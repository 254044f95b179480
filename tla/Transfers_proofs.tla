-------------------------- MODULE Transfers_proofs --------------------------
(***************************************************************************)
(* Proofs of the safety properties of Transfers, for any number of users,  *)
(* wallets, keys and concurrent requests.                                  *)
(***************************************************************************)
EXTENDS Transfers, WalletStore_proofs

-----------------------------------------------------------------------------
(* The control part of the inductive invariant: types, local variables and *)
(* the row of the request that executes a key.                             *)
Control == TypeOK /\ LocalsOK /\ OneExecutor

\* Facts about the constants that every step uses.
LEMMA ConstantFacts ==
  /\ Wallet \subseteq Int /\ Null \notin Wallet
  /\ Null \notin Int /\ Null \notin Request /\ Null \notin Transfer
  /\ Amount \subseteq Nat /\ \A a \in Amount : a > 0
  /\ \A i \in Inputs : /\ i \in InitiateTransferDto
                       /\ i.from \in User /\ i.to \in Wallet /\ i.amount \in Amount
                       /\ i.currency \in Currency /\ i.key \in Key
                       /\ NewTransfer(i) \in Transfer
                       /\ NewTransfer(i).status = "PENDING"
PROOF
  <1>1. Wallet \subseteq Int /\ Null \notin Wallet /\ Null \notin Int
    <2>1. Wallet \subseteq Nat BY WalletAssumption
    <2>2. Null \notin Int BY NullAssumption
    <2>3. \A w \in Wallet : w \in Int BY <2>1
    <2>4. Null \notin Wallet BY <2>2, <2>3
    <2> QED BY <2>2, <2>3, <2>4
  <1>2. Null \notin Request /\ Null \notin Transfer
    BY NullAssumption, RequestAssumption, NullTransferAssumption
  <1>3. Amount \subseteq Nat /\ \A a \in Amount : a > 0
    BY AmountAssumption
  <1>4. ASSUME NEW i \in Inputs
        PROVE  /\ i \in InitiateTransferDto
               /\ i.from \in User /\ i.to \in Wallet /\ i.amount \in Amount
               /\ i.currency \in Currency /\ i.key \in Key
               /\ NewTransfer(i) \in Transfer
               /\ NewTransfer(i).status = "PENDING"
    BY InputsAssumption, WalletAssumption
    DEF InitiateTransferDto, NewTransfer, Transfer, TransferStatus
  <1> QED BY <1>1, <1>2, <1>3, <1>4

LEMMA ControlInit == Init => Control
PROOF
  <1> SUFFICES ASSUME Init PROVE Control OBVIOUS
  <1> USE DEF Init
  <1>2. StoreTypeOK
    BY StoreInitTypes
  <1>3. TypeOK
    BY <1>2, ConstantFacts DEF TypeOK, Steps, Responses
  <1>4. LocalsOK
    BY DEF LocalsOK, FoundRecipient, FoundSender
  <1>5. OneExecutor
    BY DEF OneExecutor, Executing
  <1> QED BY <1>3, <1>4, <1>5 DEF Control

\* Once both wallets are found they are two different wallets of the currency
\* of the transfer, and executeTransfer locks the one with the lower id first.
LEMMA TwoWallets ==
  ASSUME Control, NEW r \in Request, pc[r] \in FoundSender
  PROVE  /\ input[r] \in Inputs
         /\ fromWallet[r] \in Wallet /\ input[r].to \in Wallet /\ fromWallet[r] # input[r].to
         /\ CurrencyOf[fromWallet[r]] = CurrencyOf[input[r].to]
         /\ FirstWallet(r) \in Wallet /\ SecondWallet(r) \in Wallet
         /\ FirstWallet(r) < SecondWallet(r)
         /\ \/ FirstWallet(r) = fromWallet[r] /\ SecondWallet(r) = input[r].to
            \/ FirstWallet(r) = input[r].to /\ SecondWallet(r) = fromWallet[r]
PROOF
  <1>1. /\ input[r] \in Inputs
        /\ fromWallet[r] \in Wallet /\ input[r].to \in Wallet /\ fromWallet[r] # input[r].to
        /\ CurrencyOf[fromWallet[r]] = CurrencyOf[input[r].to]
    BY ConstantFacts DEF Control, LocalsOK, FoundSender, FoundRecipient, AcceptsRecipient
  <1>2. fromWallet[r] \in Int /\ input[r].to \in Int
    BY <1>1, ConstantFacts
  <1> QED BY <1>1, <1>2 DEF FirstWallet, SecondWallet, LowerFirst

\* A request that ends leaves the control part of the invariant as it was.
LEMMA AnswerKeepsControl ==
  ASSUME Control, NEW r \in Request, NEW a \in Responses,
         Answer(r, a), StoreTypeOK', UNCHANGED transfer
  PROVE  Control'
PROOF
  <1>1. TypeOK'
    BY ConstantFacts DEF Control, TypeOK, Answer, Goto, Steps
  <1>2. LocalsOK'
    BY DEF Control, TypeOK, LocalsOK, FoundRecipient, FoundSender, Answer, Goto
  <1>3. OneExecutor'
    BY DEF Control, TypeOK, OneExecutor, Executing, Answer, Goto
  <1> QED BY <1>1, <1>2, <1>3 DEF Control

LEMMA ControlStep == Control /\ [Next]_vars => Control'
PROOF
  <1> SUFFICES ASSUME Control, [Next]_vars PROVE Control'
    OBVIOUS
  <1> USE ConstantFacts
  <1>0. /\ StoreTypeOK
        /\ UNCHANGED storeVars => StoreTypeOK'
    BY DEF Control, TypeOK, StoreTypeOK, storeVars
  <1>a. "accepted" \in Responses /\ "notFound" \in Responses
        /\ "badRequest" \in Responses /\ "error" \in Responses
    BY DEF Responses
  <1>1. ASSUME NEW r \in Request, NEW i \in Inputs, Arrive(r, i)
        PROVE  Control'
    <2>1. TypeOK'
      BY <1>0, <1>1 DEF Control, TypeOK, Goto, Steps, Responses, Arrive
    <2>2. LocalsOK'
      BY <1>1 DEF Control, TypeOK, LocalsOK, FoundRecipient, FoundSender, Goto, Arrive
    <2>3. OneExecutor'
      BY <1>1 DEF Control, TypeOK, OneExecutor, Executing, Goto, Arrive
    <2> QED BY <2>1, <2>2, <2>3 DEF Control
  <1>2. ASSUME NEW r \in Request, FindRecipient(r)
        PROVE  Control'
    <2>1. CASE \E a \in {"notFound", "badRequest"} : Answer(r, a)
      BY <1>0, <1>a, <1>2, <2>1, AnswerKeepsControl DEF FindRecipient
    <2>2. CASE /\ AcceptsRecipient(input[r])
               /\ Goto(r, "findByIdempotencyKey")
               /\ UNCHANGED <<input, response, fromWallet, firstRow, secondRow, uncleared>>
      <3>1. TypeOK'
        BY <1>0, <1>2, <2>2 DEF Control, TypeOK, Goto, Steps, FindRecipient
      <3>2. LocalsOK'
        BY <1>2, <2>2 DEF Control, TypeOK, LocalsOK, FoundRecipient, FoundSender, Goto,
                          FindRecipient, AcceptsRecipient
      <3>3. OneExecutor'
        BY <1>2, <2>2 DEF Control, TypeOK, OneExecutor, Executing, Goto, FindRecipient
      <3> QED BY <3>1, <3>2, <3>3 DEF Control
    <2> QED BY <1>2, <2>1, <2>2 DEF FindRecipient
  <1>3. ASSUME NEW r \in Request, FindExisting(r)
        PROVE  Control'
    <2>1. CASE Answer(r, "accepted")
      BY <1>0, <1>a, <1>3, <2>1, AnswerKeepsControl DEF FindExisting
    <2>2. CASE /\ Goto(r, "findByUserIdAndCurrency")
               /\ UNCHANGED <<input, response, fromWallet, firstRow, secondRow, uncleared>>
      <3>1. TypeOK'
        BY <1>0, <1>3, <2>2 DEF Control, TypeOK, Goto, Steps, FindExisting
      <3>2. LocalsOK'
        BY <1>3, <2>2 DEF Control, TypeOK, LocalsOK, FoundRecipient, FoundSender, Goto,
                          FindExisting, AcceptsRecipient
      <3>3. OneExecutor'
        BY <1>3, <2>2 DEF Control, TypeOK, OneExecutor, Executing, Goto, FindExisting
      <3> QED BY <3>1, <3>2, <3>3 DEF Control
    <2> QED BY <1>3, <2>1, <2>2 DEF FindExisting
  <1>4. ASSUME NEW r \in Request, FindSender(r)
        PROVE  Control'
    <2>1. CASE Answer(r, "notFound")
      BY <1>0, <1>a, <1>4, <2>1, AnswerKeepsControl DEF FindSender
    <2>2. ASSUME NEW w \in WalletsOf(input[r].from, input[r].currency),
                 fromWallet' = [fromWallet EXCEPT ![r] = w],
                 Goto(r, "createTransfer"),
                 UNCHANGED <<input, response, firstRow, secondRow, uncleared>>
          PROVE  Control'
      <3>0. w \in Wallet /\ Owner[w] = input[r].from /\ CurrencyOf[w] = input[r].currency
        BY <1>0 DEF WalletsOf, StoreTypeOK
      <3>1. TypeOK'
        BY <1>0, <1>4, <2>2, <3>0 DEF Control, TypeOK, Goto, Steps, FindSender
      <3>2. LocalsOK'
        BY <1>4, <2>2, <3>0 DEF Control, TypeOK, LocalsOK, FoundRecipient, FoundSender, Goto,
                                FindSender, AcceptsRecipient
      <3>3. OneExecutor'
        BY <1>4, <2>2 DEF Control, TypeOK, OneExecutor, Executing, Goto, FindSender
      <3> QED BY <3>1, <3>2, <3>3 DEF Control
    <2> QED BY <1>4, <2>1, <2>2 DEF FindSender
  <1>5. ASSUME NEW r \in Request, CreateTransfer(r)
        PROVE  Control'
    <2>1. CASE Answer(r, "error") /\ UNCHANGED transfer
      BY <1>0, <1>a, <1>5, <2>1, AnswerKeepsControl DEF CreateTransfer
    <2>2. CASE /\ TransferKeyFree(input[r].key)
               /\ transfer' = [transfer EXCEPT ![input[r].key] = NewTransfer(input[r])]
               /\ Goto(r, "lockFirst")
               /\ UNCHANGED <<input, response, fromWallet, firstRow, secondRow, uncleared>>
      <3>0. pc[r] = "createTransfer" /\ input[r] \in Inputs /\ input[r].key \in Key
            /\ NewTransfer(input[r]) \in Transfer
        BY <1>5 DEF Control, LocalsOK, CreateTransfer
      <3>1. TypeOK'
        BY <1>0, <1>5, <2>2, <3>0 DEF Control, TypeOK, Goto, Steps, CreateTransfer
      <3>2. LocalsOK'
        BY <1>5, <2>2 DEF Control, TypeOK, LocalsOK, FoundRecipient, FoundSender, Goto,
                          CreateTransfer, AcceptsRecipient
      <3>3. OneExecutor'
        <4>1. \A s \in Request : Executing(s) => input[s] \in Inputs /\ input[s].key # input[r].key
          BY <2>2, <3>0 DEF Control, OneExecutor, LocalsOK, Executing, TransferKeyFree
        <4>2. \A s \in Request : Executing(s)' <=> Executing(s) \/ s = r
          BY <2>2, <3>0 DEF Control, TypeOK, Executing, Goto
        <4>3. transfer'[input[r].key] = NewTransfer(input[r])
              /\ \A s \in Request : Executing(s) => transfer'[input[s].key] = transfer[input[s].key]
          BY <2>2, <3>0, <4>1 DEF Control, TypeOK
        <4> QED
          BY <2>2, <4>1, <4>2, <4>3 DEF Control, OneExecutor, NewTransfer
      <3> QED BY <3>1, <3>2, <3>3 DEF Control
    <2> QED BY <1>5, <2>1, <2>2 DEF CreateTransfer
  <1>6. ASSUME NEW r \in Request, LockFirst(r)
        PROVE  Control'
    <2>0. FirstWallet(r) \in Wallet
      BY <1>6, TwoWallets DEF LockFirst, FoundSender
    <2>1. RowRead(FirstWallet(r)) \in Int \cup {Null}
      BY <1>0, <2>0 DEF RowRead, StoreTypeOK
    <2>2. lock' \in [Wallet -> Holder \cup {Null}]
      BY <1>0, <1>6, <2>0, RequestAssumption, Locked DEF LockFirst
    <2>3. TypeOK'
      BY <1>6, <2>1, <2>2 DEF Control, TypeOK, StoreTypeOK, Goto, Steps, LockFirst
    <2>4. LocalsOK'
      BY <1>6 DEF Control, TypeOK, LocalsOK, FoundRecipient, FoundSender, Goto, LockFirst
    <2>5. OneExecutor'
      BY <1>6 DEF Control, TypeOK, OneExecutor, Executing, Goto, LockFirst
    <2> QED BY <2>3, <2>4, <2>5 DEF Control
  <1>7. ASSUME NEW r \in Request, LockSecond(r)
        PROVE  Control'
    <2>0. SecondWallet(r) \in Wallet
      BY <1>7, TwoWallets DEF LockSecond, FoundSender
    <2>1. RowRead(SecondWallet(r)) \in Int \cup {Null}
      BY <1>0, <2>0 DEF RowRead, StoreTypeOK
    <2>2. lock' \in [Wallet -> Holder \cup {Null}]
      BY <1>0, <1>7, <2>0, RequestAssumption, Locked DEF LockSecond
    <2>3. TypeOK'
      BY <1>7, <2>1, <2>2 DEF Control, TypeOK, StoreTypeOK, Goto, Steps, LockSecond
    <2>4. LocalsOK'
      BY <1>7 DEF Control, TypeOK, LocalsOK, FoundRecipient, FoundSender, Goto, LockSecond
    <2>5. OneExecutor'
      BY <1>7 DEF Control, TypeOK, OneExecutor, Executing, Goto, LockSecond
    <2> QED BY <2>3, <2>4, <2>5 DEF Control
  <1>8. ASSUME NEW r \in Request, NEW a \in Responses, Rollback(r, a)
        PROVE  Control'
    <2>1. StoreTypeOK'
      BY <1>0, <1>8, ReleaseTypes DEF StoreTypeOK, Rollback
    <2> QED BY <1>8, <2>1, AnswerKeepsControl DEF Rollback
  <1>9. ASSUME NEW r \in Request, Commit(r)
        PROVE  Control'
    <2>0. /\ pc[r] = "execute"
          /\ input[r] \in Inputs /\ input[r].key \in Key
          /\ fromWallet[r] \in Wallet /\ input[r].to \in Wallet
          /\ input[r].amount \in Nat
      BY <1>9, TwoWallets DEF Commit, FoundSender
    <2>1. SenderRow(r) \in Int /\ ReceiverRow(r) \in Int
      BY <1>9 DEF Commit, BothFound, SenderRow, ReceiverRow, Control, TypeOK
    <2>2. transfer[input[r].key] \in Transfer
      BY <2>0 DEF Control, OneExecutor, Executing
    <2>3. transfer' \in [Key -> Transfer \cup {Null}]
      <3>1. [transfer[input[r].key] EXCEPT !.status = "COMPLETED"] \in Transfer
        BY <2>2 DEF Transfer, TransferStatus
      <3> QED BY <1>9, <2>0, <3>1 DEF Commit, Control, TypeOK
    <2>4. balance' \in [Wallet -> Int]
      <3>1. balance' = [balance EXCEPT ![fromWallet[r]] = SenderRow(r) - input[r].amount,
                                       ![input[r].to] = ReceiverRow(r) + input[r].amount]
        BY <1>9 DEF Commit, Moved
      <3>2. SenderRow(r) - input[r].amount \in Int /\ ReceiverRow(r) + input[r].amount \in Int
        BY <2>0, <2>1
      <3> QED BY <1>0, <3>1, <3>2 DEF StoreTypeOK
    <2>5. ledger' \in [Wallet -> Seq(LedgerEntry)]
      <3> DEFINE k == input[r].key
                 a == input[r].amount
                 debit == Entry("TRANSFER_OUT", a, SenderRow(r) - a, OutKey(k))
                 credit == Entry("TRANSFER_IN", a, ReceiverRow(r) + a, InKey(k))
      <3>1. debit \in LedgerEntry /\ credit \in LedgerEntry
        BY <2>0, <2>1 DEF Entry, LedgerEntry, LedgerEntryType, LedgerKey
      <3> HIDE DEF debit, credit
      <3>2. \A s \in Seq(LedgerEntry) : /\ Append(s, debit) \in Seq(LedgerEntry)
                                        /\ Append(s, credit) \in Seq(LedgerEntry)
        BY <3>1
      <3>3. ledger' = [ledger EXCEPT ![fromWallet[r]] = Append(@, debit),
                                     ![input[r].to] = Append(@, credit)]
        BY <1>9 DEF Commit, WithLegs, debit, credit
      <3> QED BY <1>0, <2>0, <3>2, <3>3 DEF StoreTypeOK
    <2>6. outbox' \in [OutboxEvent -> Nat]
      <3> DEFINE e == Event("TransferCompleted", input[r].key)
      <3>1. e \in OutboxEvent
        BY <2>0 DEF Event, OutboxEvent
      <3>2. outbox' = [outbox EXCEPT ![e] = @ + 1]
        BY <1>9 DEF Commit, SaveOutbox
      <3> HIDE DEF e
      <3> QED BY <1>0, <3>1, <3>2 DEF StoreTypeOK
    <2>7. lock' \in [Wallet -> Holder \cup {Null}]
      BY <1>0, <1>9, ReleaseTypes DEF Commit, StoreTypeOK
    <2>8. StoreTypeOK'
      BY <1>0, <1>9, <2>4, <2>5, <2>6, <2>7 DEF Commit, StoreTypeOK
    <2>9. TypeOK'
      BY <1>9, <2>0, <2>3, <2>8 DEF Commit, ClearedAfter, Goto, Steps, Control, TypeOK
    <2>10. LocalsOK'
      BY <1>9 DEF Control, TypeOK, LocalsOK, FoundRecipient, FoundSender, Goto, Commit
    <2>11. OneExecutor'
      <3>1. \A s \in Request : Executing(s)' <=> Executing(s) /\ s # r
        BY <1>9, <2>0 DEF Control, TypeOK, Executing, Goto, Commit
      <3>2. \A s \in Request : Executing(s) /\ s # r =>
              input[s].key # input[r].key /\ input[s] \in Inputs
        BY <2>0 DEF Control, OneExecutor, LocalsOK, Executing
      <3>3. \A s \in Request : Executing(s) /\ s # r =>
              transfer'[input[s].key] = transfer[input[s].key]
        BY <1>9, <2>0, <3>2 DEF Commit, Control, TypeOK
      <3> QED BY <1>9, <3>1, <3>3 DEF Commit, Control, OneExecutor, NewTransfer
    <2> QED BY <2>9, <2>10, <2>11 DEF Control
  <1>10. ASSUME NEW r \in Request, NEW w \in Wallet, Invalidate(r, w)
         PROVE  Control'
    <2>1. StoreTypeOK'
      BY <1>0, <1>10 DEF Invalidate, StoreTypeOK
    <2>2. CASE Answer(r, "accepted")
      BY <1>a, <1>10, <2>1, <2>2, AnswerKeepsControl DEF Invalidate
    <2>3. CASE /\ uncleared' = [uncleared EXCEPT ![r] = @ \ {w}]
               /\ UNCHANGED <<pc, input, response, fromWallet, firstRow, secondRow>>
      <3>1. TypeOK'
        BY <1>10, <2>1, <2>3 DEF Control, TypeOK, Invalidate
      <3>2. LocalsOK' /\ OneExecutor'
        BY <1>10, <2>3 DEF Control, LocalsOK, OneExecutor, Executing, Invalidate
      <3> QED BY <3>1, <3>2 DEF Control
    <2> QED BY <1>10, <2>2, <2>3 DEF Invalidate
  <1>11. ASSUME NEW u \in User, RemoveUser(u)
         PROVE  Control'
    <2>1. TypeOK'
      BY <1>0, <1>11 DEF RemoveUser, DeleteUser, requestVars, Control, TypeOK, StoreTypeOK
    <2>2. LocalsOK' /\ OneExecutor'
      BY <1>11 DEF RemoveUser, DeleteUser, requestVars, Control, LocalsOK, OneExecutor, Executing
    <2> QED BY <2>1, <2>2 DEF Control
  <1>12. CASE UNCHANGED vars
    <2>1. TypeOK'
      BY <1>0, <1>12 DEF vars, requestVars, Control, TypeOK
    <2>2. LocalsOK' /\ OneExecutor'
      BY <1>12 DEF vars, requestVars, Control, LocalsOK, OneExecutor, Executing
    <2> QED BY <2>1, <2>2 DEF Control
  <1> QED
    BY <1>a, <1>1, <1>2, <1>3, <1>4, <1>5, <1>6, <1>7, <1>8, <1>9, <1>10, <1>11, <1>12
    DEF Next, Progress, Locking, Fail, RejectMissingWallet, RejectInsufficient, RejectDuplicateEntry

\* Every variable keeps its type: in particular no COMMIT of executeTransfer
\* works on the row of another request's transfer or on a missing balance.
THEOREM Types == Spec => []TypeOK
PROOF
  <1>1. Control => TypeOK
    BY DEF Control
  <1> QED BY <1>1, ControlInit, ControlStep, PTL DEF Spec

-----------------------------------------------------------------------------
(* Isolation: who holds which row, and that what was read under a lock is  *)
(* still what the row holds.                                               *)
Isolation == LocksOK /\ ReadsCurrent

\* A request outside of its database transaction holds no lock.
LEMMA NoLockOutside ==
  ASSUME Control, Isolation, NEW r \in Request, pc[r] \notin {"lockSecond", "execute"}
  PROVE  /\ firstRow[r] = Null /\ secondRow[r] = Null
         /\ \A w \in Wallet : lock[w] # r
PROOF
  BY DEF Control, LocalsOK, Isolation, LocksOK

\* A step of a request outside of its transaction that touches no row.
LEMMA QuietStep ==
  ASSUME Control, Control', Isolation, NEW r \in Request,
         pc[r] \notin {"lockSecond", "execute"}, pc'[r] \notin {"lockSecond", "execute"},
         UNCHANGED <<lock, balance>>,
         \A s \in Request \ {r} :
           /\ pc'[s] = pc[s] /\ input'[s] = input[s] /\ fromWallet'[s] = fromWallet[s]
           /\ firstRow'[s] = firstRow[s] /\ secondRow'[s] = secondRow[s]
  PROVE  Isolation'
PROOF
  <1>1. firstRow'[r] = Null /\ secondRow'[r] = Null /\ \A w \in Wallet : lock'[w] # r
    BY NoLockOutside DEF Control, LocalsOK
  <1>2. \A s \in Request \ {r} : /\ FirstWallet(s)' = FirstWallet(s)
                                /\ SecondWallet(s)' = SecondWallet(s)
    BY DEF FirstWallet, SecondWallet
  <1>3. LocksOK'
    BY <1>1, <1>2 DEF Isolation, LocksOK
  <1>4. ReadsCurrent'
    BY <1>1, <1>2 DEF Isolation, ReadsCurrent
  <1> QED BY <1>3, <1>4 DEF Isolation

\* What a step of another request must leave alone for request s.
LEMMA OtherRequest ==
  ASSUME Control, Isolation, NEW s \in Request,
         FirstWallet(s)' = FirstWallet(s), SecondWallet(s)' = SecondWallet(s),
         pc'[s] = pc[s], firstRow'[s] = firstRow[s], secondRow'[s] = secondRow[s],
         \A w \in Wallet : lock'[w] = s <=> lock[w] = s,
         \A w \in Wallet : lock[w] = s => balance'[w] = balance[w]
  PROVE  LocksOK!(s)' /\ ReadsCurrent!(s)'
PROOF
  <1>1. /\ firstRow[s] # Null => FirstWallet(s) \in Wallet
        /\ secondRow[s] # Null => SecondWallet(s) \in Wallet
    BY TwoWallets DEF Control, LocalsOK, FoundSender
  <1>2. LocksOK!(s)
    BY DEF Isolation, LocksOK
  <1>3. ReadsCurrent!(s)
    BY DEF Isolation, ReadsCurrent
  <1>4. LocksOK!(s)'
    BY <1>1, <1>2
  <1> QED BY <1>1, <1>2, <1>3, <1>4

LEMMA RollbackStep ==
  ASSUME Control, Isolation, NEW r \in Request, NEW a, Rollback(r, a)
  PROVE  Isolation'
PROOF
  <1>1. firstRow'[r] = Null /\ secondRow'[r] = Null
    BY DEF Rollback, Answer, Control, TypeOK
  <1>2. \A w \in Wallet : /\ lock'[w] # r
                          /\ \A s \in Request \ {r} : lock'[w] = s <=> lock[w] = s
    BY ConstantFacts DEF Rollback, ReleaseLocks
  <1>3. ASSUME NEW s \in Request
        PROVE  LocksOK!(s)' /\ ReadsCurrent!(s)'
    <2>1. CASE s = r
      BY <1>1, <1>2, <2>1
    <2>2. CASE s # r
      <3>1. /\ FirstWallet(s)' = FirstWallet(s) /\ SecondWallet(s)' = SecondWallet(s)
            /\ pc'[s] = pc[s] /\ firstRow'[s] = firstRow[s] /\ secondRow'[s] = secondRow[s]
            /\ balance' = balance
        BY <2>2 DEF Rollback, Answer, Goto, Control, TypeOK, FirstWallet, SecondWallet
      <3> QED BY <1>2, <2>2, <3>1, OtherRequest
    <2> QED BY <2>1, <2>2
  <1> QED BY <1>3 DEF Isolation, LocksOK, ReadsCurrent

\* What COMMIT does, with the rows it holds: they are the sender's and the
\* receiver's, locked by r and as they were read.
LEMMA CommitFacts ==
  ASSUME Control, Isolation, NEW r \in Request, Commit(r)
  PROVE  /\ input[r] \in Inputs /\ input[r].key \in Key
         /\ input[r].amount \in Nat /\ input[r].amount > 0
         /\ fromWallet[r] \in Wallet /\ input[r].to \in Wallet /\ fromWallet[r] # input[r].to
         /\ CurrencyOf[fromWallet[r]] = CurrencyOf[input[r].to]
         /\ Owner[fromWallet[r]] = input[r].from
         /\ CurrencyOf[fromWallet[r]] = input[r].currency
         /\ lock[fromWallet[r]] = r /\ lock[input[r].to] = r
         /\ SenderRow(r) = balance[fromWallet[r]] /\ ReceiverRow(r) = balance[input[r].to]
         /\ balance[fromWallet[r]] \in Int /\ balance[input[r].to] \in Int
         /\ transfer[input[r].key] = NewTransfer(input[r])
PROOF
  <1>1. pc[r] = "execute" /\ firstRow[r] # Null /\ secondRow[r] # Null
    BY DEF Commit, BothFound
  <1>2. pc[r] \in FoundSender
    BY <1>1 DEF FoundSender
  <1>3. /\ lock[FirstWallet(r)] = r /\ firstRow[r] = balance[FirstWallet(r)]
        /\ lock[SecondWallet(r)] = r /\ secondRow[r] = balance[SecondWallet(r)]
    BY <1>1 DEF Isolation, LocksOK, ReadsCurrent
  <1>4. /\ lock[fromWallet[r]] = r /\ lock[input[r].to] = r
        /\ SenderRow(r) = balance[fromWallet[r]] /\ ReceiverRow(r) = balance[input[r].to]
    BY <1>2, <1>3, TwoWallets DEF SenderRow, ReceiverRow
  <1>5. input[r].amount \in Nat /\ input[r].amount > 0 /\ input[r].key \in Key
    BY <1>2, TwoWallets, ConstantFacts
  <1>6. balance[fromWallet[r]] \in Int /\ balance[input[r].to] \in Int
    BY <1>2, TwoWallets DEF Control, TypeOK, StoreTypeOK
  <1>7. transfer[input[r].key] = NewTransfer(input[r])
    BY <1>1 DEF Control, OneExecutor, Executing
  <1>8. Owner[fromWallet[r]] = input[r].from /\ CurrencyOf[fromWallet[r]] = input[r].currency
    BY <1>2 DEF Control, LocalsOK
  <1> QED BY <1>2, <1>4, <1>5, <1>6, <1>7, <1>8, TwoWallets

LEMMA IsolationStep == Control /\ Control' /\ Isolation /\ [Next]_vars => Isolation'
PROOF
  <1> SUFFICES ASSUME Control, Control', Isolation, [Next]_vars PROVE Isolation'
    OBVIOUS
  <1>1. ASSUME NEW r \in Request, NEW i \in Inputs, Arrive(r, i)
        PROVE  Isolation'
    BY <1>1, QuietStep DEF Arrive, Goto, storeVars, Control, TypeOK
  <1>2. ASSUME NEW r \in Request, FindRecipient(r)
        PROVE  Isolation'
    BY <1>2, QuietStep DEF FindRecipient, Answer, Goto, storeVars, Control, TypeOK
  <1>3. ASSUME NEW r \in Request, FindExisting(r)
        PROVE  Isolation'
    BY <1>3, QuietStep DEF FindExisting, Answer, Goto, storeVars, Control, TypeOK
  <1>4. ASSUME NEW r \in Request, FindSender(r)
        PROVE  Isolation'
    BY <1>4, QuietStep DEF FindSender, Answer, Goto, storeVars, Control, TypeOK
  <1>5. ASSUME NEW r \in Request, CreateTransfer(r)
        PROVE  Isolation'
    BY <1>5, QuietStep DEF CreateTransfer, Answer, Goto, storeVars, Control, TypeOK
  <1>6. ASSUME NEW r \in Request, LockFirst(r)
        PROVE  Isolation'
    <2>1. FirstWallet(r) \in Wallet /\ FirstWallet(r) # SecondWallet(r) /\ FirstWallet(r) \in Wallet
      BY <1>6, TwoWallets, ConstantFacts DEF LockFirst, FoundSender
    <2>2. \A s \in Request : FirstWallet(s)' = FirstWallet(s) /\ SecondWallet(s)' = SecondWallet(s)
      BY <1>6 DEF LockFirst, FirstWallet, SecondWallet
    <2>3. /\ lock[FirstWallet(r)] \in {Null, r}
          /\ lock' = [lock EXCEPT ![FirstWallet(r)] = r] \/ lock' = lock
          /\ firstRow'[r] # Null => lock'[FirstWallet(r)] = r /\ firstRow'[r] = balance[FirstWallet(r)]
      BY <1>6, <2>1 DEF LockFirst, LockRow, RowRead, RowAvailable, Control, TypeOK, StoreTypeOK
    <2>4. \A s \in Request \ {r} : \A w \in Wallet : lock'[w] = s <=> lock[w] = s
      BY <2>1, <2>3, ConstantFacts DEF Control, TypeOK, StoreTypeOK
    <2>5. \A w \in Wallet \ {FirstWallet(r)} : lock'[w] = lock[w]
      BY <2>1, <2>3 DEF Control, TypeOK, StoreTypeOK
    <2>6. ASSUME NEW s \in Request
          PROVE  LocksOK!(s)' /\ ReadsCurrent!(s)'
      <3>1. CASE s = r
        <4>1. /\ secondRow'[r] = Null /\ pc'[r] = "lockSecond" /\ balance' = balance
              /\ \A w \in Wallet : lock[w] # r
          BY <1>6, NoLockOutside DEF LockFirst, Goto, Control, TypeOK
        <4> QED BY <2>1, <2>2, <2>3, <2>5, <3>1, <4>1
      <3>2. CASE s # r
        <4>1. /\ pc'[s] = pc[s] /\ firstRow'[s] = firstRow[s] /\ secondRow'[s] = secondRow[s]
              /\ balance' = balance
          BY <1>6, <3>2 DEF LockFirst, Goto, Control, TypeOK
        <4> QED BY <2>2, <2>4, <3>2, <4>1, OtherRequest
      <3> QED BY <3>1, <3>2
    <2> QED BY <2>6 DEF Isolation, LocksOK, ReadsCurrent
  <1>7. ASSUME NEW r \in Request, LockSecond(r)
        PROVE  Isolation'
    <2>1. SecondWallet(r) \in Wallet /\ FirstWallet(r) # SecondWallet(r) /\ FirstWallet(r) \in Wallet
      BY <1>7, TwoWallets, ConstantFacts DEF LockSecond, FoundSender
    <2>2. \A s \in Request : FirstWallet(s)' = FirstWallet(s) /\ SecondWallet(s)' = SecondWallet(s)
      BY <1>7 DEF LockSecond, FirstWallet, SecondWallet
    <2>3. /\ lock[SecondWallet(r)] \in {Null, r}
          /\ lock' = [lock EXCEPT ![SecondWallet(r)] = r] \/ lock' = lock
          /\ secondRow'[r] # Null => lock'[SecondWallet(r)] = r /\ secondRow'[r] = balance[SecondWallet(r)]
      BY <1>7, <2>1 DEF LockSecond, LockRow, RowRead, RowAvailable, Control, TypeOK, StoreTypeOK
    <2>4. \A s \in Request \ {r} : \A w \in Wallet : lock'[w] = s <=> lock[w] = s
      BY <2>1, <2>3, ConstantFacts DEF Control, TypeOK, StoreTypeOK
    <2>5. \A w \in Wallet \ {SecondWallet(r)} : lock'[w] = lock[w]
      BY <2>1, <2>3 DEF Control, TypeOK, StoreTypeOK
    <2>6. ASSUME NEW s \in Request
          PROVE  LocksOK!(s)' /\ ReadsCurrent!(s)'
      <3>1. CASE s = r
        <4>1. /\ firstRow'[r] = firstRow[r] /\ pc'[r] = "execute" /\ balance' = balance
              /\ firstRow[r] # Null => /\ lock[FirstWallet(r)] = r
                                       /\ firstRow[r] = balance[FirstWallet(r)]
              /\ \A w \in Wallet : lock[w] = r => w = FirstWallet(r)
          BY <1>7 DEF LockSecond, Goto, Control, TypeOK, Isolation, LocksOK, ReadsCurrent
        <4>2. lock'[FirstWallet(r)] = lock[FirstWallet(r)]
          BY <2>1, <2>5
        <4>3. \A w \in Wallet : lock'[w] = r => w = FirstWallet(r) \/ w = SecondWallet(r)
          BY <2>5, <4>1
        <4> QED BY <2>2, <2>3, <3>1, <4>1, <4>2, <4>3
      <3>2. CASE s # r
        <4>1. /\ pc'[s] = pc[s] /\ firstRow'[s] = firstRow[s] /\ secondRow'[s] = secondRow[s]
              /\ balance' = balance
          BY <1>7, <3>2 DEF LockSecond, Goto, Control, TypeOK
        <4> QED BY <2>2, <2>4, <3>2, <4>1, OtherRequest
      <3> QED BY <3>1, <3>2
    <2> QED BY <2>6 DEF Isolation, LocksOK, ReadsCurrent
  <1>8. ASSUME NEW r \in Request, NEW a, Rollback(r, a)
        PROVE  Isolation'
    BY <1>8, RollbackStep
  <1>9. ASSUME NEW r \in Request, Commit(r)
        PROVE  Isolation'
    <2>1. firstRow'[r] = Null /\ secondRow'[r] = Null
      BY <1>9 DEF Commit, Control, TypeOK
    <2>2. \A w \in Wallet : /\ lock'[w] # r
                            /\ \A s \in Request \ {r} : lock'[w] = s <=> lock[w] = s
      BY <1>9, ConstantFacts DEF Commit, ReleaseLocks
    <2>3. balance' = [balance EXCEPT ![fromWallet[r]] = SenderRow(r) - input[r].amount,
                                     ![input[r].to] = ReceiverRow(r) + input[r].amount]
      BY <1>9 DEF Commit, Moved
    <2>4. \A w \in Wallet : lock[w] # r => balance'[w] = balance[w]
      BY <1>9, <2>3, CommitFacts DEF Control, TypeOK, StoreTypeOK
    <2>5. ASSUME NEW s \in Request
          PROVE  LocksOK!(s)' /\ ReadsCurrent!(s)'
      <3>1. CASE s = r
        BY <2>1, <2>2, <3>1
      <3>2. CASE s # r
        <4>1. /\ FirstWallet(s)' = FirstWallet(s) /\ SecondWallet(s)' = SecondWallet(s)
              /\ pc'[s] = pc[s] /\ firstRow'[s] = firstRow[s] /\ secondRow'[s] = secondRow[s]
          BY <1>9, <3>2 DEF Commit, Goto, Control, TypeOK, FirstWallet, SecondWallet
        <4> QED BY <2>2, <2>4, <3>2, <4>1, OtherRequest
      <3> QED BY <3>1, <3>2
    <2> QED BY <2>5 DEF Isolation, LocksOK, ReadsCurrent
  <1>10. ASSUME NEW r \in Request, NEW w \in Wallet, Invalidate(r, w)
         PROVE  Isolation'
    BY <1>10, QuietStep DEF Invalidate, Answer, Goto, Control, TypeOK
  <1>11. CASE UNCHANGED <<lock, balance, requestVars>>
    <2>1. \A s \in Request : FirstWallet(s)' = FirstWallet(s) /\ SecondWallet(s)' = SecondWallet(s)
      BY <1>11 DEF requestVars, FirstWallet, SecondWallet
    <2> QED BY <1>11, <2>1 DEF requestVars, Isolation, LocksOK, ReadsCurrent
  <1>12. ASSUME NEW u \in User, RemoveUser(u)
         PROVE  Isolation'
    BY <1>11, <1>12 DEF RemoveUser, DeleteUser
  <1>13. CASE UNCHANGED vars
    BY <1>11, <1>13 DEF vars, storeVars
  <1> QED
    BY <1>1, <1>2, <1>3, <1>4, <1>5, <1>6, <1>7, <1>8, <1>9, <1>10, <1>12, <1>13
    DEF Next, Progress, Locking, Fail, RejectMissingWallet, RejectInsufficient, RejectDuplicateEntry

LEMMA IsolationInit == Init => Isolation
PROOF
  BY ConstantFacts DEF Init, StoreInit, Isolation, LocksOK, ReadsCurrent

LEMMA IsolationInvariant == Spec => [](Control /\ Isolation)
PROOF
  BY ControlInit, ControlStep, IsolationInit, IsolationStep, PTL DEF Spec

\* However duplicate requests interleave, at most one of them executes a key,
\* on the row it inserted itself.
THEOREM OneExecutorHolds == Spec => []OneExecutor
PROOF
  <1>1. Control => OneExecutor
    BY DEF Control
  <1> QED BY <1>1, IsolationInvariant, PTL

\* No update is lost: the balances executeTransfer computes with are the ones
\* in the rows when it commits.
THEOREM ReadsCurrentHolds == Spec => []ReadsCurrent
PROOF
  <1>1. Isolation => ReadsCurrent
    BY DEF Isolation
  <1> QED BY <1>1, IsolationInvariant, PTL

-----------------------------------------------------------------------------
(* The books: what the ledger, the balances and the outbox say.            *)
Books == AuditTrail /\ NeverOverdrawn /\ BookedOnce /\ DoubleEntry

LEMMA BooksInit == Init => Books
PROOF
  <1> SUFFICES ASSUME Init PROVE Books OBVIOUS
  <1>1. StoreInit
    BY DEF Init
  <1>2. AuditTrail /\ NeverOverdrawn /\ BookedOnce
    BY <1>1, OpeningBooks DEF StoreBooks
  <1>3. DoubleEntry
    <2>1. \A k \in Key : ~Completed(k)
      BY DEF Init, Completed
    <2>2. \A k \in Key : outbox[Event("TransferCompleted", k)] = 0
      <3> SUFFICES ASSUME NEW k \in Key PROVE outbox[Event("TransferCompleted", k)] = 0
        OBVIOUS
      <3>1. Event("TransferCompleted", k) \in OutboxEvent
        BY DEF Event, OutboxEvent
      <3>2. \A w \in Wallet : Event("TransferCompleted", k) # Event("DepositSucceeded", OpeningKey[w])
        BY DEF Event
      <3> QED BY <1>1, <3>1, <3>2 DEF StoreInit
    <2>3. \A k \in Key, w \in Wallet : \A i \in 1..Len(ledger[w]) :
            ~Leg(w, i, "TRANSFER_OUT", OutKey(k)) /\ ~Leg(w, i, "TRANSFER_IN", InKey(k))
      BY <1>1, OpeningLedger DEF Leg
    <2> QED BY <2>1, <2>2, <2>3 DEF DoubleEntry
  <1> QED BY <1>2, <1>3 DEF Books

\* Only the COMMIT of executeTransfer touches the books.
LEMMA OnlyCommit ==
  ASSUME Control, [Next]_vars, ~ \E r \in Request : Commit(r)
  PROVE  /\ UNCHANGED <<balance, ledger, outbox>>
         /\ \A k \in Key : Completed(k)' <=> Completed(k)
         /\ \A k \in Key : transfer[k] # Null => transfer'[k] = transfer[k]
PROOF
  <1>1. ASSUME NEW r \in Request, CreateTransfer(r)
        PROVE  /\ UNCHANGED <<balance, ledger, outbox>>
               /\ \A k \in Key : Completed(k)' <=> Completed(k)
               /\ \A k \in Key : transfer[k] # Null => transfer'[k] = transfer[k]
    <2>1. input[r] \in Inputs
      BY <1>1 DEF CreateTransfer, Control, LocalsOK
    <2>2. CASE UNCHANGED transfer
      BY <1>1, <2>2 DEF CreateTransfer, storeVars, Completed
    <2>3. CASE /\ transfer[input[r].key] = Null
               /\ transfer' = [transfer EXCEPT ![input[r].key] = NewTransfer(input[r])]
      BY <1>1, <2>1, <2>3, ConstantFacts
      DEF CreateTransfer, storeVars, Completed, Control, TypeOK
    <2> QED BY <1>1, <2>2, <2>3 DEF CreateTransfer, TransferKeyFree
  <1>2. CASE UNCHANGED <<balance, ledger, outbox, transfer>>
    BY <1>2 DEF Completed
  <1>3. ASSUME NEW r \in Request,
               \/ \E i \in Inputs : Arrive(r, i)
               \/ FindRecipient(r) \/ FindExisting(r) \/ FindSender(r)
               \/ LockFirst(r) \/ LockSecond(r)
               \/ \E a : Rollback(r, a)
               \/ \E w \in Wallet : Invalidate(r, w)
        PROVE  UNCHANGED <<balance, ledger, outbox, transfer>>
    BY <1>3 DEF Arrive, FindRecipient, FindExisting, FindSender, LockFirst, LockSecond,
                Rollback, Invalidate, storeVars
  <1>4. ASSUME NEW u \in User, RemoveUser(u)
        PROVE  UNCHANGED <<balance, ledger, outbox, transfer>>
    BY <1>4 DEF RemoveUser, DeleteUser
  <1>5. CASE UNCHANGED vars
    BY <1>2, <1>5 DEF vars, storeVars
  <1> QED
    BY <1>1, <1>2, <1>3, <1>4, <1>5
    DEF Next, Progress, Locking, Fail, RejectMissingWallet, RejectInsufficient, RejectDuplicateEntry

\* The COMMIT of a transfer of amount a from wallet v to wallet u, under key
\* k, with its two entries, keeps the books.
LEMMA CommitBooks ==
  ASSUME Control, Control', Isolation, Books, NEW r \in Request, Commit(r),
         NEW v, v = fromWallet[r], NEW u, u = input[r].to,
         NEW a, a = input[r].amount, NEW k, k = input[r].key,
         NEW debit, debit = Entry("TRANSFER_OUT", a, balance[v] - a, OutKey(k)),
         NEW credit, credit = Entry("TRANSFER_IN", a, balance[u] + a, InKey(k))
  PROVE  Books'
PROOF
  <1>0. /\ v \in Wallet /\ u \in Wallet /\ v # u /\ k \in Key
        /\ a \in Nat /\ a > 0 /\ balance[v] \in Int /\ balance[u] \in Int
        /\ input[r] \in Inputs
        /\ transfer[k] = NewTransfer(input[r])
        /\ Owner[v] = input[r].from /\ CurrencyOf[v] = input[r].currency
        /\ CurrencyOf[u] = input[r].currency
        /\ SenderRow(r) = balance[v] /\ ReceiverRow(r) = balance[u]
    BY CommitFacts
  <1>a. v \in Wallet /\ u \in Wallet /\ v # u /\ k \in Key
    BY <1>0
  <1>b. a \in Nat /\ a > 0 /\ balance[v] \in Int /\ balance[u] \in Int
    BY <1>0
  <1>1. /\ balance' = [balance EXCEPT ![v] = balance[v] - a, ![u] = balance[u] + a]
        /\ ledger' = [ledger EXCEPT ![v] = Append(@, debit), ![u] = Append(@, credit)]
        /\ transfer' = [transfer EXCEPT ![k].status = "COMPLETED"]
        /\ outbox' = [outbox EXCEPT ![Event("TransferCompleted", k)] = @ + 1]
    BY <1>0 DEF Commit, Moved, WithLegs, SaveOutbox
  <1>2. balance[v] - a >= 0
    BY <1>0 DEF Commit, Sufficient
  <1>3. ~LedgerKeyTaken(OutKey(k)) /\ ~LedgerKeyTaken(InKey(k))
    BY DEF Commit, LegKeysTaken
  <1>4. /\ debit.type = "TRANSFER_OUT" /\ debit.amount = a
        /\ debit.balance_after = balance[v] - a /\ debit.idempotency_key = OutKey(k)
        /\ credit.type = "TRANSFER_IN" /\ credit.amount = a
        /\ credit.balance_after = balance[u] + a /\ credit.idempotency_key = InKey(k)
    BY DEF Entry
  <1>5. Signed(debit) = -a /\ Signed(credit) = a
    BY <1>4 DEF Signed
  <1>6. \A w \in Wallet : ledger[w] \in Seq(LedgerEntry) /\ balance[w] \in Int
    BY DEF Control, TypeOK, StoreTypeOK
  <1>7. DOMAIN ledger = Wallet /\ DOMAIN balance = Wallet
    BY DEF Control, TypeOK, StoreTypeOK
  <1>8. /\ ledger'[v] = Append(ledger[v], debit) /\ balance'[v] = balance[v] - a
        /\ ledger'[u] = Append(ledger[u], credit) /\ balance'[u] = balance[u] + a
        /\ \A w \in Wallet \ {v, u} : ledger'[w] = ledger[w] /\ balance'[w] = balance[w]
    BY <1>a, <1>1, <1>7
  <1>c. EntriesStay /\ TwoEntries(v, u, debit, credit)
    <2>1. TwoAppended(v, u, debit, credit)
      BY <1>8 DEF TwoAppended
    <2>2. StoreTypeOK
      BY DEF Control, TypeOK
    <2> QED BY <1>a, <2>1, <2>2, TwoEntriesBooked
  <1>9. ASSUME NEW w \in Wallet
        PROVE  AuditTrail!(w)' /\ NeverOverdrawn!(w)'
    <2>0. \A x \in Wallet : AuditTrail!(x) /\ NeverOverdrawn!(x)
      BY DEF Books, AuditTrail, NeverOverdrawn
    <2>1. AuditTrail!(v)' /\ NeverOverdrawn!(v)'
      <3>1. /\ balance'[v] = debit.balance_after /\ debit.balance_after >= 0
            /\ debit.balance_after = balance[v] + Signed(debit) /\ Signed(debit) \in Int
        <4>1. balance'[v] = debit.balance_after
          BY <1>4, <1>8
        <4>2. debit.balance_after >= 0
          BY <1>2, <1>4
        <4>3. debit.balance_after = balance[v] + Signed(debit)
          BY <1>b, <1>4, <1>5
        <4>4. Signed(debit) \in Int
          BY <1>b, <1>5
        <4> QED BY <4>1, <4>2, <4>3, <4>4
      <3>2. ledger[v] \in Seq(LedgerEntry) /\ balance[v] \in Int
            /\ ledger'[v] = Append(ledger[v], debit) /\ v \in Wallet
        BY <1>a, <1>6, <1>8
      <3>3. AuditTrail!(v) /\ NeverOverdrawn!(v)
        BY <1>a, <2>0
      <3> QED BY <3>1, <3>2, <3>3, AppendedTrail
    <2>2. AuditTrail!(u)' /\ NeverOverdrawn!(u)'
      <3>1. AuditTrail!(u) /\ NeverOverdrawn!(u)
        BY <1>a, <2>0
      <3>2. /\ balance'[u] = credit.balance_after /\ credit.balance_after >= 0
            /\ credit.balance_after = balance[u] + Signed(credit) /\ Signed(credit) \in Int
        <4>1. balance'[u] = credit.balance_after
          BY <1>4, <1>8
        <4>2. balance[u] >= 0
          BY <3>1
        <4>3. credit.balance_after >= 0
          BY <1>b, <1>4, <4>2
        <4>4. credit.balance_after = balance[u] + Signed(credit)
          BY <1>4, <1>5
        <4>5. Signed(credit) \in Int
          BY <1>b, <1>5
        <4> QED BY <4>1, <4>3, <4>4, <4>5
      <3>3. ledger[u] \in Seq(LedgerEntry) /\ balance[u] \in Int
            /\ ledger'[u] = Append(ledger[u], credit) /\ u \in Wallet
        BY <1>a, <1>6, <1>8
      <3> QED BY <3>1, <3>2, <3>3, AppendedTrail
    <2>3. CASE w \in Wallet \ {v, u}
      BY <1>8, <2>0, <2>3, UntouchedTrail
    <2> QED BY <2>1, <2>2, <2>3
  <1>10. AuditTrail' /\ NeverOverdrawn'
    BY <1>9 DEF AuditTrail, NeverOverdrawn
  <1>11. BookedOnce'
    <2>1. \A w \in Wallet : \A i \in 1..Len(ledger[w]) :
            ledger[w][i].idempotency_key # OutKey(k) /\ ledger[w][i].idempotency_key # InKey(k)
      BY <1>3 DEF LedgerKeyTaken
    <2>2. OutKey(k) # InKey(k)
      BY <1>a, LegKeys
    <2> SUFFICES ASSUME NEW x \in Wallet, NEW y \in Wallet,
                        NEW i \in 1..Len(ledger'[x]), NEW j \in 1..Len(ledger'[y]),
                        ledger'[x][i].idempotency_key = ledger'[y][j].idempotency_key
                 PROVE  x = y /\ i = j
      BY DEF BookedOnce
    <2>a. \/ j \in 1..Len(ledger[y]) /\ ledger'[y][j] = ledger[y][j]
          \/ y = v /\ j = Len(ledger[v]) + 1 /\ ledger'[y][j] = debit
          \/ y = u /\ j = Len(ledger[u]) + 1 /\ ledger'[y][j] = credit
      BY <1>c DEF TwoEntries
    <2>b. ledger'[y][j] = ledger[y][j] /\ j \in 1..Len(ledger[y]) =>
            /\ ledger'[y][j].idempotency_key # OutKey(k)
            /\ ledger'[y][j].idempotency_key # InKey(k)
      BY <2>1
    <2>3. CASE i \in 1..Len(ledger[x]) /\ ledger'[x][i] = ledger[x][i]
      <3>1. CASE j \in 1..Len(ledger[y]) /\ ledger'[y][j] = ledger[y][j]
        BY <2>3, <3>1 DEF Books, BookedOnce
      <3>2. /\ ledger'[x][i].idempotency_key # OutKey(k)
            /\ ledger'[x][i].idempotency_key # InKey(k)
        BY <2>1, <2>3
      <3> QED BY <1>4, <2>a, <3>1, <3>2
    <2>4. CASE x = v /\ i = Len(ledger[v]) + 1 /\ ledger'[x][i] = debit
      <3>1. ledger'[x][i].idempotency_key = OutKey(k)
        BY <1>4, <2>4
      <3> QED BY <1>4, <2>2, <2>4, <2>a, <2>b, <3>1
    <2>5. CASE x = u /\ i = Len(ledger[u]) + 1 /\ ledger'[x][i] = credit
      <3>1. ledger'[x][i].idempotency_key = InKey(k)
        BY <1>4, <2>5
      <3> QED BY <1>4, <2>2, <2>5, <2>a, <2>b, <3>1
    <2> QED BY <1>c, <2>3, <2>4, <2>5 DEF TwoEntries
  <1>12. DoubleEntry'
    <2> SUFFICES ASSUME NEW l \in Key
                 PROVE  DoubleEntry!(l)'
      BY DEF DoubleEntry
    <2>0. DoubleEntry!(l)
      BY DEF Books, DoubleEntry
    <2>1. CASE l = k
      <3>0. /\ transfer[k] = NewTransfer(input[r])
            /\ Owner[v] = input[r].from /\ CurrencyOf[v] = input[r].currency
            /\ CurrencyOf[u] = input[r].currency
        BY <1>0
      <3>1. /\ transfer'[k] # Null
            /\ transfer'[k].status = "COMPLETED"
            /\ transfer'[k].from_user = Owner[v] /\ transfer'[k].to_user = Owner[u]
            /\ transfer'[k].currency = CurrencyOf[v] /\ transfer'[k].currency = CurrencyOf[u]
            /\ transfer'[k].amount = a
            /\ ~Completed(k)
        <4>0. DOMAIN transfer = Key /\ transfer'[k] \in Transfer \cup {Null}
          BY <1>a DEF Control, TypeOK
        <4>1. transfer'[k] = [NewTransfer(input[r]) EXCEPT !.status = "COMPLETED"]
          BY <1>a, <1>1, <3>0, <4>0
        <4>2. transfer'[k].status = "COMPLETED"
          BY <4>1 DEF NewTransfer
        <4>3. transfer'[k] # Null
          <5>1. NewTransfer(input[r]) \in Transfer
            BY <1>0, ConstantFacts
          <5>2. transfer'[k] \in Transfer
            BY <4>1, <5>1 DEF Transfer, TransferStatus
          <5> QED BY <5>2, ConstantFacts
        <4>4. ~Completed(k)
          BY <3>0 DEF Completed, NewTransfer
        <4>5. transfer'[k].from_user = Owner[v] /\ transfer'[k].currency = CurrencyOf[v]
          BY <3>0, <4>1 DEF NewTransfer
        <4>6. transfer'[k].to_user = Owner[u] /\ transfer'[k].currency = CurrencyOf[u]
          BY <3>0, <4>1 DEF NewTransfer
        <4>7. transfer'[k].amount = a
          BY <4>1 DEF NewTransfer
        <4> QED BY <4>2, <4>3, <4>4, <4>5, <4>6, <4>7
      <3>2. outbox'[Event("TransferCompleted", k)] = 1
        <4>1. Event("TransferCompleted", k) \in OutboxEvent
          BY <1>a DEF Event, OutboxEvent
        <4>2. DOMAIN outbox = OutboxEvent
          BY DEF Control, TypeOK, StoreTypeOK
        <4>3. outbox[Event("TransferCompleted", k)] = 0
          BY <2>0, <2>1, <3>1
        <4> QED BY <1>1, <4>1, <4>2, <4>3
      <3>3. PICK m \in 1..Len(ledger'[v]) : ledger'[v][m] = debit
        <4>1. Len(ledger[v]) + 1 \in 1..Len(ledger'[v])
          BY <1>c DEF TwoEntries
        <4>2. ledger'[v][Len(ledger[v]) + 1] = debit
          BY <1>c DEF TwoEntries
        <4> QED BY <4>1, <4>2
      <3>4. PICK n \in 1..Len(ledger'[u]) : ledger'[u][n] = credit
        <4>1. Len(ledger[u]) + 1 \in 1..Len(ledger'[u])
          BY <1>c DEF TwoEntries
        <4>2. ledger'[u][Len(ledger[u]) + 1] = credit
          BY <1>c DEF TwoEntries
        <4> QED BY <4>1, <4>2
      <3>5. Leg(v, m, "TRANSFER_OUT", OutKey(k))' /\ Leg(u, n, "TRANSFER_IN", InKey(k))'
        BY <1>4, <3>3, <3>4 DEF Leg
      <3>6. HasLeg(transfer[k].from_user, transfer[k], "TRANSFER_OUT", OutKey(k))'
        BY <1>4, <1>a, <3>1, <3>3, <3>5 DEF HasLeg
      <3>7. HasLeg(transfer[k].to_user, transfer[k], "TRANSFER_IN", InKey(k))'
        BY <1>4, <1>a, <3>1, <3>4, <3>5 DEF HasLeg
      <3> QED BY <2>1, <3>1, <3>2, <3>6, <3>7 DEF Completed
    <2>2. CASE l # k
      <3>1. transfer'[l] = transfer[l]
        BY <1>a, <1>1, <2>2 DEF Control, TypeOK
      <3>2. outbox'[Event("TransferCompleted", l)] = outbox[Event("TransferCompleted", l)]
        <4>1. Event("TransferCompleted", k) # Event("TransferCompleted", l)
          BY <2>2 DEF Event
        <4>2. DOMAIN outbox = OutboxEvent
          BY DEF Control, TypeOK, StoreTypeOK
        <4>3. Event("TransferCompleted", l) \in OutboxEvent
          BY DEF Event, OutboxEvent
        <4> QED BY <1>1, <4>1, <4>2, <4>3
      <3>3. Completed(l)' <=> Completed(l)
        BY <3>1 DEF Completed
      <3>4. ASSUME NEW t, NEW o, NEW type, NEW key, HasLeg(o, t, type, key)
            PROVE  HasLeg(o, t, type, key)'
        BY <1>c, <3>4 DEF EntriesStay, HasLeg, Leg
      <3>5. ASSUME NEW w \in Wallet, NEW i \in 1..Len(ledger'[w]), ~Completed(l)
            PROVE  /\ ~Leg(w, i, "TRANSFER_OUT", OutKey(l))'
                   /\ ~Leg(w, i, "TRANSFER_IN", InKey(l))'
        <4>1. OutKey(l) # OutKey(k) /\ InKey(l) # InKey(k)
          BY <1>a, <2>2, LegKeys
        <4>2. CASE i \in 1..Len(ledger[w]) /\ ledger'[w][i] = ledger[w][i]
          <5>1. ~Leg(w, i, "TRANSFER_OUT", OutKey(l)) /\ ~Leg(w, i, "TRANSFER_IN", InKey(l))
            BY <2>0, <3>5, <4>2
          <5> QED BY <4>2, <5>1 DEF Leg
        <4>3. CASE ledger'[w][i] = debit
          <5>1. debit.type # "TRANSFER_IN" /\ debit.idempotency_key # OutKey(l)
            BY <1>4, <4>1
          <5> QED BY <4>3, <5>1 DEF Leg
        <4>4. CASE ledger'[w][i] = credit
          <5>1. credit.type # "TRANSFER_OUT" /\ credit.idempotency_key # InKey(l)
            BY <1>4, <4>1
          <5> QED BY <4>4, <5>1 DEF Leg
        <4> QED BY <1>c, <4>2, <4>3, <4>4 DEF TwoEntries
      <3> QED BY <2>0, <3>1, <3>2, <3>3, <3>4, <3>5
    <2> QED BY <2>1, <2>2
  <1> QED BY <1>10, <1>11, <1>12 DEF Books

LEMMA BooksStep == Control /\ Control' /\ Isolation /\ Books /\ [Next]_vars => Books'
PROOF
  <1> SUFFICES ASSUME Control, Control', Isolation, Books, [Next]_vars PROVE Books'
    OBVIOUS
  <1>1. ASSUME NEW r \in Request, Commit(r) PROVE Books'
    BY <1>1, CommitBooks
  <1>2. CASE ~ \E r \in Request : Commit(r)
    <2>1. /\ UNCHANGED <<balance, ledger, outbox>>
          /\ \A k \in Key : Completed(k)' <=> Completed(k)
          /\ \A k \in Key : transfer[k] # Null => transfer'[k] = transfer[k]
      BY <1>2, OnlyCommit
    <2>2. AuditTrail' /\ NeverOverdrawn' /\ BookedOnce'
      <3>1. ledger' = ledger /\ balance' = balance
        BY <2>1
      <3>2. AuditTrail'
        BY <3>1 DEF Books, AuditTrail, BalanceAfter
      <3>3. NeverOverdrawn'
        BY <3>1 DEF Books, NeverOverdrawn
      <3>4. BookedOnce'
        BY <3>1 DEF Books, BookedOnce
      <3> QED BY <3>2, <3>3, <3>4
    <2>3. DoubleEntry'
      <3> SUFFICES ASSUME NEW l \in Key
                   PROVE  DoubleEntry!(l)'
        BY DEF DoubleEntry
      <3>0. DoubleEntry!(l)
        BY DEF Books, DoubleEntry
      <3>1. Completed(l) => transfer'[l] = transfer[l]
        BY <2>1 DEF Completed
      <3>2. ASSUME NEW t, NEW o, NEW type, NEW key
            PROVE  HasLeg(o, t, type, key)' <=> HasLeg(o, t, type, key)
        BY <2>1 DEF HasLeg, Leg
      <3>3. CASE Completed(l)
        BY <2>1, <3>0, <3>1, <3>2, <3>3
      <3>4. CASE ~Completed(l)
        BY <2>1, <3>0, <3>4 DEF Leg
      <3> QED BY <3>3, <3>4
    <2> QED BY <2>2, <2>3 DEF Books
  <1> QED BY <1>1, <1>2

LEMMA BooksInvariant == Spec => []Books
PROOF
  BY ControlInit, ControlStep, IsolationInit, IsolationStep, BooksInit, BooksStep, PTL DEF Spec

\* The balance of every wallet follows from its ledger, entry by entry: no
\* concurrent transfer overwrites the effect of another.
THEOREM AuditTrailHolds == Spec => []AuditTrail
PROOF
  <1>1. Books => AuditTrail
    BY DEF Books
  <1> QED BY <1>1, BooksInvariant, PTL

\* The check "senderNewBalance < 0" on the locked row keeps every balance, and
\* every balance the ledger ever recorded, non-negative.
THEOREM NeverOverdrawnHolds == Spec => []NeverOverdrawn
PROOF
  <1>1. Books => NeverOverdrawn
    BY DEF Books
  <1> QED BY <1>1, BooksInvariant, PTL

\* No idempotency key is booked twice, whatever retries and crashes there are.
THEOREM BookedOnceHolds == Spec => []BookedOnce
PROOF
  <1>1. Books => BookedOnce
    BY DEF Books
  <1> QED BY <1>1, BooksInvariant, PTL

\* A COMPLETED transfer has both of its ledger entries and one event, any
\* other transfer has none.
THEOREM DoubleEntryHolds == Spec => []DoubleEntry
PROOF
  <1>1. Books => DoubleEntry
    BY DEF Books
  <1> QED BY <1>1, BooksInvariant, PTL

-----------------------------------------------------------------------------
(* Lock ordering.  Each request in a circle would hold the row its          *)
(* predecessor wants and want one with a higher id: among finitely many     *)
(* wallets the ids cannot rise for ever.                                    *)
Wanted(r) == IF pc[r] = "lockFirst" THEN FirstWallet(r) ELSE SecondWallet(r)

LEMMA WaitingRises ==
  ASSUME Control, Isolation, NEW r \in Request, NEW s \in Request, NEW t,
         WaitsFor(r, s), WaitsFor(s, t)
  PROVE  Wanted(r) \in Wallet /\ Wanted(s) \in Wallet /\ Wanted(r) < Wanted(s)
PROOF
  <1>1. pc[r] \in {"lockFirst", "lockSecond"} /\ pc[s] \in {"lockFirst", "lockSecond"}
    BY DEF WaitsFor
  <1>2. pc[r] \in FoundSender /\ pc[s] \in FoundSender
    BY <1>1 DEF FoundSender
  <1>3. /\ FirstWallet(r) \in Wallet /\ SecondWallet(r) \in Wallet
        /\ FirstWallet(s) \in Wallet /\ SecondWallet(s) \in Wallet
        /\ FirstWallet(s) < SecondWallet(s)
    BY <1>2, TwoWallets
  <1>4. lock[Wanted(r)] = s /\ Wanted(r) \in Wallet
    BY <1>3 DEF WaitsFor, Wanted
  <1>5. pc[s] = "lockSecond" /\ Wanted(r) = FirstWallet(s)
    BY <1>1, <1>4 DEF Isolation, LocksOK
  <1> QED BY <1>3, <1>4, <1>5 DEF Wanted

LEMMA NoCircle == Control /\ Isolation => NoDeadlock
PROOF
  <1> SUFFICES ASSUME Control, Isolation, NEW S \in SUBSET Request, S # {},
                      \A r \in S : \E s \in S : WaitsFor(r, s)
               PROVE  FALSE
    BY DEF NoDeadlock
  <1> DEFINE Above(w) == {x \in Wallet : x > w}
             T == {Above(Wanted(r)) : r \in S}
  <1>1. IsWellFoundedOn(StrictSubsetOrdering(Wallet), SUBSET Wallet)
    BY WalletAssumption, FS_StrictSubsetOrderingWellFounded, FS_FiniteSubsetsOfFinite
  <1>2. T \subseteq SUBSET Wallet /\ T # {}
    OBVIOUS
  <1>3. PICK A \in T : \A B \in T : <<B, A>> \notin StrictSubsetOrdering(Wallet)
    BY <1>1, <1>2, WFMin
  <1>4. PICK r \in S : A = Above(Wanted(r))
    BY <1>3
  <1>5. PICK s \in S : WaitsFor(r, s)
    OBVIOUS
  <1>6. Wanted(r) \in Wallet /\ Wanted(s) \in Wallet /\ Wanted(r) < Wanted(s)
    BY <1>5, WaitingRises
  <1>7. Above(Wanted(s)) \in T /\ Above(Wanted(s)) \subseteq A /\ Above(Wanted(s)) # A
    <2>1. \A x \in Wallet : x \in Int
      BY ConstantFacts
    <2>2. Above(Wanted(s)) \subseteq Above(Wanted(r))
      BY <1>6, <2>1
    <2>3. Wanted(s) \in Above(Wanted(r)) /\ Wanted(s) \notin Above(Wanted(s))
      BY <1>6, <2>1
    <2> QED BY <1>4, <2>2, <2>3
  <1> QED BY <1>3, <1>7 DEF StrictSubsetOrdering

\* Locking the two wallets in the order of their ids: no set of transfers,
\* however large, waits in a circle.
THEOREM NoDeadlockHolds == Spec => []NoDeadlock
PROOF
  BY NoCircle, IsolationInvariant, PTL

-----------------------------------------------------------------------------
\* What COMMIT does to the transfer row.
LEMMA CommitRow ==
  ASSUME Control, Isolation, NEW r \in Request, Commit(r)
  PROVE  LET k == input[r].key
         IN  /\ transfer[k] = NewTransfer(input[r])
             /\ transfer'[k] = [transfer[k] EXCEPT !.status = "COMPLETED"]
             /\ \A l \in Key \ {k} : transfer'[l] = transfer[l]
PROOF
  BY CommitFacts DEF Commit, Control, TypeOK

\* A duplicate request never overwrites the row of a transfer, and nothing
\* takes a COMPLETED transfer back.
THEOREM TransferRowsStayHolds == Spec => TransferRowsStay
PROOF
  <1> DEFINE Stays == \A k \in Key : transfer[k] # Null =>
                        \/ transfer'[k] = transfer[k]
                        \/ /\ transfer[k].status = "PENDING"
                           /\ transfer'[k] = [transfer[k] EXCEPT !.status = "COMPLETED"]
  <1>1. ASSUME Control, Isolation, [Next]_vars
        PROVE  [Stays]_vars
    <2>1. ASSUME NEW r \in Request, Commit(r) PROVE Stays
      <3>1. input[r] \in Inputs
        BY <1>1, <2>1, CommitFacts
      <3>2. NewTransfer(input[r]).status = "PENDING"
        BY <3>1, ConstantFacts
      <3> QED BY <1>1, <2>1, <3>2, CommitRow
    <2>2. CASE ~ \E r \in Request : Commit(r)
      BY <1>1, <2>2, OnlyCommit
    <2> QED BY <2>1, <2>2
  <1>2. (Control /\ Isolation) /\ [Next]_vars => [Stays]_vars
    BY <1>1
  <1> QED BY <1>2, IsolationInvariant, PTL DEF Spec, TransferRowsStay

-----------------------------------------------------------------------------
(* Transfers implement the bank.                                           *)
LEMMA WalletOfOwn ==
  ASSUME NEW w \in Wallet
  PROVE  WalletOf(Owner[w], CurrencyOf[w]) = w
PROOF
  BY WalletAssumption DEF WalletOf

LEMMA BankInit == Init => TheBank!Init
PROOF
  <1> SUFFICES ASSUME Init PROVE TheBank!Init OBVIOUS
  <1>1. \A k \in Key : Movement(k) = Null
    BY DEF Init, Completed, Movement
  <1>2. balance = Opening
    BY DEF Init, StoreInit
  <1> QED BY <1>1, <1>2 DEF TheBank!Init

\* The COMMIT of a transfer is one movement under a fresh key.
LEMMA CommitMoves ==
  ASSUME Control, Isolation, NEW r \in Request, Commit(r)
  PROVE  \E k \in Key, v \in Wallet, w \in Wallet, a \in Amount :
           /\ Movement(k) = Null /\ v # w /\ CurrencyOf[v] = CurrencyOf[w]
           /\ balance[v] >= a
           /\ balance' = [balance EXCEPT ![v] = @ - a, ![w] = @ + a]
           /\ balance' # balance
           /\ [l \in Key |-> Movement(l)]' =
                [[l \in Key |-> Movement(l)] EXCEPT ![k] = [from |-> v, to |-> w, amount |-> a]]
PROOF
  <1>1. PICK v \in Wallet, w \in Wallet, k \in Key, a \in Nat :
          /\ v = fromWallet[r] /\ w = input[r].to /\ k = input[r].key /\ a = input[r].amount
          /\ v # w
          /\ CurrencyOf[v] = CurrencyOf[w]
          /\ Owner[v] = input[r].from /\ CurrencyOf[v] = input[r].currency
          /\ SenderRow(r) = balance[v] /\ ReceiverRow(r) = balance[w]
          /\ balance[v] \in Int /\ balance[w] \in Int
          /\ input[r] \in Inputs
          /\ transfer[k] = NewTransfer(input[r])
    BY CommitFacts
  <1>2. a \in Amount
    BY <1>1, ConstantFacts
  <1>3. balance[v] - a >= 0 /\ balance[v] >= a
    BY <1>1 DEF Commit, Sufficient
  <1>4. balance' = [balance EXCEPT ![v] = @ - a, ![w] = @ + a]
    BY <1>1 DEF Commit, Moved
  <1>5. Movement(k) = Null
    BY <1>1, ConstantFacts DEF Movement, Completed
  <1>6. /\ transfer'[k] = [NewTransfer(input[r]) EXCEPT !.status = "COMPLETED"]
        /\ \A l \in Key \ {k} : transfer'[l] = transfer[l]
    BY <1>1, CommitRow
  <1>7. Movement(k)' = [from |-> v, to |-> w, amount |-> a]
    <2>1. /\ transfer'[k].status = "COMPLETED" /\ transfer'[k] # Null
          /\ transfer'[k].from_user = Owner[v] /\ transfer'[k].to_user = Owner[w]
          /\ transfer'[k].currency = CurrencyOf[v] /\ transfer'[k].currency = CurrencyOf[w]
          /\ transfer'[k].amount = a
      <3>1. transfer'[k] \in Transfer
        BY <1>1, <1>6, ConstantFacts DEF Transfer, TransferStatus
      <3> QED BY <1>1, <1>6, <3>1, ConstantFacts DEF NewTransfer
    <2>2. WalletOf(Owner[v], CurrencyOf[v]) = v /\ WalletOf(Owner[w], CurrencyOf[w]) = w
      BY <1>1, WalletOfOwn
    <2> QED BY <2>1, <2>2 DEF Movement, Completed, WalletOf
  <1>8. \A l \in Key \ {k} : Movement(l)' = Movement(l)
    BY <1>6 DEF Movement, Completed
  <1>9. [l \in Key |-> Movement(l)]' =
          [[l \in Key |-> Movement(l)] EXCEPT ![k] = [from |-> v, to |-> w, amount |-> a]]
    BY <1>1, <1>7, <1>8
  <1>10. balance' # balance
    <2>1. a > 0
      BY <1>2, AmountAssumption
    <2>2. balance \in [Wallet -> Int]
      BY DEF Control, TypeOK, StoreTypeOK
    <2>3. balance'[w] = balance[w] + a
      BY <1>1, <1>4, <2>2
    <2> QED BY <1>1, <2>1, <2>3
  <1> a \in Amount
    BY <1>2
  <1> WITNESS k \in Key, v \in Wallet, w \in Wallet, a \in Amount
  <1> QED BY <1>1, <1>3, <1>4, <1>5, <1>9, <1>10

\* A step that completes no transfer moves nothing.
LEMMA NothingMoved ==
  ASSUME \A k \in Key : Completed(k)' <=> Completed(k),
         \A k \in Key : transfer[k] # Null => transfer'[k] = transfer[k]
  PROVE  [l \in Key |-> Movement(l)]' = [l \in Key |-> Movement(l)]
PROOF
  <1>1. \A k \in Key : Movement(k)' = Movement(k)
    BY DEF Movement, Completed
  <1> QED BY <1>1

LEMMA BankStep == Control /\ Isolation /\ [Next]_vars => [TheBank!Next]_(TheBank!bankVars)
PROOF
  <1> SUFFICES ASSUME Control, Isolation, [Next]_vars
               PROVE  [TheBank!Next]_(TheBank!bankVars)
    OBVIOUS
  <1>1. ASSUME NEW r \in Request, Commit(r)
        PROVE  TheBank!Next
    <2>1. PICK k \in Key, v \in Wallet, w \in Wallet, a \in Amount :
            /\ Movement(k) = Null /\ v # w /\ CurrencyOf[v] = CurrencyOf[w]
            /\ balance[v] >= a
            /\ balance' = [balance EXCEPT ![v] = @ - a, ![w] = @ + a]
            /\ balance' # balance
            /\ [l \in Key |-> Movement(l)]' =
                 [[l \in Key |-> Movement(l)] EXCEPT ![k] = [from |-> v, to |-> w, amount |-> a]]
      BY <1>1, CommitMoves
    <2>2. TheBank!Move(k, v, w, a)
      BY <2>1 DEF TheBank!Move
    <2> QED BY <2>1, <2>2 DEF TheBank!Next
  <1>2. CASE ~ \E r \in Request : Commit(r)
    <2>1. [l \in Key |-> Movement(l)]' = [l \in Key |-> Movement(l)] /\ balance' = balance
      BY <1>2, OnlyCommit, NothingMoved
    <2> QED BY <2>1 DEF TheBank!bankVars
  <1> QED BY <1>1, <1>2

\* Every step of any number of concurrent transfers is one atomic movement of
\* the abstract bank, or nothing to it.
THEOREM TransfersImplementBank == Spec => ImplementsBank
PROOF
  BY ControlInit, ControlStep, IsolationInit, IsolationStep,
     BankInit, BankStep, PTL DEF Spec, ImplementsBank, TheBank!Spec

-----------------------------------------------------------------------------
(* Transfers next to another component on the same store: what a step of   *)
(* theirs leaves to the other, and what they need a step of it to leave.   *)
LEMMA OthersKeepRows ==
  ASSUME Control, Isolation, [Next]_vars, NEW p, p \notin Request, p # Null
  PROVE  LeavesRowsOf(p)
PROOF
  <1> SUFFICES ASSUME NEW w \in Wallet
               PROVE  /\ lock'[w] = p <=> lock[w] = p
                      /\ lock[w] = p => balance'[w] = balance[w]
    BY DEF LeavesRowsOf
  <1>0. StoreTypeOK
    BY DEF Control, TypeOK
  <1>1. ASSUME NEW r \in Request, ReleaseLocks(r)
        PROVE  lock'[w] = p <=> lock[w] = p
    <2>1. r # Null /\ p # r
      BY ConstantFacts
    <2> QED BY <1>1, <2>1, Released
  <1>2. ASSUME NEW r \in Request, Commit(r)
        PROVE  /\ lock'[w] = p <=> lock[w] = p
               /\ lock[w] = p => balance'[w] = balance[w]
    <2>1. ReleaseLocks(r)
      BY <1>2 DEF Commit
    <2>2. lock[fromWallet[r]] = r /\ lock[input[r].to] = r
      BY <1>2, CommitFacts
    <2>3. \A x \in Wallet \ {fromWallet[r], input[r].to} : balance'[x] = balance[x]
      BY <1>0, <1>2 DEF Commit, Moved, StoreTypeOK
    <2> QED BY <1>1, <2>1, <2>2, <2>3
  <1>3. CASE ~ \E r \in Request : Commit(r)
    <2>1. balance' = balance
      BY <1>3, OnlyCommit
    <2>2. ASSUME NEW r \in Request, LockFirst(r) \/ LockSecond(r)
          PROVE  lock'[w] = p <=> lock[w] = p
      <3>1. FirstWallet(r) \in Wallet /\ SecondWallet(r) \in Wallet
        BY <2>2, TwoWallets DEF LockFirst, LockSecond, FoundSender
      <3>2. r \in Holder /\ p # r
        BY RequestAssumption
      <3> QED BY <1>0, <2>2, <3>1, <3>2, Locked DEF LockFirst, LockSecond
    <2>3. ASSUME NEW r \in Request, NEW a, Rollback(r, a)
          PROVE  lock'[w] = p <=> lock[w] = p
      BY <1>1, <2>3 DEF Rollback
    <2>4. ASSUME NEW r \in Request,
                 \/ \E i \in Inputs : Arrive(r, i)
                 \/ FindRecipient(r) \/ FindExisting(r) \/ FindSender(r) \/ CreateTransfer(r)
                 \/ \E x \in Wallet : Invalidate(r, x)
          PROVE  lock' = lock
      BY <2>4 DEF Arrive, FindRecipient, FindExisting, FindSender, CreateTransfer, Invalidate,
                  storeVars
    <2>5. ASSUME (\E u \in User : RemoveUser(u)) \/ UNCHANGED vars
          PROVE  lock' = lock
      BY <2>5 DEF RemoveUser, DeleteUser, vars, storeVars
    <2> QED
      BY <1>3, <2>1, <2>2, <2>3, <2>4, <2>5
      DEF Next, Progress, Locking, Fail, RejectMissingWallet, RejectInsufficient,
          RejectDuplicateEntry
  <1> QED BY <1>2, <1>3

LEMMA AddsItsEntries ==
  ASSUME Control, Isolation, [Next]_vars
  PROVE  AddsOnly(TransferEntry) /\ EventsStay("DepositSucceeded")
PROOF
  <1>0. StoreTypeOK
    BY DEF Control, TypeOK
  <1>1. ASSUME NEW r \in Request, Commit(r)
        PROVE  AddsOnly(TransferEntry) /\ EventsStay("DepositSucceeded")
    <2>1. PICK v \in Wallet, u \in Wallet, k \in Key, a \in Nat :
            /\ v = fromWallet[r] /\ u = input[r].to /\ k = input[r].key /\ a = input[r].amount
            /\ v # u
            /\ SenderRow(r) = balance[v] /\ ReceiverRow(r) = balance[u]
            /\ balance[v] \in Int /\ balance[u] \in Int
      BY <1>1, CommitFacts
    <2> DEFINE debit == Entry("TRANSFER_OUT", a, balance[v] - a, OutKey(k))
               credit == Entry("TRANSFER_IN", a, balance[u] + a, InKey(k))
    <2>2. debit \in TransferEntry /\ credit \in TransferEntry
      <3>1. debit \in LedgerEntry /\ credit \in LedgerEntry
        BY <2>1 DEF Entry, LedgerEntry, LedgerEntryType, LedgerKey
      <3>2. debit.type = "TRANSFER_OUT" /\ debit.idempotency_key = OutKey(k)
        BY DEF Entry
      <3>3. credit.type = "TRANSFER_IN" /\ credit.idempotency_key = InKey(k)
        BY DEF Entry
      <3> HIDE DEF debit, credit
      <3> QED BY <3>1, <3>2, <3>3 DEF TransferEntry
    <2>3. ledger' = [ledger EXCEPT ![v] = Append(@, debit), ![u] = Append(@, credit)]
      BY <1>1, <2>1 DEF Commit, WithLegs
    <2> HIDE DEF debit, credit
    <2>4. TwoAppended(v, u, debit, credit)
      BY <1>0, <2>1, <2>3 DEF TwoAppended, StoreTypeOK
    <2>5. EntriesStay /\ TwoEntries(v, u, debit, credit)
      BY <1>0, <2>4, TwoEntriesBooked
    <2>6. AddsOnly(TransferEntry)
      BY <2>2, <2>5 DEF AddsOnly, TwoEntries
    <2>7. EventsStay("DepositSucceeded")
      BY <1>0, <1>1, <2>1, SavedEvent DEF Commit, EventsStay, StoreTypeOK
    <2> QED BY <2>6, <2>7
  <1>2. CASE ~ \E r \in Request : Commit(r)
    BY <1>0, <1>2, OnlyCommit, NothingAdded DEF EventsStay
  <1> QED BY <1>1, <1>2

\* A step of the other component.
LEMMA ControlKept ==
  ASSUME Control, StoreTypeOK', UNCHANGED <<transfer, requestVars>>
  PROVE  Control'
PROOF
  <1>1. TypeOK'
    BY DEF Control, TypeOK, requestVars
  <1>2. LocalsOK'
    BY DEF Control, LocalsOK, requestVars
  <1>3. OneExecutor'
    BY DEF Control, OneExecutor, Executing, requestVars
  <1> QED BY <1>1, <1>2, <1>3 DEF Control

LEMMA IsolationKept ==
  ASSUME Control, Isolation, UNCHANGED requestVars, \A r \in Request : LeavesRowsOf(r)
  PROVE  Isolation'
PROOF
  <1>1. ASSUME NEW s \in Request
        PROVE  LocksOK!(s)' /\ ReadsCurrent!(s)'
    <2>1. /\ FirstWallet(s)' = FirstWallet(s) /\ SecondWallet(s)' = SecondWallet(s)
          /\ pc'[s] = pc[s] /\ firstRow'[s] = firstRow[s] /\ secondRow'[s] = secondRow[s]
      BY DEF requestVars, FirstWallet, SecondWallet
    <2>2. /\ \A w \in Wallet : lock'[w] = s <=> lock[w] = s
          /\ \A w \in Wallet : lock[w] = s => balance'[w] = balance[w]
      BY DEF LeavesRowsOf
    <2> QED BY <2>1, <2>2, OtherRequest
  <1> QED BY <1>1 DEF Isolation, LocksOK, ReadsCurrent

LEMMA DoubleEntryKept ==
  ASSUME DoubleEntry, UNCHANGED transfer, AddsOnly(DepositEntry), EventsStay("TransferCompleted")
  PROVE  DoubleEntry'
PROOF
  <1> SUFFICES ASSUME NEW l \in Key
               PROVE  DoubleEntry!(l)'
    BY DEF DoubleEntry
  <1>0. DoubleEntry!(l)
    BY DEF DoubleEntry
  <1>1. transfer' = transfer /\ (Completed(l)' <=> Completed(l))
    BY DEF Completed
  <1>2. outbox'[Event("TransferCompleted", l)] = outbox[Event("TransferCompleted", l)]
    BY DEF EventsStay
  <1>3. ASSUME NEW t, NEW o, NEW type, NEW key, HasLeg(o, t, type, key)
        PROVE  HasLeg(o, t, type, key)'
    BY <1>3 DEF AddsOnly, EntriesStay, HasLeg, Leg
  <1>4. ASSUME NEW w \in Wallet, NEW i \in 1..Len(ledger'[w]), ~Completed(l)
        PROVE  /\ ~Leg(w, i, "TRANSFER_OUT", OutKey(l))'
               /\ ~Leg(w, i, "TRANSFER_IN", InKey(l))'
    <2>1. CASE i \in 1..Len(ledger[w]) /\ ledger'[w][i] = ledger[w][i]
      <3>1. ~Leg(w, i, "TRANSFER_OUT", OutKey(l)) /\ ~Leg(w, i, "TRANSFER_IN", InKey(l))
        BY <1>0, <1>4, <2>1
      <3> QED BY <2>1, <3>1 DEF Leg
    <2>2. CASE ledger'[w][i] \in DepositEntry
      BY <2>2 DEF DepositEntry, Leg
    <2> QED BY <2>1, <2>2 DEF AddsOnly
  <1> QED BY <1>0, <1>1, <1>2, <1>3, <1>4
=============================================================================
