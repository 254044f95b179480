------------------------- MODULE WalletSystem_proofs -------------------------
(***************************************************************************)
(* Proofs about transfers and deposits on one store.  Every invariant of   *)
(* the two components is kept by its own steps (Transfers_proofs and       *)
(* Deposits_proofs); what is left to prove is that neither disturbs the    *)
(* other.  Then proofs about the cached balances: readers change nothing   *)
(* but the cache, which no other component reads, so the invariant of      *)
(* transfers and deposits holds next to them, and every stale balance has  *)
(* one of the causes the model names.                                      *)
(***************************************************************************)
EXTENDS BalanceReads, WalletStore_proofs

TP == INSTANCE Transfers_proofs WITH
  Request <- TransferRequest, Inputs <- TransferInputs,
  pc <- tpc, input <- tinput, response <- tresponse

DP == INSTANCE Deposits_proofs WITH
  Request <- DepositRequest, Inputs <- DepositInputs,
  pc <- dpc, input <- dinput, response <- dresponse

-----------------------------------------------------------------------------
(* The assumptions of the components' theorems hold.                       *)
LEMMA TransfersAssumptions ==
  /\ TP!WalletAssumption /\ TP!AmountAssumption /\ TP!KeyAssumption /\ TP!NullAssumption
  /\ TP!OpeningAssumption /\ TP!RequestAssumption /\ TP!InputsAssumption
  /\ TP!NullTransferAssumption
PROOF
  <1>1. TP!WalletAssumption
    BY WalletAssumption DEF TP!WalletAssumption, IsFiniteSet, TP!IsFiniteSet
  <1>2. TP!AmountAssumption
    BY AmountAssumption DEF TP!AmountAssumption
  <1>3. TP!KeyAssumption
    BY KeyAssumption DEF TP!KeyAssumption
  <1>4. TP!NullAssumption
    BY NullAssumption DEF TP!NullAssumption
  <1>5. TP!OpeningAssumption
    BY OpeningAssumption DEF TP!OpeningAssumption
  <1>6. TP!RequestAssumption
    BY ConnectionsAssumption DEF TP!RequestAssumption
  <1>7. TP!InputsAssumption
    BY ComponentsAssumption DEF TP!InputsAssumption, TP!InitiateTransferDto, T!InitiateTransferDto
  <1>8. TP!NullTransferAssumption
    BY ComponentsAssumption DEF TP!NullTransferAssumption, TP!Transfer, T!Transfer,
                                TP!TransferStatus, T!TransferStatus
  <1> QED BY <1>1, <1>2, <1>3, <1>4, <1>5, <1>6, <1>7, <1>8

LEMMA DepositsAssumptions ==
  /\ DP!WalletAssumption /\ DP!AmountAssumption /\ DP!KeyAssumption /\ DP!NullAssumption
  /\ DP!OpeningAssumption /\ DP!SlotsAssumption /\ DP!InputsAssumption
  /\ DP!DelayedMethodsAssumption /\ DP!RowsAssumption
PROOF
  <1>1. DP!WalletAssumption
    BY WalletAssumption DEF DP!WalletAssumption, IsFiniteSet, DP!IsFiniteSet
  <1>2. DP!AmountAssumption
    BY AmountAssumption DEF DP!AmountAssumption
  <1>3. DP!KeyAssumption
    BY KeyAssumption DEF DP!KeyAssumption
  <1>4. DP!NullAssumption
    BY NullAssumption DEF DP!NullAssumption
  <1>5. DP!OpeningAssumption
    BY OpeningAssumption DEF DP!OpeningAssumption
  <1>6. DP!SlotsAssumption
    BY ConnectionsAssumption DEF DP!SlotsAssumption
  <1>7. DP!InputsAssumption
    BY ComponentsAssumption DEF DP!InputsAssumption, DP!DepositDto, D!DepositDto
  <1>8. DP!DelayedMethodsAssumption
    BY ComponentsAssumption DEF DP!DelayedMethodsAssumption
  <1>9. DP!RowsAssumption
    BY ComponentsAssumption DEF DP!RowsAssumption, DP!Transaction, D!Transaction,
       DP!TransactionStatus, D!TransactionStatus, DP!EarlierSession, D!EarlierSession,
       DP!CheckoutSession, D!CheckoutSession, DP!StripeEvent, D!StripeEvent
  <1> QED BY <1>1, <1>2, <1>3, <1>4, <1>5, <1>6, <1>7, <1>8, <1>9

-----------------------------------------------------------------------------
(* The instances T and D the system is composed of, and the instances TP   *)
(* and DP its components' lemmas are about, define the same things.        *)
LEMMA SameTransfers == T!Next <=> TP!Next
PROOF
  <1> USE DEF T!Goto, TP!Goto, T!storeVars, TP!storeVars, T!Answer, TP!Answer,
          T!AcceptsRecipient, TP!AcceptsRecipient, T!WalletsOf, TP!WalletsOf, T!TransferKeyFree,
          TP!TransferKeyFree, T!NewTransfer, TP!NewTransfer, T!LockRow, TP!LockRow,
          T!RowAvailable, TP!RowAvailable, T!FirstWallet, TP!FirstWallet, T!LowerFirst,
          TP!LowerFirst, T!RowRead, TP!RowRead, T!SecondWallet, TP!SecondWallet, T!BothFound,
          TP!BothFound, T!Short, TP!Short, T!SenderRow, TP!SenderRow, T!Sufficient,
          TP!Sufficient, T!Rollback, TP!Rollback, T!ReleaseLocks, TP!ReleaseLocks,
          T!LegKeysTaken, TP!LegKeysTaken, T!LedgerKeyTaken, TP!LedgerKeyTaken, T!OutKey,
          TP!OutKey, T!InKey, TP!InKey, T!Moved, TP!Moved, T!ReceiverRow, TP!ReceiverRow,
          T!WithLegs, TP!WithLegs, T!Entry, TP!Entry, T!SaveOutbox, TP!SaveOutbox, T!Event,
          TP!Event, T!ClearedAfter, TP!ClearedAfter, T!DeleteUser, TP!DeleteUser, T!requestVars,
          TP!requestVars
  <1>1. ASSUME NEW r, NEW i PROVE T!Arrive(r, i) <=> TP!Arrive(r, i)
    BY DEF T!Arrive, TP!Arrive
  <1>2. ASSUME NEW r PROVE T!FindRecipient(r) <=> TP!FindRecipient(r)
    BY DEF T!FindRecipient, TP!FindRecipient
  <1>3. ASSUME NEW r PROVE T!FindExisting(r) <=> TP!FindExisting(r)
    BY DEF T!FindExisting, TP!FindExisting
  <1>4. ASSUME NEW r PROVE T!FindSender(r) <=> TP!FindSender(r)
    BY DEF T!FindSender, TP!FindSender
  <1>5. ASSUME NEW r PROVE T!CreateTransfer(r) <=> TP!CreateTransfer(r)
    BY DEF T!CreateTransfer, TP!CreateTransfer
  <1>6. ASSUME NEW r PROVE T!LockFirst(r) <=> TP!LockFirst(r)
    BY DEF T!LockFirst, TP!LockFirst
  <1>7. ASSUME NEW r PROVE T!LockSecond(r) <=> TP!LockSecond(r)
    BY DEF T!LockSecond, TP!LockSecond
  <1>8. ASSUME NEW r PROVE T!RejectMissingWallet(r) <=> TP!RejectMissingWallet(r)
    BY DEF T!RejectMissingWallet, TP!RejectMissingWallet
  <1>9. ASSUME NEW r PROVE T!RejectInsufficient(r) <=> TP!RejectInsufficient(r)
    BY DEF T!RejectInsufficient, TP!RejectInsufficient
  <1>10. ASSUME NEW r PROVE T!RejectDuplicateEntry(r) <=> TP!RejectDuplicateEntry(r)
    BY DEF T!RejectDuplicateEntry, TP!RejectDuplicateEntry
  <1>11. ASSUME NEW r PROVE T!Commit(r) <=> TP!Commit(r)
    BY DEF T!Commit, TP!Commit
  <1>12. ASSUME NEW r, NEW w PROVE T!Invalidate(r, w) <=> TP!Invalidate(r, w)
    BY DEF T!Invalidate, TP!Invalidate
  <1>13. ASSUME NEW r PROVE T!Fail(r) <=> TP!Fail(r)
    BY DEF T!Fail, TP!Fail
  <1>14. ASSUME NEW u PROVE T!RemoveUser(u) <=> TP!RemoveUser(u)
    BY DEF T!RemoveUser, TP!RemoveUser
  <1> QED
    BY <1>1, <1>2, <1>3, <1>4, <1>5, <1>6, <1>7, <1>8, <1>9, <1>10, <1>11, <1>12, <1>13, <1>14
    DEF T!Next, TP!Next, T!Progress, TP!Progress, T!Locking, TP!Locking

LEMMA SameTransferStates ==
  /\ T!Init <=> TP!Init
  /\ T!TypeOK <=> TP!TypeOK
  /\ \A k : T!Completed(k) <=> TP!Completed(k)
  /\ \A k : T!Movement(k) = TP!Movement(k)
  /\ \A u, c : T!WalletOf(u, c) = TP!WalletOf(u, c)
PROOF
  <1>1. T!Init <=> TP!Init
    BY DEF T!Init, TP!Init, T!StoreInit, TP!StoreInit, T!Entry, TP!Entry, T!OutboxEvent,
           TP!OutboxEvent, T!Event, TP!Event
  <1>2. T!TypeOK <=> TP!TypeOK
    BY DEF T!TypeOK, TP!TypeOK, T!StoreTypeOK, TP!StoreTypeOK, T!LedgerEntry,
           TP!LedgerEntry, T!LedgerEntryType, TP!LedgerEntryType, T!LedgerKey, TP!LedgerKey,
           T!OutKey, TP!OutKey, T!InKey, TP!InKey, T!OutboxEvent, TP!OutboxEvent,
           T!Transfer, TP!Transfer, T!TransferStatus, TP!TransferStatus, T!Steps, TP!Steps,
           T!Responses, TP!Responses
  <1>3. ASSUME NEW k PROVE T!Completed(k) <=> TP!Completed(k)
    BY DEF T!Completed, TP!Completed
  <1>4. ASSUME NEW u, NEW c PROVE T!WalletOf(u, c) = TP!WalletOf(u, c)
    BY DEF T!WalletOf, TP!WalletOf
  <1>5. ASSUME NEW k PROVE T!Movement(k) = TP!Movement(k)
    BY <1>3, <1>4 DEF T!Movement, TP!Movement
  <1> QED BY <1>1, <1>2, <1>3, <1>4, <1>5

LEMMA SameRequestSteps ==
  ASSUME NEW r
  PROVE  D!RequestNext(r) <=> DP!RequestNext(r)
PROOF
  <1> USE DEF D!Goto, DP!Goto, D!storeVars, DP!storeVars, D!stripeVars, DP!stripeVars,
          D!handlerVars, DP!handlerVars, D!Answer, DP!Answer, D!WalletsOf, DP!WalletsOf,
          D!TransactionKeyFree, DP!TransactionKeyFree, D!NewTransaction, DP!NewTransaction,
          D!WithProviderRef, DP!WithProviderRef
  <1>1. ASSUME NEW i PROVE D!Arrive(r, i) <=> DP!Arrive(r, i)
    BY DEF D!Arrive, DP!Arrive
  <1>2. D!FindExisting(r) <=> DP!FindExisting(r)
    BY DEF D!FindExisting, DP!FindExisting
  <1>3. D!FindWallet(r) <=> DP!FindWallet(r)
    BY DEF D!FindWallet, DP!FindWallet
  <1>4. D!CreateTransaction(r) <=> DP!CreateTransaction(r)
    BY DEF D!CreateTransaction, DP!CreateTransaction
  <1>5. D!UnsupportedMethod(r) <=> DP!UnsupportedMethod(r)
    BY DEF D!UnsupportedMethod, DP!UnsupportedMethod
  <1>6. ASSUME NEW s PROVE D!CreateSession(r, s) <=> DP!CreateSession(r, s)
    BY DEF D!CreateSession, DP!CreateSession
  <1>7. D!UpdateProviderRef(r) <=> DP!UpdateProviderRef(r)
    BY DEF D!UpdateProviderRef, DP!UpdateProviderRef
  <1>8. D!ReturnUrl(r) <=> DP!ReturnUrl(r)
    BY DEF D!ReturnUrl, DP!ReturnUrl
  <1>9. D!Fail(r) <=> DP!Fail(r)
    BY DEF D!Fail, DP!Fail
  <1> QED
    BY <1>1, <1>2, <1>3, <1>4, <1>5, <1>6, <1>7, <1>8, <1>9
    DEF D!RequestNext, DP!RequestNext

LEMMA SameHandlerSteps ==
  ASSUME NEW h
  PROVE  D!HandlerNext(h) <=> DP!HandlerNext(h)
PROOF
  <1> USE DEF D!Settles, DP!Settles, D!HGoto, DP!HGoto, D!handlerVars, DP!handlerVars,
          D!storeVars, DP!storeVars, D!requestVars, DP!requestVars, D!FindPending,
          DP!FindPending, D!PendingWith, DP!PendingWith, D!Acknowledge, DP!Acknowledge,
          D!HandlerEnds, DP!HandlerEnds, D!stripeVars, DP!stripeVars, D!WalletsOf, DP!WalletsOf,
          D!LockRow, DP!LockRow, D!RowAvailable, DP!RowAvailable, D!RowRead, DP!RowRead,
          D!LedgerKeyTaken, DP!LedgerKeyTaken, D!HandlerFails, DP!HandlerFails, D!ReleaseLocks,
          DP!ReleaseLocks, D!NotAcknowledged, DP!NotAcknowledged, D!Entry, DP!Entry,
          D!MarkedCompleted, DP!MarkedCompleted, D!SaveOutbox, DP!SaveOutbox, D!Event, DP!Event
  <1>1. ASSUME NEW e PROVE D!Deliver(h, e) <=> DP!Deliver(h, e)
    BY DEF D!Deliver, DP!Deliver
  <1>2. D!SettleFind(h) <=> DP!SettleFind(h)
    BY DEF D!SettleFind, DP!SettleFind
  <1>3. D!SettleFindWallet(h) <=> DP!SettleFindWallet(h)
    BY DEF D!SettleFindWallet, DP!SettleFindWallet
  <1>4. D!LockWallet(h) <=> DP!LockWallet(h)
    BY DEF D!LockWallet, DP!LockWallet
  <1>5. D!SettleRefused(h) <=> DP!SettleRefused(h)
    BY DEF D!SettleRefused, DP!SettleRefused
  <1>6. D!Settle(h) <=> DP!Settle(h)
    BY DEF D!Settle, DP!Settle
  <1>7. D!InvalidateCache(h) <=> DP!InvalidateCache(h)
    BY DEF D!InvalidateCache, DP!InvalidateCache
  <1>8. D!FailFind(h) <=> DP!FailFind(h)
    BY DEF D!FailFind, DP!FailFind
  <1>9. D!FailUpdate(h) <=> DP!FailUpdate(h)
    BY DEF D!FailUpdate, DP!FailUpdate
  <1>10. D!HandlerFails(h) <=> DP!HandlerFails(h)
    BY DEF D!HandlerFails, DP!HandlerFails
  <1> QED
    BY <1>1, <1>2, <1>3, <1>4, <1>5, <1>6, <1>7, <1>8, <1>9, <1>10
    DEF D!HandlerNext, DP!HandlerNext

LEMMA SameDeposits ==
  D!Next <=> DP!Next
PROOF
  <1> USE DEF D!Becomes, DP!Becomes, D!Emit, DP!Emit, D!Report, DP!Report, D!storeVars,
          DP!storeVars, D!requestVars, DP!requestVars, D!handlerVars, DP!handlerVars,
          D!DeleteUser, DP!DeleteUser, D!stripeVars, DP!stripeVars
  <1>1. ASSUME NEW s PROVE D!Pay(s) <=> DP!Pay(s)
    BY DEF D!Pay, DP!Pay
  <1>2. ASSUME NEW s PROVE D!Expire(s) <=> DP!Expire(s)
    BY DEF D!Expire, DP!Expire
  <1>3. ASSUME NEW u PROVE D!RemoveUser(u) <=> DP!RemoveUser(u)
    BY DEF D!RemoveUser, DP!RemoveUser
  <1> QED
    BY <1>1, <1>2, <1>3, SameRequestSteps, SameHandlerSteps
    DEF D!Next, DP!Next

LEMMA SameDepositStates ==
  /\ D!Init <=> DP!Init
  /\ D!TypeOK <=> DP!TypeOK
  /\ \A k, status : D!HasStatus(k, status) <=> DP!HasStatus(k, status)
  /\ \A k : D!Payment(k) = DP!Payment(k)
  /\ \A u, c : D!WalletOf(u, c) = DP!WalletOf(u, c)
PROOF
  <1>1. D!Init <=> DP!Init
    BY DEF D!Init, DP!Init, D!StoreInit, DP!StoreInit, D!Entry, DP!Entry, D!OutboxEvent,
           DP!OutboxEvent, D!Event, DP!Event, D!Earlier, DP!Earlier, D!EarlierTransaction,
           DP!EarlierTransaction, D!EarlierSession, DP!EarlierSession
  <1>2. D!TypeOK <=> DP!TypeOK
    BY DEF D!TypeOK, DP!TypeOK, D!StoreTypeOK, DP!StoreTypeOK, D!LedgerEntry,
           DP!LedgerEntry, D!LedgerEntryType, DP!LedgerEntryType, D!LedgerKey, DP!LedgerKey,
           D!OutKey, DP!OutKey, D!InKey, DP!InKey, D!OutboxEvent, DP!OutboxEvent,
           D!Transaction, DP!Transaction, D!TransactionStatus, DP!TransactionStatus,
           D!EarlierSession, DP!EarlierSession, D!Steps, DP!Steps, D!Responses,
           DP!Responses, D!CheckoutSession, DP!CheckoutSession, D!StripeEvent,
           DP!StripeEvent, D!HandlerSteps, DP!HandlerSteps
  <1>3. ASSUME NEW k, NEW status PROVE D!HasStatus(k, status) <=> DP!HasStatus(k, status)
    BY DEF D!HasStatus, DP!HasStatus
  <1>4. ASSUME NEW u, NEW c PROVE D!WalletOf(u, c) = DP!WalletOf(u, c)
    BY DEF D!WalletOf, DP!WalletOf
  <1>5. ASSUME NEW k PROVE D!Payment(k) = DP!Payment(k)
    BY <1>3, <1>4 DEF D!Payment, DP!Payment
  <1> QED BY <1>1, <1>2, <1>3, <1>4, <1>5

-----------------------------------------------------------------------------
(* What one component's step leaves to the other, in the words of each.    *)
LEMMA SameEntries ==
  /\ TP!AddsOnly(TP!TransferEntry) =>
       AddsOnly(TransferEntry) /\ DP!AddsOnly(DP!TransferEntry)
  /\ DP!AddsOnly(DP!DepositEntry) =>
       AddsOnly(DepositEntry) /\ TP!AddsOnly(TP!DepositEntry)
  /\ \A name : TP!EventsStay(name) <=> DP!EventsStay(name)
  /\ \A p : TP!LeavesRowsOf(p) <=> DP!LeavesRowsOf(p)
PROOF
  <1>1. TP!TransferEntry = TransferEntry /\ DP!TransferEntry = TransferEntry
        /\ TP!DepositEntry = DepositEntry /\ DP!DepositEntry = DepositEntry
    BY DEF TransferEntry, TP!TransferEntry, DP!TransferEntry,
           DepositEntry, TP!DepositEntry, DP!DepositEntry,
           LedgerEntry, TP!LedgerEntry, DP!LedgerEntry,
           LedgerEntryType, TP!LedgerEntryType, DP!LedgerEntryType,
           LedgerKey, TP!LedgerKey, DP!LedgerKey,
           OutKey, TP!OutKey, DP!OutKey, InKey, TP!InKey, DP!InKey
  <1>2. ASSUME NEW E
        PROVE  (TP!AddsOnly(E) <=> AddsOnly(E)) /\ (DP!AddsOnly(E) <=> AddsOnly(E))
    BY DEF AddsOnly, TP!AddsOnly, DP!AddsOnly, EntriesStay, TP!EntriesStay, DP!EntriesStay
  <1>3. ASSUME NEW name
        PROVE  TP!EventsStay(name) <=> DP!EventsStay(name)
    BY DEF TP!EventsStay, DP!EventsStay, TP!Event, DP!Event
  <1>4. ASSUME NEW p
        PROVE  TP!LeavesRowsOf(p) <=> DP!LeavesRowsOf(p)
    BY DEF TP!LeavesRowsOf, DP!LeavesRowsOf
  <1> QED BY <1>1, <1>2, <1>3, <1>4

LEMMA SameBooks ==
  /\ TP!AuditTrail /\ TP!NeverOverdrawn /\ TP!BookedOnce <=> DP!StoreBooks
  /\ (TP!AuditTrail /\ TP!NeverOverdrawn /\ TP!BookedOnce)' <=> DP!StoreBooks'
  /\ TP!BookedOnce <=> BookedOnce
  /\ TP!StoreTypeOK' <=> DP!StoreTypeOK'
PROOF
  <1>1. /\ TP!AuditTrail <=> DP!AuditTrail
        /\ TP!AuditTrail' <=> DP!AuditTrail'
    BY DEF TP!AuditTrail, DP!AuditTrail, TP!BalanceAfter, DP!BalanceAfter, TP!Signed, DP!Signed
  <1>2. /\ TP!NeverOverdrawn <=> DP!NeverOverdrawn
        /\ TP!NeverOverdrawn' <=> DP!NeverOverdrawn'
    BY DEF TP!NeverOverdrawn, DP!NeverOverdrawn
  <1>3. /\ TP!BookedOnce <=> DP!BookedOnce
        /\ TP!BookedOnce' <=> DP!BookedOnce'
        /\ TP!BookedOnce <=> BookedOnce
    BY DEF TP!BookedOnce, DP!BookedOnce, BookedOnce
  <1>4. TP!StoreTypeOK' <=> DP!StoreTypeOK'
    BY DEF TP!StoreTypeOK, DP!StoreTypeOK, TP!LedgerEntry, DP!LedgerEntry,
           TP!LedgerEntryType, DP!LedgerEntryType, TP!LedgerKey, DP!LedgerKey,
           TP!OutKey, DP!OutKey, TP!InKey, DP!InKey, TP!OutboxEvent, DP!OutboxEvent
  <1> QED BY <1>1, <1>2, <1>3, <1>4 DEF DP!StoreBooks

-----------------------------------------------------------------------------
(* The inductive invariant: both components', and that the ledger holds    *)
(* entries of the two of them only.                                        *)
SystemInvariant ==
  /\ TP!Control /\ TP!Isolation /\ TP!Books
  /\ DP!Control /\ DP!Isolation /\ DP!Settled
  /\ EntryKinds

LEMMA SystemInit == Init => SystemInvariant
PROOF
  <1> SUFFICES ASSUME Init PROVE SystemInvariant
    OBVIOUS
  <1>1. TP!Init /\ DP!Init
    BY SameTransferStates, SameDepositStates DEF Init
  <1>2. TP!Control /\ TP!Isolation /\ TP!Books
    BY <1>1, TransfersAssumptions, TP!ControlInit, TP!IsolationInit, TP!BooksInit
  <1>3. DP!Control /\ DP!Isolation /\ DP!Settled
    BY <1>1, DepositsAssumptions, DP!ControlInit, DP!IsolationInit, DP!BooksInit DEF DP!Books
  <1>4. StoreInit
    BY <1>1 DEF DP!Init, DP!StoreInit, StoreInit, DP!Entry, Entry, DP!OutboxEvent, OutboxEvent,
                DP!Event, Event
  <1>5. EntryKinds
    BY <1>4, OpeningKinds
  <1> QED BY <1>2, <1>3, <1>5 DEF SystemInvariant

\* A transfer's step keeps the invariant of deposits too.
LEMMA TransferStep ==
  ASSUME SystemInvariant, T!Next, UNCHANGED depositVars
  PROVE  SystemInvariant'
PROOF
  <1>0. /\ TP!Control /\ TP!Isolation /\ TP!Books
        /\ DP!Control /\ DP!Isolation /\ DP!Settled /\ EntryKinds
    BY DEF SystemInvariant
  <1>1. [TP!Next]_(TP!vars)
    BY SameTransfers
  <1>2. UNCHANGED <<tx, DP!requestVars, DP!stripeVars, DP!handlerVars>>
    BY DEF depositVars, DP!requestVars, DP!stripeVars, DP!handlerVars
  <1>3. TP!Control'
    BY <1>0, <1>1, TransfersAssumptions, TP!ControlStep
  <1>4. TP!Isolation'
    BY <1>0, <1>1, <1>3, TransfersAssumptions, TP!IsolationStep
  <1>5. TP!Books'
    BY <1>0, <1>1, <1>3, TransfersAssumptions, TP!BooksStep
  <1>6. DP!Control'
    <2>1. DP!StoreTypeOK'
      BY <1>3, SameBooks DEF TP!Control, TP!TypeOK
    <2> QED BY <1>0, <1>2, <2>1, DepositsAssumptions, DP!StoreOnly
  <1>7. DP!Isolation'
    <2>1. ASSUME NEW h \in Handler
          PROVE  DP!LeavesRowsOf(h)
      <3>1. h \notin TransferRequest /\ h # Null
        BY ConnectionsAssumption, NullAssumption
      <3>2. TP!LeavesRowsOf(h)
        BY <1>0, <1>1, <3>1, TransfersAssumptions, TP!OthersKeepRows
      <3> QED BY <3>2, SameEntries
    <2> QED BY <1>0, <1>2, <2>1, DepositsAssumptions, DP!RowsKept
  <1>8. TP!AddsOnly(TP!TransferEntry) /\ TP!EventsStay("DepositSucceeded")
    BY <1>0, <1>1, TransfersAssumptions, TP!AddsItsEntries
  <1>9. DP!Settled'
    <2>1. DP!AddsOnly(DP!TransferEntry) /\ DP!EventsStay("DepositSucceeded")
      BY <1>8, SameEntries
    <2> QED BY <1>0, <1>2, <2>1, DepositsAssumptions, DP!SettledKept
  <1>10. EntryKinds'
    BY <1>0, <1>8, SameEntries, KindsStay
  <1> QED BY <1>3, <1>4, <1>5, <1>6, <1>7, <1>9, <1>10 DEF SystemInvariant

\* A step of a deposit keeps the invariant of transfers too.
LEMMA DepositStep ==
  ASSUME SystemInvariant, D!Next, UNCHANGED transferVars
  PROVE  SystemInvariant'
PROOF
  <1>0. /\ TP!Control /\ TP!Isolation /\ TP!Books
        /\ DP!Control /\ DP!Isolation /\ DP!Settled /\ EntryKinds
    BY DEF SystemInvariant
  <1>1. [DP!Next]_(DP!vars)
    BY SameDeposits
  <1>2. UNCHANGED <<transfer, TP!requestVars>>
    BY DEF transferVars, TP!requestVars
  <1>3. DP!Control'
    BY <1>0, <1>1, DepositsAssumptions, DP!ControlStep
  <1>4. DP!Isolation'
    BY <1>0, <1>1, DepositsAssumptions, DP!IsolationStep
  <1>5. DP!Books'
    <2>1. DP!Books
      BY <1>0, SameBooks DEF TP!Books, DP!Books
    <2> QED BY <1>0, <1>1, <2>1, DepositsAssumptions, DP!BooksStep
  <1>6. TP!Control'
    <2>1. TP!StoreTypeOK'
      BY <1>3, SameBooks DEF DP!Control, DP!TypeOK
    <2> QED BY <1>0, <1>2, <2>1, TransfersAssumptions, TP!ControlKept
  <1>7. TP!Isolation'
    <2>1. ASSUME NEW r \in TransferRequest
          PROVE  TP!LeavesRowsOf(r)
      <3>1. r \notin Handler /\ r # Null
        BY ConnectionsAssumption, NullAssumption
      <3>2. DP!LeavesRowsOf(r)
        BY <1>0, <1>1, <3>1, DepositsAssumptions, DP!OthersKeepRows
      <3> QED BY <3>2, SameEntries
    <2> QED BY <1>0, <1>2, <2>1, TransfersAssumptions, TP!IsolationKept
  <1>8. DP!AddsOnly(DP!DepositEntry) /\ DP!EventsStay("TransferCompleted")
    BY <1>0, <1>1, DepositsAssumptions, DP!AddsItsEntries
  <1>9. TP!Books'
    <2>1. TP!AddsOnly(TP!DepositEntry) /\ TP!EventsStay("TransferCompleted")
      BY <1>8, SameEntries
    <2>2. TP!DoubleEntry'
      BY <1>0, <1>2, <2>1, TransfersAssumptions, TP!DoubleEntryKept DEF TP!Books
    <2> QED BY <1>5, <2>2, SameBooks DEF TP!Books, DP!Books
  <1>10. EntryKinds'
    BY <1>0, <1>8, SameEntries, KindsStay
  <1> QED BY <1>3, <1>4, <1>5, <1>6, <1>7, <1>9, <1>10 DEF SystemInvariant, DP!Books

\* Nothing happens to the two components.
LEMMA SystemStutters == SystemInvariant /\ UNCHANGED vars => SystemInvariant'
PROOF
  <1> SUFFICES ASSUME SystemInvariant, UNCHANGED vars PROVE SystemInvariant'
    OBVIOUS
  <1>0. /\ TP!Control /\ TP!Isolation /\ TP!Books
        /\ DP!Control /\ DP!Isolation /\ DP!Settled /\ EntryKinds
    BY DEF SystemInvariant
  <1>1. UNCHANGED TP!vars /\ UNCHANGED DP!vars
    BY DEF vars, storeVars, transferVars, depositVars, TP!vars, TP!storeVars, TP!requestVars,
           DP!vars, DP!storeVars, DP!requestVars, DP!stripeVars, DP!handlerVars
  <1>2. TP!Control'
    BY <1>0, <1>1, TransfersAssumptions, TP!ControlStep
  <1>3. TP!Isolation' /\ TP!Books'
    BY <1>0, <1>1, <1>2, TransfersAssumptions, TP!IsolationStep, TP!BooksStep
  <1>4. DP!Control' /\ DP!Isolation'
    BY <1>0, <1>1, DepositsAssumptions, DP!ControlStep, DP!IsolationStep
  <1>5. DP!Settled'
    <2>1. DP!Books
      BY <1>0, SameBooks DEF TP!Books, DP!Books
    <2> QED BY <1>0, <1>1, <2>1, DepositsAssumptions, DP!BooksStep DEF DP!Books
  <1>6. EntryKinds'
    BY <1>0 DEF vars, storeVars, EntryKinds
  <1> QED BY <1>2, <1>3, <1>4, <1>5, <1>6 DEF SystemInvariant

LEMMA SystemInvariantStep == SystemInvariant /\ [Next]_vars => SystemInvariant'
PROOF
  BY TransferStep, DepositStep, SystemStutters DEF Next

LEMMA SystemInvariantHolds == Spec => []SystemInvariant
PROOF
  BY SystemInit, SystemInvariantStep, PTL DEF Spec

\* Transfers and deposits on one store never leave the types of either.
THEOREM SystemTypes == Spec => []TypeOK
PROOF
  <1>1. SystemInvariant => TypeOK
    BY SameTransferStates, SameDepositStates DEF SystemInvariant, TypeOK, TP!Control, DP!Control
  <1> QED BY <1>1, SystemInvariantHolds, PTL

-----------------------------------------------------------------------------
(* Reconciliation.                                                         *)
\* The entry of a deposit, by its key.
LEMMA DepositExplained ==
  ASSUME SystemInvariant, NEW w \in Wallet, NEW i \in 1..Len(ledger[w]),
         ledger[w][i] \in DepositEntry
  PROVE  Explains(w, ledger[w][i])
PROOF
  <1> DEFINE e == ledger[w][i]
             k == e.idempotency_key
  <1>1. e.type = "DEPOSIT" /\ k \in Key /\ e \in LedgerEntry
    BY DEF DepositEntry
  <1>2. /\ DP!HasStatus(k, "COMPLETED") /\ e.amount = tx[k].amount
        /\ Owner[w] = tx[k].user /\ CurrencyOf[w] = tx[k].currency
    BY <1>1 DEF SystemInvariant, DP!Settled
  <1>3. w = D!WalletOf(tx[k].user, tx[k].currency)
    BY <1>2, DepositsAssumptions, SameDepositStates, DP!WalletOfOwn
  <1>4. e = Entry("DEPOSIT", e.amount, e.balance_after, k)
    <2> HIDE DEF e
    <2>1. e = [type |-> e.type, amount |-> e.amount, balance_after |-> e.balance_after,
               idempotency_key |-> e.idempotency_key]
      BY <1>1 DEF LedgerEntry
    <2> QED BY <1>1, <2>1 DEF Entry
  <1> QED BY <1>1, <1>2, <1>3, <1>4, SameDepositStates DEF Explains

\* An entry of a transfer that is not completed would not be there; the one of
\* a completed transfer is its leg, for no other entry has its key.
LEMMA TransferExplained ==
  ASSUME SystemInvariant, NEW w \in Wallet, NEW i \in 1..Len(ledger[w]),
         ledger[w][i] \in TransferEntry
  PROVE  Explains(w, ledger[w][i])
PROOF
  <1> DEFINE e == ledger[w][i]
  <1>0. TP!DoubleEntry /\ BookedOnce
    BY SameBooks DEF SystemInvariant, TP!Books
  <1>1. ASSUME NEW k \in Key, NEW type \in {"TRANSFER_OUT", "TRANSFER_IN"}, NEW key, NEW u,
               e.type = type, e.idempotency_key = key, TP!HasLeg(u, transfer[k], type, key)
        PROVE  /\ e.amount = transfer[k].amount
               /\ w = T!WalletOf(u, transfer[k].currency)
    <2>1. PICK v \in Wallet : \E j \in 1..Len(ledger[v]) :
            /\ TP!Leg(v, j, type, key)
            /\ Owner[v] = u /\ CurrencyOf[v] = transfer[k].currency
            /\ ledger[v][j].amount = transfer[k].amount
      BY <1>1 DEF TP!HasLeg
    <2>2. PICK j \in 1..Len(ledger[v]) :
            /\ ledger[v][j].idempotency_key = key
            /\ ledger[v][j].amount = transfer[k].amount
      BY <2>1 DEF TP!Leg
    <2>3. v = w /\ j = i
      BY <1>0, <1>1, <2>2 DEF BookedOnce
    <2>4. w = T!WalletOf(u, transfer[k].currency)
      BY <2>1, <2>3, TransfersAssumptions, SameTransferStates, TP!WalletOfOwn
    <2> QED BY <2>2, <2>3, <2>4
  <1>2. PICK k \in Key : \/ e.type = "TRANSFER_OUT" /\ e.idempotency_key = OutKey(k)
                         \/ e.type = "TRANSFER_IN" /\ e.idempotency_key = InKey(k)
    BY DEF TransferEntry
  <1>3. OutKey(k) = TP!OutKey(k) /\ InKey(k) = TP!InKey(k)
    BY DEF OutKey, InKey, TP!OutKey, TP!InKey
  <1>4. TP!Completed(k)
    BY <1>0, <1>2, <1>3 DEF TP!DoubleEntry, TP!Leg
  <1>5. /\ TP!HasLeg(transfer[k].from_user, transfer[k], "TRANSFER_OUT", OutKey(k))
        /\ TP!HasLeg(transfer[k].to_user, transfer[k], "TRANSFER_IN", InKey(k))
    BY <1>0, <1>3, <1>4 DEF TP!DoubleEntry
  <1>6. CASE e.type = "TRANSFER_OUT" /\ e.idempotency_key = OutKey(k)
    BY <1>1, <1>4, <1>5, <1>6, SameTransferStates DEF Explains
  <1>7. CASE e.type = "TRANSFER_IN" /\ e.idempotency_key = InKey(k)
    BY <1>1, <1>4, <1>5, <1>7, SameTransferStates DEF Explains
  <1> QED BY <1>2, <1>6, <1>7

\* A completed transfer or deposit has its entries and its one event.
LEMMA CompletedIsBooked ==
  ASSUME SystemInvariant, NEW k \in Key
  PROVE  /\ D!HasStatus(k, "COMPLETED") => Booked(k)
         /\ T!Completed(k) => Booked(OutKey(k)) /\ Booked(InKey(k))
         /\ outbox[Event("DepositSucceeded", k)] = IF D!HasStatus(k, "COMPLETED") THEN 1 ELSE 0
         /\ outbox[Event("TransferCompleted", k)] = IF T!Completed(k) THEN 1 ELSE 0
PROOF
  <1>1. DP!Settled!(k) /\ TP!DoubleEntry!(k)
    BY DEF SystemInvariant, DP!Settled, TP!Books, TP!DoubleEntry
  <1>2. /\ D!HasStatus(k, "COMPLETED") <=> DP!HasStatus(k, "COMPLETED")
        /\ T!Completed(k) <=> TP!Completed(k)
    BY SameDepositStates, SameTransferStates
  <1>3. /\ Event("DepositSucceeded", k) = DP!Event("DepositSucceeded", k)
        /\ Event("TransferCompleted", k) = TP!Event("TransferCompleted", k)
        /\ OutKey(k) = TP!OutKey(k) /\ InKey(k) = TP!InKey(k)
    BY DEF Event, DP!Event, TP!Event, OutKey, InKey, TP!OutKey, TP!InKey
  <1>4. ASSUME NEW u, NEW type, NEW key, TP!HasLeg(u, transfer[k], type, key)
        PROVE  Booked(key)
    BY <1>4 DEF TP!HasLeg, TP!Leg, Booked
  <1>5. D!HasStatus(k, "COMPLETED") => Booked(k)
    BY <1>1, <1>2 DEF Booked
  <1>6. T!Completed(k) => Booked(OutKey(k)) /\ Booked(InKey(k))
    BY <1>1, <1>2, <1>3, <1>4
  <1> QED BY <1>1, <1>2, <1>3, <1>5, <1>6

\* The two tables, the ledger and the outbox agree, whatever transfers and
\* deposits run at once, share keys, fail and are retried.
THEOREM ReconcilesHolds == Spec => []Reconciles
PROOF
  <1>1. SystemInvariant => Reconciles
    <2> SUFFICES ASSUME SystemInvariant PROVE Reconciles
      OBVIOUS
    <2>1. BookedOnce
      BY SameBooks DEF SystemInvariant, TP!Books
    <2>2. ASSUME NEW w \in Wallet, NEW i \in 1..Len(ledger[w])
          PROVE  Explains(w, ledger[w][i])
      BY DepositExplained, TransferExplained DEF SystemInvariant, EntryKinds
    <2> QED BY <2>1, <2>2, CompletedIsBooked DEF Reconciles
  <1> QED BY <1>1, SystemInvariantHolds, PTL

-----------------------------------------------------------------------------
(* The system implements the bank.                                         *)
LEMMA SameMoney ==
  /\ [k \in Key |-> T!Movement(k)] = [k \in Key |-> TP!Movement(k)]
  /\ [k \in Key |-> T!Movement(k)]' = [k \in Key |-> TP!Movement(k)]'
  /\ [k \in Key |-> D!Payment(k)] = [k \in Key |-> DP!Payment(k)]
  /\ [k \in Key |-> D!Payment(k)]' = [k \in Key |-> DP!Payment(k)]'
PROOF
  <1>1. /\ [k \in Key |-> T!Movement(k)] = [k \in Key |-> TP!Movement(k)]
        /\ [k \in Key |-> T!Movement(k)]' = [k \in Key |-> TP!Movement(k)]'
    BY DEF T!Movement, TP!Movement, T!Completed, TP!Completed, T!WalletOf, TP!WalletOf
  <1>2. /\ [k \in Key |-> D!Payment(k)] = [k \in Key |-> DP!Payment(k)]
        /\ [k \in Key |-> D!Payment(k)]' = [k \in Key |-> DP!Payment(k)]'
    BY DEF D!Payment, DP!Payment, D!HasStatus, DP!HasStatus, D!WalletOf, DP!WalletOf
  <1> QED BY <1>1, <1>2

LEMMA BankInit == Init => TheBank!Init
PROOF
  <1> SUFFICES ASSUME Init PROVE TheBank!Init
    OBVIOUS
  <1>1. TP!Init /\ DP!Init
    BY SameTransferStates, SameDepositStates DEF Init
  <1>2. balance = Opening /\ \A k \in Key : TP!Movement(k) = Null
    BY <1>1 DEF TP!Init, TP!StoreInit, TP!Movement, TP!Completed
  <1>3. [k \in Key |-> DP!Payment(k)] = Earlier
    <2>1. DP!Earlier = Earlier
      BY DEF DP!Earlier, Earlier
    <2> QED BY <1>1, <2>1, DepositsAssumptions, DP!PaidBefore
  <1> QED BY <1>2, <1>3, SameMoney DEF TheBank!Init

LEMMA TransferMoves ==
  ASSUME SystemInvariant, T!Next, UNCHANGED depositVars
  PROVE  [TheBank!Next]_(TheBank!bankVars)
PROOF
  <1>0. TP!Control /\ TP!Isolation /\ [TP!Next]_(TP!vars)
    BY SameTransfers DEF SystemInvariant
  <1>1. [k \in Key |-> D!Payment(k)]' = [k \in Key |-> D!Payment(k)]
    BY DEF depositVars, D!Payment, D!HasStatus, D!WalletOf
  <1>2. ASSUME NEW r \in TransferRequest, TP!Commit(r)
        PROVE  TheBank!Next
    <2>1. PICK k \in Key, v \in Wallet, w \in Wallet, a \in Amount :
            /\ TP!Movement(k) = Null /\ v # w /\ CurrencyOf[v] = CurrencyOf[w]
            /\ balance[v] >= a
            /\ balance' = [balance EXCEPT ![v] = @ - a, ![w] = @ + a]
            /\ balance' # balance
            /\ [l \in Key |-> TP!Movement(l)]' =
                 [[l \in Key |-> TP!Movement(l)] EXCEPT ![k] = [from |-> v, to |-> w, amount |-> a]]
      BY <1>0, <1>2, TransfersAssumptions, TP!CommitMoves
    <2>2. TheBank!Move(k, v, w, a)
      BY <1>1, <2>1, SameMoney DEF TheBank!Move
    <2> QED BY <2>1, <2>2 DEF TheBank!Next
  <1>3. CASE ~ \E r \in TransferRequest : TP!Commit(r)
    <2>1. /\ balance' = balance
          /\ \A k \in Key : TP!Completed(k)' <=> TP!Completed(k)
          /\ \A k \in Key : transfer[k] # Null => transfer'[k] = transfer[k]
      BY <1>0, <1>3, TransfersAssumptions, TP!OnlyCommit
    <2>2. [l \in Key |-> TP!Movement(l)]' = [l \in Key |-> TP!Movement(l)]
      BY <2>1, TransfersAssumptions, TP!NothingMoved
    <2> QED BY <1>1, <2>1, <2>2, SameMoney DEF TheBank!bankVars
  <1> QED BY <1>2, <1>3

LEMMA DepositPays ==
  ASSUME SystemInvariant, D!Next, UNCHANGED transferVars
  PROVE  [TheBank!Next]_(TheBank!bankVars)
PROOF
  <1>0. DP!Control /\ DP!Isolation /\ DP!Settled /\ [DP!Next]_(DP!vars)
    BY SameDeposits DEF SystemInvariant
  <1>1. [k \in Key |-> T!Movement(k)]' = [k \in Key |-> T!Movement(k)]
    BY DEF transferVars, T!Movement, T!Completed, T!WalletOf
  <1>2. ASSUME NEW h \in Handler, DP!Settle(h)
        PROVE  TheBank!Next
    <2>1. PICK k \in Key, w \in Wallet, a \in Amount :
            /\ DP!Payment(k) = Null
            /\ balance' = [balance EXCEPT ![w] = @ + a]
            /\ balance' # balance
            /\ [l \in Key |-> DP!Payment(l)]' =
                 [[l \in Key |-> DP!Payment(l)] EXCEPT ![k] = [to |-> w, amount |-> a]]
      BY <1>0, <1>2, DepositsAssumptions, DP!SettlePays
    <2>2. TheBank!PayIn(k, w, a)
      BY <1>1, <2>1, SameMoney DEF TheBank!PayIn
    <2> QED BY <2>1, <2>2 DEF TheBank!Next
  <1>3. CASE ~ \E h \in Handler : DP!Settle(h)
    <2>1. /\ balance' = balance
          /\ \A k \in Key :
               /\ DP!HasStatus(k, "COMPLETED")' <=> DP!HasStatus(k, "COMPLETED")
               /\ DP!HasStatus(k, "COMPLETED") =>
                    /\ tx'[k].amount = tx[k].amount /\ tx'[k].user = tx[k].user
                    /\ tx'[k].currency = tx[k].currency
      BY <1>0, <1>3, DepositsAssumptions, DP!OnlySettle
    <2>2. [l \in Key |-> DP!Payment(l)]' = [l \in Key |-> DP!Payment(l)]
      BY <2>1, DepositsAssumptions, DP!NothingPaid
    <2> QED BY <1>1, <2>1, <2>2, SameMoney DEF TheBank!bankVars
  <1> QED BY <1>2, <1>3

LEMMA BankStep == SystemInvariant /\ [Next]_vars => [TheBank!Next]_(TheBank!bankVars)
PROOF
  <1> SUFFICES ASSUME SystemInvariant, [Next]_vars
               PROVE  [TheBank!Next]_(TheBank!bankVars)
    OBVIOUS
  <1>1. CASE UNCHANGED vars
    BY <1>1 DEF vars, storeVars, transferVars, depositVars, TheBank!bankVars,
                T!Movement, T!Completed, T!WalletOf, D!Payment, D!HasStatus, D!WalletOf
  <1> QED BY <1>1, TransferMoves, DepositPays DEF Next

\* Whatever transfers and settlements do at the same time, the balances change
\* by single movements and single payments, each under a key of its own.
THEOREM SystemImplementsBank == Spec => ImplementsBank
PROOF
  BY SystemInit, SystemInvariantStep, BankInit, BankStep, PTL DEF Spec, ImplementsBank, TheBank!Spec

-----------------------------------------------------------------------------
(* The system's invariant next to readers.                                 *)
LEMMA CacheIsApart ==
  ASSUME SystemInvariant, OnlyCache, cache' \in [Wallet -> Int \cup {Null}]
  PROVE  SystemInvariant'
PROOF
  <1>0. /\ TP!Control /\ TP!Isolation /\ TP!Books
        /\ DP!Control /\ DP!Isolation /\ DP!Settled /\ EntryKinds
    BY DEF SystemInvariant
  <1>1. /\ UNCHANGED <<users, live, balance, lock, ledger, outbox>>
        /\ UNCHANGED transferVars /\ UNCHANGED depositVars
    BY DEF OnlyCache
  <1>2. UNCHANGED <<transfer, TP!requestVars>> /\ UNCHANGED TP!requestVars /\ UNCHANGED transfer
    BY <1>1 DEF transferVars, TP!requestVars
  <1>3. /\ UNCHANGED <<tx, DP!requestVars, DP!stripeVars, DP!handlerVars>>
        /\ UNCHANGED DP!handlerVars /\ UNCHANGED tx
    BY <1>1 DEF depositVars, DP!requestVars, DP!stripeVars, DP!handlerVars
  <1>4. TP!StoreTypeOK' /\ DP!StoreTypeOK'
    <2>1. TP!StoreTypeOK
      BY <1>0 DEF TP!Control, TP!TypeOK
    <2>2. TP!StoreTypeOK'
      BY <1>1, <2>1 DEF TP!StoreTypeOK
    <2> QED BY <2>2, SameBooks
  <1>5. TP!Control'
    BY <1>0, <1>2, <1>4, TransfersAssumptions, TP!ControlKept
  <1>6. DP!Control'
    BY <1>0, <1>3, <1>4, DepositsAssumptions, DP!StoreOnly
  <1>7. TP!Isolation'
    <2>1. \A r \in TransferRequest : TP!LeavesRowsOf(r)
      BY <1>1 DEF TP!LeavesRowsOf
    <2> QED BY <1>0, <1>2, <2>1, TransfersAssumptions, TP!IsolationKept
  <1>8. DP!Isolation'
    <2>1. \A h \in Handler : DP!LeavesRowsOf(h)
      BY <1>1 DEF DP!LeavesRowsOf
    <2> QED BY <1>0, <1>3, <2>1, DepositsAssumptions, DP!RowsKept
  <1>9. TP!Books'
    <2>1. TP!AuditTrail' /\ TP!NeverOverdrawn' /\ TP!BookedOnce'
      BY <1>0, <1>1 DEF TP!Books, TP!AuditTrail, TP!BalanceAfter, TP!NeverOverdrawn, TP!BookedOnce
    <2>2. TP!DoubleEntry'
      BY <1>0, <1>1, <1>2 DEF TP!Books, TP!DoubleEntry, TP!Completed, TP!HasLeg, TP!Leg
    <2> QED BY <2>1, <2>2 DEF TP!Books
  <1>10. DP!Settled'
    BY <1>0, <1>1, <1>3 DEF DP!Settled, DP!HasStatus
  <1>11. EntryKinds'
    BY <1>0, <1>1 DEF EntryKinds
  <1> QED BY <1>5, <1>6, <1>7, <1>8, <1>9, <1>10, <1>11 DEF SystemInvariant

-----------------------------------------------------------------------------
(* What readers hold.                                                      *)
ReadersOK ==
  /\ rpc \in [Reader -> {"idle", "get", "find", "set"}]
  /\ wanted \in [Reader -> Watched \cup {Null}]
  /\ fetched \in [Reader -> Int \cup {Null}]
  /\ tainted \subseteq Wallet
  /\ \A p \in Reader : rpc[p] # "idle" => wanted[p] \in Watched

LEMMA StoreTypes ==
  SystemInvariant => /\ TypeOK
                     /\ balance \in [Wallet -> Int]
                     /\ cache \in [Wallet -> Int \cup {Null}]
PROOF
  BY SameTransferStates, SameDepositStates DEF SystemInvariant, TypeOK, TP!Control, DP!Control,
     TP!TypeOK, TP!StoreTypeOK

LEMMA ReaderEndsOK ==
  ASSUME ReadersOK, NEW p \in Reader, ReaderEnds(p), tainted' \subseteq Wallet
  PROVE  ReadersOK'
PROOF
  BY DEF ReadersOK, ReaderEnds

LEMMA ReadersStep == SystemInvariant /\ ReadersOK /\ [ReadsNext]_allVars => ReadersOK'
PROOF
  <1> SUFFICES ASSUME SystemInvariant, ReadersOK, [ReadsNext]_allVars PROVE ReadersOK'
    OBVIOUS
  <1>0. tainted \subseteq Wallet /\ balance \in [Wallet -> Int]
    BY StoreTypes DEF ReadersOK
  <1>1. CASE SystemStep
    <2>1. tainted' \subseteq Wallet
      BY <1>0, <1>1 DEF SystemStep, Owed
    <2> QED BY <1>1, <2>1 DEF SystemStep, readerVars, ReadersOK
  <1>2. ASSUME NEW p \in Reader, NEW w \in Watched, Ask(p, w)
        PROVE  ReadersOK'
    BY <1>2 DEF Ask, ReadersOK
  <1>3. ASSUME NEW p \in Reader, CacheGet(p)
        PROVE  ReadersOK'
    <2>1. CASE ReaderEnds(p)
      BY <1>0, <1>3, <2>1, ReaderEndsOK DEF CacheGet
    <2>2. CASE ~ReaderEnds(p)
      BY <1>3, <2>2 DEF CacheGet, ReadersOK
    <2> QED BY <2>1, <2>2
  <1>4. ASSUME NEW p \in Reader, FindBalance(p)
        PROVE  ReadersOK'
    <2>1. CASE ReaderEnds(p)
      BY <1>0, <1>4, <2>1, ReaderEndsOK DEF FindBalance
    <2>2. CASE ~ReaderEnds(p)
      <3>1. wanted[p] \in Wallet
        BY <1>4, WatchedAssumption DEF FindBalance, ReadersOK
      <3>2. balance[wanted[p]] \in Int
        BY <1>0, <3>1
      <3> QED BY <1>4, <2>2, <3>2 DEF FindBalance, ReadersOK
    <2> QED BY <2>1, <2>2
  <1>5. ASSUME NEW p \in Reader, CacheSet(p)
        PROVE  ReadersOK'
    <2>1. wanted[p] \in Wallet
      BY <1>5, WatchedAssumption DEF CacheSet, ReadersOK
    <2>2. tainted' \subseteq Wallet
      BY <1>0, <1>5, <2>1 DEF CacheSet
    <2> QED BY <1>5, <2>2, ReaderEndsOK DEF CacheSet
  <1>6. ASSUME NEW p \in Reader, ReadFails(p)
        PROVE  ReadersOK'
    BY <1>0, <1>6, ReaderEndsOK DEF ReadFails
  <1>7. ASSUME NEW w \in Wallet, Expire(w)
        PROVE  ReadersOK'
    BY <1>7 DEF Expire, readerVars, ReadersOK
  <1>8. CASE UNCHANGED allVars
    BY <1>8 DEF allVars, readerVars, ReadersOK
  <1> QED BY <1>1, <1>2, <1>3, <1>4, <1>5, <1>6, <1>7, <1>8 DEF ReadsNext

\* A reader's step and an expiry leave the stores alone but for the cache.
LEMMA SystemNextToReaders ==
  SystemInvariant /\ ReadersOK /\ [ReadsNext]_allVars => SystemInvariant'
PROOF
  <1> SUFFICES ASSUME SystemInvariant, ReadersOK, [ReadsNext]_allVars PROVE SystemInvariant'
    OBVIOUS
  <1>0. cache \in [Wallet -> Int \cup {Null}]
    BY StoreTypes
  <1>1. CASE Next \/ UNCHANGED vars
    BY <1>1, SystemInvariantStep
  <1>2. ASSUME NEW p \in Reader, CacheSet(p)
        PROVE  SystemInvariant'
    <2>1. cache' \in [Wallet -> Int \cup {Null}]
      BY <1>0, <1>2 DEF CacheSet, ReadersOK
    <2> QED BY <1>2, <2>1, CacheIsApart DEF CacheSet
  <1>3. ASSUME NEW w \in Wallet, Expire(w)
        PROVE  SystemInvariant'
    <2>1. cache' \in [Wallet -> Int \cup {Null}]
      BY <1>0, <1>3 DEF Expire
    <2> QED BY <1>3, <2>1, CacheIsApart DEF Expire
  <1>4. \/ Next \/ UNCHANGED vars
        \/ \E p \in Reader : CacheSet(p)
        \/ \E w \in Wallet : Expire(w)
    BY DEF ReadsNext, SystemStep, Ask, CacheGet, FindBalance, ReadFails, allVars
  <1> QED BY <1>1, <1>2, <1>3, <1>4

LEMMA ReadsInvariantHolds == ReadsSpec => [](SystemInvariant /\ ReadersOK)
PROOF
  <1>1. ReadsInit => SystemInvariant /\ ReadersOK
    BY SystemInit DEF ReadsInit, ReadersOK
  <1> QED BY <1>1, ReadersStep, SystemNextToReaders, PTL DEF ReadsSpec

\* Readers, transfers and deposits keep their types, whatever a reader finds
\* and whenever it fills the cache.
THEOREM ReadsTypes == ReadsSpec => []ReadsTypeOK
PROOF
  <1>1. SystemInvariant /\ ReadersOK => ReadsTypeOK
    BY StoreTypes DEF ReadersOK, ReadsTypeOK
  <1> QED BY <1>1, ReadsInvariantHolds, PTL

-----------------------------------------------------------------------------
(* Why a cached balance is stale.                                          *)
\* A writer changes a balance only together with its debt to delete the cached
\* one, and touches the cache only to delete.
WritersOwe ==
  \A w \in Wallet : \/ cache'[w] = Null
                   \/ /\ cache'[w] = cache[w]
                      /\ balance'[w] = balance[w] \/ w \in Owed'

LEMMA TransfersOwe ==
  ASSUME SystemInvariant, T!Next
  PROVE  WritersOwe
PROOF
  <1>0. TP!Control /\ TP!Next /\ balance \in [Wallet -> Int] /\ cache \in [Wallet -> Int \cup {Null}]
    BY SameTransfers, StoreTypes DEF SystemInvariant
  <1>1. ASSUME NEW r \in TransferRequest, TP!Commit(r), NEW w \in Wallet
        PROVE  cache'[w] = cache[w] /\ (balance'[w] = balance[w] \/ w \in Owed')
    <2>1. uncleared \in [TransferRequest -> SUBSET Wallet]
      BY <1>0 DEF TP!Control, TP!TypeOK
    <2>2. uncleared'[r] = {fromWallet[r], tinput[r].to}
      BY <1>1, <2>1 DEF TP!Commit, TP!ClearedAfter
    <2>3. CASE w \in uncleared'[r]
      BY <1>1, <2>3 DEF TP!Commit, Owed
    <2>4. CASE w \notin uncleared'[r]
      BY <1>0, <1>1, <2>2, <2>4 DEF TP!Commit, TP!Moved
    <2> QED BY <2>3, <2>4
  <1>2. CASE ~ \E r \in TransferRequest : TP!Commit(r)
    <2>1. balance' = balance
      BY <1>0, <1>2, TransfersAssumptions, TP!OnlyCommit
    <2>2. cache' = cache \/ \E v : cache' = [cache EXCEPT ![v] = Null]
      BY <1>0, <1>2 DEF TP!Next, TP!Arrive, TP!Progress, TP!Locking, TP!Fail, TP!FindRecipient,
         TP!FindExisting, TP!FindSender, TP!CreateTransfer, TP!RejectMissingWallet,
         TP!RejectInsufficient, TP!RejectDuplicateEntry, TP!Invalidate, TP!LockFirst,
         TP!LockSecond, TP!Rollback, TP!RemoveUser, TP!DeleteUser, TP!storeVars
    <2> QED BY <1>0, <2>1, <2>2 DEF WritersOwe
  <1> QED BY <1>1, <1>2 DEF WritersOwe

LEMMA SettlementsOwe ==
  ASSUME SystemInvariant, D!Next
  PROVE  WritersOwe
PROOF
  <1>0. /\ DP!Control /\ DP!Isolation /\ DP!Next
        /\ balance \in [Wallet -> Int] /\ cache \in [Wallet -> Int \cup {Null}]
    BY SameDeposits, StoreTypes DEF SystemInvariant
  <1>1. ASSUME NEW h \in Handler, DP!Settle(h), NEW w \in Wallet
        PROVE  cache'[w] = cache[w] /\ (balance'[w] = balance[w] \/ w \in Owed')
    <2>1. hpc'[h] = "invalidate" /\ wallet' = wallet /\ cache' = cache
      BY <1>0, <1>1 DEF DP!Settle, DP!HGoto, DP!Control, DP!TypeOK
    <2>2. CASE w = wallet[h]
      BY <2>1, <2>2 DEF Owed
    <2>3. CASE w # wallet[h]
      BY <1>0, <1>1, <2>1, <2>3 DEF DP!Settle
    <2> QED BY <2>1, <2>2, <2>3
  <1>2. CASE ~ \E h \in Handler : DP!Settle(h)
    <2>1. balance' = balance
      BY <1>0, <1>2, DepositsAssumptions, DP!OnlySettle
    <2>2. cache' = cache \/ \E v : cache' = [cache EXCEPT ![v] = Null]
      <3>1. ASSUME NEW r \in DepositRequest, DP!RequestNext(r)
            PROVE  cache' = cache
        BY <3>1 DEF DP!RequestNext, DP!Arrive, DP!FindExisting, DP!FindWallet,
           DP!CreateTransaction, DP!UnsupportedMethod, DP!CreateSession, DP!UpdateProviderRef,
           DP!ReturnUrl, DP!Fail, DP!storeVars
      <3>2. ASSUME NEW h \in Handler, DP!HandlerNext(h)
            PROVE  cache' = cache \/ \E v : cache' = [cache EXCEPT ![v] = Null]
        BY <1>2, <3>2 DEF DP!HandlerNext, DP!Deliver, DP!SettleFind, DP!FindPending,
           DP!SettleFindWallet, DP!LockWallet, DP!SettleRefused, DP!InvalidateCache,
           DP!FailFind, DP!FailUpdate, DP!HandlerFails, DP!storeVars
      <3>3. CASE \E u \in User : DP!RemoveUser(u)
        BY <3>3 DEF DP!RemoveUser, DP!DeleteUser
      <3>4. CASE \E s \in Session : DP!Pay(s) \/ DP!Expire(s)
        BY <3>4 DEF DP!Pay, DP!Expire, DP!Becomes, DP!Emit, DP!storeVars
      <3> QED BY <1>0, <3>1, <3>2, <3>3, <3>4 DEF DP!Next
    <2> QED BY <1>0, <2>1, <2>2 DEF WritersOwe
  <1> QED BY <1>1, <1>2 DEF WritersOwe

LEMMA OnlyWritersOwe == UNCHANGED <<transferVars, depositVars>> => Owed' = Owed
PROOF
  BY DEF transferVars, depositVars, Owed

\* The debt of a writer that fails to pay is taken down, and paid when the
\* cached balance goes.
LEMMA StaleStep ==
  SystemInvariant /\ ReadersOK /\ StaleHasCause /\ [ReadsNext]_allVars => StaleHasCause'
PROOF
  <1> SUFFICES ASSUME SystemInvariant, ReadersOK, StaleHasCause, [ReadsNext]_allVars,
                      NEW w \in Wallet, cache'[w] # Null, cache'[w] # balance'[w]
               PROVE  w \in tainted' \cup Owed'
    BY DEF StaleHasCause
  <1>0. /\ cache \in [Wallet -> Int \cup {Null}]
        /\ cache[w] # Null /\ cache[w] # balance[w] => w \in tainted \cup Owed
    BY StoreTypes DEF StaleHasCause
  <1>1. CASE SystemStep
    <2>1. WritersOwe
      BY <1>1, TransfersOwe, SettlementsOwe DEF SystemStep, Next
    <2>2. cache'[w] = cache[w] /\ (balance'[w] = balance[w] \/ w \in Owed')
      BY <2>1 DEF WritersOwe
    <2> QED BY <1>0, <1>1, <2>2 DEF SystemStep
  <1>2. ASSUME NEW p \in Reader, CacheSet(p)
        PROVE  w \in tainted' \cup Owed'
    <2>1. Owed' = Owed /\ balance' = balance
      BY <1>2, OnlyWritersOwe DEF CacheSet, OnlyCache
    <2>2. CASE w = wanted[p]
      BY <1>0, <1>2, <2>1, <2>2 DEF CacheSet
    <2>3. CASE w # wanted[p]
      BY <1>0, <1>2, <2>1, <2>3 DEF CacheSet
    <2> QED BY <2>2, <2>3
  <1>3. ASSUME NEW v \in Wallet, Expire(v)
        PROVE  w \in tainted' \cup Owed'
    <2>1. Owed' = Owed /\ balance' = balance
      BY <1>3, OnlyWritersOwe DEF Expire, OnlyCache
    <2>2. v # w /\ cache'[w] = cache[w]
      BY <1>0, <1>3 DEF Expire
    <2> QED BY <1>0, <1>3, <2>1, <2>2 DEF Expire
  <1>4. CASE UNCHANGED <<vars, tainted>>
    <2>1. Owed' = Owed /\ balance' = balance /\ cache' = cache
      BY <1>4, OnlyWritersOwe DEF vars, storeVars
    <2> QED BY <1>0, <1>4, <2>1
  <1>5. \/ SystemStep
        \/ \E p \in Reader : CacheSet(p)
        \/ \E v \in Wallet : Expire(v)
        \/ UNCHANGED <<vars, tainted>>
    BY DEF ReadsNext, Ask, CacheGet, FindBalance, ReadFails, allVars
  <1> QED BY <1>1, <1>2, <1>3, <1>4, <1>5

\* A cached balance differs from the wallet's only while a writer is about to
\* delete it, or after that deletion failed or a reader's late fill overtook
\* it, however transfers, settlements, readers and expiries interleave.
THEOREM StaleHasCauseHolds == ReadsSpec => []StaleHasCause
PROOF
  <1>1. ReadsInit => StaleHasCause
    BY DEF ReadsInit, Init, T!Init, T!StoreInit, StaleHasCause
  <1> QED BY <1>1, ReadsInvariantHolds, StaleStep, PTL DEF ReadsSpec
=============================================================================
