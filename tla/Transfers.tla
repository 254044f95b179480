------------------------------ MODULE Transfers ------------------------------
(***************************************************************************)
(* TransfersService.initiateTransfer and TransfersRepository: peer-to-peer *)
(* transfers.  Several requests run at once, on one or several instances   *)
(* of the server; each is a slot r of Request that moves through the awaits *)
(* of the method.  Whatever the method read before an await is kept in the *)
(* request's own variables and used as it was read.                        *)
(*                                                                         *)
(* executeTransfer is a database transaction: nothing it writes is seen    *)
(* before its COMMIT, so its writes are one step, taken after the two      *)
(* SELECT ... FOR UPDATE.                                                  *)
(***************************************************************************)
EXTENDS WalletStore

CONSTANTS
  Request,   \* requests the servers handle at the same time
  Inputs     \* the requests clients may send

InitiateTransferDto ==
  [from: User, to: Wallet, amount: Amount, currency: Currency, key: Key]

ASSUME RequestAssumption == Request \subseteq Holder
ASSUME InputsAssumption == Inputs \subseteq InitiateTransferDto /\ Null \notin Inputs

VARIABLES
  transfer,    \* transfer[k]: the row of the transfer table with key k, or Null
  pc,          \* pc[r]: the await request r has reached
  input,       \* input[r]: the authenticated user and the DTO, or Null
  response,    \* response[r]: the answer to the last request of slot r
  fromWallet,  \* fromWallet[r]: the id findByUserIdAndCurrency returned
  firstRow,    \* firstRow[r]: the balance in the first locked row
  secondRow,   \* secondRow[r]: the balance in the second locked row
  uncleared    \* uncleared[r]: wallets whose cached balance is still to be deleted

requestVars == <<pc, input, response, fromWallet, firstRow, secondRow, uncleared>>
vars == <<storeVars, transfer, requestVars>>

-----------------------------------------------------------------------------
TransferStatus == {"PENDING", "COMPLETED", "FAILED"}

Transfer ==
  [from_user: User, to_user: User, amount: Amount, currency: Currency, status: TransferStatus]

ASSUME NullTransferAssumption == Null \notin Transfer

Responses == {"none", "accepted", "notFound", "badRequest", "error"}

Steps ==
  {"idle", "findByWalletTag", "findByIdempotencyKey", "findByUserIdAndCurrency",
   "createTransfer", "lockFirst", "lockSecond", "execute", "invalidate"}

Goto(r, step) == pc' = [pc EXCEPT ![r] = step]

\* The request ends with answer a; its local variables are gone.
Answer(r, a) ==
  /\ Goto(r, "idle")
  /\ response' = [response EXCEPT ![r] = a]
  /\ fromWallet' = [fromWallet EXCEPT ![r] = Null]
  /\ firstRow' = [firstRow EXCEPT ![r] = Null]
  /\ secondRow' = [secondRow EXCEPT ![r] = Null]
  /\ uncleared' = [uncleared EXCEPT ![r] = {}]
  /\ UNCHANGED input

\* An error thrown inside executeTransfer: ROLLBACK, then the answer.
Rollback(r, a) ==
  /\ ReleaseLocks(r)
  /\ Answer(r, a)
  /\ UNCHANGED <<users, live, balance, ledger, outbox, cache, transfer>>

-----------------------------------------------------------------------------
\* POST /transfers of a user whose token JwtStrategy.validate accepted.
Arrive(r, i) ==
  /\ pc[r] = "idle"
  /\ i.from \in users
  /\ Goto(r, "findByWalletTag")
  /\ input' = [input EXCEPT ![r] = i]
  /\ response' = [response EXCEPT ![r] = "none"]
  /\ UNCHANGED <<storeVars, transfer, fromWallet, firstRow, secondRow, uncleared>>

\* The two checks on the recipient's wallet, in the code's order.
AcceptsRecipientOfAnyCurrency(i) == i.from # Owner[i.to]
AcceptsRecipient(i) == CurrencyOf[i.to] = i.currency /\ i.from # Owner[i.to]

FindRecipient(r) ==
  /\ pc[r] = "findByWalletTag"
  /\ \/ /\ input[r].to \notin live
        /\ Answer(r, "notFound")
     \/ /\ input[r].to \in live
        /\ ~AcceptsRecipient(input[r])
        /\ Answer(r, "badRequest")
     \/ /\ input[r].to \in live
        /\ AcceptsRecipient(input[r])
        /\ Goto(r, "findByIdempotencyKey")
        /\ UNCHANGED <<input, response, fromWallet, firstRow, secondRow, uncleared>>
  /\ UNCHANGED <<storeVars, transfer>>

\* A key that has a transfer, whatever became of it, is answered 202.
FindExisting(r) ==
  /\ pc[r] = "findByIdempotencyKey"
  /\ \/ /\ transfer[input[r].key] # Null
        /\ Answer(r, "accepted")
     \/ /\ transfer[input[r].key] = Null
        /\ Goto(r, "findByUserIdAndCurrency")
        /\ UNCHANGED <<input, response, fromWallet, firstRow, secondRow, uncleared>>
  /\ UNCHANGED <<storeVars, transfer>>

FindSender(r) ==
  /\ pc[r] = "findByUserIdAndCurrency"
  /\ \/ /\ WalletsOf(input[r].from, input[r].currency) = {}
        /\ Answer(r, "notFound")
     \/ \E w \in WalletsOf(input[r].from, input[r].currency) :
          /\ fromWallet' = [fromWallet EXCEPT ![r] = w]
          /\ Goto(r, "createTransfer")
          /\ UNCHANGED <<input, response, firstRow, secondRow, uncleared>>
  /\ UNCHANGED <<storeVars, transfer>>

\* The unique index on transfer.idempotency_key.
TransferKeyFreeAlways(k) == TRUE
TransferKeyFree(k) == transfer[k] = Null

NewTransferWithoutStatus(i) ==
  [from_user |-> i.from, to_user |-> Owner[i.to], amount |-> i.amount,
   currency |-> i.currency, status |-> Null]
NewTransfer(i) ==
  [from_user |-> i.from, to_user |-> Owner[i.to], amount |-> i.amount,
   currency |-> i.currency, status |-> "PENDING"]

CreateTransfer(r) ==
  /\ pc[r] = "createTransfer"
  /\ \/ /\ ~TransferKeyFree(input[r].key)
        /\ Answer(r, "error")
        /\ UNCHANGED transfer
     \/ /\ TransferKeyFree(input[r].key)
        /\ transfer' = [transfer EXCEPT ![input[r].key] = NewTransfer(input[r])]
        /\ Goto(r, "lockFirst")
        /\ UNCHANGED <<input, response, fromWallet, firstRow, secondRow, uncleared>>
  /\ UNCHANGED storeVars

-----------------------------------------------------------------------------
(* executeTransfer.  The row locks are taken in the order of the ids.      *)
SenderFirst(v, w) == v
LowerFirst(v, w) == IF v < w THEN v ELSE w

FirstWallet(r) == LowerFirst(fromWallet[r], input[r].to)
SecondWallet(r) == IF FirstWallet(r) = fromWallet[r] THEN input[r].to ELSE fromWallet[r]

LockFirst(r) ==
  /\ pc[r] = "lockFirst"
  /\ LockRow(r, FirstWallet(r))
  /\ firstRow' = [firstRow EXCEPT ![r] = RowRead(FirstWallet(r))]
  /\ Goto(r, "lockSecond")
  /\ UNCHANGED <<users, live, balance, ledger, outbox, cache, transfer,
                 input, response, fromWallet, secondRow, uncleared>>

LockSecond(r) ==
  /\ pc[r] = "lockSecond"
  /\ LockRow(r, SecondWallet(r))
  /\ secondRow' = [secondRow EXCEPT ![r] = RowRead(SecondWallet(r))]
  /\ Goto(r, "execute")
  /\ UNCHANGED <<users, live, balance, ledger, outbox, cache, transfer,
                 input, response, fromWallet, firstRow, uncleared>>

BothFound(r) == firstRow[r] # Null /\ secondRow[r] # Null

SenderRow(r) == IF FirstWallet(r) = fromWallet[r] THEN firstRow[r] ELSE secondRow[r]
ReceiverRow(r) == IF FirstWallet(r) = input[r].to THEN firstRow[r] ELSE secondRow[r]

\* senderNewBalance < 0
SufficientOffByOne(b, a) == b - a >= -1
Sufficient(b, a) == b - a >= 0

\* The sender's balance is looked at first, before the other row is needed.
Short(r) ==
  /\ firstRow[r] # Null
  /\ SenderRow(r) # Null
  /\ ~Sufficient(SenderRow(r), input[r].amount)

RejectInsufficient(r) ==
  /\ pc[r] = "execute"
  /\ Short(r)
  /\ Rollback(r, "badRequest")

\* A row that was deleted since it was found: reading its id or its balance
\* throws a TypeError, answered 500.
RejectMissingWallet(r) ==
  /\ pc[r] = "execute"
  /\ ~BothFound(r)
  /\ ~Short(r)
  /\ Rollback(r, "error")

LegKeysTaken(k) == LedgerKeyTaken(OutKey(k)) \/ LedgerKeyTaken(InKey(k))

\* The INSERT of the two entries meets a key that a deposit used.
RejectDuplicateEntry(r) ==
  /\ pc[r] = "execute"
  /\ BothFound(r)
  /\ Sufficient(SenderRow(r), input[r].amount)
  /\ LegKeysTaken(input[r].key)
  /\ Rollback(r, "error")

\* The balances the transaction leaves in the two rows.
Moved(v, w, before, after, a) == [balance EXCEPT ![v] = before - a, ![w] = after + a]

\* The debit and the credit entry.
DebitOnly(v, w, before, after, a, k) ==
  [ledger EXCEPT ![v] = Append(@, Entry("TRANSFER_OUT", a, before - a, OutKey(k)))]
WithLegs(v, w, before, after, a, k) ==
  [ledger EXCEPT ![v] = Append(@, Entry("TRANSFER_OUT", a, before - a, OutKey(k))),
                 ![w] = Append(@, Entry("TRANSFER_IN", a, after + a, InKey(k)))]

\* The cached balances the service deletes after the commit.
ClearsSenderOnly(v, w) == {v}
ClearedAfter(v, w) == {v, w}

Commit(r) ==
  LET v == fromWallet[r]
      w == input[r].to
      a == input[r].amount
      k == input[r].key
  IN  /\ pc[r] = "execute"
      /\ BothFound(r)
      /\ Sufficient(SenderRow(r), a)
      /\ ~LegKeysTaken(k)
      /\ balance' = Moved(v, w, SenderRow(r), ReceiverRow(r), a)
      /\ ledger' = WithLegs(v, w, SenderRow(r), ReceiverRow(r), a, k)
      /\ transfer' = [transfer EXCEPT ![k].status = "COMPLETED"]
      /\ SaveOutbox("TransferCompleted", k)
      /\ ReleaseLocks(r)
      /\ Goto(r, "invalidate")
      /\ uncleared' = [uncleared EXCEPT ![r] = ClearedAfter(v, w)]
      /\ firstRow' = [firstRow EXCEPT ![r] = Null]
      /\ secondRow' = [secondRow EXCEPT ![r] = Null]
      /\ UNCHANGED <<users, live, cache, input, response, fromWallet>>

\* Promise.all of the two invalidateBalanceCache: in either order; the answer
\* 202 is given when both are done.
Invalidate(r, w) ==
  /\ pc[r] = "invalidate"
  /\ w \in uncleared[r]
  /\ cache' = [cache EXCEPT ![w] = Null]
  /\ \/ /\ uncleared[r] = {w}
        /\ Answer(r, "accepted")
     \/ /\ uncleared[r] # {w}
        /\ uncleared' = [uncleared EXCEPT ![r] = @ \ {w}]
        /\ UNCHANGED <<pc, input, response, fromWallet, firstRow, secondRow>>
  /\ UNCHANGED <<users, live, balance, lock, ledger, outbox, transfer>>

\* The database or Redis fails the call, a lock wait times out, or the server
\* stops: an open transaction is rolled back, the client sees an error.  After
\* the commit this is also the case of the lost acknowledgement.
Fail(r) == pc[r] # "idle" /\ Rollback(r, "error")

RemoveUser(u) == DeleteUser(u) /\ UNCHANGED <<transfer, requestVars>>

-----------------------------------------------------------------------------
Init ==
  /\ StoreInit
  /\ transfer = [k \in Key |-> Null]
  /\ pc = [r \in Request |-> "idle"]
  /\ input = [r \in Request |-> Null]
  /\ response = [r \in Request |-> "none"]
  /\ fromWallet = [r \in Request |-> Null]
  /\ firstRow = [r \in Request |-> Null]
  /\ secondRow = [r \in Request |-> Null]
  /\ uncleared = [r \in Request |-> {}]

\* The steps the server takes by itself once a request is in.
Locking(r) == LockFirst(r) \/ LockSecond(r)

Progress(r) ==
  \/ FindRecipient(r) \/ FindExisting(r) \/ FindSender(r) \/ CreateTransfer(r)
  \/ RejectMissingWallet(r) \/ RejectInsufficient(r) \/ RejectDuplicateEntry(r)
  \/ Commit(r)
  \/ \E w \in Wallet : Invalidate(r, w)

Next ==
  \/ \E r \in Request :
       \/ \E i \in Inputs : Arrive(r, i)
       \/ Progress(r)
       \/ Locking(r)
       \/ Fail(r)
  \/ \E u \in User : RemoveUser(u)

Spec == Init /\ [][Next]_vars

\* Node.js runs every pending continuation, and InnoDB grants a row lock to
\* its waiters in the order they came, so a request that waits for a row that
\* is released again and again gets it.
Fairness == \A r \in Request : WF_vars(Progress(r)) /\ SF_vars(Locking(r))

FairSpec == Spec /\ Fairness

-----------------------------------------------------------------------------
TypeOK ==
  /\ StoreTypeOK
  /\ transfer \in [Key -> Transfer \cup {Null}]
  /\ pc \in [Request -> Steps]
  /\ input \in [Request -> Inputs \cup {Null}]
  /\ response \in [Request -> Responses]
  /\ fromWallet \in [Request -> Wallet \cup {Null}]
  /\ firstRow \in [Request -> Int \cup {Null}]
  /\ secondRow \in [Request -> Int \cup {Null}]
  /\ uncleared \in [Request -> SUBSET Wallet]

\* The steps between the INSERT of the transfer and its COMMIT.
Executing(r) == pc[r] \in {"lockFirst", "lockSecond", "execute"}

\* Two requests never execute the same key, however their duplicate checks
\* (findByIdempotencyKey) and their INSERTs interleave; and the row of a
\* request that executes is the PENDING one it inserted.
OneExecutor ==
  \A r \in Request : Executing(r) =>
    /\ transfer[input[r].key] = NewTransfer(input[r])
    /\ \A s \in Request : Executing(s) /\ input[s].key = input[r].key => s = r

\* The balances a transaction computes with are the ones still in the rows:
\* nobody changes a row between its SELECT ... FOR UPDATE and the COMMIT.
ReadsCurrent ==
  \A r \in Request :
    /\ firstRow[r] # Null => firstRow[r] = balance[FirstWallet(r)]
    /\ secondRow[r] # Null => secondRow[r] = balance[SecondWallet(r)]

\* A COMPLETED transfer has exactly the two entries of double-entry booking,
\* of its amount, in the wallets of its two users, and one TransferCompleted
\* event; any other transfer has left no trace in the ledger or the outbox.
Leg(w, i, type, k) ==
  ledger[w][i].type = type /\ ledger[w][i].idempotency_key = k

HasLeg(u, t, type, k) ==
  \E w \in Wallet : \E i \in 1..Len(ledger[w]) :
    /\ Leg(w, i, type, k)
    /\ Owner[w] = u
    /\ CurrencyOf[w] = t.currency
    /\ ledger[w][i].amount = t.amount

Completed(k) == transfer[k] # Null /\ transfer[k].status = "COMPLETED"

DoubleEntry ==
  \A k \in Key :
    /\ outbox[Event("TransferCompleted", k)] = IF Completed(k) THEN 1 ELSE 0
    /\ Completed(k) =>
         /\ HasLeg(transfer[k].from_user, transfer[k], "TRANSFER_OUT", OutKey(k))
         /\ HasLeg(transfer[k].to_user, transfer[k], "TRANSFER_IN", InKey(k))
    /\ ~Completed(k) =>
         \A w \in Wallet : \A i \in 1..Len(ledger[w]) :
           /\ ~Leg(w, i, "TRANSFER_OUT", OutKey(k))
           /\ ~Leg(w, i, "TRANSFER_IN", InKey(k))

\* No set of requests waits in a circle for each other's row locks: what the
\* lock ordering in executeTransfer is for.
WaitsFor(r, s) ==
  \/ pc[r] = "lockFirst" /\ lock[FirstWallet(r)] = s /\ r # s
  \/ pc[r] = "lockSecond" /\ lock[SecondWallet(r)] = s /\ r # s

NoDeadlock ==
  \A S \in SUBSET Request : S # {} => \E r \in S : \A s \in S : ~WaitsFor(r, s)

\* A transfer row never changes except from PENDING to COMPLETED, once: a
\* duplicate request neither overwrites the parties or the amount of a
\* transfer nor takes a COMPLETED one back.
TransferRowsStay ==
  [][\A k \in Key : transfer[k] # Null =>
       \/ transfer'[k] = transfer[k]
       \/ /\ transfer[k].status = "PENDING"
          /\ transfer'[k] = [transfer[k] EXCEPT !.status = "COMPLETED"]]_vars

\* Every request is answered: no lock is leaked and no wait lasts for ever.
Answered == \A r \in Request : pc[r] # "idle" ~> pc[r] = "idle"

-----------------------------------------------------------------------------
(* The parts of the inductive invariant that are not properties by         *)
(* themselves: what a request's local variables hold at each await, and    *)
(* which rows it has locked.                                               *)
FoundRecipient ==
  {"findByIdempotencyKey", "findByUserIdAndCurrency", "createTransfer",
   "lockFirst", "lockSecond", "execute", "invalidate"}
FoundSender == {"createTransfer", "lockFirst", "lockSecond", "execute", "invalidate"}

LocalsOK ==
  \A r \in Request :
    /\ pc[r] # "idle" => input[r] \in Inputs
    /\ pc[r] \in FoundRecipient => AcceptsRecipient(input[r])
    /\ pc[r] \in FoundSender =>
         /\ fromWallet[r] \in Wallet
         /\ Owner[fromWallet[r]] = input[r].from
         /\ CurrencyOf[fromWallet[r]] = input[r].currency
    /\ firstRow[r] # Null => pc[r] \in {"lockSecond", "execute"}
    /\ secondRow[r] # Null => pc[r] = "execute"

LocksOK ==
  \A r \in Request :
    /\ firstRow[r] # Null => lock[FirstWallet(r)] = r
    /\ secondRow[r] # Null => lock[SecondWallet(r)] = r
    /\ \A w \in Wallet : lock[w] = r =>
         \/ pc[r] \in {"lockSecond", "execute"} /\ w = FirstWallet(r)
         \/ pc[r] = "execute" /\ w = SecondWallet(r)

-----------------------------------------------------------------------------
\* Transfers implement the abstract bank: a COMPLETED row is a movement.
WalletOf(u, c) == CHOOSE w \in Wallet : Owner[w] = u /\ CurrencyOf[w] = c

Movement(k) ==
  IF Completed(k)
  THEN [from   |-> WalletOf(transfer[k].from_user, transfer[k].currency),
        to     |-> WalletOf(transfer[k].to_user, transfer[k].currency),
        amount |-> transfer[k].amount]
  ELSE Null

TheBank == INSTANCE Bank WITH
  funds <- balance, moved <- [k \in Key |-> Movement(k)], paidIn <- Earlier

\* Every commit of executeTransfer is one atomic movement under a fresh key
\* that the sender could afford, and no other step moves money.
ImplementsBank == TheBank!Spec

-----------------------------------------------------------------------------
\* README: "duplicate requests return the existing result instead of
\* double-processing".  A request answered 202 is for a transfer that is done
\* or that another request is still executing.
AcceptedIsUnderWay ==
  \A r \in Request : response[r] = "accepted" =>
    LET k == input[r].key
    IN  Completed(k) \/ \E s \in Request : Executing(s) /\ input[s].key = k
=============================================================================
