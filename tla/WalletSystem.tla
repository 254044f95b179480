---------------------------- MODULE WalletSystem ----------------------------
(***************************************************************************)
(* Transfers and deposits together, on one store: the row locks, the       *)
(* balances, the ledger with its one unique index of idempotency keys, the *)
(* outbox and the balance cache.  A transfer and a settlement meet in the  *)
(* row of a wallet, in the key of a ledger entry, and in a user who is     *)
(* deleted under both.                                                     *)
(***************************************************************************)
EXTENDS WalletStore

CONSTANTS
  TransferRequest, TransferInputs,                            \* see Transfers
  DepositRequest, DepositInputs, Handler, Session, DelayedMethods  \* see Deposits

\* Every request and every handler has a database connection of its own.
ASSUME ConnectionsAssumption ==
  /\ TransferRequest \cup DepositRequest \cup Handler \subseteq Holder
  /\ TransferRequest \cap (DepositRequest \cup Handler) = {}

VARIABLES
  transfer, tpc, tinput, tresponse, fromWallet, firstRow, secondRow, uncleared,
  tx, dpc, dinput, dresponse, created, session, handedOut, sent, unacked,
  hpc, event, found, wallet, row

T == INSTANCE Transfers WITH
  Request <- TransferRequest, Inputs <- TransferInputs,
  pc <- tpc, input <- tinput, response <- tresponse

D == INSTANCE Deposits WITH
  Request <- DepositRequest, Inputs <- DepositInputs,
  pc <- dpc, input <- dinput, response <- dresponse

\* The requests are DTOs, and no row, session or event is SQL NULL.
ASSUME ComponentsAssumption ==
  /\ TransferInputs \subseteq T!InitiateTransferDto /\ Null \notin TransferInputs
  /\ Null \notin T!Transfer
  /\ DepositInputs \subseteq D!DepositDto /\ Null \notin DepositInputs
  /\ DelayedMethods \in BOOLEAN
  /\ Null \notin D!Transaction /\ Null \notin D!CheckoutSession /\ Null \notin D!StripeEvent
  /\ Null \notin Session /\ D!EarlierSession \notin Session \cup {Null}

transferVars == <<transfer, tpc, tinput, tresponse, fromWallet, firstRow, secondRow, uncleared>>
depositVars == <<tx, dpc, dinput, dresponse, created, session, handedOut, sent, unacked,
                 hpc, event, found, wallet, row>>
vars == <<storeVars, transferVars, depositVars>>

-----------------------------------------------------------------------------
Init == T!Init /\ D!Init

Next ==
  \/ T!Next /\ UNCHANGED depositVars
  \/ D!Next /\ UNCHANGED transferVars

Spec == Init /\ [][Next]_vars

-----------------------------------------------------------------------------
TypeOK == T!TypeOK /\ D!TypeOK

\* An entry of the ledger belongs to a completed transfer or deposit, and is of
\* its kind, amount, user and currency.
Explains(w, e) ==
  \/ \E k \in Key :
       /\ e = Entry("DEPOSIT", e.amount, e.balance_after, k)
       /\ D!HasStatus(k, "COMPLETED")
       /\ e.amount = tx[k].amount /\ w = D!WalletOf(tx[k].user, tx[k].currency)
  \/ \E k \in Key :
       /\ T!Completed(k)
       /\ e.amount = transfer[k].amount
       /\ \/ /\ e.type = "TRANSFER_OUT" /\ e.idempotency_key = OutKey(k)
             /\ w = T!WalletOf(transfer[k].from_user, transfer[k].currency)
          \/ /\ e.type = "TRANSFER_IN" /\ e.idempotency_key = InKey(k)
             /\ w = T!WalletOf(transfer[k].to_user, transfer[k].currency)

Booked(k) == \E w \in Wallet : \E i \in 1..Len(ledger[w]) : ledger[w][i].idempotency_key = k

\* Every entry is explained, no two of them share a key, and every completed
\* transfer or deposit has its entries and its one event.  Deposits book under
\* the client's key and transfers under that key with a suffix, in one index,
\* so the two name spaces may meet.
Reconciles ==
  /\ BookedOnce
  /\ \A w \in Wallet : \A i \in 1..Len(ledger[w]) : Explains(w, ledger[w][i])
  /\ \A k \in Key :
       /\ D!HasStatus(k, "COMPLETED") => Booked(k)
       /\ T!Completed(k) => Booked(OutKey(k)) /\ Booked(InKey(k))
       /\ outbox[Event("DepositSucceeded", k)] = IF D!HasStatus(k, "COMPLETED") THEN 1 ELSE 0
       /\ outbox[Event("TransferCompleted", k)] = IF T!Completed(k) THEN 1 ELSE 0

-----------------------------------------------------------------------------
TheBank == INSTANCE Bank WITH
  funds <- balance,
  moved <- [k \in Key |-> T!Movement(k)],
  paidIn <- [k \in Key |-> D!Payment(k)]

\* Transfers and settlements on the same wallets implement the abstract bank:
\* whatever they read and lock in between, every step is one movement, one
\* payment, or none.
ImplementsBank == TheBank!Spec
=============================================================================
