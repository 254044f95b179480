----------------------------- MODULE WalletStore -----------------------------
(***************************************************************************)
(* The state every money-moving component shares: the MySQL tables user,   *)
(* wallet, ledger_entry and outbox_event, the row locks a SELECT ... FOR   *)
(* UPDATE takes, and the balance cache in Redis.  Transfers, deposits and  *)
(* balance reads EXTEND this module and act on the same variables.         *)
(*                                                                         *)
(* A wallet id is a natural number: the code only compares ids with "<"    *)
(* and "=".  The columns of a wallet that never change (user_id, currency) *)
(* are constant functions of the id; wallet_tag is unique, so a tag is     *)
(* represented by the id of the wallet that carries it.  The cache key     *)
(* wallet:balance:<user>:<currency> likewise names one wallet.             *)
(***************************************************************************)
EXTENDS Integers, Sequences, FiniteSets

CONSTANTS
  User,         \* ids of the user table
  Currency,     \* SupportedCurrency
  Wallet,       \* ids of the wallet table
  Owner,        \* Owner[w]: the column user_id
  CurrencyOf,   \* CurrencyOf[w]: the column currency
  Amount,       \* amounts a request may carry, in cents
  Key,          \* idempotency keys a client may send (see LedgerKey)
  Holder,       \* database connections that can hold a row lock
  Deletable,    \* users an administrator may delete
  Opening,      \* Opening[w]: balance left by deposits settled earlier
  OpeningKey,   \* OpeningKey[w]: idempotency key of that earlier deposit
  Null          \* SQL NULL, a missing row, a free lock, a cache miss

\* A unique index keeps (user_id, currency) unique in the wallet table.
ASSUME WalletAssumption ==
  /\ Wallet \subseteq Nat /\ IsFiniteSet(Wallet)
  /\ Owner \in [Wallet -> User]
  /\ CurrencyOf \in [Wallet -> Currency]
  /\ \A v, w \in Wallet : Owner[v] = Owner[w] /\ CurrencyOf[v] = CurrencyOf[w] => v = w

\* @IsInt() @Min(1): every amount a DTO lets through is positive.
ASSUME AmountAssumption == Amount \subseteq Nat \ {0}

\* A key is a string; strings are sequences of tokens, so that
\* `${key}:out` is the key with one token more.
ASSUME KeyAssumption == Key \subseteq Seq(STRING)

ASSUME NullAssumption ==
  /\ Null \notin Int
  /\ Null \notin Holder
  /\ \A k \in Key : Null # k
  /\ Null \notin [to: Wallet, amount: Nat]

ASSUME OpeningAssumption ==
  /\ Deletable \subseteq User
  /\ Opening \in [Wallet -> Nat]
  /\ OpeningKey \in [Wallet -> Key]
  /\ \A v, w \in Wallet : OpeningKey[v] = OpeningKey[w] => v = w

VARIABLES
  users,     \* rows of the user table
  live,      \* ids of the rows of the wallet table
  balance,   \* balance[w]: the column balance (the last one, for a deleted row)
  lock,      \* lock[w]: the connection that holds the row lock, or Null
  ledger,    \* ledger[w]: the ledger entries of wallet w, oldest first
  outbox,    \* outbox[e]: the number of rows of outbox_event that hold e
  cache      \* cache[w]: the balance Redis holds for w, or Null

storeVars == <<users, live, balance, lock, ledger, outbox, cache>>

-----------------------------------------------------------------------------
LedgerEntryType == {"DEPOSIT", "TRANSFER_OUT", "TRANSFER_IN"}

\* The keys of a transfer's two ledger entries: `${key}:out` and `${key}:in`.
OutKey(k) == Append(k, ":out")
InKey(k)  == Append(k, ":in")

\* A deposit's ledger entry carries the client's key as it is, so the keys of
\* deposits and of transfers share one unique index.
LedgerKey == Key \cup {OutKey(k) : k \in Key} \cup {InKey(k) : k \in Key}

LedgerEntry ==
  [type: LedgerEntryType, amount: Nat, balance_after: Int, idempotency_key: LedgerKey]

Entry(type, amount, after, k) ==
  [type |-> type, amount |-> amount, balance_after |-> after, idempotency_key |-> k]

\* key names the transaction or transfer the payload was built from.
OutboxEvent == [event_name: {"DepositSucceeded", "TransferCompleted"}, key: Key]

Event(name, k) == [event_name |-> name, key |-> k]

\* manager.save(outboxItem): one more row.
SaveOutbox(name, k) == outbox' = [outbox EXCEPT ![Event(name, k)] = @ + 1]

\* The effect of an entry on its wallet's balance.
Signed(e) == IF e.type = "TRANSFER_OUT" THEN -e.amount ELSE e.amount

\* The unique index on ledger_entry.idempotency_key: an INSERT of a key that
\* is there already is refused.
LedgerKeyTakenNever(k) == FALSE
LedgerKeyTaken(k) ==
  \E w \in Wallet : \E i \in 1..Len(ledger[w]) : ledger[w][i].idempotency_key = k

\* findByUserIdAndCurrency: the wallets (at most one) of a user in a currency.
WalletsOf(u, c) == {w \in live : Owner[w] = u /\ CurrencyOf[w] = c}

-----------------------------------------------------------------------------
(* SELECT ... FOR UPDATE of one row, as manager.findOne with               *)
(* pessimistic_write issues it.  It waits while another connection holds   *)
(* the row, and returns the latest committed row, or null for a row that   *)
(* was deleted (which locks no record).                                    *)
RowAvailableAlways(p, w) == TRUE
RowAvailable(p, w) == lock[w] \in {Null, p}

RowRead(w) == IF w \in live THEN balance[w] ELSE Null

LockRow(p, w) ==
  /\ RowAvailable(p, w)
  /\ lock' = IF w \in live THEN [lock EXCEPT ![w] = p] ELSE lock

\* COMMIT and ROLLBACK give back every lock of the connection.
ReleaseNoLocks(p) == UNCHANGED lock
ReleaseLocks(p) ==
  lock' = [w \in Wallet |-> IF lock[w] = p THEN Null ELSE lock[w]]

-----------------------------------------------------------------------------
StoreInit ==
  /\ users = User
  /\ live = Wallet
  /\ balance = Opening
  /\ lock = [w \in Wallet |-> Null]
  /\ ledger = [w \in Wallet |->
                IF Opening[w] = 0 THEN << >>
                ELSE << Entry("DEPOSIT", Opening[w], Opening[w], OpeningKey[w]) >>]
  /\ outbox = [e \in OutboxEvent |->
                IF \E w \in Wallet : Opening[w] > 0 /\ e = Event("DepositSucceeded", OpeningKey[w])
                THEN 1 ELSE 0]
  /\ cache = [w \in Wallet |-> Null]

\* The deposits that made the opening balances, by key.
Earlier ==
  [k \in Key |->
     IF \E w \in Wallet : Opening[w] > 0 /\ OpeningKey[w] = k
     THEN LET w == CHOOSE w \in Wallet : OpeningKey[w] = k
          IN  [to |-> w, amount |-> Opening[w]]
     ELSE Null]

\* UsersRepository.deleteUser: the DELETE of the user row cascades to the
\* user's wallets, so it waits for their row locks.  Ledger entries, transfers,
\* transactions and the cache have no foreign key and stay.
DeleteUser(u) ==
  /\ u \in Deletable \cap users
  /\ \A w \in live : Owner[w] = u => lock[w] = Null
  /\ users' = users \ {u}
  /\ live' = {w \in live : Owner[w] # u}
  /\ UNCHANGED <<balance, lock, ledger, outbox, cache>>

-----------------------------------------------------------------------------
StoreTypeOK ==
  /\ users \subseteq User
  /\ live \subseteq Wallet
  /\ balance \in [Wallet -> Int]
  /\ lock \in [Wallet -> Holder \cup {Null}]
  /\ ledger \in [Wallet -> Seq(LedgerEntry)]
  /\ outbox \in [OutboxEvent -> Nat]
  /\ cache \in [Wallet -> Int \cup {Null}]

BalanceAfter(w, i) == IF i = 0 THEN 0 ELSE ledger[w][i].balance_after

\* The audit trail the ledger promises: a wallet's balance is the
\* balance_after of its newest entry, and every entry's balance_after is the
\* one before it plus or minus the entry's amount.  A balance computed from a
\* row that another transaction changed meanwhile breaks it.
AuditTrail ==
  \A w \in Wallet :
    /\ balance[w] = BalanceAfter(w, Len(ledger[w]))
    /\ \A i \in 1..Len(ledger[w]) :
         ledger[w][i].balance_after = BalanceAfter(w, i - 1) + Signed(ledger[w][i])

\* No wallet is ever overdrawn, not even in the history the ledger keeps.
NeverOverdrawn ==
  \A w \in Wallet :
    /\ balance[w] >= 0
    /\ \A i \in 1..Len(ledger[w]) : ledger[w][i].balance_after >= 0

\* No two ledger entries share an idempotency key: nothing is booked twice.
BookedOnce ==
  \A v, w \in Wallet : \A i \in 1..Len(ledger[v]), j \in 1..Len(ledger[w]) :
    ledger[v][i].idempotency_key = ledger[w][j].idempotency_key => v = w /\ i = j
=============================================================================
