-------------------------- MODULE WalletStore_proofs --------------------------
(***************************************************************************)
(* Lemmas about the store that the proofs for transfers, for deposits and  *)
(* for both together rest on: what a database transaction's writes keep of *)
(* the types, the row locks, the ledger's trail and its unique keys.       *)
(***************************************************************************)
EXTENDS WalletStore, SequenceTheorems, FiniteSetTheorems, TLAPS

-----------------------------------------------------------------------------
(* Constants and types.                                                    *)
LEMMA StoreConstants ==
  /\ Wallet \subseteq Int /\ Null \notin Wallet /\ Null \notin Int /\ Null \notin Holder
  /\ Null \notin Key
  /\ Amount \subseteq Nat /\ \A a \in Amount : a > 0
PROOF
  <1>1. Wallet \subseteq Nat /\ Null \notin Int
    BY WalletAssumption, NullAssumption
  <1>2. \A w \in Wallet : w \in Int
    BY <1>1
  <1>3. Null \notin Wallet
    BY <1>1, <1>2
  <1>4. Amount \subseteq Nat /\ \A a \in Amount : a > 0
    BY AmountAssumption
  <1> QED BY <1>1, <1>2, <1>3, <1>4, NullAssumption

\* The first rows of the ledger: none, or the one of an earlier deposit.
LEMMA OpeningLedger ==
  ASSUME StoreInit, NEW w \in Wallet
  PROVE  /\ balance[w] = Opening[w] /\ Opening[w] \in Nat
         /\ ledger[w] \in Seq(LedgerEntry)
         /\ Opening[w] = 0 => ledger[w] = << >> /\ Len(ledger[w]) = 0
         /\ Opening[w] # 0 =>
              /\ Len(ledger[w]) = 1
              /\ ledger[w][1].type = "DEPOSIT"
              /\ ledger[w][1].amount = Opening[w]
              /\ ledger[w][1].balance_after = Opening[w]
              /\ ledger[w][1].idempotency_key = OpeningKey[w]
PROOF
  <1>1. /\ balance[w] = Opening[w] /\ Opening[w] \in Nat /\ OpeningKey[w] \in Key
        /\ ledger[w] = IF Opening[w] = 0 THEN << >>
                       ELSE << Entry("DEPOSIT", Opening[w], Opening[w], OpeningKey[w]) >>
    BY OpeningAssumption DEF StoreInit
  <1>2. CASE Opening[w] = 0
    <2>1. ledger[w] = << >>
      BY <1>1, <1>2
    <2> QED BY <1>1, <1>2, <2>1
  <1>3. CASE Opening[w] # 0
    <2> DEFINE e == Entry("DEPOSIT", Opening[w], Opening[w], OpeningKey[w])
    <2>1. /\ e.type = "DEPOSIT" /\ e.amount = Opening[w]
          /\ e.balance_after = Opening[w] /\ e.idempotency_key = OpeningKey[w]
      BY DEF Entry
    <2>2. e \in LedgerEntry
      BY <1>1 DEF Entry, LedgerEntry, LedgerEntryType, LedgerKey
    <2>3. ledger[w] = << e >>
      BY <1>1, <1>3
    <2> HIDE DEF e
    <2>4. ledger[w] \in Seq(LedgerEntry) /\ Len(ledger[w]) = 1 /\ ledger[w][1] = e
      BY <2>2, <2>3
    <2> QED BY <1>1, <1>3, <2>1, <2>4
  <1> QED BY <1>2, <1>3

LEMMA StoreInitTypes == StoreInit => StoreTypeOK
PROOF
  <1> SUFFICES ASSUME StoreInit PROVE StoreTypeOK
    OBVIOUS
  <1>1. ASSUME NEW w \in Wallet
        PROVE  ledger[w] \in Seq(LedgerEntry)
    BY OpeningLedger
  <1>2. ledger \in [Wallet -> Seq(LedgerEntry)]
    BY <1>1 DEF StoreInit
  <1> QED BY <1>2, OpeningAssumption DEF StoreInit, StoreTypeOK

LEMMA StoreStutters == StoreTypeOK /\ UNCHANGED storeVars => StoreTypeOK'
PROOF
  BY DEF StoreTypeOK, storeVars

LEMMA DeleteTypes ==
  ASSUME StoreTypeOK, NEW u, DeleteUser(u)
  PROVE  StoreTypeOK'
PROOF
  BY DEF StoreTypeOK, DeleteUser

\* An event that is saved adds one to the number of its rows, and to no other.
LEMMA SavedEvent ==
  ASSUME outbox \in [OutboxEvent -> Nat], NEW name \in {"DepositSucceeded", "TransferCompleted"},
         NEW k \in Key, SaveOutbox(name, k)
  PROVE  /\ outbox' \in [OutboxEvent -> Nat]
         /\ outbox'[Event(name, k)] = outbox[Event(name, k)] + 1
         /\ \A l \in Key \ {k} : outbox'[Event(name, l)] = outbox[Event(name, l)]
         /\ \A other \in {"DepositSucceeded", "TransferCompleted"} \ {name} :
              \A l \in Key : outbox'[Event(other, l)] = outbox[Event(other, l)]
PROOF
  <1>1. \A n \in {"DepositSucceeded", "TransferCompleted"}, l \in Key : Event(n, l) \in OutboxEvent
    BY DEF Event, OutboxEvent
  <1>2. \A n \in {"DepositSucceeded", "TransferCompleted"}, l \in Key :
          Event(n, l) = Event(name, k) => n = name /\ l = k
    BY DEF Event
  <1> DEFINE e == Event(name, k)
  <1>3. outbox' = [outbox EXCEPT ![e] = @ + 1] /\ e \in OutboxEvent
    BY <1>1 DEF SaveOutbox
  <1> HIDE DEF e
  <1>4. outbox' \in [OutboxEvent -> Nat] /\ outbox'[e] = outbox[e] + 1
    BY <1>3
  <1>5. \A x \in OutboxEvent \ {e} : outbox'[x] = outbox[x]
    BY <1>3
  <1> QED BY <1>1, <1>2, <1>4, <1>5 DEF e

-----------------------------------------------------------------------------
(* Row locks.                                                              *)
LEMMA ReleaseTypes ==
  ASSUME lock \in [Wallet -> Holder \cup {Null}], NEW r, ReleaseLocks(r)
  PROVE  lock' \in [Wallet -> Holder \cup {Null}]
PROOF
  BY DEF ReleaseLocks

\* COMMIT and ROLLBACK take nothing from other connections.
LEMMA Released ==
  ASSUME NEW r, r # Null, ReleaseLocks(r), NEW w \in Wallet
  PROVE  /\ lock'[w] # r
         /\ \A s : s # r /\ s # Null => (lock'[w] = s <=> lock[w] = s)
PROOF
  BY DEF ReleaseLocks

\* A SELECT ... FOR UPDATE gives the row to its connection and takes it from
\* nobody; what it reads, it reads in a row that it holds.
LEMMA Locked ==
  ASSUME StoreTypeOK, NEW r \in Holder, NEW w \in Wallet, LockRow(r, w)
  PROVE  /\ lock' \in [Wallet -> Holder \cup {Null}]
         /\ \A s : s # r /\ s # Null =>
              \A x \in Wallet : lock'[x] = s <=> lock[x] = s
         /\ \A x \in Wallet \ {w} : lock'[x] = lock[x]
         /\ lock[w] \in {Null, r}
         /\ RowRead(w) \in Int \cup {Null}
         /\ RowRead(w) # Null => lock'[w] = r /\ RowRead(w) = balance[w]
PROOF
  <1>1. lock[w] \in {Null, r} /\ (lock' = [lock EXCEPT ![w] = r] \/ lock' = lock)
    BY DEF LockRow, RowAvailable
  <1>2. lock' \in [Wallet -> Holder \cup {Null}]
    BY <1>1 DEF StoreTypeOK
  <1>3. \A x \in Wallet \ {w} : lock'[x] = lock[x]
    BY <1>1 DEF StoreTypeOK
  <1>4. \A s : s # r /\ s # Null => \A x \in Wallet : lock'[x] = s <=> lock[x] = s
    BY <1>1 DEF StoreTypeOK
  <1>5. RowRead(w) \in Int \cup {Null}
    BY DEF RowRead, StoreTypeOK
  <1>6. RowRead(w) # Null => lock'[w] = r /\ RowRead(w) = balance[w]
    BY DEF RowRead, LockRow, StoreTypeOK
  <1> QED BY <1>1, <1>2, <1>3, <1>4, <1>5, <1>6

-----------------------------------------------------------------------------
(* The ledger.                                                             *)
\* What appending an entry leaves and adds.
LEMMA AppendedEntry ==
  ASSUME NEW S, NEW s \in Seq(S), NEW e
  PROVE  /\ Len(s) \in Nat /\ Len(Append(s, e)) = Len(s) + 1
         /\ Append(s, e)[Len(s) + 1] = e
         /\ \A i \in 1..Len(s) : Append(s, e)[i] = s[i]
PROOF
  OBVIOUS

\* One entry more in the ledger of a wallet, with the balance it leaves.
LEMMA AppendedTrail ==
  ASSUME NEW w \in Wallet, NEW e,
         ledger[w] \in Seq(LedgerEntry), balance[w] \in Int, Signed(e) \in Int,
         AuditTrail!(w), NeverOverdrawn!(w),
         ledger'[w] = Append(ledger[w], e), balance'[w] = e.balance_after,
         e.balance_after = balance[w] + Signed(e), e.balance_after >= 0
  PROVE  AuditTrail!(w)' /\ NeverOverdrawn!(w)'
PROOF
  <1>1. PICK n \in Nat : n = Len(ledger[w])
    OBVIOUS
  <1>2. /\ Len(ledger'[w]) = n + 1
        /\ ledger'[w][n + 1] = e
        /\ \A i \in 1..n : ledger'[w][i] = ledger[w][i]
    BY <1>1
  <1>3. /\ BalanceAfter(w, n + 1)' = e.balance_after
        /\ \A i \in 0..n : BalanceAfter(w, i)' = BalanceAfter(w, i)
    <2>1. BalanceAfter(w, n + 1)' = ledger'[w][n + 1].balance_after
      BY <1>1 DEF BalanceAfter
    <2>2. ASSUME NEW i \in 0..n
          PROVE  BalanceAfter(w, i)' = BalanceAfter(w, i)
      <3>1. CASE i = 0
        BY <3>1 DEF BalanceAfter
      <3>2. CASE i # 0
        BY <1>1, <1>2, <3>2 DEF BalanceAfter
      <3> QED BY <3>1, <3>2
    <2> QED BY <1>2, <2>1, <2>2
  <1>4. balance[w] = BalanceAfter(w, n)
    BY <1>1
  <1>5. ASSUME NEW i \in 1..(n + 1)
        PROVE  /\ ledger'[w][i].balance_after = BalanceAfter(w, i - 1)' + Signed(ledger'[w][i])
               /\ ledger'[w][i].balance_after >= 0
    <2>1. CASE i = n + 1
      <3>1. BalanceAfter(w, i - 1)' = balance[w]
        BY <1>1, <1>3, <1>4, <2>1
      <3> QED BY <1>2, <2>1, <3>1
    <2>2. CASE i \in 1..n
      <3>1. BalanceAfter(w, i - 1)' = BalanceAfter(w, i - 1)
        BY <1>1, <1>3, <2>2
      <3>2. /\ ledger[w][i].balance_after = BalanceAfter(w, i - 1) + Signed(ledger[w][i])
            /\ ledger[w][i].balance_after >= 0
        BY <1>1, <2>2
      <3> QED BY <1>2, <2>2, <3>1, <3>2
    <2>3. i = n + 1 \/ i \in 1..n
      BY <1>1
    <2> QED BY <2>1, <2>2, <2>3
  <1>6. balance'[w] = BalanceAfter(w, Len(ledger[w]))'
    BY <1>1, <1>2 DEF BalanceAfter
  <1>7. \A i \in 1..Len(ledger'[w]) : Signed(ledger'[w][i]) = Signed(ledger[w][i])'
    OBVIOUS
  <1>8. AuditTrail!(w)'
    BY <1>2, <1>5, <1>6, <1>7 DEF Signed
  <1>9. NeverOverdrawn!(w)'
    BY <1>2, <1>5
  <1> QED BY <1>8, <1>9

\* A wallet whose balance and ledger a step leaves alone keeps its trail.
LEMMA UntouchedTrail ==
  ASSUME NEW w \in Wallet, ledger'[w] = ledger[w], balance'[w] = balance[w],
         AuditTrail!(w), NeverOverdrawn!(w)
  PROVE  AuditTrail!(w)' /\ NeverOverdrawn!(w)'
PROOF
  <1>1. \A i : BalanceAfter(w, i)' = BalanceAfter(w, i)
    BY DEF BalanceAfter
  <1>2. BalanceAfter(w, Len(ledger[w]))' = BalanceAfter(w, Len(ledger[w]))
    BY DEF BalanceAfter
  <1> QED BY <1>1, <1>2 DEF Signed

\* A transfer's two entries have different keys, and different transfers have
\* different ones.
LEMMA LegKeys ==
  ASSUME NEW k \in Key, NEW l \in Key
  PROVE  /\ OutKey(k) # InKey(l)
         /\ OutKey(k) = OutKey(l) => k = l
         /\ InKey(k) = InKey(l) => k = l
PROOF
  <1> DEFINE Token == STRING \cup {":out", ":in"}
  <1>1. k \in Seq(Token) /\ l \in Seq(Token)
    BY KeyAssumption
  <1>2. ":out" # ":in"
    OBVIOUS
  <1>3. OutKey(k) # InKey(l)
    BY <1>1, <1>2, AppendProperties DEF OutKey, InKey
  <1>4. OutKey(k) = OutKey(l) => k = l
    BY <1>1, AppendInjective DEF OutKey
  <1>5. InKey(k) = InKey(l) => k = l
    BY <1>1, AppendInjective DEF InKey
  <1> QED BY <1>3, <1>4, <1>5

\* The three promises of the ledger that do not depend on who books.
StoreBooks == AuditTrail /\ NeverOverdrawn /\ BookedOnce

LEMMA OpeningBooks == StoreInit => StoreBooks
PROOF
  <1> SUFFICES ASSUME StoreInit PROVE StoreBooks
    OBVIOUS
  <1>1. AuditTrail
    BY OpeningLedger DEF AuditTrail, BalanceAfter, Signed
  <1>2. NeverOverdrawn
    BY OpeningLedger DEF NeverOverdrawn
  <1>3. BookedOnce
    BY OpeningLedger, OpeningAssumption DEF BookedOnce
  <1> QED BY <1>1, <1>2, <1>3 DEF StoreBooks

\* A step that books nothing keeps the books.
LEMMA NothingBooked ==
  ASSUME StoreBooks, UNCHANGED <<balance, ledger>>
  PROVE  StoreBooks'
PROOF
  <1>1. ledger' = ledger /\ balance' = balance
    OBVIOUS
  <1>2. AuditTrail'
    BY <1>1 DEF StoreBooks, AuditTrail, BalanceAfter
  <1>3. NeverOverdrawn'
    BY <1>1 DEF StoreBooks, NeverOverdrawn
  <1>4. BookedOnce'
    BY <1>1 DEF StoreBooks, BookedOnce
  <1> QED BY <1>2, <1>3, <1>4 DEF StoreBooks

\* One entry e in the ledger of wallet w: every other entry stays where it is.
LEMMA OneEntryBooked ==
  ASSUME StoreTypeOK, NEW w \in Wallet, NEW e,
         ledger' = [ledger EXCEPT ![w] = Append(@, e)]
  PROVE  /\ \A v \in Wallet : \A i \in 1..Len(ledger[v]) :
              i \in 1..Len(ledger'[v]) /\ ledger'[v][i] = ledger[v][i]
         /\ \A v \in Wallet : \A i \in 1..Len(ledger'[v]) :
              \/ i \in 1..Len(ledger[v]) /\ ledger'[v][i] = ledger[v][i]
              \/ v = w /\ i = Len(ledger[w]) + 1 /\ ledger'[v][i] = e
         /\ Len(ledger[w]) + 1 \in 1..Len(ledger'[w])
         /\ ledger'[w][Len(ledger[w]) + 1] = e
PROOF
  <1>1. ledger'[w] = Append(ledger[w], e) /\ \A v \in Wallet \ {w} : ledger'[v] = ledger[v]
    BY DEF StoreTypeOK
  <1>2. ledger[w] \in Seq(LedgerEntry)
    BY DEF StoreTypeOK
  <1>3. /\ Len(ledger[w]) \in Nat /\ Len(ledger'[w]) = Len(ledger[w]) + 1
        /\ ledger'[w][Len(ledger[w]) + 1] = e
        /\ \A i \in 1..Len(ledger[w]) : ledger'[w][i] = ledger[w][i]
    BY <1>1, <1>2, AppendedEntry
  <1>4. ASSUME NEW v \in Wallet, NEW i \in 1..Len(ledger[v])
        PROVE  i \in 1..Len(ledger'[v]) /\ ledger'[v][i] = ledger[v][i]
    <2>1. CASE v = w
      BY <1>3, <2>1
    <2>2. CASE v # w
      BY <1>1, <2>2
    <2> QED BY <2>1, <2>2
  <1>5. ASSUME NEW v \in Wallet, NEW i \in 1..Len(ledger'[v])
        PROVE  \/ i \in 1..Len(ledger[v]) /\ ledger'[v][i] = ledger[v][i]
               \/ v = w /\ i = Len(ledger[w]) + 1 /\ ledger'[v][i] = e
    <2>1. CASE v = w
      BY <1>3, <2>1
    <2>2. CASE v # w
      BY <1>1, <2>2
    <2> QED BY <2>1, <2>2
  <1>6. Len(ledger[w]) + 1 \in 1..Len(ledger'[w])
    BY <1>3
  <1> QED BY <1>3, <1>4, <1>5, <1>6

\* Two entries, in the ledgers of two wallets.
TwoAppended(v, u, debit, credit) ==
  /\ ledger'[v] = Append(ledger[v], debit) /\ ledger'[u] = Append(ledger[u], credit)
  /\ \A w \in Wallet \ {v, u} : ledger'[w] = ledger[w]

EntriesStay ==
  \A w \in Wallet : \A i \in 1..Len(ledger[w]) :
    i \in 1..Len(ledger'[w]) /\ ledger'[w][i] = ledger[w][i]

TwoEntries(v, u, debit, credit) ==
  /\ \A w \in Wallet : \A i \in 1..Len(ledger'[w]) :
       \/ i \in 1..Len(ledger[w]) /\ ledger'[w][i] = ledger[w][i]
       \/ w = v /\ i = Len(ledger[v]) + 1 /\ ledger'[w][i] = debit
       \/ w = u /\ i = Len(ledger[u]) + 1 /\ ledger'[w][i] = credit
  /\ Len(ledger[v]) + 1 \in 1..Len(ledger'[v])
  /\ ledger'[v][Len(ledger[v]) + 1] = debit
  /\ Len(ledger[u]) + 1 \in 1..Len(ledger'[u])
  /\ ledger'[u][Len(ledger[u]) + 1] = credit

LEMMA TwoEntriesBooked ==
  ASSUME StoreTypeOK, NEW v \in Wallet, NEW u \in Wallet, NEW debit, NEW credit,
         TwoAppended(v, u, debit, credit)
  PROVE  EntriesStay /\ TwoEntries(v, u, debit, credit)
PROOF
  <1>1. /\ ledger[v] \in Seq(LedgerEntry) /\ ledger[u] \in Seq(LedgerEntry)
        /\ ledger'[v] = Append(ledger[v], debit) /\ ledger'[u] = Append(ledger[u], credit)
    BY DEF StoreTypeOK, TwoAppended
  <1>2. /\ Len(ledger[v]) \in Nat /\ Len(ledger'[v]) = Len(ledger[v]) + 1
        /\ ledger'[v][Len(ledger[v]) + 1] = debit
        /\ \A i \in 1..Len(ledger[v]) : ledger'[v][i] = ledger[v][i]
    BY <1>1, AppendedEntry
  <1>3. /\ Len(ledger[u]) \in Nat /\ Len(ledger'[u]) = Len(ledger[u]) + 1
        /\ ledger'[u][Len(ledger[u]) + 1] = credit
        /\ \A i \in 1..Len(ledger[u]) : ledger'[u][i] = ledger[u][i]
    BY <1>1, AppendedEntry
  <1>4. ASSUME NEW w \in Wallet, NEW i \in 1..Len(ledger[w])
        PROVE  i \in 1..Len(ledger'[w]) /\ ledger'[w][i] = ledger[w][i]
    <2>1. CASE w = v
      BY <1>2, <2>1
    <2>2. CASE w = u
      BY <1>3, <2>2
    <2>3. CASE w \in Wallet \ {v, u}
      BY <2>3 DEF TwoAppended
    <2> QED BY <2>1, <2>2, <2>3
  <1>5. ASSUME NEW w \in Wallet, NEW i \in 1..Len(ledger'[w])
        PROVE  \/ i \in 1..Len(ledger[w]) /\ ledger'[w][i] = ledger[w][i]
               \/ w = v /\ i = Len(ledger[v]) + 1 /\ ledger'[w][i] = debit
               \/ w = u /\ i = Len(ledger[u]) + 1 /\ ledger'[w][i] = credit
    <2>1. CASE w = v
      BY <1>2, <2>1
    <2>2. CASE w = u
      BY <1>3, <2>2
    <2>3. CASE w \in Wallet \ {v, u}
      BY <2>3 DEF TwoAppended
    <2> QED BY <2>1, <2>2, <2>3
  <1>6. /\ Len(ledger[v]) + 1 \in 1..Len(ledger'[v])
        /\ Len(ledger[u]) + 1 \in 1..Len(ledger'[u])
    BY <1>2, <1>3
  <1> QED BY <1>2, <1>3, <1>4, <1>5, <1>6 DEF EntriesStay, TwoEntries

\* A credit under a key that is not in the ledger keeps the books.
LEMMA CreditBooked ==
  ASSUME StoreTypeOK, StoreBooks, NEW w \in Wallet, NEW e,
         ledger' = [ledger EXCEPT ![w] = Append(@, e)],
         balance' = [balance EXCEPT ![w] = e.balance_after],
         e.amount \in Nat, Signed(e) = e.amount,
         e.balance_after = balance[w] + e.amount,
         ~LedgerKeyTaken(e.idempotency_key)
  PROVE  StoreBooks'
PROOF
  <1>1. /\ balance[w] \in Int /\ balance[w] >= 0
        /\ ledger[w] \in Seq(LedgerEntry)
        /\ ledger'[w] = Append(ledger[w], e) /\ balance'[w] = e.balance_after
        /\ \A v \in Wallet \ {w} : ledger'[v] = ledger[v] /\ balance'[v] = balance[v]
    BY DEF StoreTypeOK, StoreBooks, NeverOverdrawn
  <1>2. e.balance_after >= 0 /\ Signed(e) \in Int /\ e.balance_after = balance[w] + Signed(e)
    BY <1>1
  <1>3. ASSUME NEW v \in Wallet
        PROVE  AuditTrail!(v)' /\ NeverOverdrawn!(v)'
    <2>1. AuditTrail!(v) /\ NeverOverdrawn!(v)
      BY DEF StoreBooks, AuditTrail, NeverOverdrawn
    <2>2. CASE v = w
      BY <1>1, <1>2, <2>1, <2>2, AppendedTrail
    <2>3. CASE v # w
      BY <1>1, <2>1, <2>3, UntouchedTrail
    <2> QED BY <2>2, <2>3
  <1>4. BookedOnce'
    <2> SUFFICES ASSUME NEW x \in Wallet, NEW y \in Wallet,
                        NEW i \in 1..Len(ledger'[x]), NEW j \in 1..Len(ledger'[y]),
                        ledger'[x][i].idempotency_key = ledger'[y][j].idempotency_key
                 PROVE  x = y /\ i = j
      BY DEF BookedOnce
    <2>1. \A v \in Wallet : \A n \in 1..Len(ledger[v]) :
            ledger[v][n].idempotency_key # e.idempotency_key
      BY DEF LedgerKeyTaken
    <2>2. /\ \/ i \in 1..Len(ledger[x]) /\ ledger'[x][i] = ledger[x][i]
             \/ x = w /\ i = Len(ledger[w]) + 1 /\ ledger'[x][i] = e
          /\ \/ j \in 1..Len(ledger[y]) /\ ledger'[y][j] = ledger[y][j]
             \/ y = w /\ j = Len(ledger[w]) + 1 /\ ledger'[y][j] = e
      BY OneEntryBooked
    <2>3. CASE i \in 1..Len(ledger[x]) /\ ledger'[x][i] = ledger[x][i]
      <3>1. ledger'[y][j] # e
        BY <2>1, <2>3
      <3>2. j \in 1..Len(ledger[y]) /\ ledger'[y][j] = ledger[y][j]
        BY <2>2, <3>1
      <3> QED BY <2>3, <3>2 DEF StoreBooks, BookedOnce
    <2>4. CASE x = w /\ i = Len(ledger[w]) + 1 /\ ledger'[x][i] = e
      BY <2>1, <2>2, <2>4
    <2> QED BY <2>2, <2>3, <2>4
  <1>5. AuditTrail' /\ NeverOverdrawn'
    BY <1>3 DEF AuditTrail, NeverOverdrawn
  <1> QED BY <1>4, <1>5 DEF StoreBooks

-----------------------------------------------------------------------------
(* What a step of one component leaves alone for the other.  These are the *)
(* conditions under which transfers and deposits share one store.          *)

\* Connection p keeps the rows it holds, and they keep their balances.
LeavesRowsOf(p) ==
  \A w \in Wallet : /\ lock'[w] = p <=> lock[w] = p
                    /\ lock[w] = p => balance'[w] = balance[w]

\* The entries of the two components: a deposit's key is the client's, a
\* transfer's two are that key with a suffix.
DepositEntry == {e \in LedgerEntry : e.type = "DEPOSIT" /\ e.idempotency_key \in Key}
TransferEntry ==
  {e \in LedgerEntry : \E k \in Key :
     \/ e.type = "TRANSFER_OUT" /\ e.idempotency_key = OutKey(k)
     \/ e.type = "TRANSFER_IN" /\ e.idempotency_key = InKey(k)}

AddsOnly(E) ==
  /\ EntriesStay
  /\ \A w \in Wallet : \A i \in 1..Len(ledger'[w]) :
       \/ i \in 1..Len(ledger[w]) /\ ledger'[w][i] = ledger[w][i]
       \/ ledger'[w][i] \in E

EventsStay(name) == \A k \in Key : outbox'[Event(name, k)] = outbox[Event(name, k)]

\* Nothing is in the ledger but entries of deposits and of transfers.
EntryKinds ==
  \A w \in Wallet : \A i \in 1..Len(ledger[w]) : ledger[w][i] \in DepositEntry \cup TransferEntry

LEMMA OpeningKinds == StoreInit => EntryKinds
PROOF
  <1> SUFFICES ASSUME StoreInit, NEW w \in Wallet, NEW i \in 1..Len(ledger[w])
               PROVE  ledger[w][i] \in DepositEntry
    BY DEF EntryKinds
  <1>1. ledger[w] \in Seq(LedgerEntry) /\ OpeningKey[w] \in Key
    BY OpeningLedger, OpeningAssumption
  <1>2. ledger[w][i] \in LedgerEntry
    BY <1>1
  <1>3. i = 1 /\ Opening[w] # 0
    <2>1. CASE Opening[w] = 0
      <3>1. Len(ledger[w]) = 0
        BY <2>1, OpeningLedger
      <3> QED BY <3>1
    <2>2. CASE Opening[w] # 0
      <3>1. Len(ledger[w]) = 1
        BY <2>2, OpeningLedger
      <3> QED BY <2>2, <3>1
    <2> QED BY <2>1, <2>2
  <1>4. ledger[w][i].type = "DEPOSIT" /\ ledger[w][i].idempotency_key = OpeningKey[w]
    BY <1>3, OpeningLedger
  <1> QED BY <1>1, <1>2, <1>4 DEF DepositEntry

LEMMA KindsStay ==
  ASSUME EntryKinds, AddsOnly(DepositEntry) \/ AddsOnly(TransferEntry)
  PROVE  EntryKinds'
PROOF
  BY DEF EntryKinds, AddsOnly

\* A step that books nothing adds nothing.
LEMMA NothingAdded ==
  ASSUME StoreTypeOK, UNCHANGED ledger, NEW E
  PROVE  AddsOnly(E)
PROOF
  BY DEF AddsOnly, EntriesStay
=============================================================================
