---------------------------- MODULE BalanceReads ----------------------------
(***************************************************************************)
(* WalletService.getBalance, a read-through cache in Redis, next to the    *)
(* transfers and settlements that change the balances and delete the       *)
(* cached ones.  A reader looks in the cache, reads the database on a miss *)
(* and fills the cache, in three awaits; the writers commit and invalidate *)
(* in between.                                                             *)
(***************************************************************************)
EXTENDS WalletSystem

CONSTANTS
  Reader,   \* balance requests handled at the same time
  Watched   \* bound: the wallets whose balance clients ask for

ASSUME WatchedAssumption == Watched \subseteq Wallet

VARIABLES
  rpc,       \* rpc[p]: the await reader p has reached
  wanted,    \* wanted[p]: the wallet of p's user and currency, or Null
  fetched,   \* fetched[p]: the balance p read in the database, or Null
  tainted    \* history: wallets whose cached balance nobody will delete

readerVars == <<rpc, wanted, fetched>>
allVars == <<vars, readerVars, tainted>>

-----------------------------------------------------------------------------
ReaderEnds(p) ==
  /\ rpc' = [rpc EXCEPT ![p] = "idle"]
  /\ wanted' = [wanted EXCEPT ![p] = Null]
  /\ fetched' = [fetched EXCEPT ![p] = Null]

\* GET /wallet/:currency of a user whose token is accepted.
Ask(p, w) ==
  /\ rpc[p] = "idle"
  /\ Owner[w] \in users
  /\ rpc' = [rpc EXCEPT ![p] = "get"]
  /\ wanted' = [wanted EXCEPT ![p] = w]
  /\ UNCHANGED <<vars, fetched, tainted>>

CacheGet(p) ==
  /\ rpc[p] = "get"
  /\ \/ /\ cache[wanted[p]] # Null
        /\ ReaderEnds(p)
     \/ /\ cache[wanted[p]] = Null
        /\ rpc' = [rpc EXCEPT ![p] = "find"]
        /\ UNCHANGED <<wanted, fetched>>
  /\ UNCHANGED <<vars, tainted>>

\* A plain SELECT: the last committed row, whoever has locked it.
FindBalance(p) ==
  /\ rpc[p] = "find"
  /\ \/ /\ wanted[p] \notin live
        /\ ReaderEnds(p)
     \/ /\ wanted[p] \in live
        /\ fetched' = [fetched EXCEPT ![p] = balance[wanted[p]]]
        /\ rpc' = [rpc EXCEPT ![p] = "set"]
        /\ UNCHANGED wanted
  /\ UNCHANGED <<vars, tainted>>

OnlyCache == UNCHANGED <<users, live, balance, lock, ledger, outbox, transferVars, depositVars>>

\* A balance that was read before a commit and cached after the writer deleted
\* the cached one stays.
CacheSet(p) ==
  LET w == wanted[p]
  IN  /\ rpc[p] = "set"
      /\ cache' = [cache EXCEPT ![w] = fetched[p]]
      /\ tainted' = IF fetched[p] # balance[w] THEN tainted \cup {w} ELSE tainted \ {w}
      /\ ReaderEnds(p)
      /\ OnlyCache

\* Redis or the database fails the call.
ReadFails(p) ==
  /\ rpc[p] # "idle"
  /\ ReaderEnds(p)
  /\ UNCHANGED <<vars, tainted>>

\* BALANCE_CACHE_TTL_MS has passed.
Expire(w) ==
  /\ cache[w] # Null
  /\ cache' = [cache EXCEPT ![w] = Null]
  /\ tainted' = tainted \ {w}
  /\ OnlyCache
  /\ UNCHANGED readerVars

\* The wallets whose cached balance a writer that committed is about to delete.
Owed ==
  {w \in Wallet : \/ \E r \in TransferRequest : w \in uncleared[r]
                  \/ \E h \in Handler : hpc[h] = "invalidate" /\ wallet[h] = w}

\* A writer whose deletion fails leaves a cached balance behind; Stripe's next
\* delivery of the same event finds the transaction COMPLETED and does not
\* come back to it.
SystemStep ==
  /\ Next
  /\ tainted' = {w \in tainted \cup (Owed \ Owed') : cache'[w] # Null}
  /\ UNCHANGED readerVars

-----------------------------------------------------------------------------
ReadsInit ==
  /\ Init
  /\ rpc = [p \in Reader |-> "idle"]
  /\ wanted = [p \in Reader |-> Null]
  /\ fetched = [p \in Reader |-> Null]
  /\ tainted = {}

ReadsNext ==
  \/ SystemStep
  \/ \E p \in Reader :
       \/ \E w \in Watched : Ask(p, w)
       \/ CacheGet(p) \/ FindBalance(p) \/ CacheSet(p) \/ ReadFails(p)
  \/ \E w \in Wallet : Expire(w)

ReadsSpec == ReadsInit /\ [][ReadsNext]_allVars

-----------------------------------------------------------------------------
ReadsTypeOK ==
  /\ TypeOK
  /\ rpc \in [Reader -> {"idle", "get", "find", "set"}]
  /\ wanted \in [Reader -> Watched \cup {Null}]
  /\ fetched \in [Reader -> Int \cup {Null}]
  /\ tainted \subseteq Wallet

\* A cached balance differs from the wallet's only while a transfer or a
\* settlement that changed it is still about to delete it, or after that
\* deletion failed or was overtaken by a reader's late fill.  There is no
\* third way to a stale balance: each commit deletes the cached balances of
\* all the wallets it changed.
StaleHasCause ==
  \A w \in Wallet : cache[w] # Null /\ cache[w] # balance[w] => w \in tainted \cup Owed
=============================================================================
