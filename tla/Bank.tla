-------------------------------- MODULE Bank --------------------------------
(***************************************************************************)
(* What the wallet promises its clients, with nothing of how it is done:   *)
(* money is paid in from outside at most once per idempotency key, and is  *)
(* moved between two wallets of one currency at most once per key, in one  *)
(* atomic step, and only when the sender has it.  Transfers and deposits   *)
(* are shown to implement this specification.                              *)
(***************************************************************************)
EXTENDS Integers

CONSTANTS
  Wallet, CurrencyOf, Amount, Key, Null,
  Opening,   \* Opening[w]: what wallet w holds at the start
  Earlier    \* Earlier[k]: the payment received under key k before, or Null

VARIABLES
  funds,   \* funds[w]: what wallet w holds
  moved,   \* moved[k]: the movement made under key k, or Null
  paidIn   \* paidIn[k]: the payment received under key k, or Null

bankVars == <<funds, moved, paidIn>>

Init ==
  /\ funds = Opening
  /\ moved = [k \in Key |-> Null]
  /\ paidIn = Earlier

Move(k, v, w, a) ==
  /\ moved[k] = Null
  /\ v # w
  /\ CurrencyOf[v] = CurrencyOf[w]
  /\ funds[v] >= a
  /\ funds' = [funds EXCEPT ![v] = @ - a, ![w] = @ + a]
  /\ moved' = [moved EXCEPT ![k] = [from |-> v, to |-> w, amount |-> a]]
  /\ UNCHANGED paidIn

PayIn(k, w, a) ==
  /\ paidIn[k] = Null
  /\ funds' = [funds EXCEPT ![w] = @ + a]
  /\ paidIn' = [paidIn EXCEPT ![k] = [to |-> w, amount |-> a]]
  /\ UNCHANGED moved

\* Amounts are positive, so whatever happens changes what the wallets hold.
Next ==
  /\ funds' # funds
  /\ \E k \in Key, w \in Wallet, a \in Amount :
       \/ PayIn(k, w, a)
       \/ \E v \in Wallet : Move(k, v, w, a)

Spec == Init /\ [][Next]_bankVars
=============================================================================
