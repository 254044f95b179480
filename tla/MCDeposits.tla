----------------------------- MODULE MCDeposits -----------------------------
(* Deposits of two users into three wallets.                               *)
EXTENDS Deposits, TLC

CONSTANTS u1, u2, r1, r2, h1, h2, s1, s2

MCUser == {u1, u2}
MCCurrency == {"EUR", "USD"}
MCWallet == 1..3
MCOwner == 1 :> u1 @@ 2 :> u2 @@ 3 :> u2
MCCurrencyOf == 1 :> "EUR" @@ 2 :> "EUR" @@ 3 :> "USD"
MCAmount == 1..2
MCOpening == 1 :> 0 @@ 2 :> 1 @@ 3 :> 0

k1 == <<"k1">>
k2 == <<"k2">>
k0 == <<"k0">>
MCOpeningKey == 1 :> k1 @@ 2 :> k0 @@ 3 :> k2
MCKey == {k0, k1, k2}

Dto(u, a, c, k, m) == [user |-> u, amount |-> a, currency |-> c, key |-> k, paymentMethod |-> m]

\* Two deposits into one wallet.
PairInputs == { Dto(u1, 1, "EUR", k1, "stripe"), Dto(u1, 2, "EUR", k2, "stripe") }

\* Two deposits, a method nobody supports, a wallet that does not exist.
BroadInputs ==
  PairInputs \cup { Dto(u1, 1, "EUR", k2, "other"), Dto(u1, 1, "USD", k2, "stripe") }

Slots == Permutations(Request) \cup Permutations(Handler) \cup Permutations(Session)
=============================================================================
