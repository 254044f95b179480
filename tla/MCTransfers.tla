----------------------------- MODULE MCTransfers -----------------------------
(* Transfers among three users, two currencies and four wallets.            *)
EXTENDS Transfers, TLC

CONSTANTS u1, u2, u3, r1, r2

MCUser == {u1, u2, u3}
MCCurrency == {"EUR", "USD"}
MCWallet == 1..4
MCOwner == 1 :> u1 @@ 2 :> u2 @@ 3 :> u3 @@ 4 :> u2
MCCurrencyOf == 1 :> "EUR" @@ 2 :> "EUR" @@ 3 :> "EUR" @@ 4 :> "USD"
MCAmount == 1..2
MCOpening == 1 :> 2 @@ 2 :> 1 @@ 3 :> 1 @@ 4 :> 0

k1 == <<"k1">>
k2 == <<"k2">>
k3 == <<"k3">>

\* The deposit that opened wallet 3 used the key "k3:out".
MCOpeningKey == 1 :> <<"d1">> @@ 2 :> <<"d2">> @@ 3 :> OutKey(k3) @@ 4 :> <<"d4">>
MCKey == {k1, k2, k3} \cup {MCOpeningKey[w] : w \in MCWallet}

Dto(u, w, a, c, k) == [from |-> u, to |-> w, amount |-> a, currency |-> c, key |-> k]

\* Opposite transfers between two wallets, the first one twice what is left
\* after it; a key reused by another sender; the three refusals; the key
\* whose entry a deposit already took.
BroadInputs ==
  { Dto(u1, 2, 2, "EUR", k1), Dto(u2, 1, 2, "EUR", k2), Dto(u3, 1, 1, "EUR", k1),
    Dto(u1, 3, 1, "EUR", k3), Dto(u2, 4, 1, "USD", k3), Dto(u1, 4, 1, "EUR", k2),
    Dto(u1, 4, 1, "USD", k2) }

Slots == Permutations(Request)
=============================================================================
