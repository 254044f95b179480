--------------------------- MODULE MCWalletSystem ---------------------------
(* A transfer into the wallet that deposits are settled into, and a reader  *)
(* of that wallet's balance.                                                *)
EXTENDS BalanceReads, TLC

CONSTANTS u1, u2, r1, d1, h1, s1, p1

MCOwner == 1 :> u1 @@ 2 :> u2
MCCurrencyOf == 1 :> "EUR" @@ 2 :> "EUR"
MCOpening == 1 :> 1 @@ 2 :> 0

k1 == <<"k1">>
MCOpeningKey == 1 :> <<"o1">> @@ 2 :> <<"o2">>
MCKey == {k1, OutKey(k1)} \cup {MCOpeningKey[w] : w \in Wallet}

MCTransferInputs ==
  { [from |-> u1, to |-> 2, amount |-> 1, currency |-> "EUR", key |-> k1] }

\* A deposit under the key of the transfer, which disturbs nobody, and one
\* under the key of its debit entry.
MCDepositInputs ==
  { [user |-> u2, amount |-> 1, currency |-> "EUR", key |-> k, paymentMethod |-> "stripe"] :
      k \in {k1, OutKey(k1)} }
=============================================================================
