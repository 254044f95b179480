------------------------------ MODULE MCOutbox ------------------------------
(* Two servers, one of which has two calls of the publisher that overlap.  *)
EXTENDS Outbox, TLC

CONSTANTS e1, e2, a, b, p1, p2, p3

MCServerOf == p1 :> a @@ p2 :> a @@ p3 :> b
=============================================================================
