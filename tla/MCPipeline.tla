----------------------------- MODULE MCPipeline -----------------------------
(* The event of one settled deposit.                                        *)
EXTENDS Pipeline, TLC

CONSTANTS e1, a, p1, p2

MCEventName == e1 :> "DepositSucceeded"
TwoCalls == p1 :> a @@ p2 :> a
=============================================================================
