--------------------------- MODULE MCNotifications ---------------------------
(* The job of a completed transfer.                                         *)
EXTENDS Notifications

CONSTANT j1

TransferName == j1 :> "TransferCompleted"
DepositName == j1 :> "DepositSucceeded"
=============================================================================
