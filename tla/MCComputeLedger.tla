--------------------------- MODULE MCComputeLedger ---------------------------
(* The closers that share the ledger: a kill while the reconciler gives the   *)
(* agent up.                                                                  *)
EXTENDS ComputeLedger

KillAndReconciler == {"kill", "unavailable"}
=============================================================================
