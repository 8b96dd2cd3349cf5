--------------------------- MODULE MCTaskDelivery ---------------------------
(* TaskDelivery for TLC: the faults that may happen in each run.             *)
EXTENDS TaskDelivery

Reliable == {}
Delayed == {"torn", "cursorFails"}
=============================================================================
