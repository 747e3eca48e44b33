--------------------------- MODULE MCFinishDelivery ---------------------------
(* Two goroutines that notify the caller of the same trace.                *)
EXTENDS FinishDelivery
=============================================================================
