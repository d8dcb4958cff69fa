--------------------------- MODULE MCAlertDelivery ---------------------------
(* Instances of AlertDelivery for TLC: one session reports a run and its    *)
(* event, the other the event only.                                         *)
EXTENDS AlertDelivery

CONSTANTS s1, s2, run, event, w1, w2

MCBatch == [s \in Session |-> IF s = s1 THEN <<run, event>> ELSE <<event>>]
==============================================================================
