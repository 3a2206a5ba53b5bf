------------------------ MODULE MC_BroadcastDelivery ------------------------
(* Model values for BroadcastDelivery.  The broker redelivers a bounded number *)
(* of times: one execution of the task for each element of Executions.         *)
EXTENDS BroadcastDelivery

CONSTANTS c1, c2, w1, w2, w3, k1, k2
=============================================================================
