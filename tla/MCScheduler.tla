---------------------------- MODULE MCScheduler ----------------------------
(* Small instances of the scheduler.                                       *)
EXTENDS Scheduler

CONSTANTS w1, w2, w3, w4

Four == {w1, w2, w3, w4}
One == {w1}
=============================================================================
