---------------------------- MODULE MCScheduler ----------------------------
(* Scheduler with two threads and up to three tasks. *)
EXTENDS Scheduler

CONSTANTS t1, t2, t3
=============================================================================
