---------------------------- MODULE MCWaitGroup ----------------------------
(* WaitGroup with three tasks, two of them on one kernel thread. *)
EXTENDS WaitGroup, TLC

CONSTANTS t1, t2, t3, k1, k2

MCSched == (t1 :> k1) @@ (t2 :> k1) @@ (t3 :> k2)
MCBoot == (k1 :> <<t1, t2>>) @@ (k2 :> <<t3>>)
=============================================================================
