------------------------------ MODULE MCMutex ------------------------------
(* Instances of Mutex: three tasks on two kernel threads, or on one. *)
EXTENDS Mutex, TLC

CONSTANTS t1, t2, t3, k1, k2

(* t1 and t2 share a thread, t3 runs in parallel with them. *)
TwoThreads == (t1 :> k1) @@ (t2 :> k1) @@ (t3 :> k2)
TwoThreadsBoot == (k1 :> <<t1, t2>>) @@ (k2 :> <<t3>>)
=============================================================================
