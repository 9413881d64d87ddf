----------------------------- MODULE MCDiskIO ------------------------------
(* Instance of DiskIO: two tasks on one kernel thread. *)
EXTENDS DiskIO, TLC

CONSTANTS t1, t2, k1

OneThread == (t1 :> k1) @@ (t2 :> k1)
OneThreadBoot == k1 :> <<t1, t2>>
=============================================================================
