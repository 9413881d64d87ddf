------------------------------ MODULE MCNetIO ------------------------------
(* Instances of NetIO: two tasks, each on a kernel thread of its own. *)
EXTENDS NetIO, TLC

CONSTANTS t1, t2, k1, k2, lfd, fd

TwoThreads == (t1 :> k1) @@ (t2 :> k2)
TwoThreadsBoot == (k1 :> <<t1>>) @@ (k2 :> <<t2>>)

(* A server that accepts on lfd, and a connection fd that either task makes *)
(* by an accept or a dial and both may then use.                            *)
Shared == (t1 :> {lfd, fd}) @@ (t2 :> {fd})
=============================================================================
