------------------------------ MODULE MCGcMark ------------------------------
(* Instances of GcMark: up to three tasks and two chunks. *)
EXTENDS GcMark
=============================================================================
