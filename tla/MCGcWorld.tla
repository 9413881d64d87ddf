----------------------------- MODULE MCGcWorld -----------------------------
(* GcWorld with three scheduler threads. *)
EXTENDS GcWorld

CONSTANTS k1, k2, k3
=============================================================================
