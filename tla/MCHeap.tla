------------------------------- MODULE MCHeap -------------------------------
(***************************************************************************)
(* An instance of Heap: sizes small enough that one request is for a fast,  *)
(* one for a small and one for a mapped chunk, large chunks arise when      *)
(* neighbours merge, and a few requests exhaust the first heap.             *)
(***************************************************************************)
EXTENDS Heap

HeapSpec == HeapInit /\ [][HeapNext]_heapVars
=============================================================================
