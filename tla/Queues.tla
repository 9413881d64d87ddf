------------------------------- MODULE Queues -------------------------------
(***************************************************************************)
(* The FIFO queues of tasks of runtime/src/queue.c (safe_queue_t): a       *)
(* linked list under a pthread mutex, so that every push and pop is one    *)
(* step on a sequence of tasks, oldest first: Append, Head and Tail.  A    *)
(* push never blocks or refuses: size_limit is stored, not enforced.       *)
(***************************************************************************)
EXTENDS Naturals, Sequences, Functions

(* A queue in which no task occurs twice. *)
NoDups(q) == \A i, j \in DOMAIN q : q[i] = q[j] => i = j
=============================================================================
