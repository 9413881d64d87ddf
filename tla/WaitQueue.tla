----------------------------- MODULE WaitQueue -----------------------------
(***************************************************************************)
(* The frame that mutex_t and waitgroup_t of runtime/src/sync.c share: a   *)
(* queue of sleeping tasks guarded by a pthread mutex, used by tasks that  *)
(* are each somewhere in the code of a call.                               *)
(***************************************************************************)
EXTENDS TaskRuntime

VARIABLES pc,            \* where each task is in its code
          lock,          \* the task inside pthread_mutex_lock(&mtx->lock) or (&wg->lock)
          waiters        \* mtx->waiters, wg->waiters

Goto(t, l) == pc' = [pc EXCEPT ![t] = l]
At(t, l) == Running(t) /\ pc[t] = l

Asleep(t) == t \in Range(waiters)
=============================================================================
