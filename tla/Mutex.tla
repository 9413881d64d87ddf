------------------------------- MODULE Mutex -------------------------------
(***************************************************************************)
(* The task mutex of runtime/src/sync.c: a state word taken by a CAS on    *)
(* the fast path, and a queue of waiting tasks guarded by a pthread mutex. *)
(* Tasks lock and unlock for ever or finish.  Every access to the state    *)
(* word, every pthread lock and every queue operation is a step; the end   *)
(* of a critical section of the pthread mutex is part of its last step.    *)
(***************************************************************************)
EXTENDS WaitQueue

VARIABLES state,         \* mtx->state: 0 free, 1 held
          overtaken      \* history: LockStore has stored over a held word

wordVars == <<state, overtaken>>
mutexVars == <<pc, wordVars, lock, waiters>>
vars == <<rtVars, mutexVars>>

(* out, in: user code outside and inside the critical section; *_call: past *)
(* the safepoint and about to call.                                         *)
OutPc == {"out", "out_call", "done"}
LockPc == {"lock_slow", "lock_check", "lock_store", "lock_push", "lock_yield"}
HoldPc == {"in", "in_call", "un_store"}
Pc == OutPc \cup LockPc \cup HoldPc \cup {"un_pop"}

Init ==
  /\ RtInit
  /\ pc = [t \in Task |-> "out"]
  /\ state = 0
  /\ lock = NoTask
  /\ waiters = <<>>
  /\ overtaken = FALSE

(* The safepoint generated before the call of lock or unlock. *)
SafePoint(t) ==
  /\ \/ At(t, "out") /\ Goto(t, "out_call")
     \/ At(t, "in") /\ Goto(t, "in_call")
  /\ SelfYield(t)
  /\ UNCHANGED <<wordVars, lock, waiters>>
(* Variant for checking: the fast path without its comparison. *)
LockFastBlind(t) ==
  /\ At(t, "out_call")
  /\ state' = 1 /\ Goto(t, "in")
  /\ UNCHANGED <<rtVars, lock, waiters, overtaken>>

(* The CAS of the fast path, which does not take mtx->lock. *)
LockFast(t) ==
  /\ At(t, "out_call")
  /\ \/ state = 0 /\ state' = 1 /\ Goto(t, "in")
     \/ state # 0 /\ Goto(t, "lock_slow") /\ UNCHANGED state
  /\ UNCHANGED <<rtVars, lock, waiters, overtaken>>

LockEnter(t) ==
  /\ At(t, "lock_slow")
  /\ lock = NoTask
  /\ lock' = t
  /\ Goto(t, "lock_check")
  /\ UNCHANGED <<rtVars, wordVars, waiters>>
(* Variant: a free word sends the task round the loop again. *)
LockCheckRetry(t) ==
  /\ At(t, "lock_check")
  /\ IF state = 0 THEN Goto(t, "lock_slow") /\ lock' = NoTask
                  ELSE Goto(t, "lock_push") /\ UNCHANGED lock
  /\ UNCHANGED <<rtVars, wordVars, waiters>>

LockCheck(t) ==
  /\ At(t, "lock_check")
  /\ Goto(t, IF state = 0 THEN "lock_store" ELSE "lock_push")
  /\ UNCHANGED <<rtVars, wordVars, lock, waiters>>

(* A plain store: the word may have changed since LockCheck read it. *)
LockStore(t) ==
  /\ At(t, "lock_store")
  /\ state' = 1
  /\ overtaken' = (overtaken \/ state = 1)
  /\ lock' = NoTask
  /\ Goto(t, "in")
  /\ UNCHANGED <<rtVars, waiters>>

LockPush(t) ==
  /\ At(t, "lock_push")
  /\ waiters' = Append(waiters, t)
  /\ lock' = NoTask
  /\ Goto(t, "lock_yield")
  /\ UNCHANGED <<rtVars, wordVars>>

(* task_yield; the task resumes at the top of the slow loop. *)
LockYield(t) ==
  /\ At(t, "lock_yield")
  /\ TaskYield(t)
  /\ Goto(t, "lock_slow")
  /\ UNCHANGED <<ready_q, preempt, wordVars, lock, waiters>>

UnlockEnter(t) ==
  /\ At(t, "in_call")
  /\ lock = NoTask
  /\ lock' = t
  /\ Goto(t, "un_store")
  /\ UNCHANGED <<rtVars, wordVars, waiters>>

UnlockStore(t) ==
  /\ At(t, "un_store")
  /\ state' = 0
  /\ Goto(t, "un_pop")
  /\ UNCHANGED <<rtVars, lock, waiters, overtaken>>
(* Variant: unlock wakes nobody. *)
UnlockPopNone(t) ==
  /\ At(t, "un_pop")
  /\ lock' = NoTask
  /\ Goto(t, "out")
  /\ UNCHANGED <<rtVars, wordVars, waiters>>

(* Wake the oldest waiter, if any, and leave mtx->lock. *)
UnlockPop(t) ==
  /\ At(t, "un_pop")
  /\ \/ /\ waiters # <<>>
        /\ MakeReady(Head(waiters))
        /\ waiters' = Tail(waiters)
     \/ waiters = <<>> /\ UNCHANGED <<ready_q, waiters>>
  /\ lock' = NoTask
  /\ Goto(t, "out")
  /\ UNCHANGED <<current, preempt, wordVars>>

(* The task function returns; scheduler_run retires the task. *)
Finish(t) ==
  /\ At(t, "out")
  /\ TaskYield(t)
  /\ Goto(t, "done")
  /\ UNCHANGED <<ready_q, preempt, wordVars, lock, waiters>>

Step(t) ==
  \/ SafePoint(t) \/ LockFast(t) \/ LockEnter(t) \/ LockCheck(t)
  \/ LockStore(t) \/ LockPush(t) \/ LockYield(t)
  \/ UnlockEnter(t) \/ UnlockStore(t) \/ UnlockPop(t) \/ Finish(t)

Sched(k) == (Dispatch(k) \/ ForcePreempt(k)) /\ UNCHANGED mutexVars

Terminated == (\A t \in Task : pc[t] = "done") /\ UNCHANGED vars

Next ==
  \/ \E t \in Task : Step(t)
  \/ \E k \in Thread : Sched(k)
  \/ Terminated

Spec == Init /\ [][Next]_vars

(* A running task executes its instructions, a kernel thread with ready    *)
(* tasks runs one, and the timer keeps ticking.                            *)
Fairness ==
  /\ \A t \in Task : WF_vars(Step(t))
  /\ \A k \in Thread : /\ WF_vars(Dispatch(k) /\ UNCHANGED mutexVars)
                       /\ WF_vars(ForcePreempt(k) /\ UNCHANGED mutexVars)

FairSpec == Spec /\ Fairness
-----------------------------------------------------------------------------
TypeOK ==
  /\ RtTypeOK
  /\ pc \in [Task -> Pc]
  /\ state \in {0, 1}
  /\ lock \in Task \cup {NoTask}
  /\ waiters \in Seq(Task)
  /\ overtaken \in BOOLEAN

Holds(t) == pc[t] \in HoldPc

(* At most one task is between the return of mutex_lock and the store of   *)
(* mutex_unlock: what the mutex is for.                                    *)
MutualExclusion ==
  \A t, u \in Task : Holds(t) /\ Holds(u) => t = u

(* The store of the slow path is the only thing that breaks it: as long as *)
(* no fast path gets between the slow path's load and store of the word,   *)
(* which cannot happen among the tasks of one thread, the mutex excludes.  *)
ExclusionUnlessOvertaken == TypeOK /\ (overtaken \/ MutualExclusion)

(* A task that is neither finished nor running is in its thread's ready    *)
(* queue or in mtx->waiters, and never in two of the three places, so it   *)
(* is never resumed twice (a task is woken while it is still on its way to *)
(* task_yield; it must run on first).                                      *)
EveryTaskSomewhere ==
  \A t \in Task :
    /\ pc[t] = "done" \/ Running(t) \/ Ready(t) \/ Asleep(t)
    /\ ~(Ready(t) /\ Asleep(t))
    /\ Running(t) /\ (Ready(t) \/ Asleep(t)) <=> pc[t] = "lock_yield"

(* No task is lost, in that sense, and no wakeup is: while a task sleeps in *)
(* mtx->waiters, some other task is bound to pop the queue again: one that *)
(* holds the mutex or is releasing it, or one that is awake in the slow    *)
(* path, which takes the mutex or finds it held.                           *)
NoLostWakeup ==
  EveryTaskSomewhere /\
  (waiters # <<>> =>
    \E t \in Task : \/ Holds(t)
                    \/ pc[t] = "un_pop"
                    \/ pc[t] \in LockPc /\ ~Asleep(t))

(* While tasks want the mutex, tasks get it. *)
SomeoneGetsIn ==
  (\E t \in Task : pc[t] \in LockPc) ~> (\E t \in Task : Holds(t))
=============================================================================
