----------------------------- MODULE Scheduler -----------------------------
(***************************************************************************)
(* The life of a task and of the program: main starts N scheduler threads  *)
(* and spawns the first task; a task spawns others (thread() in            *)
(* initutils.c), yields, blocks until someone makes it ready, or returns;  *)
(* scheduler_run retires it, and the thread that retires the last one      *)
(* sends NULL to every ready queue so that all threads exit and main's     *)
(* join returns.  task_count is the only thing that tells "last".          *)
(***************************************************************************)
EXTENDS Naturals, Sequences, FiniteSets, Functions

CONSTANTS N,             \* SCHEDULER_THREAD_POOL_SIZE
          Task,          \* the tasks a run may create; their number bounds thread()
          NULL

ASSUME SchedulerAssumption == N \in Nat \ {0} /\ NULL \notin Task

Thread == 0 .. N - 1     \* kernel_thread_t.id
Main == N                \* the process's first thread, as a caller of thread()
Caller == 0 .. N

VARIABLES life,          \* of each task: "unborn", "created" (task_create
                         \* returned), "counted", "live", "finished", "retired",
                         \* "freed" (task_destroy)
          sched_id,      \* task_t.sched_id
          spawning,      \* the task a caller is inside thread() for
          ready_q, current,    \* of each kernel_thread_t; current stands for
                         \* scheduler_run's local t, until task_destroy
          parked,        \* tasks registered with a lock, poller or ring
          task_count,
          roots,         \* the tasks in the collector's list of roots
          remaining,     \* scheduler_run's local, of each thread
          tpc,           \* where each scheduler thread is
          signalled,     \* i of the loop that pushes NULL, of each thread
          mpc            \* where main is

vars == <<life, sched_id, spawning, ready_q, current, parked, task_count, roots,
          remaining, tpc, signalled, mpc>>

Init ==
  /\ life = [t \in Task |-> "unborn"]
  /\ sched_id = [t \in Task |-> 0]
  /\ spawning = [c \in Caller |-> NULL]
  /\ ready_q = [k \in Thread |-> <<>>]
  /\ current = [k \in Thread |-> NULL]
  /\ parked = {}
  /\ task_count = 0
  /\ roots = {}
  /\ remaining = [k \in Thread |-> 0]
  /\ tpc = [k \in Thread |-> "pop"]
  /\ signalled = [k \in Thread |-> 0]
  /\ mpc = "start"

Push(k, t) == ready_q' = [ready_q EXCEPT ![k] = Append(@, t)]
Goto(k, l) == tpc' = [tpc EXCEPT ![k] = l]

(* A caller of thread(): main once, then any running task. *)
MaySpawn(c) ==
  /\ spawning[c] = NULL
  /\ IF c = Main THEN mpc = "start" ELSE tpc[c] = "run"

(* thread(), up to task_create on a random kernel thread, which registers  *)
(* the task as a root.                                                      *)
SpawnCreate(c, t, k) ==
  /\ MaySpawn(c)
  /\ life[t] = "unborn"
  /\ life' = [life EXCEPT ![t] = "created"]
  /\ sched_id' = [sched_id EXCEPT ![t] = k]
  /\ roots' = roots \cup {t}
  /\ spawning' = [spawning EXCEPT ![c] = t]
  /\ mpc' = IF c = Main THEN "spawn" ELSE mpc
  /\ UNCHANGED <<ready_q, current, parked, task_count, remaining, tpc, signalled>>

(* atomic_fetch_add(&task_count, 1) *)
SpawnCount(c) ==
  /\ spawning[c] # NULL /\ life[spawning[c]] = "created"
  /\ task_count' = task_count + 1
  /\ life' = [life EXCEPT ![spawning[c]] = "counted"]
  /\ UNCHANGED <<sched_id, spawning, ready_q, current, parked, roots, tpc, remaining, signalled, mpc>>

(* safe_q_push: from here on the task may run. *)
SpawnPush(c) ==
  /\ spawning[c] # NULL /\ life[spawning[c]] = "counted"
  /\ Push(sched_id[spawning[c]], spawning[c])
  /\ life' = [life EXCEPT ![spawning[c]] = "live"]
  /\ spawning' = [spawning EXCEPT ![c] = NULL]
  /\ mpc' = IF c = Main THEN "join" ELSE mpc
  /\ UNCHANGED <<sched_id, current, parked, task_count, roots, tpc, remaining, signalled>>

(* safe_q_pop_wait; NULL ends the thread, a task is resumed. *)
Pop(k) ==
  /\ tpc[k] = "pop" /\ ready_q[k] # <<>>
  /\ ready_q' = [ready_q EXCEPT ![k] = Tail(@)]
  /\ current' = [current EXCEPT ![k] = Head(ready_q[k])]
  /\ Goto(k, IF Head(ready_q[k]) = NULL THEN "exit" ELSE "run")
  /\ UNCHANGED <<life, sched_id, spawning, parked, task_count, roots, remaining, signalled, mpc>>

(* A task runs its own code, not the inside of thread(). *)
InUserCode(k) == tpc[k] = "run" /\ spawning[k] = NULL

(* self_yield with the preempt flag up: back to its own ready queue.  The   *)
(* state of the task is TASK_RUNNING, so scheduler_run just pops again.     *)
Preempted(k) ==
  /\ InUserCode(k)
  /\ Push(k, current[k])
  /\ current' = [current EXCEPT ![k] = NULL]
  /\ Goto(k, "pop")
  /\ UNCHANGED <<life, sched_id, spawning, parked, task_count, roots, remaining, signalled, mpc>>

(* A blocking call registers the task with its future waker ... *)
Park(k) ==
  /\ InUserCode(k)
  /\ parked' = parked \cup {current[k]}
  /\ Goto(k, "yield")
  /\ UNCHANGED <<life, sched_id, spawning, ready_q, current, task_count, roots, remaining, signalled, mpc>>

(* ... and then yields; the waker may have come first. *)
TaskYield(k) ==
  /\ tpc[k] = "yield"
  /\ current' = [current EXCEPT ![k] = NULL]
  /\ Goto(k, "pop")
  /\ UNCHANGED <<life, sched_id, spawning, ready_q, parked, task_count, roots, remaining, signalled, mpc>>
(* Variant: the waker forgets to take the task off its list. *)
UnparkTwice(t) ==
  /\ t \in parked
  /\ \A k \in Thread : Len(ready_q[k]) < 3
  /\ Push(sched_id[t], t)
  /\ UNCHANGED <<life, sched_id, spawning, current, parked, task_count, roots, tpc,
                 remaining, signalled, mpc>>

(* The waker, a task or an I/O thread, makes a parked task ready. *)
Unpark(t) ==
  /\ t \in parked
  /\ parked' = parked \ {t}
  /\ Push(sched_id[t], t)
  /\ UNCHANGED <<life, sched_id, spawning, current, task_count, roots, tpc, remaining, signalled, mpc>>

(* task_trampoline: the function returned. *)
Return(k) ==
  /\ InUserCode(k)
  /\ life' = [life EXCEPT ![current[k]] = "finished"]
  /\ Goto(k, "retire")
  /\ UNCHANGED <<sched_id, spawning, ready_q, current, parked, task_count, roots, remaining, signalled, mpc>>

(* remaining = atomic_fetch_sub(&task_count, 1) - 1 *)
Retire(k) ==
  /\ tpc[k] = "retire"
  /\ task_count' = task_count - 1
  /\ remaining' = [remaining EXCEPT ![k] = task_count - 1]
  /\ life' = [life EXCEPT ![current[k]] = "retired"]
  /\ Goto(k, "unregister")
  /\ UNCHANGED <<sched_id, spawning, ready_q, current, parked, roots, signalled, mpc>>
(* Variant: the lock of the list is always left twice. *)
UnregisterTwice(k) ==
  /\ tpc[k] = "unregister"
  /\ roots' = roots \ {current[k]}
  /\ Goto(k, "unlock_again")
  /\ UNCHANGED <<life, sched_id, spawning, ready_q, current, parked, task_count, remaining,
                 signalled, mpc>>

(* task_destroy, the call of safe_gcq_remove: under the lock of the list,   *)
(* which it leaves twice if the task was the only root.                     *)
Unregister(k) ==
  /\ tpc[k] = "unregister"
  /\ roots' = roots \ {current[k]}
  /\ Goto(k, IF roots = {current[k]} THEN "unlock_again" ELSE "free")
  /\ UNCHANGED <<life, sched_id, spawning, ready_q, current, parked, task_count, remaining, signalled, mpc>>

UnlockAgain(k) ==
  /\ tpc[k] = "unlock_again"
  /\ Goto(k, "free")
  /\ UNCHANGED <<life, sched_id, spawning, ready_q, current, parked, task_count, roots, remaining, signalled, mpc>>
(* Variant: the test of remaining is missing. *)
FreeAlways(k) ==
  /\ tpc[k] = "free"
  /\ life' = [life EXCEPT ![current[k]] = "freed"]
  /\ current' = [current EXCEPT ![k] = NULL]
  /\ Goto(k, "recheck")
  /\ UNCHANGED <<sched_id, spawning, ready_q, parked, task_count, roots, remaining, signalled, mpc>>

(* The rest of task_destroy: munmap and release. *)
Free(k) ==
  /\ tpc[k] = "free"
  /\ life' = [life EXCEPT ![current[k]] = "freed"]
  /\ current' = [current EXCEPT ![k] = NULL]
  /\ Goto(k, IF remaining[k] = 0 THEN "recheck" ELSE "pop")
  /\ UNCHANGED <<sched_id, spawning, ready_q, parked, task_count, roots, remaining, signalled, mpc>>
(* Variant: the test of task_count is the wrong way round, in a loop. *)
RecheckForever(k) ==
  /\ tpc[k] = "recheck"
  /\ Goto(k, IF task_count # 0 THEN "pop" ELSE "recheck")
  /\ UNCHANGED <<life, sched_id, spawning, ready_q, current, parked, task_count, roots,
                 remaining, signalled, mpc>>

(* After 50 ms, task_count is read again. *)
Recheck(k) ==
  /\ tpc[k] = "recheck"
  /\ Goto(k, IF task_count = 0 THEN "signal" ELSE "pop")
  /\ UNCHANGED <<life, sched_id, spawning, ready_q, current, parked, task_count, roots, remaining, signalled, mpc>>

(* One turn of the loop that sends NULL; after the last the thread exits,   *)
(* leaving the NULL it sent itself.                                         *)
SignalExit(k) ==
  /\ tpc[k] = "signal"
  /\ \/ /\ signalled[k] < N
        /\ Push(signalled[k], NULL)
        /\ signalled' = [signalled EXCEPT ![k] = @ + 1]
        /\ UNCHANGED tpc
     \/ /\ signalled[k] = N
        /\ Goto(k, "exit")
        /\ UNCHANGED <<ready_q, signalled>>
  /\ UNCHANGED <<life, sched_id, spawning, current, parked, task_count, roots, remaining, mpc>>

(* wait_for_schedulers joins every thread and main returns. *)
Join ==
  /\ mpc = "join"
  /\ \A k \in Thread : tpc[k] = "exit"
  /\ mpc' = "returned"
  /\ UNCHANGED <<life, sched_id, spawning, ready_q, current, parked, task_count, roots, tpc, remaining, signalled>>

Returned == mpc = "returned" /\ UNCHANGED vars

(* The steps a thread takes by itself, a spawn in progress included. *)
Advance(c) == SpawnCount(c) \/ SpawnPush(c)
Run(k) ==
  \/ Pop(k) \/ TaskYield(k) \/ Retire(k) \/ Unregister(k)
  \/ UnlockAgain(k) \/ Free(k) \/ Recheck(k) \/ SignalExit(k) \/ Advance(k)

Next ==
  \/ \E c \in Caller, t \in Task, k \in Thread : SpawnCreate(c, t, k)
  \/ Advance(Main)
  \/ \E k \in Thread : Run(k) \/ Preempted(k) \/ Park(k) \/ Return(k)
  \/ \E t \in Task : Unpark(t)
  \/ Join \/ Returned

Spec == Init /\ [][Next]_vars

(* Scheduler threads and main run; nothing is assumed of the tasks. *)
Fairness == WF_vars(Advance(Main)) /\ WF_vars(Join) /\ \A k \in Thread : WF_vars(Run(k))

FairSpec == Spec /\ Fairness
-----------------------------------------------------------------------------
TypeOK ==
  /\ life \in [Task -> {"unborn", "created", "counted", "live", "finished", "retired", "freed"}]
  /\ sched_id \in [Task -> Thread]
  /\ spawning \in [Caller -> Task \cup {NULL}]
  /\ ready_q \in [Thread -> Seq(Task \cup {NULL})]
  /\ current \in [Thread -> Task \cup {NULL}]
  /\ parked \in SUBSET Task
  /\ task_count \in Nat
  /\ roots \in SUBSET Task
  /\ remaining \in [Thread -> Nat]
  /\ tpc \in [Thread -> {"pop", "run", "yield", "retire", "unregister", "unlock_again",
                         "free", "recheck", "signal", "exit"}]
  /\ signalled \in [Thread -> 0 .. N]
  /\ mpc \in {"start", "spawn", "join", "returned"}

Counted == {t \in Task : life[t] \in {"counted", "live", "finished"}}

(* task_count is the number of tasks that were counted and not retired. *)
CountIsExact == task_count = Cardinality(Counted)

(* No use after task_destroy: a freed task is in no ready queue, registered *)
(* with no waker, and no thread's current one.                              *)
FreedIsGone ==
  \A t \in Task : life[t] = "freed" =>
    /\ t \notin parked
    /\ \A k \in Thread : t # current[k] /\ t \notin Range(ready_q[k])

(* The program shuts down only when it is over: once a thread has counted  *)
(* the last task out, no task exists that has not finished, and none is    *)
(* being created; so no task is ever left behind the NULL in a queue.  The *)
(* count is exact at every step.                                           *)
ExitIsFinal ==
  TypeOK /\ CountIsExact /\
  ((\E k \in Thread : tpc[k] \in {"recheck", "signal", "exit"} \/ NULL \in Range(ready_q[k])) =>
    /\ \A t \in Task : life[t] \in {"unborn", "retired", "freed"}
    /\ \A c \in Caller : spawning[c] = NULL)

(* The second unlock of safe_gcq_remove cannot release a lock that someone  *)
(* else has taken: it happens only to the last task of the program, when no *)
(* other thread runs a task, which could spawn, or retires one.             *)
SecondUnlockAlone ==
  \A k \in Thread : tpc[k] = "unlock_again" =>
    /\ \A j \in Thread \ {k} : tpc[j] \notin {"run", "yield", "retire", "unregister", "unlock_again"}
    /\ \A c \in Caller : spawning[c] = NULL

(* When the last task is retired, every thread exits and main returns. *)
ProgramEnds ==
  (mpc = "join" /\ task_count = 0) ~> mpc = "returned"
=============================================================================
