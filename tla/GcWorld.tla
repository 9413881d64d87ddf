------------------------------ MODULE GcWorld ------------------------------
(***************************************************************************)
(* Stopping and resuming the world: gc_start, gc_stop_the_world and        *)
(* gc_resume_world of runtime/src/gc.c against the scheduler threads of    *)
(* runtime/src/scheduler.c, which count themselves in and out of           *)
(* total_threads around each slice of a task and stop in self_yield.       *)
(* gc_state.lock protects world_stopped, stopped_count and both condition  *)
(* variables, so a critical section under it is one step; total_threads is *)
(* changed outside it, and self_yield reads world_stopped outside it.      *)
(***************************************************************************)
EXTENDS Integers, FiniteSets

CONSTANT Thread          \* the scheduler threads

ASSUME ThreadAssumption == IsFiniteSet(Thread)

VARIABLES pc,            \* where each scheduler thread is
          gpc,           \* where the collector is
          world_stopped, stopped_count, total_threads,   \* gc_state
          add_lock,      \* gc_state.add_lock is held by the collector
          missed,        \* mutators forgotten when gc_start zeroed total_threads
          late,          \* increments of stopped_count by threads that did not stop
          entered        \* threads that counted in after the collector's decision

gcVars == <<gpc, world_stopped, stopped_count, add_lock, missed, late>>
vars == <<pc, total_threads, entered, gcVars>>

(* A mutator runs a slice of a task, or is stopped inside one. *)
StoppedPc == {"stop_wait", "stop_woken"}
MutatorPc == {"run", "stop_lock", "ret"} \cup StoppedPc
Mutators == {k \in Thread : pc[k] \in MutatorPc}
Stopped == {k \in Thread : pc[k] \in StoppedPc}

Init ==
  /\ pc = [k \in Thread |-> "pop"]
  /\ gpc = "off"
  /\ world_stopped = FALSE
  /\ stopped_count = 0
  /\ total_threads = 0
  /\ add_lock = FALSE
  /\ missed = 0
  /\ late = 0
  /\ entered = {}

Goto(k, from, to) == pc[k] = from /\ pc' = [pc EXCEPT ![k] = to]

(* scheduler_run: a task leaves the ready queue. *)
Pop(k) == Goto(k, "pop", "add") /\ UNCHANGED <<total_threads, entered, gcVars>>

(* The thread counts itself in, under add_lock, and resumes the task. *)
CountIn(k) ==
  /\ ~add_lock
  /\ Goto(k, "add", "run")
  /\ total_threads' = total_threads + 1
  /\ entered' = IF gpc = "decided" THEN entered \cup {k} ELSE entered
  /\ UNCHANGED gcVars

(* The task blocks or finishes. *)
LeaveTask(k) == Goto(k, "run", "ret") /\ UNCHANGED <<total_threads, entered, gcVars>>

(* self_yield reads world_stopped without the lock; when the world runs it  *)
(* may yield to the scheduler (a raised preempt flag) or return.            *)
SelfYield(k) ==
  /\ \/ world_stopped /\ Goto(k, "run", "stop_lock")
     \/ ~world_stopped /\ Goto(k, "run", "ret")
  /\ UNCHANGED <<total_threads, entered, gcVars>>
(* Variant for checking: the thread does not count itself out. *)
CountOutNone(k) == Goto(k, "ret", "pop") /\ UNCHANGED <<total_threads, entered, gcVars>>

(* Back in scheduler_run: the thread counts itself out.  Nobody is signalled. *)
CountOut(k) ==
  /\ Goto(k, "ret", "pop")
  /\ total_threads' = total_threads - 1
  /\ entered' = entered \ {k}
  /\ UNCHANGED gcVars

(* Variant: the last thread to stop does not signal the collector. *)
StopSelfSilent(k) ==
  /\ Goto(k, "stop_lock", IF world_stopped THEN "stop_wait" ELSE "run")
  /\ stopped_count' = stopped_count + 1
  /\ late' = IF world_stopped THEN late ELSE late + 1
  /\ UNCHANGED <<gpc, world_stopped, total_threads, add_lock, missed, entered>>

(* self_yield under gc_state.lock, up to the wait or the unlock. *)
StopSelf(k) ==
  /\ Goto(k, "stop_lock", IF world_stopped THEN "stop_wait" ELSE "run")
  /\ stopped_count' = stopped_count + 1
  /\ late' = IF world_stopped THEN late ELSE late + 1
  /\ gpc' = IF gpc = "wait" /\ stopped_count + 1 = total_threads THEN "woken" ELSE gpc
  /\ UNCHANGED <<world_stopped, total_threads, add_lock, missed, entered>>
(* The loop around pthread_cond_wait(&cv_world_resumed). *)
StopRecheck(k) ==
  /\ Goto(k, "stop_woken", IF world_stopped THEN "stop_wait" ELSE "run")
  /\ UNCHANGED <<total_threads, entered, gcVars>>

(* gc_start, called by main after the first task was made ready. *)
GcStart ==
  /\ gpc = "off"
  /\ gpc' = "idle"
  /\ world_stopped' = FALSE
  /\ stopped_count' = 0
  /\ total_threads' = 0
  /\ missed' = Cardinality(Mutators)
  /\ UNCHANGED <<pc, add_lock, late, entered>>
(* Variant: the collector goes on one thread early. *)
AwaitEarly == gpc' = IF stopped_count + 1 < total_threads THEN "wait" ELSE "decided"

(* The condition of the loop in gc_stop_the_world. *)
Await == gpc' = IF stopped_count < total_threads THEN "wait" ELSE "decided"

(* A collection starts.  usleep(GC_TIMEPERIOD), 100 s, separates it from    *)
(* the last one: mutators woken then have left self_yield.                  *)
GcRequest ==
  /\ gpc = "idle"
  /\ \A k \in Thread : pc[k] # "stop_woken"
  /\ world_stopped' = TRUE
  /\ Await
  /\ UNCHANGED <<pc, stopped_count, total_threads, add_lock, missed, late, entered>>

GcRecheck ==
  /\ gpc = "woken"
  /\ Await
  /\ UNCHANGED <<pc, world_stopped, stopped_count, total_threads, add_lock, missed, late, entered>>

(* The end of gc_stop_the_world: only now are new mutators kept out. *)
GcAddLock ==
  /\ gpc = "decided"
  /\ add_lock' = TRUE
  /\ gpc' = "collect"
  /\ UNCHANGED <<pc, world_stopped, stopped_count, total_threads, missed, late, entered>>
(* Variant: the mutators are not woken. *)
GcResumeSilent ==
  /\ gpc = "collect"
  /\ gpc' = "idle"
  /\ world_stopped' = FALSE
  /\ stopped_count' = 0
  /\ late' = 0
  /\ entered' = {}
  /\ add_lock' = FALSE
  /\ UNCHANGED <<pc, total_threads, missed>>

(* gc_mark and gc_sweep are over: gc_resume_world. *)
GcResume ==
  /\ gpc = "collect"
  /\ gpc' = "idle"
  /\ world_stopped' = FALSE
  /\ stopped_count' = 0
  /\ late' = 0
  /\ entered' = {}
  /\ add_lock' = FALSE
  /\ pc' = [k \in Thread |-> IF pc[k] = "stop_wait" THEN "stop_woken" ELSE pc[k]]
  /\ UNCHANGED <<total_threads, missed>>

(* pthread_cond_wait may return without a signal. *)
SpuriousWake ==
  \/ (\E k \in Thread : Goto(k, "stop_wait", "stop_woken")) /\ UNCHANGED gpc
  \/ gpc = "wait" /\ gpc' = "woken" /\ UNCHANGED pc

Spurious ==
  /\ SpuriousWake
  /\ UNCHANGED <<world_stopped, stopped_count, total_threads, add_lock, missed, late, entered>>

Mutate(k) == CountIn(k) \/ SelfYield(k) \/ CountOut(k) \/ StopSelf(k) \/ StopRecheck(k)
Collect == GcStart \/ GcRequest \/ GcRecheck \/ GcAddLock \/ GcResume

Next ==
  \/ \E k \in Thread : Pop(k) \/ LeaveTask(k) \/ Mutate(k)
  \/ Collect
  \/ Spurious

Spec == Init /\ [][Next]_vars

(* Threads and the collector run; a task reaches a safepoint, since         *)
(* generated code has one before every call.  Spurious wakeups, new slices  *)
(* of tasks and tasks that block are possible but not assumed.              *)
Fairness == WF_vars(Collect) /\ \A k \in Thread : WF_vars(Mutate(k))

FairSpec == Spec /\ Fairness
-----------------------------------------------------------------------------
Pc == {"pop", "add"} \cup MutatorPc

TypeOK ==
  /\ pc \in [Thread -> Pc]
  /\ gpc \in {"off", "idle", "wait", "woken", "decided", "collect"}
  /\ world_stopped \in BOOLEAN
  /\ stopped_count \in Nat
  /\ total_threads \in Int
  /\ add_lock \in BOOLEAN
  /\ missed \in Nat
  /\ late \in Nat
  /\ entered \subseteq Thread

(* total_threads counts the threads inside a slice of a task, less the ones *)
(* that were inside one when gc_start zeroed it; and stopped_count, while   *)
(* the world is stopped, the threads that wait in self_yield, once each     *)
(* however often they wake up, plus the ones that saw the last stop request *)
(* too late to stop for it.  The balance is kept through every collection.  *)
CountersMeasure ==
  /\ TypeOK
  /\ total_threads = Cardinality(Mutators) - missed
  /\ stopped_count = late + (IF world_stopped THEN Cardinality(Stopped) ELSE 0)

(* When both counters are right, so is the collector's decision to go on:   *)
(* at that moment every mutator waits in self_yield, and stays there until  *)
(* the collection is over, whatever wakes it up in between.  While          *)
(* gc_collect marks and sweeps, the only threads inside a slice of a task   *)
(* are the ones that counted themselves in between the decision and         *)
(* pthread_mutex_lock(&add_lock).                                           *)
DecisionIsSound ==
  [][/\ gpc # "decided" /\ gpc' = "decided" /\ missed = 0 /\ late = 0
          => Mutators \subseteq Stopped
     /\ gpc \in {"decided", "collect"} /\ gpc' # "idle"
          => \A k \in Stopped : pc'[k] \in StoppedPc
     /\ gpc' = "collect" /\ missed = 0 /\ late = 0
          => (Mutators \ Stopped)' \subseteq entered']_vars

(* A collection that was decided on ends, and every thread it stopped runs  *)
(* again: the two locks are never waited for in a cycle.                    *)
CollectionReleases ==
  \A k \in Thread :
    (gpc \in {"decided", "collect"} /\ k \in Stopped) ~> pc[k] = "run"

(* The collector is left asleep, with both counters right and every mutator *)
(* already stopped for it, only by a thread that leaves its task instead of *)
(* stopping, since counting out signals nobody: a thread that stops never   *)
(* does so unnoticed.                                                       *)
Unnoticed ==
  gpc = "wait" /\ missed = 0 /\ late = 0 /\ Mutators \subseteq Stopped
OnlyLeaversGoUnnoticed ==
  [][Unnoticed' => Unnoticed \/ \E k \in Thread : pc[k] = "ret" /\ pc'[k] = "pop"]_vars
=============================================================================
