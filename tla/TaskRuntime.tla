---------------------------- MODULE TaskRuntime ----------------------------
(***************************************************************************)
(* What a runtime primitive sees of the M:N scheduler: kernel threads that *)
(* each run one task at a time, one FIFO ready queue per thread, tasks     *)
(* pinned to the thread they were spawned on (task_t.sched_id), and the    *)
(* preemption flag a timer raises every 50 ms.  The synchronisation        *)
(* primitives extend this module and take their steps on a running task.   *)
(* Start-up, exit and the collector are in Scheduler and GcWorld.          *)
(***************************************************************************)
EXTENDS Queues

CONSTANTS Task, Thread,
          NoTask,        \* NULL, in kernel_thread_t.current and in lock owners
          sched_id,      \* task_t.sched_id: the thread a task is pinned to
          boot_q         \* the ready queues once every task has been spawned

(* Each task waits once, in the ready queue of its own thread. *)
ASSUME SchedAssumption ==
  /\ NoTask \notin Task
  /\ sched_id \in [Task -> Thread]
  /\ boot_q \in [Thread -> Seq(Task)]
  /\ \A t \in Task : t \in Range(boot_q[sched_id[t]])
  /\ \A k \in Thread : /\ \A i \in DOMAIN boot_q[k] : sched_id[boot_q[k][i]] = k
                       /\ \A i, j \in DOMAIN boot_q[k] :
                            boot_q[k][i] = boot_q[k][j] => i = j

VARIABLES ready_q,       \* kernel_thread_t.ready_q, oldest first
          current,       \* kernel_thread_t.current
          preempt        \* preempt[tid], raised by the timer signal

rtVars == <<ready_q, current, preempt>>

RtInit ==
  /\ ready_q = boot_q
  /\ current = [k \in Thread |-> NoTask]
  /\ preempt = [k \in Thread |-> FALSE]

Running(t) == current[sched_id[t]] = t

(* safe_q_push(&kernel_thread_map[t->sched_id]->ready_q, t) *)
MakeReady(t) ==
  ready_q' = [ready_q EXCEPT ![sched_id[t]] = Append(@, t)]

(* task_yield: back to scheduler_run, which finds its next task itself. *)
TaskYield(t) ==
  current' = [current EXCEPT ![sched_id[t]] = NoTask]

(* self_yield, called before every call in generated code, while no        *)
(* collection is in progress: a raised flag sends the task to the end of   *)
(* the ready queue.                                                        *)
SelfYield(t) ==
  IF preempt[sched_id[t]]
  THEN /\ preempt' = [preempt EXCEPT ![sched_id[t]] = FALSE]
       /\ MakeReady(t)
       /\ TaskYield(t)
  ELSE UNCHANGED rtVars

(* scheduler_run: safe_q_pop_wait on the ready queue, then task_resume. *)
Dispatch(k) ==
  /\ current[k] = NoTask
  /\ ready_q[k] # <<>>
  /\ current' = [current EXCEPT ![k] = Head(ready_q[k])]
  /\ ready_q' = [ready_q EXCEPT ![k] = Tail(@)]
  /\ UNCHANGED preempt

(* force_preempt, the handler of the 50 ms timer. *)
ForcePreempt(k) ==
  /\ ~preempt[k]
  /\ preempt' = [preempt EXCEPT ![k] = TRUE]
  /\ UNCHANGED <<ready_q, current>>

RtTypeOK ==
  /\ ready_q \in [Thread -> Seq(Task)]
  /\ current \in [Thread -> Task \cup {NoTask}]
  /\ preempt \in [Thread -> BOOLEAN]

Ready(t) == t \in Range(ready_q[sched_id[t]])

(* The scheduler's own bookkeeping: a thread runs and queues only the      *)
(* tasks pinned to it, and a task is never queued twice.                   *)
Pinned ==
  \A k \in Thread :
    /\ current[k] # NoTask => sched_id[current[k]] = k
    /\ \A t \in Range(ready_q[k]) : sched_id[t] = k
    /\ NoDups(ready_q[k])
=============================================================================
