------------------------------- MODULE DiskIO -------------------------------
(***************************************************************************)
(* Asynchronous files and standard streams: ascan, asyncio_printf, fread   *)
(* and fwrite of runtime/src/diskio.c, one io_uring per scheduler thread,  *)
(* and the diskio_worker thread that serves each ring.  The submission     *)
(* side of a ring is used only by the tasks of its thread, which do not    *)
(* yield between io_uring_get_sqe and io_uring_submit, so those calls are  *)
(* one step; the kernel, the worker and the task's own task_yield come     *)
(* after it in any order.  io_uring is external: an entry that a failed or *)
(* short io_uring_submit has not consumed stays in the submission queue,   *)
(* and the next call submits it.  Bytes and formats are left out.          *)
(***************************************************************************)
EXTENDS TaskRuntime, FiniteSets

CONSTANTS Ring,          \* the threads whose index is inside diskio_ring_map
          Depth,         \* DISKIO_QUEUE_DEPTH
          MaxFails       \* bound: how often io_uring_submit returns an error

ASSUME DiskAssumption ==
  Ring \subseteq Thread /\ Depth \in Nat \ {0} /\ MaxFails \in Nat

VARIABLES pc,            \* where each task is in its code
          io,            \* task_t.io
          wait_q,        \* the tasks in the wait queues of their threads
          sq,            \* io_uring: entries not yet taken by the kernel
          inflight,      \* io_uring: requests the kernel is working on
          cq,            \* io_uring: completions, oldest first
          seen,          \* the task each worker is about to make ready
          fails          \* how often io_uring_submit has failed

taskVars == <<pc, io, wait_q>>
ringVars == <<sq, inflight, cq, fails>>
diskVars == <<taskVars, ringVars, seen>>
vars == <<rtVars, diskVars>>

(* async_file_read, and the three other functions, which take the same steps. *)
Op == {"file_read", "other"}
Fresh(op) == [op |-> op, done_n |-> "zero", io_done |-> FALSE]

Init ==
  /\ RtInit
  /\ pc = [t \in Task |-> "user"]
  /\ io = [t \in Task |-> Fresh("other")]
  /\ wait_q = {}
  /\ sq = [r \in Ring |-> <<>>]
  /\ inflight = [r \in Ring |-> <<>>]
  /\ cq = [r \in Ring |-> <<>>]
  /\ seen = [r \in Ring |-> NoTask]
  /\ fails = 0

Goto(t, l) == pc' = [pc EXCEPT ![t] = l]
At(t, l) == Running(t) /\ pc[t] = l
-----------------------------------------------------------------------------
(* The safepoint generated before a call. *)
SafePoint(t) ==
  /\ At(t, "user")
  /\ SelfYield(t)
  /\ Goto(t, "call")
  /\ UNCHANGED <<io, wait_q, ringVars, seen>>

(* The head of the four calls: t->io is filled in. *)
Call(t) ==
  /\ At(t, "call")
  /\ \E op \in Op : io' = [io EXCEPT ![t] = Fresh(op)]
  /\ Goto(t, "submit")
  /\ UNCHANGED <<rtVars, wait_q, ringVars, seen>>

(* io_uring_get_sqe returns NULL: the submission queue is full, and the    *)
(* task yields to try again.                                               *)
NoSqe(t) ==
  /\ At(t, "submit") /\ sched_id[t] \in Ring
  /\ Len(sq[sched_id[t]]) = Depth
  /\ TaskYield(t)
  /\ UNCHANGED <<ready_q, preempt, diskVars>>

(* The result of the call is written to t->io. *)
Done(t, res) == io' = [io EXCEPT ![t] = [op |-> io[t].op, done_n |-> res, io_done |-> TRUE]]

(* A variant in which the entry of a failed io_uring_submit is dropped. *)
SubmitDrop(t) ==
  LET r == sched_id[t]
  IN
  /\ At(t, "submit") /\ r \in Ring
  /\ Len(sq[r]) < Depth
  /\ wait_q' = wait_q \cup {t}
  /\ \/ /\ sq' = [sq EXCEPT ![r] = <<>>]
        /\ inflight' = [inflight EXCEPT ![r] = @ \o Append(sq[r], t)]
        /\ Goto(t, "yield")
        /\ UNCHANGED <<io, fails>>
     \/ /\ fails < MaxFails
        /\ fails' = fails + 1
        /\ Done(t, "error")
        /\ Goto(t, IF io[t].op = "file_read" THEN "yield" ELSE "user")
        /\ UNCHANGED <<sq, inflight>>
  /\ UNCHANGED <<rtVars, cq, seen>>

(* An entry is prepared and the task queued on wait_q; io_uring_submit     *)
(* passes a prefix of the queue to the kernel or fails and passes none.    *)
(* On failure async_file_read yields like a success, the others return.    *)
Submit(t) ==
  LET r == sched_id[t]
      q == Append(sq[r], t)
  IN
  /\ At(t, "submit") /\ r \in Ring
  /\ Len(sq[r]) < Depth
  /\ wait_q' = wait_q \cup {t}
  /\ \/ \E n \in 1 .. Len(q) :
          /\ sq' = [sq EXCEPT ![r] = SubSeq(q, n + 1, Len(q))]
          /\ inflight' = [inflight EXCEPT ![r] = @ \o SubSeq(q, 1, n)]
          /\ Goto(t, "yield")
          /\ UNCHANGED <<io, fails>>
     \/ /\ fails < MaxFails
        /\ fails' = fails + 1
        /\ sq' = [sq EXCEPT ![r] = q]
        /\ Done(t, "error")
        /\ Goto(t, IF io[t].op = "file_read" THEN "yield" ELSE "user")
        /\ UNCHANGED inflight
  /\ UNCHANGED <<rtVars, cq, seen>>

Yield(t) ==
  /\ At(t, "yield")
  /\ TaskYield(t)
  /\ Goto(t, "resume")
  /\ UNCHANGED <<ready_q, preempt, io, wait_q, ringVars, seen>>

(* Back from task_yield: the call returns what done_n says; t->io is       *)
(* written again before it is read.                                        *)
Resume(t) ==
  /\ At(t, "resume")
  /\ Goto(t, "user")
  /\ io' = [io EXCEPT ![t] = Fresh("other")]
  /\ UNCHANGED <<rtVars, wait_q, ringVars, seen>>

(* The task function returns. *)
Finish(t) ==
  /\ At(t, "user")
  /\ TaskYield(t)
  /\ Goto(t, "done")
  /\ UNCHANGED <<ready_q, preempt, io, wait_q, ringVars, seen>>
-----------------------------------------------------------------------------
(* The kernel finishes a request; requests finish in any order. *)
Completed(q, i) == SubSeq(q, 1, i - 1) \o SubSeq(q, i + 1, Len(q))

KernelComplete(r, t) ==
  /\ \E i \in DOMAIN inflight[r] :
       inflight[r][i] = t /\ inflight' = [inflight EXCEPT ![r] = Completed(@, i)]
  /\ cq' = [cq EXCEPT ![r] = Append(@, t)]
  /\ UNCHANGED <<rtVars, taskVars, sq, seen, fails>>

(* Variant: the worker wakes nobody. *)
WorkerPushNone(r) ==
  /\ seen[r] # NoTask
  /\ seen' = [seen EXCEPT ![r] = NoTask]
  /\ UNCHANGED <<rtVars, taskVars, ringVars>>

(* diskio_worker: the oldest completion is written to t->io and consumed,  *)
WorkerReap(r) ==
  /\ cq[r] # <<>> /\ seen[r] = NoTask
  /\ \E res \in {"bytes", "error"} : Done(Head(cq[r]), res)
  /\ cq' = [cq EXCEPT ![r] = Tail(@)]
  /\ seen' = [seen EXCEPT ![r] = Head(cq[r])]
  /\ UNCHANGED <<rtVars, pc, wait_q, sq, inflight, fails>>

(* and the task is made ready. *)
WorkerPush(r) ==
  /\ seen[r] # NoTask
  /\ MakeReady(seen[r])
  /\ seen' = [seen EXCEPT ![r] = NoTask]
  /\ UNCHANGED <<current, preempt, taskVars, ringVars>>

(* scheduler_run, which takes the task off the wait queue, and the timer.  *)
SchedDispatch(k) ==
  /\ Dispatch(k)
  /\ wait_q' = wait_q \ {Head(ready_q[k])}
  /\ UNCHANGED <<pc, io, ringVars, seen>>

SchedTimer(k) == ForcePreempt(k) /\ UNCHANGED diskVars

Step(t) ==
  \/ SafePoint(t) \/ Call(t) \/ NoSqe(t) \/ Submit(t) \/ Yield(t) \/ Resume(t) \/ Finish(t)

Worker(r) == WorkerReap(r) \/ WorkerPush(r)

Terminated == (\A t \in Task : pc[t] = "done") /\ UNCHANGED vars

Next ==
  \/ \E t \in Task : Step(t)
  \/ \E r \in Ring : Worker(r) \/ \E t \in Task : KernelComplete(r, t)
  \/ \E k \in Thread : SchedDispatch(k) \/ SchedTimer(k)
  \/ Terminated

Spec == Init /\ [][Next]_vars

(* Tasks, kernel threads, the timer and the workers run, and the kernel    *)
(* completes every request.                                                *)
Fairness ==
  /\ \A t \in Task : WF_vars(Step(t))
  /\ \A r \in Ring : WF_vars(Worker(r)) /\ \A t \in Task : WF_vars(KernelComplete(r, t))
  /\ \A k \in Thread : WF_vars(SchedDispatch(k)) /\ WF_vars(SchedTimer(k))

FairSpec == Spec /\ Fairness
-----------------------------------------------------------------------------
TypeOK ==
  /\ RtTypeOK
  /\ pc \in [Task -> {"user", "call", "submit", "yield", "resume", "done"}]
  /\ io \in [Task -> [op : Op, done_n : {"zero", "bytes", "error"}, io_done : BOOLEAN]]
  /\ wait_q \subseteq Task
  /\ {sq, inflight, cq} \subseteq [Ring -> Seq(Task)]
  /\ seen \in [Ring -> Task \cup {NoTask}]
  /\ fails \in 0 .. MaxFails

Occurs(t, q) == Cardinality({i \in DOMAIN q : q[i] = t})

(* The number of things that will, in the end, resume t. *)
Wakers(t) ==
  LET r == sched_id[t]
  IN Occurs(t, sq[r]) + Occurs(t, inflight[r]) + Occurs(t, cq[r])
       + (IF seen[r] = t THEN 1 ELSE 0) + Occurs(t, ready_q[r])

(* The task has handed its request over and has not been resumed. *)
Pending(t) == pc[t] = "yield" \/ (pc[t] = "resume" /\ ~Running(t))

(* A task waits for exactly one thing, and is woken by nothing else: as    *)
(* long as no submission has failed there is one trace of its request in   *)
(* ring, worker and ready queue together, and none while it runs, so that  *)
(* it is neither left asleep nor resumed by an earlier request.            *)
OneWaker ==
  fails = 0 => \A t \in Task : sched_id[t] \in Ring =>
    /\ Pending(t) => Wakers(t) = 1
    /\ Running(t) /\ ~Pending(t) => Wakers(t) = 0

(* Every asynchronous call returns, unless a submission fails. *)
CallReturns ==
  \A t \in Task : pc[t] \in {"submit", "yield", "resume"} ~> (pc[t] = "user" \/ fails > 0)

(* Whatever io_uring_submit does, a task that waits for a completion has   *)
(* one coming to it, its own or that of a call that failed; a task is left *)
(* outside every queue only when it found a submission queue that failed   *)
(* calls have filled.  While none has failed it has exactly one.           *)
StrandedOnlyByFailure ==
  /\ TypeOK /\ OneWaker
  /\ \A t \in Task :
       sched_id[t] \in Ring /\ pc[t] # "done" /\ ~Running(t) /\ Wakers(t) = 0 =>
         pc[t] = "submit" /\ fails >= Depth
=============================================================================
