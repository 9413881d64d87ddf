----------------------------- MODULE WaitGroup -----------------------------
(***************************************************************************)
(* The wait group of runtime/src/sync.c: an atomic counter and a queue of  *)
(* waiting tasks guarded by a pthread mutex.  owed is the tasks on whose   *)
(* behalf add was called and that have still to call done.  Programs keep  *)
(* to the usual discipline: a task calls done only if it owes one (so the  *)
(* assertion on a negative counter cannot fire), and one that owes a done  *)
(* neither waits nor returns before it.                                    *)
(***************************************************************************)
EXTENDS WaitQueue, Integers, FiniteSets

ASSUME FiniteTasks == IsFiniteSet(Task)

VARIABLES owed,
          count          \* wg->count

wgVars == <<pc, owed, count, lock, waiters>>
groupVars == <<rtVars, wgVars>>

UserPc == {"out", "call", "done"}
WakePc == {"wake_lock", "wake"}
WaitPc == {"wait", "wait_lock", "wait_check", "wait_push", "wait_yield"}
GroupPc == UserPc \cup WakePc \cup WaitPc

GroupInit ==
  /\ RtInit
  /\ pc = [t \in Task |-> "out"]
  /\ owed = {}
  /\ count = 0
  /\ lock = NoTask
  /\ waiters = <<>>

(* The safepoint generated before each call. *)
GroupSafePoint(t) ==
  /\ At(t, "out")
  /\ SelfYield(t)
  /\ Goto(t, "call")
  /\ UNCHANGED <<owed, count, lock, waiters>>

(* waitgroup_add with a positive delta, one for each task of S. *)
Add(t, S) ==
  /\ At(t, "call")
  /\ S # {} /\ S \cap owed = {}
  /\ \A u \in S : pc[u] \in {"out", "call"}
  /\ count' = count + Cardinality(S)
  /\ owed' = owed \cup S
  /\ Goto(t, "out")
  /\ UNCHANGED <<rtVars, lock, waiters>>

(* waitgroup_done: the fetch_add of -1, and on zero the way to wg->lock. *)
Done(t) ==
  /\ At(t, "call")
  /\ t \in owed
  /\ count' = count - 1
  /\ owed' = owed \ {t}
  /\ Goto(t, IF count - 1 = 0 THEN "wake_lock" ELSE "out")
  /\ UNCHANGED <<rtVars, lock, waiters>>

Enter(t, here, next) ==
  /\ At(t, here)
  /\ lock = NoTask
  /\ lock' = t
  /\ Goto(t, next)
  /\ UNCHANGED <<rtVars, owed, count, waiters>>

DoneLock(t) == Enter(t, "wake_lock", "wake")
(* Variant: waiters are popped and not made ready. *)
WakeDrop(t) ==
  /\ At(t, "wake")
  /\ waiters' = <<>>
  /\ lock' = NoTask
  /\ Goto(t, "out")
  /\ UNCHANGED <<rtVars, owed, count>>

(* One turn of the loop that pops and wakes every waiter. *)
Wake(t) ==
  /\ At(t, "wake")
  /\ \/ /\ waiters # <<>>
        /\ MakeReady(Head(waiters))
        /\ waiters' = Tail(waiters)
        /\ UNCHANGED <<pc, lock>>
     \/ /\ waiters = <<>>
        /\ lock' = NoTask
        /\ Goto(t, "out")
        /\ UNCHANGED <<ready_q, waiters>>
  /\ UNCHANGED <<current, preempt, owed, count>>

Wait(t) ==
  /\ At(t, "call")
  /\ t \notin owed
  /\ Goto(t, "wait")
  /\ UNCHANGED <<rtVars, owed, count, lock, waiters>>
(* Variant: an off-by-one in the test of the counter. *)
WaitFastEarly(t) ==
  /\ At(t, "wait")
  /\ Goto(t, IF count <= 1 THEN "out" ELSE "wait_lock")
  /\ UNCHANGED <<rtVars, owed, count, lock, waiters>>

(* The first load of the counter. *)
WaitFast(t) ==
  /\ At(t, "wait")
  /\ Goto(t, IF count = 0 THEN "out" ELSE "wait_lock")
  /\ UNCHANGED <<rtVars, owed, count, lock, waiters>>

WaitLock(t) == Enter(t, "wait_lock", "wait_check")
(* Variant: no second look at the counter. *)
WaitCheckNone(t) ==
  /\ At(t, "wait_check")
  /\ Goto(t, "wait_push")
  /\ UNCHANGED <<rtVars, owed, count, lock, waiters>>

(* The second load, under wg->lock. *)
WaitCheck(t) ==
  /\ At(t, "wait_check")
  /\ \/ count = 0 /\ lock' = NoTask /\ Goto(t, "out")
     \/ count # 0 /\ UNCHANGED lock /\ Goto(t, "wait_push")
  /\ UNCHANGED <<rtVars, owed, count, waiters>>

WaitPush(t) ==
  /\ At(t, "wait_push")
  /\ waiters' = Append(waiters, t)
  /\ lock' = NoTask
  /\ Goto(t, "wait_yield")
  /\ UNCHANGED <<rtVars, owed, count>>

WaitYield(t) ==
  /\ At(t, "wait_yield")
  /\ TaskYield(t)
  /\ Goto(t, "wait")
  /\ UNCHANGED <<ready_q, preempt, owed, count, lock, waiters>>

(* A task returns only after the done it owes. *)
GroupReturn(t) ==
  /\ At(t, "out")
  /\ t \notin owed
  /\ TaskYield(t)
  /\ Goto(t, "done")
  /\ UNCHANGED <<ready_q, preempt, owed, count, lock, waiters>>

GroupStep(t) ==
  \/ GroupSafePoint(t) \/ (\E S \in SUBSET Task : Add(t, S)) \/ Done(t)
  \/ DoneLock(t) \/ Wake(t) \/ Wait(t) \/ WaitFast(t) \/ WaitLock(t)
  \/ WaitCheck(t) \/ WaitPush(t) \/ WaitYield(t) \/ GroupReturn(t)

GroupSched(k) == (Dispatch(k) \/ ForcePreempt(k)) /\ UNCHANGED wgVars

GroupEnds == (\A t \in Task : pc[t] = "done") /\ UNCHANGED groupVars

GroupNext ==
  \/ \E t \in Task : GroupStep(t)
  \/ \E k \in Thread : GroupSched(k)
  \/ GroupEnds

GroupSpec == GroupInit /\ [][GroupNext]_groupVars

(* A running task executes its instructions, a kernel thread with ready    *)
(* tasks runs one, and the timer keeps ticking.                            *)
GroupFairness ==
  /\ \A t \in Task : WF_groupVars(GroupStep(t))
  /\ \A k \in Thread : /\ WF_groupVars(Dispatch(k) /\ UNCHANGED wgVars)
                       /\ WF_groupVars(ForcePreempt(k) /\ UNCHANGED wgVars)

FairGroupSpec == GroupSpec /\ GroupFairness
-----------------------------------------------------------------------------
GroupTypeOK ==
  /\ RtTypeOK
  /\ pc \in [Task -> GroupPc]
  /\ owed \subseteq Task
  /\ count \in Nat
  /\ lock \in Task \cup {NoTask}
  /\ waiters \in Seq(Task)

(* No task is lost and none is resumed twice: a task that is not finished  *)
(* is running, ready or in wg->waiters, in one of them only, except that a *)
(* task on its way to task_yield is already queued.                        *)
EveryWaiterSomewhere ==
  \A t \in Task :
    /\ pc[t] = "done" \/ Running(t) \/ Ready(t) \/ Asleep(t)
    /\ ~(Ready(t) /\ Asleep(t))
    /\ Running(t) /\ (Ready(t) \/ Asleep(t)) <=> pc[t] = "wait_yield"

(* No lost wakeup: tasks sleep in wg->waiters with the counter at zero     *)
(* only while a task whose done reached zero is still on its way to empty  *)
(* the queue.  It needs the second load under wg->lock.                    *)
NoWaiterLeft ==
  waiters # <<>> /\ count = 0 => \E t \in Task : pc[t] \in WakePc

(* What keeps them true: wg->lock is held by the task between its          *)
(* pthread_mutex_lock and unlock and by no other, the counter is the number *)
(* of dones still owed, and a task that has checked the counter and is     *)
(* about to queue itself counts as queued already.                         *)
GuardedPc == {"wake", "wait_check", "wait_push"}

GroupInv ==
  /\ GroupTypeOK
  /\ Pinned
  /\ NoDups(waiters)
  /\ EveryWaiterSomewhere
  /\ \A t \in Task : pc[t] \in GuardedPc <=> lock = t
  /\ count = Cardinality(owed)
  /\ count = 0 /\ (waiters # <<>> \/ \E t \in Task : pc[t] = "wait_push")
       => \E t \in Task : pc[t] \in WakePc

Waiting == {t \in Task : pc[t] \in WaitPc}

Abs == INSTANCE WaitGroupAbs WITH pending <- owed, waiting <- Waiting

(* The wait group keeps its promise: wait returns only when every task     *)
(* added for has called done, and returns if that stays so.                *)
Promise == Abs!Spec
=============================================================================
