----------------------------- MODULE SyncProofs -----------------------------
(***************************************************************************)
(* Proofs about the task mutex and the wait group, for any number of tasks *)
(* and threads.  The inductive invariant of the mutex has three parts:     *)
(* where each task is (Places), what the pthread mutex and the state word  *)
(* say of the tasks (Words), and that sleepers have a waker (Waking).      *)
(***************************************************************************)
EXTENDS Mutex, WaitGroup, TaskRuntimeProofs, FiniteSetTheorems

Places == RtInv /\ TypeOK /\ NoDups(waiters) /\ EveryTaskSomewhere

(* mtx->lock is owned by the task inside it.  A word of 1 has a holder,    *)
(* and so has the task that found it so and is about to queue itself.      *)
(* Until a store overtakes, a held mutex has one holder and a word of 1.   *)
LockedPc == {"lock_check", "lock_store", "lock_push", "un_store", "un_pop"}
Words ==
  /\ \A t \in Task : pc[t] \in LockedPc <=> lock = t
  /\ state = 1 \/ (\E t \in Task : pc[t] = "lock_push") => \E t \in Task : Holds(t)
  /\ ~overtaken /\ (\E t \in Task : Holds(t)) => state = 1
  /\ overtaken \/ MutualExclusion

(* A sleeper is in the slow path, and someone will pop the queue. *)
Waker(t) == Holds(t) \/ pc[t] = "un_pop" \/ (pc[t] \in LockPc /\ ~Asleep(t))
Waking ==
  /\ \A t \in Task : Asleep(t) => pc[t] \in {"lock_yield", "lock_slow"}
  /\ waiters # <<>> => \E t \in Task : Waker(t)

IInv == Places /\ Words /\ Waking

(* The steps of a running task that touch neither queue. *)
Local(t) ==
  /\ Running(t) /\ pc[t] # "lock_yield"
  /\ \E l \in Pc \ {"done", "lock_yield"} : pc' = [pc EXCEPT ![t] = l]
  /\ UNCHANGED <<rtVars, waiters>>

USE DEF OutPc, LockPc, HoldPc, Pc

LEMMA InitPlaces == Init => Places
<1> SUFFICES ASSUME Init PROVE Places
  OBVIOUS
<1>1. RtInv /\ \A t \in Task : Ready(t) /\ ~Running(t)
  BY BootRt DEF Init
<1>2. waiters = <<>> /\ waiters \in Seq(Task) /\ Range(waiters) = {} /\ NoDups(waiters)
  BY NewQueue DEF Init
<1>3. overtaken \in BOOLEAN
  BY ZenonT(60) DEF Init
<1>4. TypeOK
  BY <1>1, <1>2, <1>3 DEF Init, TypeOK, RtInv
<1>5. \A t \in Task : pc[t] = "out"
  BY DEF Init
<1> QED BY <1>1, <1>2, <1>4, <1>5 DEF Places, EveryTaskSomewhere, Asleep

LEMMA LocalPlaces ==
  ASSUME Places, TypeOK', NEW t \in Task, Local(t)
  PROVE  Places' /\ \A u \in Task : Asleep(u)' <=> Asleep(u)
<1>1. RtInv' /\ \A u \in Task : (Running(u)' <=> Running(u)) /\ (Ready(u)' <=> Ready(u))
  BY IdleRt DEF Places, Local
<1>2. waiters' = waiters /\ \A u \in Task : Asleep(u)' <=> Asleep(u)
  BY DEF Local, Asleep
<1>3. /\ pc'[t] \notin {"done", "lock_yield"} /\ Running(t) /\ ~Ready(t) /\ ~Asleep(t)
      /\ \A u \in Task \ {t} : pc'[u] = pc[u]
  BY DEF Local, Places, TypeOK, EveryTaskSomewhere
<1>4. EveryTaskSomewhere'
  BY <1>1, <1>2, <1>3 DEF Places, EveryTaskSomewhere
<1> QED BY <1>1, <1>2, <1>4 DEF Places

LEMMA SafePointPlaces ==
  ASSUME Places, NEW t \in Task, SafePoint(t)
  PROVE  Places'
<1>1. Running(t) /\ pc[t] \in {"out", "in"} /\ ~Ready(t) /\ ~Asleep(t)
  BY DEF SafePoint, At, Places, EveryTaskSomewhere
<1>2. /\ RtInv'
      /\ Running(t)' <=> ~Ready(t)'
      /\ \A u \in Task \ {t} : (Running(u)' <=> Running(u)) /\ (Ready(u)' <=> Ready(u))
  BY <1>1, SelfYieldRt DEF SafePoint, Places
<1>3. /\ TypeOK' /\ pc'[t] \in {"out_call", "in_call"}
      /\ \A u \in Task \ {t} : pc'[u] = pc[u]
  BY <1>2 DEF SafePoint, At, Goto, Places, TypeOK, RtInv, wordVars
<1>4. waiters' = waiters /\ \A u \in Task : Asleep(u)' <=> Asleep(u)
  BY DEF SafePoint, Asleep
<1>5. EveryTaskSomewhere'
  BY <1>1, <1>2, <1>3, <1>4, SMTT(30), Z3T(30) DEF Places, EveryTaskSomewhere
<1> QED BY <1>2, <1>3, <1>4, <1>5 DEF Places

LEMMA LockPushPlaces ==
  ASSUME Places, NEW t \in Task, LockPush(t)
  PROVE  /\ Places' /\ Asleep(t)' /\ \A u \in Task \ {t} : Asleep(u)' <=> Asleep(u)
<1>1. Running(t) /\ pc[t] = "lock_push" /\ ~Ready(t) /\ ~Asleep(t)
  BY DEF LockPush, At, Places, EveryTaskSomewhere
<1>2. /\ waiters' \in Seq(Task) /\ Range(waiters') = Range(waiters) \cup {t}
      /\ NoDups(waiters')
  BY <1>1, PushMembers, PushNoDups, SMTT(30), Z3T(30) DEF LockPush, Places, TypeOK, Asleep
<1>3. Asleep(t)' /\ \A u \in Task \ {t} : Asleep(u)' <=> Asleep(u)
  BY <1>2 DEF Asleep
<1>4. RtInv' /\ \A u \in Task : (Running(u)' <=> Running(u)) /\ (Ready(u)' <=> Ready(u))
  BY IdleRt DEF Places, LockPush
<1>5. TypeOK' /\ pc'[t] = "lock_yield" /\ \A u \in Task \ {t} : pc'[u] = pc[u]
  BY <1>2, <1>4 DEF LockPush, Goto, Places, TypeOK, RtInv, wordVars
<1>6. EveryTaskSomewhere'
  BY <1>1, <1>3, <1>4, <1>5, SMTT(30), Z3T(30) DEF Places, EveryTaskSomewhere
<1> QED BY <1>2, <1>3, <1>4, <1>5, <1>6, SMTT(30), Z3T(30) DEF Places

(* task_yield by a task that sleeps or was woken already, or is finished. *)
LEMMA YieldPlaces ==
  ASSUME Places, NEW t \in Task, LockYield(t) \/ Finish(t)
  PROVE  Places' /\ waiters' = waiters
<1>1. Running(t) /\ (pc[t] = "lock_yield" => Ready(t) \/ Asleep(t))
  BY DEF LockYield, Finish, At, Places, EveryTaskSomewhere
<1>2. /\ RtInv' /\ ~Running(t)'
      /\ \A u \in Task \ {t} : Running(u)' <=> Running(u)
      /\ \A u \in Task : Ready(u)' <=> Ready(u)
  BY <1>1, YieldRt, SMTT(30), Z3T(30) DEF LockYield, Finish, Places
<1>3. /\ TypeOK' /\ \A u \in Task \ {t} : pc'[u] = pc[u]
      /\ pc'[t] = "done" \/ (pc[t] = "lock_yield" /\ pc'[t] = "lock_slow")
  BY <1>2, SMTT(30), Z3T(30) DEF LockYield, Finish, At, Goto, Places, TypeOK, RtInv, wordVars
<1>4. waiters' = waiters /\ \A u \in Task : Asleep(u)' <=> Asleep(u)
  BY DEF LockYield, Finish, Asleep
<1>5. EveryTaskSomewhere'
  BY <1>1, <1>2, <1>3, <1>4 DEF Places, EveryTaskSomewhere
<1> QED BY <1>2, <1>3, <1>4, <1>5, SMTT(30), Z3T(30) DEF Places

LEMMA UnlockPopPlaces ==
  ASSUME Places, NEW t \in Task, UnlockPop(t), waiters # <<>>
  PROVE  /\ Places'
         /\ \E u \in Task : /\ Asleep(u) /\ ~Asleep(u)'
                            /\ \A v \in Task \ {u} : Asleep(v)' <=> Asleep(v)
<1>0. /\ MakeReady(Head(waiters)) /\ waiters' = Tail(waiters)
      /\ UNCHANGED <<current, preempt>>
  BY DEF UnlockPop
<1>1. PICK u \in Task : u = Head(waiters)
  BY PopMembers DEF Places, TypeOK
<1>2. /\ u \in Range(waiters) /\ Tail(waiters) \in Seq(Task)
      /\ Range(Tail(waiters)) = Range(waiters) \ {u} /\ NoDups(Tail(waiters))
  BY <1>1, PopMembers, SMTT(30), Z3T(30) DEF Places, TypeOK
<1>3. ~Ready(u) /\ Asleep(u) /\ ~Asleep(u)' /\ \A v \in Task \ {u} : Asleep(v)' <=> Asleep(v)
  BY <1>0, <1>2, SMTT(30), Z3T(30) DEF Places, EveryTaskSomewhere, Asleep
<1>4. /\ RtInv' /\ Ready(u)'
      /\ \A v \in Task \ {u} : Ready(v)' <=> Ready(v)
      /\ \A v \in Task : Running(v)' <=> Running(v)
  BY <1>0, <1>1, <1>3, MakeReadyRt, SMTT(30), Z3T(30) DEF Places
<1>5. /\ TypeOK' /\ NoDups(waiters)' /\ pc[t] = "un_pop" /\ pc'[t] = "out" /\ Running(t)
      /\ \A v \in Task \ {t} : pc'[v] = pc[v]
  BY <1>0, <1>2, <1>4, SMTT(30), Z3T(30) DEF UnlockPop, At, Goto, Places, TypeOK, RtInv, wordVars
<1>6. u # t
  BY <1>3, <1>5, SMTT(30), Z3T(30) DEF Places, EveryTaskSomewhere
<1>7. EveryTaskSomewhere'
  BY <1>3, <1>4, <1>5, <1>6, SMTT(30), Z3T(30) DEF Places, EveryTaskSomewhere
<1> QED BY <1>3, <1>4, <1>5, <1>7, SMTT(30), Z3T(30) DEF Places

LEMMA SchedPlaces ==
  ASSUME Places, NEW k \in Thread, Sched(k)
  PROVE  Places'
<1>0. UNCHANGED mutexVars
  BY DEF Sched
<1>1. waiters' = waiters /\ pc' = pc /\ \A u \in Task : Asleep(u)' <=> Asleep(u)
  BY <1>0 DEF mutexVars, Asleep
<1>2. CASE Dispatch(k)
  <2>1. RtInv'
    BY <1>2, DispatchRt, SMTT(30), Z3T(30) DEF Places
  <2>2. PICK u \in Task :
          /\ Ready(u) /\ ~Running(u) /\ ~Ready(u)' /\ Running(u)'
          /\ \A v \in Task \ {u} : (Running(v)' <=> Running(v)) /\ (Ready(v)' <=> Ready(v))
    BY <1>2, DispatchRt, SMTT(30), Z3T(30) DEF Places
  <2>3. pc[u] # "lock_yield" /\ ~Asleep(u)
    BY <2>2, SMTT(30), Z3T(30) DEF Places, EveryTaskSomewhere
  <2>4. EveryTaskSomewhere'
    BY <1>1, <2>2, <2>3, SMTT(30), Z3T(30) DEF Places, EveryTaskSomewhere
  <2>5. TypeOK'
    BY <1>0, <2>1, SMTT(30), Z3T(30) DEF mutexVars, wordVars, Places, TypeOK, RtInv
  <2> QED BY <1>1, <2>1, <2>4, <2>5, SMTT(30), Z3T(30) DEF Places
<1>3. CASE ForcePreempt(k)
  <2>1. RtInv' /\ \A u \in Task : (Running(u)' <=> Running(u)) /\ (Ready(u)' <=> Ready(u))
    BY <1>3, ForcePreemptRt, SMTT(30), Z3T(30) DEF Places
  <2>2. EveryTaskSomewhere'
    BY <1>1, <2>1, SMTT(30), Z3T(30) DEF Places, EveryTaskSomewhere
  <2>3. TypeOK'
    BY <1>0, <2>1, SMTT(30), Z3T(30) DEF mutexVars, wordVars, Places, TypeOK, RtInv
  <2> QED BY <1>1, <2>1, <2>2, <2>3, SMTT(30), Z3T(30) DEF Places
<1> QED BY <1>2, <1>3, SMTT(30), Z3T(30) DEF Sched
-----------------------------------------------------------------------------
(* A step of t between two places outside the queues, which changes none of *)
(* the words, keeps what they say; so does leaving mtx->lock.               *)
LEMMA SleepersKeep ==
  ASSUME IInv, NEW t \in Task, NEW l \in Pc, Goto(t, l), ~Asleep(t), waiters' = waiters,
         Waker(t) => l \in HoldPc \/ l = "un_pop" \/ l \in LockPc \/ waiters = <<>>
  PROVE  Waking'
<1>1. /\ pc'[t] = l /\ \A u \in Task \ {t} : pc'[u] = pc[u]
      /\ \A u \in Task : Asleep(u)' <=> Asleep(u)
  BY SMTT(30), Z3T(30) DEF Goto, IInv, Places, TypeOK, Asleep
<1>2. \A u \in Task : Asleep(u)' => pc'[u] \in {"lock_yield", "lock_slow"}
  BY <1>1, SMTT(30), Z3T(30) DEF IInv, Waking
<1>3. ASSUME waiters' # <<>> PROVE \E u \in Task : Waker(u)'
  <2>1. PICK u \in Task : Waker(u)
    BY <1>3, SMTT(30), Z3T(30) DEF IInv, Waking
  <2>2. CASE u = t
    BY <1>1, <1>3, <2>1, <2>2, SMTT(30), Z3T(30) DEF Waker, Holds
  <2>3. CASE u # t
    BY <1>1, <2>1, <2>3, SMTT(30), Z3T(30) DEF Waker, Holds
  <2> QED BY <2>2, <2>3, SMTT(30), Z3T(30)
<1> QED BY <1>2, <1>3, SMTT(30), Z3T(30) DEF Waking

LEMMA StepInv ==
  ASSUME IInv, NEW t \in Task, Step(t)
  PROVE  IInv'
<1>0. Places /\ Words /\ Waking /\ TypeOK /\ pc \in [Task -> Pc] /\ t # NoTask
  BY SchedAssumption, SMTT(30), Z3T(30) DEF IInv, Places, TypeOK
<1> USE <1>0
<1>a. Running(t) /\ (pc[t] # "lock_yield" => ~Asleep(t))
  BY DEF Step, SafePoint, LockFast, LockEnter, LockCheck, LockStore, LockPush, LockYield,
         UnlockEnter, UnlockStore, UnlockPop, Finish, At, Places, EveryTaskSomewhere
<1>1. CASE SafePoint(t)
  <2>1. PICK l \in {"out_call", "in_call"} :
          Goto(t, l) /\ pc[t] = (IF l = "in_call" THEN "in" ELSE "out")
    BY <1>1, SMTT(30), Z3T(30) DEF SafePoint, At
  <2>2. Words'
    BY <1>1, <2>1, SMTT(30), Z3T(30) DEF SafePoint, Goto, Words, LockedPc, Holds, MutualExclusion, wordVars
  <2>3. Waking'
    BY <1>1, <1>a, <2>1, SleepersKeep, SMTT(30), Z3T(30) DEF SafePoint, Waker, Holds
  <2> QED BY <1>1, <2>2, <2>3, SafePointPlaces, SMTT(30), Z3T(30) DEF IInv
<1>2. CASE LockFast(t)
  <2>1. PICK l \in {"in", "lock_slow"} :
          /\ Goto(t, l) /\ pc[t] = "out_call" /\ UNCHANGED <<rtVars, lock, waiters, overtaken>>
          /\ \/ l = "in" /\ state = 0 /\ state' = 1
             \/ l = "lock_slow" /\ state' = state
    BY <1>2, SMTT(30), Z3T(30) DEF LockFast, At
  <2>2. TypeOK' /\ Local(t)
    BY <1>a, <2>1, ZenonT(60) DEF Goto, TypeOK, RtTypeOK, rtVars, Local
  <2>3. Words'
    BY <2>1, SMTT(30), Z3T(30) DEF Goto, Words, LockedPc, Holds, MutualExclusion, TypeOK
  <2>4. Waking'
    BY <1>a, <2>1, SleepersKeep, SMTT(30), Z3T(30) DEF Waker, Holds
  <2> QED BY <2>2, <2>3, <2>4, LocalPlaces, SMTT(30), Z3T(30) DEF IInv
<1>3. CASE LockEnter(t) \/ UnlockEnter(t)
  <2>1. PICK l \in {"lock_check", "un_store"} :
          /\ Goto(t, l) /\ pc[t] = (IF l = "un_store" THEN "in_call" ELSE "lock_slow")
          /\ lock = NoTask /\ lock' = t /\ UNCHANGED <<rtVars, wordVars, waiters>>
    BY <1>3 DEF LockEnter, UnlockEnter, At
  <2>2. TypeOK' /\ Local(t)
    BY <1>a, <2>1, ZenonT(60) DEF Goto, TypeOK, RtTypeOK, rtVars, wordVars, Local
  <2>3. Words'
    BY <2>1, SchedAssumption, SMTT(30), Z3T(30) DEF Goto, Words, LockedPc, Holds, MutualExclusion, wordVars
  <2>4. Waking'
    BY <1>a, <2>1, SleepersKeep, SMTT(30), Z3T(30) DEF Waker, Holds
  <2> QED BY <2>2, <2>3, <2>4, LocalPlaces, SMTT(30), Z3T(30) DEF IInv
<1>4. CASE LockCheck(t)
  <2>1. PICK l \in {"lock_store", "lock_push"} :
          /\ Goto(t, l) /\ pc[t] = "lock_check" /\ (l = "lock_push" => state # 0)
          /\ UNCHANGED <<rtVars, wordVars, lock, waiters>>
    BY <1>4 DEF LockCheck, At
  <2>2. TypeOK' /\ Local(t)
    BY <1>a, <2>1, ZenonT(60) DEF Goto, TypeOK, RtTypeOK, rtVars, wordVars, Local
  <2>3. Words'
    BY <2>1, SMTT(30), Z3T(30) DEF Goto, Words, LockedPc, Holds, MutualExclusion, wordVars, TypeOK
  <2>4. Waking'
    BY <1>a, <2>1, SleepersKeep, SMTT(30), Z3T(30) DEF Waker, Holds
  <2> QED BY <2>2, <2>3, <2>4, LocalPlaces, SMTT(30), Z3T(30) DEF IInv
<1>5. CASE LockStore(t)
  <2>1. /\ Goto(t, "in") /\ pc[t] = "lock_store" /\ state' = 1 /\ lock' = NoTask
        /\ overtaken' = (overtaken \/ state = 1) /\ UNCHANGED <<rtVars, waiters>>
    BY <1>5 DEF LockStore, At
  <2>2. overtaken' \in BOOLEAN
    BY <2>1
  <2>3. TypeOK' /\ Local(t)
    BY <1>a, <2>1, <2>2, ZenonT(60) DEF Goto, TypeOK, RtTypeOK, rtVars, Local
  <2>4. Words'
    <3>1. \A u \in Task : pc'[u] \in LockedPc <=> lock' = u
      BY <2>1, SchedAssumption, SMTT(30), Z3T(30) DEF Goto, Words, LockedPc
    <3>2. pc'[t] = "in" /\ \A u \in Task \ {t} : pc'[u] = pc[u]
      BY <2>1 DEF Goto
    <3>3. ASSUME ~overtaken' PROVE MutualExclusion'
      <4>1. ~overtaken /\ state = 0
        BY <2>1, <3>3, ZenonT(60) DEF TypeOK
      <4>2. \A u \in Task : ~Holds(u)
        BY <4>1, SMTT(30), Z3T(30) DEF Words
      <4> QED BY <3>2, <4>2, SMTT(30), Z3T(30) DEF MutualExclusion, Holds
    <3> QED BY <2>1, <3>1, <3>2, <3>3, SMTT(30), Z3T(30) DEF Words, Holds
  <2>5. Waking'
    BY <1>a, <2>1, SleepersKeep, SMTT(30), Z3T(30) DEF Waker, Holds
  <2> QED BY <2>3, <2>4, <2>5, LocalPlaces, SMTT(30), Z3T(30) DEF IInv
<1>6. CASE LockPush(t)
  <2>1. /\ Goto(t, "lock_yield") /\ pc[t] = "lock_push" /\ lock' = NoTask
        /\ UNCHANGED wordVars
    BY <1>6 DEF LockPush, At
  <2>2. Places' /\ Asleep(t)' /\ \A u \in Task \ {t} : Asleep(u)' <=> Asleep(u)
    BY <1>6, LockPushPlaces, SMTT(30), Z3T(30)
  <2>3. Words'
    BY <2>1, SchedAssumption, SMTT(30), Z3T(30) DEF Goto, Words, LockedPc, Holds, MutualExclusion, wordVars
  <2>4. PICK u \in Task : Holds(u)
    BY <2>1, SMTT(30), Z3T(30) DEF Words
  <2>5. Holds(u)'
    BY <2>1, <2>4, SMTT(30), Z3T(30) DEF Goto, Holds
  <2>6. Waking'
    BY <2>1, <2>2, <2>5, SMTT(30), Z3T(30) DEF Goto, Waking, Waker
  <2> QED BY <2>2, <2>3, <2>6, SMTT(30), Z3T(30) DEF IInv
<1>7. CASE LockYield(t) \/ Finish(t)
  <2>1. PICK l \in {"lock_slow", "done"} :
          /\ Goto(t, l) /\ pc[t] = (IF l = "done" THEN "out" ELSE "lock_yield")
          /\ UNCHANGED <<wordVars, lock, waiters>>
    BY <1>7, SMTT(30), Z3T(30) DEF LockYield, Finish, At
  <2>2. Words'
    BY <2>1, SMTT(30), Z3T(30) DEF Goto, Words, LockedPc, Holds, MutualExclusion, wordVars
  <2>3. Waking'
    <3>1. /\ pc'[t] = l /\ \A u \in Task \ {t} : pc'[u] = pc[u]
          /\ \A u \in Task : Asleep(u)' <=> Asleep(u)
      BY <2>1, SMTT(30), Z3T(30) DEF Goto, Asleep
    <3>2. \A u \in Task : Asleep(u)' => pc'[u] \in {"lock_yield", "lock_slow"}
      BY <2>1, <3>1, SMTT(30), Z3T(30) DEF Waking
    <3>3. \A u \in Task : Waker(u) => Waker(u)'
      BY <2>1, <3>1, SMTT(30), Z3T(30) DEF Waker, Holds
    <3> QED BY <2>1, <3>2, <3>3, SMTT(30), Z3T(30) DEF Waking
  <2> QED BY <1>7, <2>2, <2>3, YieldPlaces, SMTT(30), Z3T(30) DEF IInv
<1>8. CASE UnlockStore(t)
  <2>1. /\ Goto(t, "un_pop") /\ pc[t] = "un_store" /\ state' = 0
        /\ UNCHANGED <<rtVars, lock, waiters, overtaken>>
    BY <1>8, SMTT(30), Z3T(30) DEF UnlockStore, At
  <2>2. TypeOK' /\ Local(t)
    BY <1>a, <2>1, ZenonT(60) DEF Goto, TypeOK, RtTypeOK, rtVars, Local
  <2>3. Words'
    <3>1. pc'[t] = "un_pop" /\ \A u \in Task \ {t} : pc'[u] = pc[u]
      BY <2>1, SMTT(30), Z3T(30) DEF Goto
    <3>2. \A u \in Task : pc'[u] \in LockedPc <=> lock' = u
      BY <2>1, <3>1, SMTT(30), Z3T(30) DEF Words, LockedPc
    <3>3. \A u \in Task : pc'[u] # "lock_push"
      BY <2>1, <3>1, SMTT(30), Z3T(30) DEF Words, LockedPc
    <3>4. ~overtaken' => \A u \in Task : ~Holds(u)'
      BY <2>1, <3>1, SMTT(30), Z3T(30) DEF Words, MutualExclusion, Holds
    <3>5. overtaken' \/ MutualExclusion'
      BY <3>4, SMTT(30), Z3T(30) DEF MutualExclusion
    <3> QED BY <2>1, <3>2, <3>3, <3>4, <3>5, SMTT(30), Z3T(30) DEF Words
  <2>4. Waking'
    BY <1>a, <2>1, SleepersKeep, SMTT(30), Z3T(30) DEF Waker, Holds
  <2> QED BY <2>2, <2>3, <2>4, LocalPlaces DEF IInv
<1>9. CASE UnlockPop(t)
  <2>1. /\ Goto(t, "out") /\ pc[t] = "un_pop" /\ lock' = NoTask /\ UNCHANGED wordVars
    BY <1>9, SMTT(30), Z3T(30) DEF UnlockPop, At
  <2>2. Words'
    BY <2>1, SchedAssumption, SMTT(30), Z3T(30) DEF Goto, Words, LockedPc, Holds, MutualExclusion, wordVars
  <2>3. CASE waiters = <<>>
    <3>1. TypeOK' /\ Local(t) /\ waiters' = waiters
      BY <1>9, <1>a, <2>1, <2>3, ZenonT(60)
      DEF UnlockPop, Goto, TypeOK, RtTypeOK, rtVars, wordVars, Local
    <3>2. Waking'
      BY <1>a, <2>1, <2>3, <3>1, SleepersKeep, SMTT(30), Z3T(30)
    <3> QED BY <2>2, <3>1, <3>2, LocalPlaces, SMTT(30), Z3T(30) DEF IInv
  <2>4. CASE waiters # <<>>
    <3>1. Places'
      BY <1>9, <2>4, UnlockPopPlaces, SMTT(30), Z3T(30)
    <3>2. PICK u \in Task : /\ Asleep(u) /\ ~Asleep(u)'
                            /\ \A v \in Task \ {u} : Asleep(v)' <=> Asleep(v)
      BY <1>9, <2>4, UnlockPopPlaces, SMTT(30), Z3T(30)
    <3>3. u # t /\ pc'[u] = pc[u] /\ pc[u] \in LockPc
      BY <1>a, <2>1, <3>2, SMTT(30), Z3T(30) DEF Goto, Waking
    <3>4. \A v \in Task : Asleep(v)' => pc'[v] \in {"lock_yield", "lock_slow"}
      BY <1>a, <2>1, <3>2, SMTT(30), Z3T(30) DEF Goto, Waking
    <3>5. Waker(u)'
      BY <3>2, <3>3, SMTT(30), Z3T(30) DEF Waker
    <3>6. Waking'
      BY <3>4, <3>5, SMTT(30), Z3T(30) DEF Waking
    <3> QED BY <2>2, <3>1, <3>6, SMTT(30), Z3T(30) DEF IInv
  <2> QED BY <2>3, <2>4, SMTT(30), Z3T(30)
<1> QED BY <1>1, <1>2, <1>3, <1>4, <1>5, <1>6, <1>7, <1>8, <1>9, SMTT(30), Z3T(30) DEF Step

LEMMA NextInv == IInv /\ [Next]_vars => IInv'
<1> SUFFICES ASSUME IInv, [Next]_vars PROVE IInv'
  OBVIOUS
<1>1. CASE \E t \in Task : Step(t)
  BY <1>1, StepInv, SMTT(30), Z3T(30)
<1>2. ASSUME UNCHANGED mutexVars PROVE Words' /\ Waking'
  BY <1>2, SMTT(30), Z3T(30) DEF IInv, mutexVars, wordVars, Words, Waking, Waker, Holds, Asleep, MutualExclusion
<1>3. CASE \E k \in Thread : Sched(k)
  BY <1>2, <1>3, SchedPlaces, SMTT(30), Z3T(30) DEF IInv, Sched
<1>4. CASE UNCHANGED vars
  <2>1. UNCHANGED rtVars /\ UNCHANGED mutexVars
    BY <1>4, SMTT(30), Z3T(30) DEF vars
  <2>2. RtInv' /\ \A u \in Task : (Running(u)' <=> Running(u)) /\ (Ready(u)' <=> Ready(u))
    BY <2>1, IdleRt, SMTT(30), Z3T(30) DEF IInv, Places
  <2>3. Places'
    BY <2>1, <2>2, SMTT(30), Z3T(30)
    DEF IInv, Places, TypeOK, RtInv, EveryTaskSomewhere, Asleep, mutexVars, wordVars
  <2> QED BY <1>2, <2>1, <2>3, SMTT(30), Z3T(30) DEF IInv
<1> QED BY <1>1, <1>3, <1>4, SMTT(30), Z3T(30) DEF Next, Terminated

(* The invariant of the mutex of sync.c holds in every reachable state, for *)
(* any number of tasks and threads and any schedule.                        *)
THEOREM Invariance == Spec => []IInv
<1>1. Init => IInv
  <2> SUFFICES ASSUME Init PROVE IInv
    OBVIOUS
  <2>1. \A t \in Task : pc[t] = "out" /\ lock # t /\ ~Asleep(t)
    BY SchedAssumption, NewQueue, SMTT(30), Z3T(30) DEF Init, Asleep
  <2>2. Words
    BY <2>1, SMTT(30), Z3T(30) DEF Init, Words, LockedPc, Holds, MutualExclusion
  <2>3. Waking
    BY <2>1 DEF Init, Waking
  <2> QED BY <2>2, <2>3, InitPlaces, SMTT(30), Z3T(30) DEF IInv
<1> QED BY <1>1, NextInv, PTL DEF Spec

(* The mutex excludes: until the plain store of the slow path of mutex_lock *)
(* overtakes a fast path, no two tasks hold it.                             *)
THEOREM Excludes == Spec => []ExclusionUnlessOvertaken
<1>1. IInv => ExclusionUnlessOvertaken
  BY SMTT(30), Z3T(30) DEF IInv, Places, Words, ExclusionUnlessOvertaken
<1> QED BY <1>1, Invariance, PTL

(* No task and no wakeup is lost, even after a store has overtaken: while a *)
(* task sleeps in mtx->waiters, some task will come to mutex_unlock's pop.  *)
THEOREM WakeupNotLost == Spec => []NoLostWakeup
<1>1. IInv => NoLostWakeup
  BY DEF IInv, Places, Waking, Waker, NoLostWakeup
<1> QED BY <1>1, Invariance, PTL
-----------------------------------------------------------------------------
(***************************************************************************)
(* The wait group.  The inductive invariant GroupInv is split in two: where *)
(* each task is (GroupPlaces) and what the counter, the lock and the queue  *)
(* say of it.                                                               *)
(***************************************************************************)
HIDE DEF OutPc, LockPc, HoldPc, Pc

GroupPlaces == RtInv /\ GroupTypeOK /\ NoDups(waiters) /\ EveryWaiterSomewhere

(* The steps of a running task that touch neither queue. *)
GroupLocal(t) ==
  /\ Running(t) /\ pc[t] # "wait_yield"
  /\ \E l \in GroupPc \ {"done", "wait_yield"} : pc' = [pc EXCEPT ![t] = l]
  /\ UNCHANGED <<rtVars, waiters>>

USE DEF UserPc, WakePc, WaitPc, GroupPc

(* Zenon proves every step that does not ask for SMT; the limits, and the second call of the SMT *)
(* solver, leave room for slow machines. *)
USE ZenonT(60)

LEMMA GroupInitPlaces == GroupInit => GroupPlaces
<1> SUFFICES ASSUME GroupInit PROVE GroupPlaces
  OBVIOUS
<1>1. RtInv /\ \A t \in Task : Ready(t) /\ ~Running(t)
  BY BootRt DEF GroupInit
<1>2. waiters = <<>> /\ waiters \in Seq(Task) /\ Range(waiters) = {} /\ NoDups(waiters)
  BY NewQueue DEF GroupInit
<1>3. GroupTypeOK
  BY <1>1, <1>2, SchedAssumption DEF GroupInit, GroupTypeOK, RtInv
<1>4. \A t \in Task : pc[t] = "out"
  BY DEF GroupInit
<1> QED BY <1>1, <1>2, <1>3, <1>4 DEF GroupPlaces, EveryWaiterSomewhere, Asleep

LEMMA GroupLocalPlaces ==
  ASSUME GroupPlaces, GroupTypeOK', NEW t \in Task, GroupLocal(t)
  PROVE  GroupPlaces'
<1>1. RtInv' /\ \A u \in Task : (Running(u)' <=> Running(u)) /\ (Ready(u)' <=> Ready(u))
  BY IdleRt DEF GroupPlaces, GroupLocal
<1>2. waiters' = waiters /\ \A u \in Task : Asleep(u)' <=> Asleep(u)
  BY DEF GroupLocal, Asleep
<1>3. /\ pc'[t] \notin {"done", "wait_yield"} /\ Running(t) /\ ~Ready(t) /\ ~Asleep(t)
      /\ \A u \in Task \ {t} : pc'[u] = pc[u]
  BY DEF GroupLocal, GroupPlaces, GroupTypeOK, EveryWaiterSomewhere
<1>4. EveryWaiterSomewhere'
  BY <1>1, <1>2, <1>3 DEF GroupPlaces, EveryWaiterSomewhere
<1> QED BY <1>1, <1>2, <1>4 DEF GroupPlaces

LEMMA GroupSafePointPlaces ==
  ASSUME GroupPlaces, NEW t \in Task, GroupSafePoint(t)
  PROVE  GroupPlaces'
<1>1. Running(t) /\ pc[t] = "out" /\ ~Ready(t) /\ ~Asleep(t)
  BY DEF GroupSafePoint, At, GroupPlaces, EveryWaiterSomewhere
<1>2. /\ RtInv'
      /\ Running(t)' <=> ~Ready(t)'
      /\ \A u \in Task \ {t} : (Running(u)' <=> Running(u)) /\ (Ready(u)' <=> Ready(u))
  BY <1>1, SelfYieldRt DEF GroupSafePoint, GroupPlaces
<1>3. GroupTypeOK' /\ pc'[t] = "call" /\ \A u \in Task \ {t} : pc'[u] = pc[u]
  BY <1>2 DEF GroupSafePoint, Goto, GroupPlaces, GroupTypeOK, RtInv
<1>4. waiters' = waiters /\ \A u \in Task : Asleep(u)' <=> Asleep(u)
  BY DEF GroupSafePoint, Asleep
<1>5. EveryWaiterSomewhere'
  BY <1>1, <1>2, <1>3, <1>4 DEF GroupPlaces, EveryWaiterSomewhere
<1> QED BY <1>2, <1>3, <1>4, <1>5 DEF GroupPlaces

LEMMA WakePlaces ==
  ASSUME GroupPlaces, NEW t \in Task, At(t, "wake"), waiters # <<>>,
         MakeReady(Head(waiters)), waiters' = Tail(waiters),
         UNCHANGED <<pc, lock, current, preempt, owed, count>>
  PROVE  GroupPlaces'
<1>1. PICK u \in Task : u = Head(waiters)
  BY PopMembers DEF GroupPlaces, GroupTypeOK
<1>2. /\ u \in Range(waiters) /\ Tail(waiters) \in Seq(Task)
      /\ Range(Tail(waiters)) = Range(waiters) \ {u} /\ NoDups(Tail(waiters))
  BY <1>1, PopMembers DEF GroupPlaces, GroupTypeOK
<1>3. ~Ready(u) /\ Asleep(u) /\ ~Asleep(u)' /\ \A v \in Task \ {u} : Asleep(v)' <=> Asleep(v)
  BY <1>2 DEF GroupPlaces, EveryWaiterSomewhere, Asleep
<1>4. /\ RtInv' /\ Ready(u)'
      /\ \A v \in Task \ {u} : Ready(v)' <=> Ready(v)
      /\ \A v \in Task : Running(v)' <=> Running(v)
  BY <1>1, <1>3, MakeReadyRt DEF GroupPlaces
<1>5. GroupTypeOK' /\ NoDups(waiters)'
  BY <1>2, <1>4 DEF GroupPlaces, GroupTypeOK, RtInv
<1>6. EveryWaiterSomewhere'
  BY <1>3, <1>4 DEF GroupPlaces, EveryWaiterSomewhere
<1> QED BY <1>4, <1>5, <1>6 DEF GroupPlaces

LEMMA WaitPushPlaces ==
  ASSUME GroupPlaces, NEW t \in Task, WaitPush(t)
  PROVE  GroupPlaces'
<1>1. Running(t) /\ pc[t] = "wait_push" /\ ~Ready(t) /\ ~Asleep(t)
  BY DEF WaitPush, At, GroupPlaces, EveryWaiterSomewhere
<1>2. /\ waiters' \in Seq(Task) /\ Range(waiters') = Range(waiters) \cup {t}
      /\ NoDups(waiters')
  BY <1>1, PushMembers, PushNoDups, SMTT(30), Z3T(30) DEF WaitPush, GroupPlaces, GroupTypeOK, Asleep
<1>3. Asleep(t)' /\ \A u \in Task \ {t} : Asleep(u)' <=> Asleep(u)
  BY <1>2 DEF Asleep
<1>4. RtInv' /\ \A u \in Task : (Running(u)' <=> Running(u)) /\ (Ready(u)' <=> Ready(u))
  BY IdleRt DEF GroupPlaces, WaitPush
<1>5. GroupTypeOK' /\ pc'[t] = "wait_yield" /\ \A u \in Task \ {t} : pc'[u] = pc[u]
  BY <1>2, <1>4 DEF WaitPush, Goto, GroupPlaces, GroupTypeOK, RtInv
<1>6. EveryWaiterSomewhere'
  BY <1>1, <1>3, <1>4, <1>5 DEF GroupPlaces, EveryWaiterSomewhere
<1> QED BY <1>2, <1>4, <1>5, <1>6 DEF GroupPlaces

(* task_yield by a task that waits: it is queued, or was woken already. *)
LEMMA WaitYieldPlaces ==
  ASSUME GroupPlaces, NEW t \in Task, WaitYield(t)
  PROVE  GroupPlaces'
<1>1. Running(t) /\ (Ready(t) \/ Asleep(t))
  BY DEF WaitYield, At, GroupPlaces, EveryWaiterSomewhere
<1>2. /\ RtInv' /\ ~Running(t)'
      /\ \A u \in Task \ {t} : Running(u)' <=> Running(u)
      /\ \A u \in Task : Ready(u)' <=> Ready(u)
  BY <1>1, YieldRt DEF WaitYield, GroupPlaces
<1>3. GroupTypeOK' /\ pc'[t] = "wait" /\ \A u \in Task \ {t} : pc'[u] = pc[u]
  BY <1>2 DEF WaitYield, Goto, GroupPlaces, GroupTypeOK, RtInv
<1>4. waiters' = waiters /\ \A u \in Task : Asleep(u)' <=> Asleep(u)
  BY DEF WaitYield, Asleep
<1>5. EveryWaiterSomewhere'
  BY <1>1, <1>2, <1>3, <1>4 DEF GroupPlaces, EveryWaiterSomewhere
<1> QED BY <1>2, <1>3, <1>4, <1>5 DEF GroupPlaces

LEMMA FinishPlaces ==
  ASSUME GroupPlaces, NEW t \in Task, GroupReturn(t)
  PROVE  GroupPlaces'
<1>1. Running(t)
  BY DEF GroupReturn, At
<1>2. /\ RtInv' /\ ~Running(t)'
      /\ \A u \in Task \ {t} : Running(u)' <=> Running(u)
      /\ \A u \in Task : Ready(u)' <=> Ready(u)
  BY <1>1, YieldRt DEF GroupReturn, GroupPlaces
<1>3. GroupTypeOK' /\ pc'[t] = "done" /\ \A u \in Task \ {t} : pc'[u] = pc[u]
  BY <1>2 DEF GroupReturn, Goto, GroupPlaces, GroupTypeOK, RtInv
<1>4. waiters' = waiters /\ \A u \in Task : Asleep(u)' <=> Asleep(u)
  BY DEF GroupReturn, Asleep
<1>5. EveryWaiterSomewhere'
  BY <1>2, <1>3, <1>4 DEF GroupPlaces, EveryWaiterSomewhere
<1> QED BY <1>2, <1>3, <1>4, <1>5 DEF GroupPlaces

LEMMA GroupSchedPlaces ==
  ASSUME GroupPlaces, NEW k \in Thread, GroupSched(k)
  PROVE  GroupPlaces'
<1>0. UNCHANGED wgVars
  BY DEF GroupSched
<1>1. waiters' = waiters /\ pc' = pc /\ \A u \in Task : Asleep(u)' <=> Asleep(u)
  BY <1>0 DEF wgVars, Asleep
<1>2. CASE Dispatch(k)
  <2>1. RtInv'
    BY <1>2, DispatchRt DEF GroupPlaces
  <2>2. PICK u \in Task :
          /\ Ready(u) /\ ~Running(u) /\ ~Ready(u)' /\ Running(u)'
          /\ \A v \in Task \ {u} : (Running(v)' <=> Running(v)) /\ (Ready(v)' <=> Ready(v))
    BY <1>2, DispatchRt DEF GroupPlaces
  <2>3. pc[u] # "wait_yield" /\ ~Asleep(u)
    BY <2>2 DEF GroupPlaces, EveryWaiterSomewhere
  <2>4. EveryWaiterSomewhere'
    BY <1>1, <2>2, <2>3 DEF GroupPlaces, EveryWaiterSomewhere
  <2>5. GroupTypeOK'
    BY <1>0, <2>1 DEF wgVars, GroupPlaces, GroupTypeOK, RtInv
  <2> QED BY <1>1, <2>1, <2>4, <2>5 DEF GroupPlaces
<1>3. CASE ForcePreempt(k)
  <2>1. RtInv' /\ \A u \in Task : (Running(u)' <=> Running(u)) /\ (Ready(u)' <=> Ready(u))
    BY <1>3, ForcePreemptRt DEF GroupPlaces
  <2>2. EveryWaiterSomewhere'
    BY <1>1, <2>1 DEF GroupPlaces, EveryWaiterSomewhere
  <2>3. GroupTypeOK'
    BY <1>0, <2>1 DEF wgVars, GroupPlaces, GroupTypeOK, RtInv
  <2> QED BY <1>1, <2>1, <2>2, <2>3 DEF GroupPlaces
<1> QED BY <1>2, <1>3 DEF GroupSched

(* wg->count and the dones that are owed. *)
Counting == count = Cardinality(owed)

LEMMA OwedFinite ==
  ASSUME GroupTypeOK
  PROVE  IsFiniteSet(owed) /\ Cardinality(owed) \in Nat /\ (Cardinality(owed) = 0 <=> owed = {})
<1>1. IsFiniteSet(owed)
  BY FiniteTasks, FS_Subset DEF GroupTypeOK
<1> QED BY <1>1, FS_CardinalityType, FS_EmptySet

LEMMA AddCounts ==
  ASSUME GroupPlaces, Counting, NEW t \in Task, NEW S \in SUBSET Task, Add(t, S)
  PROVE  Counting' /\ count' \in Nat /\ count' # 0 /\ owed' \subseteq Task
<1>1. IsFiniteSet(S) /\ IsFiniteSet(owed)
  BY FiniteTasks, FS_Subset, OwedFinite DEF GroupPlaces
<1>2. /\ S # {} /\ S \cap owed = {} /\ owed' = owed \cup S
      /\ count' = count + Cardinality(S) /\ count = Cardinality(owed)
  BY DEF Add, Counting
<1>3. Cardinality(S) \in Nat /\ Cardinality(S) # 0 /\ Cardinality(owed) \in Nat
  BY <1>1, <1>2, FS_CardinalityType, FS_EmptySet
<1>4. Cardinality(owed \cup S) = Cardinality(owed) + Cardinality(S) - Cardinality(owed \cap S)
  BY <1>1, FS_Union
<1>5. Cardinality(owed \cap S) = 0
  <2>1. owed \cap S = {}
    BY <1>2
  <2> QED BY <2>1, FS_EmptySet
<1>6. Cardinality(owed \cup S) = Cardinality(owed) + Cardinality(S)
  BY <1>3, <1>4, <1>5, SMTT(30), Z3T(30)
<1> QED BY <1>2, <1>3, <1>6, SMTT(30), Z3T(30) DEF Counting, GroupPlaces, GroupTypeOK

LEMMA DoneCounts ==
  ASSUME GroupPlaces, Counting, NEW t \in Task, Done(t)
  PROVE  Counting' /\ count' \in Nat /\ owed' \subseteq Task
<1>1. IsFiniteSet(owed) /\ t \in owed /\ owed' = owed \ {t} /\ count' = Cardinality(owed) - 1
  BY OwedFinite DEF Done, GroupPlaces, Counting
<1>2. Cardinality(owed \ {t}) = Cardinality(owed) - 1 /\ IsFiniteSet(owed \ {t})
  BY <1>1, FS_RemoveElement
<1>3. Cardinality(owed \ {t}) \in Nat
  BY <1>2, FS_CardinalityType
<1> QED BY <1>1, <1>2, <1>3 DEF Counting, GroupPlaces, GroupTypeOK

(* wg->lock, and the tasks that sleep or are about to. *)
Locking == \A t \in Task : pc[t] \in GuardedPc <=> lock = t
GroupWaking ==
  count = 0 /\ (waiters # <<>> \/ \E t \in Task : pc[t] = "wait_push")
    => \E t \in Task : pc[t] \in WakePc

(* pthread_mutex_lock and pthread_mutex_unlock of wg->lock. *)
LEMMA LockTaken ==
  ASSUME Locking, NEW t \in Task, NEW l \in GuardedPc, pc \in [Task -> GroupPc],
         lock = NoTask, lock' = t, Goto(t, l)
  PROVE  Locking'
BY SchedAssumption DEF Locking, GuardedPc, Goto

LEMMA LockReleased ==
  ASSUME Locking, NEW t \in Task, NEW l \in GroupPc \ GuardedPc, pc \in [Task -> GroupPc],
         pc[t] \in GuardedPc, lock' = NoTask, Goto(t, l)
  PROVE  Locking'
BY SchedAssumption DEF Locking, GuardedPc, Goto

LEMMA InvParts == GroupInv <=> GroupPlaces /\ Counting /\ Locking /\ GroupWaking
BY DEF GroupInv, GroupPlaces, RtInv, GroupTypeOK, Counting, Locking, GroupWaking

LEMMA InvPartsNext == GroupPlaces' /\ Counting' /\ Locking' /\ GroupWaking' => GroupInv'
BY DEF GroupInv, GroupPlaces, RtInv, GroupTypeOK, Counting, Locking, GroupWaking

LEMMA GroupInitInv == GroupInit => GroupInv
<1> SUFFICES ASSUME GroupInit PROVE GroupInv
  OBVIOUS
<1>1. GroupPlaces
  BY GroupInitPlaces
<1>2. Counting
  BY FS_EmptySet DEF GroupInit, Counting
<1>3. \A t \in Task : pc[t] = "out" /\ lock # t
  BY SchedAssumption DEF GroupInit
<1> QED BY <1>1, <1>2, <1>3 DEF GroupInv, GroupPlaces, RtInv, Counting, GuardedPc, GroupInit

(* One step of one task keeps the invariant. *)
LEMMA GroupStepInv ==
  ASSUME GroupInv, NEW t \in Task, GroupStep(t)
  PROVE  GroupInv'
<1>0. GroupPlaces /\ Counting /\ Locking /\ GroupWaking /\ t # NoTask
  BY InvParts, SchedAssumption
<1> USE <1>0
<1>1. CASE GroupSafePoint(t)
  <2>1. GroupPlaces'
    BY <1>1, GroupSafePointPlaces
  <2>2. Counting'
    BY <1>1 DEF GroupSafePoint, Counting
  <2>3. Locking'
    BY <1>1 DEF GroupSafePoint, At, Goto, Locking, GuardedPc, GroupPlaces, GroupTypeOK
  <2>4. GroupWaking'
    BY <1>1 DEF GroupSafePoint, At, Goto, GroupWaking, GroupPlaces, GroupTypeOK
  <2> QED BY <2>1, <2>2, <2>3, <2>4, InvPartsNext
<1>2. CASE \E S \in SUBSET Task : Add(t, S)
  <2>1. PICK S \in SUBSET Task : Add(t, S)
    BY <1>2
  <2>2. Counting' /\ count' \in Nat /\ count' # 0 /\ owed' \subseteq Task
    BY <2>1, AddCounts
  <2>3. GroupLocal(t)
    BY <2>1 DEF Add, At, Goto, GroupLocal, GroupPlaces, GroupTypeOK
  <2>4. GroupTypeOK'
    BY <2>1, <2>2 DEF Add, At, Goto, GroupPlaces, GroupTypeOK, RtTypeOK, rtVars
  <2>5. GroupPlaces'
    BY <2>3, <2>4, GroupLocalPlaces
  <2>6. Locking'
    BY <2>1 DEF Add, At, Goto, Locking, GuardedPc, GroupPlaces, GroupTypeOK
  <2>7. GroupWaking'
    BY <2>2 DEF GroupWaking
  <2> QED BY <2>2, <2>5, <2>6, <2>7, InvPartsNext
<1>3. CASE Done(t)
  <2>1. Counting' /\ count' \in Nat /\ owed' \subseteq Task
    BY <1>3, DoneCounts
  <2>2. GroupLocal(t)
    BY <1>3 DEF Done, At, Goto, GroupLocal, GroupPlaces, GroupTypeOK
  <2>3. GroupTypeOK'
    BY <1>3, <2>1 DEF Done, At, Goto, GroupPlaces, GroupTypeOK, RtTypeOK, rtVars
  <2>4. GroupPlaces'
    BY <2>2, <2>3, GroupLocalPlaces
  <2>5. Locking'
    BY <1>3 DEF Done, At, Goto, Locking, GuardedPc, GroupPlaces, GroupTypeOK
  <2>6. GroupWaking'
    <3>1. count' = 0 => pc'[t] = "wake_lock"
      BY <1>3, <2>1 DEF Done, Goto, GroupPlaces, GroupTypeOK
    <3> QED BY <3>1 DEF GroupWaking
  <2> QED BY <2>1, <2>4, <2>5, <2>6, InvPartsNext
<1>4. CASE DoneLock(t)
  <2>1. GroupLocal(t)
    BY <1>4 DEF DoneLock, Enter, At, Goto, GroupLocal, GroupPlaces, GroupTypeOK
  <2>2. GroupTypeOK'
    BY <1>4 DEF DoneLock, Enter, At, Goto, GroupPlaces, GroupTypeOK, RtTypeOK, rtVars
  <2>3. GroupPlaces'
    BY <2>1, <2>2, GroupLocalPlaces
  <2>4. Counting'
    BY <1>4 DEF DoneLock, Enter, Counting
  <2>5. Locking'
    BY <1>4, LockTaken DEF DoneLock, Enter, At, GuardedPc, GroupPlaces, GroupTypeOK
  <2>6. GroupWaking'
    BY <1>4 DEF DoneLock, Enter, At, Goto, GroupWaking, Locking, GuardedPc, GroupPlaces, GroupTypeOK
  <2> QED BY <2>3, <2>4, <2>5, <2>6, InvPartsNext
<1>5. CASE Wake(t) /\ waiters # <<>>
  <2>1. /\ At(t, "wake") /\ MakeReady(Head(waiters)) /\ waiters' = Tail(waiters)
        /\ UNCHANGED <<pc, lock, current, preempt, owed, count>>
    BY <1>5 DEF Wake
  <2>2. GroupPlaces'
    BY <1>5, <2>1, WakePlaces
  <2>3. Counting' /\ Locking'
    BY <2>1 DEF Counting, Locking
  <2>4. GroupWaking'
    BY <2>1 DEF GroupWaking, At
  <2> QED BY <2>2, <2>3, <2>4, InvPartsNext
<1>6. CASE Wake(t) /\ waiters = <<>>
  <2>1. GroupLocal(t)
    BY <1>6 DEF Wake, rtVars, At, Goto, GroupLocal, GroupPlaces, GroupTypeOK
  <2>2. GroupTypeOK'
    BY <1>6 DEF Wake, rtVars, At, Goto, GroupPlaces, GroupTypeOK, RtTypeOK, rtVars
  <2>3. GroupPlaces'
    BY <2>1, <2>2, GroupLocalPlaces
  <2>4. Counting'
    BY <1>6 DEF Wake, rtVars, Counting
  <2>5. Locking'
    BY <1>6, LockReleased DEF Wake, At, GuardedPc, GroupPlaces, GroupTypeOK
  <2>6. GroupWaking'
    BY <1>6 DEF Wake, rtVars, At, Goto, GroupWaking, Locking, GuardedPc, GroupPlaces, GroupTypeOK
  <2> QED BY <2>3, <2>4, <2>5, <2>6, InvPartsNext
<1>7. CASE Wait(t)
  <2>1. GroupLocal(t)
    BY <1>7 DEF Wait, At, Goto, GroupLocal, GroupPlaces, GroupTypeOK
  <2>2. GroupTypeOK'
    BY <1>7 DEF Wait, At, Goto, GroupPlaces, GroupTypeOK, RtTypeOK, rtVars
  <2>3. GroupPlaces'
    BY <2>1, <2>2, GroupLocalPlaces
  <2>4. Counting'
    BY <1>7 DEF Wait, Counting
  <2>5. Locking'
    BY <1>7 DEF Wait, At, Goto, Locking, GuardedPc, GroupPlaces, GroupTypeOK
  <2>6. GroupWaking'
    BY <1>7 DEF Wait, At, Goto, GroupWaking, Locking, GuardedPc, GroupPlaces, GroupTypeOK
  <2> QED BY <2>3, <2>4, <2>5, <2>6, InvPartsNext
<1>8. CASE WaitFast(t)
  <2>1. GroupLocal(t)
    BY <1>8 DEF WaitFast, At, Goto, GroupLocal, GroupPlaces, GroupTypeOK
  <2>2. GroupTypeOK'
    BY <1>8 DEF WaitFast, At, Goto, GroupPlaces, GroupTypeOK, RtTypeOK, rtVars
  <2>3. GroupPlaces'
    BY <2>1, <2>2, GroupLocalPlaces
  <2>4. Counting'
    BY <1>8 DEF WaitFast, Counting
  <2>5. Locking'
    BY <1>8 DEF WaitFast, At, Goto, Locking, GuardedPc, GroupPlaces, GroupTypeOK
  <2>6. GroupWaking'
    BY <1>8 DEF WaitFast, At, Goto, GroupWaking, Locking, GuardedPc, GroupPlaces, GroupTypeOK
  <2> QED BY <2>3, <2>4, <2>5, <2>6, InvPartsNext
<1>9. CASE WaitLock(t)
  <2>1. GroupLocal(t)
    BY <1>9 DEF WaitLock, Enter, At, Goto, GroupLocal, GroupPlaces, GroupTypeOK
  <2>2. GroupTypeOK'
    BY <1>9 DEF WaitLock, Enter, At, Goto, GroupPlaces, GroupTypeOK, RtTypeOK, rtVars
  <2>3. GroupPlaces'
    BY <2>1, <2>2, GroupLocalPlaces
  <2>4. Counting'
    BY <1>9 DEF WaitLock, Enter, Counting
  <2>5. Locking'
    BY <1>9, LockTaken DEF WaitLock, Enter, At, GuardedPc, GroupPlaces, GroupTypeOK
  <2>6. GroupWaking'
    BY <1>9 DEF WaitLock, Enter, At, Goto, GroupWaking, Locking, GuardedPc, GroupPlaces, GroupTypeOK
  <2> QED BY <2>3, <2>4, <2>5, <2>6, InvPartsNext
<1>10. CASE WaitCheck(t)
  <2>1. GroupLocal(t)
    BY <1>10 DEF WaitCheck, At, Goto, GroupLocal, GroupPlaces, GroupTypeOK
  <2>2. GroupTypeOK'
    BY <1>10 DEF WaitCheck, At, Goto, GroupPlaces, GroupTypeOK, RtTypeOK, rtVars
  <2>3. GroupPlaces'
    BY <2>1, <2>2, GroupLocalPlaces
  <2>4. Counting'
    BY <1>10 DEF WaitCheck, Counting
  <2>5. Locking'
    <3>1. CASE count = 0
      BY <1>10, <3>1, LockReleased DEF WaitCheck, At, GuardedPc, GroupPlaces, GroupTypeOK
    <3>2. CASE count # 0
      BY <1>10, <3>2 DEF WaitCheck, At, Goto, Locking, GuardedPc, GroupPlaces, GroupTypeOK
    <3> QED BY <3>1, <3>2
  <2>6. GroupWaking'
    BY <1>10 DEF WaitCheck, At, Goto, GroupWaking, Locking, GuardedPc, GroupPlaces, GroupTypeOK
  <2> QED BY <2>3, <2>4, <2>5, <2>6, InvPartsNext
<1>11. CASE WaitPush(t)
  <2>1. GroupPlaces'
    BY <1>11, WaitPushPlaces
  <2>2. Counting'
    BY <1>11 DEF WaitPush, Counting
  <2>3. Locking'
    BY <1>11, LockReleased DEF WaitPush, At, GuardedPc, GroupPlaces, GroupTypeOK
  <2>4. GroupWaking'
    BY <1>11 DEF WaitPush, At, Goto, GroupWaking, GroupPlaces, GroupTypeOK
  <2> QED BY <2>1, <2>2, <2>3, <2>4, InvPartsNext
<1>12. CASE WaitYield(t)
  <2>1. GroupPlaces'
    BY <1>12, WaitYieldPlaces
  <2>2. Counting'
    BY <1>12 DEF WaitYield, Counting
  <2>3. Locking'
    BY <1>12 DEF WaitYield, At, Goto, Locking, GuardedPc, GroupPlaces, GroupTypeOK
  <2>4. GroupWaking'
    BY <1>12 DEF WaitYield, At, Goto, GroupWaking, GroupPlaces, GroupTypeOK
  <2> QED BY <2>1, <2>2, <2>3, <2>4, InvPartsNext
<1>13. CASE GroupReturn(t)
  <2>1. GroupPlaces'
    BY <1>13, FinishPlaces
  <2>2. Counting'
    BY <1>13 DEF GroupReturn, Counting
  <2>3. Locking'
    BY <1>13 DEF GroupReturn, At, Goto, Locking, GuardedPc, GroupPlaces, GroupTypeOK
  <2>4. GroupWaking'
    BY <1>13 DEF GroupReturn, At, Goto, GroupWaking, GroupPlaces, GroupTypeOK
  <2> QED BY <2>1, <2>2, <2>3, <2>4, InvPartsNext
<1> QED
  BY <1>1, <1>2, <1>3, <1>4, <1>5, <1>6, <1>7, <1>8, <1>9, <1>10, <1>11, <1>12, <1>13 DEF GroupStep

LEMMA GroupNextInv == GroupInv /\ [GroupNext]_groupVars => GroupInv'
<1> SUFFICES ASSUME GroupInv, [GroupNext]_groupVars PROVE GroupInv'
  OBVIOUS
<1>0. GroupPlaces /\ Counting /\ Locking /\ GroupWaking
  BY InvParts
<1>1. CASE \E t \in Task : GroupStep(t)
  BY <1>1, GroupStepInv
<1>2. CASE \E k \in Thread : GroupSched(k)
  <2>1. PICK k \in Thread : GroupSched(k)
    BY <1>2
  <2>2. GroupPlaces'
    BY <1>0, <2>1, GroupSchedPlaces
  <2>3. Counting' /\ Locking' /\ GroupWaking'
    BY <1>0, <2>1 DEF GroupSched, wgVars, Counting, Locking, GroupWaking
  <2> QED BY <2>2, <2>3, InvPartsNext
<1>3. CASE UNCHANGED groupVars
  <2>1. UNCHANGED rtVars /\ UNCHANGED wgVars
    BY <1>3 DEF groupVars
  <2>2. RtInv' /\ \A u \in Task : (Running(u)' <=> Running(u)) /\ (Ready(u)' <=> Ready(u))
    BY <1>0, <2>1, IdleRt DEF GroupPlaces
  <2>3. GroupPlaces'
    BY <1>0, <2>1, <2>2 DEF GroupPlaces, GroupTypeOK, RtInv, EveryWaiterSomewhere, Asleep, wgVars
  <2>4. Counting' /\ Locking' /\ GroupWaking'
    BY <1>0, <2>1 DEF wgVars, Counting, Locking, GroupWaking
  <2> QED BY <2>3, <2>4, InvPartsNext
<1> QED BY <1>1, <1>2, <1>3 DEF GroupNext, GroupEnds

(* The invariant of the wait group holds in every reachable state, for any  *)
(* number of tasks and threads and any schedule.                            *)
THEOREM GroupInvariance == GroupSpec => []GroupInv
BY GroupInitInv, GroupNextInv, PTL DEF GroupSpec

(* Every variable of the wait group and the scheduler keeps its type; in    *)
(* particular the counter of waitgroup_done never goes negative.            *)
THEOREM TypeCorrect == GroupSpec => []GroupTypeOK
<1>1. GroupInv => GroupTypeOK
  BY DEF GroupInv
<1> QED BY <1>1, GroupInvariance, PTL

(* No task is lost, and none is resumed twice: a task inside waitgroup_wait *)
(* is running, ready or queued.                                             *)
THEOREM NoTaskLost == GroupSpec => []EveryWaiterSomewhere
<1>1. GroupInv => EveryWaiterSomewhere
  BY DEF GroupInv
<1> QED BY <1>1, GroupInvariance, PTL

(* No lost wakeup: tasks sleep in the queue with the counter at zero only   *)
(* while the task whose done reached zero is on its way to wake them.       *)
THEOREM WaitersWoken == GroupSpec => []NoWaiterLeft
<1>1. GroupInv => NoWaiterLeft
  BY DEF GroupInv, NoWaiterLeft
<1> QED BY <1>1, GroupInvariance, PTL

(* Waiting as a step of task t changes it. *)
LEMMA WaitingStep ==
  ASSUME NEW t \in Task, NEW l \in GroupPc, pc \in [Task -> GroupPc], Goto(t, l)
  PROVE  Waiting' = IF l \in WaitPc THEN Waiting \cup {t} ELSE Waiting \ {t}
BY DEF Waiting, Goto

LEMMA WaitingSame ==
  ASSUME NEW t \in Task, NEW l \in GroupPc, pc \in [Task -> GroupPc], Goto(t, l),
         l \in WaitPc <=> pc[t] \in WaitPc
  PROVE  Waiting' = Waiting
BY DEF Waiting, Goto

(* What a step of a task is for the abstract wait group. *)
LEMMA StepRefines ==
  ASSUME GroupInv, NEW t \in Task, GroupStep(t)
  PROVE  [Abs!Next]_(Abs!vars)
<1>0. /\ pc \in [Task -> GroupPc] /\ (count = 0 <=> owed = {}) /\ (t \in Waiting <=> pc[t] \in WaitPc)
  BY OwedFinite DEF GroupInv, GroupTypeOK, Waiting
<1> USE <1>0
<1>1. CASE GroupSafePoint(t)
  BY <1>1, WaitingStep, SMTT(30), Z3T(30) DEF GroupSafePoint, At, Abs!vars
<1>2. CASE \E S \in SUBSET Task : Add(t, S)
  <2>1. PICK S \in SUBSET Task : Add(t, S)
    BY <1>2
  <2>2. Waiting' = Waiting
    <3>1. Goto(t, "out") /\ pc[t] = "call"
      BY <2>1 DEF Add, At
    <3> QED BY <3>1, WaitingSame
  <2>3. Abs!Add(S)
    BY <2>1, <2>2 DEF Add, Abs!Add
  <2> QED BY <2>3 DEF Abs!Next
<1>3. CASE Done(t)
  <2>1. Waiting' = Waiting
    BY <1>3, WaitingStep, SMTT(30), Z3T(30) DEF Done, At
  <2>2. Abs!Done(t)
    BY <1>3, <2>1 DEF Done, Abs!Done
  <2> QED BY <2>2 DEF Abs!Next
<1>4. CASE DoneLock(t)
  BY <1>4, WaitingStep, SMTT(30), Z3T(30) DEF DoneLock, Enter, At, Abs!vars
<1>5. CASE Wake(t)
  <2>1. CASE waiters = <<>>
    <3>1. Goto(t, "out") /\ pc[t] = "wake" /\ owed' = owed
      BY <1>5, <2>1 DEF Wake, At
    <3> QED BY <3>1, WaitingSame DEF Abs!vars
  <2>2. CASE waiters # <<>>
    BY <1>5, <2>2 DEF Wake, Waiting, Abs!vars
  <2> QED BY <2>1, <2>2
<1>6. CASE Wait(t)
  <2>1. Waiting' = Waiting \cup {t} /\ t \notin Waiting
    BY <1>6, WaitingStep DEF Wait, At
  <2>2. Abs!Wait(t)
    BY <1>6, <2>1 DEF Wait, Abs!Wait
  <2> QED BY <2>2 DEF Abs!Next
<1>7. CASE WaitFast(t) \/ WaitCheck(t)
  <2>1. t \in Waiting /\ owed' = owed
    BY <1>7 DEF WaitFast, WaitCheck, At
  <2>2. CASE count = 0
    <3>1. Waiting' = Waiting \ {t}
      BY <1>7, <2>2, WaitingStep, SMTT(30), Z3T(30) DEF WaitFast, WaitCheck
    <3>2. Abs!Return(t)
      BY <2>1, <2>2, <3>1 DEF Abs!Return
    <3> QED BY <3>2 DEF Abs!Next
  <2>3. CASE count # 0
    <3>1. Waiting' = Waiting
      BY <1>7, <2>1, <2>3, WaitingStep DEF WaitFast, WaitCheck
    <3> QED BY <2>1, <3>1 DEF Abs!vars
  <2> QED BY <2>2, <2>3
<1>8. CASE WaitLock(t) \/ WaitPush(t) \/ WaitYield(t)
  <2>1. /\ pc[t] \in WaitPc /\ owed' = owed
        /\ Goto(t, "wait_check") \/ Goto(t, "wait_yield") \/ Goto(t, "wait")
    BY <1>8 DEF WaitLock, Enter, WaitPush, WaitYield, At
  <2> QED BY <2>1, WaitingSame DEF Abs!vars
<1>9. CASE GroupReturn(t)
  BY <1>9, WaitingStep, SMTT(30), Z3T(30) DEF GroupReturn, At, Abs!vars
<1> QED BY <1>1, <1>2, <1>3, <1>4, <1>5, <1>6, <1>7, <1>8, <1>9 DEF GroupStep

(* The wait group of sync.c implements its promise, safety part: a wait     *)
(* returns only when no task added for still owes its done, whatever the    *)
(* order of adds, dones, waits and preemptions.                             *)
THEOREM Refinement == GroupSpec => Abs!Safety
<1>1. GroupInit => Abs!Init
  BY DEF GroupInit, Abs!Init, Waiting
<1>2. GroupInv /\ [GroupNext]_groupVars => [Abs!Next]_(Abs!vars)
  <2> SUFFICES ASSUME GroupInv, [GroupNext]_groupVars PROVE [Abs!Next]_(Abs!vars)
    OBVIOUS
  <2>1. CASE \E t \in Task : GroupStep(t)
    BY <2>1, StepRefines
  <2>2. CASE UNCHANGED wgVars
    BY <2>2 DEF wgVars, Waiting, Abs!vars
  <2> QED BY <2>1, <2>2 DEF GroupNext, GroupSched, GroupEnds, groupVars
<1> QED BY <1>1, <1>2, GroupInvariance, PTL DEF GroupSpec, Abs!Safety
=============================================================================
