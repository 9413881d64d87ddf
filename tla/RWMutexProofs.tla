--------------------------- MODULE RWMutexProofs ---------------------------
(***************************************************************************)
(* Proofs about the read-write mutex, for any number of tasks and threads. *)
(* The inductive invariant has four parts: where each task is (Places),    *)
(* what the word counts (Count), what the pthread mutex and the program    *)
(* counters say of it (Guards), and that sleepers have a waker (Waking).   *)
(***************************************************************************)
EXTENDS RWMutex, TaskRuntimeProofs, FiniteSetTheorems

ReadPc == {"reading", "reading_call"}
WritePc == {"writing", "writing_call", "wu_store"}
YieldPc == {"r_yield", "w_yield"}
LockedPc == {"r_check", "r_push", "w_check", "w_push", "ru_pop", "wu_store", "wu_pop", "wu_wake"}

(* A task waits in one queue, in the loop that pushed it there; it is       *)
(* queued while it runs exactly on its way to task_yield.                   *)
Placed(t) ==
  /\ pc[t] \in DrainPc \/ Somewhere(t)
  /\ Asleep(t) => ~Ready(t)
  /\ t \in Range(readers) => pc[t] \in {"r_yield", "r_load"}
  /\ t \in Range(writers) => pc[t] \in {"w_yield", "w_load"}
  /\ Running(t) /\ (Ready(t) \/ Asleep(t)) <=> pc[t] \in YieldPc
Places ==
  RtInv /\ TypeOK /\ NoDups(readers) /\ NoDups(writers) /\ \A t \in Task : Placed(t)

(* The word has READER_INC for each reader and WRITER_BIT for the one task  *)
(* that writes or waits for the readers to leave.                           *)
Busy == Writers \cup Drainers
Count ==
  /\ IsFiniteSet(Readers)
  /\ state = 2 * Cardinality(Readers) + (IF Busy = {} THEN 0 ELSE 1)
  /\ \A t, u \in Busy : t = u
  /\ Writers # {} => Readers = {}

(* mux->lock is owned by the task inside it.  Both CAS expect a word        *)
(* without WRITER_BIT; a task about to queue itself has seen the bit, which *)
(* nobody clears without mux->lock; readers are woken when no writer waits. *)
Guards ==
  /\ \A t \in Task : pc[t] \in LockedPc <=> lock = t
  /\ \A t \in Task : pc[t] \in {"r_cas", "w_cas"} => ~HasWriter(old[t])
  /\ (\E t \in Task : pc[t] \in {"r_push", "w_push"}) => Busy # {}
  /\ (\E t \in Task : pc[t] = "wu_wake") => writers = <<>>

Waker(t) ==
  \/ pc[t] \in WritePc \cup DrainPc \cup {"wu_pop", "wu_wake"}
  \/ pc[t] \in WLockPc /\ ~Asleep(t)
Waking == readers # <<>> \/ writers # <<>> => \E t \in Task : Waker(t)

IInv == Places /\ Count /\ Guards /\ Waking

USE DEF UserPc, RLockPc, WLockPc, DrainPc, UnlockPc, Pc, ReadPc, WritePc, YieldPc

(* Zenon proves every step that does not ask for SMT; the limits, and the second call of the SMT *)
(* solver, leave room for slow machines. *)
USE ZenonT(60)

LEMMA InitPlaces == Init => Places
<1> SUFFICES ASSUME Init PROVE Places
  OBVIOUS
<1>1. RtInv /\ \A t \in Task : Ready(t) /\ ~Running(t)
  BY BootRt DEF Init
<1>2. /\ readers \in Seq(Task) /\ Range(readers) = {} /\ NoDups(readers)
      /\ writers \in Seq(Task) /\ Range(writers) = {} /\ NoDups(writers)
  BY NewQueue DEF Init
<1>3. TypeOK
  BY <1>1, <1>2 DEF Init, TypeOK, RtInv
<1>4. \A t \in Task : pc[t] = "out"
  BY DEF Init
<1> QED BY <1>1, <1>2, <1>3, <1>4 DEF Places, Placed, Somewhere, Asleep

(* The steps of a running task that touch no queue. *)
Local(t, l) ==
  /\ Running(t) /\ pc[t] \notin YieldPc /\ l \notin YieldPc \cup {"done"}
  /\ Goto(t, l) /\ UNCHANGED <<rtVars, readers, writers>>

LEMMA LocalPlaces ==
  ASSUME Places, TypeOK', NEW t \in Task, NEW l \in Pc, Local(t, l)
  PROVE  Places'
<1>1. RtInv' /\ \A u \in Task : (Running(u)' <=> Running(u)) /\ (Ready(u)' <=> Ready(u))
  BY IdleRt DEF Places, Local
<1>2. readers' = readers /\ writers' = writers /\ \A u \in Task : Asleep(u)' <=> Asleep(u)
  BY DEF Local, Asleep
<1>3. pc'[t] = l /\ \A u \in Task \ {t} : pc'[u] = pc[u]
  BY DEF Local, Goto, Places, TypeOK
<1>4. Running(t) /\ ~Ready(t) /\ ~Asleep(t)
  BY DEF Local, Places, Placed
<1>5. Placed(t)'
  BY <1>1, <1>2, <1>3, <1>4 DEF Local, Placed, Somewhere, Asleep
<1>6. ASSUME NEW u \in Task \ {t} PROVE Placed(u)'
  BY <1>1, <1>2, <1>3 DEF Places, Placed, Somewhere
<1> QED BY <1>1, <1>2, <1>5, <1>6 DEF Places

LEMMA SafePointPlaces ==
  ASSUME Places, NEW t \in Task, SafePoint(t)
  PROVE  Places'
<1>1. /\ Running(t) /\ pc[t] \in {"out", "reading", "writing"}
      /\ pc'[t] \in {"out_call", "reading_call", "writing_call"}
      /\ pc' \in [Task -> Pc] /\ \A u \in Task \ {t} : pc'[u] = pc[u]
  BY DEF SafePoint, At, Goto, Places, TypeOK
<1>2. ~Ready(t) /\ ~Asleep(t)
  BY <1>1 DEF Places, Placed
<1>3. /\ RtInv'
      /\ Running(t)' <=> ~Ready(t)'
      /\ \A u \in Task \ {t} : (Running(u)' <=> Running(u)) /\ (Ready(u)' <=> Ready(u))
  BY <1>1, <1>2, SelfYieldRt DEF SafePoint, Places
<1>4. readers' = readers /\ writers' = writers /\ \A u \in Task : Asleep(u)' <=> Asleep(u)
  BY DEF SafePoint, Asleep
<1>5. TypeOK'
  BY <1>1, <1>3, <1>4 DEF SafePoint, Places, TypeOK, RtInv
<1>6. Placed(t)'
  BY <1>1, <1>2, <1>3, <1>4 DEF Placed, Somewhere, Asleep
<1>7. ASSUME NEW u \in Task \ {t} PROVE Placed(u)'
  BY <1>1, <1>3, <1>4 DEF Places, Placed, Somewhere
<1> QED BY <1>3, <1>4, <1>5, <1>6, <1>7 DEF Places

LEMMA PushPlaces ==
  ASSUME Places, NEW t \in Task, RPush(t) \/ WPush(t)
  PROVE  /\ Places' /\ Asleep(t)' /\ \A u \in Task \ {t} : Asleep(u)' <=> Asleep(u)
<1>1. Running(t) /\ pc[t] \in {"r_push", "w_push"} /\ pc[t] \notin YieldPc
  BY DEF RPush, WPush, At
<1>2. ~Ready(t) /\ ~Asleep(t)
  BY <1>1 DEF Places, Placed
<1>3. RtInv' /\ \A u \in Task : (Running(u)' <=> Running(u)) /\ (Ready(u)' <=> Ready(u))
  BY IdleRt DEF Places, RPush, WPush
<1>4. /\ pc' \in [Task -> Pc] /\ \A u \in Task \ {t} : pc'[u] = pc[u]
      /\ RPush(t) => pc'[t] = "r_yield"
      /\ WPush(t) => pc'[t] = "w_yield"
  BY DEF RPush, WPush, Goto, Places, TypeOK
<1>5. CASE RPush(t)
  <2>0. /\ readers \in Seq(Task) /\ NoDups(readers) /\ t \notin Range(readers)
        /\ readers' = Append(readers, t) /\ writers' = writers
    BY <1>2, <1>5 DEF RPush, Places, TypeOK, Asleep
  <2>1. /\ readers' \in Seq(Task) /\ Range(readers') = Range(readers) \cup {t}
        /\ NoDups(readers') /\ writers' = writers
    <3>1. readers' \in Seq(Task) /\ Range(readers') = Range(readers) \cup {t}
      BY <2>0, PushMembers
    <3>2. NoDups(readers')
      BY <2>0, PushNoDups, SMTT(30), Z3T(30)
    <3> QED BY <2>0, <3>1, <3>2
  <2>2. TypeOK'
    BY <1>3, <1>4, <1>5, <2>1 DEF RPush, Places, TypeOK, RtInv
  <2>3. Placed(t)' /\ Asleep(t)'
    BY <1>1, <1>2, <1>3, <1>4, <1>5, <2>1 DEF Placed, Somewhere, Asleep
  <2>4. ASSUME NEW u \in Task \ {t} PROVE Placed(u)' /\ (Asleep(u)' <=> Asleep(u))
    BY <1>3, <1>4, <2>1 DEF Places, Placed, Somewhere, Asleep
  <2> QED BY <1>3, <2>1, <2>2, <2>3, <2>4 DEF Places
<1>6. CASE WPush(t)
  <2>0. /\ writers \in Seq(Task) /\ NoDups(writers) /\ t \notin Range(writers)
        /\ writers' = Append(writers, t) /\ readers' = readers
    BY <1>2, <1>6 DEF WPush, Places, TypeOK, Asleep
  <2>1. /\ writers' \in Seq(Task) /\ Range(writers') = Range(writers) \cup {t}
        /\ NoDups(writers') /\ readers' = readers
    <3>1. writers' \in Seq(Task) /\ Range(writers') = Range(writers) \cup {t}
      BY <2>0, PushMembers
    <3>2. NoDups(writers')
      BY <2>0, PushNoDups, SMTT(30), Z3T(30)
    <3> QED BY <2>0, <3>1, <3>2
  <2>2. TypeOK'
    BY <1>3, <1>4, <1>6, <2>1 DEF WPush, Places, TypeOK, RtInv
  <2>3. Placed(t)' /\ Asleep(t)'
    BY <1>1, <1>2, <1>3, <1>4, <1>6, <2>1 DEF Placed, Somewhere, Asleep
  <2>4. ASSUME NEW u \in Task \ {t} PROVE Placed(u)' /\ (Asleep(u)' <=> Asleep(u))
    BY <1>3, <1>4, <2>1 DEF Places, Placed, Somewhere, Asleep
  <2> QED BY <1>3, <2>1, <2>2, <2>3, <2>4 DEF Places
<1> QED BY <1>5, <1>6

(* task_yield by a task that is queued, or finished, or that waits for the  *)
(* readers to leave.                                                        *)
YieldTo(t, l) ==
  /\ Running(t) /\ TaskYield(t) /\ Goto(t, l)
  /\ \/ pc[t] = "r_yield" /\ l = "r_load"
     \/ pc[t] = "w_yield" /\ l = "w_load"
     \/ pc[t] = "w_drain_yield" /\ l = "w_drain"
     \/ pc[t] = "out" /\ l = "done"
  /\ UNCHANGED <<ready_q, preempt, old, state, lock, readers, writers>>

LEMMA YieldPlaces ==
  ASSUME Places, NEW t \in Task, NEW l \in Pc, YieldTo(t, l)
  PROVE  Places'
<1>1. /\ RtInv' /\ ~Running(t)'
      /\ \A u \in Task \ {t} : Running(u)' <=> Running(u)
      /\ \A u \in Task : Ready(u)' <=> Ready(u)
  BY YieldRt DEF YieldTo, Places
<1>2. pc' \in [Task -> Pc] /\ pc'[t] = l /\ \A u \in Task \ {t} : pc'[u] = pc[u]
  BY DEF YieldTo, Goto, Places, TypeOK
<1>3. readers' = readers /\ writers' = writers /\ \A u \in Task : Asleep(u)' <=> Asleep(u)
  BY DEF YieldTo, Asleep
<1>4. TypeOK'
  BY <1>1, <1>2, <1>3 DEF YieldTo, Places, TypeOK, RtInv
<1>5. Placed(t) /\ Running(t)
  BY DEF Places, YieldTo
<1>6. Placed(t)'
  BY <1>1, <1>2, <1>3, <1>5 DEF YieldTo, Placed, Somewhere, Asleep
<1>7. ASSUME NEW u \in Task \ {t} PROVE Placed(u)'
  BY <1>1, <1>2, <1>3 DEF Places, Placed, Somewhere
<1> QED BY <1>1, <1>3, <1>4, <1>6, <1>7 DEF Places

(* Popping the oldest writer and making it ready: it is then awake in       *)
(* rwlock, and so a waker.                                                  *)
LEMMA WakeWriterPlaces ==
  ASSUME Places, NEW t \in Task, NEW l \in Pc, Running(t),
         pc[t] \in {"ru_pop", "wu_pop"}, l = "out", Goto(t, l), WakeWriter,
         UNCHANGED <<current, preempt, old, state, readers>>, lock' = NoTask
  PROVE  /\ Places'
         /\ \E w \in Task : Waker(w)'
<1>0. PICK w \in Task : w = Head(writers) /\ writers # <<>>
  BY PopMembers DEF WakeWriter, Places, TypeOK
<1>1. /\ w \in Range(writers) /\ writers' \in Seq(Task)
      /\ Range(writers') = Range(writers) \ {w} /\ NoDups(writers')
  BY <1>0, PopMembers DEF WakeWriter, Places, TypeOK
<1>2. /\ pc[w] \in {"w_yield", "w_load"} /\ Asleep(w) /\ ~Ready(w)
      /\ w \notin Range(readers) /\ w # t
  BY <1>1 DEF Places, Placed, Asleep
<1>3. /\ RtInv' /\ Ready(w)'
      /\ \A u \in Task \ {w} : Ready(u)' <=> Ready(u)
      /\ \A u \in Task : Running(u)' <=> Running(u)
  BY <1>0, <1>2, MakeReadyRt DEF WakeWriter, Places
<1>4. pc' \in [Task -> Pc] /\ pc'[t] = "out" /\ \A u \in Task \ {t} : pc'[u] = pc[u]
  BY DEF Goto, Places, TypeOK
<1>5. readers' = readers /\ ~Asleep(w)' /\ \A u \in Task \ {w} : Asleep(u)' <=> Asleep(u)
  BY <1>1, <1>2 DEF Asleep
<1>6. TypeOK'
  BY <1>1, <1>3, <1>4 DEF Places, TypeOK, RtInv
<1>7. Placed(w)'
  BY <1>1, <1>2, <1>3, <1>4, <1>5 DEF Places, Placed, Somewhere, Asleep
<1>8. Placed(t)'
  BY <1>1, <1>2, <1>3, <1>4, <1>5 DEF Places, Placed, Somewhere
<1>9. ASSUME NEW u \in Task \ {t, w} PROVE Placed(u)'
  BY <1>1, <1>3, <1>4, <1>5 DEF Places, Placed, Somewhere
<1>10. Waker(w)'
  BY <1>2, <1>4, <1>5 DEF Waker
<1> QED BY <1>1, <1>3, <1>5, <1>6, <1>7, <1>8, <1>9, <1>10 DEF Places

LEMMA WakeReaderPlaces ==
  ASSUME Places, NEW t \in Task, At(t, "wu_wake"), readers # <<>>,
         MakeReady(Head(readers)), readers' = Tail(readers),
         UNCHANGED <<pc, lock, current, preempt, old, state, writers>>
  PROVE  Places'
<1>0. PICK r \in Task : r = Head(readers)
  BY PopMembers DEF Places, TypeOK
<1>1. /\ r \in Range(readers) /\ readers' \in Seq(Task)
      /\ Range(readers') = Range(readers) \ {r} /\ NoDups(readers')
  BY <1>0, PopMembers DEF Places, TypeOK
<1>2. /\ pc[r] \in {"r_yield", "r_load"} /\ Asleep(r) /\ ~Ready(r)
      /\ r \notin Range(writers)
  BY <1>1 DEF Places, Placed, Asleep
<1>3. /\ RtInv' /\ Ready(r)'
      /\ \A u \in Task \ {r} : Ready(u)' <=> Ready(u)
      /\ \A u \in Task : Running(u)' <=> Running(u)
  BY <1>0, <1>2, MakeReadyRt DEF Places
<1>4. writers' = writers /\ ~Asleep(r)' /\ \A u \in Task \ {r} : Asleep(u)' <=> Asleep(u)
  BY <1>1, <1>2 DEF Asleep
<1>5. TypeOK'
  BY <1>1, <1>3 DEF Places, TypeOK, RtInv
<1>6. Placed(r)'
  BY <1>1, <1>2, <1>3, <1>4 DEF Places, Placed, Somewhere, Asleep
<1>7. ASSUME NEW u \in Task \ {r} PROVE Placed(u)'
  BY <1>1, <1>3, <1>4 DEF Places, Placed, Somewhere
<1> QED BY <1>1, <1>3, <1>4, <1>5, <1>6, <1>7 DEF Places

LEMMA SchedPlaces ==
  ASSUME Places, NEW k \in Thread, Sched(k)
  PROVE  Places'
<1>1. \A u \in Task : (Asleep(u)' <=> Asleep(u)) /\ pc'[u] = pc[u]
  BY DEF Sched, rwVars, Asleep
<1>2. RtInv'
  BY DispatchRt, ForcePreemptRt DEF Sched, Places
<1>3. TypeOK'
  BY <1>2 DEF Sched, rwVars, Places, TypeOK, RtInv
<1>4. CASE ForcePreempt(k)
  <2>1. \A u \in Task : (Running(u)' <=> Running(u)) /\ (Ready(u)' <=> Ready(u))
    BY <1>4, ForcePreemptRt DEF Places
  <2> QED BY <1>1, <1>2, <1>3, <2>1 DEF Sched, rwVars, Places, Placed, Somewhere
<1>5. CASE Dispatch(k)
  <2>1. PICK t \in Task : /\ Ready(t) /\ ~Running(t) /\ Running(t)' /\ ~Ready(t)'
                          /\ \A u \in Task \ {t} : /\ Running(u)' <=> Running(u)
                                                   /\ Ready(u)' <=> Ready(u)
    BY <1>5, DispatchRt DEF Places
  <2>2. ASSUME NEW u \in Task PROVE Placed(u)'
    BY <1>1, <2>1 DEF Sched, rwVars, Places, Placed, Somewhere
  <2> QED BY <1>1, <1>2, <1>3, <2>2 DEF Sched, rwVars, Places
<1> QED BY <1>4, <1>5 DEF Sched

-----------------------------------------------------------------------------
(* WRITER_BIT is set exactly while some task writes or drains. *)
LEMMA WriterBit ==
  ASSUME TypeOK, Count
  PROVE  HasWriter(state) <=> Busy # {}
<1>1. Cardinality(Readers) \in Nat
  BY FS_CardinalityType DEF Count
<1> QED BY <1>1, SMTT(30), Z3T(30) DEF Count, HasWriter, WRITER_BIT

(* A step between labels of the same kind, with the word left alone. *)
LEMMA CountKeeps ==
  ASSUME TypeOK, Count, NEW t \in Task, NEW l \in Pc, Goto(t, l), state' = state,
         pc[t] \in ReadPc <=> l \in ReadPc,
         pc[t] \in WritePc <=> l \in WritePc,
         pc[t] \in DrainPc <=> l \in DrainPc
  PROVE  Count' /\ Busy' = Busy
<1>1. pc'[t] = l /\ \A u \in Task \ {t} : pc'[u] = pc[u]
  BY DEF Goto, TypeOK
<1>2. Readers' = Readers /\ Writers' = Writers /\ Drainers' = Drainers
  BY <1>1 DEF Readers, Writers, Drainers
<1> QED BY <1>2 DEF Count, Busy

(* What Guards asks of a step of task t to the label l. *)
LEMMA GuardsStep ==
  ASSUME TypeOK, Guards, NEW t \in Task, NEW l \in Pc, Goto(t, l),
         \/ lock' = lock /\ (pc[t] \in LockedPc <=> l \in LockedPc)
         \/ lock = NoTask /\ lock' = t /\ l \in LockedPc
         \/ lock' = NoTask /\ pc[t] \in LockedPc /\ l \notin LockedPc,
         l \in {"r_cas", "w_cas"} => ~HasWriter(old'[t]),
         \A u \in Task \ {t} : old'[u] = old[u],
         l \in {"r_push", "w_push"} => Busy' # {},
         Busy # {} => Busy' # {} \/ pc[t] = "wu_store",
         l = "wu_wake" => writers' = <<>>,
         writers' = writers \/ pc[t] \in LockedPc
  PROVE  Guards'
<1>1. pc'[t] = l /\ \A u \in Task \ {t} : pc'[u] = pc[u]
  BY DEF Goto, TypeOK
<1>2. \A u \in Task : pc'[u] \in LockedPc <=> lock' = u
  BY <1>1, SchedAssumption DEF Guards
<1>3. \A u \in Task : pc'[u] \in {"r_cas", "w_cas"} => ~HasWriter(old'[u])
  BY <1>1 DEF Guards
<1>4. ASSUME NEW u \in Task, pc'[u] \in {"r_push", "w_push"} PROVE Busy' # {}
  <2>1. CASE u = t
    BY <1>1, <1>4, <2>1
  <2>2. CASE u # t
    BY <1>1, <1>4, <2>2 DEF Guards, LockedPc
  <2> QED BY <2>1, <2>2
<1>5. ASSUME NEW u \in Task, pc'[u] = "wu_wake" PROVE writers' = <<>>
  <2>1. CASE u = t
    BY <1>1, <1>5, <2>1
  <2>2. CASE u # t
    BY <1>1, <1>5, <2>2 DEF Guards, LockedPc
  <2> QED BY <2>1, <2>2
<1> QED BY <1>2, <1>3, <1>4, <1>5 DEF Guards, HasWriter

-----------------------------------------------------------------------------
(* The labels of a task that will come to a rwunlock, or is in it. *)
WakerPc == WritePc \cup DrainPc \cup WLockPc \cup {"wu_pop", "wu_wake"}

LEMMA LocalWaking ==
  ASSUME Places, Waking, NEW t \in Task, NEW l \in Pc, Local(t, l),
         pc[t] \in WakerPc => l \in WakerPc
  PROVE  Waking'
<1>1. ~Asleep(t)
  BY DEF Local, Places, Placed
<1>2. pc'[t] = l /\ \A u \in Task \ {t} : pc'[u] = pc[u]
  BY DEF Local, Goto, Places, TypeOK
<1>3. \A u \in Task : Asleep(u)' <=> Asleep(u)
  BY DEF Local, Asleep
<1>4. ASSUME NEW u \in Task, Waker(u) PROVE Waker(u)'
  <2>1. CASE u = t
    BY <1>1, <1>2, <1>3, <1>4, <2>1 DEF Waker, WakerPc
  <2>2. CASE u # t
    BY <1>2, <1>3, <1>4, <2>2 DEF Waker
  <2> QED BY <2>1, <2>2
<1> QED BY <1>4 DEF Waking, Local

(* The steps that leave the word, the lock and the queues alone. *)
LEMMA QuietStep ==
  ASSUME IInv, Places', NEW t \in Task, NEW l \in Pc, Goto(t, l),
         UNCHANGED <<old, state, lock, readers, writers>>,
         pc[t] \notin LockedPc, l \notin LockedPc \cup {"r_cas", "w_cas"},
         pc[t] \in ReadPc <=> l \in ReadPc,
         pc[t] \in WritePc <=> l \in WritePc,
         pc[t] \in DrainPc <=> l \in DrainPc,
         pc[t] \in WLockPc => l \in WLockPc
  PROVE  IInv'
<1>1. Count' /\ Busy' = Busy
  BY CountKeeps DEF IInv, Places
<1>2. Guards'
  BY <1>1, GuardsStep DEF IInv, Places, LockedPc
<1>3. pc'[t] = l /\ \A u \in Task \ {t} : pc'[u] = pc[u]
  BY DEF Goto, IInv, Places, TypeOK
<1>4. \A u \in Task : Asleep(u)' <=> Asleep(u)
  BY DEF Asleep
<1>5. ASSUME NEW u \in Task, Waker(u) PROVE Waker(u)'
  BY <1>3, <1>4, <1>5 DEF Waker, LockedPc
<1>6. Waking'
  BY <1>5 DEF IInv, Waking
<1> QED BY <1>1, <1>2, <1>6 DEF IInv

LEMMA LoadInv ==
  ASSUME IInv, NEW t \in Task,
         \/ Load(t, "r_load", "r_lock", "r_cas")
         \/ Load(t, "w_load", "w_lock", "w_cas")
  PROVE  IInv'
<1>1. PICK l \in {"r_lock", "r_cas", "w_lock", "w_cas"} :
        /\ Goto(t, l) /\ Running(t)
        /\ pc[t] = (IF l \in {"r_lock", "r_cas"} THEN "r_load" ELSE "w_load")
        /\ l \in {"r_cas", "w_cas"} => ~HasWriter(state)
  BY DEF Load, At
<1>2. old' \in [Task -> Nat] /\ old'[t] = state /\ \A u \in Task \ {t} : old'[u] = old[u]
  BY DEF Load, IInv, Places, TypeOK
<1>3. UNCHANGED <<rtVars, state, lock, readers, writers>>
  BY DEF Load
<1>4. pc' \in [Task -> Pc]
  BY <1>1 DEF Goto, IInv, Places, TypeOK
<1>5. TypeOK'
  BY <1>2, <1>3, <1>4 DEF IInv, Places, TypeOK, RtTypeOK, rtVars
<1>6. Local(t, l)
  BY <1>1, <1>3 DEF Local
<1>7. Places'
  BY <1>1, <1>5, <1>6, LocalPlaces DEF IInv
<1>8. Count' /\ Busy' = Busy
  BY <1>1, <1>3, CountKeeps DEF IInv, Places
<1>9. Guards'
  BY <1>1, <1>2, <1>3, <1>8, GuardsStep DEF IInv, Places, LockedPc
<1>10. Waking'
  BY <1>1, <1>6, LocalWaking DEF IInv, WakerPc
<1> QED BY <1>7, <1>8, <1>9, <1>10 DEF IInv

LEMMA EnterInv ==
  ASSUME IInv, NEW t \in Task,
         \/ Enter(t, "r_lock", "r_check")
         \/ Enter(t, "w_lock", "w_check")
         \/ Enter(t, "ru_lock", "ru_pop")
         \/ Enter(t, "writing_call", "wu_store")
  PROVE  IInv'
<1>1. PICK l \in {"r_check", "w_check", "ru_pop", "wu_store"} :
        /\ Goto(t, l) /\ Running(t)
        /\ \/ l = "r_check" /\ pc[t] = "r_lock"
           \/ l = "w_check" /\ pc[t] = "w_lock"
           \/ l = "ru_pop" /\ pc[t] = "ru_lock"
           \/ l = "wu_store" /\ pc[t] = "writing_call"
  BY DEF Enter, At
<1>2. UNCHANGED <<rtVars, old, state, readers, writers>> /\ lock = NoTask /\ lock' = t
  BY DEF Enter
<1>3. pc' \in [Task -> Pc]
  BY <1>1 DEF Goto, IInv, Places, TypeOK
<1>4. TypeOK'
  BY <1>2, <1>3 DEF IInv, Places, TypeOK, RtTypeOK, rtVars
<1>5. Local(t, l)
  BY <1>1, <1>2 DEF Local
<1>6. Places'
  BY <1>1, <1>4, <1>5, LocalPlaces DEF IInv
<1>7. Count' /\ Busy' = Busy
  BY <1>1, <1>2, CountKeeps DEF IInv, Places
<1>8. Guards'
  BY <1>1, <1>2, <1>7, GuardsStep DEF IInv, Places, LockedPc
<1>9. Waking'
  BY <1>1, <1>5, LocalWaking DEF IInv, WakerPc
<1> QED BY <1>6, <1>7, <1>8, <1>9 DEF IInv

LEMMA CheckInv ==
  ASSUME IInv, NEW t \in Task,
         \/ Check(t, "r_check", "r_push", "r_load")
         \/ Check(t, "w_check", "w_push", "w_load")
  PROVE  IInv'
<1>1. PICK l \in {"r_push", "r_load", "w_push", "w_load"} :
        /\ Goto(t, l) /\ Running(t)
        /\ pc[t] = (IF l \in {"r_push", "r_load"} THEN "r_check" ELSE "w_check")
        /\ \/ l \in {"r_push", "w_push"} /\ HasWriter(state) /\ lock' = lock
           \/ l \in {"r_load", "w_load"} /\ lock' = NoTask
  BY DEF Check, At
<1>2. UNCHANGED <<rtVars, old, state, readers, writers>>
  BY DEF Check
<1>3. pc' \in [Task -> Pc]
  BY <1>1 DEF Goto, IInv, Places, TypeOK
<1>4. TypeOK'
  BY <1>1, <1>2, <1>3 DEF IInv, Places, TypeOK, RtTypeOK, rtVars
<1>5. Local(t, l)
  BY <1>1, <1>2 DEF Local
<1>6. Places'
  BY <1>1, <1>4, <1>5, LocalPlaces DEF IInv
<1>7. Count' /\ Busy' = Busy
  BY <1>1, <1>2, CountKeeps DEF IInv, Places
<1>8. HasWriter(state) => Busy # {}
  BY WriterBit DEF IInv, Places
<1>9. Guards'
  BY <1>1, <1>2, <1>7, <1>8, GuardsStep DEF IInv, Places, LockedPc
<1>10. Waking'
  BY <1>1, <1>5, LocalWaking DEF IInv, WakerPc
<1> QED BY <1>6, <1>7, <1>9, <1>10 DEF IInv

(* The compare-and-swap of rlock: old has no writer bit, so nobody is busy  *)
(* when it succeeds.                                                        *)
LEMMA ReaderCasInv ==
  ASSUME IInv, NEW t \in Task, Cas(t, "r_cas", old[t] + READER_INC, "reading", "r_load")
  PROVE  IInv'
<1> USE DEF READER_INC
<1>1. PICK l \in {"reading", "r_load"} :
        /\ Goto(t, l) /\ Running(t) /\ pc[t] = "r_cas"
        /\ \/ l = "reading" /\ state = old[t] /\ state' = state + 2
           \/ l = "r_load" /\ state' = state
  BY DEF Cas, At
<1>2. UNCHANGED <<rtVars, old, lock, readers, writers>>
  BY DEF Cas
<1>3. pc' \in [Task -> Pc] /\ pc'[t] = l /\ \A u \in Task \ {t} : pc'[u] = pc[u]
  BY <1>1 DEF Goto, IInv, Places, TypeOK
<1>4. TypeOK'
  BY <1>1, <1>2, <1>3, SMTT(30), Z3T(30) DEF IInv, Places, TypeOK, RtTypeOK, rtVars
<1>5. Local(t, l)
  BY <1>1, <1>2 DEF Local
<1>6. Places'
  BY <1>1, <1>4, <1>5, LocalPlaces DEF IInv
<1>7. Count' /\ Busy' = Busy
  <2>1. CASE l = "r_load"
    BY <1>1, <2>1, CountKeeps DEF IInv, Places
  <2>2. CASE l = "reading"
    <3>1. Busy = {}
      BY <1>1, <2>2, WriterBit DEF IInv, Places, Guards
    <3>2. Readers' = Readers \cup {t} /\ t \notin Readers
      BY <1>1, <1>3, <2>2 DEF Readers
    <3>3. Writers' = Writers /\ Drainers' = Drainers
      BY <1>1, <1>3, <2>2 DEF Writers, Drainers
    <3>4. /\ IsFiniteSet(Readers') /\ Cardinality(Readers') = Cardinality(Readers) + 1
          /\ Cardinality(Readers) \in Nat
      BY <3>2, FS_AddElement, FS_CardinalityType DEF IInv, Count
    <3>5. Busy' = Busy /\ Writers = {}
      BY <3>1, <3>3 DEF Busy
    <3> QED BY <1>1, <2>2, <3>1, <3>3, <3>4, <3>5, SMTT(30), Z3T(30) DEF IInv, Count
  <2> QED BY <2>1, <2>2
<1>8. Guards'
  BY <1>1, <1>2, <1>7, GuardsStep DEF IInv, Places, LockedPc
<1>9. Waking'
  BY <1>1, <1>5, LocalWaking DEF IInv, WakerPc
<1> QED BY <1>6, <1>7, <1>8, <1>9 DEF IInv

(* The compare-and-swap of rwlock takes the writer bit from nobody. *)
LEMMA WriterCasInv ==
  ASSUME IInv, NEW t \in Task, Cas(t, "w_cas", old[t] + WRITER_BIT, "w_drain", "w_load")
  PROVE  IInv'
<1> USE DEF WRITER_BIT
<1>1. PICK l \in {"w_drain", "w_load"} :
        /\ Goto(t, l) /\ Running(t) /\ pc[t] = "w_cas"
        /\ \/ l = "w_drain" /\ state = old[t] /\ state' = state + 1
           \/ l = "w_load" /\ state' = state
  BY DEF Cas, At
<1>2. UNCHANGED <<rtVars, old, lock, readers, writers>>
  BY DEF Cas
<1>3. pc' \in [Task -> Pc] /\ pc'[t] = l /\ \A u \in Task \ {t} : pc'[u] = pc[u]
  BY <1>1 DEF Goto, IInv, Places, TypeOK
<1>4. TypeOK'
  BY <1>1, <1>2, <1>3, SMTT(30), Z3T(30) DEF IInv, Places, TypeOK, RtTypeOK, rtVars
<1>5. Local(t, l)
  BY <1>1, <1>2 DEF Local
<1>6. Places'
  BY <1>1, <1>4, <1>5, LocalPlaces DEF IInv
<1>7. Count' /\ (Busy # {} => Busy' # {})
  <2>1. CASE l = "w_load"
    BY <1>1, <2>1, CountKeeps DEF IInv, Places
  <2>2. CASE l = "w_drain"
    <3>1. Busy = {}
      BY <1>1, <2>2, WriterBit DEF IInv, Places, Guards
    <3>2. Readers' = Readers /\ Writers' = Writers /\ Drainers' = Drainers \cup {t}
      BY <1>1, <1>3, <2>2 DEF Readers, Writers, Drainers
    <3>3. Busy' = {t} /\ Writers' = {}
      BY <3>1, <3>2 DEF Busy
    <3>4. Cardinality(Readers) \in Nat
      BY FS_CardinalityType DEF IInv, Count
    <3> QED BY <1>1, <2>2, <3>1, <3>2, <3>3, <3>4, SMTT(30), Z3T(30) DEF IInv, Count
  <2> QED BY <2>1, <2>2
<1>8. Guards'
  BY <1>1, <1>2, <1>7, GuardsStep DEF IInv, Places, LockedPc
<1>9. Waking'
  BY <1>1, <1>5, LocalWaking DEF IInv, WakerPc
<1> QED BY <1>6, <1>7, <1>8, <1>9 DEF IInv

(* A drainer sees the word WRITER_BIT only when no task reads. *)
LEMMA DrainInv ==
  ASSUME IInv, NEW t \in Task, Drain(t)
  PROVE  IInv'
<1>1. PICK l \in {"writing", "w_drain_yield"} :
        /\ Goto(t, l) /\ Running(t) /\ pc[t] = "w_drain"
        /\ l = "writing" => state = 1
  BY DEF Drain, At, WRITER_BIT
<1>2. UNCHANGED <<rtVars, old, state, lock, readers, writers>>
  BY DEF Drain
<1>3. pc' \in [Task -> Pc] /\ pc'[t] = l /\ \A u \in Task \ {t} : pc'[u] = pc[u]
  BY <1>1 DEF Goto, IInv, Places, TypeOK
<1>4. TypeOK'
  BY <1>1, <1>2, <1>3 DEF IInv, Places, TypeOK, RtTypeOK, rtVars
<1>5. Local(t, l)
  BY <1>1, <1>2 DEF Local
<1>6. Places'
  BY <1>1, <1>4, <1>5, LocalPlaces DEF IInv
<1>7. Count' /\ Busy' = Busy
  <2>1. CASE l = "w_drain_yield"
    BY <1>1, <1>2, <2>1, CountKeeps DEF IInv, Places
  <2>2. CASE l = "writing"
    <3>1. Readers' = Readers /\ Writers' = Writers \cup {t} /\ Drainers' = Drainers \ {t}
      BY <1>1, <1>3, <2>2 DEF Readers, Writers, Drainers
    <3>2. t \in Drainers
      BY <1>1 DEF Drainers
    <3>3. Busy' = Busy /\ Busy # {}
      BY <3>1, <3>2 DEF Busy
    <3>4. Cardinality(Readers) = 0
      BY <1>1, <2>2, <3>3, FS_CardinalityType, SMTT(30), Z3T(30) DEF IInv, Count
    <3>5. Readers = {}
      BY <3>4, FS_EmptySet DEF IInv, Count
    <3> QED BY <1>2, <3>1, <3>3, <3>5 DEF IInv, Count
  <2> QED BY <2>1, <2>2
<1>8. Guards'
  BY <1>1, <1>2, <1>7, GuardsStep DEF IInv, Places, LockedPc
<1>9. Waking'
  BY <1>1, <1>5, LocalWaking DEF IInv, WakerPc
<1> QED BY <1>6, <1>7, <1>8, <1>9 DEF IInv

(* The fetch_sub of runlock. *)
LEMMA RUnlockSubInv ==
  ASSUME IInv, NEW t \in Task, RUnlockSub(t)
  PROVE  IInv'
<1>1. PICK l \in {"ru_lock", "out"} : Goto(t, l) /\ Running(t) /\ pc[t] = "reading_call"
  BY DEF RUnlockSub, At
<1>2. UNCHANGED <<rtVars, old, lock, readers, writers>> /\ state' = state - 2
  BY DEF RUnlockSub, READER_INC
<1>3. pc' \in [Task -> Pc] /\ pc'[t] = l /\ \A u \in Task \ {t} : pc'[u] = pc[u]
  BY <1>1 DEF Goto, IInv, Places, TypeOK
<1>4. Readers' = Readers \ {t} /\ t \in Readers
  BY <1>1, <1>3 DEF Readers
<1>5. /\ IsFiniteSet(Readers') /\ Cardinality(Readers') = Cardinality(Readers) - 1
      /\ Cardinality(Readers) \in Nat /\ Cardinality(Readers') \in Nat
  BY <1>4, FS_RemoveElement, FS_CardinalityType DEF IInv, Count
<1>6. Writers' = Writers /\ Drainers' = Drainers /\ Busy' = Busy
  BY <1>1, <1>3 DEF Writers, Drainers, Busy
<1>7. Count' /\ state' \in Nat
  <2>1. /\ state = 2 * Cardinality(Readers) + (IF Busy = {} THEN 0 ELSE 1)
        /\ \A u, v \in Busy : u = v
        /\ Writers # {} => Readers = {}
    BY DEF IInv, Count
  <2>2. /\ state' = 2 * Cardinality(Readers') + (IF Busy' = {} THEN 0 ELSE 1)
        /\ state' \in Nat
    BY <1>2, <1>5, <1>6, <2>1, SMTT(30), Z3T(30)
  <2> QED BY <1>4, <1>5, <1>6, <2>1, <2>2 DEF Count
<1>8. TypeOK'
  BY <1>2, <1>3, <1>7 DEF IInv, Places, TypeOK, RtTypeOK, rtVars
<1>9. Local(t, l)
  BY <1>1, <1>2 DEF Local
<1>10. Places'
  BY <1>1, <1>8, <1>9, LocalPlaces DEF IInv
<1>11. Guards'
  BY <1>1, <1>2, <1>6, GuardsStep DEF IInv, Places, LockedPc
<1>12. Waking'
  BY <1>1, <1>9, LocalWaking DEF IInv, WakerPc
<1> QED BY <1>7, <1>10, <1>11, <1>12 DEF IInv

(* The store of 0 by rwunlock forgets nobody: no task reads, and the writer *)
(* is the only one that is busy.                                            *)
LEMMA RWUnlockStoreInv ==
  ASSUME IInv, NEW t \in Task, RWUnlockStore(t)
  PROVE  IInv'
<1>1. Goto(t, "wu_pop") /\ Running(t) /\ pc[t] = "wu_store"
  BY DEF RWUnlockStore, At
<1>2. UNCHANGED <<rtVars, old, lock, readers, writers>> /\ state' = 0
  BY DEF RWUnlockStore
<1>3. pc' \in [Task -> Pc] /\ pc'[t] = "wu_pop" /\ \A u \in Task \ {t} : pc'[u] = pc[u]
  BY <1>1 DEF Goto, IInv, Places, TypeOK
<1>4. t \in Writers /\ t \in Busy /\ Readers = {}
  BY <1>1 DEF Writers, Busy, IInv, Count
<1>5. Readers' = Readers /\ Writers' = Writers \ {t} /\ Drainers' = Drainers
  BY <1>1, <1>3 DEF Readers, Writers, Drainers
<1>6. t \notin Drainers
  BY <1>1 DEF Drainers
<1>7. Busy' = {} /\ Writers' = {}
  BY <1>4, <1>5, <1>6 DEF Busy, IInv, Count
<1>8. Count'
  BY <1>2, <1>4, <1>5, <1>7, FS_EmptySet, SMTT(30), Z3T(30) DEF Count
<1>9. TypeOK'
  BY <1>2, <1>3 DEF IInv, Places, TypeOK, RtTypeOK, rtVars
<1>10. Local(t, "wu_pop")
  BY <1>1, <1>2 DEF Local
<1>11. Places'
  BY <1>9, <1>10, LocalPlaces DEF IInv
<1>12. Guards'
  BY <1>1, <1>2, GuardsStep DEF IInv, Places, LockedPc
<1>13. Waking'
  BY <1>10, LocalWaking DEF IInv, WakerPc
<1> QED BY <1>8, <1>11, <1>12, <1>13 DEF IInv

(* A task queues itself only while somebody is busy, with mux->lock held. *)
LEMMA PushInv ==
  ASSUME IInv, NEW t \in Task, RPush(t) \/ WPush(t)
  PROVE  IInv'
<1>1. PICK l \in {"r_yield", "w_yield"} :
        Goto(t, l) /\ pc[t] = (IF l = "r_yield" THEN "r_push" ELSE "w_push")
  BY DEF RPush, WPush, At
<1>2. UNCHANGED <<old, state>> /\ lock' = NoTask
  BY DEF RPush, WPush
<1>3. Places' /\ \A u \in Task \ {t} : Asleep(u)' <=> Asleep(u)
  BY PushPlaces DEF IInv
<1>4. Count' /\ Busy' = Busy
  BY <1>1, <1>2, CountKeeps DEF IInv, Places
<1>5. Guards'
  BY <1>1, <1>2, <1>4, GuardsStep DEF IInv, Places, LockedPc
<1>6. PICK w \in Task : w \in Busy'
  BY <1>1, <1>4 DEF IInv, Guards, Busy, Writers, Drainers
<1>7. Waker(w)'
  BY <1>6 DEF Busy, Writers, Drainers, Waker
<1> QED BY <1>3, <1>4, <1>5, <1>7 DEF IInv, Waking

(* runlock wakes one writer; rwunlock one writer, or else every reader. *)
LEMMA RUnlockPopInv ==
  ASSUME IInv, NEW t \in Task, RUnlockPop(t)
  PROVE  IInv'
<1>1. Goto(t, "out") /\ Running(t) /\ pc[t] = "ru_pop"
  BY DEF RUnlockPop, At
<1>2. UNCHANGED <<current, preempt, old, state, readers>> /\ lock' = NoTask
  BY DEF RUnlockPop
<1>3. Count' /\ Busy' = Busy
  BY <1>1, <1>2, CountKeeps DEF IInv, Places
<1>4. Guards'
  BY <1>1, <1>2, <1>3, GuardsStep DEF IInv, Places, LockedPc
<1>5. CASE WakeWriter
  <2>1. Places' /\ \E w \in Task : Waker(w)'
    BY <1>1, <1>2, <1>5, WakeWriterPlaces DEF IInv
  <2> QED BY <1>3, <1>4, <2>1 DEF IInv, Waking
<1>6. CASE UNCHANGED <<ready_q, writers>>
  <2>1. Local(t, "out")
    BY <1>1, <1>2, <1>6 DEF Local, rtVars
  <2>2. pc' \in [Task -> Pc]
    BY <1>1 DEF Goto, IInv, Places, TypeOK
  <2>3. TypeOK'
    BY <1>2, <1>6, <2>2 DEF IInv, Places, TypeOK, RtTypeOK
  <2>4. Places' /\ Waking'
    BY <1>1, <2>1, <2>3, LocalPlaces, LocalWaking DEF IInv, WakerPc
  <2> QED BY <1>3, <1>4, <2>4 DEF IInv
<1> QED BY <1>5, <1>6 DEF RUnlockPop

LEMMA RWUnlockPopInv ==
  ASSUME IInv, NEW t \in Task, RWUnlockPop(t)
  PROVE  IInv'
<1>1. PICK l \in {"out", "wu_wake"} :
        /\ Goto(t, l) /\ Running(t) /\ pc[t] = "wu_pop"
        /\ \/ l = "out" /\ WakeWriter /\ lock' = NoTask
           \/ l = "wu_wake" /\ writers = <<>> /\ UNCHANGED <<ready_q, lock, writers>>
  BY DEF RWUnlockPop, At
<1>2. UNCHANGED <<current, preempt, old, state, readers>>
  BY DEF RWUnlockPop
<1>3. Count' /\ Busy' = Busy
  BY <1>1, <1>2, CountKeeps DEF IInv, Places
<1>4. Guards'
  BY <1>1, <1>2, <1>3, GuardsStep DEF IInv, Places, LockedPc
<1>5. CASE l = "out"
  <2>1. Places' /\ \E w \in Task : Waker(w)'
    BY <1>1, <1>2, <1>5, WakeWriterPlaces DEF IInv
  <2> QED BY <1>3, <1>4, <2>1 DEF IInv, Waking
<1>6. CASE l = "wu_wake"
  <2>1. Local(t, "wu_wake")
    BY <1>1, <1>2, <1>6 DEF Local, rtVars
  <2>2. pc' \in [Task -> Pc]
    BY <1>1 DEF Goto, IInv, Places, TypeOK
  <2>3. TypeOK'
    BY <1>1, <1>2, <1>6, <2>2 DEF IInv, Places, TypeOK, RtTypeOK
  <2>4. Places' /\ Waking'
    BY <1>1, <2>1, <2>3, LocalPlaces, LocalWaking DEF IInv, WakerPc
  <2> QED BY <1>3, <1>4, <2>4 DEF IInv
<1> QED BY <1>5, <1>6

LEMMA RWUnlockWakeInv ==
  ASSUME IInv, NEW t \in Task, RWUnlockWake(t)
  PROVE  IInv'
<1>1. Running(t) /\ pc[t] = "wu_wake" /\ UNCHANGED <<current, preempt, old, state, writers>>
  BY DEF RWUnlockWake, At
<1>2. CASE readers # <<>>
  <2>1. MakeReady(Head(readers)) /\ readers' = Tail(readers) /\ UNCHANGED <<pc, lock>>
    BY <1>2 DEF RWUnlockWake
  <2>2. Places'
    BY <1>1, <1>2, <2>1, WakeReaderPlaces DEF IInv, At
  <2>3. Goto(t, "wu_wake")
    BY <1>1, <2>1 DEF Goto, IInv, Places, TypeOK
  <2>4. Count' /\ Busy' = Busy
    BY <1>1, <2>3, CountKeeps DEF IInv, Places
  <2>5. Guards'
    BY <1>1, <2>1 , <2>3, <2>4, GuardsStep DEF IInv, Places, LockedPc, Guards
  <2>6. Waker(t)'
    BY <1>1, <2>1 DEF Waker
  <2> QED BY <2>2, <2>4, <2>5, <2>6 DEF IInv, Waking
<1>3. CASE readers = <<>>
  <2>1. Goto(t, "out") /\ lock' = NoTask /\ UNCHANGED <<ready_q, readers>>
    BY <1>3 DEF RWUnlockWake
  <2>2. Count' /\ Busy' = Busy
    BY <1>1, <2>1, CountKeeps DEF IInv, Places
  <2>3. Guards'
    BY <1>1, <2>1, <2>2, GuardsStep DEF IInv, Places, LockedPc
  <2>4. Local(t, "out")
    BY <1>1, <2>1 DEF Local, rtVars
  <2>5. pc' \in [Task -> Pc]
    BY <2>1 DEF Goto, IInv, Places, TypeOK
  <2>6. TypeOK'
    BY <1>1, <2>1, <2>5 DEF IInv, Places, TypeOK, RtTypeOK
  <2>7. Places'
    BY <2>4, <2>6, LocalPlaces DEF IInv
  <2>8. readers' = <<>> /\ writers' = <<>>
    BY <1>1, <1>3, <2>1 DEF IInv, Guards
  <2> QED BY <2>2, <2>3, <2>7, <2>8 DEF IInv, Waking
<1> QED BY <1>2, <1>3

(* The steps that only move a task between labels or places. *)
LEMMA MovesInv ==
  ASSUME IInv, NEW t \in Task,
         \/ SafePoint(t) \/ Call(t) \/ Finish(t)
         \/ Yield(t, "r_yield", "r_load") \/ Yield(t, "w_yield", "w_load")
         \/ Yield(t, "w_drain_yield", "w_drain")
  PROVE  IInv'
<1>1. CASE SafePoint(t)
  <2>1. Places' /\ UNCHANGED <<old, state, lock, readers, writers>>
    BY <1>1, SafePointPlaces DEF IInv, SafePoint
  <2>2. PICK l \in {"out_call", "reading_call", "writing_call"} :
          /\ Goto(t, l)
          /\ \/ pc[t] = "out" /\ l = "out_call"
             \/ pc[t] = "reading" /\ l = "reading_call"
             \/ pc[t] = "writing" /\ l = "writing_call"
    BY <1>1 DEF SafePoint, At
  <2> QED BY <2>1, <2>2, QuietStep DEF LockedPc
<1>2. CASE Call(t)
  <2>1. PICK l \in {"r_load", "w_load"} : Goto(t, l) /\ pc[t] = "out_call" /\ Running(t)
    BY <1>2 DEF Call, At
  <2>2. UNCHANGED <<rtVars, old, state, lock, readers, writers>>
    BY <1>2 DEF Call
  <2>3. pc' \in [Task -> Pc]
    BY <2>1 DEF Goto, IInv, Places, TypeOK
  <2>4. TypeOK'
    BY <2>2, <2>3 DEF IInv, Places, TypeOK, RtTypeOK, rtVars
  <2>5. Places'
    BY <2>1, <2>2, <2>4, LocalPlaces DEF Local, IInv
  <2> QED BY <2>1, <2>2, <2>5, QuietStep DEF LockedPc
<1>3. CASE \/ Finish(t)
           \/ Yield(t, "r_yield", "r_load") \/ Yield(t, "w_yield", "w_load")
           \/ Yield(t, "w_drain_yield", "w_drain")
  <2>1. PICK l \in {"done", "r_load", "w_load", "w_drain"} : YieldTo(t, l)
    BY <1>3 DEF Finish, Yield, At, YieldTo
  <2>2. Places'
    BY <2>1, YieldPlaces DEF IInv
  <2> QED BY <2>1, <2>2, QuietStep DEF LockedPc, YieldTo
<1> QED BY <1>1, <1>2, <1>3

LEMMA NextInv == IInv /\ [Next]_vars => IInv'
<1> SUFFICES ASSUME IInv, [Next]_vars PROVE IInv'
  OBVIOUS
<1>1. ASSUME NEW t \in Task, Step(t) PROVE IInv'
  <2>1. CASE RLock(t)
    BY <2>1, LoadInv, EnterInv, CheckInv, PushInv, MovesInv, ReaderCasInv DEF RLock
  <2>2. CASE RWLock(t)
    BY <2>2, LoadInv, EnterInv, CheckInv, PushInv, MovesInv, WriterCasInv, DrainInv DEF RWLock
  <2>3. CASE RUnlock(t)
    BY <2>3, RUnlockSubInv, EnterInv, RUnlockPopInv DEF RUnlock
  <2>4. CASE RWUnlock(t)
    BY <2>4, EnterInv, RWUnlockStoreInv, RWUnlockPopInv, RWUnlockWakeInv DEF RWUnlock
  <2> QED BY <1>1, <2>1, <2>2, <2>3, <2>4, MovesInv DEF Step
<1>2. ASSUME NEW k \in Thread, Sched(k) PROVE IInv'
  <2>1. Places'
    BY <1>2, SchedPlaces DEF IInv
  <2>2. UNCHANGED <<pc, old, state, lock, readers, writers>>
    BY <1>2 DEF Sched, rwVars
  <2>3. Count' /\ Guards' /\ Waking'
    BY <2>2 DEF IInv, Count, Guards, Waking, Waker, Asleep, Busy, Readers, Writers, Drainers
  <2> QED BY <2>1, <2>3 DEF IInv
<1>3. CASE UNCHANGED vars
  <2>1. UNCHANGED <<rtVars, pc, old, state, lock, readers, writers>>
    BY <1>3 DEF vars, rwVars
  <2>2. RtInv' /\ \A u \in Task : (Running(u)' <=> Running(u)) /\ (Ready(u)' <=> Ready(u))
    BY <2>1, IdleRt DEF IInv, Places
  <2>3. \A u \in Task : Asleep(u)' <=> Asleep(u)
    BY <2>1 DEF Asleep
  <2>4. TypeOK'
    BY <2>1, <2>2 DEF IInv, Places, TypeOK, RtInv
  <2>5. ASSUME NEW u \in Task PROVE Placed(u)'
    BY <2>1, <2>2, <2>3 DEF IInv, Places, Placed, Somewhere
  <2>6. Count' /\ Guards' /\ Waking'
    BY <2>1 DEF IInv, Count, Guards, Waking, Waker, Asleep, Busy, Readers, Writers, Drainers
  <2> QED BY <2>1, <2>2, <2>4, <2>5, <2>6 DEF IInv, Places
<1> QED BY <1>1, <1>2, <1>3 DEF Next, Terminated

LEMMA Invariance == Spec => []IInv
<1>1. Init => IInv
  <2> SUFFICES ASSUME Init PROVE IInv
    OBVIOUS
  <2>1. Places
    BY InitPlaces
  <2>2. \A t \in Task : pc[t] = "out"
    BY DEF Init
  <2>3. Readers = {} /\ Writers = {} /\ Drainers = {} /\ Busy = {}
    BY <2>2 DEF Readers, Writers, Drainers, Busy
  <2>4. Count
    BY <2>3, FS_EmptySet, SMTT(30), Z3T(30) DEF Count, Init
  <2>5. Guards /\ Waking
    BY <2>2, SchedAssumption DEF Guards, Waking, LockedPc, Init
  <2> QED BY <2>1, <2>4, <2>5 DEF IInv
<1> QED BY <1>1, NextInv, PTL DEF Spec

(* Exclusion of sync.c's read-write mutex, for every number of tasks and    *)
(* threads: while a task is between the return of rwlock and the store of   *)
(* rwunlock no other task reads or writes, and mux->state counts exactly    *)
(* the readers, and the one task that has WRITER_BIT.                       *)
THEOREM RWMutexExclusion == Spec => []Exclusion
<1>1. IInv => Exclusion
  <2> SUFFICES ASSUME IInv PROVE Exclusion
    OBVIOUS
  <2>1. Cardinality(Busy) = (IF Busy = {} THEN 0 ELSE 1)
    <3>1. CASE Busy = {}
      BY <3>1, FS_EmptySet
    <3>2. CASE Busy # {}
      <4>1. PICK b \in Busy : Busy = {b}
        BY <3>2 DEF IInv, Count
      <4> QED BY <3>2, <4>1, FS_Singleton
    <3> QED BY <3>1, <3>2
  <2>2. WordCountsUsers
    BY <2>1, SMTT(30), Z3T(30) DEF WordCountsUsers, READER_INC, IInv, Count, Busy
  <2>3. \A w \in Writers : Readers = {} /\ Writers = {w}
    BY DEF IInv, Count, Busy
  <2> QED BY <2>2, <2>3 DEF Exclusion, IInv, Places
<1> QED BY <1>1, Invariance, PTL

(* No lost wakeup: while a task sleeps in mux->readers or mux->writers some *)
(* task has the writer bit, is in rwunlock's wakeup, or is awake in rwlock. *)
THEOREM RWMutexSleepersHaveAWaker == Spec => []SleepersHaveAWaker
<1>1. IInv => SleepersHaveAWaker
  BY DEF IInv, Waking, Waker, SleepersHaveAWaker, Writers, Drainers
<1> QED BY <1>1, Invariance, PTL

(* Every task outside the drain loop of rwlock is running or in exactly one *)
(* queue, so it will be found again; the writers that wait for readers to   *)
(* leave are the only ones that can be lost.                                *)
THEOREM RWMutexOnlyDrainersGetLost == Spec => []OnlyDrainersGetLost
<1>1. IInv => OnlyDrainersGetLost
  <2> SUFFICES ASSUME IInv, NEW t \in Task
               PROVE  /\ Asleep(t) => ~Ready(t)
                      /\ ~(t \in Range(readers) /\ t \in Range(writers))
                      /\ Running(t) /\ (Ready(t) \/ Asleep(t)) => pc[t] \in {"r_yield", "w_yield"}
                      /\ t \notin Drainers => Somewhere(t)
    BY DEF OnlyDrainersGetLost, QueuedOnce
  <2>1. Placed(t)
    BY DEF IInv, Places
  <2> QED BY <2>1 DEF Placed, Drainers
<1> QED BY <1>1, Invariance, PTL
=============================================================================
