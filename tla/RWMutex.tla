------------------------------ MODULE RWMutex ------------------------------
(***************************************************************************)
(* The read-write mutex of runtime/src/sync.c: one word, WRITER_BIT = 1    *)
(* plus READER_INC = 2 for each reader, and two queues of waiting tasks    *)
(* guarded by a pthread mutex.  Steps are the accesses to the word, the    *)
(* pthread lock and the queue operations.                                  *)
(***************************************************************************)
EXTENDS TaskRuntime, Integers, FiniteSets

VARIABLES pc,
          old,           \* the local variable old: the word as last loaded
          state,         \* mux->state
          lock,          \* the task inside mux->lock
          readers,       \* mux->readers
          writers        \* mux->writers

rwVars == <<pc, old, state, lock, readers, writers>>
vars == <<rtVars, rwVars>>

WRITER_BIT == 1
READER_INC == 2

UserPc == {"out", "out_call", "reading", "reading_call", "writing", "writing_call", "done"}
RLockPc == {"r_load", "r_lock", "r_check", "r_push", "r_yield", "r_cas"}
WLockPc == {"w_load", "w_lock", "w_check", "w_push", "w_yield", "w_cas"}
DrainPc == {"w_drain", "w_drain_yield"}
UnlockPc == {"ru_lock", "ru_pop", "wu_store", "wu_pop", "wu_wake"}
Pc == UserPc \cup RLockPc \cup WLockPc \cup DrainPc \cup UnlockPc

Init ==
  /\ RtInit
  /\ pc = [t \in Task |-> "out"]
  /\ old = [t \in Task |-> 0]
  /\ state = 0
  /\ lock = NoTask
  /\ readers = <<>>
  /\ writers = <<>>

At(t, l) == Running(t) /\ pc[t] = l
Goto(t, l) == pc' = [pc EXCEPT ![t] = l]
HasWriter(s) == s % 2 = WRITER_BIT

(* The safepoint generated before each call. *)
SafePoint(t) ==
  /\ \/ At(t, "out") /\ Goto(t, "out_call")
     \/ At(t, "reading") /\ Goto(t, "reading_call")
     \/ At(t, "writing") /\ Goto(t, "writing_call")
  /\ SelfYield(t)
  /\ UNCHANGED <<old, state, lock, readers, writers>>

(* A program calls rlock or rwlock. *)
Call(t) ==
  /\ At(t, "out_call")
  /\ Goto(t, "r_load") \/ Goto(t, "w_load")
  /\ UNCHANGED <<rtVars, old, state, lock, readers, writers>>

(* The load at the top of both loops. *)
Load(t, here, slow, cas) ==
  /\ At(t, here)
  /\ old' = [old EXCEPT ![t] = state]
  /\ Goto(t, IF HasWriter(state) THEN slow ELSE cas)
  /\ UNCHANGED <<rtVars, state, lock, readers, writers>>

(* Taking mux->lock. *)
Enter(t, here, next) ==
  /\ At(t, here)
  /\ lock = NoTask
  /\ lock' = t
  /\ Goto(t, next)
  /\ UNCHANGED <<rtVars, old, state, readers, writers>>

(* The second look at WRITER_BIT, with mux->lock held; if the bit is gone   *)
(* the lock is released and the loop starts again.                          *)
Check(t, here, push, again) ==
  /\ At(t, here)
  /\ IF HasWriter(state) THEN Goto(t, push) /\ UNCHANGED lock
                         ELSE Goto(t, again) /\ lock' = NoTask
  /\ UNCHANGED <<rtVars, old, state, readers, writers>>

(* task_yield. *)
Yield(t, here, again) ==
  /\ At(t, here)
  /\ TaskYield(t)
  /\ Goto(t, again)
  /\ UNCHANGED <<ready_q, preempt, old, state, lock, readers, writers>>

(* The weak CAS of both loops: it fails if the word has changed, and may    *)
(* fail if it has not.                                                      *)
Cas(t, here, new, done, again) ==
  /\ At(t, here)
  /\ \/ state = old[t] /\ state' = new /\ Goto(t, done)
     \/ UNCHANGED state /\ Goto(t, again)
  /\ UNCHANGED <<rtVars, old, lock, readers, writers>>

RPush(t) ==
  /\ At(t, "r_push")
  /\ readers' = Append(readers, t)
  /\ lock' = NoTask
  /\ Goto(t, "r_yield")
  /\ UNCHANGED <<rtVars, old, state, writers>>

WPush(t) ==
  /\ At(t, "w_push")
  /\ writers' = Append(writers, t)
  /\ lock' = NoTask
  /\ Goto(t, "w_yield")
  /\ UNCHANGED <<rtVars, old, state, readers>>

RLock(t) ==
  \/ Load(t, "r_load", "r_lock", "r_cas")
  \/ Enter(t, "r_lock", "r_check")
  \/ Check(t, "r_check", "r_push", "r_load")
  \/ RPush(t)
  \/ Yield(t, "r_yield", "r_load")
  \/ Cas(t, "r_cas", old[t] + READER_INC, "reading", "r_load")
(* Variant: the writer does not wait for the readers. *)
DrainNone(t) ==
  /\ At(t, "w_drain")
  /\ Goto(t, "writing")
  /\ UNCHANGED <<rtVars, old, state, lock, readers, writers>>

(* The final loop of rwlock: wait for the readers to leave.  The task       *)
(* yields without having queued itself anywhere.                            *)
Drain(t) ==
  /\ At(t, "w_drain")
  /\ Goto(t, IF state = WRITER_BIT THEN "writing" ELSE "w_drain_yield")
  /\ UNCHANGED <<rtVars, old, state, lock, readers, writers>>

RWLock(t) ==
  \/ Load(t, "w_load", "w_lock", "w_cas")
  \/ Enter(t, "w_lock", "w_check")
  \/ Check(t, "w_check", "w_push", "w_load")
  \/ WPush(t)
  \/ Yield(t, "w_yield", "w_load")
  \/ Cas(t, "w_cas", old[t] + WRITER_BIT, "w_drain", "w_load")
  \/ Drain(t)
  \/ Yield(t, "w_drain_yield", "w_drain")

(* runlock: the fetch_sub, and the wakeup when a writer waits for the last  *)
(* reader.                                                                  *)
RUnlockSub(t) ==
  /\ At(t, "reading_call")
  /\ state' = state - READER_INC
  /\ Goto(t, IF state - READER_INC = WRITER_BIT THEN "ru_lock" ELSE "out")
  /\ UNCHANGED <<rtVars, old, lock, readers, writers>>
(* Variant: the writer is popped and not made ready. *)
WakeWriterDrop ==
  /\ writers # <<>>
  /\ writers' = Tail(writers)
  /\ UNCHANGED ready_q

(* Pop one writer and make it ready. *)
WakeWriter ==
  /\ writers # <<>>
  /\ MakeReady(Head(writers))
  /\ writers' = Tail(writers)

RUnlockPop(t) ==
  /\ At(t, "ru_pop")
  /\ \/ WakeWriter
     \/ writers = <<>> /\ UNCHANGED <<ready_q, writers>>
  /\ lock' = NoTask
  /\ Goto(t, "out")
  /\ UNCHANGED <<current, preempt, old, state, readers>>

RUnlock(t) == RUnlockSub(t) \/ Enter(t, "ru_lock", "ru_pop") \/ RUnlockPop(t)

RWUnlockStore(t) ==
  /\ At(t, "wu_store")
  /\ state' = 0
  /\ Goto(t, "wu_pop")
  /\ UNCHANGED <<rtVars, old, lock, readers, writers>>

(* One writer is preferred; the readers are woken only when none waits. *)
RWUnlockPop(t) ==
  /\ At(t, "wu_pop")
  /\ \/ WakeWriter /\ lock' = NoTask /\ Goto(t, "out")
     \/ writers = <<>> /\ Goto(t, "wu_wake") /\ UNCHANGED <<ready_q, lock, writers>>
  /\ UNCHANGED <<current, preempt, old, state, readers>>
(* Variant: the readers stay asleep. *)
RWUnlockWakeNone(t) ==
  /\ At(t, "wu_wake")
  /\ lock' = NoTask
  /\ Goto(t, "out")
  /\ UNCHANGED <<rtVars, old, state, readers, writers>>

RWUnlockWake(t) ==
  /\ At(t, "wu_wake")
  /\ \/ /\ readers # <<>>
        /\ MakeReady(Head(readers))
        /\ readers' = Tail(readers)
        /\ UNCHANGED <<pc, lock>>
     \/ /\ readers = <<>>
        /\ lock' = NoTask
        /\ Goto(t, "out")
        /\ UNCHANGED <<ready_q, readers>>
  /\ UNCHANGED <<current, preempt, old, state, writers>>

RWUnlock(t) ==
  \/ Enter(t, "writing_call", "wu_store")
  \/ RWUnlockStore(t) \/ RWUnlockPop(t) \/ RWUnlockWake(t)

Finish(t) ==
  /\ At(t, "out")
  /\ TaskYield(t)
  /\ Goto(t, "done")
  /\ UNCHANGED <<ready_q, preempt, old, state, lock, readers, writers>>

Step(t) ==
  \/ SafePoint(t) \/ Call(t) \/ RLock(t) \/ RUnlock(t)
  \/ RWLock(t) \/ RWUnlock(t) \/ Finish(t)

Sched(k) == (Dispatch(k) \/ ForcePreempt(k)) /\ UNCHANGED rwVars

Terminated == (\A t \in Task : pc[t] = "done") /\ UNCHANGED vars

Next ==
  \/ \E t \in Task : Step(t)
  \/ \E k \in Thread : Sched(k)
  \/ Terminated

Spec == Init /\ [][Next]_vars

-----------------------------------------------------------------------------
Readers == {t \in Task : pc[t] \in {"reading", "reading_call"}}
Writers == {t \in Task : pc[t] \in {"writing", "writing_call", "wu_store"}}
Drainers == {t \in Task : pc[t] \in DrainPc}

TypeOK ==
  /\ RtTypeOK
  /\ pc \in [Task -> Pc]
  /\ old \in [Task -> Nat]
  /\ state \in Nat
  /\ lock \in Task \cup {NoTask}
  /\ readers \in Seq(Task)
  /\ writers \in Seq(Task)

(* The word counts its users: READER_INC for each reader, WRITER_BIT for    *)
(* the one task that writes or waits for readers to leave.  The store of 0  *)
(* in rwunlock is correct only because of this.                             *)
WordCountsUsers ==
  /\ state = READER_INC * Cardinality(Readers) + Cardinality(Writers \cup Drainers)
  /\ Cardinality(Writers \cup Drainers) <= 1

(* Exclusion: while a task is between the return of rwlock and the store of *)
(* rwunlock no other task reads or writes, and the word shows it exactly.   *)
Exclusion ==
  TypeOK /\ WordCountsUsers /\ \A w \in Writers : Readers = {} /\ Writers = {w}

Asleep(t) == t \in Range(readers) \cup Range(writers)

(* A task that can be found again: done, running, ready or queued. *)
Somewhere(t) == pc[t] = "done" \/ Running(t) \/ Ready(t) \/ Asleep(t)

(* Sleeping tasks are not forgotten: while one sleeps in a queue of the     *)
(* mutex, some task has the word's writer bit, is waking sleepers up, or is *)
(* a writer awake and about to ask for the bit: each of these ends in a     *)
(* rwunlock, which wakes the next.  In particular the readers that          *)
(* rwunlock leaves asleep when it prefers a writer have that writer.        *)
SleepersHaveAWaker ==
  readers # <<>> \/ writers # <<>> =>
    \E t \in Task : \/ t \in Writers \cup Drainers
                    \/ pc[t] \in {"wu_pop", "wu_wake"}
                    \/ pc[t] \in WLockPc /\ ~Asleep(t)

(* A task is resumed once for each time it slept: it is never in two of the *)
(* queues, and is queued while running only on its way to task_yield.       *)
QueuedOnce ==
  \A t \in Task :
    /\ Asleep(t) => ~Ready(t)
    /\ ~(t \in Range(readers) /\ t \in Range(writers))
    /\ Running(t) /\ (Ready(t) \/ Asleep(t)) => pc[t] \in {"r_yield", "w_yield"}

(* The only tasks that can be lost are the writers that wait for readers to *)
(* leave: every other task is running or in a queue, and in no two.         *)
OnlyDrainersGetLost ==
  QueuedOnce /\ \A t \in Task \ Drainers : Somewhere(t)
=============================================================================
