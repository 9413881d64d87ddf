-------------------------------- MODULE Futex --------------------------------
(***************************************************************************)
(* The futex calls of the os library (runtime/src/platform/linux/os.c)     *)
(* under the scheduler and the collector.  A call that waits puts the      *)
(* kernel thread to sleep, not the task: the other tasks pinned to that    *)
(* thread do not run, and the collector waits for a thread that cannot     *)
(* reach a safe point.  Tasks use the calls the way futexes are used: a    *)
(* task loads the word and waits with the value it saw, and a task that    *)
(* changes the word owes the sleepers a wake.                              *)
(***************************************************************************)
EXTENDS Naturals, FiniteSets

CONSTANTS Kernel,        \* the scheduler threads
          Fiber,         \* the tasks
          Pin,           \* the thread each task is pinned to
          Word,          \* the futex words
          Bit,           \* the bits of a bitset
          Counts,        \* wake and requeue counts
          NoFiber        \* NULL

ASSUME FutexAssumption == Pin \in [Fiber -> Kernel] /\ NoFiber \notin Fiber

VARIABLES word,          \* the values, 0 or 1
          queue,         \* external: the kernel's sleepers, a set: it promises
                         \* nothing about whom a call wakes first
          current,       \* the task each thread runs
          parked,        \* the threads stopped at a safe point
          world,         \* the collector: idle, stopping, stopped
          owes,          \* the words a task has changed and not woken yet
          exited         \* the threads that called os_exit

futexVars == <<word, queue, current, parked, world, owes, exited>>

FutexInit ==
  /\ word = [w \in Word |-> 0]
  /\ queue = {}
  /\ current = [k \in Kernel |-> NoFiber]
  /\ parked = {} /\ world = "idle"
  /\ owes = [f \in Fiber |-> {}] /\ exited = {}
-----------------------------------------------------------------------------
Sleeping == {s.who : s \in queue}

(* A task executes: it is on its thread, which is neither asleep in the    *)
(* kernel nor parked.                                                      *)
Executes(f) ==
  current[Pin[f]] = f /\ f \notin Sleeping /\ Pin[f] \notin parked \cup exited

(* The scheduler: an idle thread takes one of its tasks, and a task gives  *)
(* way at a safe point, where a thread parks while the world stops.        *)
Resume(f) ==
  /\ current[Pin[f]] = NoFiber /\ world # "stopped"
  /\ current' = [current EXCEPT ![Pin[f]] = f]
  /\ UNCHANGED <<word, queue, parked, world, owes, exited>>

Yield(f) ==
  /\ Executes(f) /\ world = "idle"
  /\ current' = [current EXCEPT ![Pin[f]] = NoFiber]
  /\ UNCHANGED <<word, queue, parked, world, owes, exited>>

Park(f) ==
  /\ Executes(f) /\ world = "stopping"
  /\ parked' = parked \cup {Pin[f]}
  /\ UNCHANGED <<word, queue, current, world, owes, exited>>

(* gc_stop_the_world waits for every thread that runs a task. *)
Busy == {k \in Kernel : current[k] # NoFiber}
gc_stop == world = "idle" /\ world' = "stopping" /\ UNCHANGED <<word, queue, current, parked, owes, exited>>
gc_stopped ==
  /\ world = "stopping" /\ Busy \subseteq parked /\ world' = "stopped"
  /\ UNCHANGED <<word, queue, current, parked, owes, exited>>
gc_resume ==
  /\ world = "stopped" /\ world' = "idle" /\ parked' = {}
  /\ UNCHANGED <<word, queue, current, owes, exited>>
-----------------------------------------------------------------------------
(* SYS_exit ends the calling thread, not the process. *)
os_exit(f) ==
  /\ Executes(f) /\ exited' = exited \cup {Pin[f]}
  /\ UNCHANGED <<word, queue, current, parked, world, owes>>

Change(f, w) ==
  /\ Executes(f) /\ owes[f] = {}
  /\ word' = [word EXCEPT ![w] = 1 - @] /\ owes' = [owes EXCEPT ![f] = {w}]
  /\ UNCHANGED <<queue, current, parked, world, exited>>

(* FUTEX_WAIT and FUTEX_WAIT_BITSET compare and sleep in one step; when    *)
(* the word does not have the value given, or the bitset is empty, the     *)
(* call returns -1 at once.                                                *)
Enqueue(f, w, v, bits, timed) ==
  /\ Executes(f) /\ owes[f] = {} /\ bits # {}
  /\ queue' = queue \cup {[who |-> f, at |-> w, val |-> v, bits |-> bits,
                            timed |-> timed, moved |-> FALSE]}
  /\ UNCHANGED <<word, current, parked, world, owes, exited>>

(* A defect to test against: the kernel is handed the value it should      *)
(* compare with from the word itself, and always puts the thread to sleep. *)
SleepAnyway(f, w, v, bits, timed) == Enqueue(f, w, v, bits, timed)

Sleep(f, w, v, bits, timed) == word[w] = v /\ Enqueue(f, w, v, bits, timed)

os_futex_wait(f, w) == \E v \in {0, 1}, timed \in BOOLEAN : Sleep(f, w, v, Bit, timed)
os_futex_wait_bitset(f, w) ==
  \E v \in {0, 1}, bits \in SUBSET Bit, timed \in BOOLEAN : Sleep(f, w, v, bits, timed)

(* The kernel ends a wait whose timeout has passed. *)
Timeout(s) ==
  /\ s.timed /\ queue' = queue \ {s}
  /\ UNCHANGED <<word, current, parked, world, owes, exited>>

(* The sleepers a call on w with a bitset is about, and n of a set of them, *)
(* or all when there are fewer.                                             *)
Matching(w, bits) == {s \in queue : s.at = w /\ s.bits \cap bits # {}}
Chosen(S, n) == {c \in SUBSET S : IF n < Cardinality(S) THEN Cardinality(c) = n ELSE c = S}

(* The debt is paid once nobody is left whom the call could have woken. *)
Pay(f, w) ==
  owes' = [owes EXCEPT ![f] = IF \A s \in queue' : s.at # w THEN @ \ {w} ELSE @]

Wake(f, w, bits, n) ==
  /\ Executes(f)
  /\ \E woken \in Chosen(Matching(w, bits), n) : queue' = queue \ woken
  /\ Pay(f, w)
  /\ UNCHANGED <<word, current, parked, world, exited>>

os_futex_wake(f, w) == \E n \in Counts : Wake(f, w, Bit, n)
os_futex_wake_bitset(f, w) == \E n \in Counts, bits \in SUBSET Bit : bits # {} /\ Wake(f, w, bits, n)
os_futex_wake_one(f, w) == Wake(f, w, Bit, 1)
os_futex_wake_all(f, w) == Wake(f, w, Bit, Cardinality(queue))

(* FUTEX_REQUEUE wakes some and moves others to the queue of another word; *)
(* FUTEX_CMP_REQUEUE does so only while the word has the value given.      *)
Moved(s, v) == [who |-> s.who, at |-> v, val |-> s.val, bits |-> s.bits,
                timed |-> s.timed, moved |-> TRUE]

Requeue(f, w, n, m, v) ==
  /\ Executes(f)
  /\ \E woken \in Chosen(Matching(w, Bit), n) :
       \E moved \in Chosen(Matching(w, Bit) \ woken, m) :
         queue' = (queue \ (woken \cup moved))
                    \cup {Moved(s, v) : s \in moved}
  /\ Pay(f, w)
  /\ UNCHANGED <<word, current, parked, world, exited>>

os_futex_requeue(f, w) == \E n, m \in Counts, v \in Word \ {w} : Requeue(f, w, n, m, v)
os_futex_cmp_requeue(f, w) ==
  \E n, m \in Counts, v \in Word \ {w}, val \in {0, 1} :
     word[w] = val /\ Requeue(f, w, n, m, v)

FiberStep(f) ==
  \/ Resume(f) \/ Yield(f) \/ Park(f) \/ os_exit(f)
  \/ Executes(f) /\ \E w \in Word :
       \/ Change(f, w) \/ os_futex_wait(f, w) \/ os_futex_wait_bitset(f, w)
       \/ os_futex_wake(f, w) \/ os_futex_wake_bitset(f, w)
       \/ os_futex_wake_one(f, w) \/ os_futex_wake_all(f, w)
       \/ os_futex_requeue(f, w) \/ os_futex_cmp_requeue(f, w)

FutexNext ==
  \/ gc_stop \/ gc_stopped \/ gc_resume
  \/ \E s \in queue : Timeout(s)
  \/ \E f \in Fiber : FiberStep(f)

FutexSpec == FutexInit /\ [][FutexNext]_futexVars
-----------------------------------------------------------------------------
(* The wait calls compare the word and go to sleep in one step (os.c:681), *)
(* so a thread that sleeps though the word has changed under it has a      *)
(* waker: a task that changed the word and has not finished waking, though *)
(* it may be queued behind the sleeper, stopped for a collector that waits *)
(* for the sleeper, or on a thread that os_exit has ended.  A sleeper that *)
(* was requeued waits for somebody else.  No thread sleeps twice, and the  *)
(* collector never counts a sleeping thread among the parked ones.         *)
NoSleeperForgotten ==
  /\ \A r, s \in queue : Pin[r.who] = Pin[s.who] => r = s
  /\ \A s \in queue :
       /\ current[Pin[s.who]] = s.who /\ Pin[s.who] \notin parked
       /\ s.moved \/ word[s.at] = s.val \/ \E f \in Fiber : s.at \in owes[f]
=============================================================================
