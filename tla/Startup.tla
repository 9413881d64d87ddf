------------------------------- MODULE Startup -------------------------------
(***************************************************************************)
(* The start of a program: main (runtime/src/main.c) creates the scheduler *)
(* threads, the queue of roots, the first task and the collector.  Each    *)
(* thread registers an arena of its own with gc_create_arena, which takes  *)
(* no lock, and then runs tasks; the collector walks the registered arenas *)
(* as soon as it exists.  The arena of a thread is named by the thread.    *)
(***************************************************************************)
EXTENDS Naturals, Integers, FiniteSets

CONSTANTS Threads,      \* SCHEDULER_THREAD_POOL_SIZE of them
          MAX_ARENAS,
          NoArena       \* NULL

(* Both sizes are 12 in the headers; the proofs need no more than this. *)
ASSUME StartupAssumption ==
  /\ IsFiniteSet(Threads) /\ Cardinality(Threads) <= MAX_ARENAS
  /\ MAX_ARENAS \in Nat /\ NoArena \notin Threads

VARIABLES mainpc,        \* main: threads, gc_init, task, gc_start, join
          threadpc,      \* a thread: unborn, check, create, register, idle, running
          seen,           \* the arenas_count a thread read for arenas_count++
          todo,           \* its writes that are not done yet: count, slot
          mine,           \* __arena__ of each thread
          arenas, arenas_count,
          ready,          \* the threads with a task in their ready_q
          total_threads,
          sweep,          \* the arena gc_sweep looks at next, -1 before gc_start
          crashed,        \* a NULL arena was dereferenced
          raced,          \* history: two registrations overlapped
          early           \* history: a task was running when gc_start reset the count

regVars == <<seen, todo, mine, arenas, arenas_count, raced>>
mainVars == <<mainpc, sweep, crashed>>
startVars == <<regVars, mainVars, threadpc, ready, total_threads, early>>

StartupInit ==
  /\ mainpc = "threads" /\ threadpc = [t \in Threads |-> "unborn"]
  /\ seen = [t \in Threads |-> 0] /\ todo = [t \in Threads |-> {}]
  /\ mine = [t \in Threads |-> NoArena]
  /\ arenas = [i \in 0..(MAX_ARENAS - 1) |-> NoArena] /\ arenas_count = 0
  /\ ready = {} /\ total_threads = 0
  /\ sweep = -1 /\ crashed = FALSE /\ raced = FALSE /\ early = FALSE
-----------------------------------------------------------------------------
(* init_scheduler: pthread_create for every thread, in turn. *)
init_scheduler(t) ==
  /\ mainpc = "threads" /\ threadpc[t] = "unborn"
  /\ threadpc' = [threadpc EXCEPT ![t] = "check"]
  /\ mainpc' = IF \A u \in Threads \ {t} : threadpc[u] # "unborn" THEN "gc_init" ELSE mainpc
  /\ UNCHANGED <<regVars, sweep, crashed, ready, total_threads, early>>

(* A defect to test against: the limit is reached one arena too early. *)
LimitTooSoon(t) ==
  /\ threadpc[t] = "check"
  /\ threadpc' = [threadpc EXCEPT ![t] = IF arenas_count + 1 >= MAX_ARENAS THEN "idle" ELSE "create"]
  /\ UNCHANGED <<regVars, mainVars, ready, total_threads, early>>

(* gc_create_arena checks the limit and creates the arena; a thread over   *)
(* the limit goes on with a NULL arena.                                    *)
gc_create_arena(t) ==
  /\ threadpc[t] = "check"
  /\ threadpc' = [threadpc EXCEPT ![t] = IF arenas_count + 1 > MAX_ARENAS THEN "idle" ELSE "create"]
  /\ UNCHANGED <<regVars, mainVars, ready, total_threads, early>>

(* arenas[arenas_count++] = ar: one read of the count, then two writes in  *)
(* the order the build gives them.                                         *)
ReadCount(t) ==
  /\ threadpc[t] = "create"
  /\ threadpc' = [threadpc EXCEPT ![t] = "register"]
  /\ seen' = [seen EXCEPT ![t] = arenas_count]
  /\ todo' = [todo EXCEPT ![t] = {"count", "slot"}]
  /\ raced' = (raced \/ \E u \in Threads : todo[u] # {})
  /\ UNCHANGED <<mine, arenas, arenas_count, mainVars, ready, total_threads, early>>

(* The write w is done; after both the thread has its arena and goes on. *)
Written(t, w) ==
  /\ w \in todo[t]
  /\ todo' = [todo EXCEPT ![t] = @ \ {w}]
  /\ threadpc' = [threadpc EXCEPT ![t] = IF todo[t] = {w} THEN "idle" ELSE @]
  /\ mine' = [mine EXCEPT ![t] = IF todo[t] = {w} THEN t ELSE @]
  /\ UNCHANGED <<seen, raced, mainVars, ready, total_threads, early>>

WriteCount(t) == Written(t, "count") /\ arenas_count' = seen[t] + 1 /\ UNCHANGED arenas

WriteSlot(t) ==
  Written(t, "slot") /\ arenas' = [arenas EXCEPT ![seen[t]] = t] /\ UNCHANGED arenas_count

(* The loop of scheduler_run: a popped task is counted in and resumed;     *)
(* when it comes back it is counted out, and it may be ready again.        *)
EnterWorld(t) ==
  /\ threadpc[t] = "idle" /\ t \in ready
  /\ threadpc' = [threadpc EXCEPT ![t] = "running"]
  /\ ready' = ready \ {t}
  /\ total_threads' = total_threads + 1
  /\ UNCHANGED <<regVars, mainVars, early>>

(* A defect to test against: only a task that will run again is counted out. *)
LeaveUncounted(t) ==
  /\ threadpc[t] = "running"
  /\ threadpc' = [threadpc EXCEPT ![t] = "idle"]
  /\ \/ total_threads' = total_threads - 1 /\ ready' = ready \cup {t}
     \/ UNCHANGED <<total_threads, ready>>
  /\ UNCHANGED <<regVars, mainVars, early>>

LeaveWorld(t) ==
  /\ threadpc[t] = "running"
  /\ threadpc' = [threadpc EXCEPT ![t] = "idle"]
  /\ total_threads' = total_threads - 1
  /\ \E again \in BOOLEAN : ready' = IF again THEN ready \cup {t} ELSE ready
  /\ UNCHANGED <<regVars, mainVars, early>>
-----------------------------------------------------------------------------
(* main: the queue of roots, the first task on some thread, the collector. *)
gc_init ==
  /\ mainpc = "gc_init" /\ mainpc' = "task"
  /\ UNCHANGED <<regVars, threadpc, sweep, crashed, ready, total_threads, early>>

thread(t) ==
  /\ mainpc = "task" /\ mainpc' = "gc_start" /\ ready' = ready \cup {t}
  /\ UNCHANGED <<regVars, threadpc, sweep, crashed, total_threads, early>>

Running == {t \in Threads : threadpc[t] = "running"}

(* gc_start resets the counters of the world and starts gc_run. *)
gc_start ==
  /\ mainpc = "gc_start" /\ mainpc' = "join"
  /\ total_threads' = 0 /\ sweep' = 0
  /\ early' = (Running # {})
  /\ UNCHANGED <<regVars, threadpc, crashed, ready>>

(* gc_sweep reads arenas_count again before every arena, and every arena   *)
(* it reads is dereferenced.  try_mark_pointer runs the same loop.         *)
gc_walk ==
  /\ sweep >= 0
  /\ IF sweep >= arenas_count THEN sweep' = 0 /\ UNCHANGED crashed
     ELSE IF arenas[sweep] = NoArena THEN crashed' = TRUE /\ UNCHANGED sweep
     ELSE sweep' = sweep + 1 /\ UNCHANGED crashed
  /\ UNCHANGED <<regVars, mainpc, threadpc, ready, total_threads, early>>

ThreadStep(t) ==
  \/ init_scheduler(t) \/ gc_create_arena(t) \/ ReadCount(t) \/ WriteCount(t)
  \/ WriteSlot(t) \/ EnterWorld(t) \/ LeaveWorld(t) \/ thread(t)

(* A crash ends the process. *)
StartupNext ==
  /\ ~crashed
  /\ gc_init \/ gc_start \/ gc_walk \/ \E t \in Threads : ThreadStep(t)

StartupSpec == StartupInit /\ [][StartupNext]_startVars
-----------------------------------------------------------------------------
StartupTypeOK ==
  /\ mainpc \in {"threads", "gc_init", "task", "gc_start", "join"}
  /\ threadpc \in [Threads -> {"unborn", "check", "create", "register", "idle", "running"}]
  /\ seen \in [Threads -> 0..(MAX_ARENAS - 1)]
  /\ todo \in [Threads -> SUBSET {"count", "slot"}]
  /\ mine \in [Threads -> Threads \cup {NoArena}]
  /\ arenas \in [0..(MAX_ARENAS - 1) -> Threads \cup {NoArena}]
  /\ arenas_count \in 0..MAX_ARENAS
  /\ ready \subseteq Threads /\ total_threads \in Int
  /\ sweep \in -1..MAX_ARENAS
  /\ {crashed, raced, early} \subseteq BOOLEAN

Registered == {t \in Threads : threadpc[t] \in {"idle", "running"}}

(* arenas[arenas_count++] = ar (gc.c:72) runs without a lock in every      *)
(* scheduler thread.  Unless two registrations overlap, every thread that  *)
(* is past its own has an arena the collector finds, and the collector     *)
(* dereferences a NULL arena only between the two writes of a registration *)
(* whose count comes first.                                                *)
ArenaFound(t) == mine[t] = t /\ \E i \in 0..(arenas_count - 1) : arenas[i] = t

ArenasRegistered ==
  \/ raced
  \/ /\ \A t \in Registered : ArenaFound(t)
     /\ crashed => \E t \in Threads : todo[t] = {"slot"}

(* gc_start sets total_threads to 0 (gc.c:269) after the first task was    *)
(* queued: the count gc_stop_the_world waits for is the number of threads  *)
(* that run a task, unless one already ran when the collector started.     *)
WorldCounted == early \/ total_threads = Cardinality(Running)
=============================================================================
