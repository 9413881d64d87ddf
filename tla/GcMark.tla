------------------------------- MODULE GcMark -------------------------------
(***************************************************************************)
(* Mark and sweep of runtime/src/gc.c over an abstract heap.  Tasks        *)
(* allocate chunks, store pointers to them in each other, spawn tasks with *)
(* chunks as arguments and return; the collector walks the ring of root    *)
(* tasks, marks what their stacks point to, and releases every chunk that  *)
(* is in use and not marked.  The world is taken to be stopped properly    *)
(* (GcWorld is about that), with the one exception the code makes: a       *)
(* scheduler thread that has just counted itself out of the world destroys *)
(* its finished task, which unlinks the task from the ring without         *)
(* stopping for the collector.  A chunk has one pointer field, and a stack *)
(* is the set of chunks its words point to.                                *)
(***************************************************************************)
EXTENDS Naturals, Sequences, Functions

CONSTANTS Task, Obj,
          Nil,           \* NULL
          Main           \* the task of start(), spawned before the collector

ASSUME MarkAssumption == Main \in Task /\ Nil \notin Task \cup Obj

VARIABLES life,          \* unborn, spawned, running, finished, freed
          stack,         \* the chunks the stack of a task points to
          payload,       \* task_payload_t: the arguments, in the global arena
          field,         \* the pointer field of each chunk
          inuse,         \* the chunks in use, in the arenas of the threads
          mark,          \* the chunks with their mark bit set
          roots,         \* the ring of root tasks, from roots->head on
          cpc,           \* the collector: idle, marking, sweeping, lost
          head, tm,      \* the locals of gc_mark
          disturbed      \* history: a root was destroyed during this collection

mutVars == <<life, stack, payload, field>>
heapVars == <<inuse, mark>>
collectorVars == <<cpc, head, tm, disturbed>>
markVars == <<mutVars, heapVars, roots, collectorVars>>

MarkInit ==
  /\ life = [t \in Task |-> IF t = Main THEN "running" ELSE "unborn"]
  /\ stack = [t \in Task |-> {}]
  /\ payload = [t \in Task |-> {}]
  /\ field = [o \in Obj |-> Nil]
  /\ inuse = {} /\ mark = {}
  /\ roots = <<Main>>
  /\ cpc = "idle" /\ head = Nil /\ tm = Nil /\ disturbed = FALSE
-----------------------------------------------------------------------------
(* A task executes user code while the world runs. *)
Runs(t) == cpc = "idle" /\ life[t] = "running"

(* __public__alloc; the chunk is handed out zeroed or overwritten. *)
Alloc(t, o) ==
  /\ Runs(t) /\ o \notin inuse
  /\ inuse' = inuse \cup {o}
  /\ field' = [field EXCEPT ![o] = Nil]
  /\ stack' = [stack EXCEPT ![t] = @ \cup {o}]
  /\ UNCHANGED <<life, payload, mark, roots, collectorVars>>

(* A pointer is stored in a chunk, or loaded from one.  What a program does *)
(* with a chunk after it was released is left out.                          *)
StorePointer(t, o, p) ==
  /\ Runs(t) /\ {o, p} \subseteq stack[t] /\ o \in inuse
  /\ field' = [field EXCEPT ![o] = p]
  /\ UNCHANGED <<life, stack, payload, heapVars, roots, collectorVars>>

LoadPointer(t, o) ==
  /\ Runs(t) /\ o \in stack[t] \cap inuse /\ field[o] # Nil
  /\ stack' = [stack EXCEPT ![t] = @ \cup {field[o]}]
  /\ UNCHANGED <<life, payload, field, heapVars, roots, collectorVars>>

(* A variable goes out of scope or is overwritten. *)
Drop(t, o) ==
  /\ Runs(t) /\ o \in stack[t]
  /\ stack' = [stack EXCEPT ![t] = @ \ {o}]
  /\ UNCHANGED <<life, payload, field, heapVars, roots, collectorVars>>

(* thread() and task_create: the arguments are copied to a payload in the   *)
(* global arena, and safe_gcq_push makes the new task the head of the ring. *)
Spawn(t, u, o) ==
  /\ Runs(t) /\ life[u] = "unborn" /\ o \in stack[t]
  /\ life' = [life EXCEPT ![u] = "spawned"]
  /\ payload' = [payload EXCEPT ![u] = {o}]
  /\ roots' = <<u>> \o roots
  /\ UNCHANGED <<stack, field, heapVars, collectorVars>>

(* task_trampoline calls the function with its arguments. *)
Start(u) ==
  /\ cpc = "idle" /\ life[u] = "spawned"
  /\ life' = [life EXCEPT ![u] = "running"]
  /\ stack' = [stack EXCEPT ![u] = payload[u]]
  /\ UNCHANGED <<payload, field, heapVars, roots, collectorVars>>

(* The function returns: the payload is released, the task TASK_FINISHED. *)
TaskReturn(t) ==
  /\ Runs(t)
  /\ life' = [life EXCEPT ![t] = "finished"]
  /\ payload' = [payload EXCEPT ![t] = {}]
  /\ UNCHANGED <<stack, field, heapVars, roots, collectorVars>>

(* The ring without its i-th node. *)
Unlinked(q, i) == SubSeq(q, 1, i - 1) \o SubSeq(q, i + 1, Len(q))

(* task_destroy: gc_unregister_root unlinks the task, then all is freed. *)
Destroy(t) ==
  /\ life[t] = "finished"
  /\ disturbed' = (cpc # "idle")
  /\ \E i \in DOMAIN roots : roots[i] = t /\ roots' = Unlinked(roots, i)
  /\ life' = [life EXCEPT ![t] = "freed"]
  /\ stack' = [stack EXCEPT ![t] = {}]
  /\ UNCHANGED <<payload, field, heapVars, cpc, head, tm>>
-----------------------------------------------------------------------------
(* gc_stop_the_world, and the start of gc_mark. *)
StartMark ==
  /\ cpc = "idle"
  /\ IF roots = <<>> THEN cpc' = "sweeping" /\ UNCHANGED <<head, tm>>
                     ELSE cpc' = "marking" /\ head' = Head(roots) /\ tm' = Head(roots)
  /\ UNCHANGED <<mutVars, heapVars, roots, disturbed>>

(* mark_chunk_recursive scans the payload of a chunk unless it is marked:  *)
(* the chunk in use that the payload points to gets its mark bit, and the  *)
(* call that follows for it finds it marked.                               *)
MarkChunkRecursive(m, o) == IF o \in m THEN m ELSE m \cup ({field[o]} \cap inuse)

(* try_mark_pointer sets the mark bit of the chunk, and then calls it. *)
TryMarkPointer(m, o) == MarkChunkRecursive(m \cup {o}, o)

(* gc_mark_task: stack and registers, word by word; words that point to no *)
(* chunk in use are passed over, and no mark of one word keeps another     *)
(* from being set.                                                         *)
MarkTask(m, t) == m \cup UNION {TryMarkPointer(m, o) : o \in stack[t] \cap inuse}

(* node->fd in the ring; the fd of a node that was unlinked is NULL.       *)
Fd(t) ==
  IF t \in Range(roots)
  THEN LET i == CHOOSE j \in DOMAIN roots : roots[j] = t
       IN IF i = Len(roots) THEN Head(roots) ELSE roots[i + 1]
  ELSE Nil

(* Variants of the loop: one that looks at the head only, one that ends at  *)
(* a NULL only, one that scans the stacks of finished tasks too.            *)
MarkLoop(scanned, done) ==
  /\ cpc = "marking"
  /\ mark' = IF scanned THEN MarkTask(mark, tm) ELSE mark
  /\ tm' = Fd(tm)
  /\ cpc' = IF done THEN "sweeping" ELSE "marking"
  /\ UNCHANGED <<mutVars, inuse, roots, head, disturbed>>
MarkRootOnce == MarkLoop(life[tm] \notin {"finished", "freed"}, TRUE)
MarkRootToNull == MarkLoop(life[tm] \notin {"finished", "freed"}, Fd(tm) = Nil)
MarkRootFinished == MarkLoop(TRUE, Fd(tm) \in {Nil, head})

(* One turn of the loop of gc_mark.  The node of a destroyed task has been *)
(* released, so its fd may also be the link of a free list; the collector  *)
(* is then lost.                                                           *)
MarkRoot ==
  /\ cpc = "marking"
  /\ mark' = IF life[tm] \in {"finished", "freed"} THEN mark ELSE MarkTask(mark, tm)
  /\ tm' = Fd(tm)
  /\ \/ cpc' = IF Fd(tm) \in {Nil, head} THEN "sweeping" ELSE "marking"
     \/ life[tm] = "freed" /\ cpc' = "lost"
  /\ UNCHANGED <<mutVars, inuse, roots, head, disturbed>>

(* gc_sweep and gc_resume_world: marked chunks lose their mark, unmarked   *)
(* ones in use are released.                                               *)
Sweep ==
  /\ cpc = "sweeping"
  /\ inuse' = inuse \cap mark
  /\ mark' = {}
  /\ cpc' = "idle" /\ head' = Nil /\ tm' = Nil /\ disturbed' = FALSE
  /\ UNCHANGED <<mutVars, roots>>

Lost == cpc = "lost" /\ UNCHANGED markVars

ProgramStep(t) ==
  \/ \E o \in Obj : Alloc(t, o) \/ LoadPointer(t, o) \/ Drop(t, o)
  \/ \E o, p \in Obj : StorePointer(t, o, p)
  \/ \E o \in Obj, u \in Task : Spawn(t, u, o)
  \/ Start(t) \/ TaskReturn(t) \/ Destroy(t)

CollectorStep == StartMark \/ MarkRoot \/ Sweep

MarkNext == CollectorStep \/ Lost \/ \E t \in Task : ProgramStep(t)

MarkSpec == MarkInit /\ [][MarkNext]_markVars

(* The collector's thread runs; it starts a collection again and again. *)
FairMarkSpec == MarkSpec /\ WF_markVars(CollectorStep)
-----------------------------------------------------------------------------
(* What the running tasks point to, and what can be reached from a set. *)
OnStacks == UNION {stack[t] : t \in {u \in Task : life[u] = "running"}}
Pending == UNION {payload[t] : t \in {u \in Task : life[u] = "spawned"}}
Reachable(from) ==
  {o \in Obj : \A S \in SUBSET Obj :
     from \subseteq S /\ (\A p \in S : field[p] \in S \cup {Nil}) => o \in S}

(* No collection releases a chunk that the stack of a running task points  *)
(* to, whichever task has the pointer and however tasks come and go: the   *)
(* walk of gc_mark visits every one of them, unless a task is destroyed    *)
(* while it lasts.                                                         *)
StackKept == [][disturbed \/ OnStacks \cap inuse \subseteq inuse']_markVars

(* Garbage goes: what no task can reach when gc_sweep runs is not in use   *)
(* after it, finished tasks and their stacks notwithstanding, and no mark  *)
(* bit stays set, so that no collection keeps a chunk for what an earlier  *)
(* one found.                                                              *)
GarbageGone ==
  [][cpc = "sweeping" /\ cpc' = "idle" =>
       inuse' \subseteq Reachable(OnStacks \cup Pending) /\ mark' = {}]_markVars

(* The walk of gc_mark round the ring of roots ends, with the same proviso. *)
MarkingEnds == (cpc = "marking") ~> (cpc # "marking" \/ disturbed)

(* A chunk a running task can reach, through other chunks too, is not      *)
(* released (the promise of __public__alloc).                              *)
ReachableKept == Reachable(OnStacks) \subseteq inuse
=============================================================================
