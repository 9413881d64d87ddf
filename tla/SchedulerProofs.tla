--------------------------- MODULE SchedulerProofs ---------------------------
(***************************************************************************)
(* The life of a task is what its place says: an inductive invariant that  *)
(* ties life, the queues, the threads' current tasks, the spawns under     *)
(* way, task_count and the roots together, for every number of threads and *)
(* tasks.                                                                  *)
(***************************************************************************)
EXTENDS Scheduler, Startup, FiniteSetTheorems, TLAPS

(* A ready queue holds a task at most once; NULL it may hold often. *)
Once(q) == \A i, j \in 1 .. Len(q) : q[i] = q[j] /\ q[i] # NULL => i = j

BusyPc == {"run", "yield", "retire", "unregister", "unlock_again", "free"}

(* A task that waits somewhere is live, and waits in one place. *)
Placed(t) ==
  /\ t \in parked => life[t] = "live"
  /\ \A k \in Thread : t \in Range(ready_q[k]) =>
       life[t] = "live" /\ sched_id[t] = k /\ t \notin parked

(* What a thread's place says of its current task. *)
Holds(k) ==
  /\ current[k] # NULL <=> tpc[k] \in BusyPc
  /\ current[k] # NULL => sched_id[current[k]] = k
  /\ tpc[k] \in {"run", "yield"} => life[current[k]] = "live"
  /\ tpc[k] = "retire" => life[current[k]] = "finished"
  /\ tpc[k] \in {"unregister", "unlock_again", "free"} => life[current[k]] = "retired"
  /\ tpc[k] = "run" => current[k] \notin parked /\ current[k] \notin Range(ready_q[k])

Places ==
  /\ TypeOK
  /\ \A k \in Thread : Once(ready_q[k]) /\ Holds(k)
  /\ \A t \in Task : Placed(t)

(* A caller inside thread() has a task of its own, not yet pushed, *)
SpawnersOwn ==
  /\ \A c \in Caller : spawning[c] # NULL => life[spawning[c]] \in {"created", "counted"}
  /\ \A c, d \in Caller : spawning[c] = spawning[d] /\ spawning[c] # NULL => c = d

(* a task not yet pushed has a caller inside thread(), *)
SpawnedHaveOne ==
  \A t \in Task : life[t] \in {"created", "counted"} => \E c \in Caller : spawning[c] = t

(* and before main has spawned the first task there is no other. *)
MainIsFirst ==
  /\ \A k \in Thread : spawning[k] # NULL => tpc[k] = "run"
  /\ mpc = "spawn" <=> spawning[Main] # NULL
  /\ mpc \in {"start", "spawn"} => \A t \in Task : life[t] # "unborn" => t = spawning[Main]

Spawns == SpawnersOwn /\ SpawnedHaveOne /\ MainIsFirst

Count == IsFiniteSet(Counted) /\ CountIsExact

(* The roots are the tasks that exist, until safe_gcq_remove. *)
Rooted ==
  \A t \in Task : t \in roots <=>
    \/ life[t] \in {"created", "counted", "live", "finished"}
    \/ \E k \in Thread : tpc[k] = "unregister" /\ current[k] = t

(* Nothing runs and nothing can start. *)
Over ==
  /\ \A t \in Task : life[t] \in {"unborn", "retired", "freed"}
  /\ \A c \in Caller : spawning[c] = NULL
  /\ mpc \in {"join", "returned"}

(* Thread k knows that the last task is retired. *)
KnowsLast(k) ==
  \/ tpc[k] \in {"unregister", "unlock_again", "free"} /\ remaining[k] = 0
  \/ tpc[k] \in {"recheck", "signal", "exit"}
  \/ NULL \in Range(ready_q[k])

Ends ==
  /\ \A k \in Thread : KnowsLast(k) \/ tpc[k] = "unlock_again" => Over
  /\ \A k \in Thread : tpc[k] = "unlock_again" =>
       \A j \in Thread \ {k} : tpc[j] \notin {"unregister", "unlock_again"}

IInv == Places /\ Spawns /\ Count /\ Rooted /\ Ends

(* Zenon proves every step that does not ask for SMT; the limits, and the second call of the SMT *)
(* solver, leave room for slow machines. *)
USE ZenonT(60)

-----------------------------------------------------------------------------
LEMMA Callers ==
  Thread \subseteq Caller /\ Main \in Caller \ Thread /\ Caller = Thread \cup {Main}
BY SchedulerAssumption, SMTT(30), Z3T(30) DEF Thread, Main, Caller

(* safe_q_push of NULL, or of a task that is not in the queue. *)
LEMMA PushOnce ==
  ASSUME NEW q \in Seq(Task \cup {NULL}), NEW x \in Task \cup {NULL}, Once(q),
         x = NULL \/ x \notin Range(q)
  PROVE  /\ Append(q, x) \in Seq(Task \cup {NULL}) /\ Once(Append(q, x))
         /\ Range(Append(q, x)) = Range(q) \cup {x}
<1>1. /\ Append(q, x) \in Seq(Task \cup {NULL})
      /\ Len(Append(q, x)) = Len(q) + 1 /\ Len(q) \in Nat
      /\ DOMAIN Append(q, x) = 1 .. Len(q) + 1 /\ DOMAIN q = 1 .. Len(q)
      /\ Append(q, x)[Len(q) + 1] = x
      /\ \A i \in 1 .. Len(q) : Append(q, x)[i] = q[i]
  BY SMTT(30), Z3T(30)
<1>2. x # NULL => \A i \in 1 .. Len(q) : q[i] # x
  BY <1>1 DEF Range
<1>3. Once(Append(q, x))
  BY <1>1, <1>2, SMTT(30), Z3T(30) DEF Once
<1>4. Range(Append(q, x)) = Range(q) \cup {x}
  BY <1>1, SMTT(30), Z3T(30) DEF Range
<1> QED BY <1>1, <1>3, <1>4

(* safe_q_pop_wait: a task that is taken out is not in the queue any more. *)
LEMMA PopOnce ==
  ASSUME NEW q \in Seq(Task \cup {NULL}), q # <<>>, Once(q)
  PROVE  /\ Head(q) \in Task \cup {NULL} /\ Head(q) \in Range(q)
         /\ Tail(q) \in Seq(Task \cup {NULL}) /\ Once(Tail(q))
         /\ Range(Tail(q)) \subseteq Range(q)
         /\ Head(q) # NULL => Head(q) \notin Range(Tail(q))
<1>1. /\ DOMAIN q = 1 .. Len(q) /\ Len(q) \in Nat /\ Len(q) # 0
      /\ Head(q) = q[1]
      /\ Tail(q) \in Seq(Task \cup {NULL}) /\ Len(Tail(q)) = Len(q) - 1
      /\ DOMAIN Tail(q) = 1 .. Len(q) - 1
      /\ \A i \in 1 .. Len(q) - 1 : Tail(q)[i] = q[i + 1]
  BY SMTT(30), Z3T(30)
<1>2. Head(q) \in Task \cup {NULL} /\ Head(q) \in Range(q)
  BY <1>1, SMTT(30), Z3T(30) DEF Range
<1>3. Once(Tail(q))
  BY <1>1, SMTT(30), Z3T(30) DEF Once
<1>4. ASSUME NEW y \in Range(Tail(q))
      PROVE  y \in Range(q) /\ (Head(q) # NULL => y # Head(q))
  <2>1. PICK i \in 1 .. Len(q) - 1 : y = Tail(q)[i]
    BY <1>1, <1>4 DEF Range
  <2>2. y = q[i + 1] /\ i + 1 \in 1 .. Len(q) /\ i + 1 # 1 /\ 1 \in 1 .. Len(q)
    BY <1>1, <2>1, SMTT(30), Z3T(30)
  <2> QED BY <1>1, <2>2 DEF Range, Once
<1> QED BY <1>1, <1>2, <1>3, <1>4

(* A busy thread has a task, and no other thread has the same one. *)
LEMMA Holder ==
  ASSUME Places, NEW k \in Thread, tpc[k] \in BusyPc
  PROVE  /\ current[k] \in Task /\ sched_id[current[k]] = k
         /\ \A j \in Thread \ {k} : current[j] # current[k]
BY SchedulerAssumption, SMTT(30), Z3T(30) DEF Places, Holds, TypeOK

(* A task that is nobody's current one and in no queue: unborn, being       *)
(* created, or gone.                                                        *)
LEMMA Elsewhere ==
  ASSUME Places, NEW t \in Task, life[t] \in {"unborn", "created", "counted", "freed"}
  PROVE  t \notin parked /\ \A k \in Thread : t # current[k] /\ t \notin Range(ready_q[k])
<1>1. t \notin parked /\ \A k \in Thread : t \notin Range(ready_q[k])
  BY DEF Places, Placed
<1>2. ASSUME NEW k \in Thread, t = current[k] PROVE FALSE
  <2>1. tpc[k] \in BusyPc /\ Holds(k)
    BY <1>2, SchedulerAssumption DEF Places, Holds
  <2> QED BY <1>2, <2>1 DEF Holds, BusyPc
<1> QED BY <1>1, <1>2

(* While there is a task left no thread knows of an end. *)
LEMMA NotOver ==
  ASSUME Ends, ~Over
  PROVE  \A k \in Thread : ~KnowsLast(k) /\ tpc[k] # "unlock_again"
BY DEF Ends

LEMMA InitInv == Init => IInv
<1> SUFFICES ASSUME Init PROVE IInv
  OBVIOUS
<1>1. /\ <<>> \in Seq(Task \cup {NULL}) /\ Range(<<>>) = {} /\ Once(<<>>)
  BY SMTT(30), Z3T(30) DEF Range, Once
<1>2. TypeOK
  BY <1>1, SchedulerAssumption, SMTT(30), Z3T(30) DEF Init, TypeOK, Thread, Caller
<1>3. \A k \in Thread : Once(ready_q[k]) /\ Holds(k) /\ ~KnowsLast(k) /\ tpc[k] = "pop"
  BY <1>1 DEF Init, Holds, KnowsLast, BusyPc
<1>4. \A t \in Task : Placed(t)
  BY <1>1 DEF Init, Placed
<1>5. Spawns
  BY SchedulerAssumption, Callers DEF Init, Spawns, SpawnersOwn, SpawnedHaveOne, MainIsFirst
<1>6. Counted = {}
  BY DEF Init, Counted
<1>7. Count
  BY <1>6, FS_EmptySet DEF Count, CountIsExact, Init
<1>8. Rooted
  BY <1>3 DEF Init, Rooted
<1> QED BY <1>2, <1>3, <1>4, <1>5, <1>7, <1>8 DEF IInv, Places, Ends

-----------------------------------------------------------------------------
LEMMA SpawnTypes ==
  ASSUME IInv
  PROVE  NULL \notin Task /\ \A c \in Caller : spawning[c] \in Task \cup {NULL}
BY SchedulerAssumption DEF IInv, Places, TypeOK

(* A thread is busy only after main has spawned the first task. *)
LEMMA Started ==
  ASSUME IInv, NEW k \in Thread, tpc[k] \in BusyPc
  PROVE  mpc \in {"join", "returned"} /\ spawning[Main] = NULL
<1>1. current[k] \in Task /\ Holds(k)
  BY Holder DEF IInv, Places
<1>2. life[current[k]] \in {"live", "finished", "retired"}
  BY <1>1 DEF Holds, BusyPc
<1>3. Main \in Caller /\ mpc \in {"start", "spawn", "join", "returned"}
  BY Callers DEF IInv, Places, TypeOK
<1> QED BY <1>1, <1>2, <1>3, SchedulerAssumption, SMTT(30), Z3T(30) DEF IInv, Spawns, SpawnersOwn, MainIsFirst

(* A caller of thread() is main before the first task, or a live task. *)
LEMMA SpawnCreateInv ==
  ASSUME IInv, NEW c \in Caller, NEW t \in Task, NEW k \in Thread, SpawnCreate(c, t, k)
  PROVE  IInv'
<1>1. /\ life[t] = "unborn" /\ life'[t] = "created" /\ \A u \in Task \ {t} : life'[u] = life[u]
      /\ \A u \in Task \ {t} : sched_id'[u] = sched_id[u]
      /\ spawning[c] = NULL /\ spawning'[c] = t
      /\ \A d \in Caller \ {c} : spawning'[d] = spawning[d]
      /\ roots' = roots \cup {t}
      /\ UNCHANGED <<ready_q, current, parked, task_count, remaining, tpc, signalled>>
  BY DEF SpawnCreate, MaySpawn, IInv, Places, TypeOK
<1>2. t \notin parked /\ \A j \in Thread : t # current[j] /\ t \notin Range(ready_q[j])
  BY <1>1, Elsewhere DEF IInv
<1>3. TypeOK'
  BY DEF SpawnCreate, IInv, Places, TypeOK
<1>4. \A u \in Task : Placed(u)'
  BY <1>1, <1>2, SMTT(30), Z3T(30) DEF Placed, IInv, Places
<1>5. ASSUME NEW j \in Thread PROVE Holds(j)'
  <2>1. Holds(j) /\ (current[j] # NULL => current[j] \in Task \ {t})
    BY <1>2 DEF IInv, Places, TypeOK
  <2> QED BY <1>1, <2>1 DEF Holds, BusyPc
<1>6. Places'
  BY <1>1, <1>3, <1>4, <1>5 DEF IInv, Places
<1>7. ~Over /\ Spawns'
  <2>1. t # NULL /\ \A d \in Caller : spawning[d] # t
    BY <1>1, SchedulerAssumption DEF IInv, Spawns, SpawnersOwn
  <2>2. CASE c = Main
    <3>1. mpc = "start" /\ mpc' = "spawn"
      BY <2>2 DEF SpawnCreate, MaySpawn
    <3>2. \A u \in Task : life[u] = "unborn"
      BY <1>1, <2>2, <3>1, SchedulerAssumption DEF IInv, Spawns, MainIsFirst
    <3>3. \A d \in Caller : spawning[d] = NULL
      BY <3>2, SpawnTypes DEF IInv, Spawns, SpawnersOwn
    <3>4. Spawns'
      BY <1>1, <2>1, <2>2, <3>1, <3>2, <3>3, Callers, SMTT(30), Z3T(30)
      DEF Spawns, SpawnersOwn, SpawnedHaveOne, MainIsFirst
    <3> QED BY <3>1, <3>4 DEF Over
  <2>3. CASE c # Main
    <3>1. c \in Thread /\ tpc[c] = "run" /\ mpc' = mpc
      BY <2>3, Callers DEF SpawnCreate, MaySpawn
    <3>2. mpc \in {"join", "returned"} /\ life[current[c]] = "live" /\ current[c] \in Task
      BY <3>1, Started, Holder DEF IInv, Places, Holds, BusyPc
    <3>3. SpawnersOwn'
      BY <1>1, <2>1, SpawnTypes, SMTT(30), Z3T(30) DEF IInv, Spawns, SpawnersOwn
    <3>4. SpawnedHaveOne'
      BY <1>1, SpawnTypes, SMTT(30), Z3T(30) DEF IInv, Spawns, SpawnedHaveOne
    <3>5. MainIsFirst'
      <4>1. \A j \in Thread : spawning'[j] # NULL => tpc'[j] = "run"
        BY <1>1, <3>1, Callers DEF IInv, Spawns, MainIsFirst
      <4>2. spawning'[Main] = spawning[Main]
        BY <1>1, <2>3, Callers
      <4> QED BY <3>1, <3>2, <4>1, <4>2 DEF IInv, Spawns, MainIsFirst
    <3> QED BY <3>2, <3>3, <3>4, <3>5 DEF Over, Spawns
  <2> QED BY <2>2, <2>3
<1>8. Count'
  <2>1. Counted' = Counted
    BY <1>1 DEF Counted
  <2> QED BY <1>1, <2>1 DEF IInv, Count, CountIsExact
<1>9. Rooted'
  BY <1>1 DEF IInv, Rooted
<1>10. Ends'
  BY <1>1, <1>7, NotOver DEF IInv, Ends, KnowsLast
<1> QED BY <1>6, <1>7, <1>8, <1>9, <1>10 DEF IInv

LEMMA SpawnCountInv ==
  ASSUME IInv, NEW c \in Caller, SpawnCount(c)
  PROVE  IInv'
<1>1. PICK t \in Task : t = spawning[c]
  BY DEF SpawnCount, IInv, Places, TypeOK
<1>2. /\ life[t] = "created" /\ life'[t] = "counted" /\ \A u \in Task \ {t} : life'[u] = life[u]
      /\ task_count' = task_count + 1
      /\ UNCHANGED <<sched_id, spawning, ready_q, current, parked, roots, tpc, remaining,
                     signalled, mpc>>
  BY <1>1 DEF SpawnCount, IInv, Places, TypeOK
<1>3. t \notin parked /\ \A j \in Thread : t # current[j] /\ t \notin Range(ready_q[j])
  BY <1>2, Elsewhere DEF IInv
<1>4. TypeOK'
  BY SMTT(30), Z3T(30) DEF SpawnCount, IInv, Places, TypeOK
<1>5. \A u \in Task : Placed(u)'
  BY <1>2, <1>3 DEF Placed, IInv, Places
<1>6. ASSUME NEW j \in Thread PROVE Holds(j)'
  <2>1. Holds(j) /\ (current[j] # NULL => current[j] \in Task \ {t})
    BY <1>3 DEF IInv, Places, TypeOK
  <2> QED BY <1>2, <2>1 DEF Holds, BusyPc
<1>7. Places'
  BY <1>2, <1>4, <1>5, <1>6 DEF IInv, Places
<1>8. Spawns'
  <2>1. \A u \in Task : life[u] \in {"created", "counted"} <=> life'[u] \in {"created", "counted"}
    BY <1>2
  <2>2. \A u \in Task : life[u] = "unborn" <=> life'[u] = "unborn"
    BY <1>2
  <2>3. SpawnersOwn'
    BY <1>2, <2>1, SpawnTypes DEF IInv, Spawns, SpawnersOwn
  <2> QED BY <1>2, <2>1, <2>2, <2>3 DEF IInv, Spawns, SpawnedHaveOne, MainIsFirst
<1>9. Count'
  <2>1. Counted' = Counted \cup {t} /\ t \notin Counted
    BY <1>2 DEF Counted
  <2>2. IsFiniteSet(Counted') /\ Cardinality(Counted') = Cardinality(Counted) + 1
    BY <2>1, FS_AddElement DEF IInv, Count
  <2> QED BY <1>2, <2>2 DEF IInv, Count, CountIsExact
<1>10. Rooted'
  BY <1>2 DEF IInv, Rooted
<1>11. ~Over
  BY <1>2 DEF Over
<1>12. Ends'
  BY <1>2, <1>11, NotOver DEF IInv, Ends, KnowsLast
<1> QED BY <1>7, <1>8, <1>9, <1>10, <1>12 DEF IInv

LEMMA SpawnPushInv ==
  ASSUME IInv, NEW c \in Caller, SpawnPush(c)
  PROVE  IInv'
<1>1. PICK t \in Task : t = spawning[c]
  BY DEF SpawnPush, IInv, Places, TypeOK
<1>2. PICK k \in Thread : k = sched_id[t]
  BY DEF IInv, Places, TypeOK
<1>3. /\ life[t] = "counted" /\ life'[t] = "live" /\ \A u \in Task \ {t} : life'[u] = life[u]
      /\ ready_q'[k] = Append(ready_q[k], t) /\ \A j \in Thread \ {k} : ready_q'[j] = ready_q[j]
      /\ spawning'[c] = NULL /\ \A d \in Caller \ {c} : spawning'[d] = spawning[d]
      /\ UNCHANGED <<sched_id, current, parked, task_count, roots, tpc, remaining, signalled>>
  BY <1>1, <1>2 DEF SpawnPush, Push, IInv, Places, TypeOK
<1>4. t \notin parked /\ \A j \in Thread : t # current[j] /\ t \notin Range(ready_q[j])
  BY <1>3, Elsewhere DEF IInv
<1>5. /\ ready_q'[k] \in Seq(Task \cup {NULL}) /\ Once(ready_q'[k])
      /\ Range(ready_q'[k]) = Range(ready_q[k]) \cup {t}
  <2>1. ready_q[k] \in Seq(Task \cup {NULL}) /\ Once(ready_q[k])
    BY DEF IInv, Places, TypeOK
  <2> QED BY <1>3, <1>4, <2>1, PushOnce, SMTT(30), Z3T(30)
<1>6. TypeOK'
  BY <1>1, <1>2, <1>3, <1>5 DEF SpawnPush, Push, IInv, Places, TypeOK
<1>7. ASSUME NEW u \in Task PROVE Placed(u)'
  <2>1. Placed(u)
    BY DEF IInv, Places
  <2>2. CASE u = t
    BY <1>2, <1>3, <1>4, <1>5, <2>2 DEF Placed
  <2>3. CASE u # t
    <3>1. ASSUME NEW j \in Thread
          PROVE  u \in Range(ready_q'[j]) <=> u \in Range(ready_q[j])
      <4>1. CASE j = k
        BY <1>5, <2>3, <4>1
      <4>2. CASE j # k
        BY <1>3, <4>2
      <4> QED BY <4>1, <4>2
    <3> QED BY <1>3, <2>1, <2>3, <3>1 DEF Placed
  <2> QED BY <2>2, <2>3
<1>8. ASSUME NEW j \in Thread PROVE Holds(j)'
  <2>1. Holds(j) /\ (current[j] # NULL => current[j] \in Task \ {t})
    BY <1>4 DEF IInv, Places, TypeOK
  <2>2. current[j] # NULL => (current[j] \in Range(ready_q'[j]) <=> current[j] \in Range(ready_q[j]))
    BY <1>3, <1>5, <2>1
  <2> QED BY <1>3, <2>1, <2>2 DEF Holds, BusyPc
<1>9. Places'
  BY <1>3, <1>5, <1>6, <1>7, <1>8 DEF IInv, Places
<1>10. Spawns'
  <2>1. \A d \in Caller \ {c} : spawning[d] # t
    BY <1>1, SchedulerAssumption DEF IInv, Spawns, SpawnersOwn
  <2>a. SpawnersOwn'
    BY <1>3, <2>1, SpawnTypes, SMTT(30), Z3T(30) DEF IInv, Spawns, SpawnersOwn
  <2>b. SpawnedHaveOne'
    BY <1>1, <1>3, <2>1, SMTT(30), Z3T(30) DEF IInv, Spawns, SpawnedHaveOne
  <2>2. CASE c = Main
    <3>1. mpc' = "join"
      BY <2>2 DEF SpawnPush
    <3> QED BY <1>3, <2>2, <2>a, <2>b, <3>1, Callers DEF IInv, Spawns, MainIsFirst
  <2>3. CASE c # Main
    <3>1. mpc' = mpc /\ tpc[c] = "run" /\ c \in Thread
      BY <1>1, <2>3, SchedulerAssumption, Callers DEF SpawnPush, IInv, Spawns, MainIsFirst
    <3>2. mpc \in {"join", "returned"}
      BY <3>1, Started DEF BusyPc
    <3> QED BY <1>3, <2>3, <2>a, <2>b, <3>1, <3>2, Callers DEF IInv, Spawns, MainIsFirst
  <2> QED BY <2>2, <2>3
<1>11. Count'
  <2>1. Counted' = Counted
    BY <1>3 DEF Counted
  <2> QED BY <1>3, <2>1 DEF IInv, Count, CountIsExact
<1>12. Rooted'
  BY <1>3 DEF IInv, Rooted
<1>13. ~Over
  BY <1>3 DEF Over
<1>14. ASSUME NEW j \in Thread PROVE ~KnowsLast(j)' /\ tpc'[j] # "unlock_again"
  <2>1. ~KnowsLast(j) /\ tpc[j] # "unlock_again"
    BY <1>13, NotOver DEF IInv
  <2>2. NULL \in Range(ready_q'[j]) => NULL \in Range(ready_q[j])
    BY <1>3, <1>5, SchedulerAssumption
  <2> QED BY <1>3, <2>1, <2>2 DEF KnowsLast
<1>15. Ends'
  BY <1>14 DEF Ends
<1> QED BY <1>9, <1>10, <1>11, <1>12, <1>15 DEF IInv

-----------------------------------------------------------------------------
(* The steps outside thread() leave Spawns alone. *)
LEMMA SpawnsKeep ==
  ASSUME IInv, UNCHANGED <<spawning, mpc>>,
         \A u \in Task : life'[u] = life[u] \/ {life[u], life'[u]} \subseteq
                          {"live", "finished", "retired", "freed"},
         \A j \in Thread : spawning[j] # NULL => tpc'[j] = "run"
  PROVE  Spawns'
<1>1. \A u \in Task :
        /\ life[u] \in {"created", "counted"} <=> life'[u] \in {"created", "counted"}
        /\ life[u] = "unborn" <=> life'[u] = "unborn"
  OBVIOUS
<1>2. SpawnersOwn'
  BY <1>1, SpawnTypes DEF IInv, Spawns, SpawnersOwn
<1> QED BY <1>1, <1>2 DEF IInv, Spawns, SpawnedHaveOne, MainIsFirst

(* safe_q_push of a live task that is in no queue, by a thread that leaves  *)
(* it or by its waker.                                                      *)
LEMMA PushPlaces ==
  ASSUME Places, TypeOK', NEW t \in Task, NEW k \in Thread, k = sched_id[t],
         life[t] = "live", t \notin parked', t \notin Range(ready_q[k]),
         UNCHANGED <<life, sched_id>>, Push(k, t),
         parked' \subseteq parked,
         \A j \in Thread : \/ current'[j] = current[j] /\ tpc'[j] = tpc[j]
                                /\ (tpc[j] = "run" => current[j] # t)
                           \/ current'[j] = NULL /\ tpc'[j] = "pop"
  PROVE  /\ Places'
         /\ \A j \in Thread : NULL \in Range(ready_q'[j]) => NULL \in Range(ready_q[j])
<1>1. ready_q'[k] = Append(ready_q[k], t) /\ \A j \in Thread \ {k} : ready_q'[j] = ready_q[j]
  BY DEF Push, Places, TypeOK
<1>2. ready_q[k] \in Seq(Task \cup {NULL}) /\ Once(ready_q[k])
  BY DEF Places, TypeOK
<1>3. Once(ready_q'[k]) /\ Range(ready_q'[k]) = Range(ready_q[k]) \cup {t}
  BY <1>1, <1>2, PushOnce, SMTT(30), Z3T(30)
<1>4. ASSUME NEW u \in Task PROVE Placed(u)'
  <2>1. Placed(u)
    BY DEF Places
  <2>2. CASE u = t
    BY <1>1, <1>3, <2>1, <2>2 DEF Placed
  <2>3. CASE u # t
    <3>1. \A j \in Thread : u \in Range(ready_q'[j]) <=> u \in Range(ready_q[j])
      BY <1>1, <1>3, <2>3
    <3> QED BY <2>1, <2>3, <3>1 DEF Placed
  <2> QED BY <2>2, <2>3
<1>5. ASSUME NEW j \in Thread PROVE Holds(j)'
  <2>1. Holds(j)
    BY DEF Places
  <2>2. CASE current'[j] = NULL /\ tpc'[j] = "pop"
    BY <2>2 DEF Holds, BusyPc
  <2>3. CASE /\ current'[j] = current[j] /\ tpc'[j] = tpc[j]
             /\ tpc[j] = "run" => current[j] # t
    <3>1. tpc[j] = "run" => (current[j] \in Range(ready_q'[j]) <=> current[j] \in Range(ready_q[j]))
      BY <1>1, <1>3, <2>3
    <3> QED BY <2>1, <2>3, <3>1 DEF Holds, BusyPc
  <2> QED BY <2>2, <2>3
<1>6. \A j \in Thread : NULL \in Range(ready_q'[j]) => NULL \in Range(ready_q[j])
  BY <1>1, <1>3, SchedulerAssumption
<1> QED BY <1>1, <1>2, <1>3, <1>4, <1>5, <1>6 DEF Places

LEMMA PreemptedInv ==
  ASSUME IInv, NEW k \in Thread, Preempted(k)
  PROVE  IInv'
<1>1. PICK t \in Task : /\ t = current[k] /\ life[t] = "live" /\ sched_id[t] = k /\ t \notin parked
                        /\ t \notin Range(ready_q[k]) /\ \A j \in Thread \ {k} : current[j] # t
  BY Holder, SMTT(30), Z3T(30) DEF Preempted, InUserCode, BusyPc, IInv, Places, Holds
<1>2. /\ tpc[k] = "run" /\ spawning[k] = NULL /\ Push(k, t)
      /\ current'[k] = NULL /\ \A j \in Thread \ {k} : current'[j] = current[j]
      /\ tpc'[k] = "pop" /\ \A j \in Thread \ {k} : tpc'[j] = tpc[j]
      /\ UNCHANGED <<life, sched_id, spawning, parked, task_count, roots, remaining, signalled, mpc>>
  BY <1>1 DEF Preempted, InUserCode, Goto, IInv, Places, TypeOK
<1>3. TypeOK'
  BY <1>1, SMTT(30), Z3T(30) DEF Preempted, Goto, Push, IInv, Places, TypeOK
<1>4. /\ Places'
      /\ \A j \in Thread : NULL \in Range(ready_q'[j]) => NULL \in Range(ready_q[j])
  BY <1>1, <1>2, <1>3, PushPlaces DEF IInv
<1>5. Spawns'
  BY <1>2, SpawnsKeep DEF IInv, Spawns, MainIsFirst
<1>6. Count'
  BY <1>2 DEF IInv, Count, CountIsExact, Counted
<1>7. Rooted'
  BY <1>2, SMTT(30), Z3T(30) DEF IInv, Rooted
<1>8. ~Over
  BY <1>1 DEF Over
<1>9. Ends'
  BY <1>2, <1>4, <1>8, NotOver DEF IInv, Ends, KnowsLast
<1> QED BY <1>4, <1>5, <1>6, <1>7, <1>9 DEF IInv

LEMMA UnparkInv ==
  ASSUME IInv, NEW t \in Task, Unpark(t)
  PROVE  IInv'
<1>1. PICK k \in Thread : k = sched_id[t]
  BY DEF IInv, Places, TypeOK
<1>2. /\ t \in parked /\ parked' = parked \ {t} /\ Push(k, t)
      /\ UNCHANGED <<life, sched_id, spawning, current, task_count, roots, tpc, remaining,
                     signalled, mpc>>
  BY <1>1 DEF Unpark
<1>3. life[t] = "live" /\ t \notin Range(ready_q[k])
  BY <1>2 DEF IInv, Places, Placed
<1>4. \A j \in Thread : tpc[j] = "run" => current[j] # t
  BY <1>2 DEF IInv, Places, Holds
<1>5. TypeOK'
  BY <1>1, <1>2, SMTT(30), Z3T(30) DEF Push, IInv, Places, TypeOK
<1>6. /\ Places'
      /\ \A j \in Thread : NULL \in Range(ready_q'[j]) => NULL \in Range(ready_q[j])
  BY <1>1, <1>2, <1>3, <1>4, <1>5, PushPlaces DEF IInv
<1>7. Spawns'
  BY <1>2, SpawnsKeep DEF IInv, Spawns, MainIsFirst
<1>8. Count'
  BY <1>2 DEF IInv, Count, CountIsExact, Counted
<1>9. Rooted'
  BY <1>2 DEF IInv, Rooted
<1>10. ~Over
  BY <1>3 DEF Over
<1>11. Ends'
  BY <1>2, <1>6, <1>10, NotOver DEF IInv, Ends, KnowsLast
<1> QED BY <1>6, <1>7, <1>8, <1>9, <1>11 DEF IInv

(* A task popped is live and nowhere else; NULL ends a thread only when all *)
(* is over.                                                                 *)
LEMMA PopInv ==
  ASSUME IInv, NEW k \in Thread, Pop(k)
  PROVE  IInv'
<1>1. ready_q[k] \in Seq(Task \cup {NULL}) /\ Once(ready_q[k]) /\ ready_q[k] # <<>>
  BY DEF Pop, IInv, Places, TypeOK
<1>2. PICK h \in Task \cup {NULL} : h = Head(ready_q[k])
  BY <1>1, PopOnce
<1>3. /\ tpc[k] = "pop" /\ ready_q'[k] = Tail(ready_q[k])
      /\ \A j \in Thread \ {k} : ready_q'[j] = ready_q[j]
      /\ current'[k] = h /\ \A j \in Thread \ {k} : current'[j] = current[j]
      /\ tpc'[k] = (IF h = NULL THEN "exit" ELSE "run")
      /\ \A j \in Thread \ {k} : tpc'[j] = tpc[j]
      /\ UNCHANGED <<life, sched_id, spawning, parked, task_count, roots, remaining, signalled, mpc>>
  BY <1>2 DEF Pop, Goto, IInv, Places, TypeOK
<1>4. /\ h \in Range(ready_q[k]) /\ Once(ready_q'[k])
      /\ ready_q'[k] \in Seq(Task \cup {NULL})
      /\ Range(ready_q'[k]) \subseteq Range(ready_q[k])
      /\ h # NULL => h \notin Range(ready_q'[k])
  BY <1>1, <1>2, <1>3, PopOnce, SMTT(30), Z3T(30)
<1>5. \A j \in Thread : Range(ready_q'[j]) \subseteq Range(ready_q[j])
  BY <1>3, <1>4
<1>6. TypeOK'
  BY <1>2, <1>4 DEF Pop, Goto, IInv, Places, TypeOK
<1>7. ASSUME NEW u \in Task PROVE Placed(u)'
  <2>1. Placed(u)
    BY DEF IInv, Places
  <2> QED BY <1>3, <1>5, <2>1 DEF Placed
<1>8. h # NULL => life[h] = "live" /\ sched_id[h] = k /\ h \notin parked
  BY <1>4 DEF IInv, Places, Placed
<1>9. ASSUME NEW j \in Thread PROVE Holds(j)'
  <2>1. CASE j = k
    BY <1>3, <1>4, <1>8, <2>1 DEF Holds, BusyPc
  <2>2. CASE j # k
    <3>1. Holds(j)
      BY DEF IInv, Places
    <3> QED BY <1>3, <2>2, <3>1 DEF Holds, BusyPc
  <2> QED BY <2>1, <2>2
<1>10. Places'
  BY <1>3, <1>4, <1>6, <1>7, <1>9 DEF IInv, Places
<1>11. Spawns'
  BY <1>3, SpawnsKeep DEF IInv, Spawns, MainIsFirst
<1>12. Count'
  BY <1>3 DEF IInv, Count, CountIsExact, Counted
<1>13. Rooted'
  BY <1>3, SMTT(30), Z3T(30) DEF IInv, Rooted
<1>14. CASE h = NULL
  <2>1. Over
    BY <1>4, <1>14 DEF IInv, Ends, KnowsLast
  <2>2. Over'
    BY <1>3, <2>1 DEF Over
  <2>3. Ends'
    BY <1>3, <1>14, <2>2 DEF IInv, Ends
  <2> QED BY <1>10, <1>11, <1>12, <1>13, <2>3 DEF IInv
<1>15. CASE h # NULL
  <2>1. ~Over
    BY <1>8, <1>15 DEF Over
  <2>2. ASSUME NEW j \in Thread PROVE ~KnowsLast(j)' /\ tpc'[j] # "unlock_again"
    <3>1. ~KnowsLast(j) /\ tpc[j] # "unlock_again"
      BY <2>1, NotOver DEF IInv
    <3> QED BY <1>3, <1>5, <1>15, <3>1 DEF KnowsLast
  <2>3. Ends'
    BY <2>2 DEF Ends
  <2> QED BY <1>10, <1>11, <1>12, <1>13, <2>3 DEF IInv
<1> QED BY <1>14, <1>15

LEMMA ParkInv ==
  ASSUME IInv, NEW k \in Thread, Park(k)
  PROVE  IInv'
<1>1. PICK t \in Task : /\ t = current[k] /\ life[t] = "live" /\ sched_id[t] = k /\ t \notin parked
                        /\ t \notin Range(ready_q[k]) /\ \A j \in Thread \ {k} : current[j] # t
  BY Holder, SMTT(30), Z3T(30) DEF Park, InUserCode, BusyPc, IInv, Places, Holds
<1>2. /\ tpc[k] = "run" /\ spawning[k] = NULL /\ parked' = parked \cup {t}
      /\ tpc'[k] = "yield" /\ \A j \in Thread \ {k} : tpc'[j] = tpc[j]
      /\ UNCHANGED <<life, sched_id, spawning, ready_q, current, task_count, roots, remaining,
                     signalled, mpc>>
  BY <1>1 DEF Park, InUserCode, Goto, IInv, Places, TypeOK
<1>3. TypeOK'
  BY <1>1 DEF Park, Goto, IInv, Places, TypeOK
<1>4. ASSUME NEW u \in Task PROVE Placed(u)'
  <2>1. Placed(u) /\ (u = t => \A j \in Thread : u \notin Range(ready_q[j]))
    BY <1>1, SMTT(30), Z3T(30) DEF IInv, Places, Placed
  <2> QED BY <1>1, <1>2, <2>1 DEF Placed
<1>5. ASSUME NEW j \in Thread PROVE Holds(j)'
  <2>1. Holds(j)
    BY DEF IInv, Places
  <2> QED BY <1>1, <1>2, <2>1 DEF Holds, BusyPc
<1>6. Places'
  BY <1>2, <1>3, <1>4, <1>5 DEF IInv, Places
<1>7. Spawns'
  BY <1>2, SpawnsKeep DEF IInv, Spawns, MainIsFirst
<1>8. Count'
  BY <1>2 DEF IInv, Count, CountIsExact, Counted
<1>9. Rooted'
  BY <1>2, SMTT(30), Z3T(30) DEF IInv, Rooted
<1>10. ~Over
  BY <1>1 DEF Over
<1>11. Ends'
  BY <1>2, <1>10, NotOver DEF IInv, Ends, KnowsLast
<1> QED BY <1>6, <1>7, <1>8, <1>9, <1>11 DEF IInv

LEMMA TaskYieldInv ==
  ASSUME IInv, NEW k \in Thread, TaskYield(k)
  PROVE  IInv'
<1>1. /\ tpc[k] = "yield"
      /\ current'[k] = NULL /\ \A j \in Thread \ {k} : current'[j] = current[j]
      /\ tpc'[k] = "pop" /\ \A j \in Thread \ {k} : tpc'[j] = tpc[j]
      /\ UNCHANGED <<life, sched_id, spawning, ready_q, parked, task_count, roots, remaining,
                     signalled, mpc>>
  BY DEF TaskYield, Goto, IInv, Places, TypeOK
<1>2. TypeOK'
  BY DEF TaskYield, Goto, IInv, Places, TypeOK
<1>3. ASSUME NEW j \in Thread PROVE Holds(j)'
  <2>1. Holds(j)
    BY DEF IInv, Places
  <2> QED BY <1>1, <2>1 DEF Holds, BusyPc
<1>4. Places'
  BY <1>1, <1>2, <1>3 DEF IInv, Places, Placed
<1>5. Spawns'
  BY <1>1, SpawnsKeep DEF IInv, Spawns, MainIsFirst
<1>6. Count'
  BY <1>1 DEF IInv, Count, CountIsExact, Counted
<1>7. Rooted'
  BY <1>1, SMTT(30), Z3T(30) DEF IInv, Rooted
<1>8. Ends'
  BY <1>1 DEF IInv, Ends, KnowsLast, Over
<1> QED BY <1>4, <1>5, <1>6, <1>7, <1>8 DEF IInv

LEMMA ReturnInv ==
  ASSUME IInv, NEW k \in Thread, Return(k)
  PROVE  IInv'
<1>1. PICK t \in Task : /\ t = current[k] /\ life[t] = "live" /\ sched_id[t] = k /\ t \notin parked
                        /\ t \notin Range(ready_q[k]) /\ \A j \in Thread \ {k} : current[j] # t
  BY Holder, SMTT(30), Z3T(30) DEF Return, InUserCode, BusyPc, IInv, Places, Holds
<1>2. /\ tpc[k] = "run" /\ spawning[k] = NULL
      /\ life'[t] = "finished" /\ \A u \in Task \ {t} : life'[u] = life[u]
      /\ tpc'[k] = "retire" /\ \A j \in Thread \ {k} : tpc'[j] = tpc[j]
      /\ UNCHANGED <<sched_id, spawning, ready_q, current, parked, task_count, roots, remaining,
                     signalled, mpc>>
  BY <1>1 DEF Return, InUserCode, Goto, IInv, Places, TypeOK
<1>3. TypeOK'
  BY DEF Return, Goto, IInv, Places, TypeOK
<1>4. ASSUME NEW u \in Task PROVE Placed(u)'
  <2>1. Placed(u) /\ (u = t => \A j \in Thread : u \notin Range(ready_q[j]))
    BY <1>1, SMTT(30), Z3T(30) DEF IInv, Places, Placed
  <2> QED BY <1>1, <1>2, <2>1 DEF Placed
<1>5. ASSUME NEW j \in Thread PROVE Holds(j)'
  <2>1. Holds(j) /\ current[j] \in Task \cup {NULL}
    BY DEF IInv, Places, TypeOK
  <2> QED BY <1>1, <1>2, <2>1, SchedulerAssumption DEF Holds, BusyPc
<1>6. Places'
  BY <1>2, <1>3, <1>4, <1>5 DEF IInv, Places
<1>7. Spawns'
  <2>1. \A u \in Task : life'[u] = life[u] \/ {life[u], life'[u]} \subseteq
                          {"live", "finished", "retired", "freed"}
    BY <1>1, <1>2
  <2>2. \A j \in Thread : spawning[j] # NULL => tpc'[j] = "run"
    BY <1>2 DEF IInv, Spawns, MainIsFirst
  <2> QED BY <1>2, <2>1, <2>2, SpawnsKeep
<1>8. Count'
  <2>1. Counted' = Counted
    BY <1>1, <1>2 DEF Counted
  <2> QED BY <1>2, <2>1 DEF IInv, Count, CountIsExact
<1>9. Rooted'
  BY <1>1, <1>2, SMTT(30), Z3T(30) DEF IInv, Rooted
<1>10. ~Over
  BY <1>1 DEF Over
<1>11. Ends'
  BY <1>2, <1>10, NotOver DEF IInv, Ends, KnowsLast
<1> QED BY <1>6, <1>7, <1>8, <1>9, <1>11 DEF IInv

(* The thread that counts task_count down to 0 has retired the last task:   *)
(* a task under creation has a caller, which is a counted task or main      *)
(* before the first one.                                                    *)
LEMMA RetireInv ==
  ASSUME IInv, NEW k \in Thread, Retire(k)
  PROVE  IInv'
<1>1. PICK t \in Task : /\ t = current[k] /\ life[t] = "finished" /\ sched_id[t] = k
                        /\ \A j \in Thread \ {k} : current[j] # t
  BY Holder DEF Retire, BusyPc, IInv, Places, Holds
<1>2. /\ tpc[k] = "retire" /\ task_count' = task_count - 1
      /\ remaining'[k] = task_count - 1 /\ \A j \in Thread \ {k} : remaining'[j] = remaining[j]
      /\ life'[t] = "retired" /\ \A u \in Task \ {t} : life'[u] = life[u]
      /\ tpc'[k] = "unregister" /\ \A j \in Thread \ {k} : tpc'[j] = tpc[j]
      /\ UNCHANGED <<sched_id, spawning, ready_q, current, parked, roots, signalled, mpc>>
  BY <1>1 DEF Retire, Goto, IInv, Places, TypeOK
<1>3. Counted' = Counted \ {t} /\ t \in Counted
  BY <1>1, <1>2 DEF Counted
<1>4. /\ IsFiniteSet(Counted') /\ Cardinality(Counted') = Cardinality(Counted) - 1
      /\ Cardinality(Counted') \in Nat /\ Cardinality(Counted) \in Nat
  BY <1>3, FS_RemoveElement, FS_CardinalityType DEF IInv, Count
<1>5. Count' /\ task_count - 1 \in Nat
  BY <1>2, <1>4 DEF IInv, Count, CountIsExact
<1>6. TypeOK'
  BY <1>5 DEF Retire, Goto, IInv, Places, TypeOK
<1>7. ASSUME NEW u \in Task PROVE Placed(u)'
  <2>1. Placed(u)
    BY DEF IInv, Places
  <2> QED BY <1>1, <1>2, <2>1 DEF Placed
<1>8. ASSUME NEW j \in Thread PROVE Holds(j)'
  <2>1. Holds(j) /\ current[j] \in Task \cup {NULL}
    BY DEF IInv, Places, TypeOK
  <2> QED BY <1>1, <1>2, <2>1, SchedulerAssumption DEF Holds, BusyPc
<1>9. Places'
  BY <1>2, <1>6, <1>7, <1>8 DEF IInv, Places
<1>10. Spawns'
  <2>1. \A u \in Task : life'[u] = life[u] \/ {life[u], life'[u]} \subseteq
                          {"live", "finished", "retired", "freed"}
    BY <1>1, <1>2
  <2>2. \A j \in Thread : spawning[j] # NULL => tpc'[j] = "run"
    BY <1>2 DEF IInv, Spawns, MainIsFirst
  <2> QED BY <1>2, <2>1, <2>2, SpawnsKeep
<1>11. Rooted'
  BY <1>1, <1>2, SMTT(30), Z3T(30) DEF IInv, Rooted
<1>12. \A j \in Thread : ~KnowsLast(j) /\ tpc[j] # "unlock_again"
  BY <1>1, NotOver DEF IInv, Over
<1>13. ASSUME task_count = 1 PROVE Over'
  <2>1. Counted' = {}
    BY <1>2, <1>4, <1>5, <1>13, FS_EmptySet, SMTT(30), Z3T(30) DEF Count, CountIsExact
  <2>2. \A u \in Task : life'[u] \notin {"counted", "live", "finished"}
    BY <2>1 DEF Counted
  <2>3. mpc' \in {"join", "returned"} /\ spawning'[Main] = NULL
    BY <1>2, Started DEF BusyPc
  <2>4. ASSUME NEW j \in Thread PROVE spawning'[j] = NULL
    <3>1. tpc[j] = "run" => current[j] \in Task \ {t} /\ life[current[j]] = "live"
      BY <1>1, <1>2, Holder DEF BusyPc, IInv, Places, Holds
    <3> QED BY <1>2, <2>2, <3>1 DEF IInv, Spawns, MainIsFirst
  <2>5. \A c \in Caller : spawning'[c] = NULL
    BY <2>3, <2>4, Callers
  <2>6. \A u \in Task : life'[u] # "created"
    BY <1>10, <2>5, SchedulerAssumption DEF Spawns, SpawnedHaveOne
  <2>7. \A u \in Task : life'[u] \in {"unborn", "retired", "freed"}
    BY <1>6, <2>2, <2>6 DEF TypeOK
  <2> QED BY <2>3, <2>5, <2>7 DEF Over
<1>14. ASSUME NEW j \in Thread, KnowsLast(j)' PROVE task_count = 1
  <2>1. remaining'[k] = 0 => task_count = 1
    BY <1>2, SMTT(30), Z3T(30) DEF IInv, Places, TypeOK
  <2> QED BY <1>2, <1>12, <1>14, <2>1 DEF KnowsLast
<1>15. Ends'
  BY <1>2, <1>12, <1>13, <1>14 DEF Ends
<1> QED BY <1>5, <1>9, <1>10, <1>11, <1>15 DEF IInv

(* The only root is the root of the last task: every other one has been     *)
(* unregistered, none is being created, and no thread is unregistering one. *)
LEMMA UnregisterInv ==
  ASSUME IInv, NEW k \in Thread, Unregister(k)
  PROVE  IInv'
<1>1. PICK t \in Task : /\ t = current[k] /\ life[t] = "retired" /\ sched_id[t] = k
                        /\ \A j \in Thread \ {k} : current[j] # t
  BY Holder, SMTT(30), Z3T(30) DEF Unregister, BusyPc, IInv, Places, Holds
<1>2. /\ tpc[k] = "unregister" /\ roots' = roots \ {t}
      /\ tpc'[k] = (IF roots = {t} THEN "unlock_again" ELSE "free")
      /\ \A j \in Thread \ {k} : tpc'[j] = tpc[j]
      /\ UNCHANGED <<life, sched_id, spawning, ready_q, current, parked, task_count, remaining,
                     signalled, mpc>>
  BY <1>1 DEF Unregister, Goto, IInv, Places, TypeOK
<1>3. TypeOK'
  BY DEF Unregister, Goto, IInv, Places, TypeOK
<1>4. ASSUME NEW j \in Thread PROVE Holds(j)'
  <2>1. Holds(j)
    BY DEF IInv, Places
  <2> QED BY <1>2, <2>1 DEF Holds, BusyPc
<1>5. Places'
  BY <1>2, <1>3, <1>4 DEF IInv, Places, Placed
<1>6. Spawns'
  BY <1>2, SpawnsKeep DEF IInv, Spawns, MainIsFirst
<1>7. Count'
  BY <1>2 DEF IInv, Count, CountIsExact, Counted
<1>8. ASSUME NEW u \in Task
      PROVE  u \in roots' <=> \/ life'[u] \in {"created", "counted", "live", "finished"}
                              \/ \E j \in Thread : tpc'[j] = "unregister" /\ current'[j] = u
  BY <1>1, <1>2, SMTT(30), Z3T(30) DEF IInv, Rooted
<1>9. Rooted'
  BY <1>8 DEF Rooted
<1>10. Over' <=> Over
  BY <1>2 DEF Over
<1>11. CASE roots = {t}
  <2>1. \A u \in Task : life[u] \notin {"created", "counted", "live", "finished"}
    BY <1>1, <1>11 DEF IInv, Rooted
  <2>2. \A j \in Thread \ {k} : tpc[j] # "unregister"
    <3> SUFFICES ASSUME NEW j \in Thread \ {k}, tpc[j] = "unregister" PROVE FALSE
      OBVIOUS
    <3>1. current[j] \in Task /\ current[j] # t
      BY <1>1, Holder DEF BusyPc, IInv
    <3>2. current[j] \in roots
      BY <3>1 DEF IInv, Rooted
    <3> QED BY <1>11, <3>1, <3>2
  <2>3. mpc \in {"join", "returned"} /\ \A c \in Caller : spawning[c] = NULL
    BY <1>2, <2>1, Started, SpawnTypes DEF BusyPc, IInv, Spawns, SpawnersOwn
  <2>4. Over
    BY <2>1, <2>3 DEF Over, IInv, Places, TypeOK
  <2>5. \A j \in Thread \ {k} : tpc[j] # "unlock_again"
    BY <1>2 DEF IInv, Ends
  <2> QED BY <1>2, <1>5, <1>6, <1>7, <1>9, <1>10, <2>2, <2>4, <2>5 DEF IInv, Ends
<1>12. CASE roots # {t}
  <2>1. \A j \in Thread : KnowsLast(j)' => KnowsLast(j)
    BY <1>2, <1>12 DEF KnowsLast
  <2>2. Ends'
    BY <1>2, <1>10, <1>12, <2>1 DEF IInv, Ends
  <2> QED BY <1>5, <1>6, <1>7, <1>9, <2>2 DEF IInv
<1> QED BY <1>11, <1>12

LEMMA UnlockAgainInv ==
  ASSUME IInv, NEW k \in Thread, UnlockAgain(k)
  PROVE  IInv'
<1>1. /\ tpc[k] = "unlock_again"
      /\ tpc'[k] = "free" /\ \A j \in Thread \ {k} : tpc'[j] = tpc[j]
      /\ UNCHANGED <<life, sched_id, spawning, ready_q, current, parked, task_count, roots,
                     remaining, signalled, mpc>>
  BY DEF UnlockAgain, Goto, IInv, Places, TypeOK
<1>2. TypeOK'
  BY DEF UnlockAgain, Goto, IInv, Places, TypeOK
<1>3. ASSUME NEW j \in Thread PROVE Holds(j)'
  <2>1. Holds(j)
    BY DEF IInv, Places
  <2> QED BY <1>1, <2>1 DEF Holds, BusyPc
<1>4. Places'
  BY <1>1, <1>2, <1>3 DEF IInv, Places, Placed
<1>5. Spawns'
  BY <1>1, SpawnsKeep DEF IInv, Spawns, MainIsFirst
<1>6. Count' /\ Rooted'
  BY <1>1, SMTT(30), Z3T(30) DEF IInv, Count, CountIsExact, Counted, Rooted
<1>7. Over'
  BY <1>1 DEF IInv, Ends, Over
<1>8. Ends'
  BY <1>1, <1>7 DEF IInv, Ends
<1> QED BY <1>4, <1>5, <1>6, <1>8 DEF IInv

LEMMA FreeInv ==
  ASSUME IInv, NEW k \in Thread, Free(k)
  PROVE  IInv'
<1>1. PICK t \in Task : /\ t = current[k] /\ life[t] = "retired" /\ sched_id[t] = k
                        /\ \A j \in Thread \ {k} : current[j] # t
  BY Holder, SMTT(30), Z3T(30) DEF Free, BusyPc, IInv, Places, Holds
<1>2. /\ tpc[k] = "free"
      /\ life'[t] = "freed" /\ \A u \in Task \ {t} : life'[u] = life[u]
      /\ current'[k] = NULL /\ \A j \in Thread \ {k} : current'[j] = current[j]
      /\ tpc'[k] = (IF remaining[k] = 0 THEN "recheck" ELSE "pop")
      /\ \A j \in Thread \ {k} : tpc'[j] = tpc[j]
      /\ UNCHANGED <<sched_id, spawning, ready_q, parked, task_count, roots, remaining,
                     signalled, mpc>>
  BY <1>1 DEF Free, Goto, IInv, Places, TypeOK
<1>3. TypeOK'
  BY DEF Free, Goto, IInv, Places, TypeOK
<1>4. ASSUME NEW u \in Task PROVE Placed(u)'
  <2>1. Placed(u)
    BY DEF IInv, Places
  <2> QED BY <1>1, <1>2, <2>1 DEF Placed
<1>5. ASSUME NEW j \in Thread PROVE Holds(j)'
  <2>1. Holds(j) /\ current[j] \in Task \cup {NULL}
    BY DEF IInv, Places, TypeOK
  <2> QED BY <1>1, <1>2, <2>1, SchedulerAssumption DEF Holds, BusyPc
<1>6. Places'
  BY <1>2, <1>3, <1>4, <1>5 DEF IInv, Places
<1>7. Spawns'
  <2>1. \A u \in Task : life'[u] = life[u] \/ {life[u], life'[u]} \subseteq
                          {"live", "finished", "retired", "freed"}
    BY <1>1, <1>2
  <2>2. \A j \in Thread : spawning[j] # NULL => tpc'[j] = "run"
    BY <1>2 DEF IInv, Spawns, MainIsFirst
  <2> QED BY <1>2, <2>1, <2>2, SpawnsKeep
<1>8. Count'
  <2>1. Counted' = Counted
    BY <1>1, <1>2 DEF Counted
  <2> QED BY <1>2, <2>1 DEF IInv, Count, CountIsExact
<1>9. Rooted'
  BY <1>1, <1>2, SMTT(30), Z3T(30) DEF IInv, Rooted
<1>10. Over => Over'
  BY <1>2 DEF Over
<1>11. \A j \in Thread : KnowsLast(j)' => KnowsLast(j)
  BY <1>2 DEF KnowsLast
<1>12. Ends'
  BY <1>2, <1>10, <1>11 DEF IInv, Ends
<1> QED BY <1>6, <1>7, <1>8, <1>9, <1>12 DEF IInv

LEMMA RecheckInv ==
  ASSUME IInv, NEW k \in Thread, Recheck(k)
  PROVE  IInv'
<1>1. /\ tpc[k] = "recheck" /\ tpc'[k] \in {"signal", "pop"}
      /\ \A j \in Thread \ {k} : tpc'[j] = tpc[j]
      /\ UNCHANGED <<life, sched_id, spawning, ready_q, current, parked, task_count, roots,
                     remaining, signalled, mpc>>
  BY DEF Recheck, Goto, IInv, Places, TypeOK
<1>2. TypeOK'
  BY DEF Recheck, Goto, IInv, Places, TypeOK
<1>3. ASSUME NEW j \in Thread PROVE Holds(j)'
  <2>1. Holds(j)
    BY DEF IInv, Places
  <2> QED BY <1>1, <2>1 DEF Holds, BusyPc
<1>4. Places'
  BY <1>1, <1>2, <1>3 DEF IInv, Places, Placed
<1>5. Spawns'
  BY <1>1, SpawnsKeep DEF IInv, Spawns, MainIsFirst
<1>6. Count' /\ Rooted'
  BY <1>1, SMTT(30), Z3T(30) DEF IInv, Count, CountIsExact, Counted, Rooted
<1>7. Over'
  BY <1>1 DEF IInv, Ends, KnowsLast, Over
<1>8. Ends'
  BY <1>1, <1>7 DEF IInv, Ends
<1> QED BY <1>4, <1>5, <1>6, <1>8 DEF IInv

LEMMA SignalExitInv ==
  ASSUME IInv, NEW k \in Thread, SignalExit(k)
  PROVE  IInv'
<1>1. /\ tpc[k] = "signal" /\ tpc'[k] \in {"signal", "exit"}
      /\ \A j \in Thread \ {k} : tpc'[j] = tpc[j]
      /\ UNCHANGED <<life, sched_id, spawning, current, parked, task_count, roots, remaining, mpc>>
  BY DEF SignalExit, Goto, IInv, Places, TypeOK
<1>2. /\ ready_q' \in [Thread -> Seq(Task \cup {NULL})]
      /\ \A j \in Thread : /\ Once(ready_q'[j])
                            /\ Range(ready_q'[j]) \ {NULL} = Range(ready_q[j]) \ {NULL}
  <2>1. CASE signalled[k] = N
    BY <2>1, SMTT(30), Z3T(30) DEF SignalExit, IInv, Places, TypeOK
  <2>2. CASE signalled[k] < N
    <3>1. PICK i \in Thread : i = signalled[k]
      BY <2>2, SchedulerAssumption, SMTT(30), Z3T(30) DEF Thread, IInv, Places, TypeOK
    <3>2. ready_q[i] \in Seq(Task \cup {NULL}) /\ Once(ready_q[i])
      BY DEF IInv, Places, TypeOK
    <3>3. /\ Append(ready_q[i], NULL) \in Seq(Task \cup {NULL}) /\ Once(Append(ready_q[i], NULL))
          /\ Range(Append(ready_q[i], NULL)) = Range(ready_q[i]) \cup {NULL}
      BY <3>2, PushOnce
    <3>4. ready_q' = [ready_q EXCEPT ![i] = Append(@, NULL)]
      BY <2>2, <3>1, SchedulerAssumption, SMTT(30), Z3T(30) DEF SignalExit, Push, IInv, Places, TypeOK
    <3>5. /\ ready_q' \in [Thread -> Seq(Task \cup {NULL})]
          /\ ready_q'[i] = Append(ready_q[i], NULL)
          /\ \A j \in Thread \ {i} : ready_q'[j] = ready_q[j]
      BY <3>3, <3>4 DEF IInv, Places, TypeOK
    <3> QED BY <3>3, <3>5 DEF IInv, Places
  <2> QED BY <2>1, <2>2, SchedulerAssumption, SMTT(30), Z3T(30) DEF IInv, Places, TypeOK
<1>3. signalled' \in [Thread -> 0 .. N]
  <2>1. signalled \in [Thread -> 0 .. N] /\ N \in Nat
    BY SchedulerAssumption DEF IInv, Places, TypeOK
  <2>2. signalled[k] < N => signalled[k] + 1 \in 0 .. N
    BY <2>1, SMTT(30), Z3T(30)
  <2> QED BY <2>1, <2>2 DEF SignalExit
<1>4. tpc' \in [Thread -> {"pop", "run", "yield", "retire", "unregister", "unlock_again",
                           "free", "recheck", "signal", "exit"}]
  BY DEF SignalExit, Goto, IInv, Places, TypeOK
<1>5. TypeOK'
  BY <1>1, <1>2, <1>3, <1>4 DEF IInv, Places, TypeOK
<1>6. \A u \in Task, j \in Thread : u \in Range(ready_q'[j]) <=> u \in Range(ready_q[j])
  BY <1>2, SchedulerAssumption
<1>7. \A u \in Task : Placed(u)'
  BY <1>1, <1>6 DEF IInv, Places, Placed
<1>8. ASSUME NEW j \in Thread PROVE Holds(j)'
  <2>1. Holds(j) /\ current[j] \in Task \cup {NULL}
    BY DEF IInv, Places, TypeOK
  <2> QED BY <1>1, <1>6, <2>1 DEF Holds, BusyPc
<1>9. Places'
  BY <1>2, <1>5, <1>7, <1>8 DEF Places
<1>10. Spawns'
  BY <1>1, SpawnsKeep DEF IInv, Spawns, MainIsFirst
<1>11. Count' /\ Rooted'
  BY <1>1, SMTT(30), Z3T(30) DEF IInv, Count, CountIsExact, Counted, Rooted
<1>12. Over'
  BY <1>1 DEF IInv, Ends, KnowsLast, Over
<1>13. Ends'
  BY <1>1, <1>12 DEF IInv, Ends
<1> QED BY <1>9, <1>10, <1>11, <1>13 DEF IInv

LEMMA JoinInv ==
  ASSUME IInv, Join
  PROVE  IInv'
<1>1. /\ mpc = "join" /\ mpc' = "returned"
      /\ UNCHANGED <<life, sched_id, spawning, ready_q, current, parked, task_count, roots, tpc,
                     remaining, signalled>>
  BY DEF Join
<1>2. Places'
  BY <1>1 DEF IInv, Places, TypeOK, Holds, Placed
<1>3. Spawns'
  BY <1>1 DEF IInv, Spawns, SpawnersOwn, SpawnedHaveOne, MainIsFirst
<1>4. Count' /\ Rooted' /\ Ends'
  BY <1>1 DEF IInv, Count, CountIsExact, Counted, Rooted, Ends, KnowsLast, Over
<1> QED BY <1>2, <1>3, <1>4 DEF IInv

LEMMA NextInv == IInv /\ [Next]_vars => IInv'
<1> SUFFICES ASSUME IInv, [Next]_vars PROVE IInv'
  OBVIOUS
<1>1. ASSUME NEW c \in Caller, Advance(c) PROVE IInv'
  BY <1>1, SpawnCountInv, SpawnPushInv DEF Advance
<1>2. ASSUME NEW k \in Thread, Run(k) \/ Preempted(k) \/ Park(k) \/ Return(k) PROVE IInv'
  BY <1>1, <1>2, Callers, PopInv, TaskYieldInv, RetireInv, UnregisterInv, UnlockAgainInv,
     FreeInv, RecheckInv, SignalExitInv, PreemptedInv, ParkInv, ReturnInv DEF Run
<1>3. CASE UNCHANGED vars
  <2>1. Places'
    BY <1>3 DEF vars, IInv, Places, TypeOK, Holds, Placed
  <2>2. Spawns'
    BY <1>3 DEF vars, IInv, Spawns, SpawnersOwn, SpawnedHaveOne, MainIsFirst
  <2>3. Count'
    BY <1>3 DEF vars, IInv, Count, CountIsExact, Counted
  <2>4. Rooted'
    BY <1>3 DEF vars, IInv, Rooted
  <2>5. Ends'
    BY <1>3 DEF vars, IInv, Ends, KnowsLast, Over
  <2> QED BY <2>1, <2>2, <2>3, <2>4, <2>5 DEF IInv
<1> QED BY <1>1, <1>2, <1>3, Callers, SpawnCreateInv, UnparkInv, JoinInv DEF Next, Returned

LEMMA Invariance == Spec => []IInv
BY InitInv, NextInv, PTL DEF Spec

(* No use after task_destroy, for every number of threads and tasks: a      *)
(* freed task is in no ready queue, with no waker, and no thread's current  *)
(* one.                                                                     *)
THEOREM FreedTasksAreGone == Spec => []FreedIsGone
<1>1. IInv => FreedIsGone
  BY Elsewhere DEF IInv, FreedIsGone
<1> QED BY <1>1, Invariance, PTL

(* task_count is exact at every step, and a thread shuts the program down   *)
(* only when every task that was ever created has been retired and nobody   *)
(* is inside thread().                                                      *)
THEOREM ShutdownIsFinal == Spec => []ExitIsFinal
<1>1. IInv => ExitIsFinal
  <2> SUFFICES ASSUME IInv PROVE ExitIsFinal
    OBVIOUS
  <2>1. ASSUME NEW k \in Thread,
               tpc[k] \in {"recheck", "signal", "exit"} \/ NULL \in Range(ready_q[k])
        PROVE  Over
    BY <2>1 DEF IInv, Ends, KnowsLast
  <2> QED BY <2>1 DEF ExitIsFinal, IInv, Places, Count, Over
<1> QED BY <1>1, Invariance, PTL

(* safe_gcq_remove leaves its lock twice only for the last task of the      *)
(* program, when no other thread runs or retires a task.                    *)
THEOREM SecondUnlockIsAlone == Spec => []SecondUnlockAlone
<1>1. IInv => SecondUnlockAlone
  <2> SUFFICES ASSUME IInv, NEW k \in Thread, tpc[k] = "unlock_again"
               PROVE  /\ \A j \in Thread \ {k} : tpc[j] \notin
                            {"run", "yield", "retire", "unregister", "unlock_again"}
                      /\ \A c \in Caller : spawning[c] = NULL
    BY DEF SecondUnlockAlone
  <2>1. Over /\ \A j \in Thread \ {k} : tpc[j] \notin {"unregister", "unlock_again"}
    BY DEF IInv, Ends
  <2>2. ASSUME NEW j \in Thread, tpc[j] \in {"run", "yield", "retire"} PROVE FALSE
    <3>1. current[j] \in Task /\ Holds(j)
      BY <2>2, Holder DEF BusyPc, IInv, Places
    <3> QED BY <2>1, <2>2, <3>1 DEF Holds, Over
  <2> QED BY <2>1, <2>2 DEF Over
<1> QED BY <1>1, Invariance, PTL
-----------------------------------------------------------------------------
(***************************************************************************)
(* Startup, for any number of scheduler threads that is at most            *)
(* MAX_ARENAS: the arenas of gc_create_arena and total_threads.            *)
(***************************************************************************)

Pcs == {"unborn", "check", "create", "register", "idle", "running"}

(* A thread has writes to do exactly while it registers its arena. *)
PcInv ==
  /\ threadpc \in [Threads -> Pcs]
  /\ todo \in [Threads -> SUBSET {"count", "slot"}]
  /\ \A t \in Threads : todo[t] # {} <=> threadpc[t] = "register"


LEMMA PcStep == PcInv /\ [StartupNext]_startVars => PcInv'
<1> SUFFICES ASSUME PcInv, [StartupNext]_startVars
             PROVE  PcInv'
  OBVIOUS
<1> USE DEF PcInv, Pcs
<1>1. CASE UNCHANGED startVars
  BY <1>1 DEF startVars, regVars
<1>2. ASSUME NEW t \in Threads, init_scheduler(t) PROVE PcInv'
  BY <1>2 DEF init_scheduler, regVars
<1>3. ASSUME NEW t \in Threads, gc_create_arena(t) PROVE PcInv'
  BY <1>3 DEF gc_create_arena, regVars
<1>4. ASSUME NEW t \in Threads, ReadCount(t) PROVE PcInv'
  BY <1>4 DEF ReadCount
<1>5. ASSUME NEW t \in Threads, NEW w, Written(t, w) PROVE PcInv'
  <2>1. w \in todo[t] /\ threadpc[t] = "register"
    BY <1>5 DEF Written
  <2>2. todo' \in [Threads -> SUBSET {"count", "slot"}] /\ threadpc' \in [Threads -> Pcs]
    BY <1>5 DEF Written
  <2>3. \A u \in Threads : u # t => todo'[u] = todo[u] /\ threadpc'[u] = threadpc[u]
    BY <1>5 DEF Written
  <2>4. todo'[t] # {} <=> threadpc'[t] = "register"
    BY <1>5, <2>1 DEF Written
  <2> QED BY <2>2, <2>3, <2>4
<1>6. ASSUME NEW t \in Threads, EnterWorld(t) PROVE PcInv'
  BY <1>6 DEF EnterWorld, regVars
<1>7. ASSUME NEW t \in Threads, LeaveWorld(t) PROVE PcInv'
  BY <1>7 DEF LeaveWorld, regVars
<1>8. ASSUME NEW t \in Threads, thread(t) PROVE PcInv'
  BY <1>8 DEF thread, regVars
<1>9. CASE gc_init \/ gc_start \/ gc_walk
  BY <1>9 DEF gc_init, gc_start, gc_walk, regVars
<1> QED
  BY <1>1, <1>2, <1>3, <1>4, <1>5, <1>6, <1>7, <1>8, <1>9
  DEF StartupNext, ThreadStep, WriteCount, WriteSlot

LEMMA PcInvariant == StartupSpec => []PcInv
<1>1. StartupInit => PcInv
  BY DEF StartupInit, PcInv, Pcs
<1> QED BY <1>1, PcStep, PTL DEF StartupSpec
-----------------------------------------------------------------------------
LEMMA RunningFinite == IsFiniteSet(Running) /\ Cardinality(Running) \in Int
BY StartupAssumption, FS_Subset, FS_CardinalityType, SMTT(30), Z3T(30) DEF Running

(* A thread that starts or ends a slice of a task changes the number of    *)
(* running threads by one, any other step not at all.                      *)
LEMMA RunningSteps ==
  ASSUME NEW t \in Threads, threadpc \in [Threads -> Pcs], NEW l \in Pcs,
         threadpc' = [threadpc EXCEPT ![t] = l]
  PROVE  /\ threadpc[t] # "running" /\ l = "running" =>
              Cardinality(Running') = Cardinality(Running) + 1
         /\ threadpc[t] = "running" /\ l # "running" =>
              Cardinality(Running') = Cardinality(Running) - 1
         /\ threadpc[t] # "running" /\ l # "running" => Running' = Running
<1>1. ASSUME threadpc[t] # "running", l = "running"
      PROVE  Cardinality(Running') = Cardinality(Running) + 1
  <2>1. Running' = Running \cup {t} /\ t \notin Running
    BY <1>1 DEF Running, Pcs
  <2> QED BY <2>1, RunningFinite, FS_AddElement
<1>2. ASSUME threadpc[t] = "running", l # "running"
      PROVE  Cardinality(Running') = Cardinality(Running) - 1
  <2>1. Running' = Running \ {t} /\ t \in Running
    BY <1>2 DEF Running, Pcs
  <2> QED BY <2>1, RunningFinite, FS_RemoveElement
<1>3. ASSUME threadpc[t] # "running", l # "running"
      PROVE  Running' = Running
  BY <1>3 DEF Running, Pcs
<1> QED BY <1>1, <1>2, <1>3

WorldInv == total_threads \in Int /\ early \in BOOLEAN /\ WorldCounted

LEMMA WorldStep == PcInv /\ WorldInv /\ [StartupNext]_startVars => WorldInv'
<1> SUFFICES ASSUME PcInv, WorldInv, [StartupNext]_startVars
             PROVE  WorldInv'
  OBVIOUS
<1> threadpc \in [Threads -> Pcs]
  BY DEF PcInv
<1> USE RunningFinite DEF WorldInv, WorldCounted
<1>1. CASE UNCHANGED startVars
  BY <1>1 DEF startVars, Running
<1>2. ASSUME NEW t \in Threads, init_scheduler(t) PROVE WorldInv'
  <2>1. Running' = Running
    BY <1>2, RunningSteps DEF init_scheduler, Pcs
  <2> QED BY <1>2, <2>1 DEF init_scheduler
<1>3. ASSUME NEW t \in Threads, gc_create_arena(t) PROVE WorldInv'
  <2>1. PICK l \in {"idle", "create"} : threadpc' = [threadpc EXCEPT ![t] = l]
    BY <1>3 DEF gc_create_arena
  <2>2. Running' = Running
    BY <1>3, <2>1, RunningSteps DEF gc_create_arena, Pcs
  <2> QED BY <1>3, <2>2 DEF gc_create_arena
<1>4. ASSUME NEW t \in Threads, ReadCount(t) PROVE WorldInv'
  <2>1. Running' = Running
    BY <1>4, RunningSteps DEF ReadCount, Pcs
  <2> QED BY <1>4, <2>1 DEF ReadCount
<1>5. ASSUME NEW t \in Threads, NEW w, Written(t, w) PROVE WorldInv'
  <2>1. PICK l \in {"idle", "register"} : threadpc' = [threadpc EXCEPT ![t] = l] /\ threadpc[t] = "register"
    BY <1>5 DEF Written, PcInv
  <2>2. Running' = Running
    BY <2>1, RunningSteps DEF Pcs
  <2> QED BY <1>5, <2>2 DEF Written
<1>6. ASSUME NEW t \in Threads, EnterWorld(t) PROVE WorldInv'
  <2>1. Cardinality(Running') = Cardinality(Running) + 1
    BY <1>6, RunningSteps DEF EnterWorld, Pcs
  <2> QED BY <1>6, <2>1, SMTT(30), Z3T(30) DEF EnterWorld
<1>7. ASSUME NEW t \in Threads, LeaveWorld(t) PROVE WorldInv'
  <2>1. Cardinality(Running') = Cardinality(Running) - 1
    BY <1>7, RunningSteps DEF LeaveWorld, Pcs
  <2> QED BY <1>7, <2>1, SMTT(30), Z3T(30) DEF LeaveWorld
<1>8. ASSUME NEW t \in Threads, thread(t) PROVE WorldInv'
  BY <1>8 DEF thread, Running
<1>9. CASE gc_init \/ gc_walk
  BY <1>9 DEF gc_init, gc_walk, Running
<1>10. CASE gc_start
  <2>1. Running' = Running /\ total_threads' = 0 /\ early' = (Running # {})
    BY <1>10 DEF gc_start, Running
  <2>2. Running = {} => Cardinality(Running) = 0
    BY FS_EmptySet, ZenonT(60)
  <2>3. early' \/ total_threads' = Cardinality(Running')
    BY <2>1, <2>2
  <2>4. early' \in BOOLEAN
    BY <2>1
  <2> QED BY <2>1, <2>3, <2>4, SMTT(30), Z3T(30)
<1> QED
  BY <1>1, <1>2, <1>3, <1>4, <1>5, <1>6, <1>7, <1>8, <1>9, <1>10
  DEF StartupNext, ThreadStep, WriteCount, WriteSlot

(* total_threads is the number of threads that run a task, unless one ran  *)
(* when gc_start reset it: scheduler_run adds and subtracts in pairs, for  *)
(* any number of threads.                                                  *)
THEOREM WorldIsCounted == StartupSpec => []WorldCounted
<1>1. StartupInit => WorldInv
  <2> SUFFICES ASSUME StartupInit PROVE WorldInv
    OBVIOUS
  <2>1. Running = {}
    BY DEF StartupInit, Running
  <2>2. Cardinality(Running) = 0
    BY <2>1, FS_EmptySet, ZenonT(60)
  <2>3. total_threads = 0 /\ early \in BOOLEAN
    BY DEF StartupInit
  <2>4. total_threads \in Int /\ total_threads = Cardinality(Running)
    BY <2>2, <2>3, SMTT(30), Z3T(30)
  <2> QED BY <2>3, <2>4, ZenonT(60) DEF WorldInv, WorldCounted
<1>2. WorldInv => WorldCounted
  BY DEF WorldInv
<1> QED BY <1>1, <1>2, PcInvariant, WorldStep, PTL DEF StartupSpec
-----------------------------------------------------------------------------
(* The threads that have added their arena to the count. *)
CountedIn ==
  {t \in Threads : threadpc[t] \in {"idle", "running"} \/ (threadpc[t] = "register" /\ "count" \notin todo[t])}

(* While no two registrations have overlapped, the one under way, if any,  *)
(* will fill the slot at the end of the count, every other thread's slot   *)
(* is filled and counted, and the count has no gap but that of the write   *)
(* to come.                                                                *)
Sole ==
  \A t, u \in Threads : todo[t] # {} /\ todo[u] # {} => t = u
InProgress(t) ==
  /\ "count" \in todo[t] => seen[t] = arenas_count
  /\ todo[t] = {"slot"} => seen[t] = arenas_count - 1
  /\ todo[t] = {"count"} => arenas[seen[t]] = t
  /\ todo[t] # {} => seen[t] \in 0..(MAX_ARENAS - 1)
HasSlot(t) ==
  /\ mine[t] = t
  /\ \E i \in 0..(arenas_count - 1) :
       arenas[i] = t /\ \A u \in Threads : "slot" \in todo[u] => seen[u] # i
NoGap ==
  \A i \in 0..(arenas_count - 1) :
    \/ arenas[i] # NoArena
    \/ \E u \in Threads : todo[u] = {"slot"} /\ seen[u] = i
CleanInv ==
  /\ arenas_count = Cardinality(CountedIn)
  /\ Sole
  /\ \A t \in Threads : InProgress(t)
  /\ \A t \in Registered : HasSlot(t)
  /\ NoGap
  /\ crashed => \E t \in Threads : todo[t] = {"slot"}

ArenaInv ==
  /\ seen \in [Threads -> Nat]
  /\ mine \in [Threads -> Threads \cup {NoArena}]
  /\ arenas \in [0..(MAX_ARENAS - 1) -> Threads \cup {NoArena}]
  /\ arenas_count \in Nat
  /\ sweep \in Int
  /\ raced \/ CleanInv

LEMMA CountedFinite == IsFiniteSet(CountedIn) /\ Cardinality(CountedIn) \in Nat
BY StartupAssumption, FS_Subset, FS_CardinalityType DEF CountedIn

(* A thread that has not counted its arena finds room for it. *)
LEMMA RoomLeft ==
  ASSUME NEW t \in Threads, t \notin CountedIn
  PROVE  Cardinality(CountedIn) < MAX_ARENAS
<1>1. CountedIn \subseteq Threads \ {t}
  BY DEF CountedIn
<1>2. /\ IsFiniteSet(Threads \ {t})
      /\ Cardinality(Threads \ {t}) = Cardinality(Threads) - 1
  BY StartupAssumption, FS_RemoveElement
<1>3. Cardinality(CountedIn) <= Cardinality(Threads \ {t})
  BY <1>1, <1>2, FS_Subset
<1> QED
  BY <1>2, <1>3, CountedFinite, StartupAssumption, FS_CardinalityType, SMTT(30), Z3T(30)

(* ArenaInv is kept by a step that leaves the registrations alone. *)
LEMMA ArenaFrame ==
  ASSUME PcInv, ArenaInv, UNCHANGED regVars, CountedIn' = CountedIn,
         Registered' = Registered, sweep' \in Int, UNCHANGED crashed
  PROVE  ArenaInv'
<1>1. /\ seen' = seen /\ todo' = todo /\ mine' = mine /\ arenas' = arenas
      /\ arenas_count' = arenas_count /\ raced' = raced /\ crashed' = crashed
  BY DEF regVars
<1>2. Sole => Sole'
  BY <1>1 DEF Sole
<1>3. ASSUME NEW t \in Threads, InProgress(t) PROVE InProgress(t)'
  BY <1>1, <1>3 DEF InProgress
<1>4. ASSUME NEW t \in Threads, HasSlot(t) PROVE HasSlot(t)'
  BY <1>1, <1>4 DEF HasSlot
<1>5. NoGap => NoGap'
  BY <1>1 DEF NoGap
<1>6. CleanInv => CleanInv'
  <2> SUFFICES ASSUME CleanInv PROVE CleanInv'
    OBVIOUS
  <2>1. arenas_count' = Cardinality(CountedIn')
    BY <1>1 DEF CleanInv
  <2>2. \A t \in Registered' : HasSlot(t)'
    BY <1>4 DEF CleanInv, Registered
  <2>3. crashed' => \E t \in Threads : todo'[t] = {"slot"}
    BY <1>1, SMTT(30), Z3T(30) DEF CleanInv
  <2> QED BY <1>2, <1>3, <1>5, <2>1, <2>2, <2>3, ZenonT(60) DEF CleanInv
<1>7. raced' \/ CleanInv'
  BY <1>1, <1>6, ZenonT(60) DEF ArenaInv
<1> QED BY <1>1, <1>7 DEF ArenaInv

LEMMA ArenaStep == PcInv /\ ArenaInv /\ [StartupNext]_startVars => ArenaInv'
<1> SUFFICES ASSUME PcInv, ArenaInv, [StartupNext]_startVars
             PROVE  ArenaInv'
  OBVIOUS
<1> USE StartupAssumption
<1>1. CASE UNCHANGED startVars
  <2>1. CountedIn' = CountedIn /\ Registered' = Registered /\ sweep' \in Int
    BY <1>1 DEF startVars, regVars, mainVars, CountedIn, Registered, ArenaInv
  <2> QED BY <1>1, <2>1, ArenaFrame DEF startVars, mainVars
<1>2. ASSUME NEW t \in Threads, init_scheduler(t) PROVE ArenaInv'
  <2>1. CountedIn' = CountedIn /\ Registered' = Registered /\ sweep' \in Int
    BY <1>2 DEF init_scheduler, regVars, PcInv, Pcs, CountedIn, Registered, ArenaInv
  <2> QED BY <1>2, <2>1, ArenaFrame DEF init_scheduler
<1>3. ASSUME NEW t \in Threads, gc_create_arena(t) PROVE ArenaInv'
  <2>1. CASE raced
    BY <1>3, <2>1 DEF gc_create_arena, regVars, mainVars, ArenaInv
  <2>2. CASE ~raced
    <3>1. t \notin CountedIn
      BY <1>3 DEF gc_create_arena, CountedIn
    <3>2. arenas_count \in Nat /\ arenas_count < MAX_ARENAS
      BY <2>2, <3>1, RoomLeft DEF ArenaInv, CleanInv
    <3>3. ~(arenas_count + 1 > MAX_ARENAS)
      BY <3>2, SMTT(30), Z3T(30)
    <3>4. threadpc' = [threadpc EXCEPT ![t] = "create"]
      BY <1>3, <3>3, ZenonT(60) DEF gc_create_arena
    <3>5. CountedIn' = CountedIn /\ Registered' = Registered /\ sweep' \in Int
      BY <1>3, <3>4 DEF gc_create_arena, regVars, mainVars, PcInv, Pcs, CountedIn, Registered, ArenaInv
    <3> QED BY <1>3, <3>5, ArenaFrame DEF gc_create_arena, mainVars
  <2> QED BY <2>1, <2>2
<1>4. ASSUME NEW t \in Threads, ReadCount(t) PROVE ArenaInv'
  <2>1. /\ seen' \in [Threads -> Nat] /\ mine' = mine /\ arenas' = arenas
        /\ arenas_count' = arenas_count /\ sweep' = sweep /\ crashed' = crashed
    BY <1>4 DEF ReadCount, mainVars, ArenaInv
  <2>2. ASSUME ~raced' PROVE CleanInv'
    <3>1. ~raced /\ (\A u \in Threads : todo[u] = {}) /\ CleanInv
      BY <1>4, <2>2 DEF ReadCount, ArenaInv
    <3>2. \A u \in Threads : u # t =>
             todo'[u] = {} /\ seen'[u] = seen[u] /\ threadpc'[u] = threadpc[u]
      BY <1>4, <3>1 DEF ReadCount, PcInv, ArenaInv
    <3>3. /\ todo'[t] = {"count", "slot"} /\ seen'[t] = arenas_count
          /\ threadpc[t] = "create" /\ threadpc'[t] = "register"
      BY <1>4 DEF ReadCount, PcInv, ArenaInv
    <3>4. t \notin CountedIn /\ CountedIn' = CountedIn /\ Registered' = Registered
      BY <3>1, <3>2, <3>3 DEF CountedIn, Registered, PcInv
    <3>5. arenas_count' = Cardinality(CountedIn') /\ arenas_count < MAX_ARENAS
      BY <2>1, <3>1, <3>4, RoomLeft DEF CleanInv
    <3>6. Sole'
      BY <3>2, <3>3 DEF Sole
    <3>7. ASSUME NEW u \in Threads PROVE InProgress(u)'
      <4>1. CASE u = t
        <5>1. arenas_count \in 0..(MAX_ARENAS - 1)
          BY <3>5, SMTT(30), Z3T(30) DEF ArenaInv
        <5>2. todo'[u] = {"count", "slot"} /\ seen'[u] = arenas_count
          BY <3>3, <4>1
        <5>3. todo'[u] # {"slot"} /\ todo'[u] # {"count"}
          BY <5>2, SMTT(30), Z3T(30)
        <5> QED BY <2>1, <5>1, <5>2, <5>3, ZenonT(60) DEF InProgress
      <4>2. CASE u # t
        BY <3>2, <4>2 DEF InProgress
      <4> QED BY <4>1, <4>2
    <3>8. ASSUME NEW u \in Registered' PROVE HasSlot(u)'
      <4>1. PICK i \in 0..(arenas_count - 1) : arenas[i] = u
        BY <3>1, <3>4 DEF CleanInv, HasSlot
      <4>2. \A v \in Threads : "slot" \in todo'[v] => seen'[v] # i
        BY <3>2, <3>3, <4>1, SMTT(30), Z3T(30) DEF ArenaInv
      <4> QED BY <2>1, <3>1, <3>4, <4>1, <4>2 DEF CleanInv, HasSlot
    <3>9. NoGap'
      BY <2>1, <3>1 DEF NoGap, CleanInv
    <3>10. ~crashed'
      BY <2>1, <3>1 DEF CleanInv
    <3> QED BY <3>5, <3>6, <3>7, <3>8, <3>9, <3>10, ZenonT(60) DEF CleanInv
  <2> QED BY <2>1, <2>2 DEF ArenaInv
<1>5. ASSUME NEW t \in Threads, WriteCount(t) PROVE ArenaInv'
  <2>1. /\ seen' = seen /\ arenas' = arenas /\ raced' = raced /\ sweep' = sweep
        /\ crashed' = crashed /\ arenas_count' = seen[t] + 1 /\ arenas_count' \in Nat
        /\ mine' \in [Threads -> Threads \cup {NoArena}]
    BY <1>5, SMTT(30), Z3T(30) DEF WriteCount, Written, mainVars, ArenaInv
  <2>2. ASSUME ~raced PROVE CleanInv'
    <3>1. CleanInv /\ arenas_count \in Nat
      BY <2>2 DEF ArenaInv
    <3>2. "count" \in todo[t] /\ threadpc[t] = "register" /\ threadpc'[t] \in {"register", "idle"}
      BY <1>5 DEF WriteCount, Written, PcInv
    <3>3. \A u \in Threads : u # t =>
            todo'[u] = todo[u] /\ todo[u] = {} /\ threadpc'[u] = threadpc[u] /\ mine'[u] = mine[u]
      BY <1>5, <3>1, <3>2 DEF WriteCount, Written, PcInv, ArenaInv, CleanInv, Sole
    <3>4. seen[t] = arenas_count /\ arenas_count' = arenas_count + 1
      BY <2>1, <3>1, <3>2 DEF CleanInv, InProgress
    <3>5. \/ todo[t] = {"count", "slot"} /\ todo'[t] = {"slot"} /\ threadpc'[t] = "register"
          \/ todo[t] = {"count"} /\ todo'[t] = {} /\ threadpc'[t] = "idle" /\ mine'[t] = t
      <4>1. todo[t] \in SUBSET {"count", "slot"} /\ todo'[t] = todo[t] \ {"count"}
        BY <1>5 DEF WriteCount, Written, PcInv
      <4>2. todo[t] = {"count", "slot"} \/ todo[t] = {"count"}
        BY <3>2, <4>1
      <4> QED BY <1>5, <3>2, <4>1, <4>2 DEF WriteCount, Written, PcInv, ArenaInv
    <3>6. CountedIn' = CountedIn \cup {t} /\ t \notin CountedIn
      BY <3>2, <3>3, <3>5, SMTT(30), Z3T(30) DEF CountedIn
    <3>7. arenas_count' = Cardinality(CountedIn')
      BY <3>1, <3>4, <3>6, CountedFinite, FS_AddElement DEF CleanInv
    <3>8. Sole'
      BY <3>3 DEF Sole
    <3>9. ASSUME NEW u \in Threads PROVE InProgress(u)'
      <4>1. CASE u = t
        BY <2>1, <3>1, <3>4, <3>5, <4>1, SMTT(30), Z3T(30) DEF CleanInv, InProgress
      <4>2. CASE u # t
        BY <3>3, <4>2 DEF InProgress
      <4> QED BY <4>1, <4>2
    <3>10. ASSUME NEW u \in Registered' PROVE HasSlot(u)'
      <4>1. CASE u = t
        <5>1. todo[t] = {"count"} /\ todo'[t] = {} /\ mine'[t] = t
          BY <3>5, <4>1 DEF Registered
        <5>2. arenas'[arenas_count] = t /\ arenas_count \in 0..(arenas_count' - 1)
          BY <2>1, <3>1, <3>4, <5>1, SMTT(30), Z3T(30) DEF CleanInv, InProgress
        <5>3. \A v \in Threads : todo'[v] = {}
          BY <3>3, <5>1
        <5> QED BY <4>1, <5>1, <5>2, <5>3 DEF HasSlot
      <4>2. CASE u # t
        <5>1. HasSlot(u) /\ u \in Threads
          BY <3>1, <3>3, <4>2 DEF CleanInv, Registered
        <5>2. PICK i \in 0..(arenas_count - 1) : arenas[i] = u
          BY <5>1 DEF HasSlot
        <5>3. i \in 0..(arenas_count' - 1) /\ arenas'[i] = u /\ i # arenas_count
          BY <2>1, <3>1, <3>4, <5>2, SMTT(30), Z3T(30)
        <5>4. \A v \in Threads : "slot" \in todo'[v] => seen'[v] # i
          BY <2>1, <3>3, <3>4, <5>3
        <5>5. mine'[u] = u
          BY <3>3, <4>2, <5>1 DEF HasSlot
        <5> QED BY <5>3, <5>4, <5>5 DEF HasSlot
      <4> QED BY <4>1, <4>2
    <3>11. ASSUME NEW i \in 0..(arenas_count' - 1)
           PROVE  \/ arenas'[i] # NoArena
                  \/ \E u \in Threads : todo'[u] = {"slot"} /\ seen'[u] = i
      <4>1. CASE i = arenas_count
        BY <2>1, <3>1, <3>4, <3>5, <4>1 DEF CleanInv, InProgress
      <4>2. CASE i # arenas_count
        <5>1. i \in 0..(arenas_count - 1)
          BY <3>1, <3>4, <4>2, SMTT(30), Z3T(30)
        <5>2. arenas[i] # NoArena
          BY <3>1, <3>2, <3>3, <5>1, SMTT(30), Z3T(30) DEF CleanInv, NoGap
        <5> QED BY <2>1, <5>2
      <4> QED BY <4>1, <4>2
    <3>12. NoGap'
      BY <3>11 DEF NoGap
    <3>13. ~crashed'
      BY <2>1, <3>1, <3>2, <3>3, SMTT(30), Z3T(30) DEF CleanInv
    <3> QED BY <3>7, <3>8, <3>9, <3>10, <3>12, <3>13, ZenonT(60) DEF CleanInv
  <2>3. raced' \/ CleanInv'
    BY <2>1, <2>2, ZenonT(60)
  <2> QED BY <2>1, <2>3 DEF ArenaInv
<1>6. ASSUME NEW t \in Threads, WriteSlot(t), ~crashed PROVE ArenaInv'
  <2>1. /\ seen' = seen /\ raced' = raced /\ sweep' = sweep /\ arenas_count' = arenas_count
        /\ arenas' = [arenas EXCEPT ![seen[t]] = t] /\ ~crashed'
        /\ mine' \in [Threads -> Threads \cup {NoArena}]
    BY <1>6 DEF WriteSlot, Written, mainVars, ArenaInv
  <2>2. ASSUME ~raced PROVE CleanInv'
    <3>1. CleanInv /\ arenas_count \in Nat
      BY <2>2 DEF ArenaInv
    <3>2. "slot" \in todo[t] /\ threadpc[t] = "register" /\ threadpc'[t] \in {"register", "idle"}
      BY <1>6 DEF WriteSlot, Written, PcInv
    <3>3. \A u \in Threads : u # t =>
            todo'[u] = todo[u] /\ todo[u] = {} /\ threadpc'[u] = threadpc[u] /\ mine'[u] = mine[u]
      BY <1>6, <3>1, <3>2 DEF WriteSlot, Written, PcInv, ArenaInv, CleanInv, Sole
    <3>4. \/ todo[t] = {"count", "slot"} /\ todo'[t] = {"count"} /\ threadpc'[t] = "register"
          \/ todo[t] = {"slot"} /\ todo'[t] = {} /\ threadpc'[t] = "idle" /\ mine'[t] = t
      <4>1. todo[t] \in SUBSET {"count", "slot"} /\ todo'[t] = todo[t] \ {"slot"}
        BY <1>6 DEF WriteSlot, Written, PcInv
      <4>2. todo[t] = {"count", "slot"} \/ todo[t] = {"slot"}
        BY <3>2, <4>1
      <4> QED BY <1>6, <3>2, <4>1, <4>2 DEF WriteSlot, Written, PcInv, ArenaInv
    <3>5. /\ seen[t] \in 0..(MAX_ARENAS - 1) /\ arenas'[seen[t]] = t
          /\ \A i \in 0..(MAX_ARENAS - 1) : i # seen[t] => arenas'[i] = arenas[i]
      BY <2>1, <3>1, <3>2 DEF CleanInv, InProgress, ArenaInv
    <3>6. CountedIn' = CountedIn
      BY <3>2, <3>3, <3>4, SMTT(30), Z3T(30) DEF CountedIn
    <3>7. arenas_count' = Cardinality(CountedIn')
      BY <2>1, <3>1, <3>6 DEF CleanInv
    <3>8. Sole'
      BY <3>3 DEF Sole
    <3>9. ASSUME NEW u \in Threads PROVE InProgress(u)'
      <4>1. CASE u = t
        BY <2>1, <3>1, <3>4, <3>5, <4>1 DEF CleanInv, InProgress
      <4>2. CASE u # t
        BY <3>3, <4>2 DEF InProgress
      <4> QED BY <4>1, <4>2
    <3>10. arenas_count <= MAX_ARENAS
      <4>1. CASE todo[t] = {"slot"}
        BY <3>1, <3>5, <4>1, SMTT(30), Z3T(30) DEF CleanInv, InProgress
      <4>2. CASE "count" \in todo[t]
        BY <3>1, <3>5, <4>2, SMTT(30), Z3T(30) DEF CleanInv, InProgress
      <4> QED BY <3>4, <4>1, <4>2
    <3>11. ASSUME NEW u \in Registered' PROVE HasSlot(u)'
      <4>1. CASE u = t
        <5>1. todo[t] = {"slot"} /\ todo'[t] = {} /\ mine'[t] = t
          BY <3>4, <4>1 DEF Registered
        <5>2. seen[t] \in 0..(arenas_count' - 1)
          BY <2>1, <3>1, <3>5, <5>1, SMTT(30), Z3T(30) DEF CleanInv, InProgress
        <5>3. \A v \in Threads : todo'[v] = {}
          BY <3>3, <5>1
        <5> QED BY <3>5, <4>1, <5>1, <5>2, <5>3 DEF HasSlot
      <4>2. CASE u # t
        <5>1. HasSlot(u) /\ u \in Threads
          BY <3>1, <3>3, <4>2 DEF CleanInv, Registered
        <5>2. PICK i \in 0..(arenas_count - 1) : arenas[i] = u /\ seen[t] # i
          BY <3>2, <5>1 DEF HasSlot
        <5>3. i \in 0..(arenas_count' - 1) /\ arenas'[i] = u
          BY <2>1, <3>1, <3>5, <3>10, <5>2, SMTT(30), Z3T(30)
        <5>4. \A v \in Threads : "slot" \notin todo'[v]
          BY <3>3, <3>4
        <5>5. mine'[u] = u
          BY <3>3, <4>2, <5>1 DEF HasSlot
        <5> QED BY <5>3, <5>4, <5>5 DEF HasSlot
      <4> QED BY <4>1, <4>2
    <3>12. ASSUME NEW i \in 0..(arenas_count' - 1) PROVE arenas'[i] # NoArena
      <4>1. CASE i = seen[t]
        BY <3>5, <4>1
      <4>2. CASE i # seen[t]
        <5>1. i \in 0..(arenas_count - 1) /\ i \in 0..(MAX_ARENAS - 1)
          BY <2>1, <3>1, <3>10, SMTT(30), Z3T(30)
        <5>2. arenas[i] # NoArena
          BY <3>1, <3>3, <4>2, <5>1 DEF CleanInv, NoGap
        <5> QED BY <3>5, <4>2, <5>1, <5>2
      <4> QED BY <4>1, <4>2
    <3>13. NoGap'
      BY <3>12 DEF NoGap
    <3> QED BY <2>1, <3>7, <3>8, <3>9, <3>11, <3>13, ZenonT(60) DEF CleanInv
  <2>3. raced' \/ CleanInv'
    BY <2>1, <2>2, ZenonT(60)
  <2>4. arenas' \in [0..(MAX_ARENAS - 1) -> Threads \cup {NoArena}]
    BY <2>1 DEF ArenaInv
  <2> QED BY <2>1, <2>3, <2>4 DEF ArenaInv
<1>7. ASSUME NEW t \in Threads, EnterWorld(t) PROVE ArenaInv'
  <2>1. CountedIn' = CountedIn /\ Registered' = Registered /\ sweep' \in Int
    BY <1>7 DEF EnterWorld, regVars, mainVars, PcInv, Pcs, CountedIn, Registered, ArenaInv
  <2> QED BY <1>7, <2>1, ArenaFrame DEF EnterWorld, mainVars
<1>8. ASSUME NEW t \in Threads, LeaveWorld(t) PROVE ArenaInv'
  <2>1. CountedIn' = CountedIn /\ Registered' = Registered /\ sweep' \in Int
    BY <1>8 DEF LeaveWorld, regVars, mainVars, PcInv, Pcs, CountedIn, Registered, ArenaInv
  <2> QED BY <1>8, <2>1, ArenaFrame DEF LeaveWorld, mainVars
<1>9. CASE gc_init \/ gc_start \/ \E t \in Threads : thread(t)
  <2>1. CountedIn' = CountedIn /\ Registered' = Registered /\ sweep' \in Int
    BY <1>9, SMTT(30), Z3T(30) DEF gc_init, gc_start, thread, regVars, CountedIn, Registered, ArenaInv
  <2> QED BY <1>9, <2>1, ArenaFrame DEF gc_init, gc_start, thread
<1>10. CASE gc_walk
  <2>1. CountedIn' = CountedIn /\ Registered' = Registered /\ sweep' \in Int
    BY <1>10, SMTT(30), Z3T(30) DEF gc_walk, regVars, CountedIn, Registered, ArenaInv
  <2>2. CASE UNCHANGED crashed
    BY <1>10, <2>1, <2>2, ArenaFrame DEF gc_walk
  <2>3. CASE sweep \in 0..(arenas_count - 1) /\ arenas[sweep] = NoArena
    <3>1. CASE raced
      BY <1>10, <2>1, <3>1 DEF gc_walk, regVars, ArenaInv
    <3>2. CASE ~raced
      <4>1. \E u \in Threads : todo[u] = {"slot"}
        BY <2>3, <3>2 DEF ArenaInv, CleanInv, NoGap
      <4>2. /\ seen' = seen /\ todo' = todo /\ mine' = mine /\ arenas' = arenas
            /\ arenas_count' = arenas_count /\ raced' = raced
        BY <1>10 DEF gc_walk, regVars
      <4>3. Sole' /\ NoGap' /\ \A u \in Threads : InProgress(u)'
        BY <3>2, <4>2 DEF ArenaInv, CleanInv, Sole, NoGap, InProgress
      <4>4. \A u \in Registered' : HasSlot(u)'
        BY <2>1, <3>2, <4>2 DEF ArenaInv, CleanInv, HasSlot
      <4>5. arenas_count' = Cardinality(CountedIn')
        BY <2>1, <3>2, <4>2 DEF ArenaInv, CleanInv
      <4>6. \E u \in Threads : todo'[u] = {"slot"}
        BY <4>1, <4>2
      <4>7. CleanInv'
        BY <4>3, <4>4, <4>5, <4>6, ZenonT(60) DEF CleanInv
      <4> QED BY <2>1, <4>2, <4>7 DEF ArenaInv
    <3> QED BY <3>1, <3>2
  <2> QED BY <1>10, <2>2, <2>3, SMTT(30), Z3T(30) DEF gc_walk, ArenaInv
<1> QED
  BY <1>1, <1>2, <1>3, <1>4, <1>5, <1>6, <1>7, <1>8, <1>9, <1>10
  DEF StartupNext, ThreadStep

(* Every thread past its registration has an arena that gc_sweep and       *)
(* try_mark_pointer find, and they meet a NULL arena only between the two  *)
(* writes of arenas[arenas_count++] = ar, unless two registrations         *)
(* overlapped: for any number of threads up to MAX_ARENAS.                 *)
THEOREM ArenasAreRegistered == StartupSpec => []ArenasRegistered
<1>1. StartupInit => ArenaInv
  <2> SUFFICES ASSUME StartupInit PROVE ArenaInv
    OBVIOUS
  <2> USE DEF StartupInit
  <2>1. CountedIn = {} /\ Registered = {}
    BY DEF CountedIn, Registered
  <2>2. Cardinality(CountedIn) = 0
    BY <2>1, FS_EmptySet, ZenonT(60)
  <2>3. Sole /\ NoGap /\ \A t \in Threads : InProgress(t)
    BY SMTT(30), Z3T(30) DEF Sole, NoGap, InProgress
  <2>4. arenas_count = Cardinality(CountedIn) /\ ~crashed
    BY <2>2
  <2>5. CleanInv
    BY <2>1, <2>3, <2>4, ZenonT(60) DEF CleanInv
  <2> QED BY <2>5, SMTT(30), Z3T(30) DEF ArenaInv
<1>2. ArenaInv => ArenasRegistered
  <2> SUFFICES ASSUME ArenaInv, ~raced PROVE ArenasRegistered
    BY DEF ArenasRegistered
  <2>1. CleanInv
    BY DEF ArenaInv
  <2>2. \A t \in Registered : ArenaFound(t)
    BY <2>1 DEF CleanInv, HasSlot, ArenaFound
  <2> QED BY <2>1, <2>2, ZenonT(60) DEF CleanInv, ArenasRegistered
<1> QED BY <1>1, <1>2, PcInvariant, ArenaStep, PTL DEF StartupSpec
=============================================================================
