---------------------------- MODULE DiskIOProofs ----------------------------
(***************************************************************************)
(* Proofs about DiskIO, for any tasks, threads, rings and depth.  A task   *)
(* is counted in the five places its wakeup can be (the submission queue,  *)
(* the kernel, the completion queue, the event loop's hands and the ready  *)
(* queue).  The inductive invariant says that a sleeping task has exactly  *)
(* one of them while no submission has failed, and at least one until as   *)
(* many have failed as the ring has entries.                               *)
(***************************************************************************)
EXTENDS DiskIO, SequenceTheorems, FunctionTheorems, FiniteSetTheorems, TLAPS

(* Zenon proves every step that does not ask for SMT; the limits, and the second call of the SMT *)
(* solver, leave room for slow machines. *)
USE ZenonT(60)

(* Numbers of entries: one entry is there or not, and none changes no sum. *)
LEMMA BitNat == 0 \in Nat /\ 1 \in Nat
BY SMTT(30), Z3T(30)

LEMMA PlusZero == ASSUME NEW n \in Nat PROVE n + 0 = n
BY SMTT(30), Z3T(30)

LEMMA PlusOne == ASSUME NEW m \in Nat, NEW n \in Nat PROVE m + (n + 1) = (m + n) + 1
BY SMTT(30), Z3T(30)

(* How often a task occurs in a queue is a number, 0 in an empty one. *)
LEMMA OccursNat ==
  ASSUME NEW t, NEW q \in Seq(Task)
  PROVE  /\ Occurs(t, q) \in Nat
         /\ IsFiniteSet({i \in DOMAIN q : q[i] = t})
         /\ (\E i \in DOMAIN q : q[i] = t) <=> Occurs(t, q) # 0
<1>1. DOMAIN q = 1 .. Len(q) /\ Len(q) \in Int /\ 1 \in Int
  BY SMTT(30), Z3T(30)
<1>2. IsFiniteSet(DOMAIN q)
  BY <1>1, FS_Interval
<1>3. IsFiniteSet({i \in DOMAIN q : q[i] = t})
  BY <1>2, FS_Subset
<1>4. Occurs(t, q) \in Nat
  BY <1>3, FS_CardinalityType DEF Occurs
<1>5. Occurs(t, q) = 0 <=> {i \in DOMAIN q : q[i] = t} = {}
  BY <1>3, FS_EmptySet DEF Occurs
<1> QED BY <1>3, <1>4, <1>5

LEMMA OccursEmpty == ASSUME NEW t PROVE Occurs(t, <<>>) = 0
<1>1. <<>> \in Seq(Task) /\ DOMAIN <<>> = {}
  BY SMTT(30), Z3T(30)
<1> QED BY <1>1, OccursNat

LEMMA OccursOne ==
  ASSUME NEW t, NEW u
  PROVE  Occurs(t, <<u>>) = IF u = t THEN 1 ELSE 0
<1>1. DOMAIN <<u>> = {1} /\ <<u>>[1] = u
  BY SMTT(30), Z3T(30)
<1>2. CASE u = t
  <2>1. {i \in DOMAIN <<u>> : <<u>>[i] = t} = {1}
    BY <1>1, <1>2
  <2> QED BY <1>2, <2>1, FS_Singleton DEF Occurs
<1>3. CASE u # t
  <2>1. {i \in DOMAIN <<u>> : <<u>>[i] = t} = {}
    BY <1>1, <1>3
  <2> QED BY <1>3, <2>1, FS_EmptySet DEF Occurs
<1> QED BY <1>2, <1>3

LEMMA OccursConcat ==
  ASSUME NEW t, NEW a \in Seq(Task), NEW b \in Seq(Task)
  PROVE  Occurs(t, a \o b) = Occurs(t, a) + Occurs(t, b)
<1> DEFINE m == Len(a)
           n == Len(b)
           A == {i \in DOMAIN a : a[i] = t}
           B == {i \in DOMAIN b : b[i] = t}
           D == {i \in (m + 1) .. (m + n) : b[i - m] = t}
           C == {i \in DOMAIN (a \o b) : (a \o b)[i] = t}
           f == [i \in B |-> i + m]
<1>1. m \in Nat /\ n \in Nat /\ DOMAIN a = 1 .. m /\ DOMAIN b = 1 .. n
  BY SMTT(30), Z3T(30)
<1>2. /\ DOMAIN (a \o b) = 1 .. (m + n)
      /\ \A i \in 1 .. (m + n) : (a \o b)[i] = IF i <= m THEN a[i] ELSE b[i - m]
  <2>1. /\ a \o b \in Seq(Task) /\ Len(a \o b) = m + n
        /\ \A i \in 1 .. (m + n) : (a \o b)[i] = IF i <= m THEN a[i] ELSE b[i - m]
    BY ConcatProperties
  <2>2. DOMAIN (a \o b) = 1 .. Len(a \o b)
    BY <2>1, LenProperties
  <2> QED BY <2>1, <2>2
<1>3. C = A \cup D
  BY <1>1, <1>2, SMTT(30), Z3T(30)
<1>4. A \cap D = {}
  BY <1>1, SMTT(30), Z3T(30)
<1>5. IsFiniteSet(A) /\ IsFiniteSet(B) /\ Cardinality(A) \in Nat /\ Cardinality(B) \in Nat
  BY OccursNat, FS_CardinalityType
<1>6. IsFiniteSet(D) /\ Cardinality(D) = Cardinality(B)
  <2>1. \A i \in B : i + m \in D
    BY <1>1, SMTT(30), Z3T(30)
  <2>2. f \in [B -> D]
    BY <2>1
  <2>3. \A i, j \in B : i + m = j + m => i = j
    BY <1>1, SMTT(30), Z3T(30)
  <2>4. \A i, j \in B : f[i] = f[j] => i = j
    BY <2>3
  <2>5. \A j \in D : j - m \in B /\ (j - m) + m = j
    BY <1>1, SMTT(30), Z3T(30)
  <2>6. \A j \in D : \E i \in B : f[i] = j
    BY <2>5
  <2>7. f \in Bijection(B, D)
    <3> HIDE DEF f, B, D
    <3> QED BY <2>2, <2>4, <2>6, Fun_IsBij
  <2> QED BY <1>5, <2>7, FS_Bijection DEF ExistsBijection
<1>7. Cardinality(C) = Cardinality(A) + Cardinality(D) - Cardinality(A \cap D)
  <2> HIDE DEF A, C, D
  <2> QED BY <1>3, <1>5, <1>6, FS_Union
<1>8. Cardinality(C) = Cardinality(A) + Cardinality(B)
  <2>1. Cardinality(A \cap D) = 0
    BY <1>4, FS_EmptySet
  <2> HIDE DEF A, B, C, D
  <2> QED BY <1>5, <1>6, <1>7, <2>1, SMTT(30), Z3T(30)
<1> QED BY <1>8 DEF Occurs

(* The queues stay sequences of tasks. *)
LEMMA AppendEntry ==
  ASSUME NEW q \in Seq(Task), NEW u \in Task
  PROVE  Append(q, u) \in Seq(Task) /\ Len(Append(q, u)) = Len(q) + 1
BY SMTT(30), Z3T(30)

LEMMA ConcatEntries ==
  ASSUME NEW a \in Seq(Task), NEW b \in Seq(Task)
  PROVE  a \o b \in Seq(Task)
BY SMTT(30), Z3T(30)

LEMMA OccursAppend ==
  ASSUME NEW t, NEW q \in Seq(Task), NEW u \in Task
  PROVE  Occurs(t, Append(q, u)) = Occurs(t, q) + IF u = t THEN 1 ELSE 0
<1>1. Append(q, u) = q \o <<u>> /\ <<u>> \in Seq(Task)
  BY AppendIsConcat, SMTT(30), Z3T(30)
<1>2. Occurs(t, q \o <<u>>) = Occurs(t, q) + Occurs(t, <<u>>)
  BY <1>1, OccursConcat
<1> QED BY <1>1, <1>2, OccursOne

LEMMA OccursTail ==
  ASSUME NEW t, NEW q \in Seq(Task), q # <<>>
  PROVE  /\ Head(q) \in Task /\ Tail(q) \in Seq(Task)
         /\ Occurs(t, q) = Occurs(t, Tail(q)) + IF Head(q) = t THEN 1 ELSE 0
<1>1. Head(q) \in Task /\ Tail(q) \in Seq(Task) /\ <<Head(q)>> \in Seq(Task)
      /\ q = <<Head(q)>> \o Tail(q)
  BY SMTT(30), Z3T(30)
<1>2. Occurs(t, q) = Occurs(t, <<Head(q)>>) + Occurs(t, Tail(q))
  BY <1>1, OccursConcat
<1>3. Occurs(t, <<Head(q)>>) = IF Head(q) = t THEN 1 ELSE 0
  BY OccursOne
<1>4. Occurs(t, Tail(q)) \in Nat /\ Occurs(t, <<Head(q)>>) \in Nat
  BY <1>1, OccursNat
<1> QED BY <1>1, <1>2, <1>3, <1>4, SMTT(30), Z3T(30)

(* io_uring_submit takes a prefix of the queue. *)
LEMMA OccursSplit ==
  ASSUME NEW t, NEW q \in Seq(Task), NEW n \in 0 .. Len(q)
  PROVE  /\ SubSeq(q, 1, n) \in Seq(Task) /\ SubSeq(q, n + 1, Len(q)) \in Seq(Task)
         /\ Len(SubSeq(q, n + 1, Len(q))) = Len(q) - n
         /\ Occurs(t, q) = Occurs(t, SubSeq(q, 1, n)) + Occurs(t, SubSeq(q, n + 1, Len(q)))
<1>1. Len(q) \in Nat /\ \A j \in 1 .. Len(q) : q[j] \in Task
  BY SMTT(30), Z3T(30)
<1>2. SubSeq(q, 1, n) \in Seq(Task)
  BY <1>1, SMTT(30), Z3T(30)
<1>3. SubSeq(q, n + 1, Len(q)) \in Seq(Task) /\ Len(SubSeq(q, n + 1, Len(q))) = Len(q) - n
  BY <1>1, SMTT(30), Z3T(30)
<1>4. 1 \in 1 .. Len(q) + 1 /\ n \in (1 - 1) .. Len(q) /\ Len(q) \in n .. Len(q)
  BY <1>1, SMTT(30), Z3T(30)
<1>5. q = SubSeq(q, 1, n) \o SubSeq(q, n + 1, Len(q))
  BY <1>4, ConcatAdjacentSubSeq, SubSeqFull
<1>6. Occurs(t, SubSeq(q, 1, n) \o SubSeq(q, n + 1, Len(q)))
        = Occurs(t, SubSeq(q, 1, n)) + Occurs(t, SubSeq(q, n + 1, Len(q)))
  BY <1>2, <1>3, OccursConcat
<1> QED BY <1>2, <1>3, <1>5, <1>6

(* The kernel finishes the i-th request. *)
LEMMA OccursRemove ==
  ASSUME NEW t, NEW q \in Seq(Task), NEW i \in DOMAIN q
  PROVE  /\ Completed(q, i) \in Seq(Task)
         /\ Occurs(t, q) = Occurs(t, Completed(q, i)) + IF q[i] = t THEN 1 ELSE 0
<1>0. Len(q) \in Nat /\ i \in 1 .. Len(q) /\ q[i] \in Task /\ i - 1 \in 0 .. Len(q) /\ i \in 0 .. Len(q)
      /\ i \in Nat /\ (i - 1) + 1 = i
  BY SMTT(30), Z3T(30)
<1>1. PICK a, b, c : /\ a = SubSeq(q, 1, i - 1) /\ b = SubSeq(q, i + 1, Len(q))
                     /\ c = SubSeq(q, i, Len(q))
  OBVIOUS
<1>2. a \in Seq(Task) /\ c \in Seq(Task) /\ Occurs(t, q) = Occurs(t, a) + Occurs(t, c)
  BY <1>0, <1>1, OccursSplit
<1>3. b \in Seq(Task)
  BY <1>0, <1>1, OccursSplit
<1>4. c = <<q[i]>> \o b
  <2>1. i \in 1 .. Len(q) /\ Len(q) \in i .. Len(q)
    BY <1>0, SMTT(30), Z3T(30)
  <2> QED BY <1>1, <2>1, SubSeqRecursiveFirst
<1>5. <<q[i]>> \in Seq(Task)
  BY <1>0, SMTT(30), Z3T(30)
<1>6. Occurs(t, c) = Occurs(t, <<q[i]>>) + Occurs(t, b)
  BY <1>3, <1>4, <1>5, OccursConcat
<1>7. Completed(q, i) = a \o b /\ a \o b \in Seq(Task)
  BY <1>1, <1>2, <1>3, ConcatEntries DEF Completed
<1>8. Occurs(t, Completed(q, i)) = Occurs(t, a) + Occurs(t, b)
  BY <1>2, <1>3, <1>7, OccursConcat
<1>9. Occurs(t, a) \in Nat /\ Occurs(t, b) \in Nat
  BY <1>2, <1>3, OccursNat
<1>10. Occurs(t, <<q[i]>>) = IF q[i] = t THEN 1 ELSE 0
  BY OccursOne
<1>11. PICK d \in Nat : d = IF q[i] = t THEN 1 ELSE 0
  BY BitNat
<1>12. Occurs(t, q) = Occurs(t, a) + (d + Occurs(t, b)) /\ Occurs(t, Completed(q, i)) = Occurs(t, a) + Occurs(t, b)
  BY <1>2, <1>6, <1>8, <1>10, <1>11
<1>13. Occurs(t, q) = Occurs(t, Completed(q, i)) + d
  BY <1>9, <1>12, SMTT(30), Z3T(30)
<1> QED BY <1>7, <1>11, <1>13

-----------------------------------------------------------------------------
(* Rings and ready queues hold the tasks of their own thread. *)
OwnTasks(q, r) == \A t \in Task : Occurs(t, q) # 0 => sched_id[t] = r

DiskPinned ==
  /\ \A k \in Thread : /\ current[k] # NoTask => sched_id[current[k]] = k
                       /\ OwnTasks(ready_q[k], k)
  /\ \A r \in Ring : /\ OwnTasks(sq[r], r) /\ OwnTasks(inflight[r], r) /\ OwnTasks(cq[r], r)
                     /\ seen[r] # NoTask => sched_id[seen[r]] = r

(* What a failed io_uring_submit left behind is all there is in the queues. *)
LeftBehind == \A r \in Ring : Len(sq[r]) <= fails

(* The task will not go on by itself. *)
Asleep(t) == pc[t] = "yield" \/ (~Running(t) /\ pc[t] # "done")

TaskInv(t) ==
  /\ pc[t] = "yield" => Running(t)
  /\ sched_id[t] \in Ring =>
       /\ Asleep(t) => Wakers(t) # 0 \/ (pc[t] = "submit" /\ fails >= Depth)
       /\ fails = 0 => Wakers(t) = IF Asleep(t) THEN 1 ELSE 0

DiskInv == TypeOK /\ DiskPinned /\ LeftBehind /\ \A t \in Task : TaskInv(t)

LEMMA QueueTypes ==
  ASSUME TypeOK, NEW r \in Ring
  PROVE  /\ r \in Thread /\ ready_q[r] \in Seq(Task) /\ sq[r] \in Seq(Task)
         /\ inflight[r] \in Seq(Task) /\ cq[r] \in Seq(Task)
BY DiskAssumption DEF TypeOK, RtTypeOK

(* The five counts that make up Wakers. *)
LEMMA WakersNat ==
  ASSUME TypeOK, NEW t \in Task, sched_id[t] \in Ring
  PROVE  /\ Occurs(t, sq[sched_id[t]]) \in Nat /\ Occurs(t, inflight[sched_id[t]]) \in Nat
         /\ Occurs(t, cq[sched_id[t]]) \in Nat /\ Occurs(t, ready_q[sched_id[t]]) \in Nat
         /\ Wakers(t) \in Nat
<1>1. /\ Occurs(t, sq[sched_id[t]]) \in Nat /\ Occurs(t, inflight[sched_id[t]]) \in Nat
      /\ Occurs(t, cq[sched_id[t]]) \in Nat /\ Occurs(t, ready_q[sched_id[t]]) \in Nat
  BY QueueTypes, OccursNat
<1> QED BY <1>1, SMTT(30), Z3T(30) DEF Wakers

(* Steps that move no task and no entry. *)
LEMMA WakersKept ==
  ASSUME UNCHANGED <<sq, inflight, cq, seen, ready_q>>, NEW t
  PROVE  Wakers(t)' = Wakers(t)
BY DEF Wakers

(* A task that runs goes on without touching ring or ready queue. *)
LEMMA OwnStep ==
  ASSUME DiskInv, NEW t \in Task, Running(t), pc[t] # "yield",
         NEW l \in {"user", "call", "submit", "resume", "done"}, TypeOK',
         pc' = [pc EXCEPT ![t] = l], UNCHANGED <<rtVars, ringVars, seen>>
  PROVE  DiskInv'
<1>1. UNCHANGED <<ready_q, current, sq, inflight, cq, seen, fails>>
  BY DEF rtVars, ringVars
<1>2. DiskPinned' /\ LeftBehind'
  BY <1>1 DEF DiskInv, DiskPinned, LeftBehind
<1>3. pc'[t] = l /\ \A u \in Task \ {t} : pc'[u] = pc[u]
  BY DEF DiskInv, TypeOK
<1>4. \A u \in Task : (Running(u)' <=> Running(u)) /\ Wakers(u)' = Wakers(u)
  BY <1>1, WakersKept DEF Running
<1>5. \A u \in Task : Asleep(u)' = Asleep(u)
  BY <1>3, <1>4 DEF Asleep
<1>6. ASSUME NEW u \in Task PROVE TaskInv(u)'
  <2>1. CASE u = t
    <3>1. ~Asleep(t)
      BY DEF Asleep
    <3> QED BY <1>1, <1>3, <1>4, <1>5, <2>1, <3>1 DEF DiskInv, TaskInv
  <2>2. CASE u # t
    BY <1>1, <1>3, <1>4, <1>5, <2>2 DEF DiskInv, TaskInv
  <2> QED BY <2>1, <2>2
<1> QED BY <1>2, <1>6 DEF DiskInv

(* A task that the step is not about. *)
LEMMA OtherTask ==
  ASSUME DiskInv, NEW u \in Task, pc'[u] = pc[u], (Running(u)' <=> Running(u)),
         sched_id[u] \in Ring => Wakers(u)' = Wakers(u),
         fails' = 0 => fails = 0, fails >= Depth => fails' >= Depth
  PROVE  TaskInv(u)'
<1>1. Asleep(u)' = Asleep(u)
  BY DEF Asleep
<1> QED BY <1>1 DEF DiskInv, TaskInv

(* The kernel, the workers and the timer move entries and no task. *)
LEMMA MoveStep ==
  ASSUME DiskInv, TypeOK', DiskPinned', UNCHANGED <<pc, current, sq, fails>>,
         \A u \in Task : sched_id[u] \in Ring => Wakers(u)' = Wakers(u)
  PROVE  DiskInv'
<1>1. LeftBehind'
  BY DEF DiskInv, LeftBehind
<1>2. ASSUME NEW u \in Task PROVE TaskInv(u)'
  <2>1. (Running(u)' <=> Running(u)) /\ pc'[u] = pc[u]
    BY DEF Running
  <2> QED BY <2>1, OtherTask
<1> QED BY <1>1, <1>2 DEF DiskInv

(* task_yield by a task that some waker knows of, or that is done. *)
LEMMA LeaveStep ==
  ASSUME DiskInv, TypeOK', NEW t \in Task, Running(t), TaskYield(t), UNCHANGED <<ready_q, ringVars, seen>>,
         \A u \in Task \ {t} : pc'[u] = pc[u], pc'[t] # "yield",
         \/ pc[t] = "yield" /\ pc'[t] = "resume"
         \/ pc[t] # "yield" /\ pc'[t] = "done"
         \/ pc'[t] = "submit" /\ fails >= Depth
  PROVE  DiskInv'
<1>1. UNCHANGED <<ready_q, sq, inflight, cq, seen, fails>>
  BY DEF ringVars
<1>2. /\ sched_id[t] \in Thread /\ current'[sched_id[t]] = NoTask
      /\ \A k \in Thread \ {sched_id[t]} : current'[k] = current[k]
  BY SchedAssumption DEF TaskYield, DiskInv, TypeOK, RtTypeOK
<1>3. DiskPinned' /\ LeftBehind'
  BY <1>1, <1>2 DEF DiskInv, DiskPinned, LeftBehind
<1>4. ~Running(t)' /\ \A u \in Task \ {t} : (Running(u)' <=> Running(u))
  <2>1. ASSUME NEW u \in Task \ {t} PROVE (Running(u)' <=> Running(u))
    <3>1. CASE sched_id[u] = sched_id[t]
      <4>1. ~Running(u) /\ ~Running(u)'
        BY <1>2, <3>1, SchedAssumption DEF Running
      <4> QED BY <4>1
    <3>2. CASE sched_id[u] # sched_id[t]
      BY <1>2, <3>2, SchedAssumption DEF Running
    <3> QED BY <3>1, <3>2
  <2> QED BY <1>2, <2>1, SchedAssumption DEF Running
<1>5. \A u \in Task : Wakers(u)' = Wakers(u)
  BY <1>1, WakersKept
<1>6. TaskInv(t)'
  <2>1. Asleep(t)' = (pc'[t] # "done")
    BY <1>4 DEF Asleep
  <2>2. CASE pc[t] = "yield" /\ pc'[t] \notin {"done", "submit"}
    <3>1. Asleep(t)
      BY <2>2 DEF Asleep
    <3> QED BY <1>1, <1>5, <2>1, <2>2, <3>1 DEF DiskInv, TaskInv
  <2>3. CASE pc[t] # "yield" /\ pc'[t] = "done"
    <3>1. ~Asleep(t)
      BY <2>3 DEF Asleep
    <3> QED BY <1>1, <1>5, <2>1, <2>3, <3>1 DEF DiskInv, TaskInv
  <2>4. CASE pc'[t] = "submit" /\ fails >= Depth
    <3>1. fails # 0
      BY <2>4, DiskAssumption, SMTT(30), Z3T(30)
    <3> QED BY <1>1, <2>4, <3>1 DEF TaskInv
  <2> QED BY <2>2, <2>3, <2>4
<1>7. \A u \in Task \ {t} : TaskInv(u)'
  BY <1>1, <1>4, <1>5, OtherTask
<1> QED BY <1>3, <1>6, <1>7 DEF DiskInv

LEMMA CallInv == ASSUME DiskInv, NEW t \in Task, Call(t) PROVE DiskInv'
<1>1. Running(t) /\ pc[t] = "call" /\ pc' = [pc EXCEPT ![t] = "submit"]
  BY DEF Call, At, Goto
<1>2. PICK op \in Op : io' = [io EXCEPT ![t] = Fresh(op)]
  BY DEF Call
<1>3. Fresh(op) \in [op : Op, done_n : {"zero", "bytes", "error"}, io_done : BOOLEAN]
  BY DEF Fresh
<1>4. TypeOK'
  BY <1>1, <1>2, <1>3 DEF Call, DiskInv, TypeOK, RtTypeOK, rtVars, ringVars
<1> QED BY <1>1, <1>4, OwnStep DEF Call

LEMMA ResumeInv == ASSUME DiskInv, NEW t \in Task, Resume(t) PROVE DiskInv'
<1>1. Running(t) /\ pc[t] = "resume" /\ pc' = [pc EXCEPT ![t] = "user"]
  BY DEF Resume, At, Goto
<1>2. Fresh("other") \in [op : Op, done_n : {"zero", "bytes", "error"}, io_done : BOOLEAN]
  BY DEF Fresh, Op
<1>3. TypeOK'
  BY <1>1, <1>2 DEF Resume, DiskInv, TypeOK, RtTypeOK, rtVars, ringVars
<1> QED BY <1>1, <1>3, OwnStep DEF Resume

LEMMA YieldTypes ==
  ASSUME TypeOK, NEW t \in Task, TaskYield(t), UNCHANGED <<ready_q, preempt, io, wait_q, ringVars, seen>>,
         pc' \in [Task -> {"user", "call", "submit", "yield", "resume", "done"}]
  PROVE  TypeOK'
<1>1. current' \in [Thread -> Task \cup {NoTask}]
  BY SchedAssumption DEF TaskYield, TypeOK, RtTypeOK
<1> QED BY <1>1 DEF TypeOK, RtTypeOK, ringVars

LEMMA NoSqeInv == ASSUME DiskInv, NEW t \in Task, NoSqe(t) PROVE DiskInv'
<1>1. /\ Running(t) /\ pc[t] = "submit" /\ TaskYield(t)
      /\ UNCHANGED <<ready_q, preempt, pc, io, wait_q, ringVars, seen>>
  BY DEF NoSqe, At, diskVars, taskVars
<1>2. TypeOK'
  BY <1>1, YieldTypes DEF DiskInv, TypeOK
<1>3. fails >= Depth
  BY DEF NoSqe, DiskInv, LeftBehind
<1> QED BY <1>1, <1>2, <1>3, LeaveStep

LEMMA YieldInv == ASSUME DiskInv, NEW t \in Task, Yield(t) PROVE DiskInv'
<1>1. /\ Running(t) /\ pc[t] = "yield" /\ TaskYield(t) /\ pc' = [pc EXCEPT ![t] = "resume"]
      /\ UNCHANGED <<ready_q, preempt, io, wait_q, ringVars, seen>>
  BY DEF Yield, At, Goto
<1>2. /\ pc' \in [Task -> {"user", "call", "submit", "yield", "resume", "done"}]
      /\ pc'[t] = "resume" /\ \A u \in Task \ {t} : pc'[u] = pc[u]
  BY <1>1 DEF DiskInv, TypeOK
<1>3. TypeOK'
  BY <1>1, <1>2, YieldTypes DEF DiskInv
<1> QED BY <1>1, <1>2, <1>3, LeaveStep

LEMMA FinishInv == ASSUME DiskInv, NEW t \in Task, Finish(t) PROVE DiskInv'
<1>1. /\ Running(t) /\ pc[t] = "user" /\ TaskYield(t) /\ pc' = [pc EXCEPT ![t] = "done"]
      /\ UNCHANGED <<ready_q, preempt, io, wait_q, ringVars, seen>>
  BY DEF Finish, At, Goto
<1>2. /\ pc' \in [Task -> {"user", "call", "submit", "yield", "resume", "done"}]
      /\ pc'[t] = "done" /\ \A u \in Task \ {t} : pc'[u] = pc[u]
  BY <1>1 DEF DiskInv, TypeOK
<1>3. TypeOK'
  BY <1>1, <1>2, YieldTypes DEF DiskInv
<1> QED BY <1>1, <1>2, <1>3, LeaveStep

(* safe_q_push of a task, from a ring's worker or from its safepoint. *)
LEMMA PushQueue ==
  ASSUME TypeOK, DiskPinned, NEW t \in Task, MakeReady(t)
  PROVE  /\ ready_q' \in [Thread -> Seq(Task)]
         /\ \A k \in Thread : OwnTasks(ready_q'[k], k)
         /\ \A k \in Thread \ {sched_id[t]} : ready_q'[k] = ready_q[k]
         /\ \A u \in Task : Occurs(u, ready_q'[sched_id[t]])
                              = Occurs(u, ready_q[sched_id[t]]) + IF t = u THEN 1 ELSE 0
<1> DEFINE k == sched_id[t]
<1>1. k \in Thread /\ ready_q[k] \in Seq(Task) /\ ready_q' = [ready_q EXCEPT ![k] = Append(ready_q[k], t)]
  BY SchedAssumption DEF MakeReady, TypeOK, RtTypeOK
<1>2. Append(ready_q[k], t) \in Seq(Task)
  BY <1>1, AppendEntry
<1>3. /\ ready_q' \in [Thread -> Seq(Task)] /\ ready_q'[k] = Append(ready_q[k], t)
      /\ \A j \in Thread \ {k} : ready_q'[j] = ready_q[j]
  BY <1>1, <1>2 DEF TypeOK, RtTypeOK
<1>4. \A u \in Task : Occurs(u, ready_q'[k]) = Occurs(u, ready_q[k]) + IF t = u THEN 1 ELSE 0
  BY <1>1, <1>3, OccursAppend
<1>5. ASSUME NEW u \in Task, Occurs(u, ready_q'[k]) # 0 PROVE sched_id[u] = k
  <2>1. CASE u = t
    BY <2>1
  <2>2. CASE u # t
    <3>1. Occurs(u, ready_q[k]) # 0
      <4>1. Occurs(u, ready_q[k]) \in Nat
        BY <1>1, OccursNat
      <4>2. Occurs(u, ready_q'[k]) = Occurs(u, ready_q[k]) + 0
        BY <1>4, <2>2
      <4> QED BY <1>5, <4>1, <4>2, PlusZero
    <3> QED BY <1>1, <3>1 DEF DiskPinned, OwnTasks
  <2> QED BY <2>1, <2>2
<1>6. \A j \in Thread : OwnTasks(ready_q'[j], j)
  <2>1. OwnTasks(ready_q'[k], k)
    BY <1>5 DEF OwnTasks
  <2> QED BY <1>3, <2>1 DEF DiskPinned
<1> QED BY <1>3, <1>4, <1>6

LEMMA SafePointInv == ASSUME DiskInv, NEW t \in Task, SafePoint(t) PROVE DiskInv'
<1>1. /\ Running(t) /\ pc[t] = "user" /\ pc' = [pc EXCEPT ![t] = "call"]
      /\ UNCHANGED <<io, wait_q, ringVars, seen>>
  BY DEF SafePoint, At, Goto
<1>2. /\ pc' \in [Task -> {"user", "call", "submit", "yield", "resume", "done"}]
      /\ pc'[t] = "call" /\ \A u \in Task \ {t} : pc'[u] = pc[u]
  BY <1>1 DEF DiskInv, TypeOK
<1>3. CASE ~preempt[sched_id[t]]
  <2>1. UNCHANGED rtVars
    BY <1>3 DEF SafePoint, SelfYield
  <2>2. TypeOK'
    BY <1>1, <1>2, <2>1 DEF DiskInv, TypeOK, RtTypeOK, rtVars, ringVars
  <2> QED BY <1>1, <2>1, <2>2, OwnStep
<1>4. CASE preempt[sched_id[t]]
  <2>1. /\ preempt' = [preempt EXCEPT ![sched_id[t]] = FALSE] /\ MakeReady(t) /\ TaskYield(t)
        /\ UNCHANGED <<sq, inflight, cq, seen, fails>>
    BY <1>1, <1>4 DEF SafePoint, SelfYield, ringVars
  <2>2. /\ ready_q' \in [Thread -> Seq(Task)]
        /\ \A k \in Thread : OwnTasks(ready_q'[k], k)
        /\ \A k \in Thread \ {sched_id[t]} : ready_q'[k] = ready_q[k]
        /\ \A u \in Task : Occurs(u, ready_q'[sched_id[t]])
                             = Occurs(u, ready_q[sched_id[t]]) + IF t = u THEN 1 ELSE 0
    BY <2>1, PushQueue DEF DiskInv
  <2>3. /\ sched_id[t] \in Thread /\ current'[sched_id[t]] = NoTask
        /\ \A k \in Thread \ {sched_id[t]} : current'[k] = current[k]
        /\ current' \in [Thread -> Task \cup {NoTask}]
    BY <2>1, SchedAssumption DEF TaskYield, DiskInv, TypeOK, RtTypeOK
  <2>4. preempt' \in [Thread -> BOOLEAN]
    BY <2>1 DEF DiskInv, TypeOK, RtTypeOK
  <2>5. TypeOK'
    BY <1>1, <1>2, <2>1, <2>2, <2>3, <2>4 DEF DiskInv, TypeOK, RtTypeOK
  <2>6. DiskPinned' /\ LeftBehind'
    BY <2>1, <2>2, <2>3 DEF DiskInv, DiskPinned, LeftBehind
  <2>7. TaskInv(t)'
    <3>1. ~Asleep(t) /\ Asleep(t)' /\ pc'[t] # "yield"
      BY <1>1, <1>2, <2>3, SchedAssumption DEF Asleep, Running
    <3>2. sched_id[t] \in Ring => Wakers(t) \in Nat /\ Wakers(t)' = Wakers(t) + 1
      <4>1. Occurs(t, ready_q'[sched_id[t]]) = Occurs(t, ready_q[sched_id[t]]) + 1
        BY <2>2
      <4> DEFINE rest == Occurs(t, sq[sched_id[t]]) + Occurs(t, inflight[sched_id[t]])
                           + Occurs(t, cq[sched_id[t]]) + (IF seen[sched_id[t]] = t THEN 1 ELSE 0)
      <4>2. Wakers(t) = rest + Occurs(t, ready_q[sched_id[t]])
        BY DEF Wakers
      <4>3. Wakers(t)' = rest + Occurs(t, ready_q'[sched_id[t]])
        BY <2>1 DEF Wakers
      <4>4. sched_id[t] \in Ring =>
              Wakers(t) \in Nat /\ rest \in Nat /\ Occurs(t, ready_q[sched_id[t]]) \in Nat
        <5>1. sched_id[t] \in Ring =>
                /\ Occurs(t, sq[sched_id[t]]) \in Nat /\ Occurs(t, inflight[sched_id[t]]) \in Nat
                /\ Occurs(t, cq[sched_id[t]]) \in Nat /\ Occurs(t, ready_q[sched_id[t]]) \in Nat
                /\ Wakers(t) \in Nat
          BY WakersNat DEF DiskInv
        <5> QED BY <5>1, SMTT(30), Z3T(30)
      <4> HIDE DEF rest
      <4> QED BY <4>1, <4>2, <4>3, <4>4, PlusOne
    <3>3. sched_id[t] \in Ring => Wakers(t)' # 0 /\ (fails = 0 => Wakers(t)' = 1)
      <4>1. fails = 0 /\ sched_id[t] \in Ring => Wakers(t) = 0
        BY <3>1 DEF DiskInv, TaskInv
      <4> QED BY <3>2, <4>1, SMTT(30), Z3T(30)
    <3> QED BY <2>1, <3>1, <3>3 DEF TaskInv
  <2>8. ASSUME NEW u \in Task \ {t} PROVE TaskInv(u)'
    <3>1. Running(u)' <=> Running(u)
      <4>1. CASE sched_id[u] = sched_id[t]
        BY <1>1, <2>3, <4>1, SchedAssumption DEF Running
      <4>2. CASE sched_id[u] # sched_id[t]
        BY <2>3, <4>2, SchedAssumption DEF Running
      <4> QED BY <4>1, <4>2
    <3>2. sched_id[u] \in Ring => Wakers(u)' = Wakers(u)
      <4>1. sched_id[u] \in Ring => Occurs(u, ready_q'[sched_id[u]]) = Occurs(u, ready_q[sched_id[u]])
        <5>1. CASE sched_id[u] = sched_id[t]
          <6>1. sched_id[u] \in Ring => Occurs(u, ready_q[sched_id[u]]) \in Nat
            BY WakersNat DEF DiskInv
          <6>2. Occurs(u, ready_q'[sched_id[u]]) = Occurs(u, ready_q[sched_id[u]]) + 0
            BY <2>2, <5>1
          <6> QED BY <6>1, <6>2, PlusZero
        <5>2. CASE sched_id[u] # sched_id[t]
          BY <2>2, <5>2, SchedAssumption
        <5> QED BY <5>1, <5>2
      <4> QED BY <2>1, <4>1 DEF Wakers
    <3> QED BY <1>2, <2>1, <3>1, <3>2, OtherTask
  <2> QED BY <2>5, <2>6, <2>7, <2>8 DEF DiskInv
<1> QED BY <1>3, <1>4

(* diskio_worker hands the task to its thread. *)
LEMMA WorkerPushInv == ASSUME DiskInv, NEW r \in Ring, WorkerPush(r) PROVE DiskInv'
<1>1. PICK t \in Task : t = seen[r] /\ sched_id[t] = r /\ t # NoTask
  BY SchedAssumption DEF WorkerPush, DiskInv, TypeOK, DiskPinned
<1>2. /\ MakeReady(t) /\ seen' = [seen EXCEPT ![r] = NoTask]
      /\ UNCHANGED <<current, preempt, pc, io, wait_q, sq, inflight, cq, fails>>
  BY <1>1 DEF WorkerPush, taskVars, ringVars
<1>3. /\ ready_q' \in [Thread -> Seq(Task)]
      /\ \A k \in Thread : OwnTasks(ready_q'[k], k)
      /\ \A k \in Thread \ {r} : ready_q'[k] = ready_q[k]
      /\ \A u \in Task : Occurs(u, ready_q'[r]) = Occurs(u, ready_q[r]) + IF t = u THEN 1 ELSE 0
  <2>1. TypeOK /\ DiskPinned
    BY DEF DiskInv
  <2>2. /\ ready_q' \in [Thread -> Seq(Task)]
        /\ \A k \in Thread : OwnTasks(ready_q'[k], k)
        /\ \A k \in Thread \ {sched_id[t]} : ready_q'[k] = ready_q[k]
        /\ \A u \in Task : Occurs(u, ready_q'[sched_id[t]])
                             = Occurs(u, ready_q[sched_id[t]]) + IF t = u THEN 1 ELSE 0
    BY <1>2, <2>1, PushQueue
  <2> QED BY <1>1, <2>2
<1>4. /\ seen' \in [Ring -> Task \cup {NoTask}] /\ seen'[r] = NoTask
      /\ \A s \in Ring \ {r} : seen'[s] = seen[s]
  BY <1>2 DEF DiskInv, TypeOK
<1>5. TypeOK'
  BY <1>2, <1>3, <1>4 DEF DiskInv, TypeOK, RtTypeOK
<1>6. DiskPinned'
  BY <1>2, <1>3, <1>4 DEF DiskInv, DiskPinned
<1>7. ASSUME NEW u \in Task, sched_id[u] \in Ring PROVE Wakers(u)' = Wakers(u)
  <2>1. CASE sched_id[u] # r
    <3>1. ready_q'[sched_id[u]] = ready_q[sched_id[u]] /\ seen'[sched_id[u]] = seen[sched_id[u]]
      BY <1>3, <1>4, <1>7, <2>1, SchedAssumption
    <3> QED BY <1>2, <3>1 DEF Wakers
  <2>2. CASE sched_id[u] = r
    <3>1. (IF seen[r] = u THEN 1 ELSE 0) = (IF t = u THEN 1 ELSE 0) /\ (IF seen'[r] = u THEN 1 ELSE 0) = 0
      BY <1>1, <1>4, SchedAssumption
    <3>2. Occurs(u, ready_q'[r]) = Occurs(u, ready_q[r]) + IF t = u THEN 1 ELSE 0
      BY <1>3
    <3>3. /\ Occurs(u, sq[r]) \in Nat /\ Occurs(u, inflight[r]) \in Nat
          /\ Occurs(u, cq[r]) \in Nat /\ Occurs(u, ready_q[r]) \in Nat
      BY <1>7, <2>2, WakersNat DEF DiskInv
    <3>4. Wakers(u) = Occurs(u, sq[r]) + Occurs(u, inflight[r]) + Occurs(u, cq[r])
                         + (IF seen[r] = u THEN 1 ELSE 0) + Occurs(u, ready_q[r])
      BY <2>2 DEF Wakers
    <3>5. Wakers(u)' = Occurs(u, sq[r]) + Occurs(u, inflight[r]) + Occurs(u, cq[r])
                         + (IF seen'[r] = u THEN 1 ELSE 0) + Occurs(u, ready_q'[r])
      BY <1>2, <2>2 DEF Wakers
    <3>6. PICK d \in Nat : d = IF t = u THEN 1 ELSE 0
      BY BitNat
    <3>7. /\ Wakers(u) = Occurs(u, sq[r]) + Occurs(u, inflight[r]) + Occurs(u, cq[r]) + d + Occurs(u, ready_q[r])
          /\ Wakers(u)' = Occurs(u, sq[r]) + Occurs(u, inflight[r]) + Occurs(u, cq[r]) + 0 + (Occurs(u, ready_q[r]) + d)
      BY <3>1, <3>2, <3>4, <3>5, <3>6
    <3> QED BY <3>3, <3>7, SMTT(30), Z3T(30)
  <2> QED BY <2>1, <2>2
<1> QED BY <1>2, <1>5, <1>6, <1>7, MoveStep

(* The results of a call. *)
LEMMA DoneTypes ==
  ASSUME TypeOK, NEW t \in Task, NEW res \in {"bytes", "error"}, Done(t, res)
  PROVE  io' \in [Task -> [op : Op, done_n : {"zero", "bytes", "error"}, io_done : BOOLEAN]]
<1>1. PICK x : x = [op |-> io[t].op, done_n |-> res, io_done |-> TRUE]
  OBVIOUS
<1>2. io[t].op \in Op
  BY DEF TypeOK
<1>3. x \in [op : Op, done_n : {"zero", "bytes", "error"}, io_done : BOOLEAN]
  BY <1>1, <1>2
<1>4. io' = [io EXCEPT ![t] = x]
  BY <1>1 DEF Done
<1> QED BY <1>3, <1>4 DEF TypeOK

LEMMA KernelInv ==
  ASSUME DiskInv, NEW r \in Ring, NEW t \in Task, KernelComplete(r, t)
  PROVE  DiskInv'
<1>0. UNCHANGED <<ready_q, current, preempt, pc, io, wait_q, sq, seen, fails>>
  BY DEF KernelComplete, rtVars, taskVars
<1>1. PICK i \in DOMAIN inflight[r] :
        inflight[r][i] = t /\ inflight' = [inflight EXCEPT ![r] = Completed(inflight[r], i)]
  BY DEF KernelComplete
<1>2. cq' = [cq EXCEPT ![r] = Append(cq[r], t)]
  BY DEF KernelComplete
<1>3. inflight[r] \in Seq(Task) /\ cq[r] \in Seq(Task)
  BY QueueTypes DEF DiskInv
<1>4. PICK p \in Seq(Task) :
        /\ p = Completed(inflight[r], i)
        /\ \A u \in Task : Occurs(u, inflight[r]) = Occurs(u, p) + IF t = u THEN 1 ELSE 0
  <2>1. ASSUME NEW u
        PROVE  /\ Completed(inflight[r], i) \in Seq(Task)
               /\ Occurs(u, inflight[r])
                    = Occurs(u, Completed(inflight[r], i)) + IF inflight[r][i] = u THEN 1 ELSE 0
    BY <1>3, OccursRemove
  <2> QED BY <1>1, <2>1
<1>5. PICK q \in Seq(Task) :
        /\ q = Append(cq[r], t)
        /\ \A u \in Task : Occurs(u, q) = Occurs(u, cq[r]) + IF t = u THEN 1 ELSE 0
  <2>1. /\ Append(cq[r], t) \in Seq(Task)
        /\ \A u \in Task : Occurs(u, Append(cq[r], t)) = Occurs(u, cq[r]) + IF t = u THEN 1 ELSE 0
    BY <1>3, OccursAppend, AppendEntry
  <2> QED BY <2>1
<1>6. /\ inflight' \in [Ring -> Seq(Task)] /\ inflight'[r] = p
      /\ cq' \in [Ring -> Seq(Task)] /\ cq'[r] = q
      /\ \A s \in Ring \ {r} : inflight'[s] = inflight[s] /\ cq'[s] = cq[s]
  BY <1>1, <1>2, <1>4, <1>5 DEF DiskInv, TypeOK
<1>7. \A u \in Task : /\ Occurs(u, p) \in Nat /\ Occurs(u, cq[r]) \in Nat
                      /\ Occurs(u, q) \in Nat /\ Occurs(u, inflight[r]) \in Nat
  BY <1>3, OccursNat
<1>8. TypeOK'
  BY <1>0, <1>6 DEF DiskInv, TypeOK, RtTypeOK
<1>9. sched_id[t] = r
  <2>1. Occurs(t, inflight[r]) # 0
    BY <1>1, <1>3, OccursNat
  <2> QED BY <2>1 DEF DiskInv, DiskPinned, OwnTasks
<1>10. OwnTasks(p, r) /\ OwnTasks(q, r)
  <2>1. \A u \in Task : /\ Occurs(u, p) # 0 => Occurs(u, inflight[r]) # 0
                        /\ Occurs(u, q) # 0 => Occurs(u, cq[r]) # 0 \/ u = t
    BY <1>4, <1>5, <1>7, SMTT(30), Z3T(30)
  <2>2. OwnTasks(inflight[r], r) /\ OwnTasks(cq[r], r)
    BY DEF DiskInv, DiskPinned
  <2> QED BY <1>9, <2>1, <2>2 DEF OwnTasks
<1>11. DiskPinned'
  <2>1. ASSUME NEW s \in Ring
        PROVE  /\ OwnTasks(sq'[s], s) /\ OwnTasks(inflight'[s], s) /\ OwnTasks(cq'[s], s)
               /\ seen'[s] # NoTask => sched_id[seen'[s]] = s
    BY <1>0, <1>6, <1>10 DEF DiskInv, DiskPinned
  <2> QED BY <1>0, <2>1 DEF DiskInv, DiskPinned
<1>12. ASSUME NEW u \in Task, sched_id[u] \in Ring PROVE Wakers(u)' = Wakers(u)
  <2>1. CASE sched_id[u] # r
    BY <1>0, <1>6, <1>12, <2>1 DEF Wakers
  <2>2. CASE sched_id[u] = r
    <3>1. Occurs(u, sq[r]) \in Nat /\ Occurs(u, ready_q[r]) \in Nat
      BY <1>12, <2>2, WakersNat DEF DiskInv
    <3>2. /\ Occurs(u, inflight[r]) = Occurs(u, p) + IF t = u THEN 1 ELSE 0
          /\ Occurs(u, q) = Occurs(u, cq[r]) + IF t = u THEN 1 ELSE 0
      BY <1>4, <1>5
    <3>3. Wakers(u) = Occurs(u, sq[r]) + Occurs(u, inflight[r]) + Occurs(u, cq[r])
                         + (IF seen[r] = u THEN 1 ELSE 0) + Occurs(u, ready_q[r])
      BY <2>2 DEF Wakers
    <3>4. Wakers(u)' = Occurs(u, sq[r]) + Occurs(u, p) + Occurs(u, q)
                         + (IF seen[r] = u THEN 1 ELSE 0) + Occurs(u, ready_q[r])
      BY <1>0, <1>6, <2>2 DEF Wakers
    <3>5. Occurs(u, p) \in Nat /\ Occurs(u, cq[r]) \in Nat
      BY <1>7
    <3>6. PICK d \in Nat : d = IF t = u THEN 1 ELSE 0
      BY BitNat
    <3>7. PICK w \in Nat : w = IF seen[r] = u THEN 1 ELSE 0
      BY BitNat
    <3>8. /\ Wakers(u) = Occurs(u, sq[r]) + (Occurs(u, p) + d) + Occurs(u, cq[r]) + w + Occurs(u, ready_q[r])
          /\ Wakers(u)' = Occurs(u, sq[r]) + Occurs(u, p) + (Occurs(u, cq[r]) + d) + w + Occurs(u, ready_q[r])
      BY <3>2, <3>3, <3>4, <3>6, <3>7
    <3> QED BY <3>1, <3>5, <3>8, SMTT(30), Z3T(30)
  <2> QED BY <2>1, <2>2
<1> QED BY <1>0, <1>8, <1>11, <1>12, MoveStep

LEMMA ReapInv == ASSUME DiskInv, NEW r \in Ring, WorkerReap(r) PROVE DiskInv'
<1>0. UNCHANGED <<ready_q, current, preempt, pc, wait_q, sq, inflight, fails>>
  BY DEF WorkerReap, rtVars
<1>1. cq[r] # <<>> /\ seen[r] = NoTask /\ cq[r] \in Seq(Task)
  BY QueueTypes DEF WorkerReap, DiskInv
<1>2. PICK t \in Task, q \in Seq(Task) :
        /\ t = Head(cq[r]) /\ q = Tail(cq[r])
        /\ \A u \in Task : Occurs(u, cq[r]) = Occurs(u, q) + IF t = u THEN 1 ELSE 0
  <2>1. /\ Head(cq[r]) \in Task /\ Tail(cq[r]) \in Seq(Task)
        /\ \A u \in Task : Occurs(u, cq[r])
                              = Occurs(u, Tail(cq[r])) + IF Head(cq[r]) = u THEN 1 ELSE 0
    BY <1>1, OccursTail
  <2> QED BY <2>1
<1>3. /\ cq' = [cq EXCEPT ![r] = q] /\ seen' = [seen EXCEPT ![r] = t]
      /\ \E res \in {"bytes", "error"} : Done(t, res)
  BY <1>2 DEF WorkerReap
<1>4. io' \in [Task -> [op : Op, done_n : {"zero", "bytes", "error"}, io_done : BOOLEAN]]
  BY <1>3, DoneTypes DEF DiskInv
<1>5. /\ cq' \in [Ring -> Seq(Task)] /\ cq'[r] = q
      /\ seen' \in [Ring -> Task \cup {NoTask}] /\ seen'[r] = t
      /\ \A s \in Ring \ {r} : seen'[s] = seen[s] /\ cq'[s] = cq[s]
  BY <1>3 DEF DiskInv, TypeOK
<1>6. TypeOK'
  BY <1>0, <1>4, <1>5 DEF DiskInv, TypeOK, RtTypeOK
<1>7. \A u \in Task : Occurs(u, q) \in Nat /\ Occurs(u, cq[r]) \in Nat
  BY <1>1, OccursNat
<1>8. OwnTasks(q, r) /\ sched_id[t] = r
  <2>1. (\A u \in Task : Occurs(u, q) # 0 => Occurs(u, cq[r]) # 0) /\ Occurs(t, cq[r]) # 0
    BY <1>2, <1>7, SMTT(30), Z3T(30)
  <2> QED BY <2>1 DEF DiskInv, DiskPinned, OwnTasks
<1>9. DiskPinned'
  <2>1. ASSUME NEW s \in Ring
        PROVE  /\ OwnTasks(sq'[s], s) /\ OwnTasks(inflight'[s], s) /\ OwnTasks(cq'[s], s)
               /\ seen'[s] # NoTask => sched_id[seen'[s]] = s
    BY <1>0, <1>5, <1>8 DEF DiskInv, DiskPinned
  <2> QED BY <1>0, <2>1 DEF DiskInv, DiskPinned
<1>10. ASSUME NEW u \in Task, sched_id[u] \in Ring PROVE Wakers(u)' = Wakers(u)
  <2>1. CASE sched_id[u] # r
    BY <1>0, <1>5, <1>10, <2>1 DEF Wakers
  <2>2. CASE sched_id[u] = r
    <3>1. /\ Occurs(u, sq[r]) \in Nat /\ Occurs(u, ready_q[r]) \in Nat
          /\ Occurs(u, inflight[r]) \in Nat
      BY <1>10, <2>2, WakersNat DEF DiskInv
    <3>2. /\ Occurs(u, cq[r]) = Occurs(u, q) + IF t = u THEN 1 ELSE 0
          /\ (IF seen[r] = u THEN 1 ELSE 0) = 0
      BY <1>1, <1>2, SchedAssumption
    <3>3. Wakers(u) = Occurs(u, sq[r]) + Occurs(u, inflight[r]) + Occurs(u, cq[r])
                         + (IF seen[r] = u THEN 1 ELSE 0) + Occurs(u, ready_q[r])
      BY <2>2 DEF Wakers
    <3>4. Wakers(u)' = Occurs(u, sq[r]) + Occurs(u, inflight[r]) + Occurs(u, q)
                         + (IF t = u THEN 1 ELSE 0) + Occurs(u, ready_q[r])
      BY <1>0, <1>5, <2>2 DEF Wakers
    <3>5. Occurs(u, q) \in Nat
      BY <1>7
    <3>6. PICK d \in Nat : d = IF t = u THEN 1 ELSE 0
      BY BitNat
    <3>7. /\ Wakers(u) = Occurs(u, sq[r]) + Occurs(u, inflight[r]) + (Occurs(u, q) + d) + 0 + Occurs(u, ready_q[r])
          /\ Wakers(u)' = Occurs(u, sq[r]) + Occurs(u, inflight[r]) + Occurs(u, q) + d + Occurs(u, ready_q[r])
      BY <3>2, <3>3, <3>4, <3>6
    <3> QED BY <3>1, <3>5, <3>7, SMTT(30), Z3T(30)
  <2> QED BY <2>1, <2>2
<1> QED BY <1>0, <1>6, <1>9, <1>10, MoveStep

(* An entry of t is prepared, and a prefix of the queue, perhaps none,     *)
(* goes to the kernel: the two queues hold one entry of t more.            *)
OneMoreEntry(t, r, p, i) ==
  \A u \in Task : Occurs(u, p) + Occurs(u, i)
    = Occurs(u, sq[r]) + Occurs(u, inflight[r]) + IF t = u THEN 1 ELSE 0

LEMMA EntriesGo ==
  ASSUME DiskInv, NEW t \in Task, NEW r \in Ring, r = sched_id[t], NEW p \in Seq(Task), NEW i \in Seq(Task),
         OneMoreEntry(t, r, p, i),
         sq' = [sq EXCEPT ![r] = p], inflight' = [inflight EXCEPT ![r] = i],
         UNCHANGED <<rtVars, cq, seen>>
  PROVE  /\ {sq', inflight', cq'} \subseteq [Ring -> Seq(Task)] /\ DiskPinned'
         /\ sq'[r] = p /\ \A s \in Ring \ {r} : sq'[s] = sq[s]
         /\ \A u \in Task : sched_id[u] \in Ring =>
              /\ Wakers(u) \in Nat /\ Wakers(u)' = Wakers(u) + IF t = u THEN 1 ELSE 0
<1>0. UNCHANGED <<ready_q, current, preempt, cq, seen>>
  BY DEF rtVars
<1>1. /\ sq' \in [Ring -> Seq(Task)] /\ inflight' \in [Ring -> Seq(Task)] /\ cq' \in [Ring -> Seq(Task)]
      /\ sq'[r] = p /\ inflight'[r] = i
      /\ \A s \in Ring \ {r} : sq'[s] = sq[s] /\ inflight'[s] = inflight[s]
  BY <1>0 DEF DiskInv, TypeOK
<1>2. \A u \in Task : /\ Occurs(u, p) \in Nat /\ Occurs(u, i) \in Nat
                      /\ Occurs(u, sq[r]) \in Nat /\ Occurs(u, inflight[r]) \in Nat
  BY QueueTypes, OccursNat DEF DiskInv
<1>3. OwnTasks(p, r) /\ OwnTasks(i, r)
  <2>1. \A u \in Task : Occurs(u, p) # 0 \/ Occurs(u, i) # 0 =>
          Occurs(u, sq[r]) # 0 \/ Occurs(u, inflight[r]) # 0 \/ u = t
    <3> SUFFICES ASSUME NEW u \in Task, Occurs(u, sq[r]) = 0, Occurs(u, inflight[r]) = 0, u # t
                 PROVE  Occurs(u, p) = 0 /\ Occurs(u, i) = 0
      OBVIOUS
    <3>1. Occurs(u, p) + Occurs(u, i) = 0 + 0 + 0 /\ Occurs(u, p) \in Nat /\ Occurs(u, i) \in Nat
      BY <1>2 DEF OneMoreEntry
    <3> QED BY <3>1, SMTT(30), Z3T(30)
  <2>2. OwnTasks(inflight[r], r) /\ OwnTasks(sq[r], r)
    BY DEF DiskInv, DiskPinned
  <2> QED BY <2>1, <2>2 DEF OwnTasks
<1>4. DiskPinned'
  <2>1. ASSUME NEW s \in Ring
        PROVE  /\ OwnTasks(sq'[s], s) /\ OwnTasks(inflight'[s], s) /\ OwnTasks(cq'[s], s)
               /\ seen'[s] # NoTask => sched_id[seen'[s]] = s
    <3>1. OwnTasks(cq'[s], s) /\ (seen'[s] # NoTask => sched_id[seen'[s]] = s)
      BY <1>0 DEF DiskInv, DiskPinned
    <3>2. OwnTasks(sq'[s], s) /\ OwnTasks(inflight'[s], s)
      <4>1. CASE s = r
        BY <1>1, <1>3, <4>1
      <4>2. CASE s # r
        BY <1>1, <4>2 DEF DiskInv, DiskPinned
      <4> QED BY <4>1, <4>2
    <3> QED BY <3>1, <3>2
  <2> QED BY <1>0, <2>1 DEF DiskInv, DiskPinned
<1>5. ASSUME NEW u \in Task, sched_id[u] \in Ring
      PROVE  Wakers(u) \in Nat /\ Wakers(u)' = Wakers(u) + IF t = u THEN 1 ELSE 0
  <2>0. Wakers(u) \in Nat
    BY <1>5, WakersNat DEF DiskInv
  <2>1. CASE sched_id[u] # r
    <3>1. Wakers(u)' = Wakers(u)
      BY <1>0, <1>1, <1>5, <2>1 DEF Wakers
    <3>2. t # u
      BY <2>1
    <3> QED BY <2>0, <3>1, <3>2, PlusZero
  <2>2. CASE sched_id[u] = r
    <3>1. Occurs(u, cq[r]) \in Nat /\ Occurs(u, ready_q[r]) \in Nat
      BY <1>5, <2>2, WakersNat DEF DiskInv
    <3>2. PICK d : d = IF t = u THEN 1 ELSE 0
      OBVIOUS
    <3>a. d \in Nat
      BY <3>2, SMTT(30), Z3T(30)
    <3>b. Occurs(u, p) + Occurs(u, i) = Occurs(u, sq[r]) + Occurs(u, inflight[r]) + d
      BY <3>2 DEF OneMoreEntry
    <3>3. /\ Occurs(u, p) \in Nat /\ Occurs(u, i) \in Nat
          /\ Occurs(u, sq[r]) \in Nat /\ Occurs(u, inflight[r]) \in Nat
      BY <1>2
    <3>4. PICK w : w = IF seen[r] = u THEN 1 ELSE 0
      OBVIOUS
    <3>5. w \in Nat
      BY <3>4, SMTT(30), Z3T(30)
    <3>6. /\ Wakers(u) = Occurs(u, sq[r]) + Occurs(u, inflight[r]) + Occurs(u, cq[r]) + w + Occurs(u, ready_q[r])
          /\ Wakers(u)' = Occurs(u, p) + Occurs(u, i) + Occurs(u, cq[r]) + w + Occurs(u, ready_q[r])
      BY <1>0, <1>1, <2>2, <3>4 DEF Wakers
    <3>c. PICK s : s = Occurs(u, sq[r]) + Occurs(u, inflight[r])
      OBVIOUS
    <3>d. s \in Nat
      BY <3>3, <3>c, SMTT(30), Z3T(30)
    <3>e. s + d + Occurs(u, cq[r]) + w + Occurs(u, ready_q[r])
            = (s + Occurs(u, cq[r]) + w + Occurs(u, ready_q[r])) + d
      BY <3>1, <3>a, <3>5, <3>d, SMTT(30), Z3T(30)
    <3>7. Wakers(u)' = Wakers(u) + d
      BY <3>6, <3>b, <3>c, <3>e
    <3> QED BY <2>0, <3>2, <3>7
  <2> QED BY <2>1, <2>2
<1> QED BY <1>1, <1>4, <1>5

(* A queue that was no longer than fails, once it has one entry more. *)
LEMMA OneLonger == ASSUME NEW m \in Nat, NEW n \in Nat, m <= n PROVE m + 1 <= n + 1 /\ m <= n + 1
BY SMTT(30), Z3T(30)

LEMMA TakenOff ==
  ASSUME NEW m \in Nat, NEW n \in Nat, m <= n PROVE \A k \in 1 .. m + 1 : (m + 1) - k <= n
BY SMTT(30), Z3T(30)

LEMMA SubmitInv == ASSUME DiskInv, NEW t \in Task, Submit(t) PROVE DiskInv'
<1>1. PICK r \in Ring : r = sched_id[t]
  BY DEF Submit
<1>2. /\ Running(t) /\ pc[t] = "submit" /\ wait_q' = wait_q \cup {t} /\ UNCHANGED <<rtVars, cq, seen>>
      /\ UNCHANGED <<ready_q, current, preempt>> /\ ~Asleep(t)
  BY DEF Submit, At, rtVars, Asleep
<1>3. /\ sq[r] \in Seq(Task) /\ inflight[r] \in Seq(Task) /\ fails \in Nat
      /\ Depth \in Nat \ {0} /\ Len(sq[r]) \in Nat
  <2>1. sq[r] \in Seq(Task) /\ inflight[r] \in Seq(Task)
    BY QueueTypes DEF DiskInv
  <2>2. fails \in 0 .. MaxFails
    BY DEF DiskInv, TypeOK
  <2> QED BY <2>1, <2>2, DiskAssumption, SMTT(30), Z3T(30)
<1>4. PICK q \in Seq(Task) :
        /\ q = Append(sq[r], t) /\ Len(q) = Len(sq[r]) + 1
        /\ \A u \in Task : Occurs(u, q) = Occurs(u, sq[r]) + IF t = u THEN 1 ELSE 0
  <2>1. Append(sq[r], t) \in Seq(Task) /\ Len(Append(sq[r], t)) = Len(sq[r]) + 1
    BY <1>3, AppendEntry
  <2>2. \A u \in Task : Occurs(u, Append(sq[r], t)) = Occurs(u, sq[r]) + IF t = u THEN 1 ELSE 0
    BY <1>3, OccursAppend
  <2> QED BY <2>1, <2>2
<1>a. \A u \in Task : Occurs(u, q) \in Nat /\ Occurs(u, inflight[r]) \in Nat /\ Occurs(u, sq[r]) \in Nat
  BY <1>3, OccursNat
<1>5. ASSUME NEW n \in 1 .. Len(q),
             sq' = [sq EXCEPT ![r] = SubSeq(q, n + 1, Len(q))],
             inflight' = [inflight EXCEPT ![r] = inflight[r] \o SubSeq(q, 1, n)],
             pc' = [pc EXCEPT ![t] = "yield"], UNCHANGED <<io, fails>>
      PROVE  DiskInv'
  <2>1. n \in 0 .. Len(q)
    BY SMTT(30), Z3T(30)
  <2>2. PICK p \in Seq(Task), s \in Seq(Task) :
          /\ p = SubSeq(q, n + 1, Len(q)) /\ s = SubSeq(q, 1, n) /\ Len(p) = Len(q) - n
          /\ \A u \in Task : Occurs(u, q) = Occurs(u, s) + Occurs(u, p)
    <3>1. /\ SubSeq(q, 1, n) \in Seq(Task) /\ SubSeq(q, n + 1, Len(q)) \in Seq(Task)
          /\ Len(SubSeq(q, n + 1, Len(q))) = Len(q) - n
          /\ \A u \in Task : Occurs(u, q) = Occurs(u, SubSeq(q, 1, n)) + Occurs(u, SubSeq(q, n + 1, Len(q)))
      BY <2>1, OccursSplit
    <3> QED BY <3>1
  <2>3. PICK i \in Seq(Task) :
          /\ i = inflight[r] \o s
          /\ \A u \in Task : Occurs(u, i) = Occurs(u, inflight[r]) + Occurs(u, s)
    <3>1. /\ inflight[r] \o s \in Seq(Task)
          /\ \A u \in Task : Occurs(u, inflight[r] \o s) = Occurs(u, inflight[r]) + Occurs(u, s)
      BY <1>3, OccursConcat, ConcatEntries
    <3> QED BY <3>1
  <2>4. sq' = [sq EXCEPT ![r] = p] /\ inflight' = [inflight EXCEPT ![r] = i]
    BY <1>5, <2>2, <2>3
  <2>5. OneMoreEntry(t, r, p, i)
    <3> SUFFICES ASSUME NEW u \in Task
                 PROVE  Occurs(u, p) + Occurs(u, i)
                          = Occurs(u, sq[r]) + Occurs(u, inflight[r]) + IF t = u THEN 1 ELSE 0
      BY DEF OneMoreEntry
    <3>1. Occurs(u, p) \in Nat /\ Occurs(u, s) \in Nat
      BY OccursNat
    <3>2. Occurs(u, inflight[r]) \in Nat /\ Occurs(u, sq[r]) \in Nat
      BY <1>a
    <3>3. /\ Occurs(u, q) = Occurs(u, sq[r]) + IF t = u THEN 1 ELSE 0
          /\ Occurs(u, q) = Occurs(u, s) + Occurs(u, p)
          /\ Occurs(u, i) = Occurs(u, inflight[r]) + Occurs(u, s)
      BY <1>4, <2>2, <2>3
    <3> QED BY <3>1, <3>2, <3>3, SMTT(30), Z3T(30)
  <2>6. /\ {sq', inflight', cq'} \subseteq [Ring -> Seq(Task)] /\ DiskPinned'
        /\ sq'[r] = p /\ \A v \in Ring \ {r} : sq'[v] = sq[v]
        /\ \A u \in Task : sched_id[u] \in Ring =>
              /\ Wakers(u) \in Nat /\ Wakers(u)' = Wakers(u) + IF t = u THEN 1 ELSE 0
    BY <1>1, <1>2, <2>4, <2>5, EntriesGo
  <2>7. /\ pc' \in [Task -> {"user", "call", "submit", "yield", "resume", "done"}]
        /\ pc'[t] = "yield" /\ \A u \in Task \ {t} : pc'[u] = pc[u]
    BY <1>5 DEF DiskInv, TypeOK
  <2>8. TypeOK'
    BY <1>2, <1>5, <2>6, <2>7 DEF DiskInv, TypeOK, RtTypeOK
  <2>9. LeftBehind'
    <3>1. Len(p) <= fails
      <4>1. Len(sq[r]) <= fails
        BY DEF DiskInv, LeftBehind
      <4>2. n \in 1 .. Len(sq[r]) + 1 /\ Len(p) = (Len(sq[r]) + 1) - n
        BY <1>4, <2>2
      <4>3. Len(sq[r]) \in Nat /\ fails \in Nat
        BY <1>3
      <4> QED BY <4>1, <4>2, <4>3, TakenOff
    <3> QED BY <1>5, <2>6, <3>1 DEF DiskInv, LeftBehind
  <2>10. TaskInv(t)'
    <3>1. Asleep(t)' /\ Running(t)'
      BY <1>2, <2>7 DEF Asleep, Running
    <3>2. Wakers(t) \in Nat /\ Wakers(t)' = Wakers(t) + 1 /\ (fails = 0 => Wakers(t) = 0)
      BY <1>1, <1>2, <2>6 DEF DiskInv, TaskInv
    <3>3. Wakers(t)' # 0 /\ (fails = 0 => Wakers(t)' = 1)
      BY <3>2, SMTT(30), Z3T(30)
    <3> QED BY <1>5, <3>1, <3>3 DEF TaskInv
  <2>11. ASSUME NEW u \in Task \ {t} PROVE TaskInv(u)'
    <3>1. Running(u)' <=> Running(u)
      BY <1>2 DEF Running
    <3>2. sched_id[u] \in Ring => Wakers(u)' = Wakers(u)
      <4>1. sched_id[u] \in Ring => Wakers(u) \in Nat /\ Wakers(u)' = Wakers(u) + 0
        BY <2>6
      <4> QED BY <4>1, SMTT(30), Z3T(30)
    <3> QED BY <1>5, <2>7, <3>1, <3>2, OtherTask
  <2> QED BY <2>6, <2>8, <2>9, <2>10, <2>11 DEF DiskInv
<1>6. ASSUME fails < MaxFails, fails' = fails + 1, sq' = [sq EXCEPT ![r] = q], Done(t, "error"),
             pc' = [pc EXCEPT ![t] = IF io[t].op = "file_read" THEN "yield" ELSE "user"],
             UNCHANGED inflight
      PROVE  DiskInv'
  <2>1. OneMoreEntry(t, r, q, inflight[r])
    <3> SUFFICES ASSUME NEW u \in Task
                 PROVE  Occurs(u, q) + Occurs(u, inflight[r])
                          = Occurs(u, sq[r]) + Occurs(u, inflight[r]) + IF t = u THEN 1 ELSE 0
      BY DEF OneMoreEntry
    <3>1. Occurs(u, q) = Occurs(u, sq[r]) + IF t = u THEN 1 ELSE 0
      BY <1>4
    <3>2. Occurs(u, inflight[r]) \in Nat /\ Occurs(u, sq[r]) \in Nat
      BY <1>a
    <3> QED BY <3>1, <3>2, SMTT(30), Z3T(30)
  <2>2. inflight' = [inflight EXCEPT ![r] = inflight[r]]
    BY <1>6 DEF DiskInv, TypeOK
  <2>3. /\ {sq', inflight', cq'} \subseteq [Ring -> Seq(Task)] /\ DiskPinned'
        /\ sq'[r] = q /\ \A v \in Ring \ {r} : sq'[v] = sq[v]
        /\ \A u \in Task : sched_id[u] \in Ring =>
              /\ Wakers(u) \in Nat /\ Wakers(u)' = Wakers(u) + IF t = u THEN 1 ELSE 0
    BY <1>1, <1>2, <1>3, <1>6, <2>1, <2>2, EntriesGo
  <2>4. PICK l \in {"yield", "user"} : pc' = [pc EXCEPT ![t] = l]
    BY <1>6
  <2>5. /\ pc' \in [Task -> {"user", "call", "submit", "yield", "resume", "done"}]
        /\ pc'[t] = l /\ \A u \in Task \ {t} : pc'[u] = pc[u]
    BY <2>4 DEF DiskInv, TypeOK
  <2>6. fails' \in 0 .. MaxFails /\ fails' # 0 /\ fails' = fails + 1
    <3>1. fails \in Nat /\ MaxFails \in Nat /\ fails < MaxFails /\ fails' = fails + 1
      BY <1>3, <1>6, DiskAssumption
    <3> QED BY <3>1, SMTT(30), Z3T(30)
  <2>7. io' \in [Task -> [op : Op, done_n : {"zero", "bytes", "error"}, io_done : BOOLEAN]]
    BY <1>6, DoneTypes DEF DiskInv
  <2>8. TypeOK'
    BY <1>2, <2>3, <2>5, <2>6, <2>7 DEF DiskInv, TypeOK, RtTypeOK
  <2>9. LeftBehind'
    <3> SUFFICES ASSUME NEW v \in Ring PROVE Len(sq'[v]) <= fails'
      BY DEF LeftBehind
    <3>1. Len(sq[v]) <= fails /\ sq[v] \in Seq(Task)
      BY QueueTypes DEF DiskInv, LeftBehind
    <3>a. Len(sq[v]) + 1 <= fails + 1 /\ Len(sq[v]) <= fails + 1
      <4>1. Len(sq[v]) \in Nat /\ fails \in Nat
        BY <1>3, <3>1, LenProperties
      <4> QED BY <3>1, <4>1, OneLonger
    <3>2. CASE v = r
      BY <1>4, <2>3, <2>6, <3>a, <3>2
    <3>3. CASE v # r
      BY <2>3, <2>6, <3>a, <3>3
    <3> QED BY <3>2, <3>3
  <2>10. TaskInv(t)'
    <3>1. Running(t)' /\ (Asleep(t)' <=> pc'[t] = "yield")
      BY <1>2, <2>5 DEF Asleep, Running
    <3>2. Wakers(t) \in Nat /\ Wakers(t)' = Wakers(t) + 1
      BY <1>1, <2>3
    <3>3. Wakers(t)' # 0
      BY <3>2, SMTT(30), Z3T(30)
    <3> QED BY <2>6, <3>1, <3>3 DEF TaskInv
  <2>11. ASSUME NEW u \in Task \ {t} PROVE TaskInv(u)'
    <3>1. Running(u)' <=> Running(u)
      BY <1>2 DEF Running
    <3>2. sched_id[u] \in Ring => Wakers(u)' = Wakers(u)
      <4>1. sched_id[u] \in Ring => Wakers(u) \in Nat /\ Wakers(u)' = Wakers(u) + 0
        BY <2>3
      <4> QED BY <4>1, PlusZero
    <3>3. fails >= Depth => fails' >= Depth
      BY <1>3, <2>6, SMTT(30), Z3T(30)
    <3> QED BY <2>5, <2>6, <3>1, <3>2, <3>3, OtherTask
  <2> QED BY <2>3, <2>8, <2>9, <2>10, <2>11 DEF DiskInv
<1> QED BY <1>1, <1>4, <1>5, <1>6 DEF Submit, Goto

LEMMA DispatchInv == ASSUME DiskInv, NEW k \in Thread, SchedDispatch(k) PROVE DiskInv'
<1>1. /\ current[k] = NoTask /\ ready_q[k] # <<>>
      /\ current' = [current EXCEPT ![k] = Head(ready_q[k])]
      /\ ready_q' = [ready_q EXCEPT ![k] = Tail(ready_q[k])]
      /\ wait_q' = wait_q \ {Head(ready_q[k])}
      /\ UNCHANGED <<preempt, pc, io, sq, inflight, cq, fails, seen>>
  BY DEF SchedDispatch, Dispatch, ringVars
<1>2. ready_q[k] \in Seq(Task)
  BY DEF DiskInv, TypeOK, RtTypeOK
<1>3. PICK u \in Task, q \in Seq(Task) :
        /\ u = Head(ready_q[k]) /\ q = Tail(ready_q[k])
        /\ \A v \in Task : Occurs(v, ready_q[k]) = Occurs(v, q) + IF u = v THEN 1 ELSE 0
  <2>1. /\ Head(ready_q[k]) \in Task /\ Tail(ready_q[k]) \in Seq(Task)
        /\ \A v \in Task : Occurs(v, ready_q[k])
             = Occurs(v, Tail(ready_q[k])) + IF Head(ready_q[k]) = v THEN 1 ELSE 0
    BY <1>1, <1>2, OccursTail
  <2> QED BY <2>1
<1>4. /\ current' \in [Thread -> Task \cup {NoTask}] /\ current'[k] = u
      /\ \A j \in Thread \ {k} : current'[j] = current[j]
      /\ ready_q' \in [Thread -> Seq(Task)] /\ ready_q'[k] = q
      /\ \A j \in Thread \ {k} : ready_q'[j] = ready_q[j]
  BY <1>1, <1>3 DEF DiskInv, TypeOK, RtTypeOK
<1>5. \A v \in Task : Occurs(v, q) \in Nat /\ Occurs(v, ready_q[k]) \in Nat
  BY <1>2, OccursNat
<1>6. OwnTasks(q, k) /\ sched_id[u] = k
  <2>1. \A v \in Task : Occurs(v, q) # 0 \/ v = u => Occurs(v, ready_q[k]) # 0
    <3> SUFFICES ASSUME NEW v \in Task, Occurs(v, ready_q[k]) = 0
                 PROVE  Occurs(v, q) = 0 /\ v # u
      OBVIOUS
    <3>1. Occurs(v, q) \in Nat /\ 0 = Occurs(v, q) + IF u = v THEN 1 ELSE 0
      BY <1>3, <1>5
    <3> QED BY <3>1, SMTT(30), Z3T(30)
  <2> QED BY <2>1 DEF DiskInv, DiskPinned, OwnTasks
<1>7. TypeOK'
  <2>1. wait_q' \subseteq Task
    BY <1>1 DEF DiskInv, TypeOK
  <2> QED BY <1>1, <1>4, <2>1 DEF DiskInv, TypeOK, RtTypeOK
<1>8. DiskPinned' /\ LeftBehind'
  <2>1. ASSUME NEW j \in Thread
        PROVE  (current'[j] # NoTask => sched_id[current'[j]] = j) /\ OwnTasks(ready_q'[j], j)
    <3>1. CASE j = k
      BY <1>4, <1>6, <3>1
    <3>2. CASE j # k
      BY <1>4, <3>2 DEF DiskInv, DiskPinned
    <3> QED BY <3>1, <3>2
  <2> QED BY <1>1, <2>1 DEF DiskInv, DiskPinned, LeftBehind
<1>9. ASSUME NEW v \in Task, sched_id[v] \in Ring
      PROVE  /\ Wakers(v) \in Nat /\ Wakers(v)' \in Nat
             /\ Wakers(v) = Wakers(v)' + IF u = v THEN 1 ELSE 0
  <2>0. Wakers(v) \in Nat
    BY <1>9, WakersNat DEF DiskInv
  <2>1. CASE sched_id[v] # k
    <3>1. Wakers(v)' = Wakers(v)
      BY <1>1, <1>4, <1>9, <2>1, SchedAssumption DEF Wakers
    <3>2. u # v
      BY <1>6, <2>1
    <3> QED BY <2>0, <3>1, <3>2, PlusZero
  <2>2. CASE sched_id[v] = k
    <3>1. /\ Occurs(v, sq[k]) \in Nat /\ Occurs(v, inflight[k]) \in Nat
          /\ Occurs(v, cq[k]) \in Nat /\ Occurs(v, ready_q[k]) \in Nat /\ Occurs(v, q) \in Nat
      BY <1>5, <1>9, <2>2, WakersNat DEF DiskInv
    <3>2. PICK d : d = IF u = v THEN 1 ELSE 0
      OBVIOUS
    <3>3. PICK w : w = IF seen[k] = v THEN 1 ELSE 0
      OBVIOUS
    <3>4. d \in Nat /\ w \in Nat
      BY <3>2, <3>3, SMTT(30), Z3T(30)
    <3>5. Occurs(v, ready_q[k]) = Occurs(v, q) + d
      BY <1>3, <3>2
    <3>6. /\ Wakers(v) = Occurs(v, sq[k]) + Occurs(v, inflight[k]) + Occurs(v, cq[k]) + w + Occurs(v, ready_q[k])
          /\ Wakers(v)' = Occurs(v, sq[k]) + Occurs(v, inflight[k]) + Occurs(v, cq[k]) + w + Occurs(v, q)
      BY <1>1, <1>4, <2>2, <3>3 DEF Wakers
    <3>7. Occurs(v, sq[k]) + Occurs(v, inflight[k]) + Occurs(v, cq[k]) + w + Occurs(v, ready_q[k])
            = (Occurs(v, sq[k]) + Occurs(v, inflight[k]) + Occurs(v, cq[k]) + w + Occurs(v, q)) + d
      BY <3>1, <3>4, <3>5, SMTT(30), Z3T(30)
    <3>8. Occurs(v, sq[k]) + Occurs(v, inflight[k]) + Occurs(v, cq[k]) + w + Occurs(v, q) \in Nat
      BY <3>1, <3>4, SMTT(30), Z3T(30)
    <3> QED BY <2>0, <3>2, <3>6, <3>7, <3>8
  <2> QED BY <2>1, <2>2
<1>10. TaskInv(u)'
  <2>1. ~Running(u) /\ Running(u)'
    BY <1>1, <1>4, <1>6, SchedAssumption DEF Running
  <2>2. pc[u] # "yield" /\ ~Asleep(u)'
    BY <1>1, <2>1 DEF DiskInv, TaskInv, Asleep
  <2>3. ASSUME sched_id[u] \in Ring, fails = 0 PROVE Wakers(u)' = 0
    <3>1. Wakers(u)' \in Nat /\ Wakers(u) = Wakers(u)' + 1
      BY <1>9, <2>3
    <3>2. Wakers(u) \in {0, 1}
      BY <2>3 DEF DiskInv, TaskInv
    <3> QED BY <3>1, <3>2, SMTT(30), Z3T(30)
  <2> QED BY <1>1, <2>2, <2>3 DEF TaskInv
<1>11. ASSUME NEW v \in Task \ {u} PROVE TaskInv(v)'
  <2>1. Running(v)' <=> Running(v)
    <3>1. CASE sched_id[v] = k
      <4>1. ~Running(v) /\ ~Running(v)'
        BY <1>1, <1>4, <3>1, SchedAssumption DEF Running
      <4> QED BY <4>1
    <3>2. CASE sched_id[v] # k
      BY <1>4, <3>2, SchedAssumption DEF Running
    <3> QED BY <3>1, <3>2
  <2>2. sched_id[v] \in Ring => Wakers(v)' = Wakers(v)
    <3>1. sched_id[v] \in Ring => Wakers(v)' \in Nat /\ Wakers(v) = Wakers(v)' + 0
      BY <1>9
    <3> QED BY <3>1, SMTT(30), Z3T(30)
  <2> QED BY <1>1, <2>1, <2>2, OtherTask
<1> QED BY <1>7, <1>8, <1>10, <1>11 DEF DiskInv

LEMMA TimerInv == ASSUME DiskInv, NEW k \in Thread, SchedTimer(k) PROVE DiskInv'
<1>1. /\ preempt' = [preempt EXCEPT ![k] = TRUE]
      /\ UNCHANGED <<ready_q, current, pc, io, wait_q, sq, inflight, cq, fails, seen>>
  BY DEF SchedTimer, ForcePreempt, diskVars, taskVars, ringVars
<1>2. TypeOK'
  BY <1>1 DEF DiskInv, TypeOK, RtTypeOK
<1>3. DiskPinned'
  BY <1>1 DEF DiskInv, DiskPinned
<1>4. \A u \in Task : Wakers(u)' = Wakers(u)
  BY <1>1, WakersKept
<1> QED BY <1>1, <1>2, <1>3, <1>4, MoveStep

LEMMA StillInv == ASSUME DiskInv, UNCHANGED vars PROVE DiskInv'
<1>1. UNCHANGED <<ready_q, current, preempt, pc, io, wait_q, sq, inflight, cq, fails, seen>>
  BY DEF vars, rtVars, diskVars, taskVars, ringVars
<1>2. TypeOK' /\ DiskPinned'
  BY <1>1 DEF DiskInv, TypeOK, RtTypeOK, DiskPinned
<1>3. \A u \in Task : Wakers(u)' = Wakers(u)
  BY <1>1, WakersKept
<1> QED BY <1>1, <1>2, <1>3, MoveStep

(* Every task waits once in the ready queue of its thread. *)
LEMMA InitInv == Init => DiskInv
<1> SUFFICES ASSUME Init PROVE DiskInv
  OBVIOUS
<1>1. /\ ready_q = boot_q /\ current = [k \in Thread |-> NoTask] /\ preempt = [k \in Thread |-> FALSE]
      /\ pc = [t \in Task |-> "user"] /\ io = [t \in Task |-> Fresh("other")] /\ wait_q = {}
      /\ sq = [r \in Ring |-> <<>>] /\ inflight = [r \in Ring |-> <<>>] /\ cq = [r \in Ring |-> <<>>]
      /\ seen = [r \in Ring |-> NoTask] /\ fails = 0
  BY DEF Init, RtInit
<1>2. TypeOK
  <2>1. <<>> \in Seq(Task) /\ 0 \in 0 .. MaxFails
    BY DiskAssumption, SMTT(30), Z3T(30)
  <2>2. Fresh("other") \in [op : Op, done_n : {"zero", "bytes", "error"}, io_done : BOOLEAN]
    BY DEF Fresh, Op
  <2>3. sq \in [Ring -> Seq(Task)] /\ inflight \in [Ring -> Seq(Task)] /\ cq \in [Ring -> Seq(Task)]
    BY <1>1, <2>1
  <2>4. RtTypeOK
    BY <1>1, SchedAssumption DEF RtTypeOK
  <2> QED BY <1>1, <2>1, <2>2, <2>3, <2>4 DEF TypeOK
<1>3. ASSUME NEW k \in Thread PROVE OwnTasks(ready_q[k], k)
  <2> SUFFICES ASSUME NEW t \in Task, Occurs(t, boot_q[k]) # 0 PROVE sched_id[t] = k
    BY <1>1 DEF OwnTasks
  <2>1. boot_q[k] \in Seq(Task)
    BY SchedAssumption
  <2>2. PICK i \in DOMAIN boot_q[k] : boot_q[k][i] = t
    BY <2>1, OccursNat
  <2> QED BY <2>2, SchedAssumption
<1>4. ASSUME NEW r \in Ring PROVE OwnTasks(sq[r], r) /\ OwnTasks(inflight[r], r) /\ OwnTasks(cq[r], r)
  BY <1>1, OccursEmpty DEF OwnTasks
<1>5. DiskPinned
  BY <1>1, <1>3, <1>4 DEF DiskPinned
<1>6. LeftBehind
  <2>1. Len(<<>>) <= 0
    BY SMTT(30), Z3T(30)
  <2> QED BY <1>1, <2>1 DEF LeftBehind
<1>7. ASSUME NEW t \in Task PROVE TaskInv(t)
  <2>1. ~Running(t) /\ Asleep(t)
    BY <1>1, SchedAssumption DEF Running, Asleep
  <2>2. Occurs(t, ready_q[sched_id[t]]) = 1
    <3>1. PICK i \in DOMAIN boot_q[sched_id[t]] : boot_q[sched_id[t]][i] = t
      BY SchedAssumption DEF Range
    <3>2. {j \in DOMAIN boot_q[sched_id[t]] : boot_q[sched_id[t]][j] = t} = {i}
      BY <3>1, SchedAssumption
    <3> QED BY <1>1, <3>2, FS_Singleton DEF Occurs
  <2>3. ASSUME sched_id[t] \in Ring PROVE Wakers(t) = 1
    <3>1. Wakers(t) = 0 + 0 + 0 + 0 + 1
      <4>1. seen[sched_id[t]] # t
        BY <1>1, <2>3, SchedAssumption
      <4>2. Occurs(t, sq[sched_id[t]]) = 0 /\ Occurs(t, inflight[sched_id[t]]) = 0 /\ Occurs(t, cq[sched_id[t]]) = 0
        BY <1>1, <2>3, OccursEmpty
      <4> QED BY <2>2, <4>1, <4>2 DEF Wakers
    <3> QED BY <3>1, SMTT(30), Z3T(30)
  <2>4. 1 # 0
    BY SMTT(30), Z3T(30)
  <2> QED BY <1>1, <2>1, <2>3, <2>4 DEF TaskInv
<1> QED BY <1>2, <1>5, <1>6, <1>7 DEF DiskInv

LEMMA DiskStep == DiskInv /\ [Next]_vars => DiskInv'
<1> SUFFICES ASSUME DiskInv, [Next]_vars PROVE DiskInv'
  OBVIOUS
<1>1. ASSUME NEW t \in Task, Step(t) PROVE DiskInv'
  BY <1>1, SafePointInv, CallInv, NoSqeInv, SubmitInv, YieldInv, ResumeInv, FinishInv DEF Step
<1>2. ASSUME NEW r \in Ring, Worker(r) PROVE DiskInv'
  BY <1>2, ReapInv, WorkerPushInv DEF Worker
<1>3. ASSUME NEW r \in Ring, NEW t \in Task, KernelComplete(r, t) PROVE DiskInv'
  BY <1>3, KernelInv
<1>4. ASSUME NEW k \in Thread, SchedDispatch(k) \/ SchedTimer(k) PROVE DiskInv'
  BY <1>4, DispatchInv, TimerInv
<1>5. CASE UNCHANGED vars
  BY <1>5, StillInv
<1> QED BY <1>1, <1>2, <1>3, <1>4, <1>5 DEF Next, Terminated

LEMMA DiskInvariance == Spec => []DiskInv
BY InitInv, DiskStep, PTL DEF Spec

(* The submissions of ascan, asyncio_printf, fread and fwrite, the kernel, *)
(* diskio_worker and scheduler_run hand a task on without losing it: for   *)
(* every number of tasks, threads and rings and every depth of the queues, *)
(* a task waits for exactly one completion while no submission has failed, *)
(* and is outside every queue only in front of one that failures filled.   *)
THEOREM DiskStrandsOnlyByFailure == Spec => []StrandedOnlyByFailure
<1>1. DiskInv => StrandedOnlyByFailure
  <2> SUFFICES ASSUME DiskInv PROVE StrandedOnlyByFailure
    OBVIOUS
  <2>1. OneWaker
    <3> SUFFICES ASSUME fails = 0, NEW t \in Task, sched_id[t] \in Ring
                 PROVE  (Pending(t) => Wakers(t) = 1) /\ (Running(t) /\ ~Pending(t) => Wakers(t) = 0)
      BY DEF OneWaker
    <3>1. Wakers(t) = IF Asleep(t) THEN 1 ELSE 0
      BY DEF DiskInv, TaskInv
    <3>2. (Pending(t) => Asleep(t)) /\ (Running(t) /\ ~Pending(t) => ~Asleep(t))
      BY DEF Pending, Asleep
    <3> QED BY <3>1, <3>2
  <2>2. ASSUME NEW t \in Task, sched_id[t] \in Ring, pc[t] # "done", ~Running(t), Wakers(t) = 0
        PROVE  pc[t] = "submit" /\ fails >= Depth
    BY <2>2 DEF DiskInv, TaskInv, Asleep
  <2> QED BY <2>1, <2>2 DEF StrandedOnlyByFailure, DiskInv
<1> QED BY <1>1, DiskInvariance, PTL
=============================================================================
