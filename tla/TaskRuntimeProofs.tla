-------------------------- MODULE TaskRuntimeProofs --------------------------
(***************************************************************************)
(* What push and pop do to a queue of tasks, and what the scheduler's      *)
(* operations do to where a task is: running on its thread, in its         *)
(* thread's ready queue, or elsewhere.                                     *)
(***************************************************************************)
EXTENDS TaskRuntime, TLAPS

(* safe_q_push puts the element in the queue and leaves the others there. *)
LEMMA PushMembers ==
  ASSUME NEW S, NEW q \in Seq(S), NEW x \in S
  PROVE  /\ Append(q, x) \in Seq(S)
         /\ Range(Append(q, x)) = Range(q) \cup {x}
         /\ Append(q, x) # <<>>
<1>1. Append(q, x) \in Seq(S) /\ Append(q, x) # <<>>
  <2>1. Append(q, x) \in Seq(S) /\ Len(Append(q, x)) = Len(q) + 1 /\ Len(q) \in Nat
    OBVIOUS
  <2>2. Len(<<>>) = 0
    OBVIOUS
  <2> QED BY <2>1, <2>2
<1>2. /\ DOMAIN Append(q, x) = 1 .. Len(q) + 1
      /\ DOMAIN q = 1 .. Len(q)
      /\ Len(q) \in Nat
      /\ Append(q, x)[Len(q) + 1] = x
      /\ \A i \in 1 .. Len(q) : Append(q, x)[i] = q[i]
  OBVIOUS
<1>3. Range(Append(q, x)) = Range(q) \cup {x}
  BY <1>2 DEF Range
<1> QED BY <1>1, <1>3

(* Pushing an element that is not queued keeps the queue free of doubles. *)
LEMMA PushNoDups ==
  ASSUME NEW S, NEW q \in Seq(S), NEW x \in S, NoDups(q), x \notin Range(q)
  PROVE  NoDups(Append(q, x))
<1>1. /\ DOMAIN Append(q, x) = 1 .. Len(q) + 1
      /\ DOMAIN q = 1 .. Len(q)
      /\ Len(q) \in Nat
      /\ Append(q, x)[Len(q) + 1] = x
      /\ \A i \in 1 .. Len(q) : Append(q, x)[i] = q[i]
  OBVIOUS
<1>2. \A i \in 1 .. Len(q) : q[i] # x
  BY <1>1 DEF Range
<1> QED BY <1>1, <1>2 DEF NoDups

(* safe_q_pop takes out its head, and nothing else, when no task is queued  *)
(* twice.                                                                   *)
LEMMA PopMembers ==
  ASSUME NEW S, NEW q \in Seq(S), q # <<>>, NoDups(q)
  PROVE  /\ Head(q) \in S
         /\ Head(q) \in Range(q)
         /\ Tail(q) \in Seq(S)
         /\ Range(Tail(q)) = Range(q) \ {Head(q)}
         /\ NoDups(Tail(q))
<1>1. /\ DOMAIN q = 1 .. Len(q)
      /\ Len(q) \in Nat /\ Len(q) # 0
      /\ Head(q) = q[1]
      /\ Tail(q) \in Seq(S)
      /\ Len(Tail(q)) = Len(q) - 1
      /\ DOMAIN Tail(q) = 1 .. Len(q) - 1
      /\ \A i \in 1 .. Len(q) - 1 : Tail(q)[i] = q[i + 1]
  OBVIOUS
<1>2. Head(q) \in S /\ Head(q) \in Range(q)
  BY <1>1 DEF Range
<1>3. NoDups(Tail(q))
  BY <1>1 DEF NoDups
<1>4. ASSUME NEW y \in Range(Tail(q)) PROVE y \in Range(q) \ {Head(q)}
  <2>1. PICK i \in 1 .. Len(q) - 1 : y = Tail(q)[i]
    BY <1>1 DEF Range
  <2>2. y = q[i + 1] /\ i + 1 \in 1 .. Len(q) /\ i + 1 # 1 /\ 1 \in 1 .. Len(q)
    BY <1>1, <2>1
  <2> QED BY <1>1, <2>2 DEF Range, NoDups
<1>5. ASSUME NEW y \in Range(q) \ {Head(q)} PROVE y \in Range(Tail(q))
  <2>1. PICK i \in 1 .. Len(q) : y = q[i]
    BY <1>1 DEF Range
  <2>2. i # 1
    BY <1>1, <2>1
  <2>3. i - 1 \in 1 .. Len(q) - 1 /\ Tail(q)[i - 1] = y
    BY <1>1, <2>1, <2>2
  <2> QED BY <1>1, <2>3, ZenonT(60) DEF Range
<1>6. Range(Tail(q)) = Range(q) \ {Head(q)}
  BY <1>4, <1>5
<1> QED BY <1>1, <1>2, <1>3, <1>6

(* safe_q_init. *)
LEMMA NewQueue ==
  ASSUME NEW S
  PROVE  <<>> \in Seq(S) /\ Range(<<>>) = {} /\ NoDups(<<>>)
<1>1. <<>> \in Seq(S) /\ DOMAIN <<>> = {}
  OBVIOUS
<1> QED BY <1>1 DEF Range, NoDups

(* An empty queue has no members, and only an empty one. *)
LEMMA EmptyQueue ==
  ASSUME NEW S, NEW q \in Seq(S)
  PROVE  /\ q = <<>> <=> Range(q) = {}
         /\ Range(q) \subseteq S
<1>1. DOMAIN q = 1 .. Len(q) /\ Len(q) \in Nat
  OBVIOUS
<1>2. q = <<>> <=> Len(q) = 0
  OBVIOUS
<1>3. Range(q) \subseteq S
  BY <1>1 DEF Range
<1>4. Len(q) # 0 => q[1] \in Range(q)
  BY <1>1 DEF Range
<1>5. Len(q) = 0 => Range(q) = {}
  BY <1>1 DEF Range
<1> QED BY <1>2, <1>3, <1>4, <1>5

-----------------------------------------------------------------------------

RtInv == RtTypeOK /\ Pinned

(* A thread runs one task: two running tasks of one thread are the same. *)
LEMMA OneRunning ==
  ASSUME RtInv, NEW t \in Task, NEW u \in Task,
         Running(t), Running(u), sched_id[t] = sched_id[u]
  PROVE  t = u
BY DEF Running

(* The booted runtime: every task is ready, none runs. *)
LEMMA BootRt ==
  ASSUME RtInit
  PROVE  RtInv /\ \A t \in Task : Ready(t) /\ ~Running(t)
<1>1. RtTypeOK
  BY SchedAssumption DEF RtInit, RtTypeOK
<1>2. Pinned
  <2> SUFFICES ASSUME NEW k \in Thread
               PROVE  /\ current[k] # NoTask => sched_id[current[k]] = k
                      /\ \A t \in Range(ready_q[k]) : sched_id[t] = k
                      /\ NoDups(ready_q[k])
    BY DEF Pinned
  <2>1. current[k] = NoTask
    BY DEF RtInit
  <2>2. \A t \in Range(ready_q[k]) : sched_id[t] = k
    BY SchedAssumption DEF RtInit, Range
  <2>3. NoDups(ready_q[k])
    BY SchedAssumption DEF RtInit, NoDups
  <2> QED BY <2>1, <2>2, <2>3
<1>3. ASSUME NEW t \in Task PROVE Ready(t) /\ ~Running(t)
  BY SchedAssumption DEF RtInit, Ready, Running
<1> QED BY <1>1, <1>2, <1>3 DEF RtInv

(* safe_q_push of a task that is not in the queue. *)
LEMMA MakeReadyRt ==
  ASSUME RtInv, NEW t \in Task, ~Ready(t), MakeReady(t), UNCHANGED <<current, preempt>>
  PROVE  /\ RtInv'
         /\ Ready(t)'
         /\ \A u \in Task \ {t} : Ready(u)' <=> Ready(u)
         /\ \A u \in Task : Running(u)' <=> Running(u)
<1> DEFINE k == sched_id[t]
<1>0. k \in Thread /\ ready_q[k] \in Seq(Task) /\ t \notin Range(ready_q[k])
  BY SchedAssumption DEF RtInv, RtTypeOK, Ready
<1>1. /\ ready_q'[k] = Append(ready_q[k], t)
      /\ \A j \in Thread \ {k} : ready_q'[j] = ready_q[j]
      /\ ready_q' \in [Thread -> Seq(Task)]
  BY <1>0, PushMembers DEF MakeReady, RtInv, RtTypeOK
<1>2. Range(ready_q'[k]) = Range(ready_q[k]) \cup {t} /\ NoDups(ready_q'[k])
  BY <1>0, <1>1, PushMembers, PushNoDups DEF RtInv, Pinned
<1>3. RtInv'
  <2>1. \A u \in Range(ready_q'[k]) : sched_id[u] = k
    BY <1>0, <1>2 DEF RtInv, Pinned
  <2>2. Pinned'
    BY <1>1, <1>2, <2>1, ZenonT(60) DEF RtInv, Pinned
  <2> QED BY <1>1, <2>2 DEF RtInv, RtTypeOK
<1>4. \A u \in Task : Running(u)' <=> Running(u)
  BY DEF Running
<1>5. Ready(t)'
  BY <1>2 DEF Ready
<1>6. ASSUME NEW u \in Task \ {t} PROVE Ready(u)' <=> Ready(u)
  <2>1. CASE sched_id[u] = k
    BY <1>2, <2>1 DEF Ready
  <2>2. CASE sched_id[u] # k
    BY <1>1, <2>2, SchedAssumption DEF Ready
  <2> QED BY <2>1, <2>2
<1> QED BY <1>3, <1>4, <1>5, <1>6

(* task_yield by the running task. *)
LEMMA YieldRt ==
  ASSUME RtInv, NEW t \in Task, Running(t), TaskYield(t), UNCHANGED <<ready_q, preempt>>
  PROVE  /\ RtInv'
         /\ ~Running(t)'
         /\ \A u \in Task \ {t} : Running(u)' <=> Running(u)
         /\ \A u \in Task : Ready(u)' <=> Ready(u)
<1> DEFINE k == sched_id[t]
<1>1. /\ k \in Thread /\ current'[k] = NoTask
      /\ \A j \in Thread \ {k} : current'[j] = current[j]
      /\ current' \in [Thread -> Task \cup {NoTask}]
  BY SchedAssumption DEF TaskYield, RtInv, RtTypeOK
<1>2. RtInv'
  BY <1>1, SMTT(30), Z3T(30) DEF RtInv, RtTypeOK, Pinned
<1>3. ~Running(t)'
  BY <1>1, SchedAssumption DEF Running
<1>4. ASSUME NEW u \in Task \ {t} PROVE Running(u)' <=> Running(u)
  <2>1. CASE sched_id[u] = k
    BY <1>1, <2>1, SchedAssumption DEF Running
  <2>2. CASE sched_id[u] # k
    BY <1>1, <2>2, SchedAssumption DEF Running
  <2> QED BY <2>1, <2>2
<1>5. \A u \in Task : Ready(u)' <=> Ready(u)
  BY DEF Ready
<1> QED BY <1>2, <1>3, <1>4, <1>5

(* A safepoint leaves the running task running, or puts it in its queue. *)
LEMMA SelfYieldRt ==
  ASSUME RtInv, NEW t \in Task, Running(t), ~Ready(t), SelfYield(t)
  PROVE  /\ RtInv'
         /\ Running(t)' <=> ~Ready(t)'
         /\ \A u \in Task \ {t} : (Running(u)' <=> Running(u)) /\ (Ready(u)' <=> Ready(u))
<1> DEFINE k == sched_id[t]
<1>0. k \in Thread /\ ready_q[k] \in Seq(Task) /\ t \notin Range(ready_q[k])
  BY SchedAssumption DEF RtInv, RtTypeOK, Ready
<1>1. CASE ~preempt[k]
  BY <1>1 DEF SelfYield, rtVars, RtInv, RtTypeOK, Pinned, Running, Ready
<1>2. CASE preempt[k]
  <2>1. MakeReady(t) /\ TaskYield(t) /\ preempt' = [preempt EXCEPT ![k] = FALSE]
    BY <1>2 DEF SelfYield
  <2>2. /\ ready_q'[k] = Append(ready_q[k], t)
        /\ \A j \in Thread \ {k} : ready_q'[j] = ready_q[j]
        /\ ready_q' \in [Thread -> Seq(Task)]
    BY <1>0, <2>1, PushMembers DEF MakeReady, RtInv, RtTypeOK
  <2>3. Range(ready_q'[k]) = Range(ready_q[k]) \cup {t} /\ NoDups(ready_q'[k])
    BY <1>0, <2>2, PushMembers, PushNoDups DEF RtInv, Pinned
  <2>4. /\ current'[k] = NoTask
        /\ \A j \in Thread \ {k} : current'[j] = current[j]
        /\ current' \in [Thread -> Task \cup {NoTask}]
    BY <1>0, <2>1 DEF TaskYield, RtInv, RtTypeOK
  <2>5. preempt' \in [Thread -> BOOLEAN]
    BY <1>0, <2>1 DEF RtInv, RtTypeOK
  <2>6. RtTypeOK'
    BY <2>2, <2>4, <2>5 DEF RtTypeOK
  <2>7. Pinned'
    <3>1. /\ current'[k] # NoTask => sched_id[current'[k]] = k
          /\ \A u \in Range(ready_q'[k]) : sched_id[u] = k
          /\ NoDups(ready_q'[k])
      BY <1>0, <2>3, <2>4 DEF RtInv, Pinned
    <3>2. ASSUME NEW j \in Thread \ {k}
          PROVE  /\ current'[j] # NoTask => sched_id[current'[j]] = j
                 /\ \A u \in Range(ready_q'[j]) : sched_id[u] = j
                 /\ NoDups(ready_q'[j])
      <4>1. current'[j] = current[j] /\ ready_q'[j] = ready_q[j]
        BY <2>2, <2>4
      <4> QED BY <4>1 DEF RtInv, Pinned
    <3> QED BY <3>1, <3>2 DEF Pinned
  <2>8. ~Running(t)' /\ Ready(t)'
    BY <2>3, <2>4, SchedAssumption DEF Running, Ready
  <2>9. ASSUME NEW u \in Task \ {t}
        PROVE  (Running(u)' <=> Running(u)) /\ (Ready(u)' <=> Ready(u))
    <3>1. CASE sched_id[u] = k
      BY <2>3, <2>4, <3>1, SchedAssumption DEF Running, Ready
    <3>2. CASE sched_id[u] # k
      BY <2>2, <2>4, <3>2, SchedAssumption, SMTT(30), Z3T(30) DEF Running, Ready
    <3> QED BY <3>1, <3>2
  <2> QED BY <2>6, <2>7, <2>8, <2>9 DEF RtInv
<1> QED BY <1>1, <1>2

(* scheduler_run moves the head of the ready queue to the processor. *)
LEMMA DispatchRt ==
  ASSUME RtInv, NEW k \in Thread, Dispatch(k)
  PROVE  /\ RtInv'
         /\ \E u \in Task :
              /\ Ready(u) /\ ~Running(u) /\ ~Ready(u)' /\ Running(u)'
              /\ \A v \in Task \ {u} : (Running(v)' <=> Running(v)) /\ (Ready(v)' <=> Ready(v))
<1>0. ready_q[k] \in Seq(Task) /\ ready_q[k] # <<>> /\ NoDups(ready_q[k])
  BY DEF RtInv, RtTypeOK, Pinned, Dispatch
<1>a. PICK u \in Task : u = Head(ready_q[k])
  BY <1>0, PopMembers
<1>1. /\ u \in Range(ready_q[k])
      /\ Tail(ready_q[k]) \in Seq(Task)
      /\ Range(Tail(ready_q[k])) = Range(ready_q[k]) \ {u}
      /\ NoDups(Tail(ready_q[k]))
  BY <1>0, <1>a, PopMembers
<1>2. /\ current[k] = NoTask
      /\ current' = [current EXCEPT ![k] = u]
      /\ ready_q' = [ready_q EXCEPT ![k] = Tail(ready_q[k])]
      /\ preempt' = preempt
  BY <1>a DEF Dispatch
<1>3. sched_id[u] = k
  BY <1>1 DEF RtInv, Pinned
<1>4. RtTypeOK'
  BY <1>1, <1>2 DEF RtInv, RtTypeOK
<1>5. /\ ready_q'[k] = Tail(ready_q[k]) /\ current'[k] = u
      /\ \A j \in Thread \ {k} : ready_q'[j] = ready_q[j] /\ current'[j] = current[j]
  BY <1>2 DEF RtInv, RtTypeOK
<1>6. Pinned'
  BY <1>1, <1>3, <1>5 DEF RtInv, Pinned
<1>7. Ready(u) /\ ~Running(u) /\ ~Ready(u)' /\ Running(u)'
  BY <1>1, <1>2, <1>3, <1>5, SchedAssumption, ZenonT(60) DEF Ready, Running
<1>8. ASSUME NEW v \in Task \ {u}
      PROVE  (Running(v)' <=> Running(v)) /\ (Ready(v)' <=> Ready(v))
  <2>1. CASE sched_id[v] = k
    BY <1>1, <1>2, <1>5, <2>1, SchedAssumption, ZenonT(60) DEF Running, Ready
  <2>2. CASE sched_id[v] # k
    BY <1>5, <2>2, SchedAssumption DEF Running, Ready
  <2> QED BY <2>1, <2>2
<1> QED BY <1>1, <1>4, <1>6, <1>7, <1>8 DEF RtInv

(* The timer's signal moves no task. *)
LEMMA ForcePreemptRt ==
  ASSUME RtInv, NEW k \in Thread, ForcePreempt(k)
  PROVE  RtInv' /\ \A u \in Task : (Running(u)' <=> Running(u)) /\ (Ready(u)' <=> Ready(u))
<1>1. RtTypeOK'
  BY DEF ForcePreempt, RtInv, RtTypeOK
<1>2. Pinned'
  BY DEF ForcePreempt, RtInv, Pinned
<1>3. \A u \in Task : (Running(u)' <=> Running(u)) /\ (Ready(u)' <=> Ready(u))
  BY DEF ForcePreempt, Running, Ready
<1> QED BY <1>1, <1>2, <1>3 DEF RtInv

(* A step that leaves the scheduler alone. *)
LEMMA IdleRt ==
  ASSUME RtInv, UNCHANGED rtVars
  PROVE  RtInv' /\ \A u \in Task : (Running(u)' <=> Running(u)) /\ (Ready(u)' <=> Ready(u))
BY DEF rtVars, RtInv, RtTypeOK, Pinned, Running, Ready
=============================================================================
