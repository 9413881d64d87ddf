---------------------------- MODULE NetIOProofs ----------------------------
(***************************************************************************)
(* Every task that waits for a socket has exactly one waker, for every set *)
(* of tasks, threads and descriptors.                                      *)
(***************************************************************************)
EXTENDS NetIO, TaskRuntimeProofs, FiniteSetTheorems

(* The task is inside a call on the descriptor of t->io. *)
Active(t) == pc[t] \in {"add", "mod", "yield", "resume"}

(* The four places that lead back to the ready queue. *)
RegFor(f, t) == reg[f] = ArmedFor(t)
Armed(t) == RegFor(io[t].fd, t)
InBatch(t) == <<io[t].fd, t>> \in batch
Finishing(t) == work.t = t

(* Another task may use the descriptor. *)
OthersUse(t) == \E u \in Task \ {t} : io[t].fd \in uses[u]

(* A registration or an event names only a task that waits for it. *)
Named(t) ==
  /\ \A f \in Fd : RegFor(f, t) \/ <<f, t>> \in batch => f = io[t].fd
  /\ Armed(t) \/ InBatch(t) \/ Finishing(t) => Pending(t) /\ t \notin displaced /\ ~Ready(t)

(* One waker for a task that waits, unless it was displaced. *)
One(t) ==
  /\ Pending(t) /\ t \notin displaced => Armed(t) \/ InBatch(t) \/ Finishing(t) \/ Ready(t)
  /\ ~(Armed(t) /\ InBatch(t)) /\ ~(Armed(t) /\ Finishing(t)) /\ ~(InBatch(t) /\ Finishing(t))
  /\ t \in displaced => Pending(t) /\ ~Ready(t) /\ OthersUse(t)
  /\ Running(t) /\ Ready(t) => pc[t] = "yield"
  /\ pc[t] = "yield" => Running(t)

(* The descriptor of a call is one the task may use and is open; while it   *)
(* is being connected no other task is inside a call on it; and if its      *)
(* registration is gone, another task could take it away.                   *)
Holds(t) == io[t].fd \in uses[t] /\ sock[io[t].fd] # "closed"

Alone(t) ==
  io[t].op = "connect" => \A u \in Task \ {t} : Active(u) => io[u].fd # io[t].fd

Kept(t) ==
  (pc[t] = "mod" \/ InBatch(t) \/ Finishing(t)) /\ reg[io[t].fd] = NoReg => OthersUse(t)

Owns(t) == Active(t) => Holds(t) /\ Alone(t) /\ Kept(t)

(* The event being finished belongs to a task: it is re-armed or the task is *)
(* pushed, never both.                                                       *)
WorkOK == work = NoWork \/ (work.t \in Task /\ (work.ctl = "mod" <=> ~work.push))

Types ==
  /\ RtInv /\ TypeOK /\ WorkOK
  /\ \A f \in Fd : reg[f].armed => reg[f].ud \in Task
  /\ \A t \in Task : io[t].offset <= io[t].req_n

Waits == \A t \in Task : Named(t) /\ One(t) /\ Owns(t)

IInv == Types /\ WholeWrite /\ Waits

IoRec == [op : Op, fd : Fd, req_n : 0 .. ReqSize, offset : 0 .. ReqSize,
          done_n : 0 .. ReqSize \cup Fd \cup {Failed}, io_done : BOOLEAN]

(* What Types and WholeWrite ask of one t->io. *)
WholeRec(x) ==
  /\ x \in IoRec /\ x.offset <= x.req_n
  /\ x.io_done /\ x.done_n # Failed =>
       /\ x.op = "write" => x.done_n = x.req_n
       /\ x.op = "read" => x.done_n \in 0 .. x.req_n

(* Zenon proves every step that does not ask for SMT; the limits, and the second call of the SMT *)
(* solver, leave room for slow machines. *)
USE ZenonT(60)

-----------------------------------------------------------------------------
(* Registrations as records. *)
LEMMA Registered ==
  ASSUME Types
  PROVE  /\ \A t \in Task : ArmedFor(t) # NoReg /\ ArmedFor(t).armed /\ ArmedFor(t).ud = t
         /\ ~NoReg.armed
         /\ \A f \in Fd : reg[f].armed => reg[f].ud \in Task /\ reg[f] = ArmedFor(reg[f].ud)
         /\ \A f \in Fd, t \in Task : reg[f] = ArmedFor(t) => reg[f].armed /\ reg[f].ud = t
<1>1. \A t \in Task : ArmedFor(t) # NoReg /\ ArmedFor(t).armed /\ ArmedFor(t).ud = t
  BY SchedAssumption DEF ArmedFor, NoReg
<1>2. ~NoReg.armed
  BY DEF NoReg
<1>3. ASSUME NEW f \in Fd, reg[f].armed PROVE reg[f].ud \in Task /\ reg[f] = ArmedFor(reg[f].ud)
  <2>1. reg[f] \in [ud : Task \cup {NoTask}, armed : BOOLEAN]
    BY DEF Types, TypeOK
  <2> QED BY <1>3, <2>1 DEF Types, ArmedFor
<1> QED BY <1>1, <1>2, <1>3

(* Work is for a task, or there is none. *)
LEMMA Working ==
  ASSUME Types
  PROVE  /\ work.t \in Task <=> work # NoWork
         /\ work = NoWork => \A t \in Task : work.t # t
BY SchedAssumption, SMTT(30), Z3T(30) DEF Types, WorkOK, NoWork

(* A step of a task that does not wait, before and after, and that changes  *)
(* no registration but of a descriptor on which no task is inside a call.   *)
LEMMA StepKeeps ==
  ASSUME Types, Types', Waits, NEW t \in Task, Running(t), pc[t] # "yield",
         \A u \in Task \ {t} :
           /\ pc'[u] = pc[u] /\ io'[u] = io[u]
           /\ (Running(u)' <=> Running(u)) /\ (Ready(u)' <=> Ready(u)),
         pc'[t] \in {"user", "call", "dial", "add", "mod", "done"},
         ~(Running(t)' /\ Ready(t)'),
         UNCHANGED <<batch, work, displaced>>,
         \A f \in Fd : \/ reg'[f] = reg[f]
                       \/ reg'[f] = NoReg /\ \A u \in Task : Active(u)' => io'[u].fd # f,
         \A f \in Fd : \/ sock'[f] # "closed"
                       \/ sock[f] = "closed"
                       \/ \A u \in Task : Active(u)' => io'[u].fd # f,
         Active(t)' => /\ io'[t].fd \in uses[t] /\ sock'[io'[t].fd] # "closed"
                       /\ \A u \in Task \ {t} :
                            (io'[t].op = "connect" \/ io[u].op = "connect") /\ Active(u)
                              => io[u].fd # io'[t].fd
                       /\ pc'[t] = "mod" => reg'[io'[t].fd] # NoReg
  PROVE  Waits'
<1>a. \A u \in Task : io[u].fd \in Fd /\ io'[u].fd \in Fd
  BY DEF Types, TypeOK
<1>b. /\ batch' = batch /\ work' = work /\ displaced' = displaced
      /\ \A u \in Task : ArmedFor(u)' = ArmedFor(u)
  BY DEF ArmedFor
<1>r. \A u \in Task : NoReg # ArmedFor(u)
  BY Registered
<1>1. ~Pending(t) /\ ~Armed(t) /\ ~InBatch(t) /\ ~Finishing(t) /\ t \notin displaced
  BY DEF Pending, Waits, Named, One
<1>2. \A f \in Fd : ~RegFor(f, t) /\ <<f, t>> \notin batch
  BY <1>1 DEF Waits, Named, Armed, InBatch
<1>3. \A f \in Fd : ~RegFor(f, t)' /\ <<f, t>> \notin batch'
  BY <1>2, <1>b, <1>r DEF RegFor
<1>4. ~Pending(t)' /\ ~Armed(t)' /\ ~InBatch(t)' /\ ~Finishing(t)' /\ t \notin displaced'
  BY <1>1, <1>3, <1>a, <1>b DEF Pending, Armed, InBatch, Finishing
<1>5. Named(t)' /\ One(t)'
  BY <1>3, <1>4, <1>b DEF Named, One
<1>6. Owns(t)'
  BY <1>4, <1>a DEF Owns, Holds, Alone, Kept, Active, NoReg
<1>7. ASSUME NEW u \in Task \ {t} PROVE Named(u)' /\ One(u)' /\ Owns(u)'
  <2>1. /\ Pending(u)' <=> Pending(u)
        /\ Active(u)' <=> Active(u)
        /\ InBatch(u)' <=> InBatch(u)
        /\ Finishing(u)' <=> Finishing(u)
        /\ OthersUse(u)' <=> OthersUse(u)
        /\ io'[u] = io[u] /\ pc'[u] = pc[u] /\ (Ready(u)' <=> Ready(u)) /\ (Running(u)' <=> Running(u))
    BY <1>b DEF Pending, Active, InBatch, Finishing, OthersUse
  <2>2. Named(u) /\ One(u) /\ Owns(u)
    BY DEF Waits
  <2>3. Pending(u) => Active(u)
    BY DEF Pending, Active
  <2>4. ASSUME NEW f \in Fd PROVE RegFor(f, u)' <=> RegFor(f, u)
    <3>1. RegFor(f, u) => f = io'[u].fd /\ Active(u)'
      BY <2>1, <2>2, <2>3 DEF Named, Armed
    <3> QED BY <1>b, <1>r, <3>1 DEF RegFor
  <2>5. Armed(u)' <=> Armed(u)
    BY <1>a, <2>1, <2>4 DEF Armed
  <2>6. Named(u)'
    BY <1>b, <2>1, <2>2, <2>4, <2>5 DEF Named
  <2>7. One(u)'
    BY <1>b, <2>1, <2>2, <2>5 DEF One
  <2>8. Owns(u)'
    <3> SUFFICES ASSUME Active(u)' PROVE Holds(u)' /\ Alone(u)' /\ Kept(u)'
      BY DEF Owns
    <3>0. Holds(u) /\ Alone(u) /\ Kept(u)
      BY <2>1, <2>2 DEF Owns
    <3>f. PICK f \in Fd : f = io[u].fd /\ f = io'[u].fd
      BY <1>a, <2>1
    <3>1. Holds(u)'
      <4>1. f \in uses[u] /\ sock[f] # "closed"
        BY <3>0, <3>f DEF Holds
      <4>2. sock'[f] # "closed"
        BY <3>f, <4>1
      <4> QED BY <3>f, <4>1, <4>2 DEF Holds
    <3>2. ASSUME io'[u].op = "connect", NEW v \in Task \ {u}, Active(v)'
          PROVE  io'[v].fd # io'[u].fd
      <4>1. CASE v = t
        BY <2>1, <3>2, <4>1
      <4>2. CASE v # t
        BY <2>1, <3>0, <3>2, <4>2 DEF Alone, Active
      <4> QED BY <4>1, <4>2
    <3>3. reg'[io'[u].fd] = reg[io[u].fd]
      <4>1. reg'[f] = reg[f]
        BY <3>f
      <4> QED BY <3>f, <4>1
    <3>4. Kept(u)'
      BY <2>1, <3>0, <3>3 DEF Kept, NoReg
    <3> QED BY <3>1, <3>2, <3>4 DEF Alone
  <2> QED BY <2>6, <2>7, <2>8
<1> QED BY <1>5, <1>6, <1>7 DEF Waits

(* A step centred on task t: at most it re-arms or deletes the registration *)
(* of its descriptor, and then the task that waited there is displaced.     *)
LEMMA OthersKeep ==
  ASSUME Types, Types', Waits, NEW t \in Task,
         \A u \in Task \ {t} :
           /\ pc'[u] = pc[u] /\ io'[u] = io[u]
           /\ (Running(u)' <=> Running(u)) /\ (Ready(u)' <=> Ready(u))
           /\ work'.t = u <=> work.t = u
           /\ \A f \in Fd : <<f, u>> \in batch' <=> <<f, u>> \in batch,
         io'[t].fd = io[t].fd, io'[t].op = io[t].op, Active(t)' => Active(t),
         \A f \in Fd : sock'[f] = "closed" => sock[f] = "closed",
         \/ reg' = reg /\ \A u \in Task \ {t} : u \in displaced' <=> u \in displaced
         \/ /\ io[t].fd \in uses[t]
            /\ \E r \in {NoReg, ArmedFor(t)} : reg' = [reg EXCEPT ![io[t].fd] = r]
            /\ displaced' = displaced \cup Displaced(io[t].fd, t)
  PROVE  /\ \A u \in Task \ {t} : Named(u)' /\ One(u)' /\ Owns(u)'
         /\ Active(t)' => Holds(t)' /\ Alone(t)'
<1>a. \A u \in Task : io[u].fd \in Fd /\ io'[u].fd = io[u].fd /\ io'[u].op = io[u].op
  BY DEF Types, TypeOK
<1>b. \A u \in Task : Active(u)' => Active(u)
  BY DEF Active
<1>c. \A u \in Task : Active(u)' => Holds(u)' /\ Alone(u)'
  BY <1>a, <1>b, SMTT(30), Z3T(30) DEF Waits, Owns, Holds, Alone
<1>1. ASSUME NEW u \in Task \ {t} PROVE Named(u)' /\ One(u)' /\ Owns(u)'
  <2>1. /\ Pending(u)' <=> Pending(u)
        /\ Active(u)' <=> Active(u)
        /\ InBatch(u)' <=> InBatch(u)
        /\ Finishing(u)' <=> Finishing(u)
        /\ OthersUse(u)' <=> OthersUse(u)
        /\ io'[u] = io[u] /\ pc'[u] = pc[u] /\ (Ready(u)' <=> Ready(u)) /\ (Running(u)' <=> Running(u))
        /\ \A f \in Fd : <<f, u>> \in batch' <=> <<f, u>> \in batch
    BY <1>a DEF Pending, Active, InBatch, Finishing, OthersUse
  <2>2. Named(u) /\ One(u) /\ Owns(u)
    BY DEF Waits
  <2>3. CASE reg' = reg /\ (u \in displaced' <=> u \in displaced)
    <3>0. \A f \in Fd : RegFor(f, u)' <=> RegFor(f, u)
      BY <2>3 DEF RegFor, ArmedFor
    <3>1. Armed(u)' <=> Armed(u)
      BY <1>a, <2>1, <3>0 DEF Armed
    <3>2. Named(u)'
      BY <2>1, <2>2, <2>3, <3>0, <3>1 DEF Named
    <3>3. One(u)'
      BY <2>1, <2>2, <2>3, <3>1 DEF One
    <3>4. Active(u)' => Kept(u)'
      BY <2>1, <2>2, <2>3 DEF Owns, Kept, NoReg
    <3> QED BY <1>c, <3>2, <3>3, <3>4 DEF Owns
  <2>4. CASE /\ io[t].fd \in uses[t]
             /\ \E r \in {NoReg, ArmedFor(t)} : reg' = [reg EXCEPT ![io[t].fd] = r]
             /\ displaced' = displaced \cup Displaced(io[t].fd, t)
    <3>0. /\ ArmedFor(u) # NoReg /\ ArmedFor(u) # ArmedFor(t)
          /\ RegFor(io[t].fd, u) <=> u \in Displaced(io[t].fd, t)
      BY <1>a, Registered, SMTT(30), Z3T(30) DEF Displaced, RegFor
    <3>1. /\ reg'[io[t].fd] \in {NoReg, ArmedFor(t)}
          /\ \A f \in Fd \ {io[t].fd} : reg'[f] = reg[f]
      BY <1>a, <2>4, SMTT(30), Z3T(30) DEF Types, TypeOK
    <3>a. ArmedFor(u)' = ArmedFor(u)
      BY DEF ArmedFor
    <3>2. \A f \in Fd : RegFor(f, u)' <=> RegFor(f, u) /\ f # io[t].fd
      BY <3>0, <3>1, <3>a DEF RegFor
    <3>3. CASE RegFor(io[t].fd, u)
      <4>1. /\ io[u].fd = io[t].fd /\ Armed(u) /\ Pending(u) /\ ~Ready(u)
            /\ ~InBatch(u) /\ ~Finishing(u) /\ u \in displaced'
        BY <1>a, <2>2, <2>4, <3>0, <3>3 DEF Named, One, Armed
      <4>0. \A f \in Fd : RegFor(f, u) => f = io[u].fd
        BY <2>2 DEF Named
      <4>2. \A f \in Fd : ~RegFor(f, u)'
        BY <3>2, <4>0, <4>1
      <4>3. ~Armed(u)' /\ OthersUse(u)'
        BY <1>a, <2>1, <2>4, <4>1, <4>2 DEF Armed, OthersUse
      <4>4. Named(u)'
        BY <2>1, <2>2, <4>1, <4>2, <4>3 DEF Named
      <4>5. One(u)'
        BY <2>1, <2>2, <4>1, <4>3 DEF One
      <4> QED BY <1>c, <4>3, <4>4, <4>5 DEF Owns, Kept
    <3>4. CASE ~RegFor(io[t].fd, u)
      <4>1. u \in displaced' <=> u \in displaced
        BY <2>4, <3>0, <3>4
      <4>2. \A f \in Fd : RegFor(f, u)' <=> RegFor(f, u)
        BY <3>2, <3>4
      <4>3. Armed(u)' <=> Armed(u)
        BY <1>a, <2>1, <4>2 DEF Armed
      <4>4. Named(u)'
        BY <2>1, <2>2, <4>1, <4>2, <4>3 DEF Named
      <4>5. One(u)'
        BY <2>1, <2>2, <4>1, <4>3 DEF One
      <4>6. CASE io[u].fd = io[t].fd
        <5>1. OthersUse(u)'
          BY <2>1, <2>4, <4>6 DEF OthersUse
        <5> QED BY <1>c, <4>4, <4>5, <5>1 DEF Owns, Kept
      <4>7. CASE io[u].fd # io[t].fd
        <5>1. reg'[io'[u].fd] = reg[io[u].fd]
          BY <1>a, <2>1, <3>1, <4>7
        <5>2. Active(u)' => Kept(u)'
          BY <2>1, <2>2, <5>1 DEF Owns, Kept, NoReg
        <5> QED BY <1>c, <4>4, <4>5, <5>2 DEF Owns
      <4> QED BY <4>6, <4>7
    <3> QED BY <3>3, <3>4
  <2> QED BY <2>3, <2>4
<1> QED BY <1>1, <1>c

(* A step that changes nothing of the waiting. *)
LEMMA QuietKeeps ==
  ASSUME Types, Types', Waits,
         \A u \in Task : (Running(u)' <=> Running(u)) /\ (Ready(u)' <=> Ready(u)),
         UNCHANGED <<pc, io, reg, batch, work, displaced>>,
         \A f \in Fd : sock'[f] = "closed" => sock[f] = "closed"
  PROVE  Waits'
<1> SUFFICES ASSUME NEW t \in Task PROVE Named(t)' /\ One(t)' /\ Owns(t)'
  BY DEF Waits
<1>1. /\ io[t].fd \in Fd /\ Named(t) /\ One(t) /\ Owns(t)
      /\ Active(t)' <=> Active(t)
  BY DEF Types, TypeOK, Waits, Active
<1>2. /\ (Pending(t)' <=> Pending(t)) /\ (InBatch(t)' <=> InBatch(t))
      /\ (Finishing(t)' <=> Finishing(t)) /\ (OthersUse(t)' <=> OthersUse(t))
      /\ \A f \in Fd : RegFor(f, t)' <=> RegFor(f, t)
  BY DEF Pending, InBatch, Finishing, OthersUse, RegFor, ArmedFor
<1>3. Armed(t)' <=> Armed(t)
  BY <1>1, <1>2 DEF Armed
<1>4. Named(t)' /\ One(t)'
  BY <1>1, <1>2, <1>3 DEF Named, One
<1>5. Kept(t)' <=> Kept(t)
  BY <1>2 DEF Kept, NoReg
<1>6. (Holds(t) => Holds(t)') /\ (Alone(t) => Alone(t)')
  BY <1>1 DEF Holds, Alone, Active
<1> QED BY <1>1, <1>4, <1>5, <1>6 DEF Owns

-----------------------------------------------------------------------------
(* Writing one t->io. *)
LEMMA IoSet ==
  ASSUME Types, WholeWrite, NEW t \in Task, NEW x, WholeRec(x), io' = [io EXCEPT ![t] = x]
  PROVE  /\ io' \in [Task -> IoRec] /\ io'[t] = x
         /\ \A u \in Task \ {t} : io'[u] = io[u]
         /\ \A u \in Task : io'[u].offset <= io'[u].req_n
         /\ WholeWrite'
<1>1. io \in [Task -> IoRec]
  BY DEF Types, TypeOK, IoRec
<1>2. io' \in [Task -> IoRec] /\ io'[t] = x /\ \A u \in Task \ {t} : io'[u] = io[u]
  BY <1>1 DEF WholeRec
<1>3. \A u \in Task : io'[u].offset <= io'[u].req_n
  BY <1>2 DEF WholeRec, Types
<1>4. WholeWrite'
  BY <1>2 DEF WholeRec, WholeWrite, Failed
<1> QED BY <1>2, <1>3, <1>4

(* Filling t->io in for a call, and forgetting it. *)
LEMMA FreshIo ==
  /\ \A op \in Op, f \in Fd, n \in {0, ReqSize} :
       WholeRec(Io(op, f, n)) /\ Io(op, f, n).op = op /\ Io(op, f, n).fd = f
  /\ WholeRec(Unused)
<1>1. ASSUME NEW op \in Op, NEW f \in Fd, NEW n \in {0, ReqSize}
      PROVE  WholeRec(Io(op, f, n)) /\ Io(op, f, n).op = op /\ Io(op, f, n).fd = f
  BY NetAssumption, SMTT(30), Z3T(30) DEF WholeRec, IoRec, Io
<1>2. (CHOOSE f \in Fd : TRUE) \in Fd
  BY NetAssumption
<1>3. WholeRec(Unused)
  BY <1>1, <1>2 DEF Unused, Op
<1> QED BY <1>1, <1>3

(* A task that runs and has handed nothing over. *)
LEMMA NotWaiting ==
  ASSUME Waits, NEW t \in Task, Running(t), pc[t] # "yield"
  PROVE  ~Ready(t) /\ ~Pending(t) /\ t \notin displaced /\ ~Armed(t) /\ ~InBatch(t) /\ ~Finishing(t)
BY DEF Pending, Waits, Named, One

(* What Types asks of a step that writes only pc, t->io and addresses. *)
LEMMA TaskTypes ==
  ASSUME Types, RtInv', NEW t \in Task,
         NEW l \in {"user", "call", "dial", "add", "mod", "yield", "resume", "done"}, Goto(t, l),
         io' \in [Task -> IoRec], \A u \in Task : io'[u].offset <= io'[u].req_n,
         addrs' \in [Task -> 0 .. MaxAddr], aborted' \in BOOLEAN, wait_q' \subseteq Task,
         UNCHANGED <<pollVars, workerVars, so_error>>, sock' \in [Fd -> Sock]
  PROVE  Types' /\ pc'[t] = l /\ \A u \in Task \ {t} : pc'[u] = pc[u]
<1>1. /\ pc' \in [Task -> {"user", "call", "dial", "add", "mod", "yield", "resume", "done"}]
      /\ pc'[t] = l /\ \A u \in Task \ {t} : pc'[u] = pc[u]
  BY DEF Goto, Types, TypeOK
<1>2. TypeOK'
  BY <1>1 DEF Types, TypeOK, IoRec, RtInv, pollVars, workerVars
<1>3. WorkOK'
  BY DEF Types, WorkOK, workerVars, NoWork
<1>4. \A f \in Fd : reg'[f].armed => reg'[f].ud \in Task
  BY DEF Types, pollVars
<1> QED BY <1>1, <1>2, <1>3, <1>4 DEF Types

LEMMA SafePointInv ==
  ASSUME IInv, NEW t \in Task, SafePoint(t)
  PROVE  IInv'
<1>1. Running(t) /\ pc[t] = "user" /\ ~Ready(t)
  BY NotWaiting DEF SafePoint, At, IInv
<1>2. /\ RtInv' /\ (Running(t)' <=> ~Ready(t)')
      /\ \A u \in Task \ {t} : (Running(u)' <=> Running(u)) /\ (Ready(u)' <=> Ready(u))
  BY <1>1, SelfYieldRt DEF SafePoint, IInv, Types
<1>3. Types' /\ pc'[t] = "call" /\ \A u \in Task \ {t} : pc'[u] = pc[u]
  BY <1>2, TaskTypes DEF SafePoint, IInv, Types, TypeOK, IoRec, sockVars
<1>4. WholeWrite'
  BY DEF SafePoint, IInv, WholeWrite, Failed
<1>5. Waits'
  BY <1>1, <1>2, <1>3, StepKeeps DEF SafePoint, IInv, Active, sockVars, pollVars, workerVars
<1> QED BY <1>3, <1>4, <1>5 DEF IInv

LEMMA CallInv ==
  ASSUME IInv, NEW t \in Task, Call(t)
  PROVE  IInv'
<1>1. Running(t) /\ pc[t] = "call" /\ ~Ready(t)
  BY NotWaiting DEF Call, At, IInv
<1>2. RtInv' /\ \A u \in Task : (Running(u)' <=> Running(u)) /\ (Ready(u)' <=> Ready(u))
  BY IdleRt DEF Call, IInv, Types
<1>3. PICK f \in uses[t], op \in {"accept", "read", "write"}, n \in {0, ReqSize} :
        /\ ~Unreturned(t, f) /\ sock[f] # "closed"
        /\ io' = [io EXCEPT ![t] = Io(op, f, n)]
  BY DEF Call
<1>4. f \in Fd /\ op \in Op
  BY NetAssumption DEF Op
<1>5. /\ io' \in [Task -> IoRec] /\ io'[t].fd = f /\ io'[t].op = op
      /\ \A u \in Task \ {t} : io'[u] = io[u]
      /\ \A u \in Task : io'[u].offset <= io'[u].req_n
      /\ WholeWrite'
  <2>1. WholeRec(Io(op, f, n)) /\ Io(op, f, n).op = op /\ Io(op, f, n).fd = f
    BY <1>4, FreshIo
  <2> QED BY <1>3, <2>1, IoSet DEF IInv
<1>6. Types' /\ pc'[t] = "add" /\ \A u \in Task \ {t} : pc'[u] = pc[u]
  BY <1>2, <1>5, TaskTypes DEF Call, IInv, Types, TypeOK, sockVars
<1>7. /\ UNCHANGED <<batch, work, displaced, reg, sock>>
      /\ \A u \in Task \ {t} : io[u].op = "connect" => io[u].fd # f
  BY <1>3 DEF Call, Unreturned, pollVars, workerVars, sockVars
<1>8. Waits'
  BY <1>1, <1>2, <1>3, <1>5, <1>6, <1>7, StepKeeps DEF IInv
<1> QED BY <1>5, <1>6, <1>8 DEF IInv

(* A call that returns: the task is at its code again. *)
LEMMA ReturnInv ==
  ASSUME IInv, NEW t \in Task, Running(t), pc[t] # "yield", Return(t),
         sock' \in [Fd -> Sock], \A f \in Fd : sock'[f] = "closed" => sock[f] = "closed",
         UNCHANGED <<rtVars, wait_q, aborted, pollVars, so_error, workerVars>>
  PROVE  IInv'
<1>1. ~Ready(t)
  BY NotWaiting DEF IInv
<1>2. RtInv' /\ \A u \in Task : (Running(u)' <=> Running(u)) /\ (Ready(u)' <=> Ready(u))
  BY IdleRt DEF IInv, Types
<1>3. /\ io' \in [Task -> IoRec]
      /\ \A u \in Task \ {t} : io'[u] = io[u]
      /\ \A u \in Task : io'[u].offset <= io'[u].req_n
      /\ WholeWrite'
  BY FreshIo, IoSet DEF Return, IInv
<1>4. Goto(t, "user") /\ addrs' \in [Task -> 0 .. MaxAddr]
  BY NetAssumption, SMTT(30), Z3T(30) DEF Return, IInv, Types, TypeOK
<1>5. Types' /\ pc'[t] = "user" /\ \A u \in Task \ {t} : pc'[u] = pc[u]
  BY <1>2, <1>3, <1>4, TaskTypes DEF IInv, Types, TypeOK
<1>6. UNCHANGED <<batch, work, displaced, reg>> /\ ~Active(t)'
  BY <1>5 DEF pollVars, workerVars, Active
<1>7. Waits'
  BY <1>1, <1>2, <1>3, <1>5, <1>6, StepKeeps DEF IInv
<1> QED BY <1>3, <1>5, <1>7 DEF IInv

(* A failed net_dial closes the descriptor, which no other task is using. *)
LEMMA CloseInv ==
  ASSUME IInv, NEW t \in Task, Running(t), pc[t] \in {"add", "resume"},
         io[t].op = "connect", Close(io[t].fd), Goto(t, "dial"),
         UNCHANGED <<rtVars, io, addrs, wait_q, aborted, netpoller, displaced, workerVars>>
  PROVE  IInv'
<1>0. io[t].fd \in Fd /\ Active(t) /\ Alone(t)
  BY DEF IInv, Types, TypeOK, Waits, Owns, Active
<1>1. ~Ready(t)
  BY NotWaiting DEF IInv
<1>2. RtInv' /\ \A u \in Task : (Running(u)' <=> Running(u)) /\ (Ready(u)' <=> Ready(u))
  BY IdleRt DEF IInv, Types
<1>3. /\ pc' \in [Task -> {"user", "call", "dial", "add", "mod", "yield", "resume", "done"}]
      /\ pc'[t] = "dial" /\ \A u \in Task \ {t} : pc'[u] = pc[u]
  BY DEF Goto, IInv, Types, TypeOK
<1>4. /\ reg' \in [Fd -> [ud : Task \cup {NoTask}, armed : BOOLEAN]] /\ ~NoReg.armed
      /\ reg'[io[t].fd] = NoReg /\ \A f \in Fd \ {io[t].fd} : reg'[f] = reg[f]
  BY <1>0 DEF Close, NoReg, IInv, Types, TypeOK
<1>5. /\ sock' \in [Fd -> Sock] /\ so_error' \in [Fd -> BOOLEAN]
      /\ \A f \in Fd \ {io[t].fd} : sock'[f] = sock[f]
  BY <1>0 DEF Close, Sock, IInv, Types, TypeOK
<1>6. TypeOK'
  BY <1>2, <1>3, <1>4, <1>5 DEF IInv, Types, TypeOK, RtInv, workerVars
<1>7. Types'
  BY <1>2, <1>4, <1>6 DEF IInv, Types, WorkOK, NoWork, workerVars
<1>8. WholeWrite'
  BY DEF IInv, WholeWrite, Failed
<1>9. \A u \in Task : Active(u)' => io'[u].fd # io[t].fd
  BY <1>0, <1>3 DEF Alone, Active
<1>10. UNCHANGED <<batch, work, displaced, io>> /\ ~Active(t)'
  BY <1>3 DEF workerVars, Active
<1>11. Waits'
  BY <1>1, <1>2, <1>3, <1>4, <1>5, <1>7, <1>9, <1>10, StepKeeps DEF IInv
<1> QED BY <1>7, <1>8, <1>11 DEF IInv

LEMMA CallDialInv ==
  ASSUME IInv, NEW t \in Task, CallDial(t)
  PROVE  IInv'
<1>0. /\ Running(t) /\ pc[t] = "call"
      /\ UNCHANGED <<rtVars, wait_q, aborted, pollVars, sockVars, workerVars>>
  BY DEF CallDial, At
<1>1. CASE Return(t)
  BY <1>0, <1>1, ReturnInv DEF IInv, Types, TypeOK, sockVars
<1>2. CASE /\ \E n \in 1 .. MaxAddr : addrs' = [addrs EXCEPT ![t] = n]
           /\ Goto(t, "dial") /\ UNCHANGED io
  <2>1. ~Ready(t)
    BY <1>0, NotWaiting DEF IInv
  <2>2. RtInv' /\ \A u \in Task : (Running(u)' <=> Running(u)) /\ (Ready(u)' <=> Ready(u))
    BY <1>0, IdleRt DEF IInv, Types
  <2>3. addrs' \in [Task -> 0 .. MaxAddr]
    BY <1>2, NetAssumption, SMTT(30), Z3T(30) DEF IInv, Types, TypeOK
  <2>4. Types' /\ pc'[t] = "dial" /\ \A u \in Task \ {t} : pc'[u] = pc[u]
    BY <1>0, <1>2, <2>2, <2>3, TaskTypes DEF IInv, Types, TypeOK, IoRec, sockVars
  <2>5. WholeWrite'
    BY <1>2 DEF IInv, WholeWrite, Failed
  <2>6. UNCHANGED <<batch, work, displaced, reg, sock, io>> /\ ~Active(t)'
    BY <1>0, <1>2, <2>4 DEF pollVars, workerVars, sockVars, Active
  <2>7. Waits'
    BY <1>0, <2>1, <2>2, <2>4, <2>6, StepKeeps DEF IInv
  <2> QED BY <2>4, <2>5, <2>7 DEF IInv
<1> QED BY <1>1, <1>2 DEF CallDial

LEMMA DialInv ==
  ASSUME IInv, NEW t \in Task, Dial(t)
  PROVE  IInv'
<1>0. /\ Running(t) /\ pc[t] = "dial" /\ ~Active(t)
      /\ UNCHANGED <<rtVars, wait_q, aborted, pollVars, so_error, workerVars>>
  BY DEF Dial, At, Active
<1>1. ~Ready(t)
  BY <1>0, NotWaiting DEF IInv
<1>2. RtInv' /\ \A u \in Task : (Running(u)' <=> Running(u)) /\ (Ready(u)' <=> Ready(u))
  BY <1>0, IdleRt DEF IInv, Types
<1>3. CASE Return(t) /\ UNCHANGED sock
  BY <1>0, <1>3, ReturnInv DEF IInv, Types, TypeOK
<1>4. CASE /\ addrs[t] > 0 /\ addrs' = [addrs EXCEPT ![t] = @ - 1]
           /\ UNCHANGED <<pc, io, sock>>
  <2>1. addrs' \in [Task -> 0 .. MaxAddr]
    BY <1>4, NetAssumption, SMTT(30), Z3T(30) DEF IInv, Types, TypeOK
  <2>2. Goto(t, "dial")
    BY <1>0, <1>4 DEF Goto, IInv, Types, TypeOK
  <2>3. Types' /\ pc'[t] = "dial" /\ \A u \in Task \ {t} : pc'[u] = pc[u]
    BY <1>0, <1>2, <1>4, <2>1, <2>2, TaskTypes DEF IInv, Types, TypeOK, IoRec
  <2>4. WholeWrite'
    BY <1>4 DEF IInv, WholeWrite, Failed
  <2>5. UNCHANGED <<batch, work, displaced, reg>> /\ ~Active(t)'
    BY <1>0, <2>3 DEF pollVars, workerVars, Active
  <2>6. Waits'
    BY <1>0, <1>1, <1>2, <1>4, <2>3, <2>5, StepKeeps DEF IInv
  <2> QED BY <2>3, <2>4, <2>6 DEF IInv
<1>5. ASSUME NEW f \in uses[t], sock[f] = "closed",
             sock' = [sock EXCEPT ![f] = "connected"], Return(t)
      PROVE  IInv'
  <2>1. sock' \in [Fd -> Sock] /\ \A g \in Fd : sock'[g] = "closed" => sock[g] = "closed"
    BY <1>5, NetAssumption DEF Sock, IInv, Types, TypeOK
  <2> QED BY <1>0, <1>5, <2>1, ReturnInv
<1>6. ASSUME NEW f \in uses[t], addrs[t] > 0, sock[f] = "closed",
             sock' = [sock EXCEPT ![f] = "connecting"],
             io' = [io EXCEPT ![t] = Io("connect", f, 0)],
             addrs' = [addrs EXCEPT ![t] = @ - 1], Goto(t, "add")
      PROVE  IInv'
  <2>1. f \in Fd
    BY NetAssumption
  <2>2. /\ sock' \in [Fd -> Sock] /\ sock'[f] = "connecting"
        /\ \A g \in Fd \ {f} : sock'[g] = sock[g]
    BY <1>6, <2>1 DEF Sock, IInv, Types, TypeOK
  <2>3. addrs' \in [Task -> 0 .. MaxAddr]
    BY <1>6, NetAssumption, SMTT(30), Z3T(30) DEF IInv, Types, TypeOK
  <2>4. /\ io' \in [Task -> IoRec] /\ io'[t].fd = f
        /\ \A u \in Task \ {t} : io'[u] = io[u]
        /\ \A u \in Task : io'[u].offset <= io'[u].req_n
        /\ WholeWrite'
    <3>1. WholeRec(Io("connect", f, 0)) /\ Io("connect", f, 0).fd = f
      BY <2>1, FreshIo DEF Op
    <3> QED BY <1>6, <3>1, IoSet DEF IInv
  <2>5. Types' /\ pc'[t] = "add" /\ \A u \in Task \ {t} : pc'[u] = pc[u]
    BY <1>0, <1>2, <1>6, <2>2, <2>3, <2>4, TaskTypes DEF IInv, Types, TypeOK
  <2>6. UNCHANGED <<batch, work, displaced, reg>>
    BY <1>0 DEF pollVars, workerVars
  <2>7. \A u \in Task : Active(u) => io[u].fd # f
    BY <1>6 DEF IInv, Waits, Owns, Holds
  <2>8. Waits'
    BY <1>0, <1>1, <1>2, <2>2, <2>4, <2>5, <2>6, <2>7, StepKeeps DEF IInv
  <2> QED BY <2>4, <2>5, <2>8 DEF IInv
<1> QED BY <1>3, <1>4, <1>5, <1>6 DEF Dial

(* netpoll_add and netpoll_mod arm the descriptor for the task. *)
LEMMA ArmInv ==
  ASSUME IInv, NEW t \in Task, Running(t), pc[t] \in {"add", "mod"}, Goto(t, "yield"),
         \/ /\ reg' = [reg EXCEPT ![io[t].fd] = ArmedFor(t)]
            /\ displaced' = displaced \cup Displaced(io[t].fd, t)
         \/ /\ pc[t] = "mod" /\ reg[io[t].fd] = NoReg
            /\ reg' = reg /\ displaced' = displaced \cup {t},
         UNCHANGED <<rtVars, io, addrs, wait_q, aborted, netpoller, sockVars, workerVars>>
  PROVE  IInv'
<1>0. /\ io[t].fd \in Fd /\ Active(t) /\ io[t].fd \in uses[t]
      /\ pc[t] = "mod" /\ reg[io[t].fd] = NoReg => OthersUse(t)
  BY DEF IInv, Types, TypeOK, Waits, Owns, Holds, Kept, Active
<1>1. ~Ready(t) /\ ~InBatch(t) /\ ~Finishing(t) /\ ~Armed(t) /\ t \notin displaced
  BY NotWaiting DEF IInv
<1>2. RtInv' /\ \A u \in Task : (Running(u)' <=> Running(u)) /\ (Ready(u)' <=> Ready(u))
  BY IdleRt DEF IInv, Types
<1>3. /\ pc' \in [Task -> {"user", "call", "dial", "add", "mod", "yield", "resume", "done"}]
      /\ pc'[t] = "yield" /\ \A u \in Task \ {t} : pc'[u] = pc[u]
  BY DEF Goto, IInv, Types, TypeOK
<1>4. Displaced(io[t].fd, t) \subseteq Task \ {t}
  BY <1>0, Registered DEF Displaced, IInv
<1>5. /\ reg' \in [Fd -> [ud : Task \cup {NoTask}, armed : BOOLEAN]]
      /\ \A f \in Fd \ {io[t].fd} : reg'[f] = reg[f]
      /\ \A f \in Fd : reg'[f].armed => reg'[f].ud \in Task
  <2>1. /\ reg \in [Fd -> [ud : Task \cup {NoTask}, armed : BOOLEAN]]
        /\ \A f \in Fd : reg[f].armed => reg[f].ud \in Task
    BY DEF IInv, Types, TypeOK
  <2>2. ArmedFor(t) \in [ud : Task \cup {NoTask}, armed : BOOLEAN] /\ ArmedFor(t).ud = t
    BY DEF ArmedFor
  <2>3. CASE reg' = reg
    BY <2>1, <2>3
  <2>4. CASE reg' = [reg EXCEPT ![io[t].fd] = ArmedFor(t)]
    BY <1>0, <2>1, <2>2, <2>4
  <2> QED BY <2>3, <2>4
<1>6. TypeOK'
  BY <1>2, <1>3, <1>4, <1>5 DEF IInv, Types, TypeOK, RtInv, workerVars, sockVars
<1>7. Types'
  BY <1>2, <1>5, <1>6 DEF IInv, Types, WorkOK, NoWork, workerVars
<1>8. WholeWrite'
  BY DEF IInv, WholeWrite, Failed
<1>9. UNCHANGED <<batch, work, io, sock>>
  BY DEF workerVars, sockVars
<1>10. /\ \A u \in Task \ {t} : Named(u)' /\ One(u)' /\ Owns(u)'
       /\ Active(t)' => Holds(t)' /\ Alone(t)'
  <2>1. \/ reg' = reg /\ \A u \in Task \ {t} : u \in displaced' <=> u \in displaced
        \/ /\ io[t].fd \in uses[t]
           /\ \E r \in {NoReg, ArmedFor(t)} : reg' = [reg EXCEPT ![io[t].fd] = r]
           /\ displaced' = displaced \cup Displaced(io[t].fd, t)
    BY <1>0
  <2> QED BY <1>0, <1>2, <1>3, <1>7, <1>9, <2>1, OthersKeep DEF IInv
<1>11. /\ Pending(t)' /\ ~Ready(t)' /\ ~InBatch(t)' /\ ~Finishing(t)' /\ pc'[t] = "yield"
       /\ OthersUse(t)' <=> OthersUse(t)
  BY <1>1, <1>2, <1>3, <1>9 DEF Pending, InBatch, Finishing, OthersUse
<1>12. \A f \in Fd : <<f, t>> \notin batch' /\ (f # io[t].fd => ~RegFor(f, t)')
  BY <1>1, <1>5, <1>9 DEF IInv, Waits, Named, InBatch, RegFor, ArmedFor
<1>13. Kept(t)'
  BY <1>11 DEF Kept
<1>14. CASE /\ reg' = [reg EXCEPT ![io[t].fd] = ArmedFor(t)]
            /\ displaced' = displaced \cup Displaced(io[t].fd, t)
  <2>1. Armed(t)' /\ t \notin displaced'
    BY <1>0, <1>1, <1>4, <1>9, <1>14 DEF Armed, RegFor, ArmedFor, IInv, Types, TypeOK
  <2>2. Named(t)'
    BY <1>9, <1>11, <1>12, <2>1 DEF Named
  <2>3. One(t)'
    BY <1>2, <1>11, <2>1 DEF One
  <2> QED BY <1>7, <1>8, <1>10, <1>13, <2>2, <2>3 DEF IInv, Waits, Owns
<1>15. CASE /\ pc[t] = "mod" /\ reg[io[t].fd] = NoReg
            /\ reg' = reg /\ displaced' = displaced \cup {t}
  <2>1. ~Armed(t)' /\ t \in displaced'
    BY <1>1, <1>9, <1>15 DEF Armed, RegFor, ArmedFor
  <2>2. Named(t)'
    BY <1>9, <1>11, <1>12, <2>1 DEF Named, Armed
  <2>3. One(t)'
    BY <1>0, <1>2, <1>11, <1>15, <2>1 DEF One
  <2> QED BY <1>7, <1>8, <1>10, <1>13, <2>2, <2>3 DEF IInv, Waits, Owns
<1> QED BY <1>14, <1>15

LEMMA AddInv ==
  ASSUME IInv, NEW t \in Task, Add(t)
  PROVE  IInv'
<1>0. /\ Running(t) /\ pc[t] = "add"
      /\ UNCHANGED <<rtVars, wait_q, netpoller, displaced, workerVars>>
  BY DEF Add, At
<1>1. CASE aborted' = TRUE /\ UNCHANGED <<pc, io, addrs, reg, sockVars>>
  <2>1. RtInv' /\ \A u \in Task : (Running(u)' <=> Running(u)) /\ (Ready(u)' <=> Ready(u))
    BY <1>0, IdleRt DEF IInv, Types
  <2>2. Types'
    BY <1>0, <1>1, <2>1 DEF IInv, Types, TypeOK, RtInv, WorkOK, NoWork, workerVars, sockVars
  <2>3. WholeWrite'
    BY <1>1 DEF IInv, WholeWrite, Failed
  <2>4. Waits'
    BY <1>0, <1>1, <2>1, <2>2, NotWaiting, QuietKeeps DEF IInv, workerVars, sockVars
  <2> QED BY <2>2, <2>3, <2>4 DEF IInv
<1>2. CASE /\ reg[io[t].fd] = NoReg
           /\ reg' = [reg EXCEPT ![io[t].fd] = ArmedFor(t)]
           /\ Goto(t, "yield")
           /\ UNCHANGED <<io, addrs, sockVars, aborted>>
  <2>1. displaced' = displaced \cup Displaced(io[t].fd, t)
    BY <1>0, <1>2, Registered DEF Displaced, IInv
  <2> QED BY <1>0, <1>2, <2>1, ArmInv
<1>3. CASE /\ reg[io[t].fd] # NoReg /\ Goto(t, "mod")
           /\ UNCHANGED <<io, addrs, reg, sockVars, aborted>>
  <2>1. RtInv' /\ \A u \in Task : (Running(u)' <=> Running(u)) /\ (Ready(u)' <=> Ready(u))
    BY <1>0, IdleRt DEF IInv, Types
  <2>2. ~Ready(t)
    BY <1>0, NotWaiting DEF IInv
  <2>3. Types' /\ pc'[t] = "mod" /\ \A u \in Task \ {t} : pc'[u] = pc[u]
    BY <1>0, <1>3, <2>1, TaskTypes DEF IInv, Types, TypeOK, IoRec, sockVars, pollVars
  <2>4. WholeWrite'
    BY <1>3 DEF IInv, WholeWrite, Failed
  <2>5. UNCHANGED <<batch, work, displaced, reg, sock, io>>
    BY <1>0, <1>3 DEF workerVars, sockVars
  <2>6. /\ Active(t) /\ Holds(t) /\ Alone(t)
        /\ \A u \in Task \ {t} : io[u].op = "connect" /\ Active(u) => io[u].fd # io[t].fd
    BY <1>0 DEF IInv, Waits, Owns, Active, Alone
  <2>7. Waits'
    BY <1>0, <1>3, <2>1, <2>2, <2>3, <2>5, <2>6, StepKeeps DEF IInv, Holds, Alone
  <2> QED BY <2>3, <2>4, <2>7 DEF IInv
<1>4. CASE AddFailed(t) /\ UNCHANGED aborted
  <2>1. CASE io[t].op = "connect" /\ Close(io[t].fd) /\ Goto(t, "dial") /\ UNCHANGED <<io, addrs>>
    BY <1>0, <1>4, <2>1, CloseInv
  <2>2. CASE Return(t) /\ UNCHANGED <<sockVars, reg>>
    BY <1>0, <1>4, <2>2, ReturnInv DEF IInv, Types, TypeOK, sockVars, pollVars
  <2> QED BY <1>4, <2>1, <2>2 DEF AddFailed
<1> QED BY <1>0, <1>1, <1>2, <1>3, <1>4 DEF Add

LEMMA ModInv ==
  ASSUME IInv, NEW t \in Task, Mod(t)
  PROVE  IInv'
<1>1. /\ Running(t) /\ pc[t] = "mod" /\ Goto(t, "yield")
      /\ UNCHANGED <<rtVars, io, addrs, wait_q, aborted, netpoller, sockVars, workerVars>>
  BY DEF Mod, At
<1>2. \/ /\ reg' = [reg EXCEPT ![io[t].fd] = ArmedFor(t)]
         /\ displaced' = displaced \cup Displaced(io[t].fd, t)
      \/ /\ reg[io[t].fd] = NoReg
         /\ reg' = reg /\ displaced' = displaced \cup {t}
  BY DEF Mod, NetpollMod
<1> QED BY <1>1, <1>2, ArmInv

LEMMA ResumeInv ==
  ASSUME IInv, NEW t \in Task, Resume(t)
  PROVE  IInv'
<1>0. /\ Running(t) /\ pc[t] = "resume"
      /\ UNCHANGED <<rtVars, wait_q, aborted, netpoller, displaced, workerVars>>
  BY DEF Resume, At
<1>1. CASE io[t].op = "connect" /\ Close(io[t].fd) /\ Goto(t, "dial") /\ UNCHANGED <<io, addrs>>
  BY <1>0, <1>1, CloseInv
<1>2. CASE Return(t) /\ UNCHANGED <<reg, sockVars>>
  BY <1>0, <1>2, ReturnInv DEF IInv, Types, TypeOK, sockVars, pollVars
<1> QED BY <1>1, <1>2 DEF Resume

(* The task leaves its thread; it stays where it waits. *)
LEMMA YieldInv ==
  ASSUME IInv, NEW t \in Task, Yield(t)
  PROVE  IInv'
<1>0. Running(t) /\ pc[t] = "yield" /\ Active(t) /\ io[t].fd \in Fd
  BY DEF Yield, At, Active, IInv, Types, TypeOK
<1>1. /\ RtInv' /\ ~Running(t)'
      /\ \A u \in Task \ {t} : Running(u)' <=> Running(u)
      /\ \A u \in Task : Ready(u)' <=> Ready(u)
  BY <1>0, YieldRt DEF Yield, IInv, Types
<1>2. Types' /\ pc'[t] = "resume" /\ \A u \in Task \ {t} : pc'[u] = pc[u]
  BY <1>1, TaskTypes DEF Yield, IInv, Types, TypeOK, IoRec, sockVars
<1>3. WholeWrite'
  BY DEF Yield, IInv, WholeWrite, Failed
<1>4. UNCHANGED <<batch, work, displaced, reg, sock, io>>
  BY DEF Yield, pollVars, workerVars, sockVars
<1>5. /\ \A u \in Task \ {t} : Named(u)' /\ One(u)' /\ Owns(u)'
      /\ Active(t)' => Holds(t)' /\ Alone(t)'
  BY <1>0, <1>1, <1>2, <1>4, OthersKeep DEF IInv
<1>6. /\ Pending(t)' /\ Pending(t) /\ (InBatch(t)' <=> InBatch(t))
      /\ (Finishing(t)' <=> Finishing(t)) /\ (OthersUse(t)' <=> OthersUse(t))
      /\ \A f \in Fd : RegFor(f, t)' <=> RegFor(f, t)
  BY <1>0, <1>1, <1>2, <1>4 DEF Pending, InBatch, Finishing, OthersUse, RegFor, ArmedFor
<1>7. (Armed(t)' <=> Armed(t)) /\ Named(t) /\ One(t) /\ Kept(t)
  BY <1>0, <1>4, <1>6 DEF Armed, IInv, Waits, Owns
<1>8. Named(t)' /\ One(t)'
  BY <1>1, <1>2, <1>4, <1>6, <1>7 DEF Named, One
<1>9. Kept(t)'
  BY <1>0, <1>2, <1>4, <1>6, <1>7 DEF Kept, NoReg
<1> QED BY <1>2, <1>3, <1>5, <1>8, <1>9 DEF IInv, Waits, Owns

LEMMA FinishInv ==
  ASSUME IInv, NEW t \in Task, Finish(t)
  PROVE  IInv'
<1>0. Running(t) /\ pc[t] = "user" /\ ~Ready(t)
  BY NotWaiting DEF Finish, At, IInv
<1>1. /\ RtInv' /\ ~Running(t)'
      /\ \A u \in Task \ {t} : Running(u)' <=> Running(u)
      /\ \A u \in Task : Ready(u)' <=> Ready(u)
  BY <1>0, YieldRt DEF Finish, IInv, Types
<1>2. Types' /\ pc'[t] = "done" /\ \A u \in Task \ {t} : pc'[u] = pc[u]
  BY <1>1, TaskTypes DEF Finish, IInv, Types, TypeOK, IoRec, sockVars
<1>3. WholeWrite'
  BY DEF Finish, IInv, WholeWrite, Failed
<1>4. UNCHANGED <<batch, work, displaced, reg, sock, io>> /\ ~Active(t)'
  BY <1>2 DEF Finish, pollVars, workerVars, sockVars, Active
<1>5. Waits'
  BY <1>0, <1>1, <1>2, <1>4, StepKeeps DEF IInv
<1> QED BY <1>2, <1>3, <1>5 DEF IInv

-----------------------------------------------------------------------------
(* netpoll_wait: the armed registrations of the events become the batch. *)
LEMMA WaitInv ==
  ASSUME IInv, Wait
  PROVE  IInv'
<1>1. PICK S \in SUBSET {f \in Fd : reg[f].armed /\ sock[f] # "connecting"} :
        /\ batch' = {<<f, reg[f].ud>> : f \in S}
        /\ reg' = [f \in Fd |-> IF f \in S THEN [reg[f] EXCEPT !.armed = FALSE] ELSE reg[f]]
  BY DEF Wait
<1>2. /\ UNCHANGED <<pc, io, work, displaced, sock>> /\ batch = {} /\ work = NoWork
      /\ RtInv' /\ \A u \in Task : (Running(u)' <=> Running(u)) /\ (Ready(u)' <=> Ready(u))
  BY IdleRt DEF Wait, taskVars, sockVars, IInv, Types
<1>3. \A f \in S : f \in Fd /\ reg[f].armed /\ reg[f].ud \in Task /\ reg[f] = ArmedFor(reg[f].ud)
  BY <1>1, Registered DEF IInv
<1>4. ASSUME NEW f \in S
      PROVE  /\ reg'[f] = [ud |-> reg[f].ud, armed |-> FALSE]
             /\ reg'[f] # NoReg /\ ~reg'[f].armed
             /\ \A u \in Task : reg'[f] # ArmedFor(u)
  BY <1>1, <1>3, SchedAssumption DEF NoReg, ArmedFor
<1>5. \A f \in Fd \ S : reg'[f] = reg[f]
  BY <1>1
<1>6. batch' \subseteq Fd \X Task
  BY <1>1, <1>3, SMTT(30), Z3T(30)
<1>7. reg' \in [Fd -> [ud : Task \cup {NoTask}, armed : BOOLEAN]]
  <2>1. reg \in [Fd -> [ud : Task \cup {NoTask}, armed : BOOLEAN]]
    BY DEF IInv, Types, TypeOK
  <2>2. ASSUME NEW f \in Fd PROVE reg'[f] \in [ud : Task \cup {NoTask}, armed : BOOLEAN]
    <3>1. CASE f \in S
      <4>1. reg'[f] = [ud |-> reg[f].ud, armed |-> FALSE] /\ reg[f].ud \in Task
        BY <1>3, <1>4, <3>1
      <4> QED BY <4>1, SMTT(30), Z3T(30)
    <3>2. CASE f \notin S
      BY <1>5, <2>1, <3>2
    <3> QED BY <3>1, <3>2
  <2> QED BY <1>1, <2>2
<1>8. TypeOK'
  BY <1>2, <1>6, <1>7 DEF Wait, IInv, Types, TypeOK, RtInv, taskVars, sockVars
<1>9. Types'
  BY <1>2, <1>4, <1>5, <1>8 DEF IInv, Types, WorkOK, NoWork
<1>10. WholeWrite'
  BY <1>2 DEF IInv, WholeWrite, Failed
<1>11. ASSUME NEW t \in Task PROVE Named(t)' /\ One(t)' /\ Owns(t)'
  <2>0. /\ Named(t) /\ One(t) /\ Owns(t) /\ io[t].fd \in Fd
        /\ (Pending(t)' <=> Pending(t)) /\ (Active(t)' <=> Active(t))
        /\ (OthersUse(t)' <=> OthersUse(t)) /\ ~InBatch(t) /\ ~Finishing(t) /\ ~Finishing(t)'
    BY <1>2, SchedAssumption
       DEF IInv, Waits, Types, TypeOK, Pending, Active, OthersUse, InBatch, Finishing, NoWork
  <2>1. \A f \in Fd : RegFor(f, t)' <=> RegFor(f, t) /\ f \notin S
    BY <1>4, <1>5 DEF RegFor, ArmedFor
  <2>2. \A f \in Fd : <<f, t>> \in batch' <=> RegFor(f, t) /\ f \in S
    <3>1. ASSUME NEW f \in Fd, <<f, t>> \in batch' PROVE f \in S /\ reg[f].ud = t
      BY <1>1, <3>1
    <3>2. ASSUME NEW f \in S, reg[f].ud = t PROVE <<f, t>> \in batch'
      BY <1>1, <3>2
    <3>3. \A f \in S : RegFor(f, t) <=> reg[f].ud = t
      BY <1>3, Registered DEF RegFor, IInv
    <3> QED BY <3>1, <3>2, <3>3
  <2>3. /\ InBatch(t)' <=> Armed(t) /\ io[t].fd \in S
        /\ Armed(t)' <=> Armed(t) /\ io[t].fd \notin S
    BY <1>2, <2>0, <2>1, <2>2 DEF InBatch, Armed
  <2>4. Named(t)'
    BY <1>2, <2>0, <2>1, <2>2, <2>3 DEF Named
  <2>5. One(t)'
    BY <1>2, <2>0, <2>3 DEF One
  <2>6. reg'[io'[t].fd] = NoReg => reg[io[t].fd] = NoReg /\ ~InBatch(t)'
    BY <1>2, <1>4, <1>5, <2>0, <2>3
  <2>7. Owns(t)'
    BY <1>2, <2>0, <2>6 DEF Owns, Holds, Alone, Kept, Active, NoReg
  <2> QED BY <2>4, <2>5, <2>7
<1> QED BY <1>9, <1>10, <1>11 DEF IInv, Waits

LEMMA CreatePollerInv ==
  ASSUME IInv, CreatePoller
  PROVE  IInv'
<1>1. /\ UNCHANGED <<pc, io, reg, batch, work, displaced, sock>>
      /\ RtInv' /\ \A u \in Task : (Running(u)' <=> Running(u)) /\ (Ready(u)' <=> Ready(u))
  BY IdleRt DEF CreatePoller, taskVars, sockVars, workerVars, IInv, Types
<1>2. Types'
  BY <1>1 DEF CreatePoller, IInv, Types, TypeOK, RtInv, WorkOK, NoWork, taskVars, sockVars
<1>3. WholeWrite'
  BY <1>1 DEF IInv, WholeWrite, Failed
<1>4. Waits'
  BY <1>1, <1>2, QuietKeeps DEF IInv
<1> QED BY <1>2, <1>3, <1>4 DEF IInv

LEMMA PeerInv ==
  ASSUME IInv, NEW f \in Fd, Peer(f)
  PROVE  IInv'
<1>1. /\ UNCHANGED <<pc, io, reg, batch, work, displaced>>
      /\ RtInv' /\ \A u \in Task : (Running(u)' <=> Running(u)) /\ (Ready(u)' <=> Ready(u))
  BY IdleRt DEF Peer, taskVars, pollVars, workerVars, IInv, Types
<1>2. /\ sock' \in [Fd -> Sock] /\ so_error' \in [Fd -> BOOLEAN]
      /\ \A g \in Fd : sock'[g] = "closed" => sock[g] = "closed"
  <2>1. sock \in [Fd -> Sock] /\ so_error \in [Fd -> BOOLEAN]
    BY DEF IInv, Types, TypeOK
  <2>2. PICK x \in {"connected", "broken"} : sock' = [sock EXCEPT ![f] = x]
    BY DEF Peer
  <2>3. so_error' \in [Fd -> BOOLEAN]
    BY <2>1 DEF Peer
  <2> QED BY <2>1, <2>2, <2>3 DEF Sock
<1>3. Types'
  BY <1>1, <1>2 DEF Peer, IInv, Types, TypeOK, RtInv, WorkOK, NoWork, taskVars, pollVars
<1>4. WholeWrite'
  BY <1>1 DEF IInv, WholeWrite, Failed
<1>5. Waits'
  BY <1>1, <1>2, <1>3, QuietKeeps DEF IInv
<1> QED BY <1>3, <1>4, <1>5 DEF IInv

LEMMA TimerInv ==
  ASSUME IInv, NEW k \in Thread, SchedTimer(k)
  PROVE  IInv'
<1>1. /\ UNCHANGED <<pc, io, reg, batch, work, displaced, sock>>
      /\ RtInv' /\ \A u \in Task : (Running(u)' <=> Running(u)) /\ (Ready(u)' <=> Ready(u))
  BY ForcePreemptRt
     DEF SchedTimer, netVars, taskVars, pollVars, sockVars, workerVars, IInv, Types
<1>2. Types'
  BY <1>1 DEF SchedTimer, netVars, IInv, Types, TypeOK, RtInv, WorkOK, NoWork, taskVars,
              pollVars, sockVars
<1>3. WholeWrite'
  BY <1>1 DEF IInv, WholeWrite, Failed
<1>4. Waits'
  BY <1>1, <1>2, QuietKeeps DEF IInv
<1> QED BY <1>2, <1>3, <1>4 DEF IInv

(* scheduler_run resumes a task that was ready: it waits no more. *)
LEMMA DispatchInv ==
  ASSUME IInv, NEW k \in Thread, SchedDispatch(k)
  PROVE  IInv'
<1>1. PICK t \in Task :
        /\ Ready(t) /\ ~Running(t) /\ ~Ready(t)' /\ Running(t)'
        /\ \A u \in Task \ {t} : (Running(u)' <=> Running(u)) /\ (Ready(u)' <=> Ready(u))
  BY DispatchRt DEF SchedDispatch, IInv, Types
<1>2. /\ UNCHANGED <<pc, io, reg, batch, work, displaced, sock>> /\ RtInv'
      /\ wait_q' \subseteq Task
  BY DispatchRt
     DEF SchedDispatch, pollVars, sockVars, workerVars, IInv, Types, TypeOK
<1>3. Types'
  BY <1>2 DEF SchedDispatch, IInv, Types, TypeOK, RtInv, WorkOK, NoWork, pollVars, sockVars
<1>4. WholeWrite'
  BY <1>2 DEF IInv, WholeWrite, Failed
<1>5. /\ \A u \in Task \ {t} : Named(u)' /\ One(u)' /\ Owns(u)'
      /\ Active(t)' => Holds(t)' /\ Alone(t)'
  <2>1. Active(t)' <=> Active(t)
    BY <1>2 DEF Active
  <2> QED BY <1>1, <1>2, <1>3, <2>1, OthersKeep DEF IInv
<1>6. /\ Named(t) /\ One(t) /\ Owns(t) /\ ~Armed(t) /\ ~InBatch(t) /\ ~Finishing(t)
      /\ t \notin displaced /\ io[t].fd \in Fd
  BY <1>1 DEF IInv, Waits, Named, One, Types, TypeOK
<1>7. /\ ~InBatch(t)' /\ ~Finishing(t)' /\ (OthersUse(t)' <=> OthersUse(t))
      /\ \A f \in Fd : RegFor(f, t)' <=> RegFor(f, t)
      /\ Active(t)' <=> Active(t)
      /\ ~Pending(t)'
  BY <1>1, <1>2, <1>6 DEF InBatch, Finishing, OthersUse, RegFor, ArmedFor, Active, Pending, One
<1>8. ~Armed(t)' /\ t \notin displaced'
  BY <1>2, <1>6, <1>7 DEF Armed
<1>9. Named(t)'
  BY <1>2, <1>6, <1>7, <1>8 DEF Named
<1>10. One(t)'
  BY <1>1, <1>7, <1>8 DEF One
<1>11. Active(t)' => Kept(t)'
  BY <1>2, <1>6, <1>7 DEF Owns, Kept, NoReg
<1> QED BY <1>3, <1>4, <1>5, <1>9, <1>10, <1>11 DEF IInv, Waits, Owns

-----------------------------------------------------------------------------
(* What the worker writes in t->io. *)
LEMMA SetIo ==
  ASSUME Types, WholeWrite, NEW t \in Task, NEW n \in Fd \cup {Failed}, Set(t, n),
         n = Failed \/ io[t].op \notin {"read", "write"}
  PROVE  \E x : /\ WholeRec(x) /\ x.fd = io[t].fd /\ x.op = io[t].op
                /\ io' = [io EXCEPT ![t] = x]
<1>1. io[t] \in IoRec /\ io[t].offset <= io[t].req_n
  BY DEF Types, TypeOK, IoRec
<1>2. PICK x : x = [io[t] EXCEPT !.done_n = n, !.io_done = TRUE]
  OBVIOUS
<1>3. io' = [io EXCEPT ![t] = x]
  BY <1>2 DEF Set
<1>4. /\ x \in IoRec /\ x.fd = io[t].fd /\ x.op = io[t].op /\ x.done_n = n
      /\ x.offset = io[t].offset /\ x.req_n = io[t].req_n
  BY <1>1, <1>2 DEF IoRec
<1>5. WholeRec(x)
  BY <1>1, <1>4 DEF WholeRec
<1> QED BY <1>3, <1>4, <1>5

LEMMA ProgressIo ==
  ASSUME Types, WholeWrite, NEW t \in Task, NEW n \in 0 .. (io[t].req_n - io[t].offset),
         NEW d \in BOOLEAN, Progress(t, n, d),
         io[t].op = "write" => (d => io[t].offset + n = io[t].req_n)
  PROVE  \E x : /\ WholeRec(x) /\ x.fd = io[t].fd /\ x.op = io[t].op
                /\ io' = [io EXCEPT ![t] = x]
<1>1. io[t] \in IoRec /\ io[t].offset <= io[t].req_n
  BY DEF Types, TypeOK, IoRec
<1>2. PICK m : m = io[t].offset + n
  OBVIOUS
<1>3. m \in 0 .. ReqSize /\ m <= io[t].req_n /\ m \in 0 .. io[t].req_n
  BY <1>1, <1>2, NetAssumption, SMTT(30), Z3T(30) DEF IoRec
<1>4. PICK x : x = [io[t] EXCEPT !.offset = m, !.done_n = m, !.io_done = d]
  OBVIOUS
<1>5. io' = [io EXCEPT ![t] = x]
  BY <1>2, <1>4 DEF Progress
<1>6. /\ x \in IoRec /\ x.fd = io[t].fd /\ x.op = io[t].op /\ x.done_n = m
      /\ x.offset = m /\ x.req_n = io[t].req_n /\ x.io_done = d
  BY <1>1, <1>3, <1>4 DEF IoRec
<1>7. WholeRec(x)
  BY <1>2, <1>3, <1>6 DEF WholeRec
<1> QED BY <1>5, <1>6, <1>7

LEMMA SameIo ==
  ASSUME Types, WholeWrite, NEW t \in Task, UNCHANGED io
  PROVE  \E x : /\ WholeRec(x) /\ x.fd = io[t].fd /\ x.op = io[t].op
                /\ io' = [io EXCEPT ![t] = x]
<1>1. WholeRec(io[t])
  BY DEF Types, TypeOK, IoRec, WholeRec, WholeWrite
<1>2. io' = [io EXCEPT ![t] = io[t]]
  BY DEF Types, TypeOK
<1> QED BY <1>1, <1>2

(* The worker takes an event out of the batch and performs the operation. *)
LEMMA HandleInv ==
  ASSUME IInv, NEW t \in Task, Fetched(t),
         NEW x, WholeRec(x), x.fd = io[t].fd, x.op = io[t].op, io' = [io EXCEPT ![t] = x],
         NEW ctl \in {"none", "mod", "del"}, NEW push \in BOOLEAN, Then(t, ctl, push),
         ctl = "mod" <=> ~push,
         sock' \in [Fd -> Sock], \A f \in Fd : sock'[f] = "closed" => sock[f] = "closed",
         so_error' \in [Fd -> BOOLEAN],
         UNCHANGED <<rtVars, pc, addrs, wait_q, aborted, pollVars>>
  PROVE  IInv'
<1>1. RtInv' /\ \A u \in Task : (Running(u)' <=> Running(u)) /\ (Ready(u)' <=> Ready(u))
  BY IdleRt DEF IInv, Types
<1>2. /\ io' \in [Task -> IoRec] /\ io'[t] = x
      /\ \A u \in Task \ {t} : io'[u] = io[u]
      /\ \A u \in Task : io'[u].offset <= io'[u].req_n
      /\ WholeWrite'
  BY IoSet DEF IInv
<1>3. /\ work' \in [t : Task \cup {NoTask}, ctl : {"none", "mod", "del"}, push : BOOLEAN]
      /\ work'.t = t /\ WorkOK'
      /\ batch' = {e \in batch : e[2] # t}
  BY DEF Then, WorkOK
<1>4. TypeOK'
  BY <1>1, <1>2, <1>3 DEF IInv, Types, TypeOK, RtInv, IoRec, pollVars
<1>5. Types'
  BY <1>1, <1>2, <1>3, <1>4 DEF IInv, Types, pollVars
<1>6. /\ work = NoWork /\ io[t].fd \in Fd /\ \A u \in Task : work.t # u
      /\ Named(t) /\ One(t) /\ Owns(t) /\ InBatch(t)
  BY SchedAssumption DEF Fetched, NoWork, IInv, Types, TypeOK, Waits, Named, InBatch
<1>7. UNCHANGED <<pc, reg, displaced>>
  BY DEF pollVars
<1>8. ASSUME NEW u \in Task, NEW f \in Fd
      PROVE  <<f, u>> \in batch' <=> <<f, u>> \in batch /\ u # t
  BY <1>3
<1>9. /\ \A u \in Task \ {t} : Named(u)' /\ One(u)' /\ Owns(u)'
      /\ Active(t)' => Holds(t)' /\ Alone(t)'
  <2>1. Active(t)' <=> Active(t)
    BY <1>7 DEF Active
  <2>2. \A u \in Task \ {t} : work'.t = u <=> work.t = u
    BY <1>3, <1>6
  <2> QED BY <1>1, <1>2, <1>5, <1>7, <1>8, <2>1, <2>2, OthersKeep DEF IInv
<1>10. /\ io'[t].fd = io[t].fd /\ Finishing(t)' /\ ~InBatch(t)'
       /\ (Pending(t)' <=> Pending(t)) /\ (OthersUse(t)' <=> OthersUse(t))
       /\ \A f \in Fd : RegFor(f, t)' <=> RegFor(f, t)
       /\ Active(t)' <=> Active(t)
  BY <1>1, <1>2, <1>3, <1>6, <1>7, <1>8
     DEF Finishing, InBatch, Pending, OthersUse, RegFor, ArmedFor, Active
<1>11. (Armed(t)' <=> Armed(t)) /\ ~Armed(t)
  BY <1>6, <1>10 DEF Armed, One
<1>12. Named(t)'
  BY <1>1, <1>6, <1>7, <1>8, <1>10, <1>11 DEF Named
<1>13. One(t)'
  BY <1>1, <1>6, <1>7, <1>10, <1>11 DEF One, Named
<1>14. Active(t)' => Kept(t)'
  BY <1>6, <1>7, <1>10 DEF Owns, Kept, NoReg
<1> QED BY <1>2, <1>5, <1>9, <1>12, <1>13, <1>14 DEF IInv, Waits, Owns

LEMMA HandlesInv ==
  ASSUME IInv, NEW t \in Task, Handle(t)
  PROVE  IInv'
<1>0. /\ Fetched(t) /\ Types /\ WholeWrite /\ io[t].fd \in Fd
      /\ io[t].offset \in 0 .. io[t].req_n /\ io[t].req_n \in Nat /\ uses[t] \subseteq Fd
      /\ sock \in [Fd -> Sock] /\ so_error \in [Fd -> BOOLEAN]
  <2>1. Fetched(t)
    BY DEF Handle, HandleConnect, HandleAccept, HandleRead, HandleWrite
  <2>2. /\ io[t] \in IoRec /\ io[t].offset <= io[t].req_n
        /\ sock \in [Fd -> Sock] /\ so_error \in [Fd -> BOOLEAN]
    BY DEF IInv, Types, TypeOK, IoRec
  <2>3. io[t].offset \in 0 .. io[t].req_n /\ io[t].req_n \in Nat /\ io[t].fd \in Fd
    BY <2>2, NetAssumption, SMTT(30), Z3T(30) DEF IoRec
  <2> QED BY <2>1, <2>2, <2>3, NetAssumption DEF IInv
<1>1. ASSUME NEW ctl \in {"none", "mod", "del"}, NEW push \in BOOLEAN, Then(t, ctl, push),
             ctl = "mod" <=> ~push,
             UNCHANGED <<rtVars, pc, addrs, wait_q, aborted, pollVars, sockVars>>,
             \E x : /\ WholeRec(x) /\ x.fd = io[t].fd /\ x.op = io[t].op
                    /\ io' = [io EXCEPT ![t] = x]
      PROVE  IInv'
  <2>1. PICK x : /\ WholeRec(x) /\ x.fd = io[t].fd /\ x.op = io[t].op
                 /\ io' = [io EXCEPT ![t] = x]
    BY <1>1
  <2>2. sock' = sock /\ so_error' = so_error
    BY <1>1 DEF sockVars
  <2> QED BY <1>0, <1>1, <2>1, <2>2, HandleInv
<1>2. CASE HandleConnect(t)
  <2>1. /\ so_error' \in [Fd -> BOOLEAN] /\ sock' \in [Fd -> Sock]
        /\ \A f \in Fd : sock'[f] = "closed" => sock[f] = "closed"
        /\ UNCHANGED <<rtVars, pc, addrs, wait_q, aborted, pollVars>>
    BY <1>0, <1>2 DEF HandleConnect
  <2>2. PICK ctl \in {"none", "mod", "del"}, push \in BOOLEAN, n \in Fd \cup {Failed} :
          Then(t, ctl, push) /\ (ctl = "mod" <=> ~push) /\ Set(t, n)
    BY <1>0, <1>2 DEF HandleConnect
  <2>3. io[t].op = "connect"
    BY <1>2 DEF HandleConnect
  <2>4. \E x : /\ WholeRec(x) /\ x.fd = io[t].fd /\ x.op = io[t].op
               /\ io' = [io EXCEPT ![t] = x]
    BY <1>0, <2>2, <2>3, SetIo
  <2> QED BY <1>0, <2>1, <2>2, <2>4, HandleInv
<1>3. CASE HandleAccept(t)
  <2>1. /\ io[t].op = "accept" /\ UNCHANGED so_error
        /\ UNCHANGED <<rtVars, pc, addrs, wait_q, aborted, pollVars>>
    BY <1>3 DEF HandleAccept
  <2>2. ASSUME NEW f \in uses[t], sock' = [sock EXCEPT ![f] = "connected"],
               Set(t, f), Then(t, "none", TRUE)
        PROVE  IInv'
    <3>1. /\ f \in Fd /\ sock' \in [Fd -> Sock]
          /\ \A g \in Fd : sock'[g] = "closed" => sock[g] = "closed"
      BY <1>0, <2>2 DEF Sock
    <3>2. \E x : /\ WholeRec(x) /\ x.fd = io[t].fd /\ x.op = io[t].op
                 /\ io' = [io EXCEPT ![t] = x]
      BY <1>0, <2>1, <2>2, <3>1, SetIo
    <3> QED BY <1>0, <2>1, <2>2, <3>1, <3>2, HandleInv
  <2>3. CASE Then(t, "mod", FALSE) /\ UNCHANGED <<io, sock>>
    BY <1>0, <1>1, <2>1, <2>3, SameIo DEF sockVars
  <2>4. CASE Set(t, Failed) /\ Then(t, "none", TRUE) /\ UNCHANGED sock
    BY <1>0, <1>1, <2>1, <2>4, SetIo DEF sockVars
  <2> QED BY <1>3, <2>2, <2>3, <2>4 DEF HandleAccept
<1>4. CASE HandleRead(t)
  <2>1. /\ io[t].op = "read"
        /\ UNCHANGED <<rtVars, pc, addrs, wait_q, aborted, pollVars, sockVars>>
    BY <1>4 DEF HandleRead
  <2>2. ASSUME NEW r \in 0 .. (io[t].req_n - io[t].offset), Progress(t, r, TRUE),
               NEW ctl \in {"none", "del"}, Then(t, ctl, TRUE)
        PROVE  IInv'
    BY <1>0, <1>1, <2>1, <2>2, ProgressIo
  <2>3. CASE Then(t, "mod", FALSE) /\ UNCHANGED io
    BY <1>0, <1>1, <2>1, <2>3, SameIo
  <2>4. CASE Set(t, Failed) /\ Then(t, "del", TRUE)
    BY <1>0, <1>1, <2>1, <2>4, SetIo
  <2>5. /\ 0 \in 0 .. (io[t].req_n - io[t].offset)
        /\ 1 .. (io[t].req_n - io[t].offset) \subseteq 0 .. (io[t].req_n - io[t].offset)
    BY <1>0, SMTT(30), Z3T(30)
  <2> QED BY <1>4, <2>2, <2>3, <2>4, <2>5 DEF HandleRead
<1>5. CASE HandleWrite(t)
  <2>1. /\ io[t].op = "write"
        /\ UNCHANGED <<rtVars, pc, addrs, wait_q, aborted, pollVars, sockVars>>
    BY <1>5 DEF HandleWrite
  <2>2. ASSUME NEW w \in 0 .. (io[t].req_n - io[t].offset),
               Progress(t, w, io[t].offset + w = io[t].req_n),
               IF io[t].offset + w = io[t].req_n THEN Then(t, "none", TRUE)
                                                 ELSE Then(t, "mod", FALSE)
        PROVE  IInv'
    <3>1. \E x : /\ WholeRec(x) /\ x.fd = io[t].fd /\ x.op = io[t].op
                 /\ io' = [io EXCEPT ![t] = x]
      BY <1>0, <2>1, <2>2, ProgressIo
    <3> QED BY <1>1, <2>1, <2>2, <3>1
  <2>3. CASE Then(t, "mod", FALSE) /\ UNCHANGED io
    BY <1>0, <1>1, <2>1, <2>3, SameIo
  <2>4. CASE Set(t, Failed) /\ Then(t, "del", TRUE)
    BY <1>0, <1>1, <2>1, <2>4, SetIo
  <2> QED BY <1>5, <2>2, <2>3, <2>4 DEF HandleWrite
<1> QED BY <1>2, <1>3, <1>4, <1>5 DEF Handle

(* The worker re-arms or deletes the registration, and wakes the task. *)
LEMMA CompleteInv ==
  ASSUME IInv, Complete
  PROVE  IInv'
<1>1. PICK t \in Task : t = work.t
  BY Working DEF Complete, IInv
<1>2. /\ work' = NoWork /\ (work.ctl = "mod" <=> ~work.push)
      /\ UNCHANGED <<pc, io, batch, sock, so_error, addrs, wait_q, aborted, netpoller>>
      /\ UNCHANGED <<current, preempt>>
  BY DEF Complete, IInv, Types, WorkOK, taskVars, sockVars
<1>3. /\ Named(t) /\ One(t) /\ Owns(t) /\ Finishing(t) /\ Pending(t) /\ ~Ready(t)
      /\ ~Armed(t) /\ ~InBatch(t) /\ t \notin displaced /\ io[t].fd \in Fd
  BY <1>1 DEF IInv, Waits, Named, One, Finishing, Types, TypeOK
<1>4. Active(t) /\ io[t].fd \in uses[t] /\ Kept(t)
  BY <1>3 DEF Pending, Active, Owns, Holds
<1>5. \A u \in Task : work'.t # u
  BY <1>2, SchedAssumption DEF NoWork
<1>6. Displaced(io[t].fd, t) \subseteq Task \ {t}
  BY <1>3, Registered DEF Displaced, IInv
<1>7. /\ RtInv' /\ \A u \in Task : Running(u)' <=> Running(u)
      /\ \A u \in Task \ {t} : Ready(u)' <=> Ready(u)
      /\ Ready(t)' <=> work.push
  <2>1. CASE work.push
    BY <1>1, <1>2, <1>3, <2>1, MakeReadyRt DEF Complete, IInv, Types
  <2>2. CASE ~work.push
    <3>1. UNCHANGED rtVars
      BY <1>2, <2>2 DEF Complete, rtVars
    <3> QED BY <1>3, <2>2, <3>1, IdleRt DEF IInv, Types
  <2> QED BY <2>1, <2>2
<1>8. \/ reg' = reg /\ displaced' = displaced /\ work.push
      \/ /\ reg' = [reg EXCEPT ![io[t].fd] = ArmedFor(t)] /\ ~work.push
         /\ displaced' = displaced \cup Displaced(io[t].fd, t)
      \/ /\ reg' = [reg EXCEPT ![io[t].fd] = NoReg] /\ work.push
         /\ displaced' = displaced \cup Displaced(io[t].fd, t)
      \/ /\ reg' = reg /\ reg[io[t].fd] = NoReg /\ ~work.push
         /\ displaced' = displaced \cup {t}
  BY <1>1, <1>2 DEF Complete, NetpollMod
<1>9. /\ reg' \in [Fd -> [ud : Task \cup {NoTask}, armed : BOOLEAN]]
      /\ \A f \in Fd \ {io[t].fd} : reg'[f] = reg[f]
      /\ \A f \in Fd : reg'[f].armed => reg'[f].ud \in Task
  <2>1. /\ reg \in [Fd -> [ud : Task \cup {NoTask}, armed : BOOLEAN]]
        /\ \A f \in Fd : reg[f].armed => reg[f].ud \in Task
    BY DEF IInv, Types, TypeOK
  <2>2. /\ ArmedFor(t) \in [ud : Task \cup {NoTask}, armed : BOOLEAN] /\ ArmedFor(t).ud = t
        /\ NoReg \in [ud : Task \cup {NoTask}, armed : BOOLEAN] /\ ~NoReg.armed
    BY DEF ArmedFor, NoReg
  <2>3. CASE reg' = reg
    BY <2>1, <2>3
  <2>4. ASSUME NEW r \in {ArmedFor(t), NoReg}, reg' = [reg EXCEPT ![io[t].fd] = r]
        PROVE  /\ reg' \in [Fd -> [ud : Task \cup {NoTask}, armed : BOOLEAN]]
               /\ \A f \in Fd \ {io[t].fd} : reg'[f] = reg[f]
               /\ \A f \in Fd : reg'[f].armed => reg'[f].ud \in Task
    BY <1>3, <2>1, <2>2, <2>4
  <2> QED BY <1>8, <2>3, <2>4
<1>10. displaced' \subseteq Task
  BY <1>6, <1>8 DEF IInv, Types, TypeOK
<1>11. TypeOK'
  BY <1>2, <1>7, <1>9, <1>10 DEF IInv, Types, TypeOK, RtInv, NoWork
<1>12. Types'
  BY <1>2, <1>7, <1>9, <1>11 DEF IInv, Types, WorkOK, NoWork
<1>13. WholeWrite'
  BY <1>2 DEF IInv, WholeWrite, Failed
<1>14. /\ \A u \in Task \ {t} : Named(u)' /\ One(u)' /\ Owns(u)'
       /\ Active(t)' => Holds(t)' /\ Alone(t)'
  <2>1. \/ reg' = reg /\ \A u \in Task \ {t} : u \in displaced' <=> u \in displaced
        \/ /\ io[t].fd \in uses[t]
           /\ \E r \in {NoReg, ArmedFor(t)} : reg' = [reg EXCEPT ![io[t].fd] = r]
           /\ displaced' = displaced \cup Displaced(io[t].fd, t)
    BY <1>4, <1>8
  <2>2. \A u \in Task \ {t} : work'.t = u <=> work.t = u
    BY <1>1, <1>5
  <2>3. Active(t)' <=> Active(t)
    BY <1>2 DEF Active
  <2> QED BY <1>2, <1>7, <1>12, <2>1, <2>2, <2>3, OthersKeep DEF IInv
<1>15. /\ Pending(t)' /\ ~InBatch(t)' /\ ~Finishing(t)' /\ (OthersUse(t)' <=> OthersUse(t))
       /\ pc'[t] # "mod" /\ io'[t] = io[t]
       /\ pc'[t] = "yield" => Running(t)'
       /\ Running(t)' /\ Ready(t)' => pc'[t] = "yield"
  <2>1. pc[t] = "yield" => Running(t)
    BY <1>3 DEF One
  <2> QED BY <1>2, <1>3, <1>5, <1>7, <2>1 DEF Pending, InBatch, Finishing, OthersUse
<1>16. \A f \in Fd : <<f, t>> \notin batch' /\ (f # io[t].fd => ~RegFor(f, t)')
  BY <1>2, <1>3, <1>9 DEF Named, InBatch, RegFor, ArmedFor
<1>17. Kept(t)'
  BY <1>15 DEF Kept
<1>18. /\ t \in displaced' => OthersUse(t)' /\ ~Ready(t)' /\ ~Armed(t)'
       /\ Ready(t)' => ~Armed(t)'
       /\ t \notin displaced' => Armed(t)' \/ Ready(t)'
  <2>1. ArmedFor(t)' = ArmedFor(t) /\ reg[io[t].fd] # ArmedFor(t) /\ NoReg # ArmedFor(t)
    BY <1>3, Registered DEF ArmedFor, Armed, RegFor, IInv
  <2>2. Armed(t)' <=> reg'[io[t].fd] = ArmedFor(t)
    BY <1>15, <2>1 DEF Armed, RegFor
  <2>3. reg[io[t].fd] = NoReg => OthersUse(t)
    BY <1>3, <1>4 DEF Kept
  <2>4. \A r : reg' = [reg EXCEPT ![io[t].fd] = r] => reg'[io[t].fd] = r
    BY <1>3 DEF IInv, Types, TypeOK
  <2> QED BY <1>3, <1>6, <1>7, <1>8, <1>15, <2>1, <2>2, <2>3, <2>4
<1>19. Named(t)'
  BY <1>7, <1>15, <1>16, <1>18 DEF Named
<1>20. One(t)'
  BY <1>15, <1>18 DEF One
<1> QED BY <1>12, <1>13, <1>14, <1>17, <1>19, <1>20 DEF IInv, Waits, Owns

-----------------------------------------------------------------------------
LEMMA InitInv == Init => IInv
<1> SUFFICES ASSUME Init PROVE IInv
  OBVIOUS
<1>1. RtInv /\ \A t \in Task : Ready(t) /\ ~Running(t)
  BY BootRt DEF Init
<1>2. \A t \in Task : io[t] = Unused /\ pc[t] = "user" /\ WholeRec(io[t])
  BY FreshIo DEF Init
<1>3. \A t \in Task : io[t] \in IoRec /\ io[t].offset <= io[t].req_n
  BY <1>2 DEF WholeRec
<1>4. io \in [Task -> IoRec] /\ addrs \in [Task -> 0 .. MaxAddr]
  BY <1>3, NetAssumption, SMTT(30), Z3T(30) DEF Init
<1>5. /\ \A f \in Fd : reg[f] = NoReg /\ ~reg[f].armed
      /\ reg \in [Fd -> [ud : Task \cup {NoTask}, armed : BOOLEAN]]
      /\ work \in [t : Task \cup {NoTask}, ctl : {"none", "mod", "del"}, push : BOOLEAN]
      /\ \A t \in Task : work.t # t
  BY SchedAssumption DEF Init, NoReg, NoWork
<1>6. TypeOK
  BY <1>1, <1>4, <1>5 DEF Init, TypeOK, RtInv, IoRec, Sock
<1>7. Types
  BY <1>1, <1>3, <1>5, <1>6 DEF Init, Types, WorkOK
<1>8. WholeWrite
  BY <1>2 DEF WholeRec, WholeWrite
<1>9. ASSUME NEW t \in Task PROVE Named(t) /\ One(t) /\ Owns(t)
  <2>1. ~Pending(t) /\ ~Active(t) /\ ~Finishing(t) /\ ~InBatch(t) /\ t \notin displaced
    BY <1>2, <1>5 DEF Init, Pending, Active, Finishing, InBatch
  <2>2. \A f \in Fd : ~RegFor(f, t) /\ <<f, t>> \notin batch
    BY <1>5, <1>7, Registered DEF RegFor, Init
  <2>3. ~Armed(t)
    BY <1>3, <2>2 DEF Armed, IoRec
  <2> QED BY <1>1, <1>2, <2>1, <2>2, <2>3 DEF Named, One, Owns
<1> QED BY <1>7, <1>8, <1>9 DEF IInv, Waits

LEMMA NextInv == IInv /\ [Next]_vars => IInv'
<1> SUFFICES ASSUME IInv, [Next]_vars PROVE IInv'
  OBVIOUS
<1>1. ASSUME NEW t \in Task, Step(t) PROVE IInv'
  BY <1>1, SafePointInv, CallInv, CallDialInv, DialInv, AddInv, ModInv, YieldInv, ResumeInv,
     FinishInv DEF Step
<1>2. CASE UNCHANGED vars
  <2>1. UNCHANGED rtVars /\ UNCHANGED <<pc, io, reg, batch, work, displaced, sock>>
    BY <1>2 DEF vars, netVars, taskVars, pollVars, sockVars, workerVars
  <2>2. RtInv' /\ \A u \in Task : (Running(u)' <=> Running(u)) /\ (Ready(u)' <=> Ready(u))
    BY <2>1, IdleRt DEF IInv, Types
  <2>3. Types'
    BY <1>2, <2>1, <2>2
       DEF vars, netVars, taskVars, pollVars, sockVars, IInv, Types, TypeOK, RtInv, WorkOK, NoWork
  <2>4. WholeWrite'
    BY <2>1 DEF IInv, WholeWrite, Failed
  <2>5. Waits'
    BY <2>1, <2>2, <2>3, QuietKeeps DEF IInv
  <2> QED BY <2>3, <2>4, <2>5 DEF IInv
<1> QED BY <1>1, <1>2, HandlesInv, CreatePollerInv, WaitInv, CompleteInv, PeerInv, DispatchInv,
           TimerInv DEF Next, Stopped

LEMMA Invariance ==
  Spec => []IInv
<1>1. Init => IInv
  BY InitInv
<1>2. IInv /\ [Next]_vars => IInv'
  BY NextInv
<1> QED BY <1>1, <1>2, PTL DEF Spec

(* A waiting task of NetIO is held in exactly one place that leads back to  *)
(* its ready queue, and no place names a task that does not wait, however   *)
(* many tasks, threads and descriptors there are and however the tasks      *)
(* share them; a displaced task shares its descriptor with another one.     *)
THEOREM WaitersHaveOneWaker == Spec => []OneWaker
<1>1. IInv => OneWaker
  <2> SUFFICES ASSUME IInv, NEW t \in Task
               PROVE  /\ t \in displaced => /\ Pending(t) /\ Wakers(t) = {}
                                            /\ \E u \in Task \ {t} : io[t].fd \in uses[u]
                      /\ Pending(t) /\ t \notin displaced =>
                           /\ Cardinality(Wakers(t)) = 1
                           /\ \A w \in Wakers(t) : w[2] = io[t].fd
                      /\ ~Pending(t) /\ t \notin displaced => \A w \in Wakers(t) : w[1] = "ready"
    BY DEF OneWaker, IInv, Types
  <2>0. Named(t) /\ One(t) /\ io[t].fd \in Fd /\ batch \subseteq Fd \X Task
    BY DEF IInv, Waits, Types, TypeOK
  <2>1. \A f \in Fd : RegFor(f, t) <=> f = io[t].fd /\ Armed(t)
    BY <2>0 DEF Named, Armed
  <2>2. \A e \in batch : e[2] = t <=> e = <<io[t].fd, t>> /\ InBatch(t)
    BY <2>0, SMTT(30), Z3T(30) DEF Named, InBatch
  <2>3. Wakers(t) = (IF Armed(t) THEN {<<"armed", io[t].fd>>} ELSE {})
                      \cup (IF InBatch(t) THEN {<<"fetched", io[t].fd>>} ELSE {})
                      \cup (IF Finishing(t) THEN {<<"finishing", io[t].fd>>} ELSE {})
                      \cup (IF Ready(t) THEN {<<"ready", io[t].fd>>} ELSE {})
    <3>1. {<<"armed", f>> : f \in {g \in Fd : reg[g] = ArmedFor(t)}}
            = IF Armed(t) THEN {<<"armed", io[t].fd>>} ELSE {}
      BY <2>0, <2>1 DEF RegFor
    <3>2. {<<"fetched", e[1]>> : e \in {e \in batch : e[2] = t}}
            = IF InBatch(t) THEN {<<"fetched", io[t].fd>>} ELSE {}
      <4>1. CASE InBatch(t)
        <5>1. {e \in batch : e[2] = t} = {<<io[t].fd, t>>}
          BY <2>2, <4>1 DEF InBatch
        <5>2. <<io[t].fd, t>>[1] = io[t].fd
          BY SMTT(30), Z3T(30)
        <5>3. {<<"fetched", e[1]>> : e \in {<<io[t].fd, t>>}} = {<<"fetched", io[t].fd>>}
          BY <5>2
        <5> QED BY <4>1, <5>1, <5>3
      <4>2. CASE ~InBatch(t)
        <5>1. {e \in batch : e[2] = t} = {}
          BY <2>2, <4>2
        <5> QED BY <4>2, <5>1
      <4> QED BY <4>1, <4>2
    <3> QED BY <3>1, <3>2 DEF Wakers, Finishing
  <2>4. CASE t \in displaced
    BY <2>0, <2>3, <2>4 DEF Named, One, OthersUse
  <2>5. CASE ~Pending(t) /\ t \notin displaced
    BY <2>0, <2>3, <2>5, SMTT(30), Z3T(30) DEF Named
  <2>6. CASE Pending(t) /\ t \notin displaced
    <3>1. PICK s \in {"armed", "fetched", "finishing", "ready"} : Wakers(t) = {<<s, io[t].fd>>}
      BY <2>0, <2>3, <2>6 DEF Named, One
    <3>2. Cardinality({<<s, io[t].fd>>}) = 1
      BY FS_Singleton
    <3>3. <<s, io[t].fd>>[2] = io[t].fd
      BY SMTT(30), Z3T(30)
    <3> QED BY <2>6, <3>1, <3>2, <3>3
  <2> QED BY <2>4, <2>5, <2>6
<1> QED BY <1>1, Invariance, PTL

(* A net_write that returns without an error has written all it was asked   *)
(* to, and a net_read no more, for every size of a request.                 *)
THEOREM WritesAreWhole == Spec => []WholeWrite
<1>1. IInv => WholeWrite
  BY DEF IInv
<1> QED BY <1>1, Invariance, PTL
=============================================================================
