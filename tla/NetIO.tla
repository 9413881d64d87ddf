------------------------------- MODULE NetIO -------------------------------
(***************************************************************************)
(* Asynchronous sockets: net_accept, net_read, net_write and net_dial of   *)
(* runtime/src/netio.c, the one netio_worker thread that serves them, and  *)
(* the epoll registrations between the two.  A task fills in t->io,        *)
(* registers its descriptor one-shot, and yields; the worker performs the  *)
(* operation when the descriptor is ready and makes the task ready again.  *)
(* Each system call on a registration is a step.  Sockets are external:    *)
(* readiness and the outcome of a call are free choices, except that a     *)
(* connection in progress is not ready, and that reading SO_ERROR clears   *)
(* it.  Bytes are counted, not modelled.                                   *)
(***************************************************************************)
EXTENDS TaskRuntime, FiniteSets, Integers

CONSTANTS Fd,            \* descriptors
          uses,          \* uses[t]: the descriptors task t works with
          Listening,     \* the ones on which net_listen has succeeded
          ReqSize,       \* how many bytes a call asks to read or write
          MaxAddr        \* the most addresses getaddrinfo returns

ASSUME NetAssumption ==
  /\ uses \in [Task -> SUBSET Fd]
  /\ Fd # {} /\ Listening \subseteq Fd
  /\ ReqSize \in Nat \ {0} /\ MaxAddr \in Nat \ {0}

VARIABLES pc,            \* where each task is in its code
          io,            \* task_t.io
          addrs,         \* addresses net_dial has still to try
          wait_q,        \* the tasks in the wait queues of their threads
          netpoller,     \* whether the global netpoller is set
          aborted,       \* an assertion of the runtime has failed
          reg,           \* epoll: the registration of each descriptor
          sock,          \* kernel: the state of each socket
          so_error,      \* kernel: a pending SO_ERROR
          batch,         \* events fetched by the worker, not yet looked at
          work,          \* the event the worker is finishing
          displaced      \* history: tasks that lost their registration to others

taskVars == <<pc, io, addrs, wait_q, aborted>>
pollVars == <<netpoller, reg, displaced>>
sockVars == <<sock, so_error>>
workerVars == <<batch, work>>
netVars == <<taskVars, pollVars, sockVars, workerVars>>
vars == <<rtVars, netVars>>

Failed == -1
NoReg == [ud |-> NoTask, armed |-> FALSE]
ArmedFor(t) == [ud |-> t, armed |-> TRUE]
NoWork == [t |-> NoTask, ctl |-> "none", push |-> FALSE]

Op == {"accept", "read", "write", "connect"}
Sock == {"closed", "listening", "connecting", "connected", "broken"}
Io(op, f, n) == [op |-> op, fd |-> f, req_n |-> n, offset |-> 0, done_n |-> 0, io_done |-> FALSE]

Unused == Io("accept", CHOOSE f \in Fd : TRUE, 0)

Init ==
  /\ RtInit
  /\ pc = [t \in Task |-> "user"]
  /\ io = [t \in Task |-> Unused]
  /\ addrs = [t \in Task |-> 0]
  /\ wait_q = {}
  /\ netpoller = FALSE
  /\ aborted = FALSE
  /\ reg = [f \in Fd |-> NoReg]
  /\ displaced = {}
  /\ sock = [f \in Fd |-> IF f \in Listening THEN "listening" ELSE "closed"]
  /\ so_error = [f \in Fd |-> FALSE]
  /\ batch = {}
  /\ work = NoWork

Goto(t, l) == pc' = [pc EXCEPT ![t] = l]
At(t, l) == ~aborted /\ Running(t) /\ pc[t] = l

(* The call returns, and its local variables are gone; what it leaves in   *)
(* t->io is written again before it is read.                               *)
Return(t) ==
  Goto(t, "user") /\ addrs' = [addrs EXCEPT ![t] = 0] /\ io' = [io EXCEPT ![t] = Unused]

-----------------------------------------------------------------------------
(* The safepoint generated before a call. *)
SafePoint(t) ==
  /\ At(t, "user")
  /\ SelfYield(t)
  /\ Goto(t, "call")
  /\ UNCHANGED <<io, addrs, wait_q, aborted, pollVars, sockVars, workerVars>>

(* The call that makes a descriptor has not returned it yet. *)
Unreturned(t, f) ==
  \E u \in Task \ {t} : io[u].done_n = f \/ (io[u].op = "connect" /\ io[u].fd = f)

(* The head of net_accept, net_read and net_write: t->io is filled in. *)
Call(t) ==
  /\ At(t, "call")
  /\ \E f \in {g \in uses[t] : ~Unreturned(t, g)} :
       \/ sock[f] = "listening" /\ io' = [io EXCEPT ![t] = Io("accept", f, 0)]
       \/ /\ sock[f] \in {"connected", "broken"}
          /\ \E op \in {"read", "write"} : io' = [io EXCEPT ![t] = Io(op, f, ReqSize)]
  /\ Goto(t, "add")
  /\ UNCHANGED <<rtVars, addrs, wait_q, aborted, pollVars, sockVars, workerVars>>

(* The head of net_dial: getaddrinfo fails or returns some addresses. *)
CallDial(t) ==
  /\ At(t, "call")
  /\ \/ Return(t)
     \/ /\ \E n \in 1 .. MaxAddr : addrs' = [addrs EXCEPT ![t] = n]
        /\ Goto(t, "dial") /\ UNCHANGED io
  /\ UNCHANGED <<rtVars, wait_q, aborted, pollVars, sockVars, workerVars>>

(* One turn of the loop over the addresses: no socket, or a call on it     *)
(* fails and it is closed again, or it is connected at once, or the        *)
(* connection is in progress and the task registers to wait for it.        *)
Dial(t) ==
  /\ At(t, "dial")
  /\ \/ addrs[t] = 0 /\ Return(t) /\ UNCHANGED sock
     \/ /\ addrs[t] > 0
        /\ addrs' = [addrs EXCEPT ![t] = @ - 1]
        /\ UNCHANGED <<pc, io, sock>>
     \/ /\ addrs[t] > 0
        /\ \E f \in uses[t] :
             /\ sock[f] = "closed"
             /\ \/ sock' = [sock EXCEPT ![f] = "connected"] /\ Return(t)
                \/ /\ sock' = [sock EXCEPT ![f] = "connecting"]
                   /\ io' = [io EXCEPT ![t] = Io("connect", f, 0)]
                   /\ addrs' = [addrs EXCEPT ![t] = @ - 1]
                   /\ Goto(t, "add")
  /\ UNCHANGED <<rtVars, wait_q, aborted, pollVars, so_error, workerVars>>

(* close(2) takes the registration of the descriptor with it. *)
Close(f) ==
  /\ sock' = [sock EXCEPT ![f] = "closed"]
  /\ so_error' = [so_error EXCEPT ![f] = FALSE]
  /\ reg' = [reg EXCEPT ![f] = NoReg]

(* The error exit of a registration: -1, or for net_dial the next address. *)
AddFailed(t) ==
  \/ io[t].op = "connect" /\ Close(io[t].fd) /\ Goto(t, "dial") /\ UNCHANGED <<io, addrs>>
  \/ io[t].op # "connect" /\ Return(t) /\ UNCHANGED <<sockVars, reg>>

(* netpoll_add: its assertion that there is a poller, EPOLL_CTL_ADD, and    *)
(* what its callers make of EEXIST and of another error.                   *)
Add(t) ==
  /\ At(t, "add")
  /\ \/ /\ ~netpoller
        /\ aborted' = TRUE
        /\ UNCHANGED <<pc, io, addrs, reg, sockVars>>
     \/ /\ netpoller
        /\ \/ /\ reg[io[t].fd] = NoReg
              /\ reg' = [reg EXCEPT ![io[t].fd] = ArmedFor(t)]
              /\ Goto(t, "yield")
              /\ UNCHANGED <<io, addrs, sockVars>>
           \/ /\ reg[io[t].fd] # NoReg
              /\ Goto(t, "mod")
              /\ UNCHANGED <<io, addrs, reg, sockVars>>
           \/ AddFailed(t)
        /\ UNCHANGED aborted
  /\ UNCHANGED <<rtVars, wait_q, netpoller, displaced, workerVars>>

(* Variant: the registration is not re-armed. *)
NetpollModNone(f, t) == UNCHANGED <<reg, displaced>>

(* The other task that waits on the registration of a descriptor. *)
Displaced(f, t) == IF reg[f].armed THEN {reg[f].ud} \ {t} ELSE {}

(* netpoll_mod re-arms a registration for t, whoever it was armed for; with *)
(* none, it fails, and no caller looks at its result.                      *)
NetpollMod(f, t) ==
  IF reg[f] = NoReg
  THEN displaced' = displaced \cup {t} /\ UNCHANGED reg
  ELSE displaced' = displaced \cup Displaced(f, t) /\ reg' = [reg EXCEPT ![f] = ArmedFor(t)]

Mod(t) ==
  /\ At(t, "mod")
  /\ NetpollMod(io[t].fd, t)
  /\ Goto(t, "yield")
  /\ UNCHANGED <<rtVars, io, addrs, wait_q, aborted, netpoller, sockVars, workerVars>>

(* unsafe_ioq_push on the wait queue of the task's own thread, task_yield. *)
Yield(t) ==
  /\ At(t, "yield")
  /\ wait_q' = wait_q \cup {t}
  /\ TaskYield(t)
  /\ Goto(t, "resume")
  /\ UNCHANGED <<ready_q, preempt, io, addrs, aborted, pollVars, sockVars, workerVars>>

(* Back from task_yield: return done_n; net_dial asks for SO_ERROR again.  *)
Resume(t) ==
  /\ At(t, "resume")
  /\ IF io[t].op = "connect" /\ so_error[io[t].fd]
     THEN Close(io[t].fd) /\ Goto(t, "dial") /\ UNCHANGED <<io, addrs>>
     ELSE Return(t) /\ UNCHANGED <<reg, sockVars>>
  /\ UNCHANGED <<rtVars, wait_q, aborted, netpoller, displaced, workerVars>>

(* The task function returns. *)
Finish(t) ==
  /\ At(t, "user")
  /\ TaskYield(t)
  /\ Goto(t, "done")
  /\ UNCHANGED <<ready_q, preempt, io, addrs, wait_q, aborted, pollVars, sockVars, workerVars>>
-----------------------------------------------------------------------------
(* netio_worker creates the poller when it comes to run. *)
CreatePoller ==
  /\ ~aborted /\ ~netpoller
  /\ netpoller' = TRUE
  /\ UNCHANGED <<rtVars, taskVars, reg, displaced, sockVars, workerVars>>

(* netpoll_wait: some armed descriptors are ready, and are disarmed.       *)
Wait ==
  /\ ~aborted /\ netpoller /\ batch = {} /\ work = NoWork
  /\ \E S \in SUBSET {f \in Fd : reg[f].armed /\ sock[f] # "connecting"} :
       /\ S # {}
       /\ batch' = {<<f, reg[f].ud>> : f \in S}
       /\ reg' = [f \in Fd |-> IF f \in S THEN [reg[f] EXCEPT !.armed = FALSE] ELSE reg[f]]
  /\ UNCHANGED <<rtVars, taskVars, netpoller, displaced, sockVars, work>>

Fetched(t) == ~aborted /\ work = NoWork /\ \E f \in Fd : <<f, t>> \in batch

(* What remains to be done of an event: an epoll call, and the wake-up.    *)
Then(t, ctl, push) ==
  /\ work' = [t |-> t, ctl |-> ctl, push |-> push]
  /\ batch' = {e \in batch : e[2] # t}

Set(t, n) == io' = [io EXCEPT ![t] = [@ EXCEPT !.done_n = n, !.io_done = TRUE]]
Progress(t, n, done) ==
  LET moved == io[t].offset + n
  IN io' = [io EXCEPT ![t] = [@ EXCEPT !.offset = moved, !.done_n = moved, !.io_done = done]]

(* IO_CONNECT: getsockopt reads SO_ERROR, which clears it. *)
HandleConnect(t) ==
  /\ Fetched(t) /\ io[t].op = "connect"
  /\ so_error' = [so_error EXCEPT ![io[t].fd] = FALSE]
  /\ IF so_error[io[t].fd] THEN Set(t, Failed) /\ Then(t, "del", TRUE)
                           ELSE Set(t, io[t].fd) /\ Then(t, "none", TRUE)
  /\ UNCHANGED <<rtVars, pc, addrs, wait_q, aborted, pollVars, sock>>

(* IO_ACCEPT: a connection, EAGAIN, or another error. *)
HandleAccept(t) ==
  /\ Fetched(t) /\ io[t].op = "accept"
  /\ \/ \E f \in uses[t] :
          /\ sock[f] = "closed"
          /\ sock' = [sock EXCEPT ![f] = "connected"]
          /\ Set(t, f) /\ Then(t, "none", TRUE)
     \/ Then(t, "mod", FALSE) /\ UNCHANGED <<io, sock>>
     \/ Set(t, Failed) /\ Then(t, "none", TRUE) /\ UNCHANGED sock
  /\ UNCHANGED <<rtVars, pc, addrs, wait_q, aborted, pollVars, so_error>>

(* IO_READ: some bytes, the peer has closed, EAGAIN, or another error. *)
HandleRead(t) ==
  /\ Fetched(t) /\ io[t].op = "read"
  /\ \/ /\ sock[io[t].fd] = "connected"
        /\ \E r \in 1 .. (io[t].req_n - io[t].offset) : Progress(t, r, TRUE)
        /\ Then(t, "none", TRUE)
     \/ Progress(t, 0, TRUE) /\ Then(t, "del", TRUE)
     \/ Then(t, "mod", FALSE) /\ UNCHANGED io
     \/ Set(t, Failed) /\ Then(t, "del", TRUE)
  /\ UNCHANGED <<rtVars, pc, addrs, wait_q, aborted, pollVars, sockVars>>

(* Variant: a partial write completes the operation. *)
HandleWriteOnce(t) ==
  /\ Fetched(t) /\ io[t].op = "write"
  /\ \/ Then(t, "mod", FALSE) /\ UNCHANGED io
     \/ Set(t, Failed) /\ Then(t, "del", TRUE)
     \/ /\ \E w \in 0 .. (io[t].req_n - io[t].offset) : Progress(t, w, TRUE)
        /\ Then(t, "none", TRUE)
  /\ UNCHANGED <<rtVars, pc, addrs, wait_q, aborted, pollVars, sockVars>>

(* IO_WRITE: EAGAIN, another error, or w bytes, and again until all are    *)
(* written.                                                                *)
HandleWrite(t) ==
  /\ Fetched(t) /\ io[t].op = "write"
  /\ \/ Then(t, "mod", FALSE) /\ UNCHANGED io
     \/ Set(t, Failed) /\ Then(t, "del", TRUE)
     \/ /\ sock[io[t].fd] = "connected"
        /\ \E w \in 0 .. (io[t].req_n - io[t].offset) :
             LET all == io[t].offset + w = io[t].req_n
             IN Progress(t, w, all) /\ (IF all THEN Then(t, "none", TRUE) ELSE Then(t, "mod", FALSE))
  /\ UNCHANGED <<rtVars, pc, addrs, wait_q, aborted, pollVars, sockVars>>

(* Variant: the task is not put back in its ready queue. *)
CompleteNoPush ==
  /\ ~aborted /\ work # NoWork
  /\ work' = NoWork
  /\ UNCHANGED <<rtVars, taskVars, pollVars, sockVars, batch>>

(* The end of a case: netpoll_mod or netpoll_del, and safe_q_push. *)
Complete ==
  /\ ~aborted /\ work # NoWork
  /\ LET f == io[work.t].fd
     IN \/ work.ctl = "none" /\ UNCHANGED <<reg, displaced>>
        \/ work.ctl = "mod" /\ NetpollMod(f, work.t)
        \/ /\ work.ctl = "del"
           /\ reg' = [reg EXCEPT ![f] = NoReg]
           /\ displaced' = displaced \cup Displaced(f, work.t)
  /\ IF work.push THEN MakeReady(work.t) ELSE UNCHANGED ready_q
  /\ work' = NoWork
  /\ UNCHANGED <<current, preempt, taskVars, netpoller, sockVars, batch>>

Handle(t) == HandleConnect(t) \/ HandleAccept(t) \/ HandleRead(t) \/ HandleWrite(t)

(* The peer: a connection in progress is made or refused, and an           *)
(* established one may be reset.                                           *)
Peer(f) ==
  /\ ~aborted /\ sock[f] \in {"connecting", "connected"}
  /\ \/ /\ sock[f] = "connecting"
        /\ sock' = [sock EXCEPT ![f] = "connected"]
        /\ UNCHANGED so_error
     \/ /\ sock' = [sock EXCEPT ![f] = "broken"]
        /\ so_error' = [so_error EXCEPT ![f] = TRUE]
  /\ UNCHANGED <<rtVars, taskVars, pollVars, workerVars>>

(* scheduler_run, which takes the task off the wait queue, and the timer.  *)
SchedDispatch(k) ==
  /\ ~aborted
  /\ Dispatch(k)
  /\ wait_q' = wait_q \ {Head(ready_q[k])}
  /\ UNCHANGED <<pc, io, addrs, aborted, pollVars, sockVars, workerVars>>

SchedTimer(k) == ~aborted /\ ForcePreempt(k) /\ UNCHANGED netVars

Step(t) ==
  \/ SafePoint(t) \/ Call(t) \/ CallDial(t) \/ Dial(t) \/ Add(t) \/ Mod(t)
  \/ Yield(t) \/ Resume(t) \/ Finish(t)

(* The program has aborted, or all tasks are done or wait for nothing. *)
Stopped ==
  /\ aborted \/ \A t \in Task : pc[t] = "done" \/ (t \in displaced /\ ~Running(t))
  /\ UNCHANGED vars

Next ==
  \/ \E t \in Task : Step(t) \/ Handle(t)
  \/ CreatePoller \/ Wait \/ Complete
  \/ \E f \in Fd : Peer(f)
  \/ \E k \in Thread : SchedDispatch(k) \/ SchedTimer(k)
  \/ Stopped

Spec == Init /\ [][Next]_vars

(* Tasks, kernel threads, the timer and the worker run; nothing is assumed *)
(* of the peers.                                                           *)
Fairness ==
  /\ \A t \in Task : WF_vars(Step(t)) /\ WF_vars(Handle(t))
  /\ WF_vars(Complete)
  /\ \A k \in Thread : WF_vars(SchedDispatch(k)) /\ WF_vars(SchedTimer(k))

FairSpec == Spec /\ Fairness
-----------------------------------------------------------------------------
TypeOK ==
  /\ RtTypeOK
  /\ pc \in [Task -> {"user", "call", "dial", "add", "mod", "yield", "resume", "done"}]
  /\ io \in [Task -> [op : Op, fd : Fd, req_n : 0 .. ReqSize, offset : 0 .. ReqSize,
                      done_n : 0 .. ReqSize \cup Fd \cup {Failed}, io_done : BOOLEAN]]
  /\ addrs \in [Task -> 0 .. MaxAddr]
  /\ wait_q \subseteq Task
  /\ netpoller \in BOOLEAN /\ aborted \in BOOLEAN
  /\ reg \in [Fd -> [ud : Task \cup {NoTask}, armed : BOOLEAN]]
  /\ sock \in [Fd -> Sock] /\ so_error \in [Fd -> BOOLEAN]
  /\ batch \subseteq Fd \X Task /\ displaced \subseteq Task
  /\ work \in [t : Task \cup {NoTask}, ctl : {"none", "mod", "del"}, push : BOOLEAN]

(* The task has handed its operation over and has not been resumed. *)
Pending(t) == pc[t] = "yield" \/ (pc[t] = "resume" /\ ~Running(t))

(* What can still resume it, or do its operation. *)
Wakers(t) ==
  {<<"armed", f>> : f \in {g \in Fd : reg[g] = ArmedFor(t)}}
    \cup {<<"fetched", e[1]>> : e \in {e \in batch : e[2] = t}}
    \cup (IF work.t = t THEN {<<"finishing", io[t].fd>>} ELSE {})
    \cup (IF Ready(t) THEN {<<"ready", io[t].fd>>} ELSE {})

(* A task whose call has registered its descriptor is held in exactly one  *)
(* place that leads back to its ready queue, and for that descriptor, even *)
(* when the worker is faster than the task's own task_yield: it is neither *)
(* forgotten nor resumed twice.  The task pointer kept by epoll is used    *)
(* only while the task waits: no armed registration and no event in the    *)
(* worker's hands names a task that runs, was resumed or has finished (and *)
(* may have been freed).  But tasks may share a descriptor, and the poller *)
(* keeps one task for it: when another task re-arms it, when the worker    *)
(* re-arms or deletes it for another task's event, or when a deletion gets *)
(* between netpoll_add and netpoll_mod, the task waits for nothing, for    *)
(* good.  That happens to no task with its descriptors to itself.          *)
OneWaker ==
  TypeOK /\ \A t \in Task :
    CASE t \in displaced -> Pending(t) /\ Wakers(t) = {} /\ \E u \in Task \ {t} : io[t].fd \in uses[u]
      [] Pending(t) /\ t \notin displaced ->
           Cardinality(Wakers(t)) = 1 /\ \A w \in Wakers(t) : w[2] = io[t].fd
      [] OTHER -> \A w \in Wakers(t) : w[1] = "ready"

(* A net_write that returns without an error has written every byte, over  *)
(* however many partial writes; a net_read never more than asked for.      *)
WholeWrite ==
  \A t \in Task : io[t].io_done /\ io[t].done_n # Failed =>
    /\ io[t].op = "write" => io[t].done_n = io[t].req_n
    /\ io[t].op = "read" => io[t].done_n \in 0 .. io[t].req_n

(* Once the worker has completed an operation, its task returns from it,   *)
(* unless the program aborts.                                              *)
CompletionReturns ==
  \A t \in Task : (io[t].io_done /\ pc[t] = "resume") ~> (pc[t] # "resume" \/ aborted)

=============================================================================
