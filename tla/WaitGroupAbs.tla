---------------------------- MODULE WaitGroupAbs ----------------------------
(***************************************************************************)
(* What a wait group promises (runtime/headers/sync.h): a wait returns only *)
(* when no task owes a done, and it does return once that stays so.         *)
(***************************************************************************)
CONSTANT Task

VARIABLES pending,       \* tasks added for that have not called done
          waiting        \* tasks inside waitgroup_wait

vars == <<pending, waiting>>

Init == pending = {} /\ waiting = {}

Add(S) == S \cap pending = {} /\ pending' = pending \cup S /\ UNCHANGED waiting

Done(t) == t \in pending /\ pending' = pending \ {t} /\ UNCHANGED waiting

Wait(t) == t \notin waiting /\ waiting' = waiting \cup {t} /\ UNCHANGED pending

Return(t) ==
  /\ t \in waiting
  /\ pending = {}
  /\ waiting' = waiting \ {t}
  /\ UNCHANGED pending

Next ==
  \/ \E S \in SUBSET Task : Add(S)
  \/ \E t \in Task : Done(t) \/ Wait(t) \/ Return(t)

Safety == Init /\ [][Next]_vars

Spec == Safety /\ \A t \in Task : WF_vars(Return(t))
=============================================================================
