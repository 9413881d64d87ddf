------------------------------- MODULE Environ -------------------------------
(***************************************************************************)
(* getenv, setenv and unsetenv of the os library (linux/os.c) over the     *)
(* environ vector, which all threads share and no lock protects.  A call   *)
(* looks at one entry per step.  The vector and the entries in it at the   *)
(* start lie on the initial stack of the process: realloc of the one and   *)
(* free of the others end the process.                                     *)
(***************************************************************************)
EXTENDS Naturals, Sequences, Functions

CONSTANTS User,          \* the scheduler threads
          Key,           \* the names of variables
          Inherited,     \* the names in the environment at the start, a sequence
          MaxEntry,      \* bound: the buffers setenv may use
          NoEntry        \* NULL

ASSUME EnvironAssumption ==
  /\ Inherited \in Seq(Key) /\ IsInjective(Inherited)
  /\ MaxEntry \in Nat /\ MaxEntry >= Len(Inherited) /\ NoEntry \notin Nat

VARIABLES environ,       \* the vector, closed by NULL
          name,          \* the name in each entry handed out so far
          freed,         \* the entries given back to malloc
          call,          \* the call each thread is in, or has the result of
          overlapped     \* history: an unsetenv ran beside another call

environVars == <<environ, name, freed, call, overlapped>>

AtStart == 1..Len(Inherited)
NoCall == [op |-> "none", key |-> NoEntry, at |-> 0, pc |-> "idle"]

EnvironInit ==
  /\ environ = [i \in 1..(Len(Inherited) + 1) |-> IF i \in AtStart THEN i ELSE NoEntry]
  /\ name = Inherited
  /\ freed = {} /\ overlapped = FALSE
  /\ call = [u \in User |-> NoCall]
-----------------------------------------------------------------------------
Aborted == \E u \in User : call[u].pc = "abort"
Removing(u) == call[u].pc = "shift"
Others(u) == {v \in User \ {u} : call[v].pc # "idle"}

Enter(u, op, k) ==
  /\ ~Aborted /\ call[u].pc \notin {"scan", "shift"}
  /\ call' = [call EXCEPT ![u] = [op |-> op, key |-> k, at |-> 1, pc |-> "scan"]]
  /\ overlapped' = (overlapped \/ \E v \in Others(u) : Removing(v))
  /\ UNCHANGED <<environ, name, freed>>

(* The entry a call looks at.  An entry that was freed may have any        *)
(* contents by now.                                                        *)
Looks(u, op) == ~Aborted /\ call[u].op = op /\ call[u].pc = "scan"
Entry(u) == environ[call[u].at]
Ended(u) == Entry(u) = NoEntry
Matches(u) == ~Ended(u) /\ (name[Entry(u)] = call[u].key \/ Entry(u) \in freed)
Differs(u) == ~Ended(u) /\ (name[Entry(u)] # call[u].key \/ Entry(u) \in freed)

Goes(u, i, pc) ==
  call' = [call EXCEPT ![u] = [op |-> call[u].op, key |-> call[u].key, at |-> i, pc |-> pc]]
To(u, pc) == Goes(u, call[u].at, pc)

Onward(u) ==
  /\ Differs(u) /\ Goes(u, call[u].at + 1, "scan")
  /\ UNCHANGED <<environ, name, freed, overlapped>>

(* getenv returns a pointer into the entry it finds. *)
getenv(u) ==
  /\ Looks(u, "get")
  /\ \/ Onward(u)
     \/ /\ Matches(u) /\ Goes(u, Entry(u), "found")
        /\ UNCHANGED <<environ, name, freed, overlapped>>
     \/ Ended(u) /\ To(u, "missed") /\ UNCHANGED <<environ, name, freed, overlapped>>

(* setenv puts a new entry in the place of the old one, which it does not   *)
(* free.  For a new name it calls realloc on the vector.  setenv without    *)
(* overwrite is a getenv that may be followed by this call.                 *)
setenv(u) ==
  /\ Looks(u, "set")
  /\ \/ Onward(u)
     \/ /\ Matches(u) /\ Len(name) < MaxEntry
        /\ name' = Append(name, call[u].key)
        /\ environ' = [environ EXCEPT ![call[u].at] = Len(name')]
        /\ To(u, "idle") /\ UNCHANGED <<freed, overlapped>>
     \/ Ended(u) /\ To(u, "abort") /\ UNCHANGED <<environ, name, freed, overlapped>>

(* unsetenv frees the entry, then moves the rest of the vector down. *)
RemoveFrom(u, first) ==
  LET b == Entry(u) IN
  /\ Matches(u)
  /\ IF b \in AtStart \cup freed
       THEN To(u, "abort") /\ UNCHANGED freed
       ELSE Goes(u, first, "shift") /\ freed' = freed \cup {b}
  /\ overlapped' = (overlapped \/ Others(u) # {})
  /\ UNCHANGED <<environ, name>>

(* A defect to test against: the entry itself is left in the vector. *)
RemoveLate(u) == RemoveFrom(u, call[u].at + 1)

RemoveFound(u) == RemoveFrom(u, call[u].at)

unsetenv(u) ==
  /\ Looks(u, "unset")
  /\ Onward(u) \/ RemoveFound(u) \/ (Ended(u) /\ To(u, "idle") /\ UNCHANGED <<environ, name, freed, overlapped>>)

Shift(u) ==
  /\ ~Aborted /\ Removing(u)
  /\ IF Ended(u)
       THEN To(u, "idle") /\ UNCHANGED environ
       ELSE /\ environ' = [environ EXCEPT ![call[u].at] = environ[call[u].at + 1]]
            /\ Goes(u, call[u].at + 1, "shift")
  /\ UNCHANGED <<name, freed, overlapped>>

EnvironNext ==
  \E u \in User :
    \/ \E op \in {"get", "set", "unset"}, k \in Key : Enter(u, op, k)
    \/ getenv(u) \/ setenv(u) \/ unsetenv(u) \/ Shift(u)

EnvironSpec == EnvironInit /\ [][EnvironNext]_environVars
-----------------------------------------------------------------------------
Listed == {environ[i] : i \in DOMAIN environ} \ {NoEntry}
Present == {name[b] : b \in Listed}

(* The calls are right unless an unsetenv ran beside another call: getenv   *)
(* misses only names that are not there (os.c:137), a pointer it returned   *)
(* is into a live entry, setenv and unsetenv leave every other name where   *)
(* it is and one entry per name (os.c:163, 195), and the process dies only  *)
(* in setenv of a new name or unsetenv of an inherited entry.               *)
EnvironAgrees ==
  ~overlapped =>
    /\ \A u \in User :
         /\ call[u].pc = "missed" => call[u].key \notin Present
         /\ call[u].pc = "found" => call[u].at \notin freed
         /\ call[u].pc = "abort" =>
              IF call[u].op = "set" THEN call[u].key \notin Present ELSE Entry(u) \in AtStart
    /\ (\A u \in User : ~Removing(u)) =>
         /\ Listed \cap freed = {} /\ \A b, c \in Listed : name[b] = name[c] => b = c
         /\ \A k \in {Inherited[i] : i \in AtStart} \ Present :
              \E b \in freed : name[b] = k
=============================================================================
