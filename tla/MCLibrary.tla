------------------------------ MODULE MCLibrary ------------------------------
(***************************************************************************)
(* Instances of the parts of the runtime and of its tools that do not      *)
(* share state with each other.  A behaviour is about one of them, its     *)
(* focus; the others stay in their initial states.                         *)
(***************************************************************************)
EXTENDS Startup, Atomics, Futex, Text, Arrays, SyncIO, Environ, Build,
        Parser, Bitwise, TLC

VARIABLE focus

CONSTANTS f1, f2, f3, k1, k2

(* Two tasks share a thread, a third has one to itself. *)
MCPin == f1 :> k1 @@ f2 :> k1 @@ f3 :> k2

(* The operations on words of up to three bits. *)
MCAnd == [x \in 0..7 |-> [y \in 0..7 |-> x & y]]
MCOr == [x \in 0..7 |-> [y \in 0..7 |-> x | y]]
MCXor == [x \in 0..7 |-> [y \in 0..7 |-> x ^^ y]]

MCTexts == {<<>>, <<"a">>}
MCContent == <<1, 2, 1>>
MCInherited == <<"p", "q">>

(* start imports a, which imports b; edits may cut and join these. *)
MCProject ==
  "start" :> [time |-> 1, imports |-> {"a"}]
  @@ "a" :> [time |-> 1, imports |-> {"b"}]
  @@ "b" :> [time |-> 1, imports |-> {}]
MCImports ==
  "start" :> {{}, {"a"}} @@ "a" :> {{}, {"b"}} @@ "b" :> {{}}

(* Widths and precisions in the proportions of the real ones: a double does *)
(* not hold every 64-bit integer, a half float not every 16-bit one.        *)
Exprs == INSTANCE Expressions
           WITH W8 <- 2, W16 <- 3, W32 <- 4, W64 <- 6,
                P16 <- 2, P32 <- 3, P64 <- 4, E16 <- 3, E32 <- 8, E64 <- 9

Parts == {"startup", "atomics", "futex", "text", "arrays", "syncio", "environ", "build"}

LibraryInit ==
  /\ focus \in Parts
  /\ StartupInit /\ AtomicsInit /\ FutexInit /\ TextInit
  /\ ArraysInit /\ SyncInit /\ EnvironInit /\ BuildInit
  /\ focus = "atomics" \/ cellType = "int"

memoryVars == <<startVars, atomicVars, futexVars>>
dataVars == <<textVars, arrayVars, syncVars>>
toolVars == <<environVars, buildVars>>
libraryVars == <<focus, memoryVars, dataVars, toolVars>>

Memory ==
  \/ focus = "startup" /\ StartupNext /\ UNCHANGED <<atomicVars, futexVars>>
  \/ focus = "atomics" /\ AtomicsNext /\ UNCHANGED <<startVars, futexVars>>
  \/ focus = "futex" /\ FutexNext /\ UNCHANGED <<startVars, atomicVars>>

Data ==
  \/ focus = "text" /\ TextNext /\ UNCHANGED <<arrayVars, syncVars>>
  \/ focus = "arrays" /\ ArraysNext /\ UNCHANGED <<textVars, syncVars>>
  \/ focus = "syncio" /\ SyncNext /\ UNCHANGED <<textVars, arrayVars>>

Tools ==
  \/ focus = "environ" /\ EnvironNext /\ UNCHANGED buildVars
  \/ focus = "build" /\ BuildNext /\ UNCHANGED environVars

LibraryNext ==
  /\ UNCHANGED focus
  /\ \/ Memory /\ UNCHANGED <<dataVars, toolVars>>
     \/ Data /\ UNCHANGED <<memoryVars, toolVars>>
     \/ Tools /\ UNCHANGED <<memoryVars, dataVars>>

LibrarySpec == LibraryInit /\ [][LibraryNext]_libraryVars
-----------------------------------------------------------------------------
(* Facts about operators, looked at once in the behaviours about text.     *)
(* NumbersRoundTrip: the digits the conversions of strings.c write are     *)
(* those of the number, for every number of the word.  FormatsAgree:       *)
(* strings.format and io.printf read a format alike, but for %ld, and no   *)
(* buffer they grow is too small.  ExpressionsExact: the casts of types.go *)
(* and the operators of ops.go compute what the language's types mean but  *)
(* where named.  ReadingExact: the parser groups an expression as its      *)
(* table of binding powers says, in the usual way but where named.         *)
ConversionsAgree ==
  focus = "text" /\ TextInit =>
    /\ NumbersRoundTrip /\ FormatsAgree
    /\ Exprs!ExpressionsExact /\ ReadingExact
=============================================================================
