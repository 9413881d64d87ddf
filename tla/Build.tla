-------------------------------- MODULE Build --------------------------------
(***************************************************************************)
(* picasso build: the command line tool (cli/cli_linux.c), the build cache *)
(* (irgen/codegen/tools/cache.go) and the package loop of the generator    *)
(* (irgen/codegen/compiler.go).  A source file is its modification time    *)
(* and its imports.  The build reads the files, saves build.meta, compiles *)
(* the packages it found dirty, writes their exports, and links every      *)
(* object in the build directory.  Files are edited and deleted at any     *)
(* time, and any step may be the last of its build.                        *)
(***************************************************************************)
EXTENDS Naturals

CONSTANTS Pkg, MAIN,     \* the packages; MAIN is "start"
          NewProject,    \* the files at the start
          Imports,       \* the sets of imports an edit may give a package
          MaxTime,       \* bound: the clock
          NoFile

(* What is known of a source, and of an object file. *)
Source == [time : Nat, imports : SUBSET Pkg]
Object == [time : Nat, uses : SUBSET (Pkg \X Nat)]

ASSUME BuildAssumption ==
  /\ MAIN \in Pkg /\ NoFile \notin Source \cup Object
  /\ Imports \in [Pkg -> SUBSET SUBSET Pkg]
  /\ NewProject \in [Pkg -> [time : {1}, imports : SUBSET Pkg] \cup {NoFile}]

VARIABLES files,         \* the source files, by package
          now,           \* the clock, one tick per edit and per build.meta
          meta,          \* build.meta, 0 when there is none
          phase,         \* the step of the build
          dirty, allPkgs, packages, builtPkgs,   \* of the generator
          ll, exports,   \* the files of the build directory, by package
          exe,           \* what a.out was linked from, by package
          causes         \* history: why the build directory may be out of date

genVars == <<dirty, allPkgs, packages, builtPkgs>>
outVars == <<ll, exports, exe>>
buildVars == <<files, now, meta, phase, genVars, outVars, causes>>

Empty == [p \in Pkg |-> NoFile]
Have(f) == {p \in Pkg : f[p] # NoFile}

BuildInit ==
  /\ files = NewProject /\ now = 1 /\ meta = 0 /\ phase = "idle"
  /\ dirty = {} /\ allPkgs = {} /\ packages = Empty /\ builtPkgs = {}
  /\ ll = Empty /\ exports = Empty /\ exe = Empty /\ causes = {}
-----------------------------------------------------------------------------
(* The packages reached from a set of packages along the imports of those  *)
(* that f has: the smallest set with their imports in it.                  *)
ImportsIn(f, S) == \A p \in S \cap Have(f) : f[p].imports \subseteq S
Reach(f, from) == {q \in Pkg : \A S \in SUBSET Pkg : from \subseteq S /\ ImportsIn(f, S) => q \in S}

findModifiedPkgs(lastBuild) == {p \in Have(files) : files[p].time > lastBuild}

(* buildTree: the imports of every package that is reached from MAIN. *)
buildTree == [p \in Pkg |-> IF p \in Reach(files, {MAIN}) THEN files[p] ELSE NoFile]

reverseImportTree(graph) ==
  [q \in Pkg |-> {p \in Have(graph) : q \in graph[p].imports}]

(* A defect to test against: a package is dirty only if an import is. *)
DirtyOnce(initial, reverse) == initial \cup UNION {reverse[p] : p \in initial}

propagateModified(initial, reverse) ==
  {q \in Pkg : \A S \in SUBSET Pkg :
     initial \subseteq S /\ (\A p \in S : reverse[p] \subseteq S) => q \in S}

(* The files outside the import tree that this build leaves out of date:   *)
(* they, or files they import, have changed.                               *)
Neglected ==
  {p \in Have(files) \ Reach(files, {MAIN}) :
     Reach(files, {p}) \cap findModifiedPkgs(meta) # {}}

(* LoadPackages: the cache is consulted, the dirty packages are parsed, and *)
(* build.meta gets the time after that.  Deleted files are in no list.      *)
CheckBuildCache ==
  /\ phase = "idle" /\ phase' = "checked"
  /\ allPkgs' = Have(files)
  /\ dirty' = propagateModified(findModifiedPkgs(meta), reverseImportTree(buildTree))
  /\ causes' = IF Neglected = {} THEN causes ELSE causes \cup {"unreached"}
  /\ UNCHANGED <<files, now, meta, packages, builtPkgs, outVars>>

ParseAll ==
  /\ phase = "checked" /\ phase' = "parsed"
  /\ packages' = [p \in Pkg |-> IF p \in dirty THEN files[p] ELSE NoFile]
  /\ allPkgs' = Have(files)
  /\ UNCHANGED <<files, now, meta, dirty, builtPkgs, outVars, causes>>

SaveMeta ==
  /\ phase = "parsed" /\ now < MaxTime /\ phase' = "compiling"
  /\ now' = now + 1 /\ meta' = now'
  /\ UNCHANGED <<files, genVars, outVars, causes>>
-----------------------------------------------------------------------------
(* buildPackage: a package that is not dirty is skipped with everything it *)
(* imports; the others come after their imports.                           *)
ToBuild == Reach(packages, {MAIN}) \cap Have(packages)

(* recursiveTransitiveDeclaration: what a package is compiled against, from *)
(* the parsed packages and otherwise from the exports of earlier builds.    *)
Known == [q \in Pkg |-> IF q \in Have(packages) THEN packages[q] ELSE exports[q]]
Declared(p) == Reach(Known, packages[p].imports)

buildPackage(p) ==
  /\ phase = "compiling" /\ p \in ToBuild \ builtPkgs
  /\ packages[p].imports \subseteq allPkgs
  /\ packages[p].imports \cap ToBuild \subseteq builtPkgs
  /\ Declared(p) \subseteq Have(Known)
  /\ ll' = [ll EXCEPT ![p] = [time |-> packages[p].time,
                              uses |-> {<<q, Known[q].time>> : q \in Declared(p)}]]
  /\ builtPkgs' = builtPkgs \cup {p}
  /\ UNCHANGED <<files, now, meta, phase, dirty, allPkgs, packages, exports, exe, causes>>

generateExports ==
  /\ phase = "compiling" /\ MAIN \in allPkgs /\ ToBuild \subseteq builtPkgs
  /\ exports' = [p \in Pkg |-> IF p \in Have(packages) THEN packages[p] ELSE exports[p]]
  /\ phase' = "compiled"
  /\ UNCHANGED <<files, now, meta, genVars, ll, exe, causes>>

(* llvm-as, llc and cc run over every .ll file of the build directory; cc   *)
(* fails when one uses a package that has none.                             *)
link_objects ==
  /\ phase = "compiled" /\ MAIN \in Have(ll)
  /\ \A p \in Have(ll) : \A u \in ll[p].uses : u[1] \in Have(ll)
  /\ exe' = ll /\ phase' = "linked"
  /\ UNCHANGED <<files, now, meta, genVars, ll, exports, causes>>

(* The generator is a process of its own: its maps go when it ends. *)
Ends == phase' = "idle" /\ dirty' = {} /\ allPkgs' = {} /\ packages' = Empty /\ builtPkgs' = {}

finish_build == phase = "linked" /\ Ends /\ UNCHANGED <<files, now, meta, outVars, causes>>

(* Any step may end the build: a compile error, a signal, a full disk. *)
build_fails ==
  /\ phase \notin {"idle", "linked"} /\ Ends
  /\ causes' = IF phase = "compiling" THEN causes \cup {"failed"} ELSE causes
  /\ UNCHANGED <<files, now, meta, outVars>>

clean ==
  /\ phase = "idle" /\ meta' = 0 /\ ll' = Empty /\ exports' = Empty /\ exe' = Empty
  /\ causes' = {}
  /\ UNCHANGED <<files, now, phase, genVars>>

(* The programmer. *)
Racing == IF phase \in {"checked", "parsed"} THEN {"edited"} ELSE {}
Edit(p, imports) ==
  /\ now < MaxTime /\ now' = now + 1
  /\ files' = [files EXCEPT ![p] = [time |-> now', imports |-> imports]]
  /\ causes' = causes \cup Racing
  /\ UNCHANGED <<meta, phase, genVars, outVars>>

Delete(p) ==
  /\ files[p] # NoFile /\ files' = [files EXCEPT ![p] = NoFile]
  /\ causes' = causes \cup Racing
  /\ UNCHANGED <<now, meta, phase, genVars, outVars>>

BuildNext ==
  \/ CheckBuildCache \/ ParseAll \/ SaveMeta \/ generateExports \/ link_objects
  \/ finish_build \/ build_fails \/ clean
  \/ \E p \in Pkg :
       \/ buildPackage(p)
       \/ p # MAIN /\ Delete(p)
       \/ \E imports \in Imports[p] : Edit(p, imports)

BuildSpec == BuildInit /\ [][BuildNext]_buildVars
-----------------------------------------------------------------------------
(* A build that links has compiled every package of the program from the   *)
(* source it has, against the sources its imports have (compiler.go:130,   *)
(* cache.go:117), when no file is missing or was edited since build.meta   *)
(* was written, unless an earlier build since the last clean stopped       *)
(* between build.meta and the exports, or a file was edited between the    *)
(* look at its time and build.meta, or changed while nothing imported it.  *)
BuildIsCurrent ==
  phase = "linked" /\ causes = {} =>
    LET program == Reach(files, {MAIN}) IN
    (\A p \in program : files[p] # NoFile /\ files[p].time <= meta) =>
      \A p \in program :
        /\ exe[p] # NoFile /\ exe[p].time = files[p].time
        /\ \A u \in exe[p].uses : files[u[1]] # NoFile /\ u[2] = files[u[1]].time
=============================================================================
