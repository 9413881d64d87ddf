--------------------------- MODULE LibraryProofs ----------------------------
(***************************************************************************)
(* Proofs about atomics, the os library, synchronous file I/O and the      *)
(* incremental build. Each section has an inductive invariant in parts, a  *)
(* lemma for every action, and the theorem.                                *)
(***************************************************************************)
EXTENDS Atomics, Futex, Environ, SyncIO, Build, TLAPS

-----------------------------------------------------------------------------
(***************************************************************************)
(* Atomics, for words of any size and any operands. The inductive          *)
(* invariant adds that what a task has loaded is what the cell holds,      *)
(* until somebody overwrites it.                                           *)
(***************************************************************************)

(* Zenon proves every step that does not ask for SMT; the limits, and the second call of the SMT *)
(* solver, leave room for slow machines. *)
USE ZenonT(60)

CellTypes ==
  /\ cellType \in DOMAIN Kinds
  /\ cell \in Words(Kinds[cellType])
  /\ loaded \in [Users -> Int] /\ fresh \subseteq Users

(* What a task has loaded is what is there, until somebody overwrites it. *)
AtomicsInv ==
  /\ CellTypes
  /\ account = cell /\ ~refused
  /\ \A u \in fresh : Bits(Kinds[cellType], loaded[u]) = cell

(* What the calls of a type leave in a cell of that type. *)
FetchOps(k) == k.ops \ {"store", "load", "cas"}
StaysInWord(k) ==
  /\ k.size \in Nat \ {0}
  /\ \A op \in FetchOps(k), b, v \in Words(k) : Apply(k, op, b, v) \in Words(k)
-----------------------------------------------------------------------------
(* A word is what is left of it by its size, and so is a negative number   *)
(* that stands for it; whatever is left is a word.                         *)
LEMMA Remainders ==
  ASSUME NEW n \in Nat \ {0}
  PROVE  /\ \A i \in Int : i % n \in 0..(n - 1)
         /\ \A b \in 0..(n - 1) : b % n = b /\ (b - n) % n = b
<1>1. \A i \in Int : i % n \in 0..(n - 1)
  BY SMTT(30), Z3T(30)
<1>2. ASSUME NEW b \in 0..(n - 1) PROVE b % n = b
  BY SMTT(30), Z3T(30)
<1>3. ASSUME NEW b \in 0..(n - 1) PROVE (b - n) % n = b
  <2> DEFINE q == (b - n) \div n
             r == (b - n) % n
  <2>1. q \in Int /\ r \in 0..(n - 1) /\ b - n = n * q + r
    BY SMTT(30), Z3T(30)
  <2> HIDE DEF q, r
  <2>2. CASE q >= 0
    <3>1. n * q >= 0
      BY <2>1, <2>2, SMTT(30), Z3T(30)
    <3> QED BY <2>1, <3>1, SMTT(30), Z3T(30)
  <2>3. CASE q <= -2
    <3>1. n * (q + 2) <= 0
      BY <2>1, <2>3, SMTT(30), Z3T(30)
    <3>2. n * (q + 2) = n * q + 2 * n
      BY <2>1, SMTT(30), Z3T(30)
    <3> QED BY <2>1, <3>1, <3>2, SMTT(30), Z3T(30)
  <2>4. CASE q = -1
    <3>1. r = b
      BY <2>1, <2>4, SMTT(30), Z3T(30)
    <3> QED BY <3>1 DEF r
  <2> QED BY <2>1, <2>2, <2>3, <2>4, SMTT(30), Z3T(30)
<1> QED BY <1>1, <1>2, <1>3

(* The bits of the value a load or a fetch returns are those of the cell. *)
LEMMA ValueHasBits ==
  ASSUME NEW k, k.size \in Nat \ {0}, NEW b \in Words(k)
  PROVE  Value(k, b) \in Int /\ Bits(k, Value(k, b)) = b /\ Bits(k, b) = b
<1>1. b \in Int /\ b - k.size \in Int
  BY SMTT(30), Z3T(30) DEF Words
<1>2. b % k.size = b /\ (b - k.size) % k.size = b
  BY Remainders DEF Words
<1> QED BY <1>1, <1>2 DEF Value, Bits

LEMMA BitsAreWords ==
  ASSUME NEW k, k.size \in Nat \ {0}, NEW i \in Int
  PROVE  Bits(k, i) \in Words(k)
BY Remainders DEF Bits, Words
-----------------------------------------------------------------------------
LEMMA WordTypeCloses ==
  ASSUME NEW k, k.size \in WordSizes, k.ops = WordOps
  PROVE  StaysInWord(k)
<1>1. k.size \in Nat \ {0}
  BY AtomicsAssumption
<1>2. ASSUME NEW op \in FetchOps(k), NEW b \in Words(k), NEW v \in Words(k)
      PROVE  Apply(k, op, b, v) \in Words(k)
  <2>1. b + v \in Int /\ b - v \in Int
    BY <1>1, SMTT(30), Z3T(30) DEF Words
  <2>2. Bits(k, b + v) \in Words(k) /\ Bits(k, b - v) \in Words(k)
    BY <1>1, <2>1, BitsAreWords
  <2>3. BitAnd[b][v] \in Words(k) /\ BitOr[b][v] \in Words(k) /\ BitXor[b][v] \in Words(k)
    BY AtomicsAssumption DEF Words
  <2>4. op \in {"exchange", "add", "sub", "and", "or", "xor"}
    BY DEF FetchOps, WordOps, CellOps
  <2>5. CASE op = "add"
    BY <2>2, <2>5, SMTT(30), Z3T(30) DEF Apply
  <2>6. CASE op = "sub"
    BY <2>2, <2>6, SMTT(30), Z3T(30) DEF Apply
  <2>7. CASE op = "and"
    BY <2>3, <2>7, SMTT(30), Z3T(30) DEF Apply
  <2>8. CASE op = "or"
    BY <2>3, <2>8, SMTT(30), Z3T(30) DEF Apply
  <2>9. CASE op = "xor"
    BY <2>3, <2>9, SMTT(30), Z3T(30) DEF Apply
  <2>10. CASE op = "exchange"
    BY <2>10, SMTT(30), Z3T(30) DEF Apply
  <2> QED BY <2>4, <2>5, <2>6, <2>7, <2>8, <2>9, <2>10
<1> QED BY <1>1, <1>2 DEF StaysInWord

LEMMA CellTypeCloses ==
  ASSUME NEW k, k.size \in WordSizes \cup {2}, k.ops = CellOps
  PROVE  StaysInWord(k)
<1>1. k.size \in Nat \ {0}
  <2>1. 2 \in Nat \ {0}
    BY SMTT(30), Z3T(30)
  <2> QED BY <2>1, AtomicsAssumption
<1>2. ASSUME NEW op \in FetchOps(k), NEW b \in Words(k), NEW v \in Words(k)
      PROVE  Apply(k, op, b, v) \in Words(k)
  <2>1. op = "exchange"
    BY DEF FetchOps, CellOps
  <2> QED BY <2>1, SMTT(30), Z3T(30) DEF Apply
<1> QED BY <1>1, <1>2 DEF StaysInWord

(* Every type of atomics.h is one or the other. *)
LEMMA KindsAreClosed ==
  ASSUME NEW t \in DOMAIN Kinds
  PROVE  StaysInWord(Kinds[t])
<1>1. \/ Kinds[t].size \in WordSizes /\ Kinds[t].ops = WordOps
      \/ Kinds[t].size \in WordSizes \cup {2} /\ Kinds[t].ops = CellOps
  BY SMTT(30), Z3T(30) DEF Kinds, WordSizes, boolean, uint8, uint16, uint32, uint64, int8, int16, int32,
             int64, int, float16, float32, float64, double, ptr
<1> QED BY <1>1, WordTypeCloses, CellTypeCloses
-----------------------------------------------------------------------------
(* A call that puts a word into the cell, when the account agrees: the     *)
(* others' values are as good as before if the word is the one there.      *)
LEMMA WordPut ==
  ASSUME AtomicsInv, NEW w \in Words(Kinds[cellType]),
         cell' = w, account' = w, fresh' = IF w = cell THEN fresh ELSE {},
         UNCHANGED <<cellType, loaded, refused>>
  PROVE  AtomicsInv'
<1>1. cellType' = cellType /\ loaded' = loaded /\ refused' = refused
  OBVIOUS
<1>2. CellTypes'
  BY <1>1 DEF AtomicsInv, CellTypes, Words
<1>3. ASSUME NEW u \in fresh' PROVE Bits(Kinds[cellType], loaded[u]) = w
  BY DEF AtomicsInv
<1>4. (\A u \in fresh : Bits(Kinds[cellType], loaded[u]) = cell)'
  BY <1>1, <1>3 DEF Bits
<1>5. account' = cell'
  OBVIOUS
<1>6. ~refused'
  BY <1>1, SMTT(30), Z3T(30) DEF AtomicsInv
<1> QED BY <1>2, <1>4, <1>5, <1>6 DEF AtomicsInv

(* The changes the results report add up: the cell held old, and holds w. *)
LEMMA AccountAgrees ==
  ASSUME NEW k, k.size \in Nat \ {0}, NEW old \in Words(k), NEW w \in Words(k)
  PROVE  Bits(k, old + w - old) = w
<1>1. old + w - old = w
  BY SMTT(30), Z3T(30) DEF Words
<1> QED BY <1>1, ValueHasBits

LEMMA FetchKeeps ==
  ASSUME AtomicsInv, NEW k, k = Kinds[cellType], StaysInWord(k),
         NEW op \in FetchOps(k), NEW v \in Words(k), fetch(k, op, v)
  PROVE  AtomicsInv'
<1> DEFINE w == Apply(k, op, cell, v)
<1>1. cell \in Words(k) /\ account = cell /\ k.size \in Nat \ {0} /\ w \in Words(k)
  BY DEF AtomicsInv, CellTypes, StaysInWord
<1>2. Bits(k, Value(k, cell)) = cell
  BY <1>1, ValueHasBits
<1>3. Bits(k, cell + w - cell) = w
  BY <1>1, AccountAgrees
<1>4. FetchAndOp(k, op, v).new = w /\ FetchAndOp(k, op, v).result = Value(k, cell)
  BY SMTT(30), Z3T(30) DEF FetchAndOp
<1>5. cell' = w /\ account' = w /\ fresh' = IF w = cell THEN fresh ELSE {}
  BY <1>1, <1>2, <1>3, <1>4 DEF fetch
<1> HIDE DEF w
<1> QED BY <1>1, <1>5, WordPut DEF fetch

LEMMA CasKeeps ==
  ASSUME AtomicsInv, NEW k, k = Kinds[cellType], StaysInWord(k),
         NEW u \in Users, NEW desired \in Words(k), cas(u, k, desired)
  PROVE  AtomicsInv'
<1>1. cell \in Words(k) /\ account = cell /\ k.size \in Nat \ {0}
  BY DEF AtomicsInv, CellTypes, StaysInWord
<1>2. CASE Bits(k, loaded[u]) = cell
  <2>1. Bits(k, account + desired - cell) = desired
    BY <1>1, AccountAgrees
  <2>2. /\ cell' = desired /\ account' = desired
        /\ fresh' = IF desired = cell THEN fresh ELSE {}
        /\ UNCHANGED <<cellType, loaded, refused>>
    BY <1>2, <2>1 DEF cas, Same
  <2> QED BY <2>2, WordPut
<1>3. CASE Bits(k, loaded[u]) # cell
  <2>1. u \notin fresh
    BY <1>3 DEF AtomicsInv
  <2>2. ~refused' /\ UNCHANGED <<cellType, cell, loaded, fresh, account>>
    BY <1>3, <2>1 DEF cas, Same, AtomicsInv
  <2> QED BY <2>2 DEF AtomicsInv, CellTypes, Words, Bits
<1> QED BY <1>2, <1>3

LEMMA LoadKeeps ==
  ASSUME AtomicsInv, NEW k, k = Kinds[cellType], StaysInWord(k), NEW u \in Users, load(u, k)
  PROVE  AtomicsInv'
<1>1. Value(k, cell) \in Int /\ Bits(k, Value(k, cell)) = cell
  BY ValueHasBits DEF AtomicsInv, CellTypes, StaysInWord
<1>2. loaded' = [loaded EXCEPT ![u] = Value(k, cell)] /\ fresh' = fresh \cup {u}
  BY DEF load
<1>3. cellType' = cellType /\ cell' = cell /\ account' = account /\ refused' = refused
  BY DEF load
<1>4. loaded' \in [Users -> Int] /\ fresh' \subseteq Users
  BY <1>1, <1>2 DEF AtomicsInv, CellTypes
<1>5. ASSUME NEW x \in fresh' PROVE Bits(k, loaded'[x]) = cell
  <2>1. CASE x = u
    BY <1>1, <1>2, <2>1 DEF AtomicsInv, CellTypes
  <2>2. CASE x # u
    BY <1>2, <2>2 DEF AtomicsInv, CellTypes
  <2> QED BY <2>1, <2>2
<1> QED BY <1>3, <1>4, <1>5 DEF AtomicsInv, CellTypes, Words, Bits

LEMMA CallKeeps ==
  ASSUME AtomicsInv, NEW k, k = Kinds[cellType], NEW u \in Users, Call(u, k)
  PROVE  AtomicsInv'
<1>1. StaysInWord(k)
  BY KindsAreClosed DEF AtomicsInv, CellTypes
<1>2. CASE load(u, k)
  BY <1>1, <1>2, LoadKeeps
<1>3. ASSUME NEW v \in ArgumentsOf(k), store(k, v) PROVE AtomicsInv'
  BY <1>3, WordPut DEF store, ArgumentsOf
<1>4. ASSUME NEW v \in ArgumentsOf(k), cas(u, k, v) PROVE AtomicsInv'
  BY <1>1, <1>4, CasKeeps DEF ArgumentsOf
<1>5. CASE cas(u, k, Bits(k, loaded[u] + 1))
  <2>1. loaded[u] + 1 \in Int
    <3>1. loaded[u] \in Int
      BY DEF AtomicsInv, CellTypes
    <3> QED BY <3>1, SMTT(30), Z3T(30)
  <2>2. Bits(k, loaded[u] + 1) \in Words(k)
    BY <1>1, <2>1, BitsAreWords DEF StaysInWord
  <2> QED BY <1>1, <1>5, <2>2, CasKeeps
<1>6. ASSUME NEW op \in FetchOps(k), NEW v \in ArgumentsOf(k), fetch(k, op, v) PROVE AtomicsInv'
  BY <1>1, <1>6, FetchKeeps DEF ArgumentsOf
<1> QED BY <1>2, <1>3, <1>4, <1>5, <1>6 DEF Call, FetchOps
-----------------------------------------------------------------------------
LEMMA AtomicsStarts == AtomicsInit => AtomicsInv
<1> SUFFICES ASSUME AtomicsInit PROVE AtomicsInv
  OBVIOUS
<1>1. StaysInWord(Kinds[cellType])
  BY KindsAreClosed DEF AtomicsInit
<1>2. 0 \in Words(Kinds[cellType]) /\ 0 \in Int
  BY <1>1, SMTT(30), Z3T(30) DEF StaysInWord, Words
<1> QED BY <1>2 DEF AtomicsInit, AtomicsInv, CellTypes

(* The function of a type is called for a cell of that type. *)
LEMMA AtomicsSteps == AtomicsInv /\ [AtomicsNext]_atomicVars => AtomicsInv'
<1> SUFFICES ASSUME AtomicsInv, [AtomicsNext]_atomicVars PROVE AtomicsInv'
  OBVIOUS
<1>1. CASE AtomicsNext
  <2>1. PICK u \in Users : \E k : k = Kinds[cellType] /\ Call(u, k)
    BY <1>1, SMTT(30), Z3T(30)
    DEF AtomicsNext, Kinds, atomics_boolean, atomics_uint8, atomics_uint16, atomics_uint32, atomics_uint64,
        atomics_int8, atomics_int16, atomics_int32, atomics_int64, atomics_int, atomics_float16,
        atomics_float32, atomics_float64, atomics_double, atomics_ptr
  <2> QED BY <2>1, CallKeeps
<1>2. CASE UNCHANGED atomicVars
  BY <1>2 DEF atomicVars, AtomicsInv, CellTypes, Words, Bits
<1> QED BY <1>1, <1>2

(* The results of the atomic calls explain the cell, for words of any size, *)
(* any operands and any number of tasks: no update is lost or counted      *)
(* twice, sums that wrap included, and a cas is refused only after another *)
(* task's write (atomics.c).                                               *)
THEOREM AtomicResultsExplain == AtomicsSpec => []ResultsExplainCell
<1>1. AtomicsInv => ResultsExplainCell
  BY DEF AtomicsInv, CellTypes, ResultsExplainCell
<1> QED BY <1>1, AtomicsStarts, AtomicsSteps, PTL DEF AtomicsSpec

-----------------------------------------------------------------------------
(***************************************************************************)
(* Futex, for any threads, tasks and words. The property is nearly         *)
(* inductive as it stands; it is stated sleeper by sleeper, with the       *)
(* types.                                                                  *)
(***************************************************************************)

(* A sleeper is recorded under the task that called, with the word. *)
Sleepers == [who : Fiber, at : Word, val : {0, 1}, bits : SUBSET Bit,
             timed : BOOLEAN, moved : BOOLEAN]

SleepTypes ==
  /\ queue \in SUBSET Sleepers
  /\ word \in [Word -> {0, 1}]
  /\ current \in [Kernel -> Fiber \cup {NoFiber}]
  /\ owes \in [Fiber -> SUBSET Word]

(* The three parts of NoSleeperForgotten. *)
OnePerThread == \A r, s \in queue : Pin[r.who] = Pin[s.who] => r = s
Held == \A s \in queue : current[Pin[s.who]] = s.who /\ Pin[s.who] \notin parked
HasWaker(s) == s.moved \/ word[s.at] = s.val \/ \E f \in Fiber : s.at \in owes[f]

FutexInv == SleepTypes /\ OnePerThread /\ Held /\ \A s \in queue : HasWaker(s)

LEMMA SleeperFields ==
  ASSUME NEW s \in Sleepers
  PROVE  s.who \in Fiber /\ s.at \in Word /\ Pin[s.who] \in Kernel
BY FutexAssumption DEF Sleepers

LEMMA ChosenAmong == ASSUME NEW S, NEW n, NEW c \in Chosen(S, n) PROVE c \subseteq S
BY DEF Chosen

(* The kernel thread of a task that executes is not asleep. *)
LEMMA NotAsleep ==
  ASSUME FutexInv, NEW f \in Fiber, Executes(f), NEW s \in queue
  PROVE  Pin[s.who] # Pin[f]
<1>1. current[Pin[s.who]] = s.who /\ current[Pin[f]] = f /\ s.who # f
  BY DEF FutexInv, Held, Executes, Sleeping
<1> QED BY <1>1

(* A step that takes sleepers away, or none, and leaves the rest alone. *)
LEMMA FewerSleepers ==
  ASSUME FutexInv, queue' \subseteq queue, parked' \subseteq parked,
         UNCHANGED <<word, current, owes>>
  PROVE  FutexInv'
<1>1. SleepTypes'
  BY DEF FutexInv, SleepTypes
<1>2. OnePerThread' /\ Held'
  BY DEF FutexInv, OnePerThread, Held
<1>3. \A s \in queue' : HasWaker(s)'
  BY DEF FutexInv, HasWaker
<1> QED BY <1>1, <1>2, <1>3 DEF FutexInv

LEMMA ScheduleInv ==
  ASSUME FutexInv, NEW f \in Fiber, Resume(f) \/ Yield(f)
  PROVE  FutexInv'
<1>1. /\ UNCHANGED <<word, queue, parked, owes>>
      /\ \E c \in Fiber \cup {NoFiber} : current' = [current EXCEPT ![Pin[f]] = c]
  BY DEF Resume, Yield
<1>2. Pin[f] \in Kernel
  BY FutexAssumption
<1>3. /\ current' \in [Kernel -> Fiber \cup {NoFiber}]
      /\ \A k \in Kernel \ {Pin[f]} : current'[k] = current[k]
  BY <1>1, <1>2 DEF FutexInv, SleepTypes
<1>4. ASSUME NEW s \in queue PROVE Pin[s.who] \in Kernel \ {Pin[f]}
  <2>1. s.who \in Fiber /\ Pin[s.who] \in Kernel
    BY SleeperFields DEF FutexInv, SleepTypes
  <2>2. CASE Yield(f)
    BY <2>1, <2>2, NotAsleep DEF Yield
  <2>3. CASE Resume(f)
    <3>1. current[Pin[s.who]] # NoFiber /\ current[Pin[f]] = NoFiber
      BY <2>1, <2>3, FutexAssumption DEF FutexInv, Held, Resume
    <3> QED BY <2>1, <3>1
  <2> QED BY <2>2, <2>3
<1>5. SleepTypes'
  BY <1>1, <1>3 DEF FutexInv, SleepTypes
<1>6. OnePerThread' /\ \A s \in queue' : HasWaker(s)'
  BY <1>1 DEF FutexInv, OnePerThread, HasWaker
<1>7. Held'
  BY <1>1, <1>3, <1>4 DEF FutexInv, Held
<1> QED BY <1>5, <1>6, <1>7 DEF FutexInv

LEMMA ParkInv == ASSUME FutexInv, NEW f \in Fiber, Park(f) PROVE FutexInv'
<1>1. UNCHANGED <<word, queue, current, owes>> /\ parked' = parked \cup {Pin[f]} /\ Executes(f)
  BY DEF Park
<1>2. SleepTypes' /\ OnePerThread' /\ \A s \in queue' : HasWaker(s)'
  BY <1>1 DEF FutexInv, SleepTypes, OnePerThread, HasWaker
<1>3. Held'
  BY <1>1, NotAsleep DEF FutexInv, Held
<1> QED BY <1>2, <1>3 DEF FutexInv

LEMMA ChangeInv ==
  ASSUME FutexInv, NEW f \in Fiber, NEW w \in Word, Change(f, w)
  PROVE  FutexInv'
<1>1. /\ UNCHANGED <<queue, current, parked>> /\ owes[f] = {}
      /\ word' = [word EXCEPT ![w] = 1 - word[w]] /\ owes' = [owes EXCEPT ![f] = {w}]
  BY DEF Change
<1>2. 1 - word[w] \in {0, 1}
  <2>1. word[w] \in {0, 1}
    BY DEF FutexInv, SleepTypes
  <2> QED BY <2>1, SMTT(30), Z3T(30)
<1>3. /\ word' \in [Word -> {0, 1}] /\ owes' \in [Fiber -> SUBSET Word] /\ owes'[f] = {w}
      /\ \A v \in Word \ {w} : word'[v] = word[v]
      /\ \A g \in Fiber \ {f} : owes'[g] = owes[g]
  BY <1>1, <1>2 DEF FutexInv, SleepTypes
<1>4. SleepTypes' /\ OnePerThread' /\ Held'
  BY <1>1, <1>3 DEF FutexInv, SleepTypes, OnePerThread, Held
<1>5. ASSUME NEW s \in queue PROVE HasWaker(s)'
  <2>1. s.at \in Word /\ HasWaker(s)
    BY SleeperFields DEF FutexInv, SleepTypes
  <2>2. CASE s.at = w
    BY <1>3, <2>2 DEF HasWaker
  <2>3. CASE s.at # w
    BY <1>1, <1>3, <2>1, <2>3 DEF HasWaker
  <2> QED BY <2>2, <2>3
<1> QED BY <1>1, <1>4, <1>5 DEF FutexInv

LEMMA SleepInv ==
  ASSUME FutexInv, NEW f \in Fiber, NEW w \in Word, NEW v \in {0, 1}, NEW bits \in SUBSET Bit,
         NEW timed \in BOOLEAN, Sleep(f, w, v, bits, timed)
  PROVE  FutexInv'
<1>1. PICK s : s = [who |-> f, at |-> w, val |-> v, bits |-> bits,
                    timed |-> timed, moved |-> FALSE]
  OBVIOUS
<1>2. s \in Sleepers /\ s.who = f /\ s.at = w /\ s.val = v
  BY <1>1 DEF Sleepers
<1>3. /\ queue' = queue \cup {s} /\ Executes(f) /\ word[w] = v
      /\ UNCHANGED <<word, current, parked, owes>>
  BY <1>1 DEF Sleep, Enqueue
<1>4. SleepTypes'
  BY <1>2, <1>3 DEF FutexInv, SleepTypes
<1>5. OnePerThread'
  BY <1>2, <1>3, NotAsleep DEF FutexInv, OnePerThread
<1>6. Held'
  BY <1>2, <1>3 DEF FutexInv, Held, Executes
<1>7. \A r \in queue' : HasWaker(r)'
  BY <1>2, <1>3 DEF FutexInv, HasWaker
<1> QED BY <1>4, <1>5, <1>6, <1>7 DEF FutexInv

(* The debt is kept as long as somebody sleeps at the word. *)
LEMMA PayKeeps ==
  ASSUME FutexInv, NEW f \in Fiber, NEW w \in Word, Pay(f, w), UNCHANGED word
  PROVE  /\ owes' \in [Fiber -> SUBSET Word]
         /\ \A s \in queue' : HasWaker(s) => HasWaker(s)'
<1>1. PICK d : d = IF \A s \in queue' : s.at # w THEN owes[f] \ {w} ELSE owes[f]
  OBVIOUS
<1>2. owes' = [owes EXCEPT ![f] = d] /\ d \in SUBSET Word
  BY <1>1 DEF Pay, FutexInv, SleepTypes
<1>3. /\ owes' \in [Fiber -> SUBSET Word] /\ owes'[f] = d
      /\ \A g \in Fiber \ {f} : owes'[g] = owes[g]
  BY <1>2 DEF FutexInv, SleepTypes
<1>4. ASSUME NEW s \in queue', HasWaker(s) PROVE HasWaker(s)'
  <2>1. s.at \in owes[f] => s.at \in d
    BY <1>1
  <2>2. \A g \in Fiber : s.at \in owes[g] => s.at \in owes'[g]
    BY <1>3, <2>1
  <2> QED BY <1>4, <2>2 DEF HasWaker
<1> QED BY <1>3, <1>4

LEMMA WakeInv ==
  ASSUME FutexInv, NEW f \in Fiber, NEW w \in Word, NEW bits, NEW n, Wake(f, w, bits, n)
  PROVE  FutexInv'
<1>1. UNCHANGED <<word, current, parked>> /\ queue' \subseteq queue /\ Pay(f, w)
  BY DEF Wake
<1>2. owes' \in [Fiber -> SUBSET Word] /\ \A s \in queue' : HasWaker(s)'
  BY <1>1, PayKeeps DEF FutexInv
<1>3. SleepTypes' /\ OnePerThread' /\ Held'
  BY <1>1, <1>2 DEF FutexInv, SleepTypes, OnePerThread, Held
<1> QED BY <1>2, <1>3 DEF FutexInv

LEMMA RequeueInv ==
  ASSUME FutexInv, NEW f \in Fiber, NEW w \in Word, NEW n, NEW m, NEW v \in Word, Requeue(f, w, n, m, v)
  PROVE  FutexInv'
<1>1. UNCHANGED <<word, current, parked>> /\ Pay(f, w)
  BY DEF Requeue
<1>2. PICK woken \in Chosen(Matching(w, Bit), n) :
        \E shifted \in Chosen(Matching(w, Bit) \ woken, m) :
          queue' = (queue \ (woken \cup shifted)) \cup {Moved(s, v) : s \in shifted}
  BY DEF Requeue
<1>3. PICK shifted \in Chosen(Matching(w, Bit) \ woken, m) :
        queue' = (queue \ (woken \cup shifted)) \cup {Moved(s, v) : s \in shifted}
  BY <1>2
<1>4. shifted \subseteq queue /\ \A s \in queue : s \in Sleepers
  BY ChosenAmong DEF Matching, FutexInv, SleepTypes
<1>5. \A s \in Sleepers : Moved(s, v) \in Sleepers /\ Moved(s, v).who = s.who /\ Moved(s, v).moved = TRUE
  BY DEF Sleepers, Moved
<1>6. ASSUME NEW r \in queue'
      PROVE  \E s \in queue : /\ r.who = s.who /\ r \in Sleepers /\ (r = s \/ r.moved = TRUE)
                               /\ r = IF s \in shifted THEN Moved(s, v) ELSE s
  <2>1. CASE r \in queue \ shifted
    BY <1>4, <2>1
  <2>2. CASE \E s \in shifted : r = Moved(s, v)
    BY <1>4, <1>5, <2>2
  <2> QED BY <1>3, <2>1, <2>2
<1>7. owes' \in [Fiber -> SUBSET Word] /\ \A s \in queue' : HasWaker(s)'
  <2>1. \A r \in queue' : HasWaker(r)
    <3> SUFFICES ASSUME NEW r \in queue' PROVE HasWaker(r)
      OBVIOUS
    <3>1. PICK s \in queue : /\ r.who = s.who /\ r \in Sleepers /\ (r = s \/ r.moved = TRUE)
                             /\ r = IF s \in shifted THEN Moved(s, v) ELSE s
      BY <1>6
    <3>2. HasWaker(s) /\ (r = s \/ r.moved = TRUE)
      BY <3>1 DEF FutexInv
    <3> QED BY <3>2 DEF HasWaker
  <2> QED BY <1>1, <2>1, PayKeeps
<1>8. SleepTypes'
  BY <1>1, <1>6, <1>7 DEF FutexInv, SleepTypes
<1>9. Held'
  BY <1>1, <1>6 DEF FutexInv, Held
<1>10. OnePerThread'
  <2> SUFFICES ASSUME NEW a \in queue', NEW b \in queue', Pin[a.who] = Pin[b.who] PROVE a = b
    BY DEF OnePerThread
  <2>1. PICK r \in queue : a.who = r.who /\ a = IF r \in shifted THEN Moved(r, v) ELSE r
    BY <1>6
  <2>2. PICK s \in queue : b.who = s.who /\ b = IF s \in shifted THEN Moved(s, v) ELSE s
    BY <1>6
  <2>3. r = s
    BY <2>1, <2>2 DEF FutexInv, OnePerThread
  <2> QED BY <2>1, <2>2, <2>3
<1> QED BY <1>7, <1>8, <1>9, <1>10 DEF FutexInv

LEMMA FiberInv == ASSUME FutexInv, NEW f \in Fiber, FiberStep(f) PROVE FutexInv'
<1>1. CASE os_exit(f)
  BY <1>1, FewerSleepers DEF os_exit
<1>2. ASSUME NEW w \in Word, os_futex_wait(f, w) \/ os_futex_wait_bitset(f, w) PROVE FutexInv'
  BY <1>2, SleepInv DEF os_futex_wait, os_futex_wait_bitset
<1>3. ASSUME NEW w \in Word,
             \/ os_futex_wake(f, w) \/ os_futex_wake_bitset(f, w)
             \/ os_futex_wake_one(f, w) \/ os_futex_wake_all(f, w)
      PROVE  FutexInv'
  BY <1>3, WakeInv DEF os_futex_wake, os_futex_wake_bitset, os_futex_wake_one, os_futex_wake_all
<1>4. ASSUME NEW w \in Word, os_futex_requeue(f, w) \/ os_futex_cmp_requeue(f, w) PROVE FutexInv'
  BY <1>4, RequeueInv DEF os_futex_requeue, os_futex_cmp_requeue
<1> QED BY <1>1, <1>2, <1>3, <1>4, ScheduleInv, ParkInv, ChangeInv DEF FiberStep

LEMMA FutexStepInv == FutexInv /\ [FutexNext]_futexVars => FutexInv'
<1> SUFFICES ASSUME FutexInv, [FutexNext]_futexVars PROVE FutexInv'
  OBVIOUS
<1>1. CASE gc_stop \/ gc_stopped \/ gc_resume \/ UNCHANGED futexVars
  BY <1>1, FewerSleepers DEF gc_stop, gc_stopped, gc_resume, futexVars
<1>2. ASSUME NEW s \in queue, Timeout(s) PROVE FutexInv'
  BY <1>2, FewerSleepers DEF Timeout
<1> QED BY <1>1, <1>2, FiberInv DEF FutexNext

LEMMA FutexInitInv == FutexInit => FutexInv
BY DEF FutexInit, FutexInv, SleepTypes, OnePerThread, Held

(* The futex calls lose no wakeup (os.c:681-742): for any number of tasks  *)
(* and threads, a thread that sleeps though its word has changed has a     *)
(* task that still owes the wake.                                          *)
THEOREM FutexLosesNoWakeup == FutexSpec => []NoSleeperForgotten
<1>1. FutexInv => NoSleeperForgotten
  BY DEF FutexInv, OnePerThread, Held, HasWaker, NoSleeperForgotten
<1> QED BY <1>1, FutexInitInv, FutexStepInv, PTL DEF FutexSpec

-----------------------------------------------------------------------------
(***************************************************************************)
(* Environ, for any inherited environment, names and values, and any       *)
(* number of tasks in a call at once. The inductive invariant says what is *)
(* in the vector while an entry is on its way out of it.                   *)
(***************************************************************************)

(* The vector has as many places as at the start.  While an entry is being *)
(* removed there is a place whose contents do not count: it is freed, or   *)
(* has been copied to the place before.                                    *)
Last == Len(Inherited) + 1
Used(i) == environ[i] # NoEntry
NameAt(i) == name[environ[i]]
Solid(i) == \A u \in User : Removing(u) => call[u].at # i

Calls ==
  [op : {"none", "get", "set", "unset"}, key : Key \cup {NoEntry}, at : Nat,
   pc : {"idle", "scan", "shift", "found", "missed", "abort"}]

EnvTypes ==
  /\ environ \in [1..Last -> Nat \cup {NoEntry}]
  /\ name \in Seq(Key) /\ freed \subseteq 1..Len(name)
  /\ \A i \in 1..Last : Used(i) => environ[i] \in 1..Len(name)
  /\ call \in [User -> Calls]

(* NULL closes the vector; names are listed once; what is listed is not    *)
(* freed; an inherited name that is not listed was removed.                *)
Closed == ~Used(Last) /\ \A i, j \in 1..Last : i <= j /\ ~Used(i) => ~Used(j)
Distinct ==
  \A i, j \in 1..Last :
    Solid(i) /\ Used(i) /\ Solid(j) /\ Used(j) /\ NameAt(i) = NameAt(j) => i = j
Live == \A i \in 1..Last : Solid(i) /\ Used(i) => environ[i] \notin freed
Kept ==
  \A k \in Range(Inherited) :
    \/ \E i \in 1..Last : Solid(i) /\ Used(i) /\ NameAt(i) = k
    \/ \E b \in freed : name[b] = k

(* A scan has passed only entries of other names. *)
Passed(u) ==
  /\ call[u].at \in 1..Last
  /\ \A j \in 1..Last : j < call[u].at => Used(j) /\ NameAt(j) # call[u].key

CallInv(u) ==
  /\ call[u].pc = "scan" => Passed(u)
  /\ call[u].pc = "missed" \/ (call[u].pc = "abort" /\ call[u].op = "set") =>
       Passed(u) /\ ~Used(call[u].at)
  /\ call[u].pc = "abort" /\ call[u].op # "set" => Entry(u) \in AtStart
  /\ call[u].pc = "found" => call[u].at \notin freed
  /\ call[u].pc = "shift" => call[u].at \in 1..Last /\ \A v \in User \ {u} : call[v].pc = "idle"

Vector == Closed /\ Distinct /\ Live /\ Kept
EnvGood == EnvTypes /\ Vector /\ \A u \in User : CallInv(u)
EnvInv == ~overlapped => EnvGood
-----------------------------------------------------------------------------
LEMMA LastNat == Last \in Nat \ {0} /\ Len(Inherited) \in Nat /\ Last \in 1..Last
BY EnvironAssumption, SMTT(30), Z3T(30) DEF Last

LEMMA CallFields ==
  ASSUME EnvTypes, NEW u \in User
  PROVE  /\ call[u].op \in {"none", "get", "set", "unset"} /\ call[u].key \in Key \cup {NoEntry}
         /\ call[u].at \in Nat /\ call[u].pc \in {"idle", "scan", "shift", "found", "missed", "abort"}
<1>1. call[u] \in Calls
  BY DEF EnvTypes
<1> QED BY <1>1, SMTT(30), Z3T(30) DEF Calls

(* The one call that a step moves on. *)
LEMMA Gone ==
  ASSUME EnvTypes, NEW u \in User, NEW i \in Nat, 
         NEW l \in {"idle", "scan", "shift", "found", "missed", "abort"}, Goes(u, i, l)
  PROVE  /\ call' \in [User -> Calls]
         /\ call'[u].op = call[u].op /\ call'[u].key = call[u].key /\ call'[u].at = i /\ call'[u].pc = l
         /\ \A v \in User \ {u} : call'[v] = call[v]
<1>1. PICK c : c = [op |-> call[u].op, key |-> call[u].key, at |-> i, pc |-> l]
  OBVIOUS
<1>2. c.op = call[u].op /\ c.key = call[u].key /\ c.at = i /\ c.pc = l
  BY <1>1
<1>3. c \in Calls
  BY <1>1, CallFields DEF Calls
<1>4. call' = [call EXCEPT ![u] = c]
  BY <1>1 DEF Goes
<1>5. call' \in [User -> Calls] /\ call'[u] = c /\ \A v \in User \ {u} : call'[v] = call[v]
  BY <1>3, <1>4 DEF EnvTypes
<1> QED BY <1>2, <1>5

(* While a call scans nothing is being removed. *)
LEMMA NoHole ==
  ASSUME EnvGood, NEW u \in User, call[u].pc = "scan"
  PROVE  \A v \in User : ~Removing(v)
<1> SUFFICES ASSUME NEW v \in User, Removing(v) PROVE FALSE
  OBVIOUS
<1>1. call[v].pc = "shift" /\ v # u
  BY DEF Removing
<1>2. call[u].pc = "idle"
  BY <1>1 DEF EnvGood, CallInv
<1> QED BY <1>2

LEMMA AllSolid ==
  ASSUME \A v \in User : ~Removing(v)
  PROVE  \A i : Solid(i)
BY DEF Solid

(* The vector stays as it is while calls go on. *)
LEMMA VectorKept ==
  ASSUME Vector, UNCHANGED <<environ, name, freed>>,
         \A v \in User : ~Removing(v), \A v \in User : ~Removing(v)'
  PROVE  Vector'
<1>1. \A i : Solid(i) /\ Solid(i)'
  BY DEF Solid
<1>2. \A i : (Used(i)' <=> Used(i)) /\ NameAt(i)' = NameAt(i)
  BY DEF Used, NameAt
<1>3. Closed'
  BY <1>2 DEF Vector, Closed
<1>4. Distinct'
  BY <1>1, <1>2 DEF Vector, Distinct
<1>5. Live'
  BY <1>1, <1>2 DEF Vector, Live
<1>6. Kept'
  BY <1>1, <1>2 DEF Vector, Kept
<1> QED BY <1>3, <1>4, <1>5, <1>6 DEF Vector

(* A step in which one call goes on and removes nothing. *)
LEMMA CallStep ==
  ASSUME EnvGood, NEW u \in User, UNCHANGED <<environ, name, freed>>, call' \in [User -> Calls],
         \A v \in User \ {u} : call'[v] = call[v], call'[u].pc # "shift",
         \A v \in User : ~Removing(v), CallInv(u)'
  PROVE  EnvGood'
<1>1. \A v \in User : ~Removing(v)'
  BY DEF Removing
<1>2. Vector'
  BY <1>1, VectorKept DEF EnvGood
<1>3. EnvTypes'
  BY DEF EnvGood, EnvTypes, Used
<1>4. ASSUME NEW v \in User \ {u} PROVE CallInv(v)'
  <2>1. call'[v] = call[v] /\ call[v].pc # "shift" /\ CallInv(v)
    BY DEF EnvGood, Removing
  <2>2. Passed(v) => Passed(v)'
    BY <2>1 DEF Passed, Used, NameAt
  <2> QED BY <2>1, <2>2 DEF CallInv, Used, Entry, AtStart
<1> QED BY <1>2, <1>3, <1>4 DEF EnvGood

LEMMA EnterInv ==
  ASSUME EnvGood, NEW u \in User, NEW op \in {"get", "set", "unset"}, NEW k \in Key, Enter(u, op, k), ~overlapped'
  PROVE  EnvGood'
<1>1. PICK c : c = [op |-> op, key |-> k, at |-> 1, pc |-> "scan"]
  OBVIOUS
<1>2. c.at = 1 /\ c.pc = "scan" /\ c \in Calls
  <2>1. 1 \in Nat
    BY SMTT(30), Z3T(30)
  <2> QED BY <1>1, <2>1 DEF Calls
<1>3. call' = [call EXCEPT ![u] = c] /\ UNCHANGED <<environ, name, freed>>
  BY <1>1 DEF Enter
<1>4. call' \in [User -> Calls] /\ call'[u] = c /\ \A v \in User \ {u} : call'[v] = call[v]
  BY <1>2, <1>3 DEF EnvGood, EnvTypes
<1>5. \A v \in User : ~Removing(v)
  BY DEF Enter, Others, Removing
<1>6. CallInv(u)'
  <2>1. 1 \in 1..Last /\ \A j \in 1..Last : ~(j < 1)
    BY LastNat, SMTT(30), Z3T(30)
  <2> QED BY <1>2, <1>4, <2>1 DEF CallInv, Passed
<1> QED BY <1>2, <1>3, <1>4, <1>5, <1>6, CallStep

(* A scan goes past an entry of another name. *)
LEMMA OnwardInv ==
  ASSUME EnvGood, NEW u \in User, call[u].pc = "scan", Onward(u)
  PROVE  EnvGood'
<1>1. \A v \in User : ~Removing(v)
  BY NoHole
<1>2. Passed(u) /\ EnvTypes
  BY DEF EnvGood, CallInv
<1>3. PICK i : i = call[u].at
  OBVIOUS
<1>4. i \in 1..Last /\ Used(i) /\ (NameAt(i) # call[u].key \/ environ[i] \in freed)
  BY <1>2, <1>3 DEF Passed, Onward, Differs, Ended, Entry, Used, NameAt
<1>5. environ[i] \notin freed
  BY <1>1, <1>4, AllSolid DEF EnvGood, Vector, Live
<1>6. i # Last
  BY <1>4 DEF EnvGood, Vector, Closed
<1>7. i + 1 \in 1..Last /\ i + 1 \in Nat /\ \A j \in 1..Last : j < i + 1 => j < i \/ j = i
  BY <1>4, <1>6, LastNat, SMTT(30), Z3T(30)
<1>8. /\ call' \in [User -> Calls] /\ call'[u].key = call[u].key /\ call'[u].at = i + 1
      /\ call'[u].pc = "scan" /\ \A v \in User \ {u} : call'[v] = call[v]
      /\ UNCHANGED <<environ, name, freed>>
  <2>1. Goes(u, i + 1, "scan") /\ UNCHANGED <<environ, name, freed>>
    BY <1>3 DEF Onward
  <2> QED BY <1>2, <1>7, <2>1, Gone
<1>9. CallInv(u)'
  <2>1. \A j \in 1..Last : j < i + 1 => Used(j)' /\ NameAt(j)' # call[u].key
    <3>1. \A j : (Used(j)' <=> Used(j)) /\ NameAt(j)' = NameAt(j)
      BY <1>8 DEF Used, NameAt
    <3> QED BY <1>2, <1>3, <1>4, <1>5, <1>7, <3>1 DEF Passed
  <2> QED BY <1>7, <1>8, <2>1 DEF CallInv, Passed
<1> QED BY <1>1, <1>8, <1>9, CallStep

(* A scan that comes to the end has passed every entry. *)
LEMMA EndedInv ==
  ASSUME EnvGood, NEW u \in User, call[u].pc = "scan", NEW l \in {"idle", "missed", "abort"},
         l = "abort" => call[u].op = "set", Ended(u), To(u, l), UNCHANGED <<environ, name, freed>>
  PROVE  EnvGood'
<1>1. \A v \in User : ~Removing(v)
  BY NoHole
<1>2. Passed(u) /\ EnvTypes /\ call[u].at \in Nat
  BY CallFields DEF EnvGood, CallInv
<1>3. /\ call' \in [User -> Calls] /\ call'[u].key = call[u].key /\ call'[u].at = call[u].at
      /\ call'[u].op = call[u].op /\ call'[u].pc = l /\ \A v \in User \ {u} : call'[v] = call[v]
  <2>1. Goes(u, call[u].at, l) /\ l \in {"idle", "scan", "shift", "found", "missed", "abort"}
    BY DEF To
  <2>2. EnvTypes /\ call[u].at \in Nat
    BY <1>2
  <2> QED BY <2>1, <2>2, Gone
<1>4. CallInv(u)'
  <2>1. Passed(u)'
    BY <1>2, <1>3 DEF Passed, Used, NameAt
  <2>2. ~Used(call[u].at)'
    BY <1>3 DEF Ended, Entry, Used
  <2> QED BY <1>3, <2>1, <2>2 DEF CallInv
<1> QED BY <1>1, <1>3, <1>4, CallStep

(* The entry a scan has found, which is live. *)
LEMMA FoundEntry ==
  ASSUME EnvGood, NEW u \in User, call[u].pc = "scan", Matches(u)
  PROVE  /\ call[u].at \in 1..Last /\ Used(call[u].at) /\ NameAt(call[u].at) = call[u].key
         /\ environ[call[u].at] \in 1..Len(name) /\ environ[call[u].at] \in Nat
         /\ environ[call[u].at] \notin freed
<1>1. \A v \in User : ~Removing(v)
  BY NoHole
<1>2. call[u].at \in 1..Last
  BY DEF EnvGood, CallInv, Passed
<1>3. Used(call[u].at) /\ (NameAt(call[u].at) = call[u].key \/ environ[call[u].at] \in freed)
  BY DEF Matches, Ended, Entry, Used, NameAt
<1>4. environ[call[u].at] \notin freed
  BY <1>1, <1>2, <1>3, AllSolid DEF EnvGood, Vector, Live
<1>5. environ[call[u].at] \in 1..Len(name)
  BY <1>2, <1>3 DEF EnvGood, EnvTypes
<1>6. environ[call[u].at] \in Nat
  BY <1>5, SMTT(30), Z3T(30)
<1> QED BY <1>2, <1>3, <1>4, <1>5, <1>6

LEMMA GetInv ==
  ASSUME EnvGood, NEW u \in User, getenv(u)
  PROVE  EnvGood'
<1>1. call[u].pc = "scan"
  BY DEF getenv, Looks
<1>2. CASE Onward(u)
  BY <1>1, <1>2, OnwardInv
<1>3. CASE Matches(u) /\ Goes(u, Entry(u), "found") /\ UNCHANGED <<environ, name, freed>>
  <2>1. Entry(u) \in Nat /\ Entry(u) \notin freed
    BY <1>1, <1>3, FoundEntry DEF Entry
  <2>2. /\ call' \in [User -> Calls] /\ call'[u].at = Entry(u) /\ call'[u].pc = "found"
        /\ \A v \in User \ {u} : call'[v] = call[v]
    BY <1>3, <2>1, Gone DEF EnvGood
  <2>3. CallInv(u)'
    BY <1>3, <2>1, <2>2 DEF CallInv
  <2> QED BY <1>1, <1>3, <2>2, <2>3, NoHole, CallStep
<1>4. CASE Ended(u) /\ To(u, "missed") /\ UNCHANGED <<environ, name, freed>>
  BY <1>1, <1>4, EndedInv
<1> QED BY <1>2, <1>3, <1>4 DEF getenv

(* A new entry of the same name takes the place of the old one. *)
LEMMA ReplaceInv ==
  ASSUME EnvGood, NEW u \in User, ~Aborted, call[u].pc = "scan", Matches(u),
         name' = Append(name, call[u].key), environ' = [environ EXCEPT ![call[u].at] = Len(name')],
         To(u, "idle"), UNCHANGED freed
  PROVE  EnvGood'
<1>1. \A v \in User : ~Removing(v)
  BY NoHole
<1>2. PICK i \in 1..Last : i = call[u].at /\ Used(i) /\ NameAt(i) = call[u].key
  BY FoundEntry
<1>3. EnvTypes /\ call[u].at \in Nat /\ environ[i] \in 1..Len(name) /\ name \in Seq(Key)
  BY <1>2, FoundEntry, CallFields DEF EnvGood, EnvTypes
<1>4. /\ call' \in [User -> Calls] /\ call'[u].pc = "idle" /\ \A v \in User \ {u} : call'[v] = call[v]
  BY <1>3, Gone DEF To
<1>5. PICK n \in Nat \ {0} : n = Len(name) + 1 /\ 1..Len(name) \subseteq 1..n /\ n \in 1..n /\ n \notin 1..Len(name)
  BY <1>3, SMTT(30), Z3T(30)
<1>6. call[u].key \in Key
  <2>1. name[environ[i]] \in Key
    BY <1>3, SMTT(30), Z3T(30)
  <2> QED BY <1>2, <2>1 DEF NameAt
<1>7. name' \in Seq(Key) /\ Len(name') = n /\ name'[n] = call[u].key /\ \A b \in 1..Len(name) : name'[b] = name[b]
  BY <1>3, <1>5, <1>6, SMTT(30), Z3T(30)
<1>8. /\ environ' \in [1..Last -> Nat \cup {NoEntry}] /\ environ'[i] = n
      /\ \A j \in 1..Last \ {i} : environ'[j] = environ[j]
  BY <1>2, <1>5, <1>7 DEF EnvGood, EnvTypes
<1>9. n # NoEntry
  BY <1>5, EnvironAssumption
<1>10. ASSUME NEW j \in 1..Last PROVE (Used(j)' <=> Used(j)) /\ (Used(j) => NameAt(j)' = NameAt(j))
  <2>1. CASE j = i
    BY <1>2, <1>7, <1>8, <1>9, <2>1 DEF Used, NameAt
  <2>2. CASE j # i
    <3>1. environ'[j] = environ[j] /\ (Used(j) => environ[j] \in 1..Len(name))
      BY <1>8, <2>2 DEF EnvGood, EnvTypes
    <3> QED BY <1>7, <3>1 DEF Used, NameAt
  <2> QED BY <2>1, <2>2
<1>11. EnvTypes'
  <2>1. freed' \subseteq 1..Len(name')
    BY <1>5, <1>7 DEF EnvGood, EnvTypes
  <2>2. ASSUME NEW j \in 1..Last, Used(j)' PROVE environ'[j] \in 1..Len(name')
    <3>1. CASE j = i
      BY <1>5, <1>7, <1>8, <3>1
    <3>2. CASE j # i
      BY <1>5, <1>7, <1>8, <1>10, <2>2, <3>2 DEF EnvGood, EnvTypes
    <3> QED BY <3>1, <3>2
  <2> QED BY <1>4, <1>7, <1>8, <2>1, <2>2 DEF EnvTypes
<1>12. \A v \in User : ~Removing(v)'
  BY <1>1, <1>4 DEF Removing
<1>13. \A j : Solid(j) /\ Solid(j)'
  BY <1>1, <1>12 DEF Solid
<1>14. Vector'
  <2>1. Last \in 1..Last
    BY LastNat, SMTT(30), Z3T(30)
  <2>2. Closed'
    BY <1>10, <2>1 DEF EnvGood, Vector, Closed
  <2>3. Distinct'
    BY <1>10, <1>13 DEF EnvGood, Vector, Distinct
  <2>4. Live'
    <3> SUFFICES ASSUME NEW j \in 1..Last, Used(j)' PROVE environ'[j] \notin freed
      BY DEF Live
    <3>1. CASE j = i
      BY <1>5, <1>8, <3>1 DEF EnvGood, EnvTypes
    <3>2. CASE j # i
      BY <1>8, <1>10, <1>13, <3>2 DEF EnvGood, Vector, Live
    <3> QED BY <3>1, <3>2
  <2>5. Kept'
    <3> SUFFICES ASSUME NEW k \in Range(Inherited)
                 PROVE  \/ \E j \in 1..Last : Solid(j)' /\ Used(j)' /\ NameAt(j)' = k
                        \/ \E b \in freed : name'[b] = k
      BY DEF Kept
    <3>1. \A b \in freed : name'[b] = name[b]
      BY <1>7 DEF EnvGood, EnvTypes
    <3>2. CASE \E j \in 1..Last : Used(j) /\ NameAt(j) = k
      BY <1>10, <1>13, <3>2
    <3>3. CASE \E b \in freed : name[b] = k
      BY <3>1, <3>3
    <3> QED BY <3>2, <3>3 DEF EnvGood, Vector, Kept
  <2> QED BY <2>2, <2>3, <2>4, <2>5 DEF Vector
<1>15. CallInv(u)'
  BY <1>4 DEF CallInv
<1>16. ASSUME NEW v \in User \ {u} PROVE CallInv(v)'
  <2>1. call'[v] = call[v] /\ call[v].pc \notin {"shift", "abort"} /\ CallInv(v)
    BY <1>1, <1>4 DEF EnvGood, Removing, Aborted
  <2>2. Passed(v) => Passed(v)'
    <3> SUFFICES ASSUME Passed(v), NEW j \in 1..Last, j < call[v].at
                 PROVE  Used(j)' /\ NameAt(j)' # call[v].key
      BY <2>1 DEF Passed
    <3> QED BY <1>10 DEF Passed
  <2>3. Passed(v) => (Used(call[v].at)' <=> Used(call[v].at))
    BY <1>10, <2>1 DEF Passed
  <2> QED BY <2>1, <2>2, <2>3 DEF CallInv
<1> QED BY <1>11, <1>14, <1>15, <1>16 DEF EnvGood

LEMMA SetInv ==
  ASSUME EnvGood, NEW u \in User, setenv(u)
  PROVE  EnvGood'
<1>1. call[u].pc = "scan" /\ ~Aborted /\ call[u].op = "set"
  BY DEF setenv, Looks
<1>2. CASE Onward(u)
  BY <1>1, <1>2, OnwardInv
<1>3. CASE /\ Matches(u) /\ name' = Append(name, call[u].key)
           /\ environ' = [environ EXCEPT ![call[u].at] = Len(name')] /\ To(u, "idle") /\ UNCHANGED freed
  BY <1>1, <1>3, ReplaceInv
<1>4. CASE Ended(u) /\ To(u, "abort") /\ UNCHANGED <<environ, name, freed>>
  BY <1>1, <1>4, EndedInv
<1> QED BY <1>2, <1>3, <1>4 DEF setenv

(* One call removes the entry at i, and the others are idle. *)
LEMMA OneHole ==
  ASSUME NEW u \in User, Removing(u), \A v \in User \ {u} : call[v].pc = "idle"
  PROVE  \A j : Solid(j) <=> j # call[u].at
BY DEF Solid, Removing

LEMMA RemoveInv ==
  ASSUME EnvGood, NEW u \in User, call[u].pc = "scan", call[u].op = "unset", RemoveFound(u), ~overlapped'
  PROVE  EnvGood'
<1>1. \A v \in User : ~Removing(v)
  BY NoHole
<1>2. Matches(u) /\ UNCHANGED <<environ, name>> /\ Others(u) = {}
  BY DEF RemoveFound, RemoveFrom
<1>3. PICK i \in 1..Last :
        /\ i = call[u].at /\ Entry(u) = environ[i] /\ Used(i) /\ environ[i] \in 1..Len(name) /\ environ[i] \notin freed
  BY <1>2, FoundEntry DEF Entry
<1>4. i \in Nat /\ EnvTypes
  BY <1>3, CallFields DEF EnvGood
<1>5. \A v \in User \ {u} : call[v].pc = "idle"
  BY <1>2 DEF Others
<1>6. CASE environ[i] \in AtStart /\ To(u, "abort") /\ UNCHANGED freed
  <2>1. /\ call' \in [User -> Calls] /\ call'[u].at = i /\ call'[u].op = "unset" /\ call'[u].pc = "abort"
        /\ \A v \in User \ {u} : call'[v] = call[v]
    BY <1>3, <1>4, <1>6, Gone DEF To
  <2>2. CallInv(u)'
    BY <1>2, <1>6, <2>1 DEF CallInv, Entry, AtStart
  <2> QED BY <1>1, <1>2, <1>6, <2>1, <2>2, CallStep
<1>7. CASE Goes(u, i, "shift") /\ freed' = freed \cup {environ[i]}
  <2>1. /\ call' \in [User -> Calls] /\ call'[u].at = i /\ call'[u].pc = "shift"
        /\ \A v \in User \ {u} : call'[v] = call[v]
    BY <1>4, <1>7, Gone
  <2>2. \A j : Solid(j) /\ (Solid(j)' <=> j # i)
    <3>1. Removing(u)' /\ \A v \in User \ {u} : call'[v].pc = "idle"
      BY <1>5, <2>1 DEF Removing
    <3>2. \A v \in User \ {u} : ~Removing(v)'
      BY <3>1 DEF Removing
    <3> QED BY <1>1, <2>1, <3>1, <3>2 DEF Solid
  <2>3. \A j : (Used(j)' <=> Used(j)) /\ NameAt(j)' = NameAt(j)
    BY <1>2 DEF Used, NameAt
  <2>4. EnvTypes'
    BY <1>2, <1>3, <1>7, <2>1 DEF EnvGood, EnvTypes, Used
  <2>5. Closed'
    BY <2>3 DEF EnvGood, Vector, Closed
  <2>6. Distinct'
    BY <2>2, <2>3 DEF EnvGood, Vector, Distinct
  <2>7. Live'
    <3> SUFFICES ASSUME NEW j \in 1..Last, j # i, Used(j) PROVE environ'[j] \notin freed'
      BY <2>2, <2>3 DEF Live
    <3>1. environ[j] \notin freed
      BY <2>2 DEF EnvGood, Vector, Live
    <3>2. environ[j] # environ[i]
      <4>1. NameAt(j) # NameAt(i)
        BY <1>3, <2>2 DEF EnvGood, Vector, Distinct
      <4> QED BY <4>1 DEF NameAt
    <3> QED BY <1>2, <1>7, <3>1, <3>2
  <2>8. Kept'
    <3> SUFFICES ASSUME NEW k \in Range(Inherited)
                 PROVE  \/ \E j \in 1..Last : Solid(j)' /\ Used(j)' /\ NameAt(j)' = k
                        \/ \E b \in freed' : name'[b] = k
      BY DEF Kept
    <3>1. CASE \E b \in freed : name[b] = k
      BY <1>2, <1>7, <3>1
    <3>2. ASSUME NEW j \in 1..Last, Used(j), NameAt(j) = k
          PROVE  \/ \E o \in 1..Last : Solid(o)' /\ Used(o)' /\ NameAt(o)' = k
                 \/ \E b \in freed' : name'[b] = k
      <4>1. CASE j = i
        BY <1>2, <1>7, <3>2, <4>1 DEF NameAt
      <4>2. CASE j # i
        BY <2>2, <2>3, <3>2, <4>2
      <4> QED BY <4>1, <4>2
    <3> QED BY <3>1, <3>2 DEF EnvGood, Vector, Kept
  <2>9. ASSUME NEW v \in User PROVE CallInv(v)'
    <3>1. CASE v = u
      BY <1>3, <1>5, <2>1, <3>1 DEF CallInv
    <3>2. CASE v # u
      <4>1. call'[v].pc = "idle"
        BY <1>5, <2>1, <3>2
      <4> QED BY <4>1 DEF CallInv
    <3> QED BY <3>1, <3>2
  <2> QED BY <2>4, <2>5, <2>6, <2>7, <2>8, <2>9 DEF EnvGood, Vector
<1> QED BY <1>3, <1>6, <1>7 DEF RemoveFound, RemoveFrom

LEMMA UnsetInv ==
  ASSUME EnvGood, NEW u \in User, unsetenv(u), ~overlapped'
  PROVE  EnvGood'
<1>1. call[u].pc = "scan" /\ call[u].op = "unset"
  BY DEF unsetenv, Looks
<1>2. CASE Onward(u)
  BY <1>1, <1>2, OnwardInv
<1>3. CASE RemoveFound(u)
  BY <1>1, <1>3, RemoveInv
<1>4. CASE Ended(u) /\ To(u, "idle") /\ UNCHANGED <<environ, name, freed>>
  BY <1>1, <1>4, EndedInv
<1> QED BY <1>2, <1>3, <1>4 DEF unsetenv

(* The rest of the vector moves down by one place, an entry a step. *)
LEMMA ShiftInv ==
  ASSUME EnvGood, NEW u \in User, Shift(u)
  PROVE  EnvGood'
<1>1. call[u].pc = "shift" /\ UNCHANGED <<name, freed>> /\ Removing(u)
  BY DEF Shift, Removing
<1>2. PICK i \in 1..Last : i = call[u].at
  BY <1>1 DEF EnvGood, CallInv
<1>3. \A v \in User \ {u} : call[v].pc = "idle"
  BY <1>1 DEF EnvGood, CallInv
<1>4. \A j : Solid(j) <=> j # i
  BY <1>1, <1>2, <1>3, OneHole
<1>5. EnvTypes /\ i \in Nat
  BY <1>2, CallFields DEF EnvGood
<1>6. CASE ~Used(i) /\ To(u, "idle") /\ UNCHANGED environ
  <2>1. /\ call' \in [User -> Calls] /\ call'[u].pc = "idle" /\ \A v \in User \ {u} : call'[v] = call[v]
    BY <1>2, <1>5, <1>6, Gone DEF To
  <2>2. \A v \in User : call'[v].pc = "idle"
    BY <1>3, <2>1
  <2>3. \A j : Solid(j)'
    BY <2>2 DEF Solid, Removing
  <2>4. \A j : (Used(j)' <=> Used(j)) /\ NameAt(j)' = NameAt(j)
    BY <1>1, <1>6 DEF Used, NameAt
  <2>5. EnvTypes'
    BY <1>1, <1>6, <2>1 DEF EnvGood, EnvTypes, Used
  <2>6. Closed'
    BY <2>4 DEF EnvGood, Vector, Closed
  <2>7. Distinct'
    BY <1>4, <1>6, <2>3, <2>4 DEF EnvGood, Vector, Distinct
  <2>8. Live'
    BY <1>1, <1>4, <1>6, <2>3, <2>4 DEF EnvGood, Vector, Live
  <2>9. Kept'
    BY <1>1, <1>4, <1>6, <2>3, <2>4 DEF EnvGood, Vector, Kept
  <2>10. ASSUME NEW v \in User PROVE CallInv(v)'
    BY <2>2 DEF CallInv
  <2> QED BY <2>5, <2>6, <2>7, <2>8, <2>9, <2>10 DEF EnvGood, Vector
<1>7. CASE Used(i) /\ environ' = [environ EXCEPT ![i] = environ[i + 1]] /\ Goes(u, i + 1, "shift")
  <2>1. i # Last
    BY <1>7 DEF EnvGood, Vector, Closed
  <2>2. i + 1 \in 1..Last /\ i + 1 \in Nat /\ i + 1 # i /\ \A j \in 1..Last : i <= j <=> (j = i \/ i + 1 <= j)
    BY <1>2, <2>1, LastNat, SMTT(30), Z3T(30)
  <2>3. /\ call' \in [User -> Calls] /\ call'[u].at = i + 1 /\ call'[u].pc = "shift"
        /\ \A v \in User \ {u} : call'[v] = call[v]
    BY <1>5, <1>7, <2>2, Gone
  <2>4. \A j : Solid(j)' <=> j # i + 1
    <3>1. \A v \in User \ {u} : call'[v].pc = "idle"
      BY <1>3, <2>3
    <3> QED BY <2>3, <3>1 DEF Solid, Removing
  <2>5. /\ environ' \in [1..Last -> Nat \cup {NoEntry}] /\ environ'[i] = environ[i + 1]
        /\ \A j \in 1..Last \ {i} : environ'[j] = environ[j]
    BY <1>7, <2>2 DEF EnvGood, EnvTypes
  <2>6. /\ (Used(i)' <=> Used(i + 1)) /\ NameAt(i)' = NameAt(i + 1)
        /\ \A j \in 1..Last \ {i} : (Used(j)' <=> Used(j)) /\ NameAt(j)' = NameAt(j)
    BY <1>1, <2>5 DEF Used, NameAt
  <2>7. EnvTypes'
    <3>1. ASSUME NEW j \in 1..Last, Used(j)' PROVE environ'[j] \in 1..Len(name')
      <4>1. CASE j = i
        BY <1>1, <2>2, <2>5, <2>6, <3>1, <4>1 DEF EnvGood, EnvTypes
      <4>2. CASE j # i
        BY <1>1, <2>5, <2>6, <3>1, <4>2 DEF EnvGood, EnvTypes
      <4> QED BY <4>1, <4>2
    <3> QED BY <1>1, <2>3, <2>5, <3>1 DEF EnvGood, EnvTypes
  <2>8. Closed'
    <3>1. ~Used(Last)'
      BY <2>1, <2>6, LastNat DEF EnvGood, Vector, Closed
    <3>2. ASSUME NEW a \in 1..Last, NEW b \in 1..Last, a <= b, ~Used(a)' PROVE ~Used(b)'
      <4>1. CASE a = i
        <5>1. ~Used(i + 1)
          BY <2>6, <3>2, <4>1
        <5>2. b = i \/ i + 1 <= b
          BY <2>2, <3>2, <4>1
        <5> QED BY <2>2, <2>6, <3>2, <4>1, <5>1, <5>2 DEF EnvGood, Vector, Closed
      <4>2. CASE a # i /\ b = i
        <5>1. ~Used(a) /\ a <= i + 1
          <6>1. ~Used(a)
            BY <2>6, <3>2, <4>2
          <6>2. a <= i + 1
            BY <3>2, <4>2, <1>5, SMTT(30), Z3T(30)
          <6> QED BY <6>1, <6>2
        <5> QED BY <2>2, <2>6, <4>2, <5>1 DEF EnvGood, Vector, Closed
      <4>3. CASE a # i /\ b # i
        BY <2>6, <3>2, <4>3 DEF EnvGood, Vector, Closed
      <4> QED BY <4>1, <4>2, <4>3
    <3> QED BY <3>1, <3>2 DEF Closed
  <2>9. Distinct'
    <3> SUFFICES ASSUME NEW a \in 1..Last, NEW b \in 1..Last, a # i + 1, b # i + 1, Used(a)', Used(b)',
                        NameAt(a)' = NameAt(b)'
                 PROVE  a = b
      BY <2>4 DEF Distinct
    <3> DEFINE o(j) == IF j = i THEN i + 1 ELSE j
    <3>1. ASSUME NEW j \in 1..Last, j # i + 1, Used(j)'
          PROVE  o(j) \in 1..Last /\ Solid(o(j)) /\ Used(o(j)) /\ NameAt(j)' = NameAt(o(j))
      BY <1>4, <2>2, <2>6, <3>1
    <3>2. o(a) = o(b)
      <4> HIDE DEF o
      <4> QED BY <3>1 DEF EnvGood, Vector, Distinct
    <3> QED BY <3>2
  <2>10. Live'
    <3> SUFFICES ASSUME NEW j \in 1..Last, j # i + 1, Used(j)' PROVE environ'[j] \notin freed'
      BY <2>4 DEF Live
    <3>1. CASE j = i
      BY <1>1, <1>4, <2>2, <2>5, <2>6, <3>1 DEF EnvGood, Vector, Live
    <3>2. CASE j # i
      BY <1>1, <1>4, <2>5, <2>6, <3>2 DEF EnvGood, Vector, Live
    <3> QED BY <3>1, <3>2
  <2>11. Kept'
    <3> SUFFICES ASSUME NEW k \in Range(Inherited)
                 PROVE  \/ \E j \in 1..Last : Solid(j)' /\ Used(j)' /\ NameAt(j)' = k
                        \/ \E b \in freed' : name'[b] = k
      BY DEF Kept
    <3>1. CASE \E b \in freed : name[b] = k
      BY <1>1, <3>1
    <3>2. ASSUME NEW j \in 1..Last, Solid(j), Used(j), NameAt(j) = k
          PROVE  \E l \in 1..Last : Solid(l)' /\ Used(l)' /\ NameAt(l)' = k
      <4>1. CASE j = i + 1
        BY <2>2, <2>4, <2>6, <3>2, <4>1
      <4>2. CASE j # i + 1
        BY <1>4, <2>4, <2>6, <3>2, <4>2
      <4> QED BY <4>1, <4>2
    <3> QED BY <3>1, <3>2 DEF EnvGood, Vector, Kept
  <2>12. ASSUME NEW v \in User PROVE CallInv(v)'
    BY <1>3, <2>2, <2>3 DEF CallInv
  <2> QED BY <2>7, <2>8, <2>9, <2>10, <2>11, <2>12 DEF EnvGood, Vector
<1> QED BY <1>2, <1>6, <1>7 DEF Shift, Ended, Entry, Used

LEMMA EnvironStarts == EnvironInit => EnvInv
<1> SUFFICES ASSUME EnvironInit PROVE EnvGood
  BY DEF EnvInv
<1>1. /\ environ = [i \in 1..Last |-> IF i \in AtStart THEN i ELSE NoEntry] /\ name = Inherited
      /\ freed = {} /\ call = [u \in User |-> NoCall]
  BY DEF EnvironInit, Last
<1>2. \A u \in User : call[u].pc = "idle"
  BY <1>1 DEF NoCall
<1>3. \A i : Solid(i)
  BY <1>2 DEF Solid, Removing
<1>4. /\ Last \in 1..Last /\ Last \notin AtStart /\ AtStart \subseteq 1..Last /\ AtStart \subseteq Nat
      /\ \A i \in 1..Last : i \notin AtStart => i = Last
      /\ \A j \in 1..Last : Last <= j => j = Last
  BY LastNat, SMTT(30), Z3T(30) DEF Last, AtStart
<1>5. \A i \in 1..Last : /\ (Used(i) <=> i \in AtStart)
                         /\ Used(i) => environ[i] = i /\ NameAt(i) = Inherited[i]
  BY <1>1, <1>4, EnvironAssumption DEF Used, NameAt
<1>6. EnvTypes
  <2>1. environ \in [1..Last -> Nat \cup {NoEntry}]
    BY <1>1, <1>4
  <2>2. NoCall \in Calls
    <3>1. 0 \in Nat
      BY SMTT(30), Z3T(30)
    <3> QED BY <3>1 DEF NoCall, Calls
  <2> QED BY <1>1, <1>5, <2>1, <2>2, EnvironAssumption DEF EnvTypes, AtStart
<1>7. Closed
  BY <1>4, <1>5 DEF Closed
<1>8. DOMAIN Inherited = AtStart
  BY EnvironAssumption, SMTT(30), Z3T(30) DEF AtStart
<1>9. Distinct
  <2> SUFFICES ASSUME NEW i \in 1..Last, NEW j \in 1..Last, Used(i), Used(j), NameAt(i) = NameAt(j)
               PROVE  i = j
    BY DEF Distinct
  <2>1. i \in DOMAIN Inherited /\ j \in DOMAIN Inherited /\ Inherited[i] = Inherited[j]
    BY <1>5, <1>8
  <2> QED BY <2>1, EnvironAssumption DEF IsInjective
<1>10. Live
  BY <1>1 DEF Live
<1>11. Kept
  <2> SUFFICES ASSUME NEW k \in Range(Inherited) PROVE \E i \in 1..Last : Solid(i) /\ Used(i) /\ NameAt(i) = k
    BY DEF Kept
  <2>1. PICK i \in AtStart : Inherited[i] = k
    BY <1>8 DEF Range
  <2> QED BY <1>3, <1>4, <1>5, <2>1
<1>12. \A u \in User : CallInv(u)
  BY <1>2 DEF CallInv
<1> QED BY <1>6, <1>7, <1>9, <1>10, <1>11, <1>12 DEF EnvGood, Vector

LEMMA EnvironSteps == EnvInv /\ [EnvironNext]_environVars => EnvInv'
<1> SUFFICES ASSUME EnvInv, [EnvironNext]_environVars, ~overlapped' PROVE EnvGood'
  BY DEF EnvInv
<1>1. CASE UNCHANGED environVars
  <2>1. EnvGood
    BY <1>1 DEF EnvInv, environVars
  <2>2. UNCHANGED <<environ, name, freed, call>>
    BY <1>1 DEF environVars
  <2>3. \A i : (Solid(i)' <=> Solid(i)) /\ (Used(i)' <=> Used(i)) /\ NameAt(i)' = NameAt(i)
    BY <2>2 DEF Solid, Used, NameAt, Removing
  <2>4. EnvTypes'
    BY <2>1, <2>2 DEF EnvGood, EnvTypes, Used
  <2>5. Closed' /\ Distinct' /\ Live'
    BY <2>1, <2>2, <2>3 DEF EnvGood, Vector, Closed, Distinct, Live
  <2>6. Kept'
    BY <2>1, <2>2, <2>3 DEF EnvGood, Vector, Kept
  <2>7. ASSUME NEW u \in User PROVE CallInv(u)'
    BY <2>1, <2>2 DEF EnvGood, CallInv, Passed, Used, NameAt, Entry, AtStart
  <2> QED BY <2>4, <2>5, <2>6, <2>7 DEF EnvGood, Vector
<1>2. ASSUME NEW u \in User, NEW op \in {"get", "set", "unset"}, NEW k \in Key, Enter(u, op, k) PROVE EnvGood'
  <2>1. EnvGood
    BY <1>2 DEF EnvInv, Enter
  <2> QED BY <1>2, <2>1, EnterInv
<1>3. ASSUME NEW u \in User, getenv(u) \/ setenv(u) \/ Shift(u) PROVE EnvGood'
  <2>1. EnvGood
    BY <1>3 DEF EnvInv, getenv, setenv, Shift, Onward
  <2> QED BY <1>3, <2>1, GetInv, SetInv, ShiftInv
<1>4. ASSUME NEW u \in User, unsetenv(u) PROVE EnvGood'
  <2>1. EnvGood
    <3>1. ~RemoveFound(u) => UNCHANGED overlapped
      BY <1>4 DEF unsetenv, Onward
    <3>2. RemoveFound(u) => ~overlapped
      BY DEF RemoveFound, RemoveFrom
    <3> QED BY <3>1, <3>2 DEF EnvInv
  <2> QED BY <1>4, <2>1, UnsetInv
<1> QED BY <1>1, <1>2, <1>3, <1>4 DEF EnvironNext

(* getenv, setenv and unsetenv (os.c:134-201) agree on the variables, for  *)
(* every number of threads, every environment and every sequence of calls, *)
(* as long as no unsetenv runs beside another call.                        *)
THEOREM EnvironCallsAgree == EnvironSpec => []EnvironAgrees
<1>1. EnvInv => EnvironAgrees
  <2> SUFFICES ASSUME EnvGood, ~overlapped PROVE EnvironAgrees
    BY DEF EnvInv, EnvironAgrees
  <2>1. \A b \in Listed : \E i \in 1..Last : Used(i) /\ environ[i] = b
    <3>1. DOMAIN environ = 1..Last
      BY DEF EnvGood, EnvTypes
    <3> QED BY <3>1 DEF Listed, Used
  <2>2. ASSUME NEW u \in User, Passed(u), ~Used(call[u].at) PROVE call[u].key \notin Present
    <3> SUFFICES ASSUME NEW i \in 1..Last, Used(i), NameAt(i) = call[u].key PROVE FALSE
      <4> SUFFICES ASSUME NEW b \in Listed, name[b] = call[u].key
                   PROVE  \E i \in 1..Last : Used(i) /\ NameAt(i) = call[u].key
        BY DEF Present
      <4> QED BY <2>1 DEF NameAt
    <3>1. ~(i < call[u].at) /\ call[u].at \in 1..Last
      BY <2>2 DEF Passed
    <3>2. call[u].at <= i
      BY <3>1, LastNat, SMTT(30), Z3T(30)
    <3> QED BY <2>2, <3>1, <3>2 DEF EnvGood, Vector, Closed
  <2>3. ASSUME NEW u \in User
        PROVE  /\ call[u].pc = "missed" => call[u].key \notin Present
               /\ call[u].pc = "found" => call[u].at \notin freed
               /\ call[u].pc = "abort" =>
                    IF call[u].op = "set" THEN call[u].key \notin Present ELSE Entry(u) \in AtStart
    BY <2>2 DEF EnvGood, CallInv
  <2>4. ASSUME \A u \in User : ~Removing(u)
        PROVE  /\ Listed \cap freed = {} /\ \A b, c \in Listed : name[b] = name[c] => b = c
               /\ \A k \in {Inherited[i] : i \in AtStart} \ Present : \E b \in freed : name[b] = k
    <3>1. \A i : Solid(i)
      BY <2>4 DEF Solid
    <3>2. Listed \cap freed = {}
      BY <2>1, <3>1 DEF EnvGood, Vector, Live
    <3>3. \A b, c \in Listed : name[b] = name[c] => b = c
      BY <2>1, <3>1 DEF EnvGood, Vector, Distinct, NameAt
    <3>4. ASSUME NEW k \in {Inherited[i] : i \in AtStart} \ Present PROVE \E b \in freed : name[b] = k
      <4>1. k \in Range(Inherited)
        <5>1. DOMAIN Inherited = AtStart
          BY EnvironAssumption, SMTT(30), Z3T(30) DEF AtStart
        <5> QED BY <5>1 DEF Range
      <4>2. ASSUME NEW i \in 1..Last, Used(i), NameAt(i) = k PROVE FALSE
        <5>1. environ[i] \in Listed
          BY <4>2 DEF EnvGood, EnvTypes, Listed, Used
        <5> QED BY <4>2, <5>1 DEF Present, NameAt
      <4> QED BY <4>1, <4>2 DEF EnvGood, Vector, Kept
    <3> QED BY <3>2, <3>3, <3>4
  <2> QED BY <2>3, <2>4 DEF EnvironAgrees
<1> QED BY <1>1, EnvironStarts, EnvironSteps, PTL DEF EnvironSpec

-----------------------------------------------------------------------------
(***************************************************************************)
(* SyncIO, for any files, descriptors, amounts and short counts. The       *)
(* inductive invariant says of a call that nobody disturbs what its loop   *)
(* has moved so far.                                                       *)
(***************************************************************************)

(* What is in the local variables of a call, and outside of one. *)
InCall(j) ==
  /\ j.op \in {"read", "write"} /\ j.file \in Files /\ j.fd \in Fds
  /\ j.n \in Amounts /\ j.off \in Offsets /\ j.total \in 0..j.n

SyncTypes ==
  /\ disk \in [Files -> Seq(Nat)] /\ table \in [Fds -> Files \cup {Idle}]
  /\ pos \in [Fds -> Nat] /\ handle \in [Files -> Fds \cup {Idle}]
  /\ DOMAIN job = Caller /\ DOMAIN moved = Caller

(* The descriptor in an open FILE refers to its file. *)
Opened == \A f \in Files : handle[f] # Idle => table[handle[f]] = f

(* What a call that nobody crossed has moved so far. *)
HasRead(j, m) ==
  /\ \A i \in 1..j.total : m[i] = disk[j.file][j.off + i]
  /\ j.pc = "ok" => j.total = j.n \/ j.off + j.total >= Len(disk[j.file])
HasWritten(j, m) ==
  /\ \E p \in Nat : /\ \A i \in 1..j.total : m[i] = <<j.file, p + i, Content[j.off + i]>>
                    /\ j.pc = "loop" => pos[j.fd] = p + j.total
  /\ j.pc = "ok" => j.total = j.n
Whole(j, m) ==
  /\ DOMAIN m = 1..j.total /\ (j.pc = "loop" => table[j.fd] = j.file)
  /\ j.op = "read" => HasRead(j, m)
  /\ j.op = "write" => HasWritten(j, m)

JobInv(t) ==
  IF job[t].pc = "idle" THEN moved[t] = <<>> /\ t \notin crossed
  ELSE InCall(job[t]) /\ (t \notin crossed => Whole(job[t], moved[t]))

SyncInv == SyncTypes /\ Opened /\ \A t \in Caller : JobInv(t)
-----------------------------------------------------------------------------
(* A call that the step is not about. *)
LEMMA OtherJob ==
  ASSUME SyncInv, NEW u \in Caller, job'[u] = job[u],
         IF job[u].pc = "idle" \/ u \notin crossed' THEN u \notin crossed /\ u \notin crossed' /\ moved'[u] = moved[u] ELSE TRUE,
         job[u].pc # "idle" /\ u \notin crossed' =>
           /\ disk'[job[u].file] = disk[job[u].file]
           /\ job[u].pc = "loop" => table'[job[u].fd] = table[job[u].fd] /\ pos'[job[u].fd] = pos[job[u].fd]
  PROVE  JobInv(u)'
<1>1. CASE job[u].pc = "idle"
  BY <1>1 DEF SyncInv, JobInv
<1>2. CASE job[u].pc # "idle"
  <2>1. InCall(job[u])'
    BY <1>2 DEF SyncInv, JobInv, InCall
  <2>2. ASSUME u \notin crossed' PROVE Whole(job[u], moved[u])'
    <3>1. Whole(job[u], moved[u]) /\ moved'[u] = moved[u]
      BY <1>2, <2>2 DEF SyncInv, JobInv
    <3>2. HasRead(job[u], moved[u]) => HasRead(job[u], moved[u])'
      BY <1>2, <2>2, <3>1 DEF HasRead
    <3>3. HasWritten(job[u], moved[u]) => HasWritten(job[u], moved[u])'
      BY <1>2, <2>2, <3>1 DEF HasWritten
    <3> QED BY <1>2, <2>2, <3>1, <3>2, <3>3 DEF Whole
  <2> QED BY <1>2, <2>1, <2>2 DEF JobInv
<1> QED BY <1>1, <1>2

(* A call by t on descriptor d or file f leaves the calls it does not      *)
(* disturb as they are.                                                    *)
Spared(u, d, f) ==
  /\ job[u].pc = "idle" \/ u \notin crossed' => u \notin crossed /\ u \notin crossed' /\ moved'[u] = moved[u]
  /\ job[u].pc # "idle" /\ u \notin crossed' => job[u].fd # d /\ job[u].file # f

LEMMA Disturbed ==
  ASSUME SyncInv, NEW t \in Caller, NEW d, NEW f, NEW s, Disturb(t, d, f, s), NEW u \in Caller \ {t}
  PROVE  Spared(u, d, f)
BY DEF Disturb, Hit, SyncInv, JobInv, Spared

LEMMA DisturbsNotSelf ==
  ASSUME NEW t \in Caller, NEW d, NEW f, NEW s, Disturb(t, d, f, s)
  PROVE  /\ moved'[t] = s /\ DOMAIN moved' = Caller /\ (t \in crossed' <=> t \in crossed)
BY DEF Disturb, Hit

LEMMA OpenInv == ASSUME SyncInv, NEW t \in Caller, NEW f \in Files, fopen(t, f) PROVE SyncInv'
<1>1. UNCHANGED <<disk, job, moved, crossed>>
  BY DEF fopen
<1>2. PICK d \in Fds : /\ table[d] = Idle /\ table' = [table EXCEPT ![d] = f]
                       /\ pos' = [pos EXCEPT ![d] = 0] /\ handle' = [handle EXCEPT ![f] = d]
  BY DEF fopen, FreeFds
<1>3. 0 \in Nat
  BY SMTT(30), Z3T(30)
<1>4. SyncTypes'
  BY <1>1, <1>2, <1>3 DEF SyncInv, SyncTypes
<1>5. /\ table'[d] = f /\ \A e \in Fds \ {d} : table'[e] = table[e] /\ pos'[e] = pos[e]
      /\ handle'[f] = d /\ \A g \in Files \ {f} : handle'[g] = handle[g]
  BY <1>2 DEF SyncInv, SyncTypes
<1>6. Opened'
  <2> SUFFICES ASSUME NEW g \in Files, handle'[g] # Idle PROVE table'[handle'[g]] = g
    BY DEF Opened
  <2>1. CASE g = f
    BY <1>5, <2>1
  <2>2. CASE g # f
    <3>0. handle'[g] = handle[g] /\ handle[g] # Idle
      BY <1>5, <2>2
    <3>1. table[handle[g]] = g /\ handle[g] \in Fds
      BY <3>0 DEF SyncInv, SyncTypes, Opened
    <3> QED BY <1>2, <1>5, <3>0, <3>1, SyncAssumption
  <2> QED BY <2>1, <2>2
<1>7. ASSUME NEW u \in Caller PROVE JobInv(u)'
  <2>1. ASSUME job[u].pc = "loop", u \notin crossed PROVE job[u].fd \in Fds \ {d}
    <3>1. InCall(job[u]) /\ Whole(job[u], moved[u])
      BY <2>1 DEF SyncInv, JobInv
    <3> QED BY <1>2, <2>1, <3>1, SyncAssumption DEF InCall, Whole
  <2>2. job[u].pc = "idle" => u \notin crossed
    BY DEF SyncInv, JobInv
  <2> QED BY <1>1, <1>5, <2>1, <2>2, OtherJob
<1> QED BY <1>4, <1>6, <1>7 DEF SyncInv

LEMMA CloseInv == ASSUME SyncInv, NEW t \in Caller, NEW f \in Files, fclose(t, f) PROVE SyncInv'
<1>1. /\ UNCHANGED <<disk, pos, job>> /\ job[t].pc = "idle" /\ Disturb(t, handle[f], f, <<>>)
      /\ table' = [table EXCEPT ![handle[f]] = Idle] /\ handle' = [handle EXCEPT ![f] = Idle]
  BY DEF fclose
<1>2. handle[f] \in Fds /\ table[handle[f]] = f
  BY DEF fclose, SyncInv, SyncTypes, Opened
<1>3. moved'[t] = <<>> /\ DOMAIN moved' = Caller /\ (t \in crossed' <=> t \in crossed)
  BY <1>1, DisturbsNotSelf
<1>4. SyncTypes'
  BY <1>1, <1>2, <1>3 DEF SyncInv, SyncTypes
<1>5. /\ \A e \in Fds \ {handle[f]} : table'[e] = table[e]
      /\ handle'[f] = Idle /\ \A g \in Files \ {f} : handle'[g] = handle[g]
  BY <1>1 DEF SyncInv, SyncTypes
<1>6. Opened'
  <2> SUFFICES ASSUME NEW g \in Files, handle'[g] # Idle PROVE table'[handle'[g]] = g
    BY DEF Opened
  <2>1. g # f /\ handle'[g] = handle[g] /\ table[handle[g]] = g /\ handle[g] \in Fds
    BY <1>5 DEF SyncInv, SyncTypes, Opened
  <2> QED BY <1>2, <1>5, <2>1
<1>7. JobInv(t)'
  BY <1>1, <1>3 DEF SyncInv, JobInv
<1>8. ASSUME NEW u \in Caller \ {t} PROVE JobInv(u)'
  <2>1. job[u].pc # "idle" => job[u].fd \in Fds
    BY DEF SyncInv, JobInv, InCall
  <2>2. Spared(u, handle[f], f)
    BY <1>1, Disturbed
  <2> QED BY <1>1, <1>5, <2>1, <2>2, OtherJob DEF Spared
<1> QED BY <1>4, <1>6, <1>7, <1>8 DEF SyncInv

LEMMA SeekInv == ASSUME SyncInv, NEW t \in Caller, NEW f \in Files, fseek(t, f) PROVE SyncInv'
<1>1. UNCHANGED <<disk, table, handle, job>> /\ job[t].pc = "idle" /\ Disturb(t, handle[f], f, <<>>)
  BY DEF fseek
<1>2. PICK p \in {0, Len(disk[f])} : pos' = [pos EXCEPT ![handle[f]] = p]
  BY DEF fseek
<1>3. p \in Nat
  <2>1. disk[f] \in Seq(Nat)
    BY DEF SyncInv, SyncTypes
  <2> QED BY <1>2, <2>1, SMTT(30), Z3T(30)
<1>4. moved'[t] = <<>> /\ DOMAIN moved' = Caller /\ (t \in crossed' <=> t \in crossed)
  BY <1>1, DisturbsNotSelf
<1>5. pos' \in [Fds -> Nat] /\ \A e \in Fds \ {handle[f]} : pos'[e] = pos[e]
  BY <1>2, <1>3 DEF SyncInv, SyncTypes
<1>6. SyncTypes' /\ Opened'
  BY <1>1, <1>4, <1>5 DEF SyncInv, SyncTypes, Opened
<1>7. JobInv(t)'
  BY <1>1, <1>4 DEF SyncInv, JobInv
<1>8. ASSUME NEW u \in Caller \ {t} PROVE JobInv(u)'
  <2>1. job[u].pc # "idle" => job[u].fd \in Fds
    BY DEF SyncInv, JobInv, InCall
  <2>2. Spared(u, handle[f], f)
    BY <1>1, Disturbed
  <2> QED BY <1>1, <1>5, <2>1, <2>2, OtherJob DEF Spared
<1> QED BY <1>6, <1>7, <1>8 DEF SyncInv

(* Steps that change one call and neither files nor descriptors. *)
LEMMA OwnStep ==
  ASSUME SyncInv, NEW t \in Caller, UNCHANGED <<disk, table, pos, handle>>,
         DOMAIN job' = Caller, DOMAIN moved' = Caller,
         \A u \in Caller \ {t} : job'[u] = job[u] /\ moved'[u] = moved[u] /\ (u \in crossed' <=> u \in crossed),
         JobInv(t)'
  PROVE  SyncInv'
<1>1. SyncTypes' /\ Opened'
  BY DEF SyncInv, SyncTypes, Opened
<1>2. ASSUME NEW u \in Caller \ {t} PROVE JobInv(u)'
  <2>1. job[u].pc = "idle" => u \notin crossed
    BY DEF SyncInv, JobInv
  <2> QED BY <2>1, OtherJob
<1> QED BY <1>1, <1>2 DEF SyncInv

LEMMA BeginInv ==
  ASSUME SyncInv, NEW t \in Caller, NEW op \in {"read", "write"}, NEW f \in Files, NEW n \in Amounts,
         NEW off \in Offsets, Begin(t, op, f, n, off)
  PROVE  SyncInv'
<1>1. /\ job[t].pc = "idle" /\ UNCHANGED <<disk, table, pos, handle, moved, crossed>>
      /\ handle[f] \in Fds /\ table[handle[f]] = f
  BY DEF Begin, SyncInv, SyncTypes, Opened
<1>2. PICK j : j = [op |-> op, file |-> f, fd |-> handle[f], n |-> n, off |-> off, total |-> 0, pc |-> "loop"]
  OBVIOUS
<1>3. j.op = op /\ j.file = f /\ j.fd = handle[f] /\ j.n = n /\ j.off = off /\ j.total = 0 /\ j.pc = "loop"
  BY <1>2
<1>4. /\ job' = [job EXCEPT ![t] = j] /\ job'[t] = j /\ DOMAIN job' = Caller
      /\ \A u \in Caller \ {t} : job'[u] = job[u]
  BY <1>2 DEF Begin, SyncInv, SyncTypes
<1>5. moved[t] = <<>> /\ t \notin crossed
  BY <1>1 DEF SyncInv, JobInv
<1>6. DOMAIN <<>> = 1..0 /\ 1..0 = {} /\ 0 \in 0..n /\ pos[handle[f]] = pos[handle[f]] + 0 /\ pos[handle[f]] \in Nat
  <2>1. pos[handle[f]] \in Nat /\ n \in Nat
    BY <1>1, SyncAssumption DEF SyncInv, SyncTypes
  <2> QED BY <2>1, SMTT(30), Z3T(30)
<1>7. InCall(j)
  BY <1>1, <1>3, <1>6 DEF InCall
<1>8. HasRead(job[t], moved[t])' /\ HasWritten(job[t], moved[t])'
  BY <1>1, <1>3, <1>4, <1>6 DEF HasRead, HasWritten
<1>9. JobInv(t)'
  BY <1>1, <1>3, <1>4, <1>5, <1>6, <1>7, <1>8 DEF JobInv, Whole, InCall
<1> QED BY <1>1, <1>4, <1>9, OwnStep DEF SyncInv, SyncTypes

LEMMA FinishInv == ASSUME SyncInv, NEW t \in Caller, Finish(t) PROVE SyncInv'
<1>1. /\ UNCHANGED <<disk, table, pos, handle>> /\ job' = [job EXCEPT ![t] = NoJob]
      /\ moved' = [moved EXCEPT ![t] = <<>>] /\ crossed' = crossed \ {t}
  BY DEF Finish
<1>2. /\ DOMAIN job' = Caller /\ DOMAIN moved' = Caller /\ job'[t] = NoJob /\ moved'[t] = <<>>
      /\ \A u \in Caller \ {t} : job'[u] = job[u] /\ moved'[u] = moved[u]
  BY <1>1 DEF SyncInv, SyncTypes
<1>3. JobInv(t)'
  BY <1>1, <1>2 DEF JobInv, NoJob
<1> QED BY <1>1, <1>2, <1>3, OwnStep
-----------------------------------------------------------------------------
(* What Advance leaves of the local variables. *)
Advanced(j, k, total, goto) ==
  /\ k.op = j.op /\ k.file = j.file /\ k.fd = j.fd /\ k.n = j.n /\ k.off = j.off
  /\ k.total = total /\ k.pc = goto

LEMMA AdvanceFields ==
  ASSUME SyncInv, NEW t \in Caller, NEW total, NEW goto, Advance(t, total, goto)
  PROVE  /\ Advanced(job[t], job'[t], total, goto) /\ DOMAIN job' = Caller
         /\ \A u \in Caller \ {t} : job'[u] = job[u]
<1>1. job'[t] = [op |-> job[t].op, file |-> job[t].file, fd |-> job[t].fd, n |-> job[t].n,
                 off |-> job[t].off, total |-> total, pc |-> goto]
  BY DEF Advance, SyncInv, SyncTypes
<1>2. Advanced(job[t], job'[t], total, goto)
  BY <1>1, SMTT(30), Z3T(30) DEF Advanced
<1> QED BY <1>2 DEF Advance, SyncInv, SyncTypes

(* A call returns success only with all its bytes, or with those up to the *)
(* end of the file.                                                        *)
LEMMA CallReturnInv ==
  ASSUME SyncInv, NEW t \in Caller, job[t].pc = "loop", NEW ok, Return(t, ok), UNCHANGED <<table, handle>>,
         ok /\ job[t].op = "write" => job[t].total = job[t].n,
         ok /\ job[t].op = "read" /\ table[job[t].fd] = job[t].file =>
           job[t].total = job[t].n \/ job[t].off + job[t].total >= Len(disk[job[t].file])
  PROVE  SyncInv'
<1>1. UNCHANGED <<disk, table, pos, handle, moved, crossed>> /\ Advance(t, job[t].total, IF ok THEN "ok" ELSE "failed")
  BY DEF Return
<1>2. PICK goto : goto = (IF ok THEN "ok" ELSE "failed")
  OBVIOUS
<1>3. goto # "idle" /\ goto # "loop" /\ (goto = "ok" => ok)
  BY <1>2
<1>4. Advanced(job[t], job'[t], job[t].total, goto) /\ DOMAIN job' = Caller /\ \A u \in Caller \ {t} : job'[u] = job[u]
  BY <1>1, <1>2, AdvanceFields
<1>5. InCall(job[t]) /\ (t \notin crossed => Whole(job[t], moved[t]))
  BY DEF SyncInv, JobInv
<1>6. InCall(job[t])'
  BY <1>4, <1>5 DEF InCall, Advanced
<1>7. ASSUME t \notin crossed PROVE Whole(job[t], moved[t])'
  <2>1. job[t].op = "read" => HasRead(job[t], moved[t])'
    BY <1>1, <1>3, <1>4, <1>5, <1>7 DEF Whole, HasRead, Advanced
  <2>2. job[t].op = "write" => HasWritten(job[t], moved[t])'
    BY <1>1, <1>3, <1>4, <1>5, <1>7 DEF Whole, HasWritten, Advanced
  <2> QED BY <1>1, <1>3, <1>4, <1>5, <1>7, <2>1, <2>2 DEF Whole, Advanced
<1>8. JobInv(t)'
  BY <1>1, <1>3, <1>4, <1>6, <1>7 DEF JobInv, Advanced
<1> QED BY <1>1, <1>4, <1>8, OwnStep DEF SyncInv, SyncTypes

(* The total of a call that moves k more of the bytes that are left. *)
LEMMA MoreMoved ==
  ASSUME NEW j, InCall(j), NEW k \in 1..(j.n - j.total)
  PROVE  /\ j.total \in Nat /\ j.n \in Nat /\ j.off \in Nat /\ k \in Nat /\ k >= 1
         /\ j.total + k \in 0..j.n /\ j.off + j.n <= Len(Content)
<1>1. j.n \in Amounts /\ j.off \in Offsets /\ j.total \in 0..j.n
  BY DEF InCall
<1>2. j.n \in Nat /\ j.off \in Nat /\ j.off + j.n <= Len(Content)
  BY <1>1, SyncAssumption
<1> QED BY <1>1, <1>2, SMTT(30), Z3T(30)

(* The chunk follows what has been moved before. *)
IsJoined(m, old, s, total, k) ==
  /\ DOMAIN m = 1..(total + k)
  /\ \A i \in 1..total : m[i] = old[i]
  /\ \A i \in 1..k : m[total + i] = s[i]

LEMMA JoinedChunk ==
  ASSUME NEW t \in Caller, t \notin crossed, NEW s, NEW k \in Nat, job[t].total \in Nat
  PROVE  IsJoined(Joined(t, s, k), moved[t], s, job[t].total, k)
<1> DEFINE n == job[t].total
           m == [i \in 1..(n + k) |-> IF i <= n THEN moved[t][i] ELSE s[i - n]]
<1>1. Joined(t, s, k) = m
  BY DEF Joined
<1>2. \A i \in 1..n : i \in 1..(n + k) /\ i <= n
  BY SMTT(30), Z3T(30)
<1>3. \A i \in 1..k : n + i \in 1..(n + k) /\ ~(n + i <= n) /\ (n + i) - n = i
  BY SMTT(30), Z3T(30)
<1>4. \A i \in 1..n : m[i] = moved[t][i]
  BY <1>2
<1>5. ASSUME NEW i \in 1..k PROVE m[n + i] = s[i]
  <2>1. m[n + i] = s[(n + i) - n]
    BY <1>3
  <2> QED BY <1>3, <2>1
<1>6. DOMAIN m = 1..(n + k)
  OBVIOUS
<1> HIDE DEF m
<1> QED BY <1>1, <1>4, <1>5, <1>6 DEF IsJoined

LEMMA ReadInv ==
  ASSUME SyncInv, NEW t \in Caller, In(t, "read"), UNCHANGED <<table, handle, disk, pos, crossed>>,
         NEW r \in 1..(job[t].n - job[t].total), Advance(t, job[t].total + r, "loop"),
         moved' = [moved EXCEPT ![t] = Joined(t, ReadChunk(job[t], r), r)]
  PROVE  SyncInv'
<1>1. InCall(job[t]) /\ (t \notin crossed => Whole(job[t], moved[t])) /\ job[t].op = "read" /\ job[t].pc = "loop"
  BY DEF SyncInv, JobInv, In
<1>2. /\ Advanced(job[t], job'[t], job[t].total + r, "loop") /\ DOMAIN job' = Caller
      /\ \A u \in Caller \ {t} : job'[u] = job[u]
  BY AdvanceFields
<1>3. /\ job[t].total \in Nat /\ job[t].off \in Nat /\ r \in Nat /\ job[t].total + r \in 0..job[t].n
  BY <1>1, MoreMoved
<1>4. /\ moved'[t] = Joined(t, ReadChunk(job[t], r), r) /\ DOMAIN moved' = Caller
      /\ \A u \in Caller \ {t} : moved'[u] = moved[u]
  BY DEF SyncInv, SyncTypes
<1>5. InCall(job[t])'
  BY <1>1, <1>2, <1>3 DEF InCall, Advanced
<1>6. ASSUME t \notin crossed PROVE Whole(job[t], moved[t])'
  <2>1. IsJoined(moved'[t], moved[t], ReadChunk(job[t], r), job[t].total, r)
    BY <1>3, <1>4, <1>6, JoinedChunk
  <2>2. HasRead(job[t], moved[t]) /\ table[job[t].fd] = job[t].file
    BY <1>1, <1>6 DEF Whole
  <2>3. ASSUME NEW i \in 1..(job[t].total + r) PROVE moved'[t][i] = disk[job[t].file][job[t].off + i]
    <3>1. CASE i \in 1..job[t].total
      BY <2>1, <2>2, <3>1 DEF IsJoined, HasRead
    <3>2. CASE i \notin 1..job[t].total
      <4>1. PICK e \in 1..r : i = job[t].total + e
        <5>1. i - job[t].total \in 1..r /\ i = job[t].total + (i - job[t].total)
          BY <1>3, <3>2, SMTT(30), Z3T(30)
        <5> QED BY <5>1
      <4>2. moved'[t][i] = ReadChunk(job[t], r)[e]
        BY <2>1, <4>1 DEF IsJoined
      <4>3. ReadChunk(job[t], r)[e] = disk[job[t].file][job[t].off + job[t].total + e]
        BY <2>2 DEF ReadChunk
      <4>4. job[t].off + job[t].total + e = job[t].off + i
        BY <1>3, <4>1, SMTT(30), Z3T(30)
      <4> QED BY <4>2, <4>3, <4>4
    <3> QED BY <3>1, <3>2
  <2>4. HasRead(job[t], moved[t])'
    BY <1>2, <2>3 DEF HasRead, Advanced
  <2>5. DOMAIN moved'[t] = 1..(job[t].total + r)
    BY <2>1 DEF IsJoined
  <2> QED BY <1>1, <1>2, <2>2, <2>4, <2>5 DEF Whole, Advanced
<1>7. JobInv(t)'
  BY <1>2, <1>5, <1>6 DEF JobInv, Advanced
<1> QED BY <1>2, <1>4, <1>7, OwnStep

LEMMA SliceInside ==
  ASSUME NEW off \in Nat, NEW total \in Nat, NEW i \in Nat, NEW n \in Nat, NEW len \in Nat,
         i >= 1, total + i <= n, off + n <= len
  PROVE  off + total + i \in 1..len
BY SMTT(30), Z3T(30)

(* A write of the buffer's bytes leaves a file of bytes. *)
LEMMA ChunkBytes ==
  ASSUME NEW j, InCall(j), NEW w \in 1..(j.n - j.total)
  PROVE  WriteChunk(j, w) \in [1..w -> Nat]
<1>1. /\ j.total \in Nat /\ j.n \in Nat /\ j.off \in Nat /\ w \in Nat
      /\ j.total + w \in 0..j.n /\ j.off + j.n <= Len(Content)
  BY MoreMoved
<1>2. ASSUME NEW i \in 1..w PROVE Content[j.off + j.total + i] \in Nat
  <2>1. j.off + j.total + i \in 1..Len(Content)
    <3>1. Len(Content) \in Nat
      BY SyncAssumption, SMTT(30), Z3T(30)
    <3>2. j.total + i <= j.n /\ i >= 1 /\ i \in Nat
      BY <1>1, SMTT(30), Z3T(30)
    <3> QED BY <1>1, <3>1, <3>2, SliceInside
  <2> QED BY <2>1, SyncAssumption, SMTT(30), Z3T(30)
<1> QED BY <1>2 DEF WriteChunk

LEMMA StoredBytes ==
  ASSUME NEW bs \in Seq(Nat), NEW p \in Nat, NEW w \in Nat, NEW s \in [1..w -> Nat]
  PROVE  Stored(bs, p, s, w) \in Seq(Nat)
<1>1. PICK n \in Nat : n = IF Len(bs) > p + w THEN Len(bs) ELSE p + w
  BY SMTT(30), Z3T(30)
<1>2. ASSUME NEW i \in 1..n
      PROVE  (IF i > p /\ i <= p + w THEN s[i - p] ELSE IF i <= Len(bs) THEN bs[i] ELSE 0) \in Nat
  <2>1. i > p /\ i <= p + w => i - p \in 1..w
    BY SMTT(30), Z3T(30)
  <2> QED BY <2>1, SMTT(30), Z3T(30)
<1>3. Stored(bs, p, s, w) \in [1..n -> Nat]
  BY <1>1, <1>2 DEF Stored
<1> QED BY <1>3, SMTT(30), Z3T(30)

(* Byte e of a chunk that starts n bytes into the call. *)
LEMMA Position ==
  ASSUME NEW q \in Nat, NEW n \in Nat, NEW e \in Nat
  PROVE  (q + n) + e = q + (n + e)
BY SMTT(30), Z3T(30)

(* fwrite puts the w bytes s of its chunk at position p of file f. *)
Writes(t, w, f, p, s) ==
  /\ UNCHANGED <<table, handle>> /\ table[job[t].fd] # Idle
  /\ f = table[job[t].fd] /\ p = pos[job[t].fd]
  /\ s = [i \in 1..w |-> <<f, p + i, WriteChunk(job[t], w)[i]>>]
  /\ disk' = [disk EXCEPT ![f] = Stored(disk[f], p, WriteChunk(job[t], w), w)]
  /\ pos' = [pos EXCEPT ![job[t].fd] = p + w]
  /\ Advance(t, job[t].total + w, "loop") /\ Disturb(t, job[t].fd, f, Joined(t, s, w))

LEMMA WriteInv ==
  ASSUME SyncInv, NEW t \in Caller, In(t, "write"), NEW w \in 1..(job[t].n - job[t].total),
         NEW f, NEW p, NEW s, Writes(t, w, f, p, s)
  PROVE  SyncInv'
<1>1. InCall(job[t]) /\ (t \notin crossed => Whole(job[t], moved[t])) /\ job[t].op = "write" /\ job[t].pc = "loop"
  BY DEF SyncInv, JobInv, In
<1>2. /\ Advanced(job[t], job'[t], job[t].total + w, "loop") /\ DOMAIN job' = Caller
      /\ \A u \in Caller \ {t} : job'[u] = job[u]
  BY AdvanceFields DEF Writes
<1>3. /\ job[t].total \in Nat /\ job[t].off \in Nat /\ w \in Nat /\ job[t].total + w \in 0..job[t].n
  BY <1>1, MoreMoved
<1>4. moved'[t] = Joined(t, s, w) /\ DOMAIN moved' = Caller /\ (t \in crossed' <=> t \in crossed)
  BY DisturbsNotSelf DEF Writes
<1>5. job[t].fd \in Fds /\ f \in Files /\ p \in Nat /\ p + w \in Nat
  <2>1. job[t].fd \in Fds /\ f \in Files /\ p \in Nat
    BY <1>1 DEF InCall, SyncInv, SyncTypes, Writes
  <2> QED BY <1>3, <2>1, SMTT(30), Z3T(30)
<1>6. SyncTypes' /\ Opened'
  <2>1. Stored(disk[f], p, WriteChunk(job[t], w), w) \in Seq(Nat)
    BY <1>1, <1>3, <1>5, ChunkBytes, StoredBytes DEF SyncInv, SyncTypes
  <2>2. disk' \in [Files -> Seq(Nat)] /\ pos' \in [Fds -> Nat]
    BY <1>5, <2>1 DEF SyncInv, SyncTypes, Writes
  <2> QED BY <1>2, <1>4, <2>2 DEF SyncInv, SyncTypes, Opened, Writes
<1>7. InCall(job[t])'
  BY <1>1, <1>2, <1>3 DEF InCall, Advanced
<1>8. ASSUME t \notin crossed PROVE Whole(job[t], moved[t])'
  <2>1. IsJoined(moved'[t], moved[t], s, job[t].total, w)
    BY <1>3, <1>4, <1>8, JoinedChunk
  <2>2. HasWritten(job[t], moved[t]) /\ f = job[t].file
    BY <1>1, <1>8 DEF Whole, Writes
  <2>3. PICK q \in Nat : /\ \A i \in 1..job[t].total : moved[t][i] = <<job[t].file, q + i, Content[job[t].off + i]>>
                         /\ p = q + job[t].total
    BY <1>1, <2>2 DEF HasWritten, Writes
  <2>4. ASSUME NEW i \in 1..(job[t].total + w)
        PROVE  moved'[t][i] = <<job[t].file, q + i, Content[job[t].off + i]>>
    <3>1. CASE i \in 1..job[t].total
      BY <2>1, <2>3, <3>1 DEF IsJoined
    <3>2. CASE i \notin 1..job[t].total
      <4>1. PICK e \in 1..w : i = job[t].total + e
        <5>1. i - job[t].total \in 1..w /\ i = job[t].total + (i - job[t].total)
          BY <1>3, <3>2, SMTT(30), Z3T(30)
        <5> QED BY <5>1
      <4>2. moved'[t][i] = s[e]
        BY <2>1, <4>1 DEF IsJoined
      <4>3. s[e] = <<job[t].file, p + e, Content[job[t].off + job[t].total + e]>>
        BY <2>2 DEF WriteChunk, Writes
      <4>4. job[t].off + job[t].total + e = job[t].off + i /\ p + e = q + i
        <5>1. e \in Nat
          BY <1>3, <4>1, SMTT(30), Z3T(30)
        <5>2. job[t].off \in Nat /\ job[t].total \in Nat
          BY <1>3
        <5>3. (job[t].off + job[t].total) + e = job[t].off + (job[t].total + e)
          BY <5>1, <5>2, Position
        <5>4. (q + job[t].total) + e = q + (job[t].total + e)
          BY <5>1, <5>2, Position
        <5>5. p + e = q + i
          BY <2>3, <4>1, <5>4
        <5> QED BY <4>1, <5>3, <5>5
      <4> QED BY <4>2, <4>3, <4>4
    <3> QED BY <3>1, <3>2
  <2>5. pos'[job[t].fd] = q + (job[t].total + w)
    <3>1. pos'[job[t].fd] = p + w
      BY <1>5 DEF SyncInv, SyncTypes, Writes
    <3>2. (q + job[t].total) + w = q + (job[t].total + w)
      BY <1>3, Position
    <3> QED BY <2>3, <3>1, <3>2
  <2>6. HasWritten(job[t], moved[t])'
    BY <1>2, <2>4, <2>5 DEF HasWritten, Advanced
  <2>7. DOMAIN moved'[t] = 1..(job[t].total + w)
    BY <2>1 DEF IsJoined
  <2>8. UNCHANGED table
    BY DEF Writes
  <2> QED BY <1>1, <1>2, <2>2, <2>6, <2>7, <2>8 DEF Whole, Advanced, Writes
<1>9. JobInv(t)'
  BY <1>2, <1>4, <1>7, <1>8 DEF JobInv, Advanced
<1>10. ASSUME NEW u \in Caller \ {t} PROVE JobInv(u)'
  <2>1. job[u].pc # "idle" => job[u].fd \in Fds /\ job[u].file \in Files
    BY DEF SyncInv, JobInv, InCall
  <2>2. Spared(u, job[t].fd, f)
    BY Disturbed DEF Writes
  <2>3. /\ \A d \in Fds \ {job[t].fd} : pos'[d] = pos[d]
        /\ \A g \in Files \ {f} : disk'[g] = disk[g]
    BY DEF SyncInv, SyncTypes, Writes
  <2>4. UNCHANGED table
    BY DEF Writes
  <2> QED BY <1>2, <2>1, <2>2, <2>3, <2>4, OtherJob DEF Spared
<1> QED BY <1>6, <1>9, <1>10 DEF SyncInv
-----------------------------------------------------------------------------
LEMMA FreadInv == ASSUME SyncInv, NEW t \in Caller, fread(t) PROVE SyncInv'
<1> DEFINE j == job[t]
           f == table[j.fd]
           done == j.total = j.n \/ f = Idle \/ j.off + j.total >= Len(disk[f])
<1>1. In(t, "read") /\ j.pc = "loop" /\ j.op = "read" /\ UNCHANGED <<table, handle>> /\ j.file \in Files
  BY DEF fread, In, SyncInv, JobInv, InCall
<1>2. CASE done /\ Return(t, j.total = j.n \/ f # Idle)
  BY <1>1, <1>2, CallReturnInv, SyncAssumption
<1>3. CASE Return(t, FALSE)
  BY <1>1, <1>3, CallReturnInv
<1>4. ASSUME NEW r \in 1..(j.n - j.total), Advance(t, j.total + r, "loop"),
             moved' = [moved EXCEPT ![t] = Joined(t, ReadChunk(j, r), r)], UNCHANGED <<disk, pos, crossed>>
      PROVE  SyncInv'
  BY <1>1, <1>4, ReadInv
<1> QED BY <1>2, <1>3, <1>4 DEF fread

LEMMA FwriteInv == ASSUME SyncInv, NEW t \in Caller, fwrite(t) PROVE SyncInv'
<1> DEFINE j == job[t]
           f == table[j.fd]
           p == pos[j.fd]
<1>1. In(t, "write") /\ j.pc = "loop" /\ j.op = "write" /\ UNCHANGED <<table, handle>>
  BY DEF fwrite, In
<1>2. CASE Return(t, j.total = j.n)
  BY <1>1, <1>2, CallReturnInv
<1>3. CASE Return(t, FALSE)
  BY <1>1, <1>3, CallReturnInv
<1>4. ASSUME f # Idle, NEW w \in 1..(j.n - j.total), disk' = [disk EXCEPT ![f] = Stored(@, p, WriteChunk(j, w), w)],
             pos' = [pos EXCEPT ![j.fd] = p + w], Advance(t, j.total + w, "loop"),
             Disturb(t, j.fd, f, Joined(t, [i \in 1..w |-> <<f, p + i, WriteChunk(j, w)[i]>>], w))
      PROVE  SyncInv'
  <2>1. PICK s : s = [i \in 1..w |-> <<f, p + i, WriteChunk(j, w)[i]>>]
    OBVIOUS
  <2>2. Writes(t, w, f, p, s)
    BY <1>1, <1>4, <2>1 DEF Writes
  <2> QED BY <1>1, <2>2, WriteInv
<1> QED BY <1>2, <1>3, <1>4 DEF fwrite

LEMMA SyncStarts == SyncInit => SyncInv
<1> SUFFICES ASSUME SyncInit PROVE SyncInv
  OBVIOUS
<1>1. <<>> \in Seq(Nat) /\ 0 \in Nat
  BY SMTT(30), Z3T(30)
<1>2. SyncTypes /\ Opened
  BY <1>1 DEF SyncInit, SyncTypes, Opened
<1>3. ASSUME NEW t \in Caller PROVE JobInv(t)
  <2>1. job[t] = NoJob /\ moved[t] = <<>> /\ t \notin crossed
    BY DEF SyncInit
  <2>2. NoJob.pc = "idle"
    BY DEF NoJob
  <2> QED BY <2>1, <2>2 DEF JobInv
<1> QED BY <1>2, <1>3 DEF SyncInv

LEMMA SyncSteps == SyncInv /\ [SyncNext]_syncVars => SyncInv'
<1> SUFFICES ASSUME SyncInv, [SyncNext]_syncVars PROVE SyncInv'
  OBVIOUS
<1>1. CASE UNCHANGED syncVars
  <2>1. UNCHANGED <<disk, table, pos, handle, job, moved, crossed>>
    BY <1>1 DEF syncVars
  <2>2. SyncTypes' /\ Opened'
    BY <2>1 DEF SyncInv, SyncTypes, Opened
  <2>3. ASSUME NEW t \in Caller PROVE JobInv(t)'
    <3>1. InCall(job[t])' <=> InCall(job[t])
      BY <2>1 DEF InCall
    <3>2. Whole(job[t], moved[t])' <=> Whole(job[t], moved[t])
      BY <2>1 DEF Whole, HasRead, HasWritten
    <3>3. JobInv(t)
      BY DEF SyncInv
    <3> QED BY <2>1, <3>1, <3>2, <3>3 DEF JobInv
  <2> QED BY <2>2, <2>3 DEF SyncInv
<1>2. ASSUME NEW t \in Caller, fread(t) PROVE SyncInv'
  BY <1>2, FreadInv
<1>3. ASSUME NEW t \in Caller, fwrite(t) PROVE SyncInv'
  BY <1>3, FwriteInv
<1>4. ASSUME NEW t \in Caller, Finish(t) PROVE SyncInv'
  BY <1>4, FinishInv
<1>5. ASSUME NEW t \in Caller, NEW f \in Files, fopen(t, f) PROVE SyncInv'
  BY <1>5, OpenInv
<1>6. ASSUME NEW t \in Caller, NEW f \in Files, fclose(t, f) PROVE SyncInv'
  BY <1>6, CloseInv
<1>7. ASSUME NEW t \in Caller, NEW f \in Files, fseek(t, f) PROVE SyncInv'
  BY <1>7, SeekInv
<1>8. ASSUME NEW t \in Caller, NEW f \in Files, NEW n \in Amounts, NEW off \in Offsets,
             NEW op \in {"read", "write"}, Begin(t, op, f, n, off)
      PROVE  SyncInv'
  BY <1>8, BeginInv
<1> QED BY <1>1, <1>2, <1>3, <1>4, <1>5, <1>6, <1>7, <1>8 DEF SyncNext

LEMMA SyncMovesWhole == SyncInv => CallsMoveWhole
<1> SUFFICES ASSUME SyncInv, NEW t \in Caller \ crossed, job[t].pc = "ok"
             PROVE  /\ job[t].op = "write" => WriteWhole(job[t], moved[t])
                    /\ job[t].op = "read" => ReadWhole(job[t], moved[t])
  BY DEF CallsMoveWhole
<1> DEFINE j == job[t]
           m == moved[t]
<1>1. InCall(j) /\ Whole(j, m)
  BY DEF SyncInv, JobInv
<1>2. ASSUME j.op = "read" PROVE ReadWhole(j, m)
  BY <1>1, <1>2 DEF Whole, HasRead, ReadWhole
<1>3. ASSUME j.op = "write" PROVE WriteWhole(j, m)
  <2>1. j.total = j.n /\ DOMAIN m = 1..j.n
    BY <1>1, <1>3 DEF Whole, HasWritten
  <2>2. PICK p \in Nat : \A i \in 1..j.n : m[i] = <<j.file, p + i, Content[j.off + i]>>
    BY <1>1, <1>3, <2>1 DEF Whole, HasWritten
  <2>3. j.n \in Nat /\ 1 \in 1..j.n
    <3>1. j.n \in Nat \ {0}
      BY <1>1, SyncAssumption DEF InCall
    <3> QED BY <3>1, SMTT(30), Z3T(30)
  <2>4. m[1][2] = p + 1
    <3>1. m[1] = <<j.file, p + 1, Content[j.off + 1]>>
      BY <2>2, <2>3
    <3> HIDE DEF m, j
    <3> QED BY <3>1, SMTT(30), Z3T(30)
  <2>5. ASSUME NEW i \in 1..j.n PROVE m[1][2] + i - 1 = p + i
    BY <2>3, <2>4, <2>5, SMTT(30), Z3T(30)
  <2> QED BY <2>1, <2>2, <2>5 DEF WriteWhole
<1> QED BY <1>2, <1>3

(* fread and fwrite (runtime/src/diskio.c) loop over pread and write, which *)
(* may move fewer bytes than asked.  For any number of tasks, files and    *)
(* descriptors, any buffer and arguments, and any files opened, moved and  *)
(* closed between two system calls, a call that reports success and that   *)
(* nobody crossed has moved its bytes whole: a write its slice of the    *)
(* buffer into its own file in one piece, a read the bytes at its offset   *)
(* up to the end of the file.                                              *)
THEOREM SyncCallsMoveWhole == SyncSpec => []CallsMoveWhole
<1>1. SyncInit => SyncInv
  BY SyncStarts
<1>2. SyncInv /\ [SyncNext]_syncVars => SyncInv'
  BY SyncSteps
<1>3. SyncInv => CallsMoveWhole
  BY SyncMovesWhole
<1> QED BY <1>1, <1>2, <1>3, PTL DEF SyncSpec

-----------------------------------------------------------------------------
(***************************************************************************)
(* Build, for any packages and import graphs, cyclic ones included. The    *)
(* inductive invariant says, phase by phase, which of the files in the     *)
(* build directory are made from the sources as they are.                  *)
(***************************************************************************)

(* A file that build.meta is not older than, a package for which that holds *)
(* of all it reaches, and an object file compiled from just these.         *)
Old(p) == files[p] # NoFile /\ files[p].time <= meta
Sure(p) == \A q \in Reach(files, {p}) : Old(q)
Fresh(x, p) ==
  /\ x # NoFile /\ x.time = files[p].time
  /\ \A u \in x.uses : u[1] \in Reach(files, {p}) /\ u[2] = files[u[1]].time

BuildTypes ==
  /\ files \in [Pkg -> Source \cup {NoFile}] /\ packages \in [Pkg -> Source \cup {NoFile}]
  /\ exports \in [Pkg -> Source \cup {NoFile}]
  /\ DOMAIN ll = Pkg /\ now \in Nat /\ meta \in Nat /\ meta <= now
  /\ \A p \in Have(files) : 0 < files[p].time /\ files[p].time <= now
  /\ dirty \subseteq Pkg /\ (phase \in {"idle", "checked", "parsed"} => builtPkgs = {})

(* Between builds. *)
AtRest ==
  /\ \A p \in Pkg : Old(p) => exports[p] = files[p]
  /\ \A p \in Pkg : Sure(p) => Fresh(ll[p], p)

(* What the generator knows before build.meta is written. *)
Changed == findModifiedPkgs(meta)
DirtySound ==
  /\ Changed \subseteq dirty /\ Neglected = {}
  /\ \A p \in Reach(files, {MAIN}) \cap Have(files) : files[p].imports \cap dirty # {} => p \in dirty
Parsed == packages = [p \in Pkg |-> IF p \in dirty THEN files[p] ELSE NoFile]

Compiling ==
  /\ \A p \in Pkg : Old(p) => Known[p] = files[p]
  /\ \A p \in Pkg : Sure(p) => p \in ToBuild \ builtPkgs \/ Fresh(ll[p], p)

Phases ==
  /\ phase # "compiling" => AtRest
  /\ phase \in {"checked", "parsed"} => DirtySound
  /\ phase = "parsed" => Parsed
  /\ phase = "compiling" => Compiling
  /\ phase = "linked" => exe = ll
BuildInv == BuildTypes /\ (causes = {} => Phases)
-----------------------------------------------------------------------------
LEMMA ReachHas == ASSUME NEW f, NEW S, NEW p \in S \cap Pkg PROVE p \in Reach(f, S)
BY DEF Reach

LEMMA ReachIn == ASSUME NEW f, NEW from PROVE Reach(f, from) \subseteq Pkg
BY DEF Reach

LEMMA ReachLeast ==
  ASSUME NEW f, NEW from, NEW S \in SUBSET Pkg, from \subseteq S, ImportsIn(f, S)
  PROVE  Reach(f, from) \subseteq S
BY DEF Reach

LEMMA ReachOn ==
  ASSUME NEW f \in [Pkg -> Source \cup {NoFile}], NEW from, NEW p \in Reach(f, from), f[p] # NoFile
  PROVE  f[p].imports \subseteq Reach(f, from)
<1>1. p \in Pkg /\ f[p] \in Source
  BY DEF Reach
<1>2. f[p].imports \subseteq Pkg
  BY <1>1 DEF Source
<1>3. ASSUME NEW q \in f[p].imports, NEW S \in SUBSET Pkg, from \subseteq S, ImportsIn(f, S) PROVE q \in S
  <2>1. p \in S
    BY <1>3 DEF Reach
  <2> QED BY <1>1, <1>3, <2>1 DEF ImportsIn, Have
<1> QED BY <1>2, <1>3 DEF Reach

LEMMA ReachWithin ==
  ASSUME NEW f \in [Pkg -> Source \cup {NoFile}], NEW from, NEW p \in Reach(f, from)
  PROVE  Reach(f, {p}) \subseteq Reach(f, from)
<1>1. Reach(f, from) \in SUBSET Pkg /\ {p} \subseteq Reach(f, from)
  BY ReachIn
<1>2. ImportsIn(f, Reach(f, from))
  BY ReachOn DEF ImportsIn, Have
<1> QED BY <1>1, <1>2, ReachLeast

(* What is reached depends on the files that are reached only. *)
LEMMA ReachSame ==
  ASSUME NEW f \in [Pkg -> Source \cup {NoFile}], NEW g \in [Pkg -> Source \cup {NoFile}], NEW from,
         \A p \in Reach(f, from) : g[p] = f[p], from \subseteq Pkg
  PROVE  Reach(g, from) = Reach(f, from)
<1>1. Reach(f, from) \in SUBSET Pkg /\ from \subseteq Reach(f, from)
  BY ReachIn, ReachHas
<1>2. ImportsIn(g, Reach(f, from))
  <2> SUFFICES ASSUME NEW p \in Reach(f, from), g[p] # NoFile PROVE g[p].imports \subseteq Reach(f, from)
    BY DEF ImportsIn, Have
  <2> QED BY ReachOn
<1>3. Reach(g, from) \subseteq Reach(f, from)
  BY <1>1, <1>2, ReachLeast
<1>4. Reach(g, from) \in SUBSET Pkg /\ from \subseteq Reach(g, from)
  BY ReachIn, ReachHas
<1>5. ImportsIn(f, Reach(g, from))
  <2> SUFFICES ASSUME NEW p \in Reach(g, from), f[p] # NoFile PROVE f[p].imports \subseteq Reach(g, from)
    BY DEF ImportsIn, Have
  <2>1. g[p] = f[p]
    BY <1>3
  <2> QED BY <2>1, ReachOn
<1>6. Reach(f, from) \subseteq Reach(g, from)
  BY <1>4, <1>5, ReachLeast
<1> QED BY <1>3, <1>6
-----------------------------------------------------------------------------
LEMMA SureIsOld == ASSUME NEW p \in Pkg, Sure(p) PROVE Old(p)
<1>1. p \in Reach(files, {p})
  BY ReachHas
<1> QED BY <1>1 DEF Sure

LEMMA FilesTyped ==
  ASSUME BuildTypes
  PROVE  /\ files \in [Pkg -> Source \cup {NoFile}] /\ packages \in [Pkg -> Source \cup {NoFile}]
         /\ exports \in [Pkg -> Source \cup {NoFile}]
BY DEF BuildTypes

(* An edited or deleted file is no longer older than build.meta, and the   *)
(* packages that do not reach it are as they were.                         *)
Touched(e) == (\A p \in Pkg \ {e} : files'[p] = files[p]) /\ ~Old(e)' /\ meta' = meta

LEMMA TouchedOld == ASSUME NEW e, Touched(e), NEW p \in Pkg, Old(p)' PROVE Old(p) /\ files'[p] = files[p] /\ p # e
BY DEF Touched, Old

LEMMA TouchedSure ==
  ASSUME BuildTypes, BuildTypes', NEW e, Touched(e), NEW p \in Pkg, Sure(p)'
  PROVE  /\ Sure(p) /\ Reach(files, {p})' = Reach(files, {p})
         /\ \A q \in Reach(files, {p}) : files'[q] = files[q]
<1>1. files \in [Pkg -> Source \cup {NoFile}] /\ files' \in [Pkg -> Source \cup {NoFile}]
  BY DEF BuildTypes
<1>2. \A q \in Reach(files', {p}) : q \in Pkg /\ Old(q)'
  BY ReachIn DEF Sure
<1>3. \A q \in Reach(files', {p}) : Old(q) /\ files'[q] = files[q]
  BY <1>2, TouchedOld
<1>4. Reach(files, {p}) = Reach(files', {p})
  BY <1>1, <1>3, ReachSame
<1> QED BY <1>3, <1>4 DEF Sure

LEMMA TouchedFresh ==
  ASSUME BuildTypes, BuildTypes', NEW e, Touched(e), NEW p \in Pkg, Sure(p)', NEW x, Fresh(x, p)
  PROVE  /\ x # NoFile /\ x.time = files'[p].time
         /\ \A u \in x.uses : u[1] \in Reach(files', {p}) /\ u[2] = files'[u[1]].time
<1>1. /\ Reach(files', {p}) = Reach(files, {p}) /\ \A q \in Reach(files, {p}) : files'[q] = files[q]
  BY TouchedSure
<1>2. p \in Reach(files, {p})
  BY ReachHas
<1> QED BY <1>1, <1>2 DEF Fresh

(* Edit and Delete. *)
LEMMA TouchInv ==
  ASSUME BuildInv, BuildTypes', NEW e, Touched(e), UNCHANGED <<phase, genVars, outVars>>, causes' = causes \cup Racing
  PROVE  BuildInv'
<1> SUFFICES ASSUME causes' = {} PROVE Phases'
  BY DEF BuildInv
<1>1. /\ causes = {} /\ Phases /\ phase \notin {"checked", "parsed"} /\ BuildTypes
  BY DEF BuildInv, Racing
<1>2. UNCHANGED <<phase, dirty, packages, builtPkgs, ll, exports, exe>>
  BY DEF genVars, outVars
<1>3. ASSUME NEW p \in Pkg, Sure(p)', NEW x, Fresh(x, p), x = ll[p] PROVE Fresh(ll[p], p)'
  BY <1>1, <1>2, <1>3, TouchedFresh DEF Fresh
<1>4. AtRest => AtRest'
  <2> SUFFICES ASSUME AtRest PROVE AtRest'
    OBVIOUS
  <2>1. ASSUME NEW p \in Pkg, Old(p)' PROVE exports'[p] = files'[p]
    BY <1>2, <2>1, TouchedOld DEF AtRest
  <2>2. ASSUME NEW p \in Pkg, Sure(p)' PROVE Fresh(ll[p], p)'
    BY <1>1, <1>3, <2>2, TouchedSure DEF AtRest
  <2> QED BY <2>1, <2>2 DEF AtRest
<1>5. Compiling => Compiling'
  <2> SUFFICES ASSUME Compiling PROVE Compiling'
    OBVIOUS
  <2>1. Known' = Known /\ ToBuild' = ToBuild
    BY <1>2 DEF Known, ToBuild, Have
  <2>2. ASSUME NEW p \in Pkg, Old(p)' PROVE Known'[p] = files'[p]
    BY <2>1, <2>2, TouchedOld DEF Compiling
  <2>3. ASSUME NEW p \in Pkg, Sure(p)' PROVE p \in ToBuild' \ builtPkgs' \/ Fresh(ll[p], p)'
    <3>1. p \in ToBuild \ builtPkgs \/ Fresh(ll[p], p)
      BY <1>1, <2>3, TouchedSure DEF Compiling
    <3> QED BY <1>2, <1>3, <2>1, <2>3, <3>1
  <2> QED BY <2>2, <2>3 DEF Compiling
<1> QED BY <1>1, <1>2, <1>4, <1>5 DEF Phases

LEMMA SourceFields == ASSUME NEW s \in Nat, NEW i \in SUBSET Pkg
                      PROVE  [time |-> s, imports |-> i] \in Source /\ [time |-> s, imports |-> i].time = s
BY DEF Source

LEMMA StillLater == ASSUME NEW m \in Nat, NEW n \in Nat, m <= n PROVE m <= n + 1
BY SMTT(30), Z3T(30)

LEMMA EditInv == ASSUME BuildInv, NEW p \in Pkg, NEW imports \in Imports[p], Edit(p, imports) PROVE BuildInv'
<1>1. /\ UNCHANGED <<meta, phase, genVars, outVars>> /\ causes' = causes \cup Racing /\ now' = now + 1
      /\ files' = [files EXCEPT ![p] = [time |-> now', imports |-> imports]]
  BY DEF Edit
<1>2. BuildTypes /\ now \in Nat /\ meta \in Nat /\ meta <= now
  BY DEF BuildInv, BuildTypes
<1>3. now' \in Nat /\ meta <= now' /\ ~(now' <= meta) /\ 0 < now' /\ now' <= now' /\ now <= now'
  BY <1>1, <1>2, SMTT(30), Z3T(30)
<1>4. imports \in SUBSET Pkg
  BY BuildAssumption
<1>5. /\ files' \in [Pkg -> Source \cup {NoFile}] /\ files'[p].time = now'
      /\ \A q \in Pkg \ {p} : files'[q] = files[q]
  BY <1>1, <1>2, <1>3, <1>4, SourceFields, FilesTyped
<1>6. \A q \in Have(files') : 0 < files'[q].time /\ files'[q].time <= now'
  <2> SUFFICES ASSUME NEW q \in Pkg, files'[q] # NoFile, q # p PROVE 0 < files'[q].time /\ files'[q].time <= now'
    BY <1>3, <1>5 DEF Have
  <2>1. 0 < files[q].time /\ files[q].time <= now /\ files[q].time \in Nat
    <3>1. files[q] \in Source /\ q \in Have(files)
      BY <1>2, <1>5 DEF BuildTypes, Have
    <3> QED BY <1>2, <3>1 DEF BuildTypes, Source
  <2>2. files[q].time <= now'
    BY <1>1, <1>2, <2>1, StillLater
  <2> QED BY <1>5, <2>1, <2>2
<1>7. BuildTypes'
  BY <1>1, <1>2, <1>3, <1>5, <1>6 DEF BuildTypes, genVars, outVars
<1>8. Touched(p)
  BY <1>1, <1>3, <1>5 DEF Touched, Old
<1> QED BY <1>1, <1>7, <1>8, TouchInv

LEMMA DeleteInv == ASSUME BuildInv, NEW p \in Pkg, Delete(p) PROVE BuildInv'
<1>1. /\ UNCHANGED <<now, meta, phase, genVars, outVars>> /\ causes' = causes \cup Racing
      /\ files' = [files EXCEPT ![p] = NoFile]
  BY DEF Delete
<1>2. /\ files' \in [Pkg -> Source \cup {NoFile}] /\ files'[p] = NoFile /\ \A q \in Pkg \ {p} : files'[q] = files[q]
  BY <1>1 DEF BuildInv, BuildTypes
<1>3. BuildTypes'
  BY <1>1, <1>2 DEF BuildInv, BuildTypes, genVars, outVars, Have
<1>4. Touched(p)
  BY <1>1, <1>2 DEF Touched, Old
<1> QED BY <1>1, <1>3, <1>4, TouchInv
-----------------------------------------------------------------------------
(* The sources and what was built from them are as they were. *)
LEMMA SameRest == ASSUME UNCHANGED <<files, meta, exports, ll>> PROVE AtRest' <=> AtRest
BY DEF AtRest, Old, Sure, Fresh

(* propagateModified has the modified packages, and with a package those   *)
(* that import it.                                                         *)
Propagated(D, initial, reverse) == initial \subseteq D /\ D \subseteq Pkg /\ \A q \in D : reverse[q] \subseteq D

LEMMA DirtyClosed ==
  ASSUME NEW initial \in SUBSET Pkg, NEW reverse \in [Pkg -> SUBSET Pkg]
  PROVE  Propagated(propagateModified(initial, reverse), initial, reverse)
BY DEF propagateModified, Propagated

LEMMA CheckInv == ASSUME BuildInv, CheckBuildCache PROVE BuildInv'
<1>1. /\ phase = "idle" /\ phase' = "checked" /\ UNCHANGED <<files, now, meta, packages, builtPkgs, ll, exports, exe>>
      /\ causes' = IF Neglected = {} THEN causes ELSE causes \cup {"unreached"}
  BY DEF CheckBuildCache, outVars
<1> DEFINE reverse == reverseImportTree(buildTree)
<1>2. files \in [Pkg -> Source \cup {NoFile}]
  BY DEF BuildInv, BuildTypes
<1>3. reverse \in [Pkg -> SUBSET Pkg]
  BY DEF reverseImportTree, Have
<1>4. findModifiedPkgs(meta) \in SUBSET Pkg /\ dirty' = propagateModified(findModifiedPkgs(meta), reverse)
  BY DEF CheckBuildCache, findModifiedPkgs, Have
<1> HIDE DEF reverse
<1>5. Changed \subseteq dirty' /\ dirty' \subseteq Pkg /\ \A q \in dirty' : reverse[q] \subseteq dirty'
  <2>1. Propagated(dirty', findModifiedPkgs(meta), reverse)
    BY <1>3, <1>4, DirtyClosed
  <2> QED BY <2>1 DEF Propagated, Changed
<1>6. BuildTypes'
  BY <1>1, <1>5 DEF BuildInv, BuildTypes, Have
<1>7. ASSUME causes' = {} PROVE Phases'
  <2>1. causes = {} /\ Neglected = {} /\ Phases
    BY <1>1, <1>7 DEF BuildInv
  <2>2. ASSUME NEW p \in Reach(files, {MAIN}) \cap Have(files), NEW q \in files[p].imports \cap dirty' PROVE p \in dirty'
    <3>1. p \in Pkg /\ buildTree[p] = files[p] /\ p \in Have(buildTree) /\ q \in Pkg
      BY <1>5 DEF buildTree, Have
    <3>2. p \in reverse[q]
      BY <3>1 DEF reverse, reverseImportTree
    <3> QED BY <1>5, <3>2
  <2>3. Changed' = Changed /\ Neglected' = Neglected
    BY <1>1 DEF Changed, Neglected, findModifiedPkgs, Have, Reach, ImportsIn
  <2>4. DirtySound'
    BY <1>1, <1>5, <2>1, <2>2, <2>3 DEF DirtySound, Have, Reach, ImportsIn
  <2>5. AtRest'
    BY <1>1, <2>1, SameRest DEF Phases
  <2> QED BY <1>1, <2>1, <2>4, <2>5 DEF Phases
<1> QED BY <1>6, <1>7 DEF BuildInv

LEMMA ParseInv == ASSUME BuildInv, ParseAll PROVE BuildInv'
<1>1. /\ phase = "checked" /\ phase' = "parsed" /\ UNCHANGED <<files, now, meta, dirty, builtPkgs, ll, exports, exe, causes>>
      /\ packages' = [p \in Pkg |-> IF p \in dirty THEN files[p] ELSE NoFile]
  BY DEF ParseAll, outVars
<1>2. packages' \in [Pkg -> Source \cup {NoFile}]
  BY <1>1 DEF BuildInv, BuildTypes
<1>3. BuildTypes'
  BY <1>1, <1>2 DEF BuildInv, BuildTypes, Have
<1>4. ASSUME causes' = {} PROVE Phases'
  <2>1. Phases
    BY <1>1, <1>4 DEF BuildInv
  <2>2. AtRest' /\ Parsed'
    BY <1>1, <2>1, SameRest DEF Phases, Parsed
  <2>3. DirtySound'
    BY <1>1, <2>1 DEF Phases, DirtySound, Changed, Neglected, findModifiedPkgs, Have, Reach, ImportsIn
  <2> QED BY <1>1, <2>1, <2>2, <2>3 DEF Phases
<1> QED BY <1>3, <1>4 DEF BuildInv

(* A package of the program that is not dirty reaches no dirty package. *)
LEMMA CleanReach ==
  ASSUME BuildTypes, DirtySound, NEW p \in Reach(files, {MAIN}) \ dirty
  PROVE  Reach(files, {p}) \cap dirty = {}
<1> DEFINE S == Reach(files, {MAIN}) \ dirty
<1>1. S \in SUBSET Pkg /\ {p} \subseteq S
  BY ReachIn
<1>2. ImportsIn(files, S)
  <2> SUFFICES ASSUME NEW x \in S, files[x] # NoFile PROVE files[x].imports \subseteq S
    BY DEF ImportsIn, Have
  <2>1. x \in Have(files)
    BY <1>1 DEF Have
  <2>2. files[x].imports \subseteq Reach(files, {MAIN})
    BY ReachOn, FilesTyped
  <2>3. files[x].imports \cap dirty = {}
    BY <2>1 DEF DirtySound
  <2> QED BY <2>2, <2>3
<1> HIDE DEF S
<1>3. Reach(files, {p}) \subseteq S
  BY <1>1, <1>2, ReachLeast
<1> QED BY <1>3 DEF S

(* The dirty packages of the program are built: on the way to one of them  *)
(* every package is dirty.                                                 *)
LEMMA DirtyBuilt ==
  ASSUME BuildTypes, DirtySound, Parsed, NEW p \in Reach(files, {MAIN}) \cap dirty
  PROVE  p \in Reach(packages, {MAIN})
<1> DEFINE S == {x \in Reach(files, {MAIN}) : x \in dirty => x \in Reach(packages, {MAIN})}
<1>1. S \in SUBSET Pkg /\ {MAIN} \subseteq S
  BY ReachIn, ReachHas, BuildAssumption
<1>2. ImportsIn(files, S)
  <2> SUFFICES ASSUME NEW x \in S, files[x] # NoFile, NEW y \in files[x].imports PROVE y \in S
    BY DEF ImportsIn, Have
  <2>1. x \in Have(files) /\ x \in Pkg /\ y \in Reach(files, {MAIN})
    BY <1>1, ReachOn, FilesTyped DEF Have
  <2>2. ASSUME y \in dirty PROVE y \in Reach(packages, {MAIN})
    <3>1. x \in dirty /\ x \in Reach(packages, {MAIN})
      BY <2>1, <2>2 DEF DirtySound
    <3>2. packages[x] = files[x]
      BY <2>1, <3>1 DEF Parsed
    <3> QED BY <3>1, <3>2, ReachOn, FilesTyped
  <2> QED BY <2>1, <2>2
<1> HIDE DEF S
<1>3. Reach(files, {MAIN}) \subseteq S
  BY <1>1, <1>2, ReachLeast
<1> QED BY <1>3 DEF S

LEMMA SaveInv == ASSUME BuildInv, SaveMeta PROVE BuildInv'
<1>1. /\ phase = "parsed" /\ phase' = "compiling" /\ now' = now + 1 /\ meta' = now'
      /\ UNCHANGED <<files, dirty, packages, builtPkgs, ll, exports, exe, causes>>
  BY DEF SaveMeta, genVars, outVars
<1>2. now' \in Nat /\ meta' \in Nat /\ meta' <= now' /\ \A s \in Nat : s <= now => s <= now'
  BY <1>1, SMTT(30), Z3T(30) DEF BuildInv, BuildTypes
<1>3. BuildTypes
  BY DEF BuildInv
<1>4. ASSUME NEW p \in Have(files) PROVE 0 < files[p].time /\ files[p].time <= now' /\ p \in Pkg
  <2>1. files[p].time \in Nat /\ 0 < files[p].time /\ files[p].time <= now /\ p \in Pkg
    BY <1>3 DEF BuildTypes, Have, Source
  <2> QED BY <1>2, <2>1
<1>5. BuildTypes'
  BY <1>1, <1>2, <1>3, <1>4 DEF BuildTypes, Have
<1>6. ASSUME causes' = {} PROVE Phases'
  <2>1. Phases /\ AtRest /\ DirtySound /\ Parsed /\ builtPkgs = {}
    BY <1>1, <1>3, <1>6 DEF BuildInv, BuildTypes, Phases
  <2>2. ASSUME NEW p \in Pkg, files[p] # NoFile, ~Old(p) PROVE p \in dirty /\ p \in Changed
    <3>1. p \in Changed
      <4>1. files[p].time \in Nat /\ meta \in Nat /\ ~(files[p].time <= meta)
        BY <1>3, <2>2 DEF BuildTypes, Source, Old
      <4>2. files[p].time > meta
        BY <4>1, SMTT(30), Z3T(30)
      <4> QED BY <2>2, <4>2 DEF Changed, findModifiedPkgs, Have
    <3> QED BY <2>1, <3>1 DEF DirtySound
  <2>3. ASSUME NEW p \in Pkg, Old(p)' PROVE Known'[p] = files'[p]
    <3>1. files[p] # NoFile
      BY <1>1, <2>3 DEF Old
    <3>2. CASE p \in dirty
      BY <1>1, <2>1, <3>1, <3>2 DEF Parsed, Known, Have
    <3>3. CASE p \notin dirty
      <4>1. exports[p] = files[p]
        BY <2>1, <2>2, <3>1, <3>3 DEF AtRest
      <4> QED BY <1>1, <2>1, <3>3, <4>1 DEF Parsed, Known, Have
    <3> QED BY <3>2, <3>3
  <2>4. ASSUME NEW p \in Pkg, Sure(p)' PROVE p \in ToBuild' \ builtPkgs' \/ Fresh(ll[p], p)'
    <3>1. \A q \in Reach(files, {p}) : q \in Pkg /\ files[q] # NoFile
      BY <1>1, <2>4, ReachIn DEF Sure, Old
    <3>2. CASE Sure(p)
      BY <1>1, <2>1, <3>2 DEF AtRest, Fresh
    <3>3. CASE ~Sure(p)
      <4>1. PICK q \in Reach(files, {p}) : q \in dirty /\ q \in Changed
        BY <2>2, <3>1, <3>3 DEF Sure
      <4>2. p \in Have(files)
        BY <3>1, ReachHas DEF Have
      <4>3. p \in Reach(files, {MAIN})
        BY <2>1, <4>1, <4>2 DEF DirtySound, Neglected, Changed
      <4>4. p \in dirty
        BY <1>3, <2>1, <4>1, <4>3, CleanReach
      <4>5. p \in Reach(packages, {MAIN}) /\ packages[p] = files[p]
        BY <1>3, <2>1, <4>3, <4>4, DirtyBuilt DEF Parsed
      <4>6. p \in ToBuild
        BY <4>2, <4>5 DEF ToBuild, Have
      <4> QED BY <1>1, <2>1, <4>6 DEF ToBuild, Have
    <3> QED BY <3>2, <3>3
  <2>5. Compiling'
    BY <2>3, <2>4 DEF Compiling
  <2> QED BY <1>1, <2>5 DEF Phases
<1> QED BY <1>5, <1>6 DEF BuildInv
-----------------------------------------------------------------------------
(* What is compiled is compiled from the sources that are there. *)
LEMMA CompiledFresh ==
  ASSUME BuildTypes, Compiling, NEW p \in Pkg, packages[p] # NoFile, Sure(p)
  PROVE  /\ packages[p] = files[p]
         /\ \A q \in Declared(p) : q \in Reach(files, {p}) /\ Known[q] = files[q]
<1>1. Old(p) /\ Known[p] = packages[p]
  BY SureIsOld DEF Known, Have
<1>2. packages[p] = files[p] /\ files[p] # NoFile
  BY <1>1 DEF Compiling, Old
<1> DEFINE S == Reach(files, {p})
<1>3. S \in SUBSET Pkg /\ packages[p].imports \subseteq S
  BY <1>2, ReachIn, ReachHas, ReachOn, FilesTyped
<1>4. ASSUME NEW x \in S PROVE Known[x] = files[x] /\ files[x] # NoFile
  BY <1>3, <1>4 DEF Sure, Compiling, Old
<1>5. ImportsIn(Known, S)
  BY <1>4, ReachOn, FilesTyped DEF ImportsIn
<1>6. Reach(Known, packages[p].imports) \subseteq S
  BY <1>3, <1>5, ReachLeast
<1> QED BY <1>2, <1>4, <1>6 DEF Declared

LEMMA PackageInv == ASSUME BuildInv, NEW p \in Pkg, buildPackage(p) PROVE BuildInv'
<1> DEFINE x == [time |-> packages[p].time, uses |-> {<<q, Known[q].time>> : q \in Declared(p)}]
<1>1. /\ phase = "compiling" /\ p \in ToBuild \ builtPkgs /\ Declared(p) \subseteq Have(Known)
      /\ UNCHANGED <<files, now, meta, phase, dirty, packages, exports, exe, causes>>
      /\ ll' = [ll EXCEPT ![p] = x] /\ builtPkgs' = builtPkgs \cup {p}
  BY DEF buildPackage
<1>2. BuildTypes /\ packages[p] # NoFile
  BY <1>1 DEF BuildInv, ToBuild, Have
<1>3. x \in Object
  <2>1. packages[p].time \in Nat
    BY <1>2 DEF BuildTypes, Source
  <2>2. ASSUME NEW q \in Declared(p) PROVE q \in Pkg /\ Known[q].time \in Nat
    <3>1. q \in Pkg /\ Known[q] # NoFile
      BY <1>1 DEF Have
    <3> QED BY <1>2, <3>1 DEF BuildTypes, Known, Source
  <2>3. {<<q, Known[q].time>> : q \in Declared(p)} \subseteq Pkg \X Nat
    BY <2>2, SMTT(30), Z3T(30)
  <2> QED BY <2>1, <2>3 DEF Object
<1>4. x # NoFile /\ x.time = packages[p].time /\ x.uses = {<<q, Known[q].time>> : q \in Declared(p)}
  BY <1>3, BuildAssumption
<1> HIDE DEF x
<1>5. ll'[p] = x /\ DOMAIN ll' = Pkg /\ \A q \in Pkg \ {p} : ll'[q] = ll[q]
  BY <1>1, <1>2 DEF BuildTypes
<1>6. BuildTypes'
  BY <1>1, <1>2, <1>5 DEF BuildTypes, Have
<1>7. ASSUME causes' = {} PROVE Phases'
  <2>1. Compiling
    BY <1>1, <1>7 DEF BuildInv, Phases
  <2>2. ASSUME NEW q \in Pkg PROVE (Old(q)' <=> Old(q)) /\ (Sure(q)' <=> Sure(q))
    BY <1>1 DEF Old, Sure
  <2>3. Known' = Known /\ ToBuild' = ToBuild
    BY <1>1 DEF Known, ToBuild, Have
  <2>4. ASSUME Sure(p) PROVE Fresh(x, p)
    <3>1. /\ packages[p] = files[p]
          /\ \A q \in Declared(p) : q \in Reach(files, {p}) /\ Known[q] = files[q]
      BY <1>2, <2>1, <2>4, CompiledFresh
    <3>2. ASSUME NEW u \in x.uses PROVE u[1] \in Reach(files, {p}) /\ u[2] = files[u[1]].time
      <4>1. PICK q \in Declared(p) : u = <<q, Known[q].time>>
        BY <1>4
      <4>2. u[1] = q /\ u[2] = Known[q].time
        BY <4>1
      <4> QED BY <3>1, <4>2
    <3> QED BY <1>4, <3>1, <3>2 DEF Fresh
  <2>5. ASSUME NEW q \in Pkg, Sure(q) PROVE q \in ToBuild' \ builtPkgs' \/ Fresh(ll[q], q)'
    <3>1. CASE q = p
      BY <1>1, <1>5, <2>4, <2>5, <3>1 DEF Fresh
    <3>2. CASE q # p
      BY <1>1, <1>5, <2>1, <2>3, <2>5, <3>2 DEF Compiling, Fresh
    <3> QED BY <3>1, <3>2
  <2>6. Compiling'
    BY <1>1, <2>1, <2>2, <2>3, <2>5 DEF Compiling
  <2> QED BY <1>1, <2>6 DEF Phases
<1> QED BY <1>6, <1>7 DEF BuildInv

LEMMA ExportsInv == ASSUME BuildInv, generateExports PROVE BuildInv'
<1>1. /\ phase = "compiling" /\ phase' = "compiled" /\ ToBuild \subseteq builtPkgs
      /\ UNCHANGED <<files, now, meta, dirty, packages, builtPkgs, ll, exe, causes>>
      /\ exports' = Known
  BY DEF generateExports, genVars, Known
<1>2. Known \in [Pkg -> Source \cup {NoFile}]
  BY DEF BuildInv, BuildTypes, Known, Have
<1>3. BuildTypes'
  BY <1>1, <1>2 DEF BuildInv, BuildTypes, Have
<1>4. ASSUME causes' = {} PROVE Phases'
  <2>1. Compiling
    BY <1>1, <1>4 DEF BuildInv, Phases
  <2>2. AtRest'
    BY <1>1, <2>1 DEF Compiling, AtRest, Old, Sure, Fresh
  <2> QED BY <1>1, <2>2 DEF Phases
<1> QED BY <1>3, <1>4 DEF BuildInv

LEMMA LinkInv == ASSUME BuildInv, link_objects PROVE BuildInv'
<1>1. /\ phase = "compiled" /\ phase' = "linked" /\ exe' = ll
      /\ UNCHANGED <<files, now, meta, dirty, packages, builtPkgs, ll, exports, causes>>
  BY DEF link_objects, genVars
<1>2. BuildTypes'
  BY <1>1 DEF BuildInv, BuildTypes, Have
<1>3. AtRest' <=> AtRest
  BY <1>1, SameRest
<1> QED BY <1>1, <1>2, <1>3 DEF BuildInv, Phases

(* finish_build and build_fails: the generator's maps go, and the build    *)
(* directory stays as it is.                                               *)
LEMMA EndsInv ==
  ASSUME BuildInv, Ends, UNCHANGED <<files, now, meta, ll, exports>>, causes' = {} => causes = {} /\ phase # "compiling"
  PROVE  BuildInv'
<1>1. Empty \in [Pkg -> Source \cup {NoFile}]
  BY DEF Empty
<1>2. BuildTypes'
  BY <1>1 DEF BuildInv, BuildTypes, Ends, Have
<1>3. AtRest' <=> AtRest
  BY SameRest
<1> QED BY <1>2, <1>3 DEF BuildInv, Phases, Ends

LEMMA CleanInv == ASSUME BuildInv, clean PROVE BuildInv'
<1>1. /\ phase = "idle" /\ meta' = 0 /\ ll' = Empty /\ exports' = Empty
      /\ UNCHANGED <<files, now, phase, dirty, packages, builtPkgs>>
  BY DEF clean, genVars
<1>2. Empty \in [Pkg -> Source \cup {NoFile}]
  BY DEF Empty
<1>3. BuildTypes'
  <2>1. 0 \in Nat /\ 0 <= now
    BY SMTT(30), Z3T(30) DEF BuildInv, BuildTypes
  <2> QED BY <1>1, <1>2, <2>1 DEF BuildInv, BuildTypes, Have
<1>4. ASSUME NEW p \in Pkg PROVE ~Old(p)'
  <2> SUFFICES ASSUME files[p] # NoFile PROVE ~(files[p].time <= 0)
    BY <1>1 DEF Old
  <2>1. files[p].time \in Nat /\ 0 < files[p].time
    BY DEF BuildInv, BuildTypes, Source, Have
  <2> QED BY <2>1, SMTT(30), Z3T(30)
<1>5. AtRest'
  <2>1. ASSUME NEW p \in Pkg PROVE ~Sure(p)'
    BY <1>4, ReachHas DEF Sure
  <2> QED BY <1>4, <2>1 DEF AtRest
<1> QED BY <1>1, <1>3, <1>5 DEF BuildInv, Phases
-----------------------------------------------------------------------------
LEMMA BuildStarts == BuildInit => BuildInv
<1> SUFFICES ASSUME BuildInit PROVE BuildInv
  OBVIOUS
<1>1. Empty \in [Pkg -> Source \cup {NoFile}] /\ DOMAIN Empty = Pkg
  BY DEF Empty
<1>2. 1 \in Nat /\ 0 \in Nat /\ 0 <= 1 /\ 0 < 1 /\ 1 <= 1 /\ ~(1 <= 0)
  BY SMTT(30), Z3T(30)
<1>3. \A p \in Pkg : files[p] = NoFile \/ (files[p] \in Source /\ files[p].time = 1)
  BY <1>2, BuildAssumption DEF BuildInit, Source
<1>4. files \in [Pkg -> Source \cup {NoFile}]
  BY <1>3, BuildAssumption DEF BuildInit
<1>5. BuildTypes
  BY <1>1, <1>2, <1>3, <1>4 DEF BuildInit, BuildTypes, Have
<1>6. ASSUME NEW p \in Pkg PROVE ~Old(p)
  BY <1>2, <1>3 DEF BuildInit, Old
<1>7. AtRest
  BY <1>6, SureIsOld DEF AtRest
<1> QED BY <1>5, <1>7 DEF BuildInv, Phases, BuildInit

LEMMA BuildSteps == BuildInv /\ [BuildNext]_buildVars => BuildInv'
<1> SUFFICES ASSUME BuildInv, [BuildNext]_buildVars PROVE BuildInv'
  OBVIOUS
<1>1. CASE UNCHANGED buildVars
  <2>1. UNCHANGED <<files, now, meta, phase, dirty, allPkgs, packages, builtPkgs, ll, exports, exe, causes>>
    BY <1>1 DEF buildVars, genVars, outVars
  <2>2. BuildTypes'
    BY <2>1 DEF BuildInv, BuildTypes, Have
  <2>3. (AtRest' <=> AtRest) /\ (DirtySound' <=> DirtySound) /\ (Parsed' <=> Parsed) /\ (Compiling' <=> Compiling)
    <3>1. AtRest' <=> AtRest
      BY <2>1, SameRest
    <3>2. DirtySound' <=> DirtySound
      BY <2>1 DEF DirtySound, Changed, Neglected, findModifiedPkgs, Have, Reach, ImportsIn
    <3>3. Parsed' <=> Parsed
      BY <2>1 DEF Parsed
    <3>4. Compiling' <=> Compiling
      BY <2>1 DEF Compiling, Old, Sure, Fresh, Known, ToBuild, Have
    <3> QED BY <3>1, <3>2, <3>3, <3>4
  <2> QED BY <2>1, <2>2, <2>3 DEF BuildInv, Phases
<1>2. CASE CheckBuildCache
  BY <1>2, CheckInv
<1>3. CASE ParseAll
  BY <1>3, ParseInv
<1>4. CASE SaveMeta
  BY <1>4, SaveInv
<1>5. CASE generateExports
  BY <1>5, ExportsInv
<1>6. CASE link_objects
  BY <1>6, LinkInv
<1>7. CASE finish_build
  <2>1. /\ Ends /\ UNCHANGED <<files, now, meta, ll, exports, causes>> /\ phase = "linked"
    BY <1>7 DEF finish_build, outVars
  <2> QED BY <2>1, EndsInv
<1>8. CASE build_fails
  <2>1. /\ Ends /\ UNCHANGED <<files, now, meta, ll, exports>>
        /\ causes' = IF phase = "compiling" THEN causes \cup {"failed"} ELSE causes
    BY <1>8 DEF build_fails, outVars
  <2> QED BY <2>1, EndsInv
<1>9. CASE clean
  BY <1>9, CleanInv
<1>10. ASSUME NEW p \in Pkg, buildPackage(p) PROVE BuildInv'
  BY <1>10, PackageInv
<1>11. ASSUME NEW p \in Pkg, Delete(p) PROVE BuildInv'
  BY <1>11, DeleteInv
<1>12. ASSUME NEW p \in Pkg, NEW imports \in Imports[p], Edit(p, imports) PROVE BuildInv'
  BY <1>12, EditInv
<1> QED BY <1>1, <1>2, <1>3, <1>4, <1>5, <1>6, <1>7, <1>8, <1>9, <1>10, <1>11, <1>12 DEF BuildNext

LEMMA LinkedIsCurrent == BuildInv => BuildIsCurrent
<1> SUFFICES ASSUME BuildInv, phase = "linked", causes = {},
                    \A p \in Reach(files, {MAIN}) : files[p] # NoFile /\ files[p].time <= meta,
                    NEW p \in Reach(files, {MAIN})
             PROVE  /\ exe[p] # NoFile /\ exe[p].time = files[p].time
                    /\ \A u \in exe[p].uses : files[u[1]] # NoFile /\ u[2] = files[u[1]].time
  BY DEF BuildIsCurrent
<1>1. p \in Pkg /\ exe[p] = ll[p] /\ AtRest
  BY ReachIn DEF BuildInv, Phases
<1>2. Reach(files, {p}) \subseteq Reach(files, {MAIN})
  BY ReachWithin, FilesTyped DEF BuildInv
<1>3. Sure(p)
  BY <1>2 DEF Sure, Old
<1>4. Fresh(ll[p], p)
  BY <1>1, <1>3 DEF AtRest
<1> QED BY <1>1, <1>2, <1>4 DEF Fresh

(* picasso build compiles only the packages whose sources, or whose        *)
(* imports, changed after the time in build.meta (cache.go), in whatever   *)
(* order the packages and their imports are met.  For any number of        *)
(* packages, any imports between them and any sequence of edits, deletions *)
(* and builds, a build that links and that none of the three named causes  *)
(* has spoilt has every package of the program compiled from the source    *)
(* it has, and against the sources its imports have.                       *)
THEOREM LinkedBuildIsCurrent == BuildSpec => []BuildIsCurrent
<1>1. BuildInit => BuildInv
  BY BuildStarts
<1>2. BuildInv /\ [BuildNext]_buildVars => BuildInv'
  BY BuildSteps
<1>3. BuildInv => BuildIsCurrent
  BY LinkedIsCurrent
<1> QED BY <1>1, <1>2, <1>3, PTL DEF BuildSpec
=============================================================================
