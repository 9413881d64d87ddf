------------------------------- MODULE Atomics -------------------------------
(***************************************************************************)
(* The atomics library: runtime/src/atomics.c, declared in                 *)
(* runtime/headers/atomics.h.  Every type has its own functions, and each  *)
(* function is one sequentially consistent C11 operation on the cell its   *)
(* argument points to; the types differ in their width, their sign and in  *)
(* which operations they have.  The bits of a cell are a number below its  *)
(* size, and the tasks that share it run on different scheduler threads.   *)
(***************************************************************************)
EXTENDS Integers

CONSTANTS Users,                 \* the tasks that share the cell
          Size8, Size16, Size32, Size64,  \* 2^8, 2^16, 2^32 and 2^64 in the code
          BitAnd, BitOr, BitXor, \* external: the operations on bits, of two words
          Arguments               \* what the tasks store, add, mask with

WordSizes == {Size8, Size16, Size32, Size64}

(* Operations on the bits of two words give a word. *)
ASSUME AtomicsAssumption ==
  /\ WordSizes \subseteq Nat \ {0} /\ Arguments \subseteq Nat
  /\ \A n \in WordSizes : \A b, v \in 0..(n - 1) :
       BitAnd[b][v] \in 0..(n - 1) /\ BitOr[b][v] \in 0..(n - 1) /\ BitXor[b][v] \in 0..(n - 1)

VARIABLES cellType,   \* the type of the cell
          cell,       \* its bits
          loaded,     \* the value a task read last, and will hand to cas
          fresh,      \* the tasks whose value nobody has overwritten since
          account,    \* history: the sum of the changes the results report
          refused     \* history: a cas failed though its value was fresh

atomicVars == <<cellType, cell, loaded, fresh, account, refused>>

(* The operations declared for the types that cannot be computed with, and *)
(* for those that can.                                                     *)
CellOps == {"store", "load", "cas", "exchange"}
WordOps == CellOps \cup {"add", "sub", "and", "or", "xor"}

boolean == [size |-> 2, signed |-> FALSE, ops |-> CellOps]
uint8 == [size |-> Size8, signed |-> FALSE, ops |-> WordOps]
uint16 == [size |-> Size16, signed |-> FALSE, ops |-> WordOps]
uint32 == [size |-> Size32, signed |-> FALSE, ops |-> WordOps]
uint64 == [size |-> Size64, signed |-> FALSE, ops |-> WordOps]
int8 == [size |-> Size8, signed |-> TRUE, ops |-> WordOps]
int16 == [size |-> Size16, signed |-> TRUE, ops |-> WordOps]
int32 == [size |-> Size32, signed |-> TRUE, ops |-> WordOps]
int64 == [size |-> Size64, signed |-> TRUE, ops |-> WordOps]
int == [size |-> Size64, signed |-> TRUE, ops |-> WordOps]
float16 == [size |-> Size16, signed |-> FALSE, ops |-> CellOps]
float32 == [size |-> Size32, signed |-> FALSE, ops |-> CellOps]
float64 == [size |-> Size64, signed |-> FALSE, ops |-> CellOps]
double == [size |-> Size64, signed |-> FALSE, ops |-> CellOps]
ptr == [size |-> Size64, signed |-> FALSE, ops |-> CellOps]

Kinds ==
  [boolean |-> boolean, uint8 |-> uint8, uint16 |-> uint16, uint32 |-> uint32,
   uint64 |-> uint64, int8 |-> int8, int16 |-> int16, int32 |-> int32,
   int64 |-> int64, int |-> int, float16 |-> float16, float32 |-> float32,
   float64 |-> float64, double |-> double, ptr |-> ptr]

AtomicsInit ==
  /\ cellType \in DOMAIN Kinds /\ cell = 0 /\ account = 0
  /\ loaded = [u \in Users |-> 0] /\ fresh = {} /\ refused = FALSE
-----------------------------------------------------------------------------
(* A value as its type shows it, and the bits of a value. *)
Value(k, b) == IF k.signed /\ b >= k.size \div 2 THEN b - k.size ELSE b
Bits(k, v) == v % k.size

(* What an operation with the operand v leaves in the cell; sums wrap. *)
Apply(k, op, b, v) ==
  CASE op = "add" -> Bits(k, b + v)
    [] op = "sub" -> Bits(k, b - v)
    [] op = "and" -> BitAnd[b][v]
    [] op = "or"  -> BitOr[b][v]
    [] op = "xor" -> BitXor[b][v]
    [] op \in {"store", "exchange"} -> v

Words(k) == 0..(k.size - 1)
ArgumentsOf(k) == Arguments \cap Words(k)

load(u, k) ==
  /\ loaded' = [loaded EXCEPT ![u] = Value(k, cell)]
  /\ fresh' = fresh \cup {u}
  /\ UNCHANGED <<cellType, cell, account, refused>>

store(k, v) ==
  /\ cell' = v /\ account' = v
  /\ fresh' = IF v = cell THEN fresh ELSE {}
  /\ UNCHANGED <<cellType, loaded, refused>>

(* A defect to test against: the value after the operation is returned. *)
AddAndFetch(k, op, v) ==
  LET new == Apply(k, op, cell, v) IN [new |-> new, result |-> Value(k, new)]

(* atomic_fetch_* and atomic_exchange return the value before. *)
FetchAndOp(k, op, v) ==
  [new |-> Apply(k, op, cell, v), result |-> Value(k, cell)]

(* From its operand and the result a task knows by how much it has changed *)
(* the cell.                                                               *)
fetch(k, op, v) ==
  LET f == FetchAndOp(k, op, v)
      old == Bits(k, f.result)
  IN  /\ cell' = f.new
      /\ fresh' = IF f.new = cell THEN fresh ELSE {}
      /\ account' = Bits(k, account + Apply(k, op, old, v) - old)
      /\ UNCHANGED <<cellType, loaded, refused>>

(* atomic_compare_exchange_strong compares representations; expected is a  *)
(* copy, so a task that fails has to load again.                           *)
Same(b, c) == b = c

cas(u, k, desired) ==
  LET expected == Bits(k, loaded[u]) IN
  IF Same(expected, cell)
  THEN /\ cell' = desired
       /\ fresh' = IF desired = cell THEN fresh ELSE {}
       /\ account' = Bits(k, account + desired - expected)
       /\ UNCHANGED <<cellType, loaded, refused>>
  ELSE /\ refused' = (refused \/ u \in fresh)
       /\ UNCHANGED <<cellType, cell, loaded, fresh, account>>

Call(u, k) ==
  \/ load(u, k)
  \/ \E v \in ArgumentsOf(k) : store(k, v) \/ cas(u, k, v)
  \/ cas(u, k, Bits(k, loaded[u] + 1))
  \/ \E op \in k.ops \ {"store", "load", "cas"}, v \in ArgumentsOf(k) : fetch(k, op, v)

atomics_boolean(u) == cellType = "boolean" /\ Call(u, boolean)
atomics_uint8(u) == cellType = "uint8" /\ Call(u, uint8)
atomics_uint16(u) == cellType = "uint16" /\ Call(u, uint16)
atomics_uint32(u) == cellType = "uint32" /\ Call(u, uint32)
atomics_uint64(u) == cellType = "uint64" /\ Call(u, uint64)
atomics_int8(u) == cellType = "int8" /\ Call(u, int8)
atomics_int16(u) == cellType = "int16" /\ Call(u, int16)
atomics_int32(u) == cellType = "int32" /\ Call(u, int32)
atomics_int64(u) == cellType = "int64" /\ Call(u, int64)
atomics_int(u) == cellType = "int" /\ Call(u, int)
atomics_float16(u) == cellType = "float16" /\ Call(u, float16)
atomics_float32(u) == cellType = "float32" /\ Call(u, float32)
atomics_float64(u) == cellType = "float64" /\ Call(u, float64)
atomics_double(u) == cellType = "double" /\ Call(u, double)
atomics_ptr(u) == cellType = "ptr" /\ Call(u, ptr)

AtomicsNext ==
  \E u \in Users :
     \/ atomics_boolean(u)
     \/ atomics_uint8(u) \/ atomics_uint16(u) \/ atomics_uint32(u) \/ atomics_uint64(u)
     \/ atomics_int8(u) \/ atomics_int16(u) \/ atomics_int32(u) \/ atomics_int64(u)
     \/ atomics_int(u) \/ atomics_ptr(u)
     \/ atomics_float16(u) \/ atomics_float32(u) \/ atomics_float64(u) \/ atomics_double(u)

AtomicsSpec == AtomicsInit /\ [][AtomicsNext]_atomicVars
-----------------------------------------------------------------------------
(* The results the tasks get explain the cell: whatever the order of their *)
(* calls, and with sums that wrap around, the changes they can work out    *)
(* from what fetch_*, exchange and cas returned add up to what the cell    *)
(* holds, so no update is lost or counted twice.  A cas fails only because *)
(* somebody wrote after the value it expects was loaded.                   *)
ResultsExplainCell ==
  /\ cell \in Words(Kinds[cellType])
  /\ account = cell
  /\ ~refused
=============================================================================
