------------------------------- MODULE Arrays -------------------------------
(***************************************************************************)
(* The arrays of the runtime (runtime/src/array.c).  The data of an array  *)
(* is a buffer of elements, or of pointers to sub-arrays when it has more  *)
(* than one dimension; extend_array makes it longer by one and moves it to *)
(* a buffer of twice the capacity when it is full.  A buffer is a number   *)
(* of bytes and the cells that lie in it; the module also keeps the        *)
(* elements the program has stored.                                        *)
(***************************************************************************)
EXTENDS Integers, Sequences

CONSTANTS Pointer,       \* sizeof(void *)
          Sizes,         \* element sizes
          Values,        \* elements, and sub-arrays
          MaxCount,      \* bound: the length of an array
          NoArray        \* NULL

ASSUME ArraysAssumption ==
  Pointer \in Nat \ {0} /\ Sizes \subseteq Nat \ {0} /\ MaxCount \in Nat \ {0}

VARIABLES arr,       \* [rank, elem_size, length, capacity, room, cells] or NULL
          elems,     \* expected: what the program stored at each index
          lost       \* history: a jagged array of small elements was moved

arrayVars == <<arr, elems, lost>>

Zero == "zero"        \* memset
Junk_ == "junk"       \* what nobody wrote

(* The bytes of a cell: a pointer in every dimension but the last. *)
Cell(a) == IF a.rank > 1 THEN Pointer ELSE a.elem_size

ArraysInit == arr = NoArray /\ elems = <<>> /\ lost = FALSE

(* __alloc_array_recursive: the data is zeroed, and the cells of a jagged  *)
(* array then point to sub-arrays of one dimension less.                   *)
alloc_array(size, rank, count) ==
  /\ arr = NoArray
  /\ LET first == IF rank > 1 THEN [i \in 1..count |-> "sub"] ELSE [i \in 1..count |-> Zero]
         cell == IF rank > 1 THEN Pointer ELSE size
     IN  /\ arr' = [rank |-> rank, elem_size |-> size, length |-> count, capacity |-> count,
                    room |-> count * cell, cells |-> first]
         /\ elems' = first
  /\ UNCHANGED lost

(* The array with one more cell. *)
Longer(a, capacity, room, cells) ==
  [rank |-> a.rank, elem_size |-> a.elem_size, length |-> a.length + 1,
   capacity |-> capacity, room |-> room, cells |-> cells]

(* A defect to test against: a buffer one element short. *)
ExtendLate(a) ==
  IF a.length <= a.capacity
  THEN Longer(a, a.capacity, a.room, Append(a.cells, Junk_))
  ELSE Longer(a, 2 * a.capacity, 2 * a.capacity * a.elem_size, Append(a.cells, Junk_))

(* extend_array: the new buffer has room for elem_size bytes a cell, and   *)
(* as many are copied, whatever the cells of the old one take; what is     *)
(* copied from beyond the old cells is nobody's.                           *)
NewCapacity(a) == IF a.capacity > 0 THEN a.capacity * 2 ELSE 1
CellsCopied(a) == (a.length * a.elem_size) \div Cell(a)
CopiedCells(a) ==
  [i \in 1..(a.length + 1) |->
     IF i <= a.length /\ i <= CellsCopied(a) THEN a.cells[i] ELSE Junk_]

extend_array(a) ==
  IF a.length + 1 <= a.capacity
  THEN Longer(a, a.capacity, a.room, Append(a.cells, Junk_))
  ELSE Longer(a, NewCapacity(a), NewCapacity(a) * a.elem_size, CopiedCells(a))

Extend ==
  /\ arr # NoArray /\ arr.length < MaxCount
  /\ arr' = extend_array(arr)
  /\ elems' = Append(elems, Junk_)
  /\ lost' = (lost \/ (arr.length = arr.capacity /\ arr.elem_size < Cell(arr)))

Store(i, v) ==
  arr' = [arr EXCEPT !.cells[i + 1] = v] /\ elems' = [elems EXCEPT ![i + 1] = v]

(* StoreByIndex, the store in compiled code: a bad index is an error that  *)
(* ends the program.                                                       *)
StoreByIndex(i, v) ==
  /\ arr # NoArray /\ arr.rank = 1
  /\ 0 <= i /\ i < arr.length
  /\ Store(i, v)
  /\ UNCHANGED lost

(* set_subarray, also called by foreign code: a bad index is ignored. *)
set_subarray(i, v) ==
  /\ arr # NoArray
  /\ IF arr.rank <= 1 \/ i < 0 \/ i >= arr.length THEN UNCHANGED <<arr, elems>>
     ELSE Store(i, v)
  /\ UNCHANGED lost

ArraysNext ==
  \/ \E size \in Sizes, rank \in 1..2, count \in 1..MaxCount : alloc_array(size, rank, count)
  \/ Extend
  \/ \E i \in -1..MaxCount, v \in Values : StoreByIndex(i, v) \/ set_subarray(i, v)

ArraysSpec == ArraysInit /\ [][ArraysNext]_arrayVars
-----------------------------------------------------------------------------
(* However often an array is extended (array.c:101), its cells lie in its  *)
(* buffer and hold what the program stored in them, unless an array of     *)
(* sub-arrays was moved whose elements are smaller than a pointer: its new *)
(* buffer is sized and filled by the size of the elements.                 *)
ArrayKeepsElements ==
  arr # NoArray /\ ~lost =>
    /\ arr.length = Len(arr.cells) /\ arr.length * Cell(arr) <= arr.room
    /\ arr.length <= arr.capacity
    /\ \A i \in DOMAIN elems : elems[i] # Junk_ => arr.cells[i] = elems[i]
=============================================================================
