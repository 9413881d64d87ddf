---------------------------- MODULE MemoryProofs ----------------------------
(***************************************************************************)
(* Proofs about what the runtime keeps in memory: arrays, strings, and the *)
(* collector's marking and stopping of the world. Each section has an      *)
(* inductive invariant in parts, a lemma for every action, and the         *)
(* theorems.                                                               *)
(***************************************************************************)
EXTENDS Arrays, Strings, GcMark, GcWorld, FiniteSetTheorems, TLAPS

-----------------------------------------------------------------------------
(***************************************************************************)
(* Arrays, for any element sizes, lengths and values. The inductive        *)
(* invariant says that an array the program can use has in its buffer what *)
(* the program put there, and room for its capacity.                       *)
(***************************************************************************)

Datum == Values \cup {Zero, Junk_, "sub"}

Arr == [rank : 1..2, elem_size : Sizes, length : Nat, capacity : Nat, room : Nat,
        cells : Seq(Datum)]

(* The buffer of an array that lost nothing has room for its capacity, and *)
(* the array and what the program expects of it have the same length.      *)
Sound(a) ==
  /\ a \in Arr
  /\ elems \in Seq(Datum)
  /\ Len(a.cells) = a.length /\ Len(elems) = a.length
  /\ a.length <= a.capacity /\ a.capacity * Cell(a) <= a.room
  /\ \A i \in 1..a.length : elems[i] # Junk_ => a.cells[i] = elems[i]

ArrayInv == arr # NoArray /\ ~lost => Sound(arr)

LEMMA Fields ==
  ASSUME NEW a \in Arr
  PROVE  /\ a.length \in Nat /\ a.capacity \in Nat /\ a.room \in Nat /\ a.cells \in Seq(Datum)
         /\ a.elem_size \in Nat \ {0} /\ Cell(a) \in Nat \ {0}
<1>1. /\ a.length \in Nat /\ a.capacity \in Nat /\ a.room \in Nat /\ a.cells \in Seq(Datum)
      /\ a.elem_size \in Sizes /\ a.rank \in 1..2
  BY SMTT(30), Z3T(30) DEF Arr
<1>2. a.elem_size \in Nat \ {0} /\ Pointer \in Nat \ {0}
  BY <1>1, ArraysAssumption, ZenonT(60)
<1>3. Cell(a) = Pointer \/ Cell(a) = a.elem_size
  BY ZenonT(60) DEF Cell
<1> QED BY <1>1, <1>2, <1>3, ZenonT(60)

(* A cell is overwritten, and cells are copied to a longer buffer. *)
LEMMA Overwritten ==
  ASSUME NEW s \in Seq(Datum), NEW k \in 1..Len(s), NEW v \in Datum
  PROVE  /\ [s EXCEPT ![k] = v] \in Seq(Datum) /\ Len([s EXCEPT ![k] = v]) = Len(s)
         /\ \A j \in 1..Len(s) : [s EXCEPT ![k] = v][j] = IF j = k THEN v ELSE s[j]
BY SMTT(30), Z3T(30)

LEMMA Copied ==
  ASSUME NEW a \in Arr, Len(a.cells) = a.length, CellsCopied(a) \in Int, CellsCopied(a) >= a.length
  PROVE  /\ CopiedCells(a) \in Seq(Datum) /\ Len(CopiedCells(a)) = a.length + 1
         /\ \A i \in 1..a.length : CopiedCells(a)[i] = a.cells[i]
<1>1. a.length \in Nat /\ \A i \in 1..a.length : a.cells[i] \in Datum
  BY Fields, SMTT(30), Z3T(30)
<1>2. Junk_ \in Datum
  BY DEF Datum
<1>3. \A i \in 1..(a.length + 1) :
        CopiedCells(a)[i] = IF i <= a.length /\ i <= CellsCopied(a) THEN a.cells[i] ELSE Junk_
  BY DEF CopiedCells
<1>4. \A i \in 1..(a.length + 1) : CopiedCells(a)[i] \in Datum
  BY <1>1, <1>2, <1>3, SMTT(30), Z3T(30)
<1>5. CopiedCells(a) \in [1..(a.length + 1) -> Datum]
  BY <1>4, ZenonT(60) DEF CopiedCells
<1> QED BY <1>1, <1>3, <1>5, SMTT(30), Z3T(30)

(* An array with other cells, and one with more. *)
LEMMA Rewritten ==
  ASSUME NEW a \in Arr, NEW b, NEW s \in Seq(Datum), b = [a EXCEPT !.cells = s]
  PROVE  /\ b \in Arr /\ b.length = a.length /\ b.capacity = a.capacity
         /\ b.room = a.room /\ b.cells = s /\ Cell(b) = Cell(a)
BY SMTT(30), Z3T(30) DEF Arr, Cell

IsLonger(b, a, capacity, room, s) ==
  /\ b \in Arr /\ b.length = a.length + 1 /\ b.capacity = capacity
  /\ b.room = room /\ b.cells = s /\ Cell(b) = Cell(a)

LEMMA LongerIsArray ==
  ASSUME NEW a \in Arr, NEW capacity \in Nat, NEW room \in Nat, NEW s \in Seq(Datum),
         NEW b, b = Longer(a, capacity, room, s)
  PROVE  IsLonger(b, a, capacity, room, s)
<1>1. a.rank \in 1..2 /\ a.elem_size \in Sizes /\ a.length + 1 \in Nat
  BY SMTT(30), Z3T(30) DEF Arr
<1>2. /\ b.rank = a.rank /\ b.elem_size = a.elem_size /\ b.length = a.length + 1
      /\ b.capacity = capacity /\ b.room = room /\ b.cells = s
  BY DEF Longer
<1>3. b \in Arr
  BY <1>1 DEF Longer, Arr
<1> QED BY <1>2, <1>3 DEF Cell, IsLonger

(* memcpy moves every cell when an element takes no less than a cell. *)
LEMMA CopiesAll ==
  ASSUME NEW n \in Nat, NEW e \in Nat \ {0}, NEW c \in Nat \ {0}, c <= e
  PROVE  (n * e) \div c >= n
<1> DEFINE q == (n * e) \div c
           r == (n * e) % c
<1>1. n * e \in Nat /\ n * c \in Nat /\ n * c <= n * e
  BY SMTT(30), Z3T(30)
<1>2. q \in Int /\ r \in 0..(c - 1) /\ n * e = c * q + r
  BY <1>1, SMTT(30), Z3T(30)
<1>3. SUFFICES ASSUME q <= n - 1 PROVE FALSE
  BY <1>2, SMTT(30), Z3T(30)
<1>4. c * q <= c * (n - 1)
  BY <1>2, <1>3, SMTT(30), Z3T(30)
<1> QED BY <1>1, <1>2, <1>4, SMTT(30), Z3T(30)

LEMMA AllocKeeps ==
  ASSUME NEW size \in Sizes, NEW rank \in 1..2, NEW count \in 1..MaxCount,
         ArrayInv, alloc_array(size, rank, count)
  PROVE  ArrayInv'
<1> DEFINE first == IF rank > 1 THEN [i \in 1..count |-> "sub"] ELSE [i \in 1..count |-> Zero]
           cell == IF rank > 1 THEN Pointer ELSE size
<1>1. arr' = [rank |-> rank, elem_size |-> size, length |-> count, capacity |-> count,
              room |-> count * cell, cells |-> first]
      /\ elems' = first
  BY DEF alloc_array
<1>2. count \in Nat /\ cell \in Nat /\ count * cell \in Nat
  BY ArraysAssumption, SMTT(30), Z3T(30)
<1>3. first \in Seq(Datum) /\ Len(first) = count
  BY <1>2, SMTT(30), Z3T(30) DEF Datum
<1>4. Cell(arr') = cell
  BY <1>1 DEF Cell
<1> HIDE DEF first, cell
<1> QED BY <1>1, <1>2, <1>3, <1>4, SMTT(30), Z3T(30) DEF ArrayInv, Sound, Arr

LEMMA ExtendKeeps ==
  ASSUME ArrayInv, Extend
  PROVE  ArrayInv'
<1> SUFFICES ASSUME ~lost' PROVE Sound(arr)'
  BY DEF ArrayInv
<1>1. Sound(arr) /\ arr # NoArray /\ arr' = extend_array(arr) /\ elems' = Append(elems, Junk_)
  BY ZenonT(60) DEF ArrayInv, Extend
<1>3. Cell(arr) \in Nat \ {0} /\ arr.elem_size \in Nat \ {0}
  BY <1>1, Fields DEF Sound
<1>2. arr.length = arr.capacity => arr.elem_size >= Cell(arr)
  <2>1. ~(arr.length = arr.capacity /\ arr.elem_size < Cell(arr))
    BY ZenonT(60) DEF Extend
  <2> QED BY <1>3, <2>1, SMTT(30), Z3T(30)
<1>4. /\ elems' \in Seq(Datum) /\ Len(elems') = arr.length + 1
      /\ elems'[arr.length + 1] = Junk_
      /\ \A i \in 1..arr.length : elems'[i] = elems[i]
  BY <1>1, Fields, SMTT(30), Z3T(30) DEF Sound, Datum
<1>0. /\ arr \in Arr /\ arr.length \in Nat /\ arr.capacity \in Nat
      /\ arr.cells \in Seq(Datum) /\ Len(arr.cells) = arr.length
  BY <1>1, Fields, SMTT(30), Z3T(30) DEF Sound
<1>5. CASE arr.length + 1 <= arr.capacity
  <2>0. arr.room \in Nat /\ Append(arr.cells, Junk_) \in Seq(Datum)
    BY <1>0, Fields, SMTT(30), Z3T(30) DEF Datum
  <2>a. arr' = Longer(arr, arr.capacity, arr.room, Append(arr.cells, Junk_))
    BY <1>1, <1>5, ZenonT(60) DEF extend_array
  <2>b. IsLonger(arr', arr, arr.capacity, arr.room, Append(arr.cells, Junk_))
    BY <1>0, <2>0, <2>a, LongerIsArray, ZenonT(60)
  <2>1. /\ arr' \in Arr /\ arr'.length = arr.length + 1 /\ arr'.capacity = arr.capacity
        /\ arr'.room = arr.room /\ arr'.cells = Append(arr.cells, Junk_) /\ Cell(arr') = Cell(arr)
    BY <2>b, SMTT(30), Z3T(30) DEF IsLonger
  <2>2. /\ Len(arr'.cells) = arr.length + 1
        /\ \A i \in 1..arr.length : arr'.cells[i] = arr.cells[i]
    BY <1>0, <2>1, SMTT(30), Z3T(30)
  <2> QED BY <1>0, <1>1, <1>3, <1>4, <1>5, <2>1, <2>2, SMTT(30), Z3T(30) DEF Sound
<1>6. CASE ~(arr.length + 1 <= arr.capacity)
  <2>1. arr.length = arr.capacity
    BY <1>0, <1>1, <1>6, SMTT(30), Z3T(30) DEF Sound
  <2>2. NewCapacity(arr) \in Nat /\ arr.length + 1 <= NewCapacity(arr)
    BY <1>0, <2>1, SMTT(30), Z3T(30) DEF NewCapacity
  <2>3. CellsCopied(arr) \in Int /\ CellsCopied(arr) >= arr.length
    <3>1. arr.length * arr.elem_size \in Nat
      BY <1>0, <1>3, SMTT(30), Z3T(30)
    <3> QED BY <1>0, <1>2, <1>3, <2>1, <3>1, CopiesAll, SMTT(30), Z3T(30) DEF CellsCopied
  <2>4. /\ CopiedCells(arr) \in Seq(Datum) /\ Len(CopiedCells(arr)) = arr.length + 1
        /\ \A i \in 1..arr.length : CopiedCells(arr)[i] = arr.cells[i]
    BY <1>0, <2>3, Copied, SMTT(30), Z3T(30)
  <2>5. /\ NewCapacity(arr) * arr.elem_size \in Nat
        /\ NewCapacity(arr) * Cell(arr) <= NewCapacity(arr) * arr.elem_size
    BY <1>2, <1>3, <2>1, <2>2, SMTT(30), Z3T(30)
  <2>a. arr' = Longer(arr, NewCapacity(arr), NewCapacity(arr) * arr.elem_size, CopiedCells(arr))
    BY <1>1, <1>6, ZenonT(60) DEF extend_array
  <2>b. IsLonger(arr', arr, NewCapacity(arr), NewCapacity(arr) * arr.elem_size, CopiedCells(arr))
    BY <1>0, <2>2, <2>4, <2>5, <2>a, LongerIsArray, ZenonT(60)
  <2>6. /\ arr' \in Arr /\ arr'.length = arr.length + 1 /\ arr'.capacity = NewCapacity(arr)
        /\ arr'.room = NewCapacity(arr) * arr.elem_size /\ arr'.cells = CopiedCells(arr)
        /\ Cell(arr') = Cell(arr)
    BY <2>b, SMTT(30), Z3T(30) DEF IsLonger
  <2> QED BY <1>0, <1>1, <1>4, <2>2, <2>4, <2>5, <2>6, SMTT(30), Z3T(30) DEF Sound
<1> QED BY <1>5, <1>6

LEMMA StoreKeeps ==
  ASSUME NEW i \in Int, NEW v \in Values, Sound(arr), 0 <= i, i < arr.length, Store(i, v)
  PROVE  Sound(arr)'
<1>1. PICK s : s = [arr.cells EXCEPT ![i + 1] = v]
  BY ZenonT(60)
<1>2. i + 1 \in 1..arr.length
  BY SMTT(30), Z3T(30) DEF Sound
<1>3. arr.cells \in Seq(Datum) /\ elems \in Seq(Datum) /\ v \in Datum
      /\ Len(arr.cells) = arr.length /\ Len(elems) = arr.length
  BY Fields, SMTT(30), Z3T(30) DEF Sound, Datum
<1>4. /\ s \in Seq(Datum) /\ Len(s) = arr.length /\ elems' \in Seq(Datum) /\ Len(elems') = arr.length
      /\ \A k \in 1..arr.length : /\ s[k] = IF k = i + 1 THEN v ELSE arr.cells[k]
                                  /\ elems'[k] = IF k = i + 1 THEN v ELSE elems[k]
  BY <1>1, <1>2, <1>3, Overwritten, SMTT(30), Z3T(30) DEF Store
<1>5. arr' = [arr EXCEPT !.cells = s]
  BY <1>1 DEF Store
<1>6. /\ arr' \in Arr /\ arr'.length = arr.length /\ arr'.capacity = arr.capacity
      /\ arr'.room = arr.room /\ arr'.cells = s /\ Cell(arr') = Cell(arr)
  BY <1>4, <1>5, Rewritten, SMTT(30), Z3T(30) DEF Sound
<1> QED BY <1>4, <1>6, SMTT(30), Z3T(30) DEF Sound

(* However often an array is extended, of whatever length and element size, *)
(* its cells lie in its buffer and hold what the program stored, unless an  *)
(* array of sub-arrays was moved whose elements are smaller than a pointer. *)
THEOREM ArraysKeepElements == ArraysSpec => []ArrayKeepsElements
<1>1. ArraysInit => ArrayInv
  BY DEF ArraysInit, ArrayInv
<1>2. ArrayInv /\ [ArraysNext]_arrayVars => ArrayInv'
  <2> SUFFICES ASSUME ArrayInv, [ArraysNext]_arrayVars PROVE ArrayInv'
    OBVIOUS
  <2>1. CASE UNCHANGED arrayVars
    BY <2>1 DEF ArrayInv, Sound, arrayVars, Cell
  <2>2. ASSUME NEW i \in -1..MaxCount, NEW v \in Values, StoreByIndex(i, v) PROVE ArrayInv'
    BY <2>2, StoreKeeps, ArraysAssumption, SMTT(30), Z3T(30) DEF StoreByIndex, ArrayInv
  <2>3. ASSUME NEW i \in -1..MaxCount, NEW v \in Values, set_subarray(i, v) PROVE ArrayInv'
    <3>1. CASE UNCHANGED <<arr, elems>>
      BY <2>3, <3>1, SMTT(30), Z3T(30) DEF set_subarray, ArrayInv, Sound, Cell
    <3>2. CASE ~(arr.rank <= 1 \/ i < 0 \/ i >= arr.length) /\ Store(i, v) /\ ~lost
      BY <2>3, <3>2, StoreKeeps, ArraysAssumption, SMTT(30), Z3T(30) DEF set_subarray, ArrayInv, Sound
    <3> QED BY <2>3, <3>1, <3>2, SMTT(30), Z3T(30) DEF set_subarray, ArrayInv
  <2> QED BY <2>1, <2>2, <2>3, AllocKeeps, ExtendKeeps, SMTT(30), Z3T(30) DEF ArraysNext
<1>3. ArrayInv => ArrayKeepsElements
  <2> SUFFICES ASSUME Sound(arr) PROVE /\ arr.length = Len(arr.cells) /\ arr.length * Cell(arr) <= arr.room
                                       /\ arr.length <= arr.capacity
                                       /\ \A i \in DOMAIN elems : elems[i] # Junk_ => arr.cells[i] = elems[i]
    BY SMTT(30), Z3T(30) DEF ArrayInv, ArrayKeepsElements
  <2>1. Cell(arr) \in Nat /\ arr.length \in Nat /\ arr.capacity \in Nat /\ arr.room \in Nat
    BY Fields, SMTT(30), Z3T(30) DEF Sound
  <2>2. arr.length * Cell(arr) <= arr.capacity * Cell(arr)
    BY <2>1, SMTT(30), Z3T(30) DEF Sound
  <2>3. DOMAIN elems = 1..arr.length
    BY SMTT(30), Z3T(30) DEF Sound
  <2>4. arr.length * Cell(arr) <= arr.room
    <3>1. arr.capacity * Cell(arr) <= arr.room /\ arr.capacity * Cell(arr) \in Nat
          /\ arr.length * Cell(arr) \in Nat
      BY <2>1, SMTT(30), Z3T(30) DEF Sound
    <3> QED BY <2>1, <2>2, <3>1, SMTT(30), Z3T(30)
  <2> QED BY <2>3, <2>4, ZenonT(60) DEF Sound
<1> QED BY <1>1, <1>2, <1>3, PTL DEF ArraysSpec

-----------------------------------------------------------------------------
(***************************************************************************)
(* Strings, for any characters, buffers and strings. The inductive         *)
(* invariant ties every string to its buffer: the bytes in it are the      *)
(* text, and the byte after them is NUL unless the string came from        *)
(* format.                                                                 *)
(***************************************************************************)

(* Zenon proves every step that does not ask for SMT; the limits, and the second call of the SMT *)
(* solver, leave room for slow machines. *)
USE ZenonT(60)

(* A text that is kept in a buffer, or in none when it is empty. *)
Holds(b, n, s) == b \in Buffer \cup {Nothing} /\ s \in Seq(Chars) /\ n = Len(s) /\ Bytes(b, n) = s

StrInv(x) ==
  /\ Holds(str[x].data, str[x].size, text[x])
  /\ x \in formatted \/ (bytes[str[x].data][str[x].size + 1] = NUL /\ str[x].data # Nothing)

InUse == {x \in Str : str[x] # Nothing}

TextTypes ==
  /\ DOMAIN bytes = Buffer /\ DOMAIN str = Str /\ DOMAIN text = Str
  /\ view # Nothing => view.buffer \in {"valid", "released"}
OwnBuffers == \A x, y \in InUse : x # y => str[x].data # str[y].data \/ str[x].data = Nothing
ViewInv == view # Nothing /\ view.buffer = "valid" => Holds(view.data, view.length, view.text)

TextInv == TextTypes /\ OwnBuffers /\ ViewInv /\ \A x \in InUse : StrInv(x)
-----------------------------------------------------------------------------
(* Tidy keeps what the task points to. *)
LEMMA TidyKeeps ==
  ASSUME NEW bs, Tidy(bs), NEW b \in Buffer, b \in Pointed' PROVE bytes'[b] = bs[b]
BY DEF Tidy

LEMMA HoldsKept ==
  ASSUME NEW b, NEW n, NEW s, Holds(b, n, s), b \in Buffer => bytes'[b] = bytes[b]
  PROVE  b \in Buffer \cup {Nothing} /\ s \in Seq(Chars) /\ n = Len(s) /\ (IF b = Nothing THEN <<>> ELSE SubSeq(bytes'[b], 1, n)) = s
BY DEF Holds, Bytes

LEMMA PointedStr == ASSUME NEW x \in InUse PROVE str[x].data \in Pointed
BY DEF Pointed, InUse

LEMMA PointedView == ASSUME view # Nothing PROVE view.data \in Pointed
BY DEF Pointed

(* A string that the step is not about, and the array. *)
LEMMA OtherStr ==
  ASSUME TextInv, NEW x \in InUse, str'[x] = str[x], text'[x] = text[x], x \in formatted' <=> x \in formatted,
         str[x].data \in Buffer => bytes'[str[x].data] = bytes[str[x].data]
  PROVE  StrInv(x)'
<1>1. StrInv(x)
  BY DEF TextInv
<1>2. Holds(str[x].data, str[x].size, text[x])'
  BY <1>1, HoldsKept DEF StrInv, Holds, Bytes
<1>3. str[x].data # Nothing => bytes'[str[x].data] = bytes[str[x].data]
  BY <1>1 DEF StrInv, Holds
<1> QED BY <1>1, <1>2, <1>3 DEF StrInv

LEMMA SameView ==
  ASSUME TextInv, view' = view \/ view' = Dangling,
         view # Nothing /\ view.data \in Buffer /\ view' = view
           => bytes'[view.data] = bytes[view.data]
  PROVE  ViewInv' /\ (view' # Nothing => view'.buffer \in {"valid", "released"})
<1>1. CASE view' = view
  <2>1. view # Nothing => view.buffer \in {"valid", "released"}
    BY DEF TextInv, TextTypes
  <2>2. ASSUME view # Nothing, view.buffer = "valid" PROVE Holds(view.data, view.length, view.text)'
    <3>1. Holds(view.data, view.length, view.text)
      BY <2>2 DEF TextInv, ViewInv
    <3> QED BY <1>1, <2>2, <3>1, HoldsKept DEF Holds, Bytes
  <2> QED BY <1>1, <2>1, <2>2 DEF ViewInv
<1>2. CASE view' = Dangling
  <2>1. Dangling.buffer = "released"
    BY DEF Dangling
  <2> QED BY <1>2, <2>1 DEF ViewInv
<1> QED BY <1>1, <1>2

LEMMA TextAndByte ==
  ASSUME NEW s \in Seq(Chars), NEW c
  PROVE  /\ SubSeq(s \o <<c>>, 1, Len(s)) = s /\ (s \o <<c>>)[Len(s) + 1] = c
<1>1. Len(s) \in Nat
  BY SMTT(30), Z3T(30)
<1>2. (s \o <<c>>)[Len(s) + 1] = c
  BY SMTT(30), Z3T(30)
<1>3. SubSeq(s \o <<c>>, 1, Len(s)) = s
  BY SMTT(30), Z3T(30)
<1> QED BY <1>2, <1>3

LEMMA AssignInv ==
  ASSUME TextInv, NEW x \in Str, NEW s \in Seq(Chars), NEW c, Assign(x, s, <<c>>), Expect(x, s),
         \A y \in Str \ {x} : y \in formatted' <=> y \in formatted, x \in formatted' \/ c = NUL,
         view' = view \/ view' = Dangling
  PROVE  TextInv'
<1>1. PICK b \in Buffer \ Pointed : /\ str' = [str EXCEPT ![x] = [data |-> b, size |-> Len(s)]]
                                    /\ Tidy([bytes EXCEPT ![b] = s \o <<c>>])
  BY DEF Assign
<1>2. /\ DOMAIN str' = Str /\ str'[x] = [data |-> b, size |-> Len(s)] /\ \A y \in Str \ {x} : str'[y] = str[y]
      /\ DOMAIN text' = Str /\ text'[x] = s /\ \A y \in Str \ {x} : text'[y] = text[y]
  BY <1>1 DEF Expect, TextInv, TextTypes
<1>3. str'[x].data = b /\ str'[x].size = Len(s) /\ b # Nothing
  <2>1. str'[x].data = b /\ str'[x].size = Len(s)
    BY <1>2, SMTT(30), Z3T(30)
  <2> QED BY <1>1, <2>1, StringsAssumption
<1>4. ASSUME NEW d \in Buffer, d \in Pointed', d \in Pointed PROVE bytes'[d] = bytes[d]
  BY <1>1, <1>4, TidyKeeps DEF TextInv, TextTypes
<1>5. ASSUME x \in InUse' PROVE StrInv(x)'
  <2>1. b \in Pointed'
    BY <1>3, <1>5 DEF Pointed, InUse
  <2>2. bytes'[b] = s \o <<c>>
    <3>1. [bytes EXCEPT ![b] = s \o <<c>>][b] = s \o <<c>>
      BY <1>1 DEF TextInv, TextTypes
    <3> QED BY <1>1, <2>1, <3>1, TidyKeeps
  <2>3. SubSeq(bytes'[b], 1, Len(s)) = s /\ bytes'[b][Len(s) + 1] = c
    BY <2>2, TextAndByte
  <2> QED BY <1>1, <1>2, <1>3, <2>3 DEF StrInv, Holds, Bytes
<1>6. ASSUME NEW y \in InUse' \ {x} PROVE y \in InUse /\ str[y].data \in Pointed /\ StrInv(y)'
  <2>1. y \in InUse /\ y \in Str /\ str'[y] = str[y] /\ text'[y] = text[y]
    BY <1>2 DEF InUse
  <2>2. str[y].data \in Pointed /\ str[y].data \in Pointed'
    BY <2>1 DEF Pointed, InUse
  <2> QED BY <1>4, <2>1, <2>2, OtherStr
<1>7. OwnBuffers'
  <2> SUFFICES ASSUME NEW y \in InUse', NEW z \in InUse', y # z
               PROVE  str'[y].data # str'[z].data \/ str'[y].data = Nothing
    BY DEF OwnBuffers
  <2>1. CASE y = x
    BY <1>1, <1>2, <1>3, <1>6, <2>1 DEF InUse
  <2>2. CASE z = x
    BY <1>1, <1>2, <1>3, <1>6, <2>2 DEF InUse
  <2>3. CASE y # x /\ z # x
    BY <1>2, <1>6, <2>3 DEF TextInv, OwnBuffers, InUse
  <2> QED BY <2>1, <2>2, <2>3
<1>8. ViewInv' /\ (view' # Nothing => view'.buffer \in {"valid", "released"})
  <2>1. ASSUME view # Nothing, view.data \in Buffer, view' = view PROVE bytes'[view.data] = bytes[view.data]
    <3>1. view.data \in Pointed /\ view.data \in Pointed'
      BY <2>1 DEF Pointed
    <3> QED BY <1>4, <2>1, <3>1
  <2> QED BY <2>1, SameView
<1>9. DOMAIN bytes' = Buffer
  BY <1>1 DEF Tidy
<1> QED BY <1>2, <1>5, <1>6, <1>7, <1>8, <1>9 DEF TextInv, TextTypes

(* A string that goes, or has no buffer from now on. *)
LEMMA NoBufferInv ==
  ASSUME TextInv, NEW x \in Str, Tidy(bytes), NEW r, str' = [str EXCEPT ![x] = r], Expect(x, <<>>), view' = view,
         r = Nothing \/ (r = [data |-> Nothing, size |-> 0] /\ x \in formatted'),
         \A y \in Str \ {x} : y \in formatted' <=> y \in formatted
  PROVE  TextInv'
<1>1. /\ DOMAIN str' = Str /\ str'[x] = r /\ \A y \in Str \ {x} : str'[y] = str[y]
      /\ DOMAIN text' = Str /\ text'[x] = <<>> /\ \A y \in Str \ {x} : text'[y] = text[y]
  BY DEF Expect, TextInv, TextTypes
<1>2. ASSUME x \in InUse' PROVE StrInv(x)' /\ str'[x].data = Nothing
  <2>1. r.data = Nothing /\ r.size = 0 /\ x \in formatted'
    <3>1. r = [data |-> Nothing, size |-> 0] /\ x \in formatted'
      BY <1>1, <1>2 DEF InUse
    <3> QED BY <3>1
  <2>2. <<>> \in Seq(Chars) /\ Len(<<>>) = 0
    BY SMTT(30), Z3T(30)
  <2>3. Holds(str[x].data, str[x].size, text[x])'
    BY <1>1, <2>1, <2>2 DEF Holds, Bytes
  <2>4. str'[x].data = Nothing /\ x \in formatted'
    BY <1>1, <2>1
  <2>5. StrInv(x)'
    BY <2>3, <2>4 DEF StrInv
  <2> QED BY <2>4, <2>5
<1>3. ASSUME NEW y \in InUse' \ {x} PROVE y \in InUse /\ StrInv(y)'
  <2>1. y \in InUse /\ y \in Str /\ str'[y] = str[y] /\ text'[y] = text[y]
    BY <1>1 DEF InUse
  <2>2. str[y].data \in Pointed'
    BY <2>1 DEF Pointed, InUse
  <2>3. str[y].data \in Buffer => bytes'[str[y].data] = bytes[str[y].data]
    BY <2>2 DEF Tidy
  <2> QED BY <2>1, <2>3, OtherStr
<1>4. OwnBuffers'
  <2> SUFFICES ASSUME NEW y \in InUse', NEW z \in InUse', y # z
               PROVE  str'[y].data # str'[z].data \/ str'[y].data = Nothing
    BY DEF OwnBuffers
  <2>1. CASE y = x \/ z = x
    BY <1>2, <2>1
  <2>2. CASE y # x /\ z # x
    BY <1>1, <1>3, <2>2 DEF TextInv, OwnBuffers, InUse
  <2> QED BY <2>1, <2>2
<1>5. ViewInv' /\ (view' # Nothing => view'.buffer \in {"valid", "released"})
  <2>1. ASSUME view # Nothing, view.data \in Buffer PROVE bytes'[view.data] = bytes[view.data]
    <3>1. view.data \in Pointed'
      BY <2>1 DEF Pointed
    <3> QED BY <2>1, <3>1 DEF Tidy
  <2> QED BY <2>1, SameView
<1>6. DOMAIN bytes' = Buffer
  BY DEF Tidy
<1> QED BY <1>1, <1>2, <1>3, <1>4, <1>5, <1>6 DEF TextInv, TextTypes
-----------------------------------------------------------------------------
LEMMA GetBytesInv == ASSUME TextInv, NEW x \in Str, get_bytes(x) PROVE TextInv'
<1>1. /\ x \in InUse /\ UNCHANGED <<str, text, formatted>> /\ Tidy(bytes)
      /\ view' = [data |-> str[x].data, length |-> str[x].size, text |-> text[x], buffer |-> "valid"]
  BY DEF get_bytes, Alive, InUse
<1>2. ASSUME NEW y \in InUse PROVE str[y].data \in Buffer => bytes'[str[y].data] = bytes[str[y].data]
  <2>1. str[y].data \in Pointed'
    BY <1>1 DEF Pointed, InUse
  <2> QED BY <1>1, <2>1 DEF Tidy
<1>3. ASSUME NEW y \in InUse PROVE StrInv(y)'
  BY <1>1, <1>2, OtherStr
<1>4. view'.data = str[x].data /\ view'.length = str[x].size /\ view'.text = text[x] /\ view'.buffer = "valid"
  BY <1>1, SMTT(30), Z3T(30)
<1>5. Holds(view.data, view.length, view.text)'
  BY <1>1, <1>3, <1>4 DEF StrInv, Holds, Bytes
<1>6. DOMAIN bytes' = Buffer
  BY <1>1 DEF Tidy
<1> QED BY <1>1, <1>3, <1>4, <1>5, <1>6 DEF TextInv, TextTypes, ViewInv, OwnBuffers, InUse

LEMMA ReadText == ASSUME TextInv, NEW x \in InUse PROVE Read(x) = text[x] /\ text[x] \in Seq(Chars) /\ str[x].size = Len(text[x])
BY DEF TextInv, StrInv, Holds, Read

(* A step that faults leaves the strings alone. *)
LEMMA FaultInv == ASSUME TextInv, UNCHANGED strVars PROVE TextInv'
BY DEF strVars, TextInv, TextTypes, OwnBuffers, ViewInv, StrInv, InUse, Holds, Bytes

LEMMA RawInv == ASSUME TextInv, NEW x \in Str, NEW s \in Texts, alloc_from_raw(x, s) PROVE TextInv'
<1>1. /\ s \in Seq(Chars) /\ view' = view /\ Assign(x, s, <<NUL>>) /\ Expect(x, s) /\ formatted' = formatted \ {x}
  BY StringsAssumption DEF alloc_from_raw
<1> QED BY <1>1, AssignInv

LEMMA FormatInv == ASSUME TextInv, NEW x \in Str, NEW s \in Texts, format(x, s) PROVE TextInv'
<1>1. /\ s \in Seq(Chars) /\ view' = view /\ Expect(x, s) /\ formatted' = formatted \cup {x}
  BY StringsAssumption DEF format
<1>2. CASE s = <<>>
  <2>1. str' = [str EXCEPT ![x] = [data |-> Nothing, size |-> 0]] /\ Tidy(bytes)
    BY <1>2 DEF format
  <2> QED BY <1>1, <1>2, <2>1, NoBufferInv
<1>3. CASE s # <<>>
  <2>1. Assign(x, s, <<Junk>>)
    BY <1>3 DEF format
  <2> QED BY <1>1, <2>1, AssignInv
<1> QED BY <1>2, <1>3

LEMMA FromArrInv == ASSUME TextInv, NEW x \in Str, alloc_from_arr(x) PROVE TextInv'
<1>1. CASE view.buffer = "released"
  BY <1>1, FaultInv DEF alloc_from_arr
<1>2. CASE view.buffer # "released"
  <2>1. /\ view' = view /\ Assign(x, Bytes(view.data, view.length), <<NUL>>) /\ Expect(x, view.text)
        /\ formatted' = formatted \ {x} /\ view # Nothing
    BY <1>2 DEF alloc_from_arr
  <2>2. Bytes(view.data, view.length) = view.text /\ view.text \in Seq(Chars)
    BY <1>2, <2>1 DEF TextInv, TextTypes, ViewInv, Holds
  <2> QED BY <2>1, <2>2, AssignInv
<1> QED BY <1>1, <1>2

LEMMA Longer1 == ASSUME NEW s \in Seq(Chars), NEW c \in Chars PROVE Append(s, c) \in Seq(Chars)
BY SMTT(30), Z3T(30)

LEMMA AppendInv == ASSUME TextInv, NEW x \in Str, append(x, "b") PROVE TextInv'
<1>1. x \in InUse
  BY DEF append, Alive, InUse
<1>2. CASE str[x].data = Nothing
  BY <1>2, FaultInv DEF append
<1>3. CASE str[x].data # Nothing
  <2>1. /\ Assign(x, Append(Read(x), "b"), <<NUL>>) /\ Expect(x, Append(text[x], "b")) /\ formatted' = formatted \ {x}
        /\ view' = view \/ view' = Dangling
    BY <1>3 DEF append, Release
  <2>2. Read(x) = text[x] /\ text[x] \in Seq(Chars) /\ "b" \in Chars
    BY <1>1, ReadText DEF Chars
  <2>3. Append(text[x], "b") \in Seq(Chars)
    BY <2>2, Longer1
  <2> QED BY <2>1, <2>2, <2>3, AssignInv
<1> QED BY <1>2, <1>3

LEMMA JoinInv == ASSUME TextInv, NEW x \in Str, NEW y \in Str, join(x, y) PROVE TextInv'
<1>1. /\ x \in InUse /\ y \in InUse /\ formatted' = formatted \ {x} /\ Assign(x, Read(x) \o Read(y), <<NUL>>)
      /\ Expect(x, text[x] \o text[y]) /\ (view' = view \/ view' = Dangling)
  BY DEF join, Alive, InUse, Release
<1>2. Read(x) = text[x] /\ Read(y) = text[y] /\ text[x] \in Seq(Chars) /\ text[y] \in Seq(Chars)
  BY <1>1, ReadText
<1>3. text[x] \o text[y] \in Seq(Chars)
  BY <1>2, SMTT(30), Z3T(30)
<1> QED BY <1>1, <1>2, <1>3, AssignInv

LEMMA SubstringInv ==
  ASSUME TextInv, NEW x \in Str, NEW y \in Str, NEW start \in Int, NEW end \in Int, substring(x, y, start, end) PROVE TextInv'
<1>1. x \in InUse
  BY DEF substring, Alive, InUse
<1>2. CASE start < 0 \/ end > str[x].size
  <2>1. /\ str' = [str EXCEPT ![y] = Nothing] /\ view' = view /\ Tidy(bytes) /\ Expect(y, <<>>) /\ formatted' = formatted \ {y}
    BY <1>2 DEF substring
  <2> QED BY <2>1, NoBufferInv
<1>3. CASE ~(start < 0 \/ end > str[x].size) /\ end < start
  BY <1>3, FaultInv DEF substring
<1>4. CASE ~(start < 0 \/ end > str[x].size) /\ ~(end < start)
  <2>1. /\ view' = view /\ Assign(y, SubSeq(Read(x), start + 1, end), <<NUL>>)
        /\ Expect(y, SubSeq(text[x], start + 1, end)) /\ formatted' = formatted \ {y}
    BY <1>4 DEF substring
  <2>2. Read(x) = text[x] /\ text[x] \in Seq(Chars) /\ str[x].size = Len(text[x])
    BY <1>1, ReadText
  <2>3. SubSeq(text[x], start + 1, end) \in Seq(Chars)
    <3>1. start + 1 >= 1 /\ end <= Len(text[x])
      BY <1>4, <2>2, SMTT(30), Z3T(30)
    <3> QED BY <2>2, <3>1, SMTT(30), Z3T(30)
  <2> QED BY <2>1, <2>2, <2>3, AssignInv
<1> QED BY <1>2, <1>3, <1>4

LEMMA TextStarts == TextInit => TextInv
BY DEF TextInit, TextInv, TextTypes, OwnBuffers, ViewInv, InUse

LEMMA TextSteps == TextInv /\ [TextNext]_textVars => TextInv'
<1> SUFFICES ASSUME TextInv, [TextNext]_textVars PROVE TextInv'
  OBVIOUS
<1>1. CASE UNCHANGED textVars
  BY <1>1, FaultInv DEF textVars
<1>2. ASSUME NEW x \in Str, NEW s \in Texts, alloc_from_raw(x, s) \/ format(x, s) PROVE TextInv'
  BY <1>2, RawInv, FormatInv
<1>3. ASSUME NEW x \in Str, get_bytes(x) \/ alloc_from_arr(x) \/ append(x, "b") PROVE TextInv'
  BY <1>3, GetBytesInv, FromArrInv, AppendInv
<1>4. ASSUME NEW x \in Str, NEW y \in Str, join(x, y) PROVE TextInv'
  BY <1>4, JoinInv
<1>5. ASSUME NEW x \in Str, NEW y \in Str, NEW i \in -1..MaxLen, NEW j \in -1..MaxLen, substring(x, y, i, j) PROVE TextInv'
  <2>1. i \in Int /\ j \in Int
    BY SMTT(30), Z3T(30)
  <2> QED BY <1>5, <2>1, SubstringInv
<1> QED BY <1>1, <1>2, <1>3, <1>4, <1>5 DEF TextNext, StringStep
-----------------------------------------------------------------------------
LEMMA Least == ASSUME NEW d \in SUBSET Nat, d # {} PROVE \E j \in d : \A k \in d : j <= k
<1>1. PICK j \in d : \A k \in d : ~(<<k, j>> \in OpToRel(<, Nat))
  BY NatLessThanWellFounded, WFMin
<1>2. \A k \in d : ~(k < j)
  <2> SUFFICES ASSUME NEW k \in d, k < j PROVE FALSE
    OBVIOUS
  <2>1. <<k, j>> \in OpToRel(<, Nat)
    BY <1>1, SMTT(30), Z3T(30) DEF OpToRel
  <2> QED BY <1>1, <2>1
<1> QED BY <1>2, SMTT(30), Z3T(30)

(* The places in which two texts differ, and the first of them. *)
Differ(s, t) == {i \in 1..Len(s) : i <= Len(t) /\ s[i] # t[i]}
First(d) == CHOOSE j \in d : \A k \in d : j <= k

LEMMA CompareIs ==
  ASSUME NEW s, NEW t
  PROVE  strings_compare(s, t) = IF Differ(s, t) = {} THEN Len(s) - Len(t)
                                 ELSE Code(s[First(Differ(s, t))]) - Code(t[First(Differ(s, t))])
BY DEF strings_compare, Differ, First

LEMMA CodesDiffer ==
  ASSUME NEW a \in Chars, NEW b \in Chars PROVE (Code(a) - Code(b) = 0 <=> a = b)
BY SMTT(30), Z3T(30) DEF Chars, Code

LEMMA CodesSwap == ASSUME NEW a, NEW b PROVE Code(a) - Code(b) > 0 <=> Code(b) - Code(a) < 0
<1>1. Code(a) \in Int /\ Code(b) \in Int
  BY SMTT(30), Z3T(30) DEF Code
<1> QED BY <1>1, SMTT(30), Z3T(30)

LEMMA CompareEqual ==
  ASSUME NEW s \in Seq(Chars), NEW t \in Seq(Chars) PROVE strings_compare(s, t) = 0 <=> s = t
<1>1. CASE Differ(s, t) = {}
  <2>1. strings_compare(s, t) = Len(s) - Len(t)
    BY <1>1, CompareIs
  <2>2. ASSUME Len(s) = Len(t) PROVE s = t
    <3>1. \A i \in 1..Len(s) : s[i] = t[i]
      BY <1>1, <2>2, SMTT(30), Z3T(30) DEF Differ
    <3> QED BY <2>2, <3>1, SMTT(30), Z3T(30)
  <2> QED BY <2>1, <2>2, SMTT(30), Z3T(30)
<1>2. CASE Differ(s, t) # {}
  <2> DEFINE i == First(Differ(s, t))
  <2>1. i \in Differ(s, t)
    <3>1. Differ(s, t) \in SUBSET Nat
      BY SMTT(30), Z3T(30) DEF Differ
    <3> QED BY <1>2, <3>1, Least DEF First
  <2>2. s[i] # t[i] /\ s[i] \in Chars /\ t[i] \in Chars
    BY <2>1, SMTT(30), Z3T(30) DEF Differ
  <2>3. strings_compare(s, t) = Code(s[i]) - Code(t[i])
    BY <1>2, CompareIs
  <2>4. strings_compare(s, t) # 0
    BY <2>2, <2>3, CodesDiffer
  <2> QED BY <2>2, <2>4
<1> QED BY <1>1, <1>2

LEMMA CompareSwap ==
  ASSUME NEW s \in Seq(Chars), NEW t \in Seq(Chars) PROVE strings_compare(s, t) > 0 <=> strings_compare(t, s) < 0
<1>1. Differ(s, t) = Differ(t, s)
  BY SMTT(30), Z3T(30) DEF Differ
<1>2. CASE Differ(s, t) = {}
  <2>1. strings_compare(s, t) = Len(s) - Len(t) /\ strings_compare(t, s) = Len(t) - Len(s)
    BY <1>1, <1>2, CompareIs
  <2> QED BY <2>1, SMTT(30), Z3T(30)
<1>3. CASE Differ(s, t) # {}
  <2> DEFINE i == First(Differ(s, t))
  <2>1. strings_compare(s, t) = Code(s[i]) - Code(t[i]) /\ strings_compare(t, s) = Code(t[i]) - Code(s[i])
    BY <1>1, <1>3, CompareIs
  <2> QED BY <2>1, CodesSwap
<1> QED BY <1>2, <1>3

LEMMA TextAgrees == TextInv => StringsAgree
<1> SUFFICES ASSUME TextInv PROVE StringsAgree
  OBVIOUS
<1>1. ASSUME NEW x \in InUse PROVE Read(x) = text[x] /\ text[x] \in Seq(Chars) /\ str[x].size = Len(text[x])
  BY ReadText
<1>2. ASSUME NEW x \in InUse PROVE x \in formatted \/ bytes[str[x].data][str[x].size + 1] = NUL
  BY DEF TextInv, StrInv
<1>3. ASSUME NEW x \in InUse, NEW y \in InUse
      PROVE  /\ x # y => str[x].data # str[y].data \/ str[x].data = Nothing
             /\ (strings_compare(Read(x), Read(y)) = 0) <=> (text[x] = text[y])
             /\ (strings_compare(Read(x), Read(y)) > 0) <=> (strings_compare(Read(y), Read(x)) < 0)
  <2>1. x # y => str[x].data # str[y].data \/ str[x].data = Nothing
    BY DEF TextInv, OwnBuffers
  <2>2. (strings_compare(Read(x), Read(y)) = 0) <=> (text[x] = text[y])
    <3>1. strings_compare(text[x], text[y]) = 0 <=> text[x] = text[y]
      BY <1>1, CompareEqual
    <3> QED BY <1>1, <3>1
  <2>3. (strings_compare(Read(x), Read(y)) > 0) <=> (strings_compare(Read(y), Read(x)) < 0)
    BY <1>1, CompareSwap
  <2> QED BY <2>1, <2>2, <2>3
<1>4. view # Nothing /\ view.buffer = "valid" => Bytes(view.data, view.length) = view.text
  BY DEF TextInv, ViewInv, Holds
<1> QED BY <1>1, <1>2, <1>3, <1>4 DEF StringsAgree, InUse

(* Whatever a task does with any number of strings (runtime/src/strings.c), *)
(* as long as no call has faulted every string has the text the program    *)
(* expects and a buffer of its own, with a NUL behind the text unless      *)
(* strings_format made it; an array from get_bytes shows the bytes of its  *)
(* string until the buffer is released; and strings_compare, for texts of  *)
(* any length, returns 0 for equal texts only and changes its sign when    *)
(* its arguments change places.                                            *)
THEOREM StringsKeepText == TextSpec => []StringsAgree
<1>1. TextInit => TextInv
  BY TextStarts
<1>2. TextInv /\ [TextNext]_textVars => TextInv'
  BY TextSteps
<1>3. TextInv => StringsAgree
  BY TextAgrees
<1> QED BY <1>1, <1>2, <1>3, PTL DEF TextSpec

-----------------------------------------------------------------------------
(***************************************************************************)
(* GcMark, for any objects and tasks. The inductive invariant follows      *)
(* gc_mark round the ring of roots: the ring holds the tasks that are      *)
(* spawned and not unregistered, once each, and those in front of the one  *)
(* it looks at have been scanned.                                          *)
(***************************************************************************)

Lives == {"unborn", "spawned", "running", "finished", "freed"}

MarkTypes ==
  /\ life \in [Task -> Lives]
  /\ stack \in [Task -> SUBSET Obj]
  /\ roots \in Seq(Task)
  /\ disturbed \in BOOLEAN

(* The ring holds each task from safe_gcq_push to gc_unregister_root, once. *)
RingInv ==
  /\ IsInjective(roots)
  /\ \A t \in Task : t \in Range(roots) <=> life[t] \in {"spawned", "running", "finished"}

(* A task that has not started has nothing on its stack. *)
StackInv == \A t \in Task : life[t] \in {"unborn", "spawned"} => stack[t] = {}

Scanned(t) == life[t] = "running" => stack[t] \cap inuse \subseteq mark

(* The tasks in front of the one gc_mark looks at have been scanned; marks *)
(* come from the stacks of running tasks, and none outlives a collection.  *)
WalkInv ==
  /\ mark \subseteq OnStacks
  /\ cpc = "idle" => mark = {} /\ ~disturbed
  /\ cpc = "marking" => tm \in Task
  /\ cpc = "marking" /\ ~disturbed =>
       /\ 1 \in DOMAIN roots /\ head = roots[1]
       /\ \E i \in DOMAIN roots : tm = roots[i] /\ \A j \in 1..(i - 1) : Scanned(roots[j])
  /\ cpc = "sweeping" /\ ~disturbed => \A t \in Task : Scanned(t)

DataInv == field \in [Obj -> Obj \cup {Nil}] /\ payload \in [Task -> SUBSET Obj]

MarkInv == MarkTypes /\ DataInv /\ RingInv /\ StackInv /\ WalkInv

(* gc_mark_task marks the chunks in use that the stack points to, and       *)
(* nothing that those point to.                                             *)
LEMMA MarkTaskAdds ==
  ASSUME NEW m, NEW t
  PROVE  MarkTask(m, t) = m \cup (stack[t] \cap inuse)
<1>1. \A o : TryMarkPointer(m, o) = m \cup {o}
  BY DEF TryMarkPointer, MarkChunkRecursive
<1>2. ASSUME NEW x PROVE x \in MarkTask(m, t) <=> x \in m \cup (stack[t] \cap inuse)
  <2>1. x \in MarkTask(m, t)
          <=> x \in m \/ \E o \in stack[t] \cap inuse : x \in TryMarkPointer(m, o)
    BY DEF MarkTask
  <2>2. ASSUME NEW o \in stack[t] \cap inuse, x \in TryMarkPointer(m, o)
        PROVE  x \in m \cup (stack[t] \cap inuse)
    <3>1. x \in m \cup {o}
      BY <1>1, <2>2
    <3> QED BY <3>1
  <2>3. x \in stack[t] \cap inuse => x \in TryMarkPointer(m, x)
    BY <1>1
  <2> QED BY <2>1, <2>2, <2>3
<1> QED BY <1>2

(* safe_gcq_push puts a task that is not there in front of the ring. *)
LEMMA RingPush ==
  ASSUME NEW q \in Seq(Task), NEW u \in Task,
         IsInjective(q), u \notin Range(q), NEW r, r = <<u>> \o q
  PROVE  r \in Seq(Task) /\ IsInjective(r) /\ Range(r) = Range(q) \cup {u}
<1>0. /\ \A i, j \in DOMAIN q : q[i] = q[j] => i = j
      /\ \A i \in DOMAIN q : q[i] # u
  BY DEF IsInjective, Range
<1>1. r \in Seq(Task) /\ Len(r) = Len(q) + 1 /\ Len(q) \in Nat /\ r[1] = u
  BY SMTT(30), Z3T(30)
<1>2. /\ DOMAIN q = 1..Len(q) /\ DOMAIN r = 1..(Len(q) + 1)
      /\ \A i \in 1..Len(q) : r[i + 1] = q[i]
  BY SMTT(30), Z3T(30)
<1>3. \A i \in DOMAIN r : i # 1 => i - 1 \in DOMAIN q /\ r[i] = q[i - 1]
  BY <1>1, <1>2, SMTT(30), Z3T(30)
<1>4. \A i, j \in DOMAIN r : r[i] = r[j] => i = j
  BY <1>0, <1>1, <1>2, <1>3, SMTT(30), Z3T(30)
<1>5. \A v : (\E i \in DOMAIN r : r[i] = v) => v = u \/ \E i \in DOMAIN q : q[i] = v
  BY <1>1, <1>3
<1>6. 1 \in DOMAIN r /\ \A i \in DOMAIN q : i + 1 \in DOMAIN r
  BY <1>1, <1>2, SMTT(30), Z3T(30)
<1>7. \A v : v = u \/ (\E i \in DOMAIN q : q[i] = v) => \E i \in DOMAIN r : r[i] = v
  BY <1>1, <1>2, <1>6
<1>8. ASSUME NEW v PROVE v \in Range(r) <=> v = u \/ v \in Range(q)
  <2>1. v \in Range(r) <=> \E i \in DOMAIN r : r[i] = v
    BY DEF Range
  <2>2. v \in Range(q) <=> \E i \in DOMAIN q : q[i] = v
    BY DEF Range
  <2> QED BY <1>5, <1>7, <2>1, <2>2
<1>9. Range(r) = Range(q) \cup {u}
  BY <1>8
<1>10. IsInjective(r)
  BY <1>4 DEF IsInjective
<1> QED BY <1>1, <1>9, <1>10

(* A sequence without its i-th element. *)
LEMMA Removal ==
  ASSUME NEW S, NEW q \in Seq(S), NEW i \in 1..Len(q)
  PROVE  /\ Unlinked(q, i) \in Seq(S) /\ Len(Unlinked(q, i)) = Len(q) - 1
         /\ \A j \in 1..(Len(q) - 1) : Unlinked(q, i)[j] = IF j < i THEN q[j] ELSE q[j + 1]
<1>1. Len(q) \in Nat /\ \A j \in 1..Len(q) : q[j] \in S
  BY SMTT(30), Z3T(30)
<1>2. /\ SubSeq(q, 1, i - 1) \in Seq(S) /\ Len(SubSeq(q, 1, i - 1)) = i - 1
      /\ \A j \in 1..(i - 1) : SubSeq(q, 1, i - 1)[j] = q[j]
  BY <1>1, SMTT(30), Z3T(30)
<1>3. /\ SubSeq(q, i + 1, Len(q)) \in Seq(S) /\ Len(SubSeq(q, i + 1, Len(q))) = Len(q) - i
      /\ \A j \in 1..(Len(q) - i) : SubSeq(q, i + 1, Len(q))[j] = q[i + j]
  BY <1>1, SMTT(30), Z3T(30)
<1>4. PICK a \in Seq(S) : /\ a = SubSeq(q, 1, i - 1) /\ Len(a) = i - 1
                          /\ \A j \in 1..(i - 1) : a[j] = q[j]
  BY <1>2
<1>5. PICK b \in Seq(S) : /\ b = SubSeq(q, i + 1, Len(q)) /\ Len(b) = Len(q) - i
                          /\ \A j \in 1..(Len(q) - i) : b[j] = q[i + j]
  BY <1>3
<1>6. Unlinked(q, i) = a \o b
  BY <1>4, <1>5 DEF Unlinked
<1>a. Len(a) = i - 1 /\ \A j \in 1..(i - 1) : a[j] = q[j]
  BY <1>4
<1>b. Len(b) = Len(q) - i /\ \A j \in 1..(Len(q) - i) : b[j] = q[i + j]
  BY <1>5
<1>7. a \o b \in Seq(S) /\ Len(a \o b) = Len(q) - 1
  <2>1. a \o b \in Seq(S) /\ Len(a \o b) = Len(a) + Len(b)
    BY SMTT(30), Z3T(30)
  <2> QED BY <1>1, <1>a, <1>b, <2>1, SMTT(30), Z3T(30)
<1>8. ASSUME NEW j \in 1..(Len(q) - 1) PROVE (a \o b)[j] = IF j < i THEN q[j] ELSE q[j + 1]
  <2>1. CASE j < i
    BY <1>1, <1>a, <1>b, <2>1, SMTT(30), Z3T(30)
  <2>2. CASE ~(j < i)
    <3>1. j - (i - 1) \in 1..(Len(q) - i) /\ i + (j - (i - 1)) = j + 1 
      BY <1>1, <2>2, SMTT(30), Z3T(30)
    <3>2. (a \o b)[j] = b[j - (i - 1)]
      BY <1>1, <1>a, <1>b, <2>2, SMTT(30), Z3T(30)
    <3> QED BY <1>5, <2>2, <3>1, <3>2
  <2> QED BY <2>1, <2>2
<1> QED BY <1>6, <1>7, <1>8

(* gc_unregister_root takes a task out of the ring, and no other. *)
LEMMA RingRemove ==
  ASSUME NEW q \in Seq(Task), NEW i \in DOMAIN q,
         IsInjective(q)
  PROVE  /\ Unlinked(q, i) \in Seq(Task) /\ IsInjective(Unlinked(q, i))
         /\ Range(Unlinked(q, i)) = Range(q) \ {q[i]}
<1> DEFINE n == Len(q)
<1>a. \A j, k \in DOMAIN q : q[j] = q[k] => j = k
  BY DEF IsInjective
<1>0. DOMAIN q = 1..n /\ n \in Nat /\ i \in 1..n
  BY SMTT(30), Z3T(30)
<1>2. PICK r : r = Unlinked(q, i)
  OBVIOUS
<1>3. /\ r \in Seq(Task) /\ DOMAIN r = 1..(n - 1)
      /\ \A j \in 1..(n - 1) : r[j] = IF j < i THEN q[j] ELSE q[j + 1]
  <2>1. /\ r \in Seq(Task) /\ Len(r) = n - 1
        /\ \A j \in 1..(n - 1) : r[j] = IF j < i THEN q[j] ELSE q[j + 1]
    BY <1>0, <1>2, Removal
  <2> QED BY <2>1, SMTT(30), Z3T(30)
<1>4. \A j \in 1..(n - 1) : \E k \in 1..n : k # i /\ r[j] = q[k] /\ k = IF j < i THEN j ELSE j + 1
  BY <1>0, <1>3, SMTT(30), Z3T(30)
<1>5. \A k \in 1..n : k # i => \E j \in 1..(n - 1) : r[j] = q[k]
  <2> SUFFICES ASSUME NEW k \in 1..n, k # i PROVE \E j \in 1..(n - 1) : r[j] = q[k]
    OBVIOUS
  <2>1. CASE k < i
    BY <1>0, <1>3, <2>1, SMTT(30), Z3T(30)
  <2>2. CASE k > i
    <3>1. k - 1 \in 1..(n - 1) /\ ~(k - 1 < i) /\ (k - 1) + 1 = k
      BY <1>0, <2>2, SMTT(30), Z3T(30)
    <3> QED BY <1>3, <3>1
  <2> QED BY <1>0, <2>1, <2>2, SMTT(30), Z3T(30)
<1>6. \A j, k \in DOMAIN r : r[j] = r[k] => j = k
  <2> SUFFICES ASSUME NEW j \in 1..(n - 1), NEW k \in 1..(n - 1), r[j] = r[k] PROVE j = k
    BY <1>3
  <2>1. PICK a \in 1..n : r[j] = q[a] /\ a = IF j < i THEN j ELSE j + 1
    BY <1>4
  <2>2. PICK b \in 1..n : r[k] = q[b] /\ b = IF k < i THEN k ELSE k + 1
    BY <1>4
  <2>3. a = b
    BY <1>0, <1>a, <2>1, <2>2
  <2> QED BY <1>0, <2>1, <2>2, <2>3, SMTT(30), Z3T(30)
<1>7. ASSUME NEW j \in DOMAIN r PROVE r[j] # q[i] /\ \E k \in DOMAIN q : q[k] = r[j]
  <2>1. PICK k \in 1..n : k # i /\ r[j] = q[k]
    BY <1>3, <1>4
  <2> QED BY <1>0, <1>a, <2>1
<1>8. \A v : v # q[i] /\ (\E j \in DOMAIN q : q[j] = v) => \E j \in DOMAIN r : r[j] = v
  BY <1>0, <1>3, <1>5
<1>9. \A v : (\E j \in DOMAIN r : r[j] = v) <=> v # q[i] /\ \E j \in DOMAIN q : q[j] = v
  BY <1>7, <1>8
<1>10. r \in Seq(Task) /\ r = Unlinked(q, i)
  BY <1>2, <1>3
<1>11. IsInjective(r) /\ Range(r) = Range(q) \ {q[i]}
  <2>1. \A v : v \in Range(r) <=> v # q[i] /\ v \in Range(q)
    BY <1>9 DEF Range
  <2>2. Range(r) = Range(q) \ {q[i]}
    BY <2>1
  <2>3. IsInjective(r)
    BY <1>6 DEF IsInjective
  <2> QED BY <2>2, <2>3
<1> QED BY <1>10, <1>11

(* node->fd of the i-th node of the ring. *)
LEMMA RingFd ==
  ASSUME MarkTypes, RingInv, NEW i \in DOMAIN roots
  PROVE  /\ Fd(roots[i]) = IF i = Len(roots) THEN roots[1] ELSE roots[i + 1]
         /\ DOMAIN roots = 1..Len(roots) /\ Len(roots) \in Nat /\ i \in 1..Len(roots)
         /\ 1 \in DOMAIN roots /\ (i # Len(roots) => i + 1 \in DOMAIN roots)
<1>1. DOMAIN roots = 1..Len(roots) /\ Len(roots) \in Nat /\ Head(roots) = roots[1]
  BY SMTT(30), Z3T(30) DEF MarkTypes
<1>2. \A j \in DOMAIN roots : roots[j] = roots[i] <=> j = i
  BY DEF RingInv, IsInjective
<1>3. (CHOOSE j \in DOMAIN roots : roots[j] = roots[i]) = i
  BY <1>2
<1>4. roots[i] \in Range(roots)
  BY DEF Range
<1>5. Fd(roots[i]) = IF i = Len(roots) THEN Head(roots) ELSE roots[i + 1]
  BY <1>3, <1>4 DEF Fd
<1> QED BY <1>1, <1>5, SMTT(30), Z3T(30)

LEMMA MarkInitInv == MarkInit => MarkInv
<1> SUFFICES ASSUME MarkInit PROVE MarkInv
  OBVIOUS
<1>1. roots = <<Main>> /\ roots \in Seq(Task) /\ DOMAIN roots = {1} /\ roots[1] = Main
  BY MarkAssumption, SMTT(30), Z3T(30) DEF MarkInit
<1>2. MarkTypes
  BY <1>1, MarkAssumption DEF MarkInit, MarkTypes, Lives
<1>3. \A t \in Task : life[t] = IF t = Main THEN "running" ELSE "unborn"
  BY DEF MarkInit
<1>4. RingInv
  BY <1>1, <1>3 DEF RingInv, IsInjective, Range
<1>5. StackInv
  BY DEF MarkInit, StackInv
<1>6. WalkInv
  BY DEF MarkInit, WalkInv
<1>7. DataInv
  BY DEF MarkInit, DataInv
<1> QED BY <1>2, <1>4, <1>5, <1>6, <1>7 DEF MarkInv

(* A step of the program while no collection is in progress. *)
LEMMA IdleKeeps ==
  ASSUME WalkInv, cpc = "idle", UNCHANGED <<mark, cpc, disturbed>>
  PROVE  WalkInv'
BY DEF WalkInv

(* A step that leaves the tasks and the ring alone. *)
LEMMA RingKeeps ==
  ASSUME MarkTypes, RingInv, UNCHANGED <<life, roots, disturbed>>
  PROVE  RingInv' /\ (stack' \in [Task -> SUBSET Obj] => MarkTypes')
BY DEF MarkTypes, RingInv

(* What a running task does to its own stack. *)
LEMMA StackSteps ==
  ASSUME MarkInv, NEW t \in Task, Runs(t), NEW s \in SUBSET Obj, DataInv',
         stack' = [stack EXCEPT ![t] = s], UNCHANGED <<life, mark, roots, collectorVars>>
  PROVE  MarkInv'
<1>1. stack' \in [Task -> SUBSET Obj] /\ \A u \in Task \ {t} : stack'[u] = stack[u]
  BY DEF MarkInv, MarkTypes
<1>2. MarkTypes' /\ RingInv'
  BY <1>1, RingKeeps DEF MarkInv, collectorVars
<1>3. StackInv'
  BY <1>1 DEF MarkInv, StackInv, Runs
<1>4. WalkInv'
  BY IdleKeeps DEF MarkInv, Runs, collectorVars
<1> QED BY <1>2, <1>3, <1>4 DEF MarkInv

LEMMA AllocInv == ASSUME MarkInv, NEW t \in Task, NEW o \in Obj, Alloc(t, o) PROVE MarkInv'
<1>1. stack[t] \cup {o} \in SUBSET Obj
  BY DEF MarkInv, MarkTypes
<1>2. DataInv'
  BY DEF MarkInv, DataInv, Alloc
<1> QED BY <1>1, <1>2, StackSteps DEF Alloc

LEMMA LoadInv == ASSUME MarkInv, NEW t \in Task, NEW o \in Obj, LoadPointer(t, o) PROVE MarkInv'
<1>1. field[o] \in Obj
  BY DEF MarkInv, DataInv, LoadPointer
<1>2. stack[t] \cup {field[o]} \in SUBSET Obj
  BY <1>1 DEF MarkInv, MarkTypes
<1>3. DataInv'
  BY DEF MarkInv, DataInv, LoadPointer
<1> QED BY <1>2, <1>3, StackSteps DEF LoadPointer, heapVars

LEMMA DropInv == ASSUME MarkInv, NEW t \in Task, NEW o \in Obj, Drop(t, o) PROVE MarkInv'
<1>1. stack[t] \ {o} \in SUBSET Obj
  BY DEF MarkInv, MarkTypes
<1>2. DataInv'
  BY DEF MarkInv, DataInv, Drop
<1> QED BY <1>1, <1>2, StackSteps DEF Drop, heapVars

LEMMA StoreInv ==
  ASSUME MarkInv, NEW t \in Task, NEW o \in Obj, NEW p \in Obj, StorePointer(t, o, p)
  PROVE  MarkInv'
<1>1. Runs(t) /\ UNCHANGED <<life, stack, mark, inuse, roots, cpc, disturbed>>
  BY DEF StorePointer, heapVars, collectorVars
<1>2. MarkTypes' /\ RingInv'
  BY <1>1, RingKeeps DEF MarkInv, MarkTypes
<1>3. StackInv' /\ WalkInv'
  BY <1>1, IdleKeeps DEF MarkInv, StackInv, Runs
<1>4. DataInv'
  BY DEF MarkInv, DataInv, StorePointer
<1> QED BY <1>2, <1>3, <1>4 DEF MarkInv

LEMMA SpawnInv ==
  ASSUME MarkInv, NEW t \in Task, NEW u \in Task, NEW o \in Obj, Spawn(t, u, o)
  PROVE  MarkInv'
<1>1. /\ life' = [life EXCEPT ![u] = "spawned"] /\ life[u] = "unborn"
      /\ roots' = <<u>> \o roots /\ cpc = "idle"
      /\ UNCHANGED <<stack, mark, inuse, cpc, disturbed>>
  BY DEF Spawn, Runs, heapVars, collectorVars
<1>2. roots \in Seq(Task) /\ IsInjective(roots) /\ u \notin Range(roots)
  BY <1>1 DEF MarkInv, MarkTypes, RingInv
<1>3. /\ roots' \in Seq(Task)
      /\ IsInjective(roots)' /\ Range(roots)' = Range(roots) \cup {u}
  BY <1>1, <1>2, RingPush
<1>4. /\ life' \in [Task -> Lives] /\ life'[u] = "spawned"
      /\ \A v \in Task \ {u} : life'[v] = life[v]
  BY <1>1 DEF MarkInv, MarkTypes, Lives
<1>5. MarkTypes'
  BY <1>1, <1>3, <1>4 DEF MarkInv, MarkTypes
<1>6. RingInv'
  BY <1>3, <1>4 DEF MarkInv, RingInv
<1>7. StackInv'
  BY <1>1, <1>4 DEF MarkInv, StackInv
<1>8. WalkInv'
  BY <1>1, IdleKeeps DEF MarkInv
<1>9. DataInv'
  BY DEF MarkInv, DataInv, Spawn
<1> QED BY <1>5, <1>6, <1>7, <1>8, <1>9 DEF MarkInv

LEMMA StartInv == ASSUME MarkInv, NEW u \in Task, Start(u) PROVE MarkInv'
<1>1. /\ life' = [life EXCEPT ![u] = "running"] /\ life[u] = "spawned"
      /\ stack' = [stack EXCEPT ![u] = payload[u]] /\ cpc = "idle"
      /\ UNCHANGED <<mark, inuse, roots, cpc, disturbed>>
  BY DEF Start, heapVars, collectorVars
<1>2. /\ life' \in [Task -> Lives] /\ life'[u] = "running"
      /\ \A v \in Task \ {u} : life'[v] = life[v]
  BY <1>1 DEF MarkInv, MarkTypes, Lives
<1>3. stack' \in [Task -> SUBSET Obj] /\ \A v \in Task \ {u} : stack'[v] = stack[v]
  BY <1>1 DEF MarkInv, MarkTypes, DataInv
<1>4. MarkTypes'
  BY <1>1, <1>2, <1>3 DEF MarkInv, MarkTypes
<1>5. RingInv'
  BY <1>1, <1>2 DEF MarkInv, RingInv
<1>6. StackInv'
  BY <1>2, <1>3 DEF MarkInv, StackInv
<1>7. WalkInv'
  BY <1>1, IdleKeeps DEF MarkInv
<1>8. DataInv'
  BY DEF MarkInv, DataInv, Start
<1> QED BY <1>4, <1>5, <1>6, <1>7, <1>8 DEF MarkInv

LEMMA ReturnInv == ASSUME MarkInv, NEW t \in Task, TaskReturn(t) PROVE MarkInv'
<1>1. /\ life' = [life EXCEPT ![t] = "finished"] /\ life[t] = "running" /\ cpc = "idle"
      /\ UNCHANGED <<stack, mark, inuse, roots, cpc, disturbed>>
  BY DEF TaskReturn, Runs, heapVars, collectorVars
<1>2. /\ life' \in [Task -> Lives] /\ life'[t] = "finished"
      /\ \A v \in Task \ {t} : life'[v] = life[v]
  BY <1>1 DEF MarkInv, MarkTypes, Lives
<1>3. MarkTypes'
  BY <1>1, <1>2 DEF MarkInv, MarkTypes
<1>4. RingInv'
  BY <1>1, <1>2 DEF MarkInv, RingInv
<1>5. StackInv'
  BY <1>1, <1>2 DEF MarkInv, StackInv
<1>6. WalkInv'
  BY <1>1, IdleKeeps DEF MarkInv
<1>7. DataInv'
  BY DEF MarkInv, DataInv, TaskReturn
<1> QED BY <1>3, <1>4, <1>5, <1>6, <1>7 DEF MarkInv

LEMMA DestroyInv == ASSUME MarkInv, NEW t \in Task, Destroy(t) PROVE MarkInv'
<1>1. /\ life' = [life EXCEPT ![t] = "freed"] /\ life[t] = "finished"
      /\ stack' = [stack EXCEPT ![t] = {}] /\ disturbed' = (cpc # "idle")
      /\ UNCHANGED <<field, payload, mark, inuse, cpc, head, tm>>
  BY DEF Destroy, heapVars
<1>2. PICK i \in DOMAIN roots : roots[i] = t /\ roots' = Unlinked(roots, i)
  BY DEF Destroy
<1>3. /\ roots' \in Seq(Task)
      /\ IsInjective(roots)' /\ Range(roots)' = Range(roots) \ {t}
  <2>1. roots \in Seq(Task) /\ IsInjective(roots)
    BY DEF MarkInv, MarkTypes, RingInv
  <2> QED BY <1>2, <2>1, RingRemove
<1>4. /\ life' \in [Task -> Lives] /\ life'[t] = "freed"
      /\ \A v \in Task \ {t} : life'[v] = life[v]
  BY <1>1 DEF MarkInv, MarkTypes, Lives
<1>5. stack' \in [Task -> SUBSET Obj] /\ \A v \in Task \ {t} : stack'[v] = stack[v]
  BY <1>1 DEF MarkInv, MarkTypes
<1>6. MarkTypes'
  BY <1>1, <1>3, <1>4, <1>5 DEF MarkInv, MarkTypes
<1>7. RingInv'
  BY <1>3, <1>4 DEF MarkInv, RingInv
<1>8. StackInv'
  BY <1>4, <1>5 DEF MarkInv, StackInv
<1>9. WalkInv'
  <2>1. OnStacks' = OnStacks
    BY <1>1, <1>4, <1>5 DEF OnStacks
  <2> QED BY <1>1, <2>1 DEF MarkInv, WalkInv
<1>10. DataInv'
  BY <1>1 DEF MarkInv, DataInv
<1> QED BY <1>6, <1>7, <1>8, <1>9, <1>10 DEF MarkInv

(* A step of the collector: only marks, locals and the chunks in use change. *)
LEMMA CollectorKeeps ==
  ASSUME MarkInv, UNCHANGED <<mutVars, roots>>, disturbed' \in BOOLEAN, WalkInv'
  PROVE  MarkInv'
<1>1. UNCHANGED <<life, stack, payload, field, roots>>
  BY DEF mutVars
<1>2. MarkTypes' /\ RingInv' /\ StackInv' /\ DataInv'
  BY <1>1 DEF MarkInv, MarkTypes, RingInv, StackInv, DataInv
<1> QED BY <1>2 DEF MarkInv

LEMMA StartMarkInv == ASSUME MarkInv, StartMark PROVE MarkInv'
<1>1. UNCHANGED <<life, stack, roots, inuse, mark, disturbed>> /\ cpc = "idle" /\ mark = {} /\ ~disturbed
  BY DEF StartMark, mutVars, heapVars, MarkInv, WalkInv
<1>2. CASE roots = <<>>
  <2>1. cpc' = "sweeping" /\ \A t \in Task : life[t] # "running"
    <3>1. DOMAIN roots = {}
      BY <1>2, SMTT(30), Z3T(30)
    <3> QED BY <1>2, <3>1 DEF StartMark, MarkInv, RingInv, Range
  <2>2. WalkInv'
    BY <1>1, <2>1 DEF WalkInv, Scanned
  <2> QED BY <1>1, <2>2, CollectorKeeps DEF StartMark, MarkInv, MarkTypes
<1>3. CASE roots # <<>>
  <2>1. 1 \in DOMAIN roots /\ Head(roots) = roots[1] /\ roots[1] \in Task /\ 1..(1 - 1) = {}
    BY <1>3, SMTT(30), Z3T(30) DEF MarkInv, MarkTypes
  <2>2. cpc' = "marking" /\ head' = roots[1] /\ tm' = roots[1]
    BY <1>3, <2>1 DEF StartMark
  <2>3. WalkInv'
    BY <1>1, <2>1, <2>2 DEF WalkInv
  <2> QED BY <1>1, <2>3, CollectorKeeps DEF StartMark, MarkInv, MarkTypes
<1> QED BY <1>2, <1>3

LEMMA SweepInv == ASSUME MarkInv, Sweep PROVE MarkInv'
<1>1. mark' = {} /\ cpc' = "idle" /\ disturbed' = FALSE
  BY DEF Sweep
<1>2. WalkInv'
  BY <1>1 DEF WalkInv
<1> QED BY <1>1, <1>2, CollectorKeeps DEF Sweep

(* One turn of the loop scans the stack of the task it looks at. *)
LEMMA TurnScans ==
  ASSUME MarkInv, MarkRoot
  PROVE  /\ mark \subseteq mark' /\ mark' \subseteq OnStacks'
         /\ life[tm] = "running" => stack[tm] \cap inuse \subseteq mark'
         /\ \A t \in Task : Scanned(t) => Scanned(t)'
<1>1. /\ UNCHANGED <<life, stack, inuse>> /\ tm \in Task /\ mark \subseteq OnStacks
      /\ mark' = IF life[tm] \in {"finished", "freed"} THEN mark ELSE MarkTask(mark, tm)
  BY DEF MarkRoot, mutVars, MarkInv, WalkInv
<1>2. OnStacks' = OnStacks
  BY <1>1 DEF OnStacks
<1>3. CASE life[tm] \in {"finished", "freed"}
  BY <1>1, <1>2, <1>3 DEF Scanned
<1>4. CASE life[tm] \notin {"finished", "freed"}
  <2>1. mark' = mark \cup (stack[tm] \cap inuse)
    BY <1>1, <1>4, MarkTaskAdds
  <2>2. life[tm] = "running" \/ stack[tm] = {}
    BY <1>1, <1>4 DEF MarkInv, MarkTypes, StackInv, Lives
  <2>3. stack[tm] \subseteq OnStacks
    BY <1>1, <2>2 DEF OnStacks
  <2> QED BY <1>1, <1>2, <2>1, <2>3 DEF Scanned
<1> QED BY <1>3, <1>4

LEMMA MarkRootInv == ASSUME MarkInv, MarkRoot PROVE MarkInv'
<1>1. /\ UNCHANGED <<life, stack, roots, inuse, head, disturbed>> /\ disturbed \in BOOLEAN
      /\ cpc = "marking" /\ tm \in Task /\ tm' = Fd(tm) /\ UNCHANGED mutVars
      /\ \/ cpc' = IF Fd(tm) \in {Nil, head} THEN "sweeping" ELSE "marking"
         \/ cpc' = "lost"
  BY DEF MarkRoot, mutVars, MarkInv, WalkInv, MarkTypes
<1>2. /\ mark' \subseteq OnStacks'
      /\ life[tm] = "running" => stack[tm] \cap inuse \subseteq mark'
      /\ \A t \in Task : Scanned(t) => Scanned(t)'
  BY TurnScans
<1>3. cpc' = "marking" => tm' \in Task
  <2>1. Fd(tm) \in Task \cup {Nil}
    <3>1. CASE tm \in Range(roots)
      <4>1. PICK i \in DOMAIN roots : tm = roots[i]
        BY <3>1 DEF Range
      <4>2. /\ Fd(roots[i]) = IF i = Len(roots) THEN roots[1] ELSE roots[i + 1]
            /\ 1 \in DOMAIN roots /\ (i # Len(roots) => i + 1 \in DOMAIN roots)
        BY RingFd DEF MarkInv
      <4>3. \A j \in DOMAIN roots : roots[j] \in Task
        BY SMTT(30), Z3T(30) DEF MarkInv, MarkTypes
      <4> QED BY <4>1, <4>2, <4>3
    <3>2. CASE tm \notin Range(roots)
      BY <3>2 DEF Fd
    <3> QED BY <3>1, <3>2
  <2> QED BY <1>1, <2>1
<1>4. ASSUME ~disturbed, cpc' = "marking" \/ cpc' = "sweeping"
      PROVE  /\ cpc' = "marking" =>
                  /\ 1 \in DOMAIN roots /\ head = roots[1]
                  /\ \E i \in DOMAIN roots : tm' = roots[i] /\ \A j \in 1..(i - 1) : Scanned(roots[j])'
             /\ cpc' = "sweeping" => \A t \in Task : Scanned(t)'
  <2>1. 1 \in DOMAIN roots /\ head = roots[1]
    BY <1>1, <1>4 DEF MarkInv, WalkInv
  <2>2. PICK i \in DOMAIN roots : tm = roots[i] /\ \A j \in 1..(i - 1) : Scanned(roots[j])
    BY <1>1, <1>4 DEF MarkInv, WalkInv
  <2>3. /\ Fd(roots[i]) = IF i = Len(roots) THEN roots[1] ELSE roots[i + 1]
        /\ DOMAIN roots = 1..Len(roots) /\ Len(roots) \in Nat /\ i \in 1..Len(roots)
        /\ i # Len(roots) => i + 1 \in DOMAIN roots
    BY RingFd DEF MarkInv
  <2>4. \A j \in DOMAIN roots : roots[j] \in Task
    BY SMTT(30), Z3T(30) DEF MarkInv, MarkTypes
  <2>5. \A j \in 1..i : j \in DOMAIN roots /\ (j = i \/ j \in 1..(i - 1))
    BY <2>3, SMTT(30), Z3T(30)
  <2>6. \A j \in 1..i : Scanned(roots[j])'
    <3> SUFFICES ASSUME NEW j \in 1..i PROVE Scanned(roots[j])'
      OBVIOUS
    <3>1. CASE j = i
      BY <1>1, <1>2, <2>2, <3>1 DEF Scanned
    <3>2. CASE j \in 1..(i - 1)
      <4>1. Scanned(roots[j]) /\ roots[j] \in Task /\ roots' = roots
        BY <1>1, <2>2, <2>4, <2>5, <3>2
      <4>2. PICK t \in Task : t = roots[j] /\ t = roots'[j]
        BY <4>1
      <4>3. Scanned(t)'
        BY <1>2, <4>1, <4>2
      <4> QED BY <4>2, <4>3 DEF Scanned
    <3> QED BY <2>5, <3>1, <3>2
  <2>7. CASE i = Len(roots)
    <3>1. cpc' = "sweeping"
      BY <1>1, <1>4, <2>1, <2>2, <2>3, <2>7
    <3>2. \A t \in Task : Scanned(t)'
      <4> SUFFICES ASSUME NEW t \in Task, life[t] = "running" PROVE Scanned(t)'
        BY <1>1 DEF Scanned
      <4>1. PICK j \in DOMAIN roots : roots[j] = t
        BY DEF MarkInv, RingInv, Range
      <4>2. Scanned(roots[j])'
        BY <2>3, <2>6, <2>7
      <4> QED BY <1>1, <4>1, <4>2 DEF Scanned
    <3> QED BY <3>1, <3>2
  <2>8. CASE i # Len(roots)
    <3>1. i + 1 \in DOMAIN roots /\ i + 1 # 1 /\ (i + 1) - 1 = i
      BY <2>3, <2>8, SMTT(30), Z3T(30)
    <3>2. tm' = roots[i + 1] /\ roots[i + 1] # roots[1] /\ roots[i + 1] # Nil
      <4>1. tm' = roots[i + 1]
        BY <1>1, <2>2, <2>3, <2>8
      <4>2. roots[i + 1] # Nil
        BY <2>4, <3>1, MarkAssumption
      <4>3. roots[i + 1] # roots[1]
        BY <2>1, <3>1 DEF MarkInv, RingInv, IsInjective
      <4> QED BY <4>1, <4>2, <4>3
    <3>3. cpc' = "marking"
      BY <1>1, <1>4, <2>1, <3>2
    <3> QED BY <2>1, <2>6, <3>1, <3>2, <3>3
  <2> QED BY <2>7, <2>8
<1>5. WalkInv'
  <2>1. cpc' # "idle"
    BY <1>1
  <2> QED BY <1>1, <1>2, <1>3, <1>4, <2>1 DEF WalkInv, Scanned
<1> QED BY <1>1, <1>5, CollectorKeeps

LEMMA ProgramStepInv == ASSUME MarkInv, NEW t \in Task, ProgramStep(t) PROVE MarkInv'
BY AllocInv, LoadInv, DropInv, StoreInv, SpawnInv, StartInv, ReturnInv, DestroyInv
   DEF ProgramStep

LEMMA MarkStepInv == MarkInv /\ [MarkNext]_markVars => MarkInv'
<1> SUFFICES ASSUME MarkInv, [MarkNext]_markVars PROVE MarkInv'
  OBVIOUS
<1>1. CASE UNCHANGED markVars
  <2>1. UNCHANGED <<life, stack, payload, field, inuse, mark, roots, cpc, head, tm, disturbed>>
    BY <1>1 DEF markVars, mutVars, heapVars, collectorVars
  <2>2. MarkTypes' /\ DataInv' /\ RingInv' /\ StackInv'
    BY <2>1 DEF MarkInv, MarkTypes, DataInv, RingInv, StackInv
  <2>3. OnStacks' = OnStacks /\ \A t : Scanned(t)' = Scanned(t)
    BY <2>1 DEF Scanned, OnStacks
  <2>4. WalkInv'
    BY <2>1, <2>3 DEF MarkInv, WalkInv
  <2> QED BY <2>2, <2>4 DEF MarkInv
<1>2. CASE Lost
  BY <1>1, <1>2 DEF Lost
<1>3. CASE CollectorStep
  BY <1>3, StartMarkInv, MarkRootInv, SweepInv DEF CollectorStep
<1>4. CASE \E t \in Task : ProgramStep(t)
  BY <1>4, ProgramStepInv
<1> QED BY <1>1, <1>2, <1>3, <1>4 DEF MarkNext

LEMMA MarkInvariance == MarkSpec => []MarkInv
BY MarkInitInv, MarkStepInv, PTL DEF MarkSpec

(* gc_sweep is the only step that takes chunks out of use. *)
LEMMA OnlySweepReleases ==
  ASSUME MarkInv, MarkNext
  PROVE  Sweep \/ inuse \subseteq inuse'
BY DEF MarkNext, CollectorStep, Lost, ProgramStep, StartMark, MarkRoot, Alloc, LoadPointer, Drop,
       StorePointer, Spawn, Start, TaskReturn, Destroy, heapVars, markVars

(* No collection releases what the stack of a running task points to        *)
(* (gc.c:76-250): gc_mark has scanned every running task when it ends.      *)
THEOREM MarkKeepsStacks == MarkSpec => StackKept
<1>1. ASSUME MarkInv, [MarkNext]_markVars
      PROVE  [disturbed \/ OnStacks \cap inuse \subseteq inuse']_markVars
  <2>1. CASE Sweep /\ ~disturbed
    <3>1. \A t \in Task : life[t] = "running" => stack[t] \cap inuse \subseteq mark
      BY <1>1, <2>1 DEF Sweep, MarkInv, WalkInv, Scanned
    <3>2. OnStacks \cap inuse \subseteq inuse \cap mark
      BY <3>1 DEF OnStacks
    <3> QED BY <2>1, <3>2 DEF Sweep
  <2> QED BY <1>1, <2>1, OnlySweepReleases
<1> QED BY <1>1, MarkInvariance, PTL DEF MarkSpec, StackKept

(* What no task can reach when gc_sweep runs is released, and every mark    *)
(* bit is clear again.                                                      *)
THEOREM SweepReleasesGarbage == MarkSpec => GarbageGone
<1>1. ASSUME MarkInv, [MarkNext]_markVars
      PROVE  [cpc = "sweeping" /\ cpc' = "idle" =>
                inuse' \subseteq Reachable(OnStacks \cup Pending) /\ mark' = {}]_markVars
  <2> SUFFICES ASSUME MarkNext, cpc = "sweeping", cpc' = "idle"
               PROVE  inuse' \subseteq Reachable(OnStacks \cup Pending) /\ mark' = {}
    BY <1>1
  <2>1. Sweep
    BY DEF MarkNext, CollectorStep, Lost, ProgramStep, StartMark, MarkRoot, Alloc, LoadPointer, Drop,
       StorePointer, Spawn, Start, TaskReturn, Destroy, Runs, collectorVars
  <2>2. mark \subseteq OnStacks /\ OnStacks \subseteq Obj
    BY <1>1 DEF MarkInv, MarkTypes, WalkInv, OnStacks
  <2>3. OnStacks \subseteq Reachable(OnStacks \cup Pending)
    BY <2>2 DEF Reachable
  <2> QED BY <2>1, <2>2, <2>3 DEF Sweep
<1> QED BY <1>1, MarkInvariance, PTL DEF MarkSpec, GarbageGone

-----------------------------------------------------------------------------
(***************************************************************************)
(* GcWorld, for any finite set of scheduler threads: the two counters of   *)
(* gc_state measure the world, the collector's decision to go on is sound  *)
(* while they do, and only a thread that leaves its task can leave the     *)
(* collector asleep.                                                       *)
(***************************************************************************)

(* The world is stopped while the collector waits or works, no thread      *)
(* waits for it to resume when it runs, and none stops before gc_start.    *)
WorldInv ==
  /\ gpc \in {"wait", "woken", "decided", "collect"} <=> world_stopped
  /\ ~world_stopped => \A k \in Thread : pc[k] # "stop_wait"
  /\ gpc = "off" => late = 0 /\ \A k \in Thread : pc[k] # "stop_lock"

Inv == CountersMeasure /\ WorldInv

-----------------------------------------------------------------------------
LEMMA Finite ==
  /\ IsFiniteSet(Mutators) /\ Cardinality(Mutators) \in Nat
  /\ IsFiniteSet(Stopped) /\ Cardinality(Stopped) \in Nat
BY ThreadAssumption, FS_Subset, FS_CardinalityType DEF Mutators, Stopped

(* What a step of one thread does to the two sets the counters measure. *)
LEMMA ThreadMoves ==
  ASSUME NEW k \in Thread, NEW l \in Pc, pc \in [Thread -> Pc],
         pc' = [pc EXCEPT ![k] = l]
  PROVE  /\ pc[k] \notin MutatorPc /\ l \in MutatorPc =>
              Cardinality(Mutators') = Cardinality(Mutators) + 1
         /\ pc[k] \in MutatorPc /\ l \notin MutatorPc =>
              Cardinality(Mutators') = Cardinality(Mutators) - 1
         /\ (pc[k] \in MutatorPc <=> l \in MutatorPc) => Mutators' = Mutators
         /\ pc[k] \notin StoppedPc /\ l \in StoppedPc =>
              Cardinality(Stopped') = Cardinality(Stopped) + 1
         /\ pc[k] \in StoppedPc /\ l \notin StoppedPc =>
              Cardinality(Stopped') = Cardinality(Stopped) - 1
         /\ (pc[k] \in StoppedPc <=> l \in StoppedPc) => Stopped' = Stopped
<1>1. ASSUME pc[k] \notin MutatorPc, l \in MutatorPc
      PROVE  Cardinality(Mutators') = Cardinality(Mutators) + 1
  <2>1. Mutators' = Mutators \cup {k} /\ k \notin Mutators
    BY <1>1 DEF Mutators
  <2> QED BY <2>1, Finite, FS_AddElement
<1>2. ASSUME pc[k] \in MutatorPc, l \notin MutatorPc
      PROVE  Cardinality(Mutators') = Cardinality(Mutators) - 1
  <2>1. Mutators' = Mutators \ {k} /\ k \in Mutators
    BY <1>2 DEF Mutators
  <2> QED BY <2>1, Finite, FS_RemoveElement
<1>3. ASSUME pc[k] \in MutatorPc <=> l \in MutatorPc PROVE Mutators' = Mutators
  BY <1>3 DEF Mutators
<1>4. ASSUME pc[k] \notin StoppedPc, l \in StoppedPc
      PROVE  Cardinality(Stopped') = Cardinality(Stopped) + 1
  <2>1. Stopped' = Stopped \cup {k} /\ k \notin Stopped
    BY <1>4 DEF Stopped
  <2> QED BY <2>1, Finite, FS_AddElement
<1>5. ASSUME pc[k] \in StoppedPc, l \notin StoppedPc
      PROVE  Cardinality(Stopped') = Cardinality(Stopped) - 1
  <2>1. Stopped' = Stopped \ {k} /\ k \in Stopped
    BY <1>5 DEF Stopped
  <2> QED BY <2>1, Finite, FS_RemoveElement
<1>6. ASSUME pc[k] \in StoppedPc <=> l \in StoppedPc PROVE Stopped' = Stopped
  BY <1>6 DEF Stopped
<1> QED BY <1>1, <1>2, <1>3, <1>4, <1>5, <1>6

LEMMA InvInit == Init => Inv
<1> SUFFICES ASSUME Init PROVE Inv
  OBVIOUS
<1> USE DEF Init
<1>1. Mutators = {} /\ Stopped = {}
  BY DEF Mutators, Stopped, MutatorPc, StoppedPc
<1>2. Cardinality(Mutators) = 0 /\ Cardinality(Stopped) = 0
  BY <1>1, FS_EmptySet, ZenonT(60)
<1>3. TypeOK
  <2>1. pc \in [Thread -> Pc] /\ entered \subseteq Thread
    BY DEF Pc
  <2>2. stopped_count \in Nat /\ total_threads \in Int /\ missed \in Nat /\ late \in Nat
    BY SMTT(30), Z3T(30)
  <2>3. world_stopped \in BOOLEAN /\ add_lock \in BOOLEAN
    BY ZenonT(60)
  <2> QED BY <2>1, <2>2, <2>3 DEF TypeOK
<1>4. CountersMeasure
  BY <1>2, <1>3, SMTT(30), Z3T(30) DEF CountersMeasure
<1>5. WorldInv
  BY DEF WorldInv
<1> QED BY <1>4, <1>5 DEF Inv

LEMMA OneMore == ASSUME NEW m \in Nat, NEW n \in Nat PROVE (m + n) + 1 = m + (n + 1)
BY SMTT(30), Z3T(30)

LEMMA OneMoreLess == ASSUME NEW m \in Nat, NEW n \in Nat PROVE (m - n) + 1 = (m + 1) - n
BY SMTT(30), Z3T(30)

LEMMA OneLess == ASSUME NEW m \in Nat, NEW n \in Nat PROVE (m - n) - 1 = (m - 1) - n
BY SMTT(30), Z3T(30)

LEMMA NoMore == ASSUME NEW n \in Nat PROVE n + 0 = n /\ n + 1 = (n + 1) + 0 /\ n + 1 \in Nat
BY SMTT(30), Z3T(30)

LEMMA CountNext == ASSUME NEW n \in Int PROVE n + 1 \in Int /\ n - 1 \in Int
BY SMTT(30), Z3T(30)

LEMMA InvStep == Inv /\ [Next]_vars => Inv'
<1> SUFFICES ASSUME Inv, [Next]_vars PROVE Inv'
  OBVIOUS
<1> TypeOK /\ CountersMeasure /\ WorldInv
  BY DEF Inv, CountersMeasure
<1> USE Finite DEF Goto, gcVars
<1>0. ASSUME TypeOK', total_threads' = Cardinality(Mutators') - missed',
             stopped_count' = late' + (IF world_stopped' THEN Cardinality(Stopped') ELSE 0),
             WorldInv'
      PROVE  Inv'
  BY <1>0 DEF Inv, CountersMeasure
<1>1. CASE UNCHANGED vars
  BY <1>1 DEF vars, Inv, CountersMeasure, TypeOK, WorldInv, Mutators, Stopped
<1>2. ASSUME NEW k \in Thread, NEW l \in Pc, NEW m \in Pc, Goto(k, l, m),
             l \notin StoppedPc, m \notin StoppedPc, l \in MutatorPc <=> m \in MutatorPc,
             m = "stop_lock" => gpc # "off", UNCHANGED <<total_threads, entered, gcVars>>
      PROVE  Inv'
  <2>1. Mutators' = Mutators /\ Stopped' = Stopped
    BY <1>2, ThreadMoves DEF TypeOK
  <2>2. TypeOK' /\ WorldInv'
    BY <1>2 DEF TypeOK, WorldInv, StoppedPc
  <2> QED BY <1>0, <1>2, <2>1, <2>2 DEF CountersMeasure
<1>3. ASSUME NEW k \in Thread, Pop(k) \/ LeaveTask(k) \/ SelfYield(k) PROVE Inv'
  BY <1>2, <1>3, SMTT(30), Z3T(30) DEF Pop, LeaveTask, SelfYield, WorldInv, Pc, MutatorPc, StoppedPc
<1>4. ASSUME NEW k \in Thread, CountIn(k) PROVE Inv'
  <2>1. Cardinality(Mutators') = Cardinality(Mutators) + 1 /\ Stopped' = Stopped
    <3>1. PICK l \in {"run"} : pc' = [pc EXCEPT ![k] = l] /\ pc[k] = "add"
      BY <1>4 DEF CountIn
    <3> QED BY <3>1, ThreadMoves DEF TypeOK, Pc, MutatorPc, StoppedPc
  <2>2. TypeOK' /\ WorldInv'
    BY <1>4, CountNext DEF CountIn, TypeOK, WorldInv, Pc, MutatorPc
  <2>3. total_threads' = (Cardinality(Mutators) + 1) - missed
    <3>1. total_threads' = (Cardinality(Mutators) - missed) + 1 /\ missed \in Nat
      BY <1>4 DEF CountIn, CountersMeasure, TypeOK
    <3> QED BY <3>1, OneMoreLess
  <2> QED BY <1>0, <1>4, <2>1, <2>2, <2>3 DEF CountIn, CountersMeasure
<1>5. ASSUME NEW k \in Thread, CountOut(k) PROVE Inv'
  <2>1. Cardinality(Mutators') = Cardinality(Mutators) - 1 /\ Stopped' = Stopped
    <3>1. PICK l \in {"pop"} : pc' = [pc EXCEPT ![k] = l] /\ pc[k] = "ret"
      BY <1>5 DEF CountOut
    <3> QED BY <3>1, ThreadMoves DEF TypeOK, Pc, MutatorPc, StoppedPc
  <2>2. TypeOK' /\ WorldInv'
    BY <1>5, CountNext DEF CountOut, TypeOK, WorldInv, Pc, MutatorPc
  <2>3. total_threads' = (Cardinality(Mutators) - 1) - missed
    <3>1. total_threads' = (Cardinality(Mutators) - missed) - 1 /\ missed \in Nat
      BY <1>5 DEF CountOut, CountersMeasure, TypeOK
    <3> QED BY <3>1, OneLess
  <2> QED BY <1>0, <1>5, <2>1, <2>2, <2>3 DEF CountOut, CountersMeasure
<1>6. ASSUME NEW k \in Thread, StopSelf(k) PROVE Inv'
  <2>1. PICK l \in {"run", "stop_wait"} :
          /\ pc[k] = "stop_lock" /\ pc' = [pc EXCEPT ![k] = l]
          /\ l = "stop_wait" <=> world_stopped
    BY <1>6 DEF StopSelf
  <2>2. Mutators' = Mutators
    BY <2>1, ThreadMoves DEF TypeOK, Pc, MutatorPc, StoppedPc
  <2>3. world_stopped => Cardinality(Stopped') = Cardinality(Stopped) + 1
    BY <2>1, ThreadMoves DEF TypeOK, Pc, MutatorPc, StoppedPc
  <2>4. TypeOK' /\ WorldInv'
    <3>1. stopped_count' \in Nat /\ late' \in Nat
      BY <1>6, NoMore DEF StopSelf, TypeOK
    <3>2. l \in Pc /\ pc[k] \in MutatorPc /\ (l \in StoppedPc => world_stopped) /\ l # "stop_lock"
      BY <2>1 DEF Pc, MutatorPc, StoppedPc
    <3>3. TypeOK'
      BY <1>6, <2>1, <3>1, <3>2 DEF StopSelf, TypeOK
    <3>4. WorldInv'
      BY <1>6, <2>1, <3>2 DEF StopSelf, TypeOK, WorldInv, StoppedPc
    <3> QED BY <3>3, <3>4
  <2>5. UNCHANGED <<world_stopped, total_threads, missed>> /\ stopped_count' = stopped_count + 1 /\ late \in Nat
    BY <1>6 DEF StopSelf, TypeOK
  <2>6. CASE world_stopped
    <3>1. late' = late /\ stopped_count = late + Cardinality(Stopped)
      BY <1>6, <2>6 DEF StopSelf, CountersMeasure
    <3>2. stopped_count' = late' + Cardinality(Stopped')
      BY <2>3, <2>5, <2>6, <3>1, OneMore
    <3> QED BY <1>0, <2>2, <2>4, <2>5, <2>6, <3>2 DEF CountersMeasure
  <2>7. CASE ~world_stopped
    <3>1. late' = late + 1 /\ stopped_count = late + 0
      BY <1>6, <2>7 DEF StopSelf, CountersMeasure
    <3>2. stopped_count' = late' + 0
      BY <2>5, <3>1, NoMore
    <3> QED BY <1>0, <2>2, <2>4, <2>5, <2>7, <3>2 DEF CountersMeasure
  <2> QED BY <2>6, <2>7
<1>7. ASSUME NEW k \in Thread, StopRecheck(k) PROVE Inv'
  <2>1. PICK l \in {"run", "stop_wait"} :
          /\ pc[k] = "stop_woken" /\ pc' = [pc EXCEPT ![k] = l]
          /\ l = "stop_wait" <=> world_stopped
    BY <1>7 DEF StopRecheck
  <2>2. Mutators' = Mutators
    BY <2>1, ThreadMoves DEF TypeOK, Pc, MutatorPc, StoppedPc
  <2>3. world_stopped => Stopped' = Stopped
    BY <2>1, ThreadMoves DEF TypeOK, Pc, MutatorPc, StoppedPc
  <2>4. TypeOK' /\ WorldInv'
    BY <1>7, <2>1 DEF StopRecheck, TypeOK, WorldInv, Pc, MutatorPc, StoppedPc
  <2> QED BY <1>0, <1>7, <2>2, <2>3, <2>4 DEF StopRecheck, CountersMeasure
<1>8. CASE GcStart
  <2>1. Mutators' = Mutators /\ Stopped' = Stopped
    BY <1>8 DEF GcStart, Mutators, Stopped
  <2>2. ~world_stopped
    BY <1>8 DEF GcStart, WorldInv, TypeOK
  <2>3. TypeOK'
    <3>1. world_stopped' \in BOOLEAN
      BY <1>8, ZenonT(60) DEF GcStart
    <3>2. missed' \in Nat
      BY <1>8 DEF GcStart
    <3> QED BY <1>8, <3>1, <3>2, SMTT(30), Z3T(30) DEF GcStart, TypeOK
  <2>4. WorldInv'
    BY <1>8, <2>2 DEF GcStart, WorldInv
  <2>5. stopped_count' = late' /\ ~world_stopped' /\ late' \in Nat
    BY <1>8, SMTT(30), Z3T(30) DEF GcStart, WorldInv
  <2>6. total_threads' = Cardinality(Mutators') - missed'
    BY <1>8, <2>1, SMTT(30), Z3T(30) DEF GcStart
  <2>7. stopped_count' = late' + (IF world_stopped' THEN Cardinality(Stopped') ELSE 0)
    <3>1. (IF world_stopped' THEN Cardinality(Stopped') ELSE 0) = 0
      BY <2>5, ZenonT(60)
    <3>2. late' \in Nat /\ stopped_count' = late'
      BY <1>8, <2>5 DEF GcStart, TypeOK
    <3>3. \A n \in Nat : n = n + 0
      BY SMTT(30), Z3T(30)
    <3>4. stopped_count' = late' + 0
      BY <3>2, <3>3, ZenonT(60)
    <3> QED BY <3>1, <3>4, ZenonT(60)
  <2> QED BY <1>0, <2>3, <2>4, <2>6, <2>7
<1>9. CASE GcRequest
  <2>1. Mutators' = Mutators /\ Stopped' = Stopped
    BY <1>9 DEF GcRequest, Mutators, Stopped
  <2>2. ~world_stopped
    BY <1>9 DEF GcRequest, WorldInv, TypeOK
  <2>3. Stopped = {}
    BY <1>9, <2>2 DEF GcRequest, WorldInv, Stopped, StoppedPc
  <2>4. Cardinality(Stopped) = 0
    BY <2>3, FS_EmptySet, ZenonT(60)
  <2>5. TypeOK' /\ WorldInv'
    BY <1>9 DEF GcRequest, Await, TypeOK, WorldInv
  <2> QED BY <1>0, <1>9, <2>1, <2>2, <2>4, <2>5 DEF GcRequest, CountersMeasure, TypeOK
<1>10. CASE GcRecheck \/ GcAddLock
  <2>1. Mutators' = Mutators /\ Stopped' = Stopped
    BY <1>10 DEF GcRecheck, GcAddLock, Mutators, Stopped
  <2>2. TypeOK' /\ WorldInv'
    BY <1>10 DEF GcRecheck, GcAddLock, Await, TypeOK, WorldInv
  <2>3. UNCHANGED <<world_stopped, stopped_count, total_threads, missed, late>>
    BY <1>10 DEF GcRecheck, GcAddLock
  <2> QED BY <1>0, <2>1, <2>2, <2>3 DEF CountersMeasure
<1>11. CASE GcResume
  <2>1. Mutators' = Mutators
    BY <1>11 DEF GcResume, Mutators, MutatorPc, StoppedPc, TypeOK
  <2>2. TypeOK' /\ WorldInv'
    BY <1>11 DEF GcResume, TypeOK, WorldInv, Pc, MutatorPc, StoppedPc
  <2>3. ~world_stopped' /\ stopped_count' = 0 /\ late' = 0 /\ UNCHANGED <<total_threads, missed>> /\ 0 + 0 = 0
    BY <1>11, NoMore DEF GcResume
  <2> QED BY <1>0, <2>1, <2>2, <2>3 DEF CountersMeasure
<1>12. CASE Spurious
  <2>1. ASSUME NEW k \in Thread, Goto(k, "stop_wait", "stop_woken"), UNCHANGED gpc PROVE Inv'
    <3>1. Mutators' = Mutators /\ Stopped' = Stopped
      BY <2>1, ThreadMoves DEF TypeOK, Pc, MutatorPc, StoppedPc
    <3>2. TypeOK' /\ WorldInv'
      BY <1>12, <2>1 DEF Spurious, TypeOK, WorldInv, Pc, MutatorPc, StoppedPc
    <3> QED BY <1>0, <1>12, <3>1, <3>2 DEF Spurious, CountersMeasure
  <2>2. ASSUME gpc = "wait", gpc' = "woken", UNCHANGED pc PROVE Inv'
    <3>1. Mutators' = Mutators /\ Stopped' = Stopped
      BY <2>2 DEF Mutators, Stopped
    <3>2. TypeOK' /\ WorldInv'
      BY <1>12, <2>2 DEF Spurious, TypeOK, WorldInv
    <3> QED BY <1>0, <1>12, <3>1, <3>2 DEF Spurious, CountersMeasure
  <2> QED BY <1>12, <2>1, <2>2 DEF Spurious, SpuriousWake
<1> QED
  BY <1>1, <1>3, <1>4, <1>5, <1>6, <1>7, <1>8, <1>9, <1>10, <1>11, <1>12
  DEF Next, Mutate, Collect

(* The counters measure the world: for any number of scheduler threads,    *)
(* through every collection, total_threads and stopped_count of gc_state   *)
(* differ from the threads they stand for only by missed and late.         *)
THEOREM CountersAlwaysMeasure == Spec => []CountersMeasure
<1>1. Spec => []Inv
  BY InvInit, InvStep, PTL DEF Spec
<1>2. Inv => CountersMeasure
  BY DEF Inv
<1> QED BY <1>1, <1>2, PTL
-----------------------------------------------------------------------------
(* With both counters right and the world stopped, no mutator outside      *)
(* self_yield is the same as stopped_count having reached total_threads.   *)
Exact == Inv /\ world_stopped /\ missed = 0 /\ late = 0

Decisive ==
  /\ stopped_count <= total_threads
  /\ Mutators \subseteq Stopped <=> ~(stopped_count < total_threads)

LEMMA CountersDecide == Exact => Decisive
<1> SUFFICES ASSUME Exact PROVE Decisive
  OBVIOUS
<1>1. Stopped \subseteq Mutators
  BY DEF Stopped, Mutators, MutatorPc
<1>2. stopped_count = Cardinality(Stopped) /\ total_threads = Cardinality(Mutators)
  BY Finite, SMTT(30), Z3T(30) DEF Exact, Inv, CountersMeasure
<1>3. Cardinality(Stopped) <= Cardinality(Mutators)
  BY <1>1, Finite, FS_Subset
<1>4. Cardinality(Stopped) = Cardinality(Mutators) => Stopped = Mutators
  BY <1>1, Finite, FS_Subset
<1>5. Mutators \subseteq Stopped => Stopped = Mutators
  BY <1>1
<1>6. Mutators \subseteq Stopped <=> Cardinality(Stopped) = Cardinality(Mutators)
  BY <1>4, <1>5
<1>7. Cardinality(Stopped) = Cardinality(Mutators) <=> ~(Cardinality(Stopped) < Cardinality(Mutators))
  BY <1>3, Finite, SMTT(30), Z3T(30)
<1> QED BY <1>2, <1>3, <1>6, <1>7 DEF Decisive

(* The mutators that run while the collector works came in after its       *)
(* decision.                                                               *)
EntryInv ==
  /\ gpc = "collect" => add_lock
  /\ gpc \in {"decided", "collect"} /\ missed = 0 /\ late = 0 =>
       Mutators \ Stopped \subseteq entered

LEMMA StoppedStay ==
  ASSUME Inv, Next, gpc \in {"decided", "collect"}, gpc' # "idle"
  PROVE  \A k \in Stopped : pc'[k] \in StoppedPc
<1> SUFFICES ASSUME NEW k \in Stopped PROVE pc'[k] \in StoppedPc
  OBVIOUS
<1> TypeOK /\ world_stopped /\ k \in Thread /\ pc[k] \in StoppedPc
  BY DEF Inv, CountersMeasure, WorldInv, Stopped
<1> USE DEF Goto, TypeOK, StoppedPc
<1>1. ASSUME NEW j \in Thread, Pop(j) \/ LeaveTask(j) \/ Mutate(j) PROVE pc'[k] \in StoppedPc
  BY <1>1 DEF Pop, LeaveTask, Mutate, CountIn, SelfYield, CountOut, StopSelf, StopRecheck
<1>2. CASE Collect
  BY <1>2 DEF Collect, GcStart, GcRequest, GcRecheck, GcAddLock, GcResume
<1>3. CASE Spurious
  BY <1>3 DEF Spurious, SpuriousWake
<1> QED BY <1>1, <1>2, <1>3 DEF Next

LEMMA DecisionAt ==
  ASSUME Inv, Next, gpc # "decided", gpc' = "decided", missed = 0, late = 0
  PROVE  Mutators \subseteq Stopped /\ UNCHANGED <<pc, entered>>
<1> TypeOK
  BY DEF Inv, CountersMeasure
<1>1. GcRequest \/ GcRecheck
  BY DEF Next, Pop, LeaveTask, Mutate, CountIn, SelfYield, CountOut, StopSelf, StopRecheck,
         Collect, GcStart, GcAddLock, GcResume, Spurious, SpuriousWake, Goto, gcVars
<1>2. CASE GcRecheck
  <2>1. world_stopped /\ ~(stopped_count < total_threads)
    BY <1>2 DEF GcRecheck, Await, Inv, WorldInv
  <2> QED BY <1>2, <2>1, CountersDecide DEF GcRecheck, Exact, Decisive
<1>3. CASE GcRequest
  <2>1. ~world_stopped /\ ~(stopped_count < total_threads)
    BY <1>3 DEF GcRequest, Await, Inv, WorldInv
  <2>2. stopped_count = 0 /\ total_threads = Cardinality(Mutators)
    BY <2>1, Finite, SMTT(30), Z3T(30) DEF Inv, CountersMeasure
  <2>3. Cardinality(Mutators) = 0
    BY <2>1, <2>2, Finite, SMTT(30), Z3T(30)
  <2>4. Mutators = {}
    BY <2>3, Finite, FS_EmptySet
  <2> QED BY <1>3, <2>4 DEF GcRequest
<1> QED BY <1>1, <1>2, <1>3

(* While the collector works, its count of late threads does not change,   *)
(* and a thread that starts to run a task then is noted in entered.        *)
LEMMA WorkSteps ==
  ASSUME Inv, EntryInv, Next, gpc \in {"decided", "collect"}, gpc' # "idle"
  PROVE  /\ missed' = missed /\ late' = late /\ gpc' \in {"decided", "collect"}
         /\ gpc' = "collect" => add_lock'
         /\ Mutators' \subseteq Mutators \cup entered'
         /\ entered \cap Mutators' \subseteq entered'
<1> TypeOK /\ world_stopped
  BY DEF Inv, CountersMeasure, WorldInv
<1> USE DEF Goto, gcVars, TypeOK, Mutators, MutatorPc, StoppedPc
<1> DEFINE Goal ==
      /\ missed' = missed /\ late' = late /\ gpc' \in {"decided", "collect"}
      /\ gpc' = "collect" => add_lock'
      /\ Mutators' \subseteq Mutators \cup entered'
      /\ entered \cap Mutators' \subseteq entered'
<1>1. ASSUME NEW k \in Thread, CountIn(k) PROVE Goal
  BY <1>1 DEF CountIn, EntryInv
<1>2. ASSUME NEW k \in Thread, CountOut(k) PROVE Goal
  BY <1>2 DEF CountOut, EntryInv
<1>3. ASSUME NEW k \in Thread, Pop(k) \/ LeaveTask(k) \/ SelfYield(k) \/ StopRecheck(k) PROVE Goal
  BY <1>3 DEF Pop, LeaveTask, SelfYield, StopRecheck, EntryInv
<1>4. ASSUME NEW k \in Thread, StopSelf(k) PROVE Goal
  BY <1>4 DEF StopSelf, EntryInv
<1>5. CASE Collect
  BY <1>5 DEF Collect, GcStart, GcRequest, GcRecheck, GcAddLock, GcResume, EntryInv
<1>6. CASE Spurious
  BY <1>6 DEF Spurious, SpuriousWake, EntryInv
<1>7. Goal
  BY <1>1, <1>2, <1>3, <1>4, <1>5, <1>6 DEF Next, Mutate
<1> QED BY <1>7

LEMMA EntryStep == Inv /\ EntryInv /\ [Next]_vars => EntryInv'
<1> SUFFICES ASSUME Inv, EntryInv, [Next]_vars PROVE EntryInv'
  OBVIOUS
<1>1. CASE UNCHANGED vars
  BY <1>1 DEF vars, gcVars, EntryInv, Mutators, Stopped
<1>2. CASE Next /\ gpc \in {"decided", "collect"} /\ gpc' # "idle"
  <2>1. \A k \in Stopped : pc'[k] \in StoppedPc
    BY <1>2, StoppedStay
  <2>2. Stopped \subseteq Stopped'
    BY <2>1 DEF Stopped
  <2> QED BY <1>2, <2>2, WorkSteps DEF EntryInv
<1>3. CASE Next /\ gpc \notin {"decided", "collect"} /\ gpc' = "decided"
  <2>1. missed' = missed /\ late' = late
    BY <1>3 DEF Next, Pop, LeaveTask, Mutate, CountIn, SelfYield, CountOut, StopSelf, StopRecheck,
         Collect, GcStart, GcRequest, GcRecheck, GcAddLock, GcResume, Spurious, SpuriousWake,
         Goto, gcVars
  <2>2. missed = 0 /\ late = 0 => Mutators \subseteq Stopped /\ pc' = pc
    BY <1>3, DecisionAt
  <2> QED BY <1>3, <2>1, <2>2 DEF EntryInv, Mutators, Stopped
<1>4. CASE Next /\ gpc' \notin {"decided", "collect"}
  BY <1>4 DEF EntryInv
<1>5. ASSUME Next, gpc \notin {"decided", "collect"} PROVE gpc' # "collect"
  BY <1>5 DEF Next, Pop, LeaveTask, Mutate, CountIn, SelfYield, CountOut, StopSelf, StopRecheck,
         Collect, GcStart, GcRequest, GcRecheck, Await, GcAddLock, GcResume, Spurious,
         SpuriousWake, Goto, gcVars
<1> QED BY <1>1, <1>2, <1>3, <1>4, <1>5

(* The collector goes on only when every mutator waits in self_yield, each *)
(* of them stays there until gc_resume_world, and only a thread that came  *)
(* in between the decision and the taking of add_lock runs a task while    *)
(* gc_collect works, provided missed and late are 0.                       *)
THEOREM DecisionsAreSound == Spec => DecisionIsSound
<1>1. Spec => [](Inv /\ EntryInv)
  <2>1. Init => EntryInv
    BY DEF Init, EntryInv
  <2> QED BY <2>1, InvInit, InvStep, EntryStep, PTL DEF Spec
<1>2. ASSUME Inv, EntryInv, EntryInv', [Next]_vars
      PROVE  [/\ gpc # "decided" /\ gpc' = "decided" /\ missed = 0 /\ late = 0
                   => Mutators \subseteq Stopped
              /\ gpc \in {"decided", "collect"} /\ gpc' # "idle"
                   => \A k \in Stopped : pc'[k] \in StoppedPc
              /\ gpc' = "collect" /\ missed = 0 /\ late = 0
                   => (Mutators \ Stopped)' \subseteq entered']_vars
  <2> SUFFICES ASSUME Next
               PROVE  /\ gpc # "decided" /\ gpc' = "decided" /\ missed = 0 /\ late = 0
                           => Mutators \subseteq Stopped
                      /\ gpc \in {"decided", "collect"} /\ gpc' # "idle"
                           => \A k \in Stopped : pc'[k] \in StoppedPc
                      /\ gpc' = "collect" /\ missed = 0 /\ late = 0
                           => (Mutators \ Stopped)' \subseteq entered'
    BY <1>2
  <2>1. gpc' = "collect" => gpc \in {"decided", "collect"}
    BY DEF Next, Pop, LeaveTask, Mutate, CountIn, SelfYield, CountOut, StopSelf, StopRecheck,
         Collect, GcStart, GcRequest, GcRecheck, Await, GcAddLock, GcResume, Spurious,
         SpuriousWake, Goto, gcVars
  <2>2. gpc' = "collect" /\ missed = 0 /\ late = 0 => (Mutators \ Stopped)' \subseteq entered'
    BY <1>2, <2>1, WorkSteps DEF EntryInv
  <2> QED BY <1>2, <2>2, DecisionAt, StoppedStay
<1> QED BY <1>1, <1>2, PTL DEF Spec, DecisionIsSound

(* A thread that stops in self_yield never leaves the collector asleep     *)
(* with nobody left to stop: only a thread that counts itself out of       *)
(* total_threads in scheduler_run can.                                     *)
THEOREM OnlyLeavers == Spec => OnlyLeaversGoUnnoticed
<1>1. Spec => []Inv
  BY InvInit, InvStep, PTL DEF Spec
<1>2. ASSUME Inv, Inv', [Next]_vars
      PROVE  [Unnoticed' => Unnoticed \/ \E k \in Thread : pc[k] = "ret" /\ pc'[k] = "pop"]_vars
  <2> SUFFICES ASSUME Next, Unnoticed', ~Unnoticed
               PROVE  \E k \in Thread : pc[k] = "ret" /\ pc'[k] = "pop"
    BY <1>2
  <2> TypeOK /\ WorldInv /\ CountersMeasure
    BY <1>2 DEF Inv, CountersMeasure
  <2> USE DEF Goto, gcVars, TypeOK
  <2>0. (Exact => Decisive)'
    BY CountersDecide, PTL
  <2>1. ASSUME NEW k \in Thread, CountOut(k)
        PROVE  \E j \in Thread : pc[j] = "ret" /\ pc'[j] = "pop"
    BY <2>1 DEF CountOut
  <2>2. ASSUME NEW k \in Thread, pc'[k] \in MutatorPc \ StoppedPc PROVE FALSE
    BY <2>2 DEF Unnoticed, Mutators, Stopped
  <2>3. ASSUME NEW k \in Thread, CountIn(k) \/ LeaveTask(k) \/ SelfYield(k) PROVE FALSE
    BY <2>2, <2>3 DEF CountIn, LeaveTask, SelfYield, MutatorPc, StoppedPc
  <2>4. ASSUME NEW k \in Thread, Pop(k) PROVE FALSE
    BY <2>4 DEF Pop, Unnoticed, Mutators, Stopped, MutatorPc, StoppedPc
  <2>5. ASSUME NEW k \in Thread, StopRecheck(k) PROVE FALSE
    BY <2>5 DEF StopRecheck, WorldInv, Unnoticed, Mutators, Stopped, MutatorPc, StoppedPc
  <2>6. ASSUME NEW k \in Thread, StopSelf(k) PROVE FALSE
    <3>1. /\ gpc = "wait" /\ stopped_count + 1 # total_threads
          /\ stopped_count' = stopped_count + 1 /\ total_threads' = total_threads
      BY <2>6 DEF StopSelf, Unnoticed
    <3>2. Exact' /\ (Mutators \subseteq Stopped)'
      BY <1>2, <2>6, <3>1 DEF StopSelf, Exact, Unnoticed, WorldInv
    <3> QED BY <2>0, <3>1, <3>2, SMTT(30), Z3T(30) DEF Decisive
  <2>7. ASSUME Collect PROVE FALSE
    <3>1. gpc' = "wait" /\ (GcRequest \/ GcRecheck)
      BY <2>7 DEF Collect, GcStart, GcAddLock, GcResume, Unnoticed
    <3>2. /\ stopped_count < total_threads /\ world_stopped'
          /\ stopped_count' = stopped_count /\ total_threads' = total_threads
      <4>1. CASE GcRequest
        BY <3>1, <4>1 DEF GcRequest, Await
      <4>2. CASE GcRecheck
        BY <3>1, <4>2 DEF GcRecheck, Await, WorldInv
      <4> QED BY <3>1, <4>1, <4>2
    <3>3. Exact' /\ (Mutators \subseteq Stopped)'
      BY <1>2, <3>2 DEF Exact, Unnoticed
    <3> QED BY <2>0, <3>2, <3>3 DEF Decisive
  <2>8. ASSUME Spurious PROVE FALSE
    BY <2>8 DEF Spurious, SpuriousWake, Unnoticed, Mutators, Stopped, MutatorPc, StoppedPc
  <2> QED BY <2>1, <2>3, <2>4, <2>5, <2>6, <2>7, <2>8 DEF Next, Mutate
<1> QED BY <1>1, <1>2, PTL DEF Spec, OnlyLeaversGoUnnoticed
=============================================================================
