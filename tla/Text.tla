-------------------------------- MODULE Text --------------------------------
(***************************************************************************)
(* Numbers and formatted output: the conversions of runtime/src/strings.c, *)
(* the growing buffer of strings_format, and the two loops over a format.  *)
(***************************************************************************)
EXTENDS Strings, SequencesExt

CONSTANTS FirstCap,         \* the first capacity of buf_append: 64
          WordBits          \* the bits of an int64_t: 64

(* Conversions.  u64_to_dec writes the digits from the last and turns them *)
(* round; i64_to_dec negates in the width of the word, so the smallest     *)
(* number has no positive counterpart but its bits have.                   *)
Minus == -1
Point == -2
LowFirst[v \in Nat] == <<v % 10>> \o (IF v \div 10 = 0 THEN <<>> ELSE LowFirst[v \div 10])
u64_to_dec(v) == Reverse(LowFirst[v])
i64_to_dec(v) ==
  IF v < 0 THEN <<Minus>> \o u64_to_dec((-v) % 2^WordBits) ELSE u64_to_dec(v)

(* A defect to test against: a zero is skipped wherever it stands. *)
SkipZeros(v) ==
  LET nibble(j) == (v \div 16^j) % 16
  IN  SelectSeq([i \in 1..(WordBits \div 4) |-> nibble((WordBits \div 4) - i)], LAMBDA d : d # 0)

(* ptr_to_hex goes from the highest nibble down, starts with the first     *)
(* that is not zero, and always writes the last.                           *)
ptr_to_hex(v) ==
  LET top == WordBits \div 4
      nibble(j) == (v \div 16^j) % 16
      start == CHOOSE i \in 1..top :
                 /\ i = top \/ nibble(top - i) # 0
                 /\ \A k \in 1..(i - 1) : nibble(top - k) = 0
  IN  [i \in 1..(top - start + 1) |-> nibble(top - start - i + 1)]

(* f64_to_dec of the number n / den: the whole part, then six times the    *)
(* digit in front of the point of ten times the rest.  The rounding of     *)
(* doubles is left out.                                                    *)
f64_to_dec(n, den) ==
  LET a == IF n < 0 THEN -n ELSE n
      Rest[k \in 0..6] == IF k = 0 THEN a % den ELSE (10 * Rest[k - 1]) % den
  IN  (IF n < 0 THEN <<Minus>> ELSE <<>>) \o u64_to_dec(a \div den) \o <<Point>>
      \o [k \in 1..6 |-> (10 * Rest[k - 1]) \div den]

(* buf_append: a buffer that is too small is replaced by one of twice the  *)
(* capacity, doubled until it fits, with the first len bytes copied.       *)
(* RoomOnce is a defect to test against: the capacity is doubled once. *)
RoomOnce(cap, n) == IF cap = 0 THEN FirstCap ELSE 2 * cap

RoomFor(cap, n) ==
  LET Twice[c \in Nat \ {0}] == IF c < n THEN Twice[2 * c] ELSE c
  IN  Twice[IF cap = 0 THEN FirstCap ELSE 2 * cap]

buf_append(o, src) ==
  LET need == o.len + Len(src)
      cap == IF need > o.cap THEN RoomFor(o.cap, need) ELSE o.cap
      old == IF need > o.cap THEN SubSeq(o.buf, 1, o.len) \o [i \in 1..(cap - o.len) |-> Junk] ELSE o.buf
  IN  [buf |-> [i \in 1..cap |-> IF i > o.len /\ i <= need THEN src[i - o.len] ELSE old[i]],
       cap |-> cap, len |-> need]

(* The loop over the format.  The k-th argument printed with a specifier   *)
(* is the piece <<spec, k>>; s prints the bytes of a string.  After %l an  *)
(* u is taken, and syncio_printf takes a d as well where strings_format    *)
(* leaves it in the text.                                                  *)
Specifiers == {"s", "d", "u", "p", "f"}
FormatLoop(fmt, longs) ==
  LET n == Len(fmt)
      Loop[i \in 1..(n + 1), k \in 0..n] ==
        IF i > n THEN <<>>
        ELSE IF fmt[i] # "%" THEN <<<<fmt[i]>>>> \o Loop[i + 1, k]
        ELSE IF i = n THEN <<>>
        ELSE LET c == fmt[i + 1] IN
          CASE c = "%" -> <<<<"%">>>> \o Loop[i + 2, k]
            [] c \in Specifiers -> <<<<c, k>>>> \o Loop[i + 2, k + 1]
            [] c = "l" -> LET more == i + 2 <= n /\ fmt[i + 2] \in longs
                              as == IF more /\ fmt[i + 2] = "u" THEN "lu" ELSE "ld"
                          IN  <<<<as, k>>>> \o Loop[IF more THEN i + 3 ELSE i + 2, k + 1]
            [] OTHER -> <<<<"%">>, <<c>>>> \o Loop[i + 2, k]
  IN  Loop[1, 0]

strings_format(fmt) == FormatLoop(fmt, {"u"})
syncio_printf(fmt) == FormatLoop(fmt, {"u", "d"})

-----------------------------------------------------------------------------
(* The functions of this part have no state: their properties are looked   *)
(* at in the initial states.                                               *)
Fresh == view = Nothing /\ \A x \in Str : str[x] = Nothing

(* Printed numbers read back as themselves, without superfluous zeros:     *)
(* signed and unsigned words up to both ends of their range, pointers, and *)
(* fractions up to the sixth place, which are cut off and not rounded.     *)
Val(base, digits) == FoldLeft(LAMBDA n, d : base * n + d, 0, digits)
Short(digits) == digits # <<>> /\ (digits[1] = 0 => Len(digits) = 1)
Unsigned(s) == IF s[1] = Minus THEN Tail(s) ELSE s

NumbersRoundTrip ==
  Fresh =>
  /\ \A v \in 0..(2^WordBits - 1) :
       /\ Short(u64_to_dec(v)) /\ Val(10, u64_to_dec(v)) = v
       /\ Short(ptr_to_hex(v)) /\ Val(16, ptr_to_hex(v)) = v
  /\ \A v \in -(2^(WordBits - 1))..(2^(WordBits - 1) - 1) :
       LET s == i64_to_dec(v) IN
       Short(Unsigned(s)) /\ (IF s[1] = Minus THEN -Val(10, Tail(s)) ELSE Val(10, s)) = v
  /\ \A n \in -20..20, den \in {1, 3, 8} :
       LET s == Unsigned(f64_to_dec(n, den))
           a == IF n < 0 THEN -n ELSE n
           frac == Val(10, SubSeq(s, Len(s) - 5, Len(s)))
       IN  Val(10, SubSeq(s, 1, Len(s) - 7)) = a \div den
           /\ frac * den <= (a % den) * 1000000 /\ (frac + 1) * den > (a % den) * 1000000

(* strings_format and syncio_printf have the same loop in two copies: they *)
(* print the same for every format in which no %ld occurs (strings.c:251   *)
(* and diskio.c:678).  Item by item a format prints what the item asks     *)
(* for, with the arguments in order, and the growing buffer holds all that *)
(* was appended to it.                                                     *)
FormatChars == {"%", "l", "u", "d", "x"}
HasLongD(f) == \E i \in 1..(Len(f) - 2) : SubSeq(f, i, i + 2) = <<"%", "l", "d">>

Items == {<<"x">>, <<"%", "%">>, <<"%", "s">>, <<"%", "u">>, <<"%", "l", "u">>, <<"%", "x">>}
Takes(item) == item[1] = "%" /\ item[2] \in {"s", "u", "l"}
Printed(items) ==
  FlattenSeq([i \in DOMAIN items |->
    LET item == items[i]
        k == Len(SelectSeq(SubSeq(items, 1, i - 1), Takes))
    IN  IF Takes(item) THEN <<<<IF item[2] = "l" THEN "lu" ELSE item[2], k>>>>
        ELSE IF item = <<"%", "x">> THEN <<<<"%">>, <<"x">>>> ELSE <<<<item[1]>>>>])

FormatsAgree ==
  Fresh =>
  /\ \A f \in BoundedSeq(FormatChars, 4) : HasLongD(f) \/ strings_format(f) = syncio_printf(f)
  /\ \A items \in BoundedSeq(Items, 3) : strings_format(FlattenSeq(items)) = Printed(items)
  /\ \A srcs \in BoundedSeq({<<>>, <<"a">>, <<"a", "b", "c">>, <<"a", "b", "c", "d", "e">>}, 3) :
       LET o == FoldLeft(buf_append, [buf |-> <<>>, cap |-> 0, len |-> 0], srcs)
       IN  o.len <= o.cap /\ Len(o.buf) = o.cap /\ SubSeq(o.buf, 1, o.len) = FlattenSeq(srcs)
=============================================================================
