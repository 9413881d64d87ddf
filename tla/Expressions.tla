----------------------------- MODULE Expressions -----------------------------
(***************************************************************************)
(* What the code that the compiler generates for numeric expressions       *)
(* computes: the casts of irgen/codegen/type/types.go and the operators of *)
(* handlers/expression/ops.go.  LLVM's integers have a width and no sign;  *)
(* the sign is in the compiler's type of a variable, which the casts do    *)
(* not see.  A value is a record of its type, a tag and its bits; floats   *)
(* are whole numbers rounded to the precision of their type, or NaN.  The  *)
(* tags besides: the generated code raises a runtime error, has no defined *)
(* result, or gives a fraction or an infinity, which are not followed      *)
(* further, and the compiler rejects the expression.                       *)
(***************************************************************************)
EXTENDS Naturals, Integers, Bitwise

CONSTANTS W8, W16, W32, W64,     \* the widths of the integers
          P16, P32, P64,         \* the significant bits of the floats: 11, 24, 53
          E16, E32, E64          \* and their exponents: they stay below 2^E

Num(class, w) == [class |-> class, width |-> w]
boolean == Num("bool", 1)
Ints == {Num(c, w) : c \in {"int", "uint"}, w \in {W8, W16, W32, W64}}
Float(w) == Num("float", w)

Precision(w) == IF w = W16 THEN P16 ELSE IF w = W32 THEN P32 ELSE P64
floatMax(w) == CASE w = W16 -> 2^E16 - 2^(E16 - P16)
                 [] w = W32 -> 2^E32 - 2^(E32 - P32)
                 [] OTHER -> 2^E64 - 2^(E64 - P64)

Val(T, b) == [t |-> T, tag |-> "val", v |-> b]
Bad(tag) == [t |-> boolean, tag |-> tag, v |-> 0]
NaN(w) == [t |-> Float(w), tag |-> "nan", v |-> 0]
Bool(cond) == Val(boolean, IF cond THEN 1 ELSE 0)

(* An integer read as a signed one, and what its type says it is. *)
Signed(x) == IF x.v >= 2^(x.t.width - 1) THEN x.v - 2^x.t.width ELSE x.v
Meaning(x) == IF x.t.class = "int" THEN Signed(x) ELSE x.v
-----------------------------------------------------------------------------
(* The instructions of LLVM. *)
SExt(x, w) == Signed(x) % 2^w
Trunc(x, w) == x.v % 2^w
Abs(n) == IF n < 0 THEN -n ELSE n

(* The whole number of p significant bits nearest to n, ties to even: a    *)
(* multiple of the unit in its last place.                                 *)
Ulp(a, p) == CHOOSE u \in {2^k : k \in 0..E64} : a < 2^p * u /\ (u = 1 \/ 2^p * u <= 2 * a)
NearestMultiple(n, u) ==
  IF 2 * (n % u) > u \/ (2 * (n % u) = u /\ (n \div u) % 2 = 1) THEN n - (n % u) + u ELSE n - (n % u)
Nearest(n, p) == NearestMultiple(n, Ulp(Abs(n), p))

(* sitofp and fptrunc round; what is too large becomes an infinity. *)
Beyond(n, w) == n > floatMax(w) \/ n < -floatMax(w)
ToFloat(n, w) ==
  LET r == Nearest(n, Precision(w)) IN IF Beyond(r, w) THEN Bad("infinity") ELSE Val(Float(w), r)
SIToFP(x, w) == ToFloat(Signed(x), w)

(* fptosi and fptoui: a number outside the type gives poison. *)
FPTo(T, x, min, max) ==
  IF x.tag = "nan" \/ x.v < min \/ x.v > max THEN Bad("undefined") ELSE Val(T, x.v % 2^T.width)
FPToSI(T, x) == FPTo(T, x, -(2^(T.width - 1)), 2^(T.width - 1) - 1)
FPToUI(T, x) == FPTo(T, x, 0, 2^T.width - 1)

FRem(l, r) ==
  IF r = 0 THEN NaN(W64) ELSE Val(Float(W64), (IF l < 0 THEN -1 ELSE 1) * (Abs(l) % Abs(r)))
Quotient(l, r) == (IF (l < 0) = (r < 0) THEN 1 ELSE -1) * (Abs(l) \div Abs(r))
-----------------------------------------------------------------------------
(* Implicit casts.  The bounds of bound.go, as integers and as the doubles *)
(* that floats are compared with.                                          *)
intMax(w) == 2^(w - 1) - 1
intMin(w) == -(2^(w - 1))
uintMax(w) == 2^w - 1

(* A defect to test against: the value of the bound itself is refused. *)
DownCastTooSoon(x, T) ==
  IF T.width = 1 THEN Bool(x.v # 0)
  ELSE IF Signed(x) >= intMax(T.width) \/ Signed(x) < intMin(T.width) THEN Bad("error")
  ELSE Val(T, Trunc(x, T.width))

catchLossLessIntToIntDownCast(x, T) ==
  IF T.width = 1 THEN Bool(x.v # 0)
  ELSE IF Signed(x) > intMax(T.width) \/ Signed(x) < intMin(T.width) THEN Bad("error")
  ELSE Val(T, Trunc(x, T.width))

(* The source is compared as a signed number here too. *)
catchLossLessIntToUnsignedDownCast(x, T) ==
  IF Signed(x) > uintMax(T.width) \/ Signed(x) < 0 THEN Bad("error")
  ELSE Val(T, Trunc(x, T.width))

catchLossLessFloatToIntDownCast(x, T) ==
  IF x.tag = "nan" \/ x.v > Nearest(intMax(T.width), P64) \/ x.v < intMin(T.width)
  THEN Bad("error") ELSE FPToSI(T, x)

catchLossLessFloatToUnsignedIntDownCast(x, T) ==
  IF x.tag = "nan" \/ x.v > Nearest(uintMax(T.width), P64) \/ x.v < 0
  THEN Bad("error") ELSE FPToUI(T, x)

NonZero(x) == x.tag = "val" /\ x.v # 0

ImplicitIntCast(x, T) ==
  CASE x.t.class = "float" /\ T.width = 1 -> Bool(NonZero(x))
    [] x.t.class = "float" /\ T.width > 1 -> catchLossLessFloatToIntDownCast(x, T)
    [] x.t.class # "float" /\ x.t.width > T.width -> catchLossLessIntToIntDownCast(x, T)
    [] OTHER -> Val(T, SExt(x, T.width))

ImplicitUnsignedIntCast(x, T) ==
  CASE x.t.class = "float" -> catchLossLessFloatToUnsignedIntDownCast(x, T)
    [] x.t.class # "float" /\ x.t.width > T.width -> catchLossLessIntToUnsignedDownCast(x, T)
    [] OTHER -> Val(T, x.v)

catchLossLessFloatToFloatDowncast(x, T) ==
  CASE x.tag = "nan" -> NaN(T.width)
    [] x.tag # "nan" /\ x.t.width <= T.width -> Val(T, x.v)
    [] OTHER -> IF Beyond(x.v, T.width) THEN Bad("error") ELSE ToFloat(x.v, T.width)

catchLossLessIntToFloatDowncast(x, T) ==
  IF Beyond(SIToFP(x, W64).v, T.width) THEN Bad("error") ELSE SIToFP(x, T.width)

ImplicitFloatCast(x, T) ==
  CASE x.t.class = "float" -> catchLossLessFloatToFloatDowncast(x, T)
    [] x.t = boolean -> Val(T, x.v)
    [] OTHER -> catchLossLessIntToFloatDowncast(x, T)

(* The cast of a declaration, an assignment, an argument or a result. *)
ImplicitTypeCast(x, T) ==
  CASE x.tag \notin {"val", "nan"} -> x
    [] x.tag \in {"val", "nan"} /\ T.class = "float" -> ImplicitFloatCast(x, T)
    [] x.tag \in {"val", "nan"} /\ T.class = "uint" -> ImplicitUnsignedIntCast(x, T)
    [] OTHER -> ImplicitIntCast(x, T)
-----------------------------------------------------------------------------
(* Explicit casts, T(x): nothing is checked. *)
ExplicitIntCast(x, T) ==
  IF x.t.class = "float" THEN FPToSI(T, x)
  ELSE Val(T, IF x.t.width < T.width THEN SExt(x, T.width) ELSE Trunc(x, T.width))

ExplicitUnsignedIntCast(x, T) ==
  IF x.t.class = "float" THEN FPToUI(T, x) ELSE Val(T, Trunc(x, T.width))

ExplicitFloatCast(x, T) ==
  CASE x.tag = "nan" -> NaN(T.width)
    [] x.tag # "nan" /\ x.t.class # "float" -> SIToFP(x, T.width)
    [] OTHER -> ToFloat(x.v, T.width)

ExplicitTypeCast(x, T) ==
  CASE T.class = "float" -> ExplicitFloatCast(x, T)
    [] T.class = "uint" -> ExplicitUnsignedIntCast(x, T)
    [] OTHER -> ExplicitIntCast(x, T)
-----------------------------------------------------------------------------
(* Operators.  The kind an operand has, and the kind two operands are      *)
(* brought to: a float next to a boolean is let through.                   *)
classifyVar(x) == IF x.t = boolean THEN "invalid" ELSE x.t.class

commonKind(a, b) ==
  CASE a = "uint" \/ b = "uint" -> IF a = b THEN "uint" ELSE "invalid"
    [] "uint" \notin {a, b} /\ "float" \in {a, b} -> "float"
    [] OTHER -> IF a = "int" /\ b = "int" THEN "int" ELSE "invalid"

Int64(n) == Val(Num("int", W64), n % 2^W64)
UInt64(n) == Val(Num("uint", W64), n % 2^W64)
Float64(n) == ToFloat(n, W64)

(* A defect to test against: an operand is widened by its own width alone. *)
NormalizeRaw(x, k) == IF k = "float" THEN ImplicitFloatCast(x, Float(W64)) ELSE UInt64(x.v)

normalizeOperands(x, k) ==
  CASE k = "float" -> ImplicitFloatCast(x, Float(W64))
    [] k = "uint" -> ImplicitUnsignedIntCast(x, Num("uint", W64))
    [] OTHER -> ImplicitIntCast(x, Num("int", W64))

(* The operands of a binary operator as the numbers its instruction works  *)
(* on, and what becomes of the number or the truth value it gives.  A      *)
(* comparison with NaN is false.                                           *)
Numeral(k, x) == IF k = "int" THEN Signed(x) ELSE x.v
Normal(k, l, r) ==
  [kind |-> IF "nan" \in {l.tag, r.tag} THEN "nan" ELSE k, l |-> Numeral(k, l), r |-> Numeral(k, r)]
Operands(x, y) ==
  LET k == commonKind(classifyVar(x), classifyVar(y))
  IN  IF k = "invalid" THEN [kind |-> k, l |-> 0, r |-> 0]
      ELSE Normal(k, normalizeOperands(x, k), normalizeOperands(y, k))

Result(kind, n) ==
  CASE kind = "invalid" -> Bad("rejected")
    [] kind = "int" -> Int64(n)
    [] kind = "uint" -> UInt64(n)
    [] kind = "nan" -> NaN(W64)
    [] OTHER -> Float64(n)
Test(kind, cond) == IF kind = "invalid" THEN Bad("rejected") ELSE Bool(kind # "nan" /\ cond)

add(x, y) == LET o == Operands(x, y) IN Result(o.kind, o.l + o.r)
sub(x, y) == LET o == Operands(x, y) IN Result(o.kind, o.l - o.r)
mul(x, y) == LET o == Operands(x, y) IN Result(o.kind, o.l * o.r)

(* sdiv and udiv; fdiv is followed where it gives a whole number. *)
Divide(kind, l, r) ==
  CASE kind \in {"invalid", "nan"} -> Result(kind, 0)
    [] kind \in {"int", "uint"} /\ (r = 0 \/ (kind = "int" /\ l = intMin(W64) /\ r = -1)) -> Bad("undefined")
    [] kind = "float" /\ r = 0 -> IF l = 0 THEN NaN(W64) ELSE Bad("infinity")
    [] kind = "float" /\ r # 0 /\ Abs(l) % Abs(r) # 0 -> Bad("fraction")
    [] OTHER -> Result(kind, Quotient(l, r))
div(x, y) == LET o == Operands(x, y) IN Divide(o.kind, o.l, o.r)

(* mod computes with floats whatever the kind; the 64 bits of an unsigned  *)
(* operand go through the signed conversion.                               *)
AsFloat(kind, n) == IF kind = "float" THEN n ELSE ImplicitFloatCast(Int64(n), Float(W64)).v
mod(x, y) ==
  LET o == Operands(x, y)
  IN  IF o.kind \in {"invalid", "nan"} THEN Result(o.kind, 0)
      ELSE FRem(AsFloat(o.kind, o.l), AsFloat(o.kind, o.r))

eq(x, y) == LET o == Operands(x, y) IN Test(o.kind, o.l = o.r)
ne(x, y) == LET o == Operands(x, y) IN Test(o.kind, o.l # o.r)
lt(x, y) == LET o == Operands(x, y) IN Test(o.kind, o.l < o.r)
lte(x, y) == LET o == Operands(x, y) IN Test(o.kind, o.l <= o.r)
gt(x, y) == LET o == Operands(x, y) IN Test(o.kind, o.l > o.r)
gte(x, y) == LET o == Operands(x, y) IN Test(o.kind, o.l >= o.r)

(* Bitwise operators and shifts, on integers of one kind only. *)
OnBits(kind, n) == IF kind \in {"int", "uint"} THEN Result(kind, n) ELSE Bad("rejected")
AsWord(n) == n % 2^W64
bitwiseAND(x, y) == LET o == Operands(x, y) IN OnBits(o.kind, AsWord(o.l) & AsWord(o.r))
bitwiseOR(x, y) == LET o == Operands(x, y) IN OnBits(o.kind, AsWord(o.l) | AsWord(o.r))
bitwiseXOR(x, y) == LET o == Operands(x, y) IN OnBits(o.kind, AsWord(o.l) ^^ AsWord(o.r))

Shifted(kind, n, inWord) == IF inWord THEN OnBits(kind, n) ELSE Bad("undefined")
InWord(o) == o.kind \in {"int", "uint"} => o.r \in 0..(W64 - 1)
bitwiseLeftShift(x, y) == LET o == Operands(x, y) IN Shifted(o.kind, o.l * 2^o.r, InWord(o))
bitwiseRightShift(x, y) == LET o == Operands(x, y) IN Shifted(o.kind, o.l \div 2^o.r, InWord(o))

toBool(x) == NonZero(x)

(* && and ||, given what the right operand would evaluate to: it is not    *)
(* evaluated when the left one decides.                                    *)
Truth(y) == IF y.tag \in {"val", "nan"} THEN Bool(toBool(y)) ELSE y
logicalAnd(x, y) == IF toBool(x) THEN Truth(y) ELSE Bool(FALSE)
logicalOr(x, y) == IF toBool(x) THEN Bool(TRUE) ELSE Truth(y)

neg(x) ==
  CASE classifyVar(x) = "int" -> Float64(-ImplicitFloatCast(x, Float(W64)).v)
    [] classifyVar(x) = "float" -> [x EXCEPT !.v = -@]
    [] OTHER -> Bad("rejected")

not(x) == Bool(~toBool(x))

(* toInt64 extends by the sign whatever the type, and the result of ~ is   *)
(* unsigned.                                                               *)
toInt64(x) == IF x.t.class = "float" THEN FPToSI(Num("int", W64), x) ELSE Int64(Signed(x))
bitwiseNOT(x) == LET n == toInt64(x) IN IF n.tag = "val" THEN UInt64(-1 - Signed(n)) ELSE n
-----------------------------------------------------------------------------
Bits(T) == 0..(2^T.width - 1)
Vals(T) == {Val(T, b) : b \in Bits(T)}
Holds(T, n) == IF T.class = "int" THEN intMin(T.width) <= n /\ n <= intMax(T.width)
               ELSE 0 <= n /\ n <= uintMax(T.width)
Is(T, r, n) == r = Val(T, n % 2^T.width)
Wholes == {Nearest(n, P64) : n \in -(2^(W64 + 1))..2^(W64 + 1)}

(* The casts of types.go that read the bits of the source with a sign that *)
(* is not the one of its type: a large unsigned number becomes a signed    *)
(* one, a negative number is not narrowed to an unsigned type, and true    *)
(* becomes a signed number.                                                *)
Reread(x, T) ==
  \/ x.t.class = "uint" /\ T.class # "uint" /\ Meaning(x) # Signed(x)
  \/ x.t.class = "int" /\ T.class = "uint" /\ x.t.width <= T.width /\ Signed(x) < 0
  \/ x = Bool(TRUE) /\ T.class = "int"

(* An implicit cast keeps the number or stops the program (types.go:626),  *)
(* but for the sources that Reread names.  Whole floats, literals among    *)
(* them, that a type cannot hold are errors, but for 2^63 and 2^64, which  *)
(* the largest integers are rounded to for the comparison (types.go:744).  *)
(* An explicit cast of an integer keeps the low bits; to a boolean it      *)
(* keeps the lowest, where the implicit one asks whether all are zero.     *)
CastsExact ==
  /\ \A S \in Ints \cup {boolean} : \A x \in Vals(S) :
       /\ \A T \in Ints :
            /\ ~Reread(x, T) =>
                 IF Holds(T, Meaning(x)) THEN Is(T, ImplicitTypeCast(x, T), Meaning(x))
                 ELSE ImplicitTypeCast(x, T) = Bad("error")
            /\ (S.class = T.class \/ S.width >= T.width) => Is(T, ExplicitTypeCast(x, T), Meaning(x))
       /\ ImplicitTypeCast(x, boolean) = Bool(Meaning(x) # 0)
       /\ ExplicitTypeCast(x, boolean) = Bool(Meaning(x) % 2 = 1)
       /\ \A w \in {W16, W32, W64} :
            LET f == ImplicitTypeCast(x, Float(w)) IN
            /\ ~Reread(x, Float(w)) => f \in {Bad("error"), Val(Float(w), Nearest(Meaning(x), Precision(w)))}
            /\ S # boolean => ExplicitTypeCast(x, Float(w)) \in {f, Bad("infinity"), Val(Float(w), floatMax(w)),
                                                                Val(Float(w), -floatMax(w))}
  /\ \A n \in Wholes, T \in Ints :
       LET x == Val(Float(W64), n) IN
       IF Holds(T, n) THEN Is(T, ImplicitTypeCast(x, T), n) /\ Is(T, ExplicitTypeCast(x, T), n)
       ELSE /\ ImplicitTypeCast(x, T) = Bad(IF T.width = W64 /\ Holds(T, n - 1) THEN "undefined" ELSE "error")
            /\ ExplicitTypeCast(x, T) = Bad("undefined")

(* Operators on integers of one kind compute with the numbers of their     *)
(* operands, whatever their widths, in 64 bits (ops.go:94): the sum, the   *)
(* difference and the product modulo 2^64, comparisons exactly.  Division  *)
(* is undefined only by zero and for the smallest number by -1, shifts for *)
(* counts outside the word.  The remainder and the negation, which go      *)
(* through floats (ops.go:387, 732), are exact for numbers a float holds   *)
(* exactly, of which only 2^63 is undefined, if they are not the upper     *)
(* half of the unsigned ones; x % 0 is NaN and stops the program where it  *)
(* is assigned to an integer.                                              *)
InFloat(n) == Nearest(n, P64) = n
Results(x, y) ==
  [add |-> add(x, y), sub |-> sub(x, y), mul |-> mul(x, y), div |-> div(x, y), mod |-> mod(x, y),
   eq |-> eq(x, y), ne |-> ne(x, y), lt |-> lt(x, y), lte |-> lte(x, y), gt |-> gt(x, y), gte |-> gte(x, y),
   and |-> bitwiseAND(x, y), or |-> bitwiseOR(x, y), xor |-> bitwiseXOR(x, y),
   shl |-> bitwiseLeftShift(x, y), shr |-> bitwiseRightShift(x, y)]
Exact(T, l, r, res) ==
  /\ Is(T, res.add, l + r) /\ Is(T, res.sub, l - r) /\ Is(T, res.mul, l * r)
  /\ res.eq = Bool(l = r) /\ res.ne = Bool(l # r) /\ res.lt = Bool(l < r)
  /\ res.lte = Bool(l <= r) /\ res.gt = Bool(l > r) /\ res.gte = Bool(l >= r)
  /\ IF r = 0 \/ (l = intMin(W64) /\ r = -1) THEN res.div = Bad("undefined")
     ELSE Abs(l - Meaning(res.div) * r) < Abs(r) /\ Abs(Meaning(res.div) * r) <= Abs(l)
  /\ InFloat(l) /\ InFloat(r) /\ (T.class = "uint" => l <= intMax(W64) /\ r <= intMax(W64)) =>
       LET m == ImplicitTypeCast(res.mod, T) IN
       IF r = 0 THEN m = Bad("error") ELSE Is(T, m, l - r * Quotient(l, r))
  /\ r \in 0..(W64 - 1) =>
       Is(T, res.shl, l * 2^r) /\ Meaning(res.shr) * 2^r <= l /\ l < (Meaning(res.shr) + 1) * 2^r
  /\ (res.and.v + res.or.v) % 2^W64 = (l + r) % 2^W64 /\ res.xor.v + res.and.v = res.or.v
OperatorsExact ==
  \A S, T \in Ints : S.class = T.class =>
    \A x \in Vals(S), y \in Vals(T) :
       Exact(Num(S.class, W64), Meaning(x), Meaning(y), Results(x, y))

(* -x and ~x are assigned back to the type of x: as above, but ~x of an    *)
(* unsigned number below its upper half is an error, except in 64 bits     *)
(* (ops.go:916).  A division whose left neighbour in && or || excludes a   *)
(* zero is never reached with one (ops.go:594).                            *)
PrefixExact ==
  \A T \in Ints : \A x \in Vals(T) :
    LET n == Meaning(x)
        back == ImplicitTypeCast(neg(x), T)
        inv == ImplicitTypeCast(bitwiseNOT(x), T)
        zero == Val(T, 0)
        ratio == div(Val(T, 1), x)
    IN  /\ T.class = "uint" => neg(x) = Bad("rejected")
        /\ T.class = "int" /\ InFloat(n) =>
             IF Holds(T, -n) THEN Is(T, back, -n)
             ELSE back = Bad(IF T.width = W64 THEN "undefined" ELSE "error")
        /\ IF T.class = "uint" /\ T.width < W64 /\ n <= intMax(T.width) THEN inv = Bad("error")
           ELSE Is(T, inv, -1 - n)
        /\ logicalAnd(ne(x, zero), ratio) # Bad("undefined")
        /\ logicalOr(eq(x, zero), ratio) # Bad("undefined")
        /\ logicalAnd(eq(x, zero), ratio) = (IF n = 0 THEN Bad("undefined") ELSE Bool(FALSE))

ExpressionsExact == CastsExact /\ OperatorsExact /\ PrefixExact
=============================================================================
