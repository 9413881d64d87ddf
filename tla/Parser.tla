------------------------------- MODULE Parser -------------------------------
(***************************************************************************)
(* How the compiler reads an expression (irgen/parser): a Pratt parser     *)
(* whose tables BuildTokensTable fills.  A token is its spelling, and one  *)
(* spelling stands for the tokens of its kind: "x" for a name or a         *)
(* number, "!" for the prefix operators that are nothing else, "*" for the *)
(* multiplicative operators.  A tree is <<token, subtrees...>>.            *)
(* Assignments, ranges, array literals, new and fn are left out.           *)
(***************************************************************************)
EXTENDS Integers, Sequences, FiniteSets

(* BindingPower, lookup.go: 10, in the order of its constants. *)
default_bp == 0
assignment == 2
bitwise == 3
logical == 4
relational == 5
additive == 6
multiplicative == 7
unary == 8
call_bp == 9
member == 10
primary == 11

led(kind, bp) == [kind |-> kind, led |-> TRUE, bp |-> bp]

(* A defect to test against: registering a prefix leaves the power alone.  *)
NudKeeps(kind) == [kind |-> kind, led |-> FALSE, bp |-> default_bp]
nud(kind) == [kind |-> kind, led |-> FALSE, bp |-> primary]

(* The calls of BuildTokensTable, in its order. *)
BuildTokensTable ==
  << led("<<", bitwise), led("&&", logical), led("<", relational),
     led("+", additive), led("-", additive), led("*", multiplicative),
     nud("x"), nud("-"), nud("!"), nud("["),
     led(".", member), led("[", member), led("(", call_bp), nud("(") >>

(* Each call overwrites the power its token had; a token without one has   *)
(* the zero of Go's map.                                                   *)
TokenKind == {"x", "!", "-", "<<", "&&", "<", "+", "*", ".", "[", "]", "(", ")", ",", ";", "EOF"}
bp_table ==
  [kind \in TokenKind |->
     LET calls == {i \in DOMAIN BuildTokensTable : BuildTokensTable[i].kind = kind}
     IN  IF calls = {} THEN default_bp
         ELSE BuildTokensTable[CHOOSE i \in calls : \A j \in calls : j <= i].bp]

Installed(kind, how) ==
  \E i \in DOMAIN BuildTokensTable :
    BuildTokensTable[i].kind = kind /\ BuildTokensTable[i].led = how
led_table == {k \in TokenKind : Installed(k, TRUE)}
nud_table == {k \in TokenKind : Installed(k, FALSE)}
-----------------------------------------------------------------------------
(* Parsing s from position p gives a tree and the position after it; the   *)
(* parser panics on the first mistake, which is the tree Error.            *)
Error == <<"error">>
Panic == [tree |-> Error, pos |-> 1]
Parsed(tree, pos) == [tree |-> tree, pos |-> pos]
At(s, p) == IF p > Len(s) THEN "EOF" ELSE s[p]

(* A tree made from an outcome, unless it is a panic. *)
Node(tree, r) == IF r.tree = Error THEN Panic ELSE Parsed(tree, r.pos)
expect(s, kind, r) == IF At(s, r.pos) = kind THEN Node(r.tree, [r EXCEPT !.pos = @ + 1]) ELSE Panic

RECURSIVE parseExpr(_, _, _), ledLoop(_, _, _), Separated(_, _, _, _)

parsePrefixExpr(s, p) ==
  LET r == parseExpr(s, p + 1, unary) IN Node(<<s[p], r.tree>>, r)

parseGroupingExpr(s, p) == expect(s, ")", parseExpr(s, p + 1, default_bp))

(* Expressions separated by commas, up to the closing token; a call may end *)
(* with a comma.                                                            *)
Separated(s, left, close, bp) ==
  LET r == parseExpr(s, left.pos, bp)
      more == Append(left.tree, r.tree)
      comma == At(s, r.pos) = ","
      ends == comma /\ close = ")" /\ At(s, r.pos + 1) = ")"
  IN  CASE r.tree = Error -> Panic
        [] r.tree # Error /\ At(s, r.pos) = close -> Parsed(more, r.pos + 1)
        [] r.tree # Error /\ ends -> Parsed(more, r.pos + 2)
        [] r.tree # Error /\ comma /\ ~ends -> Separated(s, Parsed(more, r.pos + 1), close, bp)
        [] OTHER -> Panic

(* A defect to test against: the right operand stops at its own level.     *)
BinaryFromLeft(s, left) ==
  LET r == parseExpr(s, left.pos + 1, bp_table[s[left.pos]])
  IN  Node(<<s[left.pos], left.tree, r.tree>>, r)
parseBinaryExpr(s, left) ==
  LET r == parseExpr(s, left.pos + 1, bp_table[s[left.pos]] - 1)
  IN  Node(<<s[left.pos], left.tree, r.tree>>, r)

(* The indices are parsed at the level of the expression around them. *)
parseMemberExpr(s, left, bp) ==
  IF s[left.pos] = "["
  THEN Separated(s, Parsed(<<"[", left.tree>>, left.pos + 1), "]", bp)
  ELSE IF At(s, left.pos + 1) = "x" THEN Parsed(<<".", left.tree>>, left.pos + 2) ELSE Panic

parseCallExpr(s, left) ==
  IF At(s, left.pos + 1) = ")" THEN Parsed(<<"(", left.tree>>, left.pos + 2)
  ELSE Separated(s, Parsed(<<"(", left.tree>>, left.pos + 1), ")", assignment)

ledLoop(s, left, bp) ==
  LET kind == At(s, left.pos)
      next == CASE kind \notin led_table -> Panic
                [] kind \in {".", "["} -> parseMemberExpr(s, left, bp)
                [] kind = "(" -> parseCallExpr(s, left)
                [] OTHER -> parseBinaryExpr(s, left)
  IN  IF left.tree = Error \/ bp_table[kind] <= bp THEN left ELSE ledLoop(s, next, bp)

parseExpr(s, p, bp) ==
  LET kind == At(s, p)
      left == CASE kind \notin nud_table \/ kind = "[" -> Panic
                [] kind = "x" -> Parsed(<<"x">>, p + 1)
                [] kind = "(" -> parseGroupingExpr(s, p)
                [] OTHER -> parsePrefixExpr(s, p)
  IN  ledLoop(s, left, bp)

(* A whole statement: the expression and the semicolon after it. *)
parseExpressionStmt(s) == expect(s, ";", parseExpr(s, 1, default_bp)).tree
-----------------------------------------------------------------------------
(* The texts looked at: operands, each perhaps behind a prefix, joined by  *)
(* binary operators.                                                       *)
Simple == {<<"x">>, <<"-", "x">>, <<"!", "x">>}
Plain == {<<"x">>, <<"-", "x">>}
Suffixed ==
  {<<"x">>, <<"x", ".", "x">>, <<"x", "[", "x", "]">>, <<"x", "[", "x", "+", "x", "]">>,
   <<"x", "(", "x", "*", "x", ")">>, <<"(", "x", "+", "x", ")">>, <<"!", "x", ".", "x">>,
   <<"x", "(", ")", ".", "x">>, <<"!", "x", "[", "x", "+", "x", "]">>}
Few == {<<"x", ".", "x">>, <<"x", "[", "x", "+", "x", "]">>, <<"x", "(", "x", "*", "x", ")">>}
Binaries == {"<<", "&&", "<", "+", "-", "*"}
Join2(S) == {l \o <<o>> \o r : l \in S, o \in Binaries, r \in S}
Join3(S) == {l \o <<o>> \o r : l \in Join2(S), o \in Binaries, r \in S}

(* The binary operators of s outside brackets, and the prefix in front. *)
Depth(s, i) ==
  Cardinality({j \in 1..i : s[j] \in {"(", "["}}) - Cardinality({j \in 1..i : s[j] \in {")", "]"}})
Operators(s) ==
  {i \in 2..Len(s) : Depth(s, i) = 0 /\ s[i] \in Binaries /\ s[i - 1] \in {"x", ")", "]"}}
Prefixed(s) == s[1] \in {"-", "!"}

(* What the parser's rules come to where there are no suffixes: the first  *)
(* of the loosest operators splits the text, minus being the tightest of   *)
(* all, and a prefix covers whatever is tighter than it.                   *)
RECURSIVE AsRead(_)
AsRead(s) ==
  LET loosest == {i \in Operators(s) : \A j \in Operators(s) : bp_table[s[i]] <= bp_table[s[j]]}
      root == CHOOSE i \in loosest : \A j \in loosest : i <= j
  IN  CASE Len(s) = 1 -> s
        [] Prefixed(s) /\ \A i \in loosest : bp_table[s[i]] > unary -> <<s[1], AsRead(Tail(s))>>
        [] OTHER -> <<s[root], AsRead(SubSeq(s, 1, root - 1)), AsRead(SubSeq(s, root + 1, Len(s)))>>

(* The usual reading: the last of the loosest operators splits the text,   *)
(* minus being like plus; a prefix covers an operand and its suffixes.     *)
Level(o) == IF o = "-" THEN additive ELSE bp_table[o]
Opening(s) == CHOOSE i \in 1..Len(s) : s[i] \in {"(", "["} /\ \A j \in i..Len(s) - 1 : Depth(s, j) > 0
RECURSIVE Usual(_)
Usual(s) ==
  LET loosest == {i \in Operators(s) : \A j \in Operators(s) : Level(s[i]) <= Level(s[j])}
      root == CHOOSE i \in loosest : \A j \in loosest : j <= i
      n == Len(s)
      inside == SubSeq(s, Opening(s) + 1, n - 1)
      before == SubSeq(s, 1, Opening(s) - 1)
  IN  CASE n = 1 -> s
        [] loosest # {} -> <<s[root], Usual(SubSeq(s, 1, root - 1)), Usual(SubSeq(s, root + 1, n))>>
        [] loosest = {} /\ Prefixed(s) -> <<s[1], Usual(Tail(s))>>
        [] loosest = {} /\ s[1] = "(" /\ Opening(s) = 1 -> Usual(inside)
        [] loosest = {} /\ ~Prefixed(s) /\ s[n - 1] = "." -> <<".", Usual(SubSeq(s, 1, n - 2))>>
        [] OTHER -> <<s[Opening(s)], Usual(before)>> \o (IF inside = <<>> THEN <<>> ELSE <<Usual(inside)>>)

(* Where the two part.  An index that holds a plus is cut short behind a   *)
(* prefix or an operator at least as tight as plus.  A binary minus, or    *)
(* two operators of one level, may be grouped otherwise.                   *)
IndexCut(s) ==
  \E k \in 3..Len(s) - 2 :
    /\ s[k] = "[" /\ s[k + 2] = "+"
    /\ s[k - 2] = "!" \/ (s[k - 2] \in Binaries /\ bp_table[s[k - 2]] > additive)
Regrouped(s) ==
  \/ \E i \in Operators(s) : s[i] = "-"
  \/ \E i, j \in Operators(s) : i # j /\ bp_table[s[i]] = bp_table[s[j]]
-----------------------------------------------------------------------------
(* Grouping, what parseExpr and the binding powers of BuildTokensTable     *)
(* make of a text without suffixes: no operator or operand is lost, equal  *)
(* operators group to the right, and since nud overwrites what led wrote   *)
(* for it, a binary minus binds tighter than anything else.                *)
GroupingIsAsRead ==
  \A s \in Join2(Simple) \cup Join3(Simple) \cup
           {l \o <<o>> \o r : l \in Join2(Plain), o \in Binaries, r \in Join2({<<"x">>})} :
    parseExpressionStmt(Append(s, ";")) = AsRead(s)

(* With members, indices, calls and parentheses too, where there is no     *)
(* minus and no repeated level to regroup, an expression is read in the    *)
(* usual way, unless parseMemberExpr cuts an index at the level of the     *)
(* expression around it; those, and no others, are refused.                *)
UsualUnlessCut ==
  \A s \in Suffixed \cup Join2(Suffixed) \cup Join3(Few) :
    Regrouped(s) \/ parseExpressionStmt(Append(s, ";")) = IF IndexCut(s) THEN Error ELSE Usual(s)

ReadingExact == GroupingIsAsRead /\ UsualUnlessCut
=============================================================================
