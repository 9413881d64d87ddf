------------------------------- MODULE Strings -------------------------------
(***************************************************************************)
(* The strings of the runtime (runtime/src/strings.c).  A string is a size *)
(* and a pointer to a buffer; a byte array made from a string points into  *)
(* the buffer of the string.  Operations that extend a string release its  *)
(* buffer.  Beside the buffers the module keeps what the program expects:  *)
(* the text of every string.                                               *)
(***************************************************************************)
EXTENDS Integers, Sequences

CONSTANTS Str,              \* the string structs of a task
          Texts,            \* the texts a program starts from
          MaxLen,           \* bound: the length of a string
          Buffer,           \* the buffers the allocator can hand out
          StructBytes,      \* sizeof(__public__array_t)
          MinPayload,       \* MIN_PAYLOAD_SIZE
          Nothing           \* NULL

(* The bytes of a text. *)
Chars == {"a", "b"}

ASSUME StringsAssumption ==
  Texts \subseteq Seq(Chars) /\ Buffer \subseteq Nat /\ Nothing \notin Buffer /\ MaxLen \in Nat

VARIABLES bytes,      \* what each buffer holds
          str,        \* [data, size] of each string, or NULL
          text,       \* expected: the text of each string
          formatted,  \* the strings strings_format made and nobody extended
          view,       \* the array of get_bytes: [data, length, text, buffer]
          fault       \* the task was killed, or has used memory that is not its own

strVars == <<bytes, str, text, formatted, view>>
textVars == <<strVars, fault>>

NUL == "nul"
Junk == "junk"     \* what nobody wrote

TextInit ==
  /\ bytes = [b \in Buffer |-> <<>>]
  /\ str = [x \in Str |-> Nothing] /\ text = [x \in Str |-> <<>>]
  /\ formatted = {} /\ view = Nothing /\ fault = FALSE
-----------------------------------------------------------------------------
(* Strings. *)
Alive(x) == ~fault /\ str[x] # Nothing
Bytes(b, n) == IF b = Nothing THEN <<>> ELSE SubSeq(bytes[b], 1, n)
Read(x) == Bytes(str[x].data, str[x].size)

(* The buffers the task points to.  What the others hold does not matter. *)
Pointed == {str[x].data : x \in {y \in Str : str[y] # Nothing}}
           \cup (IF view = Nothing THEN {} ELSE {view.data})
Tidy(bs) == bytes' = [b \in Buffer |-> IF b \in Pointed' THEN bs[b] ELSE <<>>]

(* The string x gets a free buffer that holds s and the bytes behind it. *)
Assign(x, s, behind) ==
  \E b \in Buffer \ Pointed :
    /\ \A c \in Buffer \ Pointed : b <= c
    /\ str' = [str EXCEPT ![x] = [data |-> b, size |-> Len(s)]]
    /\ Tidy([bytes EXCEPT ![b] = s \o behind])

Expect(x, s) == text' = [text EXCEPT ![x] = s]

alloc_from_raw(x, s) ==
  /\ ~fault /\ UNCHANGED <<view, fault>>
  /\ Assign(x, s, <<NUL>>) /\ Expect(x, s)
  /\ formatted' = formatted \ {x}

(* The struct of the array is allocated with the size of the text. *)
get_bytes(x) ==
  /\ Alive(x)
  /\ view' = [data |-> str[x].data, length |-> str[x].size, text |-> text[x], buffer |-> "valid"]
  /\ fault' = (StructBytes > str[x].size /\ StructBytes > MinPayload)
  /\ UNCHANGED <<str, text, formatted>> /\ Tidy(bytes)

(* What a program reads through a stale array is no longer its own. *)
alloc_from_arr(x) ==
  /\ ~fault /\ view # Nothing
  /\ IF view.buffer = "released"
     THEN fault' = TRUE /\ UNCHANGED strVars
     ELSE /\ UNCHANGED <<view, fault>>
          /\ Assign(x, Bytes(view.data, view.length), <<NUL>>) /\ Expect(x, view.text)
          /\ formatted' = formatted \ {x}

(* strings_format leaves no NUL behind its output, and no buffer at all    *)
(* when the output is empty.                                               *)
format(x, s) ==
  /\ ~fault /\ UNCHANGED <<view, fault>>
  /\ IF s = <<>> THEN str' = [str EXCEPT ![x] = [data |-> Nothing, size |-> 0]] /\ Tidy(bytes)
     ELSE Assign(x, s, <<Junk>>)
  /\ Expect(x, s) /\ formatted' = formatted \cup {x}

(* release(__arena__, str->data): an array that points there is stale. *)
Dangling == [data |-> Nothing, length |-> 0, text |-> <<>>, buffer |-> "released"]
Release(b) ==
  view' = IF b # Nothing /\ view # Nothing /\ view.data = b THEN Dangling ELSE view

(* append copies one byte more than the text from the old buffer and then  *)
(* overwrites it; without a buffer the copy faults.                        *)
append(x, c) ==
  /\ Alive(x) /\ str[x].size < MaxLen
  /\ IF str[x].data = Nothing
     THEN fault' = TRUE /\ UNCHANGED strVars
     ELSE /\ Release(str[x].data) /\ UNCHANGED fault
          /\ Assign(x, Append(Read(x), c), <<NUL>>) /\ Expect(x, Append(text[x], c))
          /\ formatted' = formatted \ {x}

(* A defect to test against: the last byte of the second text is lost to   *)
(* the NUL.                                                                *)
JoinShort(x, y) ==
  /\ Alive(x) /\ Alive(y) /\ str[x].size + str[y].size <= MaxLen
  /\ Release(str[x].data) /\ UNCHANGED fault
  /\ Assign(x, Read(x) \o SubSeq(Read(y), 1, str[y].size - 1), <<NUL>>)
  /\ Expect(x, text[x] \o text[y]) /\ formatted' = formatted \ {x}

(* join: x may be joined with itself. *)
join(x, y) ==
  /\ Alive(x) /\ Alive(y) /\ str[x].size + str[y].size <= MaxLen
  /\ Release(str[x].data) /\ UNCHANGED fault
  /\ Assign(x, Read(x) \o Read(y), <<NUL>>) /\ Expect(x, text[x] \o text[y])
  /\ formatted' = formatted \ {x}

(* substring checks each end against the string, and not one against the   *)
(* other: a negative length is a huge one for memcpy.                      *)
substring(x, y, start, end) ==
  /\ Alive(x)
  /\ IF start < 0 \/ end > str[x].size
     THEN /\ str' = [str EXCEPT ![y] = Nothing] /\ UNCHANGED <<view, fault>>
          /\ Tidy(bytes) /\ Expect(y, <<>>) /\ formatted' = formatted \ {y}
     ELSE IF end < start
     THEN fault' = TRUE /\ UNCHANGED strVars
     ELSE /\ UNCHANGED <<view, fault>>
          /\ Assign(y, SubSeq(Read(x), start + 1, end), <<NUL>>)
          /\ Expect(y, SubSeq(text[x], start + 1, end)) /\ formatted' = formatted \ {y}

StringStep(x) ==
  \/ \E s \in Texts : alloc_from_raw(x, s) \/ format(x, s)
  \/ get_bytes(x) \/ alloc_from_arr(x)
  \/ append(x, "b")
  \/ \E y \in Str : join(x, y) \/ \E i, j \in -1..MaxLen : substring(x, y, i, j)

TextNext == \E x \in Str : StringStep(x)

TextSpec == TextInit /\ [][TextNext]_textVars
-----------------------------------------------------------------------------
(* strings_compare: the first difference, then the sizes. *)
Code(c) == IF c = "a" THEN 1 ELSE 2
strings_compare(s, t) ==
  LET d == {i \in 1..Len(s) : i <= Len(t) /\ s[i] # t[i]}
  IN  IF d = {} THEN Len(s) - Len(t)
      ELSE LET i == CHOOSE j \in d : \A k \in d : j <= k IN Code(s[i]) - Code(t[i])
-----------------------------------------------------------------------------
(* After any sequence of calls every string has the text the program       *)
(* expects and a buffer of its own, and reads as that text in C too: a NUL *)
(* follows it, unless strings_format made it and nothing was appended      *)
(* since (strings.c:287).  An array from get_bytes shows the bytes of its  *)
(* string until the string is extended, which leaves the array dangling    *)
(* (strings.c:346), and strings_compare tells strings apart by their text. *)
StringsAgree ==
  fault \/
  /\ \A x, y \in {z \in Str : str[z] # Nothing} :
       /\ Read(x) = text[x] /\ str[x].size = Len(text[x])
       /\ x \in formatted \/ bytes[str[x].data][str[x].size + 1] = NUL
       /\ x # y => str[x].data # str[y].data \/ str[x].data = Nothing
       /\ (strings_compare(Read(x), Read(y)) = 0) <=> (text[x] = text[y])
       /\ (strings_compare(Read(x), Read(y)) > 0) <=> (strings_compare(Read(y), Read(x)) < 0)
  /\ view # Nothing /\ view.buffer = "valid" => Bytes(view.data, view.length) = view.text
=============================================================================
