------------------------------ MODULE JsonValue -----------------------------
(***************************************************************************)
(* The values and the characters that the parser and the printer of        *)
(* lib/cjson share.  A character stands for a class: a literal is the one  *)
(* character "n", a digit is "1", "-" the sign, "w" a blank, which inside  *)
(* of a string is a newline, "q" the quotation mark, "b" the backslash,    *)
(* "e" the letter that escapes a newline, "a" any other letter, "B" the    *)
(* three bytes of the byte order mark and "0" the null character.          *)
(***************************************************************************)
EXTENDS Integers, SequencesExt

CONSTANT Rendered   \* per numeral that is not printed as it was read its text

Character == {"[", "]", "{", "}", ",", ":", "q", "b", "e", "a", "1", "-", "n", "w", "0", "B"}
Nul == "0"

\* What the printer escapes, and the letters that the parser unescapes.
Escape == [c \in {"q", "b", "w"} |-> IF c = "w" THEN "e" ELSE c]
Unescape == [c \in {"q", "b", "e"} |-> IF c = "e" THEN "w" ELSE c]

\* An item with all that hangs on it; kids are records of a name and a node.
Node(type, chars, kids) == [type |-> type, chars |-> chars, kids |-> kids]
Leaf(type, chars) == Node(type, chars, <<>>)

\* A sign and digits; the digits stand for the point and the exponent as well.
Numeral(s) ==
  /\ s \notin {<<>>, <<"-">>}
  /\ \A i \in DOMAIN s : s[i] = "1" \/ (i = 1 /\ s[i] = "-")

\* A double is printed as an integer, with 15 digits or with 17, so that its
\* text may be shorter or longer than the one it was read from and stand for
\* a number next to it; one that strtod has made infinite becomes a null.
ASSUME RenderedAssumption ==
  \A s \in DOMAIN Rendered :
    /\ Numeral(s) /\ Rendered[s] \in Seq({"-", "1", "n"})
    /\ Rendered[s] = <<"n">> \/ Numeral(Rendered[s])

\* What print_number writes; the 26 characters of its buffer are enough.
print_number(s) == IF s \in DOMAIN Rendered THEN Rendered[s] ELSE s

\* What C sees of the characters s.
CString(s) ==
  SubSeq(s, 1, Min({n \in 0..Len(s) : n < Len(s) => s[n + 1] = Nul}))
=============================================================================
