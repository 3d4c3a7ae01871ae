----------------------------- MODULE JsonLayout -----------------------------
(***************************************************************************)
(* What parser and printer are measured by: the values that a text can     *)
(* stand for, the text of each, and a text without its blanks.             *)
(***************************************************************************)
EXTENDS JsonValue

\* What C can hold in a string.
Word == Seq(Character \ {Nul})

Scalars ==
  {v \in [type : {"literal", "number", "string"}, chars : Word, kids : {<<>>}] :
     /\ v.type = "literal" => v.chars = <<>>
     /\ v.type = "number" => Numeral(v.chars)}

\* Arrays and objects of values of V.
Containers(V) ==
  {v \in [type : {"array", "object"}, chars : {<<>>},
          kids : Seq([name : Word, node : V])] :
     v.type = "array" => \A i \in DOMAIN v.kids : v.kids[i].name = <<>>}

\* The values that nest no deeper than n.
Trees[n \in Nat] ==
  IF n = 0 THEN Scalars ELSE Scalars \cup Containers(Trees[n - 1])

-----------------------------------------------------------------------------
Escaped(s) ==
  FlattenSeq([i \in DOMAIN s |->
    IF s[i] = "w" THEN <<"b", "e">>
    ELSE IF s[i] \in {"q", "b"} THEN <<"b", s[i]>> ELSE <<s[i]>>])
Quoted(s) == <<"q">> \o Escaped(s) \o <<"q">>

Space(f, n) == IF f THEN [i \in 1..n |-> "w"] ELSE <<>>

ScalarText(v) ==
  IF v.type = "literal" THEN <<"n">>
  ELSE IF v.type = "number" THEN v.chars ELSE Quoted(v.chars)

\* The elements of an array, and the members of an object at depth d, if f
\* says whether to format and T is the text of each of them.
ElementsText(kids, f, T) ==
  FlattenSeq([i \in DOMAIN kids |->
    T[kids[i].node]
      \o (IF i < Len(kids) THEN <<",">> \o Space(f, 1) ELSE <<>>)])

MembersText(kids, f, d, T) ==
  FlattenSeq([i \in DOMAIN kids |->
    Space(f, d) \o Quoted(kids[i].name) \o <<":">> \o Space(f, 1)
      \o T[kids[i].node]
      \o (IF i < Len(kids) THEN <<",">> ELSE <<>>) \o Space(f, 1)])

ContainerText(v, f, d, T) ==
  IF v.type = "array" THEN <<"[">> \o ElementsText(v.kids, f, T) \o <<"]">>
  ELSE <<"{">> \o Space(f, 1) \o MembersText(v.kids, f, d + 1, T)
         \o Space(f, d) \o <<"}">>

\* The text of a value at depth d, as the interface describes it.
Layouts[n \in Nat] ==
  [f \in BOOLEAN |-> [d \in Nat |-> [v \in Trees[n] |->
     IF v \in Scalars THEN ScalarText(v)
     ELSE ContainerText(v, f, d, Layouts[n - 1][f][d + 1])]]]

\* What is left of a value that is printed and read back: a number is the one
\* that its text stands for.
RecoveredScalar(v) ==
  IF v.type # "number" THEN v
  ELSE IF print_number(v.chars) = <<"n">> THEN Leaf("literal", <<>>)
  ELSE Leaf("number", print_number(v.chars))

RecoveredContainer(v, R) ==
  Node(v.type, <<>>, [i \in DOMAIN v.kids |->
    [name |-> v.kids[i].name, node |-> R[v.kids[i].node]]])

Recoveries[n \in Nat] ==
  [v \in Trees[n] |->
     IF v \in Scalars THEN RecoveredScalar(v)
     ELSE RecoveredContainer(v, Recoveries[n - 1])]

-----------------------------------------------------------------------------
\* A text is read up to some place: outside of a string, inside, behind a
\* backslash, or inside behind a null character, where C no longer looks; out
\* is what was read, without blanks and as the printer would escape it.
Beginning == [where |-> "outside", out |-> <<>>]
Past(r, c) ==
  CASE r.where = "outside" ->
         IF c \in {"w", Nul} THEN r
         ELSE [where |-> IF c = "q" THEN "inside" ELSE "outside",
               out |-> Append(r.out, c)]
    [] r.where \in {"inside", "hidden"} /\ c = "q" ->
         [where |-> "outside", out |-> Append(r.out, c)]
    [] r.where = "inside" /\ c = "b" -> [r EXCEPT !.where = "escape"]
    [] r.where = "inside" /\ c = Nul -> [r EXCEPT !.where = "hidden"]
    [] r.where = "inside" /\ c \notin {"q", "b", Nul} ->
         [r EXCEPT !.out = @ \o Escaped(<<c>>)]
    [] r.where = "escape" -> [where |-> "inside", out |-> r.out \o <<"b", c>>]
    [] r.where = "hidden" /\ c = "b" -> [r EXCEPT !.where = "skip"]
    [] r.where = "hidden" /\ c \notin {"q", "b"} -> r
    [] r.where = "skip" -> [r EXCEPT !.where = "hidden"]

Reading(s) ==
  LET read[i \in 0..Len(s)] == IF i = 0 THEN Beginning ELSE Past(read[i - 1], s[i])
  IN read[Len(s)]
=============================================================================
