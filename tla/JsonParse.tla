------------------------------ MODULE JsonParse -----------------------------
(***************************************************************************)
(* cJSON_ParseWithLengthOpts.  frames are the running calls of parse_array *)
(* and parse_object: the children built so far, the name of the one in     *)
(* work, and how many blocks of memory hang on the list of children.       *)
(* blocks counts all blocks that are allocated.                            *)
(***************************************************************************)
EXTENDS JsonValue

CONSTANTS
  CJSON_NESTING_LIMIT,
  Texts   \* the pairs of a text and a length that are parsed

ASSUME LimitAssumption == CJSON_NESTING_LIMIT \in Nat
\* A literal is one character only where it does not follow a backslash.
ASSUME TextsAssumption ==
  \A t \in Texts :
    /\ t.text \in Seq(Character) /\ t.length \in 0..Len(t.text)
    /\ \A i \in 2..Len(t.text) : t.text[i - 1] = "b" => t.text[i] # "n"

VARIABLES
  text, length, offset, depth,
  require,   \* require_null_terminated
  frames,
  value,     \* the value parsed last, and the blocks that hang on its item
  out,       \* the size of the last string buffer and what was written to it
  blocks,
  oom,       \* whether an allocation has failed
  end,       \* return_parse_end, and the error position
  pc
parseVars == <<text, length, offset, depth, require, frames, value, out, blocks,
               oom, end, pc>>

Nothing == [node |-> Leaf("invalid", <<>>), blocks |-> 0]

\* The character at an offset, which counts from 0.
At(o) == text[o + 1]
CanAccess(o) == o < length
Is(o, c) == CanAccess(o) /\ At(o) = c

\* The first offset from o on, up to the length, with no character of S.
Passing(S, o) ==
  Min({i \in o..length : i < length => At(i) \notin S})

\* Slip: the step back from the end of the text is missing.
skip_to_length(o) == IF CanAccess(o) THEN Passing({"w", Nul}, o) ELSE o

\* Also the null character is skipped, but the offset stays in the buffer.
buffer_skip_whitespace(o) ==
  IF ~CanAccess(o) THEN o
  ELSE LET i == Passing({"w", Nul}, o) IN IF i = length THEN i - 1 ELSE i

\* Five bytes have to be there: the mark and two more.
skip_utf8_bom ==
  IF Is(0, "B") /\ (CanAccess(2) \/ Is(1, "n") \/ Is(1, "B")) THEN 1 ELSE 0

-----------------------------------------------------------------------------
Digits == {"1"}

\* What strtod reads at o ends here: a sign and digits, or nothing.
NumberEnd(o) ==
  LET first == IF At(o) = "-" THEN o + 1 ELSE o
      e == Passing(Digits, first)
  IN IF e = first THEN o ELSE e

\* The backslashes from o on that begin an escape: those not escaped
\* themselves.
Escapes(o) ==
  LET slashes == {i \in o..length - 1 : At(i) = "b"}
  IN CHOOSE S \in SUBSET slashes : \A i \in slashes : i \in S <=> i - 1 \notin S

\* The closing quotation mark of a string whose characters begin at o.
StringEnd(o) ==
  Min({i \in o..length :
         i < length => At(i) = "q" /\ i - 1 \notin Escapes(o)})

\* The characters from o up to e, with the escapes replaced.
Contents(o, e) ==
  FlattenSeq([k \in 1..e - o |->
    LET i == o + k - 1 IN
    IF i \in Escapes(o) THEN <<>>
    ELSE <<IF i - 1 \in Escapes(o) THEN Unescape[At(i)] ELSE At(i)>>])

-----------------------------------------------------------------------------
ParseInit ==
  /\ \E t \in Texts : text = t.text /\ length = t.length
  /\ require \in BOOLEAN
  /\ offset = 0 /\ depth = 0 /\ frames = <<>> /\ value = Nothing
  /\ out = [size |-> 1, used |-> 1] /\ blocks = 0 /\ oom = FALSE
  /\ end = 0 /\ pc = "start"

Goto(o, next) == offset' = o /\ pc' = next
Fail(o) == Goto(o, "fail")
NoMemory == oom' = TRUE
Same == UNCHANGED <<text, length, require>>

Top == Last(frames)
SetTop(f) == frames' = [frames EXCEPT ![Len(frames)] = f]
Pop == frames' = Front(frames)

\* The item that is returned.
ParseStart ==
  /\ pc = "start" /\ Same
  /\ UNCHANGED <<depth, frames, value, out, end>>
  /\ \/ length = 0 /\ pc' = "failed" /\ UNCHANGED <<offset, blocks, oom>>
     \/ length > 0 /\ NoMemory /\ pc' = "failed" /\ UNCHANGED <<offset, blocks>>
     \/ /\ length > 0
        /\ blocks' = blocks + 1
        /\ Goto(buffer_skip_whitespace(skip_utf8_bom), "value")
        /\ UNCHANGED oom

\* Slip: room for the null character is not counted.
MeasuredShort(o, e) == e - o - Cardinality(Escapes(o) \cap o..e - 1)

\* The size of the block for the characters between o and e, from the opening
\* quotation mark on.
Measured(o, e) == e - (o - 1) - Cardinality(Escapes(o) \cap o..e - 1) + 1

\* The characters of a string at the offset; the offset is left where the
\* reading ended, which is the position of the error if it fails.
parse_string(next) ==
  LET o == offset + 1
      e == StringEnd(o)
      bad == {i \in Escapes(o) \cap o..e - 1 : At(i + 1) \notin DOMAIN Unescape}
  IN IF At(offset) # "q" \/ e = length
       THEN Fail(o) /\ UNCHANGED <<value, out, blocks, oom>>
       ELSE \/ Fail(o) /\ NoMemory /\ UNCHANGED <<value, out, blocks>>
            \/ /\ bad # {}
               /\ Fail(Min(bad))
               /\ UNCHANGED <<value, out, blocks, oom>>
            \/ /\ bad = {}
               /\ Goto(e + 1, next)
               /\ value' = [node |-> Leaf("string", CString(Contents(o, e))),
                            blocks |-> 1]
               /\ out' = [size |-> Measured(o, e), used |-> Len(Contents(o, e)) + 1]
               /\ blocks' = blocks + 1
               /\ UNCHANGED oom

parse_number ==
  LET e == NumberEnd(offset) IN
  /\ UNCHANGED <<out, blocks>>
  /\ \/ Fail(offset) /\ NoMemory /\ UNCHANGED value
     \/ e = offset /\ Fail(offset) /\ UNCHANGED <<value, oom>>
     \/ /\ e # offset
        /\ Goto(e, "after")
        /\ value' = [node |-> Leaf("number", SubSeq(text, offset + 1, e)), blocks |-> 0]
        /\ UNCHANGED oom

\* parse_value of what is no container.
ParseScalar ==
  /\ pc = "value" /\ Same
  /\ UNCHANGED <<depth, frames, end>>
  /\ IF Is(offset, "n")
       THEN /\ Goto(offset + 1, "after")
            /\ value' = [node |-> Leaf("literal", <<>>), blocks |-> 0]
            /\ UNCHANGED <<out, blocks, oom>>
     ELSE IF Is(offset, "q") THEN parse_string("after")
     ELSE IF CanAccess(offset) /\ At(offset) \in Digits \cup {"-"} THEN parse_number
     ELSE /\ ~Is(offset, "[") /\ ~Is(offset, "{")
          /\ Fail(offset)
          /\ UNCHANGED <<value, out, blocks, oom>>

Closer == [c \in {"[", "{"} |-> IF c = "[" THEN "]" ELSE "}"]
Kind == [c \in {"]", "}"} |-> IF c = "]" THEN "array" ELSE "object"]

\* Slip: an empty container gives a level of depth back that it never took.
ParseOpenUnbalanced ==
  /\ pc = "value" /\ Same
  /\ Is(offset, "[") \/ Is(offset, "{")
  /\ UNCHANGED <<out, blocks, oom, end>>
  /\ LET closer == Closer[At(offset)]
         o == buffer_skip_whitespace(offset + 1)
     IN IF depth >= CJSON_NESTING_LIMIT
          THEN Fail(offset) /\ UNCHANGED <<depth, frames, value>>
        ELSE IF Is(o, closer)
          THEN /\ Goto(o + 1, "after")
               /\ value' = [node |-> Node(Kind[closer], <<>>, <<>>), blocks |-> 0]
               /\ depth' = depth - 1 /\ UNCHANGED frames
        ELSE /\ depth' = depth + 1
             /\ Goto(o - 1, IF CanAccess(o) THEN "element" ELSE "fail")
             /\ frames' = Append(frames, [closer |-> closer, name |-> <<>>,
                                          kids |-> <<>>, blocks |-> 0])
             /\ UNCHANGED value

\* parse_array and parse_object up to their loop.
ParseOpen ==
  /\ pc = "value" /\ Same
  /\ Is(offset, "[") \/ Is(offset, "{")
  /\ UNCHANGED <<out, blocks, oom, end>>
  /\ LET closer == Closer[At(offset)]
         o == buffer_skip_whitespace(offset + 1)
     IN IF depth >= CJSON_NESTING_LIMIT
          THEN Fail(offset) /\ UNCHANGED <<depth, frames, value>>
        ELSE IF Is(o, closer)
          THEN /\ Goto(o + 1, "after")
               /\ value' = [node |-> Node(Kind[closer], <<>>, <<>>), blocks |-> 0]
               /\ UNCHANGED <<depth, frames>>
        ELSE /\ depth' = depth + 1
             /\ Goto(o - 1, IF CanAccess(o) THEN "element" ELSE "fail")
             /\ frames' = Append(frames, [closer |-> closer, name |-> <<>>,
                                          kids |-> <<>>, blocks |-> 0])
             /\ UNCHANGED value

\* The next child is allocated and put into the list.
ParseElement ==
  /\ pc = "element" /\ Same
  /\ UNCHANGED <<depth, value, out, end>>
  /\ \/ Fail(offset) /\ NoMemory /\ UNCHANGED <<frames, blocks>>
     \/ /\ SetTop([Top EXCEPT !.blocks = @ + 1])
        /\ blocks' = blocks + 1
        /\ IF Top.closer = "}" /\ ~CanAccess(offset + 1) THEN Fail(offset)
           ELSE Goto(buffer_skip_whitespace(offset + 1),
                     IF Top.closer = "}" THEN "name" ELSE "value")
        /\ UNCHANGED oom

ParseName ==
  /\ pc = "name" /\ Same
  /\ parse_string("colon")
  /\ UNCHANGED <<depth, frames, end>>

\* Slip: the colon is passed over if it is there, but need not be.
ParseColonOrNot ==
  /\ pc = "colon" /\ Same
  /\ SetTop([Top EXCEPT !.name = value.node.chars, !.blocks = @ + value.blocks])
  /\ LET o == buffer_skip_whitespace(offset)
     IN Goto(IF Is(o, ":") THEN buffer_skip_whitespace(o + 1) ELSE o, "value")
  /\ UNCHANGED <<depth, value, out, blocks, oom, end>>

\* The string read becomes the name of the child, and its value follows.
ParseColon ==
  /\ pc = "colon" /\ Same
  /\ SetTop([Top EXCEPT !.name = value.node.chars, !.blocks = @ + value.blocks])
  /\ LET o == buffer_skip_whitespace(offset)
     IN IF Is(o, ":") THEN Goto(buffer_skip_whitespace(o + 1), "value") ELSE Fail(o)
  /\ UNCHANGED <<depth, value, out, blocks, oom, end>>

\* Slip: a container that is complete keeps its level of depth.
ParseAfterKeepingDepth ==
  /\ pc = "after" /\ frames # <<>> /\ Same
  /\ LET o == buffer_skip_whitespace(offset)
         kids == Append(Top.kids, [name |-> Top.name, node |-> value.node])
         hanging == Top.blocks + value.blocks
     IN IF Is(o, Top.closer)
          THEN /\ Goto(o + 1, "after")
               /\ value' = [node |-> Node(Kind[Top.closer], <<>>, kids),
                            blocks |-> hanging]
               /\ Pop
          ELSE /\ Goto(o, IF Is(o, ",") THEN "element" ELSE "fail")
               /\ SetTop([Top EXCEPT !.kids = kids, !.blocks = hanging])
               /\ UNCHANGED value
  /\ UNCHANGED <<depth, out, blocks, oom, end>>

\* A child is complete: the next one follows, or the container is complete.
ParseAfter ==
  /\ pc = "after" /\ frames # <<>> /\ Same
  /\ LET o == buffer_skip_whitespace(offset)
         kids == Append(Top.kids, [name |-> Top.name, node |-> value.node])
         hanging == Top.blocks + value.blocks
     IN IF Is(o, Top.closer)
          THEN /\ Goto(o + 1, "after")
               /\ value' = [node |-> Node(Kind[Top.closer], <<>>, kids),
                            blocks |-> hanging]
               /\ depth' = depth - 1
               /\ Pop
          ELSE /\ Goto(o, IF Is(o, ",") THEN "element" ELSE "fail")
               /\ SetTop([Top EXCEPT !.kids = kids, !.blocks = hanging])
               /\ UNCHANGED <<depth, value>>
  /\ UNCHANGED <<out, blocks, oom, end>>

\* The value that was asked for is complete.
ParseEnd ==
  /\ pc = "after" /\ frames = <<>> /\ Same
  /\ LET o == IF require THEN buffer_skip_whitespace(offset) ELSE offset
     IN IF require /\ ~Is(o, Nul)
          THEN /\ Fail(o)
               /\ blocks' = blocks - value.blocks
               /\ UNCHANGED end
          ELSE Goto(o, "parsed") /\ end' = o /\ UNCHANGED blocks
  /\ UNCHANGED <<depth, frames, value, out, oom>>

\* Slip: only the outermost call deletes its list.
ParseUnwindLeaking ==
  /\ pc = "fail" /\ frames # <<>> /\ Same
  /\ blocks' = IF Len(frames) = 1 THEN blocks - Top.blocks ELSE blocks
  /\ Pop
  /\ UNCHANGED <<offset, depth, value, out, oom, end, pc>>

\* A call that fails deletes its list, and so does its caller.
ParseUnwind ==
  /\ pc = "fail" /\ frames # <<>> /\ Same
  /\ blocks' = blocks - Top.blocks
  /\ Pop
  /\ UNCHANGED <<offset, depth, value, out, oom, end, pc>>

ParseFail ==
  /\ pc = "fail" /\ frames = <<>> /\ Same
  /\ blocks' = blocks - 1
  /\ end' = IF offset < length THEN offset ELSE length - 1
  /\ pc' = "failed"
  /\ UNCHANGED <<offset, depth, frames, value, out, oom>>

ParseNext ==
  \/ ParseStart \/ ParseScalar \/ ParseOpen \/ ParseElement \/ ParseName
  \/ ParseColon \/ ParseAfter \/ ParseEnd \/ ParseUnwind \/ ParseFail
=============================================================================
