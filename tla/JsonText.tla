------------------------------ MODULE JsonText -----------------------------
(***************************************************************************)
(* A text is parsed, the value is printed, and the output is parsed again, *)
(* as cJSON_Parse does.  first is the value of the first parse.            *)
(***************************************************************************)
EXTENDS JsonParse, JsonPrint, JsonLayout

VARIABLES first, round
vars == <<parseVars, printVars, first, round>>

Init ==
  /\ ParseInit /\ PrintInit
  /\ first = Nothing.node /\ round = 1

ParseText == ParseNext /\ UNCHANGED <<printVars, first, round>>

\* What has been parsed without a failing allocation is printed.
PrintValue ==
  /\ round = 1 /\ pc = "parsed" /\ ~oom
  /\ PrintStart(value.node) \/ PrintNext
  /\ first' = value.node
  /\ UNCHANGED <<parseVars, round>>

\* The value is deleted, and the output is given to cJSON_Parse.
ParseAgain ==
  /\ round = 1 /\ printing = "printed"
  /\ round' = 2
  /\ text' = Append(CString(data), Nul)
  /\ length' = Len(text')
  /\ require' = FALSE
  /\ offset' = 0 /\ depth' = 0 /\ frames' = <<>> /\ value' = Nothing
  /\ out' = [size |-> 1, used |-> 1] /\ blocks' = 0 /\ end' = 0 /\ pc' = "start"
  /\ UNCHANGED <<printVars, first, oom>>

Next == ParseText \/ PrintValue \/ ParseAgain
Spec == Init /\ [][Next]_vars /\ WF_vars(Next)
-----------------------------------------------------------------------------
Done == pc \in {"parsed", "failed"}

TypeOK ==
  /\ length \in 0..Len(text) /\ offset \in Nat /\ depth \in Nat
  /\ require \in BOOLEAN /\ oom \in BOOLEAN /\ end \in Int
  /\ blocks \in Int /\ buffers \in Int /\ size \in Nat /\ at \in Nat
  /\ round \in {1, 2} /\ mode \in Mode
  /\ buffer \in {"block", "null"}
  /\ printing \in {"idle", "busy", "failing", "printed", "refused"}

\* The parser never leaves the text: the offset stays inside or right behind
\* it, also where it is moved back, the places that read a character without
\* asking have one, and the position reported at the end is in the text.
ReadsInside ==
  /\ offset \in 0..length
  /\ pc = "name" => offset < length
  /\ Done /\ length > 0 => end \in 0..length - 1 \/ (pc = "parsed" /\ end = length)

\* The nesting depth that is compared with the limit is the number of calls
\* of parse_array and parse_object that are running.
DepthIsNesting ==
  pc \notin {"fail", "failed"} => depth = Len(frames) /\ depth <= CJSON_NESTING_LIMIT

\* What parse_string writes fits into what it has measured beforehand.
StringsFit == out.used <= out.size

\* When a parse ends, the memory that is allocated is the tree it answers,
\* and nothing at all when it answers NULL, wherever it failed.
ParseFreesAll ==
  /\ pc = "failed" => blocks = 0
  /\ pc = "parsed" => blocks = 1 + value.blocks

\* Whatever has been written fits into the buffer, which is never larger than
\* INT_MAX, and the offset is inside of it.
BufferHolds ==
  printing \in {"busy", "printed"} =>
    /\ Len(data) <= size
    /\ at < size \/ (at = 0 /\ data = <<>>)
    /\ size <= INT_MAX \/ \E m \in Modes : size <= m.length

\* Whenever update_offset measures, the characters behind the offset end with
\* a null character that has been written.
TerminatedAtUpdate ==
  Doing({"update"}) => \E i \in at + 1..Len(data) : data[i] = Nul

\* A print leaves nothing allocated but its answer, and frees nothing twice,
\* whether ensure has freed the buffer or left that to its callers.
PrintFreesAll ==
  /\ printing = "refused" => buffers = 0
  /\ printing = "printed" => buffers = IF mode.noalloc THEN 0 ELSE 1

Recovered(v) == Recoveries[CJSON_NESTING_LIMIT][v]

\* The output is parsed back, if there is memory for it, to the value it was
\* printed from, but for the numbers: each comes back as what its own text
\* stands for, and as a null if it was too large for a double.
RoundTrip ==
  round = 2 /\ Done => \/ pc = "parsed" /\ value.node = Recovered(first)
                       \/ pc = "failed" /\ oom

Layout(v, f) == Layouts[CJSON_NESTING_LIMIT][f][0][v]

\* The buffer ends up with the whole layout of what is left of the value, and
\* nothing else, however often it had to grow and wherever the offset was
\* moved late.
PrintedIsLayout ==
  printing = "printed" => CString(data) = Layout(Recovered(first), mode.format)

\* A buffer of the caller is large enough if it has room for the text, its
\* null character and one more: cJSON.h:197-198 asks for five more.
PreallocatedSuffices ==
  printing \in {"failing", "refused"} /\ mode.noalloc
    => mode.length <= Len(Layout(Recovered(first), mode.format)) + 1

\* What is parsed is what the text says: the text that was read is, but for
\* blanks, the layout of the value, so no comma, colon, quotation mark or
\* bracket was missing and none was passed over.
ParsedIsText ==
  pc = "parsed"
    => Reading(SubSeq(text, IF text[1] = "B" THEN 2 ELSE 1, end))
         = [where |-> "outside", out |-> Layout(value.node, FALSE)]

\* Every text and every value comes to an end: no loop of the parser or the
\* printer stays where it is, whatever it is given and whatever fails.
Terminates ==
  <>(\/ pc = "failed"
     \/ pc = "parsed" /\ (oom \/ round = 2 \/ printing = "refused"))
=============================================================================
