------------------------------ MODULE JsonPrint -----------------------------
(***************************************************************************)
(* cJSON_Print, cJSON_PrintUnformatted, cJSON_PrintBuffered and            *)
(* cJSON_PrintPreallocated: a value is written into a buffer that grows.   *)
(* todo is what the running calls of print_value, print_array and          *)
(* print_object have left to do.  A step of it prints a value, loops over  *)
(* the elements of an array or the members of an object, writes, or calls  *)
(* update_offset.                                                          *)
(*                                                                         *)
(* A mode is the buffer a print begins with and the flags of the call.     *)
(***************************************************************************)
EXTENDS JsonValue

CONSTANTS
  INT_MAX,
  Modes   \* of a print

Mode == [length : Nat,        \* of the first buffer
         noalloc : BOOLEAN,   \* the buffer is the caller's
         format : BOOLEAN,
         trim : BOOLEAN]      \* the answer is a block of its own size

\* A length is an int; only a buffer of cJSON's own is trimmed.
ASSUME ModesAssumption ==
  /\ Modes \subseteq Mode
  /\ \A m \in Modes : m.length <= INT_MAX /\ ~(m.noalloc /\ m.trim)
ASSUME IntMaxAssumption == INT_MAX \in Nat

VARIABLES
  mode,
  data,        \* what is written to the buffer; behind it is anything
  buffer, size, at,   \* the members buffer, "block" or "null", length and
                      \* offset of the printbuffer
  todo,
  buffers,     \* the buffers that are allocated
  printing     \* "idle", "busy", "failing", "printed" or "refused"
printVars == <<mode, data, buffer, size, at, todo, buffers, printing>>

Write(need, chars, advance) ==
  [op |-> "write", need |-> need, chars |-> chars, advance |-> advance]
Update == [op |-> "update"]
Value(node, depth) == [op |-> "value", node |-> node, depth |-> depth]
Elements(kids, depth) == [op |-> "elements", kids |-> kids, depth |-> depth]
Members(kids, depth) == [op |-> "members", kids |-> kids, depth |-> depth]

\* The characters s are written, without or with a null character behind
\* them, and the offset moves past them.
Put(s) == Write(Len(s), s, Len(s))
PutNulStaying(s) == Write(Len(s) + 1, Append(s, Nul), 0)   \* Slip: the offset stays.
PutNul(s) == Write(Len(s) + 1, Append(s, Nul), Len(s))

\* The same, but the offset waits for update_offset.
LeaveOpen(s) == Write(Len(s) + 1, s, 0)           \* Slip: no null character.
LeaveSpacious(s) == Write(Len(s) + 3, Append(s, Nul), 0)   \* Slip: asks for more.
Leave(s) == Write(Len(s) + 1, Append(s, Nul), 0)

Blanks(n) == [i \in 1..n |-> "w"]
Formatted(s) == IF mode.format THEN s ELSE <<>>

\* Slip: characters are copied as they are.
print_string_unescaped(s) == Leave(<<"q">> \o s \o <<"q">>)

print_string_ptr(s) ==
  LET escaped == FlattenSeq([i \in DOMAIN s |->
        IF s[i] \in DOMAIN Escape THEN <<"b", Escape[s[i]]>> ELSE <<s[i]>>])
  IN Leave(<<"q">> \o escaped \o <<"q">>)

print_value(node, depth) ==
  CASE node.type = "literal" -> <<Leave(<<"n">>)>>
    [] node.type = "number"  -> <<PutNul(print_number(node.chars))>>
    [] node.type = "string"  -> <<print_string_ptr(node.chars)>>
    [] node.type = "array"   -> <<Put(<<"[">>), Elements(node.kids, depth + 1)>>
    [] node.type = "object"  ->
         <<Write(1 + Len(Formatted(<<"w">>)) + 1, <<"{">> \o Formatted(<<"w">>),
                 1 + Len(Formatted(<<"w">>))),
           Members(node.kids, depth + 1)>>

\* One turn of the loop of print_array, or the end of it.
print_array(kids, depth) ==
  IF kids = <<>> THEN <<Leave(<<"]">>)>>
  ELSE IF Len(kids) = 1
    THEN <<Value(kids[1].node, depth), Update, Elements(<<>>, depth)>>
  ELSE <<Value(kids[1].node, depth), Update, PutNul(<<",">> \o Formatted(<<"w">>)),
         Elements(Tail(kids), depth)>>

\* One turn of the loop of print_object, or the end of it.
print_object(kids, depth) ==
  IF kids = <<>> THEN <<Leave(Formatted(Blanks(depth - 1)) \o <<"}">>)>>
  ELSE (IF mode.format THEN <<Put(Blanks(depth))>> ELSE <<>>)
         \o <<print_string_ptr(kids[1].name), Update,
              Put(<<":">> \o Formatted(<<"w">>)),
              Value(kids[1].node, depth), Update,
              PutNul((IF Len(kids) > 1 THEN <<",">> ELSE <<>>) \o Formatted(<<"w">>)),
              Members(Tail(kids), depth)>>

Expand(step) ==
  CASE step.op = "value"    -> print_value(step.node, step.depth)
    [] step.op = "elements" -> print_array(step.kids, step.depth)
    [] step.op = "members"  -> print_object(step.kids, step.depth)

-----------------------------------------------------------------------------
PrintInit ==
  /\ mode = [length |-> 0, noalloc |-> FALSE, format |-> FALSE, trim |-> FALSE]
  /\ data = <<>> /\ buffer = "null" /\ size = 0 /\ at = 0 /\ todo = <<>>
  /\ buffers = 0 /\ printing = "idle"

\* The buffer is allocated, or is the caller's; print() calls update_offset at
\* the end as well.
PrintStart(node) ==
  /\ printing = "idle"
  /\ mode' \in Modes
  /\ \/ /\ ~mode'.noalloc
        /\ printing' = "refused"
        /\ UNCHANGED <<buffer, size, todo, buffers>>
     \/ /\ printing' = "busy"
        /\ buffer' = "block"
        /\ buffers' = IF mode'.noalloc THEN buffers ELSE buffers + 1
        /\ size' = mode'.length
        /\ todo' = <<Value(node, 0)>> \o (IF mode'.trim THEN <<Update>> ELSE <<>>)
  /\ UNCHANGED <<data, at>>

Head1 == todo[1]
Doing(ops) == printing = "busy" /\ todo # <<>> /\ Head1.op \in ops

PrintExpand ==
  /\ Doing({"value", "elements", "members"})
  /\ todo' = Expand(Head1) \o Tail(todo)
  /\ UNCHANGED <<mode, data, buffer, size, at, buffers, printing>>

\* Slip: the buffer is full to the last character.
NeededExactly == Head1.need + at - 1
\* What ensure needs for the characters to come, and the size it chooses.
Needed == Head1.need + at + 1
Exhausted == (size > 0 /\ at >= size) \/ Head1.need > INT_MAX
NewSize == IF Needed > INT_MAX \div 2 THEN INT_MAX ELSE Needed * 2

\* The characters go to the offset, and what is before it stays.
PutChars ==
  /\ data' = SubSeq(data, 1, at) \o Head1.chars
  /\ at' = at + Head1.advance
  /\ todo' = Tail(todo)

\* There is room.
PrintWrite ==
  /\ Doing({"write"}) /\ buffer = "block"
  /\ ~Exhausted /\ Needed <= size
  /\ PutChars
  /\ UNCHANGED <<mode, buffer, size, buffers, printing>>

\* A larger buffer takes over what is before the offset, by realloc or memcpy.
PrintGrow ==
  /\ Doing({"write"}) /\ buffer = "block"
  /\ ~Exhausted /\ Needed > size
  /\ ~mode.noalloc /\ Needed <= INT_MAX
  /\ PutChars
  /\ size' = NewSize
  /\ UNCHANGED <<mode, buffer, buffers, printing>>

\* Slip: a buffer of the caller that is too small is not noticed.
PrintRefuseOwn ==
  /\ Doing({"write"})
  /\ buffer = "null" \/ Exhausted \/ (Needed > size /\ ~mode.noalloc)
  /\ printing' = "failing"
  /\ UNCHANGED <<mode, data, buffer, size, at, todo, buffers>>

\* ensure answers NULL because there is no buffer, or it cannot or must not
\* grow.  All the calls that are running return.
PrintRefuse ==
  /\ Doing({"write"})
  /\ \/ buffer = "null" \/ Exhausted
     \/ Needed > size /\ (mode.noalloc \/ Needed > INT_MAX)
  /\ printing' = "failing"
  /\ UNCHANGED <<mode, data, buffer, size, at, todo, buffers>>

\* free does nothing with NULL.
Deallocate == buffers' = IF buffer = "null" THEN buffers ELSE buffers - 1

\* Slip: the pointer to the buffer that was freed is kept.
PrintNoMemoryKept ==
  /\ Doing({"write"}) /\ buffer = "block"
  /\ ~Exhausted /\ Needed > size /\ ~mode.noalloc /\ Needed <= INT_MAX
  /\ Deallocate /\ size' = 0
  /\ printing' = "failing"
  /\ UNCHANGED <<mode, data, buffer, at, todo>>

\* There is no memory for the larger buffer: ensure itself frees the old one.
PrintNoMemory ==
  /\ Doing({"write"}) /\ buffer = "block"
  /\ ~Exhausted /\ Needed > size /\ ~mode.noalloc /\ Needed <= INT_MAX
  /\ Deallocate /\ buffer' = "null" /\ size' = 0
  /\ printing' = "failing"
  /\ UNCHANGED <<mode, data, at, todo>>

\* The call that has the buffer fails: print frees it if there is still one,
\* cJSON_PrintBuffered in any case, cJSON_PrintPreallocated not at all.
PrintFail ==
  /\ printing = "failing"
  /\ \/ mode.trim /\ buffer # "null" /\ Deallocate /\ buffer' = "null"
     \/ mode.trim /\ buffer = "null" /\ UNCHANGED <<buffers, buffer>>
     \/ ~mode.trim /\ ~mode.noalloc /\ Deallocate /\ buffer' = "null"
     \/ mode.noalloc /\ UNCHANGED <<buffers, buffer>>
  /\ printing' = "refused"
  /\ UNCHANGED <<mode, data, size, at, todo>>

\* Where the next null character is, from the offset on.
update_offset ==
  Min({i \in at..Len(data) : i < Len(data) => data[i + 1] = Nul})

PrintUpdate ==
  /\ Doing({"update"})
  /\ at' = update_offset
  /\ todo' = Tail(todo)
  /\ UNCHANGED <<mode, data, buffer, size, buffers, printing>>

\* The value is printed; print() then makes a block of the right size, and
\* gives up its buffer with it, or fails.
PrintEnd ==
  /\ printing = "busy" /\ todo = <<>>
  /\ \/ /\ printing' = "printed"
        /\ data' = IF mode.trim THEN SubSeq(data, 1, at + 1) ELSE data
        /\ size' = IF mode.trim THEN at + 1 ELSE size
        /\ buffer' = IF mode.trim THEN "null" ELSE buffer
     \/ mode.trim /\ printing' = "failing" /\ UNCHANGED <<data, size, buffer>>
  /\ UNCHANGED <<mode, at, todo, buffers>>

PrintNext ==
  \/ PrintExpand \/ PrintWrite \/ PrintGrow \/ PrintRefuse \/ PrintNoMemory
  \/ PrintUpdate \/ PrintEnd \/ PrintFail
=============================================================================
