---------------------------- MODULE JsonTextProofs ---------------------------
(***************************************************************************)
(* What the steps of the parser of lib/cjson keep, for every text and      *)
(* every nesting limit; what its printer keeps, for every value and every  *)
(* size of the buffer; and what the two keep together: a text that is      *)
(* printed is the layout of the value that was parsed.  Minima,            *)
(* concatenations, trees, words, layouts and the printer's orders come     *)
(* before the steps they are about.                                        *)
(***************************************************************************)
EXTENDS JsonText, FiniteSetTheorems, SequenceTheorems, WellFoundedInduction, TLAPS

\* A set of natural numbers that is not empty has a least element.
LEMMA LeastExists ==
  ASSUME NEW S, S \subseteq Nat, S # {}
  PROVE  \E x \in S : \A y \in S : x <= y
<1>1. PICK x \in S : \A y \in S : <<y, x>> \notin OpToRel(<, Nat)
  BY WFMin, NatLessThanWellFounded, Zenon
<1>2. \A y \in S : ~(y < x)
  BY <1>1, Zenon DEF OpToRel
<1>3. QED
  BY <1>2

\* Min answers the least element.
LEMMA MinIsLeast ==
  ASSUME NEW S, S \subseteq Nat, S # {}
  PROVE  Min(S) \in S /\ \A y \in S : Min(S) <= y
BY LeastExists DEF Min

\* A property that holds of 1 and goes from every number to the next one holds
\* of all numbers.
LEMMA Climb ==
  ASSUME NEW n \in Nat, NEW S, 1 \in S,
         \A k \in 2..n : k - 1 \in S => k \in S
  PROVE  \A k \in 1..n : k \in S
<1> DEFINE Missing == {k \in 1..n : k \notin S}
<1>1. SUFFICES ASSUME Missing # {} PROVE FALSE
  OBVIOUS
<1>2. Missing \subseteq Nat
  OBVIOUS
<1>3. PICK k \in Missing : \A j \in Missing : k <= j
  <2> HIDE DEF Missing
  <2>1. QED
    BY <1>1, <1>2, LeastExists
<1>4. k \in 2..n /\ k - 1 \in 1..n /\ k - 1 < k
  BY <1>3
<1>5. k - 1 \in S
  BY <1>3, <1>4
<1>6. QED
  BY <1>3, <1>4, <1>5

\* What is flattened is joined from the parts, one after the other.
LEMMA FlattenJoins ==
  ASSUME NEW E, NEW seqs \in Seq(Seq(E)), seqs # <<>>
  PROVE  \E join :
           /\ FlattenSeq(seqs) = join[Len(seqs)]
           /\ \A i \in 1..Len(seqs) :
                join[i] = IF i = 1 THEN seqs[i] ELSE join[i - 1] \o seqs[i]
<1> DEFINE n == Len(seqs)
           Joins(f, m) == f = [i \in 1..m |->
                                 IF i = 1 THEN seqs[i] ELSE f[i - 1] \o seqs[i]]
           Joined == {m \in 1..n : \E f : Joins(f, m)}
<1>1. n \in Nat /\ 1 \in 1..n /\ n \in 1..n
  OBVIOUS
<1>2. 1 \in Joined
  <2>1. Joins([i \in 1..1 |-> seqs[1]], 1)
    OBVIOUS
  <2>2. QED
    BY <1>1, <2>1
<1>3. ASSUME NEW m \in 2..n, m - 1 \in Joined PROVE m \in Joined
  <2>1. PICK g : Joins(g, m - 1)
    BY <1>3
  <2> DEFINE f == [i \in 1..m |-> IF i = m THEN g[m - 1] \o seqs[m] ELSE g[i]]
  <2>2. ASSUME NEW i \in 1..m
        PROVE  f[i] = IF i = 1 THEN seqs[i] ELSE f[i - 1] \o seqs[i]
    <3>1. CASE i = m
      <4>1. m \in 1..m /\ m - 1 \in 1..m /\ m - 1 # m /\ m # 1
        BY <1>1
      <4>2. f[m] = g[m - 1] \o seqs[m] /\ f[m - 1] = g[m - 1] /\ m # 1
        BY <4>1
      <4> HIDE DEF f
      <4>3. QED
        BY <3>1, <4>2
    <3>2. CASE i # m
      <4>1. i \in 1..m - 1 /\ f[i] = g[i]
        BY <1>1, <3>2
      <4>2. g[i] = IF i = 1 THEN seqs[i] ELSE g[i - 1] \o seqs[i]
        BY <2>1, <4>1
      <4>3. i # 1 => f[i - 1] = g[i - 1]
        BY <1>1, <4>1
      <4>4. QED
        BY <4>1, <4>2, <4>3
    <3>3. QED
      BY <3>1, <3>2
  <2>3. Joins(f, m)
    <3>1. f = [i \in 1..m |-> f[i]]
      OBVIOUS
    <3> HIDE DEF f
    <3>2. QED
      BY <2>2, <3>1
  <2> HIDE DEF f, Joins
  <2>4. m \in 1..n
    BY <1>1
  <2>5. QED
    BY <2>3, <2>4
<1>4. n \in Joined
  <2> HIDE DEF Joined, n
  <2>1. QED
    BY <1>1, <1>2, <1>3, Climb
<1> DEFINE join == CHOOSE f : Joins(f, n)
<1>5. FlattenSeq(seqs) = join[n]
  <2>1. Len(seqs) # 0
    BY <1>1
  <2>2. QED
    BY <2>1, Zenon DEF FlattenSeq
<1>6. Joins(join, n)
  <2> HIDE DEF Joins
  <2>1. QED
    BY <1>4
<1>7. \A i \in 1..n : join[i] = IF i = 1 THEN seqs[i] ELSE join[i - 1] \o seqs[i]
  <2> HIDE DEF join
  <2>1. QED
    BY <1>6
<1>8. QED
  BY <1>5, <1>7

\* It consists of the elements of the parts.
LEMMA FlattenType ==
  ASSUME NEW E, NEW seqs \in Seq(Seq(E))
  PROVE  FlattenSeq(seqs) \in Seq(E)
<1> DEFINE n == Len(seqs)
<1>1. CASE seqs = <<>>
  BY <1>1 DEF FlattenSeq
<1>2. CASE seqs # <<>>
  <2>1. n \in Nat /\ 1 \in 1..n /\ n \in 1..n
    BY <1>2
  <2>2. PICK join : /\ FlattenSeq(seqs) = join[n]
                    /\ \A i \in 1..n :
                         join[i] = IF i = 1 THEN seqs[i] ELSE join[i - 1] \o seqs[i]
    BY <1>2, FlattenJoins
  <2> DEFINE Typed == {i \in 1..n : join[i] \in Seq(E)}
  <2>3. 1 \in Typed
    <3>1. join[1] = seqs[1] /\ seqs[1] \in Seq(E)
      BY <2>1, <2>2
    <3>2. QED
      BY <2>1, <3>1
  <2>4. ASSUME NEW i \in 2..n, i - 1 \in Typed PROVE i \in Typed
    <3>1. i \in 1..n /\ i # 1 /\ join[i - 1] \in Seq(E) /\ seqs[i] \in Seq(E)
      BY <2>1, <2>4
    <3>2. join[i] = join[i - 1] \o seqs[i]
      BY <2>2, <3>1
    <3>3. join[i] \in Seq(E)
      BY <3>1, <3>2, ConcatProperties
    <3>4. QED
      BY <3>1, <3>3
  <2>5. n \in Typed
    <3> HIDE DEF Typed, n
    <3>1. QED
      BY <2>1, <2>3, <2>4, Climb
  <2>6. QED
    BY <2>2, <2>5
<1>3. QED
  BY <1>1, <1>2

\* It is as long as its parts together.
LEMMA FlattenLength ==
  ASSUME NEW E, NEW seqs \in Seq(Seq(E)),
         NEW c \in [0..Len(seqs) -> Int], c[0] = 0,
         \A k \in 1..Len(seqs) : c[k] = c[k - 1] + Len(seqs[k])
  PROVE  FlattenSeq(seqs) \in Seq(E) /\ Len(FlattenSeq(seqs)) = c[Len(seqs)]
<1> DEFINE n == Len(seqs)
<1>1. CASE seqs = <<>>
  BY <1>1 DEF FlattenSeq
<1>2. CASE seqs # <<>>
  <2>1. n \in Nat /\ 1 \in 1..n /\ n \in 1..n
    BY <1>2
  <2>2. PICK join : /\ FlattenSeq(seqs) = join[n]
                    /\ \A i \in 1..n :
                         join[i] = IF i = 1 THEN seqs[i] ELSE join[i - 1] \o seqs[i]
    BY <1>2, FlattenJoins
  <2> DEFINE Typed == {i \in 1..n : join[i] \in Seq(E) /\ Len(join[i]) = c[i]}
  <2>3. 1 \in Typed
    <3>1. join[1] = seqs[1] /\ seqs[1] \in Seq(E) /\ c[1] = c[0] + Len(seqs[1])
      BY <2>1, <2>2
    <3>2. Len(seqs[1]) \in Nat
      BY <3>1
    <3>3. c[1] = Len(seqs[1])
      BY <3>1, <3>2
    <3>4. QED
      BY <2>1, <3>1, <3>3
  <2>4. ASSUME NEW i \in 2..n, i - 1 \in Typed PROVE i \in Typed
    <3>1. /\ i \in 1..n /\ i # 1 /\ join[i - 1] \in Seq(E) /\ seqs[i] \in Seq(E)
          /\ Len(join[i - 1]) = c[i - 1]
      BY <2>1, <2>4
    <3>2. join[i] = join[i - 1] \o seqs[i]
      BY <2>2, <3>1
    <3>3. join[i] \in Seq(E)
      BY <3>1, <3>2
    <3>4. Len(join[i]) = c[i - 1] + Len(seqs[i])
      <4>1. Len(join[i - 1] \o seqs[i]) = Len(join[i - 1]) + Len(seqs[i])
        BY <3>1, ConcatProperties
      <4>2. QED
        BY <3>1, <3>2, <4>1
    <3>5. QED
      BY <3>1, <3>3, <3>4
  <2>5. n \in Typed
    <3> HIDE DEF Typed, n
    <3>1. QED
      BY <2>1, <2>3, <2>4, Climb
  <2>6. QED
    BY <2>2, <2>5
<1>3. QED
  BY <1>1, <1>2
-----------------------------------------------------------------------------
(***************************************************************************)
(* A value is an item with children, which are values again.  A set of     *)
(* values is closed if it holds all children of its members.               *)
(***************************************************************************)

Chars == Seq(Character)
Types == {"literal", "number", "string", "array", "object"}
Kids(V) == Seq([name : Chars, node : V])
IsNode(n, V) == n.type \in Types /\ n.chars \in Chars /\ n.kids \in Kids(V)
Closed(V) == \A n \in V : IsNode(n, V)

\* A closed set stays closed when a value over it is added.
LEMMA ClosedGrows ==
  ASSUME NEW V, NEW n, Closed(V), IsNode(n, V)
  PROVE  Closed(V \cup {n}) /\ Kids(V) \subseteq Kids(V \cup {n})
<1>1. [name : Chars, node : V] \subseteq [name : Chars, node : V \cup {n}]
  OBVIOUS
<1>2. Kids(V) \subseteq Kids(V \cup {n})
  BY <1>1, SeqMonotonic DEF Kids
<1>3. QED
  BY <1>2, Zenon DEF Closed, IsNode

\* What C sees of a sequence of characters is one.
LEMMA CStringType ==
  ASSUME NEW s \in Chars
  PROVE  CString(s) \in Chars
<1> DEFINE S == {n \in 0..Len(s) : n < Len(s) => s[n + 1] = Nul}
<1>1. Len(s) \in Nat
  BY DEF Chars
<1>2. S \subseteq Nat /\ Len(s) \in S /\ S \subseteq 0..Len(s)
  BY <1>1
<1>3. Min(S) \in 0..Len(s)
  <2> HIDE DEF S
  <2>1. QED
    BY <1>2, MinIsLeast
<1>4. CString(s) = SubSeq(s, 1, Min(S))
  BY DEF CString
<1>5. SubSeq(s, 1, Min(S)) \in Chars
  <2> HIDE DEF S
  <2>1. QED
    BY <1>1, <1>3, SubSeqProperties DEF Chars
<1>6. QED
  BY <1>4, <1>5
-----------------------------------------------------------------------------
(***************************************************************************)
(* Where the parser's scans end.                                           *)
(***************************************************************************)

\* The scan of the characters of S ends at the length, if not before.
LEMMA PassingInside ==
  ASSUME length \in Nat, NEW S, NEW o \in 0..length
  PROVE  /\ Passing(S, o) \in o..length
         /\ Passing(S, o) < length => At(Passing(S, o)) \notin S
<1> DEFINE Stops == {i \in o..length : i < length => At(i) \notin S}
<1>1. Stops \subseteq Nat /\ length \in Stops
  OBVIOUS
<1>2. Min(Stops) \in Stops
  <2> HIDE DEF Stops
  <2>1. QED
    BY <1>1, MinIsLeast
<1>3. QED
  BY <1>2, Zenon DEF Passing

\* Skipping blanks stays in the text, and never ends behind a character.
LEMMA SkipInside ==
  ASSUME length \in Nat, NEW o \in 0..length
  PROVE  /\ buffer_skip_whitespace(o) \in o..length
         /\ o < length => buffer_skip_whitespace(o) < length
<1> DEFINE i == Passing({"w", Nul}, o)
<1>1. i \in o..length
  BY PassingInside
<1>2. buffer_skip_whitespace(o) = IF ~(o < length) THEN o
                                  ELSE IF i = length THEN i - 1 ELSE i
  BY DEF buffer_skip_whitespace, CanAccess
<1> HIDE DEF i
<1>3. QED
  BY <1>1, <1>2

\* A number ends in the text.
LEMMA NumberInside ==
  ASSUME length \in Nat, NEW o \in 0..length, o < length
  PROVE  NumberEnd(o) \in o..length
<1> DEFINE from == IF At(o) = "-" THEN o + 1 ELSE o
           e == Passing(Digits, from)
<1>1. from \in o..length
  OBVIOUS
<1>2. e \in from..length
  <2> HIDE DEF from
  <2>1. QED
    BY <1>1, PassingInside
<1>3. NumberEnd(o) = IF e = from THEN o ELSE e
  BY DEF NumberEnd
<1> HIDE DEF from, e
<1>4. QED
  BY <1>1, <1>2, <1>3

\* A string ends in the text, or with it.
LEMMA StringInside ==
  ASSUME length \in Nat, NEW o \in 0..length
  PROVE  StringEnd(o) \in o..length
<1> DEFINE Stops == {i \in o..length :
                       i < length => At(i) = "q" /\ i - 1 \notin Escapes(o)}
<1>1. Stops \subseteq Nat /\ length \in Stops
  OBVIOUS
<1>2. Min(Stops) \in Stops
  <2> HIDE DEF Stops
  <2>1. QED
    BY <1>1, MinIsLeast
<1>3. QED
  BY <1>2, Zenon DEF StringEnd

\* Every other backslash of a run of backslashes begins an escape.
LEMMA EscapesExist ==
  ASSUME length \in Nat, NEW o \in 0..length
  PROVE  /\ Escapes(o) \subseteq o..length - 1
         /\ \A i \in Escapes(o) : At(i) = "b"
         /\ \A i \in o..length - 1 : At(i) = "b" => (i \in Escapes(o) <=> i - 1 \notin Escapes(o))
<1> DEFINE slashes == {i \in o..length - 1 : At(i) = "b"}
           Right(S) == \A i \in slashes : i \in S <=> i - 1 \notin S
           Run(i) == {j \in o..i : \A k \in j..i : k \in slashes}
           Start(i) == Min(Run(i))
           S == {i \in slashes : (i - Start(i)) % 2 = 0}
<1>1. ASSUME NEW i \in slashes
      PROVE  Start(i) \in o..i /\ (i - 1 \in slashes => Start(i) = Start(i - 1))
                               /\ (i - 1 \notin slashes => Start(i) = i)
  <2>1. Run(i) \subseteq Nat /\ i \in Run(i)
    BY <1>1
  <2>2. Start(i) \in Run(i) /\ \A j \in Run(i) : Start(i) <= j
    <3> HIDE DEF Run
    <3>1. QED
      BY <2>1, MinIsLeast
  <2>3. ASSUME i - 1 \in slashes PROVE Start(i) = Start(i - 1)
    <3>1. Run(i - 1) \subseteq Nat /\ i - 1 \in Run(i - 1)
      BY <2>3
    <3>2. Start(i - 1) \in Run(i - 1) /\ \A j \in Run(i - 1) : Start(i - 1) <= j
      <4> HIDE DEF Run
      <4>1. QED
        BY <3>1, MinIsLeast
    <3>3. Run(i) = Run(i - 1) \cup {i}
      BY <1>1, <2>3
    <3>4. i \in Nat /\ Run(i - 1) \subseteq 0..i - 1
      BY <1>1
    <3> HIDE DEF Run, Start, slashes
    <3>5. QED
      BY <2>2, <3>2, <3>3, <3>4, <3>1
  <2>4. ASSUME i - 1 \notin slashes PROVE Start(i) = i
    <3>1. \A j \in Run(i) : j = i
      BY <1>1, <2>4
    <3> HIDE DEF Run
    <3>2. QED
      BY <2>2, <3>1
  <2>5. Start(i) \in o..i
    <3> HIDE DEF Start
    <3>1. QED
      BY <2>2
  <2> HIDE DEF Start, slashes
  <2>6. QED
    BY <2>3, <2>4, <2>5
<1>2. Right(S)
  <2>1. SUFFICES ASSUME NEW i \in slashes PROVE i \in S <=> i - 1 \notin S
    OBVIOUS
  <2>2. i \in Int /\ Start(i) \in Int
    <3>1. i \in 0..length
      BY <2>1
    <3> HIDE DEF Start, slashes
    <3>2. QED
      BY <1>1, <2>1, <3>1
  <2>3. CASE i - 1 \in slashes
    <3>1. Start(i - 1) = Start(i)
      BY <1>1, <2>1, <2>3
    <3>2. (i - Start(i)) % 2 = 0 <=> (i - 1 - Start(i)) % 2 # 0
      <4> HIDE DEF Start, slashes
      <4>1. QED
        BY <2>2
    <3> HIDE DEF Start, slashes
    <3>3. QED
      BY <2>1, <2>3, <3>1, <3>2
  <2>4. CASE i - 1 \notin slashes
    <3>1. Start(i) = i
      BY <1>1, <2>1, <2>4
    <3> HIDE DEF Start, slashes
    <3>2. (i - Start(i)) % 2 = 0
      BY <2>2, <3>1
    <3>3. QED
      BY <2>1, <2>4, <3>2
  <2>5. QED
    BY <2>3, <2>4
<1>3. S \in SUBSET slashes
  <2> HIDE DEF Start, slashes
  <2>1. QED
    OBVIOUS
<1>4. Escapes(o) = CHOOSE T \in SUBSET slashes : Right(T)
  BY DEF Escapes
<1>5. Escapes(o) \in SUBSET slashes /\ Right(Escapes(o))
  <2> HIDE DEF S, slashes, Right
  <2>1. QED
    BY <1>2, <1>3, <1>4
<1>6. QED
  BY <1>5

\* What comes of the k-th character behind o.
ContentsPart(o, k) ==
  IF o + k - 1 \in Escapes(o) THEN <<>>
  ELSE <<IF o + k - 2 \in Escapes(o) THEN Unescape[At(o + k - 1)] ELSE At(o + k - 1)>>

\* A string's contents are joined from these parts.
LEMMA ContentsParts ==
  ASSUME length \in Nat, text \in Chars, length <= Len(text),
         NEW o \in 0..length, NEW e \in o..length,
         \A i \in Escapes(o) \cap o..e - 1 : At(i + 1) \in DOMAIN Unescape
  PROVE  /\ [k \in 1..e - o |-> ContentsPart(o, k)] \in Seq(Seq(Character))
         /\ Contents(o, e) = FlattenSeq([k \in 1..e - o |-> ContentsPart(o, k)])
<1> DEFINE Part(k) == ContentsPart(o, k)
<1>1. ASSUME NEW k \in 1..e - o PROVE Part(k) \in Chars
  <2>1. At(o + k - 1) \in Character
    BY DEF At, Chars
  <2>2. ASSUME o + k - 2 \in Escapes(o) PROVE Unescape[At(o + k - 1)] \in Character
    <3>1. Escapes(o) \subseteq o..length - 1
      BY EscapesExist
    <3>2. o + k - 2 \in o..e - 1
      BY <2>2, <3>1
    <3>3. At(o + k - 1) \in DOMAIN Unescape
      <4>1. o + k - 2 + 1 = o + k - 1
        OBVIOUS
      <4>2. QED
        BY <2>2, <3>2, <4>1
    <3>4. DOMAIN Unescape = {"q", "b", "e"}
      BY DEF Unescape
    <3>5. \A c \in {"q", "b", "e"} : Unescape[c] \in Character
      BY DEF Unescape, Character
    <3>6. QED
      BY <3>3, <3>4, <3>5
  <2>3. CASE o + k - 1 \in Escapes(o)
    BY <2>3 DEF Chars, ContentsPart
  <2>4. CASE o + k - 1 \notin Escapes(o)
    <3>1. \E c \in Character : Part(k) = <<c>>
      BY <2>1, <2>2, <2>4 DEF ContentsPart
    <3> HIDE DEF Part
    <3>2. \A c \in Character : <<c>> \in Chars
      BY DEF Chars
    <3>3. QED
      BY <3>1, <3>2
  <2>5. QED
    BY <2>3, <2>4
<1>2. [k \in 1..e - o |-> Part(k)] \in Seq(Seq(Character))
  <2> HIDE DEF Part
  <2>1. e - o \in Nat
    OBVIOUS
  <2>2. QED
    BY <1>1, <2>1 DEF Chars
<1>3. Contents(o, e) = FlattenSeq([k \in 1..e - o |-> Part(k)])
  <2>1. \A k \in 1..e - o : o + k - 1 - 1 = o + k - 2
    OBVIOUS
  <2>2. QED
    BY <2>1 DEF Contents, ContentsPart
<1>4. QED
  BY <1>2, <1>3

\* What a string's escapes are replaced by are characters again.
LEMMA ContentsType ==
  ASSUME length \in Nat, text \in Chars, length <= Len(text),
         NEW o \in 0..length, NEW e \in o..length,
         \A i \in Escapes(o) \cap o..e - 1 : At(i + 1) \in DOMAIN Unescape
  PROVE  Contents(o, e) \in Chars
BY ContentsParts, FlattenType DEF Chars

\* An escape is one character less, as parse_string has counted.
LEMMA ContentsLength ==
  ASSUME length \in Nat, text \in Chars, length <= Len(text),
         NEW o \in 0..length, NEW e \in o..length,
         \A i \in Escapes(o) \cap o..e - 1 : At(i + 1) \in DOMAIN Unescape
  PROVE  /\ Cardinality(Escapes(o) \cap o..e - 1) \in Nat
         /\ Len(Contents(o, e)) = e - o - Cardinality(Escapes(o) \cap o..e - 1)
<1> DEFINE n == e - o
           Left(k) == Escapes(o) \cap o..o + k - 1
           c == [k \in 0..n |-> k - Cardinality(Left(k))]
           parts == [k \in 1..n |-> ContentsPart(o, k)]
<1>1. parts \in Seq(Seq(Character)) /\ Contents(o, e) = FlattenSeq(parts)
  BY ContentsParts
<1>2. n \in Nat /\ Len(parts) = n /\ o \in Nat
  OBVIOUS
<1>3. ASSUME NEW k \in 0..n PROVE IsFiniteSet(Left(k)) /\ Cardinality(Left(k)) \in Nat
  <2>1. IsFiniteSet(o..o + k - 1)
    BY <1>2, FS_Interval
  <2>2. IsFiniteSet(Left(k))
    BY <2>1, FS_Subset
  <2>3. QED
    BY <2>2, FS_CardinalityType
<1>4. c \in [0..Len(parts) -> Int]
  <2> HIDE DEF Left, parts, n
  <2>1. QED
    BY <1>2, <1>3
<1>5. c[0] = 0
  <2>1. Left(0) = {}
    BY <1>2
  <2>2. Cardinality(Left(0)) = 0
    BY <2>1, FS_EmptySet
  <2> HIDE DEF Left, n
  <2>3. QED
    BY <1>2, <2>2
<1>6. ASSUME NEW k \in 1..Len(parts) PROVE c[k] = c[k - 1] + Len(parts[k])
  <2>1. /\ k \in 1..n /\ k - 1 \in 0..n /\ k \in 0..n
        /\ c[k] = k - Cardinality(Left(k))
        /\ c[k - 1] = k - 1 - Cardinality(Left(k - 1))
    <3>1. k \in 1..n /\ k - 1 \in 0..n /\ k \in 0..n
      BY <1>2, <1>6
    <3> HIDE DEF Left, n
    <3>2. QED
      BY <3>1
  <2>2. Cardinality(Left(k)) \in Nat /\ Cardinality(Left(k - 1)) \in Nat
    BY <1>3, <2>1
  <2>3. CASE o + k - 1 \in Escapes(o)
    <3>1. Left(k) = Left(k - 1) \cup {o + k - 1} /\ o + k - 1 \notin Left(k - 1)
      BY <1>2, <2>1, <2>3
    <3>2. Cardinality(Left(k)) = Cardinality(Left(k - 1)) + 1
      BY <1>3, <2>1, <3>1, FS_AddElement
    <3>3. Len(parts[k]) = 0
      BY <2>1, <2>3 DEF ContentsPart
    <3> HIDE DEF Left, n, c, parts
    <3>4. QED
      BY <2>1, <2>2, <3>2, <3>3
  <2>4. CASE o + k - 1 \notin Escapes(o)
    <3>1. Left(k) = Left(k - 1)
      BY <1>2, <2>1, <2>4
    <3>2. Len(parts[k]) = 1
      BY <2>1, <2>4 DEF ContentsPart
    <3> HIDE DEF Left, n, c, parts
    <3>3. QED
      BY <2>1, <2>2, <3>1, <3>2
  <2>5. QED
    BY <2>3, <2>4
<1>7. Len(FlattenSeq(parts)) = c[Len(parts)]
  <2> HIDE DEF parts, c, n
  <2>1. QED
    BY <1>1, <1>4, <1>5, <1>6, FlattenLength
<1>8. c[n] = n - Cardinality(Escapes(o) \cap o..e - 1)
  <2>1. n \in 0..n /\ o + n - 1 = e - 1
    BY <1>2
  <2>2. QED
    BY <2>1
<1>9. Cardinality(Escapes(o) \cap o..e - 1) \in Nat
  <2>1. n \in 0..n /\ o + n - 1 = e - 1
    BY <1>2
  <2>2. QED
    BY <1>3, <2>1
<1>10. QED
  BY <1>1, <1>2, <1>7, <1>8, <1>9
-----------------------------------------------------------------------------
(***************************************************************************)
(* The blocks that hang on the running calls.  f is the list of the calls, *)
(* and a partial sum counts the item that is returned and the blocks of    *)
(* the calls up to a place.                                                *)
(***************************************************************************)

Frame(V) == [closer : {"]", "}"}, name : Chars, kids : Kids(V), blocks : Int]
Frames(V) == Seq(Frame(V))

IsSum(acc, f, total) ==
  /\ acc \in [0..Len(f) -> Int]
  /\ acc[0] = 1 /\ acc[Len(f)] = total
  /\ \A i \in 1..Len(f) : acc[i] = acc[i - 1] + f[i].blocks
AddUp(f, total) == \E acc : IsSum(acc, f, total)

\* Without a call there is the item that is returned.
LEMMA AddUpEmpty == \A total : AddUp(<<>>, total) <=> total = 1
<1>1. IsSum([i \in 0..0 |-> 1], <<>>, 1)
  BY DEF IsSum
<1>2. ASSUME NEW total, NEW acc, IsSum(acc, <<>>, total) PROVE total = 1
  BY <1>2 DEF IsSum
<1>3. QED
  BY <1>1, <1>2 DEF AddUp

\* A call that begins adds its blocks.
LEMMA AddUpPush ==
  ASSUME NEW V, NEW f \in Frames(V), NEW total \in Int, AddUp(f, total),
         NEW x \in Frame(V)
  PROVE  AddUp(Append(f, x), total + x.blocks)
<1> DEFINE n == Len(f)
           g == Append(f, x)
<1>1. n \in Nat /\ Len(g) = n + 1 /\ g[n + 1] = x /\ \A i \in 1..n : g[i] = f[i]
  BY AppendProperties DEF Frames
<1>2. PICK acc : IsSum(acc, f, total)
  BY DEF AddUp
<1>3. /\ acc \in [0..n -> Int] /\ acc[0] = 1 /\ acc[n] = total
      /\ \A i \in 1..n : acc[i] = acc[i - 1] + f[i].blocks
  BY <1>2 DEF IsSum
<1> DEFINE new == [i \in 0..n + 1 |-> IF i = n + 1 THEN total + x.blocks ELSE acc[i]]
<1> HIDE DEF n, g
<1>4. x.blocks \in Int
  BY DEF Frame
<1>5. /\ new \in [0..n + 1 -> Int] /\ new[0] = 1 /\ new[n + 1] = total + x.blocks
      /\ \A i \in 0..n : new[i] = acc[i]
  BY <1>1, <1>3, <1>4
<1>6. ASSUME NEW i \in 1..n + 1 PROVE new[i] = new[i - 1] + g[i].blocks
  <2> HIDE DEF new
  <2>1. CASE i = n + 1
    <3>1. i - 1 = n /\ n \in 0..n
      BY <1>1, <2>1
    <3>2. QED
      BY <1>1, <1>3, <1>5, <2>1, <3>1
  <2>2. CASE i # n + 1
    <3>1. i \in 1..n /\ i - 1 \in 0..n /\ i \in 0..n
      BY <1>1, <2>2
    <3>2. new[i] = acc[i] /\ new[i - 1] = acc[i - 1] /\ g[i] = f[i]
      BY <1>1, <1>5, <3>1
    <3>3. QED
      BY <1>3, <3>1, <3>2
  <2>3. QED
    BY <2>1, <2>2
<1>7. IsSum(new, g, total + x.blocks)
  <2> HIDE DEF new
  <2>1. QED
    BY <1>1, <1>5, <1>6 DEF IsSum
<1>8. QED
  BY <1>7 DEF AddUp, g

\* A call that ends takes its blocks away.
LEMMA AddUpPop ==
  ASSUME NEW V, NEW f \in Frames(V), f # <<>>, NEW total \in Int, AddUp(f, total)
  PROVE  /\ Last(f) \in Frame(V)
         /\ Front(f) \in Frames(V) /\ Len(Front(f)) = Len(f) - 1
         /\ AddUp(Front(f), total - Last(f).blocks)
<1> DEFINE n == Len(f)
           g == Front(f)
<1>1. n \in Nat \ {0} /\ Last(f) = f[n]
  BY EmptySeq DEF Last, Frames
<1>2. Last(f) \in Frame(V)
  BY <1>1, ElementOfSeq DEF Frames
<1>3. g \in Frames(V) /\ Len(g) = n - 1 /\ \A i \in 1..n - 1 : g[i] = f[i]
  <2>1. g = SubSeq(f, 1, n - 1)
    BY DEF Front
  <2>2. \A i \in 1..n - 1 : f[i] \in Frame(V)
    BY <1>1, ElementOfSeq DEF Frames
  <2> HIDE DEF n, g
  <2>3. n - 1 \in Int /\ (IF 1 <= n - 1 THEN n - 1 - 1 + 1 ELSE 0) = n - 1
    BY <1>1
  <2>4. g \in Seq(Frame(V)) /\ Len(g) = n - 1
    BY <2>1, <2>2, <2>3, SubSeqProperties
  <2>5. ASSUME NEW i \in 1..n - 1 PROVE g[i] = f[i]
    <3>1. i \in 1..n - 1 - 1 + 1 /\ 1 + i - 1 = i
      BY <1>1
    <3>2. QED
      BY <2>1, <2>2, <2>3, <3>1, SubSeqProperties
  <2>6. QED
    BY <2>4, <2>5 DEF Frames
<1>4. PICK acc : IsSum(acc, f, total)
  BY DEF AddUp
<1>5. /\ acc \in [0..n -> Int] /\ acc[0] = 1 /\ acc[n] = total
      /\ \A i \in 1..n : acc[i] = acc[i - 1] + f[i].blocks
  BY <1>4 DEF IsSum
<1> DEFINE new == [i \in 0..n - 1 |-> acc[i]]
<1> HIDE DEF n, g
<1>6. acc[n - 1] = total - Last(f).blocks
  <2>1. n \in 1..n /\ n - 1 \in 0..n
    BY <1>1
  <2>2. Last(f).blocks \in Int
    BY <1>2 DEF Frame
  <2>3. acc[n - 1] \in Int /\ acc[n] = acc[n - 1] + Last(f).blocks
    BY <1>1, <1>5, <2>1, Zenon
  <2>4. QED
    BY <1>5, <2>2, <2>3
<1>7. IsSum(new, g, total - Last(f).blocks)
  <2>1. /\ new \in [0..n - 1 -> Int] /\ new[0] = 1 /\ new[n - 1] = acc[n - 1]
        /\ \A i \in 1..n - 1 : new[i] = acc[i] /\ new[i - 1] = acc[i - 1]
    BY <1>1, <1>5
  <2>2. \A i \in 1..n - 1 : i \in 1..n
    BY <1>1
  <2> HIDE DEF new
  <2>3. QED
    BY <1>3, <1>5, <1>6, <2>1, <2>2 DEF IsSum
<1>8. QED
  BY <1>2, <1>3, <1>7 DEF AddUp, n, g

\* What hangs on the innermost call may change.
LEMMA AddUpTop ==
  ASSUME NEW V, NEW f \in Frames(V), f # <<>>, NEW total \in Int, AddUp(f, total),
         NEW x \in Frame(V), NEW new, new = [f EXCEPT ![Len(f)] = x]
  PROVE  /\ new \in Frames(V) /\ Len(new) = Len(f)
         /\ AddUp(new, total - Last(f).blocks + x.blocks)
<1> DEFINE g == Front(f)
<1>1. Last(f) \in Frame(V) /\ g \in Frames(V) /\ Len(g) = Len(f) - 1
      /\ AddUp(g, total - Last(f).blocks)
  BY AddUpPop
<1>2. Len(f) \in Nat \ {0}
  BY EmptySeq DEF Frames
<1>3. \A i \in 1..Len(f) - 1 : g[i] = f[i]
  BY <1>2 DEF Front, Frames
<1> HIDE DEF g
<1>4. new \in Frames(V) /\ Len(new) = Len(f)
      /\ \A i \in 1..Len(f) : new[i] = IF i = Len(f) THEN x ELSE f[i]
  BY <1>2, ExceptSeq DEF Frames
<1>5. Append(g, x) \in Frames(V) /\ Len(Append(g, x)) = Len(f)
      /\ (\A i \in 1..Len(g) : Append(g, x)[i] = g[i]) /\ Append(g, x)[Len(g) + 1] = x
  BY <1>1, <1>2, AppendProperties DEF Frames
<1>6. \A i \in 1..Len(f) : new[i] = Append(g, x)[i]
  BY <1>1, <1>2, <1>3, <1>4, <1>5
<1>7. new = Append(g, x)
  BY <1>4, <1>5, <1>6, SeqEqual DEF Frames
<1>8. total - Last(f).blocks \in Int
  <2>1. Last(f) \in Frame(V)
    BY <1>1
  <2>2. Last(f).blocks \in Int
    BY <2>1 DEF Frame
  <2>3. QED
    BY <2>2
<1> DEFINE rest == total - Last(f).blocks
<1>9. AddUp(Append(g, x), rest + x.blocks)
  <2> HIDE DEF rest
  <2>1. rest \in Int /\ AddUp(g, rest) /\ g \in Frames(V)
    BY <1>1, <1>8 DEF rest
  <2>2. QED
    BY <2>1, AddUpPush
<1>10. QED
  BY <1>4, <1>7, <1>9
-----------------------------------------------------------------------------
(***************************************************************************)
(* The places of the parser.                                               *)
(***************************************************************************)

Placed ==
  /\ text \in Chars /\ length \in 0..Len(text) /\ offset \in 0..length
  /\ pc \in {"start", "value", "element", "name", "colon", "after", "fail",
             "parsed", "failed"}
  /\ pc \in {"element", "name"} => offset < length
  /\ pc \notin {"parsed", "failed"} => end = 0
  /\ pc = "parsed" => end \in 0..length
  /\ pc = "failed" => end \in Int /\ (length > 0 => end \in 0..length - 1)

\* A string that is read ends in the text and is a value that hangs by one
\* block, and if it cannot be read nothing is kept of it.
LEMMA StringStep ==
  ASSUME Placed, offset < length, NEW next, parse_string(next)
  PROVE  /\ offset' \in 0..length
         /\ \/ pc' = "fail" /\ UNCHANGED <<value, blocks>>
            \/ /\ pc' = next /\ blocks' = blocks + 1 /\ value'.blocks = 1
               /\ \E c \in Chars : value'.node = Leaf("string", CString(c))
<1> DEFINE o == offset + 1
           e == StringEnd(o)
           bad == {i \in Escapes(o) \cap o..e - 1 : At(i + 1) \notin DOMAIN Unescape}
<1>1. length \in Nat /\ length <= Len(text) /\ text \in Chars
      /\ offset \in 0..length /\ o \in 0..length
  BY DEF Placed, Chars
<1>2. e \in o..length
  BY <1>1, StringInside
<1> HIDE DEF e
<1>3. CASE At(offset) # "q" \/ e = length
  BY <1>1, <1>3 DEF parse_string, Fail, Goto, e
<1>4. CASE At(offset) = "q" /\ e # length
  <2>1. \/ Fail(o) /\ UNCHANGED <<value, out, blocks>>
        \/ bad # {} /\ Fail(Min(bad)) /\ UNCHANGED <<value, out, blocks>>
        \/ /\ bad = {} /\ Goto(e + 1, next) /\ blocks' = blocks + 1
           /\ value' = [node |-> Leaf("string", CString(Contents(o, e))), blocks |-> 1]
    BY <1>4, Zenon DEF parse_string, e
  <2>2. ASSUME bad # {} PROVE Min(bad) \in 0..length
    <3>1. bad \subseteq Nat /\ bad \subseteq 0..length
      BY <1>1, <1>2
    <3> HIDE DEF bad
    <3>2. QED
      BY <2>2, <3>1, MinIsLeast
  <2>3. ASSUME bad = {} PROVE Contents(o, e) \in Chars
    <3>1. \A i \in Escapes(o) \cap o..e - 1 : At(i + 1) \in DOMAIN Unescape
      BY <2>3
    <3> HIDE DEF o, bad
    <3>2. QED
      BY <1>1, <1>2, <3>1, ContentsType
  <2>4. e + 1 \in 0..length
    BY <1>1, <1>2, <1>4
  <2> HIDE DEF bad
  <2>5. QED
    BY <1>1, <2>1, <2>2, <2>3, <2>4 DEF Fail, Goto
<1>5. QED
  BY <1>3, <1>4

\* What is written for a string is at most as long as what was measured.
LEMMA StringMeasured ==
  ASSUME Placed, offset < length, NEW next, parse_string(next)
  PROVE  UNCHANGED out \/ out'.used <= out'.size
<1> DEFINE o == offset + 1
           e == StringEnd(o)
           bad == {i \in Escapes(o) \cap o..e - 1 : At(i + 1) \notin DOMAIN Unescape}
           gone == Cardinality(Escapes(o) \cap o..e - 1)
<1>1. length \in Nat /\ length <= Len(text) /\ text \in Chars
      /\ offset \in 0..length /\ o \in 0..length
  BY DEF Placed, Chars
<1>2. e \in o..length
  BY <1>1, StringInside
<1>3. \/ UNCHANGED out
      \/ bad = {} /\ out' = [size |-> Measured(o, e), used |-> Len(Contents(o, e)) + 1]
  BY Zenon DEF parse_string
<1>4. SUFFICES ASSUME bad = {},
                      out' = [size |-> Measured(o, e), used |-> Len(Contents(o, e)) + 1]
               PROVE  out'.used <= out'.size
  BY <1>3
<1>5. \A i \in Escapes(o) \cap o..e - 1 : At(i + 1) \in DOMAIN Unescape
  BY <1>4
<1>6. gone \in Nat /\ Len(Contents(o, e)) = e - o - gone
  <2> HIDE DEF o, e, bad
  <2>1. QED
    BY <1>1, <1>2, <1>5, ContentsLength
<1>7. Measured(o, e) = e - (o - 1) - gone + 1
  BY DEF Measured
<1>8. o \in Int /\ e \in Int
  <2> HIDE DEF e, o
  <2>1. QED
    BY <1>1, <1>2
<1> HIDE DEF o, e, bad, gone
<1>9. Len(Contents(o, e)) + 1 <= Measured(o, e)
  BY <1>6, <1>7, <1>8
<1>10. QED
  BY <1>4, <1>9

\* The parser begins at the start of a text.
LEMMA PlacedInit == ParseInit => Placed
<1>1. SUFFICES ASSUME ParseInit PROVE Placed
  OBVIOUS
<1>2. PICK t \in Texts : text = t.text /\ length = t.length
  BY <1>1 DEF ParseInit
<1>3. text \in Chars /\ length \in 0..Len(text)
  BY <1>2, TextsAssumption DEF Chars
<1>4. offset = 0 /\ end = 0 /\ pc = "start"
  BY <1>1 DEF ParseInit
<1>5. Len(text) \in Nat
  BY <1>3 DEF Chars
<1>6. QED
  BY <1>3, <1>4, <1>5 DEF Placed

\* No step of the parser leaves the text.
LEMMA PlacedStep == Placed /\ ParseNext => Placed'
<1>1. SUFFICES ASSUME Placed, ParseNext PROVE Placed'
  OBVIOUS
<1>2. length \in Nat /\ length \in 0..Len(text) /\ text \in Chars /\ offset \in 0..length
  BY <1>1 DEF Placed, Chars
<1>3. Same => text' = text /\ length' = length
  BY DEF Same
<1>4. ASSUME NEW o \in 0..length, NEW next \in {"value", "colon", "after", "fail"},
             Goto(o, next), Same, end' = 0
      PROVE  Placed'
  BY <1>2, <1>3, <1>4 DEF Goto, Placed
<1>5. pc \notin {"parsed", "failed"} => end = 0
  BY <1>1 DEF Placed
<1>6. CASE ParseStart
  <2>1. pc = "start" /\ end' = 0 /\ Same
    BY <1>5, <1>6 DEF ParseStart
  <2>2. \/ pc' = "failed" /\ offset' = offset
        \/ length > 0 /\ Goto(buffer_skip_whitespace(skip_utf8_bom), "value")
    BY <1>6, Zenon DEF ParseStart
  <2>3. length > 0 => skip_utf8_bom \in 0..length
    BY <1>2 DEF skip_utf8_bom, Is, CanAccess
  <2>4. length > 0 => buffer_skip_whitespace(skip_utf8_bom) \in 0..length
    <3> DEFINE b == skip_utf8_bom
    <3> HIDE DEF b
    <3>1. b \in 0..length => buffer_skip_whitespace(b) \in b..length
      BY <1>2, SkipInside
    <3>2. b \in 0..length => b..length \subseteq 0..length
      BY <1>2
    <3>3. QED
      BY <2>3, <3>1, <3>2 DEF b
  <2>5. CASE pc' = "failed" /\ offset' = offset
    BY <1>2, <1>3, <2>1, <2>5 DEF Placed
  <2>6. CASE length > 0 /\ Goto(buffer_skip_whitespace(skip_utf8_bom), "value")
    BY <1>4, <2>1, <2>4, <2>6
  <2>7. QED
    BY <2>2, <2>5, <2>6
<1>7. CASE ParseScalar
  <2>1. pc = "value" /\ end' = 0 /\ Same
    BY <1>5, <1>7 DEF ParseScalar
  <2>2. \/ CanAccess(offset) /\ Goto(offset + 1, "after")
        \/ CanAccess(offset) /\ parse_string("after")
        \/ CanAccess(offset) /\ parse_number
        \/ Fail(offset)
    BY <1>7, Zenon DEF ParseScalar, Is
  <2>3. CASE CanAccess(offset) /\ Goto(offset + 1, "after")
    BY <1>2, <1>4, <2>1, <2>3 DEF CanAccess
  <2>4. CASE CanAccess(offset) /\ parse_string("after")
    <3>1. offset' \in 0..length /\ pc' \in {"fail", "after"}
      BY <1>1, <2>4, StringStep DEF CanAccess
    <3>2. QED
      BY <1>4, <2>1, <3>1 DEF Goto
  <2>5. CASE CanAccess(offset) /\ parse_number
    <3>1. NumberEnd(offset) \in 0..length
      BY <1>2, <2>5, NumberInside DEF CanAccess
    <3>2. Fail(offset) \/ Goto(NumberEnd(offset), "after")
      BY <2>5, Zenon DEF parse_number
    <3>3. QED
      BY <1>2, <1>4, <2>1, <3>1, <3>2 DEF Fail
  <2>6. CASE Fail(offset)
    BY <1>2, <1>4, <2>1, <2>6 DEF Fail
  <2>7. QED
    BY <2>2, <2>3, <2>4, <2>5, <2>6
<1>8. CASE ParseOpen
  <2> DEFINE o == buffer_skip_whitespace(offset + 1)
  <2>1. pc = "value" /\ end' = 0 /\ Same /\ CanAccess(offset)
    BY <1>5, <1>8 DEF ParseOpen, Is
  <2>2. \/ Fail(offset)
        \/ CanAccess(o) /\ Goto(o + 1, "after")
        \/ Goto(o - 1, IF CanAccess(o) THEN "element" ELSE "fail")
    BY <1>8, Zenon DEF ParseOpen, Is
  <2>3. o \in offset + 1..length
    <3>1. offset + 1 \in 0..length
      BY <1>2, <2>1 DEF CanAccess
    <3>2. QED
      BY <1>2, <3>1, SkipInside
  <2> HIDE DEF o
  <2>4. o - 1 \in 0..length /\ (CanAccess(o) => o - 1 < length)
    BY <1>2, <2>3 DEF CanAccess
  <2>5. CASE Fail(offset)
    BY <1>2, <1>4, <2>1, <2>5 DEF Fail
  <2>6. CASE CanAccess(o) /\ Goto(o + 1, "after")
    <3>1. o + 1 \in 0..length
      BY <1>2, <2>3, <2>6 DEF CanAccess
    <3>2. QED
      BY <1>4, <2>1, <2>6, <3>1
  <2>7. CASE Goto(o - 1, IF CanAccess(o) THEN "element" ELSE "fail")
    BY <1>2, <1>3, <2>1, <2>4, <2>7 DEF Goto, Placed
  <2>8. QED
    BY <2>2, <2>5, <2>6, <2>7
<1>9. CASE ParseElement
  <2> DEFINE o == buffer_skip_whitespace(offset + 1)
  <2>1. pc = "element" /\ end' = 0 /\ Same
    BY <1>5, <1>9 DEF ParseElement
  <2>2. \/ Fail(offset)
        \/ Goto(o, "value")
        \/ CanAccess(offset + 1) /\ Goto(o, "name")
    BY <1>9, Zenon DEF ParseElement
  <2>3. o \in 0..length /\ (CanAccess(offset + 1) => o < length)
    <3>1. offset + 1 \in 0..length
      BY <1>1, <1>2, <2>1 DEF Placed
    <3>2. QED
      BY <1>2, <3>1, SkipInside DEF CanAccess
  <2> HIDE DEF o
  <2>4. CASE Fail(offset)
    BY <1>2, <1>4, <2>1, <2>4 DEF Fail
  <2>5. CASE Goto(o, "value")
    BY <1>4, <2>1, <2>3, <2>5
  <2>6. CASE CanAccess(offset + 1) /\ Goto(o, "name")
    BY <1>2, <1>3, <2>1, <2>3, <2>6 DEF Goto, Placed
  <2>7. QED
    BY <2>2, <2>4, <2>5, <2>6
<1>10. CASE ParseName
  <2>1. pc = "name" /\ end' = 0 /\ Same /\ parse_string("colon")
    BY <1>5, <1>10 DEF ParseName
  <2>2. offset' \in 0..length /\ pc' \in {"fail", "colon"}
    BY <1>1, <2>1, StringStep DEF Placed
  <2>3. QED
    BY <1>4, <2>1, <2>2 DEF Goto
<1>11. CASE ParseColon
  <2> DEFINE o == buffer_skip_whitespace(offset)
             v == buffer_skip_whitespace(o + 1)
  <2>1. pc = "colon" /\ end' = 0 /\ Same
    BY <1>5, <1>11 DEF ParseColon
  <2>2. \/ CanAccess(o) /\ Goto(v, "value")
        \/ Fail(o)
    BY <1>11, Zenon DEF ParseColon, Is
  <2>3. o \in 0..length
    BY <1>2, SkipInside
  <2>4. CanAccess(o) => v \in 0..length
    <3> HIDE DEF o
    <3>1. SUFFICES ASSUME CanAccess(o) PROVE v \in 0..length
      OBVIOUS
    <3>2. o + 1 \in 0..length
      BY <1>2, <2>3, <3>1 DEF CanAccess
    <3>3. v \in o + 1..length
      BY <1>2, <3>2, SkipInside
    <3>4. QED
      BY <2>3, <3>3
  <2> HIDE DEF o, v
  <2>5. QED
    BY <1>4, <2>1, <2>2, <2>3, <2>4 DEF Fail
<1>12. CASE ParseAfter
  <2> DEFINE o == buffer_skip_whitespace(offset)
  <2>1. pc = "after" /\ end' = 0 /\ Same
    BY <1>5, <1>12 DEF ParseAfter
  <2>2. \/ CanAccess(o) /\ Goto(o + 1, "after")
        \/ Goto(o, IF CanAccess(o) /\ At(o) = "," THEN "element" ELSE "fail")
    BY <1>12, Zenon DEF ParseAfter, Is
  <2>3. o \in 0..length
    BY <1>2, SkipInside
  <2> HIDE DEF o
  <2>4. CASE CanAccess(o) /\ Goto(o + 1, "after")
    <3>1. o + 1 \in 0..length
      BY <1>2, <2>3, <2>4 DEF CanAccess
    <3>2. QED
      BY <1>4, <2>1, <2>4, <3>1
  <2>5. CASE Goto(o, IF CanAccess(o) /\ At(o) = "," THEN "element" ELSE "fail")
    BY <1>2, <1>3, <2>1, <2>3, <2>5 DEF Goto, Placed, CanAccess
  <2>6. QED
    BY <2>2, <2>4, <2>5
<1>13. CASE ParseEnd
  <2> DEFINE o == IF require THEN buffer_skip_whitespace(offset) ELSE offset
  <2>1. pc = "after" /\ end = 0 /\ Same
    BY <1>5, <1>13 DEF ParseEnd
  <2>2. \/ Fail(o) /\ end' = end
        \/ Goto(o, "parsed") /\ end' = o
    BY <1>13, Zenon DEF ParseEnd
  <2>3. o \in 0..length
    <3>1. buffer_skip_whitespace(offset) \in 0..length
      BY <1>2, SkipInside
    <3>2. QED
      BY <1>2, <3>1
  <2> HIDE DEF o
  <2>4. CASE Fail(o) /\ end' = end
    BY <1>4, <2>1, <2>3, <2>4 DEF Fail
  <2>5. CASE Goto(o, "parsed") /\ end' = o
    BY <1>2, <1>3, <2>1, <2>3, <2>5 DEF Goto, Placed
  <2>6. QED
    BY <2>2, <2>4, <2>5
<1>14. CASE ParseUnwind
  <2>1. pc = "fail" /\ end' = 0 /\ Same /\ UNCHANGED <<offset, pc>>
    BY <1>5, <1>14 DEF ParseUnwind
  <2>2. QED
    BY <1>2, <1>4, <2>1 DEF Goto
<1>15. CASE ParseFail
  <2>1. /\ end' = IF offset < length THEN offset ELSE length - 1
        /\ pc' = "failed" /\ Same /\ offset' = offset
    BY <1>15 DEF ParseFail
  <2>2. QED
    BY <1>2, <1>3, <2>1 DEF Placed
<1>16. QED
  BY <1>1, <1>6, <1>7, <1>8, <1>9, <1>10, <1>11, <1>12, <1>13, <1>14, <1>15
     DEF ParseNext
-----------------------------------------------------------------------------
(***************************************************************************)
(* The calls of the parser, the values they have read and the blocks that  *)
(* hang on them.                                                           *)
(***************************************************************************)

\* V holds the values read so far.
TypedBy(V) ==
  /\ Closed(V) /\ frames \in Frames(V)
  /\ pc \in {"colon", "after", "parsed"} => value.node \in V
  /\ value.blocks \in Int /\ blocks \in Int
Typed == \E V : TypedBy(V)

Nested ==
  /\ depth \in Nat
  /\ pc = "start" => frames = <<>>
  /\ pc \in {"element", "name", "colon"} => frames # <<>>
  /\ pc \notin {"fail", "failed"} => depth = Len(frames) /\ depth <= CJSON_NESTING_LIMIT

\* While a string or a value is in work, its blocks hang on nothing yet.
Counted ==
  /\ pc = "start" => blocks = 0
  /\ pc \in {"value", "element", "name", "fail"} => AddUp(frames, blocks)
  /\ pc \in {"colon", "after"} => AddUp(frames, blocks - value.blocks)
  /\ pc = "parsed" => blocks = 1 + value.blocks
  /\ pc = "failed" => blocks = 0

Parsing == Placed /\ Typed /\ Nested /\ Counted

\* An item without children is a value.
LEMMA LeafIsNode ==
  ASSUME NEW V, NEW type \in Types, NEW c \in Chars
  PROVE  IsNode(Leaf(type, c), V)
<1>1. <<>> \in Kids(V)
  BY EmptySeq DEF Kids
<1>2. QED
  BY <1>1 DEF IsNode, Leaf, Node

\* The running calls are calls over every larger set of values.
LEMMA FramesGrow ==
  ASSUME NEW V, NEW n, Closed(V), IsNode(n, V), NEW f \in Frames(V)
  PROVE  Closed(V \cup {n}) /\ f \in Frames(V \cup {n})
<1>1. Closed(V \cup {n}) /\ Kids(V) \subseteq Kids(V \cup {n})
  BY ClosedGrows
<1>2. Frame(V) \subseteq Frame(V \cup {n})
  BY <1>1 DEF Frame
<1>3. f \in Frames(V \cup {n})
  BY <1>2, SeqMonotonic DEF Frames
<1>4. QED
  BY <1>1, <1>3

\* A value that is read joins the others, and the calls stay.
LEMMA ReadValue ==
  ASSUME NEW V, TypedBy(V), IsNode(value'.node, V), UNCHANGED frames,
         value'.blocks \in Int, blocks' \in Int
  PROVE  Typed'
<1> DEFINE W == V \cup {value'.node}
<1>1. Closed(W) /\ frames' \in Frames(W)
  BY FramesGrow DEF TypedBy
<1>2. value'.node \in W
  OBVIOUS
<1> HIDE DEF W
<1>3. QED
  BY <1>1, <1>2 DEF Typed, TypedBy

\* Reading fails: nothing more is read, and the blocks stay.
LEMMA FailStep ==
  ASSUME Parsing, pc \in {"value", "element", "name", "fail"}, pc' = "fail",
         UNCHANGED <<depth, frames, value, blocks>>
  PROVE  Typed' /\ Nested' /\ Counted'
<1>1. Typed'
  BY DEF Parsing, Typed, TypedBy
<1>2. Nested'
  BY DEF Parsing, Nested
<1>3. Counted'
  BY DEF Parsing, Counted
<1>4. QED
  BY <1>1, <1>2, <1>3

\* A value without children, or a name, is complete.
LEMMA LeafStep ==
  ASSUME Parsing, pc \in {"value", "name"}, NEW c \in Chars, NEW type \in Types,
         pc' = IF pc = "name" THEN "colon" ELSE "after",
         value'.node = Leaf(type, c), value'.blocks \in Int,
         blocks' = blocks + value'.blocks, UNCHANGED <<depth, frames>>
  PROVE  Typed' /\ Nested' /\ Counted'
<1>1. PICK V : TypedBy(V)
  BY DEF Parsing, Typed
<1>2. blocks \in Int /\ blocks' \in Int /\ blocks' - value'.blocks = blocks
  BY <1>1 DEF TypedBy
<1>3. Typed'
  <2>1. IsNode(value'.node, V)
    BY LeafIsNode
  <2>2. QED
    BY <1>1, <1>2, <2>1, ReadValue
<1>4. Nested'
  BY DEF Parsing, Nested
<1>5. Counted'
  BY <1>2 DEF Parsing, Counted
<1>6. QED
  BY <1>3, <1>4, <1>5

\* The parser begins with nothing allocated.
LEMMA ParsingInit == ParseInit => Parsing
<1>1. SUFFICES ASSUME ParseInit PROVE Parsing
  OBVIOUS
<1>2. frames = <<>> /\ blocks = 0 /\ depth = 0 /\ pc = "start" /\ value.blocks = 0
  BY <1>1 DEF ParseInit, Nothing
<1>3. Typed
  <2>1. Closed({}) /\ <<>> \in Frames({})
    BY EmptySeq DEF Closed, Frames
  <2>2. TypedBy({})
    BY <1>2, <2>1 DEF TypedBy
  <2>3. QED
    BY <2>2 DEF Typed
<1>4. Nested
  BY <1>2, LimitAssumption DEF Nested
<1>5. Counted
  BY <1>2 DEF Counted
<1>6. QED
  BY <1>1, <1>3, <1>4, <1>5, PlacedInit DEF Parsing

\* The item that is returned is allocated, or there is none.
LEMMA StartStep ==
  ASSUME Parsing, ParseStart
  PROVE  Typed' /\ Nested' /\ Counted'
<1>1. PICK V : TypedBy(V)
  BY DEF Parsing, Typed
<1>2. pc = "start" /\ UNCHANGED <<depth, frames, value>>
  BY DEF ParseStart
<1>3. \/ pc' = "failed" /\ blocks' = blocks
      \/ pc' = "value" /\ blocks' = blocks + 1
  BY Zenon DEF ParseStart, Goto
<1>4. blocks = 0 /\ frames = <<>> /\ depth = Len(frames) /\ depth <= CJSON_NESTING_LIMIT
      /\ depth \in Nat
  BY <1>2 DEF Parsing, Counted, Nested
<1>5. Typed'
  <2>1. TypedBy(V)'
    BY <1>1, <1>2, <1>3, <1>4 DEF TypedBy
  <2>2. QED
    BY <2>1 DEF Typed
<1>6. Nested'
  BY <1>2, <1>3, <1>4 DEF Nested
<1>7. Counted'
  <2>1. AddUp(<<>>, 1)
    BY AddUpEmpty
  <2>2. QED
    BY <1>2, <1>3, <1>4, <2>1 DEF Counted
<1>8. QED
  BY <1>5, <1>6, <1>7

\* A literal, a string or a number is read.
LEMMA ScalarStep ==
  ASSUME Parsing, ParseScalar
  PROVE  Typed' /\ Nested' /\ Counted'
<1>1. pc = "value" /\ UNCHANGED <<depth, frames>>
  BY DEF ParseScalar
<1>2. length \in Nat /\ length <= Len(text) /\ text \in Chars /\ offset \in 0..length
  BY DEF Parsing, Placed, Chars
<1>3. blocks \in Int
  BY DEF Parsing, Typed, TypedBy
<1>4. \/ pc' = "after" /\ value' = [node |-> Leaf("literal", <<>>), blocks |-> 0]
         /\ blocks' = blocks
      \/ CanAccess(offset) /\ parse_string("after")
      \/ CanAccess(offset) /\ parse_number
      \/ pc' = "fail" /\ UNCHANGED <<value, blocks>>
  BY Zenon DEF ParseScalar, Is, Goto, Fail
<1>5. CASE pc' = "fail" /\ UNCHANGED <<value, blocks>>
  BY <1>1, <1>5, FailStep
<1>6. CASE /\ pc' = "after" /\ value' = [node |-> Leaf("literal", <<>>), blocks |-> 0]
           /\ blocks' = blocks
  <2>1. <<>> \in Chars /\ "literal" \in Types
    BY EmptySeq DEF Chars, Types
  <2>2. value'.node = Leaf("literal", <<>>) /\ value'.blocks = 0
    BY <1>6
  <2>3. QED
    BY <1>1, <1>3, <1>6, <2>1, <2>2, LeafStep
<1>7. CASE CanAccess(offset) /\ parse_string("after")
  <2>1. \/ pc' = "fail" /\ UNCHANGED <<value, blocks>>
        \/ /\ pc' = "after" /\ blocks' = blocks + 1 /\ value'.blocks = 1
           /\ \E c \in Chars : value'.node = Leaf("string", CString(c))
    BY <1>7, StringStep DEF Parsing, CanAccess
  <2>2. "string" \in Types /\ \A c \in Chars : CString(c) \in Chars
    BY CStringType DEF Types
  <2>3. QED
    BY <1>1, <1>5, <2>1, <2>2, LeafStep
<1>8. CASE CanAccess(offset) /\ parse_number
  <2> DEFINE e == NumberEnd(offset)
  <2>1. e \in offset..length
    BY <1>2, <1>8, NumberInside DEF CanAccess
  <2>2. \/ pc' = "fail" /\ UNCHANGED <<value, blocks>>
        \/ /\ pc' = "after" /\ blocks' = blocks
           /\ value' = [node |-> Leaf("number", SubSeq(text, offset + 1, e)), blocks |-> 0]
    BY <1>8, Zenon DEF parse_number, Goto, Fail
  <2> HIDE DEF e
  <2>3. SubSeq(text, offset + 1, e) \in Chars
    <3>1. \A i \in offset + 1..e : text[i] \in Character
      BY <1>2, <2>1, ElementOfSeq DEF Chars
    <3>2. QED
      BY <1>2, <2>1, <3>1, SubSeqProperties DEF Chars
  <2>4. "number" \in Types
    BY DEF Types
  <2>5. CASE /\ pc' = "after" /\ blocks' = blocks
             /\ value' = [node |-> Leaf("number", SubSeq(text, offset + 1, e)), blocks |-> 0]
    <3>1. value'.node = Leaf("number", SubSeq(text, offset + 1, e)) /\ value'.blocks = 0
      BY <2>5
    <3>2. QED
      BY <1>1, <1>3, <2>3, <2>4, <2>5, <3>1, LeafStep
  <2>6. QED
    BY <1>5, <2>2, <2>5
<1>9. QED
  BY <1>4, <1>5, <1>6, <1>7, <1>8

\* A call is a frame, and stays one when its members change.
LEMMA NewFrame ==
  ASSUME NEW V, NEW c \in {"]", "}"}, NEW n \in Chars, NEW k \in Kids(V), NEW b \in Int
  PROVE  [closer |-> c, name |-> n, kids |-> k, blocks |-> b] \in Frame(V)
BY DEF Frame

\* A frame with other blocks is one.
LEMMA MoreBlocks ==
  ASSUME NEW V, NEW x \in Frame(V), NEW b \in Int,
         NEW y, y = [x EXCEPT !.blocks = b]
  PROVE  y \in Frame(V) /\ y.blocks = b
BY DEF Frame

\* A container is empty, or a call begins, or the limit is reached.
LEMMA OpenStep ==
  ASSUME Parsing, ParseOpen
  PROVE  Typed' /\ Nested' /\ Counted'
<1> DEFINE closer == Closer[At(offset)]
           o == buffer_skip_whitespace(offset + 1)
           empty == [node |-> Node(Kind[closer], <<>>, <<>>), blocks |-> 0]
           call == [closer |-> closer, name |-> <<>>, kids |-> <<>>, blocks |-> 0]
<1>1. pc = "value" /\ UNCHANGED blocks /\ (Is(offset, "[") \/ Is(offset, "{"))
  BY DEF ParseOpen
<1>2. PICK V : TypedBy(V)
  BY DEF Parsing, Typed
<1>3. /\ blocks \in Int /\ depth = Len(frames) /\ depth <= CJSON_NESTING_LIMIT
      /\ frames \in Frames(V) /\ depth \in Nat /\ AddUp(frames, blocks)
  BY <1>1, <1>2 DEF TypedBy, Parsing, Nested, Counted
<1>4. closer \in {"]", "}"}
  BY <1>1 DEF Closer, Is
<1>5. \/ pc' = "fail" /\ UNCHANGED <<depth, frames, value>>
      \/ pc' = "after" /\ value' = empty /\ UNCHANGED <<depth, frames>>
      \/ /\ ~(depth >= CJSON_NESTING_LIMIT)
         /\ depth' = depth + 1 /\ pc' = IF CanAccess(o) THEN "element" ELSE "fail"
         /\ frames' = Append(frames, call) /\ UNCHANGED value
  BY Zenon DEF ParseOpen, Fail, Goto
<1> HIDE DEF closer, o
<1>6. CASE pc' = "fail" /\ UNCHANGED <<depth, frames, value>>
  BY <1>1, <1>6, FailStep
<1>7. CASE pc' = "after" /\ value' = empty /\ UNCHANGED <<depth, frames>>
  <2>1. value'.blocks = 0 /\ value'.node = Leaf(Kind[closer], <<>>)
    BY <1>7 DEF Leaf
  <2>2. Kind[closer] \in Types
    BY <1>4 DEF Kind, Types
  <2>3. <<>> \in Chars
    BY EmptySeq DEF Chars
  <2>4. blocks' = blocks + value'.blocks /\ value'.blocks \in Int
        /\ pc' = IF pc = "name" THEN "colon" ELSE "after"
    <3> HIDE DEF empty
    <3>1. blocks' = blocks /\ pc' = "after" /\ pc = "value"
      BY <1>1, <1>7
    <3>2. QED
      BY <1>3, <2>1, <3>1
  <2> HIDE DEF empty
  <2>5. QED
    BY <1>1, <1>7, <2>1, <2>2, <2>3, <2>4, LeafStep
<1>8. CASE /\ ~(depth >= CJSON_NESTING_LIMIT)
           /\ depth' = depth + 1 /\ pc' = IF CanAccess(o) THEN "element" ELSE "fail"
           /\ frames' = Append(frames, call) /\ UNCHANGED value
  <2>1. call \in Frame(V) /\ call.blocks = 0
    <3>1. <<>> \in Chars /\ <<>> \in Kids(V)
      BY EmptySeq DEF Chars, Kids
    <3>2. 0 \in Int /\ call.blocks = 0
      OBVIOUS
    <3>3. QED
      BY <1>4, <3>1, <3>2, NewFrame
  <2> HIDE DEF call
  <2>2. frames' \in Frames(V) /\ Len(frames') = Len(frames) + 1
    BY <1>3, <1>8, <2>1, AppendProperties DEF Frames
  <2>3. AddUp(frames', blocks)
    <3>1. AddUp(frames', blocks + call.blocks)
      BY <1>3, <1>8, <2>1, AddUpPush
    <3>2. QED
      BY <1>3, <2>1, <3>1
  <2>4. Typed'
    <3>1. TypedBy(V)'
      BY <1>1, <1>2, <1>8, <2>2 DEF TypedBy
    <3>2. QED
      BY <3>1 DEF Typed
  <2>5. frames' # <<>>
    BY <1>3, <2>2, EmptySeq DEF Frames
  <2>6. Nested'
    BY <1>3, <1>8, <2>2, <2>5, LimitAssumption DEF Nested
  <2>7. Counted'
    BY <1>1, <1>8, <2>3 DEF Counted
  <2>8. QED
    BY <2>4, <2>6, <2>7
<1>9. QED
  BY <1>5, <1>6, <1>7, <1>8

\* The call that is innermost, and what is left of the list when it changes.
LEMMA InnerCall ==
  ASSUME NEW V, TypedBy(V), frames # <<>>, NEW total \in Int, AddUp(frames, total)
  PROVE  /\ Top \in Frame(V) /\ Top.closer \in {"]", "}"} /\ Top.name \in Chars
         /\ Top.kids \in Kids(V) /\ Top.blocks \in Int
         /\ Len(frames) \in Nat \ {0}
<1>1. frames \in Frames(V)
  BY DEF TypedBy
<1>2. Top \in Frame(V)
  BY <1>1, AddUpPop DEF Top
<1>3. Len(frames) \in Nat \ {0}
  BY <1>1, EmptySeq DEF Frames
<1>4. QED
  BY <1>2, <1>3 DEF Frame

\* The innermost call goes on with its frame changed to x.
LEMMA TopStep ==
  ASSUME NEW V, Closed(V), frames \in Frames(V), frames # <<>>,
         NEW total \in Int, AddUp(frames, total), NEW x \in Frame(V), SetTop(x),
         value'.blocks \in Int, blocks' \in Int,
         blocks' = total - Top.blocks + x.blocks, depth' = Len(frames),
         depth' <= CJSON_NESTING_LIMIT, pc' \in {"value", "element", "name", "fail"}
  PROVE  Typed' /\ Nested' /\ Counted'
<1>1. frames' = [frames EXCEPT ![Len(frames)] = x]
  BY DEF SetTop
<1>2. frames' \in Frames(V) /\ Len(frames') = Len(frames) /\ AddUp(frames', blocks')
  BY <1>1, AddUpTop DEF Top
<1>3. Len(frames) \in Nat \ {0} /\ frames' # <<>>
  BY <1>2, EmptySeq DEF Frames
<1>4. Typed'
  <2>1. TypedBy(V)'
    BY <1>2 DEF TypedBy
  <2>2. QED
    BY <2>1 DEF Typed
<1>5. Nested'
  BY <1>2, <1>3 DEF Nested
<1>6. Counted'
  BY <1>2 DEF Counted
<1>7. QED
  BY <1>4, <1>5, <1>6

\* A child is allocated, and hangs on the innermost call.
LEMMA ElementStep ==
  ASSUME Parsing, ParseElement
  PROVE  Typed' /\ Nested' /\ Counted'
<1> DEFINE b == Top.blocks + 1
           x == [Top EXCEPT !.blocks = b]
<1>1. pc = "element" /\ UNCHANGED <<depth, value>>
  BY DEF ParseElement
<1>2. \/ pc' = "fail" /\ UNCHANGED <<frames, blocks>>
      \/ /\ SetTop(x) /\ blocks' = blocks + 1
         /\ pc' \in {"fail", "name", "value"}
  BY DEF ParseElement, Fail, Goto
<1>3. CASE pc' = "fail" /\ UNCHANGED <<frames, blocks>>
  BY <1>1, <1>3, FailStep
<1>4. CASE /\ SetTop(x) /\ blocks' = blocks + 1
           /\ pc' \in {"fail", "name", "value"}
  <2>1. PICK V : TypedBy(V)
    BY DEF Parsing, Typed
  <2>2. /\ frames # <<>> /\ AddUp(frames, blocks) /\ blocks \in Int /\ Closed(V)
        /\ frames \in Frames(V) /\ value.blocks \in Int
        /\ depth = Len(frames) /\ depth <= CJSON_NESTING_LIMIT
    BY <1>1, <2>1 DEF Parsing, Nested, Counted, TypedBy
  <2>3. Top \in Frame(V) /\ Top.blocks \in Int
    BY <2>1, <2>2, InnerCall
  <2>4. x \in Frame(V) /\ x.blocks = b
    <3>1. b \in Int
      BY <2>3
    <3>2. x = [Top EXCEPT !.blocks = b]
      OBVIOUS
    <3> HIDE DEF b, x
    <3>3. QED
      BY <2>3, <3>1, <3>2, MoreBlocks
  <2> HIDE DEF x
  <2>5. blocks' = blocks - Top.blocks + x.blocks /\ blocks' \in Int
    BY <1>4, <2>2, <2>3, <2>4
  <2>6. depth' = Len(frames) /\ depth' <= CJSON_NESTING_LIMIT /\ value'.blocks \in Int
    BY <1>1, <2>2
  <2>7. QED
    BY <1>4, <2>2, <2>4, <2>5, <2>6, TopStep
<1>5. QED
  BY <1>2, <1>3, <1>4

\* The name of a member is read.
LEMMA NameStep ==
  ASSUME Parsing, ParseName
  PROVE  Typed' /\ Nested' /\ Counted'
<1>1. pc = "name" /\ UNCHANGED <<depth, frames>> /\ parse_string("colon")
  BY DEF ParseName
<1>2. \/ pc' = "fail" /\ UNCHANGED <<value, blocks>>
      \/ /\ pc' = "colon" /\ blocks' = blocks + 1 /\ value'.blocks = 1
         /\ \E c \in Chars : value'.node = Leaf("string", CString(c))
  BY <1>1, StringStep DEF Parsing, Placed
<1>3. "string" \in Types /\ \A c \in Chars : CString(c) \in Chars
  BY CStringType DEF Types
<1>4. QED
  BY <1>1, <1>2, <1>3, FailStep, LeafStep

\* The name hangs on the innermost call, whether a colon follows or not.
LEMMA ColonStep ==
  ASSUME Parsing, ParseColon
  PROVE  Typed' /\ Nested' /\ Counted'
<1> DEFINE b == Top.blocks + value.blocks
           n == value.node.chars
           x == [Top EXCEPT !.name = n, !.blocks = b]
<1>1. pc = "colon" /\ UNCHANGED <<depth, value, blocks>> /\ SetTop(x)
  BY DEF ParseColon
<1>2. pc' \in {"value", "fail"}
  BY DEF ParseColon, Goto, Fail
<1>3. PICK V : TypedBy(V)
  BY DEF Parsing, Typed
<1> DEFINE total == blocks - value.blocks
<1>4. /\ frames # <<>> /\ AddUp(frames, total) /\ blocks \in Int /\ Closed(V)
      /\ frames \in Frames(V) /\ value.blocks \in Int /\ value.node \in V
      /\ depth = Len(frames) /\ depth <= CJSON_NESTING_LIMIT
  BY <1>1, <1>3 DEF Parsing, Nested, Counted, TypedBy
<1>5. total \in Int
  BY <1>4
<1>6. Top \in Frame(V) /\ Top.blocks \in Int
  BY <1>3, <1>4, <1>5, InnerCall
<1>7. value.node.chars \in Chars
  BY <1>4 DEF Closed, IsNode
<1>8. x \in Frame(V) /\ x.blocks = b
  <2>1. b \in Int
    BY <1>4, <1>6
  <2>2. n \in Chars /\ Top \in Frame(V)
    BY <1>6, <1>7
  <2>3. x = [Top EXCEPT !.name = n, !.blocks = b]
    OBVIOUS
  <2> HIDE DEF b, n, x
  <2>4. QED
    <3>1. PICK c \in {"]", "}"}, m \in Chars, k \in Kids(V), bl \in Int :
            Top = [closer |-> c, name |-> m, kids |-> k, blocks |-> bl]
      BY <2>2 DEF Frame
    <3>2. x = [closer |-> c, name |-> n, kids |-> k, blocks |-> b]
      BY <2>3, <3>1
    <3>3. QED
      BY <2>1, <2>2, <3>1, <3>2, NewFrame
<1> HIDE DEF x
<1>9. blocks' = total - Top.blocks + x.blocks /\ blocks' \in Int
  BY <1>1, <1>4, <1>6, <1>8
<1>10. depth' = Len(frames) /\ depth' <= CJSON_NESTING_LIMIT /\ value'.blocks \in Int
  BY <1>1, <1>4
<1> HIDE DEF total
<1>11. QED
  BY <1>1, <1>2, <1>4, <1>5, <1>8, <1>9, <1>10, TopStep

\* A child is complete and hangs on the innermost call, or that call ends.
LEMMA AfterStep ==
  ASSUME Parsing, ParseAfter
  PROVE  Typed' /\ Nested' /\ Counted'
<1> DEFINE child == [name |-> Top.name, node |-> value.node]
           kids == Append(Top.kids, child)
           own == Top.blocks
           more == value.blocks
           hanging == own + more
           node == Node(Kind[Top.closer], <<>>, kids)
           x == [Top EXCEPT !.kids = kids, !.blocks = hanging]
           total == blocks - more
<1>1. pc = "after" /\ frames # <<>> /\ UNCHANGED blocks
  BY DEF ParseAfter
<1>2. \/ /\ pc' = "after" /\ value' = [node |-> node, blocks |-> hanging]
         /\ depth' = depth - 1 /\ frames' = Front(frames)
      \/ /\ pc' \in {"element", "fail"} /\ SetTop(x) /\ UNCHANGED <<depth, value>>
  BY DEF ParseAfter, Goto, Pop
<1>3. PICK V : TypedBy(V)
  BY DEF Parsing, Typed
<1>4. /\ AddUp(frames, total) /\ Closed(V) /\ frames \in Frames(V) /\ value.node \in V
      /\ depth = Len(frames) /\ depth <= CJSON_NESTING_LIMIT /\ depth \in Nat
  BY <1>1, <1>3 DEF Parsing, Nested, Counted, TypedBy
<1>5. blocks \in Int /\ more \in Int /\ total \in Int
  BY <1>3 DEF TypedBy
<1>6. /\ Top \in Frame(V) /\ Top.closer \in {"]", "}"}
      /\ Top.name \in Chars /\ Top.kids \in Kids(V)
  BY <1>1, <1>3, <1>4, <1>5, InnerCall
<1>7. own \in Int /\ Len(frames) \in Nat \ {0}
  BY <1>1, <1>3, <1>4, <1>5, InnerCall
<1>8. hanging \in Int /\ blocks - hanging = total - own /\ blocks = total - own + hanging
  <2>1. total = blocks - more
    OBVIOUS
  <2> HIDE DEF own, more, total
  <2>2. QED
    BY <1>5, <1>7, <2>1
<1>9. kids \in Kids(V)
  <2>1. child \in [name : Chars, node : V]
    BY <1>4, <1>6
  <2>2. Top.kids \in Seq([name : Chars, node : V])
    BY <1>6 DEF Kids
  <2> HIDE DEF child
  <2>3. QED
    BY <2>1, <2>2, AppendProperties DEF Kids
<1> HIDE DEF own, more, hanging, total, kids
<1>10. CASE /\ pc' = "after" /\ value' = [node |-> node, blocks |-> hanging]
            /\ depth' = depth - 1 /\ frames' = Front(frames)
  <2>1. Front(frames) \in Frames(V) /\ Len(Front(frames)) = Len(frames) - 1
        /\ AddUp(Front(frames), total - own)
    BY <1>1, <1>4, <1>5, AddUpPop DEF Top, own
  <2>2. IsNode(node, V)
    <3>1. Kind[Top.closer] \in Types
      BY <1>6 DEF Kind, Types
    <3>2. <<>> \in Chars
      BY EmptySeq DEF Chars
    <3>3. QED
      BY <1>9, <3>1, <3>2 DEF IsNode, Node
  <2> HIDE DEF node
  <2>3. value'.node = node /\ value'.blocks = hanging
    BY <1>10
  <2>4. Typed'
    <3> DEFINE W == V \cup {node}
    <3>1. Closed(W) /\ frames' \in Frames(W)
      BY <1>4, <1>10, <2>1, <2>2, FramesGrow
    <3>2. value'.node \in W
      BY <2>3
    <3> HIDE DEF W
    <3>3. blocks' \in Int /\ value'.blocks \in Int
      BY <1>1, <1>5, <1>8, <2>3
    <3>4. QED
      BY <3>1, <3>2, <3>3 DEF Typed, TypedBy
  <2>5. Nested'
    <3>1. depth' = Len(frames')
      BY <1>4, <1>10, <2>1
    <3>2. depth' \in Nat /\ depth' <= CJSON_NESTING_LIMIT
      <4>1. depth' = depth - 1 /\ depth \in Nat \ {0}
        BY <1>4, <1>7, <1>10
      <4>2. QED
        BY <1>4, <4>1, LimitAssumption
    <3>3. QED
      BY <1>10, <3>1, <3>2 DEF Nested
  <2>6. Counted'
    <3>1. blocks' - value'.blocks = total - own
      BY <1>1, <1>8, <2>3
    <3>2. QED
      BY <1>10, <2>1, <3>1 DEF Counted
  <2>7. QED
    BY <2>4, <2>5, <2>6
<1>11. CASE pc' \in {"element", "fail"} /\ SetTop(x) /\ UNCHANGED <<depth, value>>
  <2>1. x \in Frame(V) /\ x.blocks = hanging
    <3>1. PICK c \in {"]", "}"}, n \in Chars, k \in Kids(V), b \in Int :
            Top = [closer |-> c, name |-> n, kids |-> k, blocks |-> b]
      BY <1>6 DEF Frame
    <3>2. x = [Top EXCEPT !.kids = kids, !.blocks = hanging]
      OBVIOUS
    <3> HIDE DEF x
    <3>3. x = [closer |-> c, name |-> n, kids |-> kids, blocks |-> hanging]
      BY <3>1, <3>2
    <3>4. QED
      BY <1>8, <1>9, <3>1, <3>3, NewFrame
  <2> HIDE DEF x
  <2>2. blocks' = total - Top.blocks + x.blocks /\ blocks' \in Int
    BY <1>1, <1>5, <1>8, <2>1 DEF own
  <2>3. depth' = Len(frames) /\ depth' <= CJSON_NESTING_LIMIT /\ value'.blocks \in Int
    BY <1>4, <1>5, <1>11 DEF more
  <2>4. QED
    BY <1>1, <1>4, <1>5, <1>11, <2>1, <2>2, <2>3, TopStep
<1>12. QED
  BY <1>2, <1>10, <1>11 DEF own, more, hanging, kids

\* The value that was asked for is complete.
LEMMA EndStep ==
  ASSUME Parsing, ParseEnd
  PROVE  Typed' /\ Nested' /\ Counted'
<1>1. pc = "after" /\ frames = <<>> /\ UNCHANGED <<depth, frames, value>>
  BY DEF ParseEnd
<1>2. \/ pc' = "fail" /\ blocks' = blocks - value.blocks
      \/ pc' = "parsed" /\ blocks' = blocks
  BY Zenon DEF ParseEnd, Fail, Goto
<1>3. PICK V : TypedBy(V)
  BY DEF Parsing, Typed
<1>4. /\ AddUp(frames, blocks - value.blocks) /\ blocks \in Int /\ value.blocks \in Int
      /\ value.node \in V
  BY <1>1, <1>3 DEF Parsing, Counted, TypedBy
<1>5. Typed'
  <2>1. TypedBy(V)'
    BY <1>1, <1>2, <1>3, <1>4 DEF TypedBy
  <2>2. QED
    BY <2>1 DEF Typed
<1>6. Nested'
  BY <1>1, <1>2 DEF Parsing, Nested
<1>7. Counted'
  <2>1. blocks - value.blocks = 1
    BY <1>1, <1>4, AddUpEmpty
  <2>2. QED
    BY <1>1, <1>2, <1>4, <2>1 DEF Counted
<1>8. QED
  BY <1>5, <1>6, <1>7

\* The innermost call deletes its list.
LEMMA UnwindStep ==
  ASSUME Parsing, ParseUnwind
  PROVE  Typed' /\ Nested' /\ Counted'
<1>1. /\ pc = "fail" /\ pc' = "fail" /\ frames # <<>> /\ blocks' = blocks - Top.blocks
      /\ frames' = Front(frames) /\ UNCHANGED <<depth, value>>
  BY DEF ParseUnwind, Pop
<1>2. PICK V : TypedBy(V)
  BY DEF Parsing, Typed
<1>3. AddUp(frames, blocks) /\ blocks \in Int /\ frames \in Frames(V)
  BY <1>1, <1>2 DEF Parsing, Counted, TypedBy
<1>4. Front(frames) \in Frames(V) /\ AddUp(Front(frames), blocks - Top.blocks)
  BY <1>1, <1>3, AddUpPop DEF Top
<1>5. Top.blocks \in Int
  BY <1>1, <1>2, <1>3, InnerCall
<1>6. Typed'
  <2>1. TypedBy(V)'
    BY <1>1, <1>2, <1>3, <1>4, <1>5 DEF TypedBy
  <2>2. QED
    BY <2>1 DEF Typed
<1>7. Nested'
  BY <1>1 DEF Parsing, Nested
<1>8. Counted'
  BY <1>1, <1>4 DEF Counted
<1>9. QED
  BY <1>6, <1>7, <1>8

\* The item that was to be returned is deleted.
LEMMA ParseFailStep ==
  ASSUME Parsing, ParseFail
  PROVE  Typed' /\ Nested' /\ Counted'
<1>1. /\ pc = "fail" /\ pc' = "failed" /\ frames = <<>> /\ blocks' = blocks - 1
      /\ UNCHANGED <<depth, frames, value>>
  BY DEF ParseFail
<1>2. PICK V : TypedBy(V)
  BY DEF Parsing, Typed
<1>3. blocks \in Int /\ blocks = 1
  BY <1>1, <1>2, AddUpEmpty DEF Parsing, Counted, TypedBy
<1>4. Typed'
  <2>1. TypedBy(V)'
    BY <1>1, <1>2, <1>3 DEF TypedBy
  <2>2. QED
    BY <2>1 DEF Typed
<1>5. Nested'
  BY <1>1 DEF Parsing, Nested
<1>6. Counted'
  BY <1>1, <1>3 DEF Counted
<1>7. QED
  BY <1>4, <1>5, <1>6

\* Every step of the parser keeps its places, its calls and its count.
LEMMA ParsingStep == Parsing /\ ParseNext => Parsing'
<1>1. SUFFICES ASSUME Parsing, ParseNext PROVE Typed' /\ Nested' /\ Counted'
  BY PlacedStep DEF Parsing
<1>2. CASE ParseStart
  BY <1>1, <1>2, StartStep
<1>3. CASE ParseScalar
  BY <1>1, <1>3, ScalarStep
<1>4. CASE ParseOpen
  BY <1>1, <1>4, OpenStep
<1>5. CASE ParseElement
  BY <1>1, <1>5, ElementStep
<1>6. CASE ParseName
  BY <1>1, <1>6, NameStep
<1>7. CASE ParseColon
  BY <1>1, <1>7, ColonStep
<1>8. CASE ParseAfter
  BY <1>1, <1>8, AfterStep
<1>9. CASE ParseEnd
  BY <1>1, <1>9, EndStep
<1>10. CASE ParseUnwind
  BY <1>1, <1>10, UnwindStep
<1>11. CASE ParseFail
  BY <1>1, <1>11, ParseFailStep
<1>12. QED
  BY <1>1, <1>2, <1>3, <1>4, <1>5, <1>6, <1>7, <1>8, <1>9, <1>10, <1>11 DEF ParseNext
-----------------------------------------------------------------------------
(***************************************************************************)
(* The steps that are left to do.  A step closes if it ends with a null    *)
(* character behind the offset, or will be replaced by steps that do.      *)
(***************************************************************************)

IsStep(x, V) ==
  \/ x.op = "update"
  \/ x.op = "value" /\ x.node \in V /\ x.depth \in Nat
  \/ x.op \in {"elements", "members"} /\ x.kids \in Kids(V) /\ x.depth \in Nat \ {0}
  \/ /\ x.op = "write" /\ x.chars \in Chars /\ x.need \in Nat /\ Len(x.chars) <= x.need
     /\ x.advance \in 0..Len(x.chars)

Closes(x) ==
  \/ x.op \in {"value", "elements", "members"}
  \/ /\ x.op = "write" /\ Len(x.chars) > 0 /\ x.chars[Len(x.chars)] = Nul
     /\ x.advance < Len(x.chars)

Steps(s, V) == \E S : s \in Seq(S) /\ \A x \in S : IsStep(x, V)

\* An update comes only behind a step that closes.
Ordered(s) == \A k \in 2..Len(s) : s[k].op = "update" => Closes(s[k - 1])

\* Such steps replace a step that closes.
Program(s, V) ==
  /\ Steps(s, V) /\ Ordered(s)
  /\ Len(s) > 0 /\ s[1].op # "update" /\ Closes(s[Len(s)])

\* Steps may follow each other.
LEMMA StepsJoin ==
  ASSUME NEW V, NEW s, NEW t, Steps(s, V), Steps(t, V), Ordered(s), Ordered(t),
         Len(s) > 0 /\ Len(t) > 0 /\ t[1].op = "update" => Closes(s[Len(s)])
  PROVE  /\ Steps(s \o t, V) /\ Ordered(s \o t)
         /\ Len(s) \in Nat /\ Len(t) \in Nat /\ Len(s \o t) = Len(s) + Len(t)
         /\ \A k \in 1..Len(s) : (s \o t)[k] = s[k]
         /\ \A k \in 1..Len(t) : (s \o t)[Len(s) + k] = t[k]
<1>1. PICK S : s \in Seq(S) /\ \A x \in S : IsStep(x, V)
  BY DEF Steps
<1>2. PICK T : t \in Seq(T) /\ \A x \in T : IsStep(x, V)
  BY DEF Steps
<1> DEFINE U == S \cup T
           j == s \o t
<1>3. s \in Seq(U) /\ t \in Seq(U) /\ \A x \in U : IsStep(x, V)
  BY <1>1, <1>2, SeqMonotonic
<1> HIDE DEF U
<1>4. /\ j \in Seq(U) /\ Len(j) = Len(s) + Len(t) /\ Len(s) \in Nat /\ Len(t) \in Nat
      /\ \A k \in 1..Len(s) : j[k] = s[k]
      /\ \A k \in 1..Len(t) : j[Len(s) + k] = t[k]
  BY <1>3
<1> HIDE DEF j
<1>5. Steps(j, V)
  BY <1>3, <1>4 DEF Steps
<1>6. ASSUME NEW k \in 2..Len(j), j[k].op = "update" PROVE Closes(j[k - 1])
  <2>1. CASE k <= Len(s)
    <3>1. k \in 2..Len(s) /\ k \in 1..Len(s) /\ k - 1 \in 1..Len(s)
      BY <1>4, <1>6, <2>1
    <3>2. QED
      BY <1>4, <1>6, <3>1 DEF Ordered
  <2>2. CASE k = Len(s) + 1
    <3>1. 1 \in 1..Len(t) /\ Len(s) \in 1..Len(s) /\ k - 1 = Len(s)
      BY <1>4, <1>6, <2>2
    <3>2. j[k] = t[1] /\ j[k - 1] = s[Len(s)]
      BY <1>4, <2>2, <3>1
    <3>3. QED
      BY <1>6, <3>1, <3>2
  <2>3. CASE k > Len(s) + 1
    <3> DEFINE i == k - Len(s)
    <3>1. i \in 2..Len(t) /\ i \in 1..Len(t) /\ i - 1 \in 1..Len(t)
          /\ k = Len(s) + i /\ k - 1 = Len(s) + (i - 1)
      BY <1>4, <1>6, <2>3
    <3> HIDE DEF i
    <3>2. j[k] = t[i] /\ j[k - 1] = t[i - 1]
      BY <1>4, <3>1
    <3>3. QED
      BY <1>6, <3>1, <3>2 DEF Ordered
  <2>4. QED
    BY <1>4, <1>6, <2>1, <2>2, <2>3
<1>7. QED
  BY <1>4, <1>5, <1>6 DEF Ordered, j

\* What is left when the first step is done.
LEMMA StepsTail ==
  ASSUME NEW V, NEW s, Steps(s, V), Ordered(s), s # <<>>
  PROVE  /\ Len(s) \in Nat \ {0} /\ IsStep(s[1], V)
         /\ Steps(Tail(s), V) /\ Ordered(Tail(s)) /\ Len(Tail(s)) = Len(s) - 1
         /\ \A k \in 1..Len(s) - 1 : Tail(s)[k] = s[k + 1]
<1>1. PICK S : s \in Seq(S) /\ \A x \in S : IsStep(x, V)
  BY DEF Steps
<1>2. Len(s) \in Nat \ {0} /\ s[1] \in S
  BY <1>1, EmptySeq, ElementOfSeq
<1> DEFINE t == Tail(s)
<1>3. t \in Seq(S) /\ Len(t) = Len(s) - 1 /\ \A k \in 1..Len(t) : t[k] = s[k + 1]
  BY <1>1, HeadTailProperties
<1> HIDE DEF t
<1>4. Steps(t, V)
  BY <1>1, <1>3 DEF Steps
<1>5. ASSUME NEW k \in 2..Len(t), t[k].op = "update" PROVE Closes(t[k - 1])
  <2>1. k \in 1..Len(t) /\ k - 1 \in 1..Len(t) /\ k + 1 \in 2..Len(s) /\ k + 1 - 1 = k
        /\ k - 1 + 1 = k
    BY <1>2, <1>3, <1>5
  <2>2. t[k] = s[k + 1] /\ t[k - 1] = s[k]
    BY <1>3, <2>1
  <2>3. QED
    BY <1>5, <2>1, <2>2 DEF Ordered
<1>6. QED
  BY <1>1, <1>2, <1>3, <1>4, <1>5 DEF Ordered, t

\* What is written is a step; with a null character behind the offset it closes.
LEMMA WriteIsStep ==
  ASSUME NEW V, NEW s \in Chars
  PROVE  /\ IsStep(Put(s), V) /\ Put(s).op = "write"
         /\ IsStep(PutNul(s), V) /\ PutNul(s).op = "write" /\ Closes(PutNul(s))
         /\ IsStep(Leave(s), V) /\ Leave(s).op = "write" /\ Closes(Leave(s))
<1> DEFINE n == Append(s, Nul)
<1>1. Len(s) \in Nat
  BY DEF Chars
<1>2. n \in Chars /\ Len(n) = Len(s) + 1 /\ n[Len(s) + 1] = Nul
  <2>1. Nul \in Character
    BY DEF Nul, Character
  <2>2. QED
    BY <2>1, AppendProperties DEF Chars
<1> HIDE DEF n
<1>3. /\ Put(s).op = "write" /\ Put(s).chars = s /\ Put(s).need = Len(s)
      /\ Put(s).advance = Len(s)
  BY DEF Put, Write
<1>4. /\ PutNul(s).op = "write" /\ PutNul(s).chars = n /\ PutNul(s).need = Len(s) + 1
      /\ PutNul(s).advance = Len(s)
  BY DEF PutNul, Write, n
<1>5. /\ Leave(s).op = "write" /\ Leave(s).chars = n /\ Leave(s).need = Len(s) + 1
      /\ Leave(s).advance = 0
  BY DEF Leave, Write, n
<1>6. IsStep(Put(s), V)
  BY <1>1, <1>3 DEF IsStep
<1>7. IsStep(PutNul(s), V) /\ Closes(PutNul(s))
  BY <1>1, <1>2, <1>4 DEF IsStep, Closes
<1>8. IsStep(Leave(s), V) /\ Closes(Leave(s))
  BY <1>1, <1>2, <1>5 DEF IsStep, Closes
<1>9. QED
  BY <1>3, <1>4, <1>5, <1>6, <1>7, <1>8

\* Single steps, and a step that closes with its update behind it.
LEMMA OneStep ==
  ASSUME NEW V, NEW a, IsStep(a, V), a.op # "update"
  PROVE  /\ Steps(<<a>>, V) /\ Ordered(<<a>>) /\ Len(<<a>>) = 1 /\ <<a>>[1] = a
         /\ Closes(a) => Program(<<a>>, V)
<1>1. <<a>> \in Seq({a}) /\ Len(<<a>>) = 1 /\ <<a>>[1] = a
  OBVIOUS
<1>2. Steps(<<a>>, V)
  <2> DEFINE S == {a}
  <2>1. (\A x \in S : IsStep(x, V)) /\ <<a>> \in Seq(S)
    OBVIOUS
  <2> HIDE DEF S
  <2>2. QED
    BY <2>1 DEF Steps
<1>3. Ordered(<<a>>)
  BY <1>1 DEF Ordered
<1>4. QED
  BY <1>1, <1>2, <1>3 DEF Program

\* An order that leaves the offset behind, and the measurement.
LEMMA UpdatedStep ==
  ASSUME NEW V, NEW a, IsStep(a, V), Closes(a), a.op # "update"
  PROVE  /\ Steps(<<a, Update>>, V) /\ Ordered(<<a, Update>>)
         /\ Len(<<a, Update>>) = 2 /\ <<a, Update>>[1] = a
<1> DEFINE u == Update
<1>1. u.op = "update" /\ IsStep(u, V)
  BY DEF Update, IsStep
<1> HIDE DEF u
<1>2. <<a, u>> \in Seq({a, u}) /\ Len(<<a, u>>) = 2 /\ <<a, u>>[1] = a /\ <<a, u>>[2] = u
  OBVIOUS
<1>3. Steps(<<a, u>>, V)
  <2> DEFINE S == {a, u}
  <2>1. (\A x \in S : IsStep(x, V)) /\ <<a, u>> \in Seq(S)
    BY <1>1
  <2> HIDE DEF S
  <2>2. QED
    BY <2>1 DEF Steps
<1>4. Ordered(<<a, u>>)
  BY <1>2 DEF Ordered
<1>5. QED
  BY <1>2, <1>3, <1>4 DEF u

\* A step and one that closes; and a turn of the loop over the members.
LEMMA TwoSteps ==
  ASSUME NEW V, NEW a, NEW b, IsStep(a, V), IsStep(b, V),
         a.op # "update", b.op # "update", Closes(b)
  PROVE  Program(<<a, b>>, V)
<1> DEFINE s == <<a, b>>
           S == {a, b}
<1>1. s \in Seq(S) /\ Len(s) = 2 /\ s[1] = a /\ s[2] = b
  OBVIOUS
<1>2. \A x \in S : IsStep(x, V)
  OBVIOUS
<1> HIDE DEF s, S
<1>3. Ordered(s)
  BY <1>1 DEF Ordered
<1>4. Steps(s, V)
  BY <1>1, <1>2 DEF Steps
<1>5. QED
  BY <1>1, <1>3, <1>4 DEF Program, s

\* The orders of one member of an object are a program.
LEMMA TurnSteps ==
  ASSUME NEW V, NEW a, NEW b, NEW c, NEW d, NEW e, NEW u,
         IsStep(a, V), IsStep(b, V), IsStep(c, V), IsStep(d, V), IsStep(e, V), IsStep(u, V),
         Closes(a), Closes(c), Closes(e), a.op # "update", b.op # "update",
         c.op # "update", d.op # "update", e.op # "update"
  PROVE  Program(<<a, u, b, c, u, d, e>>, V)
<1> DEFINE s == <<a, u, b, c, u, d, e>>
           S == {a, u, b, c, d, e}
<1>1. s \in Seq(S) /\ Len(s) = 7
  OBVIOUS
<1>2. s[1] = a /\ s[2] = u /\ s[3] = b /\ s[4] = c /\ s[5] = u /\ s[6] = d /\ s[7] = e
  OBVIOUS
<1>3. \A x \in S : IsStep(x, V)
  OBVIOUS
<1> HIDE DEF s, S
<1>4. Ordered(s)
  <2>1. SUFFICES ASSUME NEW k \in 2..7, s[k].op = "update" PROVE Closes(s[k - 1])
    BY <1>1 DEF Ordered
  <2>2. k = 2 \/ k = 5
    <3>1. k = 2 \/ k = 3 \/ k = 4 \/ k = 5 \/ k = 6 \/ k = 7
      OBVIOUS
    <3>2. QED
      BY <1>2, <2>1, <3>1
  <2>3. QED
    BY <1>2, <2>2
<1>5. Steps(s, V)
  BY <1>1, <1>3 DEF Steps
<1>6. QED
  BY <1>1, <1>2, <1>4, <1>5 DEF Program, s

\* A step in front of a program.
LEMMA StepBefore ==
  ASSUME NEW V, NEW s, NEW t, Steps(s, V), Ordered(s), Len(s) > 0, s[1].op # "update",
         Program(t, V)
  PROVE  Program(s \o t, V)
<1>1. /\ Steps(s \o t, V) /\ Ordered(s \o t)
      /\ Len(s) \in Nat /\ Len(t) \in Nat /\ Len(s \o t) = Len(s) + Len(t)
      /\ \A k \in 1..Len(s) : (s \o t)[k] = s[k]
      /\ \A k \in 1..Len(t) : (s \o t)[Len(s) + k] = t[k]
  BY StepsJoin DEF Program
<1>2. Len(t) > 0 /\ Closes(t[Len(t)])
  BY DEF Program
<1> DEFINE j == s \o t
<1> HIDE DEF j
<1>3. 1 \in 1..Len(s) /\ Len(t) \in 1..Len(t) /\ Len(j) > 0
  BY <1>1, <1>2 DEF j
<1>4. j[1] = s[1] /\ j[Len(j)] = t[Len(t)]
  BY <1>1, <1>3 DEF j
<1>5. QED
  BY <1>1, <1>2, <1>3, <1>4 DEF Program, j
-----------------------------------------------------------------------------
(***************************************************************************)
(* What a value, an array and an object are replaced by.                   *)
(***************************************************************************)

\* A character is a sequence of them.
LEMMA OneCharacter == \A c \in Character : <<c>> \in Chars
BY DEF Chars

\* Formatting adds characters or none.
LEMMA FormattedType ==
  ASSUME NEW s \in Chars
  PROVE  Formatted(s) \in Chars
BY EmptySeq DEF Formatted, Chars

\* Blanks are characters.
LEMMA BlanksType ==
  ASSUME NEW n \in Nat
  PROVE  Blanks(n) \in Chars
<1>1. "w" \in Character
  BY DEF Character
<1>2. [i \in 1..n |-> "w"] \in Seq(Character)
  BY <1>1
<1>3. QED
  BY <1>2 DEF Blanks, Chars

\* A string is written with its escapes, and its null character left behind.
LEMMA StringWritten ==
  ASSUME NEW V, NEW s \in Chars
  PROVE  /\ IsStep(print_string_ptr(s), V) /\ Closes(print_string_ptr(s))
         /\ print_string_ptr(s).op = "write"
<1> DEFINE Part(i) == IF s[i] \in DOMAIN Escape THEN <<"b", Escape[s[i]]>> ELSE <<s[i]>>
           parts == [i \in DOMAIN s |-> Part(i)]
           written == <<"q">> \o FlattenSeq(parts) \o <<"q">>
<1>1. ASSUME NEW i \in 1..Len(s) PROVE Part(i) \in Chars
  <2>1. s[i] \in Character
    BY DEF Chars
  <2>2. "b" \in Character
    BY DEF Character
  <2>3. CASE s[i] \in DOMAIN Escape
    <3>1. DOMAIN Escape = {"q", "b", "w"}
      BY DEF Escape
    <3>2. \A c \in {"q", "b", "w"} : Escape[c] \in Character
      BY DEF Escape, Character
    <3>3. Escape[s[i]] \in Character
      BY <2>3, <3>1, <3>2
    <3>4. <<"b", Escape[s[i]]>> \in Seq(Character)
      BY <2>2, <3>3
    <3>5. QED
      BY <2>3, <3>4 DEF Chars
  <2>4. CASE s[i] \notin DOMAIN Escape
    BY <2>1, <2>4 DEF Chars
  <2>5. QED
    BY <2>3, <2>4
<1>2. parts \in Seq(Chars)
  <2>1. DOMAIN s = 1..Len(s) /\ Len(s) \in Nat
    BY LenProperties DEF Chars
  <2> HIDE DEF Part
  <2>2. QED
    BY <1>1, <2>1
<1> HIDE DEF parts
<1>3. FlattenSeq(parts) \in Chars
  BY <1>2, FlattenType DEF Chars
<1>4. <<"q">> \in Chars
  <2>1. "q" \in Character
    BY DEF Character
  <2>2. QED
    BY <2>1 DEF Chars
<1>5. written \in Chars
  <2>1. <<"q">> \o FlattenSeq(parts) \in Chars
    BY <1>3, <1>4, ConcatProperties DEF Chars
  <2>2. QED
    BY <1>4, <2>1, ConcatProperties DEF Chars
<1>6. print_string_ptr(s) = Leave(written)
  BY DEF print_string_ptr, parts
<1>7. QED
  BY <1>5, <1>6, WriteIsStep

\* The steps of an array: a turn of its loop, or its end.
LEMMA ArrayProgram ==
  ASSUME NEW V, Closed(V), NEW kids \in Kids(V), NEW depth_ \in Nat \ {0}
  PROVE  Program(print_array(kids, depth_), V)
<1> DEFINE E(k) == Elements(k, depth_)
           v == Value(kids[1].node, depth_)
<1>1. ASSUME NEW k \in Kids(V)
      PROVE  IsStep(E(k), V) /\ Closes(E(k)) /\ E(k).op # "update"
  BY DEF Elements, IsStep, Closes
<1>2. ASSUME kids # <<>>
      PROVE  /\ IsStep(v, V) /\ Closes(v) /\ v.op # "update"
             /\ Tail(kids) \in Kids(V)
  <2>1. Head(kids) \in [name : Chars, node : V] /\ Tail(kids) \in Kids(V)
    BY <1>2, HeadTailProperties DEF Kids
  <2>2. kids[1].node \in V
    BY <1>2, <2>1 DEF Kids
  <2>3. v.op = "value" /\ v.node = kids[1].node /\ v.depth = depth_
    BY DEF Value
  <2> HIDE DEF v
  <2>4. QED
    BY <2>1, <2>2, <2>3 DEF IsStep, Closes
<1> HIDE DEF E, v
<1>3. CASE kids = <<>>
  <2>1. <<"]">> \in Chars
    <3>1. "]" \in Character
      BY DEF Character
    <3>2. QED
      BY <3>1 DEF Chars
  <2>2. Program(<<Leave(<<"]">>)>>, V)
    BY <2>1, WriteIsStep, OneStep
  <2>3. print_array(kids, depth_) = <<Leave(<<"]">>)>>
    BY <1>3 DEF print_array
  <2>4. QED
    BY <2>2, <2>3
<1>4. CASE kids # <<>> /\ Len(kids) = 1
  <2>1. <<>> \in Kids(V)
    BY EmptySeq DEF Kids
  <2>2. Program(<<E(<<>>)>>, V)
    BY <1>1, <2>1, OneStep
  <2>3. Program(<<v, Update>> \o <<E(<<>>)>>, V)
    BY <1>2, <1>4, <2>2, UpdatedStep, StepBefore
  <2>4. print_array(kids, depth_) = <<v, Update, E(<<>>)>>
    BY <1>4, Zenon DEF print_array, E, v
  <2>5. <<v, Update, E(<<>>)>> = <<v, Update>> \o <<E(<<>>)>>
    OBVIOUS
  <2>6. QED
    BY <2>3, <2>4, <2>5
<1>5. CASE kids # <<>> /\ Len(kids) # 1
  <2> DEFINE p == PutNul(<<",">> \o Formatted(<<"w">>))
  <2>1. <<",">> \in Chars /\ <<"w">> \in Chars
    <3>1. "," \in Character /\ "w" \in Character
      BY DEF Character
    <3>2. QED
      BY <3>1, OneCharacter
  <2>2. <<",">> \o Formatted(<<"w">>) \in Chars
    BY <2>1, FormattedType, ConcatProperties DEF Chars
  <2>3. IsStep(p, V) /\ p.op # "update"
    BY <2>2, WriteIsStep
  <2> HIDE DEF p
  <2>4. Program(<<E(Tail(kids))>>, V)
    BY <1>1, <1>2, <1>5, OneStep
  <2>5. Program(<<p>> \o <<E(Tail(kids))>>, V)
    BY <2>3, <2>4, OneStep, StepBefore
  <2>6. Program(<<v, Update>> \o (<<p>> \o <<E(Tail(kids))>>), V)
    BY <1>2, <1>5, <2>5, UpdatedStep, StepBefore
  <2>7. print_array(kids, depth_) = <<v, Update, p, E(Tail(kids))>>
    BY <1>5, Zenon DEF print_array, E, v, p
  <2>8. <<v, Update, p, E(Tail(kids))>> = <<v, Update>> \o (<<p>> \o <<E(Tail(kids))>>)
    OBVIOUS
  <2>9. QED
    BY <2>6, <2>7, <2>8
<1>6. QED
  BY <1>3, <1>4, <1>5

\* The steps of an object: a turn of its loop, or its end.
LEMMA ObjectProgram ==
  ASSUME NEW V, Closed(V), NEW kids \in Kids(V), NEW depth_ \in Nat \ {0}
  PROVE  Program(print_object(kids, depth_), V)
<1> DEFINE w == Formatted(<<"w">>)
<1>1. w \in Chars /\ <<",">> \in Chars /\ <<":">> \in Chars /\ <<"}">> \in Chars
      /\ <<>> \in Chars
  <2>1. "," \in Character /\ "w" \in Character /\ ":" \in Character /\ "}" \in Character
    BY DEF Character
  <2>2. <<"w">> \in Chars /\ <<",">> \in Chars /\ <<":">> \in Chars /\ <<"}">> \in Chars
    BY <2>1, OneCharacter
  <2>3. <<>> \in Chars
    BY EmptySeq DEF Chars
  <2>4. QED
    BY <2>2, <2>3, FormattedType
<1> HIDE DEF w
<1>2. CASE kids = <<>>
  <2> DEFINE s == Formatted(Blanks(depth_ - 1)) \o <<"}">>
  <2>1. s \in Chars
    <3>1. depth_ - 1 \in Nat
      OBVIOUS
    <3>2. Formatted(Blanks(depth_ - 1)) \in Chars
      BY <3>1, BlanksType, FormattedType
    <3>3. QED
      BY <1>1, <3>2, ConcatProperties DEF Chars
  <2>2. print_object(kids, depth_) = <<Leave(s)>>
    BY <1>2 DEF print_object
  <2> HIDE DEF s
  <2>3. Program(<<Leave(s)>>, V)
    BY <2>1, WriteIsStep, OneStep
  <2>4. QED
    BY <2>2, <2>3
<1>3. CASE kids # <<>>
  <2> DEFINE indent == IF mode.format THEN <<Put(Blanks(depth_))>> ELSE <<>>
             name == print_string_ptr(kids[1].name)
             colon == Put(<<":">> \o w)
             v == Value(kids[1].node, depth_)
             comma == PutNul((IF Len(kids) > 1 THEN <<",">> ELSE <<>>) \o w)
             rest == Members(Tail(kids), depth_)
             turn == <<name, Update, colon, v, Update, comma, rest>>
  <2>1. print_object(kids, depth_) = indent \o turn
    BY <1>3, Zenon DEF print_object, w
  <2>2. kids[1].name \in Chars /\ kids[1].node \in V /\ Tail(kids) \in Kids(V)
    <3>1. Head(kids) \in [name : Chars, node : V] /\ Tail(kids) \in Kids(V)
      BY <1>3, HeadTailProperties DEF Kids
    <3>2. Head(kids) = kids[1]
      BY <1>3 DEF Kids
    <3>3. QED
      BY <3>1, <3>2
  <2>3. IsStep(name, V) /\ Closes(name) /\ name.op = "write"
    BY <2>2, StringWritten
  <2>4. IsStep(colon, V) /\ colon.op = "write"
    <3>1. <<":">> \o w \in Chars
      BY <1>1, ConcatProperties DEF Chars
    <3>2. QED
      BY <3>1, WriteIsStep
  <2>5. IsStep(v, V) /\ Closes(v) /\ v.op # "update"
    <3>1. v.op = "value" /\ v.node = kids[1].node /\ v.depth = depth_
      BY DEF Value
    <3> HIDE DEF v
    <3>2. QED
      BY <2>2, <3>1 DEF IsStep, Closes
  <2>6. IsStep(comma, V) /\ comma.op = "write"
    <3> DEFINE c == IF Len(kids) > 1 THEN <<",">> ELSE <<>>
    <3>1. c \in Chars
      BY <1>1
    <3> HIDE DEF c
    <3>2. c \o w \in Chars
      BY <1>1, <3>1, ConcatProperties DEF Chars
    <3>3. QED
      BY <3>2, WriteIsStep DEF c
  <2>7. IsStep(rest, V) /\ Closes(rest) /\ rest.op # "update"
    <3>1. rest.op = "members" /\ rest.kids = Tail(kids) /\ rest.depth = depth_
      BY DEF Members
    <3> HIDE DEF rest
    <3>2. QED
      BY <2>2, <3>1 DEF IsStep, Closes
  <2>8. indent = <<>> \/ indent = <<Put(Blanks(depth_))>>
    OBVIOUS
  <2> HIDE DEF name, colon, v, comma, rest, indent
  <2>9. Program(turn, V)
    <3>1. IsStep(Update, V)
      BY DEF IsStep, Update
    <3>2. QED
      BY <2>3, <2>4, <2>5, <2>6, <2>7, <3>1, TurnSteps
  <2>10. CASE indent = <<>>
    <3>1. <<>> \o turn = turn
      OBVIOUS
    <3>2. QED
      BY <2>1, <2>9, <2>10, <3>1
  <2>11. CASE indent = <<Put(Blanks(depth_))>>
    <3>1. Blanks(depth_) \in Chars
      BY BlanksType
    <3>2. IsStep(Put(Blanks(depth_)), V) /\ Put(Blanks(depth_)).op = "write"
      BY <3>1, WriteIsStep
    <3> HIDE DEF turn
    <3>3. Program(<<Put(Blanks(depth_))>> \o turn, V)
      BY <2>9, <3>2, OneStep, StepBefore
    <3>4. QED
      BY <2>1, <2>11, <3>3
  <2>12. QED
    BY <2>8, <2>10, <2>11
<1>4. QED
  BY <1>2, <1>3

\* What print_number writes are characters.
LEMMA NumberWritten ==
  ASSUME NEW s \in Chars
  PROVE  print_number(s) \in Chars
<1>1. CASE s \in DOMAIN Rendered
  <2>1. print_number(s) \in Seq({"-", "1", "n"})
    BY <1>1, RenderedAssumption DEF print_number
  <2>2. {"-", "1", "n"} \subseteq Character
    BY DEF Character
  <2>3. QED
    BY <2>1, <2>2 DEF Chars
<1>2. CASE s \notin DOMAIN Rendered
  BY <1>2 DEF print_number
<1>3. QED
  BY <1>1, <1>2

\* The steps of a value of any type.
LEMMA ValueProgram ==
  ASSUME NEW V, Closed(V), NEW node \in V, NEW depth_ \in Nat
  PROVE  Program(print_value(node, depth_), V)
<1>1. node.type \in Types /\ node.chars \in Chars /\ node.kids \in Kids(V)
  BY DEF Closed, IsNode
<1>2. ASSUME NEW s \in Chars
      PROVE  Program(<<Leave(s)>>, V) /\ Program(<<PutNul(s)>>, V)
  <2>1. IsStep(Leave(s), V) /\ Closes(Leave(s)) /\ Leave(s).op # "update"
    BY WriteIsStep
  <2>2. IsStep(PutNul(s), V) /\ Closes(PutNul(s)) /\ PutNul(s).op # "update"
    BY WriteIsStep
  <2>3. QED
    BY <2>1, <2>2, OneStep
<1>3. <<"n">> \in Chars /\ <<"[">> \in Chars /\ <<"{">> \in Chars /\ <<"w">> \in Chars
  <2>1. "n" \in Character /\ "[" \in Character /\ "{" \in Character /\ "w" \in Character
    BY DEF Character
  <2>2. QED
    BY <2>1, OneCharacter
<1>4. CASE node.type = "literal"
  <2>1. print_value(node, depth_) = <<Leave(<<"n">>)>>
    BY <1>4 DEF print_value
  <2>2. QED
    BY <1>2, <1>3, <2>1
<1>5. CASE node.type = "number"
  <2>1. print_value(node, depth_) = <<PutNul(print_number(node.chars))>>
    BY <1>5 DEF print_value
  <2>2. print_number(node.chars) \in Chars
    BY <1>1, NumberWritten
  <2>3. QED
    BY <1>2, <2>1, <2>2
<1>6. CASE node.type = "string"
  <2>1. print_value(node, depth_) = <<print_string_ptr(node.chars)>>
    BY <1>6 DEF print_value
  <2>2. QED
    BY <1>1, <2>1, StringWritten, OneStep
<1>7. CASE node.type = "array"
  <2> DEFINE p == Put(<<"[">>)
             e == Elements(node.kids, depth_ + 1)
  <2>1. print_value(node, depth_) = <<p, e>>
    BY <1>7 DEF print_value
  <2>2. IsStep(p, V) /\ p.op = "write"
    BY <1>3, WriteIsStep
  <2>3. IsStep(e, V) /\ Closes(e) /\ e.op # "update"
    <3>1. e.op = "elements" /\ e.kids = node.kids /\ e.depth = depth_ + 1
      BY DEF Elements
    <3> HIDE DEF e
    <3>2. QED
      BY <1>1, <3>1 DEF IsStep, Closes
  <2> HIDE DEF p, e
  <2>4. QED
    BY <2>1, <2>2, <2>3, TwoSteps
<1>8. CASE node.type = "object"
  <2> DEFINE w == Formatted(<<"w">>)
             p == Write(1 + Len(w) + 1, <<"{">> \o w, 1 + Len(w))
             e == Members(node.kids, depth_ + 1)
  <2>1. print_value(node, depth_) = <<p, e>>
    BY <1>8 DEF print_value
  <2>2. IsStep(p, V) /\ p.op = "write"
    <3>1. w \in Chars
      BY <1>3, FormattedType
    <3> HIDE DEF w
    <3>2. <<"{">> \o w \in Chars /\ Len(<<"{">> \o w) = 1 + Len(w) /\ Len(w) \in Nat
      <4> DEFINE o == <<"{">>
      <4>1. o \in Chars /\ Len(o) = 1
        BY <1>3
      <4> HIDE DEF o
      <4>2. Len(w) \in Nat
        BY <3>1 DEF Chars
      <4>3. o \o w \in Chars /\ Len(o \o w) = Len(o) + Len(w)
        BY <3>1, <4>1, ConcatProperties DEF Chars
      <4>4. QED
        BY <4>1, <4>2, <4>3 DEF o
    <3> DEFINE b == <<"{">> \o w
    <3> HIDE DEF b
    <3>3. /\ p.op = "write" /\ p.need = 1 + Len(w) + 1 /\ p.chars = b
          /\ p.advance = 1 + Len(w)
      BY DEF Write, b
    <3> HIDE DEF p
    <3>4. b \in Chars /\ Len(b) = 1 + Len(w) /\ Len(w) \in Nat
      BY <3>2 DEF b
    <3>5. QED
      BY <3>3, <3>4 DEF IsStep
  <2>3. IsStep(e, V) /\ Closes(e) /\ e.op # "update"
    <3>1. e.op = "members" /\ e.kids = node.kids /\ e.depth = depth_ + 1
      BY DEF Members
    <3> HIDE DEF e
    <3>2. QED
      BY <1>1, <3>1 DEF IsStep, Closes
  <2> HIDE DEF p, e
  <2>4. QED
    BY <2>1, <2>2, <2>3, TwoSteps
<1>9. QED
  BY <1>1, <1>4, <1>5, <1>6, <1>7, <1>8 DEF Types

\* Whatever is expanded is replaced by a program.
LEMMA ExpandProgram ==
  ASSUME NEW V, Closed(V), NEW x, IsStep(x, V), x.op \in {"value", "elements", "members"}
  PROVE  Program(Expand(x), V)
<1>1. CASE x.op = "value"
  <2>1. Expand(x) = print_value(x.node, x.depth) /\ x.node \in V /\ x.depth \in Nat
    BY <1>1 DEF Expand, IsStep
  <2>2. QED
    BY <2>1, ValueProgram
<1>2. CASE x.op = "elements"
  <2>1. Expand(x) = print_array(x.kids, x.depth)
    BY <1>2 DEF Expand
  <2>2. x.kids \in Kids(V) /\ x.depth \in Nat \ {0}
    BY <1>2 DEF IsStep
  <2>3. QED
    BY <2>1, <2>2, ArrayProgram
<1>3. CASE x.op = "members"
  <2>1. Expand(x) = print_object(x.kids, x.depth)
    BY <1>3 DEF Expand
  <2>2. x.kids \in Kids(V) /\ x.depth \in Nat \ {0}
    BY <1>3 DEF IsStep
  <2>3. QED
    BY <2>1, <2>2, ObjectProgram
<1>4. QED
  BY <1>1, <1>2, <1>3
-----------------------------------------------------------------------------
(***************************************************************************)
(* The buffer of the printer, and the steps that write to it.              *)
(***************************************************************************)

Fitting ==
  /\ Len(data) <= size
  /\ at < size \/ (at = 0 /\ data = <<>>)
  /\ size <= INT_MAX \/ \E m \in Modes : size <= m.length

\* While a print fails, its buffer is still allocated unless ensure has set the
\* pointer to it to NULL.
Owned ==
  /\ printing = "idle" => data = <<>> /\ at = 0 /\ size = 0 /\ todo = <<>> /\ buffers = 0
  /\ printing # "idle" => ~(mode.noalloc /\ mode.trim)
  /\ printing = "busy" => buffer = "block"
  /\ printing \in {"busy", "printed"} => buffers = IF mode.noalloc THEN 0 ELSE 1
  /\ printing = "failing" =>
       buffers = IF mode.noalloc \/ buffer = "null" THEN 0 ELSE 1
  /\ printing = "refused" => buffers = 0

Buffered ==
  /\ mode \in Mode /\ data \in Chars /\ at \in 0..Len(data) /\ size \in Nat
  /\ buffer \in {"block", "null"}
  /\ printing \in {"idle", "busy", "failing", "printed", "refused"}
  /\ printing \in {"idle", "busy", "printed"} => Fitting
  /\ Owned

NulBehind == \E i \in at + 1..Len(data) : data[i] = Nul

\* With trim, the last step of a print is an update.
ScheduledBy(V) ==
  /\ Closed(V) /\ Steps(todo, V) /\ Ordered(todo)
  /\ printing = "busy" /\ todo # <<>> /\ todo[1].op = "update" => NulBehind
  /\ printing = "busy" /\ mode.trim =>
       IF todo = <<>> THEN at < Len(data) ELSE todo[Len(todo)].op = "update"
Scheduled == \E V : ScheduledBy(V)

Printing == Buffered /\ Scheduled

\* Nothing is printed before the first parse.
LEMMA PrintingInit == PrintInit => Printing
<1>1. SUFFICES ASSUME PrintInit PROVE Printing
  OBVIOUS
<1>2. /\ data = <<>> /\ size = 0 /\ at = 0 /\ todo = <<>> /\ buffers = 0
      /\ printing = "idle" /\ mode \in Mode /\ buffer = "null"
  BY <1>1 DEF PrintInit, Mode
<1>3. data \in Chars /\ Len(data) = 0
  BY <1>2, EmptySeq DEF Chars
<1>4. Buffered
  BY <1>2, <1>3, IntMaxAssumption DEF Buffered, Fitting, Owned
<1>5. Scheduled
  <2>1. Closed({}) /\ <<>> \in Seq({}) /\ Len(<<>>) = 0
    BY EmptySeq DEF Closed
  <2>2. Steps(todo, {}) /\ Ordered(todo)
    BY <1>2, <2>1 DEF Steps, Ordered
  <2>3. ScheduledBy({})
    BY <1>2, <2>1, <2>2 DEF ScheduledBy
  <2>4. QED
    BY <2>3 DEF Scheduled
<1>6. QED
  BY <1>4, <1>5 DEF Printing

\* The first buffer is allocated, or not.
LEMMA PrintStartStep ==
  ASSUME Printing, NEW V, Closed(V), NEW node \in V, PrintStart(node)
  PROVE  Printing'
<1>1. /\ printing = "idle" /\ data = <<>> /\ at = 0 /\ size = 0 /\ todo = <<>>
      /\ buffers = 0 /\ Len(data) = 0 /\ data \in Chars
  <2>1. printing = "idle" /\ data = <<>> /\ at = 0 /\ size = 0 /\ todo = <<>> /\ buffers = 0
    BY DEF Printing, Buffered, Owned, PrintStart
  <2>2. QED
    BY <2>1, EmptySeq DEF Chars
<1>2. mode' \in Modes /\ data' = <<>> /\ at' = 0
  BY <1>1 DEF PrintStart
<1>3. mode' \in Mode /\ mode'.length \in Nat /\ ~(mode'.noalloc /\ mode'.trim)
  BY <1>2, ModesAssumption DEF Mode
<1>4. \/ printing' = "refused" /\ UNCHANGED <<buffer, size, todo, buffers>>
      \/ /\ printing' = "busy" /\ size' = mode'.length /\ buffer' = "block"
         /\ buffers' = IF mode'.noalloc THEN buffers ELSE buffers + 1
         /\ todo' = <<Value(node, 0)>> \o (IF mode'.trim THEN <<Update>> ELSE <<>>)
  BY Zenon DEF PrintStart
<1>5. CASE printing' = "refused" /\ UNCHANGED <<buffer, size, todo, buffers>>
  <2>1. Buffered'
    BY <1>1, <1>2, <1>3, <1>5 DEF Printing, Buffered, Owned
  <2>2. PICK W : ScheduledBy(W)
    BY DEF Printing, Scheduled
  <2>3. ScheduledBy(W)'
    BY <1>5, <2>2 DEF ScheduledBy
  <2>4. QED
    BY <2>1, <2>3 DEF Printing, Scheduled
<1>6. CASE /\ printing' = "busy" /\ size' = mode'.length /\ buffer' = "block"
           /\ buffers' = IF mode'.noalloc THEN buffers ELSE buffers + 1
           /\ todo' = <<Value(node, 0)>> \o (IF mode'.trim THEN <<Update>> ELSE <<>>)
  <2>1. Buffered'
    <3>1. buffers' = IF mode'.noalloc THEN 0 ELSE 1
      BY <1>1, <1>6
    <3>2. QED
      BY <1>1, <1>2, <1>3, <1>6, <3>1 DEF Buffered, Fitting, Owned
  <2> DEFINE v == Value(node, 0)
             u == Update
  <2>2. v.op = "value" /\ IsStep(v, V) /\ Closes(v)
    <3>1. v.op = "value" /\ v.node = node /\ v.depth = 0
      BY DEF Value
    <3> HIDE DEF v
    <3>2. QED
      BY <3>1 DEF IsStep, Closes
  <2>3. u.op = "update"
    BY DEF Update
  <2>4. todo' = IF mode'.trim THEN <<v>> \o <<u>> ELSE <<v>> \o <<>>
    BY <1>6
  <2> HIDE DEF v, u
  <2>5. todo' = IF mode'.trim THEN <<v, u>> ELSE <<v>>
    <3>1. <<v>> \o <<u>> = <<v, u>>
      <4> DEFINE S == {v, u}
                 s == <<v>>
                 t == <<u>>
                 r == <<v, u>>
      <4>1. s \in Seq(S) /\ t \in Seq(S) /\ r \in Seq(S) /\ Len(s) = 1 /\ Len(t) = 1
            /\ Len(r) = 2 /\ s[1] = v /\ t[1] = u /\ r[1] = v /\ r[2] = u
        OBVIOUS
      <4> HIDE DEF S, s, t, r
      <4>2. /\ s \o t \in Seq(S) /\ Len(s \o t) = 2 /\ (s \o t)[1] = v /\ (s \o t)[2] = u
        <5>1. /\ s \o t \in Seq(S) /\ Len(s \o t) = Len(s) + Len(t)
              /\ \A i \in 1..Len(s) + Len(t) :
                   (s \o t)[i] = IF i <= Len(s) THEN s[i] ELSE t[i - Len(s)]
          BY <4>1, ConcatProperties
        <5>2. Len(s \o t) = 2 /\ \A i \in 1..2 : (s \o t)[i] = IF i <= 1 THEN s[i] ELSE t[i - 1]
          BY <4>1, <5>1
        <5>3. (s \o t)[1] = s[1] /\ (s \o t)[2] = t[1]
          BY <5>2
        <5>4. QED
          BY <4>1, <5>1, <5>2, <5>3
      <4>3. \A i \in 1..2 : (s \o t)[i] = r[i]
        BY <4>1, <4>2
      <4>4. s \o t = r
        BY <4>1, <4>2, <4>3, SeqEqual
      <4>5. QED
        BY <4>4 DEF s, t, r
    <3>2. <<v>> \o <<>> = <<v>>
      OBVIOUS
    <3>3. QED
      BY <2>4, <3>1, <3>2
  <2>6. CASE mode'.trim
    <3>1. todo' = <<v, u>>
      BY <2>5, <2>6
    <3>2. Steps(<<v, u>>, V) /\ Ordered(<<v, u>>) /\ Len(<<v, u>>) = 2 /\ <<v, u>>[1] = v
      BY <2>2, <2>3, UpdatedStep DEF u
    <3>3. <<v, u>>[2] = u /\ <<v, u>> # <<>>
      OBVIOUS
    <3>4. ScheduledBy(V)'
      BY <2>2, <2>3, <3>1, <3>2, <3>3 DEF ScheduledBy
    <3>5. QED
      BY <2>1, <3>4 DEF Printing, Scheduled
  <2>7. CASE ~mode'.trim
    <3>1. todo' = <<v>>
      BY <2>5, <2>7
    <3>2. Steps(<<v>>, V) /\ Ordered(<<v>>) /\ <<v>>[1] = v
      BY <2>2, OneStep
    <3>3. ScheduledBy(V)'
      BY <2>2, <2>7, <3>1, <3>2 DEF ScheduledBy
    <3>4. QED
      BY <2>1, <3>3 DEF Printing, Scheduled
  <2>8. QED
    BY <2>6, <2>7
<1>7. QED
  BY <1>4, <1>5, <1>6

\* A value, an array or an object is replaced by the steps it needs.
LEMMA PrintExpandStep ==
  ASSUME Printing, PrintExpand
  PROVE  Printing'
<1> DEFINE e == Expand(Head1)
           t == Tail(todo)
           n == Len(todo)
<1>1. /\ printing = "busy" /\ todo # <<>> /\ todo[1].op \in {"value", "elements", "members"}
      /\ todo' = e \o t /\ UNCHANGED <<mode, data, buffer, size, at, buffers, printing>>
  BY DEF PrintExpand, Doing, Head1
<1>2. Buffered'
  BY <1>1 DEF Printing, Buffered, Fitting, Owned
<1>3. PICK V : ScheduledBy(V)
  BY DEF Printing, Scheduled
<1>4. Closed(V) /\ Steps(todo, V) /\ Ordered(todo)
  BY <1>3 DEF ScheduledBy
<1>5. /\ n \in Nat \ {0} /\ IsStep(todo[1], V)
      /\ Steps(t, V) /\ Ordered(t) /\ Len(t) = n - 1
      /\ \A k \in 1..n - 1 : t[k] = todo[k + 1]
  BY <1>1, <1>4, StepsTail
<1>6. Program(e, V)
  BY <1>1, <1>4, <1>5, ExpandProgram DEF Head1
<1> HIDE DEF e, t
<1>7. Len(e) > 0 /\ e[1].op # "update" /\ Closes(e[Len(e)]) /\ Steps(e, V) /\ Ordered(e)
  BY <1>6 DEF Program
<1>8. /\ Steps(e \o t, V) /\ Ordered(e \o t)
      /\ Len(e) \in Nat /\ Len(t) \in Nat /\ Len(e \o t) = Len(e) + Len(t)
      /\ \A k \in 1..Len(e) : (e \o t)[k] = e[k]
      /\ \A k \in 1..Len(t) : (e \o t)[Len(e) + k] = t[k]
  <2>1. /\ Steps(e, V) /\ Steps(t, V) /\ Ordered(e) /\ Ordered(t)
        /\ Closes(e[Len(e)])
    BY <1>5, <1>7
  <2>2. QED
    BY <2>1, StepsJoin
<1> DEFINE j == e \o t
<1> HIDE DEF j, n
<1>9. j[1].op # "update"
  <2>1. 1 \in 1..Len(e)
    BY <1>7, <1>8
  <2>2. QED
    BY <1>7, <1>8, <2>1 DEF j
<1>10. ASSUME mode.trim PROVE j[Len(j)].op = "update" /\ j # <<>>
  <2>1. todo[n].op = "update"
    BY <1>1, <1>3, <1>10 DEF ScheduledBy, n
  <2>2. n # 1
    BY <1>1, <2>1
  <2>3. n - 1 \in 1..n - 1 /\ n - 1 \in 1..Len(t) /\ n - 1 + 1 = n /\ Len(t) = n - 1
    BY <1>5, <2>2
  <2>4. t[n - 1] = todo[n]
    BY <1>5, <2>3
  <2>5. j[Len(e) + (n - 1)] = t[n - 1] /\ Len(j) = Len(e) + (n - 1)
    BY <1>8, <2>3 DEF j
  <2>6. Len(j) > 0
    BY <1>7, <1>8, <2>3, <2>5
  <2>7. j # <<>>
    BY <2>6, EmptySeq
  <2>8. QED
    BY <2>1, <2>4, <2>5, <2>7
<1>11. ScheduledBy(V)'
  BY <1>1, <1>4, <1>8, <1>9, <1>10 DEF ScheduledBy, j
<1>12. QED
  BY <1>2, <1>11 DEF Printing, Scheduled

\* What is written ends up in the buffer, the null character behind the offset
\* if the step closes.
LEMMA PutStep ==
  ASSUME Printing, printing = "busy", todo # <<>>, todo[1].op = "write", PutChars,
         UNCHANGED <<mode, buffer, buffers, printing>>,
         Needed <= size', size' \in Nat,
         size' <= INT_MAX \/ \E m \in Modes : size' <= m.length
  PROVE  Printing'
<1> DEFINE x == todo[1]
           c == x.chars
           d == SubSeq(data, 1, at)
           t == Tail(todo)
           n == Len(todo)
<1>1. data' = d \o c /\ at' = at + x.advance /\ todo' = t
  BY DEF PutChars, Head1
<1>2. PICK V : ScheduledBy(V)
  BY DEF Printing, Scheduled
<1>3. Closed(V) /\ Steps(todo, V) /\ Ordered(todo)
  BY <1>2 DEF ScheduledBy
<1>4. /\ n \in Nat \ {0} /\ IsStep(x, V)
      /\ Steps(t, V) /\ Ordered(t) /\ Len(t) = n - 1
      /\ \A k \in 1..n - 1 : t[k] = todo[k + 1]
  BY <1>3, StepsTail
<1>5. c \in Chars /\ x.need \in Nat /\ Len(c) <= x.need /\ x.advance \in 0..Len(c)
  BY <1>4 DEF IsStep
<1>6. data \in Chars /\ at \in 0..Len(data) /\ Len(data) \in Nat
  BY DEF Printing, Buffered, Chars
<1>7. d \in Chars /\ Len(d) = at
  <2>1. \A i \in 1..at : data[i] \in Character
    BY <1>6, ElementOfSeq DEF Chars
  <2>2. (IF 1 <= at THEN at - 1 + 1 ELSE 0) = at
    BY <1>6
  <2>3. QED
    BY <1>6, <2>1, <2>2, SubSeqProperties DEF Chars
<1>8. Needed = x.need + at + 1
  BY DEF Needed, Head1
<1> HIDE DEF x, c, d, t, n
<1>9. Len(c) \in Nat
  BY <1>5 DEF Chars
<1>10. /\ data' \in Chars /\ Len(data') = at + Len(c)
       /\ \A i \in 1..Len(c) : data'[at + i] = c[i]
  <2>1. \A i \in 1..Len(c) : (d \o c)[Len(d) + i] = c[i]
    BY <1>5, <1>7 DEF Chars
  <2>2. d \o c \in Chars /\ Len(d \o c) = Len(d) + Len(c)
    BY <1>5, <1>7, ConcatProperties DEF Chars
  <2>3. QED
    BY <1>1, <1>7, <2>1, <2>2
<1>11. at' \in 0..Len(data') /\ at' < size' /\ Len(data') <= size'
  <2>1. at' = at + x.advance /\ Len(data') = at + Len(c)
    BY <1>1, <1>10
  <2>2. x.need + at + 1 <= size' /\ size' \in Nat
    BY <1>8
  <2>3. at \in Nat /\ x.advance \in Nat /\ x.advance <= Len(c)
    BY <1>5, <1>6, <1>9
  <2>4. QED
    BY <1>5, <1>9, <2>1, <2>2, <2>3, SMTT(30)
<1>12. Buffered'
  BY <1>10, <1>11 DEF Printing, Buffered, Fitting, Owned
<1>13. ASSUME t # <<>>, t[1].op = "update" PROVE NulBehind'
  <2>1. n \in 2..n /\ 1 \in 1..n - 1 /\ 2 \in 2..n
    <3>1. Len(t) # 0
      BY <1>4, <1>13, EmptySeq DEF Steps
    <3>2. QED
      BY <1>4, <3>1
  <2>2. Closes(todo[1])
    <3>1. todo[2].op = "update"
      BY <1>4, <1>13, <2>1
    <3>2. QED
      BY <1>3, <2>1, <3>1 DEF Ordered, n
  <2>3. Len(c) > 0 /\ c[Len(c)] = Nul /\ x.advance < Len(c)
    BY <2>2 DEF Closes, x, c
  <2>4. Len(c) \in 1..Len(c) /\ at + Len(c) \in at' + 1..Len(data')
    BY <1>1, <1>5, <1>6, <1>9, <1>10, <2>3
  <2>5. data'[at + Len(c)] = Nul
    BY <1>10, <2>3, <2>4
  <2>6. QED
    BY <2>4, <2>5 DEF NulBehind
<1>14. ASSUME mode.trim PROVE t # <<>> /\ t[Len(t)].op = "update"
  <2>1. todo[n].op = "update"
    BY <1>2, <1>14 DEF ScheduledBy, n
  <2>2. n # 1
    BY <2>1
  <2>3. n - 1 \in 1..n - 1 /\ n - 1 + 1 = n /\ Len(t) = n - 1 /\ Len(t) > 0
    BY <1>4, <2>2
  <2>4. t[n - 1] = todo[n]
    BY <1>4, <2>3
  <2>5. t # <<>>
    BY <2>3, EmptySeq
  <2>6. QED
    BY <2>1, <2>3, <2>4, <2>5
<1>15. ScheduledBy(V)'
  BY <1>1, <1>3, <1>4, <1>13, <1>14 DEF ScheduledBy
<1>16. QED
  BY <1>12, <1>15 DEF Printing, Scheduled

\* There is room, or a larger buffer is found that has it.
LEMMA PrintWriteStep ==
  ASSUME Printing, PrintWrite
  PROVE  Printing'
<1>1. /\ printing = "busy" /\ todo # <<>> /\ todo[1].op = "write" /\ PutChars
      /\ UNCHANGED <<mode, buffer, buffers, printing>> /\ size' = size /\ Needed <= size
  BY DEF PrintWrite, Doing, Head1
<1>2. size \in Nat /\ (size <= INT_MAX \/ \E m \in Modes : size <= m.length)
  BY <1>1 DEF Printing, Buffered, Fitting
<1>3. QED
  BY <1>1, <1>2, PutStep

\* ensure grows the buffer and keeps the printer's invariant.
LEMMA PrintGrowStep ==
  ASSUME Printing, PrintGrow
  PROVE  Printing'
<1>1. /\ printing = "busy" /\ todo # <<>> /\ todo[1].op = "write" /\ PutChars
      /\ UNCHANGED <<mode, buffer, buffers, printing>> /\ size' = NewSize /\ Needed <= INT_MAX
  BY DEF PrintGrow, Doing, Head1
<1>2. Needed \in Nat
  <2>1. PICK V : ScheduledBy(V)
    BY DEF Printing, Scheduled
  <2>2. IsStep(todo[1], V)
    BY <1>1, <2>1, StepsTail DEF ScheduledBy
  <2>3. todo[1].need \in Nat
    BY <1>1, <2>2 DEF IsStep
  <2>4. at \in Nat
    BY DEF Printing, Buffered, Chars
  <2>5. Needed = todo[1].need + at + 1
    BY DEF Needed, Head1
  <2>6. QED
    BY <2>3, <2>4, <2>5
<1>3. Needed <= NewSize /\ NewSize <= INT_MAX /\ NewSize \in Nat
  BY <1>1, <1>2, IntMaxAssumption DEF NewSize
<1>4. QED
  BY <1>1, <1>3, PutStep

\* A print that fails or has failed writes and does nothing more.
LEMMA StopStep ==
  ASSUME Printing, printing \in {"busy", "failing"}, printing' \in {"failing", "refused"},
         UNCHANGED <<mode, data, at, todo>>, size' \in Nat, buffer' \in {"block", "null"},
         printing' = "failing" =>
           buffers' = IF mode.noalloc \/ buffer' = "null" THEN 0 ELSE 1,
         printing' = "refused" => buffers' = 0
  PROVE  Printing'
<1>1. Buffered'
  BY DEF Printing, Buffered, Owned
<1>2. PICK V : ScheduledBy(V)
  BY DEF Printing, Scheduled
<1>3. ScheduledBy(V)'
  BY <1>2 DEF ScheduledBy
<1>4. QED
  BY <1>1, <1>3 DEF Printing, Scheduled

\* ensure fails without touching the buffer.
LEMMA PrintRefuseStep ==
  ASSUME Printing, PrintRefuse
  PROVE  Printing'
<1>1. /\ printing = "busy" /\ printing' = "failing"
      /\ UNCHANGED <<mode, data, buffer, size, at, todo, buffers>>
  BY DEF PrintRefuse, Doing
<1>2. /\ size \in Nat /\ buffer = "block" /\ buffers = IF mode.noalloc THEN 0 ELSE 1
  BY <1>1 DEF Printing, Buffered, Owned
<1>3. QED
  BY <1>1, <1>2, StopStep

\* ensure fails for want of memory, and has freed the buffer.
LEMMA PrintNoMemoryStep ==
  ASSUME Printing, PrintNoMemory
  PROVE  Printing'
<1>1. /\ printing = "busy" /\ printing' = "failing" /\ buffer' = "null" /\ size' = 0
      /\ buffer = "block" /\ ~mode.noalloc /\ buffers' = buffers - 1
      /\ UNCHANGED <<mode, data, at, todo>>
  BY DEF PrintNoMemory, Doing, Deallocate
<1>2. buffers = 1
  BY <1>1 DEF Printing, Buffered, Owned
<1>3. QED
  BY <1>1, <1>2, StopStep

\* The caller frees the buffer that ensure has left, and only that.
LEMMA PrintFailStep ==
  ASSUME Printing, PrintFail
  PROVE  Printing'
<1>1. /\ printing = "failing" /\ printing' = "refused"
      /\ UNCHANGED <<mode, data, size, at, todo>>
  BY DEF PrintFail
<1>2. /\ size \in Nat /\ buffer \in {"block", "null"} /\ ~(mode.noalloc /\ mode.trim)
      /\ buffers = IF mode.noalloc \/ buffer = "null" THEN 0 ELSE 1
  BY <1>1 DEF Printing, Buffered, Owned
<1>3. buffers' = 0 /\ buffer' \in {"block", "null"}
  BY <1>2 DEF PrintFail, Deallocate
<1>4. QED
  BY <1>1, <1>2, <1>3, StopStep

\* The offset moves to the null character, which is still in the buffer.
LEMMA PrintUpdateStep ==
  ASSUME Printing, PrintUpdate
  PROVE  Printing'
<1> DEFINE Stops == {i \in at..Len(data) : i < Len(data) => data[i + 1] = Nul}
           t == Tail(todo)
           n == Len(todo)
<1>1. /\ printing = "busy" /\ todo # <<>> /\ todo[1].op = "update"
      /\ at' = update_offset /\ todo' = t
      /\ UNCHANGED <<mode, data, buffer, size, buffers, printing>>
  BY DEF PrintUpdate, Doing, Head1
<1>2. PICK V : ScheduledBy(V)
  BY DEF Printing, Scheduled
<1>3. Closed(V) /\ Steps(todo, V) /\ Ordered(todo) /\ NulBehind
  BY <1>1, <1>2 DEF ScheduledBy
<1>4. at \in 0..Len(data) /\ Len(data) \in Nat /\ Len(data) <= size /\ size \in Nat
  BY <1>1 DEF Printing, Buffered, Fitting, Chars
<1>5. PICK i \in at + 1..Len(data) : data[i] = Nul
  BY <1>3 DEF NulBehind
<1>6. at' \in at..Len(data) - 1
  <2>1. i - 1 \in Stops /\ Stops \subseteq Nat
    BY <1>4, <1>5
  <2>2. Min(Stops) \in Stops /\ Min(Stops) <= i - 1
    <3> HIDE DEF Stops
    <3>1. QED
      BY <2>1, MinIsLeast
  <2>3. update_offset = Min(Stops)
    BY DEF update_offset
  <2>4. Min(Stops) \in at..Len(data)
    BY <2>2
  <2> HIDE DEF Stops
  <2>5. QED
    BY <1>1, <1>4, <1>5, <2>2, <2>3, <2>4
<1>7. Buffered'
  BY <1>1, <1>4, <1>6 DEF Printing, Buffered, Fitting, Owned
<1>8. /\ n \in Nat \ {0} /\ Steps(t, V) /\ Ordered(t) /\ Len(t) = n - 1
      /\ \A k \in 1..n - 1 : t[k] = todo[k + 1]
  BY <1>1, <1>3, StepsTail
<1> HIDE DEF t, n
<1>9. ASSUME t # <<>> PROVE n # 1
  BY <1>8, <1>9, EmptySeq DEF Steps
<1>10. ASSUME t # <<>> PROVE t[1].op # "update"
  <2>1. n # 1 /\ 1 \in 1..n - 1 /\ 2 \in 2..n
    BY <1>8, <1>9, <1>10
  <2>2. t[1] = todo[2]
    BY <1>8, <2>1
  <2>3. ~Closes(todo[1])
    BY <1>1 DEF Closes
  <2>4. QED
    BY <1>3, <2>1, <2>2, <2>3 DEF Ordered, n
<1>11. ASSUME mode.trim
       PROVE  IF t = <<>> THEN at' < Len(data) ELSE t[Len(t)].op = "update"
  <2>1. todo[n].op = "update"
    BY <1>1, <1>2, <1>11 DEF ScheduledBy, n
  <2>2. ASSUME t # <<>> PROVE t[Len(t)].op = "update"
    <3>1. n - 1 \in 1..n - 1 /\ n - 1 + 1 = n /\ Len(t) = n - 1
      BY <1>8, <1>9, <2>2
    <3>2. t[n - 1] = todo[n]
      BY <1>8, <3>1
    <3>3. QED
      BY <2>1, <3>1, <3>2
  <2>3. at' < Len(data)
    BY <1>4, <1>6
  <2>4. QED
    BY <2>2, <2>3
<1>12. ScheduledBy(V)'
  BY <1>1, <1>3, <1>8, <1>10, <1>11 DEF ScheduledBy
<1>13. QED
  BY <1>7, <1>12 DEF Printing, Scheduled

\* The answer is cut to its size, or is the buffer.
LEMMA PrintEndStep ==
  ASSUME Printing, PrintEnd
  PROVE  Printing'
<1>1. printing = "busy" /\ todo = <<>> /\ UNCHANGED <<mode, todo>>
  BY DEF PrintEnd
<1>2. CASE printing' = "failing" /\ UNCHANGED <<data, buffer, size, at, buffers>>
  <2>1. size \in Nat /\ buffer = "block" /\ buffers = IF mode.noalloc THEN 0 ELSE 1
    BY <1>1 DEF Printing, Buffered, Owned
  <2>2. QED
    BY <1>1, <1>2, <2>1, StopStep
<1>3. CASE /\ printing' = "printed" /\ UNCHANGED <<at, buffers>>
           /\ buffer' = IF mode.trim THEN "null" ELSE buffer
           /\ data' = IF mode.trim THEN SubSeq(data, 1, at + 1) ELSE data
           /\ size' = IF mode.trim THEN at + 1 ELSE size
  <2>1. PICK V : ScheduledBy(V)
    BY DEF Printing, Scheduled
  <2>2. ScheduledBy(V)'
    BY <1>1, <1>3, <2>1 DEF ScheduledBy
  <2>3. /\ data \in Chars /\ at \in 0..Len(data) /\ Len(data) \in Nat /\ Len(data) <= size
        /\ size \in Nat /\ (size <= INT_MAX \/ \E m \in Modes : size <= m.length)
    BY <1>1 DEF Printing, Buffered, Fitting, Chars
  <2>4. CASE mode.trim
    <3>1. at < Len(data)
      BY <1>1, <2>1, <2>4 DEF ScheduledBy
    <3> DEFINE d == SubSeq(data, 1, at + 1)
    <3>2. d \in Chars /\ Len(d) = at + 1
      <4>1. \A i \in 1..at + 1 : data[i] \in Character
        BY <2>3, <3>1, ElementOfSeq DEF Chars
      <4>2. (IF 1 <= at + 1 THEN at + 1 - 1 + 1 ELSE 0) = at + 1 /\ at + 1 \in Int
        BY <2>3
      <4>3. QED
        BY <4>1, <4>2, SubSeqProperties DEF Chars
    <3> HIDE DEF d
    <3>3. data' = d /\ size' = at + 1 /\ at' = at
      BY <1>3, <2>4 DEF d
    <3>4. data' \in Chars /\ at' \in 0..Len(data') /\ size' \in Nat
          /\ Len(data') <= size' /\ at' < size'
      BY <2>3, <3>2, <3>3
    <3>5. size' <= INT_MAX \/ \E m \in Modes : size' <= m.length
      <4>1. size' <= size /\ size' \in Nat
        BY <2>3, <3>1, <3>3
      <4>2. \A m \in Modes : m.length \in Nat
        BY ModesAssumption DEF Mode
      <4>3. QED
        BY <2>3, <4>1, <4>2, IntMaxAssumption
    <3>6. Buffered'
      BY <1>1, <1>3, <3>4, <3>5 DEF Printing, Buffered, Fitting, Owned
    <3>7. QED
      BY <2>2, <3>6 DEF Printing, Scheduled
  <2>5. CASE ~mode.trim
    <3>1. data' = data /\ size' = size
      BY <1>3, <2>5
    <3>2. Buffered'
      BY <1>1, <1>3, <3>1 DEF Printing, Buffered, Fitting, Owned
    <3>3. QED
      BY <2>2, <3>2 DEF Printing, Scheduled
  <2>6. QED
    BY <2>4, <2>5
<1>4. QED
  BY <1>2, <1>3, Zenon DEF PrintEnd

\* Every step of a print keeps the buffer and the schedule.
LEMMA PrintingStep ==
  ASSUME Printing, PrintNext
  PROVE  Printing'
<1>1. CASE PrintExpand
  BY <1>1, PrintExpandStep
<1>2. CASE PrintWrite
  BY <1>2, PrintWriteStep
<1>3. CASE PrintGrow
  BY <1>3, PrintGrowStep
<1>4. CASE PrintRefuse
  BY <1>4, PrintRefuseStep
<1>5. CASE PrintUpdate
  BY <1>5, PrintUpdateStep
<1>6. CASE PrintEnd
  BY <1>6, PrintEndStep
<1>7. CASE PrintNoMemory
  BY <1>7, PrintNoMemoryStep
<1>8. CASE PrintFail
  BY <1>8, PrintFailStep
<1>9. QED
  BY <1>1, <1>2, <1>3, <1>4, <1>5, <1>6, <1>7, <1>8 DEF PrintNext
-----------------------------------------------------------------------------
(***************************************************************************)
(* The parser and the printer together.                                    *)
(***************************************************************************)

Flags == require \in BOOLEAN /\ oom \in BOOLEAN /\ round \in {1, 2}

Inv == Parsing /\ Printing /\ Flags

\* The invariants hold at the start.
LEMMA InvInit == Init => Inv
<1>1. ASSUME Init PROVE Flags
  <2>1. require \in BOOLEAN /\ oom = FALSE
    BY <1>1, Zenon DEF Init, ParseInit
  <2>2. round = 1
    BY <1>1 DEF Init
  <2>3. oom \in BOOLEAN
    BY <2>1, Zenon
  <2>4. QED
    BY <2>1, <2>2, <2>3 DEF Flags
<1>2. QED
  BY <1>1, ParsingInit, PrintingInit DEF Init, Inv

\* An allocation fails once and for all.
LEMMA FlagsStep ==
  ASSUME Flags, ParseNext
  PROVE  require' \in BOOLEAN /\ oom' \in BOOLEAN
<1>1. require' = require
  BY DEF ParseNext, ParseStart, ParseScalar, ParseOpen, ParseElement, ParseName,
         ParseColon, ParseAfter, ParseEnd, ParseUnwind, ParseFail, Same
<1>2. NoMemory => oom' \in BOOLEAN
  BY Zenon DEF NoMemory
<1>3. UNCHANGED oom => oom' \in BOOLEAN
  BY Zenon DEF Flags
<1>4. NoMemory \/ UNCHANGED oom
  <2>1. \A next : parse_string(next) => NoMemory \/ UNCHANGED oom
    BY Zenon DEF parse_string
  <2>2. parse_number => NoMemory \/ UNCHANGED oom
    BY Zenon DEF parse_number
  <2>3. CASE ParseStart
    BY <2>3, Zenon DEF ParseStart
  <2>4. CASE ParseScalar
    BY <2>1, <2>2, <2>4, Zenon DEF ParseScalar
  <2>5. CASE ParseElement
    BY <2>5, Zenon DEF ParseElement
  <2>6. CASE ParseName
    BY <2>1, <2>6, Zenon DEF ParseName
  <2>7. CASE ParseOpen \/ ParseColon \/ ParseAfter \/ ParseEnd \/ ParseUnwind \/ ParseFail
    BY <2>7 DEF ParseOpen, ParseColon, ParseAfter, ParseEnd, ParseUnwind, ParseFail
  <2>8. QED
    BY <2>3, <2>4, <2>5, <2>6, <2>7, Zenon DEF ParseNext
<1>5. QED
  BY <1>1, <1>2, <1>3, <1>4, Zenon DEF Flags

\* What hangs together with the variables of the parser stays if they stay.
LEMMA ParsingStays ==
  ASSUME Parsing, UNCHANGED parseVars
  PROVE  Parsing'
<1>1. UNCHANGED <<text, length, offset, depth, frames, value, blocks, end, pc>>
  BY DEF parseVars
<1>2. Placed'
  BY <1>1 DEF Parsing, Placed, At
<1>3. Typed'
  BY <1>1 DEF Parsing, Typed, TypedBy
<1>4. Nested'
  BY <1>1 DEF Parsing, Nested
<1>5. Counted'
  BY <1>1 DEF Parsing, Counted
<1>6. QED
  BY <1>2, <1>3, <1>4, <1>5 DEF Parsing

\* A step that does not print keeps the printer's invariant.
LEMMA PrintingStays ==
  ASSUME Printing, UNCHANGED printVars
  PROVE  Printing'
<1>1. UNCHANGED <<mode, data, buffer, size, at, todo, buffers, printing>>
  BY DEF printVars
<1>2. Buffered'
  BY <1>1 DEF Printing, Buffered, Fitting, Owned
<1>3. Scheduled'
  BY <1>1 DEF Printing, Scheduled, ScheduledBy, NulBehind
<1>4. QED
  BY <1>2, <1>3 DEF Printing

\* The output is a text like any other.
LEMMA ParseAgainStep ==
  ASSUME Inv, ParseAgain
  PROVE  Parsing'
<1>1. /\ text' = Append(CString(data), Nul) /\ length' = Len(text')
      /\ offset' = 0 /\ depth' = 0 /\ frames' = <<>> /\ value'.blocks = 0
      /\ blocks' = 0 /\ end' = 0 /\ pc' = "start"
  BY DEF ParseAgain, Nothing
<1>2. CString(data) \in Chars
  BY CStringType DEF Inv, Printing, Buffered
<1>3. text' \in Chars
  <2>1. Nul \in Character
    BY DEF Nul, Character
  <2>2. QED
    BY <1>1, <1>2, <2>1, AppendProperties DEF Chars
<1>4. Len(text') \in Nat
  BY <1>3 DEF Chars
<1>5. Placed'
  BY <1>1, <1>3, <1>4 DEF Placed
<1>6. Typed'
  <2>1. Closed({}) /\ <<>> \in Frames({})
    BY EmptySeq DEF Closed, Frames
  <2>2. TypedBy({})'
    BY <1>1, <2>1 DEF TypedBy
  <2>3. QED
    BY <2>2 DEF Typed
<1>7. Nested'
  BY <1>1, LimitAssumption DEF Nested
<1>8. Counted'
  BY <1>1 DEF Counted
<1>9. QED
  BY <1>5, <1>6, <1>7, <1>8 DEF Parsing

\* No step of the parser but the reading of a string writes one.
LEMMA FitStep ==
  ASSUME Parsing, StringsFit, ParseNext
  PROVE  StringsFit'
<1>1. Placed /\ length \in Nat
  BY DEF Parsing, Placed, Chars
<1>2. CASE ParseScalar
  <2>1. CASE Is(offset, "q") /\ ~Is(offset, "n")
    <3>1. parse_string("after") /\ offset < length
      BY <1>2, <2>1 DEF ParseScalar, Is, CanAccess
    <3>2. QED
      BY <1>1, <3>1, StringMeasured DEF StringsFit
  <2>2. CASE ~(Is(offset, "q") /\ ~Is(offset, "n"))
    BY <1>2, <2>2 DEF ParseScalar, parse_number, StringsFit
  <2>3. QED
    BY <2>1, <2>2
<1>3. CASE ParseName
  <2>1. parse_string("colon") /\ offset < length
    BY <1>1, <1>3 DEF ParseName, Placed
  <2>2. QED
    BY <1>1, <2>1, StringMeasured DEF StringsFit
<1>4. CASE ~ParseScalar /\ ~ParseName
  <2>1. UNCHANGED out
    BY <1>4 DEF ParseNext, ParseStart, ParseOpen, ParseElement, ParseColon,
                ParseAfter, ParseEnd, ParseUnwind, ParseFail
  <2>2. QED
    BY <2>1 DEF StringsFit
<1>5. QED
  BY <1>2, <1>3, <1>4

\* Every step keeps the invariants.
LEMMA InvStep == Inv /\ [Next]_vars => Inv'
<1>1. SUFFICES ASSUME Inv, [Next]_vars PROVE Inv'
  OBVIOUS
<1>2. Parsing /\ Printing /\ Flags
  BY <1>1 DEF Inv
<1>3. CASE ParseText
  <2>1. ParseNext /\ UNCHANGED printVars /\ round' = round
    BY <1>3 DEF ParseText
  <2>2. Parsing' /\ Printing'
    BY <1>2, <2>1, ParsingStep, PrintingStays
  <2>3. require' \in BOOLEAN /\ oom' \in BOOLEAN
    BY <1>2, <2>1, FlagsStep
  <2>4. round' \in {1, 2}
    BY <1>2, <2>1 DEF Flags
  <2>5. QED
    BY <2>2, <2>3, <2>4, Zenon DEF Inv, Flags
<1>4. CASE PrintValue
  <2>1. /\ pc = "parsed" /\ UNCHANGED parseVars /\ round' = round
        /\ PrintStart(value.node) \/ PrintNext
    BY <1>4 DEF PrintValue
  <2>2. Printing'
    <3>1. PICK V : Closed(V) /\ value.node \in V
      BY <1>2, <2>1 DEF Parsing, Typed, TypedBy
    <3>2. QED
      BY <1>2, <2>1, <3>1, PrintStartStep, PrintingStep
  <2>3. Parsing'
    BY <1>2, <2>1, ParsingStays
  <2>4. UNCHANGED <<require, oom, round>>
    BY <2>1 DEF parseVars
  <2>5. Flags'
    BY <1>2, <2>4, Zenon DEF Flags
  <2>6. QED
    BY <2>2, <2>3, <2>5 DEF Inv
<1>5. CASE ParseAgain
  <2>1. Parsing'
    BY <1>1, <1>5, ParseAgainStep
  <2>2. UNCHANGED printVars /\ round' = 2 /\ require' = FALSE /\ oom' = oom
    BY <1>5 DEF ParseAgain
  <2>3. Printing'
    BY <1>2, <2>2, PrintingStays
  <2>4. require' \in BOOLEAN /\ oom' \in BOOLEAN
    BY <1>2, <2>2, Zenon DEF Flags
  <2>5. round' \in {1, 2}
    BY <2>2
  <2>6. QED
    BY <2>1, <2>3, <2>4, <2>5, Zenon DEF Inv, Flags
<1>6. CASE UNCHANGED vars
  <2>1. UNCHANGED parseVars /\ UNCHANGED printVars /\ round' = round
    BY <1>6 DEF vars
  <2>2. Parsing' /\ Printing'
    BY <1>2, <2>1, ParsingStays, PrintingStays
  <2>3. UNCHANGED <<require, oom, round>>
    BY <2>1 DEF parseVars
  <2>4. Flags'
    BY <1>2, <2>3, Zenon DEF Flags
  <2>5. QED
    BY <2>2, <2>4 DEF Inv
<1>7. QED
  BY <1>1, <1>3, <1>4, <1>5, <1>6 DEF Next

\* The invariants of the parser and of the printer always hold.
LEMMA Invariant == Spec => []Inv
BY InvInit, InvStep, PTL DEF Spec
-----------------------------------------------------------------------------
\* The variables keep their types: cJSON.c:262 to 270 and 434 to 444.
THEOREM TypeCorrect == Spec => []TypeOK
<1>1. Inv => TypeOK
  <2>1. SUFFICES ASSUME Inv PROVE TypeOK
    OBVIOUS
  <2>2. Placed /\ Typed /\ Nested /\ Buffered /\ Flags
    BY <2>1 DEF Inv, Parsing, Printing
  <2>3. length \in 0..Len(text) /\ offset \in Nat /\ depth \in Nat
    BY <2>2 DEF Placed, Nested, Chars
  <2>4. end \in Int
    <3>1. length \in Nat
      BY <2>2 DEF Placed, Chars
    <3>2. QED
      BY <2>2, <3>1 DEF Placed
  <2>5. blocks \in Int
    BY <2>2 DEF Typed, TypedBy
  <2>6. size \in Nat /\ at \in Nat /\ mode \in Mode /\ buffer \in {"block", "null"}
        /\ printing \in {"idle", "busy", "failing", "printed", "refused"}
    BY <2>2 DEF Buffered, Chars
  <2>7. buffers \in Int
    <3>1. buffers \in {0, 1}
      BY <2>2 DEF Buffered, Owned
    <3>2. QED
      BY <3>1
  <2>8. QED
    BY <2>2, <2>3, <2>4, <2>5, <2>6, <2>7, Zenon DEF TypeOK, Flags
<1>2. QED
  BY <1>1, Invariant, PTL

\* Whatever the text and its length, no step of the parser reads outside of
\* the text, and the position it reports is in it: can_access_at_index and
\* buffer_skip_whitespace, cJSON.c:277 and 983.
THEOREM ReadsInsideCorrect == Spec => []ReadsInside
<1>1. Inv => ReadsInside
  <2>1. SUFFICES ASSUME Inv PROVE ReadsInside
    OBVIOUS
  <2>2. Placed
    BY <2>1 DEF Inv, Parsing
  <2>3. length \in Nat
    BY <2>2 DEF Placed, Chars
  <2>4. QED
    BY <2>2, <2>3 DEF Placed, ReadsInside, Done
<1>2. QED
  BY <1>1, Invariant, PTL

\* Whatever the nesting, the depth compared with CJSON_NESTING_LIMIT is the
\* number of running calls: parse_array and parse_object, cJSON.c:1362 and 1504.
THEOREM DepthIsNestingCorrect == Spec => []DepthIsNesting
<1>1. Inv => DepthIsNesting
  BY DEF Inv, Parsing, Nested, DepthIsNesting
<1>2. QED
  BY <1>1, Invariant, PTL

\* However many escapes a string has, what is written for it fits into the
\* block that was measured beforehand: parse_string, cJSON.c:730.
THEOREM StringsFitCorrect == Spec => []StringsFit
<1>1. Init => StringsFit
  <2>1. Init => out = [size |-> 1, used |-> 1]
    BY DEF Init, ParseInit
  <2>2. QED
    BY <2>1 DEF StringsFit
<1>2. Inv /\ StringsFit /\ [Next]_vars => StringsFit'
  <2>1. SUFFICES ASSUME Inv, StringsFit, [Next]_vars PROVE StringsFit'
    OBVIOUS
  <2>2. CASE ParseText
    BY <2>1, <2>2, FitStep DEF ParseText, Inv
  <2>3. CASE PrintValue \/ UNCHANGED vars
    BY <2>1, <2>3 DEF PrintValue, parseVars, vars, StringsFit
  <2>4. CASE ParseAgain
    <3>1. out' = [size |-> 1, used |-> 1]
      BY <2>4 DEF ParseAgain
    <3>2. QED
      BY <3>1 DEF StringsFit
  <2>5. QED
    BY <2>1, <2>2, <2>3, <2>4 DEF Next
<1>3. QED
  BY <1>1, <1>2, Invariant, PTL DEF Spec

\* Wherever a parse fails, nothing stays allocated, and what it answers is all
\* that is: the fail labels of cJSON.c:1082, 1441 and 1602.
THEOREM ParseFreesAllCorrect == Spec => []ParseFreesAll
<1>1. Inv => ParseFreesAll
  BY DEF Inv, Parsing, Counted, ParseFreesAll
<1>2. QED
  BY <1>1, Invariant, PTL

\* However often the buffer grows, what is written fits into it: ensure,
\* cJSON.c:447.
THEOREM BufferHoldsCorrect == Spec => []BufferHolds
<1>1. Inv => BufferHolds
  BY DEF Inv, Printing, Buffered, Fitting, BufferHolds
<1>2. QED
  BY <1>1, Invariant, PTL

\* update_offset always finds a null character: cJSON.c:518.
THEOREM TerminatedAtUpdateCorrect == Spec => []TerminatedAtUpdate
<1>1. Inv => TerminatedAtUpdate
  <2>1. SUFFICES ASSUME Inv, Doing({"update"}) PROVE NulBehind
    BY DEF TerminatedAtUpdate, NulBehind
  <2>2. QED
    BY <2>1 DEF Inv, Printing, Scheduled, ScheduledBy, Doing, Head1
<1>2. QED
  BY <1>1, Invariant, PTL

\* A print leaves its answer allocated and nothing else, whatever has failed:
\* where ensure has freed the buffer (cJSON.c:490, 504) its callers find NULL,
\* and where it has not they free it once (cJSON.c:1169, 1211).
THEOREM PrintFreesAllCorrect == Spec => []PrintFreesAll
<1>1. Inv => PrintFreesAll
  BY DEF Inv, Printing, Buffered, Owned, PrintFreesAll
<1>2. QED
  BY <1>1, Invariant, PTL
-----------------------------------------------------------------------------
(***************************************************************************)
(* Concatenations of many parts.                                           *)
(***************************************************************************)

\* A property that holds of 0 and goes from every number to the next one holds
\* of all numbers.
LEMMA ClimbUp ==
  ASSUME NEW n \in Nat, NEW S, 0 \in S,
         \A k \in 1..n : k - 1 \in S => k \in S
  PROVE  \A k \in 0..n : k \in S
<1> DEFINE Missing == {k \in 0..n : k \notin S}
<1>1. SUFFICES ASSUME Missing # {} PROVE FALSE
  OBVIOUS
<1>2. Missing \subseteq Nat
  OBVIOUS
<1>3. PICK k \in Missing : \A j \in Missing : k <= j
  <2> HIDE DEF Missing
  <2>1. QED
    BY <1>1, <1>2, LeastExists
<1>4. k \in 1..n /\ k - 1 \in 0..n /\ k - 1 < k
  BY <1>3
<1>5. k - 1 \in S
  BY <1>3, <1>4
<1>6. QED
  BY <1>3, <1>4, <1>5

\* One more part is joined to what was flattened.
LEMMA FlattenAppend ==
  ASSUME NEW E, NEW seqs \in Seq(Seq(E)), NEW s \in Seq(E)
  PROVE  FlattenSeq(Append(seqs, s)) = FlattenSeq(seqs) \o s
<1> DEFINE n == Len(seqs)
           more == Append(seqs, s)
<1>1. /\ n \in Nat /\ more \in Seq(Seq(E)) /\ more # <<>> /\ Len(more) = n + 1
      /\ \A i \in 1..n : more[i] = seqs[i]
      /\ more[n + 1] = s
  BY AppendProperties
<1> HIDE DEF more
<1> DEFINE Joined(join) ==
             /\ FlattenSeq(more) = join[n + 1]
             /\ \A i \in 1..n + 1 :
                  join[i] = IF i = 1 THEN more[i] ELSE join[i - 1] \o more[i]
<1>2. PICK join : Joined(join)
  <2>1. PICK join : /\ FlattenSeq(more) = join[Len(more)]
                    /\ \A i \in 1..Len(more) :
                         join[i] = IF i = 1 THEN more[i] ELSE join[i - 1] \o more[i]
    BY <1>1, FlattenJoins
  <2>2. Joined(join)
    BY <1>1, <2>1
  <2> HIDE DEF Joined
  <2>3. QED
    BY <2>2
<1>3. CASE seqs = <<>>
  <2>1. n = 0 /\ FlattenSeq(seqs) = <<>>
    BY <1>3 DEF FlattenSeq
  <2>2. FlattenSeq(more) = s
    BY <1>1, <1>2, <2>1
  <2>3. <<>> \o s = s
    BY ConcatEmptySeq
  <2>4. QED
    BY <2>1, <2>2, <2>3 DEF more
<1>4. CASE seqs # <<>>
  <2>1. PICK joined : /\ FlattenSeq(seqs) = joined[n]
                      /\ \A i \in 1..n :
                           joined[i] = IF i = 1 THEN seqs[i] ELSE joined[i - 1] \o seqs[i]
    BY <1>4, FlattenJoins
  <2> DEFINE Same_ == {i \in 1..n : join[i] = joined[i]}
  <2>2. 1 \in 1..n /\ n \in 1..n /\ n + 1 # 1 /\ n + 1 \in 1..n + 1 /\ n + 1 - 1 = n
    BY <1>1, <1>4
  <2> HIDE DEF n
  <2>3. 1 \in Same_
    BY <1>1, <1>2, <2>1, <2>2
  <2>4. ASSUME NEW i \in 2..n, i - 1 \in Same_ PROVE i \in Same_
    <3>1. i \in 1..n /\ i \in 1..n + 1 /\ i # 1 /\ join[i - 1] = joined[i - 1]
      BY <1>1, <2>4
    <3>2. join[i] = join[i - 1] \o more[i] /\ joined[i] = joined[i - 1] \o seqs[i]
      BY <1>2, <2>1, <3>1
    <3>3. QED
      BY <1>1, <3>1, <3>2
  <2>5. n \in Same_
    <3> HIDE DEF Same_
    <3>1. QED
      BY <1>1, <2>2, <2>3, <2>4, Climb
  <2>6. join[n + 1] = join[n] \o more[n + 1]
    <3>1. n \in Nat
      BY <1>1
    <3> DEFINE m == n + 1
    <3>2. m \in 1..n + 1 /\ m # 1 /\ m - 1 = n
      BY <3>1, <2>2
    <3> HIDE DEF m
    <3>3. join[m] = join[m - 1] \o more[m]
      BY <1>2, <3>2
    <3>4. QED
      BY <3>2, <3>3 DEF m
  <2>7. QED
    BY <1>1, <1>2, <2>1, <2>5, <2>6 DEF more
<1>5. QED
  BY <1>3, <1>4

\* A concatenation of three sequences.
LEMMA Associates ==
  ASSUME NEW E, NEW p \in Seq(E), NEW q \in Seq(E), NEW r \in Seq(E)
  PROVE  (p \o q) \o r = p \o (q \o r)
BY ConcatAssociative, SMTT(30)

\* One part more.
LEMMA FlattenMore ==
  ASSUME NEW E, NEW a \in Seq(Seq(E)), NEW u \in Seq(Seq(E)), NEW x \in Seq(E),
         FlattenSeq(a \o u) = FlattenSeq(a) \o FlattenSeq(u)
  PROVE  FlattenSeq(a \o Append(u, x)) = FlattenSeq(a) \o FlattenSeq(Append(u, x))
<1>1. a \o u \in Seq(Seq(E)) /\ <<x>> \in Seq(Seq(E))
  BY ConcatProperties
<1>2. a \o Append(u, x) = Append(a \o u, x)
  <2>1. (a \o u) \o <<x>> = a \o (u \o <<x>>)
    BY <1>1, Associates, SMTT(30)
  <2>2. Append(u, x) = u \o <<x>>
    BY AppendIsConcat
  <2>3. Append(a \o u, x) = (a \o u) \o <<x>>
    BY <1>1, AppendIsConcat
  <2>4. QED
    BY <2>1, <2>2, <2>3, Zenon
<1>3. FlattenSeq(Append(a \o u, x)) = FlattenSeq(a \o u) \o x
  BY <1>1, FlattenAppend
<1>4. FlattenSeq(Append(u, x)) = FlattenSeq(u) \o x
  BY FlattenAppend
<1>5. (FlattenSeq(a) \o FlattenSeq(u)) \o x = FlattenSeq(a) \o (FlattenSeq(u) \o x)
  <2> DEFINE A == FlattenSeq(a)
             B == FlattenSeq(u)
  <2>1. A \in Seq(E) /\ B \in Seq(E)
    BY FlattenType
  <2> HIDE DEF A, B
  <2>2. (A \o B) \o x = A \o (B \o x)
    BY <2>1, Associates, SMTT(30)
  <2>3. QED
    BY <2>2 DEF A, B
<1>6. QED
  BY <1>2, <1>3, <1>4, <1>5, Zenon

\* Two lists of parts are flattened one after the other.
LEMMA FlattenConcat ==
  ASSUME NEW E, NEW a \in Seq(Seq(E)), NEW b \in Seq(Seq(E))
  PROVE  FlattenSeq(a \o b) = FlattenSeq(a) \o FlattenSeq(b)
<1> DEFINE n == Len(b)
           Up(k) == SubSeq(b, 1, k)
           Good == {k \in 0..n : FlattenSeq(a \o Up(k)) = FlattenSeq(a) \o FlattenSeq(Up(k))}
<1>1. n \in Nat /\ FlattenSeq(a) \in Seq(E)
  BY FlattenType
<1>2. 0 \in Good
  <2>1. Up(0) = <<>> /\ 0 \in 0..n
    BY <1>1, SubSeqEmpty
  <2>2. a \o <<>> = a /\ FlattenSeq(<<>>) = <<>> /\ FlattenSeq(a) \o <<>> = FlattenSeq(a)
    BY <1>1, ConcatEmptySeq DEF FlattenSeq
  <2> HIDE DEF n, Up
  <2>3. QED
    BY <2>1, <2>2
<1>3. ASSUME NEW k \in 1..n, k - 1 \in Good PROVE k \in Good
  <2> DEFINE u == Up(k - 1)
             x == b[k]
  <2>1. u \in Seq(Seq(E)) /\ x \in Seq(E)
    <3>1. \A i \in 1..k - 1 : b[i] \in Seq(E)
      BY ElementOfSeq
    <3>2. QED
      BY <1>3, <3>1, SubSeqProperties, ElementOfSeq
  <2>2. Up(k) = Append(u, x)
    <3>1. Up(k) = u \o <<x>>
      BY <1>1, <1>3, SubSeqRecursiveSecond
    <3> HIDE DEF u, x
    <3>2. QED
      BY <2>1, <3>1, AppendIsConcat
  <2>3. FlattenSeq(a \o u) = FlattenSeq(a) \o FlattenSeq(u)
    BY <1>3
  <2> HIDE DEF u, x, n, Up
  <2>4. FlattenSeq(a \o Append(u, x)) = FlattenSeq(a) \o FlattenSeq(Append(u, x))
    BY <2>1, <2>3, FlattenMore
  <2>5. FlattenSeq(a \o Up(k)) = FlattenSeq(a) \o FlattenSeq(Up(k))
    BY <2>2, <2>4, Zenon
  <2>6. QED
    BY <1>1, <1>3, <2>5
<1>4. n \in Good
  <2> HIDE DEF Good, n
  <2>1. n \in 0..n
    BY <1>1
  <2>2. QED
    BY <1>1, <1>2, <1>3, <2>1, ClimbUp
<1>5. Up(n) = b
  BY SubSeqFull
<1>6. QED
  <2> HIDE DEF Up, n
  <2>1. QED
    BY <1>4, <1>5

\* One part, or none, is what it is.
LEMMA FlattenOne ==
  ASSUME NEW E, NEW s \in Seq(E)
  PROVE  FlattenSeq(<<s>>) = s /\ FlattenSeq(<<>>) = <<>>
<1>1. <<>> \in Seq(Seq(E)) /\ Append(<<>>, s) = <<s>>
  OBVIOUS
<1>2. FlattenSeq(<<>>) = <<>>
  BY DEF FlattenSeq
<1>3. FlattenSeq(<<s>>) = <<>> \o s
  BY <1>1, <1>2, FlattenAppend
<1>4. QED
  BY <1>2, <1>3, ConcatEmptySeq

\* The first part, and the others.
LEMMA FlattenFirst ==
  ASSUME NEW E, NEW s \in Seq(E), NEW b \in Seq(Seq(E))
  PROVE  FlattenSeq(<<s>> \o b) = s \o FlattenSeq(b)
<1>1. <<s>> \in Seq(Seq(E))
  OBVIOUS
<1>2. FlattenSeq(<<s>> \o b) = FlattenSeq(<<s>>) \o FlattenSeq(b)
  BY <1>1, FlattenConcat
<1>3. QED
  BY <1>2, FlattenOne
-----------------------------------------------------------------------------
(***************************************************************************)
(* The recursive definitions of trees and of their layouts.                *)
(***************************************************************************)

\* The values that nest no deeper than n, given those of n - 1.
TreesOver(n, g) == IF n = 0 THEN Scalars ELSE Scalars \cup Containers(g[n - 1])

\* Trees is what its recursive definition says.
LEMMA TreesDef ==
  /\ Trees[0] = Scalars
  /\ \A n \in Nat \ {0} : Trees[n] = Scalars \cup Containers(Trees[n - 1])
<1> DEFINE Good(g, m) == \A i \in 0..m : g[i] = TreesOver(i, g)
           Never == {m \in Nat : ~\E g : Good(g, m)}
<1>1. Never = {}
  <2>1. SUFFICES ASSUME Never # {} PROVE FALSE
    OBVIOUS
  <2>2. PICK m \in Never : \A k \in Never : m <= k
    <3>1. Never \subseteq Nat
      OBVIOUS
    <3> HIDE DEF Never
    <3>2. QED
      BY <2>1, <3>1, LeastExists
  <2>3. m \in Nat /\ ~\E g : Good(g, m)
    OBVIOUS
  <2>4. CASE m = 0
    <3> DEFINE g == [i \in 0..0 |-> Scalars]
    <3>1. Good(g, 0)
      BY DEF TreesOver
    <3>2. QED
      BY <2>3, <2>4, <3>1
  <2>5. CASE m # 0
    <3>1. m - 1 \in Nat /\ ~(m <= m - 1)
      BY <2>3, <2>5
    <3>2. PICK g : Good(g, m - 1)
      BY <2>2, <3>1
    <3> DEFINE h == [i \in 0..m |-> IF i = m THEN TreesOver(m, g) ELSE g[i]]
    <3>3. ASSUME NEW i \in 0..m PROVE h[i] = TreesOver(i, h)
      <4>1. TreesOver(i, h) = TreesOver(i, g)
        <5>1. CASE i = 0
          BY <5>1 DEF TreesOver
        <5>2. CASE i # 0
          <6>1. i - 1 \in 0..m /\ i - 1 # m
            BY <2>3, <5>2
          <6>2. h[i - 1] = g[i - 1]
            BY <6>1
          <6> HIDE DEF h
          <6>3. QED
            BY <6>2 DEF TreesOver
        <5>3. QED
          BY <5>1, <5>2
      <4>2. h[i] = TreesOver(i, g)
        <5>1. CASE i = m
          BY <5>1
        <5>2. CASE i # m
          <6>1. i \in 0..m - 1
            BY <2>3, <5>2
          <6>2. g[i] = TreesOver(i, g)
            BY <3>2, <6>1
          <6>3. QED
            BY <5>2, <6>2
        <5>3. QED
          BY <5>1, <5>2
      <4>3. QED
        BY <4>1, <4>2
    <3> HIDE DEF h
    <3>4. Good(h, m)
      BY <3>3
    <3>5. QED
      BY <2>3, <3>4
  <2>6. QED
    BY <2>4, <2>5
<1> DEFINE g(m) == CHOOSE x : Good(x, m)
<1>2. ASSUME NEW m \in Nat PROVE Good(g(m), m)
  <2>1. \E x : Good(x, m)
    BY <1>1
  <2> HIDE DEF Good
  <2>2. QED
    BY <2>1
<1> HIDE DEF g
<1>3. ASSUME NEW m \in Nat, NEW k \in Nat, NEW i \in 0..m, i <= k
      PROVE  g(m)[i] = g(k)[i]
  <2> DEFINE Equal == {j \in 0..i : g(m)[j] = g(k)[j]}
  <2>1. 0 \in Equal
    <3>1. 0 \in 0..m /\ 0 \in 0..k
      BY <1>3
    <3>2. g(m)[0] = TreesOver(0, g(m)) /\ g(k)[0] = TreesOver(0, g(k))
      BY <1>2, <3>1
    <3>3. g(m)[0] = g(k)[0]
      BY <3>2 DEF TreesOver
    <3>4. QED
      BY <1>3, <3>3
  <2>2. ASSUME NEW j \in 1..i, j - 1 \in Equal PROVE j \in Equal
    <3>1. j \in 0..m /\ j \in 0..k /\ j # 0 /\ j \in 0..i
      BY <1>3
    <3>2. g(m)[j] = TreesOver(j, g(m)) /\ g(k)[j] = TreesOver(j, g(k))
      BY <1>2, <3>1
    <3>3. g(m)[j - 1] = g(k)[j - 1]
      BY <2>2
    <3>4. QED
      BY <3>1, <3>2, <3>3 DEF TreesOver
  <2>3. i \in Equal
    <3> HIDE DEF Equal
    <3>1. i \in Nat /\ i \in 0..i
      BY <1>3
    <3>2. QED
      BY <2>1, <2>2, <3>1, ClimbUp
  <2>4. QED
    BY <2>3
<1> DEFINE G == [n \in Nat |-> g(n)[n]]
           Solves(f) == f = [n \in Nat |-> IF n = 0 THEN Scalars
                                           ELSE Scalars \cup Containers(f[n - 1])]
<1>4. Solves(G)
  <2>1. ASSUME NEW n \in Nat
        PROVE  G[n] = IF n = 0 THEN Scalars ELSE Scalars \cup Containers(G[n - 1])
    <3>1. G[n] = TreesOver(n, g(n))
      <4>1. n \in 0..n
        OBVIOUS
      <4>2. g(n)[n] = TreesOver(n, g(n))
        BY <1>2, <4>1
      <4>3. QED
        BY <4>2
    <3>2. CASE n = 0
      BY <3>1, <3>2 DEF TreesOver
    <3>3. CASE n # 0
      <4>1. n - 1 \in Nat /\ n - 1 \in 0..n /\ n - 1 <= n - 1
        BY <3>3
      <4>2. g(n)[n - 1] = g(n - 1)[n - 1]
        BY <1>3, <4>1
      <4>3. G[n - 1] = g(n)[n - 1]
        BY <4>1, <4>2
      <4> HIDE DEF G
      <4>4. QED
        BY <3>1, <3>3, <4>3 DEF TreesOver
    <3>4. QED
      BY <3>2, <3>3
  <2>2. G = [n \in Nat |-> G[n]]
    OBVIOUS
  <2> HIDE DEF G
  <2>3. QED
    BY <2>1, <2>2
<1>5. Solves(Trees)
  <2>1. Trees = CHOOSE f : Solves(f)
    BY DEF Trees
  <2> HIDE DEF Solves, G
  <2>2. QED
    BY <1>4, <2>1
<1>6. \A n \in Nat : Trees[n] = IF n = 0 THEN Scalars ELSE Scalars \cup Containers(Trees[n - 1])
  <2> DEFINE t == Trees
  <2>1. Solves(t)
    BY <1>5
  <2> HIDE DEF t
  <2>2. \A n \in Nat : t[n] = IF n = 0 THEN Scalars ELSE Scalars \cup Containers(t[n - 1])
    BY <2>1
  <2>3. QED
    BY <2>2 DEF t
<1>7. QED
  BY <1>6

\* The layouts of the values that nest no deeper than n, given those of n - 1.
LayoutsOver(n, g) ==
  [f \in BOOLEAN |-> [d \in Nat |-> [v \in Trees[n] |->
     IF v \in Scalars THEN ScalarText(v) ELSE ContainerText(v, f, d, g[n - 1][f][d + 1])]]]

\* A layer of layouts depends on the layer below only.
LEMMA OverTheSame ==
  ASSUME NEW n \in Nat, NEW g, NEW h, n # 0 => g[n - 1] = h[n - 1]
  PROVE  LayoutsOver(n, g) = LayoutsOver(n, h)
<1>1. CASE n = 0
  <2>1. Trees[n] = Scalars
    BY <1>1, TreesDef
  <2>2. QED
    BY <2>1, SMT DEF LayoutsOver
<1>2. CASE n # 0
  BY <1>2 DEF LayoutsOver
<1>3. QED
  BY <1>1, <1>2

\* Layouts is what its recursive definition says.
LEMMA LayoutsDef == \A n \in Nat : Layouts[n] = LayoutsOver(n, Layouts)
<1> DEFINE Good(g, m) == \A i \in 0..m : g[i] = LayoutsOver(i, g)
           Never == {m \in Nat : ~\E g : Good(g, m)}
<1>1. Never = {}
  <2>1. SUFFICES ASSUME Never # {} PROVE FALSE
    OBVIOUS
  <2>2. PICK m \in Never : \A k \in Never : m <= k
    <3>1. Never \subseteq Nat
      OBVIOUS
    <3> HIDE DEF Never
    <3>2. QED
      BY <2>1, <3>1, LeastExists
  <2>3. m \in Nat /\ ~\E g : Good(g, m)
    OBVIOUS
  <2>4. CASE m = 0
    <3> DEFINE g == [i \in 0..0 |-> LayoutsOver(0, <<>>)]
    <3>1. g[0] = LayoutsOver(0, <<>>)
      OBVIOUS
    <3> HIDE DEF g
    <3>2. LayoutsOver(0, g) = LayoutsOver(0, <<>>)
      BY OverTheSame
    <3>3. Good(g, 0)
      BY <3>1, <3>2
    <3>4. QED
      BY <2>3, <2>4, <3>3
  <2>5. CASE m # 0
    <3>1. m - 1 \in Nat /\ ~(m <= m - 1)
      BY <2>3, <2>5
    <3>2. PICK g : Good(g, m - 1)
      BY <2>2, <3>1
    <3> DEFINE h == [i \in 0..m |-> IF i = m THEN LayoutsOver(m, g) ELSE g[i]]
    <3>3. ASSUME NEW i \in 0..m PROVE h[i] = LayoutsOver(i, h)
      <4>1. LayoutsOver(i, h) = LayoutsOver(i, g)
        <5>1. i \in Nat /\ (i # 0 => i - 1 \in 0..m /\ i - 1 # m)
          BY <2>3
        <5>2. i # 0 => h[i - 1] = g[i - 1]
          BY <5>1
        <5> HIDE DEF h
        <5>3. QED
          BY <5>1, <5>2, OverTheSame
      <4>2. h[i] = LayoutsOver(i, g)
        <5>1. CASE i = m
          BY <5>1
        <5>2. CASE i # m
          <6>1. i \in 0..m - 1
            BY <2>3, <5>2
          <6>2. g[i] = LayoutsOver(i, g)
            BY <3>2, <6>1
          <6>3. QED
            BY <5>2, <6>2
        <5>3. QED
          BY <5>1, <5>2
      <4>3. QED
        BY <4>1, <4>2
    <3> HIDE DEF h
    <3>4. Good(h, m)
      BY <3>3
    <3>5. QED
      BY <2>3, <3>4
  <2>6. QED
    BY <2>4, <2>5
<1> DEFINE g(m) == CHOOSE x : Good(x, m)
<1>2. ASSUME NEW m \in Nat PROVE Good(g(m), m)
  <2>1. \E x : Good(x, m)
    BY <1>1
  <2> HIDE DEF Good
  <2>2. QED
    BY <2>1
<1> HIDE DEF g
<1>3. ASSUME NEW m \in Nat, NEW k \in Nat, NEW i \in 0..m, i <= k
      PROVE  g(m)[i] = g(k)[i]
  <2> DEFINE Equal == {j \in 0..i : g(m)[j] = g(k)[j]}
  <2>1. ASSUME NEW j \in 0..i, j # 0 => j - 1 \in Equal PROVE j \in Equal
    <3>1. j \in 0..m /\ j \in 0..k /\ j \in Nat
      BY <1>3
    <3>2. g(m)[j] = LayoutsOver(j, g(m)) /\ g(k)[j] = LayoutsOver(j, g(k))
      BY <1>2, <3>1
    <3>3. j # 0 => g(m)[j - 1] = g(k)[j - 1]
      BY <2>1
    <3>4. LayoutsOver(j, g(m)) = LayoutsOver(j, g(k))
      BY <3>1, <3>3, OverTheSame
    <3>5. QED
      BY <3>2, <3>4
  <2>2. i \in Equal
    <3> HIDE DEF Equal
    <3>1. i \in Nat /\ i \in 0..i /\ 0 \in 0..i
      BY <1>3
    <3>2. \A j \in 1..i : j \in 0..i /\ j # 0
      BY <3>1
    <3>3. 0 \in Equal /\ \A j \in 1..i : j - 1 \in Equal => j \in Equal
      BY <2>1, <3>1, <3>2
    <3>4. QED
      BY <3>1, <3>3, ClimbUp
  <2>3. QED
    BY <2>2
<1> DEFINE G == [n \in Nat |-> g(n)[n]]
           Solves(f) == f = [n \in Nat |-> LayoutsOver(n, f)]
<1>4. Solves(G)
  <2>1. ASSUME NEW n \in Nat PROVE G[n] = LayoutsOver(n, G)
    <3>1. G[n] = LayoutsOver(n, g(n))
      <4>1. n \in 0..n
        OBVIOUS
      <4>2. g(n)[n] = LayoutsOver(n, g(n))
        BY <1>2, <4>1
      <4>3. QED
        BY <4>2
    <3>2. n # 0 => G[n - 1] = g(n)[n - 1]
      <4>1. SUFFICES ASSUME n # 0 PROVE G[n - 1] = g(n)[n - 1]
        OBVIOUS
      <4>2. n - 1 \in Nat /\ n - 1 \in 0..n /\ n - 1 <= n - 1
        BY <4>1
      <4>3. g(n)[n - 1] = g(n - 1)[n - 1]
        BY <1>3, <4>2
      <4>4. QED
        BY <4>2, <4>3
    <3> HIDE DEF G
    <3>3. QED
      BY <3>1, <3>2, OverTheSame
  <2>2. G = [n \in Nat |-> G[n]]
    OBVIOUS
  <2> HIDE DEF G
  <2>3. QED
    BY <2>1, <2>2
<1>5. Solves(Layouts)
  <2>1. Layouts = CHOOSE f : Solves(f)
    BY DEF Layouts, LayoutsOver
  <2> HIDE DEF Solves, G
  <2>2. QED
    BY <1>4, <2>1
<1>6. QED
  <2> DEFINE t == Layouts
  <2>1. Solves(t)
    BY <1>5
  <2> HIDE DEF t
  <2>2. \A n \in Nat : t[n] = LayoutsOver(n, t)
    BY <2>1
  <2>3. QED
    BY <2>2 DEF t
\* What is left of the values that nest no deeper than n, given what is left of
\* those of n - 1.
RecoveriesOver(n, g) ==
  [v \in Trees[n] |->
     IF v \in Scalars THEN RecoveredScalar(v) ELSE RecoveredContainer(v, g[n - 1])]

\* A layer of recoveries depends on the layer below only.
LEMMA RecoveredTheSame ==
  ASSUME NEW n \in Nat, NEW g, NEW h, n # 0 => g[n - 1] = h[n - 1]
  PROVE  RecoveriesOver(n, g) = RecoveriesOver(n, h)
<1>1. CASE n = 0
  <2>1. Trees[n] = Scalars
    BY <1>1, TreesDef
  <2>2. QED
    BY <2>1, SMT DEF RecoveriesOver
<1>2. CASE n # 0
  BY <1>2 DEF RecoveriesOver
<1>3. QED
  BY <1>1, <1>2

\* Recoveries is what its recursive definition says.
LEMMA RecoveriesDef == \A n \in Nat : Recoveries[n] = RecoveriesOver(n, Recoveries)
<1> DEFINE Good(g, m) == \A i \in 0..m : g[i] = RecoveriesOver(i, g)
           Never == {m \in Nat : ~\E g : Good(g, m)}
<1>1. Never = {}
  <2>1. SUFFICES ASSUME Never # {} PROVE FALSE
    OBVIOUS
  <2>2. PICK m \in Never : \A k \in Never : m <= k
    <3>1. Never \subseteq Nat
      OBVIOUS
    <3> HIDE DEF Never
    <3>2. QED
      BY <2>1, <3>1, LeastExists
  <2>3. m \in Nat /\ ~\E g : Good(g, m)
    OBVIOUS
  <2>4. CASE m = 0
    <3> DEFINE g == [i \in 0..0 |-> RecoveriesOver(0, <<>>)]
    <3>1. g[0] = RecoveriesOver(0, <<>>)
      OBVIOUS
    <3> HIDE DEF g
    <3>2. RecoveriesOver(0, g) = RecoveriesOver(0, <<>>)
      BY RecoveredTheSame
    <3>3. Good(g, 0)
      BY <3>1, <3>2
    <3>4. QED
      BY <2>3, <2>4, <3>3
  <2>5. CASE m # 0
    <3>1. m - 1 \in Nat /\ ~(m <= m - 1)
      BY <2>3, <2>5
    <3>2. PICK g : Good(g, m - 1)
      BY <2>2, <3>1
    <3> DEFINE h == [i \in 0..m |-> IF i = m THEN RecoveriesOver(m, g) ELSE g[i]]
    <3>3. ASSUME NEW i \in 0..m PROVE h[i] = RecoveriesOver(i, h)
      <4>1. RecoveriesOver(i, h) = RecoveriesOver(i, g)
        <5>1. i \in Nat /\ (i # 0 => i - 1 \in 0..m /\ i - 1 # m)
          BY <2>3
        <5>2. i # 0 => h[i - 1] = g[i - 1]
          BY <5>1
        <5> HIDE DEF h
        <5>3. QED
          BY <5>1, <5>2, RecoveredTheSame
      <4>2. h[i] = RecoveriesOver(i, g)
        <5>1. CASE i = m
          BY <5>1
        <5>2. CASE i # m
          <6>1. i \in 0..m - 1
            BY <2>3, <5>2
          <6>2. g[i] = RecoveriesOver(i, g)
            BY <3>2, <6>1
          <6>3. QED
            BY <5>2, <6>2
        <5>3. QED
          BY <5>1, <5>2
      <4>3. QED
        BY <4>1, <4>2
    <3> HIDE DEF h
    <3>4. Good(h, m)
      BY <3>3
    <3>5. QED
      BY <2>3, <3>4
  <2>6. QED
    BY <2>4, <2>5
<1> DEFINE g(m) == CHOOSE x : Good(x, m)
<1>2. ASSUME NEW m \in Nat PROVE Good(g(m), m)
  <2>1. \E x : Good(x, m)
    BY <1>1
  <2> HIDE DEF Good
  <2>2. QED
    BY <2>1
<1> HIDE DEF g
<1>3. ASSUME NEW m \in Nat, NEW k \in Nat, NEW i \in 0..m, i <= k
      PROVE  g(m)[i] = g(k)[i]
  <2> DEFINE Equal == {j \in 0..i : g(m)[j] = g(k)[j]}
  <2>1. ASSUME NEW j \in 0..i, j # 0 => j - 1 \in Equal PROVE j \in Equal
    <3>1. j \in 0..m /\ j \in 0..k /\ j \in Nat
      BY <1>3
    <3>2. g(m)[j] = RecoveriesOver(j, g(m)) /\ g(k)[j] = RecoveriesOver(j, g(k))
      BY <1>2, <3>1
    <3>3. j # 0 => g(m)[j - 1] = g(k)[j - 1]
      BY <2>1
    <3>4. RecoveriesOver(j, g(m)) = RecoveriesOver(j, g(k))
      BY <3>1, <3>3, RecoveredTheSame
    <3>5. QED
      BY <3>2, <3>4
  <2>2. i \in Equal
    <3> HIDE DEF Equal
    <3>1. i \in Nat /\ i \in 0..i /\ 0 \in 0..i
      BY <1>3
    <3>2. \A j \in 1..i : j \in 0..i /\ j # 0
      BY <3>1
    <3>3. 0 \in Equal /\ \A j \in 1..i : j - 1 \in Equal => j \in Equal
      BY <2>1, <3>1, <3>2
    <3>4. QED
      BY <3>1, <3>3, ClimbUp
  <2>3. QED
    BY <2>2
<1> DEFINE G == [n \in Nat |-> g(n)[n]]
           Solves(f) == f = [n \in Nat |-> RecoveriesOver(n, f)]
<1>4. Solves(G)
  <2>1. ASSUME NEW n \in Nat PROVE G[n] = RecoveriesOver(n, G)
    <3>1. G[n] = RecoveriesOver(n, g(n))
      <4>1. n \in 0..n
        OBVIOUS
      <4>2. g(n)[n] = RecoveriesOver(n, g(n))
        BY <1>2, <4>1
      <4>3. QED
        BY <4>2
    <3>2. n # 0 => G[n - 1] = g(n)[n - 1]
      <4>1. SUFFICES ASSUME n # 0 PROVE G[n - 1] = g(n)[n - 1]
        OBVIOUS
      <4>2. n - 1 \in Nat /\ n - 1 \in 0..n /\ n - 1 <= n - 1
        BY <4>1
      <4>3. g(n)[n - 1] = g(n - 1)[n - 1]
        BY <1>3, <4>2
      <4>4. QED
        BY <4>2, <4>3
    <3> HIDE DEF G
    <3>3. QED
      BY <3>1, <3>2, RecoveredTheSame
  <2>2. G = [n \in Nat |-> G[n]]
    OBVIOUS
  <2> HIDE DEF G
  <2>3. QED
    BY <2>1, <2>2
<1>5. Solves(Recoveries)
  <2>1. Recoveries = CHOOSE f : Solves(f)
    BY DEF Recoveries, RecoveriesOver
  <2> HIDE DEF Solves, G
  <2>2. QED
    BY <1>4, <2>1
<1>6. QED
  <2> DEFINE t == Recoveries
  <2>1. Solves(t)
    BY <1>5
  <2> HIDE DEF t
  <2>2. \A n \in Nat : t[n] = RecoveriesOver(n, t)
    BY <2>1
  <2>3. QED
    BY <2>2 DEF t
-----------------------------------------------------------------------------
(***************************************************************************)
(* Words: what C can hold in a string.  Their concatenations get names of  *)
(* our own, which the provers do not unfold.                               *)
(***************************************************************************)

Letter == Character \ {Nul}
Named(V) == [name : Word, node : V]
Join(a, b) == a \o b
Mark(c) == <<c>>
Void == <<>>

\* A word is a sequence of characters.
LEMMA WordIsChars == Word \subseteq Chars
<1>1. Letter \subseteq Character
  BY DEF Letter
<1>2. QED
  BY <1>1, SeqMonotonic DEF Word, Chars, Letter

\* A word has a length, and letters in every place.
LEMMA WordLength ==
  \A a \in Word : Len(a) \in Nat /\ \A i \in 1..Len(a) : a[i] \in Letter
BY ElementOfSeq DEF Word, Letter

\* The elements of two sequences that are joined.
LEMMA JoinProperties ==
  ASSUME NEW S, NEW a \in Seq(S), NEW b \in Seq(S)
  PROVE  /\ Join(a, b) \in Seq(S) /\ Len(Join(a, b)) = Len(a) + Len(b)
         /\ \A i \in 1..Len(a) + Len(b) :
              Join(a, b)[i] = IF i <= Len(a) THEN a[i] ELSE b[i - Len(a)]
BY ConcatProperties DEF Join

\* Three sequences are joined in any order.
LEMMA JoinInAnyOrder ==
  ASSUME NEW S, NEW a \in Seq(S), NEW b \in Seq(S), NEW c \in Seq(S)
  PROVE  Join(Join(a, b), c) = Join(a, Join(b, c))
BY ConcatAssociative DEF Join

\* Two words that are joined are a word.
LEMMA JoinType == \A a, b \in Word : Join(a, b) \in Word
BY ConcatProperties DEF Word, Join

\* Words that are joined are as long as the two.
LEMMA JoinLength == \A a, b \in Word : Len(Join(a, b)) = Len(a) + Len(b)
BY ConcatProperties DEF Word, Join

\* Words are joined in any order.
LEMMA JoinAssociative ==
  \A a, b, c \in Word : Join(Join(a, b), c) = Join(a, Join(b, c))
BY ConcatAssociative DEF Word, Join

\* The empty word adds nothing.
LEMMA JoinEmpty == \A a \in Word : Join(a, Void) = a /\ Join(Void, a) = a
BY ConcatEmptySeq DEF Word, Join, Void

\* A word that begins with a letter.
LEMMA JoinFirst ==
  ASSUME NEW c \in Letter, NEW r \in Word
  PROVE  /\ Join(Mark(c), r) \in Word /\ Join(Mark(c), r)[1] = c
         /\ Len(Join(Mark(c), r)) = Len(r) + 1 /\ Len(Join(Mark(c), r)) > 0
<1> DEFINE a == <<c>>
<1>1. a \in Seq(Letter) /\ Len(a) = 1 /\ a[1] = c /\ Len(r) \in Nat /\ r \in Seq(Letter)
  BY WordLength DEF Word, Letter
<1> HIDE DEF a
<1>2. /\ Join(a, r) \in Seq(Letter) /\ Len(Join(a, r)) = Len(a) + Len(r)
      /\ \A i \in 1..Len(a) + Len(r) :
           Join(a, r)[i] = IF i <= Len(a) THEN a[i] ELSE r[i - Len(a)]
  BY <1>1, ConcatProperties DEF Join
<1>3. Len(Join(a, r)) = Len(r) + 1 /\ Len(Join(a, r)) > 0
  BY <1>1, <1>2
<1>4. 1 \in 1..Len(a) + Len(r) /\ 1 <= Len(a)
  BY <1>1
<1>5. Join(a, r)[1] = c
  BY <1>1, <1>2, <1>4
<1>6. QED
  BY <1>1, <1>2, <1>3, <1>5 DEF a, Mark, Word, Letter

\* A letter is a word.
LEMMA LetterWord == \A c \in Letter : Mark(c) \in Word
BY DEF Word, Letter, Mark

\* The characters but for the null character.
LEMMA Letters ==
  {"[", "]", "{", "}", ",", ":", "q", "b", "e", "a", "1", "-", "n", "w", "B"} = Letter
BY DEF Letter, Character, Nul

\* The empty sequence is a word.
LEMMA EmptyWord == Void \in Word
BY EmptySeq DEF Word, Void

\* Blanks are a word of a known length.
LEMMA SpaceType ==
  ASSUME NEW f, NEW n \in Nat
  PROVE  Space(f, n) \in Word /\ Len(Space(f, n)) = IF f THEN n ELSE 0
<1>1. "w" \in Letter
  BY Letters
<1>2. [i \in 1..n |-> "w"] \in Seq(Letter) /\ Len([i \in 1..n |-> "w"]) = n
  BY <1>1
<1>3. QED
  BY <1>2, EmptyWord DEF Space, Word, Letter, Void

\* The punctuation of a text consists of words.
LEMMA MarkWords ==
  ASSUME NEW f
  PROVE  /\ Mark(",") \in Word /\ Mark(":") \in Word /\ Mark("[") \in Word /\ Mark("]") \in Word
         /\ Mark("{") \in Word /\ Mark("}") \in Word /\ Mark("n") \in Word /\ Mark("q") \in Word
         /\ Space(f, 1) \in Word /\ Void \in Word
<1>1. /\ "," \in Letter /\ ":" \in Letter /\ "[" \in Letter /\ "]" \in Letter
      /\ "{" \in Letter /\ "}" \in Letter /\ "n" \in Letter /\ "q" \in Letter
  BY Letters
<1>2. QED
  BY <1>1, LetterWord, SpaceType, EmptyWord

-----------------------------------------------------------------------------
\* What comes of a character that is printed in a string.
EscapedPart(c) ==
  IF c = "w" THEN <<"b", "e">> ELSE IF c \in {"q", "b"} THEN <<"b", c>> ELSE <<c>>

\* What a character is escaped to is a word.
LEMMA EscapedPartType == \A c \in Letter : EscapedPart(c) \in Word
<1>1. "b" \in Letter /\ "e" \in Letter
  BY Letters
<1>2. <<"b", "e">> \in Seq(Letter) /\ \A c \in Letter : <<"b", c>> \in Seq(Letter)
  BY <1>1
<1>3. QED
  BY <1>2, LetterWord DEF EscapedPart, Mark, Word, Letter

\* A word is escaped letter by letter.
LEMMA EscapedParts ==
  ASSUME NEW s \in Word
  PROVE  /\ [i \in 1..Len(s) |-> EscapedPart(s[i])] \in Seq(Word)
         /\ Escaped(s) = FlattenSeq([i \in 1..Len(s) |-> EscapedPart(s[i])])
         /\ Escaped(s) \in Word
<1>1. Len(s) \in Nat /\ DOMAIN s = 1..Len(s) /\ \A i \in 1..Len(s) : s[i] \in Letter
  BY DEF Word, Letter
<1>2. [i \in 1..Len(s) |-> EscapedPart(s[i])] \in Seq(Word)
  BY <1>1, EscapedPartType
<1>3. Escaped(s) = FlattenSeq([i \in 1..Len(s) |-> EscapedPart(s[i])])
  BY <1>1 DEF Escaped, EscapedPart
<1>4. QED
  BY <1>2, <1>3, FlattenType DEF Word

\* A word in quotation marks is a word.
LEMMA QuotedType ==
  ASSUME NEW s \in Word
  PROVE  /\ Quoted(s) \in Word
         /\ Quoted(s) = Join(Mark("q"), Join(Escaped(s), Mark("q")))
         /\ Len(Quoted(s)) > 0 /\ Quoted(s)[1] = "q"
<1>1. "q" \in Letter
  BY Letters
<1>2. Mark("q") \in Word /\ Escaped(s) \in Word
  BY <1>1, LetterWord, EscapedParts
<1>3. Quoted(s) = Join(Join(Mark("q"), Escaped(s)), Mark("q"))
  BY Zenon DEF Quoted, Join, Mark
<1>4. Quoted(s) = Join(Mark("q"), Join(Escaped(s), Mark("q")))
  BY <1>2, <1>3, JoinAssociative
<1>5. Join(Escaped(s), Mark("q")) \in Word
  BY <1>2, JoinType
<1>6. QED
  BY <1>1, <1>4, <1>5, JoinFirst
-----------------------------------------------------------------------------
(***************************************************************************)
(* The texts of the children of a container.                               *)
(***************************************************************************)

\* The text of one element of an array, and of one member of an object, the
\* first one of those that are left.
ElementFirst(node, last, f, T) ==
  Join(T[node], IF last THEN Void ELSE Join(Mark(","), Space(f, 1)))
MemberFirst(kid, last, f, d, T) ==
  Join(Join(Join(Join(Join(Join(Space(f, d), Quoted(kid.name)), Mark(":")), Space(f, 1)),
                 T[kid.node]), IF last THEN Void ELSE Mark(",")), Space(f, 1))

ElementPart(kids, i, f, T) == ElementFirst(kids[i].node, i = Len(kids), f, T)
MemberPart(kids, i, f, d, T) == MemberFirst(kids[i], i = Len(kids), f, d, T)

ElementsList(kids, f, T) == [i \in 1..Len(kids) |-> ElementPart(kids, i, f, T)]
MembersList(kids, f, d, T) == [i \in 1..Len(kids) |-> MemberPart(kids, i, f, d, T)]

\* The children of a container are values with names.
LEMMA KidsFacts ==
  ASSUME NEW V, NEW kids \in Seq(Named(V))
  PROVE  /\ Len(kids) \in Nat /\ DOMAIN kids = 1..Len(kids)
         /\ \A i \in 1..Len(kids) : kids[i].node \in V /\ kids[i].name \in Word
<1>1. Len(kids) \in Nat /\ DOMAIN kids = 1..Len(kids)
  BY LenProperties
<1>2. \A i \in 1..Len(kids) : kids[i] \in Named(V)
  BY ElementOfSeq
<1>3. QED
  BY <1>1, <1>2 DEF Named

\* The text of an element is a word.
LEMMA ElementFirstType ==
  ASSUME NEW node, NEW last, NEW f, NEW T, T[node] \in Word
  PROVE  ElementFirst(node, last, f, T) \in Word
<1>1. Join(Mark(","), Space(f, 1)) \in Word /\ Void \in Word
  BY MarkWords, JoinType
<1>2. (IF last THEN Void ELSE Join(Mark(","), Space(f, 1))) \in Word
  BY <1>1
<1>3. QED
  BY <1>2, JoinType DEF ElementFirst

\* The text of a member is a word.
LEMMA MemberFirstType ==
  ASSUME NEW kid, NEW last, NEW f, NEW d \in Nat, NEW T,
         T[kid.node] \in Word, kid.name \in Word
  PROVE  MemberFirst(kid, last, f, d, T) \in Word
<1>1. /\ Space(f, d) \in Word /\ Quoted(kid.name) \in Word /\ Mark(":") \in Word
      /\ Space(f, 1) \in Word /\ (IF last THEN Void ELSE Mark(",")) \in Word
  BY SpaceType, QuotedType, MarkWords
<1>2. QED
  BY <1>1, JoinType DEF MemberFirst

\* The text of the elements consists of the texts of each.
LEMMA ElementsParts ==
  ASSUME NEW V, NEW kids \in Seq(Named(V)), NEW f, NEW T, \A v \in V : T[v] \in Word
  PROVE  /\ ElementsList(kids, f, T) \in Seq(Word)
         /\ ElementsText(kids, f, T)
              = FlattenSeq(ElementsList(kids, f, T))
         /\ ElementsText(kids, f, T) \in Word
<1>1. Len(kids) \in Nat /\ DOMAIN kids = 1..Len(kids)
      /\ \A i \in 1..Len(kids) : kids[i].node \in V
  BY KidsFacts
<1>2. ASSUME NEW i \in 1..Len(kids) PROVE ElementPart(kids, i, f, T) \in Word
  BY <1>1, ElementFirstType DEF ElementPart
<1>3. ElementsList(kids, f, T) \in Seq(Word)
  BY <1>1, <1>2 DEF ElementsList
<1>4. ASSUME NEW i \in 1..Len(kids)
      PROVE  T[kids[i].node] \o (IF i < Len(kids) THEN <<",">> \o Space(f, 1) ELSE <<>>)
               = ElementPart(kids, i, f, T)
  <2>1. i < Len(kids) <=> ~(i = Len(kids))
    <3>1. Len(kids) \in Nat
      BY <1>1
    <3>2. QED
      BY <3>1
  <2>2. CASE i = Len(kids)
    BY <2>1, <2>2, Zenon DEF ElementPart, ElementFirst, Join, Mark, Void
  <2>3. CASE i # Len(kids)
    BY <2>1, <2>3, Zenon DEF ElementPart, ElementFirst, Join, Mark, Void
  <2>4. QED
    BY <2>2, <2>3
<1>5. ElementsText(kids, f, T)
              = FlattenSeq(ElementsList(kids, f, T))
  BY <1>1, <1>4, Zenon DEF ElementsText, ElementsList
<1>6. FlattenSeq(ElementsList(kids, f, T)) \in Word
  BY <1>3, FlattenType DEF Word
<1>7. QED
  BY <1>3, <1>5, <1>6

\* The text of the members consists of the texts of each.
LEMMA MembersParts ==
  ASSUME NEW V, NEW kids \in Seq(Named(V)), NEW f, NEW d \in Nat,
         NEW T, \A v \in V : T[v] \in Word
  PROVE  /\ MembersList(kids, f, d, T) \in Seq(Word)
         /\ MembersText(kids, f, d, T)
              = FlattenSeq(MembersList(kids, f, d, T))
         /\ MembersText(kids, f, d, T) \in Word
<1>1. Len(kids) \in Nat /\ DOMAIN kids = 1..Len(kids)
      /\ \A i \in 1..Len(kids) : kids[i].node \in V /\ kids[i].name \in Word
  BY KidsFacts
<1>2. ASSUME NEW i \in 1..Len(kids) PROVE MemberPart(kids, i, f, d, T) \in Word
  BY <1>1, MemberFirstType DEF MemberPart
<1>3. MembersList(kids, f, d, T) \in Seq(Word)
  BY <1>1, <1>2 DEF MembersList
<1>4. ASSUME NEW i \in 1..Len(kids)
      PROVE  Space(f, d) \o Quoted(kids[i].name) \o <<":">> \o Space(f, 1)
               \o T[kids[i].node]
               \o (IF i < Len(kids) THEN <<",">> ELSE <<>>) \o Space(f, 1)
               = MemberPart(kids, i, f, d, T)
  <2>1. i < Len(kids) <=> ~(i = Len(kids))
    <3>1. Len(kids) \in Nat
      BY <1>1
    <3>2. QED
      BY <3>1
  <2>2. CASE i = Len(kids)
    BY <2>1, <2>2, Zenon DEF MemberPart, MemberFirst, Join, Mark, Void
  <2>3. CASE i # Len(kids)
    BY <2>1, <2>3, Zenon DEF MemberPart, MemberFirst, Join, Mark, Void
  <2>4. QED
    BY <2>2, <2>3
<1>5. MembersText(kids, f, d, T)
              = FlattenSeq(MembersList(kids, f, d, T))
  BY <1>1, <1>4, Zenon DEF MembersText, MembersList
<1>6. FlattenSeq(MembersList(kids, f, d, T)) \in Word
  BY <1>3, FlattenType DEF Word
<1>7. QED
  BY <1>3, <1>5, <1>6

\* The parts of a sequence that is not empty are its first and those of its tail.
LEMMA FlattenHead ==
  ASSUME NEW parts \in Seq(Word), NEW rest \in Seq(Word),
         Len(parts) = Len(rest) + 1,
         \A i \in 1..Len(rest) : rest[i] = parts[i + 1]
  PROVE  FlattenSeq(parts) = Join(parts[1], FlattenSeq(rest))
<1>1. Len(rest) \in Nat /\ 1 \in 1..Len(parts)
  OBVIOUS
<1>2. parts[1] \in Word
  BY <1>1, ElementOfSeq
<1> DEFINE p == parts[1]
           a == <<p>>
<1>3. a \in Seq(Word) /\ Len(a) = 1 /\ a[1] = parts[1]
  BY <1>2
<1> HIDE DEF a
<1>4. parts = a \o rest
  <2> DEFINE x == Join(a, rest)
  <2>1. /\ x \in Seq(Word) /\ Len(x) = Len(a) + Len(rest)
        /\ \A i \in 1..Len(a) + Len(rest) :
             x[i] = IF i <= Len(a) THEN a[i] ELSE rest[i - Len(a)]
    <3>1. a \in Seq(Word)
      BY <1>3
    <3>2. QED
      BY <3>1, JoinProperties, Zenon
  <2> HIDE DEF x
  <2>2. /\ x \in Seq(Word) /\ Len(x) = 1 + Len(rest)
        /\ \A i \in 1..1 + Len(rest) : x[i] = IF i <= 1 THEN a[i] ELSE rest[i - 1]
    BY <1>3, <2>1
  <2>3. ASSUME NEW i \in 1..Len(parts) PROVE parts[i] = x[i]
    <3>1. CASE i = 1
      BY <1>1, <1>3, <2>2, <3>1
    <3>2. CASE i # 1
      <4>1. i - 1 \in 1..Len(rest) /\ ~(i <= 1) /\ i \in 1..1 + Len(rest) /\ i - 1 + 1 = i
        BY <1>1, <3>2
      <4>2. rest[i - 1] = parts[i - 1 + 1] /\ x[i] = rest[i - 1]
        BY <2>2, <4>1
      <4>3. QED
        BY <4>1, <4>2
    <3>3. QED
      BY <3>1, <3>2
  <2>4. Len(parts) = Len(x)
    BY <1>1, <2>2
  <2>5. parts = x
    BY <2>2, <2>3, <2>4, SeqEqual
  <2>6. QED
    BY <2>5, Zenon DEF x, Join
<1>5. FlattenSeq(<<p>> \o rest) = p \o FlattenSeq(rest)
  BY <1>2, FlattenFirst DEF Word
<1>6. QED
  BY <1>4, <1>5, Zenon DEF Join, a

\* No elements have no text.
LEMMA NoElements == \A f, T : ElementsText(<<>>, f, T) = Void
<1>1. SUFFICES ASSUME NEW f, NEW T PROVE ElementsText(<<>>, f, T) = Void
  OBVIOUS
<1> DEFINE parts == [i \in DOMAIN (<<>>) |->
                       T[(<<>>)[i].node]
                         \o (IF i < Len(<<>>) THEN <<",">> \o Space(f, 1) ELSE <<>>)]
<1>2. parts \in Seq(Word) /\ Len(parts) = 0
  OBVIOUS
<1>3. ElementsText(<<>>, f, T) = FlattenSeq(parts)
  BY Zenon DEF ElementsText
<1> HIDE DEF parts
<1>4. parts = <<>>
  BY <1>2, EmptySeq
<1>5. QED
  BY <1>3, <1>4, Zenon DEF FlattenSeq, Void

\* No members have no text.
LEMMA NoMembers == \A f, d, T : MembersText(<<>>, f, d, T) = Void
<1>1. SUFFICES ASSUME NEW f, NEW d, NEW T PROVE MembersText(<<>>, f, d, T) = Void
  OBVIOUS
<1> DEFINE parts == [i \in DOMAIN (<<>>) |->
                       Space(f, d) \o Quoted((<<>>)[i].name) \o <<":">> \o Space(f, 1)
                         \o T[(<<>>)[i].node]
                         \o (IF i < Len(<<>>) THEN <<",">> ELSE <<>>) \o Space(f, 1)]
<1>2. parts \in Seq(Word) /\ Len(parts) = 0
  OBVIOUS
<1>3. MembersText(<<>>, f, d, T) = FlattenSeq(parts)
  BY Zenon DEF MembersText
<1> HIDE DEF parts
<1>4. parts = <<>>
  BY <1>2, EmptySeq
<1>5. QED
  BY <1>3, <1>4, Zenon DEF FlattenSeq, Void

\* The text of the elements begins with that of the first one.
LEMMA ElementsStep ==
  ASSUME NEW V, NEW kids \in Seq(Named(V)), NEW f, NEW T, \A v \in V : T[v] \in Word,
         kids # <<>>
  PROVE  ElementsText(kids, f, T)
           = Join(ElementFirst(kids[1].node, Len(kids) = 1, f, T),
                  ElementsText(Tail(kids), f, T))
<1> DEFINE Parts(k) == ElementsList(k, f, T)
<1>0. ASSUME NEW k \in Seq(Named(V))
      PROVE  Parts(k) \in Seq(Word) /\ ElementsText(k, f, T) = FlattenSeq(Parts(k))
  BY ElementsParts
<1> DEFINE t == Tail(kids)
<1>1. /\ t \in Seq(Named(V)) /\ Len(t) = Len(kids) - 1 /\ Len(kids) \in Nat \ {0}
      /\ \A i \in 1..Len(t) : t[i] = kids[i + 1]
  BY HeadTailProperties, EmptySeq
<1> HIDE DEF t
<1>2. Parts(kids) \in Seq(Word) /\ Parts(t) \in Seq(Word)
  BY <1>0, <1>1, Zenon
<1>3. Len(Parts(kids)) = Len(Parts(t)) + 1 /\ Len(Parts(t)) = Len(t)
  BY <1>1 DEF ElementsList
<1>4. ASSUME NEW i \in 1..Len(t) PROVE Parts(t)[i] = Parts(kids)[i + 1]
  <2>1. i + 1 \in 1..Len(kids) /\ (i = Len(t) <=> i + 1 = Len(kids)) /\ t[i] = kids[i + 1]
    BY <1>1
  <2>2. QED
    BY <2>1 DEF ElementPart, ElementsList
<1>5. Parts(kids)[1] = ElementFirst(kids[1].node, Len(kids) = 1, f, T)
  <2>1. 1 \in 1..Len(kids) /\ (1 = Len(kids) <=> Len(kids) = 1)
    BY <1>1
  <2>2. QED
    BY <2>1 DEF ElementPart, ElementsList
<1>6. /\ ElementsText(kids, f, T) = FlattenSeq(Parts(kids))
      /\ ElementsText(t, f, T) = FlattenSeq(Parts(t))
  BY <1>0, <1>1, Zenon
<1> HIDE DEF Parts
<1>7. FlattenSeq(Parts(kids)) = Join(Parts(kids)[1], FlattenSeq(Parts(t)))
  BY <1>2, <1>3, <1>4, FlattenHead
<1>8. QED
  BY <1>5, <1>6, <1>7 DEF t

\* The text of the members begins with that of the first one.
LEMMA MembersStep ==
  ASSUME NEW V, NEW kids \in Seq(Named(V)), NEW f, NEW d \in Nat,
         NEW T, \A v \in V : T[v] \in Word,
         kids # <<>>
  PROVE  MembersText(kids, f, d, T)
           = Join(MemberFirst(kids[1], Len(kids) = 1, f, d, T),
                  MembersText(Tail(kids), f, d, T))
<1> DEFINE Parts(k) == MembersList(k, f, d, T)
<1>0. ASSUME NEW k \in Seq(Named(V))
      PROVE  Parts(k) \in Seq(Word) /\ MembersText(k, f, d, T) = FlattenSeq(Parts(k))
  BY MembersParts
<1> DEFINE t == Tail(kids)
<1>1. /\ t \in Seq(Named(V)) /\ Len(t) = Len(kids) - 1 /\ Len(kids) \in Nat \ {0}
      /\ \A i \in 1..Len(t) : t[i] = kids[i + 1]
  BY HeadTailProperties, EmptySeq
<1> HIDE DEF t
<1>2. Parts(kids) \in Seq(Word) /\ Parts(t) \in Seq(Word)
  BY <1>0, <1>1, Zenon
<1>3. Len(Parts(kids)) = Len(Parts(t)) + 1 /\ Len(Parts(t)) = Len(t)
  BY <1>1 DEF MembersList
<1>4. ASSUME NEW i \in 1..Len(t) PROVE Parts(t)[i] = Parts(kids)[i + 1]
  <2>1. i + 1 \in 1..Len(kids) /\ (i = Len(t) <=> i + 1 = Len(kids)) /\ t[i] = kids[i + 1]
    BY <1>1
  <2>2. QED
    BY <2>1 DEF MemberPart, MembersList
<1>5. Parts(kids)[1] = MemberFirst(kids[1], Len(kids) = 1, f, d, T)
  <2>1. 1 \in 1..Len(kids) /\ (1 = Len(kids) <=> Len(kids) = 1)
    BY <1>1
  <2>2. QED
    BY <2>1 DEF MemberPart, MembersList
<1>6. /\ MembersText(kids, f, d, T) = FlattenSeq(Parts(kids))
      /\ MembersText(t, f, d, T) = FlattenSeq(Parts(t))
  BY <1>0, <1>1, Zenon
<1> HIDE DEF Parts
<1>7. FlattenSeq(Parts(kids)) = Join(Parts(kids)[1], FlattenSeq(Parts(t)))
  BY <1>2, <1>3, <1>4, FlattenHead
<1>8. QED
  BY <1>5, <1>6, <1>7 DEF t
-----------------------------------------------------------------------------
(***************************************************************************)
(* The layouts of trees.                                                   *)
(***************************************************************************)

\* What is known of a scalar.
LEMMA ScalarFacts ==
  ASSUME NEW v \in Scalars
  PROVE  /\ v.type \in {"literal", "number", "string"} /\ v.chars \in Word /\ v.kids = <<>>
         /\ v.type = "literal" => v.chars = <<>>
         /\ v.type = "number" => Numeral(v.chars)
         /\ v = Leaf(v.type, v.chars)
BY DEF Scalars, Leaf, Node

\* What is known of a container.
LEMMA ContainerFacts ==
  ASSUME NEW V, NEW v \in Containers(V)
  PROVE  /\ v.type \in {"array", "object"} /\ v.kids \in Seq(Named(V)) /\ v.chars = <<>>
         /\ v.type = "array" => \A i \in DOMAIN v.kids : v.kids[i].name = <<>>
         /\ v = Node(v.type, <<>>, v.kids)
         /\ v \notin Scalars
<1>1. v.type \in {"array", "object"}
  BY DEF Containers
<1>2. v \notin Scalars
  BY <1>1, ScalarFacts
<1>3. QED
  BY <1>2 DEF Containers, Named, Node

\* A tree is a scalar or a container of smaller trees.
LEMMA TreeKind ==
  ASSUME NEW n \in Nat, NEW v \in Trees[n]
  PROVE  v \in Scalars \/ (n # 0 /\ v \in Containers(Trees[n - 1]))
BY TreesDef

\* The layout of a scalar is its text.
LEMMA LayoutScalar ==
  ASSUME NEW n \in Nat, NEW f \in BOOLEAN, NEW d \in Nat, NEW v \in Scalars
  PROVE  v \in Trees[n] /\ Layouts[n][f][d][v] = ScalarText(v)
<1>1. v \in Trees[n]
  BY TreesDef
<1>2. LayoutsOver(n, Layouts)[f][d][v] = ScalarText(v)
  BY <1>1 DEF LayoutsOver
<1>3. QED
  BY <1>1, <1>2, LayoutsDef

\* The layout of a container holds the layouts of its children.
LEMMA LayoutContainer ==
  ASSUME NEW n \in Nat \ {0}, NEW f \in BOOLEAN, NEW d \in Nat,
         NEW v \in Containers(Trees[n - 1])
  PROVE  /\ v \in Trees[n]
         /\ Layouts[n][f][d][v] = ContainerText(v, f, d, Layouts[n - 1][f][d + 1])
<1>1. v \in Trees[n]
  BY TreesDef
<1>2. v \notin Scalars
  BY ContainerFacts
<1>3. LayoutsOver(n, Layouts)[f][d][v] = ContainerText(v, f, d, Layouts[n - 1][f][d + 1])
  BY <1>1, <1>2 DEF LayoutsOver
<1>4. QED
  BY <1>1, <1>3, LayoutsDef

\* What is left of the text of an array, and of that of an object whose members
\* are at depth d, before some of the elements.
ArrayRest(kids, f, T) == Join(ElementsText(kids, f, T), Mark("]"))
ObjectStart(f) == Join(Mark("{"), Space(f, 1))
ObjectRest(kids, f, d, T) ==
  Join(MembersText(kids, f, d, T), Join(Space(f, d - 1), Mark("}")))

\* The rest of the text of an array is a word.
LEMMA ArrayRestType ==
  ASSUME NEW V, NEW kids \in Seq(Named(V)), NEW f, NEW T, \A x \in V : T[x] \in Word
  PROVE  ArrayRest(kids, f, T) \in Word
<1>1. ElementsText(kids, f, T) \in Word
  BY ElementsParts
<1>2. Mark("]") \in Word
  BY MarkWords
<1>3. QED
  BY <1>1, <1>2, JoinType DEF ArrayRest

\* The rest of the text of an object is a word.
LEMMA ObjectRestType ==
  ASSUME NEW V, NEW kids \in Seq(Named(V)), NEW f, NEW d \in Nat \ {0},
         NEW T, \A x \in V : T[x] \in Word
  PROVE  ObjectRest(kids, f, d, T) \in Word
<1>1. MembersText(kids, f, d, T) \in Word
  BY MembersParts
<1>2. Space(f, d - 1) \in Word
  <2>1. d - 1 \in Nat
    OBVIOUS
  <2>2. QED
    BY <2>1, SpaceType
<1>3. Mark("}") \in Word
  BY MarkWords
<1>4. QED
  BY <1>1, <1>2, <1>3, JoinType DEF ObjectRest

\* The beginning of an object is a word.
LEMMA ObjectStartType == \A f : ObjectStart(f) \in Word
BY MarkWords, JoinType DEF ObjectStart

\* The text of an array, and that of an object, from its opening bracket on.
LEMMA ArrayText ==
  ASSUME NEW V, NEW v \in Containers(V), NEW f, NEW d \in Nat,
         NEW T, \A x \in V : T[x] \in Word, v.type = "array"
  PROVE  ContainerText(v, f, d, T) = Join(Mark("["), ArrayRest(v.kids, f, T))
<1>1. v.kids \in Seq(Named(V))
  BY ContainerFacts
<1>2. ElementsText(v.kids, f, T) \in Word
  BY <1>1, ElementsParts
<1>3. Mark("[") \in Word /\ Mark("]") \in Word
  BY MarkWords
<1>4. ContainerText(v, f, d, T) = Join(Join(Mark("["), ElementsText(v.kids, f, T)), Mark("]"))
  BY Zenon DEF ContainerText, Join, Mark
<1>5. QED
  BY <1>2, <1>3, <1>4, JoinAssociative DEF ArrayRest

\* The text of an object is its beginning and the rest.
LEMMA ObjectText ==
  ASSUME NEW V, NEW v \in Containers(V), NEW f, NEW d \in Nat,
         NEW T, \A x \in V : T[x] \in Word, v.type # "array"
  PROVE  ContainerText(v, f, d, T) = Join(ObjectStart(f), ObjectRest(v.kids, f, d + 1, T))
<1>1. v.kids \in Seq(Named(V)) /\ d + 1 \in Nat
  BY ContainerFacts
<1>2. MembersText(v.kids, f, d + 1, T) \in Word
  BY <1>1, MembersParts
<1>3. Mark("{") \in Word /\ Mark("}") \in Word /\ Space(f, 1) \in Word /\ Space(f, d) \in Word
  BY MarkWords, SpaceType
<1> DEFINE m == MembersText(v.kids, f, d + 1, T)
           o == Join(Mark("{"), Space(f, 1))
           s == Space(f, d)
           c == Mark("}")
<1>4. ContainerText(v, f, d, T) = Join(Join(Join(o, m), s), c)
  BY Zenon DEF ContainerText, Join, Mark
<1>5. m \in Word /\ o \in Word /\ s \in Word /\ c \in Word
  BY <1>2, <1>3, JoinType
<1>6. /\ ObjectStart(f) = o
      /\ ObjectRest(v.kids, f, d + 1, T) = Join(m, Join(s, c))
  <2>1. d + 1 - 1 = d
    OBVIOUS
  <2>2. QED
    BY <2>1 DEF ObjectStart, ObjectRest
<1> HIDE DEF m, o, s, c
<1>7. /\ Join(o, m) \in Word /\ Join(s, c) \in Word
  BY <1>5, JoinType
<1>8. Join(Join(Join(o, m), s), c) = Join(Join(o, m), Join(s, c))
  BY <1>5, <1>7, JoinAssociative
<1>9. Join(Join(o, m), Join(s, c)) = Join(o, Join(m, Join(s, c)))
  BY <1>5, <1>7, JoinAssociative
<1>10. QED
  BY <1>4, <1>6, <1>8, <1>9

\* What a text may begin with.
Opener == {"n", "1", "-", "q", "[", "{"}

\* The text of a scalar is a word that begins as one must.
LEMMA ScalarTextType ==
  ASSUME NEW v \in Scalars
  PROVE  ScalarText(v) \in Word /\ Len(ScalarText(v)) > 0 /\ ScalarText(v)[1] \in Opener
<1>1. CASE v.type = "literal"
  <2> DEFINE s == Mark("n")
  <2>1. s \in Word
    BY MarkWords
  <2>2. Len(s) > 0 /\ s[1] \in Opener
    BY DEF Opener, Mark
  <2>3. ScalarText(v) = s
    BY <1>1, Zenon DEF ScalarText, Mark
  <2> HIDE DEF s
  <2>4. QED
    BY <2>1, <2>2, <2>3
<1>2. CASE v.type = "number"
  <2>1. ScalarText(v) = v.chars
    BY <1>2 DEF ScalarText
  <2>2. v.chars \in Word /\ Numeral(v.chars)
    BY <1>2, ScalarFacts
  <2>3. Len(v.chars) \in Nat /\ Len(v.chars) > 0 /\ 1 \in DOMAIN v.chars
    BY <2>2 DEF Numeral, Word
  <2>4. QED
    BY <2>1, <2>2, <2>3 DEF Numeral, Opener
<1>3. CASE v.type \notin {"literal", "number"}
  <2>1. ScalarText(v) = Quoted(v.chars)
    BY <1>3 DEF ScalarText
  <2>2. QED
    BY <2>1, ScalarFacts, QuotedType DEF Opener
<1>4. QED
  BY <1>1, <1>2, <1>3

\* The text of a container is a word that begins as one must.
LEMMA ContainerTextType ==
  ASSUME NEW V, NEW v \in Containers(V), NEW f, NEW d \in Nat,
         NEW T, \A x \in V : T[x] \in Word
  PROVE  /\ ContainerText(v, f, d, T) \in Word /\ Len(ContainerText(v, f, d, T)) > 0
         /\ ContainerText(v, f, d, T)[1] \in Opener
<1> DEFINE t == ContainerText(v, f, d, T)
<1>1. \E c \in {"[", "{"}, r \in Word : t = Join(Mark(c), r)
  <2>1. CASE v.type = "array"
    <3>1. v.kids \in Seq(Named(V))
      BY ContainerFacts
    <3>2. ArrayRest(v.kids, f, T) \in Word
      BY <3>1, ArrayRestType
    <3>3. t = Join(Mark("["), ArrayRest(v.kids, f, T))
      BY <2>1, ArrayText
    <3> HIDE DEF t
    <3>4. QED
      BY <3>2, <3>3
  <2>2. CASE v.type # "array"
    <3> DEFINE o == Mark("{")
    <3>1. v.kids \in Seq(Named(V)) /\ d + 1 \in Nat \ {0}
      BY ContainerFacts
    <3>2. ObjectRest(v.kids, f, d + 1, T) \in Word
      BY <3>1, ObjectRestType
    <3>3. Space(f, 1) \in Word /\ o \in Word
      BY MarkWords
    <3>4. t = Join(ObjectStart(f), ObjectRest(v.kids, f, d + 1, T))
      BY <2>2, ObjectText
    <3>5. ObjectStart(f) = Join(o, Space(f, 1))
      BY DEF ObjectStart
    <3> HIDE DEF t, o
    <3>6. t = Join(o, Join(Space(f, 1), ObjectRest(v.kids, f, d + 1, T)))
      BY <3>2, <3>3, <3>4, <3>5, JoinAssociative
    <3>7. Join(Space(f, 1), ObjectRest(v.kids, f, d + 1, T)) \in Word
      BY <3>2, <3>3, JoinType
    <3>8. QED
      BY <3>6, <3>7 DEF o
  <2>3. QED
    BY <2>1, <2>2
<1>2. PICK c \in {"[", "{"}, r \in Word : t = Join(Mark(c), r)
  BY <1>1
<1> HIDE DEF t
<1>3. c \in Letter
  BY <1>2, Letters
<1>4. t \in Word /\ Len(t) > 0 /\ t[1] = c
  BY <1>2, <1>3, JoinFirst
<1>5. QED
  BY <1>4 DEF Opener, t

\* The text of a value is one without null characters, and begins as it should.
LEMMA LayoutType ==
  ASSUME NEW n \in Nat, NEW f \in BOOLEAN
  PROVE  \A d \in Nat, v \in Trees[n] :
           /\ Layouts[n][f][d][v] \in Word /\ Len(Layouts[n][f][d][v]) > 0
           /\ Layouts[n][f][d][v][1] \in Opener
<1> DEFINE Good(k) == \A d \in Nat, v \in Trees[k] :
                        /\ Layouts[k][f][d][v] \in Word /\ Len(Layouts[k][f][d][v]) > 0
                        /\ Layouts[k][f][d][v][1] \in Opener
           G == {k \in 0..n : Good(k)}
<1>1. ASSUME NEW k \in 0..n, k # 0 => k - 1 \in G PROVE k \in G
  <2>1. ASSUME NEW d \in Nat, NEW v \in Trees[k]
        PROVE  /\ Layouts[k][f][d][v] \in Word /\ Len(Layouts[k][f][d][v]) > 0
               /\ Layouts[k][f][d][v][1] \in Opener
    <3>1. CASE v \in Scalars
      BY <3>1, LayoutScalar, ScalarTextType
    <3>2. CASE k # 0 /\ v \in Containers(Trees[k - 1])
      <4>1. Good(k - 1) /\ k \in Nat \ {0}
        BY <1>1, <3>2
      <4> DEFINE T == Layouts[k - 1][f][d + 1]
      <4>2. \A x \in Trees[k - 1] : T[x] \in Word
        BY <4>1
      <4>3. Layouts[k][f][d][v] = ContainerText(v, f, d, T)
        BY <3>2, <4>1, LayoutContainer
      <4> HIDE DEF T
      <4>4. QED
        BY <3>2, <4>2, <4>3, ContainerTextType
    <3>3. QED
      BY <2>1, <3>1, <3>2, TreeKind
  <2>2. Good(k)
    BY <2>1
  <2> HIDE DEF Good
  <2>3. QED
    BY <2>2
<1>2. n \in G
  <2> HIDE DEF G
  <2>1. n \in Nat /\ n \in 0..n /\ 0 \in 0..n
    OBVIOUS
  <2>2. \A j \in 1..n : j \in 0..n /\ j # 0
    OBVIOUS
  <2>3. 0 \in G /\ \A j \in 1..n : j - 1 \in G => j \in G
    BY <1>1, <2>1, <2>2
  <2>4. QED
    BY <2>1, <2>3, ClimbUp
<1>3. QED
  BY <1>2
-----------------------------------------------------------------------------
(***************************************************************************)
(* What is left of a tree when its numbers are printed and read.           *)
(***************************************************************************)

\* What is left of a scalar is a scalar.
LEMMA ScalarRecovered ==
  ASSUME NEW v \in Scalars
  PROVE  /\ RecoveredScalar(v) \in Scalars
         /\ v.type = "literal" => ScalarText(RecoveredScalar(v)) = <<"n">>
         /\ v.type = "number" => ScalarText(RecoveredScalar(v)) = print_number(v.chars)
         /\ v.type = "string" => ScalarText(RecoveredScalar(v)) = Quoted(v.chars)
<1> DEFINE r == RecoveredScalar(v)
           p == print_number(v.chars)
<1>1. v.type \in {"literal", "number", "string"} /\ v.chars \in Word
      /\ (v.type = "number" => Numeral(v.chars))
  BY ScalarFacts
<1>2. CASE v.type # "number"
  <2>1. r = v
    BY <1>2 DEF RecoveredScalar
  <2>2. QED
    BY <1>1, <1>2, <2>1 DEF ScalarText
<1>3. CASE v.type = "number"
  <2>1. p \in Word /\ (p = <<"n">> \/ Numeral(p))
    <3>1. CASE v.chars \in DOMAIN Rendered
      <4>1. p = Rendered[v.chars]
        BY <3>1 DEF print_number
      <4>2. p \in Seq({"-", "1", "n"}) /\ (p = <<"n">> \/ Numeral(p))
        BY <3>1, <4>1, RenderedAssumption
      <4>3. {"-", "1", "n"} \subseteq Character \ {Nul}
        BY DEF Character, Nul
      <4> HIDE DEF p
      <4>4. QED
        BY <4>2, <4>3, SeqMonotonic DEF Word
    <3>2. CASE v.chars \notin DOMAIN Rendered
      BY <1>1, <1>3, <3>2 DEF print_number
    <3>3. QED
      BY <3>1, <3>2
  <2> HIDE DEF p
  <2>2. r = IF p = <<"n">> THEN Leaf("literal", <<>>) ELSE Leaf("number", p)
    BY <1>3 DEF RecoveredScalar, p
  <2>3. CASE p = <<"n">>
    <3>1. r = Leaf("literal", <<>>)
      BY <2>2, <2>3
    <3>2. r \in Scalars
      BY <3>1 DEF Scalars, Leaf, Node, Word
    <3>3. ScalarText(r) = <<"n">>
      BY <3>1 DEF ScalarText, Leaf, Node
    <3>4. QED
      BY <1>3, <2>3, <3>2, <3>3 DEF p
  <2>4. CASE p # <<"n">>
    <3>1. r = Leaf("number", p) /\ Numeral(p)
      BY <2>1, <2>2, <2>4
    <3>2. r.type = "number" /\ r.chars = p
      BY <3>1 DEF Leaf, Node
    <3>3. r \in Scalars
      BY <2>1, <3>1, <3>2 DEF Scalars, Leaf, Node
    <3>4. ScalarText(r) = p
      BY <3>2 DEF ScalarText
    <3>5. QED
      BY <1>3, <3>3, <3>4 DEF p
  <2>5. QED
    BY <2>3, <2>4
<1>4. QED
  BY <1>2, <1>3

\* What is left of a child.
KidRecovered(kid, R) == [name |-> kid.name, node |-> R[kid.node]]
KidsRecovered(kids, R) == [i \in DOMAIN kids |-> KidRecovered(kids[i], R)]

\* What is left of children has their names.
LEMMA KidsAreRecovered ==
  ASSUME NEW V, NEW kids \in Seq(Named(V)), NEW R, \A v \in V : R[v] \in V
  PROVE  /\ KidsRecovered(kids, R) \in Seq(Named(V))
         /\ Len(KidsRecovered(kids, R)) = Len(kids)
         /\ \A i \in 1..Len(kids) :
              /\ KidsRecovered(kids, R)[i].name = kids[i].name
              /\ KidsRecovered(kids, R)[i].node = R[kids[i].node]
<1>1. Len(kids) \in Nat /\ DOMAIN kids = 1..Len(kids)
      /\ \A i \in 1..Len(kids) : kids[i].node \in V /\ kids[i].name \in Word
  BY KidsFacts
<1> DEFINE r == KidsRecovered(kids, R)
<1>2. \A i \in 1..Len(kids) : r[i] = KidRecovered(kids[i], R)
  BY <1>1 DEF KidsRecovered
<1>3. r = [i \in 1..Len(kids) |-> r[i]]
  BY <1>1 DEF KidsRecovered
<1> HIDE DEF r
<1>4. ASSUME NEW i \in 1..Len(kids)
      PROVE  r[i] \in Named(V) /\ r[i].name = kids[i].name /\ r[i].node = R[kids[i].node]
  <2>1. kids[i].node \in V /\ kids[i].name \in Word /\ R[kids[i].node] \in V
    BY <1>1
  <2>2. r[i] = KidRecovered(kids[i], R)
    BY <1>2
  <2> DEFINE a == kids[i].name
             b == R[kids[i].node]
  <2>3. r[i] = [name |-> a, node |-> b] /\ a \in Word /\ b \in V
    BY <2>1, <2>2 DEF KidRecovered
  <2> HIDE DEF a, b
  <2>4. r[i] \in Named(V) /\ r[i].name = a /\ r[i].node = b
    BY <2>3 DEF Named
  <2>5. QED
    BY <2>4 DEF a, b
<1>5. r \in Seq(Named(V)) /\ Len(r) = Len(kids)
  BY <1>1, <1>3, <1>4
<1>6. QED
  BY <1>4, <1>5 DEF r

\* What is left of a container is one of the same type.
LEMMA ContainerRecovered ==
  ASSUME NEW V, NEW v \in Containers(V), NEW R, \A x \in V : R[x] \in V
  PROVE  /\ RecoveredContainer(v, R) \in Containers(V)
         /\ RecoveredContainer(v, R).type = v.type
         /\ RecoveredContainer(v, R).kids = KidsRecovered(v.kids, R)
<1> DEFINE r == RecoveredContainer(v, R)
           k == KidsRecovered(v.kids, R)
<1>1. /\ v.type \in {"array", "object"} /\ v.kids \in Seq(Named(V))
      /\ v.type = "array" => \A i \in DOMAIN v.kids : v.kids[i].name = <<>>
  BY ContainerFacts
<1>2. /\ k \in Seq(Named(V)) /\ Len(k) = Len(v.kids)
      /\ \A i \in 1..Len(v.kids) : k[i].name = v.kids[i].name
  BY <1>1, KidsAreRecovered
<1>3. r = Node(v.type, <<>>, k)
  BY Zenon DEF RecoveredContainer, KidsRecovered, KidRecovered
<1> HIDE DEF k
<1>4. r.type = v.type /\ r.kids = k /\ r.chars = <<>>
  BY <1>3 DEF Node
<1>5. v.type = "array" => \A i \in DOMAIN k : k[i].name = <<>>
  BY <1>1, <1>2
<1>6. r \in Containers(V)
  BY <1>1, <1>2, <1>3, <1>5 DEF Containers, Named, Node
<1>7. QED
  BY <1>4, <1>6 DEF k

\* What is left of a scalar does not depend on how deep it is.
LEMMA RecoveryScalar ==
  ASSUME NEW n \in Nat, NEW v \in Scalars
  PROVE  Recoveries[n][v] = RecoveredScalar(v)
<1>1. v \in Trees[n]
  BY TreesDef
<1>2. RecoveriesOver(n, Recoveries)[v] = RecoveredScalar(v)
  BY <1>1 DEF RecoveriesOver
<1>3. QED
  BY <1>2, RecoveriesDef

\* What is left of a container holds what is left of its children.
LEMMA RecoveryContainer ==
  ASSUME NEW n \in Nat \ {0}, NEW v \in Containers(Trees[n - 1])
  PROVE  Recoveries[n][v] = RecoveredContainer(v, Recoveries[n - 1])
<1>1. v \in Trees[n]
  BY TreesDef
<1>2. v \notin Scalars
  BY ContainerFacts
<1>3. RecoveriesOver(n, Recoveries)[v] = RecoveredContainer(v, Recoveries[n - 1])
  BY <1>1, <1>2 DEF RecoveriesOver
<1>4. QED
  BY <1>3, RecoveriesDef

\* What is left of a tree is no deeper.
LEMMA RecoveryType ==
  ASSUME NEW n \in Nat
  PROVE  \A v \in Trees[n] : Recoveries[n][v] \in Trees[n]
<1> DEFINE Good(k) == \A v \in Trees[k] : Recoveries[k][v] \in Trees[k]
           G == {k \in 0..n : Good(k)}
<1>1. ASSUME NEW k \in 0..n, k # 0 => k - 1 \in G PROVE k \in G
  <2>1. ASSUME NEW v \in Trees[k] PROVE Recoveries[k][v] \in Trees[k]
    <3>1. CASE v \in Scalars
      <4>1. RecoveredScalar(v) \in Scalars /\ Recoveries[k][v] = RecoveredScalar(v)
        BY <3>1, ScalarRecovered, RecoveryScalar
      <4>2. QED
        BY <4>1, TreesDef
    <3>2. CASE k # 0 /\ v \in Containers(Trees[k - 1])
      <4>1. Good(k - 1) /\ k \in Nat \ {0}
        BY <1>1, <3>2
      <4> DEFINE R == Recoveries[k - 1]
                 V == Trees[k - 1]
      <4>2. \A x \in V : R[x] \in V
        BY <4>1
      <4>3. Recoveries[k][v] = RecoveredContainer(v, R)
        BY <3>2, <4>1, RecoveryContainer
      <4>4. Trees[k] = Scalars \cup Containers(V)
        BY <4>1, TreesDef
      <4>5. v \in Containers(V)
        BY <3>2
      <4> HIDE DEF R, V
      <4>6. QED
        BY <4>2, <4>3, <4>4, <4>5, ContainerRecovered
    <3>3. QED
      BY <2>1, <3>1, <3>2, TreeKind
  <2>2. Good(k)
    BY <2>1
  <2> HIDE DEF Good
  <2>3. QED
    BY <2>2
<1>2. n \in G
  <2> HIDE DEF G
  <2>1. n \in Nat /\ n \in 0..n /\ 0 \in 0..n
    OBVIOUS
  <2>2. \A j \in 1..n : j \in 0..n /\ j # 0
    OBVIOUS
  <2>3. 0 \in G /\ \A j \in 1..n : j - 1 \in G => j \in G
    BY <1>1, <2>1, <2>2
  <2>4. QED
    BY <2>1, <2>3, ClimbUp
<1>3. QED
  BY <1>2

\* The text of what is left of a container.
LEMMA RecoveredText ==
  ASSUME NEW V, NEW v \in Containers(V), NEW f, NEW d \in Nat,
         NEW T, NEW S, NEW R, \A x \in V : R[x] \in V /\ S[x] = T[R[x]]
  PROVE  ContainerText(RecoveredContainer(v, R), f, d, T) = ContainerText(v, f, d, S)
<1> DEFINE r == RecoveredContainer(v, R)
           k == KidsRecovered(v.kids, R)
           l == v.kids
<1>1. r.type = v.type /\ r.kids = k
  BY ContainerRecovered
<1>2. l \in Seq(Named(V))
  BY ContainerFacts
<1>3. /\ k \in Seq(Named(V)) /\ Len(k) = Len(l)
      /\ \A i \in 1..Len(l) : k[i].name = l[i].name /\ k[i].node = R[l[i].node]
  BY <1>2, KidsAreRecovered
<1>4. /\ DOMAIN l = 1..Len(l) /\ DOMAIN k = 1..Len(l)
      /\ \A i \in 1..Len(l) : l[i].node \in V
  BY <1>2, <1>3, KidsFacts
<1> HIDE DEF k, l
<1>5. \A i \in 1..Len(l) : T[k[i].node] = S[l[i].node] /\ k[i].name = l[i].name
  BY <1>3, <1>4
<1>6. ElementsText(k, f, T) = ElementsText(l, f, S)
  BY <1>3, <1>4, <1>5, Zenon DEF ElementsText
<1>7. MembersText(k, f, d + 1, T) = MembersText(l, f, d + 1, S)
  BY <1>3, <1>4, <1>5, Zenon DEF MembersText
<1>8. QED
  BY <1>1, <1>6, <1>7, Zenon DEF ContainerText, l
-----------------------------------------------------------------------------
(***************************************************************************)
(* An order is an entry of todo, and spells a part of the text.            *)
(***************************************************************************)

\* C sees the characters up to the first null character.
LEMMA CStringIs ==
  ASSUME NEW s \in Chars, NEW m \in 0..Len(s), m < Len(s) => s[m + 1] = Nul,
         \A i \in 1..m : s[i] # Nul
  PROVE  CString(s) = SubSeq(s, 1, m)
<1> DEFINE S == {n \in 0..Len(s) : n < Len(s) => s[n + 1] = Nul}
<1>1. m \in S /\ S \subseteq Nat /\ S # {} /\ Len(s) \in Nat
  BY DEF Chars
<1>2. Min(S) \in S /\ \A y \in S : Min(S) <= y
  <2> HIDE DEF S
  <2>1. QED
    BY <1>1, MinIsLeast
<1>3. Min(S) = m
  <2> DEFINE k == Min(S)
  <2>1. k \in S /\ k <= m
    BY <1>1, <1>2
  <2> HIDE DEF k
  <2>2. ~(k < m)
    <3>1. SUFFICES ASSUME k < m PROVE FALSE
      OBVIOUS
    <3>2. k \in 0..Len(s) /\ k < Len(s) /\ k + 1 \in 1..m
      BY <1>1, <2>1, <3>1
    <3>3. s[k + 1] = Nul
      BY <2>1, <3>2
    <3>4. QED
      BY <3>2, <3>3
  <2>3. QED
    BY <1>1, <2>1, <2>2 DEF k
<1>4. CString(s) = SubSeq(s, 1, Min(S))
  BY DEF CString
<1>5. QED
  BY <1>3, <1>4

\* C sees all of a word, with or without a null character behind it.
LEMMA CStringWord ==
  ASSUME NEW s \in Word
  PROVE  /\ s \in Chars /\ Append(s, Nul) \in Chars
         /\ CString(s) = s /\ CString(Append(s, Nul)) = s
<1> DEFINE t == Append(s, Nul)
           n == Len(s)
<1>1. /\ n \in Nat /\ \A i \in 1..n : s[i] # Nul
  BY WordLength DEF Letter
<1>2. s \in Chars /\ Nul \in Character
  BY WordIsChars DEF Nul, Character
<1>3. /\ t \in Chars /\ Len(t) = n + 1 /\ t[n + 1] = Nul
      /\ \A i \in 1..n : t[i] = s[i]
  BY <1>2, AppendProperties DEF Chars
<1>4. CString(s) = s
  <2>1. CString(s) = SubSeq(s, 1, n)
    BY <1>1, <1>2, CStringIs
  <2>2. SubSeq(s, 1, n) = s
    BY <1>2, SubSeqFull DEF Chars
  <2>3. QED
    BY <2>1, <2>2
<1>5. CString(t) = s
  <2> HIDE DEF t
  <2>1. CString(t) = SubSeq(t, 1, n)
    BY <1>1, <1>3, CStringIs
  <2>2. /\ SubSeq(t, 1, n) \in Chars /\ Len(SubSeq(t, 1, n)) = n
        /\ \A i \in 1..n : SubSeq(t, 1, n)[i] = t[i]
    <3>1. \A i \in 1..n : t[i] \in Character
      BY <1>1, <1>3 DEF Chars
    <3>2. QED
      BY <1>1, <3>1, SubSeqProperties DEF Chars
  <2>3. SubSeq(t, 1, n) = s
    BY <1>1, <1>2, <1>3, <2>2, SeqEqual DEF Chars
  <2>4. QED
    BY <2>1, <2>3
<1>6. QED
  BY <1>2, <1>3, <1>4, <1>5
-----------------------------------------------------------------------------
\* The text of a value at depth d, and of what is printed for it.
TextAt(d, f) == Layouts[CJSON_NESTING_LIMIT - d][f][d]
SpeltAt(d, f) ==
  [v \in Trees[CJSON_NESTING_LIMIT - d] |->
     TextAt(d, f)[Recoveries[CJSON_NESTING_LIMIT - d][v]]]

WriteOrders ==
  {x \in [op : {"write"}, need : Nat, chars : Chars, advance : Nat] :
     \E s \in Word : /\ x.chars \in {s, Append(s, Nul)}
                     /\ x.advance \in {0, Len(s)} /\ x.need <= Len(s) + 1}
ValueOrders ==
  {x \in [op : {"value"}, node : UNION {Trees[n] : n \in Nat}, depth : 0..CJSON_NESTING_LIMIT] :
     x.node \in Trees[CJSON_NESTING_LIMIT - x.depth]}
LoopOrders ==
  {x \in [op : {"elements", "members"}, kids : UNION {Seq(Named(Trees[n])) : n \in Nat},
          depth : 1..CJSON_NESTING_LIMIT] :
     x.kids \in Seq(Named(Trees[CJSON_NESTING_LIMIT - x.depth]))}

\* What the running calls of the printer may have left to do, and the text that
\* comes of it.
Orders == WriteOrders \cup {Update} \cup ValueOrders \cup LoopOrders

Spelled(x, f) ==
  CASE x.op = "write" -> CString(x.chars)
    [] x.op = "update" -> Void
    [] x.op = "value" -> SpeltAt(x.depth, f)[x.node]
    [] x.op = "elements" -> ArrayRest(x.kids, f, SpeltAt(x.depth, f))
    [] x.op = "members" -> ObjectRest(x.kids, f, x.depth, SpeltAt(x.depth, f))

Rest(todos, f) == FlattenSeq([i \in 1..Len(todos) |-> Spelled(todos[i], f)])

\* The texts of the values at some depth are words.
LEMMA TextAtType ==
  ASSUME NEW d \in 0..CJSON_NESTING_LIMIT, NEW f \in BOOLEAN
  PROVE  \A v \in Trees[CJSON_NESTING_LIMIT - d] : TextAt(d, f)[v] \in Word
<1>1. CJSON_NESTING_LIMIT - d \in Nat /\ d \in Nat
  BY LimitAssumption
<1>2. QED
  BY <1>1, LayoutType DEF TextAt

\* What is printed for the values at some depth are words.
LEMMA SpeltAtType ==
  ASSUME NEW d \in 0..CJSON_NESTING_LIMIT, NEW f \in BOOLEAN
  PROVE  \A v \in Trees[CJSON_NESTING_LIMIT - d] : SpeltAt(d, f)[v] \in Word
<1> DEFINE n == CJSON_NESTING_LIMIT - d
<1>1. n \in Nat
  BY LimitAssumption
<1>2. \A v \in Trees[n] : TextAt(d, f)[v] \in Word
  BY TextAtType
<1>3. \A v \in Trees[n] : SpeltAt(d, f)[v] = TextAt(d, f)[Recoveries[n][v]]
  BY DEF SpeltAt
<1> HIDE DEF n
<1>4. \A v \in Trees[n] : Recoveries[n][v] \in Trees[n]
  BY <1>1, RecoveryType
<1>5. \A v \in Trees[n] : SpeltAt(d, f)[v] \in Word
  BY <1>2, <1>3, <1>4
<1>6. QED
  BY <1>5 DEF n

\* What is printed for a scalar.
LEMMA SpeltScalar ==
  ASSUME NEW d \in 0..CJSON_NESTING_LIMIT, NEW f \in BOOLEAN, NEW v \in Scalars
  PROVE  SpeltAt(d, f)[v] = ScalarText(RecoveredScalar(v))
<1> DEFINE n == CJSON_NESTING_LIMIT - d
<1>1. n \in Nat /\ d \in Nat
  BY LimitAssumption
<1>2. v \in Trees[n] => SpeltAt(d, f)[v] = Layouts[n][f][d][Recoveries[n][v]]
  BY DEF SpeltAt, TextAt
<1> HIDE DEF n
<1>3. v \in Trees[n]
  BY <1>1, TreesDef
<1>4. Recoveries[n][v] = RecoveredScalar(v) /\ RecoveredScalar(v) \in Scalars
  BY <1>1, RecoveryScalar, ScalarRecovered
<1> DEFINE r == RecoveredScalar(v)
<1> HIDE DEF r
<1>5. Layouts[n][f][d][r] = ScalarText(r)
  BY <1>1, <1>4, LayoutScalar DEF r
<1>6. QED
  BY <1>2, <1>3, <1>4, <1>5 DEF r

\* What is printed for a container.
LEMMA SpeltContainer ==
  ASSUME NEW d \in 0..CJSON_NESTING_LIMIT, NEW f \in BOOLEAN,
         NEW n \in Nat \ {0}, n = CJSON_NESTING_LIMIT - d,
         NEW v \in Containers(Trees[n - 1])
  PROVE  SpeltAt(d, f)[v] = ContainerText(v, f, d, SpeltAt(d + 1, f))
<1> DEFINE V == Trees[n - 1]
           R == Recoveries[n - 1]
           T == Layouts[n - 1][f][d + 1]
           S == SpeltAt(d + 1, f)
<1>1. d \in Nat /\ n - 1 = CJSON_NESTING_LIMIT - (d + 1) /\ n - 1 \in Nat
  BY LimitAssumption
<1>2. v \in Trees[n]
  BY TreesDef
<1>3. SpeltAt(d, f)[v] = Layouts[n][f][d][Recoveries[n][v]]
  BY <1>2 DEF SpeltAt, TextAt
<1>4. Recoveries[n][v] = RecoveredContainer(v, R)
  BY RecoveryContainer
<1>5. \A x \in V : R[x] \in V
  BY <1>1, RecoveryType
<1>6. \A x \in V : S[x] = T[R[x]]
  BY <1>1, Zenon DEF SpeltAt, TextAt
<1>7. v \in Containers(V)
  OBVIOUS
<1> DEFINE r == RecoveredContainer(v, R)
<1>8. r \in Containers(V)
  <2> HIDE DEF V, R
  <2>1. QED
    BY <1>5, <1>7, ContainerRecovered
<1>9. Layouts[n][f][d][r] = ContainerText(r, f, d, T)
  <2>1. r \in Containers(Trees[n - 1])
    BY <1>8
  <2> HIDE DEF r
  <2>2. QED
    BY <1>1, <2>1, LayoutContainer
<1> HIDE DEF V, R, T, S
<1>10. ContainerText(RecoveredContainer(v, R), f, d, T) = ContainerText(v, f, d, S)
  BY <1>1, <1>5, <1>6, <1>7, RecoveredText
<1>11. QED
  BY <1>3, <1>4, <1>9, <1>10, Zenon DEF S

\* An order to write, and what it writes.
LEMMA WriteOrder ==
  ASSUME NEW need \in Nat, NEW s \in Word, NEW chars, NEW advance,
         chars \in {s, Append(s, Nul)}, advance \in {0, Len(s)}, need <= Len(s) + 1,
         NEW f
  PROVE  Write(need, chars, advance) \in Orders /\ Spelled(Write(need, chars, advance), f) = s
<1> DEFINE x == Write(need, chars, advance)
<1>1. /\ x.op = "write" /\ x.need = need /\ x.chars = chars /\ x.advance = advance
      /\ x = [op |-> x.op, need |-> x.need, chars |-> x.chars, advance |-> x.advance]
  BY DEF Write
<1> HIDE DEF x
<1>2. chars \in Chars /\ CString(chars) = s /\ advance \in Nat
  <2>1. Len(s) \in Nat
    BY WordLength
  <2>2. chars \in Chars /\ CString(chars) = s
    BY CStringWord, Zenon
  <2>3. QED
    BY <2>1, <2>2
<1>3. x \in [op : {"write"}, need : Nat, chars : Chars, advance : Nat]
  BY <1>1, <1>2
<1>4. x \in WriteOrders
  BY <1>1, <1>3 DEF WriteOrders
<1>5. Spelled(x, f) = s
  BY <1>1, <1>2 DEF Spelled
<1>6. QED
  BY <1>4, <1>5 DEF Orders, x

\* An order to measure the offset, which writes nothing.
LEMMA UpdateOrder == \A f : Update \in Orders /\ Spelled(Update, f) = Void
BY DEF Orders, Update, Spelled

\* An order to print a value, and what it writes.
LEMMA ValueOrder ==
  ASSUME NEW d \in 0..CJSON_NESTING_LIMIT, NEW v \in Trees[CJSON_NESTING_LIMIT - d], NEW f
  PROVE  Value(v, d) \in Orders /\ Spelled(Value(v, d), f) = SpeltAt(d, f)[v]
<1>1. v \in UNION {Trees[n] : n \in Nat}
  <2>1. CJSON_NESTING_LIMIT - d \in Nat
    BY LimitAssumption
  <2>2. QED
    BY <2>1
<1>2. Value(v, d) \in ValueOrders
  BY <1>1 DEF ValueOrders, Value
<1>3. QED
  BY <1>2 DEF Orders, Spelled, Value

\* An order to print elements, and what it writes.
LEMMA ElementsOrder ==
  ASSUME NEW d \in 1..CJSON_NESTING_LIMIT,
         NEW kids \in Seq(Named(Trees[CJSON_NESTING_LIMIT - d])), NEW f
  PROVE  /\ Elements(kids, d) \in Orders
         /\ Spelled(Elements(kids, d), f) = ArrayRest(kids, f, SpeltAt(d, f))
<1>1. kids \in UNION {Seq(Named(Trees[n])) : n \in Nat}
  <2>1. CJSON_NESTING_LIMIT - d \in Nat
    BY LimitAssumption
  <2>2. QED
    BY <2>1
<1>2. Elements(kids, d) \in LoopOrders
  BY <1>1 DEF LoopOrders, Elements
<1>3. QED
  BY <1>2 DEF Orders, Spelled, Elements

\* An order to print members, and what it writes.
LEMMA MembersOrder ==
  ASSUME NEW d \in 1..CJSON_NESTING_LIMIT,
         NEW kids \in Seq(Named(Trees[CJSON_NESTING_LIMIT - d])), NEW f
  PROVE  /\ Members(kids, d) \in Orders
         /\ Spelled(Members(kids, d), f) = ObjectRest(kids, f, d, SpeltAt(d, f))
<1>1. kids \in UNION {Seq(Named(Trees[n])) : n \in Nat}
  <2>1. CJSON_NESTING_LIMIT - d \in Nat
    BY LimitAssumption
  <2>2. QED
    BY <2>1
<1>2. Members(kids, d) \in LoopOrders
  BY <1>1 DEF LoopOrders, Members
<1>3. QED
  BY <1>2 DEF Orders, Spelled, Members

\* The kinds of orders.
LEMMA OrderKind ==
  ASSUME NEW x \in Orders
  PROVE  \/ /\ x.op = "write" /\ x.need \in Nat /\ x.advance \in Nat
            /\ \E s \in Word : /\ x.chars \in {s, Append(s, Nul)}
                               /\ x.advance \in {0, Len(s)} /\ x.need <= Len(s) + 1
         \/ x = Update /\ x.op = "update"
         \/ /\ x.op = "value" /\ x.depth \in 0..CJSON_NESTING_LIMIT
            /\ x.node \in Trees[CJSON_NESTING_LIMIT - x.depth]
         \/ /\ x.op \in {"elements", "members"} /\ x.depth \in 1..CJSON_NESTING_LIMIT
            /\ x.kids \in Seq(Named(Trees[CJSON_NESTING_LIMIT - x.depth]))
<1>1. CASE x \in WriteOrders
  BY <1>1 DEF WriteOrders
<1>2. CASE x = Update
  BY <1>2 DEF Update
<1>3. CASE x \in ValueOrders
  BY <1>3 DEF ValueOrders
<1>4. CASE x \in LoopOrders
  BY <1>4 DEF LoopOrders
<1>5. QED
  BY <1>1, <1>2, <1>3, <1>4 DEF Orders

\* What an order writes is a word.
LEMMA SpelledType ==
  ASSUME NEW x \in Orders, NEW f \in BOOLEAN
  PROVE  Spelled(x, f) \in Word
<1>1. CASE /\ x.op = "write"
           /\ \E s \in Word : x.chars \in {s, Append(s, Nul)}
  <2>1. CString(x.chars) \in Word
    BY <1>1, CStringWord
  <2>2. QED
    BY <1>1, <2>1 DEF Spelled
<1>2. CASE x.op = "update"
  BY <1>2, EmptyWord DEF Spelled
<1>3. CASE /\ x.op = "value" /\ x.depth \in 0..CJSON_NESTING_LIMIT
           /\ x.node \in Trees[CJSON_NESTING_LIMIT - x.depth]
  BY <1>3, SpeltAtType DEF Spelled
<1>4. CASE /\ x.op \in {"elements", "members"} /\ x.depth \in 1..CJSON_NESTING_LIMIT
           /\ x.kids \in Seq(Named(Trees[CJSON_NESTING_LIMIT - x.depth]))
  <2>1. x.depth \in 0..CJSON_NESTING_LIMIT /\ x.depth \in Nat \ {0}
    BY <1>4, LimitAssumption
  <2>2. \A v \in Trees[CJSON_NESTING_LIMIT - x.depth] : SpeltAt(x.depth, f)[v] \in Word
    BY <2>1, SpeltAtType
  <2>3. ArrayRest(x.kids, f, SpeltAt(x.depth, f)) \in Word
    BY <1>4, <2>2, ArrayRestType
  <2>4. ObjectRest(x.kids, f, x.depth, SpeltAt(x.depth, f)) \in Word
    BY <1>4, <2>1, <2>2, ObjectRestType
  <2>5. QED
    BY <1>4, <2>3, <2>4 DEF Spelled
<1>5. QED
  BY <1>1, <1>2, <1>3, <1>4, OrderKind
-----------------------------------------------------------------------------
(***************************************************************************)
(* Lists of orders.  One that leaves the offset behind is followed by one that*)
(* measures it.                                                            *)
(***************************************************************************)

\* An order comes before the others.
Then(x, s) == Join(Mark(x), s)

\* The offset is moved late where the next order measures, and at the end.
Leaving(x) ==
  \/ x.op \in {"value", "elements", "members"}
  \/ x.op = "write" /\ x.advance # Len(CString(x.chars))
Measures(s) == s = <<>> \/ s[1].op = "update"
Settles(s) ==
  \A k \in 1..Len(s) : Leaving(s[k]) => k = Len(s) \/ s[k + 1].op = "update"
Plan(s) == s \in Seq(Orders) /\ Settles(s)

\* An order before others.
LEMMA ThenProperties ==
  ASSUME NEW S, NEW x \in S, NEW s \in Seq(S)
  PROVE  /\ Then(x, s) \in Seq(S) /\ Len(Then(x, s)) = Len(s) + 1 /\ Len(s) \in Nat
         /\ Then(x, s)[1] = x /\ Then(x, s) # <<>> /\ Tail(Then(x, s)) = s
         /\ \A k \in 1..Len(s) : Then(x, s)[k + 1] = s[k]
<1> DEFINE a == <<x>>
           t == Join(a, s)
<1>1. a \in Seq(S) /\ Len(a) = 1 /\ a[1] = x /\ Len(s) \in Nat
  OBVIOUS
<1> HIDE DEF a
<1>2. /\ t \in Seq(S) /\ Len(t) = Len(a) + Len(s)
      /\ \A i \in 1..Len(a) + Len(s) : t[i] = IF i <= Len(a) THEN a[i] ELSE s[i - Len(a)]
  <2>1. a \in Seq(S)
    BY <1>1
  <2>2. QED
    BY <2>1, JoinProperties, Zenon
<1>3. Then(x, s) = t
  BY Zenon DEF Then, Mark, a
<1> HIDE DEF t
<1>4. Len(t) = Len(s) + 1 /\ t[1] = x /\ t # <<>>
  <2>1. 1 \in 1..Len(a) + Len(s) /\ 1 <= Len(a)
    BY <1>1
  <2>2. t[1] = x /\ Len(t) = Len(s) + 1
    BY <1>1, <1>2, <2>1
  <2>3. QED
    BY <1>1, <2>2
<1>5. ASSUME NEW k \in 1..Len(s) PROVE t[k + 1] = s[k]
  <2>1. k + 1 \in 1..Len(a) + Len(s) /\ ~(k + 1 <= Len(a)) /\ k + 1 - Len(a) = k
    BY <1>1
  <2>2. QED
    BY <1>2, <2>1
<1>6. Tail(t) = s
  <2> DEFINE r == Tail(t)
  <2>1. r \in Seq(S) /\ Len(r) = Len(t) - 1 /\ \A i \in 1..Len(r) : r[i] = t[i + 1]
    BY <1>2, <1>4, HeadTailProperties
  <2> HIDE DEF r
  <2>2. Len(r) = Len(s) /\ \A i \in 1..Len(r) : r[i] = s[i]
    BY <1>1, <1>4, <1>5, <2>1
  <2>3. r = s
    BY <2>1, <2>2, SeqEqual
  <2>4. QED
    BY <2>3 DEF r
<1>7. QED
  BY <1>1, <1>2, <1>3, <1>4, <1>5, <1>6

\* A list of orders is its first one before the others.
LEMMA ThenTail ==
  ASSUME NEW S, NEW s \in Seq(S), s # <<>>
  PROVE  /\ s[1] \in S /\ Tail(s) \in Seq(S) /\ s = Then(s[1], Tail(s))
         /\ Len(s) = Len(Tail(s)) + 1 /\ Len(s) \in Nat
         /\ \A k \in 1..Len(Tail(s)) : Tail(s)[k] = s[k + 1]
<1> DEFINE t == Tail(s)
           x == s[1]
<1>1. /\ t \in Seq(S) /\ Len(t) = Len(s) - 1 /\ Len(s) \in Nat \ {0}
      /\ \A i \in 1..Len(t) : t[i] = s[i + 1]
  BY HeadTailProperties, EmptySeq
<1>2. x \in S
  <2>1. 1 \in 1..Len(s)
    BY <1>1
  <2>2. QED
    BY <2>1, ElementOfSeq
<1> DEFINE u == Then(x, t)
<1> HIDE DEF t
<1>3. /\ u \in Seq(S) /\ Len(u) = Len(t) + 1 /\ u[1] = x
      /\ \A k \in 1..Len(t) : u[k + 1] = t[k]
  <2> HIDE DEF x
  <2>1. QED
    BY <1>1, <1>2, ThenProperties
<1> HIDE DEF u
<1>4. ASSUME NEW i \in 1..Len(s) PROVE s[i] = u[i]
  <2>1. CASE i = 1
    BY <1>3, <2>1
  <2>2. CASE i # 1
    <3> DEFINE k == i - 1
    <3>1. k \in 1..Len(t) /\ k + 1 = i
      BY <1>1, <2>2
    <3> HIDE DEF k
    <3>2. u[k + 1] = t[k] /\ t[k] = s[k + 1]
      BY <1>1, <1>3, <3>1
    <3>3. QED
      BY <3>1, <3>2
  <2>3. QED
    BY <2>1, <2>2
<1>5. s = u
  <2>1. Len(s) = Len(u)
    BY <1>1, <1>3
  <2>2. QED
    BY <1>3, <1>4, <2>1, SeqEqual
<1>6. Len(s) = Len(t) + 1
  BY <1>1
<1>7. QED
  BY <1>1, <1>2, <1>5, <1>6 DEF t, u

\* What orders write is a word.
LEMMA RestType ==
  ASSUME NEW s \in Seq(Orders), NEW f \in BOOLEAN
  PROVE  /\ [i \in 1..Len(s) |-> Spelled(s[i], f)] \in Seq(Word)
         /\ Rest(s, f) \in Word
<1>1. Len(s) \in Nat /\ \A i \in 1..Len(s) : s[i] \in Orders
  BY ElementOfSeq
<1>2. \A i \in 1..Len(s) : Spelled(s[i], f) \in Word
  BY <1>1, SpelledType
<1>3. [i \in 1..Len(s) |-> Spelled(s[i], f)] \in Seq(Word)
  BY <1>1, <1>2
<1>4. QED
  BY <1>3, FlattenType DEF Rest, Word

\* What orders write begins with what the first one writes.
LEMMA RestThen ==
  ASSUME NEW x \in Orders, NEW s \in Seq(Orders), NEW f \in BOOLEAN
  PROVE  Rest(Then(x, s), f) = Join(Spelled(x, f), Rest(s, f))
<1> DEFINE t == Then(x, s)
           p == [i \in 1..Len(t) |-> Spelled(t[i], f)]
           r == [i \in 1..Len(s) |-> Spelled(s[i], f)]
<1>1. /\ t \in Seq(Orders) /\ Len(t) = Len(s) + 1 /\ Len(s) \in Nat /\ t[1] = x
      /\ \A k \in 1..Len(s) : t[k + 1] = s[k]
  BY ThenProperties
<1> HIDE DEF t
<1>2. p \in Seq(Word) /\ r \in Seq(Word)
  BY <1>1, RestType
<1>3. Len(p) = Len(r) + 1 /\ Len(r) = Len(s) /\ p[1] = Spelled(x, f)
  BY <1>1
<1>4. \A i \in 1..Len(r) : r[i] = p[i + 1]
  <2>1. ASSUME NEW i \in 1..Len(r) PROVE r[i] = p[i + 1]
    <3>1. i \in 1..Len(s) /\ i + 1 \in 1..Len(t)
      BY <1>1, <1>3
    <3>2. QED
      BY <1>1, <3>1
  <2>2. QED
    BY <2>1
<1>5. Rest(t, f) = FlattenSeq(p) /\ Rest(s, f) = FlattenSeq(r)
  BY DEF Rest
<1> HIDE DEF p, r
<1>6. FlattenSeq(p) = Join(p[1], FlattenSeq(r))
  BY <1>2, <1>3, <1>4, FlattenHead
<1>7. QED
  BY <1>3, <1>5, <1>6 DEF t

\* No orders write nothing.
LEMMA RestEmpty == \A f \in BOOLEAN : Rest(<<>>, f) = Void /\ <<>> \in Seq(Orders)
<1>1. ASSUME NEW f \in BOOLEAN PROVE Rest(<<>>, f) = Void
  <2> DEFINE s == <<>>
             p == [i \in 1..Len(s) |-> Spelled(s[i], f)]
  <2>1. p = <<>>
    OBVIOUS
  <2>2. QED
    BY <2>1 DEF Rest, FlattenSeq, Void
<1>2. QED
  BY <1>1, EmptySeq

\* A plan stays one with an order before it.
LEMMA PlanThen ==
  ASSUME NEW x \in Orders, NEW s, Plan(s), Leaving(x) => Measures(s)
  PROVE  Plan(Then(x, s))
<1> DEFINE t == Then(x, s)
<1>1. /\ t \in Seq(Orders) /\ Len(t) = Len(s) + 1 /\ Len(s) \in Nat /\ t[1] = x
      /\ \A k \in 1..Len(s) : t[k + 1] = s[k]
  BY ThenProperties DEF Plan
<1> HIDE DEF t
<1>2. ASSUME NEW k \in 1..Len(t), Leaving(t[k])
      PROVE  k = Len(t) \/ t[k + 1].op = "update"
  <2>1. CASE k = 1
    <3>1. Measures(s)
      BY <1>1, <1>2, <2>1
    <3>2. CASE s = <<>>
      BY <1>1, <2>1, <3>2
    <3>3. CASE s # <<>> /\ s[1].op = "update"
      <4>1. 1 \in 1..Len(s)
        BY <1>1, <3>3 DEF Plan
      <4>2. t[1 + 1] = s[1]
        BY <1>1, <4>1
      <4>3. QED
        BY <2>1, <3>3, <4>2
    <3>4. QED
      BY <3>1, <3>2, <3>3 DEF Measures
  <2>2. CASE k # 1
    <3> DEFINE j == k - 1
    <3>1. j \in 1..Len(s) /\ j + 1 = k /\ (j = Len(s) => k = Len(t))
          /\ (j # Len(s) => j + 1 \in 1..Len(s))
      BY <1>1, <2>2
    <3> HIDE DEF j
    <3>2. t[k] = s[j]
      BY <1>1, <3>1
    <3>3. j = Len(s) \/ s[j + 1].op = "update"
      BY <1>2, <3>1, <3>2 DEF Plan, Settles
    <3>4. j # Len(s) => t[k + 1] = s[j + 1]
      BY <1>1, <3>1
    <3>5. QED
      BY <3>1, <3>3, <3>4
  <2>3. QED
    BY <2>1, <2>2
<1>3. QED
  BY <1>1, <1>2 DEF Plan, Settles, t

\* A plan stays one without its first order.
LEMMA PlanTail ==
  ASSUME NEW s, Plan(s), s # <<>>
  PROVE  Plan(Tail(s)) /\ s[1] \in Orders /\ (Leaving(s[1]) => Measures(Tail(s)))
<1> DEFINE t == Tail(s)
<1>1. /\ s[1] \in Orders /\ t \in Seq(Orders) /\ Len(s) = Len(t) + 1 /\ Len(t) \in Nat
      /\ \A k \in 1..Len(t) : t[k] = s[k + 1]
  BY ThenTail, LenProperties DEF Plan
<1> HIDE DEF t
<1>2. ASSUME NEW k \in 1..Len(t), Leaving(t[k])
      PROVE  k = Len(t) \/ t[k + 1].op = "update"
  <2> DEFINE j == k + 1
  <2>1. /\ j \in 1..Len(s) /\ t[k] = s[j] /\ (j = Len(s) => k = Len(t))
        /\ (k # Len(t) => k + 1 \in 1..Len(t))
    BY <1>1
  <2>2. k # Len(t) => t[k + 1] = s[j + 1]
    BY <1>1, <2>1
  <2> HIDE DEF j
  <2>3. j = Len(s) \/ s[j + 1].op = "update"
    BY <1>2, <2>1 DEF Plan, Settles
  <2>4. QED
    BY <2>1, <2>2, <2>3
<1>3. ASSUME Leaving(s[1]) PROVE Measures(t)
  <2>1. 1 \in 1..Len(s)
    BY <1>1
  <2>2. 1 = Len(s) \/ s[1 + 1].op = "update"
    BY <1>3, <2>1 DEF Plan, Settles
  <2>3. CASE Len(s) = 1
    BY <1>1, <2>3, EmptySeq DEF Measures
  <2>4. CASE Len(s) # 1
    <3>1. 1 \in 1..Len(t) /\ t[1] = s[1 + 1]
      BY <1>1, <2>4
    <3>2. QED
      BY <2>2, <2>4, <3>1 DEF Measures
  <2>5. QED
    BY <2>3, <2>4
<1>4. QED
  BY <1>1, <1>2, <1>3 DEF Plan, Settles, t
-----------------------------------------------------------------------------
(***************************************************************************)
(* What orders bring: they write the word w, and t is left.                *)
(***************************************************************************)

\* An order before others, and more behind them.
LEMMA ThenJoin ==
  ASSUME NEW S, NEW x \in S, NEW b \in Seq(S), NEW t \in Seq(S)
  PROVE  Join(Then(x, b), t) = Then(x, Join(b, t))
<1> DEFINE a == <<x>>
<1>1. a \in Seq(S)
  OBVIOUS
<1>2. Then(x, b) = Join(a, b) /\ Then(x, Join(b, t)) = Join(a, Join(b, t))
  BY DEF Then, Mark
<1> HIDE DEF a
<1>3. QED
  BY <1>1, <1>2, JoinInAnyOrder

\* One order before others.
LEMMA OneOrder ==
  ASSUME NEW S, NEW a \in S, NEW t \in Seq(S)
  PROVE  Join(<<a>>, t) = Then(a, t) /\ <<a>> \in Seq(S)
BY DEF Then, Mark

\* Two orders before others.
LEMMA TwoOrders ==
  ASSUME NEW S, NEW a \in S, NEW b \in S, NEW t \in Seq(S)
  PROVE  Join(<<a, b>>, t) = Then(a, Then(b, t)) /\ <<a, b>> \in Seq(S)
<1> DEFINE r == <<b>>
<1>1. r \in Seq(S) /\ <<a, b>> \in Seq(S)
  OBVIOUS
<1>2. <<a, b>> = Then(a, r)
  <2> DEFINE o == <<a>>
  <2>1. o \in Seq(S) /\ <<a, b>> = Append(o, b)
    OBVIOUS
  <2>2. Append(o, b) = o \o <<b>>
    <3> HIDE DEF o
    <3>1. QED
      BY <2>1, AppendIsConcat
  <2>3. QED
    BY <2>1, <2>2, Zenon DEF Then, Join, Mark
<1>3. Join(r, t) = Then(b, t)
  BY OneOrder
<1> HIDE DEF r
<1>4. QED
  BY <1>1, <1>2, <1>3, ThenJoin

\* Three orders before others.
LEMMA ThreeOrders ==
  ASSUME NEW S, NEW a \in S, NEW b \in S, NEW c \in S, NEW t \in Seq(S)
  PROVE  Join(<<a, b, c>>, t) = Then(a, Then(b, Then(c, t))) /\ <<a, b, c>> \in Seq(S)
<1> DEFINE r == <<b, c>>
<1>1. r \in Seq(S) /\ <<a, b, c>> \in Seq(S)
  OBVIOUS
<1>2. <<a, b, c>> = Then(a, r)
  BY DEF Then, Join, Mark
<1>3. Join(r, t) = Then(b, Then(c, t))
  BY TwoOrders
<1> HIDE DEF r
<1>4. Join(Then(a, r), t) = Then(a, Join(r, t))
  BY <1>1, ThenJoin
<1>5. QED
  BY <1>1, <1>2, <1>3, <1>4, Zenon

\* Four orders before others.
LEMMA FourOrders ==
  ASSUME NEW S, NEW a \in S, NEW b \in S, NEW c \in S, NEW d \in S, NEW t \in Seq(S)
  PROVE  /\ Join(<<a, b, c, d>>, t) = Then(a, Then(b, Then(c, Then(d, t))))
         /\ <<a, b, c, d>> \in Seq(S)
<1> DEFINE r == <<b, c, d>>
<1>1. r \in Seq(S) /\ <<a, b, c, d>> \in Seq(S)
  OBVIOUS
<1>2. <<a, b, c, d>> = Then(a, r)
  BY DEF Then, Join, Mark
<1>3. Join(r, t) = Then(b, Then(c, Then(d, t)))
  BY ThreeOrders
<1> HIDE DEF r
<1>4. QED
  BY <1>1, <1>2, <1>3, ThenJoin

\* Seven orders before others.
LEMMA SevenOrders ==
  ASSUME NEW S, NEW a \in S, NEW b \in S, NEW c \in S, NEW d \in S,
         NEW e \in S, NEW g \in S, NEW h \in S, NEW t \in Seq(S)
  PROVE  /\ Join(<<a, b, c, d, e, g, h>>, t)
              = Then(a, Then(b, Then(c, Then(d, Then(e, Then(g, Then(h, t)))))))
         /\ <<a, b, c, d, e, g, h>> \in Seq(S)
<1> DEFINE r == <<d, e, g, h>>
           p == <<a, b, c>>
           u == Then(d, Then(e, Then(g, Then(h, t))))
<1>1. r \in Seq(S) /\ Join(r, t) = u
  BY FourOrders
<1>2. <<a, b, c, d, e, g, h>> = Join(p, r) /\ <<a, b, c, d, e, g, h>> \in Seq(S)
  BY DEF Join
<1>3. p \in Seq(S)
  OBVIOUS
<1>4. u \in Seq(S)
  BY ThenProperties
<1>5. Join(p, u) = Then(a, Then(b, Then(c, u)))
  <2> HIDE DEF u
  <2>1. QED
    BY <1>4, ThreeOrders
<1>6. Join(Join(p, r), t) = Join(p, Join(r, t))
  <2> HIDE DEF p, r
  <2>1. QED
    BY <1>1, <1>3, JoinInAnyOrder
<1> HIDE DEF p, r
<1>7. QED
  BY <1>1, <1>2, <1>5, <1>6
-----------------------------------------------------------------------------
\* The text w comes before what comes of t.
Brings(s, w, t, f) ==
  /\ Plan(s) /\ s # <<>> /\ w \in Word /\ Rest(s, f) = Join(w, Rest(t, f))
Acts(s) == s # <<>> /\ s[1].op # "update"

\* One order brings what it writes.
LEMMA BringFirst ==
  ASSUME NEW x \in Orders, NEW t, Plan(t), Leaving(x) => Measures(t), NEW f \in BOOLEAN
  PROVE  Brings(Then(x, t), Spelled(x, f), t, f)
<1>1. t \in Seq(Orders)
  BY DEF Plan
<1>2. Then(x, t) # <<>>
  BY <1>1, ThenProperties
<1>3. QED
  BY <1>1, <1>2, PlanThen, RestThen, SpelledType DEF Brings

\* An order before others brings what it writes before theirs.
LEMMA BringMore ==
  ASSUME NEW x \in Orders, NEW s, NEW w, NEW t, NEW f \in BOOLEAN, Plan(t),
         Brings(s, w, t, f), Leaving(x) => Measures(s)
  PROVE  Brings(Then(x, s), Join(Spelled(x, f), w), t, f)
<1>1. t \in Seq(Orders) /\ s \in Seq(Orders)
  BY DEF Plan, Brings
<1>2. Then(x, s) # <<>>
  BY <1>1, ThenProperties
<1>3. Rest(Then(x, s), f) = Join(Spelled(x, f), Join(w, Rest(t, f)))
  BY <1>1, RestThen DEF Brings
<1>4. Spelled(x, f) \in Word /\ w \in Word /\ Rest(t, f) \in Word
  BY <1>1, SpelledType, RestType DEF Brings
<1>5. Rest(Then(x, s), f) = Join(Join(Spelled(x, f), w), Rest(t, f))
  BY <1>3, <1>4, JoinAssociative
<1>6. Plan(Then(x, s))
  BY PlanThen DEF Brings
<1>7. QED
  BY <1>2, <1>4, <1>5, <1>6, JoinType DEF Brings

\* A list of orders acts if its first one is no measurement.
LEMMA ThenActs ==
  ASSUME NEW x \in Orders, x.op # "update", NEW s, Plan(s)
  PROVE  Acts(Then(x, s))
<1>1. s \in Seq(Orders)
  BY DEF Plan
<1>2. Then(x, s)[1] = x /\ Then(x, s) # <<>>
  BY <1>1, ThenProperties
<1>3. QED
  BY <1>2 DEF Acts

\* A call of update_offset writes nothing.
LEMMA BringUpdate ==
  ASSUME NEW s, NEW w, NEW t, NEW f \in BOOLEAN, Plan(t), Brings(s, w, t, f)
  PROVE  Brings(Then(Update, s), w, t, f) /\ Measures(Then(Update, s))
<1>1. Update \in Orders /\ Spelled(Update, f) = Void /\ ~Leaving(Update)
  BY UpdateOrder DEF Leaving, Update
<1>2. Brings(Then(Update, s), Join(Void, w), t, f)
  BY <1>1, BringMore
<1>3. Join(Void, w) = w
  BY JoinEmpty DEF Brings
<1>4. Then(Update, s)[1] = Update
  BY <1>1, ThenProperties DEF Brings, Plan
<1>5. QED
  BY <1>2, <1>3, <1>4 DEF Measures, Update

\* What the kinds of writes write, and which of them move the offset.
LEMMA PutOrders ==
  ASSUME NEW s \in Word, NEW f
  PROVE  /\ Put(s) \in Orders /\ Spelled(Put(s), f) = s /\ ~Leaving(Put(s))
         /\ PutNul(s) \in Orders /\ Spelled(PutNul(s), f) = s /\ ~Leaving(PutNul(s))
         /\ Leave(s) \in Orders /\ Spelled(Leave(s), f) = s
         /\ Put(s).op = "write" /\ PutNul(s).op = "write" /\ Leave(s).op = "write"
<1>1. Len(s) \in Nat /\ CString(s) = s /\ CString(Append(s, Nul)) = s
  BY WordLength, CStringWord
<1>2. Len(s) + 1 \in Nat /\ Len(s) <= Len(s) + 1 /\ Len(s) + 1 <= Len(s) + 1
  BY <1>1
<1>3. /\ Put(s) \in Orders /\ Spelled(Put(s), f) = s
      /\ PutNul(s) \in Orders /\ Spelled(PutNul(s), f) = s
      /\ Leave(s) \in Orders /\ Spelled(Leave(s), f) = s
  <2> DEFINE n == Len(s)
             t == Append(s, Nul)
             m == Len(s) + 1
  <2>1. /\ n \in Nat /\ m \in Nat /\ n <= Len(s) + 1 /\ m <= Len(s) + 1
        /\ n \in {0, Len(s)} /\ 0 \in {0, Len(s)}
        /\ t \in {s, Append(s, Nul)} /\ s \in {s, Append(s, Nul)}
    BY <1>1
  <2> HIDE DEF n, t, m
  <2>2. Write(n, s, n) \in Orders /\ Spelled(Write(n, s, n), f) = s
    BY <2>1, WriteOrder
  <2>3. Write(m, t, n) \in Orders /\ Spelled(Write(m, t, n), f) = s
    BY <2>1, WriteOrder
  <2>4. Write(m, t, 0) \in Orders /\ Spelled(Write(m, t, 0), f) = s
    BY <2>1, WriteOrder
  <2>5. QED
    BY <2>2, <2>3, <2>4, Zenon DEF n, t, m, Put, PutNul, Leave
<1>4. ~Leaving(Put(s)) /\ ~Leaving(PutNul(s))
  BY <1>1 DEF Leaving, Put, PutNul, Write
<1>5. QED
  BY <1>3, <1>4 DEF Put, PutNul, Leave, Write
-----------------------------------------------------------------------------
(***************************************************************************)
(* The orders of a scalar and of an array.                                 *)
(***************************************************************************)

\* Formatted leaves blanks out where nothing is formatted.
LEMMA FormattedSpace ==
  ASSUME NEW f \in BOOLEAN, f = mode.format
  PROVE  /\ Formatted(<<"w">>) = Space(f, 1)
         /\ \A n \in Nat : Formatted(Blanks(n)) = Space(f, n)
<1>1. <<"w">> = [i \in 1..1 |-> "w"]
  OBVIOUS
<1>2. Formatted(<<"w">>) = Space(f, 1)
  BY <1>1, Zenon DEF Formatted, Space
<1>3. \A n \in Nat : Formatted(Blanks(n)) = Space(f, n)
  BY Zenon DEF Formatted, Blanks, Space
<1>4. QED
  BY <1>2, <1>3

\* print_string_ptr writes the word in quotation marks.
LEMMA StringOrder ==
  ASSUME NEW s \in Word
  PROVE  print_string_ptr(s) = Leave(Quoted(s))
<1> DEFINE p == [i \in DOMAIN s |->
                   IF s[i] \in DOMAIN Escape THEN <<"b", Escape[s[i]]>> ELSE <<s[i]>>]
           e == [i \in DOMAIN s |->
                   IF s[i] = "w" THEN <<"b", "e">>
                   ELSE IF s[i] \in {"q", "b"} THEN <<"b", s[i]>> ELSE <<s[i]>>]
<1>1. ASSUME NEW i \in DOMAIN s PROVE p[i] = e[i]
  BY DEF Escape
<1>2. p = e
  <2>1. p = [i \in DOMAIN s |-> p[i]] /\ e = [i \in DOMAIN s |-> e[i]]
    OBVIOUS
  <2> HIDE DEF p, e
  <2>2. QED
    BY <1>1, <2>1, Zenon
<1>3. print_string_ptr(s) = Leave(<<"q">> \o FlattenSeq(p) \o <<"q">>)
  BY Zenon DEF print_string_ptr
<1>4. Quoted(s) = <<"q">> \o FlattenSeq(e) \o <<"q">>
  BY Zenon DEF Quoted, Escaped
<1> HIDE DEF p, e
<1>5. QED
  BY <1>2, <1>3, <1>4, Zenon

\* print_value brings the text of a scalar.
LEMMA ScalarBrings ==
  ASSUME NEW f \in BOOLEAN, f = mode.format, NEW v \in Scalars, NEW d,
         NEW t, Plan(t), Measures(t)
  PROVE  /\ Brings(Join(print_value(v, d), t), ScalarText(RecoveredScalar(v)), t, f)
         /\ Acts(Join(print_value(v, d), t))
<1> DEFINE s == ScalarText(RecoveredScalar(v))
<1>1. s \in Word /\ t \in Seq(Orders)
  <2>1. RecoveredScalar(v) \in Scalars
    BY ScalarRecovered
  <2>2. QED
    BY <2>1, ScalarTextType DEF Plan
<1>2. \E x \in Orders : /\ x.op = "write" /\ Spelled(x, f) = s
                        /\ print_value(v, d) = <<x>>
  <2>1. CASE v.type = "literal"
    <3>1. print_value(v, d) = <<Leave(s)>>
      <4>1. s = <<"n">>
        BY <2>1, ScalarRecovered
      <4>2. print_value(v, d) = <<Leave(<<"n">>)>>
        BY <2>1, Zenon DEF print_value
      <4>3. QED
        BY <4>1, <4>2, Zenon
    <3> HIDE DEF s
    <3>2. QED
      BY <1>1, <3>1, PutOrders
  <2>2. CASE v.type = "number"
    <3>1. print_value(v, d) = <<PutNul(s)>>
      <4>1. s = print_number(v.chars)
        BY <2>2, ScalarRecovered
      <4>2. print_value(v, d) = <<PutNul(print_number(v.chars))>>
        BY <2>2 DEF print_value
      <4>3. QED
        BY <4>1, <4>2, Zenon
    <3> HIDE DEF s
    <3>2. QED
      BY <1>1, <3>1, PutOrders
  <2>3. CASE v.type = "string"
    <3>1. v.chars \in Word /\ s = Quoted(v.chars)
      BY <2>3, ScalarFacts, ScalarRecovered
    <3>2. print_value(v, d) = <<print_string_ptr(v.chars)>>
      BY <2>3 DEF print_value
    <3>3. print_string_ptr(v.chars) = Leave(s)
      BY <3>1, StringOrder
    <3> HIDE DEF s
    <3>4. QED
      BY <1>1, <3>2, <3>3, PutOrders
  <2>4. QED
    BY <2>1, <2>2, <2>3, ScalarFacts
<1>3. PICK x \in Orders : /\ x.op = "write" /\ Spelled(x, f) = s
                          /\ print_value(v, d) = <<x>>
  BY <1>2
<1> HIDE DEF s
<1>4. Join(print_value(v, d), t) = Then(x, t)
  BY <1>3, Zenon DEF Then, Mark
<1>5. Brings(Then(x, t), s, t, f)
  BY <1>3, BringFirst
<1>6. Acts(Then(x, t))
  BY <1>3, ThenActs
<1>7. QED
  BY <1>4, <1>5, <1>6, Zenon DEF s

\* The text of a loop that is through, and one turn of it.
LEMMA NoElementsRest == \A f, T : ArrayRest(<<>>, f, T) = Mark("]")
<1>1. SUFFICES ASSUME NEW f, NEW T PROVE ArrayRest(<<>>, f, T) = Mark("]")
  OBVIOUS
<1>2. ElementsText(<<>>, f, T) = Void
  BY NoElements, Zenon
<1>3. ArrayRest(<<>>, f, T) = Join(Void, Mark("]"))
  BY <1>2, Zenon DEF ArrayRest
<1>4. Join(Void, Mark("]")) = Mark("]")
  BY MarkWords, JoinEmpty, Zenon
<1>5. QED
  BY <1>3, <1>4, Zenon

ElementsTurn(kids, f, T) ==
  Join(T[kids[1].node],
       IF Len(kids) = 1 THEN ArrayRest(Tail(kids), f, T)
       ELSE Join(Join(Mark(","), Space(f, 1)), ArrayRest(Tail(kids), f, T)))

\* The rest of an array begins with one element.
LEMMA ElementsRest ==
  ASSUME NEW V, NEW kids \in Seq(Named(V)), NEW f, NEW T, \A v \in V : T[v] \in Word,
         kids # <<>>
  PROVE  /\ T[kids[1].node] \in Word /\ Tail(kids) \in Seq(Named(V))
         /\ ArrayRest(Tail(kids), f, T) \in Word
         /\ kids[1].node \in V /\ kids[1].name \in Word
         /\ ArrayRest(kids, f, T) = ElementsTurn(kids, f, T)
<1> DEFINE c == Mark("]")
           w == T[kids[1].node]
           k == Join(Mark(","), Space(f, 1))
           e == ElementsText(Tail(kids), f, T)
           r == ArrayRest(Tail(kids), f, T)
<1>1. kids[1] \in Named(V) /\ Tail(kids) \in Seq(Named(V))
  BY ThenTail
<1>2. kids[1].node \in V /\ kids[1].name \in Word
  BY <1>1 DEF Named
<1>3. w \in Word /\ k \in Word /\ c \in Word
  BY <1>2, MarkWords, JoinType
<1>4. e \in Word /\ r \in Word
  BY <1>1, ElementsParts, ArrayRestType
<1>5. r = Join(e, c)
  BY DEF ArrayRest
<1>6. ElementsText(kids, f, T) = Join(Join(w, IF Len(kids) = 1 THEN Void ELSE k), e)
  <2>1. ElementsText(kids, f, T) = Join(ElementFirst(kids[1].node, Len(kids) = 1, f, T), e)
    BY ElementsStep
  <2>2. QED
    BY <2>1, Zenon DEF ElementFirst
<1>7. ArrayRest(kids, f, T) = Join(Join(Join(w, IF Len(kids) = 1 THEN Void ELSE k), e), c)
  BY <1>6, Zenon DEF ArrayRest
<1> HIDE DEF w, k, e, r, c
<1>8. ArrayRest(kids, f, T) = Join(w, IF Len(kids) = 1 THEN r ELSE Join(k, r))
  <2>1. CASE Len(kids) = 1
    <3>1. ArrayRest(kids, f, T) = Join(Join(w, e), c)
      BY <1>3, <1>7, <2>1, JoinEmpty
    <3>2. QED
      BY <1>3, <1>4, <1>5, <2>1, <3>1, JoinAssociative
  <2>2. CASE Len(kids) # 1
    <3>1. ArrayRest(kids, f, T) = Join(Join(Join(w, k), e), c) /\ Join(w, k) \in Word
      BY <1>3, <1>7, <2>2, JoinType
    <3>2. Join(Join(Join(w, k), e), c) = Join(Join(w, k), r)
      BY <1>3, <1>4, <1>5, <3>1, JoinAssociative
    <3>3. Join(Join(w, k), r) = Join(w, Join(k, r))
      BY <1>3, <1>4, JoinAssociative
    <3>4. QED
      BY <2>2, <3>1, <3>2, <3>3
  <2>3. QED
    BY <2>1, <2>2
<1>9. QED
  BY <1>1, <1>2, <1>3, <1>4, <1>8, Zenon DEF w, k, r, ElementsTurn

\* Behind the last member comes the end of the object.
LEMMA NoMembersRest ==
  ASSUME NEW f, NEW d \in Nat \ {0}, NEW T
  PROVE  /\ ObjectRest(<<>>, f, d, T) = Join(Space(f, d - 1), Mark("}"))
         /\ ObjectRest(<<>>, f, d, T) \in Word
<1> DEFINE r == Join(Space(f, d - 1), Mark("}"))
<1>1. MembersText(<<>>, f, d, T) = Void
  BY NoMembers, Zenon
<1>2. ObjectRest(<<>>, f, d, T) = Join(Void, r)
  BY <1>1, Zenon DEF ObjectRest
<1>3. r \in Word
  <2>1. d - 1 \in Nat
    OBVIOUS
  <2>2. Space(f, d - 1) \in Word
    BY <2>1, SpaceType
  <2>3. QED
    BY <2>2, MarkWords, JoinType
<1> HIDE DEF r
<1>4. Join(Void, r) = r
  BY <1>3, JoinEmpty
<1>5. QED
  BY <1>2, <1>3, <1>4, Zenon DEF r

\* Behind a member comes a comma unless it is the last one, and the end of its
\* line.
MemberEnd(last, f) == Join(IF last THEN Void ELSE Mark(","), Space(f, 1))

\* What is behind a member is a word.
LEMMA MemberEndType == \A last, f : MemberEnd(last, f) \in Word
BY MarkWords, JoinType DEF MemberEnd

MembersTurn(kids, f, d, T) ==
  Join(Space(f, d),
    Join(Quoted(kids[1].name),
      Join(Join(Mark(":"), Space(f, 1)),
        Join(T[kids[1].node],
          Join(MemberEnd(Len(kids) = 1, f), ObjectRest(Tail(kids), f, d, T))))))

\* The rest of an object begins with one member.
LEMMA MembersRest ==
  ASSUME NEW V, NEW kids \in Seq(Named(V)), NEW f, NEW d \in Nat \ {0},
         NEW T, \A v \in V : T[v] \in Word,
         kids # <<>>
  PROVE  /\ T[kids[1].node] \in Word /\ Tail(kids) \in Seq(Named(V))
         /\ ObjectRest(Tail(kids), f, d, T) \in Word
         /\ kids[1].node \in V /\ kids[1].name \in Word
         /\ ObjectRest(kids, f, d, T) = MembersTurn(kids, f, d, T)
<1> DEFINE a == Space(f, d)
           b == Quoted(kids[1].name)
           c == Mark(":")
           g == Space(f, 1)
           w == T[kids[1].node]
           h == IF Len(kids) = 1 THEN Void ELSE Mark(",")
           m == MembersText(Tail(kids), f, d, T)
           z == Join(Space(f, d - 1), Mark("}"))
           r == ObjectRest(Tail(kids), f, d, T)
<1>1. kids[1] \in Named(V) /\ Tail(kids) \in Seq(Named(V))
  BY ThenTail
<1>2. kids[1].node \in V /\ kids[1].name \in Word
  BY <1>1 DEF Named
<1>3. a \in Word /\ b \in Word /\ c \in Word /\ g \in Word /\ w \in Word /\ h \in Word
  BY <1>2, SpaceType, QuotedType, MarkWords
<1>4. m \in Word /\ r \in Word /\ z \in Word
  <2>1. d - 1 \in Nat
    OBVIOUS
  <2>2. Space(f, d - 1) \in Word
    BY <2>1, SpaceType
  <2>3. z \in Word
    BY <2>2, MarkWords, JoinType
  <2>4. m \in Word
    BY <1>1, MembersParts
  <2>5. r \in Word
    BY <1>1, ObjectRestType
  <2>6. QED
    BY <2>3, <2>4, <2>5
<1>5. r = Join(m, z)
  BY DEF ObjectRest
<1>6. MembersText(kids, f, d, T)
        = Join(Join(Join(Join(Join(Join(Join(a, b), c), g), w), h), g), m)
  <2>1. MembersText(kids, f, d, T) = Join(MemberFirst(kids[1], Len(kids) = 1, f, d, T), m)
    BY MembersStep
  <2>2. QED
    BY <2>1, Zenon DEF MemberFirst
<1>7. ObjectRest(kids, f, d, T)
        = Join(Join(Join(Join(Join(Join(Join(Join(a, b), c), g), w), h), g), m), z)
  BY <1>6, Zenon DEF ObjectRest
<1>8. MemberEnd(Len(kids) = 1, f) = Join(h, g)
  BY DEF MemberEnd
<1> HIDE DEF a, b, c, g, w, h, m, z, r
<1> DEFINE o == Join(a, b)
           p == Join(c, g)
           q == Join(h, g)
<1>9. o \in Word /\ p \in Word /\ q \in Word
  BY <1>3, JoinType
<1>10. Join(Join(o, c), g) = Join(o, p) /\ Join(o, p) \in Word
  <2> HIDE DEF o
  <2>1. Join(Join(o, c), g) = Join(o, p)
    BY <1>3, <1>9, JoinAssociative
  <2>2. QED
    BY <1>9, <2>1, JoinType
<1>11. Join(Join(Join(Join(Join(Join(Join(o, c), g), w), h), g), m), z)
         = Join(Join(Join(Join(o, p), w), q), Join(m, z))
  <2> DEFINE x == Join(o, p)
             y == Join(x, w)
  <2>1. x \in Word /\ y \in Word
    BY <1>3, <1>9, JoinType
  <2>2. Join(Join(Join(Join(Join(Join(Join(o, c), g), w), h), g), m), z)
          = Join(Join(Join(Join(y, h), g), m), z)
    BY <1>10
  <2> HIDE DEF y
  <2>3. Join(Join(y, h), g) = Join(y, q) /\ Join(y, q) \in Word
    BY <1>3, <1>9, <2>1, JoinAssociative, JoinType
  <2>4. Join(Join(Join(y, q), m), z) = Join(Join(y, q), Join(m, z))
    BY <1>4, <2>3, JoinAssociative
  <2>5. QED
    BY <2>2, <2>3, <2>4 DEF y
<1> HIDE DEF o, p, q
<1>12. Join(Join(Join(Join(o, p), w), q), r) = Join(o, Join(p, Join(w, Join(q, r))))
  <2>1. Join(w, Join(q, r)) \in Word /\ Join(q, r) \in Word
    BY <1>3, <1>4, <1>9, JoinType
  <2>2. Join(Join(Join(Join(o, p), w), q), r) = Join(Join(Join(o, p), w), Join(q, r))
    <3>1. Join(Join(o, p), w) \in Word
      BY <1>3, <1>9, JoinType
    <3>2. QED
      BY <1>4, <1>9, <3>1, JoinAssociative
  <2>3. Join(Join(Join(o, p), w), Join(q, r)) = Join(Join(o, p), Join(w, Join(q, r)))
    <3>1. Join(o, p) \in Word
      BY <1>9, JoinType
    <3>2. QED
      BY <1>3, <2>1, <3>1, JoinAssociative
  <2>4. Join(Join(o, p), Join(w, Join(q, r))) = Join(o, Join(p, Join(w, Join(q, r))))
    BY <1>9, <2>1, JoinAssociative
  <2>5. QED
    BY <2>2, <2>3, <2>4
<1>13. Join(o, Join(p, Join(w, Join(q, r)))) = Join(a, Join(b, Join(p, Join(w, Join(q, r)))))
  <2>1. Join(p, Join(w, Join(q, r))) \in Word
    BY <1>3, <1>4, <1>9, JoinType
  <2>2. QED
    BY <1>3, <2>1, JoinAssociative DEF o
<1>14. ObjectRest(kids, f, d, T) = Join(a, Join(b, Join(p, Join(w, Join(q, r)))))
  <2>1. ObjectRest(kids, f, d, T)
          = Join(Join(Join(Join(Join(Join(Join(o, c), g), w), h), g), m), z)
    BY <1>7, Zenon DEF o
  <2>2. QED
    BY <1>5, <1>11, <1>12, <1>13, <2>1
<1>15. QED
  BY <1>1, <1>2, <1>3, <1>4, <1>8, <1>14, Zenon DEF a, b, c, g, w, q, p, r, MembersTurn

\* print_array brings the rest of the text of an array.
LEMMA ElementsBring ==
  ASSUME NEW f \in BOOLEAN, f = mode.format, NEW d \in 1..CJSON_NESTING_LIMIT,
         NEW kids \in Seq(Named(Trees[CJSON_NESTING_LIMIT - d])),
         NEW t, Plan(t), Measures(t)
  PROVE  /\ Brings(Join(print_array(kids, d), t),
                   ArrayRest(kids, f, SpeltAt(d, f)), t, f)
         /\ Acts(Join(print_array(kids, d), t))
<1> DEFINE T == SpeltAt(d, f)
           V == Trees[CJSON_NESTING_LIMIT - d]
<1>1. \A v \in V : T[v] \in Word
  <2>1. d \in 0..CJSON_NESTING_LIMIT
    BY LimitAssumption
  <2>2. QED
    BY <2>1, SpeltAtType
<1>2. t \in Seq(Orders)
  BY DEF Plan
<1>3. CASE kids = <<>>
  <2> DEFINE c == Mark("]")
             x == Leave(c)
  <2>1. c \in Word
    BY MarkWords
  <2>2. Join(print_array(kids, d), t) = Then(x, t)
    BY <1>3, Zenon DEF print_array, Then, Join, Mark
  <2>3. ArrayRest(kids, f, T) = c
    BY <1>3, NoElementsRest, Zenon
  <2> HIDE DEF c
  <2>4. x \in Orders /\ Spelled(x, f) = c /\ x.op = "write"
    BY <2>1, PutOrders
  <2> HIDE DEF x
  <2>5. Brings(Then(x, t), c, t, f)
    BY <2>4, BringFirst
  <2>6. Acts(Then(x, t))
    BY <2>4, ThenActs
  <2>7. QED
    BY <2>2, <2>3, <2>5, <2>6, Zenon
<1>4. CASE kids # <<>>
  <2> DEFINE v == kids[1].node
             r == ArrayRest(Tail(kids), f, T)
             x == Value(v, d)
             e == Elements(Tail(kids), d)
             k == Join(Mark(","), Space(f, 1))
             p == PutNul(k)
  <2>1. /\ T[v] \in Word /\ Tail(kids) \in Seq(Named(V)) /\ r \in Word /\ v \in V
        /\ ArrayRest(kids, f, T) = Join(T[v], IF Len(kids) = 1 THEN r ELSE Join(k, r))
    <3>1. kids \in Seq(Named(V)) /\ kids # <<>>
      BY <1>4
    <3> HIDE DEF T, V
    <3>2. /\ T[kids[1].node] \in Word /\ Tail(kids) \in Seq(Named(V))
          /\ ArrayRest(Tail(kids), f, T) \in Word
          /\ kids[1].node \in V /\ kids[1].name \in Word
          /\ ArrayRest(kids, f, T) = ElementsTurn(kids, f, T)
      BY <1>1, <3>1, ElementsRest
    <3>3. QED
      BY <3>2, Zenon DEF ElementsTurn
  <2>2. x \in Orders /\ Spelled(x, f) = T[v] /\ x.op = "value"
    <3>1. d \in 0..CJSON_NESTING_LIMIT
      BY LimitAssumption
    <3>2. QED
      BY <2>1, <3>1, ValueOrder DEF Value
  <2>3. e \in Orders /\ Spelled(e, f) = r
    BY <2>1, ElementsOrder
  <2>4. k \in Word
    BY MarkWords, JoinType
  <2>5. p \in Orders /\ Spelled(p, f) = k /\ ~Leaving(p)
    <3> HIDE DEF k
    <3>1. QED
      BY <2>4, PutOrders
  <2>6. Update \in Orders
    BY UpdateOrder
  <2> DEFINE turn == print_array(kids, d)
             s == Then(e, t)
             u == Then(p, s)
  <2>7. CASE Len(kids) = 1
    <3>1. Tail(kids) = <<>>
      <4>1. Len(Tail(kids)) = 0
        BY <1>4, <2>7, HeadTailProperties
      <4>2. QED
        BY <2>1, <4>1, EmptySeq
    <3>2. turn = <<x, Update, e>>
      BY <1>4, <2>7, <3>1, Zenon DEF print_array
    <3> HIDE DEF x, e, turn
    <3>3. Join(turn, t) = Then(x, Then(Update, s))
      BY <1>2, <2>2, <2>3, <2>6, <3>2, ThreeOrders
    <3>4. Brings(s, r, t, f)
      BY <2>3, BringFirst
    <3> HIDE DEF s
    <3>5. Brings(Then(Update, s), r, t, f) /\ Measures(Then(Update, s))
      BY <3>4, BringUpdate
    <3>6. Brings(Then(x, Then(Update, s)), Join(T[v], r), t, f)
      BY <2>2, <3>5, BringMore
    <3>7. Acts(Then(x, Then(Update, s)))
      BY <2>2, <3>5, ThenActs DEF Brings
    <3>8. QED
      BY <2>1, <2>7, <3>3, <3>6, <3>7, Zenon DEF turn
  <2>8. CASE Len(kids) # 1
    <3>1. <<",">> \o Formatted(<<"w">>) = k
      BY FormattedSpace, Zenon DEF Join, Mark
    <3>2. turn = <<x, Update, p, e>>
      BY <1>4, <2>8, <3>1, Zenon DEF print_array
    <3> HIDE DEF x, e, p, turn
    <3>3. Join(turn, t) = Then(x, Then(Update, u))
      <4>1. Join(<<x, Update, p, e>>, t) = Then(x, Then(Update, Then(p, Then(e, t))))
        <5> DEFINE y == Update
        <5>1. /\ x \in Orders /\ y \in Orders /\ p \in Orders /\ e \in Orders
              /\ t \in Seq(Orders)
          BY <1>2, <2>2, <2>3, <2>5, <2>6, Zenon
        <5> HIDE DEF y
        <5>2. /\ Join(<<x, y, p, e>>, t) = Then(x, Then(y, Then(p, Then(e, t))))
              /\ <<x, y, p, e>> \in Seq(Orders)
          BY <5>1, FourOrders, Zenon
        <5>3. QED
          BY <5>2, Zenon DEF y
      <4>2. QED
        BY <3>2, <4>1, Zenon
    <3>4. Brings(s, r, t, f)
      BY <2>3, BringFirst
    <3> HIDE DEF s
    <3>5. Brings(u, Join(k, r), t, f)
      BY <2>5, <3>4, BringMore
    <3> HIDE DEF u
    <3>6. Brings(Then(Update, u), Join(k, r), t, f) /\ Measures(Then(Update, u))
      BY <3>5, BringUpdate
    <3>7. Brings(Then(x, Then(Update, u)), Join(T[v], Join(k, r)), t, f)
      BY <2>2, <3>6, BringMore
    <3>8. Acts(Then(x, Then(Update, u)))
      BY <2>2, <3>6, ThenActs DEF Brings
    <3>9. QED
      BY <2>1, <2>8, <3>3, <3>7, <3>8, Zenon DEF turn
  <2>9. QED
    BY <2>7, <2>8
<1>5. QED
  BY <1>3, <1>4
-----------------------------------------------------------------------------
(***************************************************************************)
(* The orders of an object.                                                *)
(***************************************************************************)

\* Blanks are the space of a text that is formatted.
LEMMA BlanksSpace ==
  ASSUME NEW f \in BOOLEAN, NEW n \in Nat
  PROVE  Space(f, n) = IF f THEN Blanks(n) ELSE Void
BY Zenon DEF Space, Blanks, Void

\* Nothing before a sequence adds nothing.
LEMMA JoinNothing ==
  ASSUME NEW S, NEW s \in Seq(S)
  PROVE  Join(Void, s) = s
BY ConcatEmptySeq DEF Join, Void

\* The orders of one turn of the loop over the members, behind the blanks.
LEMMA MemberBrings ==
  ASSUME NEW f \in BOOLEAN, NEW V, NEW kids \in Seq(Named(V)), kids # <<>>,
         NEW x \in Orders, x.op = "value", NEW m \in Orders,
         NEW q \in Word, NEW c \in Word, NEW e \in Word, NEW t, Plan(t), Measures(t)
  PROVE  /\ Brings(Join(<<Leave(q), Update, Put(c), x, Update, PutNul(e), m>>, t),
                   Join(q, Join(c, Join(Spelled(x, f), Join(e, Spelled(m, f))))), t, f)
         /\ Acts(Join(<<Leave(q), Update, Put(c), x, Update, PutNul(e), m>>, t))
<1> DEFINE a == Leave(q)
           b == Put(c)
           g == PutNul(e)
           y == Update
           u0 == Then(m, t)
           u1 == Then(g, u0)
           u2 == Then(y, u1)
           u3 == Then(x, u2)
           u4 == Then(b, u3)
           u5 == Then(y, u4)
           u6 == Then(a, u5)
           X == Spelled(x, f)
           M == Spelled(m, f)
<1>1. t \in Seq(Orders) /\ y \in Orders
  BY UpdateOrder DEF Plan
<1>2. /\ a \in Orders /\ Spelled(a, f) = q /\ a.op = "write"
      /\ b \in Orders /\ Spelled(b, f) = c /\ ~Leaving(b)
      /\ g \in Orders /\ Spelled(g, f) = e /\ ~Leaving(g)
  BY PutOrders
<1> HIDE DEF a, b, g, y
<1>3. Join(<<a, y, b, x, y, g, m>>, t) = u6 /\ <<a, y, b, x, y, g, m>> \in Seq(Orders)
  <2>1. a \in Orders /\ b \in Orders /\ g \in Orders
    BY <1>2
  <2>2. QED
    BY <1>1, <2>1, SevenOrders, Zenon
<1>4. Brings(u0, M, t, f)
  BY BringFirst
<1> HIDE DEF u0
<1>5. Brings(u1, Join(e, M), t, f)
  BY <1>2, <1>4, BringMore
<1> HIDE DEF u1
<1>6. Brings(u2, Join(e, M), t, f) /\ Measures(u2)
  BY <1>5, BringUpdate DEF y
<1> HIDE DEF u2
<1>7. Brings(u3, Join(X, Join(e, M)), t, f)
  BY <1>6, BringMore
<1> HIDE DEF u3
<1>8. Brings(u4, Join(c, Join(X, Join(e, M))), t, f)
  BY <1>2, <1>7, BringMore
<1> HIDE DEF u4
<1>9. Brings(u5, Join(c, Join(X, Join(e, M))), t, f) /\ Measures(u5)
  BY <1>8, BringUpdate DEF y
<1> HIDE DEF u5
<1>10. Brings(u6, Join(q, Join(c, Join(X, Join(e, M)))), t, f)
  BY <1>2, <1>9, BringMore
<1>11. Acts(u6)
  BY <1>2, <1>9, ThenActs DEF Brings
<1> HIDE DEF u6
<1>12. QED
  BY <1>3, <1>10, <1>11, Zenon DEF a, b, g, y

\* print_object brings the rest of the text of an object.
LEMMA MembersBring ==
  ASSUME NEW f \in BOOLEAN, f = mode.format, NEW d \in 1..CJSON_NESTING_LIMIT,
         NEW kids \in Seq(Named(Trees[CJSON_NESTING_LIMIT - d])),
         NEW t, Plan(t), Measures(t)
  PROVE  /\ Brings(Join(print_object(kids, d), t),
                   ObjectRest(kids, f, d, SpeltAt(d, f)), t, f)
         /\ Acts(Join(print_object(kids, d), t))
<1> DEFINE T == SpeltAt(d, f)
           V == Trees[CJSON_NESTING_LIMIT - d]
           w == ObjectRest(kids, f, d, T)
<1>1. \A v \in V : T[v] \in Word
  <2>1. d \in 0..CJSON_NESTING_LIMIT
    BY LimitAssumption
  <2>2. QED
    BY <2>1, SpeltAtType
<1>2. t \in Seq(Orders) /\ d \in Nat \ {0} /\ d \in Nat /\ d - 1 \in Nat
  BY LimitAssumption DEF Plan
<1>3. CASE kids = <<>>
  <2> DEFINE x == Leave(w)
  <2>1. w = Join(Space(f, d - 1), Mark("}")) /\ w \in Word
    BY <1>2, <1>3, NoMembersRest, Zenon
  <2>2. Formatted(Blanks(d - 1)) \o <<"}">> = w
    <3>1. Formatted(Blanks(d - 1)) = Space(f, d - 1)
      BY <1>2, FormattedSpace, Zenon
    <3>2. QED
      BY <2>1, <3>1, Zenon DEF Join, Mark
  <2>3. Join(print_object(kids, d), t) = Then(x, t)
    BY <1>3, <2>2, Zenon DEF print_object, Then, Join, Mark
  <2> HIDE DEF w
  <2>4. x \in Orders /\ Spelled(x, f) = w /\ x.op = "write"
    BY <2>1, PutOrders
  <2> HIDE DEF x
  <2>5. Brings(Then(x, t), w, t, f)
    BY <2>4, BringFirst
  <2>6. Acts(Then(x, t))
    BY <2>4, ThenActs
  <2>7. QED
    BY <2>3, <2>5, <2>6, Zenon DEF w
<1>4. CASE kids # <<>>
  <2> DEFINE v == kids[1].node
             r == ObjectRest(Tail(kids), f, d, T)
             x == Value(v, d)
             m == Members(Tail(kids), d)
             q == Quoted(kids[1].name)
             c == Join(Mark(":"), Space(f, 1))
             e == MemberEnd(Len(kids) = 1, f)
             s == <<Leave(q), Update, Put(c), x, Update, PutNul(e), m>>
             u == Join(s, t)
             z == Join(q, Join(c, Join(T[v], Join(e, r))))
  <2>1. /\ T[v] \in Word /\ Tail(kids) \in Seq(Named(V)) /\ r \in Word
        /\ v \in V /\ kids[1].name \in Word
        /\ w = MembersTurn(kids, f, d, T)
    <3>1. kids \in Seq(Named(V)) /\ kids # <<>>
      BY <1>4
    <3> HIDE DEF T, V
    <3>2. /\ T[kids[1].node] \in Word /\ Tail(kids) \in Seq(Named(V))
          /\ ObjectRest(Tail(kids), f, d, T) \in Word
          /\ kids[1].node \in V /\ kids[1].name \in Word
          /\ ObjectRest(kids, f, d, T) = MembersTurn(kids, f, d, T)
      BY <1>1, <1>2, <3>1, MembersRest
    <3>3. QED
      BY <3>2, Zenon
  <2>2. w = Join(Space(f, d), z)
    BY <2>1, Zenon DEF MembersTurn
  <2>3. x \in Orders /\ Spelled(x, f) = T[v] /\ x.op = "value"
    <3>1. d \in 0..CJSON_NESTING_LIMIT
      BY LimitAssumption
    <3>2. QED
      BY <2>1, <3>1, ValueOrder DEF Value
  <2>4. m \in Orders /\ Spelled(m, f) = r
    BY <2>1, MembersOrder
  <2>5. q \in Word /\ c \in Word /\ e \in Word
    BY <2>1, QuotedType, MarkWords, JoinType, MemberEndType
  <2>6. Brings(u, z, t, f) /\ Acts(u)
    <3>1. kids \in Seq(Named(V)) /\ kids # <<>>
      BY <1>4
    <3> DEFINE X == Spelled(x, f)
               M == Spelled(m, f)
    <3>2. X = T[v] /\ M = r
      BY <2>3, <2>4
    <3> HIDE DEF V, T, x, m, q, c, e, v, r
    <3>3. Brings(u, Join(q, Join(c, Join(X, Join(e, M)))), t, f) /\ Acts(u)
      BY <2>3, <2>4, <2>5, <3>1, MemberBrings
    <3>4. QED
      BY <3>2, <3>3, Zenon
  <2>7. print_object(kids, d) = (IF f THEN <<Put(Blanks(d))>> ELSE <<>>) \o s
    <3>1. Formatted(<<"w">>) = Space(f, 1)
      BY FormattedSpace
    <3>2. print_string_ptr(kids[1].name) = Leave(q)
      BY <2>1, StringOrder
    <3>3. <<":">> \o Space(f, 1) = c
      BY Zenon DEF Join, Mark
    <3>4. (IF Len(kids) > 1 THEN <<",">> ELSE <<>>) \o Space(f, 1) = e
      <4>1. Len(kids) > 1 <=> ~(Len(kids) = 1)
        <5> DEFINE n == Len(kids)
        <5>1. n \in Nat
          BY KidsFacts
        <5>2. n # 0
          BY <1>4, EmptySeq
        <5> HIDE DEF n
        <5>3. n > 1 <=> ~(n = 1)
          BY <5>1, <5>2
        <5>4. QED
          BY <5>3, Zenon DEF n
      <4>2. QED
        BY <4>1, Zenon DEF MemberEnd, Join, Mark, Void
    <3>5. QED
      BY <1>4, <3>1, <3>2, <3>3, <3>4, Zenon DEF print_object
  <2> HIDE DEF x, m, q, c, e, v, r, w, z, s
  <2>8. z \in Word
    BY <2>6 DEF Brings
  <2>9. s \in Seq(Orders) /\ u = Join(s, t)
    <3>1. Leave(q) \in Orders /\ Put(c) \in Orders /\ PutNul(e) \in Orders /\ Update \in Orders
      BY <2>5, PutOrders, UpdateOrder
    <3>2. QED
      BY <1>1, <1>2, <2>3, <2>4, <3>1, SevenOrders, Zenon DEF s
  <2> HIDE DEF u
  <2>10. CASE f
    <3> DEFINE p == Put(Blanks(d))
    <3>1. Space(f, d) = Blanks(d) /\ Blanks(d) \in Word
      <4>1. Space(f, d) = Blanks(d)
        BY <1>2, <2>10, BlanksSpace, Zenon
      <4>2. QED
        BY <1>2, <4>1, SpaceType
    <3>2. p \in Orders /\ Spelled(p, f) = Blanks(d) /\ ~Leaving(p) /\ p.op = "write"
      BY <3>1, PutOrders
    <3>3. print_object(kids, d) = Then(p, s)
      BY <2>7, <2>10, Zenon DEF Then, Join, Mark
    <3> HIDE DEF p
    <3>4. Join(print_object(kids, d), t) = Then(p, u)
      <4>1. Join(Then(p, s), t) = Then(p, Join(s, t))
        BY <1>2, <2>9, <3>2, ThenJoin
      <4>2. QED
        BY <2>9, <3>3, <4>1, Zenon
    <3>5. Brings(Then(p, u), Join(Blanks(d), z), t, f)
      BY <2>6, <3>2, BringMore
    <3>6. Acts(Then(p, u))
      BY <2>6, <3>2, ThenActs DEF Brings
    <3>7. QED
      BY <2>2, <3>1, <3>4, <3>5, <3>6, Zenon DEF w
  <2>11. CASE ~f
    <3>1. w = z
      <4>1. Space(f, d) = Void
        BY <1>2, <2>11, BlanksSpace, Zenon
      <4>2. QED
        BY <2>2, <2>8, <4>1, JoinEmpty
    <3>2. print_object(kids, d) = Join(Void, s)
      BY <2>7, <2>11, Zenon DEF Void, Join
    <3>3. Join(Void, s) = s
      BY <2>9, Zenon, JoinNothing
    <3>4. QED
      BY <2>6, <2>9, <3>1, <3>2, <3>3, Zenon DEF w
  <2>12. QED
    BY <2>10, <2>11
<1>5. QED
  BY <1>3, <1>4
-----------------------------------------------------------------------------
(***************************************************************************)
(* The orders of a value.                                                  *)
(***************************************************************************)

\* An opening bracket, and the loop behind it.
LEMMA OpenBrings ==
  ASSUME NEW f \in BOOLEAN, NEW x \in Orders, x.op = "write", ~Leaving(x),
         NEW y \in Orders, NEW t, Plan(t), Measures(t)
  PROVE  /\ Brings(Join(<<x, y>>, t), Join(Spelled(x, f), Spelled(y, f)), t, f)
         /\ Acts(Join(<<x, y>>, t))
<1> DEFINE s == Then(y, t)
<1>1. t \in Seq(Orders)
  BY DEF Plan
<1>2. Join(<<x, y>>, t) = Then(x, s) /\ <<x, y>> \in Seq(Orders)
  BY <1>1, TwoOrders, Zenon
<1>3. Brings(s, Spelled(y, f), t, f)
  BY BringFirst
<1> HIDE DEF s
<1>4. Brings(Then(x, s), Join(Spelled(x, f), Spelled(y, f)), t, f)
  BY <1>3, BringMore
<1>5. Acts(Then(x, s))
  BY <1>3, ThenActs DEF Brings
<1>6. QED
  BY <1>2, <1>4, <1>5, Zenon

\* The orders of an array bring its text.
LEMMA ArrayBrings ==
  ASSUME NEW f \in BOOLEAN, NEW d \in 1..CJSON_NESTING_LIMIT,
         NEW kids \in Seq(Named(Trees[CJSON_NESTING_LIMIT - d])),
         NEW t, Plan(t), Measures(t)
  PROVE  /\ Brings(Join(<<Put(<<"[">>), Elements(kids, d)>>, t),
                   Join(Mark("["), ArrayRest(kids, f, SpeltAt(d, f))), t, f)
         /\ Acts(Join(<<Put(<<"[">>), Elements(kids, d)>>, t))
<1> DEFINE c == Mark("[")
           x == Put(c)
           y == Elements(kids, d)
           r == ArrayRest(kids, f, SpeltAt(d, f))
<1>1. c \in Word
  BY MarkWords
<1>2. y \in Orders /\ Spelled(y, f) = r
  BY ElementsOrder
<1>3. Put(<<"[">>) = x
  BY Zenon DEF Mark
<1> HIDE DEF c, y, r
<1>4. x \in Orders /\ Spelled(x, f) = c /\ ~Leaving(x) /\ x.op = "write"
  BY <1>1, PutOrders
<1> HIDE DEF x
<1>5. Brings(Join(<<x, y>>, t), Join(Spelled(x, f), Spelled(y, f)), t, f) /\ Acts(Join(<<x, y>>, t))
  BY <1>2, <1>4, OpenBrings, Zenon
<1>6. QED
  BY <1>2, <1>3, <1>4, <1>5, Zenon DEF c, y, r

\* The bracket that opens an object, and the end of its line.
Opening ==
  Write(1 + Len(Formatted(<<"w">>)) + 1, <<"{">> \o Formatted(<<"w">>),
        1 + Len(Formatted(<<"w">>)))

\* The orders of an object bring its text.
LEMMA ObjectBrings ==
  ASSUME NEW f \in BOOLEAN, f = mode.format, NEW d \in 1..CJSON_NESTING_LIMIT,
         NEW kids \in Seq(Named(Trees[CJSON_NESTING_LIMIT - d])),
         NEW t, Plan(t), Measures(t)
  PROVE  /\ Brings(Join(<<Opening, Members(kids, d)>>, t),
                   Join(ObjectStart(f), ObjectRest(kids, f, d, SpeltAt(d, f))), t, f)
         /\ Acts(Join(<<Opening, Members(kids, d)>>, t))
<1> DEFINE c == ObjectStart(f)
           n == Len(c)
           m == Len(c) + 1
           x == Write(m, c, n)
           y == Members(kids, d)
           r == ObjectRest(kids, f, d, SpeltAt(d, f))
<1>1. c \in Word
  BY ObjectStartType
<1>2. y \in Orders /\ Spelled(y, f) = r
  BY MembersOrder
<1>3. Opening = x
  <2>1. Formatted(<<"w">>) = Space(f, 1)
    BY FormattedSpace
  <2>2. <<"{">> \o Space(f, 1) = c
    BY Zenon DEF ObjectStart, Join, Mark
  <2>3. 1 + Len(Space(f, 1)) = n
    <3>1. Mark("{") \in Word /\ Space(f, 1) \in Word
      BY MarkWords
    <3>2. Len(c) = Len(Mark("{")) + Len(Space(f, 1))
      BY <3>1, JoinLength DEF ObjectStart
    <3>3. Len(Mark("{")) = 1
      BY DEF Mark
    <3>4. QED
      BY <3>2, <3>3
  <2>4. QED
    BY <2>1, <2>2, <2>3, Zenon DEF Opening
<1> HIDE DEF c, y, r
<1>4. CString(c) = c /\ n \in Nat
  BY <1>1, CStringWord, WordLength
<1>5. x.op = "write" /\ x.chars = c /\ x.advance = n
  BY Zenon DEF Write
<1>6. x \in Orders /\ Spelled(x, f) = c
  <2>1. m \in Nat /\ m <= Len(c) + 1 /\ n \in {0, Len(c)}
    BY <1>4
  <2>2. c \in {c, Append(c, Nul)}
    BY Zenon
  <2> HIDE DEF m, n
  <2>3. Write(m, c, n) \in Orders /\ Spelled(Write(m, c, n), f) = c
    BY <1>1, <2>1, <2>2, WriteOrder
  <2>4. QED
    BY <2>3, Zenon
<1>7. ~Leaving(x)
  BY <1>4, <1>5 DEF Leaving
<1> HIDE DEF x
<1>8. Brings(Join(<<x, y>>, t), Join(Spelled(x, f), Spelled(y, f)), t, f) /\ Acts(Join(<<x, y>>, t))
  BY <1>2, <1>5, <1>6, <1>7, OpenBrings, Zenon
<1>9. QED
  BY <1>2, <1>3, <1>6, <1>8, Zenon DEF c, y, r

\* print_value brings the layout of the value.
LEMMA ValueBrings ==
  ASSUME NEW f \in BOOLEAN, f = mode.format, NEW d \in 0..CJSON_NESTING_LIMIT,
         NEW v \in Trees[CJSON_NESTING_LIMIT - d], NEW t, Plan(t), Measures(t)
  PROVE  /\ Brings(Join(print_value(v, d), t), SpeltAt(d, f)[v], t, f)
         /\ Acts(Join(print_value(v, d), t))
<1>1. CJSON_NESTING_LIMIT - d \in Nat /\ d \in Nat
  BY LimitAssumption
<1>2. CASE v \in Scalars
  <2>1. SpeltAt(d, f)[v] = ScalarText(RecoveredScalar(v))
    BY <1>2, SpeltScalar
  <2>2. QED
    BY <1>2, <2>1, ScalarBrings
<1>3. CASE v \notin Scalars
  <2> DEFINE n == CJSON_NESTING_LIMIT - d
             e == d + 1
             T == SpeltAt(e, f)
             V == Trees[CJSON_NESTING_LIMIT - e]
  <2>1. n \in Nat \ {0} /\ v \in Containers(Trees[n - 1])
    BY <1>1, <1>3, TreeKind
  <2>2. e \in 1..CJSON_NESTING_LIMIT /\ e \in 0..CJSON_NESTING_LIMIT /\ n - 1 = CJSON_NESTING_LIMIT - e
    BY <1>1, <2>1, LimitAssumption
  <2>3. v \in Containers(V)
    BY <2>1, <2>2, Zenon
  <2>4. SpeltAt(d, f)[v] = ContainerText(v, f, d, T)
    <3>1. n = CJSON_NESTING_LIMIT - d
      OBVIOUS
    <3> HIDE DEF n
    <3>2. QED
      BY <2>1, <3>1, SpeltContainer
  <2>5. \A x \in V : T[x] \in Word
    BY <2>2, SpeltAtType
  <2>6. v.kids \in Seq(Named(V)) /\ v.type \in {"array", "object"}
    BY <2>3, ContainerFacts
  <2>7. CASE v.type = "array"
    <3>1. ContainerText(v, f, d, T) = Join(Mark("["), ArrayRest(v.kids, f, T))
      <4> HIDE DEF T, V
      <4>1. QED
        BY <1>1, <2>3, <2>5, <2>7, ArrayText
    <3>2. print_value(v, d) = <<Put(<<"[">>), Elements(v.kids, e)>>
      BY <2>7, Zenon DEF print_value
    <3>3. /\ Brings(Join(<<Put(<<"[">>), Elements(v.kids, e)>>, t),
                    Join(Mark("["), ArrayRest(v.kids, f, SpeltAt(e, f))), t, f)
          /\ Acts(Join(<<Put(<<"[">>), Elements(v.kids, e)>>, t))
      <4> HIDE DEF e
      <4>1. QED
        BY <2>2, <2>6, ArrayBrings
    <3>4. QED
      BY <2>4, <3>1, <3>2, <3>3, Zenon
  <2>8. CASE v.type = "object"
    <3>1. ContainerText(v, f, d, T) = Join(ObjectStart(f), ObjectRest(v.kids, f, e, T))
      <4>1. v.type # "array"
        BY <2>8
      <4> HIDE DEF T, V
      <4>2. QED
        BY <1>1, <2>3, <2>5, <4>1, ObjectText
    <3> DEFINE orders == print_value(v, d)
    <3>2. orders = <<Opening, Members(v.kids, e)>>
      BY <2>8, Zenon DEF print_value, Opening
    <3> HIDE DEF orders
    <3>3. /\ Brings(Join(<<Opening, Members(v.kids, e)>>, t),
                    Join(ObjectStart(f), ObjectRest(v.kids, f, e, SpeltAt(e, f))), t, f)
          /\ Acts(Join(<<Opening, Members(v.kids, e)>>, t))
      <4> HIDE DEF e
      <4>1. QED
        BY <2>2, <2>6, ObjectBrings
    <3>4. QED
      BY <2>4, <3>1, <3>2, <3>3, Zenon DEF orders
  <2>9. QED
    BY <2>6, <2>7, <2>8
<1>4. QED
  BY <1>2, <1>3

\* What print_value, print_array and print_object do spells what they were
\* called for.
LEMMA ExpandBrings ==
  ASSUME NEW f \in BOOLEAN, f = mode.format, NEW x \in Orders,
         x.op \in {"value", "elements", "members"}, NEW t, Plan(t), Measures(t)
  PROVE  Brings(Join(Expand(x), t), Spelled(x, f), t, f) /\ Acts(Join(Expand(x), t))
<1>1. CASE x.op = "value"
  <2>1. x.depth \in 0..CJSON_NESTING_LIMIT /\ x.node \in Trees[CJSON_NESTING_LIMIT - x.depth]
    BY <1>1, OrderKind DEF Update
  <2>2. Expand(x) = print_value(x.node, x.depth) /\ Spelled(x, f) = SpeltAt(x.depth, f)[x.node]
    BY <1>1, Zenon DEF Expand, Spelled
  <2>3. QED
    BY <2>1, <2>2, ValueBrings
<1>2. CASE x.op = "elements"
  <2>1. /\ x.depth \in 1..CJSON_NESTING_LIMIT
        /\ x.kids \in Seq(Named(Trees[CJSON_NESTING_LIMIT - x.depth]))
    BY <1>2, OrderKind DEF Update
  <2>2. /\ Expand(x) = print_array(x.kids, x.depth)
        /\ Spelled(x, f) = ArrayRest(x.kids, f, SpeltAt(x.depth, f))
    BY <1>2, Zenon DEF Expand, Spelled
  <2>3. QED
    BY <2>1, <2>2, ElementsBring
<1>3. CASE x.op = "members"
  <2>1. /\ x.depth \in 1..CJSON_NESTING_LIMIT
        /\ x.kids \in Seq(Named(Trees[CJSON_NESTING_LIMIT - x.depth]))
    BY <1>3, OrderKind DEF Update
  <2>2. /\ Expand(x) = print_object(x.kids, x.depth)
        /\ Spelled(x, f) = ObjectRest(x.kids, f, x.depth, SpeltAt(x.depth, f))
    BY <1>3, Zenon DEF Expand, Spelled
  <2>3. QED
    BY <2>1, <2>2, MembersBring
<1>4. QED
  BY <1>1, <1>2, <1>3
-----------------------------------------------------------------------------
(***************************************************************************)
(* What is read from a text.                                               *)
(***************************************************************************)

\* The characters behind a place, up to another one.
LEMMA CutProperties ==
  ASSUME NEW S, NEW s, NEW a \in Nat, NEW b \in Nat, a <= b,
         \A i \in a + 1..b : s[i] \in S
  PROVE  /\ SubSeq(s, a + 1, b) \in Seq(S) /\ Len(SubSeq(s, a + 1, b)) = b - a
         /\ \A i \in 1..b - a : SubSeq(s, a + 1, b)[i] = s[a + i]
<1> DEFINE t == SubSeq(s, a + 1, b)
<1>1. a + 1 \in Int /\ b \in Int
  OBVIOUS
<1>2. /\ t \in Seq(S) /\ Len(t) = (IF a + 1 <= b THEN b - (a + 1) + 1 ELSE 0)
      /\ \A i \in 1..b - (a + 1) + 1 : t[i] = s[a + 1 + i - 1]
  BY <1>1, SubSeqProperties
<1> HIDE DEF t
<1>3. Len(t) = b - a
  BY <1>2
<1>4. ASSUME NEW i \in 1..b - a PROVE t[i] = s[a + i]
  <2>1. i \in 1..b - (a + 1) + 1 /\ a + 1 + i - 1 = a + i
    BY <1>4
  <2>2. QED
    BY <1>2, <2>1
<1>5. QED
  BY <1>2, <1>3, <1>4 DEF t

\* What C sees of a string holds no null character.
LEMMA CStringLetters ==
  ASSUME NEW s \in Chars
  PROVE  CString(s) \in Word
<1> DEFINE S == {n \in 0..Len(s) : n < Len(s) => s[n + 1] = Nul}
           m == Min(S)
           c == SubSeq(s, 1, m)
<1>1. Len(s) \in Nat /\ \A i \in 1..Len(s) : s[i] \in Character
  BY ElementOfSeq DEF Chars
<1>2. m \in S /\ \A n \in S : m <= n
  <2>1. S \subseteq Nat /\ Len(s) \in S
    BY <1>1
  <2> HIDE DEF S
  <2>2. QED
    BY <2>1, MinIsLeast
<1>3. m \in 0..Len(s)
  BY <1>2
<1>4. ASSUME NEW i \in 1..m PROVE s[i] \in Character \ {Nul}
  <2>1. i - 1 \in 0..Len(s) /\ i - 1 < Len(s) /\ i - 1 + 1 = i /\ i \in 1..Len(s) /\ ~(m <= i - 1)
    <3> HIDE DEF m
    <3>1. QED
      BY <1>1, <1>3, <1>4
  <2>2. i - 1 \notin S
    <3> HIDE DEF S
    <3>1. QED
      BY <1>2, <2>1
  <2>3. s[i] # Nul
    BY <2>1, <2>2
  <2>4. QED
    BY <1>1, <2>1, <2>3
<1>5. CString(s) = c
  BY DEF CString
<1> HIDE DEF m, S
<1>6. c \in Word
  BY <1>1, <1>3, <1>4, SubSeqProperties DEF Word
<1>7. QED
  BY <1>5, <1>6

\* The scan has passed characters of S only.
LEMMA PassingPassed ==
  ASSUME length \in Nat, NEW S, NEW o \in 0..length
  PROVE  \A j \in o..Passing(S, o) - 1 : j < length /\ At(j) \in S
<1> DEFINE Stops == {i \in o..length : i < length => At(i) \notin S}
           m == Min(Stops)
<1>1. m \in Stops /\ \A i \in Stops : m <= i
  <2>1. Stops \subseteq Nat /\ length \in Stops
    OBVIOUS
  <2> HIDE DEF Stops
  <2>2. QED
    BY <2>1, MinIsLeast
<1>2. Passing(S, o) = m
  BY Zenon DEF Passing
<1>3. m \in o..length
  BY <1>1
<1>4. ASSUME NEW j \in o..m - 1 PROVE j < length /\ At(j) \in S
  <2>1. j \in o..length /\ j < length /\ ~(m <= j)
    <3> HIDE DEF m
    <3>1. QED
      BY <1>3, <1>4
  <2>2. j \notin Stops
    <3> HIDE DEF Stops
    <3>1. QED
      BY <1>1, <2>1
  <2>3. QED
    BY <2>1, <2>2
<1> HIDE DEF m
<1>5. QED
  BY <1>2, <1>4

\* What strtod reads is a number.
LEMMA NumberRead ==
  ASSUME Placed, offset < length, NumberEnd(offset) # offset
  PROVE  /\ SubSeq(text, offset + 1, NumberEnd(offset)) \in Word
         /\ Numeral(SubSeq(text, offset + 1, NumberEnd(offset)))
<1> DEFINE e == NumberEnd(offset)
           from == IF At(offset) = "-" THEN offset + 1 ELSE offset
           p == Passing(Digits, from)
           s == SubSeq(text, offset + 1, e)
           n == e - offset
<1>1. length \in Nat /\ length <= Len(text) /\ Len(text) \in Nat /\ text \in Chars
      /\ offset \in 0..length /\ offset \in Nat
  BY DEF Placed, Chars
<1>2. from \in 0..length /\ from \in {offset, offset + 1} /\ (from = offset + 1 => At(offset) = "-")
      /\ offset <= from
  BY <1>1
<1>3. p \in from..length
  <2> HIDE DEF from
  <2>1. QED
    BY <1>1, <1>2, PassingInside
<1>4. \A j \in from..p - 1 : At(j) \in Digits
  <2> HIDE DEF from
  <2>1. QED
    BY <1>1, <1>2, PassingPassed
<1>5. p # from /\ e = p
  <2>1. e = IF p = from THEN offset ELSE p
    BY DEF NumberEnd
  <2> HIDE DEF p, from, e
  <2>2. QED
    BY <2>1 DEF e
<1> HIDE DEF from, p, e
<1>6. /\ n \in Nat \ {0} /\ from < e /\ from \in Nat /\ e \in Nat /\ e <= Len(text)
  BY <1>1, <1>2, <1>3, <1>5
<1>7. ASSUME NEW i \in 1..n
      PROVE  /\ text[offset + i] = "1" \/ (i = 1 /\ text[offset + i] = "-")
             /\ i = n => text[offset + i] = "1"
  <2> DEFINE j == offset + i - 1
  <2>1. j + 1 = offset + i /\ (i = 1 => j = offset) /\ j \in offset..e - 1
        /\ (i = n => j = e - 1)
    BY <1>1, <1>6
  <2>2. At(j) = text[offset + i]
    BY <2>1 DEF At
  <2> HIDE DEF j, n
  <2>3. CASE j \in from..p - 1
    <3>1. At(j) = "1"
      BY <1>4, <2>3 DEF Digits
    <3>2. QED
      BY <2>2, <3>1
  <2>4. CASE j \notin from..p - 1
    <3>1. j = offset /\ from = offset + 1 /\ i = 1
      BY <1>1, <1>2, <1>5, <1>6, <2>1, <2>4
    <3>2. i # n
      BY <1>1, <1>2, <1>6, <2>1, <3>1
    <3>3. QED
      BY <1>2, <2>2, <3>1, <3>2
  <2>5. QED
    BY <2>3, <2>4
<1>8. /\ s \in Word /\ Len(s) = n /\ \A i \in 1..n : s[i] = text[offset + i]
  <2>1. "1" \in Character \ {Nul} /\ "-" \in Character \ {Nul}
    BY DEF Character, Nul
  <2>2. \A i \in offset + 1..e : text[i] \in Character \ {Nul}
    <3>1. ASSUME NEW i \in offset + 1..e PROVE text[i] \in Character \ {Nul}
      <4>1. i - offset \in 1..n /\ offset + (i - offset) = i
        BY <1>1, <1>6
      <4>2. text[i] \in {"1", "-"}
        BY <1>7, <4>1
      <4>3. QED
        BY <2>1, <4>2
    <3>2. QED
      BY <3>1
  <2>3. offset <= e
    BY <1>1, <1>6
  <2>4. QED
    BY <1>1, <1>6, <2>2, <2>3, CutProperties DEF Word
<1> HIDE DEF n
<1>9. s # <<>> /\ s # <<"-">>
  <2>0. n \in 1..n /\ n \in Nat \ {0}
    BY <1>6
  <2>1. s[n] = "1"
    BY <1>7, <1>8, <2>0
  <2> HIDE DEF s
  <2>2. s # <<>>
    BY <1>8, <2>0
  <2>3. ASSUME s = <<"-">> PROVE FALSE
    <3>1. Len(s) = 1 /\ s[1] = "-"
      BY <2>3
    <3>2. QED
      BY <1>8, <2>1, <3>1
  <2>4. QED
    BY <2>2, <2>3
<1>10. DOMAIN s = 1..n
  <2> HIDE DEF s
  <2>1. QED
    BY <1>8 DEF Word
<1> HIDE DEF s
<1>11. Numeral(s)
  <2>1. s \notin {<<>>, <<"-">>}
    BY <1>9, Zenon
  <2>2. \A i \in DOMAIN s : s[i] = "1" \/ (i = 1 /\ s[i] = "-")
    BY <1>7, <1>8, <1>10
  <2>3. QED
    BY <2>1, <2>2, Zenon DEF Numeral
<1>12. QED
  BY <1>8, <1>11 DEF s, e
-----------------------------------------------------------------------------
(***************************************************************************)
(* The values that the parser builds nest no deeper than allowed.          *)
(***************************************************************************)

\* The elements of an array, and the call that builds it, have no names.
Unnamed(kids) == \A i \in 1..Len(kids) : kids[i].name = Void
IsCall(c, V) ==
  /\ c.name \in Word /\ c.kids \in Seq(Named(V))
  /\ c.closer = "]" => c.name = Void /\ Unnamed(c.kids)

\* A call at some depth builds a container of what may nest in it.
IsCallAt(c, k) == IsCall(c, Trees[CJSON_NESTING_LIMIT - k])
Calls(f) == \A k \in 1..Len(f) : IsCallAt(f[k], k)

Treed ==
  /\ pc = "after" => value.node \in Trees[CJSON_NESTING_LIMIT - Len(frames)]
  /\ pc = "parsed" => value.node \in Trees[CJSON_NESTING_LIMIT]
  /\ pc \in {"name", "colon"} => Top.closer = "}"
  /\ pc = "colon" => value.node.chars \in Word
  /\ Calls(frames)

\* What is read of a scalar is a tree.
LEMMA LeafTree ==
  ASSUME NEW n \in Nat, NEW c \in Word
  PROVE  /\ Leaf("string", c) \in Trees[n] /\ Leaf("literal", <<>>) \in Trees[n]
         /\ Numeral(c) => Leaf("number", c) \in Trees[n]
<1>1. <<>> \in Word
  BY EmptyWord, Zenon DEF Void
<1>2. Leaf("string", c) \in Scalars /\ Leaf("literal", <<>>) \in Scalars
  BY <1>1 DEF Scalars, Leaf, Node
<1>3. Numeral(c) => Leaf("number", c) \in Scalars
  BY DEF Scalars, Leaf, Node
<1>4. QED
  BY <1>2, <1>3, TreesDef

\* What is read of a container is a tree.
LEMMA ContainerTree ==
  ASSUME NEW n \in Nat \ {0}, NEW type \in {"array", "object"},
         NEW kids \in Seq(Named(Trees[n - 1])), type = "array" => Unnamed(kids)
  PROVE  Node(type, <<>>, kids) \in Trees[n]
<1> DEFINE v == Node(type, <<>>, kids)
<1>1. v \in [type : {"array", "object"}, chars : {<<>>},
             kids : Seq([name : Word, node : Trees[n - 1]])]
  BY DEF Node, Named
<1>2. v.type = "array" => \A i \in DOMAIN v.kids : v.kids[i].name = <<>>
  <2>1. v.type = type /\ v.kids = kids
    BY DEF Node
  <2> HIDE DEF v
  <2>2. DOMAIN kids = 1..Len(kids)
    BY LenProperties
  <2>3. QED
    BY <2>1, <2>2, Zenon DEF Unnamed, Void
<1>3. v \in Containers(Trees[n - 1])
  <2> HIDE DEF v
  <2>1. QED
    BY <1>1, <1>2, Zenon DEF Containers
<1> HIDE DEF v
<1>4. n \in Nat /\ n # 0
  OBVIOUS
<1>5. v \in Trees[n]
  BY <1>3, <1>4, TreesDef
<1>6. QED
  BY <1>5 DEF v

\* The calls that run, one more or one less of them, and one that has changed.
LEMMA CallsPush ==
  ASSUME NEW V, NEW f \in Frames(V), Calls(f), NEW x, IsCallAt(x, Len(f) + 1)
  PROVE  Calls(Append(f, x)) /\ Last(Append(f, x)) = x
<1> DEFINE n == Len(f)
           g == Append(f, x)
           S == Frame(V) \cup {x}
<1>1. n \in Nat /\ Len(g) = n + 1 /\ g[n + 1] = x /\ \A i \in 1..n : g[i] = f[i]
  <2>1. f \in Seq(S) /\ x \in S
    BY SeqMonotonic DEF Frames
  <2> HIDE DEF S
  <2>2. QED
    BY <2>1, AppendProperties
<1>2. Last(g) = g[Len(g)]
  BY Zenon DEF Last
<1> HIDE DEF g, n
<1>3. ASSUME NEW k \in 1..Len(g) PROVE IsCallAt(g[k], k)
  <2>1. CASE k = n + 1
    BY <1>1, <2>1 DEF n
  <2>2. CASE k # n + 1
    <3>1. k \in 1..n
      BY <1>1, <2>2
    <3>2. IsCallAt(f[k], k)
      BY <3>1 DEF Calls, n
    <3>3. QED
      BY <1>1, <3>1, <3>2
  <2>3. QED
    BY <2>1, <2>2
<1>4. Calls(g)
  BY <1>3, Zenon DEF Calls
<1>5. QED
  BY <1>1, <1>2, <1>4, Zenon DEF g

\* The innermost call returns.
LEMMA CallsPop ==
  ASSUME NEW V, NEW f \in Frames(V), f # <<>>, Calls(f)
  PROVE  /\ Calls(Front(f)) /\ Len(Front(f)) = Len(f) - 1 /\ Len(f) \in Nat \ {0}
         /\ IsCallAt(Last(f), Len(f))
<1> DEFINE n == Len(f)
           g == Front(f)
<1>1. n \in Nat \ {0} /\ Last(f) = f[n]
  BY EmptySeq DEF Last, Frames
<1>2. Len(g) = n - 1 /\ \A i \in 1..n - 1 : g[i] = f[i]
  <2>1. g = SubSeq(f, 1, n - 1)
    BY DEF Front
  <2>2. \A i \in 1..n - 1 : f[i] \in Frame(V)
    BY <1>1, ElementOfSeq DEF Frames
  <2>3. n - 1 \in Nat /\ n \in Nat
    BY <1>1
  <2> HIDE DEF n, g
  <2>4. n - 1 \in Int /\ (IF 1 <= n - 1 THEN n - 1 - 1 + 1 ELSE 0) = n - 1
    BY <2>3
  <2>5. Len(g) = n - 1
    BY <2>1, <2>2, <2>4, SubSeqProperties
  <2>6. ASSUME NEW i \in 1..n - 1 PROVE g[i] = f[i]
    <3>1. i \in 1..n - 1 - 1 + 1 /\ 1 + i - 1 = i
      BY <2>3
    <3>2. QED
      BY <2>1, <2>2, <2>4, <3>1, SubSeqProperties
  <2>7. QED
    BY <2>5, <2>6
<1> HIDE DEF g
<1>3. IsCallAt(Last(f), n)
  <2>1. n \in 1..n
    BY <1>1
  <2>2. QED
    BY <1>1, <2>1 DEF Calls
<1> HIDE DEF n
<1>4. ASSUME NEW k \in 1..Len(g) PROVE IsCallAt(g[k], k)
  <2>1. k \in 1..n /\ k \in 1..n - 1
    BY <1>1, <1>2
  <2>2. IsCallAt(f[k], k)
    BY <2>1 DEF Calls, n
  <2>3. QED
    BY <1>2, <2>1, <2>2
<1>5. Calls(g)
  BY <1>4, Zenon DEF Calls
<1>6. QED
  BY <1>1, <1>2, <1>3, <1>5 DEF g, n

\* The innermost call goes on with another frame.
LEMMA CallsTop ==
  ASSUME NEW V, NEW f \in Frames(V), f # <<>>, Calls(f),
         NEW x, IsCallAt(x, Len(f)), NEW new, new = [f EXCEPT ![Len(f)] = x]
  PROVE  Calls(new) /\ Len(new) = Len(f) /\ Last(new) = x
<1> DEFINE n == Len(f)
           S == Frame(V) \cup {x}
<1>1. n \in Nat \ {0}
  BY EmptySeq DEF Frames
<1>2. Len(new) = n /\ \A i \in 1..n : new[i] = IF i = n THEN x ELSE f[i]
  <2>1. f \in Seq(S) /\ x \in S
    BY SeqMonotonic DEF Frames
  <2> HIDE DEF S
  <2>2. QED
    BY <1>1, <2>1, ExceptSeq
<1>3. Last(new) = new[Len(new)]
  BY Zenon DEF Last
<1>4. ASSUME NEW k \in 1..Len(new) PROVE IsCallAt(new[k], k)
  <2>1. k \in 1..n /\ IsCallAt(f[k], k)
    BY <1>2 DEF Calls
  <2>2. QED
    BY <1>2, <2>1
<1>5. Calls(new)
  BY <1>4, Zenon DEF Calls
<1>6. n \in 1..n
  BY <1>1
<1> HIDE DEF n
<1>7. QED
  BY <1>2, <1>3, <1>5, <1>6 DEF n

\* How many more calls may nest in those that run.
LEMMA Room ==
  ASSUME Parsing, pc \notin {"fail", "failed"}
  PROVE  /\ CJSON_NESTING_LIMIT \in Nat /\ Len(frames) \in Nat /\ depth = Len(frames)
         /\ CJSON_NESTING_LIMIT - Len(frames) \in Nat
<1>1. depth \in Nat /\ depth = Len(frames) /\ depth <= CJSON_NESTING_LIMIT
  BY DEF Parsing, Nested
<1>2. QED
  BY <1>1, LimitAssumption

\* A step that reads no value keeps what there is.
LEMMA QuietStep ==
  ASSUME Calls(frames'), pc' \in {"start", "value", "element", "fail", "failed"}
  PROVE  Treed'
BY DEF Treed

\* A value is read that may stand where it stands.
LEMMA ReadStep ==
  ASSUME Treed, pc' = "after", UNCHANGED frames,
         value'.node \in Trees[CJSON_NESTING_LIMIT - Len(frames)]
  PROVE  Treed'
BY DEF Treed

\* A scalar is read.
LEMMA ScalarTreed ==
  ASSUME Parsing, Treed, ParseScalar
  PROVE  Treed'
<1> DEFINE n == CJSON_NESTING_LIMIT - Len(frames)
<1>1. pc = "value" /\ UNCHANGED frames
  BY DEF ParseScalar
<1>2. n \in Nat
  BY <1>1, Room
<1>3. Placed /\ Calls(frames')
  BY <1>1 DEF Parsing, Treed
<1> HIDE DEF n
<1>4. CASE pc' = "after" /\ value'.node \in Trees[n]
  BY <1>1, <1>4, ReadStep DEF n
<1>5. CASE pc' = "fail"
  BY <1>3, <1>5, QuietStep
<1>6. CASE Is(offset, "n")
  <2>1. pc' = "after" /\ value'.node = Leaf("literal", <<>>)
    BY <1>6 DEF ParseScalar, Goto
  <2>2. Leaf("literal", <<>>) \in Trees[n]
    BY <1>2, EmptyWord, LeafTree
  <2>3. QED
    BY <1>4, <2>1, <2>2
<1>7. CASE ~Is(offset, "n") /\ Is(offset, "q")
  <2>1. parse_string("after") /\ offset < length
    BY <1>7 DEF ParseScalar, Is, CanAccess
  <2>2. \/ pc' = "fail"
        \/ pc' = "after" /\ \E c \in Chars : value'.node = Leaf("string", CString(c))
    BY <1>3, <2>1, StringStep
  <2>3. \A c \in Chars : Leaf("string", CString(c)) \in Trees[n]
    BY <1>2, CStringLetters, LeafTree
  <2>4. QED
    BY <1>4, <1>5, <2>2, <2>3
<1>8. CASE /\ ~Is(offset, "n") /\ ~Is(offset, "q")
           /\ CanAccess(offset) /\ At(offset) \in Digits \cup {"-"}
  <2> DEFINE s == SubSeq(text, offset + 1, NumberEnd(offset))
  <2>1. parse_number /\ offset < length
    BY <1>8 DEF ParseScalar, CanAccess
  <2>2. \/ pc' = "fail"
        \/ /\ NumberEnd(offset) # offset /\ pc' = "after"
           /\ value'.node = Leaf("number", s)
    BY <2>1 DEF parse_number, Goto, Fail
  <2>3. NumberEnd(offset) # offset => s \in Word /\ Numeral(s)
    BY <1>3, <2>1, NumberRead
  <2> HIDE DEF s
  <2>4. NumberEnd(offset) # offset => Leaf("number", s) \in Trees[n]
    BY <1>2, <2>3, LeafTree
  <2>5. QED
    BY <1>4, <1>5, <2>2, <2>4
<1>9. CASE /\ ~Is(offset, "n") /\ ~Is(offset, "q")
           /\ ~(CanAccess(offset) /\ At(offset) \in Digits \cup {"-"})
  <2>1. pc' = "fail"
    BY <1>9 DEF ParseScalar, Fail, Goto
  <2>2. QED
    BY <1>5, <2>1
<1>10. QED
  BY <1>6, <1>7, <1>8, <1>9, Zenon

\* A container is opened.
LEMMA OpenTreed ==
  ASSUME Parsing, Treed, ParseOpen
  PROVE  Treed'
<1> DEFINE closer == Closer[At(offset)]
           o == buffer_skip_whitespace(offset + 1)
           empty == [node |-> Node(Kind[closer], <<>>, <<>>), blocks |-> 0]
           call == [closer |-> closer, name |-> <<>>, kids |-> <<>>, blocks |-> 0]
           n == CJSON_NESTING_LIMIT - Len(frames)
<1>1. pc = "value" /\ (Is(offset, "[") \/ Is(offset, "{"))
  BY DEF ParseOpen
<1>2. PICK V : frames \in Frames(V)
  BY DEF Parsing, Typed, TypedBy
<1>3. n \in Nat /\ Len(frames) \in Nat /\ depth = Len(frames) /\ CJSON_NESTING_LIMIT \in Nat
  BY <1>1, Room
<1>4. closer \in {"]", "}"}
  BY <1>1 DEF Closer, Is
<1>5. \/ pc' = "fail" /\ UNCHANGED frames
      \/ /\ ~(depth >= CJSON_NESTING_LIMIT)
         /\ pc' = "after" /\ value' = empty /\ UNCHANGED frames
      \/ /\ ~(depth >= CJSON_NESTING_LIMIT)
         /\ pc' = IF CanAccess(o) THEN "element" ELSE "fail"
         /\ frames' = Append(frames, call)
  BY Zenon DEF ParseOpen, Fail, Goto
<1>6. Calls(frames)
  BY DEF Treed
<1> HIDE DEF closer, o
<1>7. ~(depth >= CJSON_NESTING_LIMIT) => n \in Nat \ {0}
  BY <1>3
<1>8. CASE pc' = "fail" /\ UNCHANGED frames
  BY <1>6, <1>8, QuietStep
<1>9. CASE /\ ~(depth >= CJSON_NESTING_LIMIT)
           /\ pc' = "after" /\ value' = empty /\ UNCHANGED frames
  <2>1. value'.node = Node(Kind[closer], <<>>, <<>>)
    BY <1>9
  <2>2. Kind[closer] \in {"array", "object"}
    BY <1>4 DEF Kind
  <2>3. <<>> \in Seq(Named(Trees[n - 1])) /\ Unnamed(<<>>)
    BY EmptySeq DEF Unnamed
  <2> HIDE DEF n, empty
  <2>4. Node(Kind[closer], <<>>, <<>>) \in Trees[n]
    BY <1>7, <1>9, <2>2, <2>3, ContainerTree
  <2>5. QED
    BY <1>9, <2>1, <2>4, ReadStep DEF n
<1>10. CASE /\ ~(depth >= CJSON_NESTING_LIMIT)
            /\ pc' = IF CanAccess(o) THEN "element" ELSE "fail"
            /\ frames' = Append(frames, call)
  <2>1. <<>> \in Word /\ <<>> = Void
    BY EmptyWord DEF Void
  <2>2. \A W : <<>> \in Seq(Named(W)) /\ Unnamed(<<>>)
    BY EmptySeq DEF Unnamed
  <2>3. call.name = <<>> /\ call.kids = <<>>
    OBVIOUS
  <2> HIDE DEF call
  <2>4. IsCallAt(call, Len(frames) + 1)
    BY <2>1, <2>2, <2>3, Zenon DEF IsCallAt, IsCall
  <2>5. Calls(frames')
    BY <1>2, <1>6, <1>10, <2>4, CallsPush
  <2>6. QED
    BY <1>10, <2>5, QuietStep
<1>11. QED
  BY <1>5, <1>8, <1>9, <1>10

\* The frame of the innermost call changes to x.
LEMMA TopTreed ==
  ASSUME Parsing, Treed, frames # <<>>, NEW x, SetTop(x), IsCallAt(x, Len(frames))
  PROVE  Calls(frames') /\ Top' = x
<1>1. PICK V : frames \in Frames(V)
  BY DEF Parsing, Typed, TypedBy
<1>2. frames' = [frames EXCEPT ![Len(frames)] = x] /\ Calls(frames)
  BY DEF SetTop, Treed
<1>3. Calls(frames') /\ Last(frames') = x
  BY <1>1, <1>2, CallsTop
<1>4. QED
  BY <1>3, Zenon DEF Top

\* The innermost call and the ones around it.
LEMMA InnerTreed ==
  ASSUME Parsing, Treed, frames # <<>>
  PROVE  /\ IsCallAt(Top, Len(frames)) /\ Top.closer \in {"]", "}"}
         /\ Calls(Front(frames)) /\ Len(Front(frames)) = Len(frames) - 1
         /\ Len(frames) \in Nat \ {0}
         /\ \E V : Top \in Frame(V)
<1>1. PICK V : frames \in Frames(V)
  BY DEF Parsing, Typed, TypedBy
<1>2. Calls(frames)
  BY DEF Treed
<1>3. /\ IsCallAt(Last(frames), Len(frames))
      /\ Calls(Front(frames)) /\ Len(Front(frames)) = Len(frames) - 1
      /\ Len(frames) \in Nat \ {0}
  BY <1>1, <1>2, CallsPop
<1>4. Last(frames) = frames[Len(frames)]
  BY Zenon DEF Last
<1>5. Last(frames) \in Frame(V)
  <2>1. Len(frames) \in 1..Len(frames)
    BY <1>3
  <2>2. QED
    BY <1>1, <1>4, <2>1, ElementOfSeq DEF Frames
<1>6. Last(frames).closer \in {"]", "}"}
  BY <1>5 DEF Frame
<1>7. QED
  BY <1>3, <1>5, <1>6, Zenon DEF Top

\* What a change of a frame leaves alone.
LEMMA FrameChange ==
  ASSUME NEW V, NEW x \in Frame(V), NEW n, NEW k, NEW b
  PROVE  /\ [x EXCEPT !.blocks = b].closer = x.closer
         /\ [x EXCEPT !.blocks = b].name = x.name
         /\ [x EXCEPT !.blocks = b].kids = x.kids
         /\ [x EXCEPT !.name = n, !.blocks = b].closer = x.closer
         /\ [x EXCEPT !.name = n, !.blocks = b].name = n
         /\ [x EXCEPT !.name = n, !.blocks = b].kids = x.kids
         /\ [x EXCEPT !.kids = k, !.blocks = b].closer = x.closer
         /\ [x EXCEPT !.kids = k, !.blocks = b].name = x.name
         /\ [x EXCEPT !.kids = k, !.blocks = b].kids = k
BY DEF Frame

\* A child is allocated.
LEMMA ElementTreed ==
  ASSUME Parsing, Treed, ParseElement
  PROVE  Treed'
<1> DEFINE x == [Top EXCEPT !.blocks = Top.blocks + 1]
<1>1. pc = "element" /\ frames # <<>>
  BY DEF ParseElement, Parsing, Nested
<1>2. \/ pc' = "fail" /\ UNCHANGED frames
      \/ /\ SetTop(x)
         /\ pc' \in {"fail", "value"} \/ (pc' = "name" /\ Top.closer = "}")
  BY DEF ParseElement, Fail, Goto
<1>3. CASE pc' = "fail" /\ UNCHANGED frames
  BY <1>3, QuietStep DEF Treed
<1>4. CASE /\ SetTop(x)
           /\ pc' \in {"fail", "value"} \/ (pc' = "name" /\ Top.closer = "}")
  <2>1. IsCallAt(Top, Len(frames)) /\ \E V : Top \in Frame(V)
    BY <1>1, InnerTreed
  <2>2. x.closer = Top.closer /\ x.name = Top.name /\ x.kids = Top.kids
    BY <2>1, FrameChange
  <2> HIDE DEF x
  <2>3. IsCallAt(x, Len(frames))
    BY <2>1, <2>2, Zenon DEF IsCallAt, IsCall
  <2>4. Calls(frames') /\ Top' = x
    BY <1>1, <1>4, <2>3, TopTreed
  <2>5. QED
    BY <1>4, <2>2, <2>4 DEF Treed
<1>5. QED
  BY <1>2, <1>3, <1>4

\* The name of a member is read.
LEMMA NameTreed ==
  ASSUME Parsing, Treed, ParseName
  PROVE  Treed'
<1>1. pc = "name" /\ UNCHANGED frames /\ parse_string("colon") /\ Placed
  BY DEF ParseName, Parsing
<1>2. offset < length
  BY <1>1 DEF Placed
<1>3. \/ pc' = "fail"
      \/ pc' = "colon" /\ \E c \in Chars : value'.node = Leaf("string", CString(c))
  BY <1>1, <1>2, StringStep
<1>4. Top' = Top /\ Top.closer = "}" /\ Calls(frames')
  BY <1>1 DEF Top, Treed
<1>5. \A c \in Chars : CString(c) \in Word /\ Leaf("string", CString(c)).chars = CString(c)
  BY CStringLetters DEF Leaf, Node
<1>6. QED
  BY <1>3, <1>4, <1>5 DEF Treed

\* A member gets its name.
LEMMA ColonTreed ==
  ASSUME Parsing, Treed, ParseColon
  PROVE  Treed'
<1> DEFINE n == value.node.chars
           x == [Top EXCEPT !.name = n, !.blocks = Top.blocks + value.blocks]
<1>1. pc = "colon" /\ SetTop(x) /\ pc' \in {"value", "fail"}
  BY DEF ParseColon, Goto, Fail
<1>2. frames # <<>> /\ Top.closer = "}" /\ n \in Word
  BY <1>1 DEF Parsing, Nested, Treed
<1>3. IsCallAt(Top, Len(frames)) /\ \E V : Top \in Frame(V)
  BY <1>2, InnerTreed
<1> HIDE DEF n
<1>4. x.closer = Top.closer /\ x.name = n /\ x.kids = Top.kids
  BY <1>3, FrameChange
<1> HIDE DEF x
<1>5. x.closer # "]"
  BY <1>2, <1>4
<1>6. IsCallAt(x, Len(frames))
  BY <1>2, <1>3, <1>4, <1>5, Zenon DEF IsCallAt, IsCall
<1>7. Calls(frames')
  BY <1>1, <1>2, <1>6, TopTreed
<1>8. QED
  BY <1>1, <1>7, QuietStep

Kid(name, node) == [name |-> name, node |-> node]
Further(kids, kid) == Append(kids, kid)

\* One more element or member.
LEMMA KidsAppend ==
  ASSUME NEW V, NEW kids \in Seq(Named(V)), NEW name \in Word, NEW node \in V,
         NEW more, more = Further(kids, Kid(name, node))
  PROVE  /\ more \in Seq(Named(V))
         /\ name = Void /\ Unnamed(kids) => Unnamed(more)
<1> DEFINE x == Kid(name, node)
           n == Len(kids)
<1>1. x \in Named(V) /\ x.name = name
  BY DEF Named, Kid
<1> HIDE DEF x
<1>2. n \in Nat
  BY LenProperties
<1>3. /\ more \in Seq(Named(V)) /\ Len(more) = n + 1
      /\ \A i \in 1..n : more[i] = kids[i]
      /\ more[n + 1] = x
  <2>1. more = Append(kids, x)
    BY Zenon DEF x, Further
  <2>2. QED
    BY <1>1, <2>1, AppendProperties
<1>4. ASSUME name = Void, Unnamed(kids), NEW i \in 1..n + 1 PROVE more[i].name = Void
  <2>1. CASE i = n + 1
    BY <1>1, <1>3, <1>4, <2>1
  <2>2. CASE i # n + 1
    <3>1. i \in 1..n
      BY <1>2, <1>4, <2>2
    <3>2. kids[i].name = Void
      BY <1>4, <3>1, Zenon DEF Unnamed, n
    <3>3. QED
      BY <1>3, <3>1, <3>2
  <2>3. QED
    BY <2>1, <2>2
<1> HIDE DEF n
<1>5. QED
  BY <1>3, <1>4, Zenon DEF Unnamed

\* A child is complete, and maybe the container with it.
LEMMA AfterTreed ==
  ASSUME Parsing, Treed, ParseAfter
  PROVE  Treed'
<1> DEFINE kid == [name |-> Top.name, node |-> value.node]
           kids == Append(Top.kids, kid)
           b == Top.blocks + value.blocks
           x == [Top EXCEPT !.kids = kids, !.blocks = b]
           node == Node(Kind[Top.closer], <<>>, kids)
           n == CJSON_NESTING_LIMIT - Len(frames)
<1>1. pc = "after" /\ frames # <<>>
  BY DEF ParseAfter
<1>2. \/ /\ pc' = "after" /\ value' = [node |-> node, blocks |-> b]
         /\ frames' = Front(frames)
      \/ pc' \in {"element", "fail"} /\ SetTop(x)
  BY DEF ParseAfter, Goto, Pop
<1>3. [node |-> node, blocks |-> b].node = node
  OBVIOUS
<1>4. kids = Further(Top.kids, Kid(Top.name, value.node))
  BY Zenon DEF Further, Kid
<1>5. \A V : Top \in Frame(V) => x.closer = Top.closer /\ x.name = Top.name /\ x.kids = kids
  <2> HIDE DEF kids, b
  <2>1. QED
    BY FrameChange
<1>6. node = Node(Kind[Top.closer], <<>>, kids)
  OBVIOUS
<1> HIDE DEF kid, kids, b, x, node
<1>7. /\ IsCallAt(Top, Len(frames)) /\ Top.closer \in {"]", "}"}
      /\ Calls(Front(frames)) /\ Len(Front(frames)) = Len(frames) - 1
      /\ Len(frames) \in Nat \ {0} /\ \E V : Top \in Frame(V)
  BY <1>1, InnerTreed
<1>8. n \in Nat /\ value.node \in Trees[n] /\ CJSON_NESTING_LIMIT \in Nat
  BY <1>1, Room DEF Treed
<1>9. n + 1 \in Nat \ {0} /\ (n + 1) - 1 = n
      /\ n + 1 = CJSON_NESTING_LIMIT - (Len(frames) - 1)
  <2> DEFINE m == Len(frames)
  <2>1. m \in Nat /\ n = CJSON_NESTING_LIMIT - m
    BY <1>7
  <2> HIDE DEF m, n
  <2>2. n + 1 \in Nat \ {0} /\ (n + 1) - 1 = n /\ n + 1 = CJSON_NESTING_LIMIT - (m - 1)
    BY <1>8, <2>1
  <2>3. QED
    BY <2>2 DEF m
<1>10. /\ Top.name \in Word /\ Top.kids \in Seq(Named(Trees[n]))
       /\ Top.closer = "]" => Top.name = Void /\ Unnamed(Top.kids)
  BY <1>7, Zenon DEF IsCallAt, IsCall
<1> HIDE DEF n
<1>11. kids \in Seq(Named(Trees[n])) /\ (Top.closer = "]" => Unnamed(kids))
  <2>1. /\ kids \in Seq(Named(Trees[n]))
        /\ Top.name = Void /\ Unnamed(Top.kids) => Unnamed(kids)
    BY <1>4, <1>8, <1>10, KidsAppend
  <2>2. QED
    BY <1>10, <2>1
<1>12. CASE /\ pc' = "after" /\ value' = [node |-> node, blocks |-> b]
            /\ frames' = Front(frames)
  <2>1. Kind[Top.closer] \in {"array", "object"}
        /\ (Kind[Top.closer] = "array" => Top.closer = "]")
    BY <1>7 DEF Kind
  <2>2. node \in Trees[n + 1]
    <3>1. kids \in Seq(Named(Trees[(n + 1) - 1]))
      BY <1>9, <1>11, Zenon
    <3>2. node \in Trees[n + 1]
      BY <1>6, <1>9, <1>11, <2>1, <3>1, ContainerTree, Zenon
    <3>3. QED
      BY <3>2
  <2>3. value'.node \in Trees[CJSON_NESTING_LIMIT - Len(frames')]
    BY <1>3, <1>7, <1>9, <1>12, <2>2
  <2>4. QED
    BY <1>7, <1>12, <2>3 DEF Treed
<1>13. CASE pc' \in {"element", "fail"} /\ SetTop(x)
  <2>1. x.closer = Top.closer /\ x.name = Top.name /\ x.kids = kids
    BY <1>5, <1>7
  <2>2. IsCallAt(x, Len(frames))
    BY <1>10, <1>11, <2>1, Zenon DEF IsCallAt, IsCall, n
  <2>3. Calls(frames')
    BY <1>1, <1>13, <2>2, TopTreed
  <2>4. QED
    BY <1>13, <2>3, QuietStep
<1>14. QED
  BY <1>2, <1>12, <1>13

\* Every step of the parser reads values that nest no deeper than allowed.
LEMMA TreedStep ==
  ASSUME Parsing, Treed, ParseNext
  PROVE  Treed'
<1>1. Calls(frames)
  BY DEF Treed
<1>2. CASE ParseStart
  <2>1. UNCHANGED frames /\ pc' \in {"failed", "value"}
    BY <1>2 DEF ParseStart, Goto
  <2>2. QED
    BY <1>1, <2>1, QuietStep
<1>3. CASE ParseEnd
  <2>1. UNCHANGED <<frames, value>> /\ pc' \in {"fail", "parsed"} /\ pc = "after" /\ frames = <<>>
    BY <1>3 DEF ParseEnd, Goto, Fail
  <2>2. Len(frames) = 0 /\ CJSON_NESTING_LIMIT - 0 = CJSON_NESTING_LIMIT
    BY <2>1, EmptySeq, LimitAssumption
  <2>3. value.node \in Trees[CJSON_NESTING_LIMIT]
    BY <2>1, <2>2 DEF Treed
  <2>4. QED
    BY <1>1, <2>1, <2>3 DEF Treed
<1>4. CASE ParseUnwind
  <2>1. pc' = "fail" /\ frames' = Front(frames) /\ frames # <<>>
    BY <1>4 DEF ParseUnwind, Pop
  <2>2. Calls(Front(frames))
    BY <2>1, InnerTreed
  <2>3. QED
    BY <2>1, <2>2, QuietStep
<1>5. CASE ParseFail
  <2>1. UNCHANGED frames /\ pc' = "failed"
    BY <1>5 DEF ParseFail
  <2>2. QED
    BY <1>1, <2>1, QuietStep
<1>6. QED
  BY <1>2, <1>3, <1>4, <1>5, ScalarTreed, OpenTreed, ElementTreed, NameTreed,
     ColonTreed, AfterTreed DEF ParseNext
-----------------------------------------------------------------------------
(***************************************************************************)
(* The buffer and what C sees of it.                                       *)
(***************************************************************************)

\* The first n characters of a buffer.
Cut(d, n) == SubSeq(d, 1, n)
Closing(s) == Append(s, Nul)

\* The characters of a buffer up to some place.
LEMMA CutIs ==
  ASSUME NEW S, NEW d \in Seq(S), NEW n \in 0..Len(d)
  PROVE  /\ Cut(d, n) \in Seq(S) /\ Len(Cut(d, n)) = n
         /\ \A i \in 1..n : Cut(d, n)[i] = d[i]
<1>1. n \in Nat /\ 0 \in Nat /\ 0 <= n /\ Len(d) \in Nat /\ 0 + 1 = 1 /\ n - 0 = n
      /\ \A i \in Nat : 0 + i = i
  OBVIOUS
<1>2. \A i \in 0 + 1..n : d[i] \in S
  <2>1. \A i \in 0 + 1..n : i \in 1..Len(d)
    BY <1>1
  <2>2. QED
    BY <2>1, ElementOfSeq
<1> DEFINE c == SubSeq(d, 0 + 1, n)
<1>3. /\ c \in Seq(S) /\ Len(c) = n - 0
      /\ \A i \in 1..n - 0 : c[i] = d[0 + i]
  BY <1>1, <1>2, CutProperties
<1>4. c = Cut(d, n)
  BY <1>1 DEF Cut
<1> HIDE DEF c
<1>5. QED
  BY <1>1, <1>3, <1>4

\* Two sequences are the same if they are of one length and agree everywhere.
LEMMA SameSequence ==
  ASSUME NEW S, NEW a \in Seq(S), NEW b \in Seq(S), Len(a) = Len(b),
         \A i \in 1..Len(a) : a[i] = b[i]
  PROVE  a = b
BY SeqEqual

\* A buffer that begins with a word.
LEMMA CutWord ==
  ASSUME NEW S, NEW d \in Seq(S), NEW w \in Seq(S), Len(w) <= Len(d),
         \A i \in 1..Len(w) : d[i] = w[i]
  PROVE  Cut(d, Len(w)) = w
<1> DEFINE n == Len(w)
           c == Cut(d, n)
<1>1. n \in 0..Len(d)
  OBVIOUS
<1>2. c \in Seq(S) /\ Len(c) = n /\ \A i \in 1..n : c[i] = d[i]
  BY <1>1, CutIs
<1> HIDE DEF c
<1>3. \A i \in 1..Len(c) : c[i] = w[i]
  BY <1>2
<1>4. c = w
  BY <1>2, <1>3, SameSequence
<1>5. QED
  BY <1>4 DEF c

\* What C sees ends at the end of the buffer or at a null character.
LEMMA CStringEnd ==
  ASSUME NEW s \in Chars
  PROVE  /\ CString(s) \in Word /\ Len(CString(s)) \in 0..Len(s)
         /\ CString(s) = Cut(s, Len(CString(s)))
         /\ Len(CString(s)) < Len(s) => s[Len(CString(s)) + 1] = Nul
<1> DEFINE S == {n \in 0..Len(s) : n < Len(s) => s[n + 1] = Nul}
           m == Min(S)
           c == CString(s)
<1>1. Len(s) \in Nat /\ S \subseteq Nat /\ Len(s) \in S
  BY DEF Chars
<1>2. m \in S
  <2> HIDE DEF S
  <2>1. QED
    BY <1>1, MinIsLeast
<1>3. m \in 0..Len(s) /\ (m < Len(s) => s[m + 1] = Nul)
  BY <1>2
<1>4. c = Cut(s, m)
  BY DEF CString, Cut
<1> HIDE DEF m, S
<1>5. Len(Cut(s, m)) = m
  BY <1>3, CutIs DEF Chars
<1>6. c \in Word
  BY CStringLetters
<1> HIDE DEF c
<1>7. Len(c) = m
  BY <1>4, <1>5
<1>8. QED
  BY <1>3, <1>4, <1>6, <1>7 DEF c

\* A word with characters behind it, the first of them a null character, or
\* with none.
LEMMA CStringBefore ==
  ASSUME NEW d \in Chars, NEW w \in Word, Len(w) <= Len(d),
         \A i \in 1..Len(w) : d[i] = w[i],
         Len(w) < Len(d) => d[Len(w) + 1] = Nul
  PROVE  CString(d) = w
<1> DEFINE n == Len(w)
<1>1. n \in Nat /\ \A i \in 1..n : w[i] # Nul
  BY WordLength DEF Letter
<1>2. n \in 0..Len(d) /\ \A i \in 1..n : d[i] # Nul
  BY <1>1 DEF Chars
<1>3. CString(d) = SubSeq(d, 1, n)
  BY <1>2, CStringIs
<1>4. Cut(d, n) = w
  BY WordIsChars, CutWord DEF Chars
<1>5. QED
  BY <1>3, <1>4, Zenon DEF Cut

\* Characters go behind the first ones of the buffer, with or without a null
\* character behind them.
LEMMA WriteText ==
  ASSUME NEW p \in Word, NEW s \in Word, NEW chars, chars \in {s, Closing(s)},
         NEW d, d = Join(p, chars)
  PROVE  /\ d \in Chars /\ CString(d) = Join(p, s)
         /\ Cut(d, Len(p)) = p /\ Cut(d, Len(p) + Len(s)) = Join(p, s)
         /\ Len(p) \in 0..Len(d) /\ Len(p) + Len(s) \in 0..Len(d)
<1> DEFINE w == Join(p, s)
<1>1. Len(p) \in Nat /\ Len(s) \in Nat /\ p \in Chars /\ s \in Chars /\ w \in Word
      /\ w \in Chars
  BY WordLength, WordIsChars, JoinType
<1>2. Nul \in Character
  BY DEF Nul, Character
<1>3. /\ chars \in Chars
      /\ Len(chars) \in {Len(s), Len(s) + 1} /\ \A i \in 1..Len(s) : chars[i] = s[i]
      /\ Len(chars) # Len(s) => chars[Len(s) + 1] = Nul
  <2>1. CASE chars = s
    BY <1>1, <2>1
  <2>2. CASE chars = Closing(s)
    <3> DEFINE t == Append(s, Nul)
    <3>1. /\ t \in Chars /\ Len(t) = Len(s) + 1 /\ t[Len(s) + 1] = Nul
          /\ \A i \in 1..Len(s) : t[i] = s[i]
      BY <1>1, <1>2, AppendProperties DEF Chars
    <3>2. chars = t
      BY <2>2, Zenon DEF Closing
    <3> HIDE DEF t
    <3>3. QED
      BY <3>1, <3>2
  <2>3. QED
    BY <2>1, <2>2
<1>4. /\ d \in Chars /\ Len(d) = Len(p) + Len(chars)
      /\ \A i \in 1..Len(p) + Len(chars) :
           d[i] = IF i <= Len(p) THEN p[i] ELSE chars[i - Len(p)]
  <2>1. p \in Seq(Character) /\ chars \in Seq(Character)
    BY <1>1, <1>3 DEF Chars
  <2>2. QED
    BY <2>1, JoinProperties DEF Chars
<1>5. /\ Len(w) = Len(p) + Len(s)
      /\ \A i \in 1..Len(p) + Len(s) : w[i] = IF i <= Len(p) THEN p[i] ELSE s[i - Len(p)]
  <2>1. p \in Seq(Character) /\ s \in Seq(Character)
    BY <1>1 DEF Chars
  <2>2. QED
    BY <2>1, JoinProperties
<1> HIDE DEF w
<1>6. \A i \in 1..Len(p) : d[i] = p[i]
  BY <1>1, <1>3, <1>4
<1>7. ASSUME NEW i \in 1..Len(w) PROVE d[i] = w[i]
  <2>1. i \in 1..Len(p) + Len(s) /\ i \in 1..Len(p) + Len(chars) /\ i \in Int
    BY <1>1, <1>3, <1>5
  <2>2. CASE i <= Len(p)
    BY <1>4, <1>5, <2>1, <2>2
  <2>3. CASE ~(i <= Len(p))
    <3>1. i - Len(p) \in 1..Len(s)
      BY <1>1, <2>1, <2>3
    <3>2. QED
      BY <1>3, <1>4, <1>5, <2>1, <2>3, <3>1
  <2>4. QED
    BY <2>2, <2>3
<1>8. Len(w) <= Len(d) /\ Len(p) <= Len(d) /\ Len(w) \in Nat /\ Len(d) \in Nat
  BY <1>1, <1>3, <1>4, <1>5
<1>9. ASSUME Len(w) < Len(d) PROVE d[Len(w) + 1] = Nul
  <2> DEFINE a == Len(w)
             b == Len(d)
             c == Len(chars)
             e == Len(s)
             g == Len(p)
  <2>1. a = g + e /\ b = g + c /\ (c = e \/ c = e + 1) /\ e \in Nat /\ g \in Nat /\ a < b
    BY <1>1, <1>3, <1>4, <1>5, <1>9
  <2> HIDE DEF a, b, c, e, g
  <2>2. c = e + 1 /\ a + 1 = g + c
    BY <2>1
  <2>3. Len(chars) = Len(s) + 1 /\ Len(w) + 1 = Len(p) + Len(chars)
    BY <2>2 DEF a, b, c, e, g
  <2>4. ~(Len(w) + 1 <= Len(p)) /\ Len(w) + 1 - Len(p) = Len(s) + 1
        /\ Len(w) + 1 \in 1..Len(p) + Len(chars)
    BY <1>1, <1>5, <2>3
  <2>5. QED
    BY <1>3, <1>4, <2>3, <2>4
<1>10. CString(d) = w
  BY <1>1, <1>4, <1>7, <1>8, <1>9, CStringBefore
<1>11. Cut(d, Len(w)) = w /\ Cut(d, Len(p)) = p
  BY <1>1, <1>4, <1>6, <1>7, <1>8, CutWord DEF Chars
<1>12. QED
  BY <1>1, <1>4, <1>5, <1>8, <1>10, <1>11 DEF w
-----------------------------------------------------------------------------
(***************************************************************************)
(* What is written and what is left to do.                                 *)
(***************************************************************************)

\* The text that is to be printed for v.
Printout(v, f) == Layout(Recovered(v), f)

\* What of the text is in the buffer d for good, if the offset is n: all that C
\* sees, where the offset is about to be measured, or what is before it.
WrittenBy(t, d, n) == IF Measures(t) THEN CString(d) ELSE Cut(d, n)

\* With what is left to do in t it makes up the text for v.
Spells(t, d, n, f, v) ==
  /\ Plan(t) /\ Cut(d, n) \in Word
  /\ Join(WrittenBy(t, d, n), Rest(t, f)) = Printout(v, f)

\* What is written is a word.
LEMMA WrittenType ==
  ASSUME NEW t, NEW d \in Chars, NEW n, Cut(d, n) \in Word
  PROVE  WrittenBy(t, d, n) \in Word
BY CStringLetters DEF WrittenBy

\* The order that is carried out, and the ones behind it.
LEMMA SpellsFirst ==
  ASSUME NEW f \in BOOLEAN, NEW t, t # <<>>, NEW d \in Chars, NEW n, NEW v,
         Spells(t, d, n, f, v)
  PROVE  /\ t[1] \in Orders /\ Plan(Tail(t))
         /\ Leaving(t[1]) => Measures(Tail(t))
         /\ WrittenBy(t, d, n) \in Word
         /\ Spelled(t[1], f) \in Word /\ Rest(Tail(t), f) \in Word
         /\ Join(WrittenBy(t, d, n), Join(Spelled(t[1], f), Rest(Tail(t), f))) = Printout(v, f)
<1>1. Plan(t) /\ Cut(d, n) \in Word /\ Join(WrittenBy(t, d, n), Rest(t, f)) = Printout(v, f)
  BY Zenon DEF Spells
<1>2. /\ t[1] \in Orders /\ Plan(Tail(t)) /\ (Leaving(t[1]) => Measures(Tail(t)))
  BY <1>1, PlanTail
<1>3. Tail(t) \in Seq(Orders) /\ t \in Seq(Orders)
  BY <1>1, <1>2 DEF Plan
<1>4. t = Then(t[1], Tail(t))
  BY <1>3, ThenTail
<1>5. Rest(Then(t[1], Tail(t)), f) = Join(Spelled(t[1], f), Rest(Tail(t), f))
  BY <1>2, <1>3, RestThen
<1>6. Rest(t, f) = Join(Spelled(t[1], f), Rest(Tail(t), f))
  BY <1>4, <1>5, Zenon
<1>7. Spelled(t[1], f) \in Word /\ Rest(Tail(t), f) \in Word
  BY <1>2, <1>3, SpelledType, RestType
<1>8. WrittenBy(t, d, n) \in Word
  BY <1>1, WrittenType
<1>9. QED
  BY <1>1, <1>2, <1>6, <1>7, <1>8, Zenon

\* Characters are written.
LEMMA SpellsWrite ==
  ASSUME NEW f \in BOOLEAN, NEW t, t # <<>>, NEW d \in Chars, NEW n \in 0..Len(d), NEW v,
         Spells(t, d, n, f, v), t[1].op = "write",
         NEW e, e = Join(Cut(d, n), t[1].chars)
  PROVE  Spells(Tail(t), e, n + t[1].advance, f, v)
<1> DEFINE p == Cut(d, n)
           x == t[1]
           r == Rest(Tail(t), f)
           m == n + x.advance
<1>1. /\ t[1] \in Orders /\ Plan(Tail(t))
      /\ Leaving(t[1]) => Measures(Tail(t))
      /\ WrittenBy(t, d, n) \in Word
      /\ Spelled(t[1], f) \in Word /\ Rest(Tail(t), f) \in Word
      /\ Join(WrittenBy(t, d, n), Join(Spelled(t[1], f), Rest(Tail(t), f))) = Printout(v, f)
  BY SpellsFirst, Zenon
<1>15. /\ x \in Orders /\ Plan(Tail(t)) /\ r \in Word
       /\ Leaving(x) => Measures(Tail(t))
       /\ Join(WrittenBy(t, d, n), Join(Spelled(x, f), r)) = Printout(v, f)
  BY <1>1, Zenon
<1>2. p \in Word /\ Len(p) = n
  <2>1. p \in Word
    BY Zenon DEF Spells
  <2>2. Len(p) = n
    BY CutIs DEF Chars
  <2>3. QED
    BY <2>1, <2>2
<1>3. WrittenBy(t, d, n) = p
  <2>1. ~Measures(t)
    BY DEF Measures
  <2>2. QED
    BY <2>1 DEF WrittenBy
<1>4. e = Join(p, x.chars) /\ x.op = "write"
  BY Zenon
<1> HIDE DEF p, x, r
<1>5. PICK s \in Word : /\ x.chars \in {s, Append(s, Nul)} /\ x.advance \in {0, Len(s)}
  BY <1>15, <1>4, OrderKind
<1>6. x.chars \in {s, Closing(s)}
  BY <1>5, Zenon DEF Closing
<1>7. CString(x.chars) = s
  BY <1>5, CStringWord
<1>8. Spelled(x, f) = s
  BY <1>4, <1>7 DEF Spelled
<1>9. /\ e \in Chars /\ CString(e) = Join(p, s)
      /\ Cut(e, n) = p /\ Cut(e, n + Len(s)) = Join(p, s)
  BY <1>2, <1>4, <1>6, WriteText
<1>10. Join(Join(p, s), r) = Printout(v, f) /\ Join(p, s) \in Word
  <2>1. Join(p, Join(s, r)) = Printout(v, f)
    BY <1>15, <1>3, <1>8, Zenon
  <2>2. QED
    BY <1>15, <1>2, <2>1, JoinAssociative, JoinType
<1>11. Cut(e, m) \in Word
  <2>1. n \in Int /\ n + 0 = n
    OBVIOUS
  <2>2. CASE x.advance = 0
    BY <1>2, <1>9, <2>1, <2>2
  <2>3. CASE x.advance = Len(s)
    BY <1>9, <1>10, <2>3
  <2>4. QED
    BY <1>5, <2>2, <2>3
<1>12. WrittenBy(Tail(t), e, m) = Join(p, s)
  <2>1. CASE Measures(Tail(t))
    BY <1>9, <2>1 DEF WrittenBy
  <2>2. CASE ~Measures(Tail(t))
    <3>1. ~Leaving(x)
      BY <1>15, <2>2
    <3>2. x.advance = Len(s)
      BY <1>4, <1>7, <3>1 DEF Leaving
    <3>3. QED
      BY <1>9, <2>2, <3>2 DEF WrittenBy
  <2>3. QED
    BY <2>1, <2>2
<1> HIDE DEF m
<1>13. Spells(Tail(t), e, m, f, v)
  BY <1>15, <1>10, <1>11, <1>12, Zenon DEF Spells, r
<1>14. QED
  BY <1>13, Zenon DEF m, x

\* The offset is measured.
LEMMA SpellsUpdate ==
  ASSUME NEW f \in BOOLEAN, NEW t, t # <<>>, NEW d \in Chars, NEW n, NEW v,
         Spells(t, d, n, f, v), t[1].op = "update"
  PROVE  Spells(Tail(t), d, Len(CString(d)), f, v)
<1> DEFINE r == Rest(Tail(t), f)
           m == Len(CString(d))
<1>1. /\ t[1] \in Orders /\ Plan(Tail(t))
      /\ Leaving(t[1]) => Measures(Tail(t))
      /\ WrittenBy(t, d, n) \in Word
      /\ Spelled(t[1], f) \in Word /\ Rest(Tail(t), f) \in Word
      /\ Join(WrittenBy(t, d, n), Join(Spelled(t[1], f), Rest(Tail(t), f))) = Printout(v, f)
  BY SpellsFirst, Zenon
<1>2. WrittenBy(t, d, n) = CString(d)
  BY DEF WrittenBy, Measures
<1>3. Spelled(t[1], f) = Void
  BY DEF Spelled
<1>4. CString(d) \in Word /\ CString(d) = Cut(d, m)
  BY CStringEnd
<1>5. WrittenBy(Tail(t), d, m) = CString(d)
  BY <1>4, Zenon DEF WrittenBy
<1>6. Join(Void, r) = r
  BY <1>1, JoinEmpty
<1>7. Join(CString(d), r) = Printout(v, f)
  BY <1>1, <1>2, <1>3, <1>6, Zenon
<1>8. Cut(d, m) \in Word
  BY <1>4, Zenon
<1> HIDE DEF m
<1>9. Spells(Tail(t), d, m, f, v)
  BY <1>1, <1>5, <1>7, <1>8, Zenon DEF Spells
<1>10. QED
  BY <1>9, Zenon DEF m

\* A call is carried out by the orders it consists of.
LEMMA SpellsExpand ==
  ASSUME NEW f \in BOOLEAN, f = mode.format, NEW t, t # <<>>, NEW d \in Chars, NEW n, NEW v,
         Spells(t, d, n, f, v), t[1].op \in {"value", "elements", "members"}
  PROVE  /\ Spells(Join(Expand(t[1]), Tail(t)), d, n, f, v)
         /\ Join(Expand(t[1]), Tail(t)) # <<>>
<1> DEFINE x == t[1]
           r == Rest(Tail(t), f)
           u == Join(Expand(x), Tail(t))
<1>1. /\ t[1] \in Orders /\ Plan(Tail(t))
      /\ Leaving(t[1]) => Measures(Tail(t))
      /\ WrittenBy(t, d, n) \in Word
      /\ Spelled(t[1], f) \in Word /\ Rest(Tail(t), f) \in Word
      /\ Join(WrittenBy(t, d, n), Join(Spelled(t[1], f), Rest(Tail(t), f))) = Printout(v, f)
  BY SpellsFirst
<1>12. /\ x \in Orders /\ Plan(Tail(t)) /\ (Leaving(x) => Measures(Tail(t)))
       /\ WrittenBy(t, d, n) \in Word
       /\ Join(WrittenBy(t, d, n), Join(Spelled(x, f), r)) = Printout(v, f)
  BY <1>1, Zenon
<1>2. Measures(Tail(t)) /\ ~Measures(t)
  BY <1>12 DEF Leaving, Measures
<1>3. x.op \in {"value", "elements", "members"}
  BY Zenon
<1>4. Brings(u, Spelled(x, f), Tail(t), f) /\ Acts(u)
  <2> HIDE DEF x
  <2>1. Brings(Join(Expand(x), Tail(t)), Spelled(x, f), Tail(t), f)
        /\ Acts(Join(Expand(x), Tail(t)))
    BY <1>12, <1>2, <1>3, ExpandBrings
  <2>2. QED
    BY <2>1, Zenon
<1> HIDE DEF u
<1>5. Plan(u) /\ Rest(u, f) = Join(Spelled(x, f), r)
  BY <1>4, Zenon DEF Brings
<1>6. ~Measures(u)
  BY <1>4 DEF Acts, Measures
<1>7. WrittenBy(u, d, n) = WrittenBy(t, d, n)
  BY <1>2, <1>6 DEF WrittenBy
<1>8. Cut(d, n) \in Word
  BY Zenon DEF Spells
<1>9. Join(WrittenBy(u, d, n), Rest(u, f)) = Printout(v, f)
  BY <1>12, <1>5, <1>7, Zenon
<1>10. Spells(u, d, n, f, v)
  BY <1>5, <1>8, <1>9, Zenon DEF Spells
<1>11. u # <<>>
  BY <1>4, Zenon DEF Brings
<1>13. QED
  BY <1>10, <1>11, Zenon DEF u, x

\* All has been done.
LEMMA SpellsEnd ==
  ASSUME NEW f \in BOOLEAN, NEW d \in Chars, NEW n, NEW v, Spells(<<>>, d, n, f, v)
  PROVE  CString(d) = Printout(v, f)
<1>1. WrittenBy(<<>>, d, n) = CString(d)
  BY Zenon DEF WrittenBy, Measures
<1>2. Rest(<<>>, f) = Void
  BY RestEmpty
<1>3. Join(CString(d), Void) = CString(d)
  BY CStringLetters, JoinEmpty
<1>4. Join(WrittenBy(<<>>, d, n), Rest(<<>>, f)) = Printout(v, f)
  BY Zenon DEF Spells
<1>5. QED
  BY <1>1, <1>2, <1>3, <1>4, Zenon

\* A print begins with the one value, and ends with a measurement if its answer
\* is to be trimmed.
LEMMA SpellsStart ==
  ASSUME NEW f \in BOOLEAN, NEW v \in Trees[CJSON_NESTING_LIMIT], NEW trim,
         NEW t, t = Join(Mark(Value(v, 0)), IF trim THEN Mark(Update) ELSE Void)
  PROVE  Spells(t, <<>>, 0, f, v) /\ t # <<>>
<1> DEFINE u == IF trim THEN Mark(Update) ELSE Void
           x == Value(v, 0)
<1>1. CJSON_NESTING_LIMIT - 0 = CJSON_NESTING_LIMIT /\ 0 \in 0..CJSON_NESTING_LIMIT
  BY LimitAssumption
<1>2. x \in Orders /\ Spelled(x, f) = SpeltAt(0, f)[v]
  <2>1. v \in Trees[CJSON_NESTING_LIMIT - 0]
    BY <1>1
  <2>2. QED
    BY <1>1, <2>1, ValueOrder, Zenon
<1>3. SpeltAt(0, f)[v] = Printout(v, f)
  <2>1. SpeltAt(0, f)[v] = TextAt(0, f)[Recoveries[CJSON_NESTING_LIMIT][v]]
    BY <1>1 DEF SpeltAt
  <2>2. QED
    BY <1>1, <2>1, Zenon DEF TextAt, Layout, Recovered, Printout
<1>4. x.op = "value"
  BY DEF Value
<1>5. t = Join(Mark(x), u)
  BY Zenon
<1>6. Plan(<<>>) /\ Measures(<<>>) /\ Rest(<<>>, f) = Void
  BY RestEmpty DEF Plan, Settles, Measures
<1>7. Update \in Orders /\ Spelled(Update, f) = Void /\ Update.op = "update"
  BY UpdateOrder DEF Update
<1>8. Then(Update, <<>>) = Mark(Update)
  <2>1. Mark(Update) \in Seq(Orders)
    BY <1>7 DEF Mark
  <2>2. Mark(Update) \o <<>> = Mark(Update)
    BY <2>1, ConcatEmptySeq
  <2>3. QED
    BY <2>2, Zenon DEF Then, Join
<1>9. Plan(Mark(Update)) /\ Rest(Mark(Update), f) = Void /\ Measures(Mark(Update))
  <2>1. ~Leaving(Update)
    BY <1>7 DEF Leaving
  <2>2. Plan(Then(Update, <<>>))
    BY <1>6, <1>7, PlanThen
  <2>3. Rest(Then(Update, <<>>), f) = Join(Spelled(Update, f), Rest(<<>>, f))
    BY <1>7, RestEmpty, RestThen
  <2>4. Join(Void, Void) = Void
    BY EmptyWord, JoinEmpty
  <2>5. Mark(Update)[1] = Update
    BY DEF Mark
  <2>6. Measures(Mark(Update))
    BY <1>7, <2>5, Zenon DEF Measures
  <2>7. QED
    BY <1>6, <1>7, <1>8, <2>2, <2>3, <2>4, <2>6, Zenon
<1>10. Plan(u) /\ Rest(u, f) = Void /\ Measures(u)
  BY <1>6, <1>9, Zenon DEF Void
<1> HIDE DEF u, x
<1>11. t = Then(x, u)
  BY <1>5, Zenon DEF Then
<1>12. u \in Seq(Orders)
  BY <1>10, Zenon DEF Plan
<1>13. Plan(t) /\ t # <<>> /\ t[1] = x
  <2>1. Plan(Then(x, u))
    BY <1>2, <1>10, PlanThen
  <2>2. Then(x, u) # <<>> /\ Then(x, u)[1] = x
    BY <1>2, <1>12, ThenProperties
  <2>3. QED
    BY <1>11, <2>1, <2>2, Zenon
<1>14. Rest(t, f) = Printout(v, f) /\ Printout(v, f) \in Word
  <2>1. Rest(Then(x, u), f) = Join(Spelled(x, f), Rest(u, f))
    BY <1>2, <1>12, RestThen
  <2>2. Spelled(x, f) \in Word
    BY <1>2, SpelledType
  <2>3. Join(Spelled(x, f), Void) = Spelled(x, f)
    BY <2>2, JoinEmpty
  <2>4. QED
    BY <1>2, <1>3, <1>10, <1>11, <2>1, <2>2, <2>3, Zenon
<1>15. Cut(<<>>, 0) = Void
  BY DEF Cut, Void
<1>16. WrittenBy(t, <<>>, 0) = Void
  <2>1. ~Measures(t)
    BY <1>4, <1>13 DEF Measures
  <2>2. QED
    BY <1>15, <2>1 DEF WrittenBy
<1>17. Join(Void, Printout(v, f)) = Printout(v, f) /\ Void \in Word
  BY <1>14, JoinEmpty, EmptyWord
<1>18. QED
  BY <1>13, <1>14, <1>15, <1>16, <1>17, Zenon DEF Spells

\* Where no null character is before the offset, update_offset measures what C
\* sees of the whole buffer.
LEMMA OffsetMeasured ==
  ASSUME data \in Chars, at \in 0..Len(data), Cut(data, at) \in Word
  PROVE  update_offset = Len(CString(data)) /\ update_offset \in at..Len(data)
<1> DEFINE S == {i \in at..Len(data) : i < Len(data) => data[i + 1] = Nul}
           m == Min(S)
<1>1. Len(data) \in Nat /\ S \subseteq Nat /\ Len(data) \in S
  BY DEF Chars
<1>2. m \in S /\ \A i \in S : m <= i
  <2> HIDE DEF S
  <2>1. QED
    BY <1>1, MinIsLeast
<1>3. m \in at..Len(data) /\ (m < Len(data) => data[m + 1] = Nul)
  BY <1>2
<1>4. update_offset = m
  BY Zenon DEF update_offset
<1>5. ASSUME NEW i \in 1..m PROVE data[i] # Nul
  <2>1. CASE i <= at
    <3>1. i \in 1..at /\ at \in 0..Len(data)
      <4> HIDE DEF m
      <4>1. QED
        BY <1>1, <1>3, <1>5, <2>1
    <3> DEFINE c == Cut(data, at)
    <3>2. Len(c) = at /\ \A k \in 1..at : c[k] = data[k]
      BY CutIs DEF Chars
    <3>3. \A k \in 1..Len(c) : c[k] \in Letter
      BY WordLength
    <3> HIDE DEF c
    <3>4. data[i] \in Letter
      BY <3>1, <3>2, <3>3
    <3>5. QED
      BY <3>4 DEF Letter
  <2>2. CASE ~(i <= at)
    <3> HIDE DEF m
    <3>1. i - 1 \in at..Len(data) /\ i - 1 < Len(data) /\ (i - 1) + 1 = i /\ ~(m <= i - 1)
      BY <1>1, <1>3, <1>5, <2>2
    <3>2. i - 1 \notin S
      <4> HIDE DEF S
      <4>1. QED
        BY <1>2, <3>1
    <3>3. QED
      BY <3>1, <3>2
  <2>3. QED
    BY <2>1, <2>2
<1> HIDE DEF m, S
<1>6. m \in 0..Len(data)
  BY <1>1, <1>3
<1>7. CString(data) = Cut(data, m)
  BY <1>3, <1>5, <1>6, CStringIs DEF Cut
<1>8. Len(Cut(data, m)) = m
  BY <1>6, CutIs DEF Chars
<1>9. QED
  BY <1>3, <1>4, <1>7, <1>8

\* A buffer cut behind its null character says the same.
LEMMA CutString ==
  ASSUME NEW d \in Chars, Len(CString(d)) < Len(d)
  PROVE  CString(Cut(d, Len(CString(d)) + 1)) = CString(d)
<1> DEFINE w == CString(d)
           n == Len(w)
           c == Cut(d, n + 1)
<1>1. w \in Word /\ n \in 0..Len(d) /\ w = Cut(d, n) /\ (n < Len(d) => d[n + 1] = Nul)
  BY CStringEnd
<1>2. Len(d) \in Nat /\ n + 1 \in 0..Len(d) /\ n \in Nat
  BY <1>1 DEF Chars
<1>3. c \in Chars /\ Len(c) = n + 1 /\ \A i \in 1..n + 1 : c[i] = d[i]
  <2> HIDE DEF n
  <2>1. QED
    BY <1>2, CutIs DEF Chars
<1>4. \A i \in 1..n : w[i] = d[i]
  <2>1. \A i \in 1..n : Cut(d, n)[i] = d[i]
    <3> HIDE DEF n
    <3>1. QED
      BY <1>1, CutIs DEF Chars
  <2>2. QED
    BY <1>1, <2>1, Zenon
<1> HIDE DEF w, c
<1>5. n = Len(w)
  OBVIOUS
<1> HIDE DEF n
<1>6. n <= Len(c) /\ n < Len(c) /\ c[n + 1] = d[n + 1] /\ n < Len(d)
  BY <1>2, <1>3
<1>7. \A i \in 1..n : c[i] = w[i]
  BY <1>2, <1>3, <1>4
<1>8. CString(c) = w
  BY <1>1, <1>3, <1>5, <1>6, <1>7, CStringBefore
<1>9. QED
  BY <1>8 DEF c, n, w
-----------------------------------------------------------------------------
(***************************************************************************)
(* The steps of a print.                                                   *)
(***************************************************************************)

\* What is printed is the value that was parsed, as the mode asks for it.
Given ==
  /\ printing # "idle" => first \in Trees[CJSON_NESTING_LIMIT] /\ mode \in Modes
  /\ printing # "idle" /\ round = 1 => first = value.node /\ pc = "parsed"
  /\ printing = "busy" /\ mode.noalloc => size = mode.length

\* What is written and what is left to do make up its layout.
Told ==
  /\ printing = "busy" => Spells(todo, data, at, mode.format, first)
  /\ printing = "busy" /\ todo = <<>> /\ mode.trim => at = Len(CString(data))
  /\ printing = "printed" => CString(data) = Printout(first, mode.format)

\* A print begins.
LEMMA StartTold ==
  ASSUME Printing, printing = "idle", NEW v \in Trees[CJSON_NESTING_LIMIT], PrintStart(v),
         first' = v
  PROVE  Told'
<1>1. mode' \in Modes /\ UNCHANGED <<data, at>> /\ printing' \in {"refused", "busy"}
  BY DEF PrintStart
<1>2. data = <<>> /\ at = 0
  BY DEF Printing, Buffered, Owned
<1>3. mode'.format \in BOOLEAN /\ mode'.trim \in BOOLEAN
  BY <1>1, ModesAssumption DEF Mode
<1>4. CASE printing' = "refused"
  BY <1>4 DEF Told
<1>5. CASE printing' = "busy"
  <2>1. todo' = <<Value(v, 0)>> \o (IF mode'.trim THEN <<Update>> ELSE <<>>)
    BY <1>5 DEF PrintStart
  <2>2. todo' = Join(Mark(Value(v, 0)), IF mode'.trim THEN Mark(Update) ELSE Void)
    BY <2>1, Zenon DEF Join, Mark, Void
  <2>3. Spells(todo', <<>>, 0, mode'.format, v) /\ todo' # <<>>
    BY <1>3, <2>2, SpellsStart
  <2>4. Spells(todo', data', at', mode'.format, first')
    BY <1>1, <1>2, <2>3, Zenon
  <2>5. printing' # "printed"
    BY <1>5
  <2>6. QED
    BY <2>3, <2>4, <2>5, Zenon DEF Told
<1>6. QED
  BY <1>1, <1>4, <1>5

\* A call is carried out.
LEMMA ExpandTold ==
  ASSUME Printing, Told, PrintExpand, UNCHANGED first
  PROVE  Told'
<1> DEFINE f == mode.format
<1>1. /\ printing = "busy" /\ todo # <<>> /\ todo[1].op \in {"value", "elements", "members"}
      /\ UNCHANGED <<mode, data, at, printing>>
      /\ todo' = Expand(todo[1]) \o Tail(todo)
  BY Zenon DEF PrintExpand, Doing, Head1
<1>2. f \in BOOLEAN /\ data \in Chars
  BY DEF Printing, Buffered, Mode
<1>3. Spells(todo, data, at, f, first)
  BY <1>1 DEF Told
<1>4. todo' = Join(Expand(todo[1]), Tail(todo))
  BY <1>1, Zenon DEF Join
<1>5. f = mode.format
  OBVIOUS
<1> HIDE DEF f
<1>6. Spells(todo', data, at, f, first) /\ todo' # <<>>
  <2>1. /\ Spells(Join(Expand(todo[1]), Tail(todo)), data, at, f, first)
        /\ Join(Expand(todo[1]), Tail(todo)) # <<>>
    BY <1>1, <1>2, <1>3, <1>5, SpellsExpand, Zenon
  <2>2. QED
    BY <1>4, <2>1, Zenon
<1>7. Spells(todo', data', at', mode'.format, first') /\ printing' # "printed"
  <2>1. mode'.format = f /\ printing' # "printed" /\ data' = data /\ at' = at /\ first' = first
    BY <1>1, <1>5
  <2>2. QED
    BY <1>6, <2>1, Zenon
<1>8. QED
  BY <1>6, <1>7, Zenon DEF Told

\* Characters are written.
LEMMA PutTold ==
  ASSUME Printing, Told, Doing({"write"}), PutChars, UNCHANGED <<mode, printing, first>>
  PROVE  Told'
<1> DEFINE f == mode.format
           x == todo[1]
<1>1. /\ printing = "busy" /\ todo # <<>> /\ x.op = "write"
      /\ data' = SubSeq(data, 1, at) \o x.chars /\ at' = at + x.advance /\ todo' = Tail(todo)
  BY DEF PutChars, Doing, Head1
<1>2. f \in BOOLEAN /\ data \in Chars /\ at \in 0..Len(data)
  BY DEF Printing, Buffered, Mode
<1>3. Spells(todo, data, at, f, first)
  BY <1>1 DEF Told
<1>4. data' = Join(Cut(data, at), x.chars)
  BY <1>1, Zenon DEF Join, Cut
<1> HIDE DEF f
<1>5. Spells(Tail(todo), data', at + x.advance, f, first)
  BY <1>1, <1>2, <1>3, <1>4, SpellsWrite, Zenon
<1>6. Spells(todo', data', at', mode'.format, first')
  BY <1>1, <1>5 DEF f
<1>7. ~(todo' = <<>> /\ mode'.trim)
  <2>1. SUFFICES ASSUME todo' = <<>>, mode'.trim PROVE FALSE
    OBVIOUS
  <2>2. PICK V : ScheduledBy(V)
    BY DEF Printing, Scheduled
  <2>3. todo[Len(todo)].op = "update"
    BY <1>1, <2>1, <2>2 DEF ScheduledBy
  <2>4. Len(todo) \in Nat \ {0} /\ Len(Tail(todo)) = Len(todo) - 1
    BY <1>1, <2>2, StepsTail DEF ScheduledBy
  <2>5. Len(Tail(todo)) = 0
    BY <1>1, <2>1, EmptySeq
  <2>6. Len(todo) = 1
    <3> DEFINE n == Len(todo)
               m == Len(Tail(todo))
    <3>1. n \in Nat /\ m = n - 1 /\ m = 0
      BY <2>4, <2>5
    <3> HIDE DEF n, m
    <3>2. n = 1
      BY <3>1
    <3>3. QED
      BY <3>2 DEF n
  <2>7. QED
    BY <1>1, <2>3, <2>6
<1>8. printing' # "printed"
  BY <1>1
<1>9. QED
  BY <1>6, <1>7, <1>8, Zenon DEF Told

\* The offset is measured.
LEMMA UpdateTold ==
  ASSUME Printing, Told, PrintUpdate, UNCHANGED first
  PROVE  Told'
<1> DEFINE f == mode.format
<1>1. /\ printing = "busy" /\ todo # <<>> /\ todo[1].op = "update"
      /\ UNCHANGED <<mode, data, printing>> /\ at' = update_offset /\ todo' = Tail(todo)
  BY DEF PrintUpdate, Doing, Head1
<1>2. f \in BOOLEAN /\ data \in Chars /\ at \in 0..Len(data)
  BY DEF Printing, Buffered, Mode
<1>3. Spells(todo, data, at, f, first)
  BY <1>1 DEF Told
<1>4. Cut(data, at) \in Word
  BY <1>3, Zenon DEF Spells
<1>5. update_offset = Len(CString(data))
  BY <1>2, <1>4, OffsetMeasured
<1> HIDE DEF f
<1>6. Spells(Tail(todo), data, Len(CString(data)), f, first)
  BY <1>1, <1>2, <1>3, SpellsUpdate, Zenon
<1>7. Spells(todo', data', at', mode'.format, first')
  BY <1>1, <1>5, <1>6 DEF f
<1>8. at' = Len(CString(data')) /\ printing' # "printed"
  BY <1>1, <1>5
<1>9. QED
  BY <1>7, <1>8, Zenon DEF Told

\* A print ends.
LEMMA EndTold ==
  ASSUME Printing, Told, PrintEnd, UNCHANGED first
  PROVE  Told'
<1> DEFINE f == mode.format
<1>1. printing = "busy" /\ todo = <<>> /\ UNCHANGED mode
  BY DEF PrintEnd
<1>2. CASE printing' = "failing"
  BY <1>2 DEF Told
<1>3. CASE printing' # "failing"
  <2>1. printing' = "printed" /\ data' = IF mode.trim THEN SubSeq(data, 1, at + 1) ELSE data
    BY <1>3 DEF PrintEnd
  <2>2. f \in BOOLEAN /\ data \in Chars
    BY DEF Printing, Buffered, Mode
  <2>3. Spells(<<>>, data, at, f, first)
    BY <1>1 DEF Told
  <2> HIDE DEF f
  <2>4. CString(data) = Printout(first, f)
    BY <2>2, <2>3, SpellsEnd
  <2>5. CString(data') = CString(data)
    <3>1. CASE mode.trim
      <4>1. at = Len(CString(data))
        BY <1>1, <3>1 DEF Told
      <4>2. PICK V : ScheduledBy(V)
        BY DEF Printing, Scheduled
      <4>3. at < Len(data)
        BY <1>1, <3>1, <4>2 DEF ScheduledBy
      <4>4. data' = Cut(data, Len(CString(data)) + 1)
        BY <2>1, <3>1, <4>1, Zenon DEF Cut
      <4>5. QED
        BY <2>2, <4>1, <4>3, <4>4, CutString
    <3>2. CASE ~mode.trim
      BY <2>1, <3>2
    <3>3. QED
      BY <3>1, <3>2
  <2>6. CString(data') = Printout(first', mode'.format)
    BY <1>1, <2>4, <2>5 DEF f
  <2>7. QED
    BY <2>1, <2>6 DEF Told
<1>4. QED
  BY <1>2, <1>3

\* Every step of a print keeps what has been told and what is left to tell.
LEMMA ToldStep ==
  ASSUME Printing, Told, PrintNext, UNCHANGED first
  PROVE  Told'
<1>1. CASE PrintExpand
  BY <1>1, ExpandTold
<1>2. CASE PrintWrite
  BY <1>2, PutTold DEF PrintWrite
<1>3. CASE PrintGrow
  BY <1>3, PutTold DEF PrintGrow
<1>4. CASE PrintRefuse \/ PrintNoMemory \/ PrintFail
  <2>1. printing' \in {"failing", "refused"}
    BY <1>4 DEF PrintRefuse, PrintNoMemory, PrintFail
  <2>2. QED
    BY <2>1 DEF Told
<1>5. CASE PrintUpdate
  BY <1>5, UpdateTold
<1>6. CASE PrintEnd
  BY <1>6, EndTold
<1>7. QED
  BY <1>1, <1>2, <1>3, <1>4, <1>5, <1>6 DEF PrintNext
-----------------------------------------------------------------------------
(***************************************************************************)
(* A parse and the print of what was parsed.                               *)
(***************************************************************************)

\* Only a print that has not begun changes its mode, and only the start and the
\* buffer's growth its size.
LEMMA PrintKeeps ==
  ASSUME PrintNext
  PROVE  /\ printing # "idle" /\ UNCHANGED mode /\ printing' # "idle"
         /\ printing' = "busy" => printing = "busy"
         /\ printing' = "busy" /\ mode.noalloc => size' = size
<1>1. CASE PrintExpand
  BY <1>1 DEF PrintExpand, Doing
<1>2. CASE PrintWrite
  BY <1>2 DEF PrintWrite, Doing
<1>3. CASE PrintGrow
  BY <1>3 DEF PrintGrow, Doing
<1>4. CASE PrintRefuse \/ PrintNoMemory \/ PrintFail
  BY <1>4 DEF PrintRefuse, PrintNoMemory, PrintFail, Doing
<1>5. CASE PrintUpdate
  BY <1>5 DEF PrintUpdate, Doing
<1>6. CASE PrintEnd
  BY <1>6 DEF PrintEnd
<1>7. QED
  BY <1>1, <1>2, <1>3, <1>4, <1>5, <1>6 DEF PrintNext

\* A step of a print, for the value that was parsed.
LEMMA PrintValueGiven ==
  ASSUME Parsing, Treed, Given, PrintValue
  PROVE  /\ Given'
         /\ printing = "idle" => value.node \in Trees[CJSON_NESTING_LIMIT]
         /\ printing # "idle" => PrintNext /\ UNCHANGED first
         /\ first' = value.node
<1>1. /\ pc = "parsed" /\ round = 1 /\ UNCHANGED parseVars /\ round' = round
      /\ first' = value.node /\ (PrintStart(value.node) \/ PrintNext)
  BY DEF PrintValue
<1>2. value.node \in Trees[CJSON_NESTING_LIMIT]
  BY <1>1 DEF Treed
<1>3. UNCHANGED <<value, pc>>
  BY <1>1 DEF parseVars
<1>4. CASE PrintStart(value.node)
  <2>1. /\ mode' \in Modes /\ printing = "idle"
        /\ printing' = "busy" => size' = mode'.length
    BY <1>4 DEF PrintStart
  <2>2. QED
    BY <1>1, <1>2, <1>3, <2>1 DEF Given
<1>5. CASE PrintNext
  <2>1. /\ printing # "idle" /\ UNCHANGED mode /\ printing' # "idle"
        /\ printing' = "busy" => printing = "busy"
        /\ printing' = "busy" /\ mode.noalloc => size' = size
    BY <1>5, PrintKeeps
  <2>2. first = value.node
    BY <1>1, <2>1 DEF Given
  <2>3. QED
    BY <1>1, <1>2, <1>3, <1>5, <2>1, <2>2 DEF Given
<1>6. QED
  BY <1>1, <1>4, <1>5

\* The parser's and the printer's invariants, the value that was read so far a
\* tree, and what the printer has written and has left to do the layout of it.
FullInv == Inv /\ Treed /\ Given /\ Told

\* The inductive invariant holds at the start.
LEMMA FullInvInit == Init => FullInv
<1>1. SUFFICES ASSUME Init PROVE Treed /\ Given /\ Told
  BY InvInit DEF FullInv
<1>2. pc = "start" /\ frames = <<>> /\ printing = "idle"
  BY <1>1 DEF Init, ParseInit, PrintInit
<1>3. Calls(frames)
  BY <1>2, EmptySeq DEF Calls
<1>4. Treed
  BY <1>2, <1>3 DEF Treed
<1>5. QED
  BY <1>2, <1>4 DEF Given, Told

\* Where a text is parsed, nothing is printed.
LEMMA ToldStays ==
  ASSUME Given, Told, UNCHANGED printVars, UNCHANGED first,
         round' = 2 \/ (round' = round /\ (printing # "idle" /\ round = 1 => UNCHANGED <<value, pc>>))
  PROVE  Given' /\ Told'
<1>1. UNCHANGED <<mode, data, size, at, todo, printing, first>>
  BY DEF printVars
<1>2. Told'
  BY <1>1, Zenon DEF Told
<1>3. Given'
  BY <1>1 DEF Given
<1>4. QED
  BY <1>2, <1>3

\* Every step keeps the inductive invariant.
LEMMA FullInvStep == FullInv /\ [Next]_vars => FullInv'
<1>1. SUFFICES ASSUME FullInv, [Next]_vars PROVE Treed' /\ Given' /\ Told'
  BY InvStep DEF FullInv
<1>2. Parsing /\ Printing /\ Treed /\ Given /\ Told
  BY <1>1 DEF FullInv, Inv
<1>3. UNCHANGED parseVars => Treed'
  <2>1. SUFFICES ASSUME UNCHANGED parseVars PROVE Treed'
    OBVIOUS
  <2>2. UNCHANGED <<pc, frames, value>>
    BY <2>1 DEF parseVars
  <2>3. QED
    BY <1>2, <2>2 DEF Treed, Top
<1>4. CASE ParseText
  <2>1. ParseNext /\ UNCHANGED printVars /\ UNCHANGED first /\ round' = round
    BY <1>4 DEF ParseText
  <2>2. Treed'
    BY <1>2, <2>1, TreedStep
  <2>3. pc # "parsed"
    BY <2>1 DEF ParseNext, ParseStart, ParseScalar, ParseOpen, ParseElement, ParseName,
                ParseColon, ParseAfter, ParseEnd, ParseUnwind, ParseFail
  <2>4. ~(printing # "idle" /\ round = 1)
    BY <1>2, <2>3 DEF Given
  <2>5. QED
    BY <1>2, <2>1, <2>2, <2>4, ToldStays
<1>5. CASE PrintValue
  <2>1. /\ Given' /\ first' = value.node
        /\ printing = "idle" => value.node \in Trees[CJSON_NESTING_LIMIT]
        /\ printing # "idle" => PrintNext /\ UNCHANGED first
    BY <1>2, <1>5, PrintValueGiven
  <2>2. UNCHANGED parseVars /\ (PrintStart(value.node) \/ PrintNext)
    BY <1>5 DEF PrintValue
  <2>3. CASE printing = "idle"
    <3>1. PrintStart(value.node)
      BY <2>2, <2>3, PrintKeeps
    <3>2. Told'
      BY <1>2, <2>1, <2>3, <3>1, StartTold
    <3>3. QED
      BY <1>3, <2>1, <2>2, <3>2
  <2>4. CASE printing # "idle"
    <3>1. Told'
      BY <1>2, <2>1, <2>4, ToldStep
    <3>2. QED
      BY <1>3, <2>1, <2>2, <3>1
  <2>5. QED
    BY <2>3, <2>4
<1>6. CASE ParseAgain
  <2>1. /\ UNCHANGED printVars /\ UNCHANGED first /\ round' = 2
        /\ frames' = <<>> /\ pc' = "start"
    BY <1>6 DEF ParseAgain
  <2>2. Calls(frames')
    BY <2>1, EmptySeq DEF Calls
  <2>3. Treed'
    BY <2>1, <2>2, QuietStep
  <2>4. QED
    BY <1>2, <2>1, <2>3, ToldStays
<1>7. CASE UNCHANGED vars
  <2>1. /\ UNCHANGED parseVars /\ UNCHANGED printVars /\ UNCHANGED first /\ round' = round
        /\ UNCHANGED <<value, pc>>
    BY <1>7 DEF vars, parseVars
  <2>2. QED
    BY <1>2, <1>3, <2>1, ToldStays
<1>8. QED
  BY <1>1, <1>4, <1>5, <1>6, <1>7 DEF Next

\* The inductive invariant always holds.
LEMMA FullInvariant == Spec => []FullInv
BY FullInvInit, FullInvStep, PTL DEF Spec

\* parse_array and parse_object count depth, and give up beyond
\* CJSON_NESTING_LIMIT: whatever is parsed is a tree that nests no deeper.
THEOREM ParsedNestsCorrect ==
  Spec => [](pc = "parsed" => value.node \in Trees[CJSON_NESTING_LIMIT])
<1>1. FullInv => (pc = "parsed" => value.node \in Trees[CJSON_NESTING_LIMIT])
  BY DEF FullInv, Treed
<1>2. QED
  BY <1>1, FullInvariant, PTL

\* cJSON_Print, cJSON_PrintUnformatted, cJSON_PrintBuffered and
\* cJSON_PrintPreallocated answer, when they answer a text, the layout of the
\* value that was parsed, whatever the text, the mode and the buffer's size: no
\* growth of the buffer and no separator is lost or written twice.
THEOREM PrintedIsLayoutCorrect == Spec => []PrintedIsLayout
<1>1. FullInv => PrintedIsLayout
  BY DEF FullInv, Told, PrintedIsLayout, Printout
<1>2. QED
  BY <1>1, FullInvariant, PTL

-----------------------------------------------------------------------------
\* A print that is refused where there is a buffer of the caller's.
LEMMA RefusedTooLong ==
  ASSUME Printing, Given, Told, PrintRefuse, mode.noalloc
  PROVE  mode.length <= Len(Printout(first, mode.format)) + 1
<1> DEFINE f == mode.format
           p == Cut(data, at)
           x == todo[1]
           l == Printout(first, f)
           r == Rest(Tail(todo), f)
<1>1. /\ printing = "busy" /\ todo # <<>> /\ x.op = "write"
      /\ (size > 0 /\ at >= size) \/ x.need > INT_MAX \/ x.need + at + 1 > size
  <2>1. printing = "busy" /\ buffer = "block"
    BY DEF PrintRefuse, Doing, Printing, Buffered, Owned
  <2>2. QED
    BY <2>1 DEF PrintRefuse, Doing, Head1, Exhausted, Needed
<1>2. /\ f \in BOOLEAN /\ data \in Chars /\ at \in 0..Len(data) /\ size \in Nat
      /\ at \in Nat /\ (at < size \/ at = 0)
  BY <1>1 DEF Printing, Buffered, Fitting, Mode, Chars
<1>3. /\ mode \in Modes /\ size = mode.length /\ Spells(todo, data, at, f, first)
  BY <1>1 DEF Given, Told
<1>4. size <= INT_MAX /\ INT_MAX \in Nat
  BY <1>3, ModesAssumption, IntMaxAssumption
<1> HIDE DEF f
<1>5. /\ x \in Orders /\ Spelled(x, f) \in Word /\ r \in Word
      /\ Join(WrittenBy(todo, data, at), Join(Spelled(x, f), r)) = l
  <2>1. /\ todo[1] \in Orders /\ Plan(Tail(todo))
        /\ Leaving(todo[1]) => Measures(Tail(todo))
        /\ WrittenBy(todo, data, at) \in Word
        /\ Spelled(todo[1], f) \in Word /\ Rest(Tail(todo), f) \in Word
        /\ Join(WrittenBy(todo, data, at), Join(Spelled(todo[1], f), Rest(Tail(todo), f)))
             = Printout(first, f)
    BY <1>1, <1>2, <1>3, SpellsFirst, Zenon
  <2>2. QED
    BY <2>1, Zenon
<1>6. WrittenBy(todo, data, at) = p
  BY <1>1 DEF WrittenBy, Measures
<1>7. p \in Word /\ Len(p) = at
  <2>1. p \in Word
    BY <1>3, Zenon DEF Spells
  <2>2. Len(p) = at
    BY <1>2, CutIs DEF Chars
  <2>3. QED
    BY <2>1, <2>2
<1>8. Spelled(x, f) = CString(x.chars)
  BY <1>1 DEF Spelled
<1>9. x.need \in Nat /\ x.need <= Len(Spelled(x, f)) + 1
  <2>1. PICK s \in Word : x.chars \in {s, Append(s, Nul)} /\ x.need <= Len(s) + 1
    BY <1>1, <1>5, OrderKind
  <2>2. CString(x.chars) = s
    BY <2>1, CStringWord
  <2>3. x.need \in Nat
    BY <1>1, <1>5, OrderKind
  <2> HIDE DEF x
  <2>4. QED
    BY <1>8, <2>1, <2>2, <2>3, Zenon
<1> DEFINE s == Spelled(x, f)
<1> HIDE DEF p, x, r, l
<1>10. Len(l) = Len(p) + Len(Join(s, r)) /\ Len(Join(s, r)) = Len(s) + Len(r)
  BY <1>5, <1>6, <1>7, JoinLength, JoinType
<1>11. Len(s) \in Nat /\ Len(r) \in Nat
  BY <1>5, WordLength
<1> HIDE DEF s
<1> DEFINE a == Len(s)
           b == Len(r)
           c == Len(l)
           d == x.need
<1>12. /\ c = at + (a + b) /\ a \in Nat /\ b \in Nat /\ d \in Nat /\ d <= a + 1
       /\ (size > 0 /\ at >= size) \/ d > INT_MAX \/ d + at + 1 > size
  BY <1>1, <1>7, <1>9, <1>10, <1>11 DEF s, x
<1> HIDE DEF a, b, c, d
<1>13. size <= c + 1
  BY <1>2, <1>4, <1>12
<1>14. QED
  BY <1>3, <1>13 DEF c, l, f

\* cJSON_PrintPreallocated refuses no buffer that is two bytes longer than the
\* layout of the value: what ensure asks for never exceeds what is still to be
\* written by more than that.
THEOREM PreallocatedSufficesCorrect == Spec => []PreallocatedSuffices
<1>1. Init => PreallocatedSuffices
  BY DEF Init, PrintInit, PreallocatedSuffices
<1>2. FullInv /\ PreallocatedSuffices /\ [Next]_vars => PreallocatedSuffices'
  <2>1. SUFFICES ASSUME FullInv, PreallocatedSuffices, [Next]_vars PROVE PreallocatedSuffices'
    OBVIOUS
  <2>2. Parsing /\ Treed /\ Printing /\ Given /\ Told
    BY <2>1 DEF FullInv, Inv
  <2>3. CASE UNCHANGED printVars /\ UNCHANGED first
    <3>1. UNCHANGED <<printing, mode, first>>
      BY <2>3 DEF printVars
    <3>2. QED
      BY <2>1, <3>1, Zenon DEF PreallocatedSuffices
  <2>4. CASE PrintValue
    <3>1. SUFFICES ASSUME printing' \in {"failing", "refused"}, mode'.noalloc
                   PROVE  mode'.length <= Len(Printout(first', mode'.format)) + 1
      BY Zenon DEF PreallocatedSuffices, Printout
    <3>2. PrintStart(value.node) \/ PrintNext
      BY <2>4 DEF PrintValue
    <3>3. ~PrintStart(value.node)
      BY <3>1, ModesAssumption DEF PrintStart
    <3>4. printing # "idle" /\ UNCHANGED mode /\ mode \in Modes
      BY <2>2, <3>2, <3>3, PrintKeeps DEF Given
    <3>5. UNCHANGED first
      BY <2>2, <2>4, <3>4, PrintValueGiven
    <3>6. ~mode.trim
      BY <3>1, <3>4, ModesAssumption
    <3>7. PrintRefuse \/ PrintFail
      BY <3>1, <3>2, <3>3, <3>4, <3>6 DEF PrintNext, PrintExpand, PrintWrite, PrintGrow,
                                   PrintNoMemory, PrintUpdate, PrintEnd, Doing
    <3>8. mode.length <= Len(Printout(first, mode.format)) + 1
      <4>1. CASE PrintRefuse
        BY <2>2, <3>1, <3>4, <4>1, RefusedTooLong
      <4>2. CASE PrintFail
        <5>1. printing = "failing" /\ mode.noalloc
          BY <3>1, <3>4, <4>2 DEF PrintFail
        <5>2. QED
          BY <2>1, <5>1 DEF PreallocatedSuffices, Printout
      <4>3. QED
        BY <3>7, <4>1, <4>2
    <3>9. QED
      BY <3>4, <3>5, <3>8, Zenon
  <2>5. QED
    BY <2>1, <2>3, <2>4 DEF Next, ParseText, ParseAgain, vars
<1>3. QED
  BY <1>1, <1>2, FullInvariant, PTL DEF Spec
=============================================================================
