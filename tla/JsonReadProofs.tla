---------------------------- MODULE JsonReadProofs ---------------------------
(***************************************************************************)
(* What the parser of lib/cjson takes from a text, for every text and      *)
(* every nesting limit: read without its blanks, the text up to where the  *)
(* parser stopped is the layout of the value that it built.  And what it   *)
(* makes of the output of the printer: the value that was printed.  The    *)
(* reading of a text, the characters of strings and numbers, and the       *)
(* layouts of containers child by child come before the parser's steps.    *)
(***************************************************************************)
EXTENDS JsonTextProofs

-----------------------------------------------------------------------------
(***************************************************************************)
(* The reading of a text, character by character.                          *)
(***************************************************************************)

\* A text is read character by character.
ReadsUp(f, s, n) == f = [i \in 0..n |-> IF i = 0 THEN Beginning ELSE Past(f[i - 1], s[i])]

\* A function that reads a text up begins at its beginning, and goes on.
LEMMA ReadsUpIs ==
  ASSUME NEW s, NEW n \in Nat, NEW f, ReadsUp(f, s, n)
  PROVE  /\ f[0] = Beginning
         /\ \A i \in 1..n : f[i] = Past(f[i - 1], s[i])
<1> DEFINE g == [i \in 0..n |-> IF i = 0 THEN Beginning ELSE Past(f[i - 1], s[i])]
<1>1. f = g
  BY DEF ReadsUp
<1>2. g[0] = Beginning /\ \A i \in 1..n : g[i] = Past(f[i - 1], s[i])
  OBVIOUS
<1> HIDE DEF g
<1>3. QED
  BY <1>1, <1>2

\* There is a reading of every text.
LEMMA ReadsUpExists ==
  ASSUME NEW s, NEW n \in Nat
  PROVE  \E f : ReadsUp(f, s, n)
<1> DEFINE Read == {m \in 0..n : \E f : ReadsUp(f, s, m)}
<1>1. 0 \in Read
  <2>1. ReadsUp([i \in 0..0 |-> Beginning], s, 0)
    BY DEF ReadsUp
  <2>2. QED
    BY <2>1
<1>2. ASSUME NEW m \in 1..n, m - 1 \in Read PROVE m \in Read
  <2>1. PICK g : ReadsUp(g, s, m - 1)
    BY <1>2
  <2>2. m - 1 \in Nat /\ m \in Nat
    OBVIOUS
  <2>3. g[0] = Beginning /\ \A i \in 1..m - 1 : g[i] = Past(g[i - 1], s[i])
    BY <2>1, <2>2, ReadsUpIs
  <2> DEFINE f == [i \in 0..m |-> IF i = m THEN Past(g[m - 1], s[m]) ELSE g[i]]
  <2>4. \A i \in 0..m : f[i] = IF i = m THEN Past(g[m - 1], s[m]) ELSE g[i]
    OBVIOUS
  <2>5. f = [i \in 0..m |-> f[i]]
    OBVIOUS
  <2> HIDE DEF f
  <2>6. ASSUME NEW i \in 0..m
        PROVE  f[i] = IF i = 0 THEN Beginning ELSE Past(f[i - 1], s[i])
    <3>1. CASE i = 0
      BY <2>2, <2>3, <2>4, <3>1
    <3>2. CASE i # 0
      <4>1. i - 1 \in 0..m /\ i - 1 # m /\ i \in 1..m
        BY <2>2, <3>2
      <4>2. f[i - 1] = g[i - 1]
        BY <2>4, <4>1
      <4>3. CASE i = m
        BY <2>4, <4>2, <4>3, <3>2
      <4>4. CASE i # m
        <5>1. i \in 1..m - 1
          BY <4>1, <4>4
        <5>2. f[i] = g[i] /\ g[i] = Past(g[i - 1], s[i])
          BY <2>3, <2>4, <4>4, <5>1
        <5>3. QED
          BY <3>2, <4>2, <5>2
      <4>5. QED
        BY <4>3, <4>4
    <3>3. QED
      BY <3>1, <3>2
  <2>7. ReadsUp(f, s, m)
    BY <2>5, <2>6, Zenon DEF ReadsUp
  <2>8. QED
    BY <2>2, <2>7
<1>3. n \in Read
  <2> HIDE DEF Read
  <2>1. n \in 0..n
    OBVIOUS
  <2>2. QED
    BY <1>1, <1>2, <2>1, ClimbUp
<1>4. QED
  BY <1>3

\* The reading of a text is where reading it up has come at its end.
LEMMA ReadingIs ==
  ASSUME NEW s, Len(s) \in Nat
  PROVE  \E f : /\ Reading(s) = f[Len(s)] /\ f[0] = Beginning
                /\ \A i \in 1..Len(s) : f[i] = Past(f[i - 1], s[i])
<1> DEFINE n == Len(s)
           f == CHOOSE f : ReadsUp(f, s, n)
<1>1. Reading(s) = f[n]
  BY Zenon DEF Reading, ReadsUp
<1>2. n \in Nat
  OBVIOUS
<1> HIDE DEF n
<1>3. \E g : ReadsUp(g, s, n)
  BY <1>2, ReadsUpExists
<1>4. ReadsUp(f, s, n)
  BY <1>3, Zenon
<1> HIDE DEF f
<1>5. f[0] = Beginning /\ \A i \in 1..n : f[i] = Past(f[i - 1], s[i])
  BY <1>2, <1>4, ReadsUpIs
<1>6. QED
  BY <1>1, <1>5, Zenon DEF n

\* f reads s up to its n-th character, and s and t are alike up to there.
ReadsOn(f, s, n) == f[0] = Beginning /\ \A i \in 1..n : f[i] = Past(f[i - 1], s[i])
AlikeUpTo(s, t, n) == \A i \in 1..n : s[i] = t[i]

\* Two texts that begin alike are read alike up to there.
LEMMA ReadAlike ==
  ASSUME NEW n \in Nat, NEW s, NEW t, NEW f, NEW g,
         ReadsOn(f, s, n), ReadsOn(g, t, n), AlikeUpTo(s, t, n)
  PROVE  f[n] = g[n]
<1> USE DEF ReadsOn, AlikeUpTo
<1> DEFINE Alike == {i \in 0..n : f[i] = g[i]}
<1>1. 0 \in Alike /\ n \in 0..n
  OBVIOUS
<1>2. ASSUME NEW i \in 1..n, i - 1 \in Alike PROVE i \in Alike
  <2>1. f[i - 1] = g[i - 1] /\ i \in 0..n
    BY <1>2
  <2>2. f[i] = g[i]
    BY <2>1
  <2>3. QED
    BY <2>1, <2>2
<1>3. n \in Alike
  <2> HIDE DEF Alike
  <2>1. QED
    BY <1>1, <1>2, ClimbUp
<1>4. QED
  BY <1>3

\* What was read of the text between two places.
Read(b, i) == Reading(SubSeq(text, b, i))

\* Nothing was read of nothing.
LEMMA ReadFirst ==
  ASSUME text \in Chars, NEW b \in Nat
  PROVE  Read(b, b - 1) = Beginning
<1> DEFINE s == SubSeq(text, b, b - 1)
<1>1. Len(s) = 0
  <2>1. s = <<>>
    BY SubSeqEmpty DEF Chars
  <2>2. QED
    BY <2>1
<1> HIDE DEF s
<1>2. Len(s) \in Nat
  BY <1>1
<1>3. PICK f : Reading(s) = f[Len(s)] /\ f[0] = Beginning
  BY <1>2, ReadingIs
<1>4. QED
  BY <1>1, <1>3 DEF Read, s

\* A text with one more character is read on from there.
LEMMA ReadOn ==
  ASSUME text \in Chars, NEW b \in {1, 2}, NEW i \in b..Len(text)
  PROVE  Read(b, i) = Past(Read(b, i - 1), text[i])
<1> DEFINE s == SubSeq(text, b, i)
           t == SubSeq(text, b, i - 1)
           n == i - b
<1>1. Len(text) \in Nat /\ n \in Nat /\ i \in Nat /\ b \in Nat
  BY DEF Chars
<1>2. /\ Len(s) = n + 1 /\ Len(t) = n
      /\ \A j \in 1..n + 1 : s[j] = text[b + j - 1]
      /\ \A j \in 1..n : t[j] = text[b + j - 1]
  <2>1. \A j \in b..i : text[j] \in Character
    BY <1>1, ElementOfSeq DEF Chars
  <2>2. \A j \in b..i - 1 : text[j] \in Character
    BY <1>1, <2>1
  <2>3. (IF b <= i THEN i - b + 1 ELSE 0) = n + 1 /\ (IF b <= i - 1 THEN i - 1 - b + 1 ELSE 0) = n
        /\ i - b + 1 = n + 1 /\ i - 1 - b + 1 = n
    BY <1>1
  <2>4. Len(s) = n + 1 /\ \A j \in 1..n + 1 : s[j] = text[b + j - 1]
    BY <1>1, <2>1, <2>3, SubSeqProperties
  <2>5. Len(t) = n /\ \A j \in 1..n : t[j] = text[b + j - 1]
    BY <1>1, <2>2, <2>3, SubSeqProperties
  <2>6. QED
    BY <2>4, <2>5
<1>3. s[n + 1] = text[i]
  BY <1>1, <1>2
<1>4. Read(b, i) = Reading(s) /\ Read(b, i - 1) = Reading(t)
  BY DEF Read
<1> HIDE DEF s, t, n
<1>5. PICK f : /\ Reading(s) = f[n + 1] /\ f[0] = Beginning
               /\ \A j \in 1..n + 1 : f[j] = Past(f[j - 1], s[j])
  <2>1. Len(s) \in Nat /\ Len(s) = n + 1
    BY <1>1, <1>2
  <2>2. \E h : /\ Reading(s) = h[Len(s)] /\ h[0] = Beginning
              /\ \A j \in 1..Len(s) : h[j] = Past(h[j - 1], s[j])
    BY <2>1, ReadingIs, Zenon
  <2>3. QED
    BY <2>1, <2>2, Zenon
<1>6. PICK g : /\ Reading(t) = g[n] /\ g[0] = Beginning
               /\ \A j \in 1..n : g[j] = Past(g[j - 1], t[j])
  <2>1. Len(t) \in Nat /\ Len(t) = n
    BY <1>1, <1>2
  <2>2. \E h : /\ Reading(t) = h[Len(t)] /\ h[0] = Beginning
              /\ \A j \in 1..Len(t) : h[j] = Past(h[j - 1], t[j])
    BY <2>1, ReadingIs, Zenon
  <2>3. QED
    BY <2>1, <2>2, Zenon
<1>7. f[n] = g[n]
  <2>1. \A j \in 1..n : j \in 1..n + 1
    BY <1>1
  <2>2. \A j \in 1..n : s[j] = t[j]
    BY <1>2, <2>1
  <2>3. \A j \in 1..n : f[j] = Past(f[j - 1], s[j])
    BY <1>5, <2>1
  <2>4. ReadsOn(f, s, n) /\ ReadsOn(g, t, n) /\ AlikeUpTo(s, t, n)
    BY <1>5, <1>6, <2>2, <2>3, Zenon DEF ReadsOn, AlikeUpTo
  <2>5. n \in Nat
    BY <1>1
  <2>6. QED
    BY <2>4, <2>5, ReadAlike, Zenon
<1>8. f[n + 1] = Past(f[n], s[n + 1])
  <2> DEFINE m == n + 1
  <2>1. m \in 1..n + 1 /\ m - 1 = n
    BY <1>1
  <2> HIDE DEF m
  <2>2. f[m] = Past(f[m - 1], s[m])
    BY <1>5, <2>1
  <2>3. QED
    BY <2>1, <2>2 DEF m
<1>9. QED
  BY <1>3, <1>4, <1>5, <1>6, <1>7, <1>8
-----------------------------------------------------------------------------
(***************************************************************************)
(* Marks and blanks that are read.                                         *)
(***************************************************************************)

\* What was read, outside of a string.
Outside(w) == [where |-> "outside", out |-> w]

\* The next character of the text is read.
LEMMA HearOn ==
  ASSUME text \in Chars, NEW b \in {1, 2}, NEW o \in b - 1..Len(text) - 1
  PROVE  Read(b, o + 1) = Past(Read(b, o), At(o)) /\ At(o) \in Character /\ o \in Nat
<1>1. Len(text) \in Nat /\ o \in Int /\ b \in Int
  BY DEF Chars
<1> DEFINE i == o + 1
<1>2. i \in b..Len(text) /\ i - 1 = o /\ i \in 1..Len(text) /\ o \in Nat
  BY <1>1
<1> HIDE DEF i
<1>3. Read(b, i) = Past(Read(b, i - 1), text[i])
  BY <1>2, ReadOn
<1>4. text[i] \in Character
  BY <1>2, ElementOfSeq DEF Chars
<1>5. QED
  BY <1>2, <1>3, <1>4 DEF i, At

\* A character that means something by itself, outside of a string.
LEMMA PastMark ==
  ASSUME NEW w \in Word, NEW c \in Letter \ {"w", "q"}
  PROVE  Past(Outside(w), c) = Outside(Join(w, Mark(c))) /\ Join(w, Mark(c)) \in Word
<1>1. c \in Letter /\ c \notin {"w", "q", Nul} /\ w \in Seq(Letter)
  BY DEF Letter, Word
<1>2. Append(w, c) = Join(w, Mark(c))
  BY <1>1, AppendIsConcat DEF Join, Mark
<1>3. Past(Outside(w), c) = Outside(Append(w, c))
  BY <1>1, Zenon DEF Past, Outside
<1>4. Join(w, Mark(c)) \in Word
  BY <1>1, LetterWord, JoinType
<1>5. QED
  BY <1>2, <1>3, <1>4

\* A blank, outside of a string.
LEMMA PastBlank ==
  ASSUME NEW w, NEW c \in {"w", Nul}
  PROVE  Past(Outside(w), c) = Outside(w)
BY DEF Past, Outside

\* A character of the text that means something by itself.
LEMMA HearMark ==
  ASSUME text \in Chars, NEW b \in {1, 2}, NEW o \in b - 1..Len(text) - 1,
         NEW w \in Word, Read(b, o) = Outside(w), At(o) \in Letter \ {"w", "q"}
  PROVE  Read(b, o + 1) = Outside(Join(w, Mark(At(o)))) /\ Join(w, Mark(At(o))) \in Word
BY HearOn, PastMark

\* Blanks are passed over.
LEMMA HearBlanks ==
  ASSUME text \in Chars, NEW b \in {1, 2}, NEW o \in b - 1..Len(text), NEW p \in o..Len(text),
         NEW w, Read(b, o) = Outside(w), \A i \in o..p - 1 : At(i) \in {"w", Nul}
  PROVE  Read(b, p) = Outside(w)
<1> DEFINE n == p - o
           Heard == {k \in 0..n : Read(b, o + k) = Outside(w)}
<1>1. Len(text) \in Nat /\ o \in Nat /\ p \in Nat /\ n \in Nat /\ o + 0 = o /\ o + n = p
      /\ b - 1 \in Nat /\ b - 1 <= o
  BY DEF Chars
<1>2. 0 \in Heard /\ n \in 0..n
  BY <1>1
<1>3. ASSUME NEW k \in 1..n, k - 1 \in Heard PROVE k \in Heard
  <2> DEFINE i == o + (k - 1)
  <2>1. i \in b - 1..Len(text) - 1 /\ i + 1 = o + k /\ i \in o..p - 1 /\ k \in 0..n
    BY <1>1
  <2>2. Read(b, i) = Outside(w)
    BY <1>3
  <2> HIDE DEF i
  <2>3. Read(b, i + 1) = Past(Read(b, i), At(i)) /\ At(i) \in {"w", Nul}
    BY <2>1, HearOn
  <2>4. Read(b, i + 1) = Outside(w)
    BY <2>2, <2>3, PastBlank
  <2>5. QED
    BY <2>1, <2>4
<1>4. n \in Heard
  <2> HIDE DEF Heard, n
  <2>1. QED
    BY <1>1, <1>2, <1>3, ClimbUp
<1>5. QED
  BY <1>1, <1>4

\* buffer_skip_whitespace skips nothing but blanks.
LEMMA HearSkip ==
  ASSUME text \in Chars, length \in Nat, length <= Len(text), NEW b \in {1, 2},
         NEW o \in b - 1..length, NEW w, Read(b, o) = Outside(w)
  PROVE  /\ buffer_skip_whitespace(o) \in o..length
         /\ Read(b, buffer_skip_whitespace(o)) = Outside(w)
         /\ o < length => buffer_skip_whitespace(o) < length
<1> DEFINE p == buffer_skip_whitespace(o)
           i == Passing({"w", Nul}, o)
<1>1. Len(text) \in Nat /\ o \in 0..length /\ o \in Nat /\ b - 1 \in Nat
  BY DEF Chars
<1>2. p \in o..length /\ (o < length => p < length)
  BY <1>1, SkipInside
<1>3. p = IF ~(o < length) THEN o ELSE IF i = length THEN i - 1 ELSE i
  BY DEF buffer_skip_whitespace, CanAccess
<1>4. i \in o..length /\ \A k \in o..i - 1 : At(k) \in {"w", Nul}
  BY <1>1, PassingInside, PassingPassed
<1> HIDE DEF p, i
<1>5. p <= i
  BY <1>1, <1>3, <1>4
<1>6. \A k \in o..p - 1 : At(k) \in {"w", Nul}
  <2>1. \A k \in o..p - 1 : k \in o..i - 1
    BY <1>1, <1>2, <1>4, <1>5
  <2>2. QED
    BY <1>4, <2>1
<1>7. o \in b - 1..Len(text) /\ p \in o..Len(text)
  BY <1>1, <1>2
<1>8. Read(b, p) = Outside(w)
  BY <1>6, <1>7, HearBlanks
<1>9. QED
  BY <1>2, <1>8 DEF p

\* A part of the text with one more character.
LEMMA SubSeqMore ==
  ASSUME text \in Chars, NEW o \in Nat, NEW i \in o..Len(text) - 1
  PROVE  /\ SubSeq(text, o + 1, i + 1) = Append(SubSeq(text, o + 1, i), At(i))
         /\ SubSeq(text, o + 1, i) \in Chars
<1> DEFINE s == SubSeq(text, o + 1, i)
           n == i + 1
           m == o + 1
<1>1. Len(text) \in Nat /\ i \in Nat /\ m \in Nat /\ n \in Nat /\ n \in m..Len(text) /\ n - 1 = i
      /\ m \in 1..Len(text) + 1
  BY DEF Chars
<1>2. \A j \in m..i : text[j] \in Character
  <2>1. \A j \in m..i : j \in 1..Len(text)
    BY <1>1
  <2>2. QED
    BY <2>1, ElementOfSeq DEF Chars
<1>3. s \in Chars
  BY <1>1, <1>2, SubSeqProperties DEF Chars
<1> HIDE DEF n, m
<1>4. SubSeq(text, m, n) = SubSeq(text, m, n - 1) \o <<text[n]>>
  BY <1>1, SubSeqRecursiveSecond DEF Chars
<1>5. n \in 1..Len(text)
  BY <1>1
<1>6. text[n] \in Character
  BY <1>5, ElementOfSeq DEF Chars
<1>7. s = SubSeq(text, m, n - 1)
  BY <1>1 DEF m
<1> HIDE DEF s
<1>8. Append(s, text[n]) = s \o <<text[n]>>
  BY <1>3, <1>6, AppendIsConcat DEF Chars
<1>9. SubSeq(text, m, n) = Append(s, text[n])
  BY <1>4, <1>7, <1>8, Zenon
<1>10. QED
  BY <1>3, <1>9 DEF s, m, n, At
-----------------------------------------------------------------------------
(***************************************************************************)
(* Numbers, and what C sees of a string.                                   *)
(***************************************************************************)

\* Letters that stand for themselves.
LEMMA HearPlain ==
  ASSUME text \in Chars, NEW b \in {1, 2}, NEW o \in b - 1..Len(text), NEW p \in o..Len(text),
         NEW w \in Word, Read(b, o) = Outside(w),
         \A i \in o..p - 1 : At(i) \in Letter \ {"w", "q"}
  PROVE  Read(b, p) = Outside(Join(w, SubSeq(text, o + 1, p)))
         /\ SubSeq(text, o + 1, p) \in Word
<1> DEFINE n == p - o
           S(k) == SubSeq(text, o + 1, o + k)
           Heard == {k \in 0..n : S(k) \in Word /\ Read(b, o + k) = Outside(Join(w, S(k)))}
<1>1. Len(text) \in Nat /\ o \in Nat /\ p \in Nat /\ n \in Nat /\ o + 0 = o /\ o + n = p
      /\ b - 1 \in Nat /\ b - 1 <= o
  BY DEF Chars
<1>2. 0 \in Heard /\ n \in 0..n
  <2>1. S(0) = Void
    BY <1>1, SubSeqEmpty DEF Void
  <2>2. Join(w, Void) = w /\ Void \in Word
    BY JoinEmpty, EmptyWord
  <2> HIDE DEF S
  <2>3. QED
    BY <1>1, <2>1, <2>2
<1>3. ASSUME NEW k \in 1..n, k - 1 \in Heard PROVE k \in Heard
  <2> DEFINE i == o + (k - 1)
  <2>1. i \in b - 1..Len(text) - 1 /\ i + 1 = o + k /\ i \in o..p - 1 /\ k \in 0..n
        /\ i \in o..Len(text) - 1
    BY <1>1
  <2>2. S(k - 1) \in Word /\ Read(b, i) = Outside(Join(w, S(k - 1)))
    BY <1>3
  <2> DEFINE s == S(k - 1)
             c == At(i)
  <2>3. S(k) = Append(s, c)
    BY <1>1, <2>1, SubSeqMore
  <2>4. c \in Letter \ {"w", "q"}
    BY <2>1
  <2> HIDE DEF i, S
  <2>5. Join(w, s) \in Word /\ s \in Word
    BY <2>2, JoinType
  <2> HIDE DEF s
  <2>6. Read(b, i + 1) = Past(Outside(Join(w, s)), c)
    BY <2>1, <2>2, HearOn DEF s
  <2> HIDE DEF c
  <2>7. Read(b, i + 1) = Outside(Join(Join(w, s), Mark(c)))
    BY <2>4, <2>5, <2>6, PastMark
  <2>8. Append(s, c) = Join(s, Mark(c)) /\ Mark(c) \in Word
    <3>1. s \in Seq(Letter) /\ c \in Letter
      BY <2>4, <2>5 DEF Word, Letter
    <3>2. QED
      BY <3>1, AppendIsConcat, LetterWord DEF Join, Mark
  <2>9. Join(Join(w, s), Mark(c)) = Join(w, Join(s, Mark(c))) /\ Join(s, Mark(c)) \in Word
    BY <2>5, <2>8, JoinAssociative, JoinType
  <2>10. S(k) \in Word /\ Read(b, o + k) = Outside(Join(w, S(k)))
    BY <2>1, <2>3, <2>7, <2>8, <2>9, Zenon
  <2>11. QED
    BY <2>1, <2>10
<1>4. n \in Heard
  <2> HIDE DEF Heard, n
  <2>1. QED
    BY <1>1, <1>2, <1>3, ClimbUp
<1>5. S(n) = SubSeq(text, o + 1, p)
  BY <1>1
<1> HIDE DEF S
<1>6. QED
  BY <1>1, <1>4, <1>5

\* strtod reads the number that the text shows.
LEMMA HearNumber ==
  ASSUME Placed, offset < length, NumberEnd(offset) # offset, NEW b \in {1, 2},
         NEW w \in Word, b - 1 <= offset, Read(b, offset) = Outside(w)
  PROVE  /\ SubSeq(text, offset + 1, NumberEnd(offset)) \in Word
         /\ NumberEnd(offset) \in offset..length
         /\ Read(b, NumberEnd(offset))
              = Outside(Join(w, SubSeq(text, offset + 1, NumberEnd(offset))))
<1> DEFINE e == NumberEnd(offset)
           s == SubSeq(text, offset + 1, e)
           n == e - offset
<1>1. length \in Nat /\ length <= Len(text) /\ Len(text) \in Nat /\ text \in Chars
      /\ offset \in 0..length /\ offset \in Nat
  BY DEF Placed, Chars
<1>2. s \in Word /\ Numeral(s)
  BY NumberRead
<1>3. e \in offset..length
  BY <1>1, NumberInside
<1> HIDE DEF e
<1>4. e <= Len(text) /\ n \in Nat /\ e \in offset..Len(text) /\ offset \in b - 1..Len(text)
  BY <1>1, <1>3
<1>5. \A i \in offset + 1..e : text[i] \in Character
  <2>1. \A i \in offset + 1..e : i \in 1..Len(text)
    BY <1>1, <1>4
  <2>2. QED
    BY <1>1, <2>1, ElementOfSeq DEF Chars
<1>6. Len(s) = n /\ \A i \in 1..n : s[i] = text[offset + i]
  <2> DEFINE m == offset + 1
  <2>1. m \in Int /\ e \in Int /\ (IF m <= e THEN e - m + 1 ELSE 0) = n /\ e - m + 1 = n
        /\ \A i \in 1..n : m + i - 1 = offset + i
    BY <1>1, <1>3
  <2> HIDE DEF m, n
  <2>2. /\ Len(SubSeq(text, m, e)) = n
        /\ \A i \in 1..n : SubSeq(text, m, e)[i] = text[m + i - 1]
    BY <1>5, <2>1, SubSeqProperties DEF m
  <2>3. QED
    BY <2>1, <2>2 DEF m
<1>7. ASSUME NEW i \in offset..e - 1 PROVE At(i) \in Letter \ {"w", "q"}
  <2> DEFINE k == i + 1 - offset
  <2>1. k \in 1..n /\ offset + k = i + 1
    BY <1>1, <1>3
  <2> HIDE DEF s
  <2>2. DOMAIN s = 1..Len(s)
    BY <1>2, LenProperties DEF Word
  <2>3. s[k] = "1" \/ s[k] = "-"
    BY <1>2, <1>6, <2>1, <2>2 DEF Numeral
  <2> HIDE DEF k
  <2>4. At(i) = s[k]
    BY <1>6, <2>1 DEF At
  <2>5. QED
    BY <2>3, <2>4, Letters
<1>8. Read(b, e) = Outside(Join(w, SubSeq(text, offset + 1, e)))
  BY <1>1, <1>4, <1>7, HearPlain
<1>9. QED
  BY <1>2, <1>3, <1>8 DEF e

\* What C sees of a string with one more character.
LEMMA SeenMore ==
  ASSUME NEW s \in Chars, NEW c \in Character
  PROVE  LET t == Append(s, c) IN
         /\ t \in Chars
         /\ s \in Word /\ c \in Letter => t \in Word /\ CString(t) = Append(CString(s), c)
         /\ s \in Word /\ c = Nul => t \notin Word /\ CString(t) = CString(s)
         /\ s \notin Word => t \notin Word /\ CString(t) = CString(s)
<1> DEFINE t == Append(s, c)
           n == Len(s)
<1>1. /\ t \in Chars /\ n \in Nat /\ Len(t) = n + 1 /\ t[n + 1] = c
      /\ \A i \in 1..n : t[i] = s[i]
  BY AppendProperties DEF Chars
<1>2. t \in Seq(Letter) => \A i \in 1..n + 1 : t[i] # Nul
  BY <1>1, ElementOfSeq DEF Letter
<1>3. ASSUME s \in Word, c \in Letter PROVE t \in Word /\ CString(t) = Append(CString(s), c)
  <2>1. t \in Word
    BY <1>3, AppendProperties DEF Word, Letter
  <2>2. CString(t) = t /\ CString(s) = s
    BY <1>3, <2>1, CStringWord
  <2>3. QED
    BY <2>1, <2>2
<1>4. ASSUME s \in Word, c = Nul PROVE t \notin Word /\ CString(t) = CString(s)
  <2>1. CString(s) = s /\ CString(Append(s, Nul)) = s
    BY <1>4, CStringWord
  <2>2. n + 1 \in 1..n + 1
    BY <1>1
  <2>3. t \notin Word
    BY <1>1, <1>2, <1>4, <2>2, Zenon DEF Word, Letter
  <2>4. QED
    BY <1>4, <2>1, <2>3
<1>5. ASSUME s \notin Word PROVE t \notin Word /\ CString(t) = CString(s)
  <2> DEFINE w == CString(s)
  <2>1. w \in Word /\ Len(w) \in 0..n /\ w = Cut(s, Len(w)) /\ (Len(w) < n => s[Len(w) + 1] = Nul)
    BY CStringEnd
  <2> HIDE DEF w, t, n
  <2>2. Len(w) # n
    <3>1. SUFFICES ASSUME Len(w) = n PROVE FALSE
      OBVIOUS
    <3>2. \A i \in 1..n : w[i] = s[i]
      <4>1. n \in 0..Len(s)
        BY <1>1 DEF n
      <4>2. \A i \in 1..n : Cut(s, n)[i] = s[i]
        BY <4>1, CutIs DEF Chars
      <4>3. QED
        BY <2>1, <3>1, <4>2, Zenon
    <3>3. w = s
      <4>1. w \in Seq(Letter) /\ s \in Seq(Character) /\ Len(w) = Len(s)
            /\ \A i \in 1..Len(w) : w[i] = s[i]
        BY <2>1, <3>1, <3>2 DEF Word, Letter, Chars, n
      <4>2. w \in Chars
        BY <2>1, WordIsChars
      <4>3. QED
        BY <4>1, <4>2, SameSequence DEF Chars
    <3>4. QED
      BY <1>5, <2>1, <3>3
  <2>3. /\ Len(w) < n /\ Len(w) <= Len(t) /\ Len(w) < Len(t) /\ Len(w) + 1 \in 1..n
        /\ Len(w) \in Nat /\ \A i \in 1..Len(w) : i \in 1..n
    BY <1>1, <2>1, <2>2
  <2>4. t[Len(w) + 1] = Nul
    BY <1>1, <2>1, <2>3
  <2>5. \A i \in 1..Len(w) : t[i] = w[i]
    <3>1. \A i \in 1..Len(w) : Cut(s, Len(w))[i] = s[i]
      BY <2>1, CutIs DEF Chars, n
    <3>2. QED
      BY <1>1, <2>1, <2>3, <3>1
  <2>6. CString(t) = w
    BY <1>1, <2>1, <2>3, <2>4, <2>5, CStringBefore
  <2>7. t \notin Word
    <3>1. Len(w) + 1 \in 1..n + 1
      BY <1>1, <2>3
    <3>2. QED
      BY <1>2, <2>4, <3>1, Zenon DEF Word, Letter
  <2>8. QED
    BY <2>6, <2>7 DEF w
<1>6. QED
  BY <1>1, <1>3, <1>4, <1>5

\* A word that is escaped, with one more letter.
LEMMA EscapedMore ==
  ASSUME NEW s \in Word, NEW c \in Letter
  PROVE  /\ Escaped(Append(s, c)) = Join(Escaped(s), EscapedPart(c))
         /\ Escaped(s) \in Word /\ EscapedPart(c) \in Word
<1> DEFINE t == Append(s, c)
           n == Len(s)
           p == [i \in 1..Len(s) |-> EscapedPart(s[i])]
           q == [i \in 1..Len(t) |-> EscapedPart(t[i])]
<1>1. t \in Word /\ n \in Nat /\ Len(t) = n + 1 /\ t[n + 1] = c /\ \A i \in 1..n : t[i] = s[i]
  BY AppendProperties DEF Word, Letter
<1>2. p \in Seq(Word) /\ Escaped(s) = FlattenSeq(p) /\ Escaped(s) \in Word
  BY EscapedParts
<1>3. q \in Seq(Word) /\ Escaped(t) = FlattenSeq(q)
  BY <1>1, EscapedParts
<1>4. EscapedPart(c) \in Word
  BY EscapedPartType
<1>5. /\ Len(p) = n /\ \A i \in 1..n : p[i] = EscapedPart(s[i])
      /\ Len(q) = n + 1 /\ \A i \in 1..n + 1 : q[i] = EscapedPart(t[i])
  <2> HIDE DEF t
  <2>1. QED
    BY <1>1
<1> HIDE DEF p, q, t
<1> DEFINE x == EscapedPart(c)
           r == Append(p, x)
<1>6. r \in Seq(Word) /\ Len(r) = n + 1 /\ r[n + 1] = x /\ \A i \in 1..n : r[i] = p[i]
  BY <1>1, <1>2, <1>4, <1>5, AppendProperties
<1> HIDE DEF r, x, n
<1>7. ASSUME NEW i \in 1..n + 1 PROVE q[i] = r[i]
  <2>1. CASE i = n + 1
    BY <1>1, <1>5, <1>6, <2>1 DEF x
  <2>2. CASE i # n + 1
    <3>1. i \in 1..n
      BY <1>1, <2>2
    <3>2. QED
      BY <1>1, <1>5, <1>6, <3>1
  <2>3. QED
    BY <2>1, <2>2
<1>8. q = r
  BY <1>3, <1>5, <1>6, <1>7, SameSequence
<1>9. FlattenSeq(Append(p, x)) = FlattenSeq(p) \o x
  <2>1. p \in Seq(Seq(Letter)) /\ x \in Seq(Letter)
    BY <1>2, <1>4 DEF Word, Letter, x
  <2>2. QED
    BY <2>1, FlattenAppend
<1>10. QED
  BY <1>2, <1>3, <1>4, <1>8, <1>9, Zenon DEF t, r, x, Join
-----------------------------------------------------------------------------
(***************************************************************************)
(* Strings, as they are read.                                              *)
(***************************************************************************)

\* A place in a text, and what was read up to there.
Heard(where, w) == [where |-> where, out |-> w]

\* One letter is escaped to one part.
LEMMA EscapedOne == \A c \in Letter : Escaped(<<c>>) = EscapedPart(c)
<1>1. SUFFICES ASSUME NEW c \in Letter PROVE Escaped(<<c>>) = EscapedPart(c)
  OBVIOUS
<1>2. Void \in Word /\ Append(Void, c) = <<c>>
  BY EmptyWord DEF Void
<1>3. /\ Escaped(Append(Void, c)) = Join(Escaped(Void), EscapedPart(c))
      /\ EscapedPart(c) \in Word
  BY <1>2, EscapedMore
<1>4. Escaped(Void) = Void
  BY DEF Escaped, Void, FlattenSeq
<1>5. Join(Void, EscapedPart(c)) = EscapedPart(c)
  BY <1>3, JoinEmpty
<1>6. QED
  BY <1>2, <1>3, <1>4, <1>5, Zenon

\* How the characters of a string are read.
LEMMA PastSlash ==
  ASSUME NEW w
  PROVE  /\ Past(Heard("inside", w), "b") = Heard("escape", w)
         /\ Past(Heard("hidden", w), "b") = Heard("skip", w)
BY DEF Past, Heard, Nul

\* A character of a string whose end is not seen any more.
LEMMA PastHidden ==
  ASSUME NEW w, NEW c
  PROVE  /\ Past(Heard("inside", w), Nul) = Heard("hidden", w)
         /\ c \notin {"q", "b"} => Past(Heard("hidden", w), c) = Heard("hidden", w)
         /\ Past(Heard("skip", w), c) = Heard("hidden", w)
BY DEF Past, Heard, Nul

\* A character behind a backslash.
LEMMA PastEscape ==
  ASSUME NEW w, NEW c
  PROVE  Past(Heard("escape", w), c) = Heard("inside", Join(w, <<"b", c>>))
<1> DEFINE r == Heard("escape", w)
<1>1. r.where = "escape" /\ r.out = w
  BY DEF Heard
<1> HIDE DEF r
<1>2. Past(r, c) = [where |-> "inside", out |-> r.out \o <<"b", c>>]
  BY <1>1, Zenon DEF Past
<1>3. QED
  BY <1>1, <1>2, Zenon DEF r, Heard, Join

\* A character of a string that is no quotation mark and no backslash.
LEMMA PastInner ==
  ASSUME NEW w, NEW c \in Letter \ {"q", "b"}
  PROVE  Past(Heard("inside", w), c) = Heard("inside", Join(w, EscapedPart(c)))
<1> DEFINE r == Heard("inside", w)
<1>1. r.where = "inside" /\ r.out = w /\ c \in Letter /\ c # "q" /\ c # "b" /\ c # Nul
      /\ c \notin {"q", "b", Nul}
  BY DEF Heard, Letter
<1>2. \A x : [r EXCEPT !.out = x] = Heard("inside", x)
  BY DEF Heard
<1> HIDE DEF r
<1>3. Past(r, c) = [r EXCEPT !.out = @ \o Escaped(<<c>>)]
  BY <1>1, Zenon DEF Past
<1>4. [r EXCEPT !.out = @ \o Escaped(<<c>>)] = Heard("inside", r.out \o Escaped(<<c>>))
  <2> DEFINE x == r.out \o Escaped(<<c>>)
  <2>1. [r EXCEPT !.out = x] = Heard("inside", x)
    BY <1>2
  <2>2. QED
    BY <2>1, Zenon
<1>5. Escaped(<<c>>) = EscapedPart(c)
  BY <1>1, EscapedOne
<1>6. QED
  BY <1>1, <1>3, <1>4, <1>5, Zenon DEF r, Join

\* The quotation mark at the end of a string.
LEMMA PastQuote ==
  ASSUME NEW w \in Word, NEW where \in {"inside", "hidden"}
  PROVE  Past(Heard(where, w), "q") = Outside(Join(w, Mark("q")))
<1> DEFINE r == Heard(where, w)
<1>1. r.where = where /\ r.out = w /\ where # "outside" /\ "q" # "b" /\ "q" # Nul
  BY DEF Heard, Nul
<1> HIDE DEF r
<1>2. Past(r, "q") = [where |-> "outside", out |-> Append(r.out, "q")]
  <2>1. CASE where = "inside"
    BY <1>1, <2>1, Zenon DEF Past
  <2>2. CASE where = "hidden"
    BY <1>1, <2>2, Zenon DEF Past
  <2>3. QED
    BY <2>1, <2>2
<1>3. Append(w, "q") = Join(w, Mark("q"))
  <2>1. "q" \in Letter /\ w \in Seq(Letter)
    BY Letters DEF Word, Letter
  <2>2. QED
    BY <2>1, AppendIsConcat DEF Join, Mark
<1>4. QED
  BY <1>1, <1>2, <1>3, Zenon DEF r, Outside

\* Inside of a string of which s was read, with or without a backslash behind.
Within(u, s, slash) ==
  Heard(IF s \in Word THEN IF slash THEN "escape" ELSE "inside"
        ELSE IF slash THEN "skip" ELSE "hidden",
        Join(u, Escaped(CString(s))))

\* A backslash in a string.
LEMMA WithinSlash ==
  ASSUME NEW u, NEW s
  PROVE  Past(Within(u, s, FALSE), "b") = Within(u, s, TRUE)
BY PastSlash, Zenon DEF Within

\* One more character of the string.
LEMMA WithinMore ==
  ASSUME NEW u \in Word, NEW s \in Chars, NEW c \in Character, NEW x \in Character,
         NEW slash \in BOOLEAN,
         slash => x \in Letter /\ <<"b", c>> = EscapedPart(x),
         ~slash => x = c /\ c \notin {"q", "b"}
  PROVE  Past(Within(u, s, slash), c) = Within(u, Append(s, x), FALSE)
<1> DEFINE t == Append(s, x)
           w == Join(u, Escaped(CString(s)))
<1>1. /\ s \in Word /\ x \in Letter => t \in Word /\ CString(t) = Append(CString(s), x)
      /\ s \in Word /\ x = Nul => t \notin Word /\ CString(t) = CString(s)
      /\ s \notin Word => t \notin Word /\ CString(t) = CString(s)
  BY SeenMore
<1>2. CString(s) \in Word
  BY CStringLetters
<1> HIDE DEF t
<1>3. CASE s \notin Word
  <2>1. Within(u, s, slash) = Heard(IF slash THEN "skip" ELSE "hidden", w)
    BY <1>3, Zenon DEF Within
  <2>2. Within(u, t, FALSE) = Heard("hidden", w)
    BY <1>1, <1>3, Zenon DEF Within
  <2>3. Past(Within(u, s, slash), c) = Heard("hidden", w)
    BY <2>1, PastHidden, Zenon
  <2>4. QED
    BY <2>2, <2>3, Zenon DEF t
<1>4. CASE s \in Word /\ x = Nul
  <2>1. ~slash /\ c = Nul
    BY <1>4 DEF Letter
  <2>2. Within(u, s, slash) = Heard("inside", w)
    BY <1>4, <2>1, Zenon DEF Within
  <2>3. Within(u, t, FALSE) = Heard("hidden", w)
    BY <1>1, <1>4, Zenon DEF Within
  <2>4. QED
    BY <2>1, <2>2, <2>3, PastHidden, Zenon DEF t
<1>5. CASE s \in Word /\ x # Nul
  <2>1. x \in Letter /\ t \in Word /\ CString(t) = Append(CString(s), x)
    BY <1>1, <1>5 DEF Letter
  <2>2. /\ Escaped(Append(CString(s), x)) = Join(Escaped(CString(s)), EscapedPart(x))
        /\ Escaped(CString(s)) \in Word /\ EscapedPart(x) \in Word
    BY <1>2, <2>1, EscapedMore
  <2>3. Join(w, EscapedPart(x)) = Join(u, Join(Escaped(CString(s)), EscapedPart(x)))
    BY <2>2, JoinAssociative
  <2>4. Within(u, t, FALSE) = Heard("inside", Join(w, EscapedPart(x)))
    BY <2>1, <2>2, <2>3, Zenon DEF Within
  <2>5. CASE slash
    <3>1. Within(u, s, slash) = Heard("escape", w)
      BY <1>5, <2>5, Zenon DEF Within
    <3>2. Past(Heard("escape", w), c) = Heard("inside", Join(w, <<"b", c>>))
      BY PastEscape
    <3>3. QED
      BY <2>4, <2>5, <3>1, <3>2, Zenon DEF t
  <2>6. CASE ~slash
    <3>1. Within(u, s, slash) = Heard("inside", w)
      BY <1>5, <2>6, Zenon DEF Within
    <3>2. Past(Heard("inside", w), c) = Heard("inside", Join(w, EscapedPart(c)))
      BY <2>1, <2>6, PastInner
    <3>3. QED
      BY <2>4, <2>6, <3>1, <3>2, Zenon DEF t
  <2>7. QED
    BY <2>5, <2>6
<1>6. QED
  BY <1>3, <1>4, <1>5

\* The contents of a string up to one more of its characters.
LEMMA ContentsMore ==
  ASSUME length \in Nat, text \in Chars, length <= Len(text),
         NEW o \in 0..length, NEW e \in o..length,
         \A i \in Escapes(o) \cap o..e - 1 : At(i + 1) \in DOMAIN Unescape,
         NEW i \in o..e - 1
  PROVE  /\ Contents(o, i) \in Chars /\ Contents(o, i + 1) \in Chars
         /\ i \in Escapes(o) => Contents(o, i + 1) = Contents(o, i)
         /\ i \notin Escapes(o) =>
              Contents(o, i + 1)
                = Append(Contents(o, i), IF i - 1 \in Escapes(o) THEN Unescape[At(i)] ELSE At(i))
<1> DEFINE n == i - o
           s == Contents(o, i)
           t == Contents(o, i + 1)
           p == [k \in 1..n |-> ContentsPart(o, k)]
           q == [k \in 1..n + 1 |-> ContentsPart(o, k)]
           x == ContentsPart(o, n + 1)
<1>1. /\ Len(text) \in Nat /\ n \in Nat /\ i \in o..length /\ i + 1 \in o..length
      /\ i + 1 - o = n + 1 /\ o + (n + 1) - 1 = i /\ o + (n + 1) - 2 = i - 1
      /\ \A j \in o..i - 1 : j \in o..e - 1
      /\ \A j \in o..(i + 1) - 1 : j \in o..e - 1
  BY DEF Chars
<1>2. p \in Seq(Chars) /\ s = FlattenSeq(p)
  <2>1. \A j \in Escapes(o) \cap o..i - 1 : At(j + 1) \in DOMAIN Unescape
    BY <1>1
  <2>2. /\ [k \in 1..i - o |-> ContentsPart(o, k)] \in Seq(Seq(Character))
        /\ Contents(o, i) = FlattenSeq([k \in 1..i - o |-> ContentsPart(o, k)])
    BY <1>1, <2>1, ContentsParts
  <2>3. QED
    BY <2>2 DEF Chars
<1>3. q \in Seq(Chars) /\ t = FlattenSeq(q)
  <2> DEFINE f == i + 1
  <2>1. f \in o..length /\ f - o = n + 1 /\ \A j \in o..f - 1 : j \in o..e - 1
    BY <1>1
  <2> HIDE DEF f
  <2>2. \A j \in Escapes(o) \cap o..f - 1 : At(j + 1) \in DOMAIN Unescape
    BY <2>1
  <2>3. /\ [k \in 1..f - o |-> ContentsPart(o, k)] \in Seq(Seq(Character))
        /\ Contents(o, f) = FlattenSeq([k \in 1..f - o |-> ContentsPart(o, k)])
    BY <1>1, <2>1, <2>2, ContentsParts
  <2>4. QED
    BY <2>1, <2>3 DEF f, Chars
<1>4. /\ Len(p) = n /\ \A k \in 1..n : p[k] = ContentsPart(o, k)
      /\ Len(q) = n + 1 /\ \A k \in 1..n + 1 : q[k] = ContentsPart(o, k)
  BY <1>1
<1>5. x = IF i \in Escapes(o) THEN <<>>
          ELSE <<IF i - 1 \in Escapes(o) THEN Unescape[At(i)] ELSE At(i)>>
  BY <1>1 DEF ContentsPart
<1>6. s \in Chars /\ t \in Chars
  <2> HIDE DEF s, t, p, q
  <2>1. QED
    BY <1>2, <1>3, FlattenType DEF Chars
<1> HIDE DEF p, q, x, s, t, n
<1>7. x \in Chars
  <2>1. n + 1 \in 1..Len(q) /\ q[n + 1] = x
    BY <1>1, <1>4 DEF x
  <2>2. QED
    BY <1>3, <2>1, ElementOfSeq
<1> DEFINE r == Append(p, x)
<1>8. r \in Seq(Chars) /\ Len(r) = n + 1 /\ r[n + 1] = x /\ \A k \in 1..n : r[k] = p[k]
  BY <1>1, <1>2, <1>4, <1>7, AppendProperties
<1> HIDE DEF r
<1>9. q = r
  <2>1. ASSUME NEW k \in 1..n + 1 PROVE q[k] = r[k]
    <3>1. CASE k = n + 1
      BY <1>1, <1>4, <1>8, <3>1 DEF x
    <3>2. CASE k # n + 1
      <4>1. k \in 1..n
        BY <1>1, <3>2
      <4>2. QED
        BY <1>1, <1>4, <1>8, <4>1
    <3>3. QED
      BY <3>1, <3>2
  <2>2. QED
    BY <1>3, <1>4, <1>8, <2>1, SameSequence
<1>10. FlattenSeq(Append(p, x)) = FlattenSeq(p) \o x
  <2>1. p \in Seq(Seq(Character)) /\ x \in Seq(Character)
    BY <1>2, <1>7 DEF Chars
  <2>2. QED
    BY <2>1, FlattenAppend
<1>11. t = s \o x
  BY <1>2, <1>3, <1>9, <1>10, Zenon DEF r
<1>12. ASSUME i \in Escapes(o) PROVE t = s
  <2>1. x = <<>>
    BY <1>5, <1>12
  <2>2. s \o <<>> = s
    BY <1>6, ConcatEmptySeq DEF Chars
  <2>3. QED
    BY <1>11, <2>1, <2>2, Zenon
<1>13. ASSUME i \notin Escapes(o)
       PROVE  t = Append(s, IF i - 1 \in Escapes(o) THEN Unescape[At(i)] ELSE At(i))
  <2> DEFINE c == IF i - 1 \in Escapes(o) THEN Unescape[At(i)] ELSE At(i)
  <2>1. x = <<c>>
    BY <1>5, <1>13
  <2> HIDE DEF c
  <2>2. c \in Character
    <3>1. Len(<<c>>) = 1 /\ <<c>>[1] = c
      OBVIOUS
    <3>2. <<c>> \in Seq(Character) /\ 1 \in 1..Len(<<c>>)
      BY <1>7, <2>1, <3>1 DEF Chars
    <3>3. <<c>>[1] \in Character
      BY <3>2, ElementOfSeq
    <3>4. QED
      BY <3>1, <3>3
  <2>3. Append(s, c) = s \o <<c>>
    BY <1>6, <2>2, AppendIsConcat DEF Chars
  <2>4. t = Append(s, c)
    BY <1>11, <2>1, <2>3, Zenon
  <2>5. QED
    BY <2>4 DEF c
<1>14. QED
  BY <1>6, <1>12, <1>13 DEF s, t

\* A string ends at the first quotation mark that is not escaped.
LEMMA StringEnds ==
  ASSUME length \in Nat, NEW o \in 0..length, StringEnd(o) # length
  PROVE  /\ StringEnd(o) \in o..length - 1 /\ At(StringEnd(o)) = "q"
         /\ StringEnd(o) - 1 \notin Escapes(o)
         /\ \A i \in o..StringEnd(o) - 1 : At(i) = "q" => i - 1 \in Escapes(o)
<1> DEFINE Stops == {i \in o..length :
                       i < length => At(i) = "q" /\ i - 1 \notin Escapes(o)}
           e == Min(Stops)
<1>1. Stops \subseteq Nat /\ length \in Stops
  OBVIOUS
<1>2. e \in Stops /\ \A j \in Stops : e <= j
  <2> HIDE DEF Stops
  <2>1. QED
    BY <1>1, MinIsLeast
<1>3. StringEnd(o) = e
  BY DEF StringEnd
<1> HIDE DEF e
<1>4. e \in o..length - 1 /\ At(e) = "q" /\ e - 1 \notin Escapes(o)
  BY <1>2, <1>3
<1>5. ASSUME NEW i \in o..e - 1, At(i) = "q" PROVE i - 1 \in Escapes(o)
  <2>1. i \in o..length /\ ~(e <= i)
    BY <1>4
  <2>2. i \notin Stops
    BY <1>2, <2>1
  <2>3. QED
    BY <1>5, <2>1, <2>2
<1>6. QED
  BY <1>3, <1>4, <1>5

\* The character at i begins an escape.
Slash(o, i) == IF i \in Escapes(o) THEN TRUE ELSE FALSE

\* One character of a string is read.
LEMMA HearCharacter ==
  ASSUME length \in Nat, text \in Chars, length <= Len(text), NEW b \in {1, 2},
         NEW o \in 0..length, NEW e \in o..length, b - 1 <= o,
         \A i \in Escapes(o) \cap o..e - 1 : At(i + 1) \in DOMAIN Unescape,
         \A i \in o..e - 1 : At(i) = "q" => i - 1 \in Escapes(o),
         NEW u \in Word, NEW i \in o..e - 1,
         Read(b, i) = Within(u, Contents(o, i), Slash(o, i - 1))
  PROVE  Read(b, i + 1) = Within(u, Contents(o, i + 1), Slash(o, i))
<1> DEFINE s == Contents(o, i)
           t == Contents(o, i + 1)
           c == At(i)
           x == IF i - 1 \in Escapes(o) THEN Unescape[At(i)] ELSE At(i)
<1>1. /\ s \in Chars /\ t \in Chars
      /\ i \in Escapes(o) => t = s
      /\ i \notin Escapes(o) => t = Append(s, x)
  BY ContentsMore
<1>2. i \in b - 1..Len(text) - 1 /\ i \in o..length - 1 /\ i \in Nat
  BY DEF Chars
<1>3. Read(b, i + 1) = Past(Read(b, i), c) /\ c \in Character
  BY <1>2, HearOn
<1>4. /\ \A j \in Escapes(o) : At(j) = "b" /\ j \in o..length - 1
      /\ c = "b" => (i \in Escapes(o) <=> i - 1 \notin Escapes(o))
  BY <1>2, EscapesExist
<1>5. CASE i \in Escapes(o)
  <2>1. c = "b"
    BY <1>4, <1>5
  <2>2. i - 1 \notin Escapes(o)
    BY <1>4, <1>5, <2>1
  <2>3. Read(b, i) = Within(u, s, FALSE)
    BY <2>2 DEF Slash
  <2> HIDE DEF s, t, c, x
  <2>4. Read(b, i + 1) = Within(u, s, TRUE)
    BY <1>3, <2>1, <2>3, WithinSlash
  <2>5. t = s
    BY <1>1, <1>5
  <2>6. Read(b, i + 1) = Within(u, t, TRUE)
    BY <2>4, <2>5
  <2>7. Slash(o, i) = TRUE
    BY <1>5 DEF Slash
  <2>8. QED
    BY <2>6, <2>7 DEF t
<1>6. CASE i \notin Escapes(o)
  <2>1. t = Append(s, x) /\ Slash(o, i) = FALSE
    BY <1>1, <1>6 DEF Slash
  <2>2. CASE i - 1 \in Escapes(o)
    <3>1. c \in DOMAIN Unescape
      <4>1. i - 1 \in o..length - 1
        BY <1>4, <2>2
      <4>2. i - 1 \in Escapes(o) \cap o..e - 1 /\ (i - 1) + 1 = i
        BY <2>2, <4>1
      <4>3. QED
        BY <4>2
    <3>2. x = Unescape[c] /\ Slash(o, i - 1) = TRUE
      BY <2>2 DEF Slash
    <3>3. Read(b, i) = Within(u, s, TRUE)
      BY <3>2
    <3> HIDE DEF s, t, c, x
    <3>4. x \in Letter /\ x \in Character /\ <<"b", c>> = EscapedPart(x)
      BY <3>1, <3>2, Letters DEF Unescape, EscapedPart, Letter
    <3>5. Past(Within(u, s, TRUE), c) = Within(u, Append(s, x), FALSE)
      BY <1>1, <1>3, <3>4, WithinMore
    <3>6. Read(b, i + 1) = Within(u, t, FALSE)
      BY <1>3, <2>1, <3>3, <3>5
    <3>7. QED
      BY <2>1, <3>6 DEF t
  <2>3. CASE i - 1 \notin Escapes(o)
    <3>1. c \notin {"q", "b"}
      BY <1>4, <1>6, <2>3
    <3>2. x = c /\ Slash(o, i - 1) = FALSE
      BY <2>3 DEF Slash
    <3>3. Read(b, i) = Within(u, s, FALSE)
      BY <3>2
    <3> HIDE DEF s, t, c, x
    <3>4. Past(Within(u, s, FALSE), c) = Within(u, Append(s, x), FALSE)
      BY <1>1, <1>3, <3>1, <3>2, WithinMore
    <3>5. Read(b, i + 1) = Within(u, t, FALSE)
      BY <1>3, <2>1, <3>3, <3>4
    <3>6. QED
      BY <2>1, <3>5 DEF t
  <2>4. QED
    BY <2>2, <2>3
<1>7. QED
  BY <1>5, <1>6

\* A string is read from its opening quotation mark to the closing one.
LEMMA HearString ==
  ASSUME length \in Nat, text \in Chars, length <= Len(text), NEW b \in {1, 2},
         NEW p \in Nat, NEW o, o = p + 1, o \in 0..length, b - 1 <= p,
         NEW w \in Word, Read(b, p) = Outside(w), At(p) = "q",
         NEW e, e = StringEnd(o), e # length,
         \A i \in Escapes(o) \cap o..e - 1 : At(i + 1) \in DOMAIN Unescape
  PROVE  /\ e \in o..length - 1 /\ CString(Contents(o, e)) \in Word
         /\ Read(b, e + 1) = Outside(Join(w, Quoted(CString(Contents(o, e)))))
<1> DEFINE n == e - o
           u == Join(w, Mark("q"))
           Good == {k \in 0..n :
                      Read(b, o + k) = Within(u, Contents(o, o + k), Slash(o, o + k - 1))}
           s == Contents(o, e)
           x == CString(s)
<1>1. /\ e \in o..length - 1 /\ At(e) = "q" /\ e - 1 \notin Escapes(o)
      /\ \A i \in o..e - 1 : At(i) = "q" => i - 1 \in Escapes(o)
  BY StringEnds
<1>2. /\ n \in Nat /\ e \in o..length /\ o + n = e /\ o + 0 = o /\ b - 1 <= o
      /\ p \in b - 1..Len(text) - 1 /\ e \in b - 1..Len(text) - 1
  BY <1>1 DEF Chars
<1>3. u \in Word /\ Mark("q") \in Word
  BY LetterWord, Letters, JoinType
<1>4. Read(b, o) = Heard("inside", u)
  <2>1. Read(b, p + 1) = Past(Read(b, p), "q")
    BY <1>2, HearOn
  <2>2. Past(Outside(w), "q") = Heard("inside", Append(w, "q"))
    BY DEF Past, Outside, Heard, Nul
  <2>3. Append(w, "q") = u
    <3>1. "q" \in Letter /\ w \in Seq(Letter)
      BY Letters DEF Word, Letter
    <3>2. QED
      BY <3>1, AppendIsConcat DEF Join, Mark
  <2>4. QED
    BY <2>1, <2>2, <2>3, Zenon
<1>5. 0 \in Good
  <2>1. Contents(o, o) = Void
    BY DEF Contents, FlattenSeq, Void
  <2>2. Void \in Word /\ CString(Void) = Void /\ Escaped(Void) = Void
    <3>1. Void \in Word
      BY EmptyWord
    <3>2. QED
      BY <3>1, CStringWord DEF Escaped, FlattenSeq, Void
  <2>3. Slash(o, o - 1) = FALSE
    BY EscapesExist DEF Slash
  <2>4. Join(u, Void) = u
    BY <1>3, JoinEmpty
  <2>5. Within(u, Void, FALSE) = Heard("inside", u)
    BY <2>2, <2>4, Zenon DEF Within
  <2> HIDE DEF u
  <2>6. Read(b, o) = Within(u, Contents(o, o), Slash(o, o - 1))
    BY <1>4, <2>1, <2>3, <2>5
  <2>7. QED
    BY <1>2, <2>6
<1> HIDE DEF u
<1>6. ASSUME NEW k \in 1..n, k - 1 \in Good PROVE k \in Good
  <2> DEFINE i == o + (k - 1)
  <2>1. i \in o..e - 1 /\ i + 1 = o + k /\ o + k - 1 = i /\ k \in 0..n
    BY <1>2
  <2>2. Read(b, i) = Within(u, Contents(o, i), Slash(o, i - 1))
    BY <1>6
  <2> HIDE DEF i, n, s, x
  <2>3. \A j \in Escapes(o) \cap o..e - 1 : At(j + 1) \in DOMAIN Unescape
    OBVIOUS
  <2>4. \A j \in o..e - 1 : At(j) = "q" => j - 1 \in Escapes(o)
    BY <1>1
  <2>5. e \in o..length /\ b - 1 <= o /\ u \in Word /\ i \in o..e - 1
    BY <1>2, <1>3, <2>1
  <2>6. Read(b, i + 1) = Within(u, Contents(o, i + 1), Slash(o, i))
    BY <2>2, <2>3, <2>4, <2>5, HearCharacter, Zenon
  <2>7. QED
    BY <2>1, <2>6
<1>7. n \in Good
  <2> HIDE DEF Good, n
  <2>1. n \in 0..n
    BY <1>2
  <2>2. QED
    BY <1>2, <1>5, <1>6, <2>1, ClimbUp
<1>8. Read(b, e) = Within(u, s, FALSE)
  <2>1. Read(b, o + n) = Within(u, Contents(o, o + n), Slash(o, o + n - 1))
    BY <1>7
  <2> HIDE DEF n
  <2>2. Read(b, e) = Within(u, Contents(o, e), Slash(o, e - 1))
    BY <1>2, <2>1
  <2>3. Slash(o, e - 1) = FALSE
    BY <1>1 DEF Slash
  <2>4. QED
    BY <2>2, <2>3
<1>9. s \in Chars
  BY <1>2, ContentsType
<1> HIDE DEF s, n
<1>10. x \in Word
  BY <1>9, CStringLetters
<1> HIDE DEF x
<1>11. Escaped(x) \in Word
  BY <1>10, EscapedParts
<1>12. PICK where \in {"inside", "hidden"} : Within(u, s, FALSE) = Heard(where, Join(u, Escaped(x)))
  BY Zenon DEF Within, x
<1>13. Read(b, e + 1) = Outside(Join(Join(u, Escaped(x)), Mark("q")))
  <2>1. Join(u, Escaped(x)) \in Word
    BY <1>3, <1>11, JoinType
  <2>2. Past(Heard(where, Join(u, Escaped(x))), "q") = Outside(Join(Join(u, Escaped(x)), Mark("q")))
    BY <2>1, PastQuote
  <2>3. Read(b, e + 1) = Past(Read(b, e), "q")
    BY <1>1, <1>2, HearOn
  <2>4. QED
    BY <1>8, <1>12, <2>2, <2>3, Zenon
<1>14. Join(Join(u, Escaped(x)), Mark("q")) = Join(w, Quoted(x))
  <2>1. Quoted(x) = Join(Mark("q"), Join(Escaped(x), Mark("q")))
    BY <1>10, QuotedType
  <2>2. Join(Escaped(x), Mark("q")) \in Word
    BY <1>3, <1>11, JoinType
  <2>3. Join(w, Join(Mark("q"), Join(Escaped(x), Mark("q"))))
          = Join(Join(w, Mark("q")), Join(Escaped(x), Mark("q")))
    BY <1>3, <2>2, JoinAssociative
  <2>4. Join(u, Join(Escaped(x), Mark("q"))) = Join(Join(u, Escaped(x)), Mark("q"))
    BY <1>3, <1>11, JoinAssociative
  <2>5. QED
    BY <2>1, <2>3, <2>4, Zenon DEF u
<1>15. QED
  BY <1>1, <1>10, <1>13, <1>14 DEF x, s
-----------------------------------------------------------------------------
(***************************************************************************)
(* The texts of values without blanks, as the parser takes them.           *)
(***************************************************************************)

\* The text without blanks of what stands between two commas: a value, or a
\* member with its name, in a container that ends with closer.
Naming(name) == Join(Quoted(name), Mark(":"))
Label(closer, name) == IF closer = "]" THEN Void ELSE Naming(name)
KidText(kid, closer, T) == Join(Label(closer, kid.name), T[kid.node])
Part(kid, closer, T) == Join(KidText(kid, closer, T), Mark(","))
PartsList(kids, closer, T) == [i \in 1..Len(kids) |-> Part(kids[i], closer, T)]
Begun(kids, closer, T) == FlattenSeq(PartsList(kids, closer, T))
LeftOf(closer) == IF closer = "]" THEN "[" ELSE "{"

\* more is kids with kid behind the last of them.
IsMore(more, kids, kid) == more = Further(kids, kid)

\* T is the text of each of the values of V.
TextsIn(T, V) == \A v \in V : T[v] \in Word

\* What is before a value is a word.
LEMMA LabelType ==
  ASSUME NEW closer, NEW name \in Word
  PROVE  Label(closer, name) \in Word /\ Naming(name) \in Word
<1>1. Naming(name) \in Word
  BY QuotedType, MarkWords, JoinType DEF Naming
<1>2. QED
  BY <1>1, EmptyWord DEF Label

\* The text of a child is a word.
LEMMA KidTextType ==
  ASSUME NEW closer, NEW T, NEW kid, kid.name \in Word, T[kid.node] \in Word
  PROVE  KidText(kid, closer, T) \in Word /\ Part(kid, closer, T) \in Word
<1>1. KidText(kid, closer, T) \in Word
  BY LabelType, JoinType DEF KidText
<1>2. QED
  BY <1>1, MarkWords, JoinType DEF Part

\* The texts of children are words.
LEMMA PartsType ==
  ASSUME NEW V, NEW kids \in Seq(Named(V)), NEW closer, NEW T, \A v \in V : T[v] \in Word
  PROVE  /\ PartsList(kids, closer, T) \in Seq(Word)
         /\ Len(PartsList(kids, closer, T)) = Len(kids)
         /\ \A i \in 1..Len(kids) : PartsList(kids, closer, T)[i] = Part(kids[i], closer, T)
         /\ Begun(kids, closer, T) \in Word
<1>1. Len(kids) \in Nat /\ \A i \in 1..Len(kids) : kids[i].node \in V /\ kids[i].name \in Word
  BY KidsFacts
<1>2. ASSUME NEW i \in 1..Len(kids) PROVE Part(kids[i], closer, T) \in Word
  BY <1>1, KidTextType
<1>3. /\ PartsList(kids, closer, T) \in Seq(Word)
      /\ Len(PartsList(kids, closer, T)) = Len(kids)
      /\ \A i \in 1..Len(kids) : PartsList(kids, closer, T)[i] = Part(kids[i], closer, T)
  BY <1>1, <1>2 DEF PartsList
<1>4. Begun(kids, closer, T) \in Word
  BY <1>3, FlattenType DEF Begun, Word
<1>5. QED
  BY <1>3, <1>4

\* A sequence of texts with one more at the end.
LEMMA FlattenLast ==
  ASSUME NEW parts \in Seq(Word), NEW rest \in Seq(Word), NEW s \in Word,
         Len(parts) = Len(rest) + 1, parts[Len(parts)] = s,
         \A i \in 1..Len(rest) : parts[i] = rest[i]
  PROVE  FlattenSeq(parts) = Join(FlattenSeq(rest), s)
<1> DEFINE a == Append(rest, s)
<1>1. /\ a \in Seq(Word) /\ Len(a) = Len(rest) + 1 /\ Len(rest) \in Nat
      /\ a[Len(rest) + 1] = s
      /\ \A i \in 1..Len(rest) : a[i] = rest[i]
  BY AppendProperties
<1> HIDE DEF a
<1>2. ASSUME NEW i \in 1..Len(parts) PROVE parts[i] = a[i]
  <2>1. i \in 1..Len(rest) \/ i = Len(rest) + 1
    BY <1>1
  <2>2. QED
    BY <1>1, <2>1
<1>3. parts = a
  BY <1>1, <1>2, SeqEqual
<1>4. FlattenSeq(Append(rest, s)) = FlattenSeq(rest) \o s
  BY FlattenAppend DEF Word
<1>5. QED
  BY <1>3, <1>4, Zenon DEF a, Join

\* more is kids with kid at its end.
IsFurther(more, kids, kid) ==
  /\ Len(more) = Len(kids) + 1 /\ more[Len(more)] = kid
  /\ \A i \in 1..Len(kids) : more[i] = kids[i]

\* Children with one more are as many, and one.
LEMMA FurtherIs ==
  ASSUME NEW V, NEW kids \in Seq(Named(V)), NEW kid \in Named(V),
         NEW more, more = Further(kids, kid)
  PROVE  more \in Seq(Named(V)) /\ Len(kids) \in Nat /\ IsFurther(more, kids, kid)
BY AppendProperties DEF Further, IsFurther

\* One more child adds its text and a comma.
LEMMA BegunMore ==
  ASSUME NEW V, NEW kids \in Seq(Named(V)), NEW kid \in Named(V),
         NEW more, more = Further(kids, kid), NEW closer, NEW T, \A v \in V : T[v] \in Word
  PROVE  Begun(more, closer, T) = Join(Begun(kids, closer, T), Part(kid, closer, T))
<1>0. kids \in Seq(Named(V)) /\ kid \in Named(V) /\ more = Further(kids, kid)
      /\ \A v \in V : T[v] \in Word
  OBVIOUS
<1>a. more \in Seq(Named(V)) /\ Len(kids) \in Nat /\ IsFurther(more, kids, kid)
  BY <1>0, FurtherIs, Zenon
<1>1. /\ more \in Seq(Named(V)) /\ Len(more) = Len(kids) + 1 /\ Len(kids) \in Nat
      /\ more[Len(more)] = kid
      /\ \A i \in 1..Len(kids) : more[i] = kids[i]
  BY <1>a DEF IsFurther
<1>2. kid.node \in V /\ kid.name \in Word
  BY DEF Named
<1>3. Part(kid, closer, T) \in Word
  BY <1>2, KidTextType
<1> DEFINE p == PartsList(more, closer, T)
           r == PartsList(kids, closer, T)
<1>4. /\ r \in Seq(Word) /\ Len(r) = Len(kids)
      /\ \A i \in 1..Len(kids) : r[i] = Part(kids[i], closer, T)
  BY PartsType
<1>5. /\ p \in Seq(Word) /\ Len(p) = Len(more)
      /\ \A i \in 1..Len(more) : p[i] = Part(more[i], closer, T)
  BY <1>1, PartsType
<1> HIDE DEF p, r
<1>6. Len(p) = Len(r) + 1 /\ p[Len(p)] = Part(kid, closer, T)
  BY <1>1, <1>4, <1>5
<1>7. \A i \in 1..Len(r) : p[i] = r[i]
  BY <1>1, <1>4, <1>5
<1>8. FlattenSeq(p) = Join(FlattenSeq(r), Part(kid, closer, T))
  BY <1>3, <1>4, <1>5, <1>6, <1>7, FlattenLast
<1>9. QED
  BY <1>8 DEF p, r, Begun

\* No children have no text.
LEMMA BegunNothing ==
  ASSUME NEW closer, NEW T
  PROVE  Begun(<<>>, closer, T) = Void
<1>1. PartsList(<<>>, closer, T) = <<>>
  BY DEF PartsList
<1>2. QED
  BY <1>1, Zenon DEF FlattenSeq, Begun, Void

\* Without blanks, the parts that the layout is made of are these.
LEMMA NoSpace == \A n \in Nat : Space(FALSE, n) = Void
BY DEF Space, Void

\* Without blanks, the text of a child is its part.
LEMMA PlainParts ==
  ASSUME NEW T, NEW kid, kid.name \in Word, T[kid.node] \in Word, NEW d \in Nat
  PROVE  /\ ElementFirst(kid.node, TRUE, FALSE, T) = KidText(kid, "]", T)
         /\ ElementFirst(kid.node, FALSE, FALSE, T) = Part(kid, "]", T)
         /\ MemberFirst(kid, TRUE, FALSE, d, T) = KidText(kid, "}", T)
         /\ MemberFirst(kid, FALSE, FALSE, d, T) = Part(kid, "}", T)
<1> DEFINE t == T[kid.node]
           q == Quoted(kid.name)
<1>1. /\ t \in Word /\ q \in Word /\ Mark(",") \in Word /\ Mark(":") \in Word /\ Void \in Word
  BY QuotedType, MarkWords, EmptyWord
<1>2. Space(FALSE, 1) = Void /\ Space(FALSE, d) = Void
  BY NoSpace
<1>3. /\ KidText(kid, "]", T) = Join(Void, t)
      /\ KidText(kid, "}", T) = Join(Join(q, Mark(":")), t)
  BY DEF KidText, Label, Naming
<1>4. /\ ElementFirst(kid.node, TRUE, FALSE, T) = Join(t, Void)
      /\ ElementFirst(kid.node, FALSE, FALSE, T) = Join(t, Join(Mark(","), Void))
      /\ MemberFirst(kid, TRUE, FALSE, d, T)
           = Join(Join(Join(Join(Join(Join(Void, q), Mark(":")), Void), t), Void), Void)
      /\ MemberFirst(kid, FALSE, FALSE, d, T)
           = Join(Join(Join(Join(Join(Join(Void, q), Mark(":")), Void), t), Mark(",")), Void)
  BY <1>2 DEF ElementFirst, MemberFirst
<1> HIDE DEF t, q
<1>5. /\ Join(q, Mark(":")) \in Word /\ Join(Join(q, Mark(":")), t) \in Word
      /\ Join(Join(Join(q, Mark(":")), t), Mark(",")) \in Word
  BY <1>1, JoinType
<1>6. /\ Join(Void, t) = t /\ Join(t, Void) = t /\ Join(Mark(","), Void) = Mark(",")
      /\ Join(Void, q) = q /\ Join(Join(q, Mark(":")), Void) = Join(q, Mark(":"))
      /\ Join(Join(Join(q, Mark(":")), t), Void) = Join(Join(q, Mark(":")), t)
      /\ Join(Join(Join(Join(q, Mark(":")), t), Mark(",")), Void)
           = Join(Join(Join(q, Mark(":")), t), Mark(","))
  BY <1>1, <1>5, JoinEmpty
<1>7. QED
  BY <1>3, <1>4, <1>6 DEF Part

\* Without blanks, the elements are their parts but for the last comma.
LEMMA PlainElements ==
  ASSUME NEW V, NEW kids \in Seq(Named(V)), NEW T, \A v \in V : T[v] \in Word
  PROVE  /\ ElementsList(kids, FALSE, T) \in Seq(Word)
         /\ ElementsText(kids, FALSE, T) = FlattenSeq(ElementsList(kids, FALSE, T))
<1>1. \A f : /\ ElementsList(kids, f, T) \in Seq(Word)
             /\ ElementsText(kids, f, T) = FlattenSeq(ElementsList(kids, f, T))
  BY ElementsParts
<1>2. QED
  BY <1>1, Zenon

\* Without blanks, the members are their parts but for the last comma.
LEMMA PlainMembers ==
  ASSUME NEW V, NEW kids \in Seq(Named(V)), NEW d \in Nat, NEW T, \A v \in V : T[v] \in Word
  PROVE  /\ MembersList(kids, FALSE, d, T) \in Seq(Word)
         /\ MembersText(kids, FALSE, d, T) = FlattenSeq(MembersList(kids, FALSE, d, T))
<1>1. \A f : /\ MembersList(kids, f, d, T) \in Seq(Word)
             /\ MembersText(kids, f, d, T) = FlattenSeq(MembersList(kids, f, d, T))
  BY MembersParts
<1>2. QED
  BY <1>1, Zenon

\* The text between the brackets of a container that is complete.
IsInner(s, kids, kid, closer, T) ==
  s = Join(Begun(kids, closer, T), KidText(kid, closer, T))

\* The text between brackets is that of the children, the last without a comma.
LEMMA InnerText ==
  ASSUME NEW V, NEW kids \in Seq(Named(V)), NEW kid \in Named(V),
         NEW more, IsMore(more, kids, kid), NEW d \in Nat, NEW T, TextsIn(T, V)
  PROVE  /\ IsInner(ElementsText(more, FALSE, T), kids, kid, "]", T)
         /\ IsInner(MembersText(more, FALSE, d, T), kids, kid, "}", T)
<1>0. kids \in Seq(Named(V)) /\ kid \in Named(V) /\ more = Further(kids, kid)
      /\ \A v \in V : T[v] \in Word
  BY DEF TextsIn, IsMore
<1>a. more \in Seq(Named(V)) /\ Len(kids) \in Nat /\ IsFurther(more, kids, kid)
  BY <1>0, FurtherIs, Zenon
<1>1. /\ more \in Seq(Named(V)) /\ Len(more) = Len(kids) + 1 /\ Len(kids) \in Nat
      /\ more[Len(more)] = kid
      /\ \A i \in 1..Len(kids) : more[i] = kids[i]
  BY <1>a DEF IsFurther
<1>b. kid.node \in V /\ kid.name \in Word
      /\ \A i \in 1..Len(kids) : kids[i].node \in V /\ kids[i].name \in Word
  BY KidsFacts DEF Named
<1>2. /\ T[kid.node] \in Word /\ kid.name \in Word
      /\ \A i \in 1..Len(kids) : T[kids[i].node] \in Word /\ kids[i].name \in Word
  BY <1>0, <1>b
<1>3. KidText(kid, "]", T) \in Word /\ KidText(kid, "}", T) \in Word
  BY <1>2, KidTextType
<1>4. \A i \in 1..Len(kids) : (i = Len(more)) = FALSE /\ i \in 1..Len(more)
  BY <1>1
<1>5. Len(more) \in 1..Len(more) /\ (Len(more) = Len(more)) = TRUE
  BY <1>1
<1>6. ElementsText(more, FALSE, T) = Join(Begun(kids, "]", T), KidText(kid, "]", T))
  <2> DEFINE p == ElementsList(more, FALSE, T)
             r == PartsList(kids, "]", T)
  <2>a. r \in Seq(Word)
    BY <1>0, PartsType, Zenon
  <2>1. /\ Len(r) = Len(kids)
        /\ \A i \in 1..Len(kids) : r[i] = Part(kids[i], "]", T)
    <3>1. Len(kids) \in Nat
      BY <1>1
    <3>2. QED
      BY <3>1 DEF PartsList
  <2>2. /\ p \in Seq(Word) /\ ElementsText(more, FALSE, T) = FlattenSeq(p)
    <3>1. more \in Seq(Named(V))
      BY <1>1
    <3>2. QED
      BY <1>0, <3>1, PlainElements, Zenon
  <2>3. /\ Len(p) = Len(more)
        /\ \A i \in 1..Len(more) : p[i] = ElementFirst(more[i].node, i = Len(more), FALSE, T)
    BY <1>1 DEF ElementsList, ElementPart
  <2> HIDE DEF p, r
  <2>4. p[Len(p)] = KidText(kid, "]", T)
    <3>1. p[Len(more)] = ElementFirst(more[Len(more)].node, Len(more) = Len(more), FALSE, T)
      BY <1>5, <2>3
    <3>2. p[Len(more)] = ElementFirst(kid.node, TRUE, FALSE, T)
      BY <1>1, <1>5, <3>1
    <3>3. ElementFirst(kid.node, TRUE, FALSE, T) = KidText(kid, "]", T)
      BY <1>2, PlainParts
    <3>4. QED
      BY <2>3, <3>2, <3>3
  <2>5. ASSUME NEW i \in 1..Len(r) PROVE p[i] = r[i]
    <3>1. i \in 1..Len(kids)
      BY <2>1
    <3>2. p[i] = ElementFirst(kids[i].node, FALSE, FALSE, T)
      <4>1. p[i] = ElementFirst(more[i].node, i = Len(more), FALSE, T)
        BY <1>4, <2>3, <3>1
      <4>2. more[i] = kids[i] /\ (i = Len(more)) = FALSE
        BY <1>1, <1>4, <3>1
      <4>3. QED
        BY <4>1, <4>2
    <3>3. ElementFirst(kids[i].node, FALSE, FALSE, T) = Part(kids[i], "]", T)
      BY <1>2, <3>1, PlainParts
    <3>4. QED
      BY <2>1, <3>1, <3>2, <3>3
  <2>6. Len(p) = Len(r) + 1
    BY <1>1, <2>1, <2>3
  <2>7. FlattenSeq(p) = Join(FlattenSeq(r), KidText(kid, "]", T))
    BY <1>3, <2>a, <2>2, <2>4, <2>5, <2>6, FlattenLast
  <2>8. QED
    BY <2>2, <2>7 DEF r, Begun
<1>7. MembersText(more, FALSE, d, T) = Join(Begun(kids, "}", T), KidText(kid, "}", T))
  <2> DEFINE p == MembersList(more, FALSE, d, T)
             r == PartsList(kids, "}", T)
  <2>a. r \in Seq(Word)
    BY <1>0, PartsType, Zenon
  <2>1. /\ Len(r) = Len(kids)
        /\ \A i \in 1..Len(kids) : r[i] = Part(kids[i], "}", T)
    <3>1. Len(kids) \in Nat
      BY <1>1
    <3>2. QED
      BY <3>1 DEF PartsList
  <2>2. /\ p \in Seq(Word) /\ MembersText(more, FALSE, d, T) = FlattenSeq(p)
    <3>1. more \in Seq(Named(V)) /\ d \in Nat
      BY <1>1
    <3>2. QED
      BY <1>0, <3>1, PlainMembers, Zenon
  <2>3. /\ Len(p) = Len(more)
        /\ \A i \in 1..Len(more) : p[i] = MemberFirst(more[i], i = Len(more), FALSE, d, T)
    BY <1>1 DEF MembersList, MemberPart
  <2> HIDE DEF p, r
  <2>4. p[Len(p)] = KidText(kid, "}", T)
    <3>1. p[Len(more)] = MemberFirst(more[Len(more)], Len(more) = Len(more), FALSE, d, T)
      BY <1>5, <2>3
    <3>2. p[Len(more)] = MemberFirst(kid, TRUE, FALSE, d, T)
      BY <1>1, <1>5, <3>1
    <3>3. MemberFirst(kid, TRUE, FALSE, d, T) = KidText(kid, "}", T)
      BY <1>2, PlainParts
    <3>4. QED
      BY <2>3, <3>2, <3>3
  <2>5. ASSUME NEW i \in 1..Len(r) PROVE p[i] = r[i]
    <3>1. i \in 1..Len(kids)
      BY <2>1
    <3>2. p[i] = MemberFirst(kids[i], FALSE, FALSE, d, T)
      <4>1. p[i] = MemberFirst(more[i], i = Len(more), FALSE, d, T)
        BY <1>4, <2>3, <3>1
      <4>2. more[i] = kids[i] /\ (i = Len(more)) = FALSE
        BY <1>1, <1>4, <3>1
      <4>3. QED
        BY <4>1, <4>2
    <3>3. MemberFirst(kids[i], FALSE, FALSE, d, T) = Part(kids[i], "}", T)
      BY <1>2, <3>1, PlainParts
    <3>4. QED
      BY <2>1, <3>1, <3>2, <3>3
  <2>6. Len(p) = Len(r) + 1
    BY <1>1, <2>1, <2>3
  <2>7. FlattenSeq(p) = Join(FlattenSeq(r), KidText(kid, "}", T))
    BY <1>3, <2>a, <2>2, <2>4, <2>5, <2>6, FlattenLast
  <2>8. QED
    BY <2>2, <2>7 DEF r, Begun
<1>8. QED
  BY <1>6, <1>7, Zenon DEF IsInner

\* The text without blanks of each value at a depth, and of what is between
\* the brackets of a container at depth d whose children's texts are T.
Plain(d) == TextAt(d, FALSE)
PlainContainer(v, d, T) == ContainerText(v, FALSE, d, T)
Inner(kids, closer, d, T) ==
  IF closer = "]" THEN ElementsText(kids, FALSE, T) ELSE MembersText(kids, FALSE, d + 1, T)

\* The texts of the values at some depth, without blanks, are words.
LEMMA PlainType ==
  ASSUME NEW d \in 0..CJSON_NESTING_LIMIT
  PROVE  \A v \in Trees[CJSON_NESTING_LIMIT - d] : Plain(d)[v] \in Word
<1>1. \A f \in BOOLEAN : \A v \in Trees[CJSON_NESTING_LIMIT - d] : TextAt(d, f)[v] \in Word
  BY TextAtType
<1>2. QED
  BY <1>1, Zenon DEF Plain

\* The text of a scalar.
LEMMA PlainScalar ==
  ASSUME NEW d \in 0..CJSON_NESTING_LIMIT, NEW v \in Scalars
  PROVE  Plain(d)[v] = ScalarText(v)
<1>1. CJSON_NESTING_LIMIT - d \in Nat /\ d \in Nat
  BY LimitAssumption
<1>2. \A f \in BOOLEAN : Layouts[CJSON_NESTING_LIMIT - d][f][d][v] = ScalarText(v)
  BY <1>1, LayoutScalar
<1>3. QED
  BY <1>2, Zenon DEF Plain, TextAt

\* What the text of each kind of scalar is.
LEMMA PlainLeaf ==
  ASSUME NEW d \in 0..CJSON_NESTING_LIMIT, NEW c \in Word
  PROVE  /\ Plain(d)[Leaf("string", c)] = Quoted(c)
         /\ Plain(d)[Leaf("literal", <<>>)] = Mark("n")
         /\ Numeral(c) => Plain(d)[Leaf("number", c)] = c
<1>1. /\ Leaf("string", c) \in Scalars /\ Leaf("literal", <<>>) \in Scalars
      /\ Numeral(c) => Leaf("number", c) \in Scalars
  BY EmptyWord DEF Scalars, Leaf, Node, Void
<1>2. /\ Plain(d)[Leaf("string", c)] = ScalarText(Leaf("string", c))
      /\ Plain(d)[Leaf("literal", <<>>)] = ScalarText(Leaf("literal", <<>>))
      /\ Numeral(c) => Plain(d)[Leaf("number", c)] = ScalarText(Leaf("number", c))
  BY <1>1, PlainScalar, Zenon
<1>3. /\ Leaf("string", c).type = "string" /\ Leaf("string", c).chars = c
      /\ Leaf("literal", <<>>).type = "literal"
      /\ Leaf("number", c).type = "number" /\ Leaf("number", c).chars = c
  BY DEF Leaf, Node
<1>4. "string" # "literal" /\ "string" # "number" /\ "number" # "literal"
  OBVIOUS
<1>5. /\ ScalarText(Leaf("string", c)) = Quoted(c)
      /\ ScalarText(Leaf("literal", <<>>)) = Mark("n")
      /\ ScalarText(Leaf("number", c)) = c
  BY <1>3, <1>4, Zenon DEF ScalarText, Mark
<1>6. QED
  BY <1>2, <1>5

\* What a container ends with.
Bracket == {"]", "}"}

\* The brackets, and the types they stand for.
LEMMA BracketTypes ==
  ASSUME NEW closer \in Bracket
  PROVE  /\ Kind[closer] \in {"array", "object"} /\ (Kind[closer] = "array" <=> closer = "]")
         /\ LeftOf(closer) \in Letter \ {"w", "q"} /\ closer \in Letter \ {"w", "q"}
         /\ Mark(LeftOf(closer)) \in Word /\ Mark(closer) \in Word
<1>1. closer \in {"]", "}"}
  BY Zenon DEF Bracket
<1>2. "}" # "]" /\ "object" # "array" /\ {"]", "}"} = DOMAIN Kind
  BY Zenon DEF Kind
<1>3. Kind["]"] = "array" /\ Kind["}"] = "object"
  BY <1>2, Zenon DEF Kind
<1>4. Kind[closer] \in {"array", "object"} /\ (Kind[closer] = "array" <=> closer = "]")
  BY <1>1, <1>2, <1>3, Zenon
<1>5. /\ "[" \in Letter \ {"w", "q"} /\ "{" \in Letter \ {"w", "q"}
      /\ "]" \in Letter \ {"w", "q"} /\ "}" \in Letter \ {"w", "q"}
  BY Letters, Zenon
<1>6. LeftOf(closer) \in Letter \ {"w", "q"} /\ closer \in Letter \ {"w", "q"}
  BY <1>1, <1>5, Zenon DEF LeftOf
<1>7. Mark(LeftOf(closer)) \in Word /\ Mark(closer) \in Word
  BY <1>6, LetterWord
<1>8. QED
  BY <1>4, <1>6, <1>7

\* Without blanks, an array is its elements in brackets.
LEMMA PlainArray ==
  ASSUME NEW V, NEW v \in Containers(V), NEW d \in Nat, NEW T, TextsIn(T, V), v.type = "array"
  PROVE  ContainerText(v, FALSE, d, T) = Join(Mark("["), ArrayRest(v.kids, FALSE, T))
<1>1. \A f : ContainerText(v, f, d, T) = Join(Mark("["), ArrayRest(v.kids, f, T))
  BY ArrayText DEF TextsIn
<1>2. QED
  BY <1>1, Zenon

\* Without blanks, an object is its members in brackets.
LEMMA PlainObject ==
  ASSUME NEW V, NEW v \in Containers(V), NEW d \in Nat, NEW T, TextsIn(T, V), v.type # "array"
  PROVE  ContainerText(v, FALSE, d, T)
           = Join(ObjectStart(FALSE), ObjectRest(v.kids, FALSE, d + 1, T))
<1>1. \A f : ContainerText(v, f, d, T) = Join(ObjectStart(f), ObjectRest(v.kids, f, d + 1, T))
  BY ObjectText DEF TextsIn
<1>2. QED
  BY <1>1, Zenon

Ends(v, closer) == v.type = Kind[closer]

\* Without blanks, a container is what is inside of it, in brackets.
LEMMA PlainContainerIs ==
  ASSUME NEW V, NEW v \in Containers(V), NEW closer \in Bracket, Ends(v, closer),
         NEW d \in Nat, NEW T, TextsIn(T, V)
  PROVE  PlainContainer(v, d, T)
           = Join(Mark(LeftOf(closer)), Join(Inner(v.kids, closer, d, T), Mark(closer)))
<1>a. closer \in {"]", "}"}
  BY Zenon DEF Bracket
<1>b. /\ Kind[closer] = "array" <=> closer = "]"
      /\ v.type = Kind[closer]
  BY BracketTypes DEF Ends
<1>1. CASE closer = "]"
  <2>1. v.type = "array" /\ LeftOf(closer) = "["
    BY <1>1, <1>b, Zenon DEF LeftOf
  <2>3. ContainerText(v, FALSE, d, T) = Join(Mark("["), ArrayRest(v.kids, FALSE, T))
    BY <2>1, PlainArray, Zenon
  <2>4. QED
    BY <1>1, <2>1, <2>3, Zenon DEF PlainContainer, Inner, ArrayRest
<1>2. CASE closer # "]"
  <2>1. v.type # "array" /\ LeftOf(closer) = "{" /\ closer = "}"
    BY <1>2, <1>a, <1>b, Zenon DEF LeftOf
  <2>3. ContainerText(v, FALSE, d, T)
          = Join(ObjectStart(FALSE), ObjectRest(v.kids, FALSE, d + 1, T))
    BY <2>1, PlainObject, Zenon
  <2>4. /\ Join(Mark("{"), Void) = Mark("{") /\ Join(Void, Mark("}")) = Mark("}")
    BY MarkWords, JoinEmpty
  <2>5. Space(FALSE, 1) = Void /\ Space(FALSE, (d + 1) - 1) = Void
    <3>1. 1 \in Nat /\ (d + 1) - 1 \in Nat
      OBVIOUS
    <3>2. QED
      BY <3>1, NoSpace, Zenon
  <2>6. ObjectStart(FALSE) = Mark("{")
    BY <2>4, <2>5, Zenon DEF ObjectStart
  <2>7. ObjectRest(v.kids, FALSE, d + 1, T)
          = Join(MembersText(v.kids, FALSE, d + 1, T), Mark("}"))
    BY <2>4, <2>5, Zenon DEF ObjectRest
  <2>8. QED
    BY <1>2, <2>1, <2>3, <2>6, <2>7, Zenon DEF PlainContainer, Inner
<1>3. QED
  BY <1>1, <1>2

\* A container is one of the trees of a depth, and this is its text.
LEMMA ContainerAt ==
  ASSUME NEW n \in Nat \ {0}, n <= CJSON_NESTING_LIMIT, NEW closer \in Bracket,
         NEW kids \in Seq(Named(Trees[CJSON_NESTING_LIMIT - n])),
         closer = "]" => Unnamed(kids)
  PROVE  Plain(n - 1)[Node(Kind[closer], <<>>, kids)]
           = Join(Mark(LeftOf(closer)), Join(Inner(kids, closer, n - 1, Plain(n)), Mark(closer)))
<1> DEFINE V == Trees[CJSON_NESTING_LIMIT - n]
           v == Node(Kind[closer], <<>>, kids)
           m == CJSON_NESTING_LIMIT - (n - 1)
<1>1. Kind[closer] \in {"array", "object"} /\ (Kind[closer] = "array" <=> closer = "]")
  BY BracketTypes
<1>2. v.type = Kind[closer] /\ v.kids = kids
  BY DEF Node
<1>3. v \in Containers(V)
  <2>1. DOMAIN kids = 1..Len(kids)
    BY KidsFacts
  <2>2. closer = "]" => \A i \in DOMAIN kids : kids[i].name = <<>>
    BY <2>1, Zenon DEF Unnamed, Void
  <2> DEFINE R == Seq([name : Word, node : V])
  <2>3. kids \in R
    BY Zenon DEF Named
  <2> HIDE DEF R, V
  <2>4. v \in [type : {"array", "object"}, chars : {<<>>}, kids : R]
    BY <1>1, <2>3 DEF Node
  <2>5. v.type = "array" => \A i \in DOMAIN v.kids : v.kids[i].name = <<>>
    BY <1>1, <1>2, <2>2, Zenon
  <2>6. QED
    BY <2>4, <2>5, Zenon DEF Containers, R
<1>4. m \in Nat \ {0} /\ m - 1 = CJSON_NESTING_LIMIT - n /\ n - 1 \in Nat /\ n - 1 + 1 = n
      /\ n \in 0..CJSON_NESTING_LIMIT
  BY LimitAssumption
<1> HIDE DEF v, m, V
<1>5. V = Trees[m - 1]
  BY <1>4 DEF V
<1>6. \A f \in BOOLEAN : Layouts[m][f][n - 1][v]
                           = ContainerText(v, f, n - 1, Layouts[m - 1][f][n - 1 + 1])
  BY <1>3, <1>4, <1>5, LayoutContainer
<1>7. Plain(n - 1)[v] = PlainContainer(v, n - 1, Plain(n))
  <2>1. Layouts[m][FALSE][n - 1][v]
          = ContainerText(v, FALSE, n - 1, Layouts[m - 1][FALSE][n - 1 + 1])
    BY <1>6, Zenon
  <2>2. Plain(n - 1) = Layouts[m][FALSE][n - 1]
    BY Zenon DEF Plain, TextAt, m
  <2>3. Plain(n) = Layouts[m - 1][FALSE][n - 1 + 1]
    BY <1>4, Zenon DEF Plain, TextAt
  <2>4. QED
    BY <2>1, <2>2, <2>3, Zenon DEF PlainContainer
<1>8. TextsIn(Plain(n), V)
  BY <1>4, PlainType, Zenon DEF V, TextsIn
<1>9. PlainContainer(v, n - 1, Plain(n))
        = Join(Mark(LeftOf(closer)), Join(Inner(v.kids, closer, n - 1, Plain(n)), Mark(closer)))
  <2>1. closer \in Bracket /\ Ends(v, closer) /\ n - 1 \in Nat
    BY <1>2, <1>4 DEF Ends
  <2>2. QED
    BY <1>3, <1>8, <2>1, PlainContainerIs
<1>10. QED
  BY <1>2, <1>7, <1>9, Zenon DEF v

\* The text between brackets, with the last child set apart.
LEMMA InnerIs ==
  ASSUME NEW V, NEW kids \in Seq(Named(V)), NEW kid \in Named(V),
         NEW more, IsMore(more, kids, kid), NEW d \in Nat, NEW T, TextsIn(T, V),
         NEW closer \in Bracket
  PROVE  IsInner(Inner(more, closer, d, T), kids, kid, closer, T)
<1>0. kids \in Seq(Named(V)) /\ kid \in Named(V) /\ IsMore(more, kids, kid)
      /\ TextsIn(T, V)
  OBVIOUS
<1> DEFINE n == d + 1
<1>1. n \in Nat
  OBVIOUS
<1> HIDE DEF n
<1>2. /\ IsInner(ElementsText(more, FALSE, T), kids, kid, "]", T)
      /\ IsInner(MembersText(more, FALSE, n, T), kids, kid, "}", T)
  BY <1>0, <1>1, InnerText, Zenon
<1>3. closer = "]" \/ closer = "}"
  BY Zenon DEF Bracket
<1>4. "}" # "]"
  BY Zenon
<1>5. QED
  BY <1>2, <1>3, <1>4, Zenon DEF Inner, IsInner, n

\* Without children, a container is its brackets.
LEMMA PlainEmpty ==
  ASSUME NEW n \in Nat \ {0}, n <= CJSON_NESTING_LIMIT, NEW closer \in Bracket
  PROVE  Plain(n - 1)[Node(Kind[closer], <<>>, <<>>)]
           = Join(Mark(LeftOf(closer)), Mark(closer))
<1> DEFINE none == <<>>
<1>1. none \in Seq(Named(Trees[CJSON_NESTING_LIMIT - n])) /\ Unnamed(none)
  BY DEF Unnamed
<1>2. Inner(none, closer, n - 1, Plain(n)) = Void
  BY NoElements, NoMembers, Zenon DEF Inner
<1>3. Join(Void, Mark(closer)) = Mark(closer)
  BY BracketTypes, JoinEmpty
<1> HIDE DEF none
<1>4. Plain(n - 1)[Node(Kind[closer], <<>>, none)]
        = Join(Mark(LeftOf(closer)), Join(Inner(none, closer, n - 1, Plain(n)), Mark(closer)))
  BY <1>1, ContainerAt, Zenon
<1>5. QED
  BY <1>2, <1>3, <1>4, Zenon DEF none

\* A container whose last child is kid.
LEMMA PlainClosed ==
  ASSUME NEW n \in Nat \ {0}, n <= CJSON_NESTING_LIMIT, NEW closer \in Bracket,
         NEW kids \in Seq(Named(Trees[CJSON_NESTING_LIMIT - n])),
         NEW kid \in Named(Trees[CJSON_NESTING_LIMIT - n]),
         NEW more, more = Further(kids, kid), closer = "]" => Unnamed(more)
  PROVE  Plain(n - 1)[Node(Kind[closer], <<>>, more)]
           = Join(Join(Mark(LeftOf(closer)),
                       Join(Begun(kids, closer, Plain(n)), KidText(kid, closer, Plain(n)))),
                  Mark(closer))
<1> DEFINE V == Trees[CJSON_NESTING_LIMIT - n]
           b == Begun(kids, closer, Plain(n))
           t == KidText(kid, closer, Plain(n))
           o == Mark(LeftOf(closer))
           c == Mark(closer)
<1>1. n \in 0..CJSON_NESTING_LIMIT /\ n - 1 \in Nat /\ n - 1 + 1 \in Nat
  BY LimitAssumption
<1>2. \A x \in V : Plain(n)[x] \in Word
  BY <1>1, PlainType, Zenon
<1>2a. TextsIn(Plain(n), V)
  BY <1>2, Zenon DEF TextsIn
<1>0. kids \in Seq(Named(V)) /\ kid \in Named(V) /\ more = Further(kids, kid)
  OBVIOUS
<1> HIDE DEF V
<1>3. more \in Seq(Named(V))
  BY <1>0, FurtherIs, Zenon
<1>4. kid.node \in V /\ kid.name \in Word
  BY <1>0 DEF Named
<1>5. b \in Word /\ t \in Word
  <2>1. b \in Word
    BY <1>0, <1>2, PartsType, Zenon
  <2>2. t \in Word
    BY <1>2, <1>4, KidTextType, Zenon
  <2>3. QED
    BY <2>1, <2>2
<1>6. Inner(more, closer, n - 1, Plain(n)) = Join(b, t)
  <2>1. IsMore(more, kids, kid)
    BY <1>0, Zenon DEF IsMore
  <2>2. IsInner(Inner(more, closer, n - 1, Plain(n)), kids, kid, closer, Plain(n))
    BY <1>0, <1>1, <1>2a, <2>1, InnerIs, Zenon
  <2>3. QED
    BY <2>2, Zenon DEF IsInner, b, t
<1>7. Plain(n - 1)[Node(Kind[closer], <<>>, more)]
        = Join(o, Join(Inner(more, closer, n - 1, Plain(n)), c))
  BY <1>3, ContainerAt, Zenon DEF V
<1>8. o \in Word /\ c \in Word
  BY BracketTypes, Zenon
<1> HIDE DEF b, t, o, c
<1>9. Join(b, t) \in Word
  BY <1>5, JoinType
<1>10. Join(Join(o, Join(b, t)), c) = Join(o, Join(Join(b, t), c))
  BY <1>8, <1>9, JoinAssociative
<1>11. QED
  BY <1>6, <1>7, <1>10, Zenon DEF b, t, o, c
-----------------------------------------------------------------------------
(***************************************************************************)
(* What has been read in the calls that run.                               *)
(***************************************************************************)

\* What has been read since the opening bracket of a call at depth k, up to the
\* last comma, and up to where the value of its next child begins.
OpenedText(x, k) == Join(Mark(LeftOf(x.closer)), Begun(x.kids, x.closer, Plain(k)))
FrameText(x, k) == Join(OpenedText(x, k), Label(x.closer, x.name))

\* What has been read when a value is looked for in the first n of the calls f,
\* in all of them, and before the last of them looks for a child.
FrameTexts(f, n) == [k \in 1..n |-> FrameText(f[k], k)]
SaidUp(f, n) == FlattenSeq(FrameTexts(f, n))
Said(f) == SaidUp(f, Len(f))
Before(f) == Join(SaidUp(f, Len(f) - 1), OpenedText(Last(f), Len(f)))

\* What was read in a call is a word.
LEMMA OpenedTextType ==
  ASSUME NEW k \in 0..CJSON_NESTING_LIMIT, NEW x, IsCallAt(x, k), x.closer \in Bracket
  PROVE  OpenedText(x, k) \in Word /\ FrameText(x, k) \in Word
<1> DEFINE V == Trees[CJSON_NESTING_LIMIT - k]
<1>1. x.kids \in Seq(Named(V)) /\ x.name \in Word
  BY DEF IsCallAt, IsCall
<1>2. \A v \in V : Plain(k)[v] \in Word
  BY PlainType, Zenon
<1> HIDE DEF V
<1>3. Begun(x.kids, x.closer, Plain(k)) \in Word
  BY <1>1, <1>2, PartsType, Zenon
<1>4. Mark(LeftOf(x.closer)) \in Word
  BY BracketTypes
<1>5. OpenedText(x, k) \in Word
  BY <1>3, <1>4, JoinType DEF OpenedText
<1>6. Label(x.closer, x.name) \in Word
  BY <1>1, LabelType
<1>7. QED
  BY <1>5, <1>6, JoinType DEF FrameText

\* The calls in f are such that their texts are defined.
Running(f) ==
  /\ Len(f) \in 0..CJSON_NESTING_LIMIT /\ Calls(f)
  /\ \A k \in 1..Len(f) : f[k].closer \in Bracket

\* What was read in each of the calls is a word.
LEMMA FrameTextsType ==
  ASSUME NEW f, Running(f), NEW n \in 0..Len(f)
  PROVE  /\ FrameTexts(f, n) \in Seq(Word) /\ Len(FrameTexts(f, n)) = n
         /\ SaidUp(f, n) \in Word
<1>1. Len(f) \in Nat /\ n \in Nat
  BY LimitAssumption DEF Running
<1>2. ASSUME NEW k \in 1..n PROVE FrameText(f[k], k) \in Word
  <2>1. k \in 1..Len(f) /\ k \in 0..CJSON_NESTING_LIMIT
    BY <1>1, LimitAssumption DEF Running
  <2>2. IsCallAt(f[k], k) /\ f[k].closer \in Bracket
    BY <2>1 DEF Running, Calls
  <2>3. QED
    BY <2>1, <2>2, OpenedTextType
<1>3. FrameTexts(f, n) \in Seq(Word) /\ Len(FrameTexts(f, n)) = n
  BY <1>1, <1>2 DEF FrameTexts
<1>4. SaidUp(f, n) \in Word
  BY <1>3, FlattenType DEF SaidUp, Word
<1>5. QED
  BY <1>3, <1>4

\* Calls that are the same were told the same.
LEMMA SaidUpSame ==
  ASSUME NEW n \in Nat, NEW f, NEW g, \A i \in 1..n : f[i] = g[i]
  PROVE  SaidUp(f, n) = SaidUp(g, n)
<1>1. FrameTexts(f, n) = FrameTexts(g, n)
  BY DEF FrameTexts
<1>2. QED
  BY <1>1 DEF SaidUp

\* One more call was told more.
LEMMA SaidUpMore ==
  ASSUME NEW f, Running(f), NEW n \in 1..Len(f)
  PROVE  SaidUp(f, n) = Join(SaidUp(f, n - 1), FrameText(f[n], n))
<1>1. Len(f) \in Nat /\ n \in Nat /\ n \in 0..Len(f) /\ n - 1 \in 0..Len(f) /\ n \in 1..n
      /\ n \in 0..CJSON_NESTING_LIMIT
  BY LimitAssumption DEF Running
<1>2. FrameText(f[n], n) \in Word
  <2>1. IsCallAt(f[n], n) /\ f[n].closer \in Bracket
    BY DEF Running, Calls
  <2>2. QED
    BY <1>1, <2>1, OpenedTextType
<1> DEFINE p == FrameTexts(f, n)
           r == FrameTexts(f, n - 1)
<1>3. p \in Seq(Word) /\ r \in Seq(Word) /\ Len(p) = n /\ Len(r) = n - 1
  BY <1>1, FrameTextsType
<1>4. p[n] = FrameText(f[n], n) /\ \A i \in 1..n - 1 : p[i] = r[i]
  BY <1>1 DEF FrameTexts
<1> HIDE DEF p, r
<1>5. Len(p) = Len(r) + 1 /\ p[Len(p)] = FrameText(f[n], n)
  BY <1>1, <1>3, <1>4
<1>6. \A i \in 1..Len(r) : p[i] = r[i]
  BY <1>3, <1>4
<1>7. FlattenSeq(p) = Join(FlattenSeq(r), FrameText(f[n], n))
  BY <1>2, <1>3, <1>5, <1>6, FlattenLast
<1>8. QED
  BY <1>7 DEF p, r, SaidUp

\* Nothing has been read before the outermost value.
LEMMA SaidNothing == Said(<<>>) = Void
<1>1. FrameTexts(<<>>, Len(<<>>)) = <<>>
  BY DEF FrameTexts
<1>2. QED
  BY <1>1, Zenon DEF Said, SaidUp, FlattenSeq, Void

\* The calls of the parser have words to read and to have read.
LEMMA RunningFrames ==
  ASSUME NEW V, NEW f \in Frames(V), Calls(f), Len(f) <= CJSON_NESTING_LIMIT
  PROVE  Running(f)
<1>1. Len(f) \in 0..CJSON_NESTING_LIMIT
  BY LimitAssumption DEF Frames
<1>2. ASSUME NEW k \in 1..Len(f) PROVE f[k].closer \in Bracket
  <2>1. f[k] \in Frame(V)
    BY ElementOfSeq DEF Frames
  <2>2. QED
    BY <2>1, Zenon DEF Frame, Bracket
<1>3. QED
  BY <1>1, <1>2, Zenon DEF Running

\* What has been read at the next value of the last call.
LEMMA SaidLast ==
  ASSUME NEW f, Running(f), Len(f) # 0
  PROVE  /\ Said(f) = Join(Before(f), Label(Last(f).closer, Last(f).name))
         /\ Before(f) \in Word /\ Label(Last(f).closer, Last(f).name) \in Word
<1> DEFINE n == Len(f)
           x == Last(f)
<1>1. n \in Nat \ {0} /\ n \in 0..CJSON_NESTING_LIMIT
  BY LimitAssumption DEF Running
<1>2. x = f[n]
  BY Zenon DEF Last
<1>3. n \in 1..n /\ n \in 0..n /\ n - 1 \in 0..n
  BY <1>1
<1>4. IsCallAt(x, n) /\ x.closer \in Bracket
  <2>1. IsCallAt(f[n], n) /\ f[n].closer \in Bracket
    BY <1>3 DEF Running, Calls
  <2>2. QED
    BY <1>2, <2>1
<1>5. SaidUp(f, n - 1) \in Word
  BY <1>3, FrameTextsType
<1>6. SaidUp(f, n) = Join(SaidUp(f, n - 1), FrameText(x, n))
  BY <1>2, <1>3, SaidUpMore
<1>7. OpenedText(x, n) \in Word /\ x.name \in Word
  BY <1>1, <1>4, OpenedTextType DEF IsCallAt, IsCall
<1>8. Label(x.closer, x.name) \in Word
  BY <1>7, LabelType
<1>9. Before(f) = Join(SaidUp(f, n - 1), OpenedText(x, n)) /\ Said(f) = SaidUp(f, n)
  BY DEF Before, Said
<1>10. FrameText(x, n) = Join(OpenedText(x, n), Label(x.closer, x.name))
  BY DEF FrameText
<1> HIDE DEF n, x
<1>11. Join(Join(SaidUp(f, n - 1), OpenedText(x, n)), Label(x.closer, x.name))
         = Join(SaidUp(f, n - 1), Join(OpenedText(x, n), Label(x.closer, x.name)))
  BY <1>5, <1>7, <1>8, JoinAssociative
<1>12. Before(f) \in Word
  BY <1>5, <1>7, <1>9, JoinType
<1>13. QED
  BY <1>5, <1>6, <1>8, <1>9, <1>10, <1>11, <1>12 DEF x

\* A new call.
LEMMA BeforePush ==
  ASSUME NEW V, NEW f \in Frames(V), NEW x
  PROVE  Before(Append(f, x)) = Join(Said(f), OpenedText(x, Len(f) + 1))
<1> DEFINE n == Len(f)
           g == Append(f, x)
           S == Frame(V) \cup {x}
<1>1. n \in Nat /\ Len(g) = n + 1 /\ g[n + 1] = x /\ \A i \in 1..n : g[i] = f[i]
  <2>1. f \in Seq(S) /\ x \in S
    BY SeqMonotonic DEF Frames
  <2> HIDE DEF S
  <2>2. QED
    BY <2>1, AppendProperties
<1>2. Last(g) = g[Len(g)]
  BY Zenon DEF Last
<1> HIDE DEF g, n
<1>3. SaidUp(g, n) = SaidUp(f, n)
  BY <1>1, SaidUpSame
<1>4. Len(g) - 1 = n /\ Last(g) = x
  BY <1>1, <1>2
<1>5. Before(g) = Join(SaidUp(f, n), OpenedText(x, n + 1))
  BY <1>1, <1>3, <1>4, Zenon DEF Before
<1>6. QED
  BY <1>5, Zenon DEF Said, g, n

\* All calls but the last one.
LEMMA FrontFrames ==
  ASSUME NEW V, NEW f \in Frames(V), f # <<>>
  PROVE  Front(f) \in Frames(V)
<1> DEFINE n == Len(f)
           g == Front(f)
<1>1. n \in Nat \ {0}
  BY EmptySeq DEF Frames
<1>2. g = SubSeq(f, 1, n - 1)
  BY DEF Front
<1>3. \A i \in 1..n - 1 : f[i] \in Frame(V)
  BY <1>1, ElementOfSeq DEF Frames
<1> HIDE DEF n, g
<1>4. n - 1 \in Int
  BY <1>1
<1>5. g \in Seq(Frame(V))
  BY <1>2, <1>3, <1>4, SubSeqProperties
<1>6. QED
  BY <1>5 DEF g, Frames

\* The last call has changed, or it has returned.
LEMMA BeforeTop ==
  ASSUME NEW V, NEW f \in Frames(V), f # <<>>, NEW x,
         NEW new, new = [f EXCEPT ![Len(f)] = x]
  PROVE  /\ Before(new) = Join(Said(Front(f)), OpenedText(x, Len(f)))
         /\ Before(f) = Join(Said(Front(f)), OpenedText(Last(f), Len(f)))
<1> DEFINE n == Len(f)
           g == Front(f)
           S == Frame(V) \cup {x}
<1>1. n \in Nat \ {0}
  BY EmptySeq DEF Frames
<1>2. Len(new) = n /\ \A i \in 1..n : new[i] = IF i = n THEN x ELSE f[i]
  <2>1. f \in Seq(S) /\ x \in S
    BY SeqMonotonic DEF Frames
  <2> HIDE DEF S
  <2>2. QED
    BY <1>1, <2>1, ExceptSeq
<1>3. Len(g) = n - 1 /\ \A i \in 1..n - 1 : g[i] = f[i]
  <2>1. g = SubSeq(f, 1, n - 1)
    BY DEF Front
  <2>2. \A i \in 1..n - 1 : f[i] \in Frame(V)
    BY <1>1, ElementOfSeq DEF Frames
  <2>3. n - 1 \in Nat /\ n \in Nat
    BY <1>1
  <2> HIDE DEF n, g
  <2>4. n - 1 \in Int /\ (IF 1 <= n - 1 THEN n - 1 - 1 + 1 ELSE 0) = n - 1
    BY <2>3
  <2>5. Len(g) = n - 1
    BY <2>1, <2>2, <2>4, SubSeqProperties
  <2>6. ASSUME NEW i \in 1..n - 1 PROVE g[i] = f[i]
    <3>1. i \in 1..n - 1 - 1 + 1 /\ 1 + i - 1 = i
      BY <2>3
    <3>2. QED
      BY <2>1, <2>2, <2>4, <3>1, SubSeqProperties
  <2>7. QED
    BY <2>5, <2>6
<1>4. Last(new) = new[Len(new)]
  BY Zenon DEF Last
<1> HIDE DEF g, n, S
<1>5. Last(new) = x /\ n - 1 \in Nat /\ \A i \in 1..n - 1 : i \in 1..n /\ i # n
  BY <1>1, <1>2, <1>4
<1>6. SaidUp(new, n - 1) = SaidUp(f, n - 1)
  <2>1. \A i \in 1..n - 1 : new[i] = f[i]
    BY <1>2, <1>5
  <2>2. QED
    BY <1>5, <2>1, SaidUpSame
<1>7. SaidUp(g, n - 1) = SaidUp(f, n - 1)
  BY <1>3, <1>5, SaidUpSame
<1>8. Said(g) = SaidUp(f, n - 1)
  BY <1>3, <1>7 DEF Said
<1>9. QED
  BY <1>2, <1>5, <1>6, <1>8, Zenon DEF Before, g, n

\* The calls that run while the parser reads.
LEMMA RunFrames ==
  ASSUME Parsing, Treed, pc \notin {"fail", "failed"}
  PROVE  /\ Running(frames) /\ Said(frames) \in Word
         /\ Len(frames) \in 0..CJSON_NESTING_LIMIT
<1>1. PICK V : frames \in Frames(V)
  BY DEF Parsing, Typed, TypedBy
<1>2. Calls(frames) /\ Len(frames) <= CJSON_NESTING_LIMIT
  BY DEF Parsing, Nested, Treed
<1>3. Running(frames)
  BY <1>1, <1>2, RunningFrames
<1>4. Len(frames) \in 0..Len(frames) /\ Len(frames) \in 0..CJSON_NESTING_LIMIT
  BY <1>3, LimitAssumption DEF Running
<1>5. SaidUp(frames, Len(frames)) \in Word
  BY <1>3, <1>4, FrameTextsType
<1>6. QED
  BY <1>3, <1>4, <1>5 DEF Said

\* The innermost of them.
LEMMA RunTop ==
  ASSUME Parsing, Treed, pc \notin {"fail", "failed"}, frames # <<>>
  PROVE  /\ Said(frames) = Join(Before(frames), Label(Top.closer, Top.name))
         /\ Before(frames) \in Word /\ Label(Top.closer, Top.name) \in Word
         /\ Before(frames) = Join(Said(Front(frames)), OpenedText(Top, Len(frames)))
         /\ Said(Front(frames)) \in Word /\ OpenedText(Top, Len(frames)) \in Word
         /\ Top.closer \in Bracket /\ IsCallAt(Top, Len(frames))
         /\ Len(frames) \in 1..CJSON_NESTING_LIMIT
<1>1. PICK V : frames \in Frames(V)
  BY DEF Parsing, Typed, TypedBy
<1>2. Running(frames) /\ Len(frames) \in 0..CJSON_NESTING_LIMIT
  BY RunFrames
<1>3. /\ IsCallAt(Top, Len(frames))
      /\ Calls(Front(frames)) /\ Len(Front(frames)) = Len(frames) - 1
      /\ Len(frames) \in Nat \ {0}
  BY InnerTreed, Zenon
<1>4. Top.closer \in {"]", "}"}
  BY InnerTreed, Zenon
<1>5. Top.closer \in Bracket
  BY <1>4, Zenon DEF Bracket
<1>6. Len(frames) \in 1..CJSON_NESTING_LIMIT
  BY <1>2, <1>3
<1>7. /\ Said(frames) = Join(Before(frames), Label(Top.closer, Top.name))
      /\ Before(frames) \in Word /\ Label(Top.closer, Top.name) \in Word
  <2>1. Len(frames) # 0
    BY <1>3
  <2>2. QED
    BY <1>2, <2>1, SaidLast, Zenon DEF Top
<1>8. Before(frames) = Join(Said(Front(frames)), OpenedText(Top, Len(frames)))
  <2> DEFINE new == [frames EXCEPT ![Len(frames)] = Top]
  <2>1. new = [frames EXCEPT ![Len(frames)] = Top]
    OBVIOUS
  <2> HIDE DEF new
  <2>2. Before(frames) = Join(Said(Front(frames)), OpenedText(Last(frames), Len(frames)))
    BY <1>1, <2>1, BeforeTop, Zenon
  <2>3. QED
    BY <2>2, Zenon DEF Top
<1>9. OpenedText(Top, Len(frames)) \in Word
  BY <1>2, <1>3, <1>5, OpenedTextType, Zenon
<1>10. Said(Front(frames)) \in Word
  <2> DEFINE g == Front(frames)
  <2>1. g \in Frames(V)
    BY <1>1, FrontFrames, Zenon
  <2>2. Calls(g) /\ Len(g) = Len(frames) - 1
    BY <1>3
  <2> HIDE DEF g
  <2>3. Len(g) <= CJSON_NESTING_LIMIT
    BY <1>6, <2>2, LimitAssumption
  <2>4. Running(g)
    BY <2>1, <2>2, <2>3, RunningFrames
  <2>5. Len(g) \in 0..Len(g)
    BY <1>6, <2>2
  <2>6. SaidUp(g, Len(g)) \in Word
    BY <2>4, <2>5, FrameTextsType
  <2>7. QED
    BY <2>6 DEF g, Said
<1>11. QED
  BY <1>3, <1>5, <1>6, <1>7, <1>8, <1>9, <1>10

\* The innermost call changes to x.
LEMMA RunSet ==
  ASSUME Parsing, Treed, pc \notin {"fail", "failed"}, frames # <<>>,
         NEW x, SetTop(x), IsCallAt(x, Len(frames)), x.closer \in Bracket
  PROVE  /\ Len(frames') = Len(frames)
         /\ Before(frames') = Join(Said(Front(frames)), OpenedText(x, Len(frames)))
         /\ Before(frames') \in Word
         /\ Said(frames') = Join(Before(frames'), Label(x.closer, x.name))
<1> DEFINE new == [frames EXCEPT ![Len(frames)] = x]
<1>1. PICK V : frames \in Frames(V)
  BY DEF Parsing, Typed, TypedBy
<1>2. frames' = new /\ Calls(frames)
  BY DEF SetTop, Treed
<1>3. Running(frames) /\ Len(frames) \in 0..CJSON_NESTING_LIMIT
  BY RunFrames
<1>4. Len(frames) \in Nat \ {0}
  BY InnerTreed
<1>5. new = [frames EXCEPT ![Len(frames)] = x]
  OBVIOUS
<1> HIDE DEF new
<1>6. Calls(new) /\ Len(new) = Len(frames) /\ Last(new) = x
  BY <1>1, <1>2, <1>5, CallsTop
<1>7. Before(new) = Join(Said(Front(frames)), OpenedText(x, Len(frames)))
  BY <1>1, <1>5, BeforeTop, Zenon
<1>8. Running(new)
  <2>1. \A k \in 1..Len(frames) : new[k].closer = x.closer \/ new[k].closer = frames[k].closer
    <3> DEFINE S == Frame(V) \cup {x}
    <3>1. frames \in Seq(S) /\ x \in S
      BY <1>1, SeqMonotonic DEF Frames
    <3> HIDE DEF S
    <3>2. Len(frames) \in 1..Len(frames)
      BY <1>4
    <3>3. \A k \in 1..Len(frames) : new[k] = IF k = Len(frames) THEN x ELSE frames[k]
      BY <1>5, <3>1, <3>2, ExceptSeq
    <3>4. QED
      BY <3>3
  <2>2. \A k \in 1..Len(new) : new[k].closer \in Bracket
    BY <1>3, <1>6, <2>1 DEF Running
  <2>3. QED
    BY <1>3, <1>6, <2>2 DEF Running
<1>9. Len(new) # 0
  BY <1>4, <1>6
<1>10. /\ Said(new) = Join(Before(new), Label(Last(new).closer, Last(new).name))
       /\ Before(new) \in Word
  BY <1>8, <1>9, SaidLast
<1>11. QED
  BY <1>2, <1>6, <1>7, <1>10
-----------------------------------------------------------------------------
(***************************************************************************)
(* Where the parser stands in the text, with what it has read.             *)
(***************************************************************************)

\* Where the reading of a text begins, and that it has come to the offset o of
\* the first n characters of the text t with w, outside of a string.
Base(t) == IF t[1] = "B" THEN 2 ELSE 1
Sounds(t, n, o, w) ==
  o \in Base(t) - 1..n /\ Reading(SubSeq(t, Base(t), o)) = Outside(w)

\* A byte order mark that is not passed over: what follows fails.
Marked(t, n, o) == o < n /\ t[o + 1] = "B"

\* At every place of the parser, what has been read of the text is what the
\* calls that run and the value read last say.
Followed ==
  /\ pc = "value" => Marked(text, length, offset)
                       \/ Sounds(text, length, offset, Said(frames))
  /\ pc = "after" => Sounds(text, length, offset,
                            Join(Said(frames), Plain(Len(frames))[value.node]))
  /\ pc = "element" => Sounds(text, length, offset + 1, Before(frames))
  /\ pc = "name" => Sounds(text, length, offset, Before(frames))
  /\ pc = "colon" => Sounds(text, length, offset,
                            Join(Before(frames), Quoted(value.node.chars)))
  /\ pc = "parsed" => Sounds(text, length, end, Plain(0)[value.node])

\* A step that gives up.
LEMMA FailFollowed ==
  ASSUME pc' \in {"start", "fail", "failed"}
  PROVE  Followed'
BY DEF Followed

\* Where a text has been read to, with what.
LEMMA SoundsIs ==
  ASSUME NEW o, NEW w
  PROVE  /\ Base(text) \in {1, 2}
         /\ Sounds(text, length, o, w)
              <=> o \in Base(text) - 1..length /\ Read(Base(text), o) = Outside(w)
<1>1. Base(text) \in {1, 2}
  BY DEF Base
<1>2. QED
  BY <1>1, Zenon DEF Sounds, Read

\* A character that means something by itself.
LEMMA SoundsMark ==
  ASSUME Placed, NEW o \in Nat, NEW w \in Word, Sounds(text, length, o, w),
         o < length, At(o) \in Letter \ {"w", "q"}
  PROVE  Sounds(text, length, o + 1, Join(w, Mark(At(o)))) /\ Join(w, Mark(At(o))) \in Word
<1> DEFINE b == Base(text)
<1>1. b \in {1, 2} /\ o \in b - 1..length /\ Read(b, o) = Outside(w)
  BY SoundsIs
<1> HIDE DEF b
<1>2. text \in Chars /\ o \in b - 1..Len(text) - 1 /\ o + 1 \in b - 1..length
  BY <1>1 DEF Placed, Chars
<1>3. Read(b, o + 1) = Outside(Join(w, Mark(At(o)))) /\ Join(w, Mark(At(o))) \in Word
  BY <1>1, <1>2, HearMark
<1>4. QED
  BY <1>2, <1>3, SoundsIs DEF b

\* Blanks.
LEMMA SoundsSkip ==
  ASSUME Placed, NEW o, NEW w, Sounds(text, length, o, w)
  PROVE  /\ Sounds(text, length, buffer_skip_whitespace(o), w)
         /\ o \in 0..length /\ buffer_skip_whitespace(o) \in o..length
         /\ buffer_skip_whitespace(o) \in Nat
         /\ o < length => buffer_skip_whitespace(o) < length
<1> DEFINE b == Base(text)
           p == buffer_skip_whitespace(o)
<1>1. b \in {1, 2} /\ o \in b - 1..length /\ Read(b, o) = Outside(w)
  BY SoundsIs
<1> HIDE DEF b
<1>2. text \in Chars /\ length \in Nat /\ length <= Len(text)
  BY DEF Placed, Chars
<1>3. p \in o..length /\ Read(b, p) = Outside(w) /\ (o < length => p < length)
  BY <1>1, <1>2, HearSkip
<1> HIDE DEF p
<1>4. p \in b - 1..length /\ o \in 0..length /\ p \in Nat
  BY <1>1, <1>2, <1>3
<1>5. QED
  BY <1>3, <1>4, SoundsIs DEF b, p

\* Where something other than a blank is, nothing is passed over.
LEMMA SkipNothing ==
  ASSUME length \in Nat, NEW o \in 0..length, o < length, At(o) \notin {"w", Nul}
  PROVE  buffer_skip_whitespace(o) = o
<1> DEFINE S == {i \in o..length : i < length => At(i) \notin {"w", Nul}}
<1>1. S \subseteq Nat /\ o \in S /\ \A i \in S : i >= o
  OBVIOUS
<1>2. Passing({"w", Nul}, o) = Min(S)
  BY Zenon DEF Passing
<1> HIDE DEF S
<1>3. Min(S) \in S /\ \A y \in S : Min(S) <= y
  BY <1>1, MinIsLeast
<1>4. Min(S) = o
  <2>1. Min(S) \in Nat /\ o \in Nat /\ Min(S) >= o /\ Min(S) <= o
    BY <1>1, <1>3
  <2>2. QED
    BY <2>1
<1>5. o # length
  OBVIOUS
<1>6. QED
  BY <1>2, <1>4, <1>5 DEF buffer_skip_whitespace, CanAccess

\* A number.
LEMMA SoundsNumber ==
  ASSUME Placed, offset < length, NumberEnd(offset) # offset,
         NEW w \in Word, Sounds(text, length, offset, w)
  PROVE  Sounds(text, length, NumberEnd(offset),
                Join(w, SubSeq(text, offset + 1, NumberEnd(offset))))
<1> DEFINE b == Base(text)
           e == NumberEnd(offset)
           s == SubSeq(text, offset + 1, e)
<1>1. b \in {1, 2} /\ offset \in b - 1..length /\ Read(b, offset) = Outside(w)
  BY SoundsIs
<1> HIDE DEF b
<1>2. b - 1 <= offset
  BY <1>1
<1>3. e \in offset..length /\ Read(b, e) = Outside(Join(w, s))
  BY <1>1, <1>2, HearNumber
<1> HIDE DEF e, s
<1>4. e \in b - 1..length
  BY <1>1, <1>3 DEF Placed, Chars
<1>5. QED
  BY <1>3, <1>4, SoundsIs DEF b, e, s

\* A string that is read, be it a value or a name.
LEMMA SoundsString ==
  ASSUME Placed, offset < length, NEW w \in Word, Sounds(text, length, offset, w),
         NEW next, next # "fail", parse_string(next), pc' = next
  PROVE  \E c \in Word : /\ value'.node = Leaf("string", c)
                         /\ Sounds(text, length, offset', Join(w, Quoted(c)))
<1> DEFINE b == Base(text)
           o == offset + 1
           e == StringEnd(o)
           c == CString(Contents(o, e))
           bad == {i \in Escapes(o) \cap o..e - 1 : At(i + 1) \notin DOMAIN Unescape}
<1>1. b \in {1, 2} /\ offset \in b - 1..length /\ Read(b, offset) = Outside(w)
  BY SoundsIs
<1>2. /\ At(offset) = "q" /\ e # length /\ bad = {} /\ offset' = e + 1
      /\ value' = [node |-> Leaf("string", c), blocks |-> 1]
  BY Zenon DEF parse_string, Fail, Goto
<1>3. \A i \in Escapes(o) \cap o..e - 1 : At(i + 1) \in DOMAIN Unescape
  BY <1>2
<1>4. /\ length \in Nat /\ text \in Chars /\ length <= Len(text)
      /\ offset \in Nat /\ o \in 0..length /\ b - 1 <= offset
  BY <1>1 DEF Placed, Chars
<1> HIDE DEF b, bad
<1>5. /\ e \in o..length - 1 /\ c \in Word
      /\ Read(b, e + 1) = Outside(Join(w, Quoted(c)))
  <2>1. o = offset + 1 /\ e = StringEnd(o)
    OBVIOUS
  <2> HIDE DEF o, e
  <2>2. QED
    BY <1>1, <1>2, <1>3, <1>4, <2>1, HearString
<1> HIDE DEF e, c
<1>6. e + 1 \in b - 1..length
  BY <1>1, <1>4, <1>5
<1>7. Sounds(text, length, e + 1, Join(w, Quoted(c)))
  BY <1>5, <1>6, SoundsIs DEF b
<1>8. value'.node = Leaf("string", c)
  BY <1>2
<1>9. QED
  BY <1>2, <1>5, <1>7, <1>8

\* A step that reads a value, in the calls that run.
LEMMA AfterFollowed ==
  ASSUME pc' = "after", UNCHANGED <<text, length, frames>>,
         Sounds(text, length, offset', Join(Said(frames), Plain(Len(frames))[value'.node]))
  PROVE  Followed'
BY DEF Followed

\* A parse begins.
LEMMA StartFollowed ==
  ASSUME Parsing, Treed, ParseStart
  PROVE  Followed'
<1> DEFINE b == Base(text)
           p == skip_utf8_bom
<1>1. pc = "start" /\ UNCHANGED <<text, length, frames>> /\ Placed /\ frames = <<>>
  BY DEF ParseStart, Same, Parsing, Nested
<1>2. \/ pc' = "failed"
      \/ length > 0 /\ pc' = "value" /\ offset' = buffer_skip_whitespace(p)
  BY DEF ParseStart, Goto
<1>3. CASE pc' = "failed"
  BY <1>3, FailFollowed
<1>4. CASE length > 0 /\ pc' = "value" /\ offset' = buffer_skip_whitespace(p)
  <2>1. length \in Nat \ {0} /\ length <= Len(text) /\ text \in Chars
    BY <1>1, <1>4 DEF Placed, Chars
  <2>2. At(0) = text[1]
    BY DEF At
  <2>3. CASE b - 1 = p
    <3>1. p \in b - 1..length /\ b \in Nat
      <4>1. p = 1 => 1 < length
        BY <2>1 DEF skip_utf8_bom, Is, CanAccess
      <4>2. b \in {1, 2}
        BY DEF Base
      <4> HIDE DEF b, p
      <4>3. QED
        BY <2>1, <2>3, <4>1, <4>2
    <3>2. Read(b, p) = Beginning
      <4> HIDE DEF b, p
      <4>1. Read(b, b - 1) = Beginning
        BY <2>1, <3>1, ReadFirst
      <4>2. QED
        BY <2>3, <4>1
    <3>3. Beginning = Outside(Void)
      BY Zenon DEF Beginning, Outside, Void
    <3>4. Sounds(text, length, p, Void)
      BY <3>1, <3>2, <3>3, SoundsIs
    <3> HIDE DEF b, p
    <3>5. Sounds(text, length, buffer_skip_whitespace(p), Void)
      BY <1>1, <3>4, SoundsSkip
    <3>6. Said(frames) = Void
      BY <1>1, SaidNothing
    <3>7. Sounds(text', length', offset', Said(frames'))
      BY <1>1, <1>4, <3>5, <3>6
    <3>8. QED
      BY <1>4, <3>7 DEF Followed
  <2>4. CASE b - 1 # p
    <3>1. text[1] = "B" /\ p = 0
      BY <2>1, <2>2, <2>4 DEF Base, skip_utf8_bom, Is, CanAccess
    <3>2. Character \cap {"B"} \cap {"w", Nul} = {} /\ "B" \notin {"w", Nul}
      BY DEF Nul
    <3>3. buffer_skip_whitespace(0) = 0
      <4>1. At(0) \notin {"w", Nul}
        BY <2>2, <3>1, <3>2
      <4>2. QED
        BY <2>1, <4>1, SkipNothing
    <3>4. Marked(text', length', offset')
      BY <1>1, <1>4, <2>1, <3>1, <3>3 DEF Marked
    <3>5. QED
      BY <1>4, <3>4 DEF Followed
  <2>5. QED
    BY <2>3, <2>4
<1>5. QED
  BY <1>2, <1>3, <1>4

\* A scalar is read.
LEMMA ScalarFollowed ==
  ASSUME Parsing, Treed, Followed, ParseScalar
  PROVE  Followed'
<1> DEFINE n == Len(frames)
           w == Said(frames)
           v == value'.node
<1>1. pc = "value" /\ UNCHANGED <<text, length, frames>> /\ Placed
  BY DEF ParseScalar, Same, Parsing
<1>2. w \in Word /\ n \in 0..CJSON_NESTING_LIMIT
  BY <1>1, RunFrames
<1>3. CASE pc' = "fail"
  BY <1>3, FailFollowed
<1>4. Marked(text, length, offset) \/ Sounds(text, length, offset, w)
  BY <1>1 DEF Followed
<1> HIDE DEF n, w, v
<1>5. offset < length => ~Marked(text, length, offset) \/ At(offset) = "B"
  BY DEF Marked, At
<1>6. CASE Is(offset, "n")
  <2>1. offset < length /\ At(offset) = "n" /\ pc' = "after" /\ offset' = offset + 1
        /\ v = Leaf("literal", <<>>)
    BY <1>6 DEF ParseScalar, Goto, Is, CanAccess, v
  <2>2. Sounds(text, length, offset, w) /\ offset \in Nat
    BY <1>1, <1>4, <1>5, <2>1 DEF Placed
  <2>3. At(offset) \in Letter \ {"w", "q"}
    BY <2>1, Letters
  <2>4. Sounds(text, length, offset + 1, Join(w, Mark(At(offset))))
    BY <1>1, <1>2, <2>1, <2>2, <2>3, SoundsMark
  <2>5. Plain(n)[v] = Mark("n")
    BY <1>2, <2>1, EmptyWord, PlainLeaf, Zenon
  <2>6. Sounds(text, length, offset', Join(w, Plain(n)[v]))
    BY <2>1, <2>4, <2>5
  <2>7. QED
    BY <1>1, <2>1, <2>6, AfterFollowed DEF n, w, v
<1>7. CASE ~Is(offset, "n") /\ Is(offset, "q")
  <2>1. parse_string("after") /\ offset < length /\ At(offset) = "q"
    BY <1>7 DEF ParseScalar, Is, CanAccess
  <2>2. Sounds(text, length, offset, w)
    BY <1>4, <1>5, <2>1
  <2>3. pc' \in {"fail", "after"}
    BY <1>1, <2>1, StringStep
  <2>4. CASE pc' = "after"
    <3>1. PICK c \in Word : v = Leaf("string", c)
                            /\ Sounds(text, length, offset', Join(w, Quoted(c)))
      BY <1>1, <1>2, <2>1, <2>2, <2>4, SoundsString DEF v
    <3>2. Plain(n)[v] = Quoted(c)
      BY <1>2, <3>1, PlainLeaf, Zenon
    <3>3. Sounds(text, length, offset', Join(w, Plain(n)[v]))
      BY <3>1, <3>2
    <3>4. QED
      BY <1>1, <2>4, <3>3, AfterFollowed DEF n, w, v
  <2>5. QED
    BY <1>3, <2>3, <2>4
<1>8. CASE /\ ~Is(offset, "n") /\ ~Is(offset, "q")
           /\ CanAccess(offset) /\ At(offset) \in Digits \cup {"-"}
  <2> DEFINE s == SubSeq(text, offset + 1, NumberEnd(offset))
  <2>1. parse_number /\ offset < length /\ At(offset) # "B"
    BY <1>8 DEF ParseScalar, CanAccess, Digits
  <2>2. Sounds(text, length, offset, w)
    BY <1>4, <1>5, <2>1
  <2>3. \/ pc' = "fail"
        \/ /\ NumberEnd(offset) # offset /\ pc' = "after" /\ offset' = NumberEnd(offset)
           /\ v = Leaf("number", s)
    BY <2>1 DEF parse_number, Goto, Fail, v
  <2>4. ASSUME NumberEnd(offset) # offset, pc' = "after", offset' = NumberEnd(offset),
               v = Leaf("number", s)
        PROVE  Followed'
    <3>1. s \in Word /\ Numeral(s)
      BY <1>1, <2>1, <2>4, NumberRead
    <3>2. Sounds(text, length, NumberEnd(offset), Join(w, s))
      BY <1>1, <1>2, <2>1, <2>2, <2>4, SoundsNumber
    <3> HIDE DEF s
    <3>3. Plain(n)[Leaf("number", s)] = s
      BY <1>2, <3>1, PlainLeaf, Zenon
    <3>4. Sounds(text, length, offset', Join(w, Plain(n)[v]))
      BY <2>4, <3>2, <3>3
    <3>5. QED
      BY <1>1, <2>4, <3>4, AfterFollowed DEF n, w, v
  <2>5. QED
    BY <1>3, <2>3, <2>4
<1>9. CASE /\ ~Is(offset, "n") /\ ~Is(offset, "q")
           /\ ~(CanAccess(offset) /\ At(offset) \in Digits \cup {"-"})
  <2>1. pc' = "fail"
    BY <1>9 DEF ParseScalar, Fail, Goto
  <2>2. QED
    BY <1>3, <2>1
<1>10. QED
  BY <1>6, <1>7, <1>8, <1>9, Zenon

\* The name of a member is read.
LEMMA NameFollowed ==
  ASSUME Parsing, Treed, Followed, ParseName
  PROVE  Followed'
<1>1. pc = "name" /\ UNCHANGED <<text, length, frames>> /\ parse_string("colon") /\ Placed
  BY DEF ParseName, Same, Parsing
<1>2. offset < length
  BY <1>1 DEF Placed
<1>3. frames # <<>> /\ Sounds(text, length, offset, Before(frames))
  BY <1>1 DEF Parsing, Nested, Followed
<1>4. Before(frames) \in Word
  BY <1>1, <1>3, RunTop
<1>5. pc' \in {"fail", "colon"}
  BY <1>1, <1>2, StringStep
<1>6. CASE pc' = "colon"
  <2>1. PICK c \in Word : value'.node = Leaf("string", c)
                          /\ Sounds(text, length, offset', Join(Before(frames), Quoted(c)))
    BY <1>1, <1>2, <1>3, <1>4, <1>6, SoundsString
  <2>2. value'.node.chars = c
    BY <2>1 DEF Leaf, Node
  <2>3. Sounds(text', length', offset', Join(Before(frames'), Quoted(value'.node.chars)))
    BY <1>1, <2>1, <2>2
  <2>4. QED
    BY <1>6, <2>3 DEF Followed
<1>7. QED
  BY <1>5, <1>6, FailFollowed

\* A parse ends.
LEMMA EndFollowed ==
  ASSUME Parsing, Treed, Followed, ParseEnd
  PROVE  Followed'
<1> DEFINE o == IF require THEN buffer_skip_whitespace(offset) ELSE offset
           t == Plain(0)[value.node]
<1>1. pc = "after" /\ frames = <<>> /\ UNCHANGED <<text, length, value>> /\ Placed
  BY DEF ParseEnd, Same, Parsing
<1>2. \/ pc' = "fail"
      \/ pc' = "parsed" /\ end' = o
  BY DEF ParseEnd, Fail, Goto
<1>3. Said(frames) = Void /\ Len(frames) = 0
  BY <1>1, SaidNothing
<1>4. t \in Word
  <2>1. 0 \in 0..CJSON_NESTING_LIMIT /\ CJSON_NESTING_LIMIT - 0 = CJSON_NESTING_LIMIT
    BY LimitAssumption
  <2>2. value.node \in Trees[CJSON_NESTING_LIMIT - 0]
    BY <1>1, <1>3, <2>1 DEF Treed
  <2>3. QED
    BY <2>1, <2>2, PlainType
<1>5. Sounds(text, length, offset, Join(Void, t))
  BY <1>1, <1>3 DEF Followed
<1> HIDE DEF t
<1>6. Sounds(text, length, offset, t)
  BY <1>4, <1>5, JoinEmpty
<1>7. Sounds(text, length, o, t)
  BY <1>1, <1>6, SoundsSkip
<1> HIDE DEF o
<1>8. CASE pc' = "parsed" /\ end' = o
  <2>1. Sounds(text', length', end', Plain(0)[value'.node])
    BY <1>1, <1>7, <1>8 DEF t
  <2>2. QED
    BY <1>8, <2>1 DEF Followed
<1>9. QED
  BY <1>2, <1>8, FailFollowed

\* The brackets that a container begins with.
LEMMA OpenerTypes ==
  ASSUME NEW c \in {"[", "{"}
  PROVE  /\ Closer[c] \in Bracket /\ LeftOf(Closer[c]) = c
         /\ c \in Letter \ {"w", "q"} /\ c # "B"
<1>1. {"[", "{"} = DOMAIN Closer /\ Closer["["] = "]" /\ Closer["{"] = "}"
  BY Zenon DEF Closer
<1>2. "}" # "]" /\ (c = "[" \/ c = "{")
  BY Zenon
<1>3. Closer[c] \in Bracket
  BY <1>1, <1>2, Zenon DEF Bracket
<1>4. LeftOf(Closer[c]) = c
  BY <1>1, <1>2, Zenon DEF LeftOf
<1>5. c \in Letter \ {"w", "q"} /\ c # "B"
  BY <1>2, Letters, Zenon
<1>6. QED
  BY <1>3, <1>4, <1>5

\* A container is opened.
LEMMA OpenFollowed ==
  ASSUME Parsing, Treed, Followed, ParseOpen
  PROVE  Followed'
<1> DEFINE c == At(offset)
           closer == Closer[c]
           o == buffer_skip_whitespace(offset + 1)
           node == Node(Kind[closer], <<>>, <<>>)
           empty == [node |-> node, blocks |-> 0]
           call == [closer |-> closer, name |-> <<>>, kids |-> <<>>, blocks |-> 0]
           n == Len(frames)
           w == Said(frames)
<1>1. /\ pc = "value" /\ offset < length /\ UNCHANGED <<text, length>>
      /\ (c = "[" \/ c = "{")
  BY DEF ParseOpen, Is, CanAccess, Same
<1>2. Placed /\ offset \in Nat
  BY DEF Parsing, Placed
<1>3. n \in Nat /\ depth = n /\ CJSON_NESTING_LIMIT \in Nat
  BY <1>1, Room
<1>4. w \in Word
  BY <1>1, RunFrames
<1>5. /\ closer \in Bracket /\ LeftOf(closer) = c
      /\ c \in Letter \ {"w", "q"} /\ c # "B"
  BY <1>1, OpenerTypes, Zenon
<1>6. \/ pc' = "fail"
      \/ /\ ~(depth >= CJSON_NESTING_LIMIT) /\ Is(o, closer)
         /\ pc' = "after" /\ offset' = o + 1 /\ value' = empty /\ UNCHANGED frames
      \/ /\ pc' \in {"element", "fail"} /\ offset' = o - 1
         /\ frames' = Append(frames, call)
  BY Zenon DEF ParseOpen, Fail, Goto
<1>7. Sounds(text, length, offset, w)
  BY <1>1, <1>5 DEF Followed, Marked, At
<1>8. empty.node = node /\ call.closer = closer /\ call.kids = <<>>
  OBVIOUS
<1> HIDE DEF c, n, w
<1>9. Sounds(text, length, offset + 1, Join(w, Mark(c))) /\ Join(w, Mark(c)) \in Word
  BY <1>1, <1>2, <1>4, <1>5, <1>7, SoundsMark DEF c
<1>10. Sounds(text, length, o, Join(w, Mark(c))) /\ o \in Nat /\ o \in 0..length
  <2>1. Sounds(text, length, o, Join(w, Mark(c))) /\ o \in Nat /\ o \in offset + 1..length
    BY <1>2, <1>9, SoundsSkip
  <2> HIDE DEF o
  <2>2. QED
    BY <1>2, <2>1
<1>11. Mark(c) \in Word /\ Mark(closer) \in Word /\ closer \in Letter \ {"w", "q"}
  BY <1>5, BracketTypes
<1> HIDE DEF closer, o, node, empty, call
<1>12. CASE /\ ~(depth >= CJSON_NESTING_LIMIT) /\ Is(o, closer)
            /\ pc' = "after" /\ offset' = o + 1 /\ value' = empty /\ UNCHANGED frames
  <2>1. o < length /\ At(o) = closer /\ n + 1 <= CJSON_NESTING_LIMIT
        /\ n + 1 \in Nat \ {0} /\ n + 1 - 1 = n
    BY <1>3, <1>12 DEF Is, CanAccess
  <2>2. Sounds(text, length, o + 1, Join(Join(w, Mark(c)), Mark(closer)))
    BY <1>2, <1>9, <1>10, <1>11, <2>1, SoundsMark
  <2>3. Join(Join(w, Mark(c)), Mark(closer)) = Join(w, Join(Mark(c), Mark(closer)))
    BY <1>4, <1>11, JoinAssociative
  <2>4. Plain(n)[value'.node] = Join(Mark(c), Mark(closer))
    <3>1. Plain((n + 1) - 1)[Node(Kind[closer], <<>>, <<>>)]
            = Join(Mark(LeftOf(closer)), Mark(closer))
      BY <1>5, <2>1, PlainEmpty
    <3>2. (n + 1) - 1 = n
      BY <1>3
    <3>3. value'.node = Node(Kind[closer], <<>>, <<>>)
      BY <1>8, <1>12 DEF node
    <3>4. QED
      BY <1>5, <3>1, <3>2, <3>3
  <2>5. Sounds(text, length, offset', Join(w, Plain(n)[value'.node]))
    BY <1>12, <2>2, <2>3, <2>4
  <2>6. QED
    BY <1>1, <1>12, <2>5, AfterFollowed DEF n, w
<1>13. CASE /\ pc' = "element" /\ offset' = o - 1
            /\ frames' = Append(frames, call)
  <2>1. PICK V : frames \in Frames(V)
    BY DEF Parsing, Typed, TypedBy
  <2>2. Before(frames') = Join(w, OpenedText(call, n + 1))
    BY <1>13, <2>1, BeforePush DEF n, w
  <2>3. OpenedText(call, n + 1) = Join(Mark(c), Void)
    BY <1>5, <1>8, BegunNothing, Zenon DEF OpenedText
  <2>4. Join(Mark(c), Void) = Mark(c)
    BY <1>11, JoinEmpty
  <2>5. offset' + 1 = o
    BY <1>10, <1>13
  <2>6. Sounds(text', length', offset' + 1, Before(frames'))
    BY <1>1, <1>10, <2>2, <2>3, <2>4, <2>5
  <2>7. QED
    BY <1>13, <2>6 DEF Followed
<1>14. QED
  BY <1>6, <1>12, <1>13, FailFollowed

\* A child is allocated.
LEMMA ElementFollowed ==
  ASSUME Parsing, Treed, Followed, ParseElement
  PROVE  Followed'
<1> DEFINE x == [Top EXCEPT !.blocks = Top.blocks + 1]
           o == buffer_skip_whitespace(offset + 1)
<1>1. pc = "element" /\ frames # <<>> /\ UNCHANGED <<text, length>> /\ Placed
  BY DEF ParseElement, Parsing, Nested, Same
<1>2. \/ pc' = "fail"
      \/ /\ SetTop(x) /\ offset' = o
         /\ pc' = IF Top.closer = "}" THEN "name" ELSE "value"
  BY DEF ParseElement, Fail, Goto
<1>3. IsCallAt(Top, Len(frames)) /\ \E V : Top \in Frame(V)
  BY <1>1, InnerTreed, Zenon
<1>4. x.closer = Top.closer /\ x.name = Top.name /\ x.kids = Top.kids
  BY <1>3, FrameChange
<1>5. /\ Before(frames) = Join(Said(Front(frames)), OpenedText(Top, Len(frames)))
      /\ Top.closer \in Bracket
  BY <1>1, RunTop
<1>6. Sounds(text, length, offset + 1, Before(frames))
  BY <1>1 DEF Followed
<1>7. Sounds(text, length, o, Before(frames))
  BY <1>1, <1>6, SoundsSkip
<1> HIDE DEF x, o
<1>8. CASE /\ SetTop(x) /\ offset' = o
           /\ pc' = IF Top.closer = "}" THEN "name" ELSE "value"
  <2>1. IsCallAt(x, Len(frames)) /\ x.closer \in Bracket
    BY <1>3, <1>4, <1>5, Zenon DEF IsCallAt, IsCall
  <2>2. /\ Before(frames') = Join(Said(Front(frames)), OpenedText(x, Len(frames)))
        /\ Before(frames') \in Word
        /\ Said(frames') = Join(Before(frames'), Label(x.closer, x.name))
    BY <1>1, <1>8, <2>1, RunSet
  <2>3. OpenedText(x, Len(frames)) = OpenedText(Top, Len(frames))
    BY <1>4 DEF OpenedText
  <2>4. Sounds(text', length', offset', Before(frames'))
    BY <1>1, <1>5, <1>7, <1>8, <2>2, <2>3
  <2>5. CASE Top.closer = "}"
    BY <1>8, <2>4, <2>5 DEF Followed
  <2>6. CASE Top.closer # "}"
    <3>1. x.closer = "]"
      BY <1>4, <1>5, <2>6, Zenon DEF Bracket
    <3>2. Said(frames') = Before(frames')
      BY <2>2, <3>1, JoinEmpty DEF Label
    <3>3. QED
      BY <1>8, <2>4, <2>6, <3>2 DEF Followed
  <2>7. QED
    BY <2>5, <2>6
<1>9. QED
  BY <1>2, <1>8, FailFollowed

\* The colon behind a name is read.
LEMMA ColonFollowed ==
  ASSUME Parsing, Treed, Followed, ParseColon
  PROVE  Followed'
<1> DEFINE name == value.node.chars
           x == [Top EXCEPT !.name = name, !.blocks = Top.blocks + value.blocks]
           o == buffer_skip_whitespace(offset)
           p == buffer_skip_whitespace(o + 1)
           w == Join(Before(frames), Quoted(name))
<1>1. pc = "colon" /\ frames # <<>> /\ UNCHANGED <<text, length>> /\ Placed
  BY DEF ParseColon, Parsing, Nested, Same
<1>2. SetTop(x) /\ (pc' = "fail" \/ (Is(o, ":") /\ pc' = "value" /\ offset' = p))
  BY DEF ParseColon, Fail, Goto
<1>3. Top.closer = "}" /\ name \in Word /\ IsCallAt(Top, Len(frames))
      /\ \E V : Top \in Frame(V)
  BY <1>1, InnerTreed, Zenon DEF Treed
<1>4. /\ Before(frames) = Join(Said(Front(frames)), OpenedText(Top, Len(frames)))
      /\ Before(frames) \in Word /\ Top.closer \in Bracket
  BY <1>1, RunTop
<1>5. Sounds(text, length, offset, w)
  BY <1>1 DEF Followed
<1>6. w \in Word /\ Quoted(name) \in Word /\ Mark(":") \in Word
  BY <1>3, <1>4, QuotedType, MarkWords, JoinType
<1> HIDE DEF name, w, o, p
<1>7. x.closer = Top.closer /\ x.name = name /\ x.kids = Top.kids
  <2>1. \E V : Top \in Frame(V)
    BY <1>3
  <2>2. QED
    BY <2>1, FrameChange
<1> HIDE DEF x
<1>8. Sounds(text, length, o, w) /\ o \in Nat
  BY <1>1, <1>5, SoundsSkip DEF o
<1>9. CASE Is(o, ":") /\ pc' = "value" /\ offset' = p
  <2>1. o < length /\ At(o) = ":" /\ At(o) \in Letter \ {"w", "q"}
    BY <1>9, Letters DEF Is, CanAccess
  <2>2. Sounds(text, length, o + 1, Join(w, Mark(":")))
    BY <1>1, <1>6, <1>8, <2>1, SoundsMark
  <2>3. Sounds(text, length, p, Join(w, Mark(":")))
    BY <1>1, <2>2, SoundsSkip DEF p
  <2>4. x.closer # "]"
    BY <1>3, <1>7, Zenon
  <2>5. IsCallAt(x, Len(frames)) /\ x.closer \in Bracket
    BY <1>3, <1>4, <1>7, <2>4, Zenon DEF IsCallAt, IsCall
  <2>6. /\ Before(frames') = Join(Said(Front(frames)), OpenedText(x, Len(frames)))
        /\ Said(frames') = Join(Before(frames'), Label(x.closer, x.name))
    BY <1>1, <1>2, <2>5, RunSet
  <2>7. Before(frames') = Before(frames)
    BY <1>4, <1>7, <2>6 DEF OpenedText
  <2>8. Label(x.closer, x.name) = Join(Quoted(name), Mark(":"))
    BY <1>7, <2>4 DEF Label, Naming
  <2>9. Join(w, Mark(":")) = Join(Before(frames), Join(Quoted(name), Mark(":")))
    BY <1>4, <1>6, JoinAssociative DEF w
  <2>10. Said(frames') = Join(w, Mark(":"))
    BY <2>6, <2>7, <2>8, <2>9
  <2>11. Sounds(text', length', offset', Said(frames'))
    BY <1>1, <1>9, <2>3, <2>10
  <2>12. QED
    BY <1>9, <2>11 DEF Followed
<1>10. QED
  BY <1>2, <1>9, FailFollowed

\* The pieces of a container's text, put together in another order.
LEMMA JoinPieces ==
  ASSUME NEW f \in Word, NEW o \in Word, NEW b \in Word, NEW l \in Word, NEW t \in Word,
         NEW m \in Word
  PROVE  /\ Join(Join(Join(Join(f, Join(o, b)), l), t), m)
              = Join(f, Join(o, Join(b, Join(Join(l, t), m))))
         /\ Join(Join(Join(Join(f, Join(o, b)), l), t), m)
              = Join(f, Join(Join(o, Join(b, Join(l, t))), m))
<1> DEFINE lt == Join(l, t)
           ob == Join(o, b)
           blt == Join(b, lt)
<1>1. lt \in Word /\ ob \in Word /\ blt \in Word
  BY JoinType
<1>2. Join(f, ob) \in Word /\ Join(lt, m) \in Word /\ Join(o, blt) \in Word
  BY <1>1, JoinType
<1> HIDE DEF lt, ob, blt
<1>3. Join(Join(Join(f, ob), l), t) = Join(Join(f, ob), lt)
  BY <1>2, JoinAssociative DEF lt
<1>4. Join(Join(Join(f, ob), lt), m) = Join(Join(f, ob), Join(lt, m))
  BY <1>1, <1>2, JoinAssociative
<1>5. Join(Join(f, ob), Join(lt, m)) = Join(f, Join(ob, Join(lt, m)))
  BY <1>1, <1>2, JoinAssociative
<1>6. Join(ob, Join(lt, m)) = Join(o, Join(b, Join(lt, m)))
  BY <1>2, JoinAssociative DEF ob
<1>7. Join(b, Join(lt, m)) = Join(blt, m)
  BY <1>1, JoinAssociative DEF blt
<1>8. Join(Join(o, blt), m) = Join(o, Join(blt, m))
  BY <1>1, JoinAssociative
<1>9. QED
  BY <1>3, <1>4, <1>5, <1>6, <1>7, <1>8, Zenon DEF ob, lt, blt

\* What a further child, the last one or one before a comma, makes of the text
\* of the container that it is in.
MoreText(more, kids, kid, closer, n) ==
  /\ Begun(more, closer, Plain(n))
       = Join(Begun(kids, closer, Plain(n)), Part(kid, closer, Plain(n)))
  /\ Plain(n - 1)[Node(Kind[closer], <<>>, more)]
       = Join(Join(Mark(LeftOf(closer)),
                   Join(Begun(kids, closer, Plain(n)), KidText(kid, closer, Plain(n)))),
              Mark(closer))
IsRoom(V, n) == n \in Nat \ {0} /\ n <= CJSON_NESTING_LIMIT /\ V = Trees[CJSON_NESTING_LIMIT - n]
MayEnd(closer, kids) == closer = "]" => Unnamed(kids)

\* One more child adds its text, before a comma or before the bracket.
LEMMA MoreTextIs ==
  ASSUME NEW n, NEW V, IsRoom(V, n), NEW closer \in Bracket, NEW kids \in Seq(Named(V)),
         NEW kid \in Named(V), NEW more, IsMore(more, kids, kid), MayEnd(closer, more)
  PROVE  MoreText(more, kids, kid, closer, n)
<1>1. n \in Nat \ {0} /\ n <= CJSON_NESTING_LIMIT /\ V = Trees[CJSON_NESTING_LIMIT - n]
      /\ n \in 0..CJSON_NESTING_LIMIT
  BY LimitAssumption DEF IsRoom
<1>2. \A v \in V : Plain(n)[v] \in Word
  BY <1>1, PlainType, Zenon
<1>3. more = Further(kids, kid) /\ (closer = "]" => Unnamed(more))
      /\ kids \in Seq(Named(V)) /\ kid \in Named(V) /\ closer \in Bracket
  BY Zenon DEF IsMore, MayEnd
<1>4. Begun(more, closer, Plain(n))
        = Join(Begun(kids, closer, Plain(n)), Part(kid, closer, Plain(n)))
  BY <1>2, <1>3, BegunMore
<1>5. Plain(n - 1)[Node(Kind[closer], <<>>, more)]
        = Join(Join(Mark(LeftOf(closer)),
                    Join(Begun(kids, closer, Plain(n)), KidText(kid, closer, Plain(n)))),
               Mark(closer))
  BY <1>1, <1>3, PlainClosed
<1>6. QED
  BY <1>4, <1>5, Zenon DEF MoreText

\* A comma or a bracket behind a child is read.
LEMMA ChildFollowed ==
  ASSUME Parsing, Treed, Followed, ParseAfter
  PROVE  Followed'
<1> DEFINE kid == [name |-> Top.name, node |-> value.node]
           kids == Append(Top.kids, kid)
           h == Top.blocks + value.blocks
           x == [Top EXCEPT !.kids = kids, !.blocks = h]
           node == Node(Kind[Top.closer], <<>>, kids)
           n == Len(frames)
           V == Trees[CJSON_NESTING_LIMIT - n]
           c == Top.closer
           o == buffer_skip_whitespace(offset)
           f == Said(Front(frames))
           p == Mark(LeftOf(c))
           b == Begun(Top.kids, c, Plain(n))
           l == Label(c, Top.name)
           t == Plain(n)[value.node]
           w == Join(Said(frames), t)
<1>1. pc = "after" /\ frames # <<>> /\ UNCHANGED <<text, length>> /\ Placed
  BY DEF ParseAfter, Same, Parsing
<1>2. \/ /\ Is(o, c) /\ pc' = "after" /\ offset' = o + 1
         /\ value' = [node |-> node, blocks |-> h] /\ frames' = Front(frames)
      \/ pc' = "fail"
      \/ Is(o, ",") /\ pc' = "element" /\ offset' = o /\ SetTop(x)
  BY Zenon DEF ParseAfter, Goto, Pop
<1>3. [node |-> node, blocks |-> h].node = node
  OBVIOUS
<1>4. kids = Further(Top.kids, kid) /\ kid = Kid(Top.name, value.node)
  BY Zenon DEF Further, Kid
<1>5. kid.name = Top.name /\ kid.node = value.node
  OBVIOUS
<1>6. x = [Top EXCEPT !.kids = kids, !.blocks = h] /\ node = Node(Kind[c], <<>>, kids)
  OBVIOUS
<1> HIDE DEF kid, kids, h, x, node, n, V, o
<1>7. /\ Said(frames) = Join(Before(frames), l)
      /\ Before(frames) = Join(f, OpenedText(Top, n))
      /\ f \in Word /\ l \in Word /\ c \in Bracket /\ IsCallAt(Top, n)
      /\ n \in 1..CJSON_NESTING_LIMIT
  BY <1>1, RunTop DEF n
<1>8. /\ Calls(Front(frames)) /\ Len(Front(frames)) = n - 1
      /\ n \in Nat \ {0} /\ n <= CJSON_NESTING_LIMIT
      /\ \E W : Top \in Frame(W)
  <2>1. /\ Len(Front(frames)) = Len(frames) - 1 /\ Calls(Front(frames))
        /\ \E W : Top \in Frame(W)
    BY <1>1, InnerTreed, Zenon
  <2>2. n \in Nat \ {0} /\ n <= CJSON_NESTING_LIMIT
    BY <1>7, LimitAssumption
  <2>3. QED
    BY <2>1, <2>2 DEF n
<1>9. /\ Top.name \in Word /\ Top.kids \in Seq(Named(V))
      /\ c = "]" => Top.name = Void /\ Unnamed(Top.kids)
  BY <1>7, Zenon DEF IsCallAt, IsCall, V
<1>10. value.node \in V
  BY <1>1 DEF Treed, V, n
<1>11. kids \in Seq(Named(V)) /\ (c = "]" => Unnamed(kids))
  <2>1. /\ kids \in Seq(Named(V))
        /\ Top.name = Void /\ Unnamed(Top.kids) => Unnamed(kids)
    BY <1>4, <1>9, <1>10, KidsAppend
  <2>2. QED
    BY <1>9, <2>1
<1>12. kid \in Named(V)
  BY <1>4, <1>9, <1>10 DEF Kid, Named
<1>13. \A v \in V : Plain(n)[v] \in Word
  <2>1. n \in 0..CJSON_NESTING_LIMIT
    BY <1>7
  <2>2. QED
    BY <2>1, PlainType, Zenon DEF V
<1>14. p \in Word /\ b \in Word /\ t \in Word /\ Mark(",") \in Word /\ Mark(c) \in Word
       /\ c \in Letter \ {"w", "q"}
  <2>1. b \in Word
    BY <1>9, <1>13, PartsType, Zenon
  <2>2. QED
    BY <1>7, <1>10, <1>13, <2>1, BracketTypes, MarkWords
<1>15. OpenedText(Top, n) = Join(p, b)
  BY DEF OpenedText
<1>16. KidText(kid, c, Plain(n)) = Join(l, t)
  BY <1>5 DEF KidText
<1> HIDE DEF c, f, p, b, l, t
<1>17. w = Join(Join(Join(f, Join(p, b)), l), t) /\ w \in Word
  <2>1. w = Join(Join(Join(f, Join(p, b)), l), t)
    BY <1>7, <1>15
  <2>2. QED
    BY <1>7, <1>14, <2>1, JoinType
<1>18. Sounds(text, length, offset, w)
  BY <1>1 DEF Followed, n, t
<1> HIDE DEF w
<1>17a. MoreText(kids, Top.kids, kid, c, n)
  <2>1. IsRoom(V, n)
    BY <1>8, Zenon DEF IsRoom, V
  <2>2. IsMore(kids, Top.kids, kid)
    BY <1>4, Zenon DEF IsMore
  <2>3. MayEnd(c, kids)
    BY <1>11, Zenon DEF MayEnd
  <2>4. Top.kids \in Seq(Named(V)) /\ c \in Bracket
    BY <1>7, <1>9
  <2>5. QED
    BY <1>12, <2>1, <2>2, <2>3, <2>4, MoreTextIs, Zenon
<1>17b. ASSUME NEW m \in Word
        PROVE  /\ Join(Join(Join(Join(f, Join(p, b)), l), t), m)
                    = Join(f, Join(p, Join(b, Join(Join(l, t), m))))
               /\ Join(Join(Join(Join(f, Join(p, b)), l), t), m)
                    = Join(f, Join(Join(p, Join(b, Join(l, t))), m))
  <2>1. f \in Word /\ p \in Word /\ b \in Word /\ l \in Word /\ t \in Word /\ m \in Word
    BY <1>7, <1>14
  <2>2. QED
    BY <2>1, JoinPieces
<1>19. Sounds(text, length, o, w) /\ o \in Nat
  BY <1>1, <1>18, SoundsSkip DEF o
<1>20. CASE /\ Is(o, c) /\ pc' = "after" /\ offset' = o + 1
            /\ value' = [node |-> node, blocks |-> h] /\ frames' = Front(frames)
  <2>1. o < length /\ At(o) = c
    BY <1>20 DEF Is, CanAccess
  <2>2. Sounds(text, length, o + 1, Join(w, Mark(c)))
    BY <1>1, <1>14, <1>17, <1>19, <2>1, SoundsMark
  <2>3. Plain(n - 1)[node]
          = Join(Join(p, Join(b, KidText(kid, c, Plain(n)))), Mark(c))
    BY <1>6, <1>17a, Zenon DEF MoreText, p, b
  <2>4. Join(w, Mark(c)) = Join(f, Plain(n - 1)[node])
    <3>1. Mark(c) \in Word /\ w = Join(Join(Join(f, Join(p, b)), l), t)
      BY <1>14, <1>17
    <3>2. Join(Join(Join(Join(f, Join(p, b)), l), t), Mark(c))
            = Join(f, Join(Join(p, Join(b, Join(l, t))), Mark(c)))
      BY <1>17b, <3>1, Zenon
    <3>3. Plain(n - 1)[node] = Join(Join(p, Join(b, Join(l, t))), Mark(c))
      BY <1>16, <2>3, Zenon
    <3>4. QED
      BY <3>1, <3>2, <3>3, Zenon
  <2>5. value'.node = node /\ Said(frames') = f /\ Len(frames') = n - 1
    BY <1>3, <1>8, <1>20 DEF f
  <2>6. Sounds(text', length', offset', Join(Said(frames'), Plain(Len(frames'))[value'.node]))
    BY <1>1, <1>20, <2>2, <2>4, <2>5
  <2>7. QED
    BY <1>20, <2>6 DEF Followed
<1>21. CASE Is(o, ",") /\ pc' = "element" /\ offset' = o /\ SetTop(x)
  <2>1. o < length /\ At(o) = "," /\ At(o) \in Letter \ {"w", "q"}
    BY <1>21, Letters DEF Is, CanAccess
  <2>2. Sounds(text, length, o + 1, Join(w, Mark(",")))
    BY <1>1, <1>17, <1>19, <2>1, SoundsMark
  <2>3. x.closer = c /\ x.name = Top.name /\ x.kids = kids
    BY <1>6, <1>8, FrameChange DEF c
  <2>4. IsCallAt(x, n) /\ x.closer \in Bracket
    BY <1>7, <1>9, <1>11, <2>3, Zenon DEF IsCallAt, IsCall, V
  <2>5. Before(frames') = Join(f, OpenedText(x, n))
    BY <1>1, <1>21, <2>4, RunSet DEF f, n
  <2>6. Begun(kids, c, Plain(n)) = Join(b, Part(kid, c, Plain(n)))
    BY <1>17a, Zenon DEF MoreText, b
  <2>7. Part(kid, c, Plain(n)) = Join(Join(l, t), Mark(","))
    BY <1>16 DEF Part
  <2>8. OpenedText(x, n) = Join(p, Join(b, Join(Join(l, t), Mark(","))))
    BY <2>3, <2>6, <2>7 DEF OpenedText, p
  <2>9. Join(w, Mark(",")) = Before(frames')
    BY <1>14, <1>17, <1>17b, <2>5, <2>8, Zenon
  <2>10. Sounds(text', length', offset' + 1, Before(frames'))
    BY <1>1, <1>21, <2>2, <2>9
  <2>11. QED
    BY <1>21, <2>10 DEF Followed
<1>22. QED
  BY <1>2, <1>20, <1>21, FailFollowed DEF c

\* Every step of the parser takes from the text what it says that it has.
LEMMA FollowedStep ==
  ASSUME Parsing, Treed, Followed, ParseNext
  PROVE  Followed'
<1>1. CASE ParseStart
  BY <1>1, StartFollowed
<1>2. CASE ParseScalar
  BY <1>2, ScalarFollowed
<1>3. CASE ParseOpen
  BY <1>3, OpenFollowed
<1>4. CASE ParseElement
  BY <1>4, ElementFollowed
<1>5. CASE ParseName
  BY <1>5, NameFollowed
<1>6. CASE ParseColon
  BY <1>6, ColonFollowed
<1>7. CASE ParseAfter
  BY <1>7, ChildFollowed
<1>8. CASE ParseEnd
  BY <1>8, EndFollowed
<1>9. CASE ParseUnwind
  BY <1>9, FailFollowed DEF ParseUnwind
<1>10. CASE ParseFail
  BY <1>10, FailFollowed DEF ParseFail
<1>11. QED
  BY <1>1, <1>2, <1>3, <1>4, <1>5, <1>6, <1>7, <1>8, <1>9, <1>10 DEF ParseNext
-----------------------------------------------------------------------------
(***************************************************************************)
(* A parse takes what the text says.                                       *)
(***************************************************************************)

\* What is read of the text is followed by what it says, besides.
ReadInv == FullInv /\ Followed

\* A step that leaves the parser alone.
LEMMA StillFollowed ==
  ASSUME Followed, UNCHANGED parseVars
  PROVE  Followed'
<1>1. UNCHANGED <<text, length, offset, frames, value, end, pc>>
  BY DEF parseVars
<1>2. Top' = Top /\ Said(frames)' = Said(frames) /\ Before(frames)' = Before(frames)
  BY <1>1 DEF Top
<1>3. QED
  BY <1>1, <1>2, Zenon DEF Followed

\* The inductive invariant holds at the start, and every step keeps it.
LEMMA ReadInvariant == Spec => []ReadInv
<1>1. Init => Followed
  BY DEF Init, ParseInit, Followed
<1>2. FullInv /\ Followed /\ [Next]_vars => Followed'
  <2>1. SUFFICES ASSUME FullInv, Followed, [Next]_vars PROVE Followed'
    OBVIOUS
  <2>2. Parsing /\ Treed
    BY <2>1 DEF FullInv, Inv
  <2>3. CASE UNCHANGED parseVars
    BY <2>1, <2>3, StillFollowed
  <2>4. CASE ParseText
    <3>1. ParseNext
      BY <2>4 DEF ParseText
    <3>2. QED
      BY <2>1, <2>2, <3>1, FollowedStep
  <2>5. CASE ParseAgain
    <3>1. pc' = "start"
      BY <2>5 DEF ParseAgain
    <3>2. QED
      BY <3>1, FailFollowed
  <2>6. QED
    BY <2>1, <2>3, <2>4, <2>5 DEF Next, PrintValue, vars
<1>3. QED
  BY <1>1, <1>2, FullInvariant, PTL DEF Spec, ReadInv

\* cJSON_ParseWithLengthOpts reads what the text says: the text up to the
\* character where the parser stopped is, but for blanks, the layout of the
\* value, so parse_array, parse_object and parse_string take no comma, colon,
\* quotation mark or bracket that is missing, and pass over none.
THEOREM ParsedIsTextCorrect == Spec => []ParsedIsText
<1>1. ReadInv => ParsedIsText
  <2>1. SUFFICES ASSUME ReadInv, pc = "parsed"
                 PROVE  Reading(SubSeq(text, IF text[1] = "B" THEN 2 ELSE 1, end))
                          = [where |-> "outside", out |-> Layout(value.node, FALSE)]
    BY Zenon DEF ParsedIsText
  <2>2. Reading(SubSeq(text, Base(text), end)) = Outside(Plain(0)[value.node])
    BY <2>1, Zenon DEF ReadInv, Followed, Sounds
  <2>3. Plain(0)[value.node] = Layout(value.node, FALSE)
    <3>1. CJSON_NESTING_LIMIT - 0 = CJSON_NESTING_LIMIT
      BY LimitAssumption
    <3>2. QED
      BY <3>1, Zenon DEF Plain, TextAt, Layout
  <2>4. QED
    BY <2>2, <2>3, Zenon DEF Outside, Base
<1>2. QED
  BY <1>1, ReadInvariant, PTL
-----------------------------------------------------------------------------
(***************************************************************************)
(* What is ahead of the parser, and how it passes blanks and characters.   *)
(***************************************************************************)

\* Blanks, and a text with blanks before it.
Blanked == Seq({"w"})
Padded(w, u) == \E s \in Blanked : w = Join(s, u)

\* From the offset o on there is w, and then the null character.
Ahead(o, w) ==
  /\ o \in Nat /\ w \in Word /\ o + Len(w) + 1 = length
  /\ \A i \in 1..Len(w) : At(o + i - 1) = w[i]
Ended == text \in Chars /\ length = Len(text) /\ At(length - 1) = Nul

\* Where a walk over characters of a kind ends.
LEMMA PassingIs ==
  ASSUME length \in Nat, NEW S, NEW o \in 0..length, NEW p \in o..length,
         p < length => At(p) \notin S,
         \A j \in o..p - 1 : At(j) \in S
  PROVE  Passing(S, o) = p
<1> DEFINE q == Passing(S, o)
<1>1. q \in o..length /\ (q < length => At(q) \notin S)
  BY PassingInside
<1>2. \A j \in o..q - 1 : j < length /\ At(j) \in S
  BY PassingPassed
<1> HIDE DEF q
<1>3. ~(q < p)
  <2>1. SUFFICES ASSUME q < p PROVE FALSE
    OBVIOUS
  <2>2. q \in o..p - 1 /\ q < length
    BY <1>1, <2>1
  <2>3. QED
    BY <2>2, <1>1
<1>4. ~(p < q)
  <2>1. SUFFICES ASSUME p < q PROVE FALSE
    OBVIOUS
  <2>2. p \in o..q - 1
    BY <1>1, <2>1
  <2>3. QED
    BY <2>2, <1>2
<1>5. q = p
  BY <1>1, <1>3, <1>4
<1>6. QED
  BY <1>5 DEF q

\* Blanks are a word.
LEMMA BlankedWord ==
  ASSUME NEW s \in Blanked
  PROVE  s \in Word /\ Len(s) \in Nat /\ \A i \in 1..Len(s) : s[i] = "w"
<1>1. "w" \in Letter
  BY Letters
<1>2. {"w"} \subseteq Character \ {Nul}
  BY <1>1 DEF Letter
<1>3. s \in Word
  BY <1>2 DEF Blanked, Word
<1>4. Len(s) \in Nat /\ \A i \in 1..Len(s) : s[i] = "w"
  BY DEF Blanked
<1>5. QED
  BY <1>3, <1>4

\* Where a text begins there is its first character.
LEMMA AheadBegin ==
  ASSUME NEW o, NEW w, Ahead(o, w)
  PROVE  /\ o \in Nat /\ o < length /\ length \in Nat
         /\ Len(w) > 0 => At(o) = w[1]
<1>1. w \in Word /\ Len(w) \in Nat /\ o \in Nat /\ o + Len(w) + 1 = length
  BY WordLength DEF Ahead
<1>2. ASSUME Len(w) > 0 PROVE At(o) = w[1]
  <2>1. 1 \in 1..Len(w) /\ o + 1 - 1 = o
    BY <1>1, <1>2
  <2>2. At(o + 1 - 1) = w[1]
    BY <2>1 DEF Ahead
  <2>3. QED
    BY <2>1, <2>2
<1>3. QED
  BY <1>1, <1>2

\* Of two texts the first is passed.
LEMMA AheadOn ==
  ASSUME NEW o, NEW a \in Word, NEW b \in Word, Ahead(o, Join(a, b))
  PROVE  /\ Ahead(o + Len(a), b) /\ o \in Nat /\ Len(a) \in Nat
         /\ o + Len(a) < length
         /\ \A i \in 1..Len(a) : At(o + i - 1) = a[i]
<1> DEFINE w == Join(a, b)
<1>1. Len(a) \in Nat /\ Len(b) \in Nat /\ o \in Nat
  BY WordLength DEF Ahead
<1>2. Len(w) = Len(a) + Len(b)
      /\ \A i \in 1..Len(a) + Len(b) : w[i] = IF i <= Len(a) THEN a[i] ELSE b[i - Len(a)]
  BY JoinProperties DEF Word
<1>3. o + Len(w) + 1 = length /\ \A i \in 1..Len(w) : At(o + i - 1) = w[i]
  BY DEF Ahead
<1> HIDE DEF w
<1>4. ASSUME NEW i \in 1..Len(a) PROVE At(o + i - 1) = a[i]
  <2>1. i \in 1..Len(w) /\ i \in 1..Len(a) + Len(b) /\ i <= Len(a)
    BY <1>1, <1>2
  <2>2. QED
    BY <2>1, <1>2, <1>3
<1>5. ASSUME NEW i \in 1..Len(b) PROVE At(o + Len(a) + i - 1) = b[i]
  <2> DEFINE j == Len(a) + i
  <2>1. j \in 1..Len(w) /\ j \in 1..Len(a) + Len(b) /\ ~(j <= Len(a)) /\ j - Len(a) = i
        /\ o + Len(a) + i - 1 = o + j - 1
    BY <1>1, <1>2
  <2> HIDE DEF j
  <2>2. At(o + j - 1) = w[j] /\ w[j] = b[j - Len(a)]
    BY <2>1, <1>2, <1>3
  <2>3. QED
    BY <2>1, <2>2
<1>6. o + Len(a) \in Nat /\ o + Len(a) + Len(b) + 1 = length /\ o + Len(a) < length
  BY <1>1, <1>2, <1>3
<1>7. Ahead(o + Len(a), b)
  BY <1>5, <1>6 DEF Ahead
<1>8. QED
  BY <1>1, <1>4, <1>6, <1>7

\* A mark is passed.
LEMMA AheadMark ==
  ASSUME NEW o, NEW c \in Letter, NEW b \in Word, Ahead(o, Join(Mark(c), b))
  PROVE  o \in Nat /\ o < length /\ At(o) = c /\ Ahead(o + 1, b)
<1>1. Mark(c) \in Word
  BY LetterWord
<1>2. Len(Mark(c)) = 1 /\ Mark(c)[1] = c
  BY DEF Mark
<1>3. /\ Ahead(o + Len(Mark(c)), b) /\ o \in Nat /\ o + Len(Mark(c)) < length
      /\ \A i \in 1..Len(Mark(c)) : At(o + i - 1) = Mark(c)[i]
  BY <1>1, AheadOn
<1>4. Ahead(o + 1, b) /\ o + 1 < length /\ At(o + 1 - 1) = c
  BY <1>2, <1>3
<1>5. o + 1 - 1 = o /\ length \in Nat
  BY <1>3, <1>4, AheadBegin
<1>6. QED
  BY <1>3, <1>4, <1>5

\* Blanks are skipped.
LEMMA AheadSkip ==
  ASSUME NEW o, NEW w, NEW u \in Word, Ahead(o, w), Padded(w, u), Len(u) > 0, u[1] # "w"
  PROVE  /\ Ahead(buffer_skip_whitespace(o), u)
         /\ buffer_skip_whitespace(o) \in Nat /\ buffer_skip_whitespace(o) < length
         /\ At(buffer_skip_whitespace(o)) = u[1]
<1>1. PICK s \in Blanked : w = Join(s, u)
  BY DEF Padded
<1>2. s \in Word /\ Len(s) \in Nat /\ \A i \in 1..Len(s) : s[i] = "w"
  BY BlankedWord
<1> DEFINE p == o + Len(s)
<1>3. /\ Ahead(p, u) /\ o \in Nat /\ p < length
      /\ \A i \in 1..Len(s) : At(o + i - 1) = s[i]
  BY <1>1, <1>2, AheadOn
<1>4. length \in Nat /\ o < length /\ At(p) = u[1] /\ p \in o..length
  BY <1>2, <1>3, AheadBegin
<1>5. u[1] \notin {"w", Nul}
  <2>1. 1 \in 1..Len(u)
    BY WordLength
  <2>2. u[1] \in Letter
    BY <2>1, WordLength
  <2>3. QED
    BY <2>2 DEF Letter
<1>6. ASSUME NEW j \in o..p - 1 PROVE At(j) \in {"w", Nul}
  <2>1. j - o + 1 \in 1..Len(s) /\ o + (j - o + 1) - 1 = j
    BY <1>2, <1>3
  <2>2. QED
    BY <2>1, <1>2, <1>3
<1> HIDE DEF p
<1>7. Passing({"w", Nul}, o) = p
  <2>1. o \in 0..length
    BY <1>3, <1>4
  <2>2. QED
    BY <2>1, <1>4, <1>5, <1>6, PassingIs
<1>8. buffer_skip_whitespace(o) = p
  BY <1>3, <1>4, <1>7 DEF buffer_skip_whitespace, CanAccess
<1>9. p \in Nat
  BY <1>3, <1>4
<1>10. QED
  BY <1>3, <1>4, <1>8, <1>9
-----------------------------------------------------------------------------
(***************************************************************************)
(* Numbers and strings that are ahead of the parser.                       *)
(***************************************************************************)

\* What is left of a sequence behind its first k members.
Drop(s, k) == SubSeq(s, k + 1, Len(s))

\* A numeral is read up to its end, if no digit follows.
LEMMA AheadNumber ==
  ASSUME Ended, NEW o, NEW c \in Word, Numeral(c), NEW t \in Word,
         Ahead(o, Join(c, t)), t = Void \/ t[1] # "1"
  PROVE  /\ o < length /\ At(o) \in {"1", "-"}
         /\ NumberEnd(o) = o + Len(c) /\ NumberEnd(o) # o
         /\ SubSeq(text, o + 1, NumberEnd(o)) = c
         /\ Ahead(NumberEnd(o), t)
<1> DEFINE p == o + Len(c)
           first_ == IF At(o) = "-" THEN o + 1 ELSE o
<1>1. /\ Ahead(p, t) /\ o \in Nat /\ Len(c) \in Nat /\ p < length
      /\ \A i \in 1..Len(c) : At(o + i - 1) = c[i]
  BY AheadOn
<1>2. length \in Nat /\ p \in Nat /\ (Len(t) > 0 => At(p) = t[1])
  BY <1>1, AheadBegin
<1>3. c # <<>> /\ c # <<"-">> /\ \A i \in 1..Len(c) : c[i] = "1" \/ (i = 1 /\ c[i] = "-")
  BY DEF Numeral, Word
<1>4. Len(c) > 0
  BY <1>1, <1>3 DEF Word
<1>5. At(o) = c[1]
  <2>1. 1 \in 1..Len(c) /\ o + 1 - 1 = o
    BY <1>1, <1>4
  <2>2. QED
    BY <2>1, <1>1
<1>6. c[1] = "-" => Len(c) >= 2
  <2>1. Len(c) = 1 /\ c[1] = "-" => c = <<"-">>
    BY DEF Word
  <2>2. c[1] = "-" => Len(c) # 1
    BY <2>1, <1>3
  <2>3. Len(c) \in Nat /\ Len(c) > 0
    BY <1>1, <1>4
  <2>4. \A n \in Nat : n > 0 => n = 1 \/ n >= 2
    OBVIOUS
  <2>5. QED
    BY <2>2, <2>3, <2>4, Zenon
<1>7. At(p) \notin Digits
  <2>1. CASE t = Void
    <3>1. Len(t) = 0
      BY <2>1 DEF Void
    <3>2. p + 1 = length
      BY <3>1, <1>1 DEF Ahead
    <3>3. p = length - 1
      BY <3>2, <1>2
    <3>4. At(p) = Nul
      BY <3>3 DEF Ended
    <3>5. QED
      BY <3>4 DEF Nul, Digits
  <2>2. CASE t # Void
    <3>1. Len(t) > 0
      BY <2>2, WordLength DEF Void, Word
    <3>2. QED
      BY <3>1, <1>2, <2>2 DEF Digits
  <2>3. QED
    BY <2>1, <2>2
<1>8. first_ \in 0..length /\ p \in first_..length /\ p # first_
  <2>1. first_ \in Nat /\ first_ <= p /\ p # first_
    <3>1. CASE At(o) = "-"
      <4>1. first_ = o + 1 /\ Len(c) >= 2
        BY <3>1, <1>5, <1>6
      <4> HIDE DEF first_, p
      <4>2. p = o + Len(c)
        BY DEF p
      <4>3. QED
        BY <4>1, <4>2, <1>1
    <3>2. CASE At(o) # "-"
      <4>1. first_ = o
        BY <3>2
      <4>2. QED
        BY <4>1, <1>1, <1>4
    <3>3. QED
      BY <3>1, <3>2
  <2> HIDE DEF first_
  <2>2. QED
    BY <2>1, <1>1, <1>2
<1>9. ASSUME NEW j \in first_..p - 1 PROVE At(j) \in Digits
  <2> DEFINE i == j - o + 1
  <2>1. i \in 1..Len(c) /\ o + i - 1 = j
    BY <1>1
  <2>2. i = 1 => j = o
    BY <1>1
  <2> HIDE DEF i
  <2>3. At(j) = c[i] /\ (c[i] = "1" \/ (i = 1 /\ c[i] = "-"))
    BY <2>1, <1>1, <1>3
  <2>4. ~(i = 1 /\ c[i] = "-")
    BY <1>1, <1>5, <2>2
  <2>5. QED
    BY <2>3, <2>4 DEF Digits
<1>10. Passing(Digits, first_) = p
  BY <1>2, <1>7, <1>8, <1>9, PassingIs
<1>11. NumberEnd(o) = p /\ p # o
  BY <1>1, <1>4, <1>8, <1>10 DEF NumberEnd
<1>12. SubSeq(text, o + 1, p) = c
  <2>1. o <= p /\ p - o = Len(c)
    BY <1>1
  <2>2. ASSUME NEW i \in o + 1..p PROVE text[i] \in Letter
    <3>1. i - o \in 1..Len(c) /\ o + (i - o) - 1 + 1 = i
      BY <1>1
    <3>2. text[i] = c[i - o]
      BY <3>1, <1>1 DEF At
    <3>3. QED
      BY <3>1, <3>2, WordLength
  <2>3. /\ SubSeq(text, o + 1, p) \in Seq(Letter) /\ Len(SubSeq(text, o + 1, p)) = p - o
        /\ \A i \in 1..p - o : SubSeq(text, o + 1, p)[i] = text[o + i]
    BY <1>1, <1>2, <2>1, <2>2, CutProperties
  <2>4. \A i \in 1..Len(c) : text[o + i] = c[i]
    <3>1. ASSUME NEW i \in 1..Len(c) PROVE text[o + i] = c[i]
      <4>1. At(o + i - 1) = c[i] /\ o + i - 1 + 1 = o + i
        BY <1>1
      <4>2. QED
        BY <4>1 DEF At
    <3>2. QED
      BY <3>1
  <2>5. c \in Seq(Letter)
    BY DEF Word, Letter
  <2> DEFINE y == SubSeq(text, o + 1, p)
  <2> HIDE DEF y, p
  <2>6. y \in Seq(Letter) /\ Len(y) = Len(c) /\ \A i \in 1..Len(y) : y[i] = c[i]
    BY <2>1, <2>3, <2>4 DEF y
  <2>7. y = c
    BY <2>5, <2>6, SameSequence
  <2>8. QED
    BY <2>7 DEF y
<1>13. At(o) \in {"1", "-"} /\ o < length
  <2>1. 1 \in 1..Len(c)
    BY <1>1, <1>4
  <2>2. QED
    BY <2>1, <1>1, <1>2, <1>3, <1>5
<1>14. QED
  BY <1>1, <1>11, <1>12, <1>13

\* What is left of a sequence.
LEMMA DropFacts ==
  ASSUME NEW S, NEW s \in Seq(S), NEW k \in 0..Len(s)
  PROVE  /\ Drop(s, k) \in Seq(S) /\ Len(Drop(s, k)) = Len(s) - k /\ Len(s) \in Nat
         /\ \A i \in 1..Len(s) - k : Drop(s, k)[i] = s[k + i]
         /\ k = Len(s) => Drop(s, k) = <<>>
         /\ k < Len(s) => /\ Drop(s, k) # <<>> /\ Drop(s, k)[1] = s[k + 1]
                          /\ Tail(Drop(s, k)) = Drop(s, k + 1)
<1>1. Len(s) \in Nat /\ k \in Nat /\ k <= Len(s)
  OBVIOUS
<1>2. /\ Drop(s, k) \in Seq(S) /\ Len(Drop(s, k)) = Len(s) - k
      /\ \A i \in 1..Len(s) - k : Drop(s, k)[i] = s[k + i]
  BY <1>1, CutProperties DEF Drop
<1>3. ASSUME k < Len(s) PROVE Drop(s, k)[1] = s[k + 1] /\ Drop(s, k) # <<>>
  <2>1. 1 \in 1..Len(s) - k /\ Len(Drop(s, k)) # 0
    BY <1>1, <1>2, <1>3
  <2>2. QED
    BY <2>1, <1>2
<1>4. ASSUME k < Len(s) PROVE Tail(Drop(s, k)) = Drop(s, k + 1)
  <2> DEFINE d == Drop(s, k)
             e == Drop(s, k + 1)
  <2>1. k + 1 \in Nat /\ k + 1 <= Len(s)
    BY <1>1, <1>4
  <2>2. /\ e \in Seq(S) /\ Len(e) = Len(s) - (k + 1)
        /\ \A i \in 1..Len(s) - (k + 1) : e[i] = s[k + 1 + i]
    BY <1>1, <2>1, CutProperties DEF Drop
  <2>3. d \in Seq(S) /\ d # <<>> /\ Len(d) = Len(s) - k /\ \A i \in 1..Len(s) - k : d[i] = s[k + i]
    BY <1>2, <1>3, <1>4
  <2> HIDE DEF d, e
  <2>4. Tail(d) \in Seq(S) /\ Len(Tail(d)) = Len(d) - 1
        /\ \A i \in 1..Len(d) - 1 : Tail(d)[i] = d[i + 1]
    BY <2>3
  <2>5. \A i \in 1..Len(Tail(d)) : Tail(d)[i] = e[i]
    <3>1. ASSUME NEW i \in 1..Len(Tail(d)) PROVE Tail(d)[i] = e[i]
      <4>1. i \in 1..Len(d) - 1 /\ i + 1 \in 1..Len(s) - k /\ i \in 1..Len(s) - (k + 1)
            /\ k + (i + 1) = k + 1 + i
        BY <1>1, <2>3, <2>4
      <4>2. QED
        BY <4>1, <2>2, <2>3, <2>4
    <3>2. QED
      BY <3>1
  <2>6. Len(Tail(d)) = Len(e)
    BY <1>1, <2>2, <2>3, <2>4
  <2>7. Tail(d) = e
    BY <2>2, <2>4, <2>5, <2>6, SameSequence
  <2>8. QED
    BY <2>7 DEF d, e
<1>5. k = Len(s) => Drop(s, k) = <<>>
  <2>1. k = Len(s) => Len(Drop(s, k)) = 0
    BY <1>1, <1>2
  <2>2. QED
    BY <2>1, <1>2
<1>6. QED
  BY <1>1, <1>2, <1>3, <1>4, <1>5

\* Nothing is left out.
LEMMA DropNothing ==
  ASSUME NEW S, NEW s \in Seq(S)
  PROVE  Drop(s, 0) = s
<1>1. Len(s) \in Nat /\ 0 \in 0..Len(s)
  OBVIOUS
<1>2. /\ Drop(s, 0) \in Seq(S) /\ Len(Drop(s, 0)) = Len(s) - 0
      /\ \A i \in 1..Len(s) - 0 : Drop(s, 0)[i] = s[0 + i]
  BY <1>1, DropFacts
<1>3. Len(Drop(s, 0)) = Len(s) /\ \A i \in 1..Len(s) : Drop(s, 0)[i] = s[i]
  BY <1>1, <1>2
<1>4. QED
  BY <1>2, <1>3, SameSequence

\* The characters of a string are escaped one after the other.
LEMMA EscapedFirst ==
  ASSUME NEW s \in Word, s # <<>>
  PROVE  /\ Escaped(s) = Join(EscapedPart(s[1]), Escaped(Tail(s)))
         /\ s[1] \in Letter /\ Tail(s) \in Word
         /\ EscapedPart(s[1]) \in Word /\ Escaped(Tail(s)) \in Word
<1> DEFINE t == Tail(s)
           a == [i \in 1..Len(s) |-> EscapedPart(s[i])]
           b == [i \in 1..Len(t) |-> EscapedPart(t[i])]
<1>1. Len(s) \in Nat /\ Len(s) > 0 /\ s[1] \in Letter
  BY DEF Word, Letter
<1>2. t \in Word /\ Len(t) = Len(s) - 1 /\ \A i \in 1..Len(t) : t[i] = s[i + 1]
  BY <1>1 DEF Word
<1> HIDE DEF t
<1>3. a \in Seq(Word) /\ Escaped(s) = FlattenSeq(a)
  BY EscapedParts
<1>4. b \in Seq(Word) /\ Escaped(t) = FlattenSeq(b) /\ Escaped(t) \in Word
  BY <1>2, EscapedParts
<1>5. Len(a) = Len(s) /\ Len(b) = Len(t)
  BY <1>1, <1>2
<1>6. \A i \in 1..Len(b) : b[i] = a[i + 1]
  <2>1. ASSUME NEW i \in 1..Len(b) PROVE b[i] = a[i + 1]
    <3>1. i \in 1..Len(t) /\ i + 1 \in 1..Len(s) /\ t[i] = s[i + 1]
      BY <1>1, <1>2, <1>5
    <3>2. QED
      BY <3>1
  <2>2. QED
    BY <2>1
<1>7. a[1] = EscapedPart(s[1])
  BY <1>1
<1> HIDE DEF a, b
<1>8. Len(a) = Len(b) + 1
  BY <1>1, <1>2, <1>5
<1>9. FlattenSeq(a) = Join(a[1], FlattenSeq(b))
  BY <1>3, <1>4, <1>6, <1>8, FlattenHead
<1>10. EscapedPart(s[1]) \in Word
  BY <1>1, EscapedPartType
<1>11. Escaped(s) = Join(EscapedPart(s[1]), Escaped(t))
  BY <1>3, <1>4, <1>7, <1>9
<1>12. QED
  BY <1>1, <1>2, <1>4, <1>10, <1>11 DEF t

\* A beginning of a sequence with the character that follows it.
LEMMA CutMore ==
  ASSUME NEW S, NEW s \in Seq(S), NEW k \in 0..Len(s) - 1
  PROVE  Cut(s, k + 1) = Append(Cut(s, k), s[k + 1]) /\ s[k + 1] \in S
<1>1. Len(s) \in Nat /\ k \in 0..Len(s) /\ k + 1 \in 0..Len(s) /\ k + 1 \in 1..Len(s)
  OBVIOUS
<1> DEFINE a == Cut(s, k)
           b == Cut(s, k + 1)
<1>2. a \in Seq(S) /\ Len(a) = k /\ \A i \in 1..k : a[i] = s[i]
  BY <1>1, CutIs
<1>3. b \in Seq(S) /\ Len(b) = k + 1 /\ \A i \in 1..k + 1 : b[i] = s[i]
  BY <1>1, CutIs
<1>4. s[k + 1] \in S
  BY <1>1
<1> HIDE DEF a, b
<1> DEFINE c == Append(a, s[k + 1])
<1>5. c \in Seq(S) /\ Len(c) = k + 1 /\ \A i \in 1..k + 1 : c[i] = IF i = k + 1 THEN s[k + 1] ELSE a[i]
  BY <1>1, <1>2, <1>4
<1> HIDE DEF c
<1>6. \A i \in 1..Len(b) : b[i] = c[i]
  <2>1. ASSUME NEW i \in 1..k + 1 PROVE b[i] = c[i]
    <3>1. i = k + 1 \/ i \in 1..k
      BY <1>1
    <3>2. QED
      BY <3>1, <1>1, <1>2, <1>3, <1>5
  <2>2. QED
    BY <2>1, <1>3
<1>7. b = c
  BY <1>3, <1>5, <1>6, SameSequence
<1>8. QED
  BY <1>4, <1>7 DEF a, b, c

\* Up to p the characters from o on spell the first k characters of s.
Spelt(o, p, s, k) ==
  /\ p \in o..length /\ p - 1 \notin Escapes(o)
  /\ \A j \in o..p - 1 : At(j) = "q" => j - 1 \in Escapes(o)
  /\ \A j \in Escapes(o) \cap o..p - 1 : At(j + 1) \in DOMAIN Unescape
  /\ Contents(o, p) = Cut(s, k)

\* Nothing is spelt at first.
LEMMA SpeltStart ==
  ASSUME Ended, length \in Nat, NEW o \in 0..length, NEW s \in Word
  PROVE  Spelt(o, o, s, 0)
<1>1. Escapes(o) \subseteq o..length - 1
  BY EscapesExist
<1>2. o - 1 \notin Escapes(o) /\ o..o - 1 = {}
  BY <1>1
<1>3. Contents(o, o) = <<>>
  <2> DEFINE g == [k \in 1..o - o |-> ContentsPart(o, k)]
  <2>1. length <= Len(text) /\ o \in o..length
    BY DEF Ended
  <2>2. \A j \in Escapes(o) \cap o..o - 1 : At(j + 1) \in DOMAIN Unescape
    BY <1>2
  <2>3. Contents(o, o) = FlattenSeq(g)
    BY <2>1, <2>2, ContentsParts DEF Ended
  <2>4. g = <<>>
    OBVIOUS
  <2> HIDE DEF g
  <2>5. FlattenSeq(<<>>) = <<>>
    BY FlattenOne, EmptyWord DEF Word
  <2>6. QED
    BY <2>3, <2>4, <2>5
<1>4. Cut(s, 0) = <<>>
  BY DEF Cut, Word
<1>5. QED
  BY <1>2, <1>3, <1>4 DEF Spelt

\* A character that needs no escape is spelt as it is.
LEMMA SpeltPlain ==
  ASSUME Ended, length \in Nat, NEW o \in 0..length, NEW s \in Word, NEW k \in 0..Len(s) - 1,
         NEW p, Spelt(o, p, s, k), p < length, At(p) = s[k + 1], At(p) \notin {"q", "b"}
  PROVE  Spelt(o, p + 1, s, k + 1)
<1> DEFINE e == p + 1
<1>1. /\ Escapes(o) \subseteq o..length - 1
      /\ \A i \in Escapes(o) : At(i) = "b"
  BY EscapesExist
<1>2. /\ p \in o..length /\ p - 1 \notin Escapes(o)
      /\ \A j \in o..p - 1 : At(j) = "q" => j - 1 \in Escapes(o)
      /\ \A j \in Escapes(o) \cap o..p - 1 : At(j + 1) \in DOMAIN Unescape
      /\ Contents(o, p) = Cut(s, k)
  BY Zenon DEF Spelt
<1>3. p \notin Escapes(o) /\ e - 1 = p /\ e \in o..length /\ p \in o..e - 1
  BY <1>1, <1>2
<1>4. \A j \in o..e - 1 : j = p \/ j \in o..p - 1
  BY <1>2
<1> HIDE DEF e
<1>5. \A j \in o..e - 1 : At(j) = "q" => j - 1 \in Escapes(o)
  BY <1>2, <1>4, Zenon
<1>6. \A j \in Escapes(o) \cap o..e - 1 : At(j + 1) \in DOMAIN Unescape
  BY <1>2, <1>3, <1>4, Zenon
<1>7. Contents(o, e) = Append(Contents(o, p), At(p))
  <2>1. text \in Chars /\ length <= Len(text)
    BY DEF Ended
  <2>2. p \notin Escapes(o) =>
          Contents(o, p + 1)
            = Append(Contents(o, p), IF p - 1 \in Escapes(o) THEN Unescape[At(p)] ELSE At(p))
    BY <2>1, <1>3, <1>6, ContentsMore, Zenon
  <2>3. QED
    BY <2>2, <1>2, <1>3, Zenon DEF e
<1>8. Cut(s, k + 1) = Append(Cut(s, k), s[k + 1])
  BY CutMore DEF Word
<1>9. e - 1 \notin Escapes(o)
  BY <1>3
<1>10. Contents(o, e) = Cut(s, k + 1)
  BY <1>2, <1>7, <1>8
<1>11. Spelt(o, e, s, k + 1)
  BY <1>3, <1>5, <1>6, <1>9, <1>10, Zenon DEF Spelt
<1>12. QED
  BY <1>11, Zenon DEF e

\* A character that is escaped is spelt with a backslash.
LEMMA SpeltEscaped ==
  ASSUME Ended, length \in Nat, NEW o \in 0..length, NEW s \in Word, NEW k \in 0..Len(s) - 1,
         NEW p, Spelt(o, p, s, k), p + 1 < length, At(p) = "b",
         At(p + 1) \in DOMAIN Unescape, Unescape[At(p + 1)] = s[k + 1]
  PROVE  Spelt(o, p + 2, s, k + 1)
<1> DEFINE m == p + 1
           e == p + 2
<1>1. /\ Escapes(o) \subseteq o..length - 1
      /\ \A i \in o..length - 1 : At(i) = "b" => (i \in Escapes(o) <=> i - 1 \notin Escapes(o))
      /\ \A i \in Escapes(o) : At(i) = "b"
  BY EscapesExist
<1>2. /\ p \in o..length /\ p - 1 \notin Escapes(o)
      /\ \A j \in o..p - 1 : At(j) = "q" => j - 1 \in Escapes(o)
      /\ \A j \in Escapes(o) \cap o..p - 1 : At(j + 1) \in DOMAIN Unescape
      /\ Contents(o, p) = Cut(s, k)
  BY Zenon DEF Spelt
<1>3. /\ p \in o..length - 1 /\ m \in o..length - 1 /\ e \in o..length
      /\ m - 1 = p /\ e - 1 = m /\ m + 1 = e
      /\ p \in o..e - 1 /\ m \in o..e - 1
  BY <1>2
<1>4. p \in Escapes(o)
  BY <1>1, <1>2, <1>3, Zenon
<1>5. \A j \in o..e - 1 : j = m \/ j = p \/ j \in o..p - 1
  BY <1>2
<1>6. At(m) \in DOMAIN Unescape /\ Unescape[At(m)] = s[k + 1] /\ p + 1 = m
  OBVIOUS
<1> HIDE DEF m, e
<1>7. m \notin Escapes(o)
  BY <1>1, <1>3, <1>4
<1>8. \A j \in o..e - 1 : At(j) = "q" => j - 1 \in Escapes(o)
  <2>1. ASSUME NEW j \in o..e - 1, At(j) = "q" PROVE j - 1 \in Escapes(o)
    <3>1. j # p
      BY <2>1
    <3>2. CASE j = m
      BY <3>2, <1>3, <1>4
    <3>3. CASE j \in o..p - 1
      BY <3>3, <2>1, <1>2
    <3>4. QED
      BY <3>1, <3>2, <3>3, <1>5
  <2>2. QED
    BY <2>1
<1>9. \A j \in Escapes(o) \cap o..e - 1 : At(j + 1) \in DOMAIN Unescape
  BY <1>2, <1>5, <1>6, <1>7, Zenon
<1>10. /\ Contents(o, m) = Contents(o, p)
       /\ Contents(o, e) = Append(Contents(o, m), Unescape[At(m)])
  <2>1. text \in Chars /\ length <= Len(text)
    BY DEF Ended
  <2>2. p \in Escapes(o) => Contents(o, p + 1) = Contents(o, p)
    BY <2>1, <1>3, <1>9, ContentsMore, Zenon
  <2>3. m \notin Escapes(o) =>
          Contents(o, m + 1)
            = Append(Contents(o, m), IF m - 1 \in Escapes(o) THEN Unescape[At(m)] ELSE At(m))
    BY <2>1, <1>3, <1>9, ContentsMore, Zenon
  <2>4. QED
    BY <2>2, <2>3, <1>3, <1>4, <1>6, <1>7
<1>11. Cut(s, k + 1) = Append(Cut(s, k), s[k + 1])
  BY CutMore DEF Word
<1>12. Contents(o, e) = Cut(s, k + 1)
  BY <1>2, <1>6, <1>10, <1>11
<1>13. e - 1 \notin Escapes(o)
  BY <1>3, <1>7
<1>14. Spelt(o, e, s, k + 1)
  BY <1>3, <1>8, <1>9, <1>12, <1>13, Zenon DEF Spelt
<1>15. QED
  BY <1>14, Zenon DEF e

\* What the printer escapes the parser unescapes.
LEMMA EscapeKinds ==
  ASSUME NEW c \in Letter
  PROVE  \/ c \notin {"q", "b"} /\ EscapedPart(c) = Mark(c)
         \/ \E x \in Letter : /\ x \in DOMAIN Unescape /\ Unescape[x] = c
                              /\ EscapedPart(c) = Join(Mark("b"), Mark(x))
<1>1. ASSUME NEW x, NEW y PROVE Join(Mark(x), Mark(y)) = <<x, y>>
  <2> DEFINE S == {x, y}
  <2>1. /\ Mark(x) \in Seq(S) /\ Len(Mark(x)) = 1 /\ Mark(x)[1] = x
        /\ Mark(y) \in Seq(S) /\ Len(Mark(y)) = 1 /\ Mark(y)[1] = y
        /\ <<x, y>> \in Seq(S) /\ Len(<<x, y>>) = 2 /\ <<x, y>>[1] = x /\ <<x, y>>[2] = y
    BY DEF Mark
  <2> DEFINE j == Join(Mark(x), Mark(y))
             z == <<x, y>>
  <2>2. /\ j \in Seq(S) /\ Len(j) = 1 + 1
        /\ \A i \in 1..1 + 1 : j[i] = IF i <= 1 THEN Mark(x)[i] ELSE Mark(y)[i - 1]
    <3>1. /\ j \in Seq(S) /\ Len(j) = Len(Mark(x)) + Len(Mark(y))
          /\ \A i \in 1..Len(Mark(x)) + Len(Mark(y)) :
               j[i] = IF i <= Len(Mark(x)) THEN Mark(x)[i] ELSE Mark(y)[i - Len(Mark(x))]
      BY <2>1, JoinProperties, Zenon
    <3> HIDE DEF j, S
    <3>2. QED
      BY <2>1, <3>1
  <2>3. z \in Seq(S) /\ Len(z) = 2 /\ z[1] = x /\ z[2] = y
    BY <2>1
  <2> HIDE DEF j, z, S
  <2>4. Len(j) = Len(z) /\ j[1] = z[1] /\ j[2] = z[2]
    BY <2>1, <2>2, <2>3
  <2>5. \A i \in 1..Len(j) : j[i] = z[i]
    <3>1. \A i \in 1..Len(j) : i = 1 \/ i = 2
      BY <2>2
    <3>2. QED
      BY <3>1, <2>4, Zenon
  <2>6. j = z
    BY <2>2, <2>3, <2>4, <2>5, SameSequence
  <2>7. QED
    BY <2>6 DEF j, z
<1>2. "e" \in Letter /\ "q" \in Letter /\ "b" \in Letter
  BY Letters
<1>3. DOMAIN Unescape = {"q", "b", "e"} /\ Unescape["e"] = "w" /\ Unescape["q"] = "q"
      /\ Unescape["b"] = "b"
  BY DEF Unescape
<1>4. CASE c = "w"
  <2>1. EscapedPart(c) = <<"b", "e">>
    BY <1>4 DEF EscapedPart
  <2>2. QED
    BY <2>1, <1>1, <1>2, <1>3, <1>4, Zenon
<1>5. CASE c = "q"
  <2>1. EscapedPart(c) = <<"b", "q">>
    BY <1>5 DEF EscapedPart
  <2>2. QED
    BY <2>1, <1>1, <1>2, <1>3, <1>5, Zenon
<1>6. CASE c = "b"
  <2>1. EscapedPart(c) = <<"b", "b">>
    BY <1>6 DEF EscapedPart
  <2>2. QED
    BY <2>1, <1>1, <1>2, <1>3, <1>6, Zenon
<1>7. CASE c \notin {"w", "q", "b"}
  BY <1>7 DEF EscapedPart, Mark
<1>8. QED
  BY <1>4, <1>5, <1>6, <1>7

\* The quotation mark that ends a string.
LEMMA StringEndIs ==
  ASSUME length \in Nat, NEW o \in 0..length, NEW p \in o..length, p < length,
         At(p) = "q", p - 1 \notin Escapes(o),
         \A j \in o..p - 1 : At(j) = "q" => j - 1 \in Escapes(o)
  PROVE  StringEnd(o) = p
<1> DEFINE T == {i \in o..length : i < length => At(i) = "q" /\ i - 1 \notin Escapes(o)}
           q == StringEnd(o)
<1>1. p \in T /\ T \subseteq Nat
  OBVIOUS
<1>2. T # {}
  BY <1>1
<1>3. q \in T /\ \A y \in T : q <= y
  BY <1>1, <1>2, MinIsLeast DEF StringEnd
<1>4. q \in o..length /\ (q < length => At(q) = "q" /\ q - 1 \notin Escapes(o)) /\ q <= p
  BY <1>1, <1>3
<1> HIDE DEF q, T
<1>5. ~(q < p)
  <2>1. SUFFICES ASSUME q < p PROVE FALSE
    OBVIOUS
  <2>2. q \in o..p - 1 /\ q < length
    BY <2>1, <1>4
  <2>3. QED
    BY <2>2, <1>4
<1>6. q = p
  BY <1>4, <1>5
<1>7. QED
  BY <1>6 DEF q

\* The first k characters of s have been passed, and u follows the others.
SpeltSoFar(o, s, k, u) ==
  \E p : Spelt(o, p, s, k) /\ Ahead(p, Join(Escaped(Drop(s, k)), u))

\* The next character is passed.
LEMMA SpeltMore ==
  ASSUME Ended, length \in Nat, NEW o \in 0..length, NEW s \in Word, NEW k \in 0..Len(s) - 1,
         NEW u \in Word, SpeltSoFar(o, s, k, u)
  PROVE  SpeltSoFar(o, s, k + 1, u)
<1> DEFINE d == Drop(s, k)
           e == Drop(s, k + 1)
           c == s[k + 1]
<1>1. PICK p : Spelt(o, p, s, k) /\ Ahead(p, Join(Escaped(d), u))
  BY DEF SpeltSoFar
<1>2. /\ d \in Word /\ d # <<>> /\ d[1] = c /\ Tail(d) = e
  <2>1. k \in 0..Len(s) /\ k < Len(s)
    BY WordLength
  <2>2. s \in Seq(Character \ {Nul})
    BY DEF Word
  <2>3. QED
    BY <2>1, <2>2, DropFacts DEF Word
<1> HIDE DEF d, e, c
<1>3. /\ Escaped(d) = Join(EscapedPart(c), Escaped(e))
      /\ c \in Letter /\ EscapedPart(c) \in Word /\ Escaped(e) \in Word
  BY <1>2, EscapedFirst
<1>4. Ahead(p, Join(EscapedPart(c), Join(Escaped(e), u))) /\ Join(Escaped(e), u) \in Word
  <2> DEFINE b == EscapedPart(c)
             r == Escaped(e)
  <2>1. b \in Word /\ r \in Word /\ Escaped(d) = Join(b, r)
    BY <1>3
  <2> HIDE DEF b, r
  <2>2. Join(Join(b, r), u) = Join(b, Join(r, u)) /\ Join(r, u) \in Word
    BY <2>1, JoinAssociative, JoinType
  <2>3. QED
    BY <2>1, <2>2, <1>1, Zenon DEF b, r
<1>5. CASE c \notin {"q", "b"} /\ EscapedPart(c) = Mark(c)
  <2>1. Ahead(p, Join(Mark(c), Join(Escaped(e), u)))
    BY <1>4, <1>5, Zenon
  <2>2. p < length /\ At(p) = c /\ Ahead(p + 1, Join(Escaped(e), u))
    BY <2>1, <1>3, <1>4, AheadMark, Zenon
  <2>3. Spelt(o, p + 1, s, k + 1)
    BY <2>2, <1>1, <1>5, SpeltPlain, Zenon DEF c
  <2>4. QED
    BY <2>2, <2>3, Zenon DEF SpeltSoFar, e
<1>6. ASSUME NEW x \in Letter, x \in DOMAIN Unescape, Unescape[x] = c,
             EscapedPart(c) = Join(Mark("b"), Mark(x))
      PROVE  SpeltSoFar(o, s, k + 1, u)
  <2>1. "b" \in Letter /\ Mark("b") \in Word /\ Mark(x) \in Word
    BY Letters, LetterWord
  <2> DEFINE r == Join(Escaped(e), u)
  <2>2. r \in Word /\ Join(Mark(x), r) \in Word
    BY <1>4, <2>1, JoinType, Zenon
  <2> HIDE DEF r
  <2>3. Ahead(p, Join(Join(Mark("b"), Mark(x)), r))
    BY <1>4, <1>6, Zenon DEF r
  <2>4. Join(Join(Mark("b"), Mark(x)), r) = Join(Mark("b"), Join(Mark(x), r))
    BY <2>1, <2>2, JoinAssociative, Zenon
  <2>5. Ahead(p, Join(Mark("b"), Join(Mark(x), r)))
    BY <2>3, <2>4, Zenon
  <2>6. p \in Nat /\ At(p) = "b" /\ Ahead(p + 1, Join(Mark(x), r))
    BY <2>1, <2>2, <2>5, AheadMark, Zenon
  <2>7. p + 1 < length /\ At(p + 1) = x /\ Ahead(p + 1 + 1, r)
    BY <2>2, <2>6, AheadMark, Zenon
  <2>8. Spelt(o, p + 2, s, k + 1)
    BY <2>6, <2>7, <1>1, <1>6, SpeltEscaped, Zenon DEF c
  <2>9. p + 1 + 1 = p + 2
    BY <2>6
  <2>10. Ahead(p + 2, r)
    BY <2>7, <2>9
  <2>11. QED
    BY <2>8, <2>10, Zenon DEF SpeltSoFar, e, r
<1>7. QED
  BY <1>3, <1>5, <1>6, EscapeKinds

\* A quoted string is read up to its closing quotation mark, as it was.
LEMMA AheadString ==
  ASSUME Ended, NEW o, NEW s \in Word, NEW t \in Word, Ahead(o, Join(Quoted(s), t)),
         NEW a, a = o + 1
  PROVE  /\ o \in Nat /\ o < length /\ At(o) = "q"
         /\ a \in 0..length /\ StringEnd(a) \in a..length - 1
         /\ \A i \in Escapes(a) \cap a..StringEnd(a) - 1 : At(i + 1) \in DOMAIN Unescape
         /\ Contents(a, StringEnd(a)) = s
         /\ Ahead(StringEnd(a) + 1, t)
<1> DEFINE u == Join(Mark("q"), t)
           n == Len(s)
<1>1. "q" \in Letter /\ Mark("q") \in Word /\ Escaped(s) \in Word /\ n \in Nat
      /\ Quoted(s) = Join(Mark("q"), Join(Escaped(s), Mark("q")))
  BY Letters, LetterWord, EscapedParts, QuotedType, WordLength
<1>2. u \in Word /\ Join(Escaped(s), u) \in Word /\ Join(Escaped(s), Mark("q")) \in Word
  BY <1>1, JoinType, Zenon
<1>3. Join(Quoted(s), t) = Join(Mark("q"), Join(Escaped(s), u))
  <2> DEFINE q == Mark("q")
             e == Escaped(s)
  <2>1. q \in Word /\ e \in Word /\ Join(e, q) \in Word /\ Quoted(s) = Join(q, Join(e, q))
    BY <1>1, <1>2
  <2> HIDE DEF q, e
  <2>2. Join(Join(q, Join(e, q)), t) = Join(q, Join(Join(e, q), t))
    BY <2>1, JoinAssociative
  <2>3. Join(Join(e, q), t) = Join(e, Join(q, t))
    BY <2>1, JoinAssociative
  <2>4. QED
    BY <2>1, <2>2, <2>3, Zenon DEF q, e
<1> HIDE DEF u, n
<1>4. o \in Nat /\ o < length /\ At(o) = "q" /\ Ahead(a, Join(Escaped(s), u))
  BY <1>1, <1>2, <1>3, AheadMark, Zenon
<1>5. length \in Nat /\ a \in 0..length
  BY <1>4, AheadBegin
<1>6. SpeltSoFar(a, s, 0, u)
  <2>1. Spelt(a, a, s, 0)
    BY <1>5, SpeltStart
  <2>2. Drop(s, 0) = s
    BY DropNothing DEF Word
  <2>3. QED
    BY <2>1, <2>2, <1>4 DEF SpeltSoFar
<1>7. SpeltSoFar(a, s, n, u)
  <2> DEFINE S == {k \in 0..n : SpeltSoFar(a, s, k, u)}
  <2>1. 0 \in S
    BY <1>1, <1>6
  <2>2. ASSUME NEW k \in 1..n, k - 1 \in S PROVE k \in S
    <3>1. k - 1 \in 0..Len(s) - 1 /\ k - 1 + 1 = k /\ k \in 0..n
      BY <1>1 DEF n
    <3>2. SpeltSoFar(a, s, k - 1, u)
      BY <2>2
    <3>3. SpeltSoFar(a, s, k - 1 + 1, u)
      BY <3>1, <3>2, <1>2, <1>5, SpeltMore, Zenon DEF u
    <3>4. QED
      BY <3>1, <3>3
  <2> HIDE DEF S
  <2>3. \A k \in 0..n : k \in S
    BY <2>1, <2>2, <1>1, ClimbUp
  <2>4. QED
    BY <2>3, <1>1 DEF S
<1>8. PICK p : Spelt(a, p, s, n) /\ Ahead(p, Join(Escaped(Drop(s, n)), u))
  BY <1>7, Zenon DEF SpeltSoFar
<1>9. Escaped(Drop(s, n)) = Void
  <2>1. Drop(s, n) = <<>>
    BY <1>1, DropFacts DEF n, Word
  <2>2. Escaped(<<>>) = Void
    <3>1. [i \in 1..0 |-> EscapedPart(<<>>[i])] = <<>> /\ Len(<<>>) = 0
      OBVIOUS
    <3>2. FlattenSeq(<<>>) = <<>>
      BY FlattenOne, EmptyWord DEF Word
    <3>3. <<>> \in Word
      BY EmptyWord DEF Void
    <3>4. Escaped(<<>>) = FlattenSeq([i \in 1..Len(<<>>) |-> EscapedPart(<<>>[i])])
      BY <3>3, EscapedParts
    <3>5. QED
      BY <3>1, <3>2, <3>4 DEF Void
  <2>3. QED
    BY <2>1, <2>2
<1>10. Ahead(p, u)
  BY <1>2, <1>8, <1>9, JoinEmpty, Zenon DEF u
<1>11. p \in Nat /\ p < length /\ At(p) = "q" /\ Ahead(p + 1, t)
  BY <1>1, <1>10, AheadMark, Zenon DEF u
<1>12. /\ p \in a..length /\ p - 1 \notin Escapes(a)
       /\ \A j \in a..p - 1 : At(j) = "q" => j - 1 \in Escapes(a)
       /\ \A j \in Escapes(a) \cap a..p - 1 : At(j + 1) \in DOMAIN Unescape
       /\ Contents(a, p) = Cut(s, n)
  BY <1>8, Zenon DEF Spelt
<1>13. StringEnd(a) = p
  BY <1>5, <1>11, <1>12, StringEndIs
<1>14. Cut(s, n) = s
  <2>1. s \in Seq(Letter) /\ Len(s) <= Len(s)
    BY <1>1 DEF Word, Letter, n
  <2>2. QED
    BY <2>1, CutWord DEF n
<1>15. p \in a..length - 1
  BY <1>5, <1>11, <1>12
<1>16. QED
  BY <1>4, <1>5, <1>11, <1>12, <1>13, <1>14, <1>15, Zenon
-----------------------------------------------------------------------------
(***************************************************************************)
(* The printed text of a container, child by child: what is before a       *)
(* child, its value, and what is behind it.                                *)
(***************************************************************************)

\* No blanks, and blanks before blanks.
LEMMA PadNone ==
  ASSUME NEW u \in Word
  PROVE  Padded(u, u)
<1>1. Void \in Blanked
  BY DEF Void, Blanked
<1>2. Join(Void, u) = u
  BY JoinEmpty
<1>3. QED
  BY <1>1, <1>2, Zenon DEF Padded

\* More blanks before a text.
LEMMA PadMore ==
  ASSUME NEW s \in Blanked, NEW w, NEW u \in Word, Padded(w, u)
  PROVE  Padded(Join(s, w), u) /\ w \in Word /\ Join(s, w) \in Word
<1>1. PICK r \in Blanked : w = Join(r, u)
  BY Zenon DEF Padded
<1>2. s \in Word /\ r \in Word
  BY BlankedWord
<1>3. Join(s, r) \in Blanked
  BY JoinProperties DEF Blanked
<1>4. Join(s, w) = Join(Join(s, r), u)
  BY <1>1, <1>2, JoinAssociative
<1>5. w \in Word /\ Join(s, w) \in Word
  BY <1>1, <1>2, JoinType
<1>6. QED
  BY <1>3, <1>4, <1>5, Zenon DEF Padded

\* What follows makes no difference.
LEMMA PadTail ==
  ASSUME NEW w, NEW u \in Word, NEW t \in Word, Padded(w, u)
  PROVE  Padded(Join(w, t), Join(u, t)) /\ w \in Word /\ Join(w, t) \in Word /\ Join(u, t) \in Word
<1>1. PICK r \in Blanked : w = Join(r, u)
  BY Zenon DEF Padded
<1>2. r \in Word
  BY BlankedWord
<1>3. Join(w, t) = Join(r, Join(u, t))
  BY <1>1, <1>2, JoinAssociative
<1>4. w \in Word
  BY <1>1, <1>2, JoinType
<1>5. QED
  BY <1>1, <1>3, <1>4, JoinType, Zenon DEF Padded

\* Formatted or not, the space between tokens is blank.
LEMMA SpaceBlanked ==
  ASSUME NEW f, NEW n \in Nat
  PROVE  Space(f, n) \in Blanked
BY DEF Space, Blanked

\* The first character of a text behind blanks.
LEMMA JoinHead ==
  ASSUME NEW a \in Word, NEW b \in Word, Len(a) > 0
  PROVE  Join(a, b)[1] = a[1] /\ Len(Join(a, b)) > 0 /\ Join(a, b) \in Word
<1>1. Len(a) \in Nat /\ Len(b) \in Nat
  BY WordLength
<1>2. /\ Len(Join(a, b)) = Len(a) + Len(b) /\ Join(a, b) \in Word
      /\ \A i \in 1..Len(a) + Len(b) :
           Join(a, b)[i] = IF i <= Len(a) THEN a[i] ELSE b[i - Len(a)]
  BY JoinProperties DEF Word
<1>3. 1 \in 1..Len(a) + Len(b) /\ 1 <= Len(a)
  BY <1>1
<1>4. QED
  BY <1>1, <1>2, <1>3

\* A text behind blanks begins with a blank or with its own first character.
LEMMA PadFirst ==
  ASSUME NEW w, NEW u \in Word, Len(u) > 0, Padded(w, u)
  PROVE  w \in Word /\ Len(w) > 0 /\ (w[1] = "w" \/ w[1] = u[1])
<1>1. PICK r \in Blanked : w = Join(r, u)
  BY Zenon DEF Padded
<1>2. r \in Word /\ Len(r) \in Nat /\ \A i \in 1..Len(r) : r[i] = "w"
  BY BlankedWord
<1>3. CASE Len(r) > 0
  <2>1. w[1] = r[1] /\ Len(w) > 0 /\ w \in Word
    BY <1>1, <1>2, <1>3, JoinHead
  <2>2. 1 \in 1..Len(r)
    BY <1>2, <1>3
  <2>3. QED
    BY <2>1, <2>2, <1>2
<1>4. CASE Len(r) = 0
  <2>1. r = Void
    BY <1>2, <1>4 DEF Void, Word
  <2>2. w = u
    BY <2>1, <1>1, JoinEmpty
  <2>3. QED
    BY <2>2
<1>5. QED
  BY <1>2, <1>3, <1>4

\* The text of a child at depth k: its name and its value.  f says whether the
\* text is formatted, c how the container ends, and T is the text of each value.
Caption(c, name, f) ==
  IF c = "]" THEN Void ELSE Join(Quoted(name), Join(Mark(":"), Space(f, 1)))
Child(kid, c, f, T) == Join(Caption(c, kid.name, f), T[kid.node])

\* The text of children up to the end of the container, and what is behind the
\* i-th child: a comma or nothing, and the rest.
RestOf(c, kids, f, k, T) ==
  IF c = "]" THEN ArrayRest(kids, f, T) ELSE ObjectRest(kids, f, k, T)
Between(c, last, f) ==
  IF last THEN IF c = "]" THEN Void ELSE Space(f, 1) ELSE Join(Mark(","), Space(f, 1))
Behind(c, kids, i, f, k, T) ==
  Join(Between(c, i = Len(kids), f), RestOf(c, Drop(kids, i), f, k, T))

\* There are two closing brackets.
LEMMA OtherBracket ==
  ASSUME NEW c \in Bracket, c # "]"
  PROVE  c = "}"
BY Zenon DEF Bracket

\* What is before the value of a child is a word.
LEMMA CaptionType ==
  ASSUME NEW c, NEW name \in Word, NEW f
  PROVE  /\ Caption(c, name, f) \in Word /\ Quoted(name) \in Word
         /\ Join(Mark(":"), Space(f, 1)) \in Word
<1>1. Quoted(name) \in Word /\ Mark(":") \in Word /\ Space(f, 1) \in Word /\ Void \in Word
  BY QuotedType, MarkWords
<1>2. Join(Mark(":"), Space(f, 1)) \in Word
  BY <1>1, JoinType
<1>3. Join(Quoted(name), Join(Mark(":"), Space(f, 1))) \in Word
  BY <1>1, <1>2, JoinType
<1>4. QED
  BY <1>1, <1>2, <1>3, Zenon DEF Caption

\* The text of a child is a word.
LEMMA ChildType ==
  ASSUME NEW c, NEW f, NEW T, NEW kid, kid.name \in Word, T[kid.node] \in Word
  PROVE  Child(kid, c, f, T) \in Word
<1>1. Caption(c, kid.name, f) \in Word
  BY CaptionType
<1>2. QED
  BY <1>1, JoinType, Zenon DEF Child

\* The rest of the text of a container is a word.
LEMMA RestOfType ==
  ASSUME NEW V, NEW kids \in Seq(Named(V)), NEW c, NEW f, NEW k \in Nat \ {0},
         NEW T, TextsIn(T, V)
  PROVE  RestOf(c, kids, f, k, T) \in Word
<1>1. ArrayRest(kids, f, T) \in Word
  BY ArrayRestType DEF TextsIn
<1>2. ObjectRest(kids, f, k, T) \in Word
  BY ObjectRestType DEF TextsIn
<1>3. QED
  BY <1>1, <1>2, Zenon DEF RestOf

\* What separates two children is a word.
LEMMA BetweenType == \A c, last, f : Between(c, last, f) \in Word
<1>1. ASSUME NEW c, NEW last, NEW f PROVE Between(c, last, f) \in Word
  <2>1. Mark(",") \in Word /\ Space(f, 1) \in Word /\ Void \in Word
    BY MarkWords
  <2>2. Join(Mark(","), Space(f, 1)) \in Word
    BY <2>1, JoinType
  <2>3. QED
    BY <2>1, <2>2, Zenon DEF Between
<1>2. QED
  BY <1>1

\* The children behind the first i.
LEMMA DropKids ==
  ASSUME NEW V, NEW kids \in Seq(Named(V)), NEW i \in 0..Len(kids)
  PROVE  /\ Drop(kids, i) \in Seq(Named(V)) /\ Len(Drop(kids, i)) = Len(kids) - i
         /\ i = Len(kids) => Drop(kids, i) = <<>>
         /\ i < Len(kids) => /\ Drop(kids, i) # <<>> /\ Drop(kids, i)[1] = kids[i + 1]
                             /\ Tail(Drop(kids, i)) = Drop(kids, i + 1)
                             /\ kids[i + 1].node \in V /\ kids[i + 1].name \in Word
                             /\ kids[i + 1] \in Named(V)
<1>1. /\ Drop(kids, i) \in Seq(Named(V)) /\ Len(Drop(kids, i)) = Len(kids) - i
      /\ i = Len(kids) => Drop(kids, i) = <<>>
      /\ i < Len(kids) => /\ Drop(kids, i) # <<>> /\ Drop(kids, i)[1] = kids[i + 1]
                          /\ Tail(Drop(kids, i)) = Drop(kids, i + 1)
  BY DropFacts
<1>2. ASSUME i < Len(kids)
      PROVE  kids[i + 1].node \in V /\ kids[i + 1].name \in Word /\ kids[i + 1] \in Named(V)
  <2>1. i + 1 \in 1..Len(kids)
    BY <1>2, KidsFacts
  <2>2. QED
    BY <2>1, KidsFacts, ElementOfSeq
<1>3. QED
  BY <1>1, <1>2

\* What is behind a child is a word.
LEMMA BehindType ==
  ASSUME NEW V, NEW kids \in Seq(Named(V)), NEW i \in 0..Len(kids), NEW c, NEW f,
         NEW k \in Nat \ {0}, NEW T, TextsIn(T, V)
  PROVE  Behind(c, kids, i, f, k, T) \in Word
<1>1. Drop(kids, i) \in Seq(Named(V))
  BY DropKids
<1>2. RestOf(c, Drop(kids, i), f, k, T) \in Word
  BY <1>1, RestOfType
<1>3. QED
  BY <1>2, BetweenType, JoinType, Zenon DEF Behind

\* The first child is left out.
LEMMA DropOne ==
  ASSUME NEW V, NEW kids \in Seq(Named(V)), kids # <<>>
  PROVE  /\ Drop(kids, 1) = Tail(kids) /\ Len(kids) \in Nat /\ 1 \in 0..Len(kids)
         /\ 0 < Len(kids) /\ Tail(kids) \in Seq(Named(V))
<1>1. Len(kids) \in Nat /\ Len(kids) # 0
  OBVIOUS
<1>2. 0 \in 0..Len(kids) /\ 0 < Len(kids) /\ 1 \in 0..Len(kids)
  BY <1>1
<1>3. Tail(Drop(kids, 0)) = Drop(kids, 0 + 1)
  BY <1>2, DropKids
<1>4. Drop(kids, 0) = kids /\ 0 + 1 = 1
  BY DropNothing
<1>5. Drop(kids, 1) \in Seq(Named(V))
  BY <1>2, DropKids
<1>6. QED
  BY <1>1, <1>2, <1>3, <1>4, <1>5

\* What is behind the first child.
LEMMA BehindFirst ==
  ASSUME NEW V, NEW kids \in Seq(Named(V)), kids # <<>>, NEW c, NEW f, NEW k, NEW T
  PROVE  /\ Len(kids) = 1 => Behind(c, kids, 1, f, k, T)
                               = Join(IF c = "]" THEN Void ELSE Space(f, 1),
                                      RestOf(c, Tail(kids), f, k, T))
         /\ Len(kids) # 1 => Behind(c, kids, 1, f, k, T)
                               = Join(Join(Mark(","), Space(f, 1)),
                                      RestOf(c, Tail(kids), f, k, T))
<1>1. Drop(kids, 1) = Tail(kids)
  BY DropOne
<1>2. QED
  BY <1>1, Zenon DEF Behind, Between

\* The rest of an array begins with an element.
LEMMA ArrayTurn ==
  ASSUME NEW V, NEW kids \in Seq(Named(V)), kids # <<>>, NEW c, c = "]", NEW f,
         NEW k \in Nat \ {0}, NEW T, TextsIn(T, V)
  PROVE  RestOf(c, kids, f, k, T)
           = Join(Child(kids[1], c, f, T), Behind(c, kids, 1, f, k, T))
<1> DEFINE w == T[kids[1].node]
           r == ArrayRest(Tail(kids), f, T)
           m == Join(Mark(","), Space(f, 1))
<1>1. w \in Word /\ r \in Word /\ ArrayRest(kids, f, T) = ElementsTurn(kids, f, T)
  BY ElementsRest DEF TextsIn
<1>2. ArrayRest(kids, f, T) = Join(w, IF Len(kids) = 1 THEN r ELSE Join(m, r))
  BY <1>1, Zenon DEF ElementsTurn
<1>3. RestOf(c, kids, f, k, T) = ArrayRest(kids, f, T) /\ RestOf(c, Tail(kids), f, k, T) = r
  BY Zenon DEF RestOf
<1>4. Child(kids[1], c, f, T) = w
  <2>1. Child(kids[1], c, f, T) = Join(Void, w)
    BY Zenon DEF Child, Caption
  <2>2. QED
    BY <2>1, <1>1, JoinEmpty
<1>5. Behind(c, kids, 1, f, k, T) = IF Len(kids) = 1 THEN r ELSE Join(m, r)
  <2>1. Len(kids) = 1 => Behind(c, kids, 1, f, k, T) = Join(Void, r)
    BY <1>3, BehindFirst, Zenon
  <2>2. Len(kids) # 1 => Behind(c, kids, 1, f, k, T) = Join(m, r)
    BY <1>3, BehindFirst, Zenon
  <2>3. Join(Void, r) = r
    BY <1>1, JoinEmpty
  <2>4. QED
    BY <2>1, <2>2, <2>3, Zenon
<1>6. QED
  BY <1>2, <1>3, <1>4, <1>5, Zenon

\* The rest of an object begins with blanks and a member.
LEMMA ObjectTurn ==
  ASSUME NEW V, NEW kids \in Seq(Named(V)), kids # <<>>, NEW c, c # "]", NEW f,
         NEW k \in Nat \ {0}, NEW T, TextsIn(T, V)
  PROVE  RestOf(c, kids, f, k, T)
           = Join(Space(f, k), Join(Child(kids[1], c, f, T), Behind(c, kids, 1, f, k, T)))
<1> DEFINE w == T[kids[1].node]
           q == Quoted(kids[1].name)
           l == Join(Mark(":"), Space(f, 1))
           r == ObjectRest(Tail(kids), f, k, T)
           b == Behind(c, kids, 1, f, k, T)
<1>1. /\ w \in Word /\ r \in Word /\ kids[1].name \in Word
      /\ ObjectRest(kids, f, k, T) = MembersTurn(kids, f, k, T)
  BY MembersRest DEF TextsIn
<1>2. ObjectRest(kids, f, k, T)
        = Join(Space(f, k), Join(q, Join(l, Join(w, Join(MemberEnd(Len(kids) = 1, f), r)))))
  BY <1>1, Zenon DEF MembersTurn
<1>3. RestOf(c, kids, f, k, T) = ObjectRest(kids, f, k, T) /\ RestOf(c, Tail(kids), f, k, T) = r
  BY Zenon DEF RestOf
<1>4. Child(kids[1], c, f, T) = Join(Join(q, l), w)
  BY Zenon DEF Child, Caption
<1>5. q \in Word /\ l \in Word
  BY <1>1, CaptionType
<1>6. Space(f, 1) \in Word /\ Mark(",") \in Word
  BY MarkWords
<1>7. Join(MemberEnd(Len(kids) = 1, f), r) = b
  <2>1. CASE Len(kids) = 1
    <3>1. b = Join(Space(f, 1), r)
      BY <1>3, <2>1, BehindFirst, Zenon
    <3>2. MemberEnd(Len(kids) = 1, f) = Join(Void, Space(f, 1))
      BY <2>1, Zenon DEF MemberEnd
    <3>3. Join(Void, Space(f, 1)) = Space(f, 1)
      BY <1>6, JoinEmpty
    <3>4. QED
      BY <3>1, <3>2, <3>3, Zenon
  <2>2. CASE Len(kids) # 1
    <3>1. b = Join(Join(Mark(","), Space(f, 1)), r)
      BY <1>3, <2>2, BehindFirst, Zenon
    <3>2. MemberEnd(Len(kids) = 1, f) = Join(Mark(","), Space(f, 1))
      BY <2>2, Zenon DEF MemberEnd
    <3>3. QED
      BY <3>1, <3>2, Zenon
  <2>3. QED
    BY <2>1, <2>2
<1>8. b \in Word
  <2>1. 1 \in 0..Len(kids)
    BY DropOne
  <2>2. QED
    BY <2>1, BehindType
<1> HIDE DEF w, q, l, r, b
<1>9. Join(q, Join(l, Join(w, b))) = Join(Join(Join(q, l), w), b)
  <2>1. Join(w, b) \in Word /\ Join(q, l) \in Word
    BY <1>1, <1>5, <1>8, JoinType
  <2>2. Join(Join(q, l), Join(w, b)) = Join(q, Join(l, Join(w, b)))
    BY <1>5, <2>1, JoinAssociative
  <2>3. Join(Join(Join(q, l), w), b) = Join(Join(q, l), Join(w, b))
    BY <1>1, <1>8, <2>1, JoinAssociative
  <2>4. QED
    BY <2>2, <2>3
<1>10. RestOf(c, kids, f, k, T) = Join(Space(f, k), Join(Join(Join(q, l), w), b))
  BY <1>2, <1>3, <1>7, <1>9, Zenon
<1>11. QED
  BY <1>4, <1>10, Zenon DEF b

\* The rest of a container begins with a child, maybe behind blanks.
LEMMA RestTurn ==
  ASSUME NEW V, NEW kids \in Seq(Named(V)), kids # <<>>, NEW c, NEW f,
         NEW k \in Nat \ {0}, NEW T, TextsIn(T, V)
  PROVE  /\ Padded(RestOf(c, kids, f, k, T),
                   Join(Child(kids[1], c, f, T), Behind(c, kids, 1, f, k, T)))
         /\ Child(kids[1], c, f, T) \in Word /\ Behind(c, kids, 1, f, k, T) \in Word
<1> DEFINE x == Child(kids[1], c, f, T)
           b == Behind(c, kids, 1, f, k, T)
<1>1. kids[1].name \in Word /\ T[kids[1].node] \in Word
  BY ElementsRest DEF TextsIn
<1>2. x \in Word
  BY <1>1, ChildType
<1>3. b \in Word
  <2>1. 1 \in 0..Len(kids)
    BY DropOne
  <2>2. QED
    BY <2>1, BehindType
<1>4. CASE c = "]"
  <2>1. RestOf(c, kids, f, k, T) = Join(x, b)
    BY <1>4, ArrayTurn
  <2> HIDE DEF x, b
  <2>2. Padded(Join(x, b), Join(x, b))
    BY <1>2, <1>3, JoinType, PadNone
  <2>3. QED
    BY <1>2, <1>3, <2>1, <2>2, Zenon DEF x, b
<1>5. CASE c # "]"
  <2>1. RestOf(c, kids, f, k, T) = Join(Space(f, k), Join(x, b))
    BY <1>5, ObjectTurn
  <2> HIDE DEF x, b
  <2>2. Space(f, k) \in Blanked
    BY SpaceBlanked
  <2>3. Join(x, b) \in Word
    BY <1>2, <1>3, JoinType
  <2>4. Padded(Join(Space(f, k), Join(x, b)), Join(x, b))
    BY <2>2, <2>3, PadNone, PadMore, Zenon
  <2>5. QED
    BY <1>2, <1>3, <2>1, <2>4, Zenon DEF x, b
<1>6. QED
  BY <1>4, <1>5

\* A number that is followed by w ends there.
Stops(w) == w = Void \/ w[1] # "1"

\* Where a container has no child left its closing bracket follows.
LEMMA RestEnd ==
  ASSUME NEW c \in Bracket, NEW f, NEW k \in Nat \ {0}, NEW T
  PROVE  Padded(RestOf(c, <<>>, f, k, T), Mark(c)) /\ Mark(c) \in Word
<1>1. Mark(c) \in Word
  BY BracketTypes
<1>2. CASE c = "]"
  <2>1. RestOf(c, <<>>, f, k, T) = Mark(c)
    BY <1>2, NoElementsRest, Zenon DEF RestOf
  <2>2. QED
    BY <2>1, <1>1, PadNone, Zenon
<1>3. CASE c # "]"
  <2>1. c = "}"
    BY <1>3, OtherBracket, Zenon
  <2>2. RestOf(c, <<>>, f, k, T) = Join(Space(f, k - 1), Mark(c))
    BY <1>3, <2>1, NoMembersRest, Zenon DEF RestOf
  <2>3. Space(f, k - 1) \in Blanked
    <3>1. k - 1 \in Nat
      OBVIOUS
    <3>2. QED
      BY <3>1, SpaceBlanked
  <2>4. Padded(Join(Space(f, k - 1), Mark(c)), Mark(c))
    BY <1>1, <2>3, PadNone, PadMore, Zenon
  <2>5. QED
    BY <1>1, <2>2, <2>4, Zenon
<1>4. QED
  BY <1>2, <1>3

\* Behind the last child comes, after blanks, the closing bracket.
LEMMA BehindEnd ==
  ASSUME NEW V, NEW kids \in Seq(Named(V)), NEW c \in Bracket, NEW f,
         NEW k \in Nat \ {0}, NEW T, NEW i, i = Len(kids)
  PROVE  Padded(Behind(c, kids, i, f, k, T), Mark(c)) /\ Mark(c) \in Word
<1> DEFINE r == RestOf(c, <<>>, f, k, T)
           s == IF c = "]" THEN Void ELSE Space(f, 1)
<1>1. Drop(kids, i) = <<>>
  <2>1. i \in 0..Len(kids)
    OBVIOUS
  <2>2. QED
    BY <2>1, DropKids
<1>2. Behind(c, kids, i, f, k, T) = Join(s, r)
  BY <1>1, Zenon DEF Behind, Between
<1>3. Padded(r, Mark(c)) /\ Mark(c) \in Word
  BY RestEnd
<1>4. s \in Blanked
  <2>1. Void \in Blanked /\ Space(f, 1) \in Blanked
    BY SpaceBlanked DEF Void, Blanked
  <2>2. QED
    BY <2>1, Zenon
<1> HIDE DEF r, s
<1>5. Padded(Join(s, r), Mark(c))
  BY <1>3, <1>4, PadMore
<1>6. QED
  BY <1>2, <1>3, <1>5, Zenon

\* Elsewhere a comma and the next child.
LEMMA BehindNext ==
  ASSUME NEW V, NEW kids \in Seq(Named(V)), NEW i \in 0..Len(kids), i < Len(kids),
         NEW c, NEW f, NEW k, NEW T
  PROVE  Behind(c, Drop(kids, i), 1, f, k, T) = Behind(c, kids, i + 1, f, k, T)
<1> DEFINE d == Drop(kids, i)
<1>1. d \in Seq(Named(V)) /\ d # <<>> /\ Tail(d) = Drop(kids, i + 1) /\ Len(d) = Len(kids) - i
  BY DropKids
<1>2. Drop(d, 1) = Tail(d)
  BY <1>1, DropOne
<1> HIDE DEF d
<1>3. 1 = Len(d) <=> i + 1 = Len(kids)
  BY <1>1
<1>4. Drop(d, 1) = Drop(kids, i + 1)
  BY <1>1, <1>2
<1>5. Behind(c, d, 1, f, k, T) = Behind(c, kids, i + 1, f, k, T)
  <2>1. CASE 1 = Len(d)
    <3>1. i + 1 = Len(kids)
      BY <1>3, <2>1
    <3>2. QED
      BY <1>4, <2>1, <3>1, Zenon DEF Behind, Between
  <2>2. CASE 1 # Len(d)
    <3>1. i + 1 # Len(kids)
      BY <1>3, <2>2
    <3>2. QED
      BY <1>4, <2>2, <3>1, Zenon DEF Behind, Between
  <2>3. QED
    BY <2>1, <2>2
<1>6. QED
  BY <1>5, Zenon DEF d

\* Behind any other child come a comma and the next child.
LEMMA BehindMore ==
  ASSUME NEW V, NEW kids \in Seq(Named(V)), NEW i \in 0..Len(kids), i < Len(kids),
         NEW c, NEW f, NEW k \in Nat \ {0}, NEW T, TextsIn(T, V)
  PROVE  /\ Child(kids[i + 1], c, f, T) \in Word /\ Behind(c, kids, i + 1, f, k, T) \in Word
         /\ \E z \in Word :
              /\ Behind(c, kids, i, f, k, T) = Join(Mark(","), z)
              /\ Padded(z, Join(Child(kids[i + 1], c, f, T), Behind(c, kids, i + 1, f, k, T)))
<1> DEFINE d == Drop(kids, i)
           r == RestOf(c, d, f, k, T)
           z == Join(Space(f, 1), r)
           u == Join(Child(kids[i + 1], c, f, T), Behind(c, kids, i + 1, f, k, T))
<1>1. d \in Seq(Named(V)) /\ d # <<>> /\ d[1] = kids[i + 1]
  BY DropKids
<1>2. /\ Padded(r, Join(Child(d[1], c, f, T), Behind(c, d, 1, f, k, T)))
      /\ Child(d[1], c, f, T) \in Word /\ Behind(c, d, 1, f, k, T) \in Word
  BY <1>1, RestTurn
<1>3. Behind(c, d, 1, f, k, T) = Behind(c, kids, i + 1, f, k, T)
  BY BehindNext
<1>4. /\ Padded(r, u) /\ Child(kids[i + 1], c, f, T) \in Word
      /\ Behind(c, kids, i + 1, f, k, T) \in Word
  BY <1>1, <1>2, <1>3, Zenon
<1>5. u \in Word
  BY <1>4, JoinType, Zenon
<1>6. Space(f, 1) \in Blanked /\ Space(f, 1) \in Word /\ Mark(",") \in Word
  BY SpaceBlanked, MarkWords
<1> HIDE DEF u
<1>7. Padded(z, u) /\ r \in Word /\ z \in Word
  BY <1>4, <1>5, <1>6, PadMore, Zenon
<1>8. Behind(c, kids, i, f, k, T) = Join(Join(Mark(","), Space(f, 1)), r)
  <2>1. i # Len(kids)
    OBVIOUS
  <2>2. QED
    BY <2>1, Zenon DEF Behind, Between
<1> HIDE DEF r
<1>9. Join(Join(Mark(","), Space(f, 1)), r) = Join(Mark(","), Join(Space(f, 1), r))
  BY <1>6, <1>7, JoinAssociative
<1>10. Behind(c, kids, i, f, k, T) = Join(Mark(","), z)
  BY <1>8, <1>9, Zenon
<1>11. QED
  BY <1>4, <1>7, <1>10, Zenon DEF u

\* No digit follows a child.
LEMMA BehindStops ==
  ASSUME NEW V, NEW kids \in Seq(Named(V)), NEW i \in 0..Len(kids), NEW c \in Bracket,
         NEW f, NEW k \in Nat \ {0}, NEW T, TextsIn(T, V), NEW t \in Word
  PROVE  Stops(Join(Behind(c, kids, i, f, k, T), t))
<1> DEFINE b == Behind(c, kids, i, f, k, T)
<1>1. b \in Word /\ Len(b) > 0 /\ b[1] # "1"
  <2>1. CASE i < Len(kids)
    <3>1. PICK z \in Word : b = Join(Mark(","), z)
      <4>1. \E z \in Word :
              /\ Behind(c, kids, i, f, k, T) = Join(Mark(","), z)
              /\ Padded(z, Join(Child(kids[i + 1], c, f, T), Behind(c, kids, i + 1, f, k, T)))
        BY <2>1, BehindMore
      <4>2. QED
        BY <4>1, Zenon
    <3>2. "," \in Letter /\ "," # "1"
      BY Letters
    <3> HIDE DEF b
    <3>3. b \in Word /\ b[1] = "," /\ Len(b) > 0
      BY <3>1, <3>2, JoinFirst
    <3>4. QED
      BY <3>2, <3>3
  <2>2. CASE ~(i < Len(kids))
    <3>1. i = Len(kids)
      BY <2>2
    <3>2. Padded(b, Mark(c)) /\ Mark(c) \in Word
      BY <3>1, BehindEnd
    <3>3. Len(Mark(c)) > 0 /\ Mark(c)[1] = c
      BY DEF Mark
    <3> HIDE DEF b
    <3>4. b \in Word /\ Len(b) > 0 /\ (b[1] = "w" \/ b[1] = Mark(c)[1])
      BY <3>2, <3>3, PadFirst
    <3>5. c # "1"
      BY Zenon DEF Bracket
    <3>6. "w" # "1"
      OBVIOUS
    <3>7. QED
      BY <3>3, <3>4, <3>5, <3>6
  <2>3. QED
    BY <2>1, <2>2
<1> HIDE DEF b
<1>2. Join(b, t)[1] = b[1]
  BY <1>1, JoinHead
<1>3. Join(b, t)[1] # "1"
  BY <1>1, <1>2
<1>4. QED
  BY <1>3 DEF Stops, b

\* The text of a container begins with its bracket; then there is its first
\* child, or its end.
LEMMA ContainerBegins ==
  ASSUME NEW V, NEW v \in Containers(V), NEW c \in Bracket, Ends(v, c), NEW f,
         NEW k \in Nat \ {0}, NEW T, TextsIn(T, V)
  PROVE  \E z \in Word :
           /\ ContainerText(v, f, k - 1, T) = Join(Mark(LeftOf(c)), z)
           /\ v.kids = <<>> => Padded(z, Mark(c))
           /\ v.kids # <<>> => Padded(z, Join(Child(v.kids[1], c, f, T),
                                              Behind(c, v.kids, 1, f, k, T)))
<1> DEFINE s == IF c = "]" THEN Void ELSE Space(f, 1)
           r == RestOf(c, v.kids, f, k, T)
           z == Join(s, r)
<1>1. v.kids \in Seq(Named(V)) /\ (v.type = "array" <=> c = "]")
  BY ContainerFacts, BracketTypes DEF Ends
<1>2. s \in Blanked /\ s \in Word /\ r \in Word
  <2>1. Void \in Blanked /\ Space(f, 1) \in Blanked
    BY SpaceBlanked DEF Void, Blanked
  <2>2. s \in Blanked
    BY <2>1, Zenon
  <2>3. r \in Word
    BY <1>1, RestOfType
  <2>4. QED
    BY <2>2, <2>3, BlankedWord
<1>3. z \in Word
  BY <1>2, JoinType, Zenon
<1>4. ContainerText(v, f, k - 1, T) = Join(Mark(LeftOf(c)), z)
  <2>1. k - 1 \in Nat /\ k - 1 + 1 = k
    OBVIOUS
  <2>2. CASE c = "]"
    <3>1. ContainerText(v, f, k - 1, T) = Join(Mark("["), ArrayRest(v.kids, f, T))
      BY <1>1, <2>1, <2>2, ArrayText DEF TextsIn
    <3>2. r = ArrayRest(v.kids, f, T) /\ s = Void /\ LeftOf(c) = "["
      BY <2>2, Zenon DEF RestOf, LeftOf
    <3>3. Join(Void, r) = r
      BY <1>2, JoinEmpty
    <3>4. QED
      BY <3>1, <3>2, <3>3, Zenon
  <2>3. CASE c # "]"
    <3>1. ContainerText(v, f, k - 1, T) = Join(ObjectStart(f), ObjectRest(v.kids, f, k - 1 + 1, T))
      BY <1>1, <2>1, <2>3, ObjectText DEF TextsIn
    <3>2. r = ObjectRest(v.kids, f, k, T) /\ s = Space(f, 1) /\ LeftOf(c) = "{"
      BY <2>3, Zenon DEF RestOf, LeftOf
    <3>3. ContainerText(v, f, k - 1, T) = Join(Join(Mark("{"), s), r)
      BY <2>1, <3>1, <3>2, Zenon DEF ObjectStart
    <3>4. Mark("{") \in Word
      BY MarkWords
    <3> HIDE DEF s, r
    <3>5. Join(Join(Mark("{"), s), r) = Join(Mark("{"), Join(s, r))
      BY <1>2, <3>4, JoinAssociative
    <3>6. QED
      BY <3>2, <3>3, <3>5, Zenon
  <2>4. QED
    BY <2>2, <2>3
<1>5. v.kids = <<>> => Padded(z, Mark(c))
  <2>1. ASSUME v.kids = <<>> PROVE Padded(z, Mark(c))
    <3>1. Padded(r, Mark(c)) /\ Mark(c) \in Word
      BY <2>1, RestEnd, Zenon
    <3> HIDE DEF r, s
    <3>2. QED
      BY <1>2, <3>1, PadMore
  <2>2. QED
    BY <2>1
<1>6. v.kids # <<>> => Padded(z, Join(Child(v.kids[1], c, f, T), Behind(c, v.kids, 1, f, k, T)))
  <2> DEFINE x == Child(v.kids[1], c, f, T)
             b == Behind(c, v.kids, 1, f, k, T)
  <2>1. ASSUME v.kids # <<>> PROVE Padded(z, Join(x, b))
    <3>1. Padded(r, Join(x, b)) /\ x \in Word /\ b \in Word
      BY <1>1, <2>1, RestTurn
    <3> HIDE DEF r, s, x, b
    <3>2. Join(x, b) \in Word
      BY <3>1, JoinType
    <3>3. QED
      BY <1>2, <3>1, <3>2, PadMore
  <2>2. QED
    BY <2>1
<1>7. QED
  BY <1>3, <1>4, <1>5, <1>6, Zenon
-----------------------------------------------------------------------------
(***************************************************************************)
(* The values that the parser has to read, one inside of the other, and    *)
(* what is behind each of them in the text.                                *)
(***************************************************************************)

\* The value v at depth k, and the text t behind it, which is no digit first.
IsGoal(v, t, k) == v \in Trees[CJSON_NESTING_LIMIT - k] /\ t \in Word /\ Stops(t)

\* How the text of a container begins.
Begins(w, v, c, f, k, T) ==
  \E z \in Word :
    /\ w = Join(Mark(LeftOf(c)), z)
    /\ v.kids = <<>> => Padded(z, Mark(c))
    /\ v.kids # <<>> => Padded(z, Join(Child(v.kids[1], c, f, T),
                                       Behind(c, v.kids, 1, f, k, T)))
IsContainer(v, c, k) == v \in Containers(Trees[CJSON_NESTING_LIMIT - k]) /\ Ends(v, c)

\* The depth that is left, and one level more.
LEMMA Rooms ==
  ASSUME NEW n \in 0..CJSON_NESTING_LIMIT
  PROVE  /\ n \in Nat /\ CJSON_NESTING_LIMIT - n \in Nat /\ CJSON_NESTING_LIMIT \in Nat
         /\ CJSON_NESTING_LIMIT - n # 0 =>
              /\ n + 1 \in 1..CJSON_NESTING_LIMIT /\ n + 1 \in Nat \ {0} /\ n + 1 - 1 = n
              /\ CJSON_NESTING_LIMIT - n \in Nat \ {0} /\ n < CJSON_NESTING_LIMIT
              /\ CJSON_NESTING_LIMIT - n - 1 = CJSON_NESTING_LIMIT - (n + 1)
BY LimitAssumption

\* The texts of the values at depth k are words.
LEMMA TextsAt ==
  ASSUME NEW k \in 0..CJSON_NESTING_LIMIT, NEW f \in BOOLEAN
  PROVE  TextsIn(TextAt(k, f), Trees[CJSON_NESTING_LIMIT - k])
BY TextAtType, Zenon DEF TextsIn

\* A container ends with a bracket.
LEMMA SomeBracket ==
  ASSUME NEW V, NEW v \in Containers(V)
  PROVE  \E c \in Bracket : Ends(v, c)
<1>1. v.type \in {"array", "object"}
  BY ContainerFacts
<1>2. Kind["]"] = "array" /\ Kind["}"] = "object"
  BY Zenon DEF Kind
<1>3. "]" \in Bracket /\ "}" \in Bracket
  BY Zenon DEF Bracket
<1>4. QED
  BY <1>1, <1>2, <1>3, Zenon DEF Ends

\* The text of a value, by the kind of the value.
LEMMA GoalText ==
  ASSUME NEW n \in 0..CJSON_NESTING_LIMIT, NEW f \in BOOLEAN,
         NEW v \in Trees[CJSON_NESTING_LIMIT - n], NEW w, w = TextAt(n, f)[v]
  PROVE  \/ v = Leaf("literal", Void) /\ w = Mark("n")
         \/ v = Leaf("number", w) /\ Numeral(w) /\ w \in Word
         \/ \E s \in Word : v = Leaf("string", s) /\ w = Quoted(s)
         \/ /\ n < CJSON_NESTING_LIMIT
            /\ \E c \in Bracket : /\ IsContainer(v, c, n + 1)
                                  /\ Begins(w, v, c, f, n + 1, TextAt(n + 1, f))
<1> DEFINE l == CJSON_NESTING_LIMIT - n
<1>1. n \in Nat /\ l \in Nat
  BY Rooms
<1>2. w = Layouts[l][f][n][v]
  BY Zenon DEF TextAt
<1>3. CASE v \in Scalars
  <2>1. w = ScalarText(v)
    BY <1>1, <1>2, <1>3, LayoutScalar
  <2>2. /\ v.type \in {"literal", "number", "string"} /\ v.chars \in Word
        /\ v.type = "literal" => v.chars = Void
        /\ v.type = "number" => Numeral(v.chars)
        /\ v = Leaf(v.type, v.chars)
    BY <1>3, ScalarFacts, Zenon DEF Void
  <2>3. CASE v.type = "literal"
    <3>1. w = Mark("n")
      BY <2>1, <2>3, Zenon DEF ScalarText, Mark
    <3>2. QED
      BY <2>2, <2>3, <3>1, Zenon
  <2>4. CASE v.type = "number"
    <3>1. w = v.chars
      BY <2>1, <2>4, Zenon DEF ScalarText
    <3>2. QED
      BY <2>2, <2>4, <3>1, Zenon
  <2>5. CASE v.type = "string"
    <3>1. w = Quoted(v.chars)
      BY <2>1, <2>5, Zenon DEF ScalarText
    <3>2. QED
      BY <2>2, <2>5, <3>1, Zenon
  <2>6. QED
    BY <2>2, <2>3, <2>4, <2>5
<1>4. CASE v \notin Scalars
  <2>1. l # 0 /\ v \in Containers(Trees[l - 1])
    BY <1>1, <1>4, TreeKind
  <2>2. /\ n + 1 \in 1..CJSON_NESTING_LIMIT /\ n + 1 \in Nat \ {0} /\ n + 1 - 1 = n
        /\ l \in Nat \ {0} /\ n < CJSON_NESTING_LIMIT
        /\ l - 1 = CJSON_NESTING_LIMIT - (n + 1)
    BY <2>1, Rooms
  <2>3. Layouts[l][f][n][v] = ContainerText(v, f, n, Layouts[l - 1][f][n + 1])
    BY <1>1, <2>1, <2>2, LayoutContainer
  <2>4. w = ContainerText(v, f, n, TextAt(n + 1, f))
    BY <1>2, <2>2, <2>3, Zenon DEF TextAt
  <2> DEFINE k == n + 1
             T == TextAt(k, f)
             V == Trees[CJSON_NESTING_LIMIT - k]
  <2>5. v \in Containers(V)
    BY <2>1, <2>2, Zenon
  <2>6. PICK c \in Bracket : Ends(v, c)
    BY <2>5, SomeBracket
  <2>7. TextsIn(T, V)
    <3>1. k \in 0..CJSON_NESTING_LIMIT
      BY <1>1, <2>2
    <3>2. QED
      BY <3>1, TextsAt
  <2>8. w = ContainerText(v, f, k - 1, T) /\ k \in Nat \ {0}
    <3>1. k - 1 = n /\ k \in Nat \ {0}
      BY <1>1
    <3>2. w = ContainerText(v, f, n, T)
      BY <2>4, Zenon
    <3> HIDE DEF k, T
    <3>3. QED
      BY <3>1, <3>2, Zenon
  <2>9. IsContainer(v, c, k)
    BY <2>5, <2>6, Zenon DEF IsContainer
  <2> HIDE DEF k, T, V
  <2>10. \E z \in Word :
           /\ ContainerText(v, f, k - 1, T) = Join(Mark(LeftOf(c)), z)
           /\ v.kids = <<>> => Padded(z, Mark(c))
           /\ v.kids # <<>> => Padded(z, Join(Child(v.kids[1], c, f, T),
                                              Behind(c, v.kids, 1, f, k, T)))
    BY <2>5, <2>6, <2>7, <2>8, ContainerBegins
  <2>11. Begins(w, v, c, f, k, T)
    BY <2>8, <2>10, Zenon DEF Begins
  <2>12. QED
    BY <2>2, <2>9, <2>11, Zenon DEF k, T
<1>5. QED
  BY <1>3, <1>4

\* A child and what is behind it.
LEMMA GoalNext ==
  ASSUME NEW k \in 1..CJSON_NESTING_LIMIT, NEW f \in BOOLEAN, NEW c \in Bracket,
         NEW v, IsContainer(v, c, k), NEW m \in 1..Len(v.kids), NEW t \in Word
  PROVE  IsGoal(v.kids[m].node, Join(Behind(c, v.kids, m, f, k, TextAt(k, f)), t), k)
<1> DEFINE V == Trees[CJSON_NESTING_LIMIT - k]
           T == TextAt(k, f)
           kids == v.kids
<1>1. k \in Nat \ {0} /\ k \in 0..CJSON_NESTING_LIMIT
  BY LimitAssumption
<1>2. kids \in Seq(Named(V))
  BY ContainerFacts DEF IsContainer
<1>3. TextsIn(T, V)
  BY <1>1, TextsAt
<1> HIDE DEF V, T, kids
<1>4. m \in 0..Len(kids) /\ m - 1 \in 0..Len(kids) /\ m - 1 < Len(kids) /\ m - 1 + 1 = m
  <2>1. m \in 1..Len(kids)
    BY DEF kids
  <2>2. Len(kids) \in Nat
    BY <1>2
  <2>3. QED
    BY <2>1, <2>2
<1>5. kids[m - 1 + 1].node \in V
  BY <1>2, <1>4, DropKids
<1>6. Behind(c, kids, m, f, k, T) \in Word
  BY <1>1, <1>2, <1>3, <1>4, BehindType
<1>7. Stops(Join(Behind(c, kids, m, f, k, T), t))
  BY <1>1, <1>2, <1>3, <1>4, BehindStops
<1>8. Join(Behind(c, kids, m, f, k, T), t) \in Word
  BY <1>6, JoinType
<1>9. kids[m].node \in V
  BY <1>4, <1>5, Zenon
<1>10. QED
  BY <1>7, <1>8, <1>9, Zenon DEF IsGoal, kids, V, T

\* The call x reads the container v, which is followed by t: the children it
\* has read are the first of v, u is the next one and s what is behind that.
Link(x, v, t, u, s, f, k) ==
  LET i == Len(x.kids) IN
  /\ x.closer \in Bracket /\ IsContainer(v, x.closer, k)
  /\ i \in Nat /\ i + 1 \in 1..Len(v.kids) /\ \A j \in 1..i : x.kids[j] = v.kids[j]
  /\ u = v.kids[i + 1].node
  /\ s = Join(Behind(x.closer, v.kids, i + 1, f, k, TextAt(k, f)), t)

\* Its name is the one of the next child.
NameIs(x, v) == x.name = v.kids[Len(x.kids) + 1].name

\* The running calls read values g, inside of each other, that are followed
\* by r.  All calls but the last one have the name of the child in work.
Trail(fs, g, r, f) ==
  /\ \A k \in 0..Len(fs) : IsGoal(g[k], r[k], k)
  /\ \A k \in 1..Len(fs) : Link(fs[k], g[k - 1], r[k - 1], g[k], r[k], f, k)
  /\ \A k \in 1..Len(fs) - 1 : NameIs(fs[k], g[k - 1])
Labelled(fs, g) == Len(fs) > 0 => NameIs(fs[Len(fs)], g[Len(fs) - 1])

\* Up to the n-th value they are the same, and that one is u, before s.
Resumed(h, q, g, r, n, u, s) ==
  /\ h[n] = u /\ q[n] = s
  /\ \A k \in 0..n - 1 : h[k] = g[k] /\ q[k] = r[k]

\* A trail with another last call.
LEMMA TrailSet ==
  ASSUME NEW fs, NEW new, NEW g, NEW r, NEW f, NEW n \in Nat \ {0}, Trail(fs, g, r, f),
         Len(new) = n, Len(fs) = n \/ (Len(fs) = n - 1 /\ Labelled(fs, g)),
         \A k \in 1..n - 1 : new[k] = fs[k],
         NEW u, NEW s, IsGoal(u, s, n), Link(new[n], g[n - 1], r[n - 1], u, s, f, n)
  PROVE  \E h, q : Trail(new, h, q, f) /\ Resumed(h, q, g, r, n, u, s)
<1> DEFINE h == [k \in 0..n |-> IF k = n THEN u ELSE g[k]]
           q == [k \in 0..n |-> IF k = n THEN s ELSE r[k]]
<1>1. /\ h[n] = u /\ q[n] = s
      /\ \A k \in 0..n - 1 : h[k] = g[k] /\ q[k] = r[k]
  OBVIOUS
<1> HIDE DEF h, q
<1>2. \A k \in 1..n - 1 : NameIs(fs[k], g[k - 1])
  <2>1. SUFFICES ASSUME NEW k \in 1..n - 1 PROVE NameIs(fs[k], g[k - 1])
    OBVIOUS
  <2>2. CASE k \in 1..Len(fs) - 1
    BY <2>2, Zenon DEF Trail
  <2>3. CASE k \notin 1..Len(fs) - 1
    <3>1. Len(fs) = n - 1 /\ Labelled(fs, g) /\ k = Len(fs) /\ Len(fs) > 0
      BY <2>1, <2>3
    <3>2. QED
      BY <3>1, Zenon DEF Labelled
  <2>4. QED
    BY <2>2, <2>3
<1>3. \A k \in 0..n : IsGoal(h[k], q[k], k)
  <2>1. SUFFICES ASSUME NEW k \in 0..n PROVE IsGoal(h[k], q[k], k)
    OBVIOUS
  <2>2. CASE k = n
    BY <1>1, <2>2, Zenon
  <2>3. CASE k # n
    <3>1. k \in 0..n - 1 /\ k \in 0..Len(fs)
      BY <2>1, <2>3
    <3>2. QED
      BY <1>1, <3>1, Zenon DEF Trail
  <2>4. QED
    BY <2>2, <2>3
<1>4. \A k \in 1..n : Link(new[k], h[k - 1], q[k - 1], h[k], q[k], f, k)
  <2>1. SUFFICES ASSUME NEW k \in 1..n
                 PROVE Link(new[k], h[k - 1], q[k - 1], h[k], q[k], f, k)
    OBVIOUS
  <2>2. k - 1 \in 0..n - 1
    BY <2>1
  <2>3. h[k - 1] = g[k - 1] /\ q[k - 1] = r[k - 1]
    BY <1>1, <2>2, Zenon
  <2>4. CASE k = n
    BY <1>1, <2>3, <2>4, Zenon
  <2>5. CASE k # n
    <3>1. k \in 1..n - 1 /\ k \in 0..n - 1 /\ k \in 1..Len(fs)
      BY <2>1, <2>5
    <3>2. Link(fs[k], g[k - 1], r[k - 1], g[k], r[k], f, k)
      BY <3>1, Zenon DEF Trail
    <3>3. new[k] = fs[k] /\ h[k] = g[k] /\ q[k] = r[k]
      BY <1>1, <3>1, Zenon
    <3>4. QED
      BY <2>3, <3>2, <3>3, Zenon
  <2>6. QED
    BY <2>4, <2>5
<1>5. \A k \in 1..n - 1 : NameIs(new[k], h[k - 1])
  <2>1. SUFFICES ASSUME NEW k \in 1..n - 1 PROVE NameIs(new[k], h[k - 1])
    OBVIOUS
  <2>2. k - 1 \in 0..n - 1
    BY <2>1
  <2>3. new[k] = fs[k] /\ h[k - 1] = g[k - 1]
    BY <1>1, <2>2, Zenon
  <2>4. QED
    BY <1>2, <2>3, Zenon
<1>6. Trail(new, h, q, f)
  BY <1>3, <1>4, <1>5, Zenon DEF Trail
<1>7. Resumed(h, q, g, r, n, u, s)
  BY <1>1, Zenon DEF Resumed
<1>8. QED
  BY <1>6, <1>7, Zenon

\* A call begins, with the first child of a container.
LEMMA TrailPush ==
  ASSUME NEW V, NEW fs \in Frames(V), NEW g, NEW r, NEW f \in BOOLEAN, Trail(fs, g, r, f),
         Labelled(fs, g), NEW n, n = Len(fs), n + 1 \in 1..CJSON_NESTING_LIMIT,
         NEW c \in Bracket, IsContainer(g[n], c, n + 1), g[n].kids # <<>>,
         NEW x, x.closer = c, x.kids = <<>>
  PROVE  \E h, q :
           /\ Trail(Append(fs, x), h, q, f)
           /\ Resumed(h, q, g, r, n + 1, g[n].kids[1].node,
                      Join(Behind(c, g[n].kids, 1, f, n + 1, TextAt(n + 1, f)), r[n]))
<1> DEFINE m == n + 1
           new == Append(fs, x)
           v == g[n]
           s == Join(Behind(c, v.kids, 1, f, m, TextAt(m, f)), r[n])
           u == v.kids[1].node
<1>1. n \in Nat /\ m \in Nat \ {0} /\ m - 1 = n /\ n \in 0..Len(fs)
  BY DEF Frames
<1>2. /\ Len(new) = m /\ new[m] = x
      /\ \A k \in 1..m - 1 : new[k] = fs[k]
  BY <1>1 DEF Frames
<1>3. r[n] \in Word
  BY <1>1, Zenon DEF Trail, IsGoal
<1>4. 1 \in 1..Len(v.kids)
  <2>1. v.kids \in Seq(Named(Trees[CJSON_NESTING_LIMIT - (n + 1)]))
    BY ContainerFacts DEF IsContainer
  <2> DEFINE kids == v.kids
             W == Named(Trees[CJSON_NESTING_LIMIT - (n + 1)])
  <2>2. kids \in Seq(W) /\ kids # <<>>
    BY <2>1
  <2> HIDE DEF kids, W
  <2>3. 1 \in 1..Len(kids)
    BY <2>2
  <2>4. QED
    BY <2>3 DEF kids
<1>5. IsGoal(u, s, m)
  <2>1. m \in 1..CJSON_NESTING_LIMIT /\ IsContainer(v, c, m)
    OBVIOUS
  <2> HIDE DEF m, v
  <2>2. QED
    BY <1>3, <1>4, <2>1, GoalNext
<1>6. Link(x, v, r[n], u, s, f, m)
  <2>1. Len(x.kids) = 0 /\ 0 \in Nat /\ 0 + 1 = 1 /\ \A j \in 1..0 : x.kids[j] = v.kids[j]
    OBVIOUS
  <2>2. IsContainer(v, c, m)
    OBVIOUS
  <2> HIDE DEF m, v
  <2>3. QED
    BY <1>4, <2>1, <2>2, Zenon DEF Link
<1>7. Len(fs) = m - 1
  BY <1>1
<1> HIDE DEF m, new, v, s, u
<1>8. Link(new[m], g[m - 1], r[m - 1], u, s, f, m)
  BY <1>1, <1>2, <1>6, Zenon DEF v
<1>9. \E h, q : Trail(new, h, q, f) /\ Resumed(h, q, g, r, m, u, s)
  BY <1>1, <1>2, <1>5, <1>7, <1>8, TrailSet
<1>10. QED
  BY <1>9, Zenon DEF m, new, v, u, s

\* A call ends.
LEMMA TrailPop ==
  ASSUME NEW V, NEW fs \in Frames(V), fs # <<>>, NEW g, NEW r, NEW f, Trail(fs, g, r, f)
  PROVE  Trail(Front(fs), g, r, f) /\ Labelled(Front(fs), g)
<1> DEFINE n == Len(fs)
<1>1. n \in Nat \ {0} /\ Last(fs) = fs[n]
  BY EmptySeq DEF Last, Frames
<1>2. /\ Len(Front(fs)) = n - 1
      /\ \A k \in 1..n - 1 : Front(fs)[k] = fs[k]
  <2>1. Front(fs) = SubSeq(fs, 1, n - 1)
    BY DEF Front
  <2>2. \A i \in 1..n - 1 : fs[i] \in Frame(V)
    BY <1>1, ElementOfSeq DEF Frames
  <2> HIDE DEF n
  <2>3. n - 1 \in Int /\ (IF 1 <= n - 1 THEN n - 1 - 1 + 1 ELSE 0) = n - 1
    BY <1>1
  <2>4. Len(Front(fs)) = n - 1
    BY <2>1, <2>2, <2>3, SubSeqProperties
  <2>5. ASSUME NEW i \in 1..n - 1 PROVE Front(fs)[i] = fs[i]
    <3>1. i \in 1..n - 1 - 1 + 1 /\ 1 + i - 1 = i
      BY <1>1
    <3>2. QED
      BY <2>1, <2>2, <2>3, <3>1, SubSeqProperties
  <2>6. QED
    BY <2>4, <2>5
<1> HIDE DEF n
<1>3. /\ \A k \in 0..n : IsGoal(g[k], r[k], k)
      /\ \A k \in 1..n : Link(fs[k], g[k - 1], r[k - 1], g[k], r[k], f, k)
      /\ \A k \in 1..n - 1 : NameIs(fs[k], g[k - 1])
  BY Zenon DEF Trail, n
<1>4. \A k \in 0..n - 1 : IsGoal(g[k], r[k], k)
  <2>1. \A k \in 0..n - 1 : k \in 0..n
    BY <1>1
  <2>2. QED
    BY <1>3, <2>1, Zenon
<1>5. \A k \in 1..n - 1 : Link(Front(fs)[k], g[k - 1], r[k - 1], g[k], r[k], f, k)
  <2>1. \A k \in 1..n - 1 : k \in 1..n
    BY <1>1
  <2>2. QED
    BY <1>2, <1>3, <2>1, Zenon
<1>6. \A k \in 1..n - 1 : NameIs(Front(fs)[k], g[k - 1])
  BY <1>2, <1>3, Zenon
<1>7. \A k \in 1..(n - 1) - 1 : NameIs(Front(fs)[k], g[k - 1])
  <2>1. \A k \in 1..(n - 1) - 1 : k \in 1..n - 1
    BY <1>1
  <2>2. QED
    BY <1>6, <2>1, Zenon
<1>8. Trail(Front(fs), g, r, f)
  BY <1>2, <1>4, <1>5, <1>7, Zenon DEF Trail
<1>9. Labelled(Front(fs), g)
  <2>1. n - 1 > 0 => n - 1 \in 1..n - 1
    BY <1>1
  <2>2. QED
    BY <1>2, <1>6, <2>1, Zenon DEF Labelled
<1>10. QED
  BY <1>8, <1>9

\* The first i are the same.
Agree(a, b, i) == \A j \in 1..i : a[j] = b[j]

\* The last call of a trail.
LEMMA TrailLast ==
  ASSUME NEW V, NEW fs \in Frames(V), NEW g, NEW r, NEW f, Trail(fs, g, r, f),
         NEW n, n = Len(fs)
  PROVE  /\ n \in Nat /\ IsGoal(g[n], r[n], n)
         /\ fs # <<>> => /\ n \in Nat \ {0} /\ Last(fs) = fs[n]
                         /\ IsGoal(g[n - 1], r[n - 1], n - 1)
                         /\ Link(Last(fs), g[n - 1], r[n - 1], g[n], r[n], f, n)
                         /\ \A k \in 1..n - 1 : NameIs(fs[k], g[k - 1])
<1>1. n \in Nat /\ n \in 0..n
  BY DEF Frames
<1>2. IsGoal(g[n], r[n], n)
  BY <1>1, Zenon DEF Trail
<1>3. ASSUME fs # <<>>
      PROVE  /\ n \in Nat \ {0} /\ Last(fs) = fs[n]
             /\ IsGoal(g[n - 1], r[n - 1], n - 1)
             /\ Link(Last(fs), g[n - 1], r[n - 1], g[n], r[n], f, n)
             /\ \A k \in 1..n - 1 : NameIs(fs[k], g[k - 1])
  <2>1. n \in Nat \ {0} /\ Last(fs) = fs[n]
    BY <1>3, EmptySeq DEF Last, Frames
  <2>2. n - 1 \in 0..n /\ n \in 1..n
    BY <2>1
  <2>3. IsGoal(g[n - 1], r[n - 1], n - 1)
    BY <2>2, Zenon DEF Trail
  <2>4. Link(Last(fs), g[n - 1], r[n - 1], g[n], r[n], f, n)
    BY <2>1, <2>2, Zenon DEF Trail
  <2>5. \A k \in 1..n - 1 : NameIs(fs[k], g[k - 1])
    BY Zenon DEF Trail
  <2>6. QED
    BY <2>1, <2>3, <2>4, <2>5
<1>4. QED
  BY <1>1, <1>2, <1>3

\* The last call is changed.
LEMMA LastChanged ==
  ASSUME NEW V, NEW fs \in Frames(V), fs # <<>>, NEW x,
         NEW new, new = [fs EXCEPT ![Len(fs)] = x]
  PROVE  /\ Len(fs) \in Nat \ {0} /\ Len(new) = Len(fs) /\ new[Len(fs)] = x
         /\ \A k \in 1..Len(fs) - 1 : new[k] = fs[k]
<1>1. Len(fs) \in Nat \ {0}
  BY EmptySeq DEF Frames
<1>2. Len(new) = Len(fs) /\ new[Len(fs)] = x
  BY <1>1 DEF Frames
<1>3. ASSUME NEW k \in 1..Len(fs) - 1 PROVE new[k] = fs[k]
  <2>1. k \in DOMAIN fs /\ k # Len(fs)
    BY <1>1, <1>3 DEF Frames
  <2>2. QED
    BY <2>1
<1>4. QED
  BY <1>1, <1>2, <1>3

\* It keeps its children.
LEMMA TrailTop ==
  ASSUME NEW V, NEW fs \in Frames(V), fs # <<>>, NEW g, NEW r, NEW f, Trail(fs, g, r, f),
         NEW x, x.closer = Last(fs).closer, x.kids = Last(fs).kids,
         NEW n, n = Len(fs), NEW new, Len(new) = n, new[n] = x,
         \A k \in 1..n - 1 : new[k] = fs[k]
  PROVE  Trail(new, g, r, f)
<1>1. n \in Nat \ {0}
  BY TrailLast
<1>2. Link(Last(fs), g[n - 1], r[n - 1], g[n], r[n], f, n)
  BY TrailLast
<1>3. Link(x, g[n - 1], r[n - 1], g[n], r[n], f, n)
  BY <1>2, Zenon DEF Link
<1>4. /\ \A k \in 0..n : IsGoal(g[k], r[k], k)
      /\ \A k \in 1..n : Link(fs[k], g[k - 1], r[k - 1], g[k], r[k], f, k)
      /\ \A k \in 1..n - 1 : NameIs(fs[k], g[k - 1])
  BY Zenon DEF Trail
<1>5. \A k \in 1..n : Link(new[k], g[k - 1], r[k - 1], g[k], r[k], f, k)
  <2>1. \A k \in 1..n : k = n \/ k \in 1..n - 1
    BY <1>1
  <2>2. QED
    BY <1>1, <1>3, <1>4, <2>1, Zenon
<1>6. \A k \in 1..n - 1 : NameIs(new[k], g[k - 1])
  BY <1>1, <1>4, Zenon
<1>7. Trail(new, g, r, f)
  BY <1>1, <1>4, <1>5, <1>6, Zenon DEF Trail
<1>8. QED
  BY <1>7

\* The last call gets the child it was reading, the i + 1st of v, which is not
\* the last one: the next one is u, and s behind it.
Advances(fs, new, g, r, f, n, v, i, x, u, s) ==
  /\ fs # <<>> /\ f \in BOOLEAN /\ Trail(fs, g, r, f)
  /\ n = Len(fs) /\ n \in 1..CJSON_NESTING_LIMIT
  /\ v = g[n - 1] /\ i = Len(Last(fs).kids) /\ i + 1 < Len(v.kids)
  /\ x.closer = Last(fs).closer /\ Len(x.kids) = i + 1
  /\ Agree(x.kids, Last(fs).kids, i) /\ x.kids[i + 1] = v.kids[i + 1]
  /\ Len(new) = n /\ new[n] = x /\ Agree(new, fs, n - 1)
  /\ u = v.kids[i + 1 + 1].node
  /\ s = Join(Behind(x.closer, v.kids, i + 1 + 1, f, n, TextAt(n, f)), r[n - 1])

\* The trail goes on with the next child.
LEMMA TrailNext ==
  ASSUME NEW V, NEW fs \in Frames(V), NEW new, NEW g, NEW r, NEW f, NEW n, NEW v, NEW i,
         NEW x, NEW u, NEW s, Advances(fs, new, g, r, f, n, v, i, x, u, s)
  PROVE  \E h, q : Trail(new, h, q, f) /\ Resumed(h, q, g, r, n, u, s)
<1> DEFINE m == i + 1
<1>a. /\ fs # <<>> /\ f \in BOOLEAN /\ Trail(fs, g, r, f)
      /\ n = Len(fs) /\ n \in 1..CJSON_NESTING_LIMIT
      /\ v = g[n - 1] /\ i = Len(Last(fs).kids) /\ i + 1 < Len(v.kids)
      /\ x.closer = Last(fs).closer /\ Len(x.kids) = i + 1
      /\ x.kids[i + 1] = v.kids[i + 1] /\ Len(new) = n /\ new[n] = x
  BY Zenon DEF Advances
<1>0. /\ \A j \in 1..i : x.kids[j] = Last(fs).kids[j]
      /\ \A k \in 1..n - 1 : new[k] = fs[k]
      /\ u = v.kids[m + 1].node
      /\ s = Join(Behind(x.closer, v.kids, m + 1, f, n, TextAt(n, f)), r[n - 1])
  BY Zenon DEF Advances, Agree
<1>1. n \in Nat \ {0}
  BY <1>a, TrailLast
<1>2. Link(Last(fs), v, r[n - 1], g[n], r[n], f, n) /\ IsGoal(v, r[n - 1], n - 1)
  BY <1>a, TrailLast, Zenon
<1>3. /\ x.closer \in Bracket /\ IsContainer(v, x.closer, n)
      /\ i \in Nat /\ \A j \in 1..i : Last(fs).kids[j] = v.kids[j]
  BY <1>a, <1>2, Zenon DEF Link
<1>4. Len(v.kids) \in Nat
  BY <1>a, <1>3, ContainerFacts DEF IsContainer
<1>5. m \in Nat /\ m + 1 \in 1..Len(v.kids)
  BY <1>a, <1>3, <1>4
<1>6. \A j \in 1..m : x.kids[j] = v.kids[j]
  <2>1. \A j \in 1..m : j = m \/ j \in 1..i
    BY <1>a, <1>3
  <2>2. QED
    BY <1>a, <1>0, <1>3, <2>1, Zenon
<1>7. r[n - 1] \in Word
  BY <1>a, <1>2, Zenon DEF IsGoal
<1> HIDE DEF m
<1>8. IsGoal(u, s, n)
  <2> HIDE DEF m
  <2>1. QED
    BY <1>a, <1>0, <1>3, <1>5, <1>7, GoalNext
<1>9. Link(x, v, r[n - 1], u, s, f, n)
  <2>1. Len(x.kids) = m
    BY <1>a DEF m
  <2>2. QED
    BY <1>a, <1>0, <1>3, <1>5, <1>6, <2>1, Zenon DEF Link
<1>10. \E h, q : Trail(new, h, q, f) /\ Resumed(h, q, g, r, n, u, s)
  <2>1. Link(new[n], g[n - 1], r[n - 1], u, s, f, n)
    BY <1>a, <1>9, Zenon
  <2>2. Len(fs) = n \/ (Len(fs) = n - 1 /\ Labelled(fs, g))
    BY <1>a
  <2>3. QED
    BY <1>a, <1>0, <1>1, <1>8, <2>1, <2>2, TrailSet
<1>11. QED
  BY <1>a, <1>10
-----------------------------------------------------------------------------
(***************************************************************************)
(* A parse that follows the printer.                                       *)
(***************************************************************************)

\* From the offset o on there is w in the text t of length l.
Lies(t, l, o, w) ==
  /\ o \in Nat /\ w \in Word /\ o + Len(w) + 1 = l
  /\ \A i \in 1..Len(w) : t[o + i] = w[i]

\* What lies in the text from the offset on is ahead of the parser.
LEMMA LiesIs ==
  ASSUME NEW o, NEW w
  PROVE  Lies(text, length, o, w) <=> Ahead(o, w)
<1>1. ASSUME o \in Nat PROVE \A i \in 1..Len(w) : At(o + i - 1) = text[o + i]
  <2>1. SUFFICES ASSUME NEW i \in 1..Len(w) PROVE At(o + i - 1) = text[o + i]
    OBVIOUS
  <2>2. o + i - 1 + 1 = o + i
    BY <1>1, <2>1
  <2>3. QED
    BY <2>2 DEF At
<1>2. QED
  BY <1>1, Zenon DEF Lies, Ahead

\* The child that the last call reads next, and what is left of its text
\* before it is read: its name if it has one, its value, and what is behind.
Due(fs, g) == g[Len(fs) - 1].kids[Len(Last(fs).kids) + 1]
ValueText(fs, g, r, f) == Join(TextAt(Len(fs), f)[g[Len(fs)]], r[Len(fs)])
ChildText(fs, g, r, f) ==
  Join(Child(Due(fs, g), Last(fs).closer, f, TextAt(Len(fs), f)), r[Len(fs)])

LedValue(t, l, o, fs, g, r, f) == Labelled(fs, g) /\ Lies(t, l, o, ValueText(fs, g, r, f))
LedAfter(t, l, o, v, fs, g, r) ==
  Labelled(fs, g) /\ v = g[Len(fs)] /\ Lies(t, l, o, r[Len(fs)])
LedElement(t, l, o, fs, g, r, f) ==
  \E w : Lies(t, l, o + 1, w) /\ Padded(w, ChildText(fs, g, r, f))
LedName(t, l, o, fs, g, r, f) == Lies(t, l, o, ChildText(fs, g, r, f))
LedColon(t, l, o, v, fs, g, r, f) ==
  /\ v.chars = Due(fs, g).name
  /\ Lies(t, l, o, Join(Join(Mark(":"), Space(f, 1)), ValueText(fs, g, r, f)))

\* What is left of the text is what the calls have to read yet, if they are
\* to answer the values g.
Rooted(g, r, v) == g[0] = v /\ r[0] = Void
Led(g, r) ==
  /\ Rooted(g, r, Recovered(first)) /\ Trail(frames, g, r, mode.format)
  /\ pc = "value" => LedValue(text, length, offset, frames, g, r, mode.format)
  /\ pc = "after" => LedAfter(text, length, offset, value.node, frames, g, r)
  /\ pc = "element" => LedElement(text, length, offset, frames, g, r, mode.format)
  /\ pc = "name" => LedName(text, length, offset, frames, g, r, mode.format)
  /\ pc = "colon" => LedColon(text, length, offset, value.node, frames, g, r, mode.format)

\* When the output is parsed, the parser is led to the value it was printed
\* from.
Leading == {"value", "after", "element", "name", "colon"}
Settled(t, l) == t \in Chars /\ l = Len(t) /\ t[l - 1 + 1] = Nul
Retraced ==
  round = 2 =>
    /\ Settled(text, length) /\ ~require /\ printing = "printed"
    /\ pc = "start" => offset = 0 /\ Lies(text, length, 0, Printout(first, mode.format))
    /\ pc \in Leading => \E g, r : Led(g, r)
    /\ pc = "parsed" => value.node = Recovered(first)
    /\ pc \in {"fail", "failed"} => oom

Keeps == UNCHANGED <<text, length, require, mode, first, round, printing>>

\* The parser is led on by values that are due at its next place.
LEMMA LedOn ==
  ASSUME Retraced, round = 2, Keeps, pc' \in Leading,
         NEW g, NEW r, Rooted(g, r, Recovered(first)), Trail(frames', g, r, mode.format),
         pc' = "value" => LedValue(text, length, offset', frames', g, r, mode.format),
         pc' = "after" => LedAfter(text, length, offset', value'.node, frames', g, r),
         pc' = "element" => LedElement(text, length, offset', frames', g, r, mode.format),
         pc' = "name" => LedName(text, length, offset', frames', g, r, mode.format),
         pc' = "colon" => LedColon(text, length, offset', value'.node, frames', g, r, mode.format)
  PROVE  Retraced'
<1>1. /\ text' = text /\ length' = length /\ require' = require /\ mode' = mode
      /\ first' = first /\ printing' = printing
  BY Zenon DEF Keeps
<1>2. Led(g, r)'
  BY <1>1, Zenon DEF Led, Recovered
<1>3. \E h, q : Led(h, q)'
  BY <1>2, Zenon
<1>4. Settled(text, length)' /\ ~require' /\ printing' = "printed"
  BY <1>1, Zenon DEF Retraced
<1>5. pc' \notin {"start", "parsed", "fail", "failed"}
  BY DEF Leading
<1>6. QED
  BY <1>3, <1>4, <1>5, Zenon DEF Retraced

\* A failing allocation ends the parse, and nothing else does.
LEMMA OomOn ==
  ASSUME Retraced, round = 2, Keeps, pc' \in {"fail", "failed"}, oom'
  PROVE  Retraced'
<1>1. text' = text /\ length' = length /\ require' = require /\ printing' = printing
  BY Zenon DEF Keeps
<1>2. Settled(text, length)' /\ ~require' /\ printing' = "printed"
  BY <1>1, Zenon DEF Retraced
<1>3. pc' \notin {"start", "parsed"} /\ pc' \notin Leading
  BY DEF Leading
<1>4. QED
  BY <1>2, <1>3, Zenon DEF Retraced

\* What is known while a call is running.
Leads(g, r, f, n, V) ==
  /\ Led(g, r) /\ f = mode.format /\ f \in BOOLEAN /\ n = Len(frames) /\ frames \in Frames(V)
  /\ n \in 0..CJSON_NESTING_LIMIT
\* Where the parser is led, the values, the calls and the text are these.
LEMMA LedHere ==
  ASSUME Parsing, Treed, Printing, Retraced, round = 2, pc \in Leading
  PROVE  /\ Ended /\ length \in Nat /\ Placed
         /\ \E g, r, f, n, V : Leads(g, r, f, n, V)
<1>1. PICK g, r : Led(g, r)
  BY Zenon DEF Retraced
<1>2. Ended
  BY Zenon DEF Retraced, Settled, Ended, At
<1>3. Placed /\ length \in Nat
  BY DEF Parsing, Placed
<1>4. PICK V : frames \in Frames(V)
  BY DEF Parsing, Typed, TypedBy
<1>5. pc \notin {"fail", "failed"}
  BY DEF Leading
<1>6. Len(frames) \in 0..CJSON_NESTING_LIMIT
  BY <1>5, RunFrames
<1>7. mode.format \in BOOLEAN
  BY DEF Printing, Buffered, Mode
<1>8. Leads(g, r, mode.format, Len(frames), V)
  BY <1>1, <1>4, <1>6, <1>7, Zenon DEF Leads
<1>9. QED
  BY <1>2, <1>3, <1>8, Zenon

\* The value that is read next.
LEMMA ValueHere ==
  ASSUME pc = "value", NEW g, NEW r, NEW f, NEW n, NEW V, Leads(g, r, f, n, V)
  PROVE  /\ g[n] \in Trees[CJSON_NESTING_LIMIT - n] /\ r[n] \in Word /\ Stops(r[n])
         /\ TextAt(n, f)[g[n]] \in Word
         /\ Ahead(offset, Join(TextAt(n, f)[g[n]], r[n]))
         /\ Labelled(frames, g) /\ Trail(frames, g, r, f) /\ Rooted(g, r, Recovered(first))
<1>1. /\ Led(g, r) /\ f = mode.format /\ f \in BOOLEAN /\ n = Len(frames)
      /\ frames \in Frames(V) /\ n \in 0..CJSON_NESTING_LIMIT
  BY Zenon DEF Leads
<1>2. /\ Rooted(g, r, Recovered(first)) /\ Trail(frames, g, r, f) /\ Labelled(frames, g)
      /\ Lies(text, length, offset, ValueText(frames, g, r, f))
  BY <1>1, Zenon DEF Led, LedValue
<1>3. IsGoal(g[n], r[n], n)
  BY <1>1, <1>2, TrailLast
<1>4. TextAt(n, f)[g[n]] \in Word
  BY <1>1, <1>3, TextAtType DEF IsGoal
<1>5. Ahead(offset, ValueText(frames, g, r, f))
  BY <1>2, LiesIs
<1>6. QED
  BY <1>1, <1>2, <1>3, <1>4, <1>5, Zenon DEF IsGoal, ValueText

\* It has been read.
LEMMA ReadLed ==
  ASSUME Retraced, round = 2, Keeps, pc = "value", pc' = "after", UNCHANGED frames,
         NEW g, NEW r, NEW f, NEW n, NEW V, Leads(g, r, f, n, V),
         value'.node = g[n], Ahead(offset', r[n])
  PROVE  Retraced'
<1>1. f = mode.format /\ n = Len(frames)
  BY Zenon DEF Leads
<1>2. Labelled(frames, g) /\ Trail(frames, g, r, f) /\ Rooted(g, r, Recovered(first))
  BY ValueHere
<1>3. Lies(text, length, offset', r[n])
  BY LiesIs
<1>4. LedAfter(text, length, offset', value'.node, frames', g, r)
  BY <1>1, <1>2, <1>3, Zenon DEF LedAfter
<1>5. Trail(frames', g, r, mode.format)
  BY <1>1, <1>2, Zenon
<1>6. pc' \in Leading
  BY DEF Leading
<1>7. QED
  BY <1>2, <1>4, <1>5, <1>6, LedOn

\* The opening bracket of a container.
LEMMA OpenerIs ==
  ASSUME NEW c \in Bracket
  PROVE  LeftOf(c) \in {"[", "{"} /\ LeftOf(c) \in Letter /\ Closer[LeftOf(c)] = c
<1>1. Closer["["] = "]" /\ Closer["{"] = "}"
  BY Zenon DEF Closer
<1>2. CASE c = "]"
  <2>1. LeftOf(c) = "["
    BY <1>2, Zenon DEF LeftOf
  <2>2. QED
    BY <1>1, <1>2, <2>1, Letters, Zenon
<1>3. CASE c # "]"
  <2>1. LeftOf(c) = "{"
    BY <1>3, Zenon DEF LeftOf
  <2>2. c = "}"
    BY <1>3, OtherBracket
  <2>3. QED
    BY <1>1, <2>1, <2>2, Letters, Zenon
<1>4. QED
  BY <1>2, <1>3

\* The second parse begins at the beginning of what was printed.
LEMMA StartRetraced ==
  ASSUME Parsing, Printing, Retraced, round = 2, Keeps, first \in Trees[CJSON_NESTING_LIMIT],
         ParseStart
  PROVE  Retraced'
<1> DEFINE f == mode.format
           v == Recovered(first)
           w == Printout(first, f)
<1>1. pc = "start" /\ frames = <<>> /\ UNCHANGED frames /\ f \in BOOLEAN
  BY DEF ParseStart, Parsing, Nested, Printing, Buffered, Mode
<1>2. CJSON_NESTING_LIMIT \in Nat /\ CJSON_NESTING_LIMIT - 0 = CJSON_NESTING_LIMIT
      /\ 0 \in 0..CJSON_NESTING_LIMIT /\ 0 \in Nat
  BY LimitAssumption
<1>3. /\ v \in Trees[CJSON_NESTING_LIMIT] /\ w = Layout(v, f)
      /\ w \in Word /\ Len(w) > 0 /\ w[1] \in Opener
  <2>1. v \in Trees[CJSON_NESTING_LIMIT] /\ w = Layout(v, f)
    BY <1>2, RecoveryType DEF Recovered, Printout
  <2> HIDE DEF v, w
  <2>2. QED
    BY <1>1, <1>2, <2>1, LayoutType DEF Layout
<1>4. Ahead(0, w)
  <2>1. Lies(text, length, 0, w)
    BY <1>1, Zenon DEF Retraced
  <2>2. QED
    BY <2>1, LiesIs
<1> HIDE DEF w, f, v
<1>5. 0 < length /\ length \in Nat /\ At(0) = w[1]
  BY <1>3, <1>4, AheadBegin
<1>6. At(0) # "B" /\ At(0) \notin {"w", Nul}
  BY <1>3, <1>5 DEF Opener, Nul
<1>7. skip_utf8_bom = 0
  BY <1>6, Zenon DEF skip_utf8_bom, Is
<1>8. buffer_skip_whitespace(0) = 0
  <2>1. 0 \in 0..length
    BY <1>5
  <2>2. QED
    BY <1>5, <1>6, <2>1, SkipNothing
<1>9. \/ pc' = "failed" /\ oom'
      \/ pc' = "value" /\ offset' = 0
  BY <1>5, <1>7, <1>8 DEF ParseStart, NoMemory, Goto
<1>10. CASE pc' = "value" /\ offset' = 0
  <2> DEFINE g == [k \in {0} |-> v]
             r == [k \in {0} |-> Void]
  <2>1. g[0] = v /\ r[0] = Void
    BY Zenon
  <2> HIDE DEF g, r
  <2>2. Rooted(g, r, Recovered(first)) /\ Labelled(<<>>, g) /\ Len(<<>>) = 0
    <3>1. Len(<<>>) = 0 /\ ~(0 > 0)
      OBVIOUS
    <3>2. QED
      BY <2>1, <3>1, Zenon DEF Rooted, Labelled, v
  <2>3. Trail(<<>>, g, r, f)
    <3>1. IsGoal(v, Void, 0)
      BY <1>2, <1>3, EmptyWord, Zenon DEF IsGoal, Stops
    <3>2. (\A k \in 0..0 : k = 0) /\ 1..0 = {} /\ 1..0 - 1 = {}
      OBVIOUS
    <3>3. QED
      BY <2>1, <2>2, <3>1, <3>2, Zenon DEF Trail
  <2>4. ValueText(<<>>, g, r, f) = w
    <3>1. TextAt(0, f)[v] = w
      BY <1>2, <1>3, Zenon DEF TextAt, Layout
    <3>2. Join(w, Void) = w
      BY <1>3, JoinEmpty
    <3>3. QED
      BY <2>1, <2>2, <3>1, <3>2, Zenon DEF ValueText
  <2>5. LedValue(text, length, offset', frames', g, r, f)
    <3>1. Lies(text, length, 0, w)
      BY <1>4, LiesIs
    <3>2. QED
      BY <1>1, <1>10, <2>2, <2>4, <3>1, Zenon DEF LedValue
  <2>6. Trail(frames', g, r, f) /\ pc' \in Leading
    BY <1>1, <1>10, <2>3 DEF Leading
  <2>7. QED
    BY <1>10, <2>2, <2>5, <2>6, LedOn DEF f
<1>11. CASE pc' = "failed" /\ oom'
  BY <1>11, OomOn
<1>12. QED
  BY <1>9, <1>10, <1>11

\* Reading a string can only fail for a lack of memory.
LEMMA StringRetraced ==
  ASSUME Ended, NEW s \in Word, NEW t \in Word, Ahead(offset, Join(Quoted(s), t)),
         NEW next, parse_string(next)
  PROVE  \/ pc' = "fail" /\ oom'
         \/ pc' = next /\ value'.node = Leaf("string", s) /\ Ahead(offset', t)
<1> DEFINE o == offset + 1
           e == StringEnd(o)
           bad == {i \in Escapes(o) \cap o..e - 1 : At(i + 1) \notin DOMAIN Unescape}
           read == [node |-> Leaf("string", CString(Contents(o, e))), blocks |-> 1]
<1>1. /\ offset \in Nat /\ offset < length /\ At(offset) = "q"
      /\ o \in 0..length /\ e \in o..length - 1
      /\ \A i \in Escapes(o) \cap o..e - 1 : At(i + 1) \in DOMAIN Unescape
      /\ Contents(o, e) = s /\ Ahead(e + 1, t)
  BY AheadString
<1>2. bad = {}
  BY <1>1, Zenon
<1>3. e # length
  <2> HIDE DEF e
  <2>1. length \in Nat
    BY DEF Ended, Chars
  <2>2. QED
    BY <1>1, <2>1
<1>4. \/ pc' = "fail" /\ oom'
      \/ bad # {} /\ pc' = "fail"
      \/ pc' = next /\ offset' = e + 1 /\ value' = read
  <2>1. ~(At(offset) # "q" \/ e = length)
    BY <1>1, <1>3
  <2>2. QED
    BY <2>1, Zenon DEF parse_string, Fail, Goto, NoMemory
<1>5. read.node = Leaf("string", s)
  <2>1. CString(s) = s
    BY CStringWord
  <2>2. read.node = Leaf("string", CString(Contents(o, e)))
    BY Zenon
  <2>3. QED
    BY <1>1, <2>1, <2>2, Zenon
<1> HIDE DEF bad, read, o, e
<1>6. QED
  BY <1>1, <1>2, <1>4, <1>5, Zenon

\* A text that begins with a bracket.
LEMMA OpensWith ==
  ASSUME NEW o, NEW c \in Bracket, NEW z \in Word, NEW t \in Word,
         NEW w, w = Join(Mark(LeftOf(c)), z), Ahead(o, Join(w, t))
  PROVE  /\ o \in Nat /\ o < length /\ At(o) = LeftOf(c)
         /\ Ahead(o + 1, Join(z, t)) /\ Join(z, t) \in Word
<1> DEFINE l == LeftOf(c)
           m == Mark(l)
<1>1. l \in Letter /\ m \in Word
  BY OpenerIs, LetterWord
<1>2. w = Join(m, z)
  BY Zenon
<1> HIDE DEF l, m
<1>3. Join(w, t) = Join(m, Join(z, t)) /\ Join(z, t) \in Word
  <2>1. Join(Join(m, z), t) = Join(m, Join(z, t))
    BY <1>1, JoinAssociative
  <2>2. Join(z, t) \in Word
    BY JoinType
  <2>3. QED
    BY <1>2, <2>1, <2>2, Zenon
<1>4. Ahead(o, Join(Mark(l), Join(z, t)))
  BY <1>3, Zenon DEF m
<1>5. o \in Nat /\ o < length /\ At(o) = l /\ Ahead(o + 1, Join(z, t))
  BY <1>1, <1>3, <1>4, AheadMark
<1>6. QED
  BY <1>3, <1>5 DEF l

\* Nor can reading a value that is no container.
LEMMA ScalarRetraced ==
  ASSUME Parsing, Treed, Printing, Retraced, round = 2, Keeps, ParseScalar
  PROVE  Retraced'
<1>1. pc = "value" /\ UNCHANGED frames /\ pc \in Leading
  BY DEF ParseScalar, Leading
<1>2. Ended /\ length \in Nat
  BY <1>1, LedHere
<1>3. PICK g, r, f, n, V : Leads(g, r, f, n, V)
  BY <1>1, LedHere
<1> DEFINE v == g[n]
           t == r[n]
           w == TextAt(n, f)[v]
<1>4. f \in BOOLEAN /\ n \in 0..CJSON_NESTING_LIMIT
  BY <1>3, Zenon DEF Leads
<1>5. /\ v \in Trees[CJSON_NESTING_LIMIT - n] /\ t \in Word /\ Stops(t)
      /\ w \in Word /\ Ahead(offset, Join(w, t))
  BY <1>1, <1>3, ValueHere
<1>6. \/ v = Leaf("literal", Void) /\ w = Mark("n")
      \/ v = Leaf("number", w) /\ Numeral(w) /\ w \in Word
      \/ \E s \in Word : v = Leaf("string", s) /\ w = Quoted(s)
      \/ /\ n < CJSON_NESTING_LIMIT
         /\ \E c \in Bracket : /\ IsContainer(v, c, n + 1)
                               /\ Begins(w, v, c, f, n + 1, TextAt(n + 1, f))
  BY <1>4, <1>5, GoalText
<1> HIDE DEF v, t, w
<1>7. SUFFICES \/ pc' = "fail" /\ oom'
               \/ pc' = "after" /\ value'.node = v /\ Ahead(offset', t)
  <2>1. CASE pc' = "fail" /\ oom'
    BY <2>1, OomOn
  <2>2. CASE pc' = "after" /\ value'.node = v /\ Ahead(offset', t)
    BY <1>1, <1>3, <2>2, ReadLed DEF v, t
  <2>3. QED
    BY <1>7, <2>1, <2>2
<1>8. CASE v = Leaf("literal", Void) /\ w = Mark("n")
  <2>1. offset < length /\ At(offset) = "n" /\ Ahead(offset + 1, t)
    <3>1. "n" \in Letter
      BY Letters
    <3>2. QED
      BY <1>5, <1>8, <3>1, AheadMark
  <2>2. Is(offset, "n")
    BY <2>1, Zenon DEF Is, CanAccess
  <2>3. /\ pc' = "after" /\ offset' = offset + 1
        /\ value' = [node |-> Leaf("literal", <<>>), blocks |-> 0]
    BY <2>2, Zenon DEF ParseScalar, Goto
  <2>4. value'.node = v
    BY <1>8, <2>3 DEF Void
  <2>5. QED
    BY <2>1, <2>3, <2>4, Zenon
<1>9. CASE v = Leaf("number", w) /\ Numeral(w) /\ w \in Word
  <2> DEFINE e == NumberEnd(offset)
             read == [node |-> Leaf("number", SubSeq(text, offset + 1, e)), blocks |-> 0]
  <2>1. /\ offset < length /\ At(offset) \in {"1", "-"}
        /\ e # offset /\ SubSeq(text, offset + 1, e) = w /\ Ahead(e, t)
    BY <1>2, <1>5, <1>9, AheadNumber DEF Stops
  <2>2. read.node = v
    <3>1. read.node = Leaf("number", SubSeq(text, offset + 1, e))
      BY Zenon
    <3>2. QED
      BY <1>9, <2>1, <3>1, Zenon
  <2>3. ~Is(offset, "n") /\ ~Is(offset, "q")
        /\ CanAccess(offset) /\ At(offset) \in Digits \cup {"-"}
    BY <2>1 DEF Is, CanAccess, Digits
  <2>4. parse_number
    BY <2>3, Zenon DEF ParseScalar
  <2>5. \/ pc' = "fail" /\ oom'
        \/ e = offset
        \/ pc' = "after" /\ offset' = e /\ value' = read
    BY <2>4, Zenon DEF parse_number, Fail, Goto, NoMemory
  <2> HIDE DEF e, read
  <2>6. QED
    BY <2>1, <2>2, <2>5, Zenon
<1>10. CASE \E s \in Word : v = Leaf("string", s) /\ w = Quoted(s)
  <2>1. PICK s \in Word : v = Leaf("string", s) /\ w = Quoted(s)
    BY <1>10
  <2>2. Ahead(offset, Join(Quoted(s), t))
    BY <1>5, <2>1, Zenon
  <2>3. offset < length /\ At(offset) = "q"
    BY <1>2, <1>5, <2>2, AheadString
  <2>4. ~Is(offset, "n") /\ Is(offset, "q")
    BY <2>3 DEF Is, CanAccess
  <2>5. parse_string("after")
    BY <2>4, Zenon DEF ParseScalar
  <2>6. \/ pc' = "fail" /\ oom'
        \/ pc' = "after" /\ value'.node = Leaf("string", s) /\ Ahead(offset', t)
    BY <1>2, <1>5, <2>2, <2>5, StringRetraced
  <2>7. QED
    BY <2>1, <2>6, Zenon
<1>11. CASE \E c \in Bracket : /\ IsContainer(v, c, n + 1)
                               /\ Begins(w, v, c, f, n + 1, TextAt(n + 1, f))
  <2>1. PICK c \in Bracket : Begins(w, v, c, f, n + 1, TextAt(n + 1, f))
    BY <1>11
  <2>2. PICK z \in Word : w = Join(Mark(LeftOf(c)), z)
    BY <2>1, Zenon DEF Begins
  <2>3. LeftOf(c) \in {"[", "{"}
    BY OpenerIs
  <2>5. offset < length /\ At(offset) = LeftOf(c)
    BY <1>5, <2>2, OpensWith
  <2>6. At(offset) = "[" \/ At(offset) = "{"
    BY <2>3, <2>5
  <2>7. At(offset) # "n" /\ At(offset) # "q" /\ At(offset) \notin Digits \cup {"-"}
    BY <2>6 DEF Digits
  <2>8. Is(offset, "[") \/ Is(offset, "{")
    BY <2>5, <2>6, Zenon DEF Is, CanAccess
  <2>9. ~Is(offset, "n") /\ ~Is(offset, "q")
        /\ ~(CanAccess(offset) /\ At(offset) \in Digits \cup {"-"})
    BY <2>7, Zenon DEF Is
  <2>10. QED
    BY <2>8, <2>9, Zenon DEF ParseScalar
<1>12. QED
  BY <1>6, <1>8, <1>9, <1>10, <1>11, Zenon

\* The text of a value begins with no blank, separator or closing bracket.
LEMMA OpenerNot ==
  ASSUME NEW c \in Opener
  PROVE  c # "w" /\ c # "," /\ c # ":" /\ \A b \in Bracket : c # b
<1>1. c # "w" /\ c # "," /\ c # ":"
  BY DEF Opener
<1>2. ASSUME NEW b \in Bracket PROVE c # b
  <2>1. CASE b = "]"
    BY <2>1 DEF Opener
  <2>2. CASE b # "]"
    <3>1. b = "}"
      BY <2>2, OtherBracket
    <3>2. QED
      BY <3>1 DEF Opener
  <2>3. QED
    BY <2>1, <2>2
<1>3. QED
  BY <1>1, <1>2

\* The text of a child begins with a quotation mark, or as a value does.
LEMMA ChildFirst ==
  ASSUME NEW k \in 0..CJSON_NESTING_LIMIT, NEW f \in BOOLEAN, NEW c,
         NEW kid, kid.name \in Word, kid.node \in Trees[CJSON_NESTING_LIMIT - k],
         NEW w, w = Child(kid, c, f, TextAt(k, f))
  PROVE  w \in Word /\ Len(w) > 0 /\ w[1] \in Opener
<1> DEFINE x == TextAt(k, f)[kid.node]
           d == Caption(c, kid.name, f)
<1>1. x \in Word /\ Len(x) > 0 /\ x[1] \in Opener
  <2>1. k \in Nat /\ CJSON_NESTING_LIMIT - k \in Nat
    BY Rooms
  <2>2. QED
    BY <2>1, LayoutType DEF TextAt
<1>2. w = Join(d, x) /\ d \in Word
  BY CaptionType DEF Child
<1>3. CASE c = "]"
  <2>1. d = Void
    BY <1>3, Zenon DEF Caption
  <2> HIDE DEF x, d
  <2>2. w = x
    BY <1>1, <1>2, <2>1, JoinEmpty
  <2>3. QED
    BY <1>1, <2>2, Zenon
<1>4. CASE c # "]"
  <2> DEFINE m == Join(Mark(":"), Space(f, 1))
  <2>1. d = Join(Quoted(kid.name), m) /\ Quoted(kid.name) \in Word /\ m \in Word
    BY <1>4, CaptionType, Zenon DEF Caption
  <2>4. "q" \in Opener
    BY DEF Opener
  <2>5. Len(Quoted(kid.name)) > 0 /\ Quoted(kid.name)[1] = "q"
    BY QuotedType
  <2> HIDE DEF m, x, d
  <2>6. d[1] = "q" /\ Len(d) > 0
    BY <2>1, <2>5, JoinHead
  <2>7. w[1] = "q" /\ Len(w) > 0 /\ w \in Word
    BY <1>1, <1>2, <2>6, JoinHead
  <2>8. QED
    BY <2>4, <2>7
<1>5. QED
  BY <1>3, <1>4

\* What is behind the blanks, if a child and what is behind it are.
LEMMA ChildAhead ==
  ASSUME NEW k \in 1..CJSON_NESTING_LIMIT, NEW f \in BOOLEAN, NEW c \in Bracket,
         NEW v, IsContainer(v, c, k), NEW m \in 1..Len(v.kids), NEW t \in Word,
         NEW a, a = Child(v.kids[m], c, f, TextAt(k, f)),
         NEW b, b = Behind(c, v.kids, m, f, k, TextAt(k, f)),
         NEW w, Padded(w, Join(a, b))
  PROVE  /\ a \in Word /\ b \in Word /\ Join(b, t) \in Word /\ w \in Word
         /\ Padded(Join(w, t), Join(a, Join(b, t))) /\ Join(w, t) \in Word
         /\ Join(a, Join(b, t)) \in Word /\ Len(Join(a, Join(b, t))) > 0
         /\ Join(a, Join(b, t))[1] \in Opener
<1> DEFINE V == Trees[CJSON_NESTING_LIMIT - k]
           T == TextAt(k, f)
           kids == v.kids
           i == m - 1
<1>1. k \in Nat \ {0} /\ k \in 0..CJSON_NESTING_LIMIT
  BY LimitAssumption
<1>2. kids \in Seq(Named(V))
  BY ContainerFacts DEF IsContainer
<1>3. TextsIn(T, V)
  BY <1>1, TextsAt
<1>4. m \in 0..Len(kids) /\ i \in 0..Len(kids) /\ i < Len(kids) /\ i + 1 = m
  <2>1. m \in 1..Len(kids)
    OBVIOUS
  <2> HIDE DEF kids
  <2>2. Len(kids) \in Nat
    BY <1>2
  <2>3. QED
    BY <2>1, <2>2
<1> HIDE DEF V, T, kids, i
<1>5. kids[m].node \in V /\ kids[m].name \in Word
  <2>1. kids[i + 1].node \in V /\ kids[i + 1].name \in Word
    BY <1>2, <1>4, DropKids
  <2>2. QED
    BY <1>4, <2>1, Zenon
<1>6. b \in Word
  <2>1. Behind(c, kids, m, f, k, T) \in Word
    BY <1>1, <1>2, <1>3, <1>4, BehindType
  <2>2. QED
    BY <2>1 DEF kids, T
<1>7. a \in Word /\ Len(a) > 0 /\ a[1] \in Opener
  <2>1. a = Child(kids[m], c, f, TextAt(k, f))
    BY DEF kids, T
  <2>2. QED
    BY <1>1, <1>5, <2>1, ChildFirst DEF V
<1>8. Join(a, b) \in Word /\ Join(b, t) \in Word
  BY <1>6, <1>7, JoinType
<1>9. /\ Padded(Join(w, t), Join(Join(a, b), t)) /\ w \in Word /\ Join(w, t) \in Word
  BY <1>8, PadTail
<1>10. Join(Join(a, b), t) = Join(a, Join(b, t))
  BY <1>6, <1>7, JoinAssociative
<1>11. /\ Join(a, Join(b, t))[1] = a[1] /\ Len(Join(a, Join(b, t))) > 0
       /\ Join(a, Join(b, t)) \in Word
  BY <1>7, <1>8, JoinHead
<1>12. QED
  BY <1>6, <1>7, <1>8, <1>9, <1>10, <1>11, Zenon

\* The text of the child that the last call reads next.
LEMMA ChildTextIs ==
  ASSUME NEW fs, NEW h, NEW q, NEW f, NEW n, Len(fs) = n, NEW x, Last(fs) = x, NEW c, x.closer = c,
         NEW i, Len(x.kids) = i, NEW v, h[n - 1] = v
  PROVE  ChildText(fs, h, q, f) = Join(Child(v.kids[i + 1], c, f, TextAt(n, f)), q[n])
         /\ Due(fs, h) = v.kids[i + 1]
BY Zenon DEF ChildText, Due

\* A call begins.
LEMMA PushLed ==
  ASSUME Retraced, round = 2, Keeps, pc = "value", pc' = "element",
         NEW g, NEW r, NEW f, NEW n, NEW V, Leads(g, r, f, n, V), n + 1 \in 1..CJSON_NESTING_LIMIT,
         NEW c \in Bracket, NEW v, v = g[n], IsContainer(v, c, n + 1), v.kids # <<>>,
         NEW x, x.closer = c, x.kids = <<>>, frames' = Append(frames, x),
         NEW o, offset' + 1 = o,
         Ahead(o, Join(Child(v.kids[1], c, f, TextAt(n + 1, f)),
                       Join(Behind(c, v.kids, 1, f, n + 1, TextAt(n + 1, f)), r[n])))
  PROVE  Retraced'
<1> DEFINE m == n + 1
           T == TextAt(m, f)
           s == Join(Behind(c, v.kids, 1, f, m, T), r[n])
           u == Join(Child(v.kids[1], c, f, T), s)
           fs == Append(frames, x)
<1>1. /\ f = mode.format /\ f \in BOOLEAN /\ n = Len(frames) /\ frames \in Frames(V)
  BY Zenon DEF Leads
<1>2. Labelled(frames, g) /\ Trail(frames, g, r, f) /\ Rooted(g, r, Recovered(first))
  BY ValueHere
<1>3. PICK h, q : /\ Trail(fs, h, q, f)
                  /\ Resumed(h, q, g, r, m, v.kids[1].node, s)
  <2>1. IsContainer(g[n], c, n + 1) /\ g[n].kids # <<>>
    BY Zenon
  <2>2. \E h, q :
          /\ Trail(Append(frames, x), h, q, f)
          /\ Resumed(h, q, g, r, n + 1, g[n].kids[1].node,
                     Join(Behind(c, g[n].kids, 1, f, n + 1, TextAt(n + 1, f)), r[n]))
    BY <1>1, <1>2, <2>1, TrailPush
  <2>3. QED
    BY <2>2, Zenon
<1>4. n \in Nat /\ m - 1 = n /\ m \in Nat
  BY <1>1 DEF Frames
<1>5. /\ h[n] = v /\ h[0] = g[0] /\ q[0] = r[0] /\ q[m] = s
  <2>1. n \in 0..m - 1 /\ 0 \in 0..m - 1
    BY <1>4
  <2>2. QED
    BY <1>3, <2>1, Zenon DEF Resumed
<1>6. Len(fs) = m /\ Last(fs) = x
  <2>1. Len(fs) = m /\ fs[m] = x
    BY <1>1, <1>4 DEF Frames
  <2>2. QED
    BY <2>1, Zenon DEF Last
<1>7. ChildText(fs, h, q, f) = u
  <2>1. Len(x.kids) = 0 /\ 0 + 1 = 1
    OBVIOUS
  <2> HIDE DEF fs
  <2>2. h[m - 1] = v
    BY <1>4, <1>5, Zenon
  <2> HIDE DEF m
  <2>3. ChildText(fs, h, q, f) = Join(Child(v.kids[0 + 1], c, f, TextAt(m, f)), q[m])
    BY <1>6, <2>1, <2>2, ChildTextIs
  <2>4. QED
    BY <1>5, <2>1, <2>3, Zenon DEF u
<1>8. Ahead(o, u)
  BY Zenon
<1>9. u \in Word
  BY <1>8, Zenon DEF Ahead
<1> HIDE DEF u, fs
<1>10. LedElement(text, length, offset', fs, h, q, f)
  <2>1. Lies(text, length, o, u)
    BY <1>8, LiesIs
  <2>2. Padded(u, u)
    BY <1>9, PadNone
  <2>3. QED
    BY <1>7, <2>1, <2>2, Zenon DEF LedElement
<1>11. Rooted(h, q, Recovered(first))
  BY <1>2, <1>5, Zenon DEF Rooted
<1>12. frames' = fs /\ pc' \in Leading
  BY DEF fs, Leading
<1>13. LedElement(text, length, offset', frames', h, q, mode.format)
       /\ Trail(frames', h, q, mode.format)
  BY <1>1, <1>3, <1>10, <1>12, Zenon
<1>14. QED
  BY <1>11, <1>12, <1>13, LedOn

\* Opening a container cannot fail, and the container is the one that is due.
LEMMA OpenRetraced ==
  ASSUME Parsing, Treed, Printing, Retraced, round = 2, Keeps, ParseOpen
  PROVE  Retraced'
<1>1. pc = "value" /\ pc \in Leading /\ (Is(offset, "[") \/ Is(offset, "{"))
  BY DEF ParseOpen, Leading
<1>2. Ended /\ length \in Nat
  BY <1>1, LedHere
<1>3. PICK g, r, f, n, V : Leads(g, r, f, n, V)
  BY <1>1, LedHere
<1> DEFINE v == g[n]
           t == r[n]
           w == TextAt(n, f)[v]
<1>4. f \in BOOLEAN /\ n \in 0..CJSON_NESTING_LIMIT /\ n = Len(frames)
  BY <1>3, Zenon DEF Leads
<1>5. /\ v \in Trees[CJSON_NESTING_LIMIT - n] /\ t \in Word /\ Stops(t)
      /\ w \in Word /\ Ahead(offset, Join(w, t))
  BY <1>1, <1>3, ValueHere
<1>6. \/ v = Leaf("literal", Void) /\ w = Mark("n")
      \/ v = Leaf("number", w) /\ Numeral(w) /\ w \in Word
      \/ \E s \in Word : v = Leaf("string", s) /\ w = Quoted(s)
      \/ /\ n < CJSON_NESTING_LIMIT
         /\ \E c \in Bracket : /\ IsContainer(v, c, n + 1)
                               /\ Begins(w, v, c, f, n + 1, TextAt(n + 1, f))
  BY <1>4, <1>5, GoalText
<1>7. depth = n /\ CJSON_NESTING_LIMIT \in Nat
  BY <1>1, <1>4, Room
<1>8. At(offset) \in {"[", "{"}
  BY <1>1 DEF Is
<1> HIDE DEF v, t, w
<1>9. n < CJSON_NESTING_LIMIT
      /\ \E c \in Bracket : /\ IsContainer(v, c, n + 1)
                            /\ Begins(w, v, c, f, n + 1, TextAt(n + 1, f))
  <2>1. ~(w = Mark("n"))
    <3>1. SUFFICES ASSUME w = Mark("n") PROVE FALSE
      OBVIOUS
    <3>2. At(offset) = "n"
      BY <1>5, <3>1, Letters, AheadMark
    <3>3. QED
      BY <1>8, <3>2
  <2>2. ~(Numeral(w) /\ w \in Word)
    <3>1. SUFFICES ASSUME Numeral(w), w \in Word PROVE FALSE
      OBVIOUS
    <3>2. At(offset) \in {"1", "-"}
      BY <1>2, <1>5, <3>1, AheadNumber DEF Stops
    <3>3. QED
      BY <1>8, <3>2
  <2>3. ~(\E s \in Word : w = Quoted(s))
    <3>1. SUFFICES ASSUME NEW s \in Word, w = Quoted(s) PROVE FALSE
      OBVIOUS
    <3>2. Ahead(offset, Join(Quoted(s), t))
      BY <1>5, <3>1, Zenon
    <3>3. At(offset) = "q"
      BY <1>2, <1>5, <3>2, AheadString
    <3>4. QED
      BY <1>8, <3>3
  <2>4. QED
    BY <1>6, <2>1, <2>2, <2>3, Zenon
<1>10. PICK c \in Bracket : /\ IsContainer(v, c, n + 1)
                            /\ Begins(w, v, c, f, n + 1, TextAt(n + 1, f))
  BY <1>9
<1> DEFINE k == n + 1
           T == TextAt(k, f)
           o == buffer_skip_whitespace(offset + 1)
           node == Node(Kind[c], <<>>, <<>>)
           empty == [node |-> node, blocks |-> 0]
           call == [closer |-> c, name |-> <<>>, kids |-> <<>>, blocks |-> 0]
<1>11. PICK z \in Word :
         /\ w = Join(Mark(LeftOf(c)), z)
         /\ v.kids = <<>> => Padded(z, Mark(c))
         /\ v.kids # <<>> => Padded(z, Join(Child(v.kids[1], c, f, T),
                                            Behind(c, v.kids, 1, f, k, T)))
  BY <1>10, Zenon DEF Begins
<1>12. /\ At(offset) = LeftOf(c) /\ Ahead(offset + 1, Join(z, t)) /\ Join(z, t) \in Word
       /\ offset \in Nat
  BY <1>5, <1>11, OpensWith
<1>13. Closer[At(offset)] = c /\ c \in Letter /\ c # "w"
  <2>1. c \in Letter \ {"w", "q"}
    BY BracketTypes
  <2>2. Closer[LeftOf(c)] = c
    BY OpenerIs
  <2>3. QED
    BY <1>12, <2>1, <2>2, Zenon
<1>14. k \in 1..CJSON_NESTING_LIMIT
  BY <1>4, <1>7, <1>9
<1>15. IF Is(o, c)
         THEN pc' = "after" /\ offset' = o + 1 /\ value' = empty /\ UNCHANGED frames
       ELSE /\ offset' = o - 1 /\ pc' = IF CanAccess(o) THEN "element" ELSE "fail"
            /\ frames' = Append(frames, call)
  <2>1. ~(depth >= CJSON_NESTING_LIMIT)
    BY <1>4, <1>7, <1>9
  <2>2. QED
    BY <1>13, <2>1, Zenon DEF ParseOpen, Goto
<1>16. empty.node = node /\ call.closer = c /\ call.kids = <<>>
  OBVIOUS
<1> HIDE DEF o, node, empty, call
<1>17. CASE v.kids = <<>>
  <2> DEFINE u == Join(Mark(c), t)
  <2>1. Mark(c) \in Word /\ u \in Word /\ u[1] = c /\ Len(u) > 0
    BY <1>5, <1>13, LetterWord, JoinFirst
  <2>2. Padded(Join(z, t), u)
    BY <1>5, <1>11, <1>17, <2>1, PadTail
  <2> HIDE DEF u
  <2>3. Ahead(o, u) /\ o < length /\ At(o) = c /\ o \in Nat
    BY <1>12, <1>13, <2>1, <2>2, AheadSkip DEF o
  <2>4. Is(o, c)
    BY <2>3, Zenon DEF Is, CanAccess
  <2>5. pc' = "after" /\ offset' = o + 1 /\ value' = empty /\ UNCHANGED frames
    BY <1>15, <2>4, Zenon
  <2>6. Ahead(o + 1, t)
    BY <1>5, <1>13, <2>3, AheadMark DEF u
  <2>7. v = node
    <3>1. v = Node(v.type, <<>>, v.kids) /\ v.type = Kind[c]
      BY <1>10, ContainerFacts DEF IsContainer, Ends
    <3>2. QED
      BY <1>17, <3>1, Zenon DEF node
  <2>8. value'.node = v /\ Ahead(offset', t)
    BY <1>16, <2>5, <2>6, <2>7, Zenon
  <2>9. QED
    BY <1>1, <1>3, <2>5, <2>8, ReadLed DEF v, t
<1>18. CASE v.kids # <<>>
  <2> DEFINE a == Child(v.kids[1], c, f, T)
             b == Behind(c, v.kids, 1, f, k, T)
             u == Join(a, Join(b, t))
  <2>1. 1 \in 1..Len(v.kids)
    <3>1. v.kids \in Seq(Named(Trees[CJSON_NESTING_LIMIT - (n + 1)]))
      BY <1>10, ContainerFacts DEF IsContainer
    <3> DEFINE kids == v.kids
               W == Named(Trees[CJSON_NESTING_LIMIT - (n + 1)])
    <3>2. kids \in Seq(W) /\ kids # <<>>
      BY <1>18, <3>1
    <3> HIDE DEF kids, W
    <3>3. 1 \in 1..Len(kids)
      BY <3>2
    <3>4. QED
      BY <3>3 DEF kids
  <2>2. Padded(z, Join(a, b)) /\ IsContainer(v, c, k)
    BY <1>10, <1>11, <1>18, Zenon
  <2>3. a = Child(v.kids[1], c, f, TextAt(k, f)) /\ b = Behind(c, v.kids, 1, f, k, TextAt(k, f))
    OBVIOUS
  <2> HIDE DEF a, b, T, k
  <2>4. /\ Padded(Join(z, t), u) /\ u \in Word /\ Len(u) > 0 /\ u[1] \in Opener
    BY <1>4, <1>5, <1>14, <2>1, <2>2, <2>3, ChildAhead
  <2> HIDE DEF u
  <2>5. u[1] # "w" /\ u[1] # c
    BY <2>4, OpenerNot
  <2>6. Ahead(o, u) /\ o < length /\ At(o) = u[1] /\ o \in Nat
    BY <1>12, <2>4, <2>5, AheadSkip DEF o
  <2>7. ~Is(o, c) /\ CanAccess(o)
    BY <2>5, <2>6, Zenon DEF Is, CanAccess
  <2>8. pc' = "element" /\ offset' = o - 1 /\ frames' = Append(frames, call)
    BY <1>15, <2>7, Zenon
  <2>9. offset' + 1 = o
    BY <2>6, <2>8
  <2>10. Ahead(o, Join(Child(v.kids[1], c, f, TextAt(n + 1, f)),
                       Join(Behind(c, v.kids, 1, f, n + 1, TextAt(n + 1, f)), r[n])))
    BY <2>6, Zenon DEF u, a, b, T, k, t
  <2>11. v = g[n] /\ IsContainer(v, c, n + 1) /\ n + 1 \in 1..CJSON_NESTING_LIMIT
    BY <1>10, <1>14, Zenon DEF v, k
  <2>12. QED
    BY <1>1, <1>3, <1>16, <1>18, <2>8, <2>9, <2>10, <2>11, PushLed
<1>19. QED
  BY <1>17, <1>18

\* The child that is due, and the text of it.
LEMMA ChildHere ==
  ASSUME Parsing, frames # <<>>, NEW g, NEW r, NEW f, NEW n, NEW V, Leads(g, r, f, n, V),
         NEW v, v = g[n - 1], NEW kid, kid = v.kids[Len(Top.kids) + 1],
         NEW T, T = TextAt(n, f), NEW c, c = Top.closer
  PROVE  /\ n \in 1..CJSON_NESTING_LIMIT /\ Top = frames[n] /\ c \in Bracket /\ f \in BOOLEAN
         /\ Trail(frames, g, r, f) /\ Rooted(g, r, Recovered(first))
         /\ IsContainer(v, c, n) /\ Len(Top.kids) \in Nat /\ Len(Top.kids) + 1 \in 1..Len(v.kids)
         /\ kid.name \in Word /\ kid.node = g[n] /\ Due(frames, g) = kid
         /\ r[n] \in Word /\ T[g[n]] \in Word /\ Len(T[g[n]]) > 0 /\ T[g[n]][1] \in Opener
         /\ ValueText(frames, g, r, f) = Join(T[g[n]], r[n])
         /\ ChildText(frames, g, r, f) = Join(Child(kid, c, f, T), r[n])
         /\ Child(kid, c, f, T) \in Word /\ Len(Child(kid, c, f, T)) > 0
         /\ Child(kid, c, f, T)[1] \in Opener
<1> DEFINE i == Len(Top.kids)
<1>1. /\ Led(g, r) /\ f = mode.format /\ f \in BOOLEAN /\ n = Len(frames)
      /\ frames \in Frames(V) /\ n \in 0..CJSON_NESTING_LIMIT
  BY Zenon DEF Leads
<1>2. Trail(frames, g, r, f) /\ Rooted(g, r, Recovered(first))
  BY <1>1, Zenon DEF Led
<1>3. /\ n \in Nat \ {0} /\ Top = frames[n] /\ IsGoal(g[n], r[n], n)
      /\ Link(Top, g[n - 1], r[n - 1], g[n], r[n], f, n)
  BY <1>1, <1>2, TrailLast DEF Top
<1>4. n \in 1..CJSON_NESTING_LIMIT
  BY <1>1, <1>3
<1>5. /\ c \in Bracket /\ IsContainer(v, c, n)
      /\ i \in Nat /\ i + 1 \in 1..Len(v.kids)
      /\ g[n] = kid.node
  BY <1>3, Zenon DEF Link
<1>6. kid.name \in Word
  <2> DEFINE kids == v.kids
             W == Trees[CJSON_NESTING_LIMIT - n]
  <2>1. kids \in Seq(Named(W))
    BY <1>5, ContainerFacts DEF IsContainer
  <2>2. i + 1 \in 1..Len(kids) /\ kid = kids[i + 1]
    BY <1>5
  <2> HIDE DEF kids, W
  <2>3. i \in 0..Len(kids) /\ i < Len(kids)
    BY <1>5, <2>1, <2>2
  <2> HIDE DEF i
  <2>4. kids[i + 1].name \in Word
    BY <2>1, <2>3, DropKids
  <2>5. QED
    BY <2>2, <2>4, Zenon
<1>7. g[n] \in Trees[CJSON_NESTING_LIMIT - n] /\ r[n] \in Word
  BY <1>3, Zenon DEF IsGoal
<1>8. T[g[n]] \in Word /\ Len(T[g[n]]) > 0 /\ T[g[n]][1] \in Opener
  <2>1. n \in Nat /\ CJSON_NESTING_LIMIT - n \in Nat
    BY <1>1, Rooms
  <2>2. QED
    BY <1>1, <1>7, <2>1, LayoutType DEF TextAt
<1>9. /\ Child(kid, c, f, T) \in Word /\ Len(Child(kid, c, f, T)) > 0
      /\ Child(kid, c, f, T)[1] \in Opener
  <2>1. kid.node \in Trees[CJSON_NESTING_LIMIT - n]
    BY <1>5, <1>7
  <2> DEFINE w == Child(kid, c, f, T)
  <2>2. w = Child(kid, c, f, TextAt(n, f))
    OBVIOUS
  <2> HIDE DEF w
  <2>3. w \in Word /\ Len(w) > 0 /\ w[1] \in Opener
    BY <1>1, <1>6, <2>1, <2>2, ChildFirst
  <2>4. QED
    BY <2>3 DEF w
<1>10. /\ ChildText(frames, g, r, f) = Join(Child(kid, c, f, T), r[n])
       /\ Due(frames, g) = kid
  BY <1>1, Zenon DEF ChildText, Due, Top
<1>11. ValueText(frames, g, r, f) = Join(T[g[n]], r[n])
  BY <1>1, Zenon DEF ValueText
<1>12. QED
  BY <1>1, <1>2, <1>3, <1>4, <1>5, <1>6, <1>7, <1>8, <1>9, <1>10, <1>11, Zenon

\* The call that is changed still has to read the same.
LEMMA TopLed ==
  ASSUME Parsing, frames # <<>>, NEW g, NEW r, NEW f, NEW n, NEW V, Leads(g, r, f, n, V),
         NEW x, x.closer = Top.closer, x.kids = Top.kids, SetTop(x)
  PROVE  /\ Trail(frames', g, r, f) /\ Len(frames') = n /\ frames'[n] = x
         /\ ValueText(frames', g, r, f) = ValueText(frames, g, r, f)
         /\ ChildText(frames', g, r, f) = ChildText(frames, g, r, f)
         /\ x.name = Due(frames, g).name => Labelled(frames', g)
<1>1. f = mode.format /\ n = Len(frames) /\ frames \in Frames(V) /\ Trail(frames, g, r, f)
  BY Zenon DEF Leads, Led
<1>2. Trail(frames', g, r, f) /\ Len(frames') = n /\ frames'[n] = x
  <2>1. frames' = [frames EXCEPT ![Len(frames)] = x]
    BY Zenon DEF SetTop
  <2>2. /\ Len(frames') = n /\ frames'[n] = x
        /\ \A k \in 1..n - 1 : frames'[k] = frames[k]
    <3>1. /\ Len(frames') = Len(frames) /\ frames'[Len(frames)] = x
          /\ \A k \in 1..Len(frames) - 1 : frames'[k] = frames[k]
      BY <1>1, <2>1, LastChanged
    <3>2. QED
      BY <1>1, <3>1, Zenon
  <2>3. x.closer = Last(frames).closer /\ x.kids = Last(frames).kids
    BY Zenon DEF Top
  <2>4. Trail(frames', g, r, f)
    BY <1>1, <2>2, <2>3, TrailTop, Zenon
  <2>5. QED
    BY <2>2, <2>4
<1>3. Last(frames') = x
  BY <1>2, Zenon DEF Last
<1>4. Due(frames', g) = Due(frames, g)
  BY <1>1, <1>2, <1>3, Zenon DEF Due, Top
<1>5. ChildText(frames', g, r, f) = ChildText(frames, g, r, f)
  BY <1>1, <1>2, <1>3, <1>4, Zenon DEF ChildText, Top
<1>6. ValueText(frames', g, r, f) = ValueText(frames, g, r, f)
  BY <1>1, <1>2, Zenon DEF ValueText
<1>7. x.name = Due(frames, g).name => Labelled(frames', g)
  BY <1>1, <1>2, Zenon DEF Labelled, NameIs, Due, Top
<1>8. QED
  BY <1>2, <1>5, <1>6, <1>7

\* The children of an array have no names.
LEMMA ArrayNames ==
  ASSUME Treed, Parsing, frames # <<>>, NEW c, c = Top.closer, c = "]", NEW n, n = Len(frames),
         NEW v, IsContainer(v, c, n), NEW i \in 1..Len(v.kids)
  PROVE  Top.name = Void /\ v.kids[i].name = Void
<1>1. IsCallAt(Top, n)
  BY InnerTreed
<1>2. Top.name = Void
  BY <1>1, Zenon DEF IsCallAt, IsCall
<1>3. v.type = "array"
  <2>1. Kind["]"] = "array"
    BY Zenon DEF Kind
  <2>2. QED
    BY <2>1, Zenon DEF IsContainer, Ends
<1>4. v.kids \in Seq(Named(Trees[CJSON_NESTING_LIMIT - n]))
      /\ \A j \in DOMAIN v.kids : v.kids[j].name = <<>>
  BY <1>3, ContainerFacts DEF IsContainer
<1>5. DOMAIN v.kids = 1..Len(v.kids)
  <2> DEFINE kids == v.kids
             W == Named(Trees[CJSON_NESTING_LIMIT - n])
  <2>1. kids \in Seq(W)
    BY <1>4
  <2> HIDE DEF kids, W
  <2>2. DOMAIN kids = 1..Len(kids)
    BY <2>1
  <2>3. QED
    BY <2>2 DEF kids
<1>6. QED
  BY <1>2, <1>4, <1>5, Zenon DEF Void

\* The next child is begun.
LEMMA ElementRetraced ==
  ASSUME Parsing, Treed, Printing, Retraced, round = 2, Keeps, ParseElement
  PROVE  Retraced'
<1>1. pc = "element" /\ pc \in Leading /\ frames # <<>>
  BY DEF ParseElement, Leading, Parsing, Nested
<1>2. PICK g, r, f, n, V : Leads(g, r, f, n, V)
  BY <1>1, LedHere
<1> DEFINE v == g[n - 1]
           i == Len(Top.kids) + 1
           kid == v.kids[i]
           T == TextAt(n, f)
           c == Top.closer
           a == Child(kid, c, f, T)
           u == Join(a, r[n])
           x == [Top EXCEPT !.blocks = Top.blocks + 1]
           o == buffer_skip_whitespace(offset + 1)
<1>3. f = mode.format /\ n = Len(frames)
  BY <1>2, Zenon DEF Leads
<1>4. /\ c \in Bracket /\ Trail(frames, g, r, f) /\ Rooted(g, r, Recovered(first))
      /\ IsContainer(v, c, n) /\ i \in 1..Len(v.kids)
      /\ Due(frames, g) = kid /\ ValueText(frames, g, r, f) = Join(T[g[n]], r[n])
      /\ ChildText(frames, g, r, f) = u
      /\ r[n] \in Word /\ kid.node = g[n] /\ T[g[n]] \in Word
      /\ a \in Word /\ Len(a) > 0 /\ a[1] \in Opener
  BY <1>1, <1>2, ChildHere
<1>5. x.closer = c /\ x.name = Top.name /\ x.kids = Top.kids
  <2>1. \E U : Top \in Frame(U)
    BY <1>1, InnerTreed, Zenon
  <2>2. QED
    BY <2>1, FrameChange
<1>6. \/ oom' /\ pc' = "fail"
      \/ /\ SetTop(x)
         /\ IF c = "}" /\ ~CanAccess(offset + 1) THEN pc' = "fail"
            ELSE offset' = o /\ pc' = IF c = "}" THEN "name" ELSE "value"
  BY DEF ParseElement, Fail, Goto, NoMemory
<1>7. PICK w : Lies(text, length, offset + 1, w) /\ Padded(w, ChildText(frames, g, r, f))
  BY <1>1, <1>2, Zenon DEF Leads, Led, LedElement
<1> HIDE DEF v, i, kid, T, c, a, x, o
<1>8. u \in Word /\ Len(u) > 0 /\ u[1] \in Opener
  BY <1>4, JoinHead
<1> HIDE DEF u
<1>9. u[1] # "w"
  BY <1>8, OpenerNot
<1>10. Ahead(offset + 1, w) /\ Padded(w, u)
  BY <1>4, <1>7, LiesIs
<1>11. Ahead(o, u)
  BY <1>8, <1>9, <1>10, AheadSkip DEF o
<1>12. CanAccess(offset + 1)
  BY <1>10, AheadBegin DEF CanAccess
<1>13. CASE SetTop(x) /\ offset' = o /\ pc' = IF c = "}" THEN "name" ELSE "value"
  <2>1. /\ Trail(frames', g, r, f)
        /\ ValueText(frames', g, r, f) = ValueText(frames, g, r, f)
        /\ ChildText(frames', g, r, f) = ChildText(frames, g, r, f)
        /\ x.name = Due(frames, g).name => Labelled(frames', g)
    <3>1. x.closer = Top.closer /\ x.kids = Top.kids
      BY <1>5, Zenon DEF c
    <3>2. QED
      BY <1>1, <1>2, <1>13, <3>1, TopLed
  <2>2. Lies(text, length, offset', u)
    BY <1>11, <1>13, LiesIs
  <2>3. CASE c # "]"
    <3>1. c = "}"
      BY <1>4, <2>3, OtherBracket
    <3>2. pc' = "name" /\ pc' \in Leading
      BY <1>13, <3>1 DEF Leading
    <3>3. LedName(text, length, offset', frames', g, r, f)
      BY <1>4, <2>1, <2>2, Zenon DEF LedName
    <3>4. QED
      BY <1>3, <1>4, <2>1, <3>2, <3>3, LedOn
  <2>4. CASE c = "]"
    <3>1. pc' = "value" /\ pc' \in Leading
      BY <1>13, <2>4 DEF Leading
    <3>2. Top.name = Void /\ kid.name = Void
      BY <1>1, <1>3, <1>4, <2>4, ArrayNames DEF c, kid
    <3>3. Labelled(frames', g)
      BY <1>4, <1>5, <2>1, <3>2, Zenon
    <3>4. a = T[g[n]]
      <4>1. a = Join(Void, T[g[n]])
        BY <1>4, <2>4, Zenon DEF a, Child, Caption
      <4>2. QED
        BY <1>4, <4>1, JoinEmpty
    <3>5. ValueText(frames', g, r, f) = u
      BY <1>4, <2>1, <3>4, Zenon DEF u
    <3>6. LedValue(text, length, offset', frames', g, r, f)
      BY <2>2, <3>3, <3>5, Zenon DEF LedValue
    <3>7. QED
      BY <1>3, <1>4, <2>1, <3>1, <3>6, LedOn
  <2>5. QED
    BY <2>3, <2>4
<1>14. CASE oom' /\ pc' = "fail"
  BY <1>14, OomOn
<1>15. QED
  BY <1>6, <1>12, <1>13, <1>14, Zenon

\* The name of a member.
LEMMA NameRetraced ==
  ASSUME Parsing, Treed, Printing, Retraced, round = 2, Keeps, ParseName
  PROVE  Retraced'
<1>1. pc = "name" /\ pc \in Leading /\ frames # <<>> /\ UNCHANGED frames /\ parse_string("colon")
  BY DEF ParseName, Leading, Parsing, Nested
<1>2. PICK g, r, f, n, V : Leads(g, r, f, n, V)
  BY <1>1, LedHere
<1> DEFINE v == g[n - 1]
           i == Len(Top.kids) + 1
           kid == v.kids[i]
           T == TextAt(n, f)
           c == Top.closer
           name == Quoted(kid.name)
           m == Join(Mark(":"), Space(f, 1))
           w == T[g[n]]
           t == r[n]
           u == Join(m, Join(w, t))
<1>3. f = mode.format /\ n = Len(frames)
  BY <1>2, Zenon DEF Leads
<1>4. /\ Trail(frames, g, r, f) /\ Rooted(g, r, Recovered(first))
      /\ Due(frames, g) = kid /\ ValueText(frames, g, r, f) = Join(w, t)
      /\ ChildText(frames, g, r, f) = Join(Child(kid, c, f, T), t)
      /\ kid.name \in Word /\ kid.node = g[n] /\ w \in Word /\ t \in Word
  BY <1>1, <1>2, ChildHere
<1>5. Ahead(offset, ChildText(frames, g, r, f))
  <2>1. Lies(text, length, offset, ChildText(frames, g, r, f))
    BY <1>1, <1>2, Zenon DEF Leads, Led, LedName
  <2>2. QED
    BY <2>1, LiesIs
<1>6. c # "]"
  <2>1. c = "}"
    BY <1>1 DEF Treed
  <2>2. QED
    BY <2>1, Zenon
<1>7. name \in Word /\ m \in Word
  BY <1>4, CaptionType
<1>8. Child(kid, c, f, T) = Join(Join(name, m), w)
  BY <1>4, <1>6, Zenon DEF Child, Caption
<1> HIDE DEF kid, T, c, name, m, w, t
<1>9. Join(Join(Join(name, m), w), t) = Join(name, u) /\ u \in Word
  <2>1. Join(name, m) \in Word /\ Join(w, t) \in Word
    BY <1>4, <1>7, JoinType
  <2>2. Join(Join(Join(name, m), w), t) = Join(Join(name, m), Join(w, t))
    BY <1>4, <2>1, JoinAssociative
  <2>3. Join(Join(name, m), Join(w, t)) = Join(name, Join(m, Join(w, t)))
    BY <1>7, <2>1, JoinAssociative
  <2>4. Join(m, Join(w, t)) \in Word
    BY <1>7, <2>1, JoinType
  <2>5. QED
    BY <2>2, <2>3, <2>4, Zenon
<1> HIDE DEF u
<1>10. Ahead(offset, Join(Quoted(kid.name), u))
  BY <1>4, <1>5, <1>8, <1>9, Zenon DEF name
<1>11. \/ pc' = "fail" /\ oom'
       \/ pc' = "colon" /\ value'.node = Leaf("string", kid.name) /\ Ahead(offset', u)
  <2>1. Ended
    BY <1>1, LedHere
  <2>2. QED
    BY <1>1, <1>4, <1>9, <1>10, <2>1, StringRetraced
<1>12. CASE pc' = "colon" /\ value'.node = Leaf("string", kid.name) /\ Ahead(offset', u)
  <2>1. value'.node.chars = kid.name
    BY <1>12 DEF Leaf, Node
  <2>2. Lies(text, length, offset', u)
    BY <1>12, LiesIs
  <2>3. LedColon(text, length, offset', value'.node, frames', g, r, f)
    <3>1. u = Join(Join(Mark(":"), Space(f, 1)), ValueText(frames, g, r, f))
      BY <1>4, Zenon DEF u, m
    <3>2. QED
      BY <1>1, <1>4, <2>1, <2>2, <3>1, Zenon DEF LedColon
  <2>4. Trail(frames', g, r, f) /\ pc' \in Leading
    BY <1>1, <1>4, <1>12 DEF Leading
  <2>5. QED
    BY <1>3, <1>4, <1>12, <2>3, <2>4, LedOn
<1>13. CASE pc' = "fail" /\ oom'
  BY <1>13, OomOn
<1>14. QED
  BY <1>11, <1>12, <1>13

\* The colon behind it.
LEMMA ColonRetraced ==
  ASSUME Parsing, Treed, Printing, Retraced, round = 2, Keeps, ParseColon
  PROVE  Retraced'
<1>1. pc = "colon" /\ pc \in Leading /\ frames # <<>>
  BY DEF ParseColon, Leading, Parsing, Nested
<1>2. PICK g, r, f, n, V : Leads(g, r, f, n, V)
  BY <1>1, LedHere
<1> DEFINE v == g[n - 1]
           kid == v.kids[Len(Top.kids) + 1]
           w == TextAt(n, f)[g[n]]
           name == value.node.chars
           u == Join(w, r[n])
           s == Space(f, 1)
           x == [Top EXCEPT !.name = name, !.blocks = Top.blocks + value.blocks]
           o == buffer_skip_whitespace(offset)
           p == buffer_skip_whitespace(o + 1)
<1>3. f = mode.format /\ n = Len(frames)
  BY <1>2, Zenon DEF Leads
<1>4. /\ Trail(frames, g, r, f) /\ Rooted(g, r, Recovered(first))
      /\ Due(frames, g) = kid /\ ValueText(frames, g, r, f) = u
      /\ w \in Word /\ Len(w) > 0 /\ w[1] \in Opener /\ r[n] \in Word
  BY <1>1, <1>2, ChildHere
<1>5. /\ name = Due(frames, g).name
      /\ Lies(text, length, offset, Join(Join(Mark(":"), s), ValueText(frames, g, r, f)))
  BY <1>1, <1>2, Zenon DEF Leads, Led, LedColon
<1>6. SetTop(x) /\ (IF Is(o, ":") THEN offset' = p /\ pc' = "value" ELSE pc' = "fail")
  BY DEF ParseColon, Fail, Goto
<1>7. x.closer = Top.closer /\ x.name = name /\ x.kids = Top.kids
  <2>1. \E U : Top \in Frame(U)
    BY <1>1, InnerTreed, Zenon
  <2>2. QED
    BY <2>1, FrameChange
<1>8. s \in Word /\ s \in Blanked /\ Mark(":") \in Word /\ ":" \in Letter
  BY SpaceBlanked, BlankedWord, MarkWords, Letters
<1> HIDE DEF name, w, x, o, p, s
<1>9. u \in Word /\ Len(u) > 0 /\ u[1] \in Opener
  BY <1>4, JoinHead
<1>10. u[1] # "w"
  BY <1>9, OpenerNot
<1> HIDE DEF u
<1>11. Ahead(offset, Join(Mark(":"), Join(s, u))) /\ Join(s, u) \in Word
  <2>1. Ahead(offset, Join(Join(Mark(":"), s), u))
    BY <1>4, <1>5, LiesIs
  <2>2. Join(Join(Mark(":"), s), u) = Join(Mark(":"), Join(s, u))
    BY <1>8, <1>9, JoinAssociative
  <2>3. Join(s, u) \in Word
    BY <1>8, <1>9, JoinType
  <2>4. QED
    BY <2>1, <2>2, <2>3, Zenon
<1>12. offset \in Nat /\ offset < length /\ At(offset) = ":" /\ Ahead(offset + 1, Join(s, u))
  BY <1>8, <1>11, AheadMark
<1>13. o = offset
  <2>1. length \in Nat /\ offset \in 0..length
    BY DEF Parsing, Placed
  <2>2. At(offset) \notin {"w", Nul}
    BY <1>12 DEF Nul
  <2>3. QED
    BY <1>12, <2>1, <2>2, SkipNothing DEF o
<1>14. Ahead(p, u)
  <2>1. Padded(Join(s, u), u)
    BY <1>8, Zenon DEF Padded
  <2>2. QED
    BY <1>9, <1>10, <1>12, <1>13, <2>1, AheadSkip DEF p
<1>15. offset' = p /\ pc' = "value"
  <2>1. Is(o, ":")
    BY <1>12, <1>13 DEF Is, CanAccess
  <2>2. QED
    BY <1>6, <2>1
<1>16. /\ Trail(frames', g, r, f)
       /\ ValueText(frames', g, r, f) = u /\ Labelled(frames', g)
  BY <1>1, <1>2, <1>4, <1>5, <1>6, <1>7, TopLed
<1>17. LedValue(text, length, offset', frames', g, r, f)
  <2>1. Lies(text, length, offset', u)
    BY <1>14, <1>15, LiesIs
  <2>2. QED
    BY <1>16, <2>1, Zenon DEF LedValue
<1>18. pc' \in Leading
  BY <1>15 DEF Leading
<1>19. QED
  BY <1>3, <1>4, <1>15, <1>16, <1>17, <1>18, LedOn
-----------------------------------------------------------------------------
(***************************************************************************)
(* A child is complete.                                                    *)
(***************************************************************************)

\* Children that agree with those of v, and the next one of v behind them.
LEMMA KidsGrown ==
  ASSUME NEW V, NEW kids \in Seq(Named(V)), NEW all \in Seq(Named(V)),
         NEW i, i = Len(kids), i + 1 \in 1..Len(all), Agree(kids, all, i),
         NEW kid \in Named(V), kid.name = all[i + 1].name, kid.node = all[i + 1].node,
         NEW more, more = Further(kids, kid)
  PROVE  /\ i \in Nat /\ Len(more) = i + 1 /\ more[i + 1] = all[i + 1]
         /\ Agree(more, kids, i)
         /\ i + 1 = Len(all) => more = all
<1>0. i \in Nat /\ Len(all) \in Nat
  OBVIOUS
<1>1. more \in Seq(Named(V)) /\ IsFurther(more, kids, kid)
  BY FurtherIs
<1>2. /\ Len(more) = i + 1 /\ more[i + 1] = kid
      /\ \A j \in 1..i : more[j] = kids[j]
  BY <1>1, Zenon DEF IsFurther
<1>3. kid = all[i + 1]
  <2>1. all[i + 1] \in Named(V)
    BY ElementOfSeq
  <2> DEFINE x == all[i + 1]
  <2>2. x = [name |-> x.name, node |-> x.node] /\ kid = [name |-> kid.name, node |-> kid.node]
    BY <2>1 DEF Named
  <2>3. QED
    BY <2>2
<1>4. more[i + 1] = all[i + 1]
  BY <1>2, <1>3, Zenon
<1>5. ASSUME i + 1 = Len(all) PROVE more = all
  <2>1. \A j \in 1..i + 1 : j \in 1..i \/ j = i + 1
    BY <1>0
  <2>2. \A j \in 1..i + 1 : more[j] = all[j]
    BY <1>2, <1>4, <2>1, Zenon DEF Agree
  <2>3. Len(more) = Len(all) /\ \A j \in 1..Len(more) : more[j] = all[j]
    BY <1>2, <1>5, <2>2, Zenon
  <2>4. QED
    BY <1>1, <2>3, SameSequence
<1>6. QED
  BY <1>0, <1>2, <1>4, <1>5, Zenon DEF Agree

\* The child is the one that was due, and the text goes on behind it.
Arrived(g, r, f, n, v, c, mine, more) ==
  LET i == Len(mine) IN
  /\ n \in 1..CJSON_NESTING_LIMIT /\ n = Len(frames) /\ c \in Bracket /\ f \in BOOLEAN
  /\ Trail(frames, g, r, f) /\ Rooted(g, r, Recovered(first)) /\ Labelled(frames, g)
  /\ value.node = g[n] /\ Ahead(offset, r[n])
  /\ IsContainer(v, c, n) /\ i \in Nat /\ i + 1 \in 1..Len(v.kids)
  /\ v.kids \in Seq(Named(Trees[CJSON_NESTING_LIMIT - n]))
  /\ r[n - 1] \in Word
  /\ r[n] = Join(Behind(c, v.kids, i + 1, f, n, TextAt(n, f)), r[n - 1])
  /\ Len(more) = i + 1 /\ more[i + 1] = v.kids[i + 1]
  /\ \A j \in 1..i : more[j] = mine[j]
  /\ i + 1 = Len(v.kids) => more = v.kids

\* What a call reads when a child of it is complete.
LEMMA AfterHere ==
  ASSUME Parsing, Treed, pc = "after", frames # <<>>,
         NEW g, NEW r, NEW f, NEW n, NEW V, Leads(g, r, f, n, V),
         NEW v, v = g[n - 1], NEW c, c = Top.closer,
         NEW kid, kid = Kid(Top.name, value.node), NEW more, more = Further(Top.kids, kid)
  PROVE  Arrived(g, r, f, n, v, c, Top.kids, more)
<1> DEFINE i == Len(Top.kids)
           W == Trees[CJSON_NESTING_LIMIT - n]
           all == v.kids
<1>1. /\ Led(g, r) /\ f = mode.format /\ f \in BOOLEAN /\ n = Len(frames)
      /\ frames \in Frames(V) /\ n \in 0..CJSON_NESTING_LIMIT
  BY Zenon DEF Leads
<1>2. Trail(frames, g, r, f) /\ Rooted(g, r, Recovered(first))
      /\ LedAfter(text, length, offset, value.node, frames, g, r)
  BY <1>1, Zenon DEF Led
<1>3. /\ n \in Nat \ {0} /\ Top = frames[n] /\ IsGoal(g[n], r[n], n)
      /\ IsGoal(g[n - 1], r[n - 1], n - 1)
      /\ Link(Top, g[n - 1], r[n - 1], g[n], r[n], f, n)
  BY <1>1, <1>2, TrailLast DEF Top
<1>4. n \in 1..CJSON_NESTING_LIMIT /\ n > 0
  BY <1>1, <1>3
<1>5. /\ c \in Bracket /\ IsContainer(v, c, n) /\ i \in Nat /\ i + 1 \in 1..Len(all)
      /\ (\A j \in 1..i : Top.kids[j] = all[j]) /\ g[n] = all[i + 1].node
      /\ r[n] = Join(Behind(c, all, i + 1, f, n, TextAt(n, f)), r[n - 1])
  BY <1>3, Zenon DEF Link
<1>6. Labelled(frames, g) /\ value.node = g[n] /\ Lies(text, length, offset, r[n])
  BY <1>1, <1>2, Zenon DEF LedAfter
<1>7. Top.name = all[i + 1].name
  BY <1>1, <1>3, <1>4, <1>6, Zenon DEF Labelled, NameIs
<1>8. Ahead(offset, r[n]) /\ r[n - 1] \in Word
  BY <1>3, <1>6, LiesIs DEF IsGoal
<1>9. all \in Seq(Named(W))
  BY <1>5, ContainerFacts DEF IsContainer
<1>10. kid \in Named(W) /\ kid.name = Top.name /\ kid.node = value.node
       /\ Top.kids \in Seq(Named(W))
  <2>1. IsCallAt(Top, Len(frames))
    BY InnerTreed
  <2>2. Top.name \in Word /\ Top.kids \in Seq(Named(W))
    BY <1>1, <2>1, Zenon DEF IsCallAt, IsCall
  <2>3. value.node \in W
    BY <1>1, Zenon DEF Treed
  <2>4. QED
    BY <2>2, <2>3 DEF Kid, Named
<1> DEFINE mine == Top.kids
<1>11. mine \in Seq(Named(W)) /\ i = Len(mine) /\ more = Further(mine, kid)
       /\ Agree(mine, all, i)
       /\ kid.name = all[i + 1].name /\ kid.node = all[i + 1].node
  BY <1>5, <1>6, <1>7, <1>10, Zenon DEF Agree
<1> HIDE DEF mine, all, W
<1>12. /\ Len(more) = i + 1 /\ more[i + 1] = all[i + 1]
       /\ Agree(more, mine, i)
       /\ i + 1 = Len(all) => more = all
  <2>1. i + 1 \in 1..Len(all) /\ kid \in Named(W)
    BY <1>5, <1>10
  <2>2. QED
    BY <1>9, <1>11, <2>1, KidsGrown
<1>13. QED
  BY <1>1, <1>2, <1>4, <1>5, <1>6, <1>8, <1>9, <1>12, Zenon DEF Arrived, Agree, mine, all, W

\* The container is complete, and its closing bracket is there.
LEMMA ClosedRetraced ==
  ASSUME Parsing, Treed, Printing, Retraced, round = 2, Keeps, ParseAfter,
         NEW g, NEW r, NEW f, NEW n, NEW V, Leads(g, r, f, n, V),
         NEW v, v = g[n - 1], Len(Top.kids) + 1 = Len(v.kids)
  PROVE  Retraced'
<1> DEFINE kid == Kid(Top.name, value.node)
           kids == Further(Top.kids, kid)
           c == Top.closer
           i == Len(Top.kids)
           T == TextAt(n, f)
           node == Node(Kind[c], <<>>, kids)
           item == [node |-> node, blocks |-> Top.blocks + value.blocks]
           o == buffer_skip_whitespace(offset)
           t == r[n - 1]
           u == Join(Mark(c), t)
           b == Behind(c, v.kids, i + 1, f, n, T)
<1>1. pc = "after" /\ pc \in Leading /\ frames # <<>>
  BY DEF ParseAfter, Leading
<1>2. f = mode.format /\ frames \in Frames(V)
  BY Zenon DEF Leads
<1>3. /\ n \in 1..CJSON_NESTING_LIMIT /\ n = Len(frames) /\ c \in Bracket /\ f \in BOOLEAN
      /\ Trail(frames, g, r, f) /\ Rooted(g, r, Recovered(first))
      /\ Ahead(offset, r[n]) /\ IsContainer(v, c, n) /\ t \in Word
      /\ v.kids \in Seq(Named(Trees[CJSON_NESTING_LIMIT - n]))
      /\ r[n] = Join(b, t) /\ kids = v.kids
  <2>1. c = Top.closer /\ kid = Kid(Top.name, value.node) /\ kids = Further(Top.kids, kid)
    OBVIOUS
  <2> HIDE DEF c, kid, kids
  <2>2. Arrived(g, r, f, n, v, c, Top.kids, kids)
    BY <1>1, <2>1, AfterHere
  <2>3. QED
    BY <2>2, Zenon DEF Arrived
<1>4. IF Is(o, c)
        THEN pc' = "after" /\ offset' = o + 1 /\ value' = item /\ frames' = Front(frames)
      ELSE TRUE
  BY Zenon DEF ParseAfter, Goto, Pop, Kid, Further
<1>5. item.node = node
  OBVIOUS
<1>6. node = v
  <2>1. v = Node(v.type, <<>>, v.kids) /\ v.type = Kind[c]
    BY <1>3, ContainerFacts DEF IsContainer, Ends
  <2>2. QED
    BY <1>3, <2>1, Zenon
<1> HIDE DEF kid, kids, node, item, o
<1>7. Padded(b, Mark(c)) /\ Mark(c) \in Word
  <2> DEFINE all == v.kids
             W == Trees[CJSON_NESTING_LIMIT - n]
             m == i + 1
  <2>1. all \in Seq(Named(W)) /\ m = Len(all) /\ n \in Nat \ {0}
    BY <1>3
  <2> HIDE DEF all, W, m, T, c
  <2>2. Padded(Behind(c, all, m, f, n, T), Mark(c)) /\ Mark(c) \in Word
    BY <1>3, <2>1, BehindEnd
  <2>3. QED
    BY <2>2, Zenon DEF all, m
<1> HIDE DEF b, t, c
<1>8. Padded(r[n], u) /\ u \in Word
  BY <1>3, <1>7, PadTail
<1>9. c \in Letter /\ c # "w" /\ u[1] = c /\ Len(u) > 0
  <2>1. c \in Letter \ {"w", "q"}
    BY <1>3, BracketTypes
  <2>2. QED
    BY <1>3, <2>1, JoinFirst
<1> HIDE DEF u
<1>10. Ahead(o, u) /\ o < length /\ At(o) = c /\ o \in Nat
  <2>1. offset \in Nat
    BY <1>3, Zenon DEF Ahead
  <2>2. QED
    BY <1>3, <1>8, <1>9, <2>1, AheadSkip DEF o
<1>11. pc' = "after" /\ offset' = o + 1 /\ value' = item /\ frames' = Front(frames)
  <2>1. Is(o, c)
    BY <1>10, Zenon DEF Is, CanAccess
  <2>2. QED
    BY <1>4, <2>1, Zenon DEF c
<1>12. Ahead(offset', t)
  <2>1. Ahead(o, Join(Mark(c), t))
    BY <1>10, Zenon DEF u
  <2>2. Ahead(o + 1, t)
    BY <1>3, <1>9, <2>1, AheadMark
  <2>3. QED
    BY <1>11, <2>2, Zenon
<1>13. Trail(frames', g, r, f) /\ Labelled(frames', g)
  BY <1>1, <1>2, <1>3, <1>11, TrailPop
<1>14. Len(frames') = n - 1
  BY <1>1, <1>3, <1>11, InnerTreed
<1>15. LedAfter(text, length, offset', value'.node, frames', g, r)
  <2>1. value'.node = g[n - 1]
    BY <1>5, <1>6, <1>11, Zenon
  <2>2. Lies(text, length, offset', r[n - 1])
    BY <1>12, LiesIs DEF t
  <2>3. QED
    BY <1>13, <1>14, <2>1, <2>2, Zenon DEF LedAfter
<1>16. pc' \in Leading
  BY <1>11 DEF Leading
<1>17. QED
  BY <1>2, <1>3, <1>11, <1>13, <1>15, <1>16, LedOn

\* The comma is there, and the next child behind it.
LEMMA NextRetraced ==
  ASSUME Parsing, Treed, Printing, Retraced, round = 2, Keeps, ParseAfter,
         NEW g, NEW r, NEW f, NEW n, NEW V, Leads(g, r, f, n, V),
         NEW v, v = g[n - 1], Len(Top.kids) + 1 # Len(v.kids)
  PROVE  Retraced'
<1> DEFINE kid == Kid(Top.name, value.node)
           kids == Further(Top.kids, kid)
           c == Top.closer
           i == Len(Top.kids)
           m == i + 1 + 1
           T == TextAt(n, f)
           x == [Top EXCEPT !.kids = kids, !.blocks = Top.blocks + value.blocks]
           o == buffer_skip_whitespace(offset)
           t == r[n - 1]
           a == Child(v.kids[m], c, f, T)
           b == Behind(c, v.kids, m, f, n, T)
           s == Join(b, t)
<1>1. pc = "after" /\ pc \in Leading /\ frames # <<>>
  BY DEF ParseAfter, Leading
<1>2. f = mode.format /\ frames \in Frames(V)
  BY Zenon DEF Leads
<1>3. /\ n \in 1..CJSON_NESTING_LIMIT /\ n = Len(frames) /\ c \in Bracket /\ f \in BOOLEAN
      /\ Trail(frames, g, r, f) /\ Rooted(g, r, Recovered(first))
      /\ Ahead(offset, r[n]) /\ IsContainer(v, c, n) /\ t \in Word
      /\ i \in Nat /\ i + 1 \in 1..Len(v.kids)
      /\ v.kids \in Seq(Named(Trees[CJSON_NESTING_LIMIT - n]))
      /\ r[n] = Join(Behind(c, v.kids, i + 1, f, n, T), t)
      /\ Len(kids) = i + 1 /\ kids[i + 1] = v.kids[i + 1]
      /\ \A j \in 1..i : kids[j] = Top.kids[j]
  <2>1. c = Top.closer /\ kid = Kid(Top.name, value.node) /\ kids = Further(Top.kids, kid)
    OBVIOUS
  <2> HIDE DEF c, kid, kids
  <2>2. Arrived(g, r, f, n, v, c, Top.kids, kids)
    BY <1>1, <2>1, AfterHere
  <2>3. QED
    BY <2>2, Zenon DEF Arrived
<1>4. ~Is(o, c) => /\ offset' = o /\ pc' = IF Is(o, ",") THEN "element" ELSE "fail"
                   /\ SetTop(x)
  BY Zenon DEF ParseAfter, Goto, Kid, Further
<1>5. x.closer = c /\ x.kids = kids
  <2>1. \E U : Top \in Frame(U)
    BY <1>1, InnerTreed, Zenon
  <2>2. QED
    BY <2>1, FrameChange
<1> HIDE DEF kid, kids, x, o
<1>6. i + 1 < Len(v.kids) /\ m \in 1..Len(v.kids)
  <2> DEFINE all == v.kids
             W == Named(Trees[CJSON_NESTING_LIMIT - n])
  <2>1. all \in Seq(W) /\ i + 1 \in 1..Len(all) /\ i + 1 # Len(all) /\ i \in Nat
    BY <1>3
  <2> HIDE DEF all, W, i
  <2>2. i + 1 < Len(all) /\ i + 1 + 1 \in 1..Len(all)
    BY <2>1
  <2>3. QED
    BY <2>2 DEF all
<1>7. PICK z \in Word : /\ Behind(c, v.kids, i + 1, f, n, T) = Join(Mark(","), z)
                        /\ Padded(z, Join(a, b))
  <2> DEFINE all == v.kids
             W == Trees[CJSON_NESTING_LIMIT - n]
             k == i + 1
  <2>1. all \in Seq(Named(W)) /\ k \in 0..Len(all) /\ k < Len(all) /\ n \in Nat \ {0}
    <3>1. i + 1 \in 1..Len(all) => i + 1 \in 0..Len(all)
      OBVIOUS
    <3>2. QED
      BY <1>3, <1>6, <3>1
  <2>2. TextsIn(T, W)
    <3>1. n \in 0..CJSON_NESTING_LIMIT
      BY <1>3
    <3>2. QED
      BY <1>3, <3>1, TextsAt
  <2> HIDE DEF all, W, k, T, c
  <2>3. \E z \in Word :
          /\ Behind(c, all, k, f, n, T) = Join(Mark(","), z)
          /\ Padded(z, Join(Child(all[k + 1], c, f, T), Behind(c, all, k + 1, f, n, T)))
    BY <2>1, <2>2, BehindMore
  <2>4. QED
    BY <2>3, Zenon DEF all, k
<1>8. a = Child(v.kids[m], c, f, TextAt(n, f)) /\ b = Behind(c, v.kids, m, f, n, TextAt(n, f))
  OBVIOUS
<1> HIDE DEF a, b, T, c, t, m
<1>9. /\ Padded(Join(z, t), Join(a, s)) /\ Join(z, t) \in Word
      /\ z \in Word /\ s \in Word
  <2>1. /\ n \in 1..CJSON_NESTING_LIMIT /\ f \in BOOLEAN /\ c \in Bracket /\ t \in Word
        /\ IsContainer(v, c, n) /\ m \in 1..Len(v.kids) /\ Padded(z, Join(a, b))
    BY <1>3, <1>6, <1>7, Zenon
  <2> HIDE DEF s
  <2>2. /\ Padded(Join(z, t), Join(a, Join(b, t))) /\ Join(z, t) \in Word
        /\ Join(b, t) \in Word
    BY <1>8, <2>1, ChildAhead
  <2>3. QED
    BY <2>2, Zenon DEF s
<1>10. "," \in Letter /\ Mark(",") \in Word
  BY Letters, MarkWords
<1>11. r[n] = Join(Mark(","), Join(z, t))
  <2>1. r[n] = Join(Join(Mark(","), z), t)
    BY <1>3, <1>7, Zenon
  <2>2. QED
    BY <1>3, <1>9, <1>10, <2>1, JoinAssociative
<1> HIDE DEF s
<1>12. offset \in Nat /\ offset < length /\ At(offset) = "," /\ Ahead(offset + 1, Join(z, t))
  <2>1. Ahead(offset, Join(Mark(","), Join(z, t)))
    BY <1>3, <1>11, Zenon
  <2>2. QED
    BY <1>9, <1>10, <2>1, AheadMark
<1>13. o = offset
  <2>1. length \in Nat /\ offset \in 0..length
    BY DEF Parsing, Placed
  <2>2. At(offset) \notin {"w", Nul}
    BY <1>12 DEF Nul
  <2>3. QED
    BY <1>12, <2>1, <2>2, SkipNothing DEF o
<1>14. offset' = offset /\ pc' = "element" /\ SetTop(x)
  <2>1. c # ","
    BY <1>3 DEF Bracket
  <2>2. ~Is(o, c)
    BY <1>12, <1>13, <2>1, Zenon DEF Is
  <2>3. Is(o, ",")
    BY <1>12, <1>13 DEF Is, CanAccess
  <2>4. QED
    BY <1>4, <1>13, <2>2, <2>3, Zenon DEF c
<1>15. /\ Len(frames') = n /\ frames'[n] = x
       /\ \A k \in 1..n - 1 : frames'[k] = frames[k]
  <2>1. frames' = [frames EXCEPT ![Len(frames)] = x]
    BY <1>14, Zenon DEF SetTop
  <2>2. /\ Len(frames') = Len(frames) /\ frames'[Len(frames)] = x
        /\ \A k \in 1..Len(frames) - 1 : frames'[k] = frames[k]
    BY <1>1, <1>2, <2>1, LastChanged
  <2>3. QED
    BY <1>3, <2>2, Zenon
<1>16. PICK h, q : Trail(frames', h, q, f) /\ Resumed(h, q, g, r, n, v.kids[m].node, s)
  <2>1. /\ x.closer = Last(frames).closer /\ Len(x.kids) = i + 1
        /\ Agree(x.kids, Last(frames).kids, i) /\ Agree(frames', frames, n - 1)
        /\ x.kids[i + 1] = v.kids[i + 1] /\ i = Len(Last(frames).kids)
    BY <1>3, <1>5, <1>15, Zenon DEF Top, c, Agree
  <2>2. s = Join(Behind(x.closer, v.kids, i + 1 + 1, f, n, TextAt(n, f)), r[n - 1])
    BY <1>5, Zenon DEF s, b, t, T, m
  <2>3. v.kids[m].node = v.kids[i + 1 + 1].node
    BY Zenon DEF m
  <2>4. n \in 1..CJSON_NESTING_LIMIT /\ n = Len(frames) /\ f \in BOOLEAN
        /\ Trail(frames, g, r, f) /\ i + 1 < Len(v.kids)
        /\ Len(frames') = n /\ frames'[n] = x
    BY <1>3, <1>6, <1>15, Zenon
  <2>5. Advances(frames, frames', g, r, f, n, v, i, x, v.kids[m].node, s)
    BY <1>1, <2>1, <2>2, <2>3, <2>4, Zenon DEF Advances
  <2> HIDE DEF i
  <2>6. QED
    BY <1>2, <2>5, TrailNext
<1>17. h[n - 1] = v /\ h[0] = g[0] /\ q[0] = r[0] /\ q[n] = s
  <2>1. n - 1 \in 0..n - 1 /\ 0 \in 0..n - 1
    BY <1>3
  <2>2. QED
    BY <1>16, <2>1, Zenon DEF Resumed
<1>18. ChildText(frames', h, q, f) = Join(a, s)
  <2>1. Last(frames') = x
    BY <1>15, Zenon DEF Last
  <2>2. Len(x.kids) = i + 1
    BY <1>3, <1>5, Zenon
  <2> DEFINE k == i + 1
  <2> HIDE DEF k
  <2>3. Len(frames') = n /\ Last(frames') = x /\ x.closer = c /\ Len(x.kids) = k /\ h[n - 1] = v
    BY <1>5, <1>15, <1>17, <2>1, <2>2, Zenon DEF k, c
  <2>4. ChildText(frames', h, q, f) = Join(Child(v.kids[k + 1], c, f, TextAt(n, f)), q[n])
    BY <2>3, Zenon DEF ChildText, Due
  <2>5. QED
    BY <1>8, <1>17, <2>4, Zenon DEF k, m
<1>19. LedElement(text, length, offset', frames', h, q, f)
  <2>1. Lies(text, length, offset + 1, Join(z, t))
    BY <1>12, LiesIs
  <2>2. QED
    BY <1>9, <1>14, <1>18, <2>1, Zenon DEF LedElement
<1>20. Rooted(h, q, Recovered(first))
  BY <1>3, <1>17, Zenon DEF Rooted
<1>21. pc' \in Leading
  BY <1>14 DEF Leading
<1>22. QED
  BY <1>2, <1>14, <1>16, <1>19, <1>20, <1>21, LedOn
-----------------------------------------------------------------------------
(***************************************************************************)
(* What was printed is parsed back.                                        *)
(***************************************************************************)

\* What follows a child is what the printer has written behind it.
LEMMA AfterRetraced ==
  ASSUME Parsing, Treed, Printing, Retraced, round = 2, Keeps, ParseAfter
  PROVE  Retraced'
<1>1. pc \in Leading
  BY DEF ParseAfter, Leading
<1>2. PICK g, r, f, n, V : Leads(g, r, f, n, V)
  BY <1>1, LedHere
<1>3. PICK v : v = g[n - 1]
  OBVIOUS
<1>4. CASE Len(Top.kids) + 1 = Len(v.kids)
  BY <1>2, <1>3, <1>4, ClosedRetraced
<1>5. CASE Len(Top.kids) + 1 # Len(v.kids)
  BY <1>2, <1>3, <1>5, NextRetraced
<1>6. QED
  BY <1>4, <1>5

\* The outermost value is the one that was printed.
LEMMA EndRetraced ==
  ASSUME Parsing, Treed, Printing, Retraced, round = 2, Keeps, ParseEnd
  PROVE  Retraced'
<1>1. pc = "after" /\ pc \in Leading /\ frames = <<>> /\ UNCHANGED value
  BY DEF ParseEnd, Leading
<1>2. PICK g, r, f, n, V : Leads(g, r, f, n, V)
  BY <1>1, LedHere
<1>3. ~require
  BY Zenon DEF Retraced
<1>4. pc' = "parsed"
  BY <1>3 DEF ParseEnd, Goto
<1>5. Rooted(g, r, Recovered(first)) /\ value.node = g[Len(frames)]
  BY <1>1, <1>2, Zenon DEF Leads, Led, LedAfter
<1>6. value'.node = Recovered(first)
  <2>1. Len(frames) = 0
    BY <1>1
  <2>2. QED
    BY <1>1, <1>5, <2>1, Zenon DEF Rooted
<1>7. /\ text' = text /\ length' = length /\ require' = require /\ first' = first
      /\ printing' = printing
  BY Zenon DEF Keeps
<1>8. Settled(text, length)' /\ ~require' /\ printing' = "printed"
  BY <1>7, Zenon DEF Retraced
<1>9. pc' \notin {"start", "fail", "failed"} /\ pc' \notin Leading
  BY <1>4 DEF Leading
<1>10. QED
  BY <1>6, <1>7, <1>8, <1>9, Zenon DEF Retraced, Recovered

\* Every step of the parser follows the printer.
LEMMA RetracedNext ==
  ASSUME Parsing, Treed, Printing, Retraced, round = 2, Keeps,
         first \in Trees[CJSON_NESTING_LIMIT], ParseNext
  PROVE  Retraced'
<1>1. CASE ParseStart
  BY <1>1, StartRetraced
<1>2. CASE ParseScalar
  BY <1>2, ScalarRetraced
<1>3. CASE ParseOpen
  BY <1>3, OpenRetraced
<1>4. CASE ParseElement
  BY <1>4, ElementRetraced
<1>5. CASE ParseName
  BY <1>5, NameRetraced
<1>6. CASE ParseColon
  BY <1>6, ColonRetraced
<1>7. CASE ParseAfter
  BY <1>7, AfterRetraced
<1>8. CASE ParseEnd
  BY <1>8, EndRetraced
<1>9. CASE ParseUnwind
  <2>1. pc = "fail" /\ pc' = "fail" /\ oom' = oom
    BY <1>9 DEF ParseUnwind
  <2>2. oom'
    BY <2>1 DEF Retraced
  <2>3. QED
    BY <2>1, <2>2, OomOn
<1>10. CASE ParseFail
  <2>1. pc = "fail" /\ pc' = "failed" /\ oom' = oom
    BY <1>10 DEF ParseFail
  <2>2. oom'
    BY <2>1 DEF Retraced
  <2>3. QED
    BY <2>1, <2>2, OomOn
<1>11. QED
  BY <1>1, <1>2, <1>3, <1>4, <1>5, <1>6, <1>7, <1>8, <1>9, <1>10 DEF ParseNext

\* The output is given to the parser: it is the layout of the first value.
LEMMA AgainRetraced ==
  ASSUME Printing, Given, Told, ParseAgain
  PROVE  Retraced'
<1> DEFINE w == CString(data)
           t == Append(w, Nul)
<1>1. /\ printing = "printed" /\ UNCHANGED printVars /\ UNCHANGED first
      /\ text' = t /\ length' = Len(t) /\ require' = FALSE /\ offset' = 0 /\ pc' = "start"
  BY DEF ParseAgain
<1>2. printing' = printing /\ mode' = mode
  BY <1>1 DEF printVars
<1>3. w = Printout(first, mode.format)
  BY <1>1, Zenon DEF Told
<1>4. w \in Word
  <2>1. data \in Chars
    BY DEF Printing, Buffered
  <2>2. QED
    BY <2>1, CStringEnd
<1>5. t \in Chars
  BY <1>4, CStringWord
<1> HIDE DEF w
<1>6. Len(w) \in Nat /\ Len(t) = Len(w) + 1 /\ t[Len(w) + 1] = Nul
      /\ \A i \in 1..Len(w) : t[i] = w[i]
  BY <1>4 DEF Word
<1>7. Settled(t, Len(t))
  <2> HIDE DEF t
  <2>1. Len(t) - 1 + 1 = Len(w) + 1
    BY <1>6
  <2>2. QED
    BY <1>5, <1>6, <2>1, Zenon DEF Settled
<1>8. Lies(t, Len(t), 0, w)
  <2> HIDE DEF t
  <2>1. 0 \in Nat /\ 0 + Len(w) + 1 = Len(t)
    BY <1>6
  <2>2. \A i \in 1..Len(w) : t[0 + i] = w[i]
    BY <1>6
  <2>3. QED
    BY <1>4, <2>1, <2>2, Zenon DEF Lies
<1>9. pc' \notin Leading /\ pc' \notin {"parsed", "fail", "failed"}
  BY <1>1 DEF Leading
<1>10. Settled(text, length)' /\ ~require' /\ printing' = "printed"
  <2>1. ~require'
    BY <1>1
  <2>2. QED
    BY <1>1, <1>2, <1>7, <2>1, Zenon
<1>11. offset' = 0 /\ Lies(text, length, 0, Printout(first, mode.format))'
  <2>1. Lies(text', length', 0, Printout(first', mode'.format))
    BY <1>1, <1>2, <1>3, <1>8, Zenon
  <2>2. QED
    BY <1>1, <2>1, Zenon DEF Printout, Layout, Recovered
<1>12. QED
  BY <1>9, <1>10, <1>11, Zenon DEF Retraced

\* The parser's and the printer's invariants, and that the second parse
\* follows the printer.
TripInv == FullInv /\ Retraced

\* The inductive invariant holds at the start, and every step keeps it.
LEMMA TripInvariant == Spec => []TripInv
<1>1. Init => Retraced
  BY DEF Init, Retraced
<1>2. FullInv /\ Retraced /\ [Next]_vars => Retraced'
  <2>1. SUFFICES ASSUME FullInv, Retraced, [Next]_vars PROVE Retraced'
    OBVIOUS
  <2>2. Parsing /\ Printing /\ Treed /\ Given /\ Told
    BY <2>1 DEF FullInv, Inv
  <2>3. CASE UNCHANGED vars
    <3>1. /\ text' = text /\ length' = length /\ require' = require /\ mode' = mode
          /\ first' = first /\ printing' = printing /\ round' = round /\ pc' = pc
          /\ offset' = offset /\ frames' = frames /\ value' = value /\ oom' = oom
      BY <2>3 DEF vars, parseVars, printVars
    <3>2. ASSUME NEW g, NEW r, Led(g, r) PROVE Led(g, r)'
      BY <3>1, <3>2, SMT DEF Led, Recovered
    <3>3. (\E g, r : Led(g, r)) => (\E g, r : Led(g, r)')
      BY <3>2, Zenon
    <3>4. QED
      BY <2>1, <3>1, <3>3, Zenon DEF Retraced, Printout, Layout, Recovered
  <2>4. CASE ParseText
    <3>1. ParseNext /\ UNCHANGED printVars /\ UNCHANGED first /\ round' = round
      BY <2>4 DEF ParseText
    <3>2. CASE round = 2
      <4>1. Keeps
        <5>1. UNCHANGED <<text, length, require>>
          BY <3>1 DEF ParseNext, ParseStart, ParseScalar, ParseOpen, ParseElement, ParseName,
                      ParseColon, ParseAfter, ParseEnd, ParseUnwind, ParseFail, Same
        <5>2. mode' = mode /\ printing' = printing
          BY <3>1 DEF printVars
        <5>3. QED
          BY <3>1, <5>1, <5>2 DEF Keeps
      <4>2. printing # "idle"
        BY <2>1, <3>2 DEF Retraced
      <4>3. first \in Trees[CJSON_NESTING_LIMIT]
        BY <2>2, <4>2 DEF Given
      <4>4. QED
        BY <2>1, <2>2, <3>1, <3>2, <4>1, <4>3, RetracedNext
    <3>3. CASE round # 2
      BY <3>1, <3>3 DEF Retraced
    <3>4. QED
      BY <3>2, <3>3
  <2>5. CASE PrintValue
    <3>1. round' # 2
      BY <2>5 DEF PrintValue
    <3>2. QED
      BY <3>1 DEF Retraced
  <2>6. CASE ParseAgain
    BY <2>2, <2>6, AgainRetraced
  <2>7. QED
    BY <2>1, <2>3, <2>4, <2>5, <2>6 DEF Next
<1>3. QED
  BY <1>1, <1>2, FullInvariant, PTL DEF Spec, TripInv

\* Whatever cJSON_Print, cJSON_PrintUnformatted, cJSON_PrintBuffered and
\* cJSON_PrintPreallocated answer, cJSON_Parse reads the printed value from it
\* again, whatever the names and strings that print_string_ptr escapes, with
\* every number as its printed text stands for it and a null where strtod had
\* made one infinite, and only a failing allocation makes it answer NULL.
THEOREM RoundTripCorrect == Spec => []RoundTrip
<1>1. TripInv => RoundTrip
  BY DEF TripInv, Retraced, RoundTrip, Done
<1>2. QED
  BY <1>1, TripInvariant, PTL
=============================================================================
