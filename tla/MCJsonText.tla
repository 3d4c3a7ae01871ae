----------------------------- MODULE MCJsonText -----------------------------
(***************************************************************************)
(* All texts of up to three characters, those of four over eight of the    *)
(* characters, and longer ones: a few that nest and have names, each of    *)
(* them also cut off at every length and with one character exchanged.     *)
(***************************************************************************)
EXTENDS JsonText

Seeds == {
  <<"[", "1", ",", "[", "n", "]", ",", "w", "{", "}", "]", "0">>,
  <<"{", "q", "a", "q", ":", "[", "{", "}", "]", ",", "q", "q", ":", "1", "}", "0">>,
  <<"B", "[", "q", "b", "e", "q", "]", "0">>,
  <<"{", "q", "b", "q", "q", ":", "q", "w", "q", "}">>,
  <<"{", "q", "q", ":", "1", ",", "w", "q", "a", "q", ":", "n", "}">>,
  <<"[", "[", "[", "1", "]", "]", "]", "0">>,
  <<"[", "-", "1", "1", ",", "q", "0", "q", "]", "w", "0">> }

Sane(s) == \A i \in 2..Len(s) : s[i - 1] = "b" => s[i] # "n"
Few == {"[", "]", "{", "}", ",", "q", "1", "w"}
Short == UNION {[1..n -> Character] : n \in 0..3} \cup [1..4 -> Few]
Changed == UNION {{[s EXCEPT ![i] = c] : i \in DOMAIN s, c \in {"]", "}", ",", "q", "b", "0"}}
                    : s \in Seeds}
Cut == UNION {{[text |-> s, length |-> n] : n \in 0..Len(s)} : s \in Seeds}
MCTexts ==
  Cut \cup {[text |-> s, length |-> Len(s)] : s \in {s \in Short \cup Changed : Sane(s)}}

\* -0 is printed as 0; there are digits too many, and digits that an exponent
\* has stood for; and there is a number that no double holds.
MCRendered ==
  (<<"-", "1">> :> <<"1">>) @@ (<<"-", "1", "1">> :> <<"-", "1">>)
    @@ (<<"1", "1">> :> <<"1", "1", "1", "1">>) @@ (<<"1", "1", "1">> :> <<"n">>)

Buffer(n, noalloc, format, trim) ==
  [length |-> n, noalloc |-> noalloc, format |-> format, trim |-> trim]
MCModes ==
  {Buffer(4, FALSE, f, TRUE) : f \in BOOLEAN}
    \cup {Buffer(n, FALSE, f, FALSE) : n \in {0, 7}, f \in BOOLEAN}
    \cup {Buffer(n, TRUE, f, FALSE) : n \in {0, 6, 12, 20}, f \in BOOLEAN}

=============================================================================
