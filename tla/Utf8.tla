-------------------------------- MODULE Utf8 --------------------------------
(***************************************************************************)
(* What UTF-8 text is, by the table of well-formed byte sequences of the   *)
(* Unicode standard: the reference that the functions of                   *)
(* utf-encode-convert.hpp are compared with. Nothing here is translated    *)
(* from their code.                                                        *)
(***************************************************************************)
EXTENDS Integers, Sequences

Byte == 0 .. 255
Ascii == 0 .. 127
Continuation == 128 .. 191

\* The first bytes of characters of two, three and four bytes.
Lead2 == 194 .. 223
Lead3 == 224 .. 239
Lead4 == 240 .. 244

\* After some first bytes not every second one is allowed: the first and the
\* last rows of the table, and the surrogates.
Second3(lead, second) == (lead = 224 => second >= 160) /\ (lead = 237 => second < 160)
Second4(lead, second) == (lead = 240 => second >= 144) /\ (lead = 244 => second < 144)

\* A character of n bytes begins at position p.
CharAt(text, p, n) ==
  /\ p + n - 1 <= Len(text)
  /\ \A i \in 1 .. n - 1 : text[p + i] \in Continuation
  /\ \/ n = 1 /\ text[p] \in Ascii
     \/ n = 2 /\ text[p] \in Lead2
     \/ n = 3 /\ text[p] \in Lead3 /\ Second3(text[p], text[p + 1])
     \/ n = 4 /\ text[p] \in Lead4 /\ Second4(text[p], text[p + 1])

\* Position i is inside the character of n bytes at p.
Covers(p, n, i) == p <= i /\ i < p + n

\* Every byte belongs to a character. No two characters overlap, because no
\* character begins with a continuation byte: so this is the same as to say
\* that the text is a row of characters.
WellFormed(text) ==
  \A i \in 1 .. Len(text) :
    \E p \in 1 .. i, n \in 1 .. 4 : Covers(p, n, i) /\ CharAt(text, p, n)

\* Where the characters of n bytes begin.
CharsOfLength(text, n) == {p \in 1 .. Len(text) : CharAt(text, p, n)}

Prefix(text, n) == SubSeq(text, 1, n)
=============================================================================
