------------------------------ MODULE Utf8Util ------------------------------
(***************************************************************************)
(* The text functions of class util (utf-encode-convert.hpp): is_utf8 and  *)
(* get_utf8_length walk through a text with a pointer, one character a     *)
(* round; remove_corrupt_tail is for a text that was cut to fit a buffer,  *)
(* perhaps in the middle of a character.                                   *)
(***************************************************************************)
EXTENDS Utf8, FiniteSets

CONSTANTS
  Texts,    \* the texts a caller may have
  Overrun   \* bound on the bytes that are read beyond the end of a text

ASSUME Utf8UtilAssumption ==
  /\ Texts \subseteq Seq(Byte)
  /\ Overrun \in Nat

VARIABLES
  whole,  \* the text that the caller began with
  text,   \* what it has of it now
  call,   \* the function that is running, or "none"
  str,    \* its pointer, as a position in text
  cnt,    \* get_utf8_length: characters of each length, and in all (cnt[0])
  given,  \* remove_corrupt_tail: the length of the text it was given
  ret     \* the last call that returned, and its result

vars == <<whole, text, call, str, cnt, given, ret>>

Lengths == 1 .. 4
NoCounts == [k \in 0 .. 4 |-> 0]
NoResult == [of |-> "none", value |-> 0]
Result(of, value) == [of |-> of, value |-> value]

Init ==
  /\ whole \in Texts
  /\ text = whole
  /\ call = "none"
  /\ str = 1
  /\ cnt = NoCounts
  /\ given = 0
  /\ ret = NoResult

\* The caller keeps the first n bytes.
Cut(n) ==
  /\ call = "none"
  /\ n < Len(text)
  /\ text' = Prefix(text, n)
  /\ cnt' = NoCounts
  /\ given' = 0
  /\ ret' = NoResult
  /\ UNCHANGED <<whole, call, str>>

----------------------------------------------------------------------------
(* is_utf8                                                                 *)

\* code_length, by the first byte; 0 if no character begins with it.
CodeLength(byte) ==
  CASE byte <= 127 -> 1
    [] byte \in 194 .. 223 -> 2
    [] byte \in 224 .. 239 -> 3
    [] byte \in 240 .. 244 -> 4
    [] OTHER -> 0

\* What a continuation byte adds: (str[i] & 0x3f).
Low6(byte) == byte % 64

\* (str[i] & 0xC0) == 0x80
IsContinuation(byte) == byte \div 64 = 2

CodePoint3(p) ==
  (text[p] % 16) * 4096 + Low6(text[p + 1]) * 64 + Low6(text[p + 2])

CodePoint4(p) ==
  (text[p] % 8) * 262144 + Low6(text[p + 1]) * 4096
    + Low6(text[p + 2]) * 64 + Low6(text[p + 3])

(* Mutant: no check for surrogates. *)
InRangeButSurrogates(p, n) ==
  /\ n = 3 => CodePoint3(p) >= 2048
  /\ n = 4 => CodePoint4(p) >= 65536 /\ CodePoint4(p) <= 1114111

\* Not too small for its length, no surrogate (ch >> 11 == 0x1b), not above
\* 0x10FFFF.
InRange(p, n) ==
  /\ n = 3 => CodePoint3(p) >= 2048 /\ CodePoint3(p) \div 2048 # 27
  /\ n = 4 => CodePoint4(p) >= 65536 /\ CodePoint4(p) <= 1114111

(* Mutant: a character that the end of the text cuts short is let pass. *)
PassesCutShort(n) ==
  /\ n > 0
  /\ \A i \in 1 .. n - 1 : str + i <= Len(text) => IsContinuation(text[str + i])
  /\ str + (n - 1) <= Len(text) => InRange(str, n)

\* The character at the pointer passes. A sequence that does not end before
\* the text does is refused before its bytes are looked at.
Passes(n) ==
  /\ n > 0
  /\ n > 1 => str + (n - 1) < Len(text) + 1
  /\ \A i \in 1 .. n - 1 : IsContinuation(text[str + i])
  /\ InRange(str, n)

\* Each call has a pointer, and counters, of its own.
Begin(function) ==
  /\ call = "none"
  /\ call' = function
  /\ str' = 1
  /\ cnt' = NoCounts
  /\ given' = 0
  /\ ret' = NoResult
  /\ UNCHANGED <<whole, text>>

BeginIsUtf8 == Begin("is_utf8")

PassCharacter ==
  /\ call = "is_utf8"
  /\ str # Len(text) + 1
  /\ Passes(CodeLength(text[str]))
  /\ str' = str + CodeLength(text[str])
  /\ UNCHANGED <<whole, text, call, cnt, given, ret>>

Return(value) ==
  /\ call' = "none"
  /\ ret' = Result(call, value)
  /\ str' = 1
  /\ UNCHANGED <<whole, text, cnt, given>>

Refuse ==
  /\ call = "is_utf8"
  /\ str # Len(text) + 1
  /\ ~Passes(CodeLength(text[str]))
  /\ Return(0)

Accept ==
  /\ call = "is_utf8"
  /\ str = Len(text) + 1
  /\ Return(1)

----------------------------------------------------------------------------
(* get_utf8_length                                                         *)

\* The bytes the pointer may find: a text ends with a zero, and nothing is
\* known of what lies behind it.
Found == IF str <= Len(text) THEN {text[str]}
         ELSE IF str = Len(text) + 1 THEN {0} ELSE Byte

(* Mutant: two high bits are taken for three. *)
JumpTooFar(byte) ==
  CASE byte >= 240 -> 4 [] byte \in 192 .. 239 -> 3 [] OTHER -> 1

\* By the leading ones of the byte; a continuation byte counts as a character.
Jump(byte) ==
  CASE byte >= 240 -> 4
    [] byte \in 224 .. 239 -> 3
    [] byte \in 192 .. 223 -> 2
    [] OTHER -> 1

\* The caller's counters start at zero.
BeginLength == Begin("get_utf8_length")

CountCharacter ==
  /\ call = "get_utf8_length"
  /\ str <= Len(text) + Overrun
  /\ \E byte \in Found \ {0} :
       LET n == Jump(byte)
       IN /\ cnt' = [cnt EXCEPT ![n] = @ + 1, ![0] = @ + 1]
          /\ str' = str + n
  /\ UNCHANGED <<whole, text, call, given, ret>>

LengthDone ==
  /\ call = "get_utf8_length"
  /\ 0 \in Found
  /\ Return(cnt[0])

----------------------------------------------------------------------------
(* remove_corrupt_tail                                                     *)

FromEnd(i) == text[Len(text) - i + 1]

\* The loop goes back over continuation bytes: where it stops, 4 if it ends.
StopsAt ==
  CHOOSE i \in 1 .. 4 :
    /\ \A j \in 1 .. i - 1 : IsContinuation(FromEnd(j))
    /\ i < 4 => ~IsContinuation(FromEnd(i))

(* Mutant: three bytes are always enough for a character. *)
CorruptTailBut3 ==
  /\ Len(text) >= 3
  /\ StopsAt < 4
  /\ FromEnd(StopsAt) >= 192
  /\ ~(FromEnd(StopsAt) \in 192 .. 223 /\ StopsAt = 2)
  /\ ~(FromEnd(StopsAt) \in 224 .. 255 /\ StopsAt = 3)

\* Texts shorter than three bytes are not looked at. flags: the byte it stops
\* at begins a character, and fewer or more continuation bytes follow than that
\* character has. Three of them are never too many, and no first byte of a four
\* byte character is near enough.
CorruptTail ==
  /\ Len(text) >= 3
  /\ StopsAt < 4
  /\ FromEnd(StopsAt) >= 192
  /\ ~(FromEnd(StopsAt) \in 192 .. 223 /\ StopsAt = 2)
  /\ ~(FromEnd(StopsAt) \in 224 .. 239 /\ StopsAt = 3)

RemoveCorruptTail ==
  /\ call = "none"
  /\ given' = Len(text)
  /\ \/ /\ CorruptTail
        /\ text' = Prefix(text, Len(text) - StopsAt)
        /\ ret' = Result("remove_corrupt_tail", 1)
     \/ /\ ~CorruptTail
        /\ ret' = Result("remove_corrupt_tail", 0)
        /\ UNCHANGED text
  /\ cnt' = NoCounts
  /\ UNCHANGED <<whole, call, str>>

----------------------------------------------------------------------------

Next ==
  \/ \E n \in 0 .. Len(text) : Cut(n)
  \/ BeginIsUtf8
  \/ PassCharacter
  \/ Refuse
  \/ Accept
  \/ BeginLength
  \/ CountCharacter
  \/ LengthDone
  \/ RemoveCorruptTail

Spec == Init /\ [][Next]_vars

----------------------------------------------------------------------------
(* Properties.                                                             *)

(* The range of every variable; is_utf8 never leaves the text. *)
TypeOK ==
  /\ whole \in Texts
  /\ text \in Seq(Byte)
  /\ call \in {"none", "is_utf8", "get_utf8_length"}
  /\ str \in Nat
  /\ call = "is_utf8" => str <= Len(text) + 1
  /\ cnt \in [0 .. 4 -> Nat]
  /\ given \in Nat
  /\ ret \in [of : {"none", "is_utf8", "get_utf8_length", "remove_corrupt_tail"},
              value : Nat]

(* is_utf8 returns true for well-formed text and for nothing else: no      *)
(* overlong form, no surrogate, nothing above 0x10FFFF, no character cut   *)
(* short at the end.                                                       *)
IsUtf8Exact == ret.of = "is_utf8" => (ret.value = 1 <=> WellFormed(text))

(* Over well-formed text the jumps of get_utf8_length never miss the       *)
(* terminator, ...                                                         *)
StopsAtTheEnd ==
  call = "get_utf8_length" /\ WellFormed(text) => str <= Len(text) + 1

(* ... and what it returns are the numbers of its characters. A text with a *)
(* zero in it ends there for this function.                                *)
CountsCharacters ==
  /\ \A n \in Lengths : cnt[n] = Cardinality(CharsOfLength(text, n))
  /\ cnt[0] = cnt[1] + cnt[2] + cnt[3] + cnt[4]
CountsWellFormed ==
  /\ ret.of = "get_utf8_length"
  /\ WellFormed(text)
  /\ \A i \in 1 .. Len(text) : text[i] # 0
  => CountsCharacters

(* A well-formed text that was cut anywhere is left by remove_corrupt_tail *)
(* as the longest well-formed text that was there: the incomplete          *)
(* character goes, and nothing else. The function does not look at texts   *)
(* of less than three bytes, ...                                           *)
TailRemoved ==
  /\ WellFormed(text)
  /\ \A n \in Len(text) + 1 .. given : ~WellFormed(Prefix(whole, n))
LongTailRemoved ==
  ret.of = "remove_corrupt_tail" /\ given >= 3 /\ WellFormed(whole) => TailRemoved

(* ... and no text that was whole loses anything.                          *)
KeepsWellFormed ==
  [][ret'.of = "remove_corrupt_tail" /\ WellFormed(text) => UNCHANGED text]_vars
=============================================================================
