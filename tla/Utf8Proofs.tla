----------------------------- MODULE Utf8Proofs -----------------------------
(***************************************************************************)
(* The text functions of utf-encode-convert.hpp are right for every text,  *)
(* of any length and over all bytes. The argument rests on one fact about  *)
(* UTF-8, CharShape: the first byte of a character tells its length, and   *)
(* it is never a continuation byte while all others are.                   *)
(***************************************************************************)
EXTENDS Utf8Util, FiniteSetTheorems, TLAPS

-----------------------------------------------------------------------------
(* UTF-8 itself. *)

\* The functions agree on the lengths that first bytes stand for.
LEMMA FirstByte ==
  ASSUME NEW b \in Byte
  PROVE  /\ b <= 127 => CodeLength(b) = 1 /\ Jump(b) = 1
         /\ b \in 194 .. 223 => CodeLength(b) = 2 /\ Jump(b) = 2
         /\ b \in 224 .. 239 => CodeLength(b) = 3 /\ Jump(b) = 3
         /\ b \in 240 .. 244 => CodeLength(b) = 4 /\ Jump(b) = 4
         /\ b \in 128 .. 193 \cup 245 .. 255 => CodeLength(b) = 0
<1>1. ASSUME b <= 127 PROVE CodeLength(b) = 1 /\ Jump(b) = 1
  BY <1>1 DEF CodeLength, Jump, Byte
<1>2. ASSUME b \in 194 .. 223 PROVE CodeLength(b) = 2 /\ Jump(b) = 2
  BY <1>2 DEF CodeLength, Jump, Byte
<1>3. ASSUME b \in 224 .. 239 PROVE CodeLength(b) = 3 /\ Jump(b) = 3
  BY <1>3 DEF CodeLength, Jump, Byte
<1>4. ASSUME b \in 240 .. 244 PROVE CodeLength(b) = 4 /\ Jump(b) = 4
  BY <1>4 DEF CodeLength, Jump, Byte
<1>5. ASSUME b \in 128 .. 193 \cup 245 .. 255 PROVE CodeLength(b) = 0
  BY <1>5 DEF CodeLength, Byte
<1> QED
  BY <1>1, <1>2, <1>3, <1>4, <1>5

\* The first byte of a character tells its length, the others continue it.
LEMMA CharShape ==
  ASSUME NEW t \in Seq(Byte), NEW p \in 1 .. Len(t), NEW n \in 1 .. 4, CharAt(t, p, n)
  PROVE  /\ n = CodeLength(t[p])
         /\ n = Jump(t[p])
         /\ t[p] \notin Continuation
         /\ p + n - 1 <= Len(t)
         /\ \A i \in p + 1 .. p + n - 1 : t[i] \in Continuation
<1>1. p + n - 1 <= Len(t)
  BY DEF CharAt
<1>2. /\ n = 1 => t[p] \in 0 .. 127
      /\ n = 2 => t[p] \in 194 .. 223
      /\ n = 3 => t[p] \in 224 .. 239
      /\ n = 4 => t[p] \in 240 .. 244
  BY DEF CharAt, Ascii, Lead2, Lead3, Lead4
<1>3. PICK b \in Byte : b = t[p]
  OBVIOUS
<1>4. n = CodeLength(b) /\ n = Jump(b) /\ b \notin Continuation
  <2>1. n = 1 \/ n = 2 \/ n = 3 \/ n = 4
    OBVIOUS
  <2>2. CASE n = 1
    <3>1. b \in 0 .. 127
      BY <1>2, <1>3, <2>2
    <3>2. b \notin Continuation
      BY <3>1 DEF Continuation
    <3> QED
      BY <2>2, <3>1, <3>2, FirstByte
  <2>3. CASE n = 2
    <3>1. b \in 194 .. 223
      BY <1>2, <1>3, <2>3
    <3>2. b \notin Continuation
      BY <3>1 DEF Continuation
    <3> QED
      BY <2>3, <3>1, <3>2, FirstByte
  <2>4. CASE n = 3
    <3>1. b \in 224 .. 239
      BY <1>2, <1>3, <2>4
    <3>2. b \notin Continuation
      BY <3>1 DEF Continuation
    <3> QED
      BY <2>4, <3>1, <3>2, FirstByte
  <2>5. CASE n = 4
    <3>1. b \in 240 .. 244
      BY <1>2, <1>3, <2>5
    <3>2. b \notin Continuation
      BY <3>1 DEF Continuation
    <3> QED
      BY <2>5, <3>1, <3>2, FirstByte
  <2> QED
    BY <2>1, <2>2, <2>3, <2>4, <2>5
<1>5. \A i \in 1 .. n - 1 : t[p + i] \in Continuation
  BY DEF CharAt
<1>6. ASSUME NEW i \in p + 1 .. p + n - 1 PROVE t[i] \in Continuation
  <2>1. i - p \in 1 .. n - 1 /\ p + (i - p) = i
    OBVIOUS
  <2> QED
    BY <1>5, <2>1
<1> QED
  BY <1>1, <1>3, <1>4, <1>6

\* A character cannot begin inside another one.
LEMMA NoOverlap ==
  ASSUME NEW t \in Seq(Byte),
         NEW p \in 1 .. Len(t), NEW n \in 1 .. 4, CharAt(t, p, n),
         NEW q \in 1 .. Len(t), NEW m \in 1 .. 4, CharAt(t, q, m),
         p <= q, q < p + n
  PROVE  p = q /\ n = m
<1>1. t[q] \notin Continuation
  BY CharShape
<1>2. \A i \in p + 1 .. p + n - 1 : t[i] \in Continuation
  BY CharShape
<1>3. p = q
  BY <1>1, <1>2
<1>4. n = CodeLength(t[p])
  BY CharShape
<1>5. m = CodeLength(t[q])
  BY CharShape
<1> QED
  BY <1>3, <1>4, <1>5

\* The bytes before position s belong to characters that end before s.
Walked(t, s) ==
  /\ s \in 1 .. Len(t) + 1
  /\ \A i \in 1 .. s - 1 :
       \E p \in 1 .. i, n \in 1 .. 4 : Covers(p, n, i) /\ CharAt(t, p, n) /\ p + n <= s

\* A walk through well-formed text always stands at the beginning of a
\* character, ...
LEMMA Boundary ==
  ASSUME NEW t \in Seq(Byte), NEW s \in 1 .. Len(t), Walked(t, s), WellFormed(t)
  PROVE  \E n \in 1 .. 4 : CharAt(t, s, n)
<1>1. PICK p \in 1 .. s, n \in 1 .. 4 : Covers(p, n, s) /\ CharAt(t, p, n)
  BY DEF WellFormed
<1>2. CASE p = s
  BY <1>1, <1>2
<1>3. CASE p < s
  <2>1. p \in 1 .. s - 1 /\ p \in 1 .. Len(t)
    BY <1>3
  <2>2. PICK q \in 1 .. p, m \in 1 .. 4 :
          Covers(q, m, p) /\ CharAt(t, q, m) /\ q + m <= s
    BY <2>1 DEF Walked
  <2>3. q <= p /\ p < q + m /\ q \in 1 .. Len(t)
    BY <2>1, <2>2 DEF Covers
  <2>4. q = p /\ m = n
    BY <1>1, <2>1, <2>2, <2>3, NoOverlap
  <2> QED
    BY <1>1, <2>2, <2>4 DEF Covers
<1> QED
  BY <1>2, <1>3

\* ... goes on from there, ...
LEMMA WalkOn ==
  ASSUME NEW t \in Seq(Byte), NEW s \in 1 .. Len(t), NEW n \in 1 .. 4,
         Walked(t, s), CharAt(t, s, n)
  PROVE  Walked(t, s + n)
<1>1. s + n \in 1 .. Len(t) + 1
  BY CharShape
<1>2. ASSUME NEW i \in 1 .. s + n - 1
      PROVE  \E p \in 1 .. i, m \in 1 .. 4 :
               Covers(p, m, i) /\ CharAt(t, p, m) /\ p + m <= s + n
  <2>1. CASE i < s
    <3>1. PICK p \in 1 .. i, m \in 1 .. 4 : Covers(p, m, i) /\ CharAt(t, p, m) /\ p + m <= s
      BY <2>1 DEF Walked
    <3>2. p + m <= s + n
      BY <3>1
    <3> QED
      BY <3>1, <3>2
  <2>2. CASE i >= s
    <3>1. Covers(s, n, i) /\ s \in 1 .. i
      BY <2>2 DEF Covers
    <3> QED
      BY <3>1
  <2> QED
    BY <2>1, <2>2
<1> QED
  BY <1>1, <1>2 DEF Walked

\* ... and proves the text well-formed once it is through.
LEMMA WalkedThrough ==
  ASSUME NEW t \in Seq(Byte), Walked(t, Len(t) + 1)
  PROVE  WellFormed(t)
<1>1. ASSUME NEW i \in 1 .. Len(t)
      PROVE  \E p \in 1 .. i, n \in 1 .. 4 : Covers(p, n, i) /\ CharAt(t, p, n)
  BY DEF Walked
<1> QED
  BY <1>1 DEF WellFormed

\* What was walked through at the start: nothing.
LEMMA WalkBegins == ASSUME NEW t \in Seq(Byte) PROVE Walked(t, 1)
BY DEF Walked
-----------------------------------------------------------------------------
(* The arithmetic of is_utf8 and the table of the standard. *)

\* (str[i] & 0xC0) == 0x80 and & 0x3f
LEMMA Continues ==
  ASSUME NEW b \in Byte
  PROVE  IsContinuation(b) <=> b \in Continuation
BY DEF Continuation, Byte, IsContinuation

LEMMA LowBits == ASSUME NEW b \in Continuation PROVE Low6(b) = b - 128
BY DEF Continuation, Low6

\* The bits of a first byte that count, and six of each other one.
Quartet == 0 .. 15
Sextet == 0 .. 63

\* Three bytes: no overlong form and no surrogate.
LEMMA Point3 ==
  ASSUME NEW x \in Quartet, NEW y \in Sextet, NEW z \in Sextet,
         NEW c, c = x * 4096 + y * 64 + z
  PROVE  /\ c >= 2048 <=> x > 0 \/ y >= 32
         /\ c \div 2048 = 27 <=> x = 13 /\ y >= 32
<1> USE DEF Quartet, Sextet
<1>1. c \in Nat
  OBVIOUS
<1>2. c >= 2048 <=> x > 0 \/ y >= 32
  OBVIOUS
<1>3. c \div 2048 = 27 <=> c >= 55296 /\ c < 57344
  BY <1>1
<1>4. c >= 55296 /\ c < 57344 <=> x = 13 /\ y >= 32
  OBVIOUS
<1> QED
  BY <1>2, <1>3, <1>4

\* Four bytes: no overlong form and nothing above 0x10FFFF.
LEMMA Point4 ==
  ASSUME NEW x \in Quartet, NEW y \in Sextet, NEW z \in Sextet, NEW w \in Sextet, x <= 4,
         NEW c, c = x * 262144 + y * 4096 + z * 64 + w
  PROVE  /\ c >= 65536 <=> x > 0 \/ y >= 16
         /\ c <= 1114111 <=> x < 4 \/ y < 16
BY DEF Quartet, Sextet

\* The table of the standard, for three bytes ...
Point3Of(a, b, c) == (a % 16) * 4096 + Low6(b) * 64 + Low6(c)
Fits3(ch) == ch >= 2048 /\ ch \div 2048 # 27

LEMMA Table3 ==
  ASSUME NEW a \in Lead3, NEW b \in Continuation, NEW c \in Continuation
  PROVE  Fits3(Point3Of(a, b, c)) <=> Second3(a, b)
<1> DEFINE ch == Point3Of(a, b, c)
<1>1. PICK x \in Quartet : x = a % 16 /\ a = x + 224
  BY DEF Quartet, Lead3
<1>2. PICK y \in Sextet : y = Low6(b) /\ b = y + 128
  BY LowBits DEF Continuation, Sextet
<1>3. PICK z \in Sextet : z = Low6(c)
  BY LowBits DEF Continuation, Sextet
<1>4. ch = x * 4096 + y * 64 + z
  BY <1>1, <1>2, <1>3 DEF Point3Of
<1> HIDE DEF ch
<1>5. (ch >= 2048 <=> x > 0 \/ y >= 32) /\ (ch \div 2048 = 27 <=> x = 13 /\ y >= 32)
  BY <1>4, Point3
<1>6. Second3(a, b) <=> (x > 0 \/ y >= 32) /\ ~(x = 13 /\ y >= 32)
  BY <1>1, <1>2 DEF Quartet, Sextet, Second3
<1> QED
  BY <1>5, <1>6 DEF ch, Fits3

\* ... and for four.
Point4Of(a, b, c, d) ==
  (a % 8) * 262144 + Low6(b) * 4096 + Low6(c) * 64 + Low6(d)
Fits4(ch) == ch >= 65536 /\ ch <= 1114111

LEMMA Table4 ==
  ASSUME NEW a \in Lead4, NEW b \in Continuation,
         NEW c \in Continuation, NEW d \in Continuation
  PROVE  Fits4(Point4Of(a, b, c, d)) <=> Second4(a, b)
<1> DEFINE ch == Point4Of(a, b, c, d)
<1>1. PICK x \in Quartet : x = a % 8 /\ a = x + 240 /\ x <= 4
  BY DEF Quartet, Lead4
<1>2. PICK y \in Sextet : y = Low6(b) /\ b = y + 128
  BY LowBits DEF Continuation, Sextet
<1>3. PICK z \in Sextet : z = Low6(c)
  BY LowBits DEF Continuation, Sextet
<1>4. PICK w \in Sextet : w = Low6(d)
  BY LowBits DEF Continuation, Sextet
<1>5. ch = x * 262144 + y * 4096 + z * 64 + w
  BY <1>1, <1>2, <1>3, <1>4 DEF Point4Of
<1> HIDE DEF ch
<1>6. (ch >= 65536 <=> x > 0 \/ y >= 16) /\ (ch <= 1114111 <=> x < 4 \/ y < 16)
  BY <1>1, <1>5, Point4
<1>7. Second4(a, b) <=> (x > 0 \/ y >= 16) /\ (x < 4 \/ y < 16)
  BY <1>1, <1>2 DEF Quartet, Sextet, Second4
<1> QED
  BY <1>6, <1>7 DEF ch, Fits4

\* A character passes exactly if it is one.
LEMMA PassesExact ==
  ASSUME text \in Seq(Byte), str \in 1 .. Len(text),
         NEW n, n = CodeLength(text[str])
  PROVE  Passes(n) <=> n \in 1 .. 4 /\ CharAt(text, str, n)
<1> DEFINE cont(i) == text[str + i] \in Continuation
           inside == str + n - 1 <= Len(text)
<1>1. PICK a \in Byte : a = text[str]
  OBVIOUS
<1>2. /\ a <= 127 => CodeLength(a) = 1
      /\ a \in 194 .. 223 => CodeLength(a) = 2
      /\ a \in 224 .. 239 => CodeLength(a) = 3
      /\ a \in 240 .. 244 => CodeLength(a) = 4
      /\ a \in 128 .. 193 \cup 245 .. 255 => CodeLength(a) = 0
  BY FirstByte
<1>3. /\ n \in 0 .. 4
      /\ n = 1 <=> a \in Ascii
      /\ n = 2 <=> a \in Lead2
      /\ n = 3 <=> a \in Lead3
      /\ n = 4 <=> a \in Lead4
  <2>1. n = CodeLength(a)
    BY <1>1
  <2> HIDE DEF CodeLength
  <2> QED
    BY <1>2, <2>1 DEF Byte, Ascii, Lead2, Lead3, Lead4
<1>4. Passes(n) <=> /\ n > 0
                    /\ inside
                    /\ \A i \in 1 .. n - 1 : cont(i)
                    /\ InRange(str, n)
  <2>1. str + (n - 1) < Len(text) + 1 <=> inside
    <3>1. \A s, m, len \in Int : s + (m - 1) < len + 1 <=> s + m - 1 <= len
      OBVIOUS
    <3>2. str \in Int /\ n \in Int /\ Len(text) \in Int
      BY <1>3
    <3> QED
      BY <3>1, <3>2, Zenon
  <2>2. n = 1 => inside
    OBVIOUS
  <2>3. ASSUME inside, NEW i \in 1 .. n - 1
        PROVE  IsContinuation(text[str + i]) <=> cont(i)
    <3>1. text[str + i] \in Byte
      BY <1>3, <2>3
    <3> QED
      BY <3>1, Continues
  <2> QED
    <3>1. n > 0 /\ ~(n > 1) => n = 1
      BY <1>3
    <3>2. n = 1 => \A i \in 1 .. n - 1 : cont(i) /\ IsContinuation(text[str + i])
      OBVIOUS
    <3> HIDE DEF cont
    <3> QED
      BY <2>1, <2>2, <2>3, <3>1, <3>2, Zenon DEF Passes
\* The two agree on everything but the range of the code point.
<1>5. CharAt(text, str, n) <=>
        /\ inside
        /\ \A i \in 1 .. n - 1 : cont(i)
        /\ n > 0
        /\ n = 3 => Second3(a, text[str + 1])
        /\ n = 4 => Second4(a, text[str + 1])
  <2>1. n > 0 <=> n = 1 \/ n = 2 \/ n = 3 \/ n = 4
    BY <1>3
  <2>2. (n = 1 => n # 3 /\ n # 4) /\ (n = 2 => n # 3 /\ n # 4) /\ (n = 3 => n # 4)
    OBVIOUS
  <2> HIDE DEF cont, inside
  <2>3. CharAt(text, str, n) <=>
          /\ inside
          /\ \A i \in 1 .. n - 1 : cont(i)
          /\ \/ n = 1 /\ a \in Ascii
             \/ n = 2 /\ a \in Lead2
             \/ n = 3 /\ a \in Lead3 /\ Second3(a, text[str + 1])
             \/ n = 4 /\ a \in Lead4 /\ Second4(a, text[str + 1])
    BY <1>1, Zenon DEF CharAt, cont, inside
  <2> QED
    BY <1>3, <2>1, <2>2, <2>3
<1>6. ASSUME n = 3, \A i \in 1 .. n - 1 : cont(i)
      PROVE  InRange(str, n) <=> Second3(a, text[str + 1])
  <2>1. text[str + 1] \in Continuation /\ text[str + 2] \in Continuation
    BY <1>6
  <2>2. CodePoint3(str) = Point3Of(a, text[str + 1], text[str + 2])
    BY <1>1 DEF CodePoint3, Point3Of
  <2>3. InRange(str, n) <=> Fits3(CodePoint3(str))
    BY <1>6 DEF InRange, Fits3
  <2> QED
    BY <1>3, <1>6, <2>1, <2>2, <2>3, Table3, Zenon
<1>7. ASSUME n = 4, \A i \in 1 .. n - 1 : cont(i)
      PROVE  InRange(str, n) <=> Second4(a, text[str + 1])
  <2>1. /\ text[str + 1] \in Continuation
        /\ text[str + 2] \in Continuation
        /\ text[str + 3] \in Continuation
    BY <1>7
  <2>2. CodePoint4(str) = Point4Of(a, text[str + 1], text[str + 2], text[str + 3])
    BY <1>1 DEF CodePoint4, Point4Of
  <2>3. InRange(str, n) <=> Fits4(CodePoint4(str))
    BY <1>7 DEF InRange, Fits4
  <2> QED
    BY <1>3, <1>7, <2>1, <2>2, <2>3, Table4, Zenon
<1>8. (n # 3 /\ n # 4) => InRange(str, n)
  BY DEF InRange
<1>9. n > 0 => n \in 1 .. 4
  BY <1>3
<1> HIDE DEF cont, inside
<1>10. n = 3 => n # 4
  OBVIOUS
<1> QED
  BY <1>4, <1>5, <1>6, <1>7, <1>8, <1>9, <1>10, Zenon
-----------------------------------------------------------------------------
(* Types. *)

\* What a prefix is.
LEMMA PrefixIs ==
  ASSUME NEW t \in Seq(Byte), NEW n \in 0 .. Len(t)
  PROVE  /\ Prefix(t, n) \in Seq(Byte)
         /\ Len(Prefix(t, n)) = n
         /\ \A i \in 1 .. n : Prefix(t, n)[i] = t[i]
BY DEF Prefix

\* The pointer moves over at most four bytes at a time.
LEMMA Moves ==
  ASSUME NEW b \in Byte
  PROVE  CodeLength(b) \in 0 .. 4 /\ Jump(b) \in 1 .. 4
BY DEF CodeLength, Jump, Byte

\* The loop of remove_corrupt_tail stops after one to four bytes.
LEMMA StopsSomewhere ==
  /\ StopsAt \in 1 .. 4
  /\ \A j \in 1 .. StopsAt - 1 : IsContinuation(FromEnd(j))
  /\ StopsAt < 4 => ~IsContinuation(FromEnd(StopsAt))
<1> DEFINE stops(i) == /\ \A j \in 1 .. i - 1 : IsContinuation(FromEnd(j))
                       /\ i < 4 => ~IsContinuation(FromEnd(i))
<1>1. \E i \in 1 .. 4 : stops(i)
  <2> HIDE DEF IsContinuation, FromEnd
  <2>1. CASE ~IsContinuation(FromEnd(1))
    BY <2>1
  <2>2. CASE IsContinuation(FromEnd(1)) /\ ~IsContinuation(FromEnd(2))
    <3>1. \A j \in 1 .. 2 - 1 : j = 1
      OBVIOUS
    <3>2. stops(2)
      BY <2>2, <3>1
    <3> QED
      BY <3>2
  <2>3. CASE IsContinuation(FromEnd(1)) /\ IsContinuation(FromEnd(2))
             /\ ~IsContinuation(FromEnd(3))
    <3>1. \A j \in 1 .. 3 - 1 : j = 1 \/ j = 2
      OBVIOUS
    <3>2. stops(3)
      BY <2>3, <3>1
    <3> QED
      BY <3>2
  <2>4. CASE IsContinuation(FromEnd(1)) /\ IsContinuation(FromEnd(2))
             /\ IsContinuation(FromEnd(3))
    <3>1. \A j \in 1 .. 4 - 1 : j = 1 \/ j = 2 \/ j = 3
      OBVIOUS
    <3>2. stops(4)
      BY <2>4, <3>1
    <3> QED
      BY <3>2
  <2> QED
    BY <2>1, <2>2, <2>3, <2>4
<1>2. StopsAt = CHOOSE i \in 1 .. 4 : stops(i)
  BY DEF StopsAt
<1> HIDE DEF stops
<1>3. StopsAt \in 1 .. 4 /\ stops(StopsAt)
  BY <1>1, <1>2
<1> QED
  BY <1>3 DEF stops

\* The text is always the beginning of the one the caller had.
TextInv ==
  /\ TypeOK
  /\ whole \in Seq(Byte)
  /\ Len(text) <= Len(whole)
  /\ text = Prefix(whole, Len(text))
  /\ str >= 1

\* A prefix of a prefix is one.
LEMMA PrefixOfPrefix ==
  ASSUME NEW t \in Seq(Byte), NEW n \in 0 .. Len(t), NEW m \in 0 .. n
  PROVE  Prefix(Prefix(t, n), m) = Prefix(t, m)
BY DEF Prefix

\* A shorter text is again the beginning.
LEMMA Shorter ==
  ASSUME TextInv, NEW n \in 0 .. Len(text)
  PROVE  /\ Prefix(text, n) \in Seq(Byte)
         /\ Len(Prefix(text, n)) = n
         /\ n <= Len(whole)
         /\ Prefix(text, n) = Prefix(whole, n)
<1>1. text \in Seq(Byte)
  BY DEF TextInv, TypeOK
<1>2. Len(text) \in 0 .. Len(whole) /\ n <= Len(whole)
  BY <1>1 DEF TextInv
<1>3. Prefix(Prefix(whole, Len(text)), n) = Prefix(whole, n)
  BY <1>2, PrefixOfPrefix DEF TextInv
<1> QED
  BY <1>1, <1>2, <1>3, PrefixIs DEF TextInv

LEMMA TextInit == Init => TextInv
<1> SUFFICES ASSUME Init PROVE TextInv
  OBVIOUS
<1>1. whole \in Seq(Byte) /\ text = whole
  BY Utf8UtilAssumption DEF Init
<1>2. Prefix(whole, Len(whole)) = whole
  BY <1>1 DEF Prefix
<1> QED
  BY <1>1, <1>2 DEF Init, TextInv, TypeOK, NoCounts, NoResult, Result

LEMMA TextNext == TextInv /\ [Next]_vars => TextInv'
<1> SUFFICES ASSUME TextInv, [Next]_vars PROVE TextInv'
  OBVIOUS
<1>1. TypeOK /\ text \in Seq(Byte)
  BY DEF TextInv, TypeOK
<1> USE DEF TypeOK, NoCounts, NoResult, Result
<1>2. ASSUME NEW n \in 0 .. Len(text), Cut(n) PROVE TextInv'
  <2>1. /\ text' \in Seq(Byte)
        /\ Len(text') = n
        /\ n <= Len(whole)
        /\ text' = Prefix(whole, n)
    BY <1>2, Shorter DEF Cut
  <2> QED
    BY <1>1, <1>2, <2>1 DEF Cut, TextInv
<1>3. ASSUME BeginIsUtf8 PROVE TextInv'
  BY <1>1, <1>3 DEF BeginIsUtf8, Begin, TextInv
<1>4. ASSUME PassCharacter PROVE TextInv'
  <2>1. str \in 1 .. Len(text) /\ text[str] \in Byte
    BY <1>1, <1>4 DEF PassCharacter, TextInv
  <2>2. PICK n : n = CodeLength(text[str])
    OBVIOUS
  <2>3. n \in 0 .. 4
    BY <2>1, <2>2, Moves
  <2>4. n > 0 /\ str + n <= Len(text) + 1 /\ str' = str + n
    BY <1>4, <2>1, <2>2, <2>3 DEF PassCharacter, Passes
  <2> QED
    BY <1>1, <1>4, <2>1, <2>3, <2>4 DEF PassCharacter, TextInv
<1>5. ASSUME Refuse PROVE TextInv'
  BY <1>1, <1>5 DEF Refuse, Return, TextInv
<1>6. ASSUME Accept PROVE TextInv'
  BY <1>1, <1>6 DEF Accept, Return, TextInv
<1>7. ASSUME BeginLength PROVE TextInv'
  BY <1>1, <1>7 DEF BeginLength, Begin, TextInv
<1>8. ASSUME CountCharacter PROVE TextInv'
  <2>1. Found \subseteq Byte
    <3>1. 0 \in Byte
      BY DEF Byte
    <3>2. str <= Len(text) => text[str] \in Byte
      BY <1>1 DEF TextInv
    <3> QED
      BY <3>1, <3>2 DEF Found
  <2>2. PICK b \in Byte :
          /\ cnt' = [cnt EXCEPT ![Jump(b)] = @ + 1, ![0] = @ + 1]
          /\ str' = str + Jump(b)
    BY <1>8, <2>1 DEF CountCharacter
  <2>3. PICK n \in 1 .. 4 : n = Jump(b)
    BY Moves
  <2>4. cnt' \in [0 .. 4 -> Nat]
    <3>1. cnt \in [0 .. 4 -> Nat] /\ cnt' = [cnt EXCEPT ![n] = @ + 1, ![0] = @ + 1]
      BY <1>1, <2>2, <2>3
    <3> QED
      BY <3>1
  <2>5. str' \in Nat /\ str' >= 1
    BY <1>1, <2>2, <2>3 DEF TextInv
  <2> QED
    BY <1>1, <1>8, <2>4, <2>5 DEF CountCharacter, TextInv
<1>9. ASSUME LengthDone PROVE TextInv'
  BY <1>1, <1>9 DEF LengthDone, Return, TextInv
<1>10. ASSUME RemoveCorruptTail PROVE TextInv'
  <2>1. CASE UNCHANGED text
    BY <1>1, <1>10, <2>1 DEF RemoveCorruptTail, TextInv
  <2>2. CASE CorruptTail /\ text' = Prefix(text, Len(text) - StopsAt)
    <3>1. PICK n \in 0 .. Len(text) : n = Len(text) - StopsAt
      BY <1>1, <2>2, StopsSomewhere DEF CorruptTail
    <3>2. /\ text' \in Seq(Byte)
          /\ Len(text') = n
          /\ n <= Len(whole)
          /\ text' = Prefix(whole, n)
      BY <2>2, <3>1, Shorter
    <3> QED
      BY <1>1, <1>10, <3>2 DEF RemoveCorruptTail, TextInv
  <2> QED
    BY <1>10, <2>1, <2>2 DEF RemoveCorruptTail
<1>11. ASSUME UNCHANGED vars PROVE TextInv'
  BY <1>1, <1>11 DEF vars, TextInv
<1> QED
  BY <1>2, <1>3, <1>4, <1>5, <1>6, <1>7, <1>8, <1>9, <1>10, <1>11 DEF Next

LEMMA TextAlways == Spec => []TextInv
BY TextInit, TextNext, PTL DEF Spec

\* Every variable keeps its range.
THEOREM TypesHold == Spec => []TypeOK
BY TextAlways, PTL DEF TextInv
-----------------------------------------------------------------------------
(* is_utf8 and get_utf8_length. *)

\* Characters of k bytes among the bytes before s.
CharsBefore(t, s, k) == {p \in 1 .. s - 1 : CharAt(t, p, k)}

\* The walks: is_utf8 is only where it saw characters, and so is
\* get_utf8_length if there are only characters to see; it counts them.
WalkInv ==
  /\ TextInv
  /\ call # "none" => ret.of = "none"
  /\ call = "is_utf8" => Walked(text, str)
  /\ call = "get_utf8_length" /\ WellFormed(text) => Walked(text, str)
  /\ call = "get_utf8_length" /\ WellFormed(text) =>
       /\ \A k \in Lengths : cnt[k] = Cardinality(CharsBefore(text, str, k))
       /\ cnt[0] = cnt[1] + cnt[2] + cnt[3] + cnt[4]
  /\ IsUtf8Exact
  /\ CountsWellFormed

\* One more character.
LEMMA CountOne ==
  ASSUME NEW t \in Seq(Byte), NEW s \in 1 .. Len(t), NEW n \in 1 .. 4, CharAt(t, s, n),
         NEW k \in 1 .. 4
  PROVE  /\ IsFiniteSet(CharsBefore(t, s, k))
         /\ Cardinality(CharsBefore(t, s + n, k)) =
              Cardinality(CharsBefore(t, s, k)) + (IF k = n THEN 1 ELSE 0)
<1>1. IsFiniteSet(CharsBefore(t, s, k))
  <2>1. IsFiniteSet(1 .. s - 1)
    BY FS_Interval
  <2>2. CharsBefore(t, s, k) \subseteq 1 .. s - 1
    BY DEF CharsBefore
  <2> QED
    BY <2>1, <2>2, FS_Subset
<1>2. n = CodeLength(t[s]) /\ s + n - 1 <= Len(t)
      /\ \A i \in s + 1 .. s + n - 1 : t[i] \in Continuation
  BY CharShape
<1>3. ASSUME NEW p \in s .. s + n - 1, CharAt(t, p, k) PROVE p = s /\ k = n
  <2>1. p \in 1 .. Len(t)
    BY <1>2
  <2>2. p = s
    BY <1>2, <1>3, <2>1, CharShape
  <2> QED
    BY <1>2, <1>3, <2>2, CharShape
<1>4. CASE k = n
  <2>1. CharsBefore(t, s + n, k) = CharsBefore(t, s, k) \cup {s}
    BY <1>3, <1>4 DEF CharsBefore
  <2>2. s \notin CharsBefore(t, s, k)
    BY DEF CharsBefore
  <2> QED
    BY <1>1, <1>4, <2>1, <2>2, FS_AddElement
<1>5. CASE k # n
  <2>1. CharsBefore(t, s + n, k) = CharsBefore(t, s, k)
    BY <1>3, <1>5 DEF CharsBefore
  <2> QED
    BY <1>1, <1>5, <2>1, FS_CardinalityType
<1> QED
  BY <1>1, <1>4, <1>5

\* Before the walk no character was counted.
LEMMA CountNone ==
  ASSUME NEW t, NEW k PROVE Cardinality(CharsBefore(t, 1, k)) = 0
<1>1. CharsBefore(t, 1, k) = {}
  BY DEF CharsBefore
<1> QED
  BY <1>1, FS_EmptySet

LEMMA WalkInit == Init => WalkInv
<1> SUFFICES ASSUME Init PROVE WalkInv
  OBVIOUS
<1>1. TextInv
  BY TextInit
<1> QED
  BY <1>1 DEF Init, WalkInv, NoResult, Result, IsUtf8Exact, CountsWellFormed, CountsCharacters

\* A step of get_utf8_length over well-formed text.
LEMMA CountStep ==
  ASSUME WalkInv, CountCharacter, WellFormed(text), text' = text
  PROVE  /\ Walked(text, str')
         /\ \A k \in Lengths : cnt'[k] = Cardinality(CharsBefore(text, str', k))
         /\ cnt'[0] = cnt'[1] + cnt'[2] + cnt'[3] + cnt'[4]
<1>1. text \in Seq(Byte) /\ cnt \in [0 .. 4 -> Nat] /\ call = "get_utf8_length"
  BY DEF WalkInv, TextInv, TypeOK, CountCharacter
<1>2. Walked(text, str)
  BY <1>1 DEF WalkInv
<1>3. str \in 1 .. Len(text)
  <2>1. str \in 1 .. Len(text) + 1
    BY <1>2 DEF Walked
  <2>2. str # Len(text) + 1
    BY <1>1 DEF CountCharacter, Found
  <2> QED
    BY <1>1, <2>1, <2>2
<1>4. Found = {text[str]}
  BY <1>3 DEF Found
<1>5. PICK n \in 1 .. 4 : CharAt(text, str, n)
  BY <1>1, <1>2, <1>3, Boundary
<1>6. n = Jump(text[str])
  BY <1>1, <1>3, <1>5, CharShape
<1>7. cnt' = [cnt EXCEPT ![n] = @ + 1, ![0] = @ + 1] /\ str' = str + n
  BY <1>4, <1>6 DEF CountCharacter
<1>8. Walked(text, str')
  BY <1>1, <1>2, <1>3, <1>5, <1>7, WalkOn
<1>9. /\ \A k \in Lengths : cnt[k] = Cardinality(CharsBefore(text, str, k))
      /\ cnt[0] = cnt[1] + cnt[2] + cnt[3] + cnt[4]
  BY <1>1 DEF WalkInv
<1>10. ASSUME NEW k \in Lengths
       PROVE  cnt'[k] = Cardinality(CharsBefore(text, str', k))
  <2>1. cnt'[k] = cnt[k] + (IF k = n THEN 1 ELSE 0)
    BY <1>1, <1>7 DEF Lengths
  <2>2. Cardinality(CharsBefore(text, str', k)) =
          Cardinality(CharsBefore(text, str, k)) + (IF k = n THEN 1 ELSE 0)
    BY <1>1, <1>3, <1>5, <1>7, CountOne DEF Lengths
  <2> QED
    BY <1>9, <2>1, <2>2
<1>11. cnt'[0] = cnt'[1] + cnt'[2] + cnt'[3] + cnt'[4]
  <2>1. cnt'[0] = cnt[0] + 1
    BY <1>1, <1>7
  <2>2. \A k \in 1 .. 4 : cnt'[k] = cnt[k] + (IF k = n THEN 1 ELSE 0)
    BY <1>1, <1>7
  <2> QED
    BY <1>1, <1>9, <2>1, <2>2
<1> QED
  BY <1>8, <1>10, <1>11

LEMMA WalkNext == WalkInv /\ [Next]_vars => WalkInv'
<1> SUFFICES ASSUME WalkInv, [Next]_vars PROVE WalkInv'
  OBVIOUS
<1>1. TextInv'
  BY TextNext DEF WalkInv
<1>2. TextInv /\ TypeOK /\ text \in Seq(Byte)
  BY DEF WalkInv, TextInv, TypeOK
<1>3. ASSUME call' = "none",
             ret'.of # "is_utf8", ret'.of # "get_utf8_length"
      PROVE  WalkInv'
  BY <1>1, <1>3 DEF WalkInv, IsUtf8Exact, CountsWellFormed, CountsCharacters
<1>4. ASSUME NEW function \in {"is_utf8", "get_utf8_length"}, Begin(function) PROVE WalkInv'
  <2>1. /\ text' = text
        /\ str' = 1
        /\ cnt' = NoCounts
        /\ ret' = NoResult
    BY <1>4 DEF Begin
  <2>2. Walked(text', str')
    BY <1>2, <2>1, WalkBegins
  <2>3. \A k \in Lengths : cnt'[k] = Cardinality(CharsBefore(text', str', k))
    BY <2>1, CountNone DEF NoCounts, Lengths
  <2>4. cnt'[0] = cnt'[1] + cnt'[2] + cnt'[3] + cnt'[4]
    BY <2>1 DEF NoCounts
  <2>5. ret'.of = "none"
    BY <2>1 DEF NoResult, Result
  <2> QED
    BY <1>1, <2>2, <2>3, <2>4, <2>5
       DEF WalkInv, IsUtf8Exact, CountsWellFormed, CountsCharacters
<1>5. ASSUME NEW n \in 0 .. Len(text), Cut(n) PROVE WalkInv'
  BY <1>3, <1>5 DEF Cut, NoResult, Result
<1>6. ASSUME PassCharacter PROVE WalkInv'
  <2>1. /\ text' = text
        /\ call = "is_utf8"
        /\ call' = call
        /\ cnt' = cnt
        /\ ret' = ret
    BY <1>6 DEF PassCharacter
  <2>2. str \in 1 .. Len(text)
    BY <1>2, <1>6 DEF PassCharacter, TextInv, TypeOK, Walked, WalkInv
  <2>3. PICK n : n = CodeLength(text[str])
    OBVIOUS
  <2>4. Passes(n) /\ str' = str + n
    BY <1>6, <2>3 DEF PassCharacter
  <2>5. n \in 1 .. 4 /\ CharAt(text, str, n)
    BY <1>2, <2>2, <2>3, <2>4, PassesExact
  <2>6. Walked(text, str + n)
    BY <1>2, <2>1, <2>2, <2>5, WalkOn DEF WalkInv
  <2> QED
    BY <1>1, <2>1, <2>4, <2>6 DEF WalkInv, IsUtf8Exact, CountsWellFormed, CountsCharacters
<1>7. ASSUME Refuse PROVE WalkInv'
  <2>1. /\ text' = text
        /\ call = "is_utf8"
        /\ call' = "none"
        /\ ret'.of = "is_utf8"
        /\ ret'.value = 0
    BY <1>7 DEF Refuse, Return, Result
  <2>2. str \in 1 .. Len(text)
    BY <1>2, <1>7 DEF Refuse, TextInv, TypeOK
  <2>3. PICK n : n = CodeLength(text[str])
    OBVIOUS
  <2>4. ~(n \in 1 .. 4 /\ CharAt(text, str, n))
    BY <1>2, <1>7, <2>2, <2>3, PassesExact DEF Refuse
  <2>5. ~WellFormed(text)
    <3>1. SUFFICES ASSUME WellFormed(text) PROVE FALSE
      OBVIOUS
    <3>2. PICK m \in 1 .. 4 : CharAt(text, str, m)
      BY <1>2, <2>1, <2>2, <3>1, Boundary DEF WalkInv
    <3>3. m = n
      BY <1>2, <2>2, <2>3, <3>2, CharShape
    <3> QED
      BY <2>4, <3>2, <3>3
  <2> QED
    BY <1>1, <2>1, <2>5 DEF WalkInv, IsUtf8Exact, CountsWellFormed, CountsCharacters
<1>8. ASSUME Accept PROVE WalkInv'
  <2>1. /\ text' = text
        /\ call = "is_utf8"
        /\ call' = "none"
        /\ ret'.of = "is_utf8"
        /\ ret'.value = 1
        /\ str = Len(text) + 1
    BY <1>8 DEF Accept, Return, Result
  <2>2. WellFormed(text)
    BY <1>2, <2>1, WalkedThrough DEF WalkInv
  <2> QED
    BY <1>1, <2>1, <2>2 DEF WalkInv, IsUtf8Exact, CountsWellFormed, CountsCharacters
<1>9. ASSUME CountCharacter PROVE WalkInv'
  <2>1. /\ text' = text
        /\ call = "get_utf8_length"
        /\ call' = call
        /\ ret' = ret
    BY <1>9 DEF CountCharacter
  <2>2. ret.of = "none"
    BY <2>1 DEF WalkInv
  <2>3. WellFormed(text) =>
          /\ Walked(text, str')
          /\ \A k \in Lengths : cnt'[k] = Cardinality(CharsBefore(text, str', k))
          /\ cnt'[0] = cnt'[1] + cnt'[2] + cnt'[3] + cnt'[4]
    BY <1>9, <2>1, CountStep
  <2> QED
    BY <1>1, <2>1, <2>2, <2>3 DEF WalkInv, IsUtf8Exact, CountsWellFormed, CountsCharacters
<1>10. ASSUME LengthDone PROVE WalkInv'
  <2>1. /\ text' = text
        /\ cnt' = cnt
        /\ call = "get_utf8_length"
        /\ call' = "none"
        /\ ret'.of = "get_utf8_length"
        /\ 0 \in Found
    BY <1>10 DEF LengthDone, Return, Result
  <2>2. ASSUME WellFormed(text), \A i \in 1 .. Len(text) : text[i] # 0
        PROVE  CountsCharacters'
    <3>1. str \in 1 .. Len(text) + 1
      BY <2>1, <2>2 DEF WalkInv, Walked
    <3>2. str = Len(text) + 1
      BY <1>2, <2>1, <2>2, <3>1 DEF Found
    <3>3. \A k \in Lengths : CharsBefore(text, str, k) = CharsOfLength(text, k)
      BY <1>2, <3>2 DEF CharsBefore, CharsOfLength
    <3> QED
      BY <2>1, <2>2, <3>3 DEF WalkInv, CountsCharacters
  <2> QED
    BY <1>1, <2>1, <2>2 DEF WalkInv, IsUtf8Exact, CountsWellFormed
<1>11. ASSUME RemoveCorruptTail PROVE WalkInv'
  BY <1>3, <1>11 DEF RemoveCorruptTail, Result
<1>12. ASSUME UNCHANGED vars PROVE WalkInv'
  BY <1>1, <1>12 DEF vars, WalkInv, IsUtf8Exact, CountsWellFormed, CountsCharacters
<1> QED
  BY <1>4, <1>5, <1>6, <1>7, <1>8, <1>9, <1>10, <1>11, <1>12 DEF Next, BeginIsUtf8, BeginLength

LEMMA WalkAlways == Spec => []WalkInv
BY WalkInit, WalkNext, PTL DEF Spec

\* is_utf8 accepts what the standard's table allows and nothing else, whatever
\* the text.
THEOREM IsUtf8IsExact == Spec => []IsUtf8Exact
BY WalkAlways, PTL DEF WalkInv

\* get_utf8_length never jumps over the end of well-formed text ...
THEOREM LengthStops == Spec => []StopsAtTheEnd
<1>1. WalkInv => StopsAtTheEnd
  BY DEF WalkInv, StopsAtTheEnd, Walked
<1> QED
  BY <1>1, WalkAlways, PTL

\* ... and counts its characters.
THEOREM LengthCounts == Spec => []CountsWellFormed
BY WalkAlways, PTL DEF WalkInv
-----------------------------------------------------------------------------
(* remove_corrupt_tail. *)

\* Of a character that covers the last byte of the text, the loop finds the
\* first byte; and the tail is called corrupt just if the character has more
\* bytes than the text.
LEMMA TailIs ==
  ASSUME TextInv, Len(text) >= 3,
         NEW w \in Seq(Byte), Len(text) <= Len(w), text = Prefix(w, Len(text)),
         NEW p \in 1 .. Len(text), NEW n \in 1 .. 4,
         CharAt(w, p, n), Covers(p, n, Len(text))
  PROVE  /\ StopsAt = Len(text) - p + 1
         /\ CorruptTail <=> n > StopsAt
<1> DEFINE m == Len(text)
           k == m - p + 1
<1>1. text \in Seq(Byte) /\ m \in Nat /\ p \in 1 .. Len(w)
  BY DEF TextInv, TypeOK
<1>2. \A i \in 1 .. m : text[i] = w[i] /\ text[i] \in Byte
  BY <1>1, PrefixIs
<1>3. k \in 1 .. 4 /\ k <= n
  BY <1>1 DEF Covers
<1>4. /\ n = CodeLength(w[p])
      /\ w[p] \notin Continuation
      /\ \A i \in p + 1 .. p + n - 1 : w[i] \in Continuation
  BY <1>1, CharShape
<1>5. FromEnd(k) = w[p] /\ ~IsContinuation(FromEnd(k))
  <2>1. m - k + 1 = p
    BY <1>1
  <2> QED
    BY <1>2, <1>4, <2>1, Continues DEF FromEnd
<1>6. ASSUME NEW j \in 1 .. k - 1 PROVE IsContinuation(FromEnd(j))
  <2>1. m - j + 1 \in p + 1 .. p + n - 1 /\ m - j + 1 \in 1 .. m
    BY <1>1, <1>3
  <2> QED
    BY <1>2, <1>4, <2>1, Continues DEF FromEnd
<1>7. StopsAt = k
  <2> HIDE DEF k
  <2>1. /\ StopsAt \in 1 .. 4
        /\ \A j \in 1 .. StopsAt - 1 : IsContinuation(FromEnd(j))
        /\ StopsAt < 4 => ~IsContinuation(FromEnd(StopsAt))
    BY StopsSomewhere
  <2> HIDE DEF IsContinuation, FromEnd, StopsAt
  <2>2. CASE StopsAt < k
    BY <1>3, <1>6, <2>1, <2>2
  <2>3. CASE k < StopsAt
    BY <1>3, <1>5, <2>1, <2>3
  <2> QED
    BY <1>3, <2>1, <2>2, <2>3
<1>8. PICK b \in Byte : b = w[p]
  BY <1>1
<1>9. CorruptTail <=>
        k < 4 /\ b >= 192 /\ ~(b \in 192 .. 223 /\ k = 2) /\ ~(b \in 224 .. 239 /\ k = 3)
  BY <1>5, <1>7, <1>8 DEF CorruptTail
<1>10. n = CodeLength(b)
  BY <1>4, <1>8
<1>11. /\ n = 1 => b <= 127
       /\ n = 2 => b \in 194 .. 223
       /\ n = 3 => b \in 224 .. 239
       /\ n = 4 => b \in 240 .. 244
  BY <1>10 DEF CodeLength, Byte
<1>12. CorruptTail <=> n > k
  <2> HIDE DEF k
  <2>1. CASE n = 1
    BY <1>3, <1>9, <1>11, <2>1 DEF Byte
  <2>2. CASE n = 2
    BY <1>3, <1>9, <1>11, <2>2 DEF Byte
  <2>3. CASE n = 3
    BY <1>3, <1>9, <1>11, <2>3 DEF Byte
  <2>4. CASE n = 4
    BY <1>3, <1>9, <1>11, <2>4 DEF Byte
  <2> QED
    BY <2>1, <2>2, <2>3, <2>4
<1> QED
  BY <1>7, <1>12

\* A character is one wherever its bytes are.
LEMMA SameChar ==
  ASSUME NEW t \in Seq(Byte), NEW w \in Seq(Byte),
         NEW q \in Nat \ {0}, NEW m \in 1 .. 4, CharAt(w, q, m),
         q + m - 1 <= Len(t), \A j \in q .. q + m - 1 : t[j] = w[j]
  PROVE  CharAt(t, q, m)
<1>1. \A i \in 1 .. m - 1 : t[q + i] = w[q + i] /\ w[q + i] \in Continuation
  BY DEF CharAt
<1>2. t[q] = w[q]
  OBVIOUS
<1>3. m = 3 \/ m = 4 => t[q + 1] = w[q + 1]
  OBVIOUS
<1> QED
  BY <1>1, <1>2, <1>3, Zenon DEF CharAt

\* Well-formed text that is cut before or after one of its characters is
\* well-formed, ...
LEMMA CutBetween ==
  ASSUME NEW w \in Seq(Byte), WellFormed(w),
         NEW p \in 1 .. Len(w), NEW n \in 1 .. 4, CharAt(w, p, n),
         NEW s \in {p, p + n}
  PROVE  WellFormed(Prefix(w, s - 1))
<1>1. s - 1 \in 0 .. Len(w)
  BY DEF CharAt
<1>2. /\ Prefix(w, s - 1) \in Seq(Byte)
      /\ Len(Prefix(w, s - 1)) = s - 1
      /\ \A i \in 1 .. s - 1 : Prefix(w, s - 1)[i] = w[i]
  BY <1>1, PrefixIs
<1>3. PICK t \in Seq(Byte) :
        t = Prefix(w, s - 1) /\ Len(t) = s - 1 /\ \A i \in 1 .. s - 1 : t[i] = w[i]
  BY <1>2
<1>4. ASSUME NEW i \in 1 .. Len(t)
      PROVE  \E q \in 1 .. i, m \in 1 .. 4 : Covers(q, m, i) /\ CharAt(t, q, m)
  <2>1. i \in 1 .. Len(w)
    BY <1>1, <1>3
  <2>2. PICK q \in 1 .. i, m \in 1 .. 4 : Covers(q, m, i) /\ CharAt(w, q, m)
    BY <2>1 DEF WellFormed
  <2>3. q \in 1 .. Len(w)
    BY <2>1
  <2>4. q + m <= s
    <3>1. CASE q < p
      <4>1. ~(p < q + m)
        BY <2>2, <2>3, <3>1, NoOverlap
      <4> QED
        BY <4>1
    <3>2. CASE p <= q
      <4>1. s = p + n /\ q < p + n
        BY <1>3, <3>2
      <4>2. p = q /\ n = m
        BY <2>2, <2>3, <3>2, <4>1, NoOverlap
      <4> QED
        BY <4>1, <4>2
    <3> QED
      BY <3>1, <3>2
  <2>5. q + m - 1 <= Len(t) /\ \A j \in q .. q + m - 1 : t[j] = w[j]
    BY <1>3, <2>4
  <2>6. CharAt(t, q, m)
    BY <2>2, <2>3, <2>5, SameChar
  <2> QED
    BY <2>2, <2>6
<1> QED
  BY <1>3, <1>4 DEF WellFormed

\* ... and cut inside of one it is not.
LEMMA CutInside ==
  ASSUME NEW w \in Seq(Byte),
         NEW p \in 1 .. Len(w), NEW n \in 1 .. 4, CharAt(w, p, n),
         NEW q \in p .. p + n - 2
  PROVE  ~WellFormed(Prefix(w, q))
<1>1. q \in 0 .. Len(w)
  BY DEF CharAt
<1>2. /\ Prefix(w, q) \in Seq(Byte)
      /\ Len(Prefix(w, q)) = q
      /\ \A i \in 1 .. q : Prefix(w, q)[i] = w[i]
  BY <1>1, PrefixIs
<1>3. PICK t \in Seq(Byte) : t = Prefix(w, q) /\ Len(t) = q /\ \A i \in 1 .. q : t[i] = w[i]
  BY <1>2
<1>4. SUFFICES ASSUME WellFormed(t) PROVE FALSE
  BY <1>3
<1>5. PICK r \in 1 .. p, m \in 1 .. 4 : Covers(r, m, p) /\ CharAt(t, r, m)
  BY <1>3, <1>4 DEF WellFormed
<1>6. r + m - 1 <= q
  BY <1>3, <1>5 DEF CharAt
<1>7. CharAt(w, r, m)
  <2>1. r + m - 1 <= Len(w) /\ \A j \in r .. r + m - 1 : w[j] = t[j]
    BY <1>1, <1>3, <1>6
  <2> QED
    BY <1>5, <2>1, SameChar
<1>8. r = p /\ m = n
  BY <1>5, <1>7, NoOverlap DEF Covers
<1> QED
  BY <1>6, <1>8

\* What remove_corrupt_tail promises, of the result it last returned.
TailInv == TextInv /\ LongTailRemoved

\* The character over the last byte of the text, whole or cut.
LEMMA LastCharacter ==
  ASSUME NEW w \in Seq(Byte), WellFormed(w), NEW m \in 1 .. Len(w)
  PROVE  \E p \in 1 .. m, n \in 1 .. 4 : Covers(p, n, m) /\ CharAt(w, p, n)
BY DEF WellFormed

\* One call, on the beginning of a well-formed text.
LEMMA TailStep ==
  ASSUME TextInv, RemoveCorruptTail, Len(text) >= 3, WellFormed(whole)
  PROVE  /\ WellFormed(text')
         /\ \A n \in Len(text') + 1 .. Len(text) : ~WellFormed(Prefix(whole, n))
<1> DEFINE m == Len(text)
<1>1. /\ whole \in Seq(Byte)
      /\ m \in 1 .. Len(whole)
      /\ text = Prefix(whole, m)
      /\ text \in Seq(Byte)
  BY DEF TextInv, TypeOK
<1>2. PICK p \in 1 .. m, n \in 1 .. 4 : Covers(p, n, m) /\ CharAt(whole, p, n)
  BY <1>1, LastCharacter
<1>3. p \in 1 .. Len(whole)
  BY <1>1
<1>4. StopsAt = m - p + 1 /\ (CorruptTail <=> n > StopsAt)
  BY <1>1, <1>2, TailIs
<1>5. CASE CorruptTail
  <2>1. text' = Prefix(text, m - StopsAt) /\ m - StopsAt = p - 1
    BY <1>4, <1>5 DEF RemoveCorruptTail
  <2>2. text' = Prefix(whole, p - 1)
    BY <2>1, Shorter
  <2>3. WellFormed(text')
    BY <1>1, <1>2, <1>3, <2>2, CutBetween
  <2>4. Len(text') = p - 1
    BY <1>1, <2>2, PrefixIs
  <2>5. \A q \in p .. m : q \in p .. p + n - 2
    BY <1>4, <1>5
  <2> QED
    BY <1>1, <1>2, <1>3, <2>3, <2>4, <2>5, CutInside
<1>6. CASE ~CorruptTail
  <2>1. text' = text
    BY <1>6 DEF RemoveCorruptTail
  <2>2. p + n - 1 = m
    BY <1>2, <1>4, <1>6 DEF Covers
  <2>3. WellFormed(text)
    BY <1>1, <1>2, <1>3, <2>2, CutBetween
  <2> QED
    BY <2>1, <2>3
<1> QED
  BY <1>5, <1>6

LEMMA TailNext == TailInv /\ [Next]_vars => TailInv'
<1> SUFFICES ASSUME TailInv, [Next]_vars PROVE TailInv'
  OBVIOUS
<1>1. TextInv'
  BY TextNext DEF TailInv
<1>2. ASSUME ret'.of # "remove_corrupt_tail" PROVE TailInv'
  BY <1>1, <1>2 DEF TailInv, LongTailRemoved, TailRemoved
<1>3. ASSUME UNCHANGED <<whole, text, given, ret>> PROVE TailInv'
  BY <1>1, <1>3 DEF TailInv, LongTailRemoved, TailRemoved
<1>4. ASSUME RemoveCorruptTail PROVE TailInv'
  <2>1. given' = Len(text) /\ whole' = whole
    BY <1>4 DEF RemoveCorruptTail
  <2> QED
    BY <1>1, <1>4, <2>1, TailStep DEF TailInv, LongTailRemoved, TailRemoved
<1>5. TypeOK
  BY DEF TailInv, TextInv
<1>6. ASSUME NEW value, Return(value), call \in {"is_utf8", "get_utf8_length"} PROVE TailInv'
  BY <1>2, <1>6 DEF Return, Result
<1>7. ASSUME NEW n \in 0 .. Len(text), Cut(n) PROVE TailInv'
  BY <1>2, <1>7 DEF Cut, NoResult, Result
<1>8. ASSUME NEW function, Begin(function) PROVE TailInv'
  BY <1>2, <1>8 DEF Begin, NoResult, Result
<1>9. ASSUME PassCharacter \/ CountCharacter PROVE TailInv'
  BY <1>3, <1>9 DEF PassCharacter, CountCharacter
<1>10. ASSUME Refuse \/ Accept \/ LengthDone PROVE TailInv'
  BY <1>6, <1>10 DEF Refuse, Accept, LengthDone
<1>11. ASSUME UNCHANGED vars PROVE TailInv'
  BY <1>3, <1>11 DEF vars
<1> QED
  BY <1>4, <1>7, <1>8, <1>9, <1>10, <1>11 DEF Next, BeginIsUtf8, BeginLength

\* Of a text of three bytes and more that was cut anywhere, remove_corrupt_tail
\* leaves all that is well-formed and nothing that is not.
THEOREM TailIsRemoved == Spec => []LongTailRemoved
<1>1. Init => TailInv
  BY TextInit DEF Init, TailInv, LongTailRemoved, TailRemoved, NoResult, Result
<1>2. TailInv => LongTailRemoved
  BY DEF TailInv
<1> QED
  BY <1>1, <1>2, TailNext, PTL DEF Spec

\* It takes nothing from a text that was whole.
THEOREM TailKeepsWellFormed == Spec => KeepsWellFormed
<1>1. TextInv /\ [Next]_vars =>
        [ret'.of = "remove_corrupt_tail" /\ WellFormed(text) => UNCHANGED text]_vars
  <2> SUFFICES ASSUME TextInv, Next, ret'.of = "remove_corrupt_tail", WellFormed(text)
               PROVE  UNCHANGED text
    OBVIOUS
  <2>1. text \in Seq(Byte) /\ call \in {"none", "is_utf8", "get_utf8_length"}
    BY DEF TextInv, TypeOK
  <2>2. CASE RemoveCorruptTail /\ CorruptTail
    <3> DEFINE m == Len(text)
    <3>1. m \in 1 .. Len(text) /\ m >= 3 /\ text = Prefix(text, m)
      BY <2>1, <2>2 DEF CorruptTail, Prefix
    <3>2. PICK p \in 1 .. m, n \in 1 .. 4 : Covers(p, n, m) /\ CharAt(text, p, n)
      BY <2>1, <3>1, LastCharacter
    <3>3. StopsAt = m - p + 1 /\ (CorruptTail <=> n > StopsAt)
      BY <2>1, <3>1, <3>2, TailIs
    <3>4. p + n - 1 <= m
      BY <3>2 DEF CharAt
    <3> QED
      BY <2>2, <3>3, <3>4
  <2>3. CASE RemoveCorruptTail /\ ~CorruptTail
    BY <2>3 DEF RemoveCorruptTail
  <2>4. CASE \E n \in 0 .. Len(text) : Cut(n)
    BY <2>4 DEF Cut, NoResult, Result
  <2> QED
    BY <2>1, <2>2, <2>3, <2>4
       DEF Next, BeginIsUtf8, BeginLength, Begin, PassCharacter, CountCharacter,
           Refuse, Accept, LengthDone, Return
<1> QED
  BY <1>1, TextAlways, PTL DEF Spec, KeepsWellFormed
=============================================================================
