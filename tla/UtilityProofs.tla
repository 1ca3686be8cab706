---------------------------- MODULE UtilityProofs ----------------------------
(***************************************************************************)
(* Theorems about the utilities that keep no state between their calls:    *)
(* CurlSend, the two hexadecimal conversions and enum_directory, for every *)
(* response, text, buffer and directory tree. Each has its own variables   *)
(* and its own specification (the names say whose), and its own inductive  *)
(* invariant.                                                              *)
(***************************************************************************)
EXTENDS CurlUtil, HexUtil, DirectoryWalk,
        SequenceTheorems, FiniteSetTheorems, NaturalsInduction, TLAPS

(***************************************************************************)
(* CurlSend.                                                               *)
(***************************************************************************)
Characters == 0 .. 255

\* The block holds what was received, as far as it was copied, and the zero.
BlockHoldsBody ==
  /\ response \in Seq(Characters)
  /\ received \in 0 .. Len(response)
  /\ content = SubSeq(response, 1, received)
  /\ size = received
  /\ room \in Nat
  /\ memory => size < room
  /\ pc = "malloc" => received = 0

\* A call is still before the end of the transfer, or behind it.
Starting == pc \in {"malloc", "handle", "setopt", "perform"}
Finishing == pc \in {"getinfo", "assign", "cleanup", "free", "returned"}

\* CURLE_OK is the result of a transfer that was complete.
OkMeansComplete ==
  /\ Starting => res = "none" /\ (memory \/ pc = "malloc")
  /\ res = "CURLE_OK" => memory /\ received = Len(response)

\* What is returned was in the block.
ReturnsBlock ==
  /\ Starting \/ pc = "getinfo" \/ res # "CURLE_OK" => cookie = 0
  /\ pc \in {"cleanup", "free", "returned"} =>
       strResp = IF memory THEN CString(content) ELSE <<>>

\* What the call owns: the block that it uses, and no more what it released.
MayOwn == owned \subseteq {"memory", "handle", "hs", "cookies", "lost block"}
OwnsBlock == memory /\ ~Returned => "memory" \in owned
HasReleased ==
  /\ pc \in {"free", "returned"} => "handle" \notin owned
  /\ pc = "returned" => "memory" \notin owned
OwnsWhatItUses == MayOwn /\ OwnsBlock /\ HasReleased

\* Where a call can be.
SomeStep == Starting \/ Finishing \/ pc \in {"crashed", "thrown"}

CurlInv ==
  BlockHoldsBody /\ OkMeansComplete /\ ReturnsBlock /\ OwnsWhatItUses /\ SomeStep

\* The first of some numbers.
LEMMA FirstOf ==
  ASSUME NEW S \in SUBSET Nat, S # {}
  PROVE  Min(S) \in S /\ \A x \in S : Min(S) <= x
<1>1. PICK x \in S : \A y \in S : ~(<<y, x>> \in OpToRel(<, Nat))
  BY NatLessThanWellFounded, WFMin, Zenon
<1>2. \A y \in S : x \in Nat /\ y \in Nat
  OBVIOUS
<1>3. \A y \in S : ~(y < x)
  BY <1>1, <1>2, Zenon DEF OpToRel
<1>4. \A y \in S : x <= y
  BY <1>2, <1>3
<1> QED
  BY <1>4 DEF Min

\* The beginning of a text is a prefix of it.
LEMMA PrefixIsPrefix ==
  ASSUME NEW s \in Seq(Characters), NEW n \in 0 .. Len(s)
  PROVE  IsPrefix(SubSeq(s, 1, n), s)
<1>1. Len(s) \in Nat
  BY LenProperties
<1>2. SubSeq(s, 1, n) \in Seq(Characters) /\ Len(SubSeq(s, 1, n)) = n
  BY <1>1, SubSeqProperties
<1>3. SubSeq(SubSeq(s, 1, n), 1, n) = SubSeq(s, 1, n)
  BY <1>2, SubSeqFull
<1> QED
  BY <1>1, <1>2, <1>3 DEF IsPrefix

\* A C string begins as the text it was cut from does.
LEMMA CStringIsPrefix ==
  ASSUME NEW s \in Seq(Characters)
  PROVE  /\ \E n \in 0 .. Len(s) : CString(s) = SubSeq(s, 1, n)
         /\ IsPrefix(CString(s), s)
<1>1. Len(s) \in Nat /\ SubSeq(s, 1, Len(s)) = s /\ DOMAIN s = 1 .. Len(s)
  BY SubSeqFull, LenProperties
<1>2. PICK n \in 0 .. Len(s) : CString(s) = SubSeq(s, 1, n)
  <2>1. PICK zeros : zeros = {k \in DOMAIN s : s[k] = 0}
    OBVIOUS
  <2>2. CString(s) = IF zeros = {} THEN s ELSE SubSeq(s, 1, Min(zeros) - 1)
    BY <2>1, Zenon DEF CString
  <2>3. CASE zeros = {}
    <3>1. CString(s) = SubSeq(s, 1, Len(s)) /\ Len(s) \in 0 .. Len(s)
      BY <1>1, <2>2, <2>3
    <3> QED BY <3>1
  <2>4. CASE zeros # {}
    <3>1. zeros \in SUBSET Nat /\ zeros \subseteq 1 .. Len(s)
      BY <1>1, <2>1
    <3>2. Min(zeros) \in 1 .. Len(s)
      BY <2>4, <3>1, FirstOf
    <3>3. Min(zeros) - 1 \in 0 .. Len(s)
      BY <1>1, <3>2
    <3> QED BY <2>2, <2>4, <3>3
  <2> QED BY <2>3, <2>4
<1> QED
  BY <1>2, PrefixIsPrefix

\* What the prefix of a text grows by.
LEMMA PrefixGrows ==
  ASSUME NEW s \in Seq(Characters), NEW i \in 0 .. Len(s), NEW n \in 0 .. Len(s) - i
  PROVE  /\ SubSeq(s, 1, i) \o SubSeq(s, i + 1, i + n) = SubSeq(s, 1, i + n)
         /\ Len(SubSeq(s, 1, i)) = i
<1>1. Len(s) \in Nat
  BY LenProperties
<1>2. SubSeq(s, 1, i) \o SubSeq(s, i + 1, i + n) = SubSeq(s, 1, i + n)
  BY <1>1, ConcatAdjacentSubSeq
<1>3. Len(SubSeq(s, 1, i)) = i
  BY <1>1, SubSeqProperties
<1> QED BY <1>2, <1>3

(* What CurlSend relies on holds of every call, whatever is received and   *)
(* wherever it fails.                                                      *)
LEMMA CurlInvHolds == CurlSpec => []CurlInv
<1>1. CurlInit => CurlInv
  <2> SUFFICES ASSUME CurlInit PROVE CurlInv
    OBVIOUS
  <2>1. response \in Seq(Characters) /\ Len(response) \in Nat
    BY CurlUtilAssumption, LenProperties DEF CurlInit, Characters
  <2>2. SubSeq(response, 1, 0) = <<>>
    BY <2>1, SubSeqEmpty
  <2> QED
    <3>1. BlockHoldsBody
      BY <2>1, <2>2 DEF CurlInit, BlockHoldsBody
    <3>2. OkMeansComplete /\ ReturnsBlock /\ OwnsWhatItUses /\ SomeStep
      BY DEF CurlInit, OkMeansComplete, ReturnsBlock, OwnsWhatItUses, MayOwn, OwnsBlock,
         HasReleased, SomeStep, Starting,
         Finishing, Returned
    <3> QED BY <3>1, <3>2 DEF CurlInv
<1>2. CurlInv /\ [CurlSend]_curlVars => CurlInv'
  <2> SUFFICES ASSUME CurlInv, [CurlSend]_curlVars PROVE CurlInv'
    OBVIOUS
  <2> USE DEF CurlInv
  <2>1. CASE UNCHANGED curlVars
    BY <2>1 DEF curlVars, chunk, msg, BlockHoldsBody, OkMeansComplete, ReturnsBlock,
       OwnsWhatItUses, MayOwn, OwnsBlock, HasReleased, SomeStep, Starting, Finishing,
       Returned
  <2>2. CASE Perform \/ PerformNull
    <3>0. pc = "perform" /\ pc' \in {"perform", "getinfo"}
      BY <2>2 DEF Perform, PerformNull, PerformDone, Write, OutOfMemory, Goto
    <3>1. BlockHoldsBody'
      <4>1. ASSUME NEW k \in 1 .. Len(response) - received, Write(k) PROVE BlockHoldsBody'
        <5>1. /\ Len(response) \in Nat /\ received \in 0 .. Len(response)
              /\ k \in 0 .. Len(response) - received
          BY LenProperties DEF BlockHoldsBody
        <5>2. content' = SubSeq(response, 1, received + k)
          BY <4>1, <5>1, PrefixGrows DEF BlockHoldsBody, Write
        <5> QED BY <3>0, <4>1, <5>1, <5>2 DEF BlockHoldsBody, Write
      <4>2. CASE /\ UNCHANGED <<received, room, size, content, response>>
                 /\ memory' = FALSE \/ UNCHANGED memory
        BY <3>0, <4>2 DEF BlockHoldsBody
      <4> QED
        BY <2>2, <4>1, <4>2 DEF Perform, PerformNull, PerformDone, OutOfMemory, chunk,
           BlockHoldsBody
    <3>2. OkMeansComplete' /\ ReturnsBlock' /\ OwnsWhatItUses' /\ SomeStep'
      BY <2>2 DEF Perform, PerformNull, PerformDone, Write, OutOfMemory, Goto, chunk,
         msg,
         OkMeansComplete, ReturnsBlock, OwnsWhatItUses, MayOwn, OwnsBlock, HasReleased,
         SomeStep, Starting, Finishing, Returned, BlockHoldsBody
    <3> QED BY <3>1, <3>2
  <2>3. CASE Malloc
    <3>1. BlockHoldsBody'
      BY <2>3 DEF Malloc, Goto, Own, msg, BlockHoldsBody
    <3>2. OkMeansComplete'
      BY <2>3 DEF Malloc, Goto, Own, msg, OkMeansComplete, Starting
    <3>3. ReturnsBlock'
      BY <2>3 DEF Malloc, Goto, Own, msg, ReturnsBlock, OkMeansComplete, Starting
    <3>4. OwnsWhatItUses'
      <4>1. MayOwn'
        BY <2>3 DEF Malloc, Goto, Own, msg, OwnsWhatItUses, MayOwn
      <4>2. OwnsBlock'
        BY <2>3 DEF Malloc, Goto, Own, msg, OwnsWhatItUses, OwnsBlock, Returned
      <4>3. HasReleased'
        BY <2>3 DEF Malloc, Goto, Own, msg, OwnsWhatItUses, HasReleased
      <4> QED BY <4>1, <4>2, <4>3 DEF OwnsWhatItUses
    <3>5. SomeStep'
      BY <2>3 DEF Malloc, Goto, Own, msg, SomeStep, Starting, Finishing
    <3> QED BY <3>1, <3>2, <3>3, <3>4, <3>5
  <2>4. CASE Handle \/ Setopt \/ GetCookies \/ BadAlloc
    <3>1. BlockHoldsBody'
      BY <2>4 DEF Handle, Setopt, GetCookies, BadAlloc, Goto, Own, chunk, msg,
         BlockHoldsBody
    <3>2. OkMeansComplete'
      BY <2>4 DEF Handle, Setopt, GetCookies, BadAlloc, Goto, Own, chunk, msg,
         OkMeansComplete, Starting
    <3>3. ReturnsBlock'
      BY <2>4 DEF Handle, Setopt, GetCookies, BadAlloc, Goto, Own, chunk, msg,
         ReturnsBlock, OkMeansComplete, Starting
    <3>4. OwnsWhatItUses'
      <4>1. MayOwn'
        BY <2>4 DEF Handle, Setopt, GetCookies, BadAlloc, Goto, Own, chunk, msg,
         OwnsWhatItUses, MayOwn
      <4>2. OwnsBlock'
        BY <2>4 DEF Handle, Setopt, GetCookies, BadAlloc, Goto, Own, chunk, msg,
         OwnsWhatItUses, OwnsBlock, Returned
      <4>3. HasReleased'
        BY <2>4 DEF Handle, Setopt, GetCookies, BadAlloc, Goto, Own, chunk, msg,
         OwnsWhatItUses, HasReleased
      <4> QED BY <4>1, <4>2, <4>3 DEF OwnsWhatItUses
    <3>5. SomeStep'
      BY <2>4 DEF Handle, Setopt, GetCookies, BadAlloc, Goto, Own, chunk, msg, SomeStep,
         Starting, Finishing
    <3> QED BY <3>1, <3>2, <3>3, <3>4, <3>5
  <2>5. CASE AssignResp
    <3>1. BlockHoldsBody'
      BY <2>5 DEF AssignResp, Goto, chunk, BlockHoldsBody
    <3>2. OkMeansComplete'
      BY <2>5 DEF AssignResp, Goto, chunk, OkMeansComplete, Starting
    <3>3. ReturnsBlock'
      BY <2>5 DEF AssignResp, Goto, chunk, ReturnsBlock, OkMeansComplete, Starting
    <3>4. OwnsWhatItUses'
      <4>1. MayOwn'
        BY <2>5 DEF AssignResp, Goto, chunk, OwnsWhatItUses, MayOwn
      <4>2. OwnsBlock'
        BY <2>5 DEF AssignResp, Goto, chunk, OwnsWhatItUses, OwnsBlock, Returned
      <4>3. HasReleased'
        BY <2>5 DEF AssignResp, Goto, chunk, OwnsWhatItUses, HasReleased
      <4> QED BY <4>1, <4>2, <4>3 DEF OwnsWhatItUses
    <3>5. SomeStep'
      BY <2>5 DEF AssignResp, Goto, chunk, SomeStep, Starting, Finishing
    <3> QED BY <3>1, <3>2, <3>3, <3>4, <3>5
  <2>6. CASE Cleanup \/ Free
    <3>1. BlockHoldsBody'
      BY <2>6 DEF Cleanup, Free, Goto, Release, chunk, msg, BlockHoldsBody
    <3>2. OkMeansComplete'
      BY <2>6 DEF Cleanup, Free, Goto, Release, chunk, msg, OkMeansComplete, Starting
    <3>3. ReturnsBlock'
      BY <2>6 DEF Cleanup, Free, Goto, Release, chunk, msg, ReturnsBlock,
         OkMeansComplete, Starting
    <3>4. OwnsWhatItUses'
      <4>1. MayOwn'
        BY <2>6 DEF Cleanup, Free, Goto, Release, chunk, msg, OwnsWhatItUses, MayOwn
      <4>2. OwnsBlock'
        BY <2>6 DEF Cleanup, Free, Goto, Release, chunk, msg, OwnsWhatItUses,
         OwnsBlock, Returned
      <4>3. HasReleased'
        BY <2>6 DEF Cleanup, Free, Goto, Release, chunk, msg, OwnsWhatItUses,
         HasReleased
      <4> QED BY <4>1, <4>2, <4>3 DEF OwnsWhatItUses
    <3>5. SomeStep'
      BY <2>6 DEF Cleanup, Free, Goto, Release, chunk, msg, SomeStep, Starting,
         Finishing
    <3> QED BY <3>1, <3>2, <3>3, <3>4, <3>5
  <2> QED
    BY <2>1, <2>2, <2>3, <2>4, <2>5, <2>6 DEF CurlSend
<1> QED
  BY <1>1, <1>2, PTL DEF CurlSpec

(* The callback of CurlSend never writes beyond its block, and no block is *)
(* used that is not there (WriteMemoryCallback).                           *)
THEOREM CurlWritesWithinBlock == CurlSpec => []WithinBlock
<1>1. CurlInv => WithinBlock
  <2> SUFFICES ASSUME CurlInv, memory, ~Returned PROVE WithinBlock
    BY DEF WithinBlock
  <2>1. Len(content) = received
    BY PrefixGrows, LenProperties DEF CurlInv, BlockHoldsBody
  <2> QED
    BY <2>1 DEF WithinBlock, CurlInv, BlockHoldsBody, OwnsWhatItUses, OwnsBlock
<1> QED
  BY <1>1, CurlInvHolds, PTL

(* What CurlSend returns after CURLE_OK is the body as far as its first    *)
(* zero, whatever the order of pieces; after anything else, a beginning.   *)
THEOREM CurlReturnsBody == CurlSpec => []ResponseIsBody
<1>1. CurlInv => ResponseIsBody
  <2> SUFFICES ASSUME CurlInv, Returned PROVE ResponseIsBody
    BY DEF ResponseIsBody
  <2>1. /\ response \in Seq(Characters) /\ Len(response) \in Nat
        /\ received \in 0 .. Len(response)
        /\ content = SubSeq(response, 1, received)
    BY LenProperties DEF CurlInv, BlockHoldsBody
  <2>2. strResp = IF memory THEN CString(content) ELSE <<>>
    BY DEF CurlInv, ReturnsBlock, Returned
  <2>3. ASSUME res = "CURLE_OK" PROVE strResp = CString(response)
    <3>1. content = response
      BY <2>1, <2>3, SubSeqFull DEF CurlInv, OkMeansComplete
    <3> QED BY <2>2, <2>3, <3>1 DEF CurlInv, OkMeansComplete
  <2>4. IsPrefix(strResp, response)
    <3>1. content \in Seq(Characters) /\ Len(content) = received
      BY <2>1, SubSeqProperties
    <3>2. CASE memory
      <4>1. PICK m \in 0 .. received : CString(content) = SubSeq(content, 1, m)
        BY <3>1, CStringIsPrefix
      <4>2. strResp = SubSeq(response, 1, m)
        <5>1. SubSeq(content, 1, m) = SubSeq(response, 1, m)
          BY <2>1, <3>1, SubSeqOfSubSeq
        <5> QED BY <2>2, <3>2, <4>1, <5>1
      <4> QED BY <2>1, <4>2, PrefixIsPrefix
    <3>3. CASE ~memory
      BY <2>1, <2>2, <3>3, SubSeqEmpty DEF IsPrefix
    <3> QED BY <3>2, <3>3
  <2>5. res # "CURLE_OK" => cookie = 0
    BY DEF CurlInv, ReturnsBlock
  <2> QED BY <2>3, <2>4, <2>5 DEF ResponseIsBody
<1> QED
  BY <1>1, CurlInvHolds, PTL

(* A CurlSend that returns has closed its handle and freed its buffer.     *)
THEOREM CurlReleasesHandle == CurlSpec => []HandleReleased
<1>1. CurlInv => HandleReleased
  BY DEF CurlInv, OwnsWhatItUses, MayOwn, HasReleased, HandleReleased, Returned
<1> QED
  BY <1>1, CurlInvHolds, PTL

----------------------------------------------------------------------------
(***************************************************************************)
(* HexStringToHexBytes and HexBytesToHexString.                            *)
(***************************************************************************)

\* A remainder that is no remainder.
LEMMA SmallRemainder ==
  ASSUME NEW m \in Nat, NEW x \in 0 .. m
  PROVE  x % (m + 1) = x
OBVIOUS

\* Twice a length does not wrap around if an int counts it.
LEMMA WrappedCounts ==
  ASSUME NEW n \in Int, IntCounts(n)
  PROVE  Wrapped(2 * n) = 2 * n
<1>1. MaxInt \in Nat
  BY HexUtilAssumption
<1>2. 2 * n + MaxInt + 1 \in 0 .. 2 * MaxInt + 1
  BY <1>1 DEF IntCounts
<1>3. (2 * n + MaxInt + 1) % ((2 * MaxInt + 1) + 1) = 2 * n + MaxInt + 1
  BY <1>1, <1>2, SmallRemainder
<1>4. (2 * MaxInt + 1) + 1 = 2 * (MaxInt + 1)
  BY <1>1
<1> QED BY <1>1, <1>3, <1>4 DEF Wrapped

\* What the code computes of a digit is the place of the digit.
LEMMA ValueOfDigit ==
  ASSUME NEW c \in HexDigits
  PROVE  NData(c) \in 0 .. 15 /\ Value(c) = NData(c)
<1>1. NData(c) \in 0 .. 15
  BY DEF NData, HexDigits, Digits, Upper, Lower
<1> DEFINE T(d) ==
      \/ c = <<48, 49, 50, 51, 52, 53, 54, 55, 56, 57, 65, 66, 67, 68, 69, 70>>[d + 1]
      \/ c = <<48, 49, 50, 51, 52, 53, 54, 55, 56, 57, 97, 98, 99, 100, 101, 102>>[d + 1]
<1>2. \A d \in 0 .. 15 : T(d) <=> d = NData(c)
  BY DEF NData, HexDigits, Digits, Upper, Lower
<1> QED
  BY <1>1, <1>2 DEF Value

\* A byte is what its two digits stand for.
LEMMA FormatByte ==
  ASSUME NEW byte \in Characters
  PROVE  /\ Format(byte) \in Seq(Characters)
         /\ Len(Format(byte)) = 2
         /\ 16 * Value(Format(byte)[1]) + Value(Format(byte)[2]) = byte
         /\ Format(byte)[1] \in HexDigits /\ Format(byte)[2] \in HexDigits
<1> DEFINE digit(d) == IF d < 10 THEN 48 + d ELSE 87 + d
<1>1. ASSUME NEW d \in 0 .. 15
      PROVE  digit(d) \in Characters /\ Value(digit(d)) = d /\ digit(d) \in HexDigits
  <2>1. digit(d) \in HexDigits /\ NData(digit(d)) = d
    BY DEF NData, HexDigits, Digits, Upper, Lower
  <2>2. digit(d) \in Characters
    BY DEF Characters
  <2> HIDE DEF digit
  <2> QED BY <2>1, <2>2, ValueOfDigit
<1>2. byte \div 16 \in 0 .. 15 /\ byte % 16 \in 0 .. 15
  BY DEF Characters
<1>3. 16 * (byte \div 16) + (byte % 16) = byte
  BY DEF Characters
<1>4. Format(byte) = <<digit(byte \div 16), digit(byte % 16)>>
  BY DEF Format
<1> HIDE DEF digit
<1> QED
  BY <1>1, <1>2, <1>3, <1>4

\* The arguments of a call, and the buffer.
HexArguments ==
  /\ input \in Seq(Characters)
  /\ nInLen \in Int
  /\ nInLen <= Len(input)
  /\ capacity \in Nat
  /\ out \in Seq(Characters)
  /\ index \in Nat

\* What runs, runs for the first time.
HexCalls ==
  /\ call \in {"none", "HexStringToHexBytes", "HexBytesToHexString"}
  /\ call # "none" => ret = NoResult /\ ~null /\ nOutLen = capacity

\* The bytes so far are those of the pairs so far, ...
BytesSoFar ==
  call = "HexStringToHexBytes" =>
    /\ ~Odd(nInLen)
    /\ Half(nInLen) <= capacity
    /\ index = 2 * Len(out)
    /\ index <= nInLen \/ index = 0
    /\ \A k \in 1 .. index : input[k] \in HexDigits
    /\ \A k \in 1 .. Len(out) : out[k] = ByteOf(input, k)

\* ... and the digits so far stand for the bytes so far, with a zero behind.
TextSoFar ==
  call = "HexBytesToHexString" =>
    /\ Wrapped(2 * nInLen) <= capacity
    /\ index <= nInLen \/ index = 0
    /\ Len(out) = IF index = 0 THEN 0 ELSE 2 * index + 1
    /\ \A k \in 1 .. index : ByteOf(out, k) = input[k]
    /\ \A k \in 1 .. 2 * index : out[k] \in HexDigits

(* What HexBytesToHexString wrote, HexStringToHexBytes takes, and converts *)
(* it back: the text is pairs of digits, of the bytes that were given.     *)
ReadsBack ==
  ret.ok /\ ret.of = "HexBytesToHexString" /\ IntCounts(nInLen) =>
    LET text == SubSeq(out, 1, nOutLen)
    IN  /\ ~Odd(Len(text))
        /\ \A k \in 1 .. Len(text) : text[k] \in HexDigits
        /\ [k \in 1 .. Half(Len(text)) |-> ByteOf(text, k)] = SubSeq(input, 1, nInLen)

HexInv ==
  /\ HexArguments /\ HexCalls /\ BytesSoFar /\ TextSoFar
  /\ WritesWithin /\ ConvertsExactly /\ LengthIsOfResult /\ ReadsBack

\* Nothing holds of a result while there is none.
LEMMA NothingReturned ==
  ASSUME ret = NoResult, call = "none"
  PROVE  WritesWithin /\ ConvertsExactly /\ LengthIsOfResult /\ ReadsBack
BY DEF NoResult, WritesWithin, ConvertsExactly, LengthIsOfResult, ReadsBack

LEMMA HexInvInit == HexInit => HexInv
<1> SUFFICES ASSUME HexInit PROVE HexInv
  OBVIOUS
<1>1. HexArguments /\ HexCalls /\ BytesSoFar /\ TextSoFar
  BY DEF HexInit, HexArguments, HexCalls, BytesSoFar, TextSoFar
<1> QED
  BY <1>1, NothingReturned DEF HexInit, HexInv

\* A text is refused for a reason, or all is as it must be to convert it.
LEMMA BeginToBytesKeeps == HexInv /\ BeginToBytes => HexInv'
<1> SUFFICES ASSUME HexInv, BeginToBytes PROVE HexInv'
  OBVIOUS
<1>1. PICK text \in Texts, room_ \in Capacities, length \in Lengths :
        /\ length <= Len(text)
        /\ Begin("HexStringToHexBytes", text, length, room_, RefusesText(length, room_))
  BY DEF BeginToBytes
<1>2. text \in Seq(Characters) /\ room_ \in Nat /\ length \in Int
  BY HexUtilAssumption DEF Characters
<1>3. /\ input' = text /\ nInLen' = length /\ capacity' = room_ /\ nOutLen' = room_
      /\ index' = 0 /\ out' = <<>>
  BY <1>1 DEF Begin
<1>4. HexArguments'
  BY <1>1, <1>2, <1>3 DEF HexArguments
<1>5. CASE RefusesText(length, room_)
  <2>1. call' = "none" /\ ret' = [of |-> "HexStringToHexBytes", ok |-> FALSE]
    BY <1>1, <1>5 DEF Begin
  <2>2. HexCalls' /\ BytesSoFar' /\ TextSoFar'
    BY <2>1 DEF HexCalls, BytesSoFar, TextSoFar
  <2>3. WritesWithin' /\ LengthIsOfResult' /\ ReadsBack'
    BY <1>2, <1>3, <2>1 DEF WritesWithin, LengthIsOfResult, ReadsBack
  <2>4. ConvertsExactly'
    <3>1. CASE null'
      BY <2>1, <3>1 DEF ConvertsExactly
    <3>2. CASE Odd(length)
      <4>1. length >= 0 => length # 2 * (length \div 2)
        BY <1>2, <3>2 DEF Odd
      <4> QED BY <1>3, <2>1, <4>1 DEF ConvertsExactly
    <3>3. CASE Half(length) > room_
      <4>1. length >= 0 => ~(length \div 2 <= room_)
        BY <1>2, <3>3 DEF Half
      <4> QED BY <1>3, <2>1, <4>1 DEF ConvertsExactly
    <3> QED BY <1>5, <3>1, <3>2, <3>3 DEF RefusesText
  <2> QED BY <1>4, <2>2, <2>3, <2>4 DEF HexInv
<1>6. CASE ~RefusesText(length, room_)
  <2>1. call' = "HexStringToHexBytes" /\ ret' = NoResult
    BY <1>1, <1>6 DEF Begin
  <2>2. ~null' /\ ~Odd(length) /\ Half(length) <= room_
    BY <1>2, <1>6 DEF RefusesText, Half
  <2>3. HexCalls' /\ BytesSoFar' /\ TextSoFar'
    BY <1>2, <1>3, <2>1, <2>2 DEF HexCalls, BytesSoFar, TextSoFar, Odd, Half
  <2>4. WritesWithin' /\ LengthIsOfResult' /\ ConvertsExactly' /\ ReadsBack'
    BY <1>2, <1>3, <2>1 DEF WritesWithin, LengthIsOfResult, ConvertsExactly, ReadsBack,
       NoResult
  <2> QED BY <1>4, <2>3, <2>4 DEF HexInv
<1> QED BY <1>5, <1>6

LEMMA BeginToTextKeeps == HexInv /\ BeginToText => HexInv'
<1> SUFFICES ASSUME HexInv, BeginToText PROVE HexInv'
  OBVIOUS
<1>1. PICK block \in Blocks, room_ \in Capacities, length \in Lengths :
        /\ length <= Len(block)
        /\ Begin("HexBytesToHexString", block, length, room_, RefusesBytes(length, room_))
  BY DEF BeginToText
<1>2. block \in Seq(Characters) /\ room_ \in Nat /\ length \in Int
  BY HexUtilAssumption DEF Characters
<1>3. /\ input' = block /\ nInLen' = length /\ capacity' = room_ /\ nOutLen' = room_
      /\ index' = 0 /\ out' = <<>>
  BY <1>1 DEF Begin
<1>4. HexArguments'
  BY <1>1, <1>2, <1>3 DEF HexArguments
<1>5. IntCounts(length) => Wrapped(2 * length) = 2 * length
  BY <1>2, WrappedCounts
<1>6. CASE RefusesBytes(length, room_)
  <2>1. call' = "none" /\ ret' = [of |-> "HexBytesToHexString", ok |-> FALSE]
    BY <1>1, <1>6 DEF Begin
  <2>2. HexCalls' /\ BytesSoFar' /\ TextSoFar'
    BY <2>1 DEF HexCalls, BytesSoFar, TextSoFar
  <2>3. WritesWithin' /\ LengthIsOfResult' /\ ReadsBack'
    BY <1>2, <1>3, <2>1 DEF WritesWithin, LengthIsOfResult, ReadsBack
  <2>4. ConvertsExactly'
    <3>1. CASE null'
      BY <2>1, <3>1 DEF ConvertsExactly
    <3>2. CASE room_ < Wrapped(2 * length)
      <4>1. IntCounts(length) => ~(2 * length <= room_)
        BY <1>2, <1>5, <3>2
      <4> QED BY <1>3, <2>1, <4>1 DEF ConvertsExactly, IntCounts
    <3> QED BY <1>6, <3>1, <3>2 DEF RefusesBytes
  <2> QED BY <1>4, <2>2, <2>3, <2>4 DEF HexInv
<1>7. CASE ~RefusesBytes(length, room_)
  <2>1. call' = "HexBytesToHexString" /\ ret' = NoResult
    BY <1>1, <1>7 DEF Begin
  <2>2. ~null' /\ Wrapped(2 * length) <= room_
    <3>1. Wrapped(2 * length) \in Int
      BY <1>2, HexUtilAssumption DEF Wrapped
    <3> QED BY <1>2, <1>7, <3>1 DEF RefusesBytes
  <2>3. HexCalls' /\ BytesSoFar' /\ TextSoFar'
    BY <1>2, <1>3, <2>1, <2>2 DEF HexCalls, BytesSoFar, TextSoFar
  <2>4. WritesWithin' /\ LengthIsOfResult' /\ ConvertsExactly' /\ ReadsBack'
    BY <1>2, <1>3, <2>1 DEF WritesWithin, LengthIsOfResult, ConvertsExactly, ReadsBack,
       NoResult
  <2> QED BY <1>4, <2>3, <2>4 DEF HexInv
<1> QED BY <1>6, <1>7

\* The byte of two digits.
LEMMA TwoDigits ==
  ASSUME NEW a \in 0 .. 15, NEW b \in 0 .. 15
  PROVE  (a * 16 + b) % 256 = 16 * a + b /\ (a * 16 + b) % 256 \in Characters
BY DEF Characters

\* A pair of digits gives one more byte; anything else ends the call, with a
\* character at fault.
LEMMA ConvertPairKeeps == HexInv /\ ConvertPair => HexInv'
<1> SUFFICES ASSUME HexInv, ConvertPair PROVE HexInv'
  OBVIOUS
<1> DEFINE high == input[index + 1]
           low == input[index + 2]
           k == Len(out) + 1
<1>1. /\ HexArguments /\ HexCalls /\ BytesSoFar /\ call = "HexStringToHexBytes"
      /\ index < nInLen
  BY DEF HexInv, ConvertPair
<1>2. /\ Len(out) \in Nat /\ index = 2 * Len(out) /\ index + 2 <= nInLen
      /\ Len(input) \in Nat /\ nInLen <= Len(input) /\ nInLen \in Int
  BY <1>1, LenProperties DEF HexArguments, BytesSoFar, Odd
<1>3. CASE /\ {high, low} \subseteq HexDigits
           /\ out' = Append(out, (NData(high) * 16 + NData(low)) % 256)
           /\ index' = index + 2
           /\ UNCHANGED <<call, input, nInLen, capacity, nOutLen, null, ret>>
  <2>1. (NData(high) * 16 + NData(low)) % 256 = ByteOf(input, k)
    <3>1. /\ NData(high) \in 0 .. 15 /\ Value(high) = NData(high)
          /\ NData(low) \in 0 .. 15 /\ Value(low) = NData(low)
      BY <1>3, ValueOfDigit
    <3>2. 2 * k - 1 = index + 1 /\ 2 * k = index + 2
      BY <1>2
    <3>3. ByteOf(input, k) = 16 * NData(high) + NData(low)
      BY <3>1, <3>2 DEF ByteOf
    <3>4. (NData(high) * 16 + NData(low)) % 256 = 16 * NData(high) + NData(low)
      BY <3>1, TwoDigits
    <3> QED BY <3>3, <3>4
  <2>2. ByteOf(input, k) \in Characters
    <3>1. NData(high) \in 0 .. 15 /\ NData(low) \in 0 .. 15
      BY <1>3, ValueOfDigit
    <3> QED BY <2>1, <3>1, TwoDigits
  <2>3. out' = Append(out, ByteOf(input, k))
    BY <1>3, <2>1
  <2>4. /\ out' \in Seq(Characters) /\ Len(out') = k
        /\ \A i \in 1 .. Len(out) : out'[i] = out[i]
        /\ out'[k] = ByteOf(input, k)
    BY <1>1, <2>2, <2>3, AppendProperties DEF HexArguments
  <2>5. HexArguments' /\ HexCalls' /\ TextSoFar'
    BY <1>1, <1>3, <2>4 DEF HexArguments, HexCalls, TextSoFar
  <2>6. \A i \in 1 .. Len(out') : out'[i] = ByteOf(input, i)
    BY <1>1, <1>2, <2>4 DEF BytesSoFar
  <2>7. \A i \in 1 .. index' : input[i] \in HexDigits
    BY <1>1, <1>2, <1>3 DEF BytesSoFar
  <2>8. BytesSoFar'
    BY <1>1, <1>2, <1>3, <2>4, <2>6, <2>7 DEF BytesSoFar
  <2>9. Len(out') <= capacity
    BY <1>1, <1>2, <2>4 DEF BytesSoFar, Half, HexArguments, Odd
  <2>10. WritesWithin' /\ ConvertsExactly' /\ LengthIsOfResult' /\ ReadsBack'
    BY <1>1, <1>3, <2>9 DEF WritesWithin, ConvertsExactly, LengthIsOfResult, ReadsBack,
       HexCalls, NoResult
  <2> QED BY <2>5, <2>8, <2>10 DEF HexInv
<1>4. CASE ~({high, low} \subseteq HexDigits) /\ Fail
  <2>1. /\ call' = "none" /\ ret' = [of |-> "HexStringToHexBytes", ok |-> FALSE]
        /\ UNCHANGED <<input, nInLen, capacity, index, out, null, nOutLen>>
    BY <1>1, <1>4 DEF Fail, buffers
  <2>2. PICK i \in 1 .. nInLen : input[i] \notin HexDigits
    <3>1. index + 1 \in 1 .. nInLen /\ index + 2 \in 1 .. nInLen
      BY <1>2
    <3> QED BY <1>4, <3>1
  <2>3. HexArguments' /\ HexCalls' /\ BytesSoFar' /\ TextSoFar'
    BY <1>1, <2>1 DEF HexArguments, HexCalls, BytesSoFar, TextSoFar
  <2>4. WritesWithin'
    BY <1>1, <2>1 DEF HexInv, WritesWithin
  <2>5. ConvertsExactly'
    BY <2>1, <2>2 DEF ConvertsExactly
  <2>6. LengthIsOfResult' /\ ReadsBack'
    BY <1>1, <2>1 DEF LengthIsOfResult, ReadsBack, HexCalls
  <2> QED BY <2>3, <2>4, <2>5, <2>6 DEF HexInv
<1> QED BY <1>3, <1>4 DEF ConvertPair

\* All pairs are converted.
LEMMA ToBytesDoneKeeps == HexInv /\ ToBytesDone => HexInv'
<1> SUFFICES ASSUME HexInv, ToBytesDone PROVE HexInv'
  OBVIOUS
<1>1. /\ HexArguments /\ HexCalls /\ BytesSoFar /\ call = "HexStringToHexBytes"
      /\ index >= nInLen
  BY DEF HexInv, ToBytesDone
<1>2. /\ call' = "none" /\ ret' = [of |-> "HexStringToHexBytes", ok |-> TRUE]
      /\ nOutLen' = Len(out)
      /\ UNCHANGED <<input, nInLen, capacity, index, out, null>>
  BY <1>1 DEF ToBytesDone, Succeed, buffers
<1>3. HexArguments' /\ HexCalls' /\ BytesSoFar' /\ TextSoFar'
  BY <1>1, <1>2 DEF HexArguments, HexCalls, BytesSoFar, TextSoFar
<1>4. WritesWithin'
  BY <1>1, <1>2 DEF HexInv, WritesWithin
<1>5. LengthIsOfResult' /\ ReadsBack'
  BY <1>2 DEF LengthIsOfResult, ReadsBack
<1>6. ASSUME nInLen >= 0
      PROVE  /\ index = nInLen /\ Len(out) = nInLen \div 2 /\ nInLen = 2 * (nInLen \div 2)
             /\ nInLen \div 2 <= capacity
  BY <1>1, <1>6, LenProperties DEF HexArguments, BytesSoFar, Half, Odd
<1>7. ASSUME nInLen >= 0
      PROVE  /\ \A k \in 1 .. nInLen : input[k] \in HexDigits
             /\ out = [k \in 1 .. nInLen \div 2 |-> ByteOf(input, k)]
  <2>1. out = [k \in 1 .. Len(out) |-> out[k]]
    BY <1>1, LenProperties DEF HexArguments
  <2> QED BY <1>1, <1>6, <1>7, <2>1 DEF BytesSoFar
<1>8. ConvertsExactly'
  <2>1. ~null
    BY <1>1 DEF HexCalls
  <2> QED BY <1>2, <1>6, <1>7, <2>1 DEF ConvertsExactly
<1> QED BY <1>3, <1>4, <1>5, <1>8 DEF HexInv

\* The digits of one more byte, and the zero after them.
LEMMA ConvertByteKeeps == HexInv /\ ConvertByte => HexInv'
<1> SUFFICES ASSUME HexInv, ConvertByte PROVE HexInv'
  OBVIOUS
<1> DEFINE byte == input[index + 1]
           front == SubSeq(out, 1, 2 * index)
<1>1. /\ HexArguments /\ HexCalls /\ TextSoFar /\ call = "HexBytesToHexString"
      /\ index < nInLen
      /\ out' = front \o Format(byte) \o <<0>> /\ index' = index + 1
      /\ UNCHANGED <<call, input, nInLen, capacity, nOutLen, null, ret>>
  BY DEF HexInv, ConvertByte
<1>2. /\ Len(out) \in Nat /\ Len(input) \in Nat /\ nInLen \in Int /\ nInLen <= Len(input)
      /\ index \in Nat /\ 2 * index <= Len(out) /\ byte \in Characters
  BY <1>1, LenProperties, ElementOfSeq DEF HexArguments, TextSoFar
<1>3. /\ front \in Seq(Characters) /\ Len(front) = 2 * index
      /\ \A i \in 1 .. 2 * index : front[i] = out[i]
  BY <1>1, <1>2, SubSeqProperties DEF HexArguments
<1>4. /\ Format(byte) \in Seq(Characters) /\ Len(Format(byte)) = 2
      /\ 16 * Value(Format(byte)[1]) + Value(Format(byte)[2]) = byte
      /\ Format(byte)[1] \in HexDigits /\ Format(byte)[2] \in HexDigits
  BY <1>2, FormatByte
<1>5. /\ out' \in Seq(Characters) /\ Len(out') = 2 * index + 3
      /\ \A i \in 1 .. 2 * index : out'[i] = out[i]
      /\ out'[2 * index + 1] = Format(byte)[1] /\ out'[2 * index + 2] = Format(byte)[2]
  <2> DEFINE line == front \o Format(byte)
  <2> HIDE DEF byte, front
  <2>1. /\ line \in Seq(Characters) /\ Len(line) = 2 * index + 2
        /\ \A i \in 1 .. 2 * index : line[i] = out[i]
        /\ line[2 * index + 1] = Format(byte)[1] /\ line[2 * index + 2] = Format(byte)[2]
    <3>1. /\ line \in Seq(Characters) /\ Len(line) = 2 * index + 2
          /\ \A i \in 1 .. 2 * index + 2 :
               line[i] = IF i <= 2 * index THEN front[i] ELSE Format(byte)[i - 2 * index]
      <4>1. /\ line \in Seq(Characters) /\ Len(line) = Len(front) + Len(Format(byte))
            /\ \A i \in 1 .. Len(front) + Len(Format(byte)) :
                 line[i] = IF i <= Len(front) THEN front[i] ELSE Format(byte)[i - Len(front)]
        BY <1>3, <1>4, ConcatProperties
      <4> HIDE DEF line
      <4> QED BY <1>3, <1>4, <4>1
    <3>2. /\ 2 * index + 1 \in 1 .. 2 * index + 2 /\ 2 * index + 2 \in 1 .. 2 * index + 2
          /\ \A i \in 1 .. 2 * index : i \in 1 .. 2 * index + 2 /\ i <= 2 * index
          /\ (2 * index + 1) - 2 * index = 1 /\ (2 * index + 2) - 2 * index = 2
          /\ ~(2 * index + 1 <= 2 * index) /\ ~(2 * index + 2 <= 2 * index)
      BY <1>2
    <3> HIDE DEF line
    <3> QED BY <1>3, <3>1, <3>2
  <2>2. <<0>> \in Seq(Characters) /\ Len(<<0>>) = 1
    BY DEF Characters
  <2> HIDE DEF line
  <2>3. out' = line \o <<0>>
    BY <1>1 DEF line, front, byte
  <2>4. /\ out' \in Seq(Characters) /\ Len(out') = 2 * index + 3
        /\ \A i \in 1 .. 2 * index + 2 : out'[i] = line[i]
    <3>1. /\ out' \in Seq(Characters) /\ Len(out') = Len(line) + Len(<<0>>)
          /\ \A i \in 1 .. Len(line) + Len(<<0>>) :
               out'[i] = IF i <= Len(line) THEN line[i] ELSE <<0>>[i - Len(line)]
      BY <2>1, <2>2, <2>3, ConcatProperties
    <3>2. Len(line) = 2 * index + 2 /\ Len(<<0>>) = 1
      BY <2>1, <2>2
    <3>3. \A i \in 1 .. 2 * index + 2 : i \in 1 .. (2 * index + 2) + 1 /\ i <= 2 * index + 2
      BY <1>2
    <3> QED BY <1>2, <3>1, <3>2, <3>3
  <2>5. /\ 2 * index + 1 \in 1 .. 2 * index + 2 /\ 2 * index + 2 \in 1 .. 2 * index + 2
        /\ \A i \in 1 .. 2 * index : i \in 1 .. 2 * index + 2
    BY <1>2
  <2> QED BY <2>1, <2>4, <2>5
<1>6. \A k \in 1 .. index' : ByteOf(out', k) = input[k]
  <2>1. ASSUME NEW k \in 1 .. index PROVE ByteOf(out', k) = input[k]
    <3>1. ByteOf(out, k) = input[k]
      BY <1>1, <2>1 DEF TextSoFar
    <3>2. 2 * k - 1 \in 1 .. 2 * index /\ 2 * k \in 1 .. 2 * index
      BY <1>2
    <3> QED BY <1>5, <3>1, <3>2 DEF ByteOf
  <2>2. ByteOf(out', index + 1) = byte
    <3>1. 2 * (index + 1) - 1 = 2 * index + 1 /\ 2 * (index + 1) = 2 * index + 2
      BY <1>2
    <3> QED BY <1>4, <1>5, <3>1 DEF ByteOf
  <2> QED BY <1>1, <1>2, <2>1, <2>2
<1>7. HexArguments' /\ HexCalls' /\ BytesSoFar'
  BY <1>1, <1>2, <1>5 DEF HexArguments, HexCalls, BytesSoFar
<1>8. TextSoFar'
  <2>1. ASSUME NEW k \in 1 .. 2 * index' PROVE out'[k] \in HexDigits
    <3>1. k \in 1 .. 2 * index \/ k = 2 * index + 1 \/ k = 2 * index + 2
      BY <1>1, <1>2
    <3>2. k \in 1 .. 2 * index => out[k] \in HexDigits
      BY <1>1 DEF TextSoFar
    <3> QED BY <1>4, <1>5, <3>1, <3>2
  <2>2. Wrapped(2 * nInLen)' <= capacity'
    <3>1. Wrapped(2 * nInLen) <= capacity
      BY <1>1 DEF TextSoFar
    <3> QED BY <1>1, <3>1 DEF Wrapped
  <2>3. index' <= nInLen' /\ Len(out') = IF index' = 0 THEN 0 ELSE 2 * index' + 1
    <3>1. index + 1 <= nInLen /\ index + 1 # 0 /\ 2 * index + 3 = 2 * (index + 1) + 1
      <4>1. index \in Nat /\ nInLen \in Int /\ index < nInLen
        BY <1>1, <1>2
      <4> QED BY <4>1
    <3>2. index' = index + 1 /\ nInLen' = nInLen /\ Len(out') = 2 * index + 3
      BY <1>1, <1>5
    <3> QED BY <3>1, <3>2
  <2>4. \A k \in 1 .. index' : ByteOf(out', k) = input'[k]
    BY <1>1, <1>6
  <2> QED BY <2>1, <2>2, <2>3, <2>4 DEF TextSoFar, ByteOf
<1>9. WritesWithin'
  <2>1. IntCounts(nInLen) => Wrapped(2 * nInLen) = 2 * nInLen
    BY <1>2, WrappedCounts
  <2>2. IntCounts(nInLen) => 2 * nInLen <= capacity
    BY <1>1, <2>1 DEF TextSoFar
  <2>3. IntCounts(nInLen) => Len(out') <= capacity + 1
    BY <1>1, <1>2, <1>5, <2>2 DEF HexArguments
  <2>4. call' = "HexBytesToHexString" /\ ret'.of = "none" /\ UNCHANGED <<nInLen, capacity>>
    BY <1>1 DEF HexCalls, NoResult
  <2> QED BY <2>3, <2>4 DEF WritesWithin, IntCounts
<1>10. ConvertsExactly' /\ LengthIsOfResult' /\ ReadsBack'
  BY <1>1 DEF ConvertsExactly, LengthIsOfResult, ReadsBack, HexCalls, NoResult
<1> QED BY <1>7, <1>8, <1>9, <1>10 DEF HexInv

\* All bytes are converted.
LEMMA ToTextDoneKeeps == HexInv /\ ToTextDone => HexInv'
<1> SUFFICES ASSUME HexInv, ToTextDone PROVE HexInv'
  OBVIOUS
<1>1. /\ HexArguments /\ HexCalls /\ TextSoFar /\ call = "HexBytesToHexString"
      /\ index >= nInLen
  BY DEF HexInv, ToTextDone
<1>2. /\ call' = "none" /\ ret' = [of |-> "HexBytesToHexString", ok |-> TRUE]
      /\ nOutLen' = Wrapped(2 * nInLen)
      /\ UNCHANGED <<input, nInLen, capacity, index, out, null>>
  BY <1>1 DEF ToTextDone, Succeed, buffers
<1>3. HexArguments' /\ HexCalls' /\ BytesSoFar' /\ TextSoFar'
  BY <1>1, <1>2 DEF HexArguments, HexCalls, BytesSoFar, TextSoFar
<1>4. WritesWithin'
  BY <1>1, <1>2 DEF HexInv, WritesWithin
<1>5. ASSUME IntCounts(nInLen)
      PROVE  /\ index = nInLen /\ nOutLen' = 2 * nInLen /\ 2 * nInLen <= capacity
             /\ Len(out) = IF nInLen = 0 THEN 0 ELSE 2 * nInLen + 1
  <2>1. Wrapped(2 * nInLen) = 2 * nInLen
    BY <1>1, <1>5, WrappedCounts DEF HexArguments
  <2> QED BY <1>1, <1>2, <1>5, <2>1 DEF HexArguments, TextSoFar, IntCounts
<1>6. ConvertsExactly'
  <2>1. ~null
    BY <1>1 DEF HexCalls
  <2>2. IntCounts(nInLen) => \A k \in 1 .. nInLen : ByteOf(out, k) = input[k]
    BY <1>1, <1>5 DEF TextSoFar
  <2> QED BY <1>2, <1>5, <2>1, <2>2 DEF ConvertsExactly, IntCounts
<1>7. LengthIsOfResult'
  <2>1. out = <<>> <=> Len(out) = 0
    BY <1>1, EmptySeq DEF HexArguments
  <2> QED BY <1>1, <1>2, <1>5, <2>1 DEF LengthIsOfResult, IntCounts, HexArguments
<1>8. ReadsBack'
  <2> SUFFICES ASSUME IntCounts(nInLen)
               PROVE  LET text == SubSeq(out, 1, nOutLen')
                      IN  /\ ~Odd(Len(text))
                          /\ \A k \in 1 .. Len(text) : text[k] \in HexDigits
                          /\ [k \in 1 .. Half(Len(text)) |-> ByteOf(text, k)]
                               = SubSeq(input, 1, nInLen)
    BY <1>2 DEF ReadsBack, IntCounts
  <2> DEFINE text == SubSeq(out, 1, 2 * nInLen)
  <2>1. /\ nInLen \in Nat /\ nOutLen' = 2 * nInLen /\ index = nInLen
        /\ Len(out) \in Nat /\ 2 * nInLen <= Len(out)
        /\ nInLen <= Len(input) /\ Len(input) \in Nat
    BY <1>1, <1>5, LenProperties DEF IntCounts, HexArguments
  <2>2. /\ Len(text) = 2 * nInLen /\ \A k \in 1 .. 2 * nInLen : text[k] = out[k]
    BY <1>1, <2>1, SubSeqProperties DEF HexArguments
  <2> HIDE DEF text
  <2>3. ~Odd(Len(text)) /\ Half(Len(text)) = nInLen
    BY <2>1, <2>2 DEF Odd, Half
  <2>4. \A k \in 1 .. Len(text) : text[k] \in HexDigits
    BY <1>1, <2>1, <2>2 DEF TextSoFar
  <2>5. \A k \in 1 .. nInLen : ByteOf(text, k) = input[k]
    <3> SUFFICES ASSUME NEW k \in 1 .. nInLen PROVE ByteOf(text, k) = input[k]
      OBVIOUS
    <3>1. 2 * k - 1 \in 1 .. 2 * nInLen /\ 2 * k \in 1 .. 2 * nInLen
      BY <2>1
    <3>2. ByteOf(out, k) = input[k]
      BY <1>1, <2>1 DEF TextSoFar
    <3> QED BY <2>2, <3>1, <3>2 DEF ByteOf
  <2>6. SubSeq(input, 1, nInLen) = [k \in 1 .. nInLen |-> input[k]]
    <3>1. /\ SubSeq(input, 1, nInLen) \in Seq(Characters)
          /\ Len(SubSeq(input, 1, nInLen)) = nInLen
          /\ \A k \in 1 .. nInLen : SubSeq(input, 1, nInLen)[k] = input[k]
      BY <1>1, <2>1, SubSeqProperties DEF HexArguments
    <3> QED BY <2>1, <3>1
  <2>7. [k \in 1 .. nInLen |-> ByteOf(text, k)] = SubSeq(input, 1, nInLen)
    BY <2>5, <2>6
  <2>8. text = SubSeq(out, 1, nOutLen')
    BY <2>1 DEF text
  <2> QED BY <2>3, <2>4, <2>7, <2>8
<1> QED BY <1>3, <1>4, <1>6, <1>7, <1>8 DEF HexInv

(* What each conversion relies on, and what it has written, for every text *)
(* and every buffer that a caller may give.                                *)
LEMMA HexInvHolds == HexSpec => []HexInv
<1>1. HexInv /\ UNCHANGED hexVars => HexInv'
  <2> SUFFICES ASSUME HexInv, UNCHANGED hexVars PROVE HexInv'
    OBVIOUS
  <2>1. UNCHANGED <<call, input, nInLen, capacity, nOutLen, index, out, null, ret>>
    BY DEF hexVars, buffers
  <2>2. HexArguments' /\ HexCalls' /\ BytesSoFar' /\ TextSoFar'
    BY <2>1 DEF HexInv, HexArguments, HexCalls, BytesSoFar, TextSoFar
  <2>3. WritesWithin' /\ ConvertsExactly' /\ LengthIsOfResult'
    BY <2>1 DEF HexInv, WritesWithin, ConvertsExactly, LengthIsOfResult
  <2>4. ReadsBack'
    BY <2>1 DEF HexInv, ReadsBack
  <2> QED BY <2>2, <2>3, <2>4 DEF HexInv
<1>2. HexInv /\ [HexNext]_hexVars => HexInv'
  BY <1>1, BeginToBytesKeeps, ConvertPairKeeps, ToBytesDoneKeeps, BeginToTextKeeps,
     ConvertByteKeeps, ToTextDoneKeeps DEF HexNext
<1> QED
  BY <1>2, HexInvInit, PTL DEF HexSpec

(* Neither conversion writes beyond the size that its caller said, but for *)
(* the zero after a text, whatever the text and the sizes.                 *)
THEOREM HexWritesWithin == HexSpec => []WritesWithin
<1>1. HexInv => WritesWithin
  BY DEF HexInv
<1> QED
  BY <1>1, HexInvHolds, PTL

(* A text is converted exactly if it is pairs of digits that fit, into the *)
(* bytes that they stand for; bytes are converted into digits that stand   *)
(* for them.                                                               *)
THEOREM HexConvertsExactly == HexSpec => []ConvertsExactly
<1>1. HexInv => ConvertsExactly
  BY DEF HexInv
<1> QED
  BY <1>1, HexInvHolds, PTL

(* The length that a caller reads after a call is that of what it got.     *)
THEOREM HexLengthIsOfResult == HexSpec => []LengthIsOfResult
<1>1. HexInv => LengthIsOfResult
  BY DEF HexInv
<1> QED
  BY <1>1, HexInvHolds, PTL

(* A text that HexBytesToHexString wrote is one that HexStringToHexBytes   *)
(* takes, and turns into the bytes that were given.                        *)
THEOREM HexReadsBack == HexSpec => []ReadsBack
<1>1. HexInv => ReadsBack
  BY DEF HexInv
<1> QED
  BY <1>1, HexInvHolds, PTL

----------------------------------------------------------------------------
(***************************************************************************)
(* enum_directory.                                                         *)
(***************************************************************************)
Frames ==
  [dir : Seq(Entries), must : SUBSET Entries, may : SUBSET Entries, seen : SUBSET Entries]

\* p leads on below the directory that d leads to; the entry it goes on with.
Below(d, p) == Len(d) < Len(p) /\ \A k \in 1 .. Len(d) : p[k] = d[k]
Onward(d, p) == p[Len(d) + 1]

\* The call has a path that it has not yet looked into.
Asking == at \in {"is_regular", "is_directory", "open"}

WalkTypes ==
  /\ present \subseteq Entries
  /\ stable \subseteq present
  /\ at \in {"open", "loop", "is_regular", "is_directory", "returned", "thrown"}
  /\ stack \in Seq(Frames)
  /\ path \in Seq(Entries)
  /\ files \in Seq(Seq(Entries))
  /\ at \in {"loop", "is_regular", "is_directory"} => stack # <<>>
  /\ at = "returned" => stack = <<>>

\* Each call came to where it is through an entry that the calls before have
\* seen.
Leads(frame, p) == Below(frame.dir, p) /\ Onward(frame.dir, p) \in frame.seen
OnTheWay ==
  /\ \A i, j \in DOMAIN stack : i < j => Leads(stack[i], stack[j].dir)
  /\ Asking => \A i \in DOMAIN stack : Leads(stack[i], path)

\* A file that is listed was reached through entries that were seen, and not
\* through the path that is being looked into.
ListedWasSeen ==
  /\ \A n \in DOMAIN files, i \in DOMAIN stack :
       Below(stack[i].dir, files[n]) => Onward(stack[i].dir, files[n]) \in stack[i].seen
  /\ Asking => \A n \in DOMAIN files : files[n] # path /\ ~Below(path, files[n])
  /\ IsInjective(files)

\* A file that must be listed is, or some call has still to be given the entry
\* that leads to it, or has just been given it.
StillToCome(p) ==
  \/ p \in ToSet(files)
  \/ \E i \in DOMAIN stack :
       /\ Below(stack[i].dir, p)
       /\ Onward(stack[i].dir, p) \in stack[i].must \ stack[i].seen
  \/ at = "is_regular" /\ p = path
  \/ Asking /\ Below(path, p)
NothingMissed == \A p \in Paths : MustBeListed(p) => StillToCome(p)

WalkInv == WalkTypes /\ OnTheWay /\ ListedWasSeen /\ NothingMissed

\* A path is a sequence of entries, each in the directory before it.
LEMMA PathFacts ==
  ASSUME NEW p \in Paths
  PROVE  /\ p \in Seq(Entries)
         /\ \A i \in 1 .. Len(p) : p[i] \in Entries /\ p[i].in = Node(SubSeq(p, 1, i - 1))
<1>1. PICK n \in 0 .. MaxDepth : p \in [1 .. n -> Entries]
  BY DEF Paths
<1>2. n \in Nat
  BY <1>1, DirectoryWalkAssumption
<1>3. p \in Seq(Entries) /\ Len(p) = n /\ DOMAIN p = 1 .. n
  BY <1>1, <1>2
<1> QED
  BY <1>1, <1>3 DEF Paths

\* The directory through which a path leads, and how it goes on.
LEMMA BelowFacts ==
  ASSUME NEW p \in Paths, NEW d \in Seq(Entries), Below(d, p)
  PROVE  /\ SubSeq(p, 1, Len(d)) = d
         /\ Len(d) \in 0 .. Len(p) - 1
         /\ Onward(d, p) \in Entries
         /\ Onward(d, p) \in ToSet(p)
         /\ Onward(d, p).in = Node(d)
         /\ ToSet(d) \subseteq ToSet(p)
<1>1. p \in Seq(Entries) /\ Len(p) \in Nat /\ Len(d) \in Nat /\ Len(d) < Len(p)
  BY PathFacts, LenProperties DEF Below
<1>2. SubSeq(p, 1, Len(d)) = d
  <2>1. /\ SubSeq(p, 1, Len(d)) \in Seq(Entries) /\ Len(SubSeq(p, 1, Len(d))) = Len(d)
        /\ \A k \in 1 .. Len(d) : SubSeq(p, 1, Len(d))[k] = p[k]
    BY <1>1, SubSeqProperties
  <2> QED BY <1>1, <2>1, SeqEqual DEF Below
<1>3. Len(d) + 1 \in 1 .. Len(p) /\ (Len(d) + 1) - 1 = Len(d)
  BY <1>1
<1>4. Onward(d, p) \in Entries /\ Onward(d, p).in = Node(d)
  BY <1>2, <1>3, PathFacts DEF Onward
<1>5. Onward(d, p) \in ToSet(p)
  BY <1>1, <1>3, LenProperties DEF Onward, ToSet
<1>6. ToSet(d) \subseteq ToSet(p)
  <2>1. DOMAIN d = 1 .. Len(d) /\ DOMAIN p = 1 .. Len(p) /\ 1 .. Len(d) \subseteq 1 .. Len(p)
    BY <1>1, LenProperties
  <2> QED BY <2>1 DEF ToSet, Below
<1> QED
  BY <1>1, <1>2, <1>4, <1>5, <1>6

\* A path leads through no more links than the longer one does.
LEMMA FewerLinks ==
  ASSUME NEW p \in Paths, NEW d \in Seq(Entries), Below(d, p), Links(p) <= MaxLinks
  PROVE  Links(d) <= MaxLinks
<1>1. p \in Seq(Entries) /\ Len(p) \in Nat /\ Len(d) \in Nat /\ Len(d) < Len(p)
  BY PathFacts, LenProperties DEF Below
<1>2. DOMAIN d = 1 .. Len(d) /\ DOMAIN p = 1 .. Len(p) /\ 1 .. Len(d) \subseteq 1 .. Len(p)
  BY <1>1, LenProperties
<1> DEFINE A == {i \in DOMAIN d : d[i].link}
           B == {i \in DOMAIN p : p[i].link}
<1>3. A \subseteq B
  BY <1>2 DEF Below
<1>4. IsFiniteSet(1 .. Len(p)) /\ B \subseteq 1 .. Len(p)
  BY <1>1, <1>2, FS_Interval
<1>5. IsFiniteSet(B)
  BY <1>4, FS_Subset
<1>6. IsFiniteSet(A) /\ Cardinality(A) <= Cardinality(B)
  BY <1>3, <1>5, FS_Subset
<1>7. Cardinality(A) \in Nat /\ Cardinality(B) \in Nat
  BY <1>5, <1>6, FS_CardinalityType
<1>8. Links(d) = Cardinality(A) /\ Links(p) = Cardinality(B)
  BY DEF Links
<1> HIDE DEF A, B
<1> QED
  BY <1>6, <1>7, <1>8, DirectoryWalkAssumption

\* A directory through which the path of a file leads that must be listed,
\* is seen to be one.
LEMMA DirectoryOnTheWay ==
  ASSUME NEW p \in Paths, NEW d \in Seq(Entries), Below(d, p), MustBeListed(p),
         stable \subseteq present
  PROVE  Is("dir", d)
<1>1. ToSet(d) \subseteq present
  BY BelowFacts DEF MustBeListed
<1>2. Links(d) <= MaxLinks
  BY FewerLinks DEF MustBeListed
<1>3. Kind[Node(d)] = "dir"
  BY BelowFacts, DirectoryWalkAssumption
<1> QED
  BY <1>1, <1>2, <1>3 DEF Is

LEMMA WalkInvInit == WalkInit => WalkInv
<1> SUFFICES ASSUME WalkInit PROVE WalkInv
  OBVIOUS
<1>1. WalkTypes
  BY DEF WalkInit, WalkTypes
<1>2. OnTheWay /\ ListedWasSeen
  BY DEF WalkInit, OnTheWay, ListedWasSeen, IsInjective
<1>3. NothingMissed
  <2> SUFFICES ASSUME NEW p \in Paths, MustBeListed(p) PROVE StillToCome(p)
    BY DEF NothingMissed
  <2>1. p \in Seq(Entries) /\ p # <<>>
    BY PathFacts, DirectoryWalkAssumption DEF MustBeListed, Node
  <2>2. Len(p) > 0
    BY <2>1, EmptySeq, LenProperties
  <2>3. Below(<<>>, p)
    BY <2>2 DEF Below
  <2> QED BY <2>3 DEF WalkInit, StillToCome, Asking
<1> QED
  BY <1>1, <1>2, <1>3 DEF WalkInv

\* A file that must still be listed had to be before.
LEMMA MustHaveBeenListed ==
  ASSUME NEW p \in Paths, MustBeListed(p)',
         stable' \subseteq stable, refused \subseteq refused'
  PROVE  MustBeListed(p)
BY DEF MustBeListed

\* A directory that opens gets a frame; one that does not, is refused.
LEMMA OpenKeeps == WalkInv /\ Open => WalkInv'
<1> SUFFICES ASSUME WalkInv, Open PROVE WalkInv'
  OBVIOUS
<1> USE DEF WalkInv
<1>1. at = "open" /\ Asking /\ UNCHANGED <<present, stable, path, files>>
  BY DEF Open, fs, Asking
<1>2. Len(stack) \in Nat /\ DOMAIN stack = 1 .. Len(stack)
  BY LenProperties DEF WalkTypes
<1>3. CASE /\ stack' = Append(stack,
                        [dir |-> path, must |-> In(path), may |-> In(path), seen |-> {}])
           /\ at' = "loop" /\ UNCHANGED refused
  <2> DEFINE frame == [dir |-> path, must |-> In(path), may |-> In(path), seen |-> {}]
  <2>1. frame \in Frames
    BY DEF Frames, In, WalkTypes
  <2>2. /\ stack' \in Seq(Frames) /\ Len(stack') = Len(stack) + 1
        /\ DOMAIN stack' = 1 .. Len(stack) + 1
        /\ \A i \in DOMAIN stack : stack'[i] = stack[i]
        /\ stack'[Len(stack) + 1] = frame
    BY <1>2, <1>3, <2>1, AppendProperties, LenProperties DEF WalkTypes
  <2>3. \A i \in DOMAIN stack' :
          \/ i \in DOMAIN stack /\ stack'[i] = stack[i]
          \/ i = Len(stack) + 1 /\ stack'[i] = frame
    BY <1>2, <2>2
  <2> HIDE DEF frame
  <2>4. WalkTypes'
    <3>1. stack' # <<>>
      BY <1>2, <2>2, EmptySeq
    <3> QED BY <1>1, <1>3, <2>2, <3>1 DEF WalkTypes
  <2>5. OnTheWay'
    <3> SUFFICES ASSUME NEW i \in DOMAIN stack', NEW j \in DOMAIN stack', i < j
                 PROVE  Leads(stack'[i], stack'[j].dir)
      BY <1>3 DEF OnTheWay, Asking, Leads, Below, Onward
    <3>1. i \in DOMAIN stack /\ stack'[i] = stack[i]
      BY <1>2, <2>2
    <3>2. CASE j \in DOMAIN stack
      BY <2>2, <3>1, <3>2 DEF OnTheWay
    <3>3. CASE j = Len(stack) + 1
      BY <1>1, <2>2, <3>1, <3>3 DEF OnTheWay, frame
    <3> QED BY <2>3, <3>2, <3>3
  <2>6. ListedWasSeen'
    <3>1. ASSUME NEW n \in DOMAIN files, NEW i \in DOMAIN stack',
                 Below(stack'[i].dir, files[n])
          PROVE  Onward(stack'[i].dir, files[n]) \in stack'[i].seen
      <4>1. i \in DOMAIN stack /\ stack'[i] = stack[i]
        BY <1>1, <2>3, <3>1 DEF ListedWasSeen, frame
      <4> QED BY <3>1, <4>1 DEF ListedWasSeen
    <3>2. ~Asking'
      BY <1>3 DEF Asking
    <3> QED BY <1>1, <3>1, <3>2 DEF ListedWasSeen
  <2>7. NothingMissed'
    <3> SUFFICES ASSUME NEW p \in Paths, MustBeListed(p)' PROVE StillToCome(p)'
      BY DEF NothingMissed
    <3>1. MustBeListed(p) /\ StillToCome(p)
      BY <1>1, <1>3, MustHaveBeenListed DEF NothingMissed
    <3>2. CASE p \in ToSet(files)
      BY <1>1, <3>2 DEF StillToCome
    <3>3. ASSUME NEW i \in DOMAIN stack, Below(stack[i].dir, p),
                 Onward(stack[i].dir, p) \in stack[i].must \ stack[i].seen
          PROVE  StillToCome(p)'
      BY <1>2, <2>2, <3>3 DEF StillToCome
    <3>4. CASE Below(path, p)
      <4>1. Onward(path, p) \in In(path)
        BY <3>1, <3>4, BelowFacts DEF WalkTypes, In, MustBeListed
      <4>2. /\ Len(stack) + 1 \in DOMAIN stack' /\ Below(stack'[Len(stack) + 1].dir, p)
            /\ Onward(stack'[Len(stack) + 1].dir, p) \in stack'[Len(stack) + 1].must
            /\ stack'[Len(stack) + 1].seen = {}
        BY <1>2, <2>2, <3>4, <4>1 DEF frame
      <4> QED BY <4>2 DEF StillToCome
    <3> QED BY <1>1, <3>1, <3>2, <3>3, <3>4 DEF StillToCome
  <2> QED BY <2>4, <2>5, <2>6, <2>7
<1>4. CASE /\ refused' = refused \cup {Node(path)}
           /\ at' = IF stack = <<>> THEN "returned" ELSE "loop"
           /\ UNCHANGED stack
  <2>1. ~Asking'
    BY <1>4 DEF Asking
  <2>2. WalkTypes'
    BY <1>1, <1>4 DEF WalkTypes
  <2>3. OnTheWay' /\ ListedWasSeen'
    BY <1>1, <1>4, <2>1 DEF OnTheWay, ListedWasSeen
  <2>4. NothingMissed'
    <3> SUFFICES ASSUME NEW p \in Paths, MustBeListed(p)' PROVE StillToCome(p)'
      BY DEF NothingMissed
    <3>1. MustBeListed(p) /\ StillToCome(p)
      BY <1>1, <1>4, MustHaveBeenListed DEF NothingMissed
    <3>2. ~Below(path, p)
      <4> SUFFICES ASSUME Below(path, p) PROVE FALSE
        OBVIOUS
      <4>1. SubSeq(p, 1, Len(path)) = path /\ Len(path) \in 0 .. Len(p) - 1
        BY BelowFacts DEF WalkTypes
      <4>2. Node(SubSeq(p, 1, Len(path))) \notin refused'
        BY <4>1 DEF MustBeListed
      <4> QED BY <1>4, <4>1, <4>2
    <3> QED BY <1>1, <1>4, <3>1, <3>2 DEF StillToCome
  <2> QED BY <2>2, <2>3, <2>4
<1> QED BY <1>3, <1>4 DEF Open

\* The entry that is given is new to this call.
LEMMA AdvanceKeeps == WalkInv /\ Advance => WalkInv'
<1> SUFFICES ASSUME WalkInv, Advance PROVE WalkInv'
  OBVIOUS
<1> USE DEF WalkInv
<1> DEFINE top == Len(stack)
<1>1. /\ at = "loop" /\ at' = "is_regular" /\ Asking'
      /\ UNCHANGED <<present, stable, files, refused>>
  BY DEF Advance, fs, Asking
<1>2. /\ Len(stack) \in Nat /\ DOMAIN stack = 1 .. Len(stack) /\ Len(stack) # 0
      /\ stack \in [1 .. Len(stack) -> Frames]
  BY <1>1, LenProperties, EmptySeq DEF WalkTypes
<1>3. top \in DOMAIN stack /\ stack[top] \in Frames /\ Last(stack) = stack[top]
  BY <1>2 DEF Last
<1>4. PICK e \in stack[top].may \ stack[top].seen :
        /\ stack' = [stack EXCEPT ![top].seen = @ \cup {e}]
        /\ path' = Append(stack[top].dir, e)
  BY <1>3 DEF Advance
<1>5. e \in Entries /\ stack[top].dir \in Seq(Entries)
  BY <1>3 DEF Frames
<1>6. /\ DOMAIN stack' = DOMAIN stack
      /\ \A i \in DOMAIN stack : i # top => stack'[i] = stack[i]
      /\ stack'[top] = [stack[top] EXCEPT !.seen = @ \cup {e}]
  BY <1>2, <1>3, <1>4
<1>7. /\ stack'[top] \in Frames
      /\ stack'[top].dir = stack[top].dir /\ stack'[top].must = stack[top].must
      /\ stack'[top].seen = stack[top].seen \cup {e}
  BY <1>3, <1>5, <1>6 DEF Frames
<1>8. \A i \in DOMAIN stack :
        /\ stack'[i].dir = stack[i].dir /\ stack'[i].must = stack[i].must
        /\ stack[i].seen \subseteq stack'[i].seen
        /\ i # top => stack'[i].seen = stack[i].seen
  BY <1>6, <1>7
<1>9. /\ path' \in Seq(Entries) /\ Len(path') = Len(stack[top].dir) + 1
      /\ \A k \in 1 .. Len(stack[top].dir) : path'[k] = stack[top].dir[k]
      /\ path'[Len(stack[top].dir) + 1] = e
      /\ Len(stack[top].dir) \in Nat
  BY <1>4, <1>5, AppendProperties, LenProperties
<1> HIDE DEF top
<1>10. WalkTypes'
  <2>1. stack' \in Seq(Frames) /\ Len(stack') = Len(stack)
    <3>1. stack' \in [1 .. Len(stack) -> Frames]
      BY <1>2, <1>4, <1>6, <1>7
    <3> QED BY <1>2, <3>1
  <2>2. stack' # <<>>
    BY <1>2, <2>1
  <2> QED BY <1>1, <1>9, <2>1, <2>2 DEF WalkTypes
<1>11. OnTheWay'
  <2>1. ASSUME NEW i \in DOMAIN stack, NEW j \in DOMAIN stack, i < j
        PROVE  Leads(stack'[i], stack'[j].dir)
    BY <1>8, <2>1 DEF OnTheWay, Leads
  <2>2. ASSUME NEW i \in DOMAIN stack PROVE Leads(stack'[i], path')
    <3>1. CASE i = top
      BY <1>7, <1>9, <3>1 DEF Leads, Below, Onward
    <3>2. CASE i # top
      <4>1. Leads(stack[i], stack[top].dir)
        BY <1>2, <1>3, <3>2 DEF OnTheWay, top
      <4>2. Len(stack[i].dir) \in Nat
        BY <1>2, LenProperties DEF Frames
      <4>3. /\ Len(stack[i].dir) < Len(stack[top].dir)
            /\ \A k \in 1 .. Len(stack[i].dir) : stack[top].dir[k] = stack[i].dir[k]
        BY <4>1 DEF Leads, Below
      <4>4. /\ Len(stack[i].dir) + 1 \in 1 .. Len(stack[top].dir)
            /\ \A k \in 1 .. Len(stack[i].dir) : k \in 1 .. Len(stack[top].dir)
            /\ Len(stack[i].dir) < Len(path')
        BY <1>9, <4>2, <4>3
      <4>5. /\ Below(stack[i].dir, path')
            /\ Onward(stack[i].dir, path') = Onward(stack[i].dir, stack[top].dir)
        BY <1>9, <4>3, <4>4 DEF Below, Onward
      <4> QED BY <1>6, <3>2, <4>1, <4>5 DEF Leads
    <3> QED BY <3>1, <3>2
  <2> QED BY <1>6, <2>1, <2>2 DEF OnTheWay
<1>12. ListedWasSeen'
  <2>1. ASSUME NEW n \in DOMAIN files, NEW i \in DOMAIN stack, Below(stack'[i].dir, files[n])
        PROVE  Onward(stack'[i].dir, files[n]) \in stack'[i].seen
    BY <1>8, <2>1 DEF ListedWasSeen
  <2>2. ASSUME NEW n \in DOMAIN files, files[n] = path' \/ Below(path', files[n])
        PROVE  FALSE
    <3>1. Below(stack[top].dir, files[n]) /\ Onward(stack[top].dir, files[n]) = e
      BY <1>9, <2>2 DEF Below, Onward
    <3>2. e \in stack[top].seen
      BY <1>3, <3>1 DEF ListedWasSeen
    <3> QED BY <1>4, <3>2
  <2> QED BY <1>1, <1>6, <2>1, <2>2 DEF ListedWasSeen
<1>13. NothingMissed'
  <2> SUFFICES ASSUME NEW p \in Paths, MustBeListed(p)' PROVE StillToCome(p)'
    BY DEF NothingMissed
  <2>1. MustBeListed(p) /\ StillToCome(p)
    BY <1>1, MustHaveBeenListed DEF NothingMissed
  <2>2. CASE p \in ToSet(files)
    BY <1>1, <2>2 DEF StillToCome
  <2>3. ASSUME NEW i \in DOMAIN stack, Below(stack[i].dir, p),
               Onward(stack[i].dir, p) \in stack[i].must \ stack[i].seen
        PROVE  StillToCome(p)'
    <3>1. CASE Onward(stack[i].dir, p) \in stack'[i].seen
      <4>1. i = top /\ Onward(stack[top].dir, p) = e
        BY <1>7, <1>8, <2>3, <3>1
      <4>2. /\ Len(p) \in Nat /\ Len(path') <= Len(p)
            /\ \A k \in 1 .. Len(path') : p[k] = path'[k]
        BY <1>9, <2>3, <4>1, PathFacts, LenProperties DEF Below, Onward
      <4>3. Len(path') = Len(p) => p = path'
        BY <1>9, <4>2, PathFacts, SeqEqual
      <4>4. p = path' \/ Below(path', p)
        BY <1>9, <4>2, <4>3, LenProperties DEF Below
      <4> QED BY <1>1, <4>4 DEF StillToCome
    <3>2. CASE Onward(stack[i].dir, p) \notin stack'[i].seen
      BY <1>6, <1>8, <2>3, <3>2 DEF StillToCome
    <3> QED BY <3>1, <3>2
  <2> QED BY <1>1, <2>1, <2>2, <2>3 DEF StillToCome, Asking
<1> QED BY <1>10, <1>11, <1>12, <1>13

\* The end of a loop: all that had to be given was given.
LEMMA ReturnKeeps == WalkInv /\ Return => WalkInv'
<1> SUFFICES ASSUME WalkInv, Return PROVE WalkInv'
  OBVIOUS
<1> USE DEF WalkInv
<1>1. /\ at = "loop" /\ ~Asking /\ ~Asking'
      /\ UNCHANGED <<present, stable, path, files, refused>>
      /\ at' = IF Len(stack) = 1 THEN "returned" ELSE "loop"
      /\ Last(stack).must \subseteq Last(stack).seen
      /\ stack' = SubSeq(stack, 1, Len(stack) - 1)
  BY DEF Return, fs, Asking, Front
<1>2. /\ Len(stack) \in Nat /\ DOMAIN stack = 1 .. Len(stack) /\ Len(stack) # 0
  BY <1>1, LenProperties, EmptySeq DEF WalkTypes
<1>3. /\ stack' \in Seq(Frames) /\ Len(stack') = Len(stack) - 1
      /\ DOMAIN stack' = 1 .. Len(stack) - 1
      /\ \A i \in 1 .. Len(stack) - 1 : stack'[i] = stack[i]
  <2>1. /\ stack' \in Seq(Frames) /\ Len(stack') = Len(stack) - 1
        /\ \A i \in 1 .. Len(stack) - 1 : stack'[i] = stack[i]
    BY <1>1, <1>2, SubSeqProperties DEF WalkTypes
  <2> QED BY <2>1, LenProperties
<1>4. DOMAIN stack' \subseteq DOMAIN stack /\ \A i \in DOMAIN stack' : stack'[i] = stack[i]
  BY <1>2, <1>3
<1>5. WalkTypes'
  <2>1. stack' = <<>> <=> Len(stack) = 1
    BY <1>2, <1>3, EmptySeq
  <2> QED BY <1>1, <1>3, <2>1 DEF WalkTypes
<1>6. OnTheWay' /\ ListedWasSeen'
  BY <1>1, <1>4 DEF OnTheWay, ListedWasSeen
<1>7. NothingMissed'
  <2> SUFFICES ASSUME NEW p \in Paths, MustBeListed(p)' PROVE StillToCome(p)'
    BY DEF NothingMissed
  <2>1. MustBeListed(p) /\ StillToCome(p)
    BY <1>1, MustHaveBeenListed DEF NothingMissed
  <2>2. ASSUME NEW i \in DOMAIN stack, Below(stack[i].dir, p),
               Onward(stack[i].dir, p) \in stack[i].must \ stack[i].seen
        PROVE  StillToCome(p)'
    <3>1. i # Len(stack)
      BY <1>1, <2>2 DEF Last
    <3>2. i \in DOMAIN stack' /\ stack'[i] = stack[i]
      BY <1>2, <1>3, <3>1
    <3> QED BY <2>2, <3>2 DEF StillToCome
  <2> QED BY <1>1, <2>1, <2>2 DEF StillToCome
<1> QED BY <1>5, <1>6, <1>7

\* An error of the iterator leaves the call.
LEMMA ReadFailsKeeps == WalkInv /\ ReadFails => WalkInv'
<1> SUFFICES ASSUME WalkInv, ReadFails PROVE WalkInv'
  OBVIOUS
<1>1. /\ at = "loop" /\ at' = "thrown" /\ ~Asking /\ ~Asking'
      /\ UNCHANGED <<present, stable, stack, path, files, refused>>
  BY DEF ReadFails, fs, Asking
<1>2. WalkTypes' /\ OnTheWay' /\ ListedWasSeen'
  BY <1>1 DEF WalkInv, WalkTypes, OnTheWay, ListedWasSeen
<1>3. NothingMissed'
  BY <1>1 DEF WalkInv, NothingMissed, MustBeListed, StillToCome
<1> QED BY <1>2, <1>3 DEF WalkInv

\* A file is listed that was not before.
LEMMA IsRegularKeeps == WalkInv /\ IsRegular => WalkInv'
<1> SUFFICES ASSUME WalkInv, IsRegular PROVE WalkInv'
  OBVIOUS
<1> USE DEF WalkInv
<1>1. at = "is_regular" /\ Asking /\ UNCHANGED <<present, stable, stack, path, refused>>
  BY DEF IsRegular, fs, Asking
<1>2. Len(files) \in Nat /\ DOMAIN files = 1 .. Len(files)
  BY LenProperties DEF WalkTypes
<1>3. CASE Is("file", path) /\ files' = Append(files, path) /\ at' = "loop"
  <2>1. /\ files' \in Seq(Seq(Entries)) /\ Len(files') = Len(files) + 1
        /\ DOMAIN files' = 1 .. Len(files) + 1
        /\ \A n \in DOMAIN files : n \in DOMAIN files' /\ files'[n] = files[n]
        /\ files'[Len(files) + 1] = path
        /\ Len(files) + 1 \in DOMAIN files' /\ Len(files) + 1 \notin DOMAIN files
        /\ \A n \in DOMAIN files' : n \in DOMAIN files \/ n = Len(files) + 1
    BY <1>2, <1>3, AppendProperties, LenProperties DEF WalkTypes
  <2>2. ~Asking'
    BY <1>3 DEF Asking
  <2>3. WalkTypes'
    BY <1>1, <1>3, <2>1 DEF WalkTypes
  <2>4. OnTheWay'
    BY <1>1, <2>2 DEF OnTheWay
  <2>5. ListedWasSeen'
    <3>1. ASSUME NEW n \in DOMAIN files', NEW i \in DOMAIN stack,
                 Below(stack[i].dir, files'[n])
          PROVE  Onward(stack[i].dir, files'[n]) \in stack[i].seen
      BY <1>1, <2>1, <3>1 DEF ListedWasSeen, OnTheWay, Leads
    <3>2. ASSUME NEW m \in DOMAIN files', NEW n \in DOMAIN files', files'[m] = files'[n]
          PROVE  m = n
      BY <1>1, <2>1, <3>2 DEF ListedWasSeen, IsInjective
    <3> QED BY <1>1, <2>2, <3>1, <3>2 DEF ListedWasSeen, IsInjective
  <2>6. NothingMissed'
    <3> SUFFICES ASSUME NEW p \in Paths, MustBeListed(p)' PROVE StillToCome(p)'
      BY DEF NothingMissed
    <3>1. MustBeListed(p) /\ StillToCome(p)
      BY <1>1, MustHaveBeenListed DEF NothingMissed
    <3>2. ToSet(files') = ToSet(files) \cup {path}
      BY <2>1 DEF ToSet
    <3>3. ~Below(path, p)
      <4> SUFFICES ASSUME Below(path, p) PROVE FALSE
        OBVIOUS
      <4>1. Is("dir", path)
        BY <3>1, DirectoryOnTheWay DEF WalkTypes
      <4> QED BY <1>3, <4>1 DEF Is
    <3> QED BY <1>1, <3>1, <3>2, <3>3 DEF StillToCome
  <2> QED BY <2>3, <2>4, <2>5, <2>6
<1>4. CASE ~Is("file", path) /\ at' = "is_directory" /\ UNCHANGED files
  <2>1. Asking'
    BY <1>4 DEF Asking
  <2>2. WalkTypes' /\ OnTheWay' /\ ListedWasSeen'
    BY <1>1, <1>4, <2>1 DEF WalkTypes, OnTheWay, ListedWasSeen
  <2>3. NothingMissed'
    <3> SUFFICES ASSUME NEW p \in Paths, MustBeListed(p)' PROVE StillToCome(p)'
      BY DEF NothingMissed
    <3>1. MustBeListed(p) /\ StillToCome(p)
      BY <1>1, MustHaveBeenListed DEF NothingMissed
    <3>2. p # path
      BY <1>4, <3>1 DEF MustBeListed, Is, WalkTypes
    <3> QED BY <1>1, <1>4, <2>1, <3>1, <3>2 DEF StillToCome
  <2> QED BY <2>2, <2>3
<1> QED BY <1>3, <1>4 DEF IsRegular

\* What is no directory, or not any more, leads to no file that must be listed.
LEMMA IsDirectoryKeeps == WalkInv /\ IsDirectory => WalkInv'
<1> SUFFICES ASSUME WalkInv, IsDirectory PROVE WalkInv'
  OBVIOUS
<1> USE DEF WalkInv
<1>1. /\ at = "is_directory" /\ Asking
      /\ at' = IF Is("dir", path) THEN "open" ELSE "loop"
      /\ UNCHANGED <<present, stable, stack, path, files, refused>>
  BY DEF IsDirectory, fs, Asking
<1>2. Asking' <=> Is("dir", path)
  BY <1>1 DEF Asking
<1>3. WalkTypes'
  BY <1>1 DEF WalkTypes
<1>4. OnTheWay' /\ ListedWasSeen'
  BY <1>1, <1>2 DEF OnTheWay, ListedWasSeen
<1>5. NothingMissed'
  <2> SUFFICES ASSUME NEW p \in Paths, MustBeListed(p)' PROVE StillToCome(p)'
    BY DEF NothingMissed
  <2>1. MustBeListed(p) /\ StillToCome(p)
    BY <1>1, MustHaveBeenListed DEF NothingMissed
  <2>2. Below(path, p) => Is("dir", path)
    BY <2>1, DirectoryOnTheWay DEF WalkTypes
  <2> QED BY <1>1, <1>2, <2>1, <2>2 DEF StillToCome
<1> QED BY <1>3, <1>4, <1>5

\* Others add and remove entries: no call has to be given what was removed,
\* and what leads to a file that must be listed was not removed.
LEMMA ChangeKeeps == ASSUME NEW e \in Entries PROVE WalkInv /\ Change(e) => WalkInv'
<1> SUFFICES ASSUME WalkInv, Change(e) PROVE WalkInv'
  OBVIOUS
<1> USE DEF WalkInv
<1>1. UNCHANGED <<at, path, files, refused>> /\ (Asking' <=> Asking)
  BY DEF Change, Asking
<1>2. /\ DOMAIN stack = 1 .. Len(stack) /\ Len(stack) \in Nat
      /\ stack \in [1 .. Len(stack) -> Frames]
  BY LenProperties DEF WalkTypes
<1>3. CASE /\ e \in present /\ present' = present \ {e} /\ stable' = stable \ {e}
           /\ stack' = [i \in DOMAIN stack |-> [stack[i] EXCEPT !.must = @ \ {e}]]
  <2>1. \A i \in DOMAIN stack :
          /\ stack'[i] \in Frames /\ stack'[i].dir = stack[i].dir
          /\ stack'[i].seen = stack[i].seen
          /\ stack'[i].must = stack[i].must \ {e}
    BY <1>2, <1>3 DEF Frames
  <2>2. DOMAIN stack' = DOMAIN stack /\ stack' \in [1 .. Len(stack) -> Frames]
    BY <1>2, <1>3, <2>1
  <2>3. stack' \in Seq(Frames) /\ Len(stack') = Len(stack)
    BY <1>2, <2>2
  <2>4. stack' = <<>> <=> stack = <<>>
    BY <2>3, EmptySeq DEF WalkTypes
  <2>5. WalkTypes'
    BY <1>1, <1>3, <2>3, <2>4 DEF WalkTypes
  <2>6. OnTheWay' /\ ListedWasSeen'
    BY <1>1, <2>1, <2>2 DEF OnTheWay, ListedWasSeen, Leads
  <2>7. NothingMissed'
    <3> SUFFICES ASSUME NEW p \in Paths, MustBeListed(p)' PROVE StillToCome(p)'
      BY DEF NothingMissed
    <3>1. MustBeListed(p) /\ StillToCome(p)
      BY <1>1, <1>3, MustHaveBeenListed DEF NothingMissed
    <3>2. ASSUME NEW i \in DOMAIN stack, Below(stack[i].dir, p),
                 Onward(stack[i].dir, p) \in stack[i].must \ stack[i].seen
          PROVE  StillToCome(p)'
      <4>1. Onward(stack[i].dir, p) \in ToSet(p) /\ e \notin ToSet(p)
        BY <1>2, <1>3, <3>2, BelowFacts DEF MustBeListed, Frames
      <4> QED BY <2>1, <2>2, <3>2, <4>1 DEF StillToCome
    <3> QED BY <1>1, <3>1, <3>2 DEF StillToCome
  <2> QED BY <2>5, <2>6, <2>7
<1>4. CASE /\ e \notin present /\ present' = present \cup {e} /\ UNCHANGED stable
           /\ stack' = [i \in DOMAIN stack |->
                          IF Node(stack[i].dir) = e.in
                          THEN [stack[i] EXCEPT !.may = @ \cup {e}] ELSE stack[i]]
  <2>1. \A i \in DOMAIN stack :
          /\ stack'[i] \in Frames /\ stack'[i].dir = stack[i].dir
          /\ stack'[i].seen = stack[i].seen
          /\ stack'[i].must = stack[i].must
    BY <1>2, <1>4 DEF Frames
  <2>2. DOMAIN stack' = DOMAIN stack /\ stack' \in [1 .. Len(stack) -> Frames]
    BY <1>2, <1>4, <2>1
  <2>3. stack' \in Seq(Frames) /\ Len(stack') = Len(stack)
    BY <1>2, <2>2
  <2>4. stack' = <<>> <=> stack = <<>>
    BY <2>3, EmptySeq DEF WalkTypes
  <2>5. WalkTypes'
    BY <1>1, <1>4, <2>3, <2>4 DEF WalkTypes
  <2>6. OnTheWay' /\ ListedWasSeen'
    BY <1>1, <2>1, <2>2 DEF OnTheWay, ListedWasSeen, Leads
  <2>7. NothingMissed'
    <3> SUFFICES ASSUME NEW p \in Paths, MustBeListed(p)' PROVE StillToCome(p)'
      BY DEF NothingMissed
    <3>1. MustBeListed(p) /\ StillToCome(p)
      BY <1>1, <1>4, MustHaveBeenListed DEF NothingMissed
    <3> QED BY <1>1, <2>1, <2>2, <3>1 DEF StillToCome
  <2> QED BY <2>5, <2>6, <2>7
<1> QED BY <1>3, <1>4 DEF Change

(* What the nested calls of enum_directory rely on, in every tree and      *)
(* whatever other processes change meanwhile.                              *)
LEMMA WalkInvHolds == WalkSpec => []WalkInv
<1>1. WalkInv /\ UNCHANGED walkVars => WalkInv'
  BY DEF walkVars, fs, WalkInv, WalkTypes, OnTheWay, ListedWasSeen, NothingMissed, StillToCome,
     MustBeListed, Asking
<1>2. WalkInv /\ [WalkNext]_walkVars => WalkInv'
  BY <1>1, OpenKeeps, AdvanceKeeps, ReturnKeeps, ReadFailsKeeps, IsRegularKeeps,
     IsDirectoryKeeps, ChangeKeeps DEF WalkNext, Walk
<1> QED
  BY <1>2, WalkInvInit, PTL DEF WalkSpec

(* enum_directory lists every file that was there all the time, in         *)
(* directories that opened, and no path twice: in every tree, with links   *)
(* in circles, whatever others add and remove.                             *)
THEOREM WalkListsOnce == WalkSpec => []ListedOnce
<1>1. WalkInv => ListedOnce
  <2> SUFFICES ASSUME WalkInv PROVE ListedOnce
    OBVIOUS
  <2>1. ASSUME at = "returned", NEW p \in Paths, MustBeListed(p) PROVE p \in ToSet(files)
    <3>1. stack = <<>> /\ ~Asking
      BY <2>1 DEF WalkInv, WalkTypes, Asking
    <3>2. StillToCome(p)
      BY <2>1 DEF WalkInv, NothingMissed
    <3> QED BY <2>1, <3>1, <3>2 DEF StillToCome
  <2> QED BY <2>1 DEF WalkInv, ListedWasSeen, ListedOnce
<1> QED
  BY <1>1, WalkInvHolds, PTL
----------------------------------------------------------------------------
(* What is listed.                                                         *)

\* Each entry is in the directory that those before it lead to.
IsRoute(p) == \A i \in 1 .. Len(p) : p[i].in = Node(SubSeq(p, 1, i - 1))

(* Only regular files are listed, each with a path that leads to it.       *)
ListsFiles ==
  \A n \in DOMAIN files :
    IsRoute(files[n]) /\ Kind[Node(files[n])] = "file" /\ Links(files[n]) <= MaxLinks

(* In a tree that nobody changes, and whose directories all open, the list *)
(* is that of the regular files.                                           *)
ListsExactly ==
  at = "returned" /\ changes = 0 /\ refused = {} =>
    \A p \in Paths : p \in ToSet(files) <=> Is("file", p)

\* An iterator gives entries of its directory.
Routes ==
  /\ \A i \in DOMAIN stack :
       /\ IsRoute(stack[i].dir)
       /\ \A e \in stack[i].may : e.in = Node(stack[i].dir)
  /\ IsRoute(path)
WhileQuiet ==
  /\ changes \in Nat
  /\ changes = 0 =>
       stable = present /\ \A n \in DOMAIN files : ToSet(files[n]) \subseteq present

RouteInv == Routes /\ ListsFiles /\ WhileQuiet

\* A route goes on with an entry of the directory that it leads to.
LEMMA RouteGoesOn ==
  ASSUME NEW d \in Seq(Entries), NEW e \in Entries, IsRoute(d), e.in = Node(d)
  PROVE  IsRoute(Append(d, e))
<1> DEFINE q == Append(d, e)
<1>1. /\ q \in Seq(Entries) /\ Len(q) = Len(d) + 1 /\ Len(d) \in Nat
      /\ \A k \in 1 .. Len(d) : q[k] = d[k]
      /\ q[Len(d) + 1] = e
  BY AppendProperties, LenProperties
<1> HIDE DEF q
<1>2. ASSUME NEW i \in 1 .. Len(d) + 1
      PROVE  SubSeq(q, 1, i - 1) = SubSeq(d, 1, i - 1)
  <2>1. /\ i - 1 \in 0 .. Len(d) /\ i - 1 \in 0 .. Len(q)
        /\ \A k \in 1 .. i - 1 : k \in 1 .. Len(d)
    BY <1>1
  <2>2. /\ SubSeq(q, 1, i - 1) \in Seq(Entries) /\ Len(SubSeq(q, 1, i - 1)) = i - 1
        /\ \A k \in 1 .. i - 1 : SubSeq(q, 1, i - 1)[k] = q[k]
    BY <1>1, <2>1, SubSeqProperties
  <2>3. /\ SubSeq(d, 1, i - 1) \in Seq(Entries) /\ Len(SubSeq(d, 1, i - 1)) = i - 1
        /\ \A k \in 1 .. i - 1 : SubSeq(d, 1, i - 1)[k] = d[k]
    BY <1>1, <2>1, SubSeqProperties
  <2> QED BY <1>1, <2>1, <2>2, <2>3, SeqEqual
<1>3. SubSeq(d, 1, Len(d)) = d
  <2>1. /\ SubSeq(d, 1, Len(d)) \in Seq(Entries) /\ Len(SubSeq(d, 1, Len(d))) = Len(d)
        /\ \A k \in 1 .. Len(d) : SubSeq(d, 1, Len(d))[k] = d[k]
    BY <1>1, SubSeqProperties
  <2> QED BY <2>1, SeqEqual
<1>4. ASSUME NEW i \in 1 .. Len(d) + 1 PROVE q[i].in = Node(SubSeq(q, 1, i - 1))
  <2>1. CASE i = Len(d) + 1
    <3>1. i - 1 = Len(d)
      BY <1>1, <2>1
    <3>2. SubSeq(q, 1, i - 1) = d
      BY <1>2, <1>3, <3>1
    <3> QED BY <1>1, <2>1, <3>2
  <2>2. CASE i # Len(d) + 1
    <3>1. i \in 1 .. Len(d)
      BY <1>1, <2>2
    <3> QED BY <1>1, <1>2, <3>1 DEF IsRoute
  <2> QED BY <2>1, <2>2
<1>5. IsRoute(q)
  BY <1>1, <1>4 DEF IsRoute
<1> QED BY <1>5 DEF q

(* The paths that enum_directory makes lead where they say, and what is on *)
(* the list was a file when it was put there.                              *)
LEMMA RouteInvHolds == WalkSpec => []RouteInv
<1>1. WalkInit => RouteInv
  <2> SUFFICES ASSUME WalkInit PROVE RouteInv
    OBVIOUS
  <2>1. IsRoute(<<>>)
    BY DEF IsRoute
  <2> QED BY <2>1 DEF WalkInit, RouteInv, Routes, ListsFiles, WhileQuiet
<1>2. ASSUME RouteInv, WalkTypes, Open PROVE RouteInv'
  <2>1. UNCHANGED <<present, stable, changes, path, files>>
    BY <1>2 DEF Open, fs
  <2>2. ListsFiles' /\ WhileQuiet'
    BY <1>2, <2>1 DEF RouteInv, ListsFiles, WhileQuiet
  <2>3. Routes'
    <3> DEFINE frame == [dir |-> path, must |-> In(path), may |-> In(path), seen |-> {}]
    <3>1. CASE stack' = Append(stack, frame)
      <4>1. frame \in Frames
        BY <1>2 DEF Frames, In, WalkTypes
      <4>2. \A i \in DOMAIN stack' :
              (i \in DOMAIN stack /\ stack'[i] = stack[i]) \/ stack'[i] = frame
        BY <1>2, <3>1, <4>1, AppendProperties, LenProperties DEF WalkTypes
      <4>3. IsRoute(frame.dir) /\ \A e \in frame.may : e.in = Node(frame.dir)
        BY <1>2 DEF RouteInv, Routes, In
      <4> HIDE DEF frame
      <4> QED BY <1>2, <2>1, <4>2, <4>3 DEF RouteInv, Routes
    <3>2. CASE UNCHANGED stack
      BY <1>2, <2>1, <3>2 DEF RouteInv, Routes
    <3> QED BY <1>2, <3>1, <3>2 DEF Open
  <2> QED BY <2>2, <2>3 DEF RouteInv
<1>3. ASSUME RouteInv, WalkTypes, Advance PROVE RouteInv'
  <2> DEFINE top == Len(stack)
  <2>1. UNCHANGED <<present, stable, changes, files>> /\ at = "loop"
    BY <1>3 DEF Advance, fs
  <2>2. ListsFiles' /\ WhileQuiet'
    BY <1>3, <2>1 DEF RouteInv, ListsFiles, WhileQuiet
  <2>3. /\ top \in DOMAIN stack /\ DOMAIN stack = 1 .. top
        /\ stack \in [1 .. top -> Frames] /\ Last(stack) = stack[top]
    BY <1>3, <2>1, LenProperties, EmptySeq DEF WalkTypes, Last
  <2>4. PICK e \in stack[top].may :
          /\ stack' = [stack EXCEPT ![top].seen = @ \cup {e}]
          /\ path' = Append(stack[top].dir, e)
    BY <1>3, <2>3 DEF Advance
  <2>5. e \in Entries /\ stack[top].dir \in Seq(Entries)
    BY <2>3 DEF Frames
  <2>6. /\ DOMAIN stack' = DOMAIN stack
        /\ \A i \in DOMAIN stack : stack'[i].dir = stack[i].dir /\ stack'[i].may = stack[i].may
    BY <2>3, <2>4 DEF Frames
  <2> HIDE DEF top
  <2>7. IsRoute(path')
    BY <1>3, <2>3, <2>4, <2>5, RouteGoesOn DEF RouteInv, Routes
  <2>8. Routes'
    BY <1>3, <2>6, <2>7 DEF RouteInv, Routes
  <2> QED BY <2>2, <2>8 DEF RouteInv
<1>4. ASSUME RouteInv, WalkTypes, Return PROVE RouteInv'
  <2>1. /\ UNCHANGED <<present, stable, changes, path, files>> /\ at = "loop"
        /\ stack' = SubSeq(stack, 1, Len(stack) - 1)
    BY <1>4 DEF Return, fs, Front
  <2>2. Len(stack) \in Nat /\ Len(stack) # 0 /\ DOMAIN stack = 1 .. Len(stack)
    BY <1>4, <2>1, LenProperties, EmptySeq DEF WalkTypes
  <2>3. /\ stack' \in Seq(Frames) /\ Len(stack') = Len(stack) - 1
        /\ \A i \in 1 .. Len(stack) - 1 : stack'[i] = stack[i]
    BY <1>4, <2>1, <2>2, SubSeqProperties DEF WalkTypes
  <2>4. \A i \in DOMAIN stack' : i \in DOMAIN stack /\ stack'[i] = stack[i]
    BY <2>2, <2>3, LenProperties
  <2>5. Routes'
    BY <1>4, <2>1, <2>4 DEF RouteInv, Routes
  <2> QED BY <1>4, <2>1, <2>5 DEF RouteInv, ListsFiles, WhileQuiet
<1>5. ASSUME RouteInv, WalkTypes, IsRegular PROVE RouteInv'
  <2>1. UNCHANGED <<present, stable, changes, stack, path>>
    BY <1>5 DEF IsRegular, fs
  <2>2. Routes'
    BY <1>5, <2>1 DEF RouteInv, Routes
  <2>3. CASE UNCHANGED files
    BY <1>5, <2>1, <2>2, <2>3 DEF RouteInv, ListsFiles, WhileQuiet
  <2>4. CASE Is("file", path) /\ files' = Append(files, path)
    <3>1. \A n \in DOMAIN files' :
            (n \in DOMAIN files /\ files'[n] = files[n]) \/ files'[n] = path
      BY <1>5, <2>4, AppendProperties, LenProperties DEF WalkTypes
    <3>2. ListsFiles'
      BY <1>5, <2>4, <3>1 DEF RouteInv, Routes, ListsFiles, Is
    <3>3. WhileQuiet'
      BY <1>5, <2>1, <2>4, <3>1 DEF RouteInv, WhileQuiet, Is
    <3> QED BY <2>2, <3>2, <3>3 DEF RouteInv
  <2> QED BY <1>5, <2>3, <2>4 DEF IsRegular
<1>6. ASSUME RouteInv, ReadFails \/ IsDirectory \/ UNCHANGED walkVars PROVE RouteInv'
  <2>1. UNCHANGED <<present, stable, changes, stack, path, files>>
    BY <1>6 DEF ReadFails, IsDirectory, walkVars, fs
  <2> QED BY <1>6, <2>1 DEF RouteInv, Routes, ListsFiles, WhileQuiet
<1>7. ASSUME RouteInv, WalkTypes, NEW e \in Entries, Change(e) PROVE RouteInv'
  <2>1. UNCHANGED <<path, files>> /\ changes' = changes + 1
    BY <1>7 DEF Change
  <2>2. WhileQuiet'
    BY <1>7, <2>1 DEF RouteInv, WhileQuiet
  <2>3. stack \in [DOMAIN stack -> Frames]
    BY <1>7, LenProperties DEF WalkTypes
  <2>4. /\ DOMAIN stack' = DOMAIN stack
        /\ \A i \in DOMAIN stack :
             /\ stack'[i].dir = stack[i].dir
             /\ \A a \in stack'[i].may : a \in stack[i].may \/ a.in = Node(stack[i].dir)
    <3>1. CASE stack' = [i \in DOMAIN stack |-> [stack[i] EXCEPT !.must = @ \ {e}]]
      BY <2>3, <3>1 DEF Frames
    <3>2. CASE stack' = [i \in DOMAIN stack |->
                           IF Node(stack[i].dir) = e.in
                           THEN [stack[i] EXCEPT !.may = @ \cup {e}] ELSE stack[i]]
      BY <2>3, <3>2 DEF Frames
    <3> QED BY <1>7, <3>1, <3>2 DEF Change
  <2>5. Routes'
    BY <1>7, <2>1, <2>4 DEF RouteInv, Routes
  <2> QED BY <1>7, <2>1, <2>2, <2>5 DEF RouteInv, ListsFiles
<1>8. RouteInv /\ WalkInv /\ [WalkNext]_walkVars => RouteInv'
  BY <1>2, <1>3, <1>4, <1>5, <1>6, <1>7 DEF WalkInv, WalkNext, Walk
<1> QED
  BY <1>1, <1>8, WalkInvHolds, PTL DEF WalkSpec

(* enum_directory lists regular files only, each with a path that leads to *)
(* it, whatever others add and remove.                                     *)
THEOREM WalkListsFiles == WalkSpec => []ListsFiles
<1>1. RouteInv => ListsFiles
  BY DEF RouteInv
<1> QED
  BY <1>1, RouteInvHolds, PTL

(* In a tree that nobody changes, and whose directories all open, it lists *)
(* the regular files: those, and no others.                                *)
THEOREM WalkListsExactly == WalkSpec => []ListsExactly
<1>1. RouteInv /\ ListedOnce => ListsExactly
  <2> SUFFICES ASSUME RouteInv, ListedOnce, at = "returned", changes = 0, refused = {},
                      NEW p \in Paths
               PROVE  p \in ToSet(files) <=> Is("file", p)
    BY DEF ListsExactly
  <2>1. stable = present
    BY DEF RouteInv, WhileQuiet
  <2>2. Is("file", p) => p \in ToSet(files)
    BY <2>1 DEF Is, MustBeListed, ListedOnce
  <2>3. p \in ToSet(files) => Is("file", p)
    BY DEF ToSet, RouteInv, ListsFiles, WhileQuiet, Is
  <2> QED BY <2>2, <2>3
<1> QED
  BY <1>1, RouteInvHolds, WalkListsOnce, PTL

=============================================================================
