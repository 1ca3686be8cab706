------------------------------- MODULE HexUtil -------------------------------
(***************************************************************************)
(* HexStringToHexBytes and HexBytesToHexString (String2HexByteUtil.hpp):   *)
(* one step for each byte that is written into the caller's buffer, so     *)
(* that what a refused call leaves there can be seen. A caller converts    *)
(* one text or one block of bytes.                                         *)
(***************************************************************************)
EXTENDS Integers, Sequences

CONSTANTS
  Texts,       \* the texts that callers convert, as sequences of characters
  Blocks,      \* the bytes that callers convert
  Capacities,  \* the sizes that they say their buffers have
  Lengths,     \* the lengths that they tell
  MaxInt       \* the largest int

ASSUME HexUtilAssumption ==
  /\ Texts \subseteq Seq(0 .. 255)
  /\ Blocks \subseteq Seq(0 .. 255)
  /\ Capacities \subseteq Nat
  /\ MaxInt \in Nat
  /\ Lengths \subseteq -MaxInt - 1 .. MaxInt

VARIABLES
  call,      \* the function that is running, or "none"
  input,     \* what it converts
  nInLen,    \* the length it was told
  capacity,  \* nOutLen as it was at the call
  nOutLen,   \* and as it is
  index,     \* input that was converted
  out,       \* the buffer, as far as it was written
  null,      \* was one of the pointers NULL?
  ret        \* the last call that returned, and its result

buffers == <<input, nInLen, capacity, index, out, null>>
hexVars == <<call, buffers, nOutLen, ret>>

\* An int, if it wraps around.
Wrapped(n) == ((n + MaxInt + 1) % (2 * (MaxInt + 1))) - (MaxInt + 1)

NoResult == [of |-> "none", ok |-> FALSE]

HexInit ==
  /\ call = "none"
  /\ input = <<>>
  /\ nInLen = 0
  /\ capacity = 0
  /\ nOutLen = 0
  /\ index = 0
  /\ out = <<>>
  /\ null = FALSE
  /\ ret = NoResult

Idle == call = "none"

\* A call begins.
Begin(function, given, length, size, refused) ==
  /\ input' = given
  /\ nInLen' = length
  /\ capacity' = size
  /\ nOutLen' = size
  /\ index' = 0
  /\ out' = <<>>
  /\ IF refused THEN call' = "none" /\ ret' = [of |-> function, ok |-> FALSE]
                ELSE call' = function /\ ret' = NoResult

(* Mutant: the bytes written so far are told. *)
FailInTheMiddle ==
  /\ call' = "none"
  /\ ret' = [of |-> call, ok |-> FALSE]
  /\ nOutLen' = Len(out)
  /\ UNCHANGED buffers

Fail ==
  /\ call' = "none"
  /\ ret' = [of |-> call, ok |-> FALSE]
  /\ UNCHANGED <<buffers, nOutLen>>

Succeed(length) ==
  /\ nOutLen' = length
  /\ call' = "none"
  /\ ret' = [of |-> call, ok |-> TRUE]
  /\ UNCHANGED buffers

----------------------------------------------------------------------------
(* HexStringToHexBytes                                                     *)

\* nInLen % 2 and nInLen / 2 as C computes them, towards zero.
Odd(n) == n % 2 # 0
Half(n) == IF n >= 0 THEN n \div 2 ELSE -((-n) \div 2)

RefusesText(length, size) == null' \/ Odd(length) \/ Half(length) > size

BeginToBytes ==
  /\ Idle /\ ret = NoResult
  /\ \E text \in Texts, size \in Capacities, length \in Lengths :
       /\ length <= Len(text)
       /\ null' \in BOOLEAN
       /\ Begin("HexStringToHexBytes", text, length, size, RefusesText(length, size))

Digits == 48 .. 57
Upper == 65 .. 70
Lower == 97 .. 102
HexDigits == Digits \cup Upper \cup Lower

(* Mutant: capital letters are shifted by one. *)
NDataShifted(c) ==
  CASE c \in Digits -> c - 48 [] c \in Upper -> c - 65 + 9 [] c \in Lower -> c - 97 + 10

\* nData
NData(c) ==
  CASE c \in Digits -> c - 48 [] c \in Upper -> c - 65 + 10 [] c \in Lower -> c - 97 + 10

ConvertPair ==
  /\ call = "HexStringToHexBytes"
  /\ index < nInLen
  /\ LET high == input[index + 1]
         low == input[index + 2]
     IN  \/ /\ {high, low} \subseteq HexDigits
            /\ out' = Append(out, (NData(high) * 16 + NData(low)) % 256)
            /\ index' = index + 2
            /\ UNCHANGED <<call, input, nInLen, capacity, nOutLen, null, ret>>
         \/ ~({high, low} \subseteq HexDigits) /\ Fail

ToBytesDone ==
  /\ call = "HexStringToHexBytes"
  /\ index >= nInLen
  /\ Succeed(Len(out))

----------------------------------------------------------------------------
(* HexBytesToHexString                                                     *)

(* Mutant: there must be as many characters as bytes. *)
RefusesBytesByCount(length, size) == null' \/ size < length

RefusesBytes(length, size) == null' \/ size < Wrapped(2 * length)

BeginToText ==
  /\ Idle /\ ret = NoResult
  /\ \E block \in Blocks, size \in Capacities, length \in Lengths :
       /\ length <= Len(block)
       /\ null' \in BOOLEAN
       /\ Begin("HexBytesToHexString", block, length, size, RefusesBytes(length, size))

\* %02x
Format(byte) ==
  LET digit(d) == IF d < 10 THEN 48 + d ELSE 87 + d
  IN  <<digit(byte \div 16), digit(byte % 16)>>

\* sprintf ends what it writes with a zero, which the next call overwrites.
ConvertByte ==
  /\ call = "HexBytesToHexString"
  /\ index < nInLen
  /\ out' = SubSeq(out, 1, 2 * index) \o Format(input[index + 1]) \o <<0>>
  /\ index' = index + 1
  /\ UNCHANGED <<call, input, nInLen, capacity, nOutLen, null, ret>>

ToTextDone ==
  /\ call = "HexBytesToHexString"
  /\ index >= nInLen
  /\ Succeed(Wrapped(2 * nInLen))

----------------------------------------------------------------------------
HexNext ==
  \/ BeginToBytes \/ ConvertPair \/ ToBytesDone
  \/ BeginToText \/ ConvertByte \/ ToTextDone

HexSpec == HexInit /\ [][HexNext]_hexVars

----------------------------------------------------------------------------
(* Properties.                                                             *)

\* So many bytes have digits that an int counts.
IntCounts(length) == length >= 0 /\ 2 * length <= MaxInt

(* A buffer is not written beyond the size that its caller said, but for   *)
(* the zero after the characters, for which no room is asked; that holds   *)
(* for as many bytes as an int counts twice.                               *)
WritesWithin ==
  /\ "HexStringToHexBytes" \in {call, ret.of} => Len(out) <= capacity
  /\ "HexBytesToHexString" \in {call, ret.of} /\ IntCounts(nInLen) => Len(out) <= capacity + 1

(* A text is converted exactly if it is a row of pairs of hexadecimal      *)
(* digits that fits, and then into the bytes that the pairs stand for;     *)
(* bytes are converted if their digits fit, into those digits.             *)
Value(c) ==
  CHOOSE d \in 0 .. 15 :
    \/ c = <<48, 49, 50, 51, 52, 53, 54, 55, 56, 57, 65, 66, 67, 68, 69, 70>>[d + 1]
    \/ c = <<48, 49, 50, 51, 52, 53, 54, 55, 56, 57, 97, 98, 99, 100, 101, 102>>[d + 1]
ByteOf(text, k) == 16 * Value(text[2 * k - 1]) + Value(text[2 * k])
ConvertsExactly ==
  LET pairs == nInLen \div 2
      convertible == /\ nInLen = 2 * pairs
                     /\ pairs <= capacity
                     /\ \A k \in 1 .. nInLen : input[k] \in HexDigits
  IN  /\ ret.of = "HexStringToHexBytes" /\ nInLen >= 0 =>
           /\ ret.ok <=> ~null /\ convertible
           /\ ret.ok => out = [k \in 1 .. pairs |-> ByteOf(input, k)]
      /\ ret.of = "HexBytesToHexString" /\ IntCounts(nInLen) =>
           /\ ret.ok <=> ~null /\ 2 * nInLen <= capacity
           /\ ret.ok => \A k \in 1 .. nInLen : ByteOf(out, k) = input[k]

(* A length that the caller reads after a call is that of what it got: the *)
(* bytes of a refused text that were written before the wrong character    *)
(* are not counted, nor is the zero after a text.                          *)
LengthIsOfResult ==
  /\ ret.of # "none" /\ ~ret.ok => nOutLen = capacity
  /\ ret.ok /\ ret.of = "HexStringToHexBytes" => nOutLen = Len(out)
  /\ ret.ok /\ ret.of = "HexBytesToHexString" /\ IntCounts(nInLen) =>
       nOutLen = IF out = <<>> THEN 0 ELSE Len(out) - 1
=============================================================================
