----------------------------- MODULE Md5Stream ------------------------------
(***************************************************************************)
(* md5Hash: class Hash (Hash.cpp), its MD5 implementation (md5Hash.cpp)    *)
(* and the context they drive (md5.c).                                     *)
(*                                                                         *)
(* Bytes are numbers. The compression function is not computed: the        *)
(* chaining value buf is the sequence of blocks it has absorbed since      *)
(* MD5Init, so that two digests are equal exactly when the same blocks     *)
(* went in in the same order. What is modelled in full is what decides     *)
(* which blocks go in: the bit count with its two words, the partly        *)
(* filled block, the padding.                                              *)
(***************************************************************************)
EXTENDS Integers, Sequences

CONSTANTS
  BlockSize,     \* bytes in a block (64)
  WordBytes,     \* bytes in a uint32 (4)
  WordMax,       \* values of a uint32, and of MD5Update's unsigned len (2^32)
  Sources,       \* texts that a caller may hash, each cut into pieces anyhow
  Sizes,         \* lengths of the pieces it adds
  Garbage,       \* what memory may hold before anything is written to it
  AllocMayFail,  \* whether new BYTE[m_hashsize] may throw bad_alloc
  Clobbered      \* stands for a chaining value with zeroed words

VARIABLES
  status,   \* Hash::status: "INIT", "HASHING" or "END"
  m_hash,   \* Hash::m_hash: <<>> for NULL, or the digest it points to
  buf,      \* MD5Context::buf, as the blocks absorbed
  bits,     \* MD5Context::bits, the low word first
  in,       \* MD5Context::in, the block being filled
  source,   \* the text being hashed
  fed,      \* how much of it has been passed to add()
  answer    \* what the last call gave its caller

context == <<buf, bits, in>>
vars == <<status, m_hash, buf, bits, in, source, fed, answer>>

Byte == 0 .. 255
Slots == 0 .. BlockSize - 1
Block == [Slots -> Byte]
Word == 0 .. WordMax - 1
LengthBytes == 2 * WordBytes  \* the bit count at the end of the last block
EmptyHash == <<>>

\* A word counts whole blocks of bits, a block has room for the length field
\* and a byte of padding, and a text is made of bytes.
ASSUME SizesAssumption ==
  /\ WordBytes \in 1 .. 4
  /\ BlockSize \in Nat \ {0}
  /\ BlockSize > LengthBytes
  /\ WordMax \in Nat \ {0}
  /\ \E k \in 1 .. WordMax : WordMax = 8 * (BlockSize * k)
ASSUME InputsAssumption ==
  /\ Sources \subseteq Seq(Byte)
  /\ Sources # {}
  /\ Sizes \subseteq Nat
  /\ Garbage \subseteq Byte
  /\ Garbage # {}
  /\ AllocMayFail \in BOOLEAN

Answers ==
  [what : {"done", "logic_error", "bad_alloc", "digest"},
   digest : Seq(Block \cup {Clobbered})]
Nothing == [what |-> "done", digest |-> <<>>]
LogicError == [what |-> "logic_error", digest |-> <<>>]
BadAlloc == [what |-> "bad_alloc", digest |-> <<>>]
DigestIs(d) == [what |-> "digest", digest |-> d]

----------------------------------------------------------------------------
(* Bytes and blocks.                                                       *)

Zeros(n) == [i \in 1 .. n |-> 0]

\* memcpy of bytes into a block, from slot at on.
Put(block, at, bytes) ==
  [i \in Slots |->
    IF at <= i /\ i < at + Len(bytes) THEN bytes[i - at + 1] ELSE block[i]]

BlockAt(text, from) == [i \in Slots |-> text[from + i + 1]]

\* The first n blocks of a text.
Blocks(text, n) == [k \in 1 .. n |-> BlockAt(text, (k - 1) * BlockSize)]

\* A little-endian word in memory.
ByteWeight == <<1, 256, 65536, 16777216>>
ByteOf(word, i) == (word \div ByteWeight[i + 1]) % 256

LengthField(count) ==
  [i \in 1 .. LengthBytes |->
    IF i <= WordBytes THEN ByteOf(count[1], i - 1)
                      ELSE ByteOf(count[2], i - 1 - WordBytes)]

----------------------------------------------------------------------------
(* MD5Init, MD5Update, MD5Final.                                           *)

MD5Init ==
  /\ buf' = <<>>
  /\ bits' = <<0, 0>>
  /\ UNCHANGED in

(* Mutant: the bits of len that leave the low word are dropped. *)
AddBitsLowOnly(count, len) ==
  LET low == (count[1] + ((8 * len) % WordMax)) % WordMax
  IN <<low, (count[2] + (IF low < count[1] THEN 1 ELSE 0)) % WordMax>>

\* bits += 8 * len in two words. A carry shows as a low word that has shrunk.
AddBits(count, len) ==
  LET low == (count[1] + ((8 * len) % WordMax)) % WordMax
      carry == IF low < count[1] THEN 1 ELSE 0
  IN <<low, (count[2] + carry + (len \div (WordMax \div 8))) % WordMax>>

\* Bytes that wait in the block.
Used(count) == (count[1] \div 8) % BlockSize

\* The compression function, on the blocks absorbed so far.
MD5Transform(chain, block) == Append(chain, block)

\* Whole blocks go through the block one after another; the rest stays in it.
\* The chaining value and the block before that are given.
Absorb(chain, block, data) ==
  LET n == Len(data) \div BlockSize
      whole == Blocks(data, n)
      rest == SubSeq(data, n * BlockSize + 1, Len(data))
  IN /\ buf' = chain \o whole
     /\ in' = Put(IF n = 0 THEN block ELSE whole[n], 0, rest)

\* The block is completed first when something waits in it. len is unsigned:
\* of a longer piece only the first len bytes are taken.
MD5Update(piece) ==
  LET len == Len(piece) % WordMax
      data == SubSeq(piece, 1, len)
      used == Used(bits)
      room == BlockSize - used
  IN /\ bits' = AddBits(bits, len)
     /\ \/ /\ used > 0
           /\ len < room
           /\ in' = Put(in, used, data)
           /\ UNCHANGED buf
        \/ /\ used > 0
           /\ len >= room
           /\ LET full == Put(in, used, SubSeq(data, 1, room))
              IN Absorb(MD5Transform(buf, full), full, SubSeq(data, room + 1, len))
        \/ /\ used = 0
           /\ Absorb(buf, in, data)

(* Mutant: a block with room for nothing but the length field is closed. *)
FinalBlocksTooEarly(block, count) ==
  LET used == Used(count)
      room == BlockSize - 1 - used
      full == Put(Put(block, used, <<128>>), used + 1, Zeros(room))
      field == BlockSize - LengthBytes
  IN IF room <= LengthBytes
     THEN <<full, Put(Put(full, 0, Zeros(field)), field, LengthField(count))>>
     ELSE <<Put(full, field, LengthField(count))>>

\* The blocks that MD5Final absorbs: 0x80, zeros up to the length field (in a
\* block of their own when this one has no room for the field), and the bit
\* count.
FinalBlocks(block, count) ==
  LET used == Used(count)
      marked == Put(block, used, <<128>>)
      room == BlockSize - 1 - used
      full == Put(marked, used + 1, Zeros(room))
      field == BlockSize - LengthBytes
  IN IF room < LengthBytes
     THEN <<full, Put(Put(full, 0, Zeros(field)), field, LengthField(count))>>
     ELSE <<Put(Put(marked, used + 1, Zeros(room - LengthBytes)),
                field, LengthField(count))>>

\* memset(ctx, 0, sizeof(ctx)) reaches as many bytes as a pointer has: the
\* first words of buf.
MD5Final ==
  LET last == FinalBlocks(in, bits)
  IN /\ m_hash' = buf \o last
     /\ buf' = <<Clobbered>>
     /\ in' = last[Len(last)]
     /\ UNCHANGED bits

----------------------------------------------------------------------------
(* The methods of Hash.                                                    *)

\* The constructor runs MD5Init on a context nobody has written to.
Init ==
  /\ status = "INIT"
  /\ m_hash = EmptyHash
  /\ buf = <<>>
  /\ bits = <<0, 0>>
  /\ in \in [Slots -> Garbage]
  /\ source \in Sources
  /\ fed = 0
  /\ answer = Nothing

\* The caller adds the next n bytes of its text.
Add(n) ==
  /\ status # "END"
  /\ fed + n <= Len(source)
  /\ status' = "HASHING"
  /\ MD5Update(SubSeq(source, fed + 1, fed + n))
  /\ fed' = fed + n
  /\ answer' = Nothing
  /\ UNCHANGED <<m_hash, source>>

AddThrows ==
  /\ status = "END"
  /\ answer' = LogicError
  /\ UNCHANGED <<status, m_hash, context, source, fed>>

GetHashThrows ==
  /\ status = "INIT"
  /\ answer' = LogicError
  /\ UNCHANGED <<status, m_hash, context, source, fed>>

(* Mutant: the digest is made anew each time it is asked for. *)
GetHashAnew ==
  /\ status # "INIT"
  /\ m_hash # EmptyHash
  /\ status' = "END"
  /\ MD5Final
  /\ answer' = DigestIs(m_hash')
  /\ UNCHANGED <<source, fed>>

\* A digest that is there is given again.
GetHashAgain ==
  /\ status # "INIT"
  /\ m_hash # EmptyHash
  /\ status' = "END"
  /\ answer' = DigestIs(m_hash)
  /\ UNCHANGED <<m_hash, context, source, fed>>

GetHash ==
  /\ status # "INIT"
  /\ m_hash = EmptyHash
  /\ status' = "END"
  /\ MD5Final
  /\ answer' = DigestIs(m_hash')
  /\ UNCHANGED <<source, fed>>

\* new throws when status is END already, and m_hash is still NULL.
GetHashFails ==
  /\ AllocMayFail
  /\ status # "INIT"
  /\ m_hash = EmptyHash
  /\ status' = "END"
  /\ answer' = BadAlloc
  /\ UNCHANGED <<m_hash, context, source, fed>>

(* Mutant: the old digest stays. *)
ResetKeepsDigest ==
  /\ status' = "INIT"
  /\ MD5Init
  /\ source' \in Sources
  /\ fed' = 0
  /\ answer' = Nothing
  /\ UNCHANGED m_hash

\* The caller goes on with another text, or with the same.
Reset ==
  /\ status' = "INIT"
  /\ MD5Init
  /\ m_hash' = EmptyHash
  /\ source' \in Sources
  /\ fed' = 0
  /\ answer' = Nothing

Next ==
  \/ \E n \in Sizes : Add(n)
  \/ AddThrows
  \/ GetHashThrows
  \/ GetHashAgain
  \/ GetHash
  \/ GetHashFails
  \/ Reset

Spec == Init /\ [][Next]_vars

----------------------------------------------------------------------------
(* The reference: a message is padded, then cut into blocks.               *)

message == SubSeq(source, 1, fed)

\* The low 2 * 32 bits of the length of n bytes.
BitCount(n) == <<(8 * n) % WordMax, ((8 * n) \div WordMax) % WordMax>>

\* The least number of zeros that makes whole blocks.
PadLength(n) == (-(n + 1 + LengthBytes)) % BlockSize

Padded(text) ==
  text \o <<128>> \o Zeros(PadLength(Len(text)))
       \o LengthField(BitCount(Len(text)))

Digest(text) ==
  Blocks(Padded(text), Len(Padded(text)) \div BlockSize)

----------------------------------------------------------------------------
(* Properties.                                                             *)

TypeOK ==
  /\ status \in {"INIT", "HASHING", "END"}
  /\ m_hash \in Seq(Block)
  /\ buf \in Seq(Block \cup {Clobbered})
  /\ bits \in Word \X Word
  /\ in \in Block
  /\ source \in Sources
  /\ fed \in 0 .. Len(source)
  /\ answer \in Answers

\* As long as no digest was made, the context describes exactly the message
\* so far, whatever the pieces it came in, and whatever an earlier message
\* left behind: the number of its bits, its whole blocks in their order, and
\* the bytes after the last whole block. (Hash::add, MD5Update; "Update
\* context to reflect the concatenation of another buffer full of bytes".)
ContextDescribesMessage ==
  m_hash = EmptyHash =>
    LET n == fed \div BlockSize
    IN /\ bits = BitCount(fed)
       /\ buf = Blocks(message, n)
       /\ \A i \in 0 .. (fed % BlockSize) - 1 :
            in[i] = message[n * BlockSize + i + 1]

\* The digest is that of the message, padded, however it was cut and even if
\* an earlier attempt of getHash() had failed. (Hash::getHash, MD5Final)
DigestIsOfMessage == m_hash # EmptyHash => m_hash = Digest(message)

\* A Hash keeps the contract of its interface: each call answers as it must
\* in that state, and every digest it gives is the digest of everything added
\* since the last reset. (class Hash)
Contract == INSTANCE HashObject
ContractSpec == Contract!Spec
=============================================================================
