-------------------------- MODULE Md5StreamProofs ---------------------------
(***************************************************************************)
(* Whatever text is hashed and however it is cut into pieces, the context  *)
(* describes what was added and the digest is that of the whole.           *)
(***************************************************************************)
EXTENDS Md5Stream, SequenceTheorems, TLAPS

\* No piece is longer than MD5Update's unsigned can say.
ShortPieces == \A n \in Sizes : n < WordMax

----------------------------------------------------------------------------
(* Division with remainder, as the bit count and the cutting into blocks   *)
(* use it.                                                                 *)

(* Multiplication distributes over addition. *)
LEMMA Distribute ==
  ASSUME NEW a \in Int, NEW x \in Int, NEW y \in Int
  PROVE  a * (x + y) = a * x + a * y
  OBVIOUS

(* Division leaves a remainder below the divisor. *)
LEMMA DivMod ==
  ASSUME NEW n \in Int, NEW b \in Nat \ {0}
  PROVE  /\ n \div b \in Int
         /\ n % b \in 0 .. b - 1
         /\ n = b * (n \div b) + (n % b)
  OBVIOUS

(* The quotient of a natural number is one. *)
LEMMA DivNat ==
  ASSUME NEW n \in Nat, NEW b \in Nat \ {0}
  PROVE  n \div b \in Nat
  OBVIOUS

(* Only zero times b lies strictly between -b and b. *)
LEMMA SmallMultiple ==
  ASSUME NEW b \in Nat \ {0}, NEW d \in Int, b * d < b, -b < b * d
  PROVE  d = 0
<1>1. CASE d >= 1
  <2>1. b * d >= b * 1
    BY <1>1
  <2> QED
    BY <2>1
<1>2. CASE d <= -1
  <2>1. b * d <= b * (-1)
    BY <1>2
  <2> QED
    BY <2>1
<1> QED
  BY <1>1, <1>2

(* Quotient and remainder are unique. *)
LEMMA DivModUnique ==
  ASSUME NEW b \in Nat \ {0}, NEW q \in Int, NEW r \in 0 .. b - 1,
         NEW n \in Int, n = b * q + r
  PROVE  n \div b = q /\ n % b = r
<1> DEFINE qq == n \div b
           rr == n % b
<1>1. qq \in Int /\ rr \in 0 .. b - 1 /\ n = b * qq + rr
  BY DivMod
<1> HIDE DEF qq, rr
<1>2. b * (q - qq) = rr - r
  BY <1>1
<1>3. q - qq = 0
  <2>1. q - qq \in Int /\ b * (q - qq) < b /\ -b < b * (q - qq)
    BY <1>1, <1>2
  <2> QED
    BY <2>1, SmallMultiple
<1>4. q = qq
  BY <1>1, <1>3
<1>5. b * q = b * qq
  BY <1>4
<1>6. r = rr
  BY <1>1, <1>5
<1> QED
  BY <1>4, <1>6 DEF qq, rr

(* A multiple of the modulus does not change the remainder. *)
LEMMA ModOfMultiple ==
  ASSUME NEW b \in Nat \ {0}, NEW x \in Int, NEW m \in Int
  PROVE  (x + b * m) % b = x % b
<1> DEFINE q == x \div b
           r == x % b
<1>1. q \in Int /\ r \in 0 .. b - 1 /\ x = b * q + r
  BY DivMod
<1> HIDE DEF q, r
<1>2. x + b * m = b * (q + m) + r
  BY <1>1
<1>3. q + m \in Int /\ x + b * m \in Int
  BY <1>1
<1>4. (x + b * m) % b = r
  BY <1>1, <1>2, <1>3, DivModUnique
<1> QED
  BY <1>4 DEF r

(* What is added after a reduction is reduced with it. *)
LEMMA ModAdd ==
  ASSUME NEW b \in Nat \ {0}, NEW x \in Int, NEW y \in Int
  PROVE  ((x % b) + y) % b = (x + y) % b
<1> DEFINE q == x \div b
           r == x % b
<1>1. q \in Int /\ r \in 0 .. b - 1 /\ x = b * q + r
  BY DivMod
<1> HIDE DEF q, r
<1>2. x + y = (r + y) + b * q
  BY <1>1
<1>3. ((r + y) + b * q) % b = (r + y) % b
  <2>1. r + y \in Int
    BY <1>1
  <2> QED
    BY <1>1, <2>1, ModOfMultiple
<1>4. (x + y) % b = (r + y) % b
  BY <1>2, <1>3
<1> QED
  BY <1>4 DEF r

----------------------------------------------------------------------------
(* The bit count.                                                          *)

(* A word of the count holds 8 * BlockSize * k bits. *)
LEMMA WordFacts ==
  \E k \in Nat \ {0} :
    /\ BlockSize * k \in Nat \ {0}
    /\ WordMax = 8 * (BlockSize * k)
    /\ WordMax \in Nat \ {0}
    /\ WordMax \div 8 = BlockSize * k
<1>1. PICK k \in 1 .. WordMax : WordMax = 8 * (BlockSize * k)
  BY SizesAssumption
<1>2. k \in Nat \ {0} /\ BlockSize \in Nat \ {0} /\ WordMax \in Nat \ {0}
  BY SizesAssumption
<1> DEFINE w == BlockSize * k
<1>3. w \in Int
  BY <1>2
<1> HIDE DEF w
<1>4. WordMax = 8 * w
  BY <1>1 DEF w
<1>5. w \in Nat \ {0} /\ WordMax \div 8 = w
  BY <1>2, <1>3, <1>4
<1> QED
  BY <1>2, <1>4, <1>5 DEF w

(* The count is two words. *)
LEMMA BitCountType ==
  ASSUME NEW n \in Nat
  PROVE  BitCount(n) \in Word \X Word
<1>1. WordMax \in Nat \ {0}
  BY SizesAssumption
<1>2. 8 * n \in Int /\ (8 * n) \div WordMax \in Int
  BY <1>1, DivMod
<1>3. (8 * n) % WordMax \in Word /\ ((8 * n) \div WordMax) % WordMax \in Word
  BY <1>1, <1>2, DivMod DEF Word
<1> QED
  BY <1>3 DEF BitCount

(* Adding the bits of len bytes to the count of n gives that of n + len: the
   carry between the words is never missed and never made up. *)
LEMMA AddBitsCorrect ==
  ASSUME NEW n \in Nat, NEW len \in Nat, len < WordMax
  PROVE  AddBits(BitCount(n), len) = BitCount(n + len)
<1>1. PICK k \in Nat \ {0} :
        /\ BlockSize * k \in Nat \ {0}
        /\ WordMax = 8 * (BlockSize * k)
        /\ WordMax \in Nat \ {0}
        /\ WordMax \div 8 = BlockSize * k
  BY WordFacts
<1> DEFINE w == BlockSize * k
           q1 == (8 * n) \div WordMax
           r1 == (8 * n) % WordMax
           q2 == (8 * len) \div WordMax
           r2 == (8 * len) % WordMax
           low == (r1 + r2) % WordMax
           carry == IF low < r1 THEN 1 ELSE 0
<1>2. /\ q1 \in Int /\ r1 \in 0 .. WordMax - 1 /\ 8 * n = WordMax * q1 + r1
      /\ q2 \in Int /\ r2 \in 0 .. WordMax - 1 /\ 8 * len = WordMax * q2 + r2
  <2> DEFINE x == 8 * n
             y == 8 * len
  <2>1. x \in Int /\ y \in Int /\ WordMax \in Nat \ {0}
    BY <1>1
  <2> HIDE DEF x, y
  <2>2. /\ x \div WordMax \in Int
        /\ x % WordMax \in 0 .. WordMax - 1
        /\ x = WordMax * (x \div WordMax) + (x % WordMax)
    BY <2>1, DivMod
  <2>3. /\ y \div WordMax \in Int
        /\ y % WordMax \in 0 .. WordMax - 1
        /\ y = WordMax * (y \div WordMax) + (y % WordMax)
    BY <2>1, DivMod
  <2> QED
    BY <2>2, <2>3 DEF x, y
<1>3. w \in Nat \ {0} /\ WordMax = 8 * w /\ WordMax \div 8 = w
  BY <1>1
<1> HIDE DEF w, q1, r1, q2, r2
<1>4. len \div w = q2
  <2>1. 8 * len = 8 * (w * q2) + r2
    BY <1>2, <1>3
  <2> DEFINE p == w * q2
             s == len - p
  <2>2. p \in Int
    BY <1>2, <1>3
  <2> HIDE DEF p
  <2>3. s \in 0 .. w - 1
    BY <1>2, <1>3, <2>1, <2>2 DEF p
  <2>4. len = w * q2 + s
    BY <1>2, <2>2 DEF p
  <2> HIDE DEF s
  <2> QED
    BY <1>2, <1>3, <2>3, <2>4, DivModUnique
<1>5. /\ low \in 0 .. WordMax - 1
      /\ r1 + r2 = WordMax * carry + low
  <2>1. CASE r1 + r2 < WordMax
    <3>1. r1 + r2 = WordMax * 0 + (r1 + r2)
      BY <1>2, <1>3
    <3>2. low = r1 + r2
      BY <1>2, <1>3, <2>1, <3>1, DivModUnique
    <3> QED
      BY <1>2, <1>3, <2>1, <3>2
  <2>2. CASE r1 + r2 >= WordMax
    <3>1. r1 + r2 = WordMax * 1 + (r1 + r2 - WordMax)
      BY <1>2, <1>3
    <3>2. r1 + r2 - WordMax \in 0 .. WordMax - 1
      BY <1>2, <1>3, <2>2
    <3>3. low = r1 + r2 - WordMax
      BY <1>2, <1>3, <3>1, <3>2, DivModUnique
    <3> QED
      BY <1>2, <1>3, <2>2, <3>3
  <2> QED
    BY <1>2, <1>3, <2>1, <2>2
<1>6. carry \in Int
  OBVIOUS
<1> HIDE DEF low, carry
<1> DEFINE q == q1 + carry + q2
           total == 8 * (n + len)
<1>7. total = WordMax * q + low
  <2>1. WordMax * (q1 + carry) = WordMax * q1 + WordMax * carry
    BY <1>2, <1>3, <1>6, Distribute
  <2>2. WordMax * q = WordMax * (q1 + carry) + WordMax * q2
    BY <1>2, <1>3, <1>6, Distribute
  <2>3. WordMax * q1 \in Int /\ WordMax * q2 \in Int /\ WordMax * carry \in Int
    BY <1>2, <1>3, <1>6
  <2>4. total = 8 * n + 8 * len
    OBVIOUS
  <2> DEFINE a == WordMax * q1
             b == WordMax * q2
             c == WordMax * carry
             d == WordMax * q
  <2>5. a \in Int /\ b \in Int /\ c \in Int /\ d = (a + c) + b
    BY <2>1, <2>2, <2>3
  <2>6. total = (a + r1) + (b + r2) /\ r1 + r2 = c + low
    BY <1>2, <1>5, <2>4
  <2> HIDE DEF q, total, a, b, c, d
  <2>7. total = d + low
    BY <1>2, <1>5, <2>5, <2>6
  <2> QED
    BY <2>7 DEF d
<1>8. total \div WordMax = q /\ total % WordMax = low
  <2>1. q \in Int /\ total \in Int
    BY <1>2, <1>6
  <2> HIDE DEF q, total
  <2> QED
    BY <1>3, <1>5, <1>7, <2>1, DivModUnique
<1>9. ((q1 % WordMax) + (carry + q2)) % WordMax
        = (q1 + (carry + q2)) % WordMax
  <2> DEFINE y == carry + q2
  <2>1. y \in Int
    BY <1>2, <1>6
  <2> HIDE DEF y
  <2>2. ((q1 % WordMax) + y) % WordMax = (q1 + y) % WordMax
    BY <1>1, <1>2, <2>1, ModAdd, Zenon
  <2> QED
    BY <2>2 DEF y
<1>10. (q1 % WordMax) + carry + q2 = (q1 % WordMax) + (carry + q2)
  <2>1. q1 % WordMax \in Int
    BY <1>2, <1>3, DivMod
  <2> QED
    BY <1>2, <1>6, <2>1
<1>11. BitCount(n + len) = <<low, (q1 + carry + q2) % WordMax>>
  BY <1>8 DEF BitCount
<1>12. AddBits(BitCount(n), len)
         = <<low, ((q1 % WordMax) + carry + q2) % WordMax>>
  BY <1>3, <1>4 DEF AddBits, BitCount, low, carry, r1, r2, q1
<1> QED
  BY <1>2, <1>6, <1>9, <1>10, <1>11, <1>12

(* The count says how many bytes wait in the block. *)
LEMMA UsedCorrect ==
  ASSUME NEW n \in Nat
  PROVE  Used(BitCount(n)) = n % BlockSize
<1>1. PICK k \in Nat \ {0} :
        /\ BlockSize * k \in Nat \ {0}
        /\ WordMax = 8 * (BlockSize * k)
        /\ WordMax \in Nat \ {0}
        /\ WordMax \div 8 = BlockSize * k
  BY WordFacts
<1> DEFINE q == (8 * n) \div WordMax
           r == (8 * n) % WordMax
           m == -(k * q)
<1>2. q \in Int /\ r \in 0 .. WordMax - 1 /\ 8 * n = WordMax * q + r
  <2> DEFINE x == 8 * n
  <2>1. x \in Int /\ WordMax \in Nat \ {0}
    BY <1>1
  <2> HIDE DEF x
  <2>2. /\ x \div WordMax \in Int
        /\ x % WordMax \in 0 .. WordMax - 1
        /\ x = WordMax * (x \div WordMax) + (x % WordMax)
    BY <2>1, DivMod
  <2> QED
    BY <2>2 DEF x
<1> HIDE DEF q, r
<1>3. BlockSize \in Nat \ {0} /\ m \in Int
  BY <1>1, <1>2, SizesAssumption
<1>4. WordMax * q = 8 * (BlockSize * (k * q))
  BY <1>1, <1>2, <1>3
<1>5. BlockSize * m \in Int /\ BlockSize * m = - (BlockSize * (k * q))
  BY <1>1, <1>2, <1>3
<1>6. r = 8 * (n + BlockSize * m)
  <2> DEFINE p == BlockSize * (k * q)
  <2>1. p \in Int
    BY <1>1, <1>2, <1>3
  <2>2. r = 8 * n - 8 * p /\ BlockSize * m = -p
    BY <1>2, <1>4, <1>5, <2>1
  <2> HIDE DEF p
  <2> QED
    BY <2>1, <2>2
<1> DEFINE s == n + BlockSize * m
<1>7. s \in Int
  BY <1>5
<1>8. r \div 8 = s
  <2> HIDE DEF s
  <2> QED
    BY <1>6, <1>7 DEF s
<1>9. s % BlockSize = n % BlockSize
  <2>1. n \in Int
    OBVIOUS
  <2> HIDE DEF m
  <2>2. (n + BlockSize * m) % BlockSize = n % BlockSize
    BY <1>3, <2>1, ModOfMultiple, Zenon
  <2> QED
    BY <2>2
<1> QED
  BY <1>8, <1>9 DEF Used, BitCount, r

----------------------------------------------------------------------------
(* Blocks.                                                                 *)

\* The chaining value and the block that follow from the first n bytes.
Describes(chain, block, text, n) ==
  /\ chain = Blocks(text, n \div BlockSize)
  /\ \A i \in 0 .. (n % BlockSize) - 1 :
       block[i] = text[(n \div BlockSize) * BlockSize + i + 1]

(* The k-th of n blocks lies inside them. *)
LEMMA BlockBounds ==
  ASSUME NEW n \in Nat, NEW k \in 1 .. n
  PROVE  /\ (k - 1) * BlockSize \in Nat
         /\ (k - 1) * BlockSize + BlockSize = k * BlockSize
         /\ k * BlockSize <= n * BlockSize
  BY SizesAssumption

(* memcpy writes what it is given and leaves the rest. *)
LEMMA PutBytes ==
  ASSUME NEW block \in Block, NEW at \in Nat, NEW bytes \in Seq(Byte)
  PROVE  /\ Put(block, at, bytes) \in Block
         /\ \A i \in Slots :
              /\ at <= i /\ i < at + Len(bytes)
                   => Put(block, at, bytes)[i] = bytes[i - at + 1]
              /\ i < at \/ i >= at + Len(bytes)
                   => Put(block, at, bytes)[i] = block[i]
<1>1. Len(bytes) \in Nat /\ \A j \in 1 .. Len(bytes) : bytes[j] \in Byte
  OBVIOUS
<1>2. \A i \in Slots : i \in Int
  BY SizesAssumption DEF Slots
<1>3. \A i \in Slots : block[i] \in Byte
  BY DEF Block
<1>4. ASSUME NEW i \in Slots
      PROVE  (IF at <= i /\ i < at + Len(bytes)
              THEN bytes[i - at + 1] ELSE block[i]) \in Byte
  BY <1>1, <1>2, <1>3
<1>5. Put(block, at, bytes) \in Block
  BY <1>4 DEF Put, Block
<1>6. ASSUME NEW i \in Slots
      PROVE  /\ at <= i /\ i < at + Len(bytes)
                  => Put(block, at, bytes)[i] = bytes[i - at + 1]
             /\ i < at \/ i >= at + Len(bytes)
                  => Put(block, at, bytes)[i] = block[i]
  BY <1>1, <1>2 DEF Put
<1> QED
  BY <1>5, <1>6

(* A block cut out of a text is a block. *)
LEMMA BlockAtType ==
  ASSUME NEW text \in Seq(Byte), NEW from \in Nat,
         from + BlockSize <= Len(text)
  PROVE  BlockAt(text, from) \in Block
<1>1. \A i \in Slots : from + i + 1 \in 1 .. Len(text)
  BY SizesAssumption DEF Slots
<1>2. \A j \in 1 .. Len(text) : text[j] \in Byte
  OBVIOUS
<1> QED
  BY <1>1, <1>2 DEF BlockAt, Block

(* The first n blocks of a text that has as many. *)
LEMMA BlocksType ==
  ASSUME NEW text \in Seq(Byte), NEW n \in Nat, n * BlockSize <= Len(text)
  PROVE  /\ Blocks(text, n) \in Seq(Block)
         /\ Len(Blocks(text, n)) = n
         /\ \A k \in 1 .. n :
              Blocks(text, n)[k] = BlockAt(text, (k - 1) * BlockSize)
<1>1. ASSUME NEW k \in 1 .. n
      PROVE  BlockAt(text, (k - 1) * BlockSize) \in Block
  <2> DEFINE from == (k - 1) * BlockSize
  <2>1. from \in Nat /\ from + BlockSize <= Len(text)
    <3> DEFINE a == n * BlockSize
               b == k * BlockSize
    <3>1. from \in Nat /\ from + BlockSize = b /\ b <= a /\ a <= Len(text)
      BY BlockBounds
    <3>2. a \in Int /\ b \in Int /\ BlockSize \in Int /\ Len(text) \in Int
      BY SizesAssumption
    <3> HIDE DEF from, a, b
    <3> QED
      BY <3>1, <3>2
  <2> HIDE DEF from
  <2> QED
    BY <2>1, BlockAtType DEF from
<1> QED
  BY <1>1 DEF Blocks

(* The bytes of a text after the a-th and up to the b-th. *)
LEMMA Piece ==
  ASSUME NEW text \in Seq(Byte), NEW a \in Nat, NEW b \in a .. Len(text)
  PROVE  /\ SubSeq(text, a + 1, b) \in Seq(Byte)
         /\ Len(SubSeq(text, a + 1, b)) = b - a
         /\ \A j \in 1 .. b - a : SubSeq(text, a + 1, b)[j] = text[a + j]
<1>1. a + 1 \in Int /\ b \in Int
  OBVIOUS
<1>2. \A i \in a + 1 .. b : text[i] \in Byte
  OBVIOUS
<1> DEFINE s == SubSeq(text, a + 1, b)
<1>3. /\ s \in Seq(Byte)
      /\ Len(s) = (IF a + 1 <= b THEN b - (a + 1) + 1 ELSE 0)
      /\ \A i \in 1 .. b - (a + 1) + 1 : s[i] = text[(a + 1) + i - 1]
  BY <1>1, <1>2, SubSeqProperties
<1> HIDE DEF s
<1>4. Len(s) = b - a /\ \A j \in 1 .. b - a : s[j] = text[a + j]
  BY <1>3
<1> QED
  BY <1>3, <1>4 DEF s

(* Absorbing what follows the first m blocks of a text gives the context of
   all of it. *)
LEMMA AbsorbDescribes ==
  ASSUME NEW text \in Seq(Byte), NEW m \in Nat, NEW block \in Block,
         NEW data \in Seq(Byte),
         m * BlockSize + Len(data) <= Len(text),
         \A j \in 1 .. Len(data) : data[j] = text[m * BlockSize + j],
         Absorb(Blocks(text, m), block, data)
  PROVE  /\ Describes(buf', in', text, m * BlockSize + Len(data))
         /\ in' \in Block
<1> DEFINE len == Len(data)
           n == len \div BlockSize
           r == len % BlockSize
           base == m * BlockSize
           a == n * BlockSize
           total == base + len
           whole == Blocks(data, n)
           rest == SubSeq(data, a + 1, len)
           last == IF n = 0 THEN block ELSE whole[n]
<1>1. BlockSize \in Nat \ {0} /\ len \in Nat
  BY SizesAssumption
<1>2. n \in Nat /\ r \in 0 .. BlockSize - 1 /\ len = a + r
  <2> HIDE DEF len
  <2>1. n \in Nat /\ r \in 0 .. BlockSize - 1 /\ len = BlockSize * n + r
    <3>1. len \in Int
      BY <1>1
    <3>2. len \div BlockSize \in Nat
      BY <1>1, DivNat, Zenon
    <3>3. /\ len % BlockSize \in 0 .. BlockSize - 1
          /\ len = BlockSize * (len \div BlockSize) + (len % BlockSize)
      BY <1>1, <3>1, DivMod, Zenon
    <3> QED
      BY <3>2, <3>3
  <2> HIDE DEF n, r
  <2> QED
    BY <1>1, <2>1
<1>3. base \in Nat /\ a \in Nat /\ total \in Nat
  BY <1>1, <1>2
<1>4. total \div BlockSize = m + n /\ total % BlockSize = r
  <2>1. (m + n) * BlockSize = base + a
    BY <1>1, <1>2
  <2>2. (m + n) * BlockSize = BlockSize * (m + n)
    BY <1>1, <1>2
  <2>3. total = BlockSize * (m + n) + r
    <3> DEFINE t == BlockSize * (m + n)
    <3>1. t = base + a
      BY <2>1, <2>2
    <3> HIDE DEF t, base, a, n, r, len
    <3>2. total = t + r
      BY <1>2, <1>3, <3>1
    <3> QED
      BY <3>2 DEF t
  <2> DEFINE q == m + n
  <2>4. q \in Int /\ total \in Int /\ r \in 0 .. BlockSize - 1
    BY <1>2, <1>3
  <2> HIDE DEF total, n, r, q
  <2>5. total \div BlockSize = q /\ total % BlockSize = r
    BY <1>1, <2>3, <2>4, DivModUnique, Zenon DEF q
  <2> QED
    BY <2>5 DEF q
<1>5. /\ Blocks(text, m) \in Seq(Block)
      /\ Len(Blocks(text, m)) = m
      /\ \A k \in 1 .. m :
           Blocks(text, m)[k] = BlockAt(text, (k - 1) * BlockSize)
  <2>1. m * BlockSize <= Len(text)
    <3> HIDE DEF len
    <3> QED
      BY <1>1, <1>3 DEF base, len
  <2> QED
    BY <2>1, BlocksType
<1>6. /\ whole \in Seq(Block)
      /\ Len(whole) = n
      /\ \A k \in 1 .. n : whole[k] = BlockAt(data, (k - 1) * BlockSize)
  <2>1. n * BlockSize <= Len(data)
    BY <1>2, <1>3
  <2> HIDE DEF n
  <2> QED
    BY <1>2, <2>1, BlocksType
<1>7. \A k \in 1 .. n :
        BlockAt(data, (k - 1) * BlockSize)
          = BlockAt(text, (m + k - 1) * BlockSize)
  <2> SUFFICES ASSUME NEW k \in 1 .. n, NEW i \in Slots
               PROVE  data[(k - 1) * BlockSize + i + 1]
                        = text[(m + k - 1) * BlockSize + i + 1]
    BY DEF BlockAt
  <2> DEFINE b == (k - 1) * BlockSize
  <2> HIDE DEF n
  <2>1. b \in Nat /\ b + BlockSize <= a
    <3> DEFINE c == k * BlockSize
    <3>1. b \in Nat /\ b + BlockSize = c /\ c <= a
      BY <1>2, BlockBounds
    <3> QED
      BY <3>1
  <2>2. (m + k - 1) * BlockSize = base + b
    BY <1>1, <1>2
  <2>3. i \in 0 .. BlockSize - 1
    BY DEF Slots
  <2> HIDE DEF a, b, base, len, r
  <2>4. b + i + 1 \in 1 .. len
    BY <1>1, <1>2, <1>3, <2>1, <2>3
  <2>5. data[b + i + 1] = text[base + (b + i + 1)]
    BY <2>4 DEF base, len
  <2>6. base + (b + i + 1) = (base + b) + i + 1
    BY <1>3, <2>1, <2>3
  <2> QED
    BY <2>2, <2>5, <2>6 DEF b
<1>8. buf' = Blocks(text, m + n)
  <2>1. buf' = Blocks(text, m) \o whole
    BY DEF Absorb
  <2> HIDE DEF n, whole
  <2>2. /\ buf' \in Seq(Block)
        /\ Len(buf') = m + n
        /\ \A k \in 1 .. m + n :
             buf'[k] = IF k <= m THEN Blocks(text, m)[k] ELSE whole[k - m]
    <3> DEFINE first == Blocks(text, m)
    <3>1. first \in Seq(Block) /\ whole \in Seq(Block)
      BY <1>5, <1>6
    <3> HIDE DEF first
    <3>2. /\ first \o whole \in Seq(Block)
          /\ Len(first \o whole) = Len(first) + Len(whole)
          /\ \A k \in 1 .. Len(first) + Len(whole) :
               (first \o whole)[k] =
                 IF k <= Len(first) THEN first[k] ELSE whole[k - Len(first)]
      BY <3>1, ConcatProperties, Zenon
    <3>3. Len(first) = m /\ Len(whole) = n /\ buf' = first \o whole
      BY <1>5, <1>6, <2>1 DEF first
    <3> QED
      BY <3>2, <3>3 DEF first
  <2>3. ASSUME NEW k \in 1 .. m + n
        PROVE  buf'[k] = BlockAt(text, (k - 1) * BlockSize)
    <3>1. CASE k <= m
      BY <1>5, <2>2, <3>1
    <3>2. CASE k > m
      <4> DEFINE j == k - m
      <4>1. j \in 1 .. n /\ m + j - 1 = k - 1
        BY <1>2, <3>2
      <4>2. buf'[k] = whole[j]
        BY <2>2, <3>2
      <4> HIDE DEF j
      <4> QED
        BY <1>6, <1>7, <4>1, <4>2
    <3> QED
      BY <1>2, <3>1, <3>2
  <2>4. buf' = [k \in 1 .. m + n |-> buf'[k]]
    BY <1>2, <2>2
  <2> QED
    BY <2>3, <2>4 DEF Blocks
<1>9. rest \in Seq(Byte) /\ Len(rest) = r
      /\ \A j \in 1 .. r : rest[j] = data[a + j]
  <2> HIDE DEF a, r
  <2>1. len \in a .. Len(data) /\ len - a = r
    BY <1>1, <1>2, <1>3
  <2> HIDE DEF len
  <2> QED
    BY <1>3, <2>1, Piece
<1>10. last \in Block
  <2> HIDE DEF n, whole
  <2> QED
    BY <1>2, <1>6
<1>11. in' = Put(last, 0, rest)
  BY DEF Absorb
<1>12. /\ in' \in Block
       /\ \A i \in 0 .. r - 1 : in'[i] = rest[i + 1]
  <2> HIDE DEF last, rest, r
  <2>1. \A i \in 0 .. r - 1 : i \in Slots
    BY <1>1, <1>2 DEF Slots
  <2> QED
    <3>1. /\ in' \in Block
          /\ \A i \in Slots : 0 <= i /\ i < 0 + Len(rest)
                                => in'[i] = rest[i - 0 + 1]
      BY <1>9, <1>10, <1>11, PutBytes
    <3>2. ASSUME NEW i \in 0 .. r - 1
          PROVE  in'[i] = rest[i + 1]
      <4>1. i \in Slots /\ 0 <= i /\ i < 0 + Len(rest) /\ i - 0 + 1 = i + 1
        BY <1>2, <1>9, <2>1
      <4> QED
        BY <3>1, <4>1
    <3> QED
      BY <3>1, <3>2
<1>13. \A i \in 0 .. r - 1 : in'[i] = text[(m + n) * BlockSize + i + 1]
  <2> SUFFICES ASSUME NEW i \in 0 .. r - 1
               PROVE  in'[i] = text[(m + n) * BlockSize + i + 1]
    OBVIOUS
  <2>1. (m + n) * BlockSize = base + a
    BY <1>1, <1>2
  <2> HIDE DEF a, base, len, r, rest, n
  <2>2. i + 1 \in 1 .. r /\ a + (i + 1) \in 1 .. len
    BY <1>1, <1>2, <1>3
  <2>3. in'[i] = data[a + (i + 1)]
    BY <1>9, <1>12, <2>2
  <2>4. data[a + (i + 1)] = text[base + (a + (i + 1))]
    BY <2>2 DEF base, len
  <2>5. base + (a + (i + 1)) = (base + a) + i + 1
    BY <1>2, <1>3
  <2> QED
    BY <2>1, <2>3, <2>4, <2>5
<1> HIDE DEF total, n, r
<1> QED
  <2>1. Describes(buf', in', text, total)
    BY <1>4, <1>8, <1>13 DEF Describes
  <2> QED
    BY <1>12, <2>1 DEF total

(* A number below the modulus is its own remainder. *)
LEMMA SmallMod ==
  ASSUME NEW b \in Nat \ {0}, NEW r \in 0 .. b - 1
  PROVE  r % b = r
<1>1. 0 \in Int /\ r \in Int /\ r = b * 0 + r
  OBVIOUS
<1> QED
  BY <1>1, DivModUnique, Zenon

(* MD5Update keeps the context a description of everything added, however
   much was waiting in the block and however long the piece is. *)
LEMMA UpdateDescribes ==
  ASSUME NEW text \in Seq(Byte), NEW n \in Nat, NEW len \in Nat,
         len < WordMax, n + len <= Len(text),
         bits = BitCount(n), in \in Block, Describes(buf, in, text, n),
         MD5Update(SubSeq(text, n + 1, n + len))
  PROVE  /\ bits' = BitCount(n + len)
         /\ Describes(buf', in', text, n + len)
         /\ in' \in Block
<1> DEFINE piece == SubSeq(text, n + 1, n + len)
           data == SubSeq(piece, 1, len)
           m == n \div BlockSize
           used == n % BlockSize
           room == BlockSize - used
           base == m * BlockSize
<1>1. /\ BlockSize \in Nat \ {0}
      /\ WordMax \in Nat \ {0}
      /\ m \in Nat
      /\ used \in 0 .. BlockSize - 1
      /\ base \in Nat
      /\ n = base + used
  <2>1. BlockSize \in Nat \ {0} /\ WordMax \in Nat \ {0} /\ n \in Int
    BY SizesAssumption
  <2>2. m \in Nat
    BY <2>1, DivNat, Zenon
  <2>3. used \in 0 .. BlockSize - 1 /\ n = BlockSize * m + used
    BY <2>1, DivMod, Zenon
  <2> HIDE DEF m, used
  <2>4. base \in Nat /\ BlockSize * m = base
    BY <2>1, <2>2
  <2> QED
    BY <2>1, <2>2, <2>3, <2>4
<1>2. /\ piece \in Seq(Byte)
      /\ Len(piece) = len
      /\ \A j \in 1 .. len : piece[j] = text[n + j]
  <2>1. n + len \in n .. Len(text) /\ (n + len) - n = len
    OBVIOUS
  <2> QED
    BY <2>1, Piece
<1>3. /\ data \in Seq(Byte)
      /\ Len(data) = len
      /\ \A j \in 1 .. len : data[j] = text[n + j]
  <2> HIDE DEF piece
  <2>1. /\ SubSeq(piece, 0 + 1, len) \in Seq(Byte)
        /\ Len(SubSeq(piece, 0 + 1, len)) = len - 0
        /\ \A j \in 1 .. len - 0 : SubSeq(piece, 0 + 1, len)[j] = piece[0 + j]
    <3>1. 0 \in Nat /\ len \in 0 .. Len(piece)
      BY <1>2
    <3> QED
      BY <1>2, <3>1, Piece
  <2>2. 0 + 1 = 1 /\ len - 0 = len /\ \A j \in 1 .. len : 0 + j = j
    OBVIOUS
  <2> QED
    BY <1>2, <2>1, <2>2
<1>4. len % WordMax = len
  <2>1. len \in 0 .. WordMax - 1
    BY <1>1
  <2> QED
    BY <1>1, <2>1, SmallMod
<1>5. Used(bits) = used
  BY UsedCorrect
<1>6. /\ buf = Blocks(text, m)
      /\ \A i \in 0 .. used - 1 : in[i] = text[base + i + 1]
  BY DEF Describes
<1>7. /\ bits' = AddBits(bits, len)
      /\ \/ /\ used > 0
            /\ len < room
            /\ in' = Put(in, used, data)
            /\ UNCHANGED buf
         \/ /\ used > 0
            /\ len >= room
            /\ LET full == Put(in, used, SubSeq(data, 1, room))
               IN Absorb(MD5Transform(buf, full), full,
                         SubSeq(data, room + 1, len))
         \/ /\ used = 0
            /\ Absorb(buf, in, data)
  <2> HIDE DEF used
  <2> QED
    BY <1>2, <1>4, <1>5 DEF MD5Update
<1>8. bits' = BitCount(n + len)
  BY <1>7, AddBitsCorrect
<1>9. PICK block \in Block : block = in
  OBVIOUS
<1> HIDE DEF piece, data, m, used, base
<1>10. CASE /\ used > 0
            /\ len < room
            /\ in' = Put(in, used, data)
            /\ UNCHANGED buf
  <2>1. /\ in' \in Block
        /\ \A i \in Slots :
             /\ used <= i /\ i < used + len => in'[i] = data[i - used + 1]
             /\ i < used => in'[i] = in[i]
    <3>1. used \in Nat /\ in' = Put(block, used, data)
      BY <1>1, <1>9, <1>10
    <3>2. /\ Put(block, used, data) \in Block
          /\ \A i \in Slots :
               /\ used <= i /\ i < used + Len(data)
                    => Put(block, used, data)[i] = data[i - used + 1]
               /\ i < used \/ i >= used + Len(data)
                    => Put(block, used, data)[i] = block[i]
      BY <1>3, <3>1, PutBytes
    <3> QED
      BY <1>3, <1>9, <3>1, <3>2
  <2>2. (n + len) \div BlockSize = m /\ (n + len) % BlockSize = used + len
    <3> DEFINE t == n + len
               r == used + len
    <3>1. /\ t \in Int
          /\ m \in Int
          /\ r \in 0 .. BlockSize - 1
          /\ t = BlockSize * m + r
      <4>1. BlockSize * m = base
        BY <1>1 DEF base
      <4> QED
        BY <1>1, <1>10, <4>1
    <3> HIDE DEF t, r
    <3>2. t \div BlockSize = m /\ t % BlockSize = r
      BY <1>1, <3>1, DivModUnique, Zenon
    <3> QED
      BY <3>2 DEF t, r
  <2>3. ASSUME NEW i \in 0 .. (used + len) - 1
        PROVE  in'[i] = text[base + i + 1]
    <3>1. i \in Slots
      BY <1>1, <1>10 DEF Slots
    <3>2. CASE i < used
      BY <1>1, <1>6, <2>1, <3>1, <3>2
    <3>3. CASE i >= used
      <4>1. in'[i] = data[i - used + 1]
        BY <1>1, <2>1, <3>1, <3>3
      <4>2. i - used + 1 \in 1 .. len
        BY <1>1, <3>3
      <4>3. data[i - used + 1] = text[n + (i - used + 1)]
        BY <1>3, <4>2
      <4>4. n + (i - used + 1) = base + i + 1
        BY <1>1
      <4> QED
        BY <4>1, <4>3, <4>4
    <3> QED
      BY <1>1, <3>2, <3>3
  <2> QED
    BY <1>6, <1>8, <1>10, <2>1, <2>2, <2>3 DEF Describes, base
<1>11. CASE /\ used > 0
            /\ len >= room
            /\ LET full == Put(in, used, SubSeq(data, 1, room))
               IN Absorb(MD5Transform(buf, full), full,
                         SubSeq(data, room + 1, len))
  <2> DEFINE head == SubSeq(data, 1, room)
             tail == SubSeq(data, room + 1, len)
  <2>1. room \in 1 .. BlockSize /\ room \in 0 .. len
    BY <1>1, <1>11
  <2>2. /\ head \in Seq(Byte)
        /\ Len(head) = room
        /\ \A j \in 1 .. room : head[j] = data[j]
    <3>1. /\ SubSeq(data, 0 + 1, room) \in Seq(Byte)
          /\ Len(SubSeq(data, 0 + 1, room)) = room - 0
          /\ \A j \in 1 .. room - 0 : SubSeq(data, 0 + 1, room)[j] = data[0 + j]
      <4>1. 0 \in Nat /\ room \in 0 .. Len(data)
        BY <1>3, <2>1
      <4> HIDE DEF room
      <4> QED
        BY <1>3, <4>1, Piece
    <3>2. 0 + 1 = 1 /\ room - 0 = room /\ \A j \in 1 .. room : 0 + j = j
      BY <2>1
    <3> HIDE DEF room
    <3> QED
      BY <3>1, <3>2
  <2>3. /\ tail \in Seq(Byte)
        /\ Len(tail) = len - room
        /\ \A j \in 1 .. len - room : tail[j] = data[room + j]
    <3>1. room \in Nat /\ len \in room .. Len(data)
      BY <1>3, <2>1
    <3> HIDE DEF room
    <3> QED
      BY <1>3, <3>1, Piece
  <2>4. PICK full \in Block :
          /\ full = Put(block, used, head)
          /\ \A i \in Slots :
               /\ used <= i /\ i < used + room => full[i] = head[i - used + 1]
               /\ i < used => full[i] = block[i]
    <3> HIDE DEF head
    <3>1. used \in Nat /\ head \in Seq(Byte)
      BY <1>1, <2>2
    <3>2. /\ Put(block, used, head) \in Block
          /\ \A i \in Slots :
               /\ used <= i /\ i < used + Len(head)
                    => Put(block, used, head)[i] = head[i - used + 1]
               /\ i < used \/ i >= used + Len(head)
                    => Put(block, used, head)[i] = block[i]
      BY <3>1, PutBytes, Zenon
    <3> QED
      BY <2>2, <3>2
  <2>5. full = BlockAt(text, base)
    <3>1. ASSUME NEW i \in Slots
          PROVE  full[i] = text[base + i + 1]
      <4>1. i \in 0 .. BlockSize - 1
        BY DEF Slots
      <4>2. CASE i < used
        BY <1>1, <1>6, <1>9, <2>4, <4>1, <4>2
      <4>3. CASE i >= used
        <5> HIDE DEF head
        <5>1. i < used + room /\ i - used + 1 \in 1 .. room
          BY <1>1, <4>1, <4>3
        <5>2. full[i] = data[i - used + 1]
          BY <2>2, <2>4, <4>3, <5>1
        <5>3. i - used + 1 \in 1 .. len
          BY <2>1, <5>1
        <5>4. data[i - used + 1] = text[n + (i - used + 1)]
          BY <1>3, <5>3
        <5>5. n + (i - used + 1) = base + i + 1
          BY <1>1, <4>1
        <5> QED
          BY <5>2, <5>4, <5>5
      <4> QED
        BY <1>1, <4>1, <4>2, <4>3
    <3>2. full = [i \in Slots |-> full[i]]
      BY DEF Block
    <3> QED
      BY <3>1, <3>2 DEF BlockAt
  <2>6. base + BlockSize = (m + 1) * BlockSize /\ m + 1 \in Nat
    BY <1>1 DEF base
  <2>7. base + BlockSize = n + room
    BY <1>1
  <2>8. Append(Blocks(text, m), full) = Blocks(text, m + 1)
    <3>1. m * BlockSize <= Len(text) /\ (m + 1) * BlockSize <= Len(text)
      <4>1. base + BlockSize <= Len(text) /\ base <= Len(text)
        BY <1>1, <2>1, <2>7
      <4> QED
        BY <2>6, <4>1 DEF base
    <3>2. /\ Blocks(text, m) \in Seq(Block)
          /\ Len(Blocks(text, m)) = m
          /\ \A k \in 1 .. m :
               Blocks(text, m)[k] = BlockAt(text, (k - 1) * BlockSize)
      BY <1>1, <3>1, BlocksType
    <3> DEFINE first == Blocks(text, m)
               both == Append(first, full)
    <3> HIDE DEF first
    <3>3. /\ both \in Seq(Block)
          /\ Len(both) = m + 1
          /\ \A k \in 1 .. m : both[k] = BlockAt(text, (k - 1) * BlockSize)
          /\ both[m + 1] = full
      BY <3>2, AppendProperties DEF first
    <3> HIDE DEF both
    <3>4. ASSUME NEW k \in 1 .. m + 1
          PROVE  both[k] = BlockAt(text, (k - 1) * BlockSize)
      <4>1. CASE k \in 1 .. m
        BY <3>3, <4>1
      <4>2. CASE k = m + 1
        <5>1. k - 1 = m
          BY <1>1, <4>2
        <5> QED
          BY <2>5, <3>3, <4>2, <5>1 DEF base
      <4> QED
        BY <1>1, <4>1, <4>2
    <3>5. both = [k \in 1 .. m + 1 |-> both[k]]
      BY <2>6, <3>3
    <3>6. both = Blocks(text, m + 1)
      BY <3>4, <3>5 DEF Blocks
    <3> QED
      BY <3>6 DEF both, first
  <2>9. Absorb(Blocks(text, m + 1), full, tail)
    BY <1>6, <1>9, <1>11, <2>4, <2>8 DEF MD5Transform
  <2>10. (m + 1) * BlockSize + Len(tail) = n + len
    <3> DEFINE next == (m + 1) * BlockSize
    <3> HIDE DEF tail, room, next
    <3>1. next = n + room
      BY <2>6, <2>7 DEF next
    <3>2. room \in Nat /\ Len(tail) = len - room
      BY <2>1, <2>3
    <3>3. next + Len(tail) = n + len
      BY <3>1, <3>2
    <3> QED
      BY <3>3 DEF next
  <2>11. ASSUME NEW j \in 1 .. Len(tail)
         PROVE  tail[j] = text[(m + 1) * BlockSize + j]
    <3> DEFINE next == (m + 1) * BlockSize
    <3> HIDE DEF tail, room, next
    <3>1. room + j \in 1 .. len /\ n + (room + j) = next + j
      <4>1. next = n + room /\ room \in Nat /\ j \in 1 .. len - room
        BY <2>1, <2>3, <2>6, <2>7 DEF next
      <4> QED
        BY <4>1
    <3>2. tail[j] = data[room + j]
      BY <2>3
    <3> QED
      BY <1>3, <3>1, <3>2 DEF next
  <2>12. /\ Describes(buf', in', text, (m + 1) * BlockSize + Len(tail))
         /\ in' \in Block
    <3> DEFINE q == m + 1
    <3>1. q \in Nat /\ q * BlockSize + Len(tail) <= Len(text)
      BY <2>6, <2>10
    <3>2. /\ \A j \in 1 .. Len(tail) : tail[j] = text[q * BlockSize + j]
          /\ Absorb(Blocks(text, q), full, tail)
          /\ tail \in Seq(Byte)
      BY <2>3, <2>9, <2>11
    <3> HIDE DEF q, tail
    <3>3. /\ Describes(buf', in', text, q * BlockSize + Len(tail))
          /\ in' \in Block
      BY <3>1, <3>2, AbsorbDescribes
    <3> QED
      BY <3>3 DEF q
  <2> QED
    BY <1>8, <2>10, <2>12
<1>12. CASE used = 0 /\ Absorb(buf, in, data)
  <2>1. m * BlockSize = n
    BY <1>1, <1>12 DEF base
  <2>2. /\ m * BlockSize + Len(data) = n + len
        /\ \A j \in 1 .. Len(data) : data[j] = text[m * BlockSize + j]
        /\ Absorb(Blocks(text, m), block, data)
    BY <1>3, <1>6, <1>9, <1>12, <2>1
  <2>3. /\ Describes(buf', in', text, m * BlockSize + Len(data))
        /\ in' \in Block
    BY <1>1, <1>3, <2>2, AbsorbDescribes
  <2> QED
    BY <1>8, <2>2, <2>3
<1> QED
  BY <1>7, <1>10, <1>11, <1>12

----------------------------------------------------------------------------
(* The padding.                                                            *)

(* The length field is a run of bytes of fixed length. *)
LEMMA LengthFieldType ==
  ASSUME NEW count \in Word \X Word
  PROVE  /\ LengthField(count) \in Seq(Byte)
         /\ Len(LengthField(count)) = LengthBytes
<1>1. WordBytes \in 1 .. 4 /\ WordMax \in Nat \ {0} /\ LengthBytes \in Nat
  BY SizesAssumption DEF LengthBytes
<1>2. ASSUME NEW word \in Word, NEW i \in 0 .. WordBytes - 1
      PROVE  ByteOf(word, i) \in Byte
  <2>1. i + 1 \in {1, 2, 3, 4}
    BY <1>1
  <2>2. ByteWeight[i + 1] \in Nat \ {0}
    BY <2>1 DEF ByteWeight
  <2>3. PICK w \in Nat \ {0} : w = ByteWeight[i + 1]
    BY <2>2
  <2>4. word \in Nat
    BY DEF Word
  <2>5. word \div w \in Nat
    BY <2>4, DivNat
  <2>6. (word \div w) % 256 \in 0 .. 255
    <3> DEFINE q == word \div w
    <3>1. q \in Nat
      BY <2>5
    <3> HIDE DEF q
    <3>2. q % 256 \in 0 .. 255
      BY <3>1
    <3> QED
      BY <3>2 DEF q
  <2> QED
    BY <2>3, <2>6 DEF ByteOf, Byte
<1>3. count[1] \in Word /\ count[2] \in Word
  OBVIOUS
<1>4. ASSUME NEW i \in 1 .. LengthBytes
      PROVE  (IF i <= WordBytes THEN ByteOf(count[1], i - 1)
                                ELSE ByteOf(count[2], i - 1 - WordBytes))
               \in Byte
  <2>1. CASE i <= WordBytes
    <3>1. i - 1 \in 0 .. WordBytes - 1
      BY <1>1, <2>1
    <3> QED
      BY <1>2, <1>3, <2>1, <3>1
  <2>2. CASE ~(i <= WordBytes)
    <3>1. i - 1 - WordBytes \in 0 .. WordBytes - 1
      BY <1>1, <2>2 DEF LengthBytes
    <3> QED
      BY <1>2, <1>3, <2>2, <3>1
  <2> QED
    BY <2>1, <2>2
<1> QED
  BY <1>1, <1>4 DEF LengthField

(* As many zeros as reach the length field of this block, or of the next when
   this one has no room for it. *)
LEMMA PadLengthIs ==
  ASSUME NEW m \in Nat, NEW used \in 0 .. BlockSize - 1, NEW n \in Nat,
         n = m * BlockSize + used
  PROVE  PadLength(n) = IF BlockSize - 1 - used < LengthBytes
                        THEN 2 * BlockSize - 1 - used - LengthBytes
                        ELSE BlockSize - 1 - used - LengthBytes
<1>1. /\ BlockSize \in Nat \ {0}
      /\ LengthBytes \in Nat
      /\ BlockSize > LengthBytes
  BY SizesAssumption DEF LengthBytes
<1> DEFINE x == -(n + 1 + LengthBytes)
           base == m * BlockSize
<1>2. base \in Int /\ x \in Int /\ n = base + used
  BY <1>1
<1>3. CASE BlockSize - 1 - used < LengthBytes
  <2> DEFINE q == -(m + 2)
             r == 2 * BlockSize - 1 - used - LengthBytes
             t == BlockSize * q
  <2>1. t = -base - 2 * BlockSize /\ q \in Int
    BY <1>1
  <2>2. r \in 0 .. BlockSize - 1
    BY <1>1, <1>3
  <2> HIDE DEF base, t
  <2>3. x = t + r
    BY <1>1, <1>2, <2>1
  <2> HIDE DEF x, q, r
  <2>4. x % BlockSize = r
    BY <1>1, <1>2, <2>1, <2>2, <2>3, DivModUnique, Zenon DEF t
  <2> QED
    BY <1>3, <2>4 DEF PadLength, x, r
<1>4. CASE ~(BlockSize - 1 - used < LengthBytes)
  <2> DEFINE q == -(m + 1)
             r == BlockSize - 1 - used - LengthBytes
             t == BlockSize * q
  <2>1. t = -base - BlockSize /\ q \in Int
    BY <1>1
  <2>2. r \in 0 .. BlockSize - 1
    BY <1>1, <1>4
  <2> HIDE DEF base, t
  <2>3. x = t + r
    BY <1>1, <1>2, <2>1
  <2> HIDE DEF x, q, r
  <2>4. x % BlockSize = r
    BY <1>1, <1>2, <2>1, <2>2, <2>3, DivModUnique, Zenon DEF t
  <2> QED
    BY <1>4, <2>4 DEF PadLength, x, r
<1> QED
  BY <1>3, <1>4

(* The padded message, byte by byte. *)
LEMMA PaddedBytes ==
  ASSUME NEW msg \in Seq(Byte), PadLength(Len(msg)) \in Nat
  PROVE  LET n == Len(msg)
             pad == PadLength(n)
             field == LengthField(BitCount(n))
         IN /\ Padded(msg) \in Seq(Byte)
            /\ Len(Padded(msg)) = n + 1 + pad + LengthBytes
            /\ \A j \in 1 .. n : Padded(msg)[j] = msg[j]
            /\ Padded(msg)[n + 1] = 128
            /\ \A j \in n + 2 .. n + 1 + pad : Padded(msg)[j] = 0
            /\ \A j \in 1 .. LengthBytes :
                 Padded(msg)[n + 1 + pad + j] = field[j]
<1> DEFINE n == Len(msg)
           pad == PadLength(n)
           field == LengthField(BitCount(n))
           zeros == Zeros(pad)
           one == <<128>>
           a == msg \o one
           b == a \o zeros
           c == b \o field
<1>1. n \in Nat /\ pad \in Nat /\ LengthBytes \in Nat
  BY SizesAssumption DEF LengthBytes
<1>2. field \in Seq(Byte) /\ Len(field) = LengthBytes
  BY <1>1, BitCountType, LengthFieldType
<1>3. one \in Seq(Byte) /\ Len(one) = 1 /\ one[1] = 128
  BY DEF Byte
<1>4. /\ zeros \in Seq(Byte)
      /\ Len(zeros) = pad
      /\ \A j \in 1 .. pad : zeros[j] = 0
  <2> HIDE DEF pad
  <2> QED
    BY <1>1 DEF Zeros, Byte
<1>5. c = Padded(msg)
  BY DEF Padded
<1> HIDE DEF pad, field, zeros, one
<1>6. /\ a \in Seq(Byte)
      /\ Len(a) = n + 1
      /\ \A j \in 1 .. n : a[j] = msg[j]
      /\ a[n + 1] = 128
  <2>1. /\ a \in Seq(Byte)
        /\ Len(a) = Len(msg) + Len(one)
        /\ \A j \in 1 .. Len(msg) + Len(one) :
             a[j] = IF j <= Len(msg) THEN msg[j] ELSE one[j - Len(msg)]
    <3>1. msg \in Seq(Byte) /\ one \in Seq(Byte)
      BY <1>3
    <3>2. /\ msg \o one \in Seq(Byte)
          /\ Len(msg \o one) = Len(msg) + Len(one)
          /\ \A j \in 1 .. Len(msg) + Len(one) :
               (msg \o one)[j] =
                 IF j <= Len(msg) THEN msg[j] ELSE one[j - Len(msg)]
      BY <3>1, ConcatProperties, Zenon
    <3> QED
      BY <3>2
  <2>2. (n + 1) - n = 1 /\ n + 1 \in 1 .. n + 1 /\ ~(n + 1 <= n)
    BY <1>1
  <2> HIDE DEF a
  <2>3. a[n + 1] = one[1]
    BY <1>3, <2>1, <2>2
  <2>4. \A j \in 1 .. n : a[j] = msg[j]
    BY <1>1, <1>3, <2>1
  <2> QED
    BY <1>1, <1>3, <2>1, <2>3, <2>4
<1> HIDE DEF a
<1>7. /\ b \in Seq(Byte)
      /\ Len(b) = n + 1 + pad
      /\ \A j \in 1 .. n + 1 : b[j] = a[j]
      /\ \A j \in n + 2 .. n + 1 + pad : b[j] = 0
  <2>1. /\ b \in Seq(Byte)
        /\ Len(b) = Len(a) + Len(zeros)
        /\ \A j \in 1 .. Len(a) + Len(zeros) :
             b[j] = IF j <= Len(a) THEN a[j] ELSE zeros[j - Len(a)]
    <3>1. a \in Seq(Byte) /\ zeros \in Seq(Byte)
      BY <1>4, <1>6
    <3>2. /\ a \o zeros \in Seq(Byte)
          /\ Len(a \o zeros) = Len(a) + Len(zeros)
          /\ \A j \in 1 .. Len(a) + Len(zeros) :
               (a \o zeros)[j] =
                 IF j <= Len(a) THEN a[j] ELSE zeros[j - Len(a)]
      BY <3>1, ConcatProperties, Zenon
    <3> QED
      BY <3>2
  <2> HIDE DEF b, n
  <2>2. \A j \in 1 .. n + 1 : b[j] = a[j]
    BY <1>1, <1>4, <1>6, <2>1
  <2>3. ASSUME NEW j \in n + 2 .. n + 1 + pad
        PROVE  b[j] = 0
    <3>1. j - (n + 1) \in 1 .. pad /\ ~(j <= n + 1) /\ j \in 1 .. n + 1 + pad
      BY <1>1
    <3> QED
      BY <1>4, <1>6, <2>1, <3>1
  <2> QED
    BY <1>1, <1>4, <1>6, <2>1, <2>2, <2>3
<1> HIDE DEF b
<1>8. /\ c \in Seq(Byte)
      /\ Len(c) = n + 1 + pad + LengthBytes
      /\ \A j \in 1 .. n + 1 + pad : c[j] = b[j]
      /\ \A j \in 1 .. LengthBytes : c[n + 1 + pad + j] = field[j]
  <2>1. /\ c \in Seq(Byte)
        /\ Len(c) = Len(b) + Len(field)
        /\ \A j \in 1 .. Len(b) + Len(field) :
             c[j] = IF j <= Len(b) THEN b[j] ELSE field[j - Len(b)]
    BY <1>2, <1>7, ConcatProperties, Zenon
  <2> HIDE DEF c, n
  <2>2. \A j \in 1 .. n + 1 + pad : c[j] = b[j]
    BY <1>1, <1>2, <1>7, <2>1
  <2>3. ASSUME NEW j \in 1 .. LengthBytes
        PROVE  c[n + 1 + pad + j] = field[j]
    <3>1. /\ (n + 1 + pad + j) - (n + 1 + pad) = j
          /\ ~(n + 1 + pad + j <= n + 1 + pad)
          /\ n + 1 + pad + j \in 1 .. n + 1 + pad + LengthBytes
      BY <1>1
    <3> QED
      BY <1>2, <1>7, <2>1, <3>1
  <2> QED
    BY <1>1, <1>2, <1>7, <2>1, <2>2, <2>3
<1>9. /\ \A j \in 1 .. n : c[j] = msg[j]
      /\ c[n + 1] = 128
      /\ \A j \in n + 2 .. n + 1 + pad : c[j] = 0
  <2> HIDE DEF c, n
  <2>1. ASSUME NEW j \in 1 .. n
        PROVE  c[j] = msg[j]
    BY <1>1, <1>6, <1>7, <1>8
  <2>2. n + 1 \in 1 .. n + 1 /\ n + 1 \in 1 .. n + 1 + pad
    BY <1>1
  <2>3. c[n + 1] = 128
    BY <1>6, <1>7, <1>8, <2>2
  <2>4. ASSUME NEW j \in n + 2 .. n + 1 + pad
        PROVE  c[j] = 0
    BY <1>1, <1>7, <1>8
  <2> QED
    BY <2>1, <2>3, <2>4
<1> HIDE DEF c
<1> QED
  BY <1>5, <1>8, <1>9 DEF pad, field

(* Zeros are bytes. *)
LEMMA ZerosType ==
  ASSUME NEW n \in Nat
  PROVE  /\ Zeros(n) \in Seq(Byte)
         /\ Len(Zeros(n)) = n
         /\ \A j \in 1 .. n : Zeros(n)[j] = 0
  BY DEF Zeros, Byte

(* The last block of a message: what is in it before the length field, zeros
   from some slot on, and the field. *)
LEMMA ClosedBlock ==
  ASSUME NEW block \in Block, NEW at \in Nat, NEW count \in Word \X Word,
         at <= BlockSize - LengthBytes
  PROVE  LET field == BlockSize - LengthBytes
             closed == Put(Put(block, at, Zeros(field - at)),
                           field, LengthField(count))
         IN /\ closed \in Block
            /\ \A i \in Slots :
                 closed[i] = IF i < at THEN block[i]
                             ELSE IF i < field THEN 0
                             ELSE LengthField(count)[i - field + 1]
<1> DEFINE field == BlockSize - LengthBytes
           zeros == Zeros(field - at)
           length == LengthField(count)
           first == Put(block, at, zeros)
           closed == Put(first, field, length)
<1>1. /\ BlockSize \in Nat \ {0}
      /\ LengthBytes \in Nat
      /\ field \in Nat
      /\ field - at \in Nat
      /\ BlockSize = field + LengthBytes
  BY SizesAssumption DEF LengthBytes
<1>2. /\ zeros \in Seq(Byte)
      /\ Len(zeros) = field - at
      /\ \A j \in 1 .. field - at : zeros[j] = 0
  BY <1>1, ZerosType
<1>3. length \in Seq(Byte) /\ Len(length) = LengthBytes
  BY LengthFieldType
<1> HIDE DEF zeros, length, field
<1>4. /\ first \in Block
      /\ \A i \in Slots :
           /\ at <= i /\ i < at + Len(zeros) => first[i] = zeros[i - at + 1]
           /\ i < at \/ i >= at + Len(zeros) => first[i] = block[i]
  BY <1>2, PutBytes
<1> HIDE DEF first
<1>5. /\ closed \in Block
      /\ \A i \in Slots :
           /\ field <= i /\ i < field + Len(length)
                => closed[i] = length[i - field + 1]
           /\ i < field \/ i >= field + Len(length) => closed[i] = first[i]
  BY <1>1, <1>3, <1>4, PutBytes
<1> HIDE DEF closed
<1>6. ASSUME NEW i \in Slots
      PROVE  closed[i] = IF i < at THEN block[i]
                         ELSE IF i < field THEN 0
                         ELSE length[i - field + 1]
  <2>1. i \in 0 .. BlockSize - 1
    BY DEF Slots
  <2>2. CASE i < at
    <3>1. i < field
      BY <1>1, <2>1, <2>2
    <3> QED
      BY <1>4, <1>5, <2>2, <3>1
  <2>3. CASE i >= at /\ i < field
    <3>1. i < at + Len(zeros) /\ i - at + 1 \in 1 .. field - at
      BY <1>1, <1>2, <2>1, <2>3
    <3>2. first[i] = 0
      BY <1>2, <1>4, <2>3, <3>1
    <3> QED
      BY <1>1, <1>5, <2>1, <2>3, <3>2
  <2>4. CASE i >= field
    <3>1. i < field + Len(length) /\ ~(i < at) /\ ~(i < field)
      BY <1>1, <1>3, <2>1, <2>4
    <3> QED
      BY <1>5, <2>4, <3>1
  <2> QED
    BY <1>1, <2>1, <2>2, <2>3, <2>4
<1> QED
  BY <1>5, <1>6 DEF closed, first, zeros, length, field

(* The blocks MD5Final absorbs are those of the padded message that the
   context has not absorbed yet. *)
LEMMA FinalBlocksArePadding ==
  ASSUME NEW text \in Seq(Byte), NEW n \in 0 .. Len(text),
         NEW chain, NEW block \in Block, Describes(chain, block, text, n)
  PROVE  LET msg == SubSeq(text, 1, n)
             m == n \div BlockSize
             last == FinalBlocks(block, BitCount(n))
         IN /\ last \in Seq(Block)
            /\ Len(last) \in {1, 2}
            /\ Len(Padded(msg)) = (m + Len(last)) * BlockSize
            /\ \A k \in 1 .. Len(last) :
                 last[k] = BlockAt(Padded(msg), (m + k - 1) * BlockSize)
            /\ Padded(msg) \in Seq(Byte)
            /\ \A j \in 1 .. n : Padded(msg)[j] = text[j]
<1> DEFINE msg == SubSeq(text, 1, n)
           m == n \div BlockSize
           count == BitCount(n)
           last == FinalBlocks(block, count)
           used == n % BlockSize
           base == m * BlockSize
           room == BlockSize - 1 - used
           pad == PadLength(n)
           length == LengthField(count)
           field == BlockSize - LengthBytes
           padded == Padded(msg)
           marked == Put(block, used, <<128>>)
<1>1. /\ BlockSize \in Nat \ {0}
      /\ LengthBytes \in Nat \ {0}
      /\ BlockSize > LengthBytes
      /\ field \in Nat
      /\ n \in Nat
  BY SizesAssumption DEF LengthBytes
<1>2. /\ m \in Nat
      /\ used \in 0 .. BlockSize - 1
      /\ base \in Nat
      /\ n = base + used
  <2>1. n \in Int
    BY <1>1
  <2>2. m \in Nat
    BY <1>1, DivNat, Zenon
  <2>3. used \in 0 .. BlockSize - 1 /\ n = BlockSize * m + used
    BY <1>1, <2>1, DivMod, Zenon
  <2> HIDE DEF m, used
  <2>4. base \in Nat /\ BlockSize * m = base
    BY <1>1, <2>2
  <2> QED
    BY <2>2, <2>3, <2>4
<1>3. count \in Word \X Word
  BY <1>1, BitCountType
<1>4. length \in Seq(Byte) /\ Len(length) = LengthBytes
  BY <1>3, LengthFieldType
<1>5. Used(count) = used
  BY <1>1, UsedCorrect
<1>6. msg \in Seq(Byte) /\ Len(msg) = n /\ \A j \in 1 .. n : msg[j] = text[j]
  <2>1. /\ SubSeq(text, 0 + 1, n) \in Seq(Byte)
        /\ Len(SubSeq(text, 0 + 1, n)) = n - 0
        /\ \A j \in 1 .. n - 0 : SubSeq(text, 0 + 1, n)[j] = text[0 + j]
    <3>1. 0 \in Nat
      OBVIOUS
    <3> QED
      BY <3>1, Piece
  <2>2. 0 + 1 = 1 /\ n - 0 = n /\ \A j \in 1 .. n : 0 + j = j
    BY <1>1
  <2> HIDE DEF msg
  <2> QED
    BY <2>1, <2>2 DEF msg
<1>7. pad = IF room < LengthBytes
            THEN 2 * BlockSize - 1 - used - LengthBytes
            ELSE BlockSize - 1 - used - LengthBytes
  <2> HIDE DEF m, used
  <2> QED
    BY <1>1, <1>2, PadLengthIs DEF base
<1>8. pad \in Nat
  <2> HIDE DEF pad, used
  <2> QED
    BY <1>1, <1>2, <1>7
<1>9. /\ padded \in Seq(Byte)
      /\ Len(padded) = n + 1 + pad + LengthBytes
      /\ \A j \in 1 .. n : padded[j] = msg[j]
      /\ padded[n + 1] = 128
      /\ \A j \in n + 2 .. n + 1 + pad : padded[j] = 0
      /\ \A j \in 1 .. LengthBytes : padded[n + 1 + pad + j] = length[j]
  <2> HIDE DEF msg
  <2> QED
    BY <1>6, <1>8, PaddedBytes
<1>10. \A i \in 0 .. used - 1 : block[i] = text[base + i + 1]
  BY DEF Describes
<1> HIDE DEF msg, m, count, used, pad, length, padded
<1>11. /\ marked \in Block
       /\ \A i \in Slots :
            /\ i < used => marked[i] = block[i]
            /\ i = used => marked[i] = 128
  <2>1. <<128>> \in Seq(Byte) /\ Len(<<128>>) = 1 /\ <<128>>[1] = 128
    BY DEF Byte
  <2>2. PICK bytes \in Seq(Byte) :
          bytes = <<128>> /\ Len(bytes) = 1 /\ bytes[1] = 128
    BY <2>1
  <2>3. used \in Nat
    BY <1>2
  <2>4. /\ Put(block, used, bytes) \in Block
        /\ \A i \in Slots :
             /\ used <= i /\ i < used + Len(bytes)
                  => Put(block, used, bytes)[i] = bytes[i - used + 1]
             /\ i < used \/ i >= used + Len(bytes)
                  => Put(block, used, bytes)[i] = block[i]
    BY <2>3, PutBytes
  <2>5. marked = Put(block, used, bytes)
    BY <2>2
  <2> HIDE DEF marked
  <2>6. used <= used /\ used < used + 1 /\ used - used + 1 = 1
    BY <2>3
  <2> QED
    BY <2>2, <2>3, <2>4, <2>5, <2>6
<1> HIDE DEF marked
(* What both cases have in common: the bytes up to the mark. *)
<1>12. ASSUME NEW i \in Slots, i <= used
       PROVE  marked[i] = padded[base + i + 1]
  <2>1. i \in 0 .. BlockSize - 1
    BY DEF Slots
  <2>2. CASE i < used
    <3>1. i \in 0 .. used - 1 /\ base + i + 1 \in 1 .. n
      BY <1>2, <2>1, <2>2
    <3> QED
      BY <1>6, <1>9, <1>10, <1>11, <2>2, <3>1
  <2>3. CASE i = used
    <3>1. base + i + 1 = n + 1
      BY <1>2, <2>3
    <3> QED
      BY <1>9, <1>11, <2>3, <3>1
  <2> QED
    BY <1>2, <1>12, <2>1, <2>2, <2>3
<1>13. CASE room < LengthBytes
  <2> DEFINE full == Put(marked, used + 1, Zeros(room))
             closed == Put(Put(full, 0, Zeros(field)), field, length)
  <2>1. last = <<full, closed>>
    BY <1>5, <1>13 DEF FinalBlocks, marked, length
  <2>2. room \in Nat /\ used + 1 \in Nat
    BY <1>1, <1>2
  <2>3. /\ Zeros(room) \in Seq(Byte)
        /\ Len(Zeros(room)) = room
        /\ \A j \in 1 .. room : Zeros(room)[j] = 0
    <3> HIDE DEF room
    <3> QED
      BY <2>2, ZerosType
  <2>4. /\ full \in Block
        /\ \A i \in Slots :
             full[i] = IF i <= used THEN marked[i] ELSE 0
    <3> DEFINE zeros == Zeros(room)
               at == used + 1
    <3> HIDE DEF zeros, at
    <3>1. /\ Put(marked, at, zeros) \in Block
          /\ \A i \in Slots :
               /\ at <= i /\ i < at + Len(zeros)
                    => Put(marked, at, zeros)[i] = zeros[i - at + 1]
               /\ i < at \/ i >= at + Len(zeros)
                    => Put(marked, at, zeros)[i] = marked[i]
      BY <1>11, <2>2, <2>3, PutBytes DEF zeros, at
    <3>2. full = Put(marked, at, zeros)
      BY DEF zeros, at
    <3>3. at = used + 1 /\ at \in Nat /\ Len(zeros) = room
      BY <2>2, <2>3 DEF zeros, at
    <3> HIDE DEF full
    <3>4. ASSUME NEW i \in Slots
          PROVE  full[i] = IF i <= used THEN marked[i] ELSE 0
      <4>1. i \in 0 .. BlockSize - 1
        BY DEF Slots
      <4>2. CASE i <= used
        <5>1. i < at
          BY <1>2, <3>3, <4>1, <4>2
        <5> QED
          BY <3>1, <3>2, <4>2, <5>1
      <4>3. CASE ~(i <= used)
        <5>1. at <= i /\ i < at + Len(zeros) /\ i - at + 1 \in 1 .. room
          BY <1>1, <1>2, <3>3, <4>1, <4>3
        <5>2. full[i] = zeros[i - at + 1]
          BY <3>1, <3>2, <5>1
        <5> QED
          BY <2>3, <4>3, <5>1, <5>2 DEF zeros
      <4> QED
        BY <4>2, <4>3
    <3> QED
      BY <3>1, <3>2, <3>4
  <2>5. /\ closed \in Block
        /\ \A i \in Slots :
             closed[i] = IF i < 0 THEN full[i]
                         ELSE IF i < field THEN 0
                         ELSE length[i - field + 1]
    <3> HIDE DEF full
    <3>1. 0 \in Nat /\ 0 <= BlockSize - LengthBytes /\ field - 0 = field
      BY <1>1
    <3>2. PICK b \in Block : b = full
      BY <2>4
    <3>3. PICK c \in Word \X Word : c = count
      BY <1>3
    <3> QED
      BY <3>1, <3>2, <3>3, ClosedBlock DEF length
  <2>6. pad = 2 * BlockSize - 1 - used - LengthBytes
    BY <1>7, <1>13
  <2>7. n + 1 + pad = base + BlockSize + field
    BY <1>1, <1>2, <2>6
  <2>8. (m + 1) * BlockSize = base + BlockSize
        /\ (m + 2) * BlockSize = base + 2 * BlockSize
    BY <1>1, <1>2
  <2>9. Len(padded) = (m + 2) * BlockSize
    <3> HIDE DEF base
    <3> QED
      BY <1>1, <1>2, <1>9, <2>7, <2>8
  <2> HIDE DEF full, closed
  <2>10. full = BlockAt(padded, base)
    <3>1. ASSUME NEW i \in Slots
          PROVE  full[i] = padded[base + i + 1]
      <4>1. i \in 0 .. BlockSize - 1
        BY DEF Slots
      <4>2. CASE i <= used
        BY <1>12, <2>4, <4>2
      <4>3. CASE ~(i <= used)
        <5>1. base + i + 1 \in n + 2 .. n + 1 + pad
          BY <1>1, <1>2, <2>7, <4>1, <4>3
        <5> QED
          BY <1>9, <2>4, <4>3, <5>1
      <4> QED
        BY <4>2, <4>3
    <3>2. full = [i \in Slots |-> full[i]]
      BY <2>4 DEF Block
    <3> QED
      BY <3>1, <3>2 DEF BlockAt
  <2>11. closed = BlockAt(padded, base + BlockSize)
    <3>1. ASSUME NEW i \in Slots
          PROVE  closed[i] = padded[(base + BlockSize) + i + 1]
      <4>1. i \in 0 .. BlockSize - 1
        BY DEF Slots
      <4>2. CASE i < field
        <5>1. (base + BlockSize) + i + 1 \in n + 2 .. n + 1 + pad
          BY <1>1, <1>2, <2>7, <4>1, <4>2
        <5> QED
          BY <1>9, <2>5, <4>1, <4>2, <5>1
      <4>3. CASE ~(i < field)
        <5> DEFINE j == i - field + 1
        <5>1. /\ j \in 1 .. LengthBytes
              /\ (base + BlockSize) + i + 1 = n + 1 + pad + j
          BY <1>1, <1>2, <1>8, <2>7, <4>1, <4>3
        <5>2. closed[i] = length[j]
          BY <1>1, <2>5, <4>1, <4>3
        <5> HIDE DEF j
        <5> QED
          BY <1>9, <5>1, <5>2
      <4> QED
        BY <4>2, <4>3
    <3>2. closed = [i \in Slots |-> closed[i]]
      BY <2>5 DEF Block
    <3> QED
      BY <3>1, <3>2 DEF BlockAt
  <2>12. /\ last \in Seq(Block)
         /\ Len(last) = 2
         /\ last[1] = full
         /\ last[2] = closed
    <3> HIDE DEF last
    <3> QED
      BY <2>1, <2>4, <2>5
  <2>13. \A k \in 1 .. 2 :
           last[k] = BlockAt(padded, (m + k - 1) * BlockSize)
    <3>1. m + 1 - 1 = m /\ m + 2 - 1 = m + 1 /\ base = m * BlockSize
      BY <1>2
    <3>2. last[1] = BlockAt(padded, (m + 1 - 1) * BlockSize)
      BY <2>10, <2>12, <3>1
    <3>3. last[2] = BlockAt(padded, (m + 2 - 1) * BlockSize)
      BY <2>8, <2>11, <2>12, <3>1
    <3> HIDE DEF last
    <3>4. \A k \in 1 .. 2 : k = 1 \/ k = 2
      OBVIOUS
    <3> QED
      BY <3>2, <3>3, <3>4
  <2> HIDE DEF last
  <2> QED
    BY <1>6, <1>9, <2>9, <2>12, <2>13 DEF last, count, padded, msg, m
<1>14. CASE ~(room < LengthBytes)
  <2> DEFINE at == used + 1
             closed == Put(Put(marked, at, Zeros(field - at)), field, length)
  <2>1. room - LengthBytes = field - at
    BY <1>1, <1>2
  <2>2. last = <<closed>>
    BY <1>5, <1>14, <2>1 DEF FinalBlocks, marked, length
  <2>3. at \in Nat /\ at <= BlockSize - LengthBytes
    BY <1>1, <1>2, <1>14
  <2>4. /\ closed \in Block
        /\ \A i \in Slots :
             closed[i] = IF i < at THEN marked[i]
                         ELSE IF i < field THEN 0
                         ELSE length[i - field + 1]
    <3> HIDE DEF at
    <3>1. PICK b \in Block : b = marked
      BY <1>11
    <3>2. PICK c \in Word \X Word : c = count
      BY <1>3
    <3> QED
      BY <2>3, <3>1, <3>2, ClosedBlock DEF length
  <2>5. pad = BlockSize - 1 - used - LengthBytes
    BY <1>7, <1>14
  <2>6. n + 1 + pad = base + field
    BY <1>1, <1>2, <2>5
  <2>7. (m + 1) * BlockSize = base + BlockSize
    BY <1>1, <1>2
  <2>8. Len(padded) = (m + 1) * BlockSize
    <3> HIDE DEF base
    <3> QED
      BY <1>1, <1>2, <1>9, <2>6, <2>7
  <2> HIDE DEF closed
  <2>9. closed = BlockAt(padded, base)
    <3>1. ASSUME NEW i \in Slots
          PROVE  closed[i] = padded[base + i + 1]
      <4>1. i \in 0 .. BlockSize - 1
        BY DEF Slots
      <4>2. CASE i <= used
        <5>1. i < at
          BY <1>2, <4>1, <4>2
        <5> QED
          BY <1>12, <2>4, <4>2, <5>1
      <4>3. CASE ~(i <= used) /\ i < field
        <5>1. base + i + 1 \in n + 2 .. n + 1 + pad /\ ~(i < at)
          BY <1>1, <1>2, <2>6, <4>1, <4>3
        <5> HIDE DEF at
        <5> QED
          BY <1>9, <2>4, <4>3, <5>1
      <4>4. CASE ~(i < field)
        <5> DEFINE j == i - field + 1
        <5>1. /\ j \in 1 .. LengthBytes
              /\ base + i + 1 = n + 1 + pad + j
              /\ ~(i < at)
          BY <1>1, <1>2, <1>8, <2>3, <2>6, <4>1, <4>4
        <5>2. closed[i] = length[j]
          BY <2>4, <4>4, <5>1
        <5> HIDE DEF j
        <5> QED
          BY <1>9, <5>1, <5>2
      <4> QED
        BY <4>2, <4>3, <4>4
    <3>2. closed = [i \in Slots |-> closed[i]]
      BY <2>4 DEF Block
    <3> QED
      BY <3>1, <3>2 DEF BlockAt
  <2>10. /\ last \in Seq(Block)
         /\ Len(last) = 1
         /\ last[1] = closed
    <3> HIDE DEF last
    <3> QED
      BY <2>2, <2>4
  <2>11. \A k \in 1 .. 1 :
           last[k] = BlockAt(padded, (m + k - 1) * BlockSize)
    <3>1. m + 1 - 1 = m /\ base = m * BlockSize
      BY <1>2
    <3>2. last[1] = BlockAt(padded, (m + 1 - 1) * BlockSize)
      BY <2>9, <2>10, <3>1
    <3> HIDE DEF last
    <3>3. \A k \in 1 .. 1 : k = 1
      OBVIOUS
    <3> QED
      BY <3>2, <3>3
  <2> HIDE DEF last
  <2> QED
    BY <1>6, <1>9, <2>8, <2>10, <2>11 DEF last, count, padded, msg, m
<1> QED
  BY <1>13, <1>14

(* Of texts that agree on the first n bytes, the first blocks agree. *)
LEMMA BlocksOfPrefix ==
  ASSUME NEW text \in Seq(Byte), NEW other \in Seq(Byte), NEW n \in Nat,
         NEW m \in Nat, m * BlockSize <= n,
         \A j \in 1 .. n : other[j] = text[j]
  PROVE  Blocks(other, m) = Blocks(text, m)
<1>1. ASSUME NEW k \in 1 .. m, NEW i \in Slots
      PROVE  other[(k - 1) * BlockSize + i + 1]
               = text[(k - 1) * BlockSize + i + 1]
  <2> DEFINE b == (k - 1) * BlockSize
             c == k * BlockSize
             a == m * BlockSize
  <2>1. b \in Nat /\ b + BlockSize = c /\ c <= a /\ a <= n
    BY BlockBounds
  <2>2. i \in 0 .. BlockSize - 1 /\ BlockSize \in Nat /\ a \in Nat
    BY SizesAssumption DEF Slots
  <2> HIDE DEF b, c, a
  <2>3. b + i + 1 \in 1 .. n
    BY <2>1, <2>2
  <2> QED
    BY <2>3 DEF b
<1> QED
  BY <1>1 DEF Blocks, BlockAt

(* The first n bytes of a text are described like the text. *)
LEMMA DescribesPrefix ==
  ASSUME NEW text \in Seq(Byte), NEW n \in 0 .. Len(text),
         NEW chain, NEW block
  PROVE  Describes(chain, block, SubSeq(text, 1, n), n)
           <=> Describes(chain, block, text, n)
<1> DEFINE msg == SubSeq(text, 1, n)
           m == n \div BlockSize
           used == n % BlockSize
           base == m * BlockSize
<1>1. msg \in Seq(Byte) /\ \A j \in 1 .. n : msg[j] = text[j]
  <2>1. /\ SubSeq(text, 0 + 1, n) \in Seq(Byte)
        /\ \A j \in 1 .. n - 0 : SubSeq(text, 0 + 1, n)[j] = text[0 + j]
    <3>1. 0 \in Nat
      OBVIOUS
    <3> QED
      BY <3>1, Piece
  <2>2. 0 + 1 = 1 /\ n - 0 = n /\ \A j \in 1 .. n : 0 + j = j
    OBVIOUS
  <2> HIDE DEF msg
  <2> QED
    BY <2>1, <2>2 DEF msg
<1>2. m \in Nat /\ used \in 0 .. BlockSize - 1 /\ base \in Nat /\ n = base + used
  <2>1. BlockSize \in Nat \ {0} /\ n \in Nat /\ n \in Int
    BY SizesAssumption
  <2>2. m \in Nat
    BY <2>1, DivNat, Zenon
  <2>3. used \in 0 .. BlockSize - 1 /\ n = BlockSize * m + used
    BY <2>1, DivMod, Zenon
  <2> HIDE DEF m, used
  <2>4. base \in Nat /\ BlockSize * m = base
    BY <2>1, <2>2
  <2> QED
    BY <2>1, <2>2, <2>3, <2>4
<1> HIDE DEF msg, m, used
<1>3. Blocks(msg, m) = Blocks(text, m)
  <2>1. m * BlockSize <= n
    BY <1>2
  <2> QED
    BY <1>1, <1>2, <2>1, BlocksOfPrefix
<1>4. ASSUME NEW i \in 0 .. used - 1
      PROVE  msg[base + i + 1] = text[base + i + 1]
  <2>1. base + i + 1 \in 1 .. n
    BY <1>2
  <2> QED
    BY <1>1, <2>1
<1> QED
  BY <1>3, <1>4 DEF Describes, msg, m, used

(* The blocks of the context and those of MD5Final together are the digest. *)
LEMMA FinalIsDigest ==
  ASSUME NEW text \in Seq(Byte), NEW n \in 0 .. Len(text),
         NEW chain, NEW block \in Block, Describes(chain, block, text, n)
  PROVE  /\ chain \o FinalBlocks(block, BitCount(n))
              = Digest(SubSeq(text, 1, n))
         /\ Digest(SubSeq(text, 1, n)) \in Seq(Block)
         /\ Digest(SubSeq(text, 1, n)) # EmptyHash
         /\ FinalBlocks(block, BitCount(n)) \in Seq(Block)
         /\ Len(FinalBlocks(block, BitCount(n))) \in {1, 2}
<1> DEFINE msg == SubSeq(text, 1, n)
           m == n \div BlockSize
           last == FinalBlocks(block, BitCount(n))
           padded == Padded(msg)
           l == Len(last)
           both == chain \o last
<1>1. /\ last \in Seq(Block)
      /\ l \in {1, 2}
      /\ Len(padded) = (m + l) * BlockSize
      /\ \A k \in 1 .. l :
           last[k] = BlockAt(padded, (m + k - 1) * BlockSize)
      /\ padded \in Seq(Byte)
      /\ \A j \in 1 .. n : padded[j] = text[j]
  BY FinalBlocksArePadding
<1>2. BlockSize \in Nat \ {0} /\ n \in Nat /\ m \in Nat /\ m * BlockSize <= n
  <2>1. BlockSize \in Nat \ {0} /\ n \in Nat /\ n \in Int
    BY SizesAssumption
  <2>2. m \in Nat
    BY <2>1, DivNat, Zenon
  <2>3. n % BlockSize \in 0 .. BlockSize - 1
        /\ n = BlockSize * m + (n % BlockSize)
    BY <2>1, DivMod, Zenon
  <2> HIDE DEF m
  <2>4. BlockSize * m = m * BlockSize /\ m * BlockSize \in Nat
    BY <2>1, <2>2
  <2> QED
    BY <2>1, <2>2, <2>3, <2>4
<1>3. chain = Blocks(text, m)
  BY DEF Describes
<1> HIDE DEF msg, m, last, padded
<1>4. Len(padded) \div BlockSize = m + l
  <2> DEFINE q == m + l
             t == Len(padded)
  <2>1. q \in Int /\ t \in Int /\ 0 \in 0 .. BlockSize - 1
    BY <1>1, <1>2
  <2>2. t = BlockSize * q + 0
    BY <1>1, <1>2
  <2> HIDE DEF q, t
  <2>3. t \div BlockSize = q
    BY <1>2, <2>1, <2>2, DivModUnique, Zenon
  <2> QED
    BY <2>3 DEF q, t
<1>5. /\ chain \in Seq(Block)
      /\ Len(chain) = m
      /\ \A k \in 1 .. m :
           chain[k] = BlockAt(padded, (k - 1) * BlockSize)
  <2>1. Blocks(padded, m) = chain
    BY <1>1, <1>2, <1>3, BlocksOfPrefix
  <2>2. m * BlockSize <= Len(padded)
    <3>1. (m + l) * BlockSize = m * BlockSize + l * BlockSize
      BY <1>1, <1>2
    <3>2. l * BlockSize \in Nat /\ m * BlockSize \in Nat
      BY <1>1, <1>2
    <3> QED
      BY <1>1, <3>1, <3>2
  <2> QED
    BY <1>1, <1>2, <2>1, <2>2, BlocksType
<1>6. /\ both \in Seq(Block)
      /\ Len(both) = m + l
      /\ \A k \in 1 .. m + l :
           both[k] = IF k <= m THEN chain[k] ELSE last[k - m]
  <2>1. PICK c \in Seq(Block) : c = chain
    BY <1>5
  <2>2. /\ c \o last \in Seq(Block)
        /\ Len(c \o last) = Len(c) + Len(last)
        /\ \A k \in 1 .. Len(c) + Len(last) :
             (c \o last)[k] = IF k <= Len(c) THEN c[k] ELSE last[k - Len(c)]
    BY <1>1, <2>1, ConcatProperties, Zenon
  <2> QED
    BY <1>5, <2>1, <2>2
<1> HIDE DEF both, l
<1>7. ASSUME NEW k \in 1 .. m + l
      PROVE  both[k] = BlockAt(padded, (k - 1) * BlockSize)
  <2>1. CASE k <= m
    <3>1. k \in 1 .. m
      BY <1>2, <2>1
    <3> QED
      BY <1>5, <1>6, <2>1, <3>1
  <2>2. CASE ~(k <= m)
    <3> DEFINE j == k - m
    <3>1. j \in 1 .. l /\ m + j - 1 = k - 1
      BY <1>1, <1>2, <2>2
    <3>2. both[k] = last[j]
      BY <1>6, <2>2
    <3> HIDE DEF j
    <3> QED
      BY <1>1, <3>1, <3>2
  <2> QED
    BY <2>1, <2>2
<1>8. both = Blocks(padded, m + l)
  <2>1. both = [k \in 1 .. m + l |-> both[k]]
    BY <1>1, <1>2, <1>6
  <2> QED
    BY <1>7, <2>1 DEF Blocks
<1>9. Digest(msg) = both
  BY <1>4, <1>8 DEF Digest, padded
<1>10. both # EmptyHash
  BY <1>1, <1>2, <1>6 DEF EmptyHash
<1> QED
  BY <1>1, <1>6, <1>9, <1>10 DEF both, last, l, msg

----------------------------------------------------------------------------
(* The inductive invariant: a digest is there only after getHash(), and the  *)
(* context describes the message until it is.                              *)

DigestMeansEnd == m_hash # EmptyHash => status = "END"

IInv ==
  /\ TypeOK
  /\ ContextDescribesMessage
  /\ DigestIsOfMessage
  /\ DigestMeansEnd

\* ContextDescribesMessage, said of the source.
ContextDescribesSource ==
  m_hash = EmptyHash => bits = BitCount(fed) /\ Describes(buf, in, source, fed)

(* The two say the same. *)
LEMMA ContextOfSource ==
  ASSUME TypeOK
  PROVE  ContextDescribesMessage <=> ContextDescribesSource
<1>1. PICK text \in Seq(Byte) : text = source
  BY InputsAssumption DEF TypeOK
<1>2. PICK n \in 0 .. Len(text) : n = fed
  BY <1>1 DEF TypeOK
<1>3. \A chain, block :
        Describes(chain, block, SubSeq(text, 1, n), n)
          <=> Describes(chain, block, text, n)
  BY DescribesPrefix
<1>4. Describes(buf, in, message, fed) <=> Describes(buf, in, source, fed)
  BY <1>1, <1>2, <1>3 DEF message
<1>5. ContextDescribesMessage
        <=> (m_hash = EmptyHash
               => bits = BitCount(fed) /\ Describes(buf, in, message, fed))
  BY DEF ContextDescribesMessage, Describes
<1> QED
  BY <1>4, <1>5 DEF ContextDescribesSource

(* And in the next state. *)
LEMMA ContextOfSourceNext ==
  ASSUME TypeOK'
  PROVE  ContextDescribesMessage' <=> ContextDescribesSource'
<1>1. PICK text \in Seq(Byte) : text = source'
  BY InputsAssumption DEF TypeOK
<1>2. PICK n \in 0 .. Len(text) : n = fed'
  BY <1>1 DEF TypeOK
<1>3. \A chain, block :
        Describes(chain, block, SubSeq(text, 1, n), n)
          <=> Describes(chain, block, text, n)
  BY DescribesPrefix
<1>4. Describes(buf', in', message', fed') <=> Describes(buf', in', source', fed')
  BY <1>1, <1>2, <1>3 DEF message
<1>5. ContextDescribesMessage'
        <=> (m_hash' = EmptyHash
               => bits' = BitCount(fed') /\ Describes(buf', in', message', fed'))
  BY DEF ContextDescribesMessage, Describes
<1> QED
  BY <1>4, <1>5 DEF ContextDescribesSource

(* A context of which nothing was taken yet is well typed. *)
LEMMA DescribedType ==
  ASSUME NEW text \in Seq(Byte), NEW n \in 0 .. Len(text),
         NEW chain, NEW block, Describes(chain, block, text, n)
  PROVE  chain \in Seq(Block)
<1> DEFINE m == n \div BlockSize
<1>1. BlockSize \in Nat \ {0} /\ n \in Nat /\ m \in Nat /\ m * BlockSize <= n
  <2>1. BlockSize \in Nat \ {0} /\ n \in Nat /\ n \in Int
    BY SizesAssumption
  <2>2. m \in Nat
    BY <2>1, DivNat, Zenon
  <2>3. n % BlockSize \in 0 .. BlockSize - 1
        /\ n = BlockSize * m + (n % BlockSize)
    BY <2>1, DivMod, Zenon
  <2> HIDE DEF m
  <2>4. BlockSize * m = m * BlockSize /\ m * BlockSize \in Nat
    BY <2>1, <2>2
  <2> QED
    BY <2>1, <2>2, <2>3, <2>4
<1>2. chain = Blocks(text, m)
  BY DEF Describes
<1> HIDE DEF m
<1>3. m * BlockSize <= Len(text)
  BY <1>1
<1> QED
  BY <1>1, <1>2, <1>3, BlocksType

(* An empty message is described by an empty context. *)
LEMMA EmptyDescribed ==
  ASSUME NEW text, NEW block
  PROVE  /\ BitCount(0) = <<0, 0>>
         /\ Describes(<<>>, block, text, 0)
<1>1. BlockSize \in Nat \ {0} /\ WordMax \in Nat \ {0} /\ 0 \in Int
  BY SizesAssumption
<1>2. /\ 0 = BlockSize * 0 + 0
      /\ 0 = WordMax * 0 + 0
      /\ 0 \in 0 .. BlockSize - 1
      /\ 0 \in 0 .. WordMax - 1
  BY <1>1
<1>3. 0 \div BlockSize = 0 /\ 0 % BlockSize = 0
  BY <1>1, <1>2
<1>4. 0 \div WordMax = 0 /\ 0 % WordMax = 0
  BY <1>1, <1>2
<1>5. 8 * 0 = 0
  OBVIOUS
<1>6. BitCount(0) = <<0, 0>>
  BY <1>4, <1>5 DEF BitCount
<1>7. Blocks(text, 0) = <<>>
  BY DEF Blocks
<1>8. \A i \in 0 .. 0 - 1 : FALSE
  OBVIOUS
<1> QED
  BY <1>3, <1>6, <1>7, <1>8 DEF Describes

(* The constructor establishes the invariant. *)
LEMMA InvariantInit == Init => IInv
<1> SUFFICES ASSUME Init
             PROVE  IInv
  OBVIOUS
<1>1. \A block : BitCount(0) = <<0, 0>> /\ Describes(<<>>, block, source, 0)
  <2>1. PICK text : text = source
    OBVIOUS
  <2> QED
    BY <2>1, EmptyDescribed
<1>2. TypeOK
  <2>1. in \in Block
    BY InputsAssumption DEF Init, Block
  <2>2. bits \in Word \X Word
    BY SizesAssumption DEF Init, Word
  <2>3. Len(source) \in Nat
    BY InputsAssumption DEF Init
  <2>4. answer \in Answers
    BY DEF Init, Nothing, Answers
  <2> QED
    BY <2>1, <2>2, <2>3, <2>4 DEF Init, TypeOK, EmptyHash
<1>3. ContextDescribesSource
  BY <1>1 DEF Init, ContextDescribesSource
<1> QED
  BY <1>2, <1>3, ContextOfSource
     DEF Init, IInv, DigestIsOfMessage, DigestMeansEnd

(* Every step keeps it. *)
LEMMA InvariantStep ==
  ASSUME ShortPieces, IInv, [Next]_vars
  PROVE  IInv'
<1> USE DEF IInv
<1>1. PICK text \in Seq(Byte) : text = source
  BY InputsAssumption DEF TypeOK
<1>2. PICK pos \in 0 .. Len(text) : pos = fed
  BY <1>1 DEF TypeOK
<1>3. ContextDescribesSource
  BY ContextOfSource
<1>4. ASSUME NEW n \in Sizes, Add(n)
      PROVE  IInv'
  <2>1. n \in Nat /\ n < WordMax /\ pos \in Nat
    BY InputsAssumption DEF ShortPieces
  <2>2. m_hash = EmptyHash
    BY <1>4 DEF Add, DigestMeansEnd
  <2>3. /\ bits = BitCount(pos)
        /\ in \in Block
        /\ Describes(buf, in, text, pos)
        /\ pos + n <= Len(text)
        /\ MD5Update(SubSeq(text, pos + 1, pos + n))
    BY <1>1, <1>2, <1>3, <1>4, <2>2 DEF Add, TypeOK, ContextDescribesSource
  <2>4. /\ bits' = BitCount(pos + n)
        /\ Describes(buf', in', text, pos + n)
        /\ in' \in Block
    BY <2>1, <2>3, UpdateDescribes
  <2>5. pos + n \in 0 .. Len(text) /\ pos + n \in Nat
    BY <2>1, <2>3
  <2>6. buf' \in Seq(Block)
    <3>1. PICK chain : chain = buf'
      OBVIOUS
    <3>2. PICK block : block = in'
      OBVIOUS
    <3>3. PICK q \in 0 .. Len(text) : q = pos + n
      BY <2>5
    <3> QED
      BY <2>4, <3>1, <3>2, <3>3, DescribedType
  <2>7. /\ bits' \in Word \X Word
        /\ buf' \in Seq(Block \cup {Clobbered})
        /\ fed' = pos + n
        /\ source' = text
        /\ m_hash' = EmptyHash
    <3>1. BitCount(pos + n) \in Word \X Word
      BY <2>5, BitCountType
    <3> QED
      BY <1>1, <1>2, <1>4, <2>2, <2>4, <2>6, <3>1 DEF Add
  <2>8. TypeOK'
    BY <1>1, <1>4, <2>4, <2>5, <2>7
       DEF Add, TypeOK, EmptyHash, Nothing, Answers
  <2>9. ContextDescribesSource'
    BY <2>4, <2>7 DEF ContextDescribesSource
  <2> QED
    BY <2>7, <2>8, <2>9, ContextOfSourceNext
       DEF DigestIsOfMessage, DigestMeansEnd
<1>5. CASE GetHash
  <2> DEFINE last == FinalBlocks(in, bits)
  <2>1. /\ m_hash' = buf \o last
        /\ buf' = <<Clobbered>>
        /\ in' = last[Len(last)]
        /\ bits' = bits
        /\ source' = source
        /\ fed' = fed
        /\ status' = "END"
        /\ answer' = DigestIs(m_hash')
    BY <1>5 DEF GetHash, MD5Final
  <2>2. PICK block \in Block : block = in
    BY DEF TypeOK
  <2>3. PICK chain : chain = buf
    OBVIOUS
  <2>4. bits = BitCount(pos) /\ Describes(chain, block, text, pos)
    BY <1>1, <1>2, <1>3, <1>5, <2>2, <2>3 DEF GetHash, ContextDescribesSource
  <2>5. /\ chain \o FinalBlocks(block, BitCount(pos))
             = Digest(SubSeq(text, 1, pos))
        /\ Digest(SubSeq(text, 1, pos)) \in Seq(Block)
        /\ Digest(SubSeq(text, 1, pos)) # EmptyHash
        /\ FinalBlocks(block, BitCount(pos)) \in Seq(Block)
        /\ Len(FinalBlocks(block, BitCount(pos))) \in {1, 2}
    BY <2>4, FinalIsDigest
  <2>6. /\ m_hash' = Digest(message)
        /\ m_hash' \in Seq(Block)
        /\ m_hash' # EmptyHash
        /\ last \in Seq(Block)
        /\ Len(last) \in {1, 2}
    BY <1>1, <1>2, <2>1, <2>2, <2>3, <2>4, <2>5 DEF message
  <2>7. in' \in Block
    <3> HIDE DEF last
    <3>1. PICK l \in Seq(Block) : l = last /\ Len(l) \in {1, 2}
      BY <2>6
    <3>2. Len(l) \in 1 .. Len(l)
      <4> DEFINE k == Len(l)
      <4>1. k \in {1, 2}
        BY <3>1
      <4> HIDE DEF k
      <4>2. k \in 1 .. k
        BY <4>1
      <4> QED
        BY <4>2 DEF k
    <3>3. l[Len(l)] \in Block
      BY <3>2, ElementOfSeq
    <3> QED
      BY <2>1, <3>1, <3>3
  <2>8. answer' \in Answers
    <3>1. m_hash' \in Seq(Block \cup {Clobbered})
      <4>1. PICK d \in Seq(Block) : d = m_hash'
        BY <2>6
      <4>2. d \in Seq(Block \cup {Clobbered})
        BY SeqMonotonic
      <4> QED
        BY <4>1, <4>2
    <3> QED
      BY <2>1, <3>1 DEF DigestIs, Answers
  <2>9. TypeOK'
    BY <2>1, <2>6, <2>7, <2>8 DEF TypeOK
  <2> QED
    BY <2>1, <2>6, <2>9
       DEF ContextDescribesMessage, DigestIsOfMessage, DigestMeansEnd, message
<1>6. CASE GetHashAgain
  <2>1. answer' \in Answers
    <3>1. m_hash \in Seq(Block \cup {Clobbered})
      BY DEF TypeOK
    <3> QED
      BY <1>6, <3>1 DEF GetHashAgain, DigestIs, Answers
  <2>2. TypeOK'
    BY <1>6, <2>1 DEF GetHashAgain, TypeOK, context
  <2> QED
    BY <1>6, <2>2
       DEF GetHashAgain, ContextDescribesMessage, DigestIsOfMessage,
           DigestMeansEnd, message, context
<1>7. CASE AddThrows \/ GetHashThrows \/ GetHashFails
  <2>1. /\ UNCHANGED <<m_hash, context, source, fed>>
        /\ status' \in {status, "END"}
        /\ answer' \in {LogicError, BadAlloc}
    BY <1>7 DEF AddThrows, GetHashThrows, GetHashFails
  <2>2. answer' \in Answers
    <3>1. <<>> \in Seq(Block \cup {Clobbered})
      OBVIOUS
    <3>2. LogicError \in Answers /\ BadAlloc \in Answers
      BY <3>1 DEF LogicError, BadAlloc, Answers
    <3> QED
      BY <2>1, <3>2
  <2>3. TypeOK'
    BY <2>1, <2>2 DEF TypeOK, context
  <2> QED
    BY <2>1, <2>3
       DEF ContextDescribesMessage, DigestIsOfMessage, DigestMeansEnd,
           message, context
<1>8. CASE Reset
  <2>1. /\ status' = "INIT"
        /\ buf' = <<>>
        /\ bits' = <<0, 0>>
        /\ in' = in
        /\ m_hash' = EmptyHash
        /\ source' \in Sources
        /\ fed' = 0
        /\ answer' = Nothing
    BY <1>8 DEF Reset, MD5Init
  <2>2. BitCount(0) = <<0, 0>> /\ Describes(<<>>, in', source', 0)
    <3>1. PICK next : next = source'
      OBVIOUS
    <3>2. PICK block : block = in'
      OBVIOUS
    <3> QED
      BY <3>1, <3>2, EmptyDescribed
  <2>3. TypeOK'
    <3>1. Len(source') \in Nat
      BY <2>1, InputsAssumption
    <3>2. bits' \in Word \X Word
      BY <2>1, SizesAssumption DEF Word
    <3> QED
      BY <2>1, <3>1, <3>2 DEF TypeOK, Answers, Nothing, EmptyHash
  <2>4. ContextDescribesSource'
    BY <2>1, <2>2 DEF ContextDescribesSource
  <2> QED
    BY <2>1, <2>3, <2>4, ContextOfSourceNext
       DEF DigestIsOfMessage, DigestMeansEnd
<1>9. CASE UNCHANGED vars
  BY <1>9
     DEF vars, TypeOK, ContextDescribesMessage, DigestIsOfMessage,
         DigestMeansEnd, message
<1> QED
  BY <1>4, <1>5, <1>6, <1>7, <1>8, <1>9 DEF Next

(* The invariant holds of every hash of every text, in pieces of which none
   is longer than an unsigned can say. *)
THEOREM Invariant ==
  ASSUME ShortPieces
  PROVE  Spec => []IInv
<1>1. Init => IInv
  BY InvariantInit
<1>2. IInv /\ [Next]_vars => IInv'
  BY InvariantStep
<1> QED
  BY <1>1, <1>2, PTL DEF Spec

(* Every variable keeps its type: in particular no digest is ever made from a
   context that MD5Final has overwritten. *)
THEOREM TypeCorrect ==
  ASSUME ShortPieces
  PROVE  Spec => []TypeOK
<1>1. IInv => TypeOK
  BY DEF IInv
<1> QED
  BY <1>1, Invariant, PTL

(* MD5Update: the context describes the message so far, whatever the pieces
   were and whatever an earlier message left in the block. *)
THEOREM PiecesAddUp ==
  ASSUME ShortPieces
  PROVE  Spec => []ContextDescribesMessage
<1>1. IInv => ContextDescribesMessage
  BY DEF IInv
<1> QED
  BY <1>1, Invariant, PTL

(* getHash: a digest is that of the padded message. *)
THEOREM DigestCorrect ==
  ASSUME ShortPieces
  PROVE  Spec => []DigestIsOfMessage
<1>1. IInv => DigestIsOfMessage
  BY DEF IInv
<1> QED
  BY <1>1, Invariant, PTL

----------------------------------------------------------------------------
(* The contract of class Hash.                                             *)

(* The first bytes of a text, and what more bytes add to them. *)
LEMMA PrefixGrows ==
  ASSUME NEW text \in Seq(Byte), NEW a \in 0 .. Len(text),
         NEW b \in a .. Len(text)
  PROVE  /\ Len(SubSeq(text, 1, b)) >= Len(SubSeq(text, 1, a))
         /\ \A i \in 1 .. Len(SubSeq(text, 1, a)) :
              SubSeq(text, 1, b)[i] = SubSeq(text, 1, a)[i]
<1>1. ASSUME NEW c \in 0 .. Len(text)
      PROVE  /\ Len(SubSeq(text, 1, c)) = c
             /\ \A i \in 1 .. c : SubSeq(text, 1, c)[i] = text[i]
  <2>1. /\ Len(SubSeq(text, 0 + 1, c)) = c - 0
        /\ \A j \in 1 .. c - 0 : SubSeq(text, 0 + 1, c)[j] = text[0 + j]
    <3>1. 0 \in Nat
      OBVIOUS
    <3> QED
      BY <3>1, Piece
  <2>2. 0 + 1 = 1 /\ c - 0 = c /\ \A j \in 1 .. c : 0 + j = j
    OBVIOUS
  <2> QED
    BY <2>1, <2>2
<1>2. b \in 0 .. Len(text)
  OBVIOUS
<1>3. /\ Len(SubSeq(text, 1, a)) = a
      /\ Len(SubSeq(text, 1, b)) = b
      /\ \A i \in 1 .. a : SubSeq(text, 1, a)[i] = text[i]
      /\ \A i \in 1 .. b : SubSeq(text, 1, b)[i] = text[i]
  BY <1>1, <1>2
<1>4. \A i \in 1 .. a : i \in 1 .. b
  OBVIOUS
<1> QED
  BY <1>3, <1>4

(* Nothing was added to a fresh hash. *)
LEMMA ContractInit == Init => Contract!Init
<1> SUFFICES ASSUME Init
             PROVE  Contract!Init
  OBVIOUS
<1>1. SubSeq(source, 1, 0) = <<>>
  BY SubSeqEmpty
<1>2. message = <<>>
  BY <1>1 DEF Init, message
<1> QED
  BY <1>2 DEF Init, Contract!Init, Nothing, Contract!Nothing

(* Every call is a call of the contract. *)
LEMMA ContractStep ==
  ASSUME ShortPieces, IInv, IInv', [Next]_vars
  PROVE  [Contract!Next]_(Contract!vars)
<1> USE DEF IInv
<1>1. ASSUME NEW n \in Sizes, Add(n)
      PROVE  Contract!Add
  <2>1. PICK text \in Seq(Byte) : text = source
    BY InputsAssumption DEF TypeOK
  <2>2. PICK a \in 0 .. Len(text) : a = fed
    BY <2>1 DEF TypeOK
  <2>3. fed' = a + n /\ source' = text /\ a + n <= Len(text) /\ n \in Nat
    BY <1>1, <2>1, <2>2, InputsAssumption DEF Add
  <2>4. PICK b \in a .. Len(text) : b = a + n
    BY <2>3
  <2>5. message = SubSeq(text, 1, a) /\ message' = SubSeq(text, 1, b)
    BY <2>1, <2>2, <2>3, <2>4 DEF message
  <2>6. /\ Len(SubSeq(text, 1, b)) >= Len(SubSeq(text, 1, a))
        /\ \A i \in 1 .. Len(SubSeq(text, 1, a)) :
             SubSeq(text, 1, b)[i] = SubSeq(text, 1, a)[i]
    BY PrefixGrows
  <2>7. Contract!Extends(message', message)
    BY <2>5, <2>6 DEF Contract!Extends
  <2> QED
    BY <1>1, <2>7 DEF Add, Contract!Add, Nothing, Contract!Nothing
<1>2. ASSUME GetHash \/ GetHashAgain
      PROVE  Contract!GetHash
  <2>1. /\ answer' = DigestIs(m_hash')
        /\ m_hash' # EmptyHash
        /\ message' = message
        /\ status # "INIT"
        /\ status' = "END"
    <3>1. CASE GetHashAgain
      BY <3>1 DEF GetHashAgain, message
    <3>2. CASE GetHash
      <4>1. PICK text \in Seq(Byte) : text = source
        BY InputsAssumption DEF TypeOK
      <4>2. PICK n \in 0 .. Len(text) : n = fed
        BY <4>1 DEF TypeOK
      <4>3. PICK block \in Block : block = in
        BY DEF TypeOK
      <4>4. PICK chain : chain = buf
        OBVIOUS
      <4>5. bits = BitCount(n) /\ Describes(chain, block, text, n)
        BY <3>2, <4>1, <4>2, <4>3, <4>4, ContextOfSource
           DEF GetHash, ContextDescribesSource
      <4>6. /\ chain \o FinalBlocks(block, BitCount(n))
                 = Digest(SubSeq(text, 1, n))
            /\ Digest(SubSeq(text, 1, n)) # EmptyHash
        BY <4>5, FinalIsDigest
      <4>7. m_hash' # EmptyHash
        BY <3>2, <4>3, <4>4, <4>5, <4>6 DEF GetHash, MD5Final
      <4> QED
        BY <3>2, <4>7 DEF GetHash, message
    <3> QED
      BY <1>2, <3>1, <3>2
  <2>2. m_hash' = Digest(message)
    BY <2>1 DEF DigestIsOfMessage
  <2> QED
    BY <2>1, <2>2 DEF Contract!GetHash, DigestIs, Contract!DigestIs
<1>3. ASSUME GetHashFails
      PROVE  Contract!GetHash
  <2>1. message' = message
    BY <1>3 DEF GetHashFails, message
  <2> QED
    BY <1>3, <2>1
       DEF GetHashFails, Contract!GetHash, BadAlloc, Contract!BadAlloc
<1>4. ASSUME AddThrows
      PROVE  Contract!AddRefused
  <2>1. message' = message /\ status' = status
    BY <1>4 DEF AddThrows, message
  <2> QED
    BY <1>4, <2>1
       DEF AddThrows, Contract!AddRefused, LogicError, Contract!LogicError
<1>5. ASSUME GetHashThrows
      PROVE  Contract!GetHashRefused
  <2>1. message' = message /\ status' = status
    BY <1>5 DEF GetHashThrows, message
  <2> QED
    BY <1>5, <2>1
       DEF GetHashThrows, Contract!GetHashRefused, LogicError,
           Contract!LogicError
<1>6. ASSUME Reset
      PROVE  Contract!Reset
  <2>1. PICK text : text = source'
    OBVIOUS
  <2>2. SubSeq(text, 1, 0) = <<>>
    BY SubSeqEmpty
  <2>3. message' = <<>>
    BY <1>6, <2>1, <2>2 DEF Reset, message
  <2> QED
    BY <1>6, <2>3 DEF Reset, Contract!Reset, Nothing, Contract!Nothing
<1>7. CASE UNCHANGED vars
  BY <1>7 DEF vars, message, Contract!vars
<1> QED
  BY <1>1, <1>2, <1>3, <1>4, <1>5, <1>6, <1>7 DEF Next, Contract!Next

(* md5Hash keeps the contract of class Hash. *)
THEOREM KeepsContract ==
  ASSUME ShortPieces
  PROVE  Spec => ContractSpec
<1>1. Init => Contract!Init
  BY ContractInit
<1>2. IInv /\ IInv' /\ [Next]_vars => [Contract!Next]_(Contract!vars)
  BY ContractStep
<1> QED
  BY <1>1, <1>2, Invariant, PTL DEF Spec, ContractSpec, Contract!Spec

=============================================================================
