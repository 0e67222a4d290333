------------------------- MODULE PaddedInOut_proofs -------------------------
(***************************************************************************)
(* Padding and unpadding through inout's buffers, for every block size up  *)
(* to 255, every message and every order of the caller's blocks.           *)
(***************************************************************************)
EXTENDS PaddedInOut, ByteArrays_proofs

(* What every scheme writes at place i of a block whose message part ends  *)
(* at pos, and how many bytes in all.                                      *)
PadByte(P, pos, i) ==
    CASE P \in {"Pkcs7", "Iso10126"} -> BlockSize - pos
      [] P = "AnsiX923" -> IF i = BlockSize - 1 THEN BlockSize - pos ELSE 0
      [] P = "Iso7816" -> IF i = pos THEN 128 ELSE 0
      [] OTHER -> 0
PadLen(P, pos) ==
    IF P = "NoPadding" \/ (P = "ZeroPadding" /\ pos = 0) THEN 0 ELSE BlockSize - pos

PaddedAt(P, block, pos) == \A i \in pos..BlockSize-1 : block[i] = PadByte(P, pos, i)

-----------------------------------------------------------------------------
(* Arithmetic of blocks.                                                   *)

(* The block size as the proofs use it.                                    *)
LEMMA SizeFacts == BlockSize \in Nat \ {0} /\ BlockSize <= 255 /\ BlockSize - 1 \in Nat
BY PaddingSizeAssumption, PaddedInOutAssumption

(* Where block i begins, opaque to the provers.                            *)
At(i) == BlockSize * i

(* Blocks lie one behind the other.                                        *)
LEMMA AtProps ==
    /\ At(0) = 0
    /\ \A i \in Nat : At(i) \in Nat /\ At(i + 1) = At(i) + BlockSize
    /\ \A i, j \in Nat : i < j => At(i) + BlockSize <= At(j)
    /\ \A i, j \in Nat : At(i) = At(j) => i = j
<1>0. BlockSize \in Nat \ {0}
  BY SizeFacts
<1>1. PICK s \in Nat \ {0} : s = BlockSize
  BY <1>0
<1>2. ASSUME NEW i \in Nat PROVE s * i \in Nat /\ s * (i + 1) = s * i + s /\ s * 0 = 0
  OBVIOUS
<1>3. ASSUME NEW i \in Nat, NEW j \in Nat, i < j PROVE s * i + s <= s * j
  <2>1. PICK d \in Nat : j = i + 1 + d
    BY <1>3, j - i - 1 \in Nat
  <2>2. s * (i + 1 + d) = s * i + s + s * d /\ s * d \in Nat /\ s * i \in Nat
    OBVIOUS
  <2> QED
    BY <2>1, <2>2
<1>4. ASSUME NEW i \in Nat, NEW j \in Nat, s * i = s * j PROVE i = j
  <2>1. s * i \in Nat /\ s * j \in Nat
    OBVIOUS
  <2>2. ~(i < j)
    BY <1>3, <1>4, <2>1
  <2>3. ~(j < i)
    BY <1>3, <1>4, <2>1
  <2> QED
    BY <2>2, <2>3
<1> QED
  BY <1>1, <1>2, <1>3, <1>4 DEF At

(* A length is full blocks and a rest.                                     *)
LEMMA Quotient ==
    ASSUME NEW n \in Nat
    PROVE  /\ n \div BlockSize \in Nat /\ n % BlockSize \in 0..BlockSize-1
           /\ n = At(n \div BlockSize) + (n % BlockSize)
<1>1. /\ n \div BlockSize \in Nat /\ n % BlockSize \in 0..BlockSize-1
      /\ n = (n \div BlockSize) * BlockSize + (n % BlockSize)
  BY SizeFacts, DivMod
<1>2. PICK q \in Nat, s \in Nat : q = n \div BlockSize /\ s = BlockSize
  BY <1>1, SizeFacts
<1>3. q * s = s * q
  OBVIOUS
<1> QED
  BY <1>1, <1>2, <1>3 DEF At

(* The rest is unique.                                                     *)
LEMMA QuotientOf ==
    ASSUME NEW q \in Nat, NEW r \in 0..BlockSize-1
    PROVE  (At(q) + r) \div BlockSize = q /\ (At(q) + r) % BlockSize = r
<1>1. PICK s \in Nat \ {0} : s = BlockSize
  BY SizeFacts
<1>2. At(q) = q * s
  <2>1. q * s = s * q
    OBVIOUS
  <2> QED
    BY <1>1, <2>1 DEF At
<1>3. (q * s + r) % s = r
  BY <1>1, ModUnique
<1>4. PICK n \in Nat : n = At(q) + r
  BY AtProps, SizeFacts
<1>5. n % BlockSize = r
  BY <1>1, <1>2, <1>3, <1>4
<1>6. PICK d \in Nat : d = n \div BlockSize /\ n = At(d) + r
  BY <1>5, Quotient
<1>7. At(d) = At(q)
  <2>1. PICK u \in Nat, v \in Nat : u = At(d) /\ v = At(q)
    BY AtProps
  <2>2. u + r = v + r /\ r \in Int
    BY <1>4, <1>6, <2>1, SizeFacts
  <2>3. u = v
    BY <2>2
  <2> QED
    BY <2>1, <2>3
<1>8. d = q
  BY <1>7, AtProps
<1> QED
  BY <1>4, <1>5, <1>6, <1>8

-----------------------------------------------------------------------------
(* One block.                                                              *)

(* The bytes of the padding are bytes.                                     *)
LEMMA PadByteProps ==
    ASSUME NEW P \in Schemes, NEW pos \in 0..BlockSize-1, NEW i
    PROVE  PadByte(P, pos, i) \in Byte
BY SizeFacts DEF PadByte, Schemes, Byte

(* P::pad keeps the message part and writes the padding behind it.         *)
LEMMA PadProps ==
    ASSUME NEW P \in Schemes, P # "NoPadding", NEW block \in Block, NEW pos \in 0..BlockSize-1
    PROVE  /\ Pad(P, block, pos) \in Block
           /\ \A i \in 0..BlockSize-1 :
                 Pad(P, block, pos)[i] = IF i < pos THEN block[i] ELSE PadByte(P, pos, i)
<1>1. PICK k \in Byte : k = BlockSize - pos /\ (BlockSize - pos) % 256 = k
  BY SizeFacts DEF Byte
<1>2. DOMAIN block = 0..BlockSize-1 /\ \A i \in 0..BlockSize-1 : block[i] \in Byte
  BY DEF Block
<1>3. ASSUME NEW b \in Byte
      PROVE  /\ Fill(block, pos, b) \in Block
             /\ \A i \in 0..BlockSize-1 : Fill(block, pos, b)[i] = IF i < pos THEN block[i] ELSE b
  BY <1>2, SizeFacts DEF Fill, Block
<1>4. 0 \in Byte /\ 128 \in Byte /\ pos \in 0..BlockSize-1 /\ BlockSize-1 \in 0..BlockSize-1
  BY SizeFacts DEF Byte
<1>5. CASE P = "ZeroPadding"
  BY <1>3, <1>4, <1>5 DEF Pad, PadByte
<1>6. CASE P \in {"Pkcs7", "Iso10126"}
  <2>1. Pad(P, block, pos) = Fill(block, pos, k)
    BY <1>1, <1>6 DEF Pad
  <2>2. \A i : PadByte(P, pos, i) = k
    BY <1>1, <1>6 DEF PadByte
  <2> QED
    BY <1>3, <2>1, <2>2
<1>7. CASE P = "AnsiX923"
  <2> DEFINE f == Fill(block, pos, 0)
  <2>1. Pad(P, block, pos) = [f EXCEPT ![BlockSize-1] = k]
    BY <1>1, <1>7 DEF Pad
  <2>2. \A i : PadByte(P, pos, i) = IF i = BlockSize - 1 THEN k ELSE 0
    BY <1>1, <1>7 DEF PadByte
  <2>3. f \in Block /\ \A i \in 0..BlockSize-1 : f[i] = IF i < pos THEN block[i] ELSE 0
    BY <1>3, <1>4
  <2> HIDE DEF f
  <2>4. /\ [f EXCEPT ![BlockSize-1] = k] \in Block
        /\ \A i \in 0..BlockSize-1 :
              [f EXCEPT ![BlockSize-1] = k][i] = IF i = BlockSize - 1 THEN k ELSE f[i]
    BY <1>4, <2>3 DEF Block
  <2>5. ~(BlockSize - 1 < pos)
    BY SizeFacts
  <2> QED
    BY <2>1, <2>2, <2>3, <2>4, <2>5
<1>8. CASE P = "Iso7816"
  <2> DEFINE f == Fill(block, pos, 0)
  <2>1. Pad(P, block, pos) = [f EXCEPT ![pos] = 128]
    BY <1>8 DEF Pad
  <2>2. \A i : PadByte(P, pos, i) = IF i = pos THEN 128 ELSE 0
    BY <1>8 DEF PadByte
  <2>3. f \in Block /\ \A i \in 0..BlockSize-1 : f[i] = IF i < pos THEN block[i] ELSE 0
    BY <1>3, <1>4
  <2> HIDE DEF f
  <2>4. /\ [f EXCEPT ![pos] = 128] \in Block
        /\ \A i \in 0..BlockSize-1 : [f EXCEPT ![pos] = 128][i] = IF i = pos THEN 128 ELSE f[i]
    BY <1>4, <2>3 DEF Block
  <2> QED
    BY <2>1, <2>2, <2>3, <2>4
<1> QED
  BY <1>5, <1>6, <1>7, <1>8 DEF Schemes

(* A reversible scheme finds the end of the message it padded.             *)
LEMMA UnpadFinds ==
    ASSUME NEW P \in Schemes, PadType(P) = "Reversible", NEW block \in Block,
           NEW pos \in 0..BlockSize-1, PaddedAt(P, block, pos)
    PROVE  Unpad(P, block) = pos
<1>0. PICK s \in Nat \ {0} : s = BlockSize /\ s <= 255 /\ pos \in 0..s-1
  BY SizeFacts
<1>1. P \in {"Pkcs7", "Iso10126", "AnsiX923", "Iso7816"}
  BY DEF PadType, Schemes
<1>2. \A i \in pos..s-1 : block[i] = PadByte(P, pos, i)
  BY <1>0 DEF PaddedAt
<1>3. s - 1 \in pos..s-1 /\ pos \in pos..s-1
  BY <1>0
<1>4. CASE P \in {"Pkcs7", "Iso10126"}
  <2>1. \A i \in pos..s-1 : block[i] = s - pos
    BY <1>0, <1>2, <1>4 DEF PadByte
  <2>2. PICK n \in Nat : n = block[s-1] /\ n = s - pos /\ n # 0 /\ ~(n > s)
    BY <1>0, <1>3, <2>1
  <2>3. \A i \in s-n..s-2 : block[i] = n
    BY <1>0, <2>1, <2>2
  <2>4. CASE P = "Pkcs7"
    <3>1. Unpad(P, block) = UnpadCounted(block, TRUE, n)
      BY <1>0, <2>2, <2>4 DEF Unpad
    <3>2. UnpadCounted(block, TRUE, n) = s - n
      BY <1>0, <2>2, <2>3 DEF UnpadCounted
    <3>3. s - n = pos
      BY <1>0, <2>2
    <3> QED
      BY <3>1, <3>2, <3>3, Zenon
  <2>5. CASE P = "Iso10126"
    <3>1. Unpad(P, block) = UnpadCounted(block, FALSE, 0)
      BY <2>5 DEF Unpad
    <3>2. UnpadCounted(block, FALSE, 0) = s - n
      BY <1>0, <2>2 DEF UnpadCounted
    <3>3. s - n = pos
      BY <1>0, <2>2
    <3> QED
      BY <3>1, <3>2, <3>3, Zenon
  <2> QED
    BY <1>4, <2>4, <2>5
<1>5. CASE P = "AnsiX923"
  <2>1. \A i \in pos..s-1 : block[i] = IF i = s - 1 THEN s - pos ELSE 0
    BY <1>0, <1>2, <1>5 DEF PadByte
  <2>2. PICK n \in Nat : n = block[s-1] /\ n = s - pos /\ n # 0 /\ ~(n > s)
    BY <1>0, <1>3, <2>1
  <2>3. \A i \in s-n..s-2 : block[i] = 0
    BY <1>0, <2>1, <2>2
  <2>4. Unpad(P, block) = UnpadCounted(block, TRUE, 0)
    BY <1>5 DEF Unpad
  <2>5. UnpadCounted(block, TRUE, 0) = s - n
    BY <1>0, <2>2, <2>3 DEF UnpadCounted
  <2>6. s - n = pos
    BY <1>0, <2>2
  <2> QED
    BY <2>4, <2>5, <2>6, Zenon
<1>6. CASE P = "Iso7816"
  <2>1. block[pos] = 128 /\ \A i \in pos+1..s-1 : block[i] = 0
    BY <1>0, <1>2, <1>3, <1>6 DEF PadByte
  <2>2. Delimits(block, pos)
    BY <1>0, <2>1 DEF Delimits, ZeroFrom
  <2>3. ASSUME NEW n \in 0..s-1, Delimits(block, n) PROVE n = pos
    <3>1. block[n] = 128 /\ \A i \in n+1..s-1 : block[i] = 0
      BY <1>0, <2>3 DEF Delimits, ZeroFrom
    <3>2. ~(n < pos)
      BY <1>0, <2>1, <3>1
    <3>3. ~(pos < n)
      BY <1>0, <2>1, <3>1
    <3> QED
      BY <1>0, <3>2, <3>3
  <2>4. Unpad(P, block) = UnpadDelimited(block)
    BY <1>6 DEF Unpad
  <2>5. UnpadDelimited(block) = (CHOOSE n \in 0..s-1 : Delimits(block, n))
    BY <1>0, <2>2 DEF UnpadDelimited
  <2>6. (CHOOSE n \in 0..s-1 : Delimits(block, n)) = pos
    BY <1>0, <2>2, <2>3
  <2> QED
    BY <2>4, <2>5, <2>6
<1> QED
  BY <1>1, <1>4, <1>5, <1>6

(* A strict scheme accepts a block only if it is padded where it says.     *)
LEMMA UnpadExact ==
    ASSUME NEW P \in {"Pkcs7", "AnsiX923", "Iso7816"}, NEW block \in Block,
           Unpad(P, block) # Err
    PROVE  Unpad(P, block) \in 0..BlockSize-1 /\ PaddedAt(P, block, Unpad(P, block))
<1>0. PICK s \in Nat \ {0} : s = BlockSize
  BY SizeFacts
<1>1. \A i \in 0..s-1 : block[i] \in Nat
  <2>1. \A i \in 0..BlockSize-1 : block[i] \in Byte
    BY DEF Block
  <2>2. Byte \subseteq Nat
    BY DEF Byte
  <2> QED
    BY <1>0, <2>1, <2>2, Zenon
<1>2. CASE P \in {"Pkcs7", "AnsiX923"}
  <2>1. PICK n \in Nat : n = block[s-1]
    BY <1>0, <1>1
  <2>2. PICK filler : filler = IF P = "Pkcs7" THEN n ELSE 0
    OBVIOUS
  <2>3. Unpad(P, block) = UnpadCounted(block, TRUE, filler)
    BY <1>0, <1>2, <2>1, <2>2 DEF Unpad
  <2>4. /\ Unpad(P, block) = s - n /\ n # 0 /\ ~(n > s)
        /\ \A i \in s-n..s-2 : block[i] = filler
    BY <1>0, <2>1, <2>3 DEF UnpadCounted
  <2>5. PICK r \in 0..s-1 : r = s - n /\ n = s - r
    BY <2>1, <2>4
  <2>6. ASSUME NEW i \in r..s-1 PROVE block[i] = PadByte(P, r, i)
    <3>1. CASE i = s - 1
      BY <1>0, <1>2, <2>1, <2>5, <3>1 DEF PadByte
    <3>2. CASE i # s - 1
      <4>1. block[i] = filler
        BY <2>4, <2>5, <3>2
      <4> QED
        BY <1>0, <1>2, <2>2, <2>5, <3>2, <4>1 DEF PadByte
    <3> QED
      BY <3>1, <3>2
  <2> QED
    BY <1>0, <2>4, <2>5, <2>6 DEF PaddedAt
<1>3. CASE P = "Iso7816"
  <2>1. Unpad(P, block) = UnpadDelimited(block)
    BY <1>3 DEF Unpad
  <2>2. /\ \E n \in 0..s-1 : Delimits(block, n)
        /\ UnpadDelimited(block) = (CHOOSE n \in 0..s-1 : Delimits(block, n))
    BY <1>0, <2>1 DEF UnpadDelimited
  <2>3. PICK r \in 0..s-1 : r = UnpadDelimited(block) /\ Delimits(block, r)
    BY <2>2
  <2>4. ASSUME NEW i \in r..s-1 PROVE block[i] = PadByte(P, r, i)
    <3>1. block[r] = 128 /\ \A j \in r+1..s-1 : block[j] = 0
      BY <1>0, <2>3 DEF Delimits, ZeroFrom
    <3> QED
      BY <1>3, <3>1 DEF PadByte
  <2> QED
    BY <1>0, <2>1, <2>3, <2>4 DEF PaddedAt
<1> QED
  BY <1>2, <1>3

(* Zero padding stops at the last byte that is not zero.                   *)
LEMMA UnpadZerosProps ==
    ASSUME NEW block \in Block, NEW pos \in 0..BlockSize, ZeroFrom(block, pos)
    PROVE  Unpad("ZeroPadding", block) \in 0..pos /\ ZeroFrom(block, Unpad("ZeroPadding", block))
<1>0. PICK s \in Nat \ {0} : s = BlockSize
  BY SizeFacts
<1> DEFINE Stops(n) == ZeroFrom(block, n) /\ (n = 0 \/ block[n-1] # 0)
<1>1. \E n \in 0..s : n <= pos /\ Stops(n)
  <2> SUFFICES ASSUME \A n \in 0..s : n <= pos => ~Stops(n) PROVE FALSE
    OBVIOUS
  <2> DEFINE S == {k \in Nat : k <= pos => ZeroFrom(block, pos - k)}
  <2>1. 0 \in S
    <3>1. pos - 0 = pos
      BY <1>0
    <3> QED
      BY <3>1
  <2>2. ASSUME NEW k \in Nat, k \in S PROVE k + 1 \in S
    <3>1. CASE ~(k + 1 <= pos)
      BY <3>1
    <3>2. CASE k + 1 <= pos
      <4>1. PICK n \in 1..s : n = pos - k /\ n - 1 = pos - (k + 1) /\ n <= pos
        BY <1>0, <3>2
      <4>2. ZeroFrom(block, n)
        BY <1>0, <2>2, <3>2, <4>1
      <4>3. block[n-1] = 0
        BY <4>1, <4>2
      <4>4. \A i \in n-1..s-1 : i = n-1 \/ i \in n..s-1
        BY <1>0
      <4>5. ZeroFrom(block, n-1)
        BY <1>0, <4>2, <4>3, <4>4 DEF ZeroFrom
      <4> QED
        BY <4>1, <4>5
    <3> QED
      BY <3>1, <3>2
  <2>3. \A k \in Nat : k \in S
    <3> HIDE DEF S
    <3> QED
      BY <2>1, <2>2, NatSetInduction
  <2>4. PICK p \in Nat : p = pos /\ p - p = 0 /\ p <= s
    BY <1>0
  <2>5. ZeroFrom(block, 0)
    BY <2>3, <2>4
  <2> QED
    BY <1>0, <2>4, <2>5
<1>2. ASSUME NEW n \in 0..s, NEW m \in 0..s, Stops(n), Stops(m) PROVE n = m
  <2>1. ASSUME NEW a \in 0..s, NEW b \in 0..s, Stops(a), Stops(b) PROVE ~(a < b)
    <3> SUFFICES ASSUME a < b PROVE FALSE
      OBVIOUS
    <3>1. b - 1 \in a..s-1 /\ b # 0
      BY <1>0
    <3> QED
      BY <1>0, <2>1, <3>1 DEF ZeroFrom
  <2>2. ~(n < m) /\ ~(m < n)
    BY <1>2, <2>1
  <2> QED
    BY <1>0, <2>2
<1>3. Unpad("ZeroPadding", block) = (CHOOSE n \in 0..s : Stops(n))
  BY <1>0 DEF Unpad, UnpadZeros
<1>4. PICK n \in 0..s : n <= pos /\ Stops(n)
  BY <1>1
<1> HIDE DEF Stops
<1>5. (CHOOSE m \in 0..s : Stops(m)) = n
  BY <1>2, <1>4
<1>6. n \in 0..pos /\ ZeroFrom(block, n)
  BY <1>0, <1>4 DEF Stops
<1> QED
  BY <1>3, <1>5, <1>6

-----------------------------------------------------------------------------
(* Messages of several blocks.                                             *)

(* The bytes c of two parts, by their lengths.                             *)
IsJoin(c, a, n, b, k) ==
    /\ c \in Seq(Byte) /\ Len(c) = n + k
    /\ \A i \in 1..n : c[i] = a[i]
    /\ \A i \in 1..k : c[n + i] = b[i]

(* A concatenation is such a join.                                         *)
LEMMA Joined ==
    ASSUME NEW a \in Seq(Byte), NEW b \in Seq(Byte)
    PROVE  IsJoin(a \o b, a, Len(a), b, Len(b))
BY ConcatProps DEF IsJoin

(* The padding of a message whose last block is filled up to r.            *)
LEMMA PaddingProps ==
    ASSUME NEW P \in Schemes, NEW len \in Nat, NEW r \in 0..BlockSize-1, len % BlockSize = r
    PROVE  /\ Padding(P, len) \in Seq(Byte)
           /\ Len(Padding(P, len)) = PadLen(P, r)
           /\ \A j \in 1..PadLen(P, r) : Padding(P, len)[j] = PadByte(P, r, r + j - 1)
<1>1. PICK s \in Nat \ {0}, n \in Nat \ {0} :
          s = BlockSize /\ n = s - r /\ n <= s /\ n <= 255 /\ s - (len % s) = n
  BY SizeFacts
<1>2. n \in Byte /\ n - 1 \in Nat
  BY <1>1 DEF Byte
<1>3. CASE P = "ZeroPadding"
  <2>1. Padding(P, len) = Zeros(n % s)
    BY <1>1, <1>3 DEF Padding
  <2>2. n % s = PadLen(P, r)
    <3>1. CASE r = 0
      BY <1>1, <1>3, <3>1, BlockMod DEF PadLen
    <3>2. CASE r # 0
      <4>1. n \in 0..s-1
        BY <1>1, <3>2
      <4>2. n % s = n
        BY <1>1, <4>1, BlockMod
      <4> QED
        BY <1>1, <1>3, <3>2, <4>2 DEF PadLen
    <3> QED
      BY <3>1, <3>2
  <2>3. PadLen(P, r) \in Nat
    BY <1>1, <1>3 DEF PadLen
  <2>4. \A j : PadByte(P, r, j) = 0
    BY <1>3 DEF PadByte
  <2> QED
    BY <2>1, <2>2, <2>3, <2>4, ZerosProps
<1>4. CASE P = "NoPadding"
  <2>1. Padding(P, len) = <<>>
    BY <1>4 DEF Padding
  <2>2. PadLen(P, r) = 0
    BY <1>4 DEF PadLen
  <2>3. 1..0 = {}
    OBVIOUS
  <2> QED
    BY <2>1, <2>2, <2>3
<1>5. CASE P \in {"Pkcs7", "Iso10126"}
  <2>1. Padding(P, len) = [i \in 1..n |-> n]
    BY <1>1, <1>5 DEF Padding
  <2>2. PadLen(P, r) = n /\ \A j : PadByte(P, r, j) = n
    BY <1>1, <1>5 DEF PadLen, PadByte
  <2> QED
    BY <1>2, <2>1, <2>2
<1>6. CASE P = "AnsiX923"
  <2> DEFINE z == Zeros(n - 1)
  <2>1. Padding(P, len) = Append(z, n)
    BY <1>1, <1>6 DEF Padding
  <2>2. /\ PadLen(P, r) = n
        /\ \A j \in 1..n : PadByte(P, r, r + j - 1) = IF j = n THEN n ELSE 0
    BY <1>1, <1>6 DEF PadLen, PadByte
  <2>3. z \in Seq(Byte) /\ Len(z) = n - 1 /\ \A j \in 1..n-1 : z[j] = 0
    BY <1>2, ZerosProps
  <2> HIDE DEF z
  <2>4. /\ Append(z, n) \in Seq(Byte) /\ Len(Append(z, n)) = n
        /\ \A j \in 1..n : Append(z, n)[j] = IF j = n THEN n ELSE z[j]
    BY <1>2, <2>3
  <2>5. \A j \in 1..n : j # n => z[j] = 0
    BY <1>2, <2>3
  <2> QED
    BY <2>1, <2>2, <2>4, <2>5, ZenonT(40)
<1>7. CASE P = "Iso7816"
  <2> DEFINE z == Zeros(n - 1)
             a == <<128>>
  <2>1. Padding(P, len) = a \o z
    BY <1>1, <1>7 DEF Padding
  <2>2. /\ PadLen(P, r) = n
        /\ \A j \in 1..n : PadByte(P, r, r + j - 1) = IF j = 1 THEN 128 ELSE 0
    BY <1>1, <1>7 DEF PadLen, PadByte
  <2>3. z \in Seq(Byte) /\ Len(z) = n - 1 /\ \A j \in 1..n-1 : z[j] = 0
    BY <1>2, ZerosProps
  <2>4. a \in Seq(Byte) /\ Len(a) = 1 /\ a[1] = 128
    BY DEF Byte
  <2> HIDE DEF z, a
  <2>5. PICK c : c = a \o z
    OBVIOUS
  <2>6. /\ c \in Seq(Byte) /\ Len(c) = 1 + (n - 1)
        /\ \A i \in 1..1 : c[i] = a[i]
        /\ \A i \in 1..n-1 : c[1 + i] = z[i]
    <3>1. IsJoin(a \o z, a, Len(a), z, Len(z))
      BY <2>3, <2>4, Joined
    <3>2. IsJoin(c, a, 1, z, n - 1)
      BY <2>3, <2>4, <2>5, <3>1, ZenonT(40)
    <3> QED
      BY <3>2 DEF IsJoin
  <2>7. Len(c) = n /\ c[1] = 128
    BY <1>2, <2>4, <2>6
  <2>8. ASSUME NEW j \in 1..n, j # 1 PROVE c[j] = 0
    <3>1. j - 1 \in 1..n-1 /\ 1 + (j - 1) = j
      BY <1>2, <2>8
    <3> QED
      BY <2>3, <2>6, <3>1
  <2>9. \A j \in 1..n : c[j] = PadByte(P, r, r + j - 1)
    BY <2>2, <2>7, <2>8
  <2> QED
    <3>1. Padding(P, len) = c /\ PadLen(P, r) = n
      BY <2>1, <2>2, <2>5, Zenon
    <3> QED
      BY <2>6, <2>7, <2>9, <3>1, Zenon
<1> QED
  BY <1>3, <1>4, <1>5, <1>6, <1>7 DEF Schemes

(* The padding fills the last block, or there is none.                     *)
LEMMA PadLenProps ==
    ASSUME NEW P \in Schemes, NEW r \in 0..BlockSize-1
    PROVE  /\ PadLen(P, r) \in Nat
           /\ PadLen(P, r) = 0 \/ r + PadLen(P, r) = BlockSize
           /\ P \in {"Pkcs7", "Iso10126", "AnsiX923", "Iso7816"} => r + PadLen(P, r) = BlockSize
BY SizeFacts DEF PadLen, Schemes

(* The padded message of q full blocks and r bytes more.                   *)
LEMMA PaddedMessageProps ==
    ASSUME NEW P \in Schemes, NEW s \in Seq(Byte), NEW q \in Nat, NEW r \in 0..BlockSize-1,
           Len(s) = At(q) + r
    PROVE  /\ PaddedMessage(P, s) \in Seq(Byte)
           /\ Len(PaddedMessage(P, s)) = Len(s) + PadLen(P, r)
           /\ \A i \in 1..Len(s) : PaddedMessage(P, s)[i] = s[i]
           /\ \A i \in r..r+PadLen(P, r)-1 : PaddedMessage(P, s)[At(q) + i + 1] = PadByte(P, r, i)
<1>1. PICK n \in Nat, a \in Nat, k \in Nat, p \in Nat :
          n = Len(s) /\ a = At(q) /\ k = PadLen(P, r) /\ p = r /\ n = a + p
  <2>1. Len(s) \in Nat /\ At(q) \in Nat /\ PadLen(P, r) \in Nat /\ r \in Nat
    BY AtProps, SizeFacts, PadLenProps, LenProperties
  <2> QED
    BY <2>1, Zenon
<1>2. n % BlockSize = r
  BY <1>1, QuotientOf
<1>3. PICK d \in Seq(Byte) : /\ d = Padding(P, n) /\ Len(d) = k
                             /\ \A j \in 1..k : d[j] = PadByte(P, p, p + j - 1)
  BY <1>1, <1>2, PaddingProps
<1>4. PICK m : m = PaddedMessage(P, s) /\ m = s \o d
  BY <1>1, <1>3 DEF PaddedMessage
<1>5. /\ m \in Seq(Byte) /\ Len(m) = n + k
      /\ \A i \in 1..n : m[i] = s[i]
      /\ \A i \in 1..k : m[n + i] = d[i]
  <2>1. Len(s) = n /\ Len(d) = k /\ m = s \o d
    BY <1>1, <1>3, <1>4
  <2> QED
    <3>1. IsJoin(s \o d, s, Len(s), d, Len(d))
      BY Joined
    <3>2. IsJoin(m, s, n, d, k)
      BY <2>1, <3>1, Zenon
    <3> QED
      BY <3>2 DEF IsJoin
<1>6. ASSUME NEW i \in p..p+k-1 PROVE m[a + i + 1] = PadByte(P, p, i)
  <2>1. PICK j \in 1..k : j = i - p + 1 /\ n + j = a + i + 1 /\ p + j - 1 = i
    BY <1>1, <1>6
  <2>2. m[n + j] = d[j] /\ d[j] = PadByte(P, p, p + j - 1)
    BY <1>3, <1>5
  <2> QED
    BY <2>1, <2>2, Zenon
<1> QED
  BY <1>1, <1>4, <1>5, <1>6, Zenon

(* Block k of a text.                                                      *)
TextBlock(text, k) == [i \in 0..BlockSize-1 |-> text[At(k) + i + 1]]

(* unpad_blocks looks at the last block.                                   *)
LEMMA UnpadTextProps ==
    ASSUME NEW P \in Schemes, NEW text \in Seq(Byte), NEW t \in Nat, Len(text) = At(t)
    PROVE  /\ P = "NoPadding" => UnpadText(P, text) = At(t)
           /\ P = "ZeroPadding" /\ t = 0 => UnpadText(P, text) = 0
           /\ PadType(P) = "Reversible" /\ t = 0 => UnpadText(P, text) = Err
           /\ P # "NoPadding" /\ t > 0 =>
                 /\ TextBlock(text, t - 1) \in Block
                 /\ UnpadText(P, text) = IF Unpad(P, TextBlock(text, t - 1)) = Err THEN Err
                                         ELSE Unpad(P, TextBlock(text, t - 1)) + At(t - 1)
<1>1. Len(text) \div BlockSize = t
  <2>1. 0 \in 0..BlockSize-1 /\ At(t) + 0 = At(t)
    BY SizeFacts, AtProps
  <2> QED
    BY <2>1, QuotientOf
<1>2. UnpadText(P, text) = UnpadBlocks(P, t, TextBlock(text, t - 1))
  BY <1>1, Zenon DEF UnpadText, TextBlock, At
<1>3. /\ (PadType(P) = "NoPadding" <=> P = "NoPadding")
      /\ (PadType(P) = "Ambiguous" <=> P = "ZeroPadding")
      /\ PadType(P) \in {"NoPadding", "Ambiguous", "Reversible"}
  BY DEF PadType, Schemes
<1>4. P = "NoPadding" => UnpadText(P, text) = At(t)
  BY <1>2, <1>3 DEF UnpadBlocks, At
<1>5. P = "ZeroPadding" /\ t = 0 => UnpadText(P, text) = 0
  BY <1>2, <1>3 DEF UnpadBlocks
<1>6. PadType(P) = "Reversible" /\ t = 0 => UnpadText(P, text) = Err
  BY <1>2, <1>3 DEF UnpadBlocks
<1>7. ASSUME P # "NoPadding", t > 0
      PROVE  /\ TextBlock(text, t - 1) \in Block
             /\ UnpadText(P, text) = IF Unpad(P, TextBlock(text, t - 1)) = Err THEN Err
                                     ELSE Unpad(P, TextBlock(text, t - 1)) + At(t - 1)
  <2>1. PICK a \in Nat, s \in Nat : a = At(t - 1) /\ s = BlockSize /\ a + s = Len(text)
    <3>1. t - 1 \in Nat /\ (t - 1) + 1 = t
      BY <1>7
    <3>2. At(t - 1) \in Nat /\ At((t - 1) + 1) = At(t - 1) + BlockSize
      BY <3>1, AtProps
    <3>3. At(t) = At(t - 1) + BlockSize /\ BlockSize \in Nat
      BY <3>1, <3>2, SizeFacts
    <3> QED
      BY <1>1, <1>2, <3>2, <3>3, Zenon
  <2>2. \A i \in 1..a+s : text[i] \in Byte
    BY <2>1, ElementOfSeq
  <2>3. \A i \in 0..s-1 : a + i + 1 \in 1..a+s
    BY <2>1
  <2>4. TextBlock(text, t - 1) \in Block
    <3>1. \A i \in 0..s-1 : text[a + i + 1] \in Byte
      BY <2>2, <2>3
    <3>2. TextBlock(text, t - 1) = [i \in 0..s-1 |-> text[a + i + 1]]
      BY <2>1, Zenon DEF TextBlock
    <3>3. [i \in 0..s-1 |-> text[a + i + 1]] \in [0..s-1 -> Byte]
      BY <3>1
    <3> QED
      BY <2>1, <3>2, <3>3 DEF Block
  <2>5. UnpadBlocks(P, t, TextBlock(text, t - 1)) =
            IF Unpad(P, TextBlock(text, t - 1)) = Err THEN Err
            ELSE Unpad(P, TextBlock(text, t - 1)) + BlockSize * (t - 1)
    BY <1>3, <1>7 DEF UnpadBlocks
  <2> QED
    BY <1>2, <2>4, <2>5, Zenon DEF At
<1> QED
  BY <1>4, <1>5, <1>6, <1>7

(* The first n bytes of a text.                                            *)
LEMMA PrefixProps ==
    ASSUME NEW s \in Seq(Byte), NEW n \in Nat, n <= Len(s)
    PROVE  /\ SubSeq(s, 1, n) \in Seq(Byte) /\ Len(SubSeq(s, 1, n)) = n
           /\ \A i \in 1..n : SubSeq(s, 1, n)[i] = s[i]
<1>1. 0 \in Nat /\ 0 <= n /\ 0 + 1 = 1 /\ n - 0 = n /\ \A i \in 1..n : 0 + i = i
  OBVIOUS
<1>2. /\ SubSeq(s, 0 + 1, n) \in Seq(Byte)
      /\ Len(SubSeq(s, 0 + 1, n)) = n - 0
      /\ \A i \in 1..n-0 : SubSeq(s, 0 + 1, n)[i] = s[0 + i]
  BY <1>1, SubSeqProps
<1> QED
  BY <1>1, <1>2

(* A text that a strict scheme accepts is its own padding of what it gives *)
(* back.                                                                   *)
LEMMA StrictText ==
    ASSUME NEW P \in {"Pkcs7", "AnsiX923", "Iso7816"}, NEW text \in Seq(Byte), NEW t \in Nat,
           Len(text) = At(t), UnpadText(P, text) # Err
    PROVE  PaddedMessage(P, SubSeq(text, 1, UnpadText(P, text))) = text
<1>1. P \in Schemes /\ PadType(P) = "Reversible" /\ P # "NoPadding"
  BY DEF Schemes, PadType
<1>2. t > 0
  <2> SUFFICES ASSUME t = 0 PROVE FALSE
    OBVIOUS
  <2> QED
    BY <1>1, UnpadTextProps
<1>3. PICK k \in Nat : k = t - 1 /\ k + 1 = t
  BY <1>2
<1>4. PICK b : b = TextBlock(text, k)
  OBVIOUS
<1>5. /\ b \in Block
      /\ UnpadText(P, text) = IF Unpad(P, b) = Err THEN Err ELSE Unpad(P, b) + At(k)
  BY <1>1, <1>2, <1>3, <1>4, UnpadTextProps
<1>6. Unpad(P, b) # Err /\ UnpadText(P, text) = Unpad(P, b) + At(k)
  BY <1>5
<1>7. PICK u \in 0..BlockSize-1 : u = Unpad(P, b) /\ PaddedAt(P, b, u)
  BY <1>5, <1>6, UnpadExact
<1>8. PICK a \in Nat, s \in Nat \ {0}, v \in Nat :
          a = At(k) /\ s = BlockSize /\ v = u /\ v < s /\ Len(text) = a + s
  <2>1. At(k) \in Nat /\ At(k + 1) = At(k) + BlockSize
    BY AtProps
  <2> QED
    BY <1>3, <2>1, SizeFacts
<1>9. PICK len \in Nat : len = UnpadText(P, text) /\ len = a + v /\ len <= Len(text)
  BY <1>6, <1>7, <1>8
<1>10. PICK m \in Seq(Byte) : /\ m = SubSeq(text, 1, len) /\ Len(m) = len
                              /\ \A i \in 1..len : m[i] = text[i]
  BY <1>9, PrefixProps
<1>11. PICK z : z = PaddedMessage(P, m)
  OBVIOUS
<1>12. PICK w \in Nat : w = PadLen(P, u) /\ v + w = s
  <2>1. PadLen(P, u) \in Nat /\ u + PadLen(P, u) = BlockSize
    BY <1>1, PadLenProps
  <2> QED
    BY <1>8, <2>1, Zenon
<1>13. /\ z \in Seq(Byte) /\ Len(z) = len + w
       /\ \A i \in 1..len : z[i] = m[i]
       /\ \A i \in v..v+w-1 : z[a + i + 1] = PadByte(P, v, i)
  <2>1. Len(m) = At(k) + u
    BY <1>8, <1>9, <1>10
  <2>2. /\ PaddedMessage(P, m) \in Seq(Byte)
        /\ Len(PaddedMessage(P, m)) = Len(m) + PadLen(P, u)
        /\ \A i \in 1..Len(m) : PaddedMessage(P, m)[i] = m[i]
        /\ \A i \in u..u+PadLen(P, u)-1 : PaddedMessage(P, m)[At(k) + i + 1] = PadByte(P, u, i)
    BY <1>1, <2>1, PaddedMessageProps
  <2> QED
    BY <1>8, <1>10, <1>11, <1>12, <2>2, Zenon
<1>14. Len(z) = a + s
  <2>1. len + w = a + s
    BY <1>9, <1>12
  <2> QED
    BY <1>13, <2>1
<1>15. ASSUME NEW i \in 1..a+s PROVE z[i] = text[i]
  <2>1. CASE i <= len
    BY <1>10, <1>13, <2>1
  <2>2. CASE ~(i <= len)
    <3>0. PICK j \in Int : j = i - a - 1
      OBVIOUS
    <3>1. j \in v..s-1 /\ i = a + j + 1 /\ j \in v..v+w-1
      BY <1>9, <1>12, <2>2, <3>0
    <3>2. z[a + j + 1] = PadByte(P, v, j)
      BY <1>13, <3>1
    <3>3. b[j] = PadByte(P, v, j)
      BY <1>7, <1>8, <3>1 DEF PaddedAt
    <3>4. j \in 0..s-1
      BY <3>1
    <3>5. b[j] = text[a + j + 1]
      BY <1>4, <1>8, <3>4 DEF TextBlock
    <3> QED
      BY <3>1, <3>2, <3>3, <3>5
  <2> QED
    BY <2>1, <2>2
<1>16. z = text
  BY <1>8, <1>13, <1>14, <1>15, SeqEqual
<1> QED
  BY <1>9, <1>10, <1>11, <1>16

(* What RoundTrip says of a message, its padded text, and what unpadding   *)
(* that text returns.                                                      *)
Recovers(P, m, text, len) ==
    /\ len \in 0..Len(m)
    /\ SubSeq(text, 1, len) = SubSeq(m, 1, len)
    /\ IF PadType(P) # "Ambiguous"
       THEN len = Len(m)
       ELSE /\ Len(m) - len <= BlockSize
            /\ \A i \in len+1..Len(m) : m[i] = 0

(* How many blocks a padded message has.                                   *)
LEMMA PaddedLength ==
    ASSUME NEW P \in Schemes, NEW m \in Seq(Byte), NEW q \in Nat, NEW r \in 0..BlockSize-1,
           Len(m) = At(q) + r, P = "NoPadding" => r = 0
    PROVE  Len(PaddedMessage(P, m)) = IF PadLen(P, r) = 0 THEN At(q) ELSE At(q + 1)
<1>1. Len(PaddedMessage(P, m)) = Len(m) + PadLen(P, r)
  BY PaddedMessageProps
<1>2. PICK a \in Nat, s \in Nat \ {0}, v \in Nat, w \in Nat :
          a = At(q) /\ s = BlockSize /\ v = r /\ w = PadLen(P, r) /\ v < s
  <2>1. /\ At(q) \in Nat /\ BlockSize \in Nat \ {0} /\ r \in Nat /\ PadLen(P, r) \in Nat
        /\ r < BlockSize
    BY AtProps, SizeFacts, PadLenProps
  <2> QED
    BY <2>1, Zenon
<1>3. At(q + 1) = a + s
  BY <1>2, AtProps
<1>4. w = 0 => v = 0
  BY <1>2 DEF PadLen
<1>5. w = 0 \/ v + w = s
  BY <1>2, PadLenProps
<1>6. Len(PaddedMessage(P, m)) = (a + v) + w
  BY <1>1, <1>2, Zenon
<1>7. (a + v) + w = IF w = 0 THEN a ELSE a + s
  BY <1>4, <1>5
<1> QED
  BY <1>2, <1>3, <1>6, <1>7, Zenon

(* Unpadding gives back what was padded.                                   *)
LEMMA RoundTripText ==
    ASSUME NEW P \in Schemes, NEW m \in Seq(Byte), NEW q \in Nat, NEW r \in 0..BlockSize-1,
           Len(m) = At(q) + r, P = "NoPadding" => r = 0
    PROVE  Recovers(P, m, PaddedMessage(P, m), UnpadText(P, PaddedMessage(P, m)))
<1>1. PICK text : text = PaddedMessage(P, m)
  OBVIOUS
<1>2. PICK a \in Nat, s \in Nat \ {0}, v \in Nat, w \in Nat, n \in Nat :
          /\ a = At(q) /\ s = BlockSize /\ v = r /\ w = PadLen(P, r) /\ v < s
          /\ n = Len(m) /\ n = a + v
  <2>1. /\ Len(m) \in Nat /\ At(q) \in Nat /\ BlockSize \in Nat \ {0} /\ r \in Nat
        /\ PadLen(P, r) \in Nat /\ r < BlockSize
    BY LenProperties, AtProps, SizeFacts, PadLenProps
  <2> QED
    BY <2>1, Zenon
<1>3. /\ text \in Seq(Byte) /\ Len(text) = n + w
      /\ \A i \in 1..n : text[i] = m[i]
      /\ \A i \in v..v+w-1 : text[a + i + 1] = PadByte(P, v, i)
  <2>1. /\ PaddedMessage(P, m) \in Seq(Byte)
        /\ Len(PaddedMessage(P, m)) = Len(m) + PadLen(P, r)
        /\ \A i \in 1..Len(m) : PaddedMessage(P, m)[i] = m[i]
        /\ \A i \in r..r+PadLen(P, r)-1 : PaddedMessage(P, m)[At(q) + i + 1] = PadByte(P, r, i)
    BY PaddedMessageProps
  <2> QED
    BY <1>1, <1>2, <2>1, Zenon
<1>4. ASSUME NEW len \in 0..n PROVE SubSeq(text, 1, len) = SubSeq(m, 1, len)
  <2>1. len \in Nat /\ len <= Len(m) /\ len <= Len(text) /\ \A i \in 1..len : i \in 1..n
    BY <1>2, <1>3, SMTT(30)
  <2>2. /\ SubSeq(text, 1, len) \in Seq(Byte) /\ Len(SubSeq(text, 1, len)) = len
        /\ \A i \in 1..len : SubSeq(text, 1, len)[i] = text[i]
    BY <1>3, <2>1, PrefixProps
  <2>3. /\ SubSeq(m, 1, len) \in Seq(Byte) /\ Len(SubSeq(m, 1, len)) = len
        /\ \A i \in 1..len : SubSeq(m, 1, len)[i] = m[i]
    BY <2>1, PrefixProps
  <2>4. \A i \in 1..len : SubSeq(text, 1, len)[i] = SubSeq(m, 1, len)[i]
    BY <1>3, <2>1, <2>2, <2>3
  <2> QED
    BY <2>2, <2>3, <2>4, SeqEqual
<1>5. Len(text) = IF w = 0 THEN a ELSE At(q + 1)
  BY <1>1, <1>2, PaddedLength
<1>6. At(q + 1) = a + s
  BY <1>2, AtProps
<1>7. CASE P = "NoPadding"
  <2>1. w = 0 /\ v = 0 /\ PadType(P) # "Ambiguous"
    BY <1>2, <1>7 DEF PadLen, PadType
  <2>2. UnpadText(P, text) = a
    BY <1>2, <1>3, <1>5, <1>7, <2>1, UnpadTextProps
  <2>3. UnpadText(P, text) = n /\ n \in 0..n
    BY <1>2, <2>1, <2>2
  <2> QED
    BY <1>1, <1>2, <1>4, <2>1, <2>3 DEF Recovers
<1>8. CASE PadType(P) = "Reversible"
  <2>1. P # "NoPadding" /\ P \in {"Pkcs7", "Iso10126", "AnsiX923", "Iso7816"}
    BY <1>8 DEF PadType, Schemes
  <2>2. v + w = s /\ w # 0
    BY <1>2, <2>1, PadLenProps
  <2>3. PICK b : b = TextBlock(text, q)
    OBVIOUS
  <2>4. /\ b \in Block
        /\ UnpadText(P, text) = IF Unpad(P, b) = Err THEN Err ELSE Unpad(P, b) + At(q)
    <3>1. q + 1 \in Nat /\ q + 1 > 0 /\ (q + 1) - 1 = q /\ Len(text) = At(q + 1)
      BY <1>5, <2>2
    <3> QED
      BY <1>3, <2>1, <2>3, <3>1, UnpadTextProps
  <2>5. PaddedAt(P, b, r)
    <3>1. ASSUME NEW i \in v..s-1 PROVE b[i] = PadByte(P, v, i)
      <4>1. i \in 0..s-1 /\ i \in v..v+w-1
        BY <1>2, <2>2
      <4>2. b[i] = text[a + i + 1]
        BY <1>2, <2>3, <4>1 DEF TextBlock
      <4> QED
        BY <1>3, <4>1, <4>2
    <3> QED
      BY <1>2, <3>1 DEF PaddedAt
  <2>6. Unpad(P, b) = v /\ v # Err
    <3>1. Unpad(P, b) = r
      BY <1>8, <2>4, <2>5, UnpadFinds
    <3> QED
      BY <1>2, <3>1 DEF Err
  <2>7. UnpadText(P, text) = n /\ n \in 0..n
    BY <1>2, <2>4, <2>6
  <2>8. PadType(P) # "Ambiguous"
    BY <1>8
  <2> QED
    BY <1>1, <1>2, <1>4, <2>7, <2>8 DEF Recovers
<1>9. CASE P = "ZeroPadding"
  <2>0. PadType(P) = "Ambiguous" /\ P # "NoPadding"
    BY <1>9 DEF PadType
  <2>1. CASE n = 0
    <3>1. w = 0 /\ q = 0
      <4>1. a = 0 /\ v = 0
        BY <1>2, <2>1
      <4>2. At(q) = At(0)
        BY <1>2, <4>1, AtProps
      <4> QED
        BY <1>2, <1>9, <4>1, <4>2, AtProps DEF PadLen
    <3>2. UnpadText(P, text) = 0
      BY <1>2, <1>3, <1>5, <1>9, <3>1, UnpadTextProps
    <3>3. 0 \in 0..n /\ \A i \in 0+1..n : FALSE
      BY <2>1
    <3>4. n - 0 <= BlockSize
      BY <1>2, <2>1
    <3>5. SubSeq(text, 1, 0) = SubSeq(m, 1, 0)
      BY <1>4, <3>3
    <3> QED
      BY <1>1, <1>2, <2>0, <3>2, <3>3, <3>4, <3>5 DEF Recovers
  <2>2. CASE n # 0
    <3> DEFINE EndsIn(k, p, c) ==
                   /\ c = At(k) /\ n = c + p /\ p <= s /\ At(k + 1) = c + s
                   /\ Len(text) = c + s /\ \A i \in p..s-1 : text[c + i + 1] = 0
    <3>0. \E k \in Nat, p \in Nat, c \in Nat : EndsIn(k, p, c)
      <4>1. CASE v = 0
        <5>1. w = 0 /\ q # 0
          BY <1>2, <1>9, <2>2, <4>1, AtProps DEF PadLen
        <5>2. PICK k \in Nat : q = k + 1
          BY <5>1, q - 1 \in Nat
        <5>3. At(k) \in Nat /\ a = At(k) + s
          BY <1>2, <5>2, AtProps
        <5>4. At(k + 1) = At(k) + s
          BY <1>2, AtProps
        <5>5. n = At(k) + s /\ Len(text) = At(k) + s
          BY <1>2, <1>5, <4>1, <5>1, <5>3
        <5>6. s \in Nat /\ s <= s /\ \A i \in s..s-1 : text[At(k) + i + 1] = 0
          OBVIOUS
        <5>7. EndsIn(k, s, At(k))
          BY <5>4, <5>5, <5>6
        <5> HIDE DEF EndsIn
        <5> QED
          BY <5>3, <5>7
      <4>2. CASE v # 0
        <5>1. v + w = s /\ w # 0
          BY <1>2, <1>9, <4>2 DEF PadLen
        <5>2. \A i \in v..s-1 : text[a + i + 1] = 0
          <6>1. \A i : PadByte(P, v, i) = 0
            BY <1>9 DEF PadByte
          <6>2. \A i \in v..s-1 : i \in v..v+w-1
            BY <5>1
          <6> QED
            BY <1>3, <6>1, <6>2, Zenon
        <5>3. v <= s
          BY <1>2
        <5>4. Len(text) = a + s /\ n = a + v /\ a = At(q) /\ At(q + 1) = a + s
          BY <1>2, <1>5, <1>6, <5>1
        <5>5. EndsIn(q, v, a)
          BY <5>2, <5>3, <5>4
        <5> HIDE DEF EndsIn
        <5> QED
          BY <5>5
      <4> QED
        BY <4>1, <4>2
    <3>1. PICK k \in Nat, p \in Nat, c \in Nat : EndsIn(k, p, c)
      BY <3>0
    <3>2. PICK b : b = TextBlock(text, k)
      OBVIOUS
    <3>3. /\ b \in Block
          /\ UnpadText(P, text) = IF Unpad(P, b) = Err THEN Err ELSE Unpad(P, b) + At(k)
      <4>1. k + 1 \in Nat /\ k + 1 > 0 /\ (k + 1) - 1 = k /\ Len(text) = At(k + 1)
        BY <3>1
      <4> QED
        BY <1>3, <2>0, <3>2, <4>1, UnpadTextProps
    <3>4. \A i \in 0..s-1 : b[i] = text[c + i + 1]
      BY <1>2, <3>1, <3>2 DEF TextBlock
    <3>5. ZeroFrom(b, p)
      <4>1. \A i \in p..s-1 : i \in 0..s-1
        BY <3>1
      <4> QED
        BY <1>2, <3>1, <3>4, <4>1 DEF ZeroFrom
    <3>6. PICK u \in 0..p : u = Unpad(P, b) /\ ZeroFrom(b, u)
      <4>1. p \in 0..BlockSize
        BY <1>2, <3>1
      <4> QED
        BY <1>9, <3>3, <3>5, <4>1, UnpadZerosProps
    <3>7. PICK len \in 0..n : len = UnpadText(P, text) /\ len = c + u
      <4>1. u # Err
        BY <3>6 DEF Err
      <4>2. UnpadText(P, text) = u + c
        BY <3>1, <3>3, <3>6, <4>1
      <4>3. u + c \in 0..n /\ u + c = c + u
        <5>1. n = c + p
          BY <3>1, Zenon
        <5> HIDE DEF EndsIn
        <5> QED
          BY <5>1
      <4> QED
        BY <4>2, <4>3, Zenon
    <3>8. n - len <= s
      <4>1. n = c + p /\ p <= s /\ len = c + u
        BY <3>1, <3>7
      <4> QED
        BY <4>1
    <3>9. ASSUME NEW i \in len+1..n PROVE m[i] = 0
      <4>0. PICK j \in Int : j = i - c - 1
        OBVIOUS
      <4>1. j \in u..s-1 /\ i = c + j + 1 /\ j \in 0..s-1
        <5>1. n = c + p /\ p <= s /\ len = c + u
          BY <3>1, <3>7
        <5> QED
          BY <4>0, <5>1
      <4>2. b[j] = 0 /\ b[j] = text[c + j + 1]
        BY <1>2, <3>4, <3>6, <4>1 DEF ZeroFrom
      <4>3. i \in 1..n
        BY <3>7
      <4> QED
        BY <1>3, <4>1, <4>2, <4>3
    <3> QED
      BY <1>1, <1>2, <1>4, <2>0, <3>7, <3>8, <3>9 DEF Recovers
  <2> QED
    BY <2>1, <2>2
<1>10. P = "NoPadding" \/ P = "ZeroPadding" \/ PadType(P) = "Reversible"
  BY DEF Schemes, PadType
<1> QED
  BY <1>7, <1>8, <1>9, <1>10

-----------------------------------------------------------------------------
(* The invariant.                                                          *)

(* The message, padded: what the blocks and the tail are read as.          *)
Whole == PaddedMessage(scheme, message)

(* InOutBufReserved: the message, when in place, and untouched room.       *)
ReservedOK ==
    /\ in_place => \A i \in 1..Len(message) : out[i-1] = message[i]
    /\ \A i \in Len(message)..out_len-1 : out[i] = Spare

(* PaddedInOutBuf: where the blocks lie, the tail, and behind the blocks.  *)
LayoutOK ==
    /\ nblocks = BlocksLen /\ tail_out = ~NoTail(scheme)
    /\ scheme = "NoPadding" => TailLen = 0
    /\ At(TotalBlocks) <= out_len
    /\ done \subseteq 0..TotalBlocks-1
    /\ tail_out => \A j \in 1..BlockSize : tail_in[j-1] = Whole[At(nblocks) + j]
    /\ \A i \in At(TotalBlocks)..out_len-1 : out[i] = Spare

(* Byte by byte, each block is processed or as it was.                     *)
BlocksOK ==
    \A i \in 0..TotalBlocks-1, j \in 1..BlockSize :
        /\ i \in done => out[At(i) + j - 1] = (Whole[At(i) + j] + Key) % 256
        /\ i \notin done /\ in_place /\ i < nblocks => out[At(i) + j - 1] = Whole[At(i) + j]

(* The inductive invariant.  RoundTrip needs to know what the blocks hold, *)
(* and BlocksIndependent that they do not overlap and have room.           *)
IInv ==
    /\ TypeOK
    /\ phase # "nothing" => Len(message) <= out_len
    /\ phase = "reserved" => ReservedOK
    /\ phase \in {"padded", "sealed"} => LayoutOK /\ BlocksOK
    /\ phase = "sealed" => done = 0..TotalBlocks-1
    /\ RoundTrip /\ StrictUnpadIsExact

-----------------------------------------------------------------------------
(* What the invariant says of the parts of a message.                      *)

(* The bytes of a message and its padding, by full blocks and rest.        *)
LEMMA Shape ==
    ASSUME NEW m \in Seq(Byte)
    PROVE  \E q \in Nat, r \in 0..BlockSize-1 :
              /\ q = Len(m) \div BlockSize /\ r = Len(m) - BlockSize * q
              /\ Len(m) = At(q) + r /\ At(q) = BlockSize * q
<1>1. PICK n \in Nat : n = Len(m)
  BY LenProperties
<1>2. PICK q \in Nat, r \in 0..BlockSize-1 : q = n \div BlockSize /\ n = At(q) + r
  BY Quotient
<1>3. PICK a \in Nat : a = At(q) /\ a = BlockSize * q
  BY AtProps DEF At
<1>4. r = n - a
  BY <1>2, <1>3, SizeFacts
<1> QED
  BY <1>1, <1>2, <1>3, <1>4

(* Whether into_padded_blocks makes a tail block, and what the padded      *)
(* message w of q full blocks and r bytes more is then.                    *)
HasTail(P, r) == ~(PadType(P) \in {"NoPadding", "Ambiguous"} /\ r = 0)
IsWhole(w, P, m, q, r) ==
    /\ w \in Seq(Byte)
    /\ \A i \in 1..Len(m) : w[i] = m[i]
    /\ IF HasTail(P, r)
       THEN /\ Len(w) = At(q + 1) /\ P # "NoPadding"
            /\ \A i \in r..BlockSize-1 : w[At(q) + i + 1] = PadByte(P, r, i)
       ELSE Len(w) = At(q)

(* The padded message has as many blocks as into_padded_blocks makes.      *)
LEMMA WholeProps ==
    ASSUME NEW P \in Schemes, NEW m \in Seq(Byte), NEW q \in Nat, NEW r \in 0..BlockSize-1,
           Len(m) = At(q) + r, P = "NoPadding" => r = 0
    PROVE  IsWhole(PaddedMessage(P, m), P, m, q, r)
<1>1. HasTail(P, r) <=> PadLen(P, r) # 0
  BY SizeFacts DEF PadLen, PadType, Schemes, HasTail
<1>2. HasTail(P, r) => P # "NoPadding"
  BY <1>1 DEF PadLen
<1>3. Len(PaddedMessage(P, m)) = IF HasTail(P, r) THEN At(q + 1) ELSE At(q)
  BY <1>1, PaddedLength
<1>4. /\ PaddedMessage(P, m) \in Seq(Byte)
      /\ \A i \in 1..Len(m) : PaddedMessage(P, m)[i] = m[i]
      /\ \A i \in r..r+PadLen(P, r)-1 : PaddedMessage(P, m)[At(q) + i + 1] = PadByte(P, r, i)
  BY PaddedMessageProps
<1>5. ASSUME HasTail(P, r), NEW i \in r..BlockSize-1
      PROVE  PaddedMessage(P, m)[At(q) + i + 1] = PadByte(P, r, i)
  <2>1. PICK w : w = PadLen(P, r)
    OBVIOUS
  <2>2. w \in Nat /\ r + w = BlockSize
    BY <1>1, <1>5, <2>1, PadLenProps
  <2>3. i \in r..r+w-1
    BY <2>2
  <2> QED
    BY <1>4, <2>1, <2>3, Zenon
<1> QED
  BY <1>2, <1>3, <1>4, <1>5, Zenon DEF IsWhole

(* The block operation and its inverse, byte by byte.                      *)
LEMMA EncryptProps ==
    ASSUME NEW s \in Seq(Byte)
    PROVE  /\ Encrypt(s) \in Seq(Byte) /\ Len(Encrypt(s)) = Len(s)
           /\ \A j \in 1..Len(s) : Encrypt(s)[j] = (s[j] + Key) % 256
           /\ Decrypt(s) \in Seq(Byte) /\ Len(Decrypt(s)) = Len(s)
           /\ \A j \in 1..Len(s) : Decrypt(s)[j] = (s[j] - Key) % 256
<1>1. PICK n \in Nat : n = Len(s) /\ DOMAIN s = 1..n /\ \A j \in 1..n : s[j] \in Byte
  BY LenProperties, ElementOfSeq
<1>2. Key \in Byte
  BY PaddedInOutAssumption
<1>3. \A x \in Byte : (x + Key) % 256 \in Byte /\ (x - Key) % 256 \in Byte
  BY <1>2 DEF Byte
<1>4. Encrypt(s) = [i \in 1..n |-> (s[i] + Key) % 256] /\ Decrypt(s) = [i \in 1..n |-> (s[i] - Key) % 256]
  BY <1>1 DEF Encrypt, Decrypt
<1>5. ASSUME NEW e, e \in [1..n -> Byte] PROVE e \in Seq(Byte) /\ Len(e) = n
  BY <1>5
<1>6. Encrypt(s) \in [1..n -> Byte] /\ Decrypt(s) \in [1..n -> Byte]
  BY <1>1, <1>3, <1>4
<1> QED
  BY <1>1, <1>4, <1>5, <1>6

(* What the receiver undoes.                                               *)
LEMMA Undone ==
    ASSUME NEW x \in Byte
    PROVE  (x + Key) % 256 \in Byte /\ (((x + Key) % 256) - Key) % 256 = x
<1>1. PICK k \in 0..255 : k = Key
  BY PaddedInOutAssumption DEF Byte
<1>2. ASSUME NEW y \in 0..255 PROVE (y + k) % 256 \in 0..255 /\ (((y + k) % 256) - k) % 256 = y
  OBVIOUS
<1>3. x \in 0..255
  BY DEF Byte
<1>4. (x + k) % 256 \in 0..255 /\ (((x + k) % 256) - k) % 256 = x
  BY <1>2, <1>3, Zenon
<1>5. (x + k) % 256 \in Byte
  BY <1>4, Zenon DEF Byte
<1> QED
  BY <1>1, <1>4, <1>5, Zenon

(* Buffer f of n bytes after s was written as its block k: g.              *)
Wrote(g, n, f, k, s) ==
    /\ g \in [0..n-1 -> Byte]
    /\ \A j \in 1..BlockSize : g[At(k) + j - 1] = s[j]
    /\ \A i \in Nat, j \in 1..BlockSize :
          i # k /\ At(i) + BlockSize <= n => g[At(i) + j - 1] = f[At(i) + j - 1]
    /\ \A i \in 0..n-1 : At(k) + BlockSize <= i => g[i] = f[i]

(* Writing one block leaves all others alone.                              *)
LEMMA WriteBlock ==
    ASSUME NEW n \in Nat, NEW f \in [0..n-1 -> Byte], NEW k \in Nat, NEW s \in Seq(Byte),
           Len(s) = BlockSize, At(k) + BlockSize <= n
    PROVE  Wrote(Overwrite(f, At(k), s), n, f, k, s)
<1>1. PICK z \in Nat, a \in Nat : z = BlockSize /\ a = At(k) /\ a + z <= n
  BY SizeFacts, AtProps
<1>2. PICK g : g = Overwrite(f, a, s)
  OBVIOUS
<1>3. /\ g \in [0..n-1 -> Byte]
      /\ \A i \in 1..z : g[a + i - 1] = s[i]
      /\ \A i \in 0..n-1 : i < a \/ i >= a + z => g[i] = f[i]
  <2>1. Len(s) = z /\ a + Len(s) <= n
    BY <1>1
  <2>2. /\ Overwrite(f, a, s) \in [0..n-1 -> Byte]
        /\ \A i \in 1..Len(s) : Overwrite(f, a, s)[a + i - 1] = s[i]
        /\ \A i \in 0..n-1 : i < a \/ i >= a + Len(s) => Overwrite(f, a, s)[i] = f[i]
    BY <2>1, OverwriteProps
  <2> QED
    BY <1>2, <2>1, <2>2, Zenon
<1>4. ASSUME NEW i \in Nat, NEW j \in 1..z, i # k, At(i) + BlockSize <= n
      PROVE  g[At(i) + j - 1] = f[At(i) + j - 1]
  <2>1. PICK b \in Nat : b = At(i) /\ b + z <= n
    BY <1>1, <1>4, AtProps
  <2>2. b + z <= a \/ a + z <= b
    <3>1. i < k \/ k < i
      BY <1>4
    <3> QED
      BY <1>1, <2>1, <3>1, AtProps
  <2>3. PICK x \in 0..n-1 : x = b + j - 1 /\ (x < a \/ x >= a + z)
    BY <1>1, <2>1, <2>2, SMTT(30)
  <2> QED
    BY <1>3, <2>1, <2>3
<1>5. ASSUME NEW i \in 0..n-1, a + z <= i PROVE g[i] = f[i]
  BY <1>3, <1>5
<1>6. Wrote(g, n, f, k, s)
  BY <1>1, <1>3, <1>4, <1>5 DEF Wrote
<1> QED
  BY <1>1, <1>2, <1>6

(* The layout in terms of full blocks and a rest.                          *)
LEMMA LayoutFacts ==
    ASSUME TypeOK, LayoutOK
    PROVE  /\ TotalBlocks \in Nat /\ nblocks <= TotalBlocks
           /\ tail_out => nblocks < TotalBlocks
           /\ \A i \in 0..TotalBlocks-1 : i < nblocks \/ (tail_out /\ i = nblocks)
           /\ Whole \in Seq(Byte) /\ Len(Whole) = At(TotalBlocks)
           /\ \A i \in 1..Len(message) : Whole[i] = message[i]
           /\ \E r \in 0..BlockSize-1 :
                 Len(message) = At(nblocks) + r /\ (scheme = "NoPadding" => r = 0)
<1>0. message \in Seq(Byte) /\ scheme \in Schemes /\ nblocks \in Nat /\ tail_out \in BOOLEAN
  BY DEF TypeOK
<1>1. PICK r \in 0..BlockSize-1 : /\ Len(message) = At(nblocks) + r /\ r = TailLen
                                  /\ scheme = "NoPadding" => r = 0
  <2>1. PICK q \in Nat, r \in 0..BlockSize-1 :
            /\ q = Len(message) \div BlockSize /\ r = Len(message) - BlockSize * q
            /\ Len(message) = At(q) + r /\ At(q) = BlockSize * q
    BY <1>0, Shape
  <2>2. nblocks = q /\ TailLen = r /\ (scheme = "NoPadding" => TailLen = 0)
    BY <2>1 DEF LayoutOK, BlocksLen, TailLen, get_in_len
  <2> QED
    BY <2>1, <2>2
<1>2. tail_out <=> HasTail(scheme, r)
  BY <1>1 DEF LayoutOK, NoTail, HasTail
<1>3. TotalBlocks = IF tail_out THEN nblocks + 1 ELSE nblocks
  BY DEF TotalBlocks
<1>4. /\ TotalBlocks \in Nat /\ Whole \in Seq(Byte) /\ Len(Whole) = At(TotalBlocks)
      /\ \A i \in 1..Len(message) : Whole[i] = message[i]
  <2>1. IsWhole(Whole, scheme, message, nblocks, r)
    BY <1>0, <1>1, WholeProps, Zenon DEF Whole
  <2>2. TotalBlocks \in Nat
    BY <1>0, <1>3
  <2> QED
    BY <1>2, <1>3, <2>1, <2>2, Zenon DEF IsWhole
<1>5. /\ nblocks <= TotalBlocks /\ (tail_out => nblocks < TotalBlocks)
      /\ \A i \in 0..TotalBlocks-1 : i < nblocks \/ (tail_out /\ i = nblocks)
  BY <1>0, <1>3
<1> QED
  BY <1>1, <1>4, <1>5

(* The bytes of one block of a buffer.                                     *)
IsCut(e, f, a, z) == e \in Seq(Byte) /\ Len(e) = z /\ \A j \in 1..z : e[j] = f[a + j - 1]

(* Bytes cuts them out.                                                    *)
LEMMA BlockBytes ==
    ASSUME NEW m \in Nat, NEW f \in [0..m-1 -> Byte], NEW a \in Nat, NEW z \in Nat, a + z <= m
    PROVE  IsCut(Bytes(f, a, a + z), f, a, z)
<1>1. Bytes(f, a, a + z) = [j \in 1..z |-> f[a + j - 1]]
  <2>1. (a + z) - a = z
    OBVIOUS
  <2> QED
    BY <2>1, Zenon DEF Bytes
<1>2. \A j \in 1..z : a + j - 1 \in 0..m-1
  OBVIOUS
<1>3. [j \in 1..z |-> f[a + j - 1]] \in [1..z -> Byte]
  BY <1>2
<1>4. ASSUME NEW e, e \in [1..z -> Byte] PROVE e \in Seq(Byte) /\ Len(e) = z
  BY <1>4
<1> QED
  BY <1>1, <1>3, <1>4 DEF IsCut

(* The input of a full block still to come is the message's.               *)
LEMMA BlockIn ==
    ASSUME TypeOK, LayoutOK, BlocksOK, Len(message) <= out_len,
           NEW k \in Nat, k < nblocks, k \notin done
    PROVE  /\ In(At(k), At(k) + BlockSize) \in Seq(Byte)
           /\ Len(In(At(k), At(k) + BlockSize)) = BlockSize
           /\ \A j \in 1..BlockSize : In(At(k), At(k) + BlockSize)[j] = Whole[At(k) + j]
<1>0. /\ message \in Seq(Byte) /\ nblocks \in Nat /\ out_len \in Nat
      /\ out \in [0..out_len-1 -> Byte] /\ Len(message) \in Nat
  BY LenProperties DEF TypeOK
<1>1. PICK a \in Nat, z \in Nat, b \in Nat, n \in Nat :
          /\ a = At(k) /\ z = BlockSize /\ b = a + z /\ n = Len(message) /\ b <= n /\ n <= out_len
  <2>1. At(k) \in Nat /\ BlockSize \in Nat /\ At(nblocks) \in Nat /\ At(k) + BlockSize <= At(nblocks)
    BY <1>0, SizeFacts, AtProps
  <2>2. PICK r \in 0..BlockSize-1 : Len(message) = At(nblocks) + r
    BY LayoutFacts
  <2>3. At(k) + BlockSize <= Len(message) /\ At(k) + BlockSize \in Nat
    BY <1>0, <2>1, <2>2
  <2> QED
    BY <1>0, <2>1, <2>3
<1>2. a <= b /\ b <= out_len /\ b - a = z /\ \A j \in 1..z : a + j \in 1..n
  BY <1>0, <1>1
<1>3. CASE in_place
  <2>1. /\ Bytes(out, a, b) \in Seq(Byte) /\ Len(Bytes(out, a, b)) = b - a
        /\ \A j \in 1..b-a : Bytes(out, a, b)[j] = out[a + j - 1]
    <3>0. PICK m \in Nat : m = out_len
      BY <1>0
    <3>1. a + z <= m
      BY <1>1, <1>2, <3>0
    <3>2. \A f \in [0..m-1 -> Byte] : IsCut(Bytes(f, a, a + z), f, a, z)
      BY <3>1, BlockBytes, Zenon
    <3>3. out \in [0..m-1 -> Byte]
      BY <1>0, <3>0
    <3>4. IsCut(Bytes(out, a, b), out, a, z)
      BY <1>1, <3>2, <3>3
    <3> QED
      BY <1>2, <3>4, Zenon DEF IsCut
  <2>2. ASSUME NEW j \in 1..z PROVE out[a + j - 1] = Whole[a + j]
    <3>1. k \in 0..TotalBlocks-1
      BY <1>0, LayoutFacts
    <3> QED
      BY <1>1, <1>3, <3>1 DEF BlocksOK
  <2>3. In(a, b) = Bytes(out, a, b)
    BY <1>3 DEF In
  <2> QED
    BY <1>1, <1>2, <2>1, <2>2, <2>3, ZenonT(40)
<1>4. CASE ~in_place
  <2>1. /\ SubSeq(message, a + 1, b) \in Seq(Byte) /\ Len(SubSeq(message, a + 1, b)) = b - a
        /\ \A j \in 1..b-a : SubSeq(message, a + 1, b)[j] = message[a + j]
    <3>1. message \in Seq(Byte) /\ a <= b /\ b <= Len(message)
      BY <1>0, <1>1, <1>2
    <3> QED
      BY <3>1, SubSeqProps
  <2>2. ASSUME NEW j \in 1..z PROVE message[a + j] = Whole[a + j]
    BY <1>1, <1>2, LayoutFacts
  <2>3. In(a, b) = SubSeq(message, a + 1, b)
    BY <1>4 DEF In
  <2> QED
    BY <1>1, <1>2, <2>1, <2>2, <2>3, Zenon
<1> QED
  BY <1>3, <1>4

(* The input of the tail block is the message's end and the padding.       *)
LEMMA TailIn ==
    ASSUME TypeOK, LayoutOK, tail_out
    PROVE  /\ Bytes(tail_in, 0, BlockSize) \in Seq(Byte)
           /\ Len(Bytes(tail_in, 0, BlockSize)) = BlockSize
           /\ \A j \in 1..BlockSize : Bytes(tail_in, 0, BlockSize)[j] = Whole[At(nblocks) + j]
<1>1. PICK z \in Nat : z = BlockSize
  BY SizeFacts
<1>2. tail_in \in [0..z-1 -> Byte] /\ 0 <= z /\ z <= z /\ z - 0 = z /\ 0 \in Nat
  BY <1>1 DEF TypeOK, Block
<1>3. /\ Bytes(tail_in, 0, z) \in Seq(Byte) /\ Len(Bytes(tail_in, 0, z)) = z - 0
      /\ \A j \in 1..z-0 : Bytes(tail_in, 0, z)[j] = tail_in[0 + j - 1]
  BY <1>2, BytesProps
<1>4. \A j \in 1..z : 0 + j - 1 = j - 1
  OBVIOUS
<1>5. \A j \in 1..z : tail_in[j-1] = Whole[At(nblocks) + j]
  BY <1>1 DEF LayoutOK
<1> QED
  BY <1>1, <1>2, <1>3, <1>4, <1>5

-----------------------------------------------------------------------------
(* The steps.                                                              *)

(* What was opened stays as it was.                                        *)
LEMMA OpenedKept ==
    ASSUME RoundTrip, StrictUnpadIsExact, opened' = opened
    PROVE  RoundTrip' /\ StrictUnpadIsExact'
BY DEF RoundTrip, StrictUnpadIsExact

(* NotOpened is no claim.                                                  *)
LEMMA NothingOpened ==
    ASSUME opened' = NotOpened
    PROVE  RoundTrip' /\ StrictUnpadIsExact'
BY DEF RoundTrip, StrictUnpadIsExact, NotOpened

(* One block, a full one or the tail, is written.                          *)
LEMMA BlockWritten ==
    ASSUME IInv, phase = "padded", NEW k \in 0..TotalBlocks-1, k \notin done,
           NEW s \in Seq(Byte), Len(s) = BlockSize,
           \A j \in 1..BlockSize : s[j] = (Whole[At(k) + j] + Key) % 256,
           out' = Overwrite(out, At(k), s), done' = done \cup {k},
           UNCHANGED <<phase, reserved, padded, result, opened>>
    PROVE  IInv'
<1>0. /\ phase' = phase /\ in_place' = in_place /\ message' = message /\ out_len' = out_len
      /\ scheme' = scheme /\ nblocks' = nblocks /\ tail_in' = tail_in /\ tail_out' = tail_out
      /\ result' = result /\ opened' = opened
  BY DEF reserved, padded
<1>1. /\ TypeOK /\ LayoutOK /\ BlocksOK /\ RoundTrip /\ StrictUnpadIsExact
      /\ Len(message) <= out_len
  BY DEF IInv
<1>2. TotalBlocks \in Nat /\ out_len \in Nat /\ out \in [0..out_len-1 -> Byte] /\ done \subseteq Nat
  BY <1>1, LayoutFacts DEF TypeOK
<1>3. At(TotalBlocks) <= out_len /\ done \subseteq 0..TotalBlocks-1
  BY <1>1 DEF LayoutOK
<1>4. PICK n \in Nat, z \in Nat, t \in Nat, e \in Nat :
          n = out_len /\ z = BlockSize /\ t = TotalBlocks /\ e = At(t) /\ e <= n
  <2>1. At(TotalBlocks) \in Nat /\ BlockSize \in Nat
    BY <1>2, AtProps, SizeFacts
  <2> QED
    BY <1>2, <1>3, <2>1
<1>5. k \in Nat /\ k < t /\ \A i \in 0..t-1 : i \in Nat /\ i < t
  BY <1>4
<1>6. ASSUME NEW i \in Nat, i < t PROVE At(i) + BlockSize <= n /\ At(i) + BlockSize <= e
  <2>1. At(i) \in Nat /\ At(i) + BlockSize <= At(t)
    BY <1>6, AtProps
  <2>2. At(i) + BlockSize \in Nat
    BY <1>4, <2>1
  <2> QED
    BY <1>4, <2>1, <2>2
<1>7. /\ out' \in [0..n-1 -> Byte]
      /\ \A j \in 1..BlockSize : out'[At(k) + j - 1] = s[j]
      /\ \A i \in Nat, j \in 1..BlockSize :
            i # k /\ At(i) + BlockSize <= n => out'[At(i) + j - 1] = out[At(i) + j - 1]
      /\ \A i \in 0..n-1 : At(k) + BlockSize <= i => out'[i] = out[i]
  <2>1. out \in [0..n-1 -> Byte] /\ At(k) + BlockSize <= n
    BY <1>2, <1>4, <1>5, <1>6
  <2>2. Wrote(Overwrite(out, At(k), s), n, out, k, s)
    BY <1>5, <2>1, WriteBlock, Zenon
  <2>3. Wrote(out', n, out, k, s)
    BY <2>2
  <2> QED
    BY <2>3, Zenon DEF Wrote
<1>8. TotalBlocks' = TotalBlocks /\ Whole' = Whole /\ BlocksLen' = BlocksLen /\ TailLen' = TailLen
  BY <1>0 DEF TotalBlocks, Whole, BlocksLen, TailLen, get_in_len
<1>9. TypeOK'
  <2>1. done' \subseteq Nat
    BY <1>2, <1>5
  <2>2. out' \in [0..out_len'-1 -> Byte]
    BY <1>0, <1>4, <1>7
  <2> QED
    BY <1>0, <1>1, <2>1, <2>2 DEF TypeOK
<1>10. LayoutOK'
  <2>1. /\ nblocks' = BlocksLen' /\ tail_out' = ~NoTail(scheme)'
        /\ scheme' = "NoPadding" => TailLen' = 0
        /\ At(TotalBlocks)' <= out_len'
    BY <1>0, <1>1, <1>8 DEF LayoutOK, NoTail, At
  <2>2. done' \subseteq 0..TotalBlocks'-1
    BY <1>3, <1>8
  <2>3. tail_out' => \A j \in 1..BlockSize : tail_in'[j-1] = Whole'[At(nblocks)' + j]
    BY <1>0, <1>1, <1>8 DEF LayoutOK, At
  <2>4. ASSUME NEW i \in e..n-1 PROVE out'[i] = Spare
    <3>1. i \in At(TotalBlocks)..out_len-1
      BY <1>4
    <3>2. out[i] = Spare
      BY <1>1, <3>1 DEF LayoutOK
    <3>3. At(k) + BlockSize <= i /\ i \in 0..n-1
      <4>1. At(k) + BlockSize <= e /\ At(k) + BlockSize \in Nat
        BY <1>4, <1>5, <1>6, AtProps
      <4> QED
        BY <1>4, <4>1
    <3> QED
      BY <1>7, <3>2, <3>3
  <2>5. e = At(TotalBlocks)' /\ n = out_len'
    BY <1>0, <1>4, <1>8 DEF At
  <2>6. \A i \in At(TotalBlocks)'..out_len'-1 : out'[i] = Spare
    BY <2>4, <2>5
  <2> QED
    BY <2>1, <2>2, <2>3, <2>6 DEF LayoutOK
<1>11. ASSUME NEW i \in 0..t-1, NEW j \in 1..BlockSize
       PROVE  /\ i \in done' => out'[At(i) + j - 1] = (Whole[At(i) + j] + Key) % 256
              /\ i \notin done' /\ in_place /\ i < nblocks => out'[At(i) + j - 1] = Whole[At(i) + j]
  <2>1. CASE i = k
    BY <1>7, <2>1
  <2>2. CASE i # k
    <3>1. out'[At(i) + j - 1] = out[At(i) + j - 1]
      BY <1>5, <1>6, <1>7, <2>2, ZenonT(40)
    <3>2. i \in done' <=> i \in done
      BY <2>2
    <3>3. /\ i \in done => out[At(i) + j - 1] = (Whole[At(i) + j] + Key) % 256
          /\ i \notin done /\ in_place /\ i < nblocks => out[At(i) + j - 1] = Whole[At(i) + j]
      BY <1>1, <1>4 DEF BlocksOK
    <3> QED
      BY <3>1, <3>2, <3>3, Zenon
  <2> QED
    BY <2>1, <2>2
<1>12. BlocksOK'
  <2> SUFFICES ASSUME NEW i \in 0..TotalBlocks'-1, NEW j \in 1..BlockSize
               PROVE  /\ i \in done' => out'[At(i) + j - 1] = (Whole'[At(i) + j] + Key) % 256
                      /\ i \notin done' /\ in_place' /\ i < nblocks'
                            => out'[At(i) + j - 1] = Whole'[At(i) + j]
    BY DEF BlocksOK, At
  <2>1. i \in 0..t-1
    BY <1>4, <1>8
  <2>2. /\ i \in done' => out'[At(i) + j - 1] = (Whole[At(i) + j] + Key) % 256
        /\ i \notin done' /\ in_place /\ i < nblocks => out'[At(i) + j - 1] = Whole[At(i) + j]
    BY <1>11, <2>1
  <2> QED
    BY <1>0, <1>8, <2>2, Zenon
<1>13. RoundTrip' /\ StrictUnpadIsExact'
  BY <1>0, <1>1, OpenedKept
<1>14. Len(message)' <= out_len' /\ phase' = "padded"
  BY <1>0, <1>1
<1> QED
  BY <1>9, <1>10, <1>12, <1>13, <1>14 DEF IInv

(* ProcessBlock.                                                           *)
LEMMA ProcessBlockStep ==
    ASSUME IInv, NEW k \in Nat, ProcessBlock(k)
    PROVE  IInv'
<1>1. TypeOK /\ LayoutOK /\ BlocksOK /\ Len(message) <= out_len /\ phase = "padded"
  BY DEF IInv, ProcessBlock
<1>2. k < nblocks /\ k \notin done /\ nblocks \in Nat
  BY <1>1 DEF ProcessBlock, TypeOK
<1>3. k \in 0..TotalBlocks-1
  BY <1>1, <1>2, LayoutFacts
<1>4. PICK x : x = In(At(k), At(k) + BlockSize)
  OBVIOUS
<1>5. x \in Seq(Byte) /\ Len(x) = BlockSize /\ \A j \in 1..BlockSize : x[j] = Whole[At(k) + j]
  BY <1>1, <1>2, <1>4, BlockIn
<1>6. /\ Encrypt(x) \in Seq(Byte) /\ Len(Encrypt(x)) = BlockSize
      /\ \A j \in 1..BlockSize : Encrypt(x)[j] = (Whole[At(k) + j] + Key) % 256
  BY <1>5, EncryptProps
<1>7. /\ out' = Overwrite(out, At(k), Encrypt(x)) /\ done' = done \cup {k}
      /\ UNCHANGED <<phase, reserved, padded, result, opened>>
  BY <1>4 DEF ProcessBlock, At
<1> QED
  BY <1>1, <1>2, <1>3, <1>6, <1>7, BlockWritten

(* ProcessTail.                                                            *)
LEMMA ProcessTailStep ==
    ASSUME IInv, ProcessTail
    PROVE  IInv'
<1>1. TypeOK /\ LayoutOK /\ phase = "padded" /\ tail_out /\ nblocks \notin done /\ nblocks \in Nat
  BY DEF IInv, ProcessTail, TypeOK
<1>2. PICK k \in Nat : k = nblocks
  BY <1>1
<1>3. k \in 0..TotalBlocks-1
  BY <1>1, <1>2, LayoutFacts
<1>4. PICK x : x = Bytes(tail_in, 0, BlockSize)
  OBVIOUS
<1>5. x \in Seq(Byte) /\ Len(x) = BlockSize /\ \A j \in 1..BlockSize : x[j] = Whole[At(k) + j]
  BY <1>1, <1>2, <1>4, TailIn
<1>6. /\ Encrypt(x) \in Seq(Byte) /\ Len(Encrypt(x)) = BlockSize
      /\ \A j \in 1..BlockSize : Encrypt(x)[j] = (Whole[At(k) + j] + Key) % 256
  BY <1>5, EncryptProps
<1>7. /\ out' = Overwrite(out, At(k), Encrypt(x)) /\ done' = done \cup {k}
      /\ UNCHANGED <<phase, reserved, padded, result, opened>> /\ k \notin done
  BY <1>1, <1>2, <1>4 DEF ProcessTail, At
<1> QED
  BY <1>1, <1>3, <1>6, <1>7, BlockWritten

(* After a call that consumed the buffer there is none.                    *)
LEMMA ConsumeStep ==
    ASSUME Consume, result' \in {"ok", "err"}, RoundTrip', StrictUnpadIsExact'
    PROVE  IInv'
<1>1. ZeroBlock \in Block
  BY SizeFacts DEF ZeroBlock, Block, Byte
<1>2. <<>> \in Seq(Byte) /\ <<>> \in [0..0-1 -> Byte]
  OBVIOUS
<1>3. "NoPadding" \in Schemes
  BY DEF Schemes
<1>4. TypeOK'
  BY <1>1, <1>2, <1>3 DEF Consume, TypeOK
<1> QED
  BY <1>4 DEF IInv, Consume

(* Fail.                                                                   *)
LEMMA FailStep ==
    ASSUME IInv, Fail
    PROVE  IInv'
<1>1. RoundTrip' /\ StrictUnpadIsExact'
  BY OpenedKept DEF IInv, Fail
<1> QED
  BY <1>1, ConsumeStep DEF Fail

(* Messages are bytes.                                                     *)
LEMMA MessageProps ==
    ASSUME NEW m \in Messages
    PROVE  m \in Seq(Byte) /\ Len(m) \in Nat
<1>1. PICK n \in 0..MaxLen : m \in [1..n -> Data]
  BY DEF Messages
<1>2. n \in Nat /\ Data \subseteq Byte
  BY PaddedInOutAssumption
<1>3. m \in [1..n -> Byte]
  BY <1>1, <1>2
<1> QED
  BY <1>2, <1>3

(* from_mut_slice.                                                         *)
LEMMA FromMutSliceStep ==
    ASSUME IInv, NEW m \in Messages, NEW len \in Nat, FromMutSlice(m, len)
    PROVE  IInv'
<1>0. m \in Seq(Byte) /\ Len(m) \in Nat
  BY MessageProps
<1>1. CASE Len(m) > len
  BY <1>1, FailStep DEF FromMutSlice
<1>2. CASE ~(Len(m) > len)
  <2>1. /\ phase' = "reserved" /\ in_place' = TRUE /\ message' = m /\ out_len' = len
        /\ out' = Overwrite([i \in 0..len-1 |-> Spare], 0, m)
        /\ result' = "ok" /\ opened' = NotOpened /\ UNCHANGED <<padded, done>>
    BY <1>2 DEF FromMutSlice
  <2>2. PICK f \in [0..len-1 -> Byte] : f = [i \in 0..len-1 |-> Spare]
    BY PaddedInOutAssumption
  <2>3. 0 \in Nat /\ 0 + Len(m) <= len /\ 0 + Len(m) = Len(m) /\ \A i \in 1..Len(m) : 0 + i - 1 = i - 1
    BY <1>0, <1>2
  <2>4. /\ Overwrite(f, 0, m) \in [0..len-1 -> Byte]
        /\ \A i \in 1..Len(m) : Overwrite(f, 0, m)[0 + i - 1] = m[i]
        /\ \A i \in 0..len-1 : i < 0 \/ i >= 0 + Len(m) => Overwrite(f, 0, m)[i] = f[i]
    BY <1>0, <2>3, OverwriteProps
  <2>5. out' \in [0..len-1 -> Byte]
    BY <2>1, <2>2, <2>4
  <2>6. \A i \in 1..Len(m) : out'[i-1] = m[i]
    BY <2>1, <2>2, <2>3, <2>4
  <2>7. ASSUME NEW i \in Len(m)..len-1 PROVE out'[i] = Spare
    <3>1. i \in 0..len-1 /\ i >= 0 + Len(m)
      BY <1>0, <2>3
    <3>2. f[i] = Spare
      BY <2>2, <3>1
    <3> QED
      BY <2>1, <2>2, <2>4, <3>1, <3>2
  <2>8. TypeOK'
    BY <1>0, <2>1, <2>5 DEF IInv, TypeOK, padded
  <2>9. ReservedOK'
    BY <2>1, <2>6, <2>7 DEF ReservedOK
  <2>10. RoundTrip' /\ StrictUnpadIsExact'
    BY <2>1, NothingOpened
  <2>11. Len(message)' <= out_len'
    BY <1>0, <1>2, <2>1
  <2> QED
    BY <2>1, <2>8, <2>9, <2>10, <2>11 DEF IInv
<1> QED
  BY <1>1, <1>2

(* from_slices.                                                            *)
LEMMA FromSlicesStep ==
    ASSUME IInv, NEW m \in Messages, NEW len \in Nat, FromSlices(m, len)
    PROVE  IInv'
<1>0. m \in Seq(Byte) /\ Len(m) \in Nat
  BY MessageProps
<1>1. CASE Len(m) > len
  BY <1>1, FailStep DEF FromSlices
<1>2. CASE ~(Len(m) > len)
  <2>1. /\ phase' = "reserved" /\ in_place' = FALSE /\ message' = m /\ out_len' = len
        /\ out' = [i \in 0..len-1 |-> Spare]
        /\ result' = "ok" /\ opened' = NotOpened /\ UNCHANGED <<padded, done>>
    BY <1>2 DEF FromSlices
  <2>2. out' \in [0..len-1 -> Byte]
    BY <2>1, PaddedInOutAssumption
  <2>3. ASSUME NEW i \in Len(m)..len-1 PROVE out'[i] = Spare
    <3>1. i \in 0..len-1
      BY <1>0
    <3> QED
      BY <2>1, <3>1
  <2>4. TypeOK'
    BY <1>0, <2>1, <2>2 DEF IInv, TypeOK, padded
  <2>5. ReservedOK'
    BY <2>1, <2>3 DEF ReservedOK
  <2>6. RoundTrip' /\ StrictUnpadIsExact'
    BY <2>1, NothingOpened
  <2>7. Len(message)' <= out_len'
    BY <1>0, <1>2, <2>1
  <2> QED
    BY <2>1, <2>4, <2>5, <2>6, <2>7 DEF IInv
<1> QED
  BY <1>1, <1>2

(* What is left of the message behind the full blocks.                     *)
LEMMA RestIn ==
    ASSUME TypeOK, ReservedOK, Len(message) <= out_len,
           NEW a \in Nat, NEW r \in Nat, Len(message) = a + r
    PROVE  /\ In(a, Len(message)) \in Seq(Byte) /\ Len(In(a, Len(message))) = r
           /\ \A j \in 1..r : In(a, Len(message))[j] = message[a + j]
<1>0. message \in Seq(Byte) /\ out_len \in Nat /\ out \in [0..out_len-1 -> Byte]
  BY DEF TypeOK
<1>1. PICK m \in Nat : m = out_len /\ a + r <= m
  BY <1>0
<1>2. CASE in_place
  <2>1. out \in [0..m-1 -> Byte]
    BY <1>0, <1>1
  <2>2. IsCut(Bytes(out, a, a + r), out, a, r)
    BY <1>1, <2>1, BlockBytes, Zenon
  <2>3. In(a, Len(message)) = Bytes(out, a, a + r)
    BY <1>2 DEF In
  <2>4. ASSUME NEW j \in 1..r PROVE out[a + j - 1] = message[a + j]
    <3>1. PICK x \in 1..(a + r) : x = a + j /\ x - 1 = a + j - 1
      OBVIOUS
    <3>2. out[x-1] = message[x]
      BY <1>2, <3>1 DEF ReservedOK
    <3> QED
      BY <3>1, <3>2
  <2> QED
    BY <2>2, <2>3, <2>4, Zenon DEF IsCut
<1>3. CASE ~in_place
  <2>1. PICK b \in Nat : b = Len(message) /\ a <= b /\ b <= Len(message) /\ b - a = r
    BY <1>0
  <2>2. /\ SubSeq(message, a + 1, b) \in Seq(Byte) /\ Len(SubSeq(message, a + 1, b)) = b - a
        /\ \A j \in 1..b-a : SubSeq(message, a + 1, b)[j] = message[a + j]
    BY <1>0, <2>1, SubSeqProps
  <2>3. In(a, Len(message)) = SubSeq(message, a + 1, b)
    BY <1>3, <2>1 DEF In
  <2> QED
    BY <2>1, <2>2, <2>3, Zenon
<1> QED
  BY <1>2, <1>3

(* The padded tail block, from the rest x of the message.                  *)
LEMMA TailBlock ==
    ASSUME NEW P \in Schemes, P # "NoPadding", NEW x \in Seq(Byte), NEW r \in 0..BlockSize-1,
           Len(x) = r
    PROVE  /\ Pad(P, Overwrite(ZeroBlock, 0, x), r) \in Block
           /\ \A i \in 0..BlockSize-1 :
                 Pad(P, Overwrite(ZeroBlock, 0, x), r)[i] =
                     IF i < r THEN x[i + 1] ELSE PadByte(P, r, i)
<1>1. PICK z \in Nat, n \in Nat : z = BlockSize /\ n = r /\ n < z
  BY SizeFacts
<1>2. ZeroBlock \in [0..z-1 -> Byte] /\ Block = [0..z-1 -> Byte]
  BY <1>1 DEF ZeroBlock, Byte, Block
<1>3. PICK o : o = Overwrite(ZeroBlock, 0, x)
  OBVIOUS
<1>4. 0 \in Nat /\ 0 + Len(x) <= z
  BY <1>1
<1>5. /\ o \in [0..z-1 -> Byte]
      /\ \A i \in 1..Len(x) : o[0 + i - 1] = x[i]
  BY <1>2, <1>3, <1>4, OverwriteProps
<1>6. ASSUME NEW i \in 0..z-1, i < n PROVE o[i] = x[i + 1]
  <2>1. i + 1 \in 1..Len(x) /\ 0 + (i + 1) - 1 = i
    BY <1>1, <1>6
  <2> QED
    BY <1>5, <2>1
<1>7. o \in Block
  BY <1>2, <1>5
<1>8. /\ Pad(P, o, r) \in Block
      /\ \A i \in 0..BlockSize-1 : Pad(P, o, r)[i] = IF i < r THEN o[i] ELSE PadByte(P, r, i)
  BY <1>7, PadProps
<1> QED
  BY <1>1, <1>3, <1>6, <1>8

(* into_padded_blocks.                                                     *)
LEMMA IntoPaddedBlocksStep ==
    ASSUME IInv, NEW P \in Schemes, IntoPaddedBlocks(P)
    PROVE  IInv'
<1>1. CASE PadFails(P)
  BY <1>1, FailStep DEF IntoPaddedBlocks
<1>2. CASE ~PadFails(P)
  <2>0. /\ TypeOK /\ ReservedOK /\ Len(message) <= out_len
        /\ RoundTrip /\ StrictUnpadIsExact
        /\ message \in Seq(Byte) /\ out_len \in Nat
    BY DEF IInv, IntoPaddedBlocks, TypeOK
  <2>1. PICK q \in Nat, r \in 0..BlockSize-1 :
            /\ q = Len(message) \div BlockSize /\ r = Len(message) - BlockSize * q
            /\ Len(message) = At(q) + r /\ At(q) = BlockSize * q
    BY <2>0, Shape
  <2>2. BlocksLen = q /\ TailLen = r /\ BlockSize * BlocksLen = At(q)
    BY <2>1 DEF BlocksLen, TailLen, get_in_len
  <2>3. PICK tail \in BOOLEAN : tail = ~NoTail(P)
    OBVIOUS
  <2>4. tail <=> HasTail(P, r)
    BY <2>2, <2>3 DEF NoTail, HasTail
  <2>5. tail => PadType(P) # "NoPadding" /\ ~(At(q) + BlockSize > out_len)
    BY <1>2, <2>2, <2>3 DEF PadFails
  <2>6. P = "NoPadding" => r = 0
    BY <2>4, <2>5 DEF PadType, HasTail
  <2>7. PICK n \in Nat : n = IF tail THEN q + 1 ELSE q
    OBVIOUS
  <2>8. PICK w : w = PaddedMessage(P, message)
    OBVIOUS
  <2>9. /\ w \in Seq(Byte) /\ Len(w) = At(n)
        /\ \A i \in 1..Len(message) : w[i] = message[i]
        /\ tail => /\ P # "NoPadding"
                   /\ \A i \in r..BlockSize-1 : w[At(q) + i + 1] = PadByte(P, r, i)
    <3>1. message \in Seq(Byte) /\ Len(message) = At(q) + r
      BY <2>0, <2>1
    <3>2. IsWhole(w, P, message, q, r)
      BY <2>6, <2>8, <3>1, WholeProps, Zenon
    <3> QED
      BY <2>4, <2>7, <3>2, Zenon DEF IsWhole
  <2>10. PICK a \in Nat, z \in Nat \ {0}, v \in Nat, e \in Nat, o \in Nat :
            /\ a = At(q) /\ z = BlockSize /\ v = r /\ v < z /\ e = At(n) /\ o = out_len
            /\ Len(message) = a + v /\ a + v <= o /\ e = IF tail THEN a + z ELSE a
            /\ e <= o /\ a + v <= e
    <3>1. PICK a \in Nat, z \in Nat \ {0}, v \in Nat, e \in Nat, o \in Nat :
            a = At(q) /\ z = BlockSize /\ v = r /\ v < z /\ e = At(n) /\ o = out_len
      <4>1. At(q) \in Nat /\ BlockSize \in Nat \ {0} /\ r \in Nat /\ At(n) \in Nat /\ r < BlockSize
        <5>1. At(q) \in Nat /\ At(n) \in Nat
          BY AtProps
        <5>2. BlockSize \in Nat \ {0} /\ r \in Nat /\ r < BlockSize
          BY SizeFacts
        <5> QED
          BY <5>1, <5>2
      <4> QED
        BY <2>0, <4>1, Zenon
    <3>2. Len(message) = a + v /\ a + v <= o
      BY <2>0, <2>1, <3>1
    <3>3. e = IF tail THEN a + z ELSE a
      BY <2>7, <3>1, AtProps
    <3>4. tail => a + z <= o
      BY <2>5, <3>1
    <3>5. ~tail => v = 0
      BY <2>4, <3>1 DEF HasTail
    <3>6. e <= o /\ a + v <= e
      BY <3>1, <3>2, <3>3, <3>4, <3>5
    <3> QED
      BY <3>1, <3>2, <3>3, <3>6
  <2>11. /\ phase' = "padded" /\ scheme' = P /\ nblocks' = q /\ tail_out' = tail /\ done' = {}
         /\ tail_in' = IF tail THEN Pad(P, Overwrite(ZeroBlock, 0, In(At(q), Len(message))), r)
                       ELSE ZeroBlock
         /\ result' = "ok" /\ in_place' = in_place /\ message' = message /\ out_len' = out_len
         /\ out' = out /\ opened' = opened
    BY <1>2, <2>2, <2>3 DEF IntoPaddedBlocks, reserved, get_in_len
  <2>12. TotalBlocks' = n /\ Whole' = w /\ BlocksLen' = q /\ TailLen' = r
    BY <2>1, <2>2, <2>7, <2>8, <2>11 DEF TotalBlocks, Whole, BlocksLen, TailLen, get_in_len
  <2>13. /\ tail_in' \in Block
         /\ tail => \A j \in 1..z : tail_in'[j-1] = w[a + j]
    <3>1. CASE ~tail
      BY <2>11, <3>1, SizeFacts DEF ZeroBlock, Block, Byte
    <3>2. CASE tail
      <4>1. PICK x : x = In(At(q), Len(message))
        OBVIOUS
      <4>2. x \in Seq(Byte) /\ Len(x) = v /\ \A j \in 1..v : x[j] = message[a + j]
        BY <2>0, <2>10, <4>1, RestIn, ZenonT(40)
      <4>3. /\ Pad(P, Overwrite(ZeroBlock, 0, x), r) \in Block
            /\ \A i \in 0..BlockSize-1 :
                  Pad(P, Overwrite(ZeroBlock, 0, x), r)[i] =
                      IF i < r THEN x[i + 1] ELSE PadByte(P, r, i)
        BY <2>9, <2>10, <3>2, <4>2, TailBlock
      <4>4. tail_in' = Pad(P, Overwrite(ZeroBlock, 0, x), r)
        BY <2>11, <3>2, <4>1
      <4>5. /\ tail_in' \in Block
            /\ \A i \in 0..z-1 : tail_in'[i] = IF i < v THEN x[i + 1] ELSE PadByte(P, v, i)
        BY <2>10, <4>3, <4>4, Zenon
      <4>6. ASSUME NEW j \in 1..z PROVE tail_in'[j-1] = w[a + j]
        <5>1. PICK i \in 0..z-1 : i = j - 1 /\ i + 1 = j /\ a + i + 1 = a + j
          BY j - 1 \in 0..z-1
        <5>2. CASE i < v
          <6>1. j \in 1..v /\ a + j \in 1..(a + v)
            BY <5>1, <5>2
          <6>2. w[a + j] = message[a + j]
            BY <2>9, <2>10, <6>1
          <6> QED
            BY <4>2, <4>5, <5>1, <5>2, <6>1, <6>2
        <5>3. CASE ~(i < v)
          <6>1. i \in v..z-1
            BY <5>1, <5>3
          <6>2. w[a + i + 1] = PadByte(P, v, i)
            BY <2>9, <2>10, <3>2, <6>1
          <6> QED
            BY <4>5, <5>1, <5>3, <6>2
        <5> QED
          BY <5>2, <5>3
      <4> QED
        BY <4>5, <4>6
    <3> QED
      BY <3>1, <3>2
  <2>14. TypeOK'
    BY <2>0, <2>11, <2>13 DEF TypeOK
  <2>15. LayoutOK'
    <3>1. NoTail(scheme)' <=> PadType(P) \in {"NoPadding", "Ambiguous"} /\ r = 0
      BY <2>11, <2>12 DEF NoTail
    <3>2. tail_out' = ~NoTail(scheme)'
      BY <2>4, <2>11, <3>1 DEF HasTail
    <3>3. /\ nblocks' = BlocksLen' /\ (scheme' = "NoPadding" => TailLen' = 0)
      BY <2>6, <2>11, <2>12
    <3>4. At(TotalBlocks)' = e /\ At(nblocks)' = a /\ out_len' = o
      BY <2>10, <2>11, <2>12 DEF At
    <3>5. done' \subseteq 0..TotalBlocks'-1
      BY <2>11
    <3>6. tail_out' => \A j \in 1..BlockSize : tail_in'[j-1] = Whole'[At(nblocks)' + j]
      BY <2>10, <2>11, <2>12, <2>13, <3>4
    <3>7. ASSUME NEW i \in e..o-1 PROVE out'[i] = Spare
      <4>1. i \in Len(message)..out_len-1
        BY <2>10
      <4> QED
        BY <2>0, <2>11, <4>1 DEF ReservedOK
    <3>8. e <= o
      BY <2>10
    <3> QED
      BY <3>2, <3>3, <3>4, <3>5, <3>6, <3>7, <3>8 DEF LayoutOK
  <2>16. BlocksOK'
    <3> SUFFICES ASSUME NEW i \in 0..n-1, NEW j \in 1..BlockSize, in_place, i < q
                 PROVE  out[At(i) + j - 1] = w[At(i) + j]
      BY <2>11, <2>12 DEF BlocksOK, At
    <3>0. i \in Nat
      OBVIOUS
    <3>1. PICK b \in Nat : b = At(i) /\ b + z <= a
      <4>1. At(i) \in Nat /\ At(i) + BlockSize <= At(q)
        BY <3>0, AtProps
      <4> QED
        BY <2>10, <4>1
    <3>2. PICK x \in 1..(a + v) : x = b + j /\ x - 1 = b + j - 1
      <4>1. j \in 1..z
        BY <2>10
      <4>2. b + j \in 1..(a + v) /\ (b + j) - 1 = b + j - 1
        BY <3>1, <4>1
      <4> QED
        BY <4>2
    <3>3. out[x-1] = message[x] /\ w[x] = message[x]
      BY <2>0, <2>9, <2>10 DEF ReservedOK
    <3> QED
      BY <3>1, <3>2, <3>3
  <2>17. RoundTrip' /\ StrictUnpadIsExact'
    BY <2>0, <2>11, OpenedKept
  <2>18. Len(message)' <= out_len'
    BY <2>0, <2>11
  <2> QED
    BY <2>11, <2>14, <2>15, <2>16, <2>17, <2>18 DEF IInv
<1> QED
  BY <1>1, <1>2

(* What the receiver decrypts is the padded message.                       *)
LEMMA Opened ==
    ASSUME TypeOK, LayoutOK, BlocksOK, done = 0..TotalBlocks-1
    PROVE  Decrypt(Bytes(out, 0, BlockSize * TotalBlocks)) = Whole
<1>1. /\ TotalBlocks \in Nat /\ Whole \in Seq(Byte) /\ Len(Whole) = At(TotalBlocks)
      /\ out_len \in Nat /\ out \in [0..out_len-1 -> Byte] /\ At(TotalBlocks) <= out_len
  BY LayoutFacts DEF TypeOK, LayoutOK
<1>2. PICK t \in Nat, n \in Nat, o \in Nat :
          t = TotalBlocks /\ n = At(t) /\ o = out_len /\ 0 + n <= o /\ 0 + n = n
  <2>1. At(TotalBlocks) \in Nat
    BY <1>1, AtProps
  <2> QED
    BY <1>1, <2>1
<1>3. PICK x : x = Bytes(out, 0, BlockSize * TotalBlocks)
  OBVIOUS
<1>4. IsCut(x, out, 0, n)
  <2>1. out \in [0..o-1 -> Byte]
    BY <1>1, <1>2
  <2>2. 0 \in Nat
    OBVIOUS
  <2>3. IsCut(Bytes(out, 0, 0 + n), out, 0, n)
    BY <1>2, <2>1, <2>2, BlockBytes, Zenon
  <2> QED
    BY <1>2, <1>3, <2>3 DEF At
<1>5. x \in Seq(Byte) /\ Len(x) = n /\ \A j \in 1..n : x[j] = out[0 + j - 1]
  BY <1>4, Zenon DEF IsCut
<1>6. /\ Decrypt(x) \in Seq(Byte) /\ Len(Decrypt(x)) = n
      /\ \A j \in 1..n : Decrypt(x)[j] = (x[j] - Key) % 256
  BY <1>5, EncryptProps, ZenonT(40)
<1>7. ASSUME NEW j \in 1..n PROVE Decrypt(x)[j] = Whole[j]
  <2>1. PICK c \in Nat : c = j - 1 /\ c + 1 = j /\ c < n /\ 0 + j - 1 = c
    BY j - 1 \in Nat
  <2>2. PICK i \in Nat, p \in 0..BlockSize-1 : c = At(i) + p
    BY Quotient
  <2>3. PICK a \in Nat, y \in 1..BlockSize :
            a = At(i) /\ c = a + y - 1 /\ j = a + y
    <3>0. At(i) \in Nat
      BY AtProps
    <3>1. At(i) \in Nat /\ p + 1 \in 1..BlockSize /\ BlockSize \in Nat
      BY <3>0, SizeFacts
    <3>2. c = At(i) + (p + 1) - 1 /\ j = At(i) + (p + 1)
      BY <2>1, <2>2, <3>1
    <3> QED
      BY <3>1, <3>2
  <2>4. i \in 0..t-1
    <3> SUFFICES ASSUME ~(i < t) PROVE FALSE
      OBVIOUS
    <3>1. At(t) <= At(i)
      <4>1. CASE i = t
        BY <1>2, <4>1
      <4>2. CASE t < i
        <5>1. At(t) \in Nat /\ At(i) \in Nat /\ At(t) + BlockSize <= At(i)
          BY <4>2, AtProps
        <5> QED
          BY <5>1, SizeFacts
      <4> QED
        BY <4>1, <4>2
    <3> QED
      <4>1. n <= a /\ a + y = j /\ j <= n
        BY <1>2, <2>3, <3>1
      <4>2. y \in Nat \ {0}
        BY SizeFacts
      <4> QED
        BY <4>1, <4>2
  <2>5. out[a + y - 1] = (Whole[a + y] + Key) % 256
    <3>1. i \in 0..TotalBlocks-1 /\ i \in done
      BY <1>2, <2>4
    <3> QED
      BY <2>3, <3>1 DEF BlocksOK
  <2>6. x[j] = (Whole[j] + Key) % 256
    BY <1>5, <2>1, <2>3, <2>5
  <2>7. Whole[j] \in Byte
    BY <1>1, <1>2, ElementOfSeq
  <2>8. (((Whole[j] + Key) % 256) - Key) % 256 = Whole[j]
    BY <2>7, Undone
  <2> QED
    BY <1>6, <2>6, <2>8
<1>8. Decrypt(x) = Whole
  BY <1>1, <1>2, <1>6, <1>7, SeqEqual
<1> QED
  BY <1>3, <1>8

(* Open.                                                                   *)
LEMMA OpenStep ==
    ASSUME IInv, Open
    PROVE  IInv'
<1>1. /\ TypeOK /\ LayoutOK /\ BlocksOK /\ done = 0..TotalBlocks-1
      /\ message \in Seq(Byte) /\ scheme \in Schemes /\ nblocks \in Nat
  BY DEF IInv, Open, TypeOK
<1>2. PICK r \in 0..BlockSize-1 : Len(message) = At(nblocks) + r /\ (scheme = "NoPadding" => r = 0)
  BY <1>1, LayoutFacts
<1>3. TotalBlocks \in Nat /\ Whole \in Seq(Byte) /\ Len(Whole) = At(TotalBlocks)
  BY <1>1, LayoutFacts
<1>4. /\ opened' = [from |-> "sender", sent |-> message, scheme |-> scheme, text |-> Whole,
                    len |-> UnpadText(scheme, Whole)]
      /\ result' \in {"ok", "err"} /\ Consume
  BY <1>1, Opened DEF Open, Unpadded
<1>5. Recovers(scheme, message, Whole, UnpadText(scheme, Whole))
  BY <1>1, <1>2, RoundTripText DEF Whole
<1>6. /\ opened'.from = "sender" /\ opened'.sent = message /\ opened'.scheme = scheme
      /\ opened'.text = Whole /\ opened'.len = UnpadText(scheme, Whole)
  BY <1>4
<1>7. RoundTrip'
  BY <1>5, <1>6, Zenon DEF RoundTrip, Recovers
<1>8. StrictUnpadIsExact'
  <2>1. ASSUME scheme \in {"Pkcs7", "AnsiX923", "Iso7816"}, UnpadText(scheme, Whole) # Err
        PROVE  PaddedMessage(scheme, SubSeq(Whole, 1, UnpadText(scheme, Whole))) = Whole
    BY <1>3, <2>1, StrictText
  <2> QED
    BY <1>6, <2>1, Zenon DEF StrictUnpadIsExact
<1> QED
  BY <1>4, <1>7, <1>8, ConsumeStep

(* unpad_blocks of anybody's text.                                         *)
LEMMA OpenForeignStep ==
    ASSUME IInv, NEW P \in Schemes, NEW n \in Nat,
           NEW text \in [1..n*BlockSize -> Data \cup 1..BlockSize], OpenForeign(P, text)
    PROVE  IInv'
<1>1. PICK x \in Nat : x = n * BlockSize /\ x = At(n)
  <2>1. PICK z \in Nat : z = BlockSize
    BY SizeFacts
  <2>2. n * z = z * n /\ n * z \in Nat
    OBVIOUS
  <2> QED
    BY <2>1, <2>2 DEF At
<1>2. Data \cup 1..BlockSize \subseteq Byte
  BY SizeFacts, PaddedInOutAssumption DEF Byte
<1>3. text \in [1..x -> Byte]
  BY <1>1, <1>2
<1>4. text \in Seq(Byte) /\ Len(text) = At(n)
  BY <1>1, <1>3
<1>5. /\ opened' = [from |-> "stranger", sent |-> <<>>, scheme |-> P, text |-> text,
                    len |-> UnpadText(P, text)]
      /\ result' \in {"ok", "err"} /\ phase = "nothing"
      /\ UNCHANGED <<phase, reserved, out, padded, done>>
  BY DEF OpenForeign, Unpadded
<1>6. /\ opened'.from = "stranger" /\ opened'.scheme = P
      /\ opened'.text = text /\ opened'.len = UnpadText(P, text)
  BY <1>5
<1>7. RoundTrip'
  BY <1>6 DEF RoundTrip
<1>8. StrictUnpadIsExact'
  <2>1. ASSUME P \in {"Pkcs7", "AnsiX923", "Iso7816"}, UnpadText(P, text) # Err
        PROVE  PaddedMessage(P, SubSeq(text, 1, UnpadText(P, text))) = text
    BY <1>4, <2>1, StrictText
  <2> QED
    BY <1>6, <2>1, Zenon DEF StrictUnpadIsExact
<1>9. TypeOK'
  BY <1>5 DEF IInv, TypeOK, reserved, padded
<1>10. phase' = "nothing"
  BY <1>5
<1> QED
  BY <1>7, <1>8, <1>9, <1>10 DEF IInv

(* A step that leaves the buffers and the blocks as they are.              *)
LEMMA SameBuffers ==
    ASSUME TypeOK, LayoutOK, BlocksOK, UNCHANGED <<reserved, out, padded, done>>
    PROVE  LayoutOK' /\ BlocksOK' /\ TotalBlocks' = TotalBlocks
<1>1. /\ in_place' = in_place /\ message' = message /\ out_len' = out_len /\ out' = out
      /\ scheme' = scheme /\ nblocks' = nblocks /\ tail_in' = tail_in /\ tail_out' = tail_out
      /\ done' = done
  BY DEF reserved, padded
<1>2. TotalBlocks' = TotalBlocks /\ Whole' = Whole /\ BlocksLen' = BlocksLen /\ TailLen' = TailLen
  BY <1>1 DEF TotalBlocks, Whole, BlocksLen, TailLen, get_in_len
<1>3. NoTail(scheme)' = NoTail(scheme) /\ At(TotalBlocks)' = At(TotalBlocks) /\ At(nblocks)' = At(nblocks)
  BY <1>1, <1>2 DEF NoTail, At
<1>4. LayoutOK'
  BY <1>1, <1>2, <1>3, Zenon DEF LayoutOK
<1>5. BlocksOK'
  <2> SUFFICES ASSUME NEW i \in 0..TotalBlocks'-1, NEW j \in 1..BlockSize
               PROVE  /\ i \in done' => out'[At(i) + j - 1] = (Whole'[At(i) + j] + Key) % 256
                      /\ i \notin done' /\ in_place' /\ i < nblocks'
                            => out'[At(i) + j - 1] = Whole'[At(i) + j]
    BY DEF BlocksOK, At
  <2>1. i \in 0..TotalBlocks-1
    BY <1>2
  <2>2. /\ i \in done => out[At(i) + j - 1] = (Whole[At(i) + j] + Key) % 256
        /\ i \notin done /\ in_place /\ i < nblocks => out[At(i) + j - 1] = Whole[At(i) + j]
    BY <2>1 DEF BlocksOK
  <2> QED
    BY <1>1, <1>2, <2>2, Zenon
<1> QED
  BY <1>2, <1>4, <1>5

(* into_out.                                                               *)
LEMMA IntoOutStep ==
    ASSUME IInv, IntoOut
    PROVE  IInv'
<1>1. /\ TypeOK /\ LayoutOK /\ BlocksOK /\ RoundTrip /\ StrictUnpadIsExact
      /\ Len(message) <= out_len /\ done = 0..TotalBlocks-1
  BY DEF IInv, IntoOut
<1>2. /\ phase' = "sealed" /\ result' = "ok" /\ UNCHANGED <<reserved, out, padded, done>>
      /\ opened' = opened
  BY DEF IntoOut
<1>3. LayoutOK' /\ BlocksOK' /\ TotalBlocks' = TotalBlocks
  BY <1>1, <1>2, SameBuffers
<1>4. TypeOK'
  BY <1>1, <1>2 DEF TypeOK, reserved, padded
<1>5. RoundTrip' /\ StrictUnpadIsExact'
  BY <1>1, <1>2, OpenedKept
<1>6. Len(message)' <= out_len' /\ done' = 0..TotalBlocks'-1
  BY <1>1, <1>2, <1>3 DEF reserved
<1> QED
  BY <1>2, <1>3, <1>4, <1>5, <1>6 DEF IInv

(* Every step keeps the invariant.                                         *)
LEMMA InvariantKept ==
    ASSUME IInv, [Next]_vars
    PROVE  IInv'
<1>1. CASE UNCHANGED vars
  <2>1. /\ phase' = phase /\ result' = result /\ opened' = opened
        /\ UNCHANGED <<reserved, out, padded, done>>
    BY <1>1 DEF vars
  <2>2. TypeOK'
    BY <2>1 DEF IInv, TypeOK, reserved, padded
  <2>3. Len(message)' = Len(message) /\ out_len' = out_len
    BY <2>1 DEF reserved
  <2>4. ReservedOK' = ReservedOK
    BY <2>1 DEF ReservedOK, reserved
  <2>5. LayoutOK /\ BlocksOK => LayoutOK' /\ BlocksOK' /\ TotalBlocks' = TotalBlocks
    BY <2>1, SameBuffers DEF IInv
  <2>6. RoundTrip' /\ StrictUnpadIsExact'
    BY <2>1, OpenedKept DEF IInv
  <2> QED
    BY <2>1, <2>2, <2>3, <2>4, <2>5, <2>6 DEF IInv
<1>2. ASSUME NEW m \in Messages, NEW len \in 0..MaxLen+MaxSpare,
             FromMutSlice(m, len) \/ FromSlices(m, len)
      PROVE  IInv'
  <2>1. len \in Nat
    BY PaddedInOutAssumption
  <2> QED
    BY <1>2, <2>1, FromMutSliceStep, FromSlicesStep
<1>3. ASSUME NEW P \in Schemes, IntoPaddedBlocks(P) PROVE IInv'
  BY <1>3, IntoPaddedBlocksStep
<1>4. ASSUME NEW i \in 0..MaxLen, ProcessBlock(i) PROVE IInv'
  <2>1. i \in Nat
    BY PaddedInOutAssumption
  <2> QED
    BY <1>4, <2>1, ProcessBlockStep
<1>5. CASE ProcessTail
  BY <1>5, ProcessTailStep
<1>6. CASE IntoOut
  BY <1>6, IntoOutStep
<1>7. CASE Open
  BY <1>7, OpenStep
<1>8. ASSUME NEW P \in Schemes, NEW n \in 0..2,
             NEW text \in [1..n*BlockSize -> Data \cup 1..BlockSize], OpenForeign(P, text)
      PROVE  IInv'
  <2>1. n \in Nat
    OBVIOUS
  <2> QED
    BY <1>8, <2>1, OpenForeignStep
<1> QED
  BY <1>1, <1>2, <1>3, <1>4, <1>5, <1>6, <1>7, <1>8 DEF Next

(* The invariant of the buffers and of what unpad_blocks gave back.        *)
THEOREM PaddedInvariance == Spec => []IInv
<1>1. Init => IInv
  <2> SUFFICES ASSUME Init PROVE IInv
    OBVIOUS
  <2>1. ZeroBlock \in Block
    BY SizeFacts DEF ZeroBlock, Block, Byte
  <2>2. <<>> \in Seq(Byte) /\ <<>> \in [0..0-1 -> Byte] /\ "NoPadding" \in Schemes
    BY DEF Schemes
  <2>3. TypeOK
    BY <2>1, <2>2 DEF Init, TypeOK
  <2>4. RoundTrip /\ StrictUnpadIsExact
    BY DEF Init, NotOpened, RoundTrip, StrictUnpadIsExact
  <2> QED
    BY <2>3, <2>4 DEF Init, IInv
<1>2. IInv /\ [Next]_vars => IInv'
  BY InvariantKept
<1> QED
  BY <1>1, <1>2, PTL DEF Spec

(* Every variable keeps its type.                                          *)
THEOREM PaddedTypeCorrect == Spec => []TypeOK
<1>1. IInv => TypeOK
  BY DEF IInv
<1> QED
  BY <1>1, PaddedInvariance, PTL

(* The SAFETY comments of into_padded_blocks and into_out hold: blocks lie *)
(* inside the buffers, whatever their lengths, and the rest is untouched.  *)
THEOREM BlocksStayInside == Spec => []StaysInside
<1>1. IInv => StaysInside
  <2> SUFFICES ASSUME IInv, phase \in {"padded", "sealed"} PROVE
        /\ BlockSize * nblocks <= get_in_len
        /\ BlockSize * TotalBlocks <= out_len
        /\ \A i \in BlockSize * TotalBlocks .. out_len-1 : out[i] = Spare
    BY DEF StaysInside
  <2>1. TypeOK /\ LayoutOK /\ nblocks \in Nat
    BY DEF IInv, TypeOK
  <2>2. PICK r \in 0..BlockSize-1 : Len(message) = At(nblocks) + r
    BY <2>1, LayoutFacts
  <2>3. At(nblocks) <= Len(message)
    <3>1. At(nblocks) \in Nat
      BY <2>1, AtProps
    <3> QED
      BY <2>2, <3>1, SizeFacts
  <2> QED
    BY <2>1, <2>3 DEF LayoutOK, At, get_in_len
<1> QED
  BY <1>1, PaddedInvariance, PTL

(* Whatever order the caller takes the blocks in, in place or not: done    *)
(* blocks are transformed, and the input of the others is untouched.       *)
THEOREM BlocksDoNotInterfere == Spec => []BlocksIndependent
<1>1. IInv => BlocksIndependent
  <2> SUFFICES ASSUME IInv, phase = "padded" PROVE BlocksIndependent
    BY DEF BlocksIndependent
  <2>0. TypeOK /\ LayoutOK /\ BlocksOK /\ Len(message) <= out_len
    BY DEF IInv
  <2>1. /\ TotalBlocks \in Nat /\ Whole \in Seq(Byte) /\ Len(Whole) = At(TotalBlocks)
        /\ \A i \in 0..TotalBlocks-1 : i < nblocks \/ (tail_out /\ i = nblocks)
        /\ nblocks \in Nat /\ out_len \in Nat /\ out \in [0..out_len-1 -> Byte]
        /\ At(TotalBlocks) <= out_len
    BY <2>0, LayoutFacts DEF TypeOK, LayoutOK
  <2>2. PICK t \in Nat, n \in Nat, o \in Nat, z \in Nat :
            t = TotalBlocks /\ n = At(t) /\ o = out_len /\ z = BlockSize /\ n <= o
    <3>1. At(TotalBlocks) \in Nat /\ BlockSize \in Nat
      BY <2>1, AtProps, SizeFacts
    <3> QED
      BY <2>1, <3>1
  <2>3. ASSUME NEW i \in 0..t-1
        PROVE  IF i \in done
               THEN Bytes(out, At(i), At(i) + BlockSize) = Encrypt(BlockOf(Whole, i))
               ELSE (IF i = nblocks THEN Bytes(tail_in, 0, BlockSize)
                     ELSE In(At(i), At(i) + BlockSize)) = BlockOf(Whole, i)
    <3>0. i \in Nat /\ i < t /\ i \in 0..TotalBlocks-1
      BY <2>2
    <3>1. PICK a \in Nat : a = At(i) /\ a + z <= n /\ a + z <= o
      <4>1. At(i) \in Nat /\ At(i) + BlockSize <= At(t)
        BY <3>0, AtProps
      <4> QED
        BY <2>2, <4>1
    <3>2. PICK b : b = BlockOf(Whole, i)
      OBVIOUS
    <3>3. b \in Seq(Byte) /\ Len(b) = z /\ \A j \in 1..z : b[j] = Whole[a + j]
      <4>1. PICK c \in Nat : c = a + z /\ a <= c /\ c <= Len(Whole) /\ c - a = z
        BY <2>1, <2>2, <3>1, a + z \in Nat
      <4>2. /\ SubSeq(Whole, a + 1, c) \in Seq(Byte) /\ Len(SubSeq(Whole, a + 1, c)) = c - a
            /\ \A j \in 1..c-a : SubSeq(Whole, a + 1, c)[j] = Whole[a + j]
        BY <2>1, <4>1, SubSeqProps
      <4>3. b = SubSeq(Whole, a + 1, c)
        BY <2>2, <3>1, <3>2, <4>1 DEF BlockOf, At
      <4> QED
        BY <4>1, <4>2, <4>3, Zenon
    <3>4. CASE i \in done
      <4>1. PICK x : x = Bytes(out, a, a + z)
        OBVIOUS
      <4>2. out \in [0..o-1 -> Byte]
        BY <2>1, <2>2
      <4>3. IsCut(x, out, a, z)
        BY <3>1, <4>1, <4>2, BlockBytes, Zenon
      <4>4. x \in Seq(Byte) /\ Len(x) = z /\ \A j \in 1..z : x[j] = out[a + j - 1]
        BY <4>3, Zenon DEF IsCut
      <4>5. /\ Encrypt(b) \in Seq(Byte) /\ Len(Encrypt(b)) = z
            /\ \A j \in 1..z : Encrypt(b)[j] = (b[j] + Key) % 256
        BY <3>3, EncryptProps, SMTT(20), ZenonT(40)
      <4>6. ASSUME NEW j \in 1..z PROVE x[j] = Encrypt(b)[j]
        <5>1. out[a + j - 1] = (Whole[a + j] + Key) % 256
          BY <2>0, <2>2, <3>0, <3>1, <3>4, SMTT(20), ZenonT(40) DEF BlocksOK
        <5> QED
          BY <3>3, <4>4, <4>5, <5>1
      <4>7. x = Encrypt(b)
        BY <4>4, <4>5, <4>6, SeqEqual
      <4> QED
        BY <2>2, <3>1, <3>2, <3>4, <4>1, <4>7
    <3>5. CASE i \notin done /\ i = nblocks
      <4>1. PICK x : x = Bytes(tail_in, 0, BlockSize)
        OBVIOUS
      <4>2. tail_out
        BY <2>1, <3>0, <3>5
      <4>3. x \in Seq(Byte) /\ Len(x) = z /\ \A j \in 1..z : x[j] = Whole[a + j]
        BY <2>0, <2>2, <3>1, <3>5, <4>1, <4>2, TailIn
      <4>4. x = b
        BY <3>3, <4>3, SeqEqual
      <4> QED
        BY <3>2, <3>5, <4>1, <4>4
    <3>6. CASE i \notin done /\ i # nblocks
      <4>1. PICK x : x = In(At(i), At(i) + BlockSize)
        OBVIOUS
      <4>2. i < nblocks
        BY <2>1, <3>0, <3>6
      <4>3. x \in Seq(Byte) /\ Len(x) = z /\ \A j \in 1..z : x[j] = Whole[a + j]
        BY <2>0, <2>2, <3>0, <3>1, <3>6, <4>1, <4>2, BlockIn
      <4>4. x = b
        BY <3>3, <4>3, SeqEqual
      <4> QED
        BY <3>2, <3>6, <4>1, <4>4
    <3> QED
      BY <3>4, <3>5, <3>6
  <2> QED
    BY <2>1, <2>2, <2>3, Zenon DEF BlocksIndependent, Whole, At
<1> QED
  BY <1>1, PaddedInvariance, PTL

(* unpad_blocks gives back the message that was padded, for every scheme.  *)
THEOREM UnpadRecovers == Spec => []RoundTrip
<1>1. IInv => RoundTrip
  BY DEF IInv
<1> QED
  BY <1>1, PaddedInvariance, PTL

(* A strict scheme accepts nothing but its own padding.                    *)
THEOREM UnpadIsStrict == Spec => []StrictUnpadIsExact
<1>1. IInv => StrictUnpadIsExact
  BY DEF IInv
<1> QED
  BY <1>1, PaddedInvariance, PTL

=============================================================================
