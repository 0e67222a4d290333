--------------------------- MODULE Blobby_proofs ---------------------------
(***************************************************************************)
(* Proofs about blobby and the tool that writes its files, for every Base, *)
(* every blob, every size of group and every suite.                        *)
(***************************************************************************)
EXTENDS Wycheproof, FiniteSetTheorems, ByteArrays_proofs

(* The base of the quantities is a number above 1.                         *)
LEMMA BaseProps == Base \in Nat \ {0} /\ Base >= 2
BY BlobbyAssumption

-----------------------------------------------------------------------------
(* Arithmetic of quantities.                                               *)

(* What is left of a value after 1, 2, 3 and 4 bytes.                      *)
LEMMA LeftDef ==
    ASSUME NEW v \in Nat
    PROVE  /\ Left(v, 0) = v
           /\ Left(v, 1) = v \div Base
           /\ Left(v, 2) = (Left(v, 1) - 1) \div Base
           /\ Left(v, 3) = (Left(v, 2) - 1) \div Base
           /\ Left(v, 4) = (Left(v, 3) - 1) \div Base
           /\ \A i \in 0..4 : Left(v, i) \in Int
<1> DEFINE Eq(f) == f = [j \in 0..4 |->
                IF j = 0 THEN v ELSE (f[j-1] - (IF j = 1 THEN 0 ELSE 1)) \div Base]
           left == CHOOSE f : Eq(f)
           l1 == (v - 0) \div Base
           l2 == (l1 - 1) \div Base
           l3 == (l2 - 1) \div Base
           l4 == (l3 - 1) \div Base
           g == [j \in 0..4 |-> IF j = 0 THEN v ELSE IF j = 1 THEN l1 ELSE IF j = 2 THEN l2
                                ELSE IF j = 3 THEN l3 ELSE l4]
<1>1. Eq(g)
  <2>1. \A j \in 0..4 : j = 0 \/ j = 1 \/ j = 2 \/ j = 3 \/ j = 4
    OBVIOUS
  <2>2. g[0] = v /\ g[1] = l1 /\ g[2] = l2 /\ g[3] = l3 /\ g[4] = l4
    OBVIOUS
  <2> DEFINE h == [j \in 0..4 |->
                IF j = 0 THEN v ELSE (g[j-1] - (IF j = 1 THEN 0 ELSE 1)) \div Base]
  <2>3. h[0] = v /\ h[1] = l1 /\ h[2] = l2 /\ h[3] = l3 /\ h[4] = l4
    <3> HIDE DEF g, l1, l2, l3, l4
    <3> USE DEF l1, l2, l3, l4
    <3> QED BY <2>2
  <2>4. \A j \in 0..4 : g[j] = h[j]
    <3> HIDE DEF g, h, l1, l2, l3, l4
    <3> QED BY <2>1, <2>2, <2>3
  <2>5. g = [j \in 0..4 |-> g[j]] /\ h = [j \in 0..4 |-> h[j]]
    OBVIOUS
  <2>6. g = h
    <3> HIDE DEF g, h
    <3> QED BY <2>4, <2>5
  <2> QED BY <2>6
<1>2. Eq(left)
  <2> HIDE DEF Eq, g
  <2> QED BY <1>1
<1>3. \A i \in 0..4 : Left(v, i) = left[i]
  BY DEF Left
<1> HIDE DEF left
<1>4. /\ left[0] = v /\ left[1] = (left[0] - 0) \div Base
      /\ left[2] = (left[1] - 1) \div Base /\ left[3] = (left[2] - 1) \div Base
      /\ left[4] = (left[3] - 1) \div Base
  BY <1>2
<1>5. v - 0 = v
  OBVIOUS
<1>6. \A x \in Int : x \div Base \in Int
  BY BaseProps
<1>7. left[0] \in Int /\ left[1] \in Int
  BY <1>4, <1>5, <1>6
<1>8. left[2] \in Int
  BY <1>4, <1>6, <1>7
<1>9. left[3] \in Int
  BY <1>4, <1>6, <1>8
<1>10. left[4] \in Int
  BY <1>4, <1>6, <1>9
<1>11. \A j \in 0..4 : j = 0 \/ j = 1 \/ j = 2 \/ j = 3 \/ j = 4
  OBVIOUS
<1> QED
  BY <1>3, <1>4, <1>5, <1>7, <1>8, <1>9, <1>10, <1>11

(* The value of the first 1, 2, 3 or 4 bytes of d behind position p.       *)
Value1(d, p) == Val(d[p + 1])
Value2(d, p) == (Value1(d, p) + 1) * Base + Val(d[p + 2])
Value3(d, p) == (Value2(d, p) + 1) * Base + Val(d[p + 3])
Value4(d, p) == (Value3(d, p) + 1) * Base + Val(d[p + 4])
Value(d, p, k) ==
    IF k = 1 THEN Value1(d, p) ELSE IF k = 2 THEN Value2(d, p)
    ELSE IF k = 3 THEN Value3(d, p) ELSE Value4(d, p)

(* k bytes behind p are a quantity: all but the last have NEXT_MASK.       *)
IsVlq(d, p, k) ==
    /\ k \in 1..4 /\ p + k <= Len(d)
    /\ ~HasNext(d[p + k])
    /\ \A j \in 1..k-1 : HasNext(d[p + j])

(* The condition under which read_vlq goes on after i more bytes, the byte *)
(* it ends with, and its value, which read_vlq has as local definitions.   *)
More(d, p, i) == p + i < Len(d) /\ HasNext(d[p + i + 1])
Ends(d, p, i) == (i = 3 \/ ~More(d, p, i)) /\ \A j \in 0..i-1 : More(d, p, j)
LastByte(d, p) == CHOOSE i \in 0..3 : Ends(d, p, i)
IsVal(d, p, f) ==
    f = [i \in 0..3 |->
            IF i = 0 THEN Val(d[p + 1]) ELSE (f[i-1] + 1) * Base + Val(d[p + i + 1])]

(* read_vlq in terms of these names.                                       *)
LEMMA ReadVlqDef ==
    ASSUME NEW d, NEW p
    PROVE  read_vlq(d, p) =
              IF p + LastByte(d, p) >= Len(d)
              THEN [res |-> "UnexpectedEnd", val |-> 0, pos |-> Len(d)]
              ELSE IF More(d, p, LastByte(d, p))
              THEN [res |-> "InvalidVlq", val |-> 0, pos |-> p + 4]
              ELSE [res |-> "ok", val |-> (CHOOSE f : IsVal(d, p, f))[LastByte(d, p)],
                    pos |-> p + LastByte(d, p) + 1]
BY Zenon DEF read_vlq, LastByte, Ends, More, IsVal

(* The local recursive function holds the values.                          *)
LEMMA ValFunction ==
    ASSUME NEW d, NEW p \in Nat
    PROVE  LET f == CHOOSE f : IsVal(d, p, f)
           IN  /\ f[0] = Value1(d, p) /\ f[1] = Value2(d, p)
               /\ f[2] = Value3(d, p) /\ f[3] = Value4(d, p)
<1> DEFINE g == [i \in 0..3 |-> IF i = 0 THEN Value1(d, p) ELSE IF i = 1 THEN Value2(d, p)
                                ELSE IF i = 2 THEN Value3(d, p) ELSE Value4(d, p)]
           f == CHOOSE f : IsVal(d, p, f)
<1>1. IsVal(d, p, g)
  <2> DEFINE h == [i \in 0..3 |->
            IF i = 0 THEN Val(d[p + 1]) ELSE (g[i-1] + 1) * Base + Val(d[p + i + 1])]
  <2>1. /\ g[0] = Value1(d, p) /\ g[1] = Value2(d, p)
        /\ g[2] = Value3(d, p) /\ g[3] = Value4(d, p)
    OBVIOUS
  <2>2. \A i \in 0..3 : i = 0 \/ i = 1 \/ i = 2 \/ i = 3
    OBVIOUS
  <2>3. g = [i \in 0..3 |-> g[i]] /\ h = [i \in 0..3 |-> h[i]]
    OBVIOUS
  <2>4. /\ h[0] = Val(d[p + 1]) /\ h[1] = (g[0] + 1) * Base + Val(d[p + 2])
        /\ h[2] = (g[1] + 1) * Base + Val(d[p + 3])
        /\ h[3] = (g[2] + 1) * Base + Val(d[p + 4])
    <3> HIDE DEF g
    <3>1. p + 1 + 1 = p + 2 /\ p + 2 + 1 = p + 3 /\ p + 3 + 1 = p + 4
      OBVIOUS
    <3>2. /\ 0 \in 0..3 /\ 1 \in 0..3 /\ 2 \in 0..3 /\ 3 \in 0..3
          /\ 1 - 1 = 0 /\ 2 - 1 = 1 /\ 3 - 1 = 2 /\ 1 # 0 /\ 2 # 0 /\ 3 # 0
      OBVIOUS
    <3> QED
      BY <3>1, <3>2
  <2> HIDE DEF g, h
  <2>5. \A i \in 0..3 : g[i] = h[i]
    BY <2>1, <2>2, <2>4 DEF Value1, Value2, Value3, Value4
  <2>6. g = h
    BY <2>3, <2>5
  <2> QED
    BY <2>6 DEF h, IsVal
<1> HIDE DEF g
<1>2. IsVal(d, p, f)
  BY <1>1, Zenon
<1> HIDE DEF f
<1>3. /\ f[0] = Val(d[p + 1]) /\ f[1] = (f[0] + 1) * Base + Val(d[p + 1 + 1])
      /\ f[2] = (f[1] + 1) * Base + Val(d[p + 2 + 1])
      /\ f[3] = (f[2] + 1) * Base + Val(d[p + 3 + 1])
  BY <1>2 DEF IsVal
<1>4. p + 1 + 1 = p + 2 /\ p + 2 + 1 = p + 3 /\ p + 3 + 1 = p + 4
  OBVIOUS
<1>5. /\ f[0] = Value1(d, p) /\ f[1] = Value2(d, p)
      /\ f[2] = Value3(d, p) /\ f[3] = Value4(d, p)
  BY <1>3, <1>4 DEF Value1, Value2, Value3, Value4
<1> QED
  BY <1>5 DEF f

(* The byte read_vlq ends with is the first without NEXT_MASK, or the 4th. *)
LEMMA LastByteProps ==
    ASSUME NEW d, NEW p
    PROVE  /\ LastByte(d, p) \in 0..3
           /\ Ends(d, p, LastByte(d, p))
           /\ \A i \in 0..3 : Ends(d, p, i) => i = LastByte(d, p)
<1>1. \A i \in 0..3 : i = 0 \/ i = 1 \/ i = 2 \/ i = 3
  OBVIOUS
<1>2. \E i \in 0..3 : Ends(d, p, i)
  <2>1. CASE ~More(d, p, 0)
    <3>1. Ends(d, p, 0)
      BY <2>1 DEF Ends
    <3> QED BY <3>1
  <2>2. CASE More(d, p, 0) /\ ~More(d, p, 1)
    <3>1. \A j \in 0..1-1 : j = 0
      OBVIOUS
    <3>2. Ends(d, p, 1)
      BY <2>2, <3>1 DEF Ends
    <3> QED BY <3>2
  <2>3. CASE More(d, p, 0) /\ More(d, p, 1) /\ ~More(d, p, 2)
    <3>1. \A j \in 0..2-1 : j = 0 \/ j = 1
      OBVIOUS
    <3>2. Ends(d, p, 2)
      BY <2>3, <3>1 DEF Ends
    <3> QED BY <3>2
  <2>4. CASE More(d, p, 0) /\ More(d, p, 1) /\ More(d, p, 2)
    <3>1. \A j \in 0..3-1 : j = 0 \/ j = 1 \/ j = 2
      OBVIOUS
    <3>2. Ends(d, p, 3)
      BY <2>4, <3>1 DEF Ends
    <3> QED BY <3>2
  <2> QED
    BY <2>1, <2>2, <2>3, <2>4
<1>3. LastByte(d, p) \in 0..3 /\ Ends(d, p, LastByte(d, p))
  BY <1>2 DEF LastByte
<1>4. ASSUME NEW i \in 0..3, NEW l \in 0..3, Ends(d, p, i), Ends(d, p, l), i < l
      PROVE  FALSE
  <2>1. i # 3 /\ i \in 0..l-1
    BY <1>4
  <2> QED
    BY <1>4, <2>1 DEF Ends
<1> QED
  BY <1>3, <1>4

(* What read_vlq makes of a quantity.                                      *)
LEMMA ReadVlqOk ==
    ASSUME NEW d \in Seq(u8), NEW p \in Nat, NEW k, IsVlq(d, p, k)
    PROVE  read_vlq(d, p) = [res |-> "ok", val |-> Value(d, p, k), pos |-> p + k]
<1> DEFINE l == LastByte(d, p)
<1>1. Len(d) \in Nat /\ k \in 1..4 /\ p + k <= Len(d)
  BY LenProperties DEF IsVlq
<1>2. ~More(d, p, k - 1) /\ k - 1 \in 0..3 /\ p + (k - 1) < Len(d)
  <2>1. p + (k - 1) + 1 = p + k
    BY <1>1
  <2> QED
    BY <1>1, <2>1 DEF More, IsVlq
<1>3. ASSUME NEW j \in 0..(k-1)-1 PROVE More(d, p, j)
  <2>1. j + 1 \in 1..k-1 /\ p + j + 1 = p + (j + 1) /\ p + j < Len(d)
    BY <1>1
  <2>2. HasNext(d[p + (j + 1)])
    BY <2>1 DEF IsVlq
  <2> QED
    BY <2>1, <2>2 DEF More
<1>4. l = k - 1
  <2>1. Ends(d, p, k - 1)
    BY <1>2, <1>3 DEF Ends
  <2> QED
    BY <2>1, <1>2, LastByteProps
<1> DEFINE f == CHOOSE f : IsVal(d, p, f)
<1>5. read_vlq(d, p) = [res |-> "ok", val |-> f[l], pos |-> p + l + 1]
  <2>1. ~(p + l >= Len(d)) /\ ~More(d, p, l)
    BY <1>1, <1>2, <1>4
  <2> QED
    BY <2>1, ReadVlqDef
<1>6. p + l + 1 = p + k
  BY <1>1, <1>4
<1>7. f[l] = Value(d, p, k)
  <2>1. f[0] = Value1(d, p) /\ f[1] = Value2(d, p) /\ f[2] = Value3(d, p) /\ f[3] = Value4(d, p)
    BY ValFunction
  <2>2. k = 1 \/ k = 2 \/ k = 3 \/ k = 4
    BY <1>1
  <2> HIDE DEF f, l
  <2> QED
    BY <1>4, <2>1, <2>2 DEF Value
<1> QED
  BY <1>5, <1>6, <1>7

(* What read_vlq returns in general.                                       *)
LEMMA ReadVlqCases ==
    ASSUME NEW d \in Seq(u8), NEW p \in Nat, p <= Len(d)
    PROVE  LET r == read_vlq(d, p)
           IN  \/ \E k \in 1..4 : IsVlq(d, p, k)
               \/ r = [res |-> "UnexpectedEnd", val |-> 0, pos |-> Len(d)]
               \/ r = [res |-> "InvalidVlq", val |-> 0, pos |-> p + 4] /\ p + 4 <= Len(d)
<1> DEFINE l == LastByte(d, p)
<1>1. Len(d) \in Nat
  BY LenProperties
<1>2. l \in 0..3 /\ Ends(d, p, l)
  BY LastByteProps
<1> HIDE DEF l
<1>3. CASE p + l >= Len(d)
  BY <1>3, ReadVlqDef DEF l
<1>4. CASE p + l < Len(d) /\ More(d, p, l)
  <2>1. l = 3
    BY <1>2, <1>4 DEF Ends
  <2>2. p + 4 <= Len(d)
    BY <2>1, <1>1, <1>4
  <2>3. ~(p + l >= Len(d))
    BY <1>1, <1>2, <1>4
  <2> QED
    BY <1>4, <2>2, <2>3, ReadVlqDef DEF l
<1>5. CASE p + l < Len(d) /\ ~More(d, p, l)
  <2> DEFINE k == l + 1
  <2>1. k \in 1..4 /\ p + k <= Len(d) /\ p + l + 1 = p + k
    BY <1>1, <1>2, <1>5
  <2>2. ~HasNext(d[p + k])
    BY <1>5, <2>1 DEF More
  <2>3. ASSUME NEW j \in 1..k-1 PROVE HasNext(d[p + j])
    <3>1. j - 1 \in 0..l-1 /\ p + (j - 1) + 1 = p + j
      BY <1>2
    <3>2. More(d, p, j - 1)
      BY <1>2, <3>1 DEF Ends
    <3> QED
      BY <3>1, <3>2 DEF More
  <2>4. IsVlq(d, p, k)
    BY <2>1, <2>2, <2>3 DEF IsVlq
  <2> QED
    BY <2>1, <2>4
<1> QED
  BY <1>1, <1>2, <1>3, <1>4, <1>5

(* The two parts of a byte.                                                *)
LEMMA ByteParts ==
    ASSUME NEW b \in u8
    PROVE  /\ Val(b) \in 0..Base-1
           /\ HasNext(b) => b = Base + Val(b)
           /\ ~HasNext(b) => b = Val(b)
<1>1. CASE HasNext(b)
  <2>1. b - Base \in 0..Base-1 /\ 1 * Base + (b - Base) = b
    BY <1>1, BaseProps DEF HasNext, u8
  <2>2. b % Base = b - Base
    BY <2>1, BaseProps, ModUnique
  <2> QED
    BY <1>1, <2>1, <2>2, BaseProps DEF Val
<1>2. CASE ~HasNext(b)
  <2>1. b \in 0..Base-1 /\ 0 * Base + b = b
    BY <1>2, BaseProps DEF HasNext, u8
  <2>2. b % Base = b
    BY <2>1, BaseProps, ModUnique
  <2> QED
    BY <1>2, <2>1, <2>2, BaseProps DEF Val
<1> QED
  BY <1>1, <1>2

(* The same the other way round.                                           *)
LEMMA BytePartsOf ==
    ASSUME NEW r \in 0..Base-1
    PROVE  /\ r \in u8 /\ Base + r \in u8
           /\ Val(r) = r /\ Val(Base + r) = r
           /\ ~HasNext(r) /\ HasNext(Base + r)
<1>1. 0 * Base + r = r /\ 1 * Base + r = Base + r
  BY BaseProps
<1>2. r % Base = r /\ (Base + r) % Base = r
  BY <1>1, BaseProps, ModUnique
<1> QED
  BY <1>2, BaseProps DEF Val, HasNext, u8

(* One more byte: what read_vlq adds is what encode_vlq takes away.        *)
LEMMA OneByte ==
    ASSUME NEW x \in Nat, NEW c \in 0..Base-1
    PROVE  /\ (x + 1) * Base + c \in Nat
           /\ ((x + 1) * Base + c) \div Base = x + 1
           /\ ((x + 1) * Base + c) % Base = c
           /\ (x + 1) - 1 = x
<1>1. x + 1 \in Nat /\ (x + 1) * Base \in Nat
  BY BaseProps
<1> QED
  BY <1>1, BaseProps, DivUnique

(* The values of bytes are numbers.                                        *)
LEMMA ValueType ==
    ASSUME NEW d \in Seq(u8), NEW p \in Nat, NEW k \in 1..4, p + k <= Len(d)
    PROVE  /\ \A j \in 1..k : d[p + j] \in u8 /\ Val(d[p + j]) \in 0..Base-1
           /\ Value1(d, p) \in 0..Base-1
           /\ k >= 2 => Value2(d, p) \in Nat
           /\ k >= 3 => Value3(d, p) \in Nat
           /\ k = 4 => Value4(d, p) \in Nat
           /\ Value(d, p, k) \in Nat
<1>1. ASSUME NEW j \in 1..k PROVE d[p + j] \in u8 /\ Val(d[p + j]) \in 0..Base-1
  <2>1. p + j \in 1..Len(d)
    BY LenProperties
  <2>2. d[p + j] \in u8
    BY <2>1, ElementOfSeq
  <2> QED
    BY <2>2, ByteParts
<1>2. Value1(d, p) \in 0..Base-1
  <2>1. 1 \in 1..k
    OBVIOUS
  <2> QED
    BY <2>1, <1>1 DEF Value1
<1>3. CASE k = 1
  BY <1>1, <1>2, <1>3, BaseProps DEF Value
<1>4. ASSUME k >= 2 PROVE Value2(d, p) \in Nat
  <2>1. 2 \in 1..k
    BY <1>4
  <2>2. Val(d[p + 2]) \in 0..Base-1 /\ Value1(d, p) \in Nat
    BY <2>1, <1>1, <1>2, BaseProps
  <2> QED
    BY <2>2, OneByte DEF Value2
<1>5. ASSUME k >= 3 PROVE Value3(d, p) \in Nat
  <2>1. 3 \in 1..k
    BY <1>5
  <2>2. Val(d[p + 3]) \in 0..Base-1 /\ Value2(d, p) \in Nat
    BY <2>1, <1>1, <1>4, <1>5
  <2> QED
    BY <2>2, OneByte DEF Value3
<1>6. ASSUME k = 4 PROVE Value4(d, p) \in Nat
  <2>1. 4 \in 1..k
    BY <1>6
  <2>2. Val(d[p + 4]) \in 0..Base-1 /\ Value3(d, p) \in Nat
    BY <2>1, <1>1, <1>5, <1>6
  <2> QED
    BY <2>2, OneByte DEF Value4
<1>7. Value(d, p, k) \in Nat
  <2>1. k = 1 \/ k = 2 \/ k = 3 \/ k = 4
    OBVIOUS
  <2> QED
    BY <2>1, <1>2, <1>4, <1>5, <1>6, BaseProps DEF Value
<1> QED
  BY <1>1, <1>2, <1>4, <1>5, <1>6, <1>7

-----------------------------------------------------------------------------
(* The number of bytes encode_vlq writes is unique.                        *)
Size(v) == CHOOSE k \in 1..4 : Left(v, k) = 0

(* A negative number stays negative when it is divided.                    *)
LEMMA NegativeDiv ==
    ASSUME NEW x \in Int, x < 0
    PROVE  x \div Base \in Int /\ x \div Base < 0
<1>1. x \div Base \in Int /\ x % Base \in 0..Base-1 /\ x = Base * (x \div Base) + (x % Base)
  BY BaseProps, Z3
<1> DEFINE q == x \div Base
<1>2. ASSUME q >= 0 PROVE FALSE
  <2>1. Base * q \in Nat
    BY <1>1, <1>2, BaseProps
  <2> HIDE DEF q
  <2> QED
    BY <1>1, <2>1 DEF q
<1> QED
  BY <1>1, <1>2

(* Once nothing or less is left, less than nothing is left ever after.     *)
LEMMA LeftFalls ==
    ASSUME NEW v \in Nat, NEW i \in 1..4, NEW j \in 1..4, i < j, Left(v, i) <= 0
    PROVE  Left(v, j) < 0
<1>1. \A n \in 1..4 : Left(v, n) \in Int
  <2>1. \A n \in 1..4 : n \in 0..4
    OBVIOUS
  <2> QED
    BY <2>1, LeftDef
<1>2. ASSUME NEW n \in 1..3, Left(v, n) <= 0 PROVE Left(v, n + 1) < 0
  <2>1. Left(v, n + 1) = (Left(v, n) - 1) \div Base
    <3>1. n = 1 \/ n = 2 \/ n = 3
      OBVIOUS
    <3>2. 1 + 1 = 2 /\ 2 + 1 = 3 /\ 3 + 1 = 4
      OBVIOUS
    <3> QED
      BY <3>1, <3>2, LeftDef
  <2>2. Left(v, n) \in Int /\ Left(v, n) - 1 < 0 /\ Left(v, n) - 1 \in Int
    <3>1. n \in 1..4
      OBVIOUS
    <3>2. Left(v, n) \in Int
      BY <3>1, <1>1
    <3> QED
      BY <3>2, <1>2
  <2> QED
    BY <2>1, <2>2, NegativeDiv
<1>3. Left(v, i + 1) < 0 /\ i + 1 \in 1..4 /\ Left(v, i + 1) \in Int
  BY <1>1, <1>2
<1>4. i + 1 = j \/ (i + 2 <= j /\ i + 2 \in 1..4 /\ i + 1 \in 1..3)
  OBVIOUS
<1>5. ASSUME i + 2 <= j PROVE Left(v, i + 2) < 0
  <2>1. i + 1 \in 1..3 /\ (i + 1) + 1 = i + 2 /\ Left(v, i + 1) <= 0
    BY <1>3, <1>5
  <2> QED
    BY <2>1, <1>2
<1>6. ASSUME i + 3 <= j PROVE Left(v, i + 3) < 0
  <2>1. i + 2 \in 1..3 /\ (i + 2) + 1 = i + 3 /\ i + 2 \in 1..4 /\ i + 2 <= j
    BY <1>6
  <2>2. Left(v, i + 2) <= 0
    BY <2>1, <1>1, <1>5
  <2> QED
    BY <2>1, <2>2, <1>2
<1>7. j = i + 1 \/ j = i + 2 \/ j = i + 3
  OBVIOUS
<1> QED
  BY <1>3, <1>5, <1>6, <1>7

(* At most one number of bytes leaves nothing of a value.                  *)
LEMMA SizeUnique ==
    ASSUME NEW v \in Nat, NEW k \in 1..4, Left(v, k) = 0
    PROVE  Size(v) = k /\ Fits(v)
<1>1. \A i \in 1..4 : Left(v, i) = 0 => i = k
  <2> SUFFICES ASSUME NEW i \in 1..4, Left(v, i) = 0, i # k PROVE FALSE
    OBVIOUS
  <2>1. CASE i < k
    <3>1. Left(v, i) <= 0
      OBVIOUS
    <3>2. Left(v, k) < 0
      BY <2>1, <3>1, LeftFalls
    <3> QED BY <3>2
  <2>2. CASE k < i
    <3>1. Left(v, k) <= 0
      OBVIOUS
    <3>2. Left(v, i) < 0
      BY <2>2, <3>1, LeftFalls
    <3> QED BY <3>2
  <2> QED
    BY <2>1, <2>2
<1> QED
  BY <1>1 DEF Size, Fits

(* A value that fits is written in Size bytes.                             *)
LEMMA SizeProps ==
    ASSUME NEW v \in Nat, Fits(v)
    PROVE  /\ Size(v) \in 1..4 /\ Left(v, Size(v)) = 0
           /\ \A i \in 1..Size(v)-1 : Left(v, i) \in Nat \ {0}
<1>1. Size(v) \in 1..4 /\ Left(v, Size(v)) = 0
  BY DEF Fits, Size
<1>2. ASSUME NEW i \in 1..Size(v)-1 PROVE Left(v, i) \in Nat \ {0}
  <2>1. i \in 1..4 /\ i \in 0..4 /\ i < Size(v)
    BY <1>1
  <2>2. Left(v, i) \in Int
    BY <2>1, LeftDef
  <2>3. ~(Left(v, i) <= 0)
    <3> SUFFICES ASSUME Left(v, i) <= 0 PROVE FALSE
      OBVIOUS
    <3>1. Left(v, Size(v)) < 0
      BY <1>1, <2>1, LeftFalls
    <3> QED
      BY <1>1, <3>1
  <2> QED
    BY <2>2, <2>3
<1> QED
  BY <1>1, <1>2

(* The bytes encode_vlq writes.                                            *)
LEMMA EncodeBytes ==
    ASSUME NEW v \in Nat, Fits(v)
    PROVE  /\ encode_vlq(v) \in Seq(u8)
           /\ Len(encode_vlq(v)) = Size(v)
           /\ encode_vlq(v)[Size(v)] = v % Base
           /\ \A j \in 1..Size(v)-1 :
                 encode_vlq(v)[j] = Base + ((Left(v, Size(v) - j) - 1) % Base)
           /\ v % Base \in 0..Base-1
           /\ \A j \in 1..Size(v)-1 : (Left(v, Size(v) - j) - 1) % Base \in 0..Base-1
<1> DEFINE k == Size(v)
           e == [j \in 1..k |-> IF j = k THEN Val(v) ELSE Base + Val(Left(v, k - j) - 1)]
<1>1. k \in 1..4 /\ \A i \in 1..k-1 : Left(v, i) \in Nat \ {0}
  BY SizeProps
<1>2. encode_vlq(v) = e
  BY Zenon DEF encode_vlq, Size
<1> HIDE DEF k
<1>3. v % Base \in 0..Base-1
  BY BaseProps, DivMod
<1>4. ASSUME NEW j \in 1..k-1
      PROVE  (Left(v, k - j) - 1) % Base \in 0..Base-1
  <2>1. k - j \in 1..k-1
    BY <1>1
  <2>2. Left(v, k - j) - 1 \in Nat
    BY <2>1, <1>1
  <2> QED
    BY <2>2, BaseProps, DivMod
<1>5. ASSUME NEW j \in 1..k PROVE e[j] \in u8
  <2>1. CASE j = k
    <3>1. e[j] = v % Base
      BY <2>1 DEF Val
    <3> QED
      BY <3>1, <1>3, BytePartsOf
  <2>2. CASE j # k
    <3>1. j \in 1..k-1
      BY <2>2, <1>1
    <3>2. e[j] = Base + ((Left(v, k - j) - 1) % Base)
      BY <2>2 DEF Val
    <3> QED
      BY <3>1, <3>2, <1>4, BytePartsOf
  <2> QED
    BY <2>1, <2>2
<1>6. e \in Seq(u8) /\ Len(e) = k
  <2>1. k \in Nat /\ e \in [1..k -> u8]
    BY <1>1, <1>5
  <2> HIDE DEF e
  <2> QED
    BY <2>1
<1>7. e[k] = v % Base
  BY <1>1 DEF Val
<1>8. \A j \in 1..k-1 : e[j] = Base + ((Left(v, k - j) - 1) % Base)
  BY <1>1 DEF Val
<1> HIDE DEF e
<1> QED
  BY <1>2, <1>3, <1>4, <1>6, <1>7, <1>8 DEF k

(* What encode_vlq writes is a quantity of that value.                     *)
LEMMA EncodeIsVlq ==
    ASSUME NEW v \in Nat, Fits(v)
    PROVE  /\ IsVlq(encode_vlq(v), 0, Size(v))
           /\ Value(encode_vlq(v), 0, Size(v)) = v
<1> DEFINE e == encode_vlq(v)
           k == Size(v)
           L(i) == Left(v, i)
<1>1. /\ e \in Seq(u8) /\ Len(e) = k /\ e[k] = v % Base
      /\ \A j \in 1..k-1 : e[j] = Base + ((L(k - j) - 1) % Base)
      /\ v % Base \in 0..Base-1
      /\ \A j \in 1..k-1 : (L(k - j) - 1) % Base \in 0..Base-1
  BY EncodeBytes
<1>2. k \in 1..4 /\ L(k) = 0 /\ \A i \in 1..k-1 : L(i) \in Nat \ {0}
  BY SizeProps
<1>3. /\ L(1) = v \div Base /\ L(2) = (L(1) - 1) \div Base
      /\ L(3) = (L(2) - 1) \div Base /\ L(4) = (L(3) - 1) \div Base
  BY LeftDef
<1> HIDE DEF e, k, L
<1>4. ~HasNext(e[k]) /\ Val(e[k]) = v % Base
  BY <1>1, BytePartsOf
<1>5. \A j \in 1..k-1 : HasNext(e[j]) /\ Val(e[j]) = (L(k - j) - 1) % Base
  BY <1>1, BytePartsOf
<1>6. IsVlq(e, 0, k)
  <2>1. 0 + k = k /\ \A j \in 1..k-1 : 0 + j = j
    BY <1>2
  <2> QED
    BY <1>1, <1>2, <1>4, <1>5, <2>1 DEF IsVlq
<1>7. v = (v \div Base) * Base + (v % Base)
  BY BaseProps, DivMod
<1>8. \A x \in Nat : x = (x \div Base) * Base + (x % Base) /\ x % Base \in Nat
  <2> SUFFICES ASSUME NEW x \in Nat
               PROVE  x = (x \div Base) * Base + (x % Base) /\ x % Base \in Nat
    OBVIOUS
  <2>1. x = (x \div Base) * Base + (x % Base) /\ x % Base \in 0..Base-1
    BY BaseProps, DivMod
  <2> QED
    BY <2>1, BaseProps
<1>9. 0 * Base = 0 /\ 0 + 1 = 1 /\ 0 + 2 = 2 /\ 0 + 3 = 3 /\ 0 + 4 = 4
  BY BaseProps
<1>10. \A x \in Nat \ {0} : x - 1 \in Nat /\ (x - 1) + 1 = x
  OBVIOUS
<1>11. CASE k = 1
  <2>1. v = v % Base
    <3>1. v % Base \in Nat
      BY <1>1, BaseProps
    <3>2. v = 0 * Base + (v % Base)
      BY <1>2, <1>3, <1>7, <1>11
    <3> QED
      BY <3>1, <3>2, <1>9
  <2> QED
    BY <1>4, <1>6, <1>9, <1>11, <2>1 DEF Value, Value1, e, k
<1>12. CASE k = 2
  <2>1. 1 \in 1..k-1 /\ k - 1 = 1
    BY <1>12
  <2>2. L(1) \in Nat \ {0} /\ Val(e[1]) = (L(1) - 1) % Base
    BY <2>1, <1>2, <1>5
  <2>3. L(1) - 1 = (L(1) - 1) % Base
    <3>1. L(1) - 1 \in Nat /\ (L(1) - 1) \div Base = 0
      BY <2>2, <1>2, <1>3, <1>12
    <3>2. L(1) - 1 = 0 * Base + ((L(1) - 1) % Base)
      BY <3>1, <1>8
    <3>3. (L(1) - 1) % Base \in Nat
      BY <3>1, <1>8
    <3> QED
      BY <3>2, <3>3, <1>9
  <2>4. Value1(e, 0) + 1 = L(1)
    BY <2>2, <2>3, <1>9, <1>10 DEF Value1
  <2>5. Value2(e, 0) = v
    BY <2>4, <1>3, <1>4, <1>7, <1>9, <1>12 DEF Value2
  <2> QED
    BY <1>6, <1>12, <2>5 DEF Value, e, k
<1>13. CASE k = 3
  <2>1. 1 \in 1..k-1 /\ 2 \in 1..k-1 /\ k - 1 = 2 /\ k - 2 = 1
    BY <1>13
  <2>2. /\ L(1) \in Nat \ {0} /\ Val(e[1]) = (L(2) - 1) % Base
        /\ L(2) \in Nat \ {0} /\ Val(e[2]) = (L(1) - 1) % Base
    BY <2>1, <1>2, <1>5
  <2>3. L(2) - 1 = (L(2) - 1) % Base
    <3>1. L(2) - 1 \in Nat /\ (L(2) - 1) \div Base = 0
      BY <2>2, <1>2, <1>3, <1>13
    <3>2. L(2) - 1 = 0 * Base + ((L(2) - 1) % Base)
      BY <3>1, <1>8
    <3>3. (L(2) - 1) % Base \in Nat
      BY <3>1, <1>8
    <3> QED
      BY <3>2, <3>3, <1>9
  <2>4. Value1(e, 0) + 1 = L(2)
    BY <2>2, <2>3, <1>9, <1>10 DEF Value1
  <2>5. Value2(e, 0) = L(1) - 1
    BY <2>2, <2>4, <1>3, <1>8, <1>9, <1>10 DEF Value2
  <2>6. Value2(e, 0) + 1 = L(1)
    BY <2>2, <2>5
  <2>7. Value3(e, 0) = v
    BY <2>6, <1>3, <1>4, <1>7, <1>9, <1>13 DEF Value3
  <2> QED
    BY <1>6, <1>13, <2>7 DEF Value, e, k
<1>14. CASE k = 4
  <2>1. 1 \in 1..k-1 /\ 2 \in 1..k-1 /\ 3 \in 1..k-1 /\ k - 1 = 3 /\ k - 2 = 2 /\ k - 3 = 1
    BY <1>14
  <2>2. /\ L(1) \in Nat \ {0} /\ Val(e[1]) = (L(3) - 1) % Base
        /\ L(2) \in Nat \ {0} /\ Val(e[2]) = (L(2) - 1) % Base
        /\ L(3) \in Nat \ {0} /\ Val(e[3]) = (L(1) - 1) % Base
    BY <2>1, <1>2, <1>5
  <2>3. L(3) - 1 = (L(3) - 1) % Base
    <3>1. L(3) - 1 \in Nat /\ (L(3) - 1) \div Base = 0
      BY <2>2, <1>2, <1>3, <1>14
    <3>2. L(3) - 1 = 0 * Base + ((L(3) - 1) % Base)
      BY <3>1, <1>8
    <3>3. (L(3) - 1) % Base \in Nat
      BY <3>1, <1>8
    <3> QED
      BY <3>2, <3>3, <1>9
  <2>4. Value1(e, 0) + 1 = L(3)
    BY <2>2, <2>3, <1>9, <1>10 DEF Value1
  <2>5. Value2(e, 0) = L(2) - 1
    BY <2>2, <2>4, <1>3, <1>8, <1>9, <1>10 DEF Value2
  <2>6. Value2(e, 0) + 1 = L(2)
    BY <2>2, <2>5
  <2>7. Value3(e, 0) = L(1) - 1
    BY <2>2, <2>6, <1>3, <1>8, <1>9, <1>10 DEF Value3
  <2>8. Value3(e, 0) + 1 = L(1)
    BY <2>2, <2>7
  <2>9. Value4(e, 0) = v
    BY <2>8, <1>3, <1>4, <1>7, <1>9, <1>14 DEF Value4
  <2> QED
    BY <1>6, <1>14, <2>9 DEF Value, e, k
<1> QED
  BY <1>2, <1>11, <1>12, <1>13, <1>14

(* Wherever these bytes are, read_vlq reads the value and goes behind them.*)
LEMMA ReadEncoded ==
    ASSUME NEW v \in Nat, Fits(v), NEW d \in Seq(u8), NEW p \in Nat,
           p + Len(encode_vlq(v)) <= Len(d),
           \A j \in 1..Len(encode_vlq(v)) : d[p + j] = encode_vlq(v)[j]
    PROVE  /\ read_vlq(d, p) = [res |-> "ok", val |-> v, pos |-> p + Len(encode_vlq(v))]
           /\ Len(encode_vlq(v)) \in 1..4
<1> DEFINE e == encode_vlq(v)
           k == Size(v)
<1>1. e \in Seq(u8) /\ Len(e) = k
  BY EncodeBytes
<1>2. k \in 1..4
  BY SizeProps
<1>3. IsVlq(e, 0, k) /\ Value(e, 0, k) = v
  BY EncodeIsVlq
<1>4. p + k <= Len(d) /\ \A j \in 1..k : d[p + j] = e[j]
  BY <1>1
<1> HIDE DEF e, k
<1>5. 0 + k = k /\ \A j \in 1..k : 0 + j = j
  BY <1>2
<1>6. IsVlq(d, p, k)
  <2>1. k \in 1..k /\ \A j \in 1..k-1 : j \in 1..k
    BY <1>2
  <2> QED
    BY <1>2, <1>3, <1>4, <1>5, <2>1 DEF IsVlq
<1>7. Value(d, p, k) = Value(e, 0, k)
  <2>1. k = 1 \/ k = 2 \/ k = 3 \/ k = 4
    BY <1>2
  <2>2. /\ 1 \in 1..k /\ (k >= 2 => 2 \in 1..k) /\ (k >= 3 => 3 \in 1..k) /\ (k = 4 => 4 \in 1..k)
    BY <1>2
  <2>3. 0 + 1 = 1 /\ 0 + 2 = 2 /\ 0 + 3 = 3 /\ 0 + 4 = 4
    OBVIOUS
  <2>4. Value1(d, p) = Value1(e, 0)
    BY <2>2, <2>3, <1>4 DEF Value1
  <2>5. k >= 2 => Value2(d, p) = Value2(e, 0)
    BY <2>2, <2>3, <2>4, <1>4 DEF Value2
  <2>6. k >= 3 => Value3(d, p) = Value3(e, 0)
    BY <1>2, <2>2, <2>3, <2>5, <1>4 DEF Value3
  <2>7. k = 4 => Value4(d, p) = Value4(e, 0)
    BY <1>2, <2>2, <2>3, <2>6, <1>4 DEF Value4
  <2> QED
    BY <2>1, <2>4, <2>5, <2>6, <2>7 DEF Value
<1>8. read_vlq(d, p) = [res |-> "ok", val |-> Value(d, p, k), pos |-> p + k]
  BY <1>6, ReadVlqOk
<1> QED
  BY <1>1, <1>2, <1>3, <1>7, <1>8 DEF e

(* A quantity is what encode_vlq writes for its value: it has no other     *)
(* encoding.                                                               *)
LEMMA VlqIsEncoded ==
    ASSUME NEW d \in Seq(u8), NEW p \in Nat, NEW k, IsVlq(d, p, k)
    PROVE  /\ Value(d, p, k) \in Nat /\ Fits(Value(d, p, k))
           /\ encode_vlq(Value(d, p, k)) = SubSeq(d, p + 1, p + k)
<1> DEFINE v == Value(d, p, k)
           L(i) == Left(v, i)
<1>1. k \in 1..4 /\ p + k <= Len(d) /\ Len(d) \in Nat
  BY LenProperties DEF IsVlq
<1>2. /\ \A j \in 1..k : d[p + j] \in u8 /\ Val(d[p + j]) \in 0..Base-1
      /\ Value1(d, p) \in 0..Base-1
      /\ k >= 2 => Value2(d, p) \in Nat
      /\ k >= 3 => Value3(d, p) \in Nat
      /\ k = 4 => Value4(d, p) \in Nat
      /\ v \in Nat
  BY <1>1, ValueType
<1>3. /\ L(1) = v \div Base /\ L(2) = (L(1) - 1) \div Base
      /\ L(3) = (L(2) - 1) \div Base /\ L(4) = (L(3) - 1) \div Base
  BY <1>2, LeftDef
<1> DEFINE x1 == Value1(d, p)
           x2 == Value2(d, p)
           x3 == Value3(d, p)
           c(i) == Val(d[p + i])
           \* v has one byte more than w, and its last byte is that of c
           Adds(u, w, a) == u \div Base = w + 1 /\ u % Base = a /\ (w + 1) - 1 = w
<1>4. /\ k = 1 => v = x1
      /\ k = 2 => v = x2
      /\ k = 3 => v = x3
      /\ k = 4 => v = Value4(d, p)
  BY DEF Value
<1>5. x1 \in Nat /\ x1 \div Base = 0 /\ x1 % Base = x1 /\ c(1) = x1
  <2>1. x1 \in Nat /\ 0 * Base + x1 = x1
    BY <1>2, BaseProps
  <2>2. x1 \div Base = 0 /\ x1 % Base = x1
    BY <2>1, <1>2, BaseProps, DivUnique
  <2> QED
    BY <2>1, <2>2 DEF Value1
<1>6. k >= 2 => Adds(x2, x1, c(2))
  <2> SUFFICES ASSUME k >= 2 PROVE Adds(x2, x1, c(2))
    OBVIOUS
  <2>1. 2 \in 1..k
    BY <1>1
  <2>2. c(2) \in 0..Base-1
    BY <2>1, <1>2
  <2> QED
    BY <2>2, <1>5, OneByte DEF Value2
<1>7. k >= 3 => Adds(x3, x2, c(3))
  <2> SUFFICES ASSUME k >= 3 PROVE Adds(x3, x2, c(3))
    OBVIOUS
  <2>1. 3 \in 1..k
    BY <1>1
  <2>2. c(3) \in 0..Base-1 /\ x2 \in Nat
    BY <2>1, <1>1, <1>2
  <2> QED
    BY <2>2, OneByte DEF Value3
<1>8. k = 4 => Adds(v, x3, c(4))
  <2> SUFFICES ASSUME k = 4 PROVE Adds(v, x3, c(4))
    OBVIOUS
  <2>1. 4 \in 1..k
    BY <1>1
  <2>2. c(4) \in 0..Base-1 /\ x3 \in Nat
    BY <2>1, <1>1, <1>2
  <2>3. v = (x3 + 1) * Base + c(4)
    BY <1>4 DEF Value4
  <2> QED
    BY <2>2, <2>3, OneByte
<1> HIDE DEF v, L, x1, x2, x3, c
<1>9. /\ L(k) = 0 /\ v % Base = c(k)
      /\ \A j \in 1..k-1 : (L(k - j) - 1) % Base = c(j)
  <2>1. CASE k = 1
    BY <2>1, <1>3, <1>4, <1>5
  <2>2. CASE k = 2
    <3>1. L(1) = x1 + 1 /\ L(1) - 1 = x1
      BY <2>2, <1>3, <1>4, <1>6
    <3>2. \A j \in 1..k-1 : j = 1 /\ k - j = 1
      BY <2>2
    <3> QED
      BY <2>2, <3>1, <3>2, <1>3, <1>4, <1>5, <1>6
  <2>3. CASE k = 3
    <3>1. L(1) = x2 + 1 /\ L(1) - 1 = x2
      BY <2>3, <1>3, <1>4, <1>7
    <3>2. L(2) = x1 + 1 /\ L(2) - 1 = x1
      BY <2>3, <3>1, <1>3, <1>6
    <3>3. \A j \in 1..k-1 : (j = 1 /\ k - j = 2) \/ (j = 2 /\ k - j = 1)
      BY <2>3
    <3> QED
      BY <2>3, <3>1, <3>2, <3>3, <1>3, <1>4, <1>5, <1>6, <1>7
  <2>4. CASE k = 4
    <3>1. L(1) = x3 + 1 /\ L(1) - 1 = x3
      BY <2>4, <1>3, <1>8
    <3>2. L(2) = x2 + 1 /\ L(2) - 1 = x2
      BY <2>4, <3>1, <1>3, <1>7
    <3>3. L(3) = x1 + 1 /\ L(3) - 1 = x1
      BY <2>4, <3>2, <1>3, <1>6
    <3>4. \A j \in 1..k-1 : (j = 1 /\ k - j = 3) \/ (j = 2 /\ k - j = 2) \/ (j = 3 /\ k - j = 1)
      BY <2>4
    <3> QED
      BY <2>4, <3>1, <3>2, <3>3, <3>4, <1>3, <1>5, <1>6, <1>7, <1>8
  <2> QED
    BY <1>1, <2>1, <2>2, <2>3, <2>4
<1>10. Size(v) = k /\ Fits(v)
  BY <1>1, <1>2, <1>9, SizeUnique DEF L
<1> DEFINE e == encode_vlq(v)
<1>11. /\ e \in Seq(u8) /\ Len(e) = k /\ e[k] = v % Base
       /\ \A j \in 1..k-1 : e[j] = Base + ((L(k - j) - 1) % Base)
  <2> USE DEF L
  <2> QED
    BY <1>2, <1>10, EncodeBytes
<1> HIDE DEF e
<1>12. ASSUME NEW j \in 1..k PROVE e[j] = d[p + j]
  <2>1. d[p + j] \in u8
    BY <1>2
  <2>2. CASE j = k
    <3>1. ~HasNext(d[p + k])
      BY DEF IsVlq
    <3>2. d[p + k] = c(k)
      BY <2>1, <2>2, <3>1, ByteParts DEF c
    <3> QED
      BY <2>2, <3>2, <1>9, <1>11
  <2>3. CASE j \in 1..k-1
    <3>1. HasNext(d[p + j])
      BY <2>3 DEF IsVlq
    <3>2. d[p + j] = Base + c(j)
      BY <2>1, <3>1, ByteParts DEF c
    <3> QED
      BY <2>3, <3>2, <1>9, <1>11
  <2> QED
    BY <1>1, <2>2, <2>3
<1>13. e = SubSeq(d, p + 1, p + k)
  <2> DEFINE s == SubSeq(d, p + 1, p + k)
  <2>1. s = [j \in 1..k |-> d[p + j]]
    <3>1. (p + k) - (p + 1) + 1 = k /\ \A j \in 1..k : j + (p + 1) - 1 = p + j
      BY <1>1
    <3>2. s = [j \in 1..((p + k) - (p + 1) + 1) |-> d[j + (p + 1) - 1]]
      BY <1>1
    <3> QED
      BY <3>1, <3>2
  <2>2. e = [j \in 1..k |-> e[j]]
    BY <1>11
  <2> QED
    BY <1>12, <2>1, <2>2
<1> QED
  BY <1>2, <1>10, <1>13 DEF v, e

(* Every number below the bound of VlqExact takes at most 4 bytes.         *)
LEMMA SmallFits ==
    ASSUME NEW v \in 0..Base * (1 + Base * (1 + Base * (1 + Base))) - 1
    PROVE  v \in Nat /\ Fits(v)
<1> DEFINE b1 == 1 + Base
           b2 == 1 + Base * b1
           b3 == 1 + Base * b2
           L(i) == Left(v, i)
<1>1. b1 \in Nat /\ b2 \in Nat /\ b3 \in Nat
  BY BaseProps
<1>2. v \in Nat /\ v < Base * b3
  <2>1. v \in Nat /\ v <= Base * b3 - 1 /\ Base * b3 \in Nat
    BY <1>1, BaseProps
  <2> QED
    BY <2>1
<1>3. /\ L(1) = v \div Base /\ L(2) = (L(1) - 1) \div Base
      /\ L(3) = (L(2) - 1) \div Base /\ L(4) = (L(3) - 1) \div Base
  BY <1>2, LeftDef
<1>4. ASSUME NEW x \in Nat, NEW b \in Nat, x < Base * b
      PROVE  x \div Base \in Nat /\ x \div Base < b
  <2> DEFINE q == x \div Base
  <2>1. q \in Nat /\ x % Base \in 0..Base-1 /\ x = q * Base + (x % Base)
    BY BaseProps, DivMod
  <2> HIDE DEF q
  <2>2. ASSUME q >= b PROVE FALSE
    <3>1. PICK e \in Nat : q = b + e
      BY <2>1, <2>2
    <3>2. q * Base = b * Base + e * Base /\ e * Base \in Nat /\ b * Base = Base * b
      BY <3>1, BaseProps
    <3>3. x % Base \in Nat /\ b * Base \in Nat
      BY <2>1, BaseProps
    <3> QED
      BY <1>4, <2>1, <3>2, <3>3
  <2> QED
    BY <2>1, <2>2 DEF q
<1> HIDE DEF L, b1, b2, b3
<1>5. L(1) \in Nat /\ L(1) < b3
  BY <1>1, <1>2, <1>3, <1>4
<1>6. L(1) = 0 \/ (L(1) - 1 \in Nat /\ L(1) - 1 < Base * b2)
  BY <1>1, <1>5, BaseProps DEF b3
<1>7. L(1) = 0 \/ (L(2) \in Nat /\ L(2) < b2)
  BY <1>1, <1>3, <1>4, <1>6
<1>8. L(1) = 0 \/ L(2) = 0 \/ (L(2) - 1 \in Nat /\ L(2) - 1 < Base * b1)
  BY <1>1, <1>7, BaseProps DEF b2
<1>9. L(1) = 0 \/ L(2) = 0 \/ (L(3) \in Nat /\ L(3) < b1)
  BY <1>1, <1>3, <1>4, <1>8
<1>10. L(1) = 0 \/ L(2) = 0 \/ L(3) = 0 \/ (L(3) - 1 \in Nat /\ L(3) - 1 < Base * 1)
  BY <1>1, <1>9, BaseProps DEF b1
<1>11. L(1) = 0 \/ L(2) = 0 \/ L(3) = 0 \/ (L(4) \in Nat /\ L(4) < 1)
  BY <1>1, <1>3, <1>4, <1>10
<1>12. L(1) = 0 \/ L(2) = 0 \/ L(3) = 0 \/ L(4) = 0
  BY <1>11
<1>13. Fits(v)
  BY <1>12 DEF Fits, L
<1> QED
  BY <1>2, <1>13

-----------------------------------------------------------------------------
(* What the iterator reads, whatever the data.                             *)

(* read_vlq stays inside, and moves when it succeeds.                      *)
LEMMA ReadVlqType ==
    ASSUME NEW d \in Seq(u8), NEW p \in 0..Len(d)
    PROVE  /\ read_vlq(d, p).res \in {"ok", "UnexpectedEnd", "InvalidVlq"}
           /\ read_vlq(d, p).val \in Nat
           /\ read_vlq(d, p).pos \in 0..Len(d)
           /\ read_vlq(d, p).res = "ok" => read_vlq(d, p).pos > p
<1> DEFINE r == read_vlq(d, p)
<1>1. Len(d) \in Nat /\ p \in Nat /\ p <= Len(d)
  BY LenProperties
<1>2. CASE \E k \in 1..4 : IsVlq(d, p, k)
  <2>1. PICK k \in 1..4 : IsVlq(d, p, k)
    BY <1>2
  <2>2. r = [res |-> "ok", val |-> Value(d, p, k), pos |-> p + k]
    BY <1>1, <2>1, ReadVlqOk
  <2>3. p + k <= Len(d)
    BY <2>1 DEF IsVlq
  <2>4. Value(d, p, k) \in Nat
    BY <1>1, <2>3, ValueType
  <2>5. p + k \in 0..Len(d) /\ p + k > p
    BY <1>1, <2>3
  <2> QED
    BY <2>2, <2>4, <2>5
<1>3. CASE r = [res |-> "UnexpectedEnd", val |-> 0, pos |-> Len(d)]
  BY <1>1, <1>3
<1>4. CASE r = [res |-> "InvalidVlq", val |-> 0, pos |-> p + 4] /\ p + 4 <= Len(d)
  BY <1>1, <1>4
<1> QED
  BY <1>1, <1>2, <1>3, <1>4, ReadVlqCases

IndexState == [ok : BOOLEAN, pos : 0..Len(data), entries : Seq(Seq(u8))]

(* One entry of the index.                                                 *)
LEMMA IndexEntryType ==
    ASSUME data \in Seq(u8), NEW b \in IndexState
    PROVE  ReadIndexEntry(b) \in IndexState
<1> DEFINE m == read_vlq(data, b.pos)
           end == m.pos + m.val
<1>1. b.ok \in BOOLEAN /\ b.pos \in 0..Len(data) /\ b.entries \in Seq(Seq(u8))
  BY DEF IndexState
<1>2. m.val \in Nat /\ m.pos \in 0..Len(data) /\ Len(data) \in Nat
  BY <1>1, ReadVlqType, LenProperties
<1> HIDE DEF m
<1>3. CASE ~b.ok \/ m.res # "ok" \/ end > Len(data)
  <2>1. ReadIndexEntry(b) = [b EXCEPT !.ok = FALSE]
    BY <1>3, Zenon DEF ReadIndexEntry, m
  <2> QED
    BY <2>1 DEF IndexState
<1>4. CASE ~(~b.ok \/ m.res # "ok" \/ end > Len(data))
  <2> DEFINE s == SubSeq(data, m.pos + 1, end)
  <2>1. ReadIndexEntry(b) = [ok |-> TRUE, pos |-> end, entries |-> Append(b.entries, s)]
    BY <1>4, Zenon DEF ReadIndexEntry, m
  <2>2. m.pos \in Nat /\ end \in Nat /\ m.pos <= end /\ end <= Len(data)
    BY <1>2, <1>4
  <2>3. s \in Seq(u8)
    BY <2>2, SliceElements
  <2> HIDE DEF s, end
  <2>4. Append(b.entries, s) \in Seq(Seq(u8))
    BY <1>1, <2>3, AppendProperties
  <2>5. end \in 0..Len(data)
    BY <1>2, <2>2
  <2> QED
    BY <2>1, <2>4, <2>5 DEF IndexState
<1> QED
  BY <1>3, <1>4

(* ReadIndex reads its entries one after the other.                        *)
IsIndexRun(f, n, p) ==
    /\ \A i \in 0..n : f[i] \in IndexState
    /\ f[0] = [ok |-> TRUE, pos |-> p, entries |-> <<>>]
    /\ \A i \in 1..n : f[i] = ReadIndexEntry(f[i-1])

(* There is such a run, and ReadIndex is its last state.                   *)
LEMMA ReadIndexRun ==
    ASSUME data \in Seq(u8), NEW n \in Nat, NEW p \in 0..Len(data)
    PROVE  \E f : IsIndexRun(f, n, p) /\ ReadIndex(n, p) = f[n]
<1> DEFINE X == IndexState
           x0 == [ok |-> TRUE, pos |-> p, entries |-> <<>>]
           F == [x \in X |-> ReadIndexEntry(x)]
           Eq(f) == f = [i \in 0..n |-> IF i = 0 THEN x0 ELSE Once(ReadIndexEntry, f[i-1])]
           load == CHOOSE f : Eq(f)
<1>1. \A x : Once(ReadIndexEntry, x) = ReadIndexEntry(x)
  BY DEF Once
<1>2. x0 \in X
  <2>1. <<>> \in Seq(Seq(u8)) /\ TRUE \in BOOLEAN
    OBVIOUS
  <2> QED
    BY <2>1 DEF IndexState
<1>3. F \in [X -> X]
  BY IndexEntryType
<1>4. ReadIndex(n, p) = load[n]
  BY Zenon DEF ReadIndex
<1> HIDE DEF X, x0
<1>5. PICK g : IsRun(X, x0, F, g, n)
  <2> HIDE DEF F
  <2> QED BY <1>2, <1>3, RunExists
<1>6. g \in [0..n -> X] /\ g[0] = x0 /\ \A i \in 1..n : g[i] = F[g[i-1]]
  BY <1>5 DEF IsRun
<1>7. \A i \in 1..n : g[i] = ReadIndexEntry(g[i-1])
  <2> SUFFICES ASSUME NEW i \in 1..n PROVE g[i] = ReadIndexEntry(g[i-1])
    OBVIOUS
  <2>1. i - 1 \in 0..n
    OBVIOUS
  <2> QED
    BY <1>6, <2>1
<1>8. Eq(g)
  <2> DEFINE h == [i \in 0..n |-> IF i = 0 THEN x0 ELSE Once(ReadIndexEntry, g[i-1])]
  <2>1. \A i \in 0..n : g[i] = h[i]
    <3> SUFFICES ASSUME NEW i \in 0..n PROVE g[i] = h[i]
      OBVIOUS
    <3>1. CASE i = 0
      BY <1>6, <3>1
    <3>2. CASE i # 0
      <4>1. i \in 1..n
        BY <3>2
      <4>2. h[i] = Once(ReadIndexEntry, g[i-1])
        BY <3>2
      <4> QED
        BY <1>1, <1>7, <4>1, <4>2, Zenon
    <3> QED BY <3>1, <3>2
  <2>2. g = [i \in 0..n |-> g[i]] /\ h = [i \in 0..n |-> h[i]]
    BY <1>6
  <2> HIDE DEF h
  <2>3. g = h
    BY <2>1, <2>2
  <2> QED
    BY <2>3 DEF h
<1>9. Eq(load)
  <2> HIDE DEF Eq
  <2> QED
    BY <1>8, Zenon
<1> HIDE DEF load
<1>10. load[0] = x0 /\ \A i \in 1..n : load[i] = Once(ReadIndexEntry, load[i-1])
  <2>1. \A i \in 0..n : load[i] = IF i = 0 THEN x0 ELSE Once(ReadIndexEntry, load[i-1])
    BY <1>9, Zenon
  <2>2. 0 \in 0..n /\ \A i \in 1..n : i \in 0..n /\ i # 0
    OBVIOUS
  <2> QED
    BY <2>1, <2>2, Zenon
<1>11. \A i \in 1..n : load[i] = ReadIndexEntry(load[i-1])
  BY <1>1, <1>10, Zenon
<1> DEFINE S == {i \in Nat : i <= n => load[i] \in X}
<1>12. 0 \in S
  BY <1>2, <1>10
<1>13. ASSUME NEW i \in Nat, i \in S PROVE i + 1 \in S
  <2> SUFFICES ASSUME i + 1 <= n PROVE load[i + 1] \in X
    OBVIOUS
  <2>1. i + 1 \in 1..n /\ (i + 1) - 1 = i /\ load[i] \in X
    BY <1>13
  <2>2. load[i + 1] = ReadIndexEntry(load[i])
    BY <1>11, <2>1
  <2> QED
    BY <2>1, <2>2, IndexEntryType DEF X
<1> HIDE DEF S
<1>14. \A i \in Nat : i \in S
  BY <1>12, <1>13, NatSetInduction
<1>15. \A i \in 0..n : load[i] \in X
  BY <1>14 DEF S
<1>16. IsIndexRun(load, n, p)
  BY <1>10, <1>11, <1>15 DEF IsIndexRun, X, x0
<1> QED
  BY <1>4, <1>16

(* One blob: errors end the data, None is its end, and a blob is behind    *)
(* the position.                                                           *)
LEMMA ReadType ==
    ASSUME rest \in Seq(u8), dedup \in Seq(Seq(u8)), NEW p \in 0..Len(rest)
    PROVE  /\ Read(p).res \in {"None", "panic", "InvalidIndex", "UnexpectedEnd", "ok"}
           /\ Read(p).blob \in Seq(u8)
           /\ Read(p).pos \in 0..Len(rest)
           /\ Read(p).res \in {"None", "InvalidIndex", "UnexpectedEnd"} =>
                 Read(p).pos = Len(rest)
           /\ Read(p).res = "None" <=> p = Len(rest)
           /\ Read(p).res = "ok" => Read(p).pos > p
<1> DEFINE n == read_vlq(rest, p)
           v == n.val \div 2
           None == [res |-> "None", blob |-> <<>>, pos |-> p]
           Panic == [res |-> "panic", blob |-> <<>>, pos |-> n.pos]
           NoEntry == [res |-> "InvalidIndex", blob |-> <<>>, pos |-> error_block(n.pos)]
           Ref == [res |-> "ok", blob |-> dedup[v + 1], pos |-> n.pos]
           NoBlob == [res |-> "UnexpectedEnd", blob |-> <<>>, pos |-> error_block(n.pos + v)]
           Slice == SubSeq(rest, n.pos + 1, n.pos + v)
           Own == [res |-> "ok", blob |-> Slice, pos |-> n.pos + v]
<1>1. Len(rest) \in Nat /\ Len(dedup) \in Nat /\ <<>> \in Seq(u8)
  BY LenProperties
<1>2. n.val \in Nat /\ n.pos \in 0..Len(rest) /\ (n.res = "ok" => n.pos > p)
  BY ReadVlqType
<1>3. Read(p) = IF p >= Len(rest) THEN None
                ELSE IF n.res # "ok" THEN Panic
                ELSE IF n.val % 2 = 1
                THEN IF v >= Len(dedup) THEN NoEntry ELSE Ref
                ELSE IF n.pos + v > Len(rest) THEN NoBlob ELSE Own
  BY Zenon DEF Read
<1>4. v \in Nat
  BY <1>2
<1> HIDE DEF n, v
<1>5. CASE p >= Len(rest)
  <2>1. Read(p) = None /\ p = Len(rest)
    BY <1>1, <1>3, <1>5
  <2> QED
    BY <1>1, <2>1
<1>6. CASE ~(p >= Len(rest)) /\ n.res # "ok"
  <2>1. Read(p) = Panic
    BY <1>3, <1>6
  <2> QED
    BY <1>1, <1>2, <1>6, <2>1
<1>7. CASE ~(p >= Len(rest)) /\ n.res = "ok" /\ n.val % 2 = 1 /\ v >= Len(dedup)
  <2>1. Read(p) = NoEntry
    BY <1>3, <1>7
  <2> QED
    BY <1>1, <1>2, <1>7, <2>1 DEF error_block
<1>8. CASE ~(p >= Len(rest)) /\ n.res = "ok" /\ n.val % 2 = 1 /\ ~(v >= Len(dedup))
  <2>1. Read(p) = Ref
    BY <1>3, <1>8
  <2>2. v + 1 \in 1..Len(dedup)
    BY <1>1, <1>4, <1>8
  <2>3. dedup[v + 1] \in Seq(u8)
    BY <2>2, ElementOfSeq
  <2> QED
    BY <1>1, <1>2, <1>8, <2>1, <2>3
<1>9. CASE ~(p >= Len(rest)) /\ n.res = "ok" /\ n.val % 2 # 1 /\ n.pos + v > Len(rest)
  <2>1. Read(p) = NoBlob
    BY <1>3, <1>9
  <2> QED
    BY <1>1, <1>2, <1>9, <2>1 DEF error_block
<1>10. CASE ~(p >= Len(rest)) /\ n.res = "ok" /\ n.val % 2 # 1 /\ ~(n.pos + v > Len(rest))
  <2>1. Read(p) = Own
    BY <1>3, <1>10
  <2>2. n.pos \in Nat /\ n.pos + v \in Nat /\ n.pos <= n.pos + v /\ n.pos + v <= Len(rest)
    BY <1>1, <1>2, <1>4, <1>10
  <2>3. Slice \in Seq(u8)
    BY <2>2, SliceElements
  <2> HIDE DEF Slice
  <2>4. n.pos + v \in 0..Len(rest) /\ n.pos + v > p
    BY <1>1, <1>2, <1>4, <1>10, <2>2
  <2> QED
    BY <1>1, <1>10, <2>1, <2>3, <2>4
<1> QED
  BY <1>5, <1>6, <1>7, <1>8, <1>9, <1>10

Failures == {"None", "panic", "InvalidIndex", "UnexpectedEnd", "NotEnoughElements"}
GroupState ==
    {r \in [res : Failures \cup {"ok"}, blobs : Seq(Seq(u8)), pos : 0..Len(rest)] :
        /\ r.res # "ok" => r.blobs = <<>>
        /\ r.res \in Failures \ {"panic"} => r.pos = Len(rest)}

(* One more blob of a group.                                               *)
LEMMA ReadNextType ==
    ASSUME rest \in Seq(u8), dedup \in Seq(Seq(u8)), NEW b \in GroupState
    PROVE  /\ ReadNext(b) \in GroupState
           /\ ReadNext(b).res = "ok" => /\ b.res = "ok"
                                        /\ Len(ReadNext(b).blobs) = Len(b.blobs) + 1
<1> DEFINE r == Read(b.pos)
           More1 == [res |-> "ok", blobs |-> Append(b.blobs, r.blob), pos |-> r.pos]
           Short == [res |-> "NotEnoughElements", blobs |-> <<>>, pos |-> error_block(r.pos)]
           Fails == [res |-> r.res, blobs |-> <<>>, pos |-> r.pos]
<1>1. ReadNext(b) = IF b.res # "ok" THEN b
                    ELSE IF r.res = "ok" THEN More1
                    ELSE IF r.res = "None" /\ b.blobs # <<>> THEN Short ELSE Fails
  BY Zenon DEF ReadNext
<1>2. b.pos \in 0..Len(rest) /\ b.blobs \in Seq(Seq(u8))
  BY DEF GroupState
<1>3. /\ r.res \in {"None", "panic", "InvalidIndex", "UnexpectedEnd", "ok"}
      /\ r.blob \in Seq(u8) /\ r.pos \in 0..Len(rest)
      /\ r.res \in {"None", "InvalidIndex", "UnexpectedEnd"} => r.pos = Len(rest)
  BY <1>2, ReadType
<1>4. Len(rest) \in 0..Len(rest) /\ <<>> \in Seq(Seq(u8))
  BY LenProperties
<1> HIDE DEF r
<1>5. CASE b.res # "ok"
  BY <1>1, <1>5
<1>6. CASE b.res = "ok" /\ r.res = "ok"
  <2>1. ReadNext(b) = More1
    BY <1>1, <1>6
  <2>2. /\ Append(b.blobs, r.blob) \in Seq(Seq(u8))
        /\ Len(Append(b.blobs, r.blob)) = Len(b.blobs) + 1
    BY <1>2, <1>3, AppendProperties
  <2>3. More1 \in GroupState
    <3> DEFINE s == Append(b.blobs, r.blob)
    <3>1. s \in Seq(Seq(u8))
      BY <2>2
    <3> HIDE DEF s
    <3>2. [res |-> "ok", blobs |-> s, pos |-> r.pos] \in GroupState
      BY <1>3, <3>1 DEF GroupState, Failures
    <3> QED
      BY <3>2 DEF s
  <2>4. More1.blobs = Append(b.blobs, r.blob)
    OBVIOUS
  <2> QED
    BY <1>6, <2>1, <2>2, <2>3, <2>4, Zenon
<1>7. CASE b.res = "ok" /\ r.res # "ok" /\ r.res = "None" /\ b.blobs # <<>>
  <2>1. ReadNext(b) = Short
    BY <1>1, <1>7
  <2>2. Short \in GroupState /\ Short.res # "ok"
    BY <1>4 DEF GroupState, Failures, error_block
  <2> QED
    BY <2>1, <2>2
<1>8. CASE b.res = "ok" /\ r.res # "ok" /\ ~(r.res = "None" /\ b.blobs # <<>>)
  <2>1. ReadNext(b) = Fails
    BY <1>1, <1>8
  <2>2. Fails \in GroupState /\ Fails.res # "ok"
    BY <1>3, <1>4, <1>8 DEF GroupState, Failures
  <2> QED
    BY <2>1, <2>2
<1> QED
  BY <1>5, <1>6, <1>7, <1>8

(* ReadGroup reads its blobs one after the other.                          *)
IsGroupRun(f) ==
    /\ \A i \in 0..group : f[i] \in GroupState
    /\ f[0] = [res |-> "ok", blobs |-> <<>>, pos |-> pos]
    /\ \A i \in 1..group : f[i] = ReadNext(f[i-1])

(* There is such a run, and ReadGroup is its last state.                   *)
LEMMA ReadGroupRun ==
    ASSUME rest \in Seq(u8), dedup \in Seq(Seq(u8)), group \in Nat, pos \in 0..Len(rest)
    PROVE  \E f : IsGroupRun(f) /\ ReadGroup = f[group]
<1> DEFINE X == GroupState
           x0 == [res |-> "ok", blobs |-> <<>>, pos |-> pos]
           n == group
           F == [x \in X |-> ReadNext(x)]
           Eq(f) == f = [i \in 0..n |-> IF i = 0 THEN x0 ELSE Once(ReadNext, f[i-1])]
           fill == CHOOSE f : Eq(f)
<1>1. \A x : Once(ReadNext, x) = ReadNext(x)
  BY DEF Once
<1>2. x0 \in X
  <2>1. <<>> \in Seq(Seq(u8))
    OBVIOUS
  <2> QED
    BY <2>1 DEF GroupState, Failures
<1>3. F \in [X -> X]
  BY ReadNextType
<1>4. ReadGroup = fill[n]
  BY Zenon DEF ReadGroup
<1>n. n \in Nat
  OBVIOUS
<1> HIDE DEF X, x0, n
<1>5. PICK g : IsRun(X, x0, F, g, n)
  <2> HIDE DEF F
  <2> QED BY <1>2, <1>3, <1>n, RunExists
<1>6. g \in [0..n -> X] /\ g[0] = x0 /\ \A i \in 1..n : g[i] = F[g[i-1]]
  BY <1>5 DEF IsRun
<1>7. \A i \in 1..n : g[i] = ReadNext(g[i-1])
  <2> SUFFICES ASSUME NEW i \in 1..n PROVE g[i] = ReadNext(g[i-1])
    OBVIOUS
  <2>1. i - 1 \in 0..n
    BY <1>n
  <2> QED
    BY <1>6, <2>1
<1>8. Eq(g)
  <2> DEFINE h == [i \in 0..n |-> IF i = 0 THEN x0 ELSE Once(ReadNext, g[i-1])]
  <2>1. \A i \in 0..n : g[i] = h[i]
    <3> SUFFICES ASSUME NEW i \in 0..n PROVE g[i] = h[i]
      OBVIOUS
    <3>1. CASE i = 0
      BY <1>6, <3>1
    <3>2. CASE i # 0
      <4>1. i \in 1..n
        BY <1>n, <3>2
      <4>2. h[i] = Once(ReadNext, g[i-1])
        BY <3>2
      <4> QED
        BY <1>1, <1>7, <4>1, <4>2, Zenon
    <3> QED BY <3>1, <3>2
  <2>2. g = [i \in 0..n |-> g[i]] /\ h = [i \in 0..n |-> h[i]]
    BY <1>6
  <2> HIDE DEF h
  <2>3. g = h
    BY <2>1, <2>2
  <2> QED
    BY <2>3 DEF h
<1>9. Eq(fill)
  <2> HIDE DEF Eq
  <2> QED
    BY <1>8, Zenon
<1> HIDE DEF fill
<1>10. fill[0] = x0 /\ \A i \in 1..n : fill[i] = Once(ReadNext, fill[i-1])
  <2>1. \A i \in 0..n : fill[i] = IF i = 0 THEN x0 ELSE Once(ReadNext, fill[i-1])
    BY <1>9, Zenon
  <2>2. 0 \in 0..n /\ \A i \in 1..n : i \in 0..n /\ i # 0
    BY <1>n
  <2> QED
    BY <2>1, <2>2, Zenon
<1>11. \A i \in 1..n : fill[i] = ReadNext(fill[i-1])
  BY <1>1, <1>10, Zenon
<1> DEFINE S == {i \in Nat : i <= n => fill[i] \in X}
<1>12. 0 \in S
  BY <1>2, <1>10
<1>13. ASSUME NEW i \in Nat, i \in S PROVE i + 1 \in S
  <2> SUFFICES ASSUME i + 1 <= n PROVE fill[i + 1] \in X
    OBVIOUS
  <2>1. i + 1 \in 1..n /\ (i + 1) - 1 = i /\ fill[i] \in X
    BY <1>13, <1>n
  <2>2. fill[i + 1] = ReadNext(fill[i])
    BY <1>11, <2>1
  <2> QED
    BY <2>1, <2>2, ReadNextType DEF X
<1> HIDE DEF S
<1>14. \A i \in Nat : i \in S
  BY <1>12, <1>13, NatSetInduction
<1>15. \A i \in 0..n : fill[i] \in X
  BY <1>14, <1>n DEF S
<1>16. IsGroupRun(fill)
  BY <1>10, <1>11, <1>15 DEF IsGroupRun, X, x0, n
<1> QED
  BY <1>4, <1>16 DEF n

(* A whole group, or none; behind an error there is nothing.               *)
LEMMA ReadGroupType ==
    ASSUME rest \in Seq(u8), dedup \in Seq(Seq(u8)), group \in Nat \ {0}, pos \in 0..Len(rest)
    PROVE  /\ ReadGroup \in GroupState
           /\ ReadGroup.res = "ok" => Len(ReadGroup.blobs) = group
           /\ pos = Len(rest) => ReadGroup.res = "None"
<1>1. PICK f : IsGroupRun(f) /\ ReadGroup = f[group]
  BY ReadGroupRun
<1>2. /\ \A i \in 0..group : f[i] \in GroupState
      /\ f[0] = [res |-> "ok", blobs |-> <<>>, pos |-> pos]
      /\ \A i \in 1..group : f[i] = ReadNext(f[i-1])
  BY <1>1 DEF IsGroupRun
<1>3. f[group] \in GroupState
  <2>1. group \in 0..group
    OBVIOUS
  <2> QED
    BY <1>2, <2>1
<1> DEFINE S == {i \in Nat : i <= group /\ f[i].res = "ok" => Len(f[i].blobs) = i}
<1>4. 0 \in S
  <2>1. f[0].blobs = <<>> /\ Len(<<>>) = 0
    BY <1>2
  <2>2. Len(f[0].blobs) = 0
    BY <2>1
  <2> QED
    BY <2>2
<1>5. ASSUME NEW i \in Nat, i \in S PROVE i + 1 \in S
  <2> SUFFICES ASSUME i + 1 <= group, f[i + 1].res = "ok" PROVE Len(f[i + 1].blobs) = i + 1
    OBVIOUS
  <2>1. i + 1 \in 1..group /\ i \in 0..group /\ (i + 1) - 1 = i
    OBVIOUS
  <2>2. f[i + 1] = ReadNext(f[i]) /\ f[i] \in GroupState
    BY <1>2, <2>1
  <2>3. f[i].res = "ok" /\ Len(f[i + 1].blobs) = Len(f[i].blobs) + 1
    BY <2>2, ReadNextType
  <2>4. Len(f[i].blobs) = i
    BY <1>5, <2>1, <2>3
  <2> QED
    BY <2>3, <2>4
<1> HIDE DEF S
<1>6. \A i \in Nat : i \in S
  BY <1>4, <1>5, NatSetInduction
<1>7. f[group].res = "ok" => Len(f[group].blobs) = group
  <2>1. group \in S
    BY <1>6
  <2> QED
    BY <2>1 DEF S
<1>8. ASSUME pos = Len(rest) PROVE f[group].res = "None"
  <2> DEFINE N == {i \in Nat : i + 1 <= group => f[i + 1].res = "None"}
  <2>1. 0 \in N
    <3>1. Read(pos).res = "None"
      BY <1>8, ReadType
    <3>2. f[0].res = "ok" /\ f[0].blobs = <<>> /\ f[0].pos = pos
      BY <1>2
    <3>3. 1 \in 1..group /\ 1 - 1 = 0 /\ 0 + 1 = 1
      OBVIOUS
    <3>4. f[1] = ReadNext(f[0])
      BY <1>2, <3>3
    <3>5. ReadNext(f[0]).res = "None"
      BY <3>1, <3>2 DEF ReadNext
    <3> QED
      BY <3>3, <3>4, <3>5
  <2>2. ASSUME NEW i \in Nat, i \in N PROVE i + 1 \in N
    <3> SUFFICES ASSUME (i + 1) + 1 <= group PROVE f[(i + 1) + 1].res = "None"
      OBVIOUS
    <3>1. (i + 1) + 1 \in 1..group /\ ((i + 1) + 1) - 1 = i + 1 /\ f[i + 1].res = "None"
      BY <2>2
    <3>2. f[(i + 1) + 1] = ReadNext(f[i + 1])
      BY <1>2, <3>1
    <3>3. ReadNext(f[i + 1]) = f[i + 1]
      BY <3>1 DEF ReadNext
    <3> QED
      BY <3>1, <3>2, <3>3
  <2> HIDE DEF N
  <2>3. \A i \in Nat : i \in N
    BY <2>1, <2>2, NatSetInduction
  <2>4. group - 1 \in N /\ (group - 1) + 1 = group
    BY <2>3
  <2> QED
    BY <2>4 DEF N
<1> QED
  BY <1>1, <1>3, <1>7, <1>8

-----------------------------------------------------------------------------
(* The index.  R holds the pairs of a strict total order.                  *)
IsOrder(R, S) ==
    /\ \A a \in S : <<a, a>> \notin R
    /\ \A a, b, c \in S : <<a, b>> \in R /\ <<b, c>> \in R => <<a, c>> \in R
    /\ \A a, b \in S : a = b \/ <<a, b>> \in R \/ <<b, a>> \in R
Below(R, S, b) == {c \in S : <<c, b>> \in R}

(* In a finite set with a total order every rank is taken.                 *)
LEMMA Ranks ==
    ASSUME NEW S, IsFiniteSet(S), NEW R, IsOrder(R, S)
    PROVE  \A i \in 1..Cardinality(S) : \E b \in S : Cardinality(Below(R, S, b)) = i - 1
<1> DEFINE n == Cardinality(S)
           f == [b \in S |-> Cardinality(Below(R, S, b)) + 1]
<1>1. n \in Nat
  BY FS_CardinalityType
<1>2. ASSUME NEW b \in S
      PROVE  /\ IsFiniteSet(Below(R, S, b))
             /\ Cardinality(Below(R, S, b)) \in Nat
             /\ Cardinality(Below(R, S, b)) < n
  <2>1. Below(R, S, b) \in SUBSET S /\ b \notin Below(R, S, b)
    BY DEF Below, IsOrder
  <2>2. /\ IsFiniteSet(Below(R, S, b))
        /\ Cardinality(Below(R, S, b)) <= n
        /\ n = Cardinality(Below(R, S, b)) => S = Below(R, S, b)
    BY <2>1, FS_Subset
  <2>3. n # Cardinality(Below(R, S, b))
    BY <2>1, <2>2
  <2>4. Cardinality(Below(R, S, b)) \in Nat
    BY <2>2, FS_CardinalityType
  <2> QED
    BY <1>1, <2>2, <2>3, <2>4
<1>3. ASSUME NEW a \in S, NEW b \in S, <<a, b>> \in R
      PROVE  Cardinality(Below(R, S, a)) # Cardinality(Below(R, S, b))
  <2>1. Below(R, S, a) \in SUBSET Below(R, S, b)
    BY <1>3, Zenon DEF Below, IsOrder
  <2>2. a \in Below(R, S, b) /\ a \notin Below(R, S, a)
    BY <1>3, Zenon DEF Below, IsOrder
  <2>3. Cardinality(Below(R, S, b)) = Cardinality(Below(R, S, a)) =>
           Below(R, S, b) = Below(R, S, a)
    BY <1>2, <2>1, FS_Subset
  <2> QED
    BY <2>2, <2>3, Zenon
<1>4. f \in [S -> 1..n]
  <2>1. ASSUME NEW b \in S PROVE Cardinality(Below(R, S, b)) + 1 \in 1..n
    BY <1>1, <1>2
  <2> QED
    BY <2>1
<1>5. ASSUME NEW a \in S, NEW b \in S, f[a] = f[b] PROVE a = b
  <2>1. Cardinality(Below(R, S, a)) = Cardinality(Below(R, S, b))
    BY <1>2, <1>5
  <2> QED
    BY <1>3, <2>1, Zenon DEF IsOrder
<1>6. f \in Injection(S, 1..n)
  BY <1>4, <1>5 DEF Injection, IsInjective
<1>7. IsFiniteSet(1..n) /\ Cardinality(1..n) = n
  BY <1>1, FS_Interval
<1>8. f \in Surjection(S, 1..n)
  BY <1>6, <1>7, FS_Injection
<1>9. ASSUME NEW i \in 1..n PROVE \E b \in S : Cardinality(Below(R, S, b)) = i - 1
  <2>1. PICK b \in S : f[b] = i
    BY <1>8 DEF Surjection
  <2>2. Cardinality(Below(R, S, b)) + 1 = i
    BY <2>1
  <2>3. Cardinality(Below(R, S, b)) = i - 1
    BY <1>1, <1>2, <2>2
  <2> QED
    BY <2>3
<1> QED
  BY <1>9

(* Less, element by element.                                               *)
LessAt(a, b, i) ==
    /\ i \in Nat /\ i <= Len(a) /\ i < Len(b)
    /\ \A j \in 1..i : a[j] = b[j]
    /\ i = Len(a) \/ a[i+1] < b[i+1]

(* The elements before the first that differs are those of the prefix.     *)
LEMMA LessIsLessAt ==
    ASSUME NEW a \in Seq(u8), NEW b \in Seq(u8)
    PROVE  Less(a, b) <=> \E i \in Nat : LessAt(a, b, i)
<1>1. Len(a) \in Nat /\ Len(b) \in Nat
  BY LenProperties
<1>2. ASSUME NEW i \in Nat, i <= Len(a), i < Len(b)
      PROVE  SubSeq(a, 1, i) = SubSeq(b, 1, i) <=> \A j \in 1..i : a[j] = b[j]
  <2>1. 0 \in Nat /\ 0 + 1 = 1 /\ 0 <= i /\ i <= Len(b) /\ i - 0 = i /\ \A j \in 1..i : 0 + j = j
    BY <1>1, <1>2
  <2> DEFINE sa == SubSeq(a, 1, i)
             sb == SubSeq(b, 1, i)
  <2>2. /\ SubSeq(a, 0 + 1, i) \in Seq(u8) /\ Len(SubSeq(a, 0 + 1, i)) = i - 0
        /\ \A j \in 1..i-0 : SubSeq(a, 0 + 1, i)[j] = a[0 + j]
    BY <1>2, <2>1, SliceElements
  <2>3. /\ SubSeq(b, 0 + 1, i) \in Seq(u8) /\ Len(SubSeq(b, 0 + 1, i)) = i - 0
        /\ \A j \in 1..i-0 : SubSeq(b, 0 + 1, i)[j] = b[0 + j]
    BY <1>2, <2>1, SliceElements
  <2>4. /\ sa \in Seq(u8) /\ Len(sa) = i /\ \A j \in 1..i : sa[j] = a[j]
        /\ sb \in Seq(u8) /\ Len(sb) = i /\ \A j \in 1..i : sb[j] = b[j]
    BY <2>1, <2>2, <2>3, Zenon
  <2> HIDE DEF sa, sb
  <2>5. ASSUME \A j \in 1..i : a[j] = b[j] PROVE sa = sb
    BY <2>4, <2>5, SameSeq, Zenon
  <2>6. ASSUME sa = sb PROVE \A j \in 1..i : a[j] = b[j]
    BY <2>4, <2>6, Zenon
  <2>7. sa = sb <=> \A j \in 1..i : a[j] = b[j]
    BY <2>5, <2>6, Zenon
  <2> QED
    BY <2>7 DEF sa, sb
<1>3. ASSUME Less(a, b) PROVE \E i \in Nat : LessAt(a, b, i)
  <2>1. PICK i \in 0..Len(a) : /\ i < Len(b)
                               /\ SubSeq(a, 1, i) = SubSeq(b, 1, i)
                               /\ i = Len(a) \/ a[i+1] < b[i+1]
    BY <1>3 DEF Less
  <2>2. i \in Nat /\ i <= Len(a)
    BY <1>1
  <2>3. \A j \in 1..i : a[j] = b[j]
    BY <1>2, <2>1, <2>2
  <2> QED
    BY <2>1, <2>2, <2>3 DEF LessAt
<1>4. ASSUME NEW i \in Nat, LessAt(a, b, i) PROVE Less(a, b)
  <2>1. /\ i <= Len(a) /\ i < Len(b)
        /\ \A j \in 1..i : a[j] = b[j]
        /\ i = Len(a) \/ a[i+1] < b[i+1]
    BY <1>4 DEF LessAt
  <2>2. i \in 0..Len(a)
    BY <1>1, <2>1
  <2>3. SubSeq(a, 1, i) = SubSeq(b, 1, i)
    BY <1>2, <2>1
  <2> QED
    BY <2>1, <2>2, <2>3 DEF Less
<1> QED
  BY <1>3, <1>4

(* The order of slices is a strict total order.                            *)
LEMMA LessOrder ==
    /\ \A a \in Seq(u8) : ~Less(a, a)
    /\ \A a, b, c \in Seq(u8) : Less(a, b) /\ Less(b, c) => Less(a, c)
    /\ \A a, b \in Seq(u8) : a = b \/ Less(a, b) \/ Less(b, a)
<1>0. ASSUME NEW a \in Seq(u8)
      PROVE  Len(a) \in Nat /\ \A i \in 1..Len(a) : a[i] \in Int
  <2>1. Len(a) \in Nat /\ \A i \in 1..Len(a) : a[i] \in u8
    BY LenProperties, ElementOfSeq
  <2> QED
    BY <2>1, BaseProps DEF u8
<1>1. ASSUME NEW a \in Seq(u8), NEW i \in Nat, LessAt(a, a, i) PROVE FALSE
  <2>1. i < Len(a) /\ (i = Len(a) \/ a[i+1] < a[i+1])
    BY <1>1 DEF LessAt
  <2>2. i + 1 \in 1..Len(a)
    BY <1>0, <2>1
  <2>3. a[i+1] \in Int
    BY <1>0, <2>2
  <2> QED
    BY <1>0, <2>1, <2>3
<1>2. ASSUME NEW a \in Seq(u8), NEW b \in Seq(u8), NEW c \in Seq(u8),
             NEW i \in Nat, NEW j \in Nat, LessAt(a, b, i), LessAt(b, c, j)
      PROVE  LessAt(a, c, IF i <= j THEN i ELSE j)
  <2>1. /\ i <= Len(a) /\ i < Len(b) /\ (\A k \in 1..i : a[k] = b[k])
        /\ i = Len(a) \/ a[i+1] < b[i+1]
    BY <1>2 DEF LessAt
  <2>2. /\ j <= Len(b) /\ j < Len(c) /\ (\A k \in 1..j : b[k] = c[k])
        /\ j = Len(b) \/ b[j+1] < c[j+1]
    BY <1>2 DEF LessAt
  <2>3. Len(a) \in Nat /\ Len(b) \in Nat /\ Len(c) \in Nat
    BY <1>0
  <2>4. CASE i < j
    <3>1. i + 1 \in 1..j /\ i <= j /\ i < Len(c) /\ \A k \in 1..i : k \in 1..j
      BY <2>2, <2>3, <2>4
    <3>2. b[i+1] = c[i+1] /\ \A k \in 1..i : a[k] = c[k]
      BY <2>1, <2>2, <3>1
    <3> QED
      BY <2>1, <3>1, <3>2 DEF LessAt
  <2>5. CASE i = j
    <3>1. i < Len(c) /\ b[i+1] < c[i+1] /\ i + 1 \in 1..Len(b) /\ i + 1 \in 1..Len(c)
      BY <2>1, <2>2, <2>3, <2>5
    <3>2. \A k \in 1..i : a[k] = c[k]
      BY <2>1, <2>2, <2>5
    <3>3. i = Len(a) \/ a[i+1] < c[i+1]
      <4> SUFFICES ASSUME i # Len(a) PROVE a[i+1] < c[i+1]
        OBVIOUS
      <4>1. i + 1 \in 1..Len(a) /\ a[i+1] < b[i+1]
        BY <2>1, <2>3
      <4>2. a[i+1] \in Int /\ b[i+1] \in Int /\ c[i+1] \in Int
        BY <1>0, <3>1, <4>1
      <4> HIDE <1>0
      <4> QED
        BY <3>1, <4>1, <4>2
    <3> QED
      BY <2>1, <2>5, <3>1, <3>2, <3>3 DEF LessAt
  <2>6. CASE i > j
    <3>1. j + 1 \in 1..i /\ ~(i <= j) /\ j <= Len(a) /\ j < Len(b) /\ \A k \in 1..j : k \in 1..i
      BY <2>1, <2>3, <2>6
    <3>2. a[j+1] = b[j+1] /\ b[j+1] < c[j+1] /\ \A k \in 1..j : a[k] = c[k]
      BY <2>1, <2>2, <2>3, <3>1
    <3> QED
      BY <2>2, <3>1, <3>2 DEF LessAt
  <2> QED
    BY <2>4, <2>5, <2>6
<1>3. ASSUME NEW a \in Seq(u8), NEW b \in Seq(u8), a # b
      PROVE  \E i \in Nat : LessAt(a, b, i) \/ LessAt(b, a, i)
  <2> DEFINE D == {i \in Nat : i <= Len(a) /\ i <= Len(b) /\ \A j \in 1..i : a[j] = b[j]}
  <2>1. Len(a) \in Nat /\ Len(b) \in Nat
    BY <1>0
  <2>2. 0 \in D
    BY <2>1
  <2>3. Len(a) + 1 \in Nat /\ Len(a) + 1 \notin D
    BY <2>1
  <2>4. \E i \in Nat : i \in D /\ i + 1 \notin D
    <3> HIDE DEF D
    <3> QED
      BY <2>2, <2>3, NatSetInduction
  <2>5. PICK i \in Nat : i \in D /\ i + 1 \notin D
    BY <2>4
  <2>6. i <= Len(a) /\ i <= Len(b) /\ \A j \in 1..i : a[j] = b[j]
    BY <2>5
  <2>7. CASE i = Len(a)
    <3>1. i # Len(b)
      <4> SUFFICES ASSUME i = Len(b) PROVE FALSE
        OBVIOUS
      <4>1. Len(a) = Len(b) /\ \A j \in 1..Len(a) : a[j] = b[j]
        BY <2>6, <2>7
      <4> QED
        BY <1>3, <4>1, SameSeq, Zenon
    <3> QED
      BY <2>1, <2>6, <2>7, <3>1 DEF LessAt
  <2>8. CASE i # Len(a) /\ i = Len(b)
    BY <2>1, <2>6, <2>8 DEF LessAt
  <2>9. CASE i # Len(a) /\ i # Len(b)
    <3>1. i + 1 \in 1..Len(a) /\ i + 1 \in 1..Len(b) /\ i < Len(a) /\ i < Len(b)
      BY <2>1, <2>6, <2>9
    <3>2. a[i+1] \in Int /\ b[i+1] \in Int
      BY <1>0, <3>1
    <3>3. a[i+1] # b[i+1]
      <4> SUFFICES ASSUME a[i+1] = b[i+1] PROVE FALSE
        OBVIOUS
      <4>1. ASSUME NEW j \in 1..i+1 PROVE a[j] = b[j]
        <5>1. j \in 1..i \/ j = i + 1
          OBVIOUS
        <5> QED
          BY <2>6, <5>1
      <4>2. i + 1 \in Nat /\ i + 1 <= Len(a) /\ i + 1 <= Len(b)
        BY <3>1, <2>1
      <4> QED
        BY <2>5, <4>1, <4>2
    <3>4. a[i+1] < b[i+1] \/ b[i+1] < a[i+1]
      <4> HIDE <1>0
      <4> QED
        BY <3>2, <3>3
    <3> QED
      BY <2>6, <3>1, <3>4 DEF LessAt
  <2> QED
    BY <2>7, <2>8, <2>9
<1>4. ASSUME NEW a \in Seq(u8), NEW b \in Seq(u8), NEW c \in Seq(u8), Less(a, b), Less(b, c)
      PROVE  Less(a, c)
  <2>1. PICK i \in Nat : LessAt(a, b, i)
    BY <1>4, LessIsLessAt
  <2>2. PICK j \in Nat : LessAt(b, c, j)
    BY <1>4, LessIsLessAt
  <2>3. LessAt(a, c, IF i <= j THEN i ELSE j) /\ (IF i <= j THEN i ELSE j) \in Nat
    BY <1>2, <2>1, <2>2
  <2> QED
    BY <2>3, LessIsLessAt
<1>5. ASSUME NEW a \in Seq(u8) PROVE ~Less(a, a)
  BY <1>1, LessIsLessAt
<1>6. ASSUME NEW a \in Seq(u8), NEW b \in Seq(u8) PROVE a = b \/ Less(a, b) \/ Less(b, a)
  BY <1>3, LessIsLessAt
<1> QED
  BY <1>4, <1>5, <1>6

(* How often a blob occurs, and what occurs at all.                        *)
LEMMA CountType ==
    ASSUME NEW T, NEW bs \in Seq(T)
    PROVE  /\ \A b : Count(bs, b) \in Nat
           /\ ToSet(bs) \subseteq T /\ IsFiniteSet(ToSet(bs))
<1>1. Len(bs) \in Nat /\ DOMAIN bs = 1..Len(bs) /\ bs \in [1..Len(bs) -> T]
  BY LenProperties
<1>2. IsFiniteSet(DOMAIN bs)
  BY <1>1, FS_Interval
<1>3. ASSUME NEW b PROVE Count(bs, b) \in Nat
  <2> DEFINE C == {i \in DOMAIN bs : bs[i] = b}
  <2>1. C \in SUBSET DOMAIN bs
    OBVIOUS
  <2>2. IsFiniteSet(C)
    BY <1>2, <2>1, FS_Subset
  <2> QED
    BY <2>2, FS_CardinalityType DEF Count
<1>4. ToSet(bs) \subseteq T
  BY <1>1 DEF ToSet
<1>5. bs \in Surjection(DOMAIN bs, ToSet(bs))
  BY <1>1 DEF Surjection, ToSet
<1>6. IsFiniteSet(ToSet(bs))
  BY <1>2, <1>5, FS_Surjection
<1> QED
  BY <1>3, <1>4, <1>6

(* The order of the index is a strict total order.                         *)
LEMMA BeforeOrder ==
    ASSUME NEW bs \in Seq(Seq(u8)), NEW S \in SUBSET Seq(u8)
    PROVE  IsOrder({p \in S \X S : Before(bs, p[1], p[2])}, S)
<1> DEFINE R == {p \in S \X S : Before(bs, p[1], p[2])}
<1>1. ASSUME NEW a \in S PROVE Special(a) \in Nat /\ Count(bs, a) \in Nat /\ a \in Seq(u8)
  BY CountType DEF Special
<1>2. ASSUME NEW a \in S, NEW b \in S PROVE <<a, b>> \in R <=> Before(bs, a, b)
  OBVIOUS
<1>3. ASSUME NEW a \in S PROVE ~Before(bs, a, a)
  BY <1>1, LessOrder DEF Before
<1>4. ASSUME NEW a \in S, NEW b \in S, NEW c \in S, Before(bs, a, b), Before(bs, b, c)
      PROVE  Before(bs, a, c)
  <2> DEFINE sa == Special(a)
             sb == Special(b)
             sc == Special(c)
             ca == Count(bs, a)
             cb == Count(bs, b)
             cc == Count(bs, c)
             ab == Less(b, a)
             bc == Less(c, b)
             ac == Less(c, a)
  <2>1. sa \in Nat /\ sb \in Nat /\ sc \in Nat /\ ca \in Nat /\ cb \in Nat /\ cc \in Nat
    BY <1>1
  <2>2. ab /\ bc => ac
    BY <1>1, LessOrder, Zenon
  <2>3. sa > sb \/ (sa = sb /\ ca > cb) \/ (sa = sb /\ ca = cb /\ ab)
    BY <1>4 DEF Before
  <2>4. sb > sc \/ (sb = sc /\ cb > cc) \/ (sb = sc /\ cb = cc /\ bc)
    BY <1>4 DEF Before
  <2> HIDE DEF sa, sb, sc, ca, cb, cc, ab, bc, ac
  <2>5. sa > sc \/ (sa = sc /\ ca > cc) \/ (sa = sc /\ ca = cc /\ ac)
    BY <2>1, <2>2, <2>3, <2>4
  <2> QED
    BY <2>5 DEF Before, sa, sb, sc, ca, cb, cc, ab, bc, ac
<1>5. ASSUME NEW a \in S, NEW b \in S PROVE a = b \/ Before(bs, a, b) \/ Before(bs, b, a)
  <2>1. a = b \/ Less(a, b) \/ Less(b, a)
    BY <1>1, LessOrder
  <2>2. /\ Special(a) \in Nat /\ Special(b) \in Nat
        /\ Count(bs, a) \in Nat /\ Count(bs, b) \in Nat
    BY <1>1
  <2> QED
    BY <2>1, <2>2 DEF Before
<1> HIDE DEF R
<1>6. IsOrder(R, S)
  BY <1>2, <1>3, <1>4, <1>5, Zenon DEF IsOrder
<1> QED
  BY <1>6 DEF R

(* The index holds blobs of the sequence.                                  *)
LEMMA IndexType ==
    ASSUME NEW bs \in Seq(Seq(u8))
    PROVE  Index(bs) \in Seq(Seq(u8))
<1> DEFINE S == {b \in ToSet(bs) : b # <<>> /\ Count(bs, b) > 1}
           R == {p \in S \X S : Before(bs, p[1], p[2])}
           n == Cardinality(S)
           at(i) == CHOOSE b \in S : Cardinality({c \in S : Before(bs, c, b)}) = i - 1
<1>1. S \in SUBSET Seq(u8) /\ S \in SUBSET ToSet(bs) /\ IsFiniteSet(ToSet(bs))
  BY CountType
<1>2. IsFiniteSet(S)
  BY <1>1, FS_Subset
<1>3. n \in Nat
  BY <1>2, FS_CardinalityType
<1>4. IsOrder(R, S)
  BY <1>1, BeforeOrder
<1>5. ASSUME NEW b \in S PROVE Below(R, S, b) = {c \in S : Before(bs, c, b)}
  BY DEF Below
<1>6. ASSUME NEW i \in 1..n PROVE at(i) \in S
  <2>1. \E b \in S : Cardinality(Below(R, S, b)) = i - 1
    <3> HIDE DEF S, R
    <3> QED
      BY <1>2, <1>4, Ranks, Zenon
  <2>2. \E b \in S : Cardinality({c \in S : Before(bs, c, b)}) = i - 1
    BY <1>5, <2>1
  <2> HIDE DEF S
  <2> QED
    BY <2>2, Zenon
<1>7. Index(bs) = [i \in 1..n |-> at(i)]
  BY Zenon DEF Index
<1> HIDE DEF S, R, n, at
<1>8. [i \in 1..n |-> at(i)] \in Seq(Seq(u8))
  BY <1>1, <1>3, <1>6
<1> QED
  BY <1>7, <1>8

-----------------------------------------------------------------------------
(* The bytes s are in d behind position p.                                 *)
Holds(d, p, s) ==
    /\ p \in Nat /\ p + Len(s) <= Len(d)
    /\ \A j \in 1..Len(s) : d[p + j] = s[j]

HoldsBoth(d, p, a, b) ==
    /\ Holds(d, p, a) /\ Holds(d, p + Len(a), b)
    /\ Len(a) \in Nat /\ Len(b) \in Nat
    /\ Len(Cat(a, b)) = Len(a) + Len(b)

(* Both parts of what is there are there.                                  *)
LEMMA HoldsCat ==
    ASSUME NEW T, NEW a \in Seq(T), NEW b \in Seq(T), NEW d \in Seq(T), NEW p,
           Holds(d, p, Cat(a, b))
    PROVE  HoldsBoth(d, p, a, b)
<1> DEFINE c == Cat(a, b)
           la == Len(a)
           lb == Len(b)
           ld == Len(d)
<1>1. /\ la \in Nat /\ lb \in Nat /\ Len(c) = la + lb
      /\ \A i \in 1..la : c[i] = a[i]
      /\ \A i \in 1..lb : c[la + i] = b[i]
  <2>1. IsCat(c, a, b)
    BY CatParts, Zenon
  <2> QED
    BY <2>1, Zenon DEF IsCat
<1>2. p \in Nat /\ p + Len(c) <= ld /\ \A j \in 1..Len(c) : d[p + j] = c[j]
  BY DEF Holds
<1>3. ld \in Nat
  BY LenProperties
<1> HIDE DEF c, la, lb, ld
<1>4. /\ p + la <= ld /\ p + la \in Nat /\ (p + la) + lb <= ld
      /\ \A j \in 1..la : j \in 1..Len(c)
      /\ \A j \in 1..lb : la + j \in 1..Len(c) /\ (p + la) + j = p + (la + j)
  BY <1>1, <1>2, <1>3
<1>5. \A j \in 1..la : d[p + j] = a[j]
  BY <1>1, <1>2, <1>4, Zenon
<1>6. \A j \in 1..lb : d[(p + la) + j] = b[j]
  BY <1>1, <1>2, <1>4, Zenon
<1>7. Holds(d, p, a)
  BY <1>2, <1>4, <1>5, Zenon DEF Holds, la, lb, ld
<1>8. Holds(d, p + la, b)
  BY <1>4, <1>6, Zenon DEF Holds, la, lb, ld
<1> QED
  BY <1>1, <1>7, <1>8, Zenon DEF HoldsBoth, c, la, lb

(* Every part of what is there is there.                                   *)
LEMMA HoldsFlat ==
    ASSUME NEW T, NEW ss \in Seq(Seq(T)), NEW d \in Seq(T), NEW p, Holds(d, p, FlattenSeq(ss)),
           NEW i \in 1..Len(ss)
    PROVE  Holds(d, p + FlatStart(ss, i - 1), ss[i])
<1> DEFINE c == FlattenSeq(ss)
           s == ss[i]
           a == FlatStart(ss, i - 1)
           b == FlatStart(ss, i)
           lc == Len(c)
           ld == Len(d)
<1>1. /\ a \in Nat /\ b \in Nat /\ b <= lc /\ b = a + Len(s)
      /\ \A j \in 1..Len(s) : c[a + j] = s[j]
      /\ c \in Seq(T)
  <2>1. Len(ss) \in Nat
    BY LenProperties
  <2>2. i - 1 \in 0..Len(ss) /\ i \in 0..Len(ss)
    BY <2>1
  <2> QED
    BY <2>2, FlattenParts, Zenon
<1>2. p \in Nat /\ p + lc <= ld /\ \A j \in 1..lc : d[p + j] = c[j]
  BY DEF Holds
<1>3. lc \in Nat /\ ld \in Nat
  BY <1>1, LenProperties
<1>4. Len(s) \in Nat
  BY LenProperties, ElementOfSeq
<1> HIDE DEF c, s, a, b, lc, ld
<1>5. /\ p + a \in Nat /\ (p + a) + Len(s) <= ld
      /\ \A j \in 1..Len(s) : a + j \in 1..lc /\ (p + a) + j = p + (a + j)
  BY <1>1, <1>2, <1>3, <1>4
<1>6. \A j \in 1..Len(s) : d[(p + a) + j] = s[j]
  BY <1>1, <1>2, <1>5, Zenon
<1>7. Holds(d, p + a, s)
  BY <1>5, <1>6, Zenon DEF Holds, ld
<1> QED
  BY <1>7 DEF a, s

(* What is there is the slice there.                                       *)
LEMMA HoldsSlice ==
    ASSUME NEW T, NEW d \in Seq(T), NEW s \in Seq(T), NEW p, Holds(d, p, s)
    PROVE  SubSeq(d, p + 1, p + Len(s)) = s /\ p + Len(s) <= Len(d)
<1> DEFINE e == p + Len(s)
           u == SubSeq(d, p + 1, e)
<1>1. /\ p \in Nat /\ e <= Len(d) /\ Len(s) \in Nat /\ e \in Nat /\ p <= e /\ e - p = Len(s)
      /\ \A j \in 1..Len(s) : d[p + j] = s[j]
  BY LenProperties DEF Holds
<1> HIDE DEF e
<1>2. u \in Seq(T) /\ Len(u) = e - p /\ \A i \in 1..e-p : u[i] = d[p + i]
  BY <1>1, SliceElements
<1> HIDE DEF u
<1>3. u = s
  BY <1>1, <1>2, SameSeq
<1> QED
  BY <1>1, <1>3 DEF e, u

(* A sequence holds itself.                                                *)
LEMMA HoldsSelf ==
    ASSUME NEW T, NEW s \in Seq(T)
    PROVE  Holds(s, 0, s)
<1>1. Len(s) \in Nat
  BY LenProperties
<1>2. 0 \in Nat /\ 0 + Len(s) <= Len(s) /\ \A j \in 1..Len(s) : 0 + j = j
  BY <1>1
<1> QED
  BY <1>2, Zenon DEF Holds

(* A quantity that is there is read.                                       *)
LEMMA ReadHolds ==
    ASSUME NEW v \in Nat, Fits(v), NEW d \in Seq(u8), NEW p, Holds(d, p, encode_vlq(v))
    PROVE  /\ read_vlq(d, p) = [res |-> "ok", val |-> v, pos |-> p + Len(encode_vlq(v))]
           /\ Len(encode_vlq(v)) \in 1..4
           /\ p \in Nat
BY ReadEncoded DEF Holds

-----------------------------------------------------------------------------
(* What BlobIterator makes of what encode_blobs writes.                    *)

(* An entry is a quantity and, unless it is a reference, the blob.         *)
LEMMA EntryParts ==
    ASSUME NEW idx \in Seq(Seq(u8)), NEW b \in Seq(u8), Fits(EntryNumber(idx, b))
    PROVE  LET n == EntryNumber(idx, b)
           IN  /\ n \in Nat
               /\ encode_vlq(n) \in Seq(u8)
               /\ Entry(idx, b) \in Seq(u8)
               /\ \/ \E i \in 1..Len(idx) :
                        /\ idx[i] = b /\ n = 2 * (i - 1) + 1
                        /\ Entry(idx, b) = Cat(encode_vlq(n), <<>>)
                  \/ n = 2 * Len(b) /\ Entry(idx, b) = Cat(encode_vlq(n), b)
<1> DEFINE n == EntryNumber(idx, b)
           I == CHOOSE i \in DOMAIN idx : idx[i] = b
<1>1. Len(idx) \in Nat /\ DOMAIN idx = 1..Len(idx) /\ Len(b) \in Nat
  BY LenProperties
<1>2. CASE \E i \in DOMAIN idx : idx[i] = b
  <2>1. I \in DOMAIN idx /\ idx[I] = b
    BY <1>2
  <2>2. n = 2 * (I - 1) + 1
    BY <1>2 DEF EntryNumber
  <2>3. b \in ToSet(idx)
    BY <1>2 DEF ToSet
  <2>4. Entry(idx, b) = Cat(encode_vlq(n), <<>>)
    BY <2>3, Zenon DEF Entry, Cat
  <2>5. n \in Nat
    <3> HIDE DEF n, I
    <3> QED
      BY <1>1, <2>1, <2>2
  <2>6. encode_vlq(n) \in Seq(u8) /\ <<>> \in Seq(u8)
    BY <2>5, EncodeBytes
  <2>7. Entry(idx, b) \in Seq(u8)
    BY <2>4, <2>6, CatParts, Zenon
  <2> QED
    BY <1>1, <2>1, <2>2, <2>4, <2>5, <2>6, <2>7, Zenon
<1>3. CASE ~\E i \in DOMAIN idx : idx[i] = b
  <2>1. n = 2 * Len(b)
    BY <1>3 DEF EntryNumber
  <2>2. b \notin ToSet(idx)
    BY <1>3 DEF ToSet
  <2>3. Entry(idx, b) = Cat(encode_vlq(n), b)
    BY <2>2, Zenon DEF Entry, Cat
  <2>4. n \in Nat
    BY <1>1, <2>1
  <2>5. encode_vlq(n) \in Seq(u8)
    BY <2>4, EncodeBytes
  <2>6. Entry(idx, b) \in Seq(u8)
    BY <2>3, <2>5, CatParts, Zenon
  <2> QED
    BY <2>1, <2>3, <2>4, <2>5, <2>6, Zenon
<1> QED
  BY <1>2, <1>3, Zenon

(* The number of an entry says which kind it is.                           *)
LEMMA EntryKinds ==
    /\ \A i \in Nat \ {0} : (2 * (i - 1) + 1) % 2 = 1 /\ (2 * (i - 1) + 1) \div 2 = i - 1
    /\ \A n \in Nat : (2 * n) % 2 = 0 /\ (2 * n) \div 2 = n
OBVIOUS

(* next() reads the entry of a blob as that blob.                          *)
LEMMA ReadEntry ==
    ASSUME rest \in Seq(u8), dedup \in Seq(Seq(u8)), NEW b \in Seq(u8),
           Fits(EntryNumber(dedup, b)), NEW p, Holds(rest, p, Entry(dedup, b))
    PROVE  /\ Read(p) = [res |-> "ok", blob |-> b, pos |-> p + Len(Entry(dedup, b))]
           /\ p < Len(rest)
<1> DEFINE n == EntryNumber(dedup, b)
           e == encode_vlq(n)
           E == Entry(dedup, b)
           r == read_vlq(rest, p)
           le == Len(e)
           lr == Len(rest)
           v == r.val \div 2
           Ok1 == [res |-> "ok", blob |-> dedup[v + 1], pos |-> r.pos]
           Ok2 == [res |-> "ok", blob |-> SubSeq(rest, r.pos + 1, r.pos + v), pos |-> r.pos + v]
<1>1. /\ n \in Nat /\ e \in Seq(u8) /\ E \in Seq(u8)
      /\ \/ \E i \in 1..Len(dedup) : dedup[i] = b /\ n = 2 * (i - 1) + 1 /\ E = Cat(e, <<>>)
         \/ n = 2 * Len(b) /\ E = Cat(e, b)
  BY EntryParts, Zenon
<1>2. lr \in Nat /\ Len(b) \in Nat /\ Len(dedup) \in Nat /\ <<>> \in Seq(u8) /\ Len(<<>>) = 0
  BY LenProperties
<1>3. PICK s \in {<<>>, b} : E = Cat(e, s)
  BY <1>1
<1>4. /\ Holds(rest, p, e) /\ Holds(rest, p + le, s) /\ s \in Seq(u8)
      /\ le \in Nat /\ Len(s) \in Nat /\ Len(E) = le + Len(s)
  <2>1. s \in Seq(u8)
    BY <1>2, <1>3
  <2>2. Holds(rest, p, Cat(e, s))
    BY <1>3
  <2>3. /\ Holds(rest, p, e) /\ Holds(rest, p + le, s)
        /\ le \in Nat /\ Len(s) \in Nat /\ Len(Cat(e, s)) = le + Len(s)
    <3>1. HoldsBoth(rest, p, e, s)
      BY <1>1, <2>1, <2>2, HoldsCat, Zenon
    <3> QED
      BY <3>1, Zenon DEF HoldsBoth
  <2> QED
    BY <1>3, <2>1, <2>3, Zenon
<1>5. r = [res |-> "ok", val |-> n, pos |-> p + le] /\ le \in 1..4 /\ p \in Nat
  BY <1>1, <1>4, ReadHolds, Zenon
<1>6. r.res = "ok" /\ r.val = n /\ r.pos = p + le /\ v = n \div 2
  BY <1>5
<1>7. p + le <= lr /\ (p + le) + Len(s) <= lr /\ p < lr
  <2>1. p + le <= lr /\ (p + le) + Len(s) <= lr
    BY <1>4 DEF Holds
  <2> HIDE DEF le, lr
  <2> QED
    BY <1>2, <1>5, <2>1
<1>8. Read(p) = IF p >= lr THEN [res |-> "None", blob |-> <<>>, pos |-> p]
        ELSE IF r.res # "ok" THEN [res |-> "panic", blob |-> <<>>, pos |-> r.pos]
        ELSE IF r.val % 2 = 1
        THEN IF v >= Len(dedup)
             THEN [res |-> "InvalidIndex", blob |-> <<>>, pos |-> error_block(r.pos)]
             ELSE Ok1
        ELSE IF r.pos + v > lr
             THEN [res |-> "UnexpectedEnd", blob |-> <<>>, pos |-> error_block(r.pos + v)]
             ELSE Ok2
  BY Zenon DEF Read
<1>9. ~(p >= lr)
  <2> HIDE DEF lr
  <2> QED
    BY <1>2, <1>5, <1>7
<1>10. CASE \E i \in 1..Len(dedup) : dedup[i] = b /\ n = 2 * (i - 1) + 1 /\ E = Cat(e, <<>>)
  <2>1. PICK i \in 1..Len(dedup) : dedup[i] = b /\ n = 2 * (i - 1) + 1 /\ E = Cat(e, <<>>)
    BY <1>10
  <2>2. i \in Nat \ {0} /\ i <= Len(dedup)
    BY <1>2
  <2>3. n % 2 = 1 /\ n \div 2 = i - 1
    BY <2>1, <2>2, EntryKinds
  <2>4. v = i - 1
    BY <1>6, <2>3, Zenon
  <2>5. v + 1 = i /\ ~(v >= Len(dedup))
    <3> HIDE DEF v
    <3> QED
      BY <1>2, <2>2, <2>4
  <2>6. Read(p) = Ok1
    BY <1>6, <1>8, <1>9, <2>3, <2>5, Zenon
  <2>7. Holds(rest, p, Cat(e, <<>>))
    BY <2>1
  <2>8. Len(Cat(e, <<>>)) = le + Len(<<>>)
    <3>1. HoldsBoth(rest, p, e, <<>>)
      BY <1>1, <1>2, <2>7, HoldsCat, Zenon
    <3> QED
      BY <3>1, Zenon DEF HoldsBoth
  <2>9. Len(E) = le
    <3>1. Len(E) = le + 0
      BY <1>2, <2>1, <2>8, Zenon
    <3>2. le + 0 = le
      <4> HIDE DEF le
      <4> QED
        BY <1>5
    <3> QED
      BY <3>1, <3>2, Zenon
  <2>10. Ok1 = [res |-> "ok", blob |-> b, pos |-> p + Len(E)]
    BY <1>6, <2>1, <2>5, <2>9, Zenon
  <2> QED
    BY <1>7, <2>6, <2>10, Zenon
<1>11. CASE n = 2 * Len(b) /\ E = Cat(e, b)
  <2>1. n % 2 = 0 /\ n \div 2 = Len(b)
    BY <1>2, <1>11, EntryKinds
  <2>2. v = Len(b)
    BY <1>6, <2>1, Zenon
  <2>3. /\ Holds(rest, p + le, b) /\ Len(E) = le + Len(b)
    <3>1. Holds(rest, p, Cat(e, b))
      BY <1>11
    <3>2. Holds(rest, p + le, b) /\ Len(Cat(e, b)) = le + Len(b)
      <4>1. HoldsBoth(rest, p, e, b)
        BY <1>1, <3>1, HoldsCat, Zenon
      <4> QED
        BY <4>1, Zenon DEF HoldsBoth
    <3> QED
      BY <1>11, <3>2, Zenon
  <2>4. /\ SubSeq(rest, (p + le) + 1, (p + le) + Len(b)) = b
        /\ (p + le) + Len(b) <= lr
    BY <2>3, HoldsSlice, Zenon
  <2>5. ~(r.pos + v > lr)
    <3>1. r.pos + v = (p + le) + Len(b)
      BY <1>6, <2>2
    <3>2. (p + le) + Len(b) \in Int
      <4> HIDE DEF le
      <4> QED
        BY <1>2, <1>5
    <3>3. ~((p + le) + Len(b) > lr)
      <4> DEFINE x == (p + le) + Len(b)
      <4> HIDE DEF lr, x
      <4>1. x \in Int /\ x <= lr
        BY <2>4, <3>2 DEF x
      <4>2. ~(x > lr)
        BY <1>2, <4>1
      <4> QED
        BY <4>2 DEF x
    <3> QED
      BY <3>1, <3>3, Zenon
  <2>6. ~(n % 2 = 1)
    BY <2>1
  <2>7. Read(p) = Ok2
    BY <1>6, <1>8, <1>9, <2>5, <2>6, Zenon
  <2>8. (p + le) + Len(b) = p + Len(E)
    <3>1. (p + le) + Len(b) = p + (le + Len(b))
      <4> HIDE DEF le
      <4> QED
        BY <1>2, <1>5
    <3> QED
      BY <2>3, <3>1, Zenon
  <2>9. Ok2 = [res |-> "ok", blob |-> b, pos |-> p + Len(E)]
    BY <1>6, <2>2, <2>4, <2>8, Zenon
  <2> QED
    BY <1>7, <2>7, <2>9, Zenon
<1> QED
  BY <1>1, <1>10, <1>11, Zenon

(* What encode_blobs writes for a blob of the index.                       *)
IndexPart(b) == encode_vlq(Len(b)) \o b
IndexParts(idx) == [i \in DOMAIN idx |-> IndexPart(idx[i])]
Entries(idx, bs) == [i \in DOMAIN bs |-> Entry(idx, bs[i])]

(* It is a quantity and the blob.                                          *)
LEMMA IndexPartType ==
    ASSUME NEW b \in Seq(u8), Fits(Len(b))
    PROVE  /\ IndexPart(b) = Cat(encode_vlq(Len(b)), b)
           /\ IndexPart(b) \in Seq(u8)
           /\ encode_vlq(Len(b)) \in Seq(u8)
<1>1. Len(b) \in Nat
  BY LenProperties
<1>2. encode_vlq(Len(b)) \in Seq(u8)
  BY <1>1, EncodeBytes
<1>3. IndexPart(b) = Cat(encode_vlq(Len(b)), b)
  BY DEF IndexPart, Cat
<1> QED
  BY <1>2, <1>3, CatParts, Zenon

AddsToIndex(x, b) ==
    ReadIndexEntry(x) =
        [ok |-> TRUE, pos |-> x.pos + Len(IndexPart(b)), entries |-> Append(x.entries, b)]

(* new() reads it as that blob.                                            *)
LEMMA ReadIndexPart ==
    ASSUME data \in Seq(u8), NEW b \in Seq(u8), Fits(Len(b)), NEW x, x.ok = TRUE,
           Holds(data, x.pos, IndexPart(b))
    PROVE  AddsToIndex(x, b)
<1> DEFINE p == x.pos
           l == Len(b)
           e == encode_vlq(l)
           m == read_vlq(data, x.pos)
           le == Len(e)
           end == m.pos + m.val
           ld == Len(data)
<1>1. l \in Nat /\ ld \in Nat
  BY LenProperties
<1>2. IndexPart(b) = Cat(e, b) /\ e \in Seq(u8)
  BY IndexPartType, Zenon
<1>3. /\ Holds(data, p, e) /\ Holds(data, p + le, b)
      /\ le \in Nat /\ Len(IndexPart(b)) = le + l
  <2>1. HoldsBoth(data, p, e, b)
    BY <1>2, HoldsCat, Zenon
  <2> QED
    BY <1>2, <2>1, Zenon DEF HoldsBoth
<1>4. m = [res |-> "ok", val |-> l, pos |-> p + le] /\ p \in Nat
  BY <1>1, <1>3, ReadHolds, Zenon
<1>5. m.res = "ok" /\ m.val = l /\ m.pos = p + le /\ end = (p + le) + l
  BY <1>4
<1>6. SubSeq(data, (p + le) + 1, (p + le) + l) = b /\ (p + le) + l <= ld
  BY <1>3, HoldsSlice, Zenon
<1>7. ~(end > ld)
  <2> HIDE DEF end, ld, le, l
  <2>1. (p + le) + l \in Int
    BY <1>1, <1>3, <1>4
  <2> QED
    BY <1>1, <1>5, <1>6, <2>1
<1>8. (p + le) + l = p + Len(IndexPart(b))
  <2>1. (p + le) + l = p + (le + l)
    <3> HIDE DEF le, l
    <3> QED
      BY <1>1, <1>3, <1>4
  <2> QED
    BY <1>3, <2>1, Zenon
<1>9. ReadIndexEntry(x) = IF ~x.ok \/ m.res # "ok" \/ end > ld
        THEN [x EXCEPT !.ok = FALSE]
        ELSE [ok |-> TRUE, pos |-> end,
              entries |-> Append(x.entries, SubSeq(data, m.pos + 1, end))]
  BY Zenon DEF ReadIndexEntry
<1> QED
  BY <1>5, <1>6, <1>7, <1>8, <1>9, Zenon DEF AddsToIndex

(* The parts of the index are byte strings.                                *)
LEMMA IndexPartsType ==
    ASSUME NEW idx \in Seq(Seq(u8)), \A i \in DOMAIN idx : Fits(Len(idx[i]))
    PROVE  /\ IndexParts(idx) \in Seq(Seq(u8))
           /\ Len(IndexParts(idx)) = Len(idx)
           /\ \A i \in 1..Len(idx) : /\ IndexParts(idx)[i] = IndexPart(idx[i])
                                     /\ idx[i] \in Seq(u8) /\ Fits(Len(idx[i]))
<1>1. Len(idx) \in Nat /\ DOMAIN idx = 1..Len(idx)
  BY LenProperties
<1>2. ASSUME NEW i \in 1..Len(idx)
      PROVE  idx[i] \in Seq(u8) /\ Fits(Len(idx[i])) /\ IndexPart(idx[i]) \in Seq(u8)
  <2>1. idx[i] \in Seq(u8)
    BY ElementOfSeq
  <2>2. Fits(Len(idx[i]))
    BY <1>1
  <2> QED
    BY <2>1, <2>2, IndexPartType, Zenon
<1>3. IndexParts(idx) = [i \in 1..Len(idx) |-> IndexPart(idx[i])]
  BY <1>1, Zenon DEF IndexParts
<1>4. [i \in 1..Len(idx) |-> IndexPart(idx[i])] \in [1..Len(idx) -> Seq(u8)]
  BY <1>2, Zenon
<1>5. IndexParts(idx) \in Seq(Seq(u8)) /\ Len(IndexParts(idx)) = Len(idx)
  <2> DEFINE f == IndexParts(idx)
             n == Len(idx)
             T == Seq(u8)
  <2>1. f \in [1..n -> T] /\ n \in Nat
    BY <1>1, <1>3, <1>4, Zenon
  <2> HIDE DEF f, n, T
  <2>2. f \in Seq(T) /\ Len(f) = n
    BY <2>1, FunctionIsSeq
  <2> QED
    BY <2>2, Zenon DEF f, n, T
<1>6. ASSUME NEW i \in 1..Len(idx) PROVE IndexParts(idx)[i] = IndexPart(idx[i])
  BY <1>3, Zenon
<1> QED
  BY <1>2, <1>5, <1>6, Zenon

(* A slice from the front grows by the next element.                       *)
LEMMA PrefixGrows ==
    ASSUME NEW T, NEW s \in Seq(T), NEW a \in Nat, NEW b \in Nat, a <= b, b + 1 <= Len(s)
    PROVE  Append(SubSeq(s, a + 1, b), s[b + 1]) = SubSeq(s, a + 1, b + 1)
<1> DEFINE u == SubSeq(s, a + 1, b)
           w == SubSeq(s, a + 1, b + 1)
           c == s[b + 1]
           z == Append(u, c)
<1>1. Len(s) \in Nat
  BY LenProperties
<1>2. u \in Seq(T) /\ Len(u) = b - a /\ \A i \in 1..b-a : u[i] = s[a + i]
  BY <1>1, SliceElements
<1>3. w \in Seq(T) /\ Len(w) = (b + 1) - a /\ \A i \in 1..(b+1)-a : w[i] = s[a + i]
  BY <1>1, SliceElements
<1>4. c \in T
  BY <1>1, ElementOfSeq
<1> HIDE DEF u, w
<1>5. z \in Seq(T) /\ Len(z) = Len(u) + 1 /\ z[Len(u) + 1] = c /\ \A i \in 1..Len(u) : z[i] = u[i]
  <2>1. z \in Seq(T) /\ IsAppend(z, u, c)
    BY <1>2, <1>4, AppendElements, Zenon
  <2> QED
    BY <2>1, Zenon DEF IsAppend
<1> HIDE DEF c, z
<1>6. ASSUME NEW i \in 1..Len(z) PROVE z[i] = w[i]
  <2>1. i \in 1..b-a \/ i = (b - a) + 1
    BY <1>2, <1>5
  <2>2. CASE i \in 1..b-a
    <3>1. i \in 1..(b+1)-a
      BY <2>2
    <3> QED
      BY <1>2, <1>3, <1>5, <2>2, <3>1, Zenon
  <2>3. CASE i = (b - a) + 1
    <3>1. i \in 1..(b+1)-a /\ a + i = b + 1
      BY <2>3
    <3> QED
      BY <1>2, <1>3, <1>5, <2>3, <3>1 DEF c
  <2> QED
    BY <2>1, <2>2, <2>3
<1>7. Len(z) = Len(w)
  BY <1>2, <1>3, <1>5
<1>8. z = w
  BY <1>3, <1>5, <1>6, <1>7, SameSeq, Zenon
<1> QED
  BY <1>8 DEF z, w, u, c

(* new() reads the whole index.                                            *)
LEMMA ReadWholeIndex ==
    ASSUME data \in Seq(u8), NEW idx \in Seq(Seq(u8)),
           \A i \in DOMAIN idx : Fits(Len(idx[i])),
           NEW p, Holds(data, p, FlattenSeq(IndexParts(idx)))
    PROVE  ReadIndex(Len(idx), p) =
              [ok |-> TRUE, pos |-> p + Len(FlattenSeq(IndexParts(idx))), entries |-> idx]
<1> DEFINE n == Len(idx)
           ss == IndexParts(idx)
           st(i) == FlatStart(ss, i)
           Want(i) == [ok |-> TRUE, pos |-> p + st(i), entries |-> SubSeq(idx, 1, i)]
<1>1. n \in Nat /\ Len(data) \in Nat
  BY LenProperties
<1>2. /\ ss \in Seq(Seq(u8)) /\ Len(ss) = n
      /\ \A i \in 1..n : ss[i] = IndexPart(idx[i]) /\ idx[i] \in Seq(u8) /\ Fits(Len(idx[i]))
  BY IndexPartsType, Zenon
<1> HIDE DEF ss
<1>3. /\ FlattenSeq(ss) \in Seq(u8) /\ st(0) = 0 /\ st(n) = Len(FlattenSeq(ss))
      /\ \A i \in 0..n : st(i) \in Nat
      /\ \A i \in 1..n : st(i) = st(i - 1) + Len(ss[i])
  <2>1. /\ FlattenSeq(ss) \in Seq(u8) /\ st(0) = 0 /\ st(Len(ss)) = Len(FlattenSeq(ss))
        /\ \A i \in 0..Len(ss) : st(i) \in Nat
        /\ \A i \in 1..Len(ss) : st(i) = st(i - 1) + Len(ss[i])
    BY <1>2, FlattenParts, Zenon
  <2> QED
    BY <1>2, <2>1, Zenon
<1>4. Holds(data, p, FlattenSeq(ss))
  BY DEF ss
<1>5. p \in Nat /\ p \in 0..Len(data)
  <2>1. p \in Nat /\ p + Len(FlattenSeq(ss)) <= Len(data) /\ Len(FlattenSeq(ss)) \in Nat
    BY <1>3, <1>4, LenProperties DEF Holds
  <2> QED
    BY <1>1, <2>1
<1>6. PICK f : IsIndexRun(f, n, p) /\ ReadIndex(n, p) = f[n]
  BY <1>1, <1>5, ReadIndexRun
<1>7. /\ f[0] = [ok |-> TRUE, pos |-> p, entries |-> <<>>]
      /\ \A i \in 1..n : f[i] = ReadIndexEntry(f[i-1])
  BY <1>6 DEF IsIndexRun
<1> DEFINE S == {i \in Nat : i <= n => f[i] = Want(i)}
<1>8. 0 \in S
  <2>1. p + st(0) = p
    BY <1>3, <1>5
  <2>2. SubSeq(idx, 1, 0) = <<>>
    OBVIOUS
  <2>3. f[0] = Want(0)
    BY <1>7, <2>1, <2>2, Zenon
  <2> QED
    BY <2>3
<1>9. ASSUME NEW i \in Nat, i \in S PROVE i + 1 \in S
  <2> SUFFICES ASSUME i + 1 <= n PROVE f[i + 1] = Want(i + 1)
    OBVIOUS
  <2>1. i <= n /\ i + 1 \in 1..n /\ (i + 1) - 1 = i /\ i \in 0..n /\ i + 1 \in 0..n
    BY <1>1
  <2>2. f[i] = Want(i)
    BY <1>9, <2>1
  <2>3. f[i].ok = TRUE /\ f[i].pos = p + st(i) /\ f[i].entries = SubSeq(idx, 1, i)
    BY <2>2
  <2>4. Holds(data, p + st(i), IndexPart(idx[i + 1]))
    <3>1. Holds(data, p + FlatStart(ss, (i + 1) - 1), ss[i + 1])
      BY <1>2, <1>4, <2>1, HoldsFlat, Zenon
    <3> QED
      BY <1>2, <2>1, <3>1, Zenon
  <2>5. ReadIndexEntry(f[i]) =
           [ok |-> TRUE, pos |-> (p + st(i)) + Len(IndexPart(idx[i + 1])),
            entries |-> Append(f[i].entries, idx[i + 1])]
    <3>1. Holds(data, f[i].pos, IndexPart(idx[i + 1]))
      BY <2>3, <2>4, Zenon
    <3>2. AddsToIndex(f[i], idx[i + 1])
      BY <1>2, <2>1, <2>3, <3>1, ReadIndexPart, Zenon
    <3> QED
      BY <2>3, <3>2, Zenon DEF AddsToIndex
  <2>6. (p + st(i)) + Len(IndexPart(idx[i + 1])) = p + st(i + 1)
    <3>1. st(i + 1) = st(i) + Len(ss[i + 1])
      BY <1>3, <2>1, Zenon
    <3>2. ss[i + 1] = IndexPart(idx[i + 1])
      BY <1>2, <2>1, Zenon
    <3>3. st(i) \in Nat /\ ss[i + 1] \in Seq(u8)
      BY <1>2, <1>3, <2>1, ElementOfSeq, Zenon
    <3>4. Len(ss[i + 1]) \in Nat
      BY <3>3, LenProperties
    <3> DEFINE x == Len(ss[i + 1])
               y == st(i)
    <3>5. (p + y) + x = p + (y + x)
      <4> HIDE DEF x, y
      <4>1. x \in Nat /\ y \in Nat
        BY <3>3, <3>4 DEF x, y
      <4> QED
        BY <1>5, <4>1
    <3> QED
      BY <3>1, <3>2, <3>5, Zenon
  <2>7. Append(SubSeq(idx, 1, i), idx[i + 1]) = SubSeq(idx, 1, i + 1)
    <3>1. 0 \in Nat /\ 0 <= i /\ 0 + 1 = 1
      OBVIOUS
    <3>2. Append(SubSeq(idx, 0 + 1, i), idx[i + 1]) = SubSeq(idx, 0 + 1, i + 1)
      BY <3>1, PrefixGrows, Zenon
    <3> QED
      BY <3>1, <3>2, Zenon
  <2>8. f[i + 1] = ReadIndexEntry(f[i])
    BY <1>7, <2>1, Zenon
  <2> QED
    BY <2>3, <2>5, <2>6, <2>7, <2>8, Zenon
<1>10. n \in S
  <2> HIDE DEF S
  <2> QED
    BY <1>1, <1>8, <1>9, NatSetInduction
<1>11. f[n] = Want(n)
  BY <1>1, <1>10
<1>12. SubSeq(idx, 1, n) = idx
  BY HoldsSelf, HoldsSlice, <1>1
<1> QED
  BY <1>3, <1>6, <1>11, <1>12, Zenon DEF ss

(* The entries behind the index are byte strings.                          *)
LEMMA EntriesType ==
    ASSUME NEW idx \in Seq(Seq(u8)), NEW bs \in Seq(Seq(u8)), Encodable(idx, bs)
    PROVE  /\ Entries(idx, bs) \in Seq(Seq(u8))
           /\ Len(Entries(idx, bs)) = Len(bs)
           /\ \A i \in 1..Len(bs) : /\ Entries(idx, bs)[i] = Entry(idx, bs[i])
                                    /\ bs[i] \in Seq(u8) /\ Fits(EntryNumber(idx, bs[i]))
<1>1. Len(bs) \in Nat /\ DOMAIN bs = 1..Len(bs)
  BY LenProperties
<1>2. ASSUME NEW i \in 1..Len(bs)
      PROVE  bs[i] \in Seq(u8) /\ Fits(EntryNumber(idx, bs[i])) /\ Entry(idx, bs[i]) \in Seq(u8)
  <2>1. bs[i] \in Seq(u8)
    BY ElementOfSeq
  <2>2. Fits(EntryNumber(idx, bs[i]))
    BY <1>1, Zenon DEF Encodable
  <2> QED
    BY <2>1, <2>2, EntryParts, Zenon
<1>3. Entries(idx, bs) = [i \in 1..Len(bs) |-> Entry(idx, bs[i])]
  BY <1>1, Zenon DEF Entries
<1>4. [i \in 1..Len(bs) |-> Entry(idx, bs[i])] \in [1..Len(bs) -> Seq(u8)]
  BY <1>2, Zenon
<1>5. Entries(idx, bs) \in Seq(Seq(u8)) /\ Len(Entries(idx, bs)) = Len(bs)
  <2> DEFINE f == Entries(idx, bs)
             n == Len(bs)
             T == Seq(u8)
  <2>1. f \in [1..n -> T] /\ n \in Nat
    BY <1>1, <1>3, <1>4, Zenon
  <2> HIDE DEF f, n, T
  <2>2. f \in Seq(T) /\ Len(f) = n
    BY <2>1, FunctionIsSeq
  <2> QED
    BY <2>2, Zenon DEF f, n, T
<1>6. ASSUME NEW i \in 1..Len(bs) PROVE Entries(idx, bs)[i] = Entry(idx, bs[i])
  BY <1>3, Zenon
<1> QED
  BY <1>2, <1>5, <1>6, Zenon

(* What encode_blobs returns: a number, the index, the entries.            *)
LEMMA EncodedParts ==
    ASSUME NEW idx \in Seq(Seq(u8)), NEW bs \in Seq(Seq(u8)), Encodable(idx, bs)
    PROVE  /\ encode_blobs(idx, bs) =
                 Cat(Cat(encode_vlq(Len(idx)), FlattenSeq(IndexParts(idx))),
                     FlattenSeq(Entries(idx, bs)))
           /\ encode_vlq(Len(idx)) \in Seq(u8)
           /\ FlattenSeq(IndexParts(idx)) \in Seq(u8)
           /\ FlattenSeq(Entries(idx, bs)) \in Seq(u8)
           /\ Cat(encode_vlq(Len(idx)), FlattenSeq(IndexParts(idx))) \in Seq(u8)
           /\ encode_blobs(idx, bs) \in Seq(u8)
<1> DEFINE e == encode_vlq(Len(idx))
           F1 == FlattenSeq(IndexParts(idx))
           F2 == FlattenSeq(Entries(idx, bs))
<1>1. encode_blobs(idx, bs) = Cat(Cat(e, F1), F2)
  BY Zenon DEF encode_blobs, IndexParts, IndexPart, Entries, Cat
<1>2. Len(idx) \in Nat
  BY LenProperties
<1>3. e \in Seq(u8)
  BY <1>2, EncodeBytes DEF Encodable
<1>4. \A i \in DOMAIN idx : Fits(Len(idx[i]))
  BY DEF Encodable
<1>5. IndexParts(idx) \in Seq(Seq(u8))
  BY <1>4, IndexPartsType, Zenon
<1>6. Entries(idx, bs) \in Seq(Seq(u8))
  BY EntriesType, Zenon
<1>7. F1 \in Seq(u8)
  BY <1>5, FlattenParts, Zenon
<1>8. F2 \in Seq(u8)
  BY <1>6, FlattenParts, Zenon
<1>9. Cat(e, F1) \in Seq(u8)
  BY <1>3, <1>7, CatParts, Zenon
<1>10. Cat(Cat(e, F1), F2) \in Seq(u8)
  BY <1>8, <1>9, CatParts, Zenon
<1> QED
  BY <1>1, <1>3, <1>7, <1>8, <1>9, <1>10, Zenon

(* new() accepts it and finds the index, and the entries behind it.        *)
LEMMA NewReads ==
    ASSUME NEW idx \in Seq(Seq(u8)), NEW bs \in Seq(Seq(u8)), Encodable(idx, bs),
           data = encode_blobs(idx, bs)
    PROVE  LET n == read_vlq(data, 0)
               index == ReadIndex(n.val, n.pos)
           IN  /\ n.res = "ok" /\ index.ok = TRUE /\ index.entries = idx
               /\ SubSeq(data, index.pos + 1, Len(data)) = FlattenSeq(Entries(idx, bs))
<1> DEFINE e == encode_vlq(Len(idx))
           F1 == FlattenSeq(IndexParts(idx))
           F2 == FlattenSeq(Entries(idx, bs))
           E1 == Cat(e, F1)
           n == read_vlq(data, 0)
           le == Len(e)
           l1 == Len(F1)
           l2 == Len(F2)
           q == Len(E1)
<1>1. /\ data = Cat(E1, F2) /\ e \in Seq(u8) /\ F1 \in Seq(u8) /\ F2 \in Seq(u8)
      /\ E1 \in Seq(u8) /\ data \in Seq(u8)
  BY EncodedParts, Zenon
<1>2. Holds(data, 0, Cat(E1, F2))
  BY <1>1, HoldsSelf, Zenon
<1>3. /\ Holds(data, 0, E1) /\ Holds(data, 0 + q, F2)
      /\ q \in Nat /\ l2 \in Nat /\ Len(data) = q + l2
  <2>1. HoldsBoth(data, 0, E1, F2)
    BY <1>1, <1>2, HoldsCat, Zenon
  <2> QED
    BY <1>1, <2>1, Zenon DEF HoldsBoth
<1>4. /\ Holds(data, 0, e) /\ Holds(data, 0 + le, F1)
      /\ le \in Nat /\ l1 \in Nat /\ q = le + l1
  <2>1. HoldsBoth(data, 0, e, F1)
    BY <1>1, <1>3, HoldsCat, Zenon
  <2> QED
    BY <2>1, Zenon DEF HoldsBoth
<1>5. Len(idx) \in Nat /\ Fits(Len(idx)) /\ \A i \in DOMAIN idx : Fits(Len(idx[i]))
  BY LenProperties DEF Encodable
<1>6. n = [res |-> "ok", val |-> Len(idx), pos |-> 0 + le]
  BY <1>1, <1>4, <1>5, ReadHolds, Zenon
<1>7. ReadIndex(Len(idx), 0 + le) = [ok |-> TRUE, pos |-> (0 + le) + l1, entries |-> idx]
  BY <1>1, <1>4, <1>5, ReadWholeIndex, Zenon
<1>8. n.res = "ok" /\ n.val = Len(idx) /\ n.pos = 0 + le
  BY <1>6
<1>9. (0 + le) + l1 = q /\ 0 + q = q
  <2> HIDE DEF le, l1, q
  <2> QED
    BY <1>3, <1>4
<1>10. SubSeq(data, q + 1, Len(data)) = F2
  <2>1. SubSeq(data, (0 + q) + 1, (0 + q) + l2) = F2
    BY <1>1, <1>3, HoldsSlice, Zenon
  <2> QED
    BY <1>3, <1>9, <2>1, Zenon
<1>11. ReadIndex(n.val, n.pos) = [ok |-> TRUE, pos |-> q, entries |-> idx]
  BY <1>7, <1>8, <1>9, Zenon
<1>12. /\ ReadIndex(n.val, n.pos).ok = TRUE
       /\ ReadIndex(n.val, n.pos).pos = q
       /\ ReadIndex(n.val, n.pos).entries = idx
  <2> HIDE DEF n, q
  <2> QED
    BY <1>11
<1> QED
  BY <1>8, <1>10, <1>12, Zenon

(* The fields of what ReadGroup returns.                                   *)
GroupOf(a, b, c) == [res |-> a, blobs |-> b, pos |-> c]
HasFields(r, a, b, c) == r.res = a /\ r.blobs = b /\ r.pos = c

(* A record has the fields it is made of.                                  *)
LEMMA GroupFields ==
    \A a, b, c : HasFields(GroupOf(a, b, c), a, b, c)
BY DEF GroupOf, HasFields

(* What a call of next() returns behind the first m blobs.                 *)
GroupRead(bs, m) ==
    LET st(i) == FlatStart(Entries(dedup, bs), i)
    IN  /\ m + group <= Len(bs) =>
              ReadGroup = [res |-> "ok", blobs |-> SubSeq(bs, m + 1, m + group),
                           pos |-> st(m + group)]
        /\ m < Len(bs) /\ Len(bs) < m + group =>
              ReadGroup = [res |-> "NotEnoughElements", blobs |-> <<>>, pos |-> Len(rest)]
        /\ m = Len(bs) =>
              ReadGroup.res = "None" /\ ReadGroup.pos = Len(rest) /\ pos = Len(rest)

(* The next group, an incomplete last group, or the end.                   *)
LEMMA GroupReads ==
    ASSUME NEW bs \in Seq(Seq(u8)), dedup \in Seq(Seq(u8)), Encodable(dedup, bs),
           rest = FlattenSeq(Entries(dedup, bs)), group \in Nat \ {0},
           NEW m \in 0..Len(bs), pos = FlatStart(Entries(dedup, bs), m)
    PROVE  GroupRead(bs, m)
<1> DEFINE ss == Entries(dedup, bs)
           n == Len(bs)
           st(i) == FlatStart(ss, i)
           Want(i) == [res |-> "ok", blobs |-> SubSeq(bs, m + 1, m + i), pos |-> st(m + i)]
<1>1. n \in Nat /\ m \in Nat /\ m <= n
  <2>1. n \in Nat
    BY LenProperties
  <2> QED
    BY <2>1
<1>2. /\ ss \in Seq(Seq(u8)) /\ Len(ss) = n
      /\ \A i \in 1..n : /\ ss[i] = Entry(dedup, bs[i])
                         /\ bs[i] \in Seq(u8) /\ Fits(EntryNumber(dedup, bs[i]))
  BY EntriesType, Zenon
<1>3. rest = FlattenSeq(ss) /\ pos = st(m)
  OBVIOUS
<1> HIDE DEF ss
<1>4. /\ rest \in Seq(u8) /\ st(n) = Len(rest)
      /\ \A i \in 0..n : st(i) \in Nat /\ st(i) <= Len(rest)
      /\ \A i \in 1..n : st(i) = st(i - 1) + Len(ss[i])
  <2>1. /\ FlattenSeq(ss) \in Seq(u8) /\ st(Len(ss)) = Len(FlattenSeq(ss))
        /\ \A i \in 0..Len(ss) : st(i) \in Nat /\ st(i) <= Len(FlattenSeq(ss))
        /\ \A i \in 1..Len(ss) : st(i) = st(i - 1) + Len(ss[i])
    BY <1>2, FlattenParts, Zenon
  <2> QED
    BY <1>2, <1>3, <2>1, Zenon
<1>5. Holds(rest, 0, FlattenSeq(ss))
  BY <1>3, <1>4, HoldsSelf, Zenon
<1>6. pos \in 0..Len(rest)
  BY <1>3, <1>4, LenProperties
<1>7. PICK f : IsGroupRun(f) /\ ReadGroup = f[group]
  BY <1>4, <1>6, ReadGroupRun
<1>8. /\ f[0] = [res |-> "ok", blobs |-> <<>>, pos |-> pos]
      /\ \A i \in 1..group : f[i] = ReadNext(f[i-1])
  BY <1>7 DEF IsGroupRun
<1>9. ASSUME NEW i \in 1..n PROVE Read(st(i - 1)) = [res |-> "ok", blob |-> bs[i], pos |-> st(i)]
  <2>1. Holds(rest, 0 + st(i - 1), Entry(dedup, bs[i]))
    <3>1. Holds(rest, 0 + FlatStart(ss, i - 1), ss[i])
      BY <1>2, <1>4, <1>5, HoldsFlat, Zenon
    <3> QED
      BY <1>2, <3>1, Zenon
  <2>2. st(i - 1) \in Nat
    <3>1. i - 1 \in 0..n
      BY <1>1
    <3> QED
      BY <1>4, <3>1, Zenon
  <2>3. 0 + st(i - 1) = st(i - 1)
    <3> HIDE DEF st
    <3> QED
      BY <2>2
  <2>4. Read(st(i - 1)) =
           [res |-> "ok", blob |-> bs[i], pos |-> st(i - 1) + Len(Entry(dedup, bs[i]))]
    BY <1>2, <1>4, <2>1, <2>3, ReadEntry, Zenon
  <2> QED
    BY <1>2, <1>4, <2>4, Zenon
<1> DEFINE S == {i \in Nat : i <= group /\ m + i <= n => f[i] = Want(i)}
<1>10. 0 \in S
  <2>1. m + 0 = m
    BY <1>1
  <2>2. SubSeq(bs, m + 1, m) = <<>>
    <3>1. SubSeq(bs, m + 1, m) \in Seq(Seq(u8)) /\ Len(SubSeq(bs, m + 1, m)) = m - m
      BY <1>1, SliceElements
    <3>2. Len(SubSeq(bs, m + 1, m)) = 0
      BY <1>1, <3>1
    <3> QED
      BY <3>1, <3>2, EmptySeq
  <2>3. f[0] = Want(0)
    BY <1>3, <1>8, <2>1, <2>2, Zenon
  <2> QED
    BY <2>3
<1>11. ASSUME NEW i \in Nat, i \in S PROVE i + 1 \in S
  <2> SUFFICES ASSUME i + 1 <= group, m + (i + 1) <= n PROVE f[i + 1] = Want(i + 1)
    OBVIOUS
  <2>1. /\ i <= group /\ m + i <= n /\ i + 1 \in 1..group /\ (i + 1) - 1 = i
        /\ m + (i + 1) \in 1..n /\ (m + (i + 1)) - 1 = m + i /\ m + i \in Nat
        /\ m <= m + i /\ (m + i) + 1 = m + (i + 1) /\ (m + i) + 1 <= n
    BY <1>1
  <2>2. f[i] = Want(i)
    BY <1>11, <2>1
  <2>3. f[i].res = "ok" /\ f[i].blobs = SubSeq(bs, m + 1, m + i) /\ f[i].pos = st(m + i)
    <3>1. f[i] = GroupOf("ok", SubSeq(bs, m + 1, m + i), st(m + i))
      BY <2>2, Zenon DEF GroupOf
    <3>2. HasFields(f[i], "ok", SubSeq(bs, m + 1, m + i), st(m + i))
      BY <3>1, GroupFields, Zenon
    <3> QED
      BY <3>2, Zenon DEF HasFields
  <2>4. Read(st(m + i)) = [res |-> "ok", blob |-> bs[m + (i + 1)], pos |-> st(m + (i + 1))]
    BY <1>9, <2>1, Zenon
  <2>5. /\ Read(f[i].pos).res = "ok" /\ Read(f[i].pos).blob = bs[m + (i + 1)]
        /\ Read(f[i].pos).pos = st(m + (i + 1))
    BY <2>3, <2>4
  <2>6. f[i + 1] = ReadNext(f[i])
    BY <1>8, <2>1, Zenon
  <2>7. ReadNext(f[i]) = [res |-> "ok", blobs |-> Append(f[i].blobs, Read(f[i].pos).blob),
                          pos |-> Read(f[i].pos).pos]
    BY <2>3, <2>5, Zenon DEF ReadNext
  <2>8. Append(SubSeq(bs, m + 1, m + i), bs[(m + i) + 1]) = SubSeq(bs, m + 1, (m + i) + 1)
    BY <1>1, <2>1, PrefixGrows, Zenon
  <2> QED
    BY <2>1, <2>3, <2>5, <2>6, <2>7, <2>8, Zenon
<1>12. \A i \in Nat : i \in S
  <2> HIDE DEF S
  <2> QED
    BY <1>10, <1>11, NatSetInduction
<1>13. ASSUME m + group <= n PROVE ReadGroup = Want(group)
  <2>1. group \in Nat /\ group <= group
    OBVIOUS
  <2> QED
    BY <1>7, <1>12, <1>13, <2>1, Zenon
<1>14. ASSUME m < n, n < m + group
       PROVE  ReadGroup = [res |-> "NotEnoughElements", blobs |-> <<>>, pos |-> Len(rest)]
  <2> DEFINE k == n - m
             Short == [res |-> "NotEnoughElements", blobs |-> <<>>, pos |-> Len(rest)]
             N == {i \in Nat : (k + 1) + i <= group => f[(k + 1) + i] = Short}
  <2>1. k \in Nat /\ k >= 1 /\ k <= group /\ m + k = n /\ k + 1 <= group /\ m <= n
    BY <1>1, <1>14
  <2> HIDE DEF k
  <2>2. f[k] = Want(k)
    <3>1. m + k <= n
      BY <1>1, <2>1
    <3> QED
      BY <1>12, <2>1, <3>1, Zenon
  <2>3. f[k].res = "ok" /\ f[k].blobs = SubSeq(bs, m + 1, n) /\ f[k].pos = Len(rest)
    <3>1. f[k].res = "ok" /\ f[k].blobs = SubSeq(bs, m + 1, m + k) /\ f[k].pos = st(m + k)
      <4>1. f[k] = GroupOf("ok", SubSeq(bs, m + 1, m + k), st(m + k))
        BY <2>2, Zenon DEF GroupOf
      <4>2. HasFields(f[k], "ok", SubSeq(bs, m + 1, m + k), st(m + k))
        BY <4>1, GroupFields, Zenon
      <4> QED
        BY <4>2, Zenon DEF HasFields
    <3> QED
      BY <1>4, <2>1, <3>1, Zenon
  <2>4. f[k].blobs # <<>>
    <3>1. Len(SubSeq(bs, m + 1, n)) = n - m
      BY <1>1, SliceElements
    <3>2. Len(SubSeq(bs, m + 1, n)) # 0
      BY <1>1, <1>14, <3>1
    <3>3. Len(<<>>) = 0
      OBVIOUS
    <3> QED
      BY <2>3, <3>2, <3>3, Zenon
  <2>5. Read(Len(rest)).res = "None" /\ Read(Len(rest)).pos = Len(rest)
    <3>1. Len(rest) \in Nat /\ Len(rest) \in 0..Len(rest)
      BY <1>4, LenProperties
    <3> QED
      BY <1>4, <3>1, ReadType
  <2>6. ReadNext(f[k]) = [res |-> "NotEnoughElements", blobs |-> <<>>,
                          pos |-> error_block(Read(f[k].pos).pos)]
    <3>1. Read(f[k].pos).res = "None" /\ "None" # "ok"
      BY <2>3, <2>5
    <3> QED
      BY <2>3, <2>4, <3>1, Zenon DEF ReadNext
  <2>7. ReadNext(f[k]) = Short
    BY <2>6 DEF error_block
  <2>8. 0 \in N
    <3>1. (k + 1) + 0 \in 1..group /\ (k + 1) + 0 = k + 1 /\ (k + 1) - 1 = k
      BY <2>1
    <3>2. f[(k + 1) + 0] = Short
      BY <1>8, <2>7, <3>1, Zenon
    <3> QED
      BY <3>2
  <2>9. ASSUME NEW i \in Nat, i \in N PROVE i + 1 \in N
    <3> SUFFICES ASSUME (k + 1) + (i + 1) <= group PROVE f[(k + 1) + (i + 1)] = Short
      OBVIOUS
    <3>1. /\ (k + 1) + i <= group /\ (k + 1) + (i + 1) \in 1..group
          /\ ((k + 1) + (i + 1)) - 1 = (k + 1) + i
      BY <2>1
    <3>2. f[(k + 1) + i] = Short
      BY <2>9, <3>1
    <3>3. f[(k + 1) + (i + 1)] = ReadNext(f[(k + 1) + i])
      BY <1>8, <3>1, Zenon
    <3>4. f[(k + 1) + i].res # "ok"
      BY <3>2
    <3>5. ReadNext(f[(k + 1) + i]) = f[(k + 1) + i]
      BY <3>4, Zenon DEF ReadNext
    <3> QED
      BY <3>2, <3>3, <3>5, Zenon
  <2>10. \A i \in Nat : i \in N
    <3> HIDE DEF N
    <3> QED
      BY <2>8, <2>9, NatSetInduction
  <2>11. group - (k + 1) \in N /\ (k + 1) + (group - (k + 1)) = group
    <3> HIDE DEF N
    <3> QED
      BY <2>1, <2>10
  <2>12. f[group] = Short
    BY <2>11
  <2> QED
    BY <1>7, <2>12
<1>15. ASSUME m = n
       PROVE  ReadGroup.res = "None" /\ ReadGroup.pos = Len(rest) /\ pos = Len(rest)
  <2>1. pos = Len(rest)
    BY <1>3, <1>4, <1>15, Zenon
  <2>2. ReadGroup.res = "None" /\ ReadGroup \in GroupState
    BY <1>4, <1>6, <2>1, ReadGroupType
  <2> QED
    BY <2>1, <2>2 DEF GroupState, Failures
<1> QED
  BY <1>13, <1>14, <1>15, Zenon DEF GroupRead, ss

-----------------------------------------------------------------------------
(* The inductive invariant: what an iterator has read, whatever the data,  *)
(* and how far it is in data that encode_blobs wrote.                      *)
Item == [res : Errors \cup {"ok"}, blobs : Seq(Seq(u8))]
Whole(item, k) ==
    \/ item.res \in Errors /\ item.blobs = <<>>
    \/ item.res = "ok" /\ Len(item.blobs) = k

Types ==
    /\ phase \in {"start", "data", "reading", "ended", "refused", "panic"}
    /\ encoded \in BOOLEAN
    /\ data \in Seq(u8) /\ rest \in Seq(u8) /\ dedup \in Seq(Seq(u8))
    /\ group \in Nat \ {0} /\ pos \in 0..Len(rest)
    /\ items \in Seq(Item)
    /\ \A i \in 1..Len(items) : Whole(items[i], group)

Order ==
    /\ phase \in {"start", "data"} =>
          items = <<>> /\ rest = <<>> /\ dedup = <<>> /\ pos = 0
    /\ phase = "start" => ~encoded
    /\ phase = "ended" => pos = Len(rest)
    /\ \A i \in 1..Len(items) : items[i].res \in Errors => i = Len(items) /\ pos = Len(rest)

(* n whole groups are read, and either nothing else or the complaint.      *)
GroupItem(i) == [res |-> "ok", blobs |-> SubSeq(blobs, (i - 1) * group + 1, (i - 1) * group + group)]
Progress(n) ==
    /\ n * group <= Len(blobs) /\ n <= Len(items)
    /\ \A i \in 1..n : items[i] = GroupItem(i)
    /\ \/ /\ Len(items) = n /\ pos = FlatStart(Entries(dedup, blobs), n * group)
          /\ phase = "ended" => n * group = Len(blobs)
       \/ /\ Len(items) = n + 1 /\ items[n + 1].res = "NotEnoughElements"
          /\ pos = Len(rest)
          /\ n * group < Len(blobs) /\ Len(blobs) < n * group + group

Decodes ==
    /\ blobs \in Seq(Seq(u8)) /\ Encodable(Index(blobs), blobs)
    /\ idx_len = Len(Index(blobs)) /\ data = encode_blobs(Index(blobs), blobs)
    /\ phase \in {"data", "reading", "ended"}
    /\ phase # "data" =>
          /\ dedup = Index(blobs) /\ rest = FlattenSeq(Entries(dedup, blobs))
          /\ \E n \in Nat : Progress(n)

BlobbyInv == Types /\ Order /\ (encoded => Decodes)

(* The state before anything is read.                                      *)
LEMMA FreshInv ==
    ASSUME phase = "start", ~encoded, encoded \in BOOLEAN, data = <<>>, rest = <<>>,
           dedup = <<>>, pos = 0, group = 1, items = <<>>
    PROVE  BlobbyInv
<1>1. Len(<<>>) = 0 /\ <<>> \in Seq(u8) /\ <<>> \in Seq(Seq(u8)) /\ <<>> \in Seq(Item)
  OBVIOUS
<1>2. Types
  BY <1>1 DEF Types
<1>3. Order
  BY <1>1 DEF Order
<1> QED
  BY <1>2, <1>3 DEF BlobbyInv

(* encode_blobs of any blobs.                                              *)
LEMMA EncodesInv ==
    ASSUME BlobbyInv, phase = "start", NEW bs \in Seq(Seq(u8)), Encodes(bs)
    PROVE  BlobbyInv'
<1> DEFINE idx == Index(bs)
<1>1. Types /\ Order /\ ~encoded
  BY DEF BlobbyInv, Order
<1>2. /\ items = <<>> /\ rest = <<>> /\ dedup = <<>> /\ pos = 0
      /\ items' = items /\ rest' = rest /\ dedup' = dedup /\ pos' = pos /\ group' = group
  BY <1>1 DEF Order, Encodes
<1>3. Len(<<>>) = 0
  OBVIOUS
<1>4. blobs' = bs
  BY DEF Encodes
<1>5. idx \in Seq(Seq(u8))
  BY IndexType
<1>6. CASE Encodable(idx, bs)
  <2>1. /\ phase' = "data" /\ encoded' = TRUE
        /\ idx_len' = Len(idx) /\ data' = encode_blobs(idx, bs)
    BY <1>6, Zenon DEF Encodes
  <2>2. encode_blobs(idx, bs) \in Seq(u8)
    BY <1>5, <1>6, EncodedParts, Zenon
  <2>3. Types'
    BY <1>1, <1>2, <2>1, <2>2 DEF Types
  <2>4. Order'
    BY <1>2, <1>3, <2>1 DEF Order
  <2>5. Decodes'
    BY <1>4, <1>6, <2>1, Zenon DEF Decodes
  <2> QED
    BY <2>3, <2>4, <2>5 DEF BlobbyInv
<1>7. CASE ~Encodable(idx, bs)
  <2>1. phase' = "panic" /\ encoded' = encoded /\ data' = data
    BY <1>7 DEF Encodes
  <2>2. Types'
    BY <1>1, <1>2, <2>1 DEF Types
  <2>3. Order'
    BY <1>2, <1>3, <2>1 DEF Order
  <2> QED
    BY <1>1, <2>1, <2>2, <2>3 DEF BlobbyInv
<1> QED
  BY <1>6, <1>7

(* Any bytes.                                                              *)
LEMMA ForeignInv ==
    ASSUME BlobbyInv, NEW d \in Seq(u8), Foreign(d)
    PROVE  BlobbyInv'
<1>1. /\ phase = "start" /\ phase' = "data" /\ data' = d
      /\ encoded' = encoded /\ rest' = rest /\ dedup' = dedup /\ pos' = pos
      /\ group' = group /\ items' = items
  BY DEF Foreign
<1>2. Types /\ Order
  BY DEF BlobbyInv
<1>3. Types'
  BY <1>1, <1>2 DEF Types
<1>4. Order' /\ ~encoded
  BY <1>1, <1>2 DEF Order
<1> QED
  BY <1>1, <1>3, <1>4 DEF BlobbyInv

(* The caller starts anew.                                                 *)
LEMMA CloseInv ==
    ASSUME Close
    PROVE  BlobbyInv'
<1>1. /\ phase' = "start" /\ ~encoded' /\ encoded' \in BOOLEAN /\ data' = <<>> /\ rest' = <<>>
      /\ dedup' = <<>> /\ pos' = 0 /\ group' = 1 /\ items' = <<>>
  BY DEF Close
<1>2. Len(<<>>) = 0 /\ <<>> \in Seq(u8) /\ <<>> \in Seq(Seq(u8)) /\ <<>> \in Seq(Item)
  OBVIOUS
<1>3. Types'
  BY <1>1, <1>2 DEF Types, Item
<1>4. Order'
  BY <1>1, <1>2 DEF Order
<1> QED
  BY <1>1, <1>3, <1>4 DEF BlobbyInv

(* new().                                                                  *)
LEMMA NewInv ==
    ASSUME BlobbyInv, NEW k \in Nat \ {0}, New(k)
    PROVE  BlobbyInv'
<1> DEFINE n == read_vlq(data, 0)
           index == ReadIndex(n.val, n.pos)
           r == SubSeq(data, index.pos + 1, Len(data))
<1>1. Types /\ Order
  BY DEF BlobbyInv
<1>2. /\ phase = "data" /\ group' = k
      /\ blobs' = blobs /\ encoded' = encoded /\ idx_len' = idx_len /\ data' = data
      /\ pos' = pos /\ items' = items
      /\ IF n.res # "ok"
         THEN phase' = "refused" /\ UNCHANGED <<rest, dedup>>
         ELSE IF ~index.ok
         THEN phase' = "panic" /\ UNCHANGED <<rest, dedup>>
         ELSE phase' = "reading" /\ rest' = r /\ dedup' = index.entries
  BY Zenon DEF New
<1>3. /\ items = <<>> /\ rest = <<>> /\ dedup = <<>> /\ pos = 0 /\ data \in Seq(u8)
      /\ encoded \in BOOLEAN
  BY <1>1, <1>2 DEF Types, Order
<1>4. Len(<<>>) = 0 /\ <<>> \in Seq(u8) /\ <<>> \in Seq(Seq(u8)) /\ <<>> \in Seq(Item)
  OBVIOUS
<1>5. encoded =>
         /\ blobs \in Seq(Seq(u8)) /\ Encodable(Index(blobs), blobs)
         /\ idx_len = Len(Index(blobs)) /\ data = encode_blobs(Index(blobs), blobs)
  BY DEF BlobbyInv, Decodes
<1>6. encoded => n.res = "ok" /\ index.ok = TRUE /\ index.entries = Index(blobs)
                    /\ r = FlattenSeq(Entries(Index(blobs), blobs))
  <2> SUFFICES ASSUME encoded
               PROVE  n.res = "ok" /\ index.ok = TRUE /\ index.entries = Index(blobs)
                        /\ r = FlattenSeq(Entries(Index(blobs), blobs))
    OBVIOUS
  <2>1. Index(blobs) \in Seq(Seq(u8))
    BY <1>5, IndexType
  <2> QED
    BY <1>5, <2>1, NewReads, Zenon
<1>7. CASE n.res # "ok" \/ ~index.ok
  <2>1. phase' \in {"refused", "panic"} /\ rest' = rest /\ dedup' = dedup
    BY <1>2, <1>7
  <2>2. Types'
    BY <1>2, <1>3, <1>4, <2>1 DEF Types
  <2>3. Order'
    BY <1>2, <1>3, <1>4, <2>1 DEF Order
  <2>4. ~encoded
    BY <1>6, <1>7
  <2> QED
    BY <1>2, <2>2, <2>3, <2>4 DEF BlobbyInv
<1>8. CASE n.res = "ok" /\ index.ok
  <2>1. phase' = "reading" /\ rest' = r /\ dedup' = index.entries
    BY <1>2, <1>8, Zenon
  <2>2. n.val \in Nat /\ n.pos \in 0..Len(data) /\ Len(data) \in Nat
    <3>1. Len(data) \in Nat /\ 0 \in 0..Len(data)
      BY <1>3, LenProperties
    <3> QED
      BY <1>3, <3>1, ReadVlqType
  <2>3. index \in IndexState
    <3>1. PICK f : IsIndexRun(f, n.val, n.pos) /\ index = f[n.val]
      BY <1>3, <2>2, ReadIndexRun, Zenon
    <3>2. n.val \in 0..n.val
      <4> HIDE DEF n
      <4> QED
        BY <2>2
    <3> QED
      BY <3>1, <3>2, Zenon DEF IsIndexRun
  <2>4. index.pos \in 0..Len(data) /\ index.entries \in Seq(Seq(u8))
    <3> HIDE DEF index
    <3> QED
      BY <2>3 DEF IndexState
  <2>5. r \in Seq(u8) /\ Len(r) \in Nat
    <3>1. index.pos \in Nat /\ index.pos <= Len(data)
      <4> HIDE DEF index
      <4> QED
        BY <2>2, <2>4
    <3>2. Len(data) <= Len(data)
      BY <2>2
    <3>3. r \in Seq(u8)
      BY <1>3, <2>2, <3>1, <3>2, SliceElements, Zenon
    <3> QED
      BY <3>3, LenProperties
  <2> HIDE DEF r, index, n
  <2>6. Types'
    BY <1>2, <1>3, <1>4, <2>1, <2>4, <2>5 DEF Types
  <2>7. Order'
    BY <1>2, <1>3, <1>4, <2>1 DEF Order
  <2>8. ASSUME encoded PROVE Decodes'
    <3>1. /\ blobs' \in Seq(Seq(u8)) /\ Encodable(Index(blobs'), blobs')
          /\ idx_len' = Len(Index(blobs')) /\ data' = encode_blobs(Index(blobs'), blobs')
          /\ phase' \in {"data", "reading", "ended"}
      BY <1>2, <1>5, <2>1, <2>8
    <3>2. dedup' = Index(blobs') /\ rest' = FlattenSeq(Entries(dedup', blobs'))
      BY <1>2, <1>6, <2>1, <2>8
    <3>3. Progress(0)'
      <4>1. 0 * group' = 0 /\ 0 <= Len(blobs') /\ Len(items') = 0 /\ pos' = 0
        <5>1. Len(blobs') \in Nat
          BY <3>1, LenProperties
        <5> QED
          BY <1>2, <1>3, <1>4, <5>1
      <4>2. Entries(dedup', blobs') \in Seq(Seq(u8))
        <5>1. dedup' \in Seq(Seq(u8)) /\ Encodable(dedup', blobs')
          BY <2>1, <2>4, <3>1, <3>2
        <5> QED
          BY <3>1, <5>1, EntriesType, Zenon
      <4>3. FlatStart(Entries(dedup', blobs'), 0) = 0
        BY <4>2, FlattenParts, Zenon
      <4>4. \A i \in 1..0 : FALSE
        OBVIOUS
      <4>5. phase' # "ended" /\ 0 <= 0
        BY <2>1
      <4> QED
        BY <4>1, <4>3, <4>4, <4>5, Zenon DEF Progress
    <3>4. 0 \in Nat
      OBVIOUS
    <3> QED
      BY <3>1, <3>2, <3>3, <3>4, Zenon DEF Decodes
  <2> QED
    BY <1>2, <2>6, <2>7, <2>8 DEF BlobbyInv
<1> QED
  BY <1>7, <1>8

(* next() keeps the types and the order.                                   *)
LEMMA IterNextTypes ==
    ASSUME Types, Order, IterNext
    PROVE  Types' /\ Order'
<1> DEFINE r == ReadGroup
           item == [res |-> r.res, blobs |-> r.blobs]
<1>1. /\ phase \in {"reading", "ended"} /\ pos' = r.pos
      /\ IF r.res \in {"None", "panic"}
         THEN phase' = (IF r.res = "None" THEN "ended" ELSE "panic") /\ UNCHANGED items
         ELSE items' = Append(items, item) /\ UNCHANGED phase
      /\ encoded' = encoded /\ data' = data /\ rest' = rest /\ dedup' = dedup /\ group' = group
  BY DEF IterNext
<1>2. /\ encoded \in BOOLEAN /\ data \in Seq(u8) /\ rest \in Seq(u8) /\ dedup \in Seq(Seq(u8))
      /\ group \in Nat \ {0} /\ pos \in 0..Len(rest)
      /\ items \in Seq(Item) /\ \A i \in 1..Len(items) : Whole(items[i], group)
  BY DEF Types
<1>3. /\ r \in GroupState
      /\ r.res = "ok" => Len(r.blobs) = group
      /\ pos = Len(rest) => r.res = "None"
  BY <1>2, ReadGroupType
<1> HIDE DEF r
<1>4. /\ r.res \in Failures \cup {"ok"} /\ r.blobs \in Seq(Seq(u8)) /\ r.pos \in 0..Len(rest)
      /\ r.res # "ok" => r.blobs = <<>>
      /\ r.res \in Failures \ {"panic"} => r.pos = Len(rest)
  BY <1>3 DEF GroupState
<1>5. \A i \in 1..Len(items) : items[i].res \in Errors => i = Len(items) /\ pos = Len(rest)
  BY DEF Order
<1>6. CASE r.res \in {"None", "panic"}
  <2>1. items' = items /\ phase' \in {"ended", "panic"} /\ (phase' = "ended" => r.res = "None")
    BY <1>1, <1>6
  <2>2. Types'
    BY <1>1, <1>2, <1>4, <2>1 DEF Types
  <2>3. phase' = "ended" => pos' = Len(rest')
    BY <1>1, <1>4, <2>1 DEF Failures
  <2>4. ASSUME NEW i \in 1..Len(items), items[i].res \in Errors
        PROVE  i = Len(items) /\ pos' = Len(rest)
    BY <1>1, <1>3, <1>4, <1>5, <2>4 DEF Failures
  <2>5. Order'
    BY <1>1, <2>1, <2>3, <2>4 DEF Order
  <2> QED
    BY <2>2, <2>5
<1>7. CASE r.res \notin {"None", "panic"}
  <2>1. items' = Append(items, item) /\ phase' = phase
    BY <1>1, <1>7
  <2>2. item.res = r.res /\ item.blobs = r.blobs /\ r.res \in Errors \cup {"ok"}
    BY <1>4, <1>7 DEF Failures, Errors
  <2>3. item \in Item /\ Whole(item, group)
    BY <1>3, <1>4, <2>2 DEF Item, Whole
  <2> HIDE DEF item
  <2>4. items' \in Seq(Item) /\ IsAppend(items', items, item)
    BY <1>2, <2>1, <2>3, AppendElements, Zenon
  <2>5. /\ Len(items) \in Nat /\ Len(items') = Len(items) + 1
        /\ items'[Len(items) + 1] = item
        /\ \A i \in 1..Len(items) : items'[i] = items[i]
    BY <2>4, Zenon DEF IsAppend
  <2>6. ASSUME NEW i \in 1..Len(items') PROVE i \in 1..Len(items) \/ i = Len(items) + 1
    BY <2>5
  <2>7. ASSUME NEW i \in 1..Len(items') PROVE Whole(items'[i], group')
    BY <1>1, <1>2, <2>3, <2>5, <2>6, Zenon
  <2>8. /\ phase' \in {"start", "data", "reading", "ended", "refused", "panic"}
        /\ pos' \in 0..Len(rest')
    BY <1>1, <1>4, <2>1
  <2>9. Types'
    BY <1>1, <1>2, <2>4, <2>7, <2>8, Zenon DEF Types
  <2>10. pos # Len(rest) /\ phase # "ended"
    BY <1>3, <1>7 DEF Order
  <2>11. ASSUME NEW i \in 1..Len(items'), items'[i].res \in Errors
         PROVE  i = Len(items') /\ pos' = Len(rest')
    <3>1. i = Len(items) + 1
      BY <1>5, <2>5, <2>6, <2>10, <2>11, Zenon
    <3>2. r.res \in Failures \ {"panic"}
      BY <2>2, <2>5, <2>11, <3>1 DEF Errors, Failures
    <3> QED
      BY <1>1, <1>4, <2>5, <3>1, <3>2
  <2>12. phase' \notin {"start", "data", "ended"}
    BY <1>1, <2>1, <2>10
  <2>13. Order'
    BY <2>11, <2>12 DEF Order
  <2> QED
    BY <2>9, <2>13
<1> QED
  BY <1>6, <1>7

(* next() in data that encode_blobs wrote.                                 *)
LEMMA IterNextProgress ==
    ASSUME Types, Types', Decodes, IterNext, phase # "data", NEW n \in Nat, Progress(n)
    PROVE  \E k \in Nat : Progress(k)'
<1> DEFINE r == ReadGroup
           item == [res |-> r.res, blobs |-> r.blobs]
           m == n * group
<1>1. /\ phase \in {"reading", "ended"} /\ pos' = r.pos
      /\ IF r.res \in {"None", "panic"}
         THEN phase' = (IF r.res = "None" THEN "ended" ELSE "panic") /\ UNCHANGED items
         ELSE items' = Append(items, item) /\ UNCHANGED phase
      /\ blobs' = blobs /\ rest' = rest /\ dedup' = dedup /\ group' = group
  BY DEF IterNext
<1>2. /\ rest \in Seq(u8) /\ dedup \in Seq(Seq(u8)) /\ group \in Nat \ {0} /\ pos \in 0..Len(rest)
      /\ items \in Seq(Item) /\ items' \in Seq(Item)
  BY DEF Types
<1>3. /\ blobs \in Seq(Seq(u8)) /\ Encodable(dedup, blobs)
      /\ rest = FlattenSeq(Entries(dedup, blobs))
  BY DEF Decodes
<1>4. /\ m <= Len(blobs) /\ n <= Len(items)
      /\ \A i \in 1..n : items[i] = GroupItem(i)
  BY DEF Progress
<1>5. /\ m \in Nat /\ (n + 1) * group = m + group /\ (n + 1) - 1 = n
      /\ Len(blobs) \in Nat /\ Len(items) \in Nat
  BY <1>2, <1>3, NextMultiple, LenProperties
<1>6. ASSUME NEW i \in Nat PROVE GroupItem(i)' = GroupItem(i)
  BY <1>1 DEF GroupItem
<1>7. CASE /\ Len(items) = n + 1 /\ items[n + 1].res = "NotEnoughElements"
           /\ pos = Len(rest) /\ m < Len(blobs) /\ Len(blobs) < m + group
  <2>1. r.res = "None" /\ r \in GroupState
    BY <1>2, <1>7, ReadGroupType
  <2>2. r.pos = Len(rest)
    <3> HIDE DEF r
    <3> QED
      BY <2>1 DEF GroupState, Failures
  <2>3. items' = items /\ pos' = Len(rest')
    BY <1>1, <2>1, <2>2
  <2>4. \A i \in 1..n : items'[i] = GroupItem(i)'
    BY <1>4, <1>6, <2>3
  <2>5. Progress(n)'
    BY <1>1, <1>4, <1>7, <2>3, <2>4, Zenon DEF Progress
  <2> QED
    BY <2>5
<1>8. CASE /\ Len(items) = n /\ pos = FlatStart(Entries(dedup, blobs), m)
           /\ phase = "ended" => m = Len(blobs)
  <2>1. m \in 0..Len(blobs)
    <3> HIDE DEF m
    <3> QED
      BY <1>4, <1>5
  <2>2. GroupRead(blobs, m)
    BY <1>2, <1>3, <1>8, <2>1, GroupReads, Zenon
  <2>3. CASE m + group <= Len(blobs)
    <3>1. r = [res |-> "ok", blobs |-> SubSeq(blobs, m + 1, m + group),
               pos |-> FlatStart(Entries(dedup, blobs), m + group)]
      BY <2>2, <2>3, Zenon DEF GroupRead
    <3>2. HasFields(r, "ok", SubSeq(blobs, m + 1, m + group),
                    FlatStart(Entries(dedup, blobs), m + group))
      BY <3>1, GroupFields, Zenon DEF GroupOf
    <3>3. /\ r.res = "ok" /\ r.blobs = SubSeq(blobs, m + 1, m + group)
          /\ r.pos = FlatStart(Entries(dedup, blobs), m + group)
      BY <3>2, Zenon DEF HasFields
    <3>4. items' = Append(items, item) /\ phase' = phase
      BY <1>1, <3>3
    <3>5. item = GroupItem(n + 1)
      BY <1>5, <3>3, Zenon DEF GroupItem
    <3>6. item \in Item
      <4>1. SubSeq(blobs, m + 1, m + group) \in Seq(Seq(u8))
        <5>1. m + group \in Nat /\ m <= m + group
          <6> HIDE DEF m
          <6> QED
            BY <1>2, <1>5
        <5> QED
          BY <1>3, <1>5, <2>3, <5>1, SliceElements, Zenon
      <4>2. r.blobs \in Seq(Seq(u8)) /\ r.res \in Errors \cup {"ok"}
        BY <3>3, <4>1, Zenon
      <4> HIDE DEF r
      <4> QED
        BY <4>2 DEF Item
    <3> HIDE DEF item, r
    <3>7. IsAppend(items', items, item)
      BY <1>2, <3>4, <3>6, AppendElements, Zenon
    <3>8. /\ Len(items') = n + 1 /\ items'[n + 1] = item
          /\ \A i \in 1..n : items'[i] = items[i]
      BY <1>8, <3>7, Zenon DEF IsAppend
    <3>9. ASSUME NEW i \in 1..n+1 PROVE items'[i] = GroupItem(i)'
      <4>1. i \in Nat /\ (i \in 1..n \/ i = n + 1)
        OBVIOUS
      <4> QED
        BY <1>4, <1>6, <3>5, <3>8, <4>1, Zenon
    <3>10. phase # "ended"
      <4> SUFFICES ASSUME m = Len(blobs) PROVE FALSE
        BY <1>8
      <4> HIDE DEF m
      <4> QED
        BY <1>2, <1>5, <2>3
    <3>11. pos' = FlatStart(Entries(dedup', blobs'), (n + 1) * group')
      BY <1>1, <1>5, <3>3, Zenon
    <3>12. (n + 1) * group' <= Len(blobs') /\ n + 1 <= Len(items') /\ n + 1 \in Nat
      <4>1. (n + 1) * group' <= Len(blobs')
        BY <1>1, <1>5, <2>3, Zenon
      <4> QED
        BY <3>8, <4>1
    <3>13. Progress(n + 1)'
      BY <3>4, <3>8, <3>9, <3>10, <3>11, <3>12, Zenon DEF Progress
    <3> QED
      BY <3>12, <3>13, Zenon
  <2>4. CASE m < Len(blobs) /\ Len(blobs) < m + group
    <3>1. r = GroupOf("NotEnoughElements", <<>>, Len(rest))
      BY <2>2, <2>4, Zenon DEF GroupRead, GroupOf
    <3>2. r.res = "NotEnoughElements" /\ r.blobs = <<>> /\ r.pos = Len(rest)
      <4>1. HasFields(r, "NotEnoughElements", <<>>, Len(rest))
        BY <3>1, GroupFields, Zenon
      <4> QED
        BY <4>1, Zenon DEF HasFields
    <3>3. items' = Append(items, item)
      BY <1>1, <3>2
    <3>4. item \in Item /\ item.res = "NotEnoughElements"
      <4> HIDE DEF r
      <4>1. <<>> \in Seq(Seq(u8))
        OBVIOUS
      <4> QED
        BY <3>2, <4>1 DEF Item, Errors
    <3> HIDE DEF item, r
    <3>5. IsAppend(items', items, item)
      BY <1>2, <3>3, <3>4, AppendElements, Zenon
    <3>6. /\ Len(items') = n + 1 /\ items'[n + 1] = item
          /\ \A i \in 1..n : items'[i] = items[i]
      BY <1>8, <3>5, Zenon DEF IsAppend
    <3>7. ASSUME NEW i \in 1..n PROVE items'[i] = GroupItem(i)'
      <4>1. i \in Nat
        OBVIOUS
      <4> QED
        BY <1>4, <1>6, <3>6, <4>1, Zenon
    <3>8. n <= Len(items') /\ pos' = Len(rest') /\ items'[n + 1].res = "NotEnoughElements"
      BY <1>1, <3>2, <3>4, <3>6
    <3>9. Progress(n)'
      BY <1>1, <1>4, <2>4, <3>6, <3>7, <3>8, Zenon DEF Progress
    <3> QED
      BY <3>9
  <2>5. CASE m = Len(blobs)
    <3>1. r.res = "None" /\ r.pos = Len(rest) /\ pos = Len(rest)
      BY <2>2, <2>5, Zenon DEF GroupRead
    <3>2. items' = items /\ pos' = pos
      BY <1>1, <3>1
    <3>3. \A i \in 1..n : items'[i] = GroupItem(i)'
      BY <1>4, <1>6, <3>2
    <3>4. Progress(n)'
      BY <1>1, <1>4, <1>8, <2>5, <3>2, <3>3, Zenon DEF Progress
    <3> QED
      BY <3>4
  <2>6. m + group <= Len(blobs) \/ (m < Len(blobs) /\ Len(blobs) < m + group) \/ m = Len(blobs)
    <3> HIDE DEF m
    <3> QED
      BY <1>2, <1>4, <1>5
  <2> QED
    BY <2>3, <2>4, <2>5, <2>6, Zenon
<1> QED
  BY <1>7, <1>8, Zenon DEF Progress

(* next() never fails on such data.                                        *)
LEMMA IterNextInv ==
    ASSUME BlobbyInv, IterNext
    PROVE  BlobbyInv'
<1>1. Types /\ Order /\ Types' /\ Order'
  BY IterNextTypes DEF BlobbyInv
<1>2. /\ phase \in {"reading", "ended"}
      /\ blobs' = blobs /\ encoded' = encoded /\ idx_len' = idx_len /\ data' = data
      /\ rest' = rest /\ dedup' = dedup /\ group' = group
  BY DEF IterNext
<1>3. ASSUME encoded PROVE Decodes'
  <2>1. Decodes /\ phase # "data"
    BY <1>2, <1>3 DEF BlobbyInv
  <2>2. PICK n \in Nat : Progress(n)
    BY <2>1 DEF Decodes
  <2>3. \E k \in Nat : Progress(k)'
    BY <1>1, <2>1, <2>2, IterNextProgress
  <2>4. phase' \in {"data", "reading", "ended"}
    <3> DEFINE r == ReadGroup
               m == n * group
    <3>1. r.res # "panic"
      <4>1. /\ rest \in Seq(u8) /\ dedup \in Seq(Seq(u8)) /\ group \in Nat \ {0}
            /\ pos \in 0..Len(rest)
        BY <1>1 DEF Types
      <4>2. /\ blobs \in Seq(Seq(u8)) /\ Encodable(dedup, blobs)
            /\ rest = FlattenSeq(Entries(dedup, blobs))
        BY <2>1 DEF Decodes
      <4>3. CASE pos = Len(rest)
        <5>1. r.res = "None"
          BY <4>1, <4>3, ReadGroupType
        <5> QED
          BY <5>1
      <4>4. CASE pos # Len(rest)
        <5>1. m <= Len(blobs) /\ pos = FlatStart(Entries(dedup, blobs), m)
          BY <2>2, <4>4, Zenon DEF Progress
        <5>2. m \in Nat /\ Len(blobs) \in Nat
          BY <4>1, <4>2, NextMultiple, LenProperties
        <5>3. m \in 0..Len(blobs)
          <6> HIDE DEF m
          <6> QED
            BY <5>1, <5>2
        <5>4. GroupRead(blobs, m)
          BY <4>1, <4>2, <5>1, <5>3, GroupReads, Zenon
        <5>5. m + group <= Len(blobs) \/ (m < Len(blobs) /\ Len(blobs) < m + group) \/ m = Len(blobs)
          <6> HIDE DEF m
          <6> QED
            BY <4>1, <5>1, <5>2
        <5>6. \/ r = GroupOf("ok", SubSeq(blobs, m + 1, m + group),
                             FlatStart(Entries(dedup, blobs), m + group))
              \/ r = GroupOf("NotEnoughElements", <<>>, Len(rest))
              \/ r.res = "None"
          BY <5>4, <5>5, Zenon DEF GroupRead, GroupOf
        <5>7. \/ HasFields(r, "ok", SubSeq(blobs, m + 1, m + group),
                           FlatStart(Entries(dedup, blobs), m + group))
              \/ HasFields(r, "NotEnoughElements", <<>>, Len(rest))
              \/ r.res = "None"
          BY <5>6, GroupFields, Zenon
        <5>8. r.res \in {"ok", "NotEnoughElements", "None"}
          BY <5>7, Zenon DEF HasFields
        <5> QED
          BY <5>8
      <4> QED
        BY <4>3, <4>4
    <3> QED
      BY <1>2, <3>1 DEF IterNext
  <2> QED
    BY <1>2, <2>1, <2>3, <2>4, Zenon DEF Decodes
<1> QED
  BY <1>1, <1>2, <1>3 DEF BlobbyInv

-----------------------------------------------------------------------------
(* The tool's cases.                                                       *)
Calls == [generator : Generators, suite : Suites, key_size : KeySizes]
TestCase == [result : Results, data : [Fields -> Seq(u8)]]

HasLen(s, T, n) == s \in Seq(T) /\ Len(s) = n

(* Sequences of up to 2 elements.                                          *)
LEMMA ShortSeqs ==
    ASSUME NEW T
    PROVE  /\ HasLen(<<>>, T, 0)
           /\ \A a \in T : HasLen(<<a>>, T, 1) /\ <<a>>[1] = a
           /\ \A a, b \in T : HasLen(<<a, b>>, T, 2)
BY DEF HasLen

(* A sequence of 3.                                                        *)
LEMMA SeqOf3 ==
    ASSUME NEW T, NEW a \in T, NEW b \in T, NEW c \in T
    PROVE  HasLen(<<a, b, c>>, T, 3)
BY DEF HasLen

(* A sequence of 4.                                                        *)
LEMMA SeqOf4 ==
    ASSUME NEW T, NEW a \in T, NEW b \in T, NEW c \in T, NEW d \in T
    PROVE  HasLen(<<a, b, c, d>>, T, 4)
BY DEF HasLen

(* A sequence of 5.                                                        *)
LEMMA SeqOf5 ==
    ASSUME NEW T, NEW a \in T, NEW b \in T, NEW c \in T, NEW d \in T, NEW e \in T
    PROVE  HasLen(<<a, b, c, d, e>>, T, 5)
BY DEF HasLen

(* The number of fields a generator takes.                                 *)
LEMMA CaseFieldsType ==
    ASSUME NEW gen \in Generators, NEW g \in TestGroup, NEW d \in [Fields -> Seq(u8)]
    PROVE  /\ CaseFields(gen, g, d) \in Seq(Seq(u8))
           /\ Len(CaseFields(gen, g, d)) + (IF HasResult(gen) THEN 1 ELSE 0) = Width(gen)
<1>1. \A x \in {"key", "iv", "aad", "msg", "ct", "tag", "ikm", "salt", "info", "okm", "sig"} :
         d[x] \in Seq(u8)
  BY WycheproofAssumption
<1>2. /\ d["key"] \in Seq(u8) /\ d["iv"] \in Seq(u8) /\ d["aad"] \in Seq(u8)
      /\ d["msg"] \in Seq(u8) /\ d["ct"] \in Seq(u8) /\ d["tag"] \in Seq(u8)
      /\ d["ikm"] \in Seq(u8) /\ d["salt"] \in Seq(u8) /\ d["info"] \in Seq(u8)
      /\ d["okm"] \in Seq(u8) /\ d["sig"] \in Seq(u8)
  BY <1>1, Zenon
<1>3. CASE gen \in Aead
  <2>1. d["ct"] \o d["tag"] \in Seq(u8)
    BY <1>2, CatElements, Zenon
  <2>2. CaseFields(gen, g, d) = <<d["key"], d["iv"], d["aad"], d["msg"], d["ct"] \o d["tag"]>>
    <3>1. gen \notin {"aes_siv", "mac", "hkdf"}
      BY <1>3 DEF Aead
    <3> HIDE DEF Aead
    <3> QED
      BY <1>3, <3>1 DEF CaseFields
  <2>3. HasResult(gen) /\ Width(gen) = 6
    BY <1>3 DEF HasResult, Width, Aead
  <2>4. CaseFields(gen, g, d) \in Seq(Seq(u8)) /\ Len(CaseFields(gen, g, d)) = 5
    <3>1. HasLen(<<d["key"], d["iv"], d["aad"], d["msg"], d["ct"] \o d["tag"]>>, Seq(u8), 5)
      BY <1>2, <2>1, SeqOf5, Zenon
    <3> QED
      BY <2>2, <3>1, Zenon DEF HasLen
  <2> QED
    BY <2>3, <2>4
<1>4. CASE gen = "aes_siv"
  <2>1. CaseFields(gen, g, d) = <<d["key"], d["aad"], d["msg"], d["ct"]>>
    BY <1>4 DEF CaseFields, Aead
  <2>2. HasResult(gen) /\ Width(gen) = 5
    BY <1>4 DEF HasResult, Width, Aead
  <2>3. CaseFields(gen, g, d) \in Seq(Seq(u8)) /\ Len(CaseFields(gen, g, d)) = 4
    <3>1. HasLen(<<d["key"], d["aad"], d["msg"], d["ct"]>>, Seq(u8), 4)
      BY <1>2, SeqOf4, Zenon
    <3> QED
      BY <2>1, <3>1, Zenon DEF HasLen
  <2> QED
    BY <2>2, <2>3
<1>5. CASE gen = "mac"
  <2>1. CaseFields(gen, g, d) = <<d["key"], d["msg"], d["tag"]>>
    BY <1>5 DEF CaseFields, Aead
  <2>2. ~HasResult(gen) /\ Width(gen) = 3
    BY <1>5 DEF HasResult, Width, Aead
  <2>3. CaseFields(gen, g, d) \in Seq(Seq(u8)) /\ Len(CaseFields(gen, g, d)) = 3
    <3>1. HasLen(<<d["key"], d["msg"], d["tag"]>>, Seq(u8), 3)
      BY <1>2, SeqOf3, Zenon
    <3> QED
      BY <2>1, <3>1, Zenon DEF HasLen
  <2> QED
    BY <2>2, <2>3
<1>6. CASE gen = "hkdf"
  <2>1. CaseFields(gen, g, d) = <<d["ikm"], d["salt"], d["info"], d["okm"]>>
    BY <1>6 DEF CaseFields, Aead
  <2>2. ~HasResult(gen) /\ Width(gen) = 4
    BY <1>6 DEF HasResult, Width, Aead
  <2>3. CaseFields(gen, g, d) \in Seq(Seq(u8)) /\ Len(CaseFields(gen, g, d)) = 4
    <3>1. HasLen(<<d["ikm"], d["salt"], d["info"], d["okm"]>>, Seq(u8), 4)
      BY <1>2, SeqOf4, Zenon
    <3> QED
      BY <2>1, <3>1, Zenon DEF HasLen
  <2> QED
    BY <2>2, <2>3
<1>7. CASE gen \in {"ed25519", "ecdsa"}
  <2> DEFINE k == g.key
             s == <<d["msg"], d["sig"]>>
  <2>1. CaseFields(gen, g, d) = k \o s
    BY <1>7 DEF CaseFields, Aead
  <2>2. HasResult(gen) /\ Width(gen) = 5
    BY <1>7 DEF HasResult, Width, Aead
  <2>3. k \in Seq(u8) \X Seq(u8)
    BY DEF TestGroup
  <2>4. k = <<k[1], k[2]>> /\ k[1] \in Seq(u8) /\ k[2] \in Seq(u8)
    BY <2>3
  <2>5. k \in Seq(Seq(u8)) /\ Len(k) = 2
    <3>1. HasLen(<<k[1], k[2]>>, Seq(u8), 2)
      BY <2>4, ShortSeqs, Zenon
    <3> QED
      BY <2>4, <3>1, Zenon DEF HasLen
  <2>6. s \in Seq(Seq(u8)) /\ Len(s) = 2
    <3>1. HasLen(s, Seq(u8), 2)
      BY <1>2, ShortSeqs, Zenon
    <3> QED
      BY <3>1, Zenon DEF HasLen
  <2> HIDE DEF k, s
  <2>7. k \o s \in Seq(Seq(u8)) /\ Len(k \o s) = Len(k) + Len(s)
    BY <2>5, <2>6, CatElements, Zenon
  <2>8. Len(k \o s) = 4
    <3>1. Len(k \o s) = 2 + 2
      BY <2>5, <2>6, <2>7, Zenon
    <3>2. 2 + 2 = 4
      OBVIOUS
    <3> QED
      BY <3>1, <3>2, Zenon
  <2>9. Len(CaseFields(gen, g, d)) = 4
    BY <2>1, <2>8, Zenon
  <2> QED
    BY <2>1, <2>2, <2>7, <2>9
<1> QED
  BY <1>3, <1>4, <1>5, <1>6, <1>7 DEF Generators, Aead

(* The blobs of a case: always the generator's number of them, the result  *)
(* last.                                                                   *)
LEMMA DataType ==
    ASSUME NEW gen \in Generators, NEW g \in TestGroup, NEW tc \in TestCase
    PROVE  /\ Data(gen, g, tc) \in Seq(Seq(u8))
           /\ Len(Data(gen, g, tc)) = Width(gen)
           /\ HasResult(gen) => Data(gen, g, tc)[Width(gen)] = case_result(tc)
           /\ Width(gen) \in Nat \ {0}
<1> DEFINE f == CaseFields(gen, g, tc.data)
           s == IF HasResult(gen) THEN <<case_result(tc)>> ELSE <<>>
           w == Width(gen)
<1>1. tc.data \in [Fields -> Seq(u8)]
  BY DEF TestCase
<1>2. f \in Seq(Seq(u8)) /\ Len(f) + (IF HasResult(gen) THEN 1 ELSE 0) = w
  BY <1>1, CaseFieldsType, Zenon
<1>3. case_result(tc) \in Seq(u8)
  <2>1. 0 \in u8 /\ 1 \in u8
    BY BaseProps DEF u8
  <2>2. (IF tc.result = "invalid" THEN 0 ELSE 1) \in u8
    BY <2>1
  <2> QED
    BY <2>2, ShortSeqs, Zenon DEF case_result, HasLen
<1>4. /\ s \in Seq(Seq(u8)) /\ Len(s) = (IF HasResult(gen) THEN 1 ELSE 0)
      /\ HasResult(gen) => s[1] = case_result(tc)
  <2>1. CASE HasResult(gen)
    <3>1. s = <<case_result(tc)>>
      BY <2>1, Zenon
    <3> HIDE DEF s
    <3>2. s \in Seq(Seq(u8)) /\ Len(s) = 1 /\ s[1] = case_result(tc)
      BY <1>3, <3>1, ShortSeqs, Zenon DEF HasLen
    <3> QED
      BY <2>1, <3>2, Zenon
  <2>2. CASE ~HasResult(gen)
    <3>1. s = <<>>
      BY <2>2, Zenon
    <3> HIDE DEF s
    <3>2. s \in Seq(Seq(u8)) /\ Len(s) = 0
      BY <1>3, <3>1, ShortSeqs, Zenon DEF HasLen
    <3> QED
      BY <2>2, <3>2, Zenon
  <2> QED
    BY <2>1, <2>2
<1>5. Data(gen, g, tc) = f \o s
  BY Zenon DEF Data
<1>6. w \in Nat \ {0}
  BY DEF Width, Generators, Aead
<1> HIDE DEF f, s, w
<1>7. /\ f \o s \in Seq(Seq(u8)) /\ Len(f) \in Nat /\ Len(f \o s) = Len(f) + Len(s)
      /\ \A i \in 1..Len(s) : (f \o s)[Len(f) + i] = s[i]
  <2>1. Cat(f, s) \in Seq(Seq(u8)) /\ IsCat(Cat(f, s), f, s)
    BY <1>2, <1>4, CatParts, Zenon
  <2> QED
    BY <2>1, Zenon DEF IsCat, Cat
<1>8. Len(f \o s) = w
  BY <1>2, <1>4, <1>7, Zenon
<1>9. ASSUME HasResult(gen) PROVE (f \o s)[w] = case_result(tc)
  <2>1. Len(f) + 1 = w /\ Len(s) = 1 /\ s[1] = case_result(tc)
    BY <1>2, <1>4, <1>9, Zenon
  <2>2. 1 \in 1..1
    OBVIOUS
  <2> QED
    BY <1>7, <2>1, <2>2, Zenon
<1> QED
  BY <1>5, <1>6, <1>7, <1>8, <1>9, Zenon DEF w

IsIn(x, s) == \E k \in 1..Len(s) : s[k] = x

(* Whatever is in a part is in the whole.                                  *)
LEMMA FlattenHas ==
    ASSUME NEW T, NEW ss \in Seq(Seq(T)), NEW i \in 1..Len(ss), NEW j \in 1..Len(ss[i])
    PROVE  IsIn(ss[i][j], FlattenSeq(ss))
<1> DEFINE s == ss[i]
           a == FlatStart(ss, i - 1)
           b == FlatStart(ss, i)
           l == Len(FlattenSeq(ss))
<1>1. Len(ss) \in Nat /\ s \in Seq(T)
  BY LenProperties, ElementOfSeq
<1>2. Len(s) \in Nat
  BY <1>1, LenProperties
<1>3. i - 1 \in 0..Len(ss) /\ i \in 0..Len(ss)
  BY <1>1
<1>4. /\ a \in Nat /\ b \in Nat /\ b <= l /\ b = a + Len(s)
      /\ \A k \in 1..Len(s) : FlattenSeq(ss)[a + k] = s[k]
      /\ FlattenSeq(ss) \in Seq(T)
  BY <1>3, FlattenParts, Zenon
<1>5. l \in Nat
  BY <1>4, LenProperties
<1>6. j \in 1..Len(s)
  OBVIOUS
<1> HIDE DEF s, a, b, l
<1>7. a + j \in 1..l
  BY <1>2, <1>4, <1>5, <1>6
<1>8. FlattenSeq(ss)[a + j] = s[j]
  BY <1>4, <1>6, Zenon
<1> QED
  BY <1>7, <1>8, Zenon DEF IsIn, s, l

(* The cases that a call selects, and what is made of each.                *)
Tests(c, gi) == c.suite.groups[gi].tests
InfoOf(c, gi, ti) ==
    [data |-> Data(c.generator, c.suite.groups[gi], Tests(c, gi)[ti]),
     desc |-> [id |-> <<gi, ti>>, result |-> Tests(c, gi)[ti].result]]
Selects(c, gi, ti) == Selected(c.generator, c.suite.groups[gi], Tests(c, gi)[ti], c.key_size)
Cases(c) == {q \in Nat \X Nat : /\ q[1] \in 1..Len(c.suite.groups)
                                /\ q[2] \in 1..Len(Tests(c, q[1]))
                                /\ Selects(c, q[1], q[2])}
InfoSet(c) == {InfoOf(c, q[1], q[2]) : q \in Cases(c)}
InfoIf(c, gi, ti) == IF ~Selects(c, gi, ti) THEN <<>> ELSE <<InfoOf(c, gi, ti)>>
GroupInfos(c, gi) == [ti \in DOMAIN Tests(c, gi) |-> InfoIf(c, gi, ti)]
AllInfos(c) == [gi \in DOMAIN c.suite.groups |-> FlattenSeq(GroupInfos(c, gi))]

(* A suite's groups and their cases.                                       *)
LEMMA SuiteType ==
    ASSUME NEW c \in Calls
    PROVE  /\ c.generator \in Generators
           /\ c.suite.groups \in Seq(TestGroup) /\ Len(c.suite.groups) \in Nat
           /\ DOMAIN c.suite.groups = 1..Len(c.suite.groups)
           /\ \A gi \in 1..Len(c.suite.groups) :
                 /\ c.suite.groups[gi] \in TestGroup
                 /\ Tests(c, gi) \in Seq(TestCase) /\ Len(Tests(c, gi)) \in Nat
                 /\ DOMAIN Tests(c, gi) = 1..Len(Tests(c, gi))
                 /\ \A ti \in 1..Len(Tests(c, gi)) : Tests(c, gi)[ti] \in TestCase
<1>1. c.generator \in Generators /\ c.suite \in Suites
  BY DEF Calls
<1> DEFINE gs == c.suite.groups
<1>2. gs \in Seq(TestGroup)
  BY <1>1, WycheproofAssumption, Zenon
<1> HIDE DEF gs
<1>3. Len(gs) \in Nat /\ DOMAIN gs = 1..Len(gs) /\ \A gi \in 1..Len(gs) : gs[gi] \in TestGroup
  BY <1>2, LenProperties, ElementOfSeq
<1>4. ASSUME NEW g \in TestGroup
      PROVE  /\ g.tests \in Seq(TestCase) /\ Len(g.tests) \in Nat
             /\ DOMAIN g.tests = 1..Len(g.tests)
             /\ \A ti \in 1..Len(g.tests) : g.tests[ti] \in TestCase
  <2>1. g.tests \in Seq(TestCase)
    BY DEF TestGroup, TestCase
  <2> DEFINE s == g.tests
  <2>2. s \in Seq(TestCase)
    BY <2>1
  <2> HIDE DEF s
  <2>3. Len(s) \in Nat /\ DOMAIN s = 1..Len(s) /\ \A ti \in 1..Len(s) : s[ti] \in TestCase
    BY <2>2, LenProperties, ElementOfSeq
  <2> QED
    BY <2>1, <2>3 DEF s
<1> QED
  BY <1>1, <1>2, <1>3, <1>4, Zenon DEF gs, Tests

(* A generator returns exactly the selected cases.                         *)
LEMMA InfosType ==
    ASSUME NEW c \in Calls
    PROVE  /\ Infos(c) \in Seq(InfoSet(c))
           /\ \A q \in Cases(c) : \E i \in 1..Len(Infos(c)) : Infos(c)[i] = InfoOf(c, q[1], q[2])
<1> DEFINE gs == c.suite.groups
           T == InfoSet(c)
<1>1. /\ Len(gs) \in Nat /\ DOMAIN gs = 1..Len(gs)
      /\ \A gi \in 1..Len(gs) : /\ Len(Tests(c, gi)) \in Nat
                                /\ DOMAIN Tests(c, gi) = 1..Len(Tests(c, gi))
  BY SuiteType, Zenon
<1>2. Infos(c) = FlattenSeq(AllInfos(c))
  BY Zenon DEF Infos, AllInfos, GroupInfos, InfoIf, InfoOf, Selects, Tests
<1>3. ASSUME NEW gi \in 1..Len(gs), NEW ti \in 1..Len(Tests(c, gi))
      PROVE  /\ InfoIf(c, gi, ti) \in Seq(T)
             /\ Selects(c, gi, ti) => /\ Len(InfoIf(c, gi, ti)) = 1
                                      /\ InfoIf(c, gi, ti)[1] = InfoOf(c, gi, ti)
  <2>1. CASE Selects(c, gi, ti)
    <3>1. gi \in Nat /\ ti \in Nat
      BY <1>1
    <3>2. <<gi, ti>> \in Cases(c) /\ <<gi, ti>>[1] = gi /\ <<gi, ti>>[2] = ti
      BY <2>1, <3>1 DEF Cases
    <3>3. InfoOf(c, gi, ti) \in T
      BY <3>2, Zenon DEF InfoSet
    <3>4. InfoIf(c, gi, ti) = <<InfoOf(c, gi, ti)>>
      BY <2>1, Zenon DEF InfoIf
    <3>5. HasLen(<<InfoOf(c, gi, ti)>>, T, 1) /\ <<InfoOf(c, gi, ti)>>[1] = InfoOf(c, gi, ti)
      BY <3>3, ShortSeqs, Zenon
    <3> QED
      BY <3>4, <3>5, Zenon DEF HasLen
  <2>2. CASE ~Selects(c, gi, ti)
    <3>1. InfoIf(c, gi, ti) = <<>>
      BY <2>2, Zenon DEF InfoIf
    <3>2. HasLen(<<>>, T, 0)
      BY ShortSeqs, Zenon
    <3> QED
      BY <2>2, <3>1, <3>2, Zenon DEF HasLen
  <2> QED
    BY <2>1, <2>2
<1>4. ASSUME NEW gi \in 1..Len(gs)
      PROVE  /\ GroupInfos(c, gi) \in Seq(Seq(T))
             /\ Len(GroupInfos(c, gi)) = Len(Tests(c, gi))
             /\ \A ti \in 1..Len(Tests(c, gi)) : GroupInfos(c, gi)[ti] = InfoIf(c, gi, ti)
             /\ FlattenSeq(GroupInfos(c, gi)) \in Seq(T)
  <2> DEFINE m == Len(Tests(c, gi))
             f == [ti \in 1..m |-> InfoIf(c, gi, ti)]
  <2>1. GroupInfos(c, gi) = f /\ m \in Nat
    BY <1>1, Zenon DEF GroupInfos
  <2>2. f \in [1..m -> Seq(T)] /\ \A ti \in 1..m : f[ti] = InfoIf(c, gi, ti)
    BY <1>3, Zenon
  <2> HIDE DEF f
  <2>3. f \in Seq(Seq(T)) /\ Len(f) = m
    BY <2>1, <2>2, FunctionIsSeq
  <2>4. FlattenSeq(f) \in Seq(T)
    BY <2>3, FlattenParts, Zenon
  <2> QED
    BY <2>1, <2>2, <2>3, <2>4, Zenon
<1>5. /\ AllInfos(c) \in Seq(Seq(T)) /\ Len(AllInfos(c)) = Len(gs)
      /\ \A gi \in 1..Len(gs) : AllInfos(c)[gi] = FlattenSeq(GroupInfos(c, gi))
  <2> DEFINE n == Len(gs)
             f == [gi \in 1..n |-> FlattenSeq(GroupInfos(c, gi))]
  <2>1. AllInfos(c) = f /\ n \in Nat
    BY <1>1, Zenon DEF AllInfos
  <2>2. f \in [1..n -> Seq(T)] /\ \A gi \in 1..n : f[gi] = FlattenSeq(GroupInfos(c, gi))
    BY <1>4, Zenon
  <2> HIDE DEF f
  <2>3. f \in Seq(Seq(T)) /\ Len(f) = n
    BY <2>1, <2>2, FunctionIsSeq
  <2> QED
    BY <2>1, <2>2, <2>3, Zenon
<1>6. Infos(c) \in Seq(T)
  BY <1>2, <1>5, FlattenParts, Zenon
<1>7. ASSUME NEW q \in Cases(c)
      PROVE  \E i \in 1..Len(Infos(c)) : Infos(c)[i] = InfoOf(c, q[1], q[2])
  <2> DEFINE gi == q[1]
             ti == q[2]
             gis == GroupInfos(c, gi)
             all == AllInfos(c)
             x == InfoOf(c, gi, ti)
  <2>1. gi \in 1..Len(gs) /\ ti \in 1..Len(Tests(c, gi)) /\ Selects(c, gi, ti)
    BY DEF Cases
  <2>2. gis[ti] = InfoIf(c, gi, ti) /\ ti \in 1..Len(gis) /\ gis \in Seq(Seq(T))
    BY <1>4, <2>1, Zenon
  <2>3. Len(gis[ti]) = 1 /\ gis[ti][1] = x
    BY <1>3, <2>1, <2>2, Zenon
  <2>4. 1 \in 1..1
    OBVIOUS
  <2>5. 1 \in 1..Len(gis[ti])
    BY <2>3, <2>4, Zenon
  <2> HIDE DEF gi, ti, gis, all, x
  <2>6. PICK k \in 1..Len(FlattenSeq(gis)) : FlattenSeq(gis)[k] = x
    <3>1. IsIn(gis[ti][1], FlattenSeq(gis))
      BY <2>2, <2>5, FlattenHas, Zenon
    <3> QED
      BY <2>3, <3>1, Zenon DEF IsIn
  <2>7. all \in Seq(Seq(T)) /\ gi \in 1..Len(all) /\ all[gi] = FlattenSeq(gis)
    BY <1>5, <2>1, Zenon DEF all, gis
  <2>8. k \in 1..Len(all[gi])
    BY <2>7, Zenon
  <2>9. IsIn(all[gi][k], FlattenSeq(all))
    BY <2>7, <2>8, FlattenHas, Zenon
  <2> QED
    BY <1>2, <2>6, <2>7, <2>9, Zenon DEF IsIn, all, x, gi, ti
<1> QED
  BY <1>6, <1>7, Zenon

(* What main encodes and describes.                                        *)
Datas(c) == [i \in DOMAIN Infos(c) |-> Infos(c)[i].data]
Descs(c) == [i \in DOMAIN Infos(c) |-> Infos(c)[i].desc]

(* Every case has the generator's number of blobs.                         *)
LEMMA DatasType ==
    ASSUME NEW c \in Calls
    PROVE  /\ Len(Infos(c)) \in Nat /\ DOMAIN Infos(c) = 1..Len(Infos(c))
           /\ Datas(c) \in Seq(Seq(Seq(u8))) /\ Len(Datas(c)) = Len(Infos(c))
           /\ FlattenSeq(Datas(c)) \in Seq(Seq(u8))
           /\ Width(c.generator) \in Nat \ {0}
           /\ \A i \in 1..Len(Infos(c)) :
                 /\ Datas(c)[i] = Infos(c)[i].data
                 /\ Len(Datas(c)[i]) = Width(c.generator)
                 /\ \E q \in Cases(c) : Infos(c)[i] = InfoOf(c, q[1], q[2])
<1> DEFINE s == Infos(c)
           n == Len(s)
           D == Seq(Seq(u8))
<1>1. s \in Seq(InfoSet(c))
  BY InfosType, Zenon
<1> HIDE DEF s
<1>2. n \in Nat /\ DOMAIN s = 1..n /\ \A i \in 1..n : s[i] \in InfoSet(c)
  BY <1>1, LenProperties, ElementOfSeq
<1> HIDE DEF n
<1>3. ASSUME NEW i \in 1..n PROVE \E q \in Cases(c) : s[i] = InfoOf(c, q[1], q[2])
  BY <1>2, Zenon DEF InfoSet
<1>4. ASSUME NEW i \in 1..n PROVE s[i].data \in D /\ Len(s[i].data) = Width(c.generator)
  <2>1. PICK q \in Cases(c) : s[i] = InfoOf(c, q[1], q[2])
    BY <1>3
  <2> DEFINE g == c.suite.groups[q[1]]
             tc == Tests(c, q[1])[q[2]]
             d == Data(c.generator, g, tc)
  <2>2. q[1] \in 1..Len(c.suite.groups) /\ q[2] \in 1..Len(Tests(c, q[1]))
    BY DEF Cases
  <2>3. c.generator \in Generators /\ g \in TestGroup /\ tc \in TestCase
    BY <2>2, SuiteType, Zenon
  <2>4. d \in D /\ Len(d) = Width(c.generator)
    BY <2>3, DataType, Zenon
  <2>5. s[i].data = d
    <3> HIDE DEF d
    <3>1. InfoOf(c, q[1], q[2]).data = d
      BY DEF InfoOf, d
    <3> QED
      BY <2>1, <3>1
  <2> QED
    BY <2>4, <2>5, Zenon
<1>5. Width(c.generator) \in Nat \ {0}
  <2>1. c.generator \in Generators
    BY SuiteType
  <2> QED
    BY <2>1 DEF Width, Generators, Aead
<1> DEFINE f == [i \in 1..n |-> s[i].data]
<1>6. Datas(c) = f
  BY <1>2, Zenon DEF Datas, s, n
<1>7. f \in [1..n -> D] /\ \A i \in 1..n : f[i] = s[i].data
  BY <1>4, Zenon
<1> HIDE DEF f
<1>8. f \in Seq(D) /\ Len(f) = n
  BY <1>2, <1>7, FunctionIsSeq
<1>9. FlattenSeq(f) \in D
  BY <1>8, FlattenParts, Zenon
<1>10. ASSUME NEW i \in 1..n PROVE Len(f[i]) = Width(c.generator)
  BY <1>4, <1>7, Zenon
<1> QED
  BY <1>2, <1>3, <1>5, <1>6, <1>7, <1>8, <1>9, <1>10, Zenon DEF s, n

-----------------------------------------------------------------------------
(* The tool is between its two files, or its output is being read.         *)
ToolInv ==
    /\ stage \in {"idle", "described", "written", "failed"}
    /\ stage \in {"described", "written"} =>
          call \in Calls /\ ~GeneratorPanics(call) /\ txt = Descs(call)
    /\ stage = "described" => phase = "start"
    /\ stage = "written" => encoded /\ blobs = FlattenSeq(Datas(call))

IInv == BlobbyInv /\ ToolInv

(* What the caller encodes is a sequence of byte strings.                  *)
LEMMA SeqOfType ==
    ASSUME NEW S, NEW T, S \subseteq T, NEW n \in Nat, NEW s \in SeqOf(S, n)
    PROVE  s \in Seq(T)
<1>1. PICK m \in 0..n : s \in [1..m -> S]
  BY DEF SeqOf
<1>2. m \in Nat /\ s \in [1..m -> T]
  BY <1>1
<1> QED
  BY <1>2, FunctionIsSeq, Zenon

(* Every step of blobby's own.                                             *)
LEMMA NextInv ==
    ASSUME BlobbyInv, Next
    PROVE  BlobbyInv'
<1>1. CASE \E bs \in SeqOf(Blobs, MaxBlobs) : Encode(bs)
  <2>1. PICK bs \in SeqOf(Blobs, MaxBlobs) : Encode(bs)
    BY <1>1
  <2>2. bs \in Seq(Seq(u8))
    <3>1. Blobs \subseteq Seq(u8) /\ MaxBlobs \in Nat
      BY BlobbyAssumption
    <3> QED
      BY <3>1, SeqOfType, Zenon
  <2> QED
    BY <2>1, <2>2, EncodesInv DEF Encode
<1>2. CASE \E d \in SeqOf(u8, MaxData) : Foreign(d)
  <2>1. PICK d \in SeqOf(u8, MaxData) : Foreign(d)
    BY <1>2
  <2>2. d \in Seq(u8)
    <3>1. u8 \subseteq u8 /\ MaxData \in Nat
      BY BlobbyAssumption
    <3> QED
      BY <3>1, SeqOfType, Zenon
  <2> QED
    BY <2>1, <2>2, ForeignInv
<1>3. CASE \E k \in Groups : New(k)
  BY <1>3, NewInv, BlobbyAssumption
<1>4. CASE IterNext
  BY <1>4, IterNextInv
<1>5. CASE Close
  BY <1>5, CloseInv
<1> QED
  BY <1>1, <1>2, <1>3, <1>4, <1>5 DEF Next

(* Nothing of blobby's changes.                                            *)
LEMMA SameBlobby ==
    ASSUME BlobbyInv, UNCHANGED vars
    PROVE  BlobbyInv'
<1>1. /\ phase' = phase /\ blobs' = blobs /\ encoded' = encoded /\ idx_len' = idx_len
      /\ data' = data /\ rest' = rest /\ dedup' = dedup /\ pos' = pos /\ group' = group
      /\ items' = items
  BY DEF vars
<1> QED
  BY <1>1 DEF BlobbyInv, Types, Order, Decodes, Progress, GroupItem

(* The program of the caller panics before it has encoded anything.        *)
LEMMA StartPanics ==
    ASSUME BlobbyInv, phase = "start", phase' = "panic",
           UNCHANGED <<blobs, encoded, idx_len, data, rest, dedup, pos, group, items>>
    PROVE  BlobbyInv'
<1>1. Types /\ Order /\ ~encoded
  BY DEF BlobbyInv, Order
<1>2. Types'
  BY <1>1 DEF Types
<1>3. Order'
  BY <1>1 DEF Order
<1> QED
  BY <1>1, <1>2, <1>3 DEF BlobbyInv

(* A step of blobby's keeps what is encoded until the caller starts anew.  *)
LEMMA NextKeeps ==
    ASSUME Next, BlobbyInv, encoded, phase' # "start"
    PROVE  encoded' = encoded /\ blobs' = blobs
<1>1. phase # "start"
  BY DEF BlobbyInv, Order
<1> QED
  BY <1>1 DEF Next, Encode, Foreign, New, IterNext, Close

(* The invariant is inductive.                                             *)
THEOREM ToolInvariant == ToolSpec => []IInv
<1>1. ToolInit => IInv
  <2> SUFFICES ASSUME ToolInit PROVE IInv
    OBVIOUS
  <2>1. BlobbyInv
    BY FreshInv DEF ToolInit, Init
  <2>2. ToolInv
    BY DEF ToolInv, ToolInit
  <2> QED
    BY <2>1, <2>2 DEF IInv
<1>2. IInv /\ [ToolNext]_allVars => IInv'
  <2> SUFFICES ASSUME IInv, [ToolNext]_allVars PROVE IInv'
    OBVIOUS
  <2>0. BlobbyInv /\ ToolInv
    BY DEF IInv
  <2>1. ASSUME stage # "described", Next,
               IF phase' = "start" THEN stage' = "idle" /\ call' = NoCall /\ txt' = <<>>
               ELSE UNCHANGED toolVars
        PROVE  IInv'
    <3>1. BlobbyInv'
      BY <2>0, <2>1, NextInv
    <3>2. CASE phase' = "start"
      <4>1. ToolInv'
        BY <2>1, <3>2 DEF ToolInv
      <4> QED
        BY <3>1, <4>1 DEF IInv
    <3>3. CASE phase' # "start"
      <4>1. stage' = stage /\ call' = call /\ txt' = txt
        BY <2>1, <3>3 DEF toolVars
      <4>2. stage = "written" => encoded' = encoded /\ blobs' = blobs
        BY <2>0, <2>1, <3>3, NextKeeps DEF ToolInv
      <4>3. ToolInv'
        BY <2>0, <2>1, <4>1, <4>2 DEF ToolInv
      <4> QED
        BY <3>1, <4>3 DEF IInv
    <3> QED
      BY <3>2, <3>3
  <2>2. ASSUME phase = "start", stage = "idle",
               NEW gen \in Generators \cup {"unrecognized"}, NEW suite \in Suites,
               NEW key_size \in KeySizes, Describe(gen, suite, key_size)
        PROVE  IInv'
    <3> DEFINE c == [generator |-> gen, suite |-> suite, key_size |-> key_size]
    <3>1. /\ call' = c
          /\ IF gen \notin Generators \/ GeneratorPanics(c)
             THEN stage' = "failed" /\ phase' = "panic" /\ UNCHANGED txt
             ELSE /\ stage' = "described" /\ UNCHANGED phase
                  /\ \E infos \in {Infos(c)} : txt' = [i \in DOMAIN infos |-> infos[i].desc]
          /\ UNCHANGED <<blobs, encoded, idx_len, data, rest, dedup, pos, group, items>>
      BY <2>2, Zenon DEF Describe
    <3>2. CASE gen \notin Generators \/ GeneratorPanics(c)
      <4>1. stage' = "failed" /\ phase' = "panic"
        BY <3>1, <3>2, Zenon
      <4>2. BlobbyInv'
        BY <2>0, <2>2, <3>1, <4>1, StartPanics
      <4>3. ToolInv'
        BY <4>1 DEF ToolInv
      <4> QED
        BY <4>2, <4>3 DEF IInv
    <3>3. CASE gen \in Generators /\ ~GeneratorPanics(c)
      <4>1. /\ stage' = "described" /\ phase' = phase
            /\ txt' = [i \in DOMAIN Infos(c) |-> Infos(c)[i].desc]
        BY <3>1, <3>3, Zenon
      <4>2. BlobbyInv'
        BY <2>0, <3>1, <4>1, SameBlobby DEF vars
      <4>3. c \in Calls
        BY <3>3 DEF Calls
      <4>4. txt' = Descs(c)
        BY <4>1, Zenon DEF Descs
      <4> HIDE DEF c
      <4>5. ToolInv'
        BY <2>2, <3>1, <3>3, <4>1, <4>3, <4>4 DEF ToolInv
      <4> QED
        BY <4>2, <4>5 DEF IInv
    <3> QED
      BY <3>2, <3>3
  <2>3. ASSUME WriteBlobs PROVE IInv'
    <3>1. /\ stage = "described" /\ call' = call /\ txt' = txt
          /\ Encodes(FlattenSeq(Datas(call)))
          /\ stage' = (IF phase' = "panic" THEN "failed" ELSE "written")
      BY <2>3, Zenon DEF WriteBlobs, Datas
    <3>2. call \in Calls /\ ~GeneratorPanics(call) /\ txt = Descs(call) /\ phase = "start"
      BY <2>0, <3>1 DEF ToolInv
    <3>3. FlattenSeq(Datas(call)) \in Seq(Seq(u8))
      BY <3>2, DatasType, Zenon
    <3>4. BlobbyInv'
      BY <2>0, <3>1, <3>2, <3>3, EncodesInv
    <3>5. blobs' = FlattenSeq(Datas(call)) /\ (phase' # "panic" => encoded' = TRUE)
      BY <3>1, Zenon DEF Encodes
    <3>6. ToolInv'
      BY <3>1, <3>2, <3>5 DEF ToolInv
    <3> QED
      BY <3>4, <3>6 DEF IInv
  <2>4. ASSUME WriteFails PROVE IInv'
    <3>1. /\ stage = "described" /\ stage' = "failed" /\ phase' = "panic"
          /\ UNCHANGED <<blobs, encoded, idx_len, data, rest, dedup, pos, group, items>>
      BY <2>4 DEF WriteFails
    <3>2. BlobbyInv'
      BY <2>0, <3>1, StartPanics DEF ToolInv
    <3>3. ToolInv'
      BY <3>1 DEF ToolInv
    <3> QED
      BY <3>2, <3>3 DEF IInv
  <2>5. ASSUME UNCHANGED allVars PROVE IInv'
    <3>1. UNCHANGED vars /\ stage' = stage /\ call' = call /\ txt' = txt
      BY <2>5 DEF allVars, toolVars
    <3>2. BlobbyInv'
      BY <2>0, <3>1, SameBlobby
    <3>3. ToolInv'
      BY <2>0, <3>1 DEF ToolInv, vars
    <3> QED
      BY <3>2, <3>3 DEF IInv
  <2> QED
    BY <2>1, <2>2, <2>3, <2>4, <2>5 DEF ToolNext
<1> QED
  BY <1>1, <1>2, PTL DEF ToolSpec

-----------------------------------------------------------------------------
(* The iterators never leave their data, return byte strings, and return   *)
(* whole groups or none, whatever bytes they are given.                    *)
THEOREM BlobbyTypeCorrect == ToolSpec => []TypeOK
<1>1. IInv => TypeOK
  <2> SUFFICES ASSUME Types PROVE TypeOK
    BY DEF IInv, BlobbyInv
  <2>1. /\ phase \in {"start", "data", "reading", "ended", "refused", "panic"}
        /\ pos \in 0..Len(rest) /\ dedup \in Seq(Seq(u8)) /\ items \in Seq(Item)
        /\ \A i \in 1..Len(items) : Whole(items[i], group)
    BY DEF Types
  <2>2. ASSUME NEW i \in DOMAIN dedup, NEW j \in DOMAIN dedup[i] PROVE dedup[i][j] \in u8
    <3>1. DOMAIN dedup = 1..Len(dedup)
      BY <2>1, LenProperties
    <3>2. dedup[i] \in Seq(u8)
      BY <2>1, <3>1, ElementOfSeq
    <3> DEFINE s == dedup[i]
    <3>3. s \in Seq(u8) /\ j \in DOMAIN s
      BY <3>2
    <3> HIDE DEF s
    <3>4. s[j] \in u8
      BY <3>3, LenProperties, ElementOfSeq
    <3> QED
      BY <3>4 DEF s
  <2>3. DOMAIN items = 1..Len(items)
    BY <2>1, LenProperties
  <2> QED
    BY <2>1, <2>2, <2>3, Zenon DEF TypeOK, Whole
<1> QED
  BY <1>1, ToolInvariant, PTL

(* After an error the iterators return nothing any more, whatever bytes    *)
(* they are given.                                                         *)
THEOREM BlobbyErrorIsLast == ToolSpec => []ErrorIsLast
<1>1. IInv => ErrorIsLast
  <2> SUFFICES ASSUME Types, Order PROVE ErrorIsLast
    BY DEF IInv, BlobbyInv
  <2>1. items \in Seq(Item)
    BY DEF Types
  <2>2. DOMAIN items = 1..Len(items)
    BY <2>1, LenProperties
  <2> QED
    BY <2>2, Zenon DEF Order, ErrorIsLast
<1> QED
  BY <1>1, ToolInvariant, PTL

(* A number that fits is read back from its own bytes, and a number that   *)
(* is read anywhere is written as the bytes it was read from.              *)
THEOREM BlobbyVlqExact == ToolSpec => []VlqExact
<1>1. ASSUME NEW v \in 0..Base * (1 + Base * (1 + Base * (1 + Base))) - 1
      PROVE  LET r == read_vlq(encode_vlq(v), 0)
             IN  Fits(v) /\ r.res = "ok" /\ r.val = v /\ r.pos = Len(encode_vlq(v))
  <2> DEFINE e == encode_vlq(v)
             r == read_vlq(e, 0)
  <2>1. v \in Nat /\ Fits(v)
    BY SmallFits
  <2>2. e \in Seq(u8)
    BY <2>1, EncodeBytes
  <2>3. Holds(e, 0, e)
    BY <2>2, HoldsSelf, Zenon
  <2>4. r = [res |-> "ok", val |-> v, pos |-> 0 + Len(e)]
    BY <2>1, <2>2, <2>3, ReadHolds, Zenon
  <2>5. 0 + Len(e) = Len(e)
    BY <2>2, LenProperties
  <2> HIDE DEF e, r
  <2>6. r.res = "ok" /\ r.val = v /\ r.pos = Len(e)
    BY <2>4, <2>5
  <2> QED
    BY <2>1, <2>6 DEF e, r
<1>2. ASSUME data \in Seq(u8), NEW p \in 0..Len(data)-1, read_vlq(data, p).res = "ok"
      PROVE  encode_vlq(read_vlq(data, p).val) = SubSeq(data, p + 1, read_vlq(data, p).pos)
  <2>1. p \in Nat /\ p <= Len(data)
    BY <1>2, LenProperties
  <2>2. \E k \in 1..4 : IsVlq(data, p, k)
    <3>1. \/ \E k \in 1..4 : IsVlq(data, p, k)
          \/ read_vlq(data, p) = [res |-> "UnexpectedEnd", val |-> 0, pos |-> Len(data)]
          \/ read_vlq(data, p) = [res |-> "InvalidVlq", val |-> 0, pos |-> p + 4]
      BY <1>2, <2>1, ReadVlqCases, Zenon
    <3> QED
      BY <1>2, <3>1
  <2>3. PICK k \in 1..4 : IsVlq(data, p, k)
    BY <2>2
  <2>4. read_vlq(data, p) = [res |-> "ok", val |-> Value(data, p, k), pos |-> p + k]
    BY <1>2, <2>1, <2>3, ReadVlqOk
  <2>5. encode_vlq(Value(data, p, k)) = SubSeq(data, p + 1, p + k)
    BY <1>2, <2>1, <2>3, VlqIsEncoded, Zenon
  <2>6. read_vlq(data, p).val = Value(data, p, k) /\ read_vlq(data, p).pos = p + k
    BY <2>4
  <2> QED
    BY <2>5, <2>6
<1>3. IInv => VlqExact
  <2> SUFFICES ASSUME IInv PROVE VlqExact
    OBVIOUS
  <2>1. data \in Seq(u8)
    BY DEF IInv, BlobbyInv, Types
  <2> QED
    BY <1>1, <1>2, <2>1, Zenon DEF VlqExact
<1> QED
  BY <1>3, ToolInvariant, PTL

-----------------------------------------------------------------------------
(* Parts of one length begin at its multiples.                             *)
LEMMA EvenParts ==
    ASSUME NEW T, NEW ss \in Seq(Seq(T)), NEW g \in Nat \ {0}, NEW n \in Nat, n <= Len(ss),
           \A i \in 1..n : Len(ss[i]) = g
    PROVE  \A i \in 0..n : FlatStart(ss, i) = i * g
<1> DEFINE S == {i \in Nat : i <= n => FlatStart(ss, i) = i * g}
<1>1. Len(ss) \in Nat
  BY LenProperties
<1>2. FlatStart(ss, 0) = 0
  BY FlattenParts, Zenon
<1>3. 0 \in S
  BY <1>2
<1>4. ASSUME NEW i \in Nat, i \in S PROVE i + 1 \in S
  <2> SUFFICES ASSUME i + 1 <= n PROVE FlatStart(ss, i + 1) = (i + 1) * g
    OBVIOUS
  <2>1. i + 1 \in 1..Len(ss) /\ i + 1 \in 1..n /\ i <= n /\ (i + 1) - 1 = i
    BY <1>1
  <2>2. FlatStart(ss, i + 1) = FlatStart(ss, (i + 1) - 1) + Len(ss[i + 1])
    BY <2>1, FlattenParts, Zenon
  <2>3. FlatStart(ss, i) = i * g /\ Len(ss[i + 1]) = g
    BY <1>4, <2>1
  <2>4. FlatStart(ss, i + 1) = i * g + g
    BY <2>1, <2>2, <2>3, Zenon
  <2> QED
    BY <2>4, NextMultiple
<1> HIDE DEF S
<1>5. \A i \in Nat : i \in S
  BY <1>3, <1>4, NatSetInduction
<1>6. ASSUME NEW i \in 0..n PROVE FlatStart(ss, i) = i * g
  <2>1. i \in Nat /\ i <= n
    OBVIOUS
  <2> QED
    BY <1>5, <2>1 DEF S
<1> QED
  BY <1>6

(* Every position below n * g is in one of n parts of length g.            *)
LEMMA PositionInPart ==
    ASSUME NEW g \in Nat \ {0}, NEW n \in Nat, NEW p \in 1..n*g
    PROVE  \E i \in 1..n : \E j \in 1..g : p = (i - 1) * g + j
<1> DEFINE q == (p - 1) \div g
           r == (p - 1) % g
<1>1. n * g \in Nat /\ p \in Nat /\ p - 1 \in Nat /\ p <= n * g
  OBVIOUS
<1>2. q \in Nat /\ r \in 0..g-1 /\ p - 1 = q * g + r
  BY <1>1, DivMod
<1> HIDE DEF q, r
<1>3. q < n
  <2> SUFFICES ASSUME q >= n PROVE FALSE
    BY <1>2
  <2>1. PICK k \in Nat : q = n + k
    <3>1. q - n \in Nat /\ q = n + (q - n)
      BY <1>2
    <3> QED
      BY <3>1
  <2>2. q * g = n * g + k * g /\ k * g \in Nat /\ q * g \in Nat
    BY <2>1
  <2> DEFINE ng == n * g
             kg == k * g
             qg == q * g
  <2>3. qg = ng + kg /\ kg \in Nat /\ ng \in Nat /\ p <= ng /\ p - 1 = qg + r
    BY <1>1, <1>2, <2>2
  <2> HIDE DEF ng, kg, qg
  <2> QED
    BY <1>1, <1>2, <2>3
<1>4. q + 1 \in 1..n /\ (q + 1) - 1 = q /\ r + 1 \in 1..g
  BY <1>2, <1>3
<1>5. p = ((q + 1) - 1) * g + (r + 1)
  <2> DEFINE qg == q * g
  <2>1. qg \in Nat /\ p - 1 = qg + r
    BY <1>2
  <2> HIDE DEF qg
  <2>2. p = qg + (r + 1)
    BY <1>1, <1>2, <2>1
  <2> QED
    BY <1>4, <2>2 DEF qg
<1> QED
  BY <1>4, <1>5

(* What was read is the beginning of what was encoded.                     *)
LEMMA ReadIsPrefix ==
    ASSUME Types, blobs \in Seq(Seq(u8)), NEW n \in Nat, Progress(n)
    PROVE  LET read == FlattenSeq([i \in DOMAIN items |-> items[i].blobs])
           IN  Len(read) = n * group /\ IsPrefix(read, blobs)
<1> DEFINE g == group
           l == Len(items)
           D == Seq(u8)
           ss == [i \in 1..l |-> items[i].blobs]
           read == FlattenSeq(ss)
           m == n * g
<1>1. /\ g \in Nat \ {0} /\ items \in Seq(Item) /\ \A i \in 1..l : Whole(items[i], g)
  BY DEF Types
<1>2. l \in Nat /\ DOMAIN items = 1..l /\ \A i \in 1..l : items[i] \in Item
  BY <1>1, LenProperties, ElementOfSeq
<1>3. ASSUME NEW i \in 1..l PROVE items[i].blobs \in Seq(D)
  BY <1>2 DEF Item
<1>4. ss \in [1..l -> Seq(D)] /\ \A i \in 1..l : ss[i] = items[i].blobs
  BY <1>3, Zenon
<1> HIDE DEF ss
<1>5. ss \in Seq(Seq(D)) /\ Len(ss) = l
  BY <1>2, <1>4, FunctionIsSeq
<1>6. /\ m <= Len(blobs) /\ n <= l
      /\ \A i \in 1..n : items[i] = GroupItem(i)
      /\ \/ l = n
         \/ l = n + 1 /\ items[n + 1].res = "NotEnoughElements"
  BY DEF Progress
<1>7. m \in Nat /\ Len(blobs) \in Nat
  BY <1>1, NextMultiple, LenProperties
<1>8. ASSUME NEW i \in 1..n
      PROVE  /\ (i - 1) * g \in Nat /\ (i - 1) * g + g <= m /\ i \in 1..l
             /\ ss[i] = SubSeq(blobs, (i - 1) * g + 1, (i - 1) * g + g)
             /\ ss[i] \in Seq(D) /\ Len(ss[i]) = g
             /\ \A j \in 1..g : ss[i][j] = blobs[(i - 1) * g + j]
  <2> DEFINE a == (i - 1) * g
  <2>1. i - 1 \in Nat /\ i \in 1..l /\ n - i \in Nat
    <3>1. l \in Nat /\ n <= l
      BY <1>2, <1>6
    <3> HIDE DEF l
    <3> QED
      BY <3>1
  <2>2. a \in Nat /\ ((i - 1) + 1) * g = a + g /\ (i - 1) + 1 = i
    BY <1>1, <2>1, NextMultiple
  <2>3. m = i * g + (n - i) * g /\ (n - i) * g \in Nat /\ i * g = a + g
    <3>1. \A x, y \in Nat : (x + y) * g = x * g + y * g /\ y * g \in Nat
      BY <1>1
    <3>2. i + (n - i) = n /\ i \in Nat
      OBVIOUS
    <3> QED
      BY <2>1, <2>2, <3>1, <3>2
  <2>4. a + g <= m /\ a + g \in Nat /\ a <= a + g /\ a + g <= Len(blobs) /\ (a + g) - a = g
    <3> DEFINE b == (n - i) * g
               c == i * g
    <3>1. m = c + b /\ b \in Nat /\ c = a + g
      BY <2>3
    <3> HIDE DEF a, b, c, m
    <3> QED
      BY <1>1, <1>6, <1>7, <2>2, <3>1
  <2>5. items[i] = GroupItem(i)
    BY <1>6
  <2>6. GroupItem(i).blobs = SubSeq(blobs, a + 1, a + g)
    BY DEF GroupItem
  <2>7. ss[i] = SubSeq(blobs, a + 1, a + g)
    BY <1>4, <2>1, <2>5, <2>6, Zenon
  <2> HIDE DEF a
  <2> DEFINE s == SubSeq(blobs, a + 1, a + g)
  <2>8. s \in Seq(D) /\ Len(s) = (a + g) - a /\ \A j \in 1..(a+g)-a : s[j] = blobs[a + j]
    <3> DEFINE e == a + g
    <3>1. a \in Nat /\ e \in Nat /\ a <= e /\ e <= Len(blobs)
      BY <2>2, <2>4
    <3> HIDE DEF e
    <3>2. /\ SubSeq(blobs, a + 1, e) \in Seq(D)
          /\ Len(SubSeq(blobs, a + 1, e)) = e - a
          /\ \A j \in 1..e-a : SubSeq(blobs, a + 1, e)[j] = blobs[a + j]
      <4>1. IsSlice(SubSeq(blobs, a + 1, e), blobs, a, e, D)
        BY <3>1, SliceIs, Zenon
      <4> QED
        BY <4>1, Zenon DEF IsSlice
    <3> QED
      BY <3>2, Zenon DEF e
  <2>9. /\ ss[i] \in Seq(D) /\ Len(ss[i]) = g /\ \A j \in 1..g : ss[i][j] = blobs[a + j]
    BY <2>4, <2>7, <2>8, Zenon
  <2> QED
    BY <2>1, <2>2, <2>4, <2>7, <2>9, Zenon DEF a
<1>9. \A i \in 0..n : FlatStart(ss, i) = i * g
  BY <1>1, <1>5, <1>6, <1>8, EvenParts, Zenon
<1>10. FlatStart(ss, n) = m
  <2>1. n \in 0..n
    OBVIOUS
  <2> QED
    BY <1>9, <2>1, Zenon
<1>11. /\ read \in Seq(D) /\ FlatStart(ss, l) = Len(read)
       /\ \A i \in 1..l : FlatStart(ss, i) = FlatStart(ss, i - 1) + Len(ss[i])
       /\ \A i \in 1..l : \A j \in 1..Len(ss[i]) : read[FlatStart(ss, i - 1) + j] = ss[i][j]
  <2>1. /\ read \in Seq(D) /\ FlatStart(ss, Len(ss)) = Len(read)
        /\ \A i \in 1..Len(ss) :
              /\ FlatStart(ss, i) = FlatStart(ss, i - 1) + Len(ss[i])
              /\ \A j \in 1..Len(ss[i]) : read[FlatStart(ss, i - 1) + j] = ss[i][j]
    BY <1>5, FlattenParts, Zenon
  <2> QED
    BY <1>5, <2>1, Zenon
<1> HIDE DEF read
<1>12. Len(read) = m
  <2>1. CASE l = n
    BY <1>10, <1>11, <2>1, Zenon
  <2>2. CASE l = n + 1 /\ items[n + 1].res = "NotEnoughElements"
    <3>1. n + 1 \in 1..l /\ (n + 1) - 1 = n
      <4>1. l \in Nat /\ l = n + 1
        BY <1>2, <2>2
      <4> HIDE DEF l
      <4> QED
        BY <4>1
    <3>2. items[n + 1].blobs = <<>>
      BY <1>1, <2>2, <3>1 DEF Whole
    <3>3. ss[n + 1] = <<>> /\ Len(<<>>) = 0
      BY <1>4, <3>1, <3>2
    <3>4. FlatStart(ss, n + 1) = m + 0
      BY <1>10, <1>11, <3>1, <3>3, Zenon
    <3>5. m + 0 = m
      <4> HIDE DEF m
      <4> QED
        BY <1>7
    <3> QED
      BY <1>11, <2>2, <3>4, <3>5, Zenon
  <2> QED
    BY <1>6, <2>1, <2>2
<1>13. ASSUME NEW p \in 1..m PROVE read[p] = blobs[p]
  <2>1. PICK i \in 1..n : \E j \in 1..g : p = (i - 1) * g + j
    BY <1>1, PositionInPart
  <2>2. PICK j \in 1..g : p = (i - 1) * g + j
    BY <2>1
  <2>3. i - 1 \in 0..n
    OBVIOUS
  <2>4. FlatStart(ss, i - 1) = (i - 1) * g
    BY <1>9, <2>3, Zenon
  <2>5. read[FlatStart(ss, i - 1) + j] = ss[i][j]
    BY <1>8, <1>11, Zenon
  <2> QED
    BY <1>8, <2>2, <2>4, <2>5, Zenon
<1> HIDE DEF m
<1>14. SubSeq(read, 1, m) = SubSeq(blobs, 1, m)
  <2>1. 0 \in Nat /\ 0 + 1 = 1 /\ 0 <= m /\ m <= Len(read) /\ m - 0 = m /\ \A j \in 1..m : 0 + j = j
    BY <1>7, <1>12
  <2> DEFINE a == SubSeq(read, 1, m)
             b == SubSeq(blobs, 1, m)
  <2>2. /\ SubSeq(read, 0 + 1, m) \in Seq(D) /\ Len(SubSeq(read, 0 + 1, m)) = m - 0
        /\ \A j \in 1..m-0 : SubSeq(read, 0 + 1, m)[j] = read[0 + j]
    BY <1>7, <1>11, <2>1, SliceElements
  <2>3. /\ SubSeq(blobs, 0 + 1, m) \in Seq(D) /\ Len(SubSeq(blobs, 0 + 1, m)) = m - 0
        /\ \A j \in 1..m-0 : SubSeq(blobs, 0 + 1, m)[j] = blobs[0 + j]
    BY <1>6, <1>7, <2>1, SliceElements
  <2>4. /\ a \in Seq(D) /\ Len(a) = m /\ \A j \in 1..m : a[j] = read[j]
        /\ b \in Seq(D) /\ Len(b) = m /\ \A j \in 1..m : b[j] = blobs[j]
    BY <2>1, <2>2, <2>3, Zenon
  <2> HIDE DEF a, b
  <2>5. a = b
    BY <1>13, <2>4, SameSeq, Zenon
  <2> QED
    BY <2>5 DEF a, b
<1>15. IsPrefix(read, blobs)
  BY <1>6, <1>12, <1>14, Zenon DEF IsPrefix
<1>16. read = FlattenSeq([i \in DOMAIN items |-> items[i].blobs])
  BY <1>2, Zenon DEF read, ss
<1> QED
  BY <1>12, <1>15, <1>16, Zenon DEF m

(* Groups that fill what is there: their number, rounded down and up.      *)
LEMMA WholeGroups ==
    ASSUME NEW g \in Nat \ {0}, NEW n \in Nat, NEW len \in Nat, len = n * g
    PROVE  len \div g = n /\ (len + g - 1) \div g = n /\ g * (len \div g) = len
<1>1. 0 \in 0..g-1 /\ g - 1 \in 0..g-1
  OBVIOUS
<1>2. (n * g + 0) \div g = n /\ (n * g + (g - 1)) \div g = n
  BY <1>1, DivUnique
<1>3. n * g + 0 = len /\ n * g + (g - 1) = len + g - 1 /\ g * n = n * g
  OBVIOUS
<1>4. len \div g = n /\ (len + g - 1) \div g = n
  BY <1>2, <1>3
<1> QED
  BY <1>3, <1>4, Zenon

(* Groups of which the last is incomplete.                                 *)
LEMMA PartGroups ==
    ASSUME NEW g \in Nat \ {0}, NEW n \in Nat, NEW len \in Nat, n * g < len, len < n * g + g
    PROVE  /\ len % g # 0 /\ g * (len \div g) = n * g
           /\ (len + g - 1) \div g = n + 1
<1> DEFINE m == n * g
           r == len - m
<1>1. m \in Nat
  BY NextMultiple
<1>2. r \in 0..g-1 /\ r - 1 \in 0..g-1 /\ r # 0 /\ m + r = len
  <2>1. m < len /\ len < m + g
    OBVIOUS
  <2> HIDE DEF m
  <2> QED
    BY <1>1, <2>1
<1> HIDE DEF r
<1>3. (n * g + r) \div g = n /\ (n * g + r) % g = r
  BY <1>2, DivUnique
<1>4. len \div g = n /\ len % g = r
  BY <1>2, <1>3
<1>5. ((n + 1) * g + (r - 1)) \div g = n + 1
  BY <1>2, DivUnique
<1>6. (n + 1) * g = m + g
  BY NextMultiple
<1>7. (m + g) + (r - 1) = len + g - 1
  <2> HIDE DEF m
  <2> QED
    BY <1>1, <1>2
<1>8. (len + g - 1) \div g = n + 1
  BY <1>5, <1>6, <1>7, Zenon
<1>9. g * n = n * g
  OBVIOUS
<1> QED
  BY <1>2, <1>4, <1>8, <1>9, Zenon

(* The items read so far, from the progress through the blobs.             *)
LEMMA ProgressItems ==
    ASSUME Types, blobs \in Seq(Seq(u8)), NEW n \in Nat, Progress(n)
    PROVE  /\ \A i \in 1..Len(items) : items[i].res \in {"ok", "NotEnoughElements"}
           /\ (\E i \in 1..Len(items) : items[i].res # "ok") => Len(blobs) % group # 0
           /\ phase = "ended" =>
                 /\ n * group = group * (Len(blobs) \div group)
                 /\ Len(items) = (Len(blobs) + group - 1) \div group
<1> DEFINE g == group
           l == Len(items)
           len == Len(blobs)
<1>1. g \in Nat \ {0} /\ l \in Nat /\ len \in Nat
  <2>1. items \in Seq(Item) /\ group \in Nat \ {0}
    BY DEF Types
  <2> QED
    BY <2>1, LenProperties
<1>2. ASSUME NEW i \in 1..n PROVE items[i].res = "ok"
  <2>1. items[i] = GroupItem(i)
    BY DEF Progress
  <2> QED
    BY <2>1 DEF GroupItem
<1>3. /\ n <= l
      /\ \/ /\ l = n /\ (phase = "ended" => n * g = len)
         \/ /\ l = n + 1 /\ items[n + 1].res = "NotEnoughElements"
            /\ n * g < len /\ len < n * g + g
  BY DEF Progress
<1> HIDE DEF g, l, len
<1>4. CASE l = n /\ (phase = "ended" => n * g = len)
  <2>1. \A i \in 1..l : items[i].res = "ok"
    BY <1>2, <1>4, Zenon
  <2>2. phase = "ended" => n * g = g * (len \div g) /\ l = (len + g - 1) \div g
    <3> SUFFICES ASSUME phase = "ended"
                 PROVE  n * g = g * (len \div g) /\ l = (len + g - 1) \div g
      OBVIOUS
    <3>1. len = n * g
      BY <1>4
    <3>2. (len + g - 1) \div g = n /\ g * (len \div g) = len
      BY <1>1, <3>1, WholeGroups, Zenon
    <3> QED
      BY <1>4, <3>1, <3>2, Zenon
  <2> QED
    BY <2>1, <2>2, Zenon DEF g, l, len
<1>5. CASE /\ l = n + 1 /\ items[n + 1].res = "NotEnoughElements"
           /\ n * g < len /\ len < n * g + g
  <2>1. ASSUME NEW i \in 1..l PROVE i \in 1..n \/ i = n + 1
    BY <1>1, <1>5
  <2>2. \A i \in 1..l : items[i].res \in {"ok", "NotEnoughElements"}
    BY <1>2, <1>5, <2>1, Zenon
  <2>3. len % g # 0 /\ g * (len \div g) = n * g /\ (len + g - 1) \div g = n + 1
    BY <1>1, <1>5, PartGroups, Zenon
  <2> QED
    BY <1>5, <2>2, <2>3, Zenon DEF g, l, len
<1> QED
  BY <1>3, <1>4, <1>5

(* Nothing read is the beginning of anything.                              *)
LEMMA NothingRead ==
    ASSUME NEW bs \in Seq(Seq(u8)), items = <<>>
    PROVE  IsPrefix(FlattenSeq([i \in DOMAIN items |-> items[i].blobs]), bs)
<1> DEFINE ss == [i \in DOMAIN items |-> items[i].blobs]
           D == Seq(u8)
<1>1. DOMAIN items = 1..0 /\ \A i \in 1..0 : FALSE
  OBVIOUS
<1>2. ss \in [1..0 -> Seq(D)]
  BY <1>1, Zenon
<1> HIDE DEF ss
<1>3. ss \in Seq(Seq(D)) /\ Len(ss) = 0
  BY <1>2, FunctionIsSeq
<1>4. FlattenSeq(ss) \in Seq(D) /\ Len(FlattenSeq(ss)) = 0
  BY <1>3, FlattenParts, Zenon
<1>5. FlattenSeq(ss) = <<>>
  <2> HIDE DEF D
  <2> QED
    BY <1>4, EmptySeq
<1>6. Len(<<>>) <= Len(bs) /\ SubSeq(<<>>, 1, Len(<<>>)) = SubSeq(bs, 1, Len(<<>>))
  OBVIOUS
<1>7. IsPrefix(<<>>, bs)
  BY <1>6 DEF IsPrefix
<1> QED
  BY <1>5, <1>7, Zenon DEF ss

(* The round trip: what encode_blobs wrote, BlobIterator::new accepts with *)
(* the index length that was announced, and next() returns the blobs in    *)
(* order and in whole groups, with an error exactly for an incomplete last *)
(* group, for all blobs and all group sizes.                               *)
THEOREM BlobbyRoundTrip == ToolSpec => []RoundTrip
<1>1. IInv => RoundTrip
  <2> SUFFICES ASSUME IInv, encoded PROVE RoundTrip
    BY DEF RoundTrip
  <2> DEFINE read == FlattenSeq([i \in DOMAIN items |-> items[i].blobs])
  <2>1. Types /\ Order /\ Decodes
    BY DEF IInv, BlobbyInv
  <2>2. /\ blobs \in Seq(Seq(u8)) /\ phase \in {"data", "reading", "ended"}
        /\ phase # "data" => Len(dedup) = idx_len /\ \E n \in Nat : Progress(n)
    BY <2>1 DEF Decodes
  <2>3. DOMAIN items = 1..Len(items)
    BY <2>1, LenProperties DEF Types
  <2>4. CASE phase = "data"
    <3>1. items = <<>>
      BY <2>1, <2>4 DEF Order
    <3>2. IsPrefix(read, blobs)
      BY <2>2, <3>1, NothingRead, Zenon
    <3>3. \A i \in DOMAIN items : FALSE
      BY <3>1
    <3>4. phase # "ended"
      BY <2>4
    <3> HIDE DEF read
    <3>5. RoundTrip <=>
             (encoded =>
                /\ phase \in {"data", "reading", "ended"}
                /\ phase # "data" => Len(dedup) = idx_len
                /\ IsPrefix(read, blobs)
                /\ \A i \in DOMAIN items : items[i].res \in {"ok", "NotEnoughElements"}
                /\ (\E i \in DOMAIN items : items[i].res # "ok") => Len(blobs) % group # 0
                /\ phase = "ended" =>
                      /\ Len(read) = group * (Len(blobs) \div group)
                      /\ Len(items) = (Len(blobs) + group - 1) \div group)
      BY Zenon DEF RoundTrip, read
    <3> QED
      BY <2>2, <2>4, <3>2, <3>3, <3>4, <3>5, Zenon
  <2>5. CASE phase # "data"
    <3>1. PICK n \in Nat : Progress(n)
      BY <2>2, <2>5
    <3>2. Len(read) = n * group /\ IsPrefix(read, blobs)
      BY <2>1, <2>2, <3>1, ReadIsPrefix, Zenon
    <3>3. /\ \A i \in 1..Len(items) : items[i].res \in {"ok", "NotEnoughElements"}
          /\ (\E i \in 1..Len(items) : items[i].res # "ok") => Len(blobs) % group # 0
          /\ phase = "ended" =>
                /\ n * group = group * (Len(blobs) \div group)
                /\ Len(items) = (Len(blobs) + group - 1) \div group
      BY <2>1, <2>2, <3>1, ProgressItems, Zenon
    <3> HIDE DEF read
    <3>4. /\ IsPrefix(read, blobs)
          /\ \A i \in DOMAIN items : items[i].res \in {"ok", "NotEnoughElements"}
          /\ (\E i \in DOMAIN items : items[i].res # "ok") => Len(blobs) % group # 0
          /\ phase = "ended" =>
                /\ Len(read) = group * (Len(blobs) \div group)
                /\ Len(items) = (Len(blobs) + group - 1) \div group
      BY <2>3, <3>2, <3>3, Zenon
    <3> QED
      BY <2>2, <2>5, <3>4, Zenon DEF RoundTrip, read
  <2> QED
    BY <2>4, <2>5
<1> QED
  BY <1>1, ToolInvariant, PTL

-----------------------------------------------------------------------------
(* The tool's output.  The case a description names, and that its number i *)
(* is described and its data are number i of the data.                     *)
CaseAt(c, id) == c.suite.groups[id[1]].tests[id[2]]
Described(c, i) ==
    \E q \in Cases(c) : /\ Descs(c)[i].id = q
                        /\ Descs(c)[i].result = CaseAt(c, q).result
                        /\ Datas(c)[i] = Data(c.generator, c.suite.groups[q[1]], CaseAt(c, q))

(* A case is named by a pair.                                              *)
LEMMA CasePair ==
    ASSUME NEW c, NEW q \in Cases(c)
    PROVE  /\ <<q[1], q[2]>> = q /\ q[1] \in 1..Len(c.suite.groups)
           /\ q[2] \in 1..Len(Tests(c, q[1])) /\ Selects(c, q[1], q[2])
<1>1. q \in Nat \X Nat
  BY Zenon DEF Cases
<1>2. <<q[1], q[2]>> = q
  BY <1>1
<1> QED
  BY <1>2, Zenon DEF Cases

(* The fields of a TestInfo.                                               *)
LEMMA InfoFields ==
    ASSUME NEW c, NEW gi, NEW ti
    PROVE  /\ InfoOf(c, gi, ti).data = Data(c.generator, c.suite.groups[gi], Tests(c, gi)[ti])
           /\ InfoOf(c, gi, ti).desc.id = <<gi, ti>>
           /\ InfoOf(c, gi, ti).desc.result = Tests(c, gi)[ti].result
BY DEF InfoOf

(* Descriptions and data go together.                                      *)
LEMMA InfosDescribed ==
    ASSUME NEW c \in Calls
    PROVE  /\ DOMAIN Descs(c) = 1..Len(Infos(c)) /\ Len(Descs(c)) = Len(Infos(c))
           /\ \A i \in 1..Len(Infos(c)) : Described(c, i)
<1>1. /\ Len(Infos(c)) \in Nat /\ DOMAIN Infos(c) = 1..Len(Infos(c))
      /\ \A i \in 1..Len(Infos(c)) :
            /\ Datas(c)[i] = Infos(c)[i].data
            /\ \E q \in Cases(c) : Infos(c)[i] = InfoOf(c, q[1], q[2])
  BY DatasType, Zenon
<1>2. /\ DOMAIN Descs(c) = 1..Len(Infos(c))
      /\ \A i \in 1..Len(Infos(c)) : Descs(c)[i] = Infos(c)[i].desc
  BY <1>1, Zenon DEF Descs
<1>3. Len(Descs(c)) = Len(Infos(c))
  <2> DEFINE n == Len(Infos(c))
             f == Descs(c)
             T == {f[i] : i \in 1..n}
  <2>1. f = [i \in 1..n |-> f[i]] /\ \A i \in 1..n : f[i] \in T
    BY <1>1, <1>2, Zenon DEF Descs
  <2> HIDE DEF f, T
  <2>2. f \in [1..n -> T]
    BY <2>1, Zenon
  <2> HIDE DEF n
  <2>3. n \in Nat
    BY <1>1, Zenon DEF n
  <2>4. Len(f) = n
    BY <2>2, <2>3, FunctionIsSeq
  <2> QED
    BY <2>4, Zenon DEF f, n
<1>4. ASSUME NEW i \in 1..Len(Infos(c)) PROVE Described(c, i)
  <2>1. PICK q \in Cases(c) : Infos(c)[i] = InfoOf(c, q[1], q[2])
    BY <1>1, Zenon
  <2>2. <<q[1], q[2]>> = q
    BY CasePair, Zenon
  <2>3. Datas(c)[i] = InfoOf(c, q[1], q[2]).data /\ Descs(c)[i] = InfoOf(c, q[1], q[2]).desc
    BY <1>1, <1>2, <2>1, Zenon
  <2>4. /\ InfoOf(c, q[1], q[2]).data = Data(c.generator, c.suite.groups[q[1]], CaseAt(c, q))
        /\ InfoOf(c, q[1], q[2]).desc.id = <<q[1], q[2]>>
        /\ InfoOf(c, q[1], q[2]).desc.result = CaseAt(c, q).result
    BY InfoFields DEF CaseAt, Tests
  <2>5. /\ Descs(c)[i].id = q /\ Descs(c)[i].result = CaseAt(c, q).result
        /\ Datas(c)[i] = Data(c.generator, c.suite.groups[q[1]], CaseAt(c, q))
    BY <2>2, <2>3, <2>4
  <2> QED
    BY <2>5, Zenon DEF Described
<1> QED
  BY <1>2, <1>3, <1>4, Zenon

(* A valid case of the size that was asked for is described.               *)
LEMMA ValidDescribed ==
    ASSUME NEW c \in Calls, NEW gi \in 1..Len(c.suite.groups), NEW ti \in 1..Len(Tests(c, gi)),
           KeySize(c.generator, c.key_size) \in {0, c.suite.groups[gi].key_size},
           c.generator \in Aead => c.suite.groups[gi].iv_size = IvSize(c.generator),
           Tests(c, gi)[ti].result = "valid"
    PROVE  \E i \in 1..Len(Infos(c)) : Descs(c)[i].id = <<gi, ti>>
<1>1. Selects(c, gi, ti)
  <2>1. "valid" # "acceptable"
    OBVIOUS
  <2> QED
    BY <2>1, Zenon DEF Selects, Selected
<1>2. gi \in Nat /\ ti \in Nat
  BY SuiteType
<1> DEFINE q == <<gi, ti>>
<1>3. q \in Nat \X Nat /\ q[1] = gi /\ q[2] = ti
  BY <1>2
<1> HIDE DEF q
<1>4. q \in Cases(c)
  BY <1>1, <1>3, Zenon DEF Cases
<1>5. PICK i \in 1..Len(Infos(c)) : Infos(c)[i] = InfoOf(c, gi, ti)
  BY <1>3, <1>4, InfosType, Zenon
<1>6. DOMAIN Infos(c) = 1..Len(Infos(c))
  BY DatasType, Zenon
<1>7. Descs(c)[i] = Infos(c)[i].desc
  BY <1>6, Zenon DEF Descs
<1>8. Descs(c)[i].id = <<gi, ti>>
  <2>1. InfoOf(c, gi, ti).desc.id = <<gi, ti>>
    BY InfoFields
  <2>2. Descs(c)[i] = InfoOf(c, gi, ti).desc
    BY <1>5, <1>7, Zenon
  <2> QED
    BY <2>1, <2>2
<1> QED
  BY <1>8, Zenon

(* A described case must pass or must fail.                                *)
LEMMA DescribedResult ==
    ASSUME NEW c \in Calls, ~GeneratorPanics(c), NEW q \in Cases(c)
    PROVE  CaseAt(c, q).result \in {"valid", "invalid"}
<1> DEFINE gi == q[1]
           ti == q[2]
<1>1. /\ gi \in 1..Len(c.suite.groups) /\ ti \in 1..Len(Tests(c, gi)) /\ Selects(c, gi, ti)
  BY CasePair, Zenon
<1>2. /\ DOMAIN c.suite.groups = 1..Len(c.suite.groups)
      /\ DOMAIN Tests(c, gi) = 1..Len(Tests(c, gi)) /\ Tests(c, gi)[ti] \in TestCase
  BY <1>1, SuiteType, Zenon
<1> HIDE DEF gi, ti
<1>3. CaseAt(c, q) = Tests(c, gi)[ti]
  BY Zenon DEF CaseAt, Tests, gi, ti
<1>4. Tests(c, gi)[ti].result \in Results
  BY <1>2 DEF TestCase
<1>5. CASE HasResult(c.generator)
  <2>1. Tests(c, gi)[ti].result # "acceptable"
    BY <1>1, <1>2, <1>5, Zenon DEF GeneratorPanics, Selects, Tests
  <2> QED
    BY <1>3, <1>4, <2>1 DEF Results
<1>6. CASE ~HasResult(c.generator)
  <2>1. c.generator \in {"mac", "hkdf"}
    BY <1>6 DEF HasResult
  <2>2. Tests(c, gi)[ti].result = "valid"
    BY <1>1, <2>1, Zenon DEF Selects, Selected
  <2> QED
    BY <1>3, <2>2
<1> QED
  BY <1>5, <1>6

(* Multiples are ordered as what they are multiples of.                    *)
LEMMA MultipleOrder ==
    ASSUME NEW g \in Nat \ {0}, NEW n \in Nat, NEW m \in Nat
    PROVE  /\ n * g <= m * g => n <= m
           /\ n * g = m * g => n = m
           /\ n * g < m * g => n * g + g <= m * g
<1>1. \A x, y \in Nat : x < y => x * g + g <= y * g
  <2> SUFFICES ASSUME NEW x \in Nat, NEW y \in Nat, x < y PROVE x * g + g <= y * g
    OBVIOUS
  <2>1. PICK k \in Nat : y = (x + 1) + k
    <3>1. y - (x + 1) \in Nat /\ y = (x + 1) + (y - (x + 1))
      OBVIOUS
    <3> QED
      BY <3>1
  <2>2. y * g = (x * g + g) + k * g /\ k * g \in Nat /\ x * g + g \in Nat
    BY <2>1
  <2> DEFINE a == x * g + g
             b == k * g
  <2>3. y * g = a + b /\ a \in Nat /\ b \in Nat
    BY <2>2
  <2> HIDE DEF a, b
  <2>4. a <= y * g
    BY <2>3
  <2> QED
    BY <2>4 DEF a
<1> DEFINE ng == n * g
           mg == m * g
<1>2. ng \in Nat /\ mg \in Nat
  BY NextMultiple
<1>3. (n < m => ng + g <= mg) /\ (m < n => mg + g <= ng) /\ (n = m => ng = mg)
  BY <1>1
<1> HIDE DEF ng, mg
<1>4. (ng <= mg => n <= m) /\ (ng = mg => n = m) /\ (ng < mg => ng + g <= mg)
  BY <1>2, <1>3
<1> QED
  BY <1>4 DEF ng, mg

(* Groups of the generator's width are the data of the cases.              *)
LEMMA OutputRead ==
    ASSUME Types, NEW c \in Calls, blobs = FlattenSeq(Datas(c)), group = Width(c.generator),
           NEW n \in Nat, Progress(n)
    PROVE  /\ Len(items) = n /\ n <= Len(Infos(c))
           /\ phase = "ended" => n = Len(Infos(c))
           /\ \A i \in 1..n : items[i].res = "ok" /\ items[i].blobs = Datas(c)[i]
<1> DEFINE g == group
           N == Len(Infos(c))
           ss == Datas(c)
           D == Seq(u8)
<1>1. /\ N \in Nat /\ ss \in Seq(Seq(D)) /\ Len(ss) = N /\ g \in Nat \ {0}
      /\ blobs \in Seq(D) /\ \A i \in 1..N : Len(ss[i]) = g
  BY DatasType, Zenon
<1> HIDE DEF N, ss
<1>2. N <= Len(ss)
  BY <1>1
<1>3. \A i \in 0..N : FlatStart(ss, i) = i * g
  BY <1>1, <1>2, EvenParts, Zenon
<1>4. /\ FlatStart(ss, N) = Len(blobs)
      /\ \A i \in 1..N : \A j \in 1..Len(ss[i]) : blobs[FlatStart(ss, i - 1) + j] = ss[i][j]
  <2>1. /\ FlatStart(ss, Len(ss)) = Len(FlattenSeq(ss))
        /\ \A i \in 1..Len(ss) :
              \A j \in 1..Len(ss[i]) : FlattenSeq(ss)[FlatStart(ss, i - 1) + j] = ss[i][j]
    BY <1>1, FlattenParts, Zenon
  <2>2. blobs = FlattenSeq(ss)
    BY Zenon DEF ss
  <2> QED
    BY <1>1, <2>1, <2>2, Zenon
<1>5. Len(blobs) = N * g
  <2>1. N \in 0..N
    BY <1>1
  <2> QED
    BY <1>3, <1>4, <2>1, Zenon
<1>6. /\ n * g <= Len(blobs)
      /\ \A i \in 1..n : items[i] = GroupItem(i)
      /\ \/ Len(items) = n /\ (phase = "ended" => n * g = Len(blobs))
         \/ n * g < Len(blobs) /\ Len(blobs) < n * g + g
  BY Zenon DEF Progress
<1>7. n * g \in Nat /\ N * g \in Nat
  BY <1>1, NextMultiple
<1>8. /\ n * g <= N * g => n <= N
      /\ n * g = N * g => n = N
      /\ n * g < N * g => n * g + g <= N * g
  BY <1>1, MultipleOrder
<1>9. ~(n * g < N * g /\ N * g < n * g + g)
  <2> DEFINE a == n * g
             b == N * g
  <2>1. a \in Nat /\ b \in Nat /\ (a < b => a + g <= b)
    BY <1>7, <1>8
  <2> HIDE DEF a, b
  <2>2. ~(a < b /\ b < a + g)
    BY <1>1, <2>1
  <2> QED
    BY <2>2 DEF a, b
<1>10. n <= N /\ Len(items) = n /\ (phase = "ended" => n = N)
  BY <1>5, <1>6, <1>8, <1>9, Zenon
<1>11. ASSUME NEW i \in 1..n PROVE items[i].res = "ok" /\ items[i].blobs = ss[i]
  <2> DEFINE a == (i - 1) * g
             e == a + g
  <2>1. i - 1 \in Nat /\ i \in 1..N /\ i - 1 \in 0..N /\ (i - 1) + 1 = i
    BY <1>1, <1>10
  <2>2. a \in Nat /\ i * g = a + g
    <3>1. g \in Nat \ {0}
      BY <1>1
    <3>2. a \in Nat /\ ((i - 1) + 1) * g = a + g
      BY <2>1, <3>1, NextMultiple
    <3> QED
      BY <2>1, <3>2, Zenon
  <2>3. i * g \in Nat /\ FlatStart(ss, i) = i * g /\ FlatStart(ss, i - 1) = a /\ i \in 0..N
    BY <1>1, <1>3, <2>1, NextMultiple
  <2>4. e <= Len(blobs) /\ e \in Nat /\ a <= e /\ e - a = g
    <3>1. i \in 0..Len(ss)
      BY <1>1, <2>1
    <3>2. FlatStart(ss, i) <= Len(blobs)
      BY <1>1, <3>1, FlattenParts, Zenon DEF ss
    <3>3. e <= Len(blobs)
      BY <2>2, <2>3, <3>2, Zenon
    <3>4. g \in Nat
      BY <1>1
    <3> HIDE DEF a
    <3>5. a + g \in Nat /\ a <= a + g /\ (a + g) - a = g
      BY <2>2, <3>4
    <3> QED
      BY <3>3, <3>5, Zenon
  <2>5. GroupItem(i).res = "ok" /\ GroupItem(i).blobs = SubSeq(blobs, a + 1, e)
    BY DEF GroupItem
  <2> HIDE DEF a, e
  <2>6. /\ SubSeq(blobs, a + 1, e) \in Seq(D)
        /\ Len(SubSeq(blobs, a + 1, e)) = e - a
        /\ \A j \in 1..e-a : SubSeq(blobs, a + 1, e)[j] = blobs[a + j]
    <3>1. blobs \in Seq(D) /\ a \in Nat /\ e \in Nat /\ a <= e /\ e <= Len(blobs)
      BY <1>1, <2>2, <2>4, Zenon
    <3> HIDE DEF D
    <3>2. IsSlice(SubSeq(blobs, a + 1, e), blobs, a, e, D)
      BY <3>1, SliceIs, Zenon
    <3> QED
      BY <3>2, Zenon DEF IsSlice
  <2> DEFINE s == SubSeq(blobs, a + 1, e)
  <2>7. s \in Seq(D) /\ Len(s) = g /\ \A j \in 1..g : s[j] = blobs[a + j]
    BY <2>4, <2>6, Zenon
  <2>8. ss[i] \in Seq(D) /\ Len(ss[i]) = g /\ \A j \in 1..g : ss[i][j] = blobs[a + j]
    <3>1. ss[i] \in Seq(D)
      <4> HIDE DEF D
      <4> QED
        BY <1>1, <2>1, ElementOfSeq
    <3> QED
      BY <1>1, <1>4, <2>1, <2>3, <3>1, Zenon
  <2> HIDE DEF s
  <2>9. s = ss[i]
    <3>1. Len(s) = Len(ss[i]) /\ \A j \in 1..Len(s) : s[j] = ss[i][j]
      BY <2>7, <2>8, Zenon
    <3> QED
      BY <2>7, <2>8, <3>1, SameSeq, Zenon
  <2> QED
    BY <1>6, <2>5, <2>9, Zenon DEF s
<1> QED
  BY <1>10, <1>11, Zenon DEF N, ss

(* The result of a case is the last of its blobs, where there is one.      *)
LEMMA ResultIsLast ==
    ASSUME NEW gen \in Generators, NEW g \in TestGroup, NEW tc \in TestCase,
           HasResult(gen), tc.result \in {"valid", "invalid"}
    PROVE  Last(Data(gen, g, tc)) = <<1>> <=> tc.result = "valid"
<1> DEFINE s == Data(gen, g, tc)
<1>1. Len(s) = Width(gen) /\ s[Width(gen)] = case_result(tc)
  BY DataType, Zenon
<1> HIDE DEF s
<1>2. Last(s) = case_result(tc)
  BY <1>1, Zenon DEF Last
<1>3. case_result(tc) = <<IF tc.result = "invalid" THEN 0 ELSE 1>>
  BY DEF case_result
<1>4. CASE tc.result = "valid"
  <2>1. case_result(tc) = <<1>>
    BY <1>3, <1>4
  <2> QED
    BY <1>2, <1>4, <2>1 DEF s
<1>5. CASE tc.result = "invalid"
  <2>1. case_result(tc) = <<0>> /\ <<0>> # <<1>>
    BY <1>3, <1>5
  <2> QED
    BY <1>2, <1>5, <2>1 DEF s
<1> QED
  BY <1>4, <1>5

(* Who reads the tool's output in groups of the generator's width gets the *)
(* described cases, one group for each and in order, with the result as    *)
(* the last blob where the generator writes one; no valid case of the size *)
(* asked for is missing, for all suites and all generators.                *)
THEOREM WycheproofCasesReadBack == ToolSpec => []CasesReadBack
<1>1. IInv => CasesReadBack
  <2> SUFFICES ASSUME IInv, stage = "written", phase \in {"reading", "ended"},
                      group = Width(call.generator)
               PROVE  CasesReadBack
    BY Zenon DEF CasesReadBack
  <2> DEFINE N == Len(Infos(call))
             gs == call.suite.groups
  <2>1. Types /\ encoded /\ Decodes
    BY DEF IInv, BlobbyInv, ToolInv
  <2>2. /\ call \in Calls /\ ~GeneratorPanics(call) /\ txt = Descs(call)
        /\ blobs = FlattenSeq(Datas(call))
    BY DEF IInv, ToolInv
  <2>3. PICK n \in Nat : Progress(n)
    <3>1. phase # "data"
      OBVIOUS
    <3> QED
      BY <2>1, <3>1, Zenon DEF Decodes
  <2>4. /\ Len(items) = n /\ n <= N /\ (phase = "ended" => n = N)
        /\ \A i \in 1..n : items[i].res = "ok" /\ items[i].blobs = Datas(call)[i]
    BY <2>1, <2>2, <2>3, OutputRead, Zenon
  <2>5. /\ DOMAIN txt = 1..N /\ Len(txt) = N /\ N \in Nat
        /\ \A i \in 1..N : Described(call, i)
    BY <2>2, InfosDescribed, DatasType, Zenon
  <2>6. DOMAIN items = 1..n
    <3>1. DOMAIN items = 1..Len(items)
      BY <2>1, LenProperties DEF Types
    <3> QED
      BY <2>4, <3>1, Zenon
  <2>7. /\ call.generator \in Generators
        /\ DOMAIN gs = 1..Len(gs)
        /\ \A gi \in 1..Len(gs) :
              /\ gs[gi] \in TestGroup /\ DOMAIN Tests(call, gi) = 1..Len(Tests(call, gi))
              /\ \A ti \in 1..Len(Tests(call, gi)) : Tests(call, gi)[ti] \in TestCase
    BY <2>2, SuiteType, Zenon
  <2> HIDE DEF N
  <2>8. ASSUME NEW gi \in DOMAIN gs,
               KeySize(call.generator, call.key_size) \in {0, gs[gi].key_size},
               call.generator \in Aead => gs[gi].iv_size = IvSize(call.generator),
               NEW ti \in DOMAIN gs[gi].tests, gs[gi].tests[ti].result = "valid"
        PROVE  \E i \in DOMAIN txt : txt[i].id = <<gi, ti>>
    <3>1. gi \in 1..Len(gs) /\ ti \in 1..Len(Tests(call, gi)) /\ Tests(call, gi)[ti].result = "valid"
      BY <2>7, <2>8, Zenon DEF Tests
    <3>2. \E i \in 1..Len(Infos(call)) : Descs(call)[i].id = <<gi, ti>>
      BY <2>2, <2>8, <3>1, ValidDescribed, Zenon
    <3> QED
      BY <2>2, <2>5, <3>2 DEF N
  <2>9. ASSUME NEW i \in 1..N
        PROVE  /\ txt[i].id \in Cases(call)
               /\ txt[i].result = CaseAt(call, txt[i].id).result
               /\ Datas(call)[i] = Data(call.generator, gs[txt[i].id[1]], CaseAt(call, txt[i].id))
               /\ CaseAt(call, txt[i].id).result \in {"valid", "invalid"}
    <3>1. PICK q \in Cases(call) :
             /\ txt[i].id = q /\ txt[i].result = CaseAt(call, q).result
             /\ Datas(call)[i] = Data(call.generator, gs[q[1]], CaseAt(call, q))
      BY <2>2, <2>5, Zenon DEF Described
    <3>2. CaseAt(call, q).result \in {"valid", "invalid"}
      BY <2>2, DescribedResult, Zenon
    <3> QED
      BY <3>1, <3>2, Zenon
  <2>10. \A i \in DOMAIN txt : txt[i].result \in {"valid", "invalid"}
    BY <2>5, <2>9, Zenon
  <2>11. ASSUME NEW i \in DOMAIN items
         PROVE  /\ items[i].res = "ok"
                /\ items[i].blobs = Data(call.generator, gs[txt[i].id[1]], CaseAt(call, txt[i].id))
                /\ HasResult(call.generator) =>
                      (Last(items[i].blobs) = <<1>> <=> CaseAt(call, txt[i].id).result = "valid")
    <3>1. i \in 1..n /\ i \in 1..N
      BY <2>4, <2>5, <2>6
    <3> DEFINE q == txt[i].id
               tc == CaseAt(call, q)
    <3>2. q \in Cases(call) /\ tc.result \in {"valid", "invalid"}
      BY <2>9, <3>1, Zenon
    <3>3. gs[q[1]] \in TestGroup /\ tc \in TestCase
      <4>1. q[1] \in 1..Len(gs) /\ q[2] \in 1..Len(Tests(call, q[1]))
        BY <3>2, CasePair, Zenon
      <4>2. tc = Tests(call, q[1])[q[2]]
        BY DEF CaseAt, Tests
      <4> HIDE DEF q, tc
      <4> QED
        BY <2>7, <4>1, <4>2, Zenon
    <3>4. items[i].res = "ok" /\ items[i].blobs = Data(call.generator, gs[q[1]], tc)
      BY <2>4, <2>9, <3>1, Zenon
    <3> HIDE DEF q, tc
    <3>5. HasResult(call.generator) =>
             (Last(Data(call.generator, gs[q[1]], tc)) = <<1>> <=> tc.result = "valid")
      BY <2>7, <3>2, <3>3, ResultIsLast, Zenon
    <3>6. HasResult(call.generator) =>
             (Last(items[i].blobs) = <<1>> <=> tc.result = "valid")
      BY <3>4, <3>5
    <3> QED
      BY <3>4, <3>6, Zenon DEF q, tc
  <2>12. Len(items) <= Len(txt) /\ (phase = "ended" => Len(items) = Len(txt))
    BY <2>4, <2>5, Zenon
  <2>13. \A gi \in DOMAIN gs :
           (/\ KeySize(call.generator, call.key_size) \in {0, gs[gi].key_size}
            /\ call.generator \in Aead => gs[gi].iv_size = IvSize(call.generator)) =>
              \A ti \in DOMAIN gs[gi].tests : gs[gi].tests[ti].result = "valid" =>
                 \E i \in DOMAIN txt : txt[i].id = <<gi, ti>>
    BY <2>8, Zenon
  <2> QED
    BY <2>10, <2>11, <2>12, <2>13, Zenon DEF CasesReadBack, CaseAt
<1> QED
  BY <1>1, ToolInvariant, PTL
=============================================================================
