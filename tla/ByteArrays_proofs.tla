------------------------- MODULE ByteArrays_proofs -------------------------
(***************************************************************************)
(* Facts about the operators of ByteArrays and about multiples of a block  *)
(* size, cited by the proofs about the buffers.                            *)
(***************************************************************************)
EXTENDS ByteArrays, SequencesExt, SequenceTheorems, WellFoundedInduction, TLAPS

(* The slice f[a..b] has b - a bytes, those of f from index a on.          *)
LEMMA BytesProps ==
    ASSUME NEW m \in Nat, NEW f \in [0..m-1 -> Byte],
           NEW a \in Nat, NEW b \in Nat, a <= b, b <= m
    PROVE  /\ Bytes(f, a, b) \in Seq(Byte)
           /\ Len(Bytes(f, a, b)) = b - a
           /\ \A i \in 1..b-a : Bytes(f, a, b)[i] = f[a + i - 1]
BY DEF Bytes, Byte

(* Zeros(n) is a slice of n zero bytes.                                    *)
LEMMA ZerosProps ==
    ASSUME NEW n \in Nat
    PROVE  /\ Zeros(n) \in Seq(Byte)
           /\ Len(Zeros(n)) = n
           /\ \A i \in 1..n : Zeros(n)[i] = 0
BY DEF Zeros, Byte

(* Zeroing a range leaves an array of the same length.                     *)
LEMMA ZeroRangeProps ==
    ASSUME NEW m \in Nat, NEW f \in [0..m-1 -> Byte], NEW a \in Int, NEW b \in Int
    PROVE  /\ ZeroRange(f, a, b) \in [0..m-1 -> Byte]
           /\ \A i \in 0..m-1 : ZeroRange(f, a, b)[i] = IF a <= i /\ i < b THEN 0 ELSE f[i]
BY DEF ZeroRange, Byte

(* copy_from_slice writes the slice at its place and nothing elsewhere.    *)
LEMMA OverwriteProps ==
    ASSUME NEW m \in Nat, NEW f \in [0..m-1 -> Byte], NEW at \in Nat,
           NEW s \in Seq(Byte), at + Len(s) <= m
    PROVE  /\ Overwrite(f, at, s) \in [0..m-1 -> Byte]
           /\ \A i \in 1..Len(s) : Overwrite(f, at, s)[at + i - 1] = s[i]
           /\ \A i \in 0..m-1 : i < at \/ i >= at + Len(s) => Overwrite(f, at, s)[i] = f[i]
<1> DEFINE g == Overwrite(f, at, s)
<1>1. Len(s) \in Nat /\ s \in [1..Len(s) -> Byte]
  BY LenProperties
<1>2. /\ DOMAIN g = 0..m-1
      /\ \A i \in 0..m-1 : g[i] = IF at <= i /\ i < at + Len(s) THEN s[i - at + 1] ELSE f[i]
  BY DEF Overwrite
<1>3. \A i \in 0..m-1 : g[i] \in Byte
  <2> SUFFICES ASSUME NEW i \in 0..m-1 PROVE g[i] \in Byte
    OBVIOUS
  <2>1. CASE at <= i /\ i < at + Len(s)
    <3>1. i - at + 1 \in 1..Len(s)
      BY <2>1, <1>1
    <3> QED
      BY <3>1, <2>1, <1>1, <1>2
  <2>2. CASE ~(at <= i /\ i < at + Len(s))
    BY <2>2, <1>2
  <2> QED
    BY <2>1, <2>2
<1>4. g \in [0..m-1 -> Byte]
  BY <1>2, <1>3 DEF Overwrite
<1>5. ASSUME NEW i \in 1..Len(s) PROVE g[at + i - 1] = s[i]
  <2> DEFINE j == at + i - 1
  <2>1. j \in 0..m-1 /\ j - at + 1 = i /\ at <= j /\ j < at + Len(s)
    BY <1>1
  <2>2. g[j] = s[j - at + 1]
    BY <2>1, <1>2
  <2> QED
    BY <2>1, <2>2
<1> QED
  BY <1>2, <1>4, <1>5, <1>1

(* The bytes of a concatenation.                                           *)
LEMMA ConcatProps ==
    ASSUME NEW a \in Seq(Byte), NEW b \in Seq(Byte)
    PROVE  /\ a \o b \in Seq(Byte)
           /\ Len(a) \in Nat /\ Len(b) \in Nat
           /\ Len(a \o b) = Len(a) + Len(b)
           /\ \A i \in 1..Len(a) : (a \o b)[i] = a[i]
           /\ \A i \in 1..Len(b) : (a \o b)[Len(a) + i] = b[i]
<1>1. Len(a) \in Nat /\ Len(b) \in Nat
  BY LenProperties
<1>2. /\ a \o b \in Seq(Byte)
      /\ Len(a \o b) = Len(a) + Len(b)
      /\ \A i \in 1..Len(a) + Len(b) :
            (a \o b)[i] = IF i <= Len(a) THEN a[i] ELSE b[i - Len(a)]
  BY ConcatProperties
<1>3. ASSUME NEW i \in 1..Len(b) PROVE (a \o b)[Len(a) + i] = b[i]
  <2>1. /\ Len(a) + i \in 1..Len(a) + Len(b)
        /\ ~(Len(a) + i <= Len(a))
        /\ (Len(a) + i) - Len(a) = i
    BY <1>1
  <2> QED
    BY <1>2, <2>1
<1>4. ASSUME NEW i \in 1..Len(a) PROVE (a \o b)[i] = a[i]
  <2>1. i \in 1..Len(a) + Len(b) /\ i <= Len(a)
    BY <1>1
  <2> QED
    BY <1>2, <2>1
<1> QED
  BY <1>1, <1>2, <1>3, <1>4

(* A sequence is the concatenation of its two parts.                       *)
LEMMA ConcatEqual ==
    ASSUME NEW a \in Seq(Byte), NEW b \in Seq(Byte), NEW c \in Seq(Byte),
           Len(c) = Len(a) + Len(b),
           \A i \in 1..Len(a) : c[i] = a[i],
           \A i \in 1..Len(b) : c[Len(a) + i] = b[i]
    PROVE  a \o b = c
<1>1. \A i \in 1..Len(a \o b) : (a \o b)[i] = c[i]
  <2> SUFFICES ASSUME NEW i \in 1..Len(a \o b) PROVE (a \o b)[i] = c[i]
    OBVIOUS
  <2>1. Len(a) \in Nat /\ Len(b) \in Nat /\ Len(a \o b) = Len(a) + Len(b)
    BY LenProperties, ConcatProperties
  <2>2. CASE i <= Len(a)
    BY <2>1, <2>2, ConcatProperties
  <2>3. CASE i > Len(a)
    <3>1. i - Len(a) \in 1..Len(b) /\ Len(a) + (i - Len(a)) = i
      BY <2>1, <2>3
    <3>2. (a \o b)[i] = b[i - Len(a)]
      BY <2>1, <2>3, ConcatProperties
    <3> QED
      BY <3>1, <3>2
  <2> QED
    BY <2>1, <2>2, <2>3
<1> QED
  BY <1>1, ConcatProperties, SeqEqual

(* The slice s[a..b] of a sequence.                                        *)
LEMMA SubSeqProps ==
    ASSUME NEW s \in Seq(Byte), NEW a \in Nat, NEW b \in Nat, a <= b, b <= Len(s)
    PROVE  /\ SubSeq(s, a + 1, b) \in Seq(Byte)
           /\ Len(SubSeq(s, a + 1, b)) = b - a
           /\ \A i \in 1..b-a : SubSeq(s, a + 1, b)[i] = s[a + i]
<1>1. Len(s) \in Nat /\ \A i \in 1..Len(s) : s[i] \in Byte
  BY LenProperties, ElementOfSeq
<1>2. a + 1 \in Int /\ b \in Int /\ \A i \in a+1..b : s[i] \in Byte
  BY <1>1
<1>3. /\ SubSeq(s, a + 1, b) \in Seq(Byte)
      /\ Len(SubSeq(s, a + 1, b)) = IF a + 1 <= b THEN b - (a + 1) + 1 ELSE 0
      /\ \A i \in 1..b-(a+1)+1 : SubSeq(s, a + 1, b)[i] = s[(a + 1) + i - 1]
  BY <1>2, SubSeqProperties
<1>4. b - (a + 1) + 1 = b - a /\ \A i \in 1..b-a : (a + 1) + i - 1 = a + i
  OBVIOUS
<1> QED
  BY <1>3, <1>4

(* Concatenation is associative.                                           *)
LEMMA ConcatAssoc ==
    ASSUME NEW a \in Seq(Byte), NEW b \in Seq(Byte), NEW c \in Seq(Byte)
    PROVE  (a \o b) \o c = a \o (b \o c)
<1> DEFINE ab == a \o b
           bc == b \o c
           d == a \o bc
<1>1. /\ ab \in Seq(Byte) /\ Len(ab) = Len(a) + Len(b)
      /\ Len(a) \in Nat /\ Len(b) \in Nat /\ Len(c) \in Nat
      /\ \A i \in 1..Len(a) : ab[i] = a[i]
      /\ \A i \in 1..Len(b) : ab[Len(a) + i] = b[i]
  BY ConcatProps
<1>2. /\ bc \in Seq(Byte) /\ Len(bc) = Len(b) + Len(c)
      /\ \A i \in 1..Len(b) : bc[i] = b[i]
      /\ \A i \in 1..Len(c) : bc[Len(b) + i] = c[i]
  BY ConcatProps
<1> HIDE DEF ab, bc
<1>3. /\ d \in Seq(Byte) /\ Len(d) = Len(a) + Len(bc)
      /\ \A i \in 1..Len(a) : d[i] = a[i]
      /\ \A i \in 1..Len(bc) : d[Len(a) + i] = bc[i]
  BY <1>2, ConcatProps
<1> HIDE DEF d
<1>4. ASSUME NEW i \in 1..Len(ab) PROVE d[i] = ab[i]
  <2>1. CASE i <= Len(a)
    BY <1>1, <1>3, <2>1
  <2>2. CASE i > Len(a)
    <3> DEFINE j == i - Len(a)
    <3>1. j \in 1..Len(b) /\ j \in 1..Len(bc) /\ Len(a) + j = i
      BY <1>1, <1>2, <2>2
    <3> HIDE DEF j
    <3>2. ab[Len(a) + j] = b[j]
      BY <3>1, <1>1
    <3>3. d[Len(a) + j] = bc[j] /\ bc[j] = b[j]
      BY <3>1, <1>2, <1>3
    <3> QED
      BY <3>1, <3>2, <3>3
  <2> QED
    BY <1>1, <2>1, <2>2
<1>5. ASSUME NEW i \in 1..Len(c) PROVE d[Len(ab) + i] = c[i]
  <2>1. Len(b) + i \in 1..Len(bc) /\ Len(a) + (Len(b) + i) = Len(ab) + i
    BY <1>1, <1>2
  <2> QED
    BY <2>1, <1>2, <1>3
<1>6. Len(d) = Len(ab) + Len(c)
  BY <1>1, <1>2, <1>3
<1>7. ab \o c = d
  BY <1>1, <1>3, <1>4, <1>5, <1>6, ConcatEqual
<1> QED
  BY <1>7 DEF ab, bc, d

(* Moving the boundary between two parts of a stream.  Stated with a name   *)
(* for concatenation, which the provers then treat as any operator.        *)
Cat(a, b) == a \o b

(* Associativity of Cat.                                                  *)
LEMMA CatAssoc ==
    ASSUME NEW a \in Seq(Byte), NEW b \in Seq(Byte), NEW c \in Seq(Byte)
    PROVE  Cat(Cat(a, b), c) = Cat(a, Cat(b, c)) /\ Cat(a, b) \in Seq(Byte)
<1>1. a \o b \in Seq(Byte)
  BY ConcatProps
<1> QED
  BY <1>1, ConcatAssoc DEF Cat

(* The same bytes, cut in two ways, appended to what was sent.            *)
LEMMA CatMove ==
    ASSUME NEW a \in Seq(Byte), NEW d \in Seq(Byte), NEW i \in Seq(Byte),
           NEW e \in Seq(Byte), NEW s \in Seq(Byte), Cat(d, i) = Cat(e, s)
    PROVE  Cat(Cat(a, e), s) = Cat(Cat(a, d), i)
<1>1. Cat(Cat(a, e), s) = Cat(a, Cat(e, s))
  BY CatAssoc
<1>2. Cat(Cat(a, d), i) = Cat(a, Cat(d, i))
  BY CatAssoc
<1> QED
  BY <1>1, <1>2

-----------------------------------------------------------------------------
(* Division by a block size.                                               *)
LEMMA DivMod ==
    ASSUME NEW B \in Nat \ {0}, NEW n \in Nat
    PROVE  /\ n \div B \in Nat
           /\ n % B \in 0..B-1
           /\ n = (n \div B) * B + (n % B)
BY Z3

(* A quotient and a remainder below the block size are unique.             *)
LEMMA ModUnique ==
    ASSUME NEW B \in Nat \ {0}, NEW q \in Nat, NEW r \in 0..B-1
    PROVE  (q * B + r) % B = r
<1> DEFINE n == q * B + r
           d == n \div B
           m == n % B
<1>1. n \in Nat
  OBVIOUS
<1>2. d \in Nat /\ m \in 0..B-1 /\ n = d * B + m
  BY <1>1, DivMod
<1> HIDE DEF d, m
<1>3. (q - d) * B = m - r
  BY <1>2
<1>4. ~(q - d >= 1)
  <2> SUFFICES ASSUME q - d >= 1 PROVE FALSE
    OBVIOUS
  <2>1. PICK e \in Nat : q - d = e + 1
    BY <1>2
  <2>2. (e + 1) * B = e * B + B /\ e * B \in Nat
    OBVIOUS
  <2> QED
    BY <1>2, <1>3, <2>1, <2>2
<1>5. ~(d - q >= 1)
  <2> SUFFICES ASSUME d - q >= 1 PROVE FALSE
    OBVIOUS
  <2>1. PICK e \in Nat : d - q = e + 1
    BY <1>2
  <2>2. (d - q) * B = r - m
    BY <1>2, <1>3
  <2>3. (e + 1) * B = e * B + B /\ e * B \in Nat
    OBVIOUS
  <2> QED
    BY <1>2, <2>1, <2>2, <2>3
<1>6. q = d
  BY <1>2, <1>4, <1>5
<1>7. m = r
  BY <1>2, <1>6
<1> QED
  BY <1>7 DEF m

(* Adding a multiple of the block size keeps the remainder.                *)
LEMMA MultiplePlus ==
    ASSUME NEW B \in Nat \ {0}, NEW a \in Nat, NEW b \in Nat, a % B = 0
    PROVE  (a + b) % B = b % B
<1> DEFINE qa == a \div B
           qb == b \div B
           r == b % B
<1>1. qa \in Nat /\ a = qa * B
  BY DivMod
<1>2. qb \in Nat /\ r \in 0..B-1 /\ b = qb * B + r
  BY DivMod
<1> HIDE DEF qa, qb, r
<1>3. a + b = (qa + qb) * B + r
  BY <1>1, <1>2
<1>4. ((qa + qb) * B + r) % B = r
  BY <1>1, <1>2, ModUnique
<1> QED
  BY <1>3, <1>4 DEF r

(* Remainders of one block, of two, and of less than one.                  *)
LEMMA BlockMod ==
    ASSUME NEW B \in Nat \ {0}
    PROVE  /\ 0 % B = 0
           /\ B % B = 0
           /\ (2 * B) % B = 0
           /\ \A r \in 0..B-1 : r % B = r /\ (B + r) % B = r
<1>1. 0 \in 0..B-1
  OBVIOUS
<1>2. /\ 1 * B + 0 = B /\ 2 * B + 0 = 2 * B
      /\ \A r \in 0..B-1 : 0 * B + r = r /\ 1 * B + r = B + r
  OBVIOUS
<1>3. (1 * B + 0) % B = 0 /\ (2 * B + 0) % B = 0
  BY <1>1, ModUnique
<1>4. \A r \in 0..B-1 : (0 * B + r) % B = r /\ (1 * B + r) % B = r
  BY ModUnique
<1> QED
  BY <1>1, <1>2, <1>3, <1>4

-----------------------------------------------------------------------------
(* Induction, for a set that holds 0 and with each number the next one.    *)
LEMMA NatSetInduction ==
    ASSUME NEW S, 0 \in S, \A n \in Nat : n \in S => n + 1 \in S
    PROVE  \A n \in Nat : n \in S
<1> SUFFICES ASSUME NEW k \in Nat, k \notin S PROVE FALSE
  OBVIOUS
<1> DEFINE T == {n \in Nat : n \notin S}
           R == {ss \in Nat \X Nat : ss[1] < ss[2]}
<1>1. IsWellFoundedOn(R, Nat)
  BY NatLessThanWellFounded DEF OpToRel
<1>2. T # {} /\ T \subseteq Nat
  OBVIOUS
<1>3. \E x \in T : \A y \in T : ~(<<y, x>> \in R)
  <2> HIDE DEF T, R
  <2> QED BY <1>1, <1>2, WFMin
<1>4. PICK x \in T : \A y \in T : ~(<<y, x>> \in R)
  BY <1>3
<1>5. x # 0
  OBVIOUS
<1>6. x - 1 \in T
  BY <1>5
<1>7. <<x - 1, x>> \in R
  BY <1>5
<1> QED BY <1>4, <1>6, <1>7

(* A quotient is unique, too.                                              *)
LEMMA DivUnique ==
    ASSUME NEW B \in Nat \ {0}, NEW q \in Nat, NEW r \in 0..B-1
    PROVE  (q * B + r) \div B = q /\ (q * B + r) % B = r
<1> DEFINE n == q * B + r
           d == n \div B
<1>1. n \in Nat
  OBVIOUS
<1>2. n % B = r
  BY ModUnique
<1>3. d \in Nat /\ n = d * B + (n % B)
  BY <1>1, DivMod
<1> HIDE DEF d
<1>4. (q - d) * B = 0
  BY <1>2, <1>3
<1>5. ~(q - d >= 1)
  <2> SUFFICES ASSUME q - d >= 1 PROVE FALSE
    OBVIOUS
  <2>1. PICK e \in Nat : q - d = e + 1
    BY <1>3
  <2>2. (e + 1) * B = e * B + B /\ e * B \in Nat
    OBVIOUS
  <2> QED
    BY <1>4, <2>1, <2>2
<1>6. ~(d - q >= 1)
  <2> SUFFICES ASSUME d - q >= 1 PROVE FALSE
    OBVIOUS
  <2>1. PICK e \in Nat : d - q = e + 1
    BY <1>3
  <2>2. (e + 1) * B = e * B + B /\ e * B \in Nat
    OBVIOUS
  <2>3. (d - q) * B = 0
    BY <1>3, <1>4
  <2> QED
    BY <2>1, <2>2, <2>3
<1>7. d = q
  BY <1>3, <1>5, <1>6
<1> QED
  BY <1>2, <1>7 DEF d

(* A multiple and the next one.                                            *)
LEMMA NextMultiple ==
    ASSUME NEW n \in Nat, NEW g \in Nat \ {0}
    PROVE  /\ n * g \in Nat /\ (n + 1) * g = n * g + g
           /\ (n + 1) - 1 = n
OBVIOUS

-----------------------------------------------------------------------------
(* Sequences of any elements.                                              *)

(* Two sequences with the same elements are equal.                         *)
LEMMA SameSeq ==
    ASSUME NEW T, NEW a \in Seq(T), NEW b \in Seq(T), Len(a) = Len(b),
           \A i \in 1..Len(a) : a[i] = b[i]
    PROVE  a = b
<1>1. a = [i \in 1..Len(a) |-> a[i]] /\ b = [i \in 1..Len(b) |-> b[i]]
  OBVIOUS
<1> QED
  BY <1>1

(* The elements of a concatenation.                                        *)
LEMMA CatElements ==
    ASSUME NEW T, NEW a \in Seq(T), NEW b \in Seq(T)
    PROVE  /\ a \o b \in Seq(T)
           /\ Len(a) \in Nat /\ Len(b) \in Nat
           /\ Len(a \o b) = Len(a) + Len(b)
           /\ \A i \in 1..Len(a) : (a \o b)[i] = a[i]
           /\ \A i \in 1..Len(b) : (a \o b)[Len(a) + i] = b[i]
<1>1. Len(a) \in Nat /\ Len(b) \in Nat
  BY LenProperties
<1>2. /\ a \o b \in Seq(T)
      /\ Len(a \o b) = Len(a) + Len(b)
      /\ \A i \in 1..Len(a) + Len(b) :
            (a \o b)[i] = IF i <= Len(a) THEN a[i] ELSE b[i - Len(a)]
  BY ConcatProperties
<1>3. ASSUME NEW i \in 1..Len(b) PROVE (a \o b)[Len(a) + i] = b[i]
  <2>1. /\ Len(a) + i \in 1..Len(a) + Len(b)
        /\ ~(Len(a) + i <= Len(a))
        /\ (Len(a) + i) - Len(a) = i
    BY <1>1
  <2> QED
    BY <1>2, <2>1
<1>4. ASSUME NEW i \in 1..Len(a) PROVE (a \o b)[i] = a[i]
  <2>1. i \in 1..Len(a) + Len(b) /\ i <= Len(a)
    BY <1>1
  <2> QED
    BY <1>2, <2>1
<1> QED
  BY <1>1, <1>2, <1>3, <1>4

(* The slice s[a..b].                                                      *)
LEMMA SliceElements ==
    ASSUME NEW T, NEW s \in Seq(T), NEW a \in Nat, NEW b \in Nat, a <= b, b <= Len(s)
    PROVE  /\ SubSeq(s, a + 1, b) \in Seq(T)
           /\ Len(SubSeq(s, a + 1, b)) = b - a
           /\ \A i \in 1..b-a : SubSeq(s, a + 1, b)[i] = s[a + i]
<1>1. Len(s) \in Nat /\ \A i \in 1..Len(s) : s[i] \in T
  BY LenProperties, ElementOfSeq
<1>2. a + 1 \in Int /\ b \in Int /\ \A i \in a+1..b : s[i] \in T
  BY <1>1
<1>3. /\ SubSeq(s, a + 1, b) \in Seq(T)
      /\ Len(SubSeq(s, a + 1, b)) = IF a + 1 <= b THEN b - (a + 1) + 1 ELSE 0
      /\ \A i \in 1..b-(a+1)+1 : SubSeq(s, a + 1, b)[i] = s[(a + 1) + i - 1]
  BY <1>2, SubSeqProperties
<1>4. b - (a + 1) + 1 = b - a /\ \A i \in 1..b-a : (a + 1) + i - 1 = a + i
  OBVIOUS
<1> QED
  BY <1>3, <1>4

(* The same under one name.                                                *)
IsSlice(t, s, a, b, T) ==
    t \in Seq(T) /\ Len(t) = b - a /\ \A i \in 1..b-a : t[i] = s[a + i]

(* A slice has the elements of its range.                                  *)
LEMMA SliceIs ==
    ASSUME NEW T, NEW s \in Seq(T), NEW a \in Nat, NEW b \in Nat, a <= b, b <= Len(s)
    PROVE  IsSlice(SubSeq(s, a + 1, b), s, a, b, T)
BY SliceElements DEF IsSlice

(* A step of X into itself can be taken n times.                           *)
IsRun(X, x0, F, f, n) ==
    /\ f \in [0..n -> X]
    /\ f[0] = x0
    /\ \A i \in 1..n : f[i] = F[f[i-1]]

(* There is such a run, of any length.                                     *)
LEMMA RunExists ==
    ASSUME NEW X, NEW x0 \in X, NEW F \in [X -> X], NEW n \in Nat
    PROVE  \E f : IsRun(X, x0, F, f, n)
<1> DEFINE S == {m \in Nat : \E f : IsRun(X, x0, F, f, m)}
<1>1. 0 \in S
  <2> DEFINE f == [i \in 0..0 |-> x0]
  <2>1. IsRun(X, x0, F, f, 0)
    BY DEF IsRun
  <2> HIDE DEF f
  <2> QED
    BY <2>1
<1>2. ASSUME NEW m \in Nat, m \in S PROVE m + 1 \in S
  <2>1. PICK f : IsRun(X, x0, F, f, m)
    BY <1>2
  <2> DEFINE g == [i \in 0..m+1 |-> IF i <= m THEN f[i] ELSE F[f[m]]]
  <2>2. f \in [0..m -> X] /\ f[0] = x0 /\ \A i \in 1..m : f[i] = F[f[i-1]]
    BY <2>1 DEF IsRun
  <2>3. f[m] \in X /\ F[f[m]] \in X
    BY <2>2
  <2>4. g \in [0..m+1 -> X]
    BY <2>2, <2>3
  <2>5. g[0] = x0
    BY <2>2
  <2>6. ASSUME NEW i \in 1..m+1 PROVE g[i] = F[g[i-1]]
    <3>1. i - 1 \in 0..m /\ g[i-1] = f[i-1]
      OBVIOUS
    <3>2. CASE i <= m
      BY <2>2, <3>1, <3>2
    <3>3. CASE i = m + 1
      <4>1. i - 1 = m /\ ~(i <= m)
        BY <3>3
      <4> QED
        BY <3>1, <4>1
    <3> QED
      BY <3>2, <3>3
  <2>7. IsRun(X, x0, F, g, m + 1)
    BY <2>4, <2>5, <2>6 DEF IsRun
  <2> HIDE DEF g
  <2> QED
    BY <2>7
<1> HIDE DEF S
<1>3. n \in S
  BY <1>1, <1>2, NatSetInduction
<1> QED
  BY <1>3 DEF S

(* Positions in the two parts of a whole.                                  *)
LEMMA PartPositions ==
    ASSUME NEW a \in Nat, NEW b \in Nat, NEW c, c = a + b
    PROVE  /\ c \in Nat
           /\ \A j \in 1..a : j \in 1..c
           /\ \A j \in 1..b : a + j \in 1..c
           /\ \A n \in Nat : c <= n => a <= n
OBVIOUS

(* The same under names that the provers treat as any operator.            *)
IsCat(c, a, b) ==
    /\ Len(a) \in Nat /\ Len(b) \in Nat
    /\ Len(c) = Len(a) + Len(b)
    /\ \A i \in 1..Len(a) : c[i] = a[i]
    /\ \A i \in 1..Len(b) : c[Len(a) + i] = b[i]

(* The parts of Cat.                                                       *)
LEMMA CatParts ==
    ASSUME NEW T, NEW a \in Seq(T), NEW b \in Seq(T)
    PROVE  Cat(a, b) \in Seq(T) /\ IsCat(Cat(a, b), a, b)
BY CatElements DEF Cat, IsCat

-----------------------------------------------------------------------------
(* FlattenSeq.  Flat(ss)[i] is the concatenation of the first i sequences, *)
(* and FlatStart(ss, i) is where the next one begins.                      *)
IsFlat(ss, f, n) ==
    /\ DOMAIN f = 0..n /\ f[0] = <<>>
    /\ \A i \in 1..n : f[i] = Cat(f[i-1], ss[i])
Flat(ss) == CHOOSE f : IsFlat(ss, f, Len(ss))
FlatStart(ss, i) == Len(Flat(ss)[i])

(* The concatenations are sequences.                                       *)
LEMMA FlatType ==
    ASSUME NEW T, NEW ss \in Seq(Seq(T)), NEW f, NEW n \in Nat, n <= Len(ss), IsFlat(ss, f, n)
    PROVE  \A i \in 0..n : f[i] \in Seq(T)
<1> DEFINE S == {m \in Nat : m <= n => f[m] \in Seq(T)}
<1>1. 0 \in S
  <2>1. f[0] = <<>> /\ <<>> \in Seq(T)
    BY DEF IsFlat
  <2>2. f[0] \in Seq(T)
    BY <2>1
  <2> QED
    BY <2>2
<1>2. ASSUME NEW m \in Nat, m \in S PROVE m + 1 \in S
  <2> SUFFICES ASSUME m + 1 <= n PROVE f[m + 1] \in Seq(T)
    OBVIOUS
  <2>1. m <= n /\ m + 1 \in 1..n /\ m + 1 \in 1..Len(ss) /\ (m + 1) - 1 = m
    BY LenProperties
  <2>2. f[m + 1] = Cat(f[m], ss[m + 1]) /\ f[m] \in Seq(T) /\ ss[m + 1] \in Seq(T)
    BY <1>2, <2>1, ElementOfSeq DEF IsFlat
  <2> QED
    BY <2>2, CatParts
<1> HIDE DEF S
<1>3. \A m \in Nat : m \in S
  BY <1>1, <1>2, NatSetInduction
<1> QED
  BY <1>3 DEF S

(* They exist.                                                             *)
LEMMA FlatExists ==
    ASSUME NEW ss
    PROVE  \A n \in Nat : \E f : IsFlat(ss, f, n)
<1> DEFINE S == {m \in Nat : \E f : IsFlat(ss, f, m)}
<1>1. 0 \in S
  <2> DEFINE f == [i \in 0..0 |-> <<>>]
  <2>1. IsFlat(ss, f, 0)
    BY DEF IsFlat
  <2> HIDE DEF f
  <2> QED
    BY <2>1
<1>2. ASSUME NEW m \in Nat, m \in S PROVE m + 1 \in S
  <2>1. PICK f : IsFlat(ss, f, m)
    BY <1>2
  <2> DEFINE g == [i \in 0..m+1 |-> IF i <= m THEN f[i] ELSE Cat(f[m], ss[m+1])]
  <2>2. f[0] = <<>> /\ \A i \in 1..m : f[i] = Cat(f[i-1], ss[i])
    BY <2>1 DEF IsFlat
  <2>3. DOMAIN g = 0..m+1 /\ g[0] = <<>>
    BY <2>2
  <2>4. ASSUME NEW i \in 1..m+1 PROVE g[i] = Cat(g[i-1], ss[i])
    <3>1. i - 1 \in 0..m /\ g[i-1] = f[i-1]
      OBVIOUS
    <3>2. CASE i <= m
      <4>1. g[i] = f[i] /\ f[i] = Cat(f[i-1], ss[i])
        BY <2>2, <3>2
      <4> QED
        BY <3>1, <4>1, Zenon
    <3>3. CASE i = m + 1
      <4>1. i - 1 = m /\ ~(i <= m)
        BY <3>3
      <4>2. g[i] = Cat(f[m], ss[m+1])
        BY <4>1
      <4> QED
        BY <3>1, <3>3, <4>1, <4>2, Zenon
    <3> QED
      BY <3>2, <3>3
  <2>5. IsFlat(ss, g, m + 1)
    BY <2>3, <2>4, Zenon DEF IsFlat
  <2> HIDE DEF g
  <2> QED
    BY <2>5
<1> HIDE DEF S
<1>3. \A m \in Nat : m \in S
  BY <1>1, <1>2, NatSetInduction
<1> QED
  BY <1>3 DEF S

(* The function FlattenSeq is defined with.                                *)
IsFlatten(ss, f) ==
    f = [i \in 1..Len(ss) |-> IF i = 1 THEN ss[i] ELSE Cat(f[i-1], ss[i])]

(* FlattenSeq is the last of the concatenations.                           *)
LEMMA FlattenIsFlat ==
    ASSUME NEW T, NEW ss \in Seq(Seq(T))
    PROVE  /\ IsFlat(ss, Flat(ss), Len(ss))
           /\ FlattenSeq(ss) = Flat(ss)[Len(ss)]
           /\ \A i \in 0..Len(ss) : Flat(ss)[i] \in Seq(T)
<1> DEFINE f == Flat(ss)
           n == Len(ss)
<1>1. n \in Nat
  BY LenProperties
<1>2. IsFlat(ss, f, n)
  BY <1>1, FlatExists DEF Flat
<1>3. \A i \in 0..n : f[i] \in Seq(T)
  BY <1>1, <1>2, FlatType
<1> HIDE DEF f
<1>4. CASE n = 0
  <2>1. FlattenSeq(ss) = ss /\ ss = <<>>
    BY <1>4 DEF FlattenSeq
  <2> QED
    BY <1>2, <1>3, <1>4, <2>1 DEF IsFlat, f
<1>5. CASE n > 0
  <2> DEFINE g == [i \in 1..n |-> f[i]]
             h == CHOOSE h : IsFlatten(ss, h)
  <2>1. ASSUME NEW i \in 1..n
        PROVE  f[i] = IF i = 1 THEN ss[i] ELSE Cat(g[i-1], ss[i])
    <3>1. f[i] = Cat(f[i-1], ss[i]) /\ f[0] = <<>> /\ ss[i] \in Seq(T)
      BY <1>2, ElementOfSeq DEF IsFlat
    <3>2. CASE i = 1
      <4>1. f[i] = Cat(<<>>, ss[i])
        BY <3>1, <3>2
      <4>2. Cat(<<>>, ss[i]) = ss[i]
        BY <3>1, ConcatEmptySeq DEF Cat
      <4> QED
        BY <3>2, <4>1, <4>2
    <3>3. CASE i # 1
      <4>1. i - 1 \in 1..n
        BY <3>3, <1>1
      <4>2. g[i-1] = f[i-1]
        BY <4>1
      <4> HIDE DEF g
      <4> QED
        BY <3>1, <3>3, <4>2, Zenon
    <3> QED
      BY <3>2, <3>3
  <2>2. IsFlatten(ss, g)
    <3>1. g = [i \in 1..n |-> IF i = 1 THEN ss[i] ELSE Cat(g[i-1], ss[i])]
      <4> DEFINE e == [i \in 1..n |-> IF i = 1 THEN ss[i] ELSE Cat(g[i-1], ss[i])]
      <4>1. \A i \in 1..n : g[i] = e[i]
        BY <2>1
      <4>2. g = [i \in 1..n |-> g[i]] /\ e = [i \in 1..n |-> e[i]]
        OBVIOUS
      <4> HIDE DEF g, e
      <4>3. g = e
        BY <4>1, <4>2
      <4> QED
        BY <4>3 DEF e
    <3> QED
      BY <3>1 DEF IsFlatten
  <2> HIDE DEF g
  <2>3. IsFlatten(ss, h)
    BY <2>2, Zenon
  <2>4. FlattenSeq(ss) = h[n]
    <3>1. Len(ss) # 0
      BY <1>5
    <3> QED
      BY <3>1, Zenon DEF FlattenSeq, IsFlatten, Cat
  <2> HIDE DEF h
  <2> DEFINE S == {m \in Nat : m + 1 <= n => h[m + 1] = f[m + 1]}
  <2>5. \A i \in 1..n : h[i] = IF i = 1 THEN ss[i] ELSE Cat(h[i-1], ss[i])
    BY <2>3 DEF IsFlatten
  <2>6. 0 \in S
    <3>1. 1 \in 1..n /\ 0 + 1 = 1
      BY <1>5
    <3>2. h[1] = ss[1] /\ f[1] = ss[1]
      BY <3>1, <2>1, <2>5
    <3> QED
      BY <3>1, <3>2
  <2>7. ASSUME NEW m \in Nat, m \in S PROVE m + 1 \in S
    <3> SUFFICES ASSUME (m + 1) + 1 <= n PROVE h[(m + 1) + 1] = f[(m + 1) + 1]
      OBVIOUS
    <3>1. h[m + 1] = f[m + 1] /\ (m + 1) + 1 \in 1..n /\ (m + 1) + 1 # 1
          /\ ((m + 1) + 1) - 1 = m + 1 /\ m + 1 \in 1..n
      BY <2>7, <1>1
    <3>2. h[(m + 1) + 1] = Cat(h[m + 1], ss[(m + 1) + 1])
      BY <3>1, <2>5
    <3>3. f[(m + 1) + 1] = Cat(f[m + 1], ss[(m + 1) + 1])
      BY <3>1, <1>2 DEF IsFlat
    <3> QED
      BY <3>1, <3>2, <3>3, Zenon
  <2> HIDE DEF S
  <2>8. n - 1 \in S /\ (n - 1) + 1 = n
    <3>1. n - 1 \in Nat
      BY <1>1, <1>5
    <3>2. \A m \in Nat : m \in S
      BY <2>6, <2>7, NatSetInduction
    <3> QED
      BY <3>1, <3>2
  <2>9. h[n] = f[n]
    BY <2>8, <1>1 DEF S
  <2> QED
    BY <1>2, <1>3, <2>4, <2>9 DEF f
<1> QED
  BY <1>1, <1>4, <1>5

(* Where the sequences are in the concatenation, and what is there.        *)
LEMMA FlattenParts ==
    ASSUME NEW T, NEW ss \in Seq(Seq(T))
    PROVE  /\ FlattenSeq(ss) \in Seq(T)
           /\ FlatStart(ss, 0) = 0
           /\ FlatStart(ss, Len(ss)) = Len(FlattenSeq(ss))
           /\ \A i \in 0..Len(ss) : /\ FlatStart(ss, i) \in Nat
                                    /\ FlatStart(ss, i) <= Len(FlattenSeq(ss))
           /\ \A i \in 1..Len(ss) :
                 /\ FlatStart(ss, i) = FlatStart(ss, i - 1) + Len(ss[i])
                 /\ \A j \in 1..Len(ss[i]) :
                       FlattenSeq(ss)[FlatStart(ss, i - 1) + j] = ss[i][j]
<1> DEFINE f == Flat(ss)
           n == Len(ss)
           w == f[n]
<1>1. n \in Nat
  BY LenProperties
<1>2. IsFlat(ss, f, n) /\ FlattenSeq(ss) = w /\ \A i \in 0..n : f[i] \in Seq(T)
  BY FlattenIsFlat
<1>3. w \in Seq(T) /\ Len(w) \in Nat
  <2>1. n \in 0..n
    BY <1>1
  <2> QED
    BY <1>2, <2>1, LenProperties
<1> HIDE DEF f
<1>4. ASSUME NEW i \in 1..n
      PROVE  /\ Len(f[i]) = Len(f[i-1]) + Len(ss[i])
             /\ Len(f[i-1]) \in Nat /\ Len(ss[i]) \in Nat
             /\ \A j \in 1..Len(f[i-1]) : f[i][j] = f[i-1][j]
             /\ \A j \in 1..Len(ss[i]) : f[i][Len(f[i-1]) + j] = ss[i][j]
  <2>1. i - 1 \in 0..n /\ i \in 0..n
    BY <1>1
  <2>2. f[i-1] \in Seq(T) /\ ss[i] \in Seq(T) /\ f[i] = Cat(f[i-1], ss[i])
    BY <2>1, <1>2, ElementOfSeq DEF IsFlat
  <2>3. IsCat(f[i], f[i-1], ss[i])
    BY <2>2, CatParts, Zenon
  <2> QED
    BY <2>3, Zenon DEF IsCat
<1> DEFINE Kept(m) == Len(f[m]) <= Len(w) /\ \A j \in 1..Len(f[m]) : w[j] = f[m][j]
           S == {k \in Nat : k <= n => Kept(n - k)}
<1>5. 0 \in S
  <2>1. n - 0 = n
    BY <1>1
  <2> QED
    BY <1>3, <2>1
<1>6. ASSUME NEW k \in Nat, k \in S PROVE k + 1 \in S
  <2> SUFFICES ASSUME k + 1 <= n PROVE Kept(n - (k + 1))
    OBVIOUS
  <2> DEFINE i == n - k
  <2>1. i \in 1..n /\ i - 1 = n - (k + 1)
    BY <1>1
  <2>2. Len(f[i]) <= Len(w) /\ \A j \in 1..Len(f[i]) : w[j] = f[i][j]
    BY <1>6, <1>1
  <2> HIDE DEF i
  <2>3. Len(f[i-1]) <= Len(w) /\ \A j \in 1..Len(f[i-1]) : j \in 1..Len(f[i])
    <3>1. Len(f[i]) = Len(f[i-1]) + Len(ss[i]) /\ Len(f[i-1]) \in Nat /\ Len(ss[i]) \in Nat
      BY <1>4, <2>1
    <3>2. Len(w) \in Nat /\ Len(f[i]) <= Len(w)
      BY <1>3, <2>2
    <3> QED
      BY <3>1, <3>2, PartPositions, Zenon
  <2>4. \A j \in 1..Len(f[i-1]) : w[j] = f[i-1][j]
    BY <1>4, <2>1, <2>2, <2>3
  <2> QED
    BY <2>1, <2>3, <2>4
<1> HIDE DEF S, Kept
<1>7. \A k \in Nat : k \in S
  BY <1>5, <1>6, NatSetInduction
<1>8. ASSUME NEW i \in 0..n PROVE Kept(i)
  <2>1. n - i \in Nat /\ n - i <= n /\ n - (n - i) = i
    BY <1>1
  <2> QED
    BY <2>1, <1>7 DEF S
<1>9. ASSUME NEW i \in 0..n PROVE Len(f[i]) \in Nat /\ Len(f[i]) <= Len(w)
  BY <1>2, <1>8, LenProperties DEF Kept
<1>10. ASSUME NEW i \in 1..n, NEW j \in 1..Len(ss[i])
       PROVE  w[Len(f[i-1]) + j] = ss[i][j]
  <2>1. Len(f[i-1]) + j \in 1..Len(f[i]) /\ i \in 0..n
    <3>1. Len(f[i]) = Len(f[i-1]) + Len(ss[i]) /\ Len(f[i-1]) \in Nat /\ Len(ss[i]) \in Nat
      BY <1>4
    <3>2. i \in 0..n
      BY <1>1
    <3> QED
      BY <3>1, <3>2, PartPositions, Zenon
  <2>2. w[Len(f[i-1]) + j] = f[i][Len(f[i-1]) + j]
    BY <2>1, <1>8 DEF Kept
  <2> QED
    BY <1>4, <2>2
<1>11. f[0] = <<>> /\ Len(f[0]) = 0
  BY <1>2 DEF IsFlat
<1> QED
  BY <1>2, <1>3, <1>4, <1>9, <1>10, <1>11 DEF FlatStart, f

(* A function on 1..n is a sequence.                                       *)
LEMMA FunctionIsSeq ==
    ASSUME NEW n \in Nat, NEW T, NEW f \in [1..n -> T]
    PROVE  f \in Seq(T) /\ Len(f) = n
OBVIOUS

(* That t is s and one more element e.                                     *)
IsAppend(t, s, e) ==
    /\ Len(s) \in Nat /\ Len(t) = Len(s) + 1
    /\ t[Len(s) + 1] = e
    /\ \A i \in 1..Len(s) : t[i] = s[i]

(* The elements of a sequence with one more element.                       *)
LEMMA AppendElements ==
    ASSUME NEW T, NEW s \in Seq(T), NEW e \in T
    PROVE  Append(s, e) \in Seq(T) /\ IsAppend(Append(s, e), s, e)
BY AppendProperties, LenProperties DEF IsAppend

(* Concatenation is associative, whatever the elements are.                *)
LEMMA CatAny ==
    ASSUME NEW T, NEW a \in Seq(T), NEW b \in Seq(T), NEW c \in Seq(T)
    PROVE  Cat(Cat(a, b), c) = Cat(a, Cat(b, c))
<1> DEFINE x == Cat(a, b)
           y == Cat(x, c)
           z == Cat(b, c)
           w == Cat(a, z)
<1>1. x \in Seq(T) /\ IsCat(x, a, b) /\ z \in Seq(T) /\ IsCat(z, b, c)
  BY CatParts, Zenon
<1>2. y \in Seq(T) /\ IsCat(y, x, c) /\ w \in Seq(T) /\ IsCat(w, a, z)
  BY <1>1, CatParts, Zenon
<1> HIDE DEF x, y, z, w
<1>3. /\ Len(a) \in Nat /\ Len(b) \in Nat /\ Len(c) \in Nat
      /\ Len(x) = Len(a) + Len(b) /\ Len(y) = Len(x) + Len(c)
      /\ Len(z) = Len(b) + Len(c) /\ Len(w) = Len(a) + Len(z)
  BY <1>1, <1>2, Zenon DEF IsCat
<1>4. Len(y) = Len(w) /\ Len(y) \in Nat
  BY <1>3
<1>5. ASSUME NEW i \in 1..Len(y) PROVE y[i] = w[i]
  <2>1. CASE i \in 1..Len(a)
    <3>1. i \in 1..Len(x)
      BY <1>3, <2>1
    <3> QED
      BY <1>1, <1>2, <2>1, <3>1, Zenon DEF IsCat
  <2>2. CASE i \notin 1..Len(a) /\ i \in 1..Len(x)
    <3>1. PICK j \in 1..Len(b) : i = Len(a) + j
      <4>1. i - Len(a) \in 1..Len(b) /\ i = Len(a) + (i - Len(a))
        BY <1>3, <2>2
      <4> QED
        BY <4>1
    <3>2. j \in 1..Len(z)
      BY <1>3
    <3> QED
      BY <1>1, <1>2, <2>2, <3>1, <3>2, ZenonT(40) DEF IsCat
  <2>3. CASE i \notin 1..Len(x)
    <3>1. PICK j \in 1..Len(c) : i = Len(x) + j
      <4>1. i - Len(x) \in 1..Len(c) /\ i = Len(x) + (i - Len(x))
        BY <1>3, <2>3
      <4> QED
        BY <4>1
    <3>2. Len(b) + j \in 1..Len(z) /\ Len(a) + (Len(b) + j) = Len(x) + j
      BY <1>3
    <3>3. y[i] = c[j] /\ z[Len(b) + j] = c[j]
      BY <1>1, <1>2, <3>1, Zenon DEF IsCat
    <3>4. w[Len(a) + (Len(b) + j)] = z[Len(b) + j]
      BY <1>2, <3>2, Zenon DEF IsCat
    <3> QED
      BY <3>1, <3>2, <3>3, <3>4, Zenon
  <2> QED
    BY <2>1, <2>2, <2>3
<1>6. y = w
  BY <1>2, <1>4, <1>5, SameSeq, Zenon
<1> QED
  BY <1>6 DEF x, y, z, w

(* One more sequence to concatenate.                                       *)
LEMMA FlattenAppend ==
    ASSUME NEW T, NEW ss \in Seq(Seq(T)), NEW us \in Seq(Seq(T)), NEW s \in Seq(T),
           IsAppend(us, ss, s)
    PROVE  FlattenSeq(us) = Cat(FlattenSeq(ss), s)
<1> DEFINE f == Flat(ss)
           g == Flat(us)
           n == Len(ss)
<1>1. /\ n \in Nat /\ Len(us) = n + 1 /\ us[n + 1] = s
      /\ \A i \in 1..n : us[i] = ss[i]
  BY DEF IsAppend
<1>2. /\ IsFlat(ss, f, n) /\ FlattenSeq(ss) = f[n]
      /\ IsFlat(us, g, Len(us)) /\ FlattenSeq(us) = g[Len(us)]
  BY FlattenIsFlat, Zenon
<1>3. IsFlat(us, g, n + 1) /\ FlattenSeq(us) = g[n + 1]
  BY <1>1, <1>2
<1> HIDE DEF f, g, n
<1> DEFINE S == {m \in Nat : m <= n => g[m] = f[m]}
<1>4. 0 \in S
  BY <1>2, <1>3 DEF IsFlat
<1>5. ASSUME NEW m \in Nat, m \in S PROVE m + 1 \in S
  <2> SUFFICES ASSUME m + 1 <= n PROVE g[m + 1] = f[m + 1]
    OBVIOUS
  <2>1. g[m] = f[m] /\ m + 1 \in 1..n /\ m + 1 \in 1..n+1 /\ (m + 1) - 1 = m
    BY <1>1, <1>5
  <2>2. g[m + 1] = Cat(g[m], us[m + 1]) /\ f[m + 1] = Cat(f[m], ss[m + 1])
    BY <1>2, <1>3, <2>1 DEF IsFlat
  <2>3. us[m + 1] = ss[m + 1]
    BY <1>1, <2>1
  <2> QED
    BY <2>1, <2>2, <2>3, Zenon
<1> HIDE DEF S
<1>6. \A m \in Nat : m \in S
  BY <1>4, <1>5, NatSetInduction
<1>7. g[n] = f[n]
  BY <1>1, <1>6 DEF S
<1>8. n + 1 \in 1..n+1 /\ (n + 1) - 1 = n
  BY <1>1
<1>9. g[n + 1] = Cat(g[n], us[n + 1])
  BY <1>3, <1>8 DEF IsFlat
<1> QED
  BY <1>1, <1>2, <1>3, <1>7, <1>9, Zenon
=============================================================================
