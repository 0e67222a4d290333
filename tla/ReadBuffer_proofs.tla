------------------------- MODULE ReadBuffer_proofs -------------------------
(***************************************************************************)
(* For every block size and every generator: the cursor of a ReadBuffer is *)
(* valid, the generated stream is handed out in order and once, and images *)
(* load and are canonical.                                                 *)
(***************************************************************************)
EXTENDS ReadBuffer, ByteArrays_proofs

(* The inductive invariant: the reader's stream, and its saved image.      *)
StreamInv ==
    /\ buffer \in Block
    /\ stream \in Seq(Byte) /\ out \in Seq(Byte)
    /\ PosNeverBreaksInvariant
    /\ StreamConserved
SavedInv ==
    /\ saved = NoImage \/ saved \in [image : Block, data : Seq(Byte)]
    /\ SavedImageLoads
IInv == StreamInv /\ SavedInv /\ result \in {"ok", "err", "panic"}

-----------------------------------------------------------------------------
(* Block sizes are 1 to 255.                                               *)
LEMMA SizeFacts == BlockSize \in Nat \ {0} /\ BlockSize <= 255 /\ 0 \in 0..BlockSize-1
BY BlockSizeAssumption

(* The slice of a block from a to b.                                       *)
LEMMA PartOfBlock ==
    ASSUME NEW f \in Block, NEW a \in Nat, NEW b \in Nat, a <= b, b <= BlockSize
    PROVE  /\ Bytes(f, a, b) \in Seq(Byte)
           /\ Len(Bytes(f, a, b)) = b - a
           /\ \A i \in 1..b-a : Bytes(f, a, b)[i] = f[a + i - 1]
BY SizeFacts DEF Bytes, Block, Byte

(* A valid cursor, and the bytes behind it.                                *)
LEMMA UnreadProps ==
    ASSUME NEW f \in Block, PosValid(f[0])
    PROVE  /\ f[0] \in 1..BlockSize
           /\ Unread(f) \in Seq(Byte)
           /\ Len(Unread(f)) = BlockSize - f[0]
           /\ \A i \in 1..BlockSize-f[0] : Unread(f)[i] = f[f[0] + i - 1]
<1>1. f[0] \in 0..255
  BY SizeFacts DEF Block, Byte
<1>2. f[0] \in 1..BlockSize /\ f[0] \in Nat /\ BlockSize \in Nat /\ f[0] <= BlockSize
  BY <1>1, SizeFacts DEF PosValid
<1> DEFINE p == f[0]
<1>3. p \in Nat /\ p <= BlockSize /\ BlockSize \in Nat /\ BlockSize <= BlockSize
      /\ Unread(f) = Bytes(f, p, BlockSize)
  BY <1>2 DEF Unread
<1> HIDE DEF p
<1>4. /\ Bytes(f, p, BlockSize) \in Seq(Byte) /\ Len(Bytes(f, p, BlockSize)) = BlockSize - p
      /\ \A i \in 1..BlockSize-p : Bytes(f, p, BlockSize)[i] = f[p + i - 1]
  BY <1>3, PartOfBlock
<1> QED
  BY <1>2, <1>3, <1>4 DEF p

(* A part of a block, and the rest of another that agrees with it there,   *)
(* make the whole.                                                         *)
LEMMA Rejoin ==
    ASSUME NEW f \in Block, NEW g \in Block, NEW a \in Nat, NEW b \in Nat,
           a <= b, b <= BlockSize, \A i \in b..BlockSize-1 : g[i] = f[i]
    PROVE  Bytes(f, a, BlockSize) = Cat(Bytes(f, a, b), Bytes(g, b, BlockSize))
<1> DEFINE x == Bytes(f, a, b)
           y == Bytes(g, b, BlockSize)
           z == Bytes(f, a, BlockSize)
<1>1. BlockSize \in Nat /\ a <= BlockSize
  BY SizeFacts
<1>2. x \in Seq(Byte) /\ Len(x) = b - a /\ \A i \in 1..b-a : x[i] = f[a + i - 1]
  BY PartOfBlock
<1>3. y \in Seq(Byte) /\ Len(y) = BlockSize - b /\ \A i \in 1..BlockSize-b : y[i] = g[b + i - 1]
  BY <1>1, PartOfBlock, SMTT(20), ZenonT(40)
<1>4. z \in Seq(Byte) /\ Len(z) = BlockSize - a /\ \A i \in 1..BlockSize-a : z[i] = f[a + i - 1]
  BY <1>1, PartOfBlock
<1> HIDE DEF x, y, z
<1>5. ASSUME NEW i \in 1..Len(x) PROVE z[i] = x[i]
  <2>1. i \in 1..b-a /\ i \in 1..BlockSize-a
    BY <1>1, <1>2
  <2> QED
    BY <2>1, <1>2, <1>4
<1>6. ASSUME NEW i \in 1..Len(y) PROVE z[Len(x) + i] = y[i]
  <2> DEFINE j == (b - a) + i
             m == b + i - 1
  <2>1. j \in 1..BlockSize-a /\ a + j - 1 = m /\ m \in b..BlockSize-1 /\ i \in 1..BlockSize-b
    BY <1>1, <1>3
  <2>2. Len(x) + i = j
    BY <1>2
  <2>3. y[i] = g[m]
    BY <2>1, <1>3
  <2> HIDE DEF j, m
  <2>4. z[j] = f[m]
    BY <2>1, <1>4
  <2>5. g[m] = f[m]
    BY <2>1
  <2> QED
    BY <2>2, <2>3, <2>4, <2>5
<1>7. Len(z) = Len(x) + Len(y)
  BY <1>1, <1>2, <1>3, <1>4
<1>8. x \o y = z
  BY <1>2, <1>3, <1>4, <1>5, <1>6, <1>7, ConcatEqual
<1> QED
  BY <1>8 DEF Cat, x, y, z

(* Writing a valid cursor: it survives `as u8` and changes no other byte.  *)
WithPos(f, p) == [f EXCEPT ![0] = p % 256]
LEMMA SetPosProps ==
    ASSUME NEW f \in Block, NEW p \in 1..BlockSize
    PROVE  /\ WithPos(f, p) \in Block /\ WithPos(f, p)[0] = p /\ PosValid(WithPos(f, p)[0])
           /\ \A i \in p..BlockSize-1 : WithPos(f, p)[i] = f[i]
<1> DEFINE g == WithPos(f, p)
<1>1. p \in 0..255 /\ p % 256 = p /\ p # 0 /\ p <= BlockSize
  BY SizeFacts
<1>2. g \in Block /\ g[0] = p /\ \A i \in 0..BlockSize-1 : i # 0 => g[i] = f[i]
  BY <1>1, SizeFacts DEF WithPos, Block, Byte
<1> HIDE DEF g
<1>3. ASSUME NEW i \in p..BlockSize-1 PROVE g[i] = f[i]
  <2>1. i \in 0..BlockSize-1 /\ i # 0
    BY SizeFacts
  <2> QED
    BY <2>1, <1>2
<1> QED
  BY <1>1, <1>2, <1>3 DEF PosValid, g

-----------------------------------------------------------------------------
(* A read that hands out `got` of the bytes held and generated, and keeps  *)
(* the rest, keeps the stream.                                             *)
LEMMA StreamStep ==
    ASSUME StreamInv, NEW add \in Seq(Byte), NEW got \in Seq(Byte), NEW left \in Seq(Byte),
           Cat(Unread(buffer), add) = Cat(got, left),
           buffer' \in Block, PosValid(buffer'[0]), Unread(buffer') = left,
           out' = Cat(out, got), stream' = Cat(stream, add)
    PROVE  StreamInv'
<1> DEFINE u == Unread(buffer)
<1>1. u \in Seq(Byte) /\ out \in Seq(Byte) /\ stream \in Seq(Byte) /\ Cat(out, u) = stream
  BY UnreadProps DEF StreamInv, PosNeverBreaksInvariant, GetPos, StreamConserved, Cat
<1> HIDE DEF u
<1>2. out' \in Seq(Byte) /\ stream' \in Seq(Byte)
  BY <1>1, CatAssoc
<1>3. Cat(Cat(out, got), left) = Cat(Cat(out, u), add)
  <2>1. Cat(u, add) = Cat(got, left)
    BY DEF u
  <2> QED
    BY <1>1, <2>1, CatMove
<1>4. out' \o left = stream'
  BY <1>1, <1>3 DEF Cat
<1>5. Len(stream') < Len(out') + BlockSize
  <2>1. /\ Len(stream') = Len(out') + Len(left) /\ Len(out') \in Nat
    BY <1>2, <1>4, ConcatProps
  <2>2. buffer'[0] \in 1..BlockSize /\ Len(left) = BlockSize - buffer'[0]
    BY UnreadProps
  <2> QED
    BY <2>1, <2>2, SizeFacts
<1> QED
  BY <1>2, <1>4, <1>5 DEF StreamInv, PosNeverBreaksInvariant, GetPos, StreamConserved, Unread

(* The cursor and the held bytes, from the invariant.                      *)
LEMMA HeldNow ==
    ASSUME StreamInv
    PROVE  /\ buffer \in Block /\ GetPos \in 1..BlockSize /\ Remaining = BlockSize - GetPos
           /\ Unread(buffer) \in Seq(Byte) /\ Unread(buffer) = Bytes(buffer, GetPos, BlockSize)
           /\ out \in Seq(Byte) /\ stream \in Seq(Byte)
BY UnreadProps DEF StreamInv, PosNeverBreaksInvariant, GetPos, Remaining, Unread

(* read from the bytes held.                                               *)
LEMMA ReadHeldStep ==
    ASSUME StreamInv, NEW n \in Nat, ReadHeld(n)
    PROVE  StreamInv'
<1> DEFINE p == GetPos
           q == p + n
           got == Bytes(buffer, p, q)
           left == Bytes(buffer', q, BlockSize)
           none == <<>>
<1>1. /\ buffer \in Block /\ p \in 1..BlockSize
      /\ Unread(buffer) \in Seq(Byte) /\ Unread(buffer) = Bytes(buffer, p, BlockSize)
      /\ out \in Seq(Byte) /\ stream \in Seq(Byte)
  BY HeldNow
<1>2. n < BlockSize - p /\ out' = Cat(out, got) /\ stream' = stream
      /\ buffer' = WithPos(buffer, q)
  BY HeldNow DEF ReadHeld, SetPosUnchecked, WithPos, Cat
<1> HIDE DEF p
<1>3. p \in Nat /\ q \in Nat /\ q \in 1..BlockSize /\ p <= q /\ q <= BlockSize /\ BlockSize \in Nat
  BY <1>1, <1>2, SizeFacts
<1> HIDE DEF q
<1>4. /\ buffer' \in Block /\ buffer'[0] = q /\ PosValid(buffer'[0])
      /\ \A i \in q..BlockSize-1 : buffer'[i] = buffer[i]
  BY <1>1, <1>2, <1>3, SetPosProps
<1>5. Unread(buffer') = left
  BY <1>4 DEF Unread
<1>6. got \in Seq(Byte) /\ left \in Seq(Byte)
  BY <1>1, <1>3, <1>4, PartOfBlock
<1>7. Bytes(buffer, p, BlockSize) = Cat(got, left)
  BY <1>1, <1>3, <1>4, Rejoin
<1> HIDE DEF got, left
<1>8. /\ none \in Seq(Byte) /\ Cat(Unread(buffer), none) = Unread(buffer)
      /\ Cat(stream, none) = stream
  BY <1>1, ConcatEmptySeq DEF Cat
<1> HIDE DEF none
<1> QED
  BY <1>1, <1>2, <1>4, <1>5, <1>6, <1>7, <1>8, StreamStep

(* A slice the generator fills.                                            *)
LEMMA GeneratedProps ==
    ASSUME NEW m \in Nat, NEW gen \in [1..m -> Data]
    PROVE  gen \in Seq(Byte)
<1>1. gen \in [1..m -> Byte]
  BY DataAssumption
<1> QED
  BY <1>1, SeqDef

(* What a read that runs out of held bytes needs: a number of whole blocks *)
(* and less than a block more.                                             *)
LEMMA SplitProps ==
    ASSUME StreamInv, NEW n \in Nat, ~(Remaining # 0 /\ n < Remaining)
    PROVE  Generated(n) \in Nat /\ Leftover(n) \in 0..BlockSize-1
<1>1. Remaining \in 0..BlockSize /\ BlockSize \in Nat \ {0}
  BY HeldNow, SizeFacts
<1> DEFINE m == n - Remaining
<1>2. m \in Nat
  BY <1>1
<1> HIDE DEF m
<1>3. m \div BlockSize \in Nat /\ m % BlockSize \in 0..BlockSize-1
  BY <1>1, <1>2, DivMod
<1>4. (m \div BlockSize) * BlockSize \in Nat
  BY <1>1, <1>3
<1> QED
  BY <1>3, <1>4 DEF Generated, Leftover, m

(* A read that generates whole blocks and the start of one more.           *)
LEMMA ReadLeftoverStep ==
    ASSUME StreamInv, NEW gen \in Seq(Byte), NEW last \in Block, NEW k \in 1..BlockSize-1,
           out' = out \o Unread(buffer) \o gen \o Bytes(last, 0, k),
           stream' = stream \o gen \o Bytes(last, 0, BlockSize),
           SetPosUnchecked(last, k)
    PROVE  StreamInv'
<1> DEFINE u == Unread(buffer)
           x == Bytes(last, 0, k)
           y == Bytes(buffer', k, BlockSize)
           z == Bytes(last, 0, BlockSize)
           add == Cat(gen, z)
           got == Cat(u, Cat(gen, x))
<1>1. u \in Seq(Byte) /\ out \in Seq(Byte) /\ stream \in Seq(Byte)
  BY HeldNow
<1>2. k \in Nat /\ k \in 1..BlockSize /\ 0 <= k /\ k <= BlockSize /\ 0 \in Nat /\ BlockSize \in Nat
  BY SizeFacts
<1>3. /\ buffer' \in Block /\ buffer'[0] = k /\ PosValid(buffer'[0])
      /\ \A i \in k..BlockSize-1 : buffer'[i] = last[i]
  <2>1. buffer' = WithPos(last, k)
    BY DEF SetPosUnchecked, WithPos
  <2> QED
    BY <1>2, <2>1, SetPosProps
<1>4. Unread(buffer') = y
  BY <1>3 DEF Unread
<1>5. x \in Seq(Byte) /\ y \in Seq(Byte) /\ z \in Seq(Byte)
  BY <1>2, <1>3, PartOfBlock
<1>6. z = Cat(x, y)
  BY <1>2, <1>3, Rejoin
<1>7. out' = Cat(Cat(Cat(out, u), gen), x) /\ stream' = Cat(Cat(stream, gen), z)
  BY DEF Cat
<1> HIDE DEF u, x, y, z
<1>8. stream' = Cat(stream, add)
  <2>1. Cat(Cat(stream, gen), z) = Cat(stream, Cat(gen, z))
    BY <1>1, <1>5, CatAssoc
  <2> QED
    BY <1>7, <2>1
<1>9. out' = Cat(out, got)
  <2>1. Cat(gen, x) \in Seq(Byte) /\ Cat(out, u) \in Seq(Byte)
    BY <1>1, <1>5, CatAssoc
  <2>2. Cat(Cat(Cat(out, u), gen), x) = Cat(Cat(out, u), Cat(gen, x))
    BY <2>1, <1>5, CatAssoc
  <2>3. Cat(Cat(out, u), Cat(gen, x)) = Cat(out, Cat(u, Cat(gen, x)))
    BY <2>1, <1>1, CatAssoc
  <2> QED
    BY <1>7, <2>2, <2>3
<1>10. Cat(u, add) = Cat(got, y)
  <2>1. Cat(gen, x) \in Seq(Byte)
    BY <1>5, CatAssoc
  <2>2. Cat(Cat(u, Cat(gen, x)), y) = Cat(u, Cat(Cat(gen, x), y))
    BY <2>1, <1>1, <1>5, CatAssoc
  <2>3. Cat(Cat(gen, x), y) = Cat(gen, Cat(x, y))
    BY <1>5, CatAssoc
  <2> QED
    BY <1>6, <2>2, <2>3
<1>11. add \in Seq(Byte) /\ got \in Seq(Byte)
  <2>1. Cat(gen, x) \in Seq(Byte)
    BY <1>5, CatAssoc
  <2> QED
    BY <2>1, <1>1, <1>5, CatAssoc
<1> HIDE DEF add, got
<1>12. Cat(Unread(buffer), add) = Cat(got, y)
  BY <1>10 DEF u
<1> QED
  BY <1>3, <1>4, <1>5, <1>8, <1>9, <1>11, <1>12, StreamStep

(* A read that ends where a generated block ends.                          *)
LEMMA ReadWholeStep ==
    ASSUME StreamInv, NEW gen \in Seq(Byte),
           out' = out \o Unread(buffer) \o gen,
           stream' = stream \o gen,
           SetPosUnchecked(buffer, BlockSize)
    PROVE  StreamInv'
<1> DEFINE u == Unread(buffer)
           none == <<>>
           got == Cat(u, gen)
<1>1. u \in Seq(Byte) /\ out \in Seq(Byte) /\ stream \in Seq(Byte) /\ buffer \in Block
  BY HeldNow
<1>2. BlockSize \in 1..BlockSize /\ BlockSize \in Nat /\ BlockSize <= BlockSize
  BY SizeFacts
<1>3. buffer' \in Block /\ buffer'[0] = BlockSize /\ PosValid(buffer'[0])
  <2>1. buffer' = WithPos(buffer, BlockSize)
    BY DEF SetPosUnchecked, WithPos
  <2> QED
    BY <1>1, <1>2, <2>1, SetPosProps
<1>4. /\ Unread(buffer') \in Seq(Byte) /\ Len(Unread(buffer')) = 0
  BY <1>2, <1>3, UnreadProps
<1>5. Unread(buffer') = none
  BY <1>4, EmptySeq
<1>6. out' = Cat(Cat(out, u), gen) /\ stream' = Cat(stream, gen)
  BY DEF Cat
<1> HIDE DEF u
<1>7. out' = Cat(out, got) /\ got \in Seq(Byte)
  BY <1>1, <1>6, CatAssoc
<1>8. none \in Seq(Byte) /\ Cat(got, none) = got
  BY <1>7, ConcatEmptySeq DEF Cat
<1>9. Cat(Unread(buffer), gen) = Cat(got, none)
  BY <1>8 DEF u
<1> HIDE DEF got, none
<1> QED
  BY <1>3, <1>5, <1>6, <1>7, <1>8, <1>9, StreamStep

-----------------------------------------------------------------------------
(* What leaves the saved image alone keeps its invariant.                  *)
LEMMA SavedUnchanged == ASSUME SavedInv, UNCHANGED saved PROVE SavedInv'
BY DEF SavedInv, SavedImageLoads, Accepts, Unread

(* What leaves the reader alone keeps the stream.                          *)
LEMMA StreamUnchanged ==
    ASSUME StreamInv, UNCHANGED <<buffer, stream, out>> PROVE StreamInv'
BY DEF StreamInv, PosNeverBreaksInvariant, StreamConserved, GetPos, Unread

(* read, with any generator.                                               *)
LEMMA ReadStep ==
    ASSUME IInv, NEW n \in 0..MaxInput, NEW gen \in [1..Generated(n) -> Data],
           NEW last \in [0..BlockSize-1 -> Data], Read(n, gen, last)
    PROVE  IInv'
<1>1. n \in Nat
  BY BoundsAssumption
<1>2. StreamInv /\ SavedInv /\ UNCHANGED saved /\ result' = "ok"
  BY DEF IInv, Read
<1>3. CASE ReadHeld(n)
  BY <1>1, <1>2, <1>3, ReadHeldStep, SavedUnchanged DEF IInv
<1>4. CASE ReadGenerated(n, gen, last)
  <2>1. ~(Remaining # 0 /\ n < Remaining)
    BY <1>4 DEF ReadGenerated
  <2>2. Generated(n) \in Nat /\ Leftover(n) \in 0..BlockSize-1
    BY <1>1, <1>2, <2>1, SplitProps
  <2>3. gen \in Seq(Byte)
    BY <2>2, GeneratedProps
  <2>4. last \in Block
    BY DataAssumption DEF Block
  <2>5. CASE Leftover(n) # 0
    <3>1. Leftover(n) \in 1..BlockSize-1
      BY <2>2, <2>5
    <3>2. /\ out' = out \o Unread(buffer) \o gen \o Bytes(last, 0, Leftover(n))
          /\ stream' = stream \o gen \o Bytes(last, 0, BlockSize)
          /\ SetPosUnchecked(last, Leftover(n))
      BY <1>4, <2>5 DEF ReadGenerated
    <3>3. StreamInv'
      BY <1>2, <2>3, <2>4, <3>1, <3>2, ReadLeftoverStep
    <3> QED
      BY <1>2, <3>3, SavedUnchanged DEF IInv
  <2>6. CASE Leftover(n) = 0
    <3>1. /\ out' = out \o Unread(buffer) \o gen
          /\ stream' = stream \o gen
          /\ SetPosUnchecked(buffer, BlockSize)
      BY <1>4, <2>6 DEF ReadGenerated
    <3>2. StreamInv'
      BY <1>2, <2>3, <3>1, ReadWholeStep
    <3> QED
      BY <1>2, <3>2, SavedUnchanged DEF IInv
  <2> QED
    BY <2>5, <2>6
<1> QED
  BY <1>3, <1>4 DEF Read

(* A generator that panics leaves the reader as it was.                    *)
LEMMA ReadPanicsStep == ASSUME IInv, NEW n \in 0..MaxInput, ReadPanics(n) PROVE IInv'
BY StreamUnchanged, SavedUnchanged DEF IInv, ReadPanics

(* serialize: the image is accepted, and has the reader's unread bytes.    *)
LEMMA ImageOfProps ==
    ASSUME NEW f \in Block, PosValid(f[0])
    PROVE  /\ ImageOf(f) \in Block /\ Accepts(ImageOf(f))
           /\ Unread(ImageOf(f)) = Unread(f)
<1> DEFINE m == ImageOf(f)
           p == f[0]
<1>1. p \in 1..BlockSize
  BY UnreadProps
<1>2. m \in Block /\ \A i \in 0..BlockSize-1 : m[i] = IF 1 <= i /\ i < p THEN 0 ELSE f[i]
  BY <1>1 DEF ImageOf, ZeroRange, Block, Byte
<1> HIDE DEF m
<1>3. m[0] = p
  BY <1>2, SizeFacts
<1> HIDE DEF p
<1>4. ASSUME NEW i \in 1..p-1 PROVE m[i] = 0
  <2>1. i \in 0..BlockSize-1 /\ 1 <= i /\ i < p
    BY <1>1, SizeFacts
  <2> QED
    BY <2>1, <1>2
<1>5. PosValid(m[0])
  BY <1>3 DEF p
<1>6. Accepts(m)
  BY <1>3, <1>4, <1>5 DEF Accepts
<1>7. /\ Unread(m) \in Seq(Byte) /\ Len(Unread(m)) = BlockSize - p
      /\ \A i \in 1..BlockSize-p : Unread(m)[i] = m[p + i - 1]
  <2>1. /\ Unread(m) \in Seq(Byte) /\ Len(Unread(m)) = BlockSize - m[0]
        /\ \A i \in 1..BlockSize-m[0] : Unread(m)[i] = m[m[0] + i - 1]
    BY <1>2, <1>5, UnreadProps
  <2> QED
    BY <2>1, <1>3
<1>8. /\ Unread(f) \in Seq(Byte) /\ Len(Unread(f)) = BlockSize - p
      /\ \A i \in 1..BlockSize-p : Unread(f)[i] = f[p + i - 1]
  BY UnreadProps DEF p
<1>9. ASSUME NEW i \in 1..Len(Unread(f)) PROVE Unread(m)[i] = Unread(f)[i]
  <2>1. i \in 1..BlockSize-p /\ p + i - 1 \in 0..BlockSize-1 /\ ~(p + i - 1 < p)
    BY <1>1, <1>8, SizeFacts
  <2> QED
    BY <2>1, <1>2, <1>7, <1>8
<1>10. Unread(m) = Unread(f)
  BY <1>7, <1>8, <1>9, SeqEqual
<1> QED
  BY <1>2, <1>6, <1>10 DEF m

(* serialize keeps the invariant.                                          *)
LEMMA SerializeStep == ASSUME IInv, Serialize PROVE IInv'
<1> DEFINE m == ImageOf(buffer)
           u == Unread(buffer)
<1>1. m \in Block /\ Accepts(m) /\ Unread(m) = u
  BY ImageOfProps DEF IInv, StreamInv, PosNeverBreaksInvariant, GetPos
<1>2. u \in Seq(Byte)
  BY HeldNow DEF IInv
<1>3. saved' = [image |-> m, data |-> u] /\ result' = "ok" /\ UNCHANGED <<buffer, stream, out>>
  BY DEF Serialize
<1>4. StreamInv'
  BY <1>3, StreamUnchanged DEF IInv
<1> HIDE DEF m, u
<1>5. SavedInv'
  BY <1>1, <1>2, <1>3 DEF SavedInv, SavedImageLoads
<1> QED
  BY <1>3, <1>4, <1>5 DEF IInv

(* deserialize of an image whose unread bytes the caller knows.            *)
LEMMA LoadStep ==
    ASSUME IInv, NEW image \in Block, NEW s, Accepts(image) => s = Unread(image), Load(image, s)
    PROVE  IInv'
<1>1. CASE Accepts(image)
  <2> DEFINE none == <<>>
  <2>1. s = Unread(image) /\ PosValid(image[0])
    BY <1>1 DEF Accepts
  <2>2. s \in Seq(Byte) /\ Len(s) = BlockSize - image[0] /\ image[0] \in 1..BlockSize
    BY <2>1, UnreadProps
  <2>3. buffer' = image /\ stream' = s /\ out' = none
        /\ saved' = [image |-> image, data |-> s] /\ result' = "ok"
    BY <1>1 DEF Load
  <2>4. none \in Seq(Byte) /\ Len(none) = 0 /\ none \o s = s
    BY <2>2, ConcatEmptySeq
  <2> HIDE DEF none
  <2>5. out' \o Unread(buffer') = stream'
    BY <2>1, <2>3, <2>4
  <2>6. Len(stream') < Len(out') + BlockSize
    BY <2>2, <2>3, <2>4, SizeFacts
  <2>7. StreamInv'
    BY <2>1, <2>2, <2>3, <2>4, <2>5, <2>6
       DEF StreamInv, StreamConserved, PosNeverBreaksInvariant, GetPos, Unread
  <2>8. SavedInv'
    BY <1>1, <2>1, <2>2, <2>3 DEF SavedInv, SavedImageLoads
  <2> QED
    BY <2>3, <2>7, <2>8 DEF IInv
<1>2. CASE ~Accepts(image)
  BY <1>2, StreamUnchanged, SavedUnchanged DEF Load, IInv
<1> QED
  BY <1>1, <1>2

(* deserialize of an image that was saved, and of any bytes.               *)
LEMMA RestoreStep == ASSUME IInv, Restore PROVE IInv'
<1>1. /\ saved.image \in Block /\ Load(saved.image, saved.data)
      /\ saved.data = Unread(saved.image)
  BY DEF Restore, IInv, SavedInv, SavedImageLoads
<1> QED
  BY <1>1, LoadStep

(* deserialize of any bytes.                                               *)
LEMMA DeserializeStep == ASSUME IInv, NEW image \in Images, Deserialize(image) PROVE IInv'
<1>1. image \in Block
  <2>1. PICK f \in [0..BlockSize-1 -> Data], p \in (0..BlockSize+1) \cap Byte :
            image = [f EXCEPT ![0] = p]
    BY DEF Images
  <2>2. f \in [0..BlockSize-1 -> Byte]
    BY DataAssumption
  <2> QED
    BY <2>1, <2>2 DEF Block
<1> QED
  BY <1>1, LoadStep DEF Deserialize

-----------------------------------------------------------------------------
(* A new reader is empty: its cursor is at the end of the block.           *)
LEMMA InitIInv == ASSUME Init PROVE IInv
<1> DEFINE none == <<>>
<1>1. buffer \in Block /\ buffer[0] = BlockSize
  BY SizeFacts DEF Init, Empty, Block, Byte
<1>2. PosValid(buffer[0]) /\ buffer[0] \in 1..BlockSize
  BY <1>1, SizeFacts DEF PosValid
<1>3. Unread(buffer) \in Seq(Byte) /\ Len(Unread(buffer)) = 0
  <2>1. Unread(buffer) \in Seq(Byte) /\ Len(Unread(buffer)) = BlockSize - buffer[0]
    BY <1>1, <1>2, UnreadProps
  <2> QED
    BY <2>1, <1>1, SizeFacts
<1>4. Unread(buffer) = none
  BY <1>3, EmptySeq
<1>5. none \in Seq(Byte) /\ none \o none = none /\ Len(none) = 0
  OBVIOUS
<1>6. out = none /\ stream = none /\ saved = NoImage /\ result = "ok"
  BY DEF Init
<1> HIDE DEF none
<1>7. StreamInv
  BY <1>1, <1>2, <1>4, <1>5, <1>6, SizeFacts
     DEF StreamInv, PosNeverBreaksInvariant, GetPos, StreamConserved
<1> QED
  BY <1>6, <1>7 DEF IInv, SavedInv, SavedImageLoads

(* Every step keeps the invariant.                                         *)
LEMMA NextIInv == ASSUME IInv, [Next]_vars PROVE IInv'
<1>1. ASSUME NEW n \in 0..MaxInput, NEW gen \in [1..Generated(n) -> Data],
             NEW last \in [0..BlockSize-1 -> Data], Read(n, gen, last)
      PROVE  IInv'
  BY <1>1, ReadStep
<1>2. ASSUME NEW n \in 0..MaxInput, ReadPanics(n) PROVE IInv'
  BY <1>2, ReadPanicsStep
<1>3. CASE Serialize
  BY <1>3, SerializeStep
<1>4. CASE Restore
  BY <1>4, RestoreStep
<1>5. ASSUME NEW image \in Images, Deserialize(image) PROVE IInv'
  BY <1>5, DeserializeStep
<1>6. CASE UNCHANGED vars
  BY <1>6, StreamUnchanged, SavedUnchanged DEF vars, IInv
<1> QED
  BY <1>1, <1>2, <1>3, <1>4, <1>5, <1>6 DEF Next

(* The inductive invariant holds in every reachable state.                 *)
THEOREM Invariance == Spec => []IInv
BY InitIInv, NextIInv, PTL DEF Spec

(* Block and images keep the types the source gives them.                  *)
THEOREM TypeCorrect == Spec => []TypeOK
<1>1. IInv => TypeOK
  BY DEF IInv, StreamInv, SavedInv, TypeOK
<1> QED
  BY <1>1, Invariance, PTL

(* The SAFETY comment of get_pos: the cursor, kept in a byte the generator *)
(* also writes, is never 0 and never past the block.                       *)
THEOREM CursorValid == Spec => []PosNeverBreaksInvariant
<1>1. IInv => PosNeverBreaksInvariant
  BY DEF IInv, StreamInv
<1> QED
  BY <1>1, Invariance, PTL

(* read hands out every generated byte once and in order, and generates no *)
(* block before it is needed, also when the generator panics in between.   *)
THEOREM StreamSafe == Spec => []StreamConserved
<1>1. IInv => StreamConserved
  BY DEF IInv, StreamInv
<1> QED
  BY <1>1, Invariance, PTL

(* What serialize writes, deserialize accepts and restores.                *)
THEOREM ImagesLoad == Spec => []SavedImageLoads
<1>1. IInv => SavedImageLoads
  BY DEF IInv, SavedInv
<1> QED
  BY <1>1, Invariance, PTL

-----------------------------------------------------------------------------
(* Arrays with the same bytes are the same array.                          *)
LEMMA SameArray ==
    ASSUME NEW S, NEW f \in [S -> Byte], NEW g \in [S -> Byte], \A i \in S : f[i] = g[i]
    PROVE  f = g
OBVIOUS

(* An accepted image is the only one with its unread bytes.                *)
LEMMA CanonicalImage ==
    ASSUME NEW f \in Block, Accepts(f), NEW g \in Block, Accepts(g), Unread(f) = Unread(g)
    PROVE  f = g
<1> DEFINE p == f[0]
<1>1. /\ p \in 1..BlockSize /\ Len(Unread(f)) = BlockSize - p
      /\ \A i \in 1..BlockSize-p : Unread(f)[i] = f[p + i - 1]
  BY UnreadProps DEF Accepts
<1>2. /\ g[0] \in 1..BlockSize /\ Len(Unread(g)) = BlockSize - g[0]
      /\ \A i \in 1..BlockSize-g[0] : Unread(g)[i] = g[g[0] + i - 1]
  BY UnreadProps DEF Accepts
<1>3. g[0] = p
  <2>1. BlockSize - p = BlockSize - g[0] /\ BlockSize \in Nat
    BY <1>1, <1>2, SizeFacts
  <2> QED
    BY <2>1, <1>1, <1>2
<1>4. \A i \in 1..p-1 : f[i] = 0 /\ g[i] = 0
  BY <1>3 DEF Accepts
<1>5. \A i \in 1..BlockSize-p : Unread(g)[i] = g[p + i - 1]
  BY <1>2, <1>3
<1> HIDE DEF p
<1>6. ASSUME NEW i \in 0..BlockSize-1 PROVE f[i] = g[i]
  <2>1. CASE i = 0
    BY <2>1, <1>3 DEF p
  <2>2. CASE i \in 1..p-1
    BY <2>2, <1>4
  <2>3. CASE i >= p
    <3> DEFINE j == i - p + 1
    <3>1. j \in 1..BlockSize-p /\ p + j - 1 = i
      BY <2>3, <1>1, SizeFacts
    <3> HIDE DEF j
    <3>2. Unread(f)[j] = f[p + j - 1] /\ Unread(g)[j] = g[p + j - 1]
      BY <3>1, <1>1, <1>5
    <3> QED
      BY <3>1, <3>2
  <2> QED
    BY <2>1, <2>2, <2>3, <1>1
<1> DEFINE S == 0..BlockSize-1
<1>7. f \in [S -> Byte] /\ g \in [S -> Byte] /\ \A i \in S : f[i] = g[i]
  BY <1>6 DEF Block
<1> HIDE DEF S
<1> QED
  BY <1>7, SameArray

(* Images are canonical: no byte that was read is left in an image, and no *)
(* two images have the same bytes left.                                    *)
THEOREM ImagesCanonical == Spec => []ImageIsCanonical
<1>1. IInv => ImageIsCanonical
  <2> SUFFICES ASSUME IInv, saved # NoImage, saved.data = Unread(buffer)
               PROVE  ImageOf(buffer) = saved.image
    BY DEF ImageIsCanonical
  <2>1. /\ ImageOf(buffer) \in Block /\ Accepts(ImageOf(buffer))
        /\ Unread(ImageOf(buffer)) = Unread(buffer)
    BY ImageOfProps DEF IInv, StreamInv, PosNeverBreaksInvariant, GetPos
  <2>2. /\ saved.image \in Block /\ Accepts(saved.image)
        /\ Unread(saved.image) = Unread(buffer)
    BY DEF IInv, SavedInv, SavedImageLoads
  <2> QED
    BY <2>1, <2>2, CanonicalImage
<1> QED
  BY <1>1, Invariance, PTL
=============================================================================
