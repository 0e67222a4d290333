------------------------- MODULE BlockBuffer_proofs -------------------------
(***************************************************************************)
(* The block buffer is correct for every block size, both kinds and every  *)
(* bound: types, the cursor invariant, conservation of the stream, the    *)
(* images of serialize, and the refinement of BlockStream.                 *)
(***************************************************************************)
EXTENDS BlockBuffer, ByteArrays_proofs

(* Buffer b with cursor field p holds exactly the slice s.                 *)
Holds(b, p, s) ==
    /\ b \in Block
    /\ p \in Byte
    /\ GetPosOf(b, p) = Len(s)
    /\ Invariant(Len(s), BlockSize)
    /\ Bytes(b, 0, Len(s)) = s

(* The inductive invariant.  Its part about the stream needs the cursor to  *)
(* be valid; its part about images is what makes a restore safe.           *)
StreamInv ==
    /\ buffer \in Block /\ pos \in Byte
    /\ msg \in Seq(Byte) /\ delivered \in Seq(Byte)
    /\ PosNeverBreaksInvariant
    /\ StreamConserved
SavedInv ==
    /\ saved = NoImage \/ saved \in [image : [ImageIndex -> Byte], data : Seq(Byte)]
    /\ SavedImageLoads
IInv == StreamInv /\ SavedInv /\ result \in {"ok", "err", "panic"}

(* Block sizes are 1 to 255.                                              *)
LEMMA SizeFacts == BlockSize \in Nat \ {0} /\ BlockSize <= 255 /\ BlockSize - 1 \in Nat
BY BlockSizeAssumption

(* The slices callers pass are slices of bytes.                            *)
LEMMA SlicesProps ==
    ASSUME NEW s \in Slices
    PROVE  s \in Seq(Byte) /\ Len(s) \in Nat
<1>1. PICK n \in 0..MaxInput : s \in [1..n -> Data]
  BY DEF Slices
<1>2. n \in Nat
  BY BoundsAssumption
<1>3. \A x \in Data : x \in Byte
  BY DataAssumption DEF Byte
<1>4. s \in [1..n -> Byte]
  BY <1>1, <1>3
<1>5. s \in Seq(Byte)
  BY <1>2, <1>4, SeqDef
<1> QED
  BY <1>5, LenProperties

(* split_blocks: the blocks are whole and the tail fits in the buffer.     *)
LEMMA SplitBlocksProps ==
    ASSUME NEW n \in Nat
    PROVE  /\ SplitBlocks(n) \in 0..n
           /\ SplitBlocks(n) % BlockSize = 0
           /\ Invariant(n - SplitBlocks(n), BlockSize)
<1> DEFINE q == n \div BlockSize
           r == n % BlockSize
<1>1. BlockSize \in Nat \ {0} /\ 0 \in 0..BlockSize-1
  BY SizeFacts
<1>2. q \in Nat /\ r \in 0..BlockSize-1 /\ n = q * BlockSize + r
  BY <1>1, DivMod
<1>3. CASE SplitBlocks(n) = q * BlockSize
  <2> HIDE DEF q, r
  <2>1. q * BlockSize \in Nat /\ (q * BlockSize + 0) % BlockSize = 0
    BY <1>1, <1>2, ModUnique
  <2> QED
    BY <1>1, <1>2, <1>3, <2>1 DEF Invariant
<1>4. CASE Kind = "Lazy" /\ n = 0
  BY <1>1, <1>4, BlockMod DEF SplitBlocks, Invariant
<1>5. CASE Kind = "Lazy" /\ n # 0 /\ r = 0
  <2>1. SplitBlocks(n) = (q - 1) * BlockSize
    BY <1>5 DEF SplitBlocks
  <2> HIDE DEF q, r
  <2>2. q # 0
    BY <1>1, <1>2, <1>5
  <2>3. q - 1 \in Nat /\ (q - 1) * BlockSize = q * BlockSize - BlockSize
    BY <1>1, <1>2, <2>2
  <2>4. (q - 1) * BlockSize \in Nat
    BY <1>1, <2>3
  <2>5. ((q - 1) * BlockSize + 0) % BlockSize = 0
    BY <1>1, <2>3, ModUnique
  <2> QED
    BY <1>1, <1>2, <1>5, <2>1, <2>3, <2>4, <2>5 DEF Invariant
<1> QED
  BY <1>3, <1>4, <1>5, KindAssumption DEF SplitBlocks

(* The first n bytes of a block, as a slice.                               *)
LEMMA PrefixOfBlock ==
    ASSUME NEW f \in Block, NEW n \in 0..BlockSize
    PROVE  /\ Bytes(f, 0, n) \in Seq(Byte)
           /\ Len(Bytes(f, 0, n)) = n
           /\ \A i \in 1..n : Bytes(f, 0, n)[i] = f[i - 1]
BY SizeFacts DEF Bytes, Block, Byte

(* A block with a range zeroed.                                            *)
LEMMA ZeroBlockRange ==
    ASSUME NEW f \in Block, NEW a, NEW b
    PROVE  /\ ZeroRange(f, a, b) \in Block
           /\ \A i \in 0..BlockSize-1 : ZeroRange(f, a, b)[i] = IF a <= i /\ i < b THEN 0 ELSE f[i]
BY DEF ZeroRange, Block, Byte

(* Where the cursor is written and read back: it survives `as u8`, and no  *)
(* byte below it is touched.                                               *)
LEMMA SetPosProps ==
    ASSUME NEW b \in Block, NEW v \in Nat, Invariant(v, BlockSize)
    PROVE  /\ PosInBuffer(b, v) \in Block
           /\ \A i \in 0..v-1 : PosInBuffer(b, v)[i] = b[i]
           /\ PosField(v) \in Byte
           /\ GetPosOf(PosInBuffer(b, v), PosField(v)) = v
           /\ v <= BlockSize
<1>1. v <= BlockSize /\ v <= 255
  BY SizeFacts DEF Invariant
<1>2. v % 256 = v /\ v % 256 \in 0..255 /\ 0 \in 0..255
  BY <1>1
<1>3. BlockSize - 1 \in 0..BlockSize-1
  BY SizeFacts
<1>4. CASE Kind = "Eager"
  <2>1. v <= BlockSize - 1
    BY <1>4, SizeFacts DEF Invariant
  <2>2. PosInBuffer(b, v) = [b EXCEPT ![BlockSize-1] = v]
    BY <1>2, <1>4 DEF PosInBuffer
  <2> QED
    BY <1>1, <1>2, <1>3, <1>4, <2>1, <2>2, SizeFacts DEF PosField, GetPosOf, Block, Byte
<1>5. CASE Kind # "Eager"
  BY <1>1, <1>2, <1>5 DEF PosInBuffer, PosField, GetPosOf, Byte
<1> QED
  BY <1>4, <1>5

(* A buffer that starts with s holds s once its cursor is set.             *)
LEMMA SetPosHolds ==
    ASSUME NEW b \in Block, NEW s \in Seq(Byte), Invariant(Len(s), BlockSize),
           \A i \in 1..Len(s) : b[i - 1] = s[i]
    PROVE  Holds(PosInBuffer(b, Len(s)), PosField(Len(s)), s)
<1> DEFINE n == Len(s)
           c == PosInBuffer(b, n)
<1>1. n \in Nat
  BY LenProperties
<1>2. /\ c \in Block
      /\ \A i \in 0..n-1 : c[i] = b[i]
      /\ GetPosOf(c, PosField(n)) = n /\ PosField(n) \in Byte /\ n <= BlockSize
  BY <1>1, SetPosProps
<1> HIDE DEF c
<1>3. n \in 0..BlockSize
  BY <1>1, <1>2, SizeFacts
<1>4. /\ Bytes(c, 0, n) \in Seq(Byte) /\ Len(Bytes(c, 0, n)) = n
      /\ \A i \in 1..n : Bytes(c, 0, n)[i] = s[i]
  BY <1>1, <1>2, <1>3, PrefixOfBlock
<1>5. Bytes(c, 0, n) = s
  BY <1>1, <1>3, <1>4, SeqEqual
<1> QED
  BY <1>2, <1>5 DEF Holds, c

(* With the cursor at zero a buffer holds nothing.                         *)
LEMMA ClearHolds ==
    ASSUME NEW b \in Block
    PROVE  Holds(PosInBuffer(b, 0), PosField(0), <<>>)
<1> DEFINE s == <<>>
<1>1. s \in Seq(Byte) /\ Len(s) = 0 /\ \A i \in 1..Len(s) : b[i - 1] = s[i]
  OBVIOUS
<1>2. Invariant(Len(s), BlockSize)
  BY <1>1, SizeFacts DEF Invariant
<1> HIDE DEF s
<1>3. Holds(PosInBuffer(b, Len(s)), PosField(Len(s)), s)
  BY <1>1, <1>2, SetPosHolds
<1> QED
  BY <1>1, <1>3 DEF s

(* What IInv says of the data held now.                                    *)
LEMMA HeldNow ==
    ASSUME StreamInv
    PROVE  /\ GetPos \in 0..BlockSize
           /\ Kind = "Eager" => GetPos < BlockSize
           /\ GetData \in Seq(Byte)
           /\ Len(GetData) = GetPos
           /\ \A i \in 1..GetPos : GetData[i] = buffer[i - 1]
<1>1. GetPos \in Byte
  <2>1. BlockSize - 1 \in 0..BlockSize-1 /\ buffer \in [0..BlockSize-1 -> Byte] /\ pos \in Byte
    BY SizeFacts DEF StreamInv, Block
  <2> QED
    BY <2>1 DEF GetPos, GetPosOf
<1>2. Invariant(GetPos, BlockSize)
  BY DEF StreamInv, PosNeverBreaksInvariant
<1>3. GetPos \in 0..BlockSize /\ (Kind = "Eager" => GetPos < BlockSize)
  BY <1>1, <1>2, SizeFacts DEF Invariant, Byte
<1>4. buffer \in Block
  BY DEF StreamInv
<1> QED
  BY <1>3, <1>4, PrefixOfBlock DEF GetData

(* A step that leaves a buffer holding s' has the new data s'.             *)
LEMMA HeldNext ==
    ASSUME NEW s, s \in Seq(Byte), Holds(buffer', pos', s)
    PROVE  GetData' = s /\ PosNeverBreaksInvariant' /\ buffer' \in Block /\ pos' \in Byte
BY DEF Holds, GetData, GetPos, PosNeverBreaksInvariant

-----------------------------------------------------------------------------
(* Input that is added to the held data, whole blocks taken off its front  *)
(* and the rest held, keeps the stream.                                    *)
LEMMA StreamStep ==
    ASSUME StreamInv, NEW input \in Seq(Byte), NEW sent \in Seq(Byte), NEW s \in Seq(Byte),
           Cat(GetData, input) = Cat(sent, s),
           Len(sent) % BlockSize = 0,
           Holds(buffer', pos', s),
           delivered' = Cat(delivered, sent),
           msg' = Cat(msg, input)
    PROVE  StreamInv'
<1>1. /\ GetData \in Seq(Byte) /\ delivered \in Seq(Byte) /\ msg \in Seq(Byte)
      /\ delivered \o GetData = msg /\ Len(delivered) % BlockSize = 0
  BY HeldNow DEF StreamInv, StreamConserved
<1>2. /\ GetData' = s /\ PosNeverBreaksInvariant' /\ buffer' \in Block /\ pos' \in Byte
  BY HeldNext
<1>3. /\ delivered' \in Seq(Byte) /\ msg' \in Seq(Byte)
      /\ Len(delivered') = Len(delivered) + Len(sent)
      /\ Len(delivered) \in Nat /\ Len(sent) \in Nat
  BY <1>1, ConcatProperties, LenProperties DEF Cat
<1>4. Len(delivered') % BlockSize = 0
  <2>1. (Len(delivered) + Len(sent)) % BlockSize = Len(sent) % BlockSize
    BY <1>1, <1>3, SizeFacts, MultiplePlus
  <2> QED
    BY <2>1, <1>3
<1>5. delivered' \o s = msg'
  <2>1. Cat(Cat(delivered, sent), s) = Cat(Cat(delivered, GetData), input)
    BY <1>1, CatMove
  <2> QED
    BY <1>1, <2>1 DEF Cat
<1> QED
  BY <1>2, <1>3, <1>4, <1>5 DEF StreamInv, StreamConserved

(* A stream that starts with the bytes held is conserved.                  *)
LEMMA RestartStep ==
    ASSUME NEW s \in Seq(Byte), Holds(buffer', pos', s), Restart(s)
    PROVE  StreamInv'
<1>1. /\ GetData' = s /\ PosNeverBreaksInvariant' /\ buffer' \in Block /\ pos' \in Byte
  BY HeldNext
<1>2. msg' = s /\ delivered' = <<>> /\ delivered' \in Seq(Byte) /\ Len(delivered') = 0
  BY DEF Restart
<1>3. <<>> \o s = s
  BY ConcatEmptySeq
<1>4. 0 % BlockSize = 0
  BY SizeFacts, BlockMod
<1> QED
  BY <1>1, <1>2, <1>3, <1>4 DEF StreamInv, StreamConserved

(* A step that leaves the saved image alone keeps what is known of it.    *)
LEMMA SavedUnchanged == ASSUME SavedInv, UNCHANGED saved PROVE SavedInv'
BY DEF SavedInv, SavedImageLoads, Accepts, ImagePos, ImageBuffer

(* A rejected call changes nothing.                                        *)
LEMMA RejectStep ==
    ASSUME IInv, NEW how \in {"err", "panic"}, Reject(how)
    PROVE  IInv'
<1>1. StreamInv'
  BY DEF Reject, IInv, StreamInv, PosNeverBreaksInvariant, StreamConserved, GetData, GetPos
<1> QED
  BY <1>1, SavedUnchanged DEF IInv, Reject

-----------------------------------------------------------------------------
(* try_new: the new buffer holds the slice it was made from.              *)
LEMMA TryNewStep == ASSUME IInv, NEW buf \in Slices, TryNew(buf) PROVE IInv'
<1>1. CASE Invariant(Len(buf), BlockSize)
  <2> DEFINE b == Overwrite(ZeroBlock, 0, buf)
  <2>1. buf \in Seq(Byte) /\ Len(buf) \in Nat /\ 0 + Len(buf) <= BlockSize
    BY <1>1, SlicesProps, SizeFacts DEF Invariant
  <2>2. ZeroBlock \in [0..BlockSize-1 -> Byte]
    BY DEF ZeroBlock, Byte
  <2>3. b \in [0..BlockSize-1 -> Byte] /\ \A i \in 1..Len(buf) : b[0 + i - 1] = buf[i]
    BY <2>1, <2>2, SizeFacts, OverwriteProps
  <2> HIDE DEF b
  <2>4. b \in Block /\ \A i \in 1..Len(buf) : b[i - 1] = buf[i]
    BY <2>1, <2>3 DEF Block
  <2>5. Holds(buffer', pos', buf)
    BY <1>1, <2>1, <2>4, SetPosHolds DEF TryNew, SetPosUnchecked, b
  <2> QED
    BY <1>1, <2>1, <2>5, RestartStep, SavedUnchanged DEF IInv, TryNew
<1>2. CASE ~Invariant(Len(buf), BlockSize)
  BY <1>2, RejectStep DEF TryNew
<1> QED
  BY <1>1, <1>2

(* reset: nothing is held any more.                                       *)
LEMMA ResetStep == ASSUME IInv, Reset PROVE IInv'
<1>1. <<>> \in Seq(Byte) /\ buffer \in Block
  BY DEF IInv, StreamInv
<1>2. Holds(buffer', pos', <<>>)
  BY <1>1, ClearHolds DEF Reset, SetPosUnchecked
<1> QED
  BY <1>1, <1>2, RestartStep, SavedUnchanged DEF IInv, Reset

(* set: the bytes below the cursor are the new data.                      *)
LEMMA SetStep ==
    ASSUME IInv, NEW buf \in [0..BlockSize-1 -> Data], NEW p \in 0..BlockSize+1, Set(buf, p)
    PROVE  IInv'
<1>1. CASE Invariant(p, BlockSize)
  <2>1. buf \in Block
    BY DataAssumption DEF Block, Byte
  <2>2. p \in 0..BlockSize
    BY <1>1, SizeFacts DEF Invariant
  <2> DEFINE s == Bytes(buf, 0, p)
  <2>3. s \in Seq(Byte) /\ Len(s) = p /\ \A i \in 1..p : s[i] = buf[i - 1]
    BY <2>1, <2>2, PrefixOfBlock
  <2>4. SetPosUnchecked(buf, p) /\ Restart(s) /\ result' = "ok" /\ UNCHANGED saved
    BY <1>1 DEF Set
  <2> HIDE DEF s
  <2>5. Holds(PosInBuffer(buf, Len(s)), PosField(Len(s)), s)
    BY <1>1, <2>1, <2>3, SetPosHolds
  <2>6. Holds(buffer', pos', s)
    BY <2>3, <2>4, <2>5 DEF SetPosUnchecked
  <2> QED
    BY <2>3, <2>4, <2>6, RestartStep, SavedUnchanged DEF IInv
<1>2. CASE ~Invariant(p, BlockSize)
  BY <1>2, RejectStep DEF Set
<1> QED
  BY <1>1, <1>2

(* digest_blocks, input that fits: it is appended to the data held.        *)
LEMMA FitsStep ==
    ASSUME IInv, NEW input \in Slices, DigestFits(input), msg' = msg \o input
    PROVE  StreamInv'
<1> DEFINE p == GetPos
           b == Overwrite(buffer, p, input)
           s == GetData \o input
<1>1. /\ p \in 0..BlockSize /\ GetData \in Seq(Byte) /\ Len(GetData) = p
      /\ \A i \in 1..p : GetData[i] = buffer[i - 1]
  BY HeldNow DEF IInv
<1>2. buffer \in [0..BlockSize-1 -> Byte] /\ delivered \in Seq(Byte)
  BY DEF IInv, StreamInv, Block
<1>3. input \in Seq(Byte) /\ Len(input) \in Nat
  BY SlicesProps
<1>4. Invariant(Len(input), BlockSize - p)
  BY DEF DigestFits
<1>5. p \in Nat /\ BlockSize \in Nat /\ p + Len(input) <= BlockSize
      /\ Invariant(p + Len(input), BlockSize)
  BY <1>1, <1>3, <1>4, SizeFacts DEF Invariant
<1>6. /\ SetPosUnchecked(b, p + Len(input))
      /\ delivered' = delivered
  BY DEF DigestFits
<1> HIDE DEF p
<1>7. /\ b \in [0..BlockSize-1 -> Byte]
      /\ \A i \in 1..Len(input) : b[p + i - 1] = input[i]
      /\ \A i \in 0..BlockSize-1 : i < p \/ i >= p + Len(input) => b[i] = buffer[i]
  <2>1. buffer \in [0..BlockSize-1 -> Byte] /\ p \in Nat /\ BlockSize \in Nat
        /\ input \in Seq(Byte) /\ p + Len(input) <= BlockSize
    BY <1>2, <1>3, <1>5
  <2> QED
    BY <2>1, OverwriteProps
<1> HIDE DEF b
<1>8. /\ s \in Seq(Byte) /\ Len(s) = p + Len(input)
      /\ \A i \in 1..p : s[i] = GetData[i]
      /\ \A i \in 1..Len(input) : s[p + i] = input[i]
  BY <1>1, <1>3, ConcatProps
<1> HIDE DEF s
<1>9. ASSUME NEW i \in 1..Len(s) PROVE b[i - 1] = s[i]
  <2>1. CASE i <= p
    <3>1. i \in 1..p /\ i - 1 \in 0..BlockSize-1 /\ i - 1 < p
      BY <2>1, <1>3, <1>5, <1>8
    <3> QED
      BY <3>1, <1>1, <1>7, <1>8
  <2>2. CASE i > p
    <3> DEFINE j == i - p
    <3>1. j \in 1..Len(input) /\ p + j - 1 = i - 1 /\ p + j = i
      BY <2>2, <1>3, <1>5, <1>8
    <3> HIDE DEF j
    <3>2. b[p + j - 1] = input[j] /\ s[p + j] = input[j]
      BY <3>1, <1>7, <1>8
    <3> QED
      BY <3>1, <3>2
  <2> QED
    BY <1>3, <1>5, <1>8, <2>1, <2>2
<1>10. Holds(PosInBuffer(b, Len(s)), PosField(Len(s)), s)
  BY <1>5, <1>7, <1>8, <1>9, SetPosHolds DEF Block
<1>11. Holds(buffer', pos', s)
  BY <1>6, <1>8, <1>10 DEF SetPosUnchecked
<1> DEFINE none == <<>>
<1>12. /\ none \in Seq(Byte) /\ Len(none) = 0
       /\ Cat(none, s) = s /\ Cat(delivered, none) = delivered
  BY <1>2, <1>8, ConcatEmptySeq DEF Cat
<1> HIDE DEF none
<1>13. Len(none) % BlockSize = 0
  BY <1>12, SizeFacts, BlockMod
<1>14. /\ Cat(GetData, input) = Cat(none, s)
       /\ delivered' = Cat(delivered, none)
       /\ msg' = Cat(msg, input)
  BY <1>6, <1>12 DEF s, Cat
<1> QED
  BY <1>3, <1>8, <1>11, <1>12, <1>13, <1>14, StreamStep DEF IInv

(* digest_blocks, input that does not fit.                                 *)
LEMMA SpillsStep ==
    ASSUME IInv, NEW input \in Slices, DigestSpills(input), msg' = msg \o input
    PROVE  StreamInv'
<1> DEFINE p == GetPos
           n == Len(input)
           rem == BlockSize - p
           cut == IF p # 0 THEN rem ELSE 0
           left == SubSeq(input, 1, cut)
           filled == Overwrite(buffer, p, left)
           first == IF p # 0 THEN Bytes(filled, 0, BlockSize) ELSE <<>>
           whole == SplitBlocks(n - cut)
           blocks == SubSeq(input, cut + 1, cut + whole)
           s == SubSeq(input, cut + whole + 1, n)
           b == Overwrite(filled, 0, s)
           sent == Cat(first, blocks)
<1>1. /\ p \in 0..BlockSize /\ GetData \in Seq(Byte) /\ Len(GetData) = p
      /\ \A i \in 1..p : GetData[i] = buffer[i - 1]
  BY HeldNow DEF IInv
<1>2. buffer \in [0..BlockSize-1 -> Byte] /\ delivered \in Seq(Byte)
  BY DEF IInv, StreamInv, Block
<1>3. input \in Seq(Byte) /\ n \in Nat
  BY SlicesProps
<1>4. /\ ~Invariant(n, rem)
      /\ delivered' = delivered \o first \o blocks
      /\ SetPosUnchecked(b, Len(s))
  BY DEF DigestSpills
<1> HIDE DEF p
<1>5. p \in Nat /\ rem \in Nat /\ cut \in 0..n /\ (p # 0 => cut = rem) /\ (p = 0 => cut = 0)
  <2>1. p \in Nat /\ p <= BlockSize /\ BlockSize \in Nat /\ n \in Nat
    BY <1>1, <1>3, SizeFacts
  <2>2. ~(n <= rem) \/ ~(n < rem)
    BY <1>4 DEF Invariant
  <2>3. rem \in Nat /\ rem <= n
    BY <2>1, <2>2
  <2> QED
    BY <2>1, <2>3
<1> HIDE DEF cut, rem
<1>6. /\ n - cut \in Nat /\ whole \in 0..(n - cut) /\ whole % BlockSize = 0
      /\ Invariant((n - cut) - whole, BlockSize)
  <2>1. n - cut \in Nat
    BY <1>3, <1>5
  <2> QED
    BY <2>1, SplitBlocksProps
<1> HIDE DEF whole
<1>7. /\ left \in Seq(Byte) /\ Len(left) = cut
      /\ \A i \in 1..cut : left[i] = input[i]
  <2>1. /\ SubSeq(input, 0 + 1, cut) \in Seq(Byte)
        /\ Len(SubSeq(input, 0 + 1, cut)) = cut - 0
        /\ \A i \in 1..cut - 0 : SubSeq(input, 0 + 1, cut)[i] = input[0 + i]
    BY <1>3, <1>5, SubSeqProps
  <2> QED
    BY <2>1, <1>5
<1>8. /\ blocks \in Seq(Byte) /\ Len(blocks) = whole
      /\ \A i \in 1..whole : blocks[i] = input[cut + i]
  <2> DEFINE to == cut + whole
  <2>1. cut \in Nat /\ to \in Nat /\ cut <= to /\ to <= Len(input) /\ to - cut = whole
    BY <1>3, <1>5, <1>6
  <2> HIDE DEF to
  <2>2. /\ SubSeq(input, cut + 1, to) \in Seq(Byte)
        /\ Len(SubSeq(input, cut + 1, to)) = to - cut
        /\ \A i \in 1..to-cut : SubSeq(input, cut + 1, to)[i] = input[cut + i]
    BY <1>3, <2>1, SubSeqProps
  <2> QED
    BY <2>1, <2>2 DEF to
<1>9. /\ s \in Seq(Byte) /\ Len(s) = n - (cut + whole)
      /\ \A i \in 1..Len(s) : s[i] = input[(cut + whole) + i]
  <2> DEFINE at == cut + whole
  <2>1. at \in Nat /\ at <= n /\ n \in Nat /\ n <= Len(input)
    BY <1>3, <1>5, <1>6
  <2> HIDE DEF at, n
  <2>2. /\ SubSeq(input, at + 1, n) \in Seq(Byte)
        /\ Len(SubSeq(input, at + 1, n)) = n - at
        /\ \A i \in 1..n-at : SubSeq(input, at + 1, n)[i] = input[at + i]
    BY <1>3, <2>1, SubSeqProps
  <2> QED
    BY <2>2 DEF at
<1>10. Invariant(Len(s), BlockSize) /\ Len(s) \in Nat /\ Len(s) <= BlockSize
  <2>1. Len(s) = (n - cut) - whole
    BY <1>3, <1>5, <1>6, <1>9
  <2> QED
    BY <1>3, <1>5, <1>6, <2>1, SizeFacts DEF Invariant
<1> HIDE DEF left, blocks, s, n
<1>11. input = Cat(left, Cat(blocks, s))
  <2> DEFINE t == blocks \o s
  <2>1. /\ t \in Seq(Byte) /\ Len(t) = whole + Len(s)
        /\ \A i \in 1..whole : t[i] = blocks[i]
        /\ \A i \in 1..Len(s) : t[whole + i] = s[i]
    BY <1>8, <1>9, ConcatProps
  <2> HIDE DEF t
  <2>2. ASSUME NEW i \in 1..Len(t) PROVE input[cut + i] = t[i]
    <3>1. CASE i <= whole
      BY <3>1, <2>1, <1>6, <1>8
    <3>2. CASE i > whole
      <4>1. i - whole \in 1..Len(s) /\ whole + (i - whole) = i
            /\ (cut + whole) + (i - whole) = cut + i
        BY <3>2, <2>1, <1>5, <1>6, <1>10
      <4> QED
        BY <4>1, <2>1, <1>9
    <3> QED
      BY <3>1, <3>2, <1>6
  <2>3. Len(input) = cut + Len(t) /\ Len(left) = cut
    BY <2>1, <1>3, <1>5, <1>6, <1>7, <1>9 DEF n
  <2>4. /\ Len(input) = Len(left) + Len(t)
        /\ \A i \in 1..Len(left) : input[i] = left[i]
        /\ \A i \in 1..Len(t) : input[Len(left) + i] = t[i]
    BY <2>2, <2>3, <1>7
  <2>5. left \o t = input
    BY <2>1, <2>4, <1>3, <1>7, ConcatEqual
  <2> QED
    BY <2>5 DEF Cat, t
<1>12. /\ filled \in [0..BlockSize-1 -> Byte]
       /\ \A i \in 1..cut : filled[p + i - 1] = left[i]
       /\ \A i \in 0..BlockSize-1 : i < p => filled[i] = buffer[i]
  <2>1. p + Len(left) <= BlockSize /\ p \in Nat /\ left \in Seq(Byte) /\ BlockSize \in Nat
    BY <1>1, <1>5, <1>7, SizeFacts DEF rem
  <2>2. /\ filled \in [0..BlockSize-1 -> Byte]
        /\ \A i \in 1..Len(left) : filled[p + i - 1] = left[i]
        /\ \A i \in 0..BlockSize-1 : i < p \/ i >= p + Len(left) => filled[i] = buffer[i]
    BY <2>1, <1>2, OverwriteProps
  <2> QED
    BY <2>2, <1>7
<1> HIDE DEF filled
<1>13. first \in Seq(Byte) /\ Len(first) = p + cut /\ Len(first) % BlockSize = 0
       /\ \A i \in 1..Len(first) : first[i] = filled[i - 1]
  <2>1. CASE p # 0
    <3>1. filled \in Block /\ BlockSize \in 0..BlockSize /\ p + cut = BlockSize
      BY <2>1, <1>1, <1>5, <1>12, SizeFacts DEF Block, rem
    <3>2. first = Bytes(filled, 0, BlockSize)
      BY <2>1
    <3> HIDE DEF first
    <3>3. /\ Bytes(filled, 0, BlockSize) \in Seq(Byte)
          /\ Len(Bytes(filled, 0, BlockSize)) = BlockSize
          /\ \A i \in 1..BlockSize : Bytes(filled, 0, BlockSize)[i] = filled[i - 1]
      BY <3>1, PrefixOfBlock
    <3>4. BlockSize % BlockSize = 0
      BY SizeFacts, BlockMod
    <3> QED
      BY <3>1, <3>2, <3>3, <3>4
  <2>2. CASE p = 0
    BY <2>2, <1>5, SizeFacts, BlockMod
  <2> QED
    BY <2>1, <2>2
<1> HIDE DEF first
<1>14. Cat(GetData, left) = first
  <2>1. \A i \in 1..p : first[i] = GetData[i]
    <3> SUFFICES ASSUME NEW i \in 1..p PROVE first[i] = GetData[i]
      OBVIOUS
    <3>1. i \in 1..Len(first) /\ i - 1 \in 0..BlockSize-1 /\ i - 1 < p
      BY <1>1, <1>3, <1>5, <1>13, SizeFacts
    <3> QED
      BY <3>1, <1>1, <1>12, <1>13
  <2>2. \A i \in 1..cut : first[p + i] = left[i]
    <3> SUFFICES ASSUME NEW i \in 1..cut PROVE first[p + i] = left[i]
      OBVIOUS
    <3>1. p + i \in 1..Len(first) /\ (p + i) - 1 = p + i - 1
      BY <1>5, <1>13
    <3> QED
      BY <3>1, <1>12, <1>13
  <2>3. /\ Len(first) = Len(GetData) + Len(left)
        /\ \A i \in 1..Len(GetData) : first[i] = GetData[i]
        /\ \A i \in 1..Len(left) : first[Len(GetData) + i] = left[i]
    BY <2>1, <2>2, <1>1, <1>7, <1>13
  <2>4. GetData \o left = first
    BY <2>3, <1>1, <1>7, <1>13, ConcatEqual
  <2> QED
    BY <2>4 DEF Cat
<1>15. Cat(GetData, input) = Cat(sent, s) /\ sent \in Seq(Byte)
  <2>1. Cat(blocks, s) \in Seq(Byte) /\ Cat(first, blocks) \in Seq(Byte)
    BY <1>8, <1>9, <1>13, CatAssoc
  <2>2. Cat(Cat(GetData, left), Cat(blocks, s)) = Cat(GetData, Cat(left, Cat(blocks, s)))
    BY <2>1, <1>1, <1>7, CatAssoc
  <2>3. Cat(Cat(first, blocks), s) = Cat(first, Cat(blocks, s))
    BY <1>8, <1>9, <1>13, CatAssoc
  <2> QED
    BY <2>1, <2>2, <2>3, <1>11, <1>14
<1>16. Len(sent) % BlockSize = 0
  <2>1. Len(sent) = Len(first) + whole /\ Len(first) \in Nat /\ whole \in Nat
    BY <1>6, <1>8, <1>13, ConcatProps DEF Cat
  <2> QED
    BY <2>1, <1>6, <1>13, SizeFacts, MultiplePlus
<1>17. delivered' = Cat(delivered, sent) /\ msg' = Cat(msg, input)
  <2>1. delivered' = Cat(Cat(delivered, first), blocks)
    BY <1>4 DEF Cat
  <2> QED
    BY <2>1, <1>2, <1>8, <1>13, CatAssoc DEF Cat
<1>18. Holds(buffer', pos', s)
  <2>1. /\ b \in [0..BlockSize-1 -> Byte]
        /\ \A i \in 1..Len(s) : b[0 + i - 1] = s[i]
    BY <1>9, <1>10, <1>12, SizeFacts, OverwriteProps
  <2> HIDE DEF b
  <2>2. \A i \in 1..Len(s) : b[i - 1] = s[i]
    BY <2>1, <1>10
  <2>3. Holds(PosInBuffer(b, Len(s)), PosField(Len(s)), s)
    BY <2>1, <2>2, <1>9, <1>10, SetPosHolds DEF Block
  <2> QED
    BY <2>3, <1>4 DEF SetPosUnchecked
<1> HIDE DEF sent
<1> QED
  BY <1>3, <1>9, <1>15, <1>16, <1>17, <1>18, StreamStep DEF IInv

-----------------------------------------------------------------------------
(* Ending a stream: the tail completes the last block and nothing is held. *)
LEMMA FinishStep ==
    ASSUME StreamInv, NEW input \in Seq(Byte), NEW sent \in Seq(Byte),
           Cat(GetData, input) = sent,
           Len(sent) % BlockSize = 0,
           Holds(buffer', pos', <<>>),
           delivered' = Cat(delivered, sent),
           msg' = Cat(msg, input)
    PROVE  StreamInv'
<1> DEFINE none == <<>>
<1>1. none \in Seq(Byte) /\ Cat(sent, none) = sent
  BY ConcatEmptySeq DEF Cat
<1>2. Holds(buffer', pos', none)
  OBVIOUS
<1> HIDE DEF none
<1>3. Cat(GetData, input) = Cat(sent, none)
  BY <1>1
<1> QED
  BY <1>1, <1>2, <1>3, StreamStep

(* pad_with_zeros: the data and the zeros behind it make one block.       *)
LEMMA PadWithZerosStep == ASSUME IInv, PadWithZeros PROVE IInv'
<1> DEFINE p == GetPos
           z == ZeroRange(buffer, p, BlockSize)
           sent == Bytes(z, 0, BlockSize)
           tail == Zeros(BlockSize - p)
<1>1. /\ p \in 0..BlockSize /\ GetData \in Seq(Byte) /\ Len(GetData) = p
      /\ \A i \in 1..p : GetData[i] = buffer[i - 1]
  BY HeldNow DEF IInv
<1>2. buffer \in Block
  BY DEF IInv, StreamInv
<1>3. /\ delivered' = Cat(delivered, sent) /\ msg' = Cat(msg, tail)
      /\ SetPosUnchecked(buffer, 0) /\ result' = "ok" /\ UNCHANGED saved
  BY DEF PadWithZeros, Cat
<1> HIDE DEF p
<1>4. z \in Block /\ \A i \in 0..BlockSize-1 : z[i] = IF p <= i /\ i < BlockSize THEN 0 ELSE buffer[i]
  BY <1>2, ZeroBlockRange
<1> HIDE DEF z
<1>5. sent \in Seq(Byte) /\ Len(sent) = BlockSize /\ \A i \in 1..BlockSize : sent[i] = z[i - 1]
  BY <1>4, SizeFacts, PrefixOfBlock
<1>6. tail \in Seq(Byte) /\ Len(tail) = BlockSize - p /\ \A i \in 1..Len(tail) : tail[i] = 0
  <2>1. BlockSize - p \in Nat
    BY <1>1, SizeFacts
  <2> QED
    BY <2>1, ZerosProps
<1> HIDE DEF sent, tail
<1>7. /\ Len(sent) = Len(GetData) + Len(tail)
      /\ \A i \in 1..Len(GetData) : sent[i] = GetData[i]
      /\ \A i \in 1..Len(tail) : sent[Len(GetData) + i] = tail[i]
  <2>1. ASSUME NEW i \in 1..Len(GetData) PROVE sent[i] = GetData[i]
    <3>1. i \in 1..BlockSize /\ i - 1 \in 0..BlockSize-1 /\ ~(p <= i - 1)
      BY <1>1, SizeFacts
    <3> QED
      BY <3>1, <1>1, <1>4, <1>5
  <2>2. ASSUME NEW i \in 1..Len(tail) PROVE sent[p + i] = tail[i]
    <3>1. /\ p + i \in 1..BlockSize /\ (p + i) - 1 \in 0..BlockSize-1
          /\ p <= (p + i) - 1 /\ (p + i) - 1 < BlockSize
      BY <1>1, <1>6, SizeFacts
    <3> QED
      BY <3>1, <1>4, <1>5, <1>6
  <2> QED
    BY <2>1, <2>2, <1>1, <1>5, <1>6, SizeFacts
<1>8. Cat(GetData, tail) = sent
  BY <1>1, <1>5, <1>6, <1>7, ConcatEqual DEF Cat
<1>9. Len(sent) % BlockSize = 0
  BY <1>5, SizeFacts, BlockMod
<1>10. Holds(buffer', pos', <<>>)
  BY <1>2, <1>3, ClearHolds DEF SetPosUnchecked
<1>11. StreamInv'
  BY <1>3, <1>5, <1>6, <1>8, <1>9, <1>10, FinishStep DEF IInv
<1> QED
  BY <1>3, <1>11, SavedUnchanged DEF IInv

(* The number of zeros of the reference padding, in terms of the cursor.   *)
LEMMA PadZerosProps ==
    ASSUME NEW d \in Nat, d % BlockSize = 0, NEW p \in 0..BlockSize-1,
           NEW suffix, Len(suffix) \in 0..BlockSize
    PROVE  PadZeros(d + p, suffix) =
               IF BlockSize - p - 1 < Len(suffix)
               THEN 2 * BlockSize - p - 1 - Len(suffix)
               ELSE BlockSize - p - 1 - Len(suffix)
<1> DEFINE t == p + 1 + Len(suffix)
<1>1. BlockSize \in Nat \ {0} /\ t \in Nat /\ (d + p) + 1 + Len(suffix) = d + t
  BY SizeFacts
<1>2. (d + t) % BlockSize = t % BlockSize
  BY <1>1, MultiplePlus
<1>3. PadZeros(d + p, suffix) = (BlockSize - (t % BlockSize)) % BlockSize
  BY <1>1, <1>2 DEF PadZeros
<1>4. CASE t < BlockSize
  <2>1. t \in 0..BlockSize-1 /\ BlockSize - t \in 0..BlockSize-1
    BY <1>1, <1>4
  <2>2. t % BlockSize = t /\ (BlockSize - t) % BlockSize = BlockSize - t
    BY <1>1, <2>1, BlockMod
  <2> QED
    BY <1>1, <1>3, <1>4, <2>2
<1>5. CASE t = BlockSize
  <2>1. t % BlockSize = 0 /\ BlockSize % BlockSize = 0
    BY <1>1, <1>5, BlockMod
  <2> QED
    BY <1>1, <1>3, <1>5, <2>1
<1>6. CASE BlockSize < t /\ t < 2 * BlockSize
  <2>1. /\ t - BlockSize \in 0..BlockSize-1 /\ BlockSize + (t - BlockSize) = t
        /\ BlockSize - (t - BlockSize) \in 0..BlockSize-1
    BY <1>1, <1>6
  <2>2. (BlockSize + (t - BlockSize)) % BlockSize = t - BlockSize
    BY <1>1, <2>1, BlockMod
  <2>3. (BlockSize - (t - BlockSize)) % BlockSize = BlockSize - (t - BlockSize)
    BY <1>1, <2>1, BlockMod
  <2> QED
    BY <1>1, <1>3, <1>6, <2>1, <2>2, <2>3
<1>7. CASE t = 2 * BlockSize
  <2>1. t % BlockSize = 0 /\ BlockSize % BlockSize = 0
    BY <1>1, <1>7, BlockMod
  <2> QED
    BY <1>1, <1>3, <1>7, <2>1
<1>8. t <= 2 * BlockSize
  BY SizeFacts
<1> QED
  BY <1>1, <1>4, <1>5, <1>6, <1>7, <1>8

(* The bytes of the reference padding.                                     *)
LEMMA PaddingProps ==
    ASSUME NEW len \in Nat, NEW delim \in Byte, NEW suffix \in Seq(Byte),
           PadZeros(len, suffix) \in Nat
    PROVE  /\ Padding(len, delim, suffix) \in Seq(Byte)
           /\ Len(Padding(len, delim, suffix)) = 1 + PadZeros(len, suffix) + Len(suffix)
           /\ Padding(len, delim, suffix)[1] = delim
           /\ \A i \in 2..1+PadZeros(len, suffix) : Padding(len, delim, suffix)[i] = 0
           /\ \A i \in 1..Len(suffix) :
                 Padding(len, delim, suffix)[1 + PadZeros(len, suffix) + i] = suffix[i]
<1> DEFINE k == PadZeros(len, suffix)
<1>0. k \in Nat
  OBVIOUS
<1> HIDE DEF k
<1> DEFINE a == <<delim>>
           z == Zeros(k)
           az == a \o z
           pad == az \o suffix
<1>1. a \in Seq(Byte) /\ Len(a) = 1 /\ a[1] = delim
  OBVIOUS
<1>2. z \in Seq(Byte) /\ Len(z) = k /\ \A i \in 1..k : z[i] = 0
  BY <1>0, ZerosProps
<1> HIDE DEF a, z
<1>3. /\ az \in Seq(Byte) /\ Len(az) = 1 + k
      /\ az[1] = delim
      /\ \A i \in 1..k : az[1 + i] = z[i]
  <2>1. /\ az \in Seq(Byte) /\ Len(az) = Len(a) + Len(z)
        /\ \A i \in 1..Len(a) : az[i] = a[i]
        /\ \A i \in 1..Len(z) : az[Len(a) + i] = z[i]
    BY <1>1, <1>2, ConcatProps
  <2> QED
    BY <2>1, <1>1, <1>2
<1> HIDE DEF az
<1>4. /\ pad \in Seq(Byte) /\ Len(pad) = (1 + k) + Len(suffix)
      /\ \A i \in 1..(1 + k) : pad[i] = az[i]
      /\ \A i \in 1..Len(suffix) : pad[(1 + k) + i] = suffix[i]
  <2>1. /\ pad \in Seq(Byte) /\ Len(pad) = Len(az) + Len(suffix)
        /\ \A i \in 1..Len(az) : pad[i] = az[i]
        /\ \A i \in 1..Len(suffix) : pad[Len(az) + i] = suffix[i]
    BY <1>3, ConcatProps
  <2> QED
    BY <2>1, <1>3
<1> HIDE DEF pad
<1>5. pad[1] = delim
  BY <1>0, <1>3, <1>4
<1>6. ASSUME NEW i \in 2..1+k PROVE pad[i] = 0
  <2>1. i - 1 \in 1..k /\ 1 + (i - 1) = i /\ i \in 1..(1 + k)
    BY <1>0
  <2> QED
    BY <2>1, <1>2, <1>3, <1>4
<1>7. Padding(len, delim, suffix) = pad
  BY DEF Padding, pad, az, a, z, k
<1> QED
  BY <1>4, <1>5, <1>6, <1>7 DEF k

(* The block with the delimiter at the cursor and zeros behind it.         *)
LEMMA DelimitedProps ==
    ASSUME NEW delim \in Byte, buffer \in Block, GetPos \in 0..BlockSize-1
    PROVE  /\ Delimited(delim) \in Block
           /\ \A i \in 0..BlockSize-1 : Delimited(delim)[i] =
                 IF i < GetPos THEN buffer[i] ELSE IF i = GetPos THEN delim ELSE 0
<1> DEFINE p == GetPos
           a == <<delim>>
           f == Overwrite(buffer, p, a)
           g == ZeroRange(f, p + 1, BlockSize)
<1>1. a \in Seq(Byte) /\ Len(a) = 1 /\ a[1] = delim
  OBVIOUS
<1>2. p \in Nat /\ BlockSize \in Nat /\ p + Len(a) <= BlockSize /\ buffer \in [0..BlockSize-1 -> Byte]
  BY <1>1, SizeFacts DEF Block
<1> HIDE DEF a, p
<1>3. /\ f \in [0..BlockSize-1 -> Byte]
      /\ \A i \in 1..Len(a) : f[p + i - 1] = a[i]
      /\ \A i \in 0..BlockSize-1 : i < p \/ i >= p + Len(a) => f[i] = buffer[i]
  BY <1>1, <1>2, OverwriteProps
<1> HIDE DEF f
<1>4. f[p] = delim /\ \A i \in 0..BlockSize-1 : i < p => f[i] = buffer[i]
  <2>1. p + 1 - 1 = p /\ 1 \in 1..Len(a)
    BY <1>1, <1>2
  <2> QED
    BY <2>1, <1>1, <1>3
<1>5. /\ g \in Block
      /\ \A i \in 0..BlockSize-1 : g[i] = IF p + 1 <= i /\ i < BlockSize THEN 0 ELSE f[i]
  <2>1. f \in Block
    BY <1>3 DEF Block
  <2> QED
    BY <2>1, ZeroBlockRange
<1>6. Delimited(delim) = g
  BY DEF Delimited, g, f, a, p
<1> HIDE DEF g
<1>7. ASSUME NEW i \in 0..BlockSize-1
      PROVE  g[i] = IF i < p THEN buffer[i] ELSE IF i = p THEN delim ELSE 0
  BY <1>2, <1>4, <1>5
<1> QED
  BY <1>5, <1>6, <1>7 DEF p

(* A suffix written at the end of a block.                                 *)
LEMMA SuffixProps ==
    ASSUME NEW f \in Block, NEW suffix \in Seq(Byte), Len(suffix) <= BlockSize
    PROVE  LET g == Overwrite(f, BlockSize - Len(suffix), suffix)
           IN  /\ g \in Block
               /\ \A i \in 0..BlockSize-1 : i < BlockSize - Len(suffix) => g[i] = f[i]
               /\ \A i \in 1..Len(suffix) : g[BlockSize - Len(suffix) + i - 1] = suffix[i]
<1> DEFINE at == BlockSize - Len(suffix)
<1>1. at \in Nat /\ at + Len(suffix) <= BlockSize /\ BlockSize \in Nat
  BY LenProperties, SizeFacts
<1>2. f \in [0..BlockSize-1 -> Byte]
  BY DEF Block
<1> HIDE DEF at
<1>3. /\ Overwrite(f, at, suffix) \in [0..BlockSize-1 -> Byte]
      /\ \A i \in 1..Len(suffix) : Overwrite(f, at, suffix)[at + i - 1] = suffix[i]
      /\ \A i \in 0..BlockSize-1 : i < at \/ i >= at + Len(suffix) => Overwrite(f, at, suffix)[i] = f[i]
  BY <1>1, <1>2, OverwriteProps
<1> QED
  BY <1>3 DEF at, Block

(* digest_pad: data, delimiter, zeros and suffix make one block or two.   *)
LEMMA DigestPadStep ==
    ASSUME IInv, NEW delim \in Data, NEW suffix \in Slices, DigestPad(delim, suffix)
    PROVE  IInv'
<1>1. CASE Len(suffix) > BlockSize
  BY <1>1, RejectStep DEF DigestPad
<1>2. CASE ~(Len(suffix) > BlockSize)
  <2> DEFINE p == GetPos
             l == Len(suffix)
             d == GetData
             n == Len(msg)
             pad == Padding(n, delim, suffix)
             one == PadOneBlock(delim, suffix)
             two == PadSecondBlock(suffix)
             del == Delimited(delim)
  <2>1. Kind = "Eager" /\ result' = "ok" /\ UNCHANGED saved /\ msg' = Cat(msg, pad)
    BY <1>2 DEF DigestPad, Cat
  <2>2. /\ p \in 0..BlockSize-1 /\ d \in Seq(Byte) /\ Len(d) = p
        /\ \A i \in 1..p : d[i] = buffer[i - 1]
    BY <2>1, HeldNow, SizeFacts DEF IInv
  <2>3. suffix \in Seq(Byte) /\ l \in Nat /\ l <= BlockSize /\ l \in 0..BlockSize
    BY <1>2, SlicesProps, SizeFacts
  <2>4. delim \in Byte
    BY DataAssumption DEF Byte
  <2>5. buffer \in Block /\ delivered \in Seq(Byte) /\ Len(delivered) \in Nat
        /\ Len(delivered) % BlockSize = 0 /\ n = Len(delivered) + p
    <3>1. delivered \o d = msg /\ delivered \in Seq(Byte)
      BY DEF IInv, StreamInv, StreamConserved
    <3> QED
      BY <3>1, <2>2, ConcatProps DEF IInv, StreamInv, StreamConserved
  <2>6. /\ del \in Block
        /\ \A i \in 0..BlockSize-1 : del[i] =
              IF i < p THEN buffer[i] ELSE IF i = p THEN delim ELSE 0
    BY <2>2, <2>4, <2>5, DelimitedProps
  <2>7. PadZeros(n, suffix) = IF BlockSize - p - 1 < l
                              THEN 2 * BlockSize - p - 1 - l ELSE BlockSize - p - 1 - l
    BY <2>2, <2>3, <2>5, PadZerosProps
  <2>8. CASE NeedsTwoBlocks(suffix)
    <3> DEFINE k == 2 * BlockSize - p - 1 - l
               b1 == Bytes(del, 0, BlockSize)
               b2 == Bytes(two, 0, BlockSize)
               sent == b1 \o b2
    <3>1. BlockSize - p - 1 < l
      BY <2>8 DEF NeedsTwoBlocks
    <3>2. k \in Nat /\ PadZeros(n, suffix) = k
      BY <3>1, <2>2, <2>3, <2>7, SizeFacts
    <3>3. /\ pad \in Seq(Byte) /\ Len(pad) = 1 + k + l
          /\ pad[1] = delim
          /\ \A i \in 2..1+k : pad[i] = 0
          /\ \A i \in 1..l : pad[1 + k + i] = suffix[i]
      <4>1. n \in Nat /\ PadZeros(n, suffix) \in Nat
        BY <3>2, <2>2, <2>5
      <4> HIDE DEF n, k, p
      <4>2. /\ pad \in Seq(Byte) /\ Len(pad) = 1 + PadZeros(n, suffix) + Len(suffix)
            /\ pad[1] = delim
            /\ \A i \in 2..1+PadZeros(n, suffix) : pad[i] = 0
            /\ \A i \in 1..Len(suffix) : pad[1 + PadZeros(n, suffix) + i] = suffix[i]
        BY <4>1, <2>3, <2>4, PaddingProps
      <4> QED
        BY <4>2, <3>2
    <3>4. delivered' = (delivered \o b1) \o b2 /\ SetPosUnchecked(del, 0)
      BY <1>2, <2>8 DEF DigestPad
    <3>5. /\ two \in Block
          /\ \A i \in 0..BlockSize-1 : i < BlockSize - l => two[i] = 0
          /\ \A i \in 1..l : two[BlockSize - l + i - 1] = suffix[i]
      <4>1. ZeroBlock \in Block /\ \A i \in 0..BlockSize-1 : ZeroBlock[i] = 0
        BY DEF ZeroBlock, Block, Byte
      <4> QED
        BY <4>1, <2>3, SuffixProps DEF PadSecondBlock
    <3>6. BlockSize \in 0..BlockSize /\ BlockSize \in Nat
      BY SizeFacts
    <3> HIDE DEF two, del, pad, k, p, l, d, n
    <3>7. /\ b1 \in Seq(Byte) /\ Len(b1) = BlockSize /\ \A i \in 1..BlockSize : b1[i] = del[i - 1]
          /\ b2 \in Seq(Byte) /\ Len(b2) = BlockSize /\ \A i \in 1..BlockSize : b2[i] = two[i - 1]
      BY <2>6, <3>5, <3>6, PrefixOfBlock
    <3> HIDE DEF b1, b2
    <3>8. /\ sent \in Seq(Byte) /\ Len(sent) = 2 * BlockSize
          /\ \A i \in 1..BlockSize : sent[i] = b1[i]
          /\ \A i \in 1..BlockSize : sent[BlockSize + i] = b2[i]
      <4>1. /\ sent \in Seq(Byte) /\ Len(sent) = Len(b1) + Len(b2)
            /\ \A i \in 1..Len(b1) : sent[i] = b1[i]
            /\ \A i \in 1..Len(b2) : sent[Len(b1) + i] = b2[i]
        BY <3>7, ConcatProps
      <4> QED
        BY <4>1, <3>6, <3>7
    <3> HIDE DEF sent
    <3>9. /\ 1 + k = 2 * BlockSize - p - l /\ p \in Nat /\ p < BlockSize
          /\ l \in Nat /\ l <= BlockSize /\ k \in Nat /\ Len(pad) = 1 + k + l
      BY <2>2, <2>3, <3>2, <3>3, <3>6 DEF k
    <3>10. ASSUME NEW i \in 1..p PROVE sent[i] = d[i]
      <4>1. i \in 1..BlockSize /\ i - 1 \in 0..BlockSize-1 /\ i - 1 < p
        BY <2>2, <3>6
      <4> QED
        BY <4>1, <2>2, <2>6, <3>7, <3>8
    <3>11. ASSUME NEW i \in 1..Len(pad) PROVE sent[p + i] = pad[i]
      <4>1. CASE i <= BlockSize - p
        <5>1. /\ p + i \in 1..BlockSize /\ (p + i) - 1 \in 0..BlockSize-1
              /\ i <= 1 + k /\ ((p + i) - 1 = p <=> i = 1) /\ ~((p + i) - 1 < p)
              /\ (i # 1 => i \in 2..1+k)
          BY <4>1, <3>6, <3>9
        <5>2. sent[p + i] = b1[p + i] /\ b1[p + i] = del[(p + i) - 1]
          BY <5>1, <3>7, <3>8
        <5>3. del[(p + i) - 1] = IF i = 1 THEN delim ELSE 0
          BY <5>1, <2>6
        <5>4. pad[i] = IF i = 1 THEN delim ELSE 0
          BY <5>1, <3>3
        <5> QED
          BY <5>2, <5>3, <5>4
      <4>2. CASE i > BlockSize - p /\ i <= 1 + k
        <5> DEFINE j == (p + i) - BlockSize
        <5>1. /\ j \in 1..BlockSize /\ BlockSize + j = p + i /\ j - 1 \in 0..BlockSize-1
              /\ j - 1 < BlockSize - l /\ i \in 2..1+k
          BY <4>2, <3>6, <3>9
        <5> HIDE DEF j
        <5>2. sent[p + i] = b2[j] /\ b2[j] = two[j - 1]
          BY <5>1, <3>7, <3>8
        <5>3. two[j - 1] = 0 /\ pad[i] = 0
          BY <5>1, <3>3, <3>5
        <5> QED
          BY <5>2, <5>3
      <4>3. CASE i > 1 + k
        <5> DEFINE j == i - (1 + k)
                   m == BlockSize - l + j
        <5>1. /\ j \in 1..l /\ 1 + k + j = i /\ m \in 1..BlockSize /\ BlockSize + m = p + i
              /\ m - 1 = BlockSize - l + j - 1
          BY <4>3, <3>6, <3>9
        <5> HIDE DEF j, m
        <5>2. sent[p + i] = b2[m] /\ b2[m] = two[m - 1]
          BY <5>1, <3>7, <3>8
        <5>3. two[m - 1] = suffix[j]
          BY <5>1, <3>5
        <5>4. pad[i] = suffix[j]
          BY <5>1, <3>3
        <5> QED
          BY <5>2, <5>3, <5>4
      <4> QED
        BY <4>1, <4>2, <4>3, <3>6, <3>9
    <3>12. Len(sent) = Len(d) + Len(pad)
      BY <2>2, <2>3, <3>3, <3>6, <3>8, <3>9
    <3>13. Cat(d, pad) = sent
      BY <2>2, <3>3, <3>8, <3>10, <3>11, <3>12, ConcatEqual DEF Cat
    <3>14. Len(sent) % BlockSize = 0
      BY <3>8, SizeFacts, BlockMod
    <3>15. delivered' = Cat(delivered, sent)
      <4>1. delivered' = Cat(Cat(delivered, b1), b2)
        BY <3>4 DEF Cat
      <4>2. Cat(Cat(delivered, b1), b2) = Cat(delivered, Cat(b1, b2))
        BY <2>5, <3>7, CatAssoc
      <4> QED
        BY <4>1, <4>2 DEF Cat, sent
    <3>16. Holds(buffer', pos', <<>>)
      BY <2>6, <3>4, ClearHolds DEF SetPosUnchecked
    <3>17. StreamInv'
      BY <2>1, <3>3, <3>8, <3>13, <3>14, <3>15, <3>16, FinishStep DEF IInv, d
    <3> QED
      BY <2>1, <3>17, SavedUnchanged DEF IInv
  <2>9. CASE ~NeedsTwoBlocks(suffix)
    <3> DEFINE k == BlockSize - p - 1 - l
               sent == Bytes(one, 0, BlockSize)
    <3>1. ~(BlockSize - p - 1 < l)
      BY <2>9 DEF NeedsTwoBlocks
    <3>2. k \in Nat /\ PadZeros(n, suffix) = k
      BY <3>1, <2>2, <2>3, <2>7, SizeFacts
    <3>3. /\ pad \in Seq(Byte) /\ Len(pad) = 1 + k + l
          /\ pad[1] = delim
          /\ \A i \in 2..1+k : pad[i] = 0
          /\ \A i \in 1..l : pad[1 + k + i] = suffix[i]
      <4>1. n \in Nat /\ PadZeros(n, suffix) \in Nat
        BY <3>2, <2>2, <2>5
      <4> HIDE DEF n, k, p
      <4>2. /\ pad \in Seq(Byte) /\ Len(pad) = 1 + PadZeros(n, suffix) + Len(suffix)
            /\ pad[1] = delim
            /\ \A i \in 2..1+PadZeros(n, suffix) : pad[i] = 0
            /\ \A i \in 1..Len(suffix) : pad[1 + PadZeros(n, suffix) + i] = suffix[i]
        BY <4>1, <2>3, <2>4, PaddingProps
      <4> QED
        BY <4>2, <3>2
    <3>4. delivered' = Cat(delivered, sent) /\ SetPosUnchecked(one, 0)
      BY <1>2, <2>9 DEF DigestPad, Cat
    <3>5. /\ one \in Block
          /\ \A i \in 0..BlockSize-1 : i < BlockSize - l => one[i] = del[i]
          /\ \A i \in 1..l : one[BlockSize - l + i - 1] = suffix[i]
      BY <2>3, <2>6, SuffixProps DEF PadOneBlock
    <3>6. BlockSize \in 0..BlockSize /\ BlockSize \in Nat
      BY SizeFacts
    <3> HIDE DEF one, del, pad, k, p, l, d, n
    <3>7. sent \in Seq(Byte) /\ Len(sent) = BlockSize /\ \A i \in 1..BlockSize : sent[i] = one[i - 1]
      BY <3>5, <3>6, PrefixOfBlock
    <3> HIDE DEF sent
    <3>8. /\ 1 + k = BlockSize - p - l /\ p \in Nat /\ p < BlockSize
          /\ l \in Nat /\ l <= BlockSize /\ k \in Nat /\ Len(pad) = 1 + k + l
      BY <2>2, <2>3, <3>2, <3>3, <3>6 DEF k
    <3>9. ASSUME NEW i \in 1..p PROVE sent[i] = d[i]
      <4>1. i \in 1..BlockSize /\ i - 1 \in 0..BlockSize-1 /\ i - 1 < p /\ i - 1 < BlockSize - l
        BY <3>6, <3>8
      <4>2. sent[i] = one[i - 1] /\ one[i - 1] = del[i - 1]
        BY <4>1, <3>5, <3>7
      <4>3. del[i - 1] = buffer[i - 1] /\ d[i] = buffer[i - 1]
        BY <4>1, <2>2, <2>6
      <4> QED
        BY <4>2, <4>3
    <3>10. ASSUME NEW i \in 1..Len(pad) PROVE sent[p + i] = pad[i]
      <4>1. CASE i <= 1 + k
        <5>1. /\ p + i \in 1..BlockSize /\ (p + i) - 1 \in 0..BlockSize-1
              /\ (p + i) - 1 < BlockSize - l
              /\ ((p + i) - 1 = p <=> i = 1) /\ ~((p + i) - 1 < p)
              /\ (i # 1 => i \in 2..1+k)
          BY <4>1, <3>6, <3>8
        <5>2. sent[p + i] = one[(p + i) - 1] /\ one[(p + i) - 1] = del[(p + i) - 1]
          BY <5>1, <3>5, <3>7
        <5>3. del[(p + i) - 1] = IF i = 1 THEN delim ELSE 0
          BY <5>1, <2>6
        <5>4. pad[i] = IF i = 1 THEN delim ELSE 0
          BY <5>1, <3>3
        <5> QED
          BY <5>2, <5>3, <5>4
      <4>2. CASE i > 1 + k
        <5> DEFINE j == i - (1 + k)
        <5>1. /\ j \in 1..l /\ 1 + k + j = i /\ p + i \in 1..BlockSize
              /\ (p + i) - 1 = BlockSize - l + j - 1
          BY <4>2, <3>6, <3>8
        <5> HIDE DEF j
        <5>2. sent[p + i] = one[(p + i) - 1] /\ one[(p + i) - 1] = suffix[j]
          BY <5>1, <3>5, <3>7
        <5>3. pad[i] = suffix[j]
          BY <5>1, <3>3
        <5> QED
          BY <5>2, <5>3
      <4> QED
        BY <4>1, <4>2, <3>6, <3>8
    <3>11. Len(sent) = Len(d) + Len(pad)
      BY <2>2, <2>3, <3>3, <3>6, <3>7, <3>8
    <3>12. Cat(d, pad) = sent
      BY <2>2, <3>3, <3>7, <3>9, <3>10, <3>11, ConcatEqual DEF Cat
    <3>13. Len(sent) % BlockSize = 0
      BY <3>7, SizeFacts, BlockMod
    <3>14. Holds(buffer', pos', <<>>)
      BY <3>4, <3>5, ClearHolds DEF SetPosUnchecked
    <3>15. StreamInv'
      BY <2>1, <3>3, <3>4, <3>7, <3>12, <3>13, <3>14, FinishStep DEF IInv, d
    <3> QED
      BY <2>1, <3>15, SavedUnchanged DEF IInv
  <2> QED
    BY <2>8, <2>9
<1> QED
  BY <1>1, <1>2

-----------------------------------------------------------------------------
(* The data an image stands for.                                           *)
ImageData(image) == Bytes(ImageBuffer(image), 0, ImagePos(image))

(* The image of a buffer: the cursor, the data, zeros.                     *)
LEMMA ImageOfProps ==
    ASSUME NEW b \in Block, NEW p \in Byte, NEW q \in 0..BlockSize,
           GetPosOf(b, p) = q, Invariant(q, BlockSize)
    PROVE  /\ ImageOf(b, p) \in [ImageIndex -> Byte]
           /\ ImagePos(ImageOf(b, p)) = q
           /\ ImageBuffer(ImageOf(b, p)) \in Block
           /\ \A i \in 0..q-1 : ImageBuffer(ImageOf(b, p))[i] = b[i]
           /\ Accepts(ImageOf(b, p))
<1> DEFINE m == ImageOf(b, p)
<1>1. CASE Kind = "Eager"
  <2>1. q <= BlockSize - 1 /\ BlockSize - 1 \in 0..BlockSize-1 /\ BlockSize \in Nat
    BY <1>1, SizeFacts DEF Invariant
  <2>2. b[BlockSize-1] = q
    BY <1>1 DEF GetPosOf
  <2>3. m = ZeroRange(b, q, BlockSize - 1)
    BY <1>1 DEF ImageOf
  <2>4. /\ m \in Block
        /\ \A i \in 0..BlockSize-1 : m[i] = IF q <= i /\ i < BlockSize - 1 THEN 0 ELSE b[i]
    BY <2>3, ZeroBlockRange
  <2> HIDE DEF m
  <2>5. m[BlockSize-1] = q /\ (\A i \in 0..q-1 : m[i] = b[i]) /\ \A i \in q..BlockSize-2 : m[i] = 0
    BY <2>1, <2>2, <2>4
  <2>6. ImageIndex = 0..BlockSize-1 /\ CursorIndex = BlockSize - 1 /\ ImageBuffer(m) = m
    BY <1>1 DEF ImageIndex, CursorIndex, ImageBuffer
  <2>7. ImagePos(m) = q
    BY <2>5, <2>6 DEF ImagePos
  <2>8. Accepts(m)
    BY <1>1, <2>5, <2>7 DEF Accepts
  <2> QED
    BY <2>4, <2>5, <2>6, <2>7, <2>8 DEF m, Block
<1>2. CASE Kind # "Eager"
  <2> DEFINE z == [i \in 0..BlockSize |-> IF i = 0 THEN p ELSE 0]
             s == Bytes(b, 0, q)
  <2>1. p = q
    BY <1>2 DEF GetPosOf
  <2>2. s \in Seq(Byte) /\ Len(s) = q /\ \A i \in 1..q : s[i] = b[i - 1]
    BY PrefixOfBlock
  <2>3. m = Overwrite(z, 1, s)
    BY <1>2, <2>1 DEF ImageOf
  <2>4. z \in [0..(BlockSize + 1)-1 -> Byte] /\ z[0] = p /\ \A i \in 1..BlockSize : z[i] = 0
    BY SizeFacts DEF Byte
  <2>5. 1 + Len(s) <= BlockSize + 1 /\ BlockSize + 1 \in Nat /\ BlockSize \in Nat
    BY <2>2, SizeFacts
  <2> HIDE DEF z, s, m
  <2>6. /\ m \in [0..(BlockSize + 1)-1 -> Byte]
        /\ \A i \in 1..Len(s) : m[1 + i - 1] = s[i]
        /\ \A i \in 0..(BlockSize + 1)-1 : i < 1 \/ i >= 1 + Len(s) => m[i] = z[i]
    BY <2>2, <2>3, <2>4, <2>5, OverwriteProps
  <2>7. /\ m \in [0..BlockSize -> Byte] /\ m[0] = q
        /\ \A i \in 0..q-1 : m[i + 1] = b[i]
        /\ \A i \in q+1..BlockSize : m[i] = 0
    <3>1. (BlockSize + 1) - 1 = BlockSize
      BY <2>5
    <3>2. m[0] = q
      BY <2>1, <2>4, <2>5, <2>6, <3>1
    <3>3. ASSUME NEW i \in 0..q-1 PROVE m[i + 1] = b[i]
      <4>1. i + 1 \in 1..Len(s) /\ 1 + (i + 1) - 1 = i + 1 /\ (i + 1) - 1 = i /\ i + 1 \in 1..q
        BY <2>2
      <4> QED
        BY <4>1, <2>2, <2>6
    <3>4. ASSUME NEW i \in q+1..BlockSize PROVE m[i] = 0
      <4>1. i \in 0..BlockSize /\ i >= 1 + Len(s) /\ i \in 1..BlockSize
        BY <2>2, <2>5
      <4> QED
        BY <4>1, <2>4, <2>6, <3>1
    <3> QED
      BY <2>6, <3>1, <3>2, <3>3, <3>4
  <2>8. /\ ImageIndex = 0..BlockSize /\ CursorIndex = 0
        /\ ImageBuffer(m) = [i \in 0..BlockSize-1 |-> m[i + 1]]
    BY <1>2 DEF ImageIndex, CursorIndex, ImageBuffer
  <2>9. ImagePos(m) = q
    BY <2>7, <2>8 DEF ImagePos
  <2>10. ImageBuffer(m) \in Block /\ \A i \in 0..q-1 : ImageBuffer(m)[i] = b[i]
    <3>1. \A i \in 0..BlockSize-1 : i + 1 \in 0..BlockSize
      BY <2>5
    <3> QED
      BY <2>5, <2>7, <2>8, <3>1 DEF Block
  <2>11. Accepts(m)
    BY <1>2, <2>7, <2>9 DEF Accepts
  <2> QED
    BY <2>7, <2>8, <2>9, <2>10, <2>11 DEF m
<1> QED
  BY <1>1, <1>2

(* An accepted image: its cursor is valid, its buffer is a block.          *)
LEMMA AcceptedProps ==
    ASSUME NEW image \in [ImageIndex -> Byte], Accepts(image)
    PROVE  /\ ImagePos(image) \in 0..BlockSize
           /\ ImageBuffer(image) \in Block
           /\ Holds(ImageBuffer(image), IF Kind = "Eager" THEN 0 ELSE image[0], ImageData(image))
           /\ ImageData(image) \in Seq(Byte)
           /\ Len(ImageData(image)) = ImagePos(image)
<1> DEFINE b == ImageBuffer(image)
           q == ImagePos(image)
           f == IF Kind = "Eager" THEN 0 ELSE image[0]
           s == ImageData(image)
<1>1. q \in Byte /\ f \in Byte /\ b \in Block /\ GetPosOf(b, f) = q
  <2>1. CASE Kind = "Eager"
    BY <2>1, SizeFacts DEF ImageIndex, CursorIndex, ImageBuffer, ImagePos, GetPosOf, Block, Byte
  <2>2. CASE Kind # "Eager"
    <3>1. image \in [0..BlockSize -> Byte] /\ 0 \in 0..BlockSize /\ f = image[0] /\ q = image[0]
      BY <2>2, SizeFacts DEF ImageIndex, ImagePos, CursorIndex
    <3>2. b = [i \in 0..BlockSize-1 |-> image[i + 1]]
      BY <2>2 DEF ImageBuffer
    <3>3. \A i \in 0..BlockSize-1 : i + 1 \in 0..BlockSize
      BY SizeFacts
    <3>4. b \in Block
      BY <3>1, <3>2, <3>3 DEF Block
    <3> QED
      BY <2>2, <3>1, <3>4 DEF GetPosOf
  <2> QED
    BY <2>1, <2>2
<1>2. Invariant(q, BlockSize)
  BY DEF Accepts
<1>3. q \in 0..BlockSize
  BY <1>1, <1>2, SizeFacts DEF Invariant, Byte
<1>4. s \in Seq(Byte) /\ Len(s) = q /\ s = Bytes(b, 0, q)
  BY <1>1, <1>3, PrefixOfBlock DEF ImageData
<1> QED
  BY <1>1, <1>2, <1>3, <1>4 DEF Holds

(* serialize followed by deserialize is the identity on the data.          *)
LEMMA RoundTrip ==
    ASSUME StreamInv
    PROVE  /\ ImageOf(buffer, pos) \in [ImageIndex -> Byte]
           /\ Accepts(ImageOf(buffer, pos))
           /\ ImageData(ImageOf(buffer, pos)) = GetData
<1> DEFINE m == ImageOf(buffer, pos)
           b == ImageBuffer(m)
           q == GetPos
<1>1. /\ q \in 0..BlockSize /\ GetData \in Seq(Byte) /\ Len(GetData) = q
      /\ \A i \in 1..q : GetData[i] = buffer[i - 1]
  BY HeldNow
<1>2. buffer \in Block /\ pos \in Byte /\ GetPosOf(buffer, pos) = q /\ Invariant(q, BlockSize)
  BY DEF StreamInv, PosNeverBreaksInvariant, GetPos
<1> HIDE DEF q
<1>3. /\ m \in [ImageIndex -> Byte] /\ ImagePos(m) = q /\ b \in Block
      /\ \A i \in 0..q-1 : b[i] = buffer[i]
      /\ Accepts(m)
  BY <1>1, <1>2, ImageOfProps
<1> HIDE DEF m, b
<1>4. /\ Bytes(b, 0, q) \in Seq(Byte) /\ Len(Bytes(b, 0, q)) = q
      /\ \A i \in 1..q : Bytes(b, 0, q)[i] = b[i - 1]
  BY <1>1, <1>3, PrefixOfBlock
<1>5. ASSUME NEW i \in 1..q PROVE Bytes(b, 0, q)[i] = GetData[i]
  <2>1. i - 1 \in 0..q-1
    BY <1>1
  <2> QED
    BY <2>1, <1>1, <1>3, <1>4
<1>6. Bytes(b, 0, q) = GetData
  BY <1>1, <1>4, <1>5, SeqEqual
<1> QED
  BY <1>3, <1>6 DEF ImageData, m, b

(* serialize: the image is accepted and holds the data.                   *)
LEMMA SerializeStep == ASSUME IInv, Serialize PROVE IInv'
<1> DEFINE m == ImageOf(buffer, pos)
<1>1. StreamInv'
  BY DEF Serialize, IInv, StreamInv, PosNeverBreaksInvariant, StreamConserved, GetData, GetPos
<1>2. GetData \in Seq(Byte)
  BY HeldNow DEF IInv
<1>3. m \in [ImageIndex -> Byte] /\ Accepts(m) /\ ImageData(m) = GetData
  BY RoundTrip DEF IInv
<1>4. saved' = [image |-> m, data |-> GetData] /\ result' = "ok"
  BY DEF Serialize
<1> HIDE DEF m
<1>5. saved'.image = m /\ saved'.data = GetData
  BY <1>4
<1>6. saved' \in [image : [ImageIndex -> Byte], data : Seq(Byte)]
  BY <1>2, <1>3, <1>4
<1>7. SavedImageLoads'
  <2>1. Accepts(saved'.image) /\ ImageData(saved'.image) = saved'.data
    BY <1>3, <1>5
  <2> QED
    BY <2>1 DEF SavedImageLoads, ImageData, Accepts, ImagePos, ImageBuffer
<1> QED
  BY <1>1, <1>4, <1>6, <1>7 DEF IInv, SavedInv

(* Loading an image whose data the caller knows.                           *)
LEMMA LoadStep ==
    ASSUME IInv, NEW image \in [ImageIndex -> Byte], NEW s,
           Accepts(image) => s = ImageData(image), Load(image, s)
    PROVE  IInv'
<1>1. CASE Accepts(image)
  <2>1. /\ Holds(ImageBuffer(image), IF Kind = "Eager" THEN 0 ELSE image[0], s)
        /\ s \in Seq(Byte) /\ s = ImageData(image)
    BY <1>1, AcceptedProps
  <2>2. /\ buffer' = ImageBuffer(image)
        /\ pos' = IF Kind = "Eager" THEN 0 ELSE image[0]
        /\ Restart(s)
        /\ saved' = [image |-> image, data |-> s] /\ result' = "ok"
    BY <1>1 DEF Load
  <2>3. Holds(buffer', pos', s)
    BY <2>1, <2>2
  <2>4. StreamInv'
    BY <2>1, <2>2, <2>3, RestartStep
  <2>5. saved'.image = image /\ saved'.data = s
    BY <2>2
  <2>6. saved' \in [image : [ImageIndex -> Byte], data : Seq(Byte)]
    BY <2>1, <2>2
  <2>7. SavedImageLoads'
    <3>1. Accepts(saved'.image) /\ ImageData(saved'.image) = saved'.data
      BY <1>1, <2>1, <2>5
    <3> QED
      BY <3>1 DEF SavedImageLoads, ImageData, Accepts, ImagePos, ImageBuffer
  <2> QED
    BY <2>2, <2>4, <2>6, <2>7 DEF IInv, SavedInv
<1>2. CASE ~Accepts(image)
  BY <1>2, RejectStep DEF Load
<1> QED
  BY <1>1, <1>2

(* deserialize of an image that was saved: the data is what it was.       *)
LEMMA RestoreStep == ASSUME IInv, Restore PROVE IInv'
<1>1. saved.image \in [ImageIndex -> Byte] /\ saved.data = ImageData(saved.image)
  BY DEF IInv, SavedInv, SavedImageLoads, Restore, ImageData
<1> QED
  BY <1>1, LoadStep DEF Restore

(* deserialize of any bytes: an accepted image holds its own data.        *)
LEMMA DeserializeStep == ASSUME IInv, NEW image \in Images, Deserialize(image) PROVE IInv'
<1>1. image \in [ImageIndex -> Byte]
  <2>1. PICK f \in [ImageIndex -> Data], p \in (0..BlockSize+1) \cap Byte :
             image = [f EXCEPT ![CursorIndex] = p]
    BY DEF Images
  <2>2. \A x \in Data : x \in Byte
    BY DataAssumption DEF Byte
  <2>3. f \in [ImageIndex -> Byte]
    BY <2>2
  <2> QED
    BY <2>1, <2>3
<1> QED
  BY <1>1, LoadStep DEF Deserialize, ImageData

-----------------------------------------------------------------------------
(* The default buffer satisfies the invariant.                            *)
LEMMA InitIInv == ASSUME Init PROVE IInv
<1> DEFINE none == <<>>
<1>1. buffer \in Block /\ pos \in Byte /\ GetPos = 0
  BY SizeFacts DEF Init, ZeroBlock, Block, Byte, GetPos, GetPosOf
<1>2. PosNeverBreaksInvariant
  BY <1>1, SizeFacts DEF PosNeverBreaksInvariant, Invariant
<1>3. GetData \in Seq(Byte) /\ Len(GetData) = 0
  BY <1>1, SizeFacts, PrefixOfBlock DEF GetData
<1>4. GetData = <<>>
  BY <1>3, EmptySeq
<1>5. msg \in Seq(Byte) /\ delivered \in Seq(Byte) /\ delivered \o GetData = msg /\ Len(delivered) = 0
  BY <1>4 DEF Init
<1>6. StreamInv
  BY <1>1, <1>2, <1>5, SizeFacts, BlockMod DEF StreamInv, StreamConserved
<1> QED
  BY <1>6 DEF IInv, SavedInv, SavedImageLoads, Init

(* Every operation keeps the invariant.                                   *)
LEMMA NextIInv == ASSUME IInv, [Next]_vars PROVE IInv'
<1>1. CASE \E buf \in Slices : TryNew(buf)
  BY <1>1, TryNewStep
<1>2. CASE \E input \in Slices : DigestBlocks(input)
  <2>1. PICK input \in Slices : DigestBlocks(input)
    BY <1>2
  <2>2. StreamInv'
    BY <2>1, FitsStep, SpillsStep DEF DigestBlocks
  <2> QED
    BY <2>1, <2>2, SavedUnchanged DEF DigestBlocks, IInv
<1>3. CASE Reset
  BY <1>3, ResetStep
<1>4. CASE PadWithZeros
  BY <1>4, PadWithZerosStep
<1>5. CASE \E buf \in [0..BlockSize-1 -> Data], p \in 0..BlockSize+1 : Set(buf, p)
  BY <1>5, SetStep
<1>6. CASE \E delim \in Data, suffix \in Slices : DigestPad(delim, suffix)
  BY <1>6, DigestPadStep
<1>7. CASE Serialize
  BY <1>7, SerializeStep
<1>8. CASE Restore
  BY <1>8, RestoreStep
<1>9. CASE \E image \in Images : Deserialize(image)
  BY <1>9, DeserializeStep
<1>10. CASE UNCHANGED vars
  <2>1. StreamInv'
    BY <1>10 DEF vars, IInv, StreamInv, PosNeverBreaksInvariant, StreamConserved, GetData, GetPos
  <2> QED
    BY <1>10, <2>1, SavedUnchanged DEF IInv, vars
<1> QED
  BY <1>1, <1>2, <1>3, <1>4, <1>5, <1>6, <1>7, <1>8, <1>9, <1>10 DEF Next

(* The invariant holds throughout, whatever the block size, kind, inputs   *)
(* and bounds.                                                             *)
THEOREM Invariance == Spec => []IInv
<1>1. Init => IInv
  BY InitIInv
<1>2. IInv /\ [Next]_vars => IInv'
  BY NextIInv
<1> QED
  BY <1>1, <1>2, PTL DEF Spec

(* Block, cursor and images keep the types the source gives them; the      *)
(* cursor's value is CursorValid's.                                        *)
THEOREM TypeCorrect == Spec => []TypeOK
<1>1. IInv => TypeOK
  BY DEF IInv, StreamInv, SavedInv, TypeOK
<1> QED
  BY <1>1, Invariance, PTL

(* The cursor never breaks its kind's invariant, so the                    *)
(* unreachable_unchecked of get_pos is never reached.                      *)
THEOREM CursorValid == Spec => []PosNeverBreaksInvariant
<1>1. IInv => PosNeverBreaksInvariant
  BY DEF IInv, StreamInv
<1> QED
  BY <1>1, Invariance, PTL

(* digest_blocks, pad_with_zeros, digest_pad, serialize and deserialize    *)
(* never lose, repeat or reorder a byte of the stream.                     *)
THEOREM StreamSafe == Spec => []StreamConserved
<1>1. IInv => StreamConserved
  BY DEF IInv, StreamInv
<1> QED
  BY <1>1, Invariance, PTL

(* What serialize writes, deserialize accepts and restores.                *)
THEOREM ImagesLoad == Spec => []SavedImageLoads
<1>1. IInv => SavedImageLoads
  BY DEF IInv, SavedInv
<1> QED
  BY <1>1, Invariance, PTL

-----------------------------------------------------------------------------
(* Two accepted images with the same data are the same array.             *)
LEMMA SameImage ==
    ASSUME NEW image \in [ImageIndex -> Byte], NEW other \in [ImageIndex -> Byte],
           \A i \in ImageIndex : image[i] = other[i]
    PROVE  image = other
OBVIOUS

(* An accepted image is the only image of its data: cursor, data and zeros *)
(* fix every byte of it.                                                   *)
LEMMA CanonicalImage ==
    ASSUME NEW image \in [ImageIndex -> Byte], Accepts(image),
           NEW other \in [ImageIndex -> Byte], Accepts(other),
           ImageData(image) = ImageData(other)
    PROVE  image = other
<1> DEFINE q == ImagePos(image)
           b == ImageBuffer(image)
           c == ImageBuffer(other)
<1>1. /\ q \in 0..BlockSize /\ ImagePos(other) = q
      /\ b \in Block /\ c \in Block
      /\ Bytes(b, 0, q) = Bytes(c, 0, q)
      /\ Invariant(q, BlockSize)
  BY AcceptedProps DEF ImageData, Accepts
<1>2. \A i \in 0..q-1 : b[i] = c[i]
  <2> SUFFICES ASSUME NEW i \in 0..q-1 PROVE b[i] = c[i]
    OBVIOUS
  <2> HIDE DEF b, c, q
  <2>1. i + 1 \in 1..q /\ (i + 1) - 1 = i
    BY <1>1
  <2>2. Bytes(b, 0, q)[i + 1] = b[i] /\ Bytes(c, 0, q)[i + 1] = c[i]
    BY <1>1, <2>1, PrefixOfBlock
  <2> QED
    BY <1>1, <2>2
<1>3. CASE Kind = "Eager"
  <2>1. /\ ImageIndex = 0..BlockSize-1 /\ b = image /\ c = other
        /\ image[BlockSize-1] = q /\ other[BlockSize-1] = q
        /\ q <= BlockSize - 1
        /\ \A i \in q..BlockSize-2 : image[i] = 0 /\ other[i] = 0
    BY <1>1, <1>3, SizeFacts
       DEF ImageIndex, ImageBuffer, ImagePos, CursorIndex, Accepts, Invariant
  <2> HIDE DEF q, b, c
  <2>2. ASSUME NEW i \in 0..BlockSize-1 PROVE image[i] = other[i]
    <3>1. i \in 0..q-1 \/ i \in q..BlockSize-2 \/ i = BlockSize - 1
      BY <1>1, SizeFacts
    <3> QED
      BY <3>1, <1>2, <2>1
  <2> QED
    BY <2>1, <2>2, SameImage
<1>4. CASE Kind # "Eager"
  <2>1. /\ ImageIndex = 0..BlockSize
        /\ b = [i \in 0..BlockSize-1 |-> image[i + 1]]
        /\ c = [i \in 0..BlockSize-1 |-> other[i + 1]]
        /\ image[0] = q /\ other[0] = q
        /\ \A i \in q+1..BlockSize : image[i] = 0 /\ other[i] = 0
    BY <1>1, <1>4 DEF ImageIndex, ImageBuffer, ImagePos, CursorIndex, Accepts
  <2> HIDE DEF q, b, c
  <2>2. ASSUME NEW i \in 0..BlockSize PROVE image[i] = other[i]
    <3>1. CASE i = 0
      BY <3>1, <2>1
    <3>2. CASE i \in 1..q
      <4>1. i - 1 \in 0..q-1 /\ i - 1 \in 0..BlockSize-1 /\ (i - 1) + 1 = i
        BY <3>2, <1>1, SizeFacts
      <4>2. b[i - 1] = image[i] /\ c[i - 1] = other[i]
        BY <4>1, <2>1
      <4> QED
        BY <4>1, <4>2, <1>2
    <3>3. CASE i \in q+1..BlockSize
      BY <3>3, <2>1
    <3> QED
      BY <3>1, <3>2, <3>3, <1>1, SizeFacts
  <2> QED
    BY <2>1, <2>2, SameImage
<1> QED
  BY <1>3, <1>4

(* Images are canonical: no stale byte of the buffer reaches an image, and *)
(* no two images load the same data.                                       *)
THEOREM ImagesCanonical == Spec => []ImageIsCanonical
<1>1. IInv => ImageIsCanonical
  <2> SUFFICES ASSUME IInv, saved # NoImage, saved.data = GetData
               PROVE  ImageOf(buffer, pos) = saved.image
    BY DEF ImageIsCanonical
  <2>1. /\ ImageOf(buffer, pos) \in [ImageIndex -> Byte]
        /\ Accepts(ImageOf(buffer, pos))
        /\ ImageData(ImageOf(buffer, pos)) = GetData
    BY RoundTrip DEF IInv
  <2>2. /\ saved.image \in [ImageIndex -> Byte]
        /\ Accepts(saved.image)
        /\ ImageData(saved.image) = GetData
    BY DEF IInv, SavedInv, SavedImageLoads, ImageData
  <2> QED
    BY <2>1, <2>2, CanonicalImage
<1> QED
  BY <1>1, Invariance, PTL

-----------------------------------------------------------------------------
(* The buffer implements the abstract stream of BlockStream.               *)

(* What IInv says of the data held after a step.                          *)
LEMMA HeldThen ==
    ASSUME StreamInv'
    PROVE  /\ GetPos' \in 0..BlockSize
           /\ Invariant(GetPos', BlockSize)
           /\ GetData' \in Seq(Byte)
           /\ Len(GetData') = GetPos'
<1>1. buffer' \in Block /\ pos' \in Byte /\ Invariant(GetPos', BlockSize)
  BY DEF StreamInv, PosNeverBreaksInvariant
<1>2. GetPos' \in Byte
  <2>1. BlockSize - 1 \in 0..BlockSize-1 /\ buffer' \in [0..BlockSize-1 -> Byte] /\ pos' \in Byte
    BY <1>1, SizeFacts DEF Block
  <2> QED
    BY <2>1 DEF GetPos, GetPosOf
<1>3. GetPos' \in 0..BlockSize
  BY <1>1, <1>2, SizeFacts DEF Invariant, Byte
<1>4. GetData' = Bytes(buffer', 0, GetPos')
  BY DEF GetData
<1> QED
  BY <1>1, <1>3, <1>4, PrefixOfBlock

(* A stream that is appended to grows at its end only.                     *)
LEMMA GrowsBy ==
    ASSUME StreamInv, StreamInv', NEW more \in Seq(Byte), msg' = msg \o more
    PROVE  /\ Stream!Grows
           /\ Len(msg) = Len(delivered) + GetPos
           /\ Len(msg') = Len(delivered') + GetPos'
           /\ Len(msg') = Len(msg) + Len(more)
           /\ Len(delivered) \in Nat /\ Len(delivered') \in Nat /\ Len(more) \in Nat
<1>1. /\ msg \in Seq(Byte) /\ delivered \in Seq(Byte) /\ GetData \in Seq(Byte)
      /\ delivered \o GetData = msg /\ Len(GetData) = GetPos
  BY HeldNow DEF StreamInv, StreamConserved
<1>2. /\ msg' \in Seq(Byte) /\ delivered' \in Seq(Byte) /\ GetData' \in Seq(Byte)
      /\ delivered' \o GetData' = msg' /\ Len(GetData') = GetPos'
  BY HeldThen DEF StreamInv, StreamConserved
<1>3. /\ Len(msg) \in Nat /\ Len(more) \in Nat /\ Len(msg') = Len(msg) + Len(more)
      /\ \A i \in 1..Len(msg) : msg'[i] = msg[i]
  BY <1>1, ConcatProps
<1>4. Len(delivered) \in Nat /\ Len(msg) = Len(delivered) + GetPos
  BY <1>1, ConcatProps
<1>5. Len(delivered') \in Nat /\ Len(msg') = Len(delivered') + GetPos'
  BY <1>2, ConcatProps
<1>6. PICK z \in Nat, m \in Nat : z = 0 /\ m = Len(msg) /\ m <= Len(msg')
  <2>1. Len(msg) \in Nat /\ Len(msg) <= Len(msg')
    BY <1>3
  <2>2. 0 \in Nat /\ 0 = 0
    OBVIOUS
  <2> QED
    BY <2>1, <2>2, Zenon
<1>7. /\ SubSeq(msg', z + 1, m) \in Seq(Byte)
      /\ Len(SubSeq(msg', z + 1, m)) = m - z
      /\ \A i \in 1..m-z : SubSeq(msg', z + 1, m)[i] = msg'[z + i]
  <2>1. z <= m
    BY <1>6
  <2> QED
    BY <1>2, <1>6, <2>1, SubSeqProps
<1>8. z + 1 = 1 /\ m - z = m /\ \A i \in 1..m : z + i = i
  BY <1>6
<1>9. /\ SubSeq(msg', 1, m) \in Seq(Byte) /\ Len(SubSeq(msg', 1, m)) = Len(msg)
      /\ \A i \in 1..Len(msg) : SubSeq(msg', 1, m)[i] = msg[i]
  BY <1>3, <1>6, <1>7, <1>8
<1>10. SubSeq(msg', 1, Len(msg)) = msg
  BY <1>1, <1>6, <1>9, SeqEqual
<1>11. Stream!Stream = msg /\ (Stream!Stream)' = msg'
  BY <1>1, <1>2 DEF Stream!Stream
<1>12. Stream!Grows
  BY <1>3, <1>10, <1>11 DEF Stream!Grows
<1> QED
  BY <1>3, <1>4, <1>5, <1>12

(* The blocks emitted are determined by the length of the stream: an       *)
(* amount d that is whole blocks and leaves a rest p a buffer may hold.    *)
LEMMA CutUnique ==
    ASSUME NEW d \in Nat, NEW p \in Nat, d % BlockSize = 0, Invariant(p, BlockSize),
           Kind = "Lazy" /\ p = 0 => d = 0
    PROVE  Stream!Cut(d + p) = d
<1>1. BlockSize \in Nat \ {0} /\ Kind \in {"Eager", "Lazy"}
  BY SizeFacts, KindAssumption
<1>2. CASE Kind = "Eager"
  <2>1. p \in 0..BlockSize-1
    BY <1>1, <1>2 DEF Invariant
  <2>2. (d + p) % BlockSize = p
    <3>1. (d + p) % BlockSize = p % BlockSize
      BY <1>1, MultiplePlus, Zenon
    <3>2. p % BlockSize = p
      BY <1>1, <2>1, BlockMod, Zenon
    <3> QED
      BY <3>1, <3>2, Zenon
  <2> QED
    BY <1>2, <2>2 DEF Stream!Cut
<1>3. CASE Kind = "Lazy" /\ p = 0
  BY <1>3 DEF Stream!Cut
<1>4. CASE Kind = "Lazy" /\ p # 0
  <2>1. PICK r \in 0..BlockSize-1 : p = r + 1
    <3>1. p - 1 \in 0..BlockSize-1 /\ p = (p - 1) + 1
      BY <1>1, <1>4 DEF Invariant
    <3> QED
      BY <3>1
  <2>2. r \in Nat /\ r % BlockSize = r
    BY <1>1, BlockMod
  <2>3. (d + r) % BlockSize = r
    BY <1>1, <2>2, MultiplePlus
  <2>4. (d + p) - 1 = d + r /\ d + p # 0 /\ (d + r) - r = d
    BY <2>1
  <2>5. Stream!Cut(d + p) = ((d + p) - 1) - (((d + p) - 1) % BlockSize)
    BY <1>4, <2>4 DEF Stream!Cut
  <2> QED
    BY <2>3, <2>4, <2>5
<1> QED
  BY <1>1, <1>2, <1>3, <1>4

(* The condition on a lazy buffer: it holds at least one byte after        *)
(* digest_blocks has emitted a block.                                      *)
LEMMA LazyKeepsTail ==
    ASSUME IInv, NEW input \in Slices, DigestSpills(input), Kind = "Lazy"
    PROVE  GetPos' # 0
<1> DEFINE p == GetPos
           n == Len(input)
           rem == BlockSize - p
           cut == IF p # 0 THEN rem ELSE 0
           whole == SplitBlocks(n - cut)
           s == SubSeq(input, cut + whole + 1, n)
<1>1. p \in 0..BlockSize /\ BlockSize \in Nat \ {0} /\ BlockSize <= 255
  BY HeldNow, SizeFacts DEF IInv
<1>2. input \in Seq(Byte) /\ n \in Nat
  BY SlicesProps
<1>3. ~Invariant(n, rem) /\ pos' = PosField(Len(s))
  BY DEF DigestSpills, SetPosUnchecked
<1>4. n > rem
  BY <1>1, <1>2, <1>3 DEF Invariant
<1> HIDE DEF p, n
<1>5. cut \in Nat /\ n - cut \in Nat /\ n - cut # 0 /\ cut <= n
  BY <1>1, <1>2, <1>4
<1> HIDE DEF cut
<1>6. PICK k \in Nat : k = n - cut /\ k # 0 /\ n = cut + k
  BY <1>2, <1>5
<1>7. /\ SplitBlocks(k) \in 0..k /\ Invariant(k - SplitBlocks(k), BlockSize)
      /\ SplitBlocks(k) # k
  <2>1. SplitBlocks(k) \in 0..k /\ Invariant(k - SplitBlocks(k), BlockSize)
    BY SplitBlocksProps
  <2>2. PICK q \in Nat, r \in 0..BlockSize-1 :
            q = k \div BlockSize /\ r = k % BlockSize /\ k = q * BlockSize + r
    BY <1>1, DivMod
  <2>3. SplitBlocks(k) = IF r = 0 THEN (q - 1) * BlockSize ELSE q * BlockSize
    BY <1>6, <2>2 DEF SplitBlocks
  <2>4. (q - 1) * BlockSize = q * BlockSize - BlockSize /\ q * BlockSize \in Nat
    BY <1>1
  <2>5. SplitBlocks(k) # k
    BY <1>1, <2>2, <2>3, <2>4
  <2> QED
    BY <2>1, <2>5
<1>8. PICK w \in Nat : w = whole /\ w < k /\ k - w <= BlockSize
  BY <1>1, <1>6, <1>7 DEF Invariant
<1>9. PICK a \in Nat : a = cut + w /\ a <= n /\ n - a = k - w
  BY <1>2, <1>5, <1>6, <1>8
<1>10. Len(s) = k - w
  <2>1. s = SubSeq(input, a + 1, n)
    BY <1>8, <1>9
  <2>2. Len(SubSeq(input, a + 1, n)) = n - a
    BY <1>2, <1>9, SubSeqProps DEF n
  <2> QED
    BY <1>9, <2>1, <2>2
<1>11. PosField(Len(s)) = k - w
  <2>1. k - w \in 1..255 /\ (k - w) % 256 = k - w
    BY <1>1, <1>8
  <2> QED
    BY <1>10, <2>1 DEF PosField
<1>12. GetPos' = pos'
  BY DEF GetPos, GetPosOf
<1> HIDE DEF s
<1>13. GetPos' = k - w
  BY <1>3, <1>11, <1>12
<1>14. k - w # 0
  BY <1>8
<1> QED
  BY <1>13, <1>14, Zenon

(* digest_blocks absorbs its input.                                        *)
LEMMA DigestAbsorbs ==
    ASSUME IInv, IInv', NEW input \in Slices, DigestBlocks(input)
    PROVE  Stream!Absorb
<1>1. input \in Seq(Byte) /\ StreamInv /\ StreamInv' /\ msg' = msg \o input
  BY SlicesProps DEF IInv, DigestBlocks
<1>2. Stream!Grows
  BY <1>1, GrowsBy
<1>3. PICK n \in Nat, p \in Nat, q \in Nat, e \in Nat, f \in Nat :
          /\ n = Len(input) /\ p = GetPos /\ q = GetPos' /\ e = Len(delivered) /\ f = Len(delivered')
          /\ f + q = (e + p) + n
          /\ p <= BlockSize /\ q <= BlockSize /\ Invariant(q, BlockSize)
  <2>1. GetPos \in 0..BlockSize /\ GetPos' \in 0..BlockSize /\ Invariant(GetPos', BlockSize)
    BY <1>1, HeldNow, HeldThen
  <2>2. /\ Len(input) \in Nat /\ Len(delivered) \in Nat /\ Len(delivered') \in Nat
        /\ Len(delivered') + GetPos' = (Len(delivered) + GetPos) + Len(input)
    BY <1>1, GrowsBy
  <2>3. GetPos \in Nat /\ GetPos' \in Nat /\ GetPos <= BlockSize /\ GetPos' <= BlockSize
    BY <2>1, SizeFacts
  <2> QED
    BY <2>1, <2>2, <2>3, Zenon
<1>4. BlockSize \in Nat \ {0}
  BY SizeFacts
<1>5. PICK d \in Nat : f = e + d
  <2>1. CASE DigestFits(input)
    <3>1. f = e
      BY <1>3, <2>1 DEF DigestFits
    <3> QED
      BY <3>1
  <2>2. CASE DigestSpills(input)
    <3>1. ~Invariant(n, BlockSize - p)
      BY <1>3, <2>2 DEF DigestSpills
    <3>2. n >= BlockSize - p
      BY <1>3, <1>4, <3>1 DEF Invariant
    <3>3. f - e \in Nat /\ f = e + (f - e)
      BY <1>3, <1>4, <3>2
    <3> QED
      BY <3>3
  <2> QED
    BY <2>1, <2>2 DEF DigestBlocks
<1>6. d % BlockSize = 0
  <2>1. e % BlockSize = 0 /\ f % BlockSize = 0
    BY <1>1, <1>3 DEF StreamInv, StreamConserved
  <2>2. (e + d) % BlockSize = d % BlockSize
    BY <1>4, <2>1, MultiplePlus
  <2> QED
    BY <1>5, <2>1, <2>2
<1>7. Kind = "Lazy" /\ q = 0 => d = 0
  <2>1. CASE DigestFits(input)
    <3>1. f = e
      BY <1>3, <2>1 DEF DigestFits
    <3> QED
      BY <1>3, <1>5, <3>1
  <2>2. CASE DigestSpills(input)
    BY <1>3, <2>2, LazyKeepsTail
  <2> QED
    BY <2>1, <2>2 DEF DigestBlocks
<1>8. Stream!Cut(d + q) = d
  BY <1>3, <1>6, <1>7, CutUnique
<1>9. Len((Stream!Stream)') - Len(delivered) = d + q
  <2>1. (Stream!Stream)' = msg'
    BY <1>1 DEF Stream!Stream, StreamInv, StreamConserved
  <2>2. Len(msg') = f + q
    BY <1>1, <1>3, GrowsBy
  <2>3. Len((Stream!Stream)') - Len(delivered) = (f + q) - e
    BY <1>3, <2>1, <2>2, Zenon
  <2>4. (f + q) - e = d + q
    BY <1>5
  <2> QED
    BY <2>3, <2>4, Zenon
<1>10. Len(delivered') = Len(delivered) + Stream!Cut(Len((Stream!Stream)') - Len(delivered))
  BY <1>3, <1>5, <1>8, <1>9
<1> QED
  BY <1>2, <1>10 DEF Stream!Absorb

(* A call that empties the buffer leaves nothing pending.                  *)
LEMMA CursorCleared ==
    ASSUME NEW b \in Block, SetPosUnchecked(b, 0)
    PROVE  GetData' = <<>>
<1>1. Holds(buffer', pos', <<>>)
  BY ClearHolds DEF SetPosUnchecked
<1>2. <<>> \in Seq(Byte)
  OBVIOUS
<1> QED
  BY <1>1, <1>2, HeldNext

(* The lengths of what is emitted with one block, or two, appended.        *)
LEMMA EmittedLength ==
    ASSUME NEW d \in Seq(Byte), NEW f \in Block, NEW g \in Block
    PROVE  /\ Len(d \o Bytes(f, 0, BlockSize)) - Len(d) = BlockSize
           /\ Len(d \o Bytes(f, 0, BlockSize)) = Len(d) + BlockSize
           /\ Len(d \o Bytes(f, 0, BlockSize) \o Bytes(g, 0, BlockSize)) - Len(d) = 2 * BlockSize
<1> DEFINE a == Bytes(f, 0, BlockSize)
           b == Bytes(g, 0, BlockSize)
<1>1. BlockSize \in 0..BlockSize /\ BlockSize \in Nat
  BY SizeFacts
<1>2. a \in Seq(Byte) /\ Len(a) = BlockSize /\ b \in Seq(Byte) /\ Len(b) = BlockSize
  BY <1>1, PrefixOfBlock
<1> HIDE DEF a, b
<1>3. d \o a \in Seq(Byte) /\ Len(d \o a) = Len(d) + BlockSize /\ Len(d) \in Nat
  BY <1>2, ConcatProps
<1>4. Len((d \o a) \o b) = Len(d \o a) + BlockSize
  <2>1. PICK c \in Seq(Byte) : c = d \o a
    BY <1>3
  <2>2. Len(c \o b) = Len(c) + Len(b)
    BY <1>2, ConcatProps
  <2> QED
    BY <1>2, <2>1, <2>2
<1> QED
  BY <1>1, <1>3, <1>4 DEF a, b

(* pad_with_zeros finishes the stream with zeros.                          *)
LEMMA PadFinishes ==
    ASSUME IInv, IInv', PadWithZeros
    PROVE  Stream!FinishWithZeros
<1> DEFINE z == Zeros(BlockSize - GetPos)
<1>1. StreamInv /\ StreamInv' /\ buffer \in Block /\ delivered \in Seq(Byte) /\ msg \in Seq(Byte)
  BY DEF IInv, StreamInv
<1>2. BlockSize - GetPos \in Nat
  BY <1>1, HeldNow, SizeFacts
<1>3. z \in Seq(Byte) /\ Len(z) = BlockSize - GetPos /\ \A i \in 1..Len(z) : z[i] = 0
  BY <1>2, ZerosProps
<1>4. msg' = msg \o z
  BY DEF PadWithZeros
<1> HIDE DEF z
<1>5. Stream!Grows
  BY <1>1, <1>3, <1>4, GrowsBy
<1>6. GetData' = <<>>
  BY <1>1, CursorCleared DEF PadWithZeros
<1>7. Len(delivered') = Len(delivered) + BlockSize
  <2>1. ZeroRange(buffer, GetPos, BlockSize) \in Block
    BY <1>1, ZeroBlockRange
  <2> QED
    BY <1>1, <2>1, EmittedLength DEF PadWithZeros
<1>8. Stream!Stream = msg /\ (Stream!Stream)' = msg'
  BY <1>1 DEF Stream!Stream, StreamInv, StreamConserved
<1>9. ASSUME NEW i \in Len(msg)+1..Len(msg') PROVE msg'[i] = 0
  <2>1. /\ Len(msg) \in Nat /\ Len(z) \in Nat /\ Len(msg') = Len(msg) + Len(z)
        /\ \A j \in 1..Len(z) : msg'[Len(msg) + j] = z[j]
    BY <1>1, <1>3, <1>4, ConcatProps
  <2>2. PICK j \in 1..Len(z) : i = Len(msg) + j
    <3>1. i - Len(msg) \in 1..Len(z) /\ i = Len(msg) + (i - Len(msg))
      BY <2>1
    <3> QED
      BY <3>1
  <2> QED
    BY <1>3, <2>1, <2>2
<1>10. \A i \in Len(Stream!Stream)+1..Len((Stream!Stream)') : (Stream!Stream)'[i] = 0
  BY <1>8, <1>9
<1> QED
  BY <1>5, <1>6, <1>7, <1>10 DEF Stream!FinishWithZeros

(* digest_pad finishes an eager stream with its tail, or panics.           *)
LEMMA DigestPadFinishes ==
    ASSUME IInv, IInv', NEW delim \in Data, NEW suffix \in Slices, DigestPad(delim, suffix)
    PROVE  Stream!FinishWithTail \/ UNCHANGED <<GetData, delivered>>
<1>1. CASE Reject("panic")
  BY <1>1 DEF Reject, GetData, GetPos
<1>2. CASE ~Reject("panic")
  <2> DEFINE tail == Padding(Len(msg), delim, suffix)
  <2>1. /\ Kind = "Eager" /\ ~(Len(suffix) > BlockSize) /\ msg' = msg \o tail
        /\ IF NeedsTwoBlocks(suffix)
           THEN /\ delivered' = delivered \o Bytes(Delimited(delim), 0, BlockSize)
                                          \o Bytes(PadSecondBlock(suffix), 0, BlockSize)
                /\ SetPosUnchecked(Delimited(delim), 0)
           ELSE /\ delivered' = delivered \o Bytes(PadOneBlock(delim, suffix), 0, BlockSize)
                /\ SetPosUnchecked(PadOneBlock(delim, suffix), 0)
    BY <1>2 DEF DigestPad
  <2>2. /\ StreamInv /\ StreamInv' /\ buffer \in Block
        /\ delivered \in Seq(Byte) /\ msg \in Seq(Byte)
    BY DEF IInv, StreamInv
  <2>3. delim \in Byte /\ suffix \in Seq(Byte) /\ Len(suffix) \in Nat /\ Len(suffix) <= BlockSize
    BY <2>1, SlicesProps, DataAssumption, SizeFacts DEF Byte
  <2>4. tail \in Seq(Byte)
    <3>1. Len(msg) \in Nat /\ PadZeros(Len(msg), suffix) \in Nat
      <4>1. Len(msg) \in Nat
        BY <2>2, LenProperties
      <4>2. \A x \in Int : x % BlockSize \in Nat
        BY SizeFacts
      <4>3. BlockSize - ((Len(msg) + 1 + Len(suffix)) % BlockSize) \in Int
        BY <2>3, <4>1, <4>2, SizeFacts
      <4> QED
        BY <4>1, <4>2, <4>3 DEF PadZeros
    <3> QED
      BY <2>3, <3>1, PaddingProps
  <2> HIDE DEF tail
  <2>5. Stream!Grows
    BY <2>1, <2>2, <2>4, GrowsBy
  <2>6. Delimited(delim) \in Block
    <3>1. GetPos \in 0..BlockSize-1
      BY <2>1, <2>2, HeldNow, SizeFacts
    <3> QED
      BY <2>2, <2>3, <3>1, DelimitedProps
  <2>7. ZeroBlock \in Block
    BY DEF ZeroBlock, Block, Byte
  <2>8. PadOneBlock(delim, suffix) \in Block /\ PadSecondBlock(suffix) \in Block
    BY <2>3, <2>6, <2>7, SuffixProps DEF PadOneBlock, PadSecondBlock
  <2>9. GetData' = <<>>
    BY <2>1, <2>6, <2>8, CursorCleared
  <2>10. Len(delivered') - Len(delivered) \in {BlockSize, 2 * BlockSize}
    <3>1. CASE NeedsTwoBlocks(suffix)
      <4>1. delivered' = delivered \o Bytes(Delimited(delim), 0, BlockSize)
                                   \o Bytes(PadSecondBlock(suffix), 0, BlockSize)
        BY <2>1, <3>1
      <4>2. Len(delivered') - Len(delivered) = 2 * BlockSize
        BY <2>2, <2>6, <2>8, <4>1, EmittedLength, Zenon
      <4> QED
        BY <4>2
    <3>2. CASE ~NeedsTwoBlocks(suffix)
      <4>1. delivered' = delivered \o Bytes(PadOneBlock(delim, suffix), 0, BlockSize)
        BY <2>1, <3>2
      <4>2. Len(delivered') - Len(delivered) = BlockSize
        BY <2>2, <2>8, <4>1, EmittedLength, Zenon
      <4> QED
        BY <4>2
    <3> QED
      BY <3>1, <3>2
  <2> QED
    BY <2>1, <2>5, <2>9, <2>10 DEF Stream!FinishWithTail
<1> QED
  BY <1>1, <1>2

(* A call that starts a stream leaves at most what a buffer may hold.      *)
LEMMA RestartBegins ==
    ASSUME IInv', NEW s, Restart(s)
    PROVE  Stream!Begin
<1>1. /\ GetPos' \in 0..BlockSize /\ Invariant(GetPos', BlockSize) /\ Len(GetData') = GetPos'
  BY HeldThen DEF IInv
<1>2. GetPos' <= Stream!MaxPending
  BY <1>1, SizeFacts DEF Invariant, Stream!MaxPending
<1> QED
  BY <1>1, <1>2 DEF Stream!Begin, Restart

(* Every operation is a step of the abstract stream, or none.              *)
LEMMA StepSimulation ==
    ASSUME IInv, IInv', [Next]_vars
    PROVE  [Stream!Next]_<<GetData, delivered>>
<1>1. ASSUME NEW how, Reject(how) PROVE UNCHANGED <<GetData, delivered>>
  BY <1>1 DEF Reject, GetData, GetPos
<1>2. ASSUME NEW s, Restart(s) PROVE Stream!Next
  BY <1>2, RestartBegins DEF Stream!Next
<1>3. ASSUME NEW buf \in Slices, TryNew(buf) PROVE [Stream!Next]_<<GetData, delivered>>
  BY <1>1, <1>2, <1>3 DEF TryNew
<1>4. ASSUME NEW input \in Slices, DigestBlocks(input) PROVE Stream!Next
  BY <1>4, DigestAbsorbs DEF Stream!Next
<1>5. CASE Reset
  BY <1>2, <1>5 DEF Reset
<1>6. CASE PadWithZeros
  BY <1>6, PadFinishes DEF Stream!Next
<1>7. ASSUME NEW buf, NEW p, Set(buf, p) PROVE [Stream!Next]_<<GetData, delivered>>
  BY <1>1, <1>2, <1>7 DEF Set
<1>8. ASSUME NEW delim \in Data, NEW suffix \in Slices, DigestPad(delim, suffix)
      PROVE  [Stream!Next]_<<GetData, delivered>>
  BY <1>8, DigestPadFinishes DEF Stream!Next
<1>9. CASE Serialize \/ UNCHANGED vars
  BY <1>9 DEF Serialize, vars, GetData, GetPos
<1>10. ASSUME NEW image, NEW s, Load(image, s) PROVE [Stream!Next]_<<GetData, delivered>>
  BY <1>1, <1>2, <1>10 DEF Load
<1>11. CASE Restore
  BY <1>10, <1>11 DEF Restore
<1>12. ASSUME NEW image, Deserialize(image) PROVE [Stream!Next]_<<GetData, delivered>>
  BY <1>10, <1>12 DEF Deserialize
<1> QED
  BY <1>3, <1>4, <1>5, <1>6, <1>7, <1>8, <1>9, <1>11, <1>12 DEF Next

(* The block buffer implements the abstract stream: what compress has seen *)
(* is the whole blocks of the stream so far, however digest_blocks,        *)
(* digest_pad, pad_with_zeros, reset, set and serialize are combined, for  *)
(* both kinds and every block size.                                        *)
THEOREM ImplementsStream == Spec => StreamSpec
<1>1. Init => Stream!Init
  <2> SUFFICES ASSUME Init PROVE Stream!Init
    OBVIOUS
  <2>1. StreamInv /\ GetPos = 0
    BY InitIInv, SizeFacts DEF IInv, Init, ZeroBlock, GetPos, GetPosOf
  <2>2. GetData = <<>>
    BY <2>1, HeldNow, EmptySeq
  <2> QED
    BY <2>2 DEF Init, Stream!Init
<1>2. IInv /\ IInv' /\ [Next]_vars => [Stream!Next]_<<GetData, delivered>>
  BY StepSimulation
<1> QED
  BY <1>1, <1>2, Invariance, PTL DEF Spec, StreamSpec, Stream!Spec
=============================================================================
