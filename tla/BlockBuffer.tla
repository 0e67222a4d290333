---------------------------- MODULE BlockBuffer ----------------------------
(***************************************************************************)
(* The block-buffer crate: a buffer that cuts a byte stream, handed over   *)
(* in pieces of any length, into blocks for a compression function.        *)
(*                                                                         *)
(* Arrays are those of ByteArrays: functions on 0..n-1, indexed as in the  *)
(* source; slices are sequences.  `msg` and `delivered` are history        *)
(* variables: the stream the caller asked to have digested, and the bytes  *)
(* that left the buffer in whole blocks.                                   *)
(***************************************************************************)
EXTENDS BlockSizes

CONSTANT Kind   \* the buffer kind K

ASSUME KindAssumption == Kind \in {"Eager", "Lazy"}

VARIABLES
    buffer,      \* the block; Eager keeps the cursor in its last byte
    pos,         \* K::Pos: the u8 cursor of Lazy, () (here 0) for Eager
    result,      \* how the last call ended: ok, err (a Result) or panic
    saved,       \* the image last written or loaded, with its data
    msg,         \* history: the stream to digest since the last restart
    delivered    \* history: the bytes handed out in blocks since then

vars == <<buffer, pos, result, saved, msg, delivered>>

-----------------------------------------------------------------------------
Slices == UNION {[1..n -> Data] : n \in 0..MaxInput}

ZeroBlock == [i \in 0..BlockSize-1 |-> 0]
NoImage == [image |-> <<>>, data |-> <<>>]

-----------------------------------------------------------------------------
(* sealed.rs: what differs between the two kinds.                          *)

Invariant(p, size) == IF Kind = "Eager" THEN p < size ELSE p <= size

GetPosOf(buf, p) == IF Kind = "Eager" THEN buf[BlockSize-1] ELSE p

(* The cursor is stored `as u8`, for Eager over the block's last byte.     *)
PosInBuffer(buf, val) ==
    IF Kind = "Eager" THEN [buf EXCEPT ![BlockSize-1] = val % 256] ELSE buf
PosField(val) == IF Kind = "Eager" THEN 0 ELSE val % 256

(* How many of n bytes K::split_blocks puts in whole blocks: all of them   *)
(* for Eager; Lazy keeps a full last block as the tail.                    *)
SplitBlocksOtherKind(n) ==    \* a bug: each kind splits like the other
    IF Kind = "Eager" /\ n > 0 /\ n % BlockSize = 0
    THEN (n \div BlockSize - 1) * BlockSize
    ELSE (n \div BlockSize) * BlockSize
SplitBlocks(n) ==
    IF Kind = "Eager" THEN (n \div BlockSize) * BlockSize
    ELSE IF n = 0 THEN 0
    ELSE IF n % BlockSize = 0 THEN (n \div BlockSize - 1) * BlockSize
    ELSE (n \div BlockSize) * BlockSize

-----------------------------------------------------------------------------
GetPos == GetPosOf(buffer, pos)
GetData == Bytes(buffer, 0, GetPos)

SetPosUnchecked(buf, val) ==
    /\ buffer' = PosInBuffer(buf, val)
    /\ pos' = PosField(val)

(* The caller starts a stream whose first bytes, s, are already held.      *)
Restart(s) == msg' = s /\ delivered' = <<>>

Reject(how) ==
    /\ result' = how
    /\ UNCHANGED <<buffer, pos, saved, msg, delivered>>

Init ==
    /\ buffer = ZeroBlock
    /\ pos = 0
    /\ result = "ok"
    /\ saved = NoImage
    /\ msg = <<>>
    /\ delivered = <<>>

(* try_new: a new buffer in place of the current one.                      *)
TryNew(buf) ==
    IF Invariant(Len(buf), BlockSize)
    THEN /\ SetPosUnchecked(Overwrite(ZeroBlock, 0, buf), Len(buf))
         /\ Restart(buf)
         /\ result' = "ok"
         /\ UNCHANGED saved
    ELSE Reject("err")

(* digest_blocks when the input fits in the buffer.                        *)
DigestFitsFromStart(input) ==    \* a bug: room is counted from the block's start
    /\ Invariant(Len(input), BlockSize)
    /\ SetPosUnchecked(Overwrite(buffer, GetPos, input), GetPos + Len(input))
    /\ UNCHANGED delivered
DigestFits(input) ==
    /\ Invariant(Len(input), BlockSize - GetPos)
    /\ SetPosUnchecked(Overwrite(buffer, GetPos, input), GetPos + Len(input))
    /\ UNCHANGED delivered

(* digest_blocks when it does not: complete and compress a started block,  *)
(* compress the whole blocks of the rest, keep what is left.               *)
DigestSpillsRepeats(input) ==    \* a bug: the bytes that completed a block stay in the input
    LET first == Bytes(Overwrite(buffer, GetPos, SubSeq(input, 1, BlockSize - GetPos)), 0, BlockSize)
        whole == SplitBlocks(Len(input))
        leftover == SubSeq(input, whole + 1, Len(input))
    IN  /\ ~Invariant(Len(input), BlockSize - GetPos)
        /\ delivered' = delivered \o (IF GetPos # 0 THEN first ELSE <<>>) \o SubSeq(input, 1, whole)
        /\ SetPosUnchecked(Overwrite(buffer, 0, leftover), Len(leftover))
DigestSpills(input) ==
    LET rem == BlockSize - GetPos
        cut == IF GetPos # 0 THEN rem ELSE 0
        filled == Overwrite(buffer, GetPos, SubSeq(input, 1, cut))
        first == IF GetPos # 0 THEN Bytes(filled, 0, BlockSize) ELSE <<>>
        n == Len(input) - cut
        whole == SplitBlocks(n)
        blocks == SubSeq(input, cut + 1, cut + whole)
        leftover == SubSeq(input, cut + whole + 1, Len(input))
    IN  /\ ~Invariant(Len(input), rem)
        /\ delivered' = delivered \o first \o blocks
        /\ SetPosUnchecked(Overwrite(filled, 0, leftover), Len(leftover))

DigestBlocks(input) ==
    /\ Len(msg) + Len(input) <= MaxMsg
    /\ DigestFits(input) \/ DigestSpills(input)
    /\ msg' = msg \o input
    /\ result' = "ok"
    /\ UNCHANGED saved

Reset ==
    /\ SetPosUnchecked(buffer, 0)
    /\ Restart(<<>>)
    /\ result' = "ok"
    /\ UNCHANGED saved

(* pad_with_zeros: the block returned is the stream's last.                *)
PadWithZeros ==
    /\ Len(msg) + BlockSize - GetPos <= MaxMsg
    /\ delivered' = delivered \o Bytes(ZeroRange(buffer, GetPos, BlockSize), 0, BlockSize)
    /\ SetPosUnchecked(buffer, 0)
    /\ msg' = msg \o Zeros(BlockSize - GetPos)
    /\ result' = "ok"
    /\ UNCHANGED saved

Set(buf, p) ==
    IF Invariant(p, BlockSize)
    THEN /\ SetPosUnchecked(buf, p)
         /\ Restart(Bytes(buf, 0, p))
         /\ result' = "ok"
         /\ UNCHANGED saved
    ELSE Reject("panic")

-----------------------------------------------------------------------------
(* digest_pad, an operation of the eager buffer only.  The stream is to    *)
(* end with the delimiter, as few zeros as fill the last block, and the    *)
(* suffix.                                                                 *)

PadZeros(len, suffix) ==
    (BlockSize - ((len + 1 + Len(suffix)) % BlockSize)) % BlockSize
Padding(len, delim, suffix) == <<delim>> \o Zeros(PadZeros(len, suffix)) \o suffix

(* The blocks digest_pad compresses, and what it leaves in the buffer.     *)
Delimited(delim) == ZeroRange(Overwrite(buffer, GetPos, <<delim>>), GetPos + 1, BlockSize)
NeedsTwoBlocks(suffix) == BlockSize - GetPos - 1 < Len(suffix)
PadOneBlock(delim, suffix) == Overwrite(Delimited(delim), BlockSize - Len(suffix), suffix)
PadSecondBlock(suffix) == Overwrite(ZeroBlock, BlockSize - Len(suffix), suffix)

DigestPad(delim, suffix) ==
    /\ Kind = "Eager"
    /\ IF Len(suffix) > BlockSize
       THEN Reject("panic")
       ELSE /\ Len(msg) + Len(Padding(Len(msg), delim, suffix)) <= MaxMsg
            /\ IF NeedsTwoBlocks(suffix)
               THEN /\ delivered' = delivered \o Bytes(Delimited(delim), 0, BlockSize)
                                              \o Bytes(PadSecondBlock(suffix), 0, BlockSize)
                    /\ SetPosUnchecked(Delimited(delim), 0)
               ELSE /\ delivered' = delivered \o Bytes(PadOneBlock(delim, suffix), 0, BlockSize)
                    /\ SetPosUnchecked(PadOneBlock(delim, suffix), 0)
            /\ msg' = msg \o Padding(Len(msg), delim, suffix)
            /\ result' = "ok"
            /\ UNCHANGED saved

-----------------------------------------------------------------------------
(* serialize and deserialize.  An eager image is the block itself, cursor  *)
(* byte last; a lazy image has the cursor in front of the block.           *)

ImageIndex == IF Kind = "Eager" THEN 0..BlockSize-1 ELSE 0..BlockSize
CursorIndex == IF Kind = "Eager" THEN BlockSize - 1 ELSE 0
Images ==
    {[f EXCEPT ![CursorIndex] = p] :
        f \in [ImageIndex -> Data], p \in (0..BlockSize+1) \cap Byte}

ImageOfWithGarbage(buf, p) ==    \* a bug: the bytes behind the cursor are not zeroized
    IF Kind = "Eager" THEN buf
    ELSE Overwrite([i \in 0..BlockSize |-> p], 1, Bytes(buf, 0, BlockSize))
ImageOf(buf, p) ==
    IF Kind = "Eager"
    THEN ZeroRange(buf, GetPosOf(buf, p), BlockSize - 1)
    ELSE Overwrite([i \in 0..BlockSize |-> IF i = 0 THEN p ELSE 0], 1,
                   Bytes(buf, 0, GetPosOf(buf, p)))

ImagePos(image) == image[CursorIndex]

AcceptsGarbage(image) == Invariant(ImagePos(image), BlockSize)    \* a bug: no test for zeros
Accepts(image) ==
    /\ Invariant(ImagePos(image), BlockSize)
    /\ IF Kind = "Eager"
       THEN \A i \in ImagePos(image)..BlockSize-2 : image[i] = 0
       ELSE \A i \in ImagePos(image)+1..BlockSize : image[i] = 0

ImageBuffer(image) ==
    IF Kind = "Eager" THEN image ELSE [i \in 0..BlockSize-1 |-> image[i+1]]

Serialize ==
    /\ saved' = [image |-> ImageOf(buffer, pos), data |-> GetData]
    /\ result' = "ok"
    /\ UNCHANGED <<buffer, pos, msg, delivered>>

(* Load an image; s is what the caller takes its held data to be.          *)
Load(image, s) ==
    IF Accepts(image)
    THEN /\ buffer' = ImageBuffer(image)
         /\ pos' = IF Kind = "Eager" THEN 0 ELSE image[0]
         /\ Restart(s)
         /\ saved' = [image |-> image, data |-> s]
         /\ result' = "ok"
    ELSE Reject("err")

(* deserialize an image serialize wrote: the digest resumes where it was.  *)
Restore == saved # NoImage /\ Load(saved.image, saved.data)

(* deserialize any bytes.                                                  *)
Deserialize(image) == Load(image, Bytes(ImageBuffer(image), 0, ImagePos(image)))

-----------------------------------------------------------------------------
Next ==
    \/ \E buf \in Slices : TryNew(buf)
    \/ \E input \in Slices : DigestBlocks(input)
    \/ Reset
    \/ PadWithZeros
    \/ \E buf \in [0..BlockSize-1 -> Data], p \in 0..BlockSize+1 : Set(buf, p)
    \/ \E delim \in Data, suffix \in Slices : DigestPad(delim, suffix)
    \/ Serialize
    \/ Restore
    \/ \E image \in Images : Deserialize(image)

Spec == Init /\ [][Next]_vars

-----------------------------------------------------------------------------
(* The types the source gives to the block, the cursor and the images.     *)
TypeOK ==
    /\ buffer \in Block
    /\ pos \in Byte
    /\ result \in {"ok", "err", "panic"}
    /\ msg \in Seq(Byte)
    /\ delivered \in Seq(Byte)
    /\ saved = NoImage \/ saved \in [image : [ImageIndex -> Byte], data : Seq(Byte)]

(* The SAFETY comment of get_pos: the cursor never breaks the invariant of *)
(* its kind, also when Eager stores it over a byte of the block.           *)
PosNeverBreaksInvariant == Invariant(GetPos, BlockSize)

(* No byte of the stream is lost, repeated or reordered by digest_blocks,  *)
(* pad_with_zeros, digest_pad or a save and restore: what was delivered,   *)
(* followed by get_data(), is the stream, and blocks are whole.            *)
StreamConserved ==
    /\ delivered \o GetData = msg
    /\ Len(delivered) % BlockSize = 0

(* An image that serialize wrote, or that deserialize took, is accepted by *)
(* deserialize and gives back the data it was made from.                   *)
SavedImageLoads ==
    saved # NoImage =>
        /\ Accepts(saved.image)
        /\ Bytes(ImageBuffer(saved.image), 0, ImagePos(saved.image)) = saved.data

(* Images are canonical: two buffers that hold the same data serialize to  *)
(* the same image, whatever stale bytes lie behind their cursors, and      *)
(* deserialize takes no second image of the same data.                     *)
ImageIsCanonical ==
    saved # NoImage /\ saved.data = GetData => ImageOf(buffer, pos) = saved.image

(* The buffer implements the abstract stream: what compress has seen       *)
(* depends on the stream alone and not on how it was cut into calls; an    *)
(* eager buffer never sits on a full block, a lazy one never gives away    *)
(* the last block of the input it has seen.                                *)
Stream == INSTANCE BlockStream WITH pending <- GetData, emitted <- delivered
StreamSpec == Stream!Spec
=============================================================================
