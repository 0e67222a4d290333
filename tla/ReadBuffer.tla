----------------------------- MODULE ReadBuffer -----------------------------
(***************************************************************************)
(* block-buffer's ReadBuffer: hands out, in pieces of any length, the      *)
(* bytes of a stream that a generator produces block by block.  The cursor *)
(* lives in the first byte of the block: that byte is always handed out    *)
(* before the cursor is written over it.                                   *)
(*                                                                         *)
(* `stream` and `out` are history variables: every byte the generator      *)
(* produced since the reader was created or loaded (the bytes an image     *)
(* brought along included), and every byte read since then.                *)
(***************************************************************************)
EXTENDS BlockSizes

VARIABLES
    buffer,      \* the last block generated, the cursor over its first byte
    result,      \* how the last call ended: ok, err (a Result) or panic
    saved,       \* the image last written or loaded, with its unread bytes
    stream,      \* history: the bytes generated
    out          \* history: the bytes handed out

vars == <<buffer, result, saved, stream, out>>

-----------------------------------------------------------------------------
Empty == [[i \in 0..BlockSize-1 |-> 0] EXCEPT ![0] = BlockSize]
NoImage == [image |-> <<>>, data |-> <<>>]

PosValid(p) == p # 0 /\ p <= BlockSize

GetPos == buffer[0]
Remaining == BlockSize - GetPos
Unread(buf) == Bytes(buf, buf[0], BlockSize)

SetPosUnchecked(buf, p) == buffer' = [buf EXCEPT ![0] = p % 256]

Init ==
    /\ buffer = Empty
    /\ result = "ok"
    /\ saved = NoImage
    /\ stream = <<>>
    /\ out = <<>>

(* read of n bytes that the buffer holds.                                  *)
ReadHeldRepeats(n) ==    \* a bug: the cursor is not advanced
    /\ n < Remaining
    /\ out' = out \o Bytes(buffer, GetPos, GetPos + n)
    /\ UNCHANGED <<buffer, stream>>
ReadHeld(n) ==
    /\ Remaining # 0
    /\ n < Remaining
    /\ out' = out \o Bytes(buffer, GetPos, GetPos + n)
    /\ SetPosUnchecked(buffer, GetPos + n)
    /\ UNCHANGED stream

(* read of n bytes when the buffer runs out: what it holds, then whole     *)
(* blocks generated in place (gen, in a row), then the front of one more   *)
(* block (last), which stays in the buffer.                                *)
Generated(n) == ((n - Remaining) \div BlockSize) * BlockSize
Leftover(n) == (n - Remaining) % BlockSize
ReadGeneratedToZero(n, gen, last) ==    \* a bug: the cursor is set to n also when n is 0
    /\ ~(Remaining # 0 /\ n < Remaining)
    /\ Len(gen) = Generated(n)
    /\ Leftover(n) = 0
    /\ out' = out \o Unread(buffer) \o gen
    /\ stream' = stream \o gen
    /\ SetPosUnchecked(buffer, 0)
ReadGenerated(n, gen, last) ==
    /\ ~(Remaining # 0 /\ n < Remaining)
    /\ Len(gen) = Generated(n)
    /\ LET k == Leftover(n)
       IN  IF k # 0
           THEN /\ out' = out \o Unread(buffer) \o gen \o Bytes(last, 0, k)
                /\ stream' = stream \o gen \o Bytes(last, 0, BlockSize)
                /\ SetPosUnchecked(last, k)
           ELSE /\ out' = out \o Unread(buffer) \o gen
                /\ stream' = stream \o gen
                /\ SetPosUnchecked(buffer, BlockSize)

Read(n, gen, last) ==
    /\ Len(out) + n <= MaxMsg
    /\ ReadHeld(n) \/ ReadGenerated(n, gen, last)
    /\ result' = "ok"
    /\ UNCHANGED saved

-----------------------------------------------------------------------------
(* The generator panics during such a read and the caller unwinds: the     *)
(* slice, with the bytes put into it so far, is dropped.                   *)
ReadPanics(n) ==
    /\ Len(out) + n <= MaxMsg
    /\ ~(Remaining # 0 /\ n < Remaining)
    /\ n # Remaining
    /\ result' = "panic"
    /\ UNCHANGED <<buffer, saved, stream, out>>

-----------------------------------------------------------------------------
ImageOfWithRead(buf) == buf    \* a bug: the bytes already read are not zeroized
ImageOf(buf) == ZeroRange(buf, 1, buf[0])

Serialize ==
    /\ saved' = [image |-> ImageOf(buffer), data |-> Unread(buffer)]
    /\ result' = "ok"
    /\ UNCHANGED <<buffer, stream, out>>

AcceptsGarbage(image) == PosValid(image[0])    \* a bug: no test for zeros
Accepts(image) ==
    /\ PosValid(image[0])
    /\ \A i \in 1..image[0]-1 : image[i] = 0

(* Load an image; s is what the caller takes its unread bytes to be.       *)
Load(image, s) ==
    IF Accepts(image)
    THEN /\ buffer' = image
         /\ stream' = s
         /\ out' = <<>>
         /\ saved' = [image |-> image, data |-> s]
         /\ result' = "ok"
    ELSE /\ result' = "err"
         /\ UNCHANGED <<buffer, saved, stream, out>>

(* deserialize an image serialize wrote: the reader resumes where it was.  *)
Restore == saved # NoImage /\ Load(saved.image, saved.data)

(* deserialize any bytes.                                                  *)
Images ==
    {[f EXCEPT ![0] = p] : f \in [0..BlockSize-1 -> Data], p \in (0..BlockSize+1) \cap Byte}
Deserialize(image) == Load(image, Unread(image))

-----------------------------------------------------------------------------
Next ==
    \/ \E n \in 0..MaxInput :
          \/ \E gen \in [1..Generated(n) -> Data], last \in [0..BlockSize-1 -> Data] :
                Read(n, gen, last)
          \/ ReadPanics(n)
    \/ Serialize
    \/ Restore
    \/ \E image \in Images : Deserialize(image)

Spec == Init /\ [][Next]_vars

-----------------------------------------------------------------------------
(* The types the source gives to the block and the images.                 *)
TypeOK ==
    /\ buffer \in Block
    /\ result \in {"ok", "err", "panic"}
    /\ stream \in Seq(Byte)
    /\ out \in Seq(Byte)
    /\ saved = NoImage \/ saved \in [image : Block, data : Seq(Byte)]

(* The SAFETY comment of get_pos: the cursor is never 0 and never past the *)
(* block, whatever bytes the generator put where the cursor lives.         *)
PosNeverBreaksInvariant == PosValid(GetPos)

(* read hands out the generator's bytes in order, each once, and keeps the *)
(* rest: what was read, followed by what is left, is the stream.  No block *)
(* is generated before its first byte is asked for.                        *)
StreamConserved ==
    /\ out \o Unread(buffer) = stream
    /\ Len(stream) < Len(out) + BlockSize

(* An image that serialize wrote, or that deserialize took, is accepted by *)
(* deserialize and leaves the bytes to read that it was made with.         *)
SavedImageLoads ==
    saved # NoImage => Accepts(saved.image) /\ Unread(saved.image) = saved.data

(* Two readers with the same bytes left serialize to the same image,       *)
(* whatever they have handed out before: an image holds no byte that was   *)
(* already read.                                                           *)
ImageIsCanonical ==
    saved # NoImage /\ saved.data = Unread(buffer) => ImageOf(buffer) = saved.image
=============================================================================
