---------------------------- MODULE PaddedInOut ----------------------------
(***************************************************************************)
(* A message on its way through inout and block-padding: InOutBufReserved  *)
(* over one buffer (in place) or two, into_padded_blocks, the caller's     *)
(* pass over the blocks and the tail, in any order, into_out, and on the   *)
(* other side unpad_blocks.                                                *)
(*                                                                         *)
(* The caller's block operation is outside the repository: it reads a      *)
(* block through get_in and writes one of the same size through get_out.   *)
(* Here it adds a key to every byte.                                       *)
(***************************************************************************)
EXTENDS BlockPadding

CONSTANTS
    Data,        \* the bytes messages are made of
    Spare,       \* what the unused part of an output buffer holds
    Key,         \* the caller's block operation adds it to every byte
    MaxLen,      \* bound: longest message
    MaxSpare     \* bound: most room behind the message in the output buffer

ASSUME PaddedInOutAssumption ==
    /\ BlockSize <= 255
    /\ Data \subseteq Byte
    /\ Spare \in Byte
    /\ Key \in Byte
    /\ MaxLen \in Nat
    /\ MaxSpare \in Nat

VARIABLES
    phase,       \* what the caller holds: nothing, reserved, padded or sealed
    in_place,    \* in_ptr = out_ptr
    message,     \* the message; in_len is its length.  When not in place, it
                 \* is the memory behind in_ptr, which nothing writes
    out,         \* the memory behind out_ptr
    out_len,     \* InOutBufReserved::out_len
    scheme,      \* the padding P of into_padded_blocks
    nblocks,     \* PaddedInOutBuf::blocks.len
    tail_in,     \* PaddedInOutBuf::tail_in
    tail_out,    \* PaddedInOutBuf::tail_out.is_some()
    done,        \* the blocks the caller has processed, the tail the last
    result,      \* how the last call ended: ok or err
    opened       \* what unpad_blocks was last given, and what it returned

reserved == <<in_place, message, out_len>>
padded == <<scheme, nblocks, tail_in, tail_out>>
vars == <<phase, reserved, out, padded, done, result, opened>>

-----------------------------------------------------------------------------
Messages == UNION {[1..n -> Data] : n \in 0..MaxLen}
ZeroBlock == [i \in 0..BlockSize-1 |-> 0]
NotOpened == [from |-> "nobody"]

Encrypt(s) == [i \in DOMAIN s |-> (s[i] + Key) % 256]
Decrypt(s) == [i \in DOMAIN s |-> (s[i] - Key) % 256]

(* The input is read from wherever in_ptr points.                          *)
In(a, b) == IF in_place THEN Bytes(out, a, b) ELSE SubSeq(message, a + 1, b)

get_in_len == Len(message)

Init ==
    /\ phase = "nothing"
    /\ in_place = TRUE /\ message = <<>> /\ out = <<>> /\ out_len = 0
    /\ scheme = "NoPadding" /\ nblocks = 0 /\ tail_in = ZeroBlock /\ tail_out = FALSE
    /\ done = {}
    /\ result = "ok"
    /\ opened = NotOpened

(* A call that consumes the buffer the caller holds, and returns none.     *)
Consume ==
    /\ phase' = "nothing"
    /\ in_place' = TRUE /\ message' = <<>> /\ out' = <<>> /\ out_len' = 0
    /\ scheme' = "NoPadding" /\ nblocks' = 0 /\ tail_in' = ZeroBlock /\ tail_out' = FALSE
    /\ done' = {}

Fail ==
    /\ Consume
    /\ result' = "err"
    /\ UNCHANGED opened

(* from_mut_slice(buf, msg_len): buf holds m (of which it may be too short *)
(* to hold all msg_len bytes) and spare bytes behind it.                   *)
FromMutSliceMixup(m, len) ==    \* a bug: the message's length for the buffer's
    /\ phase = "nothing" /\ Len(m) <= len
    /\ phase' = "reserved"
    /\ in_place' = TRUE
    /\ message' = m
    /\ out' = Overwrite([i \in 0..len-1 |-> Spare], 0, m)
    /\ out_len' = Len(m)
    /\ UNCHANGED <<padded, done, opened, result>>
FromMutSlice(m, len) ==
    /\ phase = "nothing"
    /\ IF Len(m) > len
       THEN Fail
       ELSE /\ phase' = "reserved"
            /\ in_place' = TRUE
            /\ message' = m
            /\ out' = Overwrite([i \in 0..len-1 |-> Spare], 0, m)
            /\ out_len' = len
            /\ result' = "ok"
            /\ opened' = NotOpened
            /\ UNCHANGED <<padded, done>>

FromSlices(m, len) ==
    /\ phase = "nothing"
    /\ IF Len(m) > len
       THEN Fail
       ELSE /\ phase' = "reserved"
            /\ in_place' = FALSE
            /\ message' = m
            /\ out' = [i \in 0..len-1 |-> Spare]
            /\ out_len' = len
            /\ result' = "ok"
            /\ opened' = NotOpened
            /\ UNCHANGED <<padded, done>>

-----------------------------------------------------------------------------
BlocksLen == get_in_len \div BlockSize
TailLen == get_in_len - BlockSize * BlocksLen

(* When into_padded_blocks makes no tail block, and when it fails.         *)
NoTail(P) == PadType(P) \in {"NoPadding", "Ambiguous"} /\ TailLen = 0
PadFailsOnTail(P) == PadType(P) = "NoPadding" /\ TailLen # 0    \* a bug: no test for room
PadFails(P) ==
    /\ ~NoTail(P)
    /\ PadType(P) = "NoPadding" \/ BlockSize * BlocksLen + BlockSize > out_len

IntoPaddedBlocks(P) ==
    /\ phase = "reserved"
    /\ IF PadFails(P)
       THEN Fail
       ELSE /\ phase' = "padded"
            /\ scheme' = P
            /\ nblocks' = BlocksLen
            /\ tail_out' = ~NoTail(P)
            /\ tail_in' = IF NoTail(P) THEN ZeroBlock
                          ELSE Pad(P, Overwrite(ZeroBlock, 0, In(BlockSize * BlocksLen, get_in_len)),
                                   TailLen)
            /\ done' = {}
            /\ result' = "ok"
            /\ UNCHANGED <<reserved, out, opened>>

(* The caller processes block i of get_blocks(), or the tail block.        *)
ProcessBlockShifted(i) ==    \* a bug: input and output offsets differ
    /\ phase = "padded" /\ i \notin done /\ i < nblocks
    /\ out' = Overwrite(out, BlockSize * i + 1, Encrypt(In(BlockSize * i, BlockSize * i + BlockSize)))
    /\ done' = done \cup {i}
    /\ UNCHANGED <<phase, reserved, padded, result, opened>>
ProcessBlock(i) ==
    /\ phase = "padded" /\ i \notin done /\ i < nblocks
    /\ out' = Overwrite(out, BlockSize * i, Encrypt(In(BlockSize * i, BlockSize * i + BlockSize)))
    /\ done' = done \cup {i}
    /\ UNCHANGED <<phase, reserved, padded, result, opened>>

ProcessTail ==
    /\ phase = "padded" /\ nblocks \notin done /\ tail_out
    /\ out' = Overwrite(out, BlockSize * nblocks, Encrypt(Bytes(tail_in, 0, BlockSize)))
    /\ done' = done \cup {nblocks}
    /\ UNCHANGED <<phase, reserved, padded, result, opened>>

TotalBlocks == IF tail_out THEN nblocks + 1 ELSE nblocks

(* into_out, once the caller has been through all blocks.                  *)
IntoOut ==
    /\ phase = "padded" /\ done = 0..TotalBlocks-1
    /\ phase' = "sealed"
    /\ result' = "ok"
    /\ UNCHANGED <<reserved, out, padded, done, opened>>

-----------------------------------------------------------------------------
(* unpad_blocks of a text of whole blocks.                                 *)
UnpadText(P, text) ==
    LET n == Len(text) \div BlockSize
        last == [i \in 0..BlockSize-1 |-> text[BlockSize * (n - 1) + i + 1]]
    IN  UnpadBlocks(P, n, last)

Unpadded(from, m, P, text) ==
    /\ opened' = [from |-> from, sent |-> m, scheme |-> P, text |-> text,
                  len |-> UnpadText(P, text)]
    /\ result' = IF UnpadText(P, text) = Err THEN "err" ELSE "ok"

(* The receiver undoes the block operation on into_out's slice and unpads; *)
(* or it unpads blocks that no one of this crate padded.                   *)
Open ==
    /\ phase = "sealed"
    /\ Unpadded("sender", message, scheme, Decrypt(Bytes(out, 0, BlockSize * TotalBlocks)))
    /\ Consume

OpenForeign(P, text) ==
    /\ phase = "nothing"
    /\ Unpadded("stranger", <<>>, P, text)
    /\ UNCHANGED <<phase, reserved, out, padded, done>>

-----------------------------------------------------------------------------
Next ==
    \/ \E m \in Messages, len \in 0..MaxLen+MaxSpare :
          FromMutSlice(m, len) \/ FromSlices(m, len)
    \/ \E P \in Schemes : IntoPaddedBlocks(P)
    \/ \E i \in 0..MaxLen : ProcessBlock(i)
    \/ ProcessTail
    \/ IntoOut
    \/ Open
    \/ \E P \in Schemes, n \in 0..2 :
          \E text \in [1..n*BlockSize -> Data \cup 1..BlockSize] : OpenForeign(P, text)

Spec == Init /\ [][Next]_vars

-----------------------------------------------------------------------------
(* Every variable keeps its type.                                          *)
TypeOK ==
    /\ phase \in {"nothing", "reserved", "padded", "sealed"}
    /\ in_place \in BOOLEAN
    /\ message \in Seq(Byte)
    /\ out_len \in Nat
    /\ out \in [0..out_len-1 -> Byte]
    /\ scheme \in Schemes
    /\ nblocks \in Nat
    /\ tail_in \in Block
    /\ tail_out \in BOOLEAN
    /\ done \subseteq Nat
    /\ result \in {"ok", "err"}

(* What each scheme makes of a message, without blocks or buffers.         *)
Padding(P, len) ==
    LET n == BlockSize - (len % BlockSize)
    IN  CASE P = "ZeroPadding" -> Zeros(n % BlockSize)
          [] P \in {"Pkcs7", "Iso10126"} -> [i \in 1..n |-> n]
          [] P = "AnsiX923" -> Append(Zeros(n - 1), n)
          [] P = "Iso7816" -> <<128>> \o Zeros(n - 1)
          [] P = "NoPadding" -> <<>>
PaddedMessage(P, m) == m \o Padding(P, Len(m))

BlockOf(s, i) == SubSeq(s, BlockSize * i + 1, BlockSize * i + BlockSize)

(* In whatever order the caller takes the blocks, in place or not: a block *)
(* already processed is the padded message's block, transformed, and the   *)
(* input of one still to come is the padded message's block, untouched by  *)
(* the writes so far.                                                      *)
BlocksIndependent ==
    phase = "padded" =>
        LET padded_msg == PaddedMessage(scheme, message)
        IN  /\ Len(padded_msg) = BlockSize * TotalBlocks
            /\ \A i \in 0..TotalBlocks-1 :
                  IF i \in done
                  THEN Bytes(out, BlockSize * i, BlockSize * i + BlockSize)
                          = Encrypt(BlockOf(padded_msg, i))
                  ELSE (IF i = nblocks THEN Bytes(tail_in, 0, BlockSize)
                        ELSE In(BlockSize * i, BlockSize * i + BlockSize))
                          = BlockOf(padded_msg, i)

(* The SAFETY comments of into_padded_blocks and into_out: all blocks lie  *)
(* inside the output buffer, all full blocks inside the input; and nothing *)
(* behind the last block is ever written.                                  *)
StaysInside ==
    phase \in {"padded", "sealed"} =>
        /\ BlockSize * nblocks <= get_in_len
        /\ BlockSize * TotalBlocks <= out_len
        /\ \A i \in BlockSize * TotalBlocks .. out_len-1 : out[i] = Spare

(* unpad_blocks gives back the message that into_padded_blocks padded:     *)
(* exactly for the reversible schemes, and for zero padding up to the      *)
(* zeros at the end of the message's last block.                           *)
RoundTrip ==
    opened.from = "sender" =>
        LET len == opened.len
            sent == opened.sent
        IN  /\ len \in 0..Len(sent)
            /\ SubSeq(opened.text, 1, len) = SubSeq(sent, 1, len)
            /\ IF PadType(opened.scheme) # "Ambiguous"
               THEN len = Len(sent)
               ELSE /\ Len(sent) - len <= BlockSize
                    /\ \A i \in len+1..Len(sent) : sent[i] = 0

(* A strict scheme accepts only what it would itself have written:         *)
(* unpadding and padding again gives the same text.                        *)
StrictUnpadIsExact ==
    /\ opened.from # "nobody"
    /\ opened.scheme \in {"Pkcs7", "AnsiX923", "Iso7816"}
    /\ opened.len # Err
    => PaddedMessage(opened.scheme, SubSeq(opened.text, 1, opened.len)) = opened.text

=============================================================================
