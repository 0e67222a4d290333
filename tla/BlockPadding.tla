---------------------------- MODULE BlockPadding ----------------------------
(***************************************************************************)
(* The block-padding crate: the six padding schemes, each as what pad      *)
(* writes into a block and what unpad makes of one.  A slice unpad returns *)
(* starts at the block's first byte, so its length stands for it.          *)
(***************************************************************************)
EXTENDS ByteArrays

CONSTANT BlockSize   \* B::USIZE

ASSUME PaddingSizeAssumption == BlockSize \in Nat \ {0}

Block == [0..BlockSize-1 -> Byte]

Schemes == {"ZeroPadding", "Pkcs7", "Iso10126", "AnsiX923", "Iso7816", "NoPadding"}

(* Padding::TYPE *)
PadType(P) ==
    CASE P = "ZeroPadding" -> "Ambiguous"
      [] P = "NoPadding" -> "NoPadding"
      [] OTHER -> "Reversible"

Err == -1

-----------------------------------------------------------------------------
(* The block P::pad(block, pos) leaves.  pad panics if pos is not inside   *)
(* the block, or if a count does not fit into a byte; its caller in this   *)
(* repository, into_padded_blocks, passes the length of an incomplete      *)
(* block, and PaddedInOut assumes blocks of at most 255 bytes.             *)
Fill(block, pos, b) == [i \in DOMAIN block |-> IF i >= pos THEN b ELSE block[i]]

Pad(P, block, pos) ==
    CASE P = "ZeroPadding" -> Fill(block, pos, 0)
      [] P \in {"Pkcs7", "Iso10126"} -> Fill(block, pos, (BlockSize - pos) % 256)
      [] P = "AnsiX923" -> [Fill(block, pos, 0) EXCEPT ![BlockSize-1] = (BlockSize - pos) % 256]
      [] P = "Iso7816" -> [Fill(block, pos, 0) EXCEPT ![pos] = 128]
      [] P = "NoPadding" -> block

-----------------------------------------------------------------------------
(* P::unpad(block): the length of the message part, or Err.                *)
ZeroFrom(block, n) == \A i \in n..BlockSize-1 : block[i] = 0

UnpadZeros(block) ==
    CHOOSE n \in 0..BlockSize : ZeroFrom(block, n) /\ (n = 0 \/ block[n-1] # 0)

(* The last byte n counts the padding; the bytes of the padding before it  *)
(* are then compared with `filler`, if the scheme is strict.               *)
UnpadCountedLax(block, strict, filler) ==    \* a bug: never strict
    IF block[BlockSize-1] \in 1..BlockSize THEN BlockSize - block[BlockSize-1] ELSE Err
UnpadCounted(block, strict, filler) ==
    LET n == block[BlockSize-1]
    IN  IF \/ n = 0
           \/ n > BlockSize
           \/ strict /\ \E i \in BlockSize-n..BlockSize-2 : block[i] # filler
        THEN Err
        ELSE BlockSize - n

Delimits(block, n) == block[n] = 128 /\ ZeroFrom(block, n + 1)

UnpadDelimited(block) ==
    IF \E n \in 0..BlockSize-1 : Delimits(block, n)
    THEN CHOOSE n \in 0..BlockSize-1 : Delimits(block, n)
    ELSE Err

Unpad(P, block) ==
    CASE P = "ZeroPadding" -> UnpadZeros(block)
      [] P = "Pkcs7" -> UnpadCounted(block, TRUE, block[BlockSize-1])
      [] P = "Iso10126" -> UnpadCounted(block, FALSE, 0)
      [] P = "AnsiX923" -> UnpadCounted(block, TRUE, 0)
      [] P = "Iso7816" -> UnpadDelimited(block)
      [] P = "NoPadding" -> BlockSize

(* unpad_blocks of n blocks, whose last is `last`: only the last block is  *)
(* looked at, and none of it when there is no padding to find.             *)
UnpadBlocksAll(P, n, last) ==    \* a bug: the last block is counted twice
    LET r == Unpad(P, last)
    IN  IF n = 0 THEN 0 ELSE IF r = Err THEN Err ELSE r + BlockSize * n
UnpadBlocks(P, n, last) ==
    CASE PadType(P) = "NoPadding" -> BlockSize * n
      [] PadType(P) # "NoPadding" /\ n > 0 ->
            LET r == Unpad(P, last)
            IN  IF r = Err THEN Err ELSE r + BlockSize * (n - 1)
      [] PadType(P) = "Ambiguous" /\ n = 0 -> 0
      [] PadType(P) = "Reversible" /\ n = 0 -> Err
=============================================================================
