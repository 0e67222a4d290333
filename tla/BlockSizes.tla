----------------------------- MODULE BlockSizes -----------------------------
(***************************************************************************)
(* What the buffers of the block-buffer crate have in common: the size of  *)
(* a block, and the bytes and lengths their callers use.                   *)
(***************************************************************************)
EXTENDS ByteArrays

CONSTANTS
    BlockSize,   \* BS::USIZE; crypto_common::BlockSizes admits U1..U255
    Data,        \* the bytes callers, generators and foreign images use
    MaxInput,    \* bound: longest slice passed to a call
    MaxMsg       \* bound: longest stream between two restarts

ASSUME BlockSizeAssumption == BlockSize \in 1..255
ASSUME DataAssumption == Data \subseteq Byte
ASSUME BoundsAssumption == MaxInput \in Nat /\ MaxMsg \in Nat

Block == [0..BlockSize-1 -> Byte]
=============================================================================
