---------------------------- MODULE BlockStream ----------------------------
(***************************************************************************)
(* What a block buffer promises, without a buffer: a stream arrives in     *)
(* pieces, and at every moment the bytes emitted are the whole blocks of   *)
(* the stream so far, whatever the pieces were.  An eager stream emits a   *)
(* block as soon as it is complete; a lazy one keeps the last block until  *)
(* it is known that more input follows.                                    *)
(***************************************************************************)
EXTENDS Integers, Sequences

CONSTANTS BlockSize, Kind

VARIABLES
    pending,   \* the bytes of the stream that are not emitted yet
    emitted    \* the bytes emitted, a whole number of blocks

(* How many bytes of a stream of n bytes are emitted.                      *)
Cut(n) ==
    IF Kind = "Eager" THEN n - (n % BlockSize)
    ELSE IF n = 0 THEN 0 ELSE (n - 1) - ((n - 1) % BlockSize)

MaxPending == IF Kind = "Eager" THEN BlockSize - 1 ELSE BlockSize

Init == pending = <<>> /\ emitted = <<>>

Stream == emitted \o pending

(* The stream only grows at its end.                                       *)
Grows ==
    /\ Len(Stream) <= Len(Stream')
    /\ SubSeq(Stream', 1, Len(Stream)) = Stream

(* More input: every block it completes is emitted, and no other.          *)
Absorb ==
    /\ Grows
    /\ Len(emitted') = Len(emitted) + Cut(Len(Stream') - Len(emitted))

(* The stream is ended: zeros complete its last block.                     *)
FinishWithZeros ==
    /\ Grows
    /\ pending' = <<>>
    /\ Len(emitted') = Len(emitted) + BlockSize
    /\ \A i \in Len(Stream)+1..Len(Stream') : Stream'[i] = 0

(* An eager stream may also end with a tail of any bytes that completes    *)
(* its last block, or the last two.                                        *)
FinishWithTail ==
    /\ Kind = "Eager"
    /\ Grows
    /\ pending' = <<>>
    /\ Len(emitted') - Len(emitted) \in {BlockSize, 2 * BlockSize}

(* A new stream begins, its first bytes already in the buffer.             *)
Begin ==
    /\ emitted' = <<>>
    /\ Len(pending') <= MaxPending

Next == Absorb \/ FinishWithZeros \/ FinishWithTail \/ Begin

Spec == Init /\ [][Next]_<<pending, emitted>>
=============================================================================
