------------------------- MODULE BlockBufferUnwind -------------------------
(***************************************************************************)
(* BlockBuffer with a compression function that may panic, and a caller    *)
(* that catches the unwinding and goes on using the buffer.  Only what was *)
(* written before the call of compress is left behind.                     *)
(***************************************************************************)
EXTENDS BlockBuffer

(* digest_blocks: compress panics on the completed block or on the blocks  *)
(* after it.                                                               *)
DigestUnwinds(input) ==
    LET rem == BlockSize - GetPos
    IN  /\ ~Invariant(Len(input), rem)
        /\ buffer' = IF GetPos # 0 THEN Overwrite(buffer, GetPos, SubSeq(input, 1, rem)) ELSE buffer
        /\ result' = "panic"
        /\ UNCHANGED <<pos, saved, msg, delivered>>

(* digest_pad: compress panics on the first block it is given.             *)
PadUnwinds(delim, suffix) ==
    /\ Kind = "Eager" /\ Len(suffix) <= BlockSize
    /\ buffer' = IF NeedsTwoBlocks(suffix) THEN Delimited(delim) ELSE PadOneBlock(delim, suffix)
    /\ result' = "panic"
    /\ UNCHANGED <<pos, saved, msg, delivered>>

NextOrUnwind ==
    \/ Next
    \/ \E input \in Slices : DigestUnwinds(input)
    \/ \E delim \in Data, suffix \in Slices : PadUnwinds(delim, suffix)

SpecUnwind == Init /\ [][NextOrUnwind]_vars

(* "SAFETY: `pos` never breaks the invariant" (get_pos), also after a      *)
(* caller has caught a panic of the compression function.                  *)
PosSurvivesUnwinding == PosNeverBreaksInvariant
=============================================================================
