----------------------------- MODULE ByteArrays -----------------------------
(***************************************************************************)
(* Byte arrays as the buffer and padding crates use them.  An array is a   *)
(* function on 0..n-1, indexed as in the source; a slice handed from one   *)
(* owner to another is a sequence of bytes.                                *)
(***************************************************************************)
EXTENDS Integers, Sequences

Byte == 0..255

Zeros(n) == [i \in 1..n |-> 0]

(* Slice assignment f[at..at+len].copy_from_slice(s), zeroing of f[a..b],   *)
(* and the bytes of f[a..b] as a slice.                                    *)
Overwrite(f, at, s) ==
    [i \in DOMAIN f |-> IF at <= i /\ i < at + Len(s) THEN s[i - at + 1] ELSE f[i]]
ZeroRange(f, a, b) == [i \in DOMAIN f |-> IF a <= i /\ i < b THEN 0 ELSE f[i]]
Bytes(f, a, b) == [i \in 1..(b - a) |-> f[a + i - 1]]

=============================================================================
