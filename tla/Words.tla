------------------------------- MODULE Words -------------------------------
(***************************************************************************)
(* Rust's unsigned integers as vectors of bits: bit i of a word w is w[i], *)
(* the coefficient of 2^i.                                                 *)
(***************************************************************************)
EXTENDS Integers

Bit == {0, 1}
Word(n) == [0..n-1 -> Bit]

Flip(a, b) == IF a = b THEN 0 ELSE 1    \* the exclusive or of two bits

Xor(v, w) == [i \in DOMAIN v |-> Flip(v[i], w[i])]
Or(v, w)  == [i \in DOMAIN v |-> IF v[i] = 1 \/ w[i] = 1 THEN 1 ELSE 0]
And(v, w) == [i \in DOMAIN v |-> IF v[i] = 1 /\ w[i] = 1 THEN 1 ELSE 0]
Not(v)    == [i \in DOMAIN v |-> 1 - v[i]]

Shl(v, k) == [i \in DOMAIN v |-> IF i - k \in DOMAIN v THEN v[i - k] ELSE 0]
Shr(v, k) == [i \in DOMAIN v |-> IF i + k \in DOMAIN v THEN v[i + k] ELSE 0]

(* The word whose bits are the members of S, and a bit times a word.       *)
BitsSet(n, S) == [i \in 0..n-1 |-> IF i \in S THEN 1 ELSE 0]
Times(a, v)   == [i \in DOMAIN v |-> IF a = 1 THEN v[i] ELSE 0]

(* `as` casts: to a wider type with zeros, to a narrower one without the   *)
(* upper bits.                                                             *)
Cast(v, n) == [i \in 0..n-1 |-> IF i \in DOMAIN v THEN v[i] ELSE 0]
=============================================================================
