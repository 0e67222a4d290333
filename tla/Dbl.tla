-------------------------------- MODULE Dbl --------------------------------
(***************************************************************************)
(* dbl: blocks of 8, 16 or 32 bytes as polynomials over GF(2), multiplied  *)
(* or divided by x modulo a fixed polynomial.  The code loads the bytes in *)
(* big-endian order into words of 64 bits and moves one bit from word to   *)
(* word.                                                                   *)
(***************************************************************************)
EXTENDS Words

BlockSizes == {8, 16, 32}
Block(n) == [0..n-1 -> Word(8)]

(* The exponents of C64, C128 and C256.                                    *)
C(n) == CASE n = 8 -> {0, 1, 3, 4} [] n = 16 -> {0, 1, 2, 7} [] n = 32 -> {0, 2, 5, 10}

(* Word j of a block, and the block of n bytes with words val.             *)
from_be_bytes(b, j) == [i \in 0..63 |-> b[8 * j + 7 - i \div 8][i % 8]]
to_be_bytes(val, n) ==
    [p \in 0..n-1 |-> [i \in 0..7 |-> val[p \div 8][8 * (7 - (p % 8)) + i]]]

-----------------------------------------------------------------------------
(* Every word is shifted to the left and gets the top bit of the next one; *)
(* the top bit of the block comes back as C.                               *)
dblWord(b, n, j) ==
    LET last == n \div 8 - 1
        val == from_be_bytes(b, j)
        a == from_be_bytes(b, 0)[63]
    IN  Xor(Shl(val, 1),
            IF j < last THEN Shr(from_be_bytes(b, j + 1), 63)
            ELSE Times(a, BitsSet(64, C(n))))

dbl(b, n) == to_be_bytes([j \in 0..n \div 8 - 1 |-> dblWord(b, n, j)], n)

(* Every word is shifted to the right and gets the low bit of the one      *)
(* before; the low bit of the block comes back as the top bit and C >> 1.  *)
inv_dblWord(b, n, j) ==
    LET last == n \div 8 - 1
        val == from_be_bytes(b, j)
        d == from_be_bytes(b, last)[0]
        top == IF j = 0 THEN Times(d, BitsSet(64, {63}))
               ELSE Shl(And(from_be_bytes(b, j - 1), BitsSet(64, {0})), 63)
    IN  Xor(Xor(Shr(val, 1), top),
            IF j = last THEN Times(d, Shr(BitsSet(64, C(n)), 1)) ELSE BitsSet(64, {}))

inv_dbl(b, n) == to_be_bytes([j \in 0..n \div 8 - 1 |-> inv_dblWord(b, n, j)], n)

-----------------------------------------------------------------------------
(* What the documentation speaks of: the coefficient of x^m in a block of  *)
(* n bytes, the first of which is the most significant.                    *)
Coefficient(b, n, m) ==
    IF m \in 0..8*n-1 THEN b[n - 1 - m \div 8][m % 8] ELSE 0
=============================================================================
