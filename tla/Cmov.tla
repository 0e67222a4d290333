-------------------------------- MODULE Cmov --------------------------------
(***************************************************************************)
(* cmov: conditional moves of integers of 8 to 128 bits, decided by a      *)
(* condition of 8 bits.  The portable version computes a mask; the others  *)
(* are a comparison and a conditional instruction.                         *)
(***************************************************************************)
EXTENDS Words

Condition == 0..255
Widths == {8, 16, 32, 64, 128}

(* Modulus stands for 2^64, of which the arithmetic only needs that it is  *)
(* a multiple of 256.                                                      *)
wrapping_neg(c, Modulus) == (Modulus - 1 - c + 1) % Modulus    \* (!c).wrapping_add(1)
BitOf(v, i) == (v \div 2^i) % 2

(* Bit SHIFT_BITS of c | -c; size_of counts bytes, so SHIFT_BITS is 7.     *)
SHIFT_BITS == 7
is_non_zero(c, Modulus) ==
    IF BitOf(c, SHIFT_BITS) = 1 \/ BitOf(wrapping_neg(c, Modulus), SHIFT_BITS) = 1
    THEN 1 ELSE 0

(* x.wrapping_sub(1) of 0 is all ones, of 1 all zeros.                     *)
wrapping_dec(x) == [i \in 0..63 |-> 1 - x]

Masked(self, value, mask) == Or(And(self, mask), And(value, Not(mask)))
cmovz64(self, value, c, Modulus) ==
    Masked(self, value, wrapping_dec(Flip(1, is_non_zero(c, Modulus))))
cmovnz64(self, value, c, Modulus) ==
    Masked(self, value, wrapping_dec(is_non_zero(c, Modulus)))

(* Narrower integers go through u64 and back, u128 in two halves.          *)
Move64(self, value, c, Modulus, z) ==
    IF z THEN cmovz64(self, value, c, Modulus) ELSE cmovnz64(self, value, c, Modulus)
cmov(w, self, value, c, Modulus, z) ==
    LET half(v, k) == Cast(Shr(v, 64 * k), 64)
        moved(k) == Move64(half(self, k), half(value, k), c, Modulus, z)
    IN  IF w = 128
        THEN Or(Cast(moved(0), 128), Shl(Cast(moved(1), 128), 64))
        ELSE Cast(Move64(Cast(self, 64), Cast(value, 64), c, Modulus, z), w)

-----------------------------------------------------------------------------
(* aarch64.  The condition is an u8 operand in a register that is compared *)
(* as 32 or 64 bits; what its upper bits hold is not defined for operands  *)
(* narrower than their register.                                           *)
csel(self, value, c, upper, z) ==
    IF (c + 256 * upper = 0) = z THEN value ELSE self

(* x86: test of the byte register alone.                                   *)
test_cmov(self, value, c, z) == IF (c = 0) = z THEN value ELSE self
=============================================================================
