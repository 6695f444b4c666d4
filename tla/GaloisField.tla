----------------------------- MODULE GaloisField ----------------------------
(***************************************************************************)
(* The elements of GF(2^Bits) as src/src/shamir.rs multiplies them: bit by *)
(* bit, with a reduction after every shift.                                *)
(***************************************************************************)
EXTENDS Integers

CONSTANTS
  Bits,  \* width of a field element; 8 in the code
  POLY   \* the irreducible polynomial, as a number; 0x11B in the code

Field == 0 .. 2 ^ Bits - 1

Bit(b, i) == (b \div 2 ^ i) % 2

\* Exclusive or of numbers of Bits + 1 bits.
Xor(x, y) ==
  LET bits[i \in 0 .. Bits + 1] ==
        IF i = 0 THEN 0 ELSE bits[i - 1] + 2 ^ (i - 1) * ((Bit(x, i - 1) + Bit(y, i - 1)) % 2)
  IN  bits[Bits + 1]

\* a shifted by one bit and reduced.
Double(a) == Xor(2 * a, POLY * Bit(a, Bits - 1))

\* gf_mul: one round per bit of y; the product is truncated to Bits bits.
gf_mul(x, y) ==
  LET a[i \in 0 .. Bits] == IF i = 0 THEN x ELSE Double(a[i - 1])
      acc[i \in 0 .. Bits] ==
        IF i = 0 THEN 0 ELSE Xor(acc[i - 1], a[i - 1] * Bit(y, i - 1))
  IN  acc[Bits] % 2 ^ Bits

\* The polynomial is irreducible: only zero has a multiple that is zero.  Products commute,
\* so that each pair is tried once.
NoZeroDivisors == \A x \in Field \ {0} : \A y \in x .. 2 ^ Bits - 1 : gf_mul(x, y) # 0

ASSUME FieldAssumption ==
  /\ Bits \in Nat \ {0} /\ POLY \in 2 ^ Bits .. 2 ^ (Bits + 1) - 1
  /\ NoZeroDivisors
=============================================================================
