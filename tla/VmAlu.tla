------------------------------- MODULE VmAlu -------------------------------
(***************************************************************************)
(* The arithmetic of the MicroVM (src/src/execution/vm.rs): the branchless *)
(* machine formulas of `execute` on words of Bits bits (64 in the code),   *)
(* checked against what the opcode table in the module documentation says. *)
(***************************************************************************)
EXTENDS Integers
LOCAL INSTANCE Bitwise

CONSTANT Bits  \* a power of two, as 64 is: Amount relies on it

Word == 2 ^ Bits

Neg(a) == (-a) % Word            \* wrapping_neg
TopBit(a) == a \div 2 ^ (Bits - 1)  \* >> 63

\* (b | b.wrapping_neg()) >> 63
IsNonzero(b) == TopBit(b | Neg(b))

\* Division by b, or by 1 and masked to 0 when b is 0.
Div(a, b) ==
  LET safe_b == b | (1 - IsNonzero(b))
  IN  (a \div safe_b) & ((0 - IsNonzero(b)) % Word)

\* The shift amount keeps the low log2(Bits) bits: b & 63.
Amount(b) == b & (Bits - 1)

Shl(a, b) == (a * 2 ^ Amount(b)) % Word
Shr(a, b) == a \div 2 ^ Amount(b)

Eq(a, b) == IsNonzero(a ^^ b) ^^ 1

\* overflowing_sub: the borrow of a - b.
Lt(a, b) == IF a - b < 0 THEN 1 ELSE 0

Compute(op, a, b) ==
  CASE op = "Add" -> (a + b) % Word
    [] op = "Xor" -> a ^^ b
    [] op = "Mul" -> (a * b) % Word
    [] op = "Div" -> Div(a, b)
    [] op = "And" -> a & b
    [] op = "Or"  -> a | b
    [] op = "Shl" -> Shl(a, b)
    [] op = "Shr" -> Shr(a, b)
    [] op = "Eq"  -> Eq(a, b)
    [] op = "Lt"  -> Lt(a, b)

\* !a
Complement(a) == Word - 1 - a
=============================================================================
