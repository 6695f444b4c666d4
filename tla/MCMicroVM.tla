----------------------------- MODULE MCMicroVM -----------------------------
(***************************************************************************)
(* A small instance of MicroVM for TLC, with the branchless arithmetic of  *)
(* VmAlu, and the opcode table to compare its answers with.                *)
(***************************************************************************)
EXTENDS MicroVM, SequencesExt

CONSTANT Bits

VM == INSTANCE VmAlu

Modulus == 2 ^ Bits
MCWords == 0 .. Modulus - 1
MCAlu(op, a, b) == VM!Compute(op, a, b)
MCNot(a) == VM!Complement(a)

\* Every opcode, and one byte that is none, on a stack of two operands and on
\* an empty one; the longest of them exceed MAX_CODE.
AllCodes ==
  BoundedSeq(0 .. 17, 2)
    \cup {<<5, 9, 5, b>> \o s : b \in {0, 3}, s \in BoundedSeq(0 .. 17, 3)}

\* Push, Pop, Dup, Swap, Rot, Add and an invalid byte, which are also the
\* immediates: longer programs that fill, overflow and empty the stack.
StackCodes == BoundedSeq({5, 6, 7, 8, 14, 1, 17}, 5)

\* One operation on operands at the edges of a word.
Edges == {0, 1, Bits - 1, Bits, Modulus \div 2 - 1, Modulus \div 2, Modulus - 1}
WordCodes == {<<5, a, 5, b, op>> : a, b \in Edges, op \in 1 .. 16 \ {5}}

MCPrograms == AllCodes \cup StackCodes \cup WordCodes

----------------------------------------------------------------------------
(* The opcode table at the head of vm.rs, in plain arithmetic.               *)

\* The word whose bit k is f of bits k of a and b.
Bitwise(f(_, _), a, b) ==
  MapThenSumSet(LAMBDA k : f((a \div 2 ^ k) % 2, (b \div 2 ^ k) % 2) * 2 ^ k,
                0 .. Bits - 1)

MCTable(op, a, b) ==
  CASE op = "Add" -> (a + b) % Modulus
    [] op = "Xor" -> Bitwise(LAMBDA x, y : (x + y) % 2, a, b)
    [] op = "Mul" -> (a * b) % Modulus
    [] op = "Div" -> IF b = 0 THEN 0 ELSE a \div b
    [] op = "And" -> Bitwise(LAMBDA x, y : x * y, a, b)
    [] op = "Or"  -> Bitwise(LAMBDA x, y : x + y - x * y, a, b)
    [] op = "Shl" -> (a * 2 ^ (b % Bits)) % Modulus
    [] op = "Shr" -> a \div 2 ^ (b % Bits)
    [] op = "Eq"  -> IF a = b THEN 1 ELSE 0
    [] op = "Lt"  -> IF a < b THEN 1 ELSE 0
    [] op = "Not" -> Bitwise(LAMBDA x, y : 1 - x, a, a)

\* The branchless formulas compute what the table says, on every pair of words.
ASSUME FormulasAreTheTables == TableAgrees
=============================================================================
