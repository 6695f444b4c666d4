--------------------------- MODULE MicroVMProofs ---------------------------
(***************************************************************************)
(* Theorems about MicroVM, for every set of programs, every stack depth    *)
(* and every arithmetic: the stack pointer stays in bounds, no operand is  *)
(* left behind, every step advances, the trace tells the program, and the  *)
(* answer is the one of the opcode table.                                  *)
(***************************************************************************)
EXTENDS MicroVM, SequenceTheorems, WellFoundedInduction, TLAPS

\* What the accumulator absorbs in one instruction keeps it a sequence of
\* numbers.
LEMMA AbsorbTyped ==
  ASSUME NEW t \in Seq(Nat), NEW x \in Nat, NEW s \in Seq(Nat)
  PROVE  t \o <<x>> \o s \in Seq(Nat)
  OBVIOUS

\* A position inside the code holds a word.
LEMMA CellIsWord ==
  ASSUME NEW c \in Seq(Words), NEW k \in Nat \ {0}, k <= Len(c)
  PROVE  c[k] \in Words /\ c[k] \in Nat
<1>1. c[k] \in Words
  OBVIOUS
<1> QED BY <1>1, MicroVMAssumption

\* Each step keeps the types, and with them 0 <= sp <= Depth: the accesses
\* stack[sp - 1], stack[sp - 2] and stack[sp] of vm.rs never leave the array.
LEMMA TypeStep == TypeOK /\ [MicroVMNext]_vmVars => TypeOK'
<1> SUFFICES ASSUME TypeOK, [MicroVMNext]_vmVars PROVE TypeOK'
  OBVIOUS
<1> USE MicroVMAssumption
<1>a. Blank \in [Slots -> Words]
  BY DEF Blank
<1>b. ASSUME NEW s \in Seq(Nat), NEW w \in {1, 2}, ip <= Len(code), Absorb(w, s)
      PROVE  /\ ip' \in Nat \ {0} /\ trace' \in Seq(Nat)
             /\ status' = status /\ canary' = canary /\ code' = code
             /\ answer' = answer
  BY <1>b, CellIsWord, AbsorbTyped DEF Absorb, TypeOK
<1>c. << >> \in Seq(Nat) /\ 1 \in {1, 2}
  OBVIOUS
<1>d. ASSUME NEW c \in Seq(Words), NEW r \in Seq(Nat), Answer(c, r)
      PROVE  status' = "done" /\ answer' \in [code : Seq(Words), root : Seq(Nat)]
  BY <1>d DEF Answer
<1>e. ZeroRoot \in Seq(Nat) /\ << >> \in Seq(Words)
  BY DEF ZeroRoot
<1>1. ASSUME NEW c \in Canaries, Create(c) PROVE TypeOK'
  BY <1>1, <1>a DEF Create, TypeOK
<1>2. CASE Drop
  BY <1>2, <1>a DEF Drop, TypeOK
<1>3. CASE Execute
  <2>1. PICK c \in Programs : Refuse(c) \/ Enter(c)
    BY <1>3 DEF Execute
  <2>2. c \in Seq(Words)
    OBVIOUS
  <2>3. CASE Refuse(c)
    BY <2>2, <2>3, <1>d, <1>e DEF Refuse, TypeOK
  <2>4. CASE Enter(c)
    BY <2>2, <2>4, <1>a DEF Enter, TypeOK
  <2> QED BY <2>1, <2>3, <2>4
<1>4. CASE Nop
  <2>1. Absorb(1, << >>) /\ ip <= Len(code) /\ UNCHANGED <<stack, sp>>
    BY <1>4 DEF Nop, At
  <2> QED BY <2>1, <1>b, <1>c DEF TypeOK
<1>5. CASE Push
  <2>1. /\ Absorb(2, <<code[ip + 1]>>) /\ ip <= Len(code) /\ sp < Depth
        /\ ip + 1 <= Len(code) /\ sp' = sp + 1
        /\ stack' = [stack EXCEPT ![sp] = code[ip + 1]]
    BY <1>5 DEF Push, At
  <2>2. code[ip + 1] \in Words /\ <<code[ip + 1]>> \in Seq(Nat)
    BY <2>1, CellIsWord DEF TypeOK
  <2>3. stack' \in [Slots -> Words] /\ sp' \in 0 .. Depth
    BY <2>1, <2>2 DEF TypeOK, Slots
  <2> QED BY <2>1, <2>2, <2>3, <1>b DEF TypeOK
<1>6. CASE Pop
  <2>1. /\ Absorb(1, << >>) /\ ip <= Len(code) /\ sp > 0 /\ sp' = sp - 1
        /\ stack' = [stack EXCEPT ![sp - 1] = 0]
    BY <1>6 DEF Pop, At
  <2>2. stack' \in [Slots -> Words] /\ sp' \in 0 .. Depth
    BY <2>1 DEF TypeOK, Slots
  <2> QED BY <2>1, <2>2, <1>b, <1>c DEF TypeOK
<1>7. CASE Dup
  <2>1. /\ Absorb(1, << >>) /\ ip <= Len(code) /\ sp > 0 /\ sp < Depth
        /\ sp' = sp + 1 /\ stack' = [stack EXCEPT ![sp] = stack[sp - 1]]
    BY <1>7 DEF Dup, At
  <2>2. stack' \in [Slots -> Words] /\ sp' \in 0 .. Depth
    BY <2>1 DEF TypeOK, Slots
  <2> QED BY <2>1, <2>2, <1>b, <1>c DEF TypeOK
<1>8. CASE Swap
  <2>1. /\ Absorb(1, << >>) /\ ip <= Len(code) /\ sp >= 2 /\ sp' = sp
        /\ stack' = [stack EXCEPT ![sp - 1] = stack[sp - 2], ![sp - 2] = stack[sp - 1]]
    BY <1>8 DEF Swap, At
  <2>2. sp - 1 \in Slots /\ sp - 2 \in Slots
    BY <2>1 DEF TypeOK, Slots
  <2>3. stack' \in [Slots -> Words]
    BY <2>1, <2>2 DEF TypeOK
  <2> QED BY <2>1, <2>3, <1>b, <1>c DEF TypeOK
<1>9. CASE Rot
  <2>1. Absorb(1, << >>) /\ ip <= Len(code) /\ sp' = sp
    BY <1>9 DEF Rot, At
  <2>2. \A k \in Slots : k < sp - 1 => k + 1 \in Slots
    BY DEF Slots, TypeOK
  <2>3. sp >= 2 => 0 \in Slots
    BY DEF Slots, TypeOK
  <2>4. stack' \in [Slots -> Words]
    BY <1>9, <2>2, <2>3 DEF Rot, TypeOK
  <2> QED BY <2>1, <2>4, <1>b, <1>c DEF TypeOK
<1>10. CASE Binary
  <2> DEFINE result == Alu(Op, stack[sp - 2], stack[sp - 1])
  <2>1. /\ Absorb(1, <<result>>) /\ ip <= Len(code) /\ sp >= 2 /\ sp' = sp - 1
        /\ stack' = [stack EXCEPT ![sp - 1] = 0, ![sp - 2] = result]
        /\ Op \in BinaryOps
    BY <1>10 DEF Binary, At
  <2>2. stack[sp - 2] \in Words /\ stack[sp - 1] \in Words
    BY <2>1 DEF TypeOK, Slots
  <2>3. result \in Words
    BY <2>1, <2>2, AluAssumption
  <2> HIDE DEF result
  <2>4. stack' \in [Slots -> Words]
    BY <2>1, <2>3 DEF TypeOK, Slots
  <2>5. sp' \in 0 .. Depth /\ <<result>> \in Seq(Nat)
    BY <2>1, <2>3 DEF TypeOK
  <2> QED BY <2>1, <2>4, <2>5, <1>b DEF TypeOK
<1>11. CASE Not
  <2> DEFINE result == VmNot(stack[sp - 1])
  <2>1. /\ Absorb(1, <<result>>) /\ ip <= Len(code) /\ sp > 0 /\ sp' = sp
        /\ stack' = [stack EXCEPT ![sp - 1] = result]
    BY <1>11 DEF Not, At
  <2>2. stack[sp - 1] \in Words
    BY <2>1 DEF TypeOK, Slots
  <2>3. result \in Words
    BY <2>2, AluAssumption
  <2> HIDE DEF result
  <2>4. stack' \in [Slots -> Words] /\ <<result>> \in Seq(Nat)
    BY <2>1, <2>3 DEF TypeOK, Slots
  <2> QED BY <2>1, <2>4, <1>b DEF TypeOK
<1>12. ASSUME NEW r \in Seq(Nat), Leave(r) PROVE TypeOK'
  BY <1>12, <1>a, <1>d, <1>c, <1>e DEF Leave, TypeOK
<1>13. CASE Trap
  BY <1>13, <1>12, <1>e DEF Trap
<1>14. CASE Finish
  <2>1. Append(trace, sp) \in Seq(Nat)
    BY DEF TypeOK
  <2>2. (IF Damaged THEN ZeroRoot ELSE Append(trace, sp)) \in Seq(Nat)
    BY <2>1, <1>e
  <2> QED BY <1>14, <1>12, <2>2 DEF Finish
<1>15. CASE Take
  BY <1>15, <1>e DEF Take, NoAnswer, TypeOK
<1>16. CASE UNCHANGED vmVars
  BY <1>16 DEF vmVars, TypeOK
<1> QED
  BY <1>1, <1>2, <1>3, <1>4, <1>5, <1>6, <1>7, <1>8, <1>9, <1>10, <1>11,
     <1>13, <1>14, <1>15, <1>16 DEF MicroVMNext, Instruction

LEMMA TypeInit == MicroVMInit => TypeOK
  BY MicroVMAssumption DEF MicroVMInit, TypeOK, Blank, ZeroRoot, NoAnswer

\* No instruction leaves a value at or above the stack pointer it sets, and
\* every way out of execute clears the stack.
LEMMA CleanStep == TypeOK /\ NoStaleSlots /\ [MicroVMNext]_vmVars => NoStaleSlots'
<1> SUFFICES ASSUME TypeOK, NoStaleSlots, [MicroVMNext]_vmVars PROVE NoStaleSlots'
  OBVIOUS
<1> USE DEF NoStaleSlots, TypeOK, Slots
<1>a. \A k \in Slots : Blank[k] = 0
  BY DEF Blank
<1>1. ASSUME NEW c \in Canaries, Create(c) PROVE NoStaleSlots'
  BY <1>1, <1>a DEF Create
<1>2. CASE Drop
  BY <1>2, <1>a DEF Drop
<1>3. CASE Execute
  BY <1>3, <1>a DEF Execute, Refuse, Enter, Answer
<1>4. CASE Nop
  BY <1>4 DEF Nop, At, Absorb
<1>5. CASE Push
  BY <1>5 DEF Push, At, Absorb
<1>6. CASE Pop
  BY <1>6 DEF Pop, At, Absorb
<1>7. CASE Dup
  BY <1>7 DEF Dup, At, Absorb
<1>8. CASE Swap
  BY <1>8 DEF Swap, At, Absorb
<1>9. CASE Rot
  BY <1>9 DEF Rot, At, Absorb
<1>10. CASE Binary
  BY <1>10, SMTT(30) DEF Binary, At, Absorb
<1>11. CASE Not
  BY <1>11 DEF Not, At, Absorb
<1>12. CASE Trap
  BY <1>12, <1>a DEF Trap, Leave, Answer
<1>13. CASE Finish
  BY <1>13, <1>a DEF Finish, Leave, Answer
<1>14. CASE Take
  BY <1>14 DEF Take
<1>15. CASE UNCHANGED vmVars
  BY <1>15 DEF vmVars
<1> QED
  BY <1>1, <1>2, <1>3, <1>4, <1>5, <1>6, <1>7, <1>8, <1>9, <1>10, <1>11,
     <1>12, <1>13, <1>14, <1>15 DEF MicroVMNext, Instruction

LEMMA CleanInit == MicroVMInit => NoStaleSlots
  BY DEF MicroVMInit, NoStaleSlots, Blank

----------------------------------------------------------------------------
\* Type correctness: in particular the operand stack is never indexed outside
\* 0 .. Depth-1 by push, pop and the stack instructions.
THEOREM TypeCorrect == MicroVMSpec => []TypeOK
  BY TypeInit, TypeStep, PTL DEF MicroVMSpec

\* Operands are wiped: whatever the programs and however execute returns, the
\* stack is zero above sp and entirely zero between calls.
THEOREM NothingIsLeftBehind == MicroVMSpec => []NoStaleSlots
  BY TypeInit, TypeStep, CleanInit, CleanStep, PTL DEF MicroVMSpec

\* Termination argument of the interpreter loop: a step that stays inside
\* execute moves ip forward in the same code.
THEOREM StepsAdvance == MicroVMSpec => EveryStepAdvances
<1>1. TypeOK /\ [MicroVMNext]_vmVars =>
        [status = "running" /\ status' = "running" => ip' > ip /\ code' = code]_vmVars
  <2> SUFFICES ASSUME TypeOK, MicroVMNext, status = "running", status' = "running"
               PROVE  ip' > ip /\ code' = code
    OBVIOUS
  <2>1. Instruction
    BY DEF MicroVMNext, Create, Drop, Execute, Take, Trap, Finish, Leave, Answer
  <2>2. \E w \in {1, 2} : \E s : Absorb(w, s)
    BY <2>1 DEF Instruction, Nop, Push, Pop, Dup, Swap, Rot, Binary, Not
  <2> QED BY <2>2 DEF Absorb, TypeOK
<1> QED BY <1>1, TypeCorrect, PTL DEF MicroVMSpec, EveryStepAdvances

----------------------------------------------------------------------------
(* Induction                                                               *)

LEMMA Least ==
  ASSUME NEW T \in SUBSET Nat, T # {}
  PROVE  \E x \in T : \A y \in T : x <= y
<1> DEFINE R == {p \in Nat \X Nat : p[1] < p[2]}
<1>1. IsWellFoundedOn(R, Nat)
  BY NatLessThanWellFounded DEF OpToRel
<1> HIDE DEF R
<1>2. PICK x \in T : \A y \in T : ~(<<y, x>> \in R)
  BY <1>1, WFMin
<1>3. ASSUME NEW y \in T PROVE x <= y
  <2>1. y \in Nat /\ x \in Nat
    OBVIOUS
  <2>2. y < x => <<y, x>> \in R
    BY <2>1 DEF R
  <2> QED BY <1>2, <2>1, <2>2
<1> QED BY <1>3

LEMMA Induction ==
  ASSUME NEW S, 0 \in S, \A k \in Nat : k \in S => k + 1 \in S
  PROVE  \A k \in Nat : k \in S
<1> DEFINE T == {k \in Nat : k \notin S}
<1>1. SUFFICES ASSUME T # {} PROVE FALSE
  OBVIOUS
<1>2. PICK x \in T : \A y \in T : x <= y
  BY <1>1, Least
<1>3. x # 0 /\ x \in Nat /\ x - 1 \in Nat /\ x - 1 \notin T
  BY <1>2
<1>4. x - 1 + 1 \in S
  BY <1>3
<1> QED BY <1>4, <1>3

----------------------------------------------------------------------------
(* The trace tells the code                                                *)

Computes == BinaryOps \cup {"Not"}

\* The trace t was absorbed from the code c up to position p, by n instructions: K[j] is
\* where the j-th one begins in t, and P[j] where it begins in c.
Parsed(t, c, p, n, K, P) ==
  /\ n \in Nat /\ K[0] = 1 /\ P[0] = 1 /\ K[n] = Len(t) + 1 /\ P[n] = p
  /\ \A j \in 0 .. n : K[j] \in 1 .. Len(t) + 1 /\ P[j] \in 1 .. Len(c) + 1
  /\ \A j \in 0 .. n - 1 :
       /\ K[j] <= Len(t) /\ P[j] <= Len(c) /\ t[K[j]] = c[P[j]]
       /\ from_u8(c[P[j]]) = "Push" =>
            /\ K[j + 1] = K[j] + 2 /\ P[j + 1] = P[j] + 2
            /\ P[j] + 1 <= Len(c) /\ t[K[j] + 1] = c[P[j] + 1]
       /\ from_u8(c[P[j]]) \in Computes => K[j + 1] = K[j] + 2 /\ P[j + 1] = P[j] + 1
       /\ from_u8(c[P[j]]) \notin Computes \cup {"Push"} =>
            K[j + 1] = K[j] + 1 /\ P[j + 1] = P[j] + 1

\* What an instruction appends to the trace after its opcode.
Appends(c, p, s, w) ==
  \/ /\ from_u8(c[p]) = "Push" /\ w = 2 /\ p + 1 <= Len(c) /\ s = <<c[p + 1]>>
  \/ /\ from_u8(c[p]) \in Computes /\ w = 1 /\ s \in Seq(Nat) /\ Len(s) = 1
  \/ /\ from_u8(c[p]) \notin Computes \cup {"Push"} /\ w = 1 /\ s = << >>

LEMMA Concatenated ==
  ASSUME NEW a \in Seq(Nat), NEW b \in Seq(Nat)
  PROVE  /\ a \o b \in Seq(Nat) /\ Len(a \o b) = Len(a) + Len(b)
         /\ \A k \in 1 .. Len(a) : (a \o b)[k] = a[k]
         /\ \A k \in 1 .. Len(b) : (a \o b)[Len(a) + k] = b[k]
  OBVIOUS

LEMMA ParsedGrows ==
  ASSUME NEW t \in Seq(Nat), NEW c \in Seq(Nat), NEW p, NEW n, NEW K, NEW P,
         Parsed(t, c, p, n, K, P), p <= Len(c), NEW s, NEW w, Appends(c, p, s, w)
  PROVE  \E J, Q : Parsed(t \o <<c[p]>> \o s, c, p + w, n + 1, J, Q)
<1> DEFINE u == t \o <<c[p]>> \o s
           J == [j \in 0 .. n + 1 |-> IF j = n + 1 THEN Len(u) + 1 ELSE K[j]]
           Q == [j \in 0 .. n + 1 |-> IF j = n + 1 THEN p + w ELSE P[j]]
           N == Len(t)
<1>1. n \in Nat /\ p \in 1 .. Len(c) /\ Len(c) \in Nat /\ N \in Nat /\ c[p] \in Nat
  BY DEF Parsed
<1>2. s \in Seq(Nat) /\ <<c[p]>> \in Seq(Nat) /\ Len(<<c[p]>>) = 1
  <2>1. CASE from_u8(c[p]) = "Push" /\ p + 1 <= Len(c) /\ s = <<c[p + 1]>>
    BY <1>1, <2>1
  <2>2. CASE s = << >>
    BY <1>1, <2>2
  <2>3. CASE s \in Seq(Nat)
    BY <1>1, <2>3
  <2> QED BY <2>1, <2>2, <2>3 DEF Appends
<1>3. /\ u \in Seq(Nat) /\ Len(u) = N + 1 + Len(s) /\ Len(s) \in Nat
      /\ u[N + 1] = c[p] /\ \A k \in 1 .. N : u[k] = t[k]
      /\ \A k \in 1 .. Len(s) : u[N + 1 + k] = s[k]
  <2> DEFINE v == t \o <<c[p]>>
  <2>1. /\ v \in Seq(Nat) /\ Len(v) = N + 1 /\ v[N + 1] = c[p]
        /\ \A k \in 1 .. N : v[k] = t[k]
    BY <1>1, <1>2
  <2> HIDE DEF v
  <2>2. /\ v \o s \in Seq(Nat) /\ Len(v \o s) = N + 1 + Len(s) /\ Len(s) \in Nat
        /\ \A k \in 1 .. N + 1 : (v \o s)[k] = v[k]
        /\ \A k \in 1 .. Len(s) : (v \o s)[N + 1 + k] = s[k]
    <3>1. Len(s) \in Nat
      BY <1>2
    <3>2. /\ v \o s \in Seq(Nat) /\ Len(v \o s) = Len(v) + Len(s)
          /\ \A k \in 1 .. Len(v) : (v \o s)[k] = v[k]
          /\ \A k \in 1 .. Len(s) : (v \o s)[Len(v) + k] = s[k]
      BY <1>2, <2>1, Concatenated
    <3> DEFINE z == v \o s
    <3> HIDE DEF z
    <3>3. /\ z \in Seq(Nat) /\ Len(z) = N + 1 + Len(s)
          /\ \A k \in 1 .. N + 1 : z[k] = v[k]
          /\ \A k \in 1 .. Len(s) : z[N + 1 + k] = s[k]
      BY <2>1, <3>2 DEF z
    <3> QED BY <3>1, <3>3 DEF z
  <2>3. N + 1 \in 1 .. N + 1 /\ \A k \in 1 .. N : k \in 1 .. N + 1
    BY <1>1
  <2>4. u = v \o s
    BY DEF v
  <2> HIDE DEF u
  <2> QED BY <2>1, <2>2, <2>3, <2>4
<1>0. Len(u) \in Nat /\ N < Len(u)
  <2> HIDE DEF u
  <2>1. Len(u) = N + 1 + Len(s) /\ Len(s) \in Nat
    BY <1>3
  <2> QED BY <1>1, <2>1
<1>4. /\ J[n + 1] = Len(u) + 1 /\ Q[n + 1] = p + w
      /\ \A j \in 0 .. n : J[j] = K[j] /\ Q[j] = P[j]
  BY <1>1
<1> HIDE DEF u, J, Q
<1>5. K[n] = N + 1 /\ P[n] = p /\ n \in 0 .. n
  BY <1>1 DEF Parsed
<1>6. w \in Nat /\ p + w \in 1 .. Len(c) + 1
  BY <1>1, SMTT(30) DEF Appends
<1>7. ASSUME NEW j \in 0 .. n + 1 PROVE J[j] \in 1 .. Len(u) + 1 /\ Q[j] \in 1 .. Len(c) + 1
  <2>1. CASE j = n + 1
    BY <1>0, <1>4, <1>6, <2>1
  <2>2. CASE j \in 0 .. n
    <3>1. K[j] \in 1 .. N + 1 /\ P[j] \in 1 .. Len(c) + 1
      BY <2>2 DEF Parsed
    <3> QED BY <1>0, <1>1, <1>4, <2>2, <3>1, SMTT(30)
  <2> QED BY <1>1, <2>1, <2>2
<1> DEFINE Good(j) ==
             /\ J[j] <= Len(u) /\ Q[j] <= Len(c) /\ u[J[j]] = c[Q[j]]
             /\ from_u8(c[Q[j]]) = "Push" =>
                  /\ J[j + 1] = J[j] + 2 /\ Q[j + 1] = Q[j] + 2
                  /\ Q[j] + 1 <= Len(c) /\ u[J[j] + 1] = c[Q[j] + 1]
             /\ from_u8(c[Q[j]]) \in Computes => J[j + 1] = J[j] + 2 /\ Q[j + 1] = Q[j] + 1
             /\ from_u8(c[Q[j]]) \notin Computes \cup {"Push"} =>
                  J[j + 1] = J[j] + 1 /\ Q[j + 1] = Q[j] + 1
<1>8. Good(n)
  <2>1. J[n] = N + 1 /\ Q[n] = p /\ J[n + 1] = Len(u) + 1 /\ Q[n + 1] = p + w
    BY <1>4, <1>5
  <2>2. "Push" \notin Computes
    BY DEF Computes, BinaryOps
  <2>3. CASE from_u8(c[p]) = "Push" /\ w = 2 /\ p + 1 <= Len(c) /\ s = <<c[p + 1]>>
    <3>1. Len(s) = 1 /\ s[1] = c[p + 1]
      BY <2>3
    <3>2. u[N + 1 + 1] = c[p + 1]
      BY <1>3, <3>1
    <3>3. N + 1 + 1 + 1 = N + 1 + 2
      BY <1>1
    <3> QED BY <1>1, <1>3, <2>1, <2>2, <2>3, <3>1, <3>2, <3>3
  <2>4. CASE from_u8(c[p]) \in Computes /\ w = 1 /\ s \in Seq(Nat) /\ Len(s) = 1
    BY <1>1, <1>3, <2>1, <2>2, <2>4
  <2>5. CASE from_u8(c[p]) \notin Computes \cup {"Push"} /\ w = 1 /\ s = << >>
    BY <1>1, <1>3, <2>1, <2>5
  <2> QED BY <2>3, <2>4, <2>5 DEF Appends
<1>9. ASSUME NEW j \in 0 .. n - 1 PROVE Good(j)
  <2>1. j \in 0 .. n /\ j + 1 \in 0 .. n
    BY <1>1
  <2>2. J[j] = K[j] /\ Q[j] = P[j] /\ J[j + 1] = K[j + 1] /\ Q[j + 1] = P[j + 1]
    BY <1>4, <2>1
  <2>3. K[j] \in 1 .. N /\ K[j + 1] \in 1 .. N + 1
    BY <1>1, <2>1 DEF Parsed
  <2>4. u[K[j]] = t[K[j]] /\ (K[j + 1] = K[j] + 2 => u[K[j] + 1] = t[K[j] + 1])
    <3>0. \A x \in 1 .. N, y \in 1 .. N + 1 : y = x + 2 => x + 1 \in 1 .. N
      BY <1>1
    <3>1. K[j + 1] = K[j] + 2 => K[j] + 1 \in 1 .. N
      BY <2>3, <3>0
    <3> QED BY <1>3, <2>3, <3>1
  <2>5. K[j] <= Len(u)
    BY <1>0, <1>1, <2>3
  <2> QED BY <2>2, <2>4, <2>5 DEF Parsed
<1>10. \A j \in 0 .. (n + 1) - 1 : Good(j)
  <2>1. \A j \in 0 .. (n + 1) - 1 : j = n \/ j \in 0 .. n - 1
    BY <1>1
  <2> HIDE DEF Good
  <2> QED BY <1>8, <1>9, <2>1
<1>11. J[0] = 1 /\ Q[0] = 1
  <2>1. 0 \in 0 .. n
    BY <1>1
  <2> QED BY <1>4, <2>1 DEF Parsed
<1>12. Parsed(u, c, p + w, n + 1, J, Q)
  BY <1>1, <1>4, <1>7, <1>10, <1>11 DEF Parsed
<1> QED BY <1>12 DEF u

\* One step of CodeOf: f is what the positions after k of the trace t stand for.
Decoded(t, f, k) ==
  IF k >= Len(t) THEN << >>
  ELSE LET op == from_u8(t[k])
       IN  CASE op = "Push" -> <<t[k], t[k + 1]>> \o f[k + 2]
             [] op \in BinaryOps \cup {"Not"} -> <<t[k]>> \o f[k + 2]
             [] OTHER -> <<t[k]>> \o f[k + 1]

LEMMA DecodedLooksAhead ==
  ASSUME NEW t, NEW f, NEW g, NEW k,
         ~(k >= Len(t)) => f[k + 1] = g[k + 1] /\ f[k + 2] = g[k + 2]
  PROVE  Decoded(t, f, k) = Decoded(t, g, k)
<1>1. CASE k >= Len(t)
  BY <1>1 DEF Decoded
<1>2. CASE ~(k >= Len(t))
  BY <1>2 DEF Decoded
<1> QED BY <1>1, <1>2

\* The recursion of CodeOf has a solution: it looks ahead only, and the trace is finite.
LEMMA DecodingExists ==
  ASSUME NEW t, Len(t) \in Nat
  PROVE  \E f : f = [k \in 1 .. Len(t) + 1 |-> Decoded(t, f, k)]
<1> DEFINE L == Len(t)
           Good(m, f) == \A k \in 1 .. L + 1 : k > L - m => f[k] = Decoded(t, f, k)
           S == {m \in Nat : \E f : Good(m, f)}
<1>1. 0 \in S
  <2> DEFINE f == [k \in 1 .. L + 1 |-> << >>]
  <2>1. ASSUME NEW k \in 1 .. L + 1, k > L - 0 PROVE f[k] = Decoded(t, f, k)
    BY <2>1 DEF Decoded
  <2>2. Good(0, f)
    BY <2>1
  <2> QED BY <2>2
<1>2. ASSUME NEW m \in Nat, m \in S PROVE m + 1 \in S
  <2>1. PICK f : Good(m, f)
    BY <1>2
  <2> DEFINE h == L - m
             g == [k \in 1 .. L + 1 |-> IF k = h THEN Decoded(t, f, k) ELSE f[k]]
  <2>2. ASSUME NEW k \in 1 .. L + 1, k > L - (m + 1) PROVE g[k] = Decoded(t, g, k)
    <3>1. k + 1 > h /\ k + 2 > h /\ (k = h \/ k > L - m)
      BY <2>2
    <3>2. ~(k >= L) => k + 1 \in 1 .. L + 1 /\ k + 2 \in 1 .. L + 1
      OBVIOUS
    <3>3. ~(k >= L) => f[k + 1] = g[k + 1] /\ f[k + 2] = g[k + 2]
      BY <3>1, <3>2
    <3>4. Decoded(t, f, k) = Decoded(t, g, k)
      BY <3>3, DecodedLooksAhead
    <3>5. g[k] = Decoded(t, f, k)
      BY <2>1, <3>1
    <3> QED BY <3>4, <3>5
  <2> HIDE DEF g
  <2>3. Good(m + 1, g)
    BY <2>2
  <2> QED BY <2>3
<1>3. L \in S
  <2> HIDE DEF S
  <2>1. \A m \in Nat : m \in S
    BY <1>1, <1>2, Induction
  <2> QED BY <2>1
<1>4. PICK f : Good(L, f)
  BY <1>3
<1> DEFINE g == [k \in 1 .. L + 1 |-> f[k]]
<1>5. ASSUME NEW k \in 1 .. L + 1 PROVE g[k] = Decoded(t, g, k)
  <2>1. ~(k >= L) => k + 1 \in 1 .. L + 1 /\ k + 2 \in 1 .. L + 1
    OBVIOUS
  <2>2. ~(k >= L) => f[k + 1] = g[k + 1] /\ f[k + 2] = g[k + 2]
    BY <2>1
  <2>3. Decoded(t, f, k) = Decoded(t, g, k)
    BY <2>2, DecodedLooksAhead
  <2> QED BY <1>4, <2>3
<1>6. g = [k \in 1 .. L + 1 |-> Decoded(t, g, k)]
  <2>1. g = [k \in 1 .. L + 1 |-> g[k]]
    OBVIOUS
  <2> HIDE DEF g
  <2> QED BY <1>5, <2>1
<1> QED BY <1>6

\* What the recursion computes at each position, and that CodeOf is its value at the first.
LEMMA CodeIsDecoded ==
  ASSUME NEW t, Len(t) \in Nat
  PROVE  \E f : CodeOf(t) = f[1] /\ \A k \in 1 .. Len(t) + 1 : f[k] = Decoded(t, f, k)
<1> DEFINE eq(f) == f = [k \in 1 .. Len(t) + 1 |-> Decoded(t, f, k)]
           from == CHOOSE f : eq(f)
<1>1. CodeOf(t) = from[1]
  BY DEF CodeOf, Decoded
<1>2. \E f : eq(f)
  BY DecodingExists
<1>3. eq(from)
  BY <1>2
<1> HIDE DEF from
<1>4. \A k \in 1 .. Len(t) + 1 : from[k] = Decoded(t, from, k)
  <2> DEFINE D(k) == Decoded(t, from, k)
  <2>1. from = [k \in 1 .. Len(t) + 1 |-> D(k)]
    BY <1>3
  <2> HIDE DEF D
  <2>2. \A k \in 1 .. Len(t) + 1 : from[k] = D(k)
    BY <2>1
  <2> QED BY <2>2 DEF D
<1> QED BY <1>1, <1>4

\* The rest of a code, one or two cells at a time.
LEMMA RestOfCode ==
  ASSUME NEW c \in Seq(Nat), NEW p \in 1 .. Len(c)
  PROVE  /\ SubSeq(c, p, Len(c)) = <<c[p]>> \o SubSeq(c, p + 1, Len(c))
         /\ p + 1 <= Len(c) =>
              SubSeq(c, p, Len(c)) = <<c[p], c[p + 1]>> \o SubSeq(c, p + 2, Len(c))
<1> DEFINE L == Len(c)
           Sub(q) == SubSeq(c, q, L)
<1>1. L \in Nat /\ c[p] \in Nat
  OBVIOUS
<1>2. ASSUME NEW q \in 1 .. L + 1
      PROVE  /\ Sub(q) \in Seq(Nat) /\ Len(Sub(q)) = L - q + 1
             /\ \A i \in 1 .. L - q + 1 : Sub(q)[i] = c[q + i - 1]
  BY <1>1
<1>3. ASSUME NEW h \in Seq(Nat), Len(h) \in 1 .. L - p + 1,
             \A i \in 1 .. Len(h) : h[i] = c[p + i - 1]
      PROVE  Sub(p) = h \o Sub(p + Len(h))
  <2> DEFINE q == p + Len(h)
             z == h \o Sub(q)
  <2>1. q \in 1 .. L + 1 /\ p \in 1 .. L + 1 /\ Len(h) \in Nat
    BY <1>1, <1>3
  <2>2. Sub(q) \in Seq(Nat) /\ Len(Sub(q)) = L - q + 1
    BY <1>2, <2>1
  <2> HIDE DEF Sub
  <2>3. /\ z \in Seq(Nat) /\ Len(z) = L - p + 1
        /\ \A i \in 1 .. Len(h) : z[i] = h[i]
        /\ \A i \in 1 .. Len(Sub(q)) : z[Len(h) + i] = Sub(q)[i]
    BY <1>1, <2>1, <2>2, Concatenated
  <2> HIDE DEF z
  <2>4. ASSUME NEW i \in 1 .. L - p + 1 PROVE z[i] = Sub(p)[i]
    <3>1. Sub(p)[i] = c[p + i - 1]
      BY <1>2, <2>1
    <3>2. CASE i <= Len(h)
      BY <1>1, <1>3, <2>1, <2>3, <3>1, <3>2
    <3>3. CASE i > Len(h)
      <4>1. PICK k \in 1 .. L - q + 1 : i = Len(h) + k
        <5>1. i - Len(h) \in 1 .. L - q + 1 /\ i = Len(h) + (i - Len(h))
          BY <1>1, <2>1, <3>3
        <5> QED BY <5>1
      <4>2. z[i] = Sub(q)[k]
        BY <2>2, <2>3, <4>1
      <4>3. Sub(q)[k] = c[q + k - 1]
        BY <1>2, <2>1
      <4>4. q + k - 1 = p + i - 1
        BY <1>1, <2>1, <4>1
      <4> QED BY <3>1, <4>2, <4>3, <4>4
    <3> QED BY <1>1, <2>1, <3>2, <3>3
  <2>5. Sub(p) \in Seq(Nat) /\ Len(Sub(p)) = L - p + 1
    BY <1>2, <2>1
  <2>6. z = Sub(p)
    BY <2>3, <2>4, <2>5, SeqEqual
  <2> QED BY <2>6 DEF z
<1>4. Sub(p) = <<c[p]>> \o Sub(p + 1)
  <2> DEFINE h == <<c[p]>>
  <2>1. h \in Seq(Nat) /\ Len(h) = 1 /\ Len(h) \in 1 .. L - p + 1 /\ h[1] = c[p]
    BY <1>1
  <2>2. \A i \in 1 .. Len(h) : h[i] = c[p + i - 1]
    BY <1>1, <2>1
  <2> HIDE DEF h, Sub
  <2>3. Sub(p) = h \o Sub(p + Len(h))
    BY <1>3, <2>1, <2>2
  <2> QED BY <2>1, <2>3 DEF h
<1>5. ASSUME p + 1 <= L PROVE Sub(p) = <<c[p], c[p + 1]>> \o Sub(p + 2)
  <2> DEFINE h == <<c[p], c[p + 1]>>
  <2>1. /\ h \in Seq(Nat) /\ Len(h) = 2 /\ Len(h) \in 1 .. L - p + 1
        /\ h[1] = c[p] /\ h[2] = c[p + 1]
    BY <1>1, <1>5
  <2>2. \A i \in 1 .. Len(h) : h[i] = c[p + i - 1]
    <3>1. p + 1 - 1 = p /\ p + 2 - 1 = p + 1 /\ 1 .. 2 = {1, 2}
      BY <1>1
    <3> HIDE DEF h
    <3> QED BY <2>1, <3>1
  <2> HIDE DEF h, Sub
  <2>3. Sub(p) = h \o Sub(p + Len(h))
    BY <1>3, <2>1, <2>2
  <2> QED BY <2>1, <2>3 DEF h
<1> QED BY <1>4, <1>5

\* From the end of the trace to its beginning, the decoding is the rest of the code.
LEMMA CodeRead ==
  ASSUME NEW t \in Seq(Nat), NEW c \in Seq(Nat), NEW d \in Nat, NEW n, NEW K, NEW P,
         Parsed(t, c, Len(c) + 1, n, K, P)
  PROVE  CodeOf(Append(t, d)) = c
<1> DEFINE T == Append(t, d)
           L == Len(c)
           N == Len(t)
<1>1. n \in Nat /\ L \in Nat /\ N \in Nat
  BY DEF Parsed
<1>2. Len(T) = N + 1 /\ \A k \in 1 .. N : T[k] = t[k]
  OBVIOUS
<1> HIDE DEF T
<1>3. PICK f : CodeOf(T) = f[1] /\ \A k \in 1 .. Len(T) + 1 : f[k] = Decoded(T, f, k)
  BY <1>1, <1>2, CodeIsDecoded
<1> DEFINE Sub(q) == SubSeq(c, q, L)
           S == {m \in Nat : m <= n => f[K[n - m]] = Sub(P[n - m])}
<1>4. 0 \in S
  <2>1. K[n] = N + 1 /\ P[n] = L + 1 /\ n - 0 = n
    BY <1>1 DEF Parsed
  <2>2. f[N + 1] = Decoded(T, f, N + 1)
    BY <1>1, <1>2, <1>3
  <2>3. Decoded(T, f, N + 1) = << >>
    BY <1>1, <1>2 DEF Decoded
  <2>4. Sub(L + 1) = << >>
    BY <1>1
  <2> QED BY <2>1, <2>2, <2>3, <2>4
<1>5. ASSUME NEW m \in Nat, m \in S PROVE m + 1 \in S
  <2>1. SUFFICES ASSUME m + 1 <= n PROVE f[K[n - (m + 1)]] = Sub(P[n - (m + 1)])
    OBVIOUS
  <2> DEFINE j == n - (m + 1)
             k == K[j]
             p == P[j]
             op == from_u8(c[p])
  <2>2. j \in 0 .. n - 1 /\ j + 1 = n - m /\ j \in 0 .. n /\ m <= n
    BY <1>1, <2>1
  <2>3. f[K[j + 1]] = Sub(P[j + 1])
    BY <1>5, <2>2
  <2>4. /\ k \in 1 .. N /\ p \in 1 .. L /\ t[k] = c[p]
    <3>1. k \in 1 .. N + 1 /\ p \in 1 .. L + 1 /\ k <= N /\ p <= L /\ t[k] = c[p]
      BY <2>2, Zenon DEF Parsed
    <3> HIDE DEF k, p, j, N, L
    <3> QED BY <1>1, <3>1
  <2>5. /\ op = "Push" => /\ K[j + 1] = k + 2 /\ P[j + 1] = p + 2
                          /\ p + 1 <= L /\ t[k + 1] = c[p + 1]
        /\ op \in Computes => K[j + 1] = k + 2 /\ P[j + 1] = p + 1
        /\ op \notin Computes \cup {"Push"} => K[j + 1] = k + 1 /\ P[j + 1] = p + 1
    BY <2>2 DEF Parsed
  <2>6. op = "Push" => k + 1 \in 1 .. N
    <3>1. K[j + 1] \in 1 .. N + 1
      BY <2>2 DEF Parsed
    <3>2. \A x \in 1 .. N, y \in 1 .. N + 1 : y = x + 2 => x + 1 \in 1 .. N
      BY <1>1
    <3> QED BY <2>4, <2>5, <3>1, <3>2
  <2>7. f[k] = Decoded(T, f, k) /\ ~(k >= Len(T)) /\ T[k] = c[p]
    <3>1. \A x \in 1 .. N : x \in 1 .. N + 1 + 1 /\ ~(x >= N + 1)
      BY <1>1
    <3>2. k \in 1 .. Len(T) + 1 /\ ~(k >= Len(T))
      BY <1>2, <2>4, <3>1
    <3> QED BY <1>2, <1>3, <2>4, <3>2
  <2>8. "Push" \notin Computes
    BY DEF Computes, BinaryOps
  <2> HIDE DEF k, p, j
  <2>9. CASE op = "Push"
    <3>1. T[k + 1] = c[p + 1]
      BY <1>2, <2>5, <2>6, <2>9
    <3>2. f[k] = <<c[p], c[p + 1]>> \o f[k + 2]
      BY <2>7, <2>9, <3>1 DEF Decoded, BinaryOps
    <3>3. Sub(p) = <<c[p], c[p + 1]>> \o Sub(p + 2)
      BY <2>4, <2>5, <2>9, RestOfCode
    <3> HIDE DEF Sub
    <3>4. f[k + 2] = Sub(p + 2)
      BY <2>3, <2>5, <2>9
    <3>5. f[k] = Sub(p)
      BY <3>2, <3>3, <3>4
    <3> QED BY <3>5 DEF k, p, j
  <2>10. CASE op \in Computes
    <3>1. f[k] = <<c[p]>> \o f[k + 2]
      BY <2>7, <2>8, <2>10 DEF Decoded, Computes
    <3>2. Sub(p) = <<c[p]>> \o Sub(p + 1)
      BY <2>4, RestOfCode
    <3> HIDE DEF Sub
    <3>3. f[k + 2] = Sub(p + 1)
      BY <2>3, <2>5, <2>10
    <3>4. f[k] = Sub(p)
      BY <3>1, <3>2, <3>3
    <3> QED BY <3>4 DEF k, p, j
  <2>11. CASE op \notin Computes \cup {"Push"}
    <3>1. f[k] = <<c[p]>> \o f[k + 1]
      BY <2>7, <2>11 DEF Decoded, Computes
    <3>2. Sub(p) = <<c[p]>> \o Sub(p + 1)
      BY <2>4, RestOfCode
    <3> HIDE DEF Sub
    <3>3. f[k + 1] = Sub(p + 1)
      BY <2>3, <2>5, <2>11
    <3>4. f[k] = Sub(p)
      BY <3>1, <3>2, <3>3
    <3> QED BY <3>4 DEF k, p, j
  <2> QED BY <2>9, <2>10, <2>11
<1>6. n \in S
  <2> HIDE DEF S
  <2>1. \A m \in Nat : m \in S
    BY <1>4, <1>5, Induction
  <2> QED BY <1>1, <2>1
<1>7. f[1] = Sub(1)
  <2>1. n - n = 0 /\ K[0] = 1 /\ P[0] = 1
    BY <1>1 DEF Parsed
  <2> QED BY <1>1, <1>6, <2>1, SMTT(30)
<1>8. Sub(1) = c
  <2>1. Sub(1) \in Seq(Nat) /\ Len(Sub(1)) = L /\ \A i \in 1 .. L : Sub(1)[i] = c[i]
    BY <1>1
  <2> QED BY <2>1, SeqEqual
<1> QED BY <1>3, <1>7, <1>8 DEF T

----------------------------------------------------------------------------
\* While a program runs, its trace was absorbed from its code up to ip.
ReadUpToHere ==
  status = "running" => \E n, K, P : Parsed(trace, code, ip, n, K, P)

TraceInv == TypeOK /\ ReadUpToHere /\ TraceTellsCode

LEMMA NothingRead ==
  ASSUME NEW c \in Seq(Nat)
  PROVE  \E n, K, P : Parsed(<< >>, c, 1, n, K, P)
<1> DEFINE I == [j \in {0} |-> 1]
<1>1. Len(c) \in Nat /\ Len(<< >>) = 0 /\ 0 .. 0 = {0} /\ 0 .. 0 - 1 = {}
  OBVIOUS
<1>2. Parsed(<< >>, c, 1, 0, I, I)
  BY <1>1 DEF Parsed
<1> QED BY <1>2

\* An instruction that is not the last one.
LEMMA ReadOn ==
  ASSUME TraceInv, status = "running", ip <= Len(code), NEW s, NEW w,
         Absorb(w, s), Appends(code, ip, s, w)
  PROVE  ReadUpToHere' /\ TraceTellsCode'
<1>1. trace \in Seq(Nat) /\ code \in Seq(Nat)
  BY MicroVMAssumption, SeqMonotonic DEF TraceInv, TypeOK
<1>2. PICK n, K, P : Parsed(trace, code, ip, n, K, P)
  BY DEF TraceInv, ReadUpToHere
<1>3. /\ trace' = trace \o <<code[ip]>> \o s /\ ip' = ip + w /\ code' = code
      /\ answer' = answer /\ status' = status
  BY DEF Absorb
<1>4. \E J, Q : Parsed(trace \o <<code[ip]>> \o s, code, ip + w, n + 1, J, Q)
  BY <1>1, <1>2, ParsedGrows
<1>5. \E m, J, Q : Parsed(trace', code', ip', m, J, Q)
  BY <1>3, <1>4
<1>6. TraceTellsCode'
  BY <1>3 DEF TraceInv, TraceTellsCode, CodeOf
<1> QED BY <1>5, <1>6 DEF ReadUpToHere, Parsed

LEMMA InstructionReads ==
  ASSUME TraceInv, Instruction
  PROVE  \E s, w : /\ status = "running" /\ ip <= Len(code)
                   /\ Absorb(w, s) /\ Appends(code, ip, s, w)
<1>0. Op = from_u8(code[ip]) /\ sp \in 0 .. Depth /\ stack \in [Slots -> Words] /\ Depth \in Nat
  BY MicroVMAssumption DEF Op, TraceInv, TypeOK
<1>1. CASE Nop \/ Pop \/ Dup \/ Swap \/ Rot
  <2>1. /\ status = "running" /\ ip <= Len(code) /\ Absorb(1, << >>)
        /\ Op \in {"Nop", "Pop", "Dup", "Swap", "Rot"}
    BY <1>1 DEF Nop, Pop, Dup, Swap, Rot, At
  <2>2. Appends(code, ip, << >>, 1)
    BY <1>0, <2>1 DEF Appends, Computes, BinaryOps
  <2> QED BY <2>1, <2>2
<1>2. CASE Push
  <2>1. /\ status = "running" /\ ip <= Len(code) /\ Absorb(2, <<code[ip + 1]>>)
        /\ Op = "Push" /\ ip + 1 <= Len(code)
    BY <1>2 DEF Push, At
  <2>2. Appends(code, ip, <<code[ip + 1]>>, 2)
    BY <1>0, <2>1 DEF Appends
  <2> QED BY <2>1, <2>2
<1>3. ASSUME NEW x \in Words, At(Computes), Absorb(1, <<x>>)
      PROVE  /\ status = "running" /\ ip <= Len(code)
             /\ Absorb(1, <<x>>) /\ Appends(code, ip, <<x>>, 1)
  <2>1. <<x>> \in Seq(Nat) /\ Len(<<x>>) = 1
    BY MicroVMAssumption
  <2>2. Appends(code, ip, <<x>>, 1)
    BY <1>0, <1>3, <2>1 DEF Appends, At
  <2> QED BY <1>3, <2>2 DEF At
<1>4. CASE Binary
  <2> DEFINE x == Alu(Op, stack[sp - 2], stack[sp - 1])
  <2>1. /\ status = "running" /\ ip <= Len(code) /\ Op \in BinaryOps /\ sp >= 2
        /\ Absorb(1, <<x>>)
    BY <1>4 DEF Binary, At
  <2>2. sp - 1 \in Slots /\ sp - 2 \in Slots
    BY <1>0, <2>1 DEF Slots
  <2>3. stack[sp - 1] \in Words /\ stack[sp - 2] \in Words
    BY <1>0, <2>2
  <2>4. x \in Words
    BY <2>1, <2>3, AluAssumption
  <2> HIDE DEF x
  <2>5. At(Computes)
    BY <2>1 DEF At, Computes
  <2> QED BY <1>3, <2>1, <2>4, <2>5
<1>5. CASE Not
  <2> DEFINE x == VmNot(stack[sp - 1])
  <2>1. status = "running" /\ ip <= Len(code) /\ Op = "Not" /\ sp > 0 /\ Absorb(1, <<x>>)
    BY <1>5 DEF Not, At
  <2>2. sp - 1 \in Slots
    BY <1>0, <2>1 DEF Slots
  <2>3. x \in Words
    BY <1>0, <2>2, AluAssumption
  <2> HIDE DEF x
  <2>4. At(Computes)
    BY <2>1 DEF At, Computes
  <2> QED BY <1>3, <2>1, <2>3, <2>4
<1> QED BY <1>1, <1>2, <1>4, <1>5 DEF Instruction

LEMMA TraceStep == TraceInv /\ [MicroVMNext]_vmVars => TraceInv'
<1> SUFFICES ASSUME TraceInv, [MicroVMNext]_vmVars PROVE ReadUpToHere' /\ TraceTellsCode'
  BY TypeStep DEF TraceInv
<1>1. CASE Instruction
  BY <1>1, InstructionReads, ReadOn
<1>2. CASE status' # "running" /\ (answer' = answer \/ answer'.root = ZeroRoot)
  <2>1. ReadUpToHere'
    BY <1>2 DEF ReadUpToHere
  <2>2. answer'.root # ZeroRoot => CodeOf(answer'.root) = answer'.code
    BY <1>2 DEF TraceInv, TraceTellsCode
  <2>3. TraceTellsCode'
    BY <2>2 DEF TraceTellsCode, CodeOf, ZeroRoot
  <2> QED BY <2>1, <2>3
<1>3. CASE (\E c \in Canaries : Create(c)) \/ Drop \/ Take \/ Trap
  BY <1>2, <1>3 DEF Create, Drop, Take, Trap, Leave, Answer, NoAnswer
<1>4. ASSUME NEW c \in Programs, Refuse(c) PROVE ReadUpToHere' /\ TraceTellsCode'
  BY <1>2, <1>4 DEF Refuse, Answer
<1>5. ASSUME NEW c \in Programs, Enter(c) PROVE ReadUpToHere' /\ TraceTellsCode'
  <2>1. code' = c /\ ip' = 1 /\ trace' = << >> /\ answer' = answer
    BY <1>5 DEF Enter
  <2>2. c \in Seq(Nat)
    BY MicroVMAssumption, SeqMonotonic
  <2>3. \E n, K, P : Parsed(trace', code', ip', n, K, P)
    BY <2>1, <2>2, NothingRead
  <2>4. TraceTellsCode'
    BY <2>1 DEF TraceInv, TraceTellsCode, CodeOf
  <2> QED BY <2>3, <2>4 DEF ReadUpToHere, Parsed
<1>6. CASE Finish
  <2>1. status = "running" /\ ip > Len(code) /\ status' = "done"
    BY <1>6 DEF Finish, Leave, Answer
  <2>2. /\ answer' = [code |-> code, root |-> IF Damaged THEN ZeroRoot ELSE Append(trace, sp)]
    BY <1>6 DEF Finish, Leave, Answer
  <2>3. CASE Damaged
    BY <1>2, <2>1, <2>2, <2>3
  <2>4. CASE ~Damaged
    <3>1. answer'.root = Append(trace, sp) /\ answer'.code = code
      BY <2>2, <2>4
    <3>2. trace \in Seq(Nat) /\ code \in Seq(Nat) /\ sp \in Nat /\ ip \in Nat /\ Len(code) \in Nat
      <4>1. trace \in Seq(Nat) /\ code \in Seq(Words) /\ ip \in Nat /\ sp \in 0 .. Depth
        BY DEF TraceInv, TypeOK
      <4>2. code \in Seq(Nat)
        BY <4>1, MicroVMAssumption, SeqMonotonic
      <4> QED BY <4>1, <4>2, MicroVMAssumption
    <3>3. PICK n, K, P : Parsed(trace, code, ip, n, K, P)
      BY <2>1 DEF TraceInv, ReadUpToHere
    <3>4. ip = Len(code) + 1
      BY <2>1, <3>2, <3>3 DEF Parsed
    <3>5. CodeOf(Append(trace, sp)) = code
      BY <3>2, <3>3, <3>4, CodeRead
    <3>6. CodeOf(answer'.root) = answer'.code
      BY <3>1, <3>5
    <3> QED BY <2>1, <3>6 DEF ReadUpToHere, TraceTellsCode, CodeOf
  <2> QED BY <2>3, <2>4
<1>7. CASE UNCHANGED vmVars
  <2>1. /\ status' = status /\ trace' = trace /\ code' = code /\ ip' = ip
        /\ answer' = answer
    BY <1>7 DEF vmVars
  <2>2. status = "running" => \E n, K, P : Parsed(trace', code', ip', n, K, P)
    BY <2>1 DEF TraceInv, ReadUpToHere
  <2>3. TraceTellsCode'
    BY <2>1 DEF TraceInv, TraceTellsCode, CodeOf
  <2> QED BY <2>1, <2>2, <2>3 DEF ReadUpToHere, Parsed
<1> QED BY <1>1, <1>3, <1>4, <1>5, <1>6, <1>7 DEF MicroVMNext, Execute

\* The trace has a left inverse (vm.rs:169-344): for every program, depth and arithmetic, a
\* root that is not zero tells the code it was computed from, so no two programs share one.
THEOREM TracesTellCode == MicroVMSpec => []TraceTellsCode
<1>1. MicroVMInit => TraceInv
  BY TypeInit DEF MicroVMInit, TraceInv, ReadUpToHere, TraceTellsCode, NoAnswer
<1>2. TraceInv => TraceTellsCode
  BY DEF TraceInv
<1> QED BY <1>1, <1>2, TraceStep, PTL DEF MicroVMSpec

----------------------------------------------------------------------------
(* The opcode table as the reference                                       *)

\* What each instruction does, and when it cannot be executed.
Does(c, k, st, op, n, e) ==
  LET Goes(w, tokens, new) == e.width = w /\ e.tokens = tokens /\ e.stack = new
  IN  /\ op = "Nop" => Goes(1, << >>, st)
      /\ op = "Push" /\ k + 1 <= Len(c) => Goes(2, <<c[k + 1]>>, Append(st, c[k + 1]))
      /\ op = "Pop" /\ n >= 1 => Goes(1, << >>, SubSeq(st, 1, n - 1))
      /\ op = "Dup" /\ n >= 1 => Goes(1, << >>, Append(st, st[n]))
      /\ op = "Swap" /\ n >= 2 =>
           Goes(1, << >>, SubSeq(st, 1, n - 2) \o <<st[n], st[n - 1]>>)
      /\ op = "Rot" => Goes(1, << >>, IF n < 2 THEN st ELSE Append(Tail(st), st[1]))
      /\ op = "Not" /\ n >= 1 =>
           Goes(1, <<Table(op, st[n], st[n])>>,
                Append(SubSeq(st, 1, n - 1), Table(op, st[n], st[n])))
      /\ op \in BinaryOps /\ n >= 2 =>
           Goes(1, <<Table(op, st[n - 1], st[n])>>,
                Append(SubSeq(st, 1, n - 2), Table(op, st[n - 1], st[n])))
      /\ ~(\/ op \in {"Nop", "Rot"}
           \/ op = "Push" /\ k + 1 <= Len(c)
           \/ op \in {"Pop", "Dup", "Not"} /\ n >= 1
           \/ op \in BinaryOps \cup {"Swap"} /\ n >= 2) => Goes(0, << >>, << >>)

LEMMA Effects ==
  ASSUME NEW c, NEW k, NEW st
  PROVE  Does(c, k, st, from_u8(c[k]), Len(st), Effect(c, k, st))
<1> DEFINE op == from_u8(c[k])
<1> HIDE DEF op
<1>0. op = from_u8(c[k])
  BY DEF op
<1> SUFFICES Does(c, k, st, op, Len(st), Effect(c, k, st))
  BY <1>0
<1>1. CASE op = "Nop"
  BY <1>0, <1>1 DEF Does, Effect, BinaryOps
<1>2. CASE op = "Push"
  BY <1>0, <1>2 DEF Does, Effect, BinaryOps
<1>3. CASE op = "Pop"
  BY <1>0, <1>3 DEF Does, Effect, BinaryOps
<1>4. CASE op = "Dup"
  BY <1>0, <1>4 DEF Does, Effect, BinaryOps
<1>5. CASE op = "Swap"
  BY <1>0, <1>5 DEF Does, Effect, BinaryOps
<1>6. CASE op = "Rot"
  BY <1>0, <1>6 DEF Does, Effect, BinaryOps
<1>7. CASE op = "Not"
  BY <1>0, <1>7 DEF Does, Effect, BinaryOps
<1>8. CASE op \in BinaryOps
  BY <1>0, <1>8 DEF Does, Effect, BinaryOps
<1>9. CASE op \notin BinaryOps \cup {"Nop", "Push", "Pop", "Dup", "Swap", "Rot", "Not"}
  BY <1>0, <1>9 DEF Does, Effect, BinaryOps
<1> QED BY <1>1, <1>2, <1>3, <1>4, <1>5, <1>6, <1>7, <1>8, <1>9

\* An instruction that can be executed has a width, and gives a stack of words.
LEMMA EffectTyped ==
  ASSUME TableAgrees, NEW c \in Seq(Words), NEW k \in 1 .. Len(c), NEW st \in Seq(Words)
  PROVE  LET e == Effect(c, k, st)
         IN  /\ e.width \in {0, 1, 2} /\ (e.width = 2 => k + 1 <= Len(c))
             /\ e.tokens \in Seq(Words) /\ e.stack \in Seq(Words)
<1> DEFINE op == from_u8(c[k])
           n == Len(st)
           e == Effect(c, k, st)
           Good == /\ e.width \in {0, 1, 2} /\ (e.width = 2 => k + 1 <= Len(c))
                   /\ e.tokens \in Seq(Words) /\ e.stack \in Seq(Words)
<1> SUFFICES Good
  OBVIOUS
<1>D. Does(c, k, st, op, n, e)
  BY Effects
<1>0. n \in Nat /\ << >> \in Seq(Words) /\ \A j \in 1 .. n : st[j] \in Words
  OBVIOUS
<1>a. \A j \in 0 .. n : SubSeq(st, 1, n - j) \in Seq(Words)
  <2> SUFFICES ASSUME NEW j \in 0 .. n PROVE SubSeq(st, 1, n - j) \in Seq(Words)
    OBVIOUS
  <2>1. n - j \in 0 .. n
    BY <1>0
  <2>2. \A i \in 1 .. n - j : st[i] \in Words
    BY <1>0, <2>1
  <2> QED BY <2>1, <2>2, SubSeqProperties
<1>b. \A s \in Seq(Words), x \in Words : <<x>> \in Seq(Words) /\ Append(s, x) \in Seq(Words)
  OBVIOUS
<1>c. n >= 2 => Append(Tail(st), st[1]) \in Seq(Words)
  <2> SUFFICES ASSUME n >= 2 PROVE Append(Tail(st), st[1]) \in Seq(Words)
    OBVIOUS
  <2>1. st # << >> /\ st[1] \in Words
    BY <1>0
  <2>2. Tail(st) \in Seq(Words)
    BY <2>1
  <2> QED BY <2>1, <2>2
<1>d. n >= 2 => SubSeq(st, 1, n - 2) \o <<st[n], st[n - 1]>> \in Seq(Words)
  <2> SUFFICES ASSUME n >= 2 PROVE SubSeq(st, 1, n - 2) \o <<st[n], st[n - 1]>> \in Seq(Words)
    OBVIOUS
  <2>1. 2 \in 0 .. n /\ st[n] \in Words /\ st[n - 1] \in Words
    BY <1>0
  <2>2. SubSeq(st, 1, n - 2) \in Seq(Words) /\ <<st[n], st[n - 1]>> \in Seq(Words)
    BY <1>a, <2>1
  <2> QED BY <2>2
<1>e. op = "Not" /\ n >= 1 => Table(op, st[n], st[n]) \in Words
  BY <1>0, AluAssumption DEF TableAgrees
<1>f. ASSUME op \in BinaryOps, n >= 2 PROVE Table(op, st[n - 1], st[n]) \in Words
  <2>1. st[n - 1] \in Words /\ st[n] \in Words
    BY <1>0, <1>f
  <2> HIDE DEF op, n
  <2>2. Table(op, st[n - 1], st[n]) = Alu(op, st[n - 1], st[n])
    BY <1>f, <2>1 DEF TableAgrees
  <2> QED BY <1>f, <2>1, <2>2, AluAssumption
<1>g. k + 1 <= Len(c) => c[k + 1] \in Words
  OBVIOUS
<1>h. n >= 1 => SubSeq(st, 1, n - 1) \in Seq(Words) /\ st[n] \in Words
  BY <1>0, <1>a
<1>i. n >= 2 => SubSeq(st, 1, n - 2) \in Seq(Words)
  BY <1>0, <1>a
<1> DEFINE Goes(w, tokens, new) == e.width = w /\ e.tokens = tokens /\ e.stack = new
<1> HIDE DEF op, n, e
<1>1. ASSUME op = "Nop" PROVE Good
  <2>1. Goes(1, << >>, st)
    BY <1>D, <1>1, Zenon DEF Does
  <2> QED BY <1>0, <2>1
<1>2. ASSUME op = "Push", k + 1 <= Len(c) PROVE Good
  <2>1. Goes(2, <<c[k + 1]>>, Append(st, c[k + 1]))
    BY <1>D, <1>2, Zenon DEF Does
  <2> QED BY <1>b, <1>g, <1>2, <2>1
<1>3. ASSUME op = "Pop", n >= 1 PROVE Good
  <2>1. Goes(1, << >>, SubSeq(st, 1, n - 1))
    BY <1>D, <1>3, Zenon DEF Does
  <2> QED BY <1>0, <1>h, <1>3, <2>1
<1>4. ASSUME op = "Dup", n >= 1 PROVE Good
  <2>1. Goes(1, << >>, Append(st, st[n]))
    BY <1>D, <1>4, Zenon DEF Does
  <2> QED BY <1>0, <1>b, <1>h, <1>4, <2>1
<1>5. ASSUME op = "Swap", n >= 2 PROVE Good
  <2>1. Goes(1, << >>, SubSeq(st, 1, n - 2) \o <<st[n], st[n - 1]>>)
    BY <1>D, <1>5, Zenon DEF Does
  <2> QED BY <1>0, <1>d, <1>5, <2>1
<1>6. ASSUME op = "Rot" PROVE Good
  <2>1. Goes(1, << >>, IF n < 2 THEN st ELSE Append(Tail(st), st[1]))
    BY <1>D, <1>6, Zenon DEF Does
  <2>2. n < 2 \/ n >= 2
    BY <1>0
  <2>3. e.stack \in Seq(Words)
    BY <1>c, <2>1, <2>2
  <2> QED BY <1>0, <2>1, <2>3
<1>7. ASSUME op = "Not", n >= 1 PROVE Good
  <2>1. Goes(1, <<Table(op, st[n], st[n])>>,
             Append(SubSeq(st, 1, n - 1), Table(op, st[n], st[n])))
    BY <1>D, <1>7, Zenon DEF Does
  <2> QED BY <1>b, <1>e, <1>h, <1>7, <2>1
<1>8. ASSUME op \in BinaryOps, n >= 2 PROVE Good
  <2>1. Goes(1, <<Table(op, st[n - 1], st[n])>>,
             Append(SubSeq(st, 1, n - 2), Table(op, st[n - 1], st[n])))
    BY <1>D, <1>8, Zenon DEF Does
  <2> QED BY <1>b, <1>f, <1>i, <1>8, <2>1
<1>9. ASSUME ~(\/ op \in {"Nop", "Rot"}
               \/ op = "Push" /\ k + 1 <= Len(c)
               \/ op \in {"Pop", "Dup", "Not"} /\ n >= 1
               \/ op \in BinaryOps \cup {"Swap"} /\ n >= 2)
      PROVE  Good
  <2>1. Goes(0, << >>, << >>)
    BY <1>D, <1>9, Zenon DEF Does
  <2> QED BY <1>0, <2>1
<1> HIDE DEF Good
<1> QED BY <1>1, <1>2, <1>3, <1>4, <1>5, <1>6, <1>7, <1>8, <1>9

\* One step of Evaluate: f is what the positions after k of the code c have to absorb.
Continued(c, f, k, st) ==
  IF k > Len(c) THEN <<Len(st)>>
  ELSE LET e == Effect(c, k, st)
       IN  IF e.width = 0 \/ Len(e.stack) > Depth THEN ZeroRoot
           ELSE IF f[k + e.width][e.stack] = ZeroRoot THEN ZeroRoot
           ELSE <<c[k]>> \o e.tokens \o f[k + e.width][e.stack]

Row(c, f, k) == [st \in Seq(Words) |-> Continued(c, f, k, st)]

LEMMA RowLooksAhead ==
  ASSUME TableAgrees, NEW c \in Seq(Words), NEW f, NEW g, NEW k \in 1 .. Len(c) + 1,
         k <= Len(c) => f[k + 1] = g[k + 1],
         k + 1 <= Len(c) => f[k + 2] = g[k + 2]
  PROVE  Row(c, f, k) = Row(c, g, k)
<1>1. ASSUME NEW st \in Seq(Words) PROVE Continued(c, f, k, st) = Continued(c, g, k, st)
  <2>1. CASE k > Len(c)
    BY <2>1 DEF Continued
  <2>2. CASE ~(k > Len(c))
    <3> DEFINE e == Effect(c, k, st)
    <3>1. k \in 1 .. Len(c)
      BY <2>2
    <3>2. e.width \in {0, 1, 2} /\ (e.width = 2 => k + 1 <= Len(c))
      BY <3>1, EffectTyped
    <3> HIDE DEF e
    <3>3. e.width # 0 => f[k + e.width] = g[k + e.width]
      BY <3>1, <3>2
    <3> QED BY <2>2, <3>3 DEF Continued, e
  <2> QED BY <2>1, <2>2
<1> QED BY <1>1 DEF Row

\* The recursion of Evaluate has a solution: it looks ahead only, and the code is finite.
LEMMA EvaluationExists ==
  ASSUME TableAgrees, NEW c \in Seq(Words)
  PROVE  \E f : f = [k \in 1 .. Len(c) + 1 |-> Row(c, f, k)]
<1> DEFINE L == Len(c)
           Good(m, f) == \A k \in 1 .. L + 1 : k > L + 1 - m => f[k] = Row(c, f, k)
           S == {m \in Nat : \E f : Good(m, f)}
<1>0. L \in Nat
  OBVIOUS
<1>1. 0 \in S
  <2> DEFINE f == [k \in 1 .. L + 1 |-> << >>]
  <2>1. Good(0, f)
    BY <1>0
  <2> QED BY <2>1
<1>2. ASSUME NEW m \in Nat, m \in S PROVE m + 1 \in S
  <2>1. PICK f : Good(m, f)
    BY <1>2
  <2> DEFINE h == L + 1 - m
             g == [k \in 1 .. L + 1 |-> IF k = h THEN Row(c, f, k) ELSE f[k]]
  <2>2. ASSUME NEW k \in 1 .. L + 1, k > L + 1 - (m + 1) PROVE g[k] = Row(c, g, k)
    <3>1. k + 1 > h /\ k + 2 > h /\ (k = h \/ k > L + 1 - m)
      BY <1>0, <2>2
    <3>2. /\ k <= L => k + 1 \in 1 .. L + 1
          /\ k + 1 <= L => k + 2 \in 1 .. L + 1
      BY <1>0
    <3>3. /\ k <= L => f[k + 1] = g[k + 1]
          /\ k + 1 <= L => f[k + 2] = g[k + 2]
      BY <1>0, <3>1, <3>2
    <3>4. g[k] = Row(c, f, k)
      BY <2>1, <3>1
    <3> HIDE DEF g
    <3>5. Row(c, f, k) = Row(c, g, k)
      BY <3>3, RowLooksAhead
    <3> QED BY <3>4, <3>5
  <2> HIDE DEF g
  <2>3. Good(m + 1, g)
    BY <2>2
  <2> QED BY <2>3
<1>3. L + 1 \in S
  <2> HIDE DEF S
  <2>1. \A m \in Nat : m \in S
    BY <1>1, <1>2, Induction
  <2> QED BY <1>0, <2>1
<1>4. PICK f : Good(L + 1, f)
  BY <1>3
<1> DEFINE g == [k \in 1 .. L + 1 |-> f[k]]
<1>5. ASSUME NEW k \in 1 .. L + 1 PROVE g[k] = Row(c, g, k)
  <2>1. /\ k <= L => f[k + 1] = g[k + 1]
        /\ k + 1 <= L => f[k + 2] = g[k + 2]
    BY <1>0
  <2>2. g[k] = Row(c, f, k)
    BY <1>0, <1>4
  <2> HIDE DEF g
  <2>3. Row(c, f, k) = Row(c, g, k)
    BY <2>1, RowLooksAhead
  <2> QED BY <2>2, <2>3
<1>6. g = [k \in 1 .. L + 1 |-> Row(c, g, k)]
  <2>1. g = [k \in 1 .. L + 1 |-> g[k]]
    OBVIOUS
  <2> HIDE DEF g
  <2> QED BY <1>5, <2>1
<1> QED BY <1>6

\* f says what the code c has to absorb from each position and stack on.
Follows(c, f) ==
  \A k \in 1 .. Len(c) + 1, st \in Seq(Words) : f[k][st] = Continued(c, f, k, st)

LEMMA EvaluationFollows ==
  ASSUME TableAgrees, NEW c \in Seq(Words)
  PROVE  \E f : Follows(c, f) /\ Evaluate(c) = f[1][<< >>]
<1> DEFINE eq(f) == f = [k \in 1 .. Len(c) + 1 |-> Row(c, f, k)]
           rest == CHOOSE f : eq(f)
<1>1. Evaluate(c) = rest[1][<< >>]
  BY DEF Evaluate, Row, Continued
<1>2. \E f : eq(f)
  BY EvaluationExists
<1>3. eq(rest)
  BY <1>2
<1> HIDE DEF rest
<1>4. \A k \in 1 .. Len(c) + 1 : rest[k] = Row(c, rest, k)
  <2> DEFINE D(k) == Row(c, rest, k)
  <2>1. rest = [k \in 1 .. Len(c) + 1 |-> D(k)]
    BY <1>3
  <2> HIDE DEF D
  <2>2. \A k \in 1 .. Len(c) + 1 : rest[k] = D(k)
    BY <2>1
  <2> QED BY <2>2 DEF D
<1>5. Follows(c, rest)
  <2> SUFFICES ASSUME NEW k \in 1 .. Len(c) + 1, NEW st \in Seq(Words)
               PROVE  rest[k][st] = Continued(c, rest, k, st)
    BY DEF Follows
  <2> DEFINE D(s) == Continued(c, rest, k, s)
  <2>1. rest[k] = [s \in Seq(Words) |-> D(s)]
    BY <1>4 DEF Row
  <2> HIDE DEF D
  <2>2. rest[k][st] = D(st)
    BY <2>1
  <2> QED BY <2>2 DEF D
<1> QED BY <1>1, <1>5

\* What is left to absorb is a sequence of numbers.
LEMMA FollowsTyped ==
  ASSUME TableAgrees, NEW c \in Seq(Words), NEW f, Follows(c, f)
  PROVE  \A k \in 1 .. Len(c) + 1, st \in Seq(Words) : f[k][st] \in Seq(Nat)
<1> DEFINE L == Len(c)
           S == {m \in Nat : \A k \in 1 .. L + 1 : k > L + 1 - m =>
                                \A st \in Seq(Words) : f[k][st] \in Seq(Nat)}
<1>0. L \in Nat
  OBVIOUS
<1>1. 0 \in S
  BY <1>0
<1>2. ASSUME NEW m \in Nat, m \in S PROVE m + 1 \in S
  <2> SUFFICES ASSUME NEW k \in 1 .. L + 1, k > L + 1 - (m + 1), NEW st \in Seq(Words)
               PROVE  f[k][st] \in Seq(Nat)
    OBVIOUS
  <2>1. f[k][st] = Continued(c, f, k, st)
    BY DEF Follows
  <2>2. CASE k > Len(c)
    <3>1. <<Len(st)>> \in Seq(Nat)
      OBVIOUS
    <3> QED BY <2>1, <2>2, <3>1 DEF Continued
  <2>3. CASE ~(k > Len(c))
    <3> DEFINE e == Effect(c, k, st)
               r == f[k + e.width][e.stack]
    <3>1. k \in 1 .. Len(c) /\ c[k] \in Words
      BY <2>3
    <3>2. /\ e.width \in {0, 1, 2} /\ (e.width = 2 => k + 1 <= Len(c))
          /\ e.tokens \in Seq(Words) /\ e.stack \in Seq(Words)
      BY <3>1, EffectTyped
    <3>0. ZeroRoot \in Seq(Nat)
      BY DEF ZeroRoot
    <3>3. f[k][st] = ZeroRoot \/ (e.width # 0 /\ f[k][st] = <<c[k]>> \o e.tokens \o r)
      BY <2>1, <2>3 DEF Continued
    <3> HIDE DEF e
    <3>4. CASE e.width # 0
      <4>1. k + e.width \in 1 .. L + 1 /\ k + e.width > L + 1 - m
        BY <1>0, <3>1, <3>2, <3>4
      <4>2. r \in Seq(Nat)
        BY <1>2, <3>2, <4>1
      <4>3. <<c[k]>> \in Seq(Nat) /\ e.tokens \in Seq(Nat)
        <5>1. Seq(Words) \subseteq Seq(Nat) /\ c[k] \in Nat
          BY <3>1, MicroVMAssumption, SeqMonotonic
        <5> QED BY <3>2, <5>1
      <4> HIDE DEF r
      <4>4. <<c[k]>> \o e.tokens \o r \in Seq(Nat)
        BY <4>2, <4>3
      <4> QED BY <3>0, <3>3, <4>4, Zenon
    <3> QED BY <3>0, <3>3, <3>4, Zenon
  <2> QED BY <2>2, <2>3
<1>3. L + 1 \in S
  <2> HIDE DEF S
  <2>1. \A m \in Nat : m \in S
    BY <1>1, <1>2, Induction
  <2> QED BY <1>0, <2>1
<1> QED BY <1>0, <1>3

----------------------------------------------------------------------------
\* The operands as a sequence with the top at the end.
Operands == [j \in 1 .. sp |-> stack[j - 1]]

\* The trace t followed by what is left, r.
Joined(t, r) == IF r = ZeroRoot THEN ZeroRoot ELSE t \o r

\* While a program runs, the reference is the trace followed by what the reference has to
\* absorb from here on.
OnTheWay ==
  status = "running" =>
    /\ canary = "ok" /\ Len(code) \in 1 .. MaxCode /\ ip <= Len(code) + 1
    /\ \E f : Follows(code, f) /\ Evaluate(code) = Joined(trace, f[ip][Operands])

RefInv == TypeOK /\ OnTheWay /\ RootIsReference

LEMMA Stacked ==
  ASSUME NEW p \in 0 .. Depth, NEW a \in [Slots -> Words]
  PROVE  LET st == [j \in 1 .. p |-> a[j - 1]]
         IN  st \in Seq(Words) /\ Len(st) = p /\ \A j \in 1 .. p : st[j] = a[j - 1]
<1> DEFINE st == [j \in 1 .. p |-> a[j - 1]]
<1>1. p \in Nat /\ p <= Depth
  BY MicroVMAssumption
<1>2. \A j \in 1 .. p : a[j - 1] \in Words
  BY <1>1, MicroVMAssumption DEF Slots
<1>3. st \in [1 .. p -> Words]
  BY <1>2
<1> QED BY <1>1, <1>3

LEMMA OperandsTyped ==
  ASSUME TypeOK
  PROVE  /\ Operands \in Seq(Words) /\ Len(Operands) = sp /\ sp \in Nat /\ sp <= Depth
         /\ \A j \in 1 .. sp : Operands[j] = stack[j - 1]
<1>1. sp \in 0 .. Depth /\ stack \in [Slots -> Words] /\ sp \in Nat /\ sp <= Depth
  BY MicroVMAssumption DEF TypeOK
<1> QED BY <1>1, Stacked DEF Operands

LEMMA OperandsAfter ==
  ASSUME TypeOK'
  PROVE  /\ Operands' \in Seq(Words) /\ Len(Operands') = sp' /\ sp' \in Nat /\ sp' <= Depth
         /\ \A j \in 1 .. sp' : Operands'[j] = stack'[j - 1]
<1>1. sp' \in 0 .. Depth /\ stack' \in [Slots -> Words] /\ sp' \in Nat /\ sp' <= Depth
  BY MicroVMAssumption DEF TypeOK, Slots
<1> QED BY <1>1, Stacked DEF Operands

LEMMA Regrouped ==
  ASSUME NEW a \in Seq(Nat), NEW b \in Seq(Nat), NEW c \in Seq(Nat)
  PROVE  a \o (b \o c) = (a \o b) \o c
  BY SMTT(60)

LEMMA JoinedFurther ==
  ASSUME NEW t \in Seq(Nat), NEW u \in Seq(Nat), NEW s \in Seq(Nat), NEW r \in Seq(Nat),
         Len(u) = 1, r # ZeroRoot
  PROVE  Joined(t, u \o s \o r) = Joined(t \o u \o s, r)
<1> DEFINE us == u \o s
<1>1. us \in Seq(Nat) /\ Len(us) = 1 + Len(s)
  <2>1. us \in Seq(Nat) /\ Len(us) = Len(u) + Len(s)
    BY Concatenated
  <2> QED BY <2>1
<1>2. t \o us = (t \o u) \o s
  BY Regrouped
<1> HIDE DEF us
<1>3. us \o r # << >>
  <2>1. Len(us \o r) = Len(us) + Len(r)
    BY <1>1, Concatenated
  <2>2. Len(us \o r) # 0
    BY <1>1, <2>1
  <2> QED BY <2>2
<1>4. t \o (us \o r) = (t \o us) \o r
  BY <1>1, Regrouped, ZenonT(30)
<1>5. Joined(t, us \o r) = Joined(t \o us, r)
  BY <1>3, <1>4 DEF Joined, ZeroRoot
<1> QED BY <1>2, <1>5 DEF us

\* An instruction does to the operands what the reference says.
LEMMA GoesOn ==
  ASSUME TableAgrees, RefInv, TypeOK', status = "running", ip <= Len(code),
         NEW w \in {1, 2}, NEW s \in Seq(Words), Absorb(w, s), w = 2 => ip + 1 <= Len(code),
         LET e == Effect(code, ip, Operands)
         IN  e.width = w /\ e.tokens = s /\ e.stack = Operands'
  PROVE  OnTheWay'
<1>0. /\ ip \in 1 .. Len(code) /\ code \in Seq(Words) /\ trace \in Seq(Nat)
      /\ code[ip] \in Nat /\ s \in Seq(Nat)
  <2>1. ip \in Nat \ {0} /\ code \in Seq(Words) /\ trace \in Seq(Nat)
    BY DEF RefInv, TypeOK
  <2>2. Seq(Words) \subseteq Seq(Nat)
    BY MicroVMAssumption, SeqMonotonic
  <2> QED BY <2>1, <2>2, CellIsWord
<1>1. /\ ip' = ip + w /\ trace' = trace \o <<code[ip]>> \o s /\ code' = code
      /\ canary' = canary /\ status' = status
  BY DEF Absorb
<1>2. /\ canary = "ok" /\ Len(code) \in 1 .. MaxCode
      /\ \E f : Follows(code, f) /\ Evaluate(code) = Joined(trace, f[ip][Operands])
  BY DEF RefInv, OnTheWay
<1>3. PICK f : Follows(code, f) /\ Evaluate(code) = Joined(trace, f[ip][Operands])
  BY <1>2
<1>4. /\ Operands \in Seq(Words)
      /\ Operands' \in Seq(Words) /\ Len(Operands') = sp' /\ sp' <= Depth /\ sp' \in Nat
  <2>1. Operands \in Seq(Words)
    BY OperandsTyped DEF RefInv
  <2>2. Operands' \in Seq(Words) /\ Len(Operands') = sp'
    BY OperandsAfter
  <2>3. sp' <= Depth /\ sp' \in Nat
    BY OperandsAfter
  <2> QED BY <2>1, <2>2, <2>3
<1>5. ip + w \in 1 .. Len(code) + 1
  BY <1>0
<1> DEFINE r == f[ip + w][Operands']
<1>6. r \in Seq(Nat)
  BY <1>0, <1>3, <1>4, <1>5, FollowsTyped
<1>7. f[ip][Operands] = IF r = ZeroRoot THEN ZeroRoot ELSE <<code[ip]>> \o s \o r
  <2>1. f[ip][Operands] = Continued(code, f, ip, Operands)
    BY <1>0, <1>3, <1>4 DEF Follows
  <2>2. ~(ip > Len(code)) /\ ~(Len(Operands') > Depth)
    BY <1>0, <1>4, MicroVMAssumption
  <2> QED BY <2>1, <2>2 DEF Continued
<1> HIDE DEF r
<1>8. Joined(trace, f[ip][Operands]) = Joined(trace', r)
  <2>1. CASE r = ZeroRoot
    BY <1>7, <2>1 DEF Joined
  <2>2. CASE r # ZeroRoot
    <3> DEFINE u == <<code[ip]>>
    <3>1. u \in Seq(Nat) /\ Len(u) = 1
      BY <1>0
    <3> HIDE DEF u
    <3>2. Joined(trace, u \o s \o r) = Joined(trace \o u \o s, r)
      BY <1>0, <1>6, <2>2, <3>1, JoinedFurther
    <3> QED BY <1>1, <1>7, <2>2, <3>2 DEF u
  <2> QED BY <2>1, <2>2
<1>9. Follows(code', f) /\ Evaluate(code') = Joined(trace', f[ip'][Operands'])
  BY <1>1, <1>3, <1>8 DEF r
<1>10. /\ canary' = "ok" /\ Len(code') \in 1 .. MaxCode /\ ip' <= Len(code') + 1
       /\ \E g : Follows(code', g) /\ Evaluate(code') = Joined(trace', g[ip'][Operands'])
  BY <1>1, <1>2, <1>5, <1>9
<1> QED BY <1>10 DEF OnTheWay, Follows, Continued, Effect, Evaluate, Joined

LEMMA SameStack ==
  ASSUME NEW a \in Seq(Words), NEW b \in Seq(Words), Len(a) = Len(b),
         \A j \in 1 .. Len(a) : a[j] = b[j]
  PROVE  a = b
  OBVIOUS

LEMMA AppendedAt ==
  ASSUME NEW a \in Seq(Words), NEW x \in Words
  PROVE  /\ Append(a, x) \in Seq(Words) /\ Len(Append(a, x)) = Len(a) + 1
         /\ \A j \in 1 .. Len(a) : Append(a, x)[j] = a[j]
         /\ Append(a, x)[Len(a) + 1] = x
  OBVIOUS

LEMMA ConcatenatedAt ==
  ASSUME NEW a \in Seq(Words), NEW b \in Seq(Words)
  PROVE  /\ a \o b \in Seq(Words) /\ Len(a \o b) = Len(a) + Len(b)
         /\ \A k \in 1 .. Len(a) : (a \o b)[k] = a[k]
         /\ \A k \in 1 .. Len(b) : (a \o b)[Len(a) + k] = b[k]
  OBVIOUS

LEMMA CutAt ==
  ASSUME NEW a \in Seq(Words), NEW m \in 0 .. Len(a)
  PROVE  /\ SubSeq(a, 1, Len(a) - m) \in Seq(Words)
         /\ Len(SubSeq(a, 1, Len(a) - m)) = Len(a) - m
         /\ \A j \in 1 .. Len(a) - m : SubSeq(a, 1, Len(a) - m)[j] = a[j]
<1>1. Len(a) - m \in 0 .. Len(a)
  OBVIOUS
<1>2. \A i \in 1 .. Len(a) - m : a[i] \in Words
  OBVIOUS
<1> QED BY <1>1, <1>2, SubSeqProperties

\* Each instruction that is executed does what the reference says.
LEMMA InstructionGoes ==
  ASSUME TableAgrees, RefInv, TypeOK', Instruction
  PROVE  OnTheWay'
<1> DEFINE st == Operands
           n == Len(st)
           e == Effect(code, ip, st)
           op == Op
           Goes(w, tokens, new) == e.width = w /\ e.tokens = tokens /\ e.stack = new
<1>1. /\ st \in Seq(Words) /\ n = sp /\ sp \in Nat /\ sp <= Depth
      /\ \A j \in 1 .. sp : st[j] = stack[j - 1] /\ st[j] \in Words
  BY OperandsTyped DEF RefInv
<1>2. /\ Operands' \in Seq(Words) /\ Len(Operands') = sp'
      /\ \A j \in 1 .. sp' : Operands'[j] = stack'[j - 1]
  BY OperandsAfter
<1>3. Does(code, ip, st, op, n, e)
  BY Effects DEF Op
<1>4. /\ stack \in [Slots -> Words] /\ Depth \in Nat /\ ip \in Nat
      /\ \A j \in Nat : j < Depth => j \in Slots
  BY MicroVMAssumption DEF RefInv, TypeOK, Slots
<1>5. status = "running" /\ ip <= Len(code)
  BY DEF Instruction, Nop, Push, Pop, Dup, Swap, Rot, Binary, Not, At
<1>6. << >> \in Seq(Words) /\ \A x \in Words : <<x>> \in Seq(Words)
  OBVIOUS
<1>e. e = Effect(code, ip, Operands)
  OBVIOUS
<1> HIDE DEF st, n, e, op
<1>7. ASSUME NEW s \in Seq(Words), Absorb(1, s), Goes(1, s, Operands') PROVE OnTheWay'
  BY <1>5, <1>7, <1>e, GoesOn
<1>p. ASSUME NEW s \in Seq(Words), Absorb(2, s), Goes(2, s, Operands'), ip + 1 <= Len(code)
      PROVE  OnTheWay'
  BY <1>5, <1>p, <1>e, GoesOn
<1>w. ASSUME NEW new \in Seq(Words), Len(new) = sp',
             \A j \in 1 .. sp' : new[j] = stack'[j - 1]
      PROVE  new = Operands'
  <2>1. Len(new) = Len(Operands') /\ \A j \in 1 .. Len(new) : new[j] = Operands'[j]
    BY <1>2, <1>w
  <2> QED BY <1>2, <1>w, <2>1, SameStack
<1>c. \A m \in 0 .. n : /\ SubSeq(st, 1, n - m) \in Seq(Words)
                        /\ Len(SubSeq(st, 1, n - m)) = n - m
                        /\ \A j \in 1 .. n - m : SubSeq(st, 1, n - m)[j] = st[j]
  BY <1>1, CutAt DEF n
<1>a. \A a \in Seq(Words), x \in Words :
        /\ Append(a, x) \in Seq(Words) /\ Len(Append(a, x)) = Len(a) + 1
        /\ \A j \in 1 .. Len(a) : Append(a, x)[j] = a[j]
        /\ Append(a, x)[Len(a) + 1] = x
  BY AppendedAt
<1>8. CASE Nop
  <2>1. op = "Nop" /\ Absorb(1, << >>) /\ stack' = stack /\ sp' = sp
    BY <1>8 DEF Nop, At, op
  <2>2. Goes(1, << >>, st)
    BY <1>3, <2>1, Zenon DEF Does
  <2>3. st = Operands'
    <3>1. Len(st) = sp' /\ \A j \in 1 .. sp' : st[j] = stack'[j - 1]
      BY <1>1, <2>1 DEF n
    <3> QED BY <1>1, <1>w, <3>1
  <2> QED BY <1>6, <1>7, <2>1, <2>2, <2>3, Zenon
<1>9. CASE Push
  <2>1. /\ op = "Push" /\ Absorb(2, <<code[ip + 1]>>) /\ sp' = sp + 1
        /\ stack' = [stack EXCEPT ![sp] = code[ip + 1]] /\ ip + 1 <= Len(code) /\ sp < Depth
    BY <1>9 DEF Push, At, op
  <2> DEFINE x == code[ip + 1]
  <2>2. Goes(2, <<x>>, Append(st, x))
    BY <1>3, <2>1, Zenon DEF Does
  <2>3. x \in Words
    BY <1>4, <2>1, CellIsWord DEF RefInv, TypeOK
  <2> HIDE DEF x
  <2>4. /\ Append(st, x) \in Seq(Words) /\ Len(Append(st, x)) = n + 1
        /\ \A j \in 1 .. n : Append(st, x)[j] = st[j]
        /\ Append(st, x)[n + 1] = x
    BY <1>1, <2>3, AppendedAt DEF n
  <2>5. \A j \in 1 .. sp + 1 : Append(st, x)[j] = Operands'[j]
    <3> SUFFICES ASSUME NEW j \in 1 .. sp + 1 PROVE Append(st, x)[j] = Operands'[j]
      OBVIOUS
    <3>1. Operands'[j] = stack'[j - 1] /\ stack'[j - 1] = IF j - 1 = sp THEN x ELSE stack[j - 1]
      <4>1. j - 1 \in Slots
        BY <1>1, <1>4, <2>1
      <4> QED BY <1>2, <1>4, <2>1, <4>1 DEF x
    <3>2. CASE j = sp + 1
      BY <1>1, <2>4, <3>1, <3>2
    <3>3. CASE j \in 1 .. sp
      BY <1>1, <2>4, <3>1, <3>3
    <3>4. j = sp + 1 \/ j \in 1 .. sp
      BY <1>1
    <3> QED BY <3>2, <3>3, <3>4
  <2>6. Append(st, x) = Operands'
    <3>1. Len(Append(st, x)) = Len(Operands') /\ sp' = sp + 1
      BY <1>1, <1>2, <2>1, <2>4
    <3>2. \A j \in 1 .. Len(Append(st, x)) : Append(st, x)[j] = Operands'[j]
      BY <1>1, <2>4, <2>5
    <3> QED BY <1>2, <2>4, <3>1, <3>2, SameStack
  <2>7. <<x>> \in Seq(Words) /\ Absorb(2, <<x>>)
    BY <1>6, <2>1, <2>3 DEF x
  <2> QED BY <1>p, <2>1, <2>2, <2>6, <2>7
<1>10. CASE Pop
  <2>1. /\ op = "Pop" /\ Absorb(1, << >>) /\ sp' = sp - 1 /\ sp > 0
        /\ stack' = [stack EXCEPT ![sp - 1] = 0]
    BY <1>10 DEF Pop, At, op
  <2> DEFINE new == SubSeq(st, 1, n - 1)
  <2>2. Goes(1, << >>, new)
    <3>1. n >= 1
      BY <1>1, <2>1
    <3> QED BY <1>3, <2>1, <3>1, Zenon DEF Does
  <2>3. new \in Seq(Words) /\ Len(new) = sp - 1 /\ \A j \in 1 .. sp - 1 : new[j] = st[j]
    <3>1. 1 \in 0 .. n
      BY <1>1, <2>1
    <3> QED BY <1>1, <1>c, <3>1
  <2> HIDE DEF new
  <2>4. \A j \in 1 .. sp - 1 : new[j] = stack'[j - 1]
    <3> SUFFICES ASSUME NEW j \in 1 .. sp - 1 PROVE new[j] = stack'[j - 1]
      OBVIOUS
    <3>1. j - 1 \in Slots /\ j - 1 # sp - 1 /\ j \in 1 .. sp
      BY <1>1, <1>4
    <3> QED BY <1>1, <1>4, <2>1, <2>3, <3>1
  <2>5. new = Operands'
    BY <1>w, <2>1, <2>3, <2>4
  <2> QED BY <1>6, <1>7, <2>1, <2>2, <2>5, Zenon
<1>11. CASE Dup
  <2>1. /\ op = "Dup" /\ Absorb(1, << >>) /\ sp' = sp + 1 /\ sp > 0 /\ sp < Depth
        /\ stack' = [stack EXCEPT ![sp] = stack[sp - 1]]
    BY <1>11 DEF Dup, At, op
  <2> DEFINE new == Append(st, st[n])
  <2>2. Goes(1, << >>, new)
    <3>1. n >= 1
      BY <1>1, <2>1
    <3> QED BY <1>3, <2>1, <3>1, Zenon DEF Does
  <2>3. st[n] \in Words /\ st[n] = stack[sp - 1]
    BY <1>1, <2>1
  <2>4. /\ new \in Seq(Words) /\ Len(new) = sp + 1 /\ new[sp + 1] = st[n]
        /\ \A j \in 1 .. sp : new[j] = st[j]
    BY <1>1, <1>a, <2>3 DEF n
  <2> HIDE DEF new
  <2>5. \A j \in 1 .. sp + 1 : new[j] = stack'[j - 1]
    <3> SUFFICES ASSUME NEW j \in 1 .. sp + 1 PROVE new[j] = stack'[j - 1]
      OBVIOUS
    <3>1. j - 1 \in Slots /\ (j = sp + 1 \/ (j \in 1 .. sp /\ j - 1 # sp))
      BY <1>1, <1>4, <2>1
    <3> QED BY <1>1, <1>4, <2>1, <2>3, <2>4, <3>1
  <2>6. new = Operands'
    BY <1>w, <2>1, <2>4, <2>5
  <2> QED BY <1>6, <1>7, <2>1, <2>2, <2>6, Zenon
<1>12. CASE Swap
  <2>1. /\ op = "Swap" /\ Absorb(1, << >>) /\ sp' = sp /\ sp >= 2
        /\ stack' = [stack EXCEPT ![sp - 1] = stack[sp - 2], ![sp - 2] = stack[sp - 1]]
    BY <1>12 DEF Swap, At, op
  <2> DEFINE low == SubSeq(st, 1, n - 2)
             two == <<st[n], st[n - 1]>>
             new == low \o two
  <2>2. Goes(1, << >>, new)
    <3>1. n >= 2
      BY <1>1, <2>1
    <3> QED BY <1>3, <2>1, <3>1, Zenon DEF Does
  <2>3. /\ st[n] \in Words /\ st[n] = stack[sp - 1]
        /\ st[n - 1] \in Words /\ st[n - 1] = stack[sp - 2]
    <3>1. n \in 1 .. sp /\ n - 1 \in 1 .. sp /\ n = sp
      BY <1>1, <2>1
    <3> QED BY <1>1, <3>1
  <2>4. two \in Seq(Words) /\ Len(two) = 2 /\ two[1] = st[n] /\ two[2] = st[n - 1]
    BY <2>3
  <2>5. low \in Seq(Words) /\ Len(low) = sp - 2 /\ \A j \in 1 .. sp - 2 : low[j] = st[j]
    <3>1. 2 \in 0 .. n
      BY <1>1, <2>1
    <3> QED BY <1>1, <1>c, <3>1
  <2> HIDE DEF low, two
  <2>6. /\ new \in Seq(Words) /\ Len(new) = sp /\ new[sp - 1] = st[n] /\ new[sp] = st[n - 1]
        /\ \A j \in 1 .. sp - 2 : new[j] = st[j]
    <3>1. /\ new \in Seq(Words) /\ Len(new) = Len(low) + Len(two)
          /\ \A j \in 1 .. Len(low) : new[j] = low[j]
          /\ \A j \in 1 .. Len(two) : new[Len(low) + j] = two[j]
      BY <2>4, <2>5, ConcatenatedAt
    <3>2. Len(low) + 1 = sp - 1 /\ Len(low) + 2 = sp /\ 1 \in 1 .. Len(two) /\ 2 \in 1 .. Len(two)
      BY <1>1, <2>4, <2>5
    <3> HIDE DEF new
    <3>3. new[sp - 1] = two[1] /\ new[sp] = two[2]
      BY <3>1, <3>2
    <3> QED BY <1>1, <2>4, <2>5, <3>1, <3>3
  <2> HIDE DEF new
  <2>7. \A j \in 1 .. sp : new[j] = stack'[j - 1]
    <3> SUFFICES ASSUME NEW j \in 1 .. sp PROVE new[j] = stack'[j - 1]
      OBVIOUS
    <3>1. j - 1 \in Slots /\ sp - 1 \in Slots /\ sp - 2 \in Slots
      BY <1>1, <1>4, <2>1
    <3>2. CASE j = sp
      <4>1. stack'[sp - 1] = stack[sp - 2]
        BY <1>1, <1>4, <2>1, <3>1
      <4> QED BY <2>3, <2>6, <3>2, <4>1
    <3>3. CASE j = sp - 1
      <4>1. stack'[sp - 2] = stack[sp - 1] /\ j - 1 = sp - 2
        BY <1>1, <1>4, <2>1, <3>1, <3>3
      <4> QED BY <2>3, <2>6, <3>3, <4>1
    <3>4. CASE j \in 1 .. sp - 2
      <4>1. j - 1 # sp - 1 /\ j - 1 # sp - 2
        BY <1>1, <3>4
      <4>2. stack'[j - 1] = stack[j - 1]
        BY <1>4, <2>1, <3>1, <4>1
      <4> QED BY <1>1, <2>6, <3>4, <4>2
    <3>5. j = sp \/ j = sp - 1 \/ j \in 1 .. sp - 2
      BY <1>1
    <3> QED BY <3>2, <3>3, <3>4, <3>5
  <2>8. new = Operands'
    BY <1>w, <2>1, <2>6, <2>7
  <2> QED BY <1>6, <1>7, <2>1, <2>2, <2>8, Zenon
<1>13. CASE Rot
  <2>1. /\ op = "Rot" /\ Absorb(1, << >>) /\ sp' = sp
        /\ stack' = [k \in Slots |-> IF sp >= 2 /\ k < sp - 1 THEN stack[k + 1]
                                     ELSE IF sp >= 2 /\ k = sp - 1 THEN stack[0]
                                     ELSE stack[k]]
    BY <1>13 DEF Rot, At, op
  <2> DEFINE new == IF n < 2 THEN st ELSE Append(Tail(st), st[1])
  <2>2. Goes(1, << >>, new)
    BY <1>3, <2>1, Zenon DEF Does
  <2>a. \A k \in Slots : stack'[k] = IF sp >= 2 /\ k < sp - 1 THEN stack[k + 1]
                                     ELSE IF sp >= 2 /\ k = sp - 1 THEN stack[0]
                                     ELSE stack[k]
    BY <2>1
  <2>b. \A j \in 1 .. sp : j - 1 \in Slots
    BY <1>1, <1>4
  <2>3. CASE sp < 2
    <3>1. new = st
      BY <1>1, <2>3
    <3>2. \A j \in 1 .. sp : st[j] = stack'[j - 1]
      BY <1>1, <2>3, <2>a, <2>b
    <3>3. st = Operands'
      <4>1. Len(st) = sp' /\ \A j \in 1 .. sp' : st[j] = stack'[j - 1]
        BY <1>1, <2>1, <3>2 DEF n
      <4> QED BY <1>1, <1>w, <4>1
    <3> QED BY <1>6, <1>7, <2>1, <2>2, <3>1, <3>3, Zenon
  <2>4. CASE sp >= 2
    <3> DEFINE rest == Tail(st)
    <3>1. new = Append(rest, st[1]) /\ st # << >> /\ st[1] \in Words /\ st[1] = stack[0]
      <4>1. 1 \in 1 .. sp /\ 1 - 1 = 0 /\ ~(n < 2)
        BY <1>1, <2>4
      <4>2. st # << >>
        BY <1>1, <2>4 DEF n
      <4> QED BY <1>1, <4>1, <4>2
    <3>2. rest \in Seq(Words) /\ Len(rest) = sp - 1 /\ \A j \in 1 .. sp - 1 : rest[j] = st[j + 1]
      BY <1>1, <3>1 DEF n
    <3> HIDE DEF rest
    <3>3. /\ new \in Seq(Words) /\ Len(new) = sp /\ new[sp] = st[1]
          /\ \A j \in 1 .. sp - 1 : new[j] = rest[j]
      <4>1. Len(rest) + 1 = sp
        BY <1>1, <3>2
      <4> DEFINE a == Append(rest, st[1])
      <4>2. /\ a \in Seq(Words) /\ Len(a) = Len(rest) + 1 /\ a[Len(rest) + 1] = st[1]
            /\ \A j \in 1 .. Len(rest) : a[j] = rest[j]
        BY <1>a, <3>1, <3>2
      <4>3. new = a
        BY <3>1
      <4> HIDE DEF new, a
      <4> QED BY <3>2, <4>1, <4>2, <4>3
    <3> HIDE DEF new
    <3>4. \A j \in 1 .. sp : new[j] = stack'[j - 1]
      <4> SUFFICES ASSUME NEW j \in 1 .. sp PROVE new[j] = stack'[j - 1]
        OBVIOUS
      <4>1. CASE j = sp
        <5>1. stack'[j - 1] = stack[0]
          BY <1>1, <2>4, <2>a, <2>b, <4>1
        <5> QED BY <3>1, <3>3, <4>1, <5>1
      <4>2. CASE j \in 1 .. sp - 1
        <5>1. stack'[j - 1] = stack[j - 1 + 1]
          BY <1>1, <2>4, <2>a, <2>b, <4>2
        <5>2. j + 1 \in 1 .. sp /\ j - 1 + 1 = j + 1 - 1
          BY <1>1, <4>2
        <5>3. st[j + 1] = stack[j + 1 - 1]
          BY <1>1, <5>2
        <5> QED BY <3>2, <3>3, <4>2, <5>1, <5>2, <5>3
      <4> QED BY <1>1, <4>1, <4>2
    <3>5. new = Operands'
      BY <1>w, <2>1, <3>3, <3>4
    <3> QED BY <1>6, <1>7, <2>1, <2>2, <3>5, Zenon
  <2> QED BY <1>1, <2>3, <2>4
<1>14. CASE Not
  <2> DEFINE r == VmNot(stack[sp - 1])
             low == SubSeq(st, 1, n - 1)
             new == Append(low, r)
  <2>1. /\ op = "Not" /\ Absorb(1, <<r>>) /\ sp' = sp /\ sp > 0
        /\ stack' = [stack EXCEPT ![sp - 1] = r]
    BY <1>14 DEF Not, At, op
  <2>2. st[n] \in Words /\ st[n] = stack[sp - 1]
    BY <1>1, <2>1
  <2>3. r \in Words /\ r = Table(op, st[n], st[n])
    BY <2>1, <2>2, AluAssumption DEF TableAgrees
  <2> HIDE DEF r
  <2>4. Goes(1, <<r>>, new)
    <3>1. n >= 1
      BY <1>1, <2>1
    <3>2. Goes(1, <<Table(op, st[n], st[n])>>, Append(low, Table(op, st[n], st[n])))
      BY <1>3, <2>1, <3>1, Zenon DEF Does
    <3> QED BY <2>3, <3>2, Zenon
  <2>5. low \in Seq(Words) /\ Len(low) = sp - 1 /\ \A j \in 1 .. sp - 1 : low[j] = st[j]
    <3>1. 1 \in 0 .. n
      BY <1>1, <2>1
    <3> QED BY <1>1, <1>c, <3>1
  <2> HIDE DEF low
  <2>6. /\ new \in Seq(Words) /\ Len(new) = sp /\ new[sp] = r
        /\ \A j \in 1 .. sp - 1 : new[j] = st[j]
    <3>1. Len(low) + 1 = sp
      BY <1>1, <2>5
    <3> QED BY <1>a, <2>3, <2>5, <3>1
  <2> HIDE DEF new
  <2>7. \A j \in 1 .. sp : new[j] = stack'[j - 1]
    <3> SUFFICES ASSUME NEW j \in 1 .. sp PROVE new[j] = stack'[j - 1]
      OBVIOUS
    <3>1. j - 1 \in Slots /\ (j = sp \/ (j \in 1 .. sp - 1 /\ j - 1 # sp - 1))
      BY <1>1, <1>4
    <3> QED BY <1>1, <1>4, <2>1, <2>6, <3>1
  <2>8. new = Operands'
    BY <1>w, <2>1, <2>6, <2>7
  <2> QED BY <1>6, <1>7, <2>1, <2>3, <2>4, <2>8, Zenon
<1>15. CASE Binary
  <2> DEFINE r == Alu(op, stack[sp - 2], stack[sp - 1])
             low == SubSeq(st, 1, n - 2)
             new == Append(low, r)
  <2>1. /\ op \in BinaryOps /\ Absorb(1, <<r>>) /\ sp' = sp - 1 /\ sp >= 2
        /\ stack' = [stack EXCEPT ![sp - 1] = 0, ![sp - 2] = r]
    BY <1>15 DEF Binary, At, op
  <2>2. /\ st[n] \in Words /\ st[n] = stack[sp - 1]
        /\ st[n - 1] \in Words /\ st[n - 1] = stack[sp - 2]
    <3>1. n \in 1 .. sp /\ n - 1 \in 1 .. sp /\ n = sp
      BY <1>1, <2>1
    <3> QED BY <1>1, <3>1
  <2>3. r \in Words /\ r = Table(op, st[n - 1], st[n])
    <3>1. r = Alu(op, st[n - 1], st[n])
      BY <2>2
    <3> HIDE DEF r
    <3>2. Alu(op, st[n - 1], st[n]) \in Words
      BY <2>1, <2>2, AluAssumption
    <3>3. Alu(op, st[n - 1], st[n]) = Table(op, st[n - 1], st[n])
      BY <2>1, <2>2 DEF TableAgrees
    <3> QED BY <3>1, <3>2, <3>3
  <2> HIDE DEF r
  <2>4. Goes(1, <<r>>, new)
    <3>1. n >= 2
      BY <1>1, <2>1
    <3>2. Goes(1, <<Table(op, st[n - 1], st[n])>>, Append(low, Table(op, st[n - 1], st[n])))
      BY <1>3, <2>1, <3>1, Zenon DEF Does
    <3> QED BY <2>3, <3>2, Zenon
  <2>5. low \in Seq(Words) /\ Len(low) = sp - 2 /\ \A j \in 1 .. sp - 2 : low[j] = st[j]
    <3>1. 2 \in 0 .. n
      BY <1>1, <2>1
    <3> QED BY <1>1, <1>c, <3>1
  <2> HIDE DEF low
  <2>6. /\ new \in Seq(Words) /\ Len(new) = sp - 1 /\ new[sp - 1] = r
        /\ \A j \in 1 .. sp - 2 : new[j] = st[j]
    <3>1. Len(low) + 1 = sp - 1
      BY <1>1, <2>5
    <3> QED BY <1>a, <2>3, <2>5, <3>1
  <2> HIDE DEF new
  <2>7. \A j \in 1 .. sp - 1 : new[j] = stack'[j - 1]
    <3> SUFFICES ASSUME NEW j \in 1 .. sp - 1 PROVE new[j] = stack'[j - 1]
      OBVIOUS
    <3>1. j - 1 \in Slots /\ sp - 1 \in Slots /\ sp - 2 \in Slots /\ j - 1 # sp - 1
      BY <1>1, <1>4, <2>1
    <3>2. CASE j = sp - 1
      <4>1. j - 1 = sp - 2 /\ sp - 2 # sp - 1
        BY <1>1, <3>2
      <4>2. stack'[sp - 2] = r
        BY <1>4, <2>1, <3>1, <4>1
      <4> QED BY <2>6, <3>2, <4>1, <4>2
    <3>3. CASE j \in 1 .. sp - 2
      <4>1. j - 1 # sp - 2 /\ j \in 1 .. sp
        BY <1>1, <3>3
      <4>2. stack'[j - 1] = stack[j - 1]
        BY <1>4, <2>1, <3>1, <4>1
      <4> QED BY <1>1, <2>6, <3>3, <4>1, <4>2
    <3> QED BY <1>1, <3>2, <3>3
  <2>8. new = Operands'
    BY <1>w, <2>1, <2>6, <2>7
  <2> QED BY <1>6, <1>7, <2>1, <2>3, <2>4, <2>8, Zenon
<1> QED BY <1>8, <1>9, <1>10, <1>11, <1>12, <1>13, <1>14, <1>15 DEF Instruction


\* Where the code traps, the reference has no next instruction, or none that fits.
LEMMA TrapStops ==
  ASSUME TableAgrees, RefInv, status = "running", ip <= Len(code), Traps
  PROVE  Evaluate(code) = ZeroRoot
<1> DEFINE st == Operands
           n == Len(st)
           e == Effect(code, ip, st)
           op == Op
           Goes(w, tokens, new) == e.width = w /\ e.tokens = tokens /\ e.stack = new
<1>1. /\ st \in Seq(Words) /\ n = sp /\ sp \in Nat /\ sp <= Depth
      /\ \A j \in 1 .. sp : st[j] \in Words
  BY OperandsTyped DEF RefInv
<1>2. Does(code, ip, st, op, n, e)
  BY Effects DEF Op
<1>3. ip \in 1 .. Len(code) /\ code \in Seq(Words) /\ Depth \in Nat
  BY MicroVMAssumption DEF RefInv, TypeOK
<1>4. PICK f : Follows(code, f) /\ Evaluate(code) = Joined(trace, f[ip][st])
  BY DEF RefInv, OnTheWay
<1>5. f[ip][st] = Continued(code, f, ip, st)
  BY <1>1, <1>3, <1>4 DEF Follows
<1> HIDE DEF st, n, op
<1>6. ASSUME e.width = 0 \/ Len(e.stack) > Depth PROVE Evaluate(code) = ZeroRoot
  <2>1. ~(ip > Len(code))
    BY <1>3
  <2>2. Continued(code, f, ip, st) = ZeroRoot
    BY <1>6, <2>1 DEF Continued
  <2> QED BY <1>4, <1>5, <2>2 DEF Joined
<1> SUFFICES e.width = 0 \/ Len(e.stack) > Depth
  BY <1>6
<1> HIDE DEF e
<1>7. CASE op = "None"
  <2>1. ~(\/ op \in {"Nop", "Rot"}
          \/ op = "Push" /\ ip + 1 <= Len(code)
          \/ op \in {"Pop", "Dup", "Not"} /\ n >= 1
          \/ op \in BinaryOps \cup {"Swap"} /\ n >= 2)
    BY <1>7 DEF BinaryOps
  <2>2. Goes(0, << >>, << >>)
    BY <1>2, <2>1, Zenon DEF Does
  <2> QED BY <2>2
<1>8. CASE op = "Push" /\ ip + 1 > Len(code)
  <2>1. ~(\/ op \in {"Nop", "Rot"}
          \/ op = "Push" /\ ip + 1 <= Len(code)
          \/ op \in {"Pop", "Dup", "Not"} /\ n >= 1
          \/ op \in BinaryOps \cup {"Swap"} /\ n >= 2)
    BY <1>3, <1>8 DEF BinaryOps
  <2>2. Goes(0, << >>, << >>)
    BY <1>2, <2>1, Zenon DEF Does
  <2> QED BY <2>2
<1>9. CASE op = "Push" /\ ip + 1 <= Len(code) /\ sp >= Depth
  <2> DEFINE x == code[ip + 1]
  <2>1. Goes(2, <<x>>, Append(st, x))
    BY <1>2, <1>9, Zenon DEF Does
  <2>2. x \in Words
    BY <1>3, <1>9
  <2> HIDE DEF x
  <2>3. Len(Append(st, x)) = n + 1
    BY <1>1, <2>2, AppendedAt DEF n
  <2> QED BY <1>1, <1>3, <1>9, <2>1, <2>3
<1>10. CASE op = "Dup" /\ sp > 0 /\ sp >= Depth
  <2>1. n >= 1 /\ st[n] \in Words
    BY <1>1, <1>10
  <2>2. Goes(1, << >>, Append(st, st[n]))
    BY <1>2, <1>10, <2>1, Zenon DEF Does
  <2>3. Len(Append(st, st[n])) = n + 1
    BY <1>1, <2>1, AppendedAt DEF n
  <2> QED BY <1>1, <1>3, <1>10, <2>2, <2>3
<1>11. CASE op \in {"Pop", "Dup", "Not"} /\ sp = 0
  <2>1. ~(\/ op \in {"Nop", "Rot"}
          \/ op = "Push" /\ ip + 1 <= Len(code)
          \/ op \in {"Pop", "Dup", "Not"} /\ n >= 1
          \/ op \in BinaryOps \cup {"Swap"} /\ n >= 2)
    BY <1>1, <1>11 DEF BinaryOps
  <2>2. Goes(0, << >>, << >>)
    BY <1>2, <2>1, Zenon DEF Does
  <2> QED BY <2>2
<1>12. CASE op \in BinaryOps \cup {"Swap"} /\ sp < 2
  <2>1. ~(\/ op \in {"Nop", "Rot"}
          \/ op = "Push" /\ ip + 1 <= Len(code)
          \/ op \in {"Pop", "Dup", "Not"} /\ n >= 1
          \/ op \in BinaryOps \cup {"Swap"} /\ n >= 2)
    BY <1>1, <1>12 DEF BinaryOps
  <2>2. Goes(0, << >>, << >>)
    BY <1>2, <2>1, Zenon DEF Does
  <2> QED BY <2>2
<1>13. \/ op = "None"
       \/ op = "Push" /\ (ip + 1 > Len(code) \/ sp >= Depth)
       \/ op = "Dup" /\ (sp = 0 \/ sp >= Depth)
       \/ op \in {"Pop", "Not"} /\ sp = 0
       \/ op \in BinaryOps \cup {"Swap"} /\ sp < 2
  BY DEF Traps, op
<1>14. (ip + 1 > Len(code) \/ ip + 1 <= Len(code)) /\ (sp = 0 \/ sp > 0)
  BY <1>1, <1>3
<1> QED BY <1>7, <1>8, <1>9, <1>10, <1>11, <1>12, <1>13, <1>14

\* A program that is refused has the zero root in the reference, too.
LEMMA RefusedIsZero ==
  ASSUME TableAgrees, TypeOK, NEW c \in Programs, Refused(c)
  PROVE  Reference(c) = ZeroRoot
<1>0. c \in Seq(Words) /\ << >> \in Seq(Words)
  BY MicroVMAssumption
<1>1. CASE ~(Len(c) \in 1 .. MaxCode) \/ canary # "ok"
  BY <1>1 DEF Reference
<1>2. CASE Len(c) \in 1 .. MaxCode /\ canary = "ok"
  <2>1. from_u8(c[1]) = "None"
    BY <1>2 DEF Refused, Damaged
  <2>2. PICK f : Follows(c, f) /\ Evaluate(c) = f[1][<< >>]
    BY <1>0, EvaluationFollows
  <2>3. f[1][<< >>] = Continued(c, f, 1, << >>) /\ ~(1 > Len(c))
    <3>1. 1 \in 1 .. Len(c) + 1 /\ ~(1 > Len(c))
      BY <1>0, <1>2
    <3> QED BY <1>0, <2>2, <3>1 DEF Follows
  <2> DEFINE e == Effect(c, 1, << >>)
             op == from_u8(c[1])
             n == Len(<< >>)
  <2>4. Does(c, 1, << >>, op, n, e)
    BY Effects
  <2> HIDE DEF e, op, n
  <2>5. op = "None"
    BY <2>1 DEF op
  <2>6. e.width = 0
    <3>1. ~(\/ op \in {"Nop", "Rot"}
            \/ op = "Push" /\ 1 + 1 <= Len(c)
            \/ op \in {"Pop", "Dup", "Not"} /\ n >= 1
            \/ op \in BinaryOps \cup {"Swap"} /\ n >= 2)
      BY <2>5 DEF BinaryOps
    <3> QED BY <2>4, <3>1, Zenon DEF Does
  <2>7. Continued(c, f, 1, << >>) = ZeroRoot
    BY <2>3, <2>6 DEF Continued, e
  <2> QED BY <2>2, <2>3, <2>7 DEF Reference
<1> QED BY <1>1, <1>2

\* A program that is entered.
LEMMA EnteredIsOnTheWay ==
  ASSUME TableAgrees, RefInv, NEW c \in Programs, Enter(c)
  PROVE  OnTheWay'
<1>0. c \in Seq(Words) /\ << >> \in Seq(Words)
  BY MicroVMAssumption
<1>1. /\ status' = "running" /\ code' = c /\ ip' = 1 /\ stack' = Blank /\ sp' = 0
      /\ trace' = << >> /\ canary' = canary /\ Len(c) \in 1 .. MaxCode /\ ~Damaged
  BY DEF Enter, Refused
<1>2. canary = "ok"
  BY <1>1 DEF Damaged, RefInv, TypeOK
<1>3. PICK f : Follows(c, f) /\ Evaluate(c) = f[1][<< >>]
  BY <1>0, EvaluationFollows
<1>4. Operands' = << >>
  <2>1. 1 .. sp' = {}
    BY <1>1
  <2> QED BY <2>1 DEF Operands
<1>5. f[1][<< >>] \in Seq(Nat)
  <2>1. 1 \in 1 .. Len(c) + 1
    BY <1>0
  <2> QED BY <1>0, <1>3, <2>1, FollowsTyped
<1>6. Joined(<< >>, f[1][<< >>]) = f[1][<< >>]
  BY <1>5 DEF Joined
<1>7. Follows(code', f) /\ Evaluate(code') = Joined(trace', f[ip'][Operands'])
  BY <1>1, <1>3, <1>4, <1>6
<1>8. /\ canary' = "ok" /\ Len(code') \in 1 .. MaxCode /\ ip' <= Len(code') + 1
      /\ \E g : Follows(code', g) /\ Evaluate(code') = Joined(trace', g[ip'][Operands'])
  BY <1>1, <1>2, <1>7
<1> QED BY <1>8 DEF OnTheWay, Follows, Continued, Effect, Evaluate, Joined

\* The end of the code: only the depth is left to absorb.
LEMMA FinishedIsReference ==
  ASSUME TableAgrees, RefInv, Finish
  PROVE  RootIsReference'
<1>1. /\ status = "running" /\ ip > Len(code) /\ canary' = canary
      /\ answer' = [code |-> code, root |-> IF Damaged THEN ZeroRoot ELSE Append(trace, sp)]
  BY DEF Finish, Leave, Answer
<1>2. /\ canary = "ok" /\ Len(code) \in 1 .. MaxCode /\ ip <= Len(code) + 1
      /\ \E f : Follows(code, f) /\ Evaluate(code) = Joined(trace, f[ip][Operands])
  BY <1>1 DEF RefInv, OnTheWay
<1>3. PICK f : Follows(code, f) /\ Evaluate(code) = Joined(trace, f[ip][Operands])
  BY <1>2
<1>4. ip \in Nat /\ code \in Seq(Words) /\ trace \in Seq(Nat)
  BY DEF RefInv, TypeOK
<1>5. Operands \in Seq(Words) /\ Len(Operands) = sp /\ sp \in Nat
  BY OperandsTyped DEF RefInv
<1>6. f[ip][Operands] = <<sp>>
  <2>1. ip \in 1 .. Len(code) + 1
    BY <1>1, <1>2, <1>4
  <2>2. f[ip][Operands] = Continued(code, f, ip, Operands)
    BY <1>3, <1>5, <2>1 DEF Follows
  <2> QED BY <1>1, <1>5, <2>2 DEF Continued
<1>7. Joined(trace, <<sp>>) = Append(trace, sp)
  BY <1>4, <1>5 DEF Joined, ZeroRoot
<1>8. answer'.root = Append(trace, sp) /\ answer'.code = code
  BY <1>1, <1>2 DEF Damaged
<1>9. answer'.root = IF Len(answer'.code) \in 1 .. MaxCode /\ canary' = "ok"
                     THEN Evaluate(answer'.code) ELSE ZeroRoot
  BY <1>1, <1>2, <1>3, <1>6, <1>7, <1>8
<1> QED BY <1>9 DEF RootIsReference, Reference, Evaluate, Effect

LEMMA RefStep == TableAgrees /\ RefInv /\ [MicroVMNext]_vmVars => RefInv'
<1> SUFFICES ASSUME TableAgrees, RefInv, [MicroVMNext]_vmVars PROVE RefInv'
  OBVIOUS
<1>0. TypeOK'
  BY TypeStep DEF RefInv
<1> SUFFICES OnTheWay' /\ RootIsReference'
  BY <1>0 DEF RefInv
<1>1. CASE Instruction
  <2>1. OnTheWay'
    BY <1>0, <1>1, InstructionGoes
  <2>2. status' = "running"
    BY <1>1 DEF Instruction, Nop, Push, Pop, Dup, Swap, Rot, Binary, Not, At, Absorb
  <2> QED BY <2>1, <2>2 DEF RootIsReference
<1>2. CASE (\E c \in Canaries : Create(c)) \/ Drop \/ Take
  <2>1. status' \in {"absent", "idle"}
    BY <1>2 DEF Create, Drop, Take
  <2> QED BY <2>1 DEF OnTheWay, RootIsReference
<1>3. ASSUME NEW c \in Programs, Refuse(c) PROVE OnTheWay' /\ RootIsReference'
  <2>1. /\ status' = "done" /\ answer' = [code |-> c, root |-> ZeroRoot] /\ canary' = canary
        /\ Refused(c)
    BY <1>3 DEF Refuse, Answer
  <2>2. Reference(c) = ZeroRoot
    BY <2>1, RefusedIsZero DEF RefInv
  <2>3. answer'.root = ZeroRoot /\ answer'.code = c
    BY <2>1
  <2>4. answer'.root = IF Len(answer'.code) \in 1 .. MaxCode /\ canary' = "ok"
                       THEN Evaluate(answer'.code) ELSE ZeroRoot
    BY <2>1, <2>2, <2>3 DEF Reference
  <2>5. RootIsReference'
    BY <2>4 DEF RootIsReference, Reference, Evaluate, Effect
  <2> QED BY <2>1, <2>5 DEF OnTheWay
<1>4. ASSUME NEW c \in Programs, Enter(c) PROVE OnTheWay' /\ RootIsReference'
  <2>1. OnTheWay' /\ status' = "running"
    BY <1>4, EnteredIsOnTheWay DEF Enter
  <2> QED BY <2>1 DEF RootIsReference
<1>5. CASE Trap
  <2>1. /\ status = "running" /\ ip <= Len(code) /\ Traps /\ canary' = canary
        /\ status' = "done" /\ answer' = [code |-> code, root |-> ZeroRoot]
    BY <1>5 DEF Trap, Leave, Answer
  <2>2. Evaluate(code) = ZeroRoot
    BY <2>1, TrapStops
  <2>3. answer'.root = ZeroRoot /\ answer'.code = code
    BY <2>1
  <2>4. answer'.root = IF Len(answer'.code) \in 1 .. MaxCode /\ canary' = "ok"
                       THEN Evaluate(answer'.code) ELSE ZeroRoot
    BY <2>2, <2>3
  <2>5. RootIsReference'
    BY <2>4 DEF RootIsReference, Reference, Evaluate, Effect
  <2> QED BY <2>1, <2>5 DEF OnTheWay
<1>6. CASE Finish
  <2>1. RootIsReference' /\ status' = "done"
    BY <1>6, FinishedIsReference DEF Finish, Leave, Answer
  <2> QED BY <2>1 DEF OnTheWay
<1>7. CASE UNCHANGED vmVars
  <2>1. /\ status' = status /\ canary' = canary /\ code' = code /\ ip' = ip
        /\ trace' = trace /\ answer' = answer /\ stack' = stack /\ sp' = sp
    BY <1>7 DEF vmVars
  <2>2. Operands' = Operands
    BY <2>1 DEF Operands
  <2>3. OnTheWay'
    <3>1. status' = "running" =>
            /\ canary' = "ok" /\ Len(code') \in 1 .. MaxCode /\ ip' <= Len(code') + 1
            /\ \E f : Follows(code', f) /\ Evaluate(code') = Joined(trace', f[ip'][Operands'])
      BY <2>1, <2>2 DEF RefInv, OnTheWay
    <3> QED BY <3>1 DEF OnTheWay, Follows, Continued, Effect, Evaluate, Joined
  <2>4. status' = "done" =>
          answer'.root = IF Len(answer'.code) \in 1 .. MaxCode /\ canary' = "ok"
                         THEN Evaluate(answer'.code) ELSE ZeroRoot
    BY <2>1 DEF RefInv, RootIsReference, Reference
  <2> QED BY <2>3, <2>4 DEF RootIsReference, Reference, Evaluate, Effect
<1> QED BY <1>1, <1>2, <1>3, <1>4, <1>5, <1>6, <1>7 DEF MicroVMNext, Execute

\* Provided that the arithmetic of the code is that of the opcode table, execute answers what
\* the table says (vm.rs:147-359): for every set of programs, stack depth, code limit and word
\* size, after any number of programs on the same VM.
THEOREM AnswersAreTheTables == TableAgrees => (MicroVMSpec => []RootIsReference)
<1> SUFFICES ASSUME TableAgrees PROVE MicroVMSpec => []RootIsReference
  OBVIOUS
<1>1. MicroVMInit => RefInv
  BY TypeInit DEF MicroVMInit, RefInv, OnTheWay, RootIsReference
<1>2. RefInv /\ [MicroVMNext]_vmVars => RefInv'
  BY RefStep
<1>3. RefInv => RootIsReference
  BY DEF RefInv
<1> QED BY <1>1, <1>2, <1>3, PTL DEF MicroVMSpec
=============================================================================
