------------------------------ MODULE MicroVM ------------------------------
(***************************************************************************)
(* The MicroVM of src/src/execution/vm.rs: MicroVM::new, execute and Drop, *)
(* one action per instruction.                                             *)
(*                                                                         *)
(* A code byte is a number; the eight bytes of an immediate are one cell   *)
(* of the model, and so is a u64 absorbed into the trace.  The root is the *)
(* hash of the trace, so it is modelled by the trace itself, and the       *)
(* all-zero root by the empty one.  What the binary operations compute is  *)
(* the subject of VmAlu.                                                   *)
(***************************************************************************)
EXTENDS Naturals, Sequences

CONSTANTS
  Programs,    \* bytecodes given to execute
  MaxCode,     \* MAX_CODE
  Depth,       \* STACK_DEPTH
  Words,       \* values of a stack slot (u64)
  Alu(_, _, _), \* result of a binary operation
  VmNot(_),    \* bitwise complement
  Table(_, _, _), \* what the opcode table in the documentation says of both
  Canaries     \* classes of canaries new() or with_canary() may be given

ASSUME MicroVMAssumption ==
  /\ Programs \subseteq Seq(Words)  \* any cell may be read as an immediate
  /\ MaxCode \in Nat /\ Depth \in Nat
  /\ 0 \in Words /\ Words \subseteq Nat
  /\ Canaries \subseteq {"zero", "max", "ok"}

BinaryOps == {"Add", "Xor", "Mul", "Div", "And", "Or", "Shl", "Shr", "Eq", "Lt"}

ASSUME AluAssumption ==
  /\ \A op \in BinaryOps, a, b \in Words : Alu(op, a, b) \in Words
  /\ \A a \in Words : VmNot(a) \in Words

VARIABLES
  status,      \* "absent", "idle", "running", or "done": the caller has the root
  canary,      \* class of the field canary
  code, ip,    \* the program and the next position in it (1-based)
  stack, sp,   \* the operand stack: slots 0 .. Depth-1
  trace,       \* what the accumulator has absorbed
  answer       \* the code and the root of the call that has just returned

vmVars == <<status, canary, code, ip, stack, sp, trace, answer>>

Slots == 0 .. Depth - 1
Blank == [k \in Slots |-> 0]
ZeroRoot == << >>
NoAnswer == [code |-> << >>, root |-> ZeroRoot]

TypeOK ==
  /\ status \in {"absent", "idle", "running", "done"}
  /\ canary \in {"zero", "max", "ok"}
  /\ code \in Seq(Words)
  /\ ip \in Nat \ {0}
  /\ stack \in [Slots -> Words]
  /\ sp \in 0 .. Depth
  /\ trace \in Seq(Nat)
  /\ answer \in [code : Seq(Words), root : Seq(Nat)]

OpNames == <<"Nop", "Add", "Xor", "Mul", "Div", "Push", "Pop", "Dup", "Swap",
             "And", "Or", "Not", "Shl", "Shr", "Rot", "Eq", "Lt">>

\* OpCode::from_u8
from_u8(b) == IF b \in 0 .. 16 THEN OpNames[b + 1] ELSE "None"

MicroVMInit ==
  /\ status = "absent" /\ canary = "zero"
  /\ code = << >> /\ ip = 1
  /\ stack = Blank /\ sp = 0
  /\ trace = << >> /\ answer = NoAnswer

----------------------------------------------------------------------------
\* new() and with_canary(); the result of getrandom is ignored, so a failed
\* draw gives the canary zero.
Create(c) ==
  /\ status = "absent"
  /\ status' = "idle" /\ canary' = c
  /\ stack' = Blank /\ sp' = 0
  /\ UNCHANGED <<code, ip, trace, answer>>

\* Drop: wipe_state, and the canary is zeroized.
Drop ==
  /\ status = "idle"
  /\ status' = "absent" /\ canary' = "zero"
  /\ stack' = Blank /\ sp' = 0
  /\ UNCHANGED <<code, ip, trace, answer>>

Damaged == canary \in {"zero", "max"}

\* The guards of execute, before anything is touched.
Refused(c) ==
  ~(Len(c) \in 1 .. MaxCode /\ from_u8(c[1]) # "None" /\ ~Damaged)

Answer(c, r) == status' = "done" /\ answer' = [code |-> c, root |-> r]

Refuse(c) ==
  /\ Refused(c)
  /\ Answer(c, ZeroRoot)
  /\ UNCHANGED <<canary, code, ip, stack, sp, trace>>

\* The stack is reset and the trace started.
Enter(c) ==
  /\ ~Refused(c)
  /\ status' = "running" /\ code' = c /\ ip' = 1
  /\ stack' = Blank /\ sp' = 0 /\ trace' = << >>
  /\ UNCHANGED <<canary, answer>>

\* A call of execute.
Execute ==
  /\ status = "idle"
  /\ \E c \in Programs : Refuse(c) \/ Enter(c)

\* The caller goes on with the root; nothing of the VM changes.
Take ==
  /\ status = "done"
  /\ status' = "idle" /\ answer' = NoAnswer
  /\ UNCHANGED <<canary, code, ip, stack, sp, trace>>

----------------------------------------------------------------------------
(* One instruction                                                         *)

Op == from_u8(code[ip])

At(ops) == status = "running" /\ ip <= Len(code) /\ Op \in ops

\* Advance over the instruction, absorbing its opcode and what it computed.
Absorb(width, tokens) ==
  /\ ip' = ip + width
  /\ trace' = trace \o <<code[ip]>> \o tokens
  /\ UNCHANGED <<status, canary, code, answer>>

\* Mutant of Nop: the program counter is not advanced.
NopStays == At({"Nop"}) /\ Absorb(0, << >>) /\ UNCHANGED <<stack, sp>>

Nop == At({"Nop"}) /\ Absorb(1, << >>) /\ UNCHANGED <<stack, sp>>

\* Mutant of Push: the immediate is not absorbed.
PushUnabsorbed ==
  /\ At({"Push"}) /\ ip + 1 <= Len(code) /\ sp < Depth
  /\ stack' = [stack EXCEPT ![sp] = code[ip + 1]] /\ sp' = sp + 1
  /\ Absorb(2, << >>)

Push ==
  /\ At({"Push"}) /\ ip + 1 <= Len(code) /\ sp < Depth
  /\ stack' = [stack EXCEPT ![sp] = code[ip + 1]] /\ sp' = sp + 1
  /\ Absorb(2, <<code[ip + 1]>>)

\* Mutant of Pop: the freed slot keeps its value.
PopUnwiped ==
  /\ At({"Pop"}) /\ sp > 0
  /\ sp' = sp - 1 /\ UNCHANGED stack
  /\ Absorb(1, << >>)

\* pop() wipes the slot it frees.
Pop ==
  /\ At({"Pop"}) /\ sp > 0
  /\ stack' = [stack EXCEPT ![sp - 1] = 0] /\ sp' = sp - 1
  /\ Absorb(1, << >>)

\* Mutant of Dup: the test for a full stack is off by one.
DupTooDeep ==
  /\ At({"Dup"}) /\ sp > 0 /\ sp <= Depth
  /\ stack' = [stack EXCEPT ![sp] = stack[sp - 1]] /\ sp' = sp + 1
  /\ Absorb(1, << >>)

Dup ==
  /\ At({"Dup"}) /\ sp > 0 /\ sp < Depth
  /\ stack' = [stack EXCEPT ![sp] = stack[sp - 1]] /\ sp' = sp + 1
  /\ Absorb(1, << >>)

Swap ==
  /\ At({"Swap"}) /\ sp >= 2
  /\ stack' = [stack EXCEPT ![sp - 1] = stack[sp - 2], ![sp - 2] = stack[sp - 1]]
  /\ UNCHANGED sp
  /\ Absorb(1, << >>)

\* The bottom element moves to the top; with fewer than two nothing moves.
Rot ==
  /\ At({"Rot"})
  /\ stack' = [k \in Slots |-> IF sp >= 2 /\ k < sp - 1 THEN stack[k + 1]
                               ELSE IF sp >= 2 /\ k = sp - 1 THEN stack[0]
                               ELSE stack[k]]
  /\ UNCHANGED sp
  /\ Absorb(1, << >>)

\* Mutant of Binary: what is popped first is taken for the first operand.
BinaryReversed ==
  /\ At(BinaryOps) /\ sp >= 2
  /\ LET result == Alu(Op, stack[sp - 1], stack[sp - 2])
     IN  /\ stack' = [stack EXCEPT ![sp - 1] = 0, ![sp - 2] = result]
         /\ Absorb(1, <<result>>)
  /\ sp' = sp - 1

\* pop b, pop a, push the result.
Binary ==
  /\ At(BinaryOps) /\ sp >= 2
  /\ LET result == Alu(Op, stack[sp - 2], stack[sp - 1])
     IN  /\ stack' = [stack EXCEPT ![sp - 1] = 0, ![sp - 2] = result]
         /\ Absorb(1, <<result>>)
  /\ sp' = sp - 1

Not ==
  /\ At({"Not"}) /\ sp > 0
  /\ LET result == VmNot(stack[sp - 1])
     IN  /\ stack' = [stack EXCEPT ![sp - 1] = result]
         /\ Absorb(1, <<result>>)
  /\ UNCHANGED sp

----------------------------------------------------------------------------
(* Leaving execute                                                         *)

\* The conditions under which an instruction returns the zero root.
Traps ==
  \/ Op = "None"
  \/ Op = "Push" /\ (ip + 1 > Len(code) \/ sp >= Depth)
  \/ Op = "Dup" /\ (sp = 0 \/ sp >= Depth)
  \/ Op \in {"Pop", "Not"} /\ sp = 0
  \/ Op \in BinaryOps \cup {"Swap"} /\ sp < 2

\* wipe_state and return; the locals go out of scope.
Leave(r) ==
  /\ Answer(code, r)
  /\ stack' = Blank /\ sp' = 0
  /\ code' = << >> /\ ip' = 1 /\ trace' = << >>
  /\ UNCHANGED canary

Trap == status = "running" /\ ip <= Len(code) /\ Traps /\ Leave(ZeroRoot)

\* The end of the code: the second canary check, the depth, the root.
Finish ==
  /\ status = "running" /\ ip > Len(code)
  /\ Leave(IF Damaged THEN ZeroRoot ELSE Append(trace, sp))

Instruction == Nop \/ Push \/ Pop \/ Dup \/ Swap \/ Rot \/ Binary \/ Not

MicroVMNext ==
  \/ \E c \in Canaries : Create(c)
  \/ Drop
  \/ Execute \/ Take \/ Instruction \/ Trap \/ Finish

MicroVMSpec == MicroVMInit /\ [][MicroVMNext]_vmVars

----------------------------------------------------------------------------
\* The code a trace was absorbed from: computed values are skipped, and the
\* last token is the depth.
CodeOf(t) ==
  LET from[k \in 1 .. Len(t) + 1] ==
        IF k >= Len(t) THEN << >>
        ELSE LET op == from_u8(t[k])
             IN  CASE op = "Push" -> <<t[k], t[k + 1]>> \o from[k + 2]
                   [] op \in BinaryOps \cup {"Not"} -> <<t[k]>> \o from[k + 2]
                   [] OTHER -> <<t[k]>> \o from[k + 1]
  IN  from[1]

----------------------------------------------------------------------------
(* The reference: the opcode table at the head of vm.rs, on a stack that is  *)
(* a sequence with its top at the end.                                       *)

\* The arithmetic of the code is that of the opcode table.
TableAgrees ==
  /\ \A op \in BinaryOps, a, b \in Words : Alu(op, a, b) = Table(op, a, b)
  /\ \A a \in Words : VmNot(a) = Table("Not", a, a)

\* What the instruction at k of the code c does to the stack st: the cells it takes, what
\* it computes and the new stack.  One that cannot be executed takes none.
Effect(c, k, st) ==
  LET op == from_u8(c[k])
      n  == Len(st)
      Below(m) == SubSeq(st, 1, n - m)
      Goes(w, tokens, new) == [width |-> w, tokens |-> tokens, stack |-> new]
  IN  CASE op = "Nop" -> Goes(1, << >>, st)
        [] op = "Push" /\ k + 1 <= Len(c) -> Goes(2, <<c[k + 1]>>, Append(st, c[k + 1]))
        [] op = "Pop" /\ n >= 1 -> Goes(1, << >>, Below(1))
        [] op = "Dup" /\ n >= 1 -> Goes(1, << >>, Append(st, st[n]))
        [] op = "Swap" /\ n >= 2 -> Goes(1, << >>, Below(2) \o <<st[n], st[n - 1]>>)
        [] op = "Rot" -> Goes(1, << >>, IF n < 2 THEN st ELSE Append(Tail(st), st[1]))
        [] op = "Not" /\ n >= 1 ->
             LET r == Table(op, st[n], st[n]) IN Goes(1, <<r>>, Append(Below(1), r))
        [] op \in BinaryOps /\ n >= 2 ->
             LET r == Table(op, st[n - 1], st[n]) IN Goes(1, <<r>>, Append(Below(2), r))
        [] OTHER -> Goes(0, << >>, << >>)

\* The whole code: what is absorbed from position k on with the stack st, the depth at the
\* end included; the zero root if it does not run to its end.
Evaluate(c) ==
  LET rest[k \in 1 .. Len(c) + 1] ==
        [st \in Seq(Words) |->
           IF k > Len(c) THEN <<Len(st)>>
           ELSE LET e == Effect(c, k, st)
                IN  IF e.width = 0 \/ Len(e.stack) > Depth THEN ZeroRoot
                    ELSE IF rest[k + e.width][e.stack] = ZeroRoot THEN ZeroRoot
                    ELSE <<c[k]>> \o e.tokens \o rest[k + e.width][e.stack]]
  IN  rest[1][<< >>]

Reference(c) ==
  IF Len(c) \in 1 .. MaxCode /\ canary = "ok" THEN Evaluate(c) ELSE ZeroRoot

----------------------------------------------------------------------------
(* Properties                                                              *)

\* No operand survives: the slots at and above sp are zero while a program runs,
\* and the whole stack is zero whenever execute has returned, on every path.
NoStaleSlots ==
  /\ \A k \in Slots : k >= sp => stack[k] = 0
  /\ status # "running" => sp = 0

\* execute answers what the opcode table of vm.rs says, and only that: a program
\* that runs to its end on a VM with an intact canary gets the root of its trace,
\* every other one the zero root, whatever the VM ran before (vm.rs:147).
RootIsReference == status = "done" => answer.root = Reference(answer.code)

\* The trace has a left inverse, so two programs never share a non-zero root:
\* computed values and immediates cannot be mistaken for opcodes.
TraceTellsCode ==
  answer.root # ZeroRoot => CodeOf(answer.root) = answer.code

\* Every step inside execute moves forward in one and the same program, so a
\* program of n bytes runs at most n instructions.
EveryStepAdvances ==
  [][status = "running" /\ status' = "running" => ip' > ip /\ code' = code]_vmVars
=============================================================================
