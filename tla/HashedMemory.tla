---------------------------- MODULE HashedMemory ----------------------------
(***************************************************************************)
(* What the oblivious RAM is as a memory, without its scans: cells that    *)
(* hold the hash of what was last written, and operations that are         *)
(* requested, take effect at once and return.                              *)
(***************************************************************************)
CONSTANTS
  Cells, Values, Genesis,
  Hash(_),     \* what is stored when a value is written
  Updates      \* the functions given to read_modify_write

VARIABLES
  mem, reply,
  call         \* the operation in progress, and whether it has taken effect

vars == <<mem, reply, call>>

Idle == [op |-> "none"]
Call(o, c, d, done) == [op |-> o, c |-> c, d |-> d, done |-> done]

Init == mem = [c \in Cells |-> Genesis] /\ reply = Genesis /\ call = Idle

Request(o, c, d) ==
  /\ call = Idle /\ call' = Call(o, c, d, FALSE)
  /\ UNCHANGED <<mem, reply>>

Read(c) ==
  /\ call = Call("read", c, c, FALSE) /\ call' = Idle
  /\ reply' = mem[c] /\ UNCHANGED mem

\* A write takes effect when it is requested.
Write(c, v) ==
  /\ call = Idle /\ call' = Call("write", c, c, TRUE)
  /\ mem' = [mem EXCEPT ![c] = Hash(v)] /\ UNCHANGED reply

ReadModifyWrite(c, f) ==
  /\ call = Call("rmw", c, c, FALSE) /\ call' = Call("rmw", c, c, TRUE)
  /\ reply' = f[mem[c]]
  /\ mem' = [mem EXCEPT ![c] = Hash(f[mem[c]])]

Swap(c, d) ==
  /\ call = Call("swap", c, d, FALSE) /\ call' = Call("swap", c, d, TRUE)
  /\ mem' = [mem EXCEPT ![c] = mem[d], ![d] = mem[c]]
  /\ UNCHANGED reply

\* No operation returns before it has taken effect.
Return ==
  /\ call # Idle /\ call.done /\ call' = Idle
  /\ UNCHANGED <<mem, reply>>

Clear ==
  /\ call = Idle /\ UNCHANGED call
  /\ mem' = [c \in Cells |-> Genesis] /\ UNCHANGED reply

Next ==
  \/ \E c \in Cells :
       \/ Request("read", c, c) \/ Request("rmw", c, c)
       \/ Read(c)
       \/ \E v \in Values : Write(c, v)
       \/ \E f \in Updates : ReadModifyWrite(c, f)
       \/ \E d \in Cells : Request("swap", c, d) \/ Swap(c, d)
  \/ Return \/ Clear

Spec == Init /\ [][Next]_vars
=============================================================================
