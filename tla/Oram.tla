-------------------------------- MODULE Oram --------------------------------
(***************************************************************************)
(* The oblivious RAM of src/src/storage/oram.rs.  Every operation scans    *)
(* all slots; a mask computed from the comparison i == index decides what  *)
(* a slot takes part in.  One action processes one slot of a scan, and     *)
(* `bus` records what an observer of the memory bus sees of it.            *)
(***************************************************************************)
EXTENDS Naturals, Sequences

CONSTANTS
  Size,        \* slots (256)
  Addrs,       \* addresses a caller passes; they are reduced with & 0xFF
  Values,      \* contents of a slot
  Genesis,     \* the all-zero content
  Hash(_),     \* oram_hash
  Updates      \* the functions passed to read_modify_write

ASSUME OramAssumption ==
  /\ Size \in Nat \ {0} /\ Addrs \subseteq Nat
  /\ Genesis \in Values
  /\ \A v \in Values : Hash(v) \in Values
  /\ Updates \subseteq [Values -> Values]

VARIABLES
  data,        \* the contents of the slots
  op,          \* the operation in progress, or "none"
  phase,       \* "gather": a scan that reads; "scatter": one that writes
  a, b,        \* the target indices (b = a except for swap)
  i,           \* next slot of the scan
  got_a, got_b, \* accumulators of the reading scan
  put_a, put_b, \* values the writing scan stores at a and at b
  returning,      \* the value to return
  reply,       \* the last value returned
  bus,         \* bus traffic of the operation
  temps        \* local buffers that hold contents of slots

oramVars == <<data, op, phase, a, b, i, got_a, got_b, put_a, put_b, returning, reply, bus, temps>>

OramSlots == 0 .. Size - 1
Ops == {"read", "write", "rmw", "swap"}

OramTypeOK ==
  /\ data \in [OramSlots -> Values]
  /\ op \in Ops \cup {"none"} /\ phase \in {"gather", "scatter"}
  /\ a \in OramSlots /\ b \in OramSlots /\ i \in 0 .. Size
  /\ {got_a, got_b, put_a, put_b, returning, reply} \subseteq Values
  /\ bus \in Seq(OramSlots \X {"load", "store"})
  /\ temps \subseteq {"value", "hashed", "old_value", "new_hashed", "val_a", "val_b"}

OramInit ==
  /\ data = [s \in OramSlots |-> Genesis]
  /\ op = "none" /\ phase = "gather" /\ a = 0 /\ b = 0 /\ i = 0
  /\ got_a = Genesis /\ got_b = Genesis /\ put_a = Genesis /\ put_b = Genesis
  /\ returning = Genesis /\ reply = Genesis /\ bus = << >> /\ temps = {}

----------------------------------------------------------------------------
Index(addr) == addr % Size      \* addr & 0xFF

Begin(o, x, y, ph) ==
  /\ op = "none"
  /\ op' = o /\ phase' = ph /\ a' = Index(x) /\ b' = Index(y)
  /\ i' = 0 /\ bus' = << >>
  /\ got_a' = Genesis /\ got_b' = Genesis
  /\ UNCHANGED <<data, reply>>

BeginRead(x) ==
  /\ Begin("read", x, x, "gather")
  /\ temps' = {} /\ UNCHANGED <<put_a, put_b, returning>>

\* The value arrives in a by-value argument and is hashed first.
BeginWrite(x, v) ==
  /\ Begin("write", x, x, "scatter")
  /\ put_a' = Hash(v) /\ put_b' = Hash(v)
  /\ temps' = {"value", "hashed"} /\ UNCHANGED returning

BeginRmw(x) ==
  /\ Begin("rmw", x, x, "gather")
  /\ temps' = {"old_value"} /\ UNCHANGED <<put_a, put_b, returning>>

BeginSwap(x, y) ==
  /\ Begin("swap", x, y, "gather")
  /\ temps' = {"val_a", "val_b"} /\ UNCHANGED <<put_a, put_b, returning>>

\* (old & !mask) | (new & mask)
Select(target, new, old) == IF i = target THEN new ELSE old

\* Mutant of Gather: the scan stops once the target is found.
GatherEarlyExit ==
  /\ op # "none" /\ phase = "gather" /\ i < Size
  /\ got_a' = Select(a, data[i], got_a)
  /\ got_b' = Select(b, data[i], got_b)
  /\ bus' = Append(bus, <<i, "load">>)
  /\ i' = IF i = a THEN Size ELSE i + 1
  /\ UNCHANGED <<data, op, phase, a, b, put_a, put_b, returning, reply, temps>>

\* One slot of a reading scan: content and padding are loaded.
Gather ==
  /\ op # "none" /\ phase = "gather" /\ i < Size
  /\ got_a' = Select(a, data[i], got_a)
  /\ got_b' = Select(b, data[i], got_b)
  /\ bus' = Append(bus, <<i, "load">>)
  /\ i' = i + 1
  /\ UNCHANGED <<data, op, phase, a, b, put_a, put_b, returning, reply, temps>>

\* One slot of a writing scan: the content is loaded and stored back, changed or
\* not.  b is selected after a, on what a left.
Scatter ==
  /\ op # "none" /\ phase = "scatter" /\ i < Size
  /\ data' = [data EXCEPT ![i] = Select(b, put_b, Select(a, put_a, data[i]))]
  /\ bus' = Append(bus, <<i, "store">>)
  /\ i' = i + 1
  /\ UNCHANGED <<op, phase, a, b, got_a, got_b, put_a, put_b, returning, reply, temps>>

\* read returns what it gathered.
EndRead ==
  /\ op = "read" /\ i = Size
  /\ op' = "none" /\ reply' = got_a
  /\ UNCHANGED <<data, phase, a, b, i, got_a, got_b, put_a, put_b, returning, bus, temps>>

\* read_modify_write between its scans: f is applied, the result hashed; what is
\* wiped is old_wipe, a copy of old_value.
Modify(f) ==
  /\ op = "rmw" /\ phase = "gather" /\ i = Size
  /\ phase' = "scatter" /\ i' = 0
  /\ returning' = f[got_a] /\ put_a' = Hash(f[got_a]) /\ put_b' = Hash(f[got_a])
  /\ temps' = temps \cup {"new_hashed"}
  /\ UNCHANGED <<data, op, a, b, got_a, got_b, reply, bus>>

\* Mutant of Cross: the two values are written back where they came from.
CrossStraight ==
  /\ op = "swap" /\ phase = "gather" /\ i = Size
  /\ phase' = "scatter" /\ i' = 0
  /\ put_a' = got_a /\ put_b' = got_b
  /\ UNCHANGED <<data, op, a, b, got_a, got_b, returning, reply, bus, temps>>

\* swap between its scans: slot a will take val_b and slot b val_a.
Cross ==
  /\ op = "swap" /\ phase = "gather" /\ i = Size
  /\ phase' = "scatter" /\ i' = 0
  /\ put_a' = got_b /\ put_b' = got_a
  /\ UNCHANGED <<data, op, a, b, got_a, got_b, returning, reply, bus, temps>>

\* The end of a writing scan: the hashes, or swap's values, are wiped; only
\* read_modify_write returns a value.
EndScatter ==
  /\ op # "none" /\ phase = "scatter" /\ i = Size
  /\ op' = "none"
  /\ reply' = IF op = "rmw" THEN returning ELSE reply
  /\ temps' = temps \ {"hashed", "new_hashed", "val_a", "val_b"}
  /\ UNCHANGED <<data, phase, a, b, i, got_a, got_b, put_a, put_b, returning, bus>>

\* Drop, and a new ORAM in its place.
DropOram ==
  /\ op = "none"
  /\ data' = [s \in OramSlots |-> Genesis] /\ temps' = {} /\ bus' = << >>
  /\ UNCHANGED <<op, phase, a, b, i, got_a, got_b, put_a, put_b, returning, reply>>

Call ==
  /\ op = "none"
  /\ \E x \in Addrs :
       \/ BeginRead(x) \/ BeginRmw(x)
       \/ \E v \in Values : BeginWrite(x, v)
       \/ \E y \in Addrs : BeginSwap(x, y)

OramNext ==
  \/ Call \/ Gather \/ Scatter \/ EndRead
  \/ \E f \in Updates : Modify(f)
  \/ Cross \/ EndScatter \/ DropOram

OramSpec == OramInit /\ [][OramNext]_oramVars

----------------------------------------------------------------------------
(* Properties                                                              *)

\* Once a writing scan begins its outcome is decided, so the memory the caller
\* will see is the data with the targets already replaced.
Decided == op # "none" /\ phase = "scatter"

MemBar ==
  IF Decided THEN [s \in OramSlots |-> IF s = b THEN put_b ELSE IF s = a THEN put_a ELSE data[s]]
  ELSE data
ReplyBar == IF Decided /\ op = "rmw" THEN returning ELSE reply

CallBar ==
  IF op = "none" THEN [op |-> "none"]
  ELSE [op |-> op, c |-> a, d |-> b, done |-> phase = "scatter"]

MM == INSTANCE HashedMemory
        WITH Cells <- OramSlots, mem <- MemBar, reply <- ReplyBar, call <- CallBar

\* The scans implement a memory whose operations happen at once: each takes
\* effect once before it returns, no slot but the targets changes, a swap of a
\* slot with itself is the identity, and what read_modify_write returns hashes to
\* what it stored.
ImplementsMemory == MM!Spec

\* The bus shows which operation runs and how far it is, and nothing of the
\* addresses: each scan touches slot 0, 1, 2, ... whatever a and b are.
Sweep(n, kind) == [k \in 1 .. n |-> <<k - 1, kind>>]
Traffic ==
  IF phase = "gather" THEN Sweep(i, "load")
  ELSE (IF op \in {"rmw", "swap"} THEN Sweep(Size, "load") ELSE << >>) \o Sweep(i, "store")
Oblivious == op # "none" => bus = Traffic

\* The comment in read_modify_write (oram.rs:152): "Wipe the old value and
\* modified intermediate."
OldValueWiped == op = "none" => "old_value" \notin temps
=============================================================================
