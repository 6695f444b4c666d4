----------------------------- MODULE OramProofs -----------------------------
(***************************************************************************)
(* Theorems about Oram, for every number of slots, every set of values and *)
(* every hash: the scans implement the atomic hashed memory.               *)
(***************************************************************************)
EXTENDS Oram, SequenceTheorems, TLAPS

Busy(ph) == op # "none" /\ phase = ph

\* A reading scan that has passed a target holds that target's content.
Gathered ==
  Busy("gather") =>
    /\ i > a => got_a = data[a]
    /\ i > b => got_b = data[b]

\* A writing scan that has passed a target has stored its value there; where both
\* targets coincide the value of b is the one that stays.
Scattered ==
  Busy("scatter") =>
    /\ i > b => data[b] = put_b
    /\ i > a /\ a # b => data[a] = put_a

\* Only swap has two targets.
OneTarget == op \in {"read", "write", "rmw"} => a = b

\* read never reaches a writing scan.
ReadOnlyGathers == op = "read" => phase = "gather"

IInv == OramTypeOK /\ Gathered /\ Scattered /\ OneTarget /\ ReadOnlyGathers

\* addr & 0xFF is a slot.
LEMMA IndexInRange == \A x \in Nat : Index(x) \in OramSlots
  BY OramAssumption DEF Index, OramSlots

LEMMA TypeStep == OramTypeOK /\ [OramNext]_oramVars => OramTypeOK'
<1> SUFFICES ASSUME OramTypeOK, [OramNext]_oramVars PROVE OramTypeOK'
  OBVIOUS
<1> USE OramAssumption DEF OramTypeOK
<1>1. ASSUME NEW o \in Ops, NEW x \in Addrs, NEW y \in Addrs,
             NEW ph \in {"gather", "scatter"}, Begin(o, x, y, ph)
      PROVE  /\ data' \in [OramSlots -> Values] /\ op' \in Ops \cup {"none"}
             /\ phase' \in {"gather", "scatter"} /\ a' \in OramSlots /\ b' \in OramSlots
             /\ i' \in 0 .. Size /\ bus' \in Seq(OramSlots \X {"load", "store"})
             /\ got_a' \in Values /\ got_b' \in Values /\ reply' \in Values
  BY <1>1, IndexInRange DEF Begin
<1>2. CASE Call
  <2>1. PICK x \in Addrs :
          \/ BeginRead(x) \/ BeginRmw(x)
          \/ \E v \in Values : BeginWrite(x, v)
          \/ \E y \in Addrs : BeginSwap(x, y)
    BY <1>2 DEF Call
  <2>2. CASE BeginRead(x)
    BY <2>2, <1>1 DEF BeginRead, Ops
  <2>3. CASE BeginRmw(x)
    BY <2>3, <1>1 DEF BeginRmw, Ops
  <2>4. ASSUME NEW v \in Values, BeginWrite(x, v) PROVE OramTypeOK'
    BY <2>4, <1>1 DEF BeginWrite, Ops
  <2>5. ASSUME NEW y \in Addrs, BeginSwap(x, y) PROVE OramTypeOK'
    BY <2>5, <1>1 DEF BeginSwap, Ops
  <2> QED BY <2>1, <2>2, <2>3, <2>4, <2>5
<1>3. CASE Gather
  <2>1. i \in OramSlots /\ i + 1 \in 0 .. Size
    BY <1>3 DEF Gather, OramSlots
  <2>2. Append(bus, <<i, "load">>) \in Seq(OramSlots \X {"load", "store"})
    BY <2>1
  <2> QED BY <1>3, <2>1, <2>2 DEF Gather, Select
<1>4. CASE Scatter
  <2>1. i \in OramSlots /\ i + 1 \in 0 .. Size
    BY <1>4 DEF Scatter, OramSlots
  <2>2. Append(bus, <<i, "store">>) \in Seq(OramSlots \X {"load", "store"})
    BY <2>1
  <2>3. data' \in [OramSlots -> Values]
    BY <1>4, <2>1 DEF Scatter, Select
  <2> QED BY <1>4, <2>1, <2>2, <2>3 DEF Scatter
<1>5. CASE EndRead
  BY <1>5 DEF EndRead
<1>6. ASSUME NEW f \in Updates, Modify(f) PROVE OramTypeOK'
  <2>1. f[got_a] \in Values /\ Hash(f[got_a]) \in Values
    OBVIOUS
  <2> QED BY <1>6, <2>1 DEF Modify
<1>7. CASE Cross
  BY <1>7 DEF Cross
<1>8. CASE EndScatter
  BY <1>8 DEF EndScatter
<1>9. CASE DropOram
  BY <1>9 DEF DropOram
<1>10. CASE UNCHANGED oramVars
  BY <1>10 DEF oramVars
<1> QED BY <1>2, <1>3, <1>4, <1>5, <1>6, <1>7, <1>8, <1>9, <1>10 DEF OramNext

LEMMA InvInit == OramInit => IInv
  BY OramAssumption DEF OramInit, IInv, OramTypeOK, OramSlots, Ops, Gathered, Scattered, Busy,
     OneTarget, ReadOnlyGathers

\* The accumulators and the stored values follow the scan, slot by slot.
LEMMA ScanStep == IInv /\ [OramNext]_oramVars => (Gathered /\ Scattered)'
<1> SUFFICES ASSUME IInv, [OramNext]_oramVars PROVE (Gathered /\ Scattered)'
  OBVIOUS
<1> USE OramAssumption DEF IInv, OramTypeOK, Gathered, Scattered, Busy, OramSlots
<1>1. ASSUME NEW o, NEW x \in Addrs, NEW y \in Addrs, NEW ph, Begin(o, x, y, ph)
      PROVE  i' = 0 /\ a' \in OramSlots /\ b' \in OramSlots
  BY <1>1, IndexInRange DEF Begin
<1>2. CASE Call
  <2>1. i' = 0 /\ a' \in OramSlots /\ b' \in OramSlots
    BY <1>1, <1>2 DEF Call, BeginRead, BeginRmw, BeginWrite, BeginSwap
  <2> QED BY <2>1
<1>3. CASE Gather
  BY <1>3 DEF Gather, Select
<1>4. CASE Scatter
  BY <1>4 DEF Scatter, Select
<1>5. CASE EndRead
  BY <1>5 DEF EndRead
<1>6. ASSUME NEW f \in Updates, Modify(f) PROVE (Gathered /\ Scattered)'
  BY <1>6 DEF Modify
<1>7. CASE Cross
  BY <1>7 DEF Cross
<1>8. CASE EndScatter
  BY <1>8 DEF EndScatter
<1>9. CASE DropOram
  BY <1>9 DEF DropOram
<1>10. CASE UNCHANGED oramVars
  BY <1>10 DEF oramVars
<1> QED BY <1>2, <1>3, <1>4, <1>5, <1>6, <1>7, <1>8, <1>9, <1>10 DEF OramNext

LEMMA ShapeStep == IInv /\ [OramNext]_oramVars => (OneTarget /\ ReadOnlyGathers)'
  BY DEF IInv, OneTarget, ReadOnlyGathers, OramNext, Call, Begin, BeginRead, BeginRmw,
     BeginWrite, BeginSwap, Gather, Scatter, EndRead, Modify, Cross, EndScatter,
     DropOram, oramVars

----------------------------------------------------------------------------
\* The inductive invariant: types, and what each half-done scan has achieved.
THEOREM Invariance == OramSpec => []IInv
<1>1. IInv /\ [OramNext]_oramVars => IInv'
  BY TypeStep, ScanStep, ShapeStep DEF IInv
<1> QED BY <1>1, InvInit, PTL DEF OramSpec

\* Type correctness of the ORAM's state; every slot access is inside the array.
THEOREM TypeCorrect == OramSpec => []OramTypeOK
  BY Invariance, PTL DEF IInv

----------------------------------------------------------------------------
(* Refinement: every step of a scan is a step of the memory, or none.       *)

Stutters == UNCHANGED <<MemBar, ReplyBar, CallBar>>

LEMMA RefInit == OramInit => MM!Init
  BY DEF OramInit, MM!Init, MM!Idle, MemBar, ReplyBar, CallBar, Decided

\* The memory changes when a writing scan begins, for write ...
LEMMA RefWrite ==
  ASSUME IInv, NEW x \in Addrs, NEW v \in Values, BeginWrite(x, v)
  PROVE  MM!Write(Index(x), v)
<1>1. Index(x) \in OramSlots
  BY IndexInRange, OramAssumption
<1>2. /\ ~Decided /\ Decided' /\ a' = Index(x) /\ b' = Index(x) /\ data' = data
      /\ put_a' = Hash(v) /\ put_b' = Hash(v) /\ op' = "write" /\ reply' = reply
  BY DEF BeginWrite, Begin, Decided
<1>3. MemBar' = [MemBar EXCEPT ![Index(x)] = Hash(v)]
  BY <1>1, <1>2 DEF MemBar, IInv, OramTypeOK
<1>4. ReplyBar' = ReplyBar
  BY <1>2 DEF ReplyBar
<1>5. CallBar = MM!Idle /\ CallBar' = MM!Call("write", Index(x), Index(x), TRUE)
  BY DEF CallBar, MM!Idle, MM!Call, BeginWrite, Begin
<1> QED BY <1>3, <1>4, <1>5 DEF MM!Write

\* ... for read_modify_write, which has gathered the old value ...
LEMMA RefModify ==
  ASSUME IInv, NEW f \in Updates, Modify(f)
  PROVE  MM!ReadModifyWrite(a, f)
<1>1. /\ ~Decided /\ Decided' /\ a' = a /\ b' = a /\ a \in OramSlots /\ data' = data
      /\ op' = "rmw" /\ got_a = data[a]
      /\ returning' = f[got_a] /\ put_a' = Hash(f[got_a]) /\ put_b' = Hash(f[got_a])
  BY OramAssumption
     DEF Modify, Decided, IInv, OramTypeOK, Gathered, OneTarget, Busy, OramSlots
<1>2. MemBar' = [MemBar EXCEPT ![a] = Hash(f[MemBar[a]])]
  BY <1>1 DEF MemBar, IInv, OramTypeOK
<1>3. ReplyBar' = f[MemBar[a]]
  BY <1>1 DEF ReplyBar, MemBar
<1>4. CallBar = MM!Call("rmw", a, a, FALSE) /\ CallBar' = MM!Call("rmw", a, a, TRUE)
  BY DEF CallBar, MM!Call, Modify, IInv, OneTarget
<1> QED BY <1>2, <1>3, <1>4 DEF MM!ReadModifyWrite

\* ... and for swap, also when both addresses fall on one slot.
LEMMA RefCross ==
  ASSUME IInv, Cross
  PROVE  MM!Swap(a, b)
<1>1. /\ ~Decided /\ Decided' /\ a' = a /\ b' = b /\ a \in OramSlots /\ b \in OramSlots
      /\ data' = data /\ op' = "swap" /\ op = "swap" /\ reply' = reply
      /\ put_a' = data[b] /\ put_b' = data[a]
  BY OramAssumption DEF Cross, Decided, IInv, OramTypeOK, Gathered, Busy, OramSlots
<1>2. MemBar' = [MemBar EXCEPT ![a] = MemBar[b], ![b] = MemBar[a]]
  BY <1>1 DEF MemBar, IInv, OramTypeOK
<1>3. ReplyBar' = ReplyBar
  BY <1>1 DEF ReplyBar
<1>4. CallBar = MM!Call("swap", a, b, FALSE) /\ CallBar' = MM!Call("swap", a, b, TRUE)
  BY DEF CallBar, MM!Call, Cross
<1> QED BY <1>2, <1>3, <1>4 DEF MM!Swap

LEMMA RefRead ==
  ASSUME IInv, EndRead
  PROVE  MM!Read(a)
<1>1. /\ ~Decided /\ ~Decided' /\ data' = data /\ reply' = data[a]
  BY OramAssumption
     DEF EndRead, Decided, IInv, OramTypeOK, Gathered, ReadOnlyGathers, Busy, OramSlots
<1>2. CallBar = MM!Call("read", a, a, FALSE) /\ CallBar' = MM!Idle
  BY DEF CallBar, MM!Call, MM!Idle, EndRead, IInv, OneTarget, ReadOnlyGathers
<1> QED BY <1>1, <1>2 DEF MM!Read, MemBar, ReplyBar

\* A slot of a writing scan: what it stores was already decided.
LEMMA RefScatter ==
  ASSUME IInv, Scatter
  PROVE  Stutters
<1>1. /\ Decided /\ Decided' /\ op' = op /\ a' = a /\ b' = b /\ i \in OramSlots
      /\ put_a' = put_a /\ put_b' = put_b /\ returning' = returning /\ reply' = reply
      /\ data' = [data EXCEPT ![i] = Select(b, put_b, Select(a, put_a, data[i]))]
  BY OramAssumption DEF Scatter, Decided, IInv, OramTypeOK, OramSlots
<1>2. \A s \in OramSlots : s # a /\ s # b => data'[s] = data[s]
  BY <1>1 DEF Select, IInv, OramTypeOK
<1>3. MemBar' = MemBar
  BY <1>1, <1>2 DEF MemBar
<1>4. ReplyBar' = ReplyBar
  BY <1>1 DEF ReplyBar, Decided
<1>5. CallBar' = CallBar
  BY DEF Scatter, CallBar
<1> QED BY <1>3, <1>4, <1>5 DEF Stutters

\* The end of a writing scan: every target has been passed, and the operation
\* returns.
LEMMA RefEndScatter ==
  ASSUME IInv, EndScatter
  PROVE  MM!Return
<1>1. /\ Decided /\ ~Decided' /\ data' = data /\ i = Size
      /\ a \in OramSlots /\ b \in OramSlots
      /\ reply' = IF op = "rmw" THEN returning ELSE reply
  BY DEF EndScatter, Decided, IInv, OramTypeOK
<1>2. data[b] = put_b /\ (a # b => data[a] = put_a)
  BY <1>1, OramAssumption DEF IInv, Scattered, Busy, Decided, OramSlots
<1>3. MemBar' = MemBar
  BY <1>1, <1>2 DEF MemBar, IInv, OramTypeOK
<1>4. ReplyBar' = ReplyBar
  BY <1>1 DEF ReplyBar
<1>5. CallBar # MM!Idle /\ CallBar.done /\ CallBar' = MM!Idle
  BY DEF CallBar, MM!Idle, EndScatter
<1> QED BY <1>3, <1>4, <1>5 DEF MM!Return

\* The other operations start as requests.
LEMMA RefRequest ==
  ASSUME NEW o \in Ops, NEW x \in Addrs, NEW y \in Addrs, Begin(o, x, y, "gather")
  PROVE  MM!Request(o, Index(x), Index(y)) /\ Index(x) \in OramSlots /\ Index(y) \in OramSlots
<1>1. Index(x) \in OramSlots /\ Index(y) \in OramSlots
  BY IndexInRange, OramAssumption
<1>2. UNCHANGED <<MemBar, ReplyBar>>
  BY DEF Begin, MemBar, ReplyBar, Decided
<1>3. CallBar = MM!Idle /\ CallBar' = MM!Call(o, Index(x), Index(y), FALSE)
  BY DEF Begin, CallBar, MM!Idle, MM!Call, Ops
<1> QED BY <1>1, <1>2, <1>3 DEF MM!Request

LEMMA RefStep == IInv /\ [OramNext]_oramVars => [MM!Next]_<<MemBar, ReplyBar, CallBar>>
<1> SUFFICES ASSUME IInv, [OramNext]_oramVars PROVE MM!Next \/ Stutters
  BY DEF Stutters
<1>1. CASE Call
  <2>1. PICK x \in Addrs :
          \/ BeginRead(x) \/ BeginRmw(x)
          \/ \E v \in Values : BeginWrite(x, v)
          \/ \E y \in Addrs : BeginSwap(x, y)
    BY <1>1 DEF Call
  <2>2. ASSUME NEW v \in Values, BeginWrite(x, v) PROVE MM!Next
    <3>1. MM!Write(Index(x), v) /\ Index(x) \in OramSlots
      BY <2>2, RefWrite, IndexInRange, OramAssumption
    <3> QED BY <3>1 DEF MM!Next
  <2>3. ASSUME BeginRead(x) \/ BeginRmw(x) PROVE MM!Next
    <3>1. PICK o \in {"read", "rmw"} : Begin(o, x, x, "gather")
      BY <2>3 DEF BeginRead, BeginRmw
    <3>2. MM!Request(o, Index(x), Index(x)) /\ Index(x) \in OramSlots
      BY <3>1, RefRequest DEF Ops
    <3> QED BY <3>2 DEF MM!Next
  <2>4. ASSUME NEW y \in Addrs, BeginSwap(x, y) PROVE MM!Next
    <3>1. /\ MM!Request("swap", Index(x), Index(y))
          /\ Index(x) \in OramSlots /\ Index(y) \in OramSlots
      BY <2>4, RefRequest DEF BeginSwap, Ops
    <3> QED BY <3>1 DEF MM!Next
  <2> QED BY <2>1, <2>2, <2>3, <2>4
<1>2. CASE Gather
  BY <1>2 DEF Gather, Stutters, MemBar, ReplyBar, CallBar, Decided
<1>3. CASE Scatter
  BY <1>3, RefScatter
<1>4. CASE EndRead
  <2>1. MM!Read(a) /\ a \in OramSlots
    BY <1>4, RefRead DEF IInv, OramTypeOK
  <2> QED BY <2>1 DEF MM!Next
<1>5. ASSUME NEW f \in Updates, Modify(f) PROVE MM!Next
  <2>1. MM!ReadModifyWrite(a, f) /\ a \in OramSlots
    BY <1>5, RefModify DEF IInv, OramTypeOK
  <2> QED BY <2>1 DEF MM!Next
<1>6. CASE Cross
  <2>1. MM!Swap(a, b) /\ a \in OramSlots /\ b \in OramSlots
    BY <1>6, RefCross DEF IInv, OramTypeOK
  <2> QED BY <2>1 DEF MM!Next
<1>7. CASE EndScatter
  BY <1>7, RefEndScatter DEF MM!Next
<1>8. CASE DropOram
  <2>1. MM!Clear
    BY <1>8 DEF DropOram, MM!Clear, MM!Idle, MemBar, ReplyBar, CallBar, Decided
  <2> QED BY <2>1 DEF MM!Next
<1>9. CASE UNCHANGED oramVars
  BY <1>9 DEF oramVars, Stutters, MemBar, ReplyBar, CallBar, Decided
<1> QED BY <1>1, <1>2, <1>3, <1>4, <1>5, <1>6, <1>7, <1>8, <1>9 DEF OramNext

\* The scans of ObliviousRAM implement HashedMemory: reads, writes,
\* read-modify-writes and swaps appear to happen at once, before they return, and
\* touch no slot but their own.
THEOREM Refinement == OramSpec => ImplementsMemory
  BY RefInit, RefStep, Invariance, PTL DEF OramSpec, ImplementsMemory, MM!Spec, MM!vars

----------------------------------------------------------------------------
(* Obliviousness: the traffic is a function of operation and progress.      *)

LEMMA SweepFacts ==
  ASSUME NEW n \in Nat, NEW kind
  PROVE  /\ Sweep(0, kind) = << >>
         /\ Sweep(n, kind) \in Seq(Nat \X {kind}) /\ Len(Sweep(n, kind)) = n
         /\ Append(Sweep(n, kind), <<n, kind>>) = Sweep(n + 1, kind)
<1>1. Sweep(0, kind) = << >>
  BY DEF Sweep
<1>2. \A k \in Nat : Sweep(k, kind) \in Seq(Nat \X {kind}) /\ Len(Sweep(k, kind)) = k
  BY DEF Sweep
<1>3. \A k \in 1 .. n + 1 : Append(Sweep(n, kind), <<n, kind>>)[k] = Sweep(n + 1, kind)[k]
  BY <1>2 DEF Sweep
<1>4. Append(Sweep(n, kind), <<n, kind>>) = Sweep(n + 1, kind)
  <2>1. /\ Sweep(n, kind) \in Seq(Nat \X {kind}) /\ Len(Sweep(n, kind)) = n
        /\ Sweep(n + 1, kind) \in Seq(Nat \X {kind}) /\ Len(Sweep(n + 1, kind)) = n + 1
    BY <1>2
  <2>2. <<n, kind>> \in Nat \X {kind}
    OBVIOUS
  <2>3. /\ Append(Sweep(n, kind), <<n, kind>>) \in Seq(Nat \X {kind})
        /\ Len(Append(Sweep(n, kind), <<n, kind>>)) = n + 1
    BY <2>1, <2>2, AppendProperties
  <2> QED BY <1>3, <2>1, <2>3, SeqEqual
<1> QED BY <1>1, <1>2, <1>4

\* What precedes a writing scan on the bus.
Prelude == IF op \in {"rmw", "swap"} THEN Sweep(Size, "load") ELSE << >>

LEMMA PreludeGrows ==
  ASSUME NEW n \in Nat
  PROVE  /\ Append(Prelude \o Sweep(n, "store"), <<n, "store">>) = Prelude \o Sweep(n + 1, "store")
         /\ Prelude \o Sweep(0, "store") = Prelude
<1> DEFINE B == Nat \X {"load", "store"}
<1>1. Prelude \in Seq(B)
  BY OramAssumption, SweepFacts DEF Prelude, Sweep
<1>2. Sweep(n, "store") \in Seq(B)
  BY DEF Sweep
<1>3. <<n, "store">> \in B
  OBVIOUS
<1> HIDE DEF B
<1>4. Append(Prelude \o Sweep(n, "store"), <<n, "store">>)
        = Prelude \o Append(Sweep(n, "store"), <<n, "store">>)
  <2> DEFINE one == <<<<n, "store">>>>
  <2>1. one \in Seq(B)
    BY <1>3
  <2> HIDE DEF one
  <2>2. Append(Sweep(n, "store"), <<n, "store">>) = Sweep(n, "store") \o one
    BY <1>2, <1>3, AppendIsConcat, Zenon DEF one
  <2>3. Prelude \o Sweep(n, "store") \in Seq(B)
    BY <1>1, <1>2, ConcatProperties
  <2>4. Append(Prelude \o Sweep(n, "store"), <<n, "store">>) = (Prelude \o Sweep(n, "store")) \o one
    BY <1>3, <2>3, AppendIsConcat, Zenon DEF one
  <2>5. (Prelude \o Sweep(n, "store")) \o one = Prelude \o (Sweep(n, "store") \o one)
    BY <1>1, <1>2, <2>1, ConcatAssociative
  <2> QED BY <2>2, <2>4, <2>5
<1>5. Prelude \o << >> = Prelude
  BY <1>1
<1> QED BY <1>4, <1>5, SweepFacts

LEMMA TrafficStep == IInv /\ Oblivious /\ [OramNext]_oramVars => Oblivious'
<1> SUFFICES ASSUME IInv, Oblivious, [OramNext]_oramVars, op' # "none" PROVE bus' = Traffic'
  BY DEF Oblivious
<1>0. i \in Nat /\ Size \in Nat /\ phase \in {"gather", "scatter"}
  BY OramAssumption DEF IInv, OramTypeOK
<1>1. CASE Call
  <2>1. i' = 0 /\ bus' = << >> /\ (phase' = "gather" \/ op' = "write")
    BY <1>1 DEF Call, Begin, BeginRead, BeginRmw, BeginWrite, BeginSwap
  <2>2. Sweep(0, "load") = << >> /\ << >> \o Sweep(0, "store") = << >>
    <3>1. 0 \in Nat
      OBVIOUS
    <3>2. Sweep(0, "load") = << >> /\ Sweep(0, "store") = << >>
      BY <3>1, SweepFacts, Zenon
    <3>3. << >> \o << >> = << >>
      OBVIOUS
    <3> QED BY <3>2, <3>3
  <2> QED BY <2>1, <2>2 DEF Traffic, Sweep
<1>2. CASE Gather
  <2>1. bus = Sweep(i, "load") /\ bus' = Append(bus, <<i, "load">>) /\ i' = i + 1
        /\ phase' = "gather"
    BY <1>2 DEF Gather, Oblivious, Traffic
  <2>2. bus' = Sweep(i + 1, "load")
    BY <1>0, <2>1, SweepFacts
  <2> QED BY <2>1, <2>2 DEF Traffic, Sweep
<1>3. CASE Scatter
  <2>1. /\ bus = Prelude \o Sweep(i, "store") /\ bus' = Append(bus, <<i, "store">>)
        /\ i' = i + 1 /\ phase' = "scatter" /\ op' = op
    BY <1>3 DEF Scatter, Oblivious, Traffic, Prelude
  <2>2. bus' = Prelude \o Sweep(i + 1, "store")
    BY <1>0, <2>1, PreludeGrows
  <2> QED BY <2>1, <2>2 DEF Traffic, Prelude, Sweep
<1>4. CASE (\E f \in Updates : Modify(f)) \/ Cross
  <2>1. /\ bus = Sweep(Size, "load") /\ bus' = bus /\ i' = 0 /\ phase' = "scatter"
        /\ op' = op /\ op \in {"rmw", "swap"}
    BY <1>4 DEF Modify, Cross, Oblivious, Traffic
  <2>2. bus' = Prelude \o Sweep(0, "store")
    BY <1>0, <2>1, PreludeGrows DEF Prelude
  <2> QED BY <2>1, <2>2 DEF Traffic, Prelude, Sweep
<1>5. CASE EndRead \/ EndScatter \/ DropOram
  BY <1>5 DEF EndRead, EndScatter, DropOram
<1>6. CASE UNCHANGED oramVars
  BY <1>6 DEF oramVars, Oblivious, Traffic, Sweep
<1> QED BY <1>1, <1>2, <1>3, <1>4, <1>5, <1>6 DEF OramNext

\* The bus shows nothing of the addresses (oram.rs:9), for every size of the ORAM.
THEOREM ScansAreOblivious == OramSpec => []Oblivious
<1>1. OramInit => Oblivious
  BY DEF OramInit, Oblivious
<1> QED BY <1>1, TrafficStep, Invariance, PTL DEF OramSpec
=============================================================================
