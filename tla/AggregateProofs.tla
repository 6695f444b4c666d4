-------------------------- MODULE AggregateProofs --------------------------
(***************************************************************************)
(* Theorems about Aggregate, for batches and thresholds of any size.       *)
(***************************************************************************)
EXTENDS Aggregate, FiniteSetTheorems, TLAPS

Calls == [kind : {"batch", "threshold"}, n : 0 .. MaxN, m : 1 .. MaxClaims]

Typed ==
  /\ call \in Calls \cup {NoRun} /\ completed \in Nat /\ all_valid \in BOOLEAN
  /\ folded \in Seq(Blocks) /\ choices \in Seq({0, 1})
  /\ outs \in Seq({"valid", "invalid", "err"})

\* The blocks that k iterations leave in the accumulator.
FoldOf(k) == [j \in 1 .. k |-> [index |-> j - 1, transcript |-> j]]

Valid(o) == {k \in DOMAIN o : o[k] = "valid"}

\* While a call runs, what it accumulates is what the iterations answered.
Running ==
  call # NoRun =>
    /\ result.out # "ok" /\ completed <= call.m /\ Len(outs) = completed /\ folded = FoldOf(completed)
    /\ \A k \in 1 .. completed : outs[k] # "err"
    /\ all_valid <=> \A k \in 1 .. completed : outs[k] = "valid"
    /\ call.kind = "threshold" =>
         Len(choices) = completed /\ \A k \in 1 .. completed : choices[k] = 1 <=> outs[k] = "valid"

\* Once it has returned, the verdict speaks of those iterations.
Answered ==
  result.out = "ok" =>
    /\ Len(outs) \in 1 .. MaxClaims /\ \A k \in DOMAIN outs : outs[k] # "err"
    /\ result.transcript = [head |-> result.transcript.head, blocks |-> FoldOf(Len(outs))]
    /\ Returned("batch") =>
         /\ result.transcript.head = [kind |-> "batch", n |-> 0, m |-> 0]
         /\ result.valid <=> \A k \in DOMAIN outs : outs[k] = "valid"
    /\ Returned("threshold") =>
         /\ result.transcript.head \in Calls
         /\ result.valid <=> Cardinality(Valid(outs)) >= result.transcript.head.n % U32

\* The inductive invariant.
IInv == Typed /\ Running /\ Answered

----------------------------------------------------------------------------
LEMMA CallFacts ==
  /\ NoRun \notin Calls
  /\ \A c \in Calls : c.m \in 1 .. MaxClaims /\ c.n \in 0 .. MaxN /\ c.kind \in {"batch", "threshold"}
  BY DEF Calls, NoRun

\* Folding in one more transcript.
LEMMA FoldGrows ==
  ASSUME NEW k \in Nat
  PROVE  /\ FoldOf(k) \in Seq(Blocks) /\ Len(FoldOf(k)) = k
         /\ Append(FoldOf(k), [index |-> k, transcript |-> k + 1]) = FoldOf(k + 1)
<1>1. FoldOf(k) \in Seq(Blocks) /\ Len(FoldOf(k)) = k
  BY DEF FoldOf, Blocks
<1>2. FoldOf(k + 1) \in Seq(Blocks) /\ Len(FoldOf(k + 1)) = k + 1
  BY DEF FoldOf, Blocks
<1>3. \A j \in 1 .. k + 1 :
        Append(FoldOf(k), [index |-> k, transcript |-> k + 1])[j] = FoldOf(k + 1)[j]
  BY <1>1 DEF FoldOf
<1> QED BY <1>1, <1>2, <1>3

LEMMA InitLemma == AggregateInit => IInv
<1> SUFFICES ASSUME AggregateInit PROVE IInv
  OBVIOUS
<1>1. Typed
  <2>1. \A S : << >> \in Seq(S)
    OBVIOUS
  <2>2. call \in Calls \cup {NoRun} /\ all_valid \in BOOLEAN
    BY Zenon DEF AggregateInit
  <2>3. completed \in Nat
    BY DEF AggregateInit
  <2> QED BY <2>1, <2>2, <2>3, Zenon DEF AggregateInit, Typed
<1>2. Running /\ Answered
  BY DEF AggregateInit, Running, Answered, NoResult
<1> QED BY <1>1, <1>2 DEF IInv

LEMMA StartStep == ASSUME IInv, NEW c \in Calls, Start(c) PROVE IInv'
<1>1. Typed'
  BY CallFacts DEF IInv, Typed, Start, Blocks
<1>2. FoldOf(0) = << >>
  BY DEF FoldOf
<1>3. Running' /\ Answered'
  BY <1>2, CallFacts DEF Running, Answered, Start, NoResult
<1> QED BY <1>1, <1>3 DEF IInv

LEMMA RefuseStep == ASSUME IInv, RefuseCall PROVE IInv'
  BY DEF IInv, Typed, Running, Answered, RefuseCall, Err

LEMMA IterateStep == ASSUME IInv, NEW v \in {0, 1}, Iterate(v) PROVE IInv'
<1>0. call \in Calls /\ call' = call /\ result' = result /\ completed \in Nat /\ completed' = completed + 1
  BY DEF Iterate, IInv, Typed
<1>1. /\ folded = FoldOf(completed) /\ completed < call.m /\ Len(outs) = completed /\ result.out # "ok"
  BY <1>0 DEF Iterate, IInv, Running
<1>2. /\ outs' \in Seq({"valid", "invalid", "err"}) /\ Len(outs') = completed + 1
      /\ outs'[completed + 1] = IF v = 1 THEN "valid" ELSE "invalid"
      /\ \A k \in 1 .. completed : outs'[k] = outs[k]
  BY <1>0, <1>1 DEF Iterate, IInv, Typed
<1>3. folded' = FoldOf(completed + 1) /\ folded' \in Seq(Blocks)
  <2>1. folded' = Append(FoldOf(completed), [index |-> completed, transcript |-> completed + 1])
    BY <1>1, Zenon DEF Iterate
  <2>2. completed + 1 \in Nat
    BY <1>0
  <2>3. FoldOf(completed + 1) \in Seq(Blocks)
    BY <2>2, FoldGrows, Zenon
  <2> QED BY <1>0, <2>1, <2>3, FoldGrows, Zenon
<1>4. choices' \in Seq({0, 1})
  BY DEF Iterate, IInv, Typed
<1>5. call.kind = "threshold" =>
        /\ Len(choices') = completed + 1 /\ choices'[completed + 1] = v
        /\ \A k \in 1 .. completed : choices'[k] = choices[k]
  BY <1>0 DEF Iterate, IInv, Typed, Running
<1>6. all_valid' = (all_valid /\ v = 1)
  BY DEF Iterate
<1>7. \A k \in 1 .. completed + 1 : k \in 1 .. completed \/ k = completed + 1
  BY <1>0
<1>8. Typed'
  BY <1>0, <1>2, <1>3, <1>4, <1>6 DEF Typed
<1>9. Running'
  <2>1. \A k \in 1 .. completed + 1 : outs'[k] # "err"
    <3>1. \A k \in 1 .. completed : outs[k] # "err"
      BY <1>0, CallFacts DEF IInv, Running
    <3>2. outs'[completed + 1] # "err"
      BY <1>2
    <3> QED BY <1>2, <1>7, <3>1, <3>2
  <2>2. all_valid' <=> \A k \in 1 .. completed + 1 : outs'[k] = "valid"
    <3>1. all_valid <=> \A k \in 1 .. completed : outs[k] = "valid"
      BY <1>0, CallFacts DEF IInv, Running
    <3>2. outs'[completed + 1] = "valid" <=> v = 1
      BY <1>2
    <3>3. completed + 1 \in 1 .. completed + 1 /\ \A k \in 1 .. completed : k \in 1 .. completed + 1
      BY <1>0
    <3> QED BY <1>2, <1>6, <1>7, <3>1, <3>2, <3>3
  <2>3. call.kind = "threshold" =>
          \A k \in 1 .. completed + 1 : choices'[k] = 1 <=> outs'[k] = "valid"
    BY <1>0, <1>2, <1>5, <1>7, CallFacts DEF IInv, Running
  <2>4. completed + 1 <= call.m
    BY <1>0, <1>1, CallFacts
  <2> QED BY <1>0, <1>1, <1>2, <1>3, <1>5, <2>1, <2>2, <2>3, <2>4 DEF Running
<1>10. Answered'
  BY <1>0, <1>1 DEF Answered
<1> QED BY <1>8, <1>9, <1>10 DEF IInv

LEMMA FailsStep == ASSUME IInv, IterateFails PROVE IInv'
  BY DEF IInv, Typed, Running, Answered, IterateFails, Err

LEMMA AbortStep == ASSUME IInv, Abort PROVE IInv'
  BY DEF IInv, Typed, Running, Answered, Abort

LEMMA FinishStep == ASSUME IInv, FinishCall PROVE IInv'
<1>0. /\ call \in Calls /\ call' = NoRun /\ completed = call.m /\ Len(outs) = completed
      /\ UNCHANGED <<completed, folded, all_valid, choices, outs>>
  BY DEF FinishCall, IInv, Typed, Running
<1>1. Typed' /\ Running'
  BY <1>0 DEF IInv, Typed, Running
<1>2. DOMAIN outs = 1 .. completed /\ completed \in 1 .. MaxClaims
  BY <1>0, CallFacts DEF IInv, Typed
<1>3. /\ result'.out = "ok" /\ result'.transcript.head = HeadOf(call)
      /\ result'.transcript = [head |-> HeadOf(call), blocks |-> folded]
      /\ result'.valid = IF call.kind = "batch" THEN all_valid ELSE Passed(call.n)
  BY DEF FinishCall
<1>4. folded = FoldOf(completed) /\ \A k \in 1 .. completed : outs[k] # "err"
  BY <1>0, CallFacts DEF IInv, Running
<1>5. Returned("batch")' =>
        /\ result'.transcript.head = [kind |-> "batch", n |-> 0, m |-> 0]
        /\ result'.valid <=> \A k \in DOMAIN outs : outs[k] = "valid"
  <2>1. Returned("batch")' => call.kind = "batch"
    BY <1>3 DEF Returned, HeadOf
  <2>2. all_valid <=> \A k \in 1 .. completed : outs[k] = "valid"
    BY <1>0, CallFacts DEF IInv, Running
  <2> QED BY <1>2, <1>3, <2>1, <2>2 DEF HeadOf
<1>6. Returned("threshold")' =>
        /\ result'.transcript.head \in Calls
        /\ result'.valid <=> Cardinality(Valid(outs)) >= result'.transcript.head.n % U32
  <2> SUFFICES ASSUME Returned("threshold")'
               PROVE  /\ result'.transcript.head \in Calls
                      /\ result'.valid <=>
                           Cardinality(Valid(outs)) >= result'.transcript.head.n % U32
    OBVIOUS
  <2>1. call.kind = "threshold" /\ HeadOf(call) = call
    BY <1>0, <1>3, CallFacts DEF Returned, HeadOf
  <2>2. Len(choices) = completed /\ \A k \in 1 .. completed : choices[k] = 1 <=> outs[k] = "valid"
    BY <1>0, <2>1, CallFacts DEF IInv, Running
  <2>3. {k \in DOMAIN choices : choices[k] = 1} = Valid(outs)
    <3>1. DOMAIN choices = 1 .. completed
      BY <2>2 DEF IInv, Typed
    <3> QED BY <1>2, <2>2, <3>1 DEF Valid
  <2> QED BY <1>0, <1>3, <2>1, <2>3 DEF Passed, ValidCount
<1>7. Answered'
  BY <1>0, <1>2, <1>3, <1>4, <1>5, <1>6 DEF Answered
<1> QED BY <1>1, <1>7 DEF IInv

----------------------------------------------------------------------------
\* What a call has accumulated, and what the verdict says, for any number of iterations
\* and whatever they answer.
THEOREM Invariance == AggregateSpec => []IInv
<1>1. IInv /\ [AggregateNext]_aggregateVars => IInv'
  <2> SUFFICES ASSUME IInv, [AggregateNext]_aggregateVars PROVE IInv'
    OBVIOUS
  <2>1. ASSUME NEW m \in 0 .. MaxClaims, StartBatch(m) PROVE IInv'
    <3>1. m > 0 => [kind |-> "batch", n |-> 0, m |-> m] \in Calls
      BY AggregateAssumption DEF Calls
    <3> QED BY <2>1, <3>1, RefuseStep, StartStep DEF StartBatch
  <2>2. ASSUME NEW m \in 0 .. MaxClaims, NEW n \in 0 .. MaxN, StartThreshold(n, m) PROVE IInv'
    <3>1. m # 0 => [kind |-> "threshold", n |-> n, m |-> m] \in Calls
      BY AggregateAssumption DEF Calls
    <3> QED BY <2>2, <3>1, RefuseStep, StartStep DEF StartThreshold
  <2>3. CASE UNCHANGED aggregateVars
    BY <2>3 DEF aggregateVars, IInv, Typed, Running, Answered, Returned
  <2> QED BY <2>1, <2>2, <2>3, IterateStep, FailsStep, AbortStep, FinishStep DEF AggregateNext
<1> QED BY <1>1, InitLemma, PTL DEF AggregateSpec

\* A verdict over several iterations is exact (threshold.rs:94, pipeline.rs verify_batch)
\* for every number of iterations, as long as no n is wider than the counter: the premise
\* that `n as u32` needs and the code does not test.
THEOREM ExactBelowWidth ==
  ASSUME MaxN < U32
  PROVE  AggregateSpec => []VerdictIsExact
<1>1. IInv => VerdictIsExact
  <2> SUFFICES ASSUME IInv PROVE VerdictIsExact
    OBVIOUS
  <2>1. Returned("batch") => (result.valid <=> \A k \in DOMAIN outs : outs[k] = "valid")
    BY DEF IInv, Answered, Returned
  <2>2. ASSUME Returned("threshold")
        PROVE  result.valid <=> Cardinality(Valid(outs)) >= result.transcript.head.n
    <3>1. /\ result.transcript.head \in Calls
          /\ result.valid <=> Cardinality(Valid(outs)) >= result.transcript.head.n % U32
      BY <2>2 DEF IInv, Answered, Returned
    <3>2. result.transcript.head.n \in 0 .. MaxN
      BY <3>1, CallFacts
    <3>3. result.transcript.head.n % U32 = result.transcript.head.n
      BY <3>2, AggregateAssumption
    <3> QED BY <3>1, <3>3
  <2> QED BY <2>1, <2>2 DEF VerdictIsExact, Valid
<1> QED BY <1>1, Invariance, PTL

\* The audit accepts the published transcripts of a batch, in their order, and no other
\* list (audit.rs verify_batch_transcripts), for batches of any size; and no failed
\* iteration is behind an Ok.
THEOREM Auditable == AggregateSpec => []OkIsAuditable
<1>1. IInv => OkIsAuditable
  <2> SUFFICES ASSUME IInv PROVE OkIsAuditable
    OBVIOUS
  <2>1. FailClosed
    <3> SUFFICES ASSUME result.out = "ok"
                 PROVE  /\ outs # << >> /\ Len(outs) = Len(result.transcript.blocks)
                        /\ \A k \in DOMAIN outs : outs[k] # "err"
      BY DEF FailClosed
    <3>1. Len(outs) \in 1 .. MaxClaims /\ result.transcript.blocks = FoldOf(Len(outs))
      BY DEF IInv, Answered
    <3>2. Len(FoldOf(Len(outs))) = Len(outs)
      <4>1. Len(outs) \in Nat
        BY <3>1
      <4> QED BY <4>1, FoldGrows, Zenon
    <3>3. outs # << >>
      BY <3>1
    <3>4. \A k \in DOMAIN outs : outs[k] # "err"
      BY DEF IInv, Answered
    <3> QED BY <3>1, <3>2, <3>3, <3>4
  <2>2. ASSUME Returned("batch"), NEW n \in 0 .. MaxClaims, NEW ts \in [1 .. n -> 1 .. MaxClaims]
        PROVE  verify_batch_transcripts(ts, result.transcript)
                 <=> ts = [k \in 1 .. Len(outs) |-> k]
    <3> DEFINE L == Len(outs)
               refold == [k \in DOMAIN ts |-> [index |-> k - 1, transcript |-> ts[k]]]
               head == [kind |-> "batch", n |-> 0, m |-> 0]
    <3>1. L \in 1 .. MaxClaims /\ result.transcript = [head |-> head, blocks |-> FoldOf(L)]
      BY <2>2 DEF IInv, Answered, Returned
    <3>2. ASSUME verify_batch_transcripts(ts, result.transcript)
          PROVE  ts = [k \in 1 .. L |-> k]
      <4>1. refold = FoldOf(L)
        BY <3>1, <3>2 DEF verify_batch_transcripts
      <4>2. DOMAIN ts = 1 .. L
        BY <4>1 DEF FoldOf
      <4>3. ASSUME NEW k \in 1 .. L PROVE ts[k] = k
        <5>1. refold[k].transcript = ts[k] /\ FoldOf(L)[k].transcript = k
          BY <4>2 DEF FoldOf
        <5> QED BY <4>1, <5>1
      <4> QED BY <4>2, <4>3
    <3>3. ASSUME ts = [k \in 1 .. L |-> k]
          PROVE  verify_batch_transcripts(ts, result.transcript)
      <4>1. refold = FoldOf(L)
        BY <3>3 DEF FoldOf
      <4>2. ts # << >>
        BY <3>1, <3>3
      <4> QED BY <3>1, <4>1, <4>2 DEF verify_batch_transcripts
    <3> QED BY <3>2, <3>3
  <2> QED BY <2>1, <2>2 DEF OkIsAuditable
<1> QED BY <1>1, Invariance, PTL
=============================================================================
