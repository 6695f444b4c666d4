----------------------------- MODULE Aggregate -----------------------------
(***************************************************************************)
(* Verdicts over several iterations: pipeline::verify_batch (every claim   *)
(* must verify), threshold::threshold_verify (n of m runs of one claim     *)
(* must verify) and audit::verify_batch_transcripts, which recomputes the  *)
(* fold of a batch from published transcripts.                             *)
(*                                                                         *)
(* An iteration is what Attest promises of it: Err, or a verdict with a    *)
(* validity bit and a transcript no other iteration has.  A SHAKE256       *)
(* accumulator is the sequence of the fixed-size blocks it absorbed.       *)
(***************************************************************************)
EXTENDS Naturals, Sequences, FiniteSets

CONSTANTS
  MaxClaims,   \* longest batch, and largest m
  MaxN,        \* largest n a caller passes
  U32          \* 2^32, the modulus of `n as u32` and the bound of count

ASSUME AggregateAssumption ==
  MaxClaims \in Nat /\ MaxN \in Nat /\ U32 \in Nat \ {0, 1}

VARIABLES
  call,        \* [kind, n, m]: the call in progress, or kind "none"
  completed,           \* iterations completed
  folded,      \* blocks absorbed after the head
  all_valid,   \* verify_batch's running AND
  choices,     \* threshold_verify's valid_choices
  outs,        \* history: what each iteration answered
  result       \* what the call returned

aggregateVars == <<call, completed, folded, all_valid, choices, outs, result>>

NoRun == [kind |-> "none", n |-> 0, m |-> 0]
NoFold == [head |-> NoRun, blocks |-> << >>]
NoResult == [out |-> "none", valid |-> FALSE, transcript |-> NoFold]
Blocks == [index : Nat, transcript : Nat]

AggregateInit ==
  /\ call = NoRun /\ completed = 0 /\ folded = << >> /\ all_valid = FALSE
  /\ choices = << >> /\ outs = << >> /\ result = NoResult

----------------------------------------------------------------------------
Err == [out |-> "err", valid |-> FALSE, transcript |-> NoFold]

Start(c) ==
  /\ call = NoRun
  /\ call' = c /\ result' = NoResult
  /\ completed' = 0 /\ folded' = << >> /\ all_valid' = TRUE
  /\ choices' = << >> /\ outs' = << >>

RefuseCall ==
  /\ call = NoRun /\ result' = Err /\ outs' = << >>
  /\ UNCHANGED <<call, completed, folded, all_valid, choices>>

\* verify_batch: an empty batch is refused.
StartBatch(m) ==
  \/ m = 0 /\ RefuseCall
  \/ m > 0 /\ Start([kind |-> "batch", n |-> 0, m |-> m])

\* threshold_verify: n = 0, m = 0 and n > m are refused.
StartThreshold(n, m) ==
  LET refused == n = 0 \/ m = 0 \/ n > m
  IN  \/ refused /\ RefuseCall
      \/ ~refused /\ Start([kind |-> "threshold", n |-> n, m |-> m])

\* Mutants of Iterate: the AND forgets earlier iterations; the index of the
\* blocks starts at one.
IterateLastWins(v) ==
  /\ call # NoRun /\ completed < call.m
  /\ folded' = Append(folded, [index |-> completed, transcript |-> completed + 1])
  /\ all_valid' = (v = 1)
  /\ choices' = IF call.kind = "threshold" THEN Append(choices, v) ELSE choices
  /\ outs' = Append(outs, IF v = 1 THEN "valid" ELSE "invalid")
  /\ completed' = completed + 1
  /\ UNCHANGED <<call, result>>
IterateFromOne(v) ==
  /\ call # NoRun /\ completed < call.m
  /\ folded' = Append(folded, [index |-> completed + 1, transcript |-> completed + 1])
  /\ all_valid' = (all_valid /\ v = 1)
  /\ choices' = IF call.kind = "threshold" THEN Append(choices, v) ELSE choices
  /\ outs' = Append(outs, IF v = 1 THEN "valid" ELSE "invalid")
  /\ completed' = completed + 1
  /\ UNCHANGED <<call, result>>

\* One verify_once that answers: its bit is collected and its transcript folded
\* in with its index.  The transcript of iteration k is a value of its own, k.
Iterate(v) ==
  /\ call # NoRun /\ completed < call.m
  /\ folded' = Append(folded, [index |-> completed, transcript |-> completed + 1])
  /\ all_valid' = (all_valid /\ v = 1)
  /\ choices' = IF call.kind = "threshold" THEN Append(choices, v) ELSE choices
  /\ outs' = Append(outs, IF v = 1 THEN "valid" ELSE "invalid")
  /\ completed' = completed + 1
  /\ UNCHANGED <<call, result>>

\* Mutant of IterateFails: a failed iteration is skipped.
IterateFailsSkipped ==
  /\ call # NoRun /\ completed < call.m
  /\ outs' = Append(outs, "err")
  /\ completed' = completed + 1
  /\ UNCHANGED <<call, folded, all_valid, choices, result>>

\* One verify_once that fails: `?` ends the whole call.
IterateFails ==
  /\ call # NoRun /\ completed < call.m
  /\ outs' = Append(outs, "err")
  /\ result' = Err /\ call' = NoRun
  /\ UNCHANGED <<completed, folded, all_valid, choices>>

\* The sum of the choices.
ValidCount == Cardinality({k \in DOMAIN choices : choices[k] = 1})

\* `count += ...` on a u32: the build checks for overflow and aborts.
Abort ==
  /\ call.kind = "threshold" /\ completed = call.m /\ ValidCount >= U32
  /\ result' = [out |-> "abort", valid |-> FALSE, transcript |-> NoFold]
  /\ call' = NoRun
  /\ UNCHANGED <<completed, folded, all_valid, choices, outs>>

\* Mutant of Passed: strictly more than n.
PassedStrictly(n) == ValidCount > n

\* (count >= n as u32)
Passed(n) == ValidCount >= n % U32

\* The head absorbed first: BATCH_HEAD alone, or THRESHOLD_HEAD, n and m.
HeadOf(c) == IF c.kind = "batch" THEN [kind |-> "batch", n |-> 0, m |-> 0] ELSE c

FinishCall ==
  /\ call # NoRun /\ completed = call.m
  /\ call.kind = "threshold" => ValidCount < U32
  /\ result' = [out |-> "ok",
                valid |-> IF call.kind = "batch" THEN all_valid ELSE Passed(call.n),
                transcript |-> [head |-> HeadOf(call), blocks |-> folded]]
  /\ call' = NoRun
  /\ UNCHANGED <<completed, folded, all_valid, choices, outs>>

AggregateNext ==
  \/ \E m \in 0 .. MaxClaims : StartBatch(m) \/ \E n \in 0 .. MaxN : StartThreshold(n, m)
  \/ \E v \in {0, 1} : Iterate(v)
  \/ IterateFails \/ Abort \/ FinishCall

AggregateSpec == AggregateInit /\ [][AggregateNext]_aggregateVars

----------------------------------------------------------------------------
\* audit::verify_batch_transcripts: the fold recomputed from transcripts alone.
verify_batch_transcripts(ts, expected) ==
  /\ ts # << >>
  /\ expected = [head |-> [kind |-> "batch", n |-> 0, m |-> 0],
                 blocks |-> [k \in DOMAIN ts |-> [index |-> k - 1, transcript |-> ts[k]]]]

----------------------------------------------------------------------------
(* Properties                                                              *)

Returned(kind) == result.out = "ok" /\ result.transcript.head.kind = kind

\* The verdict says of the iterations that really ran what the documentation
\* says: a batch is valid iff every claim verified, a threshold verdict iff at
\* least n of the m runs did (threshold.rs:50).
VerdictIsExact ==
  /\ Returned("batch") => (result.valid <=> \A k \in DOMAIN outs : outs[k] = "valid")
  /\ Returned("threshold") =>
       (result.valid <=>
          Cardinality({k \in DOMAIN outs : outs[k] = "valid"})
            >= result.transcript.head.n)

\* Fail-closed: an Ok stands for iterations that all answered, one block of the
\* transcript for each; a single Err, at any position, makes the call Err.
FailClosed ==
  result.out = "ok" =>
    /\ outs # << >> /\ Len(outs) = Len(result.transcript.blocks)
    /\ \A k \in DOMAIN outs : outs[k] # "err"

\* An Ok can be audited: no iteration behind it failed, and the offline audit accepts
\* the transcripts of a finished batch in their order and no other list: none
\* reordered, shortened, extended or repeated.
OkIsAuditable ==
  /\ FailClosed
  /\ Returned("batch") =>
       \A n \in 0 .. MaxClaims : \A ts \in [1 .. n -> 1 .. MaxClaims] :
         verify_batch_transcripts(ts, result.transcript)
           <=> ts = [k \in 1 .. Len(outs) |-> k]
=============================================================================
