-------------------------- MODULE IterationProofs --------------------------
(***************************************************************************)
(* Theorems about Iteration, for every set of claims, every number of mix  *)
(* rounds and histories of any length: contexts that harvest are fresh,    *)
(* what may be left in memory is bounded, and the entry points implement   *)
(* Attest.                                                                 *)
(***************************************************************************)
EXTENDS Iteration, TLAPS

Harvests == {"once", "oram", "hybrid", "relation"}

\* Seeds computed from draws of the OS generator.
FromDraws(s) == s.src \in {"os", "oram"}

----------------------------------------------------------------------------
(* The inductive invariant about freshness                                 *)

\* Every draw folded into the pool is new: no earlier result's seed has it.
PoolIsNew ==
  \A n \in 1 .. Len(calls) :
    FromDraws(calls[n].seed) =>
      calls[n].seed.of \subseteq 1 .. drawn /\ calls[n].seed.of \cap pool = {}

\* What earlier calls left behind tells nothing about the draws of this one.
PastTells ==
  \A n \in 1 .. Len(calls) :
    calls[n].tells \subseteq 1 .. drawn /\ calls[n].tells \cap pool = {}

\* The seeds of past results share no draw, and none is empty.
PastIsDisjoint ==
  \A n, m \in 1 .. Len(calls) :
    FromDraws(calls[n].seed) /\ FromDraws(calls[m].seed) =>
      /\ calls[n].seed.of # {}
      /\ n # m => calls[n].seed.of \cap calls[m].seed.of = {}

\* The seed of the running call is its pool, which is not empty.
SeedIsPool == FromDraws(seed) => seed.of = pool /\ pool # {}

\* harvest has run at least one round before it may finalize.
RoundsFillPool == pc = "mix" /\ round > 0 => pool # {}

\* A harvesting call past harvest has a seed from draws.
HarvestedSeed ==
  /\ pc = "mix" => running.entry \in Harvests
  /\ pc \notin {"idle", "mix"} /\ running.entry \in Harvests => FromDraws(seed)
  /\ pc \in {"oram", "vm"} => running.entry = pc

\* A result's transcript is computed from its own seed, or from none.
OkRecords ==
  \A n \in 1 .. Len(calls) :
    calls[n].out = "ok" =>
      /\ calls[n].entry \in Harvests => FromDraws(calls[n].seed)
      /\ calls[n].transcript.seed \in {calls[n].seed, NoSeed}
      /\ calls[n].entry # "relation" => calls[n].transcript.seed = calls[n].seed

Bookkeeping ==
  /\ pc = "idle" => running = NoCall /\ round = 0 /\ pool = {} /\ seed = NoSeed
  /\ pc # "idle" => running \in Calls /\ running.entry \in Entries
  /\ pc = "mix" => seed = NoSeed


IInv == /\ IterationTypeOK /\ PoolIsNew /\ PastTells /\ PastIsDisjoint /\ SeedIsPool /\ RoundsFillPool
        /\ HarvestedSeed /\ OkRecords /\ Bookkeeping

----------------------------------------------------------------------------
LEMMA AppendFacts ==
  ASSUME NEW S, NEW s \in Seq(S), NEW e \in S
  PROVE  /\ Append(s, e) \in Seq(S)
         /\ Len(Append(s, e)) = Len(s) + 1
         /\ \A n \in 1 .. Len(s) : Append(s, e)[n] = s[n]
         /\ Append(s, e)[Len(s) + 1] = e
  OBVIOUS

LEMMA NoSeedTyped == NoSeed \in SeedTerms /\ ~FromDraws(NoSeed)
  BY DEF NoSeed, SeedTerms, FromDraws

LEMMA IdleTyped ==
  /\ "idle" \in Pcs /\ FALSE \in BOOLEAN /\ NoSeed \in SeedTerms
  /\ NoCall \in Calls \cup {NoCall} /\ NoCall \notin Calls
  /\ 0 \in Nat /\ 0 \in 0 .. MixRounds
  /\ {} \subseteq SelfWiping \cup PlainArrays /\ {} \subseteq Secrets
  /\ \A d \in Nat : {} \subseteq 1 .. d
<1>1. "idle" \in Pcs
  BY DEF Pcs
<1>2. NoCall \notin Calls
  BY IterationAssumption DEF Calls
<1>3. 0 \in 0 .. MixRounds
  BY IterationAssumption
<1> QED BY <1>1, <1>2, <1>3, NoSeedTyped

LEMMA InitInv == IterationInit => IInv
<1> SUFFICES ASSUME IterationInit PROVE IInv
  OBVIOUS
<1>1. calls = << >> /\ Len(calls) = 0 /\ calls \in Seq(Results)
  BY DEF IterationInit
<1>2. IterationTypeOK
  BY <1>1, IdleTyped DEF IterationInit, IterationTypeOK
<1> QED BY <1>1, <1>2, NoSeedTyped
        DEF IterationInit, IInv, PoolIsNew, PastTells, PastIsDisjoint, SeedIsPool,
            RoundsFillPool, HarvestedSeed, OkRecords, Bookkeeping

----------------------------------------------------------------------------
(* Returning: what Return(r) does to the invariant depends only on r.       *)

\* The records the code can return: the running call's entry and seed.
GoodRecord(r) ==
  /\ r \in Results /\ r.seed = seed /\ r.entry = running.entry /\ r.tells \subseteq pool
  /\ r.out = "ok" =>
       /\ r.entry \in Harvests => FromDraws(seed)
       /\ r.transcript.seed \in {seed, NoSeed}
       /\ r.entry # "relation" => r.transcript.seed = seed

LEMMA ReturnStep ==
  ASSUME IInv, NEW r, GoodRecord(r), Return(r)
  PROVE  IInv'
<1> USE DEF IInv
<1>1. /\ calls' = Append(calls, r) /\ calls' \in Seq(Results)
      /\ Len(calls') = Len(calls) + 1 /\ Len(calls) \in Nat
      /\ \A n \in 1 .. Len(calls) : calls'[n] = calls[n]
      /\ calls'[Len(calls) + 1] = r
  BY AppendFacts DEF Return, GoodRecord, IterationTypeOK
<1>2. /\ running' = NoCall /\ pc' = "idle" /\ round' = 0 /\ pool' = {} /\ live' = {}
      /\ stray' = {} /\ seed' = NoSeed /\ valid' = FALSE /\ drawn' = drawn
  BY DEF Return
<1>3. \A n \in 1 .. Len(calls') : n \in 1 .. Len(calls) \/ n = Len(calls) + 1
  BY <1>1
<1>4. IterationTypeOK'
  BY <1>1, <1>2, IdleTyped DEF IterationTypeOK
<1>5. r.seed = seed /\ (FromDraws(seed) => seed.of = pool /\ pool # {} /\ pool \subseteq 1 .. drawn)
  BY DEF GoodRecord, SeedIsPool, IterationTypeOK
<1>6. PoolIsNew'
  BY <1>1, <1>2, <1>3, <1>5 DEF PoolIsNew, FromDraws
<1>10. PastTells'
  <2>1. r.tells \subseteq 1 .. drawn
    BY DEF GoodRecord, IterationTypeOK
  <2> QED BY <1>1, <1>2, <1>3, <2>1 DEF PastTells
<1>7. PastIsDisjoint'
  <2> SUFFICES ASSUME NEW n \in 1 .. Len(calls'), NEW m \in 1 .. Len(calls'),
                      FromDraws(calls'[n].seed), FromDraws(calls'[m].seed)
               PROVE  /\ calls'[n].seed.of # {}
                      /\ n # m => calls'[n].seed.of \cap calls'[m].seed.of = {}
    BY DEF PastIsDisjoint, FromDraws
  <2>1. CASE n \in 1 .. Len(calls) /\ m \in 1 .. Len(calls)
    BY <1>1, <2>1 DEF PastIsDisjoint
  <2>2. CASE n \in 1 .. Len(calls) /\ m = Len(calls) + 1
    BY <1>1, <1>5, <2>2 DEF PastIsDisjoint, PoolIsNew
  <2>3. CASE n = Len(calls) + 1 /\ m \in 1 .. Len(calls)
    BY <1>1, <1>5, <2>3 DEF PastIsDisjoint, PoolIsNew
  <2>4. CASE n = Len(calls) + 1 /\ m = Len(calls) + 1
    BY <1>1, <1>5, <2>4
  <2> QED BY <1>3, <2>1, <2>2, <2>3, <2>4
<1>8. OkRecords'
  BY <1>1, <1>3, <1>5 DEF OkRecords, GoodRecord, FromDraws
<1>9. (SeedIsPool /\ RoundsFillPool /\ HarvestedSeed /\ Bookkeeping)'
  BY <1>2, NoSeedTyped DEF SeedIsPool, RoundsFillPool, HarvestedSeed, Bookkeeping, FromDraws
<1> QED BY <1>4, <1>6, <1>7, <1>8, <1>9, <1>10

\* What a record says of the call, whatever is left behind.
LEMMA RecordFacts ==
  ASSUME NEW out, NEW t, NEW held, NEW copies
  PROVE  LET r == Record(out, t, held, copies)
         IN  /\ r.entry = running.entry /\ r.claim = running.claim /\ r.out = out
             /\ r.seed = seed /\ r.transcript = t /\ r.valid = valid
             /\ r.left = held \ SelfWiping /\ r.stray = copies /\ r.tells \subseteq pool
  BY DEF Record

LEMMA RecordTyped ==
  ASSUME IInv, pc # "idle", NEW out \in {"ok", "entropy", "crypto"},
         NEW t \in Transcripts \cup {NoTranscript},
         NEW held \in SUBSET (SelfWiping \cup PlainArrays), NEW copies \in SUBSET Secrets
  PROVE  Record(out, t, held, copies) \in Results
<1>1. running.entry \in AllEntries /\ running.claim \in Claims
  BY DEF IInv, Bookkeeping, Calls
<1>2. pool \in SUBSET Nat /\ seed \in SeedTerms /\ valid \in BOOLEAN
  BY DEF IInv, IterationTypeOK
<1> DEFINE kept == held \ SelfWiping
           told == IF kept = {} /\ copies = {} THEN {} ELSE pool
<1>3. kept \in SUBSET (SelfWiping \cup PlainArrays) /\ told \in SUBSET Nat
  BY <1>2
<1>4. Record(out, t, held, copies) =
        [entry |-> running.entry, claim |-> running.claim, out |-> out, seed |-> seed,
         transcript |-> t, valid |-> valid, left |-> kept, stray |-> copies, tells |-> told]
  BY DEF Record
<1> HIDE DEF kept, told
<1> QED BY <1>1, <1>2, <1>3, <1>4 DEF Results

\* `?`: an Err is a good record whatever has happened so far, and whatever is left.
LEMMA ErrIsGood ==
  ASSUME IInv, pc # "idle", NEW err \in {"entropy", "crypto"},
         NEW held \in SUBSET (SelfWiping \cup PlainArrays), NEW copies \in SUBSET Secrets
  PROVE  GoodRecord(Record(err, NoTranscript, held, copies))
<1>1. Record(err, NoTranscript, held, copies) \in Results
  BY RecordTyped
<1>2. err # "ok"
  OBVIOUS
<1> QED BY <1>1, <1>2, RecordFacts DEF GoodRecord

LEMMA CopiesTyped ==
  /\ KeygenCopies \in SUBSET Secrets /\ {} \in SUBSET Secrets
  /\ {"mac_key"} \in SUBSET Secrets /\ {"keys"} \in SUBSET Secrets
  /\ \A d \in Derived : d \in SUBSET (SelfWiping \cup PlainArrays) /\ d \in SUBSET Secrets
  BY DEF KeygenCopies, Secrets, Derived, PlainArrays

\* The failures, and the records with which they return.
Failure ==
  MixRoundFails \/ KeygenFails \/ ProveFails \/ VerifyFails \/ RelProveFails \/ RelVerifyFails

LEMMA FailuresReturn ==
  ASSUME IInv, Failure
  PROVE  /\ pc # "idle"
         /\ \E err \in {"entropy", "crypto"}, held \in SUBSET (SelfWiping \cup PlainArrays),
               copies \in SUBSET Secrets : Return(Record(err, NoTranscript, held, copies))
<1>1. live \in SUBSET (SelfWiping \cup PlainArrays) /\ stray \in SUBSET Secrets
  BY DEF IInv, IterationTypeOK
<1>2. ASSUME NEW err \in {"entropy", "crypto"}, pc # "idle", Fail(err)
      PROVE  /\ pc # "idle"
             /\ \E e \in {"entropy", "crypto"}, held \in SUBSET (SelfWiping \cup PlainArrays),
                   copies \in SUBSET Secrets : Return(Record(e, NoTranscript, held, copies))
  BY <1>1, <1>2 DEF Fail
<1>3. CASE MixRoundFails
  BY <1>2, <1>3 DEF MixRoundFails
<1>4. CASE ProveFails
  BY <1>2, <1>4 DEF ProveFails
<1>5. CASE VerifyFails
  BY <1>2, <1>5 DEF VerifyFails
<1>6. CASE RelVerifyFails
  BY <1>2, <1>6 DEF RelVerifyFails
<1>7. CASE KeygenFails
  <2>1. stray \cup KeygenCopies \in SUBSET Secrets
    BY <1>1, CopiesTyped
  <2> QED BY <1>1, <1>7, <2>1 DEF KeygenFails
<1>8. CASE RelProveFails
  <2>1. PICK d \in Derived : Return(Record("crypto", NoTranscript, live \cup d, stray \cup d))
    BY <1>8 DEF RelProveFails
  <2>2. live \cup d \in SUBSET (SelfWiping \cup PlainArrays) /\ stray \cup d \in SUBSET Secrets
    BY <1>1, CopiesTyped
  <2> QED BY <1>1, <1>8, <2>1, <2>2 DEF RelProveFails
<1> QED BY <1>3, <1>4, <1>5, <1>6, <1>7, <1>8 DEF Failure

LEMMA FailStep ==
  ASSUME IInv, Failure
  PROVE  IInv'
<1>1. PICK err \in {"entropy", "crypto"}, held \in SUBSET (SelfWiping \cup PlainArrays),
           copies \in SUBSET Secrets : Return(Record(err, NoTranscript, held, copies))
  BY FailuresReturn
<1> QED BY <1>1, FailuresReturn, ErrIsGood, ReturnStep

LEMMA TranscriptFacts ==
  ASSUME IInv, running \in Calls, NEW t \in TranscriptsOf(running.entry)
  PROVE  /\ t \in Transcripts /\ t.seed \in {seed, NoSeed}
         /\ running.entry # "relation" => t.seed = seed
<1>1. running.claim \in Claims /\ StatementOf[running.claim] \in Claims /\ seed \in SeedTerms
  BY IterationAssumption DEF Calls, IInv, IterationTypeOK
<1> QED BY <1>1, NoSeedTyped DEF TranscriptsOf, Transcripts

\* Ok(verdict).
LEMMA EmitStep ==
  ASSUME IInv, Emit
  PROVE  IInv'
<1>1. PICK t \in TranscriptsOf(running.entry) : Return(Record("ok", t, live, stray))
  BY DEF Emit
<1>2. running \in Calls /\ pc = "return"
  BY DEF Emit, IInv, Bookkeeping
<1>3. /\ t \in Transcripts /\ t.seed \in {seed, NoSeed}
      /\ running.entry # "relation" => t.seed = seed
  BY <1>1, <1>2, TranscriptFacts
<1>4. GoodRecord(Record("ok", t, live, stray))
  <2>1. Record("ok", t, live, stray) \in Results
    BY <1>2, <1>3, RecordTyped DEF IInv, IterationTypeOK
  <2> QED BY <1>2, <1>3, <2>1, RecordFacts DEF GoodRecord, IInv, HarvestedSeed
<1> QED BY <1>1, <1>4, ReturnStep

----------------------------------------------------------------------------
(* The steps inside a call leave the history alone.                         *)

LEMMA HistoryKept ==
  ASSUME IInv, calls' = calls, drawn' = drawn, pool' = pool
  PROVE  (PoolIsNew /\ PastTells /\ PastIsDisjoint /\ OkRecords)'
  BY DEF IInv, PoolIsNew, PastTells, PastIsDisjoint, OkRecords, FromDraws

\* A step past harvest that keeps the seed, or its provenance.
LEMMA InnerStep ==
  ASSUME IInv, NEW from, NEW to \in Pcs, NEW secrets, NEW copies \in SUBSET Secrets,
         from \notin {"idle", "mix"}, to \notin {"idle", "mix", "oram", "vm"},
         secrets \subseteq SelfWiping \cup PlainArrays,
         Step(from, to, secrets, copies), seed' = seed, valid' \in BOOLEAN
  PROVE  IInv'
<1>1. (PoolIsNew /\ PastTells /\ PastIsDisjoint /\ OkRecords)'
  BY HistoryKept DEF Step
<1>2. IterationTypeOK'
  BY DEF IInv, IterationTypeOK, Step
<1>3. (SeedIsPool /\ RoundsFillPool /\ HarvestedSeed /\ Bookkeeping)'
  BY DEF IInv, Step, SeedIsPool, RoundsFillPool, HarvestedSeed, Bookkeeping, FromDraws
<1> QED BY <1>1, <1>2, <1>3 DEF IInv

LEMMA BeginStep ==
  ASSUME IInv, NEW e \in Entries, NEW c \in Claims, BeginCall(e, c)
  PROVE  IInv'
<1>1. running' \in Calls /\ running'.entry = e /\ e \in AllEntries
  BY IterationAssumption DEF BeginCall, Calls
<1>2. (PoolIsNew /\ PastTells /\ PastIsDisjoint /\ OkRecords)'
  BY HistoryKept DEF BeginCall
<1>3. /\ pc = "idle" /\ seed = NoSeed /\ pool = {} /\ round = 0
      /\ round' = round /\ drawn' = drawn /\ pool' = pool /\ stray' = stray /\ valid' = valid /\ calls' = calls
  BY DEF BeginCall, IInv, Bookkeeping
<1>4. CASE e \in Harvests /\ pc' = "mix" /\ live' = live /\ seed' = seed
  <2>1. IterationTypeOK'
    BY <1>1, <1>3, <1>4 DEF IInv, IterationTypeOK, Pcs
  <2>2. (SeedIsPool /\ RoundsFillPool /\ HarvestedSeed /\ Bookkeeping)'
    BY <1>1, <1>3, <1>4, NoSeedTyped, IterationAssumption
    DEF SeedIsPool, RoundsFillPool, HarvestedSeed, Bookkeeping, FromDraws
  <2> QED BY <1>2, <2>1, <2>2 DEF IInv
<1>5. CASE e = "vm" /\ pc' = "vm" /\ live' = live /\ seed' = seed
  <2>1. IterationTypeOK'
    BY <1>1, <1>3, <1>5 DEF IInv, IterationTypeOK, Pcs
  <2>2. (SeedIsPool /\ RoundsFillPool /\ HarvestedSeed /\ Bookkeeping)'
    BY <1>1, <1>3, <1>5, NoSeedTyped
    DEF SeedIsPool, RoundsFillPool, HarvestedSeed, Bookkeeping, FromDraws, Harvests
  <2> QED BY <1>2, <2>1, <2>2 DEF IInv
<1>6. ASSUME NEW s \in CallerSeeds, e = "seed", pc' = "keygen", live' = {"seed"},
             seed' = [src |-> "caller", of |-> {s}]
      PROVE  IInv'
  <2>0. seed' \in SeedTerms /\ seed'.src = "caller"
    BY <1>6 DEF SeedTerms
  <2>1. IterationTypeOK'
    BY <1>1, <1>3, <1>6, <2>0 DEF IInv, IterationTypeOK, Pcs, SelfWiping
  <2>2. (SeedIsPool /\ RoundsFillPool /\ HarvestedSeed /\ Bookkeeping)'
    BY <1>1, <1>3, <1>6, <2>0
    DEF SeedIsPool, RoundsFillPool, HarvestedSeed, Bookkeeping, FromDraws, Harvests
  <2> QED BY <1>2, <2>1, <2>2 DEF IInv
<1> QED BY <1>4, <1>5, <1>6 DEF BeginCall, Harvests

\* The draw of a round is one no call has used.
LEMMA MixRoundStep ==
  ASSUME IInv, MixRound
  PROVE  IInv'
<1>1. /\ drawn \in Nat /\ pool \subseteq 1 .. drawn /\ drawn' = drawn + 1
      /\ pool' = pool \cup {drawn + 1} /\ round' = round + 1 /\ pc = "mix" /\ pc' = pc
      /\ calls' = calls /\ running' = running /\ seed' = seed /\ seed = NoSeed
  BY DEF MixRound, IInv, IterationTypeOK, Bookkeeping
<1>2. IterationTypeOK'
  <2>1. round' \in 0 .. MixRounds
    BY IterationAssumption DEF MixRound, IInv, IterationTypeOK
  <2>2. live' \subseteq SelfWiping \cup PlainArrays /\ stray' \subseteq Secrets
    BY DEF MixRound, IInv, IterationTypeOK, PlainArrays, Secrets
  <2>3. drawn' \in Nat /\ pool' \subseteq 1 .. drawn'
    BY <1>1
  <2> QED BY <2>1, <2>2, <2>3 DEF MixRound, IInv, IterationTypeOK
<1>3. PoolIsNew' /\ PastTells'
  BY <1>1 DEF IInv, PoolIsNew, PastTells, FromDraws
<1>4. (PastIsDisjoint /\ OkRecords)'
  BY <1>1 DEF IInv, PastIsDisjoint, OkRecords, FromDraws
<1>5. (SeedIsPool /\ RoundsFillPool /\ HarvestedSeed /\ Bookkeeping)'
  BY <1>1, NoSeedTyped
  DEF IInv, SeedIsPool, RoundsFillPool, HarvestedSeed, Bookkeeping, FromDraws
<1> QED BY <1>2, <1>3, <1>4, <1>5 DEF IInv

LEMMA FinalizeStep ==
  ASSUME IInv, Finalize
  PROVE  IInv'
<1>1. /\ pc = "mix" /\ running' = running /\ running \in Calls /\ pool' = pool
      /\ round = MixRounds /\ round' = round /\ drawn' = drawn /\ calls' = calls
      /\ pc' \in {"oram", "rel_prove", "keygen"} /\ pool # {} /\ valid' = valid
  BY IterationAssumption DEF Finalize, Step, IInv, Bookkeeping, RoundsFillPool
<1>0. pc' = "oram" => running.entry = "oram"
  BY DEF Finalize, Step
<1>2. seed' = [src |-> "os", of |-> pool]
  BY DEF Finalize
<1>3. seed' \in SeedTerms /\ FromDraws(seed') /\ seed'.of = pool
  BY <1>2 DEF SeedTerms, FromDraws, IInv, IterationTypeOK
<1>4. live' \subseteq SelfWiping \cup PlainArrays /\ stray' \subseteq Secrets
  BY DEF Finalize, Step, IInv, IterationTypeOK, SelfWiping, Secrets
<1>5. IterationTypeOK'
  BY <1>1, <1>3, <1>4 DEF IInv, IterationTypeOK, Pcs
<1>6. (PoolIsNew /\ PastTells /\ PastIsDisjoint /\ OkRecords)'
  BY <1>1, HistoryKept
<1>7. (SeedIsPool /\ RoundsFillPool /\ HarvestedSeed /\ Bookkeeping)'
  BY <1>0, <1>1, <1>3
  DEF IInv, SeedIsPool, RoundsFillPool, HarvestedSeed, Bookkeeping, FromDraws
<1> QED BY <1>5, <1>6, <1>7 DEF IInv

LEMMA OramStoreStep ==
  ASSUME IInv, OramStore
  PROVE  IInv'
<1>1. /\ pc = "oram" /\ pc' = "keygen" /\ running' = running /\ pool' = pool
      /\ round' = round /\ drawn' = drawn /\ calls' = calls /\ valid' = valid
  BY DEF OramStore, Step
<1>2. live' \subseteq SelfWiping \cup PlainArrays /\ stray' \subseteq Secrets
  BY DEF OramStore, Step, IInv, IterationTypeOK, SelfWiping, Secrets
<1>3. seed' \in SeedTerms /\ seed'.src = "oram" /\ seed'.of = seed.of
  BY DEF OramStore, SeedTerms, IInv, IterationTypeOK
<1>4. IterationTypeOK'
  BY <1>1, <1>2, <1>3 DEF IInv, IterationTypeOK, Pcs
<1>5. (PoolIsNew /\ PastTells /\ PastIsDisjoint /\ OkRecords)'
  BY <1>1, HistoryKept
<1>6. running.entry = "oram" /\ FromDraws(seed)
  BY <1>1 DEF IInv, HarvestedSeed, Harvests
<1>7. (SeedIsPool /\ RoundsFillPool /\ HarvestedSeed /\ Bookkeeping)'
  BY <1>1, <1>3, <1>6
  DEF IInv, SeedIsPool, RoundsFillPool, HarvestedSeed, Bookkeeping, FromDraws
<1> QED BY <1>4, <1>5, <1>7 DEF IInv

LEMMA RunVmStep ==
  ASSUME IInv, RunVm
  PROVE  IInv'
<1>1. /\ pc = "vm" /\ pc' = "keygen" /\ running' = running /\ pool' = pool
      /\ round' = round /\ drawn' = drawn /\ calls' = calls /\ valid' = valid
  BY DEF RunVm, Step
<1>2. live' \subseteq SelfWiping \cup PlainArrays /\ stray' \subseteq Secrets
  BY DEF RunVm, Step, IInv, IterationTypeOK, SelfWiping, PlainArrays
<1>3. PICK root \in {{running.claim} \cap VmAccepts, {}} : seed' = [src |-> "vm", of |-> root]
  BY DEF RunVm
<1>4. root \subseteq Claims
  BY IterationAssumption
<1>5. seed' \in SeedTerms /\ seed'.src = "vm"
  BY <1>3, <1>4 DEF SeedTerms
<1>6. IterationTypeOK'
  BY <1>1, <1>2, <1>5 DEF IInv, IterationTypeOK, Pcs
<1>7. (PoolIsNew /\ PastTells /\ PastIsDisjoint /\ OkRecords)'
  BY <1>1, HistoryKept
<1>8. running.entry = "vm"
  BY <1>1 DEF IInv, HarvestedSeed
<1>9. (SeedIsPool /\ RoundsFillPool /\ HarvestedSeed /\ Bookkeeping)'
  BY <1>1, <1>5, <1>8
  DEF IInv, SeedIsPool, RoundsFillPool, HarvestedSeed, Bookkeeping, FromDraws, Harvests
<1> QED BY <1>6, <1>7, <1>9 DEF IInv

\* Every action of the call, one step each.
LEMMA AdvanceStep ==
  ASSUME IInv, Advance
  PROVE  IInv'
<1>0. live \subseteq SelfWiping \cup PlainArrays /\ valid \in BOOLEAN
  BY DEF IInv, IterationTypeOK
<1>1. CASE MixRound
  BY <1>1, MixRoundStep
<1>2. CASE MixRoundFails
  BY <1>2, FailStep DEF Failure
<1>3. CASE Finalize
  BY <1>3, FinalizeStep
<1>4. CASE OramStore
  BY <1>4, OramStoreStep
<1>5. CASE RunVm
  BY <1>5, RunVmStep
<1>6. CASE Keygen
  <2> DEFINE to == IF running.entry = "hybrid" THEN "mac_key" ELSE "drop_seed"
  <2>1. to \in Pcs /\ to \notin {"idle", "mix", "oram", "vm"}
    BY DEF Pcs
  <2>2. live \cup {"keys"} \subseteq SelfWiping \cup PlainArrays
    BY <1>0 DEF SelfWiping
  <2>3. Step("keygen", to, live \cup {"keys"}, KeygenCopies) /\ seed' = seed /\ valid' \in BOOLEAN
    BY <1>0, <1>6 DEF Keygen
  <2> HIDE DEF to
  <2> QED BY <2>1, <2>2, <2>3, CopiesTyped, InnerStep
<1>7. CASE KeygenFails
  BY <1>7, FailStep DEF Failure
<1>8. CASE MacKey
  <2>1. live \cup {"mac_key"} \subseteq SelfWiping \cup PlainArrays /\ "drop_seed" \in Pcs
    BY <1>0 DEF PlainArrays, Pcs
  <2>2. Step("mac_key", "drop_seed", live \cup {"mac_key"}, {"mac_key"}) /\ seed' = seed /\ valid' \in BOOLEAN
    BY <1>0, <1>8 DEF MacKey
  <2> QED BY <2>1, <2>2, CopiesTyped, InnerStep
<1>9. CASE DropSeed
  <2>1. (live \ {"seed"}) \subseteq SelfWiping \cup PlainArrays /\ "commit" \in Pcs
    BY <1>0 DEF Pcs
  <2>2. Step("drop_seed", "commit", (live \ {"seed"}), {}) /\ seed' = seed /\ valid' \in BOOLEAN
    BY <1>0, <1>9 DEF DropSeed
  <2> QED BY <2>1, <2>2, CopiesTyped, InnerStep
<1>10. CASE Commit
  <2>1. live \subseteq SelfWiping \cup PlainArrays /\ "prove" \in Pcs
    BY <1>0 DEF Pcs
  <2>2. Step("commit", "prove", live, {}) /\ seed' = seed /\ valid' \in BOOLEAN
    BY <1>0, <1>10 DEF Commit
  <2> QED BY <2>1, <2>2, CopiesTyped, InnerStep
<1>11. CASE Prove
  <2>1. live \subseteq SelfWiping \cup PlainArrays /\ "verify" \in Pcs
    BY <1>0 DEF Pcs
  <2>2. Step("prove", "verify", live, {}) /\ seed' = seed /\ valid' \in BOOLEAN
    BY <1>0, <1>11 DEF Prove
  <2> QED BY <2>1, <2>2, CopiesTyped, InnerStep
<1>12. CASE ProveFails
  BY <1>12, FailStep DEF Failure
<1>13. CASE Verify
  <2> DEFINE to == IF running.entry = "hybrid" THEN "mac" ELSE "scrub"
  <2>1. to \in Pcs /\ to \notin {"idle", "mix", "oram", "vm"}
    BY DEF Pcs
  <2>2. Step("verify", to, live, {}) /\ seed' = seed /\ valid' \in BOOLEAN
    BY <1>13 DEF Verify
  <2> HIDE DEF to
  <2> QED BY <1>0, <2>1, <2>2, CopiesTyped, InnerStep
<1>14. CASE VerifyFails
  BY <1>14, FailStep DEF Failure
<1>15. CASE Mac
  <2>1. (live \ {"mac_key"}) \subseteq SelfWiping \cup PlainArrays /\ "scrub" \in Pcs
    BY <1>0 DEF Pcs
  <2>2. Step("mac", "scrub", (live \ {"mac_key"}), {"mac_key"}) /\ seed' = seed /\ valid' \in BOOLEAN
    BY <1>0, <1>15 DEF Mac
  <2> QED BY <2>1, <2>2, CopiesTyped, InnerStep
<1>16. CASE Scrub
  <2>1. (live \ {"keys"}) \subseteq SelfWiping \cup PlainArrays /\ "return" \in Pcs
    BY <1>0 DEF Pcs
  <2>2. Step("scrub", "return", (live \ {"keys"}), {"keys"}) /\ seed' = seed /\ valid' \in BOOLEAN
    BY <1>0, <1>16 DEF Scrub
  <2> QED BY <2>1, <2>2, CopiesTyped, InnerStep
<1>17. CASE RelProve
  <2>1. PICK d \in Derived : Step("rel_prove", "rel_drop_seed", live \cup d, d)
    BY <1>17 DEF RelProve
  <2>2. live \cup d \subseteq SelfWiping \cup PlainArrays /\ d \subseteq Secrets /\ "rel_drop_seed" \in Pcs
    BY <1>0, CopiesTyped DEF Pcs
  <2>3. seed' = seed /\ valid' \in BOOLEAN
    BY <1>0, <1>17 DEF RelProve
  <2> QED BY <2>1, <2>2, <2>3, CopiesTyped, InnerStep
<1>18. CASE RelProveFails
  BY <1>18, FailStep DEF Failure
<1>19. CASE RelDropSeed
  <2>1. (live \ {"seed"}) \subseteq SelfWiping \cup PlainArrays /\ "rel_verify" \in Pcs
    BY <1>0 DEF Pcs
  <2>2. Step("rel_drop_seed", "rel_verify", (live \ {"seed"}), {}) /\ seed' = seed /\ valid' \in BOOLEAN
    BY <1>0, <1>19 DEF RelDropSeed
  <2> QED BY <2>1, <2>2, CopiesTyped, InnerStep
<1>20. CASE RelVerify
  <2>1. live \subseteq SelfWiping \cup PlainArrays /\ "return" \in Pcs
    BY <1>0 DEF Pcs
  <2>2. Step("rel_verify", "return", live, {}) /\ seed' = seed /\ valid' \in BOOLEAN
    BY <1>0, <1>20 DEF RelVerify
  <2> QED BY <2>1, <2>2, CopiesTyped, InnerStep
<1>21. CASE RelVerifyFails
  BY <1>21, FailStep DEF Failure
<1>22. CASE Emit
  BY <1>22, EmitStep
<1> QED BY <1>1, <1>2, <1>3, <1>4, <1>5, <1>6, <1>7, <1>8, <1>9, <1>10, <1>11,
           <1>12, <1>13, <1>14, <1>15, <1>16, <1>17, <1>18, <1>19, <1>20,
           <1>21, <1>22 DEF Advance

LEMMA NextInv == IInv /\ [IterationNext]_iterationVars => IInv'
<1> SUFFICES ASSUME IInv, [IterationNext]_iterationVars PROVE IInv'
  OBVIOUS
<1>1. CASE Advance
  BY <1>1, AdvanceStep
<1>2. ASSUME NEW e \in Entries, NEW c \in Claims, BeginCall(e, c) PROVE IInv'
  BY <1>2, BeginStep
<1>3. CASE UNCHANGED iterationVars
  <2>1. (PoolIsNew /\ PastTells /\ PastIsDisjoint /\ OkRecords)'
    BY <1>3, HistoryKept DEF iterationVars
  <2>2. IterationTypeOK'
    BY <1>3 DEF iterationVars, IInv, IterationTypeOK
  <2>3. (SeedIsPool /\ RoundsFillPool /\ HarvestedSeed /\ Bookkeeping)'
    BY <1>3 DEF iterationVars, IInv, SeedIsPool, RoundsFillPool, HarvestedSeed, Bookkeeping, FromDraws
  <2> QED BY <2>1, <2>2, <2>3 DEF IInv
<1> QED BY <1>1, <1>2, <1>3 DEF IterationNext

\* The inductive invariant holds of every behaviour.
THEOREM Invariance == IterationSpec => []IInv
  BY InitInv, NextInv, PTL DEF IterationSpec

\* Every variable keeps its type: harvest never runs more than MIX_ITERATIONS
\* rounds and the pool only ever holds draws that were answered.
THEOREM TypeCorrect == IterationSpec => []IterationTypeOK
<1>1. IInv => IterationTypeOK
  BY DEF IInv
<1> QED BY <1>1, Invariance, PTL

\* Two iterations that harvest (harvest, l1_entropy.rs:195) never share a seed,
\* over histories of any length, with failures and other entries in between.
THEOREM ContextsAreFresh == IterationSpec => []HarvestedContextsAreFresh
<1>1. IInv => HarvestedContextsAreFresh
  <2> SUFFICES ASSUME IInv, NEW i \in 1 .. Len(calls), NEW j \in 1 .. Len(calls),
                      i < j, calls[i].out = "ok", calls[j].out = "ok",
                      calls[i].entry \in Harvests, calls[j].entry \in Harvests
               PROVE  calls[i].seed # calls[j].seed
    BY DEF HarvestedContextsAreFresh, FreshAmong, OkBefore, Harvests
  <2>1. FromDraws(calls[i].seed) /\ FromDraws(calls[j].seed) /\ i # j
    BY DEF IInv, OkRecords
  <2>2. calls[i].seed.of # {} /\ calls[i].seed.of \cap calls[j].seed.of = {}
    BY <2>1 DEF IInv, PastIsDisjoint
  <2> QED BY <2>2
<1> QED BY <1>1, Invariance, PTL

----------------------------------------------------------------------------
(* What is live, what may be left, and the refinement.                      *)

\* The variables that may hold a secret at each step, and the copies there may be.
Contained ==
  /\ pc = "idle" => live = {} /\ stray = {}
  /\ "pool" \in live => pc = "mix"
  /\ "mac_key" \in live => pc # "scrub" /\ pc # "return" /\ running.entry = "hybrid"
  /\ "vm_root" \in live => running.entry = "vm"
  /\ "rel_secret" \in live => running.entry = "relation"
  /\ pc \in {"mac_key", "mac"} => running.entry = "hybrid"
  /\ pc \in {"rel_prove", "rel_drop_seed", "rel_verify"} => running.entry = "relation"
  /\ pc \notin {"idle", "mix", "oram", "rel_prove", "rel_drop_seed", "rel_verify", "return"} =>
       running.entry # "relation"
  /\ running.entry \in Direct =>
       /\ pc \notin {"oram", "vm"}
       /\ "oram" \notin live
       /\ pc \in {"commit", "prove", "verify", "mac", "scrub", "rel_verify", "return"} =>
            "seed" \notin live

\* The copies that may be left are those of the entry point.
StrayIn ==
  pc # "idle" /\ running.entry \in Direct => stray \subseteq Residue(running.entry)

LEMMA ContainedStep ==
  ASSUME IInv, Contained, [IterationNext]_iterationVars
  PROVE  Contained'
<1>0. pc \in {"oram", "vm"} => running.entry = pc
  BY DEF IInv, HarvestedSeed
<1>1. ASSUME NEW r, Return(r) PROVE Contained'
  BY <1>1 DEF Return, Contained
<1>2. CASE MixRound
  BY <1>2 DEF MixRound, Contained
<1>3. CASE Failure
  BY <1>1, <1>3, FailuresReturn
<1>4. CASE Emit
  BY <1>1, <1>4 DEF Emit
<1>5. CASE Finalize
  <2>1. pc = "mix" /\ running' = running /\ live' = (live \ {"pool"}) \cup {"seed"}
    BY <1>5 DEF Finalize, Step
  <2>2. \/ running.entry = "oram" /\ pc' = "oram"
        \/ running.entry = "relation" /\ pc' = "rel_prove"
        \/ running.entry \notin {"oram", "relation"} /\ pc' = "keygen"
    BY <1>5 DEF Finalize, Step
  <2>3. running.entry = "oram" => running.entry \notin Direct
    BY DEF Direct
  <2> QED BY <2>1, <2>2, <2>3 DEF Contained
<1>6. CASE OramStore \/ RunVm
  <2>1. /\ running' = running /\ pc \in {"oram", "vm"} /\ pc' = "keygen"
        /\ live' \subseteq live \cup {"oram", "vm_root", "seed"}
        /\ "vm_root" \in live' => "vm_root" \in live \/ pc = "vm"
    BY <1>6 DEF OramStore, RunVm, Step
  <2> QED BY <1>0, <2>1 DEF Contained, Direct
<1>7. CASE Keygen \/ MacKey \/ DropSeed
  BY <1>7 DEF Keygen, MacKey, DropSeed, Step, Contained
<1>8. CASE Commit \/ Prove \/ Verify \/ Mac \/ Scrub
  BY <1>8 DEF Commit, Prove, Verify, Mac, Scrub, Step, Contained
<1>9. CASE RelProve
  BY <1>9 DEF RelProve, Derived, Step, Contained
<1>10. CASE RelDropSeed \/ RelVerify
  BY <1>10 DEF RelDropSeed, RelVerify, Step, Contained
<1>11. ASSUME NEW e \in Entries, NEW c \in Claims, BeginCall(e, c) PROVE Contained'
  BY <1>11 DEF BeginCall, Contained, Direct
<1>12. CASE UNCHANGED iterationVars
  BY <1>12 DEF iterationVars, Contained
<1> QED BY <1>2, <1>3, <1>4, <1>5, <1>6, <1>7, <1>8, <1>9, <1>10, <1>11, <1>12
        DEF IterationNext, Advance, Failure

LEMMA StrayStep ==
  ASSUME IInv, Contained, StrayIn, [IterationNext]_iterationVars
  PROVE  StrayIn'
<1>1. ASSUME NEW r, Return(r) PROVE StrayIn'
  BY <1>1 DEF Return, StrayIn
<1>2. CASE MixRound
  BY <1>2 DEF MixRound, StrayIn, IInv, HarvestedSeed, Harvests, Residue
<1>3. CASE Failure
  BY <1>1, <1>3, FailuresReturn
<1>4. CASE Emit
  BY <1>1, <1>4 DEF Emit
<1>5. CASE Finalize
  <2>1. /\ running' = running /\ stray' = stray \cup {"seed"} /\ pc # "idle"
        /\ running.entry \in Harvests
    BY <1>5 DEF Finalize, Step, IInv, HarvestedSeed
  <2> QED BY <2>1 DEF StrayIn, Harvests, Residue
<1>6. CASE OramStore \/ RunVm
  <2>1. running' = running /\ pc \in {"oram", "vm"}
    BY <1>6 DEF OramStore, RunVm, Step
  <2> QED BY <2>1 DEF StrayIn, Contained
<1>7. CASE Keygen
  <2>1. /\ running' = running /\ stray' = stray \cup KeygenCopies /\ pc # "idle"
        /\ running.entry # "relation"
    BY <1>7 DEF Keygen, Step, Contained
  <2> QED BY <2>1 DEF StrayIn, Residue
<1>8. CASE MacKey \/ Mac
  <2>1. /\ running' = running /\ stray' = stray \cup {"mac_key"} /\ pc \in {"mac_key", "mac"}
    BY <1>8 DEF MacKey, Mac, Step
  <2>2. running.entry = "hybrid"
    BY <2>1 DEF Contained
  <2> QED BY <2>1, <2>2 DEF StrayIn, Residue
<1>9. CASE Scrub
  <2>1. /\ running' = running /\ stray' = stray \cup {"keys"} /\ pc # "idle"
        /\ running.entry # "relation"
    BY <1>9 DEF Scrub, Step, Contained
  <2> QED BY <2>1 DEF StrayIn, Residue, KeygenCopies
<1>10. CASE DropSeed \/ Commit \/ Prove \/ Verify \/ RelDropSeed \/ RelVerify
  <2>1. running' = running /\ stray' = stray /\ pc # "idle"
    BY <1>10 DEF DropSeed, Commit, Prove, Verify, RelDropSeed, RelVerify, Step
  <2> QED BY <2>1 DEF StrayIn
<1>13. CASE RelProve
  <2>1. /\ running' = running /\ stray' \subseteq stray \cup {"rel_secret"}
        /\ pc # "idle" /\ running.entry = "relation"
    BY <1>13 DEF RelProve, Derived, Step, Contained
  <2> QED BY <2>1 DEF StrayIn, Residue
<1>11. ASSUME NEW e \in Entries, NEW c \in Claims, BeginCall(e, c) PROVE StrayIn'
  BY <1>11 DEF BeginCall, Contained, StrayIn
<1>12. CASE UNCHANGED iterationVars
  BY <1>12 DEF iterationVars, StrayIn
<1> QED BY <1>2, <1>3, <1>4, <1>5, <1>6, <1>7, <1>8, <1>9, <1>10, <1>11, <1>12, <1>13
        DEF IterationNext, Advance, Failure

LEMMA ContainedInv == IterationSpec => [](IInv /\ Contained /\ StrayIn)
<1>1. IterationInit => Contained /\ StrayIn
  BY DEF IterationInit, Contained, StrayIn
<1>2. IInv /\ Contained /\ StrayIn /\ [IterationNext]_iterationVars => Contained' /\ StrayIn'
  BY ContainedStep, StrayStep
<1> QED BY <1>1, <1>2, Invariance, PTL DEF IterationSpec

\* From L3 on the key pair and the MAC key (and what the prover of a relation leaves) are
\* the only local variables that hold secrets (pipeline.rs:63), and the copies that may
\* be left are those in Residue, in every entry that hands the seed on as it is.
THEOREM OnlyKeys == IterationSpec => []OnlyKeysAfterL2
<1>1. IInv /\ Contained /\ StrayIn => OnlyKeysAfterL2
  BY DEF IInv, IterationTypeOK, SelfWiping, PlainArrays, Contained, StrayIn, OnlyKeysAfterL2, Direct
<1> QED BY <1>1, ContainedInv, PTL

\* A record of the running call tells nothing of an earlier one.
LEMMA TellsApart ==
  ASSUME IInv, NEW r, r.tells \subseteq pool
  PROVE  \A i \in 1 .. Len(calls) : calls[i].tells \cap r.tells = {}
  BY DEF IInv, PastTells

\* Returning Ok keeps the promises of Attest.
LEMMA EmitKeeps ==
  ASSUME IInv, Contained, Emit
  PROVE  A!Finish
<1>1. PICK t \in TranscriptsOf(running.entry) : Return(Record("ok", t, live, stray))
  BY DEF Emit
<1> DEFINE r == Record("ok", t, live, stray)
<1>2. running \in Calls /\ running # NoCall /\ running' = NoCall /\ pc = "return"
  BY <1>1, IdleTyped DEF Emit, IInv, Bookkeeping, Return
<1>3. /\ t \in Transcripts /\ t.seed \in {seed, NoSeed}
      /\ running.entry # "relation" => t.seed = seed
  BY <1>1, <1>2, TranscriptFacts
<1>4. /\ r \in Results /\ r.out = "ok" /\ r.transcript = t
      /\ r.left = live \ SelfWiping /\ r.tells \subseteq pool
      /\ r.entry = running.entry /\ r.seed = seed
  <2>1. r \in Results
    BY <1>2, <1>3, RecordTyped DEF IInv, IterationTypeOK
  <2> QED BY <2>1, RecordFacts
<1>5. calls \in Seq(Results) /\ calls' = Append(calls, r)
  BY <1>1 DEF IInv, IterationTypeOK, Return
<1> HIDE DEF r
<1>6. /\ Len(calls) \in Nat /\ Len(calls') = Len(calls) + 1
      /\ \A n \in 1 .. Len(calls) : calls'[n] = calls[n]
      /\ calls'[Len(calls) + 1] = r
  BY <1>4, <1>5, AppendFacts
<1>7. ASSUME running.entry \in {"once", "oram", "hybrid"}, NEW i \in 1 .. Len(calls),
             calls[i].out = "ok"
      PROVE  calls[i].transcript # t
  <2>1. FromDraws(seed) /\ seed.of = pool /\ pool # {} /\ t.seed = seed
    BY <1>3, <1>7 DEF IInv, HarvestedSeed, Harvests, SeedIsPool, Emit
  <2>2. calls[i].transcript.seed \in {calls[i].seed, NoSeed}
    BY <1>7 DEF IInv, OkRecords
  <2>3. calls[i].seed # seed
    BY <2>1 DEF IInv, PoolIsNew, FromDraws
  <2>4. NoSeed # seed
    BY <2>1, NoSeedTyped
  <2> QED BY <2>1, <2>2, <2>3, <2>4
<1>8. running.entry \in AllEntries \ {"vm", "relation"} => r.left = {}
  <2>1. live \subseteq SelfWiping \cup PlainArrays
    BY DEF IInv, IterationTypeOK
  <2> QED BY <1>2, <1>4, <2>1 DEF Contained, PlainArrays
<1>9. \A i \in 1 .. Len(calls) : calls[i].tells \cap r.tells = {}
  BY <1>4, TellsApart
<1>10. A!Kept(calls', Len(calls'))
  BY <1>4, <1>6, <1>7, <1>8, <1>9 DEF A!Kept
<1> QED BY <1>2, <1>4, <1>6, <1>10 DEF A!Finish

\* Returning Err is always a step of Attest.
LEMMA FailKeeps ==
  ASSUME IInv, Failure
  PROVE  A!Finish
<1>0. PICK err \in {"entropy", "crypto"}, held \in SUBSET (SelfWiping \cup PlainArrays),
           copies \in SUBSET Secrets : Return(Record(err, NoTranscript, held, copies))
  BY FailuresReturn
<1> DEFINE r == Record(err, NoTranscript, held, copies)
<1>1. r \in Results /\ r.out = err /\ r.entry = running.entry /\ r.tells \subseteq pool
  BY FailuresReturn, ErrIsGood, RecordFacts DEF GoodRecord
<1>2. running # NoCall /\ running' = NoCall
  BY <1>0, FailuresReturn, IdleTyped DEF Return, IInv, Bookkeeping
<1>3. calls \in Seq(Results) /\ calls' = Append(calls, r)
  BY <1>0 DEF IInv, IterationTypeOK, Return
<1> HIDE DEF r
<1>4. /\ Len(calls) \in Nat /\ Len(calls') = Len(calls) + 1
      /\ \A n \in 1 .. Len(calls) : calls'[n] = calls[n]
      /\ calls'[Len(calls) + 1] = r
  BY <1>1, <1>3, AppendFacts
<1>5. \A i \in 1 .. Len(calls) : calls[i].tells \cap r.tells = {}
  BY <1>1, TellsApart
<1>6. A!Kept(calls', Len(calls'))
  BY <1>1, <1>4, <1>5 DEF A!Kept
<1> QED BY <1>1, <1>2, <1>4, <1>6 DEF A!Finish

\* The engine implements Attest: results are final, a harvested transcript never recurs,
\* what a call leaves behind tells nothing of the draws of another, and an Ok of a tidy
\* entry leaves no variable of its own uncleared.
THEOREM Refinement == IterationSpec => ImplementsAttest
<1> SUFFICES IterationSpec => A!Spec
  BY DEF ImplementsAttest
<1>1. IterationInit => A!Init
  BY DEF IterationInit, A!Init
<1>2. IInv /\ Contained /\ [IterationNext]_iterationVars => [A!Next]_<<running, calls>>
  <2> SUFFICES ASSUME IInv, Contained, [IterationNext]_iterationVars PROVE [A!Next]_<<running, calls>>
    OBVIOUS
  <2>1. CASE Emit
    BY <2>1, EmitKeeps DEF A!Next
  <2>2. CASE Failure
    BY <2>2, FailKeeps DEF A!Next
  <2>3. ASSUME NEW e \in Entries, NEW c \in Claims, BeginCall(e, c) PROVE A!Next
    BY <2>3, IterationAssumption DEF BeginCall, IInv, Bookkeeping, A!Next, A!Start
  <2>4. CASE MixRound \/ Finalize \/ OramStore \/ RunVm
    BY <2>4 DEF MixRound, Finalize, OramStore, RunVm, Step
  <2>5. CASE Keygen \/ MacKey \/ DropSeed \/ Commit \/ Prove \/ Verify \/ Mac \/ Scrub
    BY <2>5 DEF Keygen, MacKey, DropSeed, Commit, Prove, Verify, Mac, Scrub, Step
  <2>6. CASE RelProve \/ RelDropSeed \/ RelVerify
    BY <2>6 DEF RelProve, RelDropSeed, RelVerify, Step
  <2>7. CASE UNCHANGED iterationVars
    BY <2>7 DEF iterationVars
  <2> QED BY <2>1, <2>2, <2>3, <2>4, <2>5, <2>6, <2>7 DEF IterationNext, Advance, Failure
<1> QED BY <1>1, <1>2, ContainedInv, PTL DEF IterationSpec, A!Spec
=============================================================================
