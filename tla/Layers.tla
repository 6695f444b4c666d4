------------------------------- MODULE Layers -------------------------------
(***************************************************************************)
(* The layer functions that a caller may combine on its own, next to the   *)
(* pipeline (module Iteration): harvest_multi_source (module Entropy), the *)
(* key generators and derive_keys_multi_source of l2_keygen.rs,            *)
(* commit_multi_source of l3_commit.rs, the proof and verification schemes *)
(* of l4_prove.rs and l5_verify.rs with their validators, the wiping of    *)
(* l6_zeroise.rs and the derived verdicts of l7_emit.rs.                   *)
(*                                                                         *)
(* A hash is the term of what it absorbed: two inputs that are written one *)
(* after the other without a length become one sequence.  A seed is opaque,*)
(* and the XOR of seeds is the set of those that occur an odd number of    *)
(* times.                                                                  *)
(***************************************************************************)
EXTENDS Entropy, EntropyHealth, SequencesExt

CONSTANTS
  Bytes,           \* what claims and contexts consist of
  Buffers,         \* contents of signatures, digests and other buffers
  Signatures,      \* the buffers among them that a signature may look like
  Ones,            \* the byte 0xFF; the byte 0 is 0
  Poison,          \* the byte 0xDE
  CANARY_VALUE,    \* the bytes of a stack canary
  MinUniqueProof,  \* distinct bytes of a strong signature; 10 in the code
  MinUniqueDigest, \* distinct bytes of a strong digest; 4 in the code
  MaxSeeds,        \* bound on the seeds that keys are derived from
  MaxText,         \* bound on the bytes of a claim, of a context and of an extension
  MaxDerived       \* bound on the verdicts derived from one verdict

ASSUME LayersAssumption ==
  /\ Signatures \subseteq Buffers /\ \A b \in Buffers : b \in Seq(Nat) /\ b # << >>
  /\ CANARY_VALUE \in Seq(Nat) /\ \E k \in DOMAIN CANARY_VALUE : CANARY_VALUE[k] # 0
  /\ {MinUniqueProof, MinUniqueDigest, MaxSeeds, MaxText, MaxDerived} \subseteq Nat

VARIABLES
  at,       \* the last function of the layers that returned
  keys,     \* EphemeralKeys: how and from which seeds they were derived
  claim, context, commitment,  \* the arguments and the result of L3
  proof,    \* the signature: signer, message and bytes
  check,    \* the claim and keys that L5 was given, and what it returned
  derived,  \* how the verdict was derived from the first one
  transcript,
  buf, passes  \* a caller's buffer, and the passes left of a multi-pass wipe

callVars == <<at, keys, claim, context, commitment, proof, check, derived, transcript>>
layerVars == <<callVars, buf, passes>>
vars == <<entropyVars, healthVars, layerVars>>

NoKeys == [kdf |-> "none", seed |-> {}, from |-> << >>]
NoProof == [by |-> NoKeys, of |-> << >>, bytes |-> <<0>>]
NoCheck == [claim |-> << >>, keys |-> NoKeys, result |-> "none"]

LayersInit ==
  /\ at = "idle" /\ keys = NoKeys /\ claim = << >> /\ context = << >>
  /\ commitment = << >> /\ proof = NoProof /\ check = NoCheck
  /\ derived = << >> /\ transcript = << >>
  /\ buf = <<0>> /\ passes = << >>

----------------------------------------------------------------------------
(* L2: keys                                                                *)

\* Mutant of Combined: each seed overwrites the one before it.
CombinedLast(js) == {seeds[Last(js)]}

\* The XOR of the seeds with the numbers js.
Combined(js) == {s \in {seeds[j] : j \in Range(js)} :
                   Cardinality({k \in DOMAIN js : seeds[js[k]] = s}) % 2 = 1}

Keys(kdf, js) == [kdf |-> kdf, seed |-> Combined(js), from |-> js]

\* derive_keys of one seed, derive_keys_multi_source of several (both SHAKE256), and
\* the crypto-agile generators, which derive with HKDF.
DeriveKeys(kdf, js) ==
  /\ at = "idle" /\ step = "idle" /\ js # << >> /\ (kdf = "hkdf" => Len(js) = 1)
  /\ at' = "keys" /\ keys' = Keys(kdf, js)
  /\ UNCHANGED <<claim, context, commitment, proof, check, derived, transcript>>

\* derive_keys_multi_source of no seed, and libcrux keys that validate_keys refuses.
KeysRefused ==
  /\ at = "idle" /\ step = "idle" /\ at' = "refused"
  /\ UNCHANGED <<keys, claim, context, commitment, proof, check, derived, transcript>>

----------------------------------------------------------------------------
(* L3: commitment                                                          *)

Byte(b) == <<"byte", b>>
Text(s) == [k \in DOMAIN s |-> Byte(s[k])]
Hash(tag, parts) == <<"hash", tag, parts>>
PublicKeys(k) == <<"public", k.kdf, k.seed>>

commit(k, c) == Hash("COMMITMENT", <<PublicKeys(k)>> \o Text(c))

\* Mutant of commit_multi_source: the context is left out.
commit_multi_source_bare(k, c, x) == commit(k, c)

commit_multi_source(k, c, x) == Hash("COMMITMENT", <<PublicKeys(k)>> \o Text(c) \o Text(x))

\* Shake256Commitment::commit is commit: the case of no context.
Commit(c, x) ==
  /\ at = "keys" /\ at' = "committed"
  /\ claim' = c /\ context' = x /\ commitment' = commit_multi_source(keys, c, x)
  /\ UNCHANGED <<keys, proof, check, derived, transcript>>

----------------------------------------------------------------------------
(* L4: proof                                                               *)

\* MlDsa65Scheme::prove.
Prove(b) ==
  /\ at = "committed" /\ at' = "proved"
  /\ proof' = [by |-> keys, of |-> commitment, bytes |-> b]
  /\ UNCHANGED <<keys, claim, context, commitment, check, derived, transcript>>

\* MlDsa87Scheme::prove is not implemented, and signing may fail.
ProveFails ==
  /\ at = "committed" /\ at' = "refused"
  /\ UNCHANGED <<keys, claim, context, commitment, proof, check, derived, transcript>>

\* The signature is damaged on its way to the verifier.
Damage(b) ==
  /\ at = "proved" /\ proof.of # << >>
  /\ proof' = [by |-> NoKeys, of |-> << >>, bytes |-> b]
  /\ UNCHANGED <<at, keys, claim, context, commitment, check, derived, transcript>>

AllOf(b, v) == \A k \in DOMAIN b : b[k] = v
Unique(b) == Cardinality(Range(b))

WellFormed(b) == ~AllOf(b, 0) /\ ~AllOf(b, Ones)
validate_proof(b) == WellFormed(b)
validate_commitment(b) == WellFormed(b)
validate_verdict(b) == WellFormed(b)

Strong(b, least) == ~AllOf(b, b[1]) /\ Unique(b) >= least
validate_proof_strength(b) == Strong(b, MinUniqueProof)
validate_commitment_strength(b) == Strong(b, MinUniqueDigest)
validate_verdict_strength(b) == Strong(b, MinUniqueDigest)

----------------------------------------------------------------------------
(* L5: verification                                                        *)

\* MlDsaVerifier::verify recomputes the commitment from the claim and the keys.
verify(k, c, p) ==
  IF p.by = k /\ p.of = commit(k, c) THEN "valid" ELSE "invalid"

verify_multi_check(k, c, p) ==
  IF validate_proof(p.bytes) /\ validate_proof_strength(p.bytes) THEN verify(k, c, p) ELSE "err"

\* scheme: the standard verifier, the multi-check, or ML-DSA-87, not implemented.
Verify(scheme, k, c) ==
  /\ at = "proved" /\ at' = "checked"
  /\ check' = [claim |-> c, keys |-> k,
               result |-> CASE scheme = "standard" -> verify(k, c, proof)
                            [] scheme = "multi" -> verify_multi_check(k, c, proof)
                            [] scheme = "ml_dsa_87" -> "err"]
  /\ UNCHANGED <<keys, claim, context, commitment, proof, derived, transcript>>

\* The keys a verifier may come with: those of the prover, and what the other
\* generator derives from the same seeds.
VerifierKeys == {keys} \cup (IF Len(keys.from) = 1 THEN {Keys("hkdf", keys.from), Keys("shake", keys.from)} ELSE {})

----------------------------------------------------------------------------
(* L7: verdicts                                                            *)

\* Verdict::new, BasicVerdictScheme::new; the keys and the proof are gone by then.
Emit ==
  /\ at = "checked" /\ check.result # "err" /\ at' = "emitted"
  /\ transcript' = Hash("TRANSCRIPT", <<commitment>>)
  /\ keys' = NoKeys /\ proof' = NoProof /\ check' = NoCheck
  /\ UNCHANGED <<claim, context, commitment, derived>>

verdict_multi_source(t, x) == Hash("TRANSCRIPT", <<t>> \o Text(x))

\* Mutant of verdict_blind: the tag of verdict_multi_source.
verdict_blind_untagged(t, r) == Hash("TRANSCRIPT", <<t>> \o Text(r))

verdict_blind(t, r) == Hash("blinding", <<t>> \o Text(r))

Derive(how, x) ==
  /\ at = "emitted" /\ Len(derived) < MaxDerived
  /\ derived' = Append(derived, <<how, x>>)
  /\ transcript' = IF how = "blind" THEN verdict_blind(transcript, x)
                   ELSE verdict_multi_source(transcript, x)
  /\ UNCHANGED <<at, keys, claim, context, commitment, proof, check>>

\* Everything goes out of scope.
End ==
  /\ at \in {"refused", "checked", "emitted"} /\ at' = "idle"
  /\ keys' = NoKeys /\ claim' = << >> /\ context' = << >> /\ commitment' = << >>
  /\ proof' = NoProof /\ check' = NoCheck /\ derived' = << >> /\ transcript' = << >>

LayerCall ==
  \/ \E js \in BoundedSeq(DOMAIN seeds, MaxSeeds) : \E kdf \in {"shake", "hkdf"} : DeriveKeys(kdf, js)
  \/ KeysRefused
  \/ \E c, x \in BoundedSeq(Bytes, MaxText) : Commit(c, x)
  \/ (\E b \in Signatures : Prove(b) \/ Damage(b)) \/ ProveFails
  \/ \E k \in VerifierKeys, c \in BoundedSeq(Bytes, 2 * MaxText) :
       \E s \in {"standard", "multi", "ml_dsa_87"} : Verify(s, k, c)
  \/ Emit \/ End
  \/ \E x \in BoundedSeq(Bytes, MaxText) : Derive("multi", x) \/ (x # << >> /\ Derive("blind", x))

----------------------------------------------------------------------------
(* L6: a buffer of the caller                                              *)

\* Zeroizing::new, or any other buffer that is filled.
FillBuffer(b) ==
  /\ passes = << >> /\ buf' = b /\ UNCHANGED passes

\* Mutant of MultiPass: the pattern is written last.
MultiPassPoisonLast == <<0, Poison>>

\* zeroize_multi_pass: zeros, the poison pattern, zeros.
MultiPass == <<0, Poison, 0>>

zeroize_multi_pass == passes = << >> /\ passes' = MultiPass /\ UNCHANGED buf

WriteAll(v) == buf' = [k \in DOMAIN buf |-> v]
Pass == passes # << >> /\ WriteAll(Head(passes)) /\ passes' = Tail(passes)

validate_zeroization(b) == AllOf(b, 0)

\* plant_stack_canary, validate_stack_canary and wipe_stack_canary of l0_memlock.rs.
plant_stack_canary == FillBuffer(CANARY_VALUE)
validate_stack_canary(b) == b = CANARY_VALUE
wipe_stack_canary == passes = << >> /\ passes' = <<0>> /\ UNCHANGED buf

\* FillBuffer is also what an overflow does to a canary.
BufferStep ==
  \/ passes = << >> /\ \E b \in Buffers : FillBuffer(b)
  \/ zeroize_multi_pass \/ Pass
  \/ plant_stack_canary \/ wipe_stack_canary

\* A caller does any of this, in any order.
LayersNext ==
  \/ EntropyNext /\ UNCHANGED <<healthVars, layerVars>>
  \/ (\E s, o \in Samples : HealthCheck(s, o)) /\ UNCHANGED <<entropyVars, layerVars>>
  \/ LayerCall /\ UNCHANGED <<entropyVars, healthVars, buf, passes>>
  \/ BufferStep /\ UNCHANGED <<entropyVars, healthVars, callVars>>

LayersSpec == EntropyInit /\ HealthInit /\ LayersInit /\ [][LayersNext]_vars

----------------------------------------------------------------------------
(* Properties                                                              *)

Often(js, j) == Cardinality({k \in DOMAIN js : js[k] = j})
OddOnes(js) == {j \in Range(js) : Often(js, j) % 2 = 1}

\* The keys of derive_keys_multi_source depend on as many seeds as were given an odd
\* number of times: distinct harvests never cancel, so nobody who lacks one of them can
\* derive the keys, but a seed that is given twice does (l2_keygen.rs:224).
OnlyTwinsCancel == Cardinality(keys.seed) = Cardinality(OddOnes(keys.from))

\* L3_LAYER.md:334: "The `context` parameter allows callers to bind the commitment to
\* additional application-specific data".  The code writes it right after the claim, and
\* another claim with another context gives the same commitment.
ContextIsBound ==
  at = "committed" =>
    \A c, x \in BoundedSeq(Bytes, 2 * MaxText) :
      commit_multi_source(keys, c, x) = commitment => c = claim /\ x = context

\* A proof over a commit_multi_source commitment is accepted for the claim followed
\* by the context and for nothing else, so the claim alone no longer verifies, and the
\* verifier never learns where it ends (l3_commit.rs:160).
AcceptsWhatWasCommitted ==
  check.result \in {"valid", "invalid"} =>
    (check.result = "valid" <=> /\ proof.of = commitment /\ check.keys = keys
                                /\ check.claim = claim \o context)

\* The step that made a transcript, read off the transcript.
LastStep(t) == <<IF t[2] = "blinding" THEN "blind" ELSE "multi",
                 [k \in 1 .. Len(t[3]) - 1 |-> t[3][k + 1][2]]>>

\* A transcript tells how it came about: extending and blinding a verdict, in any
\* order and number, never lead two histories to the same transcript, although all
\* of them end in one flat hash (l7_emit.rs:209, 236).
TranscriptTellsHistory ==
  LET inner[k \in 0 .. Len(derived)] == IF k = 0 THEN transcript ELSE inner[k - 1][3][1]
      n == Len(derived)
  IN  at = "emitted" =>
        /\ inner[n] = Hash("TRANSCRIPT", <<commitment>>)
        /\ \A k \in 1 .. n : derived[k] = LastStep(inner[n - k])

\* What is left of the inputs that a caller combines, in whatever order: which seeds count
\* in keys, the bytes behind a commitment, every step behind a transcript.
LayersBindInputs == OnlyTwinsCancel /\ AcceptsWhatWasCommitted /\ TranscriptTellsHistory

\* A wipe ends in zeros, with the poison pattern gone, in whatever state it found the
\* buffer; and what it leaves is taken for nothing else: it is refused as a proof, a
\* commitment, a verdict and an intact canary, by the weak and by the strong validators.
WipeEndsInZeros ==
  [][passes # << >> /\ passes' = << >> =>
       /\ validate_zeroization(buf') /\ \A k \in DOMAIN buf' : buf'[k] = 0
       /\ ~(validate_proof(buf') \/ validate_commitment(buf') \/ validate_verdict(buf'))
       /\ ~(validate_proof_strength(buf') \/ validate_commitment_strength(buf')
              \/ validate_verdict_strength(buf') \/ validate_stack_canary(buf'))]_vars

\* A harvest returns, or the process has aborted: the caller and the four threads do
\* not wait for each other for ever at the barrier or at the join.
HarvestReturns == []<>(step \in {"idle", "aborted"})
=============================================================================
