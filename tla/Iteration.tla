----------------------------- MODULE Iteration -----------------------------
(***************************************************************************)
(* One iteration of the engine, layers L1 to L7, as src/src/pipeline.rs    *)
(* and src/src/hybrid.rs run it through each of their entry points:        *)
(*                                                                         *)
(*   once      verify_once and verify_once_with                            *)
(*   seed      verify_once_with_seed, the caller supplies the Seed         *)
(*   oram      verify_once_with_oram                                       *)
(*   vm        verify_once_with_vm                                         *)
(*   hybrid    hybrid_attest                                               *)
(*   relation  prove_and_verify                                            *)
(*                                                                         *)
(* A value is modelled by where it comes from: a seed by the draws from    *)
(* the OS generator (or the VM root, or the caller's bytes) it is computed *)
(* from, a transcript by the seed and the claim.  Hashing and key          *)
(* generation are deterministic and assumed free of collisions, so equal   *)
(* values are equal provenances.                                           *)
(*                                                                         *)
(* Secret bytes are in two kinds of places.  `live` is the set of local    *)
(* variables that hold them at the moment.  `stray` is the set of secrets  *)
(* of which there may be a copy that no variable names any more: the       *)
(* by-value argument of a Copy array, a value moved or returned by value,  *)
(* the buffer that the Vec of Shake256 has outgrown (shake256.rs:47).      *)
(* Nothing in the code clears such a copy; whether it is there depends on  *)
(* the build and on the allocator.                                         *)
(***************************************************************************)
EXTENDS Naturals, Sequences

CONSTANTS
  Entries,     \* the entry points the caller uses
  Claims,      \* claims (and, for relations, witnesses)
  CallerSeeds, \* seeds a caller of verify_once_with_seed may supply
  VmAccepts,   \* claims that are valid MicroVM programs; others give root 0
  StatementOf, \* the statement of a witness, named by one of the witnesses that have it
  MixRounds,   \* MIX_ITERATIONS
  MaxCalls,    \* bound on the length of the history
  NoCall       \* "no call in progress"

AllEntries == {"once", "seed", "oram", "vm", "hybrid", "relation"}

ASSUME IterationAssumption ==
  /\ Entries \subseteq AllEntries
  /\ VmAccepts \subseteq Claims /\ StatementOf \in [Claims -> Claims]
  /\ MixRounds \in Nat \ {0} /\ MaxCalls \in Nat
  /\ \A e \in AllEntries, c \in Claims : NoCall # [entry |-> e, claim |-> c]

VARIABLES
  running,     \* the arguments of the call in progress
  pc,          \* the step it has reached
  round,       \* mix rounds completed by harvest
  drawn,       \* draws the OS generator has answered since the start
  pool,        \* the draws folded into harvest's pool
  live,        \* local variables that hold secret bytes
  stray,       \* secrets of which an unnamed copy may be left somewhere
  seed,        \* provenance of the Seed that keygen, or R::prove, consumes
  valid,       \* the Choice computed by L5
  calls        \* the results returned so far

iterationVars == <<running, pc, round, drawn, pool, live, stray, seed, valid, calls>>

\* Types whose Drop wipes them: Locked, EphemeralKeys, ObliviousRAM.
SelfWiping == {"seed", "keys", "oram"}

\* Variables that only an explicit zeroize_bytes clears: harvest's pool,
\* hybrid_attest's mac_key, the root MicroVM::execute returns, and what the prover
\* of a relation derives from the witness (MlDsaKnowledge: kp and sig_randomness).
PlainArrays == {"pool", "mac_key", "vm_root", "rel_secret"}

\* os_bytes: what a mix round absorbs and squeezes.  sub_seeds: the seeds of the two
\* key generators.
Secrets == {"os_bytes", "seed", "sub_seeds", "keys", "mac_key", "rel_secret"}

Pcs == {"idle", "mix", "oram", "vm", "keygen", "mac_key", "drop_seed", "commit",
        "prove", "verify", "mac", "scrub", "rel_prove", "rel_drop_seed",
        "rel_verify", "return"}

SeedTerms == [src : {"none", "os", "oram", "vm", "caller"},
              of : SUBSET (Nat \cup Claims \cup CallerSeeds)]

NoSeed == [src |-> "none", of |-> {}]

Transcripts == [tag : {"commitment", "hybrid", "statement"},
                seed : SeedTerms, claim : Claims]

NoTranscript == [tag |-> "none"]

Calls == [entry : AllEntries, claim : Claims]

Results == [entry : AllEntries, claim : Claims, out : {"ok", "entropy", "crypto"},
            seed : SeedTerms, transcript : Transcripts \cup {NoTranscript},
            valid : BOOLEAN, left : SUBSET (SelfWiping \cup PlainArrays),
            stray : SUBSET Secrets, tells : SUBSET Nat]

IterationTypeOK ==
  /\ running \in Calls \cup {NoCall}
  /\ pc \in Pcs
  /\ round \in 0 .. MixRounds
  /\ drawn \in Nat
  /\ pool \subseteq 1 .. drawn
  /\ live \subseteq SelfWiping \cup PlainArrays
  /\ stray \subseteq Secrets
  /\ seed \in SeedTerms
  /\ valid \in BOOLEAN
  /\ calls \in Seq(Results)

IterationInit ==
  /\ running = NoCall /\ pc = "idle"
  /\ round = 0 /\ drawn = 0 /\ pool = {}
  /\ live = {} /\ stray = {} /\ seed = NoSeed /\ valid = FALSE
  /\ calls = << >>

----------------------------------------------------------------------------
(* Returning.  A result records what the scope's destructors leave behind,  *)
(* and the draws that this tells about: every leftover of a call that       *)
(* harvests is computed from the draws in its pool.                         *)

Record(out, transcript, held, copies) ==
  LET left == held \ SelfWiping
  IN  [entry |-> running.entry, claim |-> running.claim, out |-> out, seed |-> seed,
       transcript |-> transcript, valid |-> valid, left |-> left, stray |-> copies,
       tells |-> IF left = {} /\ copies = {} THEN {} ELSE pool]

Return(r) ==
  /\ calls' = Append(calls, r)
  /\ running' = NoCall /\ pc' = "idle"
  /\ round' = 0 /\ pool' = {} /\ live' = {} /\ stray' = {} /\ seed' = NoSeed
  /\ valid' = FALSE
  /\ UNCHANGED drawn

\* The `?` operator: the locals go out of scope and every Drop runs.
Fail(err) == Return(Record(err, NoTranscript, live, stray))

\* One step inside a function: it only moves on, changes what is live and may leave
\* copies.
Step(from, to, secrets, copies) ==
  /\ pc = from /\ pc' = to
  /\ live' = secrets /\ stray' = stray \cup copies
  /\ UNCHANGED <<running, round, drawn, pool, calls>>

----------------------------------------------------------------------------
BeginCall(e, c) ==
  /\ pc = "idle" /\ Len(calls) < MaxCalls
  /\ running' = [entry |-> e, claim |-> c]
  /\ \/ /\ e \in {"once", "oram", "hybrid", "relation"} /\ pc' = "mix"
        /\ UNCHANGED <<live, seed>>
     \/ /\ e = "vm" /\ pc' = "vm"
        /\ UNCHANGED <<live, seed>>
     \/ /\ e = "seed" /\ pc' = "keygen"
        /\ live' = {"seed"}
        /\ \E s \in CallerSeeds : seed' = [src |-> "caller", of |-> {s}]
  /\ UNCHANGED <<round, drawn, pool, stray, valid, calls>>

(* L1: harvest                                                             *)

\* mix_round: 48 bytes of getrandom, hashed and folded into the pool.  Its variables
\* are wiped before it returns, the buffer that os_bytes was in before the jitter
\* made it grow is not.
MixRound ==
  /\ pc = "mix" /\ round < MixRounds
  /\ drawn' = drawn + 1
  /\ pool' = pool \cup {drawn + 1}
  /\ round' = round + 1
  /\ live' = live \cup {"pool"} /\ stray' = stray \cup {"os_bytes"}
  /\ UNCHANGED <<running, pc, seed, valid, calls>>

\* Mutant of MixRoundFails: the error of getrandom is discarded.
MixRoundFailsUnnoticed ==
  /\ pc = "mix" /\ round < MixRounds
  /\ round' = round + 1
  /\ live' = live \cup {"pool"} /\ stray' = stray \cup {"os_bytes"}
  /\ UNCHANGED <<running, pc, drawn, pool, seed, valid, calls>>

\* getrandom fails before the round touched the pool: `?` out of mix_round and
\* out of harvest, with the rounds already folded still in the pool.
MixRoundFails ==
  /\ pc = "mix" /\ round < MixRounds
  /\ Fail("entropy")

\* The final squeeze goes into a Locked buffer, out of a reader that finalize_xof
\* returns by value; the pool is wiped.
Finalize ==
  /\ round = MixRounds
  /\ Step("mix", CASE running.entry = "oram" -> "oram"
                   [] running.entry = "relation" -> "rel_prove"
                   [] OTHER -> "keygen",
          (live \ {"pool"}) \cup {"seed"}, {"seed"})
  /\ seed' = [src |-> "os", of |-> pool]
  /\ UNCHANGED valid

(* Storage and execution in front of keygen                                *)

\* verify_once_with_oram: the harvested seed is written (by value, hashed),
\* read back (by value) into a second Seed, and dropped; `raw` is wiped.  From
\* here on `seed` is seed_from_oram, whose bytes are what slot 0 holds.
OramStore ==
  /\ Step("oram", "keygen", live \cup {"oram"}, {"seed"})
  /\ seed' = [seed EXCEPT !.src = "oram"]
  /\ UNCHANGED valid

\* verify_once_with_vm: the seed is the first half of the VM root, twice.  The
\* root is a function of the claim, or zero ({} here) for a rejected program and
\* when the draw for the VM's canary fails.
RunVm ==
  /\ Step("vm", "keygen", live \cup {"vm_root", "seed"}, {})
  /\ \E root \in {{running.claim} \cap VmAccepts, {}} :
       seed' = [src |-> "vm", of |-> root]
  /\ UNCHANGED valid

(* L2: derive_keys.  It wipes its two sub-seeds after use, but kem_keygen and *)
(* dsa_keygen take them by value, and the key pairs move: into EphemeralKeys,  *)
(* to the caller, and into scrub.                                             *)

KeygenCopies == {"sub_seeds", "keys"}

Keygen ==
  /\ Step("keygen", IF running.entry = "hybrid" THEN "mac_key" ELSE "drop_seed",
          live \cup {"keys"}, KeygenCopies)
  /\ UNCHANGED <<seed, valid>>

\* validate_keys or validate_key_strength refuses the keys, which are dropped.
KeygenFails ==
  /\ pc = "keygen"
  /\ Return(Record("crypto", NoTranscript, live, stray \cup KeygenCopies))

\* hybrid_attest derives the MAC key from the same seed.
MacKey == Step("mac_key", "drop_seed", live \cup {"mac_key"}, {"mac_key"})
          /\ UNCHANGED <<seed, valid>>

\* Mutant of DropSeed: the seed lives on to the end of the scope.
DropSeedLater == Step("drop_seed", "commit", live, {}) /\ UNCHANGED <<seed, valid>>

\* core::mem::drop(seed): Locked wipes it.
DropSeed == Step("drop_seed", "commit", live \ {"seed"}, {})
            /\ UNCHANGED <<seed, valid>>

(* L3, L4, L5                                                              *)

Commit == Step("commit", "prove", live, {}) /\ UNCHANGED <<seed, valid>>

Prove == Step("prove", "verify", live, {}) /\ UNCHANGED <<seed, valid>>

\* dsa_sign, or a pluggable Prover, reports an error.
ProveFails == pc = "prove" /\ Fail("crypto")

\* The signature check and the KEM round trip, both always performed.
Verify ==
  /\ Step("verify", IF running.entry = "hybrid" THEN "mac" ELSE "scrub", live, {})
  /\ \E sig_ok, kem_ok \in BOOLEAN : valid' = (sig_ok /\ kem_ok)
  /\ UNCHANGED seed

\* MlDsaVerifier never errs; a pluggable Verifier (verify_once_with) may.
VerifyFails == pc = "verify" /\ Fail("crypto")

\* Mutant of Mac: the MAC key is not wiped.
MacKeyKept == Step("mac", "scrub", live, {"mac_key"}) /\ UNCHANGED <<seed, valid>>

\* hybrid_attest: the MAC and its recomputation agree, the verdict is the AND
\* of both layers, and mac_key, mac and mac_check are wiped.  The claim follows
\* mac_key in the sponge and can make its buffer grow.
Mac == Step("mac", "scrub", live \ {"mac_key"}, {"mac_key"}) /\ UNCHANGED <<seed, valid>>

(* L6 and L7                                                               *)

\* scrub(keys): the barrier before the verdict leaves.
Scrub == Step("scrub", "return", live \ {"keys"}, {"keys"}) /\ UNCHANGED <<seed, valid>>

(* prove_and_verify_with_entropy                                           *)

\* What R::prove derives from the witness: nothing that stays, or the locals of
\* MlDsaKnowledge::prove, whose kp and sig_randomness are not wiped; they, and the
\* witness's seed, are also passed by value.
Derived == {{}, {"rel_secret"}}

RelProve ==
  /\ \E d \in Derived : Step("rel_prove", "rel_drop_seed", live \cup d, d)
  /\ UNCHANGED <<seed, valid>>

RelProveFails ==
  /\ pc = "rel_prove"
  /\ \E d \in Derived : Return(Record("crypto", NoTranscript, live \cup d, stray \cup d))

RelDropSeed == Step("rel_drop_seed", "rel_verify", live \ {"seed"}, {})
               /\ UNCHANGED <<seed, valid>>

RelVerify ==
  /\ Step("rel_verify", "return", live, {})
  /\ valid' \in BOOLEAN
  /\ UNCHANGED seed

RelVerifyFails == pc = "rel_verify" /\ Fail("crypto")

\* The transcripts of Verdict::new, of hybrid_attest and of a relation.  The last is
\* the digest of a statement, which several witnesses may share (a Merkle root and
\* leaf, the indices of a list of shares), and which may or may not depend on the
\* prover's randomness.
TranscriptsOf(entry) ==
  CASE entry = "hybrid" -> {[tag |-> "hybrid", seed |-> seed, claim |-> running.claim]}
    [] entry = "relation" ->
         {[tag |-> "statement", seed |-> s, claim |-> StatementOf[running.claim]] :
            s \in {seed, NoSeed}}
    [] OTHER -> {[tag |-> "commitment", seed |-> seed, claim |-> running.claim]}

\* Ok(verdict): the rest of the scope is dropped.
Emit ==
  /\ pc = "return"
  /\ \E t \in TranscriptsOf(running.entry) :
       Return(Record("ok", t, live, stray))

----------------------------------------------------------------------------
Advance ==
  \/ MixRound \/ MixRoundFails \/ Finalize \/ OramStore \/ RunVm
  \/ Keygen \/ KeygenFails \/ MacKey \/ DropSeed
  \/ Commit \/ Prove \/ ProveFails \/ Verify \/ VerifyFails \/ Mac \/ Scrub
  \/ RelProve \/ RelProveFails \/ RelDropSeed \/ RelVerify \/ RelVerifyFails
  \/ Emit

IterationNext == Advance \/ \E e \in Entries, c \in Claims : BeginCall(e, c)

IterationSpec == IterationInit /\ [][IterationNext]_iterationVars

----------------------------------------------------------------------------
(* Properties                                                              *)

\* Entry points that give the seed to keygen, or to R::prove, as they got it.
Direct == AllEntries \ {"oram", "vm"}

\* The copies that a call through an entry point may leave anywhere.
Residue(entry) ==
  (IF entry \in {"once", "oram", "hybrid", "relation"} THEN {"os_bytes", "seed"} ELSE {})
    \cup (IF entry = "relation" THEN {"rel_secret"} ELSE KeygenCopies)
    \cup (IF entry = "hybrid" THEN {"mac_key"} ELSE {})

\* From L3 on the key pair, and hybrid's MAC key, are the only local variables that
\* hold secrets: pool and seed are gone (pipeline.rs:63), save for what a relation's
\* prover leaves.  Unnamed copies are left of the secrets in Residue, and of the seed
\* itself only where it was harvested.  verify_once_with_oram and verify_once_with_vm
\* hold the seed in two variables and are left out.
OnlyKeysAfterL2 ==
  /\ pc \in {"commit", "prove", "verify", "mac", "scrub", "rel_verify", "return"}
  /\ running.entry \in Direct
  => /\ live \subseteq {"keys", "mac_key", "rel_secret"}
     /\ "rel_secret" \in live => running.entry = "relation"
     /\ stray \subseteq Residue(running.entry)

OkBefore(i, j) == i < j /\ calls[i].out = "ok" /\ calls[j].out = "ok"

FreshAmong(entries) ==
  \A i, j \in 1 .. Len(calls) :
    OkBefore(i, j) /\ calls[i].entry \in entries /\ calls[j].entry \in entries
      => calls[i].seed # calls[j].seed

\* No two iterations that harvest share a seed, hence keys, whatever calls fail
\* or use other entry points in between (harvest, l1_entropy.rs:195).
HarvestedContextsAreFresh == FreshAmong({"once", "oram", "hybrid", "relation"})

A == INSTANCE Attest WITH
       Harvesting <- {"once", "oram", "hybrid"}, Tidy <- AllEntries \ {"vm", "relation"}

\* The iteration implements the abstract engine: results are only appended, one
\* per call, and each keeps the promises of Attest.  vm_root, and what the prover of
\* a relation derives, stay behind in variables of their own, so the entries that use
\* them do not promise to be tidy.
ImplementsAttest == A!Spec
=============================================================================
