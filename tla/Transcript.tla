----------------------------- MODULE Transcript -----------------------------
(***************************************************************************)
(* The Fiat-Shamir transcript of src/src/common/transcript.rs, kept by a   *)
(* prover and by a verifier that may have heard something else.            *)
(*                                                                         *)
(* A hash is the term of what it absorbed: the domain tag, the previous    *)
(* state, the stream of bytes, and the challenge that was folded back.     *)
(* Bytes and the 8-byte length in front of them are numbers: two inputs    *)
(* written one after the other are one stream.                             *)
(***************************************************************************)
EXTENDS Integers, Sequences

CONSTANTS
  Strings,   \* labels and data: sequences of numbers
  Lengths,   \* lengths of the challenges asked for
  MaxCalls   \* bound on the calls of one party

ASSUME TranscriptAssumption ==
  /\ Strings \subseteq Seq(Nat) /\ Lengths \subseteq Nat /\ MaxCalls \in Nat

Parties == {"prover", "verifier"}

VARIABLES
  calls,     \* what each party has called, with which arguments
  sponge,    \* the state of each party's transcript
  squeezed   \* the challenges each party has derived, in order

transcriptVars == <<calls, sponge, squeezed>>

----------------------------------------------------------------------------
\* Mutant of framed: the bytes alone.
framed_bare(bytes) == bytes

\* len(8 LE) || bytes.
framed(bytes) == <<Len(bytes)>> \o bytes

Term(tag, prev, stream, out) == [tag |-> tag, prev |-> prev, stream |-> stream, out |-> out]

new(protocol_label) == Term("FS_PROTOCOL", << >>, framed(protocol_label), << >>)

absorb(s, label, data) == Term("FS_ABSORB", <<s>>, framed(label) \o framed(data), << >>)

\* No bytes, and no state yet.
Nothing == Term("none", << >>, << >>, << >>)

\* The challenge that is squeezed, and the state once it is folded back.
Squeezed(s, label, len) ==
  IF len = 0 THEN Nothing ELSE Term("FS_SQUEEZE", <<s>>, framed(label) \o <<len>>, << >>)

\* Mutant of Folded: a challenge leaves the state as it was.
FoldedNot(s, label, len) == s

Folded(s, label, len) ==
  Term("FS_POST_CHALLENGE", <<s>>, framed(label) \o <<len>>, <<Squeezed(s, label, len)>>)

----------------------------------------------------------------------------
Start(label) == [call |-> "new", label |-> label, data |-> << >>, len |-> 0]

New(p, label) ==
  /\ calls[p] = << >>
  /\ calls' = [calls EXCEPT ![p] = <<Start(label)>>]
  /\ sponge' = [sponge EXCEPT ![p] = new(label)]
  /\ UNCHANGED squeezed

Absorb(p, label, data) ==
  /\ calls[p] # << >>
  /\ calls' = [calls EXCEPT ![p] =
       Append(@, [call |-> "absorb", label |-> label, data |-> data, len |-> 0])]
  /\ sponge' = [sponge EXCEPT ![p] = absorb(@, label, data)]
  /\ UNCHANGED squeezed

\* challenge and challenge_array.
Challenge(p, label, len) ==
  /\ calls[p] # << >>
  /\ calls' = [calls EXCEPT ![p] =
       Append(@, [call |-> "challenge", label |-> label, data |-> << >>, len |-> len])]
  /\ squeezed' = [squeezed EXCEPT ![p] = Append(@, Squeezed(sponge[p], label, len))]
  /\ sponge' = [sponge EXCEPT ![p] = Folded(@, label, len)]

TranscriptInit ==
  /\ calls = [p \in Parties |-> << >>] /\ sponge = [p \in Parties |-> Nothing]
  /\ squeezed = [p \in Parties |-> << >>]

\* Both transcripts are dropped.
DropTranscripts ==
  /\ Len(calls["verifier"]) = MaxCalls
  /\ calls' = [p \in Parties |-> << >>] /\ sponge' = [p \in Parties |-> Nothing]
  /\ squeezed' = [p \in Parties |-> << >>]

\* The parties share no state: the prover makes its calls first.
TranscriptNext ==
  \/ \E p \in Parties :
       /\ Len(calls[p]) < MaxCalls /\ (p = "prover" => calls["verifier"] = << >>)
       /\ \E label \in Strings :
            \/ New(p, label)
            \/ \E data \in Strings : Absorb(p, label, data)
            \/ \E len \in Lengths : Challenge(p, label, len)
  \/ DropTranscripts

TranscriptSpec == TranscriptInit /\ [][TranscriptNext]_transcriptVars

----------------------------------------------------------------------------
(* Properties                                                              *)

\* Two transcripts are in the same state exactly when the same calls were made with
\* the same arguments in the same order: no two ways to cut the absorbed bytes into
\* labels and data meet, and neither does a challenge with an absorb.
StateTellsCalls ==
  sponge["prover"] = sponge["verifier"] <=> calls["prover"] = calls["verifier"]

\* No challenge of a byte or more is derived twice from one transcript, not even by the
\* same call made twice in a row, because each is folded back into the state; and one of
\* no bytes changes the state all the same.
ChallengesDiffer ==
  \A p \in Parties : \A i, j \in DOMAIN squeezed[p] :
    i # j /\ squeezed[p][i] # Nothing => squeezed[p][i] # squeezed[p][j]

\* Prover and verifier derive the same challenges exactly when they have heard the
\* same, and neither derives one twice (transcript.rs:66-149).
ChallengesBindHistory == StateTellsCalls /\ ChallengesDiffer
=============================================================================
