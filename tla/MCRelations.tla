---------------------------- MODULE MCRelations -----------------------------
(***************************************************************************)
(* Small instances of Merkle, Shamir, Transcript, Backends and Relations   *)
(* for TLC.  They share no state: one behaviour exercises one of them.     *)
(***************************************************************************)
EXTENDS MCMerkle, Shamir, Relations

\* The field of the code, GF(2^8) with 0x11B, is one that Shamir assumes.
Byte == INSTANCE GaloisField WITH Bits <- 8, POLY <- 283
ASSUME ByteAssumption == Byte!NoZeroDivisors

VARIABLE script  \* what this behaviour exercises

mcVars == <<vars, shamirVars, transcriptVars, backendVars, relationVars, script>>

\* The numbers are also lengths that occur.
MCStrings == {<< >>, <<1>>}

MCInit ==
  /\ script \in {"merkle", "shamir", "transcript", "backends", "preimage", "relations"}
  /\ Init /\ ShamirInit /\ TranscriptInit /\ BackendInit /\ RelationInit
  /\ script # "preimage" => \A c \in DOMAIN oracle : oracle[c] = [i \in Spots |-> 0]

MCNext ==
  /\ \/ /\ script = "merkle" /\ Next
        /\ UNCHANGED <<shamirVars, transcriptVars, backendVars, relationVars>>
     \* Sums are not products: the conjunct is true, and a worker of TLC that has compared
     \* two functions keeps their values, which it computes anew at every use until then.
     \/ /\ script = "shamir" /\ Mul # Add /\ ShamirNext
        /\ UNCHANGED <<vars, transcriptVars, backendVars, relationVars>>
     \/ /\ script = "transcript" /\ TranscriptNext
        /\ UNCHANGED <<vars, shamirVars, backendVars, relationVars>>
     \/ /\ script = "backends" /\ BackendNext
        /\ UNCHANGED <<vars, shamirVars, transcriptVars, relationVars>>
     \/ /\ script \in {"preimage", "relations"} /\ RelationNext
        /\ relation' = "none" \/ (script = "preimage" <=> relation' = "preimage")
        /\ UNCHANGED <<vars, shamirVars, transcriptVars, backendVars>>
  /\ UNCHANGED script

MCSpec == MCInit /\ [][MCNext]_mcVars
=============================================================================
