----------------------------- MODULE Relations ------------------------------
(***************************************************************************)
(* The relations of src/src/relations other than Merkle inclusion (module  *)
(* Merkle): Lamport hash preimage, range, Pedersen-style commitment,       *)
(* ML-DSA key knowledge and threshold shares.  A prover derives a          *)
(* statement and a proof from a witness; a verifier is shown a statement   *)
(* and a proof, that pair or another one.                                  *)
(*                                                                         *)
(* Hashes are terms.  The Fiat-Shamir challenge of a Lamport key is a      *)
(* random oracle: a function chosen once, of all that the transcript may   *)
(* have absorbed.                                                          *)
(***************************************************************************)
EXTENDS Transcript, Backends, FiniteSets

CONSTANTS
  Width,         \* bits of an integer; 64 in the code
  SECURITY_BITS, \* positions of a Lamport key; 256 in the code
  U8,            \* numbers of a byte; 256 in the code
  ShareValues,   \* share values
  MaxHeld,       \* bound: shares or indices of a threshold witness
  MaxProofs      \* bound: proofs made of one witness

ASSUME RelationsAssumption ==
  /\ {Width, SECURITY_BITS, U8, MaxProofs} \subseteq Nat \ {0} /\ MaxHeld \in Nat

Numbers == 0 .. 2 ^ Width - 1
Entropy == 0 .. 1   \* what L1 hands to prove

VARIABLES
  relation,    \* the relation in use, "none" before a witness is chosen
  witness,     \* what the prover knows
  ownProof,    \* the statement and the proof that prove returned last
  made,        \* calls of prove so far
  opened,      \* Lamport leaves that proofs have revealed
  shown,       \* the statement and the proof of the last verification
  answer,      \* what prove or verify returned last
  oracle       \* challenge of a Lamport statement and other absorbed values

relationVars == <<relation, witness, ownProof, made, opened, shown, answer, oracle>>

NoPair == << >>

----------------------------------------------------------------------------
(* hash_preimage.rs: the prover reveals one of two leaves per position.    *)

Spots == 1 .. SECURITY_BITS

derive_sk(seed, i, b) == <<"LAMPORT_SECRET", seed, i, b>>
pubnode(sk) == <<"LAMPORT_PUBNODE", sk>>

PreimageStatement(seed) == [i \in Spots |-> [b \in 0 .. 1 |-> pubnode(derive_sk(seed, i, b))]]

\* Mutant of challenge_bit: the challenge also absorbs the prover's entropy.
challenge_bit_entropy(stmt, i, e) == oracle[<<stmt, e>>][i]

\* Bit i of the challenge: the transcript absorbs the statement, and nothing else.
challenge_bit(stmt, i, e) == oracle[<<stmt, 0>>][i]

PreimageProof(seed, e) ==
  [i \in Spots |-> derive_sk(seed, i, challenge_bit(PreimageStatement(seed), i, e))]

PreimageVerify(stmt, openings) ==
  /\ DOMAIN stmt = Spots /\ DOMAIN openings = Spots
  /\ \A i \in Spots : pubnode(openings[i]) = stmt[i][challenge_bit(stmt, i, 0)]

----------------------------------------------------------------------------
(* range_proof.rs: bit commitments to the distance of the value from min.  *)

\* Bits of the largest distance: at least one.
num_bits(min, max) ==
  LET range == IF max > min THEN max - min ELSE 0
  IN  CHOOSE k \in 1 .. Width : range < 2 ^ k /\ (k = 1 \/ range >= 2 ^ (k - 1))

Offset(w) == (w.value - w.min) % 2 ^ Width
BitOf(x, i) == (x \div 2 ^ (i - 1)) % 2
Nonce(w, i) == <<"nonce", w.value, i, w.min>>
bit_commitment(b, nonce) == <<"RANGE_BIT", b, nonce>>

RangeStatement(w) ==
  [commitments |-> [i \in 1 .. num_bits(w.min, w.max) |->
                      bit_commitment(BitOf(Offset(w), i), Nonce(w, i))],
   min |-> w.min, max |-> w.max]

\* Mutant of Invalidated: a value outside of the range keeps its nonces.
InvalidatedNot(w, nonces) == nonces

\* The first nonce of a value outside of the range is flipped.
Invalidated(w, nonces) ==
  IF w.min <= w.value /\ w.value <= w.max THEN nonces
  ELSE [nonces EXCEPT ![1] = <<"flipped", @>>]

RangeProof(w) ==
  LET k == num_bits(w.min, w.max)
  IN  [bits |-> [i \in 1 .. k |-> BitOf(Offset(w), i)],
       nonces |-> Invalidated(w, [i \in 1 .. k |-> Nonce(w, i)])]

\* The number whose bits the proof reveals.
Reconstructed(bits) ==
  LET sum[i \in 0 .. Len(bits)] == IF i = 0 THEN 0 ELSE sum[i - 1] + 2 ^ (i - 1) * bits[i]
  IN  sum[Len(bits)]

saturating_add(x, y) == IF x + y < 2 ^ Width THEN x + y ELSE 2 ^ Width - 1

RangeVerify(stmt, p) ==
  LET value == saturating_add(Reconstructed(p.bits), stmt.min)
  IN  /\ Len(p.bits) = Len(stmt.commitments) /\ Len(p.nonces) = Len(stmt.commitments)
      /\ \A i \in DOMAIN p.bits :
           bit_commitment(p.bits[i], p.nonces[i]) = stmt.commitments[i]
      /\ value >= stmt.min /\ value <= stmt.max

----------------------------------------------------------------------------
(* pedersen.rs: the proof is the opening.                                  *)

\* Mutant of compute_commitment: the blinding is left out.
compute_commitment_plain(value, blinding) == <<"PEDERSEN_OPEN", value>>

compute_commitment(value, blinding) == <<"PEDERSEN_OPEN", value, blinding>>

PedersenVerify(stmt, p) == compute_commitment(p.value, p.blinding) = stmt

----------------------------------------------------------------------------
(* ml_dsa.rs: a signature over a challenge bound to the verifying key.     *)

challenge_for(vk) ==
  Squeezed(absorb(new(<<1>>), <<2>>, <<vk>>), <<3>>, 32)

MlDsaProof(seed) == dsa_sign(seed, challenge_for(seed), "veil7:rel:mldsa:ctx:v1")
MlDsaVerify(vk, sig) == dsa_verify(vk, challenge_for(vk), "veil7:rel:mldsa:ctx:v1", sig)

----------------------------------------------------------------------------
(* threshold_verify.rs: a commitment to the indices, a hash of each share. *)

ThresholdStatement(w) ==
  [threshold |-> Len(w.shares) % U8, total |-> Len(w.indices) % U8,
   share_commitment |-> <<"share-commitment", w.indices>>]

ThresholdProof(w) ==
  [index_commitment |-> ThresholdStatement(w).share_commitment,
   share_hashes |-> [k \in DOMAIN w.shares |-> <<"share-hash", w.shares[k]>>]]

ThresholdRefuses(w) ==
  w.shares = << >> \/ w.indices = << >> \/ Len(w.shares) # Len(w.indices)

\* Mutant of ThresholdVerify: more hashes than the threshold are accepted.
ThresholdVerifyAtLeast(stmt, p) ==
  /\ stmt.threshold # 0 /\ stmt.total # 0 /\ stmt.threshold <= stmt.total
  /\ Len(p.share_hashes) >= stmt.threshold
  /\ p.index_commitment = stmt.share_commitment

ThresholdVerify(stmt, p) ==
  /\ stmt.threshold # 0 /\ stmt.total # 0 /\ stmt.threshold <= stmt.total
  /\ Len(p.share_hashes) = stmt.threshold
  /\ p.index_commitment = stmt.share_commitment
  /\ \A k \in DOMAIN p.share_hashes : p.share_hashes[k] # <<"zero">>

----------------------------------------------------------------------------
(* The relations together                                                  *)

RelationNames == {"preimage", "range", "pedersen", "ml_dsa", "threshold"}

UpTo(S, k) == UNION {[1 .. j -> S] : j \in 0 .. k}

Witnesses(rel) ==
  CASE rel \in {"preimage", "ml_dsa"} -> Seeds
    [] rel = "range" -> [value : Numbers, min : Numbers, max : Numbers]
    [] rel = "pedersen" -> [value : Numbers, blinding : Numbers]
    [] rel = "threshold" ->
         [shares : UpTo(ShareValues, MaxHeld), indices : UpTo(0 .. 1, MaxHeld)]

\* prove of the relation in use: the statement and the proof.
Pair(rel, w, e) ==
  CASE rel = "preimage" -> <<PreimageStatement(w), PreimageProof(w, e)>>
    [] rel = "range" -> <<RangeStatement(w), RangeProof(w)>>
    [] rel = "pedersen" -> <<compute_commitment(w.value, w.blinding), w>>
    [] rel = "ml_dsa" -> <<w, MlDsaProof(w)>>
    [] rel = "threshold" -> <<ThresholdStatement(w), ThresholdProof(w)>>

VerifyPair(rel, stmt, p) ==
  CASE rel = "preimage" -> PreimageVerify(stmt, p)
    [] rel = "range" -> RangeVerify(stmt, p)
    [] rel = "pedersen" -> PedersenVerify(stmt, p)
    [] rel = "ml_dsa" -> MlDsaVerify(stmt, p)
    [] rel = "threshold" -> ThresholdVerify(stmt, p)

ProveRefuses(rel, w) == rel = "threshold" /\ ThresholdRefuses(w)

\* What else a verifier may be shown for the witness w: for the statement, the proof
\* of another witness; for the commitments of a range proof, another range.
OtherPairs(rel, w) ==
  CASE rel = "range" -> {<<[RangeStatement(w) EXCEPT !.min = a, !.max = b], RangeProof(w)>> :
                           a, b \in Numbers}
    [] rel = "threshold" ->
         {<<ThresholdStatement(w), ThresholdProof(v)>> :
            v \in [shares : {[w.shares EXCEPT ![1] = s] : s \in ShareValues}
                              \cup {Append(w.shares, s) : s \in ShareValues},
                   indices : {w.indices, [w.indices EXCEPT ![1] = 1 - @]}]}
    [] rel = "preimage" ->
         {<<PreimageStatement(w), p>> :
            p \in [Spots -> {derive_sk(s, i, b) : s \in Seeds, i \in Spots, b \in 0 .. 1}]
                  \cup {<< >>}}
    [] OTHER -> {<<Pair(rel, w, 0)[1], Pair(rel, v, 0)[2]>> : v \in Witnesses(rel)}

RelationInit ==
  /\ relation = "none" /\ witness = << >> /\ ownProof = NoPair /\ made = 0
  /\ opened = {} /\ shown = NoPair /\ answer = "none"
  /\ oracle \in [{<<PreimageStatement(s), e>> : s \in Seeds, e \in Entropy} -> [Spots -> 0 .. 1]]

RelationProve(rel, w, e) ==
  /\ relation = "none" \/ (relation = rel /\ witness = w)
  /\ made < MaxProofs /\ ~ProveRefuses(rel, w)
  /\ relation' = rel /\ witness' = w /\ made' = made + 1
  /\ ownProof' = Pair(rel, w, e) /\ answer' = "ok"
  /\ opened' = IF rel = "preimage" THEN opened \cup {ownProof'[2][i] : i \in Spots} ELSE opened
  /\ shown' = NoPair /\ UNCHANGED oracle

\* A witness that prove refuses, or a signature that libcrux cannot make.
RelationProveFails(rel, w) ==
  /\ relation = "none" /\ (ProveRefuses(rel, w) \/ rel = "ml_dsa")
  /\ relation' = rel /\ witness' = w /\ answer' = "err"
  /\ UNCHANGED <<ownProof, made, opened, shown, oracle>>

RelationVerify(pair) ==
  /\ shown' = pair
  /\ answer' = IF VerifyPair(relation, pair[1], pair[2]) THEN "accept" ELSE "reject"
  /\ UNCHANGED <<relation, witness, ownProof, made, opened, oracle>>

\* The witness, the statement and the proof are dropped.
DropWitness ==
  /\ answer \in {"err", "accept", "reject"}
  /\ relation' = "none" /\ witness' = << >> /\ ownProof' = NoPair /\ made' = 0
  /\ opened' = {} /\ shown' = NoPair /\ answer' = "none" /\ UNCHANGED oracle

\* A deterministic proof is made again only of the relation that could reveal more.
RelationNext ==
  \/ \E rel \in IF relation = "none" THEN RelationNames ELSE {relation} \cap {"preimage"} :
       \E w \in IF relation = "none" THEN Witnesses(rel) ELSE {witness} :
         RelationProveFails(rel, w) \/ \E e \in IF rel = "preimage" THEN Entropy ELSE {0} :
                                         RelationProve(rel, w, e)
  \/ /\ answer = "ok"
     /\ RelationVerify(ownProof) \/ \E pair \in OtherPairs(relation, witness) : RelationVerify(pair)
  \/ DropWitness

RelationSpec == RelationInit /\ [][RelationNext]_relationVars

----------------------------------------------------------------------------
(* Properties                                                              *)

Verified == relation # "none" /\ shown # NoPair

\* However often a witness is proved, and whatever entropy prove is handed, its proofs
\* never reveal both leaves of a position: with both, anybody could answer another
\* challenge for the same key.
OneLeafPerPosition ==
  \A s \in Seeds, i \in Spots : ~({derive_sk(s, i, 0), derive_sk(s, i, 1)} \subseteq opened)

\* A range proof is accepted only of a value in the range it was made for, with the
\* bounds at either end and an empty or inverted range included; and exactly when the
\* value, moved to the range of the statement it is shown with, lies in it, as long as
\* it is a number there.  (Past the largest number the sum saturates: the code then
\* accepts what range_proof.rs:18 rules out, and nothing is claimed here.)
RangeIsExact ==
  Verified /\ relation = "range" =>
    LET w == witness
        s == shown[1]
        inside == w.min <= w.value /\ w.value <= w.max
        moved == w.value - w.min + s.min
    IN  /\ answer = "accept" => inside
        /\ moved < 2 ^ Width => (answer = "accept" <=> inside /\ moved <= s.max)

\* For a Lamport key, a commitment and a verifying key only the proof of their own
\* witness is accepted: neither another opening, nor a leaf that was not asked for,
\* nor a signature by another key.
ProofFitsStatement ==
  Verified /\ relation \in {"preimage", "pedersen", "ml_dsa"} =>
    (answer = "accept" <=> shown[2] = Pair(relation, witness, 0)[2])

\* A threshold proof is accepted only with the indices and as many shares as the
\* statement was made for, and the witness's own proof is accepted, as long as the
\* number of shares fits a byte.  (Whether its shares are those of the witness is
\* SharesAreProven; prove wraps a larger count, which its own proof then contradicts.)
ThresholdIsExact ==
  Verified /\ relation = "threshold" /\ Len(witness.shares) < U8 =>
    /\ answer = "accept" =>
         /\ Len(shown[2].share_hashes) = Len(witness.shares)
         /\ shown[2].index_commitment = <<"share-commitment", witness.indices>>
    /\ shown = Pair(relation, witness, 0) => answer = "accept"

\* verify says yes to what prove made of a true statement, and no to every pair that the
\* relation's documentation and its code both rule out; and the signatures the relations
\* rest on verify only as they were made (range_proof.rs:206-239,
\* hash_preimage.rs:140-160, pedersen.rs, ml_dsa.rs, threshold_verify.rs:153-175).
VerifyIsExact ==
  RangeIsExact /\ ProofFitsStatement /\ ThresholdIsExact /\ VerifiedWasSigned

\* What threshold_verify.rs:22-24 says: "A cheater who does not know `t` valid shares would
\* need to forge a consistent polynomial evaluation", so a proof of other shares than
\* the witness's is refused.  verify never looks at what the hashes are of
\* (Relations_shares shows it).
SharesAreProven ==
  Verified /\ relation = "threshold" /\ answer = "accept" =>
    shown[2].share_hashes = ThresholdProof(witness).share_hashes
=============================================================================
