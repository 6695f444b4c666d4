------------------------------- MODULE Merkle -------------------------------
(***************************************************************************)
(* The Merkle inclusion relation of src/src/relations/merkle.rs: a prover  *)
(* that folds the leaves level by level and records the siblings of one    *)
(* position, and a verifier that replays the fold from a leaf hash, an     *)
(* index, a leaf count and a list of siblings, none of which it trusts.    *)
(*                                                                         *)
(* A hash is the term it is computed from: SHAKE256 is assumed free of     *)
(* collisions, so terms are equal exactly when hashes are.  Data is a      *)
(* sequence, and the concatenation of two hashes is data as well.          *)
(***************************************************************************)
EXTENDS Naturals, Sequences

CONSTANTS
  Trees,          \* the leaf lists of provers
  Offers(_),      \* the leaf hashes and proofs shown to a verifier of a tree
  UsizeBits       \* bits of a leaf count; 64 in the code

List(s) == s \in Seq({s[k] : k \in DOMAIN s})

ASSUME MerkleAssumption ==
  /\ UsizeBits \in Nat \ {0}
  /\ \A w \in Trees : List(w)
  /\ \A w \in Trees : \A o \in Offers(w) :
       /\ o.proof.index \in Nat /\ o.proof.leaf_count \in Nat /\ List(o.proof.siblings)
       /\ o.proof = [siblings |-> o.proof.siblings, index |-> o.proof.index,
                     leaf_count |-> o.proof.leaf_count]

VARIABLES
  phase,          \* "idle", "build", "proved", "replay", "done"
  leaves, index,  \* the witness
  level, idx,     \* the current level and the position in it
  path,           \* the siblings recorded so far
  own,            \* the proof that prove returned, which its caller keeps
  stmt,           \* the statement: root and leaf
  proof,          \* siblings, index and leaf_count, as shown to the verifier
  hash, n, used,  \* the verifier's accumulator, level size and cursor
  result          \* what prove or verify returned last

vars == <<phase, leaves, index, level, idx, path, own, stmt, proof, hash, n, used, result>>

Zero == <<"zero", << >>>>
leaf_hash(d) == <<"leaf", d>>

\* Mutant of node_hash: the tag of the leaves.
node_hash_untagged(l, r) == <<"leaf", <<l, r>>>>

node_hash(l, r) == <<"node", <<l, r>>>>

NoStatement == [root |-> Zero, leaf |-> Zero]
NoProof == [siblings |-> << >>, index |-> 0, leaf_count |-> 0]

Init ==
  /\ phase = "idle" /\ leaves = << >> /\ index = 0
  /\ level = << >> /\ idx = 0 /\ path = << >>
  /\ own = NoProof /\ stmt = NoStatement /\ proof = NoProof
  /\ hash = Zero /\ n = 0 /\ used = 0 /\ result = "none"

----------------------------------------------------------------------------
(* The prover                                                              *)

base_level(w) == [k \in DOMAIN w |-> leaf_hash(w[k])]

\* A lone trailing node of an odd level carries up unchanged.
Promoted(i, size) == i = size - 1 /\ size % 2 = 1

\* prove: a witness without a leaf at its index is an error.
ProveFails(w, k) ==
  /\ phase = "idle" /\ ~(k < Len(w))
  /\ result' = "err"
  /\ UNCHANGED <<phase, leaves, index, level, idx, path, own, stmt, proof, hash, n, used>>

Prove(w, k) ==
  /\ phase = "idle" /\ k < Len(w)
  /\ phase' = "build" /\ leaves' = w /\ index' = k
  /\ level' = base_level(w) /\ idx' = k /\ path' = << >>
  /\ result' = "none"
  /\ UNCHANGED <<own, stmt, proof, hash, n, used>>

Sibling(nodes, i) == nodes[IF i % 2 = 0 THEN i + 2 ELSE i]

\* Mutant of NextLevel: the trailing node is hashed with itself.
NextLevelDuplicates(nodes) ==
  [k \in 1 .. (Len(nodes) + 1) \div 2 |->
     node_hash(nodes[2 * k - 1],
               nodes[IF 2 * k <= Len(nodes) THEN 2 * k ELSE 2 * k - 1])]

NextLevel(nodes) ==
  [k \in 1 .. (Len(nodes) + 1) \div 2 |->
     IF 2 * k <= Len(nodes) THEN node_hash(nodes[2 * k - 1], nodes[2 * k])
     ELSE nodes[2 * k - 1]]

\* One level of root_and_path.
Reduce ==
  /\ phase = "build" /\ Len(level) > 1
  /\ path' = IF Promoted(idx, Len(level)) THEN path ELSE Append(path, Sibling(level, idx))
  /\ level' = NextLevel(level)
  /\ idx' = idx \div 2
  /\ UNCHANGED <<phase, leaves, index, own, stmt, proof, hash, n, used, result>>

Proved ==
  /\ phase = "build" /\ Len(level) = 1
  /\ phase' = "proved"
  /\ stmt' = [root |-> level[1], leaf |-> leaf_hash(leaves[index + 1])]
  /\ proof' = [siblings |-> path, index |-> index, leaf_count |-> Len(leaves)]
  /\ own' = proof'
  /\ level' = << >> /\ idx' = 0 /\ path' = << >>
  /\ UNCHANGED <<leaves, index, hash, n, used, result>>

----------------------------------------------------------------------------
(* The verifier: MerkleInclusion::verify and merkle_verify_path            *)

\* Mutant of Malformed: the last leaf is out of bounds.
MalformedLast(p) == p.leaf_count = 0 \/ p.index + 1 >= p.leaf_count

Malformed(p) == p.leaf_count = 0 \/ p.index >= p.leaf_count

\* A leaf l and a proof p are checked against the root of the tree.
Verify(l, p) ==
  /\ stmt' = [stmt EXCEPT !.leaf = l] /\ proof' = p
  /\ \/ /\ Malformed(p)
        /\ phase' = "done" /\ result' = "reject"
        /\ UNCHANGED <<idx, hash, n, used>>
     \/ /\ ~Malformed(p)
        /\ phase' = "replay" /\ hash' = l /\ idx' = p.index /\ n' = p.leaf_count
        /\ used' = 0 /\ UNCHANGED result
  /\ UNCHANGED <<leaves, index, level, path, own>>

\* Mutant of IncludeCount: one leaf per sibling, and the leaf itself.
IncludeCountLinear(siblings) == Len(siblings) + 1

\* prove merkle-include of the command line is not told the number of leaves: it takes
\* the path for that of a full tree.  A path as long as a usize has bits, or longer,
\* overflows the shift.
IncludeCount(siblings) == 2 ^ Len(siblings)
Overflows(siblings) == Len(siblings) >= UsizeBits

\* What the verifier is shown: the prover's own proof, as it is or typed at the command
\* line, or any other.
Show ==
  /\ phase = "proved"
  /\ \/ Verify(stmt.leaf, proof)
     \/ /\ ~Overflows(proof.siblings)
        /\ Verify(stmt.leaf, [proof EXCEPT !.leaf_count = IncludeCount(proof.siblings)])
     \/ \E o \in Offers(leaves) : Verify(o.leaf, o.proof)

\* The parent of the current node and a sibling on its side.
Climb(sib) == IF idx % 2 = 0 THEN node_hash(hash, sib) ELSE node_hash(sib, hash)

\* One level of the replay.
Replay ==
  /\ phase = "replay" /\ n > 1
  /\ \/ Promoted(idx, n) /\ UNCHANGED <<hash, used>>
     \/ /\ ~Promoted(idx, n) /\ used < Len(proof.siblings)
        /\ used' = used + 1 /\ hash' = Climb(proof.siblings[used + 1])
  /\ idx' = idx \div 2 /\ n' = (n + 1) \div 2
  /\ UNCHANGED <<phase, leaves, index, level, path, own, stmt, proof, result>>

\* The path is too short.
PathTooShort ==
  /\ phase = "replay" /\ n > 1
  /\ ~Promoted(idx, n) /\ used = Len(proof.siblings)
  /\ phase' = "done" /\ result' = "reject"
  /\ UNCHANGED <<leaves, index, level, idx, path, own, stmt, proof, hash, n, used>>

\* Mutant of Accepts: leftover siblings are ignored.
AcceptsLeftovers == hash = stmt.root

\* No sibling is left over, and the root is reached.
Accepts == used = Len(proof.siblings) /\ hash = stmt.root

Conclude ==
  /\ phase = "replay" /\ n = 1
  /\ phase' = "done" /\ result' = IF Accepts THEN "accept" ELSE "reject"
  /\ UNCHANGED <<leaves, index, level, idx, path, own, stmt, proof, hash, n, used>>

\* The caller goes on with another witness, or the command line has panicked instead
\* of verifying.
Reset ==
  /\ phase = "done" \/ (phase = "proved" /\ Overflows(proof.siblings))
  /\ phase' = "idle" /\ leaves' = << >> /\ index' = 0
  /\ level' = << >> /\ idx' = 0 /\ path' = << >>
  /\ own' = NoProof /\ stmt' = NoStatement /\ proof' = NoProof
  /\ hash' = Zero /\ n' = 0 /\ used' = 0 /\ result' = "none"

Next ==
  \/ phase = "idle" /\ \E w \in Trees : \E k \in 0 .. Len(w) : Prove(w, k) \/ ProveFails(w, k)
  \/ Reduce \/ Proved \/ Show
  \/ Replay \/ PathTooShort \/ Conclude \/ Reset

Spec == Init /\ [][Next]_vars

----------------------------------------------------------------------------
(* Reference: the Merkle tree hash and audit path of RFC 6962, section 2.1, *)
(* for the m leaves of w that stand after the first k.                     *)

\* The largest power of two below m.
Split(m) == CHOOSE p \in {2 ^ e : e \in 0 .. m} : p < m /\ m <= 2 * p

TreeHashes(w) ==
  LET tree[m \in 1 .. Len(w)] ==
        [k \in 0 .. Len(w) - m |->
           IF m = 1 THEN leaf_hash(w[k + 1])
           ELSE node_hash(tree[Split(m)][k], tree[m - Split(m)][k + Split(m)])]
  IN  tree

\* The path of the leaf after the first i.
AuditPaths(w) ==
  LET paths[m \in 1 .. Len(w)] ==
        [k \in 0 .. Len(w) - m |->
           [i \in k .. k + m - 1 |->
              IF m = 1 THEN << >>
              ELSE IF i < k + Split(m)
              THEN Append(paths[Split(m)][k][i], TreeHashes(w)[m - Split(m)][k + Split(m)])
              ELSE Append(paths[m - Split(m)][k + Split(m)][i], TreeHashes(w)[Split(m)][k])]]
  IN  paths

MTH(w) == TreeHashes(w)[Len(w)][0]
PATH(i, w) == AuditPaths(w)[Len(w)][0][i]

----------------------------------------------------------------------------
(* Properties                                                              *)

Accepted == phase = "done" /\ result = "accept"

\* A prover that has a leaf at its index is believed: shown its own proof, the
\* verifier does not reject it, whatever the shape of the tree.
HonestIsAccepted ==
  phase = "done" /\ stmt.leaf = leaf_hash(leaves[index + 1]) /\ proof = own => Accepted

\* Membership is sound: whatever index, count and siblings a proof claims, a leaf
\* hash that verify accepts is that of a leaf of the tree, never of other data,
\* such as the two children of an inner node.  (The hash of an inner node, which is
\* not the hash of any leaf data, does pass with a leaf count of its own.)
AcceptedLeafIsMember ==
  Accepted /\ stmt.leaf[1] = "leaf" => \E k \in DOMAIN leaves : stmt.leaf = leaf_hash(leaves[k])

\* A proof that states the right number of leaves also fixes the position, and
\* there is only one such proof: no padded, shortened or mirrored path passes.
PositionIsBound ==
  Accepted /\ proof.leaf_count = Len(leaves)
    => /\ stmt.leaf = leaf_hash(leaves[proof.index + 1])
       /\ proof.index = index => proof.siblings = own.siblings

\* verify accepts the proof that prove made; and whatever a proof claims, verify
\* accepts it only for a leaf of the tree, and with the right leaf count only at the
\* leaf's own position, by one path (merkle.rs:193-247).
AcceptedIsIncluded == HonestIsAccepted /\ AcceptedLeafIsMember /\ PositionIsBound

\* root_and_path, which works level by level and promotes the last node of an odd
\* level, computes the tree and the audit path that RFC 6962 defines by splitting
\* at a power of two, for every index.
IsTheRFCTree ==
  phase = "proved" => /\ stmt.root = MTH(leaves)
                      /\ proof.siblings = PATH(index, leaves)

\* The command line, which takes 2^siblings for the number of leaves (main.rs:380),
\* accepts an honest path of a tree of any size exactly when no level has promoted a
\* node of it: it never accepts too much, and refuses the leaves at the ragged edge.
\* (A path so long that the count overflows is not verified at all.)
FullPathsAreIncluded ==
  /\ phase = "done" /\ stmt.leaf = leaf_hash(leaves[index + 1])
  /\ proof = [siblings |-> PATH(index, leaves), index |-> index,
              leaf_count |-> IncludeCount(proof.siblings)]
  => (Accepted <=> 2 ^ Len(proof.siblings) >= Len(leaves))

\* The prover of merkle.rs builds the tree of RFC 6962, for every shape of tree and
\* every position; through the guess of the leaf count at the command line its verifier
\* believes it exactly for the paths that were never promoted.
ProverIsRFC6962 == IsTheRFCTree /\ FullPathsAreIncluded
=============================================================================
