------------------------------ MODULE MCMerkle ------------------------------
(***************************************************************************)
(* Small instances of Merkle for TLC: trees of every shape, and every      *)
(* proof that can be put together from the hashes of a small tree.         *)
(***************************************************************************)
EXTENDS Merkle, SequencesExt

CONSTANTS
  MaxLeaves,    \* leaves of the largest tree
  MaxForged,    \* leaves of the largest tree whose verifier is shown any proof
  MaxPath       \* siblings of the longest such proof

Leaves(k) == [j \in 1 .. k |-> <<j>>]

\* Distinct leaves, and a tree in which one leaf occurs twice.
MCTrees == {Leaves(k) : k \in 0 .. MaxLeaves} \cup {<<<<1>>, <<2>>, <<1>>>>}

----------------------------------------------------------------------------
\* Every node of the tree over w.
RECURSIVE Nodes(_)
Nodes(w) ==
  IF Len(w) = 1 THEN {MTH(w)}
  ELSE LET k == Split(Len(w))
       IN  {MTH(w)} \cup Nodes(SubSeq(w, 1, k)) \cup Nodes(SubSeq(w, k + 1, Len(w)))

Alien == <<0>>  \* data that is in no tree

\* Data that is not a leaf of w but may pass for one: an alien, and the two hashes
\* that an inner node of the tree is computed from.
OtherData(w) == {Alien} \cup {h[2] : h \in {x \in Nodes(w) : Len(x[2]) = 2}}

MCOffers(w) ==
  IF Len(w) \in 1 .. MaxForged
  THEN [leaf : Nodes(w) \cup {leaf_hash(d) : d \in OtherData(w)},
        proof : [siblings : BoundedSeq(Nodes(w) \cup {leaf_hash(Alien)}, MaxPath),
                 index : 0 .. MaxForged, leaf_count : 0 .. MaxForged + 1]]
  ELSE {}
=============================================================================
