------------------------------ MODULE MCStream ------------------------------
(***************************************************************************)
(* A small file system for Stream: two files that are present with any of  *)
(* a few contents or missing, and an entry that a directory skips.  A file *)
(* may hold a byte that is also the name of another.                       *)
(***************************************************************************)
EXTENDS Stream

\* Empty, one byte, and longer than a chunk.
Contents == {<< >>, <<1>>, <<2>>, <<1, 2>>, <<2, 1, 1>>}

Ordinary == [kind : {"file"}, data : Contents] \cup {[kind |-> "absent", data |-> << >>]}
Skipped == {[kind |-> "hidden", data |-> <<1>>], [kind |-> "dir", data |-> << >>]}

MCWorlds == {[p \in {1, 2, 3} |-> IF p = 3 THEN s ELSE f[p]] : f \in [{1, 2} -> Ordinary], s \in Skipped}
MCArgLists == BoundedSeq({1, 2}, 2) \cup {<<3>>}
MCEventLists == BoundedSeq(Contents, 2)
=============================================================================
