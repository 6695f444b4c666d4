--------------------------- MODULE MCStreamTwice ---------------------------
(***************************************************************************)
(* Stream with a memory of the last verdict over a list of files, to       *)
(* compare two verdicts.                                                   *)
(***************************************************************************)
EXTENDS MCStream

VARIABLE previous  \* files and root of the last Ok call of attest_chain_files

NoCall == [paths |-> << >>, data |-> << >>, root |-> << >>]

Remember ==
  previous' =
    IF phase = "done" /\ phase' = "idle" /\ result = "ok" /\ entry = "files"
    THEN [paths |-> paths, data |-> [k \in DOMAIN paths |-> fs[paths[k]].data], root |-> root]
    ELSE previous

TwiceSpec == Init /\ previous = NoCall /\ [][Next /\ Remember]_<<vars, previous>>

\* The promise of attest_chain_files that tampering with any byte in any file
\* changes the root: two verdicts over the same list of files with the same root
\* are verdicts over the same contents.
FileContentsAreBound ==
  Done /\ entry = "files" /\ previous.paths = paths /\ previous.root = root
    => \A k \in DOMAIN paths : previous.data[k] = fs[paths[k]].data
=============================================================================
