------------------------------- MODULE MCCli --------------------------------
(***************************************************************************)
(* Small instances of Stream, Sealing and Cli for TLC.  They share no      *)
(* state: one behaviour exercises the file entry points, commit and reveal,*)
(* blinding, the masking hasher, or the command line.                      *)
(***************************************************************************)
EXTENDS MCStream, Sealing, Cli

VARIABLE script  \* what this behaviour exercises

mcVars == <<vars, sealingVars, cliVars, script>>

MCClaims == {<< >>, <<1>>, <<1, 2>>, <<1, 2, 1>>}

Typed(form, v) == [form |-> form, val |-> v]

\* Two texts, and both with the separator between them.
One == Typed("text", <<1>>)
Two == Typed("text", <<2>>)
Joined == Typed("joined", <<One, Two>>)

\* Texts, a number and malformed hex; and what was printed before, in either case, with
\* the number of digits that it was printed with.
Words(v) ==
  {One, Two, Joined, Typed("num", <<2>>), Typed("bad", <<1>>)} \cup
    CASE v = Dash -> {Typed("hex", <<9>>), Typed("long", <<9, 0>>)}
      [] Len(v) = 2 -> {Typed("long", v)}
      [] OTHER -> {Typed("hex", v), Typed("HEX", v)}

\* Numbers that can be counted, only allocated, and neither.
Counts == {Typed("num", <<n>>) : n \in 0 .. 4}

\* Paths of no, one and two siblings.
PathsOf(h) == {<<h, h, Typed("num", <<0>>)>> \o [i \in 1 .. n |-> h] : n \in 0 .. 2}

\* Only the commands that take what was printed before follow another one.
MCArgvs(c, v) ==
  IF v # Dash /\ c \notin {"verify", "chain-entry"} THEN {}
  ELSE CASE c = "threshold" -> BoundedSeq(Words(v), 2) \cup {<<m, n, One>> : m, n \in Counts}
         [] c = "prove merkle-include" -> BoundedSeq(Words(v), 3) \cup PathsOf(Typed("hex", <<9>>))
         [] c = "prove range-proof" -> BoundedSeq({One, Typed("num", <<2>>), Typed("num", <<1>>)}, 3)
         [] c = "verify" -> {<< >>} \cup {<<a>> \o evs : a \in Words(v), evs \in BoundedSeq({One, Two, Joined}, 2)}
         [] c \in {"chain", "chain-root"} -> BoundedSeq({One, Two, Joined}, 2)
         [] OTHER -> BoundedSeq(Words(v), 2)

MCInit ==
  /\ Init /\ SealingInit /\ CliInit
  /\ script \in {"stream", "commit", "blind", "hash", "cli"}

Files == script = "stream" /\ Next /\ UNCHANGED <<sealingVars, cliVars, script>>

MCNext ==
  \/ Files
  \/ /\ \/ script = "commit" /\ CommitReveal
        \/ script = "blind" /\ Blinding
        \/ script = "hash" /\ Hashing
     /\ UNCHANGED <<vars, cliVars, script>>
  \/ script = "cli" /\ CliNext /\ UNCHANGED <<vars, sealingVars, script>>

\* Fairness as in Stream.
MCSpec ==
  /\ MCInit /\ [][MCNext]_mcVars
  /\ WF_mcVars(script = "stream" /\ Progress /\ UNCHANGED <<sealingVars, cliVars, script>>)
=============================================================================
