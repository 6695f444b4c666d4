------------------------------- MODULE MCOram -------------------------------
(* Small instances of Oram for TLC.  Some addresses are larger than the ORAM  *)
(* and wrap, the hash is not the identity, and the updates include it.        *)
EXTENDS Oram

MCValues == 0 .. 3
MCHash(v) == (v % 3) + 1
MCUpdates == {[v \in MCValues |-> v], [v \in MCValues |-> (v + 1) % 4]}
=============================================================================
