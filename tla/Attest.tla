------------------------------- MODULE Attest -------------------------------
(***************************************************************************)
(* What one call of the veil7 engine promises its caller, without saying   *)
(* how: a call that begins ends in one result and results are never        *)
(* revised.  What a call leaves in memory tells nothing about the draws of *)
(* an earlier call, whether it succeeds or fails.  A result Ok(verdict)    *)
(*   - leaves no secret in a local variable of the call, if the entry is   *)
(*     tidy; copies that no variable names may be left (`stray`),          *)
(*   - if the entry harvests entropy itself, carries a transcript that no  *)
(*     earlier call produced ("stateless": nothing is reused).             *)
(* An Err does not promise that variables are cleared: see MixRoundFails   *)
(* in Iteration.                                                           *)
(***************************************************************************)
EXTENDS Sequences, Naturals

CONSTANTS
  Harvesting,  \* entry points that promise a fresh context
  Tidy,        \* entry points that promise to leave no variable uncleared
  NoCall       \* "no call in progress"

VARIABLES
  running,     \* the call in progress
  calls        \* the results returned so far

Init == running = NoCall /\ calls = << >>

Start ==
  /\ running = NoCall /\ running' # NoCall
  /\ UNCHANGED calls

\* The promise about the n-th result in the history h.
Kept(h, n) ==
  /\ \A i \in 1 .. n - 1 : h[i].tells \cap h[n].tells = {}
  /\ h[n].out = "ok" =>
       /\ h[n].entry \in Tidy => h[n].left = {}
       /\ h[n].entry \in Harvesting =>
            \A i \in 1 .. n - 1 :
              h[i].out = "ok" => h[i].transcript # h[n].transcript

Finish ==
  /\ running # NoCall /\ running' = NoCall
  /\ Len(calls') = Len(calls) + 1
  /\ \A i \in 1 .. Len(calls) : calls'[i] = calls[i]
  /\ calls'[Len(calls')].entry = running.entry
  /\ Kept(calls', Len(calls'))

Next == Start \/ Finish

Spec == Init /\ [][Next]_<<running, calls>>
=============================================================================
