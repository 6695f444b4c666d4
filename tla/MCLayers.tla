------------------------------ MODULE MCLayers ------------------------------
(***************************************************************************)
(* Small instances of Layers and MemLock for TLC.  The harvests, the       *)
(* health tests, the calls of the layers, a caller's buffer and the locked *)
(* buffers of layer 0 do not share state, except that the seeds of the     *)
(* harvests are what the layers derive keys from: one behaviour exercises  *)
(* one of them, or the harvests and then the layers.                       *)
(***************************************************************************)
EXTENDS Layers, MemLock, TLC

\* MemLock: two buffers that share a page and one that has a page of its own.
\* N = 1: the unit of the budget is one buffer.
CONSTANTS b1, b2, b3, p1, p2

Placement == (b1 :> p1) @@ (b2 :> p1) @@ (b3 :> p2)

VARIABLE script  \* what this behaviour exercises

\* All ambient methods read the same; all but a stopped clock read something else.
MCEnvironments ==
  {[m \in AmbientNames |-> 0], [m \in AmbientNames |-> IF m = "wall_clock" THEN 0 ELSE 1]}

\* Three words of hardware entropy stand for the eight of the code.
MCHwAnswers == [1 .. 3 -> [available : {TRUE}, flag : BOOLEAN, value : {0, 7}]]
                 \cup [1 .. 3 -> [available : {FALSE}, flag : {TRUE}, value : {0}]]

\* Four samples and a threshold of two bits stand for 64 samples and six bits; there
\* are shorter buffers only for the tests that do not depend on the length.
MCSamples == [1 .. 4 -> {0, 1, 3, 4}]
MCOthers(s) == {<< >>, Reverse(s), [k \in 1 .. 3 |-> k], [k \in 1 .. 4 |-> k % 2]}

\* 0 is zero, 3 the byte 0xFF and 4 the poison pattern.
MCBuffers == [1 .. 4 -> 0 .. 4]
MCSignatures == {<<0, 0, 0, 0>>, <<3, 3, 3, 3>>, <<1, 2, 1, 2>>, <<0, 1, 2, 4>>}
MCCanary == <<4, 1, 2, 4>>

----------------------------------------------------------------------------
mcVars == <<vars, memLockVars, script>>

Init ==
  /\ EntropyInit /\ HealthInit /\ LayersInit /\ MemLockInit
  /\ script \in {"harvest", "hardware", "health", "wipe", "memlock"}
  /\ script # "harvest" => \A m \in AmbientNames : env[m] = 0

\* The layers are called once the harvests are over, after those that drew all they
\* ask the OS for on a machine that reads zeros: to the layers a seed is a value, however
\* it was made.
Next ==
  /\ \/ /\ script = "harvest" /\ at = "idle"
        /\ HarvestNext /\ UNCHANGED <<hw, healthVars, layerVars, memLockVars>>
     \/ /\ script = "hardware" /\ \E a \in HwAnswers : hardware_rng(a)
        /\ UNCHANGED <<healthVars, layerVars, memLockVars>>
     \/ /\ script = "harvest" /\ step = "idle"
        /\ Len(seeds) = MaxHarvests /\ drawn = 2 * MaxHarvests /\ \A m \in AmbientNames : env[m] = 0
        /\ LayerCall /\ UNCHANGED <<entropyVars, healthVars, buf, passes, memLockVars>>
     \/ /\ script = "health" /\ sample = << >>
        /\ HealthNext /\ UNCHANGED <<entropyVars, layerVars, memLockVars>>
     \/ /\ script = "wipe"
        /\ BufferStep /\ UNCHANGED <<entropyVars, healthVars, callVars, memLockVars>>
     \/ /\ script = "memlock"
        /\ MemLockNext /\ UNCHANGED vars
  /\ UNCHANGED script

\* The scheduler runs the caller and every thread it started.  getrandom and
\* thread::spawn return, with a result or with an error.
HarvestThread == CallerStep /\ UNCHANGED <<hw, healthVars, layerVars, memLockVars, script>>
WorkerThread(w) == WorkerStep(w) /\ UNCHANGED <<hw, healthVars, layerVars, memLockVars, script>>

\* And so do the threads that own locked buffers, as in MemLock's Fairness.
Alongside == script = "memlock" /\ UNCHANGED <<vars, script>>
LockThread(t) == Alongside /\ Advance(t)
LockDrop(t, b) == Alongside /\ BeginDrop(t, b)

Spec ==
  /\ Init /\ [][Next]_mcVars
  /\ WF_mcVars(HarvestThread) /\ \A w \in Workers : WF_mcVars(WorkerThread(w))
  /\ \A t \in Threads :
       WF_mcVars(LockThread(t)) /\ \A b \in Bufs : SF_mcVars(LockDrop(t, b))
=============================================================================
