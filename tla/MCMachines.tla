----------------------------- MODULE MCMachines -----------------------------
(***************************************************************************)
(* Small instances of Iteration, Aggregate, MicroVM and Oram for TLC: an   *)
(* iteration of the engine, the calls that run it several times, and the   *)
(* two components an iteration may start from.  They share no state: one   *)
(* behaviour exercises one of them.                                        *)
(***************************************************************************)
EXTENDS Iteration, Aggregate, MCMicroVM, MCOram

CONSTANTS c1, c2

\* Two witnesses of one statement.
OneStatement == [c \in Claims |-> c1]

VARIABLE script  \* what this behaviour exercises

mcVars == <<iterationVars, aggregateVars, vmVars, oramVars, script>>

MCInit ==
  /\ script \in {"iteration", "aggregate", "vm", "oram"}
  /\ IterationInit /\ AggregateInit /\ MicroVMInit /\ OramInit

\* The bound on the history of an iteration's caller is reached.
HistoryIsFull == script = "iteration" /\ running = NoCall /\ Len(calls) = MaxCalls

MCNext ==
  /\ \/ /\ script = "iteration" /\ IterationNext
        /\ UNCHANGED <<aggregateVars, vmVars, oramVars>>
     \/ /\ script = "aggregate" /\ AggregateNext
        /\ UNCHANGED <<iterationVars, vmVars, oramVars>>
     \/ /\ script = "vm" /\ MicroVMNext
        /\ UNCHANGED <<iterationVars, aggregateVars, oramVars>>
     \/ /\ script = "oram" /\ OramNext
        /\ UNCHANGED <<iterationVars, aggregateVars, vmVars>>
     \/ /\ HistoryIsFull
        /\ UNCHANGED <<iterationVars, aggregateVars, vmVars, oramVars>>
  /\ UNCHANGED script

MCSpec == MCInit /\ [][MCNext]_mcVars
=============================================================================
