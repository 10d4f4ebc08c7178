---------------------------- MODULE FaultBatches ----------------------------
(***************************************************************************)
(* The contract between FaultController::ProcessBatch, which hands over    *)
(* the faults that recover and start in an instant, and                    *)
(* TaskCoordinator::ApplyFaultBatch, which relies on it.                   *)
(***************************************************************************)
CONSTANTS Sat,    \* satellite ids; positive integers
          Server  \* satellites with a compute service

FaultKind == {"none", "compute", "satellite"}

\* `fault' has the active fault of each satellite, `recovered' the satellites
\* whose fault ends, `kind' those where one starts.  One fault is active on a
\* satellite at a time, and the loss of a satellite is permanent.
Admissible(fault, recovered, kind) ==
    /\ recovered \subseteq {n \in Sat : fault[n] = "compute"}
    /\ \A n \in Sat :
         /\ kind[n] # "none" => fault[n] = "none" \/ n \in recovered
         /\ kind[n] = "compute" => n \in Server

AfterBatch(fault, recovered, kind) ==
    [n \in Sat |-> IF kind[n] # "none" THEN kind[n]
                   ELSE IF n \in recovered THEN "none" ELSE fault[n]]
=============================================================================
