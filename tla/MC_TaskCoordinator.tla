------------------------ MODULE MC_TaskCoordinator ------------------------
(* Three tasks on two servers; the third satellite only sends and receives. *)
EXTENDS TaskCoordinator

\* Tasks 1 and 2 share server 1; task 3 sends its result to server 1.
MC_Source == [t \in Task |-> 3]
MC_Host == [t \in Task |-> IF t = 3 THEN 2 ELSE 1]
MC_Result == [t \in Task |-> IF t = 1 THEN 2 ELSE IF t = 2 THEN 3 ELSE 1]
MC_Arrival == [t \in Task |-> IF t = 2 THEN 1 ELSE 0]
MC_Work == [t \in Task |-> IF t = 3 THEN 1 ELSE 2]
MC_Rate == [n \in Server |-> 2]
\* Task 1 completes exactly at its deadline, task 2 can only miss it.
MC_Budget == [t \in Task |-> IF t = 1 THEN 2 ELSE 1]
\* Every task can meet its deadline.
MC_Feasible == [t \in Task |-> IF t = 3 THEN 1 ELSE 2]
=============================================================================
