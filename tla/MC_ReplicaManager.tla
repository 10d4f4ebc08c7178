--------------------------- MODULE MC_ReplicaManager ---------------------------
(* Tasks 1 and 2 on servers 1 and 2; replicas go there or to server 3.      *)
(* Satellite 4 sends the inputs and takes the result of task 1, that of     *)
(* task 2 stays on server 3 if its replica ran there.                       *)
EXTENDS ReplicaManager

MC_Source == [t \in Task |-> 4]
MC_Result == [t \in Task |-> IF t = 1 THEN 4 ELSE 3]
MC_Host == [t \in Task |-> t]
MC_Work == [t \in Task |-> 2]
MC_Budget == [t \in Task |-> IF t = 1 THEN 4 ELSE 3]
=============================================================================
