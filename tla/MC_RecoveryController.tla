------------------------ MODULE MC_RecoveryController ------------------------
(* Tasks 1 and 2 on servers 1 and 2; server 3 keeps both bases.  Server 4   *)
(* sends the inputs, 5 takes a result; that of task 2 goes to server 3.      *)
EXTENDS RecoveryController

MC_Source == [t \in Task |-> 4]
MC_Result == [t \in Task |-> IF t = 1 THEN 5 ELSE 3]
MC_Host == [t \in Task |-> t]
MC_Local == [t \in Task |-> 3 - t]
MC_Remote == [t \in Task |-> 3]
MC_Work == [t \in Task |-> 2]
MC_Budget == [t \in Task |-> IF t = 1 THEN 6 ELSE 4]
MC_Capacity == [n \in Server |-> 2]
MC_Cuts == {{}, {<<4, 3>>, <<3, 2>>, <<2, 5>>}}
=============================================================================
