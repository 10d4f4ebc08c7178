------------------------ MODULE MC_CheckpointManager ------------------------
(* Tasks 1 and 2 compute on satellites 1 and 2 and keep their records on 3  *)
(* and their states on 4.                                                   *)
EXTENDS CheckpointManager

MC_Primary == [t \in Task |-> t]
MC_Local == [t \in Task |-> 3]
MC_Remote == [t \in Task |-> 4]
MC_Work == [t \in Task |-> IF t = 1 THEN 13 ELSE 6]
MC_LastStart == [t \in Task |-> IF t = 1 THEN 0 ELSE 1]
MC_Input == [t \in Task |-> 2]
MC_Cadence == [t \in Task |-> IF t = 1 THEN {<<1, 1>>, <<1, 2>>} ELSE {<<1, 1>>}]
MC_Breakable == {<<1, 3>>, <<3, 4>>}
=============================================================================
