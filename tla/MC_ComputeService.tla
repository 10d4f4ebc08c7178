------------------------- MODULE MC_ComputeService -------------------------
(* Two ordinary tasks, one recovery and one replica share one slot. *)
EXTENDS ComputeService

MC_Home == {1, 2}
MC_Recovery == {3}
MC_Replica == {4}
MC_WorkOf == [t \in 1..4 |-> IF t \in {1, 3} THEN 2 ELSE 1]
MC_CatchupOf == [t \in {3} |-> 2]

\* Three ordinary tasks and no protection.
MC_NoGuest == {}
MC_OrdinaryHome == {1, 2, 3}
MC_OrdinaryWork == [t \in 1..3 |-> IF t = 2 THEN 1 ELSE 2]
MC_NoCatchup == [t \in {} |-> 0]
=============================================================================
