----------------------- MODULE MC_NetworkTransferEngine -----------------------
(* Two disjoint routes from 1 to 4, over 2 and over 3.  The upper one may  *)
(* break, or both; in the live run one of the two.                         *)
EXTENDS NetworkTransferEngine

Ring == {{1, 2}, {2, 4}, {1, 3}, {3, 4}}
MC_Topology == {Ring, Ring \ {{2, 4}}, Ring \ {{2, 4}, {3, 4}}}
MC_Connected == {Ring, Ring \ {{2, 4}}, Ring \ {{1, 3}}}

\* The link from 1 to 2 is the wider: two transfers share it.
MC_Bandwidth == [l \in Ring |-> IF l = {1, 2} THEN 2 ELSE 1]
MC_Uniform == [l \in Ring |-> 1]

MC_Source == [t \in Transfer |-> 1]
MC_Destination == [t \in Transfer |-> IF t = 2 THEN 2 ELSE 4]
MC_Packets == [t \in Transfer |-> IF t = 1 THEN 2 ELSE 1]
MC_Rank == [t \in Transfer |-> [s \in Sat |-> IF t = 3 THEN 10 - s ELSE s]]
=============================================================================
