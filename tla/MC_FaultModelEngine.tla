------------------------ MODULE MC_FaultModelEngine ------------------------
(* Two servers and a satellite without service; check instants 2, 4, 6     *)
(* and outages that end on a check instant, between two and after the end. *)
EXTENDS FaultModelEngine
=============================================================================
