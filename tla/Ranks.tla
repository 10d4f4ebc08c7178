-------------------------------- MODULE Ranks --------------------------------
(***************************************************************************)
(* Sets and sequences in an order: std::sort of what a container holds     *)
(* (fault-controller.cc:407, network-transfer-engine.cc:717, or the order  *)
(* of a std::map), and erasing from a vector.                              *)
(***************************************************************************)
EXTENDS Integers, FiniteSets

\* The elements of S in their order: each has its rank of others before it.
Ranked(S, Before(_, _)) ==
    [i \in 1..Cardinality(S) |->
       CHOOSE x \in S : Cardinality({y \in S : Before(y, x)}) = i - 1]

\* The sequence s without the elements that are not in S.
Keep(s, S) ==
    LET at == Ranked({i \in DOMAIN s : s[i] \in S}, <)
    IN [k \in DOMAIN at |-> s[at[k]]]

=============================================================================
