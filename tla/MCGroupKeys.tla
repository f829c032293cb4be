------------------------------- MODULE MCGroupKeys -------------------------------
EXTENDS GroupKeys

CONSTANTS a, b

(* The lists with and without the second user, and an order of their keys. *)
MCMemberLists == {{a, b}, {a}}
MCRank == [v \in SUBSET Users |-> Cardinality(v) + IF v = {b} THEN 2 ELSE 0]
=============================================================================
