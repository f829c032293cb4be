------------------------------ MODULE MCConfigSync ------------------------------
EXTENDS ConfigSync, TLC

(* Only the order of the hashes of one seqno matters: a second message's is *)
(* below or above the first one's, a third one's takes what is left.        *)
MCNewHashes(used) == IF used = {} THEN {2} ELSE {1, 3} \ used

(* The constructor sorts what it keeps, so the order of delivery matters only  *)
(* when some message does not parse and shifts the places of those after it: *)
(* one is put at every place among the others, which stay in their order.   *)
Precedes(x, y) == x[1] < y[1] \/ (x[1] = y[1] /\ x[2] < y[2])
Ascending(S) ==
    [i \in 1..Cardinality(S) |->
        CHOOSE x \in S : Cardinality({y \in S : Precedes(y, x)}) = i - 1]
Placed(a, order) ==
    {SubSeq(order, 1, p) \o <<a>> \o SubSeq(order, p + 1, Len(order)) : p \in 0..Len(order)}
MCOrders(S) ==
    IF S \cap Aliens = {} THEN {Ascending(S)}
    ELSE UNION {Placed(a, Ascending(S \ Aliens)) : a \in S \cap Aliens}

MCSymmetry == Permutations(Devices \ Readers) \cup Permutations(Values)
=============================================================================
