------------------------------- MODULE MCMultipart -------------------------------
EXTENDS Multipart

CONSTANTS s1, s2     \* the messages

GenuinePart(s, i, n, id) ==
    [set |-> s, index |-> i, size |-> n, genuine |-> TRUE, id |-> id]

(* The first message has two parts, the second of which is in the swarm three   *)
(* times: as it should be, damaged, and as the last of three.  The second     *)
(* message cannot be decoded, and a third part of it has an impossible number. *)
MCNumParts == [s \in Sets |-> 2]
MCWire ==
    {GenuinePart(s, 0, 2, 0) : s \in Sets} \cup {GenuinePart(s, 1, 2, 1) : s \in Sets} \cup
    {[set |-> s1, index |-> 1, size |-> 2, genuine |-> FALSE, id |-> 2],
     [set |-> s1, index |-> 2, size |-> 3, genuine |-> FALSE, id |-> 3],
     [set |-> s2, index |-> 2, size |-> 2, genuine |-> FALSE, id |-> 4]}
=============================================================================
