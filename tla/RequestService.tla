--------------------------- MODULE RequestService ---------------------------
(***************************************************************************)
(* What `Network` promises the application: every call is answered by its  *)
(* callback at most once and never before it is made, and is pending until *)
(* then.  A call may be answered at once, and closing the connections or a *)
(* timeout check answers several together.                                 *)
(***************************************************************************)
EXTENDS Naturals

CONSTANT Reqs                \* calls the application makes

VARIABLES pending, answers   \* calls not answered; callbacks of each call

serviceVars == <<pending, answers>>

Init == pending = {} /\ answers = [r \in Reqs |-> 0]

Call(r) ==
    /\ r \notin pending /\ answers[r] = 0
    /\ \/ pending' = pending \cup {r} /\ UNCHANGED answers
       \/ answers' = [answers EXCEPT ![r] = 1] /\ UNCHANGED pending

Answer(S) ==
    /\ S # {}
    /\ pending' = pending \ S
    /\ answers' = [r \in Reqs |-> IF r \in S THEN answers[r] + 1 ELSE answers[r]]

Next == (\E r \in Reqs : Call(r)) \/ (\E S \in SUBSET pending : Answer(S))

Spec == Init /\ [][Next]_serviceVars
=============================================================================
