------------------------------- MODULE FiniteOrders -------------------------------
(***************************************************************************)
(* Maxima of finite sets.  The code keeps its messages and keys in sorted   *)
(* vectors; the models keep sets and choose the first or the last.          *)
(***************************************************************************)
EXTENDS FiniteSetTheorems, TLAPS

(* A strict order on a finite, nonempty set has a maximal element: what the  *)
(* sorts and maximum searches of the code rely on.                          *)
LEMMA FiniteMaximal ==
    ASSUME NEW S, IsFiniteSet(S), S # {},
           NEW R,
           \A x \in S : <<x, x>> \notin R,
           \A x, y, z \in S : <<x, y>> \in R /\ <<y, z>> \in R => <<x, z>> \in R
    PROVE  \E s \in S : \A t \in S : <<s, t>> \notin R
<1> DEFINE HasMaximal(T) == \E s \in T : \A t \in T : <<s, t>> \notin R
           Bad == {T \in SUBSET S : T # {} /\ ~HasMaximal(T)}
<1>1. SUFFICES ASSUME Bad # {} PROVE FALSE
    BY DEF HasMaximal
<1>2. Bad \subseteq FiniteSubsetsOf(S)
    BY FS_FiniteSubsetsOfFinite
<1>3. PICK U \in Bad : \A V \in Bad : <<V, U>> \notin StrictSubsetOrdering(S)
    <2> HIDE DEF Bad
    <2> QED BY <1>1, <1>2, FS_StrictSubsetOrderingWellFounded, WFMin
<1>4. PICK u \in U : TRUE
    OBVIOUS
<1>5. U \ {u} \notin Bad
    <2>1. <<U \ {u}, U>> \in (SUBSET S) \X (SUBSET S)
        BY <1>3
    <2>2. <<U \ {u}, U>> \in StrictSubsetOrdering(S)
        BY <2>1, <1>4 DEF StrictSubsetOrdering
    <2> QED BY <2>2, <1>3
<1>6. CASE U \ {u} = {}
    BY <1>4, <1>6
<1>7. CASE U \ {u} # {}
    <2>1. PICK m \in U \ {u} : \A t \in U \ {u} : <<m, t>> \notin R
        BY <1>5, <1>7 DEF HasMaximal
    <2>2. <<m, u>> \in R
        BY <2>1, <1>3 DEF HasMaximal
    <2>3. \A t \in U : <<u, t>> \notin R
        BY <1>4, <2>1, <2>2
    <2> QED BY <1>4, <2>3 DEF HasMaximal
<1> QED BY <1>6, <1>7
=============================================================================
