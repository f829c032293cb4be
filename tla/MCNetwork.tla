----------------------------- MODULE MCNetwork ------------------------------
EXTENDS Network, TLC

CONSTANTS n1, n2, n3, r1, r2, r3, standard

ThreeNodes == {n1, n2, n3}
DistinctIps == n1 :> 1 @@ n2 :> 2 @@ n3 :> 3
TwoSwarms == n1 :> 1 @@ n2 :> 1 @@ n3 :> 6
Calls == r1 :> "onion" @@ r2 :> "swarm" @@ r3 :> "nodes"
ToNode == [r \in Reqs |-> n1]
ToServer == [r \in Reqs |-> Server]
OnStandard == [r \in Reqs |-> standard]
OneProbe == {101}
TwoProbes == {101, 102}
WholeLists == {Nodes}
AnyLists == {{}, {n1, n3}}
Codes == {<<200>>, <<421>>, <<200, 421>>}
=============================================================================
