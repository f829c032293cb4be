--------------------------- MODULE NetworkProofs ---------------------------
(***************************************************************************)
(* The event loop of `Network`, for any nodes, calls, answers and bounds.  *)
(***************************************************************************)
EXTENDS Network, FiniteOrders

(* The type invariant, by groups of variables.                             *)
NodesOK ==
    /\ snode_cache \subseteq Nodes /\ unused_nodes \subseteq Nodes /\ swarm_cache \subseteq Nodes
    /\ snode_failures \in [Nodes -> 0..(FailureSpace - 1)]
    /\ seed_size \in Nat \cup {None}
ConnsOK ==
    /\ conns \in [Conns -> [node : Nodes \cup {None}, state : {"connecting", "open", "closed"}]]
    /\ attempts \subseteq Attempt
    /\ unused_connections \subseteq Conns
    /\ in_progress_connections \in [Ids -> Nodes \cup {None}]
BuildsOK ==
    /\ in_progress_path_builds \in [Ids -> PathTypes \cup {None}]
    /\ path_build_queue \in [PathTypes -> Nat]
PathsOK == paths \subseteq Path /\ paths_pending_drop \subseteq Path
PendingOK == pending_requests \in [Conns -> 0..(SizeSpace - 1)]
RefreshOK ==
    /\ refresh_id \in Tokens /\ refresh_count \in Int
    /\ refresh_results \in [n : Nat, nodes : SUBSET Nodes, empty : BOOLEAN]
MsgsOK == msgs \subseteq Msg
TasksOK == tasks \subseteq Task
CallsOK == started \subseteq Reqs /\ called \in [Reqs -> Nat]
FlagsOK == suspended \in BOOLEAN /\ timeout_loop \in BOOLEAN
BoundsOK == faults \in Nat /\ expiries \in Nat /\ suspends \in Nat

(* A message that is being sent, or was sent, has a connection.            *)
OnConnection == \A m \in msgs : m.at \in {"loaded", "inflight"} => m.conn \in Conns

Groups ==
    /\ NodesOK /\ ConnsOK /\ BuildsOK /\ PathsOK /\ PendingOK /\ RefreshOK
    /\ MsgsOK /\ TasksOK /\ CallsOK /\ FlagsOK /\ BoundsOK /\ OnConnection

LEMMA GroupsType == Groups => TypeOK
  BY Zenon DEF Groups, TypeOK, NodesOK, ConnsOK, BuildsOK, PathsOK, PendingOK, RefreshOK,
      MsgsOK, TasksOK, CallsOK, FlagsOK, BoundsOK

-----------------------------------------------------------------------------
(* Numbers.                                                                *)

(* A nonempty finite set of numbers has a least one.                       *)
LEMMA LeastIn ==
    ASSUME NEW S \in SUBSET Int, IsFiniteSet(S), S # {}
    PROVE  Least(S) \in S
<1> DEFINE R == {e \in S \X S : e[2] < e[1]}
<1>1. \A x \in S : <<x, x>> \notin R
  OBVIOUS
<1>2. \A x, y, z \in S : <<x, y>> \in R /\ <<y, z>> \in R => <<x, z>> \in R
  OBVIOUS
<1>3. PICK s \in S : \A t \in S : <<s, t>> \notin R
  <2> HIDE DEF R
  <2> QED BY <1>1, <1>2, FiniteMaximal
<1>4. ASSUME NEW t \in S PROVE s <= t
  <2>1. <<s, t>> \notin R
    BY <1>3
  <2>2. ~(t < s)
    BY <2>1
  <2> QED
    BY <2>2
<1> QED
  BY <1>4 DEF Least

LEMMA IdsFinite == IsFiniteSet(Ids) /\ IsFiniteSet(Conns) /\ Ids \subseteq Int /\ Conns \subseteq Int
  BY NumbersAssumption, FS_Interval DEF Ids, Conns

LEMMA LeastUnused ==
    ASSUME NEW S, Unused(S) # {}
    PROVE  Least(Unused(S)) \in Ids \ S
<1>1. Unused(S) \in SUBSET Ids
  BY DEF Unused
<1>2. Unused(S) \in SUBSET Int
  BY <1>1, IdsFinite, Zenon
<1>4. IsFiniteSet(Unused(S))
  BY <1>1, IdsFinite, FS_Subset
<1>3. Least(Unused(S)) \in Unused(S)
  BY <1>2, <1>4, LeastIn
<1> QED
  BY <1>3 DEF Unused

LEMMA LeastFree ==
    ASSUME FreeConns # {}
    PROVE  Least(FreeConns) \in FreeConns /\ Least(FreeConns) \in Conns
<1>1. FreeConns \in SUBSET Conns
  BY DEF FreeConns
<1>2. FreeConns \in SUBSET Int
  BY <1>1, IdsFinite
<1>3. IsFiniteSet(FreeConns)
  BY <1>1, IdsFinite, FS_Subset
<1>4. Least(FreeConns) \in FreeConns
  BY <1>2, <1>3, LeastIn
<1> QED
  BY <1>1, <1>4

(* Counting modulo the width of size_t.                                    *)
LEMMA Wraps == \A x \in Int : x % SizeSpace \in 0..(SizeSpace - 1)
  BY NumbersAssumption

-----------------------------------------------------------------------------
(* Scheduled calls and messages.                                           *)
LEMMA TaskTypes ==
    /\ \A i \in Ids, t \in PathTypes : Build(i, t) \in Task
    /\ \A i \in Ids : Establish(i) \in Task
    /\ \A i \in Tokens, p \in Probes \cup {None} : Refresh(i, p) \in Task
    /\ \A i \in Tokens : Seed(i) \in Task
  BY DEF Task, Build, Establish, Refresh, Seed

LEMMA FlaggedTasks ==
    /\ \A m \in Msg, t \in PathTypes, f \in BOOLEAN : Needed(m, t, f) \in Task
    /\ \A l \in BOOLEAN : Check(l) \in Task
  BY DEF Task, Needed, Check, Msg

LEMMA TaskFields ==
    ASSUME NEW t \in Task
    PROVE  /\ t.op = "refresh" => t.id \in Tokens /\ t.by \in Probes \cup {None}
           /\ t.op = "seed" => t.id \in Tokens
           /\ t.op = "needed" => t.type \in PathTypes /\ t.req \in Reqs \cup Probes
  BY DEF Task

LEMMA MsgUpdates ==
    ASSUME NEW m \in Msg
    PROVE  /\ \A s \in Spots : [m EXCEPT !.at = s] \in Msg
           /\ \A c \in Conns \cup {None} : [m EXCEPT !.conn = c] \in Msg
           /\ \A s \in Spots, c \in Conns \cup {None} : [m EXCEPT !.at = s, !.conn = c] \in Msg
           /\ \A s \in Spots, d \in Nodes, r \in Retries :
                 [m EXCEPT !.at = s, !.dest = d, !.retry = r] \in Msg
           /\ \A d \in Nodes, r \in Retries : [m EXCEPT !.dest = d, !.retry = r] \in Msg
           /\ \A r \in Retries : [m EXCEPT !.retry = r] \in Msg
           /\ [m EXCEPT !.late = TRUE] \in Msg
           /\ \A s \in Spots, l \in 0..(SizeSpace - 1) : [m EXCEPT !.at = s, !.load = l] \in Msg
  BY DEF Msg

LEMMA NewMessage ==
    ASSUME NEW r \in Reqs \cup Probes, NEW d \in Nodes \cup {Server, None}, NEW i \in Tokens
    PROVE  /\ Message(r, d, i) \in Msg
           /\ Message(r, d, i).req = r /\ Message(r, d, i).at = "calling"
           /\ Message(r, d, i).conn = None
  BY NumbersAssumption DEF Message, Msg, Retries, Spots

-----------------------------------------------------------------------------
(* What the pieces of the handlers leave of the types.                     *)
LEMMA PathTypeTypes == \A m \in Msg : PathTypeOf(m) \in PathTypes
  BY CallsAssumption DEF PathTypeOf, Msg

LEMMA CallBackTypes ==
    ASSUME CallsOK, NEW S, CallBack(S)
    PROVE  called' \in [Reqs -> Nat]
  BY DEF CallsOK, CallBack

LEMMA RetryTypes ==
    ASSUME NEW S \in SUBSET Msg
    PROVE  Retry(S) \subseteq Task
<1>1. \A m \in S : m.req \in Probes => Refresh(m.rid, m.req) \in Task
  BY TaskTypes DEF Msg
<1> QED
  BY <1>1 DEF Retry

LEMMA FoundPaths ==
    ASSUME PathsOK, NEW m, NEW S \in SUBSET paths
    PROVE  \A p \in FindValidPath(m, S) : p \in S /\ p.conn \in Conns /\ p \in paths
  BY DEF PathsOK, FindValidPath, Path

(* Messages that are being sent or were sent have a connection.            *)
Sent(M) == \A m \in M : m.at \in {"loaded", "inflight"} => m.conn \in Conns

LEMMA SendTypes ==
    ASSUME PathsOK, PendingOK, CallsOK, BoundsOK,
           NEW m \in Msg, NEW others \in SUBSET Msg, NEW rest \in SUBSET Task,
           Sent(others), SendOnLoop(m, others, rest)
    PROVE  /\ msgs' \subseteq Msg /\ Sent(msgs') /\ tasks' \subseteq Task
           /\ called' \in [Reqs -> Nat] /\ PendingOK' /\ faults' \in Nat
<1> DEFINE t == PathTypeOf(m)
           found == FindValidPath(m, PathsOf(t))
           next == rest \cup {Needed(m, t, found # {})}
<1>1. t \in PathTypes
  BY PathTypeTypes
<1>2. next \subseteq Task
  <2>1. (found # {}) \in BOOLEAN
    OBVIOUS
  <2>2. Needed(m, t, found # {}) \in Task
    BY <1>1, <2>1, FlaggedTasks
  <2> QED
    BY <2>2
<1>3. Check(FALSE) \in Task /\ Retry({m}) \subseteq Task
  BY FlaggedTasks, RetryTypes
<1>4. \A p \in found : p.conn \in Conns
  BY FoundPaths DEF PathsOf
<1>5. CASE /\ msgs' = others \cup {[m EXCEPT !.at = "queued"]}
           /\ tasks' = next \cup (IF IsTimed(m) THEN {Check(FALSE)} ELSE {})
           /\ UNCHANGED <<called, pending_requests, faults>>
  <2>1. [m EXCEPT !.at = "queued"] \in Msg
    BY MsgUpdates DEF Spots
  <2>2. [m EXCEPT !.at = "queued"].at = "queued"
    BY DEF Msg
  <2> HIDE DEF next
  <2> QED
    BY <1>2, <1>3, <1>5, <2>1, <2>2 DEF CallsOK, PendingOK, BoundsOK, Sent
<1>6. CASE /\ faults' \in Nat
           /\ CallBack({m})
           /\ msgs' = others
           /\ tasks' = next \cup Retry({m})
           /\ UNCHANGED pending_requests
  <2> HIDE DEF next
  <2> QED
    BY <1>2, <1>3, <1>6, CallBackTypes DEF PendingOK
<1>7. CASE \E p \in found :
             /\ msgs' = others \cup {[m EXCEPT !.at = "inflight", !.conn = p.conn]}
             /\ pending_requests' = [pending_requests EXCEPT ![p.conn] = (@ + 1) % SizeSpace]
             /\ tasks' = next
             /\ UNCHANGED <<called, faults>>
  <2>1. PICK p \in found :
             /\ msgs' = others \cup {[m EXCEPT !.at = "inflight", !.conn = p.conn]}
             /\ pending_requests' = [pending_requests EXCEPT ![p.conn] = (@ + 1) % SizeSpace]
             /\ tasks' = next
             /\ UNCHANGED <<called, faults>>
    BY <1>7
  <2> DEFINE n == [m EXCEPT !.at = "inflight", !.conn = p.conn]
  <2>2. n \in Msg
    BY <1>4, <2>1, MsgUpdates DEF Spots
  <2>5. n.conn \in Conns
    BY <1>4, <2>1 DEF Msg
  <2>3. (pending_requests[p.conn] + 1) % SizeSpace \in 0..(SizeSpace - 1)
    BY <1>4, <2>1, Wraps DEF PendingOK
  <2> HIDE DEF n, next
  <2>4. PendingOK'
    BY <2>1, <2>3 DEF PendingOK
  <2> QED
    BY <1>2, <2>1, <2>2, <2>4, <2>5 DEF CallsOK, BoundsOK, Sent, n
<1>8. (UNCHANGED faults \/ Costs(m)) => faults' \in Nat
  BY DEF BoundsOK, Costs
<1> QED
  BY <1>5, <1>6, <1>7, <1>8, Zenon DEF SendOnLoop

LEMMA Kept ==
    /\ NodesOK /\ UNCHANGED nodeVars => NodesOK'
    /\ ConnsOK /\ UNCHANGED connVars => ConnsOK'
    /\ BuildsOK /\ UNCHANGED buildVars => BuildsOK'
    /\ PathsOK /\ UNCHANGED <<paths, paths_pending_drop>> => PathsOK'
    /\ PendingOK /\ UNCHANGED pending_requests => PendingOK'
    /\ RefreshOK /\ UNCHANGED refreshVars => RefreshOK'
    /\ MsgsOK /\ OnConnection /\ UNCHANGED msgs => MsgsOK' /\ OnConnection'
    /\ TasksOK /\ UNCHANGED tasks => TasksOK'
    /\ CallsOK /\ UNCHANGED <<started, called>> => CallsOK'
    /\ FlagsOK /\ UNCHANGED <<suspended, timeout_loop>> => FlagsOK'
    /\ BoundsOK /\ UNCHANGED bounds => BoundsOK'
  BY Zenon DEF NodesOK, nodeVars, ConnsOK, connVars, BuildsOK, buildVars, PathsOK, PendingOK,
      RefreshOK, refreshVars, MsgsOK, OnConnection, TasksOK, CallsOK, FlagsOK, BoundsOK, bounds

LEMMA SomeNodes ==
    ASSUME NodesOK
    PROVE  \A k : UnusedFor(k) \subseteq Nodes
  BY DEF NodesOK, UnusedFor, GetUnusedNodes

(* A set of messages moved to another place.                               *)
LEMMA MovedTypes ==
    ASSUME NEW M \in SUBSET Msg, Sent(M), NEW S \in SUBSET M,
           NEW s \in Spots \ {"loaded", "inflight"}
    PROVE  /\ (M \ S) \cup {[m EXCEPT !.at = s] : m \in S} \subseteq Msg
           /\ Sent((M \ S) \cup {[m EXCEPT !.at = s] : m \in S})
<1>1. \A m \in S : [m EXCEPT !.at = s] \in Msg
  BY MsgUpdates
<1>2. \A m \in S : [m EXCEPT !.at = s].at = s
  BY DEF Msg
<1> QED
  BY <1>1, <1>2 DEF Sent

LEMMA EnqueueTypes ==
    ASSUME BuildsOK, NEW id \in Ids, NEW t \in PathTypes, NEW task \in Task,
           NEW rest \in SUBSET Task, EnqueueBuild(id, t, task, rest)
    PROVE  BuildsOK' /\ tasks' \subseteq Task
  BY DEF EnqueueBuild, BuildsOK

LEMMA StorePathTypes ==
    ASSUME ConnsOK, BuildsOK, PathsOK, MsgsOK, OnConnection, NEW id \in Ids, NEW t \in PathTypes,
           NEW c \in Conns, NEW others \in SUBSET Nodes, NEW rest \in SUBSET Task,
           StorePath(id, t, c, others, rest)
    PROVE  ConnsOK' /\ BuildsOK' /\ PathsOK' /\ MsgsOK' /\ OnConnection' /\ tasks' \subseteq Task
<1> DEFINE path == [conn |-> c, type |-> t, others |-> others, failures |-> 0]
           queued == {m \in At("queued") : PathTypeOf(m) = t}
           ready == {m \in queued : FindValidPath(m, {path}) # {}}
           more == Least(Unused({id}))
           done == [in_progress_path_builds EXCEPT ![id] = None]
<1>1. /\ paths' = paths \cup {path}
      /\ unused_connections' = unused_connections \ {c}
      /\ msgs' = (msgs \ ready) \cup {[m EXCEPT !.at = "scheduled"] : m \in ready}
      /\ IF queued = ready
         THEN in_progress_path_builds' = done /\ tasks' = rest
         ELSE /\ Unused({id}) # {}
              /\ in_progress_path_builds' = [done EXCEPT ![more] = t]
              /\ tasks' = rest \cup {Build(more, t)}
      /\ UNCHANGED <<conns, attempts, in_progress_connections, path_build_queue,
                     paths_pending_drop>>
  BY Zenon DEF StorePath
<1>2. path \in Path
  BY DEF Path
<1>3. PathsOK'
  <2> HIDE DEF path
  <2> QED
    BY <1>1, <1>2 DEF PathsOK
<1>4. ConnsOK'
  BY <1>1 DEF ConnsOK
<1>5. MsgsOK' /\ OnConnection'
  <2>1. ready \in SUBSET msgs
    BY DEF At
  <2>2. "scheduled" \in Spots \ {"loaded", "inflight"}
    BY DEF Spots
  <2>3. msgs \in SUBSET Msg /\ Sent(msgs)
    BY DEF MsgsOK, OnConnection, Sent
  <2> HIDE DEF ready
  <2> DEFINE now == (msgs \ ready) \cup {[m EXCEPT !.at = "scheduled"] : m \in ready}
  <2>5. now \subseteq Msg /\ Sent(now)
    BY <2>1, <2>2, <2>3, MovedTypes
  <2>6. msgs' = now
    BY <1>1
  <2>4. msgs' \subseteq Msg /\ Sent(msgs')
    <3> HIDE DEF now
    <3> QED BY <2>5, <2>6
  <2> QED
    BY <2>4 DEF MsgsOK, OnConnection, Sent
<1>6. BuildsOK' /\ tasks' \subseteq Task
  <2>1. done \in [Ids -> PathTypes \cup {None}]
    BY DEF BuildsOK
  <2>2. CASE queued = ready
    BY <1>1, <2>1, <2>2 DEF BuildsOK
  <2>3. CASE queued # ready
    <3>1. more \in Ids
      BY <1>1, <2>3, LeastUnused
    <3>2. Build(more, t) \in Task
      BY <3>1, TaskTypes
    <3> HIDE DEF more, done, queued, ready
    <3> QED
      BY <1>1, <2>1, <2>3, <3>1, <3>2 DEF BuildsOK
  <2> QED
    BY <2>2, <2>3
<1> QED
  BY <1>3, <1>4, <1>5, <1>6

LEMMA BuildPathTypes ==
    ASSUME Groups, NEW id \in Ids, NEW t \in PathTypes, NEW rest \in SUBSET Task,
           BuildPath(id, t, rest)
    PROVE  Groups'
<1> DEFINE nodes == UnusedFor(PathSize)
<1>1. nodes \subseteq Nodes
  BY SomeNodes DEF Groups
<1>2. /\ RefreshOK' /\ CallsOK' /\ FlagsOK' /\ BoundsOK'
      /\ snode_cache' = snode_cache /\ snode_failures' = snode_failures
      /\ seed_size' = seed_size /\ swarm_cache' = swarm_cache
  BY Kept, Zenon DEF Groups, BuildPath
<1>3. SUFFICES /\ unused_nodes' \subseteq Nodes
               /\ ConnsOK' /\ BuildsOK' /\ PathsOK' /\ PendingOK'
               /\ MsgsOK' /\ OnConnection' /\ tasks' \subseteq Task
  BY <1>2 DEF Groups, NodesOK, TasksOK
<1>4. CASE suspended
  <2>1. /\ tasks' = rest
        /\ UNCHANGED <<unused_nodes, connVars, buildVars, pathVars, msgs>>
    BY <1>4, Zenon DEF BuildPath
  <2> QED
    BY <2>1, Kept DEF Groups, NodesOK, pathVars
<1>5. CASE \E task \in Task : EnqueueBuild(id, t, task, rest) /\ unused_nodes' \subseteq Nodes
  <2>1. BuildsOK' /\ tasks' \subseteq Task
    BY <1>5, EnqueueTypes DEF Groups
  <2>2. UNCHANGED <<connVars, pathVars, msgs>>
    BY <1>5, Zenon DEF EnqueueBuild
  <2> QED
    BY <1>5, <2>1, <2>2, Kept DEF Groups, pathVars
<1>6. CASE /\ unused_nodes' = {}
           /\ in_progress_path_builds' = [in_progress_path_builds EXCEPT ![id] = t]
           /\ tasks' = rest \cup {Build(id, t)}
           /\ UNCHANGED <<connVars, path_build_queue, pathVars, msgs>>
  <2>1. BuildsOK' /\ tasks' \subseteq Task
    BY <1>6, TaskTypes DEF Groups, BuildsOK
  <2> QED
    BY <1>6, <2>1, Kept DEF Groups, pathVars
<1>7. CASE \E c \in unused_connections, others \in SUBSET nodes :
             unused_nodes' \subseteq nodes /\ StorePath(id, t, c, others, rest)
  <2>1. PICK c \in Conns, others \in SUBSET Nodes :
             unused_nodes' \subseteq nodes /\ StorePath(id, t, c, others, rest)
    BY <1>1, <1>7, Zenon DEF Groups, ConnsOK
  <2>2. UNCHANGED pending_requests
    BY <2>1 DEF StorePath
  <2> QED
    BY <1>1, <2>1, <2>2, StorePathTypes, Kept DEF Groups
<1>8. ASSUME ~suspended
      PROVE  \/ EnqueueBuild(id, t, Establish(id), rest) /\ unused_nodes' = unused_nodes
             \/ /\ Unused({id}) # {} /\ unused_nodes' = nodes
                /\ EnqueueBuild(id, t, Refresh(Least(Unused({id})), None), rest)
             \/ /\ unused_nodes' = {}
                /\ in_progress_path_builds' = [in_progress_path_builds EXCEPT ![id] = t]
                /\ tasks' = rest \cup {Build(id, t)}
                /\ UNCHANGED <<connVars, path_build_queue, pathVars, msgs>>
             \/ \E c \in unused_connections :
                  \E others \in SUBSET {n \in nodes : Ip[n] # Ip[conns[c].node]} :
                    /\ unused_nodes' = {n \in {n \in nodes : Ip[n] # Ip[conns[c].node]} :
                                           Ip[n] \notin IpsOf(others)}
                    /\ StorePath(id, t, c, others, rest)
  BY <1>8, Zenon DEF BuildPath
<1>9. CASE ~suspended
  <2>1. Establish(id) \in Task
    BY TaskTypes
  <2>2. Unused({id}) # {} => Refresh(Least(Unused({id})), None) \in Task
    BY TaskTypes, LeastUnused DEF Tokens
  <2>3. unused_nodes \subseteq Nodes
    BY DEF Groups, NodesOK
  <2>4. CASE EnqueueBuild(id, t, Establish(id), rest) /\ unused_nodes' = unused_nodes
    BY <2>1, <2>3, <2>4, <1>5
  <2>5. CASE /\ Unused({id}) # {} /\ unused_nodes' = nodes
             /\ EnqueueBuild(id, t, Refresh(Least(Unused({id})), None), rest)
    BY <1>1, <2>2, <2>5, <1>5
  <2>6. CASE \E c \in unused_connections :
               \E others \in SUBSET {n \in nodes : Ip[n] # Ip[conns[c].node]} :
                    /\ unused_nodes' = {n \in {n \in nodes : Ip[n] # Ip[conns[c].node]} :
                                           Ip[n] \notin IpsOf(others)}
                    /\ StorePath(id, t, c, others, rest)
    <3>0. PICK c \in unused_connections :
               \E others \in SUBSET {n \in nodes : Ip[n] # Ip[conns[c].node]} :
                    /\ unused_nodes' = {n \in {n \in nodes : Ip[n] # Ip[conns[c].node]} :
                                           Ip[n] \notin IpsOf(others)}
                    /\ StorePath(id, t, c, others, rest)
      BY <2>6
    <3>1. PICK others \in SUBSET {n \in nodes : Ip[n] # Ip[conns[c].node]} :
                    /\ unused_nodes' = {n \in {n \in nodes : Ip[n] # Ip[conns[c].node]} :
                                           Ip[n] \notin IpsOf(others)}
                    /\ StorePath(id, t, c, others, rest)
      BY <3>0
    <3>2. others \in SUBSET nodes /\ unused_nodes' \subseteq nodes
      BY <3>1, Zenon
    <3> QED
      BY <3>1, <3>2, <1>7
  <2> QED
    BY <1>6, <1>8, <1>9, <2>4, <2>5, <2>6
<1> QED
  BY <1>4, <1>9

LEMMA BuildTaskTypes ==
    ASSUME Groups, NEW id \in Ids, NEW t \in PathTypes, BuildTask(id, t)
    PROVE  Groups'
<1>1. tasks \ {Build(id, t)} \in SUBSET Task
  BY DEF Groups, TasksOK
<1> QED
  BY <1>1, BuildPathTypes DEF BuildTask

LEMMA NeededTaskTypes ==
    ASSUME Groups, NEW task \in tasks, NeededTask(task)
    PROVE  Groups'
<1>1. tasks \ {task} \in SUBSET Task /\ task \in Task
  BY DEF Groups, TasksOK
<1>2. task.type \in PathTypes
  BY <1>1, TaskFields DEF NeededTask
<1>3. CASE Unused({}) # {} /\ BuildPath(Least(Unused({})), task.type, tasks \ {task})
  <2>1. Least(Unused({})) \in Ids
    BY <1>3, LeastUnused
  <2> QED
    BY <1>1, <1>2, <1>3, <2>1, BuildPathTypes
<1>4. CASE /\ tasks' = tasks \ {task}
           /\ UNCHANGED <<suspended, nodeVars, connVars, buildVars, pathVars, refreshVars,
                          timeout_loop, reqVars, bounds>>
  BY <1>1, <1>4, Kept DEF Groups, TasksOK, pathVars, reqVars
<1> QED
  BY <1>3, <1>4, Zenon DEF NeededTask

LEMMA AttemptTypes ==
    /\ \A c \in Conns, i \in Ids : [conn |-> c, id |-> i, seed |-> FALSE] \in Attempt
    /\ \A c \in Conns, i \in Tokens : [conn |-> c, id |-> i, seed |-> TRUE] \in Attempt
  BY DEF Attempt

LEMMA ConnectTypes ==
    ASSUME ConnsOK, PendingOK, FreeConns # {}, NEW id, NEW node \in Nodes \cup {None}, NEW seed,
           \A c \in Conns : [conn |-> c, id |-> id, seed |-> seed] \in Attempt,
           Connect(id, node, seed)
    PROVE  /\ conns' \in [Conns -> [node : Nodes \cup {None}, state : {"connecting", "open", "closed"}]]
           /\ attempts' \subseteq Attempt
           /\ PendingOK'
<1> DEFINE c == Least(FreeConns)
<1>1. c \in Conns
  BY LeastFree
<1>2. /\ conns' = [conns EXCEPT ![c] = [node |-> node, state |-> "connecting"]]
      /\ attempts' = attempts \cup {[conn |-> c, id |-> id, seed |-> seed]}
      /\ pending_requests' = [pending_requests EXCEPT ![c] = 0]
  BY DEF Connect
<1>3. [conn |-> c, id |-> id, seed |-> seed] \in Attempt
  BY <1>1
<1>4. [node |-> node, state |-> "connecting"]
         \in [node : Nodes \cup {None}, state : {"connecting", "open", "closed"}]
  OBVIOUS
<1> HIDE DEF c
<1>5. PendingOK'
  BY <1>1, <1>2, NumbersAssumption DEF PendingOK
<1>6. attempts' \subseteq Attempt
  BY <1>2, <1>3 DEF ConnsOK
<1>7. conns' \in [Conns -> [node : Nodes \cup {None}, state : {"connecting", "open", "closed"}]]
  BY <1>1, <1>2, <1>4 DEF ConnsOK
<1> QED
  BY <1>5, <1>6, <1>7

LEMMA EstablishTypes ==
    ASSUME Groups, NEW id \in Ids, EstablishTask(id)
    PROVE  Groups'
<1> DEFINE nodes == UnusedFor(1)
           rest == tasks \ {Establish(id)}
<1>1. nodes \subseteq Nodes /\ rest \subseteq Task
  BY SomeNodes DEF Groups, TasksOK
<1>2. /\ BuildsOK' /\ PathsOK' /\ RefreshOK' /\ CallsOK' /\ MsgsOK' /\ OnConnection' /\ FlagsOK'
      /\ snode_cache' = snode_cache /\ snode_failures' = snode_failures
      /\ seed_size' = seed_size /\ swarm_cache' = swarm_cache
      /\ faults' = faults /\ suspends' = suspends
  BY Kept, Zenon DEF Groups, EstablishTask, reqVars
<1>3. SUFFICES /\ unused_nodes' \subseteq Nodes /\ ConnsOK' /\ PendingOK' /\ tasks' \subseteq Task
               /\ expiries' \in Nat
  BY <1>2 DEF Groups, NodesOK, TasksOK, BoundsOK
<1>4. Refresh(id, None) \in Task
  BY TaskTypes DEF Tokens
<1>5. unused_nodes \subseteq Nodes /\ expiries \in Nat
  BY DEF Groups, NodesOK, BoundsOK
<1>6. CASE /\ \/ tasks' = rest /\ UNCHANGED unused_nodes
              \/ tasks' = rest \cup {Refresh(id, None)} /\ unused_nodes' = nodes
           /\ UNCHANGED <<connVars, pending_requests, expiries>>
  <2>1. ConnsOK' /\ PendingOK'
    BY <1>6, Kept DEF Groups
  <2> QED
    BY <1>1, <1>4, <1>5, <1>6, <2>1
<1>7. CASE /\ FreeConns # {}
           /\ \E n \in nodes :
               /\ unused_nodes' = nodes \ {n}
               /\ in_progress_connections' = InProgress(id, n)
               /\ Connect(id, n, FALSE)
           /\ \/ tasks' = rest /\ UNCHANGED expiries
              \/ /\ Unused({id}) # {}
                 /\ expiries' = expiries + 1
                 /\ tasks' = rest \cup {Refresh(Least(Unused({id})), None)}
           /\ UNCHANGED unused_connections
  <2>1. PICK n \in nodes :
               /\ unused_nodes' = nodes \ {n}
               /\ in_progress_connections' = InProgress(id, n)
               /\ Connect(id, n, FALSE)
    BY <1>7
  <2>2. /\ conns' \in [Conns -> [node : Nodes \cup {None}, state : {"connecting", "open", "closed"}]]
        /\ attempts' \subseteq Attempt
        /\ PendingOK'
    BY <1>1, <1>7, <2>1, AttemptTypes, ConnectTypes DEF Groups
  <2>3. in_progress_connections' \in [Ids -> Nodes \cup {None}]
    BY <1>1, <2>1 DEF InProgress, Groups, ConnsOK
  <2>4. unused_connections' \subseteq Conns
    BY <1>7 DEF Groups, ConnsOK
  <2>5. tasks' \subseteq Task /\ expiries' \in Nat
    <3>1. Unused({id}) # {} => Refresh(Least(Unused({id})), None) \in Task
      BY TaskTypes, LeastUnused DEF Tokens
    <3> QED
      BY <1>1, <1>5, <1>7, <3>1
  <2> QED
    BY <1>1, <2>1, <2>2, <2>3, <2>4, <2>5 DEF ConnsOK
<1> QED
  BY <1>6, <1>7, Zenon DEF EstablishTask

LEMMA AttemptFields ==
    ASSUME NEW a \in Attempt
    PROVE  /\ a.conn \in Conns /\ a.id \in Tokens
           /\ ~a.seed => a.id \in Ids
  BY DEF Attempt, Tokens

(* A connection changes its state.                                         *)
LEMMA StateTypes ==
    ASSUME ConnsOK, NEW c \in Conns, NEW s \in {"connecting", "open", "closed"}
    PROVE  [conns EXCEPT ![c].state = s]
              \in [Conns -> [node : Nodes \cup {None}, state : {"connecting", "open", "closed"}]]
  BY DEF ConnsOK

LEMMA ConnectedTypes ==
    ASSUME Groups, NEW a \in attempts, Connected(a)
    PROVE  Groups'
<1>1. a \in Attempt
  BY DEF Groups, ConnsOK
<1>2. a.conn \in Conns /\ a.id \in Ids
  BY <1>1, AttemptFields DEF Connected
<1>3. ConnsOK'
  BY <1>2, StateTypes DEF Groups, ConnsOK, Connected
<1>4. BuildsOK' /\ tasks' \subseteq Task
  <2>1. CASE UNCHANGED <<buildVars, tasks>>
    BY <2>1, Kept DEF Groups, TasksOK
  <2>2. CASE \E t \in PathTypes :
            /\ path_build_queue[t] > 0
            /\ path_build_queue' = [path_build_queue EXCEPT ![t] = @ - 1]
            /\ in_progress_path_builds' = [in_progress_path_builds EXCEPT ![a.id] = t]
            /\ tasks' = tasks \cup {Build(a.id, t)}
    <3>1. PICK t \in PathTypes :
            /\ path_build_queue[t] > 0
            /\ path_build_queue' = [path_build_queue EXCEPT ![t] = @ - 1]
            /\ in_progress_path_builds' = [in_progress_path_builds EXCEPT ![a.id] = t]
            /\ tasks' = tasks \cup {Build(a.id, t)}
      BY <2>2
    <3>2. Build(a.id, t) \in Task
      BY <1>2, TaskTypes
    <3> QED
      BY <1>2, <3>1, <3>2 DEF Groups, BuildsOK, TasksOK
  <2> QED
    BY <2>1, <2>2 DEF Connected
<1> QED
  BY <1>3, <1>4, Kept, Zenon DEF Groups, Connected, pathVars, reqVars, TasksOK

LEMMA FaultTypes ==
    ASSUME BoundsOK, NEW c, Fault(c)
    PROVE  faults' \in Nat
  BY DEF BoundsOK, Fault

LEMMA BusyTypes ==
    ASSUME NEW S \in SUBSET Path, NEW pending
    PROVE  StillBusy(S, pending) \subseteq Path
  BY DEF StillBusy

LEMMA AttemptFailsTypes ==
    ASSUME Groups, NEW a \in attempts, NEW timeout \in BOOLEAN, AttemptFails(a, timeout)
    PROVE  Groups'
<1>1. a \in Attempt
  BY DEF Groups, ConnsOK
<1>2. a.conn \in Conns /\ a.id \in Tokens /\ (~a.seed => a.id \in Ids)
  BY <1>1, AttemptFields
<1>3. ConnsOK'
  BY <1>2, StateTypes DEF Groups, ConnsOK, AttemptFails
<1>4. tasks' \subseteq Task
  BY <1>2, TaskTypes DEF AttemptFails, Groups, TasksOK
<1>5. PathsOK'
  BY BusyTypes DEF AttemptFails, Groups, PathsOK
<1>6. snode_failures' \in [Nodes -> 0..(FailureSpace - 1)]
  <2>1. SnodeThreshold \in 0..(FailureSpace - 1)
    BY NumbersAssumption
  <2> QED
    BY <2>1 DEF AttemptFails, Groups, NodesOK
<1>7. NodesOK'
  BY <1>6 DEF AttemptFails, Groups, NodesOK
<1>8. BoundsOK'
  BY FaultTypes DEF AttemptFails, Groups, BoundsOK
<1> QED
  BY <1>3, <1>4, <1>5, <1>7, <1>8, Kept, Zenon DEF Groups, AttemptFails, reqVars, TasksOK

LEMMA ConnectionClosesTypes ==
    ASSUME Groups, NEW c \in Conns, ConnectionCloses(c)
    PROVE  Groups'
<1>1. ConnsOK'
  BY StateTypes DEF Groups, ConnsOK, ConnectionCloses
<1>2. PathsOK'
  <2>1. {p \in paths : p.conn = c} \subseteq Path /\ paths_pending_drop \subseteq Path
    BY DEF Groups, PathsOK
  <2>2. paths_pending_drop \cup {p \in paths : p.conn = c} \in SUBSET Path
    BY <2>1
  <2>3. paths_pending_drop' \subseteq Path
    BY <2>2, BusyTypes DEF ConnectionCloses
  <2> QED
    BY <2>3 DEF ConnectionCloses, Groups, PathsOK
<1>3. BoundsOK'
  BY FaultTypes DEF ConnectionCloses, Groups, BoundsOK
<1> QED
  BY <1>1, <1>2, <1>3, Kept, Zenon DEF Groups, ConnectionCloses, reqVars

LEMMA CompleteTypes ==
    ASSUME Groups, NEW A \in SUBSET Nodes, NEW others \in SUBSET Msg, Sent(others),
           Complete(A, others)
    PROVE  /\ snode_cache' \subseteq Nodes /\ swarm_cache' \subseteq Nodes
           /\ snode_failures' \in [Nodes -> 0..(FailureSpace - 1)]
           /\ RefreshOK' /\ BuildsOK' /\ TasksOK' /\ msgs' \subseteq Msg /\ Sent(msgs')
<1> DEFINE waiting == {m \in others : m.at = "after"}
           queued == {b \in PathTypes \X (1..MaxIds) : b[2] <= path_build_queue[b[1]]}
           ids == FirstOf(Unused({}), Cardinality(queued))
           now == (others \ waiting) \cup {[m EXCEPT !.at = "resumed"] : m \in waiting}
<1>1. /\ snode_cache' = A
      /\ snode_failures' = [n \in Nodes |-> 0]
      /\ swarm_cache' = {}
      /\ refresh_id' = None /\ refresh_count' = 0 /\ refresh_results' = NoResults
      /\ msgs' = now
      /\ path_build_queue' = [t \in PathTypes |-> 0]
      /\ \E f \in [ids -> PathTypes] :
             /\ in_progress_path_builds' =
                   [i \in Ids |-> IF i \in ids THEN f[i] ELSE in_progress_path_builds[i]]
             /\ tasks' = tasks \cup {Build(i, f[i]) : i \in ids}
  BY Zenon DEF Complete
<1>2. now \subseteq Msg /\ Sent(now)
  <2>1. waiting \in SUBSET others /\ "resumed" \in Spots \ {"loaded", "inflight"}
    BY DEF Spots
  <2> HIDE DEF waiting
  <2> QED
    BY <2>1, MovedTypes
<1>3. ids \subseteq Ids
  BY DEF FirstOf, Unused
<1>4. BuildsOK' /\ TasksOK'
  <2> HIDE DEF ids, now
  <2>1. PICK f \in [ids -> PathTypes] :
             /\ in_progress_path_builds' =
                   [i \in Ids |-> IF i \in ids THEN f[i] ELSE in_progress_path_builds[i]]
             /\ tasks' = tasks \cup {Build(i, f[i]) : i \in ids}
    BY <1>1
  <2>2. \A i \in ids : Build(i, f[i]) \in Task
    BY <1>3, TaskTypes
  <2>3. TasksOK'
    BY <2>1, <2>2 DEF TasksOK, Groups
  <2>4. BuildsOK'
    BY <1>1, <1>3, <2>1 DEF BuildsOK, Groups
  <2> QED
    BY <2>3, <2>4
<1>5. RefreshOK'
  BY <1>1 DEF RefreshOK, NoResults, Tokens
<1>6. snode_failures' \in [Nodes -> 0..(FailureSpace - 1)]
  BY <1>1, NumbersAssumption
<1>7. msgs' \subseteq Msg /\ Sent(msgs')
  <2> HIDE DEF now
  <2> QED BY <1>1, <1>2
<1> QED
  BY <1>1, <1>4, <1>5, <1>6, <1>7

LEMMA SeedTaskTypes ==
    ASSUME Groups, NEW id \in Tokens, SeedTask(id)
    PROVE  Groups'
<1>1. tasks' \subseteq Task
  BY DEF SeedTask, Groups, TasksOK
<1>2. ConnsOK' /\ PendingOK'
  <2>1. CASE UNCHANGED <<conns, attempts, pending_requests>>
    BY <2>1 DEF SeedTask, Groups, ConnsOK, PendingOK
  <2>2. CASE FreeConns # {} /\ Connect(id, None, TRUE)
    <3>1. /\ conns' \in [Conns -> [node : Nodes \cup {None},
                                    state : {"connecting", "open", "closed"}]]
          /\ attempts' \subseteq Attempt
          /\ PendingOK'
      BY <2>2, AttemptTypes, ConnectTypes DEF Groups
    <3> QED
      BY <3>1 DEF SeedTask, Groups, ConnsOK
  <2> QED
    BY <2>1, <2>2 DEF SeedTask
<1> QED
  BY <1>1, <1>2, Kept, Zenon DEF Groups, SeedTask, reqVars, TasksOK

LEMMA SeedAnswersTypes ==
    ASSUME Groups, NEW a \in attempts, NEW A \in Answers, SeedAnswers(a, A)
    PROVE  Groups'
<1>1. a.conn \in Conns /\ a.id \in Tokens /\ A \in SUBSET Nodes
  BY AttemptFields, NodesAssumption DEF Groups, ConnsOK
<1>2. ConnsOK'
  BY <1>1, StateTypes DEF Groups, ConnsOK, SeedAnswers
<1>3. /\ PathsOK' /\ PendingOK' /\ FlagsOK'
      /\ unused_nodes' = unused_nodes /\ started' = started /\ called' = called
      /\ expiries' = expiries /\ suspends' = suspends
  <2>1. /\ paths' = paths
        /\ \/ paths_pending_drop' = StillBusy(paths_pending_drop, pending_requests)
           \/ paths_pending_drop' = paths_pending_drop
    BY Zenon DEF SeedAnswers
  <2>2. PathsOK'
    BY <2>1 DEF Groups, PathsOK, StillBusy
  <2> QED
    BY <2>2, Kept, Zenon DEF SeedAnswers, Groups
<1>4. CASE A = {}
  <2>1. /\ faults' = faults + 1
        /\ tasks' = tasks \cup {Seed(a.id)}
        /\ UNCHANGED <<snode_cache, snode_failures, seed_size, swarm_cache, buildVars,
                       refreshVars, msgs>>
    BY <1>4, Zenon DEF SeedAnswers
  <2>2. tasks' \subseteq Task
    BY <1>1, <2>1, TaskTypes DEF Groups, TasksOK
  <2>3. BoundsOK' /\ CallsOK' /\ NodesOK'
    BY <1>3, <2>1 DEF Groups, BoundsOK, CallsOK, NodesOK
  <2> QED
    BY <1>2, <1>3, <2>1, <2>2, <2>3, Kept DEF Groups, TasksOK
<1>5. CASE A # {}
  <2>1. seed_size' = Cardinality(A) /\ Complete(A, msgs) /\ UNCHANGED faults
    BY <1>5, Zenon DEF SeedAnswers
  <2>2. Cardinality(A) \in Nat
    BY <1>1, NodesAssumption, FS_Subset, FS_CardinalityType
  <2>3. /\ snode_cache' \subseteq Nodes /\ swarm_cache' \subseteq Nodes
        /\ snode_failures' \in [Nodes -> 0..(FailureSpace - 1)]
        /\ RefreshOK' /\ BuildsOK' /\ TasksOK' /\ msgs' \subseteq Msg /\ Sent(msgs')
    BY <1>1, <2>1, CompleteTypes DEF Groups, MsgsOK, OnConnection, Sent
  <2>4. NodesOK'
    BY <1>3, <2>1, <2>2, <2>3 DEF NodesOK, Groups
  <2>5. BoundsOK' /\ CallsOK'
    BY <1>3, <2>1 DEF Groups, BoundsOK, CallsOK
  <2> QED
    BY <1>2, <1>3, <2>3, <2>4, <2>5 DEF Groups, MsgsOK, OnConnection, Sent
<1> QED
  BY <1>4, <1>5

LEMMA FreeProbe ==
    ASSUME FreeProbes # {}
    PROVE  Least(FreeProbes) \in FreeProbes /\ Least(FreeProbes) \in Probes
<1>1. FreeProbes \in SUBSET Probes
  BY DEF FreeProbes
<1>2. FreeProbes \in SUBSET Int
  BY <1>1, CallsAssumption
<1>3. IsFiniteSet(FreeProbes)
  BY <1>1, CallsAssumption, FS_Subset
<1> QED
  BY <1>1, <1>2, <1>3, LeastIn

LEMMA RefreshTypes ==
    ASSUME Groups, NEW task \in tasks, RefreshTask(task)
    PROVE  Groups'
<1> DEFINE id == task.id
           nodes == UnusedFor(MinSnodeCacheSize)
           count == IF refresh_id = None THEN 0 ELSE refresh_count
           rest == tasks \ {task}
<1>1. id \in Tokens
  BY TaskFields DEF Groups, TasksOK, RefreshTask
<1>2. nodes \subseteq Nodes /\ rest \subseteq Task /\ count \in Int
  BY SomeNodes DEF Groups, TasksOK, RefreshOK
<1>3. /\ BuildsOK' /\ PathsOK' /\ FlagsOK'
      /\ snode_cache' = snode_cache /\ snode_failures' = snode_failures
      /\ seed_size' = seed_size /\ swarm_cache' = swarm_cache
      /\ unused_connections' = unused_connections
      /\ in_progress_connections' = in_progress_connections
      /\ started' = started /\ expiries' = expiries /\ suspends' = suspends
  BY Kept, Zenon DEF Groups, RefreshTask
<1>4. CASE /\ tasks' = rest
           /\ UNCHANGED <<unused_nodes, conns, attempts, pending_requests, refreshVars,
                          msgs, called, faults>>
  BY <1>2, <1>3, <1>4, Kept
     DEF Groups, TasksOK, NodesOK, ConnsOK, CallsOK, BoundsOK
<1>5. CASE /\ refresh_id' = id
           /\ refresh_results' = IF refresh_id = None THEN NoResults ELSE refresh_results
           /\ unused_nodes' = nodes
           /\ refresh_count' = count
           /\ FreeConns # {}
           /\ Connect(id, None, TRUE)
           /\ tasks' = rest
           /\ UNCHANGED <<msgs, called, faults>>
  <2>1. /\ conns' \in [Conns -> [node : Nodes \cup {None},
                                  state : {"connecting", "open", "closed"}]]
        /\ attempts' \subseteq Attempt
        /\ PendingOK'
    BY <1>1, <1>5, AttemptTypes, ConnectTypes DEF Groups
  <2>2. RefreshOK'
    BY <1>1, <1>2, <1>5 DEF RefreshOK, NoResults, Groups
  <2>3. ConnsOK' /\ NodesOK' /\ CallsOK' /\ BoundsOK' /\ TasksOK'
    BY <1>2, <1>3, <1>5, <2>1 DEF Groups, ConnsOK, NodesOK, CallsOK, BoundsOK, TasksOK
  <2> QED
    BY <1>3, <1>5, <2>1, <2>2, <2>3, Kept DEF Groups
<1>6. CASE /\ refresh_id' = id
           /\ refresh_results' = IF refresh_id = None THEN NoResults ELSE refresh_results
           /\ refresh_count' = count + 1
           /\ FreeProbes # {}
           /\ \E n \in nodes :
                LET probe == Message(Least(FreeProbes), n, id)
                IN  /\ unused_nodes' = nodes \ {n}
                    /\ SendOnLoop(probe, msgs,
                           rest \cup (IF count + 1 < RefreshFrom
                                      THEN {Refresh(id, probe.req)} ELSE {}))
           /\ UNCHANGED <<conns, attempts>>
  <2>1. PICK n \in nodes :
             /\ unused_nodes' = nodes \ {n}
             /\ SendOnLoop(Message(Least(FreeProbes), n, id), msgs,
                    rest \cup (IF count + 1 < RefreshFrom
                               THEN {Refresh(id, Message(Least(FreeProbes), n, id).req)} ELSE {}))
    BY <1>6
  <2> DEFINE probe == Message(Least(FreeProbes), n, id)
             next == rest \cup (IF count + 1 < RefreshFrom
                                THEN {Refresh(id, probe.req)} ELSE {})
  <2>2. probe \in Msg /\ probe.req \in Probes
    BY <1>1, <1>2, <1>6, FreeProbe, NewMessage
  <2>3. next \subseteq Task
    BY <1>1, <1>2, <2>2, TaskTypes
  <2>4. SendOnLoop(probe, msgs, next)
    BY <2>1
  <2> HIDE DEF probe, next
  <2>5. /\ msgs' \subseteq Msg /\ Sent(msgs') /\ tasks' \subseteq Task
        /\ called' \in [Reqs -> Nat] /\ PendingOK' /\ faults' \in Nat
    BY <2>2, <2>3, <2>4, SendTypes DEF Groups, MsgsOK, OnConnection, Sent
  <2>6. RefreshOK'
    BY <1>1, <1>2, <1>6 DEF RefreshOK, NoResults, Groups
  <2>7. ConnsOK' /\ NodesOK' /\ CallsOK' /\ BoundsOK' /\ TasksOK'
    BY <1>2, <1>3, <1>6, <2>1, <2>5 DEF Groups, ConnsOK, NodesOK, CallsOK, BoundsOK, TasksOK
  <2> QED
    BY <1>3, <2>5, <2>6, <2>7 DEF Groups, MsgsOK, OnConnection, Sent
<1> QED
  BY <1>4, <1>5, <1>6, Zenon DEF RefreshTask

LEMMA WaitTypes ==
    ASSUME Groups, NEW m \in Msg, NEW others \in SUBSET Msg, Sent(others),
           WaitForRefresh(m, others)
    PROVE  msgs' \subseteq Msg /\ Sent(msgs') /\ TasksOK' /\ called' \in [Reqs -> Nat]
<1> DEFINE n == [m EXCEPT !.at = "after", !.conn = None]
<1>1. n \in Msg
  BY MsgUpdates DEF Spots
<1>2. n.at = "after"
  BY DEF Msg
<1>3. Refresh(Least(Unused({})), None) \in Task
  BY TaskTypes, LeastUnused DEF WaitForRefresh, Tokens
<1>4. msgs' = others \cup {n} /\ tasks' = tasks \cup {Refresh(Least(Unused({})), None)}
      /\ called' = called
  BY DEF WaitForRefresh
<1> HIDE DEF n
<1> QED
  BY <1>1, <1>2, <1>3, <1>4 DEF Sent, Groups, TasksOK, CallsOK

LEMMA GotSwarmTypes ==
    ASSUME Groups, NEW m \in Msg, NEW others \in SUBSET Msg, Sent(others),
           NEW S \in SUBSET Nodes, GotSwarm(m, S, others)
    PROVE  msgs' \subseteq Msg /\ Sent(msgs') /\ TasksOK' /\ called' \in [Reqs -> Nat]
<1>1. TasksOK'
  BY Kept DEF GotSwarm, Groups
<1>2. CASE CallBack({m}) /\ msgs' = others
  BY <1>1, <1>2, CallBackTypes DEF Groups
<1>3. CASE /\ \E n \in S \ {m.dest} :
                msgs' = others \cup {[m EXCEPT !.at = "scheduled", !.dest = n,
                                               !.retry = "redirect_swarm_refresh"]}
           /\ UNCHANGED called
  <2>1. PICK n \in S :
           msgs' = others \cup {[m EXCEPT !.at = "scheduled", !.dest = n,
                                          !.retry = "redirect_swarm_refresh"]}
    BY <1>3
  <2> DEFINE k == [m EXCEPT !.at = "scheduled", !.dest = n, !.retry = "redirect_swarm_refresh"]
  <2>2. k \in Msg
    BY MsgUpdates DEF Spots, Retries
  <2>3. k.at = "scheduled"
    BY DEF Msg
  <2> HIDE DEF k
  <2> QED
    BY <1>1, <1>3, <2>1, <2>2, <2>3 DEF Sent, Groups, CallsOK, k
<1> QED
  BY <1>2, <1>3 DEF GotSwarm

LEMMA LookupTypes ==
    ASSUME Groups, NEW m \in Msg, NEW others \in SUBSET Msg, Sent(others), Lookup(m, others),
           started' \subseteq Reqs
    PROVE  Groups'
<1>1. /\ ConnsOK' /\ BuildsOK' /\ PathsOK' /\ PendingOK' /\ RefreshOK' /\ FlagsOK' /\ BoundsOK'
      /\ snode_cache' = snode_cache /\ snode_failures' = snode_failures
      /\ seed_size' = seed_size
  BY Kept, Zenon DEF Lookup, Groups, pathVars
<1>2. SUFFICES /\ msgs' \subseteq Msg /\ Sent(msgs') /\ TasksOK' /\ called' \in [Reqs -> Nat]
               /\ unused_nodes' \subseteq Nodes /\ swarm_cache' \subseteq Nodes
  BY <1>1 DEF Groups, NodesOK, CallsOK, MsgsOK, OnConnection, Sent
<1>3. CASE GetRandomNodes(m, others)
  <2>1. UnusedFor(Count) \subseteq Nodes /\ swarm_cache' \subseteq Nodes
    BY <1>3, SomeNodes DEF Groups, NodesOK, GetRandomNodes
  <2>2. CASE unused_nodes' = UnusedFor(Count) /\ WaitForRefresh(m, others)
    BY <2>1, <2>2, WaitTypes
  <2>3. CASE /\ unused_nodes' \subseteq UnusedFor(Count)
             /\ CallBack({m}) /\ msgs' = others /\ UNCHANGED tasks
    BY <2>1, <2>3, CallBackTypes, Kept DEF Groups
  <2> QED
    BY <1>3, <2>2, <2>3 DEF GetRandomNodes
<1>4. CASE GetSwarm(m, others)
  <2>1. unused_nodes' \subseteq Nodes /\ swarm_cache \subseteq Nodes /\ snode_cache \subseteq Nodes
    BY <1>4 DEF GetSwarm, Groups, NodesOK
  <2>2. CASE WaitForRefresh(m, others) /\ UNCHANGED swarm_cache
    BY <2>1, <2>2, WaitTypes
  <2>3. CASE \E S \in SUBSET Nodes : GotSwarm(m, S, others) /\ swarm_cache' \subseteq Nodes
    BY <2>1, <2>3, GotSwarmTypes
  <2>4. {n \in snode_cache : SwarmId[n] = NearestSwarm} \in SUBSET Nodes
    BY <2>1
  <2> QED
    BY <1>4, <2>1, <2>2, <2>3, <2>4 DEF GetSwarm
<1> QED
  BY <1>3, <1>4 DEF Lookup

LEMMA CallLookupTypes ==
    ASSUME Groups, NEW r \in Reqs, CallLookup(r)
    PROVE  Groups'
<1>1. Message(r, None, None) \in Msg
  BY NewMessage DEF Tokens
<1>2. started' \subseteq Reqs /\ Lookup(Message(r, None, None), msgs)
  BY DEF CallLookup, Groups, CallsOK
<1>3. msgs \in SUBSET Msg /\ Sent(msgs)
  BY DEF Groups, MsgsOK, OnConnection, Sent
<1> QED
  BY <1>1, <1>2, <1>3, LookupTypes

LEMMA RunResumedTypes ==
    ASSUME Groups, NEW m \in msgs, RunResumed(m)
    PROVE  Groups'
<1>1. m \in Msg /\ msgs \ {m} \in SUBSET Msg /\ Sent(msgs \ {m}) /\ started' \subseteq Reqs
  BY DEF Groups, MsgsOK, OnConnection, Sent, RunResumed, CallsOK
<1>2. Lookup(m, msgs \ {m})
  BY DEF RunResumed
<1> QED
  BY <1>1, <1>2, LookupTypes

LEMMA SendGroups ==
    ASSUME Groups, msgs' \subseteq Msg, Sent(msgs'), tasks' \subseteq Task,
           called' \in [Reqs -> Nat], PendingOK', faults' \in Nat, started' \subseteq Reqs,
           UNCHANGED sendUnchanged
    PROVE  Groups'
<1>1. /\ NodesOK' /\ ConnsOK' /\ BuildsOK' /\ PathsOK' /\ RefreshOK' /\ FlagsOK'
      /\ expiries' = expiries /\ suspends' = suspends
  BY Kept, Zenon DEF Groups, sendUnchanged
<1> QED
  BY <1>1 DEF Groups, BoundsOK, CallsOK, TasksOK, MsgsOK, OnConnection, Sent

LEMMA CallOnLoopTypes ==
    ASSUME Groups, NEW r \in Reqs, CallOnLoop(r)
    PROVE  Groups'
<1>1. Message(r, Dest[r], None) \in Msg
  BY NewMessage, CallsAssumption DEF Tokens
<1>2. /\ started' \subseteq Reqs /\ SendOnLoop(Message(r, Dest[r], None), msgs, tasks)
      /\ UNCHANGED sendUnchanged
  BY DEF CallOnLoop, Groups, CallsOK
<1>3. msgs \in SUBSET Msg /\ Sent(msgs) /\ tasks \in SUBSET Task
  BY DEF Groups, MsgsOK, OnConnection, Sent, TasksOK
<1>4. /\ msgs' \subseteq Msg /\ Sent(msgs') /\ tasks' \subseteq Task
      /\ called' \in [Reqs -> Nat] /\ PendingOK' /\ faults' \in Nat
  BY <1>1, <1>2, <1>3, SendTypes DEF Groups
<1> QED
  BY <1>2, <1>4, SendGroups

LEMMA RunScheduledTypes ==
    ASSUME Groups, NEW m \in msgs, RunScheduled(m)
    PROVE  Groups'
<1>1. m \in Msg /\ msgs \ {m} \in SUBSET Msg /\ Sent(msgs \ {m}) /\ tasks \in SUBSET Task
  BY DEF Groups, MsgsOK, OnConnection, Sent, TasksOK
<1>2. /\ started' \subseteq Reqs /\ SendOnLoop(m, msgs \ {m}, tasks)
      /\ UNCHANGED sendUnchanged
  BY DEF RunScheduled, Groups, CallsOK
<1>3. /\ msgs' \subseteq Msg /\ Sent(msgs') /\ tasks' \subseteq Task
      /\ called' \in [Reqs -> Nat] /\ PendingOK' /\ faults' \in Nat
  BY <1>1, <1>2, SendTypes DEF Groups
<1> QED
  BY <1>2, <1>3, SendGroups

LEMMA CallTypes ==
    ASSUME Groups, NEW r \in Reqs, Call(r)
    PROVE  Groups'
<1> DEFINE m == Message(r, Dest[r], None)
           found == FindValidPath(m, PathsOf(TypeOf[r]))
<1>1. m \in Msg /\ m.at = "calling"
  BY NewMessage, CallsAssumption DEF Tokens
<1>2. /\ started' = started \cup {r}
      /\ tasks' = tasks \cup {Needed(m, TypeOf[r], found # {})}
      /\ \/ msgs' = msgs \cup {m}
         \/ \E p \in found : msgs' = msgs \cup {[m EXCEPT !.conn = p.conn]}
      /\ UNCHANGED <<called, pending_requests, faults, sendUnchanged>>
  BY Zenon DEF Call
<1>3. (found # {}) \in BOOLEAN
  OBVIOUS
<1>4. Needed(m, TypeOf[r], found # {}) \in Task
  BY <1>1, <1>3, FlaggedTasks, CallsAssumption
<1>5. tasks' \subseteq Task
  BY <1>2, <1>4 DEF Groups, TasksOK
<1>6. \A p \in found : p.conn \in Conns
  BY FoundPaths DEF PathsOf, Groups
<1>7. \A c \in Conns : [m EXCEPT !.conn = c] \in Msg /\ [m EXCEPT !.conn = c].at = "calling"
  <2>1. \A c \in Conns : [m EXCEPT !.conn = c] \in Msg
    BY <1>1, MsgUpdates
  <2>2. \A c \in Conns : [m EXCEPT !.conn = c].at = "calling"
    BY <1>1 DEF Msg
  <2> QED
    BY <2>1, <2>2
<1> HIDE DEF m, found
<1>8. msgs' \subseteq Msg /\ Sent(msgs')
  BY <1>1, <1>2, <1>6, <1>7 DEF Groups, MsgsOK, OnConnection, Sent
<1>9. /\ called' \in [Reqs -> Nat] /\ PendingOK' /\ faults' \in Nat /\ started' \subseteq Reqs
      /\ UNCHANGED sendUnchanged
  BY <1>2 DEF Groups, CallsOK, PendingOK, BoundsOK
<1> QED
  BY <1>5, <1>8, <1>9, SendGroups

LEMMA ProceedTypes ==
    ASSUME Groups, NEW m \in msgs, Proceed(m)
    PROVE  Groups'
<1>1. m \in Msg /\ msgs \subseteq Msg /\ Sent(msgs) /\ tasks \subseteq Task
  BY DEF Groups, MsgsOK, OnConnection, Sent, TasksOK
<1>2. /\ PendingOK' /\ faults' \in Nat /\ started' \subseteq Reqs /\ UNCHANGED sendUnchanged
  BY DEF Proceed, Groups, CallsOK, PendingOK, BoundsOK
<1>3. SUFFICES /\ msgs' \subseteq Msg /\ Sent(msgs') /\ tasks' \subseteq Task
               /\ called' \in [Reqs -> Nat]
  BY <1>2, SendGroups
<1>4. CASE /\ msgs' = (msgs \ {m}) \cup {[m EXCEPT !.at = "queued"]}
           /\ tasks' = tasks \cup (IF IsTimed(m) THEN {Check(FALSE)} ELSE {})
           /\ UNCHANGED called
  <2>1. [m EXCEPT !.at = "queued"] \in Msg
    BY <1>1, MsgUpdates DEF Spots
  <2>2. [m EXCEPT !.at = "queued"].at = "queued"
    BY <1>1 DEF Msg
  <2>3. Check(FALSE) \in Task
    BY FlaggedTasks
  <2> QED
    BY <1>1, <1>4, <2>1, <2>2, <2>3 DEF Sent, Groups, CallsOK
<1>5. CASE CallBack({m}) /\ msgs' = msgs \ {m} /\ UNCHANGED tasks
  BY <1>1, <1>5, CallBackTypes DEF Sent, Groups
<1>6. CASE /\ m.conn # None
           /\ msgs' = (msgs \ {m}) \cup
                      {[m EXCEPT !.at = "loaded", !.load = pending_requests[m.conn]]}
           /\ UNCHANGED <<called, tasks>>
  <2> DEFINE n == [m EXCEPT !.at = "loaded", !.load = pending_requests[m.conn]]
  <2>1. m.conn \in Conns
    BY <1>1, <1>6 DEF Msg
  <2>2. pending_requests[m.conn] \in 0..(SizeSpace - 1)
    BY <2>1 DEF Groups, PendingOK
  <2>3. n \in Msg
    BY <1>1, <2>2, MsgUpdates DEF Spots
  <2>4. n.conn \in Conns
    BY <1>1, <2>1 DEF Msg
  <2> HIDE DEF n
  <2> QED
    BY <1>1, <1>6, <2>3, <2>4 DEF Sent, Groups, CallsOK, n
<1> QED
  BY <1>4, <1>5, <1>6, Zenon DEF Proceed

LEMMA StoreTypes ==
    ASSUME Groups, NEW m \in msgs, Store(m)
    PROVE  Groups'
<1> DEFINE n == [m EXCEPT !.at = "inflight", !.load = 0]
<1>1. /\ m \in Msg /\ msgs \subseteq Msg /\ Sent(msgs) /\ tasks \subseteq Task
      /\ m.conn \in Conns
  BY DEF Groups, MsgsOK, OnConnection, Sent, TasksOK, Store, At
<1>2. n \in Msg
  <2>1. 0 \in 0..(SizeSpace - 1) /\ "inflight" \in Spots
    BY NumbersAssumption DEF Spots
  <2> QED
    BY <1>1, <2>1, MsgUpdates
<1>3. n.conn \in Conns
  BY <1>1 DEF Msg
<1>4. (m.load + 1) % SizeSpace \in 0..(SizeSpace - 1)
  BY <1>1, Wraps DEF Msg
<1>5. PendingOK'
  BY <1>1, <1>4 DEF Store, Groups, PendingOK
<1> HIDE DEF n
<1>6. msgs' \subseteq Msg /\ Sent(msgs')
  BY <1>1, <1>2, <1>3 DEF Store, Sent, n
<1>7. /\ faults' \in Nat /\ started' \subseteq Reqs /\ called' \in [Reqs -> Nat]
      /\ tasks' \subseteq Task /\ UNCHANGED sendUnchanged
  BY <1>1 DEF Store, Groups, CallsOK, BoundsOK
<1> QED
  BY <1>5, <1>6, <1>7, SendGroups

LEMMA ExpireTypes ==
    ASSUME Groups, NEW m \in msgs, Expire(m)
    PROVE  Groups'
<1> DEFINE n == [m EXCEPT !.late = TRUE]
<1>1. m \in Msg /\ msgs \subseteq Msg /\ Sent(msgs) /\ tasks \subseteq Task
  BY DEF Groups, MsgsOK, OnConnection, Sent, TasksOK
<1>2. n \in Msg
  BY <1>1, MsgUpdates
<1>3. n.at = m.at /\ n.conn = m.conn
  BY <1>1 DEF Msg
<1> HIDE DEF n
<1>4. msgs' \subseteq Msg /\ Sent(msgs')
  BY <1>1, <1>2, <1>3 DEF Expire, Sent, n
<1>5. /\ faults' \in Nat /\ started' \subseteq Reqs /\ called' \in [Reqs -> Nat] /\ PendingOK'
      /\ tasks' \subseteq Task /\ UNCHANGED sendUnchanged
  BY <1>1 DEF Expire, Groups, CallsOK, BoundsOK, PendingOK
<1> QED
  BY <1>4, <1>5, SendGroups

LEMMA CheckTypes ==
    ASSUME Groups, NEW loop \in BOOLEAN, CheckTask(loop)
    PROVE  Groups'
<1>1. /\ NodesOK' /\ ConnsOK' /\ BuildsOK' /\ PathsOK' /\ PendingOK' /\ RefreshOK' /\ BoundsOK'
      /\ started' = started /\ suspended' = suspended
  BY Kept, Zenon DEF Groups, CheckTask, pathVars
<1>2. \A b : NextCheck(b) \subseteq Task
  BY FlaggedTasks DEF NextCheck
<1>3. tasks' \subseteq Task
  BY <1>2 DEF CheckTask, Groups, TasksOK
<1>4. msgs' \subseteq msgs
  BY DEF CheckTask
<1>5. called' \in [Reqs -> Nat]
  BY CallBackTypes DEF CheckTask, Groups, CallsOK
<1>6. timeout_loop' \in BOOLEAN
  BY Zenon DEF CheckTask, Groups, FlagsOK
<1>7. FlagsOK'
  BY <1>1, <1>6, Zenon DEF FlagsOK, Groups
<1> QED
  BY <1>1, <1>3, <1>4, <1>5, <1>7 DEF Groups, CallsOK, TasksOK, MsgsOK, OnConnection

(* What an answer changes.                                                 *)
AnswerOK ==
    /\ unused_nodes' \subseteq Nodes /\ snode_failures' \in [Nodes -> 0..(FailureSpace - 1)]
    /\ PathsOK' /\ msgs' \subseteq Msg /\ Sent(msgs') /\ tasks' \subseteq Task
    /\ called' \in [Reqs -> Nat]

LEMMA AnswerGroups ==
    ASSUME Groups, AnswerOK, PendingOK', faults' \in Nat, UNCHANGED answerUnchanged
    PROVE  Groups'
<1>1. /\ ConnsOK' /\ BuildsOK' /\ RefreshOK' /\ FlagsOK'
      /\ snode_cache' = snode_cache /\ seed_size' = seed_size /\ swarm_cache' = swarm_cache
      /\ started' = started /\ expiries' = expiries /\ suspends' = suspends
  BY Kept, Zenon DEF Groups, answerUnchanged
<1> QED
  BY <1>1 DEF AnswerOK, Groups, NodesOK, BoundsOK, CallsOK, TasksOK, MsgsOK, OnConnection, Sent

LEMMA AnsweredTypes ==
    ASSUME Groups, NEW m \in At("inflight")
    PROVE  m \in Msg /\ m \in msgs /\ m.conn \in Conns
           /\ Answered(m) \in [Conns -> 0..(SizeSpace - 1)]
<1>1. m \in Msg /\ m \in msgs /\ m.conn \in Conns
  BY DEF Groups, MsgsOK, OnConnection, At
<1>2. (pending_requests[m.conn] - 1) % SizeSpace \in 0..(SizeSpace - 1)
  BY <1>1, Wraps DEF Groups, PendingOK
<1> QED
  BY <1>1, <1>2 DEF Answered, Groups, PendingOK

LEMMA ClearedTypes ==
    ASSUME NEW m, NEW drops \in SUBSET Path, NEW inner
    PROVE  Cleared(m, drops, inner) \subseteq Path
  BY BusyTypes DEF Cleared

LEMMA EndsTypes ==
    ASSUME Groups, NEW m \in msgs, Ends(m)
    PROVE  msgs' \subseteq Msg /\ Sent(msgs') /\ tasks' \subseteq Task /\ called' \in [Reqs -> Nat]
<1>1. m \in Msg /\ msgs \subseteq Msg /\ Sent(msgs) /\ tasks \subseteq Task
  BY DEF Groups, MsgsOK, OnConnection, Sent, TasksOK
<1>2. Retry({m}) \subseteq Task
  BY <1>1, RetryTypes
<1> QED
  BY <1>1, <1>2, CallBackTypes DEF Ends, Groups, Sent

LEMMA AgainTypes ==
    ASSUME Groups, NEW m \in msgs, NEW n \in Msg, Again(m, n)
    PROVE  msgs' \subseteq Msg /\ Sent(msgs') /\ tasks' \subseteq Task /\ called' \in [Reqs -> Nat]
<1> DEFINE k == [n EXCEPT !.at = "scheduled", !.conn = None]
<1>1. msgs \subseteq Msg /\ Sent(msgs) /\ tasks \subseteq Task /\ called \in [Reqs -> Nat]
  BY DEF Groups, MsgsOK, OnConnection, Sent, TasksOK, CallsOK
<1>2. k \in Msg
  BY MsgUpdates DEF Spots
<1>3. k.at = "scheduled"
  BY DEF Msg
<1> HIDE DEF k
<1> QED
  BY <1>1, <1>2, <1>3 DEF Again, Sent, k

LEMMA NoPathTypes ==
    ASSUME Groups, NEW m, NEW inner, NoPathChange(m, inner)
    PROVE  /\ unused_nodes' \subseteq Nodes /\ snode_failures' \in [Nodes -> 0..(FailureSpace - 1)]
           /\ PathsOK'
  BY ClearedTypes DEF NoPathChange, Groups, PathsOK, NodesOK

LEMMA RepairTypes ==
    ASSUME Groups, NEW p \in Path, NEW bad, NEW new \in Nodes \cup {None}
    PROVE  /\ FailuresOf(p, bad, new) \in Nat
           /\ Repaired(p, bad, new) \in Path
           /\ NodeFailures(p, bad, new) \in [Nodes -> 0..(FailureSpace - 1)]
<1>1. FailuresOf(p, bad, new) \in Nat
  BY NumbersAssumption DEF Path, FailuresOf
<1>2. Repaired(p, bad, new) \in Path
  BY <1>1 DEF Path, Repaired
<1>3. NodeFailures(p, bad, new) \in [Nodes -> 0..(FailureSpace - 1)]
  <2> DEFINE known == [n \in Nodes |-> IF n = bad /\ bad \in NodesOf(p) THEN SnodeThreshold
                                       ELSE snode_failures[n]]
  <2>1. known \in [Nodes -> 0..(FailureSpace - 1)]
    BY NumbersAssumption DEF Groups, NodesOK
  <2>2. NodeFailures(p, bad, new) =
           IF Bumped(p, bad) /\ FailuresOf(p, bad, new) >= PathThreshold
           THEN [n \in Nodes |-> IF n = conns[p.conn].node THEN SnodeThreshold
                                 ELSE IF n \in NodesOf(Repaired(p, bad, new))
                                 THEN (known[n] + 1) % FailureSpace ELSE known[n]]
           ELSE known
    BY DEF NodeFailures
  <2> HIDE DEF known
  <2> QED
    BY <2>1, <2>2, NumbersAssumption
<1> QED
  BY <1>1, <1>2, <1>3

LEMMA BlameTypes ==
    ASSUME Groups, NEW m, NEW bad, NEW inner, Blame(m, bad, inner)
    PROVE  /\ unused_nodes' \subseteq Nodes /\ snode_failures' \in [Nodes -> 0..(FailureSpace - 1)]
           /\ PathsOK'
<1>1. CASE NoPathChange(m, inner)
  BY <1>1, NoPathTypes
<1>2. CASE \E p \in paths \cup paths_pending_drop, new \in unused_nodes \cup {None} :
              BlamePath(m, p, bad, new, inner)
  <2>1. PICK p \in paths \cup paths_pending_drop, new \in unused_nodes \cup {None} :
              BlamePath(m, p, bad, new, inner)
    BY <1>2
  <2>2. /\ p \in Path /\ new \in Nodes \cup {None} /\ unused_nodes \subseteq Nodes
        /\ paths \subseteq Path /\ paths_pending_drop \subseteq Path
    BY DEF Groups, PathsOK, NodesOK
  <2>3. /\ Repaired(p, bad, new) \in Path
        /\ NodeFailures(p, bad, new) \in [Nodes -> 0..(FailureSpace - 1)]
    BY <2>2, RepairTypes
  <2>4. Cleared(m, paths_pending_drop, inner) \subseteq Path
    BY <2>2, ClearedTypes
  <2>5. StillBusy(paths_pending_drop \cup {p}, Answered(m)) \subseteq Path
    BY <2>2, BusyTypes
  <2> QED
    BY <2>1, <2>2, <2>3, <2>4, <2>5 DEF BlamePath, PathsOK
<1> QED
  BY <1>1, <1>2 DEF Blame, PathsOf

LEMMA HandleErrorsTypes ==
    ASSUME Groups, NEW m \in At("inflight"), NEW status, NEW timeout, NEW bad, NEW inner,
           HandleErrors(m, status, timeout, bad, inner)
    PROVE  AnswerOK
<1>1. m \in Msg /\ m \in msgs
  BY AnsweredTypes
<1>2. CASE NoPathChange(m, inner) /\ Ends(m)
  BY <1>1, <1>2, NoPathTypes, EndsTypes DEF AnswerOK
<1>3. CASE Blame(m, bad, inner) /\ Ends(m)
  BY <1>1, <1>3, BlameTypes, EndsTypes DEF AnswerOK
<1>4. CASE /\ \E n \in Elsewhere(m) : Again(m, [m EXCEPT !.dest = n, !.retry = "redirect"])
           /\ NoPathChange(m, inner)
  <2>1. PICK n \in Elsewhere(m) : Again(m, [m EXCEPT !.dest = n, !.retry = "redirect"])
    BY <1>4
  <2>2. n \in Nodes
    BY DEF Elsewhere, Groups, NodesOK
  <2>3. [m EXCEPT !.dest = n, !.retry = "redirect"] \in Msg
    BY <1>1, <2>2, MsgUpdates DEF Retries
  <2> QED
    BY <1>1, <1>4, <2>1, <2>3, NoPathTypes, AgainTypes DEF AnswerOK
<1>5. CASE /\ Redirects(m, status)
           /\ msgs' = (msgs \ {m}) \cup {[m EXCEPT !.at = "after", !.conn = None]}
           /\ tasks' = tasks \cup {Refresh(m.req, None)}
           /\ NoPathChange(m, inner)
           /\ UNCHANGED called
  <2> DEFINE k == [m EXCEPT !.at = "after", !.conn = None]
  <2>1. k \in Msg
    BY <1>1, MsgUpdates DEF Spots
  <2>2. k.at = "after"
    BY <1>1 DEF Msg
  <2>3. Refresh(m.req, None) \in Task
    BY <1>5, TaskTypes, CallsAssumption DEF Redirects, Tokens
  <2>4. msgs \subseteq Msg /\ Sent(msgs) /\ tasks \subseteq Task /\ called \in [Reqs -> Nat]
    BY DEF Groups, MsgsOK, OnConnection, Sent, TasksOK, CallsOK
  <2> HIDE DEF k
  <2>5. msgs' \subseteq Msg /\ Sent(msgs') /\ tasks' \subseteq Task /\ called' \in [Reqs -> Nat]
    BY <1>5, <2>1, <2>2, <2>3, <2>4 DEF Sent, k
  <2> QED
    BY <1>5, <2>5, NoPathTypes DEF AnswerOK
<1> QED
  BY <1>2, <1>3, <1>4, <1>5 DEF HandleErrors

LEMMA CostTypes ==
    ASSUME BoundsOK, NEW m, Costs(m)
    PROVE  faults' \in Nat
  BY DEF BoundsOK, Costs

LEMMA RepliesTypes ==
    ASSUME Groups, NEW m, NEW codes, Replies(m, codes)
    PROVE  Groups'
<1>1. m \in At("inflight") /\ UNCHANGED answerUnchanged
  BY DEF Replies
<1>2. m \in msgs /\ PendingOK'
  BY <1>1, AnsweredTypes DEF Replies, PendingOK
<1>3. AnswerOK
  BY <1>1, <1>2, NoPathTypes, EndsTypes, HandleErrorsTypes DEF Replies, AnswerOK
<1>4. faults' \in Nat
  BY CostTypes DEF Replies, Groups, BoundsOK
<1> QED
  BY <1>1, <1>2, <1>3, <1>4, AnswerGroups

LEMMA FailsTypes ==
    ASSUME Groups, NEW m, NEW status, NEW timeout, NEW bad, Fails(m, status, timeout, bad)
    PROVE  Groups'
<1>1. /\ m \in At("inflight") /\ UNCHANGED answerUnchanged /\ Costs(m)
      /\ HandleErrors(m, status, timeout, bad, FALSE)
  BY DEF Fails
<1>2. PendingOK'
  BY <1>1, AnsweredTypes DEF Fails, PendingOK
<1>3. AnswerOK /\ faults' \in Nat
  BY <1>1, HandleErrorsTypes, CostTypes DEF Groups
<1> QED
  BY <1>1, <1>2, <1>3, AnswerGroups

LEMMA UndecipherableTypes ==
    ASSUME Groups, NEW m, Undecipherable(m)
    PROVE  Groups'
<1>1. m \in At("inflight") /\ UNCHANGED answerUnchanged /\ Costs(m)
  BY DEF Undecipherable
<1>2. m \in Msg /\ m \in msgs /\ PendingOK'
  BY <1>1, AnsweredTypes DEF Undecipherable, PendingOK
<1>3. [m EXCEPT !.retry = "decryption_failure"] \in Msg
  BY <1>2, MsgUpdates DEF Retries
<1>4. AnswerOK
  BY <1>1, <1>2, <1>3, AgainTypes, NoPathTypes, HandleErrorsTypes DEF Undecipherable, AnswerOK
<1>5. faults' \in Nat
  BY <1>1, CostTypes DEF Groups
<1> QED
  BY <1>1, <1>2, <1>4, <1>5, AnswerGroups

LEMMA GarbledTypes ==
    ASSUME Groups, NEW m, ProbeGarbled(m)
    PROVE  Groups'
<1>1. m \in At("inflight") /\ UNCHANGED answerUnchanged /\ Costs(m)
  BY DEF ProbeGarbled
<1>2. m \in msgs /\ PendingOK'
  BY <1>1, AnsweredTypes DEF ProbeGarbled, PendingOK
<1>3. AnswerOK
  BY <1>1, <1>2, NoPathTypes, EndsTypes DEF ProbeGarbled, AnswerOK
<1>4. faults' \in Nat
  BY <1>1, CostTypes DEF Groups
<1> QED
  BY <1>1, <1>2, <1>3, <1>4, AnswerGroups

LEMMA ProbeAnswersTypes ==
    ASSUME Groups, NEW m, NEW A \in Answers, ProbeAnswers(m, A)
    PROVE  Groups'
<1> DEFINE got == [n |-> refresh_results.n + 1, nodes |-> refresh_results.nodes \cap A,
                   empty |-> refresh_results.empty \/ A = {}]
           others == msgs \ {m}
<1>1. m \in At("inflight")
  BY DEF ProbeAnswers
<1>2. PendingOK'
  BY <1>1, AnsweredTypes DEF ProbeAnswers, PendingOK
<1>3. PathsOK'
  BY ClearedTypes DEF ProbeAnswers, Groups, PathsOK
<1>4. /\ ConnsOK' /\ FlagsOK' /\ BoundsOK' /\ CallsOK'
      /\ unused_nodes' = unused_nodes /\ seed_size' = seed_size
  BY Kept, Zenon DEF ProbeAnswers, Groups
<1>5. others \in SUBSET Msg /\ Sent(others)
  BY DEF Groups, MsgsOK, OnConnection, Sent
<1>6. got.n \in Nat /\ got.nodes \in SUBSET Nodes
  BY DEF Groups, RefreshOK
<1>7. CASE /\ RefreshOK' /\ msgs' = others
           /\ UNCHANGED <<snode_cache, snode_failures, swarm_cache, buildVars, tasks>>
  BY <1>2, <1>3, <1>4, <1>5, <1>7, Kept DEF Groups, NodesOK, MsgsOK, OnConnection, Sent
<1>8. CASE Complete(got.nodes, others)
  <2>1. /\ snode_cache' \subseteq Nodes /\ swarm_cache' \subseteq Nodes
        /\ snode_failures' \in [Nodes -> 0..(FailureSpace - 1)]
        /\ RefreshOK' /\ BuildsOK' /\ TasksOK' /\ msgs' \subseteq Msg /\ Sent(msgs')
    BY <1>5, <1>6, <1>8, CompleteTypes
  <2> QED
    BY <1>2, <1>3, <1>4, <2>1 DEF Groups, NodesOK, MsgsOK, OnConnection, Sent
<1>9. got \in [n : Nat, nodes : SUBSET Nodes, empty : BOOLEAN]
  BY DEF Groups, RefreshOK
<1>10. UNCHANGED refreshVars => RefreshOK'
  BY Kept DEF Groups
<1>11. refresh_results' = got /\ refresh_count' = refresh_count - 1 /\ UNCHANGED refresh_id
          => RefreshOK'
  <2> HIDE DEF got
  <2> QED
    BY <1>9 DEF Groups, RefreshOK
<1>12. refresh_id' = None /\ refresh_count' = 0 /\ refresh_results' = NoResults => RefreshOK'
  BY DEF RefreshOK, NoResults, Tokens
<1> QED
  BY <1>7, <1>8, <1>10, <1>11, <1>12, Zenon DEF ProbeAnswers

LEMMA CloseTypes ==
    ASSUME Groups, NEW suspend \in BOOLEAN, CloseConnections(suspend)
    PROVE  Groups'
<1>1. /\ NodesOK' /\ PendingOK'
      /\ timeout_loop' = timeout_loop /\ started' = started
      /\ faults' = faults /\ expiries' = expiries
  BY Kept, Zenon DEF CloseConnections, Groups
<1>2. suspended' \in BOOLEAN
  BY Zenon DEF CloseConnections
<1>3. FlagsOK'
  BY <1>1, <1>2, Zenon DEF FlagsOK, Groups
<1>4. ConnsOK'
  BY DEF CloseConnections, Groups, ConnsOK
<1>5. BuildsOK' /\ PathsOK'
  BY DEF CloseConnections, Groups, BuildsOK, PathsOK
<1>6. RefreshOK'
  BY DEF CloseConnections, Groups, RefreshOK, NoResults, Tokens
<1>7. msgs' \subseteq msgs
  BY DEF CloseConnections
<1>8. tasks' \subseteq Task
  <2>1. At("queued") \in SUBSET Msg
    BY DEF Groups, MsgsOK, At
  <2> QED
    BY <2>1, RetryTypes DEF CloseConnections, Groups, TasksOK
<1>9. called' \in [Reqs -> Nat]
  BY CallBackTypes DEF CloseConnections, Groups
<1>10. BoundsOK'
  BY <1>1 DEF CloseConnections, Groups, BoundsOK
<1> QED
  BY <1>1, <1>3, <1>4, <1>5, <1>6, <1>7, <1>8, <1>9, <1>10
     DEF Groups, CallsOK, TasksOK, MsgsOK, OnConnection

LEMMA ResumeTypes ==
    ASSUME Groups, Resume
    PROVE  Groups'
<1>1. FlagsOK'
  BY Zenon DEF Resume, Groups, FlagsOK
<1> QED
  BY <1>1, Kept, Zenon DEF Resume, Groups, pathVars, reqVars

LEMMA TypesInit == Init => Groups
<1> SUFFICES ASSUME Init PROVE Groups
  OBVIOUS
<1>1. NodesOK
  BY NodesAssumption, NumbersAssumption DEF Init, NodesOK
<1>2. ConnsOK /\ PathsOK
  BY DEF Init, ConnsOK, PathsOK
<1>3. PendingOK
  BY NumbersAssumption DEF Init, PendingOK
<1>4. BuildsOK
  BY CallsAssumption DEF Init, BuildsOK
<1>5. RefreshOK
  BY DEF Init, RefreshOK, NoResults, Tokens
<1>6. TasksOK
  <2>1. MinPathCount \in Nat /\ 1..MinPathCount \subseteq Ids
    BY NumbersAssumption DEF MinPathCount, Ids
  <2>2. \A i \in 1..MinPathCount : Build(i, Standard) \in Task
    BY <2>1, TaskTypes, CallsAssumption
  <2> QED
    BY <2>2 DEF Init, TasksOK
<1>7. FlagsOK
  BY Zenon DEF Init, FlagsOK
<1>8. MsgsOK /\ OnConnection /\ CallsOK /\ BoundsOK
  BY DEF Init, MsgsOK, OnConnection, CallsOK, BoundsOK
<1> QED
  BY <1>1, <1>2, <1>3, <1>4, <1>5, <1>6, <1>7, <1>8 DEF Groups

LEMMA TypesStep ==
    ASSUME Groups, [Next]_vars
    PROVE  Groups'
<1>1. CASE Application
  BY <1>1, CallLookupTypes, CallOnLoopTypes, CallTypes, CloseTypes, ResumeTypes DEF Application
<1>2. CASE Tasks
  <2>1. Ids \cup Reqs \subseteq Tokens
    BY DEF Tokens
  <2> QED
    BY <1>2, <2>1, BuildTaskTypes, NeededTaskTypes, RefreshTypes, EstablishTypes, SeedTaskTypes,
       CheckTypes, RunResumedTypes, RunScheduledTypes DEF Tasks
<1>3. CASE Remote
  BY <1>3, ConnectedTypes, SeedAnswersTypes, ProbeAnswersTypes, RepliesTypes DEF Remote
<1>4. CASE Failures
  BY <1>4, AttemptFailsTypes, ConnectionClosesTypes, UndecipherableTypes, GarbledTypes, FailsTypes
     DEF Failures
<1>5. CASE Threads
  BY <1>5, ProceedTypes, StoreTypes, ExpireTypes DEF Threads
<1>6. CASE UNCHANGED vars
  BY <1>6, Kept, Zenon DEF vars, Groups, pathVars, reqVars
<1> QED
  BY <1>1, <1>2, <1>3, <1>4, <1>5, <1>6 DEF Next

LEMMA GroupsAlways == Spec => []Groups
  BY TypesInit, TypesStep, PTL DEF Spec

(* Type correctness: among others, pending_requests, which wraps and which *)
(* two threads count without a lock, stays a size_t, every path is a list  *)
(* of known nodes, and every scheduled call has an id that was handed out. *)
THEOREM TypeCorrect == Spec => []TypeOK
  BY GroupsAlways, GroupsType, PTL

-----------------------------------------------------------------------------
(* Where a call is.  One(M, st, ca) is OnePlace of the messages M, the     *)
(* calls st and the callbacks ca.                                          *)
One(M, st, ca) ==
    /\ \A m, n \in M : m.req = n.req => m = n
    /\ \A r \in Reqs :
         /\ r \notin st => ca[r] = 0
         /\ ca[r] \in {0, 1}
         /\ r \in st /\ ca[r] = 0 <=> \E m \in M : m.req = r

LEMMA OneOnePlace == OnePlace <=> One(msgs, started, called)
  BY Zenon DEF OnePlace, One

(* m is replaced by n, a message of the same call.                         *)
LEMMA OneMoved ==
    ASSUME NEW M, NEW st, NEW ca, NEW m, NEW n, m \notin M, n.req = m.req, One(M \cup {m}, st, ca)
    PROVE  One(M \cup {n}, st, ca)
<1>1. \A k \in M : k.req # m.req
  BY DEF One
<1>2. ASSUME NEW r \in Reqs
      PROVE  (\E k \in M \cup {m} : k.req = r) <=> (\E k \in M \cup {n} : k.req = r)
  OBVIOUS
<1> QED
  BY <1>1, <1>2, Zenon DEF One

(* All messages of S, of M, are replaced by messages of the same calls.    *)
Shifted(M, S, s) == (M \ S) \cup {[m EXCEPT !.at = s] : m \in S}

LEMMA OneAllMoved ==
    ASSUME NEW M, NEW st, NEW ca, NEW S \in SUBSET M, M \subseteq Msg, NEW s, One(M, st, ca)
    PROVE  One(Shifted(M, S, s), st, ca)
<1> DEFINE N == Shifted(M, S, s)
<1> USE DEF Shifted
<1>1. \A m \in S : [m EXCEPT !.at = s].req = m.req
  BY DEF Msg
<1>2. ASSUME NEW r \in Reqs
      PROVE  (\E k \in M : k.req = r) <=> (\E k \in N : k.req = r)
  BY <1>1
<1>3. ASSUME NEW a \in N, NEW b \in N, a.req = b.req
      PROVE  a = b
  <2>1. \A k \in N : k \in M \ S \/ \E m \in S : k = [m EXCEPT !.at = s] /\ k.req = m.req
    BY <1>1
  <2>2. CASE a \in M \ S /\ b \in M \ S
    BY <1>3, <2>2 DEF One
  <2>3. CASE a \in M \ S /\ b \notin M \ S
    BY <1>3, <2>1, <2>3 DEF One
  <2>4. CASE a \notin M \ S /\ b \in M \ S
    BY <1>3, <2>1, <2>4 DEF One
  <2>5. CASE a \notin M \ S /\ b \notin M \ S
    BY <1>3, <2>1, <2>5 DEF One
  <2> QED
    BY <2>2, <2>3, <2>4, <2>5
<1> HIDE DEF N
<1>4. One(N, st, ca)
  BY <1>2, <1>3 DEF One
<1> QED
  BY <1>4 DEF N

(* The messages S are removed and their callbacks called.                  *)
LEMMA OneEnded ==
    ASSUME CallsOK, NEW M, NEW S, S \cap M = {}, NEW st, One(M \cup S, st, called), CallBack(S)
    PROVE  One(M, st, called')
<1>1. \A r \in Reqs : called'[r] = IF \E m \in S : m.req = r THEN called[r] + 1 ELSE called[r]
  BY DEF CallBack, CallsOK
<1>2. \A m, n \in M : m.req = n.req => m = n
  BY DEF One
<1>3. ASSUME NEW r \in Reqs, \E m \in S : m.req = r
      PROVE  /\ r \in st /\ called[r] = 0 /\ called'[r] = 1
             /\ ~\E m \in M : m.req = r
  <2>1. r \in st /\ called[r] = 0
    BY <1>3 DEF One
  <2>2. ~\E m \in M : m.req = r
    BY <1>3 DEF One
  <2> QED
    BY <1>1, <1>3, <2>1, <2>2
<1>4. ASSUME NEW r \in Reqs, ~\E m \in S : m.req = r
      PROVE  /\ called'[r] = called[r]
             /\ (\E m \in M : m.req = r) <=> (\E m \in M \cup S : m.req = r)
  BY <1>1, <1>4
<1>5. ASSUME NEW r \in Reqs
      PROVE  /\ r \notin st => called'[r] = 0
             /\ called'[r] \in {0, 1}
             /\ r \in st /\ called'[r] = 0 <=> \E m \in M : m.req = r
  <2>1. CASE \E m \in S : m.req = r
    BY <1>3, <2>1
  <2>2. CASE ~\E m \in S : m.req = r
    BY <1>4, <2>2 DEF One
  <2> QED
    BY <2>1, <2>2
<1> QED
  BY <1>2, <1>5 DEF One

(* A new call; a new probe.                                                *)
LEMMA OneNewCall ==
    ASSUME NEW M, NEW st, NEW ca, NEW r \in Reqs, r \notin st, NEW m, m.req = r, One(M, st, ca)
    PROVE  m \notin M /\ One(M \cup {m}, st \cup {r}, ca)
  BY DEF One

LEMMA OneNewProbe ==
    ASSUME NEW M, NEW st, NEW ca, NEW m, m.req \notin Reqs, \A n \in M : n.req # m.req,
           One(M, st, ca)
    PROVE  m \notin M /\ One(M \cup {m}, st, ca)
  BY DEF One

LEMMA SameCall ==
    ASSUME NEW m \in Msg
    PROVE  /\ \A s : [m EXCEPT !.at = s].req = m.req
           /\ \A c : [m EXCEPT !.conn = c].req = m.req
           /\ \A s, c : [m EXCEPT !.at = s, !.conn = c].req = m.req
           /\ \A s, d, r : [m EXCEPT !.at = s, !.dest = d, !.retry = r].req = m.req
           /\ \A d, r : [m EXCEPT !.dest = d, !.retry = r].req = m.req
           /\ \A r : [m EXCEPT !.retry = r].req = m.req
           /\ \A l : [m EXCEPT !.late = l].req = m.req
           /\ \A s, l : [m EXCEPT !.at = s, !.load = l].req = m.req
  BY DEF Msg

(* The message m becomes n, or is removed with its callback.               *)
LEMMA BecomesOne ==
    ASSUME NEW m, NEW n, n.req = m.req, NEW others, NEW st, m \notin others,
           One(others \cup {m}, st, called), msgs' = others \cup {n}, called' = called
    PROVE  One(msgs', st, called')
<1>1. One(others \cup {n}, st, called)
  BY OneMoved
<1> QED
  BY <1>1

LEMMA RemovedOne ==
    ASSUME CallsOK, NEW m, NEW others, NEW st, m \notin others,
           One(others \cup {m}, st, called), CallBack({m}), msgs' = others
    PROVE  One(msgs', st, called')
<1>1. One(others, st, called')
  <2>1. {m} \cap others = {}
    OBVIOUS
  <2> QED
    BY <2>1, OneEnded
<1> QED
  BY <1>1

LEMMA SendOne ==
    ASSUME CallsOK, NEW m \in Msg, NEW others, NEW rest, NEW st, m \notin others,
           One(others \cup {m}, st, called), SendOnLoop(m, others, rest)
    PROVE  One(msgs', st, called')
<1> DEFINE queued == [m EXCEPT !.at = "queued"]
           sent(c) == [m EXCEPT !.at = "inflight", !.conn = c]
<1>1. CASE msgs' = others \cup {queued} /\ called' = called
  <2>1. queued.req = m.req
    BY SameCall
  <2> HIDE DEF queued
  <2> QED
    BY <1>1, <2>1, BecomesOne
<1>2. CASE CallBack({m}) /\ msgs' = others
  BY <1>2, RemovedOne
<1>3. ASSUME NEW c, msgs' = others \cup {sent(c)}, called' = called
      PROVE  One(msgs', st, called')
  <2>1. sent(c).req = m.req
    BY SameCall
  <2> HIDE DEF sent
  <2> QED
    BY <1>3, <2>1, BecomesOne
<1> QED
  BY <1>1, <1>2, <1>3, Zenon DEF SendOnLoop

LEMMA WaitOne ==
    ASSUME NEW m \in Msg, NEW others, NEW st, m \notin others,
           One(others \cup {m}, st, called), WaitForRefresh(m, others)
    PROVE  One(msgs', st, called')
<1> DEFINE n == [m EXCEPT !.at = "after", !.conn = None]
<1>1. n.req = m.req
  BY SameCall
<1>2. msgs' = others \cup {n} /\ called' = called
  BY DEF WaitForRefresh
<1> HIDE DEF n
<1> QED
  BY <1>1, <1>2, BecomesOne

LEMMA GotSwarmOne ==
    ASSUME CallsOK, NEW m \in Msg, NEW others, NEW S, NEW st, m \notin others,
           One(others \cup {m}, st, called), GotSwarm(m, S, others)
    PROVE  One(msgs', st, called')
<1> DEFINE sent(n) == [m EXCEPT !.at = "scheduled", !.dest = n, !.retry = "redirect_swarm_refresh"]
<1>1. ASSUME NEW n, msgs' = others \cup {sent(n)}, called' = called
      PROVE  One(msgs', st, called')
  <2>1. sent(n).req = m.req
    BY SameCall
  <2> HIDE DEF sent
  <2> QED
    BY <1>1, <2>1, BecomesOne
<1>2. CASE CallBack({m}) /\ msgs' = others
  BY <1>2, RemovedOne
<1> QED
  BY <1>1, <1>2, Zenon DEF GotSwarm

LEMMA LookupOne ==
    ASSUME CallsOK, NEW m \in Msg, NEW others, NEW st, m \notin others,
           One(others \cup {m}, st, called), Lookup(m, others)
    PROVE  One(msgs', st, called')
<1>1. CASE GetRandomNodes(m, others)
  <2>1. CASE WaitForRefresh(m, others)
    BY <2>1, WaitOne
  <2>2. CASE CallBack({m}) /\ msgs' = others
    BY <2>2, OneEnded
  <2> QED
    BY <1>1, <2>1, <2>2 DEF GetRandomNodes
<1>2. CASE GetSwarm(m, others)
  BY <1>2, WaitOne, GotSwarmOne DEF GetSwarm
<1> QED
  BY <1>1, <1>2 DEF Lookup

LEMMA EndsOne ==
    ASSUME CallsOK, NEW m \in msgs, OnePlace, UNCHANGED started,
           CallBack({m}), msgs' = msgs \ {m}
    PROVE  OnePlace'
<1>1. (msgs \ {m}) \cup {m} = msgs
  OBVIOUS
<1>2. One(msgs \ {m}, started, called')
  BY <1>1, OneOnePlace, OneEnded
<1> QED
  BY <1>2, Zenon DEF One, OnePlace

LEMMA MovesOne ==
    ASSUME NEW m \in msgs, NEW n, n.req = m.req, OnePlace, UNCHANGED <<started, called>>,
           msgs' = (msgs \ {m}) \cup {n}
    PROVE  OnePlace'
<1>1. (msgs \ {m}) \cup {m} = msgs
  OBVIOUS
<1>2. One((msgs \ {m}) \cup {n}, started, called)
  BY <1>1, OneOnePlace, OneMoved
<1> QED
  BY <1>2, Zenon DEF One, OnePlace

LEMMA AllMoveOne ==
    ASSUME Groups, OnePlace, NEW S \in SUBSET msgs, NEW s, UNCHANGED <<started, called>>,
           msgs' = (msgs \ S) \cup {[m EXCEPT !.at = s] : m \in S}
    PROVE  OnePlace'
<1>1. msgs \subseteq Msg
  BY DEF Groups, MsgsOK
<1>2. One(msgs, started, called)
  BY OneOnePlace
<1>3. One(Shifted(msgs, S, s), started, called)
  BY <1>1, <1>2, OneAllMoved
<1>4. msgs' = Shifted(msgs, S, s)
  BY Zenon DEF Shifted
<1> QED
  BY <1>3, <1>4, Zenon DEF One, OnePlace

(* A set of messages ends.                                                 *)
LEMMA AllEndOne ==
    ASSUME CallsOK, OnePlace, NEW S \in SUBSET msgs, UNCHANGED started,
           CallBack(S), msgs' = msgs \ S
    PROVE  OnePlace'
<1>1. (msgs \ S) \cup S = msgs
  OBVIOUS
<1>2. One(msgs \ S, started, called')
  BY <1>1, OneOnePlace, OneEnded
<1> QED
  BY <1>2, Zenon DEF One, OnePlace

LEMMA SameOne == OnePlace /\ UNCHANGED reqVars => OnePlace'
  BY Zenon DEF OnePlace, reqVars

LEMMA StorePathOne ==
    ASSUME Groups, OnePlace, NEW id, NEW t, NEW c, NEW others, NEW rest,
           StorePath(id, t, c, others, rest), UNCHANGED <<started, called>>
    PROVE  OnePlace'
<1> DEFINE path == [conn |-> c, type |-> t, others |-> others, failures |-> 0]
           queued == {m \in At("queued") : PathTypeOf(m) = t}
           ready == {m \in queued : FindValidPath(m, {path}) # {}}
<1>1. msgs' = (msgs \ ready) \cup {[m EXCEPT !.at = "scheduled"] : m \in ready}
  BY Zenon DEF StorePath
<1>2. ready \in SUBSET msgs
  BY DEF At
<1> HIDE DEF ready
<1> QED
  BY <1>1, <1>2, AllMoveOne

LEMMA BuildPathOne ==
    ASSUME Groups, OnePlace, NEW id, NEW t, NEW rest, BuildPath(id, t, rest)
    PROVE  OnePlace'
<1>1. UNCHANGED <<started, called>>
  BY Zenon DEF BuildPath
<1>2. CASE UNCHANGED msgs
  BY <1>1, <1>2, SameOne DEF reqVars
<1>3. CASE \E c, others : StorePath(id, t, c, others, rest)
  BY <1>1, <1>3, StorePathOne
<1> QED
  BY <1>2, <1>3, Zenon DEF BuildPath, EnqueueBuild

LEMMA CompleteOne ==
    ASSUME Groups, OnePlace, NEW A, Complete(A, msgs), UNCHANGED <<started, called>>
    PROVE  OnePlace'
<1> DEFINE waiting == {m \in msgs : m.at = "after"}
<1>1. msgs' = (msgs \ waiting) \cup {[m EXCEPT !.at = "resumed"] : m \in waiting}
  BY Zenon DEF Complete
<1>2. waiting \in SUBSET msgs
  OBVIOUS
<1> HIDE DEF waiting
<1> QED
  BY <1>1, <1>2, AllMoveOne

(* Nothing of a call changes.                                              *)
LEMMA QuietOne ==
    ASSUME Groups, OnePlace,
           \/ \E i \in Ids : EstablishTask(i)
           \/ \E i \in Ids \cup Reqs : SeedTask(i)
           \/ \E a \in attempts : Connected(a)
           \/ \E a \in attempts, t \in BOOLEAN : AttemptFails(a, t)
           \/ \E c \in Conns : ConnectionCloses(c)
           \/ Resume \/ UNCHANGED vars
    PROVE  OnePlace'
<1>1. UNCHANGED reqVars
  BY Zenon DEF EstablishTask, SeedTask, Connected, AttemptFails, ConnectionCloses, Resume, vars
<1> QED
  BY <1>1, SameOne

LEMMA BuildOne ==
    ASSUME Groups, OnePlace,
           \/ \E i \in Ids, t \in PathTypes : BuildTask(i, t)
           \/ \E t \in tasks : NeededTask(t)
    PROVE  OnePlace'
<1>1. CASE \E i, t, rest : BuildPath(i, t, rest)
  BY <1>1, BuildPathOne
<1>2. CASE UNCHANGED reqVars
  BY <1>2, SameOne
<1> QED
  BY <1>1, <1>2, Zenon DEF BuildTask, NeededTask

LEMMA StateOne ==
    ASSUME One(msgs', started', called')
    PROVE  OnePlace'
  BY Zenon DEF One, OnePlace

LEMMA CallLookupOne ==
    ASSUME Groups, OnePlace, NEW r \in Reqs, CallLookup(r)
    PROVE  OnePlace'
<1> DEFINE m == Message(r, None, None)
<1>1. m \in Msg /\ m.req = r
  BY NewMessage DEF Tokens
<1>2. r \notin started /\ started' = started \cup {r} /\ Lookup(m, msgs)
  BY Zenon DEF CallLookup
<1> HIDE DEF m
<1>3. m \notin msgs /\ One(msgs \cup {m}, started \cup {r}, called)
  BY <1>1, <1>2, OneOnePlace, OneNewCall
<1>4. One(msgs', started \cup {r}, called')
  BY <1>1, <1>2, <1>3, LookupOne DEF Groups
<1> QED
  BY <1>2, <1>4, StateOne

LEMMA CallOnLoopOne ==
    ASSUME Groups, OnePlace, NEW r \in Reqs, CallOnLoop(r)
    PROVE  OnePlace'
<1> DEFINE m == Message(r, Dest[r], None)
<1>1. m \in Msg /\ m.req = r
  BY NewMessage, CallsAssumption DEF Tokens
<1>2. r \notin started /\ started' = started \cup {r} /\ SendOnLoop(m, msgs, tasks)
  BY Zenon DEF CallOnLoop
<1> HIDE DEF m
<1>3. m \notin msgs /\ One(msgs \cup {m}, started \cup {r}, called)
  BY <1>1, <1>2, OneOnePlace, OneNewCall
<1>4. One(msgs', started \cup {r}, called')
  BY <1>1, <1>2, <1>3, SendOne DEF Groups
<1> QED
  BY <1>2, <1>4, StateOne

LEMMA CallOne ==
    ASSUME Groups, OnePlace, NEW r \in Reqs, Call(r)
    PROVE  OnePlace'
<1> DEFINE m == Message(r, Dest[r], None)
<1>1. m \in Msg /\ m.req = r
  BY NewMessage, CallsAssumption DEF Tokens
<1>2. /\ r \notin started /\ started' = started \cup {r} /\ called' = called
      /\ msgs' = msgs \cup {m} \/ \E c : msgs' = msgs \cup {[m EXCEPT !.conn = c]}
  BY Zenon DEF Call
<1>3. PICK n : n.req = r /\ msgs' = msgs \cup {n}
  BY <1>1, <1>2, SameCall, Zenon
<1>4. One(msgs \cup {n}, started \cup {r}, called)
  BY <1>2, <1>3, OneOnePlace, OneNewCall
<1> QED
  BY <1>2, <1>3, <1>4, StateOne

LEMMA TakenOut ==
    ASSUME OnePlace, NEW m \in msgs
    PROVE  m \notin msgs \ {m} /\ One((msgs \ {m}) \cup {m}, started, called)
<1>1. (msgs \ {m}) \cup {m} = msgs
  OBVIOUS
<1> QED
  BY <1>1, OneOnePlace

LEMMA RunOne ==
    ASSUME Groups, OnePlace, NEW m \in msgs, RunResumed(m) \/ RunScheduled(m)
    PROVE  OnePlace'
<1>1. m \in Msg /\ CallsOK
  BY DEF Groups, MsgsOK
<1>2. m \notin msgs \ {m} /\ One((msgs \ {m}) \cup {m}, started, called)
  BY TakenOut
<1>3. started' = started
  BY Zenon DEF RunResumed, RunScheduled
<1>4. CASE RunResumed(m)
  <2>1. Lookup(m, msgs \ {m})
    BY <1>4, Zenon DEF RunResumed
  <2>2. One(msgs', started, called')
    BY <1>1, <1>2, <2>1, LookupOne
  <2> QED
    BY <1>3, <2>2, StateOne
<1>5. CASE RunScheduled(m)
  <2>1. SendOnLoop(m, msgs \ {m}, tasks)
    BY <1>5, Zenon DEF RunScheduled
  <2>2. One(msgs', started, called')
    BY <1>1, <1>2, <2>1, SendOne
  <2> QED
    BY <1>3, <2>2, StateOne
<1> QED
  BY <1>4, <1>5

LEMMA RefreshOne ==
    ASSUME Groups, OnePlace, NEW task \in tasks, RefreshTask(task)
    PROVE  OnePlace'
<1> DEFINE nodes == UnusedFor(MinSnodeCacheSize)
           probe(n) == Message(Least(FreeProbes), n, task.id)
<1>1. task.id \in Tokens
  BY TaskFields DEF Groups, TasksOK, RefreshTask
<1>2. started' = started
  BY Zenon DEF RefreshTask
<1>3. CASE UNCHANGED <<msgs, called>>
  BY <1>2, <1>3, SameOne DEF reqVars
<1>4. ASSUME FreeProbes # {}, NEW n \in nodes, NEW rest, SendOnLoop(probe(n), msgs, rest)
      PROVE  OnePlace'
  <2> DEFINE m == probe(n)
  <2>1. nodes \subseteq Nodes
    BY SomeNodes DEF Groups
  <2>2. m \in Msg /\ m.req = Least(FreeProbes)
    BY <1>1, <1>4, <2>1, FreeProbe, NewMessage
  <2>3. m.req \notin Reqs /\ \A k \in msgs : k.req # m.req
    BY <1>4, <2>2, FreeProbe, CallsAssumption DEF FreeProbes
  <2>4. SendOnLoop(m, msgs, rest)
    BY <1>4
  <2> HIDE DEF m
  <2>5. m \notin msgs /\ One(msgs \cup {m}, started, called)
    BY <2>3, OneOnePlace, OneNewProbe
  <2>6. One(msgs', started, called')
    BY <2>2, <2>4, <2>5, SendOne DEF Groups
  <2> QED
    BY <1>2, <2>6, StateOne
<1> QED
  BY <1>3, <1>4, Zenon DEF RefreshTask

LEMMA SeedAnswersOne ==
    ASSUME Groups, OnePlace, NEW a \in attempts, NEW A \in Answers, SeedAnswers(a, A)
    PROVE  OnePlace'
<1>1. UNCHANGED <<started, called>>
  BY Zenon DEF SeedAnswers
<1>2. CASE UNCHANGED msgs
  BY <1>1, <1>2, SameOne DEF reqVars
<1>3. CASE Complete(A, msgs)
  BY <1>1, <1>3, CompleteOne
<1> QED
  BY <1>2, <1>3, Zenon DEF SeedAnswers

(* The answer to a probe, which is no call of the application.             *)
LEMMA ProbeAnswersOne ==
    ASSUME Groups, OnePlace, NEW m \in msgs, NEW A \in Answers, ProbeAnswers(m, A)
    PROVE  OnePlace'
<1> DEFINE others == msgs \ {m}
           waiting == {n \in others : n.at = "after"}
<1>1. started' = started /\ called' = called
  BY Zenon DEF ProbeAnswers
<1>2. m.req \notin Reqs
  BY CallsAssumption DEF ProbeAnswers
<1>3. One(msgs, started, called)
  BY OneOnePlace
<1>4. One(others, started, called)
  BY <1>2, <1>3 DEF One
<1>5. others \subseteq Msg /\ waiting \in SUBSET others
  BY DEF Groups, MsgsOK
<1>6. CASE msgs' = others
  BY <1>1, <1>4, <1>6, StateOne
<1>7. CASE msgs' = Shifted(others, waiting, "resumed")
  <2> HIDE DEF others, waiting
  <2>1. One(Shifted(others, waiting, "resumed"), started, called)
    BY <1>4, <1>5, OneAllMoved
  <2> QED
    BY <1>1, <1>7, <2>1, StateOne
<1> QED
  BY <1>6, <1>7, Zenon DEF ProbeAnswers, Complete, Shifted

(* The application's thread and time.                                      *)
LEMMA ThreadsOne ==
    ASSUME Groups, OnePlace, NEW m \in msgs, Proceed(m) \/ Store(m) \/ Expire(m)
    PROVE  OnePlace'
<1>1. m \in Msg /\ CallsOK
  BY DEF Groups, MsgsOK
<1>2. started' = started
  BY Zenon DEF Proceed, Store, Expire
<1>3. CASE CallBack({m}) /\ msgs' = msgs \ {m}
  BY <1>1, <1>2, <1>3, EndsOne
<1>4. ASSUME NEW n, n.req = m.req, called' = called, msgs' = (msgs \ {m}) \cup {n}
      PROVE  OnePlace'
  BY <1>2, <1>4, MovesOne
<1>5. CASE Proceed(m)
  <2>1. CASE called' = called /\ msgs' = (msgs \ {m}) \cup {[m EXCEPT !.at = "queued"]}
    BY <1>1, <1>4, <2>1, SameCall
  <2>2. CASE /\ called' = called
             /\ msgs' = (msgs \ {m}) \cup {[m EXCEPT !.at = "loaded", !.load = pending_requests[m.conn]]}
    <3> DEFINE n == [m EXCEPT !.at = "loaded", !.load = pending_requests[m.conn]]
    <3>1. n.req = m.req /\ msgs' = (msgs \ {m}) \cup {n}
      BY <1>1, <2>2, SameCall
    <3> HIDE DEF n
    <3> QED
      BY <1>4, <2>2, <3>1
  <2> QED
    BY <1>3, <1>5, <2>1, <2>2, Zenon DEF Proceed
<1>6. CASE Store(m)
  <2> DEFINE n == [m EXCEPT !.at = "inflight", !.load = 0]
  <2>1. called' = called /\ msgs' = (msgs \ {m}) \cup {n}
    BY <1>6, Zenon DEF Store
  <2>2. n.req = m.req
    BY <1>1, SameCall
  <2> HIDE DEF n
  <2> QED
    BY <1>4, <2>1, <2>2
<1>7. CASE Expire(m)
  <2>1. called' = called /\ msgs' = (msgs \ {m}) \cup {[m EXCEPT !.late = TRUE]}
    BY <1>7, Zenon DEF Expire
  <2> QED
    BY <1>1, <1>4, <2>1, SameCall
<1> QED
  BY <1>5, <1>6, <1>7

(* Several callbacks in one step.                                          *)
LEMMA SweepOne ==
    ASSUME Groups, OnePlace,
           (\E l \in BOOLEAN : CheckTask(l)) \/ (\E s \in BOOLEAN : CloseConnections(s))
    PROVE  OnePlace'
<1> DEFINE queued == At("queued")
           over == {m \in {n \in queued : IsTimed(n)} : m.late}
<1>1. started' = started /\ CallsOK /\ queued \in SUBSET msgs /\ over \in SUBSET msgs
  BY Zenon DEF CheckTask, CloseConnections, Groups, At
<1>2. CASE UNCHANGED <<msgs, called>>
  BY <1>1, <1>2, SameOne DEF reqVars
<1>3. ASSUME NEW S \in SUBSET msgs, CallBack(S), msgs' = msgs \ S
      PROVE  OnePlace'
  BY <1>1, <1>3, AllEndOne
<1>4. \/ UNCHANGED <<msgs, called>>
      \/ CallBack(over) /\ msgs' = msgs \ over
      \/ CallBack(queued) /\ msgs' = msgs \ queued
  BY Zenon DEF CheckTask, CloseConnections
<1> HIDE DEF queued, over
<1> QED
  BY <1>1, <1>2, <1>3, <1>4

LEMMA HandleErrorsOne ==
    ASSUME Groups, OnePlace, NEW m \in msgs, UNCHANGED started,
           NEW status, NEW timeout, NEW bad, NEW inner,
           \/ HandleErrors(m, status, timeout, bad, inner)
           \/ Ends(m)
           \/ Again(m, [m EXCEPT !.retry = "decryption_failure"])
    PROVE  OnePlace'
<1>1. m \in Msg /\ CallsOK
  BY DEF Groups, MsgsOK
<1>2. CASE Ends(m)
  BY <1>1, <1>2, EndsOne DEF Ends
<1>3. ASSUME NEW n \in Msg, n.req = m.req, Again(m, n)
      PROVE  OnePlace'
  <2> DEFINE k == [n EXCEPT !.at = "scheduled", !.conn = None]
  <2>1. called' = called /\ msgs' = (msgs \ {m}) \cup {k}
    BY <1>3, Zenon DEF Again
  <2>2. k.req = m.req
    BY <1>3, SameCall
  <2> HIDE DEF k
  <2> QED
    BY <2>1, <2>2, MovesOne
<1>4. CASE /\ called' = called
           /\ msgs' = (msgs \ {m}) \cup {[m EXCEPT !.at = "after", !.conn = None]}
  <2> DEFINE k == [m EXCEPT !.at = "after", !.conn = None]
  <2>1. k.req = m.req /\ msgs' = (msgs \ {m}) \cup {k}
    BY <1>1, <1>4, SameCall
  <2> HIDE DEF k
  <2> QED
    BY <1>4, <2>1, MovesOne
<1>5. CASE Again(m, [m EXCEPT !.retry = "decryption_failure"])
  <2>1. [m EXCEPT !.retry = "decryption_failure"] \in Msg
    BY <1>1 DEF Msg, Retries
  <2> QED
    BY <1>1, <1>3, <1>5, <2>1, SameCall
<1>6. ASSUME NEW n \in Elsewhere(m), Again(m, [m EXCEPT !.dest = n, !.retry = "redirect"])
      PROVE  OnePlace'
  <2>1. n \in Nodes
    BY DEF Elsewhere, Groups, NodesOK
  <2> DEFINE k == [m EXCEPT !.dest = n, !.retry = "redirect"]
  <2>2. k \in Msg
    BY <1>1, <2>1 DEF Msg, Retries
  <2>3. k.req = m.req /\ Again(m, k)
    BY <1>1, <1>6, SameCall
  <2> HIDE DEF k
  <2> QED
    BY <1>3, <2>2, <2>3
<1> QED
  BY <1>2, <1>4, <1>5, <1>6, Zenon DEF HandleErrors

LEMMA AnswersOne ==
    ASSUME Groups, OnePlace, NEW m \in msgs,
           \/ \E b : Replies(m, b)
           \/ \E s, t, n : Fails(m, s, t, n)
           \/ Undecipherable(m) \/ ProbeGarbled(m)
    PROVE  OnePlace'
<1>1. started' = started
  BY Zenon DEF Replies, Fails, Undecipherable, ProbeGarbled, answerUnchanged
<1>2. \/ \E s, t, n, i : HandleErrors(m, s, t, n, i)
      \/ Ends(m)
      \/ Again(m, [m EXCEPT !.retry = "decryption_failure"])
  BY Zenon DEF Replies, Fails, Undecipherable, ProbeGarbled
<1> QED
  BY <1>1, <1>2, HandleErrorsOne, Zenon

-----------------------------------------------------------------------------
LEMMA OneStep ==
    ASSUME Groups, OnePlace, [Next]_vars
    PROVE  OnePlace'
<1>1. CASE Application
  BY <1>1, CallLookupOne, CallOnLoopOne, CallOne, SweepOne, QuietOne, Zenon DEF Application
<1>2. CASE Tasks
  BY <1>2, BuildOne, RefreshOne, QuietOne, SweepOne, RunOne, Zenon DEF Tasks
<1>3. CASE Remote
  BY <1>3, QuietOne, SeedAnswersOne, ProbeAnswersOne, AnswersOne, Zenon DEF Remote
<1>4. CASE Failures
  BY <1>4, QuietOne, AnswersOne, Zenon DEF Failures
<1>5. CASE Threads
  BY <1>5, ThreadsOne, Zenon DEF Threads
<1>6. CASE UNCHANGED vars
  BY <1>6, QuietOne
<1> QED
  BY <1>1, <1>2, <1>3, <1>4, <1>5, <1>6 DEF Next

LEMMA OneInit == Init => OnePlace
  BY DEF Init, OnePlace

LEMMA OneAlways == Spec => [](Groups /\ OnePlace)
<1>1. Init => Groups /\ OnePlace
  BY TypesInit, OneInit
<1>2. Groups /\ OnePlace /\ [Next]_vars => (Groups /\ OnePlace)'
  BY TypesStep, OneStep
<1> QED
  BY <1>1, <1>2, PTL DEF Spec

(* A call the application made is in one place of the network or its       *)
(* callback has been called, once: no interleaving of answers, retries,    *)
(* timeouts, refreshes and closed connections loses or repeats a callback. *)
THEOREM CalledOnce == Spec => []OnePlace
  BY OneAlways, PTL

-----------------------------------------------------------------------------
(* Refinement.  What a step does to the calls and the callbacks.           *)
NoNewCall == started' = started /\ (called' = called \/ \E S : CallBack(S))
NewCall(r) ==
    /\ r \notin started /\ started' = started \cup {r}
    /\ called' = called \/ \E m : m.req = r /\ CallBack({m})

LEMMA SendShape ==
    ASSUME NEW m, NEW others, NEW rest, SendOnLoop(m, others, rest)
    PROVE  called' = called \/ CallBack({m})
  BY Zenon DEF SendOnLoop

LEMMA LookupShape ==
    ASSUME NEW m, NEW others, Lookup(m, others)
    PROVE  called' = called \/ CallBack({m})
  BY Zenon DEF Lookup, GetSwarm, GotSwarm, GetRandomNodes, WaitForRefresh

LEMMA CallShape ==
    ASSUME NEW r \in Reqs, CallLookup(r) \/ CallOnLoop(r) \/ Call(r)
    PROVE  NewCall(r)
<1>1. Message(r, None, None).req = r /\ Message(r, Dest[r], None).req = r
  BY DEF Message
<1>2. CASE CallLookup(r)
  BY <1>1, <1>2, LookupShape, Zenon DEF CallLookup, NewCall
<1>3. CASE CallOnLoop(r)
  BY <1>1, <1>3, SendShape, Zenon DEF CallOnLoop, NewCall
<1>4. CASE Call(r)
  BY <1>4, Zenon DEF Call, NewCall
<1> QED
  BY <1>2, <1>3, <1>4

LEMMA ErrorsShape ==
    ASSUME NEW m, NEW status, NEW timeout, NEW bad, NEW inner,
           HandleErrors(m, status, timeout, bad, inner)
    PROVE  called' = called \/ CallBack({m})
  BY Zenon DEF HandleErrors, Ends, Again

LEMMA TasksShape ==
    ASSUME Tasks
    PROVE  NoNewCall
<1>1. ASSUME NEW i, NEW t, NEW rest, BuildPath(i, t, rest) PROVE NoNewCall
  BY <1>1, Zenon DEF BuildPath, NoNewCall
<1>2. ASSUME NEW t, NeededTask(t) PROVE NoNewCall
  BY <1>1, <1>2, Zenon DEF NeededTask, NoNewCall, reqVars
<1>3. ASSUME NEW t, RefreshTask(t) PROVE NoNewCall
  BY <1>3, SendShape, Zenon DEF RefreshTask, NoNewCall
<1>4. ASSUME NEW i, EstablishTask(i) \/ SeedTask(i) PROVE NoNewCall
  BY <1>4, Zenon DEF EstablishTask, SeedTask, NoNewCall, reqVars
<1>5. ASSUME NEW l, CheckTask(l) PROVE NoNewCall
  BY <1>5, Zenon DEF CheckTask, NoNewCall
<1>6. ASSUME NEW m, RunResumed(m) \/ RunScheduled(m) PROVE NoNewCall
  BY <1>6, LookupShape, SendShape, Zenon DEF RunResumed, RunScheduled, NoNewCall
<1>7. ASSUME NEW i, NEW t, BuildTask(i, t) PROVE NoNewCall
  BY <1>1, <1>7, Zenon DEF BuildTask
<1> QED
  BY <1>2, <1>3, <1>4, <1>5, <1>6, <1>7, Zenon DEF Tasks

LEMMA OthersShape ==
    ASSUME Remote \/ Failures \/ Threads
    PROVE  NoNewCall
<1>1. ASSUME NEW a, NEW A, Connected(a) \/ SeedAnswers(a, A) PROVE NoNewCall
  BY <1>1, Zenon DEF Connected, SeedAnswers, NoNewCall, reqVars
<1>2. ASSUME NEW m, NEW A, ProbeAnswers(m, A) PROVE NoNewCall
  BY <1>2, Zenon DEF ProbeAnswers, NoNewCall
<1>3. ASSUME NEW m, NEW b, Replies(m, b) PROVE NoNewCall
  BY <1>3, ErrorsShape, Zenon DEF Replies, Ends, NoNewCall, answerUnchanged
<1>4. ASSUME NEW m, NEW s, NEW t, NEW n, Fails(m, s, t, n) PROVE NoNewCall
  BY <1>4, ErrorsShape, Zenon DEF Fails, NoNewCall, answerUnchanged
<1>5. ASSUME NEW m, Undecipherable(m) \/ ProbeGarbled(m) PROVE NoNewCall
  BY <1>5, ErrorsShape, Zenon DEF Undecipherable, ProbeGarbled, Ends, Again, NoNewCall,
     answerUnchanged
<1>6. ASSUME NEW a, NEW t, NEW c, AttemptFails(a, t) \/ ConnectionCloses(c) PROVE NoNewCall
  BY <1>6, Zenon DEF AttemptFails, ConnectionCloses, NoNewCall, reqVars
<1>7. ASSUME NEW m, Proceed(m) \/ Store(m) \/ Expire(m) PROVE NoNewCall
  BY <1>7, Zenon DEF Proceed, Store, Expire, NoNewCall
<1> QED
  BY <1>1, <1>2, <1>3, <1>4, <1>5, <1>6, <1>7, Zenon DEF Remote, Failures, Threads

LEMMA StepShape ==
    ASSUME [Next]_vars
    PROVE  NoNewCall \/ \E r \in Reqs : NewCall(r)
<1>1. CASE Application
  <2>1. ASSUME NEW s, CloseConnections(s) PROVE NoNewCall
    BY <2>1, Zenon DEF CloseConnections, NoNewCall
  <2>2. CASE Resume
    BY <2>2, Zenon DEF Resume, NoNewCall, reqVars
  <2> QED
    BY <1>1, <2>1, <2>2, CallShape, Zenon DEF Application
<1>2. CASE UNCHANGED vars
  BY <1>2, Zenon DEF vars, reqVars, NoNewCall
<1> QED
  BY <1>1, <1>2, TasksShape, OthersShape, Zenon DEF Next

(* The calls pending are those made and not answered.                      *)
PendingNow == {r \in Reqs : \E m \in msgs : m.req = r}

LEMMA PendingIs ==
    ASSUME CallsOK, OnePlace
    PROVE  /\ PendingNow = {r \in started : called[r] = 0}
           /\ \A r \in Reqs : called[r] \in {0, 1} /\ (r \notin started => called[r] = 0)
  BY DEF OnePlace, PendingNow, CallsOK

LEMMA PendingIsNext ==
    ASSUME CallsOK', OnePlace'
    PROVE  /\ PendingNow' = {r \in started' : called'[r] = 0}
           /\ \A r \in Reqs : called'[r] \in {0, 1} /\ (r \notin started' => called'[r] = 0)
  BY DEF OnePlace, PendingNow, CallsOK

LEMMA AnswerSteps ==
    ASSUME CallsOK, CallsOK', OnePlace, OnePlace', NoNewCall
    PROVE  \/ PendingNow' = PendingNow /\ called' = called
           \/ \E S \in SUBSET PendingNow :
                /\ S # {}
                /\ PendingNow' = PendingNow \ S
                /\ called' = [r \in Reqs |-> IF r \in S THEN called[r] + 1 ELSE called[r]]
<1> DEFINE S == PendingNow \ PendingNow'
<1>1. \A r \in Reqs : called'[r] = called[r] \/ called'[r] = called[r] + 1
  BY DEF NoNewCall, CallBack, CallsOK
<1>2. started' = started /\ started \subseteq Reqs
  BY DEF NoNewCall, CallsOK
<1>3. PendingNow' = PendingNow \ S
  BY <1>1, <1>2, PendingIs, PendingIsNext
<1>4. \A r \in Reqs : called'[r] = IF r \in S THEN called[r] + 1 ELSE called[r]
  BY <1>1, <1>2, PendingIs, PendingIsNext
<1>5. called' = [r \in Reqs |-> IF r \in S THEN called[r] + 1 ELSE called[r]]
  BY <1>4 DEF CallsOK
<1>6. CASE S = {}
  <2>1. called' = called
    BY <1>4, <1>6 DEF CallsOK
  <2> QED
    BY <1>3, <1>6, <2>1
<1> HIDE DEF S
<1>7. S \in SUBSET PendingNow
  BY DEF S
<1> QED
  BY <1>3, <1>5, <1>6, <1>7

LEMMA CallSteps ==
    ASSUME CallsOK, CallsOK', OnePlace, OnePlace', NEW r \in Reqs, NewCall(r)
    PROVE  /\ r \notin PendingNow /\ called[r] = 0
           /\ \/ PendingNow' = PendingNow \cup {r} /\ called' = called
              \/ called' = [called EXCEPT ![r] = 1] /\ PendingNow' = PendingNow
<1>1. r \notin PendingNow /\ called[r] = 0 /\ started' = started \cup {r}
  BY PendingIs DEF NewCall
<1>2. CASE called' = called
  BY <1>1, <1>2, PendingIs, PendingIsNext
<1>3. ASSUME NEW m, m.req = r, CallBack({m})
      PROVE  called' = [called EXCEPT ![r] = 1]
  <2>1. called' = [q \in Reqs |-> IF q = r THEN called[q] + 1 ELSE called[q]]
    <3>1. \A q \in Reqs : (\E k \in {m} : k.req = q) <=> q = r
      BY <1>3
    <3> QED
      BY <1>3, <3>1, Zenon DEF CallBack
  <2>2. called[r] + 1 = 1
    BY <1>1
  <2> QED
    BY <2>1, <2>2 DEF CallsOK
<1>4. CASE called' = [called EXCEPT ![r] = 1]
  <2>1. called'[r] = 1 /\ \A q \in Reqs \ {r} : called'[q] = called[q]
    BY <1>4 DEF CallsOK
  <2> QED
    BY <1>1, <1>4, <2>1, PendingIs, PendingIsNext DEF CallsOK
<1> QED
  BY <1>1, <1>2, <1>3, <1>4 DEF NewCall

LEMMA ServiceStep ==
    ASSUME Groups, Groups', OnePlace, OnePlace', [Next]_vars
    PROVE  [Service!Next]_(Service!serviceVars)
<1>1. CallsOK /\ CallsOK'
  BY DEF Groups
<1>2. CASE NoNewCall
  BY <1>1, <1>2, AnswerSteps, Zenon DEF Service!Next, Service!Answer, Service!serviceVars, PendingNow
<1>3. ASSUME NEW r \in Reqs, NewCall(r)
      PROVE  Service!Next
  BY <1>1, <1>3, CallSteps, Zenon DEF Service!Next, Service!Call, PendingNow
<1> QED
  BY <1>2, <1>3, StepShape

(* The event loop with its application threads, probes, retries and        *)
(* timeouts implements the request service: pending until answered once.   *)
THEOREM ImplementsService == Spec => ServiceSpec
<1>1. Init => Service!Init
  BY DEF Init, Service!Init
<1>2. Groups /\ OnePlace /\ (Groups /\ OnePlace)' /\ [Next]_vars
        => [Service!Next]_(Service!serviceVars)
  BY ServiceStep
<1> QED
  BY <1>1, <1>2, OneAlways, PTL DEF Spec, ServiceSpec, Service!Spec

-----------------------------------------------------------------------------
(* Connections being made.                                                 *)
dialVars == <<conns, attempts, in_progress_connections>>

LEMMA KnownKept == AttemptsKnown /\ UNCHANGED dialVars => AttemptsKnown'
  BY Zenon DEF AttemptsKnown, dialVars

(* A connection that no attempt uses is taken for a new one.               *)
LEMMA KnownConnect ==
    ASSUME Groups, AttemptsKnown, FreeConns # {}, NEW id, NEW node, NEW seed \in BOOLEAN,
           Connect(id, node, seed),
           \/ seed /\ in_progress_connections' = in_progress_connections
           \/ id \in Ids /\ node \in Nodes /\ in_progress_connections' = InProgress(id, node)
    PROVE  AttemptsKnown'
<1>1. PICK c \in FreeConns :
         /\ conns' = [conns EXCEPT ![c] = [node |-> node, state |-> "connecting"]]
         /\ attempts' = attempts \cup {[conn |-> c, id |-> id, seed |-> seed]}
  BY LeastFree DEF Connect
<1>2. c \in Conns /\ \A a \in attempts : a.conn # c
  BY DEF FreeConns
<1>3. \A i \in Ids : in_progress_connections[i] # None => in_progress_connections'[i] # None
  BY NodesAssumption DEF InProgress, Groups, ConnsOK
<1>4. ~seed => id \in Ids /\ in_progress_connections'[id] # None
  BY NodesAssumption DEF InProgress, Groups, ConnsOK
<1>5. ASSUME NEW a \in attempts, ~a.seed, conns'[a.conn].state = "connecting"
      PROVE  a.id \in Ids /\ in_progress_connections'[a.id] # None
  <2>1. conns'[a.conn] = conns[a.conn]
    BY <1>1, <1>2, <1>5, AttemptFields DEF Groups, ConnsOK
  <2> QED
    BY <1>3, <1>5, <2>1 DEF AttemptsKnown
<1>6. ASSUME NEW a \in attempts', ~a.seed, conns'[a.conn].state = "connecting"
      PROVE  a.id \in Ids /\ in_progress_connections'[a.id] # None
  BY <1>1, <1>4, <1>5, <1>6
<1> QED
  BY <1>6 DEF AttemptsKnown

(* A connection is made, fails or closes.                                  *)
LEMMA KnownClosing ==
    ASSUME Groups, AttemptsKnown, NEW c \in Conns, NEW s, s # "connecting",
           conns' = [conns EXCEPT ![c].state = s], attempts' \subseteq attempts,
           in_progress_connections' = in_progress_connections
    PROVE  AttemptsKnown'
<1>1. ASSUME NEW a \in attempts', ~a.seed, conns'[a.conn].state = "connecting"
      PROVE  conns[a.conn].state = "connecting"
  <2>1. a.conn \in Conns
    BY AttemptFields DEF Groups, ConnsOK
  <2>2. CASE a.conn = c
    BY <1>1, <2>1, <2>2 DEF Groups, ConnsOK
  <2>3. CASE a.conn # c
    BY <1>1, <2>1, <2>3 DEF Groups, ConnsOK
  <2> QED
    BY <2>2, <2>3
<1> QED
  BY <1>1 DEF AttemptsKnown

LEMMA KnownDialled ==
    ASSUME Groups, AttemptsKnown,
           \/ \E i \in Ids : EstablishTask(i)
           \/ \E i \in Ids \cup Reqs : SeedTask(i)
           \/ \E t \in tasks : RefreshTask(t)
    PROVE  AttemptsKnown'
<1>1. CASE UNCHANGED dialVars
  BY <1>1, KnownKept
<1>2. ASSUME NEW i \in Ids, EstablishTask(i)
      PROVE  AttemptsKnown'
  <2>1. UnusedFor(1) \subseteq Nodes
    BY SomeNodes DEF Groups
  <2>2. CASE \E n \in UnusedFor(1) :
               /\ FreeConns # {} /\ in_progress_connections' = InProgress(i, n)
               /\ Connect(i, n, FALSE)
    BY <2>1, <2>2, KnownConnect
  <2>3. UNCHANGED dialVars
        \/ \E n \in UnusedFor(1) :
               /\ FreeConns # {} /\ in_progress_connections' = InProgress(i, n)
               /\ Connect(i, n, FALSE)
    BY <1>2, Zenon DEF EstablishTask, dialVars, connVars
  <2> QED
    BY <1>1, <2>2, <2>3
<1>3. CASE \E i : /\ FreeConns # {} /\ Connect(i, None, TRUE)
                  /\ in_progress_connections' = in_progress_connections
  BY <1>3, KnownConnect
<1>4. ASSUME NEW i, SeedTask(i)
      PROVE  AttemptsKnown'
  BY <1>1, <1>3, <1>4, Zenon DEF SeedTask, dialVars
<1>5. ASSUME NEW t \in tasks, RefreshTask(t)
      PROVE  AttemptsKnown'
  BY <1>1, <1>3, <1>5, Zenon DEF RefreshTask, dialVars
<1> QED
  BY <1>2, <1>4, <1>5

LEMMA KnownChanged ==
    ASSUME Groups, AttemptsKnown,
           \/ \E a \in attempts : Connected(a)
           \/ \E a \in attempts, A \in Answers : SeedAnswers(a, A)
           \/ \E a \in attempts, t \in BOOLEAN : AttemptFails(a, t)
           \/ \E c \in Conns : ConnectionCloses(c)
           \/ \E s \in BOOLEAN : CloseConnections(s)
    PROVE  AttemptsKnown'
<1>1. \A a \in attempts : a.conn \in Conns
  BY AttemptFields DEF Groups, ConnsOK
<1>2. CASE \E c \in Conns, s \in {"open", "closed"} :
             /\ conns' = [conns EXCEPT ![c].state = s]
             /\ attempts' \subseteq attempts
             /\ in_progress_connections' = in_progress_connections
  BY <1>2, KnownClosing
<1>3. CASE \E s \in BOOLEAN : CloseConnections(s)
  <2>1. /\ conns' = [c \in Conns |-> [conns[c] EXCEPT !.state = "closed"]]
        /\ attempts' = attempts
    BY <1>3 DEF CloseConnections
  <2>2. \A c \in Conns : conns'[c].state # "connecting"
    BY <2>1 DEF Groups, ConnsOK
  <2> QED
    BY <1>1, <2>1, <2>2 DEF AttemptsKnown
<1>4. ASSUME NEW a \in attempts, Connected(a)
      PROVE  AttemptsKnown'
  BY <1>1, <1>2, <1>4 DEF Connected
<1>5. ASSUME NEW a \in attempts, NEW A, SeedAnswers(a, A)
      PROVE  AttemptsKnown'
  BY <1>1, <1>2, <1>5 DEF SeedAnswers
<1>6. ASSUME NEW a \in attempts, NEW t, AttemptFails(a, t)
      PROVE  AttemptsKnown'
  BY <1>1, <1>2, <1>6 DEF AttemptFails
<1>7. ASSUME NEW c \in Conns, ConnectionCloses(c)
      PROVE  AttemptsKnown'
  BY <1>2, <1>7 DEF ConnectionCloses
<1> QED
  BY <1>3, <1>4, <1>5, <1>6, <1>7

LEMMA KnownStep ==
    ASSUME Groups, AttemptsKnown, [Next]_vars
    PROVE  AttemptsKnown'
<1>1. CASE UNCHANGED dialVars
  BY <1>1, KnownKept
<1>2. CASE Application
  <2>1. ASSUME NEW r, CallLookup(r) \/ CallOnLoop(r) \/ Call(r)
        PROVE  UNCHANGED dialVars
    BY <2>1, Zenon DEF CallLookup, Lookup, CallOnLoop, Call, sendUnchanged, connVars, dialVars
  <2>2. CASE Resume
    BY <2>2, <1>1, Zenon DEF Resume, connVars, dialVars
  <2> QED
    BY <1>1, <1>2, <2>1, <2>2, KnownChanged, Zenon DEF Application
<1>3. CASE Tasks
  <2>1. ASSUME NEW i, NEW t, NEW rest, BuildPath(i, t, rest)
        PROVE  UNCHANGED dialVars
    BY <2>1, Zenon DEF BuildPath, EnqueueBuild, StorePath, connVars, dialVars
  <2>2. ASSUME NEW i, NEW t, BuildTask(i, t)
        PROVE  UNCHANGED dialVars
    BY <2>1, <2>2, Zenon DEF BuildTask
  <2>3. ASSUME NEW t, NeededTask(t)
        PROVE  UNCHANGED dialVars
    BY <2>1, <2>3, Zenon DEF NeededTask, connVars, dialVars
  <2>4. ASSUME NEW l, CheckTask(l)
        PROVE  UNCHANGED dialVars
    BY <2>4, Zenon DEF CheckTask, connVars, dialVars
  <2>5. ASSUME NEW m, RunResumed(m) \/ RunScheduled(m)
        PROVE  UNCHANGED dialVars
    BY <2>5, Zenon DEF RunResumed, Lookup, RunScheduled, sendUnchanged, connVars, dialVars
  <2> QED
    BY <1>1, <1>3, <2>2, <2>3, <2>4, <2>5, KnownDialled, Zenon DEF Tasks
<1>4. CASE Remote
  <2>1. ASSUME NEW m, NEW A, ProbeAnswers(m, A)
        PROVE  UNCHANGED dialVars
    BY <2>1, Zenon DEF ProbeAnswers, connVars, dialVars
  <2>2. ASSUME NEW m, NEW b, Replies(m, b)
        PROVE  UNCHANGED dialVars
    BY <2>2, Zenon DEF Replies, answerUnchanged, connVars, dialVars
  <2> QED
    BY <1>1, <1>4, <2>1, <2>2, KnownChanged, Zenon DEF Remote
<1>5. CASE Failures
  <2>1. ASSUME NEW m, Undecipherable(m) \/ ProbeGarbled(m)
        PROVE  UNCHANGED dialVars
    BY <2>1, Zenon DEF Undecipherable, ProbeGarbled, answerUnchanged, connVars, dialVars
  <2>2. ASSUME NEW m, NEW s, NEW t, NEW n, Fails(m, s, t, n)
        PROVE  UNCHANGED dialVars
    BY <2>2, Zenon DEF Fails, answerUnchanged, connVars, dialVars
  <2> QED
    BY <1>1, <1>5, <2>1, <2>2, KnownChanged, Zenon DEF Failures
<1>6. CASE Threads
  <2>1. ASSUME NEW m, Proceed(m) \/ Store(m) \/ Expire(m)
        PROVE  UNCHANGED dialVars
    BY <2>1, Zenon DEF Proceed, Store, Expire, sendUnchanged, connVars, dialVars
  <2> QED
    BY <1>1, <1>6, <2>1, Zenon DEF Threads
<1>7. CASE UNCHANGED vars
  BY <1>1, <1>7, Zenon DEF vars, connVars, dialVars
<1> QED
  BY <1>2, <1>3, <1>4, <1>5, <1>6, <1>7 DEF Next

(* A connection being made is known to in_progress_connections: the branch *)
(* of establish_and_store_connection() for orphaned builds is never taken, *)
(* whatever attempts fail, close or are repeated under the same id.        *)
THEOREM AttemptsAlwaysKnown == Spec => []AttemptsKnown
<1>1. Init => AttemptsKnown
  BY DEF Init, AttemptsKnown
<1>2. Groups /\ AttemptsKnown /\ [Next]_vars => AttemptsKnown'
  BY KnownStep
<1> QED
  BY <1>1, <1>2, GroupsAlways, PTL DEF Spec

-----------------------------------------------------------------------------
(* Builds in progress.                                                     *)
BuildsInv == BuildsScheduled /\ (suspends = 0 => ~suspended)

(* A step that neither counts nor drops a build.                           *)
KeepsBuilds ==
    /\ suspends' = suspends /\ (suspended' => suspended)
    /\ in_progress_path_builds' = in_progress_path_builds
    /\ \A t \in tasks : t.op = "build" => t \in tasks'

LEMMA BuildFields ==
    ASSUME NEW i, NEW t
    PROVE  Build(i, t).op = "build" /\ Build(i, t).id = i
  BY DEF Build

LEMMA SchedKept ==
    ASSUME BuildsInv, KeepsBuilds
    PROVE  BuildsInv'
<1>1. suspends' = 0 => ~suspended'
  BY Zenon DEF BuildsInv, KeepsBuilds
<1>2. BuildsScheduled'
  BY BuildFields DEF BuildsInv, BuildsScheduled, KeepsBuilds
<1> QED
  BY <1>1, <1>2, Zenon DEF BuildsInv

LEMMA BuildPathSched ==
    ASSUME Groups, BuildsInv, NEW id \in Ids, NEW t \in PathTypes, NEW rest, BuildPath(id, t, rest),
           suspends = 0 => \A i \in Ids \ {id} : in_progress_path_builds[i] # None
                              => Build(i, in_progress_path_builds[i]) \in rest
    PROVE  BuildsInv'
<1> DEFINE cleared == [in_progress_path_builds EXCEPT ![id] = None]
<1>1. suspends' = suspends /\ suspended' = suspended
  BY Zenon DEF BuildPath, bounds
<1>2. suspends = 0 => ~suspended
  BY Zenon DEF BuildsInv
<1>3. CASE in_progress_path_builds' = cleared /\ rest \subseteq tasks'
  BY <1>1, <1>2, <1>3, Zenon DEF BuildsInv, BuildsScheduled, Groups, BuildsOK
<1>4. ASSUME NEW k \in Ids,
             \/ in_progress_path_builds' = [in_progress_path_builds EXCEPT ![k] = t] /\ k = id
             \/ in_progress_path_builds' = [cleared EXCEPT ![k] = t],
             tasks' = rest \cup {Build(k, t)}
      PROVE  BuildsInv'
  <2>1. /\ in_progress_path_builds'[k] = t
        /\ \A i \in Ids \ {k, id} : in_progress_path_builds'[i] = in_progress_path_builds[i]
        /\ k # id => in_progress_path_builds'[id] = None
    BY <1>4 DEF Groups, BuildsOK
  <2>2. BuildsScheduled'
    BY <1>1, <1>4, <2>1 DEF BuildsScheduled
  <2> QED
    BY <1>1, <1>2, <2>2, Zenon DEF BuildsInv
<1>5. CASE suspended
  <2>1. suspends' # 0
    BY <1>1, <1>2, <1>5
  <2> QED
    BY <2>1, Zenon DEF BuildsInv, BuildsScheduled
<1>6. ASSUME NEW task, EnqueueBuild(id, t, task, rest)
      PROVE  BuildsInv'
  BY <1>3, <1>6 DEF EnqueueBuild
<1>7. ASSUME NEW c, NEW others, StorePath(id, t, c, others, rest)
      PROVE  BuildsInv'
  <2>1. \/ in_progress_path_builds' = cleared /\ tasks' = rest
        \/ /\ Unused({id}) # {}
           /\ in_progress_path_builds' = [cleared EXCEPT ![Least(Unused({id}))] = t]
           /\ tasks' = rest \cup {Build(Least(Unused({id})), t)}
    BY <1>7, Zenon DEF StorePath
  <2>2. Unused({id}) # {} => Least(Unused({id})) \in Ids
    BY LeastUnused
  <2> QED
    BY <1>3, <1>4, <2>1, <2>2
<1> QED
  BY <1>4, <1>5, <1>6, <1>7, Zenon DEF BuildPath

LEMMA BuildSched ==
    ASSUME Groups, BuildsInv,
           \/ \E i \in Ids, t \in PathTypes : BuildTask(i, t)
           \/ \E t \in tasks : NeededTask(t)
    PROVE  BuildsInv'
<1>1. ASSUME NEW i \in Ids, NEW t \in PathTypes, BuildTask(i, t)
      PROVE  BuildsInv'
  <2>1. suspends = 0 => \A k \in Ids \ {i} : in_progress_path_builds[k] # None
             => Build(k, in_progress_path_builds[k]) \in tasks \ {Build(i, t)}
    BY BuildFields DEF BuildsInv, BuildsScheduled
  <2>2. BuildPath(i, t, tasks \ {Build(i, t)})
    BY <1>1, Zenon DEF BuildTask
  <2> QED
    BY <2>1, <2>2, BuildPathSched
<1>2. ASSUME NEW t \in tasks, NeededTask(t)
      PROVE  BuildsInv'
  <2>1. t.op = "needed" /\ t.type \in PathTypes
    BY <1>2, TaskFields DEF NeededTask, Groups, TasksOK
  <2>2. CASE UNCHANGED <<suspended, buildVars, bounds>> /\ tasks' = tasks \ {t}
    <3>1. KeepsBuilds
      BY <2>1, <2>2 DEF KeepsBuilds, buildVars, bounds
    <3> QED
      BY <3>1, SchedKept
  <2>3. CASE Unused({}) # {} /\ BuildPath(Least(Unused({})), t.type, tasks \ {t})
    <3>1. suspends = 0 => \A k \in Ids : in_progress_path_builds[k] # None
               => Build(k, in_progress_path_builds[k]) \in tasks \ {t}
      BY <2>1, BuildFields DEF BuildsInv, BuildsScheduled
    <3>2. Least(Unused({})) \in Ids
      BY <2>3, LeastUnused
    <3> QED
      BY <2>1, <2>3, <3>1, <3>2, BuildPathSched
  <2> QED
    BY <1>2, <2>2, <2>3, Zenon DEF NeededTask
<1> QED
  BY <1>1, <1>2

LEMMA CompleteSched ==
    ASSUME Groups, BuildsInv, NEW A, NEW others, Complete(A, others),
           UNCHANGED <<suspended, suspends>>
    PROVE  BuildsInv'
<1> DEFINE queued == {b \in PathTypes \X (1..MaxIds) : b[2] <= path_build_queue[b[1]]}
           ids == FirstOf(Unused({}), Cardinality(queued))
<1>1. PICK f \in [ids -> PathTypes] :
         /\ in_progress_path_builds' =
               [i \in Ids |-> IF i \in ids THEN f[i] ELSE in_progress_path_builds[i]]
         /\ tasks' = tasks \cup {Build(i, f[i]) : i \in ids}
  BY Zenon DEF Complete
<1> HIDE DEF ids
<1>2. BuildsScheduled'
  BY <1>1 DEF BuildsInv, BuildsScheduled
<1> QED
  BY <1>2, Zenon DEF BuildsInv

LEMMA RemoteSched ==
    ASSUME Groups, BuildsInv, Remote
    PROVE  BuildsInv'
<1>1. ASSUME NEW a \in attempts, Connected(a)
      PROVE  BuildsInv'
  <2>1. UNCHANGED <<suspended, suspends>>
    BY <1>1, Zenon DEF Connected, bounds
  <2>2. CASE UNCHANGED <<buildVars, tasks>>
    BY <2>1, <2>2, SchedKept DEF KeepsBuilds, buildVars
  <2>3. CASE \E t \in PathTypes :
               /\ in_progress_path_builds' = [in_progress_path_builds EXCEPT ![a.id] = t]
               /\ tasks' = tasks \cup {Build(a.id, t)}
    <3>1. BuildsScheduled'
      BY <2>1, <2>3 DEF BuildsInv, BuildsScheduled, Groups, BuildsOK
    <3> QED
      BY <2>1, <3>1, Zenon DEF BuildsInv
  <2> QED
    BY <1>1, <2>2, <2>3, Zenon DEF Connected
<1>2. ASSUME NEW a, NEW A, SeedAnswers(a, A)
      PROVE  BuildsInv'
  <2>1. UNCHANGED <<suspended, suspends>>
    BY <1>2, Zenon DEF SeedAnswers
  <2>2. CASE UNCHANGED buildVars /\ tasks' = tasks \cup {Seed(a.id)}
    BY <2>1, <2>2, SchedKept DEF KeepsBuilds, buildVars
  <2> QED
    BY <1>2, <2>1, <2>2, CompleteSched, Zenon DEF SeedAnswers
<1>3. ASSUME NEW m, NEW A, ProbeAnswers(m, A)
      PROVE  BuildsInv'
  <2>1. UNCHANGED <<suspended, suspends>>
    BY <1>3, Zenon DEF ProbeAnswers, bounds
  <2>2. CASE UNCHANGED <<buildVars, tasks>>
    BY <2>1, <2>2, SchedKept DEF KeepsBuilds, buildVars
  <2> QED
    BY <1>3, <2>1, <2>2, CompleteSched, Zenon DEF ProbeAnswers
<1>4. ASSUME NEW m, NEW b, Replies(m, b)
      PROVE  BuildsInv'
  <2>1. UNCHANGED <<suspended, suspends, in_progress_path_builds>>
    BY <1>4, Zenon DEF Replies, answerUnchanged, buildVars
  <2>2. tasks \subseteq tasks'
    BY <1>4 DEF Replies, HandleErrors, Ends, Again
  <2> QED
    BY <2>1, <2>2, SchedKept DEF KeepsBuilds
<1> QED
  BY <1>1, <1>2, <1>3, <1>4, Zenon DEF Remote

LEMMA FailuresSched ==
    ASSUME Groups, BuildsInv, Failures
    PROVE  BuildsInv'
<1>1. ASSUME NEW m, NEW s, NEW t, NEW n, Fails(m, s, t, n) \/ Undecipherable(m) \/ ProbeGarbled(m)
      PROVE  BuildsInv'
  <2>1. UNCHANGED <<suspended, suspends, in_progress_path_builds>>
    BY <1>1, Zenon DEF Fails, Undecipherable, ProbeGarbled, answerUnchanged, buildVars
  <2>2. tasks \subseteq tasks'
    BY <1>1 DEF Fails, Undecipherable, ProbeGarbled, HandleErrors, Ends, Again
  <2> QED
    BY <2>1, <2>2, SchedKept DEF KeepsBuilds
<1>2. ASSUME NEW a, NEW t, AttemptFails(a, t)
      PROVE  BuildsInv'
  <2>1. UNCHANGED <<suspended, suspends, in_progress_path_builds>> /\ tasks \subseteq tasks'
    BY <1>2 DEF AttemptFails, buildVars
  <2> QED
    BY <2>1, SchedKept DEF KeepsBuilds
<1>3. ASSUME NEW c, ConnectionCloses(c)
      PROVE  BuildsInv'
  <2>1. UNCHANGED <<suspended, suspends, in_progress_path_builds, tasks>>
    BY <1>3, Zenon DEF ConnectionCloses, buildVars
  <2> QED
    BY <2>1, SchedKept DEF KeepsBuilds
<1> QED
  BY <1>1, <1>2, <1>3, Zenon DEF Failures

LEMMA SendSched ==
    ASSUME NEW m, NEW others, NEW rest, SendOnLoop(m, others, rest)
    PROVE  rest \subseteq tasks'
  BY DEF SendOnLoop

LEMMA LookupSched ==
    ASSUME NEW m, NEW others, Lookup(m, others)
    PROVE  tasks \subseteq tasks' /\ UNCHANGED <<suspended, suspends, in_progress_path_builds>>
  BY DEF Lookup, GetSwarm, GotSwarm, GetRandomNodes, WaitForRefresh, buildVars, bounds

LEMMA TasksSched ==
    ASSUME Groups, BuildsInv, Tasks
    PROVE  BuildsInv'
<1>1. ASSUME NEW i, EstablishTask(i)
      PROVE  BuildsInv'
  <2>1. UNCHANGED <<suspended, suspends, in_progress_path_builds>>
    BY <1>1, Zenon DEF EstablishTask, buildVars
  <2>2. tasks \ {Establish(i)} \subseteq tasks' /\ Establish(i).op = "establish"
    BY <1>1 DEF EstablishTask, Establish
  <2> QED
    BY <2>1, <2>2, SchedKept DEF KeepsBuilds
<1>2. ASSUME NEW i, SeedTask(i)
      PROVE  BuildsInv'
  <2>1. UNCHANGED <<suspended, suspends, in_progress_path_builds>>
    BY <1>2, Zenon DEF SeedTask, buildVars, bounds
  <2>2. tasks \ {Seed(i)} \subseteq tasks' /\ Seed(i).op = "seed"
    BY <1>2 DEF SeedTask, Seed
  <2> QED
    BY <2>1, <2>2, SchedKept DEF KeepsBuilds
<1>3. ASSUME NEW t \in tasks, RefreshTask(t)
      PROVE  BuildsInv'
  <2>1. UNCHANGED <<suspended, suspends, in_progress_path_builds>> /\ t.op = "refresh"
    BY <1>3, Zenon DEF RefreshTask, buildVars
  <2>2. tasks \ {t} \subseteq tasks'
    <3>1. CASE tasks' = tasks \ {t}
      BY <3>1
    <3>2. ASSUME NEW m, NEW S, SendOnLoop(m, msgs, (tasks \ {t}) \cup S)
          PROVE  tasks \ {t} \subseteq tasks'
      BY <3>2, SendSched
    <3> QED
      BY <1>3, <3>1, <3>2, Zenon DEF RefreshTask
  <2> QED
    BY <2>1, <2>2, SchedKept DEF KeepsBuilds
<1>4. ASSUME NEW l, CheckTask(l)
      PROVE  BuildsInv'
  <2>1. UNCHANGED <<suspended, suspends, in_progress_path_builds>>
    BY <1>4, Zenon DEF CheckTask, buildVars, bounds
  <2>2. tasks \ {Check(l)} \subseteq tasks' /\ Check(l).op = "check"
    BY <1>4 DEF CheckTask, Check
  <2> QED
    BY <2>1, <2>2, SchedKept DEF KeepsBuilds
<1>5. ASSUME NEW m, RunResumed(m)
      PROVE  BuildsInv'
  BY <1>5, LookupSched, SchedKept DEF RunResumed, KeepsBuilds
<1>6. ASSUME NEW m, RunScheduled(m)
      PROVE  BuildsInv'
  <2>1. UNCHANGED <<suspended, suspends, in_progress_path_builds>>
    BY <1>6, Zenon DEF RunScheduled, sendUnchanged, buildVars
  <2>2. tasks \subseteq tasks'
    BY <1>6, SendSched DEF RunScheduled
  <2> QED
    BY <2>1, <2>2, SchedKept DEF KeepsBuilds
<1> QED
  BY <1>1, <1>2, <1>3, <1>4, <1>5, <1>6, BuildSched, Zenon DEF Tasks

LEMMA CallsSched ==
    ASSUME Groups, BuildsInv, Application \/ Threads
    PROVE  BuildsInv'
<1>1. ASSUME NEW r, CallLookup(r)
      PROVE  BuildsInv'
  BY <1>1, LookupSched, SchedKept DEF CallLookup, KeepsBuilds
<1>2. ASSUME NEW r, CallOnLoop(r) \/ Call(r)
      PROVE  BuildsInv'
  <2>1. UNCHANGED <<suspended, suspends, in_progress_path_builds>>
    BY <1>2, Zenon DEF CallOnLoop, Call, sendUnchanged, buildVars
  <2>2. tasks \subseteq tasks'
    BY <1>2, SendSched DEF CallOnLoop, Call
  <2> QED
    BY <2>1, <2>2, SchedKept DEF KeepsBuilds
<1>3. ASSUME NEW s, CloseConnections(s)
      PROVE  BuildsInv'
  <2>1. suspends' # 0
    BY <1>3 DEF CloseConnections, Groups, BoundsOK
  <2> QED
    BY <2>1, Zenon DEF BuildsInv, BuildsScheduled
<1>4. CASE Resume
  <2>1. suspended' = FALSE /\ UNCHANGED <<suspends, in_progress_path_builds, tasks>>
    BY <1>4, Zenon DEF Resume, buildVars, bounds
  <2> QED
    BY <2>1, SchedKept DEF KeepsBuilds
<1>5. ASSUME NEW m, Proceed(m) \/ Store(m) \/ Expire(m)
      PROVE  BuildsInv'
  <2>1. UNCHANGED <<suspended, suspends, in_progress_path_builds>>
    BY <1>5, Zenon DEF Proceed, Store, Expire, sendUnchanged, buildVars
  <2>2. tasks \subseteq tasks'
    BY <1>5 DEF Proceed, Store, Expire
  <2> QED
    BY <2>1, <2>2, SchedKept DEF KeepsBuilds
<1> QED
  BY <1>1, <1>2, <1>3, <1>4, <1>5, Zenon DEF Application, Threads

(* Until connections are closed, a path build that is counted as in        *)
(* progress is scheduled, with any number of builds, refreshes and         *)
(* attempts overlapping: build_path_if_needed() never waits for nothing.   *)
THEOREM BuildsAlwaysScheduled == Spec => []BuildsScheduled
<1>1. Init => BuildsInv
  <2>1. Init => ~suspended
    BY Zenon DEF Init
  <2>2. ASSUME Init
        PROVE  BuildsScheduled
    <3>1. ASSUME NEW i \in Ids, in_progress_path_builds[i] # None
          PROVE  PreBuild /\ i \in 1..MinPathCount /\ in_progress_path_builds[i] = Standard
      <4>1. in_progress_path_builds[i] = IF PreBuild /\ i <= MinPathCount THEN Standard ELSE None
        BY <2>2, <3>1, Zenon DEF Init
      <4>2. PreBuild /\ i <= MinPathCount
        BY <3>1, <4>1, Zenon
      <4>3. MinPathCount \in Nat /\ i \in Nat \ {0}
        BY NumbersAssumption DEF MinPathCount, Ids
      <4> QED
        BY <4>1, <4>2, <4>3
    <3>2. PreBuild => tasks = {Build(i, Standard) : i \in 1..MinPathCount}
      BY <2>2, Zenon DEF Init
    <3> QED
      BY <3>1, <3>2, Zenon DEF BuildsScheduled
  <2> QED
    BY <2>1, <2>2, Zenon DEF BuildsInv
<1>2. ASSUME Groups, BuildsInv, [Next]_vars
      PROVE  BuildsInv'
  <2>1. CASE UNCHANGED vars
    <3>1. KeepsBuilds
      BY <2>1, Zenon DEF vars, bounds, buildVars, KeepsBuilds
    <3> QED
      BY <3>1, SchedKept, <1>2
  <2> QED
    BY <1>2, <2>1, CallsSched, TasksSched, RemoteSched, FailuresSched DEF Next
<1>3. BuildsInv => BuildsScheduled
  BY DEF BuildsInv
<1> QED
  BY <1>1, <1>2, <1>3, GroupsAlways, PTL DEF Spec

-----------------------------------------------------------------------------
(* Full and separate paths.  Every connection is in one role: being made,  *)
(* without a path, or the guard's of the paths over it.                    *)
AllPaths == paths \cup paths_pending_drop
PathConns ==
    /\ \A a, b \in attempts : a # b => a.conn # b.conn
    /\ \A a \in attempts : /\ a.conn \notin unused_connections
                           /\ \A p \in AllPaths : p.conn # a.conn
                           /\ ~a.seed => conns[a.conn].node \in Nodes
    /\ \A c \in unused_connections : /\ conns[c].node \in Nodes
                                     /\ \A p \in AllPaths : p.conn # c
PathsInv == FullPaths /\ PathConns

(* No path has a node that could be used for the next one.                 *)
Apart(S) == \A p \in paths : NodesOf(p) \cap S = {}

LEMMA PathFields ==
    ASSUME Groups
    PROVE  /\ \A p \in AllPaths : p \in Path /\ p.conn \in Conns /\ p.others \in SUBSET Nodes
           /\ \A a \in attempts : a.conn \in Conns /\ a.seed \in BOOLEAN
           /\ unused_connections \subseteq Conns
           /\ conns \in [Conns -> [node : Nodes \cup {None}, state : {"connecting", "open", "closed"}]]
  BY DEF Groups, PathsOK, ConnsOK, AllPaths, Path, Attempt

LEMMA UnusedApart ==
    ASSUME PathsInv
    PROVE  \A k : Apart(UnusedFor(k))
<1>1. Apart(unused_nodes)
  BY DEF PathsInv, FullPaths, Apart
<1>2. Apart(GetUnusedNodes)
  BY DEF Apart, GetUnusedNodes, IpsOf
<1> QED
  BY <1>1, <1>2 DEF UnusedFor

(* Connections keep their nodes, and paths only go.                        *)
LEMMA PathsGo ==
    ASSUME Groups, PathsInv, \A c \in Conns : conns'[c].node = conns[c].node,
           attempts' \subseteq attempts, unused_connections' \subseteq unused_connections,
           paths' \subseteq paths, paths_pending_drop' \subseteq AllPaths, Apart(unused_nodes')
    PROVE  PathsInv'
<1>1. AllPaths' \subseteq AllPaths
  BY DEF AllPaths
<1>2. \A p \in AllPaths : conns'[p.conn].node = conns[p.conn].node
  BY PathFields
<1>3. PathConns'
  <2>1. \A a, b \in attempts' : a # b => a.conn # b.conn
    BY DEF PathsInv, PathConns
  <2>2. \A a \in attempts' : /\ a.conn \notin unused_connections'
                             /\ \A p \in AllPaths' : p.conn # a.conn
                             /\ ~a.seed => conns'[a.conn].node \in Nodes
    BY <1>1, PathFields DEF PathsInv, PathConns
  <2>3. \A c \in unused_connections' : /\ conns'[c].node \in Nodes
                                       /\ \A p \in AllPaths' : p.conn # c
    BY <1>1, PathFields DEF PathsInv, PathConns
  <2> QED
    BY <2>1, <2>2, <2>3 DEF PathConns
<1>4. FullPaths'
  <2>1. \A p \in AllPaths' : /\ conns'[p.conn].node \in Nodes \ p.others
                             /\ Cardinality(p.others) = PathSize - 1
    BY <1>1, <1>2 DEF PathsInv, FullPaths, AllPaths
  <2>2. \A p \in paths' : ({conns'[p.conn].node} \cup p.others) \cap unused_nodes' = {}
    BY <1>2 DEF Apart, NodesOf, AllPaths
  <2>3. \A p, q \in paths' : p # q => p.conn # q.conn /\ p.others \cap q.others = {}
    BY DEF PathsInv, FullPaths
  <2> QED
    BY <2>1, <2>2, <2>3 DEF FullPaths, AllPaths, NodesOf
<1> QED
  BY <1>3, <1>4 DEF PathsInv

(* A connection is begun for a node that no path uses.                     *)
LEMMA PathsConnect ==
    ASSUME Groups, PathsInv, FreeConns # {}, NEW id, NEW node, NEW seed \in BOOLEAN,
           Connect(id, node, seed), seed \/ node \in Nodes,
           unused_connections' = unused_connections, paths' = paths,
           paths_pending_drop' = paths_pending_drop, Apart(unused_nodes')
    PROVE  PathsInv'
<1> DEFINE new(c) == [conn |-> c, id |-> id, seed |-> seed]
<1>1. PICK c \in FreeConns :
         /\ conns' = [conns EXCEPT ![c] = [node |-> node, state |-> "connecting"]]
         /\ attempts' = attempts \cup {new(c)}
  BY LeastFree DEF Connect
<1>2. /\ c \in Conns /\ c \notin unused_connections
      /\ \A a \in attempts : a.conn # c
      /\ \A p \in AllPaths : p.conn # c
  BY DEF FreeConns, AllPaths
<1>3. conns'[c].node = node /\ \A k \in Conns \ {c} : conns'[k].node = conns[k].node
  BY <1>1, <1>2, PathFields
<1>4. AllPaths' = AllPaths
  BY DEF AllPaths
<1>5. \A p \in AllPaths : conns'[p.conn].node = conns[p.conn].node
  BY <1>2, <1>3, PathFields
<1>6. PathConns'
  <2>1. new(c).conn = c /\ new(c).seed = seed
    OBVIOUS
  <2>2. \A a \in attempts' : a \in attempts \/ a = new(c)
    BY <1>1
  <2> HIDE DEF new
  <2>3. \A a, b \in attempts' : a # b => a.conn # b.conn
    BY <1>2, <2>1, <2>2 DEF PathsInv, PathConns
  <2>4. ASSUME NEW a \in attempts'
        PROVE  /\ a.conn \notin unused_connections
               /\ \A p \in AllPaths : p.conn # a.conn
               /\ ~a.seed => conns'[a.conn].node \in Nodes
    BY <1>2, <1>3, <2>1, <2>2, PathFields DEF PathsInv, PathConns
  <2>5. \A k \in unused_connections : /\ conns'[k].node \in Nodes
                                      /\ \A p \in AllPaths : p.conn # k
    BY <1>2, <1>3, PathFields DEF PathsInv, PathConns
  <2> QED
    BY <1>4, <2>3, <2>4, <2>5 DEF PathConns
<1>7. FullPaths'
  <2>1. \A p \in AllPaths : /\ conns'[p.conn].node \in Nodes \ p.others
                            /\ Cardinality(p.others) = PathSize - 1
    BY <1>5 DEF PathsInv, FullPaths, AllPaths
  <2>2. \A p \in paths : ({conns'[p.conn].node} \cup p.others) \cap unused_nodes' = {}
    BY <1>5 DEF Apart, NodesOf, AllPaths
  <2> QED
    BY <1>4, <2>1, <2>2 DEF FullPaths, AllPaths, NodesOf, PathsInv
<1> QED
  BY <1>6, <1>7 DEF PathsInv

(* A connection that was being made is open and unused.                    *)
LEMMA PathsConnected ==
    ASSUME Groups, PathsInv, NEW a \in attempts, Connected(a)
    PROVE  PathsInv'
<1>1. /\ ~a.seed
      /\ conns' = [conns EXCEPT ![a.conn].state = "open"]
      /\ attempts' = attempts \ {a}
      /\ unused_connections' = unused_connections \cup {a.conn}
      /\ paths' = paths /\ paths_pending_drop' = paths_pending_drop
      /\ unused_nodes' = unused_nodes
  BY DEF Connected, nodeVars, pathVars
<1>2. \A c \in Conns : conns'[c].node = conns[c].node
  BY <1>1, PathFields
<1>3. AllPaths' = AllPaths
  BY <1>1 DEF AllPaths
<1>4. PathConns'
  <2>1. \A b, d \in attempts' : b # d => b.conn # d.conn
    BY <1>1 DEF PathsInv, PathConns
  <2>2. ASSUME NEW b \in attempts'
        PROVE  /\ b.conn \notin unused_connections'
               /\ \A p \in AllPaths : p.conn # b.conn
               /\ ~b.seed => conns'[b.conn].node \in Nodes
    <3>1. b \in attempts /\ b # a
      BY <1>1
    <3> QED
      BY <1>1, <1>2, <3>1, PathFields DEF PathsInv, PathConns
  <2>3. \A c \in unused_connections' : /\ conns'[c].node \in Nodes
                                       /\ \A p \in AllPaths : p.conn # c
    BY <1>1, <1>2, PathFields DEF PathsInv, PathConns
  <2> QED
    BY <1>3, <2>1, <2>2, <2>3 DEF PathConns
<1>5. FullPaths'
  <2>1. \A p \in AllPaths : conns'[p.conn].node = conns[p.conn].node
    BY <1>2, PathFields
  <2> QED
    BY <1>1, <2>1 DEF PathsInv, FullPaths, AllPaths, NodesOf
<1> QED
  BY <1>4, <1>5 DEF PathsInv

(* The nodes of a new path are taken from those that no path has.          *)
LEMMA PathsStored ==
    ASSUME Groups, PathsInv, NEW id, NEW t \in PathTypes, NEW rest, NEW nodes \in SUBSET Nodes,
           Apart(nodes), NEW c \in unused_connections,
           NEW others \in SUBSET {n \in nodes : Ip[n] # Ip[conns[c].node]},
           Cardinality(others) = PathSize - 1,
           unused_nodes' = {n \in {n \in nodes : Ip[n] # Ip[conns[c].node]} :
                              Ip[n] \notin IpsOf(others)},
           StorePath(id, t, c, others, rest)
    PROVE  PathsInv'
<1> DEFINE path == [conn |-> c, type |-> t, others |-> others, failures |-> 0]
<1>1. /\ paths' = paths \cup {path}
      /\ unused_connections' = unused_connections \ {c}
      /\ UNCHANGED <<conns, attempts, paths_pending_drop>>
  BY Zenon DEF StorePath
<1>2. path.conn = c /\ path.others = others
  OBVIOUS
<1> HIDE DEF path
<1>3. AllPaths' = AllPaths \cup {path}
  BY <1>1 DEF AllPaths
<1>4. /\ conns[c].node \in Nodes /\ \A p \in AllPaths : p.conn # c
      /\ \A a \in attempts : a.conn # c
  BY DEF PathsInv, PathConns
<1>5. PathConns'
  <2>1. \A a, b \in attempts' : a # b => a.conn # b.conn
    BY <1>1 DEF PathsInv, PathConns
  <2>2. \A a \in attempts' : /\ a.conn \notin unused_connections'
                             /\ \A p \in AllPaths' : p.conn # a.conn
                             /\ ~a.seed => conns'[a.conn].node \in Nodes
    BY <1>1, <1>2, <1>3, <1>4 DEF PathsInv, PathConns
  <2>3. \A k \in unused_connections' : /\ conns'[k].node \in Nodes
                                       /\ \A p \in AllPaths' : p.conn # k
    BY <1>1, <1>2, <1>3 DEF PathsInv, PathConns
  <2> QED
    BY <2>1, <2>2, <2>3 DEF PathConns
<1>6. \A p \in paths : /\ p.conn # c
                       /\ p.others \cap others = {}
                       /\ NodesOf(p) \cap unused_nodes' = {}
  BY <1>4 DEF Apart, NodesOf, AllPaths
<1>7. /\ conns[c].node \in Nodes \ others
      /\ ({conns[c].node} \cup others) \cap unused_nodes' = {}
  BY <1>4 DEF IpsOf
<1>8. FullPaths'
  <2>1. \A p \in AllPaths' : /\ conns'[p.conn].node \in Nodes \ p.others
                             /\ Cardinality(p.others) = PathSize - 1
    BY <1>1, <1>2, <1>3, <1>7 DEF PathsInv, FullPaths, AllPaths
  <2>2. \A p \in paths' : ({conns'[p.conn].node} \cup p.others) \cap unused_nodes' = {}
    BY <1>1, <1>2, <1>6, <1>7 DEF NodesOf
  <2>3. \A p, q \in paths' : p # q => p.conn # q.conn /\ p.others \cap q.others = {}
    BY <1>1, <1>2, <1>6 DEF PathsInv, FullPaths
  <2> QED
    BY <2>1, <2>2, <2>3 DEF FullPaths, AllPaths, NodesOf
<1> QED
  BY <1>5, <1>8 DEF PathsInv

LEMMA PathsBuilt ==
    ASSUME Groups, PathsInv, NEW id, NEW t \in PathTypes, NEW rest, BuildPath(id, t, rest)
    PROVE  PathsInv'
<1> DEFINE nodes == UnusedFor(PathSize)
<1>1. nodes \in SUBSET Nodes /\ Apart(nodes)
  BY SomeNodes, UnusedApart DEF Groups
<1>2. CASE /\ unused_nodes' \in {unused_nodes, nodes, {}}
           /\ UNCHANGED <<connVars, pathVars>>
  <2>1. Apart(unused_nodes')
    BY <1>1, <1>2 DEF Apart, PathsInv, FullPaths
  <2>2. UNCHANGED <<conns, attempts, unused_connections, paths, paths_pending_drop>>
    BY <1>2, Zenon DEF connVars, pathVars
  <2> QED
    BY <2>1, <2>2, PathsGo DEF AllPaths
<1>3. CASE \E c \in unused_connections :
           LET able == {n \in nodes : Ip[n] # Ip[conns[c].node]} IN
           \E others \in SUBSET able :
                    /\ Cardinality(others) = PathSize - 1
                    /\ unused_nodes' = {n \in able : Ip[n] \notin IpsOf(others)}
                    /\ StorePath(id, t, c, others, rest)
  <2> HIDE DEF nodes
  <2> QED
    BY <1>1, <1>3, PathsStored
<1>4. \/ /\ unused_nodes' \in {unused_nodes, nodes, {}}
         /\ UNCHANGED <<connVars, pathVars>>
      \/ \E c \in unused_connections :
           LET able == {n \in nodes : Ip[n] # Ip[conns[c].node]} IN
           \E others \in SUBSET able :
                    /\ Cardinality(others) = PathSize - 1
                    /\ unused_nodes' = {n \in able : Ip[n] \notin IpsOf(others)}
                    /\ StorePath(id, t, c, others, rest)
  <2> HIDE DEF nodes
  <2>1. \A task : EnqueueBuild(id, t, task, rest) => UNCHANGED <<connVars, pathVars>>
    BY Zenon DEF EnqueueBuild
  <2> QED
    BY <2>1 DEF BuildPath, nodes
<1> QED
  BY <1>2, <1>3, <1>4

(* A node that replaces another in a path is in no path yet.               *)
LEMMA PathsRepaired ==
    ASSUME Groups, PathsInv, NEW p \in paths, NEW bad, NEW new,
           \/ bad \in p.others /\ new \in unused_nodes
           \/ new = None,
           UNCHANGED connVars,
           paths' = (paths \ {p}) \cup {Repaired(p, bad, new)},
           paths_pending_drop' \subseteq paths_pending_drop,
           unused_nodes' = unused_nodes \ {new}
    PROVE  PathsInv'
<1> DEFINE n == Repaired(p, bad, new)
<1>1. /\ p \in Path /\ p \in AllPaths /\ None \notin Nodes /\ unused_nodes \subseteq Nodes
      /\ conns' = conns /\ attempts' = attempts /\ unused_connections' = unused_connections
  BY PathFields, NodesAssumption DEF AllPaths, connVars, Groups, NodesOK
<1>2. /\ n.conn = p.conn
      /\ n.others = IF new = None THEN p.others ELSE (p.others \ {bad}) \cup {new}
  BY <1>1 DEF Repaired, Path
<1> HIDE DEF n
<1>3. /\ conns[p.conn].node \in Nodes \ p.others
      /\ p.others \subseteq Nodes
      /\ Cardinality(p.others) = PathSize - 1
      /\ NodesOf(p) \cap unused_nodes = {}
      /\ \A q \in paths : q # p => /\ q.conn # p.conn /\ q.others \cap p.others = {}
      /\ \A q \in paths : NodesOf(q) \cap unused_nodes = {}
  BY <1>1, PathFields DEF PathsInv, FullPaths, AllPaths
<1>4. Cardinality(n.others) = PathSize - 1
  <2>1. CASE new = None
    BY <1>2, <1>3, <2>1
  <2>2. CASE bad \in p.others /\ new \in unused_nodes
    <3>1. new \notin p.others /\ n.others = (p.others \ {bad}) \cup {new}
      BY <1>1, <1>2, <1>3, <2>2 DEF NodesOf
    <3>2. IsFiniteSet(p.others) /\ IsFiniteSet(p.others \ {bad})
      BY <1>3, NodesAssumption, FS_Subset
    <3>3. Cardinality(p.others \ {bad}) = Cardinality(p.others) - 1
      BY <2>2, <3>2, FS_RemoveElement
    <3>4. Cardinality((p.others \ {bad}) \cup {new}) = Cardinality(p.others \ {bad}) + 1
      BY <3>1, <3>2, FS_AddElement
    <3>5. Cardinality(p.others) \in Nat
      BY <3>2, FS_CardinalityType
    <3> QED
      BY <1>3, <3>1, <3>3, <3>4, <3>5
  <2> QED
    BY <2>1, <2>2
<1>5. /\ conns[n.conn].node \in Nodes \ n.others
      /\ ({conns[n.conn].node} \cup n.others) \cap unused_nodes' = {}
      /\ \A q \in paths : q # p => q.conn # n.conn /\ q.others \cap n.others = {}
  BY <1>1, <1>2, <1>3 DEF NodesOf
<1>6. AllPaths' \subseteq AllPaths \cup {n}
  BY DEF AllPaths, n
<1>7. PathConns'
  BY <1>1, <1>2, <1>6 DEF PathsInv, PathConns
<1>8. FullPaths'
  <2>1. \A q \in AllPaths' : /\ conns[q.conn].node \in Nodes \ q.others
                             /\ Cardinality(q.others) = PathSize - 1
    BY <1>4, <1>5, <1>6 DEF PathsInv, FullPaths, AllPaths
  <2>2. \A q \in paths' : ({conns[q.conn].node} \cup q.others) \cap unused_nodes' = {}
    BY <1>3, <1>5 DEF NodesOf, n
  <2>3. \A q, r \in paths' : q # r => q.conn # r.conn /\ q.others \cap r.others = {}
    BY <1>5 DEF PathsInv, FullPaths, n
  <2> QED
    BY <1>1, <2>1, <2>2, <2>3 DEF FullPaths, AllPaths, NodesOf
<1> QED
  BY <1>7, <1>8 DEF PathsInv

(* The path is blamed: it is repaired, given up or left alone.             *)
LEMMA PathsBlamed ==
    ASSUME Groups, PathsInv, NEW m, NEW p \in AllPaths, NEW bad, NEW new, NEW inner,
           \/ bad \in p.others /\ new \in unused_nodes
           \/ new = None,
           BlamePath(m, p, bad, new, inner), UNCHANGED connVars
    PROVE  PathsInv'
<1>1. unused_nodes' = unused_nodes \ {new}
  BY DEF BlamePath
<1>2. Apart(unused_nodes') /\ \A c \in Conns : conns'[c].node = conns[c].node
  BY <1>1 DEF Apart, PathsInv, FullPaths, connVars
<1>3. \A D : StillBusy(D, Answered(m)) \subseteq D /\ Cleared(m, D, inner) \subseteq D
  BY DEF Cleared, StillBusy
<1>4. CASE paths' = paths /\ paths_pending_drop' = Cleared(m, paths_pending_drop, inner)
  BY <1>2, <1>3, <1>4, PathsGo DEF AllPaths, connVars
<1>5. CASE /\ p \in paths
           /\ paths' = paths \ {p}
           /\ paths_pending_drop' = StillBusy(paths_pending_drop \cup {p}, Answered(m))
  BY <1>2, <1>3, <1>5, PathsGo DEF AllPaths, connVars
<1>6. CASE /\ p \in paths
           /\ paths' = (paths \ {p}) \cup {Repaired(p, bad, new)}
           /\ paths_pending_drop' = Cleared(m, paths_pending_drop, inner)
  <2>1. paths_pending_drop' \subseteq paths_pending_drop
    BY <1>3, <1>6
  <2> QED
    BY <1>1, <1>6, <2>1, PathsRepaired
<1> QED
  BY <1>4, <1>5, <1>6, Zenon DEF BlamePath

LEMMA PathsErrors ==
    ASSUME Groups, PathsInv, NEW m, NEW status, NEW timeout, NEW bad, NEW inner,
           UNCHANGED connVars, HandleErrors(m, status, timeout, bad, inner)
    PROVE  PathsInv'
<1>1. ASSUME NoPathChange(m, inner)
      PROVE  PathsInv'
  <2>1. /\ paths' = paths /\ unused_nodes' = unused_nodes
        /\ paths_pending_drop' \subseteq paths_pending_drop
    BY <1>1 DEF NoPathChange, Cleared, StillBusy
  <2> QED
    BY <2>1, PathsGo DEF AllPaths, Apart, PathsInv, FullPaths, connVars
<1>2. ASSUME Blame(m, bad, inner)
      PROVE  PathsInv'
  <2>1. \/ NoPathChange(m, inner)
        \/ \E p \in AllPaths :
           \E new \in IF bad \in p.others /\ unused_nodes # {} THEN unused_nodes ELSE {None} :
              BlamePath(m, p, bad, new, inner)
    BY <1>2 DEF Blame, AllPaths, PathsOf
  <2>2. ASSUME NEW p \in AllPaths,
               NEW new \in IF bad \in p.others /\ unused_nodes # {} THEN unused_nodes ELSE {None},
               BlamePath(m, p, bad, new, inner)
        PROVE  PathsInv'
    BY <2>2, PathsBlamed
  <2> QED
    BY <1>1, <2>1, <2>2
<1> QED
  BY <1>1, <1>2, Zenon DEF HandleErrors

(* What a step may leave alone.                                            *)
LEMMA PathsKept ==
    ASSUME Groups, PathsInv,
           UNCHANGED <<conns, attempts, unused_connections, paths>>,
           paths_pending_drop' \subseteq paths_pending_drop,
           Apart(unused_nodes')
    PROVE  PathsInv'
  BY PathsGo DEF AllPaths

LEMMA NodesKept == PathsInv => Apart(unused_nodes)
  BY DEF PathsInv, FullPaths, Apart

LEMMA PathsLookup ==
    ASSUME Groups, PathsInv, NEW m, NEW others, Lookup(m, others)
    PROVE  PathsInv'
<1>1. UNCHANGED <<conns, attempts, unused_connections, paths, paths_pending_drop>>
  BY Zenon DEF Lookup, connVars, pathVars
<1>2. \/ unused_nodes' \in {unused_nodes, UnusedFor(Count)}
      \/ \E S : unused_nodes' = UnusedFor(Count) \ S
  BY DEF Lookup, GetSwarm, GetRandomNodes
<1>3. Apart(unused_nodes')
  BY <1>2, UnusedApart, NodesKept DEF Apart
<1> QED
  BY <1>1, <1>3, PathsKept

(* The tasks that may begin a connection.                                  *)
LEMMA PathsDialled ==
    ASSUME Groups, PathsInv,
           \/ \E i \in Ids : EstablishTask(i)
           \/ \E i : SeedTask(i)
           \/ \E t \in tasks : RefreshTask(t)
    PROVE  PathsInv'
<1> DEFINE still == UNCHANGED <<unused_connections, paths, paths_pending_drop>>
<1>1. CASE still /\ UNCHANGED <<conns, attempts>> /\ Apart(unused_nodes')
  BY <1>1, PathsKept
<1>2. ASSUME NEW id, NEW node, NEW seed \in BOOLEAN, FreeConns # {},
             Connect(id, node, seed), seed \/ node \in Nodes, still, Apart(unused_nodes')
      PROVE  PathsInv'
  BY <1>2, PathsConnect
<1>3. ASSUME NEW i \in Ids, EstablishTask(i)
      PROVE  PathsInv'
  <2> DEFINE nodes == UnusedFor(1)
  <2>1. Apart(nodes) /\ nodes \subseteq Nodes /\ Apart(unused_nodes)
    BY UnusedApart, SomeNodes, NodesKept DEF Groups
  <2>2. \A n : Apart(nodes \ {n})
    BY <2>1 DEF Apart
  <2>3. still
    BY <1>3, Zenon DEF EstablishTask, connVars
  <2>4. \/ UNCHANGED <<conns, attempts>> /\ unused_nodes' \in {unused_nodes, nodes}
        \/ /\ FreeConns # {}
           /\ \E n \in nodes : unused_nodes' = nodes \ {n} /\ Connect(i, n, FALSE)
    BY <1>3 DEF EstablishTask, connVars
  <2> HIDE DEF nodes, still
  <2> QED
    BY <1>1, <1>2, <2>1, <2>2, <2>3, <2>4
<1>4. ASSUME NEW i, SeedTask(i)
      PROVE  PathsInv'
  <2>1. still /\ unused_nodes' = unused_nodes
    BY <1>4, Zenon DEF SeedTask, nodeVars
  <2>2. \/ UNCHANGED <<conns, attempts>>
        \/ FreeConns # {} /\ Connect(i, None, TRUE)
    BY <1>4, Zenon DEF SeedTask
  <2> HIDE DEF still
  <2> QED
    BY <1>1, <1>2, <2>1, <2>2, NodesKept
<1>5. ASSUME NEW t \in tasks, RefreshTask(t)
      PROVE  PathsInv'
  <2> DEFINE nodes == UnusedFor(MinSnodeCacheSize)
  <2>1. Apart(nodes) /\ Apart(unused_nodes)
    BY UnusedApart, NodesKept
  <2>2. \A n : Apart(nodes \ {n})
    BY <2>1 DEF Apart
  <2>3. still
    BY <1>5, Zenon DEF RefreshTask
  <2>4. \/ UNCHANGED <<conns, attempts, unused_nodes>>
        \/ unused_nodes' = nodes /\ FreeConns # {} /\ Connect(t.id, None, TRUE)
        \/ /\ UNCHANGED <<conns, attempts>>
           /\ \E n \in nodes : unused_nodes' = nodes \ {n}
    BY <1>5, Zenon DEF RefreshTask
  <2>5. Apart(unused_nodes')
    BY <2>1, <2>2, <2>4
  <2> HIDE DEF nodes, still
  <2> QED
    BY <1>1, <1>2, <2>3, <2>4, <2>5
<1> QED
  BY <1>3, <1>4, <1>5

(* The answers of nodes and seed nodes, and connections that close.        *)
LEMMA PathsClosing ==
    ASSUME Groups, PathsInv,
           \/ \E a \in attempts : \E A : SeedAnswers(a, A)
           \/ \E a \in attempts, t \in BOOLEAN : AttemptFails(a, t)
           \/ \E c \in Conns : ConnectionCloses(c)
           \/ \E s \in BOOLEAN : CloseConnections(s)
    PROVE  PathsInv'
<1>1. \A a \in attempts : a.conn \in Conns
  BY PathFields
<1>2. ASSUME NEW c \in Conns, NEW s, conns' = [conns EXCEPT ![c].state = s]
      PROVE  \A k \in Conns : conns'[k].node = conns[k].node
  BY <1>2, PathFields
<1>3. \A D, pending : StillBusy(D, pending) \subseteq D
  BY DEF StillBusy
<1>4. ASSUME NEW a \in attempts, NEW A, SeedAnswers(a, A)
      PROVE  PathsInv'
  <2>1. /\ conns' = [conns EXCEPT ![a.conn].state = "closed"] /\ attempts' = attempts \ {a}
        /\ UNCHANGED <<unused_nodes, unused_connections, paths>>
        /\ paths_pending_drop' \subseteq paths_pending_drop
    BY <1>3, <1>4 DEF SeedAnswers
  <2> QED
    BY <1>1, <1>2, <2>1, PathsGo, NodesKept DEF AllPaths
<1>5. ASSUME NEW a \in attempts, NEW t, AttemptFails(a, t)
      PROVE  PathsInv'
  <2>1. /\ conns' = [conns EXCEPT ![a.conn].state = "closed"] /\ attempts' = attempts \ {a}
        /\ UNCHANGED <<unused_nodes, unused_connections, paths>>
        /\ paths_pending_drop' \subseteq paths_pending_drop
    BY <1>3, <1>5 DEF AttemptFails
  <2> QED
    BY <1>1, <1>2, <2>1, PathsGo, NodesKept DEF AllPaths
<1>6. ASSUME NEW c \in Conns, ConnectionCloses(c)
      PROVE  PathsInv'
  <2>1. /\ conns' = [conns EXCEPT ![c].state = "closed"] /\ attempts' = attempts
        /\ unused_nodes' = unused_nodes
        /\ unused_connections' \subseteq unused_connections /\ paths' \subseteq paths
        /\ paths_pending_drop' \subseteq AllPaths
    BY <1>3, <1>6 DEF ConnectionCloses, AllPaths, nodeVars
  <2> QED
    BY <1>2, <2>1, PathsGo, NodesKept
<1>7. ASSUME NEW s, CloseConnections(s)
      PROVE  PathsInv'
  <2>1. /\ conns' = [c \in Conns |-> [conns[c] EXCEPT !.state = "closed"]] /\ attempts' = attempts
        /\ unused_nodes' = unused_nodes
        /\ unused_connections' = {} /\ paths' = {} /\ paths_pending_drop' = {}
    BY <1>7, Zenon DEF CloseConnections, nodeVars
  <2>2. \A k \in Conns : conns'[k].node = conns[k].node
    BY <2>1, PathFields
  <2> QED
    BY <2>1, <2>2, PathsGo, NodesKept
<1> QED
  BY <1>4, <1>5, <1>6, <1>7

LEMMA PathsStep ==
    ASSUME Groups, PathsInv, [Next]_vars
    PROVE  PathsInv'
<1> DEFINE roles == <<conns, attempts, unused_connections, paths>>
<1>1. ASSUME UNCHANGED roles, paths_pending_drop' = paths_pending_drop,
             unused_nodes' = unused_nodes
      PROVE  PathsInv'
  BY <1>1, PathsKept, NodesKept
<1>2. CASE Application
  <2>1. ASSUME NEW r, CallOnLoop(r) \/ Call(r)
        PROVE  PathsInv'
    BY <1>1, <2>1, Zenon DEF CallOnLoop, Call, sendUnchanged, nodeVars, connVars
  <2>2. ASSUME NEW r, CallLookup(r)
        PROVE  PathsInv'
    BY <2>2, PathsLookup, Zenon DEF CallLookup
  <2>3. CASE Resume
    BY <1>1, <2>3, Zenon DEF Resume, nodeVars, connVars, pathVars
  <2> QED
    BY <1>2, <2>1, <2>2, <2>3, PathsClosing, Zenon DEF Application
<1>3. CASE Tasks
  <2>1. ASSUME NEW i, NEW t \in PathTypes, BuildTask(i, t)
        PROVE  PathsInv'
    BY <2>1, PathsBuilt, Zenon DEF BuildTask
  <2>2. ASSUME NEW t \in tasks, NeededTask(t)
        PROVE  PathsInv'
    <3>1. t.type \in PathTypes
      BY <2>2, TaskFields DEF NeededTask, Groups, TasksOK
    <3> QED
      BY <1>1, <2>2, <3>1, PathsBuilt, Zenon DEF NeededTask, nodeVars, connVars, pathVars
  <2>3. ASSUME NEW l, CheckTask(l)
        PROVE  PathsInv'
    BY <1>1, <2>3, Zenon DEF CheckTask, nodeVars, connVars, pathVars
  <2>4. ASSUME NEW m, RunResumed(m)
        PROVE  PathsInv'
    BY <2>4, PathsLookup, Zenon DEF RunResumed
  <2>5. ASSUME NEW m, RunScheduled(m)
        PROVE  PathsInv'
    BY <1>1, <2>5, Zenon DEF RunScheduled, sendUnchanged, nodeVars, connVars
  <2> QED
    BY <1>3, <2>1, <2>2, <2>3, <2>4, <2>5, PathsDialled, Zenon DEF Tasks
<1>4. CASE Remote
  <2>1. ASSUME NEW m, NEW A, ProbeAnswers(m, A)
        PROVE  PathsInv'
    <3>1. UNCHANGED roles /\ unused_nodes' = unused_nodes
      BY <2>1, Zenon DEF ProbeAnswers, connVars
    <3>2. paths_pending_drop' \subseteq paths_pending_drop
      BY <2>1 DEF ProbeAnswers, Cleared, StillBusy
    <3> QED
      BY <3>1, <3>2, PathsKept, NodesKept
  <2>2. ASSUME NEW m, NEW b, Replies(m, b)
        PROVE  PathsInv'
    <3>1. UNCHANGED connVars
      BY <2>2, Zenon DEF Replies, answerUnchanged
    <3>2. ASSUME NoPathChange(m, TRUE)
          PROVE  PathsInv'
      <4>1. UNCHANGED roles /\ unused_nodes' = unused_nodes
        BY <3>1, <3>2, Zenon DEF NoPathChange, connVars
      <4>2. paths_pending_drop' \subseteq paths_pending_drop
        BY <3>2 DEF NoPathChange, Cleared, StillBusy
      <4> QED
        BY <4>1, <4>2, PathsKept, NodesKept
    <3> QED
      BY <2>2, <3>1, <3>2, PathsErrors, Zenon DEF Replies
  <2> QED
    BY <1>4, <2>1, <2>2, PathsConnected, PathsClosing, Zenon DEF Remote
<1>5. CASE Failures
  <2>1. ASSUME NEW m, UNCHANGED connVars, NoPathChange(m, TRUE)
        PROVE  PathsInv'
    <3>1. UNCHANGED roles /\ unused_nodes' = unused_nodes
      BY <2>1, Zenon DEF NoPathChange, connVars
    <3>2. paths_pending_drop' \subseteq paths_pending_drop
      BY <2>1 DEF NoPathChange, Cleared, StillBusy
    <3> QED
      BY <3>1, <3>2, PathsKept, NodesKept
  <2>2. ASSUME NEW m, Undecipherable(m) \/ ProbeGarbled(m)
        PROVE  PathsInv'
    BY <2>1, <2>2, PathsErrors, Zenon DEF Undecipherable, ProbeGarbled, answerUnchanged
  <2>3. ASSUME NEW m, NEW s, NEW t, NEW n, Fails(m, s, t, n)
        PROVE  PathsInv'
    BY <2>3, PathsErrors, Zenon DEF Fails, answerUnchanged
  <2> QED
    BY <1>5, <2>2, <2>3, PathsClosing, Zenon DEF Failures
<1>6. CASE Threads
  <2>1. ASSUME NEW m, Proceed(m) \/ Store(m) \/ Expire(m)
        PROVE  PathsInv'
    BY <1>1, <2>1, Zenon DEF Proceed, Store, Expire, sendUnchanged, nodeVars, connVars
  <2> QED
    BY <1>6, <2>1, Zenon DEF Threads
<1>7. CASE UNCHANGED vars
  BY <1>1, <1>7, Zenon DEF vars, nodeVars, connVars, pathVars
<1> QED
  BY <1>2, <1>3, <1>4, <1>5, <1>6, <1>7 DEF Next

LEMMA PathsAlways == Spec => [](Groups /\ PathsInv)
<1>1. Init => PathsInv
  BY DEF Init, PathsInv, FullPaths, PathConns, AllPaths
<1>2. Groups /\ PathsInv /\ [Next]_vars => PathsInv'
  BY PathsStep
<1> QED
  BY <1>1, <1>2, GroupsAlways, PTL DEF Spec

(* Whatever connections fail or close and whatever nodes are replaced after *)
(* errors, every path has PathSize different nodes, no two paths share any *)
(* but their guard, and what handle_errors() will put into a path next is  *)
(* in none of them.                                                        *)
THEOREM PathsAlwaysFull == Spec => []FullPaths
<1>1. PathsInv => FullPaths
  BY DEF PathsInv
<1> QED
  BY <1>1, PathsAlways, PTL

-----------------------------------------------------------------------------
(* Refreshes of the snode cache have an id, also those a probe asks for    *)
(* when it fails.                                                          *)
RefreshTasks(T) == \A t \in T : t.op = "refresh" => t.id # None
ProbeIds(M) == \A m \in M : m.req \in Probes => m.rid # None
RefreshIds == RefreshTasks(tasks) /\ ProbeIds(msgs)

LEMMA NoneIsNoId == None \notin Ids /\ None \notin Reqs
  BY NumbersAssumption, CallsAssumption DEF Ids

LEMMA OtherTasks ==
    /\ \A i, t : Build(i, t).op = "build"
    /\ \A i : Establish(i).op = "establish" /\ Seed(i).op = "seed"
    /\ \A m, t, f : Needed(m, t, f).op = "needed"
    /\ \A l : Check(l).op = "check"
    /\ \A i, p : Refresh(i, p).op = "refresh" /\ Refresh(i, p).id = i
  BY DEF Build, Establish, Seed, Needed, Check, Refresh

LEMMA SameRefresh ==
    ASSUME NEW m \in Msg
    PROVE  /\ \A s : [m EXCEPT !.at = s].rid = m.rid
           /\ \A c : [m EXCEPT !.conn = c].rid = m.rid
           /\ \A s, c : [m EXCEPT !.at = s, !.conn = c].rid = m.rid
           /\ \A s, d, r : [m EXCEPT !.at = s, !.dest = d, !.retry = r].rid = m.rid
           /\ \A d, r : [m EXCEPT !.dest = d, !.retry = r].rid = m.rid
           /\ \A r : [m EXCEPT !.retry = r].rid = m.rid
           /\ \A l : [m EXCEPT !.late = l].rid = m.rid
           /\ \A s, l : [m EXCEPT !.at = s, !.load = l].rid = m.rid
  BY DEF Msg

LEMMA RetryIds ==
    ASSUME NEW S, ProbeIds(S)
    PROVE  RefreshTasks(Retry(S))
<1>1. \A m \in {n \in S : n.req \in Probes} : Refresh(m.rid, m.req).id # None
  BY OtherTasks DEF ProbeIds
<1> QED
  BY <1>1 DEF RefreshTasks, Retry

LEMMA IdsOfBoth ==
    /\ \A S, T : RefreshTasks(S) /\ RefreshTasks(T) => RefreshTasks(S \cup T)
    /\ \A S, T : RefreshTasks(T) /\ S \subseteq T => RefreshTasks(S)
    /\ \A t : t.op # "refresh" => RefreshTasks({t})
    /\ \A S, T : ProbeIds(S) /\ ProbeIds(T) => ProbeIds(S \cup T)
    /\ \A S, T : ProbeIds(T) /\ S \subseteq T => ProbeIds(S)
  BY DEF RefreshTasks, ProbeIds

LEMMA BecomesIds ==
    ASSUME NEW m, NEW n, n.req = m.req, n.rid = m.rid, ProbeIds({m})
    PROVE  ProbeIds({n})
  BY DEF ProbeIds

LEMMA SendIds ==
    ASSUME NEW m \in Msg, NEW others, NEW rest, SendOnLoop(m, others, rest),
           ProbeIds({m}), ProbeIds(others), RefreshTasks(rest)
    PROVE  RefreshIds'
<1> DEFINE queued == [m EXCEPT !.at = "queued"]
           sent(c) == [m EXCEPT !.at = "inflight", !.conn = c]
<1>1. ProbeIds({queued}) /\ \A c : ProbeIds({sent(c)})
  <2>1. queued.req = m.req /\ queued.rid = m.rid
    BY SameCall, SameRefresh
  <2>2. \A c : sent(c).req = m.req /\ sent(c).rid = m.rid
    BY SameCall, SameRefresh
  <2> HIDE DEF queued, sent
  <2> QED
    BY <2>1, <2>2, BecomesIds
<1>2. RefreshTasks(Retry({m})) /\ \A l : RefreshTasks({Check(l)})
  BY RetryIds, OtherTasks DEF RefreshTasks
<1>3. \A t, f : RefreshTasks(rest \cup {Needed(m, t, f)})
  BY OtherTasks DEF RefreshTasks
<1> DEFINE next == rest \cup {Needed(m, PathTypeOf(m), FindValidPath(m, PathsOf(PathTypeOf(m))) # {})}
<1>4. RefreshTasks(next)
  BY <1>3
<1>5. \/ msgs' = others \cup {queued}
      \/ msgs' = others
      \/ \E c : msgs' = others \cup {sent(c)}
  BY Zenon DEF SendOnLoop
<1>6. \/ tasks' = next \cup (IF IsTimed(m) THEN {Check(FALSE)} ELSE {})
      \/ tasks' = next \cup Retry({m})
      \/ tasks' = next
  BY Zenon DEF SendOnLoop
<1> HIDE DEF queued, sent, next
<1>7. ProbeIds(msgs')
  BY <1>1, <1>5, IdsOfBoth
<1>8. RefreshTasks(tasks')
  BY <1>2, <1>4, <1>6 DEF RefreshTasks
<1> QED
  BY <1>7, <1>8, Zenon DEF RefreshIds, RefreshTasks, ProbeIds

LEMMA LookupIds ==
    ASSUME RefreshIds, NEW m \in Msg, NEW others, Lookup(m, others),
           ProbeIds({m}), ProbeIds(others)
    PROVE  RefreshIds'
<1> DEFINE later == [m EXCEPT !.at = "after", !.conn = None]
           sent(n) == [m EXCEPT !.at = "scheduled", !.dest = n, !.retry = "redirect_swarm_refresh"]
<1>1. ProbeIds({later}) /\ \A n : ProbeIds({sent(n)})
  <2>1. later.req = m.req /\ later.rid = m.rid
    BY SameCall, SameRefresh
  <2>2. \A n : sent(n).req = m.req /\ sent(n).rid = m.rid
    BY SameCall, SameRefresh
  <2> HIDE DEF later, sent
  <2> QED
    BY <2>1, <2>2, BecomesIds
<1>2. CASE WaitForRefresh(m, others)
  <2>1. Least(Unused({})) # None
    BY <1>2, LeastUnused, NoneIsNoId DEF WaitForRefresh
  <2>2. tasks' = tasks \cup {Refresh(Least(Unused({})), None)} /\ msgs' = others \cup {later}
    BY <1>2, Zenon DEF WaitForRefresh
  <2> HIDE DEF later
  <2>3. RefreshTasks(tasks')
    BY <2>1, <2>2, OtherTasks DEF RefreshTasks, RefreshIds
  <2>4. ProbeIds(msgs')
    BY <1>1, <2>2, IdsOfBoth
  <2> QED
    BY <2>3, <2>4, Zenon DEF RefreshIds, RefreshTasks, ProbeIds
<1>3. CASE tasks' = tasks /\ (msgs' = others \/ \E n : msgs' = others \cup {sent(n)})
  <2> HIDE DEF sent
  <2>1. ProbeIds(msgs')
    BY <1>1, <1>3, IdsOfBoth
  <2> QED
    BY <1>3, <2>1, Zenon DEF RefreshIds, RefreshTasks, ProbeIds
<1>4. \A S : GotSwarm(m, S, others) =>
         tasks' = tasks /\ (msgs' = others \/ \E n : msgs' = others \cup {sent(n)})
  BY Zenon DEF GotSwarm
<1>5. \/ WaitForRefresh(m, others)
      \/ \E S : GotSwarm(m, S, others)
      \/ tasks' = tasks /\ msgs' = others
  BY Zenon DEF Lookup, GetSwarm, GetRandomNodes
<1> QED
  BY <1>2, <1>3, <1>4, <1>5

LEMMA ShiftedIds ==
    ASSUME NEW M \in SUBSET Msg, NEW S \in SUBSET M, NEW s, ProbeIds(M)
    PROVE  ProbeIds(Shifted(M, S, s))
<1>1. \A m \in S : [m EXCEPT !.at = s].req = m.req /\ [m EXCEPT !.at = s].rid = m.rid
  BY SameCall, SameRefresh
<1> QED
  BY <1>1 DEF Shifted, ProbeIds

LEMMA IdsNext == RefreshIds' <=> RefreshTasks(tasks') /\ ProbeIds(msgs')
  BY Zenon DEF RefreshIds, RefreshTasks, ProbeIds

LEMMA BuildPathIds ==
    ASSUME Groups, RefreshIds, NEW id, NEW t, NEW rest, BuildPath(id, t, rest), rest \subseteq tasks
    PROVE  RefreshIds'
<1> DEFINE queued == {m \in At("queued") : PathTypeOf(m) = t}
           ready(p) == {m \in queued : FindValidPath(m, {p}) # {}}
<1>1. msgs' = msgs \/ \E p : msgs' = Shifted(msgs, ready(p), "scheduled")
  BY Zenon DEF BuildPath, EnqueueBuild, StorePath, Shifted
<1>2. \A p : ready(p) \subseteq msgs
  BY Zenon DEF At
<1>3. msgs \in SUBSET Msg /\ ProbeIds(msgs) /\ RefreshTasks(rest)
  BY DEF Groups, MsgsOK, RefreshIds, RefreshTasks
<1> HIDE DEF ready
<1>4. ProbeIds(msgs')
  BY <1>1, <1>2, <1>3, ShiftedIds
<1>5. \/ tasks' = rest
      \/ \E i : tasks' = rest \cup {Build(i, t)} \/ tasks' = rest \cup {Establish(i)}
      \/ Unused({id}) # {} /\ tasks' = rest \cup {Refresh(Least(Unused({id})), None)}
  BY Zenon DEF BuildPath, EnqueueBuild, StorePath
<1>6. Unused({id}) # {} => Least(Unused({id})) # None
  BY LeastUnused, NoneIsNoId
<1>7. RefreshTasks(tasks')
  <2>1. \A i : RefreshTasks({Build(i, t)}) /\ RefreshTasks({Establish(i)})
    BY OtherTasks DEF RefreshTasks
  <2>2. \A i : i # None => RefreshTasks({Refresh(i, None)})
    BY OtherTasks DEF RefreshTasks
  <2>3. \A x : RefreshTasks({x}) => RefreshTasks(rest \cup {x})
    BY <1>3, IdsOfBoth
  <2>4. ASSUME NEW x, RefreshTasks({x}), tasks' = rest \cup {x}
        PROVE  RefreshTasks(tasks')
    BY <2>3, <2>4
  <2> QED
    BY <1>3, <1>5, <1>6, <2>1, <2>2, <2>4
<1> QED
  BY <1>4, <1>7, IdsNext

LEMMA BuildIds ==
    ASSUME Groups, RefreshIds,
           \/ \E i, t : BuildTask(i, t)
           \/ \E t \in tasks : NeededTask(t)
    PROVE  RefreshIds'
<1>1. ASSUME NEW id, NEW t, NEW u, BuildPath(id, t, tasks \ {u})
      PROVE  RefreshIds'
  <2>1. tasks \ {u} \subseteq tasks
    OBVIOUS
  <2> QED
    BY <1>1, <2>1, BuildPathIds
<1>2. ASSUME NEW u, msgs' = msgs, tasks' = tasks \ {u}
      PROVE  RefreshIds'
  BY <1>2, IdsNext DEF RefreshIds, RefreshTasks
<1> QED
  BY <1>1, <1>2, Zenon DEF BuildTask, NeededTask, reqVars

LEMMA AttemptIds ==
    ASSUME Groups, RefreshIds,
           \/ \E i \in Ids : EstablishTask(i)
           \/ \E i : SeedTask(i)
           \/ \E a \in attempts : Connected(a) \/ \E t \in BOOLEAN : AttemptFails(a, t)
           \/ \E c : ConnectionCloses(c)
           \/ Resume \/ UNCHANGED vars
    PROVE  RefreshIds'
<1>1. msgs' = msgs
  BY Zenon DEF EstablishTask, SeedTask, Connected, AttemptFails, ConnectionCloses, Resume, vars, reqVars
<1>2. \/ tasks' \subseteq tasks
      \/ \E i \in Ids, S \in SUBSET tasks : tasks' = S \cup {Refresh(i, None)}
      \/ \E i, t : tasks' = tasks \cup {t} /\ t \in {Establish(i), Seed(i)}
      \/ \E i, t : tasks' = tasks \cup {Build(i, t)}
  <2>1. ASSUME NEW i \in Ids, EstablishTask(i)
        PROVE  \/ tasks' \subseteq tasks
               \/ \E k \in Ids, S \in SUBSET tasks : tasks' = S \cup {Refresh(k, None)}
    <3>1. tasks \ {Establish(i)} \in SUBSET tasks
      OBVIOUS
    <3>2. Unused({i}) # {} => Least(Unused({i})) \in Ids
      BY LeastUnused
    <3>3. \/ tasks' = tasks \ {Establish(i)}
          \/ tasks' = (tasks \ {Establish(i)}) \cup {Refresh(i, None)}
          \/ Unused({i}) # {} /\ tasks' = (tasks \ {Establish(i)}) \cup {Refresh(Least(Unused({i})), None)}
      BY <2>1, Zenon DEF EstablishTask
    <3>4. \A T : T = tasks \ {Establish(i)} => T \subseteq tasks
      OBVIOUS
    <3> QED
      BY <3>1, <3>2, <3>3, <3>4, Zenon
  <2>2. ASSUME NEW i, SeedTask(i)
        PROVE  tasks' \subseteq tasks
    BY <2>2 DEF SeedTask
  <2>3. ASSUME NEW a, Connected(a)
        PROVE  tasks' \subseteq tasks \/ \E i, t : tasks' = tasks \cup {Build(i, t)}
    <3>1. tasks' = tasks \/ \E i, t : tasks' = tasks \cup {Build(i, t)}
      BY <2>3, Zenon DEF Connected
    <3> QED
      BY <3>1
  <2>4. ASSUME NEW a, NEW t, AttemptFails(a, t)
        PROVE  \E i, k : tasks' = tasks \cup {k} /\ k \in {Establish(i), Seed(i)}
    <3>1. tasks' = tasks \cup {IF a.seed THEN Seed(a.id) ELSE Establish(a.id)}
      BY <2>4, Zenon DEF AttemptFails
    <3> QED
      BY <3>1
  <2>5. ASSUME (\E c : ConnectionCloses(c)) \/ Resume \/ UNCHANGED vars
        PROVE  tasks' \subseteq tasks
    <3>1. tasks' = tasks
      BY <2>5, Zenon DEF ConnectionCloses, Resume, vars
    <3> QED
      BY <3>1
  <2> QED
    BY <2>1, <2>2, <2>3, <2>4, <2>5
<1>3. RefreshTasks(tasks')
  BY <1>2, OtherTasks, NoneIsNoId DEF RefreshTasks, RefreshIds
<1> QED
  BY <1>1, <1>3, IdsNext DEF RefreshIds

LEMMA CompleteIds ==
    ASSUME Groups, RefreshIds, NEW A, NEW others \in SUBSET msgs, Complete(A, others)
    PROVE  RefreshIds'
<1> DEFINE waiting == {m \in others : m.at = "after"}
           builds(ids, f) == {Build(i, f[i]) : i \in ids}
           queued == {b \in PathTypes \X (1..MaxIds) : b[2] <= path_build_queue[b[1]]}
           ids == FirstOf(Unused({}), Cardinality(queued))
<1>1. /\ msgs' = Shifted(others, waiting, "resumed")
      /\ \E f \in [ids -> PathTypes] : tasks' = tasks \cup builds(ids, f)
  BY Zenon DEF Complete, Shifted
<1>2. \A f : RefreshTasks(builds(ids, f))
  <2>1. \A f : \A t \in builds(ids, f) : \E i, u : t = Build(i, u)
    BY Zenon
  <2>2. \A f : \A t \in builds(ids, f) : t.op # "refresh"
    <3> HIDE DEF builds, ids
    <3> QED
      BY <2>1, OtherTasks
  <2> HIDE DEF builds
  <2> QED
    BY <2>2 DEF RefreshTasks
<1>3. others \in SUBSET Msg /\ ProbeIds(others) /\ waiting \in SUBSET others
  BY DEF Groups, MsgsOK, RefreshIds, ProbeIds
<1> HIDE DEF waiting, builds, ids
<1>4. ProbeIds(msgs')
  BY <1>1, <1>3, ShiftedIds
<1>5. RefreshTasks(tasks')
  BY <1>1, <1>2, IdsOfBoth DEF RefreshIds
<1> QED
  BY <1>4, <1>5, IdsNext

LEMMA RefreshTaskIds ==
    ASSUME Groups, RefreshIds, NEW task \in tasks, RefreshTask(task)
    PROVE  RefreshIds'
<1> DEFINE nodes == UnusedFor(MinSnodeCacheSize)
           probe(n) == Message(Least(FreeProbes), n, task.id)
           more == Refresh(task.id, Least(FreeProbes))
<1>1. task.id \in Tokens /\ task.id # None
  BY TaskFields DEF Groups, TasksOK, RefreshTask, RefreshIds, RefreshTasks
<1>2. RefreshTasks(tasks \ {task}) /\ ProbeIds(msgs)
  BY DEF RefreshIds, RefreshTasks
<1>3. CASE msgs' = msgs /\ tasks' = tasks \ {task}
  BY <1>2, <1>3, IdsNext
<1>4. ASSUME FreeProbes # {}, NEW n \in nodes, NEW S, S = {more} \/ S = {},
             SendOnLoop(probe(n), msgs, (tasks \ {task}) \cup S)
      PROVE  RefreshIds'
  <2>1. nodes \subseteq Nodes
    BY SomeNodes DEF Groups
  <2>2. probe(n) \in Msg
    BY <1>1, <1>4, <2>1, FreeProbe, NewMessage
  <2>3. probe(n).rid = task.id
    BY DEF Message
  <2>4. ProbeIds({probe(n)})
    BY <1>1, <2>3 DEF ProbeIds
  <2>5. RefreshTasks((tasks \ {task}) \cup S)
    BY <1>1, <1>2, <1>4, OtherTasks DEF RefreshTasks
  <2> HIDE DEF probe
  <2> QED
    BY <1>2, <1>4, <2>2, <2>4, <2>5, SendIds
<1>5. probe(1).req = Least(FreeProbes) /\ \A n : probe(n).req = Least(FreeProbes)
  BY DEF Message
<1>6. \/ msgs' = msgs /\ tasks' = tasks \ {task}
      \/ /\ FreeProbes # {}
         /\ \E n \in nodes : \E S \in {{Refresh(task.id, probe(n).req)}, {}} :
               SendOnLoop(probe(n), msgs, (tasks \ {task}) \cup S)
  BY Zenon DEF RefreshTask
<1> HIDE DEF probe, nodes
<1> QED
  BY <1>3, <1>4, <1>5, <1>6

LEMMA CallIds ==
    ASSUME Groups, RefreshIds, NEW r \in Reqs, CallLookup(r) \/ CallOnLoop(r) \/ Call(r)
    PROVE  RefreshIds'
<1> DEFINE asked == Message(r, None, None)
           sent == Message(r, Dest[r], None)
           with(c) == [sent EXCEPT !.conn = c]
<1>1. /\ asked \in Msg /\ sent \in Msg /\ asked.req = r /\ sent.req = r
  <2>1. Kind[r] = "onion" => Dest[r] \in Nodes \cup {Server}
    BY CallsAssumption
  <2> QED
    BY <2>1, NewMessage, CallsAssumption DEF Tokens
<1>2. r \notin Probes
  BY CallsAssumption
<1>3. ProbeIds({asked}) /\ ProbeIds({sent})
  BY <1>1, <1>2 DEF ProbeIds
<1>4. \A c : ProbeIds({with(c)})
  <2>1. \A c : with(c).req = r
    BY <1>1, SameCall
  <2> HIDE DEF with
  <2> QED
    BY <2>1, <1>2 DEF ProbeIds
<1>5. RefreshTasks(tasks) /\ ProbeIds(msgs)
  BY DEF RefreshIds
<1>6. CASE CallLookup(r)
  <2>1. Lookup(asked, msgs)
    BY <1>6, Zenon DEF CallLookup
  <2> HIDE DEF asked
  <2> QED
    BY <1>1, <1>3, <1>5, <2>1, LookupIds
<1>7. CASE CallOnLoop(r)
  <2>1. SendOnLoop(sent, msgs, tasks)
    BY <1>7, Zenon DEF CallOnLoop
  <2> HIDE DEF sent
  <2> QED
    BY <1>1, <1>3, <1>5, <2>1, SendIds
<1>8. CASE Call(r)
  <2>1. \E f : tasks' = tasks \cup {Needed(sent, TypeOf[r], f)}
    BY <1>8, Zenon DEF Call
  <2>2. msgs' = msgs \cup {sent} \/ \E c : msgs' = msgs \cup {with(c)}
    BY <1>8, Zenon DEF Call
  <2> HIDE DEF sent, with
  <2>3. RefreshTasks(tasks')
    BY <1>5, <2>1, OtherTasks DEF RefreshTasks
  <2>4. ProbeIds(msgs')
    BY <1>3, <1>4, <1>5, <2>2, IdsOfBoth
  <2> QED
    BY <2>3, <2>4, IdsNext
<1> QED
  BY <1>6, <1>7, <1>8

LEMMA TakenIds ==
    ASSUME Groups, RefreshIds, NEW m \in msgs
    PROVE  /\ m \in Msg /\ ProbeIds({m}) /\ ProbeIds(msgs \ {m})
           /\ ProbeIds(msgs) /\ RefreshTasks(tasks) /\ RefreshTasks(Retry({m}))
<1>1. m \in Msg /\ ProbeIds({m}) /\ ProbeIds(msgs \ {m})
  BY DEF Groups, MsgsOK, RefreshIds, ProbeIds
<1> QED
  BY <1>1, RetryIds DEF RefreshIds

LEMMA RunIds ==
    ASSUME Groups, RefreshIds, NEW m \in msgs, RunResumed(m) \/ RunScheduled(m)
    PROVE  RefreshIds'
  BY TakenIds, LookupIds, SendIds DEF RunResumed, RunScheduled

(* m becomes n or is gone; calls are scheduled, but no refresh, or the     *)
(* probe m is tried again.                                                 *)
LEMMA ChangedIds ==
    ASSUME Groups, RefreshIds, NEW m \in msgs,
           \/ msgs' \subseteq msgs
           \/ \E n : n.req = m.req /\ n.rid = m.rid /\ msgs' = (msgs \ {m}) \cup {n},
           \/ tasks' = tasks
           \/ tasks' = tasks \cup Retry({m})
           \/ \E l : tasks' = tasks \cup {Check(l)}
           \/ \E i : i # None /\ tasks' = tasks \cup {Refresh(i, None)}
    PROVE  RefreshIds'
<1>1. ProbeIds({m}) /\ ProbeIds(msgs \ {m}) /\ ProbeIds(msgs) /\ RefreshTasks(tasks)
      /\ RefreshTasks(Retry({m}))
  BY TakenIds
<1>2. ProbeIds(msgs')
  <2>1. ASSUME NEW n, n.req = m.req, n.rid = m.rid, msgs' = (msgs \ {m}) \cup {n}
        PROVE  ProbeIds(msgs')
    BY <1>1, <2>1, BecomesIds, IdsOfBoth
  <2> QED
    BY <1>1, <2>1, IdsOfBoth
<1>3. RefreshTasks(tasks')
  <2>1. \A l : RefreshTasks({Check(l)})
    BY OtherTasks DEF RefreshTasks
  <2>2. \A i : i # None => RefreshTasks({Refresh(i, None)})
    BY OtherTasks DEF RefreshTasks
  <2>3. ASSUME NEW S, RefreshTasks(S), tasks' = tasks \cup S
        PROVE  RefreshTasks(tasks')
    BY <1>1, <2>3, IdsOfBoth
  <2> QED
    BY <1>1, <2>1, <2>2, <2>3
<1> QED
  BY <1>2, <1>3, IdsNext

LEMMA ThreadIds ==
    ASSUME Groups, RefreshIds, NEW m \in msgs, Proceed(m) \/ Store(m) \/ Expire(m)
    PROVE  RefreshIds'
<1> DEFINE queued == [m EXCEPT !.at = "queued"]
           loaded == [m EXCEPT !.at = "loaded", !.load = pending_requests[m.conn]]
           stored == [m EXCEPT !.at = "inflight", !.load = 0]
           late == [m EXCEPT !.late = TRUE]
<1>1. /\ queued.req = m.req /\ queued.rid = m.rid
      /\ loaded.req = m.req /\ loaded.rid = m.rid
      /\ stored.req = m.req /\ stored.rid = m.rid
      /\ late.req = m.req /\ late.rid = m.rid
  BY TakenIds, SameCall, SameRefresh
<1>2. tasks' = tasks \/ tasks' = tasks \cup (IF IsTimed(m) THEN {Check(FALSE)} ELSE {})
  BY Zenon DEF Proceed, Store, Expire
<1>3. tasks' = tasks \/ \E l : tasks' = tasks \cup {Check(l)}
  <2>1. tasks' = tasks \/ tasks' = tasks \cup {} \/ tasks' = tasks \cup {Check(FALSE)}
    BY <1>2
  <2> QED
    BY <2>1
<1>4. \/ msgs' = msgs \ {m}
      \/ \E n \in {queued, loaded, stored, late} : msgs' = (msgs \ {m}) \cup {n}
  <2>1. CASE Proceed(m)
    <3>1. \/ msgs' = msgs \ {m}
          \/ msgs' = (msgs \ {m}) \cup {queued} \/ msgs' = (msgs \ {m}) \cup {loaded}
      BY <2>1, Zenon DEF Proceed
    <3> HIDE DEF queued, loaded, stored, late
    <3> QED
      BY <3>1
  <2>2. CASE Store(m) \/ Expire(m)
    <3>1. msgs' = (msgs \ {m}) \cup {stored} \/ msgs' = (msgs \ {m}) \cup {late}
      BY <2>2, Zenon DEF Store, Expire
    <3> HIDE DEF queued, loaded, stored, late
    <3> QED
      BY <3>1
  <2> QED
    BY <2>1, <2>2
<1> HIDE DEF queued, loaded, stored, late
<1>5. \/ msgs' \subseteq msgs
      \/ \E n : n.req = m.req /\ n.rid = m.rid /\ msgs' = (msgs \ {m}) \cup {n}
  BY <1>1, <1>4
<1> QED
  BY <1>3, <1>5, ChangedIds

LEMMA SweepIds ==
    ASSUME Groups, RefreshIds,
           (\E l \in BOOLEAN : CheckTask(l)) \/ (\E s \in BOOLEAN : CloseConnections(s))
    PROVE  RefreshIds'
<1> DEFINE queued == At("queued")
           over == {m \in {n \in queued : IsTimed(n)} : m.late}
<1>1. ProbeIds(queued) /\ RefreshTasks(tasks) /\ \A l : RefreshTasks({Check(l)})
  BY OtherTasks DEF RefreshIds, ProbeIds, RefreshTasks, At
<1>2. RefreshTasks(Retry(queued))
  BY <1>1, RetryIds
<1>3. msgs' = msgs \/ msgs' = msgs \ over \/ msgs' = msgs \ queued
  BY Zenon DEF CheckTask, CloseConnections
<1>4. \/ tasks' = tasks \cup Retry(queued)
      \/ \E l : tasks' = tasks \ {Check(l)}
      \/ \E l, r : tasks' = (tasks \ {Check(l)}) \cup NextCheck(r)
  BY Zenon DEF CheckTask, CloseConnections
<1> HIDE DEF queued, over
<1>5. ProbeIds(msgs')
  BY <1>3 DEF RefreshIds, ProbeIds
<1>6. \A l, r : RefreshTasks(tasks \ {Check(l)}) /\ RefreshTasks((tasks \ {Check(l)}) \cup NextCheck(r))
  BY <1>1 DEF RefreshTasks, NextCheck
<1>7. RefreshTasks(tasks')
  BY <1>1, <1>2, <1>4, <1>6, IdsOfBoth
<1> QED
  BY <1>5, <1>7, IdsNext

LEMMA ErrorIds ==
    ASSUME Groups, RefreshIds, NEW m \in msgs,
           NEW status, NEW timeout, NEW bad, NEW inner,
           \/ HandleErrors(m, status, timeout, bad, inner)
           \/ Ends(m)
           \/ Again(m, [m EXCEPT !.retry = "decryption_failure"])
    PROVE  RefreshIds'
<1>1. m \in Msg
  BY DEF Groups, MsgsOK
<1>2. CASE Ends(m)
  <2>1. msgs' = msgs \ {m} /\ tasks' = tasks \cup Retry({m})
    BY <1>2, Zenon DEF Ends
  <2> QED
    BY <2>1, ChangedIds
<1>3. ASSUME NEW n \in Msg, n.req = m.req, n.rid = m.rid, Again(m, n)
      PROVE  RefreshIds'
  <2> DEFINE k == [n EXCEPT !.at = "scheduled", !.conn = None]
  <2>1. tasks' = tasks /\ msgs' = (msgs \ {m}) \cup {k}
    BY <1>3, Zenon DEF Again
  <2>2. k.req = m.req /\ k.rid = m.rid
    BY <1>3, SameCall, SameRefresh
  <2> HIDE DEF k
  <2> QED
    BY <2>1, <2>2, ChangedIds
<1>4. CASE /\ m.req \in InSwarm
           /\ msgs' = (msgs \ {m}) \cup {[m EXCEPT !.at = "after", !.conn = None]}
           /\ tasks' = tasks \cup {Refresh(m.req, None)}
  <2> DEFINE k == [m EXCEPT !.at = "after", !.conn = None]
  <2>1. k.req = m.req /\ k.rid = m.rid /\ msgs' = (msgs \ {m}) \cup {k}
    BY <1>1, <1>4, SameCall, SameRefresh
  <2>2. m.req # None
    BY <1>4, CallsAssumption
  <2> HIDE DEF k
  <2> QED
    BY <1>4, <2>1, <2>2, ChangedIds
<1>5. CASE Again(m, [m EXCEPT !.retry = "decryption_failure"])
  <2>1. [m EXCEPT !.retry = "decryption_failure"] \in Msg
    BY <1>1 DEF Msg, Retries
  <2> QED
    BY <1>1, <1>3, <1>5, <2>1, SameCall, SameRefresh
<1>6. ASSUME NEW n \in Elsewhere(m), Again(m, [m EXCEPT !.dest = n, !.retry = "redirect"])
      PROVE  RefreshIds'
  <2>1. n \in Nodes
    BY DEF Elsewhere, Groups, NodesOK
  <2> DEFINE k == [m EXCEPT !.dest = n, !.retry = "redirect"]
  <2>2. k \in Msg
    BY <1>1, <2>1 DEF Msg, Retries
  <2>3. k.req = m.req /\ k.rid = m.rid /\ Again(m, k)
    BY <1>1, <1>6, SameCall, SameRefresh
  <2> HIDE DEF k
  <2> QED
    BY <1>3, <2>2, <2>3
<1>7. Redirects(m, status) => m.req \in InSwarm
  BY Zenon DEF Redirects
<1>8. HandleErrors(m, status, timeout, bad, inner) =>
         \/ Ends(m)
         \/ \E n \in Elsewhere(m) : Again(m, [m EXCEPT !.dest = n, !.retry = "redirect"])
         \/ /\ Redirects(m, status)
            /\ msgs' = (msgs \ {m}) \cup {[m EXCEPT !.at = "after", !.conn = None]}
            /\ tasks' = tasks \cup {Refresh(m.req, None)}
  BY Zenon DEF HandleErrors
<1> QED
  BY <1>2, <1>4, <1>5, <1>6, <1>7, <1>8, Zenon

LEMMA AnswerIds ==
    ASSUME Groups, RefreshIds, NEW m \in msgs,
           \/ \E b : Replies(m, b)
           \/ \E s, t, n : Fails(m, s, t, n)
           \/ Undecipherable(m) \/ ProbeGarbled(m)
    PROVE  RefreshIds'
<1>1. \/ \E s, t, n, i : HandleErrors(m, s, t, n, i)
      \/ Ends(m)
      \/ Again(m, [m EXCEPT !.retry = "decryption_failure"])
  BY Zenon DEF Replies, Fails, Undecipherable, ProbeGarbled
<1> QED
  BY <1>1, ErrorIds, Zenon

LEMMA ListIds ==
    ASSUME Groups, RefreshIds,
           \/ \E m \in msgs, A \in Answers : ProbeAnswers(m, A)
           \/ \E a \in attempts, A \in Answers : SeedAnswers(a, A)
    PROVE  RefreshIds'
<1>1. \/ \E m \in msgs : \E A : Complete(A, msgs \ {m})
      \/ \E m \in msgs : msgs' = msgs \ {m} /\ tasks' = tasks
      \/ \E A : Complete(A, msgs)
      \/ \E a \in attempts : msgs' = msgs /\ tasks' = tasks \cup {Seed(a.id)}
  BY Zenon DEF ProbeAnswers, SeedAnswers
<1>2. \A m : msgs \ {m} \in SUBSET msgs
  OBVIOUS
<1>3. ASSUME NEW m \in msgs, msgs' = msgs \ {m}, tasks' = tasks
      PROVE  RefreshIds'
  BY <1>3, ChangedIds
<1>4. ASSUME NEW i, msgs' = msgs, tasks' = tasks \cup {Seed(i)}
      PROVE  RefreshIds'
  <2>1. RefreshTasks(tasks')
    BY <1>4, OtherTasks DEF RefreshTasks, RefreshIds
  <2> QED
    BY <1>4, <2>1, IdsNext DEF RefreshIds
<1> QED
  BY <1>1, <1>2, <1>3, <1>4, CompleteIds

LEMMA IdsStep ==
    ASSUME Groups, RefreshIds, [Next]_vars
    PROVE  RefreshIds'
<1>1. CASE Application
  BY <1>1, CallIds, SweepIds, AttemptIds, Zenon DEF Application
<1>2. CASE Tasks
  BY <1>2, BuildIds, RefreshTaskIds, AttemptIds, SweepIds, RunIds, Zenon DEF Tasks
<1>3. CASE Remote
  BY <1>3, AttemptIds, ListIds, AnswerIds, Zenon DEF Remote
<1>4. CASE Failures
  BY <1>4, AttemptIds, AnswerIds, Zenon DEF Failures
<1>5. CASE Threads
  BY <1>5, ThreadIds, Zenon DEF Threads
<1>6. CASE UNCHANGED vars
  BY <1>6, AttemptIds
<1> QED
  BY <1>1, <1>2, <1>3, <1>4, <1>5, <1>6 DEF Next

LEMMA IdsInit == Init => RefreshIds
  BY OtherTasks DEF Init, RefreshIds, RefreshTasks, ProbeIds

-----------------------------------------------------------------------------
(* An id of a path build has one use: a scheduled build, a scheduled        *)
(* connection or an attempt.                                               *)
Users(T, A) == {t \in T : t.op \in {"build", "establish"}} \cup {a \in A : ~a.seed}
Distinct(S) == \A x, y \in S : x.id = y.id => x = y
NoUse(S, i) == \A x \in S : x.id # i
OneUse == Distinct(Users(tasks, attempts))

LEMMA LeastIsUnused ==
    ASSUME NEW S, Unused(S) # {}
    PROVE  Least(Unused(S)) \in Unused(S)
<1>1. Unused(S) \in SUBSET Int /\ IsFiniteSet(Unused(S))
  <2>1. Unused(S) \in SUBSET Ids
    BY DEF Unused
  <2> QED
    BY <2>1, IdsFinite, FS_Subset
<1> QED
  BY <1>1, LeastIn

LEMMA UnusedNoUse ==
    ASSUME NEW S, NEW i \in Unused(S)
    PROVE  NoUse(Users(tasks, attempts), i)
  BY DEF Unused, NoUse, Users

LEMMA TaskNoAttempt ==
    ASSUME NEW t \in Task, NEW a \in Attempt
    PROVE  t # a
<1>1. "conn" \in DOMAIN a /\ "conn" \notin DOMAIN t
  BY DEF Task, Attempt
<1> QED
  BY <1>1

LEMMA UsersNext == OneUse' <=> Distinct(Users(tasks', attempts'))
  BY Zenon DEF OneUse, Distinct, Users

LEMMA UseKept ==
    ASSUME OneUse, NEW B, B \subseteq Users(tasks, attempts), NEW y, NoUse(B, y.id),
           Users(tasks', attempts') \subseteq B \cup {y}
    PROVE  OneUse'
<1>1. Distinct(B \cup {y})
  BY DEF OneUse, Distinct, NoUse
<1>2. Distinct(Users(tasks', attempts'))
  BY <1>1 DEF Distinct
<1> QED
  BY <1>2, UsersNext

LEMMA UseSame ==
    ASSUME OneUse, Users(tasks', attempts') \subseteq Users(tasks, attempts)
    PROVE  OneUse'
<1>1. Distinct(Users(tasks', attempts'))
  BY DEF Distinct, OneUse
<1> QED
  BY <1>1, UsersNext

(* What is removed had its id for itself.                                  *)
LEMMA UseTaken ==
    ASSUME Groups, OneUse
    PROVE  /\ \A t \in tasks : t.op \in {"build", "establish"}
                 => NoUse(Users(tasks \ {t}, attempts), t.id)
           /\ \A a \in attempts : ~a.seed => NoUse(Users(tasks, attempts \ {a}), a.id)
<1>1. tasks \subseteq Task /\ attempts \subseteq Attempt
  BY DEF Groups, TasksOK, ConnsOK
<1>2. ASSUME NEW t \in tasks, t.op \in {"build", "establish"}
      PROVE  NoUse(Users(tasks \ {t}, attempts), t.id)
  BY <1>1, <1>2, TaskNoAttempt DEF NoUse, Users, OneUse, Distinct
<1>3. ASSUME NEW a \in attempts, ~a.seed
      PROVE  NoUse(Users(tasks, attempts \ {a}), a.id)
  BY <1>1, <1>3, TaskNoAttempt DEF NoUse, Users, OneUse, Distinct
<1> QED
  BY <1>2, <1>3

(* One call is scheduled instead of those not in rest.                     *)
LEMMA UseAdds ==
    ASSUME OneUse, NEW rest \in SUBSET tasks, NEW x, tasks' = rest \cup {x},
           attempts' = attempts,
           x.op \notin {"build", "establish"} \/ NoUse(Users(rest, attempts), x.id)
    PROVE  OneUse'
<1>1. Users(rest, attempts) \subseteq Users(tasks, attempts)
  BY DEF Users
<1>2. CASE x.op \notin {"build", "establish"}
  <2>1. Users(tasks', attempts') \subseteq Users(tasks, attempts)
    BY <1>2 DEF Users
  <2> QED
    BY <2>1, UseSame
<1>3. CASE NoUse(Users(rest, attempts), x.id)
  <2>1. Users(tasks', attempts') \subseteq Users(rest, attempts) \cup {x}
    BY DEF Users
  <2> QED
    BY <1>1, <1>3, <2>1, UseKept
<1> QED
  BY <1>2, <1>3

LEMMA BuildPathUse ==
    ASSUME OneUse, NEW id, NEW t, NEW rest \in SUBSET tasks, BuildPath(id, t, rest),
           NoUse(Users(rest, attempts), id)
    PROVE  OneUse'
<1>1. attempts' = attempts
  BY Zenon DEF BuildPath, EnqueueBuild, StorePath, connVars
<1>2. \/ tasks' = rest
      \/ tasks' = rest \cup {Build(id, t)} \/ tasks' = rest \cup {Establish(id)}
      \/ \E i : tasks' = rest \cup {Refresh(i, None)}
      \/ Unused({id}) # {} /\ tasks' = rest \cup {Build(Least(Unused({id})), t)}
  BY Zenon DEF BuildPath, EnqueueBuild, StorePath
<1>3. \A i : /\ Build(i, t).id = i /\ Establish(i).id = i
             /\ Refresh(i, None).op = "refresh"
  BY DEF Build, Establish, Refresh
<1>4. CASE tasks' = rest
  <2>1. Users(tasks', attempts') \subseteq Users(tasks, attempts)
    BY <1>1, <1>4 DEF Users
  <2> QED
    BY <2>1, UseSame
<1>5. Unused({id}) # {} => NoUse(Users(rest, attempts), Least(Unused({id})))
  <2>1. Unused({id}) # {} => NoUse(Users(tasks, attempts), Least(Unused({id})))
    BY LeastIsUnused, UnusedNoUse
  <2> QED
    BY <2>1 DEF NoUse, Users
<1> QED
  BY <1>1, <1>2, <1>3, <1>4, <1>5, UseAdds

LEMMA BuildUse ==
    ASSUME Groups, OneUse,
           \/ \E i, t : BuildTask(i, t)
           \/ \E t \in tasks : NeededTask(t)
    PROVE  OneUse'
<1>1. ASSUME NEW i, NEW t, BuildTask(i, t)
      PROVE  OneUse'
  <2>1. Build(i, t) \in tasks /\ BuildPath(i, t, tasks \ {Build(i, t)})
    BY <1>1, Zenon DEF BuildTask
  <2>2. Build(i, t).op = "build" /\ Build(i, t).id = i
    BY DEF Build
  <2>3. NoUse(Users(tasks \ {Build(i, t)}, attempts), i)
    BY <2>1, <2>2, UseTaken
  <2>4. tasks \ {Build(i, t)} \in SUBSET tasks
    OBVIOUS
  <2> QED
    BY <2>1, <2>3, <2>4, BuildPathUse
<1>2. ASSUME NEW t \in tasks, NeededTask(t)
      PROVE  OneUse'
  <2>1. tasks \ {t} \in SUBSET tasks
    OBVIOUS
  <2>2. CASE Unused({}) # {} /\ BuildPath(Least(Unused({})), t.type, tasks \ {t})
    <3>1. NoUse(Users(tasks, attempts), Least(Unused({})))
      BY <2>2, LeastIsUnused, UnusedNoUse
    <3>2. NoUse(Users(tasks \ {t}, attempts), Least(Unused({})))
      BY <3>1 DEF NoUse, Users
    <3> QED
      BY <2>1, <2>2, <3>2, BuildPathUse
  <2>3. CASE tasks' = tasks \ {t} /\ attempts' = attempts
    <3>1. Users(tasks', attempts') \subseteq Users(tasks, attempts)
      BY <2>3 DEF Users
    <3> QED
      BY <3>1, UseSame
  <2> QED
    BY <1>2, <2>2, <2>3, Zenon DEF NeededTask, connVars
<1> QED
  BY <1>1, <1>2

LEMMA EstablishUse ==
    ASSUME Groups, OneUse, NEW i, EstablishTask(i)
    PROVE  OneUse'
<1> DEFINE rest == tasks \ {Establish(i)}
<1>1. Establish(i) \in tasks /\ Establish(i).op = "establish" /\ Establish(i).id = i
  BY DEF EstablishTask, Establish
<1>2. NoUse(Users(rest, attempts), i) /\ rest \in SUBSET tasks
  BY <1>1, UseTaken
<1>3. \A k : Refresh(k, None).op = "refresh"
  BY DEF Refresh
<1>4. CASE attempts' = attempts /\ (tasks' = rest \/ \E k : tasks' = rest \cup {Refresh(k, None)})
  <2>1. Users(tasks', attempts') \subseteq Users(tasks, attempts)
    BY <1>3, <1>4 DEF Users
  <2> QED
    BY <2>1, UseSame
<1>5. ASSUME NEW c, attempts' = attempts \cup {[conn |-> c, id |-> i, seed |-> FALSE]},
             tasks' = rest \/ \E k : tasks' = rest \cup {Refresh(k, None)}
      PROVE  OneUse'
  <2> DEFINE a == [conn |-> c, id |-> i, seed |-> FALSE]
  <2>1. a.id = i
    OBVIOUS
  <2>2. attempts' = attempts \cup {a}
    BY <1>5
  <2> HIDE DEF a
  <2>3. Users(tasks', attempts') \subseteq Users(rest, attempts) \cup {a}
    BY <1>3, <1>5, <2>2 DEF Users
  <2>4. Users(rest, attempts) \subseteq Users(tasks, attempts)
    BY DEF Users
  <2> QED
    BY <1>2, <2>1, <2>3, <2>4, UseKept
<1>6. \/ attempts' = attempts
      \/ \E c : attempts' = attempts \cup {[conn |-> c, id |-> i, seed |-> FALSE]}
  BY Zenon DEF EstablishTask, Connect, connVars
<1>7. tasks' = rest \/ \E k : tasks' = rest \cup {Refresh(k, None)}
  BY Zenon DEF EstablishTask
<1> QED
  BY <1>4, <1>5, <1>6, <1>7, Zenon

(* An attempt succeeds or fails: its id passes on to what follows.         *)
LEMMA AttemptUse ==
    ASSUME Groups, OneUse, NEW a \in attempts, Connected(a) \/ \E t : AttemptFails(a, t)
    PROVE  OneUse'
<1>1. attempts' = attempts \ {a}
  BY Zenon DEF Connected, AttemptFails
<1>2. \/ tasks' = tasks
      \/ ~a.seed /\ \E t : tasks' = tasks \cup {Build(a.id, t)}
      \/ tasks' = tasks \cup {IF a.seed THEN Seed(a.id) ELSE Establish(a.id)}
  BY Zenon DEF Connected, AttemptFails
<1>3. /\ \A t : Build(a.id, t).id = a.id
      /\ Establish(a.id).id = a.id /\ Seed(a.id).op = "seed"
  BY DEF Build, Establish, Seed
<1>4. CASE tasks' = tasks \/ (a.seed /\ tasks' = tasks \cup {Seed(a.id)})
  <2>1. Users(tasks', attempts') \subseteq Users(tasks, attempts)
    BY <1>1, <1>3, <1>4 DEF Users
  <2> QED
    BY <2>1, UseSame
<1>5. ASSUME ~a.seed, NEW x, x.id = a.id, tasks' = tasks \cup {x}
      PROVE  OneUse'
  <2>1. NoUse(Users(tasks, attempts \ {a}), x.id)
    BY <1>5, UseTaken
  <2>2. Users(tasks, attempts \ {a}) \subseteq Users(tasks, attempts)
    BY DEF Users
  <2>3. Users(tasks', attempts') \subseteq Users(tasks, attempts \ {a}) \cup {x}
    BY <1>1, <1>5 DEF Users
  <2> QED
    BY <2>1, <2>2, <2>3, UseKept
<1> QED
  BY <1>2, <1>3, <1>4, <1>5

(* Every queued build is scheduled under an unused id of its own.          *)
LEMMA CompleteUse ==
    ASSUME Groups, OneUse, NEW A, NEW others, Complete(A, others), attempts' \subseteq attempts
    PROVE  OneUse'
<1> DEFINE queued == {b \in PathTypes \X (1..MaxIds) : b[2] <= path_build_queue[b[1]]}
           ids == FirstOf(Unused({}), Cardinality(queued))
<1>1. PICK f : tasks' = tasks \cup {Build(i, f[i]) : i \in ids}
  BY Zenon DEF Complete
<1>2. ids \subseteq Unused({})
  BY DEF FirstOf
<1> HIDE DEF ids
<1>3. \A t : t \in tasks' => t \in tasks \/ \E i \in ids : t = Build(i, f[i])
  BY <1>1
<1>4. \A i, t : Build(i, t).id = i
  BY DEF Build
<1>5. \A i \in ids : NoUse(Users(tasks, attempts), i)
  BY <1>2, UnusedNoUse
<1>6. \A x \in Users(tasks', attempts') :
         x \in Users(tasks, attempts) \/ \E i \in ids : x = Build(i, f[i])
  BY <1>3 DEF Users
<1>7. ASSUME NEW x \in Users(tasks', attempts'), NEW y \in Users(tasks', attempts'), x.id = y.id
      PROVE  x = y
  <2>1. CASE x \in Users(tasks, attempts) /\ y \in Users(tasks, attempts)
    BY <1>7, <2>1 DEF OneUse, Distinct
  <2>2. ASSUME NEW i \in ids, x = Build(i, f[i])
        PROVE  x = y
    <3>1. y \notin Users(tasks, attempts)
      BY <1>4, <1>5, <1>7, <2>2 DEF NoUse
    <3> QED
      BY <1>4, <1>6, <1>7, <2>2, <3>1
  <2>3. ASSUME NEW i \in ids, y = Build(i, f[i])
        PROVE  x = y
    <3>1. x \notin Users(tasks, attempts)
      BY <1>4, <1>5, <1>7, <2>3 DEF NoUse
    <3> QED
      BY <1>4, <1>6, <1>7, <2>3, <3>1
  <2> QED
    BY <1>6, <2>1, <2>2, <2>3
<1>8. Distinct(Users(tasks', attempts'))
  BY <1>7 DEF Distinct
<1> QED
  BY <1>8, UsersNext

(* Refreshes take no id from the path builds.                              *)
NoNewUse == /\ \A t \in tasks' : t.op \in {"build", "establish"} => t \in tasks
            /\ \A a \in attempts' : a \in attempts \/ a.seed

LEMMA UseNoNew ==
    ASSUME OneUse, NoNewUse
    PROVE  OneUse'
<1>1. Users(tasks', attempts') \subseteq Users(tasks, attempts)
  BY DEF NoNewUse, Users
<1> QED
  BY <1>1, UseSame

LEMMA SendTasks ==
    ASSUME NEW m, NEW others, NEW rest, SendOnLoop(m, others, rest)
    PROVE  /\ rest \subseteq tasks'
           /\ \A t \in tasks' : t \in rest \/ t.op \notin {"build", "establish"}
<1>1. \A t, f : Needed(m, t, f).op = "needed"
  BY DEF Needed
<1>2. Check(FALSE).op = "check"
  BY DEF Check
<1>3. \A t \in Retry({m}) : t.op = "refresh"
  BY DEF Retry, Refresh
<1>4. \E f \in BOOLEAN :
         \/ tasks' = rest \cup {Needed(m, PathTypeOf(m), f)} \cup (IF IsTimed(m) THEN {Check(FALSE)} ELSE {})
         \/ tasks' = rest \cup {Needed(m, PathTypeOf(m), f)} \cup Retry({m})
         \/ tasks' = rest \cup {Needed(m, PathTypeOf(m), f)}
  <2> DEFINE f == FindValidPath(m, PathsOf(PathTypeOf(m))) # {}
  <2>1. \/ tasks' = rest \cup {Needed(m, PathTypeOf(m), f)} \cup (IF IsTimed(m) THEN {Check(FALSE)} ELSE {})
        \/ tasks' = rest \cup {Needed(m, PathTypeOf(m), f)} \cup Retry({m})
        \/ tasks' = rest \cup {Needed(m, PathTypeOf(m), f)}
    BY Zenon DEF SendOnLoop
  <2>2. f \in BOOLEAN
    OBVIOUS
  <2> HIDE DEF f
  <2> QED
    BY <2>1, <2>2
<1> QED
  BY <1>1, <1>2, <1>3, <1>4

LEMMA RefreshUse ==
    ASSUME OneUse, (\E i : SeedTask(i)) \/ (\E t \in tasks : RefreshTask(t))
    PROVE  OneUse'
<1>1. \/ attempts' = attempts
      \/ \E c, i : attempts' = attempts \cup {[conn |-> c, id |-> i, seed |-> TRUE]}
  BY Zenon DEF SeedTask, RefreshTask, Connect
<1>2. \A a \in attempts' : a \in attempts \/ a.seed
  BY <1>1
<1>3. \/ \E t : tasks' = tasks \ {t}
      \/ \E t, m, S : /\ \A r \in S : r.op = "refresh"
                      /\ SendOnLoop(m, msgs, (tasks \ {t}) \cup S)
  <2>1. ASSUME NEW i, SeedTask(i)
        PROVE  \E t : tasks' = tasks \ {t}
    BY <2>1, Zenon DEF SeedTask
  <2>2. ASSUME NEW t \in tasks, RefreshTask(t)
        PROVE  \/ tasks' = tasks \ {t}
               \/ \E m, S : /\ \A r \in S : r.op = "refresh"
                            /\ SendOnLoop(m, msgs, (tasks \ {t}) \cup S)
    <3>1. \A i, p : \A S \in {{Refresh(i, p)}, {}} : \A r \in S : r.op = "refresh"
      BY DEF Refresh
    <3> DEFINE probe(n) == Message(Least(FreeProbes), n, t.id)
    <3>2. \/ tasks' = tasks \ {t}
          \/ \E n : \E S \in {{Refresh(t.id, probe(n).req)}, {}} :
                SendOnLoop(probe(n), msgs, (tasks \ {t}) \cup S)
      BY <2>2, Zenon DEF RefreshTask
    <3> HIDE DEF probe
    <3> QED
      BY <3>1, <3>2
  <2> QED
    BY <2>1, <2>2
<1>4. \A t \in tasks' : t.op \in {"build", "establish"} => t \in tasks
  <2>1. ASSUME NEW t, NEW m, NEW S, \A r \in S : r.op = "refresh",
               SendOnLoop(m, msgs, (tasks \ {t}) \cup S)
        PROVE  \A x \in tasks' : x.op \in {"build", "establish"} => x \in tasks
    BY <2>1, SendTasks
  <2> QED
    BY <1>3, <2>1
<1> QED
  BY <1>2, <1>4, UseNoNew DEF NoNewUse

-----------------------------------------------------------------------------
(* Queued builds and what will resume them.                                *)
BuildQueue == {b \in PathTypes \X Nat : 1 <= b[2] /\ b[2] <= path_build_queue[b[1]]}
Dialled == {i \in Ids : Establish(i) \in tasks \/ \E a \in attempts : ~a.seed /\ a.id = i}
Refreshing == \/ refresh_id # None
              \/ \E t \in tasks : t.op \in {"refresh", "seed"}
              \/ \E a \in attempts : a.seed
Enough == Refreshing \/ Cardinality(BuildQueue) <= Cardinality(Dialled)
Served ==
    /\ IsFiniteSet(BuildQueue)
    /\ suspends = 0 => ~suspended
    /\ suspends = 0 /\ {} \notin Answers => ~refresh_results.empty /\ Enough

(* A step that neither queues a build nor takes away what will resume one. *)
Quiet ==
    /\ suspends' = suspends /\ (suspended' => suspended)
    /\ path_build_queue' = path_build_queue /\ refresh_id' = refresh_id
    /\ refresh_results'.empty => refresh_results.empty \/ {} \in Answers
    /\ attempts' = attempts
    /\ \A t \in tasks : t.op \in {"establish", "refresh", "seed"} => t \in tasks'

LEMMA DialledFinite == IsFiniteSet(Dialled) /\ IsFiniteSet(Dialled')
<1>1. Dialled \subseteq Ids /\ Dialled' \subseteq Ids
  BY DEF Dialled, Ids
<1> QED
  BY <1>1, IdsFinite, FS_Subset

(* The queue is the same and there is no less to resume its builds.        *)
LEMMA Longer ==
    ASSUME Served, BuildQueue' = BuildQueue, suspends' = suspends, suspended' => suspended,
           refresh_results'.empty => refresh_results.empty \/ {} \in Answers,
           Cardinality(Dialled) <= Cardinality(Dialled)', Refreshing => Refreshing'
    PROVE  Served'
<1>1. IsFiniteSet(BuildQueue') /\ (suspends' = 0 => ~suspended')
  BY DEF Served
<1>2. Cardinality(BuildQueue)' = Cardinality(BuildQueue)
  BY Zenon
<1>3. /\ Cardinality(BuildQueue) \in Nat
      /\ Cardinality(Dialled) \in Nat /\ Cardinality(Dialled)' \in Nat
  BY DialledFinite, FS_CardinalityType DEF Served
<1>4. Cardinality(BuildQueue) <= Cardinality(Dialled)
         => Cardinality(BuildQueue)' <= Cardinality(Dialled)'
  BY <1>2, <1>3
<1>5. Enough => Enough'
  BY <1>4, Zenon DEF Enough
<1> QED
  BY <1>1, <1>5 DEF Served

LEMMA QuietServed ==
    ASSUME Served, Quiet
    PROVE  Served'
<1>1. BuildQueue' = BuildQueue
  BY Zenon DEF BuildQueue, Quiet
<1>2. Dialled \subseteq Dialled'
  BY DEF Dialled, Quiet, Establish
<1>3. Cardinality(Dialled) <= Cardinality(Dialled)'
  BY <1>2, DialledFinite, FS_Subset
<1>4. Refreshing => Refreshing'
  BY DEF Refreshing, Quiet
<1> QED
  BY <1>1, <1>3, <1>4, Longer DEF Quiet

(* A step after which nothing is queued, or a refresh is under way.        *)
LEMMA ServedBy ==
    ASSUME Served, UNCHANGED <<suspends, suspended>>, IsFiniteSet(BuildQueue'),
           suspends = 0 /\ {} \notin Answers => ~refresh_results'.empty,
           Refreshing' \/ BuildQueue' = {}
    PROVE  Served'
<1>1. BuildQueue' = {} => Cardinality(BuildQueue)' = 0
  BY FS_EmptySet
<1>2. Cardinality(Dialled)' \in Nat
  BY DialledFinite, FS_CardinalityType
<1>3. Enough'
  BY <1>1, <1>2 DEF Enough
<1> QED
  BY <1>3 DEF Served

LEMMA QueueEmpty ==
    ASSUME path_build_queue' = [t \in PathTypes |-> 0]
    PROVE  BuildQueue' = {} /\ IsFiniteSet(BuildQueue')
<1>1. BuildQueue' = {}
  BY DEF BuildQueue
<1> QED
  BY <1>1, FS_EmptySet

(* One build more, or one fewer.                                           *)
LEMMA QueueLonger ==
    ASSUME BuildsOK, IsFiniteSet(BuildQueue), NEW t \in PathTypes,
           path_build_queue' = [path_build_queue EXCEPT ![t] = @ + 1]
    PROVE  IsFiniteSet(BuildQueue') /\ Cardinality(BuildQueue)' = Cardinality(BuildQueue) + 1
<1> DEFINE b == <<t, path_build_queue[t] + 1>>
<1>1. path_build_queue \in [PathTypes -> Nat]
  BY DEF BuildsOK
<1>2. BuildQueue' = BuildQueue \cup {b} /\ b \notin BuildQueue
  <2>1. \A u \in PathTypes, k \in Nat : <<u, k>> \in BuildQueue' <=> <<u, k>> \in BuildQueue \cup {b}
    BY <1>1 DEF BuildQueue
  <2>2. BuildQueue' \subseteq PathTypes \X Nat /\ BuildQueue \cup {b} \subseteq PathTypes \X Nat
    BY <1>1 DEF BuildQueue
  <2>3. b \notin BuildQueue
    BY <1>1 DEF BuildQueue
  <2> HIDE DEF b
  <2> QED
    BY <2>1, <2>2, <2>3
<1> HIDE DEF b
<1> QED
  BY <1>2, FS_AddElement

LEMMA QueueShorter ==
    ASSUME BuildsOK, IsFiniteSet(BuildQueue), NEW t \in PathTypes, path_build_queue[t] > 0,
           path_build_queue' = [path_build_queue EXCEPT ![t] = @ - 1]
    PROVE  IsFiniteSet(BuildQueue') /\ Cardinality(BuildQueue)' = Cardinality(BuildQueue) - 1
<1> DEFINE b == <<t, path_build_queue[t]>>
<1>1. path_build_queue \in [PathTypes -> Nat]
  BY DEF BuildsOK
<1>2. BuildQueue' = BuildQueue \ {b} /\ b \in BuildQueue
  <2>1. \A u \in PathTypes, k \in Nat : <<u, k>> \in BuildQueue' <=> <<u, k>> \in BuildQueue \ {b}
    BY <1>1 DEF BuildQueue
  <2>2. BuildQueue' \subseteq PathTypes \X Nat /\ BuildQueue \ {b} \subseteq PathTypes \X Nat
    BY <1>1 DEF BuildQueue
  <2>3. b \in BuildQueue
    BY <1>1 DEF BuildQueue
  <2> HIDE DEF b
  <2> QED
    BY <2>1, <2>2, <2>3
<1> HIDE DEF b
<1> QED
  BY <1>2, FS_RemoveElement

(* A build is queued, and a connection or a refresh is scheduled with it.  *)
LEMMA EnqueueServed ==
    ASSUME Groups, Served, NEW id \in Ids, NEW t \in PathTypes, NEW rest,
           \A x \in tasks : x.op \in {"establish", "refresh", "seed"} => x \in rest,
           UNCHANGED <<suspends, suspended, attempts, refresh_id, refresh_results>>,
           \/ EnqueueBuild(id, t, Establish(id), rest) /\ NoUse(Users(rest, attempts), id)
           \/ \E i : EnqueueBuild(id, t, Refresh(i, None), rest)
    PROVE  Served'
<1>1. path_build_queue' = [path_build_queue EXCEPT ![t] = @ + 1]
  BY Zenon DEF EnqueueBuild
<1>2. IsFiniteSet(BuildQueue') /\ Cardinality(BuildQueue)' = Cardinality(BuildQueue) + 1
  BY <1>1, QueueLonger DEF Served, Groups
<1>3. Refreshing /\ rest \subseteq tasks' => Refreshing'
  BY DEF Refreshing
<1>4. rest \subseteq tasks'
  BY DEF EnqueueBuild
<1>5. CASE Refreshing \/ \E i : EnqueueBuild(id, t, Refresh(i, None), rest)
  <2>1. ASSUME NEW i, tasks' = rest \cup {Refresh(i, None)}
        PROVE  Refreshing'
    BY <2>1, OtherTasks DEF Refreshing
  <2> QED
    BY <1>2, <1>3, <1>4, <1>5, <2>1, ServedBy DEF Served, EnqueueBuild
<1>6. CASE EnqueueBuild(id, t, Establish(id), rest) /\ NoUse(Users(rest, attempts), id)
           /\ ~Refreshing
  <2>1. tasks' = rest \cup {Establish(id)}
    BY <1>6, Zenon DEF EnqueueBuild
  <2>2. id \notin Dialled
    <3>1. Establish(id).op = "establish" /\ Establish(id).id = id
      BY DEF Establish
    <3>2. Establish(id) \notin tasks
      BY <1>6, <3>1 DEF NoUse, Users
    <3>3. \A a \in attempts : ~a.seed => a.id # id
      BY <1>6 DEF NoUse, Users
    <3> QED
      BY <3>2, <3>3 DEF Dialled
  <2>3. Dialled \cup {id} \subseteq Dialled'
    BY <2>1 DEF Dialled, Establish
  <2>4. Cardinality(Dialled) + 1 <= Cardinality(Dialled)'
    <3>1. Cardinality(Dialled \cup {id}) = Cardinality(Dialled) + 1
      BY <2>2, DialledFinite, FS_AddElement
    <3> QED
      BY <2>3, <3>1, DialledFinite, FS_Subset
  <2>5. Cardinality(BuildQueue) \in Nat /\ Cardinality(Dialled) \in Nat /\ Cardinality(Dialled)' \in Nat
    BY DialledFinite, FS_CardinalityType DEF Served
  <2>6. suspends = 0 /\ {} \notin Answers => Cardinality(BuildQueue)' <= Cardinality(Dialled)'
    BY <1>2, <1>6, <2>4, <2>5 DEF Served, Enough
  <2> QED
    BY <1>2, <2>6 DEF Served, Enough
<1> QED
  BY <1>5, <1>6

LEMMA BuildPathServed ==
    ASSUME Groups, Served, NEW id \in Ids, NEW t \in PathTypes, NEW rest, BuildPath(id, t, rest),
           \A x \in tasks : x.op \in {"establish", "refresh", "seed"} => x \in rest,
           rest \subseteq tasks, NoUse(Users(rest, attempts), id)
    PROVE  Served'
<1>1. UNCHANGED <<suspends, suspended, attempts, refresh_id, refresh_results>>
  BY Zenon DEF BuildPath, EnqueueBuild, StorePath, bounds, refreshVars, connVars
<1>2. CASE EnqueueBuild(id, t, Establish(id), rest)
  BY <1>1, <1>2, EnqueueServed
<1>3. ASSUME NEW i, EnqueueBuild(id, t, Refresh(i, None), rest)
      PROVE  Served'
  BY <1>1, <1>3, EnqueueServed
<1>4. CASE /\ path_build_queue' = path_build_queue
           /\ tasks' = rest \/ \E i : tasks' = rest \cup {Build(i, t)}
  <2>1. Quiet
    BY <1>1, <1>4 DEF Quiet
  <2> QED
    BY <2>1, QuietServed
<1>5. ASSUME NEW c, NEW others, StorePath(id, t, c, others, rest)
      PROVE  /\ path_build_queue' = path_build_queue
             /\ tasks' = rest \/ \E i : tasks' = rest \cup {Build(i, t)}
  BY <1>5, Zenon DEF StorePath
<1>6. \/ EnqueueBuild(id, t, Establish(id), rest)
      \/ \E i : EnqueueBuild(id, t, Refresh(i, None), rest)
      \/ \E c, others : StorePath(id, t, c, others, rest)
      \/ /\ path_build_queue' = path_build_queue
         /\ tasks' = rest \/ \E i : tasks' = rest \cup {Build(i, t)}
  BY Zenon DEF BuildPath, buildVars
<1> QED
  BY <1>2, <1>3, <1>4, <1>5, <1>6, Zenon

LEMMA BuildServed ==
    ASSUME Groups, OneUse, Served,
           \/ \E i \in Ids, t \in PathTypes : BuildTask(i, t)
           \/ \E t \in tasks : NeededTask(t)
    PROVE  Served'
<1>1. ASSUME NEW i \in Ids, NEW t \in PathTypes, BuildTask(i, t)
      PROVE  Served'
  <2> DEFINE rest == tasks \ {Build(i, t)}
  <2>1. Build(i, t) \in tasks /\ BuildPath(i, t, rest)
    BY <1>1, Zenon DEF BuildTask
  <2>2. Build(i, t).op = "build" /\ Build(i, t).id = i
    BY DEF Build
  <2>3. NoUse(Users(rest, attempts), i)
    BY <2>1, <2>2, UseTaken
  <2>4. rest \subseteq tasks /\ \A x \in tasks : x.op \in {"establish", "refresh", "seed"} => x \in rest
    BY <2>2
  <2> HIDE DEF rest
  <2> QED
    BY <2>1, <2>3, <2>4, BuildPathServed
<1>2. ASSUME NEW t \in tasks, NeededTask(t)
      PROVE  Served'
  <2> DEFINE rest == tasks \ {t}
             id == Least(Unused({}))
  <2>1. t.op = "needed" /\ t.type \in PathTypes
    BY <1>2, TaskFields DEF NeededTask, Groups, TasksOK
  <2>2. rest \subseteq tasks /\ \A x \in tasks : x.op \in {"establish", "refresh", "seed"} => x \in rest
    BY <2>1
  <2>3. CASE Unused({}) # {} /\ BuildPath(id, t.type, rest)
    <3>1. NoUse(Users(tasks, attempts), id) /\ id \in Ids
      BY <2>3, LeastIsUnused, UnusedNoUse, LeastUnused
    <3>2. NoUse(Users(rest, attempts), id)
      BY <3>1 DEF NoUse, Users
    <3> HIDE DEF rest, id
    <3> QED
      BY <2>1, <2>2, <2>3, <3>1, <3>2, BuildPathServed
  <2>4. CASE tasks' = rest /\ UNCHANGED <<suspended, attempts, buildVars, refreshVars, bounds>>
    <3>1. Quiet
      BY <2>1, <2>4 DEF Quiet, buildVars, refreshVars, bounds
    <3> QED
      BY <3>1, QuietServed
  <2> QED
    BY <1>2, <2>3, <2>4, Zenon DEF NeededTask, connVars
<1> QED
  BY <1>1, <1>2

(* A connection is being made, or was not for lack of nodes.               *)
LEMMA EstablishServed ==
    ASSUME Groups, OneUse, Served, NEW i \in Ids, EstablishTask(i)
    PROVE  Served'
<1> DEFINE rest == tasks \ {Establish(i)}
<1>1. UNCHANGED <<suspends, suspended, path_build_queue, refresh_id, refresh_results>>
  BY Zenon DEF EstablishTask, buildVars, refreshVars
<1>2. BuildQueue' = BuildQueue
  BY <1>1, Zenon DEF BuildQueue
<1>3. suspends = 0 => ~suspended
  BY DEF Served
<1>4. CASE suspended
  <2>1. suspends # 0
    BY <1>3, <1>4
  <2> QED
    BY <1>1, <1>2, <2>1 DEF Served
<1>5. Establish(i).op = "establish" /\ \A k : Establish(k) = Establish(i) => k = i
  BY DEF Establish
<1>6. ASSUME Refreshing, attempts \subseteq attempts', rest \subseteq tasks'
      PROVE  Refreshing'
  BY <1>1, <1>5, <1>6 DEF Refreshing
<1>7. CASE tasks' = rest \cup {Refresh(i, None)}
  <2>1. Refreshing'
    BY <1>7, OtherTasks DEF Refreshing
  <2> QED
    BY <1>1, <1>2, <2>1, ServedBy DEF Served
<1>8. ASSUME NEW c, attempts' = attempts \cup {[conn |-> c, id |-> i, seed |-> FALSE]},
             rest \subseteq tasks'
      PROVE  Served'
  <2> DEFINE a == [conn |-> c, id |-> i, seed |-> FALSE]
  <2>1. ~a.seed /\ a.id = i
    OBVIOUS
  <2>2. attempts' = attempts \cup {a}
    BY <1>8
  <2> HIDE DEF a
  <2>3. Dialled \subseteq Dialled'
    <3>1. ASSUME NEW k \in Ids, Establish(k) \in tasks
          PROVE  k \in Dialled'
      <4>1. CASE k = i
        BY <2>1, <2>2, <4>1 DEF Dialled
      <4>2. CASE k # i
        BY <1>5, <1>8, <3>1, <4>2 DEF Dialled
      <4> QED
        BY <4>1, <4>2
    <3>2. ASSUME NEW k \in Ids, NEW b \in attempts, ~b.seed, b.id = k
          PROVE  k \in Dialled'
      BY <2>2, <3>2 DEF Dialled
    <3> QED
      BY <3>1, <3>2 DEF Dialled
  <2>4. Cardinality(Dialled) <= Cardinality(Dialled)'
    BY <2>3, DialledFinite, FS_Subset
  <2>5. Refreshing => Refreshing'
    BY <1>6, <1>8, <2>2
  <2> QED
    BY <1>1, <1>2, <2>4, <2>5, Longer
<1>9. \/ suspended
      \/ tasks' = rest \cup {Refresh(i, None)}
      \/ \E c : /\ attempts' = attempts \cup {[conn |-> c, id |-> i, seed |-> FALSE]}
                /\ tasks' = rest \/ \E k : tasks' = rest \cup {Refresh(k, None)}
  BY Zenon DEF EstablishTask, Connect
<1> QED
  BY <1>4, <1>7, <1>8, <1>9

(* A connection that was made serves one queued build.                     *)
LEMMA ConnectedServed ==
    ASSUME Groups, OneUse, Served, NEW a \in attempts, Connected(a)
    PROVE  Served'
<1>1. /\ UNCHANGED <<suspends, suspended, refresh_id, refresh_results>>
      /\ ~a.seed /\ attempts' = attempts \ {a}
  BY Zenon DEF Connected, refreshVars, bounds
<1>2. tasks \subseteq tasks'
  BY DEF Connected
<1>3. Refreshing => Refreshing'
  BY <1>1, <1>2 DEF Refreshing
<1>4. a.id \in Dialled /\ Dialled \ {a.id} \subseteq Dialled'
  <2>1. a.id \in Ids
    BY <1>1, AttemptFields DEF Groups, ConnsOK
  <2> QED
    BY <1>1, <1>2, <2>1 DEF Dialled
<1>5. Cardinality(Dialled) - 1 <= Cardinality(Dialled)'
  <2>1. Cardinality(Dialled \ {a.id}) = Cardinality(Dialled) - 1 /\ IsFiniteSet(Dialled \ {a.id})
    BY <1>4, DialledFinite, FS_RemoveElement
  <2> QED
    BY <1>4, <2>1, DialledFinite, FS_Subset
<1>6. Cardinality(Dialled) \in Nat /\ Cardinality(Dialled)' \in Nat
      /\ Cardinality(BuildQueue) \in Nat
  BY DialledFinite, FS_CardinalityType DEF Served
<1>7. CASE path_build_queue' = path_build_queue /\ \A t \in PathTypes : path_build_queue[t] = 0
  <2>1. BuildQueue' = {}
    BY <1>7 DEF BuildQueue
  <2>2. Cardinality(BuildQueue)' = 0 /\ IsFiniteSet(BuildQueue')
    BY <2>1, FS_EmptySet
  <2>3. Enough'
    BY <1>6, <2>2 DEF Enough
  <2> QED
    BY <1>1, <2>2, <2>3 DEF Served
<1>8. ASSUME NEW t \in PathTypes, path_build_queue[t] > 0,
             path_build_queue' = [path_build_queue EXCEPT ![t] = @ - 1]
      PROVE  Served'
  <2>1. IsFiniteSet(BuildQueue') /\ Cardinality(BuildQueue)' = Cardinality(BuildQueue) - 1
    BY <1>8, QueueShorter DEF Groups, Served
  <2>2. Cardinality(BuildQueue) <= Cardinality(Dialled)
           => Cardinality(BuildQueue)' <= Cardinality(Dialled)'
    BY <1>5, <1>6, <2>1
  <2>3. Enough => Enough'
    BY <1>3, <2>2, Zenon DEF Enough
  <2> QED
    BY <1>1, <2>1, <2>3 DEF Served
<1> QED
  BY <1>7, <1>8, Zenon DEF Connected, buildVars

LEMMA AttemptFailsServed ==
    ASSUME Groups, Served, NEW a \in attempts, NEW t, AttemptFails(a, t)
    PROVE  Served'
<1>1. /\ UNCHANGED <<suspends, suspended, refresh_id, refresh_results, path_build_queue>>
      /\ attempts' = attempts \ {a}
      /\ tasks' = tasks \cup {IF a.seed THEN Seed(a.id) ELSE Establish(a.id)}
  BY Zenon DEF AttemptFails, refreshVars, buildVars
<1>2. BuildQueue' = BuildQueue
  BY <1>1, Zenon DEF BuildQueue
<1>3. Refreshing => Refreshing'
  <2>1. a.seed => Refreshing'
    BY <1>1, OtherTasks DEF Refreshing
  <2>2. ~a.seed /\ Refreshing => Refreshing'
    BY <1>1 DEF Refreshing
  <2> QED
    BY <2>1, <2>2
<1>4. Dialled \subseteq Dialled'
  BY <1>1 DEF Dialled
<1>5. Cardinality(Dialled) <= Cardinality(Dialled)'
  BY <1>4, DialledFinite, FS_Subset
<1> QED
  BY <1>1, <1>2, <1>3, <1>5, Longer

LEMMA CompleteServed ==
    ASSUME Served, NEW A, NEW others, Complete(A, others), UNCHANGED <<suspends, suspended>>
    PROVE  Served'
<1>1. path_build_queue' = [t \in PathTypes |-> 0] /\ refresh_results' = NoResults
  BY Zenon DEF Complete
<1>2. ~refresh_results'.empty
  BY <1>1 DEF NoResults
<1> QED
  BY <1>1, <1>2, QueueEmpty, ServedBy

LEMMA ListServed ==
    ASSUME Groups, Served,
           \/ \E m \in msgs, A \in Answers : ProbeAnswers(m, A)
           \/ \E a \in attempts, A \in Answers : SeedAnswers(a, A)
    PROVE  Served'
<1>1. UNCHANGED <<suspends, suspended>>
  BY Zenon DEF ProbeAnswers, SeedAnswers, bounds
<1>2. ASSUME NEW a \in attempts, SeedAnswers(a, {}), {} \in Answers, UNCHANGED path_build_queue
      PROVE  Served'
  <2>1. BuildQueue' = BuildQueue
    BY <1>2, Zenon DEF BuildQueue
  <2> QED
    BY <1>1, <1>2, <2>1 DEF Served
<1>3. ASSUME NEW m \in msgs, NEW A \in Answers, ProbeAnswers(m, A)
      PROVE  Served'
  <2> DEFINE got == [n |-> refresh_results.n + 1, nodes |-> refresh_results.nodes \cap A,
                     empty |-> refresh_results.empty \/ A = {}]
  <2>1. CASE UNCHANGED <<attempts, tasks, path_build_queue, refresh_id>>
             /\ refresh_results' \in {refresh_results, got}
    <3>1. refresh_results'.empty => refresh_results.empty \/ {} \in Answers
      <4>1. got.empty => refresh_results.empty \/ A = {}
        OBVIOUS
      <4> HIDE DEF got
      <4> QED
        BY <2>1, <4>1
    <3>2. Quiet
      BY <1>1, <2>1, <3>1 DEF Quiet
    <3> QED
      BY <3>2, QuietServed
  <2>2. CASE got.empty /\ UNCHANGED path_build_queue
    <3>1. BuildQueue' = BuildQueue
      BY <2>2, Zenon DEF BuildQueue
    <3>2. refresh_results.empty \/ {} \in Answers
      BY <2>2
    <3> QED
      BY <1>1, <3>1, <3>2 DEF Served
  <2>3. CASE Complete(got.nodes, msgs \ {m})
    BY <1>1, <2>3, CompleteServed
  <2>4. \/ UNCHANGED <<attempts, tasks, path_build_queue, refresh_id, refresh_results>>
        \/ UNCHANGED <<attempts, tasks, path_build_queue, refresh_id>> /\ refresh_results' = got
        \/ got.empty /\ UNCHANGED path_build_queue
        \/ Complete(got.nodes, msgs \ {m})
    BY <1>3, Zenon DEF ProbeAnswers, connVars, buildVars, refreshVars
  <2> HIDE DEF got
  <2> QED
    BY <2>1, <2>2, <2>3, <2>4
<1>4. ASSUME NEW a \in attempts, NEW A \in Answers, SeedAnswers(a, A)
      PROVE  Served'
  <2>1. (A = {} /\ UNCHANGED path_build_queue) \/ Complete(A, msgs)
    BY <1>4, Zenon DEF SeedAnswers, buildVars
  <2> QED
    BY <1>1, <1>2, <1>4, <2>1, CompleteServed
<1> QED
  BY <1>3, <1>4

(* A refresh is under way once refresh_snode_cache() has its id.           *)
LEMMA RefreshServed ==
    ASSUME Groups, RefreshIds, Served,
           (\E i \in Ids \cup Reqs : SeedTask(i)) \/ (\E t \in tasks : RefreshTask(t))
    PROVE  Served'
<1>1. UNCHANGED <<suspends, suspended, path_build_queue>>
  BY Zenon DEF SeedTask, RefreshTask, bounds, buildVars
<1>2. BuildQueue' = BuildQueue /\ (suspends = 0 => ~suspended)
  BY <1>1 DEF BuildQueue, Served
<1>3. ASSUME suspended
      PROVE  Served'
  <2>1. suspends # 0
    BY <1>2, <1>3
  <2> QED
    BY <1>1, <1>2, <2>1 DEF Served
<1>4. refresh_results' = refresh_results \/ refresh_results' = NoResults
  BY Zenon DEF SeedTask, RefreshTask, refreshVars
<1>5. refresh_results'.empty => refresh_results.empty
  BY <1>4 DEF NoResults
<1>6. ASSUME Refreshing'
      PROVE  Served'
  BY <1>1, <1>2, <1>5, <1>6, ServedBy DEF Served
<1>7. ASSUME NEW i \in Ids \cup Reqs, SeedTask(i), ~suspended
      PROVE  Refreshing'
  <2>1. CASE refresh_id \notin {None, i} /\ refresh_id' = refresh_id
    BY <2>1 DEF Refreshing
  <2>2. CASE \E c : attempts' = attempts \cup {[conn |-> c, id |-> i, seed |-> TRUE]}
    <3>1. ASSUME NEW c, attempts' = attempts \cup {[conn |-> c, id |-> i, seed |-> TRUE]}
          PROVE  Refreshing'
      <4> DEFINE b == [conn |-> c, id |-> i, seed |-> TRUE]
      <4>1. b.seed /\ b \in attempts'
        BY <3>1
      <4> HIDE DEF b
      <4> QED
        BY <4>1, Zenon DEF Refreshing
    <3> QED
      BY <2>2, <3>1
  <2> QED
    BY <1>7, <2>1, <2>2, Zenon DEF SeedTask, Connect, refreshVars
<1>8. ASSUME NEW t \in tasks, RefreshTask(t), ~suspended
      PROVE  Refreshing'
  <2>1. t.id # None
    BY <1>8 DEF RefreshIds, RefreshTasks, RefreshTask
  <2>2. \/ refresh_id \notin {None, t.id} /\ refresh_id' = refresh_id
        \/ refresh_id' = t.id
    BY <1>8, Zenon DEF RefreshTask, refreshVars
  <2> QED
    BY <2>1, <2>2 DEF Refreshing
<1> QED
  BY <1>3, <1>6, <1>7, <1>8

(* The steps of the other handlers.                                        *)
LEMMA LookupQuiet ==
    ASSUME NEW m, NEW others, Lookup(m, others)
    PROVE  Quiet /\ NoNewUse
<1>1. UNCHANGED <<suspends, suspended, path_build_queue, refresh_id, refresh_results, attempts>>
  BY Zenon DEF Lookup, buildVars, refreshVars, connVars, bounds
<1>2. tasks' = tasks \/ \E i : tasks' = tasks \cup {Refresh(i, None)}
  BY Zenon DEF Lookup, GetSwarm, GetRandomNodes, GotSwarm, WaitForRefresh
<1> QED
  BY <1>1, <1>2, OtherTasks DEF Quiet, NoNewUse

LEMMA SendQuiet ==
    ASSUME NEW m, NEW others, SendOnLoop(m, others, tasks),
           UNCHANGED sendUnchanged
    PROVE  Quiet /\ NoNewUse
<1>1. UNCHANGED <<suspends, suspended, path_build_queue, refresh_id, refresh_results, attempts>>
  BY Zenon DEF sendUnchanged, buildVars, refreshVars, connVars
<1> QED
  BY <1>1, SendTasks DEF Quiet, NoNewUse

LEMMA CallsQuiet ==
    ASSUME NEW r, CallLookup(r) \/ CallOnLoop(r) \/ Call(r)
    PROVE  Quiet /\ NoNewUse
<1>1. CASE Call(r)
  <2>1. UNCHANGED <<suspends, suspended, path_build_queue, refresh_id, refresh_results, attempts>>
    BY <1>1, Zenon DEF Call, sendUnchanged, buildVars, refreshVars, connVars
  <2>2. \E m, t, f : tasks' = tasks \cup {Needed(m, t, f)}
    BY <1>1, Zenon DEF Call
  <2> QED
    BY <2>1, <2>2, OtherTasks DEF Quiet, NoNewUse
<1> QED
  BY <1>1, LookupQuiet, SendQuiet, Zenon DEF CallLookup, CallOnLoop

LEMMA MessagesQuiet ==
    ASSUME NEW m,
           \/ RunResumed(m) \/ RunScheduled(m)
           \/ Proceed(m) \/ Store(m) \/ Expire(m)
           \/ \E l : CheckTask(l)
    PROVE  Quiet /\ NoNewUse
<1>1. CASE Proceed(m) \/ Store(m) \/ Expire(m)
  <2>1. UNCHANGED <<suspends, suspended, path_build_queue, refresh_id, refresh_results, attempts>>
    BY <1>1, Zenon DEF Proceed, Store, Expire, sendUnchanged, buildVars, refreshVars, connVars
  <2>2. tasks' = tasks \/ tasks' = tasks \cup (IF IsTimed(m) THEN {Check(FALSE)} ELSE {})
    BY <1>1, Zenon DEF Proceed, Store, Expire
  <2> QED
    BY <2>1, <2>2, OtherTasks DEF Quiet, NoNewUse
<1>2. ASSUME NEW l, CheckTask(l)
      PROVE  Quiet /\ NoNewUse
  <2>1. UNCHANGED <<suspends, suspended, path_build_queue, refresh_id, refresh_results, attempts>>
    BY <1>2, Zenon DEF CheckTask, buildVars, refreshVars, connVars, bounds
  <2>2. tasks' = tasks \ {Check(l)} \/ \E x : tasks' = (tasks \ {Check(l)}) \cup NextCheck(x)
    BY <1>2, Zenon DEF CheckTask
  <2>3. \A x : \A t \in NextCheck(x) : t.op = "check"
    BY OtherTasks DEF NextCheck
  <2>4. Check(l).op = "check"
    BY OtherTasks
  <2> QED
    BY <2>1, <2>2, <2>3, <2>4 DEF Quiet, NoNewUse
<1> QED
  BY <1>1, <1>2, LookupQuiet, SendQuiet, Zenon DEF RunResumed, RunScheduled

LEMMA AnswersQuiet ==
    ASSUME NEW m,
           \/ \E b : Replies(m, b)
           \/ \E s, t, n : Fails(m, s, t, n)
           \/ Undecipherable(m) \/ ProbeGarbled(m)
    PROVE  Quiet /\ NoNewUse
<1>1. UNCHANGED <<suspends, suspended, path_build_queue, refresh_id, refresh_results, attempts>>
  BY Zenon DEF Replies, Fails, Undecipherable, ProbeGarbled, answerUnchanged,
               buildVars, refreshVars, connVars
<1>2. \/ \E s, t, n, i : HandleErrors(m, s, t, n, i)
      \/ Ends(m)
      \/ Again(m, [m EXCEPT !.retry = "decryption_failure"])
  BY Zenon DEF Replies, Fails, Undecipherable, ProbeGarbled
<1>3. \/ tasks' = tasks
      \/ tasks' = tasks \cup Retry({m})
      \/ tasks' = tasks \cup {Refresh(m.req, None)}
  <2>1. Ends(m) => tasks' = tasks \cup Retry({m})
    BY Zenon DEF Ends
  <2>2. \A n : Again(m, n) => tasks' = tasks
    BY Zenon DEF Again
  <2>3. \A s, t, n, i : HandleErrors(m, s, t, n, i) =>
           Ends(m) \/ (\E k : Again(m, k)) \/ tasks' = tasks \cup {Refresh(m.req, None)}
    BY Zenon DEF HandleErrors
  <2> QED
    BY <1>2, <2>1, <2>2, <2>3, Zenon
<1>4. \A t \in Retry({m}) : t.op = "refresh"
  BY DEF Retry, Refresh
<1>5. \A t \in {Refresh(m.req, None)} : t.op = "refresh"
  BY OtherTasks
<1>6. /\ tasks \subseteq tasks'
      /\ \A t \in tasks' : t \in tasks \/ t.op = "refresh"
  <2>1. ASSUME NEW S, \A t \in S : t.op = "refresh", tasks' = tasks \cup S
        PROVE  /\ tasks \subseteq tasks'
               /\ \A t \in tasks' : t \in tasks \/ t.op = "refresh"
    BY <2>1
  <2> QED
    BY <1>3, <1>4, <1>5, <2>1
<1> QED
  BY <1>1, <1>6 DEF Quiet, NoNewUse

LEMMA RestQuiet ==
    ASSUME (\E c : ConnectionCloses(c)) \/ Resume \/ UNCHANGED vars
    PROVE  Quiet /\ NoNewUse
<1>1. UNCHANGED <<suspends, path_build_queue, refresh_id, refresh_results, attempts, tasks>>
  BY Zenon DEF ConnectionCloses, Resume, vars, buildVars, refreshVars, connVars, bounds
<1>2. suspended' = suspended \/ suspended' = FALSE
  BY Zenon DEF ConnectionCloses, Resume, vars
<1> QED
  BY <1>1, <1>2 DEF Quiet, NoNewUse

LEMMA CloseServed ==
    ASSUME Groups, Served, NEW s, CloseConnections(s)
    PROVE  Served'
<1>1. suspends' # 0
  BY DEF CloseConnections, Groups, BoundsOK
<1>2. IsFiniteSet(BuildQueue')
  <2>1. path_build_queue' = [t \in PathTypes |-> 0]
    BY Zenon DEF CloseConnections
  <2> QED
    BY <2>1, QueueEmpty
<1> QED
  BY <1>1, <1>2 DEF Served

LEMMA CloseUse ==
    ASSUME OneUse, NEW s, CloseConnections(s)
    PROVE  OneUse'
<1>1. attempts' = attempts /\ tasks' = tasks \cup Retry(At("queued"))
  BY Zenon DEF CloseConnections
<1>2. \A t \in Retry(At("queued")) : t.op = "refresh"
  BY DEF Retry, Refresh
<1> QED
  BY <1>1, <1>2, UseNoNew DEF NoNewUse

LEMMA ListUse ==
    ASSUME Groups, OneUse,
           \/ \E m \in msgs, A \in Answers : ProbeAnswers(m, A)
           \/ \E a \in attempts, A \in Answers : SeedAnswers(a, A)
    PROVE  OneUse'
<1>1. attempts' \subseteq attempts
  <2>1. attempts' = attempts \/ \E a : attempts' = attempts \ {a}
    BY Zenon DEF ProbeAnswers, SeedAnswers, connVars
  <2> QED
    BY <2>1
<1>2. \/ tasks' = tasks \/ \E i : tasks' = tasks \cup {Seed(i)}
      \/ \E A, others : Complete(A, others)
  BY Zenon DEF ProbeAnswers, SeedAnswers
<1>3. CASE tasks' = tasks \/ \E i : tasks' = tasks \cup {Seed(i)}
  BY <1>1, <1>3, OtherTasks, UseNoNew DEF NoNewUse
<1> QED
  BY <1>1, <1>2, <1>3, CompleteUse

-----------------------------------------------------------------------------
ServedInv == RefreshIds /\ OneUse /\ Served

LEMMA QuietStep ==
    ASSUME OneUse, Served, Quiet /\ NoNewUse
    PROVE  OneUse' /\ Served'
  BY QuietServed, UseNoNew

LEMMA ServedStep ==
    ASSUME Groups, ServedInv, [Next]_vars
    PROVE  ServedInv'
<1> SUFFICES OneUse' /\ Served'
  BY IdsStep DEF ServedInv
<1>1. RefreshIds /\ OneUse /\ Served
  BY DEF ServedInv
<1>2. CASE Application
  BY <1>1, <1>2, CallsQuiet, RestQuiet, QuietStep, CloseServed, CloseUse, Zenon DEF Application
<1>3. CASE Tasks
  <2>1. CASE \/ \E i \in Ids, t \in PathTypes : BuildTask(i, t)
             \/ \E t \in tasks : NeededTask(t)
    BY <1>1, <2>1, BuildUse, BuildServed, Zenon
  <2>2. CASE (\E i \in Ids \cup Reqs : SeedTask(i)) \/ (\E t \in tasks : RefreshTask(t))
    BY <1>1, <2>2, RefreshUse, RefreshServed, Zenon
  <2> QED
    BY <1>1, <1>3, <2>1, <2>2, EstablishUse, EstablishServed, MessagesQuiet, QuietStep, Zenon DEF Tasks
<1>4. CASE Remote
  BY <1>1, <1>4, AttemptUse, ConnectedServed, ListUse, ListServed, AnswersQuiet, QuietStep, Zenon
     DEF Remote
<1>5. CASE Failures
  BY <1>1, <1>5, AttemptUse, AttemptFailsServed, AnswersQuiet, RestQuiet, QuietStep, Zenon
     DEF Failures
<1>6. CASE Threads
  BY <1>1, <1>6, MessagesQuiet, QuietStep, Zenon DEF Threads
<1>7. CASE UNCHANGED vars
  BY <1>1, <1>7, RestQuiet, QuietStep
<1> QED
  BY <1>2, <1>3, <1>4, <1>5, <1>6, <1>7 DEF Next

LEMMA ServedInit == Init => ServedInv
<1> SUFFICES ASSUME Init PROVE ServedInv
  OBVIOUS
<1>1. attempts = {} /\ ~suspended /\ ~refresh_results.empty
  BY DEF Init, NoResults
<1>2. \A t \in tasks : \E i : t = Build(i, Standard)
  BY DEF Init
<1>3. OneUse
  BY <1>1, <1>2 DEF OneUse, Distinct, Users, Build
<1>4. BuildQueue = {} /\ Cardinality(BuildQueue) = 0 /\ IsFiniteSet(BuildQueue)
  <2>1. BuildQueue = {}
    BY DEF Init, BuildQueue
  <2> QED
    BY <2>1, FS_EmptySet
<1>5. Served
  <2>1. Cardinality(Dialled) \in Nat
    BY DialledFinite, FS_CardinalityType
  <2> QED
    BY <1>1, <1>4, <2>1 DEF Served, Enough
<1> QED
  BY <1>3, <1>5, IdsInit DEF ServedInv

LEMMA ServedHolds ==
    ASSUME ServedInv, BuildsOK
    PROVE  QueuedBuildsServed
<1>1. ASSUME NEW t \in PathTypes, path_build_queue[t] # 0
      PROVE  Cardinality(BuildQueue) # 0
  <2>1. path_build_queue[t] \in Nat
    BY DEF BuildsOK
  <2>2. <<t, 1>> \in BuildQueue
    BY <1>1, <2>1 DEF BuildQueue
  <2> QED
    BY <2>2, FS_EmptySet DEF ServedInv, Served
<1>2. ASSUME attempts = {}, \A t \in tasks : t.op # "establish"
      PROVE  Cardinality(Dialled) = 0
  <2>1. Dialled = {}
    BY <1>2, OtherTasks DEF Dialled
  <2> QED
    BY <2>1, FS_EmptySet
<1>3. Cardinality(BuildQueue) \in Nat
  BY FS_CardinalityType DEF ServedInv, Served
<1>4. ASSUME suspends = 0, {} \notin Answers, attempts = {}, refresh_id = None,
             ~\E t \in tasks : t.op \in {"establish", "refresh", "seed"}
      PROVE  \A t \in PathTypes : path_build_queue[t] = 0
  <2>1. ~Refreshing
    BY <1>4 DEF Refreshing
  <2>2. Cardinality(BuildQueue) <= Cardinality(Dialled)
    BY <1>4, <2>1 DEF ServedInv, Served, Enough
  <2> QED
    BY <1>1, <1>2, <1>3, <1>4, <2>2
<1> QED
  BY <1>4 DEF QueuedBuildsServed

LEMMA ServedAlways == Spec => [](Groups /\ ServedInv)
<1>1. Groups /\ ServedInv /\ [Next]_vars => ServedInv'
  BY ServedStep
<1> QED
  BY <1>1, ServedInit, GroupsAlways, PTL DEF Spec

(* While connections are not closed and no node reports an empty list,     *)
(* there are, unless a refresh is under way, as many connections being     *)
(* made as path builds in the queue: establish_and_store_connection() and  *)
(* refresh_snode_cache_complete() leave none behind.                       *)
THEOREM QueuedBuildsAlwaysServed == Spec => []QueuedBuildsServed
<1>1. Groups /\ ServedInv => QueuedBuildsServed
  BY ServedHolds DEF Groups
<1> QED
  BY <1>1, ServedAlways, PTL

-----------------------------------------------------------------------------
(* Requests in flight.  pending_requests counts them exactly while calls    *)
(* are made on the loop's thread and are fewer than size_t can count.      *)
FewCalls == /\ Reqs \subseteq OnLoop
            /\ IsFiniteSet(Reqs) /\ Cardinality(Reqs \cup Probes) < SizeSpace

Flying(M, c) == {r \in Reqs \cup Probes : \E m \in M : m.req = r /\ m.at = "inflight" /\ m.conn = c}
On(c) == Flying(msgs, c)

NotSending == \A m \in msgs : m.at \notin {"calling", "loaded"}
Counted == \A c \in Conns : pending_requests[c] = Cardinality(On(c))
Fresh == \A a \in attempts : On(a.conn) = {}
Tracked == \A c \in Conns : On(c) # {} /\ conns[c].state = "open" => \E p \in AllPaths : p.conn = c
TrackInv == NotSending /\ Counted /\ Fresh /\ Tracked

LEMMA FlyingFinite ==
    ASSUME FewCalls
    PROVE  \A M, c : /\ IsFiniteSet(Flying(M, c))
                     /\ Cardinality(Flying(M, c)) \in Nat
                     /\ Cardinality(Flying(M, c)) < SizeSpace
<1>1. IsFiniteSet(Reqs \cup Probes)
  BY CallsAssumption, FS_Union DEF FewCalls
<1>2. \A M, c : Flying(M, c) \subseteq Reqs \cup Probes
  BY DEF Flying
<1>3. \A M, c : /\ IsFiniteSet(Flying(M, c))
                /\ Cardinality(Flying(M, c)) <= Cardinality(Reqs \cup Probes)
  BY <1>1, <1>2, FS_Subset
<1>4. Cardinality(Reqs \cup Probes) \in Nat /\ SizeSpace \in Nat
  BY <1>1, FS_CardinalityType, NumbersAssumption
<1>5. \A M, c : Cardinality(Flying(M, c)) \in Nat
  BY <1>3, FS_CardinalityType
<1> QED
  BY <1>3, <1>4, <1>5 DEF FewCalls

LEMMA OnNext == \A c : On(c)' = Flying(msgs', c)
  BY DEF On, Flying

LEMMA FreeOn == \A c \in FreeConns : On(c) = {}
  BY DEF FreeConns, On, Flying

(* The messages in flight are the same, but some may have changed in other *)
(* respects.                                                               *)
Alike(m, n) == m.at = "inflight" /\ n.at = "inflight" /\ m.req = n.req /\ m.conn = n.conn
SameFlights ==
    /\ \A m \in msgs' : m.at = "inflight" => \E n \in msgs : Alike(m, n)
    /\ \A n \in msgs : n.at = "inflight" => \E m \in msgs' : Alike(m, n)

LEMMA SameOn == SameFlights => \A c : On(c)' = On(c)
<1>1. SameFlights => \A c : Flying(msgs', c) = On(c)
  BY DEF SameFlights, Alike, Flying, On
<1> QED
  BY <1>1, OnNext

(* A path with requests in flight stays, or its connection is closed.      *)
PathsStay == \A p \in AllPaths :
                pending_requests'[p.conn] > 0 /\ conns'[p.conn].state = "open"
                   => \E q \in AllPaths' : q.conn = p.conn

LEMMA TrackedNext ==
    ASSUME FewCalls, Groups, PathsStay, Counted',
           \A c \in Conns : On(c)' # {} /\ conns'[c].state = "open"
                               => \E p \in AllPaths : p.conn = c
    PROVE  Tracked'
<1>1. \A c \in Conns : On(c)' # {} => pending_requests'[c] > 0
  <2>1. \A c \in Conns : pending_requests'[c] = Cardinality(Flying(msgs', c))
    BY OnNext DEF Counted
  <2>2. \A c : Flying(msgs', c) # {} => Cardinality(Flying(msgs', c)) > 0
    BY FlyingFinite, FS_EmptySet
  <2> QED
    BY <2>1, <2>2, OnNext
<1>2. \A c \in Conns : On(c)' # {} /\ conns'[c].state = "open" => \E q \in AllPaths' : q.conn = c
  BY <1>1 DEF PathsStay
<1> QED
  BY <1>2 DEF Tracked

(* A step that neither sends a request nor has the answer to one.          *)
LEMMA SteadyTrack ==
    ASSUME FewCalls, Groups, TrackInv, SameFlights, NotSending', PathsStay,
           \/ pending_requests' = pending_requests
           \/ \E c \in FreeConns : pending_requests' = [pending_requests EXCEPT ![c] = 0],
           \A a \in attempts' : a \in attempts \/ a.conn \in FreeConns,
           \A c \in Conns : conns'[c].state = "open"
                               => conns[c].state = "open" \/ \E a \in attempts : a.conn = c
    PROVE  TrackInv'
<1>1. \A c : On(c)' = On(c)
  BY SameOn
<1>2. Counted'
  <2>1. \A c \in FreeConns : Cardinality(On(c)) = 0
    BY FreeOn, FS_EmptySet
  <2>2. \A c \in Conns : pending_requests'[c] = Cardinality(On(c))
    BY <2>1 DEF TrackInv, Counted, Groups, PendingOK
  <2> QED
    BY <1>1, <2>2 DEF Counted
<1>3. Fresh'
  BY <1>1, FreeOn DEF TrackInv, Fresh
<1>4. Tracked'
  <2>1. \A c \in Conns : On(c)' # {} /\ conns'[c].state = "open" => \E p \in AllPaths : p.conn = c
    BY <1>1 DEF TrackInv, Tracked, Fresh
  <2> QED
    BY <1>2, <2>1, TrackedNext
<1> QED
  BY <1>2, <1>3, <1>4 DEF TrackInv

(* A request is sent over a path.                                          *)
LEMMA SentTrack ==
    ASSUME FewCalls, Groups, PathsInv, TrackInv, NEW m \in Msg, NEW others \in SUBSET msgs, NEW p \in paths,
           \A n \in msgs : n.at = "inflight" => n \in others,
           \A n \in others : n.req # m.req,
           msgs' = others \cup {[m EXCEPT !.at = "inflight", !.conn = p.conn]},
           pending_requests' = [pending_requests EXCEPT ![p.conn] = (@ + 1) % SizeSpace],
           UNCHANGED <<attempts, conns, paths, paths_pending_drop>>
    PROVE  TrackInv'
<1> DEFINE sent == [m EXCEPT !.at = "inflight", !.conn = p.conn]
<1>1. p \in AllPaths /\ p.conn \in Conns /\ m.req \in Reqs \cup Probes
  BY PathFields DEF AllPaths, Msg
<1>2. sent.req = m.req /\ sent.at = "inflight" /\ sent.conn = p.conn
  BY DEF Msg
<1>3. msgs' = others \cup {sent}
  OBVIOUS
<1> HIDE DEF sent
<1>4. On(p.conn)' = On(p.conn) \cup {m.req} /\ m.req \notin On(p.conn)
  <2>1. Flying(msgs', p.conn) = On(p.conn) \cup {m.req}
    BY <1>1, <1>2, <1>3 DEF Flying, On
  <2> QED
    BY <2>1, OnNext DEF On, Flying
<1>5. \A c : c # p.conn => On(c)' = On(c)
  <2>1. \A c : c # p.conn => Flying(msgs', c) = On(c)
    BY <1>2, <1>3 DEF Flying, On
  <2> QED
    BY <2>1, OnNext
<1>6. Counted'
  <2>1. /\ Cardinality(On(p.conn))' = Cardinality(On(p.conn)) + 1
        /\ Cardinality(On(p.conn)) \in Nat
        /\ Cardinality(On(p.conn))' < SizeSpace
    <3>1. Cardinality(On(p.conn) \cup {m.req}) = Cardinality(On(p.conn)) + 1
      BY <1>4, FlyingFinite, FS_AddElement DEF On
    <3>2. Cardinality(Flying(msgs', p.conn)) < SizeSpace
      BY FlyingFinite
    <3> QED
      BY <1>4, <3>1, <3>2, FlyingFinite, OnNext DEF On
  <2>2. (Cardinality(On(p.conn)) + 1) % SizeSpace = Cardinality(On(p.conn)) + 1
    BY <2>1, NumbersAssumption
  <2>3. pending_requests'[p.conn] = Cardinality(On(p.conn))'
    BY <1>1, <2>1, <2>2 DEF TrackInv, Counted, Groups, PendingOK
  <2>4. \A c \in Conns : c # p.conn => pending_requests'[c] = Cardinality(On(c))'
    BY <1>5 DEF TrackInv, Counted, Groups, PendingOK
  <2> QED
    BY <2>3, <2>4 DEF Counted
<1>7. Fresh'
  <2>1. \A a \in attempts : a.conn # p.conn
    BY <1>1 DEF PathsInv, PathConns
  <2> QED
    BY <1>5, <2>1 DEF TrackInv, Fresh
<1>8. Tracked'
  BY <1>1, <1>5 DEF TrackInv, Tracked, AllPaths
<1>9. NotSending'
  BY <1>2, <1>3 DEF TrackInv, NotSending
<1> QED
  BY <1>6, <1>7, <1>8, <1>9 DEF TrackInv

(* The answer to a request, or its failure.                                *)
LEMMA AnsweredTrack ==
    ASSUME FewCalls, Groups, OnePlace, TrackInv, NEW m \in At("inflight"), PathsStay,
           pending_requests' = Answered(m), UNCHANGED <<attempts, conns>>,
           \A k \in msgs' : k.at = "inflight" => k \in msgs \ {m},
           \A k \in msgs \ {m} : k.at = "inflight" => k \in msgs',
           NotSending'
    PROVE  TrackInv'
<1> DEFINE d == m.conn
<1>1. m \in msgs /\ m \in Msg /\ m.at = "inflight" /\ d \in Conns /\ m.req \in Reqs \cup Probes
  BY DEF At, Groups, MsgsOK, OnConnection, Msg
<1>2. \A k \in msgs : k.req = m.req => k = m
  BY <1>1 DEF OnePlace
<1>3. On(d)' = On(d) \ {m.req} /\ m.req \in On(d)
  <2>1. Flying(msgs', d) = On(d) \ {m.req}
    BY <1>1, <1>2 DEF Flying, On
  <2>2. m.req \in On(d)
    BY <1>1 DEF Flying, On
  <2> QED
    BY <2>1, <2>2, OnNext
<1>4. \A c : c # d => On(c)' = On(c)
  <2>1. \A c : c # d => Flying(msgs', c) = On(c)
    BY <1>1 DEF Flying, On
  <2> QED
    BY <2>1, OnNext
<1>5. Counted'
  <2>1. /\ Cardinality(On(d))' = Cardinality(On(d)) - 1
        /\ Cardinality(On(d)) \in Nat /\ Cardinality(On(d)) < SizeSpace
        /\ Cardinality(On(d))' \in Nat
    <3>1. Cardinality(On(d) \ {m.req}) = Cardinality(On(d)) - 1
      BY <1>3, FlyingFinite, FS_RemoveElement DEF On
    <3> QED
      BY <1>3, <3>1, FlyingFinite, OnNext DEF On
  <2>2. (Cardinality(On(d)) - 1) % SizeSpace = Cardinality(On(d)) - 1
    BY <2>1, NumbersAssumption
  <2>3. pending_requests'[d] = Cardinality(On(d))'
    BY <1>1, <2>1, <2>2 DEF TrackInv, Counted, Groups, PendingOK, Answered
  <2>4. \A c \in Conns : c # d => pending_requests'[c] = Cardinality(On(c))'
    BY <1>4 DEF TrackInv, Counted, Groups, PendingOK, Answered
  <2> QED
    BY <2>3, <2>4 DEF Counted
<1>6. \A c : On(c)' # {} => On(c) # {}
  BY <1>3, <1>4
<1>7. Fresh'
  BY <1>6 DEF TrackInv, Fresh
<1>8. Tracked'
  <2>1. \A c \in Conns : On(c)' # {} /\ conns'[c].state = "open" => \E p \in AllPaths : p.conn = c
    BY <1>6 DEF TrackInv, Tracked
  <2> QED
    BY <1>5, <2>1, TrackedNext
<1> QED
  BY <1>5, <1>7, <1>8 DEF TrackInv

(* Messages that are neither sent nor being sent.                          *)
Grounded(M) == \A m \in M : m.at \notin {"calling", "loaded", "inflight"}

LEMMA RegroupedTrack ==
    ASSUME TrackInv, NEW S, NEW G, Grounded(S), Grounded(G), msgs' = (msgs \ S) \cup G
    PROVE  SameFlights /\ NotSending'
  BY DEF TrackInv, Grounded, SameFlights, Alike, NotSending

(* Nothing else changes that matters to the requests in flight.            *)
LEMMA QuietTrack ==
    ASSUME FewCalls, Groups, TrackInv, SameFlights, NotSending',
           UNCHANGED <<conns, attempts, paths, paths_pending_drop, pending_requests>>
    PROVE  TrackInv'
<1>1. PathsStay
  BY DEF PathsStay, AllPaths
<1> QED
  BY <1>1, SteadyTrack

LEMMA RegroupedQuiet ==
    ASSUME FewCalls, Groups, TrackInv, NEW S, NEW G, Grounded(S), Grounded(G),
           msgs' = (msgs \ S) \cup G,
           UNCHANGED <<conns, attempts, paths, paths_pending_drop, pending_requests>>
    PROVE  TrackInv'
  BY RegroupedTrack, QuietTrack

LEMMA SameMessages ==
    ASSUME TrackInv, msgs' = msgs
    PROVE  SameFlights /\ NotSending'
  BY DEF TrackInv, SameFlights, Alike, NotSending

LEMMA FieldsAt ==
    ASSUME NEW m \in Msg
    PROVE  /\ \A s : [m EXCEPT !.at = s].at = s
           /\ \A s, c : [m EXCEPT !.at = s, !.conn = c].at = s
           /\ \A s, d, r : [m EXCEPT !.at = s, !.dest = d, !.retry = r].at = s
  BY DEF Msg

(* _send_onion_request() on the loop, of a message not in flight.          *)
LEMMA SendTrack ==
    ASSUME FewCalls, Groups, PathsInv, TrackInv, NEW m \in Msg, NEW others \in SUBSET msgs, NEW rest,
           \A n \in msgs : n.at = "inflight" => n \in others,
           \A n \in others : n.req # m.req,
           SendOnLoop(m, others, rest),
           UNCHANGED <<attempts, conns, paths, paths_pending_drop>>
    PROVE  TrackInv'
<1> DEFINE found == FindValidPath(m, PathsOf(PathTypeOf(m)))
           queued == [m EXCEPT !.at = "queued"]
<1>1. ASSUME \/ msgs' = others
             \/ msgs' = others \cup {queued},
             UNCHANGED pending_requests
      PROVE  TrackInv'
  <2>1. queued.at = "queued"
    BY FieldsAt
  <2> HIDE DEF queued
  <2>2. SameFlights /\ NotSending'
    BY <1>1, <2>1 DEF SameFlights, Alike, NotSending, TrackInv
  <2> QED
    BY <1>1, <2>2, QuietTrack
<1>2. ASSUME NEW p \in found,
             msgs' = others \cup {[m EXCEPT !.at = "inflight", !.conn = p.conn]},
             pending_requests' = [pending_requests EXCEPT ![p.conn] = (@ + 1) % SizeSpace]
      PROVE  TrackInv'
  <2>1. p \in paths
    BY <1>2, FoundPaths DEF PathsOf, FindValidPath
  <2> HIDE DEF found
  <2> QED
    BY <1>2, <2>1, SentTrack
<1>3. \/ (msgs' = others \/ msgs' = others \cup {queued}) /\ UNCHANGED pending_requests
      \/ \E p \in found :
           /\ msgs' = others \cup {[m EXCEPT !.at = "inflight", !.conn = p.conn]}
           /\ pending_requests' = [pending_requests EXCEPT ![p.conn] = (@ + 1) % SizeSpace]
  BY Zenon DEF SendOnLoop
<1> HIDE DEF found, queued
<1> QED
  BY <1>1, <1>2, <1>3

LEMMA RunScheduledTrack ==
    ASSUME FewCalls, Groups, OnePlace, PathsInv, TrackInv, NEW m \in msgs, RunScheduled(m)
    PROVE  TrackInv'
<1>1. m \in Msg /\ m.at = "scheduled"
  BY DEF Groups, MsgsOK, RunScheduled, At
<1>2. SendOnLoop(m, msgs \ {m}, tasks)
  BY Zenon DEF RunScheduled
<1>3. UNCHANGED <<attempts, conns, paths, paths_pending_drop>>
  BY Zenon DEF RunScheduled, sendUnchanged, connVars
<1>4. /\ msgs \ {m} \in SUBSET msgs
      /\ \A n \in msgs : n.at = "inflight" => n \in msgs \ {m}
      /\ \A n \in msgs \ {m} : n.req # m.req
  BY <1>1 DEF OnePlace
<1> QED
  BY <1>1, <1>2, <1>3, <1>4, SendTrack

LEMMA CallTrack ==
    ASSUME FewCalls, Groups, OnePlace, PathsInv, TrackInv, NEW r \in Reqs, CallOnLoop(r)
    PROVE  TrackInv'
<1> DEFINE m == Message(r, Dest[r], None)
<1>1. m \in Msg /\ m.req = r
  BY CallsAssumption, NewMessage DEF CallOnLoop, Tokens
<1>2. SendOnLoop(m, msgs, tasks)
  BY Zenon DEF CallOnLoop
<1>3. UNCHANGED <<attempts, conns, paths, paths_pending_drop>>
  BY Zenon DEF CallOnLoop, sendUnchanged, connVars
<1> HIDE DEF m
<1>4. \A n \in msgs : n.req # m.req
  BY <1>1 DEF OnePlace, CallOnLoop
<1> QED
  BY <1>1, <1>2, <1>3, <1>4, SendTrack

(* A connection is being made, on one nothing refers to.                   *)
LEMMA ConnectTrack ==
    ASSUME FewCalls, Groups, TrackInv, FreeConns # {}, NEW id, NEW node, NEW seed,
           Connect(id, node, seed), UNCHANGED <<paths, paths_pending_drop, msgs>>
    PROVE  TrackInv'
<1> DEFINE c == Least(FreeConns)
<1>1. c \in FreeConns /\ c \in Conns
  BY LeastFree
<1>2. /\ conns' = [conns EXCEPT ![c] = [node |-> node, state |-> "connecting"]]
      /\ attempts' = attempts \cup {[conn |-> c, id |-> id, seed |-> seed]}
      /\ pending_requests' = [pending_requests EXCEPT ![c] = 0]
  BY DEF Connect
<1> HIDE DEF c
<1>3. SameFlights /\ NotSending' /\ PathsStay
  BY SameMessages DEF PathsStay, AllPaths
<1>4. \A k \in Conns : conns'[k].state = "open" => conns[k].state = "open"
  BY <1>1, <1>2, PathFields
<1>5. \A a \in attempts' : a \in attempts \/ a.conn \in FreeConns
  <2>1. [conn |-> c, id |-> id, seed |-> seed].conn = c
    OBVIOUS
  <2> QED
    BY <1>1, <1>2, <2>1, Zenon
<1>6. \E k \in FreeConns : pending_requests' = [pending_requests EXCEPT ![k] = 0]
  BY <1>1, <1>2
<1> QED
  BY <1>3, <1>4, <1>5, <1>6, SteadyTrack

LEMMA RefreshTrack ==
    ASSUME FewCalls, Groups, PathsInv, TrackInv, NEW task \in tasks, RefreshTask(task)
    PROVE  TrackInv'
<1> DEFINE nodes == UnusedFor(MinSnodeCacheSize)
           probe(n) == Message(Least(FreeProbes), n, task.id)
<1>1. task.id \in Tokens
  BY TaskFields DEF Groups, TasksOK, RefreshTask
<1>2. UNCHANGED <<paths, paths_pending_drop>>
  BY Zenon DEF RefreshTask
<1>3. CASE UNCHANGED <<conns, attempts, pending_requests, msgs>>
  BY <1>2, <1>3, SameMessages, QuietTrack
<1>4. CASE FreeConns # {} /\ Connect(task.id, None, TRUE) /\ UNCHANGED msgs
  BY <1>2, <1>4, ConnectTrack
<1>5. ASSUME FreeProbes # {}, NEW n \in nodes, NEW rest, SendOnLoop(probe(n), msgs, rest),
             UNCHANGED <<conns, attempts>>
      PROVE  TrackInv'
  <2> DEFINE m == probe(n)
  <2>1. nodes \subseteq Nodes
    BY SomeNodes DEF Groups
  <2>2. m \in Msg /\ m.req = Least(FreeProbes)
    BY <1>1, <1>5, <2>1, FreeProbe, NewMessage
  <2>3. \A k \in msgs : k.req # m.req
    BY <1>5, <2>2, FreeProbe DEF FreeProbes
  <2>4. SendOnLoop(m, msgs, rest)
    BY <1>5
  <2> HIDE DEF m
  <2> QED
    BY <1>2, <1>5, <2>2, <2>3, <2>4, SendTrack
<1> QED
  BY <1>3, <1>4, <1>5, Zenon DEF RefreshTask

(* A connection comes up or is closed.                                     *)
LEMMA DialTrack ==
    ASSUME FewCalls, Groups, PathsInv, TrackInv,
           \/ \E i \in Ids : EstablishTask(i)
           \/ \E i \in Ids \cup Reqs : SeedTask(i)
           \/ \E a \in attempts : Connected(a)
    PROVE  TrackInv'
<1>1. ASSUME NEW i \in Ids, EstablishTask(i)
      PROVE  TrackInv'
  <2>1. UNCHANGED <<paths, paths_pending_drop, msgs>>
    BY <1>1, Zenon DEF EstablishTask, reqVars
  <2>2. \/ UNCHANGED <<conns, attempts, pending_requests>>
        \/ FreeConns # {} /\ \E n : Connect(i, n, FALSE)
    BY <1>1, Zenon DEF EstablishTask, connVars
  <2> QED
    BY <2>1, <2>2, SameMessages, QuietTrack, ConnectTrack
<1>2. ASSUME NEW i \in Ids \cup Reqs, SeedTask(i)
      PROVE  TrackInv'
  <2>1. UNCHANGED <<paths, paths_pending_drop, msgs>>
    BY <1>2, Zenon DEF SeedTask, reqVars
  <2>2. \/ UNCHANGED <<conns, attempts, pending_requests>>
        \/ FreeConns # {} /\ Connect(i, None, TRUE)
    BY <1>2, Zenon DEF SeedTask
  <2> QED
    BY <2>1, <2>2, SameMessages, QuietTrack, ConnectTrack
<1>3. ASSUME NEW a \in attempts, Connected(a)
      PROVE  TrackInv'
  <2>1. UNCHANGED <<paths, paths_pending_drop, pending_requests, msgs>>
    BY <1>3, Zenon DEF Connected, pathVars, reqVars
  <2>2. /\ conns' = [conns EXCEPT ![a.conn].state = "open"]
        /\ attempts' = attempts \ {a}
    BY <1>3, Zenon DEF Connected
  <2>3. SameFlights /\ NotSending' /\ PathsStay
    BY <2>1, SameMessages DEF PathsStay, AllPaths
  <2>4. \A c \in Conns : c # a.conn => conns'[c] = conns[c]
    BY <2>2, PathFields
  <2> QED
    BY <2>1, <2>2, <2>3, <2>4, SteadyTrack
<1> QED
  BY <1>1, <1>2, <1>3

(* Connections close, whatever becomes of the messages that are not in      *)
(* flight.                                                                 *)
LEMMA ClosedTrack ==
    ASSUME FewCalls, Groups, TrackInv, SameFlights, NotSending', NEW c \in Conns,
           conns' = [conns EXCEPT ![c].state = "closed"], attempts' \subseteq attempts,
           UNCHANGED pending_requests, NEW over \in SUBSET paths, paths' = paths \ over,
           \/ paths_pending_drop' = StillBusy(paths_pending_drop \cup over, pending_requests)
           \/ over = {} /\ UNCHANGED paths_pending_drop
    PROVE  TrackInv'
<1>1. PathsStay
  BY DEF PathsStay, AllPaths, StillBusy
<1>2. \A k \in Conns : conns'[k].state = "open" => conns[k].state = "open"
  BY PathFields
<1> QED
  BY <1>1, <1>2, SteadyTrack

LEMMA ClosingTrack ==
    ASSUME FewCalls, Groups, TrackInv,
           \/ \E a \in attempts, t \in BOOLEAN : AttemptFails(a, t)
           \/ \E c \in Conns : ConnectionCloses(c)
    PROVE  TrackInv'
<1>1. ASSUME NEW a \in attempts, NEW t, AttemptFails(a, t)
      PROVE  TrackInv'
  <2>1. UNCHANGED <<paths, pending_requests, msgs>>
    BY <1>1, Zenon DEF AttemptFails, reqVars
  <2>2. /\ conns' = [conns EXCEPT ![a.conn].state = "closed"]
        /\ attempts' = attempts \ {a}
        /\ paths_pending_drop' = StillBusy(paths_pending_drop, pending_requests)
    BY <1>1, Zenon DEF AttemptFails
  <2>3. paths' = paths \ {} /\ paths_pending_drop \cup {} = paths_pending_drop
    BY <2>1
  <2>4. a.conn \in Conns /\ {} \in SUBSET paths
    BY PathFields
  <2> QED
    BY <2>1, <2>2, <2>3, <2>4, SameMessages, ClosedTrack
<1>2. ASSUME NEW c \in Conns, ConnectionCloses(c)
      PROVE  TrackInv'
  <2> DEFINE over == {p \in paths : p.conn = c}
  <2>1. UNCHANGED <<attempts, pending_requests, msgs>>
    BY <1>2, Zenon DEF ConnectionCloses, reqVars
  <2>2. /\ conns' = [conns EXCEPT ![c].state = "closed"]
        /\ paths' = paths \ over
        /\ paths_pending_drop' = StillBusy(paths_pending_drop \cup over, pending_requests)
    BY <1>2, Zenon DEF ConnectionCloses
  <2>3. over \in SUBSET paths
    OBVIOUS
  <2> HIDE DEF over
  <2> QED
    BY <2>1, <2>2, <2>3, SameMessages, ClosedTrack
<1> QED
  BY <1>1, <1>2

(* refresh_snode_cache_complete() moves the requests that waited for it.   *)
LEMMA CompleteMoves ==
    ASSUME Groups, NEW A, NEW others \in SUBSET msgs, Complete(A, others)
    PROVE  \E S, G : Grounded(S) /\ Grounded(G) /\ msgs' = (others \ S) \cup G
<1> DEFINE waiting == {m \in others : m.at = "after"}
           resumed == {[m EXCEPT !.at = "resumed"] : m \in waiting}
<1>1. msgs' = (others \ waiting) \cup resumed
  BY Zenon DEF Complete
<1>2. Grounded(waiting)
  BY DEF Grounded
<1>3. Grounded(resumed)
  <2>1. \A m \in waiting : m \in Msg
    BY DEF Groups, MsgsOK
  <2>2. \A m \in waiting : [m EXCEPT !.at = "resumed"].at = "resumed"
    BY <2>1, FieldsAt
  <2> QED
    BY <2>2, Zenon DEF Grounded
<1> HIDE DEF waiting, resumed
<1> QED
  BY <1>1, <1>2, <1>3

LEMMA SeedAnswersTrack ==
    ASSUME FewCalls, Groups, TrackInv, NEW a \in attempts, NEW A, SeedAnswers(a, A)
    PROVE  TrackInv'
<1>1. UNCHANGED <<paths, pending_requests>>
  BY Zenon DEF SeedAnswers
<1>2. /\ conns' = [conns EXCEPT ![a.conn].state = "closed"]
      /\ attempts' = attempts \ {a}
      /\ \/ paths_pending_drop' = StillBusy(paths_pending_drop, pending_requests)
         \/ UNCHANGED paths_pending_drop
  BY Zenon DEF SeedAnswers
<1>3. SameFlights /\ NotSending'
  <2>1. msgs' = msgs \/ Complete(A, msgs)
    BY Zenon DEF SeedAnswers
  <2>2. msgs \in SUBSET msgs
    OBVIOUS
  <2> QED
    BY <2>1, <2>2, SameMessages, CompleteMoves, RegroupedTrack
<1>4. /\ paths' = paths \ {} /\ paths_pending_drop \cup {} = paths_pending_drop
      /\ a.conn \in Conns /\ {} \in SUBSET paths
  BY <1>1, PathFields
<1> QED
  BY <1>1, <1>2, <1>3, <1>4, ClosedTrack

LEMMA CloseTrack ==
    ASSUME FewCalls, Groups, TrackInv, NEW s, CloseConnections(s)
    PROVE  TrackInv'
<1>1. /\ conns' = [c \in Conns |-> [conns[c] EXCEPT !.state = "closed"]]
      /\ msgs' = msgs \ At("queued") /\ UNCHANGED <<attempts, pending_requests>>
  BY Zenon DEF CloseConnections
<1>2. \A c \in Conns : conns'[c].state # "open"
  BY <1>1, PathFields
<1>3. SameFlights /\ NotSending'
  BY <1>1 DEF At, SameFlights, Alike, NotSending, TrackInv
<1>4. PathsStay
  BY <1>2, PathFields DEF PathsStay
<1> QED
  BY <1>1, <1>2, <1>3, <1>4, SteadyTrack

(* Path builds: the messages that the new path serves are scheduled.       *)
LEMMA StorePathTrack ==
    ASSUME FewCalls, Groups, TrackInv, NEW id, NEW t, NEW c, NEW others, NEW rest,
           StorePath(id, t, c, others, rest)
    PROVE  TrackInv'
<1> DEFINE path == [conn |-> c, type |-> t, others |-> others, failures |-> 0]
           queued == {m \in At("queued") : PathTypeOf(m) = t}
           ready == {m \in queued : FindValidPath(m, {path}) # {}}
           scheduled == {[m EXCEPT !.at = "scheduled"] : m \in ready}
<1>1. msgs' = (msgs \ ready) \cup scheduled
  BY Zenon DEF StorePath
<1>2. Grounded(ready) /\ \A m \in ready : m \in Msg
  BY DEF Grounded, At, Groups, MsgsOK
<1>3. Grounded(scheduled)
  <2> HIDE DEF ready
  <2>1. \A m \in ready : [m EXCEPT !.at = "scheduled"].at = "scheduled"
    BY <1>2, FieldsAt
  <2> QED
    BY <2>1, Zenon DEF Grounded
<1>4. /\ UNCHANGED <<conns, attempts, paths_pending_drop, pending_requests>>
      /\ paths \subseteq paths'
  <2>1. UNCHANGED <<conns, attempts, paths_pending_drop, pending_requests>>
    BY Zenon DEF StorePath
  <2>2. \E p : paths' = paths \cup {p}
    BY Zenon DEF StorePath
  <2> QED
    BY <2>1, <2>2
<1> HIDE DEF ready, scheduled
<1>5. SameFlights /\ NotSending'
  BY <1>1, <1>2, <1>3, RegroupedTrack
<1>6. PathsStay
  BY <1>4 DEF PathsStay, AllPaths
<1> QED
  BY <1>4, <1>5, <1>6, SteadyTrack

LEMMA BuildTrack ==
    ASSUME FewCalls, Groups, TrackInv,
           \/ \E i \in Ids, t \in PathTypes : BuildTask(i, t)
           \/ \E t \in tasks : NeededTask(t)
    PROVE  TrackInv'
<1>1. ASSUME NEW id, NEW t, NEW rest, BuildPath(id, t, rest)
      PROVE  TrackInv'
  <2>1. CASE UNCHANGED <<connVars, pathVars, msgs>>
    <3>1. UNCHANGED <<conns, attempts, paths, paths_pending_drop, pending_requests, msgs>>
      BY <2>1, Zenon DEF connVars, pathVars
    <3> QED
      BY <3>1, SameMessages, QuietTrack
  <2>2. CASE \E c, others : StorePath(id, t, c, others, rest)
    BY <2>2, StorePathTrack
  <2> QED
    BY <1>1, <2>1, <2>2, Zenon DEF BuildPath, EnqueueBuild
<1>2. CASE UNCHANGED <<conns, attempts, paths, paths_pending_drop, pending_requests, msgs>>
  BY <1>2, SameMessages, QuietTrack
<1> QED
  BY <1>1, <1>2, Zenon DEF BuildTask, NeededTask, connVars, pathVars, reqVars

(* Lookups, timeouts and sweeps: no message in flight changes but by the   *)
(* timeout of its path build.                                              *)
LEMMA LookupMoves ==
    ASSUME NEW m \in Msg, NEW others, Lookup(m, others)
    PROVE  \E G : Grounded(G) /\ msgs' = others \cup G
<1>1. \A n : n.at \notin {"calling", "loaded", "inflight"} => Grounded({n})
  BY DEF Grounded
<1> DEFINE after == [m EXCEPT !.at = "after", !.conn = None]
           again(n) == [m EXCEPT !.at = "scheduled", !.dest = n, !.retry = "redirect_swarm_refresh"]
<1>2. after.at = "after" /\ \A n : again(n).at = "scheduled"
  BY FieldsAt
<1>3. \/ msgs' = others
      \/ msgs' = others \cup {after}
      \/ \E n : msgs' = others \cup {again(n)}
  BY Zenon DEF Lookup, GetRandomNodes, GetSwarm, GotSwarm, WaitForRefresh
<1> HIDE DEF after, again
<1>4. Grounded({}) /\ others \cup {} = others
  BY DEF Grounded
<1>5. Grounded({after}) /\ \A n : Grounded({again(n)})
  BY <1>1, <1>2
<1> QED
  BY <1>3, <1>4, <1>5, Zenon

LEMMA LookupTrack ==
    ASSUME FewCalls, Groups, TrackInv,
           \/ \E r \in Reqs : CallLookup(r)
           \/ \E m \in msgs : RunResumed(m)
    PROVE  TrackInv'
<1>1. ASSUME NEW m \in Msg, NEW S, Grounded(S), Lookup(m, msgs \ S)
      PROVE  TrackInv'
  <2>1. \E G : Grounded(G) /\ msgs' = (msgs \ S) \cup G
    BY <1>1, LookupMoves
  <2>2. UNCHANGED <<conns, attempts, paths, paths_pending_drop, pending_requests>>
    BY <1>1, Zenon DEF Lookup, connVars, pathVars
  <2> QED
    BY <1>1, <2>1, <2>2, RegroupedQuiet
<1>2. ASSUME NEW r \in Reqs, CallLookup(r)
      PROVE  TrackInv'
  <2>1. Message(r, None, None) \in Msg
    BY NewMessage DEF Tokens
  <2>2. Lookup(Message(r, None, None), msgs) /\ msgs \ {} = msgs
    BY <1>2, Zenon DEF CallLookup
  <2>3. Lookup(Message(r, None, None), msgs \ {})
    BY <2>2
  <2>4. Grounded({})
    BY DEF Grounded
  <2> QED
    BY <1>1, <2>1, <2>3, <2>4
<1>3. ASSUME NEW m \in msgs, RunResumed(m)
      PROVE  TrackInv'
  <2>1. m \in Msg /\ Grounded({m})
    BY <1>3 DEF RunResumed, At, Grounded, Groups, MsgsOK
  <2>2. Lookup(m, msgs \ {m})
    BY <1>3, Zenon DEF RunResumed
  <2> QED
    BY <1>1, <2>1, <2>2
<1> QED
  BY <1>2, <1>3

LEMMA ExpireTrack ==
    ASSUME FewCalls, Groups, TrackInv, NEW m \in msgs, Expire(m)
    PROVE  TrackInv'
<1> DEFINE n == [m EXCEPT !.late = TRUE]
<1>1. msgs' = (msgs \ {m}) \cup {n}
  BY Zenon DEF Expire
<1>2. UNCHANGED <<conns, attempts, paths, paths_pending_drop, pending_requests>>
  BY Zenon DEF Expire, sendUnchanged, connVars
<1>3. m \in Msg
  BY DEF Groups, MsgsOK
<1>4. n.at = m.at /\ n.req = m.req /\ n.conn = m.conn
  BY <1>3 DEF Msg
<1> HIDE DEF n
<1>5. SameFlights
  BY <1>1, <1>4 DEF SameFlights, Alike
<1>6. NotSending'
  BY <1>1, <1>4 DEF TrackInv, NotSending
<1> QED
  BY <1>2, <1>5, <1>6, QuietTrack

LEMMA CheckTrack ==
    ASSUME FewCalls, Groups, TrackInv, NEW l, CheckTask(l)
    PROVE  TrackInv'
<1> DEFINE over == {m \in {n \in At("queued") : IsTimed(n)} : m.late}
<1>1. msgs' = msgs \/ msgs' = msgs \ over
  BY Zenon DEF CheckTask
<1>2. UNCHANGED <<conns, attempts, paths, paths_pending_drop, pending_requests>>
  BY Zenon DEF CheckTask, connVars, pathVars
<1>3. Grounded({}) /\ Grounded(over)
  BY DEF Grounded, At
<1> HIDE DEF over
<1>4. \E S : Grounded(S) /\ msgs' = (msgs \ S) \cup {}
  <2>1. msgs' = (msgs \ {}) \cup {} \/ msgs' = (msgs \ over) \cup {}
    BY <1>1
  <2> QED
    BY <1>3, <2>1
<1> QED
  BY <1>2, <1>3, <1>4, RegroupedQuiet

(* handle_errors() gives up a path with requests in flight only by putting  *)
(* it in paths_pending_drop.                                               *)
LEMMA ClearedStay ==
    ASSUME Groups, NEW m, NEW inner, pending_requests' = Answered(m), paths' = paths,
           paths_pending_drop' = Cleared(m, paths_pending_drop, inner)
    PROVE  PathsStay
<1>1. \A p \in paths_pending_drop : pending_requests'[p.conn] > 0 => p \in paths_pending_drop'
  BY DEF Cleared, StillBusy
<1> QED
  BY <1>1 DEF PathsStay, AllPaths

LEMMA BlameStay ==
    ASSUME Groups, NEW m, NEW p \in AllPaths, NEW bad, NEW new, NEW inner,
           pending_requests' = Answered(m), BlamePath(m, p, bad, new, inner)
    PROVE  PathsStay
<1>1. \A q \in paths_pending_drop :
         pending_requests'[q.conn] > 0 => q \in Cleared(m, paths_pending_drop, inner)
  BY DEF Cleared, StillBusy
<1>2. CASE paths' = paths /\ paths_pending_drop' = Cleared(m, paths_pending_drop, inner)
  BY <1>2, ClearedStay
<1>3. CASE /\ p \in paths
           /\ paths' = paths \ {p}
           /\ paths_pending_drop' = StillBusy(paths_pending_drop \cup {p}, Answered(m))
  BY <1>3 DEF PathsStay, AllPaths, StillBusy
<1>4. CASE /\ p \in paths
           /\ paths' = (paths \ {p}) \cup {Repaired(p, bad, new)}
           /\ paths_pending_drop' = Cleared(m, paths_pending_drop, inner)
  <2> DEFINE n == Repaired(p, bad, new)
  <2>1. p \in Path
    BY PathFields
  <2>2. n.conn = p.conn
    BY <2>1 DEF Repaired, Path
  <2>3. paths' = (paths \ {p}) \cup {n}
    BY <1>4
  <2> HIDE DEF n
  <2> QED
    BY <1>1, <1>4, <2>2, <2>3 DEF PathsStay, AllPaths
<1> QED
  BY <1>2, <1>3, <1>4, Zenon DEF BlamePath

LEMMA ErrorsStay ==
    ASSUME Groups, NEW m, NEW status, NEW timeout, NEW bad, NEW inner,
           pending_requests' = Answered(m),
           \/ NoPathChange(m, inner)
           \/ HandleErrors(m, status, timeout, bad, inner)
    PROVE  PathsStay
<1>1. ASSUME NoPathChange(m, inner)
      PROVE  PathsStay
  BY <1>1, ClearedStay DEF NoPathChange
<1>2. ASSUME Blame(m, bad, inner)
      PROVE  PathsStay
  <2>1. \/ NoPathChange(m, inner)
        \/ \E p \in AllPaths : \E new : BlamePath(m, p, bad, new, inner)
    BY <1>2 DEF Blame, AllPaths, PathsOf
  <2> QED
    BY <1>1, <2>1, BlameStay
<1> QED
  BY <1>1, <1>2, Zenon DEF HandleErrors

(* m is gone or becomes a message that is not in flight; messages that are  *)
(* not in flight may change.                                               *)
LEMMA AnsweredMoves ==
    ASSUME FewCalls, Groups, OnePlace, TrackInv, NEW m \in At("inflight"), PathsStay,
           pending_requests' = Answered(m), UNCHANGED <<attempts, conns>>,
           NEW S, NEW G, Grounded(S), Grounded(G), msgs' = ((msgs \ {m}) \ S) \cup G
    PROVE  TrackInv'
<1>1. /\ \A k \in msgs' : k.at = "inflight" => k \in msgs \ {m}
      /\ \A k \in msgs \ {m} : k.at = "inflight" => k \in msgs'
      /\ NotSending'
  BY DEF Grounded, TrackInv, NotSending
<1> QED
  BY <1>1, AnsweredTrack

LEMMA ErrorMoves ==
    ASSUME NEW m \in Msg,
           \/ Ends(m)
           \/ Again(m, [m EXCEPT !.retry = "decryption_failure"])
           \/ \E status, timeout, bad, inner : HandleErrors(m, status, timeout, bad, inner)
    PROVE  \E G : Grounded(G) /\ msgs' = (msgs \ {m}) \cup G
<1> DEFINE after == [m EXCEPT !.at = "after", !.conn = None]
           again == [[m EXCEPT !.retry = "decryption_failure"] EXCEPT !.at = "scheduled", !.conn = None]
           moved(n) == [[m EXCEPT !.dest = n, !.retry = "redirect"]
                           EXCEPT !.at = "scheduled", !.conn = None]
<1>1. /\ after.at = "after" /\ again.at = "scheduled"
      /\ \A n : moved(n).at = "scheduled"
  BY DEF Msg
<1>2. \/ msgs' = msgs \ {m}
      \/ msgs' = (msgs \ {m}) \cup {after}
      \/ msgs' = (msgs \ {m}) \cup {again}
      \/ \E n : msgs' = (msgs \ {m}) \cup {moved(n)}
  BY Zenon DEF Ends, Again, HandleErrors
<1> HIDE DEF after, again, moved
<1>3. \A n : n.at \notin {"calling", "loaded", "inflight"} => Grounded({n})
  BY DEF Grounded
<1>4. Grounded({}) /\ (msgs \ {m}) \cup {} = msgs \ {m}
  BY DEF Grounded
<1>5. Grounded({after}) /\ Grounded({again}) /\ \A n : Grounded({moved(n)})
  BY <1>1, <1>3
<1> QED
  BY <1>2, <1>4, <1>5, Zenon

LEMMA AnswerTrack ==
    ASSUME FewCalls, Groups, OnePlace, TrackInv, NEW m \in msgs,
           \/ \E b : Replies(m, b)
           \/ \E s, t, n : Fails(m, s, t, n)
           \/ Undecipherable(m) \/ ProbeGarbled(m)
    PROVE  TrackInv'
<1>1. /\ m \in At("inflight") /\ pending_requests' = Answered(m)
      /\ UNCHANGED <<attempts, conns>>
  BY Zenon DEF Replies, Fails, Undecipherable, ProbeGarbled, answerUnchanged, connVars
<1>2. m \in Msg
  BY DEF Groups, MsgsOK
<1>3. \/ \E s, t, n, i : HandleErrors(m, s, t, n, i)
      \/ NoPathChange(m, TRUE) /\ Ends(m)
      \/ NoPathChange(m, TRUE) /\ Again(m, [m EXCEPT !.retry = "decryption_failure"])
  BY Zenon DEF Replies, Fails, Undecipherable, ProbeGarbled
<1>4. PathsStay
  BY <1>1, <1>3, ErrorsStay, Zenon
<1>5. \E G : Grounded(G) /\ msgs' = (msgs \ {m}) \cup G
  BY <1>2, <1>3, ErrorMoves, Zenon
<1>6. Grounded({}) /\ (msgs \ {m}) \ {} = msgs \ {m}
  BY DEF Grounded
<1>7. \E S, G : Grounded(S) /\ Grounded(G) /\ msgs' = ((msgs \ {m}) \ S) \cup G
  BY <1>5, <1>6
<1> QED
  BY <1>1, <1>4, <1>7, AnsweredMoves, Zenon

LEMMA ListTrack ==
    ASSUME FewCalls, Groups, OnePlace, TrackInv, NEW m \in msgs, NEW A, ProbeAnswers(m, A)
    PROVE  TrackInv'
<1>1. /\ m \in At("inflight") /\ pending_requests' = Answered(m)
      /\ UNCHANGED <<attempts, conns, paths>>
      /\ paths_pending_drop' = Cleared(m, paths_pending_drop, TRUE)
  BY Zenon DEF ProbeAnswers, connVars
<1>2. PathsStay
  BY <1>1, ClearedStay
<1>3. msgs' = msgs \ {m} \/ \E B : Complete(B, msgs \ {m})
  BY Zenon DEF ProbeAnswers
<1>4. \E S, G : Grounded(S) /\ Grounded(G) /\ msgs' = ((msgs \ {m}) \ S) \cup G
  <2>1. CASE msgs' = msgs \ {m}
    <3>1. Grounded({}) /\ msgs' = ((msgs \ {m}) \ {}) \cup {}
      BY <2>1 DEF Grounded
    <3> QED
      BY <3>1
  <2>2. CASE \E B : Complete(B, msgs \ {m})
    <3>1. msgs \ {m} \in SUBSET msgs
      OBVIOUS
    <3> QED
      BY <2>2, <3>1, CompleteMoves
  <2> QED
    BY <1>3, <2>1, <2>2
<1> QED
  BY <1>1, <1>2, <1>4, AnsweredMoves, Zenon

(* No call is made on another thread.                                      *)
LEMMA TrackStep ==
    ASSUME FewCalls, Groups, OnePlace, PathsInv, TrackInv, [Next]_vars
    PROVE  TrackInv'
<1>1. ASSUME UNCHANGED <<conns, attempts, paths, paths_pending_drop, pending_requests, msgs>>
      PROVE  TrackInv'
  BY <1>1, SameMessages, QuietTrack
<1>2. CASE Application
  <2>1. ASSUME NEW r \in Reqs
        PROVE  ~Call(r)
    BY DEF Call, FewCalls
  <2>2. CASE Resume
    BY <1>1, <2>2, Zenon DEF Resume, connVars, pathVars, reqVars
  <2> QED
    BY <1>2, <2>1, <2>2, LookupTrack, CallTrack, CloseTrack, Zenon DEF Application
<1>3. CASE Tasks
  BY <1>3, BuildTrack, RefreshTrack, DialTrack, CheckTrack, LookupTrack, RunScheduledTrack, Zenon
     DEF Tasks
<1>4. CASE Remote
  BY <1>4, DialTrack, SeedAnswersTrack, ListTrack, AnswerTrack, Zenon DEF Remote
<1>5. CASE Failures
  BY <1>5, ClosingTrack, AnswerTrack, Zenon DEF Failures
<1>6. CASE Threads
  <2>1. ASSUME NEW m \in msgs
        PROVE  ~Proceed(m) /\ ~Store(m)
    BY DEF Proceed, Store, At, TrackInv, NotSending
  <2> QED
    BY <1>6, <2>1, ExpireTrack, Zenon DEF Threads
<1>7. CASE UNCHANGED vars
  BY <1>1, <1>7, Zenon DEF vars, connVars, pathVars, reqVars
<1> QED
  BY <1>2, <1>3, <1>4, <1>5, <1>6, <1>7 DEF Next

LEMMA TrackInit == Init => TrackInv
<1>1. Init => \A c : Flying(msgs, c) = {}
  BY DEF Init, Flying
<1>2. Init => /\ msgs = {} /\ attempts = {}
              /\ \A c \in Conns : pending_requests[c] = 0
  BY DEF Init
<1> QED
  BY <1>1, <1>2, FS_EmptySet DEF TrackInv, NotSending, Counted, Fresh, Tracked, On

LEMMA TrackAlways ==
    ASSUME FewCalls
    PROVE  Spec => []TrackInv
<1>1. Groups /\ OnePlace /\ PathsInv /\ TrackInv /\ [Next]_vars => TrackInv'
  BY TrackStep
<1> QED
  BY <1>1, TrackInit, OneAlways, PathsAlways, PTL DEF Spec

(* A request in flight on an open connection has a path, active or pending *)
(* drop, over that connection: handle_errors() gives up a path only when   *)
(* pending_requests says that nothing is in flight over it, and the count  *)
(* is exact as long as every call is made on the loop's thread and size_t  *)
(* can count the calls and the probes.                                     *)
THEOREM InFlightAlwaysTracked ==
    ASSUME IsFiniteSet(Reqs), Cardinality(Reqs \cup Probes) < SizeSpace
    PROVE  Spec => []InFlightTracked
<1>1. CASE Reqs \subseteq OnLoop
  <2>1. FewCalls
    BY <1>1 DEF FewCalls
  <2>2. Groups /\ TrackInv => InFlightTracked
    <3> SUFFICES ASSUME Groups, TrackInv, NEW m \in At("inflight"), conns[m.conn].state = "open"
                 PROVE  \E p \in AllPaths : p.conn = m.conn
      BY DEF InFlightTracked, AllPaths
    <3>1. m \in msgs /\ m \in Msg /\ m.at = "inflight" /\ m.conn \in Conns
      BY DEF At, Groups, MsgsOK, OnConnection
    <3>2. m.req \in On(m.conn)
      BY <3>1 DEF On, Flying, Msg
    <3> QED
      BY <3>1, <3>2 DEF TrackInv, Tracked
  <2>3. Spec => []TrackInv
    BY <2>1, TrackAlways
  <2> QED
    BY <2>2, <2>3, GroupsAlways, PTL
<1>2. CASE ~(Reqs \subseteq OnLoop)
  <2>1. InFlightTracked
    BY <1>2 DEF InFlightTracked
  <2> QED
    BY <2>1, PTL
<1> QED
  BY <1>1, <1>2

=============================================================================
