------------------------------ MODULE Network -------------------------------
(***************************************************************************)
(* The event loop of `Network` (session_network.cpp): first-hop            *)
(* connections, onion paths, the refresh of the snode cache, and the life  *)
(* of a request from send_onion_request(), get_swarm() or                  *)
(* get_random_nodes() to its one callback, with suspend and resume.        *)
(*                                                                         *)
(* Calls scheduled with call_soon or call_later are the set `tasks`, run   *)
(* in any order; each is one action.  What runs on the application's       *)
(* thread is separate steps.  A path is its guard's connection and the set *)
(* of its other nodes.  Time is the flag `late` of a request.  Connections *)
(* and nodes are external: they may fail, MaxFaults times in all.          *)
(***************************************************************************)
EXTENDS Integers, FiniteSets, Sequences

CONSTANTS
    Nodes, Server,           \* service nodes; a destination that is no node
    Ip,                      \* IP address of each node
    Reqs, OnLoop,            \* calls the application makes; on the loop's thread
    Kind,                    \* of each: "onion", "swarm" or "nodes"
    Dest, TypeOf,            \* of an onion request: destination, path type
    InSwarm, Timed,          \* has a swarm_pubkey; has a path build timeout
    Count,                   \* how many nodes get_random_nodes() asks for
    Probes,                  \* requests of refresh_snode_cache()
    SwarmId, Pubkey,         \* swarm of each node, place of the swarm_pubkey
    SwarmSpace,              \* swarm ids are modulo this
    Standard, PathTypes,     \* PathType::standard; all types in use
    SinglePath, PreBuild,    \* single_path_mode, pre_build_paths
    MinCache,                \* min_snode_cache_count
    PathSize, MinPaths,      \* path_size, min_path_count
    PathThreshold, SnodeThreshold,  \* path_ and snode_failure_threshold
    FailureSpace,            \* snode_failure_counts are modulo this
    RefreshFrom,             \* num_snodes_to_refresh_cache_from
    InitialCache,            \* what load_cache_from_disk() found
    Answers,                 \* lists a node or a seed node may report
    Batches,                 \* status codes of the results in an answer
    SizeSpace,               \* size_t is modulo this
    MaxIds, MaxConns,        \* path ids, connections
    None,
    MaxFaults, MaxExpiries, MaxSuspends

ASSUME NodesAssumption ==
    /\ IsFiniteSet(Nodes) /\ None \notin Nodes
    /\ InitialCache \subseteq Nodes /\ Answers \subseteq SUBSET Nodes

ASSUME CallsAssumption ==
    /\ InSwarm \subseteq Reqs /\ Reqs \cap Probes = {}
    /\ Probes \subseteq Nat /\ IsFiniteSet(Probes)
    /\ None \notin Reqs \cup PathTypes /\ Standard \in PathTypes
    /\ \A r \in Reqs : /\ Kind[r] \in {"onion", "swarm", "nodes"}
                       /\ Dest[r] \in Nodes \cup {Server} /\ TypeOf[r] \in PathTypes

ASSUME NumbersAssumption ==
    /\ MaxIds \in Nat /\ MaxConns \in Nat /\ None \notin Int
    /\ SizeSpace \in Nat \ {0} /\ PathSize \in Nat \ {0}
    /\ FailureSpace \in Nat \ {0}
    /\ PathThreshold \in Nat /\ SnodeThreshold \in 0..(FailureSpace - 1)
    /\ MinPaths \in 1..MaxIds

VARIABLES
    suspended,
    snode_cache, unused_nodes, snode_failures, seed_size, swarm_cache,
    conns,                   \* of each connection: its node and its state
    attempts,                \* connections being established
    unused_connections, in_progress_connections,
    path_build_queue, in_progress_path_builds,
    paths, paths_pending_drop, pending_requests,
    refresh_id, refresh_count, refresh_results,
    timeout_loop,            \* request_timeout_id is set
    started, msgs, called,   \* calls made; where they are; callbacks made
    tasks,
    faults, expiries, suspends

nodeVars == <<snode_cache, unused_nodes, snode_failures, seed_size, swarm_cache>>
connVars == <<conns, attempts, unused_connections, in_progress_connections>>
buildVars == <<path_build_queue, in_progress_path_builds>>
pathVars == <<paths, paths_pending_drop, pending_requests>>
refreshVars == <<refresh_id, refresh_count, refresh_results>>
reqVars == <<started, msgs, called>>
bounds == <<faults, expiries, suspends>>
vars == <<suspended, nodeVars, connVars, buildVars, pathVars, refreshVars,
          timeout_loop, reqVars, tasks, bounds>>

Ids == 1..MaxIds
Conns == 1..MaxConns
Retries == {"none", "decryption_failure", "redirect", "redirect_swarm_refresh"}
Tokens == Ids \cup Reqs \cup {None}     \* ids of refreshes
Spots == {"calling", "loaded", "queued", "inflight", "scheduled", "after", "resumed"}

-----------------------------------------------------------------------------
(* Scheduled calls.                                                        *)
Build(id, t) == [op |-> "build", id |-> id, type |-> t]
Establish(id) == [op |-> "establish", id |-> id]
Refresh(id, by) == [op |-> "refresh", id |-> id, by |-> by]
Seed(id) == [op |-> "seed", id |-> id]
Needed(m, t, found) ==
    [op |-> "needed", req |-> m.req, retry |-> m.retry, type |-> t, found |-> found]
Check(loop) == [op |-> "check", loop |-> loop]
Task ==
    [op : {"build"}, id : Ids, type : PathTypes] \cup [op : {"establish"}, id : Ids]
    \cup [op : {"refresh"}, id : Tokens, by : Probes \cup {None}]
    \cup [op : {"seed"}, id : Tokens]
    \cup [op : {"needed"}, req : Reqs \cup Probes, retry : Retries, type : PathTypes,
          found : BOOLEAN]
    \cup [op : {"check"}, loop : BOOLEAN]

(* Random ids: the least that is not in use.                               *)
Unused(S) == {i \in Ids \ S :
    /\ in_progress_connections[i] = None
    /\ in_progress_path_builds[i] = None
    /\ refresh_id # i
    /\ \A t \in tasks : t.op \in {"build", "establish", "refresh", "seed"} => t.id # i
    /\ \A a \in attempts : a.id # i
    /\ \A m \in msgs : m.rid # i}
Least(S) == CHOOSE i \in S : \A j \in S : i <= j
FirstOf(S, n) == {i \in S : Cardinality({j \in S : j <= i}) <= n}

(* A connection nothing refers to any more.                                *)
FreeConns ==
    {c \in Conns :
        /\ c \notin unused_connections
        /\ \A a \in attempts : a.conn # c
        /\ \A p \in paths \cup paths_pending_drop : p.conn # c
        /\ \A m \in msgs : m.conn # c}

NodesOf(p) == {conns[p.conn].node} \cup p.others
IpsOf(S) == {Ip[n] : n \in S}
IsValid(p) == conns[p.conn].state = "open"
At(spot) == {m \in msgs : m.at = spot}
PathTypeOf(m) == IF m.req \in Probes THEN Standard ELSE TypeOf[m.req]
IsTimed(m) == m.req \in Reqs /\ m.req \in Timed
PathsOf(t) == {p \in paths : p.type = t}
MinPathCount == IF SinglePath THEN 1 ELSE MinPaths

Message(r, dest, rid) ==
    [req |-> r, dest |-> dest, retry |-> "none", rid |-> rid, at |-> "calling",
     conn |-> None, late |-> FALSE, load |-> 0]
FreeProbes ==
    {p \in Probes :
        /\ \A m \in msgs : m.req # p
        /\ \A t \in tasks : (t.op = "refresh" => t.by # p) /\ (t.op = "needed" => t.req # p)}
NoResults == [n |-> 0, nodes |-> Nodes, empty |-> FALSE]

(* The callbacks of the messages S are called, with a failure: an          *)
(* application's is counted, a probe's schedules another try, unless the   *)
(* refresh is over.                                                        *)
CallBack(S) == called' = [r \in Reqs |-> IF \E m \in S : m.req = r
                                         THEN called[r] + 1 ELSE called[r]]
Retry(S) == IF refresh_id = None THEN {}
            ELSE {Refresh(m.rid, m.req) : m \in {n \in S : n.req \in Probes}}

MinSnodeCacheSize ==
    IF seed_size = None THEN MinCache
    ELSE LET spare == (seed_size - PathSize) % SizeSpace
             wanted == IF spare > PathSize THEN spare ELSE PathSize
         IN  IF wanted < MinCache THEN wanted ELSE MinCache

MutGetUnusedNodes == snode_cache \ {n \in Nodes : snode_failures[n] >= SnodeThreshold}
GetUnusedNodes ==
    IF Cardinality(snode_cache) < MinSnodeCacheSize THEN {}
    ELSE {n \in snode_cache :
            /\ \A p \in paths : Ip[n] \notin IpsOf(NodesOf(p))
            /\ \A c \in unused_connections : Ip[n] # Ip[conns[c].node]
            /\ \A i \in Ids : in_progress_connections[i] # None
                               => Ip[n] # Ip[in_progress_connections[i]]
            /\ \A m \in At("queued") : m.dest # Server => Ip[n] # Ip[m.dest]
            /\ \A f \in Nodes : snode_failures[f] >= SnodeThreshold => Ip[n] # Ip[f]}

(* unused_nodes, filled up again when there are fewer than k.              *)
UnusedFor(k) == IF Cardinality(unused_nodes) < k THEN GetUnusedNodes ELSE unused_nodes

-----------------------------------------------------------------------------
(* A probe is sent again whenever it fails, so its failures are bounded.   *)
Costs(m) == IF m.req \in Probes THEN faults < MaxFaults /\ faults' = faults + 1
            ELSE UNCHANGED faults

(* find_valid_path(): the paths of the set S that it may choose.           *)
FindValidPath(m, S) ==
    LET usable == {p \in S : IsValid(p)}
        avoiding == {p \in usable : m.dest \notin NodesOf(p)}
        possible == IF m.dest = Server \/ (SinglePath /\ avoiding = {})
                    THEN usable ELSE avoiding
        busy(p) == pending_requests[p.conn]
    IN  IF PathTypeOf(m) = Standard THEN possible
        ELSE {p \in possible :
                /\ \A q \in possible : busy(p) <= busy(q)
                /\ Cardinality(S) >= MinPathCount \/ busy(p) = 0}

(* _send_onion_request() on the loop, of m; `others` are the other          *)
(* messages, `rest` the tasks.  The path may be none, the builder may      *)
(* throw, the path build may have taken too long.                          *)
SendOnLoop(m, others, rest) ==
    LET t == PathTypeOf(m)
        found == FindValidPath(m, PathsOf(t))
        next == rest \cup {Needed(m, t, found # {})}
    IN  \/ /\ found = {} /\ ~suspended
           /\ msgs' = others \cup {[m EXCEPT !.at = "queued"]}
           /\ tasks' = next \cup (IF IsTimed(m) THEN {Check(FALSE)} ELSE {})
           /\ UNCHANGED <<called, pending_requests, faults>>
        \/ /\ \/ found = {} /\ suspended /\ UNCHANGED faults
              \/ found # {} /\ IsTimed(m) /\ m.late /\ UNCHANGED faults
              \/ found # {} /\ Costs(m)
           /\ CallBack({m})
           /\ msgs' = others
           /\ tasks' = next \cup Retry({m})
           /\ UNCHANGED pending_requests
        \/ \E p \in found :
             /\ ~(IsTimed(m) /\ m.late)
             /\ msgs' = others \cup {[m EXCEPT !.at = "inflight", !.conn = p.conn]}
             /\ pending_requests' = [pending_requests EXCEPT ![p.conn] = (@ + 1) % SizeSpace]
             /\ tasks' = next
             /\ UNCHANGED <<called, faults>>

-----------------------------------------------------------------------------
(* build_path(id, t), with the other tasks `rest`.                         *)
MutNoErase(id, t, task, rest) ==
    /\ path_build_queue' = [path_build_queue EXCEPT ![t] = @ + 1]
    /\ tasks' = rest \cup {task}
    /\ UNCHANGED <<in_progress_path_builds, connVars, pathVars, msgs>>
MutNotScheduled(id, t, task, rest) ==
    /\ path_build_queue' = [path_build_queue EXCEPT ![t] = @ + 1]
    /\ in_progress_path_builds' = [in_progress_path_builds EXCEPT ![id] = None]
    /\ tasks' = rest
    /\ UNCHANGED <<connVars, pathVars, msgs>>
EnqueueBuild(id, t, task, rest) ==
    /\ path_build_queue' = [path_build_queue EXCEPT ![t] = @ + 1]
    /\ in_progress_path_builds' = [in_progress_path_builds EXCEPT ![id] = None]
    /\ tasks' = rest \cup {task}
    /\ UNCHANGED <<connVars, pathVars, msgs>>

StorePath(id, t, c, others, rest) ==
    LET path == [conn |-> c, type |-> t, others |-> others, failures |-> 0]
        queued == {m \in At("queued") : PathTypeOf(m) = t}
        ready == {m \in queued : FindValidPath(m, {path}) # {}}
        more == Least(Unused({id}))
        done == [in_progress_path_builds EXCEPT ![id] = None]
    IN  /\ paths' = paths \cup {path}
        /\ unused_connections' = unused_connections \ {c}
        /\ msgs' = (msgs \ ready) \cup {[m EXCEPT !.at = "scheduled"] : m \in ready}
        /\ IF queued = ready
           THEN /\ in_progress_path_builds' = done
                /\ tasks' = rest
           ELSE /\ Unused({id}) # {}
                /\ in_progress_path_builds' = [done EXCEPT ![more] = t]
                /\ tasks' = rest \cup {Build(more, t)}
        /\ UNCHANGED <<conns, attempts, in_progress_connections, path_build_queue,
                       paths_pending_drop, pending_requests>>

BuildPath(id, t, rest) ==
    LET nodes == UnusedFor(PathSize) IN
    /\ \/ /\ suspended
          /\ tasks' = rest
          /\ UNCHANGED <<unused_nodes, connVars, buildVars, pathVars, msgs>>
       \/ /\ ~suspended /\ unused_connections = {}
          /\ EnqueueBuild(id, t, Establish(id), rest)
          /\ UNCHANGED unused_nodes
       \/ /\ ~suspended /\ unused_connections # {}
          /\ Cardinality(nodes) < PathSize
          /\ unused_nodes' = nodes
          /\ Unused({id}) # {}
          /\ EnqueueBuild(id, t, Refresh(Least(Unused({id})), None), rest)
       \/ /\ ~suspended /\ Cardinality(nodes) >= PathSize
          /\ \E c \in unused_connections :
               LET able == {n \in nodes : Ip[n] # Ip[conns[c].node]} IN
               \/ /\ Cardinality(IpsOf(able)) < PathSize - 1
                  /\ unused_nodes' = {}
                  /\ in_progress_path_builds' = [in_progress_path_builds EXCEPT ![id] = t]
                  /\ tasks' = rest \cup {Build(id, t)}
                  /\ UNCHANGED <<connVars, path_build_queue, pathVars, msgs>>
               \/ \E others \in SUBSET able :
                    /\ Cardinality(others) = PathSize - 1
                    /\ Cardinality(IpsOf(others)) = PathSize - 1
                    /\ unused_nodes' = {n \in able : Ip[n] \notin IpsOf(others)}
                    /\ StorePath(id, t, c, others, rest)
    /\ UNCHANGED <<suspended, snode_cache, snode_failures, seed_size, swarm_cache,
                   refreshVars, timeout_loop, started, called, bounds>>

BuildTask(id, t) ==
    /\ Build(id, t) \in tasks
    /\ BuildPath(id, t, tasks \ {Build(id, t)})

(* build_path_if_needed().                                                 *)
NeededTask(task) ==
    LET t == task.type
        current == Cardinality(PathsOf(t))
        pending == path_build_queue[t]
                   + Cardinality({i \in Ids : in_progress_path_builds[i] = t})
        wanted == /\ ~(SinglePath /\ current > 0)
                  /\ ~(task.found /\ current >= MinPathCount)
                  /\ \/ current + pending < MinPathCount
                     \/ ~task.found /\ pending = 0
    IN  /\ task \in tasks /\ task.op = "needed"
        /\ \/ /\ wanted
              /\ Unused({}) # {}
              /\ BuildPath(Least(Unused({})), t, tasks \ {task})
           \/ /\ ~wanted
              /\ tasks' = tasks \ {task}
              /\ UNCHANGED <<suspended, nodeVars, connVars, buildVars, pathVars,
                             refreshVars, timeout_loop, reqVars, bounds>>

-----------------------------------------------------------------------------
(* establish_connection(): an attempt for the path or the refresh `id`.    *)
Connect(id, node, seed) ==
    \E c \in {Least(FreeConns)} :
        /\ conns' = [conns EXCEPT ![c] = [node |-> node, state |-> "connecting"]]
        /\ attempts' = attempts \cup {[conn |-> c, id |-> id, seed |-> seed]}
        /\ pending_requests' = [pending_requests EXCEPT ![c] = 0]

(* emplace(): an earlier attempt of the same path stays recorded instead.  *)
MutInProgress(id, n) == in_progress_connections
InProgress(id, n) ==
    [in_progress_connections EXCEPT ![id] = IF @ = None THEN n ELSE @]

(* establish_and_store_connection().  The cache may have passed its        *)
(* lifetime, which schedules a refresh beside the connection.              *)
EstablishTask(id) ==
    LET nodes == UnusedFor(1)
        rest == tasks \ {Establish(id)}
    IN
    /\ Establish(id) \in tasks
    /\ \/ /\ suspended
          /\ tasks' = rest
          /\ UNCHANGED <<unused_nodes, connVars, pending_requests, expiries>>
       \/ /\ ~suspended /\ Cardinality(nodes) < MinSnodeCacheSize
          /\ unused_nodes' = nodes
          /\ tasks' = rest \cup {Refresh(id, None)}
          /\ UNCHANGED <<connVars, pending_requests, expiries>>
       \/ /\ ~suspended /\ Cardinality(nodes) >= MinSnodeCacheSize
          /\ FreeConns # {}
          /\ \E n \in nodes :
               /\ unused_nodes' = nodes \ {n}
               /\ in_progress_connections' = InProgress(id, n)
               /\ Connect(id, n, FALSE)
          /\ \/ tasks' = rest /\ UNCHANGED expiries
             \/ /\ expiries < MaxExpiries /\ Unused({id}) # {}
                /\ expiries' = expiries + 1
                /\ tasks' = rest \cup {Refresh(Least(Unused({id})), None)}
          /\ UNCHANGED unused_connections
    /\ UNCHANGED <<suspended, snode_cache, snode_failures, seed_size, swarm_cache, buildVars,
                   paths, paths_pending_drop, refreshVars, timeout_loop, reqVars,
                   faults, suspends>>

(* The callback of establish_and_store_connection, with a connection.  Its *)
(* last branch needs in_progress_connections to be empty, which it is not  *)
(* (AttemptsKnown).                                                        *)
Connected(a) ==
    /\ a \in attempts /\ ~a.seed /\ conns[a.conn].state = "connecting"
    /\ conns' = [conns EXCEPT ![a.conn].state = "open"]
    /\ attempts' = attempts \ {a}
    /\ unused_connections' = unused_connections \cup {a.conn}
    /\ \/ /\ \A t \in PathTypes : path_build_queue[t] = 0
          /\ UNCHANGED <<buildVars, tasks>>
       \/ \E t \in PathTypes :
            /\ path_build_queue[t] > 0
            /\ path_build_queue' = [path_build_queue EXCEPT ![t] = @ - 1]
            /\ in_progress_path_builds' = [in_progress_path_builds EXCEPT ![a.id] = t]
            /\ tasks' = tasks \cup {Build(a.id, t)}
    /\ UNCHANGED <<suspended, nodeVars, in_progress_connections, pathVars, refreshVars,
                   timeout_loop, reqVars, bounds>>

(* An event the environment may choose only MaxFaults times, unless the    *)
(* connection has been closed already.                                     *)
Fault(c) == IF conns[c].state = "closed" THEN UNCHANGED faults
            ELSE faults < MaxFaults /\ faults' = faults + 1

(* clear_empty_pending_path_drops(), of the set S.                         *)
MutStillBusy(S, pending) == {}
StillBusy(S, pending) == {p \in S : pending[p.conn] > 0}

(* The attempt fails: the callback schedules another try; then the rest of *)
(* the close handler.  A handshake timeout marks the node.                 *)
AttemptFails(a, timeout) ==
    /\ a \in attempts
    /\ Fault(a.conn)
    /\ timeout => ~a.seed /\ conns[a.conn].state = "connecting"
    /\ conns' = [conns EXCEPT ![a.conn].state = "closed"]
    /\ attempts' = attempts \ {a}
    /\ tasks' = tasks \cup {IF a.seed THEN Seed(a.id) ELSE Establish(a.id)}
    /\ paths_pending_drop' = StillBusy(paths_pending_drop, pending_requests)
    /\ snode_failures' = IF timeout
                         THEN [snode_failures EXCEPT ![conns[a.conn].node] = SnodeThreshold]
                         ELSE snode_failures
    /\ UNCHANGED <<suspended, snode_cache, unused_nodes, seed_size, swarm_cache,
                   unused_connections, in_progress_connections, buildVars, paths,
                   pending_requests, refreshVars, timeout_loop, reqVars, expiries, suspends>>

(* An established connection is closed: the close handler drops the paths  *)
(* over it (drop_path_when_empty).                                         *)
ConnectionCloses(c) ==
    LET over == {p \in paths : p.conn = c} IN
    /\ conns[c].state = "open" /\ c \notin FreeConns
    /\ Fault(c)
    /\ conns' = [conns EXCEPT ![c].state = "closed"]
    /\ unused_connections' = unused_connections \ {c}
    /\ paths' = paths \ over
    /\ paths_pending_drop' = StillBusy(paths_pending_drop \cup over, pending_requests)
    /\ UNCHANGED <<suspended, nodeVars, attempts, in_progress_connections, buildVars,
                   pending_requests, refreshVars, timeout_loop, reqVars, tasks, expiries, suspends>>

-----------------------------------------------------------------------------
(* refresh_snode_cache_complete() with the list A; `others` are the other  *)
(* messages.  unused_nodes stays as it is.                                 *)
Complete(A, others) ==
    LET waiting == {m \in others : m.at = "after"}
        queued == {b \in PathTypes \X (1..MaxIds) : b[2] <= path_build_queue[b[1]]}
        ids == FirstOf(Unused({}), Cardinality(queued))
    IN  /\ Cardinality(ids) = Cardinality(queued)
        /\ snode_cache' = A
        /\ snode_failures' = [n \in Nodes |-> 0]
        /\ swarm_cache' = {}
        /\ refresh_id' = None /\ refresh_count' = 0 /\ refresh_results' = NoResults
        /\ msgs' = (others \ waiting) \cup {[m EXCEPT !.at = "resumed"] : m \in waiting}
        /\ path_build_queue' = [t \in PathTypes |-> 0]
        /\ \E f \in [ids -> PathTypes] :
             /\ \A t \in PathTypes : Cardinality({i \in ids : f[i] = t}) = path_build_queue[t]
             /\ in_progress_path_builds' =
                   [i \in Ids |-> IF i \in ids THEN f[i] ELSE in_progress_path_builds[i]]
             /\ tasks' = tasks \cup {Build(i, f[i]) : i \in ids}

(* refresh_snode_cache(); from_seed_nodes() is called at once when there   *)
(* are too few nodes to ask.                                               *)
RefreshTask(task) ==
    LET id == task.id
        nodes == UnusedFor(MinSnodeCacheSize)
        count == IF refresh_id = None THEN 0 ELSE refresh_count
        rest == tasks \ {task}
    IN
    /\ task \in tasks /\ task.op = "refresh"
    /\ \/ /\ suspended \/ refresh_id \notin {None, id}
          /\ tasks' = rest
          /\ UNCHANGED <<unused_nodes, conns, attempts, pending_requests, refreshVars,
                         msgs, called, faults>>
       \/ /\ ~suspended /\ refresh_id \in {None, id}
          /\ refresh_id' = id
          /\ refresh_results' = IF refresh_id = None THEN NoResults ELSE refresh_results
          /\ \/ /\ Cardinality(nodes) < MinSnodeCacheSize
                /\ unused_nodes' = nodes
                /\ refresh_count' = count
                /\ FreeConns # {}
                /\ Connect(id, None, TRUE)
                /\ tasks' = rest
                /\ UNCHANGED <<msgs, called, faults>>
             \/ /\ Cardinality(nodes) >= MinSnodeCacheSize
                /\ refresh_count' = count + 1
                /\ FreeProbes # {}
                /\ \E n \in nodes :
                     LET probe == Message(Least(FreeProbes), n, id)
                     IN  /\ unused_nodes' = nodes \ {n}
                         /\ SendOnLoop(probe, msgs,
                                rest \cup (IF count + 1 < RefreshFrom
                                           THEN {Refresh(id, probe.req)} ELSE {}))
                /\ UNCHANGED <<conns, attempts>>
    /\ UNCHANGED <<suspended, snode_cache, snode_failures, seed_size, swarm_cache,
                   unused_connections, in_progress_connections, buildVars, paths,
                   paths_pending_drop, timeout_loop, started, expiries, suspends>>

(* refresh_snode_cache_from_seed_nodes(), again after a delay.             *)
SeedTask(id) ==
    /\ Seed(id) \in tasks
    /\ tasks' = tasks \ {Seed(id)}
    /\ \/ /\ suspended \/ refresh_id \notin {None, id}
          /\ UNCHANGED <<conns, attempts, pending_requests>>
       \/ /\ ~suspended /\ refresh_id \in {None, id}
          /\ FreeConns # {}
          /\ Connect(id, None, TRUE)
    /\ UNCHANGED <<suspended, nodeVars, unused_connections, in_progress_connections, buildVars,
                   paths, paths_pending_drop, refreshVars, timeout_loop, reqVars, bounds>>

(* A seed node answers with the list A, whatever refresh is in progress;   *)
(* get_service_nodes() clears the pending drops, unless A is empty because *)
(* of an error.                                                            *)
SeedAnswers(a, A) ==
    /\ a \in attempts /\ a.seed /\ conns[a.conn].state = "connecting"
    /\ conns' = [conns EXCEPT ![a.conn].state = "closed"]
    /\ attempts' = attempts \ {a}
    /\ \/ paths_pending_drop' = StillBusy(paths_pending_drop, pending_requests)
       \/ A = {} /\ UNCHANGED paths_pending_drop
    /\ \/ /\ A = {}
          /\ faults < MaxFaults /\ faults' = faults + 1
          /\ tasks' = tasks \cup {Seed(a.id)}
          /\ UNCHANGED <<snode_cache, snode_failures, seed_size, swarm_cache, buildVars,
                         refreshVars, msgs>>
       \/ /\ A # {}
          /\ seed_size' = Cardinality(A)
          /\ Complete(A, msgs)
          /\ UNCHANGED faults
    /\ UNCHANGED <<suspended, unused_nodes, unused_connections, in_progress_connections,
                   paths, pending_requests, timeout_loop, started, called, expiries, suspends>>


-----------------------------------------------------------------------------
(* Lookups.  All swarms are those of the nodes in snode_cache.             *)
Swarms == {SwarmId[n] : n \in snode_cache}
Greatest(S) == CHOOSE i \in S : \A j \in S : i >= j
NearestSwarm ==
    LET above == {s \in Swarms : s >= Pubkey}
        right == Least(IF above = {} THEN Swarms ELSE above)
        below == {s \in Swarms : s < right}
        left == Greatest(IF below = {} THEN Swarms ELSE below)
    IN  IF (right - Pubkey) % SwarmSpace < (Pubkey - left) % SwarmSpace THEN right ELSE left

(* The nodes wanted are not there: m waits for a refresh of the cache.     *)
WaitForRefresh(m, others) ==
    /\ Unused({}) # {}
    /\ msgs' = others \cup {[m EXCEPT !.at = "after", !.conn = None]}
    /\ tasks' = tasks \cup {Refresh(Least(Unused({})), None)}
    /\ UNCHANGED called

(* The callback of get_swarm() is called with the swarm S: the             *)
(* application's, or that of the second 421 in handle_errors().            *)
GotSwarm(m, S, others) ==
    /\ UNCHANGED tasks
    /\ \/ /\ Kind[m.req] = "swarm" \/ S \ {m.dest} = {}
          /\ CallBack({m})
          /\ msgs' = others
       \/ /\ Kind[m.req] = "onion"
          /\ \E n \in S \ {m.dest} :
               msgs' = others \cup {[m EXCEPT !.at = "scheduled", !.dest = n,
                                              !.retry = "redirect_swarm_refresh"]}
          /\ UNCHANGED called

GetSwarm(m, others) ==
    /\ \/ /\ swarm_cache # {}
          /\ GotSwarm(m, swarm_cache, others)
          /\ UNCHANGED swarm_cache
       \/ /\ swarm_cache = {} /\ snode_cache = {}
          /\ WaitForRefresh(m, others)
          /\ UNCHANGED swarm_cache
       \/ /\ swarm_cache = {} /\ Cardinality(Swarms) = 1
          /\ GotSwarm(m, snode_cache, others)
          /\ UNCHANGED swarm_cache
       \/ /\ swarm_cache = {} /\ Cardinality(Swarms) > 1
          /\ swarm_cache' = {n \in snode_cache : SwarmId[n] = NearestSwarm}
          /\ GotSwarm(m, swarm_cache', others)
    /\ UNCHANGED unused_nodes

GetRandomNodes(m, others) ==
    LET nodes == UnusedFor(Count) IN
    /\ \/ /\ Cardinality(nodes) < Count
          /\ unused_nodes' = nodes
          /\ WaitForRefresh(m, others)
       \/ \E S \in SUBSET nodes :
            /\ Cardinality(S) = Count
            /\ unused_nodes' = nodes \ S
            /\ CallBack({m})
            /\ msgs' = others
            /\ UNCHANGED tasks
    /\ UNCHANGED swarm_cache

Lookup(m, others) ==
    /\ IF Kind[m.req] = "nodes" THEN GetRandomNodes(m, others) ELSE GetSwarm(m, others)
    /\ UNCHANGED <<suspended, snode_cache, snode_failures, seed_size, connVars, buildVars,
                   pathVars, refreshVars, timeout_loop, bounds>>

(* A lookup of the application, and one that waited for the refresh.       *)
CallLookup(r) ==
    /\ r \in Reqs \ started /\ Kind[r] # "onion"
    /\ started' = started \cup {r}
    /\ Lookup(Message(r, None, None), msgs)

RunResumed(m) ==
    /\ m \in At("resumed")
    /\ Lookup(m, msgs \ {m})
    /\ UNCHANGED started

-----------------------------------------------------------------------------
(* send_onion_request().  On the loop's thread it is one step; on another, *)
(* the path is found on the loop, then used.                               *)
sendUnchanged == <<suspended, nodeVars, connVars, buildVars, paths, paths_pending_drop,
                   refreshVars, timeout_loop, expiries, suspends>>

CallOnLoop(r) ==
    /\ r \in OnLoop \ started /\ Kind[r] = "onion"
    /\ started' = started \cup {r}
    /\ SendOnLoop(Message(r, Dest[r], None), msgs, tasks)
    /\ UNCHANGED sendUnchanged

RunScheduled(m) ==
    /\ m \in At("scheduled")
    /\ SendOnLoop(m, msgs \ {m}, tasks)
    /\ UNCHANGED <<started, sendUnchanged>>

Call(r) ==
    LET m == Message(r, Dest[r], None)
        found == FindValidPath(m, PathsOf(TypeOf[r]))
    IN  /\ r \in Reqs \ (started \cup OnLoop) /\ Kind[r] = "onion"
        /\ started' = started \cup {r}
        /\ tasks' = tasks \cup {Needed(m, TypeOf[r], found # {})}
        /\ \/ /\ found = {}
              /\ msgs' = msgs \cup {m}
           \/ \E p \in found : msgs' = msgs \cup {[m EXCEPT !.conn = p.conn]}
        /\ UNCHANGED <<called, pending_requests, faults, sendUnchanged>>

(* The rest of _send_onion_request() on the application's thread.  The     *)
(* builder may throw, the connection may have been closed.                 *)
Proceed(m) ==
    /\ m \in At("calling")
    /\ \/ /\ m.conn = None /\ ~suspended
          /\ msgs' = (msgs \ {m}) \cup {[m EXCEPT !.at = "queued"]}
          /\ tasks' = tasks \cup (IF IsTimed(m) THEN {Check(FALSE)} ELSE {})
          /\ UNCHANGED called
       \/ /\ m.conn = None => suspended
          /\ CallBack({m})
          /\ msgs' = msgs \ {m}
          /\ UNCHANGED tasks
       \/ /\ m.conn # None /\ conns[m.conn].state = "open" /\ ~(IsTimed(m) /\ m.late)
          /\ msgs' = (msgs \ {m}) \cup
                     {[m EXCEPT !.at = "loaded", !.load = pending_requests[m.conn]]}
          /\ UNCHANGED <<called, tasks>>
    /\ UNCHANGED <<started, pending_requests, faults, sendUnchanged>>

(* add_pending_request() there is a load and a store, unsynchronised.      *)
Store(m) ==
    /\ m \in At("loaded")
    /\ pending_requests' = [pending_requests EXCEPT ![m.conn] = (m.load + 1) % SizeSpace]
    /\ msgs' = (msgs \ {m}) \cup {[m EXCEPT !.at = "inflight", !.load = 0]}
    /\ UNCHANGED <<started, called, tasks, faults, sendUnchanged>>

(* The path build timeout of a request passes.                             *)
Expire(m) ==
    /\ m \in msgs /\ IsTimed(m) /\ ~m.late
    /\ msgs' = (msgs \ {m}) \cup {[m EXCEPT !.late = TRUE]}
    /\ UNCHANGED <<started, called, tasks, pending_requests, faults, sendUnchanged>>

MutNextCheck(remaining) == {}
NextCheck(remaining) == IF remaining THEN {Check(TRUE)} ELSE {}

(* check_request_queue_timeouts(), `loop` when it is the loop's own turn.  *)
CheckTask(loop) ==
    LET timed == {m \in At("queued") : IsTimed(m)}
        over == {m \in timed : m.late}
    IN  /\ Check(loop) \in tasks
        /\ \/ /\ suspended \/ (timeout_loop /\ ~loop)
              /\ tasks' = tasks \ {Check(loop)}
              /\ UNCHANGED <<timeout_loop, msgs, called>>
           \/ /\ ~suspended /\ ~(timeout_loop /\ ~loop)
              /\ CallBack(over)
              /\ msgs' = msgs \ over
              /\ timeout_loop' = (timed # over)
              /\ tasks' = (tasks \ {Check(loop)})
                          \cup NextCheck(timed # over)
        /\ UNCHANGED <<suspended, nodeVars, connVars, buildVars, pathVars, refreshVars,
                       started, bounds>>


-----------------------------------------------------------------------------
(* The status of an answer: that of its one result, or, of a batch, what   *)
(* the loop over `results` makes of the codes.                             *)
BatchStatus(codes) ==
    IF codes = <<>> THEN -1
    ELSE IF \E i \in 1..Len(codes) :
              codes[i] = None \/ (i > 1 /\ codes[i] = codes[i - 1])
         THEN 200
         ELSE codes[Len(codes)]

Succeeded(status) == status \in 200..299

(* remove_pending_request() when the answer to m arrives.  `inner` is      *)
(* false when the transport reports the failure: send_request() then       *)
(* returns before it clears the pending drops.                             *)
MutAnswered(m) == [pending_requests EXCEPT ![m.conn] = @ - 2]
Answered(m) == [pending_requests EXCEPT ![m.conn] = (@ - 1) % SizeSpace]
Cleared(m, drops, inner) ==
    IF inner /\ Answered(m)[m.conn] = 0 THEN StillBusy(drops, Answered(m)) ELSE drops

(* m ends with the callback; m is sent again as n.                         *)
MutEnds(m) ==
    /\ CallBack({m})
    /\ tasks' = tasks \cup Retry({m})
    /\ UNCHANGED msgs
MutAgain(m, n) ==
    /\ msgs' = msgs \ {m}
    /\ UNCHANGED <<called, tasks>>
Ends(m) ==
    /\ CallBack({m})
    /\ msgs' = msgs \ {m}
    /\ tasks' = tasks \cup Retry({m})
Again(m, n) ==
    /\ msgs' = (msgs \ {m}) \cup {[n EXCEPT !.at = "scheduled", !.conn = None]}
    /\ UNCHANGED <<called, tasks>>

NoPathChange(m, inner) ==
    /\ paths_pending_drop' = Cleared(m, paths_pending_drop, inner)
    /\ UNCHANGED <<paths, unused_nodes, snode_failures>>

(* The path p with the node `bad`, reported as not found, replaced by the  *)
(* node `new`; it is at its threshold when there is none.                  *)
Bumped(p, bad) == bad \notin NodesOf(p) \/ ~IsValid(p)
FailuresOf(p, bad, new) ==
    (IF bad \in NodesOf(p) /\ new = None THEN PathThreshold ELSE p.failures)
    + (IF Bumped(p, bad) THEN 1 ELSE 0)
Repaired(p, bad, new) ==
    [p EXCEPT !.others = IF new = None THEN @ ELSE (@ \ {bad}) \cup {new},
              !.failures = FailuresOf(p, bad, new)]

(* A node that is not found, and the guard of a path that is given up, are *)
(* at their threshold; the other nodes of that path get a failure, each    *)
(* time a request over it fails: a count can pass the threshold and wrap.  *)
NodeFailures(p, bad, new) ==
    LET known == [n \in Nodes |-> IF n = bad /\ bad \in NodesOf(p) THEN SnodeThreshold
                                  ELSE snode_failures[n]]
    IN  IF Bumped(p, bad) /\ FailuresOf(p, bad, new) >= PathThreshold
        THEN [n \in Nodes |-> IF n = conns[p.conn].node THEN SnodeThreshold
                              ELSE IF n \in NodesOf(Repaired(p, bad, new))
                              THEN (known[n] + 1) % FailureSpace ELSE known[n]]
        ELSE known

BlamePath(m, p, bad, new, inner) ==
    /\ unused_nodes' = unused_nodes \ {new}
    /\ snode_failures' = NodeFailures(p, bad, new)
    /\ \/ /\ p \notin paths
          /\ UNCHANGED paths
          /\ paths_pending_drop' = Cleared(m, paths_pending_drop, inner)
       \/ /\ p \in paths /\ FailuresOf(p, bad, new) >= PathThreshold
          /\ paths' = paths \ {p}
          /\ paths_pending_drop' = StillBusy(paths_pending_drop \cup {p}, Answered(m))
       \/ /\ p \in paths /\ FailuresOf(p, bad, new) < PathThreshold
          /\ paths' = (paths \ {p}) \cup {Repaired(p, bad, new)}
          /\ paths_pending_drop' = Cleared(m, paths_pending_drop, inner)

(* The part of handle_errors() that blames the path: the one with m's      *)
(* guard node, active or pending drop.                                     *)
Blame(m, bad, inner) ==
    LET sameGuard(p) == conns[p.conn].node = conns[m.conn].node
        active == {p \in PathsOf(PathTypeOf(m)) : sameGuard(p)}
        dropping == {p \in paths_pending_drop : sameGuard(p)}
    IN
    \/ /\ active = {} /\ dropping = {}
       /\ NoPathChange(m, inner)
    \/ \E p \in IF active # {} THEN active ELSE dropping :
       \E new \in IF bad \in p.others /\ unused_nodes # {} THEN unused_nodes ELSE {None} :
          BlamePath(m, p, bad, new, inner)

(* handle_errors().                                                        *)
Unblamed(m, status, timeout) ==
    \/ status \in {400, 404, 406, 425}
    \/ m.dest = Server /\ (timeout \/ status \in {500, 504})
Redirects(m, status) == status = 421 /\ m.req \in InSwarm /\ m.dest # Server
Elsewhere(m) == IF m.retry \in {"none", "decryption_failure"} THEN swarm_cache \ {m.dest} ELSE {}

HandleErrors(m, status, timeout, bad, inner) ==
    \/ /\ Unblamed(m, status, timeout)
       /\ NoPathChange(m, inner)
       /\ Ends(m)
    \/ /\ Redirects(m, status)
       /\ \E n \in Elsewhere(m) : Again(m, [m EXCEPT !.dest = n, !.retry = "redirect"])
       /\ NoPathChange(m, inner)
    \/ /\ Redirects(m, status) /\ m.retry = "redirect"
       /\ msgs' = (msgs \ {m}) \cup {[m EXCEPT !.at = "after", !.conn = None]}
       /\ tasks' = tasks \cup {Refresh(m.req, None)}
       /\ NoPathChange(m, inner)
       /\ UNCHANGED called
    \/ /\ ~Unblamed(m, status, timeout)
       /\ Redirects(m, status) => m.retry # "redirect" /\ Elsewhere(m) = {}
       /\ Blame(m, bad, inner)
       /\ Ends(m)


-----------------------------------------------------------------------------
(* The answer to m arrives, or the transport gives up on it.               *)
answerUnchanged == <<suspended, snode_cache, seed_size, swarm_cache, connVars, buildVars,
                     refreshVars, timeout_loop, started, expiries, suspends>>

(* The destination answers, with the codes of its results.                 *)
Replies(m, codes) ==
    LET status == BatchStatus(codes) IN
    /\ m \in At("inflight")
    /\ pending_requests' = Answered(m)
    /\ \/ /\ Succeeded(status) /\ m.req \in Reqs
          /\ NoPathChange(m, TRUE)
          /\ Ends(m)
          /\ UNCHANGED faults
       \/ /\ ~Succeeded(status)
          /\ HandleErrors(m, status, FALSE, None, TRUE)
          /\ Costs(m)
    /\ UNCHANGED answerUnchanged

(* A node of the path answers with an error, the connection fails or the   *)
(* request times out.                                                      *)
Fails(m, status, timeout, bad) ==
    /\ m \in At("inflight")
    /\ pending_requests' = Answered(m)
    /\ HandleErrors(m, status, timeout, bad, FALSE)
    /\ Costs(m)
    /\ UNCHANGED answerUnchanged

(* The answer cannot be decrypted: the request is sent once more.          *)
Undecipherable(m) ==
    /\ m \in At("inflight")
    /\ pending_requests' = Answered(m)
    /\ Costs(m)
    /\ \/ /\ m.retry = "none"
          /\ Again(m, [m EXCEPT !.retry = "decryption_failure"])
          /\ NoPathChange(m, TRUE)
       \/ /\ m.retry # "none"
          /\ HandleErrors(m, -1, FALSE, None, TRUE)
    /\ UNCHANGED answerUnchanged

(* A node answers a probe with the list A, of whatever refresh.            *)
ProbeAnswers(m, A) ==
    LET got == [n |-> refresh_results.n + 1, nodes |-> refresh_results.nodes \cap A,
                empty |-> refresh_results.empty \/ A = {}]
        others == msgs \ {m}
    IN
    /\ m \in At("inflight") /\ m.req \in Probes
    /\ pending_requests' = Answered(m)
    /\ paths_pending_drop' = Cleared(m, paths_pending_drop, TRUE)
    /\ \/ /\ refresh_id = None
          /\ msgs' = others
          /\ UNCHANGED <<refreshVars, snode_cache, snode_failures, swarm_cache, buildVars, tasks>>
       \/ /\ refresh_id # None /\ got.n < RefreshFrom
          /\ refresh_results' = got
          /\ refresh_count' = refresh_count - 1
          /\ msgs' = others
          /\ UNCHANGED <<refresh_id, snode_cache, snode_failures, swarm_cache, buildVars, tasks>>
       \/ /\ refresh_id # None /\ got.n = RefreshFrom /\ got.empty
          /\ refresh_id' = None /\ refresh_count' = 0 /\ refresh_results' = NoResults
          /\ msgs' = others
          /\ UNCHANGED <<snode_cache, snode_failures, swarm_cache, buildVars, tasks>>
       \/ /\ refresh_id # None /\ got.n = RefreshFrom /\ ~got.empty
          /\ Complete(got.nodes, others)
    /\ UNCHANGED <<suspended, unused_nodes, seed_size, connVars, paths, timeout_loop, started,
                   called, bounds>>

(* ... with something that does not parse.                                 *)
ProbeGarbled(m) ==
    /\ m \in At("inflight") /\ m.req \in Probes
    /\ pending_requests' = Answered(m)
    /\ NoPathChange(m, TRUE)
    /\ Ends(m)
    /\ Costs(m)
    /\ UNCHANGED answerUnchanged

-----------------------------------------------------------------------------
(* suspend() and close_connections(); in_progress_path_builds,             *)
(* unused_nodes, the requests waiting for a refresh and timeout_loop stay. *)
CloseConnections(suspend) ==
    /\ suspends < MaxSuspends /\ suspends' = suspends + 1
    /\ suspended' = (suspended \/ suspend)
    /\ conns' = [c \in Conns |-> [conns[c] EXCEPT !.state = "closed"]]
    /\ CallBack(At("queued"))
    /\ msgs' = msgs \ At("queued")
    /\ tasks' = tasks \cup Retry(At("queued"))
    /\ paths' = {} /\ paths_pending_drop' = {}
    /\ path_build_queue' = [t \in PathTypes |-> 0]
    /\ unused_connections' = {}
    /\ in_progress_connections' = [i \in Ids |-> None]
    /\ refresh_id' = None /\ refresh_results' = NoResults
    /\ UNCHANGED <<nodeVars, attempts, in_progress_path_builds, pending_requests, refresh_count,
                   timeout_loop, started, faults, expiries>>

Resume ==
    /\ suspended /\ suspended' = FALSE
    /\ UNCHANGED <<nodeVars, connVars, buildVars, pathVars, refreshVars, timeout_loop,
                   reqVars, tasks, bounds>>

-----------------------------------------------------------------------------
Init ==
    /\ suspended = FALSE
    /\ snode_cache = InitialCache /\ unused_nodes = {} /\ seed_size = None /\ swarm_cache = {}
    /\ snode_failures = [n \in Nodes |-> 0]
    /\ conns = [c \in Conns |-> [node |-> None, state |-> "closed"]] /\ attempts = {}
    /\ unused_connections = {} /\ in_progress_connections = [i \in Ids |-> None]
    /\ path_build_queue = [t \in PathTypes |-> 0]
    /\ in_progress_path_builds =
          [i \in Ids |-> IF PreBuild /\ i <= MinPathCount THEN Standard ELSE None]
    /\ tasks = IF PreBuild THEN {Build(i, Standard) : i \in 1..MinPathCount} ELSE {}
    /\ paths = {} /\ paths_pending_drop = {} /\ pending_requests = [c \in Conns |-> 0]
    /\ refresh_id = None /\ refresh_count = 0 /\ refresh_results = NoResults
    /\ timeout_loop = FALSE
    /\ started = {} /\ msgs = {} /\ called = [r \in Reqs |-> 0]
    /\ faults = 0 /\ expiries = 0 /\ suspends = 0

Application ==
    \/ \E r \in Reqs : CallLookup(r) \/ CallOnLoop(r) \/ Call(r)
    \/ \E s \in BOOLEAN : CloseConnections(s)
    \/ Resume

Tasks ==
    \/ \E i \in Ids, t \in PathTypes : BuildTask(i, t)
    \/ \E t \in tasks : NeededTask(t) \/ RefreshTask(t)
    \/ \E i \in Ids : EstablishTask(i)
    \/ \E i \in Ids \cup Reqs : SeedTask(i)
    \/ \E l \in BOOLEAN : CheckTask(l)
    \/ \E m \in msgs : RunResumed(m) \/ RunScheduled(m)

Remote ==
    \/ \E a \in attempts : Connected(a)
    \/ \E a \in attempts, A \in Answers : SeedAnswers(a, A)
    \/ \E m \in msgs, A \in Answers : ProbeAnswers(m, A)
    \/ \E m \in msgs, b \in Batches : Replies(m, b)

Failures ==
    \/ \E a \in attempts, t \in BOOLEAN : AttemptFails(a, t)
    \/ \E c \in Conns : ConnectionCloses(c)
    \/ \E m \in msgs : Undecipherable(m) \/ ProbeGarbled(m)
    \/ \E m \in msgs, s \in {-1, 421, 500}, t \in BOOLEAN :
          (t => s = -1) /\ Fails(m, s, t, None)
    \/ \E m \in msgs, n \in Nodes : Fails(m, -1, FALSE, n)

Threads == \E m \in msgs : Proceed(m) \/ Store(m) \/ Expire(m)

Next == Application \/ Tasks \/ Remote \/ Failures \/ Threads

Spec == Init /\ [][Next]_vars


(* Scheduled calls are run, time passes, and a command sent on a stream is *)
(* answered or times out.  Nothing is assumed of the application, of       *)
(* connections or of the lists nodes report.                               *)
Fairness ==
    /\ \A l \in BOOLEAN : WF_vars(CheckTask(l))
    /\ \A r \in Reqs :
         /\ WF_vars(\E m \in msgs : m.req = r /\ Expire(m))
         /\ WF_vars(\E m \in msgs : m.req = r /\ (Proceed(m) \/ Store(m)))
         /\ WF_vars(\E m \in msgs : m.req = r /\ RunScheduled(m))
         /\ WF_vars(\E m \in msgs, b \in Batches : m.req = r /\ Replies(m, b))

FairSpec == Spec /\ Fairness

-----------------------------------------------------------------------------
Path == [conn : Conns, type : PathTypes, others : SUBSET Nodes, failures : Nat]
Attempt == [conn : Conns, id : Ids, seed : {FALSE}] \cup [conn : Conns, id : Tokens, seed : {TRUE}]
Msg == [req : Reqs \cup Probes, dest : Nodes \cup {Server, None}, retry : Retries,
        rid : Tokens, at : Spots, conn : Conns \cup {None}, late : BOOLEAN,
        load : 0..(SizeSpace - 1)]

TypeOK ==
    /\ suspended \in BOOLEAN /\ timeout_loop \in BOOLEAN
    /\ snode_cache \subseteq Nodes /\ unused_nodes \subseteq Nodes /\ swarm_cache \subseteq Nodes
    /\ snode_failures \in [Nodes -> 0..(FailureSpace - 1)]
    /\ seed_size \in Nat \cup {None}
    /\ conns \in [Conns -> [node : Nodes \cup {None}, state : {"connecting", "open", "closed"}]]
    /\ attempts \subseteq Attempt
    /\ unused_connections \subseteq Conns
    /\ in_progress_connections \in [Ids -> Nodes \cup {None}]
    /\ in_progress_path_builds \in [Ids -> PathTypes \cup {None}]
    /\ path_build_queue \in [PathTypes -> Nat]
    /\ paths \cup paths_pending_drop \subseteq Path
    /\ pending_requests \in [Conns -> 0..(SizeSpace - 1)]
    /\ refresh_id \in Tokens /\ refresh_count \in Int
    /\ refresh_results \in [n : Nat, nodes : SUBSET Nodes, empty : BOOLEAN]
    /\ started \subseteq Reqs /\ called \in [Reqs -> Nat]
    /\ msgs \subseteq Msg /\ tasks \subseteq Task
    /\ faults \in Nat /\ expiries \in Nat /\ suspends \in Nat

(* Every call of the application that was made is in one place - a queue,  *)
(* a scheduled call, a stream, the list waiting for a refresh - or its     *)
(* callback has been called, once.                                         *)
OnePlace ==
    /\ \A m, n \in msgs : m.req = n.req => m = n
    /\ \A r \in Reqs :
         /\ r \notin started => called[r] = 0
         /\ called[r] \in {0, 1}
         /\ r \in started /\ called[r] = 0 <=> \E m \in msgs : m.req = r

(* A path has PathSize different nodes, also after handle_errors() has     *)
(* replaced some, and shares none but its guard with another path; the     *)
(* next replacement comes from unused_nodes, which holds none of them.     *)
FullPaths ==
    /\ \A p \in paths \cup paths_pending_drop :
         /\ conns[p.conn].node \in Nodes \ p.others
         /\ Cardinality(p.others) = PathSize - 1
    /\ \A p \in paths : NodesOf(p) \cap unused_nodes = {}
    /\ \A p, q \in paths : p # q => p.conn # q.conn /\ p.others \cap q.others = {}

(* A request in flight on an open connection is on a path that is active   *)
(* or pending drop, so that its failure can be put down to the path; when  *)
(* every call is made on the loop's thread.                                *)
InFlightTracked ==
    Reqs \subseteq OnLoop =>
        \A m \in At("inflight") :
            conns[m.conn].state = "open" =>
                \E p \in paths \cup paths_pending_drop : p.conn = m.conn

(* Until the connections are closed, a build that is counted as in         *)
(* progress is scheduled: build_path_if_needed() waits for it.             *)
BuildsScheduled ==
    suspends = 0 =>
        \A i \in Ids : in_progress_path_builds[i] # None => Build(i, in_progress_path_builds[i]) \in tasks

(* Until the connections are closed, and when no node reports an empty     *)
(* list, a queued build has a connection or a refresh under way that will  *)
(* resume it.                                                              *)
QueuedBuildsServed ==
    suspends = 0 /\ {} \notin Answers =>
        \/ \A t \in PathTypes : path_build_queue[t] = 0
        \/ \E t \in tasks : t.op \in {"establish", "refresh", "seed"}
        \/ attempts # {} \/ refresh_id # None

(* A connection being made is known to in_progress_connections: the branch *)
(* of establish_and_store_connection() for orphaned builds is never taken. *)
AttemptsKnown ==
    \A a \in attempts : ~a.seed /\ conns[a.conn].state = "connecting"
                            => a.id \in Ids /\ in_progress_connections[a.id] # None

(* The callback of a request with a path build timeout is called in the    *)
(* end, unless the network is suspended or the request waits for a swarm.  *)
TimedCalledBack ==
    \A r \in Timed \ InSwarm : r \in started ~> (called[r] = 1 \/ suspends > 0)

(* The application sees what RequestService promises: a call that has been *)
(* made is somewhere in the network until its callback is called.          *)
Service == INSTANCE RequestService
             WITH pending <- {r \in Reqs : \E m \in msgs : m.req = r}, answers <- called
ServiceSpec == Service!Spec

=============================================================================
