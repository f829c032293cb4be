# Verification of libsession-util

TLA+ models of the parts of libsession-util that carry state and protocol
logic, model-checked with TLC and proved about with TLAPS.  `PROJECT.json` is the machine-readable index: components, runs, the
definition-to-source map, findings, hazards and theorems.

## 1. Inventory of the system

The library keeps a user's *configs* (profile, contacts, groups, conversation
state) the same on all of the user's devices.  It does no I/O of its own for
that: the application polls a storage *swarm*, hands what it gets to
`merge()`, sends what `push()` returns, reports the outcome to
`confirm_pushed()` and writes what `dump()` returns to disk.  A second, largely
independent half of the library (`session_network.cpp`) sends requests over onion-routed paths.

| component | state it keeps | operations | what makes it correct |
|---|---|---|---|
| **Config messages** `src/config.cpp` | seqno, data dict, hash, current diff, lagged diffs, `unmerged_index` | parse, `increment`, `serialize`, the merging constructor | all devices that see the same messages compute the same merge; pruning never leaves nothing; nothing that another message does not include is dropped |
| **Config objects** `src/config/base.cpp` | `_config`, `_state` (Clean, Dirty, Waiting), `_curr_hashes`, `_old_hashes`, `_needs_dump`, keys | setters through `dirty()`, `merge`, `push`, `confirm_pushed`, `old_hashes`, `dump`, `init` | Clean means stored; nothing that is still needed is deleted; dumps are complete; devices converge |
| **Multipart messages** `base.cpp` 111-368, 717-791 | `_multiparts`: per final hash the parts, the size, an expiry, done | split in `push`, `_handle_multipart`, expiry, dump, load | what is passed on is what was split, once; no part that is waited on is lost |
| **Encryption key list** of a config object | `_keys` in order of preference | `add_key`, `remove_key`, `replace_keys`, `decrypt` on merge | messages under any listed key stay readable; the first key encrypts |
| **Signing keys** `ConfigSig` | `_sign_pk`, `_sign_sk` | `set_sig_keys`, verifier, signer | who cannot sign never makes a message |
| **Group keys** `groups/keys.cpp` | `keys_` by generation, `active_msgs_`, pending key, pending config | `rekey`, `key_supplement`, `load_key_message`, `insert_key`, `remove_expired`, dump, load | every member that reads all messages can decrypt; old keys live long enough; two admins agree |
| **Group info / members** | a config each, sharing the keys of `groups::Keys` | record setters; invite, promote and removal states | a member's status moves forward |
| **Config types** contacts, user groups, convo info, profile, local | none of their own: views of the dict | record getters and setters; pruning of stale conversations | what is set is read back; canonical keys |
| **Network** `session_network.cpp` | connections, paths, request queues, snode and swarm caches, flags for suspend and refresh; a disk thread | `get_swarm`, `send_onion_request`, path building, refresh, suspend, resume, timeouts, 421 retries | every request calls back exactly once; paths are rebuilt; the cache on disk catches up |
| **Onion requests** `src/onionreq` | builder state | layer, peel | the answer is opened with the keys of its request |
| crypto, blinding, protobuf wrapping, C API, utilities | none | pure functions | outside the models |

How they interact.  A config object owns a config message and replaces it by an
incremented or merged copy.  `groups::Keys` pushes its key list into the Info
and Members configs.  Config objects of different devices interact only
through the swarm, where anything may be delayed, lost, repeated or deleted
between two calls.  In the network half an event loop owns connections, paths,
queues and caches; it shares the snode cache with a disk thread under a mutex and
(by a counter, unsynchronised) connections with the threads that send requests,
and it calls back into the application.

Hard behaviours, listed line by line under `hazards`: concurrent edits
and crossing merges; polls that deliver what was deleted meanwhile; pushes that
time out and are answered late; a crash between a change and its dump, or
between the send and the dump; deletes that overtake stores; window edges;
parts of large messages in any order over several merges and restarts; group keys
issued at the same time, loaded late and expiring; refreshes, clears and a
disk thread that share flags; path builds that wait for connections and refreshes that
wait for paths; requests that are redirected, retried, timed out and cancelled
while another thread is still sending them.

## 2. Modules

| module | models | state and actions |
|---|---|---|
| `ConfigMessage` | `config.cpp`: `diff`, windows, increment, the merging constructor | operators on message records; no state |
| `ConfigBase` | `base.cpp`: `set_state`, `dirty`, `_merge`, `push`, `confirm_pushed`, `old_hashes`, `dump`, `init` | operators on the record of one config object |
| `ConfigSync` | several config objects, their dumps, the swarm, the requests between them | `obj`, `disk`, `hashed`, `swarm`, `stored`, `requests`; one action per call the application makes, and the environment's |
| `Multipart` | `_handle_multipart`, `_expire_multiparts`, `finish`, `_dump_multiparts`, `_load_multiparts`, the split in `push` | `multiparts`, `batch`, `good`, `disk`, `clock`; one action per outcome of handling a part, so that a crash can fall between two parts |
| `GroupKeys` | `groups/keys.cpp`: `rekey`, `key_supplement`, `load_key_message`, `insert_key`, `remove_expired`, `needs_rekey`, `load_admin_key`, dump and load | `obj` (keys, active hashes, pending key, `needs_dump_`, what Info and Members were given), `loading`, `disk`, `admin`, `swarm`; the keys of a supplement are inserted one action at a time, so that each is one call of `insert_key` |
| `SnodeCache` | `session_network.cpp`: `refresh_snode_cache_complete`, `clear_cache`, `update_disk_cache_throttled`, `disk_write_thread_loop`, `load_cache_from_disk`, constructor and destructor | the list in memory and on disk, the flags, the throttle's timers, the place of the disk thread; a critical section is one step, what the thread does unlocked is separate steps |
| `Network` | `session_network.cpp`: connections, paths, refreshes, lookups, requests, timeouts, suspend and resume | the members of `Network` under their names; `tasks`: calls scheduled with `call_soon` and `call_later`; `msgs`: each request with the place it is in; one action per scheduled call, API call, answer and failure |
| `RequestService` | what `session_network.hpp` promises the caller of `send_onion_request`, `get_swarm` and `get_random_nodes` | `pending`, `answers`; `Network` implements it with `pending` the requests in `msgs` and `answers` the callbacks made (`ServiceSpec`) |
| `MCConfigSync`, `MCMultipart`, `MCGroupKeys`, `MCSnodeCache`, `MCNetwork` | the instances TLC checks | |
| `ConfigMessageProofs`, `ConfigBaseProofs`, `ConfigSyncProofs`, `MultipartProofs`, `GroupKeysProofs`, `SnodeCacheProofs`, `NetworkProofs`, `FiniteOrders` | theorems | |

### What the models abstract

* **The dict is flat.**  A key holds a scalar or is absent, and a diff marks it
  assigned, removed or untouched.  The merge is insensitive to nesting except
  for sets and pruning of empty dicts, which are planned as `ConfigDiff`.
* **Hashes are an oracle.**  `hashed` remembers every message hashed so far:
  equal content gets the equal hash, new content a hash no other message of
  that seqno has.  Only the order of hashes of one seqno matters to the code,
  so TLC tries every relative order of up to three messages (`MCNewHashes`).
* **A storage hash is (seqno, hash).**  Encryption is deterministic (the nonce
  is a hash of the plaintext), so equal content is stored once.
* **Unparseable messages** (a later protocol version) are the `Aliens`: they
  have a storage hash, and the merging constructor's error handler meets them.
* **A part's data** is reduced to whether it is the chunk that was split off.
  The recombined hash matches exactly when all parts are genuine.
* **A group key** is its generation with the set of members it was made for,
  because `rekey` derives it from these (and the group's secret) alone; `Rank` is
  the order of the key bytes.  Everything in a key message is deterministic, so
  the message stands for its storage hash.  Messages that do not parse or verify
  throw before anything is changed and are left out.
* **`decrypted`** is a history variable: every key an object has decrypted, as
  far as its dumps remember it.
* The **order** of a poll's messages cannot matter without an unparseable one
  among them, because the constructor sorts what it keeps; `MCOrders`
  enumerates every place for the unparseable one otherwise.

* **A snode list** in `SnodeCache` is the number of the refresh that brought it.
  `overtaken` and `unheeded` are history variables for the two interleavings in
  which the code loses an update (section 5); the properties exempt exactly these.
* **A path** is its guard's connection and the set of its other nodes, since
  only the guard's place matters; random choices (`std::shuffle`, the back of a
  shuffled list) are nondeterministic.  Ids are the least that is free: they are
  only compared.  All requests of a swarm share one pubkey, so `swarm_cache` is
  one entry.
* **Time** in `Network` is a flag per request, `late`: its path build
  timeout has passed.  Retry delays are left out; a delayed call is a scheduled one.
* **An answer** is the sequence of status codes of its results.  `BatchStatus`
  is the loop of `_send_onion_request` over them; a path's node
  may instead report an error, a missing next node, or nothing decipherable.
* `send_onion_request` **on another thread** is three steps: the path is found on the
  loop, the counter is read, the counter is written and the command sent.

### Assumptions about the environment

The application and the swarm are outside the repository and modelled from the
use `base.hpp` documents.

* A push and the deletes that belong to it are one request, carried out as one
  (`config_merge_logic.md`: "creates a batch request").
* A push that is awaited is not repeated until it is answered, lost, or given
  up on; a *newer* change is pushed without waiting.
* `old_hashes()` outside a push is called in the states `CleanupStates`.  `base.hpp` allows it
  whenever the config is not Dirty; while Waiting the deletes can overtake the store that
  makes them harmless.  `CleanupAssumption` admits all choices, and the proofs hold for them
  unless a theorem names its `CleanupStates`.  `NoChangeLost` and `SettledAgree` hold only for `{}`
  (finding `doc_cleanup`), so `sync_conflicts` has that; `sync_recovers` has the cleanups in
  both states: what is deleted too early is pushed again, and the devices still converge.
* The swarm refuses deletes of a device that cannot sign.
* A restart drops unanswered requests' answers, not the requests.
* The swarm gives a key message the time of its storage, later messages no
  earlier times, and stores the same message once.  Any of them may be
  loaded at any time and any number of times.
* `rekey` of a group without keys is called by the founder only; other admins
  load the existing keys first.
* Callbacks of the application do not call back into `Network` from within
  `request_queue`'s iteration (that would be undefined behaviour in
  `check_request_queue_timeouts` and `_close_connections`).
* A request carries as destination the very record its caller got from
  `get_swarm`, so that comparing nodes as a whole finds the same node.
* Connections and nodes may fail at any point, `MaxFaults` times; a closed
  connection's streams answer every command with an error.

## 3. Runs

Sizes are those of two workers; all bounds are CONSTANTS.

| run | bounds | shows |
|---|---|---|
| `sync_conflicts` | 2 writers, 2 values, 2 edits, lag 2, one lost or timed-out request, late answers included, polls may return deleted messages | `TypeOK`; `CurrentNotObsolete`: a writer never hands out the hash of the message it stands on; `SomeConfKept`: the constructor's `assert(curr_confs >= 1)`; `NoChangeLost`: every stored change is in a message the swarm still holds, or fell out of the window; `CleanDataStored`: a clean config's data is on the server under its hash; `SettledAgree`: devices with nothing to push and nothing to learn have equal data; `SeqnoNeverBack` |
| `sync_restarts` | a writer and a reader, 2 dumps, 1 restart, 2 edits | `NeedsDumpSound`, `HashesOnlyWhenClean`, `ReaderDataStored`: the restarted writer edits again from an older dump and so conflicts with its earlier self |
| `sync_converges` | 2 writers, conflicting edits, fair | `Converges` |
| `sync_recovers` | 1 edit, 1 dump, 1 restart, 2 failures, `old_hashes()` deleted while Clean or Waiting, fair | `Converges` |
| `multipart` | 2 messages of 2 parts; in the swarm also a damaged part, one that lies about the size and one with an impossible number; one message does not decode; batches of 2, 3 clock values (wait 1, remember 2), 1 dump, 1 restart | `PassedOnWhole`, `NoneOverlooked`, `PassedOnOnce`, `GoodIsUsed`, `PendingSaved` |
| `group_keys_order` | an admin, a member that may be promoted, member lists with and without it, 3 rekeys, 1 supplement, 3 clock values, expiry 1 | `NewestKept`, `DroppedWereSuperseded`, `HeldKeptAlive`, `ListedCurrent`, `CollisionNoticed`, `PendingNotBehind` |
| `group_keys_restarts` | the same with 2 rekeys, 2 clock values, 1 dump, 1 restart | `TypeOK`, `KeysSaved` |
| `disk_cache` | 3 refreshes, 2 clears, 2 failing writes, 1 restart, fair | `SavedAtRest`, `ClearTakesEffect`, `CatchesUp`, `ShutDownEnds` |
| `network_paths` | 3 nodes, paths of 2, one path wanted, 1 fault, 1 expired cache, paths given up at the first failure, failure counts modulo 2; a timed request to a server and a `get_random_nodes` on the loop's thread, fair | `TypeOK`; `FullPaths`: a path has its number of different nodes, also after repairs, and none of them is offered again; `InFlightTracked`: a request in flight on an open connection belongs to a path that is active or pending drop; `BuildsScheduled`, `QueuedBuildsServed`, `AttemptsKnown`: no build is forgotten; `TimedCalledBack` |
| `network_requests` | 3 nodes in 2 swarms, paths of 1, a swarm request from another thread and a `get_swarm`; answers 200, 421 or mixed, empty or partial node lists, 1 closing of the connections (suspended or not), paths given up at the second failure | `OnePlace`: each call is in one place until its callback, called once; `ServiceSpec`: the refinement of `RequestService` |
| `doc_edit_lost`, `doc_cleanup` | smallest that show them | the findings below |

Why these bounds are enough to be interesting.  Two edits from the same
message give two conflicting messages of seqno 1; both devices may merge them
(seqno 2), with each other's merge already stored or not, and merge again, so
seqno 3 is reached and messages of seqno 1 leave a window of 2.  The third
device adds nothing to a merge of two.  A failure in every possible place is
one failure; the liveness run allows two so that a retry can fail too.  In
`Multipart` the claim of a third part gives the contradictory size, three clock
values let an unfinished set expire while a finished one is remembered and
let the finished one expire too, and a batch of two splits a set over merges or not.
In `GroupKeys` three keys are the least with which one can expire (two keys of
later generations, or of one later generation, more than the expiry apart); they
collide when an admin issues two before it sees the first, or both admins issue
one.  A supplement made before the last key, loaded after it, brings keys that
are already stale.
In `SnodeCache` three refreshes are the least for one on disk, one being written
and one that overtakes it; two clears let the second fall into the first.  In
`Network` three nodes are a path of two and one replacement, one fault falls in
every place once, and three connections let a path be dropped with requests
pending while its successor is built.  `network_requests` uses paths of one node so
that a request can go through all of the 421 retries, with the swarm refresh between,
while its connections are closed; there the answers alone make enough failures
(`MaxFaults = 0`).  With `PathThreshold = 1` and `FailureSpace = 2` two requests that fail
over one path of `network_paths` are enough to take a node's count past the threshold and
back to zero; `network_requests` has `PathThreshold = 2`, so that a path also survives a
failure.  Not reached by these instances: the retry of a build
for which all unused nodes share the guard's IP, a refresh that needs answers of
several nodes, `single_path_mode` and a second path type; the theorems of
section 4 hold for them, the invariants that are only model-checked are open there.

`CHECK_DEADLOCK FALSE` is set in the network runs, where the system rests once the calls are answered and the bounds used up, and in the `ConfigSync` runs: when the users stop
editing and every device is clean the system rightly rests (up to polls that
change nothing); and in `group_keys_restarts`, where the founder may lose its
first key in a crash and issue no other.

**Fairness.**  `FairSpec` assumes that every application keeps pushing while
`needs_push()`, keeps polling the whole swarm, that the swarm answers what
reaches it and that answers that were not lost are delivered.  These are the
duties `base.hpp` puts on the application; edits, dumps, cleanups, losses and restarts are not fair and are bounded,
since a user who edits forever need not see convergence.
`SnodeCache!FairSpec` assumes that the disk thread is scheduled and that the loop runs
its timers; writes fail finitely often.  `Network!Fairness` assumes
that the loop runs the calls scheduled on it, that time passes, that a thread inside
`send_onion_request` goes on, and that a command on a stream is answered
or times out (the stream has a timeout).  Nothing is assumed of the
application, of connections being established or of the lists nodes report: the
timeout alone must bring the callback.

Every property has a mutant (`Mut...`, defined beside the definition it
replaces): a plausible bug of the code that makes exactly that property fail.

## 4. Theorems

For every set of devices, keys, values, every lag > 0 and every number of
edits, failures and restarts:

* `ConfigSyncProofs!TypeCorrect`, `SomeConfKeptHolds`,
  `HashesOnlyWhenCleanHolds`, `NeedsDumpSoundHolds`, `SeqnoNeverBackHolds`.
  The inductive invariant is `TypeOK`, `SerializedInWindow` (every message
  ever hashed and every dump carries only lagged diffs of its window),
  `HashesOnlyWhenClean` and `NeedsDumpSound`.  The window conjunct is what makes
  `SomeConfKept` true: a message of the highest seqno can only be made redundant
  by an earlier copy of itself, since whoever includes it would have a higher
  seqno, so the first copy of a highest one survives (`ConfigMessageProofs`).
  `TypeOK` has to say that `hashed` and every lagged set are finite, or the
  maxima the merge takes need not exist.  `ConfigBaseProofs` states what each
  operation does to an object as `GoodStep`, once, and `ConfigSyncProofs` uses
  it in one step per action.  `SeqnoNeverBack` follows from the same invariant:
  a merge result is at least as high as our own message, which always
  takes part.
* `ConfigSyncProofs!ReaderDataStoredHolds`: a reader's config, and its dump's, is always
  the content of a message the swarm was given, since with verify-only keys a merge
  only ever adopts a message that was delivered.
* `CurrentNotObsoleteHolds` and `CleanDataStoredHolds`, for `Aliens = {}` (`doc_edit_lost`
  shows that the hypothesis is needed).  Their invariant `SyncInv` has four parts.
  `OwnBelow`: the hashes a writer has obsoleted are of seqnos up to its own, of lower ones
  unless it is Clean, and the one hash it stands on is not among them.  `AllBacked`: the
  property itself, for objects and dumps.  `PutsKnown`: a request stores one message of its
  seqno.  `AllMatched`: a writer has not gone behind the pushes it awaits, and while it
  is Waiting at the seqno of one, that push stores its data.  So a late or repeated answer can confirm
  nothing but what was stored, and a push never deletes the seqno it puts.  The order lemmas are in `ConfigMessageProofs` (`HighestFirst`, `LoneSuperconf`), the
  effect of each operation on them in `ConfigBaseProofs`.
* `NoChangeLostHolds`, for `Aliens = {}` and `CleanupStates = {}` (`doc_cleanup` shows that
  deletes outside a push can lose a change).  A content *covers* a message when it is that
  message's content or `Above` it: of a higher seqno and, for every diff the message makes or
  carries, holding that diff or past its window.  Covering is transitive (`CoversTransitive`): what an intermediate
  message accounts for by distance alone is out of the later window as well.  A message
  that carries a diff is above the message that made it (`Grounded`), and known
  messages differ in hash as in content (`Distinct`), so "includes", which compares only hashes,
  means "covers": pruning drops a message only for one that covers it (`KeptCovers`), an
  adopted superset covers the whole vector (`LoneCovers`) and a merge is above it (`MergeAbove`).  The
  invariant `CoverInv` adds to `SyncInv` that what a writer would push covers all it has
  obsoleted and stands on (`DevicesCover`, live and in its dump), that the message a request puts covers
  what it deletes (`RequestsCover`), that a Waiting config is what its awaited push holds, whole
  and not just its data (`AllAsPushed`), and that everything ever stored is covered by something held
  (`AllHeld`).  So serving a request replaces what covered a message by what covers that in turn.
* `SettledAgreeHolds`, under the same hypotheses and three more: `Lag > 1` (every `config_lags()` in the code is 5);
  `FreshHashes`, that the hash oracle never runs dry (`MCNewHashes` does not within the bounds); `DeliversAll`, that one of the polls over a set of
  messages delivers them all (`MCOrders` does).  Without the last two `Settled` would be true of a
  device that nothing can reach.  A content *follows on* a message when it is its content,
  or the increment a Dirty config adopts, with the same data (`FollowsOn`).  The invariant `StandInv` adds to
  `CoverInv` that a Clean writer's config, live and in its dump, is the empty one or follows
  on a stored message whose hash it knows (`WritersStand`; `AllBacked` knows only
  their data to be equal).  `UnchangedCovers`: a merge of everything held that leaves a Clean config
  as it was means that the config covers everything held.  `FollowsSame`: a config that
  covers a message, but follows on one of no higher seqno, has that message's data, since only
  the message itself holds its own diff at that distance.  For two settled writers take what
  they follow on and what the swarm holds to cover it (`AllHeld`): both have the data of the
  higher of the latter two.
* `MultipartProofs`: `PassedOnWholeHolds`, `PassedOnOnceHolds`,
  `NoneOverlookedHolds`, `GoodIsUsedHolds`, `PendingSavedHolds`, for
  any number of sets, parts and batches.  The invariant adds to them
  `AllCollected` (an entry's parts belong to its set, have distinct numbers
  below its size and agree on it), `Remembered` (a set that was passed on is
  done until its time is over) and `OnlyWhileMerging`.  The core of it is a
  pigeonhole lemma (`AllNumbers`): as many distinct numbers below n as n are
  all of them, so a count that equals the size means that nothing is missing.

* `GroupKeysProofs`: `TypeCorrect`, `NewestKeptHolds`, `DroppedWereSupersededHolds`,
  `HeldKeptAliveHolds`, `CollisionNoticedHolds`, `PendingNotBehindHolds`,
  `KeysSavedHolds`, `ListedCurrentHolds`, for any number of devices, admins,
  keys and restarts and any expiry.  The inductive invariant `IInv` is `TypeOK`,
  `SwarmOK` (a message is stored once, and supplements hold only keys of the
  swarm, so a key has one timestamp wherever it is met) and, for each device,
  `DeviceOK`: `Sound` for the live object and for the dump, since a restart turns
  one into the other, a supplement is only loaded by one who is not an admin
  (hence has no pending key), and pending keys are `Ahead`.  `ListedCurrent` rests
  on `UnexpiredIdempotent`: `load_key_message` runs `remove_expired` on a path
  where it does not hand the keys on, and that is right only because a
  second `remove_expired` never finds anything to remove.
  `CollisionNoticed` follows from the others: a key of the highest generation
  can never have been dropped.

* `SnodeCacheProofs`: `TypeCorrect`, `SavedAtRestAlways`, `ClearAlwaysTakesEffect`,
  for any number of refreshes, clears, failures and restarts.  The invariant says for
  each place of the disk thread what its copy, the file and the list in memory
  may be, up to a refresh that overtook it.
* `NetworkProofs`: `TypeCorrect`, `CalledOnce`, `ImplementsService`, `AttemptsAlwaysKnown`,
  `BuildsAlwaysScheduled`, for any nodes, IPs, swarms, requests, path types, thresholds
  and path sizes.  `TypeCorrect` is split by groups of variables (`Groups`), and
  includes that a message in flight names a connection.  `OnePlace` is inductive
  with it: every handler removes a message, replaces it by one of the same request or
  calls its callback.  `ImplementsService` follows from `OnePlace` and `NoNewCall`: a
  step that starts no call maps to `Answer` of the requests that left `msgs`
  or to a stutter, a call to `Call`.  `AttemptsKnown` shows that the branch of
  `establish_and_store_connection` for orphaned builds ("this shouldn't happen but
  better to be safe") is indeed dead.
* `NetworkProofs!PathsAlwaysFull`: the invariant follows a path from the build that
  chose its nodes (different, and none of a stored path or of another connection) over
  repairs, which keep the number, to its end.  `QueuedBuildsAlwaysServed`: a queued build is
  waited for by a scheduled `check_...` call or by a refresh with its callbacks, and each handler
  that takes one away leaves another.  `InFlightAlwaysTracked`: `handle_errors()` gives up a path only when `pending_requests`
  says that nothing is in flight over it, so the invariant says that the counter is exactly
  the number of messages on its connection (`Counted`) and that a connection still
  being made carries none (`Fresh`).  The property is about calls made on the loop's
  thread: a call on another thread reads the counter in one step and writes it in a later one
  and can overwrite a change in between.  The theorem assumes that the calls and probes are fewer than
  `SizeSpace`: a counter that wraps would be zero too early.

`FiniteOrders` has the one fact about finite sets that `ConfigMessageProofs` and
`GroupKeysProofs` share: a strict order on a finite set has a maximal element.

Only model-checked: `Converges`, `CatchesUp`, `ShutDownEnds`,
`TimedCalledBack` (liveness).  Out of the
prover's reach: liveness under fairness and ENABLED; induction over data with
the library's induction theorems; RECURSIVE operators.

## 5. Findings

The runs that end in a violation, of sentences in the repository:

* `doc_edit_lost` (code bug): `unmerged_index()` counts the messages that
  *parsed*, `_merge` uses it as an index into *all* of them.  With one
  unparseable message in a poll a Dirty config can take its own unsent change for an
  incoming message: Clean, never pushed.  By the same shift the hash of the
  unparseable message can become the current one and be deleted later, although the
  comment at base.cpp:543 wants it left behind.

* `doc_cleanup` (code bug): two Clean devices can together delete the only stored copy
  of what both show.  d1 and d2 make the same edit; d2 is still Dirty when d1's message 1
  arrives, which includes its own change, so d2 adopts it with an incremented seqno
  (base.cpp:617), Clean, standing on the hash of message 1.  d1 edits to another value and
  back: its next message has exactly d2's content.  When d2 polls it, its own copy comes
  first, is the superset of everything, and knows the hash of message 1 only: the
  delivered copy becomes obsolete (base.cpp:567), and `old_hashes()` hands it out while d2
  is Clean.  tests/test_bugs.cpp:112 guards against the same outcome in a shorter
  history; base.hpp:1206 calls deletion uncritical.  A device that joins or restarts then finds an empty
  swarm, so `SettledAgree` fails too.

Further places where the code does not do what a comment or document says, met
while modelling and visible in the definitions:

* `AdoptMerge`: the `retain_seqno` constructor leaves `orig_data_` empty, so the
  message of a merge made from a Clean config lists *every* key in its diff;
  config_merge_logic.md:208 says the diff is then empty.
* `Replay`: every lagged diff of a kept message is replayed; the document (:190)
  limits this to `newseqno-5`.
* `AdoptSuperconf`: a reader keeps its own message when a higher-ranked one of the same seqno
  arrives; config.cpp:630 says it keeps the highest.
* `AllConfs`: base.cpp:536 asserts that index 0 is our own config, which holds
  only when its storage hash is known.
* `IgnorePart`: parts of a finished set count as good even if the set did not
  decode; base.hpp:1015 says otherwise.
* `Loaded`: `_load_multiparts` never restores `done`, so after a restart parts of a
  completed set are collected again, and a full set is merged again; base.hpp:1270
  says completed sets are remembered "so that we can know to ignore duplicate
  message parts".
* `InsertKey`: a known key's message is added to the active hashes without
  `needs_dump_` (keys.cpp:853; keys.hpp:634): after a restart it is not kept alive.
* `ResetNeedWrite`: `need_write = false` outside the lock (session_network.cpp:685)
  forgets a refresh that completed during the write; it is saved only with the next one.
* `ClearDone`: a second `clear_cache()` during the first one's file removal is
  forgotten; without a `cache_path` there is no disk thread and `clear_cache()` clears
  nothing, although session_network.hpp:280 promises the memory.
* `CloseConnections`: `in_progress_path_builds` survives (761), so builds that died
  stay counted as pending; the timeout loop's id survives too (1765), so after a
  resume no queued request times out; requests that wait for a refresh are not
  called back while suspended (session_network.hpp:298, 311 promise an empty list).
* `NodeFailures`: `++snode_failure_counts[...]` (2789) has no bound on a `uint8_t`
  (session_network.hpp:215).  `drop_path_when_empty` stores the path with its old
  `failure_count`, so each request that still fails over it counts again; after enough of
  them (about 250) a node's count is 0 and `get_unused_nodes` offers it again.  The comment at 2792, "so
  we don't use it again until we refresh the cache", is about the guard, which is set
  back to the threshold each time; for the other nodes there is no such guarantee.
* `InProgress`: entries of `in_progress_connections` are never erased and not
  overwritten on a retry, so a node may be connected twice and two paths can share
  a guard; the comment at 2666 relies on the contrary, `Blame` models what follows.
* `ProbeAnswers`: a refresh in which one node reports an empty list is given up
  without running what waits for it (1349), and answers of an earlier refresh count
  into the present one.
* `BatchStatus`: the loop at 2052 treats *equal* codes as mixed (200) and hands on the
  last of *different* ones; the comment above it says the reverse.
* `FindValidPath`: `contains_node` compares whole nodes, version and swarm id
  included (514), while the comment at 1545 excludes the destination's IP.  The C API
  builds destinations without swarm id, so they are never excluded.
* `MinSnodeCacheSize`: the subtraction at 824 wraps when a seed reports fewer nodes
  than a path has.

## 6. Plan

Done: `ConfigMessage`, `ConfigBase`, `ConfigSync`, `Multipart`, `GroupKeys`,
`SnodeCache`, `Network` with `RequestService`, and their proofs.

Next, in this order:

1. `ConfigDiff`: nested dicts and sets, diff, apply and prune as recursive
   operators, against a reference definition (TLC only).
2. The key list and `ConfigSig`: dumps are unsigned, so after a restart a signed config hashes
   differently.  With it `GroupKeys` can be composed with the Info and Members
   configs, to show that what one device encrypts the others can read.
3. Config types: conversations and their pruning, group membership states
   (`GroupMembers`: pending sends, statuses that only move forward).
4. An abstract specification of delivery (a message arrives whole, at most
   once while remembered) that `Multipart` refines; liveness of `Multipart`.
5. `SnodeCache` composed with `Network`: the list that `clear_cache()` empties is the one
   paths are built from.

## 7. Not modelled, and why

Ciphers, curves, hashing and blinding (no state, out of TLC's reach); protobuf
and bt encodings (a message is what it decodes to); the C API (conversions and
exception handling around the same calls); logging, files, memory helpers;
community URLs.  Of the network half: the connection status and its hooks
(told of events, they change nothing else), `upload_file_to_server`,
`download_file` and `get_client_version` (they build a body and call
`send_onion_request`), retry delays, decoding of answers.  About half of the
repository's lines are generated protobuf code.  `PROJECT.json` lists each with its files.
