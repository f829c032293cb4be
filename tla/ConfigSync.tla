------------------------------- MODULE ConfigSync -------------------------------
(***************************************************************************)
(* Several devices keep one config in step through a storage swarm: every  *)
(* device edits, pushes, polls, merges, dumps and restarts on its own, and *)
(* requests to the swarm can be delayed, reordered and lost.               *)
(*                                                                         *)
(* The device side is ConfigBase.  The swarm and the application that      *)
(* drives the config object (it polls, sends what push() returns, reports  *)
(* the outcome to confirm_pushed(), writes dumps) are not in this          *)
(* repository and are modelled from the use base.hpp documents.            *)
(***************************************************************************)
EXTENDS ConfigBase

CONSTANTS
    Devices,
    Readers,        \* devices that can verify but not sign: is_readonly()
    LateReads,      \* may a poll deliver what was deleted since it was read?
    CleanupStates,  \* the states in which the application calls old_hashes()
    NewHashes(_),   \* the hashes new content may get, given those in use
    Orders(_),      \* the orders in which a poll may deliver a set of messages
    MaxEdits, MaxDumps, MaxRestarts, MaxFailures
                    \* bounds on what users, processes and the network do

ASSUME DevicesAssumption == Readers \subseteq Devices
ASSUME LateReadsAssumption == LateReads \in BOOLEAN
ASSUME BoundsAssumption == {MaxEdits, MaxDumps, MaxRestarts, MaxFailures} \subseteq Nat
ASSUME CleanupAssumption == CleanupStates \subseteq {"Clean", "Waiting"}

VARIABLES
    obj,        \* the config object of each device
    disk,       \* its last dump
    hashed,     \* every message hashed so far: the hash oracle's memory
    swarm,      \* storage hashes of the messages held by the swarm
    stored,     \* storage hashes of every message the swarm ever held
    requests,   \* store/delete requests in flight, and answered ones
    spent       \* how much of the environment's bounds is used up

vars == <<obj, disk, hashed, swarm, stored, requests, spent>>

Request ==
    [dev : Devices, seqno : Nat,
     put : SUBSET Storage,      \* the message to store, empty for a mere delete
     del : SUBSET Storage,      \* the obsolete messages to delete
     answered : BOOLEAN,        \* the swarm has carried it out
     awaited : BOOLEAN]         \* the process that sent it is still running

TypeOK ==
    /\ obj \in [Devices -> ConfigObject]
    /\ disk \in [Devices -> DumpRecord]
    /\ hashed \in FiniteSubsets(Message)
    /\ swarm \subseteq Storage
    /\ stored \subseteq Storage
    /\ requests \subseteq Request
    /\ spent \in [edits : Nat, dumps : Nat, restarts : Nat, failures : Nat]

Init ==
    /\ obj = [d \in Devices |-> FreshObject]
    /\ disk = [d \in Devices |-> MakeDump(FreshObject, FALSE)]
    /\ hashed = {}
    /\ swarm = Aliens
    /\ stored = Aliens
    /\ requests = {}
    /\ spent = [edits |-> 0, dumps |-> 0, restarts |-> 0, failures |-> 0]

(* The hash oracle: content seen before keeps its hash, new content gets    *)
(* one that no other message of the same seqno has.                         *)
UsedHashes(seqno) == {m.hash : m \in {n \in hashed : n.seqno = seqno}}
Hash(c) ==
    LET known == {m \in hashed : ContentOf(m) = c}
        used == UsedHashes(c.seqno)
    IN  IF known # {} THEN known
        ELSE {Hashed(c, h) : h \in {n \in NewHashes(used) : n \in Nat /\ n \notin used}}

-----------------------------------------------------------------------------
(* The user changes a setting.  A setter leaves a config that is not dirty   *)
(* alone when nothing would change; only such a config is hashed, to become *)
(* the latest lagged diff of its successor.                                 *)
Edit(d, k, v) ==
    /\ d \notin Readers
    /\ obj[d].state = "Dirty" \/ obj[d].conf.data[k] # v
    /\ spent.edits < MaxEdits
    /\ IF obj[d].state = "Dirty"
       THEN /\ obj' = [obj EXCEPT ![d] = SetField(@, Hashed(@.conf, 0), k, v)]
            /\ UNCHANGED hashed
       ELSE \E mine \in Hash(Serialize(obj[d])) :
            /\ obj' = [obj EXCEPT ![d] = SetField(@, mine, k, v)]
            /\ hashed' = hashed \cup {mine}
    /\ spent' = [spent EXCEPT !.edits = @ + 1]
    /\ UNCHANGED <<disk, swarm, stored, requests>>

(* The application pushes: the message and the obsolete hashes travel in    *)
(* one request.  A push that is still awaited is not repeated, but a newer  *)
(* change is pushed without waiting for it.                                 *)
Push(d) ==
    /\ NeedsPush(obj[d])
    /\ obj[d].state = "Dirty" \/ ~\E r \in requests : r.dev = d /\ r.awaited
    /\ \E mine \in Hash(Serialize(obj[d])) :
        /\ hashed' = hashed \cup {mine}
        /\ requests' = requests \cup
             {[dev |-> d, seqno |-> mine.seqno, put |-> {SeqnoHash(mine)},
               del |-> PushObsoletes(obj[d], d \in Readers),
               answered |-> FALSE, awaited |-> TRUE]}
    /\ obj' = [obj EXCEPT ![d] = AfterPush(@)]
    /\ UNCHANGED <<disk, swarm, stored, spent>>

(* The application asks for obsolete hashes outside a push and deletes them. *)
Cleanup(d) ==
    /\ obj[d].state \in CleanupStates
    /\ obj[d].old # {}
    /\ requests' = requests \cup
         {[dev |-> d, seqno |-> 0, put |-> {}, del |-> obj[d].old,
           answered |-> FALSE, awaited |-> FALSE]}
    /\ obj' = [obj EXCEPT ![d] = AfterOldHashes(@)]
    /\ UNCHANGED <<disk, hashed, swarm, stored, spent>>

(* The swarm carries out a request: store, then delete what the sender may. *)
Serve(r) ==
    /\ ~r.answered
    /\ swarm' = (swarm \cup r.put) \ (IF r.dev \in Readers THEN {} ELSE r.del)
    /\ stored' = stored \cup r.put
    /\ requests' = (requests \ {r}) \cup
         (IF r.awaited THEN {[r EXCEPT !.answered = TRUE]} ELSE {})
    /\ UNCHANGED <<obj, disk, hashed, spent>>

(* The answer reaches the application, which confirms the push. *)
Confirm(r) ==
    /\ r.answered
    /\ obj' = [obj EXCEPT ![r.dev] = ConfirmPushed(@, r.seqno, r.put)]
    /\ requests' = requests \ {r}
    /\ UNCHANGED <<disk, hashed, swarm, stored, spent>>

(* A request, or the answer to it, is lost. *)
Lose(r) ==
    /\ spent.failures < MaxFailures
    /\ spent' = [spent EXCEPT !.failures = @ + 1]
    /\ requests' = requests \ {r}
    /\ UNCHANGED <<obj, disk, hashed, swarm, stored>>

(* The application gives up on a request that is still under way. *)
TimeOut(r) ==
    /\ r.awaited /\ ~r.answered
    /\ spent.failures < MaxFailures
    /\ spent' = [spent EXCEPT !.failures = @ + 1]
    /\ requests' = (requests \ {r}) \cup {[r EXCEPT !.awaited = FALSE]}
    /\ UNCHANGED <<obj, disk, hashed, swarm, stored>>

Readable == IF LateReads THEN stored ELSE swarm
Parsed(ids) == {m \in hashed : SeqnoHash(m) \in ids}
Received(batch) ==
    [i \in DOMAIN batch |-> [hashes |-> {batch[i]}, parsed |-> Parsed({batch[i]})]]
Batches == UNION {Orders(S) : S \in (SUBSET Readable) \ {{}}}

(* A poll delivers messages that are, or recently were, in the swarm. *)
Fetch(d, batch) ==
    /\ batch \in Seq(Readable)
    /\ \E mine \in Hash(Serialize(obj[d])), incoming \in {Received(batch)} :
        /\ obj' = [obj EXCEPT ![d] =
                MergeIncoming(@, mine, incoming, d \in Readers)]
        /\ hashed' = IF HasOwn(obj[d]) THEN hashed \cup {mine} ELSE hashed
    /\ UNCHANGED <<disk, swarm, stored, requests, spent>>

(* The application saves the config when needs_dump() says so. *)
Dump(d) ==
    /\ obj[d].needsDump
    /\ spent.dumps < MaxDumps
    /\ spent' = [spent EXCEPT !.dumps = @ + 1]
    /\ disk' = [disk EXCEPT ![d] = MakeDump(obj[d], d \in Readers)]
    /\ obj' = [obj EXCEPT ![d] = AfterDump(@, d \in Readers)]
    /\ UNCHANGED <<hashed, swarm, stored, requests>>

(* The process dies and is started again from its last dump; nobody waits   *)
(* for the answers to its requests any more.                                *)
Restart(d) ==
    /\ spent.restarts < MaxRestarts
    /\ spent' = [spent EXCEPT !.restarts = @ + 1]
    /\ \E saved \in Hash(disk[d].conf) :
        /\ obj' = [obj EXCEPT ![d] = LoadDump(disk[d], saved)]
        /\ hashed' = hashed \cup {saved}
    /\ requests' = {r \in requests : r.dev # d} \cup
         {[r EXCEPT !.awaited = FALSE] : r \in {q \in requests : q.dev = d /\ ~q.answered}}
    /\ UNCHANGED <<disk, swarm, stored>>

Next ==
    \/ \E d \in Devices, k \in Keys, v \in Values \cup {Absent} : Edit(d, k, v)
    \/ \E d \in Devices : Push(d) \/ Cleanup(d) \/ Dump(d) \/ Restart(d)
    \/ \E r \in requests : Serve(r) \/ Confirm(r) \/ Lose(r) \/ TimeOut(r)
    \/ \E d \in Devices, batch \in Batches : Fetch(d, batch)

Spec == Init /\ [][Next]_vars

(* Every application keeps pushing and polling, and the swarm keeps answering. *)
Fairness ==
    /\ \A d \in Devices : /\ WF_vars(Push(d))
                          /\ WF_vars(\E batch \in Orders(swarm) : Fetch(d, batch))
    /\ WF_vars(\E r \in requests : Serve(r))
    /\ WF_vars(\E r \in requests : Confirm(r))
FairSpec == Spec /\ Fairness

-----------------------------------------------------------------------------
Writers == Devices \ Readers
Held == Parsed(swarm)

(* Only a clean config knows its storage hashes, in memory and on disk: a   *)
(* config that differs from what the server holds must not claim its hash.  *)
HashesOnlyWhenClean ==
    \A d \in Devices : /\ obj[d].curr # {} => obj[d].state = "Clean"
                       /\ disk[d].curr # {} => disk[d].state = "Clean"

(* A writer never asks for the message it currently stands on to be deleted. *)
CurrentNotObsolete == \A d \in Writers : obj[d].curr \cap obj[d].old = {}

(* A clean config that is not the empty one has its data on the server: the  *)
(* message its hash names was stored, and holds the same data.              *)
CleanDataStored ==
    \A d \in Devices : obj[d].state = "Clean" /\ obj[d].conf.seqno # 0 =>
        \E m \in Parsed(obj[d].curr \cap stored) : m.data = obj[d].conf.data

(* What a reader shows was published: its data is that of a message the       *)
(* swarm held, never a merge of its own making.                             *)
ReaderDataStored ==
    \A d \in Readers : obj[d].conf.seqno # 0 =>
        \E m \in Parsed(stored) : ContentOf(m) = obj[d].conf

(* When needs_dump() is false a restart loses nothing: the last dump has the *)
(* state, the data and the storage hashes of the live object.               *)
NeedsDumpSound ==
    \A d \in Devices : ~obj[d].needsDump =>
        /\ disk[d].state = obj[d].state
        /\ disk[d].conf.data = obj[d].conf.data
        /\ disk[d].curr = obj[d].curr

(* assert(curr_confs >= 1): whatever a poll delivers, some message survives  *)
(* the pruning of redundant and old ones.                                   *)
SomeConfKept ==
    \A d \in Devices, mine \in UNION {Hash(Serialize(obj[e])) : e \in Devices},
       batch \in Batches :
        mine \in Hash(Serialize(obj[d])) /\ batch \in Seq(Readable) =>
          LET slots == Slots(AllConfs(obj[d], mine, Received(batch)))
          IN  slots # {} => Kept(slots) # {}

(* The deletes that go with a push never lose a change: every diff that a    *)
(* message stored so far makes or carries is also in a message the swarm    *)
(* still holds, unless it is too old for one of those.  An application that *)
(* deletes what old_hashes() lists as well (CleanupStates) can lose one.    *)
NoChangeLost ==
    \A m \in Parsed(stored) : \A e \in Holdings(m) : e.diff # NoDiff =>
        \E n \in Held : \/ \E x \in Holdings(n) : SeqnoHash(x) = SeqnoHash(e)
                        \/ e.seqno + Lag <= n.seqno

(* Devices with nothing left to push, and nothing left to learn from what    *)
(* the swarm holds, agree on the data, as long as deletes go with pushes.    *)
Settled(d) ==
    /\ obj[d].state = "Clean"
    /\ \A mine \in Hash(Serialize(obj[d])), batch \in Orders(swarm) :
        MergeIncoming(obj[d], mine, Received(batch), d \in Readers).conf = obj[d].conf
SettledAgree ==
    (requests = {} /\ \A d \in Writers : Settled(d)) =>
        \A d, e \in Writers : obj[d].conf.data = obj[e].conf.data

(* Until the process restarts, its config never moves back to an earlier     *)
(* seqno.                                                                   *)
SeqnoNeverBack ==
    [][spent'.restarts = spent.restarts =>
        \A d \in Devices : obj'[d].conf.seqno >= obj[d].conf.seqno]_vars

(* Once the users stop editing, all devices end up clean with the same data. *)
Converges ==
    <>[](\A d, e \in Devices : /\ obj[d].state = "Clean"
                               /\ obj[d].conf.data = obj[e].conf.data)

=============================================================================
