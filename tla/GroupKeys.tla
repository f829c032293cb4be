-------------------------------- MODULE GroupKeys --------------------------------
(***************************************************************************)
(* The encryption keys of a group (groups/keys.cpp).  Admins issue new     *)
(* keys, one generation after the other, as signed messages that every     *)
(* member finds its own copy of the key in; new members get the existing   *)
(* keys in a supplement.  Each device keeps the keys it has decrypted, the  *)
(* hashes of the messages to keep alive for them, and, for an admin, the   *)
(* key it has issued and not yet seen in the swarm.                        *)
(*                                                                         *)
(* A key is derived from the generation and the member list, so here it is  *)
(* its generation with the set of members; the order of key bytes is Rank.  *)
(* A message's storage hash is the message, as everything in it is          *)
(* deterministic.  Messages that do not parse or verify throw before        *)
(* anything is changed and are left out.                                   *)
(***************************************************************************)
EXTENDS Integers, FiniteSets

CONSTANTS
    Users,          \* the accounts
    Devices,        \* those whose devices are modelled
    Admins,         \* those that have the group's secret key from the start
    Promotable,     \* those that may be given it later
    Founder,        \* the admin that creates the group
    MemberLists,    \* what the Members config may hold
    Rank,           \* the order of the bytes of the keys of one generation
    KeyExpiry,      \* KEY_EXPIRY
    MaxRekeys, MaxSupplements, MaxClock, MaxDumps, MaxRestarts
                    \* bounds on the environment

ASSUME UsersAssumption ==
    /\ Devices \subseteq Users /\ MemberLists \subseteq SUBSET Users
    /\ Admins \subseteq Devices /\ Promotable \subseteq Devices /\ Founder \in Admins
ASSUME RankAssumption ==
    /\ Rank \in [SUBSET Users -> Nat]
    /\ \A v, w \in SUBSET Users : Rank[v] = Rank[w] => v = w
ASSUME ExpiryAssumption == KeyExpiry \in Nat
ASSUME ClockAssumption == MaxClock \in Nat

VARIABLES
    obj,        \* the Keys object of each user
    loading,    \* the supplement it is in the middle of
    disk,       \* its last dump
    admin,      \* admin(): does it have the secret key?
    swarm,      \* messages stored, with the time of storage
    clock,      \* the time of the latest storage
    spent       \* how much of the environment's bounds is used up

vars == <<obj, loading, disk, admin, swarm, clock, spent>>

KeyInfo == [generation : Nat, timestamp : Nat, key : SUBSET Users]
FiniteSubsets(S) == {T \in SUBSET S : IsFiniteSet(T)}

(* Full messages have one key, for those in it; supplements have the keys of  *)
(* their author, for the users they are sent to.                            *)
Full == [generation : Nat, key : SUBSET Users]
Supplement == [generation : Nat, keys : FiniteSubsets(KeyInfo), to : SUBSET Users]
Message == Full \cup Supplement
IsFull(m) == "key" \in DOMAIN m

KeysObject ==
    [keys : FiniteSubsets(KeyInfo),     \* keys_, in the order of Before
     active : SUBSET (Nat \X Message),  \* active_msgs_
     pending : SUBSET Full,             \* pending_key_config_, pending_gen_, pending_key_
     needsDump : BOOLEAN,               \* needs_dump_
     listed : [keys : SUBSET KeyInfo, pending : SUBSET Full],
                                        \* what replace_keys() gave to Info and Members
     decrypted : SUBSET KeyInfo]        \* history: all the keys it ever decrypted

Idle == [msg |-> {}, left |-> {}]
DumpRecord ==
    [keys : FiniteSubsets(KeyInfo), active : SUBSET (Nat \X Message),
     pending : SUBSET Full, decrypted : SUBSET KeyInfo]

TypeOK ==
    /\ obj \in [Devices -> KeysObject]
    /\ loading \in [Devices -> [msg : SUBSET Supplement, left : FiniteSubsets(KeyInfo)]]
    /\ disk \in [Devices -> DumpRecord]
    /\ admin \in [Devices -> BOOLEAN]
    /\ swarm \subseteq [msg : Message, at : Nat]
    /\ clock \in Nat
    /\ spent \in [rekeys : Nat, supplements : Nat, dumps : Nat, restarts : Nat]

FreshKeys ==
    [keys |-> {}, active |-> {}, pending |-> {}, needsDump |-> FALSE,
     listed |-> [keys |-> {}, pending |-> {}], decrypted |-> {}]

Init ==
    /\ obj = [d \in Devices |-> FreshKeys]
    /\ loading = [d \in Devices |-> Idle]
    /\ disk = [d \in Devices |-> [keys |-> {}, active |-> {}, pending |-> {}, decrypted |-> {}]]
    /\ admin = [d \in Devices |-> d \in Admins]
    /\ swarm = {}
    /\ clock = 0
    /\ spent = [rekeys |-> 0, supplements |-> 0, dumps |-> 0, restarts |-> 0]

-----------------------------------------------------------------------------
(* key_info::operator< *)
Before(a, b) ==
    \/ a.generation < b.generation
    \/ a.generation = b.generation /\ a.timestamp < b.timestamp
    \/ /\ a.generation = b.generation /\ a.timestamp = b.timestamp
       /\ Rank[a.key] < Rank[b.key]

Front(keys) == CHOOSE k \in keys : \A j \in keys : ~Before(j, k)
Back(keys) == CHOOSE k \in keys : \A j \in keys : ~Before(k, j)

(* Mutant: one key per generation. *)
MutSameKey(a, b) == a.generation = b.generation

(* The same key, whenever it was stored. *)
SameKey(a, b) == a.generation = b.generation /\ a.key = b.key

(* Mutant: any newer key supersedes. *)
MutSuperseded(keys, g) ==
    \E k \in keys : k.generation = g /\ k.timestamp < Back(keys).timestamp

(* Something more than KEY_EXPIRY newer than the first key of a generation    *)
(* exists: what came before that generation is no longer needed.            *)
Superseded(keys, g) ==
    \E k \in keys : k.generation = g /\ k.timestamp + KeyExpiry < Back(keys).timestamp

(* Mutant: a superseded generation lapses itself. *)
MutLapsed(keys, k) ==
    \E h \in keys :
        /\ h.generation >= k.generation
        /\ \A j \in keys :
            (j.generation > Front(keys).generation /\ j.generation <= h.generation)
                => Superseded(keys, j.generation)

(* remove_expired(): the walk from the oldest generation goes on as long as  *)
(* the next generation is superseded itself.                                *)
Lapsed(keys, k) ==
    \E h \in keys :
        /\ h.generation > k.generation
        /\ \A j \in keys :
            (j.generation > Front(keys).generation /\ j.generation <= h.generation)
                => Superseded(keys, j.generation)
Unexpired(keys) == {k \in keys : ~Lapsed(keys, k)}

(* Mutant: upper_bound for lower_bound. *)
MutStillActive(keys, active) ==
    IF keys = {} THEN {} ELSE {a \in active : a[1] > Front(keys).generation}

(* Messages of generations that are gone need not be kept alive. *)
StillActive(keys, active) ==
    IF keys = {} THEN {} ELSE {a \in active : a[1] >= Front(keys).generation}
RemoveExpired(o) ==
    LET keys == Unexpired(o.keys)
    IN  [o EXCEPT !.keys = keys, !.active = StillActive(keys, @)]

(* insert_key *)
Stale(keys, new) ==
    /\ Cardinality(keys) >= 2
    /\ new.generation < Front(keys).generation
    /\ Front(keys).timestamp + KeyExpiry < Back(keys).timestamp

(* Mutant: expired keys are left for the next message to remove. *)
MutInsertKey(o, m, new) ==
    LET marked == [o EXCEPT !.active = @ \cup {<<new.generation, m>>},
                            !.decrypted = @ \cup {new}]
    IN  IF \E k \in o.keys : SameKey(k, new) THEN marked
        ELSE IF Stale(o.keys, new) THEN [o EXCEPT !.decrypted = @ \cup {new}]
        ELSE [marked EXCEPT !.keys = @ \cup {new}, !.needsDump = TRUE]

InsertKey(o, m, new) ==
    LET marked == [o EXCEPT !.active = @ \cup {<<new.generation, m>>},
                            !.decrypted = @ \cup {new}]
    IN  IF \E k \in o.keys : SameKey(k, new) THEN marked
        ELSE IF Stale(o.keys, new) THEN [o EXCEPT !.decrypted = @ \cup {new}]
        ELSE RemoveExpired([marked EXCEPT !.keys = @ \cup {new}, !.needsDump = TRUE])

(* The lists that group_keys() is made from go to the Info and Members configs. *)
ReplaceKeys(o) == [o EXCEPT !.listed = [keys |-> o.keys, pending |-> o.pending]]

(* Mutant: only the pending key itself ends its being pending. *)
MutDropPending(o, new) ==
    IF \E p \in o.pending : SameKey(new, p)
    THEN [o EXCEPT !.pending = {}, !.needsDump = TRUE]
    ELSE o

(* A pending key, which only an admin has, is dropped when it, or a key of a   *)
(* later generation, arrives.                                               *)
DropPending(o, new) ==
    IF \E p \in o.pending : new.generation > p.generation \/ SameKey(new, p)
    THEN [o EXCEPT !.pending = {}, !.needsDump = TRUE]
    ELSE o

(* No key for us: the message is kept alive for the others. *)
KeepForOthers(o, m) ==
    RemoveExpired([o EXCEPT !.active = @ \cup {<<m.generation, m>>}, !.needsDump = TRUE])

CanOpen(d, m) == IF IsFull(m) THEN admin[d] \/ d \in m.key ELSE ~admin[d] /\ d \in m.to
IsIdle(d) == loading[d] = Idle

(* load_key_message() of a full message. *)
LoadFull(d, s) ==
    LET new == [generation |-> s.msg.generation, timestamp |-> s.at, key |-> s.msg.key]
    IN  /\ IsIdle(d) /\ IsFull(s.msg)
        /\ obj' = [obj EXCEPT ![d] =
                IF CanOpen(d, s.msg)
                THEN ReplaceKeys(InsertKey(DropPending(@, new), s.msg, new))
                ELSE KeepForOthers(@, s.msg)]
        /\ UNCHANGED <<loading, disk, admin, swarm, clock, spent>>

(* load_key_message() of a supplement: its keys are inserted one by one. *)
LoadForeignSupplement(d, s) ==
    /\ IsIdle(d) /\ ~IsFull(s.msg) /\ ~CanOpen(d, s.msg)
    /\ obj' = [obj EXCEPT ![d] = KeepForOthers(@, s.msg)]
    /\ UNCHANGED <<loading, disk, admin, swarm, clock, spent>>
LoadSupplement(d, s) ==
    /\ IsIdle(d) /\ ~IsFull(s.msg) /\ CanOpen(d, s.msg)
    /\ loading' = [loading EXCEPT ![d] = [msg |-> {s.msg}, left |-> s.msg.keys]]
    /\ UNCHANGED <<obj, disk, admin, swarm, clock, spent>>
InsertNext(d) ==
    LET new == Front(loading[d].left)
        rest == loading[d].left \ {new}
    IN  /\ loading[d].left # {}
        /\ loading' = [loading EXCEPT ![d] = IF rest = {} THEN Idle ELSE [@ EXCEPT !.left = rest]]
        /\ \E m \in loading[d].msg :
            LET o == InsertKey(obj[d], m, new)
            IN  obj' = [obj EXCEPT ![d] = IF rest = {} THEN ReplaceKeys(o) ELSE o]
        /\ UNCHANGED <<disk, admin, swarm, clock, spent>>

(* needs_rekey() *)
NeedsRekey(d) ==
    /\ admin[d]
    /\ Cardinality(obj[d].keys) >= 2
    /\ \E k \in obj[d].keys : k # Back(obj[d].keys)
                              /\ k.generation = Back(obj[d].keys).generation

(* Mutant: counting starts before the first generation. *)
MutNextGeneration(keys) == IF keys = {} THEN -1 ELSE Back(keys).generation + 1

NextGeneration(keys) == IF keys = {} THEN 0 ELSE Back(keys).generation + 1

(* Mutant: the new key is not marked for saving. *)
MutNewPending(o, list) ==
    [o EXCEPT !.pending = {[generation |-> NextGeneration(o.keys), key |-> list]}]

(* The key rekey() makes, which waits to be seen in the swarm. *)
NewPending(o, list) ==
    [o EXCEPT !.pending = {[generation |-> NextGeneration(o.keys), key |-> list]},
              !.needsDump = TRUE]

(* rekey(): a brand new group has to be given a key; later a key is issued      *)
(* when needs_rekey() says so or members come and go, with the Members config *)
(* as it is at that time.                                                   *)
Rekey(d, list) ==
    /\ IsIdle(d) /\ admin[d]
    /\ obj[d].keys # {} \/ d = Founder
    /\ spent.rekeys < MaxRekeys
    /\ spent' = [spent EXCEPT !.rekeys = @ + 1]
    /\ obj' = [obj EXCEPT ![d] = ReplaceKeys(NewPending(@, list))]
    /\ UNCHANGED <<loading, disk, admin, swarm, clock>>

(* The swarm stores a message, once, no earlier than the one before. *)
IsStored(m) == \E s \in swarm : s.msg = m
Store(m, now) ==
    /\ now >= clock
    /\ swarm' = IF IsStored(m) THEN swarm ELSE swarm \cup {[msg |-> m, at |-> now]}
    /\ clock' = IF IsStored(m) THEN clock ELSE now

(* key_supplement(), and the application sends it.  Nobody looks at the time     *)
(* it is stored at: the keys in it have the times of their own messages.      *)
KeySupplement(d, to) ==
    /\ IsIdle(d) /\ admin[d] /\ obj[d].keys # {}
    /\ spent.supplements < MaxSupplements
    /\ spent' = [spent EXCEPT !.supplements = @ + 1]
    /\ Store([generation |-> Back(obj[d].keys).generation, keys |-> obj[d].keys, to |-> to], clock)
    /\ UNCHANGED <<obj, loading, disk, admin>>

(* The application sends pending_config(), sooner or later and perhaps again. *)
PushPending(d, now) ==
    /\ IsIdle(d)
    /\ \E p \in obj[d].pending : Store(p, now)
    /\ UNCHANGED <<obj, loading, disk, admin, spent>>

(* load_admin_key(): a member accepts its promotion. *)
LoadAdminKey(d) ==
    /\ IsIdle(d) /\ d \in Promotable /\ ~admin[d]
    /\ admin' = [admin EXCEPT ![d] = TRUE]
    /\ UNCHANGED <<obj, loading, disk, swarm, clock, spent>>

Dump(d) ==
    /\ IsIdle(d) /\ obj[d].needsDump
    /\ spent.dumps < MaxDumps
    /\ spent' = [spent EXCEPT !.dumps = @ + 1]
    /\ disk' = [disk EXCEPT ![d] =
            [keys |-> obj[d].keys, active |-> obj[d].active, pending |-> obj[d].pending,
             decrypted |-> obj[d].decrypted]]
    /\ obj' = [obj EXCEPT ![d].needsDump = FALSE]
    /\ UNCHANGED <<loading, admin, swarm, clock>>

(* The process dies, in the middle of a supplement or not, and the constructor  *)
(* loads the last dump.                                                     *)
LoadDump(s) ==
    [keys |-> s.keys, active |-> s.active, pending |-> s.pending, needsDump |-> FALSE,
     listed |-> [keys |-> s.keys, pending |-> s.pending], decrypted |-> s.decrypted]
Restart(d) ==
    /\ spent.restarts < MaxRestarts
    /\ spent' = [spent EXCEPT !.restarts = @ + 1]
    /\ obj' = [obj EXCEPT ![d] = LoadDump(disk[d])]
    /\ loading' = [loading EXCEPT ![d] = Idle]
    /\ UNCHANGED <<disk, admin, swarm, clock>>

Load(d) ==
    \E s \in swarm : LoadFull(d, s) \/ LoadForeignSupplement(d, s) \/ LoadSupplement(d, s)
Next ==
    \E d \in Devices :
        \/ Load(d) \/ InsertNext(d) \/ LoadAdminKey(d) \/ Dump(d) \/ Restart(d)
        \/ \E list \in MemberLists : Rekey(d, list)
        \/ \E now \in 0..MaxClock : PushPending(d, now)
        \/ \E u \in Devices \ {d} : KeySupplement(d, {u})

Spec == Init /\ [][Next]_vars

-----------------------------------------------------------------------------
(* In whatever order messages are loaded, no device holds on to an older        *)
(* generation once it has decrypted a newer one: all who have read the same     *)
(* messages encrypt with the same key.                                      *)
NewestKept ==
    \A d \in Devices : \A k \in obj[d].decrypted :
        obj[d].keys # {} /\ ~Before(Back(obj[d].keys), k)

(* A key is given up only when a later generation was itself stored more than   *)
(* KEY_EXPIRY before something newer, whatever order the messages came in.    *)
DroppedWereSuperseded ==
    \A d \in Devices : \A k \in obj[d].decrypted \ obj[d].keys :
        \E a, b \in obj[d].decrypted :
            a.generation > k.generation /\ a.timestamp + KeyExpiry < b.timestamp

(* For every key a device holds, a message it came in is among those the       *)
(* device keeps alive for others: expiry of old keys and of the hashes that   *)
(* go with them stay in step.                                               *)
Carries(m, k) == IF IsFull(m) THEN SameKey(m, k) ELSE k \in m.keys
HeldKeptAlive ==
    \A d \in Devices : \A k \in obj[d].keys :
        \E a \in obj[d].active : a[1] = k.generation /\ Carries(a[2], k)

(* When needs_dump() is false a restart loses no key, neither a loaded one nor  *)
(* one that has been issued and not seen in the swarm.                      *)
KeysSaved ==
    \A d \in Devices : IsIdle(d) /\ ~obj[d].needsDump =>
        disk[d].keys = obj[d].keys /\ disk[d].pending = obj[d].pending

(* Between calls the Info and Members configs have the keys this object has,   *)
(* although a message without a key for the device runs remove_expired() and  *)
(* does not hand the keys on.                                               *)
ListedCurrent ==
    \A d \in Devices : IsIdle(d) =>
        obj[d].listed = [keys |-> obj[d].keys, pending |-> obj[d].pending]

(* Two keys of the newest generation that an admin has read are noticed as a   *)
(* collision that calls for a new key; expiry hides none of them.           *)
CollisionNoticed ==
    \A d \in Devices : \A j, k \in obj[d].decrypted :
        (/\ admin[d] /\ j.generation = k.generation /\ j.key # k.key
         /\ \A i \in obj[d].decrypted : i.generation <= k.generation)
            => NeedsRekey(d)

(* An admin never encrypts with a key of its own making when it has a key of a  *)
(* later generation, or the same key from the swarm: it is dropped by then.  *)
PendingNotBehind ==
    \A d \in Devices : \A p \in obj[d].pending, k \in obj[d].keys :
        k.generation <= p.generation /\ ~SameKey(k, p)
=============================================================================
