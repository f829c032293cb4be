-------------------------------- MODULE Multipart --------------------------------
(***************************************************************************)
(* Reassembly of large config messages (base.cpp, _handle_multipart and    *)
(* the functions around it).  push() splits a message that exceeds the     *)
(* storage server's limit; merge() collects the parts, over several calls  *)
(* and restarts if need be, and passes on the recombined message as if it  *)
(* had arrived whole.                                                      *)
(*                                                                         *)
(* A set of parts is named by the hash of the whole message.  Of a part's  *)
(* data only this is kept: is it the chunk that was split off, or not.     *)
(***************************************************************************)
EXTENDS Integers, Sequences, FiniteSets

CONSTANTS
    Sets,           \* the large messages, by final hash
    NumParts,       \* how many parts each was split into
    Undecodable,    \* those whose recombined data does not decompress to a config
    Wire,           \* the parts that polls may deliver
    MaxWait,        \* MULTIPART_MAX_WAIT
    MaxRemember,    \* MULTIPART_MAX_REMEMBER
    MaxBatch, MaxClock, MaxDumps, MaxRestarts
                    \* bounds on the environment

Part == [set : Sets, index : Nat, size : Nat, genuine : BOOLEAN, id : Nat]

ASSUME NumPartsAssumption == NumParts \in [Sets -> Nat \ {0, 1}]
ASSUME UndecodableAssumption == Undecodable \subseteq Sets
ASSUME WireAssumption ==
    /\ Wire \subseteq Part
    /\ \A p \in Wire : p.genuine => p.size = NumParts[p.set]
ASSUME TimesAssumption == MaxWait \in Nat /\ MaxRemember \in Nat

VARIABLES
    multiparts,     \* _multiparts, total: a missing key is the Blank entry
    needsDump,      \* _needs_dump, as far as the parts are concerned
    batch,          \* what the merge() call under way has still to look at
    good,           \* good_hashes: the parts it has accepted
    merging,        \* is a merge() call under way?
    disk,           \* the multipart section of the last dump
    clock,
    history,        \* the sets passed on so far: when, by which process, from what
    spent           \* dumps and restarts so far

vars == <<multiparts, needsDump, batch, good, merging, disk, clock, history, spent>>

Entry == [done : BOOLEAN, size : Nat, parts : SUBSET Wire, expiry : Nat]
Completion == [set : Sets, at : Nat, run : Nat, parts : SUBSET Wire]

TypeOK ==
    /\ multiparts \in [Sets -> Entry]
    /\ needsDump \in BOOLEAN
    /\ batch \in Seq(Wire)
    /\ good \subseteq Wire
    /\ merging \in BOOLEAN
    /\ disk \in [Sets -> Entry]
    /\ clock \in Nat \ {0}
    /\ history \in Seq(Completion)
    /\ spent \in [dumps : Nat, restarts : Nat]

(* A default-constructed entry: its expiry is the epoch, long past. *)
Blank == [done |-> FALSE, size |-> 0, parts |-> {}, expiry |-> 0]

Init ==
    /\ multiparts = [s \in Sets |-> Blank]
    /\ needsDump = FALSE
    /\ batch = <<>> /\ good = {} /\ merging = FALSE
    /\ disk = [s \in Sets |-> Blank]
    /\ clock = 1
    /\ history = <<>>
    /\ spent = [dumps |-> 0, restarts |-> 0]

-----------------------------------------------------------------------------
(* Mutants: a finished set is remembered only as long as an unfinished one; it *)
(* gets a size that the dump format has no room for.                        *)
MutFinishWait(now) == [done |-> TRUE, size |-> 0, parts |-> {}, expiry |-> now + MaxWait]
MutFinishSentinel(now) ==
    [done |-> TRUE, size |-> -1, parts |-> {}, expiry |-> now + MaxRemember]

(* PartialMessages::finish() *)
Finish(now) == [done |-> TRUE, size |-> 0, parts |-> {}, expiry |-> now + MaxRemember]

(* _expire_multiparts() *)
Expire(entries) ==
    [s \in Sets |-> IF entries[s].expiry < clock THEN Blank ELSE entries[s]]

(* Does the numbering make sense, and fit what is known of the set? *)
Malformed(p) == p.size <= 1 \/ p.index >= p.size
Mismatched(e, p) == e.parts # {} /\ p.size # e.size

(* Mutant: any part at or after the place of the new one is taken for it. *)
MutSeenAfter(e, p) == \E q \in e.parts : q.index >= p.index

(* A part with this number is already in the list. *)
Seen(e, p) == \E q \in e.parts : q.index = p.index

(* Mutant: the part numbered like the size counts as the last one. *)
MutCompletesLate(e, p) == Cardinality(e.parts \cup {p}) > p.size

(* The part is the last one missing. *)
Completes(e, p) == Cardinality(e.parts \cup {p}) = p.size

(* Mutant: the final hash is not compared. *)
MutHashMatchesAny(parts) == TRUE

(* The hash of the recombined data is the one the parts announce. *)
HashMatches(parts) == \A p \in parts : p.genuine

(* The entry with one more part. *)
WithPart(e, p, expiry) ==
    [done |-> FALSE, size |-> p.size, parts |-> e.parts \cup {p}, expiry |-> expiry]

(* The part being handled, and the entry it belongs to. *)
Current == Head(batch)
EntryOf(p) == multiparts[p.set]
Handled(accepted) ==
    /\ batch' = Tail(batch)
    /\ good' = IF accepted THEN good \cup {Current} ELSE good
    /\ UNCHANGED <<merging, disk, clock, spent>>

(* merge() is called with what a poll returned. *)
StartMerge(parts) ==
    /\ ~merging
    /\ parts # <<>>
    /\ merging' = TRUE
    /\ batch' = parts
    /\ UNCHANGED <<multiparts, needsDump, good, disk, clock, history, spent>>

(* The part is invalid, or contradicts those before it. *)
RejectPart ==
    /\ batch # <<>>
    /\ \/ Malformed(Current)
       \/ ~EntryOf(Current).done /\ Mismatched(EntryOf(Current), Current)
    /\ Handled(FALSE)
    /\ UNCHANGED <<multiparts, needsDump, history>>

(* The part belongs to a finished set, or is already there. *)
IgnorePart ==
    /\ batch # <<>> /\ ~Malformed(Current)
    /\ \/ EntryOf(Current).done
       \/ /\ ~Mismatched(EntryOf(Current), Current)
          /\ Seen(EntryOf(Current), Current)
    /\ Handled(TRUE)
    /\ UNCHANGED <<multiparts, needsDump, history>>

NewPart ==
    /\ batch # <<>> /\ ~Malformed(Current)
    /\ ~EntryOf(Current).done
    /\ ~Mismatched(EntryOf(Current), Current)
    /\ ~Seen(EntryOf(Current), Current)

(* Mutant: a part that is kept for later is not saved. *)
MutStorePartUnsaved ==
    /\ NewPart
    /\ ~Completes(EntryOf(Current), Current)
    /\ multiparts' = [multiparts EXCEPT ![Current.set] =
            WithPart(EntryOf(Current), Current, clock + MaxWait)]
    /\ Handled(TRUE)
    /\ UNCHANGED <<needsDump, history>>

(* The part is kept until the others arrive. *)
StorePart ==
    /\ NewPart
    /\ ~Completes(EntryOf(Current), Current)
    /\ multiparts' = [multiparts EXCEPT ![Current.set] =
            WithPart(EntryOf(Current), Current, clock + MaxWait)]
    /\ needsDump' = TRUE
    /\ Handled(TRUE)
    /\ UNCHANGED history

(* The last part has come but the whole is not what was split: it stays. *)
KeepMismatch ==
    /\ NewPart
    /\ Completes(EntryOf(Current), Current)
    /\ ~HashMatches(EntryOf(Current).parts \cup {Current})
    /\ multiparts' = [multiparts EXCEPT ![Current.set] =
            WithPart(EntryOf(Current), Current, EntryOf(Current).expiry)]
    /\ needsDump' = TRUE
    /\ Handled(FALSE)
    /\ UNCHANGED history

(* The set is finished; what decodes to a config is passed on. *)
CompletePart ==
    /\ NewPart
    /\ Completes(EntryOf(Current), Current)
    /\ HashMatches(EntryOf(Current).parts \cup {Current})
    /\ multiparts' = [multiparts EXCEPT ![Current.set] = Finish(clock)]
    /\ needsDump' = TRUE
    /\ Handled(Current.set \notin Undecodable)
    /\ history' = IF Current.set \in Undecodable THEN history
                  ELSE Append(history,
                        [set |-> Current.set, at |-> clock, run |-> spent.restarts,
                         parts |-> EntryOf(Current).parts \cup {Current}])

(* merge() has looked at everything: it drops what has expired and returns   *)
(* the good hashes.                                                         *)
FinishMerge ==
    /\ merging /\ batch = <<>>
    /\ merging' = FALSE
    /\ multiparts' = Expire(multiparts)
    /\ good' = {}
    /\ UNCHANGED <<needsDump, batch, disk, clock, history, spent>>

(* push() of a large message of our own: its set is finished from the start. *)
(* Only the first push of a change marks the object for saving.             *)
PushLarge(s, dirty) ==
    /\ ~merging
    /\ multiparts' = [multiparts EXCEPT ![s] = Finish(clock)]
    /\ needsDump' = (needsDump \/ dirty)
    /\ UNCHANGED <<batch, good, merging, disk, clock, history, spent>>

(* _dump_multiparts and _load_multiparts: what is written of an entry, and   *)
(* what comes back.                                                         *)
Saved(e) == IF e.done THEN [e EXCEPT !.size = 0, !.parts = {}] ELSE e
Loaded(e) ==
    IF e.expiry < clock THEN Blank
    ELSE [done |-> FALSE, size |-> IF e.done THEN 0 ELSE e.size,
          parts |-> IF e.done THEN {} ELSE e.parts, expiry |-> e.expiry]

Dump ==
    /\ ~merging /\ needsDump
    /\ spent.dumps < MaxDumps
    /\ spent' = [spent EXCEPT !.dumps = @ + 1]
    /\ multiparts' = Expire(multiparts)
    /\ disk' = [s \in Sets |-> Saved(Expire(multiparts)[s])]
    /\ needsDump' = FALSE
    /\ UNCHANGED <<batch, good, merging, clock, history>>

(* The process dies, in the middle of a merge or not, and starts again. *)
Restart ==
    /\ spent.restarts < MaxRestarts
    /\ spent' = [spent EXCEPT !.restarts = @ + 1]
    /\ multiparts' = [s \in Sets |-> Loaded(disk[s])]
    /\ needsDump' = FALSE
    /\ merging' = FALSE /\ batch' = <<>> /\ good' = {}
    /\ UNCHANGED <<disk, clock, history>>

Tick ==
    /\ clock < MaxClock
    /\ clock' = clock + 1
    /\ UNCHANGED <<multiparts, needsDump, batch, good, merging, disk, history, spent>>

Batches == UNION {[1..n -> Wire] : n \in 1..MaxBatch}

Next ==
    \/ \E parts \in Batches : StartMerge(parts)
    \/ RejectPart \/ IgnorePart \/ StorePart \/ KeepMismatch \/ CompletePart
    \/ FinishMerge
    \/ \E s \in Sets \ Undecodable, dirty \in BOOLEAN : PushLarge(s, dirty)
    \/ Dump \/ Restart \/ Tick

Spec == Init /\ [][Next]_vars

-----------------------------------------------------------------------------
Complete(s, parts) ==
    /\ \A p \in parts : p.set = s /\ p.genuine
    /\ {p.index : p \in parts} = 0..(NumParts[s] - 1)

(* What is passed on is the message that was split: every chunk of it, each  *)
(* once, and nothing else, in whatever order and calls the parts came.      *)
PassedOnWhole ==
    \A i \in DOMAIN history :
        /\ Complete(history[i].set, history[i].parts)
        /\ \A p, q \in history[i].parts : p.index = q.index => p = q

(* No set waits although all of its chunks are there. *)
NoneOverlooked ==
    \A s \in Sets : ~multiparts[s].done => ~Complete(s, multiparts[s].parts)

(* While a process remembers a finished set it does not pass it on again,    *)
(* however often its parts are delivered.                                   *)
PassedOnOnce ==
    \A i, j \in DOMAIN history :
        i < j /\ history[i].set = history[j].set /\ history[i].run = history[j].run
            => history[i].at + MaxRemember < history[j].at

(* Every part that merge() reports as good is used: it, or a part with its   *)
(* number, is held, or its set is finished.                                 *)
GoodIsUsed ==
    \A p \in good : \/ multiparts[p.set].done
                    \/ \E q \in multiparts[p.set].parts : q.index = p.index

(* When needs_dump() is false the dump has every part that is waited on, so  *)
(* a restart does not lose it.                                              *)
PendingSaved ==
    ~needsDump => \A s \in Sets :
        (~multiparts[s].done /\ multiparts[s].parts # {}) => disk[s] = multiparts[s]
=============================================================================
