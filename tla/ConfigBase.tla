------------------------------- MODULE ConfigBase -------------------------------
(***************************************************************************)
(* The config object of src/config/base.cpp as operators on its state: the *)
(* wrapped config message, the Clean/Dirty/Waiting state and the storage   *)
(* hashes of the message(s) it stands for and of those it has obsoleted.   *)
(* ConfigSync runs several of these objects against one storage swarm.     *)
(***************************************************************************)
EXTENDS ConfigMessage

CONSTANTS
    Aliens      \* storage hashes of messages this version cannot parse

States == {"Clean", "Dirty", "Waiting"}

(* A storage hash: one per message content, since encryption is            *)
(* deterministic and the server de-duplicates.                             *)
Storage == (Nat \X Nat) \cup Aliens

ConfigObject ==
    [state : States,            \* _state
     conf : Content,            \* _config (conf.diff is stale while Dirty)
     orig : Data,               \* MutableConfigMessage::orig_data_
     curr : SUBSET Storage,     \* _curr_hashes
     old : SUBSET Storage,      \* _old_hashes
     needsDump : BOOLEAN]       \* _needs_dump

DumpRecord ==
    [state : States, conf : Content, curr : SUBSET Storage, old : SUBSET Storage]

(* A config object made without a dump. *)
FreshObject ==
    [state |-> "Clean", conf |-> EmptyContent, orig |-> EmptyData,
     curr |-> {}, old |-> {}, needsDump |-> FALSE]

(* _config->serialize(): computes the diff of a config that is being edited *)
(* and writes only the lagged diffs inside the window.                      *)
Serialize(o) ==
    [seqno |-> o.conf.seqno, data |-> o.conf.data,
     diff |-> IF o.state = "Dirty" THEN Diff(o.orig, o.conf.data) ELSE o.conf.diff,
     lagged |-> Window(o.conf.seqno, o.conf.lagged)]

(* Mutant: a push that was sent is taken for done. *)
MutNeedsPushOnce(o) == o.state = "Dirty"

(* needs_push() *)
NeedsPush(o) == o.state # "Clean"

(* Mutants: the change is not marked for saving; the hashes are copied to    *)
(* the obsolete ones without being cleared.                                 *)
MutSetStateNoDump(o, s) ==
    [o EXCEPT !.state = s,
              !.curr = IF o.state = "Clean" THEN {} ELSE @,
              !.old = IF o.state = "Clean" THEN @ \cup o.curr ELSE @]
MutSetStateCopies(o, s) ==
    [o EXCEPT !.state = s,
              !.old = IF o.state = "Clean" THEN @ \cup o.curr ELSE @,
              !.needsDump = TRUE]

(* set_state(s), for an object that may be changed. *)
SetState(o, s) ==
    [o EXCEPT !.state = s,
              !.curr = IF o.state = "Clean" THEN {} ELSE @,
              !.old = IF o.state = "Clean" THEN @ \cup o.curr ELSE @,
              !.needsDump = TRUE]

(* dirty(): `mine` is the object's message with its hash. *)
MakeDirty(o, mine) ==
    IF o.state = "Dirty" THEN [o EXCEPT !.needsDump = TRUE]
    ELSE [SetState(o, "Dirty") EXCEPT !.conf = Increment(mine), !.orig = mine.data]

(* A setter of a config type: assigns or erases one key (v = Absent). *)
SetField(o, mine, k, v) ==
    LET d == MakeDirty(o, mine) IN [d EXCEPT !.conf.data[k] = v]

-----------------------------------------------------------------------------
(* _merge *)

(* Mutant: a config without local changes takes no part in the merge. *)
MutHasOwnDirty(o) == o.state = "Dirty"

(* Our own config takes part unless it is the default-constructed one. *)
HasOwn(o) == o.conf.seqno # 0 \/ o.state = "Dirty"
OwnFirst(o) == HasOwn(o) /\ o.curr # {}

(* The vector handed to the merging constructor, with the storage hashes of   *)
(* each element (all_hashes): our own config goes first when its hash is      *)
(* known, last when it is not.                                              *)
OwnConf(o, mine) == [hashes |-> o.curr, parsed |-> {mine}]
AllConfs(o, mine, incoming) ==
    IF OwnFirst(o) THEN <<OwnConf(o, mine)>> \o incoming
    ELSE IF HasOwn(o) THEN Append(incoming, OwnConf(o, mine))
    ELSE incoming

(* Mutant: the adopted message is marked obsolete as well. *)
MutObsoletedAdopted(confs, super) ==
    UNION {confs[i].hashes : i \in {j \in DOMAIN confs : confs[j].parsed # {}}}

(* Every message handed to us is obsolete except the one named as adopted    *)
(* (super: none after a merge) and those that failed to parse.              *)
Obsoleted(confs, super) ==
    UNION {confs[i].hashes :
            i \in {j \in DOMAIN confs : confs[j].parsed # {} /\ confs[j].hashes # super}}

(* More than one message was kept: the merge is a new config to be pushed. *)
AdoptMerge(o, confs) ==
    LET merged == MergeContent(Slots(confs))
        marked == [o EXCEPT !.old = @ \cup Obsoleted(confs, {})]
    IN  [SetState(marked, "Dirty") EXCEPT
            !.conf = merged,
            !.orig = IF o.state = "Dirty" THEN merged.data ELSE EmptyData]

(* superconf_hashes and superconf_is_mine: unmerged_index() used as an index   *)
(* into the whole vector.                                                   *)
SuperconfHashes(confs) == confs[UnmergedIndex(confs)].hashes
SuperconfIsMine(o, confs) ==
    UnmergedIndex(confs) = IF HasOwn(o) /\ ~OwnFirst(o) THEN Len(confs) ELSE 1

(* Mutants: a superset one seqno ahead is never adopted; adopting puts the    *)
(* increment that only dirty configs need on everyone.                      *)
MutAdoptSuperconfLate(o, confs) ==
    LET super == Superconf(Slots(confs)).msg
        new == IF o.state = "Dirty" THEN Increment(super) ELSE ContentOf(super)
        marked == [o EXCEPT !.old = @ \cup Obsoleted(confs, SuperconfHashes(confs))]
    IN  IF new.seqno <= o.conf.seqno + 1 THEN marked
        ELSE [SetState(marked, "Clean") EXCEPT
                !.conf = new, !.orig = new.data, !.curr = SuperconfHashes(confs)]
MutAdoptSuperconfIncrements(o, confs) ==
    LET super == Superconf(Slots(confs)).msg
        new == Increment(super)
        marked == [o EXCEPT !.old = @ \cup Obsoleted(confs, SuperconfHashes(confs))]
    IN  IF SuperconfIsMine(o, confs) THEN marked
        ELSE [SetState(marked, "Clean") EXCEPT
                !.conf = new, !.orig = new.data, !.curr = SuperconfHashes(confs)]

(* One message includes all the others.  While Dirty the new object is a    *)
(* MutableConfigMessage, whose constructor increments it.                   *)
AdoptSuperconf(o, confs) ==
    LET super == Superconf(Slots(confs)).msg
        new == IF o.state = "Dirty" THEN Increment(super) ELSE ContentOf(super)
        marked == [o EXCEPT !.old = @ \cup Obsoleted(confs, SuperconfHashes(confs))]
        keepOwn == \/ new.seqno = o.conf.seqno
                   \/ /\ o.state = "Dirty" /\ SuperconfIsMine(o, confs)
                      /\ new.seqno = o.conf.seqno + 1
    IN  IF keepOwn THEN marked
        ELSE [SetState(marked, "Clean") EXCEPT
                !.conf = new, !.orig = new.data, !.curr = SuperconfHashes(confs)]

(* Nothing parseable and nothing of our own: merge() returns or throws      *)
(* without having changed anything.                                         *)
MergeIncoming(o, mine, incoming, readonly) ==
    LET confs == AllConfs(o, mine, incoming)
        slots == Slots(confs)
    IN  IF slots = {} THEN o
        ELSE IF Unmerged(slots, readonly) THEN AdoptSuperconf(o, confs)
        ELSE AdoptMerge(o, confs)

-----------------------------------------------------------------------------
(* push(): the object after it; the message and obsolete hashes it returns  *)
(* are Serialize(o) and PushObsoletes(o, readonly).                         *)
AfterPush(o) ==
    LET sent == [o EXCEPT !.conf = [@ EXCEPT !.diff = Serialize(o).diff], !.old = {}]
    IN  IF o.state = "Dirty" THEN SetState(sent, "Waiting") ELSE sent
PushObsoletes(o, readonly) == IF readonly THEN {} ELSE o.old

(* Mutant: a confirmation counts whatever was pushed since. *)
MutConfirmPushedAny(o, seqno, hashes) ==
    IF o.state = "Waiting"
    THEN [SetState(o, "Clean") EXCEPT !.curr = hashes]
    ELSE o

(* confirm_pushed(seqno, hashes) *)
ConfirmPushed(o, seqno, hashes) ==
    IF o.state = "Waiting" /\ seqno = o.conf.seqno
    THEN [SetState(o, "Clean") EXCEPT !.curr = hashes]
    ELSE o

(* old_hashes(): returns o.old unless dirty, and forgets what it returned. *)
AfterOldHashes(o) == IF o.state = "Dirty" THEN o ELSE [o EXCEPT !.old = {}]

(* dump(): the object after it, and the record it writes. *)
AfterDump(o, readonly) ==
    [o EXCEPT !.needsDump = FALSE, !.old = IF readonly THEN {} ELSE @]
MakeDump(o, readonly) ==
    [state |-> o.state, conf |-> Serialize(o), curr |-> o.curr,
     old |-> IF readonly THEN {} ELSE o.old]

(* init(dump): dirty data comes back one seqno on; `saved` is the dumped    *)
(* message with its hash.                                                   *)
LoadDump(d, saved) ==
    LET conf == IF d.state = "Dirty" THEN Increment(saved) ELSE ContentOf(saved)
    IN  [state |-> d.state, conf |-> conf, orig |-> conf.data,
         curr |-> d.curr, old |-> d.old, needsDump |-> FALSE]
=============================================================================
