----------------------------- MODULE ConfigMessage -----------------------------
(***************************************************************************)
(* The config message of src/config.cpp: a numbered, hashed snapshot of a  *)
(* config dict together with the diff that produced it and the "lagged"    *)
(* diffs of the updates it already includes.                               *)
(*                                                                         *)
(* The dict is flat here: every key holds a scalar or is missing (nested   *)
(* dicts and sets are the subject of ConfigDiff).  The BLAKE2b hash of a   *)
(* serialised message is a number handed out by an oracle (ConfigSync): it *)
(* is injective on contents, and its order is arbitrary.                   *)
(***************************************************************************)
EXTENDS Integers, FiniteSets, Sequences

CONSTANTS
    Keys,       \* the keys of the config dict
    Values,     \* the scalars a key can hold
    Absent,     \* stands for "the key is not in the dict"
    Lag         \* config_lags(): how many seqnos of diffs a message carries

ASSUME AbsentAssumption == Absent \notin Values
ASSUME LagAssumption == Lag \in Nat \ {0}

(* What one diff says of one key: "" (assigned), "-" (removed), or nothing. *)
Marks == {"untouched", "assigned", "removed"}

Data == [Keys -> Values \cup {Absent}]
Diffs == [Keys -> Marks]
LaggedDiff == [seqno : Nat, hash : Nat, diff : Diffs]

FiniteSubsets(S) == {T \in SUBSET S : IsFiniteSet(T)}

(* What a message says, and what a parsed one is: the content and its hash. *)
Content == [seqno : Nat, data : Data, diff : Diffs, lagged : FiniteSubsets(LaggedDiff)]
Message == [seqno : Nat, data : Data, diff : Diffs, lagged : FiniteSubsets(LaggedDiff),
            hash : Nat]

EmptyData == [k \in Keys |-> Absent]
NoDiff == [k \in Keys |-> "untouched"]

(* A default-constructed ConfigMessage: seqno 0 and nothing else. *)
EmptyContent == [seqno |-> 0, data |-> EmptyData, diff |-> NoDiff, lagged |-> {}]

ContentOf(m) == [seqno |-> m.seqno, data |-> m.data, diff |-> m.diff, lagged |-> m.lagged]
Hashed(c, h) == [seqno |-> c.seqno, data |-> c.data, diff |-> c.diff, lagged |-> c.lagged,
                 hash |-> h]

(***************************************************************************)
(* seqno_hash_t: messages and lagged diffs are identified by, and ordered  *)
(* by, the pair (seqno, hash).                                             *)
(***************************************************************************)
SeqnoHash(m) == <<m.seqno, m.hash>>
Before(a, b) == a.seqno < b.seqno \/ (a.seqno = b.seqno /\ a.hash < b.hash)

(* MutableConfigMessage::diff(): what changed between two dicts. *)
Diff(old, new) ==
    [k \in Keys |-> IF old[k] = new[k] THEN "untouched"
                    ELSE IF new[k] = Absent THEN "removed" ELSE "assigned"]

(* The lagged diffs that serialize_impl writes, and that parse_lagged_diffs *)
(* keeps, for a message numbered seqno.                                     *)
Window(seqno, lagged) == {e \in lagged : seqno - Lag < e.seqno /\ e.seqno < seqno}

(* The lagged-diff entry a message becomes once another one builds on it. *)
OwnEntry(m) == [seqno |-> m.seqno, hash |-> m.hash, diff |-> m.diff]

(* Mutants: the seqno goes the wrong way; the source's diff is not appended. *)
MutIncrementDown(m) ==
    [seqno |-> m.seqno - 1, data |-> m.data, diff |-> NoDiff,
     lagged |-> Window(m.seqno, m.lagged) \cup {OwnEntry(m)}]
MutIncrementForgets(m) ==
    [seqno |-> m.seqno + 1, data |-> m.data, diff |-> NoDiff,
     lagged |-> Window(m.seqno, m.lagged)]

(* increment_impl: the content that starts out as a copy of m, one seqno on. *)
Increment(m) ==
    [seqno |-> m.seqno + 1, data |-> m.data, diff |-> NoDiff,
     lagged |-> Window(m.seqno, m.lagged) \cup {OwnEntry(m)}]

-----------------------------------------------------------------------------
(***************************************************************************)
(* The merging constructor.  It is given a vector of serialised configs;   *)
(* `parsed` holds the message an element parses to, and is empty for an    *)
(* element that does not parse: the error handler notes it and it is       *)
(* skipped.  A slot is a parsed message with its place in the vector.      *)
(***************************************************************************)
Slots(confs) ==
    UNION {{[msg |-> m, position |-> i] : m \in confs[i].parsed} : i \in DOMAIN confs}

Includes(m, n) == \E e \in m.lagged : SeqnoHash(e) = SeqnoHash(n)

(* Mutant: of two copies of a message each makes the other redundant. *)
MutRedundantUnordered(s, slots) ==
    \E t \in slots \ {s} :
        Includes(t.msg, s.msg) \/ SeqnoHash(t.msg) = SeqnoHash(s.msg)

(* Included in another message, or a later copy of the same one. *)
Redundant(s, slots) ==
    \E t \in slots \ {s} :
        \/ Includes(t.msg, s.msg)
        \/ t.position < s.position /\ SeqnoHash(t.msg) = SeqnoHash(s.msg)

MaxSeqno(slots) ==
    CHOOSE n \in {s.msg.seqno : s \in slots} : \A s \in slots : s.msg.seqno <= n

TooOld(s, slots) == s.msg.seqno + Lag <= MaxSeqno(slots)

Kept(slots) == {s \in slots : ~Redundant(s, slots) /\ ~TooOld(s, slots)}

(* The slot with the highest (seqno, hash). *)
Best(slots) == CHOOSE s \in slots : \A t \in slots : ~Before(s.msg, t.msg)

(* A lone survivor is adopted as it is; one who cannot sign takes the best. *)
Unmerged(slots, readonly) == readonly \/ Cardinality(Kept(slots)) = 1
Superconf(slots) == Best(Kept(slots))

(* unmerged_index(): the place of the adopted message among those that       *)
(* parsed (the constructor drops the others before it counts).              *)
UnmergedIndex(confs) ==
    Cardinality({i \in 1..Superconf(Slots(confs)).position : confs[i].parsed # {}})

(* Everything the kept messages hold diffs for; an id held by several is    *)
(* taken from the highest-ranked message (emplace does not replace).        *)
Holdings(m) == m.lagged \cup {OwnEntry(m)}
Replay(kept) ==
    UNION {{[entry |-> e, data |-> s.msg.data] :
              e \in {x \in Holdings(s.msg) :
                      \A t \in kept : Before(s.msg, t.msg) =>
                        \A y \in Holdings(t.msg) : SeqnoHash(y) # SeqnoHash(x)}}
           : s \in kept}

(* Applying the diffs in ascending order leaves, for each key, what the     *)
(* last diff that touches it says; a value gone from its source is removed. *)
Replayed(replay, base, k) ==
    LET touching == {r \in replay : r.entry.diff[k] # "untouched"}
        last == CHOOSE r \in touching :
                    \A q \in touching : ~Before(r.entry, q.entry)
    IN  IF touching = {} THEN base[k]
        ELSE IF last.entry.diff[k] = "removed" THEN Absent
        ELSE last.data[k]

MergeKept(kept, max) ==
    LET replay == Replay(kept)
        base == Best(kept).msg.data
    IN  [seqno |-> max + 1,
         data |-> [k \in Keys |-> Replayed(replay, base, k)],
         diff |-> NoDiff,
         lagged |-> {r.entry : r \in replay}]

MergeContent(slots) == MergeKept(Kept(slots), MaxSeqno(slots))
=============================================================================
