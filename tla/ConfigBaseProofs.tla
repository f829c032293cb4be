---------------------------- MODULE ConfigBaseProofs ----------------------------
(***************************************************************************)
(* What the operations of a config object preserve: its type, its seqno,   *)
(* and what must stay in step with the dump.                               *)
(***************************************************************************)
EXTENDS ConfigBase, ConfigMessageProofs

(* A config object made without a dump is well formed. *)
LEMMA FreshObjectType ==
    FreshObject \in ConfigObject /\ Windowed(FreshObject.conf)
<1>1. EmptyData \in Data /\ NoDiff \in Diffs
    BY DEF EmptyData, Data, NoDiff, Diffs, Marks
<1>2. {} \in FiniteSubsets(LaggedDiff)
    BY FS_EmptySet DEF FiniteSubsets
<1>3. EmptyContent \in Content /\ Windowed(EmptyContent)
    BY <1>1, <1>2 DEF EmptyContent, Content, Windowed
<1> QED BY <1>1, <1>3 DEF FreshObject, ConfigObject, States

(* serialize() writes a message of the object's seqno and data, whose lagged *)
(* diffs are all inside the window.                                         *)
LEMMA SerializeType ==
    ASSUME NEW o \in ConfigObject
    PROVE  /\ Serialize(o) \in Content
           /\ Windowed(Serialize(o))
           /\ Serialize(o).seqno = o.conf.seqno
           /\ Serialize(o).data = o.conf.data
<1>1. o.conf \in Content /\ o.orig \in Data
    BY DEF ConfigObject
<1>2. /\ o.conf.seqno \in Nat /\ o.conf.data \in Data /\ o.conf.diff \in Diffs
      /\ Window(o.conf.seqno, o.conf.lagged) \in FiniteSubsets(LaggedDiff)
    BY <1>1, WindowType DEF Content
<1>3. Diff(o.orig, o.conf.data) \in Diffs
    BY DEF Diff, Diffs, Marks
<1> QED BY <1>2, <1>3 DEF Serialize, Content, Windowed, Window

(* set_state() keeps the config and marks the object for saving. *)
LEMMA SetStateType ==
    ASSUME NEW o \in ConfigObject, NEW s \in States
    PROVE  /\ SetState(o, s) \in ConfigObject
           /\ SetState(o, s).state = s
           /\ SetState(o, s).conf = o.conf
           /\ SetState(o, s).curr = IF o.state = "Clean" THEN {} ELSE o.curr
           /\ SetState(o, s).needsDump = TRUE
BY DEF SetState, ConfigObject

(* What a step of a live object may do: it stays an object, never goes back   *)
(* to an earlier seqno, gives up its storage hashes when it stops being      *)
(* clean, and asks to be saved when what a dump must restore has changed.    *)
GoodStep(o, n) ==
    /\ n \in ConfigObject
    /\ n.conf.seqno >= o.conf.seqno
    /\ (o.curr # {} => o.state = "Clean") => (n.curr # {} => n.state = "Clean")
    /\ \/ n.needsDump = TRUE
       \/ /\ n.state = o.state /\ n.conf.data = o.conf.data /\ n.curr = o.curr
          /\ n.needsDump = o.needsDump

(* A setter takes such a step. *)
LEMMA SetFieldStep ==
    ASSUME NEW o \in ConfigObject, NEW mine \in Message,
           NEW k \in Keys, NEW v \in Values \cup {Absent},
           o.state # "Dirty" => mine.seqno = o.conf.seqno
    PROVE  GoodStep(o, SetField(o, mine, k, v))
<1> DEFINE d == MakeDirty(o, mine)
<1>0. o.conf.seqno \in Nat /\ mine.seqno \in Nat /\ mine.data \in Data
    BY DEF ConfigObject, Content, Message
<1>1. /\ d \in ConfigObject /\ d.state = "Dirty" /\ d.conf.seqno >= o.conf.seqno
      /\ d.curr = IF o.state = "Clean" THEN {} ELSE o.curr
      /\ d.needsDump = TRUE
    <2>1. CASE o.state = "Dirty"
        <3>1. d = [o EXCEPT !.needsDump = TRUE]
            BY <2>1 DEF MakeDirty
        <3> HIDE DEF d
        <3>2. d \in ConfigObject
            BY <3>1 DEF ConfigObject
        <3>3. d.state = o.state /\ d.conf = o.conf /\ d.curr = o.curr /\ d.needsDump = TRUE
            BY <3>1 DEF ConfigObject
        <3> QED BY <1>0, <2>1, <3>2, <3>3
    <2>2. CASE o.state # "Dirty"
        <3>1. /\ SetState(o, "Dirty") \in ConfigObject
              /\ SetState(o, "Dirty").state = "Dirty"
              /\ SetState(o, "Dirty").curr = IF o.state = "Clean" THEN {} ELSE o.curr
              /\ SetState(o, "Dirty").needsDump = TRUE
            BY SetStateType DEF States
        <3>2. Increment(mine) \in Content /\ Increment(mine).seqno = mine.seqno + 1
            BY IncrementType DEF Increment
        <3>3. d = [SetState(o, "Dirty") EXCEPT !.conf = Increment(mine), !.orig = mine.data]
            BY <2>2 DEF MakeDirty
        <3> HIDE DEF d
        <3>4. d \in ConfigObject
            BY <1>0, <3>1, <3>2, <3>3 DEF ConfigObject
        <3>5. /\ d.state = "Dirty" /\ d.conf = Increment(mine) /\ d.needsDump = TRUE
              /\ d.curr = SetState(o, "Dirty").curr
            BY <3>1, <3>3 DEF ConfigObject
        <3> QED BY <1>0, <2>2, <3>1, <3>2, <3>4, <3>5
    <2> QED BY <2>1, <2>2
<1>2. SetField(o, mine, k, v) = [d EXCEPT !.conf.data[k] = v]
    BY DEF SetField
<1> HIDE DEF d
<1>3. d.conf \in Content /\ d.conf.data \in Data
    BY <1>1 DEF ConfigObject, Content
<1>4. [d.conf.data EXCEPT ![k] = v] \in Data
    BY <1>3 DEF Data
<1> DEFINE n == SetField(o, mine, k, v)
<1>5. /\ n \in ConfigObject /\ n.state = d.state /\ n.conf.seqno = d.conf.seqno
      /\ n.curr = d.curr /\ n.needsDump = TRUE
    BY <1>1, <1>2, <1>3, <1>4 DEF ConfigObject, Content
<1> HIDE DEF n
<1>6. GoodStep(o, n)
    BY <1>1, <1>5 DEF GoodStep
<1> QED BY <1>6 DEF n

-----------------------------------------------------------------------------
(* A message, as it was parsed: typed, its lagged diffs inside the window. *)
WellFormed(m) == m \in Message /\ Windowed(m)

(* A vector of configs with their storage hashes, as _merge builds it. *)
WellFormedConfs(confs) ==
    /\ confs \in Seq([hashes : SUBSET Storage, parsed : SUBSET Message])
    /\ \A i \in DOMAIN confs : /\ IsFiniteSet(confs[i].parsed)
                              /\ \A m \in confs[i].parsed : WellFormed(m)

(* The vector _merge builds has our own config and what was received. *)
LEMMA AllConfsType ==
    ASSUME NEW o \in ConfigObject, NEW mine, WellFormed(mine),
           NEW incoming, WellFormedConfs(incoming)
    PROVE  /\ WellFormedConfs(AllConfs(o, mine, incoming))
           /\ HasOwn(o) => \E i \in DOMAIN AllConfs(o, mine, incoming) :
                                mine \in AllConfs(o, mine, incoming)[i].parsed
<1> DEFINE own == OwnConf(o, mine)
           Conf == [hashes : SUBSET Storage, parsed : SUBSET Message]
<1>1. /\ own \in Conf /\ IsFiniteSet(own.parsed) /\ mine \in own.parsed
      /\ \A m \in own.parsed : WellFormed(m)
    BY FS_Singleton DEF OwnConf, ConfigObject, WellFormed
<1>2. incoming \in Seq(Conf)
    BY DEF WellFormedConfs
<1>3. CASE OwnFirst(o)
    <2> DEFINE all == <<own>> \o incoming
    <2>1. AllConfs(o, mine, incoming) = all
        BY <1>3 DEF AllConfs
    <2>2. all \in Seq(Conf) /\ all[1] = own /\ 1 \in DOMAIN all
        BY <1>1, <1>2
    <2>3. ASSUME NEW i \in DOMAIN all, i # 1
          PROVE  i - 1 \in DOMAIN incoming /\ all[i] = incoming[i - 1]
        BY <1>1, <1>2, <2>3
    <2> HIDE DEF all, own
    <2> QED BY <1>1, <2>1, <2>2, <2>3 DEF WellFormedConfs
<1>4. CASE ~OwnFirst(o) /\ HasOwn(o)
    <2> DEFINE all == Append(incoming, own)
    <2>1. AllConfs(o, mine, incoming) = all
        BY <1>4 DEF AllConfs
    <2>2. all \in Seq(Conf) /\ all[Len(incoming) + 1] = own /\ Len(incoming) + 1 \in DOMAIN all
        BY <1>1, <1>2
    <2>3. ASSUME NEW i \in DOMAIN all, i # Len(incoming) + 1
          PROVE  i \in DOMAIN incoming /\ all[i] = incoming[i]
        BY <1>1, <1>2, <2>3
    <2> HIDE DEF all, own
    <2> QED BY <1>1, <2>1, <2>2, <2>3 DEF WellFormedConfs
<1>5. CASE ~HasOwn(o)
    BY <1>5 DEF AllConfs, OwnFirst
<1> QED BY <1>3, <1>4, <1>5

(* The vector is one the merging constructor can work on. *)
LEMMA SlotsType ==
    ASSUME NEW confs, WellFormedConfs(confs)
    PROVE  /\ Slots(confs) # {} => MergeVector(Slots(confs))
           /\ \A s \in Slots(confs) : /\ s.position \in DOMAIN confs
                                      /\ s.msg \in confs[s.position].parsed
           /\ \A i \in DOMAIN confs : \A m \in confs[i].parsed :
                \E s \in Slots(confs) : s.msg = m
<1> DEFINE At(i) == {[msg |-> m, position |-> i] : m \in confs[i].parsed}
           D == DOMAIN confs
           f == [i \in D |-> At(i)]
<1>1. Slots(confs) = UNION {f[i] : i \in D}
    BY DEF Slots
<1>2. ASSUME NEW i \in D PROVE IsFiniteSet(At(i))
    <2> DEFINE X == confs[i].parsed
               g == [m \in X |-> [msg |-> m, position |-> i]]
    <2>1. /\ g = [m \in X |-> g[m]] /\ IsFiniteSet(X)
          /\ At(i) = {g[m] : m \in X}
        BY DEF WellFormedConfs
    <2> HIDE DEF g, X, At
    <2> QED BY <2>1, FiniteImage
<1>3. IsFiniteSet(D) /\ D \subseteq Nat
    BY FS_Interval DEF WellFormedConfs
<1>4. IsFiniteSet({f[i] : i \in D})
    <2>1. f = [i \in D |-> f[i]]
        OBVIOUS
    <2> HIDE DEF f, D
    <2> QED BY <1>3, <2>1, FiniteImage
<1>5. \A T \in {f[i] : i \in D} : IsFiniteSet(T)
    <2> HIDE DEF At, D
    <2> QED BY <1>2
<1>6. IsFiniteSet(Slots(confs))
    <2> HIDE DEF f, D
    <2> QED BY <1>1, <1>4, <1>5, FS_UNION
<1>7. \A s \in Slots(confs) : /\ s.position \in D
                              /\ s.msg \in confs[s.position].parsed
    BY DEF Slots
<1>8. \A s \in Slots(confs) : s.msg \in Message /\ Windowed(s.msg) /\ s.position \in Nat
    BY <1>3, <1>7 DEF WellFormedConfs, WellFormed
<1>9. \A i \in D : \A m \in confs[i].parsed : \E s \in Slots(confs) : s.msg = m
    <2>1. SUFFICES ASSUME NEW i \in D, NEW m \in confs[i].parsed
                   PROVE  [msg |-> m, position |-> i] \in Slots(confs)
        OBVIOUS
    <2>2. [msg |-> m, position |-> i] \in At(i)
        OBVIOUS
    <2> QED BY <2>2 DEF Slots
<1> QED BY <1>6, <1>7, <1>8, <1>9 DEF MergeVector

(* unmerged_index() is in range, though it may name another element. *)
LEMMA UnmergedIndexType ==
    ASSUME NEW confs, WellFormedConfs(confs), Slots(confs) # {}
    PROVE  UnmergedIndex(confs) \in DOMAIN confs
<1> DEFINE p == Superconf(Slots(confs)).position
           X == {i \in 1..p : confs[i].parsed # {}}
<1>1. p \in DOMAIN confs /\ confs[p].parsed # {}
    BY SlotsType, SuperconfHighest
<1>2. p \in Nat /\ p >= 1 /\ \A i \in 1..p : i \in DOMAIN confs
    <2> HIDE DEF p
    <2> QED BY <1>1 DEF WellFormedConfs
<1> HIDE DEF p
<1>3. IsFiniteSet(1..p) /\ Cardinality(1..p) = p
    BY <1>2, FS_Interval
<1>4. X \in SUBSET (1..p) /\ p \in X
    BY <1>1, <1>2
<1>5. UnmergedIndex(confs) = Cardinality(X)
    BY DEF UnmergedIndex, p
<1> HIDE DEF X
<1>6. IsFiniteSet(X) /\ Cardinality(X) <= p
    BY <1>3, <1>4, FS_Subset
<1>7. Cardinality(X) \in Nat /\ Cardinality(X) # 0
    BY <1>4, <1>6, FS_CardinalityType, FS_EmptySet
<1>8. Cardinality(X) \in 1..p
    BY <1>2, <1>6, <1>7
<1> QED BY <1>2, <1>5, <1>8

(* The storage hashes of every element of that vector are storage hashes. *)
LEMMA ConfHashesType ==
    ASSUME NEW confs, WellFormedConfs(confs), NEW i \in DOMAIN confs
    PROVE  confs[i].hashes \subseteq Storage
<1> DEFINE Conf == [hashes : SUBSET Storage, parsed : SUBSET Message]
<1>1. confs \in Seq(Conf)
    BY DEF WellFormedConfs
<1>2. confs[i] \in Conf
    <2> HIDE DEF Conf
    <2> QED BY <1>1
<1> QED BY <1>2

(* unmerged_index() is a place of the vector, even when it is the wrong one. *)
LEMMA SuperconfHashesType ==
    ASSUME NEW confs, WellFormedConfs(confs), Slots(confs) # {}
    PROVE  SuperconfHashes(confs) \subseteq Storage
<1>1. UnmergedIndex(confs) \in DOMAIN confs
    BY UnmergedIndexType
<1> QED BY <1>1, ConfHashesType DEF SuperconfHashes

(* What _merge marks obsolete are storage hashes. *)
LEMMA ObsoletedType ==
    ASSUME NEW confs, WellFormedConfs(confs), NEW super
    PROVE  Obsoleted(confs, super) \subseteq Storage
<1>1. \A i \in DOMAIN confs : confs[i].hashes \subseteq Storage
    BY ConfHashesType
<1> QED BY <1>1 DEF Obsoleted

(* Our own message, when it takes part, bounds the result's seqno. *)
LEMMA OwnBelowMax ==
    ASSUME NEW o \in ConfigObject, NEW mine, WellFormed(mine), mine.seqno = o.conf.seqno,
           NEW incoming, WellFormedConfs(incoming),
           Slots(AllConfs(o, mine, incoming)) # {}
    PROVE  o.conf.seqno <= MaxSeqno(Slots(AllConfs(o, mine, incoming)))
<1> DEFINE slots == Slots(AllConfs(o, mine, incoming))
<1>1. WellFormedConfs(AllConfs(o, mine, incoming))
    BY AllConfsType
<1>2. MergeVector(slots)
    BY <1>1, SlotsType
<1>3. CASE HasOwn(o)
    <2>1. \E s \in slots : s.msg = mine
        BY <1>1, <1>3, AllConfsType, SlotsType
    <2> HIDE DEF slots
    <2> QED BY <1>2, <2>1, MaxSeqnoType DEF slots
<1>4. CASE ~HasOwn(o)
    <2>1. o.conf.seqno = 0
        BY <1>4 DEF HasOwn
    <2> HIDE DEF slots
    <2> QED BY <1>2, <2>1, MaxSeqnoType DEF slots
<1> QED BY <1>3, <1>4

(* Marking hashes as obsolete is such a step. *)
LEMMA MarkedStep ==
    ASSUME NEW o \in ConfigObject, NEW more, more \subseteq Storage
    PROVE  LET n == [o EXCEPT !.old = @ \cup more]
           IN  /\ n \in ConfigObject /\ n.conf = o.conf /\ n.state = o.state
               /\ n.curr = o.curr /\ n.needsDump = o.needsDump
               /\ GoodStep(o, n)
<1> DEFINE n == [o EXCEPT !.old = @ \cup more]
<1>1. n \in ConfigObject
    BY DEF ConfigObject
<1>2. /\ n.conf = o.conf /\ n.state = o.state /\ n.curr = o.curr
      /\ n.needsDump = o.needsDump
    BY DEF ConfigObject
<1>3. o.conf.seqno \in Nat
    BY DEF ConfigObject, Content
<1> HIDE DEF n
<1>4. GoodStep(o, n)
    BY <1>1, <1>2, <1>3 DEF GoodStep
<1> QED BY <1>1, <1>2, <1>4 DEF n

(* Replacing the config after set_state() is such a step when the seqno does *)
(* not go back.                                                             *)
LEMMA ReplacedStep ==
    ASSUME NEW o \in ConfigObject, NEW more, more \subseteq Storage,
           NEW st \in States, NEW conf \in Content, NEW orig \in Data,
           NEW curr \in SUBSET Storage,
           conf.seqno >= o.conf.seqno,
           curr # {} => st = "Clean"
    PROVE  LET marked == [o EXCEPT !.old = @ \cup more]
           IN  GoodStep(o, [SetState(marked, st) EXCEPT
                                !.conf = conf, !.orig = orig, !.curr = curr])
<1> DEFINE marked == [o EXCEPT !.old = @ \cup more]
           t == SetState(marked, st)
           n == [t EXCEPT !.conf = conf, !.orig = orig, !.curr = curr]
<1>1. marked \in ConfigObject
    BY MarkedStep
<1>2. t \in ConfigObject /\ t.state = st /\ t.needsDump = TRUE
    <2> HIDE DEF marked
    <2> QED BY <1>1, SetStateType
<1> HIDE DEF t
<1>3. n \in ConfigObject
    BY <1>2 DEF ConfigObject
<1>4. n.state = st /\ n.conf = conf /\ n.curr = curr /\ n.needsDump = TRUE
    BY <1>2 DEF ConfigObject
<1> HIDE DEF n
<1>5. GoodStep(o, n)
    BY <1>3, <1>4 DEF GoodStep
<1> QED BY <1>5 DEF n, t

(* Adopting the best message, or staying with our own. *)
LEMMA AdoptSuperconfStep ==
    ASSUME NEW o \in ConfigObject, NEW confs, WellFormedConfs(confs),
           Slots(confs) # {},
           o.conf.seqno <= MaxSeqno(Slots(confs))
    PROVE  GoodStep(o, AdoptSuperconf(o, confs))
<1> DEFINE slots == Slots(confs)
           super == Superconf(slots).msg
           named == SuperconfHashes(confs)
           new == IF o.state = "Dirty" THEN Increment(super) ELSE ContentOf(super)
           more == Obsoleted(confs, named)
           marked == [o EXCEPT !.old = @ \cup more]
           keepOwn == \/ new.seqno = o.conf.seqno
                      \/ /\ o.state = "Dirty" /\ SuperconfIsMine(o, confs)
                         /\ new.seqno = o.conf.seqno + 1
<1>0. MergeVector(slots)
    BY SlotsType
<1>1. AdoptSuperconf(o, confs) =
        IF keepOwn THEN marked
        ELSE [SetState(marked, "Clean") EXCEPT
                !.conf = new, !.orig = new.data, !.curr = named]
    BY DEF AdoptSuperconf
<1>2. /\ super \in Message /\ named \subseteq Storage
      /\ super.seqno >= o.conf.seqno
    <2>1. Superconf(slots) \in slots /\ super.seqno = MaxSeqno(slots)
        BY <1>0, SuperconfHighest
    <2>2. o.conf.seqno \in Nat
        BY DEF ConfigObject, Content
    <2> QED BY <1>0, <2>1, <2>2, MaxSeqnoType, SuperconfHashesType DEF MergeVector
<1>3. more \subseteq Storage
    BY ObsoletedType
<1> HIDE DEF super, named, more
<1>4. new \in Content /\ new.data \in Data /\ new.seqno >= o.conf.seqno
    <2>1. Increment(super) \in Content /\ ContentOf(super) \in Content
        BY <1>2, IncrementType, ContentOfType
    <2>2. /\ Increment(super).seqno = super.seqno + 1
          /\ ContentOf(super).seqno = super.seqno
        BY DEF Increment, ContentOf
    <2>3. super.seqno \in Nat /\ o.conf.seqno \in Nat
        BY <1>2 DEF ConfigObject, Content, Message
    <2>4. new \in Content /\ new.seqno >= o.conf.seqno
        BY <1>2, <2>1, <2>2, <2>3
    <2> HIDE DEF new
    <2> QED BY <2>4 DEF Content
<1> HIDE DEF new, keepOwn
<1>5. GoodStep(o, marked)
    BY <1>3, MarkedStep
<1>6. GoodStep(o, [SetState(marked, "Clean") EXCEPT
                     !.conf = new, !.orig = new.data, !.curr = named])
    BY <1>2, <1>3, <1>4, ReplacedStep DEF States
<1> QED BY <1>1, <1>5, <1>6

(* Taking over a merge. *)
LEMMA AdoptMergeStep ==
    ASSUME NEW o \in ConfigObject, NEW confs, WellFormedConfs(confs),
           Slots(confs) # {},
           o.conf.seqno <= MaxSeqno(Slots(confs))
    PROVE  /\ GoodStep(o, AdoptMerge(o, confs))
           /\ AdoptMerge(o, confs).conf = MergeContent(Slots(confs))
<1> DEFINE slots == Slots(confs)
           merged == MergeContent(slots)
           more == Obsoleted(confs, {})
           marked == [o EXCEPT !.old = @ \cup more]
           orig == IF o.state = "Dirty" THEN merged.data ELSE EmptyData
           t == SetState(marked, "Dirty")
           n == [t EXCEPT !.conf = merged, !.orig = orig]
<1>1. AdoptMerge(o, confs) = n
    BY DEF AdoptMerge
<1>2. merged \in Content /\ merged.data \in Data /\ merged.seqno >= o.conf.seqno
    <2>1. merged \in Content /\ merged.seqno = MaxSeqno(slots) + 1
        BY SlotsType, MergeContentType
    <2>2. o.conf.seqno \in Nat
        BY DEF ConfigObject, Content
    <2> HIDE DEF merged
    <2> QED BY <2>1, <2>2, SlotsType, MaxSeqnoType DEF Content
<1>3. more \subseteq Storage /\ orig \in Data
    BY <1>2, ObsoletedType DEF EmptyData, Data
<1>4. marked \in ConfigObject /\ marked.state = o.state /\ marked.curr = o.curr
    <2> HIDE DEF more
    <2> QED BY <1>3, MarkedStep
<1>5. /\ t \in ConfigObject /\ t.state = "Dirty" /\ t.needsDump = TRUE
      /\ t.curr = IF o.state = "Clean" THEN {} ELSE o.curr
    <2> HIDE DEF marked
    <2>1. "Dirty" \in States
        BY DEF States
    <2>2. /\ t \in ConfigObject /\ t.state = "Dirty" /\ t.needsDump = TRUE
          /\ t.curr = IF marked.state = "Clean" THEN {} ELSE marked.curr
        BY <1>4, <2>1, SetStateType
    <2> QED BY <1>4, <2>2
<1> HIDE DEF t, merged, orig
<1>6. n \in ConfigObject
    BY <1>2, <1>3, <1>5 DEF ConfigObject
<1>7. n.state = "Dirty" /\ n.conf = merged /\ n.curr = t.curr /\ n.needsDump = TRUE
    BY <1>5 DEF ConfigObject
<1> HIDE DEF n
<1>8. GoodStep(o, n)
    BY <1>2, <1>5, <1>6, <1>7 DEF GoodStep
<1> QED BY <1>1, <1>7, <1>8 DEF merged

(* merge() *)
LEMMA MergeIncomingStep ==
    ASSUME NEW o \in ConfigObject, NEW mine, WellFormed(mine),
           mine.seqno = o.conf.seqno,
           NEW incoming, WellFormedConfs(incoming), NEW readonly \in BOOLEAN
    PROVE  GoodStep(o, MergeIncoming(o, mine, incoming, readonly))
<1> DEFINE confs == AllConfs(o, mine, incoming)
<1>1. CASE Slots(confs) = {}
    <2>1. MergeIncoming(o, mine, incoming, readonly) = o
        BY <1>1 DEF MergeIncoming
    <2> QED BY <2>1 DEF GoodStep, ConfigObject, Content
<1>2. CASE Slots(confs) # {}
    <2>1. WellFormedConfs(confs)
        BY AllConfsType
    <2>2. o.conf.seqno <= MaxSeqno(Slots(confs))
        BY <1>2, OwnBelowMax
    <2>3. MergeIncoming(o, mine, incoming, readonly) =
            IF Unmerged(Slots(confs), readonly) THEN AdoptSuperconf(o, confs)
            ELSE AdoptMerge(o, confs)
        BY <1>2 DEF MergeIncoming
    <2> HIDE DEF confs
    <2> QED BY <1>2, <2>1, <2>2, <2>3, AdoptSuperconfStep, AdoptMergeStep
<1> QED BY <1>1, <1>2

-----------------------------------------------------------------------------
(***************************************************************************)
(* What a merge adopts, and which storage hashes it leaves behind.         *)
(***************************************************************************)

(* Where _merge puts our own config: first, or last (mine_last). *)
OwnPlace(o, confs) == IF OwnFirst(o) THEN 1 ELSE Len(confs)

(* Every element of the vector is our own config, in its place, or one that  *)
(* was received.                                                            *)
LEMMA AllConfsPlaces ==
    ASSUME NEW o \in ConfigObject, NEW mine, WellFormed(mine),
           NEW incoming, WellFormedConfs(incoming)
    PROVE  LET confs == AllConfs(o, mine, incoming)
           IN  /\ HasOwn(o) => /\ OwnPlace(o, confs) \in DOMAIN confs
                               /\ confs[OwnPlace(o, confs)] = OwnConf(o, mine)
               /\ \A i \in DOMAIN confs :
                    \/ HasOwn(o) /\ i = OwnPlace(o, confs)
                    \/ \E j \in DOMAIN incoming : confs[i] = incoming[j]
<1> DEFINE own == OwnConf(o, mine)
           Conf == [hashes : SUBSET Storage, parsed : SUBSET Message]
<1>1. own \in Conf
    BY DEF OwnConf, ConfigObject, WellFormed
<1>2. incoming \in Seq(Conf)
    BY DEF WellFormedConfs
<1>3. CASE OwnFirst(o)
    <2> DEFINE all == <<own>> \o incoming
    <2>1. AllConfs(o, mine, incoming) = all /\ HasOwn(o)
        BY <1>3 DEF AllConfs, OwnFirst
    <2>2. all[1] = own /\ 1 \in DOMAIN all
        BY <1>1, <1>2
    <2>3. ASSUME NEW i \in DOMAIN all, i # 1
          PROVE  i - 1 \in DOMAIN incoming /\ all[i] = incoming[i - 1]
        BY <1>1, <1>2, <2>3
    <2> HIDE DEF all, own
    <2> QED BY <1>3, <2>1, <2>2, <2>3 DEF OwnPlace, own
<1>4. CASE ~OwnFirst(o) /\ HasOwn(o)
    <2> DEFINE all == Append(incoming, own)
    <2>1. AllConfs(o, mine, incoming) = all
        BY <1>4 DEF AllConfs
    <2>2. all[Len(all)] = own /\ Len(all) \in DOMAIN all
        BY <1>1, <1>2
    <2>3. ASSUME NEW i \in DOMAIN all, i # Len(all)
          PROVE  i \in DOMAIN incoming /\ all[i] = incoming[i]
        BY <1>1, <1>2, <2>3
    <2> HIDE DEF all, own
    <2> QED BY <1>4, <2>1, <2>2, <2>3 DEF OwnPlace, own
<1>5. CASE ~HasOwn(o)
    BY <1>5 DEF AllConfs, OwnFirst
<1> QED BY <1>3, <1>4, <1>5

(* What a poll of a swarm delivers that holds nothing this version cannot    *)
(* parse: single messages, each with the storage hash it was stored under.  *)
Legible(incoming) ==
    \A i \in DOMAIN incoming :
        /\ incoming[i].parsed # {}
        /\ \A m \in incoming[i].parsed : incoming[i].hashes = {SeqnoHash(m)}

(* unmerged_index() counts the messages that parsed: when all of them did, it *)
(* is the place of the adopted one.                                         *)
LEMMA UnmergedIndexExact ==
    ASSUME NEW confs, WellFormedConfs(confs), Slots(confs) # {},
           \A i \in DOMAIN confs : confs[i].parsed # {}
    PROVE  UnmergedIndex(confs) = Superconf(Slots(confs)).position
<1> DEFINE p == Superconf(Slots(confs)).position
<1>1. p \in DOMAIN confs
    BY SlotsType, SuperconfHighest
<1>2. p \in Nat /\ p >= 1 /\ \A i \in 1..p : i \in DOMAIN confs
    <2> HIDE DEF p
    <2> QED BY <1>1 DEF WellFormedConfs
<1>3. {i \in 1..p : confs[i].parsed # {}} = 1..p
    <2> HIDE DEF p
    <2> QED BY <1>2
<1>4. UnmergedIndex(confs) = Cardinality(1..p)
    BY <1>3 DEF UnmergedIndex
<1> HIDE DEF p
<1>5. Cardinality(1..p) = p
    BY <1>2, FS_Interval
<1> QED BY <1>4, <1>5 DEF p

(* The adopted message is ours, in our place, or one of those received. *)
LEMMA SuperconfPlace ==
    ASSUME NEW o \in ConfigObject, NEW mine, WellFormed(mine), mine.seqno = o.conf.seqno,
           NEW incoming, WellFormedConfs(incoming),
           Slots(AllConfs(o, mine, incoming)) # {}
    PROVE  LET confs == AllConfs(o, mine, incoming)
               super == Superconf(Slots(confs))
           IN  /\ super.position \in DOMAIN confs
               /\ super.msg \in confs[super.position].parsed
               /\ super.msg \in Message
               /\ super.msg.seqno = MaxSeqno(Slots(confs))
               /\ super.msg.seqno >= o.conf.seqno
               /\ \/ /\ HasOwn(o) /\ super.position = OwnPlace(o, confs)
                     /\ super.msg = mine
                  \/ \E j \in DOMAIN incoming : confs[super.position] = incoming[j]
<1> DEFINE confs == AllConfs(o, mine, incoming)
           super == Superconf(Slots(confs))
<1>1. WellFormedConfs(confs) /\ MergeVector(Slots(confs))
    BY AllConfsType, SlotsType
<1>2. super \in Slots(confs) /\ super.msg.seqno = MaxSeqno(Slots(confs))
    <2> HIDE DEF confs
    <2> QED BY <1>1, SuperconfHighest
<1>3. /\ super.position \in DOMAIN confs
      /\ super.msg \in confs[super.position].parsed
      /\ super.msg \in Message
    <2> HIDE DEF confs
    <2> QED BY <1>1, <1>2, SlotsType DEF MergeVector
<1>4. super.msg.seqno >= o.conf.seqno
    <2>1. o.conf.seqno <= MaxSeqno(Slots(confs))
        BY OwnBelowMax
    <2> HIDE DEF confs
    <2> QED BY <1>1, <1>2, <2>1, MaxSeqnoType DEF ConfigObject, Content
<1>5. ASSUME HasOwn(o), super.position = OwnPlace(o, confs)
      PROVE  super.msg = mine
    <2>1. confs[super.position] = OwnConf(o, mine)
        BY <1>5, AllConfsPlaces
    <2> QED BY <1>3, <2>1 DEF OwnConf
<1> QED BY <1>2, <1>3, <1>4, <1>5, AllConfsPlaces

(* A config that is not being edited keeps its contents or takes exactly      *)
(* those of a message it was handed.                                        *)
LEMMA AdoptedReceived ==
    ASSUME NEW o \in ConfigObject, NEW mine, WellFormed(mine), mine.seqno = o.conf.seqno,
           NEW incoming, WellFormedConfs(incoming),
           Slots(AllConfs(o, mine, incoming)) # {}, o.state # "Dirty"
    PROVE  LET n == AdoptSuperconf(o, AllConfs(o, mine, incoming))
           IN  \/ n.state = o.state /\ n.conf = o.conf
               \/ /\ n.state = "Clean"
                  /\ \E j \in DOMAIN incoming : \E m \in incoming[j].parsed :
                        n.conf = ContentOf(m)
<1> DEFINE confs == AllConfs(o, mine, incoming)
           super == Superconf(Slots(confs)).msg
           new == ContentOf(super)
           named == SuperconfHashes(confs)
           marked == [o EXCEPT !.old = @ \cup Obsoleted(confs, named)]
           n == AdoptSuperconf(o, confs)
<1>1. n = IF new.seqno = o.conf.seqno THEN marked
          ELSE [SetState(marked, "Clean") EXCEPT
                    !.conf = new, !.orig = new.data, !.curr = named]
    BY DEF AdoptSuperconf
<1>2. WellFormedConfs(confs)
    BY AllConfsType
<1>3. marked \in ConfigObject /\ marked.conf = o.conf /\ marked.state = o.state
    <2>1. Obsoleted(confs, named) \subseteq Storage
        BY <1>2, ObsoletedType
    <2> HIDE DEF confs, named
    <2> QED BY <2>1, MarkedStep
<1>4. CASE new.seqno = o.conf.seqno
    BY <1>1, <1>3, <1>4
<1>5. CASE new.seqno # o.conf.seqno
    <2>1. super.seqno # mine.seqno
        BY <1>5 DEF ContentOf
    <2>2. \E j \in DOMAIN incoming : super \in incoming[j].parsed
        BY <2>1, SuperconfPlace
    <2>3. SetState(marked, "Clean") \in ConfigObject /\ SetState(marked, "Clean").state = "Clean"
        <3> HIDE DEF marked
        <3> QED BY <1>3, SetStateType DEF States
    <2>4. n.state = "Clean" /\ n.conf = new
        <3> DEFINE t == SetState(marked, "Clean")
        <3>1. n = [t EXCEPT !.conf = new, !.orig = new.data, !.curr = named]
            BY <1>1, <1>5
        <3> HIDE DEF n, new, named, marked, t
        <3>2. t \in ConfigObject /\ t.state = "Clean"
            BY <2>3 DEF t
        <3> QED BY <3>1, <3>2 DEF ConfigObject
    <2> QED BY <2>2, <2>4
<1> QED BY <1>4, <1>5

(* Adopting, when everything parsed: the object stays with its own config,    *)
(* which none outranks, or becomes a clean copy of a message it was handed   *)
(* and takes that message's storage hash.                                   *)
LEMMA AdoptSuperconfCases ==
    ASSUME NEW o \in ConfigObject, NEW mine, WellFormed(mine), mine.seqno = o.conf.seqno,
           NEW incoming, WellFormedConfs(incoming), Legible(incoming),
           Slots(AllConfs(o, mine, incoming)) # {}
    PROVE  LET confs == AllConfs(o, mine, incoming)
               super == Superconf(Slots(confs))
               named == SuperconfHashes(confs)
               n == AdoptSuperconf(o, confs)
           IN  /\ named = confs[super.position].hashes
               /\ \/ /\ n.state = o.state /\ n.conf = o.conf /\ n.curr = o.curr
                     /\ n.old = o.old \cup Obsoleted(confs, named) /\ n.orig = o.orig
                     /\ super.msg.seqno = o.conf.seqno
                  \/ /\ n.state = "Clean" /\ n.curr = named
                     /\ n.old \subseteq o.old \cup o.curr \cup Obsoleted(confs, named)
                     /\ n.conf = IF o.state = "Dirty" THEN Increment(super.msg)
                                 ELSE ContentOf(super.msg)
                     /\ n.conf.data = super.msg.data
                     /\ n.conf.seqno >= super.msg.seqno /\ n.conf.seqno > o.conf.seqno
                     /\ o.state # "Dirty" => super.msg.seqno > o.conf.seqno
                     /\ \E j \in DOMAIN incoming : /\ super.msg \in incoming[j].parsed
                                                   /\ named = incoming[j].hashes
<1> DEFINE confs == AllConfs(o, mine, incoming)
           place == Superconf(Slots(confs)).position
           super == Superconf(Slots(confs)).msg
           new == IF o.state = "Dirty" THEN Increment(super) ELSE ContentOf(super)
           named == SuperconfHashes(confs)
           marked == [o EXCEPT !.old = @ \cup Obsoleted(confs, named)]
           keepOwn == \/ new.seqno = o.conf.seqno
                      \/ /\ o.state = "Dirty" /\ SuperconfIsMine(o, confs)
                         /\ new.seqno = o.conf.seqno + 1
           t == SetState(marked, "Clean")
           n == AdoptSuperconf(o, confs)
<1>1. n = IF keepOwn THEN marked
          ELSE [t EXCEPT !.conf = new, !.orig = new.data, !.curr = named]
    BY DEF AdoptSuperconf
<1>2. WellFormedConfs(confs)
    BY AllConfsType
<1>3. UnmergedIndex(confs) = place
    <2>1. \A i \in DOMAIN confs : confs[i].parsed # {}
        <3>1. SUFFICES ASSUME NEW i \in DOMAIN confs PROVE confs[i].parsed # {}
            OBVIOUS
        <3>2. \/ confs[i] = OwnConf(o, mine)
              \/ \E j \in DOMAIN incoming : confs[i] = incoming[j]
            BY AllConfsPlaces
        <3> QED BY <3>2 DEF OwnConf, Legible
    <2>2. Slots(confs) # {}
        OBVIOUS
    <2> HIDE DEF confs
    <2> QED BY <1>2, <2>1, <2>2, UnmergedIndexExact
<1>4. named = confs[place].hashes
    BY <1>3 DEF SuperconfHashes
<1>5. /\ place \in DOMAIN confs /\ super \in confs[place].parsed /\ super \in Message
      /\ super.seqno >= o.conf.seqno
      /\ \/ HasOwn(o) /\ place = OwnPlace(o, confs) /\ super = mine
         \/ \E j \in DOMAIN incoming : confs[place] = incoming[j]
    BY SuperconfPlace
<1>6. /\ marked \in ConfigObject /\ marked.conf = o.conf /\ marked.state = o.state
      /\ marked.curr = o.curr /\ marked.orig = o.orig
      /\ marked.old = o.old \cup Obsoleted(confs, named)
    <2>1. Obsoleted(confs, named) \subseteq Storage
        BY <1>2, ObsoletedType
    <2> HIDE DEF confs, named
    <2> QED BY <2>1, MarkedStep DEF ConfigObject
<1>7. /\ t \in ConfigObject /\ t.state = "Clean"
      /\ t.old \subseteq marked.old \cup o.curr
    <2> HIDE DEF marked
    <2>1. t \in ConfigObject /\ t.state = "Clean"
        BY <1>6, SetStateType DEF States
    <2>2. t.old = IF marked.state = "Clean" THEN marked.old \cup marked.curr ELSE marked.old
        BY <1>6 DEF SetState, ConfigObject
    <2> QED BY <1>6, <2>1, <2>2
<1>8. /\ super.seqno \in Nat /\ o.conf.seqno \in Nat
      /\ new.data = super.data
      /\ new.seqno = IF o.state = "Dirty" THEN super.seqno + 1 ELSE super.seqno
    <2> HIDE DEF super
    <2> QED BY <1>5 DEF Increment, ContentOf, Message, ConfigObject, Content
<1>9. CASE keepOwn
    <2>1. n = marked
        BY <1>1, <1>9
    <2>2. super.seqno = o.conf.seqno
        <3> HIDE DEF new, super
        <3> QED BY <1>5, <1>8, <1>9
    <2> HIDE DEF n, marked, named, confs
    <2> QED BY <1>4, <1>6, <2>1, <2>2 DEF n, named, confs
<1>10. CASE ~keepOwn
    <2>1. new.seqno > o.conf.seqno /\ new.seqno >= super.seqno
          /\ (o.state # "Dirty" => super.seqno > o.conf.seqno)
        <3> HIDE DEF new, super
        <3> QED BY <1>5, <1>8, <1>10
    <2>2. \E j \in DOMAIN incoming : confs[place] = incoming[j]
        <3>1. SUFFICES ASSUME HasOwn(o), place = OwnPlace(o, confs), super = mine
                       PROVE  FALSE
            BY <1>5
        <3>2. o.state = "Dirty" /\ new.seqno = o.conf.seqno + 1
            <4> HIDE DEF new
            <4> QED BY <1>8, <1>10, <3>1
        <3>3. SuperconfIsMine(o, confs)
            BY <1>3, <3>1 DEF SuperconfIsMine, OwnPlace, OwnFirst
        <3> QED BY <1>10, <3>2, <3>3
    <2>3. /\ n.state = "Clean" /\ n.conf = new /\ n.curr = named
          /\ n.old = t.old
        <3>1. n = [t EXCEPT !.conf = new, !.orig = new.data, !.curr = named]
            BY <1>1, <1>10
        <3> HIDE DEF n, new, named, t
        <3> QED BY <1>7, <3>1 DEF ConfigObject
    <2>4. \E j \in DOMAIN incoming : super \in incoming[j].parsed /\ named = incoming[j].hashes
        BY <1>4, <1>5, <2>2
    <2>5. n.old \subseteq o.old \cup o.curr \cup Obsoleted(confs, named)
        BY <1>6, <1>7, <2>3
    <2>6. n.conf = IF o.state = "Dirty" THEN Increment(super) ELSE ContentOf(super)
        BY <2>3
    <2> HIDE DEF n, new, named, confs, t, marked
    <2> QED BY <1>4, <1>8, <2>1, <2>3, <2>4, <2>5, <2>6 DEF n, named, confs
<1> QED BY <1>9, <1>10

(* What an object that can sign is sure of: the hashes it has obsoleted are    *)
(* of seqnos up to its own, and below its own unless it is clean; the hash it *)
(* stands on, which only a clean object has, is not one of them.            *)
Below(o) ==
    /\ \A h \in o.old : /\ h[1] <= o.conf.seqno
                        /\ o.state # "Clean" => h[1] < o.conf.seqno
    /\ o.curr = {} \/ \E c \in o.curr : /\ o.curr = {c} /\ c \notin o.old
                                        /\ c[1] <= o.conf.seqno
    /\ o.state # "Clean" => o.curr = {}
    /\ o.curr # {} \/ o.state # "Clean" => o.conf.seqno > 0

(* Nothing a merge marks obsolete is of a higher seqno than its messages. *)
LEMMA ObsoletedBelow ==
    ASSUME NEW o \in ConfigObject, Below(o),
           NEW mine, WellFormed(mine), mine.seqno = o.conf.seqno,
           NEW incoming, WellFormedConfs(incoming), Legible(incoming),
           Slots(AllConfs(o, mine, incoming)) # {},
           NEW S, NEW h \in Obsoleted(AllConfs(o, mine, incoming), S)
    PROVE  LET confs == AllConfs(o, mine, incoming)
           IN  \/ h \in o.curr /\ o.curr # S
               \/ /\ {h} # S
                  /\ h[1] <= MaxSeqno(Slots(confs))
                  /\ \E s \in Slots(confs) : /\ SeqnoHash(s.msg) = h
                                             /\ confs[s.position].hashes = {h}
                                             /\ HasOwn(o) => s.position # OwnPlace(o, confs)
<1> DEFINE confs == AllConfs(o, mine, incoming)
<1>1. PICK i \in DOMAIN confs : h \in confs[i].hashes /\ confs[i].hashes # S
    BY DEF Obsoleted
<1>2. CASE HasOwn(o) /\ i = OwnPlace(o, confs)
    <2>1. confs[i] = OwnConf(o, mine)
        BY <1>2, AllConfsPlaces
    <2> QED BY <1>1, <2>1 DEF OwnConf
<1>3. CASE ~(HasOwn(o) /\ i = OwnPlace(o, confs))
    <2>1. \E j \in DOMAIN incoming : confs[i] = incoming[j]
        BY <1>3, AllConfsPlaces
    <2>2. PICK m \in confs[i].parsed : confs[i].hashes = {SeqnoHash(m)}
        BY <2>1 DEF Legible
    <2>3. SeqnoHash(m) = h
        BY <1>1, <2>2
    <2> DEFINE s == [msg |-> m, position |-> i]
    <2>4. s \in Slots(confs) /\ s.msg = m /\ s.position = i
        BY <2>2 DEF Slots
    <2>5. m.seqno <= MaxSeqno(Slots(confs))
        <3>1. WellFormedConfs(confs) /\ Slots(confs) # {}
            BY AllConfsType
        <3> HIDE DEF confs, s
        <3> QED BY <2>4, <3>1, SlotsType, MaxSeqnoType
    <2>6. h[1] = m.seqno
        BY <2>3 DEF SeqnoHash
    <2> HIDE DEF s
    <2> QED BY <1>1, <1>3, <2>2, <2>3, <2>4, <2>5, <2>6
<1> QED BY <1>2, <1>3

(* With one message kept, an object that stays with its own config marks      *)
(* nothing of its own seqno, and not the hash it stands on.                 *)
LEMMA KeepOwnBelow ==
    ASSUME Aliens = {}, NEW o \in ConfigObject, Below(o),
           NEW mine, WellFormed(mine), mine.seqno = o.conf.seqno,
           NEW incoming, WellFormedConfs(incoming), Legible(incoming),
           Slots(AllConfs(o, mine, incoming)) # {},
           Cardinality(Kept(Slots(AllConfs(o, mine, incoming)))) = 1,
           Superconf(Slots(AllConfs(o, mine, incoming))).msg.seqno = o.conf.seqno
    PROVE  LET confs == AllConfs(o, mine, incoming)
               named == confs[Superconf(Slots(confs)).position].hashes
           IN  \A h \in Obsoleted(confs, named) :
                    /\ h \notin o.curr
                    /\ h[1] <= o.conf.seqno
                    /\ o.state # "Clean" => h[1] < o.conf.seqno
<1> DEFINE confs == AllConfs(o, mine, incoming)
           slots == Slots(confs)
           super == Superconf(slots)
           named == confs[super.position].hashes
<1>1. /\ MergeVector(slots) /\ WellFormedConfs(confs)
      /\ Cardinality(Kept(slots)) = 1
    BY AllConfsType, SlotsType
<1>2. /\ super.msg.seqno = MaxSeqno(slots) /\ super.msg.seqno = mine.seqno
      /\ super.position \in DOMAIN confs
      /\ super.msg \in confs[super.position].parsed
      /\ \/ HasOwn(o) /\ super.position = OwnPlace(o, confs)
         \/ \E j \in DOMAIN incoming : confs[super.position] = incoming[j]
    BY SuperconfPlace
<1>3. \A s \in slots : s.msg.seqno = MaxSeqno(slots) =>
        SeqnoHash(super.msg) = SeqnoHash(s.msg) /\ super.position <= s.position
    <2> HIDE DEF slots
    <2> QED BY <1>1, LoneSuperconf
<1>4. o.curr # {} => named = o.curr
    <2>1. SUFFICES ASSUME o.curr # {} PROVE named = o.curr
        OBVIOUS
    <2>2. OwnFirst(o) /\ HasOwn(o) /\ OwnPlace(o, confs) = 1
        BY <2>1 DEF Below, OwnFirst, HasOwn, OwnPlace, ConfigObject, Content
    <2>3. 1 \in DOMAIN confs /\ confs[1] = OwnConf(o, mine)
        BY <2>2, AllConfsPlaces
    <2> DEFINE s == [msg |-> mine, position |-> 1]
    <2>4. s \in slots /\ s.msg = mine /\ s.position = 1
        BY <2>3 DEF Slots, OwnConf
    <2>5. super.position <= 1
        <3> HIDE DEF slots, s, confs
        <3> QED BY <1>2, <1>3, <2>4
    <2>6. super.position = 1
        <3> HIDE DEF super, confs
        <3> QED BY <1>1, <1>2, <2>5 DEF WellFormedConfs
    <2> QED BY <2>3, <2>6 DEF OwnConf
<1>5. SUFFICES ASSUME NEW h \in Obsoleted(confs, named)
               PROVE  /\ h \notin o.curr /\ h[1] <= o.conf.seqno
                      /\ o.state # "Clean" => h[1] < o.conf.seqno
    OBVIOUS
<1>6. PICK s \in slots : /\ {h} # named /\ h[1] <= MaxSeqno(slots)
                         /\ SeqnoHash(s.msg) = h
                         /\ confs[s.position].hashes = {h}
                         /\ HasOwn(o) => s.position # OwnPlace(o, confs)
    <2>1. ~(h \in o.curr /\ o.curr # named)
        BY <1>4
    <2> QED BY <2>1, ObsoletedBelow
<1>7. h \notin o.curr
    BY <1>4, <1>6 DEF Below
<1>8. MaxSeqno(slots) = o.conf.seqno /\ o.conf.seqno \in Nat /\ h[1] = s.msg.seqno
      /\ s.msg.seqno \in Nat
    <2>1. s.msg \in Message
        BY <1>1, <1>6 DEF MergeVector
    <2> HIDE DEF slots, super
    <2> QED BY <1>2, <1>6, <2>1 DEF SeqnoHash, Message, ConfigObject, Content, super, slots
<1>9. ASSUME o.state # "Clean", h[1] = o.conf.seqno PROVE FALSE
    <2>1. SeqnoHash(super.msg) = h /\ super.position <= s.position
        BY <1>3, <1>6, <1>8, <1>9
    <2>2. CASE \E j \in DOMAIN incoming : confs[super.position] = incoming[j]
        <3>1. named = {SeqnoHash(super.msg)}
            BY <1>2, <2>2 DEF Legible
        <3> QED BY <1>6, <2>1, <3>1
    <2>3. CASE HasOwn(o) /\ super.position = OwnPlace(o, confs)
        <3>1. super.position = Len(confs)
            BY <1>9, <2>3 DEF Below, OwnPlace, OwnFirst
        <3>2. s.position \in DOMAIN confs /\ s.position # super.position
            BY <1>1, <1>6, <2>3, SlotsType
        <3> HIDE DEF confs, super
        <3> QED BY <1>1, <2>1, <3>1, <3>2 DEF WellFormedConfs
    <2> QED BY <1>2, <2>2, <2>3
<1> HIDE DEF slots
<1> QED BY <1>6, <1>7, <1>8, <1>9

(* Adopting a lone survivor keeps the hashes apart. *)
LEMMA AdoptSuperconfBelow ==
    ASSUME Aliens = {}, NEW o \in ConfigObject, Below(o),
           NEW mine, WellFormed(mine), mine.seqno = o.conf.seqno,
           NEW incoming, WellFormedConfs(incoming), Legible(incoming),
           Slots(AllConfs(o, mine, incoming)) # {},
           Cardinality(Kept(Slots(AllConfs(o, mine, incoming)))) = 1
    PROVE  Below(AdoptSuperconf(o, AllConfs(o, mine, incoming)))
<1> DEFINE confs == AllConfs(o, mine, incoming)
           super == Superconf(Slots(confs))
           named == SuperconfHashes(confs)
           n == AdoptSuperconf(o, confs)
<1>1. named = confs[super.position].hashes
    BY AdoptSuperconfCases
<1>2. CASE /\ n.state = o.state /\ n.conf = o.conf /\ n.curr = o.curr
           /\ n.old = o.old \cup Obsoleted(confs, named)
           /\ super.msg.seqno = o.conf.seqno
    <2>1. \A h \in Obsoleted(confs, named) :
                /\ h \notin o.curr /\ h[1] <= o.conf.seqno
                /\ o.state # "Clean" => h[1] < o.conf.seqno
        BY <1>1, <1>2, KeepOwnBelow
    <2>2. Below(n)
        <3> HIDE DEF n, named, confs, super
        <3> QED BY <1>2, <2>1 DEF Below
    <2> QED BY <2>2
<1>3. CASE /\ n.state = "Clean" /\ n.curr = named
           /\ n.old \subseteq o.old \cup o.curr \cup Obsoleted(confs, named)
           /\ n.conf.seqno >= super.msg.seqno /\ n.conf.seqno > o.conf.seqno
           /\ o.state # "Dirty" => super.msg.seqno > o.conf.seqno
           /\ \E j \in DOMAIN incoming : /\ super.msg \in incoming[j].parsed
                                         /\ named = incoming[j].hashes
    <2> DEFINE c == SeqnoHash(super.msg)
    <2>1. named = {c} /\ c[1] = super.msg.seqno
        BY <1>3 DEF Legible, SeqnoHash
    <2>2. /\ super.msg.seqno = MaxSeqno(Slots(confs)) /\ super.msg.seqno \in Nat
          /\ super.msg.seqno >= o.conf.seqno
        BY SuperconfPlace DEF Message
    <2>3. o.conf.seqno \in Nat /\ n.conf.seqno \in Nat
        <3>1. o.conf.seqno <= MaxSeqno(Slots(confs))
            BY OwnBelowMax
        <3>2. GoodStep(o, n)
            BY <3>1, AllConfsType, AdoptSuperconfStep
        <3> HIDE DEF n
        <3> QED BY <3>2 DEF GoodStep, ConfigObject, Content
    <2>4. \A h \in o.old \cup o.curr : /\ h[1] \in Nat /\ h[1] <= o.conf.seqno
                                       /\ o.state = "Dirty" => h[1] < o.conf.seqno
        <3>1. \A h \in o.old \cup o.curr : h[1] \in Nat
            BY DEF ConfigObject, Storage
        <3> QED BY <3>1 DEF Below
    <2>5. \A h \in Obsoleted(confs, named) :
            h \in o.curr \/ ({h} # named /\ h[1] <= MaxSeqno(Slots(confs)))
        BY ObsoletedBelow
    <2>6. c \notin o.old \cup o.curr
        <3>1. SUFFICES ASSUME c \in o.old \cup o.curr PROVE FALSE
            OBVIOUS
        <3>2. /\ c[1] <= o.conf.seqno
              /\ o.state = "Dirty" => c[1] < o.conf.seqno
            <4> HIDE DEF c
            <4> QED BY <2>4, <3>1
        <3>3. o.state # "Dirty" => super.msg.seqno > o.conf.seqno
            BY <1>3
        <3> HIDE DEF c, confs, super
        <3> QED BY <2>1, <2>2, <2>3, <3>2, <3>3
    <2>7. c \notin n.old
        <3> HIDE DEF c, confs, super, named, n
        <3> QED BY <1>3, <2>1, <2>5, <2>6
    <2>8. \A h \in n.old : h[1] <= n.conf.seqno
        <3>1. SUFFICES ASSUME NEW h \in n.old PROVE h[1] <= n.conf.seqno
            OBVIOUS
        <3>2. CASE h \in o.old \cup o.curr
            <4>1. h[1] \in Nat /\ h[1] <= o.conf.seqno
                BY <2>4, <3>2
            <4>2. n.conf.seqno > o.conf.seqno
                BY <1>3
            <4> HIDE DEF n
            <4> QED BY <2>3, <4>1, <4>2
        <3>3. CASE h \notin o.old \cup o.curr
            <4> HIDE DEF c, confs, super, named, n
            <4>1. h \in Obsoleted(confs, named)
                BY <1>3, <3>1, <3>3
            <4>2. h[1] <= super.msg.seqno
                BY <2>2, <2>5, <3>3, <4>1
            <4>3. h[1] \in Nat
                <5>1. Obsoleted(confs, named) \subseteq Storage
                    BY AllConfsType, ObsoletedType DEF confs
                <5> QED BY <4>1, <5>1 DEF Storage
            <4> QED BY <1>3, <2>2, <2>3, <4>2, <4>3
        <3> QED BY <3>2, <3>3
    <2>9. /\ n.state = "Clean" /\ n.curr = {c} /\ c[1] <= n.conf.seqno
          /\ n.conf.seqno > 0
        <3>1. n.conf.seqno >= super.msg.seqno /\ n.conf.seqno > o.conf.seqno
              /\ n.state = "Clean" /\ n.curr = named
            BY <1>3
        <3> HIDE DEF c, n, named, confs, super
        <3> QED BY <2>1, <2>2, <2>3, <3>1
    <2>10. Below(n)
        <3> HIDE DEF c, n
        <3> QED BY <2>7, <2>8, <2>9 DEF Below
    <2> QED BY <2>10
<1> QED BY <1>2, <1>3, AdoptSuperconfCases

(* A merge is one seqno above all it obsoletes, and stands on no hash. *)
LEMMA AdoptMergeBelow ==
    ASSUME Aliens = {}, NEW o \in ConfigObject, Below(o),
           NEW mine, WellFormed(mine), mine.seqno = o.conf.seqno,
           NEW incoming, WellFormedConfs(incoming), Legible(incoming),
           Slots(AllConfs(o, mine, incoming)) # {}
    PROVE  LET confs == AllConfs(o, mine, incoming)
               n == AdoptMerge(o, confs)
           IN  /\ Below(n) /\ n.state = "Dirty" /\ n.conf.seqno > o.conf.seqno
               /\ n.conf = MergeContent(Slots(confs)) /\ n.curr = {}
               /\ n.old \subseteq o.old \cup o.curr \cup Obsoleted(confs, {})
<1> DEFINE confs == AllConfs(o, mine, incoming)
           merged == MergeContent(Slots(confs))
           max == MaxSeqno(Slots(confs))
           more == Obsoleted(confs, {})
           marked == [o EXCEPT !.old = @ \cup more]
           orig == IF o.state = "Dirty" THEN merged.data ELSE EmptyData
           t == SetState(marked, "Dirty")
           n == AdoptMerge(o, confs)
<1>1. WellFormedConfs(confs) /\ MergeVector(Slots(confs))
    BY AllConfsType, SlotsType
<1>2. /\ merged.seqno = max + 1 /\ max \in Nat /\ o.conf.seqno <= max
      /\ o.conf.seqno \in Nat
    <2>1. o.conf.seqno <= max
        BY OwnBelowMax
    <2> HIDE DEF confs
    <2> QED BY <1>1, <2>1, MergeContentType, MaxSeqnoType DEF ConfigObject, Content
<1>3. more \subseteq Storage
    <2> HIDE DEF confs
    <2> QED BY <1>1, ObsoletedType
<1>4. /\ marked \in ConfigObject /\ marked.state = o.state /\ marked.curr = o.curr
      /\ marked.old = o.old \cup more
    <2> HIDE DEF more
    <2> QED BY <1>3, MarkedStep DEF ConfigObject
<1>5. /\ t \in ConfigObject /\ t.state = "Dirty" /\ t.curr = {}
      /\ t.old \subseteq o.old \cup o.curr \cup more
    <2> HIDE DEF marked, more
    <2>1. /\ t \in ConfigObject /\ t.state = "Dirty"
          /\ t.curr = IF marked.state = "Clean" THEN {} ELSE marked.curr
        BY <1>4, SetStateType DEF States
    <2>2. t.old = IF marked.state = "Clean" THEN marked.old \cup marked.curr ELSE marked.old
        BY <1>4 DEF SetState, ConfigObject
    <2> QED BY <1>4, <2>1, <2>2 DEF Below
<1>6. n.state = "Dirty" /\ n.conf = merged /\ n.curr = {} /\ n.old = t.old
    <2>1. n = [t EXCEPT !.conf = merged, !.orig = orig]
        BY DEF AdoptMerge
    <2> HIDE DEF n, merged, orig, t
    <2> QED BY <1>5, <2>1 DEF ConfigObject
<1>7. \A h \in o.old \cup o.curr \cup more : h[1] <= max
    <2>1. \A h \in o.old \cup o.curr : h[1] \in Nat /\ h[1] <= o.conf.seqno
        <3>1. \A h \in o.old \cup o.curr : h[1] \in Nat
            BY DEF ConfigObject, Storage
        <3> QED BY <3>1 DEF Below
    <2>2. \A h \in more : h \in o.curr \/ h[1] <= max
        BY ObsoletedBelow
    <2> HIDE DEF more, max
    <2> QED BY <1>2, <2>1, <2>2
<1>8. \A h \in n.old : h[1] \in Nat /\ h[1] < n.conf.seqno
    <2>1. \A h \in o.old \cup o.curr \cup more : h[1] \in Nat
        <3> HIDE DEF more
        <3> QED BY <1>3 DEF ConfigObject, Storage
    <2> HIDE DEF n, more, max, merged, t
    <2> QED BY <1>2, <1>5, <1>6, <1>7, <2>1
<1>9. n.conf = merged /\ n.old \subseteq o.old \cup o.curr \cup more
    BY <1>5, <1>6
<1> HIDE DEF n, merged, max, more, marked, t, orig
<1>10. Below(n) /\ n.state = "Dirty" /\ n.conf.seqno > o.conf.seqno /\ n.curr = {}
    BY <1>2, <1>6, <1>8 DEF Below
<1> QED BY <1>9, <1>10 DEF n, merged, more

(* merge(), on a device that can sign. *)
LEMMA MergeIncomingBelow ==
    ASSUME Aliens = {}, NEW o \in ConfigObject, Below(o),
           NEW mine, WellFormed(mine), mine.seqno = o.conf.seqno,
           NEW incoming, WellFormedConfs(incoming), Legible(incoming)
    PROVE  Below(MergeIncoming(o, mine, incoming, FALSE))
BY AdoptSuperconfBelow, AdoptMergeBelow DEF MergeIncoming, Unmerged

(* merge(), on any device: it keeps its config, or has a new one to push, or  *)
(* has the data and the storage hash of a message it was handed.            *)
LEMMA MergeIncomingCases ==
    ASSUME NEW o \in ConfigObject,
           NEW mine, WellFormed(mine), mine.seqno = o.conf.seqno,
           NEW incoming, WellFormedConfs(incoming), Legible(incoming),
           NEW readonly \in BOOLEAN
    PROVE  LET n == MergeIncoming(o, mine, incoming, readonly)
           IN  \/ n.state = o.state /\ n.conf = o.conf /\ n.curr = o.curr
               \/ n.state = "Dirty" /\ n.conf.seqno > o.conf.seqno
               \/ /\ n.state = "Clean"
                  /\ \E j \in DOMAIN incoming : \E m \in incoming[j].parsed :
                        n.conf.data = m.data /\ n.curr = incoming[j].hashes
<1> DEFINE confs == AllConfs(o, mine, incoming)
           n == MergeIncoming(o, mine, incoming, readonly)
<1>1. CASE Slots(confs) = {}
    BY <1>1 DEF MergeIncoming
<1>2. CASE Slots(confs) # {} /\ Unmerged(Slots(confs), readonly)
    <2>1. n = AdoptSuperconf(o, confs)
        BY <1>2 DEF MergeIncoming
    <2>2. \/ n.state = o.state /\ n.conf = o.conf /\ n.curr = o.curr
          \/ /\ n.state = "Clean" /\ n.curr = SuperconfHashes(confs)
             /\ n.conf.data = Superconf(Slots(confs)).msg.data
             /\ \E j \in DOMAIN incoming : /\ Superconf(Slots(confs)).msg \in incoming[j].parsed
                                           /\ SuperconfHashes(confs) = incoming[j].hashes
        BY <1>2, <2>1, AdoptSuperconfCases
    <2> QED BY <2>2
<1>3. CASE Slots(confs) # {} /\ ~Unmerged(Slots(confs), readonly)
    <2>1. n = AdoptMerge(o, confs)
        BY <1>3 DEF MergeIncoming
    <2>2. WellFormedConfs(confs) /\ MergeVector(Slots(confs))
        BY <1>3, AllConfsType, SlotsType
    <2>3. o.conf.seqno <= MaxSeqno(Slots(confs))
        BY <1>3, OwnBelowMax
    <2>4. n.conf = MergeContent(Slots(confs)) /\ n.state = "Dirty"
        <3>1. SetState([o EXCEPT !.old = @ \cup Obsoleted(confs, {})], "Dirty") \in ConfigObject
            <4>1. Obsoleted(confs, {}) \subseteq Storage
                BY <2>2, ObsoletedType
            <4> HIDE DEF confs
            <4> QED BY <4>1, MarkedStep, SetStateType DEF States
        <3>2. SetState([o EXCEPT !.old = @ \cup Obsoleted(confs, {})], "Dirty").state = "Dirty"
            BY DEF SetState, ConfigObject
        <3> HIDE DEF confs
        <3> QED BY <2>1, <3>1, <3>2 DEF AdoptMerge, ConfigObject
    <2>5. MergeContent(Slots(confs)).seqno = MaxSeqno(Slots(confs)) + 1
          /\ MaxSeqno(Slots(confs)) \in Nat /\ o.conf.seqno \in Nat
        <3> HIDE DEF confs
        <3> QED BY <2>2, MergeContentType, MaxSeqnoType DEF ConfigObject, Content
    <2>6. n.state = "Dirty" /\ n.conf.seqno > o.conf.seqno
        <3> HIDE DEF n, confs
        <3> QED BY <2>3, <2>4, <2>5
    <2> QED BY <2>6
<1> QED BY <1>1, <1>2, <1>3

-----------------------------------------------------------------------------
(* push(), confirm_pushed(), old_hashes() *)
LEMMA AfterPushStep ==
    ASSUME NEW o \in ConfigObject
    PROVE  GoodStep(o, AfterPush(o)) /\ AfterPush(o).conf.seqno = o.conf.seqno
<1> DEFINE conf == [o.conf EXCEPT !.diff = Serialize(o).diff]
           sent == [o EXCEPT !.conf = [@ EXCEPT !.diff = Serialize(o).diff], !.old = {}]
           t == SetState(sent, "Waiting")
<1>1. o.conf \in Content /\ Serialize(o).diff \in Diffs /\ o.conf.seqno \in Nat
    BY SerializeType DEF ConfigObject, Content
<1>2. conf \in Content /\ conf.seqno = o.conf.seqno /\ conf.data = o.conf.data
    BY <1>1 DEF Content
<1>3. /\ sent \in ConfigObject /\ sent.conf = conf /\ sent.state = o.state
      /\ sent.curr = o.curr /\ sent.needsDump = o.needsDump
    BY <1>2 DEF ConfigObject
<1>4. AfterPush(o) = IF o.state = "Dirty" THEN t ELSE sent
    BY DEF AfterPush
<1> HIDE DEF sent, conf
<1>5. /\ t \in ConfigObject /\ t.state = "Waiting" /\ t.conf = conf /\ t.needsDump = TRUE
      /\ t.curr = IF sent.state = "Clean" THEN {} ELSE sent.curr
    <2>1. "Waiting" \in States
        BY DEF States
    <2> QED BY <1>3, <2>1, SetStateType
<1> HIDE DEF t
<1>6. CASE o.state = "Dirty"
    BY <1>1, <1>2, <1>3, <1>4, <1>5, <1>6 DEF GoodStep
<1>7. CASE o.state # "Dirty"
    BY <1>1, <1>2, <1>3, <1>4, <1>7 DEF GoodStep
<1> QED BY <1>6, <1>7

(* confirm_pushed() keeps the object well formed and its seqno. *)
LEMMA ConfirmPushedStep ==
    ASSUME NEW o \in ConfigObject, NEW seqno, NEW hashes \in SUBSET Storage
    PROVE  GoodStep(o, ConfirmPushed(o, seqno, hashes))
<1> DEFINE t == SetState(o, "Clean")
           n == [t EXCEPT !.curr = hashes]
<1>1. o.conf.seqno \in Nat /\ "Clean" \in States
    BY DEF ConfigObject, Content, States
<1>2. t \in ConfigObject /\ t.state = "Clean" /\ t.conf = o.conf /\ t.needsDump = TRUE
    BY <1>1, SetStateType
<1>3. ConfirmPushed(o, seqno, hashes) =
        IF o.state = "Waiting" /\ seqno = o.conf.seqno THEN n ELSE o
    BY DEF ConfirmPushed
<1> HIDE DEF t
<1>4. n \in ConfigObject
    BY <1>2 DEF ConfigObject
<1>5. n.state = "Clean" /\ n.conf = o.conf /\ n.needsDump = TRUE
    BY <1>2 DEF ConfigObject
<1> HIDE DEF n
<1>6. GoodStep(o, n) /\ GoodStep(o, o)
    BY <1>1, <1>4, <1>5 DEF GoodStep
<1> QED BY <1>3, <1>6

(* old_hashes() changes nothing but the obsolete hashes. *)
LEMMA AfterOldHashesStep ==
    ASSUME NEW o \in ConfigObject
    PROVE  GoodStep(o, AfterOldHashes(o))
<1> DEFINE n == [o EXCEPT !.old = {}]
<1>1. AfterOldHashes(o) = IF o.state = "Dirty" THEN o ELSE n
    BY DEF AfterOldHashes
<1>2. n \in ConfigObject
    BY DEF ConfigObject
<1>3. /\ n.state = o.state /\ n.conf = o.conf /\ n.curr = o.curr
      /\ n.needsDump = o.needsDump
    BY DEF ConfigObject
<1>4. o.conf.seqno \in Nat
    BY DEF ConfigObject, Content
<1> HIDE DEF n
<1>5. GoodStep(o, n) /\ GoodStep(o, o)
    BY <1>2, <1>3, <1>4 DEF GoodStep
<1> QED BY <1>1, <1>5

(* dump() changes nothing but the flag and a reader's obsolete hashes, and   *)
(* the record it makes has what a restart needs.                            *)
LEMMA AfterDumpType ==
    ASSUME NEW o \in ConfigObject, NEW readonly
    PROVE  /\ AfterDump(o, readonly) \in ConfigObject
           /\ AfterDump(o, readonly).conf = o.conf
           /\ AfterDump(o, readonly).state = o.state
           /\ AfterDump(o, readonly).curr = o.curr
BY DEF AfterDump, ConfigObject

(* dump() writes a well-formed record. *)
LEMMA MakeDumpType ==
    ASSUME NEW o \in ConfigObject, NEW readonly
    PROVE  /\ MakeDump(o, readonly) \in DumpRecord
           /\ Windowed(MakeDump(o, readonly).conf)
           /\ MakeDump(o, readonly).state = o.state
           /\ MakeDump(o, readonly).conf = Serialize(o)
           /\ MakeDump(o, readonly).conf.data = o.conf.data
           /\ MakeDump(o, readonly).curr = o.curr
BY SerializeType DEF MakeDump, ConfigObject, DumpRecord

(* init(dump): what is loaded has the dump's state, data and hashes. *)
LEMMA LoadDumpType ==
    ASSUME NEW d \in DumpRecord, NEW saved \in Message, ContentOf(saved) = d.conf
    PROVE  /\ LoadDump(d, saved) \in ConfigObject
           /\ LoadDump(d, saved).state = d.state
           /\ LoadDump(d, saved).conf.data = d.conf.data
           /\ LoadDump(d, saved).curr = d.curr
<1> DEFINE conf == IF d.state = "Dirty" THEN Increment(saved) ELSE ContentOf(saved)
<1>1. conf \in Content
    BY IncrementType, ContentOfType
<1>2. conf.data = d.conf.data
    BY DEF Increment, ContentOf
<1>3. conf.data \in Data
    <2> HIDE DEF conf
    <2> QED BY <1>1 DEF Content
<1>4. LoadDump(d, saved) =
        [state |-> d.state, conf |-> conf, orig |-> conf.data,
         curr |-> d.curr, old |-> d.old, needsDump |-> FALSE]
    BY DEF LoadDump
<1> HIDE DEF conf
<1> QED BY <1>1, <1>2, <1>3, <1>4 DEF ConfigObject, DumpRecord

-----------------------------------------------------------------------------
(***************************************************************************)
(* The other operations keep the hashes apart.                             *)
(***************************************************************************)

(* A setter: whatever was current is now below the seqno being edited. *)
LEMMA SetFieldBelow ==
    ASSUME Aliens = {}, NEW o \in ConfigObject, Below(o), NEW mine \in Message,
           NEW k \in Keys, NEW v \in Values \cup {Absent},
           o.state # "Dirty" => mine.seqno = o.conf.seqno
    PROVE  LET n == SetField(o, mine, k, v)
           IN  /\ Below(n) /\ n.state = "Dirty"
               /\ o.state = "Dirty" => n.conf.seqno = o.conf.seqno
               /\ o.state # "Dirty" => n.conf.seqno = o.conf.seqno + 1
<1> DEFINE d == MakeDirty(o, mine)
           n == SetField(o, mine, k, v)
           t == SetState(o, "Dirty")
<1>1. o.conf \in Content /\ o.conf.seqno \in Nat /\ \A h \in o.old \cup o.curr : h[1] \in Nat
    BY DEF ConfigObject, Content, Storage
<1>2. /\ d \in ConfigObject /\ d.state = "Dirty" /\ d.curr = {}
      /\ d.old \subseteq o.old \cup o.curr
      /\ o.state = "Dirty" => d.conf.seqno = o.conf.seqno /\ d.old = o.old
      /\ o.state # "Dirty" => d.conf.seqno = o.conf.seqno + 1
    <2>1. CASE o.state = "Dirty"
        <3>1. d = [o EXCEPT !.needsDump = TRUE]
            BY <2>1 DEF MakeDirty
        <3> HIDE DEF d
        <3> QED BY <2>1, <3>1 DEF ConfigObject, Below
    <2>2. CASE o.state # "Dirty"
        <3>1. /\ t \in ConfigObject /\ t.state = "Dirty"
              /\ t.curr = IF o.state = "Clean" THEN {} ELSE o.curr
              /\ t.old \subseteq o.old \cup o.curr
            BY SetStateType DEF States, SetState, ConfigObject
        <3>2. Increment(mine) \in Content /\ Increment(mine).seqno = mine.seqno + 1
              /\ mine.data \in Data
            BY IncrementType DEF Increment, Message
        <3>3. d = [t EXCEPT !.conf = Increment(mine), !.orig = mine.data]
            BY <2>2 DEF MakeDirty
        <3> HIDE DEF d, t
        <3>4. d \in ConfigObject
            BY <3>1, <3>2, <3>3 DEF ConfigObject
        <3>5. /\ d.state = "Dirty" /\ d.conf = Increment(mine) /\ d.curr = t.curr
              /\ d.old = t.old
            BY <3>1, <3>3 DEF ConfigObject
        <3> QED BY <2>2, <3>1, <3>2, <3>4, <3>5 DEF Below
    <2> QED BY <2>1, <2>2
<1>3. n = [d EXCEPT !.conf.data[k] = v]
    BY DEF SetField
<1> HIDE DEF d
<1>4. /\ n.state = "Dirty" /\ n.conf.seqno = d.conf.seqno /\ n.curr = {} /\ n.old = d.old
    BY <1>2, <1>3 DEF ConfigObject, Content
<1> HIDE DEF n
<1>5. Below(n)
    <2>1. CASE o.state = "Dirty"
        BY <1>2, <1>4, <2>1 DEF Below
    <2>2. CASE o.state # "Dirty"
        <3>1. \A h \in o.old \cup o.curr : h[1] \in Nat /\ h[1] <= o.conf.seqno
            BY <1>1 DEF Below
        <3>2. \A h \in n.old : h[1] < n.conf.seqno /\ h[1] <= n.conf.seqno
            BY <1>1, <1>2, <1>4, <2>2, <3>1
        <3> QED BY <1>1, <1>2, <1>4, <2>2, <3>2 DEF Below
    <2> QED BY <2>1, <2>2
<1> QED BY <1>2, <1>4, <1>5 DEF n

(* push() hands out the obsolete hashes and keeps none. *)
LEMMA AfterPushBelow ==
    ASSUME NEW o \in ConfigObject, Below(o), NeedsPush(o)
    PROVE  LET n == AfterPush(o)
           IN  /\ Below(n) /\ n.state = "Waiting" /\ n.conf.seqno = o.conf.seqno
               /\ n.conf.data = o.conf.data
<1> DEFINE conf == [o.conf EXCEPT !.diff = Serialize(o).diff]
           sent == [o EXCEPT !.conf = [@ EXCEPT !.diff = Serialize(o).diff], !.old = {}]
           t == SetState(sent, "Waiting")
           n == AfterPush(o)
<1>1. o.conf \in Content /\ Serialize(o).diff \in Diffs
    BY SerializeType DEF ConfigObject, Content
<1>2. conf \in Content /\ conf.seqno = o.conf.seqno /\ conf.data = o.conf.data
    BY <1>1 DEF Content
<1>3. /\ sent \in ConfigObject /\ sent.conf = conf /\ sent.state = o.state
      /\ sent.curr = o.curr /\ sent.old = {}
    BY <1>2 DEF ConfigObject
<1>4. n = IF o.state = "Dirty" THEN t ELSE sent
    BY DEF AfterPush
<1>5. o.state \in {"Dirty", "Waiting"} /\ o.curr = {} /\ o.conf.seqno > 0
    BY DEF NeedsPush, ConfigObject, States, Below
<1> HIDE DEF sent
<1>6. /\ t \in ConfigObject /\ t.state = "Waiting" /\ t.conf = conf
      /\ o.state = "Dirty" => t.curr = {} /\ t.old = {}
    <2> HIDE DEF conf
    <2>1. /\ t \in ConfigObject /\ t.state = "Waiting" /\ t.conf = sent.conf
          /\ t.curr = IF sent.state = "Clean" THEN {} ELSE sent.curr
        BY <1>3, SetStateType DEF States
    <2>2. t.old = IF sent.state = "Clean" THEN sent.old \cup sent.curr ELSE sent.old
        BY <1>3 DEF SetState, ConfigObject
    <2> QED BY <1>3, <1>5, <2>1, <2>2
<1> HIDE DEF t, conf
<1>7. /\ n.state = "Waiting" /\ n.conf = conf /\ n.curr = {} /\ n.old = {}
    <2>1. CASE o.state = "Dirty"
        BY <1>4, <1>6, <2>1
    <2>2. CASE o.state # "Dirty"
        BY <1>3, <1>4, <1>5, <2>2
    <2> QED BY <2>1, <2>2
<1> HIDE DEF n
<1> QED BY <1>2, <1>5, <1>7 DEF Below, n

(* confirm_pushed() takes a hash of its own seqno, which none of the obsolete *)
(* ones of a config that waits is.                                          *)
LEMMA ConfirmPushedBelow ==
    ASSUME Aliens = {}, NEW o \in ConfigObject, Below(o), NEW seqno, NEW h \in Storage,
           h[1] = seqno
    PROVE  LET n == ConfirmPushed(o, seqno, {h})
           IN  /\ Below(n) /\ n.conf = o.conf
               /\ \/ n = o
                  \/ /\ o.state = "Waiting" /\ seqno = o.conf.seqno
                     /\ n.state = "Clean" /\ n.curr = {h}
<1> DEFINE t == SetState(o, "Clean")
           n == ConfirmPushed(o, seqno, {h})
<1>1. CASE o.state = "Waiting" /\ seqno = o.conf.seqno
    <2>1. /\ t \in ConfigObject /\ t.state = "Clean" /\ t.conf = o.conf /\ t.old = o.old
        BY <1>1, SetStateType DEF States, SetState, ConfigObject
    <2>2. n = [t EXCEPT !.curr = {h}]
        BY <1>1 DEF ConfirmPushed
    <2> HIDE DEF t, n
    <2>3. n.state = "Clean" /\ n.conf = o.conf /\ n.old = o.old /\ n.curr = {h}
        BY <2>1, <2>2 DEF ConfigObject
    <2>4. \A g \in o.old : g[1] \in Nat /\ g[1] < o.conf.seqno
        BY <1>1 DEF Below, ConfigObject, Storage
    <2>5. h \notin o.old /\ o.conf.seqno \in Nat /\ o.conf.seqno > 0
        BY <1>1, <2>4 DEF Below, ConfigObject, Content
    <2>6. \A g \in n.old : g[1] <= n.conf.seqno
        BY <2>3, <2>4, <2>5
    <2>7. h \notin n.old /\ h[1] <= n.conf.seqno /\ n.conf.seqno > 0
        BY <1>1, <2>3, <2>5
    <2>8. Below(n)
        BY <2>3, <2>6, <2>7 DEF Below
    <2> QED BY <1>1, <2>3, <2>8 DEF n
<1>2. CASE ~(o.state = "Waiting" /\ seqno = o.conf.seqno)
    BY <1>2 DEF ConfirmPushed
<1> QED BY <1>1, <1>2

(* old_hashes() and dump() only forget obsolete hashes, a record keeps what   *)
(* the object had, and loading one puts it back: one seqno on if it is dirty. *)
LEMMA SavedBelow ==
    ASSUME Aliens = {}, NEW o \in ConfigObject, Below(o)
    PROVE  /\ Below(AfterOldHashes(o)) /\ AfterOldHashes(o).conf = o.conf
           /\ AfterOldHashes(o).state = o.state /\ AfterOldHashes(o).curr = o.curr
           /\ \A readonly \in BOOLEAN : /\ Below(AfterDump(o, readonly))
                                        /\ Below(MakeDump(o, readonly))
<1>1. Serialize(o).seqno = o.conf.seqno
    BY SerializeType
<1>2. /\ Below(AfterOldHashes(o)) /\ AfterOldHashes(o).conf = o.conf
      /\ AfterOldHashes(o).state = o.state /\ AfterOldHashes(o).curr = o.curr
    BY DEF AfterOldHashes, Below, ConfigObject
<1>3. ASSUME NEW readonly \in BOOLEAN
      PROVE  Below(AfterDump(o, readonly)) /\ Below(MakeDump(o, readonly))
    <2>1. Below(AfterDump(o, readonly))
        BY DEF AfterDump, Below, ConfigObject
    <2>2. Below(MakeDump(o, readonly))
        BY <1>1 DEF MakeDump, Below
    <2> QED BY <2>1, <2>2
<1> QED BY <1>2, <1>3

(* init(dump) *)
LEMMA LoadDumpBelow ==
    ASSUME Aliens = {}, NEW d \in DumpRecord, Below(d),
           NEW saved \in Message, ContentOf(saved) = d.conf
    PROVE  /\ Below(LoadDump(d, saved))
           /\ d.state # "Dirty" => LoadDump(d, saved).conf = d.conf
<1> DEFINE n == LoadDump(d, saved)
<1>1. /\ n.state = d.state /\ n.curr = d.curr /\ n.old = d.old
      /\ n.conf = IF d.state = "Dirty" THEN Increment(saved) ELSE ContentOf(saved)
    BY DEF LoadDump
<1>2. /\ n.conf.seqno = IF d.state = "Dirty" THEN d.conf.seqno + 1 ELSE d.conf.seqno
      /\ d.conf.seqno \in Nat
    <2>1. saved.seqno = d.conf.seqno
        BY DEF ContentOf
    <2>2. Increment(saved).seqno = saved.seqno + 1 /\ ContentOf(saved).seqno = saved.seqno
        BY DEF Increment, ContentOf
    <2> QED BY <1>1, <2>1, <2>2 DEF DumpRecord, Content
<1>3. \A h \in d.old \cup d.curr : h[1] \in Nat
    BY DEF DumpRecord, Storage
<1> HIDE DEF n
<1>4. Below(n)
    <2>1. CASE d.state = "Dirty"
        <3>1. \A h \in n.old : h[1] <= n.conf.seqno /\ h[1] < n.conf.seqno
            BY <1>1, <1>2, <1>3, <2>1 DEF Below
        <3> QED BY <1>1, <1>2, <2>1, <3>1 DEF Below
    <2>2. CASE d.state # "Dirty"
        BY <1>1, <1>2, <2>2 DEF Below
    <2> QED BY <2>1, <2>2
<1> QED BY <1>1, <1>4 DEF n

-----------------------------------------------------------------------------
(***************************************************************************)
(* What the config of an object accounts for.                              *)
(***************************************************************************)

(* The hashes are of known messages, none of them the empty one, and c       *)
(* covers each of these.                                                    *)
Covered(c, hashes, known) ==
    \A h \in hashes : \E m \in known : SeqnoHash(m) = h /\ 0 < m.seqno /\ Covers(c, m)

(* The same, and c is later than all of these. *)
Surpassed(c, hashes, known) ==
    \A h \in hashes : \E m \in known : SeqnoHash(m) = h /\ 0 < m.seqno /\ Above(c, m)

(* All that an object has obsoleted, or stands on, is covered by what it      *)
(* would push.                                                              *)
Accountable(o, known) == Covered(Serialize(o), o.old \cup o.curr, known)

(* The messages are distinct, and each is grounded in the others. *)
Sound(known) ==
    /\ known \subseteq Message /\ Distinct(known)
    /\ \A m \in known : Windowed(m) /\ Grounded(m, known)

(* What is above a message, or covers it, covers what the message covers. *)
LEMMA CoveredThrough ==
    ASSUME NEW known, Sound(known), NEW n \in known, NEW hashes,
           Covered(ContentOf(n), hashes, known), NEW c, c.seqno \in Nat, Covers(c, n)
    PROVE  /\ Covered(c, hashes, known)
           /\ Above(c, n) => Surpassed(c, hashes, known)
<1>1. SUFFICES ASSUME NEW h \in hashes
               PROVE  /\ \E m \in known : SeqnoHash(m) = h /\ 0 < m.seqno /\ Covers(c, m)
                      /\ Above(c, n) => \E m \in known :
                                SeqnoHash(m) = h /\ 0 < m.seqno /\ Above(c, m)
    BY DEF Covered, Surpassed
<1>2. PICK m \in known : SeqnoHash(m) = h /\ 0 < m.seqno /\ Covers(ContentOf(n), m)
    BY DEF Covered
<1>3. /\ n \in Message /\ m \in Message
      /\ ContentOf(n) = ContentOf(m) => n = m
    BY DEF Sound, Distinct
<1>4. Covers(c, m) /\ (Above(c, n) => Above(c, m))
    BY <1>2, <1>3, CoversTransitive, AboveCovered
<1> QED BY <1>2, <1>4

(* Contents of one seqno with the same lagged diffs are above the same. *)
LEMMA SameAbove ==
    ASSUME NEW c, NEW w, w.seqno = c.seqno, w.lagged = c.lagged
    PROVE  /\ \A m : Above(c, m) => Above(w, m)
           /\ \A known : Grounded(c, known) => Grounded(w, known)
BY DEF Above, Accounts, Grounded

(* What is serialised is above what the config is above. *)
LEMMA SerializeAbove ==
    ASSUME NEW o \in ConfigObject, NEW known, Grounded(o.conf, known)
    PROVE  /\ Grounded(Serialize(o), known)
           /\ \A m : Above(o.conf, m) => Above(Serialize(o), m)
<1> DEFINE c == o.conf
           w == Serialize(o)
<1>1. /\ c.seqno \in Nat /\ c.lagged \subseteq LaggedDiff
      /\ \A e \in c.lagged : e.seqno < c.seqno
    BY DEF ConfigObject, Content, FiniteSubsets, Grounded
<1>2. w.seqno = c.seqno /\ w.lagged = Window(c.seqno, c.lagged)
    BY DEF Serialize
<1> HIDE DEF w, c
<1>3. /\ \A m : Above(c, m) => Above(w, m)
      /\ \A k : Grounded(c, k) => Grounded(w, k)
    BY <1>1, <1>2, WindowAbove
<1> QED BY <1>3 DEF c, w

(* A parsed message that is kept as it is serialises to itself. *)
LEMMA SerializeParsed ==
    ASSUME NEW o, NEW m \in Message, Windowed(m), o.state # "Dirty", o.conf = ContentOf(m)
    PROVE  Serialize(o) = ContentOf(m)
<1>1. Window(m.seqno, m.lagged) = m.lagged
    BY DEF Window, Windowed
<1>2. /\ o.conf.seqno = m.seqno /\ o.conf.data = m.data /\ o.conf.diff = m.diff
      /\ o.conf.lagged = m.lagged
    BY DEF ContentOf
<1> QED BY <1>1, <1>2 DEF Serialize, ContentOf

(* While a config is to be pushed it is above all that it has obsoleted. *)
LEMMA UncleanAbove ==
    ASSUME NEW o \in ConfigObject, Below(o), o.state # "Clean",
           NEW known, known \subseteq Message, Accountable(o, known)
    PROVE  Surpassed(Serialize(o), o.old \cup o.curr, known)
<1>1. SUFFICES ASSUME NEW h \in o.old \cup o.curr
               PROVE  \E m \in known : SeqnoHash(m) = h /\ 0 < m.seqno /\ Above(Serialize(o), m)
    BY DEF Surpassed
<1>2. PICK m \in known : SeqnoHash(m) = h /\ 0 < m.seqno /\ Covers(Serialize(o), m)
    BY DEF Accountable, Covered
<1>3. h[1] < o.conf.seqno /\ h[1] = m.seqno
    BY <1>2 DEF Below, SeqnoHash
<1>4. ContentOf(m) # Serialize(o)
    <2>1. ContentOf(m).seqno = m.seqno /\ Serialize(o).seqno = o.conf.seqno
        BY DEF ContentOf, Serialize
    <2>2. m.seqno \in Nat /\ o.conf.seqno \in Nat
        BY DEF Message, ConfigObject, Content
    <2> QED BY <1>3, <2>1, <2>2
<1> QED BY <1>2, <1>4 DEF Covers

(* An object whose config is above messages with the hashes it holds is      *)
(* accountable.                                                             *)
LEMMA AboveAccountable ==
    ASSUME NEW n \in ConfigObject, NEW known, Grounded(n.conf, known),
           Surpassed(n.conf, n.old \cup n.curr, known)
    PROVE  Accountable(n, known)
BY SerializeAbove DEF Accountable, Covered, Surpassed, Covers

(* What an object that has adopted or incremented a parsed message stands for. *)
LEMMA TakenOver ==
    ASSUME NEW n \in ConfigObject, NEW known, Sound(known), NEW m \in known,
           Covered(ContentOf(m), n.old \cup n.curr, known),
           \/ n.state # "Dirty" /\ n.conf = ContentOf(m)
           \/ n.conf.seqno = Increment(m).seqno /\ n.conf.lagged = Increment(m).lagged
    PROVE  Grounded(n.conf, known) /\ Accountable(n, known)
<1>1. m \in Message /\ Windowed(m) /\ Grounded(m, known) /\ known \subseteq Message
    BY DEF Sound
<1>2. CASE n.state # "Dirty" /\ n.conf = ContentOf(m)
    <2>1. Serialize(n) = ContentOf(m)
        BY <1>1, <1>2, SerializeParsed
    <2>2. Grounded(n.conf, known)
        BY <1>1, <1>2, SameAbove DEF ContentOf
    <2> QED BY <2>1, <2>2 DEF Accountable
<1>3. CASE n.conf.seqno = Increment(m).seqno /\ n.conf.lagged = Increment(m).lagged
    <2> DEFINE c == Increment(m)
    <2>1. Above(c, m) /\ Grounded(c, known) /\ c.seqno \in Nat
        BY <1>1, IncrementAbove, IncrementType DEF Content
    <2> HIDE DEF c
    <2>2. Surpassed(c, n.old \cup n.curr, known)
        BY <2>1, CoveredThrough DEF Covers
    <2>3. Grounded(n.conf, known) /\ \A x : Above(c, x) => Above(n.conf, x)
        BY <1>3, <2>1, SameAbove DEF c
    <2> QED BY <2>2, <2>3, AboveAccountable DEF Surpassed
<1> QED BY <1>2, <1>3

(* A setter keeps the lagged diffs of a dirty config, and puts them one      *)
(* seqno on for another.                                                    *)
LEMMA SetFieldAccountable ==
    ASSUME Aliens = {}, NEW o \in ConfigObject, Below(o), NEW mine \in Message,
           NEW k \in Keys, NEW v \in Values \cup {Absent},
           NEW known, Sound(known), Accountable(o, known), Grounded(o.conf, known),
           o.state # "Dirty" => mine \in known /\ ContentOf(mine) = Serialize(o)
    PROVE  LET n == SetField(o, mine, k, v)
           IN  Grounded(n.conf, known) /\ Accountable(n, known)
<1> DEFINE d == MakeDirty(o, mine)
           n == SetField(o, mine, k, v)
           t == SetState(o, "Dirty")
<1>1. o.state # "Dirty" => mine.seqno = o.conf.seqno
    <2>1. ContentOf(mine).seqno = mine.seqno
        BY DEF ContentOf
    <2> QED BY <2>1, SerializeType
<1>2. n \in ConfigObject /\ n.state = "Dirty" /\ Below(n)
    <2>1. n \in ConfigObject
        <3> HIDE DEF n
        <3> QED BY <1>1, SetFieldStep DEF GoodStep, n
    <2> QED BY <1>1, <2>1, SetFieldBelow
<1>3. n = [d EXCEPT !.conf.data[k] = v]
    BY DEF SetField
<1>4. CASE o.state = "Dirty"
    <2>1. d = [o EXCEPT !.needsDump = TRUE]
        BY <1>4 DEF MakeDirty
    <2> HIDE DEF d
    <2>2. /\ n.conf.seqno = o.conf.seqno /\ n.conf.lagged = o.conf.lagged
          /\ n.old = o.old /\ n.curr = o.curr
        BY <1>3, <2>1 DEF ConfigObject, Content
    <2> HIDE DEF n
    <2>3. Serialize(n).seqno = Serialize(o).seqno /\ Serialize(n).lagged = Serialize(o).lagged
        BY <2>2 DEF Serialize
    <2>4. Surpassed(Serialize(o), n.old \cup n.curr, known)
        BY <1>4, <2>2, UncleanAbove DEF Sound
    <2>5. \A m : Above(Serialize(o), m) => Above(Serialize(n), m)
        <3> DEFINE p == Serialize(o)
                   q == Serialize(n)
        <3> HIDE DEF p, q
        <3>1. \A m : Above(p, m) => Above(q, m)
            BY <2>3, SameAbove DEF p, q
        <3> QED BY <3>1 DEF p, q
    <2>6. Grounded(n.conf, known)
        BY <2>2, SameAbove
    <2> QED BY <2>4, <2>5, <2>6 DEF n, Accountable, Surpassed, Covered, Covers
<1>5. CASE o.state # "Dirty"
    <2>1. t \in ConfigObject /\ t.old \subseteq o.old \cup o.curr /\ t.curr \subseteq o.curr
        BY SetStateType DEF States, SetState, ConfigObject
    <2>2. Increment(mine) \in Content /\ mine.data \in Data
        BY IncrementType DEF Message
    <2>3. d = [t EXCEPT !.conf = Increment(mine), !.orig = mine.data]
        BY <1>5 DEF MakeDirty
    <2> HIDE DEF d, t
    <2>4. d \in ConfigObject /\ d.conf = Increment(mine) /\ d.old = t.old /\ d.curr = t.curr
        BY <2>1, <2>2, <2>3 DEF ConfigObject
    <2>5. /\ n.conf.seqno = Increment(mine).seqno /\ n.conf.lagged = Increment(mine).lagged
          /\ n.old = t.old /\ n.curr = t.curr
        BY <1>3, <2>4 DEF ConfigObject, Content
    <2> HIDE DEF n
    <2>6. Covered(ContentOf(mine), n.old \cup n.curr, known)
        BY <1>5, <2>1, <2>5 DEF Accountable, Covered
    <2>7. Grounded(n.conf, known) /\ Accountable(n, known)
        BY <1>2, <1>5, <2>5, <2>6, TakenOver
    <2> QED BY <2>7 DEF n
<1> QED BY <1>4, <1>5

(* push() hands out what it has obsoleted and keeps the content it sent. *)
LEMMA AfterPushAccountable ==
    ASSUME NEW o \in ConfigObject, Below(o), NeedsPush(o), NEW known, Grounded(o.conf, known)
    PROVE  LET n == AfterPush(o)
           IN  /\ Grounded(n.conf, known) /\ Accountable(n, known)
               /\ Serialize(n) = Serialize(o)
<1> DEFINE diff == Serialize(o).diff
           sent == [o EXCEPT !.conf = [@ EXCEPT !.diff = diff], !.old = {}]
           n == AfterPush(o)
<1>1. n = IF o.state = "Dirty" THEN SetState(sent, "Waiting") ELSE sent
    BY DEF AfterPush
<1>2. diff \in Diffs
    BY SerializeType DEF Content
<1>3. diff = IF o.state = "Dirty" THEN Diff(o.orig, o.conf.data) ELSE o.conf.diff
    BY DEF Serialize
<1> HIDE DEF diff
<1>4. /\ sent.conf.seqno = o.conf.seqno /\ sent.conf.data = o.conf.data
      /\ sent.conf.lagged = o.conf.lagged /\ sent.conf.diff = diff
      /\ sent.old = {} /\ sent.curr = o.curr /\ sent.state = o.state
      /\ sent \in ConfigObject
    BY <1>2 DEF ConfigObject, Content
<1> HIDE DEF sent
<1>5. /\ n.conf = sent.conf /\ n.state # "Dirty" /\ n.old = {} /\ n.curr = {}
    <2>1. CASE o.state = "Dirty"
        <3>1. n = SetState(sent, "Waiting")
            BY <1>1, <2>1
        <3> HIDE DEF n
        <3> QED BY <1>4, <2>1, <3>1 DEF SetState, ConfigObject, Below
    <2>2. CASE o.state # "Dirty"
        BY <1>1, <1>4, <2>2 DEF NeedsPush, Below
    <2> QED BY <2>1, <2>2
<1> HIDE DEF n
<1>6. Grounded(n.conf, known)
    BY <1>4, <1>5, SameAbove
<1>7. Accountable(n, known)
    BY <1>5 DEF Accountable, Covered
<1>8. Serialize(n) = Serialize(o)
    BY <1>3, <1>4, <1>5 DEF Serialize
<1> QED BY <1>6, <1>7, <1>8 DEF n

(* confirm_pushed() takes the hash of the very content that waits. *)
LEMMA ConfirmPushedAccountable ==
    ASSUME NEW o \in ConfigObject, Below(o), NEW seqno, NEW known, known \subseteq Message,
           NEW p \in known, Accountable(o, known),
           o.state = "Waiting" /\ seqno = o.conf.seqno => ContentOf(p) = Serialize(o)
    PROVE  Accountable(ConfirmPushed(o, seqno, {SeqnoHash(p)}), known)
<1> DEFINE h == SeqnoHash(p)
           n == ConfirmPushed(o, seqno, {h})
           t == SetState(o, "Clean")
<1>1. CASE o.state = "Waiting" /\ seqno = o.conf.seqno
    <2>1. n = [t EXCEPT !.curr = {h}]
        BY <1>1 DEF ConfirmPushed
    <2>2. t = [o EXCEPT !.state = "Clean", !.needsDump = TRUE]
        BY <1>1 DEF SetState, ConfigObject
    <2> HIDE DEF n, t, h
    <2>3. n.conf = o.conf /\ n.state = "Clean" /\ n.old = o.old /\ n.curr = {h}
        BY <2>1, <2>2 DEF ConfigObject
    <2>4. Serialize(n) = Serialize(o)
        BY <1>1, <2>3 DEF Serialize
    <2>5. ContentOf(p) = Serialize(o) /\ 0 < p.seqno
        <3>1. ContentOf(p).seqno = p.seqno
            BY DEF ContentOf
        <3>2. Serialize(o).seqno = o.conf.seqno /\ o.conf.seqno > 0
            BY <1>1, SerializeType DEF Below
        <3> QED BY <1>1, <3>1, <3>2
    <2> QED BY <2>3, <2>4, <2>5 DEF n, h, Accountable, Covered, Covers
<1>2. CASE ~(o.state = "Waiting" /\ seqno = o.conf.seqno)
    BY <1>2 DEF ConfirmPushed
<1> QED BY <1>1, <1>2

(* A dump accounts for what the object does. *)
LEMMA DumpAccountable ==
    ASSUME NEW o \in ConfigObject, NEW readonly, NEW known, Grounded(o.conf, known),
           Accountable(o, known)
    PROVE  LET n == AfterDump(o, readonly)
               e == MakeDump(o, readonly)
           IN  /\ Accountable(n, known)
               /\ Grounded(e.conf, known) /\ Covered(e.conf, e.old \cup e.curr, known)
<1> DEFINE n == AfterDump(o, readonly)
           e == MakeDump(o, readonly)
<1>1. /\ n.conf = o.conf /\ n.state = o.state /\ n.orig = o.orig
      /\ n.old \subseteq o.old /\ n.curr = o.curr
    BY DEF AfterDump, ConfigObject
<1>2. e.conf = Serialize(o) /\ e.old \subseteq o.old /\ e.curr = o.curr
    BY DEF MakeDump
<1> HIDE DEF n, e
<1>3. Serialize(n) = Serialize(o)
    BY <1>1 DEF Serialize
<1> QED BY <1>1, <1>2, <1>3, SerializeAbove DEF n, e, Accountable, Covered

(* A loaded dump accounts for what the dump did. *)
LEMMA LoadDumpAccountable ==
    ASSUME NEW e \in DumpRecord, NEW known, Sound(known), NEW saved \in known,
           ContentOf(saved) = e.conf, Covered(e.conf, e.old \cup e.curr, known)
    PROVE  LET n == LoadDump(e, saved)
           IN  Grounded(n.conf, known) /\ Accountable(n, known)
<1> DEFINE n == LoadDump(e, saved)
<1>1. saved \in Message
    BY DEF Sound
<1>2. n \in ConfigObject
    BY <1>1, LoadDumpType
<1>3. /\ n.conf = IF e.state = "Dirty" THEN Increment(saved) ELSE ContentOf(saved)
      /\ n.state = e.state /\ n.old = e.old /\ n.curr = e.curr
    BY DEF LoadDump
<1> HIDE DEF n
<1>4. \/ n.state # "Dirty" /\ n.conf = ContentOf(saved)
      \/ n.conf.seqno = Increment(saved).seqno /\ n.conf.lagged = Increment(saved).lagged
    BY <1>3
<1>5. Covered(ContentOf(saved), n.old \cup n.curr, known)
    BY <1>3
<1> QED BY <1>2, <1>4, <1>5, TakenOver DEF n

(* What takes part in a merge is known: our own message, when it does, and      *)
(* what was received.                                                       *)
KnownIncoming(incoming, known) == \A j \in DOMAIN incoming : incoming[j].parsed \subseteq known

LEMMA MergeKnown ==
    ASSUME NEW o \in ConfigObject, NEW mine, WellFormed(mine),
           NEW incoming, WellFormedConfs(incoming),
           NEW known, Sound(known), KnownIncoming(incoming, known),
           HasOwn(o) => mine \in known,
           Slots(AllConfs(o, mine, incoming)) # {}
    PROVE  KnownVector(Slots(AllConfs(o, mine, incoming)), known)
<1> DEFINE confs == AllConfs(o, mine, incoming)
           slots == Slots(confs)
<1>1. WellFormedConfs(confs)
    BY AllConfsType
<1>2. MergeVector(slots)
    BY <1>1, SlotsType
<1>3. ASSUME NEW s \in slots PROVE s.msg \in known
    <2>1. s.position \in DOMAIN confs /\ s.msg \in confs[s.position].parsed
        <3> HIDE DEF confs
        <3> QED BY <1>1, SlotsType
    <2>2. \/ HasOwn(o) /\ confs[s.position] = OwnConf(o, mine)
          \/ \E j \in DOMAIN incoming : confs[s.position] = incoming[j]
        BY <2>1, AllConfsPlaces
    <2> HIDE DEF confs, slots
    <2> QED BY <2>1, <2>2 DEF OwnConf, KnownIncoming
<1> HIDE DEF slots
<1>4. \A s \in slots : s.msg \in known /\ Grounded(s.msg, known)
    BY <1>3 DEF Sound
<1> QED BY <1>2, <1>4 DEF KnownVector, Sound, slots

(* Our own config is one of the vector, unless it is the empty one, which      *)
(* holds no hashes.                                                         *)
LEMMA OwnSlot ==
    ASSUME NEW o \in ConfigObject, Below(o), NEW mine, WellFormed(mine),
           NEW incoming, WellFormedConfs(incoming),
           NEW known, known \subseteq Message, Accountable(o, known)
    PROVE  LET slots == Slots(AllConfs(o, mine, incoming))
           IN  \/ HasOwn(o) /\ \E s \in slots : s.msg = mine
               \/ ~HasOwn(o) /\ o.old \cup o.curr = {}
<1>1. CASE HasOwn(o)
    BY <1>1, AllConfsType, SlotsType
<1>2. CASE ~HasOwn(o)
    <2>1. o.conf.seqno = 0
        BY <1>2 DEF HasOwn
    <2>2. SUFFICES ASSUME NEW h \in o.old \cup o.curr PROVE FALSE
        BY <1>2
    <2>3. h[1] <= o.conf.seqno
        BY DEF Below
    <2>4. PICK m \in known : SeqnoHash(m) = h /\ 0 < m.seqno
        BY DEF Accountable, Covered
    <2> QED BY <2>1, <2>3, <2>4 DEF SeqnoHash, Message
<1> QED BY <1>1, <1>2

(* What a merge marks obsolete beyond its own hashes is of the vector. *)
LEMMA ObsoletedSlot ==
    ASSUME NEW o \in ConfigObject, Below(o),
           NEW mine, WellFormed(mine), mine.seqno = o.conf.seqno,
           NEW incoming, WellFormedConfs(incoming), Legible(incoming),
           Slots(AllConfs(o, mine, incoming)) # {},
           NEW S, NEW h \in Obsoleted(AllConfs(o, mine, incoming), S), h \notin o.curr
    PROVE  \E s \in Slots(AllConfs(o, mine, incoming)) : SeqnoHash(s.msg) = h
BY ObsoletedBelow

(* A received message is of a positive seqno. *)
Numbered(incoming) == \A j \in DOMAIN incoming : \A m \in incoming[j].parsed : m.seqno > 0

(* So is whatever a merge marks obsolete. *)
LEMMA ObsoletedNumbered ==
    ASSUME NEW o \in ConfigObject,
           NEW mine, WellFormed(mine),
           NEW incoming, WellFormedConfs(incoming), Legible(incoming), Numbered(incoming),
           NEW S, NEW h \in Obsoleted(AllConfs(o, mine, incoming), S), h \notin o.curr
    PROVE  h[1] > 0
<1> DEFINE confs == AllConfs(o, mine, incoming)
<1>1. PICK i \in DOMAIN confs : h \in confs[i].hashes
    BY DEF Obsoleted
<1>2. confs[i] = OwnConf(o, mine) \/ \E j \in DOMAIN incoming : confs[i] = incoming[j]
    BY AllConfsPlaces
<1>3. PICK j \in DOMAIN incoming : confs[i] = incoming[j]
    BY <1>1, <1>2 DEF OwnConf
<1>4. PICK m \in incoming[j].parsed : incoming[j].hashes = {SeqnoHash(m)}
    BY DEF Legible
<1>5. h = SeqnoHash(m) /\ m.seqno > 0
    BY <1>1, <1>3, <1>4 DEF Numbered
<1> QED BY <1>5 DEF SeqnoHash

(* What covers the whole vector covers all that a merge leaves behind. *)
LEMMA SlotsCovered ==
    ASSUME NEW o \in ConfigObject, Below(o),
           NEW mine, WellFormed(mine), mine.seqno = o.conf.seqno,
           NEW incoming, WellFormedConfs(incoming), Legible(incoming), Numbered(incoming),
           NEW known, Sound(known), KnownIncoming(incoming, known),
           HasOwn(o) => mine \in known /\ ContentOf(mine) = Serialize(o),
           Accountable(o, known),
           Slots(AllConfs(o, mine, incoming)) # {},
           NEW S, NEW c, c.seqno \in Nat
    PROVE  LET slots == Slots(AllConfs(o, mine, incoming))
               left == o.old \cup o.curr \cup Obsoleted(AllConfs(o, mine, incoming), S)
           IN  /\ (\A s \in slots : Covers(c, s.msg)) => Covered(c, left, known)
               /\ (\A s \in slots : Above(c, s.msg)) => Surpassed(c, left, known)
<1> DEFINE slots == Slots(AllConfs(o, mine, incoming))
           obsoleted == Obsoleted(AllConfs(o, mine, incoming), S)
           Fine(h) == \E m \in known : /\ SeqnoHash(m) = h /\ 0 < m.seqno /\ Covers(c, m)
                                       /\ (\A s \in slots : Above(c, s.msg)) => Above(c, m)
<1>1. KnownVector(slots, known) /\ known \subseteq Message
    BY MergeKnown DEF Sound
<1>2. SUFFICES ASSUME \A s \in slots : Covers(c, s.msg),
                      NEW h \in o.old \cup o.curr \cup obsoleted
               PROVE  Fine(h)
    BY DEF Covered, Covers, Surpassed
<1>3. CASE h \in o.old \cup o.curr
    <2>1. HasOwn(o) /\ \E s \in slots : s.msg = mine
        BY <1>1, <1>3, OwnSlot
    <2>2. mine \in known /\ Covers(c, mine) /\ Covered(ContentOf(mine), o.old \cup o.curr, known)
        BY <1>2, <2>1 DEF Accountable
    <2> HIDE DEF slots
    <2>3. PICK m \in known : SeqnoHash(m) = h /\ 0 < m.seqno /\ Covers(ContentOf(mine), m)
        BY <1>3, <2>2 DEF Covered
    <2>4. /\ mine \in Message /\ m \in Message
          /\ ContentOf(mine) = ContentOf(m) => mine = m
        BY <1>1, <2>2 DEF Sound, Distinct
    <2>5. Covers(c, m) /\ (Above(c, mine) => Above(c, m))
        BY <2>2, <2>3, <2>4, CoversTransitive, AboveCovered
    <2> QED BY <2>1, <2>3, <2>5
<1>4. CASE h \in obsoleted /\ h \notin o.curr
    <2>1. PICK s \in slots : SeqnoHash(s.msg) = h
        BY <1>4, ObsoletedSlot
    <2>2. h[1] > 0
        BY <1>4, ObsoletedNumbered
    <2>3. s.msg \in known /\ s.msg.seqno \in Nat /\ s.msg.seqno = h[1]
        BY <1>1, <2>1 DEF KnownVector, MergeVector, Message, SeqnoHash
    <2> HIDE DEF slots
    <2> QED BY <1>2, <2>1, <2>2, <2>3
<1> QED BY <1>2, <1>3, <1>4

(* merge(), on any device: each lagged diff is that of a known message. *)
LEMMA MergeIncomingGrounded ==
    ASSUME Aliens = {}, NEW o \in ConfigObject, NEW mine, WellFormed(mine), mine.seqno = o.conf.seqno,
           NEW incoming, WellFormedConfs(incoming), Legible(incoming),
           NEW known, Sound(known), KnownIncoming(incoming, known), HasOwn(o) => mine \in known,
           NEW readonly \in BOOLEAN, readonly = FALSE => Below(o),
           Grounded(o.conf, known)
    PROVE  Grounded(MergeIncoming(o, mine, incoming, readonly).conf, known)
<1> DEFINE confs == AllConfs(o, mine, incoming)
           slots == Slots(confs)
           n == MergeIncoming(o, mine, incoming, readonly)
<1>1. CASE slots = {}
    BY <1>1 DEF MergeIncoming
<1>2. CASE slots # {} /\ Unmerged(slots, readonly)
    <2>1. n = AdoptSuperconf(o, confs)
        BY <1>2 DEF MergeIncoming
    <2> DEFINE super == Superconf(slots).msg
    <2>2. \/ n.conf = o.conf
          \/ n.conf = IF o.state = "Dirty" THEN Increment(super) ELSE ContentOf(super)
        BY <1>2, <2>1, AdoptSuperconfCases
    <2>3. super \in known
        <3>1. KnownVector(slots, known)
            BY <1>2, MergeKnown
        <3> HIDE DEF slots
        <3> QED BY <3>1, SuperconfHighest DEF KnownVector
    <2> HIDE DEF n, super, slots
    <2>4. super \in Message /\ Windowed(super) /\ Grounded(super, known) /\ known \subseteq Message
        BY <2>3 DEF Sound
    <2>5. Grounded(Increment(super), known) /\ Grounded(ContentOf(super), known)
        BY <2>3, <2>4, IncrementAbove, SameAbove DEF ContentOf
    <2> QED BY <2>2, <2>5 DEF n
<1>3. CASE slots # {} /\ ~Unmerged(slots, readonly)
    <2>1. n = AdoptMerge(o, confs) /\ Below(o)
        BY <1>3 DEF MergeIncoming, Unmerged
    <2>2. n.conf = MergeContent(slots)
        BY <1>3, <2>1, AdoptMergeBelow
    <2>3. KnownVector(slots, known)
        BY <1>3, MergeKnown
    <2> HIDE DEF slots, n
    <2>4. Grounded(MergeContent(slots), known)
        BY <2>3, MergeAbove
    <2> QED BY <2>2, <2>4 DEF n
<1> QED BY <1>1, <1>2, <1>3

(* With one message kept: what an object goes on with, its own config or the    *)
(* one it adopts, covers all that it marks obsolete.                        *)
LEMMA AdoptSuperconfAccountable ==
    ASSUME Aliens = {}, NEW o \in ConfigObject, Below(o),
           NEW mine, WellFormed(mine), mine.seqno = o.conf.seqno,
           NEW incoming, WellFormedConfs(incoming), Legible(incoming), Numbered(incoming),
           NEW known, Sound(known), KnownIncoming(incoming, known),
           HasOwn(o) => mine \in known /\ ContentOf(mine) = Serialize(o),
           Accountable(o, known),
           Slots(AllConfs(o, mine, incoming)) # {},
           Cardinality(Kept(Slots(AllConfs(o, mine, incoming)))) = 1
    PROVE  Accountable(AdoptSuperconf(o, AllConfs(o, mine, incoming)), known)
<1> DEFINE confs == AllConfs(o, mine, incoming)
           slots == Slots(confs)
           super == Superconf(slots).msg
           named == SuperconfHashes(confs)
           n == AdoptSuperconf(o, confs)
           left == o.old \cup o.curr \cup Obsoleted(confs, named)
           c == ContentOf(super)
<1>1. KnownVector(slots, known) /\ Cardinality(Kept(slots)) = 1
    BY MergeKnown
<1>2. super \in known /\ super \in Message /\ c.seqno \in Nat /\ super.seqno = MaxSeqno(slots)
    <2>1. super \in known /\ super.seqno = MaxSeqno(slots)
        <3> HIDE DEF slots
        <3> QED BY <1>1, SuperconfHighest DEF KnownVector
    <2> HIDE DEF super
    <2> QED BY <2>1 DEF Sound, ContentOf, Message
<1>3. \A s \in slots : Covers(c, s.msg)
    <2> HIDE DEF slots
    <2> QED BY <1>1, LoneCovers
<1>4. Covered(c, left, known)
    <2> HIDE DEF c
    <2> QED BY <1>2, <1>3, SlotsCovered
<1>5. CASE /\ n.state = o.state /\ n.conf = o.conf /\ n.curr = o.curr /\ n.orig = o.orig
           /\ n.old = o.old \cup Obsoleted(confs, named)
           /\ super.seqno = o.conf.seqno
    <2>1. Serialize(n) = Serialize(o)
        <3> HIDE DEF n
        <3> QED BY <1>5 DEF Serialize
    <2>2. c = Serialize(o)
        <3>1. CASE HasOwn(o)
            <4>1. PICK s \in slots : s.msg = mine
                BY <3>1, AllConfsType, SlotsType
            <4>2. SeqnoHash(super) = SeqnoHash(mine)
                <5> HIDE DEF slots
                <5>1. MergeVector(slots)
                    BY <1>1 DEF KnownVector
                <5>2. s.msg.seqno = MaxSeqno(slots)
                    BY <1>2, <1>5, <4>1
                <5> QED BY <1>1, <4>1, <5>1, <5>2, LoneSuperconf
            <4>3. super = mine
                <5> HIDE DEF super
                <5> QED BY <1>2, <3>1, <4>2 DEF Sound, Distinct
            <4> QED BY <3>1, <4>3
        <3>2. CASE ~HasOwn(o)
            <4>1. super.seqno = 0
                BY <1>5, <3>2 DEF HasOwn
            <4>2. \E j \in DOMAIN incoming : super \in incoming[j].parsed
                BY <3>2, SuperconfPlace
            <4> HIDE DEF super
            <4> QED BY <4>1, <4>2 DEF Numbered
        <3> QED BY <3>1, <3>2
    <2>3. n.old \cup n.curr = left
        BY <1>5
    <2> HIDE DEF n, c, left
    <2>4. Accountable(n, known)
        BY <1>4, <2>1, <2>2, <2>3 DEF Accountable
    <2> QED BY <2>4 DEF n
<1>6. CASE /\ n.state = "Clean" /\ n.curr = named
           /\ n.old \subseteq left
           /\ n.conf = IF o.state = "Dirty" THEN Increment(super) ELSE ContentOf(super)
           /\ \E j \in DOMAIN incoming : super \in incoming[j].parsed /\ named = incoming[j].hashes
    <2>1. named = {SeqnoHash(super)} /\ super.seqno > 0
        BY <1>6 DEF Legible, Numbered
    <2>2. n \in ConfigObject
        <3>1. WellFormedConfs(confs) /\ slots # {} /\ o.conf.seqno <= MaxSeqno(slots)
            BY AllConfsType, OwnBelowMax
        <3> HIDE DEF confs
        <3> QED BY <3>1, AdoptSuperconfStep DEF GoodStep
    <2> HIDE DEF n, left, named, super
    <2>3. Covered(c, n.old \cup n.curr, known)
        <3>1. SUFFICES ASSUME NEW h \in n.old \cup n.curr
                       PROVE  \E m \in known : SeqnoHash(m) = h /\ 0 < m.seqno /\ Covers(c, m)
            BY DEF Covered
        <3>2. CASE h \in left
            BY <1>4, <3>2 DEF Covered
        <3>3. CASE h = SeqnoHash(super)
            <4>1. Covers(c, super)
                BY DEF Covers
            <4>2. 0 < super.seqno
                BY <1>2, <2>1 DEF Message
            <4> QED BY <1>2, <3>3, <4>1, <4>2
        <3> QED BY <1>6, <2>1, <3>2, <3>3
    <2>4. \/ n.state # "Dirty" /\ n.conf = ContentOf(super)
          \/ n.conf.seqno = Increment(super).seqno /\ n.conf.lagged = Increment(super).lagged
        BY <1>6
    <2>5. Accountable(n, known)
        BY <1>2, <2>2, <2>3, <2>4, TakenOver
    <2> QED BY <2>5 DEF n
<1> QED
    <2>1. \/ /\ n.state = o.state /\ n.conf = o.conf /\ n.curr = o.curr /\ n.orig = o.orig
             /\ n.old = o.old \cup Obsoleted(confs, named)
             /\ super.seqno = o.conf.seqno
          \/ /\ n.state = "Clean" /\ n.curr = named
             /\ n.old \subseteq left
             /\ n.conf = IF o.state = "Dirty" THEN Increment(super) ELSE ContentOf(super)
             /\ \E j \in DOMAIN incoming : super \in incoming[j].parsed /\ named = incoming[j].hashes
        BY AdoptSuperconfCases
    <2> QED BY <1>5, <1>6, <2>1

(* merge(), on a device that can sign: whatever it marks obsolete is accounted  *)
(* for by the config it goes on with.                                       *)
LEMMA MergeIncomingAccountable ==
    ASSUME Aliens = {}, NEW o \in ConfigObject, Below(o),
           NEW mine, WellFormed(mine), mine.seqno = o.conf.seqno,
           NEW incoming, WellFormedConfs(incoming), Legible(incoming), Numbered(incoming),
           NEW known, Sound(known), KnownIncoming(incoming, known),
           HasOwn(o) => mine \in known /\ ContentOf(mine) = Serialize(o),
           Accountable(o, known)
    PROVE  Accountable(MergeIncoming(o, mine, incoming, FALSE), known)
<1> DEFINE confs == AllConfs(o, mine, incoming)
           slots == Slots(confs)
           n == MergeIncoming(o, mine, incoming, FALSE)
<1>1. CASE slots = {}
    BY <1>1 DEF MergeIncoming
<1>2. CASE slots # {} /\ Unmerged(slots, FALSE)
    <2>1. n = AdoptSuperconf(o, confs) /\ Cardinality(Kept(slots)) = 1
        BY <1>2 DEF MergeIncoming, Unmerged
    <2> QED BY <1>2, <2>1, AdoptSuperconfAccountable
<1>3. CASE slots # {} /\ ~Unmerged(slots, FALSE)
    <2>1. n = AdoptMerge(o, confs)
        BY <1>3 DEF MergeIncoming
    <2> DEFINE c == MergeContent(slots)
               left == o.old \cup o.curr \cup Obsoleted(confs, {})
    <2>2. n.conf = c /\ n.old \cup n.curr \subseteq left
        BY <1>3, <2>1, AdoptMergeBelow
    <2>3. KnownVector(slots, known)
        BY <1>3, MergeKnown
    <2>4. c.seqno \in Nat /\ Grounded(c, known) /\ \A s \in slots : Above(c, s.msg)
        <3> HIDE DEF slots
        <3> QED BY <2>3, MergeAbove, MergeContentType DEF KnownVector, Content
    <2>5. Surpassed(c, left, known)
        <3> HIDE DEF c
        <3> QED BY <1>3, <2>4, SlotsCovered
    <2>6. n \in ConfigObject
        <3> HIDE DEF confs
        <3> QED BY MergeIncomingStep DEF GoodStep
    <2> HIDE DEF n, c, left
    <2>7. Surpassed(n.conf, n.old \cup n.curr, known)
        BY <2>2, <2>5 DEF Surpassed
    <2>8. Grounded(n.conf, known)
        BY <2>2, <2>4
    <2>9. Accountable(n, known)
        BY <2>6, <2>7, <2>8, AboveAccountable
    <2> QED BY <2>9 DEF n
<1> QED BY <1>1, <1>2, <1>3

-----------------------------------------------------------------------------
(***************************************************************************)
(* Objects that have settled.                                              *)
(***************************************************************************)

(* A merge looks at everything it was handed. *)
LEMMA AllConfsComplete ==
    ASSUME NEW o \in ConfigObject, NEW mine, WellFormed(mine),
           NEW incoming, WellFormedConfs(incoming), NEW j \in DOMAIN incoming
    PROVE  \E i \in DOMAIN AllConfs(o, mine, incoming) :
                AllConfs(o, mine, incoming)[i] = incoming[j]
<1> DEFINE own == OwnConf(o, mine)
           Conf == [hashes : SUBSET Storage, parsed : SUBSET Message]
<1>1. own \in Conf
    BY DEF OwnConf, ConfigObject, WellFormed
<1>2. incoming \in Seq(Conf)
    BY DEF WellFormedConfs
<1>3. CASE OwnFirst(o)
    <2> DEFINE all == <<own>> \o incoming
    <2>1. AllConfs(o, mine, incoming) = all
        BY <1>3 DEF AllConfs
    <2>2. j + 1 \in DOMAIN all /\ all[j + 1] = incoming[j]
        BY <1>1, <1>2
    <2> HIDE DEF all
    <2> QED BY <2>1, <2>2
<1>4. CASE ~OwnFirst(o) /\ HasOwn(o)
    <2> DEFINE all == Append(incoming, own)
    <2>1. AllConfs(o, mine, incoming) = all
        BY <1>4 DEF AllConfs
    <2>2. j \in DOMAIN all /\ all[j] = incoming[j]
        BY <1>1, <1>2
    <2> HIDE DEF all
    <2> QED BY <2>1, <2>2
<1>5. CASE ~HasOwn(o)
    BY <1>5 DEF AllConfs, OwnFirst
<1> QED BY <1>3, <1>4, <1>5

(* What a clean object serialises, when its config is that of a parsed message, *)
(* or the next one on it.                                                   *)
LEMMA SerializeFollows ==
    ASSUME NEW o, o.state = "Clean", NEW m \in Message, Windowed(m),
           o.conf = ContentOf(m) \/ o.conf = Increment(m)
    PROVE  FollowsOn(Serialize(o), m)
<1>1. CASE o.conf = ContentOf(m)
    <2>1. Serialize(o) = ContentOf(m)
        BY <1>1, SerializeParsed
    <2> QED BY <2>1 DEF FollowsOn, ContentOf
<1>2. CASE o.conf = Increment(m)
    <2>1. /\ Serialize(o).data = m.data /\ Serialize(o).seqno = m.seqno + 1
          /\ Serialize(o).lagged \subseteq Increment(m).lagged
        BY <1>2 DEF Serialize, Increment, Window
    <2>2. Increment(m).lagged \subseteq Holdings(m)
        BY DEF Increment, Window, Holdings
    <2> QED BY <2>1, <2>2 DEF FollowsOn
<1> QED BY <1>1, <1>2

(* merge(), on a device that can sign: a config that ends up clean is the one   *)
(* it was, or continues from a message handed to it.                        *)
LEMMA MergeIncomingFollows ==
    ASSUME NEW o \in ConfigObject,
           NEW mine, WellFormed(mine), mine.seqno = o.conf.seqno,
           NEW incoming, WellFormedConfs(incoming), Legible(incoming),
           Aliens = {}, Below(o)
    PROVE  LET n == MergeIncoming(o, mine, incoming, FALSE)
           IN  \/ n.state = o.state /\ n.conf = o.conf /\ n.curr = o.curr
               \/ n.state = "Dirty"
               \/ /\ n.state = "Clean" /\ n.conf.seqno > o.conf.seqno
                  /\ \E j \in DOMAIN incoming : \E m \in incoming[j].parsed :
                        n.curr = incoming[j].hashes /\ FollowsOn(Serialize(n), m)
<1> DEFINE confs == AllConfs(o, mine, incoming)
           n == MergeIncoming(o, mine, incoming, FALSE)
<1>1. CASE Slots(confs) = {}
    BY <1>1 DEF MergeIncoming
<1>2. CASE Slots(confs) # {} /\ Unmerged(Slots(confs), FALSE)
    <2> DEFINE super == Superconf(Slots(confs)).msg
               named == SuperconfHashes(confs)
    <2>1. n = AdoptSuperconf(o, confs)
        BY <1>2 DEF MergeIncoming
    <2> DEFINE a == AdoptSuperconf(o, confs)
    <2>2. \/ n.state = o.state /\ n.conf = o.conf /\ n.curr = o.curr
          \/ /\ n.state = "Clean" /\ n.curr = named
             /\ n.conf = ContentOf(super) \/ n.conf = Increment(super)
             /\ n.conf.seqno > o.conf.seqno
             /\ \E j \in DOMAIN incoming : super \in incoming[j].parsed /\ named = incoming[j].hashes
        <3>1. \/ a.state = o.state /\ a.conf = o.conf /\ a.curr = o.curr
              \/ /\ a.state = "Clean" /\ a.curr = named
                 /\ a.conf = ContentOf(super) \/ a.conf = Increment(super)
                 /\ a.conf.seqno > o.conf.seqno
                 /\ \E j \in DOMAIN incoming : super \in incoming[j].parsed /\ named = incoming[j].hashes
            BY <1>2, AdoptSuperconfCases
        <3>2. n = a
            BY <2>1
        <3> HIDE DEF n, a, super, named
        <3> QED BY <3>1, <3>2
    <2> HIDE DEF n, super, named
    <2>3. ASSUME NEW j \in DOMAIN incoming, super \in incoming[j].parsed
          PROVE  super \in Message /\ Windowed(super)
        BY <2>3 DEF WellFormedConfs, WellFormed
    <2>4. ASSUME NEW j \in DOMAIN incoming, super \in incoming[j].parsed, n.state = "Clean",
                 n.conf = ContentOf(super) \/ n.conf = Increment(super)
          PROVE  FollowsOn(Serialize(n), super)
        BY <2>3, <2>4, SerializeFollows
    <2>5. \/ n.state = o.state /\ n.conf = o.conf /\ n.curr = o.curr
          \/ /\ n.state = "Clean" /\ n.conf.seqno > o.conf.seqno
             /\ \E j \in DOMAIN incoming : \E m \in incoming[j].parsed :
                    n.curr = incoming[j].hashes /\ FollowsOn(Serialize(n), m)
        BY <2>2, <2>4
    <2> QED BY <2>5 DEF n
<1>3. CASE Slots(confs) # {} /\ ~Unmerged(Slots(confs), FALSE)
    <2>1. n = AdoptMerge(o, confs)
        BY <1>3 DEF MergeIncoming
    <2> DEFINE a == AdoptMerge(o, confs)
    <2>2. a.state = "Dirty"
        BY <1>3, AdoptMergeBelow
    <2> HIDE DEF n, a
    <2>3. n.state = "Dirty"
        BY <2>1, <2>2 DEF a
    <2> QED BY <2>3 DEF n
<1> QED BY <1>1, <1>2, <1>3

(* A merge that leaves a clean config as it was: the config is not the empty    *)
(* one, and covers all that was handed to it.                               *)
LEMMA UnchangedCovers ==
    ASSUME Aliens = {}, NEW o \in ConfigObject, Below(o), o.state = "Clean",
           NEW mine, WellFormed(mine), mine.seqno = o.conf.seqno,
           NEW incoming, WellFormedConfs(incoming), Legible(incoming), Numbered(incoming),
           NEW known, Sound(known), mine \in known, KnownIncoming(incoming, known),
           DOMAIN incoming # {},
           MergeIncoming(o, mine, incoming, FALSE).conf = o.conf
    PROVE  /\ o.conf.seqno # 0
           /\ \A j \in DOMAIN incoming : \A m \in incoming[j].parsed : Covers(ContentOf(mine), m)
<1> DEFINE confs == AllConfs(o, mine, incoming)
           slots == Slots(confs)
           super == Superconf(slots).msg
           n == MergeIncoming(o, mine, incoming, FALSE)
<1>1. WellFormedConfs(confs)
    BY AllConfsType
<1>2. \A j \in DOMAIN incoming : \A m \in incoming[j].parsed : \E s \in slots : s.msg = m
    <2>1. SUFFICES ASSUME NEW j \in DOMAIN incoming, NEW m \in incoming[j].parsed
                   PROVE  \E s \in slots : s.msg = m
        OBVIOUS
    <2>2. PICK i \in DOMAIN confs : confs[i] = incoming[j]
        BY AllConfsComplete
    <2> HIDE DEF confs
    <2> QED BY <1>1, <2>2, SlotsType
<1>3. slots # {}
    BY <1>2 DEF Legible
<1>4. KnownVector(slots, known)
    BY <1>3, MergeKnown
<1>5. o.conf.seqno \in Nat /\ n.conf = o.conf
    BY DEF ConfigObject, Content
<1>6. Cardinality(Kept(slots)) = 1 /\ n = AdoptSuperconf(o, confs)
    <2>1. CASE ~Unmerged(slots, FALSE)
        <3>1. n = AdoptMerge(o, confs)
            BY <1>3, <2>1 DEF MergeIncoming
        <3>2. n.conf.seqno > o.conf.seqno
            BY <1>3, <3>1, AdoptMergeBelow
        <3> HIDE DEF n
        <3> QED BY <1>5, <3>2
    <2>2. CASE Unmerged(slots, FALSE)
        BY <1>3, <2>2 DEF MergeIncoming, Unmerged
    <2> QED BY <2>1, <2>2
<1>7. super.seqno = o.conf.seqno
    <2>1. super.seqno = o.conf.seqno \/ n.conf.seqno > o.conf.seqno
        BY <1>3, <1>6, AdoptSuperconfCases
    <2> HIDE DEF n, super
    <2> QED BY <1>5, <2>1
<1>8. HasOwn(o) /\ o.conf.seqno # 0
    <2>1. /\ Superconf(slots).position \in DOMAIN confs
          /\ super \in confs[Superconf(slots).position].parsed
          /\ \/ HasOwn(o)
             \/ \E j \in DOMAIN incoming : confs[Superconf(slots).position] = incoming[j]
        BY <1>3, SuperconfPlace
    <2>2. HasOwn(o) \/ super.seqno > 0
        BY <2>1 DEF Numbered
    <2> HIDE DEF super
    <2> QED BY <1>5, <1>7, <2>2 DEF HasOwn
<1>9. PICK s \in slots : s.msg = mine
    <2>1. PICK i \in DOMAIN confs : mine \in confs[i].parsed
        BY <1>8, AllConfsType
    <2> HIDE DEF confs
    <2> QED BY <1>1, <2>1, SlotsType
<1> HIDE DEF slots, n
<1>10. ContentOf(mine) = ContentOf(super)
    <2>1. Covers(ContentOf(super), mine)
        BY <1>4, <1>6, <1>9, LoneCovers
    <2>2. ContentOf(super).seqno = mine.seqno /\ mine.seqno \in Nat
        BY <1>5, <1>7 DEF ContentOf
    <2> HIDE DEF super
    <2> QED BY <2>1, <2>2 DEF Covers, Above
<1>11. \A t \in slots : Covers(ContentOf(super), t.msg)
    BY <1>4, <1>6, LoneCovers
<1> QED BY <1>2, <1>8, <1>10, <1>11
=============================================================================
