--------------------------- MODULE ConfigMessageProofs ---------------------------
(***************************************************************************)
(* Facts about the merging constructor of ConfigMessage: its choices are   *)
(* defined, its results are messages, and of any vector of messages one    *)
(* with the highest seqno survives the pruning.                            *)
(***************************************************************************)
EXTENDS ConfigMessage, FiniteOrders, FiniteSetTheorems, TLAPS

(* Before is a strict order on things that carry a seqno and a hash. *)
LEMMA BeforeOrder ==
    ASSUME NEW a, NEW b, NEW c,
           a.seqno \in Nat, a.hash \in Nat, b.seqno \in Nat, b.hash \in Nat,
           c.seqno \in Nat, c.hash \in Nat
    PROVE  /\ ~Before(a, a)
           /\ Before(a, b) /\ Before(b, c) => Before(a, c)
BY DEF Before

(* The image of a finite set under a function is finite. *)
LEMMA FiniteImage ==
    ASSUME NEW S, IsFiniteSet(S), NEW f, f = [x \in S |-> f[x]]
    PROVE  IsFiniteSet({f[x] : x \in S})
<1>1. f \in Surjection(S, {f[x] : x \in S})
    BY DEF Surjection
<1> QED BY <1>1, FS_Surjection

-----------------------------------------------------------------------------
(* The window keeps a finite set of lagged diffs one. *)
LEMMA WindowType ==
    ASSUME NEW n \in Nat, NEW lagged \in FiniteSubsets(LaggedDiff)
    PROVE  Window(n, lagged) \in FiniteSubsets(LaggedDiff)
BY FS_Subset DEF Window, FiniteSubsets

(* increment_impl turns a message into the content of its successor. *)
LEMMA IncrementType ==
    ASSUME NEW m \in Message
    PROVE  Increment(m) \in Content
<1>1. Window(m.seqno, m.lagged) \in FiniteSubsets(LaggedDiff)
    BY WindowType DEF Message
<1>2. OwnEntry(m) \in LaggedDiff
    BY DEF OwnEntry, LaggedDiff, Message
<1>3. Window(m.seqno, m.lagged) \cup {OwnEntry(m)} \in FiniteSubsets(LaggedDiff)
    BY <1>1, <1>2, FS_AddElement DEF FiniteSubsets
<1>4. NoDiff \in Diffs
    BY DEF NoDiff, Diffs, Marks
<1> QED BY <1>3, <1>4 DEF Increment, Message, Content

(* Messages and contents convert into one another. *)
LEMMA ContentOfType ==
    ASSUME NEW m \in Message
    PROVE  /\ ContentOf(m) \in Content
           /\ \A c : ContentOf(m) = c =>
                m.seqno = c.seqno /\ m.data = c.data /\ m.diff = c.diff /\ m.lagged = c.lagged
BY DEF ContentOf, Message, Content

(* Pairing a content with its hash gives a message, and back. *)
LEMMA HashedType ==
    ASSUME NEW c \in Content, NEW h \in Nat
    PROVE  /\ Hashed(c, h) \in Message
           /\ ContentOf(Hashed(c, h)) = c
BY DEF Hashed, ContentOf, Message, Content

-----------------------------------------------------------------------------
(* All lagged diffs of a message are of the seqnos just below its own. *)
Windowed(c) == \A e \in c.lagged : c.seqno - Lag < e.seqno /\ e.seqno < c.seqno

(* What the merging constructor is given: a vector of well-formed messages. *)
MergeVector(slots) ==
    /\ IsFiniteSet(slots)
    /\ slots # {}
    /\ \A s \in slots : /\ s.msg \in Message
                        /\ Windowed(s.msg)
                        /\ s.position \in Nat

(* MaxSeqno is the seqno of one of the messages, and no other is higher. *)
LEMMA MaxSeqnoType ==
    ASSUME NEW slots, MergeVector(slots)
    PROVE  /\ MaxSeqno(slots) \in Nat
           /\ \A s \in slots : s.msg.seqno <= MaxSeqno(slots)
<1> DEFINE R == {p \in slots \X slots : p[1].msg.seqno < p[2].msg.seqno}
<1>1. \A s \in slots : s.msg.seqno \in Nat
    BY DEF MergeVector, Message
<1>2. PICK s \in slots : \A t \in slots : <<s, t>> \notin R
    <2>1. \A x \in slots : <<x, x>> \notin R
        BY <1>1
    <2>2. \A x, y, z \in slots : <<x, y>> \in R /\ <<y, z>> \in R => <<x, z>> \in R
        BY <1>1
    <2> HIDE DEF R
    <2> QED BY <2>1, <2>2, FiniteMaximal DEF MergeVector
<1>3. \A t \in slots : t.msg.seqno <= s.msg.seqno
    <2>1. \A t \in slots : ~(s.msg.seqno < t.msg.seqno)
        BY <1>2
    <2> QED BY <1>1, <2>1
<1>4. \E n \in {t.msg.seqno : t \in slots} : \A t \in slots : t.msg.seqno <= n
    BY <1>3
<1> QED BY <1>1, <1>4 DEF MaxSeqno

(* Whatever the messages are, one with the highest seqno is kept: another    *)
(* message's lagged diffs are below that message's seqno, so only an equal   *)
(* message in front of it could make it redundant, and the lag is positive.  *)
LEMMA HighestKept ==
    ASSUME NEW slots, MergeVector(slots)
    PROVE  \E s \in Kept(slots) : s.msg.seqno = MaxSeqno(slots)
<1> DEFINE Ahead(x, y) == \/ x.msg.seqno < y.msg.seqno
                          \/ x.msg.seqno = y.msg.seqno /\ y.position < x.position
           R == {p \in slots \X slots : Ahead(p[1], p[2])}
<1>1. \A s \in slots : s.msg.seqno \in Nat /\ s.position \in Nat
    BY DEF MergeVector, Message
<1>2. PICK s \in slots : \A t \in slots : <<s, t>> \notin R
    <2>1. \A x \in slots : <<x, x>> \notin R
        BY <1>1
    <2>2. \A x, y, z \in slots : <<x, y>> \in R /\ <<y, z>> \in R => <<x, z>> \in R
        BY <1>1
    <2> HIDE DEF R
    <2> QED BY <2>1, <2>2, FiniteMaximal DEF MergeVector
<1>3. \A t \in slots : ~Ahead(s, t)
    BY <1>2
<1>4. s.msg.seqno = MaxSeqno(slots)
    <2>1. \A t \in slots : t.msg.seqno <= s.msg.seqno
        BY <1>1, <1>3
    <2>2. \E n \in {t.msg.seqno : t \in slots} : \A t \in slots : t.msg.seqno <= n
        BY <2>1
    <2>3. /\ MaxSeqno(slots) \in {t.msg.seqno : t \in slots}
          /\ s.msg.seqno <= MaxSeqno(slots)
        BY <2>2 DEF MaxSeqno
    <2> QED BY <1>1, <2>1, <2>3
<1>5. ~Redundant(s, slots)
    <2>1. SUFFICES ASSUME NEW t \in slots,
                          \/ Includes(t.msg, s.msg)
                          \/ t.position < s.position /\ SeqnoHash(t.msg) = SeqnoHash(s.msg)
                   PROVE  FALSE
        BY DEF Redundant
    <2>2. CASE Includes(t.msg, s.msg)
        <3>1. PICK e \in t.msg.lagged : SeqnoHash(e) = SeqnoHash(s.msg)
            BY <2>2 DEF Includes
        <3>2. e.seqno = s.msg.seqno /\ e.seqno < t.msg.seqno
            BY <3>1 DEF SeqnoHash, MergeVector, Windowed
        <3> QED BY <3>2, <1>3
    <2>3. CASE t.position < s.position /\ SeqnoHash(t.msg) = SeqnoHash(s.msg)
        BY <2>3, <1>3 DEF SeqnoHash
    <2> QED BY <2>1, <2>2, <2>3
<1>6. ~TooOld(s, slots)
    BY <1>1, <1>4, LagAssumption DEF TooOld
<1> QED BY <1>4, <1>5, <1>6 DEF Kept

(* The best of a nonempty vector is one of its slots and outranked by none. *)
LEMMA BestType ==
    ASSUME NEW slots, IsFiniteSet(slots), slots # {},
           \A s \in slots : s.msg \in Message
    PROVE  /\ Best(slots) \in slots
           /\ \A t \in slots : ~Before(Best(slots).msg, t.msg)
<1> DEFINE R == {p \in slots \X slots : Before(p[1].msg, p[2].msg)}
<1>1. \A s \in slots : s.msg.seqno \in Nat /\ s.msg.hash \in Nat
    BY DEF Message
<1>2. \E s \in slots : \A t \in slots : ~Before(s.msg, t.msg)
    <2>1. \A x \in slots : <<x, x>> \notin R
        BY <1>1 DEF Before
    <2>2. \A x, y, z \in slots : <<x, y>> \in R /\ <<y, z>> \in R => <<x, z>> \in R
        BY <1>1 DEF Before
    <2>3. \E s \in slots : \A t \in slots : <<s, t>> \notin R
        <3> HIDE DEF R
        <3> QED BY <2>1, <2>2, FiniteMaximal
    <2> QED BY <2>3
<1> QED BY <1>2 DEF Best

(* The adopted message is one of the vector's and has the highest seqno. *)
LEMMA SuperconfHighest ==
    ASSUME NEW slots, MergeVector(slots)
    PROVE  /\ Superconf(slots) \in slots
           /\ Superconf(slots).msg.seqno = MaxSeqno(slots)
<1>1. Kept(slots) \subseteq slots /\ IsFiniteSet(Kept(slots))
    BY FS_Subset DEF Kept, MergeVector
<1>2. PICK s \in Kept(slots) : s.msg.seqno = MaxSeqno(slots)
    BY HighestKept
<1>3. /\ Superconf(slots) \in Kept(slots)
      /\ ~Before(Superconf(slots).msg, s.msg)
    BY <1>1, <1>2, BestType DEF Superconf, MergeVector
<1>4. Superconf(slots).msg.seqno >= s.msg.seqno
    BY <1>1, <1>2, <1>3 DEF Before, MergeVector, Message
<1> QED BY <1>1, <1>2, <1>3, <1>4, MaxSeqnoType DEF MergeVector, Message

-----------------------------------------------------------------------------
(* The diffs that a merge replays are finitely many, each with the data of   *)
(* the message it comes from.                                               *)
ReplayItem == [entry : LaggedDiff, data : Data]

(* The replay set holds lagged diffs of the kept messages, with their data. *)
LEMMA ReplayType ==
    ASSUME NEW kept, IsFiniteSet(kept), \A s \in kept : s.msg \in Message
    PROVE  /\ Replay(kept) \subseteq ReplayItem
           /\ IsFiniteSet(Replay(kept))
<1> DEFINE Own(s) == {x \in Holdings(s.msg) :
                        \A t \in kept : Before(s.msg, t.msg) =>
                          \A y \in Holdings(t.msg) : SeqnoHash(y) # SeqnoHash(x)}
           Items(s) == {[entry |-> e, data |-> s.msg.data] : e \in Own(s)}
           f == [s \in kept |-> Items(s)]
<1>1. Replay(kept) = UNION {f[s] : s \in kept}
    BY DEF Replay
<1>2. ASSUME NEW s \in kept
      PROVE  /\ Items(s) \subseteq ReplayItem
             /\ IsFiniteSet(Items(s))
    <2>1. /\ Holdings(s.msg) \subseteq LaggedDiff
          /\ IsFiniteSet(Holdings(s.msg))
        <3>1. s.msg.lagged \in FiniteSubsets(LaggedDiff) /\ OwnEntry(s.msg) \in LaggedDiff
            BY DEF Message, OwnEntry, LaggedDiff
        <3> QED BY <3>1, FS_AddElement DEF Holdings, FiniteSubsets
    <2>2. Own(s) \subseteq LaggedDiff /\ IsFiniteSet(Own(s))
        <3>1. Own(s) \in SUBSET Holdings(s.msg)
            OBVIOUS
        <3> HIDE DEF Own
        <3> QED BY <3>1, <2>1, FS_Subset
    <2> DEFINE X == Own(s)
               g == [e \in X |-> [entry |-> e, data |-> s.msg.data]]
    <2>3. Items(s) = {g[e] : e \in X}
        OBVIOUS
    <2>4. IsFiniteSet({g[e] : e \in X})
        <3>1. g = [e \in X |-> g[e]] /\ IsFiniteSet(X)
            BY <2>2
        <3> HIDE DEF X, g
        <3> QED BY <3>1, FiniteImage
    <2>5. Items(s) \subseteq ReplayItem
        BY <2>2 DEF ReplayItem, Message
    <2> QED BY <2>3, <2>4, <2>5
<1>3. IsFiniteSet({f[s] : s \in kept})
    <2>1. f = [s \in kept |-> f[s]]
        OBVIOUS
    <2> HIDE DEF f
    <2> QED BY <2>1, FiniteImage
<1>4. \A T \in {f[s] : s \in kept} : IsFiniteSet(T) /\ T \subseteq ReplayItem
    <2> HIDE DEF Items
    <2> QED BY <1>2
<1> HIDE DEF f
<1> QED BY <1>1, <1>3, <1>4, FS_UNION

(* Applying the diffs gives every key a value, or removes it. *)
LEMMA ReplayedType ==
    ASSUME NEW replay, replay \subseteq ReplayItem, IsFiniteSet(replay),
           NEW base \in Data, NEW k \in Keys
    PROVE  Replayed(replay, base, k) \in Values \cup {Absent}
<1> DEFINE touching == {r \in replay : r.entry.diff[k] # "untouched"}
           R == {p \in touching \X touching : Before(p[1].entry, p[2].entry)}
           last == CHOOSE r \in touching :
                        \A q \in touching : ~Before(r.entry, q.entry)
<1>1. \A r \in touching : /\ r.entry.seqno \in Nat /\ r.entry.hash \in Nat
                          /\ r.data \in Data
    BY DEF ReplayItem, LaggedDiff
<1>2. ASSUME touching # {} PROVE last \in touching
    <2>1. IsFiniteSet(touching)
        <3>1. touching \in SUBSET replay
            OBVIOUS
        <3> HIDE DEF touching
        <3> QED BY <3>1, FS_Subset
    <2>2. \A x \in touching : <<x, x>> \notin R
        BY <1>1 DEF Before
    <2>3. \A x, y, z \in touching : <<x, y>> \in R /\ <<y, z>> \in R => <<x, z>> \in R
        BY <1>1 DEF Before
    <2>4. \E r \in touching : \A q \in touching : <<r, q>> \notin R
        <3> HIDE DEF R, touching
        <3> QED BY <1>2, <2>1, <2>2, <2>3, FiniteMaximal
    <2>5. \E r \in touching : \A q \in touching : ~Before(r.entry, q.entry)
        BY <2>4
    <2> QED BY <2>5
<1>3. Replayed(replay, base, k) =
        IF touching = {} THEN base[k]
        ELSE IF last.entry.diff[k] = "removed" THEN Absent ELSE last.data[k]
    BY DEF Replayed
<1>4. base[k] \in Values \cup {Absent}
    BY DEF Data
<1>5. touching # {} => last.data[k] \in Values \cup {Absent}
    <2> HIDE DEF touching, last
    <2> QED BY <1>1, <1>2 DEF Data
<1> HIDE DEF touching, last
<1> QED BY <1>3, <1>4, <1>5

(* The merging constructor yields well-formed content, one seqno above the   *)
(* highest of its messages.                                                 *)
LEMMA MergeContentType ==
    ASSUME NEW slots, MergeVector(slots)
    PROVE  /\ MergeContent(slots) \in Content
           /\ MergeContent(slots).seqno = MaxSeqno(slots) + 1
<1> DEFINE kept == Kept(slots)
           replay == Replay(kept)
           base == Best(kept).msg.data
           f == [r \in replay |-> r.entry]
<1>1. kept \in SUBSET slots /\ IsFiniteSet(kept) /\ kept # {}
    BY HighestKept, FS_Subset DEF Kept, MergeVector
<1>2. \A s \in kept : s.msg \in Message
    BY <1>1 DEF MergeVector
<1>3. replay \subseteq ReplayItem /\ IsFiniteSet(replay)
    <2> HIDE DEF kept
    <2> QED BY <1>1, <1>2, ReplayType
<1>4. base \in Data
    <2> HIDE DEF kept
    <2>1. Best(kept) \in kept
        BY <1>1, <1>2, BestType
    <2> QED BY <1>2, <2>1 DEF Message
<1>5. [k \in Keys |-> Replayed(replay, base, k)] \in Data
    <2> HIDE DEF replay, base
    <2>1. \A k \in Keys : Replayed(replay, base, k) \in Values \cup {Absent}
        BY <1>3, <1>4, ReplayedType
    <2> QED BY <2>1 DEF Data
<1>6. {r.entry : r \in replay} \in FiniteSubsets(LaggedDiff)
    <2>1. f = [r \in replay |-> f[r]] /\ {r.entry : r \in replay} = {f[r] : r \in replay}
        OBVIOUS
    <2>2. IsFiniteSet({f[r] : r \in replay})
        <3> HIDE DEF f, replay
        <3> QED BY <1>3, <2>1, FiniteImage
    <2>3. {r.entry : r \in replay} \subseteq LaggedDiff
        <3> HIDE DEF replay
        <3> QED BY <1>3 DEF ReplayItem
    <2> QED BY <2>1, <2>2, <2>3 DEF FiniteSubsets
<1>7. MaxSeqno(slots) + 1 \in Nat /\ NoDiff \in Diffs
    BY MaxSeqnoType DEF NoDiff, Diffs, Marks
<1>8. MergeContent(slots) =
        [seqno |-> MaxSeqno(slots) + 1,
         data |-> [k \in Keys |-> Replayed(replay, base, k)],
         diff |-> NoDiff,
         lagged |-> {r.entry : r \in replay}]
    BY DEF MergeContent, MergeKept
<1> HIDE DEF replay, base
<1> QED BY <1>5, <1>6, <1>7, <1>8 DEF Content
-----------------------------------------------------------------------------
(* A message with the highest seqno survives the pruning, or an equal one in *)
(* front of it does.                                                        *)
LEMMA HighestFirst ==
    ASSUME NEW slots, MergeVector(slots),
           NEW s \in slots, s.msg.seqno = MaxSeqno(slots)
    PROVE  \E t \in Kept(slots) : /\ SeqnoHash(t.msg) = SeqnoHash(s.msg)
                                  /\ t.position <= s.position
<1> DEFINE X == {t \in slots : /\ SeqnoHash(t.msg) = SeqnoHash(s.msg)
                               /\ t.position <= s.position}
           R == {p \in slots \X slots : p[2].position < p[1].position}
<1>1. \A t \in slots : t.msg.seqno \in Nat /\ t.position \in Nat
    BY DEF MergeVector, Message
<1>2. X \in SUBSET slots /\ s \in X
    BY <1>1
<1>3. PICK t \in X : \A u \in X : <<t, u>> \notin R
    <2>1. IsFiniteSet(X)
        <3> HIDE DEF X
        <3> QED BY <1>2, FS_Subset DEF MergeVector
    <2>2. \A x \in X : <<x, x>> \notin R
        BY <1>1
    <2>3. \A x, y, z \in X : <<x, y>> \in R /\ <<y, z>> \in R => <<x, z>> \in R
        BY <1>1
    <2> HIDE DEF R, X
    <2> QED BY <1>2, <2>1, <2>2, <2>3, FiniteMaximal
<1>4. \A u \in slots : SeqnoHash(u.msg) = SeqnoHash(t.msg) => ~(u.position < t.position)
    <2>1. SUFFICES ASSUME NEW u \in slots, SeqnoHash(u.msg) = SeqnoHash(t.msg),
                          u.position < t.position
                   PROVE  FALSE
        OBVIOUS
    <2>2. u \in X
        BY <1>1, <2>1
    <2> QED BY <1>3, <2>1, <2>2
<1>5. t \in slots /\ t.msg.seqno = MaxSeqno(slots)
    BY DEF SeqnoHash
<1>6. ~Redundant(t, slots)
    <2>1. ASSUME NEW u \in slots, Includes(u.msg, t.msg) PROVE FALSE
        <3>1. PICK e \in u.msg.lagged : SeqnoHash(e) = SeqnoHash(t.msg)
            BY <2>1 DEF Includes
        <3>2. e.seqno = t.msg.seqno /\ e.seqno < u.msg.seqno
            BY <3>1 DEF SeqnoHash, MergeVector, Windowed
        <3>3. u.msg.seqno <= t.msg.seqno
            BY <1>5, MaxSeqnoType
        <3> QED BY <1>1, <1>5, <3>2, <3>3
    <2> QED BY <1>4, <2>1 DEF Redundant
<1>7. ~TooOld(t, slots)
    BY <1>1, <1>5, LagAssumption DEF TooOld
<1>8. SeqnoHash(t.msg) = SeqnoHash(s.msg) /\ t.position <= s.position
    BY <1>3
<1> QED BY <1>5, <1>6, <1>7, <1>8 DEF Kept

(* When one message is kept, every message of its seqno equals it, and it is *)
(* the first of them: which of the equal ones is adopted, ours or the       *)
(* swarm's, is decided by the order of the vector.                          *)
LEMMA LoneSuperconf ==
    ASSUME NEW slots, MergeVector(slots), Cardinality(Kept(slots)) = 1,
           NEW s \in slots, s.msg.seqno = MaxSeqno(slots)
    PROVE  /\ SeqnoHash(Superconf(slots).msg) = SeqnoHash(s.msg)
           /\ Superconf(slots).position <= s.position
<1>1. PICK t \in Kept(slots) : /\ SeqnoHash(t.msg) = SeqnoHash(s.msg)
                              /\ t.position <= s.position
    BY HighestFirst
<1>2. Kept(slots) \in SUBSET slots /\ IsFiniteSet(Kept(slots))
    BY FS_Subset DEF Kept, MergeVector
<1>3. \E x : Kept(slots) = {x}
    BY <1>2, FS_Singleton
<1>4. Superconf(slots) \in Kept(slots)
    BY <1>1, <1>2, BestType DEF Superconf, MergeVector
<1> QED BY <1>1, <1>3, <1>4

-----------------------------------------------------------------------------
(***************************************************************************)
(* What a message accounts for.  A change is an entry (seqno, hash, diff); *)
(* a message or config that does not hold it any more must be so far ahead *)
(* that the entry is out of its window.                                    *)
(***************************************************************************)
Accounts(c, e) ==
    (\E x \in c.lagged : SeqnoHash(x) = SeqnoHash(e)) \/ e.seqno + Lag <= c.seqno

(* c is later than m and accounts for all that m makes or carries. *)
Above(c, m) == m.seqno < c.seqno /\ \A e \in Holdings(m) : Accounts(c, e)

(* c is the content of m, or above it. *)
Covers(c, m) == ContentOf(m) = c \/ Above(c, m)

(* Every lagged diff of c is that of a known message, which c is above. *)
Grounded(c, known) ==
    \A e \in c.lagged : /\ e.seqno < c.seqno
                        /\ \E n \in known : SeqnoHash(n) = SeqnoHash(e) /\ Above(c, n)

(* Known messages differ in their hashes as in their contents. *)
Distinct(known) ==
    \A m, n \in known : ContentOf(m) = ContentOf(n) \/ SeqnoHash(m) = SeqnoHash(n) => m = n

(* What a message holds is numbered. *)
LEMMA HoldingsType ==
    ASSUME NEW m \in Message, NEW e \in Holdings(m)
    PROVE  e \in LaggedDiff /\ e.seqno \in Nat /\ e.hash \in Nat
<1>1. e \in LaggedDiff
    BY DEF Holdings, OwnEntry, LaggedDiff, Message, FiniteSubsets
<1> QED BY <1>1 DEF LaggedDiff

(* Being above is transitive: what the message between accounts for only by   *)
(* its distance is out of the later window too.                             *)
LEMMA AboveTransitive ==
    ASSUME NEW c, c.seqno \in Nat, NEW n \in Message, NEW m \in Message,
           Above(c, n), Above(n, m)
    PROVE  Above(c, m)
<1>1. m.seqno \in Nat /\ n.seqno \in Nat /\ m.seqno < n.seqno /\ n.seqno < c.seqno
    BY DEF Message, Above
<1>2. ASSUME NEW e \in Holdings(m) PROVE Accounts(c, e)
    <2>1. e.seqno \in Nat /\ Lag \in Nat
        BY HoldingsType, LagAssumption
    <2>2. Accounts(n, e)
        BY DEF Above
    <2>3. CASE e.seqno + Lag <= n.seqno
        BY <1>1, <2>1, <2>3 DEF Accounts
    <2>4. CASE \E x \in n.lagged : SeqnoHash(x) = SeqnoHash(e)
        <3>1. PICK x \in n.lagged : SeqnoHash(x) = SeqnoHash(e)
            BY <2>4
        <3>2. Accounts(c, x)
            BY DEF Above, Holdings
        <3>3. x.seqno = e.seqno
            BY <3>1 DEF SeqnoHash
        <3> QED BY <3>1, <3>2, <3>3 DEF Accounts
    <2> QED BY <2>2, <2>3, <2>4 DEF Accounts
<1> QED BY <1>1, <1>2 DEF Above

(* Above a message that covers another: above that one as well. *)
LEMMA AboveCovered ==
    ASSUME NEW c, c.seqno \in Nat, NEW n \in Message, NEW m \in Message,
           ContentOf(n) = ContentOf(m) => n = m,
           Above(c, n), Covers(ContentOf(n), m)
    PROVE  Above(c, m)
<1>1. CASE ContentOf(m) = ContentOf(n)
    BY <1>1
<1>2. CASE Above(ContentOf(n), m)
    <2>1. Above(n, m)
        BY <1>2 DEF Above, Accounts, ContentOf
    <2> QED BY <2>1, AboveTransitive
<1> QED BY <1>1, <1>2 DEF Covers

(* Covering is transitive. *)
LEMMA CoversTransitive ==
    ASSUME NEW c, c.seqno \in Nat, NEW n \in Message, NEW m \in Message,
           ContentOf(n) = ContentOf(m) => n = m,
           Covers(c, n), Covers(ContentOf(n), m)
    PROVE  Covers(c, m)
BY AboveCovered DEF Covers

(* A content is above what a message with it is above. *)
LEMMA AboveContent ==
    ASSUME NEW n \in Message, NEW m
    PROVE  Above(ContentOf(n), m) <=> Above(n, m)
BY DEF Above, Accounts, ContentOf

(* Writing only the window loses nothing: what is left out is too old. *)
LEMMA WindowAbove ==
    ASSUME NEW c, c.seqno \in Nat, NEW w, w.seqno = c.seqno,
           c.lagged \subseteq LaggedDiff,
           w.lagged = Window(c.seqno, c.lagged),
           \A e \in c.lagged : e.seqno < c.seqno
    PROVE  /\ \A m : Above(c, m) => Above(w, m)
           /\ \A known : Grounded(c, known) => Grounded(w, known)
<1>1. ASSUME NEW m, Above(c, m) PROVE Above(w, m)
    <2>1. SUFFICES ASSUME NEW e \in Holdings(m) PROVE Accounts(w, e)
        BY <1>1 DEF Above
    <2>2. Accounts(c, e)
        BY <1>1 DEF Above
    <2>3. CASE \E x \in c.lagged : SeqnoHash(x) = SeqnoHash(e)
        <3>1. PICK x \in c.lagged : SeqnoHash(x) = SeqnoHash(e)
            BY <2>3
        <3>2. x.seqno \in Nat /\ x.seqno < c.seqno /\ x.seqno = e.seqno /\ Lag \in Nat
            BY <3>1, LagAssumption DEF LaggedDiff, SeqnoHash
        <3>3. CASE c.seqno - Lag < x.seqno
            <4>1. x \in w.lagged
                BY <3>2, <3>3 DEF Window
            <4> QED BY <3>1, <4>1 DEF Accounts
        <3>4. CASE ~(c.seqno - Lag < x.seqno)
            BY <3>2, <3>4 DEF Accounts
        <3> QED BY <3>3, <3>4
    <2> QED BY <2>2, <2>3 DEF Accounts
<1>2. ASSUME NEW known, Grounded(c, known) PROVE Grounded(w, known)
    <2>1. w.lagged \subseteq c.lagged
        BY DEF Window
    <2> QED BY <1>1, <1>2, <2>1 DEF Grounded
<1> QED BY <1>1, <1>2

(* Incrementing a parsed message keeps all that it held, and the message     *)
(* itself, among the lagged diffs.                                          *)
LEMMA IncrementAbove ==
    ASSUME NEW m \in Message, Windowed(m)
    PROVE  /\ Above(Increment(m), m)
           /\ \A known : m \in known /\ known \subseteq Message /\ Grounded(m, known)
                            => Grounded(Increment(m), known)
<1> DEFINE c == Increment(m)
<1>1. /\ c.seqno = m.seqno + 1 /\ c.seqno \in Nat /\ m.seqno \in Nat
      /\ c.lagged = Holdings(m)
    <2>1. Window(m.seqno, m.lagged) = m.lagged
        BY DEF Window, Windowed
    <2> QED BY <2>1 DEF Increment, Holdings, Message
<1> HIDE DEF c
<1>2. Above(c, m)
    BY <1>1 DEF Above, Accounts
<1>3. ASSUME NEW known, m \in known, known \subseteq Message, Grounded(m, known)
      PROVE  Grounded(c, known)
    <2>1. SUFFICES ASSUME NEW e \in c.lagged
                   PROVE  /\ e.seqno < c.seqno
                          /\ \E n \in known : SeqnoHash(n) = SeqnoHash(e) /\ Above(c, n)
        BY DEF Grounded
    <2>2. CASE e = OwnEntry(m)
        <3>1. SeqnoHash(m) = SeqnoHash(e) /\ e.seqno = m.seqno
            BY <2>2 DEF SeqnoHash, OwnEntry
        <3> QED BY <1>1, <1>2, <1>3, <3>1
    <2>3. CASE e \in m.lagged
        <3>1. PICK n \in known : SeqnoHash(n) = SeqnoHash(e) /\ Above(m, n)
            BY <1>3, <2>3 DEF Grounded
        <3>2. Above(c, n)
            BY <1>1, <1>2, <1>3, <3>1, AboveTransitive
        <3>3. e.seqno < m.seqno /\ e.seqno \in Nat
            BY <1>3, <2>3, HoldingsType DEF Grounded, Holdings
        <3> QED BY <1>1, <3>1, <3>2, <3>3
    <2> QED BY <1>1, <2>2, <2>3 DEF Holdings
<1> QED BY <1>2, <1>3 DEF c

(* What a message too old for c covers is out of the window of c. *)
LEMMA OldAbove ==
    ASSUME NEW c, c.seqno \in Nat, NEW n \in Message, NEW m \in Message, Windowed(m),
           Covers(ContentOf(n), m), n.seqno + Lag <= c.seqno
    PROVE  Above(c, m)
<1>1. /\ n.seqno \in Nat /\ m.seqno \in Nat /\ Lag \in Nat \ {0}
      /\ m.seqno <= n.seqno
    BY LagAssumption DEF Covers, Above, ContentOf, Message
<1>2. ASSUME NEW e \in Holdings(m) PROVE Accounts(c, e)
    <2>1. e.seqno \in Nat /\ e.seqno <= m.seqno
        BY <1>1, HoldingsType DEF Holdings, OwnEntry, Windowed
    <2> QED BY <1>1, <2>1 DEF Accounts
<1> QED BY <1>1, <1>2 DEF Above

(* A vector of messages that are all known and grounded. *)
KnownVector(slots, known) ==
    /\ MergeVector(slots)
    /\ known \subseteq Message /\ Distinct(known)
    /\ \A s \in slots : s.msg \in known /\ Grounded(s.msg, known)

(* The pruning drops a message only for one that covers it and is kept, or is *)
(* itself too old: of the messages that cover it, the first of the highest   *)
(* is redundant to none.                                                    *)
LEMMA KeptCovers ==
    ASSUME NEW slots, NEW known, KnownVector(slots, known), NEW s \in slots
    PROVE  \E t \in slots : /\ Covers(ContentOf(t.msg), s.msg)
                            /\ t \in Kept(slots) \/ TooOld(t, slots)
<1> DEFINE X == {t \in slots : Covers(ContentOf(t.msg), s.msg)}
           Ahead(x, y) == \/ x.msg.seqno < y.msg.seqno
                          \/ x.msg.seqno = y.msg.seqno /\ y.position < x.position
           R == {p \in slots \X slots : Ahead(p[1], p[2])}
<1>1. \A t \in slots : /\ t.msg.seqno \in Nat /\ t.position \in Nat /\ t.msg \in Message
                       /\ t.msg \in known /\ Grounded(t.msg, known)
    BY DEF KnownVector, MergeVector, Message
<1>2. PICK t \in X : \A u \in X : <<t, u>> \notin R
    <2>1. IsFiniteSet(X)
        <3>1. X \in SUBSET slots
            OBVIOUS
        <3> HIDE DEF X
        <3> QED BY <3>1, FS_Subset DEF KnownVector, MergeVector
    <2>2. s \in X
        BY DEF Covers
    <2>3. \A x \in X : <<x, x>> \notin R
        BY <1>1
    <2>4. \A x, y, z \in X : <<x, y>> \in R /\ <<y, z>> \in R => <<x, z>> \in R
        BY <1>1
    <2> HIDE DEF R, X
    <2> QED BY <2>1, <2>2, <2>3, <2>4, FiniteMaximal
<1>3. \A u \in X : ~Ahead(t, u)
    BY <1>2
<1>4. /\ t \in slots /\ t.msg \in Message /\ s.msg \in Message
      /\ t.msg \in known /\ s.msg \in known
      /\ Covers(ContentOf(t.msg), s.msg)
    BY <1>1, <1>2
<1>5. ~Redundant(t, slots)
    <2>1. SUFFICES ASSUME NEW u \in slots,
                          \/ Includes(u.msg, t.msg)
                          \/ u.position < t.position /\ SeqnoHash(u.msg) = SeqnoHash(t.msg)
                   PROVE  FALSE
        BY DEF Redundant
    <2>2. CASE Includes(u.msg, t.msg)
        <3>1. PICK e \in u.msg.lagged : SeqnoHash(e) = SeqnoHash(t.msg)
            BY <2>2 DEF Includes
        <3>2. PICK n \in known : SeqnoHash(n) = SeqnoHash(e) /\ Above(u.msg, n)
            BY <1>1, <3>1 DEF Grounded
        <3>3. n = t.msg
            BY <1>4, <3>1, <3>2 DEF KnownVector, Distinct
        <3>4. Above(u.msg, s.msg)
            <4>1. ContentOf(t.msg) = ContentOf(s.msg) => t.msg = s.msg
                BY <1>4 DEF KnownVector, Distinct
            <4> QED BY <1>1, <1>4, <3>2, <3>3, <4>1, AboveCovered
        <3>5. u \in X
            BY <1>1, <3>4, AboveContent DEF Covers
        <3>6. t.msg.seqno < u.msg.seqno
            BY <3>2, <3>3 DEF Above
        <3> QED BY <1>3, <3>5, <3>6
    <2>3. CASE u.position < t.position /\ SeqnoHash(u.msg) = SeqnoHash(t.msg)
        <3>1. u.msg = t.msg
            BY <1>1, <1>4, <2>3 DEF KnownVector, Distinct
        <3>2. u \in X
            BY <1>4, <3>1
        <3> QED BY <1>3, <2>3, <3>1, <3>2
    <2> QED BY <2>1, <2>2, <2>3
<1> QED BY <1>4, <1>5 DEF Kept

(* A lone survivor covers every message of the vector. *)
LEMMA LoneCovers ==
    ASSUME NEW slots, NEW known, KnownVector(slots, known),
           Cardinality(Kept(slots)) = 1, NEW s \in slots
    PROVE  Covers(ContentOf(Superconf(slots).msg), s.msg)
<1> DEFINE super == Superconf(slots)
<1>1. MergeVector(slots)
    BY DEF KnownVector
<1>2. PICK t \in slots : /\ Covers(ContentOf(t.msg), s.msg)
                         /\ t \in Kept(slots) \/ TooOld(t, slots)
    BY KeptCovers
<1>3. super \in slots /\ super.msg.seqno = MaxSeqno(slots)
    BY <1>1, SuperconfHighest
<1>4. /\ super.msg \in Message /\ t.msg \in Message /\ s.msg \in Message
      /\ Windowed(s.msg) /\ super.msg.seqno \in Nat
    BY <1>1, <1>3 DEF MergeVector, Message
<1>5. CASE t \in Kept(slots)
    <2>1. Kept(slots) \in SUBSET slots /\ IsFiniteSet(Kept(slots))
        BY <1>1, FS_Subset DEF Kept, MergeVector
    <2>2. \E x : Kept(slots) = {x}
        BY <2>1, FS_Singleton
    <2>3. super \in Kept(slots)
        BY <1>1, <1>5, <2>1, BestType DEF Superconf, MergeVector
    <2> QED BY <1>2, <1>5, <2>2, <2>3
<1>6. CASE TooOld(t, slots)
    <2>1. t.msg.seqno + Lag <= super.msg.seqno
        BY <1>3, <1>6 DEF TooOld
    <2> HIDE DEF super
    <2>2. Above(super.msg, s.msg)
        BY <1>2, <1>4, <2>1, OldAbove
    <2> QED BY <1>4, <2>2, AboveContent DEF Covers, super
<1> QED BY <1>2, <1>5, <1>6

(* A merge holds an entry for each change that a kept message holds. *)
LEMMA MergeHolds ==
    ASSUME NEW slots, MergeVector(slots),
           NEW s \in Kept(slots), NEW e \in Holdings(s.msg)
    PROVE  \E x \in MergeContent(slots).lagged : SeqnoHash(x) = SeqnoHash(e)
<1> DEFINE kept == Kept(slots)
           Y == {u \in kept : \E y \in Holdings(u.msg) : SeqnoHash(y) = SeqnoHash(e)}
           R == {p \in kept \X kept : Before(p[1].msg, p[2].msg)}
<1>1. kept \in SUBSET slots /\ IsFiniteSet(kept)
    BY FS_Subset DEF Kept, MergeVector
<1>2. \A u \in kept : u.msg.seqno \in Nat /\ u.msg.hash \in Nat
    <2> HIDE DEF kept
    <2> QED BY <1>1 DEF MergeVector, Message
<1>3. PICK u \in Y : \A t \in Y : <<u, t>> \notin R
    <2>1. Y \in SUBSET kept /\ s \in Y
        OBVIOUS
    <2>2. IsFiniteSet(Y)
        <3> HIDE DEF kept, Y
        <3> QED BY <1>1, <2>1, FS_Subset
    <2>3. \A x \in Y : <<x, x>> \notin R
        BY <1>2 DEF Before
    <2>4. \A x, y, z \in Y : <<x, y>> \in R /\ <<y, z>> \in R => <<x, z>> \in R
        BY <1>2 DEF Before
    <2> HIDE DEF kept, Y, R
    <2> QED BY <2>1, <2>2, <2>3, <2>4, FiniteMaximal
<1>4. PICK y \in Holdings(u.msg) : SeqnoHash(y) = SeqnoHash(e)
    OBVIOUS
<1>5. u \in kept /\ \A t \in kept : Before(u.msg, t.msg) =>
                        \A z \in Holdings(t.msg) : SeqnoHash(z) # SeqnoHash(y)
    BY <1>3, <1>4
<1>6. [entry |-> y, data |-> u.msg.data] \in Replay(kept)
    <2> HIDE DEF kept
    <2> QED BY <1>5 DEF Replay
<1>7. y \in MergeContent(slots).lagged
    <2>1. MergeContent(slots).lagged = {r.entry : r \in Replay(kept)}
        BY DEF MergeContent, MergeKept
    <2>2. [entry |-> y, data |-> u.msg.data].entry = y
        OBVIOUS
    <2> HIDE DEF kept
    <2> QED BY <1>6, <2>1, <2>2
<1> QED BY <1>4, <1>7

(* A merge holds nothing that no kept message holds. *)
LEMMA MergeHeld ==
    ASSUME NEW slots, NEW x \in MergeContent(slots).lagged
    PROVE  \E u \in Kept(slots) : x \in Holdings(u.msg)
<1>1. MergeContent(slots).lagged = {r.entry : r \in Replay(Kept(slots))}
    BY DEF MergeContent, MergeKept
<1>2. PICK r \in Replay(Kept(slots)) : x = r.entry
    BY <1>1
<1>3. PICK u \in Kept(slots) : \E e \in Holdings(u.msg) :
            r = [entry |-> e, data |-> u.msg.data]
    BY <1>2 DEF Replay
<1> QED BY <1>2, <1>3

(* A merge is above everything it was made from, kept or pruned. *)
LEMMA MergeAbove ==
    ASSUME NEW slots, NEW known, KnownVector(slots, known)
    PROVE  /\ \A s \in slots : Above(MergeContent(slots), s.msg)
           /\ Grounded(MergeContent(slots), known)
<1> DEFINE c == MergeContent(slots)
<1>1. MergeVector(slots)
    BY DEF KnownVector
<1>2. /\ c.seqno = MaxSeqno(slots) + 1 /\ c.seqno \in Nat /\ MaxSeqno(slots) \in Nat
      /\ \A s \in slots : s.msg.seqno \in Nat /\ s.msg.seqno < c.seqno
    BY <1>1, MergeContentType, MaxSeqnoType DEF MergeVector, Message
<1>3. \A s \in slots : s.msg \in Message /\ Windowed(s.msg) /\ s.msg \in known
    BY <1>1 DEF MergeVector, KnownVector
<1>4. Kept(slots) \subseteq slots
    BY DEF Kept
<1>5. ASSUME NEW s \in Kept(slots) PROVE Above(c, s.msg)
    <2>1. \A e \in Holdings(s.msg) : Accounts(c, e)
        BY <1>1, MergeHolds DEF Accounts
    <2> HIDE DEF c
    <2> QED BY <1>2, <1>4, <2>1 DEF Above
<1> HIDE DEF c
<1>6. ASSUME NEW s \in slots PROVE Above(c, s.msg)
    <2>1. PICK t \in slots : /\ Covers(ContentOf(t.msg), s.msg)
                             /\ t \in Kept(slots) \/ TooOld(t, slots)
        BY KeptCovers
    <2>2. CASE t \in Kept(slots)
        <3>1. ContentOf(t.msg) = ContentOf(s.msg) => t.msg = s.msg
            BY <1>3 DEF KnownVector, Distinct
        <3> QED BY <1>2, <1>3, <1>5, <2>1, <2>2, <3>1, AboveCovered
    <2>3. CASE TooOld(t, slots)
        <3>1. t.msg.seqno + Lag <= c.seqno
            BY <1>2, <2>3, LagAssumption DEF TooOld
        <3> QED BY <1>2, <1>3, <2>1, <3>1, OldAbove
    <2> QED BY <2>1, <2>2, <2>3
<1>7. ASSUME NEW x \in c.lagged
      PROVE  /\ x.seqno < c.seqno
             /\ \E n \in known : SeqnoHash(n) = SeqnoHash(x) /\ Above(c, n)
    <2>1. PICK u \in Kept(slots) : x \in Holdings(u.msg)
        BY <1>7, MergeHeld DEF c
    <2>2. CASE x = OwnEntry(u.msg)
        <3>1. SeqnoHash(u.msg) = SeqnoHash(x) /\ x.seqno = u.msg.seqno
            BY <2>2 DEF SeqnoHash, OwnEntry
        <3> QED BY <1>2, <1>3, <1>4, <1>5, <3>1
    <2>3. CASE x \in u.msg.lagged
        <3>1. PICK n \in known : SeqnoHash(n) = SeqnoHash(x) /\ Above(u.msg, n)
            BY <1>4, <2>1, <2>3 DEF KnownVector, Grounded
        <3>2. Above(c, n)
            BY <1>2, <1>3, <1>4, <1>5, <3>1, AboveTransitive DEF KnownVector
        <3>3. x.seqno = n.seqno
            BY <3>1 DEF SeqnoHash
        <3> QED BY <3>1, <3>2, <3>3 DEF Above
    <2> QED BY <2>1, <2>2, <2>3 DEF Holdings
<1> QED BY <1>6, <1>7 DEF Grounded, c

(* c continues from m with the same data: it is the content of m, or the next   *)
(* one on it, which changes nothing.                                        *)
FollowsOn(c, m) ==
    /\ c.data = m.data
    /\ ContentOf(m) = c \/ (c.seqno = m.seqno + 1 /\ c.lagged \subseteq Holdings(m))

(* A content that covers n, but continues from a message no later than n, has   *)
(* the data of n: one seqno after n it could only have taken n's own diff   *)
(* from n.                                                                  *)
LEMMA FollowsSame ==
    ASSUME Lag > 1, NEW c, c.seqno \in Nat, NEW n \in Message, NEW m \in Message,
           Windowed(m), SeqnoHash(m) = SeqnoHash(n) => m = n,
           FollowsOn(c, m), m.seqno <= n.seqno, Covers(c, n)
    PROVE  c.data = n.data
<1>1. n.seqno \in Nat /\ m.seqno \in Nat /\ Lag \in Nat
    BY LagAssumption DEF Message
<1>2. CASE ContentOf(n) = c
    BY <1>2 DEF ContentOf
<1>3. CASE Above(c, n)
    <2>1. n.seqno < c.seqno
        BY <1>3 DEF Above
    <2>2. CASE ContentOf(m) = c
        <3>1. c.seqno = m.seqno
            BY <2>2 DEF ContentOf
        <3> QED BY <1>1, <2>1, <3>1
    <2>3. CASE c.seqno = m.seqno + 1 /\ c.lagged \subseteq Holdings(m)
        <3>1. m.seqno = n.seqno /\ c.seqno = n.seqno + 1
            BY <1>1, <2>1, <2>3
        <3>2. OwnEntry(n) \in Holdings(n) /\ OwnEntry(n).seqno = n.seqno
              /\ SeqnoHash(OwnEntry(n)) = SeqnoHash(n)
            BY DEF Holdings, OwnEntry, SeqnoHash
        <3>3. ~(n.seqno + Lag <= c.seqno)
            BY <1>1, <3>1
        <3>4. PICK x \in c.lagged : SeqnoHash(x) = SeqnoHash(n)
            BY <1>3, <3>2, <3>3 DEF Above, Accounts
        <3>5. x \in Holdings(m) /\ x.seqno = m.seqno
            BY <2>3, <3>1, <3>4 DEF SeqnoHash
        <3>6. x = OwnEntry(m)
            BY <1>1, <3>5 DEF Holdings, Windowed
        <3>7. SeqnoHash(m) = SeqnoHash(n)
            BY <3>4, <3>6 DEF SeqnoHash, OwnEntry
        <3> QED BY <3>7 DEF FollowsOn
    <2> QED BY <2>2, <2>3 DEF FollowsOn
<1> QED BY <1>2, <1>3 DEF Covers
=============================================================================
