----------------------------- MODULE MultipartProofs -----------------------------
(***************************************************************************)
(* Multipart's invariants, for any messages, any way of delivering parts   *)
(* and any times.                                                          *)
(***************************************************************************)
EXTENDS Multipart, FiniteSetTheorems, SequenceTheorems, TLAPS

(* What holds of the parts kept of one set: they belong to it, have          *)
(* different numbers, agree on its size, and are not yet the whole message. *)
Collected(s, e) ==
    /\ IsFiniteSet(e.parts)
    /\ \A p \in e.parts : p.set = s /\ ~Malformed(p) /\ p.size = e.size
    /\ \A p, q \in e.parts : p.index = q.index => p = q
    /\ e.done => e.parts = {}
    /\ e.parts # {} => Cardinality(e.parts) < e.size \/ ~HashMatches(e.parts)

AllCollected == \A s \in Sets : Collected(s, multiparts[s]) /\ Collected(s, disk[s])

(* A set passed on by this process is remembered for the time it has to be. *)
Remembered ==
    \A i \in DOMAIN history :
        /\ history[i].at <= clock /\ history[i].run <= spent.restarts
        /\ (history[i].run = spent.restarts /\ clock <= history[i].at + MaxRemember) =>
              /\ multiparts[history[i].set].done
              /\ multiparts[history[i].set].expiry >= history[i].at + MaxRemember

OnlyWhileMerging == ~merging => batch = <<>> /\ good = {}

(* The inductive invariant. *)
IInv ==
    /\ TypeOK /\ AllCollected /\ Remembered /\ OnlyWhileMerging
    /\ PassedOnWhole /\ PassedOnOnce /\ GoodIsUsed /\ PendingSaved

-----------------------------------------------------------------------------
(* As many differently numbered parts as there are numbers: each is there.   *)
LEMMA AllNumbers ==
    ASSUME NEW S, IsFiniteSet(S), NEW n \in Nat, Cardinality(S) = n,
           \A p \in S : p.index \in 0..(n - 1),
           \A p, q \in S : p.index = q.index => p = q
    PROVE  {p.index : p \in S} = 0..(n - 1)
<1> DEFINE f == [p \in S |-> p.index]
<1>1. f \in Injection(S, 0..(n - 1))
    BY DEF Injection, IsInjective
<1>2. IsFiniteSet(0..(n - 1)) /\ Cardinality(0..(n - 1)) = n
    BY FS_Interval
<1>3. f \in Surjection(S, 0..(n - 1))
    BY <1>1, <1>2, FS_Injection
<1>4. \A i \in 0..(n - 1) : \E p \in S : p.index = i
    BY <1>3 DEF Surjection
<1> QED BY <1>4

(* A set of parts that shows n numbers has at least n members. *)
LEMMA NumbersBound ==
    ASSUME NEW S, IsFiniteSet(S), NEW n \in Nat, {p.index : p \in S} = 0..(n - 1)
    PROVE  Cardinality(S) >= n
<1> DEFINE f == [p \in S |-> p.index]
           T == {p.index : p \in S}
<1>1. f \in Surjection(S, T)
    BY DEF Surjection
<1>2. Cardinality(T) <= Cardinality(S)
    BY <1>1, FS_Surjection
<1>3. Cardinality(T) = n
    <2>1. Cardinality(0..(n - 1)) = n
        BY FS_Interval
    <2> QED BY <2>1
<1>4. Cardinality(S) \in Nat
    BY FS_CardinalityType
<1> QED BY <1>2, <1>3, <1>4

(* Differently numbered parts with numbers below n are at most n. *)
LEMMA PartsBound ==
    ASSUME NEW S, IsFiniteSet(S), NEW n \in Nat,
           \A p \in S : p.index \in Nat /\ p.index < n,
           \A p, q \in S : p.index = q.index => p = q
    PROVE  Cardinality(S) <= n
<1> DEFINE f == [p \in S |-> p.index]
<1>1. f \in Injection(S, 0..(n - 1))
    BY DEF Injection, IsInjective
<1>2. IsFiniteSet(0..(n - 1)) /\ Cardinality(0..(n - 1)) = n
    BY FS_Interval
<1> QED BY <1>1, <1>2, FS_Injection

(* A part that is not yet held is added to those that are: their number        *)
(* grows by one and they stay differently numbered parts of one size.       *)
LEMMA AddPart ==
    ASSUME NEW s \in Sets, NEW e \in Entry, Collected(s, e), ~e.done,
           NEW p \in Wire, p.set = s, ~Malformed(p), ~Mismatched(e, p), ~Seen(e, p)
    PROVE  LET S == e.parts \cup {p}
           IN  /\ S \in SUBSET Wire /\ IsFiniteSet(S)
               /\ Cardinality(S) = Cardinality(e.parts) + 1
               /\ \A q \in S : q.set = s /\ ~Malformed(q) /\ q.size = p.size
               /\ \A q, r \in S : q.index = r.index => q = r
<1>1. p \notin e.parts
    BY DEF Seen
<1>2. e.parts \subseteq Wire
    BY DEF Entry
<1>3. \A q \in e.parts : q.size = p.size
    BY DEF Mismatched, Collected
<1>4. IsFiniteSet(e.parts)
    BY DEF Collected
<1>5. \A q \in e.parts : q.index # p.index
    BY DEF Seen
<1> QED BY <1>1, <1>2, <1>3, <1>4, <1>5, FS_AddElement DEF Collected

(* The fields of a part have their types. *)
LEMMA WireType == \A p \in Wire : p.set \in Sets /\ p.index \in Nat /\ p.size \in Nat
                                  /\ p.genuine \in BOOLEAN
BY WireAssumption DEF Part

(* A completed set whose hash is right is the message that was split. *)
LEMMA WholeSet ==
    ASSUME NEW s \in Sets, NEW e \in Entry, Collected(s, e), ~e.done,
           NEW p \in Wire, p.set = s, ~Malformed(p), ~Mismatched(e, p), ~Seen(e, p),
           Completes(e, p), HashMatches(e.parts \cup {p})
    PROVE  LET S == e.parts \cup {p}
           IN  Complete(s, S) /\ \A q, r \in S : q.index = r.index => q = r
<1> DEFINE S == e.parts \cup {p}
<1>1. /\ S \in SUBSET Wire /\ IsFiniteSet(S)
      /\ \A q \in S : q.set = s /\ ~Malformed(q) /\ q.size = p.size
      /\ \A q, r \in S : q.index = r.index => q = r
    BY AddPart
<1>2. p.size = NumParts[s] /\ p.size \in Nat
    BY WireAssumption, WireType DEF HashMatches
<1>3. Cardinality(S) = p.size
    BY DEF Completes
<1>4. \A q \in S : q.index \in 0..(p.size - 1)
    BY <1>1, <1>2, WireType DEF Malformed
<1>5. {q.index : q \in S} = 0..(p.size - 1)
    <2> HIDE DEF S
    <2> QED BY <1>1, <1>2, <1>3, <1>4, AllNumbers
<1> QED BY <1>1, <1>2, <1>5 DEF Complete, HashMatches

-----------------------------------------------------------------------------
(* The part being handled is one of those that polls deliver. *)
LEMMA CurrentType ==
    ASSUME TypeOK, batch # <<>>
    PROVE  /\ Current \in Wire /\ Tail(batch) \in Seq(Wire)
           /\ Current.set \in Sets /\ EntryOf(Current) \in Entry
BY HeadTailProperties, WireType DEF TypeOK, Current, EntryOf

(* An expired set is forgotten altogether, the others are left as they are. *)
LEMMA ExpireType ==
    ASSUME NEW entries \in [Sets -> Entry], TypeOK
    PROVE  /\ Expire(entries) \in [Sets -> Entry]
           /\ \A s \in Sets : Expire(entries)[s] =
                IF entries[s].expiry < clock THEN Blank ELSE entries[s]
BY DEF Expire, Blank, Entry, TypeOK

(* Nothing is collected of a blank or of a finished set. *)
LEMMA NothingCollected ==
    ASSUME NEW s \in Sets, NEW e, e.parts = {}
    PROVE  Collected(s, e)
BY FS_EmptySet DEF Collected

(* Initially. *)
LEMMA InitIInv == Init => IInv
<1> SUFFICES ASSUME Init PROVE IInv
    OBVIOUS
<1>1. TypeOK
    <2>1. [s \in Sets |-> Blank] \in [Sets -> Entry]
        BY DEF Blank, Entry
    <2>2. batch \in Seq(Wire) /\ history \in Seq(Completion)
        BY DEF Init
    <2>3. spent \in [dumps : Nat, restarts : Nat] /\ clock \in Nat \ {0}
        BY DEF Init
    <2> QED BY <2>1, <2>2, <2>3 DEF Init, TypeOK
<1>2. AllCollected
    BY NothingCollected DEF Init, AllCollected, Blank
<1>3. Remembered /\ PassedOnWhole /\ PassedOnOnce
    BY DEF Init, Remembered, PassedOnWhole, PassedOnOnce
<1> QED BY <1>1, <1>2, <1>3 DEF Init, IInv, OnlyWhileMerging, GoodIsUsed, PendingSaved, Blank

(* Every action keeps every variable's type. *)
LEMMA TypeStep ==
    ASSUME TypeOK, [Next]_vars
    PROVE  TypeOK'
<1> USE DEF TypeOK
<1>1. ASSUME NEW parts \in Batches, StartMerge(parts) PROVE TypeOK'
    <2>1. parts \in Seq(Wire)
        BY <1>1 DEF Batches
    <2> QED BY <1>1, <2>1 DEF StartMerge
<1>2. CASE RejectPart
    BY <1>2, CurrentType DEF RejectPart, Handled
<1>3. CASE IgnorePart
    BY <1>3, CurrentType DEF IgnorePart, Handled
<1>4. CASE StorePart
    <2>1. Current \in Wire /\ Current.set \in Sets /\ Current.size \in Nat
        BY <1>4, CurrentType, WireType DEF StorePart, NewPart
    <2>2. multiparts' \in [Sets -> Entry]
        BY <1>4, <2>1, TimesAssumption DEF StorePart, WithPart, Entry, EntryOf
    <2> QED BY <1>4, <2>2, CurrentType DEF StorePart, NewPart, Handled
<1>5. CASE KeepMismatch
    <2>1. Current \in Wire /\ Current.set \in Sets /\ Current.size \in Nat
        BY <1>5, CurrentType, WireType DEF KeepMismatch, NewPart
    <2>2. multiparts' \in [Sets -> Entry]
        BY <1>5, <2>1 DEF KeepMismatch, WithPart, Entry, EntryOf
    <2> QED BY <1>5, <2>2, CurrentType DEF KeepMismatch, NewPart, Handled
<1>6. CASE CompletePart
    <2>1. Current \in Wire /\ Current.set \in Sets /\ EntryOf(Current) \in Entry
        BY <1>6, CurrentType DEF CompletePart, NewPart
    <2>2. multiparts' \in [Sets -> Entry]
        BY <1>6, <2>1, TimesAssumption DEF CompletePart, Finish, Entry
    <2>3. history' \in Seq(Completion)
        <3>1. [set |-> Current.set, at |-> clock, run |-> spent.restarts,
               parts |-> EntryOf(Current).parts \cup {Current}] \in Completion
            BY <2>1 DEF Completion, Entry
        <3> QED BY <1>6, <3>1, AppendProperties DEF CompletePart
    <2> QED BY <1>6, <2>2, <2>3, CurrentType DEF CompletePart, NewPart, Handled
<1>7. CASE FinishMerge
    BY <1>7, ExpireType DEF FinishMerge
<1>8. ASSUME NEW s \in Sets, NEW dirty \in BOOLEAN, PushLarge(s, dirty) PROVE TypeOK'
    BY <1>8, TimesAssumption DEF PushLarge, Finish, Entry
<1>9. CASE Dump
    <2>1. Expire(multiparts) \in [Sets -> Entry]
        BY ExpireType
    <2>2. disk' \in [Sets -> Entry]
        BY <1>9, <2>1 DEF Dump, Saved, Entry
    <2>3. spent' \in [dumps : Nat, restarts : Nat]
        BY <1>9 DEF Dump
    <2> QED BY <1>9, <2>1, <2>2, <2>3 DEF Dump
<1>10. CASE Restart
    <2>1. multiparts' \in [Sets -> Entry]
        BY <1>10 DEF Restart, Loaded, Blank, Entry
    <2>2. spent' \in [dumps : Nat, restarts : Nat] /\ <<>> \in Seq(Wire)
        BY <1>10 DEF Restart
    <2> QED BY <1>10, <2>1, <2>2 DEF Restart
<1>11. CASE Tick
    BY <1>11 DEF Tick
<1>12. CASE UNCHANGED vars
    BY <1>12 DEF vars
<1> QED BY <1>1, <1>2, <1>3, <1>4, <1>5, <1>6, <1>7, <1>8, <1>9, <1>10, <1>11, <1>12 DEF Next

(* What is kept of a set never is the whole message, in memory and on disk. *)
LEMMA CollectedStep ==
    ASSUME TypeOK, AllCollected, [Next]_vars
    PROVE  AllCollected'
<1> SUFFICES ASSUME NEW s \in Sets
             PROVE  Collected(s, multiparts'[s]) /\ Collected(s, disk'[s])
    BY DEF AllCollected, Collected
<1>1. Collected(s, multiparts[s]) /\ Collected(s, disk[s])
    BY DEF AllCollected
<1>2. ASSUME UNCHANGED <<multiparts, disk>>
      PROVE  Collected(s, multiparts'[s]) /\ Collected(s, disk'[s])
    BY <1>1, <1>2
<1>3. ASSUME NewPart
      PROVE  LET S == EntryOf(Current).parts \cup {Current}
             IN  /\ Current.set \in Sets
                 /\ S \in SUBSET Wire /\ IsFiniteSet(S)
                 /\ Cardinality(S) = Cardinality(EntryOf(Current).parts) + 1
                 /\ \A q \in S : q.set = Current.set /\ ~Malformed(q) /\ q.size = Current.size
                 /\ \A q, r \in S : q.index = r.index => q = r
    <2>1. /\ Current \in Wire /\ Current.set \in Sets /\ EntryOf(Current) \in Entry
          /\ Collected(Current.set, EntryOf(Current))
        BY <1>3, CurrentType DEF NewPart, AllCollected, EntryOf
    <2>2. /\ ~EntryOf(Current).done /\ ~Malformed(Current)
          /\ ~Mismatched(EntryOf(Current), Current) /\ ~Seen(EntryOf(Current), Current)
        BY <1>3 DEF NewPart
    <2> HIDE DEF Current, EntryOf
    <2> QED BY <2>1, <2>2, AddPart
<1>4. CASE StorePart
    <2> DEFINE S == EntryOf(Current).parts \cup {Current}
    <2>1. CASE s # Current.set
        BY <1>1, <1>4, <2>1 DEF StorePart, TypeOK, Handled
    <2>2. CASE s = Current.set
        <3>1. /\ multiparts'[s].parts = S /\ multiparts'[s].size = Current.size
              /\ multiparts'[s].done = FALSE
            BY <1>4, <2>2 DEF StorePart, WithPart, NewPart, TypeOK, EntryOf, Entry
        <3>2. Cardinality(S) # Current.size
            BY <1>4 DEF StorePart, Completes
        <3>3. /\ Current.size \in Nat /\ Cardinality(EntryOf(Current).parts) \in Nat
              /\ \A q \in S : q.index \in Nat /\ q.index < Current.size
            BY <1>3, <1>4, <1>1, <2>2, CurrentType, WireType, FS_CardinalityType
               DEF StorePart, NewPart, Malformed, Collected, EntryOf
        <3>4. Cardinality(S) <= Current.size
            <4>1. IsFiniteSet(S) /\ \A q, r \in S : q.index = r.index => q = r
                BY <1>3, <1>4 DEF StorePart
            <4> HIDE DEF S
            <4> QED BY <3>3, <4>1, PartsBound
        <3>5. Cardinality(S) < Current.size
            BY <1>3, <1>4, <3>2, <3>3, <3>4 DEF StorePart
        <3>6. Collected(s, multiparts'[s])
            BY <1>3, <1>4, <2>2, <3>1, <3>5 DEF StorePart, Collected
        <3> QED BY <1>1, <1>4, <3>6 DEF StorePart, Handled
    <2> QED BY <2>1, <2>2
<1>5. CASE KeepMismatch
    <2> DEFINE S == EntryOf(Current).parts \cup {Current}
    <2>1. CASE s # Current.set
        BY <1>1, <1>5, <2>1 DEF KeepMismatch, TypeOK, Handled
    <2>2. CASE s = Current.set
        <3>1. /\ multiparts'[s].parts = S /\ multiparts'[s].size = Current.size
              /\ multiparts'[s].done = FALSE
            BY <1>5, <2>2 DEF KeepMismatch, WithPart, NewPart, TypeOK, EntryOf, Entry
        <3> QED BY <1>1, <1>3, <1>5, <3>1, <2>2 DEF KeepMismatch, Collected, Handled
    <2> QED BY <2>1, <2>2
<1>6. CASE CompletePart
    <2>1. multiparts'[s] = multiparts[s] \/ multiparts'[s].parts = {}
        BY <1>6 DEF CompletePart, TypeOK, Finish
    <2> QED BY <1>1, <1>6, <2>1, NothingCollected DEF CompletePart, Handled
<1>7. CASE FinishMerge
    <2>1. multiparts'[s] = multiparts[s] \/ multiparts'[s].parts = {}
        <3>1. multiparts' = Expire(multiparts)
            BY <1>7 DEF FinishMerge
        <3> QED BY <3>1 DEF Expire, Blank
    <2> QED BY <1>1, <1>7, <2>1, NothingCollected DEF FinishMerge
<1>8. ASSUME NEW t \in Sets, NEW dirty \in BOOLEAN, PushLarge(t, dirty)
      PROVE  Collected(s, multiparts'[s]) /\ Collected(s, disk'[s])
    <2>1. multiparts'[s] = multiparts[s] \/ multiparts'[s].parts = {}
        BY <1>8 DEF PushLarge, TypeOK, Finish
    <2> QED BY <1>1, <1>8, <2>1, NothingCollected DEF PushLarge
<1>9. CASE Dump
    <2>1. multiparts'[s] = multiparts[s] \/ multiparts'[s].parts = {}
        <3>1. multiparts' = Expire(multiparts)
            BY <1>9 DEF Dump
        <3> QED BY <3>1 DEF Expire, Blank
    <2>2. disk'[s] = multiparts'[s] \/ disk'[s].parts = {}
        <3>1. Expire(multiparts) \in [Sets -> Entry]
            BY ExpireType DEF TypeOK
        <3> QED BY <1>9, <3>1 DEF Dump, Saved, Entry
    <2> QED BY <1>1, <1>9, <2>1, <2>2, NothingCollected
<1>10. CASE Restart
    <2>1. multiparts'[s].parts = {} \/ multiparts'[s] = disk[s]
        BY <1>10 DEF Restart, Loaded, Blank, TypeOK, Entry
    <2> QED BY <1>1, <1>10, <2>1, NothingCollected DEF Restart
<1> QED
    BY <1>2, <1>4, <1>5, <1>6, <1>7, <1>8, <1>9, <1>10
       DEF Next, vars, StartMerge, RejectPart, IgnorePart, Tick, Handled

(* A merge that is over has no parts left to handle. *)
LEMMA MergingStep ==
    ASSUME OnlyWhileMerging, [Next]_vars
    PROVE  OnlyWhileMerging'
BY DEF OnlyWhileMerging, Next, vars, StartMerge, RejectPart, IgnorePart, StorePart,
       KeepMismatch, CompletePart, NewPart, FinishMerge, PushLarge, Dump, Restart, Tick, Handled

(* Only a set that has just been completed is added to what was passed on. *)
LEMMA HistoryStep ==
    ASSUME IInv, [Next]_vars
    PROVE  \/ UNCHANGED history
           \/ /\ CompletePart
              /\ history' = Append(history, [set |-> Current.set, at |-> clock,
                        run |-> spent.restarts, parts |-> EntryOf(Current).parts \cup {Current}])
BY DEF Next, vars, StartMerge, RejectPart, IgnorePart, StorePart, KeepMismatch,
       CompletePart, FinishMerge, PushLarge, Dump, Restart, Tick

(* What is passed on is whole. *)
LEMMA WholeStep ==
    ASSUME IInv, [Next]_vars
    PROVE  PassedOnWhole'
<1>1. CASE UNCHANGED history
    BY <1>1 DEF IInv, PassedOnWhole
<1>2. CASE /\ CompletePart
           /\ history' = Append(history, [set |-> Current.set, at |-> clock,
                     run |-> spent.restarts, parts |-> EntryOf(Current).parts \cup {Current}])
    <2> DEFINE S == EntryOf(Current).parts \cup {Current}
               new == [set |-> Current.set, at |-> clock, run |-> spent.restarts, parts |-> S]
    <2>1. /\ Current \in Wire /\ Current.set \in Sets /\ EntryOf(Current) \in Entry
          /\ Collected(Current.set, EntryOf(Current))
        BY <1>2, CurrentType DEF IInv, CompletePart, NewPart, AllCollected, EntryOf
    <2>2. /\ ~EntryOf(Current).done /\ ~Malformed(Current)
          /\ ~Mismatched(EntryOf(Current), Current) /\ ~Seen(EntryOf(Current), Current)
          /\ Completes(EntryOf(Current), Current) /\ HashMatches(S)
        BY <1>2 DEF CompletePart, NewPart
    <2>3. Complete(Current.set, S) /\ \A p, q \in S : p.index = q.index => p = q
        BY <2>1, <2>2, WholeSet
    <2>4. history \in Seq(Completion) /\ new \in Completion
        BY <2>1 DEF IInv, TypeOK, Completion, Entry
    <2>5. /\ Len(history') = Len(history) + 1
          /\ \A i \in 1..Len(history) : history'[i] = history[i]
          /\ history'[Len(history) + 1] = new
        <3> HIDE DEF new
        <3> QED BY <1>2, <2>4, AppendProperties DEF new
    <2>6. history' \in Seq(Completion)
        BY TypeStep DEF IInv, TypeOK
    <2> SUFFICES ASSUME NEW i \in DOMAIN history'
                 PROVE  /\ Complete(history'[i].set, history'[i].parts)
                        /\ \A p, q \in history'[i].parts : p.index = q.index => p = q
        BY DEF PassedOnWhole, Complete
    <2>7. CASE i \in 1..Len(history)
        BY <2>4, <2>5, <2>7 DEF IInv, PassedOnWhole
    <2>8. CASE i = Len(history) + 1
        <3>1. history'[i].set = Current.set /\ history'[i].parts = S
            BY <2>5, <2>8
        <3> QED BY <2>3, <3>1
    <2> QED BY <2>4, <2>5, <2>6, <2>7, <2>8
<1> QED BY <1>1, <1>2, HistoryStep

(* No action but a restart forgets a finished set before its time. *)
LEMMA StillRemembered ==
    ASSUME IInv, [Next]_vars, NEW s \in Sets, NEW at \in Nat,
           at <= clock, clock <= at + MaxRemember, spent'.restarts = spent.restarts,
           multiparts[s].done, multiparts[s].expiry >= at + MaxRemember
    PROVE  multiparts'[s].done /\ multiparts'[s].expiry >= at + MaxRemember
<1> USE DEF IInv, TypeOK
<1>1. ASSUME UNCHANGED multiparts
      PROVE  multiparts'[s].done /\ multiparts'[s].expiry >= at + MaxRemember
    BY <1>1
<1>2. ASSUME NewPart PROVE s # Current.set
    BY <1>2 DEF NewPart, EntryOf
<1>3. CASE StorePart \/ KeepMismatch \/ CompletePart
    BY <1>2, <1>3 DEF StorePart, KeepMismatch, CompletePart
<1>4. CASE FinishMerge \/ Dump
    <2>1. ~(multiparts[s].expiry < clock)
        BY TimesAssumption DEF Entry
    <2> QED BY <1>4, <2>1, ExpireType DEF FinishMerge, Dump
<1>5. ASSUME NEW u \in Sets, NEW dirty \in BOOLEAN, PushLarge(u, dirty)
      PROVE  multiparts'[s].done /\ multiparts'[s].expiry >= at + MaxRemember
    <2>1. CASE u = s
        BY <1>5, <2>1, TimesAssumption DEF PushLarge, Finish
    <2>2. CASE u # s
        BY <1>5, <2>2 DEF PushLarge
    <2> QED BY <2>1, <2>2
<1>6. ~Restart
    BY DEF Restart
<1> QED
    BY <1>1, <1>3, <1>4, <1>5, <1>6
       DEF Next, vars, StartMerge, RejectPart, IgnorePart, Tick, Handled

(* Time and the number of the process only grow. *)
LEMMA ClockStep ==
    ASSUME TypeOK, [Next]_vars
    PROVE  clock' >= clock /\ spent'.restarts >= spent.restarts
BY DEF TypeOK, Next, vars, StartMerge, RejectPart, IgnorePart, StorePart, KeepMismatch,
       CompletePart, FinishMerge, PushLarge, Dump, Restart, Tick, Handled

(* Sets passed on are remembered, and so none is passed on twice. *)
LEMMA OnceStep ==
    ASSUME IInv, [Next]_vars
    PROVE  Remembered' /\ PassedOnOnce'
<1>1. /\ TypeOK /\ TypeOK' /\ clock \in Nat /\ clock' \in Nat /\ MaxRemember \in Nat
      /\ spent.restarts \in Nat /\ spent'.restarts \in Nat
      /\ clock' >= clock /\ spent'.restarts >= spent.restarts
      /\ history \in Seq(Completion) /\ history' \in Seq(Completion)
    BY TypeStep, ClockStep, TimesAssumption DEF IInv, TypeOK
<1>2. \A i \in DOMAIN history : /\ history[i].set \in Sets
                                /\ history[i].at \in Nat /\ history[i].run \in Nat
    <2>1. \A i \in DOMAIN history : history[i] \in Completion
        BY <1>1, ElementOfSeq
    <2> QED BY <2>1 DEF Completion
<1>3. ASSUME NEW i \in DOMAIN history,
             history[i].run = spent'.restarts, clock' <= history[i].at + MaxRemember
      PROVE  /\ multiparts'[history[i].set].done
             /\ multiparts'[history[i].set].expiry >= history[i].at + MaxRemember
    <2>1. /\ history[i].at <= clock /\ history[i].run <= spent.restarts
          /\ clock <= history[i].at + MaxRemember
        BY <1>1, <1>2, <1>3 DEF IInv, Remembered
    <2>2. spent'.restarts = spent.restarts
        BY <1>1, <1>2, <1>3, <2>1
    <2> QED BY <1>2, <1>3, <2>1, <2>2, StillRemembered DEF IInv, Remembered
<1>4. CASE UNCHANGED history
    <2>1. PassedOnOnce'
        BY <1>4 DEF IInv, PassedOnOnce
    <2>2. Remembered'
        BY <1>1, <1>2, <1>3, <1>4 DEF IInv, Remembered
    <2> QED BY <2>1, <2>2
<1>5. CASE /\ CompletePart
           /\ history' = Append(history, [set |-> Current.set, at |-> clock,
                     run |-> spent.restarts, parts |-> EntryOf(Current).parts \cup {Current}])
    <2> DEFINE new == [set |-> Current.set, at |-> clock, run |-> spent.restarts,
                       parts |-> EntryOf(Current).parts \cup {Current}]
               n == Len(history) + 1
    <2>1. /\ Current.set \in Sets /\ new \in Completion
        BY <1>1, <1>5, CurrentType DEF CompletePart, NewPart, Completion, Entry
    <2>2. /\ Len(history') = n /\ \A i \in 1..Len(history) : history'[i] = history[i]
          /\ history'[n] = new
        <3> HIDE DEF new
        <3> QED BY <1>1, <1>5, <2>1, AppendProperties DEF new
    <2>3. /\ clock' = clock /\ spent' = spent /\ ~multiparts[Current.set].done
          /\ multiparts'[Current.set] = Finish(clock)
        BY <1>1, <1>5, <2>1 DEF CompletePart, NewPart, Handled, EntryOf, TypeOK
    <2>4. \A i \in DOMAIN history' : i \in 1..Len(history) \/ i = n
        BY <1>1, <2>2
    <2>5. \A i \in 1..Len(history) : i \in DOMAIN history
        BY <1>1
    <2>6. Remembered'
        <3> SUFFICES ASSUME NEW i \in DOMAIN history'
                     PROVE  /\ history'[i].at <= clock' /\ history'[i].run <= spent'.restarts
                            /\ (history'[i].run = spent'.restarts
                                  /\ clock' <= history'[i].at + MaxRemember) =>
                                /\ multiparts'[history'[i].set].done
                                /\ multiparts'[history'[i].set].expiry
                                     >= history'[i].at + MaxRemember
            BY DEF Remembered
        <3>1. CASE i \in 1..Len(history)
            BY <1>1, <1>2, <1>3, <2>2, <2>3, <2>5, <3>1 DEF IInv, Remembered
        <3>2. CASE i = n
            BY <1>1, <2>2, <2>3, <3>2 DEF Finish
        <3> QED BY <2>4, <3>1, <3>2
    <2>7. PassedOnOnce'
        <3> SUFFICES ASSUME NEW i \in DOMAIN history', NEW j \in DOMAIN history', i < j,
                            history'[i].set = history'[j].set, history'[i].run = history'[j].run
                     PROVE  history'[i].at + MaxRemember < history'[j].at
            BY DEF PassedOnOnce
        <3>1. i \in 1..Len(history)
            BY <1>1, <2>2, <2>4
        <3>2. CASE j \in 1..Len(history)
            BY <2>2, <2>5, <3>1, <3>2 DEF IInv, PassedOnOnce
        <3>3. CASE j = n
            <4>1. /\ history[i].set = Current.set /\ history[i].run = spent.restarts
                  /\ history'[j].at = clock /\ history'[i].at = history[i].at
                BY <2>2, <3>1, <3>3
            <4>2. ~(clock <= history[i].at + MaxRemember)
                BY <2>3, <2>5, <3>1, <4>1 DEF IInv, Remembered
            <4> QED BY <1>1, <1>2, <2>5, <3>1, <4>1, <4>2
        <3> QED BY <2>4, <3>2, <3>3
    <2> QED BY <2>6, <2>7
<1> QED BY <1>4, <1>5, HistoryStep

(* Every part that was accepted stays in use until the call returns. *)
LEMMA GoodStep ==
    ASSUME IInv, [Next]_vars
    PROVE  GoodIsUsed'
<1> DEFINE Used(p, entries) == \/ entries[p.set].done
                               \/ \E q \in entries[p.set].parts : q.index = p.index
<1>1. \A p \in good : p \in Wire /\ p.set \in Sets /\ Used(p, multiparts)
    BY WireType DEF IInv, TypeOK, GoodIsUsed
<1> SUFFICES \A p \in good' : Used(p, multiparts')
    BY DEF GoodIsUsed
<1>2. CASE UNCHANGED <<good, multiparts>>
    BY <1>1, <1>2
<1>3. CASE RejectPart
    BY <1>1, <1>3 DEF RejectPart, Handled
<1>4. CASE IgnorePart
    BY <1>1, <1>4 DEF IgnorePart, Handled, Seen, EntryOf
<1>5. CASE StorePart
    <2>1. Current \in Wire /\ Current.set \in Sets
        BY <1>5, CurrentType DEF IInv, StorePart, NewPart
    <2>2. /\ multiparts'[Current.set].parts = multiparts[Current.set].parts \cup {Current}
          /\ ~multiparts[Current.set].done
          /\ \A s \in Sets : s # Current.set => multiparts'[s] = multiparts[s]
        BY <1>5, <2>1 DEF IInv, TypeOK, StorePart, NewPart, WithPart, EntryOf
    <2>3. good' = good \cup {Current}
        BY <1>5 DEF StorePart, Handled
    <2> QED BY <1>1, <2>1, <2>2, <2>3
<1>6. CASE KeepMismatch
    <2>1. Current \in Wire /\ Current.set \in Sets
        BY <1>6, CurrentType DEF IInv, KeepMismatch, NewPart
    <2>2. /\ multiparts'[Current.set].parts = multiparts[Current.set].parts \cup {Current}
          /\ ~multiparts[Current.set].done
          /\ \A s \in Sets : s # Current.set => multiparts'[s] = multiparts[s]
        BY <1>6, <2>1 DEF IInv, TypeOK, KeepMismatch, NewPart, WithPart, EntryOf
    <2>3. good' = good
        BY <1>6 DEF KeepMismatch, Handled
    <2> QED BY <1>1, <2>1, <2>2, <2>3
<1>7. CASE CompletePart
    <2>1. Current \in Wire /\ Current.set \in Sets
        BY <1>7, CurrentType DEF IInv, CompletePart, NewPart
    <2>2. /\ multiparts'[Current.set].done
          /\ \A s \in Sets : s # Current.set => multiparts'[s] = multiparts[s]
        BY <1>7, <2>1 DEF IInv, TypeOK, CompletePart, Finish
    <2>3. good' \subseteq good \cup {Current}
        BY <1>7 DEF CompletePart, Handled
    <2> QED BY <1>1, <2>1, <2>2, <2>3
<1>8. CASE FinishMerge \/ Restart
    BY <1>8 DEF FinishMerge, Restart
<1>9. ASSUME NEW s \in Sets, NEW dirty \in BOOLEAN, PushLarge(s, dirty)
      PROVE  \A p \in good' : Used(p, multiparts')
    BY <1>9 DEF PushLarge, IInv, OnlyWhileMerging
<1>10. CASE Dump
    BY <1>10 DEF Dump, IInv, OnlyWhileMerging
<1> QED
    BY <1>2, <1>3, <1>4, <1>5, <1>6, <1>7, <1>8, <1>9, <1>10
       DEF Next, vars, StartMerge, Tick

(* What is waited on is in the dump, or marked to be dumped. *)
LEMMA PendingStep ==
    ASSUME IInv, [Next]_vars
    PROVE  PendingSaved'
<1> USE DEF IInv, TypeOK
<1> SUFFICES ASSUME ~needsDump', NEW s \in Sets,
                    ~multiparts'[s].done, multiparts'[s].parts # {}
             PROVE  disk'[s] = multiparts'[s]
    BY DEF PendingSaved
<1>1. ASSUME ~needsDump, multiparts'[s] = multiparts[s], disk'[s] = disk[s]
      PROVE  disk'[s] = multiparts'[s]
    BY <1>1 DEF PendingSaved
<1>2. CASE FinishMerge
    BY <1>1, <1>2, ExpireType DEF FinishMerge, Blank
<1>3. ASSUME NEW t \in Sets, NEW dirty \in BOOLEAN, PushLarge(t, dirty)
      PROVE  disk'[s] = multiparts'[s]
    BY <1>1, <1>3 DEF PushLarge, Finish
<1>4. CASE Dump
    <2>1. disk'[s] = Saved(multiparts'[s])
        BY <1>4, ExpireType DEF Dump
    <2> QED BY <2>1 DEF Saved
<1>5. CASE Restart
    <2>1. multiparts'[s] = Loaded(disk[s]) /\ disk' = disk /\ disk[s] \in Entry
        BY <1>5 DEF Restart
    <2> QED BY <2>1 DEF Loaded, Blank, Entry
<1> QED
    BY <1>1, <1>2, <1>3, <1>4, <1>5
       DEF Next, vars, StartMerge, RejectPart, IgnorePart, StorePart, KeepMismatch,
           CompletePart, Tick, Handled

-----------------------------------------------------------------------------
(* The invariant holds in every reachable state. *)
LEMMA Invariance == Spec => []IInv
<1>1. IInv /\ [Next]_vars => IInv'
    BY TypeStep, CollectedStep, OnceStep, MergingStep, WholeStep, GoodStep, PendingStep
       DEF IInv
<1> QED BY <1>1, InitIInv, PTL DEF Spec

(* All state keeps its type. *)
THEOREM TypeCorrect == Spec => []TypeOK
<1>1. IInv => TypeOK
    BY DEF IInv
<1> QED BY <1>1, Invariance, PTL

(* Whatever polls deliver, in any order, split over any calls and restarts:    *)
(* merge() only ever sees messages as they were split.                      *)
THEOREM PassedOnWholeHolds == Spec => []PassedOnWhole
<1>1. IInv => PassedOnWhole
    BY DEF IInv
<1> QED BY <1>1, Invariance, PTL

(* A process does not pass on a message twice while it remembers it. *)
THEOREM PassedOnOnceHolds == Spec => []PassedOnOnce
<1>1. IInv => PassedOnOnce
    BY DEF IInv
<1> QED BY <1>1, Invariance, PTL

(* No set waits although all of its chunks are there. *)
THEOREM NoneOverlookedHolds == Spec => []NoneOverlooked
<1>1. IInv => NoneOverlooked
    <2> SUFFICES ASSUME IInv, NEW s \in Sets, ~multiparts[s].done,
                        Complete(s, multiparts[s].parts)
                 PROVE  FALSE
        BY DEF NoneOverlooked
    <2> DEFINE S == multiparts[s].parts
    <2>1. IsFiniteSet(S) /\ S \subseteq Wire /\ Collected(s, multiparts[s])
        BY DEF IInv, TypeOK, Entry, AllCollected, Collected
    <2>2. /\ NumParts[s] \in Nat /\ NumParts[s] > 1
          /\ {p.index : p \in S} = 0..(NumParts[s] - 1)
        BY NumPartsAssumption DEF Complete
    <2>3. Cardinality(S) >= NumParts[s]
        <3> HIDE DEF S
        <3> QED BY <2>1, <2>2, NumbersBound
    <2>4. S # {}
        <3>1. 0 \in 0..(NumParts[s] - 1)
            BY <2>2
        <3> QED BY <2>2, <3>1
    <2>5. HashMatches(S) /\ multiparts[s].size = NumParts[s]
        BY <2>1, <2>4, WireAssumption DEF Complete, HashMatches, Collected
    <2>6. Cardinality(S) \in Nat
        BY <2>1, FS_CardinalityType
    <2> QED BY <2>1, <2>2, <2>3, <2>4, <2>5, <2>6 DEF Collected
<1> QED BY <1>1, Invariance, PTL

(* Every part reported as good is held or belongs to a finished set. *)
THEOREM GoodIsUsedHolds == Spec => []GoodIsUsed
<1>1. IInv => GoodIsUsed
    BY DEF IInv
<1> QED BY <1>1, Invariance, PTL

(* A restart loses no part once needs_dump() is false. *)
THEOREM PendingSavedHolds == Spec => []PendingSaved
<1>1. IInv => PendingSaved
    BY DEF IInv
<1> QED BY <1>1, Invariance, PTL
=============================================================================
