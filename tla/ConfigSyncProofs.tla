---------------------------- MODULE ConfigSyncProofs ----------------------------
(***************************************************************************)
(* Safety of ConfigSync for any number of devices, keys, values, edits,    *)
(* restarts and failures, and any lag.                                     *)
(***************************************************************************)
EXTENDS ConfigSync, ConfigBaseProofs

(* What is parsed back, from the swarm or from a dump, was serialised: its   *)
(* lagged diffs are inside the window.                                      *)
SerializedInWindow ==
    /\ \A m \in hashed : Windowed(m)
    /\ \A d \in Devices : Windowed(disk[d].conf)

(* The inductive invariant. *)
IInv ==
    /\ TypeOK
    /\ SerializedInWindow
    /\ HashesOnlyWhenClean
    /\ NeedsDumpSound

(* New config objects and their empty dumps satisfy the invariant. *)
LEMMA InitIInv == Init => IInv
<1> SUFFICES ASSUME Init PROVE IInv
    OBVIOUS
<1> USE DEF Init
<1> DEFINE rec == MakeDump(FreshObject, FALSE)
<1>1. FreshObject \in ConfigObject
    BY FreshObjectType
<1>2. /\ rec \in DumpRecord /\ Windowed(rec.conf) /\ rec.state = FreshObject.state
      /\ rec.conf.data = FreshObject.conf.data /\ rec.curr = FreshObject.curr
    BY <1>1, MakeDumpType
<1>3. TypeOK
    <2>1. hashed \in FiniteSubsets(Message)
        BY FS_EmptySet DEF FiniteSubsets
    <2>2. swarm \subseteq Storage /\ stored \subseteq Storage
        BY DEF Storage
    <2>3. obj \in [Devices -> ConfigObject] /\ disk \in [Devices -> DumpRecord]
        BY <1>1, <1>2
    <2> QED BY <2>1, <2>2, <2>3 DEF TypeOK
<1>4. SerializedInWindow
    BY <1>2 DEF SerializedInWindow
<1>5. \A d \in Devices : obj[d] = FreshObject /\ disk[d] = rec
    OBVIOUS
<1>6. HashesOnlyWhenClean
    BY <1>2, <1>5 DEF HashesOnlyWhenClean, FreshObject
<1>7. NeedsDumpSound
    BY <1>2, <1>5 DEF NeedsDumpSound
<1> QED BY <1>3, <1>4, <1>6, <1>7 DEF IInv

(* The hash oracle returns the very content it was asked about. *)
LEMMA HashType ==
    ASSUME TypeOK, SerializedInWindow,
           NEW c \in Content, Windowed(c), NEW m \in Hash(c)
    PROVE  /\ WellFormed(m)
           /\ ContentOf(m) = c
           /\ m.seqno = c.seqno
<1> DEFINE known == {n \in hashed : ContentOf(n) = c}
<1>1. CASE known # {}
    <2>1. m \in hashed /\ ContentOf(m) = c
        BY <1>1 DEF Hash
    <2>2. m \in Message
        BY <2>1 DEF TypeOK, FiniteSubsets
    <2> QED BY <2>1, <2>2, ContentOfType DEF SerializedInWindow, WellFormed
<1>2. CASE known = {}
    <2>1. PICK h \in Nat : m = Hashed(c, h)
        BY <1>2 DEF Hash
    <2>2. m \in Message /\ ContentOf(m) = c
        BY <2>1, HashedType
    <2>3. m.seqno = c.seqno /\ m.lagged = c.lagged
        BY <2>1 DEF Hashed
    <2> QED BY <2>2, <2>3 DEF WellFormed, Windowed
<1> QED BY <1>1, <1>2

(* Remembering a well-formed message. *)
LEMMA RememberHashed ==
    ASSUME TypeOK, NEW m \in Message
    PROVE  hashed \cup {m} \in FiniteSubsets(Message)
BY FS_AddElement DEF TypeOK, FiniteSubsets

(* What a poll delivers is a vector that _merge can work on. *)
LEMMA ReceivedType ==
    ASSUME TypeOK, SerializedInWindow, NEW batch \in Seq(Readable)
    PROVE  WellFormedConfs(Received(batch))
<1> DEFINE Conf == [hashes : SUBSET Storage, parsed : SUBSET Message]
           c(i) == [hashes |-> {batch[i]}, parsed |-> Parsed({batch[i]})]
<1>1. ASSUME NEW ids
      PROVE  /\ Parsed(ids) \subseteq Message /\ IsFiniteSet(Parsed(ids))
             /\ \A m \in Parsed(ids) : WellFormed(m)
    <2>1. Parsed(ids) \in SUBSET hashed
        BY DEF Parsed
    <2>2. IsFiniteSet(hashed) /\ hashed \subseteq Message
        BY DEF TypeOK, FiniteSubsets
    <2>3. IsFiniteSet(Parsed(ids))
        BY <2>1, <2>2, FS_Subset
    <2> QED BY <2>1, <2>2, <2>3 DEF SerializedInWindow, WellFormed
<1>2. Readable \subseteq Storage
    BY DEF Readable, TypeOK
<1>3. ASSUME NEW i \in DOMAIN batch PROVE c(i) \in Conf
    <2>1. batch[i] \in Storage
        BY <1>2
    <2> QED BY <1>1, <2>1
<1>4. Received(batch) = [i \in 1..Len(batch) |-> c(i)] /\ Len(batch) \in Nat
      /\ DOMAIN batch = 1..Len(batch)
    BY DEF Received
<1>5. Received(batch) \in Seq(Conf)
    <2> HIDE DEF Conf, c
    <2> QED BY <1>3, <1>4
<1>6. \A i \in DOMAIN Received(batch) : Received(batch)[i].parsed = Parsed({batch[i]})
    BY <1>4
<1> QED BY <1>1, <1>5, <1>6 DEF WellFormedConfs

(* One device takes a good step; its dump is not touched. *)
LEMMA OneGoodStep ==
    ASSUME IInv, NEW d \in Devices, NEW n, GoodStep(obj[d], n),
           obj' = [obj EXCEPT ![d] = n], disk' = disk
    PROVE  /\ obj' \in [Devices -> ConfigObject]
           /\ HashesOnlyWhenClean'
           /\ NeedsDumpSound'
           /\ \A e \in Devices : obj'[e].conf.seqno >= obj[e].conf.seqno
<1>1. obj \in [Devices -> ConfigObject] /\ HashesOnlyWhenClean /\ NeedsDumpSound
    BY DEF IInv, TypeOK
<1>2. n \in ConfigObject
    BY DEF GoodStep
<1>3. obj'[d] = n /\ \A e \in Devices \ {d} : obj'[e] = obj[e]
    BY <1>1
<1>4. \A e \in Devices : obj[e].conf.seqno \in Nat
    BY <1>1 DEF ConfigObject, Content
<1>5. HashesOnlyWhenClean'
    BY <1>1, <1>3 DEF HashesOnlyWhenClean, GoodStep
<1>6. NeedsDumpSound'
    <2>1. SUFFICES ASSUME NEW e \in Devices, ~obj'[e].needsDump
                   PROVE  /\ disk[e].state = obj'[e].state
                          /\ disk[e].conf.data = obj'[e].conf.data
                          /\ disk[e].curr = obj'[e].curr
        BY DEF NeedsDumpSound
    <2>2. CASE e = d
        <3>1. /\ n.state = obj[d].state /\ n.conf.data = obj[d].conf.data
              /\ n.curr = obj[d].curr /\ n.needsDump = obj[d].needsDump
            BY <1>3, <2>1, <2>2 DEF GoodStep
        <3> QED BY <1>1, <1>3, <2>1, <2>2, <3>1 DEF NeedsDumpSound
    <2>3. CASE e # d
        BY <1>1, <1>3, <2>1, <2>3 DEF NeedsDumpSound
    <2> QED BY <2>2, <2>3
<1>7. \A e \in Devices : obj'[e].conf.seqno >= obj[e].conf.seqno
    BY <1>3, <1>4 DEF GoodStep
<1> QED BY <1>1, <1>2, <1>5, <1>6, <1>7

(* No device goes back to an earlier seqno. *)
NoneBack == \A e \in Devices : obj'[e].conf.seqno >= obj[e].conf.seqno

(* What of the invariant concerns neither the objects nor the dumps. *)
LEMMA RestOfIInv ==
    ASSUME IInv,
           obj' \in [Devices -> ConfigObject], HashesOnlyWhenClean', NeedsDumpSound',
           disk' = disk,
           \/ hashed' = hashed
           \/ \E m : WellFormed(m) /\ hashed' = hashed \cup {m},
           swarm' \subseteq Storage, stored' \subseteq Storage, requests' \subseteq Request,
           spent' \in [edits : Nat, dumps : Nat, restarts : Nat, failures : Nat]
    PROVE  IInv'
<1>1. hashed' \in FiniteSubsets(Message)
    BY RememberHashed DEF IInv, TypeOK, WellFormed
<1>2. SerializedInWindow'
    BY DEF IInv, SerializedInWindow, WellFormed
<1> QED BY <1>1, <1>2 DEF IInv, TypeOK

(* A setter, which goes through dirty(), preserves the invariant. *)
LEMMA EditStep ==
    ASSUME IInv, NEW d \in Devices, NEW k \in Keys, NEW v \in Values \cup {Absent},
           Edit(d, k, v)
    PROVE  IInv' /\ NoneBack
<1> DEFINE o == obj[d]
<1>1. o \in ConfigObject /\ TypeOK /\ SerializedInWindow
    BY DEF IInv, TypeOK
<1>2. PICK mine \in Message :
        /\ o.state # "Dirty" => mine.seqno = o.conf.seqno
        /\ obj' = [obj EXCEPT ![d] = SetField(o, mine, k, v)]
        /\ hashed' = hashed \/ (WellFormed(mine) /\ hashed' = hashed \cup {mine})
    <2>1. CASE o.state = "Dirty"
        <3>1. /\ obj' = [obj EXCEPT ![d] = SetField(o, Hashed(o.conf, 0), k, v)]
              /\ hashed' = hashed
            BY <1>1, <2>1 DEF Edit, TypeOK
        <3>2. Hashed(o.conf, 0) \in Message
            BY <1>1, HashedType DEF ConfigObject
        <3> QED BY <2>1, <3>1, <3>2
    <2>2. CASE o.state # "Dirty"
        <3>1. PICK mine \in Hash(Serialize(o)) :
                    /\ obj' = [obj EXCEPT ![d] = SetField(o, mine, k, v)]
                    /\ hashed' = hashed \cup {mine}
            BY <2>2 DEF Edit
        <3>2. WellFormed(mine) /\ mine.seqno = o.conf.seqno
            BY <1>1, <3>1, SerializeType, HashType
        <3> QED BY <3>1, <3>2 DEF WellFormed
    <2> QED BY <2>1, <2>2
<1> DEFINE n == SetField(o, mine, k, v)
<1>3. GoodStep(o, n)
    <2>1. o.state # "Dirty" => mine.seqno = o.conf.seqno
        BY <1>2
    <2> HIDE DEF o
    <2> QED BY <1>1, <2>1, SetFieldStep
<1>4. /\ disk' = disk /\ swarm' = swarm /\ stored' = stored /\ requests' = requests
      /\ spent' = [spent EXCEPT !.edits = @ + 1]
    BY DEF Edit
<1>5. spent' \in [edits : Nat, dumps : Nat, restarts : Nat, failures : Nat]
    BY <1>1, <1>4 DEF TypeOK
<1>6. /\ obj' \in [Devices -> ConfigObject] /\ HashesOnlyWhenClean' /\ NeedsDumpSound'
      /\ NoneBack
    <2> HIDE DEF n
    <2> QED BY <1>2, <1>3, <1>4, OneGoodStep DEF NoneBack, n
<1>7. swarm' \subseteq Storage /\ stored' \subseteq Storage /\ requests' \subseteq Request
    BY <1>1, <1>4 DEF TypeOK
<1> QED BY <1>2, <1>4, <1>5, <1>6, <1>7, RestOfIInv

(* push() preserves the invariant. *)
LEMMA PushStep ==
    ASSUME IInv, NEW d \in Devices, Push(d)
    PROVE  IInv' /\ NoneBack
<1> DEFINE o == obj[d]
<1>1. o \in ConfigObject /\ TypeOK /\ SerializedInWindow
    BY DEF IInv, TypeOK
<1>2. PICK mine \in Hash(Serialize(o)) :
        /\ hashed' = hashed \cup {mine}
        /\ requests' = requests \cup
             {[dev |-> d, seqno |-> mine.seqno, put |-> {SeqnoHash(mine)},
               del |-> PushObsoletes(o, d \in Readers),
               answered |-> FALSE, awaited |-> TRUE]}
    BY DEF Push
<1>3. WellFormed(mine)
    BY <1>1, SerializeType, HashType
<1>4. requests' \subseteq Request
    <2>1. mine.seqno \in Nat /\ {SeqnoHash(mine)} \subseteq Storage
        BY <1>3 DEF WellFormed, Message, SeqnoHash, Storage
    <2>2. PushObsoletes(o, d \in Readers) \subseteq Storage
        BY <1>1 DEF PushObsoletes, ConfigObject
    <2>3. [dev |-> d, seqno |-> mine.seqno, put |-> {SeqnoHash(mine)},
           del |-> PushObsoletes(o, d \in Readers),
           answered |-> FALSE, awaited |-> TRUE] \in Request
        BY <2>1, <2>2 DEF Request
    <2> QED BY <1>1, <1>2, <2>3 DEF TypeOK
<1>5. /\ obj' = [obj EXCEPT ![d] = AfterPush(o)] /\ disk' = disk
      /\ swarm' = swarm /\ stored' = stored /\ spent' = spent
    BY DEF Push
<1>6. /\ obj' \in [Devices -> ConfigObject] /\ HashesOnlyWhenClean' /\ NeedsDumpSound'
      /\ NoneBack
    BY <1>1, <1>5, AfterPushStep, OneGoodStep DEF NoneBack
<1>7. /\ swarm' \subseteq Storage /\ stored' \subseteq Storage
      /\ spent' \in [edits : Nat, dumps : Nat, restarts : Nat, failures : Nat]
    BY <1>1, <1>5 DEF TypeOK
<1> QED BY <1>2, <1>3, <1>4, <1>5, <1>6, <1>7, RestOfIInv

(* old_hashes() preserves the invariant. *)
LEMMA CleanupStep ==
    ASSUME IInv, NEW d \in Devices, Cleanup(d)
    PROVE  IInv' /\ NoneBack
<1> DEFINE o == obj[d]
<1>1. o \in ConfigObject /\ TypeOK
    BY DEF IInv, TypeOK
<1>2. /\ obj' = [obj EXCEPT ![d] = AfterOldHashes(o)] /\ disk' = disk
      /\ hashed' = hashed /\ swarm' = swarm /\ stored' = stored /\ spent' = spent
    BY DEF Cleanup
<1>3. requests' \subseteq Request
    <2>1. o.old \subseteq Storage
        BY <1>1 DEF ConfigObject
    <2>2. [dev |-> d, seqno |-> 0, put |-> {}, del |-> o.old,
           answered |-> FALSE, awaited |-> FALSE] \in Request
        BY <2>1 DEF Request
    <2> QED BY <1>1, <2>2 DEF Cleanup, TypeOK
<1>4. /\ obj' \in [Devices -> ConfigObject] /\ HashesOnlyWhenClean' /\ NeedsDumpSound'
      /\ NoneBack
    BY <1>1, <1>2, AfterOldHashesStep, OneGoodStep DEF NoneBack
<1>5. /\ swarm' \subseteq Storage /\ stored' \subseteq Storage
      /\ spent' \in [edits : Nat, dumps : Nat, restarts : Nat, failures : Nat]
    BY <1>1, <1>2 DEF TypeOK
<1> QED BY <1>2, <1>3, <1>4, <1>5, RestOfIInv

(* Steps of the swarm and the network leave objects, dumps and hashes alone. *)
LEMMA NetworkStep ==
    ASSUME IInv, NEW r \in requests, Serve(r) \/ Lose(r) \/ TimeOut(r)
    PROVE  IInv' /\ NoneBack
<1>1. TypeOK /\ r \in Request
    BY DEF IInv, TypeOK
<1>2. obj' = obj /\ disk' = disk /\ hashed' = hashed
    BY DEF Serve, Lose, TimeOut
<1>3. /\ [r EXCEPT !.answered = TRUE] \in Request
      /\ [r EXCEPT !.awaited = FALSE] \in Request
    BY <1>1 DEF Request
<1>4. requests' \subseteq Request
    BY <1>1, <1>3 DEF Serve, Lose, TimeOut, TypeOK
<1>5. swarm' \subseteq Storage /\ stored' \subseteq Storage
    BY <1>1 DEF Serve, Lose, TimeOut, TypeOK, Request
<1>6. spent' \in [edits : Nat, dumps : Nat, restarts : Nat, failures : Nat]
    BY <1>1 DEF Serve, Lose, TimeOut, TypeOK
<1>7. obj' \in [Devices -> ConfigObject] /\ HashesOnlyWhenClean' /\ NeedsDumpSound'
    BY <1>2 DEF IInv, TypeOK, HashesOnlyWhenClean, NeedsDumpSound
<1>8. NoneBack
    BY <1>1, <1>2 DEF NoneBack, TypeOK, ConfigObject, Content
<1> QED BY <1>2, <1>4, <1>5, <1>6, <1>7, <1>8, RestOfIInv

(* confirm_pushed() preserves the invariant. *)
LEMMA ConfirmStep ==
    ASSUME IInv, NEW r \in requests, Confirm(r)
    PROVE  IInv' /\ NoneBack
<1> DEFINE d == r.dev
           n == ConfirmPushed(obj[d], r.seqno, r.put)
<1>1. TypeOK /\ d \in Devices /\ r.put \in SUBSET Storage
    BY DEF IInv, TypeOK, Request
<1>2. /\ obj' = [obj EXCEPT ![d] = n] /\ disk' = disk /\ hashed' = hashed
      /\ swarm' = swarm /\ stored' = stored /\ spent' = spent
      /\ requests' \subseteq requests
    BY DEF Confirm
<1>3. GoodStep(obj[d], n)
    <2>1. obj[d] \in ConfigObject
        BY <1>1 DEF TypeOK
    <2> QED BY <1>1, <2>1, ConfirmPushedStep
<1>4. /\ obj' \in [Devices -> ConfigObject] /\ HashesOnlyWhenClean' /\ NeedsDumpSound'
      /\ NoneBack
    <2> HIDE DEF n, d
    <2> QED BY <1>1, <1>2, <1>3, OneGoodStep DEF NoneBack
<1>5. /\ swarm' \subseteq Storage /\ stored' \subseteq Storage /\ requests' \subseteq Request
      /\ spent' \in [edits : Nat, dumps : Nat, restarts : Nat, failures : Nat]
    BY <1>1, <1>2 DEF TypeOK
<1> QED BY <1>2, <1>4, <1>5, RestOfIInv

(* merge(), whatever it is handed, preserves the invariant. *)
LEMMA FetchStep ==
    ASSUME IInv, NEW d \in Devices, NEW batch, Fetch(d, batch)
    PROVE  IInv' /\ NoneBack
<1> DEFINE o == obj[d]
<1>1. o \in ConfigObject /\ TypeOK /\ SerializedInWindow
    BY DEF IInv, TypeOK
<1>2. PICK mine \in Hash(Serialize(o)) :
        /\ obj' = [obj EXCEPT ![d] =
                MergeIncoming(o, mine, Received(batch), d \in Readers)]
        /\ hashed' = IF HasOwn(o) THEN hashed \cup {mine} ELSE hashed
    BY DEF Fetch
<1>3. WellFormed(mine) /\ mine.seqno = o.conf.seqno
    BY <1>1, SerializeType, HashType
<1> DEFINE n == MergeIncoming(o, mine, Received(batch), d \in Readers)
<1>4. GoodStep(o, n)
    <2>1. WellFormedConfs(Received(batch))
        BY <1>1, ReceivedType DEF Fetch
    <2>2. (d \in Readers) \in BOOLEAN
        OBVIOUS
    <2> HIDE DEF o
    <2> QED BY <1>1, <1>3, <2>1, <2>2, MergeIncomingStep
<1>5. /\ disk' = disk /\ swarm' = swarm /\ stored' = stored
      /\ requests' = requests /\ spent' = spent
    BY DEF Fetch
<1>6. /\ obj' \in [Devices -> ConfigObject] /\ HashesOnlyWhenClean' /\ NeedsDumpSound'
      /\ NoneBack
    <2>1. obj' = [obj EXCEPT ![d] = n]
        BY <1>2
    <2> HIDE DEF n
    <2> QED BY <1>4, <1>5, <2>1, OneGoodStep DEF NoneBack
<1>7. /\ swarm' \subseteq Storage /\ stored' \subseteq Storage /\ requests' \subseteq Request
      /\ spent' \in [edits : Nat, dumps : Nat, restarts : Nat, failures : Nat]
    BY <1>1, <1>5 DEF TypeOK
<1>8. hashed' = hashed \/ hashed' = hashed \cup {mine}
    BY <1>2
<1> QED BY <1>3, <1>5, <1>6, <1>7, <1>8, RestOfIInv

(* dump() preserves the invariant, and is what makes needs_dump() false. *)
LEMMA DumpStep ==
    ASSUME IInv, NEW d \in Devices, Dump(d)
    PROVE  IInv' /\ NoneBack
<1> DEFINE o == obj[d]
           n == AfterDump(o, d \in Readers)
           rec == MakeDump(o, d \in Readers)
<1>1. o \in ConfigObject /\ TypeOK
    BY DEF IInv, TypeOK
<1>2. n \in ConfigObject /\ n.conf = o.conf /\ n.state = o.state /\ n.curr = o.curr
    BY <1>1, AfterDumpType
<1>3. /\ rec \in DumpRecord /\ Windowed(rec.conf) /\ rec.state = o.state
      /\ rec.conf.data = o.conf.data /\ rec.curr = o.curr
    BY <1>1, MakeDumpType
<1>4. /\ obj' = [obj EXCEPT ![d] = n] /\ disk' = [disk EXCEPT ![d] = rec]
      /\ hashed' = hashed /\ swarm' = swarm /\ stored' = stored /\ requests' = requests
      /\ spent' = [spent EXCEPT !.dumps = @ + 1]
    BY DEF Dump
<1> HIDE DEF n, rec
<1>5. /\ obj' \in [Devices -> ConfigObject] /\ disk' \in [Devices -> DumpRecord]
      /\ obj'[d] = n /\ disk'[d] = rec
      /\ \A e \in Devices \ {d} : obj'[e] = obj[e] /\ disk'[e] = disk[e]
    BY <1>1, <1>2, <1>3, <1>4 DEF TypeOK
<1>6. TypeOK'
    BY <1>1, <1>4, <1>5 DEF TypeOK
<1>7. SerializedInWindow'
    BY <1>3, <1>4, <1>5 DEF IInv, SerializedInWindow
<1>8. HashesOnlyWhenClean'
    BY <1>2, <1>3, <1>5 DEF IInv, HashesOnlyWhenClean
<1>9. NeedsDumpSound'
    BY <1>2, <1>3, <1>5 DEF IInv, NeedsDumpSound
<1>10. NoneBack
    <2>1. \A e \in Devices : obj'[e].conf = obj[e].conf
        BY <1>2, <1>5
    <2> QED BY <1>1, <2>1 DEF NoneBack, TypeOK, ConfigObject, Content
<1> QED BY <1>6, <1>7, <1>8, <1>9, <1>10 DEF IInv

(* Loading the last dump preserves the invariant. *)
LEMMA RestartStep ==
    ASSUME IInv, NEW d \in Devices, Restart(d)
    PROVE  IInv' /\ spent'.restarts # spent.restarts
<1>1. TypeOK /\ SerializedInWindow /\ disk[d] \in DumpRecord
    BY DEF IInv, TypeOK
<1>2. PICK saved \in Hash(disk[d].conf) :
        /\ obj' = [obj EXCEPT ![d] = LoadDump(disk[d], saved)]
        /\ hashed' = hashed \cup {saved}
    BY DEF Restart
<1>3. WellFormed(saved) /\ ContentOf(saved) = disk[d].conf
    <2>1. disk[d].conf \in Content /\ Windowed(disk[d].conf)
        BY <1>1 DEF DumpRecord, SerializedInWindow
    <2> QED BY <1>1, <2>1, HashType
<1> DEFINE n == LoadDump(disk[d], saved)
<1>4. /\ n \in ConfigObject /\ n.state = disk[d].state
      /\ n.conf.data = disk[d].conf.data /\ n.curr = disk[d].curr
    BY <1>1, <1>3, LoadDumpType DEF WellFormed
<1>5. obj' = [obj EXCEPT ![d] = n]
    BY <1>2
<1> HIDE DEF n
<1>6. /\ obj' \in [Devices -> ConfigObject] /\ obj'[d] = n
      /\ \A e \in Devices \ {d} : obj'[e] = obj[e]
    BY <1>1, <1>4, <1>5 DEF TypeOK
<1>7. /\ disk' = disk /\ swarm' = swarm /\ stored' = stored
      /\ spent' = [spent EXCEPT !.restarts = @ + 1]
      /\ requests' = {r \in requests : r.dev # d} \cup
            {[r EXCEPT !.awaited = FALSE] : r \in {q \in requests : q.dev = d /\ ~q.answered}}
    BY DEF Restart
<1>8. requests' \subseteq Request
    <2>1. \A r \in requests : r \in Request
        BY <1>1 DEF TypeOK
    <2>2. \A r \in Request : [r EXCEPT !.awaited = FALSE] \in Request
        BY DEF Request
    <2> QED BY <1>7, <2>1, <2>2
<1>9. HashesOnlyWhenClean' /\ NeedsDumpSound'
    <2>1. HashesOnlyWhenClean'
        BY <1>4, <1>6, <1>7 DEF IInv, HashesOnlyWhenClean
    <2>2. NeedsDumpSound'
        BY <1>4, <1>6, <1>7 DEF IInv, NeedsDumpSound
    <2> QED BY <2>1, <2>2
<1>10. /\ swarm' \subseteq Storage /\ stored' \subseteq Storage
       /\ spent' \in [edits : Nat, dumps : Nat, restarts : Nat, failures : Nat]
       /\ spent'.restarts # spent.restarts
    BY <1>1, <1>7 DEF TypeOK
<1> QED BY <1>2, <1>3, <1>6, <1>7, <1>8, <1>9, <1>10, RestOfIInv

-----------------------------------------------------------------------------
(* Every step preserves the invariant, and only a restart can take a device   *)
(* back to an earlier seqno.                                                *)
LEMMA NextStep ==
    ASSUME IInv, [Next]_vars
    PROVE  IInv' /\ (spent'.restarts = spent.restarts => NoneBack)
<1>1. ASSUME NEW d \in Devices, NEW k \in Keys, NEW v \in Values \cup {Absent},
             Edit(d, k, v)
      PROVE  IInv' /\ NoneBack
    BY <1>1, EditStep
<1>2. ASSUME NEW d \in Devices, Push(d) \/ Cleanup(d) \/ Dump(d)
      PROVE  IInv' /\ NoneBack
    BY <1>2, PushStep, CleanupStep, DumpStep
<1>3. ASSUME NEW d \in Devices, Restart(d)
      PROVE  IInv' /\ spent'.restarts # spent.restarts
    BY <1>3, RestartStep
<1>4. ASSUME NEW r \in requests, Serve(r) \/ Confirm(r) \/ Lose(r) \/ TimeOut(r)
      PROVE  IInv' /\ NoneBack
    BY <1>4, NetworkStep, ConfirmStep
<1>5. ASSUME NEW d \in Devices, NEW batch, Fetch(d, batch)
      PROVE  IInv' /\ NoneBack
    BY <1>5, FetchStep
<1>6. CASE UNCHANGED vars
    <2>1. IInv'
        BY <1>6 DEF vars, IInv, TypeOK, Request, SerializedInWindow,
                    HashesOnlyWhenClean, NeedsDumpSound
    <2>2. NoneBack
        BY <1>6 DEF vars, NoneBack, IInv, TypeOK, ConfigObject, Content
    <2> QED BY <2>1, <2>2
<1>7. CASE Next
    BY <1>1, <1>2, <1>3, <1>4, <1>5, <1>7 DEF Next
<1> QED BY <1>6, <1>7

(* The invariant holds in every reachable state. *)
LEMMA Invariance == Spec => []IInv
<1>1. IInv /\ [Next]_vars => IInv'
    BY NextStep
<1> QED BY <1>1, InitIInv, PTL DEF Spec

(* All state keeps its type: in particular hashed stays finite, so every     *)
(* maximum that the merge asks for exists.                                  *)
THEOREM TypeCorrect == Spec => []TypeOK
<1>1. IInv => TypeOK
    BY DEF IInv
<1> QED BY <1>1, Invariance, PTL

(* A config that is being edited, or whose push is unconfirmed, never claims  *)
(* the storage hash of what the server holds (set_state, confirm_pushed,    *)
(* _merge, init).                                                           *)
THEOREM HashesOnlyWhenCleanHolds == Spec => []HashesOnlyWhenClean
<1>1. IInv => HashesOnlyWhenClean
    BY DEF IInv
<1> QED BY <1>1, Invariance, PTL

(* As long as needs_dump() is false the last dump restores the object's       *)
(* state, data and storage hashes.                                          *)
THEOREM NeedsDumpSoundHolds == Spec => []NeedsDumpSound
<1>1. IInv => NeedsDumpSound
    BY DEF IInv
<1> QED BY <1>1, Invariance, PTL

(* assert(curr_confs >= 1) in the merging constructor can never fail. *)
THEOREM SomeConfKeptHolds == Spec => []SomeConfKept
<1>1. ASSUME IInv PROVE SomeConfKept
    <2>1. SUFFICES ASSUME NEW d \in Devices, NEW batch \in Seq(Readable),
                          NEW mine \in Hash(Serialize(obj[d])),
                          Slots(AllConfs(obj[d], mine, Received(batch))) # {}
                   PROVE  Kept(Slots(AllConfs(obj[d], mine, Received(batch)))) # {}
        BY DEF SomeConfKept
    <2>2. obj[d] \in ConfigObject /\ TypeOK /\ SerializedInWindow
        BY <1>1 DEF IInv, TypeOK
    <2>3. WellFormed(mine)
        BY <2>2, SerializeType, HashType
    <2>4. WellFormedConfs(AllConfs(obj[d], mine, Received(batch)))
        BY <2>2, <2>3, ReceivedType, AllConfsType
    <2> QED BY <2>1, <2>4, SlotsType, HighestKept
<1>2. IInv => SomeConfKept
    BY <1>1
<1> QED BY <1>2, Invariance, PTL

(* Between restarts no operation, whatever it merges, takes a config back to  *)
(* an earlier seqno.                                                        *)
THEOREM SeqnoNeverBackHolds == Spec => SeqnoNeverBack
<1>1. IInv /\ [Next]_vars =>
        [spent'.restarts = spent.restarts =>
            \A d \in Devices : obj'[d].conf.seqno >= obj[d].conf.seqno]_vars
    BY NextStep DEF NoneBack
<1> QED BY <1>1, Invariance, PTL DEF Spec, SeqnoNeverBack

-----------------------------------------------------------------------------
(***************************************************************************)
(* Readers: what they show was published.                                  *)
(***************************************************************************)

(* A content was published when it is that of a hashed message that was      *)
(* stored; the empty config needs no publishing.                            *)
Published(c, known, ids) ==
    c.seqno # 0 => \E m \in known : SeqnoHash(m) \in ids /\ ContentOf(m) = c

(* The config of a reader, live or saved, is clean and was published. *)
ReaderInv ==
    /\ swarm \subseteq stored
    /\ \A d \in Readers :
        /\ obj[d].state = "Clean" /\ Published(obj[d].conf, hashed, stored)
        /\ disk[d].state = "Clean" /\ Published(disk[d].conf, hashed, stored)

(* No message is ever forgotten, by the hash oracle or by the record of what  *)
(* was stored, and the swarm holds only what was stored.                    *)
LEMMA NothingForgotten ==
    ASSUME swarm \subseteq stored, [Next]_vars
    PROVE  hashed \subseteq hashed' /\ stored \subseteq stored' /\ swarm' \subseteq stored'
<1>1. ASSUME NEW d \in Devices, NEW k \in Keys, NEW v \in Values \cup {Absent},
             Edit(d, k, v)
      PROVE  hashed \subseteq hashed' /\ stored' = stored /\ swarm' = swarm
    BY <1>1 DEF Edit
<1>2. ASSUME NEW d \in Devices, Push(d) \/ Cleanup(d) \/ Dump(d) \/ Restart(d)
      PROVE  hashed \subseteq hashed' /\ stored' = stored /\ swarm' = swarm
    BY <1>2 DEF Push, Cleanup, Dump, Restart
<1>3. ASSUME NEW r \in requests, Serve(r)
      PROVE  hashed' = hashed /\ stored \subseteq stored' /\ swarm' \subseteq stored'
    BY <1>3 DEF Serve
<1>4. ASSUME NEW r \in requests, Confirm(r) \/ Lose(r) \/ TimeOut(r)
      PROVE  hashed' = hashed /\ stored' = stored /\ swarm' = swarm
    BY <1>4 DEF Confirm, Lose, TimeOut
<1>5. ASSUME NEW d \in Devices, NEW batch, Fetch(d, batch)
      PROVE  hashed \subseteq hashed' /\ stored' = stored /\ swarm' = swarm
    BY <1>5 DEF Fetch
<1>6. CASE UNCHANGED vars
    BY <1>6 DEF vars
<1>7. CASE Next
    BY <1>1, <1>2, <1>3, <1>4, <1>5, <1>7 DEF Next
<1> QED BY <1>6, <1>7

(* What was published stays published. *)
LEMMA PublishedStays ==
    ASSUME NEW c, NEW known, NEW ids, NEW known2, NEW ids2,
           Published(c, known, ids), known \subseteq known2, ids \subseteq ids2
    PROVE  Published(c, known2, ids2)
BY DEF Published

(* A reader's merge keeps its config or takes over a published one. *)
LEMMA ReaderFetch ==
    ASSUME IInv, ReaderInv, NEW d \in Readers, NEW batch, Fetch(d, batch)
    PROVE  obj'[d].state = "Clean" /\ Published(obj'[d].conf, hashed, stored)
<1> DEFINE o == obj[d]
           in == Received(batch)
<1>1. o \in ConfigObject /\ TypeOK /\ SerializedInWindow /\ d \in Devices
    BY DevicesAssumption DEF IInv, TypeOK
<1>2. PICK mine \in Hash(Serialize(o)) :
        obj' = [obj EXCEPT ![d] = MergeIncoming(o, mine, in, TRUE)]
    BY DEF Fetch
<1> DEFINE confs == AllConfs(o, mine, in)
           n == MergeIncoming(o, mine, in, TRUE)
<1>3. WellFormed(mine) /\ mine.seqno = o.conf.seqno /\ WellFormedConfs(in)
      /\ batch \in Seq(Readable)
    BY <1>1, SerializeType, HashType, ReceivedType DEF Fetch
<1>4. obj'[d] = n
    <2> HIDE DEF n
    <2> QED BY <1>1, <1>2 DEF TypeOK, n
<1>5. o.state = "Clean" /\ Published(o.conf, hashed, stored)
    BY DEF ReaderInv
<1>6. CASE Slots(confs) = {}
    <2>1. n = o
        BY <1>6 DEF MergeIncoming
    <2> QED BY <1>4, <1>5, <2>1
<1>7. CASE Slots(confs) # {}
    <2>1. n = AdoptSuperconf(o, confs)
        BY <1>7 DEF MergeIncoming, Unmerged
    <2>2. \/ n.state = o.state /\ n.conf = o.conf
          \/ /\ n.state = "Clean"
             /\ \E j \in DOMAIN in : \E m \in in[j].parsed : n.conf = ContentOf(m)
        <3> DEFINE a == AdoptSuperconf(o, confs)
        <3>1. o \in ConfigObject /\ o.state # "Dirty"
            BY <1>1, <1>5
        <3>2. \/ a.state = o.state /\ a.conf = o.conf
              \/ /\ a.state = "Clean"
                 /\ \E j \in DOMAIN in : \E m \in in[j].parsed : a.conf = ContentOf(m)
            <4> HIDE DEF o, in
            <4> QED BY <1>3, <1>7, <3>1, AdoptedReceived
        <3> HIDE DEF n, in, confs
        <3> QED BY <2>1, <3>2
    <2>3. CASE n.state = o.state /\ n.conf = o.conf
        BY <1>4, <1>5, <2>3
    <2>4. CASE /\ n.state = "Clean"
               /\ \E j \in DOMAIN in : \E m \in in[j].parsed : n.conf = ContentOf(m)
        <3>1. PICK j \in DOMAIN in : \E m \in in[j].parsed : n.conf = ContentOf(m)
            BY <2>4
        <3>2. PICK m \in in[j].parsed : n.conf = ContentOf(m)
            BY <3>1
        <3>3. batch[j] \in stored
            <4>1. j \in DOMAIN batch /\ Readable \subseteq stored
                BY DEF Received, Readable, ReaderInv
            <4> QED BY <1>3, <4>1
        <3>4. m \in hashed /\ SeqnoHash(m) \in stored
            BY <3>3 DEF Received, Parsed
        <3> HIDE DEF n
        <3> QED BY <1>4, <2>4, <3>2, <3>4 DEF Published
    <2> QED BY <2>2, <2>3, <2>4
<1> QED BY <1>6, <1>7

(* What a reader saves is what it shows: a published message's lagged diffs   *)
(* are inside the window already.                                           *)
LEMMA ReaderDump ==
    ASSUME IInv, ReaderInv, NEW d \in Readers, Dump(d)
    PROVE  /\ obj'[d].state = "Clean" /\ obj'[d].conf = obj[d].conf
           /\ disk'[d].state = "Clean" /\ Published(disk'[d].conf, hashed, stored)
<1> DEFINE o == obj[d]
<1>1. o \in ConfigObject /\ TypeOK /\ SerializedInWindow /\ d \in Devices
    BY DevicesAssumption DEF IInv, TypeOK
<1>2. /\ obj'[d] = AfterDump(o, d \in Readers)
      /\ disk'[d] = MakeDump(o, d \in Readers)
    BY <1>1 DEF Dump, TypeOK
<1>3. o.state = "Clean" /\ Published(o.conf, hashed, stored)
    BY DEF ReaderInv
<1>4. Published(Serialize(o), hashed, stored)
    <2>1. CASE o.conf.seqno = 0
        BY <1>1, <2>1, SerializeType DEF Published
    <2>2. CASE o.conf.seqno # 0
        <3>1. PICK m \in hashed : SeqnoHash(m) \in stored /\ ContentOf(m) = o.conf
            BY <1>3, <2>2 DEF Published
        <3>2. Windowed(o.conf)
            BY <1>1, <3>1 DEF SerializedInWindow, Windowed, ContentOf
        <3>3. Window(o.conf.seqno, o.conf.lagged) = o.conf.lagged
            BY <3>2 DEF Window, Windowed
        <3>4. Serialize(o) = o.conf
            BY <1>1, <1>3, <3>3 DEF Serialize, ConfigObject, Content
        <3> QED BY <1>3, <3>4
    <2> QED BY <2>1, <2>2
<1> QED BY <1>1, <1>2, <1>3, <1>4, AfterDumpType, MakeDumpType

(* A reader changes its config only by merging and by being restarted. *)
LEMMA ReaderStep ==
    ASSUME IInv, ReaderInv, [Next]_vars
    PROVE  ReaderInv'
<1>1. hashed \subseteq hashed' /\ stored \subseteq stored' /\ swarm' \subseteq stored'
    BY NothingForgotten DEF ReaderInv
<1>2. TypeOK /\ SerializedInWindow /\ Readers \subseteq Devices
    BY DevicesAssumption DEF IInv
<1> DEFINE Good(d) == /\ obj'[d].state = "Clean" /\ Published(obj'[d].conf, hashed, stored)
                      /\ disk'[d].state = "Clean" /\ Published(disk'[d].conf, hashed, stored)
<1>3. SUFFICES ASSUME NEW d \in Readers PROVE Good(d)
    <2> HIDE DEF Good
    <2>1. \A d \in Readers : Good(d)
        OBVIOUS
    <2> QED BY <1>1, <2>1, PublishedStays DEF ReaderInv, Good
<1>4. /\ obj[d].state = "Clean" /\ Published(obj[d].conf, hashed, stored)
      /\ disk[d].state = "Clean" /\ Published(disk[d].conf, hashed, stored)
      /\ d \in Devices
    BY <1>2 DEF ReaderInv
<1>5. ASSUME obj'[d] = obj[d], disk'[d] = disk[d] PROVE Good(d)
    BY <1>4, <1>5
<1>6. ASSUME NEW e \in Devices, NEW k \in Keys, NEW v \in Values \cup {Absent},
             Edit(e, k, v)
      PROVE  Good(d)
    <2>1. e # d
        BY <1>6 DEF Edit
    <2> QED BY <1>2, <1>4, <1>5, <1>6, <2>1 DEF Edit, TypeOK
<1>7. ASSUME NEW e \in Devices, Push(e) PROVE Good(d)
    <2>1. e # d
        BY <1>4, <1>7 DEF Push, NeedsPush
    <2> QED BY <1>2, <1>4, <1>5, <1>7, <2>1 DEF Push, TypeOK
<1>8. ASSUME NEW e \in Devices, Cleanup(e) PROVE Good(d)
    <2>1. disk' = disk /\ obj' = [obj EXCEPT ![e] = AfterOldHashes(obj[e])]
        BY <1>8 DEF Cleanup
    <2>2. CASE e = d
        <3>1. obj'[d] = AfterOldHashes(obj[d]) /\ obj[d] \in ConfigObject
            BY <1>2, <1>4, <2>1, <2>2 DEF TypeOK
        <3>2. obj'[d].state = obj[d].state /\ obj'[d].conf = obj[d].conf
            BY <3>1 DEF AfterOldHashes, ConfigObject
        <3> QED BY <1>4, <2>1, <3>2
    <2>3. CASE e # d
        BY <1>2, <1>4, <1>5, <2>1, <2>3 DEF TypeOK
    <2> QED BY <2>2, <2>3
<1>9. ASSUME NEW e \in Devices, Dump(e) PROVE Good(d)
    <2>1. CASE e = d
        BY <1>4, <1>9, <2>1, ReaderDump
    <2>2. CASE e # d
        BY <1>2, <1>4, <1>5, <1>9, <2>2 DEF Dump, TypeOK
    <2> QED BY <2>1, <2>2
<1>10. ASSUME NEW e \in Devices, Restart(e) PROVE Good(d)
    <2>1. CASE e = d
        <3>1. PICK saved \in Hash(disk[d].conf) :
                obj' = [obj EXCEPT ![d] = LoadDump(disk[d], saved)]
            BY <1>10, <2>1 DEF Restart
        <3>2. ContentOf(saved) = disk[d].conf
            <4>1. disk[d].conf \in Content /\ Windowed(disk[d].conf)
                BY <1>2, <1>4 DEF TypeOK, DumpRecord, SerializedInWindow
            <4> QED BY <1>2, <4>1, HashType
        <3>3. obj'[d] = LoadDump(disk[d], saved)
            BY <1>2, <1>4, <3>1 DEF TypeOK
        <3>4. obj'[d].state = "Clean" /\ obj'[d].conf = disk[d].conf
            BY <1>4, <3>2, <3>3 DEF LoadDump
        <3> QED BY <1>4, <1>10, <3>4 DEF Restart
    <2>2. CASE e # d
        BY <1>2, <1>4, <1>5, <1>10, <2>2 DEF Restart, TypeOK
    <2> QED BY <2>1, <2>2
<1>11. ASSUME NEW r \in requests, Serve(r) \/ Lose(r) \/ TimeOut(r) PROVE Good(d)
    BY <1>5, <1>11 DEF Serve, Lose, TimeOut
<1>12. ASSUME NEW r \in requests, Confirm(r) PROVE Good(d)
    <2>1. disk' = disk /\ obj' = [obj EXCEPT ![r.dev] = ConfirmPushed(obj[r.dev], r.seqno, r.put)]
        BY <1>12 DEF Confirm
    <2>2. obj'[d] = obj[d]
        BY <1>2, <1>4, <2>1 DEF ConfirmPushed, TypeOK
    <2> QED BY <1>5, <2>1, <2>2
<1>13. ASSUME NEW e \in Devices, NEW batch, Fetch(e, batch) PROVE Good(d)
    <2>1. CASE e = d
        BY <1>4, <1>13, <2>1, ReaderFetch DEF Fetch
    <2>2. CASE e # d
        BY <1>2, <1>4, <1>5, <1>13, <2>2 DEF Fetch, TypeOK
    <2> QED BY <2>1, <2>2
<1>14. CASE UNCHANGED vars
    BY <1>5, <1>14 DEF vars
<1>15. CASE Next
    <2> HIDE DEF Good
    <2> QED BY <1>6, <1>7, <1>8, <1>9, <1>10, <1>11, <1>12, <1>13, <1>15 DEF Next
<1> QED BY <1>14, <1>15

(* A fresh reader has published nothing and shows nothing. *)
LEMMA InitReaderInv == Init => ReaderInv
<1>1. FreshObject \in ConfigObject
    BY FreshObjectType
<1>2. /\ MakeDump(FreshObject, FALSE).state = "Clean"
      /\ MakeDump(FreshObject, FALSE).conf.seqno = 0
      /\ FreshObject.state = "Clean" /\ FreshObject.conf.seqno = 0
    <2>1. FreshObject.state = "Clean" /\ FreshObject.conf.seqno = 0
        BY DEF FreshObject, EmptyContent
    <2> QED BY <1>1, <2>1, MakeDumpType, SerializeType
<1> QED BY <1>2, DevicesAssumption DEF Init, ReaderInv, Published

(* What a device that cannot sign shows is always the content of a message    *)
(* that the swarm held: with verify-only keys _merge never makes a config of *)
(* its own, and neither saving nor restarting changes what is shown.        *)
THEOREM ReaderDataStoredHolds == Spec => []ReaderDataStored
<1>1. IInv /\ ReaderInv /\ [Next]_vars => ReaderInv'
    BY ReaderStep
<1>2. ReaderInv => ReaderDataStored
    BY DEF ReaderInv, ReaderDataStored, Published, Parsed
<1> QED BY <1>1, <1>2, InitReaderInv, Invariance, PTL DEF Spec

-----------------------------------------------------------------------------
(***************************************************************************)
(* Objects, dumps, requests and the swarm together, when the swarm holds   *)
(* nothing this version cannot parse (Aliens = {}).                        *)
(***************************************************************************)

(* A request stores at most one message, under the hash of its serialisation, *)
(* and a push is awaited until it is answered or given up.                  *)
PutKnown(r, known, ids) ==
    /\ \A h \in r.put : r.put = {h} /\ h[1] = r.seqno /\ \E m \in known : SeqnoHash(m) = h
    /\ r.awaited => r.put # {}
    /\ r.answered => r.awaited /\ r.put \subseteq ids

(* A clean config other than the empty one has its data in a stored message   *)
(* whose hash it knows.                                                     *)
BackedBy(o, known, ids) ==
    o.state = "Clean" /\ o.conf.seqno # 0 =>
        \E m \in known : SeqnoHash(m) \in o.curr \cap ids /\ m.data = o.conf.data

(* What a push that is awaited has to do with the config it came from: the    *)
(* config has not gone back since, and as long as it is waiting at the seqno *)
(* of the push, its data is what the push stores.                           *)
PushMatches(r, o, known) ==
    r.awaited =>
        /\ r.seqno <= o.conf.seqno
        /\ o.state = "Dirty" => r.seqno < o.conf.seqno
        /\ o.state = "Waiting" /\ r.seqno = o.conf.seqno =>
             \E m \in known : SeqnoHash(m) \in r.put /\ m.data = o.conf.data

PutsKnown == \A r \in requests : PutKnown(r, hashed, stored)
StoredKnown == \A h \in stored : \E m \in hashed : SeqnoHash(m) = h
OwnBelow == \A d \in Writers : Below(obj[d]) /\ Below(disk[d])
AllBacked == \A d \in Devices : /\ BackedBy(obj[d], hashed, stored)
                                /\ BackedBy(disk[d], hashed, stored)
AllMatched == \A r \in requests : PushMatches(r, obj[r.dev], hashed)

(* The pushes of one device match its config; the pushes that the others await *)
(* were awaited before.                                                     *)
MatchedBy(d, o, rs, known) == \A r \in rs : r.dev = d => PushMatches(r, o, known)
AwaitedBefore(d, rs, before) ==
    \A r \in rs : r.awaited /\ r.dev # d =>
        \E q \in before : q.awaited /\ q.dev = r.dev /\ q.seqno = r.seqno /\ q.put = r.put

(* The inductive invariant. *)
SyncInv ==
    /\ IInv /\ ReaderInv
    /\ StoredKnown /\ PutsKnown
    /\ OwnBelow /\ AllBacked /\ AllMatched

(* What is backed by few messages is backed by more. *)
LEMMA BackedStays ==
    ASSUME NEW o, NEW known, NEW ids, NEW known2, NEW ids2,
           BackedBy(o, known, ids), known \subseteq known2, ids \subseteq ids2
    PROVE  BackedBy(o, known2, ids2)
BY DEF BackedBy

(* A config that keeps its state, seqno and data, moves to a later seqno, or   *)
(* becomes clean without going back, still matches the pushes awaited.      *)
LEMMA MatchedStays ==
    ASSUME NEW r, NEW o, NEW n, NEW known, NEW known2, known \subseteq known2,
           r.seqno \in Nat, o.conf.seqno \in Nat, n.conf.seqno \in Nat,
           PushMatches(r, o, known),
           \/ n.state = o.state /\ n.conf.seqno = o.conf.seqno /\ n.conf.data = o.conf.data
           \/ n.state = "Dirty" /\ o.state = "Dirty" /\ n.conf.seqno = o.conf.seqno
           \/ n.state = "Waiting" /\ o.state = "Dirty" /\ n.conf.seqno = o.conf.seqno
           \/ n.state = "Clean" /\ n.conf.seqno >= o.conf.seqno
           \/ n.conf.seqno > o.conf.seqno
    PROVE  PushMatches(r, n, known2)
BY DEF PushMatches

(* What holds of every object and every dump, shown device by device. *)
LEMMA DeviceByDevice ==
    ASSUME SyncInv, [Next]_vars, NEW d \in Devices,
           \A e \in Devices \ {d} : obj'[e] = obj[e] /\ disk'[e] = disk[e],
           d \in Writers => Below(obj'[d]) /\ Below(disk'[d]),
           BackedBy(obj'[d], hashed', stored'), BackedBy(disk'[d], hashed', stored'),
           PutsKnown', StoredKnown',
           MatchedBy(d, obj'[d], requests', hashed'),
           AwaitedBefore(d, requests', requests)
    PROVE  SyncInv'
<1>1. IInv' /\ ReaderInv'
    BY NextStep, ReaderStep DEF SyncInv
<1>2. hashed \subseteq hashed' /\ stored \subseteq stored'
    BY NothingForgotten DEF SyncInv, ReaderInv
<1>3. OwnBelow'
    <2>1. \A e \in Writers : Below(obj'[e]) /\ Below(disk'[e])
        BY DEF OwnBelow, SyncInv, Writers
    <2> QED BY <2>1 DEF OwnBelow
<1>4. AllBacked'
    <2>1. ASSUME NEW e \in Devices
          PROVE  /\ BackedBy(obj'[e], hashed', stored')
                 /\ BackedBy(disk'[e], hashed', stored')
        <3>1. BackedBy(obj[e], hashed, stored) /\ BackedBy(disk[e], hashed, stored)
            BY DEF SyncInv, AllBacked
        <3> QED BY <1>2, <3>1, BackedStays
    <2> QED BY <2>1 DEF AllBacked
<1>5. AllMatched'
    <2>1. ASSUME NEW r \in requests' PROVE PushMatches(r, obj'[r.dev], hashed')
        <3>1. r.dev \in Devices
            BY <1>1 DEF IInv, TypeOK, Request
        <3>2. CASE r.dev = d
            BY <3>2 DEF MatchedBy
        <3>3. CASE r.dev # d /\ r.awaited
            <4>1. PICK q \in requests : /\ q.awaited /\ q.dev = r.dev
                                        /\ q.seqno = r.seqno /\ q.put = r.put
                BY <3>3 DEF AwaitedBefore
            <4>2. PushMatches(q, obj[r.dev], hashed)
                BY <4>1 DEF SyncInv, AllMatched
            <4>3. obj'[r.dev] = obj[r.dev]
                BY <3>1, <3>3
            <4> QED BY <1>2, <4>1, <4>2, <4>3 DEF PushMatches
        <3>4. CASE ~r.awaited
            BY <3>4 DEF PushMatches
        <3> QED BY <3>2, <3>3, <3>4
    <2> QED BY <2>1 DEF AllMatched
<1> QED BY <1>1, <1>3, <1>4, <1>5 DEF SyncInv

(* One object changes, dumps stay: what has to be shown of that object and of *)
(* the requests.                                                            *)
LEMMA OneDevice ==
    ASSUME SyncInv, [Next]_vars, NEW d \in Devices, NEW n \in ConfigObject,
           obj' = [obj EXCEPT ![d] = n], disk' = disk,
           d \in Writers => Below(n),
           BackedBy(n, hashed', stored'),
           PutsKnown', StoredKnown',
           MatchedBy(d, n, requests', hashed'), AwaitedBefore(d, requests', requests)
    PROVE  SyncInv'
<1>1. obj'[d] = n /\ \A e \in Devices \ {d} : obj'[e] = obj[e] /\ disk'[e] = disk[e]
    BY DEF SyncInv, IInv, TypeOK
<1>2. hashed \subseteq hashed' /\ stored \subseteq stored'
    BY NothingForgotten DEF SyncInv, ReaderInv
<1>3. BackedBy(disk'[d], hashed', stored')
    <2>1. BackedBy(disk[d], hashed, stored)
        BY DEF SyncInv, AllBacked
    <2> QED BY <1>2, <2>1, BackedStays
<1>4. d \in Writers => Below(disk'[d])
    BY DEF SyncInv, OwnBelow
<1> QED BY <1>1, <1>3, <1>4, DeviceByDevice

(* Requests that were there keep what is known of them. *)
LEMMA PutsStay ==
    ASSUME SyncInv, [Next]_vars
    PROVE  /\ \A r \in requests : PutKnown(r, hashed', stored')
           /\ \A h \in stored : \E m \in hashed' : SeqnoHash(m) = h
<1>1. hashed \subseteq hashed' /\ stored \subseteq stored'
    BY NothingForgotten DEF SyncInv, ReaderInv
<1>2. ASSUME NEW r \in requests PROVE PutKnown(r, hashed', stored')
    <2>1. PutKnown(r, hashed, stored)
        BY DEF SyncInv, PutsKnown
    <2> QED BY <1>1, <2>1 DEF PutKnown
<1>3. \A h \in stored : \E m \in hashed' : SeqnoHash(m) = h
    BY <1>1 DEF SyncInv, StoredKnown
<1> QED BY <1>2, <1>3

(* The types that the arithmetic on seqnos needs. *)
LEMMA SyncTypes ==
    ASSUME SyncInv
    PROVE  /\ TypeOK /\ SerializedInWindow
           /\ \A d \in Devices : /\ obj[d] \in ConfigObject /\ obj[d].conf.seqno \in Nat
                                 /\ disk[d] \in DumpRecord
                                 /\ obj[d].curr # {} => obj[d].state = "Clean"
           /\ \A r \in requests : r.dev \in Devices /\ r.seqno \in Nat /\ r \in Request
<1>1. IInv /\ TypeOK /\ SerializedInWindow
    BY DEF SyncInv, IInv
<1>2. \A d \in Devices : obj[d] \in ConfigObject /\ disk[d] \in DumpRecord
    BY <1>1 DEF TypeOK
<1>3. \A d \in Devices : obj[d].conf.seqno \in Nat
    BY <1>2 DEF ConfigObject, Content
<1>4. \A r \in requests : r.dev \in Devices /\ r.seqno \in Nat /\ r \in Request
    BY <1>1 DEF TypeOK, Request
<1>5. \A d \in Devices : obj[d].curr # {} => obj[d].state = "Clean"
    BY <1>1 DEF IInv, HashesOnlyWhenClean
<1> QED BY <1>1, <1>2, <1>3, <1>4, <1>5

(* A setter leaves every awaited push behind: the config is one seqno on. *)
LEMMA EditSync ==
    ASSUME Aliens = {}, SyncInv, NEW d \in Devices, NEW k \in Keys,
           NEW v \in Values \cup {Absent}, Edit(d, k, v)
    PROVE  SyncInv'
<1> DEFINE o == obj[d]
<1>0. [Next]_vars
    BY DEF Next
<1>1. /\ o \in ConfigObject /\ o.conf.seqno \in Nat /\ TypeOK /\ SerializedInWindow
      /\ d \in Writers /\ Below(o)
    BY SyncTypes DEF SyncInv, OwnBelow, Writers, Edit
<1>2. PICK mine \in Message :
        /\ o.state # "Dirty" => mine.seqno = o.conf.seqno
        /\ obj' = [obj EXCEPT ![d] = SetField(o, mine, k, v)]
    <2>1. CASE o.state = "Dirty"
        <3>1. obj' = [obj EXCEPT ![d] = SetField(o, Hashed(o.conf, 0), k, v)]
            BY <1>1, <2>1 DEF Edit, TypeOK
        <3>2. Hashed(o.conf, 0) \in Message
            BY <1>1, HashedType DEF ConfigObject
        <3> QED BY <2>1, <3>1, <3>2
    <2>2. CASE o.state # "Dirty"
        <3>1. PICK mine \in Hash(Serialize(o)) :
                    obj' = [obj EXCEPT ![d] = SetField(o, mine, k, v)]
            BY <2>2 DEF Edit
        <3>2. WellFormed(mine) /\ mine.seqno = o.conf.seqno
            BY <1>1, <3>1, SerializeType, HashType
        <3> QED BY <3>1, <3>2 DEF WellFormed
    <2> QED BY <2>1, <2>2
<1> DEFINE n == SetField(o, mine, k, v)
<1>3. /\ n \in ConfigObject /\ n.conf.seqno \in Nat /\ Below(n) /\ n.state = "Dirty"
      /\ o.state = "Dirty" => n.conf.seqno = o.conf.seqno
      /\ o.state # "Dirty" => n.conf.seqno = o.conf.seqno + 1
    <2>1. o.state # "Dirty" => mine.seqno = o.conf.seqno
        BY <1>2
    <2>2. n \in ConfigObject
        <3> HIDE DEF o
        <3> QED BY <1>1, <2>1, SetFieldStep DEF GoodStep
    <2>3. n.conf.seqno \in Nat
        <3> HIDE DEF n
        <3> QED BY <2>2 DEF ConfigObject, Content
    <2> HIDE DEF o
    <2> QED BY <1>1, <2>1, <2>2, <2>3, SetFieldBelow
<1>4. /\ obj' = [obj EXCEPT ![d] = n] /\ disk' = disk /\ stored' = stored
      /\ requests' = requests
    BY <1>2 DEF Edit
<1> HIDE DEF n
<1>5. \A r \in requests : r.dev = d => PushMatches(r, n, hashed')
    <2>1. SUFFICES ASSUME NEW r \in requests, r.dev = d PROVE PushMatches(r, n, hashed')
        OBVIOUS
    <2>2. PushMatches(r, o, hashed) /\ r.seqno \in Nat
        BY <2>1, SyncTypes DEF SyncInv, AllMatched
    <2>3. hashed \subseteq hashed'
        BY <1>0, NothingForgotten DEF SyncInv, ReaderInv
    <2> HIDE DEF o
    <2> QED BY <1>1, <1>3, <2>2, <2>3, MatchedStays
<1>6. BackedBy(n, hashed', stored')
    BY <1>3 DEF BackedBy
<1>7. MatchedBy(d, n, requests', hashed') /\ AwaitedBefore(d, requests', requests)
    BY <1>4, <1>5 DEF MatchedBy, AwaitedBefore
<1>8. PutsKnown' /\ StoredKnown'
    BY <1>0, <1>4, PutsStay DEF PutsKnown, StoredKnown
<1> HIDE DEF o
<1> QED BY <1>0, <1>3, <1>4, <1>6, <1>7, <1>8, OneDevice

(* push(): what waits for an answer is exactly what was sent. *)
LEMMA PushSync ==
    ASSUME SyncInv, NEW d \in Devices, Push(d)
    PROVE  SyncInv'
<1> DEFINE o == obj[d]
           n == AfterPush(o)
<1>0. [Next]_vars
    BY DEF Next
<1>1. /\ o \in ConfigObject /\ o.conf.seqno \in Nat /\ TypeOK /\ SerializedInWindow
      /\ NeedsPush(o)
    BY SyncTypes DEF Push
<1>2. d \in Writers /\ Below(o)
    <2>1. d \notin Readers
        BY <1>1 DEF SyncInv, ReaderInv, NeedsPush
    <2> QED BY <2>1 DEF Writers, SyncInv, OwnBelow
<1>3. PICK mine \in Hash(Serialize(o)) :
        /\ hashed' = hashed \cup {mine}
        /\ requests' = requests \cup
             {[dev |-> d, seqno |-> mine.seqno, put |-> {SeqnoHash(mine)},
               del |-> PushObsoletes(o, d \in Readers),
               answered |-> FALSE, awaited |-> TRUE]}
    BY DEF Push
<1> DEFINE sent == [dev |-> d, seqno |-> mine.seqno, put |-> {SeqnoHash(mine)},
                    del |-> PushObsoletes(o, d \in Readers),
                    answered |-> FALSE, awaited |-> TRUE]
<1>4. mine.seqno = o.conf.seqno /\ mine.data = o.conf.data
    <2>1. /\ mine.seqno = Serialize(o).seqno /\ ContentOf(mine) = Serialize(o)
          /\ WellFormed(mine)
        BY <1>1, <1>3, SerializeType, HashType
    <2>2. mine.data = Serialize(o).data
        BY <2>1, ContentOfType DEF WellFormed
    <2> QED BY <1>1, <2>1, <2>2, SerializeType
<1>5. /\ n \in ConfigObject /\ Below(n) /\ n.state = "Waiting"
      /\ n.conf.seqno = o.conf.seqno /\ n.conf.data = o.conf.data
    BY <1>1, <1>2, AfterPushStep, AfterPushBelow DEF GoodStep
<1>6. /\ obj' = [obj EXCEPT ![d] = n] /\ disk' = disk /\ stored' = stored
      /\ requests' = requests \cup {sent}
    BY <1>3 DEF Push
<1> HIDE DEF n
<1>7. PutKnown(sent, hashed', stored') /\ PushMatches(sent, n, hashed')
    <2>1. mine \in hashed' /\ SeqnoHash(mine)[1] = mine.seqno
        BY <1>3 DEF SeqnoHash
    <2>2. PutKnown(sent, hashed', stored')
        BY <2>1 DEF PutKnown
    <2>3. PushMatches(sent, n, hashed')
        BY <1>1, <1>4, <1>5, <2>1 DEF PushMatches
    <2> QED BY <2>2, <2>3
<1>8. \A r \in requests' : r.dev = d => PushMatches(r, n, hashed')
    <2>1. SUFFICES ASSUME NEW r \in requests, r.dev = d PROVE PushMatches(r, n, hashed')
        BY <1>6, <1>7
    <2>2. PushMatches(r, o, hashed) /\ r.seqno \in Nat
        BY <2>1, SyncTypes DEF SyncInv, AllMatched
    <2>3. o.state \in {"Dirty", "Waiting"}
        BY <1>1 DEF NeedsPush, ConfigObject, States
    <2> HIDE DEF o
    <2> QED BY <1>1, <1>3, <1>5, <2>2, <2>3, MatchedStays
<1>9. \A r \in requests' : r \in requests \/ r.dev = d
    BY <1>6
<1>10. \A r \in requests' : PutKnown(r, hashed', stored')
    <2> HIDE DEF sent
    <2> QED BY <1>0, <1>6, <1>7, PutsStay
<1>11. BackedBy(n, hashed', stored')
    BY <1>5 DEF BackedBy
<1>12. \A h \in stored' : \E m \in hashed' : SeqnoHash(m) = h
    BY <1>0, <1>6, PutsStay
<1>13. MatchedBy(d, n, requests', hashed') /\ AwaitedBefore(d, requests', requests)
    BY <1>8, <1>9 DEF MatchedBy, AwaitedBefore
<1>14. PutsKnown' /\ StoredKnown'
    BY <1>10, <1>12 DEF PutsKnown, StoredKnown
<1> HIDE DEF o, sent
<1> QED BY <1>0, <1>5, <1>6, <1>11, <1>13, <1>14, OneDevice

(* old_hashes(): a request that stores nothing and that nobody waits for. *)
LEMMA CleanupSync ==
    ASSUME Aliens = {}, SyncInv, NEW d \in Devices, Cleanup(d)
    PROVE  SyncInv'
<1> DEFINE o == obj[d]
           n == AfterOldHashes(o)
           asked == [dev |-> d, seqno |-> 0, put |-> {}, del |-> o.old,
                     answered |-> FALSE, awaited |-> FALSE]
<1>0. [Next]_vars
    BY DEF Next
<1>1. o \in ConfigObject /\ o.conf.seqno \in Nat
    BY SyncTypes
<1>2. n \in ConfigObject /\ n.state = o.state /\ n.conf = o.conf /\ n.curr = o.curr
    BY <1>1 DEF AfterOldHashes, ConfigObject
<1>3. d \in Writers => Below(n)
    <2>1. d \in Writers => Below(o)
        BY DEF SyncInv, OwnBelow
    <2> HIDE DEF o
    <2> QED BY <1>1, <2>1, SavedBelow
<1>4. /\ obj' = [obj EXCEPT ![d] = n] /\ disk' = disk /\ stored' = stored
      /\ requests' = requests \cup {asked} /\ hashed' = hashed
    BY DEF Cleanup
<1> HIDE DEF n
<1>5. PutKnown(asked, hashed', stored') /\ PushMatches(asked, n, hashed')
    BY DEF PutKnown, PushMatches
<1>6. \A r \in requests' : r.dev = d => PushMatches(r, n, hashed')
    <2>1. SUFFICES ASSUME NEW r \in requests, r.dev = d PROVE PushMatches(r, n, hashed')
        BY <1>4, <1>5
    <2>2. PushMatches(r, o, hashed) /\ r.seqno \in Nat
        BY <2>1, SyncTypes DEF SyncInv, AllMatched
    <2> HIDE DEF o
    <2> QED BY <1>1, <1>2, <1>4, <2>2, MatchedStays
<1>7. \A r \in requests' : r \in requests \/ r.dev = d
    BY <1>4
<1>8. \A r \in requests' : PutKnown(r, hashed', stored')
    <2> HIDE DEF asked
    <2> QED BY <1>0, <1>4, <1>5, PutsStay
<1>9. BackedBy(n, hashed', stored')
    <2>1. BackedBy(o, hashed, stored)
        BY DEF SyncInv, AllBacked
    <2> HIDE DEF o
    <2> QED BY <1>2, <1>4, <2>1 DEF BackedBy
<1>10. \A h \in stored' : \E m \in hashed' : SeqnoHash(m) = h
    BY <1>0, <1>4, PutsStay
<1>11. obj' = [obj EXCEPT ![d] = n] /\ disk' = disk /\ n \in ConfigObject
    BY <1>2, <1>4
<1>12. MatchedBy(d, n, requests', hashed') /\ AwaitedBefore(d, requests', requests)
    BY <1>6, <1>7 DEF MatchedBy, AwaitedBefore
<1>13. PutsKnown' /\ StoredKnown'
    BY <1>8, <1>10 DEF PutsKnown, StoredKnown
<1> HIDE DEF o, asked
<1> QED BY <1>0, <1>3, <1>9, <1>11, <1>12, <1>13, OneDevice

(* The swarm serves a request, or one is lost or given up: a request that is  *)
(* still awaited is one that was, and an answered one has been stored.      *)
LEMMA NetworkSync ==
    ASSUME SyncInv, NEW r \in requests, Serve(r) \/ Lose(r) \/ TimeOut(r)
    PROVE  SyncInv'
<1> DEFINE d == r.dev
           n == obj[d]
<1>0. [Next]_vars
    BY DEF Next
<1>1. d \in Devices /\ n \in ConfigObject /\ r \in Request /\ TypeOK
    BY SyncTypes
<1>2. obj' = obj /\ disk' = disk /\ hashed' = hashed
    BY DEF Serve, Lose, TimeOut
<1>3. obj' = [obj EXCEPT ![d] = n]
    BY <1>1, <1>2 DEF TypeOK
<1>4. \A q \in requests' : q.awaited =>
        \E p \in requests : p.awaited /\ p.dev = q.dev /\ p.seqno = q.seqno /\ p.put = q.put
    <2>1. [r EXCEPT !.answered = TRUE].dev = r.dev
          /\ [r EXCEPT !.answered = TRUE].seqno = r.seqno
          /\ [r EXCEPT !.answered = TRUE].put = r.put
          /\ [r EXCEPT !.answered = TRUE].awaited = r.awaited
          /\ [r EXCEPT !.awaited = FALSE].awaited = FALSE
        BY <1>1 DEF Request
    <2> QED BY <2>1 DEF Serve, Lose, TimeOut
<1>5. PutKnown(r, hashed, stored)
    BY DEF SyncInv, PutsKnown
<1>6. \A q \in requests' : PutKnown(q, hashed', stored')
    <2>1. CASE Serve(r)
        <3>1. /\ stored' = stored \cup r.put
              /\ \A q \in requests' : q \in requests \/ (r.awaited /\ q = [r EXCEPT !.answered = TRUE])
            BY <2>1 DEF Serve
        <3>2. ASSUME r.awaited
              PROVE  PutKnown([r EXCEPT !.answered = TRUE], hashed', stored')
            BY <1>1, <1>2, <1>5, <3>1, <3>2 DEF PutKnown, Request
        <3> QED BY <1>0, <3>1, <3>2, PutsStay
    <2>2. CASE Lose(r)
        BY <1>0, <2>2, PutsStay DEF Lose
    <2>3. CASE TimeOut(r)
        <3>1. PutKnown([r EXCEPT !.awaited = FALSE], hashed', stored')
            BY <1>1, <1>2, <1>5, <2>3 DEF TimeOut, PutKnown, Request
        <3> QED BY <1>0, <2>3, <3>1, PutsStay DEF TimeOut
    <2> QED BY <2>1, <2>2, <2>3
<1>7. \A h \in stored' : \E m \in hashed' : SeqnoHash(m) = h
    <2>1. \A h \in r.put : \E m \in hashed : SeqnoHash(m) = h
        BY <1>5 DEF PutKnown
    <2>2. stored' \subseteq stored \cup r.put
        BY DEF Serve, Lose, TimeOut
    <2> QED BY <1>0, <1>2, <2>1, <2>2, PutsStay
<1>8. \A q \in requests' : q.dev = d => PushMatches(q, n, hashed')
    <2>1. SUFFICES ASSUME NEW q \in requests', q.dev = d, q.awaited
                   PROVE  PushMatches(q, n, hashed')
        BY DEF PushMatches
    <2>2. PICK p \in requests : p.awaited /\ p.dev = q.dev /\ p.seqno = q.seqno /\ p.put = q.put
        BY <1>4, <2>1
    <2>3. PushMatches(p, n, hashed)
        BY <2>1, <2>2 DEF SyncInv, AllMatched
    <2> QED BY <1>2, <2>2, <2>3 DEF PushMatches
<1>9. BackedBy(n, hashed', stored')
    <2>1. BackedBy(n, hashed, stored) /\ hashed \subseteq hashed' /\ stored \subseteq stored'
        BY <1>0, <1>1, NothingForgotten DEF SyncInv, AllBacked, ReaderInv
    <2> QED BY <2>1, BackedStays
<1>10. d \in Writers => Below(n)
    BY DEF SyncInv, OwnBelow
<1>11. d \in Devices /\ n \in ConfigObject /\ disk' = disk
    BY <1>1, <1>2
<1>12. MatchedBy(d, n, requests', hashed') /\ AwaitedBefore(d, requests', requests)
    BY <1>4, <1>8 DEF MatchedBy, AwaitedBefore
<1>13. PutsKnown' /\ StoredKnown'
    BY <1>6, <1>7 DEF PutsKnown, StoredKnown
<1> HIDE DEF n, d
<1> QED BY <1>0, <1>3, <1>9, <1>10, <1>11, <1>12, <1>13, OneDevice

(* confirm_pushed(): the hash taken over is that of a stored message with the *)
(* config's data.                                                           *)
LEMMA ConfirmSync ==
    ASSUME Aliens = {}, SyncInv, NEW r \in requests, Confirm(r)
    PROVE  SyncInv'
<1> DEFINE d == r.dev
           o == obj[d]
           n == ConfirmPushed(o, r.seqno, r.put)
<1>0. [Next]_vars
    BY DEF Next
<1>1. /\ d \in Devices /\ o \in ConfigObject /\ o.conf.seqno \in Nat
      /\ r \in Request /\ r.answered
    BY SyncTypes DEF Confirm
<1>2. /\ r.awaited /\ r.put \subseteq stored
      /\ \E h \in r.put : r.put = {h} /\ h[1] = r.seqno
    <2>1. PutKnown(r, hashed, stored)
        BY DEF SyncInv, PutsKnown
    <2> QED BY <1>1, <2>1 DEF PutKnown
<1>3. PICK h \in r.put : r.put = {h} /\ h[1] = r.seqno
    BY <1>2
<1>4. h \in Storage
    BY <1>1 DEF Request
<1>5. n \in ConfigObject
    <2>1. r.put \in SUBSET Storage
        BY <1>1 DEF Request
    <2> QED BY <1>1, <2>1, ConfirmPushedStep DEF GoodStep
<1>6. /\ n.conf = o.conf
      /\ d \in Writers => Below(n)
      /\ \/ n = o
         \/ /\ o.state = "Waiting" /\ r.seqno = o.conf.seqno
            /\ n.state = "Clean" /\ n.curr = {h}
    <2>1. CASE o.state = "Waiting"
        <3>1. d \in Writers /\ Below(o)
            <4>1. d \notin Readers
                BY <2>1 DEF SyncInv, ReaderInv
            <4> QED BY <1>1, <4>1 DEF Writers, SyncInv, OwnBelow
        <3>2. n = ConfirmPushed(o, r.seqno, {h})
            BY <1>3
        <3> DEFINE c == ConfirmPushed(o, r.seqno, {h})
        <3>3. /\ Below(c) /\ c.conf = o.conf
              /\ \/ c = o
                 \/ /\ o.state = "Waiting" /\ r.seqno = o.conf.seqno
                    /\ c.state = "Clean" /\ c.curr = {h}
            <4>1. o \in ConfigObject /\ Below(o) /\ h \in Storage /\ h[1] = r.seqno
                BY <1>1, <1>3, <1>4, <3>1
            <4> HIDE DEF o, d, n
            <4> QED BY <4>1, ConfirmPushedBelow
        <3> HIDE DEF o, d, n, c
        <3> QED BY <3>1, <3>2, <3>3 DEF c
    <2>2. CASE o.state # "Waiting"
        <3>1. n = o
            BY <2>2 DEF ConfirmPushed
        <3> QED BY <3>1 DEF SyncInv, OwnBelow
    <2> QED BY <2>1, <2>2
<1>7. /\ obj' = [obj EXCEPT ![d] = n] /\ disk' = disk /\ hashed' = hashed
      /\ stored' = stored /\ requests' \subseteq requests
    BY DEF Confirm
<1> HIDE DEF n
<1>8. BackedBy(n, hashed', stored')
    <2>1. CASE n = o
        <3>1. BackedBy(o, hashed, stored)
            BY <1>1 DEF SyncInv, AllBacked
        <3> QED BY <1>7, <2>1, <3>1
    <2>2. CASE /\ o.state = "Waiting" /\ r.seqno = o.conf.seqno
               /\ n.state = "Clean" /\ n.curr = {h}
        <3>1. PushMatches(r, o, hashed)
            BY DEF SyncInv, AllMatched
        <3>2. \E m \in hashed : SeqnoHash(m) \in r.put /\ m.data = o.conf.data
            BY <1>2, <2>2, <3>1 DEF PushMatches
        <3> HIDE DEF o
        <3> QED BY <1>2, <1>3, <1>6, <1>7, <2>2, <3>2 DEF BackedBy
    <2> QED BY <1>6, <2>1, <2>2
<1>9. \A q \in requests' : q.dev = d => PushMatches(q, n, hashed')
    <2>1. SUFFICES ASSUME NEW q \in requests, q.dev = d PROVE PushMatches(q, n, hashed')
        BY <1>7
    <2>2. PushMatches(q, o, hashed) /\ q.seqno \in Nat
        BY <2>1, SyncTypes DEF SyncInv, AllMatched
    <2> HIDE DEF o, d
    <2> QED BY <1>1, <1>6, <1>7, <2>2, MatchedStays
<1>10. \A q \in requests' : PutKnown(q, hashed', stored')
    BY <1>0, <1>7, PutsStay
<1>11. \A g \in stored' : \E m \in hashed' : SeqnoHash(m) = g
    BY <1>0, <1>7, PutsStay
<1>12. MatchedBy(d, n, requests', hashed') /\ AwaitedBefore(d, requests', requests)
    BY <1>7, <1>9 DEF MatchedBy, AwaitedBefore
<1>13. PutsKnown' /\ StoredKnown'
    BY <1>10, <1>11 DEF PutsKnown, StoredKnown
<1>14. d \in Writers => Below(n)
    BY <1>6
<1> HIDE DEF o, d
<1> QED BY <1>0, <1>1, <1>5, <1>7, <1>8, <1>12, <1>13, <1>14, OneDevice

(* merge(): what was polled was stored, and parses.  A writer that takes a    *)
(* message over is backed by it, and no step of a merge matches a push less. *)
LEMMA FetchSync ==
    ASSUME Aliens = {}, SyncInv, NEW d \in Devices, NEW batch, [Next]_vars, Fetch(d, batch)
    PROVE  SyncInv'
<1> DEFINE o == obj[d]
           in == Received(batch)
           ro == d \in Readers
<1>1. /\ o \in ConfigObject /\ o.conf.seqno \in Nat /\ TypeOK /\ SerializedInWindow
      /\ o.curr # {} => o.state = "Clean"
    BY SyncTypes
<1>2. PICK mine \in Hash(Serialize(o)) :
        obj' = [obj EXCEPT ![d] = MergeIncoming(o, mine, in, d \in Readers)]
    BY DEF Fetch
<1>3. WellFormed(mine) /\ mine.seqno = o.conf.seqno /\ WellFormedConfs(in)
      /\ batch \in Seq(Readable)
    BY <1>1, <1>2, SerializeType, HashType, ReceivedType DEF Fetch
<1>4. \A i \in DOMAIN in : /\ batch[i] \in stored
                           /\ in[i] = [hashes |-> {batch[i]}, parsed |-> Parsed({batch[i]})]
    <2>1. Readable \subseteq stored
        BY DEF Readable, SyncInv, ReaderInv
    <2>2. \A i \in DOMAIN in : i \in DOMAIN batch
        BY DEF Received
    <2>3. \A i \in DOMAIN batch : batch[i] \in Readable
        BY <1>3
    <2> QED BY <2>1, <2>2, <2>3 DEF Received
<1>5. Legible(in)
    <2>1. ASSUME NEW i \in DOMAIN in
          PROVE  /\ in[i].parsed # {}
                 /\ \A m \in in[i].parsed : in[i].hashes = {SeqnoHash(m)}
        <3>1. PICK m \in hashed : SeqnoHash(m) = batch[i]
            BY <1>4 DEF SyncInv, StoredKnown
        <3>2. in[i].hashes = {batch[i]} /\ in[i].parsed = Parsed({batch[i]})
            BY <1>4
        <3> QED BY <3>1, <3>2 DEF Parsed
    <2> QED BY <2>1 DEF Legible
<1>6. ro \in BOOLEAN
    OBVIOUS
<1> DEFINE n == MergeIncoming(o, mine, in, ro)
<1>7. n \in ConfigObject /\ n.conf.seqno >= o.conf.seqno /\ n.conf.seqno \in Nat
    <2>1. GoodStep(o, n)
        <3> HIDE DEF o, in, ro
        <3> QED BY <1>1, <1>3, <1>6, MergeIncomingStep
    <2> HIDE DEF n
    <2> QED BY <2>1 DEF GoodStep, ConfigObject, Content
<1>8. \/ n.state = o.state /\ n.conf = o.conf /\ n.curr = o.curr
      \/ n.state = "Dirty" /\ n.conf.seqno > o.conf.seqno
      \/ /\ n.state = "Clean"
         /\ \E j \in DOMAIN in : \E m \in in[j].parsed :
                n.conf.data = m.data /\ n.curr = in[j].hashes
    <2> HIDE DEF o, in, ro
    <2> QED BY <1>1, <1>3, <1>5, <1>6, MergeIncomingCases
<1>9. d \in Writers => Below(n)
    <2>1. SUFFICES ASSUME d \in Writers PROVE Below(n)
        OBVIOUS
    <2>2. Below(o) /\ ro = FALSE
        BY <2>1 DEF SyncInv, OwnBelow, Writers
    <2>3. Below(MergeIncoming(o, mine, in, FALSE))
        <3> HIDE DEF o, in
        <3> QED BY <1>1, <1>3, <1>5, <2>2, MergeIncomingBelow
    <2> QED BY <2>2, <2>3
<1>10. obj' = [obj EXCEPT ![d] = n] /\ disk' = disk /\ stored' = stored
       /\ requests' = requests
    BY <1>2 DEF Fetch
<1> HIDE DEF n
<1>11. BackedBy(n, hashed', stored')
    <2>1. hashed \subseteq hashed'
        BY NothingForgotten DEF SyncInv, ReaderInv
    <2>2. CASE n.state = o.state /\ n.conf = o.conf /\ n.curr = o.curr
        <3>1. BackedBy(o, hashed, stored)
            BY DEF SyncInv, AllBacked
        <3> HIDE DEF o
        <3> QED BY <1>10, <2>1, <2>2, <3>1 DEF BackedBy
    <2>3. CASE n.state = "Dirty"
        BY <2>3 DEF BackedBy
    <2>4. CASE \E j \in DOMAIN in : \E m \in in[j].parsed :
                    n.conf.data = m.data /\ n.curr = in[j].hashes
        <3>1. PICK j \in DOMAIN in : \E m \in in[j].parsed :
                    n.conf.data = m.data /\ n.curr = in[j].hashes
            BY <2>4
        <3>2. PICK m \in in[j].parsed : n.conf.data = m.data /\ n.curr = in[j].hashes
            BY <3>1
        <3>3. n.curr = {batch[j]} /\ m \in hashed /\ SeqnoHash(m) = batch[j]
              /\ batch[j] \in stored
            BY <1>4, <3>2 DEF Parsed
        <3> HIDE DEF in
        <3> QED BY <1>10, <2>1, <3>2, <3>3 DEF BackedBy
    <2> QED BY <1>8, <2>2, <2>3, <2>4
<1>12. MatchedBy(d, n, requests', hashed') /\ AwaitedBefore(d, requests', requests)
    <2>1. ASSUME NEW r \in requests, r.dev = d PROVE PushMatches(r, n, hashed')
        <3>1. PushMatches(r, o, hashed) /\ r.seqno \in Nat
            BY <2>1, SyncTypes DEF SyncInv, AllMatched
        <3>2. hashed \subseteq hashed'
            BY NothingForgotten DEF SyncInv, ReaderInv
        <3>3. \/ n.state = o.state /\ n.conf.seqno = o.conf.seqno /\ n.conf.data = o.conf.data
              \/ n.state = "Clean" /\ n.conf.seqno >= o.conf.seqno
              \/ n.conf.seqno > o.conf.seqno
            <4> HIDE DEF o, in
            <4> QED BY <1>7, <1>8
        <3> HIDE DEF o
        <3> QED BY <1>1, <1>7, <3>1, <3>2, <3>3, MatchedStays
    <2> QED BY <1>10, <2>1 DEF MatchedBy, AwaitedBefore
<1>13. PutsKnown' /\ StoredKnown'
    BY <1>10, PutsStay DEF PutsKnown, StoredKnown
<1> HIDE DEF o, in
<1> QED BY <1>7, <1>9, <1>10, <1>11, <1>12, <1>13, OneDevice

(* dump(): what is written shows what the object shows. *)
LEMMA DumpSync ==
    ASSUME Aliens = {}, SyncInv, NEW d \in Devices, Dump(d)
    PROVE  SyncInv'
<1> DEFINE o == obj[d]
           ro == d \in Readers
           n == AfterDump(o, ro)
           saved == MakeDump(o, ro)
<1>0. [Next]_vars
    BY DEF Next
<1>1. o \in ConfigObject /\ o.conf.seqno \in Nat /\ TypeOK /\ ro \in BOOLEAN
    BY SyncTypes
<1>2. /\ obj' = [obj EXCEPT ![d] = n] /\ disk' = [disk EXCEPT ![d] = saved]
      /\ hashed' = hashed /\ stored' = stored /\ requests' = requests
    BY DEF Dump
<1>3. /\ n.state = o.state /\ n.conf = o.conf /\ n.curr = o.curr
      /\ saved.state = o.state /\ saved.curr = o.curr
      /\ saved.conf.data = o.conf.data /\ saved.conf.seqno = o.conf.seqno
    BY <1>1, SerializeType DEF AfterDump, MakeDump, ConfigObject
<1>4. d \in Writers => Below(n) /\ Below(saved)
    <2>1. d \in Writers => Below(o)
        BY DEF SyncInv, OwnBelow
    <2> HIDE DEF o, ro
    <2> QED BY <1>1, <2>1, SavedBelow
<1> HIDE DEF n, saved
<1>5. /\ obj'[d] = n /\ disk'[d] = saved
      /\ \A e \in Devices \ {d} : obj'[e] = obj[e] /\ disk'[e] = disk[e]
    BY <1>1, <1>2 DEF TypeOK
<1>6. BackedBy(n, hashed', stored') /\ BackedBy(saved, hashed', stored')
    <2>1. BackedBy(o, hashed, stored)
        BY DEF SyncInv, AllBacked
    <2> HIDE DEF o
    <2> QED BY <1>2, <1>3, <2>1 DEF BackedBy
<1>7. PutsKnown' /\ StoredKnown'
    BY <1>0, <1>2, PutsStay DEF PutsKnown, StoredKnown
<1>8. MatchedBy(d, n, requests', hashed') /\ AwaitedBefore(d, requests', requests)
    <2>1. ASSUME NEW r \in requests, r.dev = d PROVE PushMatches(r, n, hashed)
        <3>1. PushMatches(r, o, hashed)
            BY <2>1 DEF SyncInv, AllMatched
        <3> HIDE DEF o
        <3> QED BY <1>3, <3>1 DEF PushMatches
    <2> QED BY <1>2, <2>1 DEF MatchedBy, AwaitedBefore
<1> HIDE DEF o, ro
<1> QED BY <1>0, <1>4, <1>5, <1>6, <1>7, <1>8, DeviceByDevice

(* init(dump): a clean dump comes back as it was written, and nobody waits for *)
(* the pushes made before the restart.                                      *)
LEMMA RestartSync ==
    ASSUME Aliens = {}, SyncInv, NEW d \in Devices, Restart(d)
    PROVE  SyncInv'
<1> DEFINE e == disk[d]
<1>0. [Next]_vars
    BY DEF Next
<1>1. e \in DumpRecord /\ e.conf \in Content /\ Windowed(e.conf) /\ TypeOK
      /\ SerializedInWindow
    <2>1. e \in DumpRecord /\ TypeOK /\ SerializedInWindow
        BY SyncTypes
    <2> QED BY <2>1 DEF DumpRecord, SerializedInWindow
<1>2. PICK saved \in Hash(e.conf) :
        obj' = [obj EXCEPT ![d] = LoadDump(e, saved)] /\ hashed' = hashed \cup {saved}
    BY DEF Restart
<1>3. saved \in Message /\ ContentOf(saved) = e.conf
    <2>1. WellFormed(saved) /\ ContentOf(saved) = e.conf
        BY <1>1, <1>2, HashType
    <2> QED BY <2>1 DEF WellFormed
<1> DEFINE n == LoadDump(e, saved)
<1>4. /\ n.state = e.state /\ n.curr = e.curr
      /\ n.state # "Dirty" => n.conf = e.conf
    BY <1>3 DEF LoadDump
<1>5. d \in Writers => Below(n)
    <2>1. d \in Writers => Below(e)
        BY DEF SyncInv, OwnBelow
    <2> HIDE DEF e
    <2> QED BY <1>1, <1>3, <2>1, LoadDumpBelow
<1>6. /\ obj' = [obj EXCEPT ![d] = n] /\ disk' = disk /\ stored' = stored
      /\ requests' = {r \in requests : r.dev # d} \cup
            {[r EXCEPT !.awaited = FALSE] : r \in {q \in requests : q.dev = d /\ ~q.answered}}
    BY <1>2 DEF Restart
<1> HIDE DEF n
<1>7. /\ obj'[d] = n
      /\ \A x \in Devices \ {d} : obj'[x] = obj[x] /\ disk'[x] = disk[x]
    BY <1>1, <1>6 DEF TypeOK
<1>8. BackedBy(n, hashed', stored') /\ BackedBy(disk'[d], hashed', stored')
    <2>1. BackedBy(e, hashed, stored)
        BY DEF SyncInv, AllBacked
    <2>2. BackedBy(e, hashed', stored')
        BY <1>2, <1>6, <2>1, BackedStays
    <2> HIDE DEF e
    <2>3. BackedBy(n, hashed', stored')
        BY <1>4, <2>2 DEF BackedBy
    <2> QED BY <1>6, <2>2, <2>3 DEF e
<1>9. \A r \in requests' :
        \/ r \in requests /\ r.dev # d
        \/ \E q \in requests : /\ q.dev = d /\ ~q.answered /\ r.dev = d
                               /\ ~r.awaited /\ ~r.answered /\ r.put = q.put
                               /\ r.seqno = q.seqno
    <2>1. \A q \in requests : LET r == [q EXCEPT !.awaited = FALSE]
                              IN  /\ r.dev = q.dev /\ r.answered = q.answered
                                  /\ r.awaited = FALSE /\ r.put = q.put
                                  /\ r.seqno = q.seqno
        BY SyncTypes DEF Request
    <2>2. SUFFICES ASSUME NEW r \in requests', ~(r \in requests /\ r.dev # d)
                   PROVE  \E q \in requests : /\ q.dev = d /\ ~q.answered /\ r.dev = d
                                             /\ ~r.awaited /\ ~r.answered
                                             /\ r.put = q.put /\ r.seqno = q.seqno
        OBVIOUS
    <2>3. PICK q \in {p \in requests : p.dev = d /\ ~p.answered} :
                r = [q EXCEPT !.awaited = FALSE]
        BY <1>6, <2>2
    <2>4. /\ q \in requests /\ q.dev = d /\ ~q.answered
          /\ r.dev = q.dev /\ r.answered = q.answered /\ r.awaited = FALSE
          /\ r.put = q.put /\ r.seqno = q.seqno
        BY <2>1, <2>3
    <2> QED BY <2>4
<1>10. PutsKnown' /\ StoredKnown'
    <2>1. ASSUME NEW r \in requests' PROVE PutKnown(r, hashed', stored')
        <3>1. \A q \in requests : PutKnown(q, hashed', stored')
            BY <1>0, PutsStay
        <3>2. CASE \E q \in requests : /\ ~r.awaited /\ ~r.answered /\ r.put = q.put
                                       /\ r.seqno = q.seqno
            BY <3>1, <3>2 DEF PutKnown
        <3> QED BY <1>9, <3>1, <3>2
    <2> QED BY <1>0, <1>6, <2>1, PutsStay DEF PutsKnown, StoredKnown
<1>11. MatchedBy(d, n, requests', hashed') /\ AwaitedBefore(d, requests', requests)
    BY <1>9 DEF MatchedBy, AwaitedBefore, PushMatches
<1>12. d \in Writers => Below(obj'[d]) /\ Below(disk'[d])
    BY <1>5, <1>6, <1>7 DEF SyncInv, OwnBelow
<1> HIDE DEF e
<1> QED BY <1>0, <1>7, <1>8, <1>10, <1>11, <1>12, DeviceByDevice

(* Every step. *)
LEMMA SyncStep ==
    ASSUME Aliens = {}, SyncInv, [Next]_vars
    PROVE  SyncInv'
<1>1. CASE UNCHANGED vars
    <2>1. IInv' /\ ReaderInv'
        BY NextStep, ReaderStep DEF SyncInv
    <2>2. /\ obj' = obj /\ disk' = disk /\ hashed' = hashed
          /\ stored' = stored /\ requests' = requests
        BY <1>1 DEF vars
    <2>3. StoredKnown' /\ PutsKnown' /\ OwnBelow' /\ AllBacked' /\ AllMatched'
        BY <2>2 DEF SyncInv, StoredKnown, PutsKnown, OwnBelow, AllBacked, AllMatched
    <2> QED BY <2>1, <2>3 DEF SyncInv
<1>2. CASE Next
    BY <1>2, EditSync, PushSync, CleanupSync, DumpSync, RestartSync, NetworkSync,
       ConfirmSync, FetchSync DEF Next
<1> QED BY <1>1, <1>2

(* Empty configs, no requests and an empty swarm. *)
LEMMA InitSyncInv ==
    ASSUME Aliens = {}, Init
    PROVE  SyncInv
<1>1. IInv /\ ReaderInv
    BY InitIInv, InitReaderInv
<1>2. FreshObject \in ConfigObject
    BY FreshObjectType
<1>3. /\ FreshObject.state = "Clean" /\ FreshObject.conf.seqno = 0
      /\ FreshObject.curr = {} /\ FreshObject.old = {}
    BY DEF FreshObject, EmptyContent
<1> DEFINE e == MakeDump(FreshObject, FALSE)
<1>4. Below(FreshObject) /\ BackedBy(FreshObject, hashed, stored)
    BY <1>3 DEF Below, BackedBy
<1>5. Below(e)
    BY <1>2, <1>4, SavedBelow
<1>6. BackedBy(e, hashed, stored)
    BY <1>2, <1>3, SerializeType DEF MakeDump, BackedBy
<1> HIDE DEF e
<1>7. OwnBelow /\ AllBacked
    BY <1>4, <1>5, <1>6 DEF Init, OwnBelow, AllBacked, Writers, e
<1>8. StoredKnown /\ PutsKnown /\ AllMatched
    BY DEF Init, StoredKnown, PutsKnown, AllMatched
<1> QED BY <1>1, <1>7, <1>8 DEF SyncInv

(* The inductive invariant holds throughout. *)
LEMMA SyncAlways ==
    ASSUME Aliens = {}
    PROVE  Spec => []SyncInv
<1>1. Init => SyncInv
    BY InitSyncInv
<1>2. SyncInv /\ [Next]_vars => SyncInv'
    BY SyncStep
<1> QED BY <1>1, <1>2, PTL DEF Spec

(* Whatever the order of merges, pushes, confirmations and restarts, a writer   *)
(* never has the message its config stands on among those that its next push *)
(* or old_hashes() asks the swarm to delete, as long as every message parses *)
(* (with one that does not, _merge may name the wrong message).             *)
THEOREM CurrentNotObsoleteHolds ==
    ASSUME Aliens = {}
    PROVE  Spec => []CurrentNotObsolete
<1>1. SyncInv => CurrentNotObsolete
    BY DEF SyncInv, OwnBelow, Below, CurrentNotObsolete
<1> QED BY <1>1, SyncAlways, PTL

(* A clean config always has its data in a message that reached the swarm and  *)
(* whose hash it knows: neither a lost or late answer, nor a newer edit, nor *)
(* a merge or restart between push() and confirm_pushed() makes it claim a  *)
(* hash of other data.                                                      *)
THEOREM CleanDataStoredHolds ==
    ASSUME Aliens = {}
    PROVE  Spec => []CleanDataStored
<1>1. SyncInv => CleanDataStored
    BY DEF SyncInv, AllBacked, BackedBy, CleanDataStored, Parsed
<1> QED BY <1>1, SyncAlways, PTL

-----------------------------------------------------------------------------
(***************************************************************************)
(* No change is lost: every message the swarm is asked to delete is        *)
(* accounted for by the one that is stored with it, as long as deletes go  *)
(* with pushes (CleanupStates = {}).                                       *)
(***************************************************************************)

(* The config of a device and its dump hold the diffs of known messages, and   *)
(* those of a writer cover what they have obsoleted.                        *)
DeviceCovers(d, o, e, known) ==
    /\ Grounded(o.conf, known) /\ Grounded(e.conf, known)
    /\ d \in Writers => /\ Accountable(o, known)
                        /\ Covered(e.conf, e.old \cup e.curr, known)

(* The message a request stores covers those it deletes. *)
RequestCovers(r, known) ==
    \E p \in known : /\ r.put = {SeqnoHash(p)} /\ 0 < p.seqno /\ SeqnoHash(p) \notin r.del
                     /\ Covered(ContentOf(p), r.del, known)

(* While a config waits at the seqno of a push that is awaited, it is what     *)
(* was pushed.                                                              *)
SameAsPushed(r, o, known) ==
    r.awaited /\ o.state = "Waiting" /\ r.seqno = o.conf.seqno =>
        \E p \in known : r.put = {SeqnoHash(p)} /\ ContentOf(p) = Serialize(o)

(* What was stored under h is covered by a message the swarm holds. *)
StillHeld(h, known, ids) ==
    \E m, n \in known : /\ SeqnoHash(m) = h /\ 0 < m.seqno
                        /\ SeqnoHash(n) \in ids /\ Covers(ContentOf(n), m)

DevicesCover == \A d \in Devices : DeviceCovers(d, obj[d], disk[d], hashed)
RequestsCover == \A r \in requests : RequestCovers(r, hashed)
AllAsPushed == \A r \in requests : SameAsPushed(r, obj[r.dev], hashed)
AllHeld == \A h \in stored : StillHeld(h, hashed, swarm)

(* The inductive invariant, on top of SyncInv. *)
CoverInv ==
    /\ SyncInv
    /\ Sound(hashed)
    /\ DevicesCover /\ RequestsCover /\ AllAsPushed /\ AllHeld

(* As more messages become known, what is covered stays so. *)
LEMMA CoverStays ==
    ASSUME NEW known, NEW known2, known \subseteq known2
    PROVE  /\ \A c : Grounded(c, known) => Grounded(c, known2)
           /\ \A c, hashes : Covered(c, hashes, known) => Covered(c, hashes, known2)
           /\ \A o : Accountable(o, known) => Accountable(o, known2)
           /\ \A d, o, e : DeviceCovers(d, o, e, known) => DeviceCovers(d, o, e, known2)
           /\ \A r : RequestCovers(r, known) => RequestCovers(r, known2)
           /\ \A r, o : SameAsPushed(r, o, known) => SameAsPushed(r, o, known2)
           /\ \A h, ids : StillHeld(h, known, ids) => StillHeld(h, known2, ids)
<1>1. \A c : Grounded(c, known) => Grounded(c, known2)
    BY DEF Grounded
<1>2. \A c, hashes : Covered(c, hashes, known) => Covered(c, hashes, known2)
    BY DEF Covered
<1>3. \A o : Accountable(o, known) => Accountable(o, known2)
    BY <1>2 DEF Accountable
<1>4. \A d, o, e : DeviceCovers(d, o, e, known) => DeviceCovers(d, o, e, known2)
    BY <1>1, <1>2, <1>3 DEF DeviceCovers
<1>5. \A r : RequestCovers(r, known) => RequestCovers(r, known2)
    BY <1>2 DEF RequestCovers
<1>6. \A r, o : SameAsPushed(r, o, known) => SameAsPushed(r, o, known2)
    BY DEF SameAsPushed
<1>7. \A h, ids : StillHeld(h, known, ids) => StillHeld(h, known2, ids)
    BY DEF StillHeld
<1> QED BY <1>1, <1>2, <1>3, <1>4, <1>5, <1>6, <1>7

(* The hash oracle tells the messages apart: a message that was not known has   *)
(* another content than all those that were, and another hash than those of *)
(* its seqno.  What it is asked about is grounded, so the messages stay so. *)
LEMMA HashSound ==
    ASSUME TypeOK, SerializedInWindow, Sound(hashed),
           NEW c \in Content, Windowed(c), Grounded(c, hashed), NEW m \in Hash(c)
    PROVE  Sound(hashed \cup {m})
<1> DEFINE known == {n \in hashed : ContentOf(n) = c}
<1>1. WellFormed(m) /\ ContentOf(m) = c
    BY HashType
<1>2. CASE known # {}
    <2>1. m \in hashed
        BY <1>2 DEF Hash
    <2>2. hashed \cup {m} = hashed
        BY <2>1
    <2> QED BY <2>2
<1>3. CASE known = {}
    <2>1. PICK h \in Nat : m = Hashed(c, h) /\ h \notin UsedHashes(c.seqno)
        BY <1>3 DEF Hash
    <2>2. m.seqno = c.seqno /\ m.hash = h /\ m.lagged = c.lagged
        BY <2>1 DEF Hashed
    <2>3. ASSUME NEW n \in hashed
          PROVE  ContentOf(n) # ContentOf(m) /\ SeqnoHash(n) # SeqnoHash(m)
        <3>1. ContentOf(n) # ContentOf(m)
            BY <1>1, <1>3
        <3>2. n.seqno = c.seqno => n.hash \in UsedHashes(c.seqno)
            BY DEF UsedHashes
        <3> QED BY <2>1, <2>2, <3>1, <3>2 DEF SeqnoHash
    <2>4. Distinct(hashed \cup {m})
        BY <2>3 DEF Sound, Distinct
    <2>5. Grounded(m, hashed)
        BY <2>2, SameAbove
    <2>6. \A n \in hashed \cup {m} : Windowed(n) /\ Grounded(n, hashed \cup {m})
        BY <1>1, <2>5, CoverStays DEF Sound, WellFormed
    <2> QED BY <1>1, <2>4, <2>6 DEF Sound, WellFormed
<1> QED BY <1>2, <1>3

(* So it does for what an object would serialise. *)
LEMMA SerializeSound ==
    ASSUME CoverInv, NEW d \in Devices, NEW m \in Hash(Serialize(obj[d]))
    PROVE  Sound(hashed \cup {m}) /\ WellFormed(m) /\ ContentOf(m) = Serialize(obj[d])
<1> DEFINE o == obj[d]
           c == Serialize(o)
<1>1. TypeOK /\ SerializedInWindow /\ o \in ConfigObject
    BY SyncTypes DEF CoverInv
<1>2. Grounded(o.conf, hashed) /\ Sound(hashed)
    BY DEF CoverInv, DevicesCover, DeviceCovers
<1>3. c \in Content /\ Windowed(c)
    BY <1>1, SerializeType
<1>4. Grounded(c, hashed)
    <2> HIDE DEF o
    <2> QED BY <1>1, <1>2, SerializeAbove
<1>5. m \in Hash(c)
    OBVIOUS
<1> HIDE DEF c
<1> QED BY <1>1, <1>2, <1>3, <1>4, <1>5, HashSound, HashType DEF c

(* The pushes of one device are what it waits with. *)
AsPushedBy(d, o, rs, known) == \A r \in rs : r.dev = d => SameAsPushed(r, o, known)

(* The invariant, shown device by device. *)
LEMMA CoverByDevice ==
    ASSUME CoverInv, SyncInv', [Next]_vars, NEW d \in Devices,
           \A e \in Devices \ {d} : obj'[e] = obj[e] /\ disk'[e] = disk[e],
           Sound(hashed'),
           DeviceCovers(d, obj'[d], disk'[d], hashed'),
           \A r \in requests' : r \in requests \/ RequestCovers(r, hashed'),
           AsPushedBy(d, obj'[d], requests', hashed'),
           AwaitedBefore(d, requests', requests),
           AllHeld'
    PROVE  CoverInv'
<1>1. hashed \subseteq hashed'
    BY NothingForgotten DEF CoverInv, SyncInv, ReaderInv
<1>2. DevicesCover'
    <2>1. ASSUME NEW e \in Devices PROVE DeviceCovers(e, obj'[e], disk'[e], hashed')
        <3>1. DeviceCovers(e, obj[e], disk[e], hashed')
            BY <1>1, CoverStays DEF CoverInv, DevicesCover
        <3> QED BY <3>1
    <2> QED BY <2>1 DEF DevicesCover
<1>3. RequestsCover'
    <2>1. ASSUME NEW r \in requests' PROVE RequestCovers(r, hashed')
        BY <1>1, CoverStays DEF CoverInv, RequestsCover
    <2> QED BY <2>1 DEF RequestsCover
<1>4. AllAsPushed'
    <2>1. ASSUME NEW r \in requests' PROVE SameAsPushed(r, obj'[r.dev], hashed')
        <3>1. r.dev \in Devices
            BY DEF SyncInv, IInv, TypeOK, Request
        <3>2. CASE r.dev = d
            BY <3>2 DEF AsPushedBy
        <3>3. CASE r.dev # d /\ r.awaited
            <4>1. PICK q \in requests : /\ q.awaited /\ q.dev = r.dev
                                        /\ q.seqno = r.seqno /\ q.put = r.put
                BY <3>3 DEF AwaitedBefore
            <4>2. SameAsPushed(q, obj[r.dev], hashed)
                BY <4>1 DEF CoverInv, AllAsPushed
            <4>3. obj'[r.dev] = obj[r.dev]
                BY <3>1, <3>3
            <4> QED BY <1>1, <4>1, <4>2, <4>3 DEF SameAsPushed
        <3>4. CASE ~r.awaited
            BY <3>4 DEF SameAsPushed
        <3> QED BY <3>2, <3>3, <3>4
    <2> QED BY <2>1 DEF AllAsPushed
<1> QED BY <1>2, <1>3, <1>4 DEF CoverInv

(* One object changes and dumps stay, and the swarm does. *)
LEMMA OneCovers ==
    ASSUME CoverInv, SyncInv', [Next]_vars, NEW d \in Devices, NEW n \in ConfigObject,
           obj' = [obj EXCEPT ![d] = n], disk' = disk, swarm' = swarm, stored' = stored,
           Sound(hashed'),
           Grounded(n.conf, hashed'), d \in Writers => Accountable(n, hashed'),
           \A r \in requests' : r \in requests \/ RequestCovers(r, hashed'),
           AsPushedBy(d, n, requests', hashed'),
           AwaitedBefore(d, requests', requests)
    PROVE  CoverInv'
<1>1. obj'[d] = n /\ \A e \in Devices \ {d} : obj'[e] = obj[e] /\ disk'[e] = disk[e]
    BY DEF CoverInv, SyncInv, IInv, TypeOK
<1>2. hashed \subseteq hashed'
    BY NothingForgotten DEF CoverInv, SyncInv, ReaderInv
<1>3. DeviceCovers(d, n, disk'[d], hashed')
    BY <1>2, CoverStays DEF CoverInv, DevicesCover, DeviceCovers
<1>4. AllHeld'
    BY <1>2, CoverStays DEF CoverInv, AllHeld
<1> QED BY <1>1, <1>3, <1>4, CoverByDevice

(* What a device's own config rests on, before and after more is known. *)
LEMMA OwnCovers ==
    ASSUME CoverInv, [Next]_vars, NEW d \in Devices
    PROVE  /\ hashed \subseteq hashed'
           /\ Grounded(obj[d].conf, hashed') /\ Grounded(disk[d].conf, hashed')
           /\ d \in Writers => /\ Below(obj[d])
                               /\ Accountable(obj[d], hashed')
                               /\ Covered(disk[d].conf, disk[d].old \cup disk[d].curr, hashed')
<1>1. hashed \subseteq hashed'
    BY NothingForgotten DEF CoverInv, SyncInv, ReaderInv
<1>2. DeviceCovers(d, obj[d], disk[d], hashed)
    BY DEF CoverInv, DevicesCover
<1>3. DeviceCovers(d, obj[d], disk[d], hashed')
    BY <1>1, <1>2, CoverStays
<1>4. d \in Writers => Below(obj[d])
    BY DEF CoverInv, SyncInv, OwnBelow
<1> QED BY <1>1, <1>3, <1>4 DEF DeviceCovers

(* A setter: the diffs of the message edited stay within those of the next. *)
LEMMA EditCover ==
    ASSUME Aliens = {}, CoverInv, NEW d \in Devices, NEW k \in Keys,
           NEW v \in Values \cup {Absent}, Edit(d, k, v)
    PROVE  CoverInv'
<1> DEFINE o == obj[d]
<1>0. [Next]_vars
    BY DEF Next
<1>1. SyncInv'
    BY EditSync DEF CoverInv
<1>2. o \in ConfigObject /\ d \in Writers /\ TypeOK
    BY SyncTypes DEF CoverInv, Writers, Edit
<1>3. /\ hashed \subseteq hashed' /\ Grounded(o.conf, hashed')
      /\ Below(o) /\ Accountable(o, hashed')
    BY <1>0, <1>2, OwnCovers
<1>4. PICK mine \in Message :
        /\ o.state # "Dirty" => mine \in hashed' /\ ContentOf(mine) = Serialize(o)
        /\ obj' = [obj EXCEPT ![d] = SetField(o, mine, k, v)]
        /\ Sound(hashed')
    <2>1. CASE o.state = "Dirty"
        <3>1. obj' = [obj EXCEPT ![d] = SetField(o, Hashed(o.conf, 0), k, v)]
              /\ hashed' = hashed
            BY <1>2, <2>1 DEF Edit, TypeOK
        <3>2. Hashed(o.conf, 0) \in Message
            BY <1>2, HashedType DEF ConfigObject
        <3> QED BY <2>1, <3>1, <3>2 DEF CoverInv
    <2>2. CASE o.state # "Dirty"
        <3>1. PICK mine \in Hash(Serialize(o)) :
                    /\ obj' = [obj EXCEPT ![d] = SetField(o, mine, k, v)]
                    /\ hashed' = hashed \cup {mine}
            BY <2>2 DEF Edit
        <3>2. Sound(hashed') /\ WellFormed(mine) /\ ContentOf(mine) = Serialize(o)
            BY <3>1, SerializeSound
        <3> QED BY <3>1, <3>2 DEF WellFormed
    <2> QED BY <2>1, <2>2
<1> DEFINE n == SetField(o, mine, k, v)
<1>5. Grounded(n.conf, hashed') /\ Accountable(n, hashed')
    <2>1. o.state # "Dirty" => mine \in hashed' /\ ContentOf(mine) = Serialize(o)
        BY <1>4
    <2>2. Sound(hashed')
        BY <1>4
    <2> HIDE DEF o
    <2> QED BY <1>2, <1>3, <2>1, <2>2, SetFieldAccountable
<1>6. n \in ConfigObject /\ n.state = "Dirty"
    <2>1. o.state # "Dirty" => mine.seqno = o.conf.seqno
        <3>1. mine.seqno = ContentOf(mine).seqno
            BY DEF ContentOf
        <3> QED BY <1>2, <1>4, <3>1, SerializeType
    <2> HIDE DEF o
    <2>2. n \in ConfigObject
        BY <1>2, <2>1, SetFieldStep DEF GoodStep
    <2>3. n.state = "Dirty"
        BY <1>2, <1>3, <2>1, SetFieldBelow
    <2> QED BY <2>2, <2>3
<1>7. obj' = [obj EXCEPT ![d] = n]
    BY <1>4
<1>8. /\ disk' = disk /\ swarm' = swarm /\ stored' = stored /\ requests' = requests
      /\ Sound(hashed')
    BY <1>4 DEF Edit
<1> HIDE DEF n
<1>9. AsPushedBy(d, n, requests', hashed') /\ AwaitedBefore(d, requests', requests)
    BY <1>6, <1>8 DEF AsPushedBy, SameAsPushed, AwaitedBefore
<1> HIDE DEF o
<1> QED BY <1>0, <1>1, <1>5, <1>6, <1>7, <1>8, <1>9, OneCovers

(* push(): what is sent covers all that is to be deleted with it. *)
LEMMA PushCover ==
    ASSUME CoverInv, NEW d \in Devices, Push(d)
    PROVE  CoverInv'
<1> DEFINE o == obj[d]
           n == AfterPush(o)
<1>0. [Next]_vars
    BY DEF Next
<1>1. SyncInv'
    BY PushSync DEF CoverInv
<1>2. o \in ConfigObject /\ o.conf.seqno \in Nat /\ NeedsPush(o)
    BY SyncTypes DEF CoverInv, Push
<1>3. d \in Writers /\ d \notin Readers
    <2>1. d \notin Readers
        BY <1>2 DEF CoverInv, SyncInv, ReaderInv, NeedsPush
    <2> QED BY <2>1 DEF Writers
<1>4. /\ hashed \subseteq hashed' /\ Grounded(o.conf, hashed')
      /\ Below(o) /\ Accountable(o, hashed')
    BY <1>0, <1>3, OwnCovers
<1>5. PICK mine \in Hash(Serialize(o)) :
        /\ hashed' = hashed \cup {mine}
        /\ requests' = requests \cup
             {[dev |-> d, seqno |-> mine.seqno, put |-> {SeqnoHash(mine)},
               del |-> PushObsoletes(o, d \in Readers),
               answered |-> FALSE, awaited |-> TRUE]}
    BY DEF Push
<1> DEFINE sent == [dev |-> d, seqno |-> mine.seqno, put |-> {SeqnoHash(mine)},
                    del |-> PushObsoletes(o, d \in Readers),
                    answered |-> FALSE, awaited |-> TRUE]
<1>6. Sound(hashed') /\ WellFormed(mine) /\ ContentOf(mine) = Serialize(o)
    BY <1>5, SerializeSound
<1>7. mine \in hashed' /\ mine.seqno = o.conf.seqno
    <2>1. mine.seqno = ContentOf(mine).seqno
        BY DEF ContentOf
    <2> QED BY <1>2, <1>5, <1>6, <2>1, SerializeType
<1>8. RequestCovers(sent, hashed')
    <2>1. sent.del = o.old /\ sent.put = {SeqnoHash(mine)}
        BY <1>3 DEF PushObsoletes
    <2>2. 0 < mine.seqno
        BY <1>2, <1>4, <1>7 DEF Below, NeedsPush
    <2>3. SeqnoHash(mine) \notin o.old
        <3>1. SeqnoHash(mine)[1] = o.conf.seqno
            BY <1>7 DEF SeqnoHash
        <3>2. \A h \in o.old : h[1] < o.conf.seqno
            BY <1>2, <1>4 DEF Below, NeedsPush
        <3> QED BY <1>2, <3>1, <3>2
    <2>4. Covered(ContentOf(mine), o.old, hashed')
        BY <1>4, <1>6 DEF Accountable, Covered
    <2> HIDE DEF sent, o
    <2> QED BY <1>7, <2>1, <2>2, <2>3, <2>4 DEF RequestCovers
<1>9. /\ n \in ConfigObject /\ n.conf.seqno = o.conf.seqno
      /\ Grounded(n.conf, hashed') /\ Accountable(n, hashed')
      /\ Serialize(n) = Serialize(o)
    <2> HIDE DEF o
    <2> QED BY <1>2, <1>4, AfterPushStep, AfterPushAccountable DEF GoodStep
<1>10. /\ obj' = [obj EXCEPT ![d] = n] /\ disk' = disk /\ swarm' = swarm
       /\ stored' = stored /\ requests' = requests \cup {sent}
    BY <1>5 DEF Push
<1> HIDE DEF n
<1>11. SameAsPushed(sent, n, hashed')
    BY <1>6, <1>7, <1>9 DEF SameAsPushed
<1>12. ASSUME NEW r \in requests, r.dev = d
       PROVE  SameAsPushed(r, n, hashed')
    <2>1. o.state = "Dirty" \/ ~r.awaited
        BY <1>12 DEF Push
    <2>2. CASE o.state = "Dirty" /\ r.awaited
        <3>1. PushMatches(r, o, hashed) /\ r.seqno \in Nat
            BY <1>12, SyncTypes DEF CoverInv, SyncInv, AllMatched
        <3>2. r.seqno < o.conf.seqno
            BY <2>2, <3>1 DEF PushMatches
        <3> QED BY <1>2, <1>9, <3>1, <3>2 DEF SameAsPushed
    <2> QED BY <2>1, <2>2 DEF SameAsPushed
<1>13. AsPushedBy(d, n, requests', hashed') /\ AwaitedBefore(d, requests', requests)
    <2>1. AsPushedBy(d, n, requests', hashed')
        <3> HIDE DEF sent
        <3> QED BY <1>10, <1>11, <1>12 DEF AsPushedBy
    <2>2. \A r \in requests' : r \in requests \/ r.dev = d
        BY <1>10
    <2> QED BY <2>1, <2>2 DEF AwaitedBefore
<1>14. \A r \in requests' : r \in requests \/ RequestCovers(r, hashed')
    BY <1>8, <1>10
<1> HIDE DEF o, sent
<1> QED BY <1>0, <1>1, <1>6, <1>9, <1>10, <1>13, <1>14, OneCovers

(* What is held stays so when a request is served: what it deletes is covered  *)
(* by what it stores.                                                       *)
LEMMA HeldOn ==
    ASSUME NEW known, Sound(known), NEW r, RequestCovers(r, known),
           NEW h, NEW ids, StillHeld(h, known, ids) \/ h \in r.put,
           NEW gone, gone \subseteq r.del
    PROVE  StillHeld(h, known, (ids \cup r.put) \ gone)
<1> DEFINE left == (ids \cup r.put) \ gone
<1>1. PICK p \in known : /\ r.put = {SeqnoHash(p)} /\ 0 < p.seqno /\ SeqnoHash(p) \notin r.del
                         /\ Covered(ContentOf(p), r.del, known)
    BY DEF RequestCovers
<1>2. SeqnoHash(p) \in left /\ known \subseteq Message /\ ContentOf(p).seqno \in Nat
    BY <1>1 DEF Sound, ContentOf, Message
<1>3. CASE h \in r.put
    BY <1>1, <1>2, <1>3 DEF StillHeld, Covers
<1>4. CASE StillHeld(h, known, ids)
    <2>1. PICK m, n \in known : /\ SeqnoHash(m) = h /\ 0 < m.seqno
                                /\ SeqnoHash(n) \in ids /\ Covers(ContentOf(n), m)
        BY <1>4 DEF StillHeld
    <2>2. CASE SeqnoHash(n) \in left
        BY <2>1, <2>2 DEF StillHeld
    <2>3. CASE SeqnoHash(n) \notin left
        <3>1. SeqnoHash(n) \in r.del
            BY <2>1, <2>3
        <3>2. PICK x \in known : SeqnoHash(x) = SeqnoHash(n) /\ Covers(ContentOf(p), x)
            BY <1>1, <3>1 DEF Covered
        <3>3. x = n /\ (ContentOf(n) = ContentOf(m) => n = m)
            BY <2>1, <3>2 DEF Sound, Distinct
        <3>4. Covers(ContentOf(p), m)
            BY <1>2, <2>1, <3>2, <3>3, CoversTransitive
        <3> HIDE DEF left
        <3>5. StillHeld(h, known, left)
            BY <1>1, <1>2, <2>1, <3>4 DEF StillHeld
        <3> QED BY <3>5 DEF left
    <2> QED BY <2>2, <2>3
<1> QED BY <1>3, <1>4

(* The swarm serves a request, or one is lost or given up. *)
LEMMA NetworkCover ==
    ASSUME CoverInv, NEW r \in requests, Serve(r) \/ Lose(r) \/ TimeOut(r)
    PROVE  CoverInv'
<1> DEFINE d == r.dev
           o == obj[d]
<1>0. [Next]_vars
    BY DEF Next
<1>1. SyncInv' /\ d \in Devices /\ r \in Request
    BY NetworkSync, SyncTypes DEF CoverInv
<1>2. obj' = obj /\ disk' = disk /\ hashed' = hashed
    BY DEF Serve, Lose, TimeOut
<1>3. \A q \in requests' :
        \/ q \in requests
        \/ \E p \in requests : /\ q.dev = p.dev /\ q.seqno = p.seqno
                               /\ q.put = p.put /\ q.del = p.del
                               /\ q.awaited => p.awaited
    <2>1. /\ [r EXCEPT !.answered = TRUE].dev = r.dev
          /\ [r EXCEPT !.answered = TRUE].seqno = r.seqno
          /\ [r EXCEPT !.answered = TRUE].put = r.put
          /\ [r EXCEPT !.answered = TRUE].del = r.del
          /\ [r EXCEPT !.answered = TRUE].awaited = r.awaited
        BY <1>1 DEF Request
    <2>2. /\ [r EXCEPT !.awaited = FALSE].dev = r.dev
          /\ [r EXCEPT !.awaited = FALSE].seqno = r.seqno
          /\ [r EXCEPT !.awaited = FALSE].put = r.put
          /\ [r EXCEPT !.awaited = FALSE].del = r.del
          /\ [r EXCEPT !.awaited = FALSE].awaited = FALSE
        BY <1>1 DEF Request
    <2>3. \A q \in requests' : \/ q \in requests
                               \/ q = [r EXCEPT !.answered = TRUE]
                               \/ q = [r EXCEPT !.awaited = FALSE]
        BY DEF Serve, Lose, TimeOut
    <2> QED BY <2>1, <2>2, <2>3
<1>4. \A q \in requests' : q \in requests \/ RequestCovers(q, hashed')
    BY <1>2, <1>3 DEF CoverInv, RequestsCover, RequestCovers
<1>5. AsPushedBy(d, obj'[d], requests', hashed')
    <2>1. SUFFICES ASSUME NEW q \in requests', q.dev = d
                   PROVE  SameAsPushed(q, obj[d], hashed)
        BY <1>2 DEF AsPushedBy
    <2>2. PICK p \in requests : /\ q.dev = p.dev /\ q.seqno = p.seqno /\ q.put = p.put
                                /\ q.awaited => p.awaited
        BY <1>3
    <2>3. SameAsPushed(p, obj[d], hashed)
        BY <2>1, <2>2 DEF CoverInv, AllAsPushed
    <2> HIDE DEF d
    <2> QED BY <2>2, <2>3 DEF SameAsPushed
<1>6. AwaitedBefore(d, requests', requests)
    BY <1>3 DEF AwaitedBefore
<1>7. Sound(hashed') /\ DeviceCovers(d, obj'[d], disk'[d], hashed')
    BY <1>1, <1>2 DEF CoverInv, DevicesCover
<1>8. AllHeld'
    <2>1. CASE Serve(r)
        <3> DEFINE gone == IF d \in Readers THEN {} ELSE r.del
        <3>1. swarm' = (swarm \cup r.put) \ gone /\ stored' = stored \cup r.put
            BY <2>1 DEF Serve
        <3>2. gone \subseteq r.del /\ RequestCovers(r, hashed) /\ Sound(hashed)
            BY DEF CoverInv, RequestsCover
        <3> HIDE DEF gone
        <3>3. ASSUME NEW h \in stored' PROVE StillHeld(h, hashed, swarm')
            <4>1. StillHeld(h, hashed, swarm) \/ h \in r.put
                BY <3>1, <3>3 DEF CoverInv, AllHeld
            <4> QED BY <3>1, <3>2, <4>1, HeldOn
        <3> QED BY <1>2, <3>3 DEF AllHeld
    <2>2. CASE Lose(r) \/ TimeOut(r)
        BY <1>2, <2>2 DEF Lose, TimeOut, CoverInv, AllHeld
    <2> QED BY <2>1, <2>2
<1>9. \A e \in Devices \ {d} : obj'[e] = obj[e] /\ disk'[e] = disk[e]
    BY <1>2
<1> HIDE DEF d, o
<1> QED BY <1>0, <1>1, <1>4, <1>5, <1>6, <1>7, <1>8, <1>9, CoverByDevice

(* confirm_pushed(): the hash taken over is that of the very content that was  *)
(* pushed, so it is covered by it.                                          *)
LEMMA ConfirmCover ==
    ASSUME Aliens = {}, CoverInv, NEW r \in requests, Confirm(r)
    PROVE  CoverInv'
<1> DEFINE d == r.dev
           o == obj[d]
           n == ConfirmPushed(o, r.seqno, r.put)
<1>0. [Next]_vars
    BY DEF Next
<1>1. SyncInv'
    BY ConfirmSync DEF CoverInv
<1>2. d \in Devices /\ o \in ConfigObject /\ r \in Request /\ r.answered
    BY SyncTypes DEF CoverInv, Confirm
<1>3. /\ hashed \subseteq hashed' /\ Grounded(o.conf, hashed')
      /\ d \in Writers => Below(o) /\ Accountable(o, hashed')
    BY <1>0, <1>2, OwnCovers
<1>4. /\ obj' = [obj EXCEPT ![d] = n] /\ disk' = disk /\ swarm' = swarm
      /\ stored' = stored /\ hashed' = hashed /\ requests' = requests \ {r}
    BY DEF Confirm
<1>5. /\ n \in ConfigObject /\ n.conf = o.conf
      /\ n = o \/ n.state = "Clean"
    <2>1. n \in ConfigObject
        <3>1. r.put \in SUBSET Storage
            BY <1>2 DEF Request
        <3> QED BY <1>2, <3>1, ConfirmPushedStep DEF GoodStep
    <2>2. n.conf = o.conf /\ (n = o \/ n.state = "Clean")
        <3> HIDE DEF o, d
        <3> QED BY <1>2 DEF ConfirmPushed, SetState, ConfigObject
    <2> QED BY <2>1, <2>2
<1>6. d \in Writers => Accountable(n, hashed')
    <2>1. SUFFICES ASSUME d \in Writers PROVE Accountable(n, hashed')
        OBVIOUS
    <2>2. r.awaited /\ RequestCovers(r, hashed) /\ SameAsPushed(r, o, hashed)
        BY <1>2 DEF CoverInv, SyncInv, PutsKnown, PutKnown, RequestsCover, AllAsPushed
    <2>3. PICK p \in hashed : r.put = {SeqnoHash(p)}
        BY <2>2 DEF RequestCovers
    <2>4. o.state = "Waiting" /\ r.seqno = o.conf.seqno => ContentOf(p) = Serialize(o)
        <3>1. SUFFICES ASSUME o.state = "Waiting", r.seqno = o.conf.seqno
                       PROVE  ContentOf(p) = Serialize(o)
            OBVIOUS
        <3>2. PICK q \in hashed : r.put = {SeqnoHash(q)} /\ ContentOf(q) = Serialize(o)
            BY <2>2, <3>1 DEF SameAsPushed
        <3>3. SeqnoHash(p) = SeqnoHash(q)
            BY <2>3, <3>2
        <3> QED BY <3>2, <3>3 DEF CoverInv, Sound, Distinct
    <2>5. hashed \subseteq Message
        BY DEF CoverInv, Sound
    <2>6. Accountable(ConfirmPushed(o, r.seqno, {SeqnoHash(p)}), hashed')
        <3> HIDE DEF o, d, n
        <3> QED BY <1>2, <1>3, <1>4, <2>1, <2>3, <2>4, <2>5, ConfirmPushedAccountable
    <2> HIDE DEF o, d
    <2> QED BY <2>3, <2>6
<1> HIDE DEF n
<1>7. AsPushedBy(d, n, requests', hashed') /\ AwaitedBefore(d, requests', requests)
    <2>1. \A q \in requests : q.dev = d => SameAsPushed(q, o, hashed)
        BY DEF CoverInv, AllAsPushed
    <2> HIDE DEF o, d
    <2>2. \A q \in requests : q.dev = d => SameAsPushed(q, n, hashed)
        BY <1>5, <2>1 DEF SameAsPushed
    <2> QED BY <1>4, <2>2 DEF AsPushedBy, AwaitedBefore
<1>8. Sound(hashed') /\ Grounded(n.conf, hashed')
    BY <1>3, <1>4, <1>5 DEF CoverInv
<1>9. \A q \in requests' : q \in requests
    BY <1>4
<1> HIDE DEF o, d
<1> QED BY <1>0, <1>1, <1>2, <1>4, <1>5, <1>6, <1>7, <1>8, <1>9, OneCovers

(* What a poll delivers was stored, so it is known and parses to one message   *)
(* of a positive seqno.                                                     *)
LEMMA Delivered ==
    ASSUME CoverInv, NEW batch \in Seq(Readable)
    PROVE  LET in == Received(batch)
           IN  /\ WellFormedConfs(in)
               /\ Legible(in) /\ Numbered(in) /\ KnownIncoming(in, hashed)
               /\ \A i \in DOMAIN in : /\ in[i].hashes = {batch[i]} /\ batch[i] \in stored
                                       /\ in[i].parsed = Parsed({batch[i]})
               /\ DOMAIN in = DOMAIN batch
<1> DEFINE in == Received(batch)
<1>1. WellFormedConfs(in)
    BY SyncTypes, ReceivedType DEF CoverInv
<1>2. \A i \in DOMAIN in : /\ batch[i] \in stored
                           /\ in[i].hashes = {batch[i]} /\ in[i].parsed = Parsed({batch[i]})
    <2>1. Readable \subseteq stored
        BY DEF Readable, CoverInv, SyncInv, ReaderInv
    <2>2. \A i \in DOMAIN in : i \in DOMAIN batch
        BY DEF Received
    <2>3. \A i \in DOMAIN batch : batch[i] \in Readable
        OBVIOUS
    <2> QED BY <2>1, <2>2, <2>3 DEF Received
<1>3. DOMAIN in = DOMAIN batch
    BY DEF Received
<1>4. ASSUME NEW i \in DOMAIN in
      PROVE  /\ in[i].parsed # {} /\ in[i].parsed \subseteq hashed
             /\ \A m \in in[i].parsed : in[i].hashes = {SeqnoHash(m)} /\ m.seqno > 0
    <2>1. StillHeld(batch[i], hashed, swarm)
        BY <1>2 DEF CoverInv, AllHeld
    <2>2. PICK x \in hashed : SeqnoHash(x) = batch[i] /\ 0 < x.seqno
        BY <2>1 DEF StillHeld
    <2>3. in[i].hashes = {batch[i]} /\ in[i].parsed = Parsed({batch[i]})
        BY <1>2
    <2>4. \A m \in Parsed({batch[i]}) : m = x
        BY <2>2 DEF Parsed, CoverInv, Sound, Distinct
    <2> HIDE DEF in
    <2>5. x \in Parsed({batch[i]}) /\ Parsed({batch[i]}) \subseteq hashed
        BY <2>2 DEF Parsed
    <2>6. x.seqno > 0
        BY <2>2 DEF CoverInv, Sound, Message
    <2> QED BY <2>2, <2>3, <2>4, <2>5, <2>6
<1> HIDE DEF in
<1>5. Legible(in) /\ Numbered(in) /\ KnownIncoming(in, hashed)
    BY <1>4 DEF Legible, Numbered, KnownIncoming
<1> QED BY <1>1, <1>2, <1>3, <1>5 DEF in

(* merge(): whatever it marks obsolete is covered by what it goes on with. *)
LEMMA FetchCover ==
    ASSUME Aliens = {}, CoverInv, NEW d \in Devices, NEW batch, [Next]_vars, Fetch(d, batch)
    PROVE  CoverInv'
<1> DEFINE o == obj[d]
           in == Received(batch)
           ro == d \in Readers
<1>1. SyncInv'
    BY FetchSync DEF CoverInv
<1>2. /\ o \in ConfigObject /\ TypeOK /\ SerializedInWindow /\ ro \in BOOLEAN
    BY SyncTypes DEF CoverInv
<1>3. /\ hashed \subseteq hashed' /\ Grounded(o.conf, hashed')
      /\ d \in Writers => Below(o) /\ Accountable(o, hashed')
    BY OwnCovers
<1>4. PICK mine \in Hash(Serialize(o)) :
        /\ obj' = [obj EXCEPT ![d] = MergeIncoming(o, mine, in, ro)]
        /\ hashed' = IF HasOwn(o) THEN hashed \cup {mine} ELSE hashed
    BY DEF Fetch
<1>5. /\ WellFormed(mine) /\ mine.seqno = o.conf.seqno /\ ContentOf(mine) = Serialize(o)
      /\ WellFormedConfs(in) /\ batch \in Seq(Readable)
    BY <1>2, <1>4, SerializeType, HashType, ReceivedType DEF Fetch
<1>6. Sound(hashed')
    <2>1. Sound(hashed \cup {mine}) /\ Sound(hashed)
        BY <1>4, SerializeSound DEF CoverInv
    <2> QED BY <1>4, <2>1
<1>8. Legible(in) /\ Numbered(in) /\ KnownIncoming(in, hashed')
    <2>1. Legible(in) /\ Numbered(in) /\ KnownIncoming(in, hashed)
        BY <1>5, Delivered
    <2> HIDE DEF in
    <2> QED BY <1>3, <2>1 DEF KnownIncoming
<1> DEFINE n == MergeIncoming(o, mine, in, ro)
<1>9. HasOwn(o) => mine \in hashed'
    BY <1>4
<1>10. n \in ConfigObject
    <2> HIDE DEF o, in, ro
    <2> QED BY <1>2, <1>5, MergeIncomingStep DEF GoodStep
<1>11. Grounded(n.conf, hashed')
    <2>1. ro = FALSE => Below(o)
        BY <1>3 DEF Writers
    <2> HIDE DEF o, in, ro
    <2> QED BY <1>2, <1>3, <1>5, <1>6, <1>8, <1>9, <2>1, MergeIncomingGrounded
<1>12. d \in Writers => Accountable(n, hashed')
    <2>1. SUFFICES ASSUME d \in Writers PROVE Accountable(n, hashed')
        OBVIOUS
    <2>2. ro = FALSE
        BY <2>1 DEF Writers
    <2>3. Accountable(MergeIncoming(o, mine, in, FALSE), hashed')
        <3> HIDE DEF o, in
        <3> QED BY <1>2, <1>3, <1>5, <1>6, <1>8, <1>9, <2>1, MergeIncomingAccountable
    <2> HIDE DEF o, in, ro
    <2> QED BY <2>2, <2>3
<1>13. \/ n.state = o.state /\ n.conf = o.conf
       \/ n.state = "Dirty" \/ n.state = "Clean"
    <2> HIDE DEF o, in, ro
    <2> QED BY <1>2, <1>5, <1>8, MergeIncomingCases
<1>14. /\ obj' = [obj EXCEPT ![d] = n] /\ disk' = disk /\ swarm' = swarm
       /\ stored' = stored /\ requests' = requests
    BY <1>4 DEF Fetch
<1> HIDE DEF n
<1>15. AsPushedBy(d, n, requests', hashed') /\ AwaitedBefore(d, requests', requests)
    <2>1. ASSUME NEW r \in requests, r.dev = d PROVE SameAsPushed(r, n, hashed')
        <3>1. SameAsPushed(r, o, hashed)
            BY <2>1 DEF CoverInv, AllAsPushed
        <3> HIDE DEF o
        <3>2. SameAsPushed(r, o, hashed')
            BY <1>3, <3>1, CoverStays
        <3>3. n.state = "Waiting" => Serialize(n) = Serialize(o) /\ o.state = "Waiting"
                                     /\ n.conf = o.conf
            BY <1>13 DEF Serialize
        <3> QED BY <3>2, <3>3 DEF SameAsPushed
    <2> QED BY <1>14, <2>1 DEF AsPushedBy, AwaitedBefore
<1>16. \A r \in requests' : r \in requests
    BY <1>14
<1> HIDE DEF o, in, ro
<1> QED BY <1>1, <1>6, <1>10, <1>11, <1>12, <1>14, <1>15, <1>16, OneCovers

(* dump(): what is written covers what the object covers. *)
LEMMA DumpCover ==
    ASSUME Aliens = {}, CoverInv, NEW d \in Devices, Dump(d)
    PROVE  CoverInv'
<1> DEFINE o == obj[d]
           ro == d \in Readers
           n == AfterDump(o, ro)
           e == MakeDump(o, ro)
<1>0. [Next]_vars
    BY DEF Next
<1>1. SyncInv'
    BY DumpSync DEF CoverInv
<1>2. o \in ConfigObject /\ TypeOK
    BY SyncTypes DEF CoverInv
<1>3. /\ Grounded(o.conf, hashed')
      /\ d \in Writers => Accountable(o, hashed')
    BY <1>0, OwnCovers
<1>4. /\ obj' = [obj EXCEPT ![d] = n] /\ disk' = [disk EXCEPT ![d] = e]
      /\ hashed' = hashed /\ swarm' = swarm /\ stored' = stored /\ requests' = requests
    BY DEF Dump
<1>5. n.conf = o.conf /\ n.state = o.state /\ n.orig = o.orig /\ e.conf = Serialize(o)
    BY <1>2 DEF AfterDump, MakeDump, ConfigObject
<1>6. DeviceCovers(d, n, e, hashed')
    <2>1. Grounded(e.conf, hashed')
        BY <1>2, <1>3, <1>5, SerializeAbove
    <2>2. d \in Writers => /\ Accountable(n, hashed')
                           /\ Covered(e.conf, e.old \cup e.curr, hashed')
        <3> HIDE DEF o, ro
        <3> QED BY <1>2, <1>3, DumpAccountable
    <2> HIDE DEF n, e, o
    <2> QED BY <1>3, <1>5, <2>1, <2>2 DEF DeviceCovers
<1> HIDE DEF n, e
<1>7. /\ obj'[d] = n /\ disk'[d] = e
      /\ \A x \in Devices \ {d} : obj'[x] = obj[x] /\ disk'[x] = disk[x]
    BY <1>2, <1>4 DEF TypeOK
<1>8. AsPushedBy(d, n, requests', hashed') /\ AwaitedBefore(d, requests', requests)
    <2>1. \A r \in requests : r.dev = d => SameAsPushed(r, o, hashed)
        BY DEF CoverInv, AllAsPushed
    <2> HIDE DEF o
    <2>2. Serialize(n) = Serialize(o)
        BY <1>5 DEF Serialize
    <2>3. \A r \in requests : r.dev = d => SameAsPushed(r, n, hashed)
        BY <1>5, <2>1, <2>2 DEF SameAsPushed
    <2> QED BY <1>4, <2>3 DEF AsPushedBy, AwaitedBefore
<1>9. Sound(hashed') /\ AllHeld'
    BY <1>4 DEF CoverInv, AllHeld
<1>10. \A r \in requests' : r \in requests
    BY <1>4
<1> HIDE DEF o, ro
<1> QED BY <1>0, <1>1, <1>6, <1>7, <1>8, <1>9, <1>10, CoverByDevice

(* init(dump): a dirty dump comes back one seqno on, with all that it held. *)
LEMMA RestartCover ==
    ASSUME Aliens = {}, CoverInv, NEW d \in Devices, Restart(d)
    PROVE  CoverInv'
<1> DEFINE e == disk[d]
<1>0. [Next]_vars
    BY DEF Next
<1>1. SyncInv'
    BY RestartSync DEF CoverInv
<1>2. e \in DumpRecord /\ e.conf \in Content /\ Windowed(e.conf) /\ TypeOK
      /\ SerializedInWindow
    <2>1. e \in DumpRecord /\ TypeOK /\ SerializedInWindow
        BY SyncTypes DEF CoverInv
    <2> QED BY <2>1 DEF DumpRecord, SerializedInWindow
<1>3. /\ hashed \subseteq hashed' /\ Grounded(e.conf, hashed')
      /\ d \in Writers => Covered(e.conf, e.old \cup e.curr, hashed')
    BY <1>0, OwnCovers
<1>4. PICK saved \in Hash(e.conf) :
        obj' = [obj EXCEPT ![d] = LoadDump(e, saved)] /\ hashed' = hashed \cup {saved}
    BY DEF Restart
<1>5. saved \in Message /\ Windowed(saved) /\ ContentOf(saved) = e.conf /\ saved \in hashed'
    <2>1. WellFormed(saved) /\ ContentOf(saved) = e.conf
        BY <1>2, <1>4, HashType
    <2> QED BY <1>4, <2>1 DEF WellFormed
<1>6. Sound(hashed')
    <2>1. Grounded(e.conf, hashed) /\ Sound(hashed)
        BY DEF CoverInv, DevicesCover, DeviceCovers
    <2> HIDE DEF e
    <2> QED BY <1>2, <1>4, <2>1, HashSound
<1> DEFINE n == LoadDump(e, saved)
<1>7. Grounded(n.conf, hashed')
    <2>1. Grounded(saved, hashed') /\ hashed' \subseteq Message
        BY <1>5, <1>6 DEF Sound
    <2>2. Grounded(Increment(saved), hashed')
        BY <1>5, <2>1, IncrementAbove
    <2>3. n.conf = Increment(saved) \/ n.conf = e.conf
        BY <1>5 DEF LoadDump
    <2> HIDE DEF n, e
    <2> QED BY <1>3, <2>2, <2>3
<1>8. d \in Writers => Accountable(n, hashed')
    <2> HIDE DEF e
    <2> QED BY <1>2, <1>3, <1>5, <1>6, LoadDumpAccountable
<1>9. /\ obj' = [obj EXCEPT ![d] = n] /\ disk' = disk /\ swarm' = swarm /\ stored' = stored
      /\ requests' = {r \in requests : r.dev # d} \cup
            {[r EXCEPT !.awaited = FALSE] : r \in {q \in requests : q.dev = d /\ ~q.answered}}
    BY <1>4 DEF Restart
<1> HIDE DEF n
<1>10. /\ obj'[d] = n
       /\ \A x \in Devices \ {d} : obj'[x] = obj[x] /\ disk'[x] = disk[x]
    BY <1>2, <1>9 DEF TypeOK
<1>11. \A r \in requests' :
        \/ r \in requests /\ r.dev # d
        \/ r.dev = d /\ ~r.awaited /\ \E q \in requests : r.put = q.put /\ r.del = q.del
    <2>1. \A q \in requests : LET r == [q EXCEPT !.awaited = FALSE]
                              IN  /\ r.dev = q.dev /\ r.awaited = FALSE
                                  /\ r.put = q.put /\ r.del = q.del
        BY SyncTypes DEF CoverInv, Request
    <2>2. SUFFICES ASSUME NEW r \in requests', ~(r \in requests /\ r.dev # d)
                   PROVE  /\ r.dev = d /\ ~r.awaited
                          /\ \E q \in requests : r.put = q.put /\ r.del = q.del
        OBVIOUS
    <2>3. PICK q \in {p \in requests : p.dev = d /\ ~p.answered} :
                r = [q EXCEPT !.awaited = FALSE]
        BY <1>9, <2>2
    <2>4. /\ q \in requests /\ r.dev = d /\ ~r.awaited
          /\ r.put = q.put /\ r.del = q.del
        BY <2>1, <2>3
    <2> QED BY <2>4
<1>12. \A r \in requests' : r \in requests \/ RequestCovers(r, hashed')
    <2>1. \A q \in requests : RequestCovers(q, hashed')
        BY <1>3, CoverStays DEF CoverInv, RequestsCover
    <2>2. \A r, q : r.put = q.put /\ r.del = q.del /\ RequestCovers(q, hashed')
                        => RequestCovers(r, hashed')
        BY DEF RequestCovers
    <2> QED BY <1>11, <2>1, <2>2
<1>13. AsPushedBy(d, n, requests', hashed') /\ AwaitedBefore(d, requests', requests)
    BY <1>11 DEF AsPushedBy, SameAsPushed, AwaitedBefore
<1>14. AllHeld'
    BY <1>3, <1>9, CoverStays DEF CoverInv, AllHeld
<1>15. DeviceCovers(d, n, disk'[d], hashed')
    BY <1>3, <1>7, <1>8, <1>9 DEF DeviceCovers
<1> HIDE DEF e
<1> QED BY <1>0, <1>1, <1>6, <1>10, <1>12, <1>13, <1>14, <1>15, CoverByDevice

(* Every step, when deletes go with pushes. *)
LEMMA CoverStep ==
    ASSUME Aliens = {}, CleanupStates = {}, CoverInv, [Next]_vars
    PROVE  CoverInv'
<1>1. CASE UNCHANGED vars
    <2>1. SyncInv'
        BY SyncStep DEF CoverInv
    <2>2. /\ obj' = obj /\ disk' = disk /\ hashed' = hashed /\ swarm' = swarm
          /\ stored' = stored /\ requests' = requests
        BY <1>1 DEF vars
    <2> QED BY <2>1, <2>2 DEF CoverInv, DevicesCover, RequestsCover, AllAsPushed, AllHeld
<1>2. \A d \in Devices : ~Cleanup(d)
    BY DEF Cleanup
<1>3. CASE Next
    BY <1>2, <1>3, EditCover, PushCover, DumpCover, RestartCover, NetworkCover,
       ConfirmCover, FetchCover DEF Next
<1> QED BY <1>1, <1>3

(* Empty configs cover themselves, and nothing was stored. *)
LEMMA InitCoverInv ==
    ASSUME Aliens = {}, Init
    PROVE  CoverInv
<1> DEFINE e == MakeDump(FreshObject, FALSE)
<1>1. SyncInv
    BY InitSyncInv
<1>2. FreshObject.conf.lagged = {} /\ FreshObject.old = {} /\ FreshObject.curr = {}
    BY DEF FreshObject, EmptyContent
<1>3. e.conf.lagged = {} /\ e.old = {} /\ e.curr = {}
    BY <1>2 DEF MakeDump, Serialize, Window
<1> HIDE DEF e
<1>4. \A d \in Devices : DeviceCovers(d, FreshObject, e, hashed)
    BY <1>2, <1>3 DEF DeviceCovers, Grounded, Accountable, Covered
<1>5. \A d \in Devices : obj[d] = FreshObject /\ disk[d] = e
    BY DEF Init, e
<1>6. hashed = {} /\ requests = {} /\ stored = {}
    BY DEF Init
<1>7. Sound(hashed)
    BY <1>6 DEF Sound, Distinct
<1>8. DevicesCover
    BY <1>4, <1>5 DEF DevicesCover
<1>9. RequestsCover /\ AllAsPushed /\ AllHeld
    BY <1>6 DEF RequestsCover, AllAsPushed, AllHeld
<1> QED BY <1>1, <1>7, <1>8, <1>9 DEF CoverInv

(* The inductive invariant holds throughout. *)
LEMMA CoverAlways ==
    ASSUME Aliens = {}, CleanupStates = {}
    PROVE  Spec => []CoverInv
<1>1. Init => CoverInv
    BY InitCoverInv
<1>2. CoverInv /\ [Next]_vars => CoverInv'
    BY CoverStep
<1> QED BY <1>1, <1>2, PTL DEF Spec

(* push() hands out a message together with the hashes it makes obsolete, and   *)
(* the swarm deletes these: whoever pushes, merges, loses an answer or      *)
(* restarts in between, no change is lost to such deletes.  Every diff that *)
(* a stored message makes or carries is in a message that is still held, or *)
(* is older than the window of one.  The application must delete only what  *)
(* push() returns, not what old_hashes() lists at other times, and every    *)
(* message must parse.                                                      *)
THEOREM NoChangeLostHolds ==
    ASSUME Aliens = {}, CleanupStates = {}
    PROVE  Spec => []NoChangeLost
<1>1. ASSUME CoverInv PROVE NoChangeLost
    <2>1. SUFFICES ASSUME NEW m \in Parsed(stored), NEW e \in Holdings(m)
                   PROVE  \E n \in Held : \/ \E x \in Holdings(n) : SeqnoHash(x) = SeqnoHash(e)
                                          \/ e.seqno + Lag <= n.seqno
        BY DEF NoChangeLost
    <2>2. m \in hashed /\ SeqnoHash(m) \in stored
        BY DEF Parsed
    <2>3. StillHeld(SeqnoHash(m), hashed, swarm)
        BY <1>1, <2>2 DEF CoverInv, AllHeld
    <2>4. PICK w, n \in hashed : /\ SeqnoHash(w) = SeqnoHash(m)
                                 /\ SeqnoHash(n) \in swarm /\ Covers(ContentOf(n), w)
        BY <2>3 DEF StillHeld
    <2>5. w = m /\ (ContentOf(n) = ContentOf(m) => n = m)
        BY <1>1, <2>2, <2>4 DEF CoverInv, Sound, Distinct
    <2>6. n \in Held
        BY <2>4 DEF Held, Parsed
    <2>7. CASE n = m
        BY <2>6, <2>7
    <2>8. CASE Above(ContentOf(n), m)
        <3>1. Accounts(ContentOf(n), e)
            BY <2>8 DEF Above
        <3>2. ContentOf(n).lagged \subseteq Holdings(n) /\ ContentOf(n).seqno = n.seqno
            BY DEF ContentOf, Holdings
        <3> QED BY <2>6, <3>1, <3>2 DEF Accounts
    <2> QED BY <2>4, <2>5, <2>7, <2>8 DEF Covers
<1>2. CoverInv => NoChangeLost
    BY <1>1
<1> QED BY <1>2, CoverAlways, PTL

-----------------------------------------------------------------------------
(***************************************************************************)
(* Devices that have settled agree.                                        *)
(***************************************************************************)

(* A clean config is the empty one, or continues from a stored message whose   *)
(* hash it knows.                                                           *)
Stands(c, curr, known, ids) ==
    IF c.seqno = 0 THEN c.data = EmptyData
    ELSE \E m \in known : SeqnoHash(m) \in curr \cap ids /\ FollowsOn(c, m)

(* So does the config of a device, and the one in its dump. *)
DeviceStands(o, e, known, ids) ==
    /\ o.state = "Clean" => Stands(Serialize(o), o.curr, known, ids)
    /\ e.state = "Clean" => Stands(e.conf, e.curr, known, ids)

WritersStand == \A d \in Writers : DeviceStands(obj[d], disk[d], hashed, stored)

(* The inductive invariant, on top of CoverInv. *)
StandInv == CoverInv /\ WritersStand

(* What stands still does when more is known and stored. *)
LEMMA StandsStay ==
    ASSUME NEW known, NEW known2, known \subseteq known2, NEW ids, NEW ids2, ids \subseteq ids2
    PROVE  /\ \A c, curr : Stands(c, curr, known, ids) => Stands(c, curr, known2, ids2)
           /\ \A o, e : DeviceStands(o, e, known, ids) => DeviceStands(o, e, known2, ids2)
<1>1. \A c, curr : Stands(c, curr, known, ids) => Stands(c, curr, known2, ids2)
    BY DEF Stands
<1> QED BY <1>1 DEF DeviceStands

(* The invariant, shown for the one device that changes. *)
LEMMA StandByDevice ==
    ASSUME StandInv, CoverInv', [Next]_vars, NEW d \in Devices,
           \A e \in Devices \ {d} : obj'[e] = obj[e] /\ disk'[e] = disk[e],
           d \in Writers => DeviceStands(obj'[d], disk'[d], hashed', stored')
    PROVE  StandInv'
<1>1. hashed \subseteq hashed' /\ stored \subseteq stored'
    BY NothingForgotten DEF StandInv, CoverInv, SyncInv, ReaderInv
<1>2. ASSUME NEW e \in Writers PROVE DeviceStands(obj'[e], disk'[e], hashed', stored')
    <2>1. DeviceStands(obj[e], disk[e], hashed', stored')
        BY <1>1, StandsStay DEF StandInv, WritersStand
    <2>2. e \in Devices
        BY DEF Writers
    <2> QED BY <2>1, <2>2
<1>3. WritersStand'
    BY <1>2 DEF WritersStand, Writers
<1> QED BY <1>3 DEF StandInv

(* One object changes and dumps stay. *)
LEMMA OneStands ==
    ASSUME StandInv, CoverInv', [Next]_vars, NEW d \in Devices, NEW n,
           obj' = [obj EXCEPT ![d] = n], disk' = disk,
           d \in Writers /\ n.state = "Clean" => Stands(Serialize(n), n.curr, hashed', stored')
    PROVE  StandInv'
<1>1. obj'[d] = n /\ \A e \in Devices \ {d} : obj'[e] = obj[e] /\ disk'[e] = disk[e]
    BY DEF StandInv, CoverInv, SyncInv, IInv, TypeOK
<1>2. hashed \subseteq hashed' /\ stored \subseteq stored'
    BY NothingForgotten DEF StandInv, CoverInv, SyncInv, ReaderInv
<1>3. d \in Writers => DeviceStands(n, disk'[d], hashed', stored')
    <2>1. d \in Writers => DeviceStands(obj[d], disk[d], hashed', stored')
        BY <1>2, StandsStay DEF StandInv, WritersStand
    <2> QED BY <2>1 DEF DeviceStands
<1> QED BY <1>1, <1>3, StandByDevice

(* Setters and push() leave no clean config behind. *)
LEMMA EditStand ==
    ASSUME Aliens = {}, StandInv, NEW d \in Devices, NEW k \in Keys,
           NEW v \in Values \cup {Absent}, Edit(d, k, v)
    PROVE  StandInv'
<1>0. [Next]_vars
    BY DEF Next
<1>1. CoverInv' /\ CoverInv
    BY EditCover DEF StandInv
<1>2. PICK m : obj' = [obj EXCEPT ![d] = SetField(obj[d], m, k, v)]
    <2>1. obj \in [Devices -> ConfigObject]
        BY <1>1 DEF CoverInv, SyncInv, IInv, TypeOK
    <2> QED BY <2>1 DEF Edit
<1> DEFINE n == SetField(obj[d], m, k, v)
           t == MakeDirty(obj[d], m)
<1>3. n.state # "Clean"
    <2>1. obj[d] \in ConfigObject
        BY <1>1, SyncTypes DEF CoverInv
    <2>2. t.state = "Dirty"
        BY <2>1 DEF MakeDirty, SetState, ConfigObject
    <2>3. n.state = t.state
        BY DEF SetField
    <2> HIDE DEF n, t
    <2> QED BY <2>2, <2>3
<1>4. disk' = disk /\ obj' = [obj EXCEPT ![d] = n]
    BY <1>2 DEF Edit
<1> HIDE DEF n
<1> QED BY <1>0, <1>1, <1>3, <1>4, OneStands

(* push() *)
LEMMA PushStand ==
    ASSUME StandInv, NEW d \in Devices, Push(d)
    PROVE  StandInv'
<1> DEFINE n == AfterPush(obj[d])
<1>0. [Next]_vars
    BY DEF Next
<1>1. CoverInv' /\ CoverInv
    BY PushCover DEF StandInv
<1>2. obj[d] \in ConfigObject /\ NeedsPush(obj[d])
    BY <1>1, SyncTypes DEF CoverInv, Push
<1>3. n.state # "Clean"
    <2> DEFINE sent == [obj[d] EXCEPT !.conf = [@ EXCEPT !.diff = Serialize(obj[d]).diff],
                                      !.old = {}]
    <2>1. sent.state = obj[d].state
        BY <1>2 DEF ConfigObject
    <2>2. SetState(sent, "Waiting").state = "Waiting"
        BY <1>2 DEF ConfigObject, SetState
    <2>3. n = IF obj[d].state = "Dirty" THEN SetState(sent, "Waiting") ELSE sent
        BY DEF AfterPush
    <2> HIDE DEF n, sent
    <2> QED BY <1>2, <2>1, <2>2, <2>3 DEF NeedsPush
<1>4. disk' = disk /\ obj' = [obj EXCEPT ![d] = n]
    BY DEF Push
<1> HIDE DEF n
<1> QED BY <1>0, <1>1, <1>3, <1>4, OneStands

(* The swarm and the network leave objects and dumps alone. *)
LEMMA NetworkStand ==
    ASSUME StandInv, NEW r \in requests, Serve(r) \/ Lose(r) \/ TimeOut(r)
    PROVE  StandInv'
<1>0. [Next]_vars
    BY DEF Next
<1>1. CoverInv' /\ CoverInv
    BY NetworkCover DEF StandInv
<1>2. hashed \subseteq hashed' /\ stored \subseteq stored'
    BY <1>0, <1>1, NothingForgotten DEF CoverInv, SyncInv, ReaderInv
<1>3. obj' = obj /\ disk' = disk
    BY DEF Serve, Lose, TimeOut
<1>4. \A d \in Writers : DeviceStands(obj'[d], disk'[d], hashed', stored')
    BY <1>2, <1>3, StandsStay DEF StandInv, WritersStand
<1>5. WritersStand'
    BY <1>4 DEF WritersStand, Writers
<1> QED BY <1>1, <1>5 DEF StandInv

(* confirm_pushed(): the config is the very message that was stored. *)
LEMMA ConfirmStand ==
    ASSUME Aliens = {}, StandInv, NEW r \in requests, Confirm(r)
    PROVE  StandInv'
<1> DEFINE d == r.dev
           o == obj[d]
           n == ConfirmPushed(o, r.seqno, r.put)
<1>0. [Next]_vars
    BY DEF Next
<1>1. CoverInv' /\ CoverInv
    BY ConfirmCover DEF StandInv
<1>2. d \in Devices /\ o \in ConfigObject /\ r.answered /\ o.conf.seqno \in Nat
    BY <1>1, SyncTypes DEF CoverInv, Confirm
<1>3. /\ obj' = [obj EXCEPT ![d] = n] /\ disk' = disk
      /\ hashed' = hashed /\ stored' = stored
    BY DEF Confirm
<1>4. r.awaited /\ r.put \subseteq stored /\ SameAsPushed(r, o, hashed)
    BY <1>1, <1>2 DEF CoverInv, SyncInv, PutsKnown, PutKnown, AllAsPushed
<1>5. ASSUME d \in Writers, n.state = "Clean"
      PROVE  Stands(Serialize(n), n.curr, hashed', stored')
    <2>1. CASE o.state = "Waiting" /\ r.seqno = o.conf.seqno
        <3>1. PICK p \in hashed : r.put = {SeqnoHash(p)} /\ ContentOf(p) = Serialize(o)
            BY <1>4, <2>1 DEF SameAsPushed
        <3>2. /\ n.state = "Clean" /\ n.conf = o.conf /\ n.curr = r.put
            <4>1. n = [SetState(o, "Clean") EXCEPT !.curr = r.put]
                BY <2>1 DEF ConfirmPushed
            <4>2. SetState(o, "Clean") \in ConfigObject /\ SetState(o, "Clean").state = "Clean"
                  /\ SetState(o, "Clean").conf = o.conf
                <5>1. SetState(o, "Clean") \in ConfigObject /\ SetState(o, "Clean").state = "Clean"
                    <6> HIDE DEF o
                    <6> QED BY <1>2, SetStateType DEF States
                <5>2. SetState(o, "Clean").conf = o.conf
                    <6> HIDE DEF o
                    <6> QED BY <1>2 DEF SetState, ConfigObject
                <5> QED BY <5>1, <5>2
            <4> DEFINE t == SetState(o, "Clean")
            <4> HIDE DEF n, o, t
            <4> QED BY <4>1, <4>2 DEF ConfigObject, t
        <3> HIDE DEF n
        <3>3. Serialize(n) = ContentOf(p)
            BY <2>1, <3>1, <3>2 DEF Serialize
        <3>4. FollowsOn(Serialize(n), p)
            BY <3>3 DEF FollowsOn, ContentOf
        <3>5. Serialize(n).seqno # 0
            <4>1. Below(o)
                BY <1>1, <1>5 DEF CoverInv, SyncInv, OwnBelow
            <4>2. Serialize(n).seqno = o.conf.seqno
                BY <3>2 DEF Serialize
            <4> HIDE DEF o
            <4> QED BY <1>2, <2>1, <4>1, <4>2 DEF Below
        <3> QED BY <1>3, <1>4, <3>1, <3>2, <3>4, <3>5 DEF Stands
    <2>2. CASE ~(o.state = "Waiting" /\ r.seqno = o.conf.seqno)
        <3>1. n = o
            BY <2>2 DEF ConfirmPushed
        <3>2. DeviceStands(o, disk[d], hashed, stored)
            BY <1>5 DEF StandInv, WritersStand
        <3> HIDE DEF n, o
        <3> QED BY <1>3, <1>5, <3>1, <3>2 DEF DeviceStands
    <2> QED BY <2>1, <2>2
<1> HIDE DEF n, o, d
<1> QED BY <1>0, <1>1, <1>2, <1>3, <1>5, OneStands

(* merge(): a config that ends up clean is the one it was, or continues from a  *)
(* message that was delivered.                                              *)
LEMMA FetchStand ==
    ASSUME Aliens = {}, StandInv, NEW d \in Devices, NEW batch, [Next]_vars, Fetch(d, batch)
    PROVE  StandInv'
<1> DEFINE o == obj[d]
           in == Received(batch)
           ro == d \in Readers
<1>1. CoverInv /\ CoverInv'
    BY FetchCover DEF StandInv
<1>2. o \in ConfigObject /\ TypeOK /\ SerializedInWindow
    BY <1>1, SyncTypes DEF CoverInv
<1>3. PICK mine \in Hash(Serialize(o)) :
        /\ obj' = [obj EXCEPT ![d] = MergeIncoming(o, mine, in, ro)]
        /\ disk' = disk /\ stored' = stored
    BY DEF Fetch
<1>4. WellFormed(mine) /\ mine.seqno = o.conf.seqno /\ batch \in Seq(Readable)
    BY <1>2, <1>3, SerializeType, HashType DEF Fetch
<1>5. hashed \subseteq hashed'
    BY <1>1, NothingForgotten DEF CoverInv, SyncInv, ReaderInv
<1>6. /\ WellFormedConfs(in) /\ Legible(in)
      /\ \A i \in DOMAIN in : /\ in[i].hashes = {batch[i]} /\ batch[i] \in stored
                              /\ in[i].parsed = Parsed({batch[i]})
    BY <1>1, <1>4, Delivered
<1> DEFINE n == MergeIncoming(o, mine, in, ro)
<1>7. ASSUME d \in Writers, n.state = "Clean"
      PROVE  Stands(Serialize(n), n.curr, hashed', stored')
    <2> DEFINE a == MergeIncoming(o, mine, in, FALSE)
    <2>1. ro = FALSE /\ Below(o)
        BY <1>1, <1>7 DEF Writers, CoverInv, SyncInv, OwnBelow
    <2>2. \/ a.state = o.state /\ a.conf = o.conf /\ a.curr = o.curr
          \/ a.state = "Dirty"
          \/ /\ a.state = "Clean" /\ a.conf.seqno > o.conf.seqno
             /\ \E j \in DOMAIN in : \E m \in in[j].parsed :
                   a.curr = in[j].hashes /\ FollowsOn(Serialize(a), m)
        <3> HIDE DEF o, in
        <3> QED BY <1>2, <1>4, <1>6, <2>1, MergeIncomingFollows
    <2>3. n = a
        <3> HIDE DEF o, in, ro
        <3> QED BY <2>1
    <2> HIDE DEF n, a
    <2>4. CASE a.state = o.state /\ a.conf = o.conf /\ a.curr = o.curr
        <3>1. Stands(Serialize(o), o.curr, hashed', stored')
            <4>1. DeviceStands(o, disk[d], hashed, stored)
                BY <1>7 DEF StandInv, WritersStand
            <4>2. DeviceStands(o, disk[d], hashed', stored')
                BY <1>3, <1>5, <4>1, StandsStay
            <4> HIDE DEF o
            <4> QED BY <1>7, <2>3, <2>4, <4>2 DEF DeviceStands
        <3>2. Serialize(n) = Serialize(o)
            <4> HIDE DEF o
            <4> QED BY <1>7, <2>3, <2>4 DEF Serialize
        <3> HIDE DEF o
        <3> QED BY <2>3, <2>4, <3>1, <3>2
    <2>5. CASE /\ a.state = "Clean" /\ a.conf.seqno > o.conf.seqno
               /\ \E j \in DOMAIN in : \E m \in in[j].parsed :
                     a.curr = in[j].hashes /\ FollowsOn(Serialize(a), m)
        <3>1. PICK j \in DOMAIN in :
                \E m \in in[j].parsed : a.curr = in[j].hashes /\ FollowsOn(Serialize(a), m)
            BY <2>5
        <3>2. PICK m \in in[j].parsed : a.curr = in[j].hashes /\ FollowsOn(Serialize(a), m)
            BY <3>1
        <3>3. m \in hashed' /\ SeqnoHash(m) \in a.curr \cap stored'
            <4> HIDE DEF in
            <4> QED BY <1>3, <1>5, <1>6, <3>1, <3>2 DEF Parsed
        <3>4. Serialize(n).seqno # 0
            <4>1. Serialize(n).seqno = n.conf.seqno
                BY DEF Serialize
            <4>2. o.conf.seqno \in Nat
                BY <1>1, SyncTypes DEF CoverInv
            <4>3. a.conf.seqno \in Nat
                <5>1. a \in ConfigObject
                    <6>1. a = MergeIncoming(o, mine, in, FALSE) /\ Below(o)
                        BY <2>1 DEF a
                    <6> HIDE DEF o, in
                    <6> QED BY <1>2, <1>4, <1>6, <6>1, MergeIncomingStep DEF GoodStep
                <5> QED BY <5>1 DEF ConfigObject, Content
            <4> HIDE DEF o
            <4> QED BY <2>3, <2>5, <4>1, <4>2, <4>3
        <3> HIDE DEF in, o
        <3> QED BY <2>3, <3>2, <3>3, <3>4 DEF Stands
    <2>6. a.state # "Dirty"
        BY <1>7, <2>3
    <2> QED BY <2>2, <2>4, <2>5, <2>6
<1> HIDE DEF n
<1>8. obj' = [obj EXCEPT ![d] = n] /\ disk' = disk
    BY <1>3 DEF n
<1> HIDE DEF o, in, ro
<1> QED BY <1>1, <1>7, <1>8, OneStands

(* dump(): what is written is what the object serialises. *)
LEMMA DumpStand ==
    ASSUME Aliens = {}, StandInv, NEW d \in Devices, Dump(d)
    PROVE  StandInv'
<1> DEFINE o == obj[d]
           ro == d \in Readers
           n == AfterDump(o, ro)
           e == MakeDump(o, ro)
<1>0. [Next]_vars
    BY DEF Next
<1>1. CoverInv /\ CoverInv'
    BY DumpCover DEF StandInv
<1>2. o \in ConfigObject /\ TypeOK
    BY <1>1, SyncTypes DEF CoverInv
<1>3. /\ obj' = [obj EXCEPT ![d] = n] /\ disk' = [disk EXCEPT ![d] = e]
      /\ hashed' = hashed /\ stored' = stored
    BY DEF Dump
<1>4. /\ n.conf = o.conf /\ n.state = o.state /\ n.orig = o.orig /\ n.curr = o.curr
      /\ e.conf = Serialize(o) /\ e.state = o.state /\ e.curr = o.curr
    BY <1>2 DEF AfterDump, MakeDump, ConfigObject
<1> HIDE DEF n, e
<1>5. /\ obj'[d] = n /\ disk'[d] = e
      /\ \A x \in Devices \ {d} : obj'[x] = obj[x] /\ disk'[x] = disk[x]
    BY <1>2, <1>3 DEF TypeOK
<1>6. Serialize(n) = Serialize(o)
    <2> HIDE DEF o
    <2> QED BY <1>4 DEF Serialize
<1>7. d \in Writers => DeviceStands(n, e, hashed', stored')
    <2>1. d \in Writers => DeviceStands(o, disk[d], hashed, stored)
        BY DEF StandInv, WritersStand
    <2> HIDE DEF o
    <2> QED BY <1>3, <1>4, <1>6, <2>1 DEF DeviceStands
<1> HIDE DEF o, ro
<1> QED BY <1>0, <1>1, <1>5, <1>7, StandByDevice

(* init(dump): a clean dump comes back as it was written. *)
LEMMA RestartStand ==
    ASSUME Aliens = {}, StandInv, NEW d \in Devices, Restart(d)
    PROVE  StandInv'
<1> DEFINE e == disk[d]
<1>0. [Next]_vars
    BY DEF Next
<1>1. CoverInv /\ CoverInv'
    BY RestartCover DEF StandInv
<1>2. /\ e \in DumpRecord /\ e.conf \in Content /\ Windowed(e.conf)
      /\ TypeOK /\ SerializedInWindow
    <2>1. e \in DumpRecord /\ TypeOK /\ SerializedInWindow
        BY <1>1, SyncTypes DEF CoverInv
    <2> QED BY <2>1 DEF DumpRecord, SerializedInWindow
<1>3. hashed \subseteq hashed'
    BY <1>0, <1>1, NothingForgotten DEF CoverInv, SyncInv, ReaderInv
<1>4. PICK saved \in Hash(e.conf) : obj' = [obj EXCEPT ![d] = LoadDump(e, saved)]
    BY DEF Restart
<1>5. saved \in Message /\ Windowed(saved) /\ ContentOf(saved) = e.conf
    <2>1. WellFormed(saved) /\ ContentOf(saved) = e.conf
        BY <1>2, <1>4, HashType
    <2> QED BY <2>1 DEF WellFormed
<1>6. disk' = disk /\ stored' = stored
    BY DEF Restart
<1> DEFINE n == LoadDump(e, saved)
<1>7. ASSUME d \in Writers, n.state = "Clean"
      PROVE  Stands(Serialize(n), n.curr, hashed', stored')
    <2>1. n.state = e.state /\ n.curr = e.curr
        BY DEF LoadDump
    <2>2. e.state = "Clean" => n.conf = e.conf
        BY <1>5 DEF LoadDump
    <2>3. DeviceStands(obj[d], e, hashed', stored')
        <3>1. DeviceStands(obj[d], e, hashed, stored)
            BY <1>7 DEF StandInv, WritersStand
        <3> HIDE DEF e
        <3> QED BY <1>3, <1>6, <3>1, StandsStay
    <2> HIDE DEF n, e
    <2>4. Serialize(n) = e.conf
        BY <1>5, <1>7, <2>1, <2>2, SerializeParsed
    <2> QED BY <1>7, <2>1, <2>3, <2>4 DEF DeviceStands
<1>8. obj' = [obj EXCEPT ![d] = n]
    BY <1>4
<1> HIDE DEF n, e
<1> QED BY <1>0, <1>1, <1>6, <1>7, <1>8, OneStands

(* Every step, when deletes go with pushes. *)
LEMMA StandStep ==
    ASSUME Aliens = {}, CleanupStates = {}, StandInv, [Next]_vars
    PROVE  StandInv'
<1>1. CASE UNCHANGED vars
    <2>1. CoverInv'
        BY CoverStep DEF StandInv
    <2>2. obj' = obj /\ disk' = disk /\ hashed' = hashed /\ stored' = stored
        BY <1>1 DEF vars
    <2> QED BY <2>1, <2>2 DEF StandInv, WritersStand, Writers
<1>2. \A d \in Devices : ~Cleanup(d)
    BY DEF Cleanup
<1>3. CASE Next
    BY <1>2, <1>3, EditStand, PushStand, DumpStand, RestartStand, NetworkStand,
       ConfirmStand, FetchStand DEF Next
<1> QED BY <1>1, <1>3

(* The empty config stands. *)
LEMMA InitStandInv ==
    ASSUME Aliens = {}, Init
    PROVE  StandInv
<1>1. CoverInv
    BY InitCoverInv
<1> DEFINE e == MakeDump(FreshObject, FALSE)
<1>2. /\ Serialize(FreshObject).seqno = 0 /\ Serialize(FreshObject).data = EmptyData
      /\ e.conf = Serialize(FreshObject)
    BY DEF FreshObject, EmptyContent, Serialize, MakeDump
<1>3. \A d \in Devices : obj[d] = FreshObject /\ disk[d] = e
    BY DEF Init
<1> HIDE DEF e
<1>4. DeviceStands(FreshObject, e, hashed, stored)
    BY <1>2 DEF DeviceStands, Stands
<1>5. WritersStand
    BY <1>3, <1>4 DEF WritersStand, Writers
<1> QED BY <1>1, <1>5 DEF StandInv

(* The inductive invariant holds throughout. *)
LEMMA StandAlways ==
    ASSUME Aliens = {}, CleanupStates = {}
    PROVE  Spec => []StandInv
<1>1. Init => StandInv
    BY InitStandInv
<1>2. StandInv /\ [Next]_vars => StandInv'
    BY StandStep
<1> QED BY <1>1, <1>2, PTL DEF Spec

(* What the settled devices are told: the hash oracle always has a fresh hash   *)
(* (a hash of 32 bytes has enough of them), and a poll can deliver all that *)
(* the swarm holds.                                                         *)
FreshHashes ==
    \A used \in SUBSET Nat : IsFiniteSet(used) => NewHashes(used) \cap (Nat \ used) # {}
DeliversAll ==
    \A S \in SUBSET Storage : IsFiniteSet(S) /\ S # {} =>
        \E batch \in Orders(S) \cap Seq(S) : \A h \in S : \E i \in DOMAIN batch : batch[i] = h

(* So every content has a hash. *)
LEMMA HashExists ==
    ASSUME TypeOK, FreshHashes, NEW c
    PROVE  \E m : m \in Hash(c)
<1> DEFINE known == {m \in hashed : ContentOf(m) = c}
           same == {n \in hashed : n.seqno = c.seqno}
           used == UsedHashes(c.seqno)
<1>1. used \in SUBSET Nat /\ IsFiniteSet(used)
    <2>1. same \in SUBSET hashed /\ hashed \subseteq Message /\ IsFiniteSet(hashed)
        BY DEF TypeOK, FiniteSubsets
    <2>2. IsFiniteSet(same)
        <3> HIDE DEF same
        <3> QED BY <2>1, FS_Subset
    <2> DEFINE f == [m \in same |-> m.hash]
               image == {f[m] : m \in same}
    <2>3. IsFiniteSet(image)
        <3>1. DOMAIN f = same /\ f = [m \in same |-> f[m]]
            OBVIOUS
        <3> HIDE DEF same, f
        <3> QED BY <2>2, <3>1, FiniteImage
    <2>4. used = image
        BY DEF UsedHashes
    <2>5. \A m \in same : m.hash \in Nat
        BY <2>1 DEF Message
    <2> QED BY <2>3, <2>4, <2>5
<1>2. PICK h \in NewHashes(used) : h \in Nat /\ h \notin used
    <2> HIDE DEF used
    <2> QED BY <1>1 DEF FreshHashes
<1>3. CASE known # {}
    BY <1>3 DEF Hash
<1>4. CASE known = {}
    BY <1>2, <1>4 DEF Hash
<1> QED BY <1>3, <1>4

(* What the swarm holds is finite, and was hashed. *)
LEMMA SwarmFinite ==
    ASSUME CoverInv
    PROVE  IsFiniteSet(swarm) /\ swarm \in SUBSET Storage /\ swarm \subseteq Readable
<1> DEFINE f == [m \in hashed |-> SeqnoHash(m)]
           image == {f[m] : m \in hashed}
<1>1. TypeOK /\ swarm \subseteq stored /\ StoredKnown
    BY SyncTypes DEF CoverInv, SyncInv, ReaderInv
<1>2. IsFiniteSet(hashed) /\ swarm \subseteq Storage
    BY <1>1 DEF TypeOK, FiniteSubsets
<1>3. IsFiniteSet(image)
    <2>1. DOMAIN f = hashed /\ f = [m \in hashed |-> f[m]]
        OBVIOUS
    <2> HIDE DEF f
    <2> QED BY <1>2, <2>1, FiniteImage
<1>4. swarm \in SUBSET image
    BY <1>1 DEF StoredKnown
<1> HIDE DEF image
<1>5. IsFiniteSet(swarm)
    BY <1>3, <1>4, FS_Subset
<1> QED BY <1>1, <1>2, <1>5 DEF Readable

(* A settled writer covers all that the swarm holds, if it holds anything. *)
LEMMA SettledCovers ==
    ASSUME Aliens = {}, CoverInv, FreshHashes, DeliversAll,
           NEW d \in Writers, Settled(d), swarm # {}
    PROVE  /\ Serialize(obj[d]).seqno # 0
           /\ \A n \in Held : Covers(Serialize(obj[d]), n)
<1> DEFINE o == obj[d]
<1>1. /\ d \in Devices /\ o \in ConfigObject /\ TypeOK /\ SerializedInWindow
      /\ Below(o) /\ o.state = "Clean" /\ (d \in Readers) = FALSE
    BY SyncTypes DEF CoverInv, SyncInv, OwnBelow, Writers, Settled
<1>2. PICK mine : mine \in Hash(Serialize(o))
    BY <1>1, HashExists
<1>3. /\ WellFormed(mine) /\ ContentOf(mine) = Serialize(o) /\ mine.seqno = o.conf.seqno
      /\ Serialize(o).seqno = o.conf.seqno /\ Sound(hashed \cup {mine})
    BY <1>1, <1>2, SerializeType, HashType, SerializeSound
<1>4. PICK batch \in Orders(swarm) \cap Seq(swarm) :
            \A h \in swarm : \E i \in DOMAIN batch : batch[i] = h
    BY SwarmFinite DEF DeliversAll
<1>5. batch \in Seq(Readable)
    BY <1>4, SwarmFinite
<1> DEFINE in == Received(batch)
           known == hashed \cup {mine}
<1>6. MergeIncoming(o, mine, in, FALSE).conf = o.conf
    <2>1. MergeIncoming(o, mine, in, d \in Readers).conf = o.conf
        BY <1>2, <1>4 DEF Settled
    <2> HIDE DEF o, in
    <2> QED BY <1>1, <2>1
<1>7. /\ WellFormedConfs(in) /\ Legible(in) /\ Numbered(in) /\ KnownIncoming(in, hashed)
      /\ DOMAIN in = DOMAIN batch
      /\ \A i \in DOMAIN in : in[i].parsed = Parsed({batch[i]})
    BY <1>5, Delivered
<1>8. DOMAIN in # {}
    BY <1>4, <1>7
<1>9. KnownIncoming(in, known)
    <2> HIDE DEF in
    <2> QED BY <1>7 DEF KnownIncoming
<1>10. /\ o.conf.seqno # 0
       /\ \A j \in DOMAIN in : \A m \in in[j].parsed : Covers(ContentOf(mine), m)
    <2> HIDE DEF o, in
    <2> QED BY <1>1, <1>3, <1>6, <1>7, <1>8, <1>9, UnchangedCovers
<1>11. ASSUME NEW n \in Held PROVE Covers(Serialize(o), n)
    <2>1. n \in hashed /\ SeqnoHash(n) \in swarm
        BY DEF Held, Parsed
    <2>2. PICK i \in DOMAIN batch : batch[i] = SeqnoHash(n)
        BY <1>4, <2>1
    <2> HIDE DEF in
    <2>3. n \in in[i].parsed
        BY <1>7, <2>1, <2>2 DEF Parsed
    <2> QED BY <1>3, <1>7, <1>10, <2>3
<1> QED BY <1>3, <1>10, <1>11

(* Whatever was edited, pushed, lost, merged and restarted before: once every    *)
(* writer is clean and merge() of all that the swarm holds would change no  *)
(* config, all writers have the same data.  config_merge_logic.md calls *)
(* this an agreeable result of the same messages.  Each clean config        *)
(* continues from a stored message, the swarm holds one that covers it, and *)
(* a config that covers a held message no earlier than its own has its      *)
(* data.  The code has Lag = 5.                                             *)
THEOREM SettledAgreeHolds ==
    ASSUME Aliens = {}, CleanupStates = {}, Lag > 1, FreshHashes, DeliversAll
    PROVE  Spec => []SettledAgree
<1> DEFINE C(d) == Serialize(obj[d])
<1>1. ASSUME StandInv, NEW d \in Writers, Settled(d)
      PROVE  /\ C(d).data = obj[d].conf.data
             /\ Stands(C(d), obj[d].curr, hashed, stored)
             /\ C(d).seqno \in Nat
    <2>1. obj[d] \in ConfigObject /\ obj[d].state = "Clean" /\ obj[d].conf.seqno \in Nat
        BY <1>1, SyncTypes DEF StandInv, CoverInv, Settled, Writers
    <2>2. DeviceStands(obj[d], disk[d], hashed, stored)
        BY <1>1 DEF StandInv, WritersStand
    <2> QED BY <2>1, <2>2, SerializeType DEF DeviceStands
<1>2. ASSUME StandInv, swarm = {}, NEW d \in Writers, Settled(d)
      PROVE  C(d).data = EmptyData
    <2>1. stored = {}
        BY <1>2 DEF StandInv, CoverInv, AllHeld, StillHeld
    <2> QED BY <1>1, <1>2, <2>1 DEF Stands
<1>3. ASSUME StandInv, swarm # {}, NEW d \in Writers, Settled(d)
      PROVE  \E m \in hashed, n \in Held :
                FollowsOn(C(d), m) /\ Covers(ContentOf(n), m)
    <2>1. C(d).seqno # 0
        BY <1>3, SettledCovers DEF StandInv
    <2>2. PICK m \in hashed : SeqnoHash(m) \in stored /\ FollowsOn(C(d), m)
        BY <1>1, <1>3, <2>1 DEF Stands
    <2>3. StillHeld(SeqnoHash(m), hashed, swarm)
        BY <1>3, <2>2 DEF StandInv, CoverInv, AllHeld
    <2>4. PICK w, n \in hashed : /\ SeqnoHash(w) = SeqnoHash(m)
                                 /\ SeqnoHash(n) \in swarm /\ Covers(ContentOf(n), w)
        BY <2>3 DEF StillHeld
    <2>5. w = m
        BY <1>3, <2>4 DEF StandInv, CoverInv, Sound, Distinct
    <2>6. n \in Held
        BY <2>4 DEF Held, Parsed
    <2> QED BY <2>2, <2>4, <2>5, <2>6
<1>4. ASSUME StandInv, swarm # {}, NEW d \in Writers, Settled(d),
             NEW m \in hashed, FollowsOn(C(d), m), NEW n \in Held, m.seqno <= n.seqno
      PROVE  C(d).data = n.data
    <2>1. Covers(C(d), n)
        BY <1>4, SettledCovers DEF StandInv
    <2>2. n \in hashed
        BY DEF Held, Parsed
    <2>3. /\ m \in Message /\ n \in Message /\ Windowed(m)
          /\ SeqnoHash(m) = SeqnoHash(n) => m = n
        BY <1>4, <2>2 DEF StandInv, CoverInv, Sound, Distinct
    <2>4. C(d).seqno \in Nat
        BY <1>1, <1>4
    <2> HIDE DEF C
    <2> QED BY <1>4, <2>1, <2>3, <2>4, FollowsSame
<1>5. ASSUME StandInv, \A d \in Writers : Settled(d), NEW d \in Writers, NEW e \in Writers
      PROVE  C(d).data = C(e).data
    <2>1. CASE swarm = {}
        BY <1>2, <1>5, <2>1
    <2>2. CASE swarm # {}
        <3>1. PICK m \in hashed, n \in Held : FollowsOn(C(d), m) /\ Covers(ContentOf(n), m)
            BY <1>3, <1>5, <2>2
        <3>2. PICK p \in hashed, q \in Held : FollowsOn(C(e), p) /\ Covers(ContentOf(q), p)
            BY <1>3, <1>5, <2>2
        <3>3. \A x, y \in hashed : Covers(ContentOf(y), x) => x.seqno <= y.seqno
            <4>1. \A x \in hashed : x.seqno \in Nat
                BY <1>5 DEF StandInv, CoverInv, Sound, Message
            <4>2. SUFFICES ASSUME NEW x \in hashed, NEW y \in hashed, Covers(ContentOf(y), x)
                           PROVE  x.seqno <= y.seqno
                OBVIOUS
            <4>3. ContentOf(x).seqno = x.seqno /\ ContentOf(y).seqno = y.seqno
                BY DEF ContentOf
            <4>4. ContentOf(x) = ContentOf(y) \/ x.seqno < ContentOf(y).seqno
                BY <4>2 DEF Covers, Above
            <4> HIDE DEF C
            <4>5. x.seqno = y.seqno \/ x.seqno < y.seqno
                BY <4>3, <4>4
            <4>6. x.seqno \in Nat /\ y.seqno \in Nat
                BY <4>1
            <4> QED BY <4>5, <4>6
        <3>4. /\ n \in hashed /\ q \in hashed /\ m.seqno \in Nat /\ n.seqno \in Nat
              /\ p.seqno \in Nat /\ q.seqno \in Nat
            BY <1>5 DEF Held, Parsed, StandInv, CoverInv, Sound, Message
        <3>5. m.seqno <= n.seqno /\ p.seqno <= q.seqno
            BY <3>1, <3>2, <3>3, <3>4
        <3> HIDE DEF C
        <3>6. CASE n.seqno <= q.seqno
            BY <1>4, <1>5, <2>2, <3>1, <3>2, <3>4, <3>5, <3>6
        <3>7. CASE q.seqno <= n.seqno
            BY <1>4, <1>5, <2>2, <3>1, <3>2, <3>4, <3>5, <3>7
        <3> QED BY <3>4, <3>6, <3>7
    <2> QED BY <2>1, <2>2
<1>6. StandInv => SettledAgree
    BY <1>1, <1>5 DEF SettledAgree
<1> QED BY <1>6, StandAlways, PTL
=============================================================================
