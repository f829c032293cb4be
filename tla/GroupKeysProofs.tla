----------------------------- MODULE GroupKeysProofs -----------------------------
(***************************************************************************)
(* The invariants of GroupKeys, for any number of devices, keys, supplements *)
(* and restarts and any expiry time.                                        *)
(***************************************************************************)
EXTENDS GroupKeys, FiniteOrders, FiniteSetTheorems, TLAPS

(* key_info's operators give a strict total order. *)
LEMMA KeyOrder ==
    ASSUME NEW x \in KeyInfo, NEW y \in KeyInfo, NEW z \in KeyInfo
    PROVE  /\ ~Before(x, x)
           /\ Before(x, y) /\ Before(y, z) => Before(x, z)
           /\ Before(x, y) \/ Before(y, x) \/ x = y
<1>1. Rank[x.key] \in Nat /\ Rank[y.key] \in Nat /\ Rank[z.key] \in Nat
    BY RankAssumption DEF KeyInfo
<1>2. Rank[x.key] = Rank[y.key] => x.key = y.key
    BY RankAssumption DEF KeyInfo
<1>3. /\ x.generation = y.generation /\ x.timestamp = y.timestamp /\ x.key = y.key => x = y
    BY DEF KeyInfo
<1> QED BY <1>1, <1>2, <1>3 DEF Before, KeyInfo

(* keys_.back() and keys_.front() exist and are extreme. *)
LEMMA BackIsLast ==
    ASSUME NEW keys \in FiniteSubsets(KeyInfo), keys # {}
    PROVE  /\ Back(keys) \in keys /\ Back(keys) \in KeyInfo
           /\ \A j \in keys : ~Before(Back(keys), j) /\ j.generation <= Back(keys).generation
<1> DEFINE R == {p \in keys \X keys : Before(p[1], p[2])}
<1>1. keys \subseteq KeyInfo /\ IsFiniteSet(keys)
    BY DEF FiniteSubsets
<1>2. \A x \in keys : <<x, x>> \notin R
    BY <1>1, KeyOrder
<1>3. \A x, y, z \in keys : <<x, y>> \in R /\ <<y, z>> \in R => <<x, z>> \in R
    BY <1>1, KeyOrder
<1>4. PICK k \in keys : \A j \in keys : <<k, j>> \notin R
    <2> HIDE DEF R
    <2> QED BY <1>1, <1>2, <1>3, FiniteMaximal
<1>5. Back(keys) \in keys /\ \A j \in keys : ~Before(Back(keys), j)
    BY <1>4 DEF Back
<1> QED BY <1>1, <1>5 DEF Before, KeyInfo

(* keys_.front() exists and has the lowest generation. *)
LEMMA FrontIsFirst ==
    ASSUME NEW keys \in FiniteSubsets(KeyInfo), keys # {}
    PROVE  /\ Front(keys) \in keys /\ Front(keys) \in KeyInfo
           /\ \A j \in keys : Front(keys).generation <= j.generation
<1> DEFINE R == {p \in keys \X keys : Before(p[2], p[1])}
<1>1. keys \subseteq KeyInfo /\ IsFiniteSet(keys)
    BY DEF FiniteSubsets
<1>2. \A x \in keys : <<x, x>> \notin R
    BY <1>1, KeyOrder
<1>3. \A x, y, z \in keys : <<x, y>> \in R /\ <<y, z>> \in R => <<x, z>> \in R
    BY <1>1, KeyOrder
<1>4. PICK k \in keys : \A j \in keys : <<k, j>> \notin R
    <2> HIDE DEF R
    <2> QED BY <1>1, <1>2, <1>3, FiniteMaximal
<1>5. Front(keys) \in keys /\ \A j \in keys : ~Before(j, Front(keys))
    BY <1>4 DEF Front
<1> QED BY <1>1, <1>5 DEF Before, KeyInfo

(* remove_expired() keeps the last key, and drops a key only when a later      *)
(* generation is superseded itself.                                         *)
LEMMA UnexpiredKeys ==
    ASSUME NEW keys \in FiniteSubsets(KeyInfo)
    PROVE  /\ Unexpired(keys) \in FiniteSubsets(KeyInfo)
           /\ Unexpired(keys) \subseteq keys
           /\ keys # {} => Back(keys) \in Unexpired(keys)
           /\ \A k \in keys \ Unexpired(keys) :
                \E a, b \in keys : a.generation > k.generation
                                   /\ a.timestamp + KeyExpiry < b.timestamp
<1>1. Unexpired(keys) \subseteq keys
    BY DEF Unexpired
<1>2. Unexpired(keys) \in FiniteSubsets(KeyInfo)
    BY <1>1, FS_Subset DEF FiniteSubsets
<1>3. ASSUME keys # {} PROVE Back(keys) \in Unexpired(keys)
    <2>1. \A h \in keys : ~(h.generation > Back(keys).generation)
        BY <1>3, BackIsLast DEF FiniteSubsets, KeyInfo
    <2> QED BY <1>3, <2>1, BackIsLast DEF Unexpired, Lapsed
<1>4. ASSUME NEW k \in keys \ Unexpired(keys)
      PROVE  \E a, b \in keys : a.generation > k.generation
                                /\ a.timestamp + KeyExpiry < b.timestamp
    <2>1. PICK h \in keys :
            /\ h.generation > k.generation
            /\ \A j \in keys :
                (j.generation > Front(keys).generation /\ j.generation <= h.generation)
                    => Superseded(keys, j.generation)
        BY <1>4 DEF Unexpired, Lapsed
    <2>2. keys \subseteq KeyInfo
        BY DEF FiniteSubsets
    <2>3. Front(keys).generation <= k.generation /\ Front(keys) \in KeyInfo
        BY <1>4, FrontIsFirst
    <2>4. Superseded(keys, h.generation)
        BY <1>4, <2>1, <2>2, <2>3 DEF KeyInfo
    <2>5. Back(keys) \in keys
        BY <1>4, BackIsLast
    <2> QED BY <2>1, <2>4, <2>5 DEF Superseded
<1> QED BY <1>1, <1>2, <1>3, <1>4

(* A second remove_expired() finds nothing to do: the walk stopped at the last  *)
(* generation it could reach.  So when load_key_message() only records a hash  *)
(* no key goes, which is why it need not hand the lists on there.            *)
LEMMA UnexpiredIdempotent ==
    ASSUME NEW keys \in FiniteSubsets(KeyInfo)
    PROVE  Unexpired(Unexpired(keys)) = Unexpired(keys)
<1> DEFINE rest == Unexpired(keys)
           f == Front(keys)
           walk == {h \in keys : \A j \in keys :
                        (j.generation > f.generation /\ j.generation <= h.generation)
                            => Superseded(keys, j.generation)}
<1>1. /\ rest \in FiniteSubsets(KeyInfo) /\ rest \subseteq keys /\ keys \subseteq KeyInfo
      /\ keys # {} => Back(keys) \in rest
    BY UnexpiredKeys DEF FiniteSubsets
<1>2. \A k \in keys : Lapsed(keys, k) <=> \E h \in walk : h.generation > k.generation
    BY DEF Lapsed
<1>3. SUFFICES ASSUME NEW k \in rest, Lapsed(rest, k) PROVE FALSE
    BY DEF Unexpired
<1>4. /\ f \in keys /\ \A j \in keys : f.generation <= j.generation
      /\ Front(rest) \in rest /\ \A j \in rest : Front(rest).generation <= j.generation
    BY <1>1, <1>3, FrontIsFirst
<1>5. Back(rest) = Back(keys)
    <2>1. /\ Back(keys) \in rest /\ Back(rest) \in rest
          /\ ~Before(Back(keys), Back(rest)) /\ ~Before(Back(rest), Back(keys))
        BY <1>1, <1>3, BackIsLast
    <2> QED BY <1>1, <2>1, KeyOrder
<1>6. \A g : Superseded(rest, g) => Superseded(keys, g)
    BY <1>1, <1>5 DEF Superseded
<1>7. \A j \in keys \ rest : \E h \in walk : h.generation > j.generation
    BY <1>2 DEF Unexpired
<1>8. \A j \in rest, h \in walk : h.generation <= j.generation
    <2>1. \A j \in rest, h \in walk : ~(h.generation > j.generation)
        BY <1>1, <1>2 DEF Unexpired
    <2> QED BY <1>1, <2>1 DEF KeyInfo
<1>9. PICK h \in rest :
        /\ h.generation > k.generation
        /\ \A j \in rest :
            (j.generation > Front(rest).generation /\ j.generation <= h.generation)
                => Superseded(rest, j.generation)
    BY <1>3 DEF Lapsed
<1>10. h \notin walk
    BY <1>8, <1>3, <1>9, <1>1 DEF KeyInfo
<1>11. PICK j \in keys : /\ j.generation > f.generation /\ j.generation <= h.generation
                         /\ ~Superseded(keys, j.generation)
    BY <1>1, <1>9, <1>10
<1>12. j \in rest
    <2>1. SUFFICES ASSUME NEW w \in walk, w.generation > j.generation PROVE FALSE
        BY <1>7
    <2> QED BY <1>1, <1>11, <2>1 DEF KeyInfo
<1>13. j.generation = Front(rest).generation
    <2>1. ~(j.generation > Front(rest).generation)
        BY <1>6, <1>9, <1>11, <1>12
    <2> QED BY <1>1, <1>4, <1>12, <2>1 DEF KeyInfo
<1>14. f \in keys \ rest
    BY <1>1, <1>4, <1>11, <1>13 DEF KeyInfo
<1>15. PICK w \in walk : \A v \in walk : v.generation <= w.generation
    <2> DEFINE R == {p \in walk \X walk : p[1].generation < p[2].generation}
    <2>1. walk # {} /\ IsFiniteSet(walk) /\ walk \subseteq keys
        BY <1>7, <1>14, FS_Subset DEF FiniteSubsets
    <2>2. /\ \A x \in walk : <<x, x>> \notin R
          /\ \A x, y, z \in walk : <<x, y>> \in R /\ <<y, z>> \in R => <<x, z>> \in R
          /\ \A x, y \in walk : <<x, y>> \notin R => y.generation <= x.generation
        <3>1. \A x \in walk : x.generation \in Nat
            BY <1>1, <2>1 DEF KeyInfo
        <3> HIDE DEF walk
        <3> QED BY <3>1
    <2> HIDE DEF walk, R
    <2>3. \E x \in walk : \A y \in walk : <<x, y>> \notin R
        BY <2>1, <2>2, FiniteMaximal
    <2> QED BY <2>2, <2>3
<1>16. w \in rest
    <2>1. \A v \in walk : ~(v.generation > w.generation)
        BY <1>1, <1>15 DEF KeyInfo
    <2> QED BY <1>7, <2>1
<1>17. w.generation = j.generation
    BY <1>1, <1>4, <1>8, <1>12, <1>13, <1>16 DEF KeyInfo
<1>18. Superseded(keys, j.generation)
    BY <1>1, <1>11, <1>17 DEF KeyInfo
<1> QED BY <1>11, <1>18

-----------------------------------------------------------------------------
(* The keys that full messages carry, with the time of their storage. *)
Issued(sw) ==
    {[generation |-> s.msg.generation, timestamp |-> s.at, key |-> s.msg.key] :
        s \in {t \in sw : IsFull(t.msg)}}

(* A key is stored at one time only. *)
StoredOnce(W) == W \subseteq KeyInfo /\ \A x, y \in W : SameKey(x, y) => x = y

(* What holds of the keys of an object or a dump whatever keys W were issued. *)
Sound(r, W) ==
    /\ r.keys \subseteq r.decrypted /\ r.decrypted \subseteq W
    /\ Unexpired(r.keys) = r.keys
    /\ \A k \in r.decrypted : r.keys # {} /\ ~Before(Back(r.keys), k)
    /\ \A k \in r.decrypted \ r.keys :
        \E a, b \in r.decrypted : a.generation > k.generation
                                  /\ a.timestamp + KeyExpiry < b.timestamp
    /\ \A k \in r.keys : \E a \in r.active : a[1] = k.generation /\ Carries(a[2], k)

(* Messages that arrive later disturb none of it. *)
LEMMA SoundMonotone ==
    ASSUME NEW r, NEW V, NEW W, V \subseteq W, Sound(r, V)
    PROVE  Sound(r, W)
BY DEF Sound

(* Dropping expired keys, after new ones were put in, leaves the rest sound:   *)
(* the newest stays and every key that stays keeps its message.              *)
LEMMA RemoveExpiredSound ==
    ASSUME NEW o \in KeysObject, NEW W, W \subseteq KeyInfo,
           o.keys \subseteq o.decrypted, o.decrypted \subseteq W,
           \A k \in o.decrypted : o.keys # {} /\ ~Before(Back(o.keys), k),
           \A k \in o.decrypted \ o.keys :
                \E a, b \in o.decrypted : a.generation > k.generation
                                          /\ a.timestamp + KeyExpiry < b.timestamp,
           \A k \in o.keys : \E a \in o.active : a[1] = k.generation /\ Carries(a[2], k)
    PROVE  /\ RemoveExpired(o) \in KeysObject
           /\ Sound(RemoveExpired(o), W)
           /\ RemoveExpired(o).pending = o.pending
           /\ RemoveExpired(o).needsDump = o.needsDump
           /\ RemoveExpired(o).listed = o.listed
           /\ RemoveExpired(o).keys = Unexpired(o.keys)
<1> DEFINE keys == Unexpired(o.keys)
           active == StillActive(keys, o.active)
           r == RemoveExpired(o)
<1>1. o.keys \in FiniteSubsets(KeyInfo) /\ o.active \subseteq Nat \X Message
    BY DEF KeysObject
<1>2. /\ keys \in FiniteSubsets(KeyInfo) /\ keys \subseteq o.keys
      /\ o.keys # {} => Back(o.keys) \in keys
      /\ \A k \in o.keys \ keys :
            \E a, b \in o.keys : a.generation > k.generation
                                 /\ a.timestamp + KeyExpiry < b.timestamp
    BY <1>1, UnexpiredKeys
<1>3. active \subseteq o.active
    BY DEF StillActive
<1>4. /\ r.keys = keys /\ r.active = active /\ r.pending = o.pending
      /\ r.needsDump = o.needsDump /\ r.listed = o.listed /\ r.decrypted = o.decrypted
      /\ r \in KeysObject
    <2> HIDE DEF keys
    <2> QED BY <1>1, <1>2, <1>3 DEF RemoveExpired, KeysObject, keys
<1>5. ASSUME NEW k \in o.decrypted PROVE keys # {} /\ ~Before(Back(keys), k)
    <2>1. keys # {} /\ o.keys # {} /\ o.keys \subseteq KeyInfo /\ k \in KeyInfo
        BY <1>2, <1>5
    <2>2. Back(keys) \in o.keys /\ Back(o.keys) \in keys /\ Back(o.keys) \in KeyInfo
        BY <1>1, <1>2, <2>1, BackIsLast
    <2>3. ~Before(Back(keys), Back(o.keys)) /\ ~Before(Back(o.keys), Back(keys))
        BY <1>1, <1>2, <2>1, <2>2, BackIsLast
    <2>4. Back(keys) = Back(o.keys)
        BY <2>1, <2>2, <2>3, KeyOrder
    <2> QED BY <1>5, <2>1, <2>4
<1>6. ASSUME NEW k \in o.decrypted \ keys
      PROVE  \E a, b \in o.decrypted : a.generation > k.generation
                                       /\ a.timestamp + KeyExpiry < b.timestamp
    BY <1>2, <1>6
<1>7. ASSUME NEW k \in keys
      PROVE  \E a \in active : a[1] = k.generation /\ Carries(a[2], k)
    <2>1. PICK a \in o.active : a[1] = k.generation /\ Carries(a[2], k)
        BY <1>2, <1>7
    <2>2. Front(keys).generation <= k.generation /\ Front(keys) \in KeyInfo /\ k \in KeyInfo
        BY <1>2, <1>7, FrontIsFirst DEF FiniteSubsets
    <2>3. a \in active
        BY <1>7, <2>1, <2>2 DEF StillActive, KeyInfo
    <2> QED BY <2>1, <2>3
<1>8. Unexpired(keys) = keys
    BY <1>1, UnexpiredIdempotent
<1>9. Sound(r, W)
    <2> HIDE DEF keys, active, r
    <2> QED BY <1>2, <1>4, <1>5, <1>6, <1>7, <1>8 DEF Sound
<1> QED BY <1>4, <1>9

(* insert_key(), whichever way it ends: the key is known, stale or new. *)
LEMMA InsertKeySound ==
    ASSUME NEW o \in KeysObject, NEW W, StoredOnce(W), Sound(o, W),
           NEW m \in Message, NEW new \in W, Carries(m, new)
    PROVE  LET r == InsertKey(o, m, new)
           IN  /\ r \in KeysObject
               /\ Sound(r, W)
               /\ r.pending = o.pending
               /\ r.keys \subseteq o.keys \cup {new}
               /\ ~r.needsDump => ~o.needsDump /\ r.keys = o.keys
<1> DEFINE marked == [o EXCEPT !.active = @ \cup {<<new.generation, m>>},
                               !.decrypted = @ \cup {new}]
           seen == [o EXCEPT !.decrypted = @ \cup {new}]
           grown == [marked EXCEPT !.keys = @ \cup {new}, !.needsDump = TRUE]
           r == InsertKey(o, m, new)
<1>1. /\ o.keys \in FiniteSubsets(KeyInfo) /\ o.keys \subseteq KeyInfo /\ new \in KeyInfo
      /\ W \subseteq KeyInfo /\ new.generation \in Nat
    BY DEF KeysObject, FiniteSubsets, StoredOnce, KeyInfo
<1>2. /\ marked \in KeysObject /\ marked.keys = o.keys /\ marked.pending = o.pending
      /\ marked.needsDump = o.needsDump /\ marked.decrypted = o.decrypted \cup {new}
      /\ marked.active = o.active \cup {<<new.generation, m>>}
    <2>1. o.active \cup {<<new.generation, m>>} \in SUBSET (Nat \X Message)
        BY <1>1 DEF KeysObject
    <2>2. o.decrypted \cup {new} \in SUBSET KeyInfo
        BY <1>1 DEF KeysObject
    <2> QED BY <2>1, <2>2 DEF KeysObject
<1>3. /\ seen \in KeysObject /\ seen.keys = o.keys /\ seen.pending = o.pending
      /\ seen.needsDump = o.needsDump /\ seen.decrypted = o.decrypted \cup {new}
      /\ seen.active = o.active
    BY <1>1 DEF KeysObject
<1>4. /\ o.keys \cup {new} \in FiniteSubsets(KeyInfo)
      /\ grown \in KeysObject /\ grown.keys = o.keys \cup {new} /\ grown.pending = o.pending
      /\ grown.needsDump = TRUE /\ grown.decrypted = o.decrypted \cup {new}
      /\ grown.active = o.active \cup {<<new.generation, m>>}
    <2>1. o.keys \cup {new} \in FiniteSubsets(KeyInfo)
        BY <1>1, FS_AddElement DEF FiniteSubsets
    <2> HIDE DEF marked
    <2> QED BY <1>2, <2>1 DEF KeysObject
<1>5. CASE \E k \in o.keys : SameKey(k, new)
    <2>1. r = marked
        BY <1>5 DEF InsertKey
    <2>2. new \in o.keys
        BY <1>5 DEF Sound, StoredOnce
    <2> HIDE DEF marked, r
    <2>3. Sound(r, W)
        BY <1>2, <2>1, <2>2 DEF Sound
    <2> QED BY <1>2, <2>1, <2>3 DEF r
<1>6. CASE ~(\E k \in o.keys : SameKey(k, new)) /\ Stale(o.keys, new)
    <2>1. r = seen
        BY <1>6 DEF InsertKey
    <2>2. /\ new.generation < Front(o.keys).generation
          /\ Front(o.keys).timestamp + KeyExpiry < Back(o.keys).timestamp
          /\ o.keys # {}
        <3>1. Cardinality(o.keys) >= 2
            BY <1>6 DEF Stale
        <3>2. o.keys # {}
            BY <3>1, FS_EmptySet
        <3> QED BY <1>6, <3>2 DEF Stale
    <2>3. /\ Front(o.keys) \in o.keys /\ Back(o.keys) \in o.keys
          /\ Front(o.keys).generation <= Back(o.keys).generation
        BY <1>1, <2>2, BackIsLast, FrontIsFirst
    <2>4. ~Before(Back(o.keys), new)
        BY <1>1, <2>2, <2>3 DEF Before, KeyInfo
    <2>5. Front(o.keys).generation > new.generation
        BY <1>1, <2>2, <2>3 DEF KeyInfo
    <2> HIDE DEF seen, r
    <2>6. Sound(r, W)
        <3>1. \A k \in r.decrypted : r.keys # {} /\ ~Before(Back(r.keys), k)
            BY <1>3, <2>1, <2>2, <2>4 DEF Sound
        <3>2. \A k \in r.decrypted \ r.keys :
                \E a, b \in r.decrypted : a.generation > k.generation
                                          /\ a.timestamp + KeyExpiry < b.timestamp
            BY <1>3, <2>1, <2>2, <2>3, <2>5 DEF Sound
        <3> QED BY <1>3, <2>1, <3>1, <3>2 DEF Sound
    <2> QED BY <1>3, <2>1, <2>6 DEF r
<1>7. CASE ~(\E k \in o.keys : SameKey(k, new)) /\ ~Stale(o.keys, new)
    <2>1. r = RemoveExpired(grown)
        BY <1>7 DEF InsertKey
    <2> HIDE DEF grown, marked, r
    <2>2. ASSUME NEW k \in grown.decrypted
          PROVE  grown.keys # {} /\ ~Before(Back(grown.keys), k)
        <3>1. /\ Back(grown.keys) \in KeyInfo
              /\ \A j \in grown.keys : ~Before(Back(grown.keys), j)
            BY <1>4, BackIsLast
        <3>2. CASE k = new
            BY <1>4, <3>1, <3>2
        <3>3. CASE k \in o.decrypted
            <4>1. o.keys # {} /\ ~Before(Back(o.keys), k) /\ k \in KeyInfo
                BY <1>1, <3>3 DEF Sound
            <4>2. Back(o.keys) \in KeyInfo /\ ~Before(Back(grown.keys), Back(o.keys))
                BY <1>1, <1>4, <3>1, <4>1, BackIsLast
            <4>3. ~Before(Back(grown.keys), k)
                BY <3>1, <4>1, <4>2, KeyOrder
            <4> QED BY <1>4, <4>3
        <3> QED BY <1>4, <2>2, <3>2, <3>3
    <2>3. /\ grown.keys \subseteq grown.decrypted /\ grown.decrypted \subseteq W
          /\ \A k \in grown.decrypted \ grown.keys :
                \E a, b \in grown.decrypted : a.generation > k.generation
                                              /\ a.timestamp + KeyExpiry < b.timestamp
        BY <1>4 DEF Sound
    <2>4. \A k \in grown.keys : \E a \in grown.active : a[1] = k.generation /\ Carries(a[2], k)
        <3>1. <<new.generation, m>>[1] = new.generation /\ <<new.generation, m>>[2] = m
            OBVIOUS
        <3> QED BY <1>4, <3>1 DEF Sound
    <2>5. /\ r \in KeysObject /\ Sound(r, W) /\ r.pending = grown.pending
          /\ r.needsDump = grown.needsDump /\ r.keys = Unexpired(grown.keys)
        BY <1>1, <1>4, <2>1, <2>2, <2>3, <2>4, RemoveExpiredSound
    <2>6. Unexpired(grown.keys) \subseteq grown.keys
        BY <1>4, UnexpiredKeys
    <2> QED BY <1>4, <2>5, <2>6 DEF r
<1> QED BY <1>5, <1>6, <1>7

(* A message without a key for this device. *)
LEMMA KeepForOthersSound ==
    ASSUME NEW o \in KeysObject, NEW W, StoredOnce(W), Sound(o, W), NEW m \in Message
    PROVE  LET r == KeepForOthers(o, m)
           IN  /\ r \in KeysObject
               /\ Sound(r, W)
               /\ r.pending = o.pending /\ r.keys = o.keys /\ r.listed = o.listed
               /\ r.needsDump
<1> DEFINE kept == [o EXCEPT !.active = @ \cup {<<m.generation, m>>}, !.needsDump = TRUE]
<1>1. m.generation \in Nat
    BY DEF Message, Full, Supplement
<1>2. /\ kept \in KeysObject /\ kept.keys = o.keys /\ kept.pending = o.pending
      /\ kept.needsDump = TRUE /\ kept.decrypted = o.decrypted /\ kept.listed = o.listed
      /\ kept.active = o.active \cup {<<m.generation, m>>}
    <2>1. o.active \cup {<<m.generation, m>>} \in SUBSET (Nat \X Message)
        BY <1>1 DEF KeysObject
    <2> QED BY <2>1 DEF KeysObject
<1>3. KeepForOthers(o, m) = RemoveExpired(kept)
    BY DEF KeepForOthers
<1> HIDE DEF kept
<1>4. W \subseteq KeyInfo
    BY DEF StoredOnce
<1>5. /\ kept.keys \subseteq kept.decrypted /\ kept.decrypted \subseteq W
      /\ \A k \in kept.decrypted : kept.keys # {} /\ ~Before(Back(kept.keys), k)
      /\ \A k \in kept.decrypted \ kept.keys :
            \E a, b \in kept.decrypted : a.generation > k.generation
                                         /\ a.timestamp + KeyExpiry < b.timestamp
      /\ \A k \in kept.keys : \E a \in kept.active : a[1] = k.generation /\ Carries(a[2], k)
    BY <1>2 DEF Sound
<1>6. Unexpired(kept.keys) = o.keys
    BY <1>2 DEF Sound
<1> QED BY <1>2, <1>3, <1>4, <1>5, <1>6, RemoveExpiredSound

(* Handing the key lists on changes nothing else. *)
LEMMA ReplaceKeysSound ==
    ASSUME NEW o \in KeysObject, NEW W, Sound(o, W)
    PROVE  LET r == ReplaceKeys(o)
           IN  /\ r \in KeysObject
               /\ Sound(r, W)
               /\ r.keys = o.keys /\ r.pending = o.pending /\ r.needsDump = o.needsDump
               /\ r.listed = [keys |-> r.keys, pending |-> r.pending]
<1> DEFINE r == ReplaceKeys(o)
<1>1. /\ r \in KeysObject /\ r.keys = o.keys /\ r.pending = o.pending
      /\ r.needsDump = o.needsDump /\ r.active = o.active /\ r.decrypted = o.decrypted
      /\ r.listed = [keys |-> r.keys, pending |-> r.pending]
    BY DEF ReplaceKeys, KeysObject, FiniteSubsets
<1> HIDE DEF r
<1> QED BY <1>1 DEF Sound, r

(* A pending key goes when it, or a later one, has arrived. *)
LEMMA DropPendingSound ==
    ASSUME NEW o \in KeysObject, NEW W, Sound(o, W), NEW new \in KeyInfo
    PROVE  LET r == DropPending(o, new)
           IN  /\ r \in KeysObject
               /\ Sound(r, W)
               /\ r.keys = o.keys
               /\ \A p \in r.pending : p \in o.pending
                                       /\ new.generation <= p.generation /\ ~SameKey(new, p)
               /\ ~r.needsDump => ~o.needsDump /\ r.pending = o.pending
<1> DEFINE r == DropPending(o, new)
           dropped == [o EXCEPT !.pending = {}, !.needsDump = TRUE]
<1>1. /\ dropped \in KeysObject /\ dropped.keys = o.keys /\ dropped.pending = {}
      /\ dropped.needsDump = TRUE /\ dropped.active = o.active
      /\ dropped.decrypted = o.decrypted
    BY DEF KeysObject
<1>2. Sound(dropped, W)
    <2> HIDE DEF dropped
    <2> QED BY <1>1 DEF Sound
<1>3. CASE \E p \in o.pending : new.generation > p.generation \/ SameKey(new, p)
    <2>1. r = dropped
        BY <1>3 DEF DropPending
    <2> HIDE DEF r, dropped
    <2> QED BY <1>1, <1>2, <2>1 DEF r
<1>4. CASE ~(\E p \in o.pending : new.generation > p.generation \/ SameKey(new, p))
    <2>1. r = o
        BY <1>4 DEF DropPending
    <2>2. \A p \in o.pending : p.generation \in Nat /\ new.generation \in Nat
        BY DEF KeysObject, Full, KeyInfo
    <2> HIDE DEF r
    <2> QED BY <1>4, <2>1, <2>2 DEF r
<1> QED BY <1>3, <1>4

-----------------------------------------------------------------------------
(* The two kinds of message are told apart by their fields. *)
LEMMA MessageKinds ==
    /\ \A m \in Full : IsFull(m)
    /\ \A m \in Supplement : ~IsFull(m)
    /\ \A m \in Message : IF IsFull(m) THEN m \in Full ELSE m \in Supplement
<1>1. \A m \in Full : IsFull(m)
    BY DEF Full, IsFull
<1>2. \A m \in Supplement : ~IsFull(m)
    BY DEF Supplement, IsFull
<1> QED BY <1>1, <1>2 DEF Message

(* A pending key is of no earlier generation than, and not among, the keys held. *)
Ahead(r) == \A p \in r.pending, k \in r.keys : k.generation <= p.generation /\ ~SameKey(k, p)

(* What a device may be in the middle of. *)
Loading == [msg : SUBSET Supplement, left : FiniteSubsets(KeyInfo)]

(* All that concerns one device: its object o, the supplement l it is loading,  *)
(* its dump s and whether it is an admin, when the keys W were issued.        *)
DeviceOK(o, l, s, adm, W) ==
    /\ Sound(o, W) /\ Sound(s, W)
    /\ l.left \subseteq W /\ \A m \in l.msg : l.left \subseteq m.keys
    /\ l # Idle => ~adm
    /\ o.pending # {} \/ s.pending # {} => adm
    /\ Ahead(o) /\ Ahead(s)
    /\ ~o.needsDump => s.keys = o.keys /\ s.pending = o.pending
    /\ l = Idle => o.listed = [keys |-> o.keys, pending |-> o.pending]

(* Every message is stored once, and supplements only hold keys of the swarm. *)
SwarmOK(sw) ==
    /\ \A s, t \in sw : s.msg = t.msg => s = t
    /\ \A s \in sw : ~IsFull(s.msg) => s.msg.keys \subseteq Issued(sw)

(* The inductive invariant. *)
IInv ==
    /\ TypeOK
    /\ SwarmOK(swarm)
    /\ \A d \in Devices : DeviceOK(obj[d], loading[d], disk[d], admin[d], Issued(swarm))

(* A key appears in the swarm with one time only. *)
LEMMA IssuedOnce ==
    ASSUME NEW sw, sw \subseteq [msg : Message, at : Nat], SwarmOK(sw)
    PROVE  StoredOnce(Issued(sw))
<1> DEFINE K(s) == [generation |-> s.msg.generation, timestamp |-> s.at, key |-> s.msg.key]
           fulls == {t \in sw : IsFull(t.msg)}
<1>1. \A s \in fulls : s.msg \in Full /\ s.at \in Nat /\ s \in sw
    BY MessageKinds
<1>2. Issued(sw) = {K(s) : s \in fulls}
    BY DEF Issued
<1>3. \A s \in fulls : K(s) \in KeyInfo
    BY <1>1 DEF KeyInfo, Full
<1>4. ASSUME NEW s \in fulls, NEW t \in fulls, SameKey(K(s), K(t)) PROVE K(s) = K(t)
    <2>1. s.msg.generation = t.msg.generation /\ s.msg.key = t.msg.key
        BY <1>4 DEF SameKey
    <2>2. s.msg = t.msg
        BY <1>1, <2>1 DEF Full
    <2> QED BY <1>1, <2>2 DEF SwarmOK
<1> HIDE DEF K, fulls
<1> QED BY <1>2, <1>3, <1>4 DEF StoredOnce

(* The rest of the system is untouched by what happens on one device. *)
LEMMA OneDevice ==
    ASSUME IInv, NEW d \in Devices,
           NEW o \in KeysObject, NEW l \in Loading, NEW s \in DumpRecord, NEW adm \in BOOLEAN,
           obj' = [obj EXCEPT ![d] = o], loading' = [loading EXCEPT ![d] = l],
           disk' = [disk EXCEPT ![d] = s], admin' = [admin EXCEPT ![d] = adm],
           swarm' = swarm, clock' = clock,
           spent' \in [rekeys : Nat, supplements : Nat, dumps : Nat, restarts : Nat],
           DeviceOK(o, l, s, adm, Issued(swarm))
    PROVE  IInv'
<1>1. TypeOK'
    BY DEF IInv, TypeOK, Loading
<1>2. SwarmOK(swarm)'
    BY DEF IInv
<1>3. ASSUME NEW e \in Devices
      PROVE  DeviceOK(obj'[e], loading'[e], disk'[e], admin'[e], Issued(swarm'))
    <2>1. CASE e = d
        BY <2>1 DEF IInv, TypeOK
    <2>2. CASE e # d
        <3>1. /\ obj'[e] = obj[e] /\ loading'[e] = loading[e]
              /\ disk'[e] = disk[e] /\ admin'[e] = admin[e]
            BY <2>2 DEF IInv, TypeOK
        <3> QED BY <3>1 DEF IInv
    <2> QED BY <2>1, <2>2
<1> QED BY <1>1, <1>2, <1>3 DEF IInv

(* A message is stored. *)
LEMMA StoreKeeps ==
    ASSUME IInv, NEW m \in Message, NEW now \in Nat, Store(m, now),
           ~IsFull(m) => m.keys \subseteq Issued(swarm),
           UNCHANGED <<obj, loading, disk, admin>>,
           spent' \in [rekeys : Nat, supplements : Nat, dumps : Nat, restarts : Nat]
    PROVE  IInv'
<1>1. /\ swarm \subseteq swarm'
      /\ \A s \in swarm' : s \in swarm \/ (s = [msg |-> m, at |-> now] /\ \A t \in swarm : t.msg # m)
      /\ clock' \in {clock, now}
    BY DEF Store, IsStored
<1>2. Issued(swarm) \subseteq Issued(swarm')
    BY <1>1 DEF Issued
<1>3. TypeOK'
    BY <1>1 DEF IInv, TypeOK
<1>4. SwarmOK(swarm')
    BY <1>1, <1>2 DEF IInv, SwarmOK
<1>5. ASSUME NEW e \in Devices
      PROVE  DeviceOK(obj[e], loading[e], disk[e], admin[e], Issued(swarm'))
    <2>1. DeviceOK(obj[e], loading[e], disk[e], admin[e], Issued(swarm))
        BY DEF IInv
    <2> QED BY <1>2, <2>1, SoundMonotone DEF DeviceOK
<1> QED BY <1>3, <1>4, <1>5 DEF IInv

(* What the invariant says of one device, and the shape of its unchanged state. *)
LEMMA Here ==
    ASSUME IInv, NEW d \in Devices
    PROVE  /\ DeviceOK(obj[d], loading[d], disk[d], admin[d], Issued(swarm))
           /\ obj[d] \in KeysObject /\ loading[d] \in Loading
           /\ disk[d] \in DumpRecord /\ admin[d] \in BOOLEAN
           /\ obj = [obj EXCEPT ![d] = obj[d]]
           /\ loading = [loading EXCEPT ![d] = loading[d]]
           /\ disk = [disk EXCEPT ![d] = disk[d]]
           /\ admin = [admin EXCEPT ![d] = admin[d]]
           /\ StoredOnce(Issued(swarm))
           /\ spent \in [rekeys : Nat, supplements : Nat, dumps : Nat, restarts : Nat]
<1>1. swarm \subseteq [msg : Message, at : Nat] /\ SwarmOK(swarm)
    BY DEF IInv, TypeOK
<1>2. StoredOnce(Issued(swarm))
    BY <1>1, IssuedOnce
<1>3. DeviceOK(obj[d], loading[d], disk[d], admin[d], Issued(swarm))
    BY DEF IInv
<1> QED BY <1>2, <1>3 DEF IInv, TypeOK, Loading


(* A message with nothing for this device, full or supplement. *)
Keep(d, m) ==
    /\ obj' = [obj EXCEPT ![d] = KeepForOthers(obj[d], m)]
    /\ UNCHANGED <<loading, disk, admin, swarm, clock, spent>>

(* Recording the hash of such a message keeps the invariant. *)
LEMMA KeepForOthersKeeps ==
    ASSUME IInv, NEW d \in Devices, NEW m \in Message, Keep(d, m)
    PROVE  IInv'
<1> DEFINE o == KeepForOthers(obj[d], m)
<1>1. /\ DeviceOK(obj[d], loading[d], disk[d], admin[d], Issued(swarm))
      /\ obj[d] \in KeysObject /\ StoredOnce(Issued(swarm))
    BY Here
<1>2. Sound(obj[d], Issued(swarm))
    BY <1>1 DEF DeviceOK
<1>3. /\ o \in KeysObject /\ Sound(o, Issued(swarm)) /\ o.pending = obj[d].pending
      /\ o.keys = obj[d].keys /\ o.listed = obj[d].listed /\ o.needsDump
    BY <1>1, <1>2, KeepForOthersSound
<1> HIDE DEF o
<1>4. DeviceOK(o, loading[d], disk[d], admin[d], Issued(swarm))
    BY <1>1, <1>3 DEF DeviceOK, Ahead
<1>5. /\ loading' = [loading EXCEPT ![d] = loading[d]]
      /\ disk' = [disk EXCEPT ![d] = disk[d]] /\ admin' = [admin EXCEPT ![d] = admin[d]]
      /\ swarm' = swarm /\ clock' = clock
      /\ spent' \in [rekeys : Nat, supplements : Nat, dumps : Nat, restarts : Nat]
      /\ obj[d] \in KeysObject /\ loading[d] \in Loading /\ disk[d] \in DumpRecord
      /\ admin[d] \in BOOLEAN
    BY Here DEF Keep
<1>6. obj' = [obj EXCEPT ![d] = o]
    BY DEF o, Keep
<1> QED BY <1>3, <1>4, <1>5, <1>6, OneDevice

(* A full message, with a key for this device or not. *)
LEMMA LoadFullKeeps ==
    ASSUME IInv, NEW d \in Devices, NEW s \in swarm, LoadFull(d, s)
    PROVE  IInv'
<1> DEFINE new == [generation |-> s.msg.generation, timestamp |-> s.at, key |-> s.msg.key]
           W == Issued(swarm)
           cleared == DropPending(obj[d], new)
           grown == InsertKey(cleared, s.msg, new)
           o == ReplaceKeys(grown)
<1>1. s.msg \in Message /\ IsFull(s.msg) /\ IsIdle(d)
    BY DEF IInv, TypeOK, LoadFull
<1>2. CASE ~CanOpen(d, s.msg)
    <2>1. Keep(d, s.msg)
        BY <1>2 DEF LoadFull, Keep
    <2> QED BY <1>1, <2>1, KeepForOthersKeeps
<1>3. CASE CanOpen(d, s.msg)
    <2>1. obj' = [obj EXCEPT ![d] = o]
        BY <1>3 DEF LoadFull
    <2>2. new \in W
        BY <1>1 DEF Issued
    <2>3. /\ DeviceOK(obj[d], loading[d], disk[d], admin[d], W)
          /\ obj[d] \in KeysObject /\ StoredOnce(W) /\ Sound(obj[d], W)
        BY Here DEF DeviceOK
    <2>4. new \in KeyInfo
        BY <2>2, <2>3 DEF StoredOnce
    <2>5. Carries(s.msg, new)
        BY <1>1 DEF Carries, SameKey
    <2> HIDE DEF new, W
    <2>6. /\ cleared \in KeysObject /\ Sound(cleared, W) /\ cleared.keys = obj[d].keys
          /\ \A p \in cleared.pending : p \in obj[d].pending
                /\ new.generation <= p.generation /\ ~SameKey(new, p)
          /\ ~cleared.needsDump => ~obj[d].needsDump /\ cleared.pending = obj[d].pending
        BY <2>3, <2>4, DropPendingSound
    <2> HIDE DEF cleared
    <2>7. /\ grown \in KeysObject /\ Sound(grown, W) /\ grown.pending = cleared.pending
          /\ grown.keys \subseteq cleared.keys \cup {new}
          /\ ~grown.needsDump => ~cleared.needsDump /\ grown.keys = cleared.keys
        BY <1>1, <2>2, <2>3, <2>5, <2>6, InsertKeySound
    <2> HIDE DEF grown
    <2>8. /\ o \in KeysObject /\ Sound(o, W)
          /\ o.keys = grown.keys /\ o.pending = grown.pending /\ o.needsDump = grown.needsDump
          /\ o.listed = [keys |-> o.keys, pending |-> o.pending]
        BY <2>7, ReplaceKeysSound
    <2> HIDE DEF o
    <2>9. Ahead(o)
        BY <2>3, <2>6, <2>7, <2>8 DEF DeviceOK, Ahead
    <2>10. DeviceOK(o, loading[d], disk[d], admin[d], W)
        BY <2>3, <2>6, <2>7, <2>8, <2>9 DEF DeviceOK
    <2>11. /\ loading' = [loading EXCEPT ![d] = loading[d]]
           /\ disk' = [disk EXCEPT ![d] = disk[d]] /\ admin' = [admin EXCEPT ![d] = admin[d]]
           /\ swarm' = swarm /\ clock' = clock
           /\ spent' \in [rekeys : Nat, supplements : Nat, dumps : Nat, restarts : Nat]
           /\ obj[d] \in KeysObject /\ loading[d] \in Loading /\ disk[d] \in DumpRecord
           /\ admin[d] \in BOOLEAN
        BY Here DEF LoadFull
    <2> QED BY <2>1, <2>8, <2>10, <2>11, OneDevice DEF W
<1> QED BY <1>2, <1>3

(* A supplement for this device: first it is opened, then its keys go in. *)
LEMMA LoadSupplementKeeps ==
    ASSUME IInv, NEW d \in Devices, NEW s \in swarm, LoadSupplement(d, s)
    PROVE  IInv'
<1> DEFINE l == [msg |-> {s.msg}, left |-> s.msg.keys]
<1>1. s.msg \in Supplement /\ s.msg.keys \subseteq Issued(swarm)
    BY MessageKinds DEF IInv, TypeOK, SwarmOK, LoadSupplement
<1>2. l \in Loading /\ l # Idle
    BY <1>1 DEF Loading, Supplement, Idle
<1>3. ~admin[d]
    BY DEF LoadSupplement, CanOpen
<1>4. DeviceOK(obj[d], l, disk[d], admin[d], Issued(swarm))
    BY <1>1, <1>2, <1>3, Here DEF DeviceOK
<1> HIDE DEF l
<1>5. loading' = [loading EXCEPT ![d] = l]
    BY DEF LoadSupplement, l
<1>6. /\ obj' = [obj EXCEPT ![d] = obj[d]]
      /\ disk' = [disk EXCEPT ![d] = disk[d]] /\ admin' = [admin EXCEPT ![d] = admin[d]]
      /\ swarm' = swarm /\ clock' = clock
      /\ spent' \in [rekeys : Nat, supplements : Nat, dumps : Nat, restarts : Nat]
      /\ obj[d] \in KeysObject /\ loading[d] \in Loading /\ disk[d] \in DumpRecord
      /\ admin[d] \in BOOLEAN
    BY Here DEF LoadSupplement
<1> QED BY <1>2, <1>4, <1>5, <1>6, OneDevice

(* insert_key() of the next key of a supplement, and the lists after the last. *)
LEMMA InsertNextKeeps ==
    ASSUME IInv, NEW d \in Devices, InsertNext(d)
    PROVE  IInv'
<1> DEFINE W == Issued(swarm)
           left == loading[d].left
           new == Front(left)
           rest == left \ {new}
           l == IF rest = {} THEN Idle ELSE [loading[d] EXCEPT !.left = rest]
<1>1. /\ DeviceOK(obj[d], loading[d], disk[d], admin[d], W)
      /\ obj[d] \in KeysObject /\ loading[d] \in Loading /\ StoredOnce(W) /\ Sound(obj[d], W)
    BY Here DEF DeviceOK
<1>2. left \in FiniteSubsets(KeyInfo) /\ left # {} /\ left \subseteq W
    BY <1>1 DEF Loading, InsertNext, DeviceOK
<1>3. new \in left /\ new \in W
    BY <1>2, FrontIsFirst
<1>4. PICK m \in loading[d].msg :
        obj' = [obj EXCEPT ![d] = IF rest = {} THEN ReplaceKeys(InsertKey(obj[d], m, new))
                                  ELSE InsertKey(obj[d], m, new)]
    BY DEF InsertNext
<1>5. m \in Message /\ ~IsFull(m) /\ new \in m.keys
    BY <1>1, <1>3, MessageKinds DEF DeviceOK, Loading, Message
<1>6. Carries(m, new)
    BY <1>5 DEF Carries
<1> DEFINE grown == InsertKey(obj[d], m, new)
           o == IF rest = {} THEN ReplaceKeys(grown) ELSE grown
<1>7. /\ grown \in KeysObject /\ Sound(grown, W) /\ grown.pending = obj[d].pending
      /\ ~grown.needsDump => ~obj[d].needsDump /\ grown.keys = obj[d].keys
    <2> HIDE DEF W, new
    <2> QED BY <1>1, <1>3, <1>5, <1>6, InsertKeySound
<1>8. /\ o \in KeysObject /\ Sound(o, W) /\ o.pending = obj[d].pending
      /\ ~o.needsDump => ~obj[d].needsDump /\ o.keys = obj[d].keys
      /\ rest = {} => o.listed = [keys |-> o.keys, pending |-> o.pending]
    <2> HIDE DEF grown, W, rest
    <2> QED BY <1>7, ReplaceKeysSound
<1>9. /\ l \in Loading /\ l.left \subseteq left
      /\ \A x \in l.msg : x \in loading[d].msg
      /\ l = Idle => rest = {}
    <2>1. rest \in FiniteSubsets(KeyInfo)
        BY <1>2, FS_Subset DEF FiniteSubsets
    <2>2. {} \in FiniteSubsets(KeyInfo)
        BY FS_EmptySet DEF FiniteSubsets
    <2> QED BY <1>1, <2>1, <2>2 DEF Loading, Idle
<1>10. obj[d].pending = {} /\ disk[d].pending = {} /\ ~admin[d]
    <2>1. loading[d] # Idle
        BY <1>2 DEF Idle
    <2> QED BY <1>1, <2>1 DEF DeviceOK
<1>11. obj' = [obj EXCEPT ![d] = o] /\ loading' = [loading EXCEPT ![d] = l]
    BY <1>4 DEF InsertNext
<1>12. l.left \subseteq W /\ \A x \in l.msg : l.left \subseteq x.keys
    BY <1>1, <1>2, <1>9 DEF DeviceOK
<1> HIDE DEF o, l, W, rest, left, new
<1>13. DeviceOK(o, l, disk[d], admin[d], W)
    BY <1>1, <1>8, <1>9, <1>10, <1>12 DEF DeviceOK, Ahead
<1> QED BY <1>8, <1>9, <1>11, <1>13, Here, OneDevice DEF InsertNext, W

(* A key of a generation above all others is issued and waits. *)
LEMMA RekeyKeeps ==
    ASSUME IInv, NEW d \in Devices, NEW list \in MemberLists, Rekey(d, list)
    PROVE  IInv'
<1> DEFINE W == Issued(swarm)
           pend == [generation |-> NextGeneration(obj[d].keys), key |-> list]
           n == NewPending(obj[d], list)
           o == ReplaceKeys(n)
<1>1. /\ DeviceOK(obj[d], loading[d], disk[d], admin[d], W)
      /\ obj[d] \in KeysObject /\ Sound(obj[d], W)
    BY Here DEF DeviceOK
<1>2. obj[d].keys \in FiniteSubsets(KeyInfo)
    BY <1>1 DEF KeysObject
<1>3. /\ NextGeneration(obj[d].keys) \in Nat
      /\ \A k \in obj[d].keys : k.generation < NextGeneration(obj[d].keys)
    <2>1. obj[d].keys \subseteq KeyInfo
        BY <1>2 DEF FiniteSubsets
    <2>2. CASE obj[d].keys = {}
        BY <2>2 DEF NextGeneration
    <2>3. CASE obj[d].keys # {}
        <3>1. /\ Back(obj[d].keys) \in KeyInfo
              /\ \A k \in obj[d].keys : k.generation <= Back(obj[d].keys).generation
            BY <1>2, <2>3, BackIsLast
        <3>2. NextGeneration(obj[d].keys) = Back(obj[d].keys).generation + 1
            BY <2>3 DEF NextGeneration
        <3>3. Back(obj[d].keys).generation \in Nat /\ \A k \in obj[d].keys : k.generation \in Nat
            BY <2>1, <3>1 DEF KeyInfo
        <3> QED BY <3>1, <3>2, <3>3
    <2> QED BY <2>2, <2>3
<1>4. pend \in Full
    BY <1>3, UsersAssumption DEF Full
<1>5. /\ n \in KeysObject /\ n.keys = obj[d].keys /\ n.pending = {pend}
      /\ n.needsDump = TRUE /\ n.active = obj[d].active /\ n.decrypted = obj[d].decrypted
    <2>1. {pend} \in SUBSET Full
        BY <1>4
    <2>2. n = [obj[d] EXCEPT !.pending = {pend}, !.needsDump = TRUE]
        BY DEF NewPending
    <2> HIDE DEF pend
    <2> QED BY <1>1, <2>1, <2>2 DEF KeysObject
<1>6. Sound(n, W)
    <2> HIDE DEF n
    <2> QED BY <1>1, <1>5 DEF Sound
<1>7. /\ o \in KeysObject /\ Sound(o, W)
      /\ o.keys = n.keys /\ o.pending = n.pending /\ o.needsDump = n.needsDump
      /\ o.listed = [keys |-> o.keys, pending |-> o.pending]
    <2> HIDE DEF n, W
    <2> QED BY <1>5, <1>6, ReplaceKeysSound
<1>8. obj' = [obj EXCEPT ![d] = o] /\ admin[d] /\ loading[d] = Idle
    BY DEF Rekey, IsIdle
<1> HIDE DEF o, n
<1>9. Ahead(o)
    <2>1. pend.generation = NextGeneration(obj[d].keys)
        OBVIOUS
    <2>2. \A k \in obj[d].keys : k.generation \in Nat
        BY <1>2 DEF FiniteSubsets, KeyInfo
    <2> HIDE DEF pend
    <2> QED BY <1>3, <1>5, <1>7, <2>1, <2>2 DEF Ahead, SameKey
<1>10. DeviceOK(o, loading[d], disk[d], admin[d], W)
    BY <1>1, <1>5, <1>7, <1>8, <1>9 DEF DeviceOK
<1>11. /\ loading' = [loading EXCEPT ![d] = loading[d]]
       /\ disk' = [disk EXCEPT ![d] = disk[d]] /\ admin' = [admin EXCEPT ![d] = admin[d]]
       /\ swarm' = swarm /\ clock' = clock
       /\ spent' \in [rekeys : Nat, supplements : Nat, dumps : Nat, restarts : Nat]
       /\ loading[d] \in Loading /\ disk[d] \in DumpRecord /\ admin[d] \in BOOLEAN
    BY Here DEF Rekey
<1> QED BY <1>7, <1>8, <1>10, <1>11, OneDevice

(* A supplement is stored: it holds only keys of the swarm. *)
LEMMA KeySupplementKeeps ==
    ASSUME IInv, NEW d \in Devices, NEW u \in Devices, KeySupplement(d, {u})
    PROVE  IInv'
<1> DEFINE m == [generation |-> Back(obj[d].keys).generation, keys |-> obj[d].keys, to |-> {u}]
<1>1. obj[d].keys \in FiniteSubsets(KeyInfo) /\ obj[d].keys # {}
    BY Here DEF KeysObject, KeySupplement
<1>2. Back(obj[d].keys).generation \in Nat
    BY <1>1, BackIsLast DEF KeyInfo
<1>3. m \in Supplement
    BY <1>1, <1>2, UsersAssumption DEF Supplement
<1>4. obj[d].keys \subseteq Issued(swarm)
    BY Here DEF DeviceOK, Sound
<1>5. Store(m, clock) /\ clock \in Nat
    BY DEF KeySupplement, IInv, TypeOK
<1>6. /\ UNCHANGED <<obj, loading, disk, admin>>
      /\ spent' \in [rekeys : Nat, supplements : Nat, dumps : Nat, restarts : Nat]
    BY Here DEF KeySupplement
<1>7. m \in Message /\ m.keys \subseteq Issued(swarm)
    BY <1>3, <1>4 DEF Message
<1> HIDE DEF m
<1> QED BY <1>5, <1>6, <1>7, StoreKeeps

(* pending_config() is sent: the key of a full message is issued. *)
LEMMA PushPendingKeeps ==
    ASSUME IInv, NEW d \in Devices, NEW now \in Nat, PushPending(d, now)
    PROVE  IInv'
<1>1. PICK p \in obj[d].pending : Store(p, now)
    BY DEF PushPending
<1>2. p \in Message /\ IsFull(p)
    BY Here, MessageKinds DEF KeysObject, Message
<1>3. /\ UNCHANGED <<obj, loading, disk, admin>>
      /\ spent' \in [rekeys : Nat, supplements : Nat, dumps : Nat, restarts : Nat]
    BY Here DEF PushPending
<1> QED BY <1>1, <1>2, <1>3, StoreKeeps

(* load_admin_key(): an admin may have a pending key, and is loading nothing. *)
LEMMA LoadAdminKeyKeeps ==
    ASSUME IInv, NEW d \in Devices, LoadAdminKey(d)
    PROVE  IInv'
<1>1. DeviceOK(obj[d], loading[d], disk[d], TRUE, Issued(swarm))
    BY Here DEF DeviceOK, LoadAdminKey, IsIdle
<1>2. /\ obj' = [obj EXCEPT ![d] = obj[d]] /\ loading' = [loading EXCEPT ![d] = loading[d]]
      /\ disk' = [disk EXCEPT ![d] = disk[d]] /\ admin' = [admin EXCEPT ![d] = TRUE]
      /\ swarm' = swarm /\ clock' = clock
      /\ spent' \in [rekeys : Nat, supplements : Nat, dumps : Nat, restarts : Nat]
      /\ obj[d] \in KeysObject /\ loading[d] \in Loading /\ disk[d] \in DumpRecord
    BY Here DEF LoadAdminKey
<1> QED BY <1>1, <1>2, OneDevice

(* dump() saves all that Sound speaks of. *)
LEMMA DumpKeeps ==
    ASSUME IInv, NEW d \in Devices, Dump(d)
    PROVE  IInv'
<1> DEFINE o == [obj[d] EXCEPT !.needsDump = FALSE]
           s == [keys |-> obj[d].keys, active |-> obj[d].active, pending |-> obj[d].pending,
                 decrypted |-> obj[d].decrypted]
<1>1. /\ DeviceOK(obj[d], loading[d], disk[d], admin[d], Issued(swarm)) /\ obj[d] \in KeysObject
    BY Here
<1>2. /\ o \in KeysObject /\ s \in DumpRecord
      /\ o.keys = obj[d].keys /\ o.active = obj[d].active /\ o.pending = obj[d].pending
      /\ o.decrypted = obj[d].decrypted /\ o.listed = obj[d].listed
    BY <1>1 DEF KeysObject, DumpRecord
<1>3. /\ s.keys = obj[d].keys /\ s.active = obj[d].active /\ s.pending = obj[d].pending
      /\ s.decrypted = obj[d].decrypted
    OBVIOUS
<1>4. /\ obj' = [obj EXCEPT ![d] = o] /\ disk' = [disk EXCEPT ![d] = s]
      /\ loading' = [loading EXCEPT ![d] = loading[d]] /\ admin' = [admin EXCEPT ![d] = admin[d]]
      /\ swarm' = swarm /\ clock' = clock
      /\ spent' \in [rekeys : Nat, supplements : Nat, dumps : Nat, restarts : Nat]
      /\ loading[d] \in Loading /\ admin[d] \in BOOLEAN
    BY Here DEF Dump
<1> HIDE DEF o, s
<1>5. Sound(o, Issued(swarm)) /\ Sound(s, Issued(swarm)) /\ Ahead(o) /\ Ahead(s)
    BY <1>1, <1>2, <1>3 DEF DeviceOK, Sound, Ahead
<1>6. DeviceOK(o, loading[d], s, admin[d], Issued(swarm))
    BY <1>1, <1>2, <1>3, <1>5 DEF DeviceOK
<1> QED BY <1>2, <1>4, <1>6, OneDevice

(* The constructor takes up a dump that was sound when it was made. *)
LEMMA RestartKeeps ==
    ASSUME IInv, NEW d \in Devices, Restart(d)
    PROVE  IInv'
<1> DEFINE o == LoadDump(disk[d])
<1>1. /\ DeviceOK(obj[d], loading[d], disk[d], admin[d], Issued(swarm)) /\ disk[d] \in DumpRecord
    BY Here
<1>2. /\ o \in KeysObject /\ o.keys = disk[d].keys /\ o.active = disk[d].active
      /\ o.pending = disk[d].pending /\ o.decrypted = disk[d].decrypted
      /\ o.listed = [keys |-> o.keys, pending |-> o.pending]
    BY <1>1 DEF LoadDump, DumpRecord, KeysObject, FiniteSubsets
<1>3. Idle \in Loading /\ Idle.left = {} /\ Idle.msg = {}
    BY FS_EmptySet DEF Idle, Loading, FiniteSubsets
<1>4. /\ obj' = [obj EXCEPT ![d] = o] /\ loading' = [loading EXCEPT ![d] = Idle]
      /\ disk' = [disk EXCEPT ![d] = disk[d]] /\ admin' = [admin EXCEPT ![d] = admin[d]]
      /\ swarm' = swarm /\ clock' = clock
      /\ spent' \in [rekeys : Nat, supplements : Nat, dumps : Nat, restarts : Nat]
      /\ admin[d] \in BOOLEAN
    BY Here DEF Restart
<1> HIDE DEF o
<1>5. Sound(o, Issued(swarm)) /\ Ahead(o)
    BY <1>1, <1>2 DEF DeviceOK, Sound, Ahead
<1>6. DeviceOK(o, Idle, disk[d], admin[d], Issued(swarm))
    BY <1>1, <1>2, <1>3, <1>5 DEF DeviceOK
<1> QED BY <1>1, <1>2, <1>3, <1>4, <1>6, OneDevice

(* A new object holds nothing, so the invariant holds at the start. *)
LEMMA InitIInv == Init => IInv
<1> SUFFICES ASSUME Init PROVE IInv
    OBVIOUS
<1>1. {} \in FiniteSubsets(KeyInfo)
    BY FS_EmptySet DEF FiniteSubsets
<1>2. TypeOK
    BY <1>1 DEF Init, TypeOK, FreshKeys, KeysObject, DumpRecord, Idle
<1>3. SwarmOK(swarm)
    BY DEF Init, SwarmOK
<1>4. ASSUME NEW d \in Devices
      PROVE  DeviceOK(obj[d], loading[d], disk[d], admin[d], Issued(swarm))
    <2>1. Unexpired({}) = {}
        BY DEF Unexpired
    <2>2. Sound(obj[d], Issued(swarm)) /\ Sound(disk[d], Issued(swarm))
        BY <2>1 DEF Init, Sound, FreshKeys
    <2> QED BY <2>2 DEF Init, DeviceOK, Ahead, FreshKeys, Idle
<1> QED BY <1>2, <1>3, <1>4 DEF IInv

(* One step per action, each by the lemma for it. *)
LEMMA NextIInv == IInv /\ [Next]_vars => IInv'
<1> SUFFICES ASSUME IInv, [Next]_vars PROVE IInv'
    OBVIOUS
<1>1. CASE UNCHANGED vars
    BY <1>1 DEF IInv, TypeOK, vars
<1>2. ASSUME NEW d \in Devices, NEW s \in swarm,
             LoadFull(d, s) \/ LoadForeignSupplement(d, s) \/ LoadSupplement(d, s)
      PROVE  IInv'
    <2>1. CASE LoadFull(d, s)
        BY <2>1, LoadFullKeeps
    <2>2. CASE LoadForeignSupplement(d, s)
        <3>1. s.msg \in Message
            BY DEF IInv, TypeOK
        <3>2. Keep(d, s.msg)
            BY <2>2 DEF LoadForeignSupplement, Keep
        <3> QED BY <3>1, <3>2, KeepForOthersKeeps
    <2>3. CASE LoadSupplement(d, s)
        BY <2>3, LoadSupplementKeeps
    <2> QED BY <1>2, <2>1, <2>2, <2>3
<1>3. ASSUME NEW d \in Devices, InsertNext(d) PROVE IInv'
    BY <1>3, InsertNextKeeps
<1>4. ASSUME NEW d \in Devices, LoadAdminKey(d) PROVE IInv'
    BY <1>4, LoadAdminKeyKeeps
<1>5. ASSUME NEW d \in Devices, Dump(d) PROVE IInv'
    BY <1>5, DumpKeeps
<1>6. ASSUME NEW d \in Devices, Restart(d) PROVE IInv'
    BY <1>6, RestartKeeps
<1>7. ASSUME NEW d \in Devices, NEW list \in MemberLists, Rekey(d, list) PROVE IInv'
    BY <1>7, RekeyKeeps
<1>8. 0..MaxClock \subseteq Nat
    BY ClockAssumption
<1>9. ASSUME NEW d \in Devices, NEW now \in 0..MaxClock, PushPending(d, now) PROVE IInv'
    BY <1>8, <1>9, PushPendingKeeps
<1>10. ASSUME NEW d \in Devices, NEW u \in Devices, KeySupplement(d, {u}) PROVE IInv'
    BY <1>10, KeySupplementKeeps
<1> QED BY <1>1, <1>2, <1>3, <1>4, <1>5, <1>6, <1>7, <1>9, <1>10 DEF Next, Load

(* Hence it is an invariant of the specification. *)
LEMMA Invariant == Spec => []IInv
BY InitIInv, NextIInv, PTL DEF Spec

-----------------------------------------------------------------------------
(* All state keeps its type; in particular every device holds finitely many    *)
(* keys, so that the first and the last of them exist.                      *)
THEOREM TypeCorrect == Spec => []TypeOK
<1>1. IInv => TypeOK
    BY DEF IInv
<1> QED BY <1>1, Invariant, PTL

(* Whatever order messages are loaded in, and across restarts, a device holds   *)
(* the newest key it has decrypted: insert_key() and remove_expired() never     *)
(* lose it.                                                                 *)
THEOREM NewestKeptHolds == Spec => []NewestKept
<1>1. IInv => NewestKept
    BY DEF IInv, DeviceOK, Sound, NewestKept
<1> QED BY <1>1, Invariant, PTL

(* remove_expired() and the stale path of insert_key() give up a key only when  *)
(* a later generation was itself stored more than KEY_EXPIRY before another.  *)
THEOREM DroppedWereSupersededHolds == Spec => []DroppedWereSuperseded
<1>1. IInv => DroppedWereSuperseded
    BY DEF IInv, DeviceOK, Sound, DroppedWereSuperseded
<1> QED BY <1>1, Invariant, PTL

(* active_hashes() has, for every key held, a message that carries it. *)
THEOREM HeldKeptAliveHolds == Spec => []HeldKeptAlive
<1>1. IInv => HeldKeptAlive
    BY DEF IInv, DeviceOK, Sound, HeldKeptAlive
<1> QED BY <1>1, Invariant, PTL

(* While needs_dump() is false the dump has all keys and the pending one. *)
THEOREM KeysSavedHolds == Spec => []KeysSaved
<1>1. IInv => KeysSaved
    BY DEF IInv, DeviceOK, KeysSaved
<1> QED BY <1>1, Invariant, PTL

(* The Info and Members configs have the keys of the object between calls,     *)
(* although one path of load_key_message() runs remove_expired() without      *)
(* handing the list on: it never has anything to remove there.              *)
THEOREM ListedCurrentHolds == Spec => []ListedCurrent
<1>1. IInv => ListedCurrent
    BY DEF IInv, DeviceOK, ListedCurrent, IsIdle
<1> QED BY <1>1, Invariant, PTL

(* An admin's pending key is always newer than, or an alternative to, all the   *)
(* keys it has from the swarm.                                              *)
THEOREM PendingNotBehindHolds == Spec => []PendingNotBehind
<1>1. IInv => PendingNotBehind
    BY DEF IInv, DeviceOK, Ahead, PendingNotBehind
<1> QED BY <1>1, Invariant, PTL

(* needs_rekey() sees every collision in the newest generation, however late  *)
(* and in whatever order the colliding keys were loaded.                    *)
THEOREM CollisionNoticedHolds == Spec => []CollisionNoticed
<1>1. ASSUME IInv, NEW d \in Devices, NEW j \in obj[d].decrypted, NEW k \in obj[d].decrypted,
             admin[d], j.generation = k.generation, j.key # k.key,
             \A i \in obj[d].decrypted : i.generation <= k.generation
      PROVE  NeedsRekey(d)
    <2>1. /\ Sound(obj[d], Issued(swarm)) /\ obj[d] \in KeysObject
        BY <1>1, Here DEF DeviceOK
    <2>2. /\ obj[d].keys \in FiniteSubsets(KeyInfo) /\ IsFiniteSet(obj[d].keys)
          /\ obj[d].decrypted \subseteq KeyInfo /\ obj[d].keys \subseteq obj[d].decrypted
        BY <2>1 DEF KeysObject, FiniteSubsets, Sound
    <2>3. j \in obj[d].keys /\ k \in obj[d].keys
        <3>1. \A i \in obj[d].decrypted : ~(i.generation > k.generation)
            BY <1>1, <2>2 DEF KeyInfo
        <3> QED BY <1>1, <2>1, <3>1 DEF Sound
    <2>4. /\ Back(obj[d].keys) \in obj[d].keys
          /\ Back(obj[d].keys).generation = k.generation
        <3>1. /\ Back(obj[d].keys) \in obj[d].keys
              /\ k.generation <= Back(obj[d].keys).generation
            BY <2>2, <2>3, BackIsLast
        <3>2. Back(obj[d].keys).generation <= k.generation
            BY <1>1, <2>2, <3>1
        <3>3. Back(obj[d].keys).generation \in Nat /\ k.generation \in Nat
            BY <2>2, <2>3, <3>1 DEF KeyInfo
        <3> QED BY <3>1, <3>2, <3>3
    <2>5. Cardinality(obj[d].keys) >= 2
        <3>1. {j, k} \subseteq obj[d].keys
            BY <2>3
        <3>2. Cardinality({j, k}) <= Cardinality(obj[d].keys) /\ IsFiniteSet({j, k})
            BY <2>2, <3>1, FS_Subset
        <3>3. Cardinality({j, k}) = 2
            <4>1. IsFiniteSet({j}) /\ Cardinality({j}) = 1
                BY FS_Singleton
            <4>2. k \notin {j}
                BY <1>1, Zenon
            <4>3. {j, k} = {j} \cup {k}
                OBVIOUS
            <4>4. Cardinality({j} \cup {k}) = Cardinality({j}) + 1
                BY <4>1, <4>2, FS_AddElement, Zenon
            <4> QED BY <4>1, <4>3, <4>4
        <3>4. Cardinality(obj[d].keys) \in Nat
            BY <2>2, FS_CardinalityType
        <3> QED BY <3>2, <3>3, <3>4
    <2> QED BY <1>1, <2>3, <2>4, <2>5 DEF NeedsRekey
<1>2. IInv => CollisionNoticed
    BY <1>1 DEF CollisionNoticed
<1> QED BY <1>2, Invariant, PTL
=============================================================================
