-------------------------- MODULE SnodeCacheProofs --------------------------
(***************************************************************************)
(* The snode cache on disk, for any number of refreshes, clears, failed    *)
(* writes and restarts.  Each invariant is strengthened by what holds at   *)
(* the places of the disk thread where the lock is released.               *)
(***************************************************************************)
EXTENDS SnodeCache, TLAPS

USE CacheBounds

(* Type correctness, the flags apart.                                      *)
FlagsOK ==
    /\ need_write \in BOOLEAN /\ need_clear_cache \in BOOLEAN
    /\ shut_down_disk_thread \in BOOLEAN /\ has_pending_disk_write \in BOOLEAN
    /\ overtaken \in BOOLEAN /\ unheeded \in BOOLEAN

RestOK ==
    /\ snode_cache \in Lists /\ copy \in Lists /\ disk \in Lists
    /\ cleared \in Lists /\ refreshes \in Lists
    /\ pc \in Places
    /\ timers \in Nat
    /\ clears \in 0..MaxClears
    /\ failures \in 0..MaxFailures
    /\ restarts \in 0..MaxRestarts

LEMMA FlagsStep ==
    ASSUME FlagsOK, [Next]_vars
    PROVE  FlagsOK'
<1> USE DEF FlagsOK, flags, missed
<1>1. CASE Timer \/ RefreshComplete \/ ClearCache \/ ShutDown
  BY <1>1, Zenon DEF Timer, RefreshComplete, Throttle, ClearCache, ShutDown
<1>2. CASE DiskThread
  BY <1>2, Zenon DEF DiskThread, Evaluate, WriteFile, WriteFails, ResetNeedWrite, Relock,
                     RemoveFiles, ClearDone, TopOfLoop
<1>3. CASE SpuriousWake \/ Restart
  BY <1>3, Zenon DEF SpuriousWake, Restart
<1>4. CASE UNCHANGED vars
  BY <1>4, Zenon DEF vars
<1> QED
  BY <1>1, <1>2, <1>3, <1>4 DEF Next

LEMMA RestStep ==
    ASSUME RestOK, [Next]_vars
    PROVE  RestOK'
<1> USE DEF RestOK, Lists, Places, counts
<1>1. CASE Timer
  BY <1>1 DEF Timer, Notified
<1>2. CASE RefreshComplete
  BY <1>2 DEF RefreshComplete, Throttle
<1>3. CASE ClearCache
  BY <1>3 DEF ClearCache, Notified
<1>4. CASE ShutDown
  BY <1>4 DEF ShutDown, Notified
<1>5. CASE DiskThread
  <2>1. CASE Evaluate
    BY <2>1 DEF Evaluate, TopOfLoop
  <2>2. CASE WriteFile \/ WriteFails \/ ResetNeedWrite
    BY <2>2 DEF WriteFile, WriteFails, ResetNeedWrite
  <2>3. CASE Relock
    BY <2>3 DEF Relock, TopOfLoop
  <2>4. CASE RemoveFiles \/ ClearDone
    BY <2>4 DEF RemoveFiles, ClearDone
  <2> QED
    BY <1>5, <2>1, <2>2, <2>3, <2>4 DEF DiskThread
<1>6. CASE SpuriousWake \/ Restart
  BY <1>6 DEF SpuriousWake, Restart
<1>7. CASE UNCHANGED vars
  BY <1>7 DEF vars
<1> QED
  BY <1>1, <1>2, <1>3, <1>4, <1>5, <1>6, <1>7 DEF Next

(* Type correctness: in particular the 1 s timer never runs more often     *)
(* than update_disk_cache_throttled() scheduled it.                        *)
THEOREM TypeCorrect == Spec => []TypeOK
<1>1. Init => FlagsOK
  BY Zenon DEF Init, FlagsOK
<1>2. Init => RestOK
  BY DEF Init, RestOK, Lists, Places
<1>3. FlagsOK /\ RestOK /\ [Next]_vars => (FlagsOK /\ RestOK)'
  BY FlagsStep, RestStep
<1>4. FlagsOK /\ RestOK => TypeOK
  BY Zenon DEF FlagsOK, RestOK, TypeOK
<1> QED
  BY <1>1, <1>2, <1>3, <1>4, PTL DEF Spec

-----------------------------------------------------------------------------
(* Unless overtaken, the disk thread's copy is current while it is         *)
(* written, and is on disk afterwards; a list that is not marked for       *)
(* writing is on disk, unless its file is about to be removed.             *)
SavedInv ==
    /\ pc \in {"writing", "written"} /\ ~overtaken => copy = snode_cache
    /\ pc = "written" => disk = copy
    /\ ~need_write /\ ~overtaken /\ pc = "clearing" => snode_cache = 0
    /\ ~need_write /\ ~overtaken /\ pc # "clearing" => disk = snode_cache

LEMMA SavedStep ==
    ASSUME TypeOK, SavedInv, [Next]_vars
    PROVE  SavedInv'
<1> USE DEF SavedInv, counts, flags, missed
<1>1. CASE Timer \/ ClearCache \/ ShutDown
  BY <1>1 DEF Timer, ClearCache, ShutDown, Notified
<1>2. CASE RefreshComplete
  BY <1>2 DEF RefreshComplete
<1>3. CASE DiskThread
  <2>1. CASE Evaluate
    BY <2>1 DEF Evaluate, TopOfLoop
  <2>2. CASE WriteFile \/ WriteFails \/ ResetNeedWrite
    BY <2>2 DEF WriteFile, WriteFails, ResetNeedWrite
  <2>3. CASE Relock
    BY <2>3 DEF Relock, TopOfLoop
  <2>4. CASE RemoveFiles \/ ClearDone
    BY <2>4 DEF RemoveFiles, ClearDone
  <2> QED
    BY <1>3, <2>1, <2>2, <2>3, <2>4 DEF DiskThread
<1>4. CASE SpuriousWake \/ Restart
  BY <1>4 DEF SpuriousWake, Restart
<1>5. CASE UNCHANGED vars
  BY <1>5 DEF vars
<1> QED
  BY <1>1, <1>2, <1>3, <1>4, <1>5 DEF Next

(* A disk thread asleep with need_write unset has saved what is in memory, *)
(* whatever writes failed and whatever clears came between; only a refresh *)
(* that completed while a file was being written can be missing.           *)
THEOREM SavedAtRestAlways == Spec => []SavedAtRest
<1>1. Init => SavedInv
  BY DEF Init, SavedInv
<1>2. TypeOK /\ SavedInv /\ [Next]_vars => SavedInv'
  BY SavedStep
<1>3. SavedInv => SavedAtRest
  BY DEF SavedInv, SavedAtRest
<1> QED
  BY <1>1, <1>2, <1>3, TypeCorrect, PTL DEF Spec

-----------------------------------------------------------------------------
(* Lists from before the last clear_cache() are gone as soon as the disk   *)
(* thread starts to carry it out, and are never copied again.              *)
Old(list) == list \in 1..cleared
ClearInv ==
    /\ cleared <= refreshes
    /\ ~need_clear_cache /\ ~unheeded => ~Old(snode_cache) /\ ~Old(disk)
    /\ pc \in {"clearing", "cleared"} /\ ~unheeded => ~Old(snode_cache)
    /\ pc = "cleared" /\ ~unheeded => ~Old(disk)
    /\ pc = "writing" /\ ~need_clear_cache /\ ~unheeded => ~Old(copy)

LEMMA ClearStep ==
    ASSUME TypeOK, ClearInv, [Next]_vars
    PROVE  ClearInv'
<1>1. /\ snode_cache \in Nat /\ copy \in Nat /\ disk \in Nat
      /\ cleared \in Nat /\ refreshes \in Nat
      /\ pc \in Places /\ need_clear_cache \in BOOLEAN /\ unheeded \in BOOLEAN
  BY DEF TypeOK, Lists
<1> USE <1>1 DEF ClearInv, Old, counts, flags, missed
<1>2. CASE Timer \/ ShutDown
  BY <1>2 DEF Timer, ShutDown, Notified
<1>3. CASE ClearCache
  <2>1. /\ cleared' = refreshes /\ refreshes' = refreshes /\ need_clear_cache' = TRUE
        /\ pc' \in {pc, "top"}
    BY <1>3 DEF ClearCache, Notified
  <2>2. CASE pc \in {"clearing", "cleared"}
    <3>1. unheeded' = TRUE
      BY <1>3, <2>2 DEF ClearCache
    <3> QED
      BY <2>1, <3>1
  <2>3. CASE pc \notin {"clearing", "cleared"}
    BY <2>1, <2>3
  <2> QED
    BY <2>2, <2>3
<1>4. CASE RefreshComplete
  BY <1>4 DEF RefreshComplete
<1>5. CASE DiskThread
  <2>1. CASE Evaluate
    BY <2>1 DEF Evaluate, TopOfLoop
  <2>2. CASE WriteFile \/ WriteFails \/ ResetNeedWrite
    BY <2>2 DEF WriteFile, WriteFails, ResetNeedWrite
  <2>3. CASE Relock
    BY <2>3 DEF Relock, TopOfLoop
  <2>4. CASE RemoveFiles \/ ClearDone
    BY <2>4 DEF RemoveFiles, ClearDone
  <2> QED
    BY <1>5, <2>1, <2>2, <2>3, <2>4 DEF DiskThread
<1>6. CASE SpuriousWake \/ Restart
  BY <1>6 DEF SpuriousWake, Restart
<1>7. CASE UNCHANGED vars
  BY <1>7 DEF vars
<1> QED
  BY <1>2, <1>3, <1>4, <1>5, <1>6, <1>7 DEF Next

(* No list from before a clear_cache() is in memory or on disk once it has *)
(* been carried out, even if a refresh completes while a file is written;  *)
(* only a call made while files are removed for another may be missed.     *)
THEOREM ClearAlwaysTakesEffect == Spec => []ClearTakesEffect
<1>1. Init => ClearInv
  BY DEF Init, ClearInv, Old
<1>2. TypeOK /\ ClearInv /\ [Next]_vars => ClearInv'
  BY ClearStep
<1>3. ClearInv => ClearTakesEffect
  BY DEF ClearInv, ClearTakesEffect, Old
<1> QED
  BY <1>1, <1>2, <1>3, TypeCorrect, PTL DEF Spec
=============================================================================
