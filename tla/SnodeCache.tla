----------------------------- MODULE SnodeCache -----------------------------
(***************************************************************************)
(* The snode cache of `Network` and the thread that keeps it on disk       *)
(* (session_network.cpp: refresh_snode_cache_complete, clear_cache,        *)
(* update_disk_cache_throttled, disk_write_thread_loop,                    *)
(* load_cache_from_disk, the constructor and the destructor).              *)
(*                                                                         *)
(* Three threads take part: the event loop (refreshes, clears and the 1 s  *)
(* timer of the throttle), the disk thread, and the application, which     *)
(* destroys the object.  A critical section of snode_cache_mutex is one    *)
(* step.  What the disk thread does with the lock released is separate     *)
(* steps.  A list of snodes is the number of the refresh that brought it;  *)
(* 0 is the empty list and the missing file.                               *)
(***************************************************************************)
EXTENDS Naturals

CONSTANTS
    MaxRefreshes,        \* refreshes that complete
    MaxClears,           \* calls of clear_cache()
    MaxFailures,         \* writes that fail
    MaxRestarts          \* new Network objects after the first

ASSUME CacheBounds ==
    /\ MaxRefreshes \in Nat /\ MaxClears \in Nat
    /\ MaxFailures \in Nat /\ MaxRestarts \in Nat

VARIABLES
    snode_cache,             \* the list in memory
    need_write, need_clear_cache, shut_down_disk_thread,
    has_pending_disk_write,  \* a throttled write is scheduled
    timers,                  \* the scheduled 1 s calls
    pc, copy,                \* where the disk thread is; its snode_cache_write
    disk,                    \* the list in file_snode_pool
    refreshes, clears, failures, restarts,
    cleared,                 \* history: refreshes before the last clear_cache(),
    overtaken,               \* a refresh completed while a file was being written,
    unheeded                 \* clear_cache() was called while files were removed

flags == <<need_write, need_clear_cache, shut_down_disk_thread>>
counts == <<refreshes, clears, failures, restarts, cleared>>
missed == <<overtaken, unheeded>>
vars == <<snode_cache, flags, has_pending_disk_write, timers, pc, copy, disk, counts, missed>>

Lists == 0..MaxRefreshes

(* Places of the disk thread: about to test the predicate of wait(),      *)
(* blocked in it, writing the copy, about to reset need_write, about to    *)
(* lock again, removing files, about to lock after that, returned.        *)
Places == {"top", "blocked", "writing", "written", "relock", "clearing", "cleared", "done"}

TypeOK ==
    /\ snode_cache \in Lists /\ copy \in Lists /\ disk \in Lists
    /\ cleared \in Lists /\ refreshes \in Lists
    /\ need_write \in BOOLEAN /\ need_clear_cache \in BOOLEAN
    /\ shut_down_disk_thread \in BOOLEAN /\ has_pending_disk_write \in BOOLEAN
    /\ overtaken \in BOOLEAN /\ unheeded \in BOOLEAN
    /\ pc \in Places
    /\ timers \in Nat
    /\ clears \in 0..MaxClears
    /\ failures \in 0..MaxFailures
    /\ restarts \in 0..MaxRestarts

Init ==
    /\ snode_cache = 0 /\ disk = 0 /\ copy = 0
    /\ need_write = FALSE /\ need_clear_cache = FALSE /\ shut_down_disk_thread = FALSE
    /\ has_pending_disk_write = FALSE /\ timers = 0
    /\ pc = "top"
    /\ refreshes = 0 /\ clears = 0 /\ failures = 0 /\ restarts = 0 /\ cleared = 0
    /\ overtaken = FALSE /\ unheeded = FALSE

-----------------------------------------------------------------------------
(* snode_cache_cv.notify_one(): lost unless the thread is blocked.         *)
Notified == IF pc = "blocked" THEN "top" ELSE pc

MutThrottle ==
    /\ has_pending_disk_write' = TRUE
    /\ UNCHANGED timers

(* update_disk_cache_throttled(false).                                     *)
Throttle ==
    /\ has_pending_disk_write' = TRUE
    /\ timers' = IF has_pending_disk_write THEN timers ELSE timers + 1

MutTimer ==
    /\ timers' = timers - 1
    /\ has_pending_disk_write' = FALSE
    /\ pc' = Notified
    /\ UNCHANGED <<snode_cache, flags, copy, disk, counts, missed>>

(* The call scheduled by update_disk_cache_throttled.                      *)
Timer ==
    /\ timers > 0
    /\ timers' = timers - 1
    /\ has_pending_disk_write' = FALSE
    /\ pc' = Notified
    /\ UNCHANGED <<snode_cache, flags, copy, disk, counts, missed>>

(* refresh_snode_cache_complete().                                         *)
RefreshComplete ==
    /\ ~shut_down_disk_thread
    /\ refreshes < MaxRefreshes
    /\ refreshes' = refreshes + 1
    /\ snode_cache' = refreshes + 1
    /\ need_write' = TRUE
    /\ overtaken' = (overtaken \/ pc \in {"writing", "written"})
    /\ Throttle
    /\ UNCHANGED <<need_clear_cache, shut_down_disk_thread, pc, copy, disk,
                   clears, failures, restarts, cleared, unheeded>>

(* clear_cache(): the flag is set under the lock, and the forced call of   *)
(* update_disk_cache_throttled follows.                                    *)
ClearCache ==
    /\ ~shut_down_disk_thread
    /\ clears < MaxClears
    /\ clears' = clears + 1
    /\ cleared' = refreshes
    /\ unheeded' = (unheeded \/ pc \in {"clearing", "cleared"})
    /\ need_clear_cache' = TRUE
    /\ pc' = Notified
    /\ has_pending_disk_write' = FALSE
    /\ UNCHANGED <<snode_cache, need_write, shut_down_disk_thread, timers, copy, disk,
                   refreshes, failures, restarts, overtaken>>

(* ~Network(), up to the join.                                             *)
ShutDown ==
    /\ ~shut_down_disk_thread
    /\ shut_down_disk_thread' = TRUE
    /\ pc' = Notified
    /\ has_pending_disk_write' = FALSE
    /\ UNCHANGED <<snode_cache, need_write, need_clear_cache, timers, copy, disk, counts, missed>>

-----------------------------------------------------------------------------
MutTopOfLoop ==
    \/ /\ need_write
       /\ copy' = snode_cache
       /\ pc' = "writing"
       /\ overtaken' = FALSE
       /\ UNCHANGED <<snode_cache, unheeded>>
    \/ /\ ~need_write /\ need_clear_cache
       /\ snode_cache' = 0
       /\ pc' = "clearing"
       /\ unheeded' = FALSE
       /\ UNCHANGED <<copy, overtaken>>
    \/ /\ ~need_write /\ ~need_clear_cache
       /\ pc' = "blocked"
       /\ UNCHANGED <<snode_cache, copy, missed>>

(* disk_write_thread_loop, with the lock held: from the predicate of       *)
(* wait() to the next place where the lock is released.                    *)
TopOfLoop ==
    \/ /\ need_write
       /\ copy' = snode_cache
       /\ pc' = "writing"
       /\ overtaken' = FALSE
       /\ UNCHANGED <<snode_cache, unheeded>>
    \/ /\ ~need_write /\ need_clear_cache
       /\ snode_cache' = 0
       /\ pc' = "clearing"
       /\ unheeded' = FALSE
       /\ UNCHANGED <<copy, overtaken>>
    \/ /\ ~need_write /\ ~need_clear_cache
       /\ pc' = IF shut_down_disk_thread THEN "done" ELSE "blocked"
       /\ UNCHANGED <<snode_cache, copy, missed>>

Evaluate ==
    /\ pc = "top"
    /\ TopOfLoop
    /\ UNCHANGED <<flags, has_pending_disk_write, timers, disk, counts>>

(* The file is written under another name and renamed, or fails.           *)
WriteFile ==
    /\ pc = "writing"
    /\ disk' = copy
    /\ pc' = "written"
    /\ UNCHANGED <<snode_cache, flags, has_pending_disk_write, timers, copy, counts, missed>>

MutWriteFails ==
    /\ pc = "writing"
    /\ failures < MaxFailures
    /\ failures' = failures + 1
    /\ pc' = "written"
    /\ UNCHANGED <<snode_cache, flags, has_pending_disk_write, timers, copy, disk,
                   refreshes, clears, restarts, cleared, missed>>

WriteFails ==
    /\ pc = "writing"
    /\ failures < MaxFailures
    /\ failures' = failures + 1
    /\ pc' = "relock"
    /\ UNCHANGED <<snode_cache, flags, has_pending_disk_write, timers, copy, disk,
                   refreshes, clears, restarts, cleared, missed>>

(* `need_write = false`, without the lock.                                 *)
ResetNeedWrite ==
    /\ pc = "written"
    /\ need_write' = FALSE
    /\ pc' = "relock"
    /\ UNCHANGED <<snode_cache, need_clear_cache, shut_down_disk_thread,
                   has_pending_disk_write, timers, copy, disk, counts, missed>>

MutRelock ==
    /\ pc = "relock"
    /\ \/ /\ need_clear_cache
          /\ pc' = "clearing"
       \/ /\ ~need_clear_cache
          /\ pc' = "top"
    /\ UNCHANGED <<snode_cache, copy, flags, has_pending_disk_write, timers, disk, counts, missed>>

Relock ==
    /\ pc = "relock"
    /\ \/ /\ need_clear_cache
          /\ snode_cache' = 0
          /\ pc' = "clearing"
          /\ unheeded' = FALSE
          /\ UNCHANGED <<copy, overtaken>>
       \/ /\ ~need_clear_cache /\ shut_down_disk_thread
          /\ pc' = "done"
          /\ UNCHANGED <<snode_cache, copy, missed>>
       \/ /\ ~need_clear_cache /\ ~shut_down_disk_thread
          /\ TopOfLoop
    /\ UNCHANGED <<flags, has_pending_disk_write, timers, disk, counts>>

RemoveFiles ==
    /\ pc = "clearing"
    /\ disk' = 0
    /\ pc' = "cleared"
    /\ UNCHANGED <<snode_cache, flags, has_pending_disk_write, timers, copy, counts, missed>>

ClearDone ==
    /\ pc = "cleared"
    /\ need_clear_cache' = FALSE
    /\ IF shut_down_disk_thread
       THEN pc' = "done" /\ UNCHANGED <<copy, overtaken>>
       ELSE /\ pc' = IF need_write THEN "writing" ELSE "blocked"
            /\ copy' = IF need_write THEN snode_cache ELSE copy
            /\ overtaken' = (overtaken /\ ~need_write)
    /\ UNCHANGED <<snode_cache, unheeded, need_write, shut_down_disk_thread, has_pending_disk_write, timers,
                   disk, counts>>

(* wait() may return without a notification.                               *)
SpuriousWake ==
    /\ pc = "blocked"
    /\ pc' = "top"
    /\ UNCHANGED <<snode_cache, flags, has_pending_disk_write, timers, copy, disk, counts, missed>>

DiskThread ==
    \/ Evaluate \/ WriteFile \/ WriteFails \/ ResetNeedWrite
    \/ Relock \/ RemoveFiles \/ ClearDone

-----------------------------------------------------------------------------
(* A new object, after a crash of the old one or its orderly end: the      *)
(* constructor and load_cache_from_disk().                                 *)
Restart ==
    /\ restarts < MaxRestarts
    /\ restarts' = restarts + 1
    /\ snode_cache' = disk
    /\ need_write' = FALSE /\ need_clear_cache' = FALSE /\ shut_down_disk_thread' = FALSE
    /\ has_pending_disk_write' = FALSE /\ timers' = 0
    /\ pc' = "top"
    /\ copy' = 0
    /\ cleared' = 0 /\ overtaken' = FALSE /\ unheeded' = FALSE
    /\ UNCHANGED <<disk, refreshes, clears, failures>>

Next ==
    \/ Timer \/ RefreshComplete \/ ClearCache \/ ShutDown
    \/ DiskThread \/ SpuriousWake \/ Restart

Spec == Init /\ [][Next]_vars

(* The disk thread is scheduled, and the loop runs its timers.             *)
FairSpec == Spec /\ WF_vars(DiskThread) /\ WF_vars(Timer)

-----------------------------------------------------------------------------
(* A disk thread that sleeps with need_write unset has nothing left to     *)
(* save - need_write is reset only by a write of what is in memory, and a  *)
(* failed write leaves it set (disk_write_thread_loop, 685-690) - unless a *)
(* refresh completed while the file was written.                           *)
SavedAtRest ==
    pc = "blocked" /\ ~need_write /\ ~overtaken => disk = snode_cache

(* Once a clear_cache() has been carried out no list from before it is in  *)
(* memory or on disk, although writes, refreshes and the clear overlap,    *)
(* unless it came while files were being removed for an earlier one.       *)
ClearTakesEffect ==
    ~need_clear_cache /\ ~unheeded => snode_cache \notin 1..cleared /\ disk \notin 1..cleared

(* A completed refresh reaches the disk: the throttled notification, which *)
(* comes without the lock and up to a second later, is never lost while    *)
(* the object lives; only a refresh that completed during a write may be.  *)
CatchesUp == <>[](shut_down_disk_thread \/ overtaken \/ disk = snode_cache)

(* The join in ~Network() returns: the disk thread sees the request to     *)
(* stop wherever it is, asleep or between two file operations.             *)
ShutDownEnds == shut_down_disk_thread ~> (pc = "done" \/ ~shut_down_disk_thread)
=============================================================================
