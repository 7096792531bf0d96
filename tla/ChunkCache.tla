----------------------------- MODULE ChunkCache -----------------------------
(***************************************************************************)
(* The write-back chunk cache of Parcelkeeper (parcelkeeper/fuse_image.c). *)
(*                                                                         *)
(* FUSE worker threads read and write chunks of the virtual disk and run   *)
(* fsync; a cleaner thread writes dirty chunks back a few seconds after    *)
(* they were dirtied; the main thread stops the cleaner, writes everything *)
(* back and frees the cache when the filesystem is unmounted.  All of the  *)
(* bookkeeping is under one mutex (image.lock).  A cache entry's busy flag *)
(* protects its buffer while the mutex is not held, that is, while a chunk *)
(* is written to or read from the local cache (parcelkeeper/cache.c).      *)
(*                                                                         *)
(* The mutex is explicit: a step that continues a critical section leaves  *)
(* lock = t, a step that calls g_mutex_unlock or g_cond_wait leaves        *)
(* lock = None.  "asleep" holds the threads blocked in g_cond_wait; which  *)
(* condition a thread sleeps on follows from its pc.                       *)
(*                                                                         *)
(* A definition X_... before X is X with a mistake put in; the properties  *)
(* are checked to notice it.                                               *)
(***************************************************************************)
EXTENDS Naturals, FiniteSets, Sequences, Functions, Queues

CONSTANTS
  Worker,     \* threads of fuse_loop_mt()
  Cleaner,    \* the thread running entry_cleaner()
  Main,       \* the thread running fuse_run() and fuse_shutdown()
  Chunk,      \* chunk numbers of the parcel
  Part,       \* the pieces of a chunk that a request can address
  Value,      \* what a piece can hold
  Junk,       \* what a piece of an uninitialised buffer holds
  Capacity,   \* buffers the cache may allocate (image.allocatable at start)
  None,       \* no thread, no chunk, no buffer, no reply
  Bad,        \* a stored chunk that cache_get() cannot decode
  EIO         \* the reply to a failed request

Thread == Worker \cup {Cleaner, Main}

\* What a chunk holds, and what a request writes into it: a read is the
\* request that writes no piece.
Content == [Part -> Value \cup {Junk}]
Whole == [Part -> Value]
Update == UNION {[S -> Value] : S \in SUBSET Part}
Merge(old, upd) == [p \in Part |-> IF p \in DOMAIN upd THEN upd[p] ELSE old[p]]

ASSUME ThreadsDistinct ==
  /\ Cleaner \notin Worker
  /\ Main \notin Worker
  /\ Cleaner # Main
ASSUME CapacityNat == Capacity \in Nat
ASSUME SpecialValues ==
  /\ None \notin Thread \cup Chunk \cup Content
  /\ None \notin [chunk : Chunk, reply : Content \cup {EIO}]
  /\ Bad \notin Content
  /\ EIO \notin Content
  /\ Junk \notin Value
ASSUME PartNonempty == Part # {}
ASSUME ChunkFinite == IsFiniteSet(Chunk)
ASSUME WorkerFinite == IsFiniteSet(Worker)

VARIABLES
  chunks,       \* image.chunks: the chunks that have a cache entry
  busy,         \* entry.busy: the thread that set the flag, or None
  waiters,      \* entry.waiters: the threads inside _entry_acquire()
  data,         \* entry.data: the contents of the buffer, None if no buffer
  dirty,        \* entry.dirty: "clean", "fresh", or "ripe" for writeback
  error,        \* entry.error
  dirtyq,       \* image.dirty: the queue of dirty entries
  reclaimable,  \* image.reclaimable: the LRU queue of idle entries
  allocatable,  \* image.allocatable
  stopping,     \* image.stopping
  leave_dirty,  \* fuse.leave_dirty
  lock,         \* image.lock: its holder, or None
  asleep,       \* threads blocked in g_cond_wait()
  pc,           \* where each thread is
  cur,          \* the chunk whose entry the thread wants, holds or cleans
  victim,       \* the chunk whose buffer the thread is reclaiming
  new,          \* what the thread's request writes
  out,          \* the last reply to a request, and the chunk it was about
  store,        \* the local cache: what cache_get() would return
  ca_dirty,     \* CA_F_DIRTY in the header of the local cache
  acked,        \* history: each chunk as the acknowledged writes left it
  faulted       \* history: the chunks on which an I/O error was recorded

entryvars == <<chunks, busy, waiters, reclaimable>>
bufvars == <<data, dirty, error, dirtyq, allocatable>>
threadvars == <<cur, victim, new, out>>
sessionvars == <<stopping, leave_dirty, store, ca_dirty, acked, faulted>>
vars == <<entryvars, bufvars, threadvars, sessionvars, lock, asleep, pc>>

\* The program counters of the three kinds of thread.
EntryPc == {"entry", "owned", "buffer", "evict", "steal", "fill", "have"}
CleanPc == {"loop", "cwait", "chold", "cwrite"}
WorkerPc == {"idle"} \cup EntryPc \cup CleanPc
CleanerPc == CleanPc \cup {"rest", "nap", "sleep", "exit"}
MainPc == CleanPc \cup {"serve", "join", "done"}

TypeOK ==
  /\ chunks \subseteq Chunk
  /\ busy \in [Chunk -> Thread \cup {None}]
  /\ waiters \in [Chunk -> SUBSET Thread]
  /\ data \in [Chunk -> Content \cup {None}]
  /\ dirty \in [Chunk -> {"clean", "fresh", "ripe"}]
  /\ error \in [Chunk -> BOOLEAN]
  /\ dirtyq \in Seq(Chunk)
  /\ reclaimable \in Seq(Chunk)
  /\ allocatable \in Nat
  /\ stopping \in BOOLEAN
  /\ leave_dirty \in BOOLEAN
  /\ lock \in Thread \cup {None}
  /\ asleep \subseteq Thread
  /\ pc \in [Thread -> WorkerPc \cup CleanerPc \cup MainPc]
  /\ \A t \in Worker : pc[t] \in WorkerPc
  /\ pc[Cleaner] \in CleanerPc
  /\ pc[Main] \in MainPc
  /\ cur \in [Thread -> Chunk \cup {None}]
  /\ victim \in [Thread -> Chunk \cup {None}]
  /\ \A t \in Thread :
       /\ pc[t] \in EntryPc \cup {"cwait", "chold", "cwrite"} => cur[t] \in Chunk
       /\ pc[t] \in {"evict", "steal"} => victim[t] \in Chunk
  /\ new \in [Thread -> Update]
  /\ out \in [chunk : Chunk, reply : Content \cup {EIO}] \cup {None}
  /\ store \in [Chunk -> Content \cup {Bad}]
  /\ ca_dirty \in BOOLEAN
  /\ acked \in [Chunk -> Whole]
  /\ faulted \subseteq Chunk

-----------------------------------------------------------------------------
(* Helpers                                                                 *)

Goto(t, label) == pc' = [pc EXCEPT ![t] = label]

\* The mutex is free, or t is inside its critical section already.
CanEnter(t) == lock \in {None, t} /\ t \notin asleep

\* g_cond_signal() on a condition with sleepers S wakes one of them.
Woken(S) == IF S = {} THEN {{}} ELSE {{t} : t \in S}

\* The sleepers on reclaimable_cond and on cleaner.cond; the sleepers on an
\* entry's condition are its waiters.
OnReclaimable == {t \in asleep : pc[t] = "buffer"}
OnCleaner == {t \in asleep : pc[t] \in {"nap", "sleep"}}

\* _entry_release() finds no thread inside _entry_acquire().
NoWaiters_Ignored(c) == TRUE
NoWaiters(c) == waiters[c] = {}

\* The signal on reclaimable_cond.
SignalReclaimable_Missing == {{}}
SignalReclaimable == Woken(OnReclaimable)

\* _entry_release(): drop the busy flag, then wake a waiter, or free an entry
\* without a buffer, or make the entry reclaimable.  "also" is woken as well.
EntryRelease(c, hasdata, also) ==
  /\ busy' = [busy EXCEPT ![c] = None]
  /\ IF ~NoWaiters(c)
     THEN /\ \E w \in Woken(asleep \cap waiters[c]) :
               asleep' = asleep \ (w \cup also)
          /\ UNCHANGED <<chunks, reclaimable>>
     ELSE IF ~hasdata
     THEN /\ chunks' = chunks \ {c}
          /\ asleep' = asleep \ also
          /\ UNCHANGED reclaimable
     ELSE /\ reclaimable' = Append(reclaimable, c)
          /\ \E w \in SignalReclaimable : asleep' = asleep \ (w \cup also)
          /\ UNCHANGED chunks

\* entry_set_error()
EntrySetError_EntryOnly(c) ==
  /\ error' = [error EXCEPT ![c] = TRUE]
  /\ faulted' = faulted \cup {c}
  /\ UNCHANGED leave_dirty
EntrySetError(c) ==
  /\ error' = [error EXCEPT ![c] = TRUE]
  /\ leave_dirty' = TRUE
  /\ faulted' = faulted \cup {c}

\* The outcome of cache_update() and of entry_clean()'s reaction to it.  A
\* failure before pwrite() leaves the stored chunk alone; a failure after it
\* leaves data that the keyring's tag and key do not match, unless the chunk
\* was not in the cache index, in which case it is still fetched elsewhere.
CacheUpdate(c) ==
  \/ /\ store' = [store EXCEPT ![c] = data[c]]
     /\ UNCHANGED <<error, leave_dirty, faulted>>
  \/ /\ \E v \in {store[c], Bad} : store' = [store EXCEPT ![c] = v]
     /\ EntrySetError(c)

\* entry_clean() takes the entry off the dirty queue before it is written.
DirtyUnlinked_Late(c) == dirtyq
DirtyUnlinked(c) == Unlinked(dirtyq, c)

\* The outcome of cache_get() and of entry_acquire()'s reaction to it.
CacheGet_Unchecked(c) ==
  /\ UNCHANGED <<error, leave_dirty, faulted>>
  /\ \/ store[c] # Bad /\ data' = [data EXCEPT ![c] = store[c]]
     \/ UNCHANGED data
CacheGet(c) ==
  \/ /\ store[c] # Bad
     /\ data' = [data EXCEPT ![c] = store[c]]
     /\ UNCHANGED <<error, leave_dirty, faulted>>
  \/ /\ EntrySetError(c)
     /\ UNCHANGED data

\* entry_acquire()'s with_data: image_read() always needs the old contents,
\* image_write() unless it overwrites the whole chunk.
WithData_ReadsOnly(t) == DOMAIN new[t] = {}
WithData(t) == DOMAIN new[t] # Part

\* The request is answered, and the thread's locals die.
Reply(t, reply) ==
  /\ out' = [chunk |-> cur[t], reply |-> reply]
  /\ cur' = [cur EXCEPT ![t] = None]
  /\ new' = [new EXCEPT ![t] = <<>>]
  /\ Goto(t, "idle")
  /\ UNCHANGED victim

AfterBuffer(t) == IF WithData(t) THEN "fill" ELSE "have"

-----------------------------------------------------------------------------
(* image_read() and image_write(): one chunk of a request                  *)

\* entry_acquire(): find or create the entry, enter _entry_acquire().
Request(t, c, u) ==
  /\ pc[t] = "idle"
  /\ pc[Main] = "serve"
  /\ lock = None
  /\ lock' = t
  /\ cur' = [cur EXCEPT ![t] = c]
  /\ new' = [new EXCEPT ![t] = u]
  /\ chunks' = chunks \cup {c}
  /\ error' = IF c \in chunks THEN error ELSE [error EXCEPT ![c] = FALSE]
  /\ reclaimable' = Unlinked(reclaimable, c)
  /\ waiters' = [waiters EXCEPT ![c] = @ \cup {t}]
  /\ Goto(t, "entry")
  /\ UNCHANGED <<busy, data, dirty, dirtyq, allocatable, victim, out,
                 sessionvars, asleep>>

\* _entry_acquire(): wait while the entry is busy.
AwaitEntry(t) ==
  /\ pc[t] = "entry"
  /\ CanEnter(t)
  /\ busy[cur[t]] # None
  /\ asleep' = asleep \cup {t}
  /\ lock' = None
  /\ UNCHANGED <<entryvars, bufvars, threadvars, sessionvars, pc>>

\* _entry_acquire(): the loop on the busy flag ends.
NotBusy_TestedOnce(t) == busy[cur[t]] = None \/ lock = None
NotBusy(t) == busy[cur[t]] = None

\* _entry_acquire(): take the busy flag.
AcquireEntry(t) ==
  /\ pc[t] = "entry"
  /\ CanEnter(t)
  /\ NotBusy(t)
  /\ busy' = [busy EXCEPT ![cur[t]] = t]
  /\ waiters' = [waiters EXCEPT ![cur[t]] = @ \ {t}]
  /\ lock' = t
  /\ Goto(t, "owned")
  /\ UNCHANGED <<chunks, reclaimable, bufvars, threadvars, sessionvars, asleep>>

\* entry_acquire(): the entry has a buffer.
Hit(t) ==
  /\ pc[t] = "owned"
  /\ data[cur[t]] # None
  /\ lock' = None
  /\ Goto(t, "have")
  /\ UNCHANGED <<entryvars, bufvars, threadvars, sessionvars, asleep>>

\* image.allocatable says that a buffer may be allocated.
MayAllocate == allocatable > 0

\* entry_acquire(): allocate a buffer.
Allocate(t) ==
  /\ pc[t] = "owned"
  /\ data[cur[t]] = None
  /\ MayAllocate
  /\ allocatable' = allocatable - 1
  /\ data' = [data EXCEPT ![cur[t]] = [p \in Part |-> Junk]]
  /\ lock' = None
  /\ Goto(t, AfterBuffer(t))
  /\ UNCHANGED <<entryvars, dirty, error, dirtyq, threadvars, sessionvars,
                 asleep>>

\* The thread holds an entry without a buffer and none can be allocated.
NeedsBuffer(t) ==
  /\ pc[t] \in {"owned", "buffer"}
  /\ CanEnter(t)
  /\ data[cur[t]] = None
  /\ ~MayAllocate

\* entry_acquire(): wait on reclaimable_cond.
AwaitBuffer(t) ==
  /\ NeedsBuffer(t)
  /\ reclaimable = <<>>
  /\ asleep' = asleep \cup {t}
  /\ lock' = None
  /\ Goto(t, "buffer")
  /\ UNCHANGED <<entryvars, bufvars, threadvars, sessionvars>>

\* entry_acquire() tests reclaim->dirty.
MustClean_Forgotten(c) == FALSE
MustClean(c) == dirty[c] # "clean"

\* entry_acquire(): take the least recently used idle entry.  If it is dirty,
\* entry_clean() takes it off the dirty queue and unlocks to write it back.
Reclaim(t) ==
  LET r == Head(reclaimable) IN
  /\ NeedsBuffer(t)
  /\ reclaimable # <<>>
  /\ victim' = [victim EXCEPT ![t] = r]
  /\ reclaimable' = Unlinked(reclaimable, r)
  /\ busy' = [busy EXCEPT ![r] = t]
  /\ IF MustClean(r)
     THEN /\ dirtyq' = DirtyUnlinked(r)
          /\ lock' = None
          /\ Goto(t, "evict")
     ELSE /\ lock' = t
          /\ Goto(t, "steal")
          /\ UNCHANGED dirtyq
  /\ UNCHANGED <<chunks, waiters, data, dirty, error, allocatable, cur, new,
                 out, sessionvars, asleep>>

\* entry_clean() for a reclaimed entry: the write, then the mutex again.
EvictWrite(t) ==
  /\ pc[t] = "evict"
  /\ lock = None
  /\ CacheUpdate(victim[t])
  /\ dirty' = [dirty EXCEPT ![victim[t]] = "clean"]
  /\ lock' = t
  /\ Goto(t, "steal")
  /\ UNCHANGED <<entryvars, data, dirtyq, allocatable, threadvars, stopping,
                 ca_dirty, acked, asleep>>

\* The entries' buffers once t has taken over that of its victim.
BuffersMoved_Shared(t) == [data EXCEPT ![cur[t]] = data[victim[t]]]
BuffersMoved(t) ==
  [data EXCEPT ![cur[t]] = data[victim[t]], ![victim[t]] = None]

\* entry_acquire(): move the buffer over and release the reclaimed entry.
Steal(t) ==
  /\ pc[t] = "steal"
  /\ data' = BuffersMoved(t)
  /\ EntryRelease(victim[t], FALSE, {})
  /\ victim' = [victim EXCEPT ![t] = None]
  /\ lock' = None
  /\ Goto(t, AfterBuffer(t))
  /\ UNCHANGED <<waiters, dirty, error, dirtyq, allocatable, cur, new, out,
                 sessionvars>>

\* entry_acquire(): populate the buffer, without the mutex.
Fill(t) ==
  /\ pc[t] = "fill"
  /\ CacheGet(cur[t])
  /\ Goto(t, "have")
  /\ UNCHANGED <<entryvars, dirty, dirtyq, allocatable, threadvars, stopping,
                 store, ca_dirty, acked, lock, asleep>>

\* The entry is in error: release it and fail the request.
Refuse_KeepsEntry(t) ==
  /\ pc[t] = "have"
  /\ lock = None
  /\ error[cur[t]]
  /\ Reply(t, EIO)
  /\ UNCHANGED <<entryvars, bufvars, sessionvars, lock, asleep>>
Refuse(t) ==
  /\ pc[t] = "have"
  /\ lock = None
  /\ error[cur[t]]
  /\ EntryRelease(cur[t], TRUE, {})
  /\ Reply(t, EIO)
  /\ UNCHANGED <<waiters, bufvars, sessionvars, lock>>

\* image_read(): copy the contents out and release the entry.
FinishRead(t) ==
  /\ pc[t] = "have"
  /\ lock = None
  /\ ~error[cur[t]]
  /\ DOMAIN new[t] = {}
  /\ EntryRelease(cur[t], TRUE, {})
  /\ Reply(t, data[cur[t]])
  /\ UNCHANGED <<waiters, bufvars, sessionvars, lock>>

\* entry_release() signals the cleaner if the entry heads the dirty queue.
SignalCleaner_Missing == {}
SignalCleaner == IF dirtyq = <<>> THEN OnCleaner ELSE {}

\* image_write(): copy the contents in; entry_release() queues an entry that
\* was clean.
FinishWrite(t) ==
  LET c == cur[t]
      content == Merge(data[c], new[t])
  IN
  /\ pc[t] = "have"
  /\ lock = None
  /\ ~error[c]
  /\ DOMAIN new[t] # {}
  /\ data' = [data EXCEPT ![c] = content]
  /\ acked' = [acked EXCEPT ![c] = Merge(@, new[t])]
  /\ IF dirty[c] = "clean"
     THEN /\ dirty' = [dirty EXCEPT ![c] = "fresh"]
          /\ dirtyq' = Append(dirtyq, c)
          /\ EntryRelease(c, TRUE, SignalCleaner)
     ELSE /\ EntryRelease(c, TRUE, {})
          /\ UNCHANGED <<dirty, dirtyq>>
  /\ Reply(t, content)
  /\ UNCHANGED <<waiters, error, allocatable, stopping, leave_dirty, store,
                 ca_dirty, faulted, lock>>

-----------------------------------------------------------------------------
(* entry_clean_all(): run by image_sync(), entry_cleaner(), image_shutdown() *)

Forced(t) == t # Cleaner

\* image_sync()
SyncRequest(t) ==
  /\ pc[t] = "idle"
  /\ pc[Main] = "serve"
  /\ lock = None
  /\ lock' = t
  /\ Goto(t, "loop")
  /\ UNCHANGED <<entryvars, bufvars, threadvars, sessionvars, asleep>>

\* Peek at the head of the dirty queue and enter _entry_acquire().
CleanNext(t) ==
  LET h == Head(dirtyq) IN
  /\ pc[t] = "loop"
  /\ dirtyq # <<>>
  /\ cur' = [cur EXCEPT ![t] = h]
  /\ reclaimable' = Unlinked(reclaimable, h)
  /\ waiters' = [waiters EXCEPT ![h] = @ \cup {t}]
  /\ Goto(t, "cwait")
  /\ UNCHANGED <<chunks, busy, bufvars, victim, new, out, sessionvars, lock,
                 asleep>>

CleanAwait(t) ==
  /\ pc[t] = "cwait"
  /\ CanEnter(t)
  /\ busy[cur[t]] # None
  /\ asleep' = asleep \cup {t}
  /\ lock' = None
  /\ UNCHANGED <<entryvars, bufvars, threadvars, sessionvars, pc>>

CleanAcquire(t) ==
  /\ pc[t] = "cwait"
  /\ CanEnter(t)
  /\ NotBusy(t)
  /\ busy' = [busy EXCEPT ![cur[t]] = t]
  /\ waiters' = [waiters EXCEPT ![cur[t]] = @ \ {t}]
  /\ lock' = t
  /\ Goto(t, "chold")
  /\ UNCHANGED <<chunks, reclaimable, bufvars, threadvars, sessionvars, asleep>>

\* The entry was cleaned while the thread waited for it.
CleanSkip(t) ==
  /\ pc[t] = "chold"
  /\ dirty[cur[t]] = "clean"
  /\ cur' = [cur EXCEPT ![t] = None]
  /\ EntryRelease(cur[t], data[cur[t]] # None, {})
  /\ Goto(t, "loop")
  /\ UNCHANGED <<waiters, bufvars, victim, new, out, sessionvars, lock>>

\* The head of the queue is not ripe, and so nothing behind it is.
CleanBreak(t) ==
  /\ pc[t] = "chold"
  /\ dirty[cur[t]] = "fresh"
  /\ ~Forced(t)
  /\ cur' = [cur EXCEPT ![t] = None]
  /\ EntryRelease(cur[t], data[cur[t]] # None, {})
  /\ Goto(t, "rest")
  /\ UNCHANGED <<waiters, bufvars, victim, new, out, sessionvars, lock>>

\* entry_clean(): take the entry off the dirty queue and unlock.
CleanStart(t) ==
  /\ pc[t] = "chold"
  /\ dirty[cur[t]] = "ripe" \/ (dirty[cur[t]] = "fresh" /\ Forced(t))
  /\ dirtyq' = DirtyUnlinked(cur[t])
  /\ lock' = None
  /\ Goto(t, "cwrite")
  /\ UNCHANGED <<entryvars, data, dirty, error, allocatable, threadvars,
                 sessionvars, asleep>>

\* entry_clean(): the write, the mutex again, and the release.
CleanWrite(t) ==
  /\ pc[t] = "cwrite"
  /\ lock = None
  /\ CacheUpdate(cur[t])
  /\ dirty' = [dirty EXCEPT ![cur[t]] = "clean"]
  /\ cur' = [cur EXCEPT ![t] = None]
  /\ EntryRelease(cur[t], data[cur[t]] # None, {})
  /\ lock' = t
  /\ Goto(t, "loop")
  /\ UNCHANGED <<waiters, data, dirtyq, allocatable, victim, new, out, stopping,
                 ca_dirty, acked>>

\* image_sync() returns once the queue is empty.
SyncReturn_AfterOneRound(t) ==
  /\ t \in Worker
  /\ pc[t] = "loop"
  /\ lock' = None
  /\ Goto(t, "idle")
  /\ UNCHANGED <<entryvars, bufvars, threadvars, sessionvars, asleep>>
SyncReturn(t) ==
  /\ t \in Worker
  /\ pc[t] = "loop"
  /\ dirtyq = <<>>
  /\ lock' = None
  /\ Goto(t, "idle")
  /\ UNCHANGED <<entryvars, bufvars, threadvars, sessionvars, asleep>>

-----------------------------------------------------------------------------
(* entry_cleaner()                                                         *)

\* Sleep until the head of the queue is ripe, or until a chunk is dirtied.
CleanerRest ==
  /\ pc[Cleaner] = "rest" \/ (pc[Cleaner] = "loop" /\ dirtyq = <<>>)
  /\ asleep' = asleep \cup {Cleaner}
  /\ lock' = None
  /\ Goto(Cleaner, IF dirtyq = <<>> THEN "sleep" ELSE "nap")
  /\ UNCHANGED <<entryvars, bufvars, threadvars, sessionvars>>

\* Woken, or just started: look at the stop flag.
CleanerWake ==
  /\ pc[Cleaner] \in {"nap", "sleep"}
  /\ Cleaner \notin asleep
  /\ lock = None
  /\ IF stopping
     THEN Goto(Cleaner, "exit") /\ UNCHANGED lock
     ELSE Goto(Cleaner, "loop") /\ lock' = Cleaner
  /\ UNCHANGED <<entryvars, bufvars, threadvars, sessionvars, asleep>>

\* g_cond_timed_wait() returns.
CleanerTimeout ==
  /\ pc[Cleaner] = "nap"
  /\ Cleaner \in asleep
  /\ asleep' = asleep \ {Cleaner}
  /\ UNCHANGED <<entryvars, bufvars, threadvars, sessionvars, lock, pc>>

-----------------------------------------------------------------------------
(* image_shutdown() and fuse_shutdown()                                    *)

\* fuse_loop_mt() has returned: tell the cleaner to stop.
StopCleaner ==
  /\ pc[Main] = "serve"
  /\ \A t \in Worker : pc[t] = "idle"
  /\ lock = None
  /\ stopping' = TRUE
  /\ asleep' = asleep \ OnCleaner
  /\ Goto(Main, "join")
  /\ UNCHANGED <<entryvars, bufvars, threadvars, leave_dirty, store, ca_dirty,
                 acked, faulted, lock>>

\* g_thread_join() returns.
CleanerGone_Detached == TRUE
CleanerGone == pc[Cleaner] = "exit"

\* g_thread_join(), then the mutex for entry_clean_all().
JoinCleaner ==
  /\ pc[Main] = "join"
  /\ CleanerGone
  /\ lock = None
  /\ lock' = Main
  /\ Goto(Main, "loop")
  /\ UNCHANGED <<entryvars, bufvars, threadvars, sessionvars, asleep>>

\* image_shutdown(): acquire a reclaimable entry, free its buffer, release it.
FreeEntry ==
  LET c == Head(reclaimable) IN
  /\ pc[Main] = "loop"
  /\ dirtyq = <<>>
  /\ reclaimable # <<>>
  /\ reclaimable' = Unlinked(reclaimable, c)
  /\ data' = [data EXCEPT ![c] = None]
  /\ chunks' = chunks \ {c}
  /\ UNCHANGED <<busy, waiters, dirty, error, dirtyq, allocatable, threadvars,
                 sessionvars, lock, asleep, pc>>

\* fuse_shutdown(): the local cache is clean unless an error was recorded.
ClearFlag ==
  /\ pc[Main] = "loop"
  /\ dirtyq = <<>>
  /\ reclaimable = <<>>
  /\ ca_dirty' = leave_dirty
  /\ lock' = None
  /\ Goto(Main, "done")
  /\ UNCHANGED <<entryvars, bufvars, threadvars, stopping, leave_dirty, store,
                 acked, faulted, asleep>>

-----------------------------------------------------------------------------
(* The environment                                                         *)

\* DIRTY_WRITEBACK_DELAY has passed for an entry, and for all before it.
Expire(i) ==
  /\ dirty[dirtyq[i]] = "fresh"
  /\ \A j \in 1..(i - 1) : dirty[dirtyq[j]] = "ripe"
  /\ dirty' = [dirty EXCEPT ![dirtyq[i]] = "ripe"]
  /\ UNCHANGED <<entryvars, data, error, dirtyq, allocatable, threadvars,
                 sessionvars, lock, asleep, pc>>

\* POSIX lets a condition wait return without a signal.
SpuriousWakeup(t) ==
  /\ t \in asleep
  /\ asleep' = asleep \ {t}
  /\ UNCHANGED <<entryvars, bufvars, threadvars, sessionvars, lock, pc>>

-----------------------------------------------------------------------------

Init ==
  /\ chunks = {}
  /\ busy = [c \in Chunk |-> None]
  /\ waiters = [c \in Chunk |-> {}]
  /\ data = [c \in Chunk |-> None]
  /\ dirty = [c \in Chunk |-> "clean"]
  /\ error = [c \in Chunk |-> FALSE]
  /\ dirtyq = <<>>
  /\ reclaimable = <<>>
  /\ allocatable = Capacity
  /\ stopping = FALSE
  /\ leave_dirty = FALSE
  /\ lock = None
  /\ asleep = {}
  /\ pc = [t \in Thread |-> IF t = Cleaner THEN "sleep"
                            ELSE IF t = Main THEN "serve" ELSE "idle"]
  /\ cur = [t \in Thread |-> None]
  /\ victim = [t \in Thread |-> None]
  /\ new = [t \in Thread |-> <<>>]
  /\ out = None
  /\ store \in [Chunk -> Whole]
  /\ ca_dirty = TRUE
  /\ acked = store
  /\ faulted = {}

\* What a thread does once it has a request, or without one.
EntryStep(t) ==
  \/ AwaitEntry(t) \/ AcquireEntry(t) \/ Hit(t) \/ Allocate(t)
  \/ AwaitBuffer(t) \/ Reclaim(t) \/ EvictWrite(t) \/ Steal(t)
  \/ Fill(t) \/ Refuse(t) \/ FinishRead(t) \/ FinishWrite(t)

CleanStep(t) ==
  \/ CleanNext(t) \/ CleanAwait(t) \/ CleanAcquire(t) \/ CleanSkip(t)
  \/ CleanBreak(t) \/ CleanStart(t) \/ CleanWrite(t) \/ SyncReturn(t)

CleanerStep == CleanStep(Cleaner) \/ CleanerRest \/ CleanerWake

MainStep == CleanStep(Main) \/ JoinCleaner \/ FreeEntry \/ ClearFlag

Next ==
  \/ \E t \in Worker :
       \/ \E c \in Chunk, u \in Update : Request(t, c, u)
       \/ SyncRequest(t)
       \/ EntryStep(t)
       \/ CleanStep(t)
  \/ CleanerStep
  \/ CleanerTimeout
  \/ StopCleaner
  \/ MainStep
  \/ \E i \in DOMAIN dirtyq : Expire(i)
  \/ \E t \in Thread : SpuriousWakeup(t)

Spec == Init /\ [][Next]_vars

\* Every thread runs on unless it is blocked; time passes; a timed wait ends.
\* Requests, the unmount and spurious wakeups need not happen, and a thread
\* that waits for the mutex or for an entry can be overtaken.
Fairness ==
  /\ \A t \in Worker : WF_vars(EntryStep(t) \/ CleanStep(t))
  /\ WF_vars(CleanerStep)
  /\ WF_vars(CleanerTimeout)
  /\ WF_vars(MainStep)
  /\ WF_vars(\E i \in DOMAIN dirtyq : Expire(i))

FairSpec == Spec /\ Fairness

-----------------------------------------------------------------------------
(* Properties                                                              *)

\* The thread has the entry's busy flag; it wants it; it is writing it back.
Holds(t, c) ==
  \/ cur[t] = c /\ pc[t] \in (EntryPc \cup {"chold", "cwrite"}) \ {"entry"}
  \/ victim[t] = c /\ pc[t] \in {"evict", "steal"}
Wants(t, c) == cur[t] = c /\ pc[t] \in {"entry", "cwait"}
Writing(t, c) ==
  \/ cur[t] = c /\ pc[t] = "cwrite"
  \/ victim[t] = c /\ pc[t] = "evict"

\* The buffer need not hold the chunk's contents yet, or any more: it will be
\* populated, or overwritten as a whole, before anybody else can see it.
Raw(c) ==
  \E t \in Worker :
    /\ cur[t] = c
    /\ pc[t] = "fill" \/ (pc[t] = "have" /\ ~WithData(t))

\* The busy flag is set exactly when some thread works on the entry, and the
\* count of waiters is the number of threads inside _entry_acquire().
Ownership ==
  \A c \in Chunk, t \in Thread :
    /\ busy[c] = t <=> Holds(t, c)
    /\ t \in waiters[c] <=> Wants(t, c)

\* The busy flag is exclusive: two threads never use one entry's buffer at the
\* same time, although they use it without the mutex.
Exclusive ==
  \A c \in Chunk, t, u \in Thread : Holds(t, c) /\ Holds(u, c) => t = u

\* No use after free, and no leak: an entry that a thread holds, or waits
\* for, or that has a buffer, has not been freed by _entry_release(), and
\* the entries on the reclaimable queue are exactly the idle ones, each of
\* them with a buffer to reclaim.
EntriesLive ==
  /\ IsInjective(reclaimable)
  /\ \A c \in Chunk :
       /\ busy[c] # None \/ waiters[c] # {} \/ data[c] # None => c \in chunks
       /\ c \in Range(reclaimable) <=>
            c \in chunks /\ busy[c] = None /\ waiters[c] = {}
       /\ c \in Range(reclaimable) => data[c] # None

\* An entry is dirty exactly while it is on the dirty queue or some thread is
\* writing it back, and a dirty entry has a buffer to write and no error.
DirtyTracked ==
  /\ IsInjective(dirtyq)
  /\ \A c \in Chunk :
       /\ dirty[c] # "clean" <=>
            c \in Range(dirtyq) \/ \E t \in Thread : Writing(t, c)
       /\ \A t \in Thread : Writing(t, c) => c \notin Range(dirtyq)
       /\ dirty[c] # "clean" => data[c] # None /\ ~error[c]

\* Where entry_acquire() has got a buffer and where it has not.
BufferPlace(t) ==
  /\ pc[t] \in {"fill", "have"} => data[cur[t]] # None
  /\ pc[t] = "fill" => dirty[cur[t]] = "clean"
  /\ pc[t] \in {"buffer", "evict", "steal"} => data[cur[t]] = None
  /\ pc[t] = "steal" => data[victim[t]] # None /\ dirty[victim[t]] = "clean"
BufferPlaces == \A t \in Thread : BufferPlace(t)

\* A chunk without a recorded error has its acknowledged contents in its
\* buffer if it is dirty, in the buffer and in the local cache if it is clean,
\* and in the local cache if it has no buffer.  With an error recorded, a
\* buffer that is handed out still holds real contents, not leftovers of the
\* chunk it was reclaimed from.
CoherentChunk(c) ==
  /\ data[c] # None /\ ~error[c] /\ ~Raw(c) =>
       /\ data[c] \in Whole
       /\ dirty[c] = "clean" => data[c] = store[c]
       /\ c \notin faulted => data[c] = acked[c]
  /\ dirty[c] # "clean" =>
       data[c] \in Whole /\ (c \notin faulted => data[c] = acked[c])
  /\ c \notin faulted => ~error[c] /\ store[c] # Bad
  /\ c \notin faulted /\ dirty[c] = "clean" => store[c] = acked[c]
  /\ store[c] \in Whole \cup {Bad}
Coherent == \A c \in Chunk : CoherentChunk(c)

\* No reply shows what an uninitialised or a reclaimed buffer happened to hold.
NoJunk == out # None => out.reply \in Whole \cup {EIO}

\* The phases of image_shutdown() and fuse_shutdown().
Phases ==
  /\ stopping <=> pc[Main] # "serve"
  /\ pc[Main] # "serve" => \A t \in Worker : pc[t] = "idle"
  /\ pc[Main] \notin {"serve", "join"} => pc[Cleaner] = "exit"
  /\ pc[Main] = "done" => dirtyq = <<>> /\ reclaimable = <<>>
  /\ faulted # {} => leave_dirty
  /\ ~ca_dirty => pc[Main] = "done" /\ faulted = {}

\* If Parcelkeeper clears the dirty flag of the local cache, every write it
\* acknowledged is in the local cache, and no cache entry is left (the
\* assertion of image_shutdown()).
CleanShutdown ==
  /\ pc[Main] = "done" => chunks = {}
  /\ ~ca_dirty => store = acked

\* Buffers are neither leaked nor made: until image_shutdown() frees them, as
\* many exist as have been allocated.
BuffersConserved ==
  LET buffers == Cardinality({c \in Chunk : data[c] # None}) IN
  IF stopping THEN allocatable + buffers <= Capacity
              ELSE allocatable + buffers = Capacity

\* No wakeup is lost: an entry that is not busy has no waiters or one that
\* is awake; if threads sleep for want of a buffer, then enough are awake to
\* take every reclaimable entry; and the cleaner does not sleep without a
\* timeout while there are entries to clean.
NoLostWakeup ==
  /\ \A c \in Chunk :
       busy[c] = None /\ waiters[c] # {} => ~(waiters[c] \subseteq asleep)
  /\ OnReclaimable # {} =>
       Len(reclaimable) <=
         Cardinality({t \in Thread \ asleep : pc[t] = "buffer"})
  /\ pc[Cleaner] = "sleep" /\ Cleaner \in asleep => dirtyq = <<>>

\* The inductive invariant.
IInv ==
  /\ TypeOK
  /\ Ownership
  /\ EntriesLive
  /\ DirtyTracked
  /\ BufferPlaces
  /\ Coherent
  /\ NoJunk
  /\ Phases

\* The chunk cache implements the atomic disk: what the requests acknowledged
\* is the disk, what cache_get() would return is durable.
Disk == INSTANCE AtomicDisk WITH disk <- acked, durable <- store
AtomicDiskSpec == Disk!Spec

\* From some time on no request arrives, and only signals and timeouts wake.
Quiet ==
  <>[][/\ \A t \in Worker : pc[t] = "idle" => pc'[t] = "idle"
       /\ ~\E t \in Thread : pc[t] # "nap" /\ SpuriousWakeup(t)]_vars

\* Every request is answered and every fsync returns once the load ceases,
\* whatever the threads wait for then: the mutex, an entry or a buffer.
RequestsServed == Quiet => \A t \in Worker : pc[t] # "idle" ~> pc[t] = "idle"

\* Every dirty chunk is written back once the load ceases, by the cleaner if
\* by nobody else, and however the unmount interferes.
WrittenBack ==
  Quiet => \A c \in Chunk : dirty[c] # "clean" ~> dirty[c] = "clean"

\* After the unmount Parcelkeeper stops the cleaner thread and shuts down.
ShutdownCompletes == stopping ~> pc[Main] = "done"

=============================================================================
