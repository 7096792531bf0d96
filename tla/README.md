# A verification development for OpenISR

OpenISR suspends a virtual machine on one computer and resumes it on another.
The virtual disk of a *parcel* is cut into chunks, which are stored on a server.
A client checks a parcel out, runs it on top of *Parcelkeeper*, a FUSE daemon
that presents the disk as a file, and checks it in again.

This directory holds TLA+ models of the code, configurations that check them
with TLC on small instances, and proofs of the central invariants that TLAPS
checks for every size of the system.

## The parts of the system

| Part | Source | Here |
| --- | --- | --- |
| Chunk cache: write-back cache of decoded chunks, shared by the FUSE threads and a cleaner thread | `parcelkeeper/fuse_image.c` | `ChunkCache`, `Queues`, `AtomicDisk`, `IoCursor`, `ChunkCacheProofs` |
| Filesystem operations: mount, read, write, fsync, shutdown | `parcelkeeper/fuse.c` | fsync and shutdown in `ChunkCache` and `FsyncOrder`, the flags in `LocalCache` |
| Local cache: encoded chunks in one file, keyring and cache index in SQLite, flags in the header | `parcelkeeper/cache.c` | `LocalCache`, `PowerLoss` |
| Validate and upload modes | `parcelkeeper/cache_modes.c` | `LocalCache`, `PowerLoss` |
| Hoard cache: chunks of all parcels, shared by processes | `parcelkeeper/hoard.c`, `hoard_modes.c` | `Hoard` |
| Transport: fetches chunks over HTTP | `parcelkeeper/transport.c` | `Transport` |
| Lock files | `parcelkeeper/util.c` | `LockFile` |
| Start and stop | `parcelkeeper/main.c`, `util.c` | `Startup`, `LockedStart` |
| SQLite wrapper: transactions, busy handling | `sqlite/wrapper.c` | `SqlTxn` |
| Client: checkout, run, sync, checkin, discard | `client/isr.in` | `Checkin` |
| Server: parcel lock, commit, rollback, check | `locksrv/srv_*.pm`, `Server.pm` | `ParcelStore` |
| Chunk encoding, ciphers, hashes, compressors, the rest of SQLite, command-line tools, VMM drivers | `libutil/`, `crypto/`, `sqlite/sqlite3.c`, `tools/`, `vmm/` | not modelled (see below) |

A read of the virtual machine goes through the chunk cache; on a miss,
`cache_get()` takes the chunk from the local cache, from the hoard cache or from
the server, in this order, and checks it against the keyring.  A write changes
the chunk in the chunk cache only; `cache_update()` encodes it and writes it to
the local cache later.  A flag in the header of the local cache says that a
session is under way or did not end cleanly; an upload is refused while it is
set.

## Modules

### ChunkCache

Models `fuse_image.c` and the end of a session in `fuse.c`.  Every variable
stands for a field of `struct pk_fuse` or `struct cache_entry`, or for what a
thread has on its stack; the variable declarations name them.

* The mutex `image.lock` is the variable `lock`.  A critical section of the code
  is one action where nothing can interleave with it, and several actions that
  keep the lock where the code branches.  A step that unlocks or waits on a
  condition ends the critical section.
* `asleep` is the set of threads inside `g_cond_wait()`.  A signal wakes any one
  of the sleepers of its condition, and a woken thread competes for the mutex
  with everybody else.  A wait may also return without a signal.
* `busy[c]` holds the thread that set the busy flag instead of a Boolean, and
  `waiters[c]` the threads counted by `entry.waiters`.  No action reads more from
  them than the code can; the identities are for the properties.
* Time is abstracted.  A dirty entry is "fresh" until `DIRTY_WRITEBACK_DELAY` has
  passed and "ripe" afterwards; entries ripen in the order of the queue.
* The contents of a chunk are a function from pieces to values.  A request names
  the pieces it writes; a read is a request that writes none.  A request that
  names all pieces is the `whole_chunk` case of `image_write()`, which skips
  `cache_get()`.  A new buffer holds `Junk`; a recycled one holds what its last
  chunk left in it.
* The local cache is the variable `store`.  `cache_update()` may fail before or
  after it has written (then the stored chunk may be undecodable), `cache_get()`
  may fail at any time and must fail on an undecodable chunk.
* `acked` and `faulted` are history variables: each chunk as the acknowledged
  writes left it, and the chunks on which `entry_set_error()` was ever called.

| Code | Actions |
| --- | --- |
| `entry_acquire()`, `_entry_acquire()` | `Request`, `AwaitEntry`, `AcquireEntry`, `Hit`, `Allocate`, `AwaitBuffer`, `Reclaim`, `EvictWrite`, `Steal`, `Fill` |
| `image_read()`, `image_write()`, `entry_release()` | `Refuse`, `FinishRead`, `FinishWrite` |
| `entry_clean_all()`, `entry_clean()` | `CleanNext`, `CleanAwait`, `CleanAcquire`, `CleanSkip`, `CleanBreak`, `CleanStart`, `CleanWrite` |
| `image_sync()` | `SyncRequest`, `SyncReturn` |
| `entry_cleaner()` | `CleanerRest`, `CleanerWake`, `CleanerTimeout` |
| `image_shutdown()`, `fuse_shutdown()` | `StopCleaner`, `JoinCleaner`, `FreeEntry`, `ClearFlag` |
| `_entry_release()`, `entry_set_error()`, `cache_update()`, `cache_get()` | the operators `EntryRelease`, `EntrySetError`, `CacheUpdate`, `CacheGet` inside these actions |

A request of several chunks is several requests here, because `image_read()` and
`image_write()` hold one entry at a time.

### IoCursor

`io_start()` and `io_chunk()`: how a request is cut into pieces of chunks.  The
fields of the cursor wrap at `2^Width`, so a disk larger than an unsigned can
address is one of a few dozen bytes.  The module has no state: `IoChunk` is a call of
`io_chunk()` on a cursor, and `Cursors` the sequence of cursors that the loop of
`image_read()` or `image_write()` sees.  What they have to do is the assumption
`RequestsCutRight`, which TLC evaluates for all requests in the bounds when it starts a
run of `MCChunkCache`; no proof uses it.

### AtomicDisk

What the chunk cache promises: an array of registers that are read and written
atomically, except on chunks with a recorded I/O error; the local cache only ever
takes over what is on the disk; the session is closed clean only if nothing
failed and the local cache has everything.  `ChunkCache` implements it under the
mapping `disk <- acked, durable <- store`.

### FsyncOrder

`ChunkCache` with a history variable that remembers which chunks an fsync owes.

### LockFile

Models `acquire_lockfile()` and `release_lockfile()`: one action per system call.
A file is an inode with or without a name; `open()` takes the inode that has the
name or makes one, `fcntl()` locks the inode, `unlink()` takes the name from
whichever inode has it, and closing the file or dying gives up the lock.  An inode
that nobody has open can be used again.  The client's `acquire_lock()` and
`release_lock()` (`client/isr.in`) make the same calls.

| Code | Actions |
| --- | --- |
| `acquire_lockfile()` | `Begin`, `Open`, `Lock` or `Busy`, `Keep` or `Retry` |
| `release_lockfile()` | `Unlink`, `Release` |
| death of the process, error returns | `Crash` |

### LocalCache and PowerLoss

The files of a parcel on the client across the processes that use them: the cache
image with its header flags, the cache index and the keyring.  One process at a
time has the lock (see `Startup`) and runs in one mode.  `Crash` ends it between any
two effects; what it has written stays.  A tag stands for the contents it is
computed from.  `wrote` is the history of what the updates of the sessions have
committed (an update that fails is reported as an error and is not in it), `lapse` of a
crash between the reverting of a chunk and the damaged flag, and `unread` counts the
chunks a validation could not read.  Each validation is full or not and splices or
not.

| Code | Actions |
| --- | --- |
| `cache_init()`, `create_cache_file()`, `open_cache_file()` | `Start`, `CreateFile`, `CreateHeader`, `CreateIndex` |
| `cache_set_flag()`, `cache_clear_flag()` | `SetFlags` inside other actions, `Synchronize` |
| `fuse_init()`, `fuse_shutdown()` | `FuseInit`, `FuseShutdown` |
| `cache_update()` | `UpdateBegins`, `UpdateWrites`, `UpdateCommits`, `ChunkError` |
| `validate_cache()` | `Validate`, `MarkDamaged`, `Unmark` |
| `copy_for_upload()`, discarding the cache | `Upload`, `Discard` |

The keyring and the index are committed together: a crash of the process leaves
both or neither, by SQLite's master journal.  The databases are whole, so the
repairs of `validate_sqlite()` and `validate_keyring()` are not modelled; nor are
the retry of a busy update (it rewrites the same data), the shared memory segment
and the examine mode.

`PowerLoss` extends `LocalCache` with what may be on the disk.  The cache file is
synchronized by `cache_set_flags()`, `fuse_shutdown()` and `do_fsync()`, the
databases never (`PRAGMA synchronous = OFF`).  `LosePower` picks any committed
version of each database and, for each slot and for the flags, any value written
since the last synchronization.  Power is lost only once the files exist.

### Hoard

Several processes share the hoard file and its index.  A process reserves slots in
the index, fills them through its private slot cache, and writes the cache back
when it is full or when the process ends.  An index transaction is a step that
starts, one that may write the file, and one that commits or rolls back; reads of
the file come after the transaction, as in the code.  `Threaded` processes may
store a chunk while another thread looks one up.

| Code | Actions |
| --- | --- |
| `hoard_put_chunk()`, `allocate_slot()`, `expand_slot_cache()`, `_flush_slot_cache()` | `PutInSlot`, `PutInNewSlot`, `WriteStarts`, `WriteEnds`, `Commit`, `Busy`, `Rollback` |
| `hoard_get_chunk()` and the invalidations | `Find`, `ReadChunk`, `InvalidateChunk`, `InvalidateSlot`, `InvalidateFails` |
| `hoard_sync_refs()`, `rmhoard()`, `gchoard()` and the compaction | `ChangeRefs`, `Gc`, `BeginMoves`, `MoveChunk`, `MoveFails`, `EndMoves`, `Truncate` |
| `hoard_init()`, `hoard_shutdown()`, `hoard_try_cleanup()` | `Open`, `Shutdown`, `FlushSlots`, `FlushFails`, `TryCleanup`, `Cleanup`, `CleanupFails` |
| death of a process, damage to the file | `Crash`, `Damage` |

### Transport

Threads fetch chunks through a pool of curl handles.  A buffer belongs to a thread;
a handle points to the buffer of the thread that used it last.  The server sends
the chunk or something else, and a transfer can fail after any block.  PK_CALLFAIL
and PK_IOERR are one outcome, because neither is retried.

| Code | Actions |
| --- | --- |
| `transport_conn_get()`, `transport_conn_alloc()`, `transport_conn_put()` | `ConnGet`, `AllocFails`, `ConnPut` |
| `transport_get()`, `curl_callback()` | `SetoptFails`, `Setup`, `Receive`, `Complete`, `Fails` |
| `transport_fetch_chunk()` | `Fetch`, `Retry`, `GivesUp`, `Judge` |

### SqlTxn

Connections with several attached databases run jobs, sequences of transactions,
under SQLite's file locks (shared, reserved, pending, exclusive).  Three functions use
the connection of the hoard cache's index inside a transaction of their own, to whose
connection the same index is attached: `copy_for_upload()` stores chunks
(`CopyForUpload`), `hoard()` fetches and stores them (`HoardParcel`), and
`check_hoard_data()` invalidates damaged ones (`CheckHoard`).  Nothing else in
Parcelkeeper nests transactions: `cache_get()` commits before it asks the hoard cache or
the server.

A transaction is a sequence of operations, and the lock rules are those of the vendored
version.

| SQLite | Operations and actions |
| --- | --- |
| `BEGIN IMMEDIATE` | one `reserve` for each attached database; it needs no schemas |
| `VACUUM` | `ATTACH`, a statement that needs the schemas, then `BEGIN EXCLUSIVE`, one `exclude` for each attached database: `Reserve`, then `ToPending` while there are readers, `ToExclusive` |
| the first statement without schemas | `LoadSchema` takes a shared lock on one attached database after the other, which the transaction keeps; `SchemasLoaded` |
| a statement on a file | `read`, `write`: `Query` |
| a statement on temporary tables | `temp`, `create`: `Query` without a lock |
| the busy handler | `BusyWait`, for a database on which the transaction has no lock yet, and for the step from pending to exclusive |
| `SQLITE_BUSY` and the rollback | `GivesUp`; the schemas are flushed after a `VACUUM` or if a table was created or dropped |
| `COMMIT` | `ToPending`, `ToExclusive` for the files that were changed, `EndTransaction` |

A write is taken to change its file.  One process's `VACUUM` also makes the others read
the schema of that file again when they next use it, and this is left out: for an
attached database only that one schema is read in, and the main database of a calling
connection is in memory or a keyring that its own process has locked.  The statements of `validate_db()` are transactions of their
own before the first one of `check_hoard()` and are left out as well.

### Startup and LockedStart

`Startup` is `main()` and `fork_and_wait()`, for several invocations on one parcel, with
a lock that is taken and given up in one step.  Subsystems come up and go down
one by one, each can fail to come up, signals set a flag, and a process can be
killed at any step, which frees its lock and its pipe and leaves the pid file.
An invocation with a pipe runs in the background (`InBackground`).  When it
has ended, another may follow.

| Code | Actions |
| --- | --- |
| `fork_and_wait()` | `ForkAndWait`, `ParentReads` |
| `main()` up to the mode's function | `AcquireLock`, `CreatePidfile`, `InitSubsystem`, `ReleaseParent`, `Work` |
| `main()` from the label `shutdown` | `ShutSubsystem`, `UnlinkPidfile`, `ReleaseLock`, `CloseLock`, `Report`, `Exit` |
| `generic_signal_handler()`, death of the process, next invocation | `Signal`, `Kill`, `Restart` |

`LockedStart` composes it with `LockFile`: in place of `AcquireLock` and `ReleaseLock`
it has the system calls on the lock file, `Acquiring`, `Acquired` or `Refused`, and
`Unlinks`, `Closes` or `NothingToRelease`, and a process may die between any two of them.  It
implements `Startup` (`AtomicLock`) with `holder` for the lock: the process to which
`acquire_lockfile()` has returned success and which has not called
`release_lockfile()`.  An acquisition of the atomic lock may fail although the lock is free,
because `acquire_lockfile()` does so while another process has the file locked and is
about to test it, or has unlinked it and is about to close it.

### ParcelStore and Checkin

`ParcelStore` is the parcel's directory on the server.  The newest version holds all
chunks, an older one those its successor changed.  Every rename, unlink and mkdir
of `srv_commit.pm` is a step, and the program can be killed after any of them.
`Checkin` adds the clients and the connections between them: an answer can be lost
while the program that was to give it goes on.  `committed` is the history of the
versions; `Restored(v)` puts version `v` together from the directories.

| Code | Actions |
| --- | --- |
| `srv_lock.pm` | `Acquire`, `SoftReleased` inside the client's actions |
| `srv_commit.pm` | `CheckNonce`, `Scan`, `MakeNext`, `MoveHdk`, `MakeHdk`, `MoveCfg`, `MoveKeyring`, `PassOver`, `EnterDir`, `MoveOld`, `MoveNew`, `UnlinkLast`, `LinkLast`, `RemoveUploads` |
| `srv_rollback.pm` | `RollbackNonce`, `RollbackTarget`, `MakeCache`, `CopyVersion`, `CopyFiles`, then the steps of a commit |
| `srv_checkparcel.pm` | `Consistent`, as the guard of `CheckParcel` and `CheckUpload` |
| `checkout()`, `run()`, `checkin()`, `clean()` | `Checkout`, `NonceLost`, `StartRollback`, `RollbackReturns`, `RollbackReplyLost`, `Fetch`, `Run`, `Release`, `ReleaseLost`, `Clean`, `ForceClean` |
| `upload()`, `commit()`, `clientcommit()` | `Send`, `SendFails`, `CheckParcel`, `CheckUpload`, `StartCommit`, `CommitReturns`, `CommitReplyLost`, `ClientCommit` |

One step each, although the code takes several: the reading of `checkparcel`, the
copy of one version in a rollback, the creation of the lock with its nonce, the
comparison and unlink of a soft release, and `clientcommit()`.  Nonces are fresh.
A partial upload is any subset of the chunk files.  The contents of the
configuration archive are not tracked.  A rollback under the caller's own lock
(without `-N`) is not modelled.

### Queues

The two queues of the chunk cache.  `Unlinked` is `queue_delete_with_link()`: it
takes an entry out wherever it is and does nothing to an entry that is not linked.
`queue_push_tail_with_link()` is `Append`; its assertion, that the entry is not linked
yet, is part of `DirtyTracked` and `EntriesLive` (no entry is twice in a queue).

### Proof modules

| Module | Holds |
| --- | --- |
| `ChunkCacheProofs` | what appending, unlinking and taking the head do to a queue; each conjunct of `IInv` is preserved; the theorems about the chunk cache, the refinement of `AtomicDisk`, buffers, wakeups and `FsyncOrder` |
| `LockedStartProofs` | the theorems about the lock file, about start and stop with an atomic lock, and the refinement |
| `SqlTxnProofs` | which locks a transaction has; the theorem about nested transactions |
| `PowerLossProofs` | the theorems about the local cache and the loss of power |
| `HoardProofs` | facts about the rows of the index and the slot caches, one lemma for each kind of transaction; the theorems about the hoard |
| `TransportProofs` | the theorems about the connection pool and the fetch |
| `ParcelStoreProofs` | facts about versions, directories and `Restored`; every step of a server program preserves `StoreInv`; what the steps of a rollback, and the building steps of a commit, do to a parcel on which nothing has failed |
| `CheckinProofs` | the clients' steps; the other steps of a commit on such a parcel; the theorems about parcels, those about runs without faults included |

The head of a large proof module names the prover of the leaves that name none
(`USE ZenonT(30)` or `USE SMTT(30)`), and a fact that only one lemma needs is a named
step of that lemma's proof (`<1>MoveOldStep` in `ChunkSteps`).  Nothing depends on
either logically: the provers' work on a leaf grows with what is in scope.

### The MC modules

Symmetry sets, views and constants for TLC.

## Runs

| Run | Instance | Shows |
| --- | --- | --- |
| `chunk_cache_parts` | 1 worker, 2 chunks of 2 pieces, 2 values, 1 buffer, I/O errors | `Coherent`, `CleanShutdown`, `NoJunk`, and that the cache implements `AtomicDisk`; also `RequestsCutRight` for a 4-bit unsigned, 11 chunks of 4 bytes and all requests of up to 13 bytes at 0 to 50 |
| `chunk_cache_crowd` | 3 workers, 3 chunks, 1 buffer, no I/O errors | `IInv`, `Exclusive`, `EntriesLive`, `DirtyTracked`, `BuffersConserved`, `NoLostWakeup`, `FsyncStartsWriteout` |
| `chunk_cache_live` | 2 workers, 2 chunks, 1 buffer, I/O errors, fairness | `RequestsServed`, `WrittenBack` |
| `lock_file` | 3 processes, 3 inodes, fairness | `IInv` (with `HolderNamed`), `MutualExclusion`, `AcquireEnds` |
| `power_loss` | 2 chunks, 2 contents, 2 faults, 1 failing read | `UploadCurrent`, `SessionMarked`, `ValidatedAfterLoss`, `ReadsBackAfterLoss` |
| `hoard` | 2 threaded processes, 2 chunks, 2 slots, 1 fault | `Contiguous`, `OneOwner`, `Described`, `NoLeak`, `ReferencedKept` |
| `transport` | 2 threads, 3 handles, 2 chunks of 2 blocks, 2 tries | `FetchedStays`, `RetryStartsOver`, `HandlesConserved` |
| `sql_txn` | an upload, a process that hoards and a check of the hoard cache, with two connections each; 3 databases; 1 wait of the busy handler; fairness | `CallerOutOfTheWay`, `JobsEnd` |
| `startup` | 2 invocations at a time, any number one after the other, 2 inodes, 1 subsystem, fairness | `StartReported`, `PidfileOfSession`, `ParentReturns`, and that `LockedStart` implements `Startup` (`AtomicLock`) |
| `parcel` | 2 clients, 2 server programs, 1 chunk, 3 contents, 4 versions, 2 locks taken, 1 fault | `IInv`, `VersionsKept`, `CleanIsStored`, `CommittedOnce`, `SyncSucceeds`, `RollbackRestores` |
| `chunk_cache_shutdown` | 1 worker, 1 chunk, fairness | a violation of `ShutdownCompletes` |
| `fsync_writes_out` | 2 workers, 2 chunks | a violation of `FsyncWritesOut` |

In all runs of the chunk cache the cleaner and the main thread run as well, and
the main thread may shut down whenever no request is under way.

Deadlock is checked for the lock file, start and stop, the local cache, the hoard, the
transport and the transactions.  It is not where the system may really stop: after
a shutdown of the chunk cache, and when a parcel has as many versions as the bound
allows.  That nobody is stuck in the
chunk cache before its shutdown is the business of `NoLostWakeup` and of the
liveness properties.

**Bounds.**  One buffer for two chunks is the tightest cache there is.  Every
change of chunk is an eviction, a thread can hold an entry without a buffer while
another holds the buffer, and an evicted dirty chunk meets the cleaner and fsync.
The instance with three workers and three chunks lets two threads wait for a buffer
while a third one uses it, which is where a single signal could be too few; it
leaves out I/O errors to stay small; the proofs of the seven properties of this
run cover the two together.  Two
pieces are needed to tell a write of a part from a write of the whole chunk, and two
values to tell an old content from a new one.  For the lock file, three processes are a
holder that unlinks, one that has opened the old file and one that makes the new one.
A process has one inode open, so as many inodes as processes never run out.  In `startup`
two processes are enough for the same, since the holder that unlinks can come back as
the one that makes the new file.

With two faults a local cache can be hurt in a session and again in the validation, the
session or the upload after it; a fault is a crash, a failed
update or a loss of power.  After the second one the run follows only states in which
every read of the image has succeeded and no loss of power has left a cache without a
flag (`FewFaults`); the proofs of the four properties of `power_loss` cover the rest.
Two slots
for two chunks make two processes compete for every slot of the hoard; slots are taken
and chunks moved one at a time there, several at a time in the code.  Two tries of a
fetch (5 in the code) have a first, and a last one that is a retry; one wait of the busy
handler (10 in the code) tells a transaction that waits from one that gives up.  A
4-bit unsigned wraps at 16; disks of 11 chunks of 4 bytes have positions beyond it and
chunk numbers below.  One subsystem stands for the several that `main()` starts.

Four versions of a parcel are the first one, two on top of it and a rollback to any of
them.  Three contents are needed for a rollback that has the wrong one of two files to
choose from; after a fault the run follows only states with two of them and three
versions (`FewAfterFault`).  There is one chunk, so the order in which a commit takes chunks and
directories is not explored by TLC; the proofs cover it for every property of the run.

The `TypeOK` of `LocalCache`, `Hoard`, `Transport` and `SqlTxn` documents the types of
the variables; no run lists it.  They are proved as part of the inductive
invariants.

**Symmetry.**  Workers, chunks, pieces and values of the chunk cache, processes and
tags of the hoard, threads and handles of the transport, and clients, server programs
and tags of a parcel are interchangeable.  Slots, versions and the chunks of a parcel
are numbers and are not permuted.  Symmetry is used for invariants, action properties
and the refinement of `AtomicDisk` only.

**The view of `chunk_cache_live`.**  It drops `out`, `acked` and `faulted`, which no
guard and no other variable depends on.

**Fairness.**  `Fairness` asks that a thread that can go on eventually does, that
time passes, and that a timed wait ends.  It is weak fairness of a thread as a
whole: a thread that waits for the mutex or for an entry can be overtaken, as
GLib's mutexes and conditions allow.  Requests, the unmount and spurious wakeups
need not happen.  Because overtaking can go on forever, `RequestsServed` and
`WrittenBack` are stated for executions in which the load ceases; what they show
is that nobody is left behind then, in particular that no signal was lost.  They
do not rely on spurious wakeups either.  In the same way `AcquireEnds` needs each
process inside `acquire_lockfile()` to go on, and is stated for executions in which
the lock is not released again and again: each release can send a process around
the loop once more.

* `ParentReturns`: a process in its initialisation or shutdown goes on; the work of a
  session need not end, and no other session need follow.  It has the same condition as
  `AcquireEnds`: a child that always comes upon a lock file just unlinked stays in
  `acquire_lockfile()`, and its parent waits.
* `JobsEnd`: every connection goes on, and a write that can get its lock again and again
  gets it at last (`Writes`, strong fairness).  Without the second part the property is
  false: `VACUUM` waits with a pending lock for a reader that wants to write and gives up,
  the reader finds the lock pending or reserved and gives up as well, and this can go on.
  Between any two attempts `busy_handler()` and `query_backoff()` sleep for a random time, so
  the two meet forever only with probability zero.  Reads, `VACUUM` and commits need no
  such assumption.

That a fetch, a lookup in the hoard, and the commands of the client end is not
checked.

### What the violations show

* `chunk_cache_shutdown`: `image_shutdown()` sets `image.stopping` and broadcasts
  `cleaner.cond` once.  `entry_cleaner()` tests the flag only at the top of its
  loop, and `entry_clean()` gives up the mutex while it writes.  If the broadcast
  falls into that window and the queue is empty afterwards, the cleaner waits on
  its condition without a timeout, and `g_thread_join()` never returns.
* `fsync_writes_out`: `entry_clean()` takes a chunk off the dirty queue before it
  writes it.  An `image_sync()` of another thread finds the queue empty and
  returns, so `do_fsync()` synchronizes the cache file before the chunk is in it.
  What fsync does guarantee is `FsyncStartsWriteout`.

### What the properties leave open

These disagreements between the code and what its comments or documents say are
outside the properties, whose comments or guards exclude them.

* `io_chunk()` truncates the chunk number to an unsigned before it compares it with
  the size of the disk (`fuse_image.c:394`).  `RequestsCutRight` is stated for positions
  whose chunk number fits.
* `validate_cachefile()` commits the chunks that it has reverted before
  `validate_cache()` sets the damaged flag, although `client/isr.1.in:269` says that
  reverted chunks disallow a checkin.  If it dies in between, the next validation finds
  every chunk consistent and the upload carries the reverted chunk.  `UploadCurrent` and
  `SessionReadsBack` exclude this case by `lapse`.
* `validate_cachefile()` overwrites the result of one chunk with that of the next
  (`cache_modes.c:456`), so a read that fails on one chunk is forgotten and the flags
  are cleared.  `CleanIsGood`, `SessionReadsBack` and `SessionMarked` exclude it by
  `unread`.
* Power that is lost after a session has cleared its flag can leave databases older than
  the cache file with no flag set; `unnoted` excludes it.
* The comments at `hoard.c:424` and `hoard.c:560` say that there is no contention for the
  slot cache.  The threads of a process share it: one looks a chunk up there, another
  one gives the slot back, takes it again and stores another chunk in it, and the
  first one then frees a slot whose contents are right.  The chunk has to be fetched
  again; `Described` and `ReferencedKept` hold nevertheless.
* After a lost connection the client replaces the upload under a commit that still
  runs.  The version may then lack a chunk or have one of the later upload, also
  when the repeated sync reports success, and a rollback over such a version reports
  success for a version without the chunk.  `CleanIsStored`, `SyncSucceeds` and
  `RollbackRestores` are stated as long as nothing has failed; `VersionsKept` and
  `CommittedOnce` always.

## Proofs

`ChunkCacheProofs` proves, for any set of workers, any finite set of chunks, any
nonempty set of pieces, any values and any number of buffers (zero included):

* `Invariance`: `Spec => []IInv`;
* `TypeCorrect`, `MutualExclusion`, `NoUseAfterFree`, `DirtyNeverLost`,
  `Coherence`, `NoJunkRead`, `ShutdownIsClean`: `Spec => []P` for `TypeOK`,
  `Exclusive`, `EntriesLive`, `DirtyTracked`, `Coherent`, `NoJunk` and
  `CleanShutdown`.

**Assumptions.**  The constants are assumed to be what they stand for: the
threads are distinct, the markers `None`, `Bad`, `EIO` and `Junk` are different
from the values they are used beside, a chunk has a piece, there are finitely many
chunks, and the capacity is a natural number.

**The inductive invariant.**  None of the properties is inductive alone.

* `Exclusive` needs `Ownership`: the busy flag is set exactly when some thread is
  at a place of the code where it works on the entry, and the waiters are exactly
  the threads inside `_entry_acquire()`.
* `EntriesLive` needs `Ownership` (a free needs "no waiters" to mean "nobody has a
  pointer") and `BufferPlaces` (an entry released after an eviction has no buffer,
  one released after a request has one).
* `DirtyTracked` needs `EntriesLive` (an entry that is reclaimed is idle, so nobody
  is writing it) and `BufferPlaces` (a buffer being populated belongs to a clean
  entry, so a dirty entry's buffer is never overwritten by a read).
* `Coherent` needs all of them: a clean entry without an error equals the local
  cache, a dirty one equals the acknowledged contents, and a buffer that has just
  changed hands (`Raw`) is exempt until it is populated or overwritten.  The
  conjunct about dirty entries stands on its own because a failed writeback sets
  the error flag and makes the entry clean in one step.
* `CleanShutdown` needs `Phases`: the cleaner has exited before the main thread
  looks at the queues, so empty queues mean that no entry is dirty or left.

Each conjunct has a lemma that says that a step preserves it, with one proof step
per action; `NextIInv` joins them.

**The refinement.**  `CacheIsAtomicDisk` proves `Spec => AtomicDiskSpec`, with the
mapping that the run `chunk_cache_parts` checks: the disk is `acked`, what persists is
`store`.  `StepRefines` takes one action at a time.  A reply (`ReplyRefines`) is the
reply of the disk because `Coherent` says that the buffer of a request that is about to
be answered equals `acked`, or that the chunk has faulted.  A writeback
(`WritebackRefines`) persists what was acknowledged because a dirty buffer equals
`acked`.  The end of the session needs `CleanShutdown`.  Every other action is a
stuttering step.

**Buffers.**  `BuffersAreConserved` counts the chunks that have a buffer.  The steps that
matter are the allocation, which adds one and takes one off `allocatable`, and the
steal, which moves one: that the entry it goes to had none is in `BufferPlaces`.

**Wakeups.**  `WakeupsAreNotLost` has three parts, each inductive together with `IInv`
and `SleepPlaces` (only a thread at one of the three waits is asleep).  For an entry:
who releases it wakes a waiter, and who starts to wait is awake.  For buffers:
`_entry_release()` signals once for each entry that it makes reclaimable, so the
awake threads that want one are at least as many as the entries, as long as
anybody sleeps; a thread that takes an entry takes one away from both sides.  Here the
number of threads has to be finite (`WorkerFinite`).  For the cleaner: who makes an
entry dirty wakes it, and it sleeps without a timeout only after it saw the queue
empty under the mutex.

**Fsync.**  `FsyncStarts` uses `Owing`: what a thread inside `image_sync()` is
still owed has been dirty since it entered, and once it has left the loop somebody is
writing it.  A dirty chunk leaves the queue only into the hands of a thread that
writes it back (`DirtyTracked`), and that thread stays with it until it is clean
(`WritingStays`).

`LockedStartProofs` proves `MutualExclusion` and `HolderNamed` for any set of processes
and any set of inodes.  `HolderNamed` is the heart of it: the holder's lock is on
the inode that has the name, so two holders would have locks on one inode.  It is
kept because only a holder unlinks, and it unlinks before it closes; it is
established because a process keeps a lock only on an inode that still has the
name.  `Files` says what each program counter means for the descriptor and the
lock.  `AcquireEnds` is only model-checked.

`CheckinProofs` proves every property of the run `parcel`, for any number of
clients, server programs, chunks, directories and versions and any bound on the
faults.  `VersionsKept` says that a committed version can be put together from the
version directories; a commit moves the files of exactly those directories, other
commits may run beside it, and any of them may be killed halfway.  It needs:

* `Owned`: versions are numbered without gaps, and a version under construction
  belongs to one program, because `mkdir` of an existing directory fails;
* `Unfinished`: a version without a keyring is the newest, and nobody commits on
  top of it, because `srv_commit.pm` looks for the keyring first;
* `Handover`: while a chunk is replaced, the versions up to the last one still find it
  (`OldKept`); if it comes back meanwhile, a commit on top has already taken the chunks
  on (`Returned`, `NotAhead`); and no rename hits an existing file (`NoOverwrite`);
* `Arguments`: the variables of a program have values that fit its place in the code.

The steps of the clients change none of this, except that they start programs and
replace uploads; `Sessions` says that a client has the nonce and the keyrings that it
hands over.  `CommittedOnce` follows from `Owned`: a program makes the link to
the version that it owns, which is not committed yet.

**Without faults.**  `CleanIsStored`, `SyncSucceeds` and `RollbackRestores` speak of runs
on which nothing has failed yet.  `IInv` is too weak for them: after a fault a version may
well lack a chunk.  `CalmInvariant` proves `CalmInv` (`faults = 0 => Calm`), which is
inductive beside `IInv`, for all clients, programs, chunks, directories and versions:

* one client at a time has a session, with the nonce that is in the lock (`Alone`), and
  every running program was started by it (`Runs`), so no two programs interleave;
* between two commits the newest version has all its chunks, and each older version has
  exactly the chunks that its successor changed (`Settled`, `Chain`, `Delta`);
* during a commit each chunk is either still in the upload or where the commit leaves it
  (`Shifting`: `Waits`, `Done`, `Ahead`), in whatever order the chunks and directories
  are taken;
* a rollback has copied, of the chunks that differ, each one that changed again in a version
  it has passed; one that it has not found yet is unchanged since the target
  (`Copying`, `CopiedSoFar`);
* the keyrings of the client, the upload and the server agree as far as the stage of the
  client says (`Session`).

`SyncsSucceed` then shows that every check of a commit passes, and `RollbacksRestore` that the
version a rollback commits is the target.  A fault, as counted by `faults`, is a server
program that is killed, a request or reply that is lost, an upload that breaks off, or a
forced `isr clean` with its hard release.

`PowerLossProofs` proves `UploadCurrent`, `SessionMarked`, `ValidatedAfterLoss` and
`ReadsBackAfterLoss` of `PowerSpec`, for any number of chunks and contents and any bounds on
crashes, losses of power and failed reads.  `CleanIsGood` is not inductive: the loss of
power replaces each file by any of its versions that may be on the disk, so the
invariant has to speak of all of them.  `Marked` does: if the flags may be found empty
then the cache is good now, is not being changed and is not known to be damaged.  It
also says in which places between the first change and the last `fsync` the
cache is good, and that a session spoils at most the chunk it is updating (`GoodButFor`).
`Kept` says that only a cache that is marked as damaged, or about to be, has lost
what was written; `UploadCurrent` follows because an upload refuses such a cache.

`HoardProofs` proves `OneOwner`, `Described`, `Contiguous`, `NoLeak` and the action
property `ReferencedKept`, for any number of processes, chunks, slots, moves
and faults.  A process prepares a new index and a new slot cache inside its
transaction, writes to the hoard file, and commits.  The invariant therefore says the same
things of the committed tables (`Tables`) and of what an open transaction will commit
(`Commits`), and that at most one process has a write transaction (`OneWriter`).  The
hard part is the file, which no rollback restores: `Puts` says that a put writes to a
slot that is the process' own or belongs to no chunk, and `Moves` that whatever a
compaction has emptied lies behind all chunks that it still has, so a slot that
one of its later moves writes to holds no chunk of the committed index.  Puts to a
reserved slot run without a write transaction, beside the transactions of others
(`OthersUndisturbed`).  `ReferencedKept` follows from the conjunct of `Commits` that
a transaction loses no chunk.

`TransportProofs` proves `FetchedStays`, `RetryStartsOver` and `HandlesConserved`, for any
finite set of threads, any handles and chunks, any number of blocks and tries.
`Placed` says that a handle is with one thread or once in the pool, `Pointed` that the
`buf` of a handle in a transfer is the buffer of the thread that performs it (a
handle in the pool may point anywhere), and `Arrived` that a completed transfer left
the whole chunk.

`LockedStartProofs` proves `StartReported`, `PidfileOfSession` and `AtomicLock`, for any
number of processes, inodes and subsystems, in three parts.

* With an atomic lock, `StartInv` is inductive.  `LockHeld` says where in `main()` the
  lock is held and that a subsystem is up only there, and `PipeTells` what the state of the
  status pipe implies for the child: it is closed without a byte only by a session that
  serves or dies.
* The steps of `LockedStart` are steps of `LockFile` or leave its variables alone
  (`UsesLockFile`), so its `IInv` holds and at most one process is the holder.
* Each step of `LockedStart` is a step of `Startup` or a stuttering step
  (`StepIsAtomic`).  `Keep` takes the atomic lock: nobody else holds it, because a holder
  has locked the file that has the name (`HolderNamed`) and `Keep` requires the
  same of its process.  `Unlink` gives it up.  `StartInv`, carried along, excludes that a
  process inside `acquire_lockfile()` already holds the lock.

`SqlTxnProofs` proves `CallerOutOfTheWay` for any connections, databases and jobs in
which only `copy_for_upload()`, `hoard()` and `check_hoard()` call another connection.
Four facts are inductive together with the types: a connection that was called works only
while its caller waits (`Nested`); after a statement the connection has the schemas
(`SchemaLoaded`); a transaction finds them, at every attempt, if it is `Prepared`
(`SchemaKept`); and such a transaction has locks only on what it names itself
(`OwnLocksOnly`).  A transaction is prepared if the one before it ran a statement and was no
`VACUUM`, and it is no `VACUUM` itself and waits for no file after it has created or dropped
a table: a rollback then would flush the schemas, and the next attempt would lock every
attached database.  `CallsArePrepared` shows of the three jobs that they call from such a
transaction, and that it does not query the hoard cache's index.  For
`copy_for_upload()` this rests on the dummy transaction of `vacuum()`, for `hoard()` and
`check_hoard()` on the one that fills the temporary table.

**Assumptions of these modules.**  The markers are different from the values they are used
beside (`NoneApart` of `Hoard` names offsets, rows and transactions, that of `ParcelStore`
tags, versions, keyrings, sets of directories, directories and records), sizes and bounds are
natural numbers, and a process has finitely many threads.  `CallAssumption` of `SqlTxn`
says which jobs call another connection.

**How the invariants were found.**  Each inductive invariant was first checked by TLC
with the constants of the component's run, that of `Hoard` also with one process,
four slots, three chunks and two moves in a transaction, and `CalmInv` also with three
chunks in two directories.

**Only model-checked.**

* Liveness: `RequestsServed`, `WrittenBack`, `AcquireEnds`, `ParentReturns` and `JobsEnd`.
  The proof system does not reason about fairness.
* `RequestsCutRight` of `IoCursor`: it compares a loop with its definition, which needs
  induction over the request.

## Mutants

A definition `X_...` in front of `X` is a plausible mistake in the code that `X`
models: a missing signal, a test done once instead of in a loop, an off-by-one, a
forgotten flag.  `PROJECT.json` lists, for each property, the mistake that it
notices.

## Not modelled, and why

* Ciphers, hashes and compressors: their correctness is arithmetic over large
  domains.  The models treat an encoded chunk as decodable with the right key and
  tag, or not.
* SQLite: vendored.  `SqlTxn` models its file locks, when it reads the schemas in and
  flushes them, and its calls of the busy handler; the rest is taken as documented.
  `sqlite3.c` is 87,012 of the 110,279 lines of source, so the share of all lines
  that the models cover is necessarily small.
* libfuse, GLib and the kernel: the semantics of mutexes and conditions are part of
  `ChunkCache` as external definitions.
* Statistics, logging, command-line parsing, tools and VMM drivers: no state that
  another part relies on.
* Parsing of `parcel.cfg`: a chunk size above 1 MB passes it, and then
  `image_init()` makes no buffers at all.
* Repair of damaged databases, the examine and list modes, the table of parcels of
  the hoard, and the shared memory segment.
* In the client, hoarding, listing, credentials and the suspended state of the virtual
  machine.
* The death of a command that waits for its session in the background.
* The window of `srv_lock.pm` between the test of the nonce and the unlink: the two are
  one action of `ParcelStore`.

## What could follow

1. An abstract local cache that both `LocalCache` and the `store` of `ChunkCache`
   implement.
2. Padding and the chunk encoding as operators.
