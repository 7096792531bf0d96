----------------------------- MODULE FsyncOrder -----------------------------
(***************************************************************************)
(* What an fsync of the image waits for.  do_fsync() calls image_sync(),   *)
(* which cleans the dirty queue until it is empty, and then synchronizes   *)
(* the cache file.  The history variable "owed" remembers, for each worker *)
(* in image_sync(), the chunks that were dirty when it was called and have *)
(* not been written back since.                                            *)
(***************************************************************************)
EXTENDS ChunkCache

VARIABLE owed

DirtyChunks == {c \in Chunk : dirty[c] # "clean"}

\* image_sync() begins: everything dirty is owed; a writeback pays.
TrackOwed ==
  owed' = [t \in Worker |->
             IF pc[t] = "idle" /\ pc'[t] = "loop"
             THEN DirtyChunks
             ELSE owed[t] \cap DirtyChunks']

SyncInit == Init /\ owed = [t \in Worker |-> {}]

SyncNext == Next /\ TrackOwed

SyncSpec == SyncInit /\ [][SyncNext]_<<vars, owed>>

\* do_fsync(): "Write out dirty chunks".  When image_sync() has returned, every
\* chunk that was dirty when it was called has been written to the cache file,
\* which the fsync() that follows then makes durable.
FsyncWritesOut == \A t \in Worker : pc[t] = "idle" => owed[t] = {}

\* What image_sync() does guarantee: when it has returned, a chunk that was
\* dirty when it was called is written back or is being written back, because
\* entry_clean() takes it off the dirty queue before the write.
FsyncStartsWriteout ==
  \A t \in Worker : pc[t] = "idle" =>
    \A c \in owed[t] : \E u \in Thread : Writing(u, c)

=============================================================================
