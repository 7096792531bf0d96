----------------------------- MODULE LocalCache -----------------------------
(***************************************************************************)
(* The local cache of a parcel across the processes that use it:           *)
(* parcelkeeper/cache.c, cache_modes.c and the flag handling of fuse.c.    *)
(*                                                                         *)
(* Persistent state: the cache image, its header with the flags CA_F_DIRTY *)
(* and CA_F_DAMAGED, the cache index (the chunks the image holds) and the  *)
(* keyring (the tag of each chunk).  One Parcelkeeper at a time holds the  *)
(* parcel's lock and runs in one mode: "run" serves the image, "validate"  *)
(* checks the cache, "upload" copies the modified chunks for a checkin.    *)
(*                                                                         *)
(* A tag stands for the contents it is computed from, so a chunk in the    *)
(* image matches its tag iff both are the same member of Value.  Junk is   *)
(* contents no tag matches.  The keyring and the index are committed in    *)
(* one SQLite transaction, which a crash of the process leaves whole.      *)
(***************************************************************************)
EXTENDS Naturals, FiniteSets

CONSTANTS
  NumChunks,  \* parcel->chunks
  Value,      \* contents of a chunk
  Base,       \* the contents of every chunk at the last checkout or sync
  Junk,       \* the contents of a slot that was never or only half written
  None,
  MaxFault,   \* bound: crashes and failed operations
  MaxUnread   \* bound: reads of the image that fail during validation

ASSUME CacheAssumption ==
  /\ NumChunks \in Nat \ {0}
  /\ Base \in Value
  /\ Junk \notin Value
  /\ None \notin [0 .. NumChunks - 1 -> Value]
  /\ None \notin [chunk : 0 .. NumChunks - 1, data : Value]
  /\ MaxFault \in Nat /\ MaxUnread \in Nat

VARIABLES
  made,         \* how far the cache has been created: 4 is all of it
  image, flags, \* the cache file: chunk slots and header flags
  index, keys,  \* the cache index and the keyring
  pc, mode,     \* the running Parcelkeeper
  upd,          \* the cache_update() in progress, or None
  leave_dirty,  \* state->fuse->leave_dirty
  wrote,        \* history: what the sessions' updates have committed for each chunk
  sent,         \* the keyring of the upload just made, or None
  lapse,        \* history: a crash came between a revert and the damaged flag
  faults, unread \* faults and failed reads so far

persistent == <<made, image, flags, index, keys>>
process == <<pc, mode, upd, leave_dirty>>
history == <<wrote, sent, lapse, faults, unread>>
vars == <<persistent, process, history>>

Chunk == 0 .. NumChunks - 1
prev == [c \in Chunk |-> Base]
Update == [chunk : Chunk, data : Value]

Init ==
  /\ made = 0
  /\ image = [c \in Chunk |-> Junk] /\ flags = {}
  /\ index = {} /\ keys = prev
  /\ pc = "off" /\ mode = "run"
  /\ upd = None /\ leave_dirty = FALSE
  /\ wrote = prev /\ sent = None /\ lapse = FALSE
  /\ faults = 0 /\ unread = 0

-----------------------------------------------------------------------------
(* Opening and creating *)

\* open_cachedir(): with both files it opens them, with neither it attaches a
\* new index file and goes on to create the rest.  A cache that was created
\* only in part is refused at every start: one file is missing, or the header
\* has no magic number, or the index has no version.
Start(m) ==
  /\ pc = "off"
  /\ \/ made = 0 /\ made' = 1 /\ pc' = "file"
     \/ made = 4 /\ made' = 4 /\ pc' = "open"
  /\ mode' = m
  /\ sent' = None
  /\ UNCHANGED <<image, flags, index, keys, upd, leave_dirty, wrote, lapse, faults, unread>>

\* create_cache_file(), open() and set_cache_file_size().
CreateFile ==
  /\ pc = "file"
  /\ made' = 2 /\ pc' = "header"
  /\ UNCHANGED <<image, flags, index, keys, mode, upd, leave_dirty, history>>

\* create_cache_file(), write() of the header.
CreateHeader ==
  /\ pc = "header"
  /\ made' = 3 /\ flags' = {} /\ pc' = "index"
  /\ UNCHANGED <<image, index, keys, mode, upd, leave_dirty, history>>

\* create_cache_index(): one transaction.
CreateIndex ==
  /\ pc = "index"
  /\ made' = 4 /\ index' = {} /\ pc' = "open"
  /\ UNCHANGED <<image, flags, keys, mode, upd, leave_dirty, history>>

\* cache_set_flags(): the flags are written, then synchronized by the step
\* Synchronize, which leaves the stage for the one that follows it.
SetFlags(f, stage) ==
  /\ flags' = f
  /\ pc' = stage

After == [marking |-> "serve", damaging |-> "unmark", unmarking |-> "off", judging |-> "off"]

Synchronize ==
  /\ pc \in DOMAIN After
  /\ pc' = After[pc]
  /\ UNCHANGED <<persistent, mode, upd, leave_dirty, history>>

-----------------------------------------------------------------------------
(* Running *)

FuseInit_Unchecked ==
  /\ pc = "open" /\ mode = "run"
  /\ \/ "damaged" \in flags /\ pc' = "serve" /\ UNCHANGED flags
     \/ "damaged" \notin flags /\ SetFlags({"dirty"}, "marking")
  /\ leave_dirty' = FALSE
  /\ UNCHANGED <<made, image, index, keys, mode, upd, history>>

\* fuse_init() refuses a dirty cache, and marks a cache dirty unless it is
\* already known to be damaged.
FuseInit ==
  /\ pc = "open" /\ mode = "run"
  /\ \/ "dirty" \in flags /\ pc' = "off" /\ UNCHANGED flags
     \/ "dirty" \notin flags /\ "damaged" \in flags /\ pc' = "serve" /\ UNCHANGED flags
     \/ flags = {} /\ SetFlags({"dirty"}, "marking")
  /\ leave_dirty' = FALSE
  /\ UNCHANGED <<made, image, index, keys, mode, upd, history>>

\* cache_update() up to the middle of the write of the slot.
UpdateBegins(c, v) ==
  /\ pc = "serve" /\ upd = None
  /\ upd' = [chunk |-> c, data |-> v]
  /\ image' = [image EXCEPT ![c] = Junk]
  /\ UNCHANGED <<made, flags, index, keys, pc, mode, leave_dirty, history>>

\* _cache_write_chunk(): the slot is written, inside the transaction.
UpdateWrites ==
  /\ pc = "serve" /\ upd # None
  /\ image[upd.chunk] = Junk
  /\ image' = [image EXCEPT ![upd.chunk] = upd.data]
  /\ UNCHANGED <<made, flags, index, keys, process, history>>

\* cache_update() commits the index row and the keyring row.
UpdateCommits ==
  /\ pc = "serve" /\ upd # None
  /\ image[upd.chunk] = upd.data
  /\ keys' = [keys EXCEPT ![upd.chunk] = upd.data]
  /\ index' = index \cup {upd.chunk}
  /\ wrote' = [wrote EXCEPT ![upd.chunk] = upd.data]
  /\ upd' = None
  /\ UNCHANGED <<made, image, flags, pc, mode, leave_dirty, sent, lapse, faults, unread>>

\* cache_update() or cache_get() fails: the transaction is rolled back and
\* entry_set_error() has the session leave the cache dirty.
ChunkError ==
  /\ pc = "serve" /\ faults < MaxFault
  /\ upd' = None /\ leave_dirty' = TRUE
  /\ faults' = faults + 1
  /\ UNCHANGED <<persistent, pc, mode, wrote, sent, lapse, unread>>

FuseShutdown_Unconditional ==
  /\ pc = "serve" /\ upd = None
  /\ SetFlags(flags \ {"dirty"}, "unmarking")
  /\ UNCHANGED <<made, image, index, keys, mode, upd, leave_dirty, history>>

\* fuse_shutdown(), and fuse_init() when the mount fails: the dirty flag is
\* cleared unless an error was seen, and the file is synchronized.
FuseShutdown ==
  /\ pc = "serve" /\ upd = None
  /\ SetFlags(IF leave_dirty THEN flags ELSE flags \ {"dirty"}, "unmarking")
  /\ UNCHANGED <<made, image, index, keys, mode, upd, leave_dirty, history>>

-----------------------------------------------------------------------------
(* Validating *)

Absent_None == {}

\* The two kinds of damage validate_cachefile() looks for.
Absent == {c \in Chunk \ index : keys[c] # prev[c]}
Mismatched == {c \in index : image[c] # keys[c]}

\* validate_cachefile(): modified chunks that are absent and, with --full,
\* chunks that do not match their tag are damage, which --splice reverts to
\* the previous keyring.  A chunk that cannot be read is no damage but an
\* error, which the result of the next chunk of the index overwrites.
\* validate_cache() acts on both in the steps that follow.
Validate(full, splice) ==
  /\ pc = "open" /\ mode = "validate"
  /\ \E failed \in SUBSET index :
       LET damage == Absent \cup (IF full THEN Mismatched \ failed ELSE {})
           err == \E c \in failed : \A d \in index : d <= c
       IN /\ full \/ failed = {}
          /\ unread + Cardinality(failed) <= MaxUnread
          /\ unread' = unread + Cardinality(failed)
          /\ IF splice
             THEN /\ keys' = [c \in Chunk |-> IF c \in damage THEN prev[c] ELSE keys[c]]
                  /\ index' = index \ damage
             ELSE UNCHANGED <<keys, index>>
          /\ pc' = IF damage # {} THEN "damage"
                   ELSE IF ~err /\ full /\ "dirty" \in flags THEN "unmark"
                   ELSE "off"
  /\ UNCHANGED <<made, image, flags, mode, upd, leave_dirty, wrote, sent, lapse, faults>>

\* validate_cache(): the damaged flag is set, and only then ...
MarkDamaged ==
  /\ pc = "damage"
  /\ SetFlags(flags \cup {"damaged"}, "damaging")
  /\ UNCHANGED <<made, image, index, keys, mode, upd, leave_dirty, history>>

\* ... the dirty flag is cleared.
Unmark ==
  /\ pc = "unmark"
  /\ SetFlags(flags \ {"dirty"}, "unmarking")
  /\ UNCHANGED <<made, image, index, keys, mode, upd, leave_dirty, history>>

-----------------------------------------------------------------------------
(* Uploading, discarding and failing *)

MayUpload_DirtyOnly == "dirty" \notin flags

MayUpload == flags = {}

\* copy_for_upload() refuses a cache with either flag, copies every chunk whose
\* tag differs from the previous keyring's, and marks the cache damaged at the
\* first one that is absent or does not match.
Upload ==
  /\ pc = "open" /\ mode = "upload"
  /\ \/ /\ ~MayUpload
        /\ pc' = "off" /\ UNCHANGED <<flags, sent>>
     \/ /\ MayUpload /\ \E c \in Chunk : keys[c] # prev[c] /\ (c \in index => image[c] # keys[c])
        /\ SetFlags(flags \cup {"damaged"}, "judging") /\ UNCHANGED sent
     \/ /\ MayUpload /\ \A c \in Chunk : keys[c] # prev[c] => c \in index /\ image[c] = keys[c]
        /\ sent' = keys /\ pc' = "off" /\ UNCHANGED flags
  /\ UNCHANGED <<made, image, index, keys, mode, upd, leave_dirty, wrote, lapse, faults, unread>>

\* The client deletes the parcel's directory: the next checkout starts afresh.
Discard ==
  /\ pc = "off" /\ made > 0
  /\ made' = 0 /\ flags' = {} /\ index' = {} /\ keys' = prev
  /\ image' = [c \in Chunk |-> Junk]
  /\ wrote' = prev /\ sent' = None /\ lapse' = FALSE
  /\ UNCHANGED <<process, faults, unread>>

\* The process dies, or leaves through an error return that writes nothing.
Crash ==
  /\ pc # "off" /\ faults < MaxFault
  /\ pc' = "off" /\ upd' = None /\ leave_dirty' = FALSE
  /\ faults' = faults + 1
  /\ lapse' = (lapse \/ (pc = "damage" /\ keys # wrote))
  /\ UNCHANGED <<persistent, mode, wrote, sent, unread>>

Next ==
  \/ \E m \in {"run", "validate", "upload"} : Start(m)
  \/ CreateFile \/ CreateHeader \/ CreateIndex
  \/ FuseInit \/ Synchronize
  \/ \E c \in Chunk, v \in Value : UpdateBegins(c, v)
  \/ UpdateWrites \/ UpdateCommits \/ ChunkError \/ FuseShutdown
  \/ \E full \in BOOLEAN, splice \in BOOLEAN :
       /\ splice => full
       /\ Validate(full, splice)
  \/ MarkDamaged \/ Unmark
  \/ Upload \/ Discard \/ Crash

Spec == Init /\ [][Next]_vars

-----------------------------------------------------------------------------
(* Properties *)

TypeOK ==
  /\ made \in 0 .. 4
  /\ image \in [Chunk -> Value \cup {Junk}]
  /\ flags \subseteq {"dirty", "damaged"}
  /\ index \subseteq Chunk
  /\ keys \in [Chunk -> Value]
  /\ pc \in {"off", "file", "header", "index", "open", "serve", "damage", "unmark"}
            \cup DOMAIN After
  /\ mode \in {"run", "validate", "upload"}
  /\ upd \in Update \cup {None}
  /\ leave_dirty \in BOOLEAN
  /\ wrote \in [Chunk -> Value]
  /\ sent \in [Chunk -> Value] \cup {None}
  /\ lapse \in BOOLEAN
  /\ faults \in 0 .. MaxFault
  /\ unread \in 0 .. MaxUnread

Good ==
  /\ \A c \in index : image[c] = keys[c]
  /\ \A c \in Chunk \ index : keys[c] = prev[c]

\* CA_F_DIRTY, "Cache was not closed properly", and CA_F_DAMAGED, "Cache has bad
\* chunks": a cache at rest with neither flag holds every modified chunk, and
\* every chunk it holds matches its tag, whatever crashes and failed updates
\* there have been.  (Unless validate_cachefile() has failed to read a chunk: it
\* overwrites that result with the next chunk's.)
CleanIsGood == pc = "off" /\ made = 4 /\ flags = {} /\ unread = 0 => Good

\* An upload carries to the server exactly what the sessions committed: no crash or
\* failed update makes copy_for_upload() succeed with less, and a cache with
\* reverted chunks is refused, as long as no validation dies between the commit
\* of the reverted chunks and the damaged flag.
UploadCurrent == sent # None /\ ~lapse => sent = wrote

\* A session on a cache that is not known to be damaged reads back what the
\* earlier sessions committed, as long as none of its own updates has failed.
SessionReadsBack ==
  pc = "serve" /\ "damaged" \notin flags /\ upd = None /\ ~leave_dirty
    /\ ~lapse /\ unread = 0 => Good /\ keys = wrote

=============================================================================
