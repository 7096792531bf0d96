------------------------------ MODULE PowerLoss ------------------------------
(***************************************************************************)
(* What the loss of power leaves of the local cache.  The cache file is    *)
(* synchronized by cache_set_flags(), by fuse_shutdown() and by do_fsync();*)
(* the two SQLite databases never are (PRAGMA synchronous = OFF).  "disk"  *)
(* holds what may be on the disk: for the keyring and the index every      *)
(* version committed so far, for each slot of the image and for the flags  *)
(* every value written since the file was last synchronized.  An order     *)
(* between files is not assumed.  The loss of power picks one of each.     *)
(***************************************************************************)
EXTENDS LocalCache

VARIABLES
  disk,    \* [keys, index, flags : sets of values, image : one per chunk]
  unnoted  \* history: power was lost with neither flag on the disk

Written(syncs) ==
  disk' = [keys  |-> disk.keys \cup {keys'},
           index |-> disk.index \cup {index'},
           flags |-> (IF syncs THEN {} ELSE disk.flags) \cup {flags'},
           image |-> [c \in Chunk |->
                        (IF syncs THEN {} ELSE disk.image[c]) \cup {image'[c]}]]

PowerInit ==
  /\ Init
  /\ disk = [keys |-> {keys}, index |-> {index}, flags |-> {flags},
             image |-> [c \in Chunk |-> {image[c]}]]
  /\ unnoted = FALSE

CacheStep_NoSync ==
  /\ Next
  /\ Written(FALSE)
  /\ UNCHANGED unnoted

\* Every step leaves the earlier versions possible, except the fdatasync() of
\* cache_set_flags() and the fsync() of fuse_shutdown().
CacheStep ==
  /\ Next
  /\ Written(pc \in DOMAIN After /\ pc' = After[pc] /\ faults' = faults)
  /\ UNCHANGED unnoted

\* do_fsync() on the image.
DoFsync ==
  /\ pc = "serve"
  /\ UNCHANGED vars
  /\ Written(TRUE)
  /\ UNCHANGED unnoted

\* Power is lost once the cache has been created and its files are on the disk.
\* The history starts again from the keyring that is left.
LosePower ==
  /\ made = 4 /\ faults < MaxFault
  /\ keys' \in disk.keys /\ index' \in disk.index /\ flags' \in disk.flags
  /\ image' \in [Chunk -> Value \cup {Junk}]
  /\ \A c \in Chunk : image'[c] \in disk.image[c]
  /\ disk' = [keys |-> {keys'}, index |-> {index'}, flags |-> {flags'},
              image |-> [c \in Chunk |-> {image'[c]}]]
  /\ unnoted' = (unnoted \/ flags' = {})
  /\ pc' = "off" /\ upd' = None /\ leave_dirty' = FALSE
  /\ wrote' = keys' /\ sent' = None /\ lapse' = FALSE
  /\ faults' = faults + 1
  /\ UNCHANGED <<made, mode, unread>>

PowerNext == CacheStep \/ DoFsync \/ LosePower

PowerSpec == PowerInit /\ [][PowerNext]_<<vars, disk, unnoted>>

-----------------------------------------------------------------------------

\* fuse_init(): while a session serves the image, power cannot be lost without
\* one of the flags being found afterwards, so that the cache is validated or
\* known to be damaged before it is used again.  (Once power has been lost with
\* no flag on the disk, or a validation has forgotten a chunk it could not read,
\* an upload may find damage and die before its flag is synchronized.)
SessionMarked == pc = "serve" /\ ~unnoted /\ unread = 0 => {} \notin disk.flags

\* Whatever mixture of old and new files the loss of power left, a cache found
\* with a flag set is not cleared of it by validate_cache() unless its index,
\* its keyring and its image agree.
ValidatedAfterLoss == ~unnoted => CleanIsGood

\* After crashes and losses of power that left a flag, a session reads back what
\* the sessions before it committed, or what the keyring left of it.
ReadsBackAfterLoss == ~unnoted => SessionReadsBack

=============================================================================
