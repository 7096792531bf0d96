------------------------------- MODULE Hoard --------------------------------
(***************************************************************************)
(* The hoard cache (parcelkeeper/hoard.c, hoard_modes.c): a file of slots  *)
(* with one encoded chunk each, shared by all Parcelkeeper processes of a  *)
(* machine, and an index of it in SQLite.                                  *)
(*                                                                         *)
(* A process reserves slots in the index and gives them out from a private *)
(* table, its slot cache, which it writes back to the index when it is     *)
(* full and when the process ends.  The index is changed in transactions;  *)
(* the file is read after a transaction has ended and written before it    *)
(* ends, so neither is protected by it.                                    *)
(*                                                                         *)
(* The contents of a slot are the tag of the chunk in it, or Junk.         *)
(* Offsets count slots.                                                    *)
(***************************************************************************)
EXTENDS Naturals, FiniteSets

CONSTANTS
  Proc,            \* Parcelkeeper processes
  Threaded,        \* those that serve requests with several threads
  Tag,             \* chunks
  EXPAND_CHUNKS,   \* slots a process reserves at a time
  MaxMoves,        \* moves in one transaction of the compaction
  MaxSlots,        \* bound on the size of the file
  MaxFault,        \* bound on the number of faults
  Junk, None, Absent

ASSUME Sizes == /\ MaxSlots \in Nat /\ MaxFault \in Nat
                /\ EXPAND_CHUNKS \in Nat \ {0} /\ MaxMoves \in Nat \ {0}
ASSUME Markers == /\ Junk \notin Tag /\ None \notin Tag /\ Absent \notin Tag
                  /\ Absent # None

Offset == 0 .. (MaxSlots - 1)

VARIABLES
  chunks,    \* table chunks of the index: the row of each offset, or None
  refs,      \* table refs: the tags that some parcel refers to
  data,      \* the hoard file
  status,    \* what each process is doing
  slots,     \* table temp.slots of each process: None if the tag is NULL,
             \* Absent if there is no row
  txn,       \* the open transaction of each process, or None
  get,       \* hoard_get_chunk() of each process
  damaged,   \* history: slots whose last write failed, or that were damaged
  leaked,    \* history: a process died, or failed to give slots back, since
             \* the last cleanup
  faults

vars == <<chunks, refs, data, status, slots, txn, get, damaged, leaked, faults>>

Row == [tag : Tag \cup {None}, allocated : BOOLEAN]
Free == [tag |-> None, allocated |-> FALSE]
Reserved == [tag |-> None, allocated |-> TRUE]
Holding(t) == [tag |-> t, allocated |-> TRUE]
Index == [Offset -> Row \cup {None}]
SlotCache == [Offset -> Tag \cup {None, Absent}]
NoSlots == [o \in Offset |-> Absent]

\* The modes of a process: it serves requests ("run"), changes references or
\* collects garbage ("collect"), or checks and compacts ("check", "compact",
\* "truncate").  At the end it writes its slot cache back and cleans up.
Status == {"closed", "run", "collect", "check", "compact", "truncate", "flush",
           "unlock", "cleanup"}

\* A transaction: whether it has written to the index, the tables as it leaves
\* them, the write to the file that belongs to it, and what the process does next.
Transaction ==
  [write : BOOLEAN, chunks : Index, slots : SlotCache,
   step : {"junk", "data", "next", "commit"}, at : Offset \cup {None},
   from : Offset \cup {None}, tag : Tag \cup {None}, moved : 0 .. MaxMoves,
   next : Status]

Lookup == [pc : {"idle", "read", "invalid", "again"}, tag : Tag \cup {None},
           at : Offset \cup {None}, slot : BOOLEAN]
Idle == [pc |-> "idle", tag |-> None, at |-> None, slot |-> FALSE]

ASSUME NoneApart == None \notin Offset \cup Row \cup Transaction

TypeOK ==
  /\ chunks \in Index
  /\ refs \in SUBSET Tag
  /\ data \in [Offset -> Tag \cup {Junk}]
  /\ status \in [Proc -> Status]
  /\ slots \in [Proc -> SlotCache]
  /\ txn \in [Proc -> Transaction \cup {None}]
  /\ get \in [Proc -> Lookup]
  /\ damaged \in SUBSET Offset
  /\ leaked \in BOOLEAN
  /\ faults \in 0 .. MaxFault

Fault ==
  /\ faults < MaxFault
  /\ faults' = faults + 1

-----------------------------------------------------------------------------
(* SQLite: one transaction writes at a time, and it commits when no other  *)
(* process is inside a transaction.                                        *)

NoWriter == \A p \in Proc : txn[p] # None => ~txn[p].write
NobodyInside == \A p \in Proc : txn[p] = None
AloneInside(p) == \A q \in Proc \ {p} : txn[q] = None

TagsIn(c) == {c[o].tag : o \in {o \in Offset : c[o] # None}} \ {None}
Unallocated(c) == {o \in Offset : c[o] # None /\ ~c[o].allocated}
Tagged(c) == {o \in Offset : c[o] # None /\ c[o].tag # None}

\* The process is at a point where it can start a transaction.
Ready(p, s) == status[p] = s /\ txn[p] = None

Begin(p, t) ==
  /\ txn' = [txn EXCEPT ![p] = t]
  /\ UNCHANGED <<chunks, refs, status, slots, get, leaked, faults>>

-----------------------------------------------------------------------------
(* The slot cache                                                          *)

\* n is one more than the largest offset.
EndsAt(c, n) ==
  /\ \A o \in Offset : c[o] # None => o < n
  /\ n > 0 => c[n - 1] # None

\* expand_slot_cache(): old are the unallocated slots that are taken, and the
\* file grows from start to end if they are not enough.
Expansion(c, old, start, end) ==
  /\ old \subseteq Unallocated(c)
  /\ EndsAt(c, start)
  /\ Cardinality(old) + (end - start) = EXPAND_CHUNKS
  /\ end > start => old = Unallocated(c)

Taken(old, start, end) == old \cup (start .. (end - 1))

Expanded(c, old, start, end) ==
  [o \in Offset |-> IF o \in Taken(old, start, end) THEN Reserved ELSE c[o]]

\* The slot of a chunk that is in the index already stays allocated.
FlushedRow_Kept(c, s, o) ==
  CASE s[o] = Absent -> c[o]
    [] s[o] = None -> Free
    [] s[o] \in TagsIn(c) -> Reserved
    [] OTHER -> Holding(s[o])

\* _flush_slot_cache(): a chunk that is in the index already (the update violates
\* the uniqueness of tags) gives its slot back, like an unused slot.
FlushedRow(c, s, o) ==
  CASE s[o] = Absent -> c[o]
    [] s[o] = None -> Free
    [] s[o] \in TagsIn(c) -> Free
    [] OTHER -> Holding(s[o])
Flushed(c, s) == [o \in Offset |-> FlushedRow(c, s, o)]

-----------------------------------------------------------------------------
(* hoard_put_chunk()                                                       *)

\* Other threads can be inside hoard_get_chunk() meanwhile.
MayPut(p) == p \in Threaded \/ get[p].pc = "idle"

Put(p, w, c, s, o, t) ==
  /\ Begin(p, [write |-> w, chunks |-> c, slots |-> [s EXCEPT ![o] = t],
               step |-> "junk", at |-> o, from |-> None, tag |-> t, moved |-> 0,
               next |-> "run"])
  /\ UNCHANGED <<data, damaged>>

Missing(p, t) == t \notin TagsIn(chunks) /\ \A o \in Offset : slots[p][o] # t

\* allocate_slot() finds an unused slot in the slot cache.
PutInSlot(p, t) ==
  /\ Ready(p, "run") /\ MayPut(p) /\ Missing(p, t)
  /\ \E o \in Offset : /\ slots[p][o] = None
                       /\ Put(p, FALSE, chunks, slots[p], o, t)

\* allocate_slot() flushes the slot cache and fills it again.
PutInNewSlot(p, t) ==
  /\ Ready(p, "run") /\ MayPut(p) /\ Missing(p, t)
  /\ \A o \in Offset : slots[p][o] # None
  /\ NoWriter
  /\ LET c == Flushed(chunks, slots[p])
     IN  \E old \in SUBSET Unallocated(c), start, end \in 0 .. MaxSlots :
           /\ start =< end /\ Expansion(c, old, start, end)
           /\ \E o \in Taken(old, start, end) :
                Put(p, TRUE, Expanded(c, old, start, end),
                    [q \in Offset |-> IF q \in Taken(old, start, end)
                                      THEN None ELSE Absent], o, t)

-----------------------------------------------------------------------------
(* The write to the file that belongs to a transaction                     *)

\* pwrite() is not atomic: a reader can see some of the old and the new.
WriteStarts(p) ==
  /\ txn[p] # None /\ txn[p].step = "junk"
  /\ data' = [data EXCEPT ![txn[p].at] = Junk]
  /\ txn' = [txn EXCEPT ![p].step = "data"]
  /\ UNCHANGED <<chunks, refs, status, slots, get, damaged, leaked, faults>>

\* A put is ready to commit, the compaction goes on with the next chunk.
Written(t) ==
  IF t.from = None
  THEN [t EXCEPT !.step = "commit"]
  ELSE [t EXCEPT !.step = "next", !.moved = t.moved + 1,
                 !.chunks = [t.chunks EXCEPT ![t.from] = Free,
                                             ![t.at] = Holding(t.tag)]]

WriteEnds(p) ==
  /\ txn[p] # None /\ txn[p].step = "data"
  /\ data' = [data EXCEPT ![txn[p].at] = txn[p].tag]
  /\ damaged' = damaged \ {txn[p].at}
  /\ txn' = [txn EXCEPT ![p] = Written(txn[p])]
  /\ UNCHANGED <<chunks, refs, status, slots, get, leaked, faults>>

Commit(p) ==
  /\ txn[p] # None /\ txn[p].step = "commit"
  /\ txn[p].write => AloneInside(p)
  /\ chunks' = IF txn[p].write THEN txn[p].chunks ELSE chunks
  /\ slots' = [slots EXCEPT ![p] = txn[p].slots]
  /\ status' = [status EXCEPT ![p] = txn[p].next]
  /\ txn' = [txn EXCEPT ![p] = None]
  /\ UNCHANGED <<refs, data, get, damaged, leaked, faults>>

\* The tables are as before the transaction, the file is not.
Abort(p, next) ==
  /\ damaged' = IF txn[p].step = "junk" \/ txn[p].at = None
                THEN damaged ELSE damaged \cup {txn[p].at}
  /\ status' = [status EXCEPT ![p] = next]
  /\ txn' = [txn EXCEPT ![p] = None]
  /\ UNCHANGED <<chunks, refs, data, slots, get, leaked>>

\* SQLITE_BUSY: the operation is done again.
Busy(p) ==
  /\ txn[p] # None /\ txn[p].step = "commit"
  /\ txn[p].write /\ ~AloneInside(p)
  /\ Abort(p, status[p])
  /\ UNCHANGED faults

\* An I/O error: the chunk is not hoarded, or the check ends.
Rollback(p) ==
  /\ txn[p] # None
  /\ Fault
  /\ Abort(p, IF status[p] = "run" THEN "run" ELSE "flush")

-----------------------------------------------------------------------------
(* hoard_get_chunk(), and check_hoard_data()                               *)

Seek(p, t, o, slot) ==
  get' = [get EXCEPT ![p] = [pc |-> "read", tag |-> t, at |-> o, slot |-> slot]]

\* The slot cache is asked first.
Find(p, t) ==
  /\ Ready(p, "run")
  /\ get[p].pc = "idle" \/ (get[p].pc = "again" /\ get[p].tag = t)
  /\ \/ \E o \in Offset : slots[p][o] = t /\ Seek(p, t, o, TRUE)
     \/ /\ \A o \in Offset : slots[p][o] # t
        /\ \E o \in Tagged(chunks) : chunks[o].tag = t /\ Seek(p, t, o, FALSE)
     \/ /\ get[p].pc = "again"
        /\ \A o \in Offset : slots[p][o] # t
        /\ t \notin TagsIn(chunks)
        /\ get' = [get EXCEPT ![p] = Idle]
  /\ UNCHANGED <<chunks, refs, data, status, slots, txn, damaged, leaked, faults>>

\* One row of the table to_check.
CheckData(p) ==
  /\ Ready(p, "check") /\ get[p].pc = "idle"
  /\ \E o \in Tagged(chunks) : Seek(p, chunks[o].tag, o, FALSE)
  /\ UNCHANGED <<chunks, refs, data, status, slots, txn, damaged, leaked, faults>>

\* _hoard_read_chunk(), outside any transaction of this thread.
ReadChunk(p) ==
  /\ get[p].pc = "read"
  /\ get' = [get EXCEPT ![p] = IF data[get[p].at] = get[p].tag
                               THEN Idle ELSE [get[p] EXCEPT !.pc = "invalid"]]
  /\ UNCHANGED <<chunks, refs, data, status, slots, txn, damaged, leaked, faults>>

\* hoard_get_chunk() tries again, check_hoard_data() goes on.
Resume(p) ==
  get' = [get EXCEPT ![p] = IF status[p] = "run"
                            THEN [get[p] EXCEPT !.pc = "again"] ELSE Idle]

\* hoard_invalidate_chunk(): only if the chunk is still said to be there.
InvalidateChunk(p) ==
  /\ get[p].pc = "invalid" /\ ~get[p].slot /\ txn[p] = None
  /\ LET at == get[p].at
         there == chunks[at] # None /\ chunks[at].tag = get[p].tag
     IN  \/ there /\ NobodyInside /\ chunks' = [chunks EXCEPT ![at] = Free]
         \/ ~there /\ UNCHANGED chunks
  /\ Resume(p)
  /\ UNCHANGED <<refs, data, status, slots, txn, damaged, leaked, faults>>

\* hoard_invalidate_slot_chunk(): the slot is not looked at again.
InvalidateSlot(p) ==
  /\ get[p].pc = "invalid" /\ get[p].slot /\ txn[p] = None
  /\ slots' = [slots EXCEPT ![p][get[p].at] = IF @ = Absent THEN Absent ELSE None]
  /\ Resume(p)
  /\ UNCHANGED <<chunks, refs, data, status, txn, damaged, leaked, faults>>

\* The caller does not see an error of either, and tries again.
InvalidateFails(p) ==
  /\ get[p].pc = "invalid" /\ txn[p] = None
  /\ Fault
  /\ Resume(p)
  /\ UNCHANGED <<chunks, refs, data, status, slots, txn, damaged, leaked>>

-----------------------------------------------------------------------------
(* Modes that change the index: rmhoard(), gchoard(), check_hoard()        *)

Becomes(p, s) == status' = [status EXCEPT ![p] = s]

\* hoard_sync_refs(), or rmhoard().
ChangeRefs(p) ==
  /\ Ready(p, "collect") /\ NobodyInside
  /\ refs' \in SUBSET Tag
  /\ Becomes(p, "flush")
  /\ UNCHANGED <<chunks, data, slots, txn, get, damaged, leaked, faults>>

\* The test is the wrong way round.
Collected_Inverted(c, r) ==
  [o \in Offset |-> IF o \in Tagged(c) /\ c[o].tag \in r THEN Free ELSE c[o]]

\* _hoard_gc()
Collected(c, r) ==
  [o \in Offset |-> IF o \in Tagged(c) /\ c[o].tag \notin r THEN Free ELSE c[o]]

\* hoard_gc(): gchoard() is done, compact_hoard() goes on.
Gc(p) ==
  /\ \/ Ready(p, "collect") /\ Becomes(p, "flush")
     \/ Ready(p, "check") /\ get[p].pc = "idle" /\ Becomes(p, "compact")
  /\ NobodyInside
  /\ chunks' = Collected(chunks, refs)
  /\ UNCHANGED <<refs, data, slots, txn, get, damaged, leaked, faults>>

\* _compact_hoard_iteration() begins.
BeginMoves(p) ==
  /\ Ready(p, "compact") /\ NoWriter
  /\ Begin(p, [write |-> TRUE, chunks |-> chunks, slots |-> slots[p],
               step |-> "next", at |-> None, from |-> None, tag |-> None,
               moved |-> 0, next |-> "compact"])
  /\ UNCHANGED <<data, damaged>>

\* Unused slots of other processes are taken for unallocated ones.
LowerSlot_Tagless(c, from, to) ==
  /\ from \in Tagged(c)
  /\ c[to] # None /\ c[to].tag = None
  /\ to < from
  /\ \A o \in Tagged(c) : o =< from
  /\ \A o \in 0 .. (to - 1) : c[o] # None => c[o].tag # None

\* The last chunk, and the first unallocated slot, if that is a lower one.
LowerSlot(c, from, to) ==
  /\ from \in Tagged(c) /\ to \in Unallocated(c)
  /\ to < from
  /\ \A o \in Tagged(c) : o =< from
  /\ \A o \in Unallocated(c) : to =< o

Compact(c) == \A from \in Tagged(c), to \in Unallocated(c) : from < to

\* _compact_hoard_move_chunk(): the chunk is read and checked ...
MoveChunk(p) ==
  /\ txn[p] # None /\ txn[p].step = "next" /\ txn[p].moved < MaxMoves
  /\ \E from, to \in Offset :
       LET t == txn[p].chunks[from].tag
       IN  /\ LowerSlot(txn[p].chunks, from, to)
           /\ data[from] = t
           /\ txn' = [txn EXCEPT ![p] = [@ EXCEPT !.step = "junk", !.at = to,
                                                  !.from = from, !.tag = t]]
  /\ UNCHANGED <<chunks, refs, data, status, slots, get, damaged, leaked, faults>>

\* ... and the compaction ends when that fails.
MoveFails(p) ==
  /\ txn[p] # None /\ txn[p].step = "next" /\ txn[p].moved < MaxMoves
  /\ \E from, to \in Offset : /\ LowerSlot(txn[p].chunks, from, to)
                              /\ data[from] # txn[p].chunks[from].tag
  /\ Abort(p, "flush")
  /\ UNCHANGED faults

EndMoves(p) ==
  /\ txn[p] # None /\ txn[p].step = "next"
  /\ Compact(txn[p].chunks) \/ txn[p].moved = MaxMoves
  /\ txn' = [txn EXCEPT ![p] = [@ EXCEPT !.step = "commit",
       !.next = IF Compact(txn[p].chunks) THEN "truncate" ELSE "compact"]]
  /\ UNCHANGED <<chunks, refs, data, status, slots, get, damaged, leaked, faults>>

\* All unallocated slots are dropped.
Cut_Everywhere(c, n) == [o \in Offset |-> IF o \in Unallocated(c) THEN None ELSE c[o]]
Cut(c, n) == [o \in Offset |-> IF o < n THEN c[o] ELSE None]

\* _compact_hoard_truncate(): ftruncate() comes before the commit.
Truncate(p) ==
  /\ Ready(p, "truncate") /\ NoWriter
  /\ \E n \in 0 .. MaxSlots :
       /\ EndsAt([o \in Offset |-> IF o \in Unallocated(chunks)
                                   THEN None ELSE chunks[o]], n)
       /\ data' = [o \in Offset |-> IF o < n THEN data[o] ELSE Junk]
       /\ Begin(p, [write |-> TRUE, chunks |-> Cut(chunks, n), slots |-> slots[p],
                    step |-> "commit", at |-> None, from |-> None, tag |-> None,
                    moved |-> 0, next |-> "flush"])
  /\ UNCHANGED damaged

-----------------------------------------------------------------------------
(* hoard_init() and hoard_shutdown()                                       *)

\* The lock on the hoard file is shared, and waits for a cleanup.
Open(p) ==
  /\ status[p] = "closed"
  /\ \A q \in Proc : status[q] # "cleanup"
  /\ \E s \in {"run", "collect", "check"} : Becomes(p, s)
  /\ UNCHANGED <<chunks, refs, data, slots, txn, get, damaged, leaked, faults>>

Shutdown(p) ==
  /\ Ready(p, "run") \/ Ready(p, "check")
  /\ get[p].pc = "idle"
  /\ Becomes(p, "flush")
  /\ UNCHANGED <<chunks, refs, data, slots, txn, get, damaged, leaked, faults>>

FlushSlots(p) ==
  /\ status[p] = "flush" /\ NobodyInside
  /\ chunks' = Flushed(chunks, slots[p])
  /\ slots' = [slots EXCEPT ![p] = NoSlots]
  /\ Becomes(p, "unlock")
  /\ UNCHANGED <<refs, data, txn, get, damaged, leaked, faults>>

\* flush_slot_cache() returns no error.
FlushFails(p) ==
  /\ status[p] = "flush"
  /\ Fault
  /\ leaked' = TRUE
  /\ slots' = [slots EXCEPT ![p] = NoSlots]
  /\ Becomes(p, "unlock")
  /\ UNCHANGED <<chunks, refs, data, txn, get, damaged>>

Unused(p) == \A q \in Proc \ {p} : status[q] = "closed"

\* The cleanup starts whoever uses the hoard.
TryCleanup_Shared(p) ==
  /\ status[p] = "unlock"
  /\ Becomes(p, "cleanup")
  /\ UNCHANGED <<chunks, refs, data, slots, txn, get, damaged, leaked, faults>>

\* hoard_try_cleanup(): only with the exclusive lock on the hoard file.
TryCleanup(p) ==
  /\ status[p] = "unlock"
  /\ Becomes(p, IF Unused(p) THEN "cleanup" ELSE "closed")
  /\ UNCHANGED <<chunks, refs, data, slots, txn, get, damaged, leaked, faults>>

\* Slots that are allocated and hold nothing belong to nobody now.
Released(c) ==
  [o \in Offset |-> IF c[o] = Reserved THEN Free ELSE c[o]]

\* Sometimes it collects garbage too.
Cleanup(p) ==
  /\ status[p] = "cleanup"
  /\ chunks' \in {Released(chunks), Collected(Released(chunks), refs)}
  /\ leaked' = FALSE
  /\ Becomes(p, "closed")
  /\ UNCHANGED <<refs, data, slots, txn, get, damaged, faults>>

CleanupFails(p) ==
  /\ status[p] = "cleanup"
  /\ Fault
  /\ Becomes(p, "closed")
  /\ UNCHANGED <<chunks, refs, data, slots, txn, get, damaged, leaked>>

-----------------------------------------------------------------------------
(* Faults                                                                  *)

\* The process dies: SQLite undoes its transaction, its slot cache is gone.
Crash(p) ==
  /\ status[p] # "closed"
  /\ Fault
  /\ leaked' = TRUE
  /\ Becomes(p, "closed")
  /\ slots' = [slots EXCEPT ![p] = NoSlots]
  /\ txn' = [txn EXCEPT ![p] = None]
  /\ get' = [get EXCEPT ![p] = Idle]
  /\ UNCHANGED <<chunks, refs, data, damaged>>

\* A slot of the hoard file no longer holds what was written to it.
Damage(o) ==
  /\ Fault
  /\ data' = [data EXCEPT ![o] = Junk]
  /\ damaged' = damaged \cup {o}
  /\ UNCHANGED <<chunks, refs, status, slots, txn, get, leaked>>

-----------------------------------------------------------------------------
Init ==
  /\ chunks = [o \in Offset |-> None]
  /\ refs = {}
  /\ data = [o \in Offset |-> Junk]
  /\ status = [p \in Proc |-> "closed"]
  /\ slots = [p \in Proc |-> NoSlots]
  /\ txn = [p \in Proc |-> None]
  /\ get = [p \in Proc |-> Idle]
  /\ damaged = {}
  /\ leaked = FALSE
  /\ faults = 0

Transact(p) ==
  \/ WriteStarts(p) \/ WriteEnds(p) \/ Commit(p) \/ Busy(p)
  \/ MoveChunk(p) \/ MoveFails(p) \/ EndMoves(p)

Lookups(p) ==
  \/ \E t \in Tag : Find(p, t)
  \/ CheckData(p) \/ ReadChunk(p) \/ InvalidateChunk(p) \/ InvalidateSlot(p)

Maintain(p) ==
  \/ ChangeRefs(p) \/ Gc(p) \/ BeginMoves(p) \/ Truncate(p)

Leave(p) ==
  \/ Shutdown(p) \/ FlushSlots(p) \/ TryCleanup(p) \/ Cleanup(p)

Fails(p) ==
  \/ Rollback(p) \/ InvalidateFails(p) \/ FlushFails(p) \/ CleanupFails(p) \/ Crash(p)

Next ==
  \/ \E p \in Proc : \/ Open(p) \/ Leave(p) \/ Transact(p) \/ Lookups(p)
                     \/ Maintain(p) \/ Fails(p)
                     \/ \E t \in Tag : PutInSlot(p, t) \/ PutInNewSlot(p, t)
  \/ \E o \in Offset : Damage(o)

Spec == Init /\ [][Next]_vars

-----------------------------------------------------------------------------
(* Properties                                                              *)

\* A slot that a process can give out is reserved in the index, and is in no
\* other slot cache: no two processes ever write to the same slot, whatever the
\* collection, compaction and cleanup of others do between its transactions.
OneOwner ==
  \A p \in Proc, o \in Offset : slots[p][o] # Absent =>
    /\ chunks[o] = Reserved
    /\ \A q \in Proc \ {p} : slots[q][o] = Absent

\* Whatever the index or a slot cache says is in a slot is there, unless a write
\* to it failed, the file was damaged, or the transaction that takes the slot
\* from the cache is still open: _flush_slot_cache(), expand_slot_cache() and the
\* compaction write to the file before they commit, but only where nothing is.
Described ==
  /\ \A o \in Tagged(chunks) : data[o] = chunks[o].tag \/ o \in damaged
  /\ \A p \in Proc, o \in Offset : slots[p][o] \in Tag =>
       \/ data[o] = slots[p][o]
       \/ o \in damaged
       \/ txn[p] # None /\ txn[p].at = o

\* The rows of the index have no gap, which check_hoard() does not know how to
\* repair, although expand_slot_cache() and _compact_hoard_truncate() of several
\* processes add and delete rows.
Contiguous ==
  \A o \in Offset : chunks[o] # None => \A q \in 0 .. o : chunks[q] # None

\* As long as no process dies or fails to give its slots back, a slot that is
\* allocated and holds nothing is in some slot cache: flush_slot_cache() and the
\* transactions that fail lose no slot.
NoLeak ==
  ~leaked => \A o \in Offset : chunks[o] = Reserved =>
               \E p \in Proc : slots[p][o] # Absent

Hoarded(t) == \E o \in Tagged(chunks) : chunks[o].tag = t
Invalidates(p, t) ==
  get[p].pc = "invalid" /\ ~get[p].slot /\ get[p].tag = t /\ get'[p] # get[p]

\* A chunk that is in the index, and that a parcel refers to, leaves it only when
\* somebody has read its slot and found something else there: the garbage
\* collection, the compaction and the flush of a second copy keep it.
ReferencedKept ==
  [][\A t \in Tag : Hoarded(t) /\ t \in refs =>
       Hoarded(t)' \/ \E p \in Proc : Invalidates(p, t)]_vars

=============================================================================
