----------------------------- MODULE HoardProofs -----------------------------
(***************************************************************************)
(* What the hoard cache keeps to, for any number of processes, chunks,     *)
(* slots and faults.                                                       *)
(***************************************************************************)
EXTENDS Hoard, TLAPS

\* A step that names no prover is one for Zenon.
USE ZenonT(30)

InTxn(p) == txn[p] # None
Writes(p) == InTxn(p) /\ txn[p].write

\* A row says that its slot is free, reserved, or holds a chunk.
Rows(c) == \A o \in Offset : c[o] \in {None, Free, Reserved} \cup {Holding(t) : t \in Tag}

\* The slot caches s agree with the index c, see OneOwner.
Owned(c, s) ==
  \A p \in Proc, o \in Offset : s[p][o] # Absent =>
    c[o] = Reserved /\ \A q \in Proc \ {p} : s[q][o] = Absent

\* No reserved slot of c is in none of the slot caches, see NoLeak.
NoneLost(c, s) ==
  \A o \in Offset : c[o] = Reserved => \E p \in Proc : s[p][o] # Absent

\* The rows of c have no gap, see Contiguous.
NoGap(c) == \A o \in Offset : c[o] # None => \A q \in 0 .. o : c[q] # None

\* The file holds what c says, see Described.
Filed(c) == \A o \in Tagged(c) : data[o] = c[o].tag \/ o \in damaged

\* The slot caches as they are once the transaction of p has committed.
SlotsAfter(p) == [slots EXCEPT ![p] = txn[p].slots]

-----------------------------------------------------------------------------
\* When a process is inside a transaction, and when it has no slots.
Modes ==
  \A p \in Proc :
    /\ InTxn(p) => status[p] \in {"run", "compact", "truncate"}
    /\ status[p] \in {"closed", "unlock", "cleanup"} => slots[p] = NoSlots
    /\ status[p] = "cleanup" => \A q \in Proc \ {p} : status[q] = "closed"
    /\ get[p].pc # "idle" => get[p].tag \in Tag /\ get[p].at \in Offset

OneWriter == \A p, q \in Proc : Writes(p) /\ Writes(q) => p = q

\* A put: the slot it writes to is the process' own, or free and about to be.
Puts(p) ==
  InTxn(p) /\ status[p] = "run" =>
    LET x == txn[p]
    IN  /\ x.from = None /\ x.at \in Offset /\ x.tag \in Tag /\ x.next = "run"
        /\ x.step \in {"junk", "data", "commit"}
        /\ x.slots[x.at] = x.tag
        /\ ~x.write => slots[p][x.at] = None /\ x.slots = [slots[p] EXCEPT ![x.at] = x.tag]
        /\ x.write => /\ x.at \notin Tagged(chunks)
                      /\ \A o \in Offset : x.slots[o] \in Tag => o = x.at
        /\ x.step = "commit" => data[x.at] = x.tag \/ x.at \in damaged

\* What a transaction of the compaction has emptied lies behind all chunks, so
\* that it writes over no chunk that the index still knows.
Moves(p) ==
  InTxn(p) /\ status[p] = "compact" =>
    LET x == txn[p]
    IN  /\ x.write /\ x.slots = slots[p] /\ x.next \in {"compact", "truncate"}
        /\ \A o \in Tagged(chunks) : \/ x.chunks[o] = chunks[o]
                                     \/ /\ x.chunks[o] = Free
                                        /\ \A r \in Tagged(x.chunks) : r < o
        /\ x.step \in {"junk", "data"} =>
             /\ x.at \in Offset /\ x.from \in Offset /\ x.tag \in Tag
             /\ x.chunks[x.at] = Free /\ x.chunks[x.from] = Holding(x.tag)
             /\ x.at < x.from /\ \A o \in Tagged(x.chunks) : o =< x.from
             /\ x.at \notin Tagged(chunks) /\ x.moved < MaxMoves

Truncates(p) ==
  InTxn(p) /\ status[p] = "truncate" =>
    LET x == txn[p]
    IN  x.write /\ x.slots = slots[p] /\ x.step = "commit" /\ x.at = None /\ x.next = "flush"

\* What a transaction will commit has all of the properties of the index, and
\* every chunk of the index.
Commits(p) ==
  Writes(p) =>
    LET c == txn[p].chunks
    IN  /\ Rows(c) /\ NoGap(c) /\ Filed(c)
        /\ Owned(c, SlotsAfter(p))
        /\ ~leaked => NoneLost(c, SlotsAfter(p))
        /\ TagsIn(chunks) \subseteq TagsIn(c)

\* A slot cache tells the truth, except of a slot that a put writes again.
SlotsFiled ==
  \A p \in Proc, o \in Offset : slots[p][o] \in Tag =>
    \/ data[o] = slots[p][o]
    \/ o \in damaged
    \/ Writes(p) /\ status[p] = "run" /\ txn[p].at = o /\ txn[p].step # "junk"

\* What the open transactions keep to, and what the tables and the file do.
Transactions ==
  /\ OneWriter
  /\ \A p \in Proc : Puts(p) /\ Moves(p) /\ Truncates(p) /\ Commits(p)

Tables ==
  /\ Rows(chunks) /\ NoGap(chunks) /\ Filed(chunks) /\ SlotsFiled
  /\ Owned(chunks, slots)
  /\ ~leaked => NoneLost(chunks, slots)

IInv == TypeOK /\ Modes /\ Transactions /\ Tables

-----------------------------------------------------------------------------
(* The operators on the index                                              *)

\* A row is of one kind.
LEMMA RowFacts ==
  /\ Free \in Row /\ Reserved \in Row /\ Free # Reserved
  /\ None # Free /\ None # Reserved
  /\ Free.tag = None /\ ~Free.allocated /\ Reserved.tag = None /\ Reserved.allocated
  /\ \A t \in Tag : /\ Holding(t) \in Row /\ Holding(t) # None
                    /\ Holding(t) # Free /\ Holding(t) # Reserved
                    /\ Holding(t).tag = t /\ Holding(t).allocated
  /\ \A t, u \in Tag : Holding(t) = Holding(u) => t = u
<1>1. Free \in Row /\ Reserved \in Row /\ \A t \in Tag : Holding(t) \in Row
  BY DEF Free, Reserved, Holding, Row
<1>2. /\ Free.tag = None /\ Free.allocated = FALSE
      /\ Reserved.tag = None /\ Reserved.allocated = TRUE
      /\ \A t \in Tag : Holding(t).tag = t /\ Holding(t).allocated = TRUE
  BY DEF Free, Reserved, Holding
<1>3. None \notin Row BY NoneApart
<1>4. \A t \in Tag : t # None BY Markers
<1> QED BY <1>1, <1>2, <1>3, <1>4

\* Which rows hold a chunk, and which are free.
LEMMA KindFacts ==
  ASSUME NEW c, Rows(c)
  PROVE  /\ \A o \in Offset : o \in Tagged(c) <=> \E t \in Tag : c[o] = Holding(t)
         /\ \A o \in Tagged(c) : o \in Offset /\ c[o].tag \in Tag /\ c[o] = Holding(c[o].tag)
         /\ \A o \in Offset : o \in Unallocated(c) <=> c[o] = Free
         /\ Unallocated(c) \subseteq Offset
         /\ \A t \in Tag : t \in TagsIn(c) <=> \E o \in Offset : c[o] = Holding(t)
         /\ TagsIn(c) \subseteq Tag
<1>1. \A o \in Offset : o \in Tagged(c) <=> \E t \in Tag : c[o] = Holding(t)
  BY RowFacts, Markers, SMTT(20) DEF Rows, Tagged
<1>2. \A o \in Tagged(c) : o \in Offset /\ c[o].tag \in Tag /\ c[o] = Holding(c[o].tag)
  BY <1>1, RowFacts, SMTT(20) DEF Tagged
<1>3. \A o \in Offset : o \in Unallocated(c) <=> c[o] = Free
  BY RowFacts DEF Rows, Unallocated
<1>4. Unallocated(c) \subseteq Offset BY DEF Unallocated
<1>5. TagsIn(c) = {c[o].tag : o \in Tagged(c)}
  BY DEF TagsIn, Tagged
<1>6. TagsIn(c) \subseteq Tag BY <1>2, <1>5
<1>7. \A t \in Tag : t \in TagsIn(c) <=> \E o \in Offset : c[o] = Holding(t)
  BY <1>1, <1>2, <1>5, RowFacts, SMTT(20)
<1> QED BY <1>1, <1>2, <1>3, <1>4, <1>6, <1>7

\* _flush_slot_cache() changes the rows of the slot cache only.
LEMMA FlushedFacts ==
  ASSUME NEW c, Rows(c), NEW s \in SlotCache,
         \A o \in Offset : s[o] # Absent => c[o] = Reserved
  PROVE  LET f == Flushed(c, s)
         IN  /\ f \in [Offset -> Row \cup {None}] /\ Rows(f)
             /\ \A o \in Offset : s[o] = Absent => f[o] = c[o]
             /\ \A o \in Offset : s[o] # Absent => f[o] = Free \/ (s[o] \in Tag /\ f[o] = Holding(s[o]))
             /\ NoGap(c) => NoGap(f)
             /\ TagsIn(c) \subseteq TagsIn(f)
<1> DEFINE f == Flushed(c, s)
<1>1. \A o \in Offset : s[o] \in Tag \cup {None, Absent} BY DEF SlotCache
<1>10. TagsIn(c) \subseteq Tag /\ Absent \notin Tag /\ None \notin Tag /\ Absent # None
  BY KindFacts, Markers
<1>2. \A o \in Offset : s[o] = Absent => f[o] = c[o]
  BY <1>10 DEF Flushed, FlushedRow
<1>3. \A o \in Offset : s[o] # Absent => f[o] = Free \/ (s[o] \in Tag /\ f[o] = Holding(s[o]))
  BY <1>1, <1>10 DEF Flushed, FlushedRow
<1>4. f = [o \in Offset |-> f[o]] BY DEF Flushed
<1> HIDE DEF f
<1>5. Rows(f) BY <1>2, <1>3 DEF Rows
<1>6. f \in [Offset -> Row \cup {None}] BY <1>4, <1>5, RowFacts, SMTT(20) DEF Rows
<1>7. \A o \in Offset : f[o] # None <=> c[o] # None BY <1>2, <1>3, RowFacts, SMTT(20)
<1>8. NoGap(c) => NoGap(f)
  <2>1. \A o \in Offset : \A q \in 0 .. o : q \in Offset BY Sizes, SMTT(20) DEF Offset
  <2> QED BY <1>7, <2>1 DEF NoGap
<1>9. TagsIn(c) \subseteq TagsIn(f)
  <2> SUFFICES ASSUME NEW t \in TagsIn(c) PROVE t \in TagsIn(f) OBVIOUS
  <2>1. t \in Tag BY KindFacts
  <2>2. PICK o \in Offset : c[o] = Holding(t) BY <2>1, KindFacts
  <2>3. f[o] = Holding(t) BY <1>2, <2>1, <2>2, RowFacts
  <2> QED BY <1>5, <2>1, <2>3, KindFacts
<1> QED BY <1>2, <1>3, <1>5, <1>6, <1>8, <1>9 DEF f

\* expand_slot_cache() reserves free slots and the slots behind the last one.
LEMMA ExpandedFacts ==
  ASSUME NEW c \in [Offset -> Row \cup {None}], Rows(c),
         NEW old \in SUBSET Unallocated(c), NEW start \in 0 .. MaxSlots, NEW end \in 0 .. MaxSlots,
         EndsAt(c, start)
  PROVE  LET e == Expanded(c, old, start, end)
             taken == Taken(old, start, end)
         IN  /\ e \in [Offset -> Row \cup {None}] /\ Rows(e)
             /\ taken \subseteq Offset
             /\ \A o \in taken : e[o] = Reserved /\ (c[o] = Free \/ c[o] = None)
             /\ \A o \in Offset \ taken : e[o] = c[o]
             /\ NoGap(c) => NoGap(e)
             /\ TagsIn(c) \subseteq TagsIn(e)
<1> DEFINE e == Expanded(c, old, start, end)
           taken == Taken(old, start, end)
<1> USE Sizes
<1>1. taken \subseteq Offset
  BY KindFacts, SMTT(20) DEF Taken, Offset
<1>2. \A o \in taken : c[o] = Free \/ c[o] = None
  <2> TAKE o \in taken
  <2>1. CASE o \in old BY <2>1, KindFacts
  <2>2. CASE o \in start .. (end - 1)
    <3>1. o \in Offset /\ ~(o < start) BY <2>2, SMTT(20) DEF Offset
    <3> QED BY <3>1 DEF EndsAt
  <2> QED BY <2>1, <2>2 DEF Taken
<1>3. \A o \in Offset : e[o] = IF o \in taken THEN Reserved ELSE c[o] BY DEF Expanded
<1>4. e = [o \in Offset |-> e[o]] BY DEF Expanded
<1>5. ASSUME NoGap(c) PROVE NoGap(e)
  <2> SUFFICES ASSUME NEW o \in Offset, e[o] # None, NEW q \in 0 .. o PROVE e[q] # None
    BY DEF NoGap
  <2>0. q \in Offset BY SMTT(20) DEF Offset
  <2>1. CASE q \in taken BY <1>3, <2>0, <2>1, RowFacts
  <2>2. CASE q \notin taken /\ c[o] # None
    BY <1>3, <1>5, <2>0, <2>2 DEF NoGap
  <2>3. CASE q \notin taken /\ c[o] = None
    <3>1. o \in taken BY <1>3, <2>3
    <3>2. o \in start .. (end - 1)
      BY <2>3, <3>1, KindFacts, RowFacts DEF Taken
    <3>3. q < start BY <2>3, <3>2, SMTT(20) DEF Taken
    <3>4. start - 1 \in Offset /\ c[start - 1] # None /\ q \in 0 .. (start - 1)
      BY <3>2, <3>3, SMTT(20) DEF EndsAt, Offset
    <3>5. c[q] # None BY <1>5, <3>4 DEF NoGap
    <3> QED BY <1>3, <2>0, <2>3, <3>5
  <2> QED BY <2>1, <2>2, <2>3
<1> HIDE DEF e, taken
<1>6. Rows(e) BY <1>3 DEF Rows
<1>7. e \in [Offset -> Row \cup {None}] BY <1>4, <1>6, RowFacts, SMTT(20) DEF Rows
<1>8. TagsIn(c) \subseteq TagsIn(e)
  <2> SUFFICES ASSUME NEW t \in TagsIn(c) PROVE t \in TagsIn(e) OBVIOUS
  <2>1. t \in Tag BY KindFacts
  <2>2. PICK o \in Offset : c[o] = Holding(t) BY <2>1, KindFacts
  <2>3. e[o] = Holding(t) BY <1>2, <1>3, <2>1, <2>2, RowFacts
  <2> QED BY <1>6, <2>1, <2>3, KindFacts
<1> QED BY <1>1, <1>2, <1>3, <1>5, <1>6, <1>7, <1>8 DEF e, taken

\* _hoard_gc(), the cleanup and _compact_hoard_truncate().
LEMMA ShrinkFacts ==
  ASSUME NEW c \in Index, NEW r, NEW n
  PROVE  Collected(c, r) \in Index /\ Released(c) \in Index /\ Cut(c, n) \in Index
<1>1. \A o \in Offset : c[o] \in Row \cup {None} BY DEF Index
<1> QED BY <1>1, RowFacts DEF Collected, Released, Cut, Index

-----------------------------------------------------------------------------
(* Types and modes                                                         *)

\* A transaction that goes on is a transaction.
LEMMA RecordFacts ==
  ASSUME NEW x \in Transaction
  PROVE  /\ \A s \in {"junk", "data", "next", "commit"} : [x EXCEPT !.step = s] \in Transaction
         /\ \A n \in Status :
              [x EXCEPT !.step = "commit", !.next = n] \in Transaction
         /\ \A o \in Offset, f \in Offset, t \in Tag :
              [x EXCEPT !.step = "junk", !.at = o, !.from = f, !.tag = t] \in Transaction
         /\ \A m \in 0 .. MaxMoves, c \in Index :
              [x EXCEPT !.step = "next", !.moved = m, !.chunks = c] \in Transaction
  BY DEF Transaction

\* What a transaction becomes when its write to the hoard file has ended.
LEMMA WrittenType ==
  ASSUME IInv, NEW p \in Proc, InTxn(p), txn[p].step = "data"
  PROVE  Written(txn[p]) \in Transaction
<1> DEFINE x == txn[p]
<1>1. x \in Transaction BY DEF IInv, TypeOK, InTxn
<1>2. CASE x.from = None BY <1>1, <1>2, RecordFacts DEF Written
<1>3. CASE x.from # None
  <2>1. status[p] = "compact"
    BY <1>3 DEF IInv, Modes, Transactions, Puts, Truncates, InTxn
  <2>2. x.moved < MaxMoves /\ x.tag \in Tag
    BY <2>1 DEF IInv, Transactions, Moves
  <2>3. x.moved + 1 \in 0 .. MaxMoves BY <1>1, <2>2, Sizes, SMTT(20) DEF Transaction
  <2>4. x.chunks \in Index BY <1>1 DEF Transaction
  <2>5. [x.chunks EXCEPT ![x.from] = Free, ![x.at] = Holding(x.tag)] \in Index
    BY <2>2, <2>4, RowFacts DEF Index
  <2> QED BY <1>1, <1>3, <2>3, <2>5, RecordFacts DEF Written
<1> QED BY <1>2, <1>3

\* The transaction that a put opens.
LEMMA PutType ==
  ASSUME NEW w \in BOOLEAN, NEW c \in Index, NEW s \in SlotCache, NEW o \in Offset, NEW t \in Tag
  PROVE  [write |-> w, chunks |-> c, slots |-> [s EXCEPT ![o] = t],
          step |-> "junk", at |-> o, from |-> None, tag |-> t, moved |-> 0,
          next |-> "run"] \in Transaction
<1>1. [s EXCEPT ![o] = t] \in SlotCache BY DEF SlotCache
<1>2. 0 \in 0 .. MaxMoves BY Sizes, SMTT(20)
<1> QED BY <1>1, <1>2 DEF Transaction, Status

\* What PutInNewSlot sees of the tables.
LEMMA NewSlotFacts ==
  ASSUME IInv, NEW p \in Proc
  PROVE  LET c == Flushed(chunks, slots[p])
         IN  /\ c \in Index /\ Rows(c) /\ NoGap(c) /\ TagsIn(chunks) \subseteq TagsIn(c)
             /\ \A o \in Offset : slots[p][o] = Absent => c[o] = chunks[o]
             /\ \A o \in Offset : slots[p][o] # Absent =>
                  c[o] = Free \/ (slots[p][o] \in Tag /\ c[o] = Holding(slots[p][o]))
<1>1. slots[p] \in SlotCache BY DEF IInv, TypeOK
<1>2. \A o \in Offset : slots[p][o] # Absent => chunks[o] = Reserved BY DEF IInv, Tables, Owned
<1>3. Rows(chunks) /\ NoGap(chunks) BY DEF IInv, Tables
<1> HIDE DEF IInv
<1> QED BY <1>1, <1>2, <1>3, FlushedFacts DEF Index

\* The slot cache of a process that starts is empty.
LEMMA NoSlotsType == NoSlots \in SlotCache
  BY DEF NoSlots, SlotCache

\* A fault stays within the bound.
LEMMA FaultCounted ==
  ASSUME faults \in 0 .. MaxFault, Fault PROVE faults' \in 0 .. MaxFault
  BY Sizes, SMTT(20) DEF Fault

\* A write to the file is of a chunk, to a slot.
LEMMA TagsWritten ==
  ASSUME IInv, NEW p \in Proc, InTxn(p), txn[p].step \in {"junk", "data"}
  PROVE  txn[p].tag \in Tag /\ txn[p].at \in Offset
  BY DEF IInv, Modes, InTxn, Transactions, Puts, Moves, Truncates

\* Every step keeps the types.
LEMMA TypeInv ==
  ASSUME IInv, Next PROVE TypeOK'
<1>0. TypeOK BY DEF IInv
<1>1. ASSUME NEW p \in Proc, Open(p) PROVE TypeOK'
  BY <1>1, <1>0 DEF Open, Becomes, TypeOK, Status
<1>2. ASSUME NEW p \in Proc, Shutdown(p) PROVE TypeOK'
  BY <1>2, <1>0 DEF Shutdown, Becomes, TypeOK, Status
<1>3. ASSUME NEW p \in Proc, FlushSlots(p) PROVE TypeOK'
  BY <1>3, <1>0, NewSlotFacts, NoSlotsType DEF FlushSlots, Becomes, TypeOK,
    Status
<1>4. ASSUME NEW p \in Proc, TryCleanup(p) PROVE TypeOK'
  BY <1>4, <1>0 DEF TryCleanup, Becomes, TypeOK, Status
<1>5. ASSUME NEW p \in Proc, Cleanup(p) PROVE TypeOK'
  BY <1>5, <1>0, ShrinkFacts DEF Cleanup, Becomes, TypeOK, Status
<1>6. ASSUME NEW p \in Proc, WriteStarts(p) PROVE TypeOK'
  BY <1>6, <1>0, RecordFacts DEF WriteStarts, TypeOK
<1>7. ASSUME NEW p \in Proc, WriteEnds(p) PROVE TypeOK'
  <2>1. Written(txn[p]) \in Transaction BY <1>7, WrittenType DEF WriteEnds, InTxn
  <2>2. txn[p] \in Transaction BY <1>0, <1>7 DEF TypeOK, WriteEnds
  <2>3. txn' \in [Proc -> Transaction \cup {None}] BY <1>0, <1>7, <2>1 DEF TypeOK, WriteEnds
  <2>4. txn[p].tag \in Tag BY <1>7, TagsWritten DEF WriteEnds, InTxn
  <2>5. data' \in [Offset -> Tag \cup {Junk}] BY <1>0, <1>7, <2>4 DEF TypeOK, WriteEnds
  <2>6. damaged' \in SUBSET Offset BY <1>0, <1>7 DEF TypeOK, WriteEnds
  <2> QED BY <1>0, <1>7, <2>3, <2>5, <2>6 DEF TypeOK, WriteEnds
<1>8. ASSUME NEW p \in Proc, Commit(p) PROVE TypeOK'
  BY <1>8, <1>0 DEF Commit, TypeOK, Transaction
<1>9. ASSUME NEW p \in Proc, Busy(p) PROVE TypeOK'
  BY <1>9, <1>0 DEF Busy, Abort, TypeOK, Transaction
<1>10. ASSUME NEW p \in Proc, MoveChunk(p) PROVE TypeOK'
  <2>1. PICK from, to \in Offset :
          /\ LowerSlot(txn[p].chunks, from, to)
          /\ txn' = [txn EXCEPT ![p] = [@ EXCEPT !.step = "junk", !.at = to,
                       !.from = from, !.tag = txn[p].chunks[from].tag]]
    BY <1>10 DEF MoveChunk
  <2>2. txn[p] \in Transaction BY <1>0, <1>10 DEF TypeOK, MoveChunk
  <2>3. txn[p].chunks[from].tag \in Tag
    BY <2>1, <2>2 DEF LowerSlot, Tagged, Transaction, Index, Row
  <2>4. txn' \in [Proc -> Transaction \cup {None}]
    BY <1>0, <2>1, <2>2, <2>3, RecordFacts DEF TypeOK
  <2> QED BY <1>0, <1>10, <2>4 DEF TypeOK, MoveChunk
<1>11. ASSUME NEW p \in Proc, MoveFails(p) PROVE TypeOK'
  BY <1>11, <1>0 DEF MoveFails, Abort, TypeOK, Transaction, Status
<1>12. ASSUME NEW p \in Proc, EndMoves(p) PROVE TypeOK'
  BY <1>12, <1>0, RecordFacts DEF EndMoves, TypeOK, Status
<1>13. ASSUME NEW p \in Proc, NEW t \in Tag, Find(p, t) PROVE TypeOK'
  <2>1. Idle \in Lookup /\ \A u \in Tag, o \in Offset, b \in BOOLEAN :
          [pc |-> "read", tag |-> u, at |-> o, slot |-> b] \in Lookup
    BY DEF Idle, Lookup
  <2>3. \A o \in Tagged(chunks) : o \in Offset BY DEF Tagged
  <2>4. \E r \in Lookup : get' = [get EXCEPT ![p] = r]
    BY <1>13, <2>1, <2>3 DEF Find, Seek
  <2>2. get' \in [Proc -> Lookup] BY <1>0, <2>4 DEF TypeOK
  <2> QED BY <1>0, <1>13, <2>2 DEF Find, TypeOK
<1>14. ASSUME NEW p \in Proc, CheckData(p) PROVE TypeOK'
  <2>1. \A u \in Tag, o \in Offset, b \in BOOLEAN :
          [pc |-> "read", tag |-> u, at |-> o, slot |-> b] \in Lookup
    BY DEF Lookup
  <2>2. \A o \in Tagged(chunks) : o \in Offset /\ chunks[o].tag \in Tag
    BY KindFacts DEF IInv, Tables
  <2>4. \E r \in Lookup : get' = [get EXCEPT ![p] = r]
    BY <1>14, <2>1, <2>2 DEF CheckData, Seek
  <2>3. get' \in [Proc -> Lookup] BY <1>0, <2>4 DEF TypeOK
  <2> QED BY <1>0, <1>14, <2>3 DEF CheckData, TypeOK
<1>15. ASSUME NEW p \in Proc, ReadChunk(p) PROVE TypeOK'
  BY <1>15, <1>0, SMTT(20) DEF ReadChunk, TypeOK, Lookup, Idle
<1>16. ASSUME NEW p \in Proc, InvalidateChunk(p) PROVE TypeOK'
  BY <1>16, <1>0, RowFacts, SMTT(20) DEF InvalidateChunk, Resume, TypeOK, Lookup, Idle,
    Index
<1>17. ASSUME NEW p \in Proc, InvalidateSlot(p) PROVE TypeOK'
  <2>1. slots' \in [Proc -> SlotCache] BY <1>0, <1>17 DEF InvalidateSlot, TypeOK, SlotCache
  <2>2. get' \in [Proc -> Lookup] BY <1>0, <1>17, SMTT(20) DEF InvalidateSlot, Resume, TypeOK, Lookup, Idle
  <2> QED BY <1>0, <1>17, <2>1, <2>2 DEF InvalidateSlot, TypeOK
<1>18. ASSUME NEW p \in Proc, ChangeRefs(p) PROVE TypeOK'
  BY <1>18, <1>0 DEF ChangeRefs, Becomes, TypeOK, Status
<1>19. ASSUME NEW p \in Proc, Gc(p) PROVE TypeOK'
  BY <1>19, <1>0, ShrinkFacts DEF Gc, Becomes, TypeOK, Status
<1>20. ASSUME NEW p \in Proc, BeginMoves(p) PROVE TypeOK'
  BY <1>20, <1>0, Sizes, SMTT(20) DEF BeginMoves, Begin, TypeOK, Transaction, Status
<1>21. ASSUME NEW p \in Proc, Truncate(p) PROVE TypeOK'
  <2>1. PICK n \in 0 .. MaxSlots :
          /\ data' = [o \in Offset |-> IF o < n THEN data[o] ELSE Junk]
          /\ Begin(p, [write |-> TRUE, chunks |-> Cut(chunks, n), slots |-> slots[p],
                       step |-> "commit", at |-> None, from |-> None, tag |-> None,
                       moved |-> 0, next |-> "flush"])
    BY <1>21 DEF Truncate
  <2>2. chunks \in Index BY <1>0 DEF TypeOK
  <2>3. Cut(chunks, n) \in Index BY <2>2, ShrinkFacts
  <2>4. 0 \in 0 .. MaxMoves BY Sizes, SMTT(20)
  <2>5. txn' \in [Proc -> Transaction \cup {None}]
    BY <1>0, <2>1, <2>3, <2>4 DEF Begin, TypeOK, Transaction, Status
  <2>6. data' \in [Offset -> Tag \cup {Junk}] BY <1>0, <2>1 DEF TypeOK
  <2> QED BY <1>0, <1>21, <2>1, <2>5, <2>6 DEF Truncate, Begin, TypeOK
<1>22. ASSUME NEW p \in Proc, Rollback(p) PROVE TypeOK'
  BY <1>22, <1>0, FaultCounted DEF Rollback, Abort, TypeOK, Transaction,
    Status
<1>23. ASSUME NEW p \in Proc, InvalidateFails(p) PROVE TypeOK'
  BY <1>23, <1>0, FaultCounted, SMTT(20) DEF InvalidateFails, Resume, TypeOK, Lookup,
    Idle
<1>24. ASSUME NEW p \in Proc, FlushFails(p) PROVE TypeOK'
  BY <1>24, <1>0, FaultCounted, NoSlotsType DEF FlushFails, Becomes, TypeOK,
    Status
<1>25. ASSUME NEW p \in Proc, CleanupFails(p) PROVE TypeOK'
  BY <1>25, <1>0, FaultCounted DEF CleanupFails, Becomes, TypeOK, Status
<1>26. ASSUME NEW p \in Proc, Crash(p) PROVE TypeOK'
  BY <1>26, <1>0, FaultCounted, NoSlotsType DEF Crash, Becomes, TypeOK,
    Status, Lookup, Idle
<1>27. ASSUME NEW p \in Proc, NEW t \in Tag, PutInSlot(p, t) PROVE TypeOK'
  <2>2. chunks \in Index /\ slots[p] \in SlotCache BY <1>0 DEF TypeOK
  <2>3. \E x \in Transaction : txn' = [txn EXCEPT ![p] = x]
    BY <1>27, <2>2, PutType DEF PutInSlot, Put, Begin
  <2>1. txn' \in [Proc -> Transaction \cup {None}] BY <1>0, <2>3 DEF TypeOK
  <2> QED BY <1>0, <1>27, <2>1 DEF PutInSlot, Put, Begin, TypeOK
<1>28. ASSUME NEW p \in Proc, NEW t \in Tag, PutInNewSlot(p, t) PROVE TypeOK'
  <2> DEFINE c == Flushed(chunks, slots[p])
  <2>1. PICK old \in SUBSET Unallocated(c), start \in 0 .. MaxSlots, end \in 0 .. MaxSlots :
          /\ EndsAt(c, start)
          /\ \E o \in Taken(old, start, end) :
               Put(p, TRUE, Expanded(c, old, start, end),
                   [q \in Offset |-> IF q \in Taken(old, start, end)
                                     THEN None ELSE Absent], o, t)
    BY <1>28 DEF PutInNewSlot, Expansion
  <2>2. c \in Index /\ Rows(c) BY NewSlotFacts
  <2> HIDE DEF c
  <2>3. Expanded(c, old, start, end) \in Index /\ Taken(old, start, end) \subseteq Offset
    BY <2>1, <2>2, ExpandedFacts DEF Index
  <2>4. [q \in Offset |-> IF q \in Taken(old, start, end) THEN None ELSE Absent] \in SlotCache
    BY DEF SlotCache
  <2>6. \E x \in Transaction : txn' = [txn EXCEPT ![p] = x]
    BY <2>1, <2>3, <2>4, PutType DEF Put, Begin
  <2>5. txn' \in [Proc -> Transaction \cup {None}] BY <1>0, <2>6 DEF TypeOK
  <2> QED BY <1>0, <2>1, <2>5 DEF Put, Begin, TypeOK
<1>29. ASSUME NEW o \in Offset, Damage(o) PROVE TypeOK'
  BY <1>29, <1>0, FaultCounted DEF Damage, TypeOK
<1> QED BY <1>1, <1>2, <1>3, <1>4, <1>5, <1>6, <1>7, <1>8, <1>9, <1>10, <1>11,
  <1>12, <1>13, <1>14, <1>15, <1>16, <1>17, <1>18, <1>19, <1>20, <1>21, <1>22,
  <1>23, <1>24, <1>25, <1>26, <1>27, <1>28, <1>29 DEF Next, Transact, Lookups,
  Maintain, Leave, Fails

\* hoard_shutdown() comes after the last transaction, and the cleanup when all
\* others are gone.
LEMMA ModesInv ==
  ASSUME IInv, Next PROVE Modes'
<1>0. TypeOK /\ Modes /\ Transactions /\ Tables BY DEF IInv
<1>1. ASSUME NEW p \in Proc, Open(p) PROVE Modes'
  BY <1>1, <1>0, SMTT(20) DEF Open, Becomes, Ready, TypeOK, Modes, InTxn
<1>2. ASSUME NEW p \in Proc, Shutdown(p) PROVE Modes'
  BY <1>2, <1>0 DEF Shutdown, Becomes, Ready, TypeOK, Modes, InTxn
<1>3. ASSUME NEW p \in Proc, FlushSlots(p) PROVE Modes'
  BY <1>3, <1>0 DEF FlushSlots, Becomes, NobodyInside, TypeOK, Modes, InTxn
<1>4. ASSUME NEW p \in Proc, TryCleanup(p) PROVE Modes'
  BY <1>4, <1>0 DEF TryCleanup, Becomes, Unused, TypeOK, Modes, InTxn
<1>5. ASSUME NEW p \in Proc, Cleanup(p) PROVE Modes'
  BY <1>5, <1>0 DEF Cleanup, Becomes, TypeOK, Modes, InTxn
<1>6. ASSUME NEW p \in Proc, WriteStarts(p) PROVE Modes'
  BY <1>6, <1>0 DEF WriteStarts, TypeOK, Modes, InTxn
<1>7. ASSUME NEW p \in Proc, WriteEnds(p) PROVE Modes'
  BY <1>7, <1>0 DEF WriteEnds, TypeOK, Modes, InTxn
<1>8. ASSUME NEW p \in Proc, Commit(p) PROVE Modes'
  <2>1. txn[p].next \in {"run", "compact", "truncate", "flush"}
    BY <1>0, <1>8 DEF Commit, Modes, InTxn, Transactions, Puts, Moves, Truncates
  <2>2. txn'[p] = None /\ status'[p] = txn[p].next BY <1>0, <1>8 DEF Commit, TypeOK
  <2>3. \A q \in Proc \ {p} : /\ txn'[q] = txn[q] /\ status'[q] = status[q]
                              /\ slots'[q] = slots[q]
    BY <1>0, <1>8 DEF Commit, TypeOK
  <2>4. status[p] # "closed" /\ get' = get BY <1>0, <1>8 DEF Commit, Modes, InTxn
  <2> QED BY <1>0, <2>1, <2>2, <2>3, <2>4, SMTT(20) DEF Modes, InTxn
<1>9. ASSUME NEW p \in Proc, Busy(p) PROVE Modes'
  BY <1>9, <1>0 DEF Busy, Abort, TypeOK, Modes, InTxn
<1>10. ASSUME NEW p \in Proc, MoveChunk(p) PROVE Modes'
  BY <1>10, <1>0 DEF MoveChunk, TypeOK, Modes, InTxn
<1>11. ASSUME NEW p \in Proc, MoveFails(p) PROVE Modes'
  BY <1>11, <1>0 DEF MoveFails, Abort, TypeOK, Modes, InTxn
<1>12. ASSUME NEW p \in Proc, EndMoves(p) PROVE Modes'
  BY <1>12, <1>0 DEF EndMoves, TypeOK, Modes, InTxn
<1>13. ASSUME NEW p \in Proc, NEW t \in Tag, Find(p, t) PROVE Modes'
  BY <1>13, <1>0, SMTT(20) DEF Find, Seek, Ready, TypeOK, Modes, InTxn, Idle, Tagged
<1>14. ASSUME NEW p \in Proc, CheckData(p) PROVE Modes'
  BY <1>14, <1>0, KindFacts, SMTT(20) DEF CheckData, Seek, Ready, TypeOK, Modes, InTxn,
    Tables
<1>15. ASSUME NEW p \in Proc, ReadChunk(p) PROVE Modes'
  BY <1>15, <1>0, SMTT(20) DEF ReadChunk, TypeOK, Modes, InTxn, Idle, Lookup
<1>16. ASSUME NEW p \in Proc, InvalidateChunk(p) PROVE Modes'
  BY <1>16, <1>0, SMTT(20) DEF InvalidateChunk, Resume, TypeOK, Modes, InTxn, Idle,
    Lookup
<1>17. ASSUME NEW p \in Proc, InvalidateSlot(p) PROVE Modes'
  <2>1. slots[p] = NoSlots => slots'[p] = NoSlots
    BY <1>0, <1>17, SMTT(20) DEF InvalidateSlot, TypeOK, NoSlots, SlotCache
  <2>2. \A q \in Proc \ {p} : slots'[q] = slots[q] /\ get'[q] = get[q]
    BY <1>0, <1>17 DEF InvalidateSlot, Resume, TypeOK
  <2>3. get'[p].pc # "idle" => get'[p].tag = get[p].tag /\ get'[p].at = get[p].at
    BY <1>0, <1>17 DEF InvalidateSlot, Resume, TypeOK, Idle, Lookup
  <2>4. get[p].pc # "idle" /\ txn' = txn /\ status' = status BY <1>17 DEF InvalidateSlot
  <2> QED BY <1>0, <2>1, <2>2, <2>3, <2>4, SMTT(20) DEF Modes, InTxn
<1>18. ASSUME NEW p \in Proc, ChangeRefs(p) PROVE Modes'
  BY <1>18, <1>0 DEF ChangeRefs, Becomes, Ready, TypeOK, Modes, InTxn
<1>19. ASSUME NEW p \in Proc, Gc(p) PROVE Modes'
  BY <1>19, <1>0 DEF Gc, Becomes, Ready, TypeOK, Modes, InTxn
<1>20. ASSUME NEW p \in Proc, BeginMoves(p) PROVE Modes'
  BY <1>20, <1>0 DEF BeginMoves, Begin, Ready, TypeOK, Modes, InTxn
<1>21. ASSUME NEW p \in Proc, Truncate(p) PROVE Modes'
  BY <1>21, <1>0 DEF Truncate, Begin, Ready, TypeOK, Modes, InTxn
<1>22. ASSUME NEW p \in Proc, Rollback(p) PROVE Modes'
  BY <1>22, <1>0 DEF Rollback, Abort, TypeOK, Modes, InTxn
<1>23. ASSUME NEW p \in Proc, InvalidateFails(p) PROVE Modes'
  BY <1>23, <1>0, SMTT(20) DEF InvalidateFails, Resume, TypeOK, Modes, InTxn, Idle,
    Lookup
<1>24. ASSUME NEW p \in Proc, FlushFails(p) PROVE Modes'
  BY <1>24, <1>0 DEF FlushFails, Becomes, TypeOK, Modes, InTxn
<1>25. ASSUME NEW p \in Proc, CleanupFails(p) PROVE Modes'
  BY <1>25, <1>0 DEF CleanupFails, Becomes, TypeOK, Modes, InTxn
<1>26. ASSUME NEW p \in Proc, Crash(p) PROVE Modes'
  BY <1>26, <1>0 DEF Crash, Becomes, TypeOK, Modes, InTxn, Idle
<1>27. ASSUME NEW p \in Proc, NEW t \in Tag, PutInSlot(p, t) PROVE Modes'
  BY <1>27, <1>0, SMTT(20) DEF PutInSlot, Put, Begin, Ready, TypeOK, Modes, InTxn
<1>28. ASSUME NEW p \in Proc, NEW t \in Tag, PutInNewSlot(p, t) PROVE Modes'
  BY <1>28, <1>0, SMTT(20) DEF PutInNewSlot, Put, Begin, Ready, TypeOK, Modes, InTxn
<1>29. ASSUME NEW o \in Offset, Damage(o) PROVE Modes'
  BY <1>29, <1>0 DEF Damage, TypeOK, Modes, InTxn
<1> QED BY <1>1, <1>2, <1>3, <1>4, <1>5, <1>6, <1>7, <1>8, <1>9, <1>10, <1>11,
  <1>12, <1>13, <1>14, <1>15, <1>16, <1>17, <1>18, <1>19, <1>20, <1>21, <1>22,
  <1>23, <1>24, <1>25, <1>26, <1>27, <1>28, <1>29 DEF Next, Transact, Lookups,
  Maintain, Leave, Fails

-----------------------------------------------------------------------------
(* Steps that leave the tables, the file and the transactions alone        *)

LEMMA Undisturbed ==
  ASSUME IInv, UNCHANGED <<chunks, data, slots, txn, damaged, leaked>>,
         \A p \in Proc : InTxn(p) => status'[p] = status[p]
  PROVE  Transactions' /\ Tables'
<1> USE DEF IInv, Transactions, Tables, InTxn, Writes
<1>1. OneWriter' BY DEF OneWriter
<1>2. \A p \in Proc : Puts(p)' BY SMTT(20) DEF Puts
<1>3. \A p \in Proc : Moves(p)' BY DEF Moves
<1>4. \A p \in Proc : Truncates(p)' BY DEF Truncates
<1>5. \A p \in Proc : Commits(p)' BY DEF Commits, Filed, SlotsAfter
<1>6. Filed(chunks)' BY DEF Filed
<1>7. SlotsFiled' BY DEF SlotsFiled
<1> QED BY <1>1, <1>2, <1>3, <1>4, <1>5, <1>6, <1>7

\* The steps of hoard_get_chunk() outside a transaction, and of a process on its
\* way in or out.
LEMMA IdleSteps ==
  ASSUME IInv, NEW p \in Proc,
         \/ Open(p) \/ Shutdown(p) \/ TryCleanup(p) \/ CleanupFails(p) \/ ChangeRefs(p)
         \/ \E t \in Tag : Find(p, t)
         \/ CheckData(p) \/ ReadChunk(p) \/ InvalidateFails(p)
  PROVE  Transactions' /\ Tables'
<1>1. UNCHANGED <<chunks, data, slots, txn, damaged, leaked>>
  BY DEF Open, Shutdown, TryCleanup, CleanupFails, ChangeRefs, Find, CheckData, ReadChunk,
         InvalidateFails
<1>2. \A q \in Proc \ {p} : status'[q] = status[q]
  BY DEF Open, Shutdown, TryCleanup, CleanupFails, ChangeRefs, Find, CheckData, ReadChunk,
         InvalidateFails, Becomes, IInv, TypeOK
<1>3. status'[p] = status[p] \/ ~InTxn(p)
  BY DEF Open, Shutdown, TryCleanup, CleanupFails, ChangeRefs, Find, CheckData, ReadChunk,
         InvalidateFails, Ready, IInv, Modes, InTxn
<1> QED BY <1>1, <1>2, <1>3, Undisturbed

-----------------------------------------------------------------------------
(* Steps that change the index when nobody is inside a transaction         *)

LEMMA Quiet ==
  ASSUME \A p \in Proc : txn'[p] = None
  PROVE  Transactions'
  BY DEF Transactions, OneWriter, Puts, Moves, Truncates, Commits, InTxn, Writes

\* Chunks are dropped from c.
LEMMA ClearedFacts ==
  ASSUME NEW c, NEW d, Rows(c),
         \A o \in Offset : d[o] = c[o] \/ (d[o] = Free /\ c[o] # None /\ c[o] # Reserved)
  PROVE  /\ Rows(d)
         /\ NoGap(c) => NoGap(d)
         /\ Filed(c) => Filed(d)
         /\ \A s : Owned(c, s) => Owned(d, s)
         /\ \A s : NoneLost(c, s) => NoneLost(d, s)
<1>1. Rows(d) BY DEF Rows
<1>2. \A o \in Offset : d[o] # None <=> c[o] # None BY RowFacts
<1>3. \A o \in Offset : \A q \in 0 .. o : q \in Offset BY Sizes, SMTT(20) DEF Offset
<1>4. NoGap(c) => NoGap(d) BY <1>2, <1>3 DEF NoGap
<1>5. \A o \in Tagged(d) : o \in Tagged(c) /\ d[o] = c[o]
  BY <1>1, KindFacts, RowFacts DEF Tagged
<1>6. Filed(c) => Filed(d) BY <1>5 DEF Filed
<1>7. \A o \in Offset : d[o] = Reserved <=> c[o] = Reserved BY RowFacts
<1>8. \A s : Owned(c, s) => Owned(d, s) BY <1>7 DEF Owned
<1>9. \A s : NoneLost(c, s) => NoneLost(d, s) BY <1>7 DEF NoneLost
<1> QED BY <1>1, <1>4, <1>6, <1>8, <1>9

\* The garbage collection frees only rows of chunks that no parcel refers to.
LEMMA CollectedFacts ==
  ASSUME NEW c, NEW r, Rows(c)
  PROVE  \A o \in Offset : \/ Collected(c, r)[o] = c[o]
                           \/ /\ Collected(c, r)[o] = Free
                              /\ c[o] # None /\ c[o] # Reserved /\ c[o].tag \notin r
  BY KindFacts, RowFacts, SMTT(20) DEF Collected

\* InvalidateChunk and Gc.
LEMMA ClearedTables ==
  ASSUME IInv, UNCHANGED <<data, slots, txn, damaged, leaked>>, NobodyInside,
         \A o \in Offset : \/ chunks'[o] = chunks[o]
                           \/ /\ chunks'[o] = Free
                              /\ chunks[o] # None /\ chunks[o] # Reserved
  PROVE  Transactions' /\ Tables'
<1>1. Transactions' BY Quiet DEF NobodyInside
<1>2. Rows(chunks) /\ NoGap(chunks) /\ Filed(chunks) /\ Owned(chunks, slots)
  BY DEF IInv, Tables
<1>3. /\ Rows(chunks') /\ NoGap(chunks') /\ Filed(chunks') /\ Owned(chunks', slots)
      /\ NoneLost(chunks, slots) => NoneLost(chunks', slots)
  BY <1>2, ClearedFacts
<1>4. Rows(chunks)' /\ NoGap(chunks)' BY <1>3 DEF Rows, NoGap
<1>5. Filed(chunks)' BY <1>3 DEF Filed
<1>6. Owned(chunks, slots)' BY <1>3 DEF Owned
<1>7. (~leaked => NoneLost(chunks, slots))' BY <1>3 DEF NoneLost, IInv, Tables
<1>8. SlotsFiled' BY DEF SlotsFiled, IInv, Tables, NobodyInside, Writes, InTxn
<1> QED BY <1>1, <1>4, <1>5, <1>6, <1>7, <1>8 DEF Tables

\* hoard_gc() and hoard_invalidate_chunk() free rows and keep the rest.
LEMMA GcSteps ==
  ASSUME IInv, NEW p \in Proc, Gc(p) \/ InvalidateChunk(p)
  PROVE  Transactions' /\ Tables'
<1>1. CASE Gc(p)
  <2>1. chunks' = Collected(chunks, refs) /\ NobodyInside BY <1>1 DEF Gc
  <2>2. Rows(chunks) BY DEF IInv, Tables
  <2> QED BY <1>1, <2>1, <2>2, CollectedFacts, ClearedTables, SMTT(20) DEF Gc
<1>2. CASE InvalidateChunk(p) /\ chunks' # chunks
  <2> DEFINE at == get[p].at
  <2>1. NobodyInside /\ chunks' = [chunks EXCEPT ![at] = Free]
        /\ chunks[at] # None /\ chunks[at].tag = get[p].tag
    BY <1>2 DEF InvalidateChunk
  <2>2. get[p].tag \in Tag /\ at \in Offset BY <1>2 DEF InvalidateChunk, IInv, Modes
  <2>3. chunks[at] # Reserved BY <2>1, <2>2, RowFacts, Markers
  <2>4. \A o \in Offset : chunks'[o] = IF o = at THEN Free ELSE chunks[o]
    BY <2>1 DEF IInv, TypeOK, Index
  <2> QED BY <1>2, <2>1, <2>3, <2>4, ClearedTables DEF InvalidateChunk
<1>3. CASE InvalidateChunk(p) /\ chunks' = chunks
  BY <1>3, Undisturbed DEF InvalidateChunk
<1> QED BY <1>1, <1>2, <1>3

\* The cleanup finds no slot caches, so that it takes no slot from anybody.
LEMMA CleanupSteps ==
  ASSUME IInv, NEW p \in Proc, Cleanup(p)
  PROVE  Transactions' /\ Tables'
<1>1. \A q \in Proc : slots[q] = NoSlots /\ txn[q] = None
  BY DEF Cleanup, IInv, Modes, InTxn
<1>2. Transactions' BY <1>1, Quiet DEF Cleanup
<1> DEFINE c == Released(chunks)
<1>3. \A o \in Offset : c[o] = IF chunks[o] = Reserved THEN Free ELSE chunks[o] BY DEF Released
<1>4. Rows(chunks) /\ NoGap(chunks) /\ Filed(chunks) BY DEF IInv, Tables
<1> HIDE DEF c
<1>5. Rows(c) BY <1>3, <1>4 DEF Rows
<1>6. NoGap(c)
  <2>1. \A o \in Offset : \A q \in 0 .. o : q \in Offset BY Sizes, SMTT(20) DEF Offset
  <2>2. \A o \in Offset : c[o] # None <=> chunks[o] # None BY <1>3, RowFacts
  <2> QED BY <1>4, <2>1, <2>2 DEF NoGap
<1>7. Filed(c)
  <2>1. \A o \in Tagged(c) : o \in Tagged(chunks) /\ c[o] = chunks[o]
    BY <1>3, RowFacts DEF Tagged
  <2> QED BY <1>4, <2>1 DEF Filed
<1>8. \A o \in Offset : c[o] # Reserved BY <1>3, RowFacts
<1>9. \/ chunks' = c
      \/ chunks' = Collected(c, refs)
  BY DEF Cleanup, c
<1>10. \A o \in Offset : \/ chunks'[o] = c[o]
                         \/ /\ chunks'[o] = Free
                            /\ c[o] # None /\ c[o] # Reserved
  BY <1>5, <1>9, CollectedFacts, SMTT(20)
<1>11. Rows(chunks') /\ NoGap(chunks') /\ Filed(chunks') BY <1>5, <1>6, <1>7, <1>10, ClearedFacts
<1>12. Rows(chunks)' /\ NoGap(chunks)' BY <1>11 DEF Rows, NoGap
<1>13. Filed(chunks)' BY <1>11 DEF Filed, Cleanup
<1>14. \A q \in Proc, o \in Offset : slots'[q][o] = Absent BY <1>1 DEF Cleanup, NoSlots
<1>15. Owned(chunks, slots)' BY <1>14 DEF Owned
<1>16. NoneLost(chunks, slots)' BY <1>8, <1>10, RowFacts DEF NoneLost
<1>17. SlotsFiled' BY <1>14, Markers DEF SlotsFiled
<1> QED BY <1>2, <1>12, <1>13, <1>15, <1>16, <1>17 DEF Tables

\* A process gives its slots back, and files the chunks that it has put.
LEMMA FlushSteps ==
  ASSUME IInv, NEW p \in Proc, FlushSlots(p)
  PROVE  Transactions' /\ Tables'
<1>1. Transactions' BY Quiet DEF FlushSlots, NobodyInside
<1> DEFINE c == Flushed(chunks, slots[p])
<1>2. /\ Rows(c) /\ NoGap(c)
      /\ \A o \in Offset : slots[p][o] = Absent => c[o] = chunks[o]
      /\ \A o \in Offset : slots[p][o] # Absent =>
           c[o] = Free \/ (slots[p][o] \in Tag /\ c[o] = Holding(slots[p][o]))
  BY NewSlotFacts
<1>3. chunks' = c BY DEF FlushSlots
<1> HIDE DEF c
<1>4. \A q \in Proc, o \in Offset : slots'[q][o] = IF q = p THEN Absent ELSE slots[q][o]
  BY DEF FlushSlots, IInv, TypeOK, NoSlots
<1>5. Owned(chunks, slots) /\ (~leaked => NoneLost(chunks, slots)) /\ Filed(chunks)
  BY DEF IInv, Tables
<1>6. Rows(chunks)' /\ NoGap(chunks)' BY <1>2, <1>3 DEF Rows, NoGap
<1>7. Owned(chunks, slots)' BY <1>2, <1>3, <1>4, <1>5, SMTT(20) DEF Owned
<1>8. (~leaked => NoneLost(chunks, slots))'
  BY <1>2, <1>3, <1>4, <1>5, RowFacts, SMTT(20) DEF NoneLost, FlushSlots
<1>9. \A q \in Proc, o \in Offset : slots[q][o] \in Tag => data[o] = slots[q][o] \/ o \in damaged
  BY DEF IInv, Tables, SlotsFiled, Writes, InTxn, FlushSlots, NobodyInside
<1>10. SlotsFiled' BY <1>4, <1>9, Markers, SMTT(20) DEF SlotsFiled, FlushSlots
<1>11. Filed(chunks)'
  <2> SUFFICES ASSUME NEW o \in Tagged(c) PROVE data[o] = c[o].tag \/ o \in damaged
    BY <1>3 DEF Filed, FlushSlots
  <2>1. o \in Offset /\ c[o].tag \in Tag /\ c[o] = Holding(c[o].tag) BY <1>2, KindFacts
  <2>2. CASE slots[p][o] = Absent
    <3>1. o \in Tagged(chunks) /\ chunks[o] = c[o] BY <1>2, <2>1, <2>2, RowFacts DEF Tagged
    <3> QED BY <1>5, <3>1 DEF Filed
  <2>3. CASE slots[p][o] # Absent
    BY <1>2, <1>9, <2>1, <2>3, RowFacts
  <2> QED BY <2>2, <2>3
<1> QED BY <1>1, <1>6, <1>7, <1>8, <1>10, <1>11 DEF Tables

-----------------------------------------------------------------------------
(* Steps of one process while another may be inside a transaction          *)

\* The slot caches change only in which chunks they name, or lose slots.
LEMMA SlotsFacts ==
  ASSUME NEW c, NEW s, NEW r
  PROVE  /\ (\A p \in Proc, o \in Offset : r[p][o] # Absent => s[p][o] # Absent)
              => (Owned(c, s) => Owned(c, r))
         /\ (\A p \in Proc, o \in Offset : s[p][o] # Absent => r[p][o] # Absent)
              => (NoneLost(c, s) => NoneLost(c, r))
<1>1. ASSUME \A p \in Proc, o \in Offset : r[p][o] # Absent => s[p][o] # Absent, Owned(c, s)
      PROVE  Owned(c, r)
  BY <1>1 DEF Owned
<1>2. ASSUME \A p \in Proc, o \in Offset : s[p][o] # Absent => r[p][o] # Absent, NoneLost(c, s)
      PROVE  NoneLost(c, r)
  BY <1>2 DEF NoneLost
<1> QED BY <1>1, <1>2

\* p is outside a transaction afterwards; the others, in one or not, do not notice
\* what it does to its own slot cache.
LEMMA OthersUndisturbed ==
  ASSUME IInv, NEW p \in Proc, TypeOK',
         UNCHANGED <<chunks, data>>, damaged \subseteq damaged',
         txn'[p] = None,
         \A q \in Proc \ {p} : /\ txn'[q] = txn[q] /\ status'[q] = status[q]
                               /\ slots'[q] = slots[q],
         \A o \in Offset : slots'[p][o] # Absent => slots[p][o] # Absent,
         ~leaked' => /\ ~leaked
                     /\ \A o \in Offset : slots[p][o] # Absent => slots'[p][o] # Absent
  PROVE  Transactions' /\ (SlotsFiled' => Tables')
<1>1. \A q \in Proc : InTxn(q)' => /\ q # p /\ InTxn(q)
                                   /\ txn'[q] = txn[q] /\ status'[q] = status[q]
                                   /\ slots'[q] = slots[q]
  BY DEF InTxn
<1>2. \A q, r \in Proc, o \in Offset : Writes(q)' =>
        /\ SlotsAfter(q)'[r][o] # Absent => SlotsAfter(q)[r][o] # Absent
        /\ ~leaked' => (SlotsAfter(q)[r][o] # Absent => SlotsAfter(q)'[r][o] # Absent)
  <2> SUFFICES ASSUME NEW q \in Proc, NEW r \in Proc, NEW o \in Offset, Writes(q)'
               PROVE  /\ SlotsAfter(q)'[r][o] # Absent => SlotsAfter(q)[r][o] # Absent
                      /\ ~leaked' => (SlotsAfter(q)[r][o] # Absent => SlotsAfter(q)'[r][o] # Absent)
    OBVIOUS
  <2>1. q # p /\ txn'[q] = txn[q] BY <1>1 DEF Writes
  <2>2. slots \in [Proc -> SlotCache] /\ slots' \in [Proc -> SlotCache] BY DEF IInv, TypeOK
  <2>3. /\ SlotsAfter(q)[r] = IF r = q THEN txn[q].slots ELSE slots[r]
        /\ SlotsAfter(q)'[r] = IF r = q THEN txn[q].slots ELSE slots'[r]
    BY <2>1, <2>2 DEF SlotsAfter
  <2>4. r # p => slots'[r] = slots[r] OBVIOUS
  <2> QED BY <2>1, <2>3, <2>4
<1>3. OneWriter' BY <1>1 DEF IInv, Transactions, OneWriter, Writes
<1>4. \A q \in Proc : Puts(q)' BY <1>1, SMTT(20) DEF IInv, Transactions, Puts
<1>5. \A q \in Proc : Moves(q)' BY <1>1, SMTT(20) DEF IInv, Transactions, Moves
<1>6. \A q \in Proc : Truncates(q)' BY <1>1, SMTT(20) DEF IInv, Transactions, Truncates
<1>7. \A c : Filed(c) => \A o \in Tagged(c) : data'[o] = c[o].tag \/ o \in damaged'
  BY DEF Filed
<1>8. \A q \in Proc : Commits(q)'
  <2> SUFFICES ASSUME NEW q \in Proc, Writes(q)'
               PROVE  LET c == txn'[q].chunks
                      IN  /\ Rows(c) /\ NoGap(c)
                          /\ \A o \in Tagged(c) : data'[o] = c[o].tag \/ o \in damaged'
                          /\ Owned(c, SlotsAfter(q)')
                          /\ ~leaked' => NoneLost(c, SlotsAfter(q)')
                          /\ TagsIn(chunks') \subseteq TagsIn(c)
    BY DEF Commits, Filed
  <2>1. Writes(q) /\ txn'[q] = txn[q] BY <1>1 DEF Writes
  <2> DEFINE c == txn[q].chunks
  <2>2. /\ Rows(c) /\ NoGap(c) /\ Filed(c) /\ Owned(c, SlotsAfter(q))
        /\ ~leaked => NoneLost(c, SlotsAfter(q))
        /\ TagsIn(chunks) \subseteq TagsIn(c)
    BY <2>1 DEF IInv, Transactions, Commits
  <2>6. \A r \in Proc, o \in Offset :
          /\ SlotsAfter(q)'[r][o] # Absent => SlotsAfter(q)[r][o] # Absent
          /\ ~leaked' => (SlotsAfter(q)[r][o] # Absent => SlotsAfter(q)'[r][o] # Absent)
    BY <1>2
  <2> HIDE DEF c
  <2>3. Owned(c, SlotsAfter(q)') BY <2>2, <2>6, SlotsFacts, SMTT(20)
  <2>4. ~leaked' => NoneLost(c, SlotsAfter(q)') BY <2>2, <2>6, SlotsFacts, SMTT(20)
  <2>5. \A o \in Tagged(c) : data'[o] = c[o].tag \/ o \in damaged' BY <1>7, <2>2
  <2> QED BY <2>1, <2>2, <2>3, <2>4, <2>5 DEF c
<1>9. \A r \in Proc, o \in Offset :
        /\ slots'[r][o] # Absent => slots[r][o] # Absent
        /\ ~leaked' => (slots[r][o] # Absent => slots'[r][o] # Absent)
  OBVIOUS
<1>10. /\ Rows(chunks) /\ NoGap(chunks) /\ Filed(chunks) /\ Owned(chunks, slots)
       /\ ~leaked => NoneLost(chunks, slots)
  BY DEF IInv, Tables
<1>11. Rows(chunks)' /\ NoGap(chunks)' BY <1>10 DEF Rows, NoGap
<1>12. Filed(chunks)' BY <1>7, <1>10 DEF Filed
<1>13. Owned(chunks, slots') BY <1>9, <1>10, SlotsFacts
<1>14. ~leaked' => NoneLost(chunks, slots') BY <1>9, <1>10, SlotsFacts
<1>15. Owned(chunks, slots)' BY <1>13 DEF Owned
<1>16. (~leaked => NoneLost(chunks, slots))' BY <1>14 DEF NoneLost
<1> QED BY <1>3, <1>4, <1>5, <1>6, <1>8, <1>11, <1>12, <1>15, <1>16 DEF Transactions, Tables

\* A process loses its slot cache, or marks a slot of it unused.
LEMMA LossSteps ==
  ASSUME IInv, TypeOK', NEW p \in Proc, InvalidateSlot(p) \/ FlushFails(p) \/ Crash(p)
  PROVE  Transactions' /\ Tables'
<1>1. txn'[p] = None
  BY DEF InvalidateSlot, FlushFails, Crash, IInv, TypeOK, Modes, InTxn
<1>2. \A q \in Proc \ {p} : /\ txn'[q] = txn[q] /\ status'[q] = status[q]
                            /\ slots'[q] = slots[q]
  BY DEF InvalidateSlot, FlushFails, Crash, IInv, TypeOK, Becomes
<1>3. \A o \in Offset : slots'[p][o] = slots[p][o] \/ slots'[p][o] \in {None, Absent}
  BY SMTT(20) DEF InvalidateSlot, FlushFails, Crash, IInv, TypeOK, SlotCache, NoSlots
<1>4. \A o \in Offset : slots'[p][o] # Absent => slots[p][o] # Absent
  BY SMTT(20) DEF InvalidateSlot, FlushFails, Crash, IInv, TypeOK, SlotCache, NoSlots
<1>5. ~leaked' => /\ ~leaked
                  /\ \A o \in Offset : slots[p][o] # Absent => slots'[p][o] # Absent
  BY Markers, SMTT(20) DEF InvalidateSlot, FlushFails, Crash, IInv, TypeOK, SlotCache
<1>6. UNCHANGED <<chunks, data, damaged>> BY DEF InvalidateSlot, FlushFails, Crash
<1>7. Transactions' /\ (SlotsFiled' => Tables')
  BY <1>1, <1>2, <1>4, <1>5, <1>6, OthersUndisturbed
<1>8. SlotsFiled'
  <2> SUFFICES ASSUME NEW q \in Proc, NEW o \in Offset, slots'[q][o] \in Tag
               PROVE  \/ data'[o] = slots'[q][o] \/ o \in damaged'
                      \/ Writes(q)' /\ status'[q] = "run" /\ txn'[q].at = o /\ txn'[q].step # "junk"
    BY DEF SlotsFiled
  <2>1. slots'[q][o] = slots[q][o] BY <1>2, <1>3, Markers
  <2>2. CASE q # p BY <1>2, <1>6, <2>1, <2>2, SMTT(20) DEF IInv, Tables, SlotsFiled, Writes, InTxn
  <2>3. CASE q = p
    BY <1>6, <2>1, <2>3, Markers, SMTT(30) DEF IInv, Tables, SlotsFiled, Writes, InTxn,
      InvalidateSlot, FlushFails, Crash, Modes, TypeOK, NoSlots
  <2> QED BY <2>2, <2>3
<1> QED BY <1>7, <1>8

\* A transaction that ends without effect leaves its mark in the file only.
LEMMA AbortSteps ==
  ASSUME IInv, TypeOK', NEW p \in Proc, InTxn(p), NEW s, Abort(p, s)
  PROVE  Transactions' /\ Tables'
<1>1. txn'[p] = None BY DEF Abort, IInv, TypeOK
<1>2. \A q \in Proc \ {p} : /\ txn'[q] = txn[q] /\ status'[q] = status[q]
                            /\ slots'[q] = slots[q]
  BY DEF Abort, IInv, TypeOK
<1>3. UNCHANGED <<chunks, data, slots, leaked>> /\ damaged \subseteq damaged' BY DEF Abort
<1>4. Transactions' /\ (SlotsFiled' => Tables') BY <1>1, <1>2, <1>3, OthersUndisturbed
<1>5. SlotsFiled'
  <2> SUFFICES ASSUME NEW q \in Proc, NEW o \in Offset, slots[q][o] \in Tag
               PROVE  \/ data[o] = slots[q][o] \/ o \in damaged'
                      \/ Writes(q)' /\ status'[q] = "run" /\ txn'[q].at = o /\ txn'[q].step # "junk"
    BY <1>3 DEF SlotsFiled
  <2>1. CASE q # p BY <1>2, <1>3, <2>1, SMTT(20) DEF IInv, Tables, SlotsFiled, Writes, InTxn
  <2>2. CASE q = p
    <3>1. txn[p].at = o /\ txn[p].step # "junk" => o \in damaged'
      BY NoneApart DEF Abort
    <3> QED BY <1>3, <2>2, <3>1 DEF IInv, Tables, SlotsFiled
  <2> QED BY <2>1, <2>2
<1> QED BY <1>4, <1>5

\* A transaction that meets a busy database, fails or cannot move a chunk leaves
\* no trace.
LEMMA FailingSteps ==
  ASSUME IInv, TypeOK', NEW p \in Proc, Busy(p) \/ Rollback(p) \/ MoveFails(p)
  PROVE  Transactions' /\ Tables'
<1>1. InTxn(p) BY DEF Busy, Rollback, MoveFails, InTxn
<1>2. \E s : Abort(p, s) BY DEF Busy, Rollback, MoveFails
<1> QED BY <1>1, <1>2, AbortSteps

\* A put of a chunk to a slot of the process' own.
LEMMA CommitSlot ==
  ASSUME IInv, TypeOK', NEW p \in Proc, Commit(p), ~txn[p].write
  PROVE  Transactions' /\ Tables'
<1> DEFINE x == txn[p]
<1>1. /\ InTxn(p) /\ status[p] = "run"
  BY DEF Commit, InTxn, IInv, Modes, Transactions, Moves, Truncates
<1>2. /\ x.at \in Offset /\ x.tag \in Tag /\ slots[p][x.at] = None
      /\ x.slots = [slots[p] EXCEPT ![x.at] = x.tag]
      /\ data[x.at] = x.tag \/ x.at \in damaged
  BY <1>1 DEF Commit, IInv, Transactions, Puts
<1>3. \A o \in Offset : slots'[p][o] = IF o = x.at THEN x.tag ELSE slots[p][o]
  BY <1>2 DEF Commit, IInv, TypeOK, SlotCache
<1>4. txn'[p] = None /\ UNCHANGED <<chunks, data, damaged, leaked>> BY DEF Commit, IInv, TypeOK
<1>5. \A q \in Proc \ {p} : /\ txn'[q] = txn[q] /\ status'[q] = status[q]
                            /\ slots'[q] = slots[q]
  BY DEF Commit, IInv, TypeOK
<1>6. \A o \in Offset : slots'[p][o] # Absent <=> slots[p][o] # Absent
  BY <1>2, <1>3, Markers
<1>7. Transactions' /\ (SlotsFiled' => Tables')
  BY <1>4, <1>5, <1>6, OthersUndisturbed
<1>8. SlotsFiled'
  <2> SUFFICES ASSUME NEW q \in Proc, NEW o \in Offset, slots'[q][o] \in Tag
               PROVE  \/ data[o] = slots'[q][o] \/ o \in damaged
                      \/ Writes(q)' /\ status'[q] = "run" /\ txn'[q].at = o /\ txn'[q].step # "junk"
    BY <1>4 DEF SlotsFiled
  <2>1. CASE q # p BY <1>5, <2>1, SMTT(20) DEF IInv, Tables, SlotsFiled, Writes, InTxn
  <2>2. CASE q = p /\ o = x.at BY <1>2, <1>3, <2>2
  <2>3. CASE q = p /\ o # x.at BY <1>3, <2>3 DEF IInv, Tables, SlotsFiled, Writes
  <2> QED BY <2>1, <2>2, <2>3
<1> QED BY <1>7, <1>8

\* A transaction that has written to the index commits alone.
LEMMA CommitIndex ==
  ASSUME IInv, NEW p \in Proc, Commit(p), txn[p].write
  PROVE  Transactions' /\ Tables'
<1> DEFINE x == txn[p]
<1>1. \A q \in Proc : txn'[q] = None BY DEF Commit, AloneInside, IInv, TypeOK
<1>2. Transactions' BY <1>1, Quiet
<1>3. Writes(p) BY DEF Commit, Writes, InTxn
<1>4. /\ Rows(x.chunks) /\ NoGap(x.chunks) /\ Filed(x.chunks) /\ Owned(x.chunks, SlotsAfter(p))
      /\ ~leaked => NoneLost(x.chunks, SlotsAfter(p))
  BY <1>3 DEF IInv, Transactions, Commits
<1>5. chunks' = x.chunks /\ slots' = SlotsAfter(p) /\ UNCHANGED <<data, damaged, leaked>>
  BY DEF Commit, SlotsAfter
<1>6. Rows(chunks)' /\ NoGap(chunks)' BY <1>4, <1>5 DEF Rows, NoGap
<1>7. Filed(chunks)' BY <1>4, <1>5 DEF Filed
<1>8. Owned(chunks, slots)' BY <1>4, <1>5 DEF Owned
<1>9. (~leaked => NoneLost(chunks, slots))' BY <1>4, <1>5 DEF NoneLost
<1>10. SlotsFiled'
  <2> SUFFICES ASSUME NEW q \in Proc, NEW o \in Offset, slots'[q][o] \in Tag
               PROVE  data[o] = slots'[q][o] \/ o \in damaged
    BY <1>5 DEF SlotsFiled
  <2>1. slots'[q] = IF q = p THEN x.slots ELSE slots[q] BY DEF Commit, IInv, TypeOK
  <2>2. CASE q # p
    BY <2>1, <2>2, SMTT(20) DEF IInv, Tables, SlotsFiled, Writes, InTxn, Commit, AloneInside
  <2>3. CASE q = p /\ status[p] = "run"
    <3>1. /\ \A r \in Offset : x.slots[r] \in Tag => r = x.at
          /\ x.slots[x.at] = x.tag
          /\ x.step = "commit" => data[x.at] = x.tag \/ x.at \in damaged
      BY <1>3, <2>3 DEF IInv, Transactions, Puts, Writes
    <3>2. x.step = "commit" BY DEF Commit
    <3> QED BY <2>1, <2>3, <3>1, <3>2
  <2>4. CASE q = p /\ status[p] # "run"
    <3>1. x.slots = slots[p]
      BY <1>3, <2>4 DEF IInv, Modes, Transactions, Moves, Truncates, Writes
    <3> QED BY <2>1, <2>4, <3>1 DEF IInv, Tables, SlotsFiled
  <2> QED BY <2>2, <2>3, <2>4
<1> QED BY <1>2, <1>6, <1>7, <1>8, <1>9, <1>10 DEF Tables

-----------------------------------------------------------------------------
(* The transactions of one process, step by step                           *)

\* The step keeps the transactions of the others if the file still holds what they
\* have written.
LEMMA OneTransaction ==
  ASSUME IInv, NEW p \in Proc, TypeOK', UNCHANGED <<chunks, slots, status, leaked>>,
         \A q \in Proc \ {p} : txn'[q] = txn[q],
         Writes(p)' => \A q \in Proc \ {p} : ~Writes(q),
         \A q \in Proc \ {p} : InTxn(q) /\ status[q] = "run" /\ txn[q].step = "commit" =>
            data'[txn[q].at] = txn[q].tag \/ txn[q].at \in damaged',
         \A q \in Proc \ {p} : Writes(q) => \A o \in Tagged(txn[q].chunks) :
            data'[o] = txn[q].chunks[o].tag \/ o \in damaged',
         Puts(p)', Moves(p)', Truncates(p)', Commits(p)'
  PROVE  Transactions'
<1>1. \A q \in Proc \ {p} : (InTxn(q)' <=> InTxn(q)) /\ (Writes(q)' <=> Writes(q))
  BY DEF InTxn, Writes
<1>2. OneWriter' BY <1>1 DEF IInv, Transactions, OneWriter
<1>3. ASSUME NEW q \in Proc \ {p} PROVE Puts(q)' /\ Moves(q)' /\ Truncates(q)' /\ Commits(q)'
  <2>1. Puts(q) /\ Moves(q) /\ Truncates(q) /\ Commits(q) BY DEF IInv, Transactions
  <2>2. txn'[q] = txn[q] /\ (InTxn(q)' <=> InTxn(q)) /\ (Writes(q)' <=> Writes(q)) BY <1>1
  <2>3. Puts(q)' BY <2>1, <2>2, SMTT(20) DEF Puts
  <2>4. Moves(q)' BY <2>1, <2>2 DEF Moves
  <2>5. Truncates(q)' BY <2>1, <2>2 DEF Truncates
  <2>6. SlotsAfter(q)' = SlotsAfter(q) BY <2>2 DEF SlotsAfter
  <2>7. Commits(q)' BY <2>1, <2>2, <2>6 DEF Commits, Filed
  <2> QED BY <2>3, <2>4, <2>5, <2>7
<1> QED BY <1>2, <1>3 DEF Transactions

\* A step that begins or continues a transaction and leaves the file alone.
LEMMA OwnStep ==
  ASSUME IInv, NEW p \in Proc, TypeOK',
         UNCHANGED <<chunks, data, slots, status, damaged, leaked>>,
         \A q \in Proc \ {p} : txn'[q] = txn[q],
         Writes(p)' => Writes(p) \/ NoWriter,
         Writes(p) /\ status[p] = "run" => UNCHANGED txn,
         Puts(p)', Moves(p)', Truncates(p)', Commits(p)'
  PROVE  Transactions' /\ Tables'
<1>1. Writes(p)' => \A q \in Proc \ {p} : ~Writes(q)
  BY DEF IInv, Transactions, OneWriter, NoWriter, Writes, InTxn
<1>2. \A q \in Proc \ {p} : InTxn(q) /\ status[q] = "run" /\ txn[q].step = "commit" =>
        data'[txn[q].at] = txn[q].tag \/ txn[q].at \in damaged'
  BY DEF IInv, Transactions, Puts
<1>3. \A q \in Proc \ {p} : Writes(q) => \A o \in Tagged(txn[q].chunks) :
        data'[o] = txn[q].chunks[o].tag \/ o \in damaged'
  BY DEF IInv, Transactions, Commits, Filed
<1>4. Transactions' BY <1>1, <1>2, <1>3, OneTransaction
<1>5. SlotsFiled'
  <2> SUFFICES ASSUME NEW q \in Proc, NEW o \in Offset, slots[q][o] \in Tag
               PROVE  \/ data[o] = slots[q][o] \/ o \in damaged
                      \/ Writes(q)' /\ status[q] = "run" /\ txn'[q].at = o /\ txn'[q].step # "junk"
    BY DEF SlotsFiled
  <2>1. \/ data[o] = slots[q][o] \/ o \in damaged
        \/ Writes(q) /\ status[q] = "run" /\ txn[q].at = o /\ txn[q].step # "junk"
    BY DEF IInv, Tables, SlotsFiled
  <2> QED BY <2>1 DEF Writes, InTxn
<1>6. Filed(chunks)' BY DEF Filed, IInv, Tables
<1> QED BY <1>4, <1>5, <1>6 DEF IInv, Tables

\* A put takes a slot that the process has reserved before.
LEMMA PutInSlotStep ==
  ASSUME IInv, TypeOK', NEW p \in Proc, NEW t \in Tag, PutInSlot(p, t)
  PROVE  Transactions' /\ Tables'
<1>1. PICK o \in Offset : slots[p][o] = None /\ Put(p, FALSE, chunks, slots[p], o, t)
  BY DEF PutInSlot
<1>2. status[p] = "run" /\ txn[p] = None BY DEF PutInSlot, Ready
<1>3. /\ UNCHANGED <<chunks, data, slots, status, damaged, leaked>>
      /\ \A q \in Proc \ {p} : txn'[q] = txn[q]
  BY <1>1 DEF Put, Begin, IInv, TypeOK
<1>4. txn'[p] = [write |-> FALSE, chunks |-> chunks, slots |-> [slots[p] EXCEPT ![o] = t],
                 step |-> "junk", at |-> o, from |-> None, tag |-> t, moved |-> 0,
                 next |-> "run"]
  BY <1>1 DEF Put, Begin, IInv, TypeOK
<1>5. [slots[p] EXCEPT ![o] = t][o] = t BY DEF IInv, TypeOK, SlotCache
<1>6. Puts(p)' BY <1>1, <1>3, <1>4, <1>5, SMTT(20) DEF Puts
<1>7. Moves(p)' /\ Truncates(p)' BY <1>2, <1>3 DEF Moves, Truncates
<1>8. ~Writes(p)' BY <1>4, SMTT(20) DEF Writes
<1>9. Commits(p)' BY <1>8 DEF Commits
<1> QED BY <1>2, <1>3, <1>6, <1>7, <1>8, <1>9, OwnStep DEF Writes, InTxn

\* The slots that are taken are free, so that nobody else has them.
LEMMA PutInNewSlotStep ==
  ASSUME IInv, TypeOK', NEW p \in Proc, NEW t \in Tag, PutInNewSlot(p, t)
  PROVE  Transactions' /\ Tables'
<1> DEFINE c == Flushed(chunks, slots[p])
<1>1. PICK old \in SUBSET Unallocated(c), start \in 0 .. MaxSlots, end \in 0 .. MaxSlots :
        /\ EndsAt(c, start)
        /\ \E o \in Taken(old, start, end) :
             Put(p, TRUE, Expanded(c, old, start, end),
                 [q \in Offset |-> IF q \in Taken(old, start, end)
                                   THEN None ELSE Absent], o, t)
  BY DEF PutInNewSlot, Expansion
<1> DEFINE e == Expanded(c, old, start, end)
           taken == Taken(old, start, end)
           s == [q \in Offset |-> IF q \in taken THEN None ELSE Absent]
<1>2. PICK at \in taken : Put(p, TRUE, e, s, at, t) BY <1>1
<1>3. /\ c \in Index /\ Rows(c) /\ NoGap(c) /\ TagsIn(chunks) \subseteq TagsIn(c)
      /\ \A o \in Offset : slots[p][o] = Absent => c[o] = chunks[o]
      /\ \A o \in Offset : slots[p][o] # Absent =>
           c[o] = Free \/ (slots[p][o] \in Tag /\ c[o] = Holding(slots[p][o]))
  BY NewSlotFacts
<1> HIDE DEF c
<1>4. /\ Rows(e) /\ taken \subseteq Offset
      /\ \A o \in taken : e[o] = Reserved /\ (c[o] = Free \/ c[o] = None)
      /\ \A o \in Offset \ taken : e[o] = c[o]
      /\ NoGap(e) /\ TagsIn(c) \subseteq TagsIn(e)
  <2>1. c \in [Offset -> Row \cup {None}] BY <1>3 DEF Index
  <2>2. /\ old \in SUBSET Unallocated(c) /\ start \in 0 .. MaxSlots
        /\ end \in 0 .. MaxSlots /\ EndsAt(c, start) /\ Rows(c)
    BY <1>1, <1>3
  <2>3. /\ e \in [Offset -> Row \cup {None}] /\ Rows(e)
        /\ taken \subseteq Offset
        /\ \A o \in taken : e[o] = Reserved /\ (c[o] = Free \/ c[o] = None)
        /\ \A o \in Offset \ taken : e[o] = c[o]
        /\ NoGap(c) => NoGap(e)
        /\ TagsIn(c) \subseteq TagsIn(e)
    BY <2>1, <2>2, ExpandedFacts
  <2> QED BY <1>3, <2>3
<1> HIDE DEF e, taken
<1>5. status[p] = "run" /\ txn[p] = None /\ NoWriter BY DEF PutInNewSlot, Ready
<1>6. /\ UNCHANGED <<chunks, data, slots, status, damaged, leaked>>
      /\ \A q \in Proc \ {p} : txn'[q] = txn[q]
  BY <1>2 DEF Put, Begin, IInv, TypeOK
<1>7. txn'[p] = [write |-> TRUE, chunks |-> e, slots |-> [s EXCEPT ![at] = t],
                 step |-> "junk", at |-> at, from |-> None, tag |-> t, moved |-> 0,
                 next |-> "run"]
  BY <1>2 DEF Put, Begin, IInv, TypeOK
<1>8. \A o \in Offset : [s EXCEPT ![at] = t][o] =
                          IF o = at THEN t ELSE IF o \in taken THEN None ELSE Absent
  BY <1>4
<1>9. Owned(chunks, slots) /\ (~leaked => NoneLost(chunks, slots)) /\ Filed(chunks)
  BY DEF IInv, Tables
<1>10. at \notin Tagged(chunks)
  <2> SUFFICES ASSUME at \in Tagged(chunks) PROVE FALSE OBVIOUS
  <2>1. \E u \in Tag : chunks[at] = Holding(u) BY KindFacts, SMTT(20) DEF IInv, Tables
  <2>2. slots[p][at] = Absent BY <1>4, <1>9, <2>1, RowFacts DEF Owned
  <2>3. c[at] = chunks[at] BY <1>3, <1>4, <2>2
  <2> QED BY <1>4, <2>1, <2>3, RowFacts, SMTT(20)
<1>11. Puts(p)'
  <2>1. /\ txn'[p].from = None /\ txn'[p].at = at /\ txn'[p].tag = t /\ txn'[p].next = "run"
        /\ txn'[p].step = "junk" /\ txn'[p].write /\ txn'[p].slots = [s EXCEPT ![at] = t]
    BY <1>7, SMTT(20)
  <2>2. \A o \in Offset : txn'[p].slots[o] \in Tag => o = at BY <1>8, <2>1, Markers
  <2>3. txn'[p].slots[at] = t BY <1>4, <1>8, <2>1, SMTT(20)
  <2>4. at \in Offset BY <1>4
  <2> QED BY <1>6, <1>10, <2>1, <2>2, <2>3, <2>4 DEF Puts
<1>12. Moves(p)' /\ Truncates(p)' BY <1>5, <1>6 DEF Moves, Truncates
<1>13. \A q \in Proc, o \in Offset :
         SlotsAfter(p)'[q][o] # Absent <=> IF q = p THEN o \in taken ELSE slots[q][o] # Absent
  <2> DEFINE w == [s EXCEPT ![at] = t]
  <2>1. txn'[p].slots = w BY <1>7, SMTT(20)
  <2>2. \A o \in Offset : w[o] # Absent <=> o \in taken BY <1>8, Markers
  <2> HIDE DEF w
  <2>3. SlotsAfter(p)' = [slots EXCEPT ![p] = w] BY <1>6, <2>1 DEF SlotsAfter
  <2>4. \A q \in Proc : SlotsAfter(p)'[q] = IF q = p THEN w ELSE slots[q]
    BY <2>3 DEF IInv, TypeOK
  <2> QED BY <2>2, <2>4
<1>14. \A q \in Proc \ {p}, o \in Offset : slots[q][o] # Absent =>
         e[o] = Reserved /\ o \notin taken
  <2> SUFFICES ASSUME NEW q \in Proc \ {p}, NEW o \in Offset, slots[q][o] # Absent
               PROVE  e[o] = Reserved /\ o \notin taken
    OBVIOUS
  <2>1. slots[p][o] = Absent /\ chunks[o] = Reserved BY <1>9 DEF Owned
  <2>2. c[o] = Reserved BY <1>3, <2>1
  <2> QED BY <1>4, <2>2, RowFacts
<1>15. Owned(e, SlotsAfter(p)')
  <2> SUFFICES ASSUME NEW q \in Proc, NEW o \in Offset, SlotsAfter(p)'[q][o] # Absent
               PROVE  e[o] = Reserved /\ \A r \in Proc \ {q} : SlotsAfter(p)'[r][o] = Absent
    BY DEF Owned
  <2>1. CASE q = p BY <1>4, <1>13, <1>14, <2>1
  <2>2. CASE q # p
    <3>1. slots[q][o] # Absent BY <1>13, <2>2
    <3>2. e[o] = Reserved /\ o \notin taken BY <1>14, <2>2, <3>1
    <3>3. \A r \in Proc \ {q} : slots[r][o] = Absent BY <1>9, <3>1 DEF Owned
    <3> QED BY <1>13, <3>2, <3>3
  <2> QED BY <2>1, <2>2
<1>16. ~leaked => NoneLost(e, SlotsAfter(p)')
  <2> SUFFICES ASSUME ~leaked, NEW o \in Offset, e[o] = Reserved
               PROVE  \E q \in Proc : SlotsAfter(p)'[q][o] # Absent
    BY DEF NoneLost
  <2>1. CASE o \in taken BY <1>13, <2>1
  <2>2. CASE o \notin taken
    <3>1. c[o] = Reserved BY <1>4, <2>2
    <3>2. slots[p][o] = Absent /\ chunks[o] = Reserved BY <1>3, <3>1, RowFacts, SMTT(20)
    <3>3. PICK q \in Proc : slots[q][o] # Absent BY <1>9, <3>2 DEF NoneLost
    <3> QED BY <1>13, <3>2, <3>3
  <2> QED BY <2>1, <2>2
<1>17. Filed(e)
  <2> SUFFICES ASSUME NEW o \in Tagged(e) PROVE data[o] = e[o].tag \/ o \in damaged
    BY DEF Filed
  <2>1. o \in Offset /\ e[o].tag \in Tag /\ e[o] = Holding(e[o].tag) BY <1>4, KindFacts
  <2>2. c[o] = e[o] BY <1>4, <2>1, RowFacts, SMTT(20)
  <2>3. CASE slots[p][o] = Absent
    <3>1. o \in Tagged(chunks) /\ chunks[o] = e[o]
      BY <1>3, <2>1, <2>2, <2>3, RowFacts DEF Tagged
    <3> QED BY <1>9, <3>1 DEF Filed
  <2>4. CASE slots[p][o] # Absent
    <3>1. slots[p][o] = e[o].tag BY <1>3, <2>1, <2>2, <2>4, RowFacts, SMTT(20)
    <3>2. ~Writes(p) BY <1>5 DEF Writes, InTxn
    <3> QED BY <2>1, <3>1, <3>2 DEF IInv, Tables, SlotsFiled
  <2> QED BY <2>3, <2>4
<1>18. Commits(p)'
  <2>1. txn'[p].chunks = e BY <1>7, SMTT(30)
  <2>2. TagsIn(chunks) \subseteq TagsIn(e) BY <1>3, <1>4
  <2> QED BY <1>4, <1>6, <1>15, <1>16, <1>17, <2>1, <2>2 DEF Commits, Filed
<1> QED BY <1>5, <1>6, <1>11, <1>12, <1>18, OwnStep DEF Writes, InTxn

\* The compaction begins with the tables as they are.
LEMMA BeginMovesStep ==
  ASSUME IInv, TypeOK', NEW p \in Proc, BeginMoves(p)
  PROVE  Transactions' /\ Tables'
<1>1. status[p] = "compact" /\ txn[p] = None /\ NoWriter BY DEF BeginMoves, Ready
<1>2. /\ UNCHANGED <<chunks, data, slots, status, damaged, leaked>>
      /\ \A q \in Proc \ {p} : txn'[q] = txn[q]
  BY DEF BeginMoves, Begin, IInv, TypeOK
<1>3. txn'[p] = [write |-> TRUE, chunks |-> chunks, slots |-> slots[p],
                 step |-> "next", at |-> None, from |-> None, tag |-> None,
                 moved |-> 0, next |-> "compact"]
  BY DEF BeginMoves, Begin, IInv, TypeOK
<1>4. SlotsAfter(p)' = slots BY <1>2, <1>3, SMTT(20) DEF SlotsAfter, IInv, TypeOK
<1>5. Puts(p)' /\ Truncates(p)' BY <1>1, <1>2 DEF Puts, Truncates
<1>6. Moves(p)' BY <1>2, <1>3, SMTT(20) DEF Moves
<1>7. Commits(p)' BY <1>2, <1>3, <1>4, SMTT(30) DEF Commits, Filed, IInv, Tables
<1> QED BY <1>1, <1>2, <1>5, <1>6, <1>7, OwnStep DEF Writes, InTxn

\* The slot that a chunk is moved to is not one that the transaction has emptied.
LEMMA MoveChunkStep ==
  ASSUME IInv, TypeOK', NEW p \in Proc, MoveChunk(p)
  PROVE  Transactions' /\ Tables'
<1> DEFINE x == txn[p]
<1>1. InTxn(p) /\ x.step = "next" /\ x.moved < MaxMoves BY DEF MoveChunk, InTxn
<1>2. status[p] = "compact" BY <1>1 DEF IInv, Modes, Transactions, Puts, Truncates
<1>3. PICK from, to \in Offset :
        /\ LowerSlot(x.chunks, from, to)
        /\ txn' = [txn EXCEPT ![p] = [@ EXCEPT !.step = "junk", !.at = to,
                     !.from = from, !.tag = x.chunks[from].tag]]
  BY DEF MoveChunk
<1> DEFINE t == x.chunks[from].tag
<1>4. /\ UNCHANGED <<chunks, data, slots, status, damaged, leaked>>
      /\ \A q \in Proc \ {p} : txn'[q] = txn[q]
  BY <1>3 DEF MoveChunk, IInv, TypeOK
<1>5. x \in Transaction BY <1>1 DEF IInv, TypeOK, InTxn
<1>6. txn'[p] = [x EXCEPT !.step = "junk", !.at = to, !.from = from, !.tag = t]
  BY <1>3 DEF IInv, TypeOK
<1>7. /\ txn'[p].write = x.write /\ txn'[p].chunks = x.chunks /\ txn'[p].slots = x.slots
      /\ txn'[p].next = x.next /\ txn'[p].moved = x.moved /\ txn'[p].step = "junk"
      /\ txn'[p].at = to /\ txn'[p].from = from /\ txn'[p].tag = t
  BY <1>5, <1>6 DEF Transaction
<1>8. /\ x.write /\ x.slots = slots[p] /\ x.next \in {"compact", "truncate"}
      /\ \A o \in Tagged(chunks) : \/ x.chunks[o] = chunks[o]
                                   \/ /\ x.chunks[o] = Free
                                      /\ \A r \in Tagged(x.chunks) : r < o
  BY <1>1, <1>2 DEF IInv, Transactions, Moves
<1>9. Writes(p) BY <1>1, <1>8 DEF Writes
<1>10. Rows(x.chunks) BY <1>9 DEF IInv, Transactions, Commits
<1>11. t \in Tag /\ x.chunks[from] = Holding(t) /\ x.chunks[to] = Free
       /\ to < from /\ \A o \in Tagged(x.chunks) : o =< from
  BY <1>3, <1>10, KindFacts DEF LowerSlot
<1>12. to \notin Tagged(chunks)
  <2> SUFFICES ASSUME to \in Tagged(chunks) PROVE FALSE OBVIOUS
  <2>1. \E u \in Tag : chunks[to] = Holding(u) BY KindFacts DEF IInv, Tables
  <2>2. \A r \in Tagged(x.chunks) : r < to BY <1>8, <1>11, <2>1, RowFacts
  <2>3. from < to BY <1>3, <2>2 DEF LowerSlot
  <2> QED BY <1>11, <2>3, SMTT(20) DEF Offset
<1>13. Moves(p)' BY <1>1, <1>4, <1>7, <1>8, <1>11, <1>12 DEF Moves
<1>14. Puts(p)' /\ Truncates(p)' BY <1>2, <1>4 DEF Puts, Truncates
<1>15. SlotsAfter(p)' = SlotsAfter(p) BY <1>4, <1>7 DEF SlotsAfter
<1>16. Commits(p)' BY <1>4, <1>7, <1>9, <1>15 DEF Commits, Filed, IInv, Transactions
<1> QED BY <1>2, <1>4, <1>9, <1>13, <1>14, <1>16, OwnStep

\* A pass of the compaction ends: its moves are ready to be committed.
LEMMA EndMovesStep ==
  ASSUME IInv, TypeOK', NEW p \in Proc, EndMoves(p)
  PROVE  Transactions' /\ Tables'
<1> DEFINE x == txn[p]
           n == IF Compact(x.chunks) THEN "truncate" ELSE "compact"
<1>1. InTxn(p) /\ x.step = "next" BY DEF EndMoves, InTxn
<1>2. status[p] = "compact" BY <1>1 DEF IInv, Modes, Transactions, Puts, Truncates
<1>3. /\ UNCHANGED <<chunks, data, slots, status, damaged, leaked>>
      /\ \A q \in Proc \ {p} : txn'[q] = txn[q]
  BY DEF EndMoves, IInv, TypeOK
<1>4. x \in Transaction BY <1>1 DEF IInv, TypeOK, InTxn
<1>5. txn'[p] = [x EXCEPT !.step = "commit", !.next = n] BY DEF EndMoves, IInv, TypeOK
<1>6. n \in {"compact", "truncate"} OBVIOUS
<1> HIDE DEF n
<1>7. /\ txn'[p].write = x.write /\ txn'[p].chunks = x.chunks /\ txn'[p].slots = x.slots
      /\ txn'[p].step = "commit" /\ txn'[p].next = n
  BY <1>4, <1>5 DEF Transaction
<1>8. /\ x.write /\ x.slots = slots[p]
      /\ \A o \in Tagged(chunks) : \/ x.chunks[o] = chunks[o]
                                   \/ /\ x.chunks[o] = Free
                                      /\ \A r \in Tagged(x.chunks) : r < o
  BY <1>1, <1>2 DEF IInv, Transactions, Moves
<1>9. Writes(p) BY <1>1, <1>8 DEF Writes
<1>10. Moves(p)' BY <1>3, <1>6, <1>7, <1>8 DEF Moves
<1>11. Puts(p)' /\ Truncates(p)' BY <1>2, <1>3 DEF Puts, Truncates
<1>12. SlotsAfter(p)' = SlotsAfter(p) BY <1>3, <1>7 DEF SlotsAfter
<1>13. Commits(p)' BY <1>3, <1>7, <1>9, <1>12 DEF Commits, Filed, IInv, Transactions
<1> QED BY <1>2, <1>3, <1>9, <1>10, <1>11, <1>13, OwnStep

\* What is cut off is free.
LEMMA TruncateStep ==
  ASSUME IInv, TypeOK', NEW p \in Proc, Truncate(p)
  PROVE  Transactions' /\ Tables'
<1>1. PICK n \in 0 .. MaxSlots :
        /\ EndsAt([o \in Offset |-> IF o \in Unallocated(chunks) THEN None ELSE chunks[o]], n)
        /\ data' = [o \in Offset |-> IF o < n THEN data[o] ELSE Junk]
        /\ Begin(p, [write |-> TRUE, chunks |-> Cut(chunks, n), slots |-> slots[p],
                     step |-> "commit", at |-> None, from |-> None, tag |-> None,
                     moved |-> 0, next |-> "flush"])
  BY DEF Truncate
<1> DEFINE c == Cut(chunks, n)
<1>2. status[p] = "truncate" /\ txn[p] = None /\ NoWriter BY DEF Truncate, Ready
<1>3. /\ UNCHANGED <<chunks, slots, status, damaged, leaked>>
      /\ \A q \in Proc \ {p} : txn'[q] = txn[q]
  BY <1>1 DEF Truncate, Begin, IInv, TypeOK
<1>4. txn'[p] = [write |-> TRUE, chunks |-> c, slots |-> slots[p],
                 step |-> "commit", at |-> None, from |-> None, tag |-> None,
                 moved |-> 0, next |-> "flush"]
  BY <1>1 DEF Begin, IInv, TypeOK
<1>5. /\ Rows(chunks) /\ NoGap(chunks) /\ Filed(chunks) /\ Owned(chunks, slots)
      /\ ~leaked => NoneLost(chunks, slots)
  BY DEF IInv, Tables
<1>6. \A o \in Offset : chunks[o] # None /\ chunks[o] # Free => o < n
  BY <1>1, <1>5, KindFacts DEF EndsAt
<1>7. \A o \in Offset : c[o] = IF o < n THEN chunks[o] ELSE None BY DEF Cut
<1>8. \A o \in Offset : o < n => data'[o] = data[o] BY <1>1
<1> HIDE DEF c
<1>9. \A q \in Proc, o \in Offset : slots[q][o] # Absent => o < n
  BY <1>5, <1>6, RowFacts DEF Owned
<1>10. \A o \in Tagged(chunks) : o \in Offset /\ o < n
  BY <1>5, <1>6, KindFacts, RowFacts, SMTT(20)
<1>11. Rows(c) BY <1>5, <1>7 DEF Rows
<1>12. NoGap(c)
  <2> SUFFICES ASSUME NEW o \in Offset, c[o] # None, NEW q \in 0 .. o PROVE c[q] # None
    BY DEF NoGap
  <2>1. q \in Offset /\ q =< o /\ o \in Nat /\ q \in Nat BY Sizes, SMTT(20) DEF Offset
  <2>2. o < n /\ chunks[o] # None BY <1>7
  <2>3. q < n BY <2>1, <2>2, SMTT(20)
  <2>4. chunks[q] # None BY <1>5, <2>2 DEF NoGap
  <2> QED BY <1>7, <2>1, <2>3, <2>4
<1>13. \A o \in Tagged(c) : o \in Tagged(chunks) /\ c[o] = chunks[o]
  BY <1>7 DEF Tagged
<1>14. \A o \in Tagged(chunks) : data'[o] = chunks[o].tag \/ o \in damaged
  BY <1>5, <1>8, <1>10 DEF Filed
<1>15. \A o \in Tagged(c) : data'[o] = c[o].tag \/ o \in damaged
  BY <1>13, <1>14
<1>16. Owned(c, slots) BY <1>5, <1>7, <1>9 DEF Owned
<1>17. ~leaked => NoneLost(c, slots) BY <1>5, <1>7, RowFacts DEF NoneLost
<1>18. TagsIn(chunks) \subseteq TagsIn(c)
  <2> SUFFICES ASSUME NEW t \in TagsIn(chunks) PROVE t \in TagsIn(c) OBVIOUS
  <2>1. t \in Tag BY <1>5, KindFacts
  <2>2. PICK o \in Offset : chunks[o] = Holding(t) BY <1>5, <2>1, KindFacts
  <2>3. c[o] = Holding(t) BY <1>6, <1>7, <2>1, <2>2, RowFacts
  <2> QED BY <1>11, <2>1, <2>3, KindFacts
<1>19. SlotsAfter(p)' = slots BY <1>3, <1>4, SMTT(20) DEF SlotsAfter, IInv, TypeOK
<1>20. Commits(p)'
  <2>1. txn'[p].chunks = c BY <1>4, SMTT(20)
  <2> QED BY <1>3, <1>11, <1>12, <1>15, <1>16, <1>17, <1>18, <1>19, <2>1 DEF Commits, Filed
<1>21. Puts(p)' /\ Moves(p)' BY <1>2, <1>3 DEF Puts, Moves
<1>22. Truncates(p)' BY <1>3, <1>4, SMTT(20) DEF Truncates
<1>23. \A q \in Proc : ~Writes(q) BY <1>2 DEF NoWriter, Writes, InTxn
<1>24. ASSUME NEW q \in Proc \ {p}, InTxn(q), status[q] = "run", txn[q].step = "commit"
       PROVE  data'[txn[q].at] = txn[q].tag \/ txn[q].at \in damaged'
  <2>1. /\ txn[q].at \in Offset /\ slots[q][txn[q].at] = None
        /\ data[txn[q].at] = txn[q].tag \/ txn[q].at \in damaged
    BY <1>23, <1>24 DEF IInv, Transactions, Puts, Writes
  <2>2. txn[q].at < n BY <1>9, <2>1, Markers
  <2> QED BY <1>3, <1>8, <2>1, <2>2
<1>25. Transactions' BY <1>3, <1>20, <1>21, <1>22, <1>23, <1>24, OneTransaction
<1>26. SlotsFiled'
  <2> SUFFICES ASSUME NEW q \in Proc, NEW o \in Offset, slots[q][o] \in Tag
               PROVE  data'[o] = slots[q][o] \/ o \in damaged
    BY <1>3 DEF SlotsFiled
  <2>1. data[o] = slots[q][o] \/ o \in damaged BY <1>23 DEF IInv, Tables, SlotsFiled
  <2>2. o < n BY <1>9, Markers
  <2> QED BY <1>8, <2>1, <2>2
<1>27. Filed(chunks)' BY <1>3, <1>14 DEF Filed
<1>28. Rows(chunks)' /\ NoGap(chunks)' /\ Owned(chunks, slots)'
       /\ (~leaked => NoneLost(chunks, slots))'
  BY <1>3, <1>5
<1> QED BY <1>25, <1>26, <1>27, <1>28 DEF Tables

\* Where a process writes there is no chunk that anybody knows of, in the index, in
\* a slot cache, or in a transaction that will be committed.
LEMMA WriteTarget ==
  ASSUME IInv, NEW p \in Proc, InTxn(p), txn[p].step \in {"junk", "data"}
  PROVE  LET at == txn[p].at
         IN  /\ at \in Offset /\ txn[p].tag \in Tag
             /\ at \notin Tagged(chunks)
             /\ \A q \in Proc \ {p} : slots[q][at] = Absent
             /\ slots[p][at] \in Tag => Writes(p) /\ status[p] = "run"
             /\ \A q \in Proc : Writes(q) => at \notin Tagged(txn[q].chunks)
             /\ \A q \in Proc \ {p} : InTxn(q) /\ status[q] = "run" => txn[q].at # at
<1> DEFINE x == txn[p]
           at == txn[p].at
<1>1. at \in Offset /\ x.tag \in Tag BY TagsWritten
<1>2. status[p] \in {"run", "compact"} BY DEF IInv, Modes, Transactions, Truncates
<1>3. \A q, r \in Proc : SlotsAfter(q)[r] = IF r = q THEN txn[q].slots ELSE slots[r]
  BY DEF SlotsAfter, IInv, TypeOK
<1>4. /\ Rows(chunks) /\ Owned(chunks, slots)
      /\ \A q \in Proc : Writes(q) => Rows(txn[q].chunks) /\ Owned(txn[q].chunks, SlotsAfter(q))
  BY DEF IInv, Tables, Transactions, Commits
<1>5. \A q \in Proc : InTxn(q) /\ status[q] = "run" =>
        /\ txn[q].at \in Offset /\ txn[q].tag \in Tag /\ txn[q].slots[txn[q].at] = txn[q].tag
        /\ ~txn[q].write => slots[q][txn[q].at] = None
        /\ txn[q].write => txn[q].at \notin Tagged(chunks)
  BY DEF IInv, Transactions, Puts
<1>6. \A o \in Tagged(chunks) : \E t \in Tag : chunks[o] = Holding(t) BY <1>4, KindFacts, SMTT(20)
<1>7. \A q \in Proc : Writes(q) =>
        \A o \in Tagged(txn[q].chunks) : \E t \in Tag : txn[q].chunks[o] = Holding(t)
  BY <1>4, KindFacts, SMTT(20)
<1>8. CASE status[p] = "run" /\ ~x.write
  <2>1. slots[p][at] = None BY <1>5, <1>8
  <2>2. chunks[at] = Reserved /\ \A q \in Proc \ {p} : slots[q][at] = Absent
    BY <1>1, <1>4, <2>1, Markers DEF Owned
  <2>3. at \notin Tagged(chunks) BY <1>6, <2>2, RowFacts
  <2>4. \A q \in Proc : Writes(q) => q # p BY <1>8 DEF Writes
  <2>5. \A q \in Proc : Writes(q) =>
          txn[q].chunks[at] = Reserved /\ (status[q] = "run" => txn[q].at # at)
    <3> SUFFICES ASSUME NEW q \in Proc, Writes(q)
                 PROVE  txn[q].chunks[at] = Reserved /\ (status[q] = "run" => txn[q].at # at)
      OBVIOUS
    <3>1. SlotsAfter(q)[p][at] # Absent BY <1>3, <2>1, <2>4, Markers
    <3>2. txn[q].chunks[at] = Reserved /\ SlotsAfter(q)[q][at] = Absent
      BY <1>1, <1>4, <2>4, <3>1, SMTT(20) DEF Owned
    <3>3. txn[q].slots[at] = Absent BY <1>3, <3>2
    <3> QED BY <1>5, <3>2, <3>3, Markers DEF Writes
  <2>6. \A q \in Proc : Writes(q) => at \notin Tagged(txn[q].chunks)
    BY <1>7, <2>5, RowFacts, SMTT(20)
  <2>7. \A q \in Proc \ {p} : InTxn(q) /\ status[q] = "run" => txn[q].at # at
    BY <1>5, <2>2, <2>5, Markers, SMTT(20) DEF Writes
  <2> QED BY <1>1, <2>1, <2>2, <2>3, <2>6, <2>7, Markers
<1>9. CASE x.write
  <2>1. Writes(p) /\ \A q \in Proc : Writes(q) => q = p
    BY <1>9 DEF Writes, IInv, Transactions, OneWriter
  <2>2. Owned(x.chunks, SlotsAfter(p)) BY <1>4, <2>1
  <2>3. /\ at \notin Tagged(chunks) /\ at \notin Tagged(x.chunks)
        /\ \A q \in Proc \ {p} : slots[q][at] = Absent
        /\ slots[p][at] \in Tag => status[p] = "run"
    <3>1. CASE status[p] = "run"
      <4>1. at \notin Tagged(chunks) /\ x.slots[at] = x.tag BY <1>5, <1>9, <3>1
      <4>2. SlotsAfter(p)[p][at] # Absent BY <1>1, <1>3, <4>1, Markers, SMTT(20)
      <4>3. x.chunks[at] = Reserved /\ \A q \in Proc \ {p} : SlotsAfter(p)[q][at] = Absent
        BY <1>1, <2>2, <4>2 DEF Owned
      <4>4. \A q \in Proc \ {p} : slots[q][at] = Absent BY <1>3, <4>3
      <4>5. at \notin Tagged(x.chunks) BY <1>7, <2>1, <4>3, RowFacts
      <4> QED BY <3>1, <4>1, <4>4, <4>5
    <3>2. CASE status[p] = "compact"
      <4>1. x.chunks[at] = Free /\ at \notin Tagged(chunks) /\ x.slots = slots[p]
        BY <3>2 DEF IInv, Transactions, Moves
      <4>2. \A q \in Proc : SlotsAfter(p)[q][at] = Absent
        BY <1>1, <2>2, <4>1, RowFacts DEF Owned
      <4>3. \A q \in Proc : slots[q][at] = Absent BY <1>3, <4>1, <4>2
      <4>4. at \notin Tagged(x.chunks) BY <1>7, <2>1, <4>1, RowFacts
      <4> QED BY <4>1, <4>3, <4>4, Markers
    <3> QED BY <1>2, <3>1, <3>2
  <2>4. \A q \in Proc \ {p} : InTxn(q) /\ status[q] = "run" => txn[q].at # at
    BY <1>5, <2>1, <2>3, Markers, SMTT(20) DEF Writes
  <2> QED BY <1>1, <2>1, <2>3, <2>4
<1>10. status[p] = "compact" => x.write BY DEF IInv, Transactions, Moves
<1> QED BY <1>2, <1>8, <1>9, <1>10

\* A write changes one slot of the file, and makes it better or known to be open.
LEMMA WriteKeeps ==
  ASSUME IInv, NEW p \in Proc, InTxn(p), txn[p].step \in {"junk", "data"}, TypeOK',
         UNCHANGED <<chunks, slots, status, leaked>>,
         \A q \in Proc \ {p} : txn'[q] = txn[q],
         \A o \in Offset : o # txn[p].at => data'[o] = data[o] /\ (o \in damaged' <=> o \in damaged),
         Writes(p)' <=> Writes(p), txn'[p].at = txn[p].at, txn'[p].step # "junk",
         Puts(p)', Moves(p)', Truncates(p)', Commits(p)'
  PROVE  Transactions' /\ Tables'
<1> DEFINE at == txn[p].at
<1>1. /\ at \in Offset /\ at \notin Tagged(chunks)
      /\ \A q \in Proc \ {p} : slots[q][at] = Absent
      /\ slots[p][at] \in Tag => Writes(p) /\ status[p] = "run"
      /\ \A q \in Proc : Writes(q) => at \notin Tagged(txn[q].chunks)
      /\ \A q \in Proc \ {p} : InTxn(q) /\ status[q] = "run" => txn[q].at # at
  BY WriteTarget
<1>2. Writes(p)' => \A q \in Proc \ {p} : ~Writes(q)
  BY DEF IInv, Transactions, OneWriter
<1>3. ASSUME NEW q \in Proc \ {p}, InTxn(q), status[q] = "run", txn[q].step = "commit"
      PROVE  data'[txn[q].at] = txn[q].tag \/ txn[q].at \in damaged'
  <2>1. /\ txn[q].at \in Offset
        /\ data[txn[q].at] = txn[q].tag \/ txn[q].at \in damaged
    BY <1>3 DEF IInv, Transactions, Puts
  <2> QED BY <1>1, <1>3, <2>1
<1>4. ASSUME NEW q \in Proc \ {p}, Writes(q), NEW o \in Tagged(txn[q].chunks)
      PROVE  data'[o] = txn[q].chunks[o].tag \/ o \in damaged'
  <2>1. data[o] = txn[q].chunks[o].tag \/ o \in damaged
    BY <1>4 DEF IInv, Transactions, Commits, Filed
  <2>2. o \in Offset /\ o # at BY <1>1, <1>4 DEF Tagged
  <2> QED BY <2>1, <2>2
<1>5. Transactions' BY <1>2, <1>3, <1>4, OneTransaction
<1>6. Filed(chunks)'
  <2> SUFFICES ASSUME NEW o \in Tagged(chunks) PROVE data'[o] = chunks[o].tag \/ o \in damaged'
    BY DEF Filed
  <2>1. data[o] = chunks[o].tag \/ o \in damaged BY DEF IInv, Tables, Filed
  <2>2. o \in Offset /\ o # at BY <1>1 DEF Tagged
  <2> QED BY <2>1, <2>2
<1>7. SlotsFiled'
  <2> SUFFICES ASSUME NEW q \in Proc, NEW o \in Offset, slots[q][o] \in Tag
               PROVE  \/ data'[o] = slots[q][o] \/ o \in damaged'
                      \/ Writes(q)' /\ status[q] = "run" /\ txn'[q].at = o /\ txn'[q].step # "junk"
    BY SMTT(20) DEF SlotsFiled
  <2>1. \/ data[o] = slots[q][o] \/ o \in damaged
        \/ Writes(q) /\ status[q] = "run" /\ txn[q].at = o /\ txn[q].step # "junk"
    BY DEF IInv, Tables, SlotsFiled
  <2>2. CASE o = at BY <1>1, <2>2, Markers, SMTT(30)
  <2>3. CASE o # at /\ q = p BY <2>1, <2>3
  <2>4. CASE o # at /\ q # p
    <3>1. Writes(q) <=> Writes(q)' BY <2>4 DEF Writes, InTxn
    <3> QED BY <2>1, <2>4, <3>1
  <2> QED BY <2>2, <2>3, <2>4
<1> QED BY <1>5, <1>6, <1>7 DEF IInv, Tables

\* A write to the hoard file begins: the slot holds junk, and no row names it.
LEMMA WriteStartsStep ==
  ASSUME IInv, TypeOK', NEW p \in Proc, WriteStarts(p)
  PROVE  Transactions' /\ Tables'
<1> DEFINE x == txn[p]
           at == txn[p].at
<1>1. InTxn(p) /\ x.step = "junk" BY DEF WriteStarts, InTxn
<1>2. x \in Transaction BY <1>1 DEF IInv, TypeOK, InTxn
<1>3. /\ UNCHANGED <<chunks, slots, status, leaked, damaged>>
      /\ \A q \in Proc \ {p} : txn'[q] = txn[q]
  BY DEF WriteStarts, IInv, TypeOK
<1>4. txn'[p] = [x EXCEPT !.step = "data"] BY DEF WriteStarts, IInv, TypeOK
<1>5. /\ txn'[p].write = x.write /\ txn'[p].chunks = x.chunks /\ txn'[p].slots = x.slots
      /\ txn'[p].next = x.next /\ txn'[p].moved = x.moved /\ txn'[p].step = "data"
      /\ txn'[p].at = at /\ txn'[p].from = x.from /\ txn'[p].tag = x.tag
  BY <1>2, <1>4 DEF Transaction
<1>6. txn'[p] # None
  <2>1. [x EXCEPT !.step = "data"] \in Transaction BY <1>2, RecordFacts
  <2> QED BY <1>4, <2>1, NoneApart
<1>7. \A o \in Offset : o # at => data'[o] = data[o] BY DEF WriteStarts, IInv, TypeOK
<1>8. at \notin Tagged(x.chunks) \/ ~x.write BY <1>1, WriteTarget DEF Writes
<1>9. Puts(p) /\ Moves(p) /\ Truncates(p) /\ Commits(p) BY DEF IInv, Transactions
<1>10. Puts(p)' BY <1>1, <1>3, <1>5, <1>9 DEF Puts
<1>11. Moves(p)' BY <1>1, <1>3, <1>5, <1>9, SMTT(30) DEF Moves
<1>12. Truncates(p)' BY <1>1, <1>3, <1>9 DEF Truncates
<1>13. Writes(p)' <=> Writes(p) BY <1>1, <1>5, <1>6 DEF Writes, InTxn
<1>14. Commits(p)'
  <2> SUFFICES ASSUME Writes(p) PROVE Commits(p)' BY <1>13 DEF Commits
  <2>1. \A o \in Tagged(x.chunks) : data'[o] = x.chunks[o].tag \/ o \in damaged
    BY <1>7, <1>8, <1>9 DEF Commits, Filed, Tagged, Writes
  <2>2. SlotsAfter(p)' = SlotsAfter(p) BY <1>3, <1>5 DEF SlotsAfter
  <2> QED BY <1>3, <1>5, <1>9, <2>1, <2>2 DEF Commits, Filed
<1> QED BY <1>1, <1>3, <1>5, <1>7, <1>10, <1>11, <1>12, <1>13, <1>14, WriteKeeps

\* The end of a put's write.
LEMMA PutWritten ==
  ASSUME IInv, TypeOK', NEW p \in Proc, WriteEnds(p), status[p] = "run"
  PROVE  Transactions' /\ Tables'
<1> DEFINE x == txn[p]
           at == txn[p].at
<1>1. InTxn(p) /\ x.step = "data" BY DEF WriteEnds, InTxn
<1>2. x \in Transaction BY <1>1 DEF IInv, TypeOK, InTxn
<1>3. /\ UNCHANGED <<chunks, slots, status, leaked>>
      /\ \A q \in Proc \ {p} : txn'[q] = txn[q]
  BY DEF WriteEnds, IInv, TypeOK
<1>4. Puts(p) /\ Commits(p) BY DEF IInv, Transactions
<1>5. x.from = None BY <1>1, <1>4 DEF Puts
<1>6. txn'[p] = [x EXCEPT !.step = "commit"] BY <1>5 DEF WriteEnds, Written, IInv, TypeOK
<1>7. /\ txn'[p].write = x.write /\ txn'[p].chunks = x.chunks /\ txn'[p].slots = x.slots
      /\ txn'[p].next = x.next /\ txn'[p].step = "commit"
      /\ txn'[p].at = at /\ txn'[p].from = x.from /\ txn'[p].tag = x.tag
  BY <1>2, <1>6 DEF Transaction
<1>8. txn'[p] # None BY <1>2, <1>6, RecordFacts, NoneApart
<1>9. \A o \in Offset : o # at => data'[o] = data[o] /\ (o \in damaged' <=> o \in damaged)
  BY DEF WriteEnds, IInv, TypeOK
<1>10. at \in Offset /\ (at \notin Tagged(x.chunks) \/ ~x.write) BY <1>1, WriteTarget DEF Writes
<1>11. data'[at] = x.tag BY <1>10 DEF WriteEnds, IInv, TypeOK
<1>12. Puts(p)' BY <1>1, <1>3, <1>4, <1>7, <1>11 DEF Puts
<1>13. Moves(p)' /\ Truncates(p)' BY <1>3 DEF Moves, Truncates
<1>14. Writes(p)' <=> Writes(p) BY <1>1, <1>7, <1>8 DEF Writes, InTxn
<1>15. Commits(p)'
  <2> SUFFICES ASSUME Writes(p) PROVE Commits(p)' BY <1>14 DEF Commits
  <2>1. \A o \in Tagged(x.chunks) : data'[o] = x.chunks[o].tag \/ o \in damaged'
    BY <1>4, <1>9, <1>10 DEF Commits, Filed, Tagged, Writes
  <2>2. SlotsAfter(p)' = SlotsAfter(p) BY <1>3, <1>7 DEF SlotsAfter
  <2> QED BY <1>3, <1>4, <1>7, <2>1, <2>2 DEF Commits, Filed
<1> QED BY <1>1, <1>3, <1>7, <1>9, <1>12, <1>13, <1>14, <1>15, WriteKeeps

\* The end of a move: the chunk has changed its row.
LEMMA MoveWritten ==
  ASSUME IInv, TypeOK', NEW p \in Proc, WriteEnds(p), status[p] = "compact"
  PROVE  Transactions' /\ Tables'
<1> DEFINE x == txn[p]
           at == txn[p].at
           from == txn[p].from
           c == x.chunks
           d == [x.chunks EXCEPT ![from] = Free, ![at] = Holding(x.tag)]
<1>1. InTxn(p) /\ x.step = "data" BY DEF WriteEnds, InTxn
<1>2. x \in Transaction /\ Written(x) \in Transaction
  BY <1>1, WrittenType DEF IInv, TypeOK, InTxn
<1>3. /\ UNCHANGED <<chunks, slots, status, leaked>>
      /\ \A q \in Proc \ {p} : txn'[q] = txn[q]
  BY DEF WriteEnds, IInv, TypeOK
<1>4. Moves(p) /\ Commits(p) BY DEF IInv, Transactions
<1>5. /\ x.write /\ x.slots = slots[p] /\ x.next \in {"compact", "truncate"}
      /\ at \in Offset /\ from \in Offset /\ x.tag \in Tag
      /\ c[at] = Free /\ c[from] = Holding(x.tag)
      /\ at < from /\ \A o \in Tagged(c) : o =< from
      /\ at \notin Tagged(chunks)
      /\ \A o \in Tagged(chunks) : c[o] = chunks[o] \/ (c[o] = Free /\ \A r \in Tagged(c) : r < o)
  BY <1>1, <1>4 DEF Moves
<1>6. Writes(p) BY <1>1, <1>5 DEF Writes
<1>7. /\ Rows(c) /\ NoGap(c) /\ Filed(c) /\ Owned(c, SlotsAfter(p))
      /\ ~leaked => NoneLost(c, SlotsAfter(p))
      /\ TagsIn(chunks) \subseteq TagsIn(c)
  BY <1>4, <1>6 DEF Commits
<1>8. from # None BY <1>5, NoneApart
<1>9. txn'[p] = [x EXCEPT !.step = "next", !.moved = x.moved + 1, !.chunks = d]
  BY <1>8 DEF WriteEnds, Written, IInv, TypeOK
<1>10. /\ txn'[p].write = x.write /\ txn'[p].chunks = d /\ txn'[p].slots = x.slots
       /\ txn'[p].next = x.next /\ txn'[p].step = "next" /\ txn'[p].at = at
  BY <1>2, <1>9 DEF Transaction
<1>11. txn'[p] # None BY <1>2, NoneApart DEF WriteEnds, IInv, TypeOK
<1>12. \A o \in Offset : o # at => data'[o] = data[o] /\ (o \in damaged' <=> o \in damaged)
  BY DEF WriteEnds, IInv, TypeOK
<1>13. data'[at] = x.tag BY <1>5 DEF WriteEnds, IInv, TypeOK
<1>14. at # from /\ at \in Nat /\ from \in Nat BY <1>5, SMTT(30) DEF Offset
<1>15. \A o \in Offset : d[o] = IF o = at THEN Holding(x.tag) ELSE IF o = from THEN Free ELSE c[o]
  BY <1>2, <1>5, <1>14 DEF Transaction, Index
<1> HIDE DEF d
<1>16. Rows(d) BY <1>5, <1>7, <1>15 DEF Rows
<1>17. \A o \in Offset : (d[o] # None <=> c[o] # None) /\ (d[o] = Reserved <=> c[o] = Reserved)
  BY <1>5, <1>15, RowFacts, SMTT(20)
<1>18. NoGap(d)
  <2>1. \A o \in Offset : \A q \in 0 .. o : q \in Offset BY Sizes, SMTT(20) DEF Offset
  <2> QED BY <1>7, <1>17, <2>1 DEF NoGap
<1>19. \A o \in Tagged(d) : o = at \/ (o \in Tagged(c) /\ o # from /\ o # at /\ d[o] = c[o])
  BY <1>15, RowFacts DEF Tagged
<1>20. \A o \in Tagged(d) : data'[o] = d[o].tag \/ o \in damaged'
  <2> TAKE o \in Tagged(d)
  <2>1. CASE o = at BY <1>5, <1>13, <1>15, <2>1, RowFacts
  <2>2. CASE o # at
    <3>1. o \in Tagged(c) /\ d[o] = c[o] /\ o \in Offset BY <1>19, <2>2 DEF Tagged
    <3> QED BY <1>7, <1>12, <2>2, <3>1 DEF Filed
  <2> QED BY <2>1, <2>2
<1>21. SlotsAfter(p)' = SlotsAfter(p) BY <1>3, <1>10 DEF SlotsAfter
<1>22. Owned(d, SlotsAfter(p)) BY <1>7, <1>17 DEF Owned
<1>23. ~leaked => NoneLost(d, SlotsAfter(p)) BY <1>7, <1>17 DEF NoneLost
<1>24. TagsIn(chunks) \subseteq TagsIn(d)
  <2> SUFFICES ASSUME NEW t \in TagsIn(c) PROVE t \in TagsIn(d) BY <1>7
  <2>1. t \in Tag BY <1>7, KindFacts
  <2>2. PICK o \in Offset : c[o] = Holding(t) BY <1>7, <2>1, KindFacts
  <2>3. \E q \in Offset : d[q] = Holding(t) BY <1>5, <1>15, <2>1, <2>2, RowFacts, SMTT(30)
  <2> QED BY <1>16, <2>1, <2>3, KindFacts
<1>25. Commits(p)' BY <1>3, <1>10, <1>16, <1>18, <1>20, <1>21, <1>22, <1>23, <1>24 DEF Commits, Filed
<1>26. Puts(p)' /\ Truncates(p)' BY <1>3 DEF Puts, Truncates
<1>27. ASSUME NEW o \in Tagged(chunks)
       PROVE  d[o] = chunks[o] \/ (d[o] = Free /\ \A r \in Tagged(d) : r < o)
  <2>1. o \in Offset /\ o # at /\ o \in Nat BY <1>5, SMTT(20) DEF Tagged, Offset
  <2>2. \A r \in Tagged(d) : r \in Nat BY SMTT(20) DEF Tagged, Offset
  <2>3. CASE o = from
    <3>1. d[o] = Free BY <1>15, <2>1, <2>3
    <3>2. \A r \in Tagged(d) : r < from BY <1>5, <1>14, <1>19, <2>2, SMTT(20)
    <3> QED BY <2>3, <3>1, <3>2
  <2>4. CASE o # from /\ c[o] = chunks[o] BY <1>15, <2>1, <2>4
  <2>5. CASE o # from /\ c[o] = Free /\ \A r \in Tagged(c) : r < o
    <3>1. d[o] = Free BY <1>15, <2>1, <2>5
    <3>2. from \in Tagged(c) BY <1>5, <1>7, KindFacts, SMTT(30)
    <3>3. at < o BY <1>5, <1>14, <2>1, <2>5, <3>2, SMTT(20)
    <3> QED BY <1>19, <2>5, <3>1, <3>3
  <2> QED BY <1>5, <2>3, <2>4, <2>5
<1>28. Moves(p)' BY <1>3, <1>5, <1>10, <1>27 DEF Moves
<1>29. Writes(p)' <=> Writes(p) BY <1>5, <1>6, <1>10, <1>11 DEF Writes, InTxn
<1> QED BY <1>1, <1>3, <1>10, <1>12, <1>25, <1>26, <1>28, <1>29, WriteKeeps

\* Damage done to the file from outside is noted in the history variable.
LEMMA DamageStep ==
  ASSUME IInv, NEW o \in Offset, Damage(o)
  PROVE  Transactions' /\ Tables'
<1>1. UNCHANGED <<chunks, slots, status, txn, leaked>> BY DEF Damage
<1>2. \A r \in Offset : r \in damaged' \/ (data'[r] = data[r] /\ r \notin damaged)
  BY DEF Damage, IInv, TypeOK
<1>3. \A r \in damaged : r \in damaged' BY DEF Damage
<1>4. \A c : Filed(c) => \A r \in Tagged(c) : data'[r] = c[r].tag \/ r \in damaged'
  BY <1>2 DEF Filed, Tagged
<1>5. OneWriter' BY <1>1 DEF IInv, Transactions, OneWriter, Writes, InTxn
<1>6. ASSUME NEW p \in Proc PROVE Puts(p)' /\ Moves(p)' /\ Truncates(p)' /\ Commits(p)'
  <2>1. Puts(p) /\ Moves(p) /\ Truncates(p) /\ Commits(p) BY DEF IInv, Transactions
  <2>2. (InTxn(p)' <=> InTxn(p)) /\ (Writes(p)' <=> Writes(p)) BY <1>1 DEF Writes, InTxn
  <2>3. Puts(p)' BY <1>1, <1>2, <1>3, <2>1, <2>2 DEF Puts
  <2>4. Moves(p)' /\ Truncates(p)' BY <1>1, <2>1, <2>2 DEF Moves, Truncates
  <2>5. SlotsAfter(p)' = SlotsAfter(p) BY <1>1 DEF SlotsAfter
  <2>6. Commits(p)'
    <3> SUFFICES ASSUME Writes(p) PROVE Commits(p)' BY <2>2 DEF Commits
    <3>1. Filed(txn[p].chunks) BY <2>1 DEF Commits
    <3>2. \A r \in Tagged(txn[p].chunks) : data'[r] = txn[p].chunks[r].tag \/ r \in damaged'
      BY <1>4, <3>1
    <3> QED BY <1>1, <2>1, <2>5, <3>2 DEF Commits, Filed
  <2> QED BY <2>3, <2>4, <2>6
<1>7. Filed(chunks)' BY <1>1, <1>4 DEF Filed, IInv, Tables
<1>8. SlotsFiled' BY <1>1, <1>2, <1>3 DEF SlotsFiled, IInv, Tables, Writes, InTxn
<1> QED BY <1>1, <1>5, <1>6, <1>7, <1>8 DEF IInv, Tables, Transactions

-----------------------------------------------------------------------------
(* The inductive invariant, and what it implies                            *)

LEMMA InitIInv == Init => IInv
<1> SUFFICES ASSUME Init PROVE IInv OBVIOUS
<1>1. TypeOK
  <2>1. Idle \in Lookup /\ NoSlots \in SlotCache BY NoSlotsType DEF Idle, Lookup
  <2>2. chunks \in Index /\ data \in [Offset -> Tag \cup {Junk}] BY DEF Init, Index
  <2>3. status \in [Proc -> Status] /\ faults \in 0 .. MaxFault BY Sizes, SMTT(20) DEF Init, Status
  <2>4. slots \in [Proc -> SlotCache] /\ txn \in [Proc -> Transaction \cup {None}]
    BY <2>1 DEF Init
  <2>5. get \in [Proc -> Lookup] BY <2>1 DEF Init
  <2> QED BY <2>2, <2>3, <2>4, <2>5 DEF Init, TypeOK
<1>2. \A p \in Proc : txn[p] = None /\ slots[p] = NoSlots /\ status[p] = "closed"
                      /\ get[p].pc = "idle"
  BY DEF Init, Idle
<1>3. Modes BY <1>2 DEF Modes, InTxn
<1>4. Transactions
  BY <1>2 DEF Transactions, OneWriter, Puts, Moves, Truncates, Commits, InTxn, Writes
<1>5. \A o \in Offset : chunks[o] = None BY DEF Init
<1>6. \A p \in Proc, o \in Offset : slots[p][o] = Absent BY <1>2 DEF NoSlots
<1>7. Rows(chunks) /\ NoGap(chunks) /\ Filed(chunks) BY <1>5 DEF Rows, NoGap, Filed, Tagged
<1>8. SlotsFiled /\ Owned(chunks, slots) BY <1>6, Markers DEF SlotsFiled, Owned
<1>9. NoneLost(chunks, slots) BY <1>5, RowFacts DEF NoneLost
<1> QED BY <1>1, <1>3, <1>4, <1>7, <1>8, <1>9 DEF IInv, Tables

\* Every step keeps the invariant.
LEMMA NextIInv ==
  ASSUME IInv, [Next]_vars PROVE IInv'
<1>1. CASE UNCHANGED vars
  <2>1. UNCHANGED <<chunks, data, slots, txn, damaged, leaked, status, refs, get, faults>>
    BY <1>1 DEF vars
  <2>2. Transactions' /\ Tables' BY <2>1, Undisturbed
  <2>3. TypeOK' BY <2>1 DEF IInv, TypeOK
  <2>4. Modes' BY <2>1 DEF IInv, Modes, InTxn
  <2> QED BY <2>2, <2>3, <2>4 DEF IInv
<1>2. CASE Next
  <2>1. TypeOK' /\ Modes' BY <1>2, TypeInv, ModesInv
  <2>2. ASSUME NEW p \in Proc, Open(p) \/ Leave(p) PROVE Transactions' /\ Tables'
    BY <2>2, IdleSteps, FlushSteps, CleanupSteps DEF Leave
  <2>3. ASSUME NEW p \in Proc, WriteEnds(p) PROVE Transactions' /\ Tables'
    <3>1. status[p] \in {"run", "compact"}
      BY <2>3 DEF WriteEnds, IInv, Modes, InTxn, Transactions, Truncates
    <3> QED BY <2>1, <2>3, <3>1, PutWritten, MoveWritten
  <2>4. ASSUME NEW p \in Proc, Transact(p) PROVE Transactions' /\ Tables'
    BY <2>1, <2>3, <2>4, WriteStartsStep, CommitSlot, CommitIndex, FailingSteps, MoveChunkStep,
       EndMovesStep DEF Transact
  <2>5. ASSUME NEW p \in Proc, Lookups(p) PROVE Transactions' /\ Tables'
    BY <2>1, <2>5, IdleSteps, GcSteps, LossSteps DEF Lookups
  <2>6. ASSUME NEW p \in Proc, Maintain(p) PROVE Transactions' /\ Tables'
    BY <2>1, <2>6, IdleSteps, GcSteps, BeginMovesStep, TruncateStep DEF Maintain
  <2>7. ASSUME NEW p \in Proc, Fails(p) PROVE Transactions' /\ Tables'
    BY <2>1, <2>7, FailingSteps, IdleSteps, LossSteps DEF Fails
  <2>8. ASSUME NEW p \in Proc, NEW t \in Tag, PutInSlot(p, t) \/ PutInNewSlot(p, t)
        PROVE  Transactions' /\ Tables'
    BY <2>1, <2>8, PutInSlotStep, PutInNewSlotStep
  <2>9. Transactions' /\ Tables'
    BY <1>2, <2>2, <2>4, <2>5, <2>6, <2>7, <2>8, DamageStep DEF Next
  <2> QED BY <2>1, <2>9 DEF IInv
<1> QED BY <1>1, <1>2

\* The tables, the file and the open transactions of all processes agree in every
\* reachable state, whatever fails.
THEOREM Invariance == Spec => []IInv
  BY InitIInv, NextIInv, PTL DEF Spec

\* No two processes have the same slot: expand_slot_cache(), the compaction and the
\* cleanup take only slots that are in no slot cache.
THEOREM SlotsHaveOneOwner == Spec => []OneOwner
<1>1. IInv => OneOwner BY DEF IInv, Tables, Owned, OneOwner
<1> QED BY <1>1, Invariance, PTL

\* What the index and the slot caches say of a slot is true, although the file is
\* written before the transactions commit: hoard_put_chunk(),
\* _compact_hoard_move_chunk() and _compact_hoard_truncate() write only where no
\* chunk is that anybody knows of.
THEOREM FileIsDescribed == Spec => []Described
<1>1. IInv => Described
  BY DEF IInv, Tables, Filed, SlotsFiled, Writes, InTxn, Described
<1> QED BY <1>1, Invariance, PTL

\* expand_slot_cache() and _compact_hoard_truncate() leave no gap in the index.
THEOREM IndexIsContiguous == Spec => []Contiguous
<1>1. IInv => Contiguous BY DEF IInv, Tables, NoGap, Contiguous
<1> QED BY <1>1, Invariance, PTL

\* Unless a process dies, or fails to give its slots back, no slot is lost:
\* transactions that fail, the compaction and _flush_slot_cache() keep every
\* reserved slot in a slot cache.
THEOREM NoSlotIsLost == Spec => []NoLeak
<1>1. IInv => NoLeak BY DEF IInv, Tables, NoneLost, NoLeak
<1> QED BY <1>1, Invariance, PTL

\* A chunk that a parcel refers to leaves the index only when somebody has found
\* its slot to hold something else: _hoard_gc(), the compaction, the cleanup and
\* the flush of slot caches keep it.
THEOREM ReferencesAreKept == Spec => ReferencedKept
<1> DEFINE Keeps == \A t \in Tag : Hoarded(t) /\ t \in refs =>
                      Hoarded(t)' \/ \E p \in Proc : Invalidates(p, t)
<1>1. ASSUME IInv, IInv', [Next]_vars PROVE [Keeps]_vars
  <2>1. ASSUME NEW c, Rows(c)
        PROVE  \A t \in Tag : (\E o \in Tagged(c) : c[o].tag = t) <=> t \in TagsIn(c)
    BY <2>1, KindFacts, RowFacts, SMTT(20)
  <2>2. Rows(chunks) /\ Rows(chunks') BY <1>1 DEF IInv, Tables, Rows
  <2>3. \A t \in Tag : (Hoarded(t) <=> t \in TagsIn(chunks)) /\ (Hoarded(t)' <=> t \in TagsIn(chunks'))
    BY <2>1, <2>2 DEF Hoarded
  <2>4. ASSUME \A t \in refs : t \in TagsIn(chunks) => t \in TagsIn(chunks') PROVE Keeps
    BY <2>3, <2>4
  <2>5. ASSUME NEW p \in Proc, Gc(p) PROVE Keeps
    <3> SUFFICES ASSUME NEW t \in refs, t \in TagsIn(chunks) PROVE t \in TagsIn(chunks') BY <2>4
    <3>1. t \in Tag BY <1>1 DEF IInv, TypeOK
    <3>2. PICK o \in Offset : chunks[o] = Holding(t) BY <2>2, <3>1, KindFacts
    <3>3. chunks'[o] = Holding(t) BY <2>2, <2>5, <3>1, <3>2, CollectedFacts, RowFacts, SMTT(20) DEF Gc
    <3> QED BY <2>2, <3>1, <3>3, KindFacts
  <2>6. ASSUME NEW p \in Proc, Cleanup(p) PROVE Keeps
    <3> SUFFICES ASSUME NEW t \in refs, t \in TagsIn(chunks) PROVE t \in TagsIn(chunks') BY <2>4
    <3>1. t \in Tag BY <1>1 DEF IInv, TypeOK
    <3>2. PICK o \in Offset : chunks[o] = Holding(t) BY <2>2, <3>1, KindFacts
    <3> DEFINE c == Released(chunks)
    <3>3. c[o] = Holding(t) BY <3>1, <3>2, RowFacts DEF Released
    <3>4. Rows(c) BY <2>2 DEF Released, Rows
    <3>5. chunks' = c \/ chunks' = Collected(c, refs) BY <2>6 DEF Cleanup
    <3> HIDE DEF c
    <3>6. chunks'[o] = Holding(t) BY <3>1, <3>3, <3>4, <3>5, CollectedFacts, RowFacts, SMTT(20)
    <3> QED BY <2>2, <3>1, <3>6, KindFacts
  <2>7. ASSUME NEW p \in Proc, FlushSlots(p) PROVE Keeps
    <3>1. TagsIn(chunks) \subseteq TagsIn(chunks') BY <1>1, <2>7, NewSlotFacts DEF FlushSlots
    <3> QED BY <2>4, <3>1
  <2>8. ASSUME NEW p \in Proc, Commit(p) PROVE Keeps
    <3>1. TagsIn(chunks) \subseteq TagsIn(chunks')
      BY <1>1, <2>8 DEF Commit, IInv, Transactions, Commits, Writes, InTxn
    <3> QED BY <2>4, <3>1
  <2>9. ASSUME NEW p \in Proc, InvalidateChunk(p) PROVE Keeps
    <3>1. CASE chunks' = chunks BY <2>4, <3>1
    <3>2. CASE chunks' # chunks
      <4> SUFFICES ASSUME NEW t \in Tag, t \in TagsIn(chunks), t \notin TagsIn(chunks')
                   PROVE  Invalidates(p, t)
        BY <2>3
      <4>1. PICK o \in Offset : chunks[o] = Holding(t) BY <2>2, KindFacts
      <4>2. chunks'[o] # Holding(t) BY <2>2, KindFacts
      <4>3. chunks' = [chunks EXCEPT ![get[p].at] = Free] /\ chunks[get[p].at].tag = get[p].tag
        BY <2>9, <3>2 DEF InvalidateChunk
      <4>4. o = get[p].at BY <1>1, <4>1, <4>2, <4>3 DEF IInv, TypeOK, Index
      <4>5. get[p].tag = t BY <4>1, <4>3, <4>4, RowFacts
      <4>6. get'[p] # get[p]
        <5>1. get[p] \in Lookup BY <1>1 DEF IInv, TypeOK
        <5>2. get'[p].pc # "invalid"
          BY <1>1, <2>9, <5>1 DEF InvalidateChunk, Resume, IInv, TypeOK, Lookup, Idle
        <5> QED BY <2>9, <5>2 DEF InvalidateChunk
      <4> QED BY <2>9, <4>5, <4>6 DEF Invalidates, InvalidateChunk
    <3> QED BY <3>1, <3>2
  <2>10. CASE UNCHANGED vars BY <2>10
  <2>11. CASE Next /\ chunks' = chunks BY <2>4, <2>11
  <2>12. CASE Next /\ chunks' # chunks
    <3>1. \E p \in Proc : Gc(p) \/ Cleanup(p) \/ FlushSlots(p) \/ Commit(p) \/ InvalidateChunk(p)
      <4>1. ASSUME NEW p \in Proc, Open(p) \/ Leave(p) PROVE FlushSlots(p) \/ Cleanup(p)
        BY <2>12, <4>1 DEF Open, Leave, Shutdown, TryCleanup
      <4>2. ASSUME NEW p \in Proc, Transact(p) PROVE Commit(p)
        BY <2>12, <4>2 DEF Transact, WriteStarts, WriteEnds, Busy, MoveChunk, MoveFails,
          EndMoves, Abort
      <4>3. ASSUME NEW p \in Proc, Lookups(p) PROVE InvalidateChunk(p)
        BY <2>12, <4>3 DEF Lookups, Find, CheckData, ReadChunk, InvalidateSlot
      <4>4. ASSUME NEW p \in Proc, Maintain(p) PROVE Gc(p)
        BY <2>12, <4>4 DEF Maintain, ChangeRefs, BeginMoves, Truncate, Begin
      <4>5. ASSUME NEW p \in Proc PROVE ~Fails(p)
        BY <2>12 DEF Fails, Rollback, Abort, InvalidateFails, FlushFails, CleanupFails, Crash
      <4>6. ASSUME NEW p \in Proc, NEW t \in Tag PROVE ~PutInSlot(p, t) /\ ~PutInNewSlot(p, t)
        BY <2>12 DEF PutInSlot, PutInNewSlot, Put, Begin
      <4>7. ASSUME NEW o \in Offset PROVE ~Damage(o) BY <2>12 DEF Damage
      <4> QED BY <2>12, <4>1, <4>2, <4>3, <4>4, <4>5, <4>6, <4>7 DEF Next
    <3> QED BY <2>5, <2>6, <2>7, <2>8, <2>9, <3>1
  <2> QED BY <1>1, <2>10, <2>11, <2>12
<1>2. IInv /\ IInv' /\ [Next]_vars => [Keeps]_vars BY <1>1
<1> QED BY <1>2, Invariance, PTL DEF Spec, ReferencedKept

==============================================================================
