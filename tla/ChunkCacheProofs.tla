-------------------------- MODULE ChunkCacheProofs --------------------------
(***************************************************************************)
(* The theorems about the chunk cache, for any number of workers, chunks,  *)
(* pieces and buffers.  Each conjunct of the inductive invariant IInv has a *)
(* lemma saying that a step preserves it, with one proof step per action:  *)
(* first what busy flags and waiters counts say, the reclaimable queue and *)
(* where the buffers are, then the dirty queue, the coherence of buffers and *)
(* local cache and what replies show, then types and phases of the shutdown. *)
(* On top of IInv: the cache implements the atomic disk, loses no buffer and *)
(* no wakeup, and an fsync starts every writeback that it owes.            *)
(***************************************************************************)
EXTENDS FsyncOrder, FiniteSetTheorems, TLAPS

\* A step that names no prover is one for Zenon.
USE ZenonT(30)

-----------------------------------------------------------------------------
(* The queues: sequences without repetition from which an element is       *)
(* unlinked wherever it is and to which one is appended, as                *)
(* queue_delete_with_link() and queue_push_tail_with_link() do.            *)

\* Unlinking the k-th element of a queue shifts the elements behind it.
LEMMA WithoutFacts ==
  ASSUME NEW S, NEW q \in Seq(S), NEW k \in 1..Len(q)
  PROVE  /\ Without(q, k) \in Seq(S)
         /\ Len(Without(q, k)) = Len(q) - 1
         /\ \A i \in 1..(Len(q) - 1) :
              Without(q, k)[i] = IF i < k THEN q[i] ELSE q[i + 1]
<1> DEFINE r == [i \in 1..(Len(q) - 1) |-> IF i < k THEN q[i] ELSE q[i + 1]]
<1>1. Len(q) - 1 \in Nat
  BY SMTT(20)
<1>2. \A i \in 1..(Len(q) - 1) : r[i] \in S
  BY SMTT(20)
<1>3. r \in Seq(S) /\ Len(r) = Len(q) - 1
  BY <1>1, <1>2, SMTT(20)
<1> QED BY <1>3 DEF Without

\* queue_delete_with_link(): unlinking an element removes it and nothing else,
\* keeps the queue free of repetitions, and does nothing if it is not linked.
LEMMA UnlinkedFacts ==
  ASSUME NEW S, NEW q \in Seq(S), NEW e, IsInjective(q)
  PROVE  /\ Unlinked(q, e) \in Seq(S)
         /\ Range(Unlinked(q, e)) = Range(q) \ {e}
         /\ IsInjective(Unlinked(q, e))
<1>1. CASE e \in Range(q)
  <2>1. PICK k \in 1..Len(q) : q[k] = e BY <1>1, SMTT(20) DEF Range
  <2>2. Unlinked(q, e) = Without(q, k)
    BY <1>1, <2>1, SMTT(20) DEF IsInjective, Unlinked
  <2> DEFINE r == Without(q, k)
  <2>3. /\ r \in Seq(S) /\ Len(r) = Len(q) - 1
        /\ \A i \in 1..(Len(q) - 1) : r[i] = IF i < k THEN q[i] ELSE q[i + 1]
    BY WithoutFacts
  <2> HIDE DEF r
  <2>4. Range(r) \subseteq Range(q) \ {e}
    BY <2>1, <2>3, SMTT(20) DEF Range, IsInjective
  <2>5. ASSUME NEW x \in Range(q) \ {e} PROVE x \in Range(r)
    <3>1. PICK j \in 1..Len(q) : q[j] = x BY SMTT(20) DEF Range
    <3>2. j # k BY <3>1, <2>1
    <3>3. CASE j < k
      <4>1. j \in 1..(Len(q) - 1) /\ r[j] = x BY <3>1, <3>3, <2>3, SMTT(20)
      <4> QED BY <4>1, <2>3, SMTT(20) DEF Range
    <3>4. CASE j > k
      <4>1. j - 1 \in 1..(Len(q) - 1) /\ r[j - 1] = x BY <3>1, <3>4, <2>3, SMTT(20)
      <4> QED BY <4>1, <2>3, SMTT(20) DEF Range
    <3> QED BY <3>2, <3>3, <3>4, SMTT(20)
  <2>6. IsInjective(r)
    <3> SUFFICES ASSUME NEW i \in 1..(Len(q) - 1), NEW j \in 1..(Len(q) - 1),
                        r[i] = r[j]
                 PROVE  i = j
      BY <2>3, SMTT(20) DEF IsInjective
    <3>1. PICK a \in DOMAIN q : a = (IF i < k THEN i ELSE i + 1) /\ r[i] = q[a]
      BY <2>3, SMTT(20)
    <3>2. PICK b \in DOMAIN q : b = (IF j < k THEN j ELSE j + 1) /\ r[j] = q[b]
      BY <2>3, SMTT(20)
    <3>3. a = b BY <3>1, <3>2 DEF IsInjective
    <3> QED BY <3>1, <3>2, <3>3, SMTT(20)
  <2> QED BY <2>2, <2>3, <2>4, <2>5, <2>6 DEF r
<1>2. CASE e \notin Range(q)
  <2>1. Unlinked(q, e) = q BY <1>2 DEF Unlinked
  <2> QED BY <1>2, <2>1
<1> QED BY <1>1, <1>2

\* queue_push_tail_with_link(): the element, which was not linked (the
\* assertion in the code), is added and the queue has no repetitions.
LEMMA AppendFacts ==
  ASSUME NEW S, NEW q \in Seq(S), NEW e \in S, IsInjective(q), e \notin Range(q)
  PROVE  /\ Append(q, e) \in Seq(S)
         /\ Range(Append(q, e)) = Range(q) \cup {e}
         /\ IsInjective(Append(q, e))
<1>1. /\ Append(q, e) \in Seq(S) /\ Len(Append(q, e)) = Len(q) + 1
      /\ \A i \in 1..Len(q) : Append(q, e)[i] = q[i]
      /\ Append(q, e)[Len(q) + 1] = e
  BY SMTT(20)
<1> QED BY <1>1, SMTT(20) DEF Range, IsInjective

\* g_queue_peek_head(): the head of a queue that is not empty is linked in it.
LEMMA HeadFacts ==
  ASSUME NEW S, NEW q \in Seq(S), q # <<>>
  PROVE  Head(q) \in S /\ Head(q) \in Range(q)
  BY SMTT(20) DEF Range

\* g_queue_new(): nothing is linked in a new queue.
LEMMA EmptyFacts ==
  Range(<<>>) = {} /\ IsInjective(<<>>)
  BY SMTT(20) DEF Range, IsInjective

-----------------------------------------------------------------------------
(* The entries                                                             *)

USE DEF Thread, EntryPc, CleanPc, WorkerPc, CleanerPc, MainPc,
        entryvars, bufvars, threadvars, sessionvars

\* A write into a buffer leaves contents, and whole contents if the buffer had
\* whole contents or all of it is overwritten.
LEMMA MergeType ==
  ASSUME NEW old \in Content, NEW upd \in Update
  PROVE  /\ Merge(old, upd) \in Content
         /\ old \in Whole => Merge(old, upd) \in Whole
         /\ DOMAIN upd = Part => Merge(old, upd) \in Whole
  BY SMTT(20) DEF Merge, Content, Whole, Update

\* The busy flag and the waiters count tell who works on an entry and who is
\* inside _entry_acquire().
LEMMA OwnershipStep ==
  ASSUME TypeOK, Ownership, EntriesLive, BufferPlaces, Next
  PROVE  Ownership'
<1> USE ThreadsDistinct, SpecialValues DEF Ownership, Holds, Wants, Goto
<1>t. /\ DOMAIN pc = Thread /\ DOMAIN cur = Thread /\ DOMAIN victim = Thread
      /\ busy \in [Chunk -> Thread \cup {None}]
      /\ waiters \in [Chunk -> SUBSET Thread]
      /\ \A t \in Thread :
           /\ pc[t] \in EntryPc \cup {"cwait", "chold", "cwrite"} => cur[t] \in Chunk
           /\ pc[t] \in {"evict", "steal"} => victim[t] \in Chunk
  BY DEF TypeOK
<1>1. ASSUME NEW t \in Worker, NEW c \in Chunk, NEW u \in Update, Request(t, c, u)
      PROVE  Ownership'
  BY <1>1, <1>t, SMTT(20) DEF Request
<1>2. ASSUME NEW t \in Worker, AwaitEntry(t) PROVE Ownership'
  BY <1>2, SMTT(20) DEF AwaitEntry
<1>3. ASSUME NEW t \in Worker, AcquireEntry(t) PROVE Ownership'
  BY <1>3, <1>t, SMTT(20) DEF AcquireEntry, NotBusy
<1>4. ASSUME NEW t \in Worker, Hit(t) PROVE Ownership'
  BY <1>4, <1>t, SMTT(20) DEF Hit
<1>5. ASSUME NEW t \in Worker, Allocate(t) PROVE Ownership'
  BY <1>5, <1>t, SMTT(20) DEF Allocate, AfterBuffer
<1>6. ASSUME NEW t \in Worker, AwaitBuffer(t) PROVE Ownership'
  BY <1>6, <1>t, SMTT(20) DEF AwaitBuffer, NeedsBuffer
<1>7. ASSUME NEW t \in Worker, Reclaim(t) PROVE Ownership'
  <2> DEFINE r == Head(reclaimable)
  <2>1. r \in Chunk /\ r \in Range(reclaimable)
    BY <1>7, HeadFacts DEF TypeOK, Reclaim
  <2>2. busy[r] = None
    BY <2>1 DEF EntriesLive
  <2>3. /\ busy' = [busy EXCEPT ![r] = t]
        /\ victim' = [victim EXCEPT ![t] = r]
        /\ pc' \in {[pc EXCEPT ![t] = "evict"], [pc EXCEPT ![t] = "steal"]}
        /\ pc[t] \in {"owned", "buffer"}
        /\ UNCHANGED <<waiters, cur>>
    BY <1>7 DEF Reclaim, NeedsBuffer
  <2> HIDE DEF r
  <2> QED BY <1>t, <2>1, <2>2, <2>3, SMTT(20)
<1>8. ASSUME NEW t \in Worker, EvictWrite(t) PROVE Ownership'
  BY <1>8, <1>t, SMTT(20) DEF EvictWrite
<1>9. ASSUME NEW t \in Worker, Steal(t) PROVE Ownership'
  BY <1>9, <1>t, SMTT(20) DEF BufferPlaces, BufferPlace, Steal, EntryRelease, AfterBuffer
<1>10. ASSUME NEW t \in Worker, Fill(t) PROVE Ownership'
  BY <1>10, <1>t, SMTT(20) DEF Fill
<1>11. ASSUME NEW t \in Worker, Refuse(t) PROVE Ownership'
  BY <1>11, <1>t, SMTT(20) DEF Refuse, EntryRelease, Reply
<1>12. ASSUME NEW t \in Worker, FinishRead(t) PROVE Ownership'
  BY <1>12, <1>t, SMTT(20) DEF FinishRead, EntryRelease, Reply
<1>13. ASSUME NEW t \in Worker, FinishWrite(t) PROVE Ownership'
  BY <1>13, <1>t, SMTT(20) DEF FinishWrite, EntryRelease, Reply
<1>14. ASSUME NEW t \in Worker, SyncRequest(t) PROVE Ownership'
  BY <1>14, <1>t, SMTT(20) DEF SyncRequest
<1>15. ASSUME NEW t \in Thread, CleanNext(t) PROVE Ownership'
  BY <1>15, <1>t, HeadFacts, SMTT(20) DEF TypeOK, CleanNext
<1>16. ASSUME NEW t \in Thread, CleanAwait(t) PROVE Ownership'
  BY <1>16, SMTT(30) DEF CleanAwait
<1>17. ASSUME NEW t \in Thread, CleanAcquire(t) PROVE Ownership'
  BY <1>17, <1>t, SMTT(20) DEF CleanAcquire, NotBusy
<1>18. ASSUME NEW t \in Thread, CleanSkip(t) PROVE Ownership'
  BY <1>18, <1>t, SMTT(20) DEF CleanSkip, EntryRelease
<1>19. ASSUME NEW t \in Thread, CleanBreak(t) PROVE Ownership'
  BY <1>19, <1>t, SMTT(20) DEF CleanBreak, EntryRelease
<1>20. ASSUME NEW t \in Thread, CleanStart(t) PROVE Ownership'
  BY <1>20, <1>t, SMTT(20) DEF CleanStart
<1>21. ASSUME NEW t \in Thread, CleanWrite(t) PROVE Ownership'
  BY <1>21, <1>t, SMTT(20) DEF CleanWrite, EntryRelease
<1>22. ASSUME NEW t \in Worker, SyncReturn(t) PROVE Ownership'
  BY <1>22, <1>t, SMTT(20) DEF SyncReturn
<1>23. CASE CleanerRest
  BY <1>23, <1>t, SMTT(20) DEF CleanerRest
<1>24. CASE CleanerWake
  BY <1>24, <1>t, SMTT(20) DEF CleanerWake
<1>25. CASE CleanerTimeout
  BY <1>25 DEF CleanerTimeout
<1>26. CASE StopCleaner
  <2>1. /\ pc[Main] = "serve" /\ DOMAIN pc = Thread
        /\ pc' = [pc EXCEPT ![Main] = "join"]
        /\ UNCHANGED <<busy, waiters, cur, victim>>
    BY <1>26, <1>t DEF StopCleaner
  <2> QED BY <2>1, SMTT(20)
<1>27. CASE JoinCleaner
  <2>1. /\ pc[Main] = "join" /\ DOMAIN pc = Thread
        /\ pc' = [pc EXCEPT ![Main] = "loop"]
        /\ UNCHANGED <<busy, waiters, cur, victim>>
    BY <1>27, <1>t DEF JoinCleaner
  <2> QED BY <2>1, SMTT(20)
<1>28. CASE FreeEntry
  BY <1>28, SMTT(20) DEF FreeEntry
<1>29. CASE ClearFlag
  BY <1>29, <1>t, SMTT(20) DEF ClearFlag
<1>30. ASSUME NEW i \in DOMAIN dirtyq, Expire(i) PROVE Ownership'
  BY <1>30, SMTT(30) DEF Expire
<1>31. ASSUME NEW t \in Thread, SpuriousWakeup(t) PROVE Ownership'
  BY <1>31, SMTT(20) DEF SpuriousWakeup
<1> HIDE DEF Ownership, Holds, Wants, Goto
<1>32. ASSUME NEW t \in Worker, EntryStep(t) PROVE Ownership'
  BY <1>32, <1>2, <1>3, <1>4, <1>5, <1>6, <1>7, <1>8, <1>9, <1>10, <1>11, <1>12,
     <1>13 DEF EntryStep
<1>33. ASSUME NEW t \in Thread, CleanStep(t) PROVE Ownership'
  BY <1>33, <1>15, <1>16, <1>17, <1>18, <1>19, <1>20, <1>21, <1>22
     DEF CleanStep, SyncReturn
<1> QED
  BY <1>1, <1>14, <1>23, <1>24, <1>25, <1>26, <1>27, <1>28, <1>29, <1>30, <1>31,
     <1>32, <1>33 DEF Next, CleanerStep, MainStep

\* _entry_release() keeps the entry tables consistent if the entry is held and
\* hasdata says whether it has a buffer.
LEMMA ReleaseKeepsEntries ==
  ASSUME TypeOK, EntriesLive, NEW c \in Chunk, busy[c] # None,
         NEW hasdata \in BOOLEAN, NEW also,
         EntryRelease(c, hasdata, also), waiters' = waiters,
         hasdata <=> data'[c] # None,
         \A d \in Chunk : data'[d] # None => d \in chunks,
         \A d \in Chunk : d \in Range(reclaimable) => data'[d] # None
  PROVE  EntriesLive'
<1>1. c \in chunks /\ c \notin Range(reclaimable)
  BY DEF EntriesLive
<1>2. busy' = [busy EXCEPT ![c] = None] /\ busy \in [Chunk -> Thread \cup {None}]
  BY DEF EntryRelease, TypeOK
<1>3. CASE waiters[c] # {}
  <2>1. UNCHANGED <<chunks, reclaimable>>
    BY <1>3 DEF EntryRelease, NoWaiters
  <2> QED BY <1>1, <1>2, <1>3, <2>1 DEF EntriesLive
<1>4. CASE waiters[c] = {} /\ ~hasdata
  <2>1. chunks' = chunks \ {c} /\ reclaimable' = reclaimable
    BY <1>4 DEF EntryRelease, NoWaiters
  <2> QED BY <1>1, <1>2, <1>4, <2>1 DEF EntriesLive
<1>5. CASE waiters[c] = {} /\ hasdata
  <2>1. reclaimable' = Append(reclaimable, c) /\ chunks' = chunks
    BY <1>5 DEF EntryRelease, NoWaiters
  <2>2. /\ Range(reclaimable') = Range(reclaimable) \cup {c}
        /\ IsInjective(reclaimable')
    <3>1. reclaimable \in Seq(Chunk) /\ IsInjective(reclaimable)
      BY DEF TypeOK, EntriesLive
    <3> QED BY <1>1, <2>1, <3>1, AppendFacts, SMTT(20)
  <2> QED BY <1>1, <1>2, <1>5, <2>1, <2>2 DEF EntriesLive
<1> QED BY <1>3, <1>4, <1>5

\* No entry is freed while it is in use, and the idle ones are reclaimable.
LEMMA EntriesLiveStep ==
  ASSUME TypeOK, Ownership, EntriesLive, DirtyTracked, BufferPlaces, Next
  PROVE  EntriesLive'
<1> USE ThreadsDistinct, SpecialValues DEF Goto
<1> DEFINE Frame == UNCHANGED <<chunks, busy, waiters, reclaimable, data>>
<1>f. ASSUME Frame PROVE EntriesLive'
  BY <1>f DEF EntriesLive
<1> HIDE DEF Frame
<1>t. /\ busy \in [Chunk -> Thread \cup {None}]
      /\ waiters \in [Chunk -> SUBSET Thread]
      /\ data \in [Chunk -> Content \cup {None}]
      /\ store \in [Chunk -> Content \cup {Bad}] /\ new \in [Thread -> Update]
      /\ reclaimable \in Seq(Chunk) /\ dirtyq \in Seq(Chunk)
      /\ \A t \in Thread :
           /\ pc[t] \in EntryPc \cup {"cwait", "chold", "cwrite"} => cur[t] \in Chunk
           /\ pc[t] \in {"evict", "steal"} => victim[t] \in Chunk
  BY DEF TypeOK
<1>i. IsInjective(reclaimable)
  BY DEF EntriesLive
<1>h. ASSUME NEW t \in Thread, NEW c \in Chunk, Holds(t, c)
      PROVE  busy[c] = t /\ busy[c] # None /\ c \in chunks /\ c \notin Range(reclaimable)
  BY <1>h DEF Ownership, EntriesLive
<1>1. ASSUME NEW t \in Worker, NEW c \in Chunk, NEW u \in Update, Request(t, c, u)
      PROVE  EntriesLive'
  <2>1. /\ Range(reclaimable') = Range(reclaimable) \ {c}
        /\ IsInjective(reclaimable')
    BY <1>1, <1>t, <1>i, UnlinkedFacts DEF Request
  <2>2. /\ chunks' = chunks \cup {c}
        /\ waiters' = [waiters EXCEPT ![c] = @ \cup {t}]
        /\ UNCHANGED <<busy, data>>
    BY <1>1 DEF Request
  <2> QED BY <1>t, <2>1, <2>2 DEF EntriesLive
<1>2. ASSUME NEW t \in Worker, AwaitEntry(t) PROVE EntriesLive'
  BY <1>2, <1>f DEF AwaitEntry, Frame
<1>3. ASSUME NEW t \in Thread, AcquireEntry(t) \/ CleanAcquire(t) PROVE EntriesLive'
  <2>1. cur[t] \in Chunk /\ t \in waiters[cur[t]]
    BY <1>3, <1>t DEF AcquireEntry, CleanAcquire, Ownership, Wants
  <2>2. /\ busy' = [busy EXCEPT ![cur[t]] = t]
        /\ waiters' = [waiters EXCEPT ![cur[t]] = @ \ {t}]
        /\ UNCHANGED <<chunks, reclaimable, data>>
    BY <1>3 DEF AcquireEntry, CleanAcquire
  <2> QED BY <1>t, <2>1, <2>2 DEF EntriesLive
<1>4. ASSUME NEW t \in Worker, Hit(t) PROVE EntriesLive'
  BY <1>4, <1>f DEF Hit, Frame
<1>5. ASSUME NEW t \in Worker, Allocate(t) PROVE EntriesLive'
  <2>1. cur[t] \in Chunk /\ Holds(t, cur[t])
    BY <1>5, <1>t DEF Allocate, Holds
  <2>2. /\ data' = [data EXCEPT ![cur[t]] = [p \in Part |-> Junk]]
        /\ UNCHANGED <<chunks, busy, waiters, reclaimable>>
    BY <1>5 DEF Allocate
  <2> QED BY <1>h, <1>t, <2>1, <2>2, SMTT(20) DEF EntriesLive
<1>6. ASSUME NEW t \in Worker, AwaitBuffer(t) PROVE EntriesLive'
  BY <1>6, <1>f DEF AwaitBuffer, Frame
<1>7. ASSUME NEW t \in Worker, Reclaim(t) PROVE EntriesLive'
  <2> DEFINE r == Head(reclaimable)
  <2>1. r \in Chunk /\ r \in Range(reclaimable)
    BY <1>7, <1>t, HeadFacts DEF Reclaim
  <2>2. /\ Range(reclaimable') = Range(reclaimable) \ {r}
        /\ IsInjective(reclaimable')
    BY <1>7, <1>t, <1>i, UnlinkedFacts DEF Reclaim
  <2>3. busy' = [busy EXCEPT ![r] = t] /\ UNCHANGED <<chunks, waiters, data>>
    BY <1>7 DEF Reclaim
  <2> HIDE DEF r
  <2> QED BY <1>t, <2>1, <2>2, <2>3 DEF EntriesLive
<1>8. ASSUME NEW t \in Worker, EvictWrite(t) PROVE EntriesLive'
  BY <1>8, <1>f DEF EvictWrite, Frame
<1>9. ASSUME NEW t \in Worker, Steal(t) PROVE EntriesLive'
  <2>1. /\ cur[t] \in Chunk /\ Holds(t, cur[t])
        /\ victim[t] \in Chunk /\ Holds(t, victim[t])
        /\ cur[t] # victim[t]
    BY <1>9, <1>t DEF Steal, Holds, BufferPlaces, BufferPlace
  <2>2. data' = [data EXCEPT ![cur[t]] = data[victim[t]], ![victim[t]] = None]
    BY <1>9 DEF Steal, BuffersMoved
  <2>3. /\ data'[victim[t]] = None
        /\ \A d \in Chunk : data'[d] # None => d \in chunks
        /\ \A d \in Chunk : d \in Range(reclaimable) => data'[d] # None
    BY <1>h, <1>t, <2>1, <2>2, SMTT(20) DEF EntriesLive
  <2>5. EntryRelease(victim[t], FALSE, {}) /\ waiters' = waiters
    BY <1>9 DEF Steal
  <2> QED BY <1>h, <2>1, <2>3, <2>5, ReleaseKeepsEntries
<1>10. ASSUME NEW t \in Worker, Fill(t) PROVE EntriesLive'
  <2>1. cur[t] \in Chunk /\ Holds(t, cur[t]) /\ data[cur[t]] # None
    BY <1>10, <1>t DEF Fill, Holds, BufferPlaces, BufferPlace
  <2>2. /\ data' = data \/ (/\ data' = [data EXCEPT ![cur[t]] = store[cur[t]]]
                            /\ store[cur[t]] # Bad)
        /\ UNCHANGED <<chunks, busy, waiters, reclaimable>>
    BY <1>10 DEF Fill, CacheGet
  <2>3. store[cur[t]] # Bad => store[cur[t]] # None
    BY <2>1, <1>t
  <2>4. \A d \in Chunk : data'[d] = None <=> data[d] = None
    BY <1>t, <2>1, <2>2, <2>3
  <2> QED BY <2>2, <2>4 DEF EntriesLive
<1>11. ASSUME NEW t \in Worker, Refuse(t) \/ FinishRead(t) PROVE EntriesLive'
  <2>1. cur[t] \in Chunk /\ Holds(t, cur[t]) /\ data[cur[t]] # None
    BY <1>11, <1>t DEF Refuse, FinishRead, Holds, BufferPlaces, BufferPlace
  <2>2. EntryRelease(cur[t], TRUE, {}) /\ UNCHANGED <<waiters, data>>
    BY <1>11 DEF Refuse, FinishRead
  <2>3. /\ \A d \in Chunk : data'[d] # None => d \in chunks
        /\ \A d \in Chunk : d \in Range(reclaimable) => data'[d] # None
    BY <2>2 DEF EntriesLive
  <2> QED BY <1>h, <2>1, <2>2, <2>3, ReleaseKeepsEntries
<1>13. ASSUME NEW t \in Worker, FinishWrite(t) PROVE EntriesLive'
  <2>1. cur[t] \in Chunk /\ Holds(t, cur[t]) /\ data[cur[t]] # None
    BY <1>13, <1>t DEF FinishWrite, Holds, BufferPlaces, BufferPlace
  <2>2. PICK also : EntryRelease(cur[t], TRUE, also)
    BY <1>13 DEF FinishWrite
  <2>3. data' = [data EXCEPT ![cur[t]] = Merge(data[cur[t]], new[t])] /\ waiters' = waiters
    BY <1>13 DEF FinishWrite
  <2>4. Merge(data[cur[t]], new[t]) # None
    BY <2>1, <1>t, MergeType, SMTT(20)
  <2>5. /\ data'[cur[t]] # None
        /\ \A d \in Chunk : data'[d] # None => d \in chunks
        /\ \A d \in Chunk : d \in Range(reclaimable) => data'[d] # None
    BY <1>t, <1>h, <2>1, <2>3, <2>4, SMTT(20) DEF EntriesLive
  <2> QED BY <1>h, <2>1, <2>2, <2>3, <2>5, ReleaseKeepsEntries
<1>14. ASSUME NEW t \in Worker, SyncRequest(t) PROVE EntriesLive'
  BY <1>14, <1>f DEF SyncRequest, Frame
<1>15. ASSUME NEW t \in Thread, CleanNext(t) PROVE EntriesLive'
  <2> DEFINE h == Head(dirtyq)
  <2>1. h \in Chunk /\ h \in Range(dirtyq)
    BY <1>15, <1>t, HeadFacts DEF CleanNext
  <2>2. h \in chunks
    BY <2>1 DEF DirtyTracked, EntriesLive
  <2>3. /\ Range(reclaimable') = Range(reclaimable) \ {h}
        /\ IsInjective(reclaimable')
    BY <1>15, <1>t, <1>i, UnlinkedFacts DEF CleanNext
  <2>4. /\ waiters' = [waiters EXCEPT ![h] = @ \cup {t}]
        /\ UNCHANGED <<chunks, busy, data>>
    BY <1>15 DEF CleanNext
  <2> HIDE DEF h
  <2> QED BY <1>t, <2>1, <2>2, <2>3, <2>4 DEF EntriesLive
<1>16. ASSUME NEW t \in Thread, CleanAwait(t) PROVE EntriesLive'
  BY <1>16, <1>f DEF CleanAwait, Frame
<1>18. ASSUME NEW t \in Thread, CleanSkip(t) \/ CleanBreak(t) \/ CleanWrite(t)
       PROVE  EntriesLive'
  <2>1. cur[t] \in Chunk /\ Holds(t, cur[t])
    BY <1>18, <1>t DEF CleanSkip, CleanBreak, CleanWrite, Holds
  <2>2. /\ EntryRelease(cur[t], data[cur[t]] # None, {})
        /\ UNCHANGED <<waiters, data>>
    BY <1>18 DEF CleanSkip, CleanBreak, CleanWrite
  <2>3. /\ \A d \in Chunk : data'[d] # None => d \in chunks
        /\ \A d \in Chunk : d \in Range(reclaimable) => data'[d] # None
    BY <2>2 DEF EntriesLive
  <2> QED BY <1>h, <2>1, <2>2, <2>3, ReleaseKeepsEntries
<1>20. ASSUME NEW t \in Thread, CleanStart(t) PROVE EntriesLive'
  BY <1>20, <1>f DEF CleanStart, Frame
<1>22. ASSUME NEW t \in Worker, SyncReturn(t) PROVE EntriesLive'
  BY <1>22, <1>f DEF SyncReturn, Frame
<1>23. CASE CleanerRest \/ CleanerWake \/ CleanerTimeout
  BY <1>23, <1>f DEF CleanerRest, CleanerWake, CleanerTimeout, Frame
<1>26. CASE StopCleaner \/ JoinCleaner \/ ClearFlag
  BY <1>26, <1>f DEF StopCleaner, JoinCleaner, ClearFlag, Frame
<1>28. CASE FreeEntry
  <2> DEFINE c == Head(reclaimable)
  <2>1. c \in Chunk /\ c \in Range(reclaimable)
    BY <1>28, <1>t, HeadFacts DEF FreeEntry
  <2>2. /\ Range(reclaimable') = Range(reclaimable) \ {c}
        /\ IsInjective(reclaimable')
    BY <1>28, <1>t, <1>i, UnlinkedFacts DEF FreeEntry
  <2>3. /\ data' = [data EXCEPT ![c] = None]
        /\ chunks' = chunks \ {c}
        /\ UNCHANGED <<busy, waiters>>
    BY <1>28 DEF FreeEntry
  <2> HIDE DEF c
  <2> QED BY <1>t, <2>1, <2>2, <2>3 DEF EntriesLive
<1>30. ASSUME NEW i \in DOMAIN dirtyq, Expire(i) PROVE EntriesLive'
  BY <1>30, <1>f DEF Expire, Frame
<1>31. ASSUME NEW t \in Thread, SpuriousWakeup(t) PROVE EntriesLive'
  BY <1>31, <1>f DEF SpuriousWakeup, Frame
<1> QED
  BY <1>1, <1>2, <1>3, <1>4, <1>5, <1>6, <1>7, <1>8, <1>9, <1>10, <1>11,
     <1>13, <1>14, <1>15, <1>16, <1>18, <1>20, <1>22, <1>23, <1>26, <1>28,
     <1>30, <1>31
     DEF Next, EntryStep, CleanStep, CleanerStep, MainStep, SyncReturn

-----------------------------------------------------------------------------

\* What the threads other than t are doing does not change.
OthersStay(t) ==
  \A u \in Thread \ {t} :
    /\ pc'[u] = pc[u]
    /\ cur'[u] = cur[u]
    /\ victim'[u] = victim[u]
    /\ new'[u] = new[u]

\* A step of one thread does not move another.
LEMMA StepOfOne ==
  ASSUME TypeOK, NEW t \in Thread,
         \/ \E c \in Chunk, u \in Update : Request(t, c, u)
         \/ SyncRequest(t) \/ EntryStep(t) \/ CleanStep(t)
         \/ t = Cleaner /\ (CleanerRest \/ CleanerWake)
         \/ t = Main /\ (StopCleaner \/ JoinCleaner \/ ClearFlag)
  PROVE  OthersStay(t)
<1> USE DEF OthersStay, Goto, Reply
<1>t. /\ DOMAIN pc = Thread /\ DOMAIN cur = Thread
      /\ DOMAIN victim = Thread /\ DOMAIN new = Thread
  BY DEF TypeOK
<1>1. CASE \E c \in Chunk, u \in Update : Request(t, c, u)
  BY <1>1, <1>t DEF Request
<1>2. CASE SyncRequest(t)
  BY <1>2, <1>t DEF SyncRequest
<1>3. CASE EntryStep(t)
  BY <1>3, <1>t DEF EntryStep, AwaitEntry, AcquireEntry, Hit, Allocate,
     AwaitBuffer, Reclaim, EvictWrite, Steal, Fill, Refuse, FinishRead,
     FinishWrite
<1>4. CASE CleanStep(t)
  BY <1>4, <1>t DEF CleanStep, CleanNext, CleanAwait, CleanAcquire,
     CleanSkip, CleanBreak, CleanStart, CleanWrite, SyncReturn
<1>5. CASE t = Cleaner /\ (CleanerRest \/ CleanerWake)
  BY <1>5, <1>t DEF CleanerRest, CleanerWake
<1>6. CASE t = Main /\ (StopCleaner \/ JoinCleaner \/ ClearFlag)
  BY <1>6, <1>t DEF StopCleaner, JoinCleaner, ClearFlag
<1> QED BY <1>1, <1>2, <1>3, <1>4, <1>5, <1>6

\* The busy flag is exclusive.
LEMMA HeldByOne ==
  ASSUME Ownership, NEW c \in Chunk, NEW t \in Thread, NEW u \in Thread,
         Holds(t, c), Holds(u, c)
  PROVE  t = u
  BY SMTT(20) DEF Ownership

\* entry_acquire() finds a buffer where it left one.
LEMMA BufferPlacesStep ==
  ASSUME TypeOK, Ownership, EntriesLive, DirtyTracked, BufferPlaces, Next
  PROVE  BufferPlaces'
<1> USE ThreadsDistinct, SpecialValues DEF Goto
<1> DEFINE Same(c) == /\ data'[c] = None <=> data[c] = None
                      /\ dirty[c] = "clean" => dirty'[c] = "clean"
<1>o. ASSUME NEW t \in Thread, OthersStay(t),
             \A c \in Chunk : Same(c) \/ Holds(t, c),
             BufferPlace(t)'
      PROVE  BufferPlaces'
  <2> SUFFICES ASSUME NEW u \in Thread \ {t} PROVE BufferPlace(u)'
    BY <1>o DEF BufferPlaces
  <2>1. \A c \in Chunk : Holds(u, c) => Same(c)
    BY <1>o, HeldByOne
  <2>2. /\ pc'[u] = pc[u] /\ cur'[u] = cur[u] /\ victim'[u] = victim[u]
        /\ BufferPlace(u)
    BY <1>o DEF OthersStay, BufferPlaces
  <2>3. /\ pc[u] \in {"fill", "have", "buffer", "evict", "steal"} =>
             cur[u] \in Chunk /\ Same(cur[u])
        /\ pc[u] \in {"evict", "steal"} => victim[u] \in Chunk /\ Same(victim[u])
    BY <2>1 DEF TypeOK, Holds
  <2> QED BY <2>2, <2>3 DEF BufferPlace
<1>s. ASSUME NEW t \in Thread, OthersStay(t), UNCHANGED <<data, dirty>>,
             BufferPlace(t)'
      PROVE  BufferPlaces'
  BY <1>s, <1>o
<1>n. ASSUME UNCHANGED <<pc, cur, victim>>, \A c \in Chunk : Same(c) \/ busy[c] = None
      PROVE  BufferPlaces'
  <2> SUFFICES ASSUME NEW u \in Thread PROVE BufferPlace(u)'
    BY DEF BufferPlaces
  <2>1. \A c \in Chunk : Holds(u, c) => Same(c)
    BY <1>n DEF Ownership
  <2>2. /\ pc[u] \in {"fill", "have", "buffer", "evict", "steal"} =>
             cur[u] \in Chunk /\ Same(cur[u])
        /\ pc[u] \in {"evict", "steal"} => victim[u] \in Chunk /\ Same(victim[u])
    BY <2>1 DEF TypeOK, Holds
  <2> QED BY <1>n, <2>2 DEF BufferPlace, BufferPlaces
<1> HIDE DEF Same
<1>t. /\ pc \in [Thread -> WorkerPc \cup CleanerPc \cup MainPc]
      /\ data \in [Chunk -> Content \cup {None}]
      /\ dirty \in [Chunk -> {"clean", "fresh", "ripe"}]
      /\ DOMAIN victim = Thread
      /\ store \in [Chunk -> Content \cup {Bad}] /\ reclaimable \in Seq(Chunk)
      /\ \A t \in Thread :
           /\ pc[t] \in EntryPc \cup {"cwait", "chold", "cwrite"} => cur[t] \in Chunk
           /\ pc[t] \in {"evict", "steal"} => victim[t] \in Chunk
  BY DEF TypeOK
<1>1. ASSUME NEW t \in Worker, NEW c \in Chunk, NEW u \in Update, Request(t, c, u)
      PROVE  BufferPlaces'
  <2>1. pc'[t] = "entry" /\ UNCHANGED <<data, dirty>>
    BY <1>1, <1>t DEF Request
  <2> QED BY <1>1, <1>s, <2>1, StepOfOne DEF BufferPlace
<1>2. ASSUME NEW t \in Worker, AwaitEntry(t) \/ AcquireEntry(t) PROVE BufferPlaces'
  <2>1. pc'[t] \in {"entry", "owned"} /\ UNCHANGED <<data, dirty>>
    BY <1>2, <1>t DEF AwaitEntry, AcquireEntry
  <2> QED BY <1>2, <1>s, <2>1, StepOfOne DEF BufferPlace, EntryStep
<1>4. ASSUME NEW t \in Worker, Hit(t) PROVE BufferPlaces'
  <2>1. /\ pc'[t] = "have" /\ data[cur[t]] # None
        /\ UNCHANGED <<data, dirty, cur>>
    BY <1>4, <1>t DEF Hit
  <2> QED BY <1>4, <1>s, <2>1, StepOfOne DEF BufferPlace, EntryStep
<1>5. ASSUME NEW t \in Worker, Allocate(t) PROVE BufferPlaces'
  <2>1. cur[t] \in Chunk /\ Holds(t, cur[t]) /\ dirty[cur[t]] = "clean"
    BY <1>5, <1>t DEF Allocate, Holds, DirtyTracked
  <2>2. /\ data' = [data EXCEPT ![cur[t]] = [p \in Part |-> Junk]]
        /\ pc'[t] \in {"fill", "have"} /\ UNCHANGED <<dirty, cur>>
    BY <1>5, <1>t DEF Allocate, AfterBuffer
  <2>3. [p \in Part |-> Junk] # None
    BY DEF Content
  <2>4. BufferPlace(t)'
    BY <1>t, <2>1, <2>2, <2>3 DEF BufferPlace
  <2>5. \A c \in Chunk : Same(c) \/ Holds(t, c)
    BY <1>t, <2>1, <2>2 DEF Same
  <2> QED BY <1>5, <1>o, <2>4, <2>5, StepOfOne DEF EntryStep
<1>6. ASSUME NEW t \in Worker, AwaitBuffer(t) PROVE BufferPlaces'
  <2>1. /\ pc'[t] = "buffer" /\ data[cur[t]] = None
        /\ UNCHANGED <<data, dirty, cur>>
    BY <1>6, <1>t DEF AwaitBuffer, NeedsBuffer
  <2> QED BY <1>6, <1>s, <2>1, StepOfOne DEF BufferPlace, EntryStep
<1>7. ASSUME NEW t \in Worker, Reclaim(t) PROVE BufferPlaces'
  <2> DEFINE r == Head(reclaimable)
  <2>1. r \in Chunk /\ r \in Range(reclaimable)
    BY <1>7, <1>t, HeadFacts DEF Reclaim
  <2>2. data[r] # None
    BY <2>1 DEF EntriesLive
  <2>3. /\ victim'[t] = r /\ data[cur[t]] = None
        /\ pc'[t] = "evict" \/ (pc'[t] = "steal" /\ dirty[r] = "clean")
        /\ UNCHANGED <<data, dirty, cur>>
    BY <1>7, <1>t DEF Reclaim, NeedsBuffer, MustClean
  <2> HIDE DEF r
  <2> QED BY <1>7, <1>s, <2>2, <2>3, StepOfOne DEF BufferPlace, EntryStep
<1>8. ASSUME NEW t \in Worker, EvictWrite(t) PROVE BufferPlaces'
  <2>1. /\ cur[t] \in Chunk /\ data[cur[t]] = None
        /\ victim[t] \in Chunk /\ Holds(t, victim[t])
        /\ Writing(t, victim[t])
    BY <1>8, <1>t DEF EvictWrite, Holds, BufferPlaces, BufferPlace, Writing
  <2>2. data[victim[t]] # None
    BY <2>1 DEF DirtyTracked
  <2>3. /\ dirty' = [dirty EXCEPT ![victim[t]] = "clean"]
        /\ pc'[t] = "steal" /\ UNCHANGED <<data, cur, victim>>
    BY <1>8, <1>t DEF EvictWrite
  <2>4. BufferPlace(t)'
    BY <1>t, <2>1, <2>2, <2>3 DEF BufferPlace
  <2>5. \A c \in Chunk : Same(c) \/ Holds(t, c)
    BY <1>t, <2>1, <2>3 DEF Same
  <2> QED BY <1>8, <1>o, <2>4, <2>5, StepOfOne DEF EntryStep
<1>9. ASSUME NEW t \in Worker, Steal(t) PROVE BufferPlaces'
  <2>1. /\ cur[t] \in Chunk /\ Holds(t, cur[t]) /\ data[cur[t]] = None
        /\ victim[t] \in Chunk /\ Holds(t, victim[t]) /\ data[victim[t]] # None
    BY <1>9, <1>t DEF Steal, Holds, BufferPlaces, BufferPlace
  <2>2. dirty[cur[t]] = "clean"
    BY <2>1 DEF DirtyTracked
  <2>3. /\ data' = [data EXCEPT ![cur[t]] = data[victim[t]], ![victim[t]] = None]
        /\ pc'[t] \in {"fill", "have"} /\ UNCHANGED <<dirty, cur>>
    BY <1>9, <1>t DEF Steal, BuffersMoved, AfterBuffer
  <2>4. BufferPlace(t)'
    BY <1>t, <2>1, <2>2, <2>3 DEF BufferPlace
  <2>5. \A c \in Chunk : Same(c) \/ Holds(t, c)
    BY <1>t, <2>1, <2>3 DEF Same
  <2> QED BY <1>9, <1>o, <2>4, <2>5, StepOfOne DEF EntryStep
<1>10. ASSUME NEW t \in Worker, Fill(t) PROVE BufferPlaces'
  <2>1. cur[t] \in Chunk /\ Holds(t, cur[t]) /\ data[cur[t]] # None
    BY <1>10, <1>t DEF Fill, Holds, BufferPlaces, BufferPlace
  <2>2. /\ data' = data \/ (/\ data' = [data EXCEPT ![cur[t]] = store[cur[t]]]
                            /\ store[cur[t]] # Bad)
        /\ pc'[t] = "have" /\ UNCHANGED <<dirty, cur>>
    BY <1>10, <1>t DEF Fill, CacheGet
  <2>3. store[cur[t]] # Bad => store[cur[t]] # None
    BY <2>1, <1>t
  <2>4. BufferPlace(t)'
    BY <1>t, <2>1, <2>2, <2>3 DEF BufferPlace
  <2>5. \A c \in Chunk : Same(c) \/ Holds(t, c)
    BY <1>t, <2>1, <2>2 DEF Same
  <2> QED BY <1>10, <1>o, <2>4, <2>5, StepOfOne DEF EntryStep
<1>11. ASSUME NEW t \in Worker, Refuse(t) \/ FinishRead(t) PROVE BufferPlaces'
  <2>1. pc'[t] = "idle" /\ UNCHANGED <<data, dirty>>
    BY <1>11, <1>t DEF Refuse, FinishRead, Reply
  <2> QED BY <1>11, <1>s, <2>1, StepOfOne DEF BufferPlace, EntryStep
<1>13. ASSUME NEW t \in Worker, FinishWrite(t) PROVE BufferPlaces'
  <2>1. cur[t] \in Chunk /\ Holds(t, cur[t])
    BY <1>13, <1>t DEF FinishWrite, Holds
  <2>2. /\ data' = [data EXCEPT ![cur[t]] = Merge(data[cur[t]], new[t])]
        /\ dirty' = dirty \/ dirty' = [dirty EXCEPT ![cur[t]] = "fresh"]
        /\ pc'[t] = "idle"
    BY <1>13, <1>t DEF FinishWrite, Reply
  <2>3. \A c \in Chunk : Same(c) \/ Holds(t, c)
    BY <1>t, <2>1, <2>2 DEF Same
  <2> QED BY <1>13, <1>o, <2>2, <2>3, StepOfOne DEF EntryStep, BufferPlace
<1>14. ASSUME NEW t \in Worker, SyncRequest(t) PROVE BufferPlaces'
  <2>1. pc'[t] = "loop" /\ UNCHANGED <<data, dirty>>
    BY <1>14, <1>t DEF SyncRequest
  <2> QED BY <1>14, <1>s, <2>1, StepOfOne DEF BufferPlace
<1>15. ASSUME NEW t \in Thread, \/ CleanNext(t) \/ CleanAwait(t) \/ CleanAcquire(t)
                                \/ CleanSkip(t) \/ CleanBreak(t) \/ CleanStart(t)
                                \/ SyncReturn(t)
       PROVE  BufferPlaces'
  <2>1. /\ pc'[t] \in {"cwait", "chold", "loop", "rest", "cwrite", "idle"}
        /\ UNCHANGED <<data, dirty>>
    BY <1>15, <1>t DEF CleanNext, CleanAwait, CleanAcquire, CleanSkip,
       CleanBreak, CleanStart, SyncReturn
  <2> QED BY <1>15, <1>s, <2>1, StepOfOne DEF BufferPlace, CleanStep
<1>21. ASSUME NEW t \in Thread, CleanWrite(t) PROVE BufferPlaces'
  <2>1. /\ pc'[t] = "loop" /\ data' = data
        /\ dirty' = [dirty EXCEPT ![cur[t]] = "clean"]
    BY <1>21, <1>t DEF CleanWrite
  <2>2. \A c \in Chunk : Same(c)
    BY <1>t, <2>1 DEF Same
  <2> QED BY <1>21, <1>o, <2>1, <2>2, StepOfOne DEF BufferPlace, CleanStep
<1>23. CASE CleanerRest \/ CleanerWake
  <2>1. pc'[Cleaner] \in {"sleep", "nap", "exit", "loop"} /\ UNCHANGED <<data, dirty>>
    BY <1>23, <1>t DEF CleanerRest, CleanerWake
  <2> QED BY <1>23, <1>s, <2>1, StepOfOne DEF BufferPlace
<1>26. CASE StopCleaner \/ JoinCleaner \/ ClearFlag
  <2>1. pc'[Main] \in {"join", "loop", "done"} /\ UNCHANGED <<data, dirty>>
    BY <1>26, <1>t DEF StopCleaner, JoinCleaner, ClearFlag
  <2> QED BY <1>26, <1>s, <2>1, StepOfOne DEF BufferPlace
<1>28. CASE FreeEntry
  <2> DEFINE c == Head(reclaimable)
  <2>1. c \in Chunk /\ c \in Range(reclaimable)
    BY <1>28, <1>t, HeadFacts DEF FreeEntry
  <2>2. busy[c] = None
    BY <2>1 DEF EntriesLive
  <2>3. data' = [data EXCEPT ![c] = None] /\ UNCHANGED <<dirty, pc, cur, victim>>
    BY <1>28 DEF FreeEntry
  <2> HIDE DEF c
  <2>4. \A d \in Chunk : Same(d) \/ busy[d] = None
    BY <1>t, <2>1, <2>2, <2>3 DEF Same
  <2> QED BY <1>n, <2>3, <2>4
<1>30. ASSUME NEW i \in DOMAIN dirtyq, Expire(i) PROVE BufferPlaces'
  <2>1. /\ dirty' = [dirty EXCEPT ![dirtyq[i]] = "ripe"] /\ dirty[dirtyq[i]] = "fresh"
        /\ UNCHANGED <<data, pc, cur, victim>>
    BY <1>30 DEF Expire
  <2>2. \A c \in Chunk : Same(c)
    BY <1>t, <2>1 DEF Same
  <2> QED BY <1>n, <2>1, <2>2
<1>31. ASSUME NEW t \in Thread, SpuriousWakeup(t) \/ CleanerTimeout PROVE BufferPlaces'
  <2>1. UNCHANGED <<data, dirty, pc, cur, victim>>
    BY <1>31 DEF SpuriousWakeup, CleanerTimeout
  <2> QED BY <1>n, <2>1 DEF Same
<1> QED
  BY <1>1, <1>2, <1>4, <1>5, <1>6, <1>7, <1>8, <1>9, <1>10, <1>11, <1>13,
     <1>14, <1>15, <1>21, <1>23, <1>26, <1>28, <1>30, <1>31
     DEF Next, EntryStep, CleanStep, CleanerStep, MainStep, SyncReturn

-----------------------------------------------------------------------------
(* The contents of entries                                                 *)

\* Once the other threads have stopped, an empty dirty queue means that no
\* entry is dirty.
LEMMA QueueDrained ==
  ASSUME DirtyTracked, Phases, pc[Main] \in {"loop", "done"}, dirtyq = <<>>
  PROVE  \A c \in Chunk : dirty[c] = "clean"
<1>1. \A u \in Thread : pc[u] \in {"idle", "exit", "loop", "done"}
  BY DEF Phases
<1> QED BY <1>1, EmptyFacts DEF DirtyTracked, Writing

\* An entry is dirty while it is queued or being written back.
LEMMA DirtyTrackedStep ==
  ASSUME TypeOK, Ownership, EntriesLive, DirtyTracked, BufferPlaces, Phases, Next
  PROVE  DirtyTracked'
<1> USE ThreadsDistinct, SpecialValues DEF Goto
<1> DEFINE Kept == \A c \in Chunk : dirty[c] # "clean" => data'[c] # None /\ ~error'[c]
           Tracked(c) ==
             /\ dirty[c] # "clean" <=>
                  c \in Range(dirtyq) \/ \E t \in Thread : Writing(t, c)
             /\ \A t \in Thread : Writing(t, c) => c \notin Range(dirtyq)
             /\ dirty[c] # "clean" => data[c] # None /\ ~error[c]
           SameWriters == \A u \in Thread, c \in Chunk : Writing(u, c)' <=> Writing(u, c)
<1>f. ASSUME SameWriters, Kept, UNCHANGED <<dirty, dirtyq>> PROVE DirtyTracked'
  BY <1>f DEF DirtyTracked
<1>w. ASSUME NEW t \in Thread, OthersStay(t),
             pc[t] \notin {"cwrite", "evict"}, pc'[t] \notin {"cwrite", "evict"}
      PROVE  SameWriters
  BY <1>w DEF OthersStay, Writing
<1>n. ASSUME UNCHANGED <<pc, cur, victim>> PROVE SameWriters
  BY <1>n DEF Writing
<1>k. ASSUME UNCHANGED <<data, error>> PROVE Kept
  BY <1>k DEF DirtyTracked
<1>t. /\ pc \in [Thread -> WorkerPc \cup CleanerPc \cup MainPc]
      /\ data \in [Chunk -> Content \cup {None}]
      /\ dirty \in [Chunk -> {"clean", "fresh", "ripe"}]
      /\ error \in [Chunk -> BOOLEAN]
      /\ dirtyq \in Seq(Chunk)
  BY DEF TypeOK
<1>d. /\ DirtyTracked <=> IsInjective(dirtyq) /\ \A c \in Chunk : Tracked(c)
      /\ DirtyTracked' <=> IsInjective(dirtyq') /\ \A c \in Chunk : Tracked(c)'
  BY DEF DirtyTracked
<1> HIDE DEF Kept, SameWriters, Tracked
\* t writes c back: it is the only one, and c is not queued.
<1>u. ASSUME NEW t \in Thread, NEW c \in Chunk, Writing(t, c)
      PROVE  /\ Holds(t, c) /\ dirty[c] # "clean" /\ c \notin Range(dirtyq)
             /\ \A u \in Thread : Writing(u, c) => u = t
  <2>1. \A u \in Thread : Writing(u, c) => Holds(u, c)
    BY DEF Writing, Holds
  <2> QED BY <1>u, <2>1, HeldByOne DEF DirtyTracked
<1>1. ASSUME NEW t \in Worker, NEW c \in Chunk, NEW u \in Update, Request(t, c, u)
      PROVE  DirtyTracked'
  <2>1. /\ pc[t] = "idle" /\ pc'[t] = "entry" /\ UNCHANGED <<data, dirty, dirtyq>>
        /\ error' = error \/ error' = [error EXCEPT ![c] = FALSE]
    BY <1>1, <1>t DEF Request
  <2>2. Kept
    BY <1>t, <2>1 DEF Kept, DirtyTracked
  <2> QED BY <1>1, <1>f, <1>w, <2>1, <2>2, StepOfOne
<1>2. ASSUME NEW t \in Worker, \/ AwaitEntry(t) \/ AcquireEntry(t) \/ Hit(t)
                               \/ AwaitBuffer(t) \/ Refuse(t) \/ FinishRead(t)
                               \/ SyncRequest(t)
      PROVE  DirtyTracked'
  <2>1. /\ pc[t] \in {"idle", "entry", "owned", "buffer", "have"}
        /\ pc'[t] \in {"idle", "entry", "owned", "buffer", "have", "loop"}
        /\ UNCHANGED <<data, error, dirty, dirtyq>>
    BY <1>2, <1>t DEF AwaitEntry, AcquireEntry, Hit, AwaitBuffer, NeedsBuffer,
       Refuse, FinishRead, SyncRequest, Reply
  <2> QED BY <1>2, <1>f, <1>w, <1>k, <2>1, StepOfOne DEF EntryStep
<1>5. ASSUME NEW t \in Worker, Allocate(t) PROVE DirtyTracked'
  <2>1. /\ pc[t] = "owned" /\ pc'[t] \in {"fill", "have"}
        /\ data' = [data EXCEPT ![cur[t]] = [p \in Part |-> Junk]]
        /\ UNCHANGED <<error, dirty, dirtyq>>
    BY <1>5, <1>t DEF Allocate, AfterBuffer
  <2>2. [p \in Part |-> Junk] # None
    BY DEF Content
  <2>3. Kept
    BY <1>t, <2>1, <2>2 DEF Kept, DirtyTracked
  <2> QED BY <1>5, <1>f, <1>w, <2>1, <2>3, StepOfOne DEF EntryStep
<1>7. ASSUME NEW t \in Worker, Reclaim(t) PROVE DirtyTracked'
  <2>1. PICK r \in Chunk : r = Head(reclaimable) /\ busy[r] = None
    BY <1>7, HeadFacts DEF TypeOK, Reclaim, EntriesLive
  <2>2. \A u \in Thread : ~Writing(u, r)
    BY <2>1 DEF Ownership, Holds, Writing
  <2>3. /\ pc[t] \in {"owned", "buffer"} /\ UNCHANGED <<data, error, dirty>>
        /\ victim'[t] = r
    BY <1>7, <2>1 DEF Reclaim, NeedsBuffer, TypeOK
  <2>4. OthersStay(t)
    BY <1>7, StepOfOne DEF EntryStep
  <2>5. CASE dirty[r] = "clean"
    <3>1. pc'[t] = "steal" /\ dirtyq' = dirtyq
      BY <1>7, <1>t, <2>1, <2>5 DEF Reclaim, MustClean
    <3> QED BY <1>f, <1>w, <1>k, <2>3, <2>4, <3>1
  <2>6. CASE dirty[r] # "clean"
    <3>1. pc'[t] = "evict" /\ dirtyq' = Unlinked(dirtyq, r)
      BY <1>7, <1>t, <2>1, <2>6 DEF Reclaim, MustClean, DirtyUnlinked
    <3>2. Range(dirtyq') = Range(dirtyq) \ {r} /\ IsInjective(dirtyq')
      BY <1>t, <3>1, UnlinkedFacts DEF DirtyTracked
    <3>3. /\ Writing(t, r)'
          /\ \A u \in Thread, c \in Chunk : u # t \/ c # r =>
               (Writing(u, c)' <=> Writing(u, c))
      <4>1. Writing(t, r)'
        BY <2>3, <3>1 DEF Writing
      <4>2. ASSUME NEW c \in Chunk, c # r PROVE ~Writing(t, c)' /\ ~Writing(t, c)
        BY <2>3, <3>1, <4>2 DEF Writing
      <4>3. ASSUME NEW u \in Thread \ {t}, NEW c \in Chunk
            PROVE  Writing(u, c)' <=> Writing(u, c)
        BY <2>4 DEF OthersStay, Writing
      <4> QED BY <4>1, <4>2, <4>3
    <3>4. ASSUME NEW d \in Chunk \ {r} PROVE Tracked(d)'
      BY <1>d, <2>3, <3>2, <3>3 DEF Tracked
    <3>5. Tracked(r)'
      BY <1>d, <2>1, <2>2, <2>3, <2>6, <3>2, <3>3 DEF Tracked
    <3> QED BY <1>d, <3>2, <3>4, <3>5
  <2> QED BY <2>5, <2>6
\* entry_clean() has written c back.
<1>8. ASSUME NEW t \in Thread, NEW c \in Chunk, Writing(t, c), ~Writing(t, c)',
             \A d \in Chunk \ {c} : Writing(t, d)' <=> Writing(t, d),
             OthersStay(t), dirty' = [dirty EXCEPT ![c] = "clean"],
             UNCHANGED <<data, dirtyq>>, CacheUpdate(c)
      PROVE  DirtyTracked'
  <2>1. \A d \in Chunk \ {c} : error'[d] = error[d]
    BY <1>8, <1>t DEF CacheUpdate, EntrySetError
  <2>2. \A u \in Thread, d \in Chunk : u # t => (Writing(u, d)' <=> Writing(u, d))
    BY <1>8 DEF OthersStay, Writing
  <2>3. ASSUME NEW d \in Chunk \ {c} PROVE Tracked(d)'
    BY <1>8, <1>d, <1>t, <2>1, <2>2, SMTT(30) DEF Tracked
  <2>4. Tracked(c)'
    BY <1>8, <1>t, <1>u, <2>2 DEF Tracked
  <2> QED BY <1>8, <1>d, <2>3, <2>4
<1>9. ASSUME NEW t \in Worker, EvictWrite(t) PROVE DirtyTracked'
  <2>1. PICK c \in Chunk :
          /\ c = victim[t] /\ Writing(t, c) /\ ~Writing(t, c)'
          /\ \A d \in Chunk \ {c} : Writing(t, d)' <=> Writing(t, d)
    BY <1>9 DEF EvictWrite, TypeOK, Writing
  <2>2. OthersStay(t)
    BY <1>9, StepOfOne DEF EntryStep
  <2> QED BY <1>9, <1>8, <2>1, <2>2 DEF EvictWrite
<1>10. ASSUME NEW t \in Thread, CleanWrite(t) PROVE DirtyTracked'
  <2>1. PICK c \in Chunk :
          /\ c = cur[t] /\ Writing(t, c) /\ ~Writing(t, c)'
          /\ \A d \in Chunk \ {c} : Writing(t, d)' <=> Writing(t, d)
    BY <1>10 DEF CleanWrite, TypeOK, Writing
  <2>2. OthersStay(t)
    BY <1>10, StepOfOne DEF CleanStep
  <2> QED BY <1>10, <1>8, <2>1, <2>2 DEF CleanWrite
<1>11. ASSUME NEW t \in Worker, Steal(t) PROVE DirtyTracked'
  <2>1. /\ pc[t] = "steal" /\ pc'[t] \in {"fill", "have"}
        /\ data' = [data EXCEPT ![cur[t]] = data[victim[t]], ![victim[t]] = None]
        /\ UNCHANGED <<error, dirty, dirtyq>>
    BY <1>11, <1>t DEF Steal, BuffersMoved, AfterBuffer
  <2>2. /\ victim[t] \in Chunk /\ dirty[victim[t]] = "clean"
        /\ data[victim[t]] # None
    BY <2>1 DEF TypeOK, BufferPlaces, BufferPlace
  <2>3. Kept
    BY <1>t, <2>1, <2>2 DEF Kept, DirtyTracked
  <2> QED BY <1>11, <1>f, <1>w, <2>1, <2>3, StepOfOne DEF EntryStep
<1>12. ASSUME NEW t \in Worker, Fill(t) PROVE DirtyTracked'
  <2>1. /\ pc[t] = "fill" /\ pc'[t] = "have" /\ UNCHANGED <<dirty, dirtyq>>
        /\ \A d \in Chunk \ {cur[t]} : data'[d] = data[d] /\ error'[d] = error[d]
    BY <1>12, <1>t DEF Fill, CacheGet, EntrySetError
  <2>2. dirty[cur[t]] = "clean"
    BY <2>1 DEF BufferPlaces, BufferPlace
  <2>3. Kept
    BY <2>1, <2>2 DEF Kept, DirtyTracked
  <2> QED BY <1>12, <1>f, <1>w, <2>1, <2>3, StepOfOne DEF EntryStep
<1>13. ASSUME NEW t \in Worker, FinishWrite(t) PROVE DirtyTracked'
  <2>1. PICK c \in Chunk :
          /\ c = cur[t] /\ Holds(t, c) /\ ~error[c] /\ data[c] # None
          /\ pc[t] = "have" /\ pc'[t] = "idle" /\ error' = error
    <3>1. cur[t] \in Chunk /\ data[cur[t]] # None
      BY <1>13 DEF FinishWrite, TypeOK, BufferPlaces, BufferPlace
    <3> QED BY <1>13, <1>t, <3>1 DEF FinishWrite, Reply, Holds
  <2>2. OthersStay(t)
    BY <1>13, StepOfOne DEF EntryStep
  <2>3. SameWriters
    BY <1>w, <2>1, <2>2
  <2>4. \A d \in Chunk : data'[d] # None <=> data[d] # None
    <3>1. data' = [data EXCEPT ![c] = Merge(data[c], new[t])]
      BY <1>13, <2>1 DEF FinishWrite
    <3>2. Merge(data[c], new[t]) # None
      BY <2>1, MergeType, SMTT(20) DEF TypeOK
    <3> QED BY <1>t, <2>1, <3>1, <3>2
  <2>5. CASE dirty[c] = "clean"
    <3>1. dirty' = [dirty EXCEPT ![c] = "fresh"] /\ dirtyq' = Append(dirtyq, c)
      BY <1>13, <2>1, <2>5 DEF FinishWrite
    <3>2. c \notin Range(dirtyq) /\ IsInjective(dirtyq)
      BY <2>1, <2>5 DEF DirtyTracked
    <3>3. Range(dirtyq') = Range(dirtyq) \cup {c} /\ IsInjective(dirtyq')
      BY <1>t, <2>1, <3>1, <3>2, AppendFacts, SMTT(20)
    <3>4. \A u \in Thread : ~Writing(u, c)
      BY <1>u, <2>1, <2>5
    <3>5. ASSUME NEW d \in Chunk \ {c} PROVE Tracked(d)'
      BY <1>d, <1>t, <2>1, <2>3, <2>4, <3>1, <3>3, SMTT(30) DEF Tracked, SameWriters
    <3>6. \A u \in Thread : ~Writing(u, c)'
      BY <2>1, <2>3, <3>4 DEF SameWriters
    <3>7. dirty'[c] = "fresh" /\ data'[c] # None /\ ~error'[c]
      BY <1>t, <2>1, <2>4, <3>1
    <3>8. Tracked(c)'
      BY <3>3, <3>6, <3>7 DEF Tracked
    <3> QED BY <1>d, <2>1, <3>3, <3>5, <3>8
  <2>6. CASE dirty[c] # "clean"
    <3>1. UNCHANGED <<dirty, dirtyq>>
      BY <1>13, <2>1, <2>6 DEF FinishWrite
    <3>2. Kept
      BY <2>1, <2>4 DEF Kept, DirtyTracked
    <3> QED BY <1>f, <2>3, <3>1, <3>2
  <2> QED BY <2>5, <2>6
<1>14. ASSUME NEW t \in Thread, \/ CleanNext(t) \/ CleanAwait(t) \/ CleanAcquire(t)
                                \/ CleanSkip(t) \/ CleanBreak(t) \/ SyncReturn(t)
       PROVE  DirtyTracked'
  <2>1. /\ pc[t] \in {"loop", "cwait", "chold"}
        /\ pc'[t] \in {"loop", "cwait", "chold", "rest", "idle"}
        /\ UNCHANGED <<data, error, dirty, dirtyq>>
    BY <1>14, <1>t DEF CleanNext, CleanAwait, CleanAcquire, CleanSkip, CleanBreak,
       SyncReturn
  <2> QED BY <1>14, <1>f, <1>w, <1>k, <2>1, StepOfOne DEF CleanStep
<1>20. ASSUME NEW t \in Thread, CleanStart(t) PROVE DirtyTracked'
  <2>1. PICK c \in Chunk :
          /\ c = cur[t] /\ Holds(t, c) /\ dirty[c] # "clean"
          /\ pc[t] = "chold" /\ pc'[t] = "cwrite" /\ dirtyq' = Unlinked(dirtyq, c)
          /\ UNCHANGED <<data, error, dirty, cur, victim>>
    <3>1. cur[t] \in Chunk
      BY <1>20 DEF CleanStart, TypeOK
    <3> QED BY <1>20, <1>t, <3>1 DEF CleanStart, DirtyUnlinked, Holds
  <2>2. Range(dirtyq') = Range(dirtyq) \ {c} /\ IsInjective(dirtyq')
    BY <1>t, <2>1, UnlinkedFacts DEF DirtyTracked
  <2>3. \A u \in Thread : ~Writing(u, c)
    <3>1. ~Writing(t, c) BY <2>1 DEF Writing
    <3> QED BY <1>u, <2>1, <3>1, HeldByOne
  <2>4. /\ Writing(t, c)'
        /\ \A u \in Thread, d \in Chunk : u # t \/ d # c =>
             (Writing(u, d)' <=> Writing(u, d))
    BY <1>20, <2>1, StepOfOne DEF OthersStay, Writing, CleanStep
  <2>5. ASSUME NEW d \in Chunk \ {c} PROVE Tracked(d)'
    BY <1>d, <2>1, <2>2, <2>4 DEF Tracked
  <2>6. Tracked(c)'
    BY <1>d, <2>1, <2>2, <2>3, <2>4 DEF Tracked
  <2> QED BY <1>d, <2>2, <2>5, <2>6
<1>23. CASE CleanerRest \/ CleanerWake
  <2>1. /\ pc[Cleaner] \in {"rest", "loop", "nap", "sleep"}
        /\ pc'[Cleaner] \in {"sleep", "nap", "exit", "loop"}
        /\ UNCHANGED <<data, error, dirty, dirtyq>>
    BY <1>23, <1>t DEF CleanerRest, CleanerWake
  <2> QED BY <1>23, <1>f, <1>w, <1>k, <2>1, StepOfOne
<1>26. CASE StopCleaner \/ JoinCleaner \/ ClearFlag
  <2>1. /\ pc[Main] \in {"serve", "join", "loop"}
        /\ pc'[Main] \in {"join", "loop", "done"}
        /\ UNCHANGED <<data, error, dirty, dirtyq>>
    BY <1>26, <1>t DEF StopCleaner, JoinCleaner, ClearFlag
  <2> QED BY <1>26, <1>f, <1>w, <1>k, <2>1, StepOfOne
<1>28. CASE FreeEntry
  <2> DEFINE c == Head(reclaimable)
  <2>1. /\ pc[Main] = "loop" /\ dirtyq = <<>>
        /\ data' = [data EXCEPT ![c] = None]
        /\ UNCHANGED <<error, dirty, dirtyq, pc, cur, victim>>
    BY <1>28 DEF FreeEntry
  <2>2. \A d \in Chunk : dirty[d] = "clean"
    BY <2>1, QueueDrained
  <2> QED BY <1>f, <1>n, <2>1, <2>2 DEF Kept
<1>30. ASSUME NEW i \in DOMAIN dirtyq, Expire(i) PROVE DirtyTracked'
  <2>1. /\ dirty' = [dirty EXCEPT ![dirtyq[i]] = "ripe"] /\ dirty[dirtyq[i]] = "fresh"
        /\ UNCHANGED <<data, error, dirtyq, pc, cur, victim>>
    BY <1>30 DEF Expire
  <2> QED BY <1>t, <1>n, <2>1 DEF DirtyTracked, SameWriters
<1>31. ASSUME NEW t \in Thread, SpuriousWakeup(t) \/ CleanerTimeout PROVE DirtyTracked'
  <2>1. UNCHANGED <<data, error, dirty, dirtyq, pc, cur, victim>>
    BY <1>31 DEF SpuriousWakeup, CleanerTimeout
  <2> QED BY <1>f, <1>n, <1>k, <2>1
<1> QED
  BY <1>1, <1>2, <1>5, <1>7, <1>9, <1>10, <1>11, <1>12, <1>13, <1>14, <1>20,
     <1>23, <1>26, <1>28, <1>30, <1>31
     DEF Next, EntryStep, CleanStep, CleanerStep, MainStep, SyncReturn

-----------------------------------------------------------------------------

\* Only the holder of an entry can have left its buffer unpopulated.
LEMMA RawByHolder ==
  ASSUME Ownership, NEW t \in Thread, NEW c \in Chunk, Holds(t, c), Raw(c)
  PROVE  /\ t \in Worker /\ cur[t] = c
         /\ pc[t] = "fill" \/ (pc[t] = "have" /\ ~WithData(t))
<1>1. PICK u \in Worker : /\ cur[u] = c
                          /\ pc[u] = "fill" \/ (pc[u] = "have" /\ ~WithData(u))
  BY DEF Raw
<1>2. Holds(u, c)
  BY <1>1 DEF Holds
<1> QED BY <1>1, <1>2, HeldByOne

\* What entry_acquire() hands out without an error is what was acknowledged,
\* unless the request is going to overwrite all of it.
LEMMA HandedOut ==
  ASSUME TypeOK, Ownership, BufferPlaces, Coherent, NEW t \in Worker,
         pc[t] = "have", ~error[cur[t]]
  PROVE  /\ WithData(t) => ~Raw(cur[t]) /\ data[cur[t]] \in Whole
         /\ Merge(data[cur[t]], new[t]) \in Whole
         /\ cur[t] \notin faulted =>
              Merge(data[cur[t]], new[t]) = Merge(acked[cur[t]], new[t])
<1> DEFINE c == cur[t]
<1>1. /\ c \in Chunk /\ Holds(t, c) /\ data[c] # None /\ data[c] \in Content
      /\ new[t] \in Update
  <2>1. /\ cur[t] \in Chunk /\ new[t] \in Update
        /\ data \in [Chunk -> Content \cup {None}]
    BY DEF TypeOK
  <2>2. data[cur[t]] # None
    BY DEF BufferPlaces, BufferPlace
  <2> QED BY <2>1, <2>2 DEF Holds
<1>2. ~error[c] /\ pc[t] = "have"
  OBVIOUS
<1> HIDE DEF c
<1>3. CASE WithData(t)
  <2>1. ~Raw(c)
    BY <1>1, <1>2, <1>3, RawByHolder
  <2>2. data[c] \in Whole /\ (c \notin faulted => data[c] = acked[c])
    BY <1>1, <1>2, <2>1 DEF Coherent, CoherentChunk
  <2> QED BY <1>1, <2>1, <2>2, MergeType DEF c
<1>4. CASE ~WithData(t)
  <2>1. DOMAIN new[t] = Part
    BY <1>4 DEF WithData
  <2> QED BY <1>1, <1>4, <2>1, MergeType DEF c, Merge
<1> QED BY <1>3, <1>4

\* No reply shows uninitialised or reclaimed memory.
LEMMA NoJunkStep ==
  ASSUME TypeOK, Ownership, BufferPlaces, Coherent, NoJunk, Next
  PROVE  NoJunk'
<1>1. ASSUME NEW t \in Worker, Refuse(t) PROVE NoJunk'
  BY <1>1 DEF Refuse, Reply, NoJunk
<1>2. ASSUME NEW t \in Worker, FinishRead(t) PROVE NoJunk'
  <2>1. WithData(t) /\ pc[t] = "have" /\ ~error[cur[t]]
    BY <1>2, PartNonempty DEF FinishRead, WithData
  <2>2. data[cur[t]] \in Whole
    BY <2>1, HandedOut
  <2> QED BY <1>2, <2>2 DEF FinishRead, Reply, NoJunk
<1>3. ASSUME NEW t \in Worker, FinishWrite(t) PROVE NoJunk'
  <2>1. pc[t] = "have" /\ ~error[cur[t]]
    BY <1>3 DEF FinishWrite
  <2>2. Merge(data[cur[t]], new[t]) \in Whole
    BY <2>1, HandedOut
  <2> QED BY <1>3, <2>2 DEF FinishWrite, Reply, NoJunk
<1>4. ASSUME UNCHANGED out PROVE NoJunk'
  BY <1>4 DEF NoJunk
<1>5. ASSUME NEW t \in Thread, CleanStep(t) PROVE UNCHANGED out
  BY <1>5 DEF CleanStep, CleanNext, CleanAwait, CleanAcquire, CleanSkip,
     CleanBreak, CleanStart, CleanWrite, SyncReturn
<1>6. ASSUME NEW t \in Worker, EntryStep(t),
             ~Refuse(t), ~FinishRead(t), ~FinishWrite(t)
      PROVE  UNCHANGED out
  BY <1>6 DEF EntryStep, AwaitEntry, AcquireEntry, Hit, Allocate, AwaitBuffer,
     Reclaim, EvictWrite, Steal, Fill
<1>7. ASSUME NEW t \in Worker,
             SyncRequest(t) \/ \E c \in Chunk, u \in Update : Request(t, c, u)
      PROVE  UNCHANGED out
  BY <1>7 DEF SyncRequest, Request
<1>8. ASSUME \/ CleanerRest \/ CleanerWake \/ CleanerTimeout \/ StopCleaner
             \/ JoinCleaner \/ FreeEntry \/ ClearFlag
             \/ \E i \in DOMAIN dirtyq : Expire(i)
             \/ \E t \in Thread : SpuriousWakeup(t)
      PROVE  UNCHANGED out
  BY <1>8 DEF CleanerRest, CleanerWake, CleanerTimeout, StopCleaner, JoinCleaner,
     FreeEntry, ClearFlag, Expire, SpuriousWakeup
<1> QED
  BY <1>1, <1>2, <1>3, <1>4, <1>5, <1>6, <1>7, <1>8
     DEF Next, CleanerStep, MainStep

\* Acknowledged contents are in the buffer, in the local cache, or both.
LEMMA CoherentStep ==
  ASSUME TypeOK, Ownership, EntriesLive, DirtyTracked, BufferPlaces, Coherent,
         Phases, Next
  PROVE  Coherent'
<1> USE ThreadsDistinct, SpecialValues DEF Goto
<1> DEFINE Same(c) == /\ data'[c] = data[c]
                      /\ error'[c] = error[c]
                      /\ dirty'[c] = "clean" <=> dirty[c] = "clean"
                      /\ store'[c] = store[c]
                      /\ acked'[c] = acked[c]
                      /\ c \in faulted' <=> c \in faulted
           StaysRaw(c) == Raw(c) => Raw(c)'
<1>f. ASSUME NEW c \in Chunk, Same(c), error[c] \/ StaysRaw(c) PROVE CoherentChunk(c)'
  BY <1>f DEF Coherent, CoherentChunk
<1>r. ASSUME NEW t \in Thread, OthersStay(t), NEW c \in Chunk,
             \/ cur[t] # c
             \/ pc[t] \notin {"fill", "have"}
             \/ pc[t] = "have" /\ WithData(t)
      PROVE  StaysRaw(c)
  BY <1>r DEF Raw, OthersStay, WithData
<1>n. ASSUME UNCHANGED <<pc, cur, new>>, NEW c \in Chunk PROVE StaysRaw(c)
  BY <1>n DEF Raw, WithData
<1> HIDE DEF Same, StaysRaw
<1>t. /\ data \in [Chunk -> Content \cup {None}]
      /\ dirty \in [Chunk -> {"clean", "fresh", "ripe"}]
      /\ error \in [Chunk -> BOOLEAN]
      /\ store \in [Chunk -> Content \cup {Bad}]
      /\ acked \in [Chunk -> Whole]
      /\ pc \in [Thread -> WorkerPc \cup CleanerPc \cup MainPc]
      /\ cur \in [Thread -> Chunk \cup {None}]
      /\ new \in [Thread -> Update]
  BY DEF TypeOK
<1>u. ASSUME UNCHANGED <<data, error, dirty, store, acked, faulted>>
      PROVE  \A c \in Chunk : Same(c)
  BY <1>u DEF Same
<1>c. /\ \A c \in Chunk : CoherentChunk(c)
      /\ (\A c \in Chunk : CoherentChunk(c)') => Coherent'
  BY DEF Coherent
<1>1. ASSUME NEW t \in Worker, NEW c \in Chunk, NEW u \in Update, Request(t, c, u)
      PROVE  Coherent'
  <2>1. /\ UNCHANGED <<data, dirty, store, acked, faulted>> /\ pc[t] = "idle"
        /\ error' = IF c \in chunks THEN error ELSE [error EXCEPT ![c] = FALSE]
    BY <1>1 DEF Request
  <2>2. \A d \in Chunk : StaysRaw(d)
    BY <1>1, <1>r, <2>1, StepOfOne
  <2>3. ASSUME NEW d \in Chunk, c \in chunks \/ d # c PROVE CoherentChunk(d)'
    BY <1>f, <1>t, <2>1, <2>2, <2>3 DEF Same
  <2>4. CASE c \notin chunks
    <3>1. data[c] = None /\ dirty[c] = "clean" /\ ~error'[c]
      BY <1>t, <2>1, <2>4 DEF EntriesLive, DirtyTracked
    <3> QED BY <1>c, <2>1, <2>3, <3>1 DEF CoherentChunk
  <2> QED BY <1>c, <2>3, <2>4
<1>2. ASSUME NEW t \in Worker, \/ AwaitEntry(t) \/ AcquireEntry(t) \/ Hit(t)
                               \/ AwaitBuffer(t) \/ Reclaim(t) \/ SyncRequest(t)
      PROVE  Coherent'
  <2>1. /\ UNCHANGED <<data, error, dirty, store, acked, faulted>>
        /\ pc[t] \in {"idle", "entry", "owned", "buffer"}
    BY <1>2 DEF AwaitEntry, AcquireEntry, Hit, AwaitBuffer, NeedsBuffer, Reclaim,
       SyncRequest
  <2>2. OthersStay(t)
    BY <1>2, StepOfOne DEF EntryStep
  <2>3. \A d \in Chunk : StaysRaw(d)
    BY <1>r, <2>1, <2>2
  <2> QED BY <1>c, <1>f, <1>u, <2>1, <2>3
<1>3. ASSUME NEW t \in Worker, NEW c \in Chunk, cur[t] = c, data[c] = None,
             cur'[t] = c, pc'[t] = AfterBuffer(t), new'[t] = new[t],
             data'[c] # None, UNCHANGED <<dirty, error, store, acked, faulted>>
      PROVE  CoherentChunk(c)'
  <2>1. Raw(c)'
    BY <1>3 DEF Raw, AfterBuffer, WithData
  <2>2. dirty[c] = "clean"
    BY <1>3 DEF DirtyTracked
  <2> QED BY <1>3, <1>c, <2>1, <2>2 DEF CoherentChunk
<1>4. ASSUME NEW t \in Worker, Allocate(t) PROVE Coherent'
  <2>1. PICK c \in Chunk : c = cur[t] /\ data[c] = None
    BY <1>4 DEF Allocate, TypeOK
  <2>2. /\ data' = [data EXCEPT ![c] = [p \in Part |-> Junk]]
        /\ UNCHANGED <<dirty, error, store, acked, faulted, cur, new>>
        /\ pc'[t] = AfterBuffer(t) /\ pc[t] = "owned"
    BY <1>4, <1>t, <2>1 DEF Allocate
  <2>3. data'[c] # None
    BY <1>t, <2>2 DEF Content
  <2>4. CoherentChunk(c)'
    BY <1>3, <2>1, <2>2, <2>3
  <2>5. \A d \in Chunk \ {c} : StaysRaw(d)
    BY <1>4, <1>r, <2>2, StepOfOne DEF EntryStep
  <2>6. \A d \in Chunk \ {c} : Same(d)
    BY <1>t, <2>2 DEF Same
  <2> QED BY <1>c, <1>f, <2>4, <2>5, <2>6
\* entry_clean() has written c back, or has failed to.
<1>8. ASSUME NEW t \in Thread, NEW c \in Chunk, dirty[c] # "clean",
             pc[t] \in {"evict", "cwrite"}, OthersStay(t), CacheUpdate(c),
             dirty' = [dirty EXCEPT ![c] = "clean"], UNCHANGED <<data, acked>>
      PROVE  Coherent'
  <2>1. \A d \in Chunk : StaysRaw(d)
    BY <1>8, <1>r
  <2>2. ASSUME NEW d \in Chunk \ {c} PROVE CoherentChunk(d)'
    BY <1>8, <1>f, <1>t, <2>1 DEF Same, CacheUpdate, EntrySetError
  <2>3. /\ data[c] \in Whole /\ store[c] \in Whole \cup {Bad}
        /\ c \notin faulted => data[c] = acked[c] /\ ~error[c]
    BY <1>8, <1>c DEF CoherentChunk
  <2>4. Bad \notin Whole
    BY DEF Whole, Content
  <2>5. ASSUME store' = [store EXCEPT ![c] = data[c]],
               UNCHANGED <<error, leave_dirty, faulted>>
        PROVE  CoherentChunk(c)'
    BY <1>8, <1>t, <2>3, <2>4, <2>5 DEF CoherentChunk
  <2>6. ASSUME \E v \in {store[c], Bad} : store' = [store EXCEPT ![c] = v],
               EntrySetError(c)
        PROVE  CoherentChunk(c)'
    BY <1>8, <1>t, <2>3, <2>6 DEF CoherentChunk, EntrySetError
  <2>7. CoherentChunk(c)'
    BY <1>8, <2>5, <2>6 DEF CacheUpdate
  <2> QED BY <1>c, <2>2, <2>7
<1>9. ASSUME NEW t \in Worker, EvictWrite(t) PROVE Coherent'
  <2>1. PICK c \in Chunk : c = victim[t] /\ Writing(t, c)
    BY <1>9 DEF EvictWrite, TypeOK, Writing
  <2>2. dirty[c] # "clean"
    BY <2>1 DEF DirtyTracked
  <2>3. OthersStay(t)
    BY <1>9, StepOfOne DEF EntryStep
  <2> QED BY <1>8, <1>9, <2>1, <2>2, <2>3 DEF EvictWrite
<1>10. ASSUME NEW t \in Thread, CleanWrite(t) PROVE Coherent'
  <2>1. PICK c \in Chunk : c = cur[t] /\ Writing(t, c)
    BY <1>10 DEF CleanWrite, TypeOK, Writing
  <2>2. dirty[c] # "clean"
    BY <2>1 DEF DirtyTracked
  <2>3. OthersStay(t)
    BY <1>10, StepOfOne DEF CleanStep
  <2> QED BY <1>8, <1>10, <2>1, <2>2, <2>3 DEF CleanWrite
<1>11. ASSUME NEW t \in Worker, Steal(t) PROVE Coherent'
  <2>1. PICK c \in Chunk, v \in Chunk :
          /\ c = cur[t] /\ data[c] = None
          /\ v = victim[t] /\ data[v] # None /\ dirty[v] = "clean"
    <3>1. cur[t] \in Chunk /\ victim[t] \in Chunk
      BY <1>11 DEF Steal, TypeOK
    <3>2. /\ data[cur[t]] = None
          /\ data[victim[t]] # None /\ dirty[victim[t]] = "clean"
      BY <1>11 DEF Steal, BufferPlaces, BufferPlace
    <3> QED BY <3>1, <3>2
  <2>2. /\ data' = [data EXCEPT ![c] = data[v], ![v] = None]
        /\ UNCHANGED <<dirty, error, store, acked, faulted, cur, new>>
        /\ pc'[t] = AfterBuffer(t) /\ pc[t] = "steal"
    BY <1>11, <1>t, <2>1 DEF Steal, BuffersMoved
  <2>3. data'[c] # None /\ data'[v] = None
    BY <1>t, <2>1, <2>2
  <2>4. CoherentChunk(c)'
    BY <1>3, <2>1, <2>2, <2>3
  <2>5. CoherentChunk(v)'
    BY <1>c, <2>1, <2>2, <2>3 DEF CoherentChunk
  <2>6. \A d \in Chunk : StaysRaw(d)
    BY <1>11, <1>r, <2>2, StepOfOne DEF EntryStep
  <2>7. \A d \in Chunk \ {c, v} : Same(d)
    BY <1>t, <2>2 DEF Same
  <2> QED BY <1>c, <1>f, <2>4, <2>5, <2>6, <2>7
<1>12. ASSUME NEW t \in Worker, Fill(t) PROVE Coherent'
  <2>1. PICK c \in Chunk : c = cur[t] /\ dirty[c] = "clean"
    BY <1>12 DEF Fill, TypeOK, BufferPlaces, BufferPlace
  <2>2. CacheGet(c) /\ UNCHANGED <<dirty, store, acked>>
    BY <1>12, <2>1 DEF Fill
  <2>3. \A d \in Chunk \ {c} : StaysRaw(d)
    BY <1>12, <1>r, <2>1, StepOfOne DEF EntryStep
  <2>4. \A d \in Chunk \ {c} : Same(d)
    BY <1>t, <2>2 DEF Same, CacheGet, EntrySetError
  <2>5. ASSUME store[c] # Bad, data' = [data EXCEPT ![c] = store[c]],
               UNCHANGED <<error, leave_dirty, faulted>>
        PROVE  CoherentChunk(c)'
    BY <1>c, <1>t, <2>1, <2>2, <2>5 DEF CoherentChunk
  <2>6. ASSUME EntrySetError(c), UNCHANGED data PROVE CoherentChunk(c)'
    BY <1>c, <1>t, <2>1, <2>2, <2>6 DEF CoherentChunk, EntrySetError
  <2>7. CoherentChunk(c)'
    BY <2>2, <2>5, <2>6 DEF CacheGet
  <2> QED BY <1>c, <1>f, <2>3, <2>4, <2>7
<1>13. ASSUME NEW t \in Worker, Refuse(t) \/ FinishRead(t) PROVE Coherent'
  <2>1. /\ pc[t] = "have" /\ (error[cur[t]] \/ WithData(t))
        /\ UNCHANGED <<data, error, dirty, store, acked, faulted>>
    BY <1>13, PartNonempty DEF Refuse, FinishRead, WithData
  <2>2. OthersStay(t)
    BY <1>13, StepOfOne DEF EntryStep
  <2>3. \A d \in Chunk : error[d] \/ StaysRaw(d)
    BY <1>r, <2>1, <2>2
  <2> QED BY <1>c, <1>f, <1>u, <2>1, <2>3
<1>14. ASSUME NEW t \in Worker, FinishWrite(t) PROVE Coherent'
  <2>1. PICK c \in Chunk : c = cur[t]
    BY <1>14 DEF FinishWrite, TypeOK
  <2>2. /\ data' = [data EXCEPT ![c] = Merge(data[c], new[t])]
        /\ acked' = [acked EXCEPT ![c] = Merge(acked[c], new[t])]
        /\ \/ dirty' = [dirty EXCEPT ![c] = "fresh"]
           \/ dirty' = dirty /\ dirty[c] # "clean"
        /\ UNCHANGED <<error, store, faulted>>
        /\ pc[t] = "have" /\ ~error[c]
    BY <1>14, <2>1 DEF FinishWrite
  <2>3. /\ Merge(data[c], new[t]) \in Whole
        /\ c \notin faulted => Merge(data[c], new[t]) = Merge(acked[c], new[t])
    BY <2>1, <2>2, HandedOut
  <2>4. dirty'[c] # "clean" /\ data'[c] = Merge(data[c], new[t])
        /\ acked'[c] = Merge(acked[c], new[t])
    BY <1>t, <2>2
  <2>5. CoherentChunk(c)'
    BY <1>c, <2>2, <2>3, <2>4 DEF CoherentChunk
  <2>6. \A d \in Chunk \ {c} : StaysRaw(d)
    BY <1>14, <1>r, <2>1, StepOfOne DEF EntryStep
  <2>7. \A d \in Chunk \ {c} : Same(d)
    BY <1>t, <2>2 DEF Same
  <2> QED BY <1>c, <1>f, <2>5, <2>6, <2>7
<1>15. ASSUME NEW t \in Thread, \/ CleanNext(t) \/ CleanAwait(t) \/ CleanAcquire(t)
                                \/ CleanSkip(t) \/ CleanBreak(t) \/ CleanStart(t)
                                \/ SyncReturn(t)
       PROVE  Coherent'
  <2>1. /\ UNCHANGED <<data, error, dirty, store, acked, faulted>>
        /\ pc[t] \in {"loop", "cwait", "chold"}
    BY <1>15 DEF CleanNext, CleanAwait, CleanAcquire, CleanSkip, CleanBreak,
       CleanStart, SyncReturn
  <2>2. OthersStay(t)
    BY <1>15, StepOfOne DEF CleanStep
  <2>3. \A d \in Chunk : StaysRaw(d)
    BY <1>r, <2>1, <2>2
  <2> QED BY <1>c, <1>f, <1>u, <2>1, <2>3
<1>23. CASE CleanerRest \/ CleanerWake
  <2>1. /\ UNCHANGED <<data, error, dirty, store, acked, faulted>>
        /\ pc[Cleaner] \in {"rest", "loop", "nap", "sleep"}
    BY <1>23 DEF CleanerRest, CleanerWake
  <2>2. OthersStay(Cleaner)
    BY <1>23, StepOfOne
  <2>3. \A d \in Chunk : StaysRaw(d)
    BY <1>r, <2>1, <2>2
  <2> QED BY <1>c, <1>f, <1>u, <2>1, <2>3
<1>26. CASE StopCleaner \/ JoinCleaner \/ ClearFlag
  <2>1. /\ UNCHANGED <<data, error, dirty, store, acked, faulted>>
        /\ pc[Main] \in {"serve", "join", "loop"}
    BY <1>26 DEF StopCleaner, JoinCleaner, ClearFlag
  <2>2. OthersStay(Main)
    BY <1>26, StepOfOne
  <2>3. \A d \in Chunk : StaysRaw(d)
    BY <1>r, <2>1, <2>2
  <2> QED BY <1>c, <1>f, <1>u, <2>1, <2>3
<1>28. CASE FreeEntry
  <2>1. PICK c \in Chunk : c = Head(reclaimable)
    BY <1>28, HeadFacts DEF TypeOK, FreeEntry
  <2>2. /\ data' = [data EXCEPT ![c] = None]
        /\ UNCHANGED <<error, dirty, store, acked, faulted, pc, cur, new>>
        /\ pc[Main] = "loop" /\ dirtyq = <<>>
    BY <1>28, <2>1 DEF FreeEntry
  <2>3. dirty[c] = "clean" /\ data'[c] = None
    BY <1>t, <2>2, QueueDrained
  <2>4. CoherentChunk(c)'
    BY <1>c, <2>2, <2>3 DEF CoherentChunk
  <2>5. \A d \in Chunk \ {c} : Same(d) /\ StaysRaw(d)
    BY <1>n, <1>t, <2>2 DEF Same
  <2> QED BY <1>c, <1>f, <2>4, <2>5
<1>30. ASSUME NEW i \in DOMAIN dirtyq, Expire(i) PROVE Coherent'
  <2>1. /\ dirty' = [dirty EXCEPT ![dirtyq[i]] = "ripe"] /\ dirty[dirtyq[i]] = "fresh"
        /\ UNCHANGED <<data, error, store, acked, faulted, pc, cur, new>>
    BY <1>30 DEF Expire
  <2>2. \A d \in Chunk : Same(d) /\ StaysRaw(d)
    BY <1>n, <1>t, <2>1 DEF Same
  <2> QED BY <1>c, <1>f, <2>2
<1>31. ASSUME NEW t \in Thread, SpuriousWakeup(t) \/ CleanerTimeout PROVE Coherent'
  <2>1. UNCHANGED <<data, error, dirty, store, acked, faulted, pc, cur, new>>
    BY <1>31 DEF SpuriousWakeup, CleanerTimeout
  <2> QED BY <1>c, <1>f, <1>n, <1>u, <2>1
<1> QED
  BY <1>1, <1>2, <1>4, <1>9, <1>10, <1>11, <1>12, <1>13, <1>14, <1>15, <1>23,
     <1>26, <1>28, <1>30, <1>31
     DEF Next, EntryStep, CleanStep, CleanerStep, MainStep, SyncReturn

-----------------------------------------------------------------------------
(* Types, phases, and the theorems                                         *)

\* A step that changes nothing preserves the invariant.
LEMMA StutterIInv ==
  ASSUME IInv, UNCHANGED vars PROVE IInv'
<1> USE DEF vars
<1>1. TypeOK'
  BY SMTT(30) DEF IInv, TypeOK
<1>2. Ownership' /\ EntriesLive' /\ NoJunk' /\ Phases'
  <2>1. Ownership'
    BY DEF IInv, Ownership, Holds, Wants
  <2>2. EntriesLive'
    BY DEF IInv, EntriesLive, Holds, Wants
  <2>3. NoJunk' /\ Phases'
    BY DEF IInv, NoJunk, Phases
  <2> QED BY <2>1, <2>2, <2>3
<1>3. DirtyTracked' /\ BufferPlaces'
  BY DEF IInv, DirtyTracked, Writing, BufferPlaces, BufferPlace
<1>4. Coherent'
  BY DEF IInv, Coherent, CoherentChunk, Raw, WithData
<1> QED BY <1>1, <1>2, <1>3, <1>4 DEF IInv

\* The phases of the shutdown follow one another, and an error is remembered
\* in leave_dirty until then.
LEMMA PhasesStep ==
  ASSUME TypeOK, Phases, Next
  PROVE  Phases'
<1> USE ThreadsDistinct DEF Goto
<1>t. pc \in [Thread -> WorkerPc \cup CleanerPc \cup MainPc]
  BY DEF TypeOK
\* A step of a thread that is running: the workers and the cleaner have stopped
\* by the time that the main thread reads the error flag.
<1>r. ASSUME NEW t \in Thread, pc' = [pc EXCEPT ![t] = pc'[t]],
             pc[t] # "exit", t = Main \/ pc[Main] # "done",
             t \in Worker => pc[Main] = "serve",
             t = Cleaner => pc[Main] \in {"serve", "join"},
             t = Main => pc[t] \notin {"serve", "join", "done"}
                         /\ pc'[t] \notin {"serve", "join", "done"},
             UNCHANGED <<stopping, ca_dirty>>,
             \/ UNCHANGED <<leave_dirty, faulted>>
             \/ leave_dirty'
      PROVE  Phases'
  <2>1. pc[Main] # "done" /\ ca_dirty
    BY <1>r DEF Phases
  <2>2. /\ t # Main => pc'[Main] = pc[Main]
        /\ t # Cleaner => pc'[Cleaner] = pc[Cleaner]
        /\ \A u \in Worker \ {t} : pc'[u] = pc[u]
        /\ pc'[Main] # "done"
    BY <1>r, <1>t, <2>1
  <2>3. pc'[Main] = "serve" <=> pc[Main] = "serve"
    BY <1>r, <2>2
  <2>4. faulted' # {} => leave_dirty'
    BY <1>r, SMTT(20) DEF Phases
  <2> QED BY <1>r, <2>1, <2>2, <2>3, <2>4 DEF Phases
<1>1. ASSUME NEW t \in Worker,
             \/ \E c \in Chunk, u \in Update : Request(t, c, u)
             \/ SyncRequest(t) \/ EntryStep(t)
      PROVE  Phases'
  <2>1. /\ pc' = [pc EXCEPT ![t] = pc'[t]] /\ UNCHANGED <<stopping, ca_dirty>>
        /\ UNCHANGED <<leave_dirty, faulted>> \/ leave_dirty'
    BY <1>1, <1>t DEF Request, SyncRequest, EntryStep, AwaitEntry, AcquireEntry,
       Hit, Allocate, AwaitBuffer, Reclaim, EvictWrite, Steal, Fill, Refuse,
       FinishRead, FinishWrite, Reply, CacheUpdate, CacheGet, EntrySetError
  <2>2. pc[t] # "idle" \/ pc[Main] = "serve"
    BY <1>1 DEF Request, SyncRequest, EntryStep, AwaitEntry, AcquireEntry,
       Hit, Allocate, AwaitBuffer, NeedsBuffer, Reclaim, EvictWrite, Steal, Fill,
       Refuse, FinishRead, FinishWrite
  <2>3. pc[Main] = "serve" /\ pc[t] # "exit"
    BY <2>2 DEF Phases, TypeOK
  <2> QED BY <1>r, <2>1, <2>3
<1>2. ASSUME NEW t \in Thread, CleanStep(t) PROVE Phases'
  <2>1. /\ pc' = [pc EXCEPT ![t] = pc'[t]] /\ UNCHANGED <<stopping, ca_dirty>>
        /\ UNCHANGED <<leave_dirty, faulted>> \/ leave_dirty'
    BY <1>2, <1>t DEF CleanStep, CleanNext, CleanAwait, CleanAcquire, CleanSkip,
       CleanBreak, CleanStart, CleanWrite, SyncReturn, CacheUpdate, EntrySetError
  <2>2. /\ pc[t] \in CleanPc
        /\ pc'[t] \in CleanPc \cup {"rest", "idle"}
    BY <1>2, <1>t DEF CleanStep, CleanNext, CleanAwait, CleanAcquire, CleanSkip,
       CleanBreak, CleanStart, CleanWrite, SyncReturn
  <2>3. /\ t \in Worker => pc[Main] = "serve"
        /\ t = Cleaner => pc[Main] \in {"serve", "join"}
    BY <2>2 DEF Phases
  <2> QED BY <1>r, <2>1, <2>2, <2>3
<1>3. CASE CleanerRest \/ CleanerWake
  <2>1. /\ pc' = [pc EXCEPT ![Cleaner] = pc'[Cleaner]]
        /\ pc[Cleaner] \in {"rest", "loop", "nap", "sleep"}
        /\ UNCHANGED <<stopping, ca_dirty, leave_dirty, faulted>>
    BY <1>3, <1>t DEF CleanerRest, CleanerWake
  <2>2. pc[Main] \in {"serve", "join"}
    BY <2>1 DEF Phases
  <2> QED BY <1>r, <2>1, <2>2
<1>4. CASE StopCleaner
  BY <1>4, <1>t DEF StopCleaner, Phases
<1>5. CASE JoinCleaner
  BY <1>5, <1>t DEF JoinCleaner, CleanerGone, Phases
<1>6. CASE ClearFlag
  <2>1. /\ pc[Main] = "loop" /\ dirtyq' = <<>> /\ reclaimable' = <<>>
        /\ pc' = [pc EXCEPT ![Main] = "done"] /\ ca_dirty' = leave_dirty
        /\ UNCHANGED <<stopping, leave_dirty, faulted>>
    BY <1>6 DEF ClearFlag
  <2> QED BY <1>t, <2>1 DEF Phases
<1>7. CASE \/ CleanerTimeout \/ FreeEntry \/ \E i \in DOMAIN dirtyq : Expire(i)
           \/ \E t \in Thread : SpuriousWakeup(t)
  <2>1. /\ UNCHANGED <<pc, stopping, ca_dirty, leave_dirty, faulted, dirtyq>>
        /\ UNCHANGED reclaimable \/ pc[Main] = "loop"
    BY <1>7 DEF CleanerTimeout, FreeEntry, Expire, SpuriousWakeup
  <2> QED BY <2>1 DEF Phases
<1> QED
  BY <1>1, <1>2, <1>3, <1>4, <1>5, <1>6, <1>7
     DEF Next, CleanerStep, MainStep

\* Every variable keeps its type.
LEMMA TypeOKStep ==
  ASSUME TypeOK, EntriesLive, DirtyTracked, BufferPlaces, Next
  PROVE  TypeOK'
<1> USE ThreadsDistinct, SpecialValues DEF Goto
<1> DEFINE Entries == /\ chunks \subseteq Chunk
                      /\ busy \in [Chunk -> Thread \cup {None}]
                      /\ waiters \in [Chunk -> SUBSET Thread]
                      /\ reclaimable \in Seq(Chunk)
           Buffers == /\ data \in [Chunk -> Content \cup {None}]
                      /\ dirty \in [Chunk -> {"clean", "fresh", "ripe"}]
                      /\ error \in [Chunk -> BOOLEAN]
                      /\ dirtyq \in Seq(Chunk)
                      /\ allocatable \in Nat
           Mutex == lock \in Thread \cup {None} /\ asleep \subseteq Thread
           Place(t) == /\ t \in Worker => pc[t] \in WorkerPc
                       /\ t = Cleaner => pc[t] \in CleanerPc
                       /\ t = Main => pc[t] \in MainPc
                       /\ pc[t] \in EntryPc \cup {"cwait", "chold", "cwrite"} =>
                            cur[t] \in Chunk
                       /\ pc[t] \in {"evict", "steal"} => victim[t] \in Chunk
           Threads == /\ pc \in [Thread -> WorkerPc \cup CleanerPc \cup MainPc]
                      /\ cur \in [Thread -> Chunk \cup {None}]
                      /\ victim \in [Thread -> Chunk \cup {None}]
                      /\ new \in [Thread -> Update]
           Session == /\ stopping \in BOOLEAN /\ leave_dirty \in BOOLEAN
                      /\ store \in [Chunk -> Content \cup {Bad}]
                      /\ ca_dirty \in BOOLEAN
                      /\ acked \in [Chunk -> Whole]
                      /\ faulted \subseteq Chunk
           Replies == out \in [chunk : Chunk, reply : Content \cup {EIO}] \cup {None}
           Places == \A t \in Thread : Place(t)
<1>t. Entries /\ Buffers /\ Mutex /\ Threads /\ Places /\ Session /\ Replies
  BY DEF TypeOK
<1>q. /\ Entries' /\ Buffers' /\ Mutex' /\ Threads' /\ Places' /\ Session' /\ Replies'
      => TypeOK'
  BY DEF TypeOK
<1> HIDE DEF Places
<1>p. ASSUME NEW t \in Thread, OthersStay(t), Place(t)' PROVE Places'
  <2> SUFFICES ASSUME NEW u \in Thread \ {t} PROVE Place(u)'
    BY <1>p DEF Places
  <2> QED BY <1>p, <1>t DEF OthersStay, Places
<1>n. ASSUME UNCHANGED <<pc, cur, victim>> PROVE Places'
  BY <1>n, <1>t DEF Places
<1>l. ASSUME NEW t \in Thread PROVE Place(t)
  BY <1>t DEF Places
<1>u. /\ UNCHANGED <<chunks, busy, waiters, reclaimable>> => Entries'
      /\ UNCHANGED <<data, dirty, error, dirtyq, allocatable>> => Buffers'
      /\ UNCHANGED <<pc, cur, victim, new>> => Threads'
      /\ UNCHANGED <<stopping, leave_dirty, store, ca_dirty, acked, faulted>> => Session'
      /\ UNCHANGED out => Replies'
  BY <1>t
\* _entry_release()
<1>e. ASSUME NEW c \in Chunk, NEW hasdata, NEW also,
             EntryRelease(c, hasdata, also), waiters' = waiters
      PROVE  Entries' /\ asleep' \subseteq Thread
  <2>1. /\ busy' = [busy EXCEPT ![c] = None]
        /\ chunks' = chunks \/ chunks' = chunks \ {c}
        /\ reclaimable' = reclaimable \/ reclaimable' = Append(reclaimable, c)
        /\ asleep' \subseteq asleep
    BY <1>e DEF EntryRelease
  <2>2. Append(reclaimable, c) \in Seq(Chunk)
    BY <1>t, SMTT(20)
  <2>3. busy' \in [Chunk -> Thread \cup {None}]
    BY <1>t, <2>1
  <2>4. /\ chunks \subseteq Chunk /\ reclaimable \in Seq(Chunk)
        /\ waiters \in [Chunk -> SUBSET Thread] /\ asleep \subseteq Thread
    BY <1>t
  <2>5. chunks' \subseteq Chunk /\ asleep' \subseteq Thread
    BY <2>1, <2>4
  <2>6. reclaimable' \in Seq(Chunk) /\ waiters' \in [Chunk -> SUBSET Thread]
    BY <1>e, <2>1, <2>2, <2>4
  <2> QED BY <2>3, <2>5, <2>6
<1>m. [p \in Part |-> Junk] \in Content /\ Whole \subseteq Content /\ <<>> \in Update
  <2>1. <<>> \in [{} -> Value]
    BY SMTT(20)
  <2>2. {} \in SUBSET Part
    OBVIOUS
  <2> QED BY <2>1, <2>2 DEF Content, Whole, Update
<1> HIDE DEF Entries, Buffers, Mutex, Threads, Session, Replies, Place
<1>1. ASSUME NEW t \in Worker, NEW c \in Chunk, NEW u \in Update, Request(t, c, u)
      PROVE  TypeOK'
  <2>1. Unlinked(reclaimable, c) \in Seq(Chunk)
    BY <1>t, UnlinkedFacts DEF Entries, EntriesLive
  <2>2. Entries' /\ Mutex'
    BY <1>1, <1>t, <2>1 DEF Request, Entries, Mutex
  <2>3. Buffers' /\ Threads'
    BY <1>1, <1>t DEF Request, Buffers, Threads
  <2>4. Place(t)'
    BY <1>1, <1>t DEF Request, Place, Threads
  <2>5. Session' /\ Replies'
    BY <1>1, <1>u DEF Request
  <2>6. Places'
    BY <1>1, <1>p, <2>4, StepOfOne
  <2> QED BY <1>q, <2>2, <2>3, <2>5, <2>6
<1>2. ASSUME NEW t \in Thread,
             \/ t \in Worker /\ \/ AwaitEntry(t) \/ AcquireEntry(t) \/ Hit(t)
                                \/ AwaitBuffer(t) \/ SyncRequest(t)
             \/ CleanAwait(t) \/ CleanAcquire(t) \/ SyncReturn(t)
      PROVE  TypeOK'
  <2>1. Buffers' /\ Session' /\ Replies'
    BY <1>2, <1>u DEF AwaitEntry, AcquireEntry, Hit, AwaitBuffer, SyncRequest,
       CleanAwait, CleanAcquire, SyncReturn
  <2>2. Mutex'
    BY <1>2, <1>t DEF AwaitEntry, AcquireEntry, Hit, AwaitBuffer, SyncRequest,
       CleanAwait, CleanAcquire, SyncReturn, Mutex
  <2>3. Entries'
    <3>1. \/ UNCHANGED <<chunks, busy, waiters, reclaimable>>
          \/ /\ busy' = [busy EXCEPT ![cur[t]] = t]
             /\ waiters' = [waiters EXCEPT ![cur[t]] = @ \ {t}]
             /\ UNCHANGED <<chunks, reclaimable>>
      BY <1>2 DEF AwaitEntry, AcquireEntry, Hit, AwaitBuffer, SyncRequest,
         CleanAwait, CleanAcquire, SyncReturn
    <3> QED BY <1>t, <3>1, SMTT(20) DEF Entries
  <2>4. Threads' /\ UNCHANGED <<cur, victim>>
    <3>1. /\ UNCHANGED <<cur, victim, new>>
          /\ \/ pc' = pc
             \/ \E l \in {"loop", "idle", "owned", "have", "buffer", "chold"} :
                  pc' = [pc EXCEPT ![t] = l]
      BY <1>2 DEF AwaitEntry, AcquireEntry, Hit, AwaitBuffer, SyncRequest,
         CleanAwait, CleanAcquire, SyncReturn
    <3> QED BY <1>t, <3>1, SMTT(20) DEF Threads
  <2>5. \/ pc'[t] = pc[t]
        \/ t \in Worker /\ pc'[t] \in {"loop", "idle"}
        \/ t \in Worker /\ pc[t] \in EntryPc /\ pc'[t] \in {"owned", "have", "buffer"}
        \/ pc[t] = "cwait" /\ pc'[t] = "chold"
    BY <1>2, <1>t DEF AwaitEntry, AcquireEntry, Hit, AwaitBuffer, NeedsBuffer,
       SyncRequest, CleanAwait, CleanAcquire, SyncReturn, Threads
  <2>6. Place(t)'
    BY <1>l, <2>4, <2>5 DEF Place
  <2>7. OthersStay(t)
    BY <1>2, StepOfOne DEF EntryStep, CleanStep
  <2> QED BY <1>q, <1>p, <2>1, <2>2, <2>3, <2>4, <2>6, <2>7
<1>3. ASSUME NEW t \in Worker, Allocate(t) PROVE TypeOK'
  <2>1. Entries' /\ Session' /\ Replies'
    BY <1>3, <1>u DEF Allocate
  <2>2. Buffers' /\ Mutex'
    <3>1. /\ data' = [data EXCEPT ![cur[t]] = [p \in Part |-> Junk]]
          /\ allocatable > 0 /\ allocatable' = allocatable - 1
          /\ UNCHANGED <<dirty, error, dirtyq, asleep>> /\ lock' = None
      BY <1>3 DEF Allocate, MayAllocate
    <3>2. data' \in [Chunk -> Content \cup {None}]
      BY <1>t, <1>m, <3>1 DEF Buffers
    <3> QED BY <1>t, <3>1, <3>2, SMTT(20) DEF Buffers, Mutex
  <2>3. /\ Threads' /\ UNCHANGED <<cur, victim>>
        /\ pc[t] = "owned" /\ pc'[t] \in {"fill", "have"}
    BY <1>3, <1>t DEF Allocate, AfterBuffer, Threads
  <2>4. Place(t)'
    BY <1>l, <2>3 DEF Place
  <2>5. OthersStay(t)
    BY <1>3, StepOfOne DEF EntryStep
  <2> QED BY <1>q, <1>p, <2>1, <2>2, <2>3, <2>4, <2>5
<1>4. ASSUME NEW t \in Worker, Reclaim(t) PROVE TypeOK'
  <2>1. PICK r \in Chunk : r = Head(reclaimable)
    BY <1>4, <1>t, HeadFacts DEF Reclaim, Entries
  <2>2. /\ Unlinked(reclaimable, r) \in Seq(Chunk)
        /\ Unlinked(dirtyq, r) \in Seq(Chunk)
    BY <1>t, UnlinkedFacts DEF Entries, EntriesLive, Buffers, DirtyTracked
  <2>3. Session' /\ Replies'
    BY <1>4, <1>u DEF Reclaim
  <2>4. Entries'
    BY <1>4, <1>t, <2>1, <2>2 DEF Reclaim, Entries
  <2>5. Buffers' /\ Mutex'
    BY <1>4, <1>t, <2>1, <2>2 DEF Reclaim, DirtyUnlinked, Buffers, Mutex
  <2>6. /\ Threads' /\ cur' = cur /\ victim'[t] = r
        /\ pc[t] \in {"owned", "buffer"} /\ pc'[t] \in {"evict", "steal"}
    BY <1>4, <1>t, <2>1 DEF Reclaim, NeedsBuffer, Threads
  <2>7. Place(t)'
    BY <1>l, <2>6 DEF Place
  <2>8. OthersStay(t)
    BY <1>4, StepOfOne DEF EntryStep
  <2> QED BY <1>q, <1>p, <2>3, <2>4, <2>5, <2>6, <2>7, <2>8
\* The outcome of a writeback or of a read of the local cache.
<1>5. ASSUME NEW c \in Chunk, data[c] # None, CacheUpdate(c), UNCHANGED <<stopping, ca_dirty, acked>>
      PROVE  Session' /\ error' \in [Chunk -> BOOLEAN]
  <2>1. data[c] \in Content
    BY <1>5, <1>t DEF Buffers
  <2>2. store' \in [Chunk -> Content \cup {Bad}]
    BY <1>5, <1>t, <2>1 DEF CacheUpdate, Session
  <2>3. leave_dirty' \in BOOLEAN /\ faulted' \subseteq Chunk /\ error' \in [Chunk -> BOOLEAN]
    BY <1>5, <1>t DEF CacheUpdate, EntrySetError, Session, Buffers
  <2> QED BY <1>5, <1>t, <2>2, <2>3 DEF Session
<1>6. ASSUME NEW t \in Worker, EvictWrite(t) PROVE TypeOK'
  <2>1. PICK c \in Chunk : c = victim[t] /\ Writing(t, c)
    BY <1>6, <1>l DEF EvictWrite, Place, Writing
  <2>2. data[c] # None
    BY <2>1 DEF DirtyTracked
  <2>3. Session' /\ error' \in [Chunk -> BOOLEAN]
    BY <1>5, <1>6, <2>1, <2>2 DEF EvictWrite
  <2>4. Entries' /\ Replies'
    BY <1>6, <1>u DEF EvictWrite
  <2>5. Buffers' /\ Mutex'
    BY <1>6, <1>t, <2>3 DEF EvictWrite, Buffers, Mutex
  <2>6. /\ Threads' /\ UNCHANGED <<cur, victim>>
        /\ pc[t] = "evict" /\ pc'[t] = "steal"
    BY <1>6, <1>t DEF EvictWrite, Threads
  <2>7. Place(t)'
    BY <1>l, <2>6 DEF Place
  <2>8. OthersStay(t)
    BY <1>6, StepOfOne DEF EntryStep
  <2> QED BY <1>q, <1>p, <2>3, <2>4, <2>5, <2>6, <2>7, <2>8
<1>7. ASSUME NEW t \in Worker, Steal(t) PROVE TypeOK'
  <2>1. PICK c \in Chunk : c = victim[t]
    BY <1>7, <1>l DEF Steal, Place
  <2>2. Session' /\ Replies'
    BY <1>7, <1>u DEF Steal
  <2>3. EntryRelease(c, FALSE, {}) /\ waiters' = waiters /\ lock' = None
    BY <1>7, <2>1 DEF Steal
  <2>4. Entries' /\ Mutex'
    BY <1>e, <2>3 DEF Mutex
  <2>5. Buffers'
    BY <1>7, <1>t, <2>1 DEF Steal, BuffersMoved, Buffers
  <2>6. /\ Threads' /\ cur' = cur
        /\ pc[t] = "steal" /\ pc'[t] \in {"fill", "have"}
    BY <1>7, <1>t DEF Steal, AfterBuffer, Threads
  <2>7. Place(t)'
    BY <1>l, <2>6 DEF Place
  <2>8. OthersStay(t)
    BY <1>7, StepOfOne DEF EntryStep
  <2> QED BY <1>q, <1>p, <2>2, <2>4, <2>5, <2>6, <2>7, <2>8
<1>8. ASSUME NEW t \in Worker, Fill(t) PROVE TypeOK'
  <2>1. PICK c \in Chunk : c = cur[t]
    BY <1>8, <1>l DEF Fill, Place
  <2>2. Entries' /\ Replies' /\ CacheGet(c)
    BY <1>8, <1>u, <2>1 DEF Fill
  <2>3. Buffers' /\ Mutex'
    <3>1. store[c] # Bad => store[c] \in Content
      BY <1>t DEF Session
    <3> QED BY <1>8, <1>t, <2>2, <3>1 DEF Fill, CacheGet, EntrySetError, Buffers, Mutex
  <2>4. Session'
    BY <1>8, <1>t, <2>2 DEF Fill, CacheGet, EntrySetError, Session
  <2>5. /\ Threads' /\ UNCHANGED <<cur, victim>>
        /\ pc[t] = "fill" /\ pc'[t] = "have"
    BY <1>8, <1>t DEF Fill, Threads
  <2>6. Place(t)'
    BY <1>l, <2>5 DEF Place
  <2>7. OthersStay(t)
    BY <1>8, StepOfOne DEF EntryStep
  <2> QED BY <1>q, <1>p, <2>2, <2>3, <2>4, <2>5, <2>6, <2>7
\* An answered request.
<1>9. ASSUME NEW t \in Worker, NEW reply \in Content \cup {EIO}, pc[t] = "have",
             Reply(t, reply)
      PROVE  Threads' /\ Place(t)' /\ Replies'
  <2>1. cur[t] \in Chunk
    BY <1>9, <1>l DEF Place
  <2> QED BY <1>9, <1>t, <1>m, <2>1 DEF Reply, Threads, Place, Replies
<1>10. ASSUME NEW t \in Worker, Refuse(t) \/ FinishRead(t) PROVE TypeOK'
  <2>1. cur[t] \in Chunk /\ data[cur[t]] \in Content /\ pc[t] = "have"
    <3>1. pc[t] = "have" /\ BufferPlace(t)
      BY <1>10 DEF Refuse, FinishRead, BufferPlaces
    <3>2. cur[t] \in Chunk /\ data[cur[t]] # None
      BY <1>l, <3>1 DEF Place, BufferPlace
    <3> QED BY <1>t, <3>1, <3>2 DEF Buffers
  <2>2. Threads' /\ Place(t)' /\ Replies'
    BY <1>9, <1>10, <2>1 DEF Refuse, FinishRead
  <2>3. Buffers' /\ Session'
    BY <1>10, <1>u DEF Refuse, FinishRead
  <2>4. EntryRelease(cur[t], TRUE, {}) /\ UNCHANGED <<waiters, lock>>
    BY <1>10 DEF Refuse, FinishRead
  <2>5. Entries' /\ Mutex'
    BY <1>e, <1>t, <2>1, <2>4 DEF Mutex
  <2>6. OthersStay(t)
    BY <1>10, StepOfOne DEF EntryStep
  <2> QED BY <1>q, <1>p, <2>2, <2>3, <2>5, <2>6
<1>11. ASSUME NEW t \in Worker, FinishWrite(t) PROVE TypeOK'
  <2>1. PICK c \in Chunk : /\ c = cur[t] /\ data[c] \in Content /\ pc[t] = "have"
                           /\ new[t] \in Update /\ acked[c] \in Whole
    <3>1. pc[t] = "have" /\ cur[t] \in Chunk
      BY <1>11, <1>l DEF FinishWrite, Place
    <3>2. data[cur[t]] # None
      BY <3>1 DEF BufferPlaces, BufferPlace
    <3>3. data[cur[t]] \in Content /\ new[t] \in Update /\ acked[cur[t]] \in Whole
      <4>1. data[cur[t]] \in Content
        BY <1>t, <3>1, <3>2 DEF Buffers
      <4>2. new[t] \in Update
        BY <1>t DEF Threads
      <4>3. acked[cur[t]] \in Whole
        BY <1>t, <3>1 DEF Session
      <4> QED BY <4>1, <4>2, <4>3
    <3> QED BY <3>1, <3>3
  <2>2. Merge(data[c], new[t]) \in Content /\ Merge(acked[c], new[t]) \in Whole
    BY <1>m, <2>1, MergeType
  <2>3. Threads' /\ Place(t)' /\ Replies'
    BY <1>9, <1>11, <2>1, <2>2 DEF FinishWrite
  <2>4. PICK also : EntryRelease(c, TRUE, also) /\ UNCHANGED <<waiters, lock>>
    BY <1>11, <2>1 DEF FinishWrite
  <2>5. Entries' /\ Mutex'
    BY <1>e, <1>t, <2>4 DEF Mutex
  <2>6. Buffers' /\ Session'
    <3>1. /\ data' = [data EXCEPT ![c] = Merge(data[c], new[t])]
          /\ acked' = [acked EXCEPT ![c] = Merge(acked[c], new[t])]
          /\ \/ UNCHANGED <<dirty, dirtyq>>
             \/ /\ dirty' = [dirty EXCEPT ![c] = "fresh"]
                /\ dirtyq' = Append(dirtyq, c)
          /\ UNCHANGED <<error, allocatable, stopping, leave_dirty, store,
                         ca_dirty, faulted>>
      BY <1>11, <2>1 DEF FinishWrite
    <3>2. Append(dirtyq, c) \in Seq(Chunk)
      BY <1>t, SMTT(20) DEF Buffers
    <3>3. /\ data' \in [Chunk -> Content \cup {None}]
          /\ dirty' \in [Chunk -> {"clean", "fresh", "ripe"}]
      BY <1>t, <2>2, <3>1 DEF Buffers
    <3>4. Session'
      BY <1>t, <2>2, <3>1 DEF Session
    <3> QED BY <1>t, <3>1, <3>2, <3>3, <3>4 DEF Buffers
  <2>7. OthersStay(t)
    BY <1>11, StepOfOne DEF EntryStep
  <2> QED BY <1>q, <1>p, <2>3, <2>5, <2>6, <2>7
<1>12. ASSUME NEW t \in Thread, CleanNext(t) PROVE TypeOK'
  <2>1. PICK h \in Chunk : h = Head(dirtyq)
    BY <1>12, <1>t, HeadFacts DEF CleanNext, Buffers
  <2>2. Unlinked(reclaimable, h) \in Seq(Chunk)
    BY <1>t, UnlinkedFacts DEF Entries, EntriesLive
  <2>3. Entries'
    BY <1>12, <1>t, <2>1, <2>2 DEF CleanNext, Entries
  <2>4. Buffers' /\ Session' /\ Replies'
    BY <1>12, <1>u DEF CleanNext
  <2>5. Mutex' /\ Threads' /\ cur'[t] = h /\ pc[t] = "loop" /\ pc'[t] = "cwait"
    BY <1>12, <1>t, <2>1 DEF CleanNext, Mutex, Threads
  <2>6. Place(t)'
    BY <1>l, <2>5 DEF Place
  <2>7. OthersStay(t)
    BY <1>12, StepOfOne DEF CleanStep
  <2> QED BY <1>q, <1>p, <2>3, <2>4, <2>5, <2>6, <2>7
<1>13. ASSUME NEW t \in Thread, CleanSkip(t) \/ CleanBreak(t) PROVE TypeOK'
  <2>1. cur[t] \in Chunk
    BY <1>13, <1>l DEF CleanSkip, CleanBreak, Place
  <2>2. Buffers' /\ Session' /\ Replies'
    BY <1>13, <1>u DEF CleanSkip, CleanBreak
  <2>3. PICK h : EntryRelease(cur[t], h, {}) /\ UNCHANGED <<waiters, lock>>
    BY <1>13 DEF CleanSkip, CleanBreak
  <2>4. Entries' /\ Mutex'
    BY <1>e, <1>t, <2>1, <2>3 DEF Mutex
  <2>5. /\ Threads' /\ pc[t] = "chold"
        /\ pc'[t] = "loop" \/ (pc'[t] = "rest" /\ t = Cleaner)
    <3>1. /\ pc[t] = "chold" /\ cur' = [cur EXCEPT ![t] = None]
          /\ UNCHANGED <<victim, new>>
      BY <1>13 DEF CleanSkip, CleanBreak
    <3>2. PICK l : /\ pc' = [pc EXCEPT ![t] = l]
                   /\ l = "loop" \/ (l = "rest" /\ t = Cleaner)
      BY <1>13, <1>t DEF CleanSkip, CleanBreak, Forced, Threads
    <3>3. pc'[t] = l
      BY <1>t, <3>2 DEF Threads
    <3>4. Threads'
      BY <1>t, <3>1, <3>2 DEF Threads
    <3> QED BY <3>1, <3>2, <3>3, <3>4
  <2>6. Place(t)'
    BY <1>l, <2>5 DEF Place
  <2>7. OthersStay(t)
    BY <1>13, StepOfOne DEF CleanStep
  <2> QED BY <1>q, <1>p, <2>2, <2>4, <2>5, <2>6, <2>7
<1>14. ASSUME NEW t \in Thread, CleanStart(t) PROVE TypeOK'
  <2>1. Unlinked(dirtyq, cur[t]) \in Seq(Chunk)
    BY <1>t, UnlinkedFacts DEF Buffers, DirtyTracked
  <2>2. Entries' /\ Session' /\ Replies'
    BY <1>14, <1>u DEF CleanStart
  <2>3. Buffers' /\ Mutex'
    BY <1>14, <1>t, <2>1 DEF CleanStart, DirtyUnlinked, Buffers, Mutex
  <2>4. /\ Threads' /\ UNCHANGED <<cur, victim>>
        /\ pc[t] = "chold" /\ pc'[t] = "cwrite"
    BY <1>14, <1>t DEF CleanStart, Threads
  <2>5. Place(t)'
    BY <1>l, <2>4 DEF Place
  <2>6. OthersStay(t)
    BY <1>14, StepOfOne DEF CleanStep
  <2> QED BY <1>q, <1>p, <2>2, <2>3, <2>4, <2>5, <2>6
<1>15. ASSUME NEW t \in Thread, CleanWrite(t) PROVE TypeOK'
  <2>1. PICK c \in Chunk : c = cur[t] /\ Writing(t, c)
    BY <1>15, <1>l DEF CleanWrite, Place, Writing
  <2>2. data[c] # None
    BY <2>1 DEF DirtyTracked
  <2>3. Session' /\ error' \in [Chunk -> BOOLEAN]
    BY <1>5, <1>15, <2>1, <2>2 DEF CleanWrite
  <2>4. PICK h : EntryRelease(c, h, {}) /\ waiters' = waiters /\ lock' = t
    BY <1>15, <2>1 DEF CleanWrite
  <2>5. Entries' /\ Mutex'
    BY <1>e, <2>4 DEF Mutex
  <2>6. Buffers' /\ Replies'
    BY <1>15, <1>t, <1>u, <2>3 DEF CleanWrite, Buffers
  <2>7. Threads' /\ pc[t] = "cwrite" /\ pc'[t] = "loop"
    BY <1>15, <1>t DEF CleanWrite, Threads
  <2>8. Place(t)'
    BY <1>l, <2>7 DEF Place
  <2>9. OthersStay(t)
    BY <1>15, StepOfOne DEF CleanStep
  <2> QED BY <1>q, <1>p, <2>3, <2>5, <2>6, <2>7, <2>8, <2>9
<1>16. CASE CleanerRest \/ CleanerWake
  <2>1. Entries' /\ Buffers' /\ Session' /\ Replies'
    BY <1>16, <1>u DEF CleanerRest, CleanerWake
  <2>2. Mutex'
    BY <1>16, <1>t DEF CleanerRest, CleanerWake, Mutex
  <2>3. Threads' /\ pc'[Cleaner] \in {"sleep", "nap", "exit", "loop"}
    <3>1. PICK l \in {"sleep", "nap", "exit", "loop"} :
            pc' = [pc EXCEPT ![Cleaner] = l] /\ UNCHANGED <<cur, victim, new>>
      BY <1>16 DEF CleanerRest, CleanerWake
    <3> QED BY <1>t, <3>1 DEF Threads
  <2>4. Place(Cleaner)'
    BY <2>3 DEF Place
  <2>5. OthersStay(Cleaner)
    BY <1>16, StepOfOne
  <2> QED BY <1>q, <1>p, <2>1, <2>2, <2>3, <2>4, <2>5
<1>17. CASE StopCleaner \/ JoinCleaner \/ ClearFlag
  <2>1. Entries' /\ Buffers' /\ Replies'
    BY <1>17, <1>u DEF StopCleaner, JoinCleaner, ClearFlag
  <2>2. Mutex' /\ Session'
    BY <1>17, <1>t DEF StopCleaner, JoinCleaner, ClearFlag, Mutex, Session
  <2>3. Threads' /\ pc'[Main] \in {"join", "loop", "done"}
    BY <1>17, <1>t DEF StopCleaner, JoinCleaner, ClearFlag, Threads
  <2>4. Place(Main)'
    BY <2>3 DEF Place
  <2>5. OthersStay(Main)
    BY <1>17, StepOfOne
  <2> QED BY <1>q, <1>p, <2>1, <2>2, <2>3, <2>4, <2>5
<1>18. CASE FreeEntry
  <2>1. Unlinked(reclaimable, Head(reclaimable)) \in Seq(Chunk)
    BY <1>t, UnlinkedFacts DEF Entries, EntriesLive
  <2>2. Entries' /\ Mutex'
    BY <1>18, <1>t, <2>1 DEF FreeEntry, Entries, Mutex
  <2>3. Buffers'
    BY <1>18, <1>t DEF FreeEntry, Buffers
  <2>4. Threads' /\ Places' /\ Session' /\ Replies'
    BY <1>18, <1>u, <1>n DEF FreeEntry
  <2> QED BY <1>q, <2>2, <2>3, <2>4
<1>19. CASE \E i \in DOMAIN dirtyq : Expire(i)
  <2>1. Entries' /\ Threads' /\ Places' /\ Session' /\ Replies'
    BY <1>19, <1>u, <1>n DEF Expire
  <2>2. Buffers' /\ Mutex'
    BY <1>19, <1>t, SMTT(20) DEF Expire, Buffers, Mutex
  <2> QED BY <1>q, <2>1, <2>2
<1>20. CASE CleanerTimeout \/ \E t \in Thread : SpuriousWakeup(t)
  <2>1. Entries' /\ Buffers' /\ Threads' /\ Places' /\ Session' /\ Replies'
    BY <1>20, <1>u, <1>n DEF CleanerTimeout, SpuriousWakeup
  <2>2. Mutex'
    BY <1>20, <1>t DEF CleanerTimeout, SpuriousWakeup, Mutex
  <2> QED BY <1>q, <2>1, <2>2
<1> QED
  BY <1>1, <1>2, <1>3, <1>4, <1>6, <1>7, <1>8, <1>10, <1>11, <1>12, <1>13,
     <1>14, <1>15, <1>16, <1>17, <1>18, <1>19, <1>20
     DEF Next, EntryStep, CleanStep, CleanerStep, MainStep

-----------------------------------------------------------------------------
\* image_init() leaves an empty cache with its cleaner started.
LEMMA InitIInv ==
  ASSUME Init PROVE IInv
<1> USE ThreadsDistinct, SpecialValues
<1>1. <<>> \in Update /\ Whole \subseteq Content
  <2>1. <<>> \in [{} -> Value] /\ {} \in SUBSET Part
    BY SMTT(20)
  <2> QED BY <2>1 DEF Update, Whole, Content
<1>2. \A t \in Thread : pc[t] \in {"sleep", "serve", "idle"}
  BY DEF Init
<1>3. TypeOK
  <2>1. /\ pc \in [Thread -> WorkerPc \cup CleanerPc \cup MainPc]
        /\ \A t \in Worker : pc[t] = "idle"
        /\ pc[Cleaner] = "sleep" /\ pc[Main] = "serve"
    BY DEF Init
  <2>2. store \in [Chunk -> Content \cup {Bad}] /\ acked \in [Chunk -> Whole]
    BY <1>1 DEF Init
  <2>3. /\ dirtyq \in Seq(Chunk) /\ reclaimable \in Seq(Chunk)
        /\ allocatable \in Nat /\ new \in [Thread -> Update]
    BY <1>1, CapacityNat, SMTT(20) DEF Init
  <2>4. /\ busy \in [Chunk -> Thread \cup {None}]
        /\ waiters \in [Chunk -> SUBSET Thread]
        /\ data \in [Chunk -> Content \cup {None}]
        /\ dirty \in [Chunk -> {"clean", "fresh", "ripe"}]
        /\ error \in [Chunk -> BOOLEAN]
        /\ cur \in [Thread -> Chunk \cup {None}]
        /\ victim \in [Thread -> Chunk \cup {None}]
    BY DEF Init
  <2>5. /\ chunks = {} /\ stopping = FALSE /\ leave_dirty = FALSE /\ lock = None
        /\ asleep = {} /\ out = None /\ ca_dirty = TRUE /\ faulted = {}
    BY DEF Init
  <2> QED BY <1>2, <2>1, <2>2, <2>3, <2>4, <2>5 DEF TypeOK
<1>4. Ownership
  BY <1>2 DEF Init, Ownership, Holds, Wants
<1>5. EntriesLive
  BY EmptyFacts DEF Init, EntriesLive
<1>6. DirtyTracked
  BY <1>2, EmptyFacts DEF Init, DirtyTracked, Writing
<1>7. BufferPlaces
  BY <1>2 DEF BufferPlaces, BufferPlace
<1>8. Coherent
  <2>1. Bad \notin Whole
    BY <1>1
  <2> QED BY <2>1 DEF Init, Coherent, CoherentChunk
<1>9. NoJunk
  BY DEF Init, NoJunk
<1>10. Phases
  BY <1>2 DEF Init, Phases
<1> QED BY <1>3, <1>4, <1>5, <1>6, <1>7, <1>8, <1>9, <1>10 DEF IInv

\* Every step of every thread preserves the invariant.
LEMMA NextIInv ==
  ASSUME IInv, Next PROVE IInv'
<1>1. /\ TypeOK /\ Ownership /\ EntriesLive /\ DirtyTracked /\ BufferPlaces
      /\ Coherent /\ NoJunk /\ Phases
  BY DEF IInv
<1>2. TypeOK' BY <1>1, TypeOKStep
<1>3. Ownership' BY <1>1, OwnershipStep
<1>4. EntriesLive' BY <1>1, EntriesLiveStep
<1>5. DirtyTracked' BY <1>1, DirtyTrackedStep
<1>6. BufferPlaces' BY <1>1, BufferPlacesStep
<1>7. Coherent' BY <1>1, CoherentStep
<1>8. NoJunk' BY <1>1, NoJunkStep
<1>9. Phases' BY <1>1, PhasesStep
<1> QED BY <1>2, <1>3, <1>4, <1>5, <1>6, <1>7, <1>8, <1>9 DEF IInv

\* The conjunction of the invariants of the chunk cache is inductive.
THEOREM Invariance == Spec => []IInv
<1>1. IInv /\ [Next]_vars => IInv'
  BY NextIInv, StutterIInv
<1> QED BY <1>1, InitIInv, PTL DEF Spec

\* The variables of fuse_image.c keep their types.
THEOREM TypeCorrect == Spec => []TypeOK
<1>1. IInv => TypeOK BY DEF IInv
<1> QED BY <1>1, Invariance, PTL

\* The busy flag excludes: entry_acquire() and entry_clean() never let two
\* threads use one buffer at a time, although they use it without the mutex.
THEOREM MutualExclusion == Spec => []Exclusive
<1>1. IInv => Exclusive
  BY HeldByOne DEF IInv, Exclusive
<1> QED BY <1>1, Invariance, PTL

\* _entry_release() frees no entry that is in use and leaks none that is not.
THEOREM NoUseAfterFree == Spec => []EntriesLive
<1>1. IInv => EntriesLive BY DEF IInv
<1> QED BY <1>1, Invariance, PTL

\* An entry is dirty exactly while it is queued or being written back, so that
\* entry_clean_all() and entry_acquire() between them miss none.
THEOREM DirtyNeverLost == Spec => []DirtyTracked
<1>1. IInv => DirtyTracked BY DEF IInv
<1> QED BY <1>1, Invariance, PTL

\* Whatever the workers, the cleaner and the evictions do, the cache holds what
\* image_write() acknowledged, until an I/O error is recorded.
THEOREM Coherence == Spec => []Coherent
<1>1. IInv => Coherent BY DEF IInv
<1> QED BY <1>1, Invariance, PTL

\* No request is answered with uninitialised or reclaimed memory.
THEOREM NoJunkRead == Spec => []NoJunk
<1>1. IInv => NoJunk BY DEF IInv
<1> QED BY <1>1, Invariance, PTL

\* The assertion of image_shutdown() holds, and fuse_shutdown() clears the
\* dirty flag only if the local cache has every acknowledged write.
THEOREM ShutdownIsClean == Spec => []CleanShutdown
<1>1. ASSUME IInv, pc[Main] = "done" PROVE chunks = {}
  <2>1. /\ \A u \in Thread : pc[u] \in {"idle", "exit", "done"}
        /\ reclaimable = <<>>
    BY <1>1 DEF IInv, Phases
  <2>2. \A c \in Chunk, u \in Thread : ~Holds(u, c) /\ ~Wants(u, c)
    BY <2>1 DEF Holds, Wants
  <2>t. /\ busy \in [Chunk -> Thread \cup {None}]
        /\ waiters \in [Chunk -> SUBSET Thread]
        /\ Ownership
    BY <1>1 DEF IInv, TypeOK
  <2>3. \A c \in Chunk : busy[c] = None /\ waiters[c] = {}
    BY <2>t, <2>2 DEF Ownership
  <2>4. \A c \in Chunk : c \notin chunks
    BY <1>1, <2>1, <2>3, EmptyFacts DEF IInv, EntriesLive
  <2> QED BY <1>1, <2>4 DEF IInv, TypeOK
<1>2. ASSUME IInv, ~ca_dirty PROVE store = acked
  <2>1. pc[Main] = "done" /\ faulted = {} /\ dirtyq = <<>>
    BY <1>2 DEF IInv, Phases
  <2>2. \A c \in Chunk : dirty[c] = "clean"
    BY <1>2, <2>1, QueueDrained DEF IInv
  <2>3. \A c \in Chunk : store[c] = acked[c]
    BY <1>2, <2>1, <2>2 DEF IInv, Coherent, CoherentChunk
  <2> QED BY <1>2, <2>3, SMTT(20) DEF IInv, TypeOK
<1>3. IInv => CleanShutdown
  BY <1>1, <1>2 DEF CleanShutdown
<1> QED BY <1>3, Invariance, PTL

-----------------------------------------------------------------------------
(* The atomic disk                                                         *)

\* What the atomic disk sees of the cache.
diskvars == <<acked, store, faulted, out, ca_dirty>>

\* A writeback, by entry_clean() for the cleaner, for an fsync, for an eviction
\* or at the unmount, persists a chunk of the atomic disk or faults it.
LEMMA WritebackRefines ==
  ASSUME IInv, NEW t \in Thread, NEW c \in Chunk, Writing(t, c), CacheUpdate(c),
         UNCHANGED <<acked, out, ca_dirty>>
  PROVE  Disk!Persist(c) \/ Disk!Fault(c)
<1>1. ca_dirty
  <2>1. pc[Main] # "done"
    BY ThreadsDistinct DEF IInv, Phases, Writing
  <2> QED BY <2>1 DEF IInv, Phases
<1>2. /\ dirty[c] # "clean" /\ data[c] \in Whole
      /\ c \notin faulted => data[c] = acked[c]
  BY DEF IInv, DirtyTracked, Coherent, CoherentChunk
<1>3. CASE store' = [store EXCEPT ![c] = data[c]] /\ UNCHANGED faulted
  <2>1. data[c] \in Disk!Visible(c, acked[c])
    BY <1>2 DEF Disk!Visible, Disk!Whole, Whole
  <2> QED BY <1>1, <1>3, <2>1 DEF Disk!Persist
<1>4. CASE \E v \in {store[c], Bad} : /\ store' = [store EXCEPT ![c] = v]
                                      /\ faulted' = faulted \cup {c}
  BY <1>1, <1>4 DEF Disk!Fault
<1> QED BY <1>3, <1>4 DEF CacheUpdate, EntrySetError

\* The answers to image_read() and image_write() are those of the atomic disk.
LEMMA ReplyRefines ==
  ASSUME IInv, NEW t \in Worker, Refuse(t) \/ FinishRead(t) \/ FinishWrite(t)
  PROVE  Disk!Next
<1> DEFINE c == cur[t]
<1>1. /\ c \in Chunk /\ pc[t] = "have" /\ new[t] \in Update /\ t \in Thread
      /\ acked[c] \in Whole
  BY DEF IInv, TypeOK, Refuse, FinishRead, FinishWrite
<1>2. ca_dirty
  <2>1. pc[Main] # "done"
    BY <1>1, ThreadsDistinct DEF IInv, Phases
  <2> QED BY <2>1 DEF IInv, Phases
<1>3. CASE Refuse(t)
  <2>1. c \in faulted
    BY <1>1, <1>3 DEF IInv, Coherent, CoherentChunk, Refuse
  <2>2. Disk!Fail(c)
    BY <1>3, <2>1 DEF Disk!Fail, Refuse, Reply
  <2> QED BY <1>1, <2>2 DEF Disk!Next
<1>4. CASE FinishRead(t)
  <2>1. WithData(t) /\ pc[t] = "have" /\ ~error[c]
    BY <1>4, PartNonempty DEF FinishRead, WithData
  <2>2. data[c] \in Whole /\ (c \notin faulted => data[c] = acked[c])
    <3>1. ~Raw(c)
      BY <2>1, HandedOut DEF IInv
    <3>2. data[c] # None
      BY <1>1 DEF IInv, BufferPlaces, BufferPlace
    <3> QED BY <1>1, <2>1, <3>1, <3>2 DEF IInv, Coherent, CoherentChunk
  <2>3. data[c] \in Disk!Visible(c, acked[c])
    BY <2>2 DEF Disk!Visible, Disk!Whole, Whole
  <2>4. Disk!Read(c)
    BY <1>4, <2>3 DEF Disk!Read, FinishRead, Reply
  <2> QED BY <1>1, <2>4 DEF Disk!Next
<1>5. CASE FinishWrite(t)
  <2> DEFINE content == Merge(data[c], new[t])
  <2>1. /\ content \in Whole
        /\ c \notin faulted => content = Merge(acked[c], new[t])
    BY <1>1, <1>5, HandedOut DEF IInv, FinishWrite
  <2>2. Merge(acked[c], new[t]) = Disk!Merge(acked[c], new[t])
    BY DEF Merge, Disk!Merge
  <2>3. content \in Disk!Visible(c, Disk!Merge(acked[c], new[t]))
    BY <2>1, <2>2 DEF Disk!Visible, Disk!Whole, Whole
  <2>4. /\ acked' = [acked EXCEPT ![c] = Merge(acked[c], new[t])]
        /\ out' = [chunk |-> c, reply |-> content]
        /\ UNCHANGED <<store, faulted, ca_dirty>>
    BY <1>5 DEF FinishWrite, Reply
  <2>5. Disk!Write(c, new[t])
    BY <1>2, <2>2, <2>3, <2>4 DEF Disk!Write
  <2>6. new[t] \in Disk!Update
    BY <1>1 DEF Update, Disk!Update
  <2> QED BY <1>1, <2>5, <2>6 DEF Disk!Next
<1> QED BY <1>3, <1>4, <1>5

\* Every step of the cache is a step of the atomic disk or one that it does not
\* see.
LEMMA StepRefines ==
  ASSUME IInv, Next
  PROVE  Disk!Next \/ UNCHANGED diskvars
<1> USE DEF diskvars
<1>1. ASSUME NEW t \in Thread, CleanWrite(t) PROVE Disk!Next
  <2>1. PICK c \in Chunk : c = cur[t] /\ Writing(t, c)
    BY <1>1 DEF CleanWrite, IInv, TypeOK, Writing
  <2>2. CacheUpdate(c) /\ UNCHANGED <<acked, out, ca_dirty>>
    BY <1>1, <2>1 DEF CleanWrite
  <2> QED BY <2>1, <2>2, WritebackRefines DEF Disk!Next
<1>2. ASSUME NEW t \in Worker, EvictWrite(t) PROVE Disk!Next
  <2>1. PICK c \in Chunk : c = victim[t] /\ Writing(t, c)
    BY <1>2 DEF EvictWrite, IInv, TypeOK, Writing
  <2>2. CacheUpdate(c) /\ UNCHANGED <<acked, out, ca_dirty>>
    BY <1>2, <2>1 DEF EvictWrite
  <2> QED BY <2>1, <2>2, WritebackRefines DEF Disk!Next
<1>3. ASSUME NEW t \in Worker, Fill(t) PROVE Disk!Next \/ UNCHANGED diskvars
  <2>1. PICK c \in Chunk : c = cur[t]
    BY <1>3 DEF Fill, IInv, TypeOK
  <2>2. ca_dirty
    <3>1. pc[Main] # "done"
      BY <1>3, ThreadsDistinct DEF IInv, Phases, Fill
    <3> QED BY <3>1 DEF IInv, Phases
  <2>3. UNCHANGED <<acked, store, out, ca_dirty>>
    BY <1>3 DEF Fill
  <2>4. CASE faulted' = faulted
    BY <2>3, <2>4
  <2>5. CASE faulted' = faulted \cup {c}
    <3>1. store' = [store EXCEPT ![c] = store[c]]
      BY <2>3 DEF IInv, TypeOK
    <3>2. Disk!Fault(c)
      BY <2>2, <2>3, <2>5, <3>1 DEF Disk!Fault
    <3> QED BY <3>2 DEF Disk!Next
  <2> QED BY <1>3, <2>1, <2>4, <2>5 DEF Fill, CacheGet, EntrySetError
<1>4. ASSUME ClearFlag PROVE Disk!Next \/ UNCHANGED diskvars
  <2>1. UNCHANGED <<acked, store, faulted, out>> /\ ca_dirty' = leave_dirty
    BY <1>4 DEF ClearFlag
  <2>2. CASE leave_dirty
    <3>1. ca_dirty /\ ca_dirty \in BOOLEAN
      BY <1>4 DEF ClearFlag, IInv, TypeOK, Phases
    <3> QED BY <2>1, <2>2, <3>1 DEF IInv, TypeOK
  <2>3. CASE ~leave_dirty
    <3>1. faulted = {}
      BY <2>3 DEF IInv, Phases
    <3>2. \A c \in Chunk : dirty[c] = "clean"
      BY <1>4, QueueDrained DEF IInv, ClearFlag
    <3>3. \A c \in Chunk : store[c] = acked[c]
      BY <3>1, <3>2 DEF IInv, Coherent, CoherentChunk
    <3>4. store = acked
      BY <3>3, SMTT(20) DEF IInv, TypeOK
    <3>5. ca_dirty' = FALSE
      BY <2>1, <2>3 DEF IInv, TypeOK
    <3>6. Disk!Close
      BY <2>1, <3>1, <3>4, <3>5 DEF Disk!Close
    <3> QED BY <3>6 DEF Disk!Next
  <2> QED BY <2>2, <2>3
<1>5. ASSUME NEW t \in Worker,
             \/ \E c \in Chunk, u \in Update : Request(t, c, u)
             \/ SyncRequest(t) \/ AwaitEntry(t) \/ AcquireEntry(t) \/ Hit(t)
             \/ Allocate(t) \/ AwaitBuffer(t) \/ Reclaim(t) \/ Steal(t)
      PROVE  UNCHANGED diskvars
  BY <1>5 DEF Request, SyncRequest, AwaitEntry, AcquireEntry, Hit, Allocate,
     AwaitBuffer, Reclaim, Steal
<1>6. ASSUME NEW t \in Thread,
             \/ CleanNext(t) \/ CleanAwait(t) \/ CleanAcquire(t) \/ CleanSkip(t)
             \/ CleanBreak(t) \/ CleanStart(t) \/ SyncReturn(t)
      PROVE  UNCHANGED diskvars
  BY <1>6 DEF CleanNext, CleanAwait, CleanAcquire, CleanSkip, CleanBreak,
     CleanStart, SyncReturn
<1>7. CASE \/ CleanerRest \/ CleanerWake \/ CleanerTimeout \/ StopCleaner
           \/ JoinCleaner \/ FreeEntry \/ \E i \in DOMAIN dirtyq : Expire(i)
           \/ \E t \in Thread : SpuriousWakeup(t)
  BY <1>7 DEF CleanerRest, CleanerWake, CleanerTimeout, StopCleaner,
     JoinCleaner, FreeEntry, Expire, SpuriousWakeup
<1> QED
  BY <1>1, <1>2, <1>3, <1>4, <1>5, <1>6, <1>7, ReplyRefines
     DEF Next, EntryStep, CleanStep, CleanerStep, MainStep

\* The chunk cache implements the atomic disk: to the virtual machine and to
\* the next session, the workers, the cleaner, the evictions and the unmount
\* together look like one disk on which each request takes effect at once.
THEOREM CacheIsAtomicDisk == Spec => AtomicDiskSpec
<1>1. Init => Disk!Init
  BY DEF Init, Disk!Init, Whole, Disk!Whole
<1>2. IInv /\ [Next]_vars => [Disk!Next]_(Disk!vars)
  <2>1. ASSUME UNCHANGED vars PROVE UNCHANGED Disk!vars
    BY <2>1 DEF vars, Disk!vars
  <2>2. ASSUME UNCHANGED diskvars PROVE UNCHANGED Disk!vars
    BY <2>2 DEF diskvars, Disk!vars
  <2> QED BY <2>1, <2>2, StepRefines
<1> QED BY <1>1, <1>2, Invariance, PTL DEF Spec, AtomicDiskSpec, Disk!Spec

-----------------------------------------------------------------------------
(* The buffers                                                             *)

\* The chunks that have a buffer.
Buffered == {c \in Chunk : data[c] # None}

\* Buffers come from entry_acquire(), move with a reclaimed entry and go in
\* image_shutdown(); no other step makes or loses one.
LEMMA BuffersStep ==
  ASSUME IInv, BuffersConserved, Next
  PROVE  BuffersConserved'
<1> USE ThreadsDistinct, SpecialValues DEF Goto
<1> DEFINE n == Cardinality(Buffered)
<1>f. IsFiniteSet(Buffered) /\ n \in Nat
  <2>1. Buffered \in SUBSET Chunk
    BY DEF Buffered
  <2>2. IsFiniteSet(Buffered)
    BY <2>1, ChunkFinite, FS_Subset
  <2> QED BY <2>2, FS_CardinalityType
<1>b. IF stopping THEN allocatable + n <= Capacity ELSE allocatable + n = Capacity
  BY DEF BuffersConserved, Buffered
<1>g. BuffersConserved' <=>
        IF stopping' THEN allocatable' + Cardinality(Buffered') <= Capacity
                     ELSE allocatable' + Cardinality(Buffered') = Capacity
  BY DEF BuffersConserved, Buffered
<1>t. /\ data \in [Chunk -> Content \cup {None}] /\ allocatable \in Nat
      /\ stopping \in BOOLEAN /\ DOMAIN data = Chunk
  BY DEF IInv, TypeOK
<1> HIDE DEF n
\* Most steps leave the buffers alone.
<1>u. ASSUME Buffered' = Buffered, allocatable' = allocatable,
             stopping' = stopping \/ stopping' = TRUE
      PROVE  BuffersConserved'
  BY <1>u, <1>b, <1>g, <1>f, <1>t, CapacityNat, SMTT(20) DEF n
<1>v. ASSUME UNCHANGED <<data, allocatable, stopping>> PROVE BuffersConserved'
  BY <1>v, <1>u DEF Buffered
<1>1. ASSUME NEW t \in Worker, Allocate(t) PROVE BuffersConserved'
  <2>1. PICK c \in Chunk : c = cur[t]
    BY <1>1 DEF Allocate, IInv, TypeOK
  <2>2. /\ data[c] = None /\ allocatable > 0 /\ allocatable' = allocatable - 1
        /\ data' = [data EXCEPT ![c] = [p \in Part |-> Junk]] /\ UNCHANGED stopping
    BY <1>1, <2>1 DEF Allocate, MayAllocate
  <2>3. [p \in Part |-> Junk] # None
    BY DEF Content
  <2>4. Buffered' = Buffered \cup {c} /\ c \notin Buffered
    BY <1>t, <2>2, <2>3 DEF Buffered
  <2>5. Cardinality(Buffered') = n + 1
    BY <1>f, <2>4, FS_AddElement DEF n
  <2> QED BY <1>b, <1>g, <1>f, <1>t, <2>2, <2>5, CapacityNat, SMTT(20)
<1>2. ASSUME NEW t \in Worker, Steal(t) PROVE BuffersConserved'
  <2>1. PICK c \in Chunk, v \in Chunk : c = cur[t] /\ v = victim[t]
    BY <1>2 DEF Steal, IInv, TypeOK
  <2>2. data[c] = None /\ data[v] # None
    BY <1>2, <2>1 DEF Steal, IInv, BufferPlaces, BufferPlace
  <2>3. /\ data' = [data EXCEPT ![c] = data[v], ![v] = None]
        /\ UNCHANGED <<allocatable, stopping>>
    BY <1>2, <2>1 DEF Steal, BuffersMoved
  <2>4. Buffered' = (Buffered \ {v}) \cup {c}
    BY <1>t, <2>2, <2>3 DEF Buffered
  <2>5. v \in Buffered /\ c \notin Buffered
    BY <2>2 DEF Buffered
  <2>6. IsFiniteSet(Buffered \ {v}) /\ Cardinality(Buffered \ {v}) = n - 1
    BY <1>f, <2>5, FS_RemoveElement DEF n
  <2>7. Cardinality(Buffered') = (n - 1) + 1
    BY <2>4, <2>5, <2>6, FS_AddElement
  <2> QED BY <1>b, <1>g, <1>f, <1>t, <2>3, <2>7, CapacityNat, SMTT(20)
<1>3. ASSUME FreeEntry PROVE BuffersConserved'
  <2>1. PICK c \in Chunk : c = Head(reclaimable) /\ c \in Range(reclaimable)
    BY <1>3, HeadFacts DEF FreeEntry, IInv, TypeOK
  <2>2. /\ data' = [data EXCEPT ![c] = None] /\ UNCHANGED <<allocatable, stopping>>
        /\ pc[Main] = "loop"
    BY <1>3, <2>1 DEF FreeEntry
  <2>3. stopping
    BY <2>2 DEF IInv, Phases
  <2>4. Buffered' = Buffered \ {c}
    BY <1>t, <2>2 DEF Buffered
  <2>5. Cardinality(Buffered') \in {n, n - 1} /\ Cardinality(Buffered') \in Nat
    BY <1>f, <2>4, FS_RemoveElement, FS_CardinalityType DEF n
  <2> QED BY <1>b, <1>g, <1>f, <1>t, <2>2, <2>3, <2>5, CapacityNat, SMTT(20)
<1>4. ASSUME NEW t \in Worker, Fill(t) PROVE BuffersConserved'
  <2>1. PICK c \in Chunk : c = cur[t]
    BY <1>4 DEF Fill, IInv, TypeOK
  <2>2. data[c] # None
    BY <1>4, <2>1 DEF Fill, IInv, BufferPlaces, BufferPlace
  <2>3. store[c] # Bad => store[c] # None
    BY SMTT(30) DEF IInv, TypeOK
  <2>4. UNCHANGED <<allocatable, stopping>>
    BY <1>4 DEF Fill
  <2>5. UNCHANGED data \/ (store[c] # Bad /\ data' = [data EXCEPT ![c] = store[c]])
    BY <1>4, <2>1 DEF Fill, CacheGet
  <2>6. Buffered' = Buffered
    BY <1>t, <2>2, <2>3, <2>5 DEF Buffered
  <2> QED BY <1>u, <2>4, <2>6
<1>5. ASSUME NEW t \in Worker, FinishWrite(t) PROVE BuffersConserved'
  <2>1. PICK c \in Chunk : c = cur[t]
    BY <1>5 DEF FinishWrite, IInv, TypeOK
  <2>2. data[c] # None /\ new[t] \in Update
    BY <1>5, <2>1 DEF FinishWrite, IInv, TypeOK, BufferPlaces, BufferPlace
  <2>3. Merge(data[c], new[t]) # None
    BY <1>t, <2>2, MergeType, SMTT(20)
  <2>4. /\ data' = [data EXCEPT ![c] = Merge(data[c], new[t])]
        /\ UNCHANGED <<allocatable, stopping>>
    BY <1>5, <2>1 DEF FinishWrite
  <2>5. Buffered' = Buffered
    BY <1>t, <2>2, <2>3, <2>4 DEF Buffered
  <2> QED BY <1>u, <2>4, <2>5
<1>6. ASSUME StopCleaner PROVE BuffersConserved'
  <2>1. UNCHANGED <<data, allocatable>> /\ stopping' = TRUE
    BY <1>6 DEF StopCleaner
  <2> QED BY <1>u, <2>1 DEF Buffered
<1>7. ASSUME NEW t \in Worker,
             \/ \E c \in Chunk, u \in Update : Request(t, c, u)
             \/ SyncRequest(t) \/ AwaitEntry(t) \/ AcquireEntry(t) \/ Hit(t)
             \/ AwaitBuffer(t) \/ Reclaim(t) \/ EvictWrite(t)
             \/ Refuse(t) \/ FinishRead(t)
      PROVE  UNCHANGED <<data, allocatable, stopping>>
  BY <1>7 DEF Request, SyncRequest, AwaitEntry, AcquireEntry, Hit,
     AwaitBuffer, Reclaim, EvictWrite, Refuse, FinishRead
<1>8. ASSUME NEW t \in Thread, CleanStep(t)
      PROVE  UNCHANGED <<data, allocatable, stopping>>
  BY <1>8 DEF CleanStep, CleanNext, CleanAwait, CleanAcquire, CleanSkip,
     CleanBreak, CleanStart, CleanWrite, SyncReturn
<1>9. ASSUME \/ CleanerRest \/ CleanerWake \/ CleanerTimeout
             \/ JoinCleaner \/ ClearFlag \/ \E i \in DOMAIN dirtyq : Expire(i)
             \/ \E t \in Thread : SpuriousWakeup(t)
      PROVE  UNCHANGED <<data, allocatable, stopping>>
  BY <1>9 DEF CleanerRest, CleanerWake, CleanerTimeout, JoinCleaner,
     ClearFlag, Expire, SpuriousWakeup
<1> QED
  BY <1>v, <1>1, <1>2, <1>3, <1>4, <1>5, <1>6, <1>7, <1>8, <1>9
     DEF Next, EntryStep, CleanerStep, MainStep

\* Until image_shutdown() frees them, as many buffers exist as entry_acquire()
\* has allocated, whatever is reclaimed from whom.
THEOREM BuffersAreConserved == Spec => []BuffersConserved
<1>1. Init => BuffersConserved
  <2> SUFFICES ASSUME Init PROVE BuffersConserved
    OBVIOUS
  <2>1. {c \in Chunk : data[c] # None} = {}
    BY DEF Init
  <2>2. Cardinality({c \in Chunk : data[c] # None}) = 0
    BY <2>1, FS_EmptySet
  <2>3. allocatable = Capacity /\ stopping = FALSE
    BY DEF Init
  <2> QED BY <2>2, <2>3, CapacityNat, SMTT(20) DEF BuffersConserved
<1>2. IInv /\ BuffersConserved /\ [Next]_vars => BuffersConserved'
  <2>1. ASSUME UNCHANGED vars, BuffersConserved PROVE BuffersConserved'
    BY <2>1 DEF vars, BuffersConserved
  <2> QED BY <2>1, BuffersStep
<1> QED BY <1>1, <1>2, Invariance, PTL DEF Spec

-----------------------------------------------------------------------------
(* Signals and sleepers                                                    *)

\* Where a thread can be blocked in g_cond_wait().
SleepPlaces ==
  \A t \in asleep : pc[t] \in {"entry", "cwait", "buffer", "nap", "sleep"}

\* The three parts of NoLostWakeup: the waiters of an entry, the threads that
\* want a buffer, and the cleaner.
EntryWoken ==
  \A c \in Chunk :
    busy[c] = None /\ waiters[c] # {} => ~(waiters[c] \subseteq asleep)
AwakeForBuffer == {t \in Thread \ asleep : pc[t] = "buffer"}
BufferWoken ==
  OnReclaimable # {} => Len(reclaimable) <= Cardinality(AwakeForBuffer)
CleanerWoken == pc[Cleaner] = "sleep" /\ Cleaner \in asleep => dirtyq = <<>>

\* An element that is unlinked makes the queue shorter by one.
LEMMA UnlinkedLength ==
  ASSUME NEW S, NEW q \in Seq(S), NEW e
  PROVE  /\ Len(Unlinked(q, e)) <= Len(q)
         /\ e \in Range(q) => Len(Unlinked(q, e)) = Len(q) - 1
         /\ Len(Unlinked(q, e)) \in Nat /\ Len(q) \in Nat
<1>1. CASE e \in Range(q)
  <2> DEFINE k == CHOOSE i \in DOMAIN q : q[i] = e
  <2>1. k \in 1..Len(q)
    BY <1>1, SMTT(20) DEF Range
  <2>2. Unlinked(q, e) = Without(q, k)
    BY <1>1 DEF Unlinked
  <2> HIDE DEF k
  <2>3. Len(Without(q, k)) = Len(q) - 1
    BY <2>1, WithoutFacts
  <2>4. Len(q) \in Nat /\ Len(q) >= 1
    BY <2>1, SMTT(20)
  <2> QED BY <2>2, <2>3, <2>4, SMTT(20)
<1>2. CASE e \notin Range(q)
  BY <1>2, SMTT(20) DEF Unlinked
<1> QED BY <1>1, <1>2

\* _entry_release(): if somebody waits for the entry then somebody who waits is
\* awake, and only threads of the three conditions are woken.
LEMMA ReleaseWakes ==
  ASSUME NEW c \in Chunk, NEW hasdata, NEW also \in SUBSET asleep,
         EntryRelease(c, hasdata, also)
  PROVE  /\ asleep' \subseteq asleep \ also
         /\ waiters[c] # {} => ~(waiters[c] \subseteq asleep')
<1>1. CASE ~NoWaiters(c)
  <2>1. PICK w \in Woken(asleep \cap waiters[c]) : asleep' = asleep \ (w \cup also)
    BY <1>1 DEF EntryRelease
  <2>2. CASE asleep \cap waiters[c] = {}
    BY <2>1, <2>2
  <2>3. CASE asleep \cap waiters[c] # {}
    <3>1. PICK x \in asleep \cap waiters[c] : w = {x}
      BY <2>1, <2>3 DEF Woken
    <3> QED BY <2>1, <3>1
  <2> QED BY <2>1, <2>2, <2>3
<1>2. CASE NoWaiters(c)
  <2>1. \E w : asleep' = asleep \ (w \cup also)
    <3>1. CASE ~hasdata
      BY <1>2, <3>1 DEF EntryRelease
    <3>2. CASE hasdata
      BY <1>2, <3>2 DEF EntryRelease
    <3> QED BY <3>1, <3>2
  <2> QED BY <1>2, <2>1 DEF NoWaiters
<1> QED BY <1>1, <1>2

\* A thread moves only while it is awake, and falls asleep only in a wait.
LEMMA SleepPlacesStep ==
  ASSUME IInv, SleepPlaces, Next
  PROVE  SleepPlaces'
<1> USE ThreadsDistinct DEF Goto, SleepPlaces
<1>t. pc \in [Thread -> WorkerPc \cup CleanerPc \cup MainPc] /\ asleep \subseteq Thread
  BY DEF IInv, TypeOK
\* A step of a thread that was awake.
<1>a. ASSUME NEW t \in Thread, t \notin asleep, OthersStay(t),
             \/ asleep' \subseteq asleep
             \/ /\ asleep' = asleep \cup {t}
                /\ pc'[t] \in {"entry", "cwait", "buffer", "nap", "sleep"}
      PROVE  SleepPlaces'
  BY <1>a, <1>t DEF OthersStay
<1>b. ASSUME NEW t \in Thread, EntryStep(t) \/ CleanStep(t)
      PROVE  t \notin asleep
  BY <1>b DEF EntryStep, AwaitEntry, AcquireEntry, Hit, Allocate, AwaitBuffer,
     NeedsBuffer, CanEnter, Reclaim, EvictWrite, Steal, Fill, Refuse, FinishRead,
     FinishWrite, CleanStep, CleanNext, CleanAwait, CleanAcquire, CleanSkip,
     CleanBreak, CleanStart, CleanWrite, SyncReturn
<1>1. ASSUME NEW t \in Worker,
             (\E c \in Chunk, u \in Update : Request(t, c, u)) \/ SyncRequest(t)
      PROVE  SleepPlaces'
  <2>1. pc[t] = "idle" /\ UNCHANGED asleep
    BY <1>1 DEF Request, SyncRequest
  <2>2. OthersStay(t)
    BY <1>1, StepOfOne DEF IInv
  <2>3. t \notin asleep
    BY <2>1
  <2> QED BY <1>a, <2>1, <2>2, <2>3
<1>2. ASSUME NEW t \in Worker, EntryStep(t) PROVE SleepPlaces'
  <2>1. OthersStay(t) /\ t \notin asleep
    BY <1>2, <1>b, StepOfOne DEF IInv
  <2>2. CASE AwaitEntry(t)
    BY <1>a, <2>1, <2>2 DEF AwaitEntry
  <2>3. CASE AwaitBuffer(t)
    <3>1. asleep' = asleep \cup {t} /\ pc'[t] = "buffer"
      BY <1>t, <2>3 DEF AwaitBuffer
    <3> QED BY <1>a, <2>1, <3>1
  <2>4. CASE AcquireEntry(t) \/ Hit(t) \/ Allocate(t) \/ Reclaim(t) \/ EvictWrite(t) \/ Fill(t)
    <3>1. UNCHANGED asleep
      BY <2>4 DEF AcquireEntry, Hit, Allocate, Reclaim, EvictWrite, Fill
    <3> QED BY <1>a, <2>1, <3>1
  <2>5. CASE Steal(t) \/ Refuse(t) \/ FinishRead(t) \/ FinishWrite(t)
    <3>1. PICK c, h, also : EntryRelease(c, h, also)
      BY <2>5 DEF Steal, Refuse, FinishRead, FinishWrite
    <3>2. asleep' \subseteq asleep
      BY <3>1 DEF EntryRelease
    <3> QED BY <1>a, <2>1, <3>2
  <2> QED BY <1>2, <2>2, <2>3, <2>4, <2>5 DEF EntryStep
<1>3. ASSUME NEW t \in Thread, CleanStep(t) PROVE SleepPlaces'
  <2>1. OthersStay(t) /\ t \notin asleep
    BY <1>3, <1>b, StepOfOne DEF IInv
  <2>2. CASE CleanAwait(t)
    BY <1>a, <2>1, <2>2 DEF CleanAwait
  <2>3. CASE CleanNext(t) \/ CleanAcquire(t) \/ CleanStart(t) \/ SyncReturn(t)
    <3>1. UNCHANGED asleep
      BY <2>3 DEF CleanNext, CleanAcquire, CleanStart, SyncReturn
    <3> QED BY <1>a, <2>1, <3>1
  <2>4. CASE CleanSkip(t) \/ CleanBreak(t) \/ CleanWrite(t)
    <3>1. PICK c, h, also : EntryRelease(c, h, also)
      BY <2>4 DEF CleanSkip, CleanBreak, CleanWrite
    <3>2. asleep' \subseteq asleep
      BY <3>1 DEF EntryRelease
    <3> QED BY <1>a, <2>1, <3>2
  <2> QED BY <1>3, <2>2, <2>3, <2>4 DEF CleanStep
<1>4. CASE CleanerRest
  <2>1. /\ pc[Cleaner] \in {"rest", "loop"} /\ asleep' = asleep \cup {Cleaner}
        /\ pc'[Cleaner] \in {"sleep", "nap"}
    BY <1>4, <1>t DEF CleanerRest
  <2>2. OthersStay(Cleaner)
    BY <1>4, StepOfOne DEF IInv
  <2>3. Cleaner \notin asleep
    BY <2>1
  <2> QED BY <1>a, <2>1, <2>2, <2>3
<1>5. CASE CleanerWake
  <2>1. Cleaner \notin asleep /\ UNCHANGED asleep
    BY <1>5 DEF CleanerWake
  <2>2. OthersStay(Cleaner)
    BY <1>5, StepOfOne DEF IInv
  <2> QED BY <1>a, <2>1, <2>2
<1>6. CASE StopCleaner \/ JoinCleaner \/ ClearFlag
  <2>1. pc[Main] \in {"serve", "join", "loop"} /\ asleep' \subseteq asleep
    BY <1>6 DEF StopCleaner, JoinCleaner, ClearFlag
  <2>2. OthersStay(Main)
    BY <1>6, StepOfOne DEF IInv
  <2>3. Main \notin asleep
    BY <2>1
  <2> QED BY <1>a, <2>1, <2>2, <2>3
<1>7. CASE \/ CleanerTimeout \/ FreeEntry \/ \E i \in DOMAIN dirtyq : Expire(i)
           \/ \E t \in Thread : SpuriousWakeup(t)
  <2>1. asleep' \subseteq asleep /\ UNCHANGED pc
    BY <1>7 DEF CleanerTimeout, FreeEntry, Expire, SpuriousWakeup
  <2> QED BY <2>1
<1> QED
  BY <1>1, <1>2, <1>3, <1>4, <1>5, <1>6, <1>7 DEF Next, CleanerStep, MainStep

\* An entry that is free has no waiters, or one that will take it: who releases
\* an entry wakes a waiter, and who starts to wait is awake.
LEMMA EntryWokenStep ==
  ASSUME IInv, SleepPlaces, EntryWoken, Next
  PROVE  EntryWoken'
<1> USE ThreadsDistinct, SpecialValues DEF Goto
<1>t. /\ busy \in [Chunk -> Thread \cup {None}]
      /\ waiters \in [Chunk -> SUBSET Thread] /\ Ownership
  BY DEF IInv, TypeOK
<1>w. \A c \in Chunk, t \in Thread :
        t \in waiters[c] => cur[t] = c /\ pc[t] \in {"entry", "cwait"}
  BY <1>t DEF Ownership, Wants
<1>u. ASSUME UNCHANGED <<busy, waiters>>, asleep' \subseteq asleep PROVE EntryWoken'
  BY <1>u DEF EntryWoken
\* The thread t takes the entry of chunk c.
<1>a. ASSUME NEW t \in Thread, NEW c \in Chunk, busy' = [busy EXCEPT ![c] = t],
             \/ waiters' = [waiters EXCEPT ![c] = @ \ {t}] \/ UNCHANGED waiters,
             UNCHANGED asleep
      PROVE  EntryWoken'
  BY <1>a, <1>t DEF EntryWoken
\* The thread t starts to wait for the entry of chunk c.
<1>e. ASSUME NEW t \in Thread, NEW c \in Chunk, t \notin asleep,
             waiters' = [waiters EXCEPT ![c] = @ \cup {t}], UNCHANGED <<busy, asleep>>
      PROVE  EntryWoken'
  BY <1>e, <1>t DEF EntryWoken
\* The thread t falls asleep, as a waiter of a busy entry or as no waiter.
<1>s. ASSUME NEW t \in Thread, asleep' = asleep \cup {t}, UNCHANGED <<busy, waiters>>,
             \A c \in Chunk : t \in waiters[c] => busy[c] # None
      PROVE  EntryWoken'
  BY <1>s, <1>t, SMTT(20) DEF EntryWoken
\* The entry of chunk c is released.
<1>r. ASSUME NEW c \in Chunk, NEW h, NEW also \in SUBSET asleep,
             EntryRelease(c, h, also), UNCHANGED waiters
      PROVE  EntryWoken'
  <2>1. /\ asleep' \subseteq asleep
        /\ waiters[c] # {} => ~(waiters[c] \subseteq asleep')
    BY <1>r, ReleaseWakes
  <2>2. busy' = [busy EXCEPT ![c] = None]
    BY <1>r DEF EntryRelease
  <2> QED BY <1>r, <1>t, <2>1, <2>2 DEF EntryWoken
<1>1. ASSUME NEW t \in Worker, NEW c \in Chunk, NEW u \in Update, Request(t, c, u)
      PROVE  EntryWoken'
  <2>1. /\ waiters' = [waiters EXCEPT ![c] = @ \cup {t}] /\ UNCHANGED <<busy, asleep>>
        /\ pc[t] = "idle"
    BY <1>1 DEF Request
  <2>2. t \notin asleep
    BY <2>1 DEF SleepPlaces
  <2> QED BY <1>e, <2>1, <2>2
<1>2. ASSUME NEW t \in Thread, CleanNext(t) PROVE EntryWoken'
  <2> DEFINE h == Head(dirtyq)
  <2>1. h \in Chunk
    BY <1>2, HeadFacts DEF CleanNext, IInv, TypeOK
  <2>2. /\ waiters' = [waiters EXCEPT ![h] = @ \cup {t}] /\ UNCHANGED <<busy, asleep>>
        /\ pc[t] = "loop"
    BY <1>2 DEF CleanNext
  <2>3. t \notin asleep
    BY <2>2 DEF SleepPlaces
  <2> HIDE DEF h
  <2> QED BY <1>e, <2>1, <2>2, <2>3
<1>3. ASSUME NEW t \in Thread, AwaitEntry(t) \/ CleanAwait(t) PROVE EntryWoken'
  <2>1. /\ asleep' = asleep \cup {t} /\ UNCHANGED <<busy, waiters>>
        /\ busy[cur[t]] # None
    BY <1>3 DEF AwaitEntry, CleanAwait
  <2> QED BY <1>s, <1>w, <2>1, SMTT(20)
<1>4. ASSUME NEW t \in Thread, AwaitBuffer(t) \/ (t = Cleaner /\ CleanerRest)
      PROVE  EntryWoken'
  <2>1. /\ asleep' = asleep \cup {t} /\ UNCHANGED <<busy, waiters>>
        /\ pc[t] \in {"owned", "buffer", "rest", "loop"}
    BY <1>4 DEF AwaitBuffer, NeedsBuffer, CleanerRest
  <2>2. \A c \in Chunk : t \notin waiters[c]
    BY <1>w, <2>1
  <2> QED BY <1>s, <2>1, <2>2
<1>5. ASSUME NEW t \in Thread, AcquireEntry(t) \/ CleanAcquire(t) PROVE EntryWoken'
  <2>1. PICK c \in Chunk : c = cur[t]
    BY <1>5 DEF AcquireEntry, CleanAcquire, IInv, TypeOK
  <2>2. /\ busy' = [busy EXCEPT ![c] = t] /\ waiters' = [waiters EXCEPT ![c] = @ \ {t}]
        /\ UNCHANGED asleep
    BY <1>5, <2>1 DEF AcquireEntry, CleanAcquire
  <2> QED BY <1>a, <2>2
<1>6. ASSUME NEW t \in Worker, Reclaim(t) PROVE EntryWoken'
  <2> DEFINE r == Head(reclaimable)
  <2>1. r \in Chunk
    BY <1>6, HeadFacts DEF Reclaim, IInv, TypeOK
  <2>2. busy' = [busy EXCEPT ![r] = t] /\ UNCHANGED <<waiters, asleep>>
    BY <1>6 DEF Reclaim
  <2> HIDE DEF r
  <2> QED BY <1>a, <2>1, <2>2
<1>7. ASSUME NEW t \in Thread,
             \/ Steal(t) \/ Refuse(t) \/ FinishRead(t) \/ FinishWrite(t)
             \/ CleanSkip(t) \/ CleanBreak(t) \/ CleanWrite(t)
      PROVE  EntryWoken'
  <2>1. cur[t] \in Chunk /\ (pc[t] = "steal" => victim[t] \in Chunk)
    BY <1>7 DEF Steal, Refuse, FinishRead, FinishWrite, CleanSkip, CleanBreak,
       CleanWrite, IInv, TypeOK
  <2>2. SignalCleaner \subseteq asleep
    BY DEF SignalCleaner, OnCleaner
  <2>3. {} \subseteq asleep
    OBVIOUS
  <2>4. CASE Steal(t)
    <3>1. PICK h : /\ EntryRelease(victim[t], h, {}) /\ UNCHANGED waiters
                   /\ pc[t] = "steal"
      BY <2>4 DEF Steal
    <3> QED BY <1>r, <2>1, <2>3, <3>1, SMTT(20)
  <2>5. CASE Refuse(t) \/ FinishRead(t)
    <3>1. PICK h : EntryRelease(cur[t], h, {}) /\ UNCHANGED waiters
      BY <2>5 DEF Refuse, FinishRead
    <3> QED BY <1>r, <2>1, <2>3, <3>1, SMTT(20)
  <2>6. CASE FinishWrite(t)
    <3>1. PICK also \in {{}, SignalCleaner} : EntryRelease(cur[t], TRUE, also)
      BY <2>6 DEF FinishWrite
    <3>2. UNCHANGED waiters
      BY <2>6 DEF FinishWrite
    <3> QED BY <1>r, <2>1, <2>2, <2>3, <3>1, <3>2
  <2>7. CASE CleanSkip(t) \/ CleanBreak(t) \/ CleanWrite(t)
    <3>1. PICK h : EntryRelease(cur[t], h, {}) /\ UNCHANGED waiters
      BY <2>7 DEF CleanSkip, CleanBreak, CleanWrite
    <3> QED BY <1>r, <2>1, <2>3, <3>1, SMTT(20)
  <2> QED BY <1>7, <2>4, <2>5, <2>6, <2>7
<1>8. ASSUME \/ \E t \in Worker : \/ SyncRequest(t) \/ Hit(t) \/ Allocate(t)
                                  \/ EvictWrite(t) \/ Fill(t)
             \/ \E t \in Thread : CleanStart(t) \/ SyncReturn(t) \/ SpuriousWakeup(t)
             \/ CleanerWake \/ CleanerTimeout \/ StopCleaner \/ JoinCleaner
             \/ FreeEntry \/ ClearFlag \/ \E i \in DOMAIN dirtyq : Expire(i)
      PROVE  EntryWoken'
  <2>1. UNCHANGED <<busy, waiters>> /\ asleep' \subseteq asleep
    BY <1>8 DEF SyncRequest, Hit, Allocate, EvictWrite, Fill, CleanStart, SyncReturn,
       SpuriousWakeup, CleanerWake, CleanerTimeout, StopCleaner, JoinCleaner,
       FreeEntry, ClearFlag, Expire
  <2> QED BY <1>u, <2>1
<1> QED
  BY <1>1, <1>2, <1>3, <1>4, <1>5, <1>6, <1>7, <1>8
     DEF Next, EntryStep, CleanStep, CleanerStep, MainStep

\* The cleaner sleeps without a timeout only while nothing is dirty: who makes
\* an entry dirty wakes it.
LEMMA CleanerWokenStep ==
  ASSUME IInv, SleepPlaces, CleanerWoken, Next
  PROVE  CleanerWoken'
<1> USE ThreadsDistinct DEF Goto
<1>t. pc \in [Thread -> WorkerPc \cup CleanerPc \cup MainPc] /\ dirtyq \in Seq(Chunk)
  BY DEF IInv, TypeOK
<1>e. ASSUME NEW c, dirtyq = <<>> PROVE Unlinked(dirtyq, c) = <<>>
  BY <1>e, EmptyFacts DEF Unlinked
\* The cleaner stays where it was, or is not asleep now.
<1>u. ASSUME \/ pc'[Cleaner] = pc[Cleaner] /\ (Cleaner \in asleep' => Cleaner \in asleep)
             \/ pc'[Cleaner] # "sleep",
             \/ UNCHANGED dirtyq
             \/ \E c : dirtyq' = Unlinked(dirtyq, c)
      PROVE  CleanerWoken'
  BY <1>u, <1>e DEF CleanerWoken
<1>1. ASSUME NEW t \in Worker, FinishWrite(t) PROVE CleanerWoken'
  <2>1. OthersStay(t)
    BY <1>1, StepOfOne DEF IInv, EntryStep
  <2>2. pc'[Cleaner] = pc[Cleaner]
    BY <2>1 DEF OthersStay
  <2>3. PICK c, also : /\ EntryRelease(c, TRUE, also)
                       /\ \/ UNCHANGED dirtyq
                          \/ also = SignalCleaner
    BY <1>1 DEF FinishWrite
  <2>4. asleep' \subseteq asleep \ also
    BY <2>3 DEF EntryRelease
  <2>5. CASE UNCHANGED dirtyq
    BY <1>u, <2>2, <2>4, <2>5
  <2>6. CASE also = SignalCleaner
    <3>1. ASSUME pc[Cleaner] = "sleep", Cleaner \in asleep PROVE Cleaner \notin asleep'
      <4>1. dirtyq = <<>>
        BY <3>1 DEF CleanerWoken
      <4>2. Cleaner \in SignalCleaner
        BY <3>1, <4>1 DEF SignalCleaner, OnCleaner
      <4> QED BY <2>4, <2>6, <4>2
    <3> QED BY <2>2, <2>4, <3>1 DEF CleanerWoken
  <2> QED BY <2>3, <2>5, <2>6
<1>2. ASSUME NEW t \in Worker,
             \/ \E c \in Chunk, u \in Update : Request(t, c, u)
             \/ SyncRequest(t) \/ EntryStep(t) \/ CleanStep(t), ~FinishWrite(t)
      PROVE  CleanerWoken'
  <2>1. OthersStay(t)
    BY <1>2, StepOfOne DEF IInv
  <2>2. pc'[Cleaner] = pc[Cleaner]
    BY <2>1 DEF OthersStay
  <2>3. asleep' \subseteq asleep \cup {t}
    BY <1>2 DEF Request, SyncRequest, EntryStep, AwaitEntry, AcquireEntry, Hit,
       Allocate, AwaitBuffer, Reclaim, EvictWrite, Steal, Fill, Refuse, FinishRead,
       CleanStep, CleanNext, CleanAwait, CleanAcquire, CleanSkip, CleanBreak,
       CleanStart, CleanWrite, SyncReturn, EntryRelease
  <2>4. UNCHANGED dirtyq \/ \E c : dirtyq' = Unlinked(dirtyq, c)
    BY <1>2 DEF Request, SyncRequest, EntryStep, AwaitEntry, AcquireEntry, Hit,
       Allocate, AwaitBuffer, Reclaim, EvictWrite, Steal, Fill, Refuse, FinishRead,
       CleanStep, CleanNext, CleanAwait, CleanAcquire, CleanSkip, CleanBreak,
       CleanStart, CleanWrite, SyncReturn, DirtyUnlinked
  <2> QED BY <1>u, <2>2, <2>3, <2>4
<1>3. ASSUME CleanStep(Cleaner) PROVE CleanerWoken'
  <2>1. pc'[Cleaner] # "sleep"
    BY <1>3, <1>t DEF CleanStep, CleanNext, CleanAwait, CleanAcquire, CleanSkip,
       CleanBreak, CleanStart, CleanWrite, SyncReturn
  <2>2. UNCHANGED dirtyq \/ \E c : dirtyq' = Unlinked(dirtyq, c)
    BY <1>3 DEF CleanStep, CleanNext, CleanAwait, CleanAcquire, CleanSkip,
       CleanBreak, CleanStart, CleanWrite, SyncReturn, DirtyUnlinked
  <2> QED BY <1>u, <2>1, <2>2
<1>4. ASSUME CleanStep(Main) \/ StopCleaner \/ JoinCleaner \/ ClearFlag
      PROVE  CleanerWoken'
  <2>1. OthersStay(Main)
    BY <1>4, StepOfOne DEF IInv
  <2>2. pc'[Cleaner] = pc[Cleaner]
    BY <2>1 DEF OthersStay
  <2>3. asleep' \subseteq asleep \cup {Main}
    BY <1>4 DEF CleanStep, CleanNext, CleanAwait, CleanAcquire, CleanSkip,
       CleanBreak, CleanStart, CleanWrite, SyncReturn, EntryRelease, StopCleaner,
       JoinCleaner, ClearFlag
  <2>4. UNCHANGED dirtyq \/ \E c : dirtyq' = Unlinked(dirtyq, c)
    BY <1>4 DEF CleanStep, CleanNext, CleanAwait, CleanAcquire, CleanSkip,
       CleanBreak, CleanStart, CleanWrite, SyncReturn, DirtyUnlinked, StopCleaner,
       JoinCleaner, ClearFlag
  <2> QED BY <1>u, <2>2, <2>3, <2>4
<1>5. CASE CleanerRest
  <2>1. /\ pc'[Cleaner] = IF dirtyq = <<>> THEN "sleep" ELSE "nap"
        /\ UNCHANGED dirtyq
    BY <1>5, <1>t DEF CleanerRest
  <2> QED BY <2>1 DEF CleanerWoken
<1>6. CASE CleanerWake
  <2>1. pc'[Cleaner] # "sleep" /\ UNCHANGED dirtyq
    BY <1>6, <1>t DEF CleanerWake
  <2> QED BY <1>u, <2>1
<1>7. ASSUME \/ CleanerTimeout \/ FreeEntry \/ \E i \in DOMAIN dirtyq : Expire(i)
             \/ \E t \in Thread : SpuriousWakeup(t)
      PROVE  CleanerWoken'
  <2>1. UNCHANGED <<pc, dirtyq>> /\ asleep' \subseteq asleep
    BY <1>7 DEF CleanerTimeout, FreeEntry, Expire, SpuriousWakeup
  <2> QED BY <1>u, <2>1
<1> QED
  BY <1>1, <1>2, <1>3, <1>4, <1>5, <1>6, <1>7 DEF Next, CleanerStep, MainStep

\* While threads sleep for want of a buffer, as many are awake to take one as
\* there are entries to reclaim: _entry_release() wakes one for each entry that
\* it makes reclaimable.
LEMMA BufferWokenStep ==
  ASSUME IInv, SleepPlaces, BufferWoken, Next
  PROVE  BufferWoken'
<1> USE ThreadsDistinct DEF Goto
<1> DEFINE A == AwakeForBuffer
           B == AwakeForBuffer'
<1>t. /\ pc \in [Thread -> WorkerPc \cup CleanerPc \cup MainPc] /\ asleep \subseteq Thread
      /\ reclaimable \in Seq(Chunk) /\ Len(reclaimable) \in Nat
  BY SMTT(30) DEF IInv, TypeOK
<1>f. /\ IsFiniteSet(A) /\ Cardinality(A) \in Nat
      /\ IsFiniteSet(B) /\ Cardinality(B) \in Nat
  <2>1. IsFiniteSet(Worker \cup {Cleaner})
    BY WorkerFinite, FS_AddElement
  <2>2. IsFiniteSet((Worker \cup {Cleaner}) \cup {Main})
    BY <2>1, FS_AddElement
  <2>3. (Worker \cup {Cleaner}) \cup {Main} = Thread
    OBVIOUS
  <2>4. A \in SUBSET Thread /\ B \in SUBSET Thread
    BY DEF AwakeForBuffer
  <2>5. IsFiniteSet(A) /\ IsFiniteSet(B)
    BY <2>2, <2>3, <2>4, FS_Subset
  <2> QED BY <2>5, FS_CardinalityType
<1>b. OnReclaimable # {} => Len(reclaimable) <= Cardinality(A)
  BY DEF BufferWoken
<1>g. ASSUME OnReclaimable' # {} => Len(reclaimable') <= Cardinality(B)
      PROVE  BufferWoken'
  BY <1>g DEF BufferWoken
\* Nobody stops being ready to reclaim, and there is no more to reclaim.
<1>u. ASSUME OnReclaimable' \subseteq OnReclaimable, A \subseteq B,
             Len(reclaimable') \in Nat, Len(reclaimable') <= Len(reclaimable)
      PROVE  BufferWoken'
  <2>1. Cardinality(A) <= Cardinality(B)
    BY <1>u, <1>f, FS_Subset
  <2> HIDE DEF A, B
  <2> QED BY <1>u, <1>t, <1>f, <1>b, <1>g, <2>1, SMTT(20)
<1>l. ASSUME UNCHANGED pc, asleep' \subseteq asleep, Len(reclaimable') \in Nat,
             Len(reclaimable') <= Len(reclaimable)
      PROVE  BufferWoken'
  <2>1. OnReclaimable' \subseteq OnReclaimable /\ A \subseteq B
    BY <1>l DEF OnReclaimable, AwakeForBuffer
  <2> HIDE DEF A, B
  <2> QED BY <1>l, <1>u, <2>1
\* A thread moves that does not want a buffer before or after.
<1>s. ASSUME NEW t \in Thread, OthersStay(t), pc[t] # "buffer", pc'[t] # "buffer",
             asleep' \subseteq asleep \cup {t}
      PROVE  OnReclaimable' \subseteq OnReclaimable /\ A \subseteq B
  <2>1. \A x \in Thread : pc[x] = "buffer" \/ pc'[x] = "buffer" => x # t /\ pc'[x] = pc[x]
    BY <1>s DEF OthersStay
  <2> QED BY <1>s, <1>t, <2>1 DEF OnReclaimable, AwakeForBuffer
<1>m. ASSUME NEW t \in Thread, OthersStay(t), pc[t] # "buffer", pc'[t] # "buffer",
             asleep' \subseteq asleep \cup {t}, Len(reclaimable') \in Nat,
             Len(reclaimable') <= Len(reclaimable)
      PROVE  BufferWoken'
  <2> HIDE DEF A, B
  <2> QED BY <1>m, <1>s, <1>u
\* A thread releases an entry.
<1>r. ASSUME NEW t \in Thread, OthersStay(t), pc[t] # "buffer", pc'[t] # "buffer",
             NEW c \in Chunk, NEW h, NEW also, EntryRelease(c, h, also)
      PROVE  BufferWoken'
  <2>1. asleep' \subseteq asleep
    BY <1>r DEF EntryRelease
  <2>2. CASE UNCHANGED reclaimable
    BY <1>m, <1>r, <1>t, <2>1, <2>2, SMTT(20)
  <2>3. CASE /\ reclaimable' = Append(reclaimable, c)
             /\ \E w \in SignalReclaimable : asleep' = asleep \ (w \cup also)
    <3>1. Len(reclaimable') = Len(reclaimable) + 1
      BY <1>t, <2>3, SMTT(20)
    <3>2. OnReclaimable' \subseteq OnReclaimable /\ A \subseteq B
      BY <1>r, <1>s, <2>1
    <3>3. ASSUME OnReclaimable' # {} PROVE Len(reclaimable') <= Cardinality(B)
      <4>1. OnReclaimable # {}
        BY <3>2, <3>3
      <4>2. PICK x \in OnReclaimable : asleep' \subseteq asleep \ {x}
        BY <2>3, <4>1 DEF SignalReclaimable, Woken
      <4>3. x \notin A /\ x \in B
        <5>1. x \in asleep /\ pc[x] = "buffer" /\ x \in Thread
          BY <1>t DEF OnReclaimable
        <5>2. pc'[x] = "buffer"
          BY <1>r, <5>1 DEF OthersStay
        <5> QED BY <4>2, <5>1, <5>2 DEF AwakeForBuffer
      <4> HIDE DEF A, B
      <4>4. /\ IsFiniteSet(A \cup {x}) /\ A \cup {x} \subseteq B
            /\ Cardinality(A \cup {x}) = Cardinality(A) + 1
        BY <1>f, <3>2, <4>3, FS_AddElement
      <4>5. Cardinality(A \cup {x}) <= Cardinality(B)
        BY <1>f, <4>4, FS_Subset
      <4> QED BY <1>t, <1>f, <1>b, <3>1, <4>1, <4>4, <4>5, SMTT(20)
    <3> QED BY <1>g, <3>3
  <2> QED BY <1>r, <2>2, <2>3 DEF EntryRelease
<1>1. ASSUME NEW t \in Worker, NEW c \in Chunk, NEW u \in Update, Request(t, c, u)
      PROVE  BufferWoken'
  <2>1. /\ pc[t] = "idle" /\ pc'[t] = "entry" /\ UNCHANGED asleep
        /\ reclaimable' = Unlinked(reclaimable, c)
    BY <1>1, <1>t DEF Request
  <2>2. OthersStay(t)
    BY <1>1, StepOfOne DEF IInv
  <2>3. Len(reclaimable') \in Nat /\ Len(reclaimable') <= Len(reclaimable)
    BY <1>t, <2>1, UnlinkedLength
  <2> QED BY <1>m, <2>1, <2>2, <2>3
<1>2. ASSUME NEW t \in Thread, CleanNext(t) PROVE BufferWoken'
  <2>1. /\ pc[t] = "loop" /\ pc'[t] = "cwait" /\ UNCHANGED asleep
        /\ reclaimable' = Unlinked(reclaimable, Head(dirtyq))
    BY <1>2, <1>t DEF CleanNext
  <2>2. OthersStay(t)
    BY <1>2, StepOfOne DEF IInv, CleanStep
  <2>3. Len(reclaimable') \in Nat /\ Len(reclaimable') <= Len(reclaimable)
    BY <1>t, <2>1, UnlinkedLength
  <2> QED BY <1>m, <2>1, <2>2, <2>3
<1>3. ASSUME NEW t \in Worker, AwaitBuffer(t) PROVE BufferWoken'
  <2>1. Len(reclaimable') = 0
    BY <1>3 DEF AwaitBuffer
  <2> HIDE DEF A, B
  <2> QED BY <1>f, <1>g, <2>1, SMTT(20)
<1>4. ASSUME NEW t \in Worker, Reclaim(t) PROVE BufferWoken'
  <2>1. Head(reclaimable) \in Range(reclaimable)
    BY <1>4, <1>t, HeadFacts DEF Reclaim
  <2>2. Len(reclaimable') = Len(reclaimable) - 1 /\ Len(reclaimable') \in Nat
    BY <1>4, <1>t, <2>1, UnlinkedLength DEF Reclaim
  <2>3. UNCHANGED asleep /\ pc'[t] \in {"evict", "steal"}
    BY <1>4, <1>t DEF Reclaim
  <2>4. OthersStay(t)
    BY <1>4, StepOfOne DEF IInv, EntryStep
  <2>5. OnReclaimable' \subseteq OnReclaimable
    BY <1>t, <2>3, <2>4 DEF OthersStay, OnReclaimable
  <2>6. A \ {t} \subseteq B
    BY <2>3, <2>4 DEF OthersStay, AwakeForBuffer
  <2> HIDE DEF A, B
  <2>7. /\ IsFiniteSet(A \ {t}) /\ Cardinality(A \ {t}) \in Nat
        /\ Cardinality(A \ {t}) >= Cardinality(A) - 1
    <3>1. /\ IsFiniteSet(A \ {t})
          /\ Cardinality(A \ {t}) \in {Cardinality(A), Cardinality(A) - 1}
      BY <1>f, FS_RemoveElement
    <3>2. Cardinality(A \ {t}) \in Nat
      BY <3>1, FS_CardinalityType
    <3> QED BY <1>f, <3>1, <3>2, SMTT(20)
  <2>8. Cardinality(A \ {t}) <= Cardinality(B)
    BY <1>f, <2>6, FS_Subset
  <2> QED BY <1>t, <1>f, <1>b, <1>g, <2>2, <2>5, <2>7, <2>8, SMTT(20)
<1>5. ASSUME NEW t \in Thread, cur[t] \in Chunk,
             Refuse(t) \/ FinishRead(t) \/ FinishWrite(t)
      PROVE  BufferWoken'
  <2>1. PICK also : EntryRelease(cur[t], TRUE, also)
    BY <1>5 DEF Refuse, FinishRead, FinishWrite
  <2>2. pc[t] = "have" /\ pc'[t] = "idle"
    BY <1>5, <1>t DEF Refuse, FinishRead, FinishWrite, Reply
  <2>3. OthersStay(t)
    BY <1>5, StepOfOne DEF IInv, EntryStep
  <2> QED BY <1>5, <1>r, <2>1, <2>2, <2>3
<1>6. ASSUME NEW t \in Thread, cur[t] \in Chunk,
             CleanSkip(t) \/ CleanBreak(t) \/ CleanWrite(t)
      PROVE  BufferWoken'
  <2>1. PICK h : EntryRelease(cur[t], h, {})
    BY <1>6 DEF CleanSkip, CleanBreak, CleanWrite
  <2>2. pc[t] # "buffer" /\ pc'[t] # "buffer"
    BY <1>6, <1>t DEF CleanSkip, CleanBreak, CleanWrite
  <2>3. OthersStay(t)
    BY <1>6, StepOfOne DEF IInv, CleanStep
  <2> QED BY <1>6, <1>r, <2>1, <2>2, <2>3
<1>7. ASSUME NEW t \in Thread, victim[t] \in Chunk, Steal(t) PROVE BufferWoken'
  <2>1. EntryRelease(victim[t], FALSE, {})
    BY <1>7 DEF Steal
  <2>2. pc[t] = "steal" /\ pc'[t] # "buffer"
    BY <1>7, <1>t DEF Steal, AfterBuffer
  <2>3. OthersStay(t)
    BY <1>7, StepOfOne DEF IInv, EntryStep
  <2> QED BY <1>7, <1>r, <2>1, <2>2, <2>3
<1>8. ASSUME NEW t \in Worker,
             \/ SyncRequest(t) \/ AwaitEntry(t) \/ AcquireEntry(t) \/ Hit(t)
             \/ Allocate(t) \/ EvictWrite(t) \/ Fill(t)
      PROVE  BufferWoken'
  <2>1. /\ pc[t] # "buffer" /\ pc'[t] # "buffer" /\ UNCHANGED reclaimable
        /\ asleep' \subseteq asleep \cup {t}
    BY <1>8, <1>t DEF SyncRequest, AwaitEntry, AcquireEntry, Hit, Allocate,
       EvictWrite, Fill, AfterBuffer
  <2>2. OthersStay(t)
    BY <1>8, StepOfOne DEF IInv, EntryStep
  <2> QED BY <1>m, <1>t, <2>1, <2>2, SMTT(20)
<1>9. ASSUME NEW t \in Thread,
             CleanAwait(t) \/ CleanAcquire(t) \/ CleanStart(t) \/ SyncReturn(t)
      PROVE  BufferWoken'
  <2>1. /\ pc[t] # "buffer" /\ pc'[t] # "buffer" /\ UNCHANGED reclaimable
        /\ asleep' \subseteq asleep \cup {t}
    BY <1>9, <1>t DEF CleanAwait, CleanAcquire, CleanStart, SyncReturn
  <2>2. OthersStay(t)
    BY <1>9, StepOfOne DEF IInv, CleanStep
  <2> QED BY <1>m, <1>t, <2>1, <2>2, SMTT(20)
<1>10. ASSUME CleanerRest \/ CleanerWake PROVE BufferWoken'
  <2>1. /\ pc[Cleaner] # "buffer" /\ pc'[Cleaner] # "buffer" /\ UNCHANGED reclaimable
        /\ asleep' \subseteq asleep \cup {Cleaner}
    BY <1>10, <1>t DEF CleanerRest, CleanerWake
  <2>2. OthersStay(Cleaner)
    BY <1>10, StepOfOne DEF IInv
  <2> QED BY <1>m, <1>t, <2>1, <2>2, SMTT(20)
<1>11. ASSUME StopCleaner \/ JoinCleaner \/ ClearFlag PROVE BufferWoken'
  <2>1. /\ pc[Main] # "buffer" /\ pc'[Main] # "buffer" /\ UNCHANGED reclaimable
        /\ asleep' \subseteq asleep \cup {Main}
    BY <1>11, <1>t DEF StopCleaner, JoinCleaner, ClearFlag
  <2>2. OthersStay(Main)
    BY <1>11, StepOfOne DEF IInv
  <2> QED BY <1>m, <1>t, <2>1, <2>2, SMTT(20)
<1>12. CASE FreeEntry
  <2>1. /\ UNCHANGED <<pc, asleep>>
        /\ reclaimable' = Unlinked(reclaimable, Head(reclaimable))
    BY <1>12 DEF FreeEntry
  <2>2. Len(reclaimable') \in Nat /\ Len(reclaimable') <= Len(reclaimable)
    BY <1>t, <2>1, UnlinkedLength
  <2> QED BY <1>l, <2>1, <2>2
<1>13. ASSUME \/ CleanerTimeout \/ \E i \in DOMAIN dirtyq : Expire(i)
              \/ \E t \in Thread : SpuriousWakeup(t)
       PROVE  BufferWoken'
  <2>1. UNCHANGED <<pc, reclaimable>> /\ asleep' \subseteq asleep
    BY <1>13 DEF CleanerTimeout, Expire, SpuriousWakeup
  <2> QED BY <1>l, <1>t, <2>1, SMTT(20)
<1>14. \A t \in Thread : /\ pc[t] \in {"have", "chold", "cwrite"} => cur[t] \in Chunk
                         /\ pc[t] = "steal" => victim[t] \in Chunk
  BY DEF IInv, TypeOK
<1>15. ASSUME NEW t \in Worker, EntryStep(t) PROVE BufferWoken'
  <2>1. CASE Refuse(t) \/ FinishRead(t) \/ FinishWrite(t)
    BY <1>5, <1>14, <2>1 DEF Refuse, FinishRead, FinishWrite
  <2>2. CASE Steal(t)
    BY <1>7, <1>14, <2>2 DEF Steal
  <2> QED BY <1>15, <1>3, <1>4, <1>8, <2>1, <2>2 DEF EntryStep
<1>16. ASSUME NEW t \in Thread, CleanStep(t) PROVE BufferWoken'
  <2>1. CASE CleanSkip(t) \/ CleanBreak(t) \/ CleanWrite(t)
    BY <1>6, <1>14, <2>1 DEF CleanSkip, CleanBreak, CleanWrite
  <2> QED BY <1>16, <1>2, <1>9, <2>1 DEF CleanStep
<1> QED
  BY <1>1, <1>8, <1>10, <1>11, <1>12, <1>13, <1>15, <1>16
     DEF Next, CleanerStep, MainStep

\* Nobody sleeps for ever for want of a signal: on an entry that is free, for a
\* buffer that can be reclaimed, or in the cleaner while entries are dirty.
THEOREM WakeupsAreNotLost == Spec => []NoLostWakeup
<1> DEFINE Woke == SleepPlaces /\ EntryWoken /\ BufferWoken /\ CleanerWoken
<1>1. Init => Woke
  BY DEF Init, SleepPlaces, EntryWoken, BufferWoken, OnReclaimable, CleanerWoken
<1>2. ASSUME IInv, Woke, [Next]_vars PROVE Woke'
  <2>1. CASE Next
    BY <1>2, <2>1, SleepPlacesStep, EntryWokenStep, BufferWokenStep, CleanerWokenStep
  <2>2. CASE UNCHANGED vars
    BY <1>2, <2>2 DEF vars, SleepPlaces, EntryWoken, BufferWoken, OnReclaimable,
       AwakeForBuffer, CleanerWoken
  <2> QED BY <1>2, <2>1, <2>2
<1>3. Woke => NoLostWakeup
  BY DEF NoLostWakeup, EntryWoken, BufferWoken, AwakeForBuffer, CleanerWoken
<1> HIDE DEF Woke
<1> QED BY <1>1, <1>2, <1>3, Invariance, PTL DEF Spec

-----------------------------------------------------------------------------
(* What an fsync waits for                                                 *)

\* entry_clean() is left only when the entry is clean.
LEMMA WritingStays ==
  ASSUME IInv, Next, NEW u \in Thread, NEW c \in Chunk, Writing(u, c)
  PROVE  Writing(u, c)' \/ dirty'[c] = "clean"
<1> USE ThreadsDistinct DEF Goto
<1>t. /\ pc[u] \in {"cwrite", "evict"} /\ TypeOK
      /\ dirty \in [Chunk -> {"clean", "fresh", "ripe"}]
  BY DEF Writing, IInv, TypeOK
<1>o. ASSUME NEW t \in Thread, OthersStay(t), t # u PROVE Writing(u, c)'
  BY <1>o DEF OthersStay, Writing
<1>1. ASSUME NEW t \in Worker,
             \/ \E d \in Chunk, v \in Update : Request(t, d, v)
             \/ SyncRequest(t)
      PROVE  Writing(u, c)'
  <2>1. OthersStay(t) /\ pc[t] = "idle"
    BY <1>1, <1>t, StepOfOne DEF Request, SyncRequest
  <2> QED BY <1>o, <1>t, <2>1
<1>2. ASSUME NEW t \in Worker, EntryStep(t)
      PROVE  Writing(u, c)' \/ dirty'[c] = "clean"
  <2>1. CASE t # u
    BY <1>2, <1>o, <1>t, <2>1, StepOfOne
  <2>2. CASE t = u
    <3>1. EvictWrite(u)
      BY <1>2, <1>t, <2>2 DEF EntryStep, AwaitEntry, AcquireEntry, Hit, Allocate,
         AwaitBuffer, NeedsBuffer, Reclaim, Steal, Fill, Refuse, FinishRead,
         FinishWrite
    <3>2. victim[u] = c /\ dirty' = [dirty EXCEPT ![c] = "clean"]
      BY <3>1 DEF EvictWrite, Writing
    <3> QED BY <1>t, <3>2
  <2> QED BY <2>1, <2>2
<1>3. ASSUME NEW t \in Thread, CleanStep(t)
      PROVE  Writing(u, c)' \/ dirty'[c] = "clean"
  <2>1. CASE t # u
    BY <1>3, <1>o, <1>t, <2>1, StepOfOne
  <2>2. CASE t = u
    <3>1. CleanWrite(u)
      BY <1>3, <1>t, <2>2 DEF CleanStep, CleanNext, CleanAwait, CleanAcquire,
         CleanSkip, CleanBreak, CleanStart, SyncReturn
    <3>2. cur[u] = c /\ dirty' = [dirty EXCEPT ![c] = "clean"]
      BY <3>1 DEF CleanWrite, Writing
    <3> QED BY <1>t, <3>2
  <2> QED BY <2>1, <2>2
<1>4. ASSUME CleanerRest \/ CleanerWake PROVE Writing(u, c)'
  <2>1. OthersStay(Cleaner) /\ pc[Cleaner] \notin {"cwrite", "evict"}
    BY <1>4, <1>t, StepOfOne DEF CleanerRest, CleanerWake
  <2> QED BY <1>o, <1>t, <2>1
<1>5. ASSUME StopCleaner \/ JoinCleaner \/ ClearFlag PROVE Writing(u, c)'
  <2>1. OthersStay(Main) /\ pc[Main] \notin {"cwrite", "evict"}
    BY <1>5, <1>t, StepOfOne DEF StopCleaner, JoinCleaner, ClearFlag
  <2> QED BY <1>o, <1>t, <2>1
<1>6. CASE \/ CleanerTimeout \/ FreeEntry \/ \E i \in DOMAIN dirtyq : Expire(i)
           \/ \E t \in Thread : SpuriousWakeup(t)
  <2>1. UNCHANGED <<pc, cur, victim>>
    BY <1>6 DEF CleanerTimeout, FreeEntry, Expire, SpuriousWakeup
  <2> QED BY <2>1 DEF Writing
<1> QED
  BY <1>1, <1>2, <1>3, <1>4, <1>5, <1>6 DEF Next, CleanerStep, MainStep

\* What is owed to an fsync was dirty all the time, and once image_sync() has
\* returned somebody is writing it back.
Owing ==
  /\ owed \in [Worker -> SUBSET Chunk]
  /\ \A t \in Worker :
       /\ owed[t] \subseteq DirtyChunks
       /\ pc[t] \notin CleanPc => \A c \in owed[t] : \E u \in Thread : Writing(u, c)

\* Every step keeps Owing: a dirty chunk leaves the dirty queue only into the
\* hands of a thread that writes it back.
LEMMA OwingStep ==
  ASSUME IInv, Owing, SyncNext
  PROVE  Owing'
<1> USE ThreadsDistinct DEF Goto
<1>t. TypeOK /\ pc \in [Thread -> WorkerPc \cup CleanerPc \cup MainPc]
  BY DEF IInv, TypeOK
<1>n. Next /\ TrackOwed
  BY DEF SyncNext
<1>1. /\ owed' \in [Worker -> SUBSET Chunk]
      /\ \A t \in Worker :
           owed'[t] = IF pc[t] = "idle" /\ pc'[t] = "loop"
                      THEN DirtyChunks ELSE owed[t] \cap DirtyChunks'
  BY <1>n DEF TrackOwed, DirtyChunks, Owing
\* image_sync() is entered in one step, which cleans nothing ...
<1>2. ASSUME NEW t \in Worker, pc[t] = "idle", pc'[t] = "loop" PROVE UNCHANGED dirty
  <2>1. ASSUME NEW w \in Worker,
               \/ \E d \in Chunk, v \in Update : Request(w, d, v)
               \/ EntryStep(w) \/ CleanStep(w)
        PROVE  FALSE
    <3>1. CASE w # t
      <4>1. OthersStay(w)
        BY <1>t, <2>1, StepOfOne
      <4> QED BY <1>2, <3>1, <4>1 DEF OthersStay
    <3>2. CASE w = t
      BY <1>2, <1>t, <2>1, <3>2 DEF Request, EntryStep, AwaitEntry, AcquireEntry, Hit,
         Allocate, AwaitBuffer, NeedsBuffer, Reclaim, EvictWrite, Steal, Fill, Refuse,
         FinishRead, FinishWrite, CleanStep, CleanNext, CleanAwait, CleanAcquire,
         CleanSkip, CleanBreak, CleanStart, CleanWrite, SyncReturn
    <3> QED BY <3>1, <3>2
  <2>2. ASSUME CleanStep(Cleaner) \/ CleanerRest \/ CleanerWake PROVE FALSE
    <3>1. OthersStay(Cleaner)
      BY <1>t, <2>2, StepOfOne
    <3> QED BY <1>2, <3>1 DEF OthersStay
  <2>3. ASSUME CleanStep(Main) \/ StopCleaner \/ JoinCleaner \/ ClearFlag PROVE FALSE
    <3>1. OthersStay(Main)
      BY <1>t, <2>3, StepOfOne
    <3> QED BY <1>2, <3>1 DEF OthersStay
  <2>4. ASSUME \/ CleanerTimeout \/ FreeEntry \/ \E i \in DOMAIN dirtyq : Expire(i)
               \/ \E w \in Thread : SpuriousWakeup(w)
        PROVE  FALSE
    <3>1. UNCHANGED pc
      BY <2>4 DEF CleanerTimeout, FreeEntry, Expire, SpuriousWakeup
    <3> QED BY <1>2, <3>1
  <2>5. \E w \in Worker : SyncRequest(w)
    BY <1>n, <2>1, <2>2, <2>3, <2>4 DEF Next, CleanerStep, MainStep
  <2> QED BY <2>5 DEF SyncRequest
\* ... and left when the dirty queue is empty.
<1>3. ASSUME NEW t \in Worker, pc[t] \in CleanPc, pc'[t] \notin CleanPc
      PROVE  dirtyq = <<>>
  <2>1. ASSUME NEW w \in Thread, OthersStay(w) PROVE w = t
    BY <1>3, <2>1 DEF OthersStay
  <2>2. ~UNCHANGED pc
    BY <1>3
  <2>3. ASSUME NEW w \in Worker,
               \/ \E d \in Chunk, v \in Update : Request(w, d, v)
               \/ SyncRequest(w) \/ EntryStep(w)
        PROVE  FALSE
    <3>1. w = t
      BY <1>t, <2>1, <2>3, StepOfOne
    <3> QED
      BY <1>3, <2>3, <3>1 DEF Request, SyncRequest, EntryStep, AwaitEntry, AcquireEntry,
         Hit, Allocate, AwaitBuffer, NeedsBuffer, Reclaim, EvictWrite, Steal, Fill,
         Refuse, FinishRead, FinishWrite
  <2>4. ASSUME NEW w \in Thread, CleanStep(w) PROVE dirtyq = <<>>
    <3>1. w = t
      BY <1>t, <2>1, <2>4, StepOfOne
    <3>2. CASE SyncReturn(w)
      BY <3>2 DEF SyncReturn
    <3>3. CASE CleanNext(w) \/ CleanAwait(w) \/ CleanAcquire(w) \/ CleanSkip(w)
               \/ CleanBreak(w) \/ CleanStart(w) \/ CleanWrite(w)
      BY <1>3, <1>t, <3>1, <3>3 DEF CleanNext, CleanAwait, CleanAcquire,
         CleanSkip, CleanBreak, CleanStart, CleanWrite, Forced
    <3> QED BY <2>4, <3>2, <3>3 DEF CleanStep
  <2>5. ASSUME CleanerRest \/ CleanerWake PROVE FALSE
    BY <1>t, <2>1, <2>5, StepOfOne
  <2>6. ASSUME StopCleaner \/ JoinCleaner \/ ClearFlag PROVE FALSE
    BY <1>t, <2>1, <2>6, StepOfOne
  <2>7. ASSUME \/ CleanerTimeout \/ FreeEntry \/ \E i \in DOMAIN dirtyq : Expire(i)
               \/ \E w \in Thread : SpuriousWakeup(w)
        PROVE  FALSE
    BY <2>2, <2>7 DEF CleanerTimeout, FreeEntry, Expire, SpuriousWakeup
  <2> QED BY <1>n, <2>3, <2>4, <2>5, <2>6, <2>7 DEF Next, CleanerStep, MainStep
<1>4. ASSUME NEW t \in Worker PROVE owed'[t] \subseteq DirtyChunks'
  <2>1. CASE pc[t] = "idle" /\ pc'[t] = "loop"
    BY <1>1, <1>2, <2>1 DEF DirtyChunks
  <2>2. CASE ~(pc[t] = "idle" /\ pc'[t] = "loop")
    BY <1>1, <2>2
  <2> QED BY <2>1, <2>2
<1>5. ASSUME NEW t \in Worker, pc'[t] \notin CleanPc, NEW c \in owed'[t]
      PROVE  \E u \in Thread : Writing(u, c)'
  <2>1. /\ c \in owed[t] /\ c \in Chunk
        /\ dirty[c] # "clean" /\ dirty'[c] # "clean"
    BY <1>1, <1>5 DEF Owing, DirtyChunks
  <2>2. \E u \in Thread : Writing(u, c)
    <3>1. CASE pc[t] \notin CleanPc
      BY <2>1, <3>1 DEF Owing
    <3>2. CASE pc[t] \in CleanPc
      <4>1. dirtyq = <<>>
        BY <1>3, <1>5, <3>2
      <4> QED BY <2>1, <4>1, EmptyFacts DEF IInv, DirtyTracked
    <3> QED BY <3>1, <3>2
  <2> QED BY <1>n, <2>1, <2>2, WritingStays
<1> QED BY <1>1, <1>4, <1>5 DEF Owing

\* When image_sync() returns, what was dirty when do_fsync() called it has been
\* written back or is just being written back by another thread, however many
\* requests, fsyncs and evictions run at the same time.
THEOREM FsyncStarts == SyncSpec => []FsyncStartsWriteout
<1>1. SyncInit => IInv /\ Owing
  BY InitIInv DEF SyncInit, Owing
<1>2. ASSUME IInv, Owing, [SyncNext]_<<vars, owed>> PROVE IInv' /\ Owing'
  <2>1. CASE SyncNext
    <3>1. Next
      BY <2>1 DEF SyncNext
    <3> QED BY <1>2, <2>1, <3>1, NextIInv, OwingStep
  <2>2. CASE UNCHANGED <<vars, owed>>
    <3>1. IInv'
      BY <1>2, <2>2, StutterIInv
    <3>2. Owing'
      BY <1>2, <2>2 DEF Owing, DirtyChunks, Writing, vars
    <3> QED BY <3>1, <3>2
  <2> QED BY <1>2, <2>1, <2>2
<1>3. Owing => FsyncStartsWriteout
  BY DEF Owing, FsyncStartsWriteout
<1> QED BY <1>1, <1>2, <1>3, PTL DEF SyncSpec

=============================================================================
