----------------------------- MODULE Transport ------------------------------
(***************************************************************************)
(* Fetching chunks from the server: parcelkeeper/transport.c.  Threads     *)
(* take curl handles from a pool, each transfer writes through the         *)
(* callback into the buffer the handle points to, network failures are     *)
(* retried, and what arrived is checked against the chunk's tag.           *)
(*                                                                         *)
(* A chunk is Size blocks.  The block at a position is the chunk it comes  *)
(* from and its number there, or Bad.  A buffer belongs to a thread, as    *)
(* the array on the stack of cache_get() does.  "failed" stands for the    *)
(* errors that are not retried, PK_CALLFAIL and PK_IOERR.  The call of     *)
(* hoard_put_chunk() with what was fetched changes nothing here, its       *)
(* result is ignored; it is the put of module Hoard.                       *)
(***************************************************************************)
EXTENDS Naturals, Sequences, FiniteSets

CONSTANTS
  Thread, Handle, Chunk,
  Bad,             \* a block that is no part of any chunk
  None,
  Size,            \* blocks of a chunk
  TRANSPORT_TRIES

ASSUME TransportAssumption ==
  /\ IsFiniteSet(Thread)
  /\ Size \in Nat \ {0} /\ TRANSPORT_TRIES \in Nat \ {0}
  /\ None \notin Chunk \cup Handle \cup Thread
  /\ Bad \notin Chunk \X (1 .. Size)

VARIABLES
  conns,        \* cpool->conns
  made,         \* the handles that exist
  buf, offset,  \* conn->buf, as the thread whose buffer it is, and conn->offset
  pc, conn, chunk, tries, result,  \* of each thread
  buffer,       \* of each thread: its blocks
  length,       \* of each thread: the length the transfer reported
  served,       \* history: whether the latest attempt sends the chunk itself
  sent          \* of each thread: the blocks of the file sent in this attempt

thread == <<pc, conn, chunk, tries, result>>
data == <<buffer, length, served, sent>>
vars == <<conns, made, buf, offset, thread, data>>

Block == (Chunk \X (1 .. Size)) \cup {Bad}

Init ==
  /\ conns = << >> /\ made = {}
  /\ buf = [h \in Handle |-> None] /\ offset = [h \in Handle |-> 0]
  /\ pc = [t \in Thread |-> "idle"] /\ conn = [t \in Thread |-> None]
  /\ chunk = [t \in Thread |-> None] /\ tries = [t \in Thread |-> 0]
  /\ result = [t \in Thread |-> "none"]
  /\ buffer = [t \in Thread |-> [i \in 1 .. Size |-> Bad]]
  /\ length = [t \in Thread |-> 0]
  /\ served = [t \in Thread |-> FALSE]
  /\ sent = [t \in Thread |-> 0]

-----------------------------------------------------------------------------

\* transport_fetch_chunk() returns: its locals are gone.
Return(t, ret) ==
  /\ pc' = [pc EXCEPT ![t] = "idle"]
  /\ result' = [result EXCEPT ![t] = ret]
  /\ tries' = [tries EXCEPT ![t] = 0]
  /\ length' = [length EXCEPT ![t] = IF ret = "success" THEN @ ELSE 0]
  /\ chunk' = [chunk EXCEPT ![t] = IF ret = "success" THEN @ ELSE None]
  /\ served' = [served EXCEPT ![t] = IF ret = "tagfail" THEN @ ELSE FALSE]
  /\ sent' = [sent EXCEPT ![t] = 0]
  /\ UNCHANGED <<made, buf, offset, conn, buffer>>

\* transport_fetch_chunk() begins.
Fetch(t, c) ==
  /\ pc[t] = "idle"
  /\ pc' = [pc EXCEPT ![t] = "get"]
  /\ chunk' = [chunk EXCEPT ![t] = c]
  /\ result' = [result EXCEPT ![t] = "none"]
  /\ length' = [length EXCEPT ![t] = 0]
  /\ UNCHANGED <<conns, made, buf, offset, conn, tries, buffer, served, sent>>

\* transport_conn_get(): a handle of the pool, or a new one if it is empty.
ConnGet(t) ==
  /\ pc[t] = "get"
  /\ \/ /\ conns # << >>
        /\ conn' = [conn EXCEPT ![t] = Head(conns)]
        /\ conns' = Tail(conns)
        /\ UNCHANGED made
     \/ /\ conns = << >>
        /\ \E h \in Handle \ made :
             /\ conn' = [conn EXCEPT ![t] = h]
             /\ made' = made \cup {h}
        /\ UNCHANGED conns
  /\ pc' = [pc EXCEPT ![t] = "setup"]
  /\ UNCHANGED <<buf, offset, chunk, tries, result, data>>

\* transport_conn_alloc() fails: no handle, and the fetch is over.
AllocFails(t) ==
  /\ pc[t] = "get" /\ conns = << >>
  /\ Return(t, "failed")
  /\ UNCHANGED conns

\* transport_get() cannot set the URL and gives the handle back.
SetoptFails(t) ==
  /\ pc[t] = "setup"
  /\ result' = [result EXCEPT ![t] = "failed"]
  /\ pc' = [pc EXCEPT ![t] = "put"]
  /\ UNCHANGED <<conns, made, buf, offset, conn, chunk, tries, data>>

Setup_KeepsBuffer(t) ==
  /\ pc[t] = "setup"
  /\ buf' = [buf EXCEPT ![conn[t]] = IF @ = None THEN t ELSE @]
  /\ offset' = [offset EXCEPT ![conn[t]] = 0]
  /\ \E s \in BOOLEAN : served' = [served EXCEPT ![t] = s]
  /\ sent' = [sent EXCEPT ![t] = 0]
  /\ pc' = [pc EXCEPT ![t] = "perform"]
  /\ UNCHANGED <<conns, made, conn, chunk, tries, result, buffer, length>>

Setup_KeepsOffset(t) ==
  /\ pc[t] = "setup"
  /\ buf' = [buf EXCEPT ![conn[t]] = t]
  /\ \E s \in BOOLEAN : served' = [served EXCEPT ![t] = s]
  /\ sent' = [sent EXCEPT ![t] = 0]
  /\ pc' = [pc EXCEPT ![t] = "perform"]
  /\ UNCHANGED <<conns, made, offset, conn, chunk, tries, result, buffer, length>>

\* transport_get() points the handle at the caller's buffer and starts over at
\* its beginning.  The server sends the chunk, or something else.
Setup(t) ==
  /\ pc[t] = "setup"
  /\ buf' = [buf EXCEPT ![conn[t]] = t]
  /\ offset' = [offset EXCEPT ![conn[t]] = 0]
  /\ \E s \in BOOLEAN : served' = [served EXCEPT ![t] = s]
  /\ sent' = [sent EXCEPT ![t] = 0]
  /\ pc' = [pc EXCEPT ![t] = "perform"]
  /\ UNCHANGED <<conns, made, conn, chunk, tries, result, buffer, length>>

\* curl_callback() stores the next block of the file behind what it has stored
\* before, and no more than a chunk.
Receive(t) ==
  /\ pc[t] = "perform" /\ sent[t] < Size /\ offset[conn[t]] < Size
  /\ LET h == conn[t]
         block == IF served[t] THEN <<chunk[t], sent[t] + 1>> ELSE Bad
     IN /\ buffer' = [buffer EXCEPT ![buf[h]][offset[h] + 1] = block]
        /\ offset' = [offset EXCEPT ![h] = @ + 1]
  /\ sent' = [sent EXCEPT ![t] = @ + 1]
  /\ UNCHANGED <<conns, made, buf, thread, length, served>>

\* curl_easy_perform() returns: all of a file of Size blocks or less arrived ...
Complete(t) ==
  /\ pc[t] = "perform"
  /\ served[t] => sent[t] = Size
  /\ length' = [length EXCEPT ![t] = offset[conn[t]]]
  /\ result' = [result EXCEPT ![t] = "success"]
  /\ sent' = [sent EXCEPT ![t] = 0]
  /\ pc' = [pc EXCEPT ![t] = "put"]
  /\ UNCHANGED <<conns, made, buf, offset, conn, chunk, tries, buffer, served>>

\* ... or the network failed ("netfail"), or the transfer broke off, the file
\* did not fit or curl failed otherwise ("failed").
Fails(t, error) ==
  /\ pc[t] = "perform"
  /\ result' = [result EXCEPT ![t] = error]
  /\ served' = [served EXCEPT ![t] = FALSE]
  /\ sent' = [sent EXCEPT ![t] = 0]
  /\ pc' = [pc EXCEPT ![t] = "put"]
  /\ UNCHANGED <<conns, made, buf, offset, conn, chunk, tries, buffer, length>>

ConnPut_OnSuccess(t) ==
  /\ pc[t] = "put"
  /\ conns' = IF result[t] = "success" THEN <<conn[t]>> \o conns ELSE conns
  /\ conn' = [conn EXCEPT ![t] = None]
  /\ pc' = [pc EXCEPT ![t] = "judge"]
  /\ UNCHANGED <<made, buf, offset, chunk, tries, result, data>>

\* transport_conn_put(), whatever the outcome.
ConnPut(t) ==
  /\ pc[t] = "put"
  /\ conns' = <<conn[t]>> \o conns
  /\ conn' = [conn EXCEPT ![t] = None]
  /\ pc' = [pc EXCEPT ![t] = "judge"]
  /\ UNCHANGED <<made, buf, offset, chunk, tries, result, data>>

\* transport_fetch_chunk() tries again after a failure of the network, or has
\* tried often enough.
Retry(t) ==
  /\ pc[t] = "judge" /\ result[t] = "netfail"
  /\ \/ /\ tries[t] + 1 < TRANSPORT_TRIES
        /\ tries' = [tries EXCEPT ![t] = @ + 1]
        /\ pc' = [pc EXCEPT ![t] = "get"]
        /\ UNCHANGED <<made, buf, offset, conn, chunk, result, data>>
     \/ /\ tries[t] + 1 = TRANSPORT_TRIES
        /\ Return(t, "netfail")
  /\ UNCHANGED conns

Holds(t, c) ==
  /\ length[t] = Size
  /\ \A i \in 1 .. Size : buffer[t][i] = <<c, i>>

\* transport_fetch_chunk() returns the error, or fails to digest what arrived.
GivesUp(t) ==
  /\ pc[t] = "judge" /\ result[t] \in {"failed", "success"}
  /\ Return(t, "failed")
  /\ UNCHANGED conns

\* transport_fetch_chunk() compares the tags.
Judge(t) ==
  /\ pc[t] = "judge" /\ result[t] = "success"
  /\ Return(t, IF Holds(t, chunk[t]) THEN "success" ELSE "tagfail")
  /\ UNCHANGED conns

Step(t) ==
  \/ ConnGet(t) \/ AllocFails(t) \/ SetoptFails(t) \/ Setup(t) \/ Receive(t) \/ Complete(t)
  \/ \E error \in {"netfail", "failed"} : Fails(t, error)
  \/ ConnPut(t) \/ Retry(t) \/ GivesUp(t) \/ Judge(t)

Next == \E t \in Thread : Step(t) \/ \E c \in Chunk : Fetch(t, c)

Spec == Init /\ [][Next]_vars

-----------------------------------------------------------------------------
(* Properties *)

TypeOK ==
  /\ conns \in Seq(Handle) /\ made \subseteq Handle
  /\ buf \in [Handle -> Thread \cup {None}]
  /\ offset \in [Handle -> 0 .. Size]
  /\ pc \in [Thread -> {"idle", "get", "setup", "perform", "put", "judge"}]
  /\ conn \in [Thread -> Handle \cup {None}]
  /\ chunk \in [Thread -> Chunk \cup {None}]
  /\ tries \in [Thread -> 0 .. TRANSPORT_TRIES - 1]
  /\ buffer \in [Thread -> [1 .. Size -> Block]]
  /\ length \in [Thread -> 0 .. Size]
  /\ served \in [Thread -> BOOLEAN] /\ sent \in [Thread -> 0 .. Size]
  /\ result \in [Thread -> {"none", "success", "netfail", "failed", "tagfail"}]

\* A thread that was told of success keeps the chunk it asked for in its
\* buffer, although the handles it used go on to serve other threads: none of
\* them writes through a stale conn->buf.
FetchedStays ==
  \A t \in Thread : pc[t] = "idle" /\ result[t] = "success" => Holds(t, chunk[t])

\* What an interrupted attempt left behind does not spoil the next one: while
\* the chunk is being sent the buffer begins with exactly the blocks sent so
\* far, so that curl_callback() has room for the rest, and a tag mismatch is
\* reported only if the server sent something else.
RetryStartsOver ==
  \A t \in Thread :
    /\ pc[t] = "perform" /\ served[t] =>
         /\ offset[conn[t]] = sent[t]
         /\ \A i \in 1 .. sent[t] : buffer[t][i] = <<chunk[t], i>>
    /\ pc[t] = "idle" /\ result[t] = "tagfail" => ~served[t]

\* transport_conn_get() and transport_conn_put() lose and duplicate no handle:
\* each that exists is in the pool or with one thread, so there are never more
\* of them than threads.
HandlesConserved ==
  /\ Cardinality(made) <= Cardinality(Thread)
  /\ \A h \in made :
       Cardinality({t \in Thread : conn[t] = h})
         + Cardinality({i \in DOMAIN conns : conns[i] = h}) = 1

=============================================================================
