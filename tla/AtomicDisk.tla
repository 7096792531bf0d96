----------------------------- MODULE AtomicDisk -----------------------------
(***************************************************************************)
(* What the chunk cache promises to the virtual machine and to the next    *)
(* session: the disk is an array of atomic registers, except for chunks on *)
(* which an I/O error was recorded, and it is closed clean only if there   *)
(* are none and every write is durable.                                    *)
(***************************************************************************)
CONSTANTS
  Chunk, Part, Value,
  None,       \* no reply yet
  Bad,        \* a durable chunk that cannot be decoded
  EIO         \* the reply to a failed request

VARIABLES
  disk,       \* the chunks as the acknowledged writes left them
  durable,    \* the chunks in the local cache
  faulted,    \* chunks on which an I/O error was recorded
  out,        \* the last reply, and the chunk it was about
  ca_dirty    \* the local cache is marked as dirty

vars == <<disk, durable, faulted, out, ca_dirty>>

Whole == [Part -> Value]
Update == UNION {[S -> Value] : S \in SUBSET Part}
Merge(old, upd) == [p \in Part |-> IF p \in DOMAIN upd THEN upd[p] ELSE old[p]]

Init ==
  /\ disk \in [Chunk -> Whole]
  /\ durable = disk
  /\ faulted = {}
  /\ out = None
  /\ ca_dirty = TRUE

\* What a reply may show of chunk c, if its contents should be "whole".
Visible(c, whole) == IF c \in faulted THEN Whole ELSE {whole}

\* A read returns what the acknowledged writes left.
Read(c) ==
  /\ \E r \in Visible(c, disk[c]) : out' = [chunk |-> c, reply |-> r]
  /\ UNCHANGED <<disk, durable, faulted, ca_dirty>>

\* A write takes effect at once, and only on the pieces it names.
Write(c, upd) ==
  /\ ca_dirty
  /\ disk' = [disk EXCEPT ![c] = Merge(@, upd)]
  /\ \E r \in Visible(c, Merge(disk[c], upd)) : out' = [chunk |-> c, reply |-> r]
  /\ UNCHANGED <<durable, faulted, ca_dirty>>

\* Only a chunk with an error fails.
Fail(c) ==
  /\ c \in faulted
  /\ out' = [chunk |-> c, reply |-> EIO]
  /\ UNCHANGED <<disk, durable, faulted, ca_dirty>>

\* The local cache takes over what is on the disk, and nothing else.
Persist(c) ==
  /\ ca_dirty
  /\ \E v \in Visible(c, disk[c]) : durable' = [durable EXCEPT ![c] = v]
  /\ UNCHANGED <<disk, faulted, out, ca_dirty>>

\* An error is recorded; the chunk may have been damaged or left as it was.
Fault(c) ==
  /\ ca_dirty
  /\ faulted' = faulted \cup {c}
  /\ \E v \in {durable[c], Bad} : durable' = [durable EXCEPT ![c] = v]
  /\ UNCHANGED <<disk, out, ca_dirty>>

\* Marked clean: nothing failed and nothing is missing.
Close ==
  /\ faulted = {}
  /\ durable = disk
  /\ ca_dirty' = FALSE
  /\ UNCHANGED <<disk, durable, faulted, out>>

Next ==
  \/ \E c \in Chunk :
       \/ Read(c) \/ Fail(c) \/ Persist(c) \/ Fault(c)
       \/ \E upd \in Update : Write(c, upd)
  \/ Close

Spec == Init /\ [][Next]_vars

=============================================================================
