------------------------------- MODULE Queues -------------------------------
(***************************************************************************)
(* The queues of the chunk cache are GLib queues whose links are part of   *)
(* the entries (parcelkeeper/fuse_image.c).  An entry is appended, or is   *)
(* unlinked wherever it is.                                                *)
(***************************************************************************)
EXTENDS Naturals, Sequences, Functions

\* The queue q without its k-th element.
Without(q, k) == [i \in 1..(Len(q) - 1) |-> IF i < k THEN q[i] ELSE q[i + 1]]

\* queue_delete_with_link(): the queue q without the element e, if it was linked.
Unlinked(q, e) ==
  IF e \in Range(q) THEN Without(q, CHOOSE k \in DOMAIN q : q[k] = e) ELSE q

=============================================================================
