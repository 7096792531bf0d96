---------------------------- MODULE MCChunkCache ----------------------------
(* ChunkCache on small instances, and the cutting of requests in an        *)
(* unsigned of a few bits.                                                 *)
EXTENDS ChunkCache, IoCursor, TLC

Symmetry ==
  Permutations(Worker) \cup Permutations(Chunk) \cup Permutations(Part)
    \cup Permutations(Value)

\* For the liveness properties: all but the variables no step reads.
Control == <<entryvars, bufvars, cur, victim, new, stopping, leave_dirty,
             store, ca_dirty, lock, asleep, pc>>

=============================================================================
