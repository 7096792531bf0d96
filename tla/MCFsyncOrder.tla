---------------------------- MODULE MCFsyncOrder ----------------------------
(* FsyncOrder on small instances.                                          *)
EXTENDS FsyncOrder, TLC

Symmetry == Permutations(Worker) \cup Permutations(Chunk)

\* For the instance with three workers: no I/O errors, which the others have.
NoFaults == faulted = {}

=============================================================================
