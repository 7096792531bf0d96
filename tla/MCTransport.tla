---------------------------- MODULE MCTransport ----------------------------
(* The transport for TLC. *)
EXTENDS Transport, TLC

Symmetry == Permutations(Handle) \cup Permutations(Thread)
=============================================================================
