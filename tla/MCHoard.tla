------------------------------ MODULE MCHoard -------------------------------
(* Instances of Hoard for TLC.                                             *)
EXTENDS Hoard, TLC

Symmetry == Permutations(Proc) \cup Permutations(Tag)
=============================================================================
