----------------------------- MODULE MCCheckin ------------------------------
(* Checkin on small instances.                                             *)
EXTENDS Checkin, TLC

Symmetry ==
  Permutations(Proc) \cup Permutations(Client) \cup Permutations(Tag)

Used(r) == {r[k] : k \in {j \in Chunk : r # None}}

\* Three contents of a chunk and the last version are for the rollbacks without a
\* fault; after a fault two contents are enough to tell the versions apart.
FewAfterFault ==
  faults > 0 =>
    /\ committed[MaxVersion] = None
    /\ Cardinality(UNION ({Used(keyring[c]) : c \in Client}
                  \cup {Used(committed[v].disk) : v \in {w \in Version : committed[w] # None}})) <= 2

=============================================================================
