CONSTANTS
  NumChunks = 1
  ChunksPerDir = 1
  Tag = {a, b, c}
  Proc = {p1, p2}
  Client = {c1, c2}
  MaxVersion = 4
  MaxNonce = 2
  MaxFault = 1
  None = None
SPECIFICATION Spec
CHECK_DEADLOCK FALSE
SYMMETRY Symmetry
CONSTRAINT FewAfterFault
INVARIANTS
  IInv
  VersionsKept
  CleanIsStored
PROPERTIES
  CommittedOnce
  SyncSucceeds
  RollbackRestores
