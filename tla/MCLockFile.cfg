CONSTANTS
  Proc = {p1, p2, p3}
  Inode = {i1, i2, i3}
  None = None
SPECIFICATION FairSpec
INVARIANTS
  IInv
  MutualExclusion
PROPERTIES
  AcquireEnds
