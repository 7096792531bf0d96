SPECIFICATION FairStart
CONSTANTS
  Proc = {p1, p2}
  Inode = {i1, i2}
  Subsystems = 1
  None = none
INVARIANTS
  StartReported
  PidfileOfSession
PROPERTIES
  AtomicLock
  ParentReturns
