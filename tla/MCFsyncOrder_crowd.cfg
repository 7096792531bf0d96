CONSTANTS
  Worker = {w1, w2, w3}
  Cleaner = Cleaner
  Main = Main
  Chunk = {c1, c2, c3}
  Part = {p1}
  Value = {v1}
  Junk = Junk
  Capacity = 1
  None = None
  Bad = Bad
  EIO = EIO
SPECIFICATION SyncSpec
SYMMETRY Symmetry
CONSTRAINT NoFaults
INVARIANTS
  IInv
  Exclusive
  EntriesLive
  DirtyTracked
  BuffersConserved
  NoLostWakeup
  FsyncStartsWriteout
CHECK_DEADLOCK FALSE
