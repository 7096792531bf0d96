CONSTANTS
  Worker = {w1, w2}
  Cleaner = Cleaner
  Main = Main
  Chunk = {c1, c2}
  Part = {p1}
  Value = {v1}
  Junk = Junk
  Capacity = 1
  None = None
  Bad = Bad
  EIO = EIO
SPECIFICATION SyncSpec
INVARIANTS
  FsyncWritesOut
CHECK_DEADLOCK FALSE
