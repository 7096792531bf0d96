CONSTANTS
  Worker = {w1}
  Cleaner = Cleaner
  Main = Main
  Chunk = {c1, c2}
  Part = {p1, p2}
  Value = {v1, v2}
  Junk = Junk
  Capacity = 1
  None = None
  Bad = Bad
  EIO = EIO
  Width = 4
  chunksize = 4
  parcel_chunks = 11
  MaxStart = 50
  MaxCount = 13
SPECIFICATION Spec
SYMMETRY Symmetry
INVARIANTS
  Coherent
  CleanShutdown
  NoJunk
PROPERTIES
  AtomicDiskSpec
CHECK_DEADLOCK FALSE
