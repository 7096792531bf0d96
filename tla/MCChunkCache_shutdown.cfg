CONSTANTS
  Worker = {w1}
  Cleaner = Cleaner
  Main = Main
  Chunk = {c1}
  Part = {p1}
  Value = {v1}
  Junk = Junk
  Capacity = 1
  None = None
  Bad = Bad
  EIO = EIO
  Width = 4
  chunksize = 4
  parcel_chunks = 11
  MaxStart = 50
  MaxCount = 13
SPECIFICATION FairSpec
PROPERTIES
  ShutdownCompletes
CHECK_DEADLOCK FALSE
