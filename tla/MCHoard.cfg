CONSTANTS
  Proc = {p1, p2}
  Threaded = {p1, p2}
  Tag = {t1, t2}
  EXPAND_CHUNKS = 1
  MaxMoves = 1
  MaxSlots = 2
  MaxFault = 1
  Junk = Junk
  None = None
  Absent = Absent
SPECIFICATION Spec
SYMMETRY Symmetry
INVARIANTS
  Contiguous
  OneOwner
  Described
  NoLeak
PROPERTIES
  ReferencedKept
