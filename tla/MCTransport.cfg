SPECIFICATION Spec
CONSTANTS
  Thread = {t1, t2}
  Handle = {h1, h2, h3}
  Chunk = {c1, c2}
  Bad = bad
  None = none
  Size = 2
  TRANSPORT_TRIES = 2
SYMMETRY Symmetry
INVARIANTS
  FetchedStays
  RetryStartsOver
  HandlesConserved
