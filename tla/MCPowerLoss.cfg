SPECIFICATION PowerSpec
CONSTANTS
  NumChunks = 2
  Value = {base, a}
  Base = base
  Junk = junk
  None = none
  MaxFault = 2
  MaxUnread = 1
CONSTRAINT FewFaults
INVARIANTS
  UploadCurrent
  SessionMarked
  ValidatedAfterLoss
  ReadsBackAfterLoss
