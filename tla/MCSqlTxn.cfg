SPECIFICATION FairSpec
CONSTANTS
  upload = upload
  put = put
  hoarding = hoarding
  fetch = fetch
  checking = checking
  invalidate = invalidate
  keyring = keyring
  keyring2 = keyring2
  hoard = hoard
  Conn <- MCConn
  Db = {keyring, keyring2, hoard}
  None = none
  Attached <- MCAttached
  Caller <- MCCaller
  Job <- MCJob
  MaxTries = 1
INVARIANTS
  CallerOutOfTheWay
PROPERTIES
  JobsEnd
