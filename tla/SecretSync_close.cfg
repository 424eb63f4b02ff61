SPECIFICATION FairSpec
CONSTANTS
  Ids = {i1}
  Readers = {r1}
  NoId = NoId
  MaxRev = 2
CHECK_DEADLOCK FALSE
PROPERTIES CloseReturns
