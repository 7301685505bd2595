SPECIFICATION FairSpec
CONSTANTS
  Connections = {c1, c2}
  NumVersions = 2
  NumVersionsRetain = 1
  NumFiles = 3
  MaxRequests = 1
  NoThread = NoThread
INVARIANTS SweptTogether
PROPERTIES ThreadEnds
CHECK_DEADLOCK FALSE
