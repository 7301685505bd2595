SPECIFICATION Spec
CONSTANTS
  Connections = {c1, c2}
  NumVersions = 3
  NumVersionsRetain = 2
  NumFiles = 0
  MaxRequests = 2
  NoThread = NoThread
SYMMETRY ConnectionSymmetry
INVARIANTS TypeOK RetainedUnlessForgotten
PROPERTIES OnlyOldRemoved
CHECK_DEADLOCK FALSE
