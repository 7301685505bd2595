SPECIFICATION FairSpec
CONSTANTS
  Size = 3
  NumMirrors = 2
  Jobs = {j1}
  Clients = {c1}
  IgnoresRange = TRUE
  WritesFail = TRUE
  PurgesPackages = TRUE
  PurgesCfs = TRUE
  MaxFiles = 2
  MaxCrashes = 2
INVARIANTS TypeOK FileIntact DeliveredInOrder
PROPERTIES RequestAnswered
