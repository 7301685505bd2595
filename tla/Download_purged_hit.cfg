SPECIFICATION Spec
CONSTANTS
  Size = 2
  NumMirrors = 1
  Jobs = {j1}
  Clients = {c1, c2}
  IgnoresRange = FALSE
  WritesFail = FALSE
  PurgesPackages = TRUE
  PurgesCfs = FALSE
  MaxFiles = 1
  MaxCrashes = 0
SYMMETRY ClientSymmetry
INVARIANTS DeliveredWhole
