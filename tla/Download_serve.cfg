SPECIFICATION Spec
CONSTANTS
  Size = 3
  NumMirrors = 3
  Jobs = {j1}
  Clients = {c1, c2}
  IgnoresRange = FALSE
  WritesFail = TRUE
  PurgesPackages = FALSE
  PurgesCfs = FALSE
  MaxFiles = 1
  MaxCrashes = 0
SYMMETRY ClientSymmetry
INVARIANTS DeliveredWhole CfsIsCompleteSize NeverProgressFirst
