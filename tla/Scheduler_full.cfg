SPECIFICATION Spec
CONSTANTS
  NumProviders = 2
  InitialScore <- ScoreOf
  CustomProviders = {custom}
  Orders = {o1, o2}
  Cacheable = {o1}
  Retryable = {o1, o2}
  PanicOrders = {o2}
  FailingWrites = {o2}
  Threads = {t1, t2}
  Clients = {c1}
  ServeResults = {"Error"}
  OrderErrors = {"UnexpectedInternalError"}
  MaxAttempts = 25
  MaxU32 = 3
  MaxFailures = 1
  AllowReset = TRUE
SYMMETRY ThreadSymmetry
CHECK_DEADLOCK FALSE
INVARIANTS TypeOK
PROPERTIES ImplementsOrderFetch
