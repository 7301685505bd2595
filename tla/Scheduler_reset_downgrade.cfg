SPECIFICATION Spec
CONSTANTS
  NumProviders = 2
  InitialScore <- ScoreOf
  CustomProviders = {}
  Orders = {o1, o2}
  Cacheable = {o1}
  Retryable = {o1, o2}
  PanicOrders = {}
  FailingWrites = {}
  Threads = {t1, t2}
  Clients = {c1}
  ServeResults = {"Error"}
  OrderErrors = {"ClientError"}
  MaxAttempts = 25
  MaxU32 = 7
  MaxFailures = 1
  AllowReset = TRUE
SYMMETRY ThreadSymmetry
INVARIANTS NoDowngradeWhenAllFail
