SPECIFICATION FairSpec
CONSTANTS
  NumProviders = 3
  InitialScore <- ScoreOf
  CustomProviders = {}
  Orders = {o1, o2}
  Cacheable = {o1}
  Retryable = {o1}
  PanicOrders = {}
  FailingWrites = {o2}
  Threads = {t1, t2}
  Clients = {c1}
  ServeResults = {"Complete", "Partial", "Unavailable"}
  OrderErrors = {}
  MaxAttempts = 25
  MaxU32 = 7
  MaxFailures = 1
  AllowReset = FALSE
INVARIANTS SingleFlight SelectionNeverEmpty PunishmentsCounted AttemptsAccounted
PROPERTIES NoSharingWhileIdle OrderLeaves
