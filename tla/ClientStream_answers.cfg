SPECIFICATION FairSpec
CONSTANTS
  MaxHeader = 2
  MaxSize = 2
  Width = 8
  MaxRequests = 2
  Kinds = {"order", "metrics", "empty", "forbidden", "invalid", "bad"}
  Pipelines = TRUE
INVARIANTS TypeOK AnswersInOrder RestOfFile
PROPERTIES AnsweredOrClosed
CHECK_DEADLOCK FALSE
