SPECIFICATION FairSpec
CONSTANTS
  Sockets = {s1}
  Workers = {w1, w2}
  maxWorkers = 2
  KeepAlive = TRUE
  Upgrades = {"switch", "disconnect", "ignore"}
  LimitBody = TRUE
  MaxRequests = 2
  NoSocket = NoSocket
INVARIANTS OneWorkerPerSocket RequestsAreNoticed ResponsesLeave
PROPERTIES DeletedAreFreed ReadOrTimedOut
CHECK_DEADLOCK FALSE
