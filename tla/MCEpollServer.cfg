SPECIFICATION Spec
CONSTANTS
  Sockets = {s1, s2}
  Workers = {w1, w2}
  maxWorkers = 1
  KeepAlive = TRUE
  Upgrades = {"switch", "disconnect", "ignore"}
  LimitBody = TRUE
  MaxRequests = 1
  NoSocket = NoSocket
INVARIANTS SocketOutlivesWorkers EventsAreLive RequestsAreNoticed
CHECK_DEADLOCK FALSE
