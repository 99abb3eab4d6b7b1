SPECIFICATION FairSpec
CONSTANTS
  Mpms = {"hybrid", "thread"}
  KeepAlive = TRUE
  MaxFrames = 2
INVARIANTS CloseOnce  OpenBeforePayload GoesClosed
PROPERTY EndIsNoticed
CHECK_DEADLOCK FALSE
