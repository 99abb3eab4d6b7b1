SPECIFICATION FairSpec
CONSTANTS
  Kinds = {"hybrid", "thread"}
  Headers <- MCHeaders
  Limits = {0, 4}
  IntMax = 15
  Threshold = 2
  Pipelinings = {TRUE, FALSE}
  MaxRequests = 3
  MaxBody = 3
INVARIANTS FramingExact NothingTwice
PROPERTY AllServed
CHECK_DEADLOCK FALSE
