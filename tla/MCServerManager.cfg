SPECIFICATION FairSpec
CONSTANTS
  Processes = {p1, p2, p3}
  MaxArg = 3
  MinArg = 3
  Signals = {"TERM", "HUP"}
  StartFailures = TRUE
  MaxStarts = 4
  MaxSignals = 1
INVARIANTS FleetBounded OneScheduler FleetComplete NoOrphans
PROPERTIES StartupCompletes CrashedAreReplaced StopEnds
CHECK_DEADLOCK FALSE
