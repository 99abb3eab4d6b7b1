SPECIFICATION Spec
CONSTANTS
  MaxFrames = 4
  Kinds <- MCKinds
INVARIANTS UnfragmentedExact UnmixedExact
CHECK_DEADLOCK FALSE
