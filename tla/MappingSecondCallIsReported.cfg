CONSTANTS
  MaxElements = 9
  Bounds <- MCBoundsTwoCalls
SPECIFICATION Spec
CHECK_DEADLOCK FALSE
INVARIANT
  SecondCallIsReported
