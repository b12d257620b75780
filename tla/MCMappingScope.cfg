CONSTANTS
  MaxElements = 9
  Bounds <- MCBounds
SPECIFICATION FairSpec
CHECK_DEADLOCK FALSE
INVARIANTS
  OneEditIsExact
  ResultsAreTrees
  ResultsAnswerTheCalls
PROPERTIES
  ReadElementsStay
  CallsReturn
