CONSTANTS
  MaxElements = 5
  MaxOriginals = 3
  MaxMappings = 2
  MaxResults = 2
SPECIFICATION FairSpec
INVARIANTS
  Forest
  ParentPointersAgree
  SiblingsDiffer
  LiveElementIsRequested
PROPERTIES
  RemovedStaysOut
  EditsTakeEffect
  RunEnds
