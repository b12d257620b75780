CONSTANTS
  Names = {A, B}
  NoName = NoName
  Wanted <- MCWantedOfTwo
  MaxRefs = 2
  MaxEdges = 2
SPECIFICATION FairSpec
INVARIANTS
  ThrowLeavesNothingOut
  OpaqueKeepsMethods
PROPERTY
  ResolvingEnds
