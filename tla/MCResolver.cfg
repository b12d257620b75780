CONSTANTS
  Names = {A, B, C}
  NoName = NoName
  Wanted <- MCWanted
  MaxRefs = 2
  MaxEdges = 3
SYMMETRY Symmetry
SPECIFICATION Spec
INVARIANTS
  TypeOK
  MarksAreTakenBack
  NothingLost
  ResolvedOnce
