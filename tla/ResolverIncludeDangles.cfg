CONSTANTS
  Names = {A, B, C}
  NoName = NoName
  Wanted <- MCWantedIncluding
  MaxRefs = 2
  MaxEdges = 3
SYMMETRY Symmetry
SPECIFICATION Spec
INVARIANT
  ReferencesExist
