CONSTANTS
  MaxDecls = 4
  MaxHeaders = 2
  MaxVisits = 6
SPECIFICATION Spec
CONSTRAINT OneHidden
INVARIANTS
  NestingIsFinite
  NothingMissed
  HangsInItsPlace
  HiddenStaysOut
PROPERTY
  SharingFails
