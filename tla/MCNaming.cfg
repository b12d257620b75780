SPECIFICATION Spec
CONSTANTS
  Classes = {"c", "d"}
  Methods = {"method"}
  Made = {"sizeOf"}
  Accessors = {"getter"}
  Words <- MCWords
  NoName = NoName
  Wants <- MCWants
  LocalWants <- MCLocalWants
  FqNames <- MCFqNames
  Digits <- MCDigits
  MaxAttempts = 2
  MaxScopes = 3
  MaxLocals = 2
  MaxImports = 4
INVARIANTS
  MethodNamesDiffer
  LocalsDiffer
  ImportsDiffer
  StopsLate
PROPERTIES
  NamesStay
CHECK_DEADLOCK FALSE
