CONSTANTS
  MaxDecls = 3
  MaxHeaders = 2
  MaxVisits = 6
SPECIFICATION Spec
INVARIANT
  MethodsKeepTheirClass
