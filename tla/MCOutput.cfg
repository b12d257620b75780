CONSTANTS
  MaxClasses = 3
  MaxFunctions = 1
  NoFault = NoFault
SPECIFICATION Spec
CONSTRAINT OneFault
INVARIANTS
  OutputIsThisRuns
  CallsAreDefined
  OnlyFailuresAreMissing
  MethodsAreInherited
  LibraryComesFirst
