CONSTANTS
  MaxElements = 4
  MaxOriginals = 3
  MaxMappings = 2
  MaxResults = 1
SPECIFICATION Spec
PROPERTY
  RemovalReachesTheOutput
