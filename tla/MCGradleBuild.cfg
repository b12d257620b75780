SPECIFICATION FairSpec
CONSTANTS
  MaxRuns = 2
  Tasks = {"a", "b"}
  NoTask = "none"
  Capacity = 1
  MaxText = 2
  LastPart = 2
  Homes = {"home"}
  NoHome = "nowhere"
  HomeOf <- MCHomeOf
  Mappings <- MCMappings
INVARIANTS
  DiscoveryFindsTheList
  ChannelStaysClean
  WritesWhatWasAsked
  OneUnpackerIsHarmless
PROPERTIES
  Promise
  RunsEnd
CHECK_DEADLOCK FALSE
