SPECIFICATION MCSpec
CONSTANTS
  Id = {1, 2, 3}
  Length <- MCLength
  Capacity = 3
  MaxTime = 3
  Scenarios <- MCScenarios
  Timeouts = {1, 3}
  DPLLength = 2
  Router = {1, 2, 3, 4, 5, 6}
  Source = 1
  Message = 1
  MaxRange = 3
  MinTime = 1
  HopLimit = 5
  Setups <- MCSetups
INVARIANTS
  BufferConsistent
  NeverStalled
  FadingLimits
  MemoryIsMostRecent
PROPERTIES
  ContentionEnds
  ReachesAll
  FallsSilent
