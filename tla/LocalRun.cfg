SPECIFICATION LocalFairSpec
CONSTANTS
  MaxWindows = 3
  FrameStack = 3
  TotalPackets = 4
INVARIANTS
  CountersCover
  ConsumedAtMostTwice
  InOrderOnce
  ReturnsComplete
PROPERTIES
  EveryPushProcessed
  WaitReturns
  PolicyReachesFilter
