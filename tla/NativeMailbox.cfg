SPECIFICATION FairSpec
CONSTANTS
  MaxWindows = 5
  FrameStack = 4
INVARIANTS
  PolicyAccounting
  FramesAreInferences
  ConsumedAtMostTwice
  OverwrittenCoversSkipped
PROPERTIES
  ImplementsAsyncControl
  PublishWakesWorker
  ShutdownReturns
