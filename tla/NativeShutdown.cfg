SPECIFICATION FairSpec
CONSTANTS
  MaxWindows = 1
  FrameStack = 1
PROPERTY ShutdownAlwaysFlushes
