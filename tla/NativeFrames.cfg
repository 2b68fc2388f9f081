SPECIFICATION Spec
CONSTANTS
  MaxWindows = 3
  FrameStack = 2
PROPERTY NewFrameIsNewWindow
