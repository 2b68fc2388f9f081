SPECIFICATION Spec
CONSTANTS
  Sessions = 2
  Packets = 1
  Attempts = 2
  Copies = 3
  Drains = FALSE
INVARIANT HandshakePrecedesStream
CHECK_DEADLOCK FALSE
