SPECIFICATION FairSpec
CONSTANTS
  Sessions = 2
  Packets = 2
  Attempts = 2
  Copies = 2
  Drains = TRUE
INVARIANTS
  MixedOnlyWithoutEnd
  ExitOnlyWithoutEnd
  HandshakePrecedesStream
  NothingIgnored
  LossNeverOverstated
PROPERTIES
  ImplementsSummary
  EndTakesEffect
CHECK_DEADLOCK FALSE
