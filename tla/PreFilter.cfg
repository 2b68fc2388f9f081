SPECIFICATION MCSpec
CONSTANTS
  Decade = 2
  MaxRecovery = 2
  RecoveryCap = 1
  PenaltyFloor = 9
  SqCap = 6
  StreakThreshold = 2
  Scores <- MCScores
  DefaultPolicy <- MCDefault
  StaticRates <- MCStaticRates
  CustomPolicies <- MCCustom
  RawPolicies <- MCRaw
  MaxSince = 6
  Byte = {0, 1, 2, 3}
  WINDOW_SIZE = 4
  Overhang = 3
  SQ_THRESHOLD = 8
  MaxSize = 8
INVARIANTS
  CooldownHolds
  SketchIsWindow
  VerdictExact
PROPERTIES
  MandatoryInspection
  FlaggedNeverPays
  QuietEndsAlarm
