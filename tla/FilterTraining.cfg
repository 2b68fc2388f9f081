SPECIFICATION Spec
CONSTANTS
  Decade = 2
  MaxRecovery = 2
  RecoveryCap = 1
  PenaltyFloor = 9
  SqCap = 6
  StreakThreshold = 2
  Scores <- MCScores
  DefaultPolicy <- MCDefault
  StaticRates <- MCStaticRates
  CustomPolicies <- MCCustom
  RawPolicies <- MCRaw
  MaxSince = 6
INVARIANT TrainingKeepsPolicyRate
