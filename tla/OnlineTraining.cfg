SPECIFICATION FairSpec
CONSTANTS
  Processes = 3
  Windows = 4
  Agents = 2
  RecvLimit = 60
  K = 3
  Batch = 2
  Capacity = 3
  Horizon = 2
INVARIANTS
  EpisodesSeparated
  OutcomeOfAction
  HistoryIsOneEpisode
  ReplayIsNewest
  AgentAnswers
PROPERTY WaitEnds
CHECK_DEADLOCK FALSE
