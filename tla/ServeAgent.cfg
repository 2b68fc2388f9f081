SPECIFICATION Spec
CONSTANTS
  Processes = 1
  Windows = 2
  Agents = 1
  RecvLimit = 40
  K = 1
  Batch = 1
  Capacity = 1
  Horizon = 1
INVARIANT AgentAnswers
CHECK_DEADLOCK FALSE
