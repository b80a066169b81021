SPECIFICATION BusySpec
CONSTANTS
  t1 = t1
  t2 = t2
  t3 = t3
  agent = agent
  Threads <- MCThreads
  Agents <- MCAgents
  Total = 2
  Costs = {0}
  BudgetLimit = 0
  CostMax = 3
  MaxRetries = 1
  FailureThreshold = 1
  FailureMax = 3
  IncreaseStep = 1
  FactorNum = 1
  FactorDen = 2
PROPERTIES
  HalfOpenSettles
