SPECIFICATION FairSpec
CONSTANTS
  t1 = t1
  t2 = t2
  t3 = t3
  agent = agent
  Threads <- MCThreads
  Agents <- MCAgents
  Total = 2
  Costs = {0, 1}
  BudgetLimit = 1
  CostMax = 3
  MaxRetries = 1
  FailureThreshold = 2
  FailureMax = 3
  IncreaseStep = 1
  FactorNum = 1
  FactorDen = 2
INVARIANTS
  TypeOK
  AdmissionsBounded
  ProbeFailureReopens
  RetriesExhausted
PROPERTIES
  EveryCallReturns
