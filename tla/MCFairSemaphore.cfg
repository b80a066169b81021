SPECIFICATION FairSemSpec
CONSTANTS
  t1 = t1
  t2 = t2
  t3 = t3
  t4 = t4
  t5 = t5
  Threads <- MCThreads
  Total <- MCTotal
INVARIANTS
  SemTypeOK
  MaxInflightRespected
  PermitsConserved
  NoIdlePermit
  NoLostWakeup
PROPERTIES
  NoOvertaking
  RefinesFifoPermits
  EveryWaiterServed
