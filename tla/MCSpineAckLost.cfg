SPECIFICATION FaultSpec
CONSTANTS
  p1 = p1
  p2 = p2
  k1 = k1
  body1 = body1
  early = early
  Processes <- MCProcesses
  Requests <- MCRequests
  Notes <- MCNotes
  Times <- MCTimes
  MaxFaults = 1
SYMMETRY MCSymmetry
INVARIANTS
  AckIsInLog
