SPECIFICATION Spec
CONSTANTS
  p1 = p1
  p2 = p2
  k1 = k1
  k2 = k2
  body1 = body1
  body2 = body2
  early = early
  late = late
  Processes <- MCProcesses
  Requests <- MCRequests
  Notes <- MCNotes
  Times <- MCTimes
SYMMETRY MCSymmetry
CONSTRAINT OneNote
INVARIANTS
  TypeOK
  ChainVerifies
  OneIngestPerKey
  AdmissionIsWhole
  RunsAreWhole
  StateToldMeansRun
  AckIsInLog
  RepliesAgree
PROPERTIES
  RefinesEventLog
