SPECIFICATION Spec
CONSTANTS
  p1 = p1
  p2 = p2
  git = git
  t1 = t1
  t2 = t2
  a = a
  b = b
  Processes <- MCProcesses
  Requests <- MCRequests
  SentSchema = "habitat.kernel.submit.request.v1"
  Bound <- MCNoFailures
CHECK_DEADLOCK FALSE
INVARIANT
  FencesRise
