SPECIFICATION Spec
CONSTANTS
  j1 = j1
  j2 = j2
  j3 = j3
  p1 = p1
  p2 = p2
  NoJob = NoJob
  Jobs = {j1, j2, j3}
  Pools = {p1, p2}
  Concurrency = 1
  MaxAttempts <- AttemptLimits
  Handled = {j1, j2}
  Stallable = {"complete", "reschedule", "fail"}
  MaxFaults = 1
  MaxStalls = 1
INVARIANTS
  NoTwoHandlersAtOnce
CHECK_DEADLOCK FALSE
