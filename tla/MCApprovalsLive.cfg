SPECIFICATION FairSpec
CONSTANTS
  sub = sub
  a = a
  b = b
  c = c
  r1 = r1
  r2 = r2
  r3 = r3
  w1 = w1
  w2 = w2
  Members = {sub, a, b}
  Submitter = sub
  Amount = 2
  Rulebooks <- OneApproval
  Rosters <- JustTwo
  Requests = {r1, r2}
  Workers = {w1, w2}
  MaxAttempts = 2
  MaxFaults = 1
PROPERTIES
  CallsEnd
  PayoutEnds
CHECK_DEADLOCK FALSE
