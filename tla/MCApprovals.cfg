SPECIFICATION Spec
CONSTANTS
  sub = sub
  a = a
  b = b
  c = c
  r1 = r1
  r2 = r2
  r3 = r3
  w1 = w1
  w2 = w2
  Members = {sub, a, b, c}
  Submitter = sub
  Amount = 2
  Rulebooks <- AllRulebooks
  Rosters <- AllRosters
  Requests = {r1, r2}
  Workers = {w1, w2}
  MaxAttempts = 2
  MaxFaults = 1
INVARIANTS
  TypeOK
  OutboxAgrees
  QuorumBacksPayout
  PaysOnce
  DecidersBelong
  DoneIsSettled
PROPERTIES
  DecisionsAreFinal
  PaymentSpec
SYMMETRY Alike
CHECK_DEADLOCK FALSE
