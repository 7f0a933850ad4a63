\* Safety of the checkpoint in front of an approval.
SPECIFICATION Spec
CONSTANTS
  Invoices = {i1, i2}
  Members = {m1, m2}
  Persons = {p1, p2}
  Nonces = {n1, n2}
  Calls = {c1, c2}
SYMMETRY Alike
INVARIANTS
  TypeOK
  OneUsePerChallenge
  ProofsAreChallenged
  ApprovedIsAttested
