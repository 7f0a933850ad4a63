\* An org from its installation on, under two handlers at a time.
SPECIFICATION Spec
CONSTANTS
  Members = {a, b, d}
  Roles = {"owner", "member"}
  Tiers = {t1, t2}
  DefaultTiers = {t1}
  Invoices = {i1}
  Calls = {c1, c2}
SYMMETRY Alike
INVARIANTS
  TypeOK
  OwnersRemain
  DefaultsOnce
  ReferencesHold
PROPERTY
  DeletesLeaveATier
