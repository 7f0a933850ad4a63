\* Violated: two owners who step down together leave none.
SPECIFICATION Spec
CONSTANTS
  Members = {a, b}
  Roles = {"owner", "member"}
  Tiers = {t1}
  DefaultTiers = {t1}
  Invoices = {}
  Calls = {c1, c2}
INVARIANT LastOwnerIsGuarded
