\* Violated: a check that went stale cannot be renewed.
SPECIFICATION Spec
CONSTANTS
  Invoices = {i1}
  Members = {m1}
  Persons = {p1}
  Nonces = {n1, n2}
  Calls = {c1}
INVARIANT StaleCheckRenews
