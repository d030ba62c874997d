SPECIFICATION Spec
CONSTANTS
  Contacts = {c1, c2}
  Owners = {o1}
  Requests = {q1, q2}
  Docs = {d1, d2}
  Reqs = {r1}
  None = None
SYMMETRY Symmetry
INVARIANTS
  TenancyIsLived
