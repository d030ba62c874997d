SPECIFICATION Spec
CONSTANTS
  Contacts = {c1, c2}
  Owners = {o1}
  Requests = {q1}
  Docs = {d1}
  Reqs = {r1, r2}
  None = None
SYMMETRY Symmetry
CONSTRAINTS KindsApart NobodyDeleted
INVARIANTS
  TypeOK
  TenantHasLink
PROPERTIES
  TenantOfRecordKept
  EndedTenancyRests
