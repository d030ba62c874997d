SPECIFICATION Spec
CONSTANTS
  i1 = i1  i2 = i2  k1 = k1  k2 = k2  r1 = r1  r2 = r2
  None = None
  Invoices = {i1}
  Credits = {k1}
  Reqs = {r1}
  Worker = r1
  LastPeriod = 1
  Charge = 2
  LateFees = {0}
  Receipts = {1}
  MaxReceived = 2
  Threshold = 2
  Kinds = {}
INVARIANTS SettledIsPaid
CHECK_DEADLOCK FALSE
