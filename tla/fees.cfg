SPECIFICATION Spec
CONSTANTS
  i1 = i1  i2 = i2  k1 = k1  k2 = k2  r1 = r1  r2 = r2
  None = None
  Invoices = {i1, i2}
  Credits = {k1, k2}
  Reqs = {r1, r2}
  Worker = r1
  LastPeriod = 2
  Charge = 2
  LateFees = {0, 1}
  Receipts = {1, 3}
  MaxReceived = 4
  Threshold = 2
  Kinds = {}
SYMMETRY Symmetry
INVARIANTS TypeOK BilledOncePerPeriod PaidIsCovered CarriedIsBilled NoReceiptLost
CHECK_DEADLOCK FALSE
