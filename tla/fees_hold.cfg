SPECIFICATION FairSpec
CONSTANTS
  i1 = i1  i2 = i2  k1 = k1  r1 = r1  r2 = r2  k2 = k2
  None = None
  Invoices = {i1}
  Credits = {k1}
  Reqs = {r1, r2}
  Worker = r1
  LastPeriod = 1
  Charge = 2
  LateFees = {0}
  Receipts = {1}
  MaxReceived = 2
  Threshold = 1
  Kinds = {"hold", "release"}
PROPERTIES HoldLifted
CHECK_DEADLOCK FALSE
