SPECIFICATION Spec
CONSTANTS
  c1 = c1  c2 = c2  e1 = e1  e2 = e2  v1 = v1  v2 = v2  r1 = r1  r2 = r2
  None = None
  Contacts = {c1, c2}
  Entries = {e1, e2}
  Invoices = {v1, v2}
  Reqs = {r1, r2}
  Amounts = {2}
  Adjustments <- WriteOff
  CustomLimits = {1}
  DefaultLimits = {0, 2}
  Fallback = 3
  MaxBalance = 2
SYMMETRY Symmetry
INVARIANTS TypeOK WalletBalances BilledOnItsInvoice
PROPERTIES KeepsAccounts
CHECK_DEADLOCK FALSE
