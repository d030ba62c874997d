SPECIFICATION Spec
CONSTANTS
  None = None
  MaxBookings = 3
  Payables = {2}
  Contacts = {c1}
  Tickets = {1, 2}
  Amounts = {1}
  Capacities = {1, None}
  Limits = {4}
  Types = {"paid"}
  Reqs = {r1, r2}
SYMMETRY Symmetry
INVARIANTS TypeOK RevenueCoversPaid SeatsKept
PROPERTIES CancelledStays PromotionFits FirstInLine
CHECK_DEADLOCK FALSE
