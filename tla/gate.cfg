SPECIFICATION Spec
CONSTANTS
  Flats = {f1, f2}
  Passes = {p1}
  Limits = {1}
  MaxMoves = 2
  Reqs = {r1, r2}
  None = None
SYMMETRY Symmetry
INVARIANTS
  TypeOK
  EntryWasApproved
  CancelledIsRejected
  CancelledOnce
  TurnoverLeavesNothingOpen
PROPERTIES
  DecisionsFinal
  CompletedStays
