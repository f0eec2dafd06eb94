SPECIFICATION Spec
CONSTANTS
  Pins = {p1}
  Units = {u1}
  Requests = {q1, q2, q3}
  MaxOpen = 2
  Nothing = Nothing
  KraStatuses = {"P", "E", "other"}
SYMMETRY MCSymmetry
CHECK_DEADLOCK FALSE
INVARIANT StatusIsLatest
