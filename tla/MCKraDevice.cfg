SPECIFICATION Spec
CONSTANTS
  Pins = {p1, p2}
  Units = {u1, u2}
  Requests = {q1, q2, q3, q4}
  MaxOpen = 2
  Nothing = Nothing
  KraStatuses = {"P", "E", "other"}
SYMMETRY MCSymmetry
CHECK_DEADLOCK FALSE
INVARIANT TypeOK
INVARIANT OneIdPerUnit
INVARIANT KnownIsActivated
