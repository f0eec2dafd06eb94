SPECIFICATION Spec
CONSTANTS
  Purchases = {b1}
  Items <- MCItems
  Movements = {m1}
  Registrations = {i1}
  DayEnds = {z1}
  Requests = {q1, q2, q3, q4}
  Nothing = Nothing
  KraStatuses = {"P", "E"}
SYMMETRY MCSymmetry
CHECK_DEADLOCK FALSE
INVARIANT HeaderFirst
INVARIANT HeldBetween
