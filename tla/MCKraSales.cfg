SPECIFICATION Spec
CONSTANTS
  Sales = {s1, s2}
  Requests = {q1, q2, q3, q4}
  NoRequest = NoRequest
  KraStatuses = {"P", "E"}
SYMMETRY MCSymmetry
INVARIANT AnsweredIsStored
INVARIANT StoredIsSigned
CHECK_DEADLOCK FALSE
