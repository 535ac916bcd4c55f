CONSTANTS
  q1 = q1  q2 = q2  q3 = q3  q4 = q4
  someone = someone
  Requests = {q1, q2, q3, q4}
  Identifiers = {someone}
  Endpoints <- MCEndpoints
  Bodies = {"large"}
  Window <- MCWindow
  Limit <- MCLimit
  MaxTime = 2
  MaxFaults = 2
SPECIFICATION Spec
SYMMETRY MCSymmetry
INVARIANTS LimitKept RefusedForCause LeakNeedsTwoFaults
CHECK_DEADLOCK FALSE
