CONSTANTS
  Requests = {q1}
  Conns = {k1, k2}
  Actions = {"ClearCache"}
  Args = {x1}
  None = None
SPECIFICATION Spec
SYMMETRY Symmetry
INVARIANT ListLocalComplete
CHECK_DEADLOCK FALSE
