CONSTANTS
  Requests = {q1, q2}
  Conns = {k1, k2}
  Actions = {"SendLocalList", "GetLocalListVersion"}
  Args = {x1, x2}
  None = None
SPECIFICATION Spec
SYMMETRY Symmetry
INVARIANTS
  SettledVersion
  NoDeadEntry
CHECK_DEADLOCK FALSE
