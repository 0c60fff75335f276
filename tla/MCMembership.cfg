CONSTANTS
  Requests = {q1, q2, q3, q4}
  Users = {u1, u2}
  Invites = {i1}
  Demo = TRUE
  None = None
SPECIFICATION Spec
SYMMETRY Symmetry
INVARIANTS
  TypeOK
  Vouched
  AcceptedJoined
PROPERTIES
  AcceptedFinal
  RoleKept
CHECK_DEADLOCK FALSE
