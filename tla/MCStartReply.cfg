CONSTANTS
  Msgs = {m1, m2}
  Connectors = {c1}
  Tags = {t1}
  Reservations = {r1}
  Statuses = {"Available"}
  Powers = {1}
  None = None
SPECIFICATION Spec
SYMMETRY Symmetry
INVARIANT AcceptedHasSession
CHECK_DEADLOCK FALSE
