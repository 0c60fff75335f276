CONSTANTS
  Msgs = {m1, m2, m3, m4}
  Connectors = {c1, c2}
  Tags = {t1}
  Reservations = {r1}
  Statuses = {"Available", "Charging", "Faulted"}
  Powers = {1}
  None = None
SPECIFICATION Spec
SYMMETRY Symmetry
INVARIANTS
  TypeOK
  UsedHasSession
  ScopedTagWins
  DerivedFresh
PROPERTY ClosedFinal
CHECK_DEADLOCK FALSE
