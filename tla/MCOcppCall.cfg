CONSTANTS
  Callers = {c1, c2}
  Frames = {f1, f2}
  None = None
SPECIFICATION FairSpec
INVARIANTS
  TypeOK
  Correlated
  NoAnswerLost
  PendingExact
PROPERTIES
  ImplementsCallSpec
  HandlerCompletes
  CallReturns
CHECK_DEADLOCK FALSE
