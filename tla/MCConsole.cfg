CONSTANTS
  Texts = {x, y}
  Blank = Blank
  None = None
  Tags = {t1, t2}
  Keys = {k1, k2}
  People = {p1, p2}
  Levels = {0, 1, 2}
  Rooms = {1, 2}
  NoRoom = 0
  NoLevel = 0
  Devices = {d1, d2}
  Providers = {v1, v2, v3}
  Few = 2
  Some = 3
SPECIFICATION Spec
INVARIANTS
  TypeOK
  NothingTwice
  ConfirmedCommand
  SaysWhatHappened
  SpinnersWait
  OwnTarget
  PagesSettle
  SendsWhole
  Paired
  ShownInOrder
PROPERTY ToastNamesSent
