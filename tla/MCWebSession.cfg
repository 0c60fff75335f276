SPECIFICATION Spec
CONSTANTS
  Reqs = {r1, r2}
  MaxPair = 3
INVARIANTS TypeOK RotatedUnspent PairsNotShared
PROPERTY RedirectsSettle
