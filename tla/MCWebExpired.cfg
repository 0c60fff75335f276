SPECIFICATION Spec
CONSTANTS
  Reqs = {r1, r2}
  MaxPair = 3
INVARIANT Only401WhenExpired
