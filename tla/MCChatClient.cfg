SPECIFICATION Spec
CONSTANTS
  Streams = {s1, s2}
  Gets = {g1, g2}
  Convs = {c1, c2, c3}
  MaxSteps = 1
INVARIANTS TypeOK IndicatorsTrue OneConversation
SYMMETRY Symmetry
