CONSTANTS
  p1 = p1
  p2 = p2
  h1 = h1
  h2 = h2
  d1 = d1
  d2 = d2
  Pairs = {p1}
  Handlers = {h1, h2}
  Drains = {d1}
  MaxSecond = 3
  MaxRow = 2
  MaxCrashes = 0
  Failing = TRUE
  Going = FALSE
  MaxLate = 1
  Nobody = Nobody
  Blocking = {p1}
SPECIFICATION Spec
INVARIANTS TypeOK OwedOrHeard AgreeUnlessMuddled
SYMMETRY Alike
CONSTRAINT FewAtOnce
CHECK_DEADLOCK FALSE
