CONSTANTS
  p1 = p1
  p2 = p2
  h1 = h1
  h2 = h2
  d1 = d1
  d2 = d2
  Pairs = {p1}
  Handlers = {h1}
  Drains = {d1, d2}
  MaxSecond = 2
  MaxRow = 3
  MaxCrashes = 0
  Failing = FALSE
  Going = FALSE
  MaxLate = 0
  Nobody = Nobody
  Blocking = {}
SPECIFICATION Spec
INVARIANTS AgreeOnceSettled
CHECK_DEADLOCK FALSE
