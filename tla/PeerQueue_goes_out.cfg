CONSTANTS
  p1 = p1
  p2 = p2
  h1 = h1
  h2 = h2
  d1 = d1
  d2 = d2
  Pairs = {p1, p2}
  Handlers = {h1}
  Drains = {d1}
  Nobody = Nobody
  MaxSecond = 1
  MaxRow = 3
  MaxCrashes = 1
  MaxLate = 0
  Failing = TRUE
  Going = TRUE
  Blocking = {}
SPECIFICATION FairSpec
PROPERTIES OwedGoesOut
CHECK_DEADLOCK FALSE
