CONSTANTS
  a = a
  b = b
  c = c
  r1 = r1
  None = None
  Users = {a, c}
  Reeds = {r1}
  Author <- MCAuthor
  Follows <- MCNoFollows
  Broadcast = {}
  InitHolders <- MCNoHolders
  InitOnline = {a, c}
  Unfanned = {}
  InitialBurst = 1
  RefillBurst = 1
  BusEnabled = FALSE
  Requesters = {c}
  Failures = {}
  Evicting = {}
  Leaving = {}
  Superseding = {}
  Restarting = FALSE
  MaxEvents = 1
SPECIFICATION Spec
INVARIANTS AckCloses

CHECK_DEADLOCK FALSE
