CONSTANTS
  a = a
  b = b
  c = c
  r1 = r1
  None = None
  Users = {a, b, c}
  Reeds = {r1}
  Author <- MCAuthor
  Follows <- MCNoFollows
  Broadcast = {}
  InitHolders <- MCTwoHolders
  InitOnline = {a, b, c}
  Unfanned = {}
  InitialBurst = 1
  RefillBurst = 1
  BusEnabled = FALSE
  Requesters = {c}
  Failures = {"miss","silence"}
  Evicting = {}
  Leaving = {}
  Superseding = {}
  Restarting = FALSE
  MaxEvents = 1
SPECIFICATION Spec
INVARIANTS UnansweredClaimTimed

CHECK_DEADLOCK FALSE
