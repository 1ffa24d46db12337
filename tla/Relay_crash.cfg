CONSTANTS
  a = a
  b = b
  c = c
  r1 = r1
  None = None
  Users = {a, c}
  Reeds = {r1}
  Author <- MCAuthor
  Follows <- MCFollows
  Broadcast = {c}
  InitHolders <- MCNoHolders
  InitOnline = {a}
  Unfanned = {r1}
  InitialBurst = 1
  RefillBurst = 2
  BusEnabled = FALSE
  Requesters = {c}
  Failures = {"miss", "error", "silence", "invalid"}
  Evicting = {a, c}
  Leaving = {a, c}
  Superseding = {c}
  Restarting = TRUE
  MaxEvents = 1
SPECIFICATION FairSpec

PROPERTIES SilenceMovesOn
CHECK_DEADLOCK FALSE
