CONSTANTS
  a = a
  b = b
  c = c
  r1 = r1
  None = None
  Users = {a, b, c}
  Reeds = {r1}
  Author <- MCAuthor
  Follows <- MCFollows
  Broadcast = {b}
  InitHolders <- MCNoHolders
  InitOnline = {a}
  Unfanned = {r1}
  InitialBurst = 2
  RefillBurst = 2
  BusEnabled = TRUE
  Requesters = {}
  Failures = {}
  Evicting = {}
  Leaving = {a}
  Superseding = {}
  Restarting = FALSE
  MaxEvents = 2
  alice = alice
  bob = bob
  NoViewer = NoViewer
  Viewers = {alice, bob}
  MaxCrossings = 1
  Fans = {bob}
  Askers = {alice}
  Quitters = {alice}
  HomeStarts = "online"
  HomeMoves = TRUE
  Losses = TRUE
  MaxAsks = 2
  MaxOffers = 2
  vl = vl
  vr = vr
  KeyViewers = {vl, vr}
  Remote = {vr}
  Evicters = {vl}
  MaxKeys = 2
  Fetched = {1}
  MaxEngaged = 1
  MaxFrames = 1
  rv = rv
  Copyable = {rv}
  MaxRemovals = 1
  MaxNotices = 2
  MaxVisits = 2
  MaxSwitches = 3
  MaxWrites = 1
  MaxSessions = 2
  rp = rp
  ru = ru
  rr = rr
  rg = rg
  HeldPeers = {rp, ru}
  Unbuildable = {ru}
  HeldReeds = {rr}
  RecordPages = {rg}
  Refusable = {rr}
  MaxWipes = 1
  MaxOthers = 2
  sa = sa
  sb = sb
  ida = ida
  ned = ned
  boss = boss
  Servers = {sa, sb}
  Clerks = {ida, ned, boss}
  Boss = boss
  Openers = {ida}
  MaxMishaps = 1
  MaxInvites = 1
  MaxTries = 2
  Writers = {sa, sb}
SPECIFICATION CopiesSpec
INVARIANTS
  CopiesTypeOK
  NoFollowerMissed
  CopyFindsItsAsk CrossingsHold
  RemovalsHeard
  RevocationOwed
  BlocksSettle
  RecoveryHolds
  PeeringHolds
CONSTRAINT FewMishaps
CHECK_DEADLOCK FALSE
