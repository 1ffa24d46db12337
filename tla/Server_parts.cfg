SPECIFICATION ServerSpec
CONSTANTS
  g1 = g1
  g2 = g2
  Workers = {g1, g2}
  MaxReeds = 3
  Publications <- MCPublications
  Signatures = {1}
  MaxClock = 2
  MaxRequests = 4
  ann = ann
  ben = ben
  dee = dee
  MaxReply = 4
  Accounts = {ann, ben, dee}
  OurAccounts = {ann, ben}
  AuthorOf <- MCAuthorOf
  ParentOf <- MCParentOf
  rooty = rooty
  adam = adam
  abby = abby
  cleo = cleo
  dora = dora
  d1a = d1a
  d2a = d2a
  Members = {rooty, adam, abby, cleo, dora}
  Leavers = {cleo}
  RootUser = rooty
  Admins = {adam, abby}
  Held0 <- MCHeld0
  InvitedBy <- MCInvitedBy
  Proposals <- MCProposals
  MaxAdminRequests = 2
  Deciders = {d1a, d2a}
  MaxMesh = 1
  sa = sa
  sb = sb
  i1 = i1
  i2 = i2
  i3 = i3
  mia = mia
  makeAdmins = makeAdmins
  kick = kick
  nan = nan
  nat = nat
  Invites = {i1, i2, i3}
  MakerOf <- MCMakerOf
  AdminInvites = {i1}
  InviteGrants <- MCInviteGrants
  CreateAdmins = makeAdmins
  Newcomers = {nan, nat}
  MaxInvitesPerUser = 1
  MaxGrants = 1
  ua = ua
  ub = ub
  uc = uc
  kana = kana
  kbob = kbob
  kcal = kcal
  knew = knew
  nym = nym
  alias = alias
  sv1 = sv1
  sv2 = sv2
  UserIDs = {ua, ub, uc}
  Saved <- MCSaved
  Joins <- MCJoins
  FirstBoot = 3
  Moment = 5
  Savers = {sv1, sv2}
  Claimants = {ub}
  Editors = {ua}
  Removable = {ua}
  rae = rae
  ray = ray
  fw1 = fw1
  fw2 = fw2
  Reporters = {rae, ray}
  MaxCases = 3
  FlagWorkers = {fw1, fw2}
  Copies <- MCCopies
  pk = pk
  lk = lk
  vw1 = vw1
  vw2 = vw2
  SubjectKeys = {pk, lk}
  PeerKeys = {pk}
  VouchWorkers = {vw1, vw2}
  MaxVouches = 2
  MaxLosses = 1
  c1 = c1
  c2 = c2
  c3 = c3
  rw1 = rw1
  rw2 = rw2
  Identities = {c1, c2, c3}
  PeerUsers = {c3}
  Records <- MCRecords
  Restorers = {rw1, rw2}
  MaxReports = 4
  MaxDeaths = 1
  lw = lw
  ra = ra
  nt1 = nt1
  nt2 = nt2
  Watchers = {lw, ra}
  PeerWatchers = {ra}
  Notifiers = {nt1, nt2}
  MaxChanges = 2
  MaxSubscribes = 2
  MaxUpsets = 1
  at1 = at1
  at2 = at2
  at3 = at3
  Hosts = {sa, sb}
  Attendants = {at1, at2, at3}
  MaxHops = 2
  MaxRotations = 2
  MaxApproaches = 1
  MaxFaults = 1
  dv1 = dv1
  dv2 = dv2
  cl1 = cl1
  cl2 = cl2
  Devices = {dv1, dv2}
  Calls = {cl1, cl2}
  NoDevice = NoDevice
  MaxUserKeys = 2
  MaxTurns = 2
  MaxChallenges = 1
  rp1 = rp1
  rp2 = rp2
  rp3 = rp3
  oz = oz
  me = me
  Ripples = {rp1, rp2, rp3}
  WriterOf <- MCWriterOf
  AnswersTo <- MCAnswersTo
  Onlooker = me
  TTL = 1
  Deletable = {rp1}
  MaxTime = 2
  MaxVisits = 1
  MaxServerKeys = 2
  MaxIdentities = 2
  MaxPassphrases = 2
  MaxDisasters = 1
  MaxSecond = 2
INVARIANTS
  PartsTypeOK
  OneHistory RemovalsReachAll
  CountedUnlessSkewed
  LedgerIsTheRecord DecisionsHold
  SignupsHold
  AccountsSettle
  CasesAddUpUnlessTangled
  VouchesHold
  RestoresSettle
  WatchersHear
  HandedOver KeysFollow
  SessionIsBoundUnlessEarly
  RipplesHold
  BackupHolds
PROPERTY
  ClosedForGood
CONSTRAINTS FewPosts FewBlurred
VIEW WorkedView
SYMMETRY MCAlike
CHECK_DEADLOCK FALSE
