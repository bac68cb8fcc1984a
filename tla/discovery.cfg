SPECIFICATION FairSpec
CONSTANTS
  p1 = p1
  p2 = p2
  h1 = h1
  h2 = h2
  svc = svc
  svc2 = svc2
  skel = skel
  prox = prox
  NoOp = NoOp
  Proc = {p1, p2}
  Service = {svc}
  Client = {skel}
  HostOf <- OneHostEach
  ProcOf <- SkelProc
  ServiceOf <- SkelService
  KindOf <- SkelKind
  MAX_DISCOVERY_COUNT = 2
  MaxInFlight = 2
  MaxLoss = 1
INVARIANTS TypeOK TablesDisjoint AnnouncementMatchesClient NoGhost
PROPERTIES OfferSpreads StopSpreads
CHECK_DEADLOCK FALSE
