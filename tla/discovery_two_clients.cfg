SPECIFICATION FairSpec
CONSTANTS
  p1 = p1
  p2 = p2
  h1 = h1
  h2 = h2
  svc = svc
  svc2 = svc2
  skel = skel
  prox = prox
  NoOp = NoOp
  Proc = {p1}
  Service = {svc, svc2}
  Client = {skel, prox}
  HostOf <- OneHostEach
  ProcOf <- BothProc
  ServiceOf <- BothService
  KindOf <- BothKind
  MAX_DISCOVERY_COUNT = 2
  MaxInFlight = 1
  MaxLoss = 1
INVARIANTS AnnouncementMatchesClient NoGhost
PROPERTIES OfferSpreads StopSpreads
CHECK_DEADLOCK FALSE
