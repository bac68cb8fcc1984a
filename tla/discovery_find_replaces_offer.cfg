SPECIFICATION Spec
CONSTANTS
  p1 = p1
  p2 = p2
  h1 = h1
  h2 = h2
  svc = svc
  svc2 = svc2
  skel = skel
  prox = prox
  NoOp = NoOp
  Proc = {p1, p2}
  Service = {svc}
  Client = {skel, prox}
  HostOf <- OneHostEach
  ProcOf <- BothProc
  ServiceOf <- SameService
  KindOf <- BothKind
  MAX_DISCOVERY_COUNT = 5
  MaxInFlight = 2
  MaxLoss = 0
INVARIANT OfferSentAlways
CHECK_DEADLOCK FALSE
