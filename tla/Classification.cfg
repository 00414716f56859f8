SPECIFICATION Spec
CONSTANTS
  api = api  domain = domain  t1 = t1  b1 = b1  b2 = b2
  Rules = {api, domain}
  Seeded = {domain}
  KindOf <- Kind
  ChannelOf <- Channel
  AnyChannel = any
  BrandOf <- Scope
  AnyBrand = all
  Tickets = {t1}
  TicketBrand <- Brand
  TicketChannel <- Via
  Hits <- AllHit
  Personal = {}
  Automated = {}
  Jobs = {job}
  Runs = {run}
  Admins = {ann}
  NoTicket = none
  NoEdit = noedit
  NoEntry = noentry
  MaxTime = 2
  MaxWrites = 3
INVARIANTS TypeOK StaleFilterNeedsCoincidence ChainOrderIsSound ManualDecisionsStand ObservingFollowsDecisions
CHECK_DEADLOCK FALSE
