CONSTANTS
  k1 = k1
  k2 = k2
  w1 = w1
  w2 = w2
  c1 = c1
  c2 = c2
  Tickets <- TwoTickets
  Workers <- TwoWorkers
  Clients <- TwoClients
  LatestStart <- MCLatestStart
  MaxPending = 2
  NoTicket = NoTicket
SPECIFICATION FairSpec
CHECK_DEADLOCK FALSE
INVARIANTS JobConservation SingleConsumption DestructionDrains IdleMeansComplete
PROPERTIES EveryWaitReturns DestructionEnds
