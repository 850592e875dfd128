CONSTANTS
  a = a
  b = b
  c = c
  w1 = w1
  Keys <- MCKeys
  Bytes <- MCBytes
  MaxBytes = 2
  Layer <- MCLayer
  Capacity = 2
  Modes = {"disabled", "lru"}
  Workers <- OneWorker
  MaxPending = 1
  Generation = Generation
  TopK = 2
  MaxBatches = 2
  NoTicket = NoTicket
  x = x
  y = y
  z = z
  down = down
  up = up
  Experts <- MCExperts
  Down = down
  Up = up
  WeightBytes <- MCWeightBytes
  MaxWeightBytes = 2
  Setups = {"prefetch", "group", "grid", "layer"}
  Room = 3
  TopExperts = 2
  MaxFaults = 2
  Nothing = Nothing
SPECIFICATION HalvesSpec
CHECK_DEADLOCK FALSE
INVARIANTS InFlightIsSelected KernelsReadTheirWeights ResidentBytesAreExact
PROPERTY EveryLayerEnds
