SPECIFICATION Spec
CONSTANTS
  None = None
  AttentionTensors = AttentionTensors
  IndexerTensors = IndexerTensors
  MlpTensors = MlpTensors
  Layers = {1, 2, 3}
  Experts = {1, 2}
  ExpertCount = 2
  Names <- MCNames
  Size <- MCSize
  MaxSize = 2
  DeviceCapacity = 3
  PayloadCapacity = 2
  Protected = 1
  s1 = s1
  s2 = s2
  Slots <- MCSlots
  Tokens = {1, 2}
  Depth = 3
  DenseLayers = {1}
  FullIndexers = {1, 2}
  IndexTopK = 2
  Score <- MCScore
  Route <- MCRoute
  Argmax <- MCArgmax
  TrunkCapacity = 4
  Uses <- MCUses
  MaxText = 3
  MaxChunk = 2
  MaxCalls = 2
  MaxFaults = 1
SYMMETRY Symmetry
INVARIANTS StatesAreRecomputed CachesAreExact
PROPERTIES SharesAreKept
CHECK_DEADLOCK FALSE
