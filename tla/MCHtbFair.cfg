SPECIFICATION FairSpec
CONSTANTS
  NumClasses = 4
  Parent <- PairParent
  Level <- PairLevel
  LeafPrio <- PairLeafPrio
  Prios = {0}
  Burst <- FairBurst
  CBurst <- FairCBurst
  MBuffer <- FairMBuffer
  Quantum <- FairQuantum
  Cost <- FairCost
  CCost <- FairCCost
  Sizes = {1, 2}
  PhyHeader = 0
  Hysteresis = TRUE
  MaxQueue = 2
  InitialAge = 1
  CanRemove = FALSE
INVARIANTS
  NoError
PROPERTIES
  NoStarvation
