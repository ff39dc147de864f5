SPECIFICATION Spec
CONSTANTS
  NumClasses = 4
  Parent <- SideParent
  Level <- SideLevel
  LeafPrio <- SideLeafPrio
  Prios = {0, 1}
  Burst <- PairBurst
  CBurst <- PairCBurst
  MBuffer <- SideMBuffer
  Quantum <- PairQuantum
  Cost <- PairCost
  CCost <- PairCCost
  Sizes = {1}
  PhyHeader = 0
  Hysteresis = FALSE
  MaxQueue = 1
  InitialAge = 1
  CanRemove = FALSE
INVARIANTS
  ModesFollowBuckets
  PullAgrees
  BucketsRespected
PROPERTIES
  ImplementsPolicy
