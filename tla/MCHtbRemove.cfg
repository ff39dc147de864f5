SPECIFICATION FairSpec
CONSTANTS
  NumClasses = 5
  Parent <- TrioParent
  Level <- TrioLevel
  LeafPrio <- TrioLeafPrio
  Prios = {0}
  Burst <- TrioBurst
  CBurst <- TrioCBurst
  MBuffer <- TrioMBuffer
  Quantum <- TrioQuantum
  Cost <- TrioCost
  CCost <- TrioCCost
  Sizes = {1}
  PhyHeader = 0
  Hysteresis = FALSE
  MaxQueue = 1
  InitialAge = 1
  CanRemove = TRUE
INVARIANTS
  TypeOK
  FeedsConsistent
  WaitTreeConsistent
  PointersValid
PROPERTIES
  HandlersEnd
