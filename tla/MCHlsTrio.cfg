SPECIFICATION ShareFairSpec
CONSTANTS
  NumClasses = 5
  Parent <- TrioParent
  Weight <- TrioWeight
  LeafMtu <- TrioLeafMtu
  Sizes = {2}
  PhyHeader = 1
  MaxQueue = 2
  CanRemove = FALSE
  One = 3
  Other = 4
INVARIANTS
  OncePerRound
  NegativeAtRootOnly
  SharesInProportion
PROPERTIES
  NoStarvation
