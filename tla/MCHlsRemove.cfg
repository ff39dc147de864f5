SPECIFICATION FairSpec
CONSTANTS
  NumClasses = 5
  Parent <- TrioParent
  Weight <- TrioWeight
  LeafMtu <- TrioLeafMtu
  Sizes = {1, 2}
  PhyHeader = 1
  MaxQueue = 1
  CanRemove = TRUE
INVARIANTS
  QuotaConserved
  BusyTree
PROPERTIES
  HandlersEnd
