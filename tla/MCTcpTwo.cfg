SPECIFICATION FairSpec
CONSTANTS
  MaxConns = 2
  MaxSent = 1
  MaxReceived = 1
  Remotes = {11}
  Ports <- Ports1
  Asked = {}
  RemotePort = 5
  Fates <- AllFates
CHECK_DEADLOCK FALSE
INVARIANTS
  Routed
  NoError
  Drained
PROPERTIES
  ImplementsService
  CloseEnds
