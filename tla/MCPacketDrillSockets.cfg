SPECIFICATION Spec
CONSTANTS
  MaxConns = 2
  Habits = {}
CHECK_DEADLOCK FALSE
INVARIANTS
  NoError
  OwnersClose
  OwnPorts
PROPERTIES
  SendsRelease
