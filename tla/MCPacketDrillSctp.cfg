SPECIFICATION Spec
CONSTANTS
  Modulus = 16
  LiveTsns = {15, 6}
  ScriptTsns = {0, 1}
  MaxData = 2
  MaxRequests = 2
  Habits = {}
CHECK_DEADLOCK FALSE
INVARIANTS
  ChunksAgree
  RequestsApart
