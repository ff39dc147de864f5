SPECIFICATION Spec
CONSTANTS
  Scripts <- AllScripts
  MaxTime = 1
  MaxSent = 2
  Latency = 0
  Tolerance = 0
CHECK_DEADLOCK FALSE
INVARIANTS
  EachEventRuns
  ComparedInOrder
  CompleteMeansMet
  StreamAccounted
  StopsForAReason
