SPECIFICATION Spec
CONSTANTS
  Modulus = 16
  Frames <- TwoFrames
  MaxWritten = 2
  MaxSegments = 3
  MaxConns = 2
  FlagSets = {{"SCHED", "SND", "ACK"}}
  Habits = {}
CHECK_DEADLOCK FALSE
INVARIANTS
  FramesAgree
  StampsDue
  SynDataKnown
