SPECIFICATION Spec
CONSTANTS
  Offerer = a
  Answerer = b
  MaxFaults = 1
INVARIANT ShownIsConnected
INVARIANT NoGhostEntry
PROPERTY AttemptEnds
PROPERTY HalfOpenEnds
CHECK_DEADLOCK FALSE
