SPECIFICATION Spec
CONSTANTS
  Guest = g
  Host = h
  Others = {o}
  Slots = 2
  MAX_PEERS = 3
  MaxFaults = 1
CHECK_DEADLOCK FALSE
INVARIANT NeverRedials
INVARIANT ShownConnected
PROPERTY Settles
