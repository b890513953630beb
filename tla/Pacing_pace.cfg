SPECIFICATION PacingSpec
CONSTANTS
  RATE = 6
  LIMIT = 10
  SOCKET_LIMIT = 20
  MaxQueued = 3
  MaxChats = 0
INVARIANT PacedBelowLimit
