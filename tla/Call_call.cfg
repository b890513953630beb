SPECIFICATION Spec
CONSTANTS
  Impolite = a
  Polite = b
  MaxCalls = 2
  MaxFaults = 1
CHECK_DEADLOCK FALSE
 
INVARIANT GlareResolves
PROPERTY ConnectingEnds
PROPERTY OneSidedCallEnds
