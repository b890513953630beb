SPECIFICATION Spec
CONSTANT MaxFaults = 1
INVARIANT MessageOneInFlight
CHECK_DEADLOCK FALSE
