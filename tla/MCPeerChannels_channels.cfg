SPECIFICATION FairSpec
CONSTANT MaxFaults = 2
INVARIANTS SameRoot NoFailedHandshake
PROPERTIES ReadyNeverFails Recovers
CHECK_DEADLOCK FALSE
