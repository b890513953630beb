SPECIFICATION FairSpec
CONSTANTS
  MaxMessages = 2
  MaxFaults = 1
  SenderInitiates = FALSE
INVARIANTS ShownOnce
PROPERTIES ImplementsDelivery StoredUntilShown FlushDelivers
CHECK_DEADLOCK FALSE
