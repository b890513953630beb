SPECIFICATION Spec
CONSTANTS
  c1 = c1
  c2 = c2
  Clients = {c1, c2}
  Host = c1
  NoTime = NoTime
  NoVault = NoVault
  DefaultTtl = 4
  Window = 2
  EmptyTtl = 2
  SweepEvery = 2
  InactivityTtl = 6
  MaxTtl = 12
  MaxNow = 16
  Ttls <- AppTtls
  ApiCallers = FALSE
CHECK_DEADLOCK FALSE
PROPERTY NoCutOff
INVARIANT LifetimeBounded
INVARIANT AbandonedReaped
