SPECIFICATION Spec
CONSTANTS
  h1 = h1
  h2 = h2
  g1 = g1
  g2 = g2
  NoPeer = NoPeer
  NoSocket = NoSocket
  Sockets = {s1, s2, s3}
  HostIds <- TwoHostIds
  Guests <- TwoGuests
  Members <- OneGuest
  MaxPeers = 2
  MaxPending = 1
  MaxVaults = 2
  MaxTasks = 2
  AwaitYields = FALSE
VIEW LiveState
SYMMETRY SocketSymmetry
 
INVARIANT Capacity
 
 
