SPECIFICATION PageSpec
CONSTANTS
  Alice = a
  Bob = b
  MAX_SKIP = 2
  MAX_SKIPPED_KEYS = 2
  Chunks = 2
  MaxSealed = 3
  Writers = {a}
  Sharers = {b}
  Readers = {b}
  MaxRead = 1
  MaxFaults = 1
  Members = {p1, p2, p3}
  Met = {p1, p2}
  MaxMoves = 3
  MaxDrops = 1
  Vaults = {v1, v2}
  Contacts = {c1}
  Prints = {f1, f2}
  NoPrint = NoPrint
  Tabs = {t1, t2}
  Passphrases = {word1, word2}
  Legacy = t1
  MaxKeys = 3
  MaxPresses = 4
  MaxPrompts = 1
  Sids = {s1}
  Wallets = {w1, w2}
  TOLERANCE = 1
  CONN_WINDOW = 1
  CACHE_MAX = 1
  MaxSkew = 2
  Ttl = 3
  MaxProofs = 2
  MaxTime = 4
  RATE = 2
  LIMIT = 3
  SOCKET_LIMIT = 5
  MaxQueued = 2
  MaxChats = 1
CHECK_DEADLOCK FALSE
INVARIANT NoneStranded
INVARIANT ReadOnce
INVARIANT ReceiptsTrue
INVARIANT Converges
INVARIANT PinsAreWanted
 
INVARIANT VerifiedWasCompared
INVARIANT ActiveIsDurable
INVARIANT NothingLeftOn
INVARIANT ProofAdmitsOnce
INVARIANT BurstBounded
PROPERTY DeletedStays
