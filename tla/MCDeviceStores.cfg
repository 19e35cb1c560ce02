SPECIFICATION StoresSpec
CONSTANTS
  c1 = c1
  c2 = c2
  None = None
  Callers <- TwoCallers
  Limit = 2
  BackoffStart = 1
  MaxChecks = 6
  MaxResets = 2
  MaxFaults = 2
  MaxRestarts = 3
  Settings <- BesideAndRestarts
  h1 = h1
  h2 = h2
  Unknown = Unknown
  Helpers <- OneHelper
  Editions <- BothEditions
  MaxKeys = 2
  MaxCalls = 5
  MaxKeychainFaults = 3
  r1 = r1
  r2 = r2
  Appender = Appender
  Readers <- TwoReaders
  MaxArchives = 1
  MaxEvents = 8
  MaxLogFaults = 3
  LogSettings <- RotationsAndReads
CHECK_DEADLOCK FALSE
SYMMETRY StoreSymmetry
INVARIANT StoresInv
PROPERTY KeysStay
PROPERTY ReadsAcknowledged
