SPECIFICATION Spec
CONSTANTS
  h1 = h1
  h2 = h2
  w1 = w1
  w2 = w2
  v1 = v1
  Nothing = Nothing
  User = User
  None = None
  Handlers <- TwoHandlers
  Windows <- TwoWindows
  Values <- OneValue
  Users <- TheUser
  Scenarios <- AllScenarios
  MaxCalls = 3
  MaxEpoch = 3
  MaxRevision = 3
  MaxFaults = 1
  MaxCrashes = 1
CHECK_DEADLOCK FALSE
INVARIANT IInv
PROPERTY ClearsOnlySecrets
PROPERTY CopiesAreCleared
