SPECIFICATION SessionsFairSpec
CONSTANTS
  e1 = e1
  e2 = e2
  h1 = h1
  h2 = h2
  h3 = h3
  NoKey = NoKey
  Handles <- MCHandles
  LongHandles <- MCLongHandles
  Callers = {Idle, Quitter}
  MaxBoundaries = 4
  Idle = Idle
  Quitter = Quitter
  None = None
  Events <- MCEvents
  Handlers <- MCHandlers
  DialogHandlers <- MCDialogs
  Lockers = {Idle, Quitter}
  FlushLimit = 2
  MarkerLimit = 1
  MaxEpoch = 3
  MaxRevision = 2
  Casts <- MCCasts
INVARIANT IInv
INVARIANT KeyringInv
INVARIANT CommitsOnlyInItsScope
INVARIANT LockDrains
PROPERTY UnlockOnlyUnovertaken
PROPERTY LockReturns
PROPERTY UsageSettles
PROPERTY QuitEnds
