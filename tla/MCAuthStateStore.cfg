SPECIFICATION FairSpec
CONSTANTS
  c1 = c1
  c2 = c2
  v1 = v1
  v2 = v2
  w1 = w1
  w2 = w2
  k1 = k1
  k2 = k2
  None = None
  Clients <- MCClients
  Vaults <- MCVaults
  Creds <- MCCreds
  Kits <- MCKits
  Requests <- MCRequests
  Layouts <- AllLayouts
  MaxGen = 3
  MaxFaults = 1

CHECK_DEADLOCK FALSE
INVARIANT IInv
PROPERTY EveryRequestSettles
PROPERTY CommitLeavesOneWrapper
PROPERTY ImplementsAtomicAuthState
