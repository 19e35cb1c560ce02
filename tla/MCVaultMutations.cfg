SPECIFICATION Spec
CONSTANTS
  v1 = v1
  v2 = v2
  c1 = c1
  c2 = c2
  s1 = s1
  s2 = s2
  b1 = b1
  b2 = b2
  w1 = w1
  None = None
  Vaults <- TwoVaults
  Commands <- TwoCommands
  Switches <- TwoSwitches
  Batches <- TwoBatches
  Writers <- OneWriter
  Casts <- AllCasts
  ReceiptLimit = 1
  UsageLimit = 1
  MaxRetries = 1
  MaxEpoch = 2
CHECK_DEADLOCK FALSE
SYMMETRY AllSymmetry
INVARIANT IInv
PROPERTY StaleMeansNotApplied
PROPERTY ScopedCommits
