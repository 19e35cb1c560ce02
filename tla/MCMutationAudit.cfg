SPECIFICATION FairSpec
CONSTANTS
  m1 = m1
  m2 = m2
  Probe = Probe
  Mutations <- TwoMutations
  ReceiptLimits <- OneOrTwo
  MaxEpoch = 4
  MaxFaults = 2
CHECK_DEADLOCK FALSE
INVARIANT IInv
PROPERTY EventuallyAudited
