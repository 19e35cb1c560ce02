CONSTANTS
  v1 = v1
  v2 = v2
  r1 = r1
  r2 = r2
  r3 = r3
  a1 = a1
  o1 = o1
  o2 = o2
  None = None
  Over = Over
  Lost = Lost
  Vaults <- TwoVaults
  Records <- ThreeRecords
  Attachments <- OneAttachment
  Contents <- Documents
  Default <- NewVault
  Operations <- TwoOperations
  ReceiptLimit = 1
  Starts <- AnyStart
  Fragile <- OneAttachment
  MaxRevision = 3
  MaxLeft = 1
  OneBackup = TRUE
SPECIFICATION Spec
SYMMETRY Alike
INVARIANT IInv
PROPERTY CommitsOpen
PROPERTY ImplementsAtomicCollection
CHECK_DEADLOCK FALSE
