SPECIFICATION BothSpec
CONSTANTS
  c1 = c1
  c2 = c2
  None = None
  Clients <- MCClients
  Scenarios <- AllScenarios
  MaxMade = 3
  MaxEpoch = 2
  MaxVaults = 3
  Settings <- SessionsAndSwitches
CHECK_DEADLOCK FALSE
SYMMETRY Symmetry
INVARIANT FlowsInv
INVARIANT RendererInv
PROPERTY FlowsReplaced
PROPERTY FlowsAnswer
PROPERTY RendererGoesOn
