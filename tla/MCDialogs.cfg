SPECIFICATION DialogsSpec
CONSTANTS
  r1 = r1
  f1 = f1
  f2 = f2
  p1 = p1
  p2 = p2
  va = va
  vb = vb
  None = None
  NoProject = NoProject
  Create = Create
  Renderers <- MCRenderers
  Folders <- MCFolders
  Projects <- MCProjects
  Vaults <- MCVaults
  Home <- MCHome
  Starts <- Nothing
  Inside <- MCInside
  Limit = 2
  MaxEpoch = 2
  MaxCommits = 1
  MaxOpen = 3
  e1 = e1
  e2 = e2
  e3 = e3
  d1 = d1
  d2 = d2
  k1 = k1
  k2 = k2
  SecretFields = {s1, s2}
  Queries = {q0, q1}
  Blank = q0
  Identities = {i1, i2}
  EditorSettings <- Patient
  PanelCasts <- EveryUse
  ImportKinds <- Texts
  ImportSources <- Sources
  MaxGiven = 3
  MaxParses = 2
  MaxDialogs = 2
  MaxAsked = 3
  MaxChanges = 4
  MaxSessions = 2
CHECK_DEADLOCK FALSE
INVARIANT EditorInv
INVARIANT ImportInv
INVARIANT ScreensInv
