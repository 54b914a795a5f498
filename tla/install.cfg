SPECIFICATION Spec
CONSTANTS
  json = json
  toml = toml
  other = other
  Clients = {json, toml}
  Rows <- MCRows
  Toml = {toml}
  Detected = {json, toml}
  Servers = {other}
  Linked <- MCLinked
  ReadOnly = {}
  Unreadable = {}
  NoFile = NoFile
  Broken = Broken
  Odd = Odd
  InitialTexts <- MCTexts
  EditedTexts <- MCEdits
  Pids = {p1, p2}
  MaxCommands = 2
  MaxFaults = 1
SYMMETRY MCSymmetry
INVARIANTS SiblingsKept RollbackPossible OkMeansDone NoLitter
CHECK_DEADLOCK FALSE
