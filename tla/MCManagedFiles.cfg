SPECIFICATION Spec
CONSTANTS
  Tools = {claude}
  Procs = {p1}
  Leaves = {gateway, mcp, theme}
  Overlays = {{gateway}, {mcp}}
  UgValues = {ug1, ug2}
  AdminValues = {it}
  NoValue = NoValue
  Absent = Absent
  NoEntry = NoEntry
  Idle = Idle
  Serial = TRUE
  Crashes = TRUE
  FlagFaults = TRUE
  LateEdits = TRUE
  MaxEdits = 1
  MaxCommands = 4
SYMMETRY ValueSymmetry
INVARIANTS WriteHasBaseline BaselineIsForeign NothingLeftBehind
PROPERTIES RevertKeepsLaterEdits
CHECK_DEADLOCK FALSE
