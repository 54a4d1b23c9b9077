SPECIFICATION Spec
CONSTANTS
  p1 = p1  p2 = p2  w1 = w1  w2 = w2
  claude = claude  codex = codex  gemini = gemini  own = own  admin = admin
  None = None
  Processes = {p1}
  Workspaces = {w1}
  Tools = {claude, codex}
  Guarded = {claude, codex}
  Refreshing = {}
  OwnSources = {own}
  AdminSources = {admin}
  Policies <- MCPolicies
  Scenarios <- MCSerial
PROPERTY RevertDeletes
CHECK_DEADLOCK FALSE
