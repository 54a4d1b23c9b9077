SPECIFICATION Spec
CONSTANTS
  p1 = p1  p2 = p2  w1 = w1  w2 = w2
  claude = claude  codex = codex  gemini = gemini  own = own  admin = admin
  None = None
  Processes = {p1, p2}
  Workspaces = {w1, w2}
  Tools = {claude, gemini}
  Guarded = {claude}
  Refreshing = {gemini}
  OwnSources = {own}
  AdminSources = {admin}
  Policies <- MCPolicies
  Scenarios <- MCScenarios
INVARIANTS OwnSourcesOnly LaunchObeys
PROPERTIES FirstRevertRestores BlockKept
SYMMETRY ProcessSymmetry
CHECK_DEADLOCK FALSE
