SPECIFICATION Spec
CONSTANTS
  A = A
  B = B
  claude = claude
  gemini = gemini
  github = github
  search = search
  Workspaces = {A, B}
  Clients = {claude, gemini}
  FileClients = {claude}
  Names = {github}
  Native = {github}
  None = None
  Kinds = {"all", "agent", "other", "launch"}
  Policies <- MCPolicies
  Widths = {TRUE, FALSE}
  Mishaps = TRUE
  MaxCommands = 6
SYMMETRY WorkspaceSymmetry
INVARIANTS SwitchSettles DroppedIsGone
PROPERTIES ChoicesKept
CHECK_DEADLOCK FALSE
