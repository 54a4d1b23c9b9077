SPECIFICATION Spec
CONSTANTS
  alice = alice
  bob = bob
  A = A
  B = B
  c = c
  d = d
  Users = {alice, bob}
  Workspaces = {A, B}
  Configs = {c}
  None = None
  Disabled = Disabled
  Skips = {TRUE, FALSE}
  MaxCommands = 3
  MaxPublications = 1
SYMMETRY MCSymmetry
INVARIANTS InstalledGoverns NothingStale SwitchOrStay
CHECK_DEADLOCK FALSE
