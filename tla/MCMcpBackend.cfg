SPECIFICATION FairSpec
CONSTANTS
  r1 = r1
  r2 = r2
  Relays = {r1, r2}
  None = None
  MaxTimeouts = 1
  Hasty = {r1}
  RelayCrashes = TRUE
  BackendCrashes = TRUE
  Slow = TRUE
INVARIANTS OneBackendServes EndpointOwned SessionIsAuthentic
PROPERTIES IdleStopSparesSessions RelayAnswered BackendStops
CHECK_DEADLOCK FALSE
