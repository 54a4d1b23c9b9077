SPECIFICATION SignInSpec
CONSTANTS
  c1 = c1
  c2 = c2
  c3 = c3
  p1 = p1
  p2 = p2
  p3 = p3
  Callers = {c1, c2, c3}
  Processes = {p1, p2, p3}
  NoCaller = NoCaller
  Scenarios <- MCScenarios
  MaxIssued = 3
  MaxLosses = 1
INVARIANTS
  TokenIsFresh
  NoSecondBrowser
PROPERTIES
  CallAnswered
CHECK_DEADLOCK FALSE
