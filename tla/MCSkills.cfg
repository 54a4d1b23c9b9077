SPECIFICATION Spec
CONSTANTS
  s = s
  t = t
  a = a
  b = b
  claude = claude
  agents = agents
  p = p
  q = q
  Skill = {s, t}
  Bundles = {a, b}
  Roots = {claude, agents}
  Processes = {p, q}
  None = None
  Authored = Authored
  Ops = {"add", "remove", "configure", "launch"}
  Scenarios <- MCScenarios
SYMMETRY MCSymmetry
INVARIANTS ClaimsDisjoint CopiesAttributed
PROPERTIES AuthoredSpared
CHECK_DEADLOCK FALSE
