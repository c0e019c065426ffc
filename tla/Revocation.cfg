SPECIFICATION Spec
CONSTANTS
  c1 = c1
  c2 = c2
  u1 = u1
  u2 = u2
  Conns = {c1, c2}
  Users = {u1, u2}
  Dests <- OneDests
  Hosts <- OneHosts
  HostOf <- OneHostOf
  Resolved <- NoHosts
  Patterns <- OnePatterns
  Covers <- OneCovers
  Specificity <- OneSpecificity
  Scopes <- MCScopes
  PatternFor <- OnePatternFor
  Octets <- MCOctets
  Ops = {"create", "update", "delete"}
  Temps = {TRUE, FALSE}
  BufSize = 1
  MaxRules = 3
  MaxPending = 2
  MaxOps = 3
SYMMETRY MCSymmetry
INVARIANT TrackerExact
PROPERTY RevocationReaches
PROPERTY ImplementsAccessControl
CHECK_DEADLOCK FALSE
