SPECIFICATION Spec
CONSTANTS
  c1 = c1
  c2 = c2
  u1 = u1
  u2 = u2
  Conns = {c1, c2}
  Users = {u1, u2}
  Dests <- OneDests
  Hosts <- OneHosts
  HostOf <- OneHostOf
  Resolved <- NoHosts
  Patterns <- OnePatterns
  Covers <- OneCovers
  Specificity <- OneSpecificity
  Scopes <- MCScopes
  PatternFor <- OnePatternFor
  Octets <- MCOctets
  Ops = {"create", "delete"}
  Temps = {FALSE}
  BufSize = 2
  MaxRules = 2
  MaxPending = 2
  MaxOps = 2
INVARIANT RevocationComplete
CHECK_DEADLOCK FALSE
