SPECIFICATION Spec
CONSTANTS
  c1 = c1
  c2 = c2
  u1 = u1
  u2 = u2
  Conns = {c1, c2}
  Users = {u1, u2}
  Dests <- ApartDests
  Hosts <- ApartHosts
  HostOf <- ApartHostOf
  Resolved <- NoHosts
  Patterns <- ApartPatterns
  Covers <- ApartCovers
  Specificity <- ApartSpecificity
  Scopes <- MCScopes
  PatternFor <- ApartPatternFor
  Octets <- MCOctets
  Ops = {"dismiss"}
  Temps = {FALSE}
  BufSize = 2
  MaxRules = 2
  MaxPending = 2
  MaxOps = 2
PROPERTY DismissalIsOwn
CHECK_DEADLOCK FALSE
