SPECIFICATION FairSpec
CONSTANTS
  c1 = c1
  c2 = c2
  u1 = u1
  u2 = u2
  Conns = {c1, c2}
  Users = {u1}
  Dests <- SiblingDests
  Hosts <- SiblingHosts
  HostOf <- SiblingHostOf
  Resolved <- SiblingHosts
  Patterns <- SiblingPatterns
  Covers <- SiblingCovers
  Specificity <- SiblingSpecificity
  Scopes <- MCScopes
  PatternFor <- SiblingPatternFor
  Octets <- MCOctets
  Ops = {"allow", "deny", "dismiss"}
  Temps = {FALSE}
  BufSize = 2
  MaxRules = 2
  MaxPending = 2
  MaxOps = 2
PROPERTY EveryoneAnswered
CHECK_DEADLOCK FALSE
