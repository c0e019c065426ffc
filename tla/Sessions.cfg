SPECIFICATION Spec
SYMMETRY Symmetry
CONSTANTS
  Sids = {s1, s2}
  Globals = {g1}
  Keys = {k1}
  Handlers = {h1, h2}
  Vers = {v1, v2}
  TTLs = {2}
  MaxTime = 3
  MaxOps = 3
  MaxSubst = 1
  MaxFaults = 1
  None = None
CHECK_DEADLOCK FALSE
INVARIANTS
  SessionsTypeOK
  MemoryMirrorsTables
  SessionRulesHonoured
  NoLeftoverRules
  PersonsRuleKept
  SubstitutionsCounted
