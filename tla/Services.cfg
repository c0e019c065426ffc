SPECIFICATION ServicesSpec
CONSTANTS
  Clients = {gate}
  Procs = {p1, p2}
  Policy <- MCPolicy
  Replies = {"deny"}
  MaxSends = 2
  MaxDials = 2
  MaxFaults = 1
  None = None

  s1 = s1
  s2 = s2
  s3 = s3
  r1 = r1
  NoSid = NoSid
  Rows <- MCRows
  MaxTxns = 2
  QueueCap = 1
  MaxRequests = 1
  MaxCrashes = 1

  ServiceOrder <- MCServiceOrder
  PluginOrder <- MCPluginOrder
  Proxies = {"http"}
  Tasks = {t1, t2}
  Visitors = {v1}
  MaxReloads = 2
  MaxGens = 2

  SocksConfs <- MCSocksConfs
  NameLens = {9, 256}
  Sizes = {0, 1}
  Sources = {"own1", "own2", "other"}
  OwnSources = {"own1", "own2"}
  MaxPieces = 2
CHECK_DEADLOCK FALSE
INVARIANTS
  NeverBlocks
  NoLeak
  DrainReaches
  
  ReloadServes
  
PROPERTIES
  ImplementsService
  SendReturns
  
  CertificateLoaded
  
