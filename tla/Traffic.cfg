SPECIFICATION TrafficSpec
CONSTANTS
  gate = gate
  observer = observer
  h1 = h1
  Clients = {gate, observer}
  Procs = {p1}
  Order <- GateFirst
  Policy <- MCPolicy
  Declares <- MCDeclares
  Filters <- MCFilters
  Replies = {"deny", "rewrite", "block"}
  Hosts = {h1, h2}
  Kinds = {"plain", "mitm", "h2", "raw"}
  MaxSends = 5
  MaxFaults = 1
  MaxReqs = 2
  MaxEdits = 1
  None = None

  a1 = a1
  a2 = a2
  Addrs = {a1, a2}
  Sockets = {k1, k2, k3}
  ConnConfigs <- MCConn
  TrafficValues <- MCRates
  MaxLoads = 2

  Requests = {q1}
  Companions = {c1, c2}
  EventCap = 2
  MaxNotes = 2
  MaxUpdates = 2

  Domains = {"h1", "h2"}
  Ips = {"i1", "i2"}
  Containers = {"k1", "k2"}
  Lookups = {g1}
  TTL = 1
  DbTTL = 3
  MinTTL = 1
  MaxTTL = 2
  DockerTTL = 1
  MaxTime = 5
  MaxAnswers = 2
CHECK_DEADLOCK FALSE
INVARIANTS
  ExchangeTypeOK
  ForwardLawful
  DeliveryLawful
  RecordTrue
  SecretsStayOut
  
  
  ConnLimitHeld
  
  
  NamesGiven
