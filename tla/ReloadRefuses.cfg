SPECIFICATION EngineSpec
CONSTANTS
  ServiceOrder <- MCServiceOrder
  PluginOrder <- MCPluginOrder
  Proxies = {"http"}
  Tasks = {t1, t2}
  Visitors = {v1}
  MaxReloads = 1
  MaxGens = 1
CHECK_DEADLOCK FALSE
INVARIANT ReloadKeepsServing
