CONSTANTS
  a = a  b = b  c = c  d = d  p = p  q = q  s = s
  None = None
  Items = {a, b, c, d}
  Providers = {p, q}
  ProviderOf <- MCProviderOf
  MemoryOf <- MCMemoryOf
  PriorityOf <- MCPriorityOf
  GateOf <- MCGateOf
  ScopeOf <- MCScopeOf
  ProviderCap <- MCProviderCap
  MemoryCapacity = 3
  MaxConcurrency = 2
  MaxQueue = 2
  Aging = 1
  QueueTimeout = 2
  MaxClock = 3
SPECIFICATION FairSpec
INVARIANT SchedulerSafe
PROPERTIES
  OrderRespected
  WaitsEnd
CHECK_DEADLOCK FALSE
