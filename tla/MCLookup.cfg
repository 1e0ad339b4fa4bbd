SPECIFICATION MCSpec
CONSTANTS
  Threads = {"t1", "t2"}
  Hosts = {"a", "b", "localhost"}
  Netids = {"udp", "tcp", "udp6"}
  Resolve <- SameAddress
  Speaks <- Mixed
  Registered = {"a", "b"}
  Ops = {"findaddr", "gettime", "rmtcall", "set", "convert"}
  LoopNetid = "tcp"
  CACHESIZE = 2
  Faults = {}
  MaxOps = 2
INVARIANTS AddressCacheSound SessionsSound
PROPERTY LookupsEnd
CHECK_DEADLOCK FALSE
