SPECIFICATION MCSpec
CONSTANTS
  Threads = {t1, t2, t3}
  Handles = {h1, h2}
  Blocks = {b1, b2}
  None = None
  StaysActive = FALSE
  MaxOps = 1
  MaxRefs = 2
  MaxCalls = 2
  FirstXid = 30
  Waits = {0, 2}
  SetXids = {15}
  Outcomes = {"SUCCESS", "AUTHERROR", "SYSTEMERROR", "garbage", "silent"}
  MaxElapsed = 1
  Netconf <- UdpTcpLocal
  Hosts = {"a"}
  LongHosts = {}
  Versions = {1}
  Supported = {{1}}
  Stdin = "free"
  MinFd = 1
  MaxFd = 3
  Faults = {"find", "socket", "family", "connect"}
  Uses = {"create", "tli"}
  MaxForks = 0
  Binders = {"t1", "t2"}
  LOWPORT = 2
  STARTPORT = 3
  ENDPORT = 4
  DYNLOW = 6
  DYNEND = 7
  PortMod = 8
  Pid = 7
  NotAPort = 0
  Blacklist = {0, 3, 7}
  Wanted = {0, 2}
  Families = {"inet", "local"}
  MaxOthers = 1
INVARIANTS DescriptorLockSafe ConnectedCallOnce HandlesSound PortsInRange
PROPERTY ClientOperationsReturn
CHECK_DEADLOCK FALSE
