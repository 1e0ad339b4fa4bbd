SPECIFICATION MCSpec
CONSTANTS
  MaxFd = 2
  MaxXprt = 4
  Requests <- OneService
  Services <- OneService
  Behaviours = {"destroy other", "exit"}
  Batch = 1
  ExitAt = {}
  Threads = {"t1", "t2"}
  Programs = {1}
  SimplePrograms = {3, 4}
  Procs = {0, 1, 2}
  Netconf <- UdpTcp
  Dispatches = {"d"}
  Stdin = "app"
  Shape <- Words
  Faults = {"socket", "xprt"}
  Calls = {"svc_create", "rpc_reg", "svc_tp_create"}
  Descriptors = 4
  MaxCalls = 2
  MaxRequests = 0
  RawPrograms = {1}
  Arguments = {1, 2, 3}
  FD_SETSIZE = 4
  DTableSize = 5
  Fates = {"reply", "long"}
  NestEarly = FALSE
  MaxDepth = 3
  RawCalls = 5
INVARIANTS TransportTablesSafe RegistrationSound RawCallsAnswered
PROPERTIES  SimpleRequestsServed
CHECK_DEADLOCK FALSE
