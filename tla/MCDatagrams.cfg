SPECIFICATION MCSpec
CONSTANTS
  MaxCalls = 2
  FirstXid = 1
  Client = "c1"
  Totals = {1}
  Retries = {1}
  MaxQueue = 1
  UcSize = 2
  AuthRejects = FALSE
  MaxExec = 1
INVARIANT ReplyCacheSound
PROPERTIES DatagramCallsReturn RemoteCallsImplemented BroadcastSound
CHECK_DEADLOCK FALSE
