SPECIFICATION MCSpec
CONSTANTS
  NFORWARD = 2
  MAXTIME_OFF = 1
  XIDS = 12
  Boot = 5
  Horizon = 6
  Forwarding <- OverUdp
  list_rbl <- Services
  Requests <- SameXid
  Insecure = FALSE
  Faults = {"late", "twice"}
  MaxCalls = 3
INVARIANTS RegistrationsAgree ForwardingSound
PROPERTIES OwnersRespected ForwardedAnswered
CHECK_DEADLOCK FALSE
