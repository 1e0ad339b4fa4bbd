SPECIFICATION OverdueSpec
CONSTANTS
  NFORWARD = 2
  MAXTIME_OFF = 1
  XIDS = 12
  Boot = 5
  Horizon = 8
  Forwarding <- OverUdp
  list_rbl <- Services
  Requests <- Three
  Insecure = FALSE
  Faults = {"late"}
  MaxCalls = 4
PROPERTY ReplyEndsItsCall
CHECK_DEADLOCK FALSE
