SPECIFICATION SmallSpec
CONSTANTS
  Base = 4
  FLEXRPC_MSG_VERSION = 8
  MAX_STRING_SIZE = 60
  Services <- MCServices
  MaxRegistrations = 4
INVARIANT DropsPartialCall
CHECK_DEADLOCK FALSE
