SPECIFICATION MCSpec
CONSTANTS
  Base = 2
  Size = 9
  Longs <- MCLongs
  Blocks <- MCBlocks
INVARIANTS WithinBuffer XdrCodecSound
PROPERTIES WritesInsideWindow WindowOnlyShrinks RecordStreamSound RecordStreamImplemented ConnectionsServed
CHECK_DEADLOCK FALSE
