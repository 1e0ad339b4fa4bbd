SPECIFICATION FairSpec
CONSTANTS
  Threads = {t1, t2, t3}
  Handles = {h1, h2}
  Blocks = {b1, b2}
  None = None
  StaysActive = TRUE
  MaxOps = 1
  MaxRefs = 2
INVARIANT ActiveMeansCall
CHECK_DEADLOCK FALSE
