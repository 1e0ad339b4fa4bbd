SPECIFICATION MCSpec
CONSTANTS
  Xprts = {"x1", "x2"}
  Win = 2
  Width = 3
  MAXSEQ = 4
  MaxTimes = 2
  Seqs = {1}
  Svcs = {"integrity"}
  Life = 1
  MaxTime = 2
  MaxGd = 3
  MaxConn = 3
  MaxCtx = 1
  MaxSeq = 2
  MaxBegun = 2
  MaxHandle = 3
  NewFlavors = {"f1", "f2"}
  Handlers = {"h1", "h2"}
  AuthLens = {0, 20, 24, 400}
  StrLens = {0, 255, 256}
  GidLens = {0, 16, 17}
INVARIANTS GssCacheSound ClientContextsSound
PROPERTIES GssRequestsOnce CredentialsDecoded UnixCredentialKept
CHECK_DEADLOCK FALSE
