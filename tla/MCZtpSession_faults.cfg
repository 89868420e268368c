SPECIFICATION FairSpec

CONSTANTS
  Closers = {c1, c2}
  c1 = c1
  c2 = c2
  SendBuf = 1
  RecvBuf = 1
  ErrBuf = 2
  MaxSends = 1
  MaxFrames = 1
  MaxPings = 1
  Env <- Hostile

INVARIANT TypeOK
INVARIANT TransportClosedLast
INVARIANT OneCloser
INVARIANT FaultsAccounted
PROPERTY LoopCloseIsFinal
PROPERTY HalfDeadIsClosed
PROPERTY CloseCompletes
CHECK_DEADLOCK FALSE
