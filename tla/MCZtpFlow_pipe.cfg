SPECIFICATION FairSpec

CONSTANTS
  Writers = {w1}
  w1 = w1
  Modulus = 16
  Window = 3
  MaxFrame = 2
  SendBuf = 1
  RecvBuf = 2
  WireCap = 1
  ReadSize = 2
  MaxWrite = 3
  MaxBytes = 7
  Env <- Calm

PROPERTY ImplementsPipe
PROPERTY WriteCompletes
PROPERTY CloseReachesReader
CHECK_DEADLOCK FALSE
