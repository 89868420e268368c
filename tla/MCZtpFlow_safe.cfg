SPECIFICATION Spec

CONSTANTS
  Writers = {w1}
  w1 = w1
  Modulus = 5
  Window = 3
  MaxFrame = 2
  SendBuf = 1
  RecvBuf = 1
  WireCap = 1
  ReadSize = 2
  MaxWrite = 3
  MaxBytes = 8
  Env <- Rough

INVARIANT TypeOK
INVARIANT WindowRespected
INVARIANT AckNeverAhead
INVARIANT LifetimeBound
CHECK_DEADLOCK FALSE
