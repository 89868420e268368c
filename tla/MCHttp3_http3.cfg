SPECIFICATION Spec

CONSTANTS
  Window = 5
  Modulus = 8
  HeadersSize = 1
  MaxFrame = 2
  StreamAbove = 3
  StreamFrame = 1
  WriteSizes = {1, 3, 4}
  ReadSizes = {1}
  MaxPut <- Bound
  Closers = {"a"}

INVARIANT StreamWhole
INVARIANT CreditedOnce
PROPERTY WrittenIsRead
CHECK_DEADLOCK FALSE
