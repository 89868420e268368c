SPECIFICATION Spec

CONSTANTS
  r1 = r1
  r2 = r2
  w1 = w1
  w2 = w2
  t1 = t1
  Readers <- AtB
  Writers <- AtA
  TryWriters <- TryAtB
  BufferSize = 4
  ReadSizes = {2}
  WriteSizes = {3}
  Deadlines <- Timing
  MaxUnits = 3
  MaxChanges = 1

INVARIANT TryWriteReachesPeer
CHECK_DEADLOCK FALSE
