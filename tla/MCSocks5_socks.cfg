SPECIFICATION FairSpec

CONSTANTS
  c1 = c1
  c2 = c2
  Callers = {c1, c2}
  Starts <- AllStarts
  BufferSize = 32
  MaxLinks = 2
  MaxCloses = 1

INVARIANT TakenAsMeant
INVARIANT NothingLeaks
PROPERTY GoroutinesEnd
CHECK_DEADLOCK FALSE
