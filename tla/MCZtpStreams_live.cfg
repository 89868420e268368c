SPECIFICATION FairSpec

CONSTANTS
  Client = client
  Server = server
  Openers = {client}
  Closers = {}
  MaxStreams = 3
  SendBuf = 1
  WireCap = 2
  AcceptBuf = 2
  SendTimeouts = FALSE
  MaxId = 5
  MaxData = 0

PROPERTY OpenedIsAccepted
PROPERTY CloseReachesPeer
CHECK_DEADLOCK FALSE
