SPECIFICATION Spec

CONSTANTS
  Client = client
  Server = server
  Openers = {client}
  Closers = {client}
  MaxStreams = 3
  SendBuf = 1
  WireCap = 1
  AcceptBuf = 1
  SendTimeouts = FALSE
  MaxId = 3
  MaxData = 1

INVARIANT RegistrySound
INVARIANT QuietAgreement
INVARIANT ResetFollowsClose
CHECK_DEADLOCK FALSE
