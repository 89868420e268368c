SPECIFICATION FairSpec

CONSTANTS
  Keys = {k1}
  k1 = k1
  Modulus = 32
  Isn <- FarIsn
  ConnBuf = 1
  InCap = 2
  MaxConns = 2
  MaxUp = 1
  MaxDown = 1
  Env <- Hostile

INVARIANT TypeOK
INVARIANT LiveIsTracked
INVARIANT SeqMatchesSent
PROPERTY HandshakeCompletes
PROPERTY ServerCloseFreesKey
CHECK_DEADLOCK FALSE
