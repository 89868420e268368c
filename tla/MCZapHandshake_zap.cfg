SPECIFICATION Spec

CONSTANTS
  Users = {"plain", "token", "bare", "totp", "keyless"}
  Workers = {w1, w2}
  UserConfig <- Configs
  ServerProviders = {"psk", "token"}
  ServerKey = TRUE
  Tokens = {"t1", "t2"}
  MaxConns = 2
  w1 = w1
  w2 = w2

INVARIANT SessionsAgree
INVARIANT SpentTokenIsDead
PROPERTY EndsForCause
CHECK_DEADLOCK FALSE
