--------------------------- MODULE MCZapHandshake ----------------------------
EXTENDS ZapHandshake

\* A caller of zap.Authenticate, a client with a token, and three that must be
\* refused: without its provider, with a method the server lacks, without a key.
Config(u) ==
  CASE u = "plain"   -> ConvertConfig(<<"psk", "token">>, TRUE)
    [] u = "token"   -> [method |-> "token", providers |-> {"token"}, token |-> "t1", key |-> TRUE]
    [] u = "bare"    -> [method |-> "psk", providers |-> {"token"}, token |-> "none", key |-> TRUE]
    [] u = "totp"    -> [method |-> "totp", providers |-> {"totp"}, token |-> "none", key |-> TRUE]
    [] u = "keyless" -> [method |-> "psk", providers |-> {"psk"}, token |-> "none", key |-> FALSE]
Configs == [u \in Users |-> Config(u)]
==============================================================================
