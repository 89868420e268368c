---------------------------- MODULE ZapHandshake -----------------------------
(***************************************************************************)
(* The ZAP handshake: clients and the workers of one server exchange four  *)
(* frames on connections of their own.  The workers share a configuration, *)
(* hence an AuthManager and its set of one-time tokens, which no lock      *)
(* protects.  Each end keeps its Handshake object for its next handshake   *)
(* and may or may not Reset it in between.                                 *)
(*                                                                         *)
(* A random number is named by the connection it is drawn for.  ReadFrame  *)
(* reads whole frames whatever the segmentation, so a frame is one item.   *)
(* The context of a handshake is never consulted: only the connection ends *)
(* a Read.  Whoever calls the handshake closes the connection when it      *)
(* fails, as ztptls.createSession does.                                    *)
(***************************************************************************)
EXTENDS Naturals, Sequences, FiniteSets

CONSTANTS
  Users,            \* client Handshake objects
  Workers,          \* server Handshake objects
  UserConfig,       \* the HandshakeConfig of each user
  ServerProviders,  \* methods of HandshakeConfig.AuthManager, or NoManager
  ServerKey,        \* the private key of the server is set
  Tokens,           \* tokens the server is configured with
  MaxConns          \* bound: connections altogether

Methods == {"psk", "token", "totp"}
NoManager == {"none"}
Conns == 1..MaxConns
None == 0

\* How the clients of zap.Authenticate are configured: convertConfig builds an
\* AuthManager and drops it.
ConvertConfig(methods, key) ==
  [method |-> IF methods = <<>> THEN "psk" ELSE methods[1],
   providers |-> NoManager, token |-> "none", key |-> key]

ASSUME ZapAssumption ==
  /\ MaxConns \in Nat /\ ServerKey \in BOOLEAN
  /\ "none" \notin Tokens   \* what a session without a token has
  /\ ServerProviders \subseteq Methods \/ ServerProviders = NoManager
  /\ \A u \in Users :
       /\ UserConfig[u].method \in Methods /\ UserConfig[u].key \in BOOLEAN
       /\ UserConfig[u].providers \subseteq Methods \/ UserConfig[u].providers = NoManager

\* The empty key is nobody's.
ASSUME KeyAssumption == "" \notin Users

VARIABLES
  dialed,    \* connections made so far
  accepted,  \* connections the server has accepted
  up, down,  \* frames towards the server and towards the client
  shut,      \* who has closed a connection: "client", "server"
  broken,    \* connections the network has broken
  client,    \* Handshake of each user
  userAt,    \* the step a user is in, on which connection
  server,    \* Handshake of each worker
  workerAt,  \* the step a worker is in, on which connection, with which token
  tokens,    \* TokenAuth.tokens
  spent,     \* history: which connection each deleted token came from
  late,      \* history: the tokens spent by the time a connection was accepted
  sessions,  \* history: sessions the handshakes have returned
  alive      \* the server process runs

wire == <<dialed, accepted, up, down, shut, broken>>
clients == <<client, userAt>>
servers == <<server, workerAt, tokens, spent, late, alive>>
vars == <<wire, clients, servers, sessions>>

Steps == {"idle", "hello", "challenge", "response", "delete", "success"}
States == {"Idle", "ClientHelloSent", "ServerChallengeSent", "ClientResponseSent",
           "Authenticated"}

\* PublicKeyBytes of a missing key fails and nil is sent; it is decoded as an
\* empty slice, which is not nil, so "" stands for both.
PublicKey(who, set) == IF set THEN who ELSE ""

NoKey == <<>>
Fresh == [state |-> "Idle", clientRandom |-> None, serverRandom |-> None, salt |-> None,
          peerKey |-> "", method |-> "psk", id |-> None, key |-> NoKey]

Reset(h) == [Fresh EXCEPT !.method = h.method]
Reusable(h) == {h, Reset(h)}

Init ==
  /\ dialed = 0 /\ accepted = 0 /\ broken = {}
  /\ up = [c \in Conns |-> <<>>] /\ down = [c \in Conns |-> <<>>]
  /\ shut = [c \in Conns |-> {}]
  /\ client = [u \in Users |-> Fresh]
  /\ userAt = [u \in Users |-> [step |-> "idle", conn |-> None]]
  /\ server = [w \in Workers |-> Fresh]
  /\ workerAt = [w \in Workers |-> [step |-> "idle", conn |-> None, token |-> "none"]]
  /\ tokens = Tokens /\ spent = {} /\ late = [c \in Conns |-> {}] /\ sessions = {} /\ alive = TRUE

------------------------------------------------------------------------------
(***************************************************************************)
(* Frames and the connection.                                              *)
(***************************************************************************)
ClientHello(method, random, key) ==
  [type |-> "ClientHello", method |-> method, random |-> random, key |-> key]
ServerChallenge(random, key, salt) ==
  [type |-> "ServerChallenge", random |-> random, key |-> key, salt |-> salt]
ClientResponse(data) == [type |-> "ClientResponse", data |-> data]
ServerSuccess(id) == [type |-> "ServerSuccess", id |-> id]

\* ReadFrame returns a frame of the type that is wanted.
Receives(pipe, type) == pipe # <<>> /\ Head(pipe).type = type
\* Mutated: the end of the connection is waited out.
UnreadableFrame(pipe, type, closed) == pipe # <<>> /\ Head(pipe).type # type
\* ReadFrame, or the test of the type, returns an error.
Unreadable(pipe, type, closed) ==
  IF pipe = <<>> THEN closed ELSE Head(pipe).type # type

ClientCannotRead(c, type) ==
  "client" \in shut[c] \/ Unreadable(down[c], type, "server" \in shut[c])
ServerCannotRead(c, type) ==
  "server" \in shut[c] \/ Unreadable(up[c], type, "client" \in shut[c])

\* WriteFrame.  What is written to a connection whose other end is closed may
\* be lost without an error.
WriteUp(c, frame) ==
  /\ "client" \notin shut[c]
  /\ up' = [up EXCEPT ![c] = IF "server" \in shut[c] THEN @ ELSE Append(@, frame)]
WriteDown(c, frame) ==
  /\ "server" \notin shut[c]
  /\ down' = [down EXCEPT ![c] = IF "client" \in shut[c] THEN @ ELSE Append(@, frame)]
WriteMayFail(c) == shut[c] # {}

------------------------------------------------------------------------------
(***************************************************************************)
(* Authentication data.  "mac" and "zeros" are 32 bytes, "code" six digits.*)
(***************************************************************************)
Providers ==
  IF ServerProviders = NoManager THEN Methods ELSE ServerProviders

\* TokenAuth always answers "sample_token"; a token of the client's own comes
\* from a provider of the caller's.
GenerateResponse(cfg) ==
  IF cfg.providers = NoManager THEN "zeros"
  ELSE IF cfg.method = "token" THEN cfg.token
  ELSE IF cfg.method = "psk" THEN "mac" ELSE "code"

Accepts(method, data) ==
  \/ method = "psk" /\ data \in {"mac", "zeros"}
  \/ method = "totp" /\ data = "code"

------------------------------------------------------------------------------
(***************************************************************************)
(* Keys.  ECDH of a private key and the key of the peer is the same on     *)
(* both sides; an empty key does not decode.                               *)
(***************************************************************************)
CanDerive(h, ownSet) == ownSet /\ h.peerKey # ""
SessionKey(h, own) == <<h.clientRandom, h.serverRandom, {own, h.peerKey}>>

Session(end, who, c, h, token) ==
  [end |-> end, who |-> who, conn |-> c, id |-> h.id, key |-> h.key, token |-> token]

------------------------------------------------------------------------------
(***************************************************************************)
(* The client.  h is what a step has stored by the time it succeeds or     *)
(* fails; the state moves on success only, and there is no failed state.   *)
(***************************************************************************)
ClientDone(u, h, state, next) ==
  /\ client' = [client EXCEPT ![u] = [h EXCEPT !.state = state]]
  /\ userAt' = [userAt EXCEPT ![u].step = next]
  /\ UNCHANGED <<dialed, accepted, shut, broken, servers>>

ClientFails(u, h) ==
  /\ client' = [client EXCEPT ![u] = h]
  /\ userAt' = [userAt EXCEPT ![u].step = "idle"]
  /\ shut' = [shut EXCEPT ![userAt[u].conn] = @ \cup {"client"}]
  /\ UNCHANGED <<dialed, accepted, up, down, broken, servers, sessions>>

\* Not part of the package: the caller connects and starts a handshake.
Dial(u) ==
  /\ userAt[u].step = "idle" /\ alive /\ dialed < MaxConns
  /\ dialed' = dialed + 1
  /\ userAt' = [userAt EXCEPT ![u] = [step |-> "hello", conn |-> dialed + 1]]
  /\ \E h \in Reusable(client[u]) : client' = [client EXCEPT ![u] = h]
  /\ UNCHANGED <<accepted, up, down, shut, broken, servers, sessions>>

SendClientHello(u) ==
  LET c == userAt[u].conn  cfg == UserConfig[u]
      h == [client[u] EXCEPT !.clientRandom = c]
  IN
  /\ userAt[u].step = "hello"
  /\ \/ /\ WriteUp(c, ClientHello(cfg.method, c, PublicKey(u, cfg.key)))
        /\ ClientDone(u, h, "ClientHelloSent", "challenge")
        /\ UNCHANGED <<down, sessions>>
     \/ WriteMayFail(c) /\ ClientFails(u, h)

ReceiveServerChallenge(u) ==
  LET c == userAt[u].conn  f == Head(down[c]) IN
  /\ userAt[u].step = "challenge"
  /\ \/ /\ "client" \notin shut[c] /\ Receives(down[c], "ServerChallenge")
        /\ down' = [down EXCEPT ![c] = Tail(@)]
        /\ ClientDone(u, [client[u] EXCEPT !.serverRandom = f.random, !.peerKey = f.key,
                                           !.salt = f.salt],
                      "ServerChallengeSent", "response")
        /\ UNCHANGED <<up, sessions>>
     \/ ClientCannotRead(c, "ServerChallenge") /\ ClientFails(u, client[u])

CanRespond(cfg) == cfg.providers = NoManager \/ cfg.method \in cfg.providers

SendClientResponse(u) ==
  LET c == userAt[u].conn IN
  /\ userAt[u].step = "response"
  /\ \/ /\ CanRespond(UserConfig[u])
        /\ WriteUp(c, ClientResponse(GenerateResponse(UserConfig[u])))
        /\ ClientDone(u, client[u], "ClientResponseSent", "success")
        /\ UNCHANGED <<down, sessions>>
     \/ /\ CanRespond(UserConfig[u]) => WriteMayFail(c)
        /\ ClientFails(u, client[u])

ReceiveServerSuccess(u) ==
  LET c == userAt[u].conn
      g == [client[u] EXCEPT !.id = Head(down[c]).id]
      h == [g EXCEPT !.key = SessionKey(g, u)]
      received == "client" \notin shut[c] /\ Receives(down[c], "ServerSuccess")
  IN
  /\ userAt[u].step = "success"
  /\ \/ /\ received /\ CanDerive(g, UserConfig[u].key)
        /\ down' = [down EXCEPT ![c] = Tail(@)]
        /\ sessions' = sessions \cup {Session("client", u, c, h, "none")}
        /\ ClientDone(u, h, "Authenticated", "idle")
        /\ UNCHANGED up
     \/ /\ IF received THEN ~CanDerive(g, UserConfig[u].key)
                       ELSE ClientCannotRead(c, "ServerSuccess")
        /\ ClientFails(u, IF received THEN g ELSE client[u])

------------------------------------------------------------------------------
(***************************************************************************)
(* The server.                                                             *)
(***************************************************************************)
ServerDone(w, h, state, next) ==
  /\ server' = [server EXCEPT ![w] = [h EXCEPT !.state = state]]
  /\ workerAt' = [workerAt EXCEPT ![w] = next]
  /\ UNCHANGED <<dialed, accepted, shut, broken, clients, late, alive>>

At(w, step) == [workerAt[w] EXCEPT !.step = step]

ServerFails(w, h) ==
  /\ server' = [server EXCEPT ![w] = h]
  /\ workerAt' = [workerAt EXCEPT ![w] = At(w, "idle")]
  /\ shut' = [shut EXCEPT ![workerAt[w].conn] = @ \cup {"server"}]
  /\ UNCHANGED <<dialed, accepted, up, down, broken, clients, tokens, spent, late, alive, sessions>>

\* Not part of the package: the caller accepts and starts a handshake.
Accept(w) ==
  /\ workerAt[w].step = "idle" /\ alive /\ accepted < dialed
  /\ accepted' = accepted + 1
  /\ workerAt' = [workerAt EXCEPT ![w] = [step |-> "hello", conn |-> accepted + 1,
                                          token |-> "none"]]
  /\ \E h \in Reusable(server[w]) : server' = [server EXCEPT ![w] = h]
  /\ late' = [late EXCEPT ![accepted + 1] = {p.token : p \in spent}]
  /\ UNCHANGED <<dialed, up, down, shut, broken, clients, tokens, spent, alive, sessions>>

ReceiveClientHello(w) ==
  LET c == workerAt[w].conn  f == Head(up[c])
      h == [server[w] EXCEPT !.clientRandom = f.random, !.peerKey = f.key, !.method = f.method]
  IN
  /\ workerAt[w].step = "hello"
  /\ \/ /\ "server" \notin shut[c] /\ Receives(up[c], "ClientHello")
        /\ \/ /\ f.method \in Providers
              /\ up' = [up EXCEPT ![c] = Tail(@)]
              /\ ServerDone(w, h, "ClientHelloSent", At(w, "challenge"))
              /\ UNCHANGED <<down, tokens, spent, sessions>>
           \/ f.method \notin Providers /\ ServerFails(w, h)
     \/ ServerCannotRead(c, "ClientHello") /\ ServerFails(w, server[w])

SendServerChallenge(w) ==
  LET c == workerAt[w].conn
      h == [server[w] EXCEPT !.serverRandom = c, !.salt = c]
  IN
  /\ workerAt[w].step = "challenge"
  /\ \/ /\ WriteDown(c, ServerChallenge(c, PublicKey("server", ServerKey), c))
        /\ ServerDone(w, h, "ServerChallengeSent", At(w, "response"))
        /\ UNCHANGED <<up, tokens, spent, sessions>>
     \/ WriteMayFail(c) /\ ServerFails(w, h)

\* A valid token is looked up here and deleted in DeleteToken.
ReceiveClientResponse(w) ==
  LET c == workerAt[w].conn  data == Head(up[c]).data  method == server[w].method
      valid == IF method = "token" THEN data \in tokens ELSE Accepts(method, data)
  IN
  /\ workerAt[w].step = "response"
  /\ \/ /\ "server" \notin shut[c] /\ Receives(up[c], "ClientResponse")
        /\ \/ /\ valid /\ up' = [up EXCEPT ![c] = Tail(@)]
              /\ IF method = "token"
                 THEN ServerDone(w, server[w], server[w].state,
                                 [At(w, "delete") EXCEPT !.token = data])
                 ELSE ServerDone(w, server[w], "ClientResponseSent", At(w, "success"))
              /\ UNCHANGED <<down, tokens, spent, sessions>>
           \/ ~valid /\ ServerFails(w, server[w])
     \/ ServerCannotRead(c, "ClientResponse") /\ ServerFails(w, server[w])

\* Mutated: the token stays.
KeepToken(w) ==
  /\ workerAt[w].step = "delete"
  /\ UNCHANGED tokens
  /\ spent' = spent \cup {[token |-> workerAt[w].token, conn |-> workerAt[w].conn]}
  /\ ServerDone(w, server[w], "ClientResponseSent", At(w, "success"))
  /\ UNCHANGED <<up, down, sessions>>

DeleteToken(w) ==
  /\ workerAt[w].step = "delete"
  /\ tokens' = tokens \ {workerAt[w].token}
  /\ spent' = spent \cup {[token |-> workerAt[w].token, conn |-> workerAt[w].conn]}
  /\ ServerDone(w, server[w], "ClientResponseSent", At(w, "success"))
  /\ UNCHANGED <<up, down, sessions>>

\* Mutated: an identifier that is there already is kept.
SendServerSuccessKept(w) ==
  LET c == workerAt[w].conn
      g == [server[w] EXCEPT !.id = IF @ = None THEN c ELSE @]
      h == [g EXCEPT !.key = SessionKey(g, "server")]
  IN
  /\ workerAt[w].step = "success"
  /\ IF CanDerive(g, ServerKey)
     THEN \/ /\ WriteDown(c, ServerSuccess(g.id))
             /\ sessions' = sessions \cup {Session("server", w, c, h, workerAt[w].token)}
             /\ ServerDone(w, h, "Authenticated", At(w, "idle"))
             /\ UNCHANGED <<up, tokens, spent>>
          \/ WriteMayFail(c) /\ ServerFails(w, h)
     ELSE ServerFails(w, g)

\* The token is spent by now, whatever comes of the session.
SendServerSuccess(w) ==
  LET c == workerAt[w].conn
      g == [server[w] EXCEPT !.id = c]
      h == [g EXCEPT !.key = SessionKey(g, "server")]
  IN
  /\ workerAt[w].step = "success"
  /\ IF CanDerive(g, ServerKey)
     THEN \/ /\ WriteDown(c, ServerSuccess(c))
             /\ sessions' = sessions \cup {Session("server", w, c, h, workerAt[w].token)}
             /\ ServerDone(w, h, "Authenticated", At(w, "idle"))
             /\ UNCHANGED <<up, tokens, spent>>
          \/ WriteMayFail(c) /\ ServerFails(w, h)
     ELSE ServerFails(w, g)

\* Two workers use the map of tokens at once and one of them writes: the
\* runtime may notice and end the process.
ConcurrentMapAccess ==
  LET Uses(w) ==
        \/ workerAt[w].step = "delete"
        \/ /\ workerAt[w].step = "response" /\ server[w].method = "token"
           /\ Receives(up[workerAt[w].conn], "ClientResponse")
  IN
  /\ \E v, w \in Workers : v # w /\ workerAt[v].step = "delete" /\ Uses(w)
  /\ alive' = FALSE
  /\ workerAt' = [w \in Workers |-> At(w, "idle")]
  /\ shut' = [c \in Conns |-> shut[c] \cup {"server"}]
  /\ UNCHANGED <<dialed, accepted, up, down, broken, clients, server, tokens, spent, late, sessions>>

\* Not part of the program: a connection breaks, or the owner of one end gives
\* up and closes it.
Break(c) ==
  /\ c <= dialed /\ shut[c] = {}
  /\ shut' = [shut EXCEPT ![c] = {"client", "server"}]
  /\ broken' = broken \cup {c}
  /\ UNCHANGED <<dialed, accepted, up, down, clients, servers, sessions>>

------------------------------------------------------------------------------
UserStep(u) ==
  \/ SendClientHello(u) \/ ReceiveServerChallenge(u)
  \/ SendClientResponse(u) \/ ReceiveServerSuccess(u)
WorkerStep(w) ==
  \/ Accept(w) \/ ReceiveClientHello(w) \/ SendServerChallenge(w)
  \/ ReceiveClientResponse(w) \/ DeleteToken(w) \/ SendServerSuccess(w)

Next ==
  \/ \E u \in Users : Dial(u) \/ UserStep(u)
  \/ \E w \in Workers : WorkerStep(w)
  \/ ConcurrentMapAccess
  \/ \E c \in Conns : Break(c)

Fairness ==
  /\ \A u \in Users : WF_vars(UserStep(u))
  /\ \A w \in Workers : WF_vars(WorkerStep(w))

Spec == Init /\ [][Next]_vars /\ Fairness

------------------------------------------------------------------------------
(***************************************************************************)
(* Properties.                                                             *)
(***************************************************************************)
Handshakes ==
  [state : States, clientRandom : {None} \cup Conns, serverRandom : {None} \cup Conns,
   salt : {None} \cup Conns, peerKey : Users \cup {"", "server"}, method : Methods,
   id : {None} \cup Conns,
   key : {NoKey} \cup (Conns \X Conns \X {{u, "server"} : u \in Users})]

Frames ==
  [type : {"ClientHello"}, method : Methods, random : Conns, key : Users \cup {""}]
  \cup [type : {"ServerChallenge"}, random : Conns, key : {"", "server"}, salt : Conns]
  \cup [type : {"ClientResponse"}, data : {"mac", "zeros", "code"} \cup {UserConfig[u].token : u \in Users}]
  \cup [type : {"ServerSuccess"}, id : Conns]

\* Handshake objects hold what their fields may hold; a connection never holds
\* more than one frame in each direction, so the two ends stay in step.
WireTypeOK ==
  /\ dialed \in 0..MaxConns /\ accepted \in 0..dialed /\ broken \subseteq 1..dialed
  /\ up \in [Conns -> Seq(Frames)] /\ down \in [Conns -> Seq(Frames)]
  /\ \A c \in Conns : Len(up[c]) <= 1 /\ Len(down[c]) <= 1
  /\ shut \in [Conns -> SUBSET {"client", "server"}]

EndsTypeOK ==
  /\ client \in [Users -> Handshakes] /\ server \in [Workers -> Handshakes]
  /\ userAt \in [Users -> [step : Steps, conn : 0..MaxConns]]
  /\ workerAt \in [Workers -> [step : Steps, conn : 0..MaxConns, token : Tokens \cup {"none"}]]
  /\ \A u \in Users : userAt[u].conn <= dialed
  /\ \A w \in Workers : workerAt[w].conn <= accepted

TokensTypeOK ==
  /\ tokens \subseteq Tokens /\ spent \subseteq [token : Tokens, conn : Conns]
  /\ late \in [Conns -> SUBSET Tokens] /\ alive \in BOOLEAN

TypeOK == WireTypeOK /\ EndsTypeOK /\ TokensTypeOK

\* A client that has a session shares its identifier and its key with a session
\* the server has returned on the same connection, although both ends use
\* their Handshake objects again and again (receiveServerSuccess,
\* sendServerSuccess).
ClientSessionIsShared ==
  \A s \in sessions : s.end = "client" =>
    \E t \in sessions : t.end = "server" /\ t.conn = s.conn /\ t.id = s.id /\ t.key = s.key

\* No two handshakes produce the same identifier or the same key: nothing of an
\* earlier handshake that is still in a Handshake object reaches a later key.
SessionsAreFresh ==
  \A s, t \in sessions : s.end = t.end /\ s.conn # t.conn => s.id # t.id /\ s.key # t.key

\* What State reports as authenticated is a session the last successful
\* handshake of that object has returned, with the identifier and the key that
\* are in the object now.
AuthenticatedIsASession ==
  /\ \A u \in Users : client[u].state = "Authenticated" =>
       \E s \in sessions : s.who = u /\ s.id = client[u].id /\ s.key = client[u].key
  /\ \A w \in Workers : server[w].state = "Authenticated" =>
       \E s \in sessions : s.who = w /\ s.id = server[w].id /\ s.key = server[w].key

\* A token that another connection had used up when this one was accepted does
\* not authenticate it.  Workers that verify the token at the same time may both
\* accept it: TokenAuth.Verify looks it up and deletes it without a lock.
SpentTokenIsDead ==
  \A s \in sessions : s.end = "server" => s.token \notin late[s.conn]

Acceptable(cfg) ==
  CanRespond(cfg) /\ cfg.method \in Providers /\ cfg.key /\ ServerKey
  /\ (cfg.method # "psk" => cfg.providers # NoManager)
  /\ (cfg.method = "token" => cfg.token \in Tokens)

\* A client whose configuration fits the server's fails for a cause only: its
\* connection broke, the server is dead, or its token came with another
\* connection.  Neither end misreads what the other has written.
FailsForCause ==
  [][\A u \in Users :
       userAt[u].step # "idle" /\ userAt'[u].step = "idle" /\ client'[u].state # "Authenticated"
       /\ Acceptable(UserConfig[u])
       => \/ userAt[u].conn \in broken \/ ~alive
          \/ \E p \in spent : p.token = UserConfig[u].token /\ p.conn # userAt[u].conn]_vars

\* A client is never left waiting: its handshake returns although no timeout of
\* the configuration reaches a Read, because a server that fails is closed.
AttemptEnds ==
  \A u \in Users : userAt[u].step # "idle" ~> userAt[u].step = "idle"

\* What the two ends and the Handshake objects say about sessions agrees, in its
\* parts.
SessionsAgree ==
  TypeOK /\ ClientSessionIsShared /\ SessionsAreFresh /\ AuthenticatedIsASession

\* Every handshake ends, and with a failure for a cause only.
EndsForCause == AttemptEnds /\ FailsForCause
==============================================================================
