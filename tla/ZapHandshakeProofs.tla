------------------------- MODULE ZapHandshakeProofs --------------------------
(***************************************************************************)
(* Proofs about the ZAP handshake, for any number of users, workers and    *)
(* connections, any configuration of either side and any tokens.           *)
(*                                                                         *)
(* Both ends use their Handshake objects again, so what an object holds    *)
(* may stem from an earlier connection.  The argument is that the steps of *)
(* the two ends of a connection keep pace (PairsInv), which decides what   *)
(* can be on the way (PipeOK, UserOK, WorkerOK), and that whatever a step  *)
(* reads is either on the way or was written on this connection (FrameTrue,*)
(* ClientTrue, ServerTrue).  Why a handshake may fail is a second          *)
(* invariant on top (CauseInv): what is on the way is meant for the worker *)
(* that reads it, a token stays until a connection has used it, and a      *)
(* connection is closed for a reason.                                      *)
(***************************************************************************)
EXTENDS ZapHandshake, TLAPS

\* What is on a connection: never something in both directions, and nothing
\* before the end that sends it is there.
PipeOK(c) ==
  /\ up[c] # <<>> => Head(up[c]).type \in {"ClientHello", "ClientResponse"} /\ down[c] = <<>>
  /\ down[c] # <<>> => Head(down[c]).type \in {"ServerChallenge", "ServerSuccess"}
  /\ c > accepted => down[c] = <<>> /\ ~Receives(up[c], "ClientResponse")
  /\ c > dialed => up[c] = <<>>

\* What a user at each step finds on its connection.
UserOK(u) ==
  LET c == userAt[u].conn IN
    /\ userAt[u].step # "idle" => c # None
    /\ userAt[u].step \in {"hello", "response"} => up[c] = <<>> /\ down[c] = <<>>
    /\ userAt[u].step = "challenge" =>
         ~Receives(up[c], "ClientResponse") /\ ~Receives(down[c], "ServerSuccess")
    /\ userAt[u].step = "success" =>
         ~Receives(up[c], "ClientHello") /\ ~Receives(down[c], "ServerChallenge")
    /\ userAt[u].step \in {"response", "success"} => c <= accepted
    /\ userAt[u].step # "delete"

\* What a worker at each step finds on its connection.
WorkerOK(w) ==
  LET c == workerAt[w].conn IN
    /\ workerAt[w].step # "idle" => c # None
    /\ workerAt[w].step = "hello" => down[c] = <<>> /\ ~Receives(up[c], "ClientResponse")
    /\ workerAt[w].step \in {"challenge", "delete", "success"} => up[c] = <<>> /\ down[c] = <<>>
    /\ workerAt[w].step = "response" =>
         ~Receives(up[c], "ClientHello") /\ ~Receives(down[c], "ServerSuccess")

\* The two ends of a connection are in step.
InStep(user, worker) ==
  /\ user = "hello" => worker = "hello"
  /\ user = "challenge" => worker \in {"hello", "challenge", "response"}
  /\ user = "response" => worker = "response"
  /\ user = "success" => worker \in {"response", "delete", "success"}

PairsInv ==
  \A u \in Users, w \in Workers :
    userAt[u].conn = workerAt[w].conn /\ workerAt[w].step # "idle"
      => InStep(userAt[u].step, workerAt[w].step)

\* A connection has one user and one worker.
Apart ==
  /\ \A u, v \in Users : userAt[u].conn = userAt[v].conn /\ userAt[u].conn # None => u = v
  /\ \A v, w \in Workers : workerAt[v].conn = workerAt[w].conn /\ workerAt[v].conn # None => v = w

\* The key a user has, as it travels, and the key of its sessions on c.
UserKey(u) == PublicKey(u, UserConfig[u].key)
SharedKey(c, u) == <<c, c, {"server", UserKey(u)}>>
From(c, k) == \A u \in Users : userAt[u].conn = c => k = UserKey(u)

\* A session of the server on c that the user of c can share.
Announced(c) ==
  \E t \in sessions : /\ t.end = "server" /\ t.conn = c /\ t.id = c
                      /\ \A u \in Users : userAt[u].conn = c => t.key = SharedKey(c, u)

\* The randoms and keys on the way and in the Handshake objects are those of
\* this connection, whatever an object still holds of an earlier one.
FrameTrue(c) ==
  /\ Receives(up[c], "ClientHello") => Head(up[c]).random = c /\ From(c, Head(up[c]).key)
  /\ Receives(down[c], "ServerChallenge") =>
       Head(down[c]).random = c /\ Head(down[c]).key = PublicKey("server", ServerKey)
  /\ Receives(down[c], "ServerSuccess") => Head(down[c]).id = c /\ Announced(c)

ClientTrue(u) ==
  LET c == userAt[u].conn  h == client[u] IN
    /\ userAt[u].step \in {"challenge", "response", "success"} =>
         h.clientRandom = c /\ h.state # "Authenticated"
    /\ userAt[u].step \in {"response", "success"} =>
         h.serverRandom = c /\ h.peerKey = PublicKey("server", ServerKey)

ServerTrue(w) ==
  LET c == workerAt[w].conn  h == server[w] IN
    /\ workerAt[w].step \in {"challenge", "response", "delete", "success"} =>
         /\ h.clientRandom = c /\ h.state # "Authenticated"
         /\ h.peerKey \in Users \cup {""} /\ From(c, h.peerKey)
    /\ workerAt[w].step \in {"response", "delete", "success"} => h.serverRandom = c

SessionTrue(s) ==
  /\ s.conn \in Conns /\ s.id = s.conn /\ s.key[1] = s.conn
  /\ s.end = "server" => s.conn <= accepted

\* A spent token is not in the set, and a token that was valid for a connection
\* was not spent when that was accepted.
TokenOK(w) ==
  /\ workerAt[w].step \in {"delete", "success"} =>
       workerAt[w].token \notin late[workerAt[w].conn]
  /\ workerAt[w].step = "delete" => workerAt[w].token \in Tokens
  /\ workerAt[w].step \in {"hello", "challenge", "response"} => workerAt[w].token = "none"

SpentInv ==
  /\ \A p \in spent : p.token \notin tokens
  /\ \A c \in Conns : late[c] \subseteq {p.token : p \in spent}

PipesInv == \A c \in Conns : PipeOK(c) /\ FrameTrue(c)
UsersInv == \A u \in Users : UserOK(u) /\ ClientTrue(u)
WorkersInv == \A w \in Workers : WorkerOK(w) /\ ServerTrue(w) /\ TokenOK(w)

StepsInv == TypeOK /\ PipesInv /\ UsersInv /\ WorkersInv /\ PairsInv /\ Apart /\ SpentInv

SessionsInv ==
  /\ \A s \in sessions : SessionTrue(s)
  /\ ClientSessionIsShared /\ AuthenticatedIsASession /\ SpentTokenIsDead

ZapInv == StepsInv /\ SessionsInv

----------------------------------------------------------------------------
(* Frames, pipes and Handshake objects. *)

USE DEF ZapInv, StepsInv, SessionsInv

\* A pipe with one frame is read empty.
LEMMA OneFrame ==
  ASSUME NEW s \in Seq(Frames), Len(s) <= 1, s # <<>>
  PROVE  Tail(s) = <<>> /\ Head(s) \in Frames
OBVIOUS

LEMMA Written ==
  ASSUME NEW f
  PROVE  Append(<<>>, f) = <<f>> /\ <<f>> # <<>> /\ Head(<<f>>) = f /\ Len(<<f>>) = 1
OBVIOUS

\* A field of a Handshake is set to a value it may have.
LEMMA HandshakeFields ==
  ASSUME NEW h \in Handshakes
  PROVE  /\ \A c \in Conns : /\ [h EXCEPT !.clientRandom = c] \in Handshakes
                             /\ [h EXCEPT !.id = c] \in Handshakes
                             /\ [h EXCEPT !.serverRandom = c, !.salt = c] \in Handshakes
         /\ \A c \in Conns, k \in {"", "server"}, s \in Conns :
              [h EXCEPT !.serverRandom = c, !.peerKey = k, !.salt = s] \in Handshakes
         /\ \A c \in Conns, k \in Users \cup {""}, m \in Methods :
              [h EXCEPT !.clientRandom = c, !.peerKey = k, !.method = m] \in Handshakes
         /\ \A s \in States : [h EXCEPT !.state = s] \in Handshakes
<1>1. \A c \in Conns : /\ [h EXCEPT !.clientRandom = c] \in Handshakes
                        /\ [h EXCEPT !.id = c] \in Handshakes
                        /\ [h EXCEPT !.serverRandom = c, !.salt = c] \in Handshakes
  BY DEF Handshakes
<1>2. \A c \in Conns, k \in {"", "server"}, s \in Conns :
        [h EXCEPT !.serverRandom = c, !.peerKey = k, !.salt = s] \in Handshakes
  BY DEF Handshakes
<1>3. \A c \in Conns, k \in Users \cup {""}, m \in Methods :
        [h EXCEPT !.clientRandom = c, !.peerKey = k, !.method = m] \in Handshakes
  BY DEF Handshakes
<1>4. \A s \in States : [h EXCEPT !.state = s] \in Handshakes
  BY DEF Handshakes
<1>. QED BY <1>1, <1>2, <1>3, <1>4

LEMMA FrameTypes ==
  /\ \A u \in Users, c \in Conns :
       ClientHello(UserConfig[u].method, c, UserKey(u)) \in Frames
  /\ \A c \in Conns : ServerChallenge(c, PublicKey("server", ServerKey), c) \in Frames
  /\ \A u \in Users : ClientResponse(GenerateResponse(UserConfig[u])) \in Frames
  /\ \A c \in Conns : ServerSuccess(c) \in Frames
<1>1. \A u \in Users, c \in Conns :
        ClientHello(UserConfig[u].method, c, UserKey(u)) \in Frames
  BY ZapAssumption DEF ZapAssumption, ClientHello, Frames, UserKey, PublicKey
<1>2. \A c \in Conns : ServerChallenge(c, PublicKey("server", ServerKey), c) \in Frames
  BY DEF ServerChallenge, Frames, PublicKey
<1>3. \A u \in Users : ClientResponse(GenerateResponse(UserConfig[u])) \in Frames
  BY DEF ClientResponse, Frames, GenerateResponse
<1>4. \A c \in Conns : ServerSuccess(c) \in Frames
  BY DEF ServerSuccess, Frames
<1>. QED BY <1>1, <1>2, <1>3, <1>4

----------------------------------------------------------------------------
(* Steps that only end handshakes. *)

\* The ends are on the connections they were on.
LEMMA ApartStays ==
  ASSUME Apart, \A u \in Users : userAt'[u].conn = userAt[u].conn,
         \A w \in Workers : workerAt'[w].conn = workerAt[w].conn
  PROVE  Apart'
<1>1. ASSUME NEW u \in Users, NEW v \in Users,
             userAt'[u].conn = userAt'[v].conn, userAt'[u].conn # None
      PROVE  u = v
  BY <1>1 DEF Apart
<1>2. ASSUME NEW v \in Workers, NEW w \in Workers,
             workerAt'[v].conn = workerAt'[w].conn, workerAt'[v].conn # None
      PROVE  v = w
  BY <1>2 DEF Apart
<1>. QED BY <1>1, <1>2 DEF Apart

LEMMA AnnouncedStays ==
  ASSUME NEW c \in Conns, Announced(c), sessions \subseteq sessions',
         \A u \in Users : userAt'[u].conn = c => userAt[u].conn = c
  PROVE  Announced(c)'
<1>. SUFFICES \E t \in sessions' : /\ t.end = "server" /\ t.conn = c /\ t.id = c
                      /\ \A u \in Users : userAt'[u].conn = c => t.key = SharedKey(c, u)
  BY DEF Announced
<1>1. PICK t \in sessions : /\ t.end = "server" /\ t.conn = c /\ t.id = c
                      /\ \A u \in Users : userAt[u].conn = c => t.key = SharedKey(c, u)
  BY DEF Announced
<1>2. \A u \in Users : userAt'[u].conn = c => t.key = SharedKey(c, u)
  BY <1>1
<1>3. t \in sessions'
  OBVIOUS
<1>. QED BY <1>1, <1>2, <1>3

LEMMA FrameStays ==
  ASSUME NEW c \in Conns, FrameTrue(c), up'[c] = up[c], down'[c] = down[c],
         sessions \subseteq sessions',
         \A u \in Users : userAt'[u].conn = c => userAt[u].conn = c
  PROVE  FrameTrue(c)'
<1>1. \A k : From(c, k) => From(c, k)'
  BY DEF From
<1>2. Announced(c) => Announced(c)'
  BY AnnouncedStays
<1>. QED BY <1>1, <1>2 DEF FrameTrue, Receives

LEMMA ServerStays ==
  ASSUME NEW w \in Workers, ServerTrue(w), server'[w] = server[w],
         workerAt'[w].conn = workerAt[w].conn, workerAt'[w].step \in {workerAt[w].step, "idle"},
         \A u \in Users : userAt'[u].conn = workerAt[w].conn => userAt[u].conn = workerAt[w].conn
  PROVE  ServerTrue(w)'
<1>1. \A k : From(workerAt[w].conn, k)
               => \A u \in Users : userAt'[u].conn = workerAt'[w].conn => k = UserKey(u)
  BY DEF From
<1>. QED BY <1>1 DEF ServerTrue, From

\* The sessions and what State reports of them stay.
LEMMA SessionsStay ==
  ASSUME SessionsInv, UNCHANGED <<sessions, late>>, accepted' >= accepted,
         accepted \in Nat, accepted' \in Nat,
         \A u \in Users : client'[u].state = "Authenticated" =>
           /\ client[u].state = "Authenticated"
           /\ client'[u].id = client[u].id /\ client'[u].key = client[u].key,
         \A w \in Workers : server'[w].state = "Authenticated" =>
           /\ server[w].state = "Authenticated"
           /\ server'[w].id = server[w].id /\ server'[w].key = server[w].key
  PROVE  SessionsInv'
<1>1. \A s \in sessions : SessionTrue(s) => SessionTrue(s)'
  BY DEF SessionTrue, Conns
<1>2. ClientSessionIsShared' /\ SpentTokenIsDead'
  BY DEF ClientSessionIsShared, SpentTokenIsDead
<1>3. AuthenticatedIsASession'
  BY DEF AuthenticatedIsASession
<1>. QED BY <1>1, <1>2, <1>3

\* Handshakes that fail, in whatever number: the frames and the sessions stay,
\* and an object that is still Authenticated has kept its session.
LEMMA FailuresStep ==
  ASSUME ZapInv,
         UNCHANGED <<dialed, accepted, up, down, tokens, spent, late, sessions>>,
         broken' \subseteq 1..dialed, shut' \in [Conns -> SUBSET {"client", "server"}],
         alive' \in BOOLEAN,
         client' \in [Users -> Handshakes], server' \in [Workers -> Handshakes],
         userAt' \in [Users -> [step : Steps, conn : 0..MaxConns]],
         workerAt' \in [Workers -> [step : Steps, conn : 0..MaxConns,
                                    token : Tokens \cup {"none"}]],
         \A u \in Users : userAt'[u].conn = userAt[u].conn
                          /\ userAt'[u].step \in {userAt[u].step, "idle"},
         \A w \in Workers : workerAt'[w].conn = workerAt[w].conn
                            /\ workerAt'[w].token = workerAt[w].token
                            /\ workerAt'[w].step \in {workerAt[w].step, "idle"},
         \A u \in Users :
           \/ client'[u] = client[u]
           \/ /\ userAt'[u].step = "idle"
              /\ client'[u].state = "Authenticated" =>
                   /\ client[u].state = "Authenticated"
                   /\ client'[u].id = client[u].id /\ client'[u].key = client[u].key,
         \A w \in Workers :
           \/ server'[w] = server[w]
           \/ /\ workerAt'[w].step = "idle"
              /\ server'[w].state = "Authenticated" =>
                   /\ server[w].state = "Authenticated"
                   /\ server'[w].id = server[w].id /\ server'[w].key = server[w].key
  PROVE  ZapInv'
<1>1. /\ \A u \in Users : userAt'[u].conn = userAt[u].conn
      /\ \A w \in Workers : workerAt'[w].conn = workerAt[w].conn
      /\ up' = up /\ down' = down /\ sessions' = sessions
  OBVIOUS
<1>2. TypeOK'
  BY DEF TypeOK, WireTypeOK, EndsTypeOK, TokensTypeOK
<1>3. PipesInv'
  <2>1. \A c \in Conns : PipeOK(c) => PipeOK(c)'
    BY DEF PipeOK, Receives
  <2>2. \A c \in Conns : FrameTrue(c) => FrameTrue(c)'
    BY <1>1, FrameStays
  <2>. QED BY <2>1, <2>2 DEF PipesInv
<1>4. UsersInv'
  <2>1. \A u \in Users : UserOK(u) => UserOK(u)'
    BY DEF UserOK, Receives
  <2>2. \A u \in Users : ClientTrue(u) => ClientTrue(u)'
    BY DEF ClientTrue
  <2>. QED BY <2>1, <2>2 DEF UsersInv
<1>5. WorkersInv'
  <2>1. \A w \in Workers : WorkerOK(w) => WorkerOK(w)'
    BY DEF WorkerOK, Receives
  <2>2. ASSUME NEW w \in Workers, ServerTrue(w)
        PROVE  ServerTrue(w)'
    <3>1. CASE server'[w] = server[w]
      BY <1>1, <2>2, <3>1, ServerStays
    <3>2. CASE workerAt'[w].step = "idle"
      BY <3>2 DEF ServerTrue
    <3>. QED BY <3>1, <3>2
  <2>3. \A w \in Workers : TokenOK(w) => TokenOK(w)'
    BY DEF TokenOK
  <2>. QED BY <2>1, <2>2, <2>3 DEF WorkersInv
<1>6. PairsInv'
  BY DEF PairsInv, InStep
<1>7. Apart'
  BY ApartStays
<1>8. SpentInv'
  BY DEF SpentInv
<1>9. SessionsInv'
  <2>1. accepted \in Nat
    BY DEF TypeOK, WireTypeOK
  <2>. QED BY <2>1, SessionsStay
<1>. QED BY <1>2, <1>3, <1>4, <1>5, <1>6, <1>7, <1>8, <1>9

\* A handshake fails with what it has stored by then.
LEMMA ClientFailsStep ==
  ASSUME ZapInv, NEW u \in Users, \E h \in Handshakes : ClientFails(u, h),
         client'[u].state = "Authenticated" =>
           /\ client[u].state = "Authenticated"
           /\ client'[u].id = client[u].id /\ client'[u].key = client[u].key
  PROVE  ZapInv'
<1>1. PICK h \in Handshakes : ClientFails(u, h)
  OBVIOUS
<1>2. /\ UNCHANGED <<dialed, accepted, up, down, broken, server, workerAt, tokens, spent,
                     late, alive, sessions>>
      /\ client' = [client EXCEPT ![u] = h]
      /\ userAt' = [userAt EXCEPT ![u].step = "idle"]
      /\ shut' = [shut EXCEPT ![userAt[u].conn] = @ \cup {"client"}]
  BY <1>1 DEF ClientFails, servers
<1>3. client' \in [Users -> Handshakes] /\ shut' \in [Conns -> SUBSET {"client", "server"}]
  BY <1>2 DEF TypeOK, WireTypeOK, EndsTypeOK
<1>4. userAt' \in [Users -> [step : Steps, conn : 0..MaxConns]]
  BY <1>2 DEF TypeOK, EndsTypeOK, Steps
<1>5. /\ \A v \in Users : userAt'[v].conn = userAt[v].conn
                          /\ userAt'[v].step \in {userAt[v].step, "idle"}
      /\ \A v \in Users : client'[v] = client[v] \/ (v = u /\ userAt'[v].step = "idle")
  BY <1>2 DEF TypeOK, EndsTypeOK
<1>. QED
  BY <1>2, <1>3, <1>4, <1>5, FailuresStep DEF TypeOK, WireTypeOK, EndsTypeOK, TokensTypeOK

LEMMA ServerFailsStep ==
  ASSUME ZapInv, NEW w \in Workers, \E h \in Handshakes : ServerFails(w, h),
         server'[w].state = "Authenticated" =>
           /\ server[w].state = "Authenticated"
           /\ server'[w].id = server[w].id /\ server'[w].key = server[w].key
  PROVE  ZapInv'
<1>1. PICK h \in Handshakes : ServerFails(w, h)
  OBVIOUS
<1>2. /\ UNCHANGED <<dialed, accepted, up, down, broken, client, userAt, tokens, spent,
                     late, alive, sessions>>
      /\ server' = [server EXCEPT ![w] = h]
      /\ workerAt' = [workerAt EXCEPT ![w] = [workerAt[w] EXCEPT !.step = "idle"]]
      /\ shut' = [shut EXCEPT ![workerAt[w].conn] = @ \cup {"server"}]
  BY <1>1 DEF ServerFails, clients, At
<1>3. server' \in [Workers -> Handshakes] /\ shut' \in [Conns -> SUBSET {"client", "server"}]
  BY <1>2 DEF TypeOK, WireTypeOK, EndsTypeOK
<1>4. workerAt' \in [Workers -> [step : Steps, conn : 0..MaxConns, token : Tokens \cup {"none"}]]
  BY <1>2 DEF TypeOK, EndsTypeOK, Steps
<1>5. /\ \A v \in Workers : /\ workerAt'[v].conn = workerAt[v].conn
                            /\ workerAt'[v].token = workerAt[v].token
                            /\ workerAt'[v].step \in {workerAt[v].step, "idle"}
      /\ \A v \in Workers : server'[v] = server[v] \/ (v = w /\ workerAt'[v].step = "idle")
  BY <1>2 DEF TypeOK, EndsTypeOK
<1>. QED
  BY <1>2, <1>3, <1>4, <1>5, FailuresStep DEF TypeOK, WireTypeOK, EndsTypeOK, TokensTypeOK

LEMMA ConcurrentMapAccessStep ==
  ASSUME ZapInv, ConcurrentMapAccess
  PROVE  ZapInv'
<1>1. /\ UNCHANGED <<dialed, accepted, up, down, broken, client, userAt, server, tokens, spent,
                     late, sessions>>
      /\ alive' = FALSE
      /\ workerAt' = [w \in Workers |-> [workerAt[w] EXCEPT !.step = "idle"]]
      /\ shut' = [c \in Conns |-> shut[c] \cup {"server"}]
  BY DEF ConcurrentMapAccess, clients, At
<1>2. workerAt' \in [Workers -> [step : Steps, conn : 0..MaxConns, token : Tokens \cup {"none"}]]
  BY <1>1 DEF TypeOK, EndsTypeOK, Steps
<1>3. \A v \in Workers : /\ workerAt'[v].conn = workerAt[v].conn
                         /\ workerAt'[v].token = workerAt[v].token
                         /\ workerAt'[v].step = "idle"
  BY <1>1 DEF TypeOK, EndsTypeOK
<1>4. shut' \in [Conns -> SUBSET {"client", "server"}]
  BY <1>1 DEF TypeOK, WireTypeOK
<1>. QED
  BY <1>1, <1>2, <1>3, <1>4, FailuresStep DEF TypeOK, WireTypeOK, EndsTypeOK, TokensTypeOK

LEMMA BreakStep ==
  ASSUME ZapInv, NEW c \in Conns, Break(c)
  PROVE  ZapInv'
<1>1. /\ UNCHANGED <<dialed, accepted, up, down, client, userAt, server, workerAt, tokens,
                     spent, late, alive, sessions>>
      /\ shut' = [shut EXCEPT ![c] = {"client", "server"}]
      /\ broken' = broken \cup {c} /\ c <= dialed
  BY DEF Break, clients, servers
<1>2. shut' \in [Conns -> SUBSET {"client", "server"}] /\ broken' \subseteq 1..dialed
  BY <1>1 DEF TypeOK, WireTypeOK, Conns
<1>. QED
  BY <1>1, <1>2, FailuresStep DEF TypeOK, WireTypeOK, EndsTypeOK, TokensTypeOK

----------------------------------------------------------------------------
(* Steps of one end on its connection: the other connections stay, and what *)
(* is left to show is about this connection.                                *)

LEMMA UserMoves ==
  ASSUME ZapInv, NEW u \in Users, NEW c \in Conns, userAt[u].conn = c,
         UNCHANGED <<dialed, accepted, shut, broken, server, workerAt, tokens, spent, late, alive>>,
         up' \in [Conns -> Seq(Frames)], down' \in [Conns -> Seq(Frames)],
         Len(up'[c]) <= 1, Len(down'[c]) <= 1,
         \A d \in Conns \ {c} : up'[d] = up[d] /\ down'[d] = down[d],
         client' \in [Users -> Handshakes],
         \A v \in Users \ {u} : client'[v] = client[v],
         userAt' \in [Users -> [step : Steps, conn : 0..MaxConns]],
         \A v \in Users \ {u} : userAt'[v] = userAt[v],
         userAt'[u].conn = c,
         sessions \subseteq sessions',
         PipeOK(c)', FrameTrue(c)', UserOK(u)', ClientTrue(u)',
         \A w \in Workers : workerAt[w].conn = c /\ workerAt[w].step # "idle"
           => WorkerOK(w)' /\ InStep(userAt'[u].step, workerAt[w].step)
  PROVE  StepsInv'
<1>1. /\ \A v \in Users : userAt'[v].conn = userAt[v].conn
      /\ \A w \in Workers : workerAt'[w] = workerAt[w] /\ server'[w] = server[w]
  OBVIOUS
<1>2. TypeOK'
  BY DEF TypeOK, WireTypeOK, EndsTypeOK, TokensTypeOK
<1>3. PipesInv'
  <2>1. ASSUME NEW d \in Conns, d # c
        PROVE  PipeOK(d)' /\ FrameTrue(d)'
    <3>1. up'[d] = up[d] /\ down'[d] = down[d]
      BY <2>1
    <3>2. PipeOK(d) /\ FrameTrue(d)
      BY DEF PipesInv
    <3>3. PipeOK(d)'
      BY <3>1, <3>2 DEF PipeOK, Receives
    <3>4. FrameTrue(d)'
      BY <1>1, <3>1, <3>2, FrameStays
    <3>. QED BY <3>3, <3>4
  <2>. QED BY <2>1 DEF PipesInv
<1>4. UsersInv'
  <2>1. ASSUME NEW v \in Users, v # u
        PROVE  UserOK(v)' /\ ClientTrue(v)'
    <3>1. userAt'[v] = userAt[v] /\ client'[v] = client[v] /\ UserOK(v) /\ ClientTrue(v)
      BY <2>1 DEF UsersInv
    <3>2. userAt[v].step # "idle" =>
            up'[userAt[v].conn] = up[userAt[v].conn] /\ down'[userAt[v].conn] = down[userAt[v].conn]
      <4>1. userAt[v].conn # c
        <5>1. c # None
          BY DEF Conns, None
        <5>2. ASSUME userAt[v].conn = userAt[u].conn, userAt[u].conn # None
              PROVE  v = u
          BY <5>2 DEF Apart
        <5>. QED BY <2>1, <5>1, <5>2
      <4>2. userAt[v].step # "idle" => userAt[v].conn \in Conns
        BY <3>1 DEF UserOK, TypeOK, EndsTypeOK, Conns, None
      <4>. QED BY <4>1, <4>2
    <3>3. UserOK(v)'
      <4>1. CASE userAt[v].step = "idle"
        BY <3>1, <4>1 DEF UserOK
      <4>2. CASE userAt[v].step # "idle"
        BY <3>1, <3>2, <4>2 DEF UserOK, Receives
      <4>. QED BY <4>1, <4>2
    <3>4. ClientTrue(v)'
      BY <3>1 DEF ClientTrue
    <3>. QED BY <3>3, <3>4
  <2>. QED BY <2>1 DEF UsersInv
<1>5. WorkersInv'
  <2>1. ASSUME NEW w \in Workers
        PROVE  WorkerOK(w)' /\ ServerTrue(w)' /\ TokenOK(w)'
    <3>1. WorkerOK(w) /\ ServerTrue(w) /\ TokenOK(w)
      BY DEF WorkersInv
    <3>2. WorkerOK(w)'
      <4>1. CASE workerAt[w].step = "idle"
        BY <1>1, <3>1, <4>1 DEF WorkerOK
      <4>2. CASE workerAt[w].step # "idle" /\ workerAt[w].conn # c
        <5>1. workerAt[w].conn \in Conns
          BY <3>1, <4>2 DEF WorkerOK, TypeOK, EndsTypeOK, Conns, None
        <5>2. /\ up'[workerAt[w].conn] = up[workerAt[w].conn]
              /\ down'[workerAt[w].conn] = down[workerAt[w].conn]
          BY <4>2, <5>1
        <5>. QED BY <1>1, <3>1, <5>2 DEF WorkerOK, Receives
      <4>. QED BY <4>1, <4>2
    <3>3. ServerTrue(w)'
      BY <1>1, <3>1, ServerStays
    <3>4. TokenOK(w)'
      BY <1>1, <3>1 DEF TokenOK
    <3>. QED BY <3>2, <3>3, <3>4
  <2>. QED BY <2>1 DEF WorkersInv
<1>6. PairsInv'
  <2>1. ASSUME NEW v \in Users, NEW w \in Workers, userAt[v].conn = workerAt[w].conn,
               workerAt[w].step # "idle"
        PROVE  InStep(userAt'[v].step, workerAt[w].step)
    <3>1. CASE v = u
      BY <2>1, <3>1
    <3>2. CASE v # u
      BY <2>1, <3>2 DEF PairsInv
    <3>. QED BY <3>1, <3>2
  <2>. QED BY <1>1, <2>1 DEF PairsInv, InStep
<1>7. Apart' /\ SpentInv'
  BY <1>1, ApartStays DEF SpentInv
<1>. QED BY <1>2, <1>3, <1>4, <1>5, <1>6, <1>7

LEMMA WorkerMoves ==
  ASSUME ZapInv, NEW w \in Workers, NEW c \in Conns, workerAt[w].conn = c,
         UNCHANGED <<dialed, accepted, shut, broken, client, userAt, late, alive>>,
         up' \in [Conns -> Seq(Frames)], down' \in [Conns -> Seq(Frames)],
         Len(up'[c]) <= 1, Len(down'[c]) <= 1,
         \A d \in Conns \ {c} : up'[d] = up[d] /\ down'[d] = down[d],
         server' \in [Workers -> Handshakes],
         \A v \in Workers \ {w} : server'[v] = server[v],
         workerAt' \in [Workers -> [step : Steps, conn : 0..MaxConns, token : Tokens \cup {"none"}]],
         \A v \in Workers \ {w} : workerAt'[v] = workerAt[v],
         workerAt'[w].conn = c,
         sessions \subseteq sessions',
         TokensTypeOK', SpentInv',
         PipeOK(c)', FrameTrue(c)', WorkerOK(w)', ServerTrue(w)', TokenOK(w)',
         \A u \in Users : userAt[u].conn = c =>
           /\ UserOK(u)'
           /\ workerAt'[w].step # "idle" => InStep(userAt[u].step, workerAt'[w].step)
  PROVE  StepsInv'
<1>1. /\ \A v \in Workers : workerAt'[v].conn = workerAt[v].conn
      /\ \A u \in Users : userAt'[u] = userAt[u] /\ client'[u] = client[u]
  OBVIOUS
<1>2. TypeOK'
  BY DEF TypeOK, WireTypeOK, EndsTypeOK
<1>3. PipesInv'
  <2>1. ASSUME NEW d \in Conns, d # c
        PROVE  PipeOK(d)' /\ FrameTrue(d)'
    <3>1. up'[d] = up[d] /\ down'[d] = down[d]
      BY <2>1
    <3>2. PipeOK(d) /\ FrameTrue(d)
      BY DEF PipesInv
    <3>3. PipeOK(d)'
      BY <3>1, <3>2 DEF PipeOK, Receives
    <3>4. FrameTrue(d)'
      BY <1>1, <3>1, <3>2, FrameStays
    <3>. QED BY <3>3, <3>4
  <2>. QED BY <2>1 DEF PipesInv
<1>4. UsersInv'
  <2>1. ASSUME NEW u \in Users
        PROVE  UserOK(u)' /\ ClientTrue(u)'
    <3>1. UserOK(u) /\ ClientTrue(u)
      BY DEF UsersInv
    <3>2. UserOK(u)'
      <4>1. CASE userAt[u].step = "idle"
        BY <1>1, <3>1, <4>1 DEF UserOK
      <4>2. CASE userAt[u].step # "idle" /\ userAt[u].conn # c
        <5>1. userAt[u].conn \in Conns
          BY <3>1, <4>2 DEF UserOK, TypeOK, EndsTypeOK, Conns, None
        <5>2. /\ up'[userAt[u].conn] = up[userAt[u].conn]
              /\ down'[userAt[u].conn] = down[userAt[u].conn]
          BY <4>2, <5>1
        <5>. QED BY <1>1, <3>1, <5>2 DEF UserOK, Receives
      <4>. QED BY <4>1, <4>2
    <3>3. ClientTrue(u)'
      BY <1>1, <3>1 DEF ClientTrue
    <3>. QED BY <3>2, <3>3
  <2>. QED BY <2>1 DEF UsersInv
<1>5. WorkersInv'
  <2>1. ASSUME NEW v \in Workers, v # w
        PROVE  WorkerOK(v)' /\ ServerTrue(v)' /\ TokenOK(v)'
    <3>1. /\ workerAt'[v] = workerAt[v] /\ server'[v] = server[v]
          /\ WorkerOK(v) /\ ServerTrue(v) /\ TokenOK(v)
      BY <2>1 DEF WorkersInv
    <3>2. WorkerOK(v)'
      <4>1. CASE workerAt[v].step = "idle"
        BY <3>1, <4>1 DEF WorkerOK
      <4>2. CASE workerAt[v].step # "idle"
        <5>1. workerAt[v].conn # c
          <6>1. c # None
            BY DEF Conns, None
          <6>2. ASSUME workerAt[v].conn = workerAt[w].conn, workerAt[w].conn # None
                PROVE  v = w
            BY <6>2 DEF Apart
          <6>. QED BY <2>1, <6>1, <6>2
        <5>2. workerAt[v].conn \in Conns
          BY <3>1, <4>2 DEF WorkerOK, TypeOK, EndsTypeOK, Conns, None
        <5>3. /\ up'[workerAt[v].conn] = up[workerAt[v].conn]
              /\ down'[workerAt[v].conn] = down[workerAt[v].conn]
          BY <5>1, <5>2
        <5>. QED BY <3>1, <5>3 DEF WorkerOK, Receives
      <4>. QED BY <4>1, <4>2
    <3>3. ServerTrue(v)'
      BY <1>1, <3>1, ServerStays
    <3>4. TokenOK(v)'
      BY <3>1 DEF TokenOK
    <3>. QED BY <3>2, <3>3, <3>4
  <2>. QED BY <2>1 DEF WorkersInv
<1>6. PairsInv'
  <2>1. ASSUME NEW u \in Users, NEW v \in Workers, userAt[u].conn = workerAt[v].conn,
               workerAt'[v].step # "idle"
        PROVE  InStep(userAt[u].step, workerAt'[v].step)
    <3>1. CASE v = w
      BY <2>1, <3>1
    <3>2. CASE v # w
      BY <2>1, <3>2 DEF PairsInv
    <3>. QED BY <3>1, <3>2
  <2>. QED BY <1>1, <2>1 DEF PairsInv, InStep
<1>7. Apart'
  BY <1>1, ApartStays
<1>. QED BY <1>2, <1>3, <1>4, <1>5, <1>6, <1>7

----------------------------------------------------------------------------
(* What an end knows of its connection, and what writing and reading do. *)

LEMMA UserOn ==
  ASSUME ZapInv, NEW u \in Users, userAt[u].step # "idle"
  PROVE  \E c \in Conns :
           /\ userAt[u].conn = c /\ c \in Nat /\ c <= dialed
           /\ up[c] \in Seq(Frames) /\ down[c] \in Seq(Frames)
           /\ Len(up[c]) <= 1 /\ Len(down[c]) <= 1
           /\ PipeOK(c) /\ FrameTrue(c) /\ UserOK(u) /\ ClientTrue(u)
           /\ \A v \in Users : userAt[v].conn = c => v = u
           /\ \A w \in Workers : workerAt[w].conn = c /\ workerAt[w].step # "idle"
                => WorkerOK(w) /\ InStep(userAt[u].step, workerAt[w].step)
<1>1. UserOK(u) /\ ClientTrue(u)
  BY DEF UsersInv
<1>2. PICK c \in Conns : userAt[u].conn = c /\ c <= dialed /\ c \in Nat /\ c # None
  BY <1>1 DEF UserOK, TypeOK, EndsTypeOK, Conns, None
<1>3. /\ up[c] \in Seq(Frames) /\ down[c] \in Seq(Frames)
      /\ Len(up[c]) <= 1 /\ Len(down[c]) <= 1
  BY DEF TypeOK, WireTypeOK
<1>4. PipeOK(c) /\ FrameTrue(c)
  BY DEF PipesInv
<1>5. \A v \in Users : userAt[v].conn = c => v = u
  BY <1>2 DEF Apart
<1>6. \A w \in Workers : workerAt[w].conn = c /\ workerAt[w].step # "idle"
        => WorkerOK(w) /\ InStep(userAt[u].step, workerAt[w].step)
  BY <1>2 DEF WorkersInv, PairsInv
<1>. QED BY <1>1, <1>2, <1>3, <1>4, <1>5, <1>6

LEMMA WorkerOn ==
  ASSUME ZapInv, NEW w \in Workers, workerAt[w].step # "idle"
  PROVE  \E c \in Conns :
           /\ workerAt[w].conn = c /\ c \in Nat /\ c <= accepted /\ accepted <= dialed
           /\ accepted \in Nat /\ dialed \in Nat
           /\ up[c] \in Seq(Frames) /\ down[c] \in Seq(Frames)
           /\ Len(up[c]) <= 1 /\ Len(down[c]) <= 1
           /\ PipeOK(c) /\ FrameTrue(c) /\ WorkerOK(w) /\ ServerTrue(w) /\ TokenOK(w)
           /\ \A u \in Users : userAt[u].conn = c =>
                UserOK(u) /\ InStep(userAt[u].step, workerAt[w].step)
<1>1. WorkerOK(w) /\ ServerTrue(w) /\ TokenOK(w)
  BY DEF WorkersInv
<1>2. PICK c \in Conns : workerAt[w].conn = c /\ c <= accepted /\ c \in Nat /\ c # None
  BY <1>1 DEF WorkerOK, TypeOK, EndsTypeOK, Conns, None
<1>3. /\ up[c] \in Seq(Frames) /\ down[c] \in Seq(Frames)
      /\ Len(up[c]) <= 1 /\ Len(down[c]) <= 1
      /\ accepted <= dialed /\ accepted \in Nat /\ dialed \in Nat
  BY DEF TypeOK, WireTypeOK
<1>4. PipeOK(c) /\ FrameTrue(c)
  BY DEF PipesInv
<1>5. \A u \in Users : userAt[u].conn = c =>
        UserOK(u) /\ InStep(userAt[u].step, workerAt[w].step)
  BY <1>2 DEF UsersInv, PairsInv
<1>. QED BY <1>1, <1>2, <1>3, <1>4, <1>5

LEMMA WriteUpFacts ==
  ASSUME TypeOK, NEW c \in Conns, NEW f \in Frames, up[c] = <<>>, WriteUp(c, f)
  PROVE  /\ up' \in [Conns -> Seq(Frames)] /\ Len(up'[c]) <= 1
         /\ \A d \in Conns \ {c} : up'[d] = up[d]
         /\ up'[c] # <<>> => Head(up'[c]) = f
<1>1. up' = [up EXCEPT ![c] = IF "server" \in shut[c] THEN <<>> ELSE Append(<<>>, f)]
  BY DEF WriteUp
<1>2. up \in [Conns -> Seq(Frames)]
  BY DEF TypeOK, WireTypeOK
<1>. QED BY <1>1, <1>2, Written

LEMMA WriteDownFacts ==
  ASSUME TypeOK, NEW c \in Conns, NEW f \in Frames, down[c] = <<>>, WriteDown(c, f)
  PROVE  /\ down' \in [Conns -> Seq(Frames)] /\ Len(down'[c]) <= 1
         /\ \A d \in Conns \ {c} : down'[d] = down[d]
         /\ down'[c] # <<>> => Head(down'[c]) = f
<1>1. down' = [down EXCEPT ![c] = IF "client" \in shut[c] THEN <<>> ELSE Append(<<>>, f)]
  BY DEF WriteDown
<1>2. down \in [Conns -> Seq(Frames)]
  BY DEF TypeOK, WireTypeOK
<1>. QED BY <1>1, <1>2, Written

LEMMA ReadUpFacts ==
  ASSUME TypeOK, NEW c \in Conns, up[c] # <<>>, up' = [up EXCEPT ![c] = Tail(@)]
  PROVE  /\ up' \in [Conns -> Seq(Frames)] /\ up'[c] = <<>> /\ Len(up'[c]) <= 1
         /\ \A d \in Conns \ {c} : up'[d] = up[d]
<1>1. up \in [Conns -> Seq(Frames)] /\ Len(up[c]) <= 1
  BY DEF TypeOK, WireTypeOK
<1>2. Tail(up[c]) = <<>>
  BY <1>1, OneFrame
<1>3. up' = [up EXCEPT ![c] = <<>>]
  BY <1>2
<1>4. <<>> \in Seq(Frames) /\ Len(<<>>) = 0
  OBVIOUS
<1>. QED BY <1>1, <1>3, <1>4

LEMMA ReadDownFacts ==
  ASSUME TypeOK, NEW c \in Conns, down[c] # <<>>, down' = [down EXCEPT ![c] = Tail(@)]
  PROVE  /\ down' \in [Conns -> Seq(Frames)] /\ down'[c] = <<>> /\ Len(down'[c]) <= 1
         /\ \A d \in Conns \ {c} : down'[d] = down[d]
<1>1. down \in [Conns -> Seq(Frames)] /\ Len(down[c]) <= 1
  BY DEF TypeOK, WireTypeOK
<1>2. Tail(down[c]) = <<>>
  BY <1>1, OneFrame
<1>3. down' = [down EXCEPT ![c] = <<>>]
  BY <1>2
<1>4. <<>> \in Seq(Frames) /\ Len(<<>>) = 0
  OBVIOUS
<1>. QED BY <1>1, <1>3, <1>4

\* What the fields of a frame that is read may hold.
LEMMA FrameFields ==
  ASSUME NEW s \in Seq(Frames), s # <<>>
  PROVE  /\ Head(s).type = "ClientHello" => /\ Head(s).method \in Methods
                                            /\ Head(s).random \in Conns
                                            /\ Head(s).key \in Users \cup {""}
         /\ Head(s).type = "ServerChallenge" => /\ Head(s).random \in Conns
                                                /\ Head(s).key \in {"", "server"}
                                                /\ Head(s).salt \in Conns
         /\ Head(s).type = "ServerSuccess" => Head(s).id \in Conns
<1>1. Head(s) \in Frames
  OBVIOUS
<1>. QED BY <1>1 DEF Frames

LEMMA ClientDoneFacts ==
  ASSUME TypeOK, NEW u \in Users, NEW h \in Handshakes, NEW state \in States, NEW next \in Steps,
         ClientDone(u, h, state, next)
  PROVE  /\ UNCHANGED <<dialed, accepted, shut, broken, server, workerAt, tokens, spent, late, alive>>
         /\ client' \in [Users -> Handshakes] /\ client'[u] = [h EXCEPT !.state = state]
         /\ \A v \in Users \ {u} : client'[v] = client[v]
         /\ userAt' \in [Users -> [step : Steps, conn : 0..MaxConns]]
         /\ \A v \in Users \ {u} : userAt'[v] = userAt[v]
         /\ userAt'[u].step = next /\ userAt'[u].conn = userAt[u].conn
<1>1. /\ UNCHANGED <<dialed, accepted, shut, broken, server, workerAt, tokens, spent, late, alive>>
      /\ client' = [client EXCEPT ![u] = [h EXCEPT !.state = state]]
      /\ userAt' = [userAt EXCEPT ![u].step = next]
  BY DEF ClientDone, servers
<1>2. client \in [Users -> Handshakes] /\ userAt \in [Users -> [step : Steps, conn : 0..MaxConns]]
  BY DEF TypeOK, EndsTypeOK
<1>3. [h EXCEPT !.state = state] \in Handshakes
  BY HandshakeFields
<1>. QED BY <1>1, <1>2, <1>3

LEMMA ServerDoneFacts ==
  ASSUME TypeOK, NEW w \in Workers, NEW h \in Handshakes, NEW state \in States,
         NEW next \in [step : Steps, conn : 0..MaxConns, token : Tokens \cup {"none"}],
         ServerDone(w, h, state, next)
  PROVE  /\ UNCHANGED <<dialed, accepted, shut, broken, client, userAt, late, alive>>
         /\ server' \in [Workers -> Handshakes] /\ server'[w] = [h EXCEPT !.state = state]
         /\ \A v \in Workers \ {w} : server'[v] = server[v]
         /\ workerAt' \in [Workers -> [step : Steps, conn : 0..MaxConns,
                                       token : Tokens \cup {"none"}]]
         /\ \A v \in Workers \ {w} : workerAt'[v] = workerAt[v]
         /\ workerAt'[w] = next
<1>1. /\ UNCHANGED <<dialed, accepted, shut, broken, client, userAt, late, alive>>
      /\ server' = [server EXCEPT ![w] = [h EXCEPT !.state = state]]
      /\ workerAt' = [workerAt EXCEPT ![w] = next]
  BY DEF ServerDone, clients
<1>2. /\ server \in [Workers -> Handshakes]
      /\ workerAt \in [Workers -> [step : Steps, conn : 0..MaxConns, token : Tokens \cup {"none"}]]
  BY DEF TypeOK, EndsTypeOK
<1>3. [h EXCEPT !.state = state] \in Handshakes
  BY HandshakeFields
<1>. QED BY <1>1, <1>2, <1>3

LEMMA UserSessionsStay ==
  ASSUME ZapInv, NEW u \in Users, UNCHANGED <<sessions, late, accepted, server>>,
         \A v \in Users \ {u} : client'[v] = client[v], client'[u].state # "Authenticated"
  PROVE  SessionsInv'
<1>1. accepted' >= accepted /\ accepted \in Nat /\ accepted' \in Nat
  BY DEF TypeOK, WireTypeOK
<1>2. \A v \in Users : client'[v].state = "Authenticated" => client'[v] = client[v]
  OBVIOUS
<1>3. \A w \in Workers : server'[w] = server[w]
  OBVIOUS
<1>. QED BY <1>1, <1>2, <1>3, SessionsStay

LEMMA WorkerSessionsStay ==
  ASSUME ZapInv, NEW w \in Workers, UNCHANGED <<sessions, late, accepted, client>>,
         \A v \in Workers \ {w} : server'[v] = server[v], server'[w].state # "Authenticated"
  PROVE  SessionsInv'
<1>1. accepted' >= accepted /\ accepted \in Nat /\ accepted' \in Nat
  BY DEF TypeOK, WireTypeOK
<1>2. \A v \in Workers : server'[v].state = "Authenticated" => server'[v] = server[v]
  OBVIOUS
<1>3. \A u \in Users : client'[u] = client[u]
  OBVIOUS
<1>. QED BY <1>1, <1>2, <1>3, SessionsStay

----------------------------------------------------------------------------
(* The client. *)

LEMMA SendClientHelloStep ==
  ASSUME ZapInv, NEW u \in Users, SendClientHello(u)
  PROVE  ZapInv'
<1>1. PICK c \in Conns :
        /\ userAt[u].conn = c /\ c \in Nat /\ c <= dialed
        /\ PipeOK(c) /\ FrameTrue(c) /\ UserOK(u) /\ ClientTrue(u)
        /\ \A v \in Users : userAt[v].conn = c => v = u
        /\ \A w \in Workers : workerAt[w].conn = c /\ workerAt[w].step # "idle"
             => WorkerOK(w) /\ InStep(userAt[u].step, workerAt[w].step)
  BY UserOn DEF SendClientHello
<1>2. PICK h \in Handshakes : h = [client[u] EXCEPT !.clientRandom = c]
  BY HandshakeFields DEF TypeOK, EndsTypeOK
<1>3. /\ h.clientRandom = c /\ h.state = client[u].state
      /\ h.id = client[u].id /\ h.key = client[u].key
  BY <1>2 DEF TypeOK, EndsTypeOK, Handshakes
<1>4. PICK f \in Frames : f = ClientHello(UserConfig[u].method, c, UserKey(u))
  BY FrameTypes
<1>5. /\ userAt[u].step = "hello" /\ up[c] = <<>> /\ down[c] = <<>>
      /\ f.type = "ClientHello" /\ f.random = c /\ f.key = UserKey(u)
  BY <1>1, <1>4 DEF SendClientHello, UserOK, ClientHello
<1>6. CASE WriteUp(c, f) /\ ClientDone(u, h, "ClientHelloSent", "challenge")
           /\ UNCHANGED <<down, sessions>>
  <2>1. /\ up' \in [Conns -> Seq(Frames)] /\ Len(up'[c]) <= 1
        /\ \A d \in Conns \ {c} : up'[d] = up[d]
        /\ up'[c] # <<>> => Head(up'[c]) = f
    BY <1>5, <1>6, WriteUpFacts
  <2>2. "ClientHelloSent" \in States /\ "challenge" \in Steps
    BY DEF States, Steps
  <2>3. /\ UNCHANGED <<dialed, accepted, shut, broken, server, workerAt, tokens, spent, late, alive>>
        /\ client' \in [Users -> Handshakes] /\ client'[u] = [h EXCEPT !.state = "ClientHelloSent"]
        /\ \A v \in Users \ {u} : client'[v] = client[v]
        /\ userAt' \in [Users -> [step : Steps, conn : 0..MaxConns]]
        /\ \A v \in Users \ {u} : userAt'[v] = userAt[v]
        /\ userAt'[u].step = "challenge" /\ userAt'[u].conn = c
    BY <1>1, <1>6, <2>2, ClientDoneFacts
  <2>4. /\ client'[u].state = "ClientHelloSent" /\ client'[u].clientRandom = c
        /\ client' \in [Users -> Handshakes]
    BY <1>3, <2>3 DEF Handshakes
  <2>5. /\ down' \in [Conns -> Seq(Frames)] /\ Len(down'[c]) <= 1 /\ down'[c] = <<>>
        /\ \A d \in Conns \ {c} : down'[d] = down[d]
    BY <1>5, <1>6 DEF TypeOK, WireTypeOK
  <2>6. PipeOK(c)'
    BY <1>1, <1>5, <2>1, <2>3, <2>5 DEF PipeOK, Receives, TypeOK, WireTypeOK
  <2>7. FrameTrue(c)'
    <3>1. \A v \in Users : userAt'[v].conn = c => v = u
      BY <1>1, <2>3
    <3>2. From(c, f.key)'
      BY <1>5, <3>1 DEF From
    <3>. QED BY <1>5, <2>1, <2>5, <3>2 DEF FrameTrue, Receives
  <2>8. UserOK(u)' /\ ClientTrue(u)'
    BY <1>1, <1>5, <2>1, <2>3, <2>4, <2>5 DEF UserOK, ClientTrue, Receives, Conns, None
  <2>9. ASSUME NEW w \in Workers, workerAt[w].conn = c, workerAt[w].step # "idle"
        PROVE  WorkerOK(w)' /\ InStep("challenge", workerAt[w].step)
    <3>1. workerAt[w].step = "hello" /\ workerAt'[w] = workerAt[w] /\ WorkerOK(w)
      BY <1>1, <1>5, <2>3, <2>9 DEF InStep
    <3>. QED BY <1>5, <2>1, <2>5, <2>9, <3>1 DEF WorkerOK, InStep, Receives
  <2>10. StepsInv'
    BY <1>1, <1>6, <2>1, <2>3, <2>5, <2>6, <2>7, <2>8, <2>9, UserMoves
  <2>11. SessionsInv'
    BY <1>6, <2>3, <2>4, UserSessionsStay
  <2>. QED BY <2>10, <2>11
<1>7. CASE ClientFails(u, h)
  <2>1. client'[u] = h
    BY <1>7 DEF ClientFails, TypeOK, EndsTypeOK
  <2>. QED BY <1>3, <1>7, <2>1, ClientFailsStep
<1>. QED BY <1>1, <1>2, <1>4, <1>6, <1>7 DEF SendClientHello, UserKey

LEMMA ReceiveServerChallengeStep ==
  ASSUME ZapInv, NEW u \in Users, ReceiveServerChallenge(u)
  PROVE  ZapInv'
<1>1. PICK c \in Conns :
        /\ userAt[u].conn = c /\ c \in Nat /\ c <= dialed
        /\ up[c] \in Seq(Frames) /\ down[c] \in Seq(Frames)
        /\ Len(up[c]) <= 1 /\ Len(down[c]) <= 1
        /\ PipeOK(c) /\ FrameTrue(c) /\ UserOK(u) /\ ClientTrue(u)
        /\ \A v \in Users : userAt[v].conn = c => v = u
        /\ \A w \in Workers : workerAt[w].conn = c /\ workerAt[w].step # "idle"
             => WorkerOK(w) /\ InStep(userAt[u].step, workerAt[w].step)
  BY UserOn DEF ReceiveServerChallenge
<1>2. userAt[u].step = "challenge"
  BY DEF ReceiveServerChallenge
<1>3. CASE /\ Receives(down[c], "ServerChallenge") /\ down' = [down EXCEPT ![c] = Tail(@)]
           /\ ClientDone(u, [client[u] EXCEPT !.serverRandom = Head(down[c]).random,
                                              !.peerKey = Head(down[c]).key,
                                              !.salt = Head(down[c]).salt],
                         "ServerChallengeSent", "response")
           /\ UNCHANGED <<up, sessions>>
  <2>1. /\ down[c] # <<>> /\ up[c] = <<>> /\ c <= accepted
        /\ Head(down[c]).random = c /\ Head(down[c]).key = PublicKey("server", ServerKey)
    BY <1>1, <1>3 DEF PipeOK, FrameTrue, Receives, TypeOK, WireTypeOK
  <2>2. Head(down[c]).key \in {"", "server"} /\ Head(down[c]).salt \in Conns
    BY <1>1, <1>3, <2>1, FrameFields DEF Receives
  <2>3. PICK h \in Handshakes :
          /\ h = [client[u] EXCEPT !.serverRandom = c, !.peerKey = Head(down[c]).key,
                                   !.salt = Head(down[c]).salt]
          /\ ClientDone(u, h, "ServerChallengeSent", "response")
    <3>1. PICK k \in {"", "server"} : Head(down[c]).key = k
      BY <2>2
    <3>2. PICK salt \in Conns : Head(down[c]).salt = salt
      BY <2>2
    <3>3. client[u] \in Handshakes
      BY DEF TypeOK, EndsTypeOK
    <3>4. PICK h \in Handshakes :
            h = [client[u] EXCEPT !.serverRandom = c, !.peerKey = k, !.salt = salt]
      BY <3>3, HandshakeFields
    <3>. QED BY <1>3, <2>1, <3>1, <3>2, <3>4
  <2>4. /\ h.clientRandom = c /\ h.serverRandom = c
        /\ h.peerKey = PublicKey("server", ServerKey)
    BY <1>1, <1>2, <2>1, <2>3 DEF TypeOK, EndsTypeOK, Handshakes, ClientTrue
  <2>5. "ServerChallengeSent" \in States /\ "response" \in Steps
    BY DEF States, Steps
  <2>6. /\ UNCHANGED <<dialed, accepted, shut, broken, server, workerAt, tokens, spent, late, alive>>
        /\ client' \in [Users -> Handshakes] /\ client'[u] = [h EXCEPT !.state = "ServerChallengeSent"]
        /\ \A v \in Users \ {u} : client'[v] = client[v]
        /\ userAt' \in [Users -> [step : Steps, conn : 0..MaxConns]]
        /\ \A v \in Users \ {u} : userAt'[v] = userAt[v]
        /\ userAt'[u].step = "response" /\ userAt'[u].conn = c
    <3>1. ClientDone(u, h, "ServerChallengeSent", "response")
      BY <2>3
    <3>. QED BY <1>1, <2>5, <3>1, ClientDoneFacts
  <2>7. /\ client'[u].state = "ServerChallengeSent" /\ client'[u].clientRandom = c
        /\ client'[u].serverRandom = c
        /\ client'[u].peerKey = PublicKey("server", ServerKey)
    BY <2>4, <2>6 DEF Handshakes
  <2>8. /\ down' \in [Conns -> Seq(Frames)] /\ down'[c] = <<>> /\ Len(down'[c]) <= 1
        /\ \A d \in Conns \ {c} : down'[d] = down[d]
    BY <1>3, <2>1, ReadDownFacts
  <2>9. /\ up' \in [Conns -> Seq(Frames)] /\ Len(up'[c]) <= 1 /\ up'[c] = <<>>
        /\ \A d \in Conns \ {c} : up'[d] = up[d]
    BY <1>1, <1>3, <2>1 DEF TypeOK, WireTypeOK
  <2>10. PipeOK(c)' /\ FrameTrue(c)'
    BY <2>8, <2>9 DEF PipeOK, FrameTrue, Receives
  <2>11. UserOK(u)' /\ ClientTrue(u)'
    BY <1>1, <1>2, <2>1, <2>6, <2>7, <2>8, <2>9 DEF UserOK, ClientTrue
  <2>12. ASSUME NEW w \in Workers, workerAt[w].conn = c, workerAt[w].step # "idle"
         PROVE  WorkerOK(w)' /\ InStep("response", workerAt[w].step)
    <3>1. /\ workerAt[w].step = "response" /\ workerAt'[w] = workerAt[w] /\ WorkerOK(w)
      BY <1>1, <1>2, <2>1, <2>6, <2>12 DEF InStep, WorkerOK
    <3>. QED BY <2>8, <2>9, <2>12, <3>1 DEF WorkerOK, InStep, Receives
  <2>13. StepsInv'
    <3>1. sessions \subseteq sessions'
      BY <1>3
    <3>. QED BY <1>1, <3>1, <2>6, <2>8, <2>9, <2>10, <2>11, <2>12, UserMoves
  <2>14. SessionsInv'
    BY <1>3, <2>6, <2>7, UserSessionsStay
  <2>. QED BY <2>13, <2>14
<1>4. CASE ClientFails(u, client[u])
  <2>1. client[u] \in Handshakes /\ client'[u] = client[u]
    BY <1>4 DEF ClientFails, TypeOK, EndsTypeOK
  <2>. QED BY <1>4, <2>1, ClientFailsStep
<1>. QED BY <1>1, <1>3, <1>4 DEF ReceiveServerChallenge

LEMMA SendClientResponseStep ==
  ASSUME ZapInv, NEW u \in Users, SendClientResponse(u)
  PROVE  ZapInv'
<1>1. PICK c \in Conns :
        /\ userAt[u].conn = c /\ c \in Nat /\ c <= dialed
        /\ PipeOK(c) /\ FrameTrue(c) /\ UserOK(u) /\ ClientTrue(u)
        /\ \A v \in Users : userAt[v].conn = c => v = u
        /\ \A w \in Workers : workerAt[w].conn = c /\ workerAt[w].step # "idle"
             => WorkerOK(w) /\ InStep(userAt[u].step, workerAt[w].step)
  BY UserOn DEF SendClientResponse
<1>2. PICK h \in Handshakes : h = client[u]
  BY DEF TypeOK, EndsTypeOK
<1>3. PICK f \in Frames : f = ClientResponse(GenerateResponse(UserConfig[u]))
  BY FrameTypes
<1>4. /\ userAt[u].step = "response" /\ up[c] = <<>> /\ down[c] = <<>> /\ c <= accepted
      /\ f.type = "ClientResponse"
  BY <1>1, <1>3 DEF SendClientResponse, UserOK, ClientResponse
<1>5. CASE WriteUp(c, f) /\ ClientDone(u, h, "ClientResponseSent", "success")
           /\ UNCHANGED <<down, sessions>>
  <2>1. /\ up' \in [Conns -> Seq(Frames)] /\ Len(up'[c]) <= 1
        /\ \A d \in Conns \ {c} : up'[d] = up[d]
        /\ up'[c] # <<>> => Head(up'[c]) = f
    BY <1>4, <1>5, WriteUpFacts
  <2>2. "ClientResponseSent" \in States /\ "success" \in Steps
    BY DEF States, Steps
  <2>3. /\ UNCHANGED <<dialed, accepted, shut, broken, server, workerAt, tokens, spent, late, alive>>
        /\ client' \in [Users -> Handshakes] /\ client'[u] = [h EXCEPT !.state = "ClientResponseSent"]
        /\ \A v \in Users \ {u} : client'[v] = client[v]
        /\ userAt' \in [Users -> [step : Steps, conn : 0..MaxConns]]
        /\ \A v \in Users \ {u} : userAt'[v] = userAt[v]
        /\ userAt'[u].step = "success" /\ userAt'[u].conn = c
    BY <1>1, <1>5, <2>2, ClientDoneFacts
  <2>4. /\ client'[u].state = "ClientResponseSent" /\ client'[u].clientRandom = c
        /\ client'[u].serverRandom = c
        /\ client'[u].peerKey = PublicKey("server", ServerKey)
    BY <1>1, <1>2, <1>4, <2>3 DEF Handshakes, ClientTrue
  <2>5. /\ down' \in [Conns -> Seq(Frames)] /\ Len(down'[c]) <= 1 /\ down'[c] = <<>>
        /\ \A d \in Conns \ {c} : down'[d] = down[d]
    BY <1>4, <1>5 DEF TypeOK, WireTypeOK
  <2>6. PipeOK(c)' /\ FrameTrue(c)'
    BY <1>1, <1>4, <2>1, <2>3, <2>5 DEF PipeOK, FrameTrue, Receives, TypeOK, WireTypeOK
  <2>7. UserOK(u)' /\ ClientTrue(u)'
    BY <1>1, <1>4, <2>1, <2>3, <2>4, <2>5 DEF UserOK, ClientTrue, Receives
  <2>8. ASSUME NEW w \in Workers, workerAt[w].conn = c, workerAt[w].step # "idle"
        PROVE  WorkerOK(w)' /\ InStep("success", workerAt[w].step)
    <3>1. workerAt[w].step = "response" /\ workerAt'[w] = workerAt[w] /\ WorkerOK(w)
      BY <1>1, <1>4, <2>3, <2>8 DEF InStep
    <3>. QED BY <1>4, <2>1, <2>5, <2>8, <3>1 DEF WorkerOK, InStep, Receives
  <2>9. StepsInv'
    BY <1>1, <1>5, <2>1, <2>3, <2>5, <2>6, <2>7, <2>8, UserMoves
  <2>10. SessionsInv'
    BY <1>5, <2>3, <2>4, UserSessionsStay
  <2>. QED BY <2>9, <2>10
<1>6. CASE ClientFails(u, h)
  <2>1. client'[u] = client[u]
    BY <1>2, <1>6 DEF ClientFails, TypeOK, EndsTypeOK
  <2>. QED BY <1>6, <2>1, ClientFailsStep
<1>. QED BY <1>1, <1>2, <1>3, <1>5, <1>6 DEF SendClientResponse

\* The session of the client is the one the server has announced.
LEMMA ReceiveServerSuccessStep ==
  ASSUME ZapInv, NEW u \in Users, ReceiveServerSuccess(u)
  PROVE  ZapInv'
<1>1. PICK c \in Conns :
        /\ userAt[u].conn = c /\ c \in Nat /\ c <= dialed
        /\ up[c] \in Seq(Frames) /\ down[c] \in Seq(Frames)
        /\ Len(up[c]) <= 1 /\ Len(down[c]) <= 1
        /\ PipeOK(c) /\ FrameTrue(c) /\ UserOK(u) /\ ClientTrue(u)
        /\ \A v \in Users : userAt[v].conn = c => v = u
        /\ \A w \in Workers : workerAt[w].conn = c /\ workerAt[w].step # "idle"
             => WorkerOK(w) /\ InStep(userAt[u].step, workerAt[w].step)
  BY UserOn DEF ReceiveServerSuccess
<1>. DEFINE g == [client[u] EXCEPT !.id = Head(down[c]).id]
            h == [g EXCEPT !.key = SessionKey(g, u)]
<1>2. userAt[u].step = "success" /\ client[u] \in Handshakes
  BY DEF ReceiveServerSuccess, TypeOK, EndsTypeOK
<1>3. /\ client[u].clientRandom = c /\ client[u].serverRandom = c
      /\ client[u].peerKey = PublicKey("server", ServerKey) /\ client[u].state # "Authenticated"
  BY <1>1, <1>2 DEF ClientTrue
<1>4. ASSUME Receives(down[c], "ServerSuccess")
      PROVE  /\ down[c] # <<>> /\ up[c] = <<>> /\ c <= accepted
             /\ Head(down[c]).id = c /\ Announced(c)
  BY <1>1, <1>4 DEF PipeOK, FrameTrue, Receives, TypeOK, WireTypeOK
<1>5. CASE /\ Receives(down[c], "ServerSuccess") /\ CanDerive(g, UserConfig[u].key)
           /\ down' = [down EXCEPT ![c] = Tail(@)]
           /\ sessions' = sessions \cup {Session("client", u, c, h, "none")}
           /\ ClientDone(u, h, "Authenticated", "idle") /\ UNCHANGED up
  <2>1. PICK k \in Conns \X Conns \X {{v, "server"} : v \in Users} :
          k = <<c, c, {u, "server"}>>
    OBVIOUS
  <2>2. /\ client[u].peerKey = "server" /\ UserKey(u) = u
    BY <1>2, <1>3, <1>5 DEF CanDerive, PublicKey, UserKey, Handshakes
  <2>3. k = SharedKey(c, u) /\ SessionKey(g, u) = k /\ k[1] = c
    BY <1>2, <1>3, <2>1, <2>2 DEF SharedKey, SessionKey, Handshakes
  <2>4. PICK hs \in Handshakes : hs = h
    BY <1>2, <1>4, <1>5, <2>3 DEF Handshakes
  <2>5. hs.id = c /\ hs.key = k
    BY <1>2, <1>4, <1>5, <2>3, <2>4 DEF Handshakes
  <2>6. "Authenticated" \in States /\ "idle" \in Steps
    BY DEF States, Steps
  <2>7. /\ UNCHANGED <<dialed, accepted, shut, broken, server, workerAt, tokens, spent, late, alive>>
        /\ client' \in [Users -> Handshakes] /\ client'[u] = [hs EXCEPT !.state = "Authenticated"]
        /\ \A v \in Users \ {u} : client'[v] = client[v]
        /\ userAt' \in [Users -> [step : Steps, conn : 0..MaxConns]]
        /\ \A v \in Users \ {u} : userAt'[v] = userAt[v]
        /\ userAt'[u].step = "idle" /\ userAt'[u].conn = c
    <3>1. ClientDone(u, hs, "Authenticated", "idle")
      BY <1>5, <2>4
    <3>. QED BY <1>1, <2>6, <3>1, ClientDoneFacts
  <2>8. client'[u].id = c /\ client'[u].key = k
    BY <2>5, <2>7 DEF Handshakes
  <2>9. /\ down' \in [Conns -> Seq(Frames)] /\ down'[c] = <<>> /\ Len(down'[c]) <= 1
        /\ \A d \in Conns \ {c} : down'[d] = down[d]
    BY <1>4, <1>5, ReadDownFacts
  <2>10. /\ up' \in [Conns -> Seq(Frames)] /\ Len(up'[c]) <= 1 /\ up'[c] = <<>>
         /\ \A d \in Conns \ {c} : up'[d] = up[d]
    BY <1>1, <1>4, <1>5 DEF TypeOK, WireTypeOK
  <2>11. PipeOK(c)' /\ FrameTrue(c)'
    BY <2>9, <2>10 DEF PipeOK, FrameTrue, Receives
  <2>12. UserOK(u)' /\ ClientTrue(u)'
    BY <2>7 DEF UserOK, ClientTrue
  <2>13. ASSUME NEW w \in Workers, workerAt[w].conn = c, workerAt[w].step # "idle"
         PROVE  WorkerOK(w)' /\ InStep("idle", workerAt[w].step)
    <3>1. workerAt[w].step = "response" /\ workerAt'[w] = workerAt[w] /\ WorkerOK(w)
      BY <1>1, <1>2, <1>4, <1>5, <2>7, <2>13 DEF InStep, WorkerOK
    <3>. QED BY <2>9, <2>10, <2>13, <3>1 DEF WorkerOK, InStep, Receives
  <2>. HIDE DEF g, h
  <2>14. PICK s : /\ s = Session("client", u, c, hs, "none")
                  /\ sessions' = sessions \cup {s}
    BY <1>5, <2>4 DEF h
  <2>15. s.end = "client" /\ s.who = u /\ s.conn = c /\ s.id = c /\ s.key = k
    BY <2>5, <2>14 DEF Session
  <2>16. StepsInv'
    <3>1. sessions \subseteq sessions' /\ userAt[u].conn = c
      BY <1>1, <2>14
    <3>2. \A w \in Workers : workerAt[w].conn = c /\ workerAt[w].step # "idle"
            => WorkerOK(w)' /\ InStep(userAt'[u].step, workerAt[w].step)
      BY <2>7, <2>13
    <3>. QED BY <3>1, <3>2, <2>7, <2>9, <2>10, <2>11, <2>12, UserMoves
  <2>17. \A t \in sessions' : SessionTrue(t)'
    BY <2>3, <2>7, <2>14, <2>15 DEF SessionTrue
  <2>18. ClientSessionIsShared'
    <3>1. \E t \in sessions : t.end = "server" /\ t.conn = c /\ t.id = c /\ t.key = k
      BY <1>1, <1>4, <1>5, <2>3 DEF Announced
    <3>. QED BY <2>14, <2>15, <3>1 DEF ClientSessionIsShared
  <2>19. AuthenticatedIsASession'
    <3>1. ASSUME NEW v \in Users, client'[v].state = "Authenticated"
          PROVE  \E t \in sessions' : t.who = v /\ t.id = client'[v].id /\ t.key = client'[v].key
      <4>1. CASE v = u
        <5>1. s \in sessions' /\ s.who = v /\ s.id = client'[v].id /\ s.key = client'[v].key
          BY <2>8, <2>14, <2>15, <4>1
        <5>. QED BY <5>1
      <4>2. CASE v # u
        <5>1. client'[v] = client[v]
          BY <2>7, <4>2
        <5>. QED BY <2>14, <3>1, <5>1 DEF AuthenticatedIsASession
      <4>. QED BY <4>1, <4>2
    <3>2. \A w \in Workers : server'[w].state = "Authenticated" =>
            \E t \in sessions' : t.who = w /\ t.id = server'[w].id /\ t.key = server'[w].key
      BY <2>7, <2>14 DEF AuthenticatedIsASession
    <3>. QED BY <3>1, <3>2 DEF AuthenticatedIsASession
  <2>20. SpentTokenIsDead'
    BY <2>7, <2>14, <2>15 DEF SpentTokenIsDead
  <2>. QED BY <2>16, <2>17, <2>18, <2>19, <2>20
<1>6. CASE Receives(down[c], "ServerSuccess") /\ ClientFails(u, g)
  <2>1. g \in Handshakes /\ g.state = client[u].state
    BY <1>2, <1>4, <1>6 DEF Handshakes
  <2>2. client'[u] = g
    BY <1>6 DEF ClientFails, TypeOK, EndsTypeOK
  <2>. QED BY <1>3, <1>6, <2>1, <2>2, ClientFailsStep
<1>7. CASE ClientFails(u, client[u])
  <2>1. client'[u] = client[u]
    BY <1>7 DEF ClientFails, TypeOK, EndsTypeOK
  <2>. QED BY <1>2, <1>7, <2>1, ClientFailsStep
<1>. QED BY <1>1, <1>5, <1>6, <1>7 DEF ReceiveServerSuccess

----------------------------------------------------------------------------
(* The server. *)

LEMMA AtFacts ==
  ASSUME TypeOK, NEW w \in Workers, NEW step \in Steps
  PROVE  /\ At(w, step) \in [step : Steps, conn : 0..MaxConns, token : Tokens \cup {"none"}]
         /\ At(w, step).step = step /\ At(w, step).conn = workerAt[w].conn
         /\ At(w, step).token = workerAt[w].token
BY DEF At, TypeOK, EndsTypeOK

LEMMA ReceiveClientHelloStep ==
  ASSUME ZapInv, NEW w \in Workers, ReceiveClientHello(w)
  PROVE  ZapInv'
<1>1. PICK c \in Conns :
        /\ workerAt[w].conn = c /\ c \in Nat /\ c <= accepted /\ accepted <= dialed
        /\ accepted \in Nat /\ dialed \in Nat
        /\ up[c] \in Seq(Frames) /\ down[c] \in Seq(Frames)
        /\ Len(up[c]) <= 1 /\ Len(down[c]) <= 1
        /\ PipeOK(c) /\ FrameTrue(c) /\ WorkerOK(w) /\ ServerTrue(w) /\ TokenOK(w)
        /\ \A u \in Users : userAt[u].conn = c =>
             UserOK(u) /\ InStep(userAt[u].step, workerAt[w].step)
  BY WorkerOn DEF ReceiveClientHello
<1>2. workerAt[w].step = "hello" /\ server[w] \in Handshakes
  BY DEF ReceiveClientHello, TypeOK, EndsTypeOK
<1>3. ASSUME Receives(up[c], "ClientHello")
      PROVE  \E key \in Users \cup {""}, m \in Methods :
               /\ up[c] # <<>> /\ down[c] = <<>>
               /\ Head(up[c]).random = c /\ Head(up[c]).key = key /\ Head(up[c]).method = m
               /\ From(c, key)
  <2>1. /\ up[c] # <<>> /\ down[c] = <<>> /\ Head(up[c]).type = "ClientHello"
        /\ Head(up[c]).random = c /\ From(c, Head(up[c]).key)
    BY <1>1, <1>3 DEF PipeOK, FrameTrue, Receives
  <2>2. Head(up[c]).key \in Users \cup {""} /\ Head(up[c]).method \in Methods
    BY <1>1, <2>1, FrameFields
  <2>. QED BY <2>1, <2>2
<1>. DEFINE g == [server[w] EXCEPT !.clientRandom = Head(up[c]).random,
                                   !.peerKey = Head(up[c]).key, !.method = Head(up[c]).method]
<1>4. ASSUME Receives(up[c], "ClientHello")
      PROVE  /\ g \in Handshakes /\ g.clientRandom = c /\ g.state = server[w].state
             /\ g.peerKey \in Users \cup {""} /\ From(c, g.peerKey)
             /\ g.id = server[w].id /\ g.key = server[w].key
  <2>1. PICK key \in Users \cup {""}, m \in Methods :
          /\ Head(up[c]).random = c /\ Head(up[c]).key = key /\ Head(up[c]).method = m
          /\ From(c, key)
    BY <1>3, <1>4
  <2>2. PICK h \in Handshakes : h = [server[w] EXCEPT !.clientRandom = c, !.peerKey = key, !.method = m]
    BY <1>2, HandshakeFields
  <2>3. g = h
    BY <2>1, <2>2
  <2>4. /\ h.clientRandom = c /\ h.state = server[w].state /\ h.peerKey = key
        /\ h.id = server[w].id /\ h.key = server[w].key
    BY <1>2, <2>2 DEF Handshakes
  <2>. HIDE DEF g
  <2>. QED BY <2>1, <2>3, <2>4
<1>5. CASE /\ Receives(up[c], "ClientHello") /\ up' = [up EXCEPT ![c] = Tail(@)]
           /\ ServerDone(w, g, "ClientHelloSent", At(w, "challenge"))
           /\ UNCHANGED <<down, tokens, spent, sessions>>
  <2>1. PICK h \in Handshakes : /\ h = g /\ h.clientRandom = c
                                /\ h.peerKey \in Users \cup {""} /\ From(c, h.peerKey)
    BY <1>4, <1>5
  <2>2. "ClientHelloSent" \in States /\ "challenge" \in Steps
    BY DEF States, Steps
  <2>3. PICK next \in [step : Steps, conn : 0..MaxConns, token : Tokens \cup {"none"}] :
          /\ next = At(w, "challenge")
          /\ next.step = "challenge" /\ next.conn = c /\ next.token = workerAt[w].token
    BY <1>1, <2>2, AtFacts
  <2>4. ServerDone(w, h, "ClientHelloSent", next)
    BY <1>5, <2>1, <2>3
  <2>. HIDE DEF g
  <2>5. /\ UNCHANGED <<dialed, accepted, shut, broken, client, userAt, late, alive>>
        /\ server' \in [Workers -> Handshakes] /\ server'[w] = [h EXCEPT !.state = "ClientHelloSent"]
        /\ \A v \in Workers \ {w} : server'[v] = server[v]
        /\ workerAt' \in [Workers -> [step : Steps, conn : 0..MaxConns,
                                      token : Tokens \cup {"none"}]]
        /\ \A v \in Workers \ {w} : workerAt'[v] = workerAt[v]
        /\ workerAt'[w] = next
    BY <2>2, <2>4, ServerDoneFacts
  <2>6. /\ server'[w].state = "ClientHelloSent" /\ server'[w].clientRandom = c
        /\ server'[w].peerKey = h.peerKey
    BY <2>1, <2>5 DEF Handshakes
  <2>7. up[c] # <<>> /\ down[c] = <<>> /\ sessions \subseteq sessions'
    BY <1>3, <1>5
  <2>8. /\ up' \in [Conns -> Seq(Frames)] /\ up'[c] = <<>> /\ Len(up'[c]) <= 1
        /\ \A d \in Conns \ {c} : up'[d] = up[d]
    BY <1>5, <2>7, ReadUpFacts
  <2>9. /\ down' \in [Conns -> Seq(Frames)] /\ down'[c] = <<>> /\ Len(down'[c]) <= 1
        /\ \A d \in Conns \ {c} : down'[d] = down[d]
    BY <1>1, <1>5, <2>7 DEF TypeOK, WireTypeOK
  <2>10. PipeOK(c)' /\ FrameTrue(c)'
    BY <2>8, <2>9 DEF PipeOK, FrameTrue, Receives
  <2>11. WorkerOK(w)' /\ ServerTrue(w)' /\ TokenOK(w)'
    <3>1. From(c, h.peerKey)'
      BY <2>1, <2>5 DEF From
    <3>2. WorkerOK(w)'
      BY <1>1, <1>2, <2>3, <2>5, <2>8, <2>9 DEF WorkerOK
    <3>3. ServerTrue(w)'
      BY <2>1, <2>3, <2>5, <2>6, <3>1 DEF ServerTrue
    <3>4. TokenOK(w)'
      BY <1>1, <1>2, <2>3, <2>5 DEF TokenOK
    <3>. QED BY <3>2, <3>3, <3>4
  <2>12. TokensTypeOK' /\ SpentInv'
    BY <1>5, <2>5 DEF TokensTypeOK, TypeOK, SpentInv
  <2>13. ASSUME NEW u \in Users, userAt[u].conn = c
         PROVE  UserOK(u)' /\ InStep(userAt[u].step, "challenge")
    <3>1. userAt[u].step \in {"idle", "challenge"} /\ userAt'[u] = userAt[u]
      BY <1>1, <1>2, <2>5, <2>7, <2>13 DEF InStep, UserOK, TypeOK, EndsTypeOK, Steps
    <3>. QED BY <1>1, <2>8, <2>9, <2>13, <3>1 DEF UserOK, InStep, Receives
  <2>14. StepsInv'
    <3>1. \A u \in Users : userAt[u].conn = c =>
            /\ UserOK(u)'
            /\ workerAt'[w].step # "idle" => InStep(userAt[u].step, workerAt'[w].step)
      BY <2>3, <2>5, <2>13
    <3>2. workerAt[w].conn = c /\ workerAt'[w].conn = c
      BY <1>1, <2>3, <2>5
    <3>. QED BY <2>5, <2>7, <2>8, <2>9, <2>10, <2>11, <2>12, <3>1, <3>2, WorkerMoves
  <2>15. SessionsInv'
    BY <1>5, <2>5, <2>6, WorkerSessionsStay
  <2>. QED BY <2>14, <2>15
<1>6. CASE Receives(up[c], "ClientHello") /\ ServerFails(w, g)
  <2>1. server'[w] = g
    BY <1>6 DEF ServerFails, TypeOK, EndsTypeOK
  <2>. QED BY <1>4, <1>6, <2>1, ServerFailsStep
<1>7. CASE ServerFails(w, server[w])
  <2>1. server'[w] = server[w]
    BY <1>7 DEF ServerFails, TypeOK, EndsTypeOK
  <2>. QED BY <1>2, <1>7, <2>1, ServerFailsStep
<1>. QED BY <1>1, <1>5, <1>6, <1>7 DEF ReceiveClientHello

LEMMA SendServerChallengeStep ==
  ASSUME ZapInv, NEW w \in Workers, SendServerChallenge(w)
  PROVE  ZapInv'
<1>1. PICK c \in Conns :
        /\ workerAt[w].conn = c /\ c \in Nat /\ c <= accepted /\ accepted <= dialed
        /\ accepted \in Nat /\ dialed \in Nat
        /\ up[c] \in Seq(Frames) /\ down[c] \in Seq(Frames)
        /\ Len(up[c]) <= 1 /\ Len(down[c]) <= 1
        /\ PipeOK(c) /\ FrameTrue(c) /\ WorkerOK(w) /\ ServerTrue(w) /\ TokenOK(w)
        /\ \A u \in Users : userAt[u].conn = c =>
             UserOK(u) /\ InStep(userAt[u].step, workerAt[w].step)
  BY WorkerOn DEF SendServerChallenge
<1>2. workerAt[w].step = "challenge" /\ server[w] \in Handshakes
  BY DEF SendServerChallenge, TypeOK, EndsTypeOK
<1>3. PICK h \in Handshakes : h = [server[w] EXCEPT !.serverRandom = c, !.salt = c]
  BY <1>2, HandshakeFields
<1>4. PICK f \in Frames : f = ServerChallenge(c, PublicKey("server", ServerKey), c)
  BY FrameTypes
<1>5. /\ up[c] = <<>> /\ down[c] = <<>> /\ f.type = "ServerChallenge" /\ f.random = c
      /\ f.key = PublicKey("server", ServerKey)
  BY <1>1, <1>2, <1>4 DEF WorkerOK, ServerChallenge
<1>6. /\ h.clientRandom = c /\ h.serverRandom = c /\ h.state # "Authenticated"
      /\ h.peerKey = server[w].peerKey /\ h.peerKey \in Users \cup {""} /\ From(c, h.peerKey)
  <2>1. /\ h.clientRandom = server[w].clientRandom /\ h.serverRandom = c
        /\ h.state = server[w].state /\ h.peerKey = server[w].peerKey
    BY <1>2, <1>3 DEF Handshakes
  <2>. QED BY <1>1, <1>2, <2>1 DEF ServerTrue
<1>7. CASE /\ WriteDown(c, f) /\ ServerDone(w, h, "ServerChallengeSent", At(w, "response"))
           /\ UNCHANGED <<up, tokens, spent, sessions>>
  <2>1. "ServerChallengeSent" \in States /\ "response" \in Steps
    BY DEF States, Steps
  <2>2. PICK next \in [step : Steps, conn : 0..MaxConns, token : Tokens \cup {"none"}] :
          /\ next = At(w, "response")
          /\ next.step = "response" /\ next.conn = c /\ next.token = workerAt[w].token
    BY <1>1, <2>1, AtFacts
  <2>3. ServerDone(w, h, "ServerChallengeSent", next)
    BY <1>7, <2>2
  <2>4. /\ UNCHANGED <<dialed, accepted, shut, broken, client, userAt, late, alive>>
        /\ server' \in [Workers -> Handshakes]
        /\ server'[w] = [h EXCEPT !.state = "ServerChallengeSent"]
        /\ \A v \in Workers \ {w} : server'[v] = server[v]
        /\ workerAt' \in [Workers -> [step : Steps, conn : 0..MaxConns,
                                      token : Tokens \cup {"none"}]]
        /\ \A v \in Workers \ {w} : workerAt'[v] = workerAt[v]
        /\ workerAt'[w] = next
    BY <2>1, <2>3, ServerDoneFacts
  <2>5. /\ server'[w].state = "ServerChallengeSent" /\ server'[w].clientRandom = c
        /\ server'[w].serverRandom = c /\ server'[w].peerKey = h.peerKey
    BY <1>6, <2>4 DEF Handshakes
  <2>6. /\ down' \in [Conns -> Seq(Frames)] /\ Len(down'[c]) <= 1
        /\ \A d \in Conns \ {c} : down'[d] = down[d]
        /\ down'[c] # <<>> => Head(down'[c]) = f
    BY <1>5, <1>7, WriteDownFacts
  <2>7. /\ up' \in [Conns -> Seq(Frames)] /\ up'[c] = <<>> /\ Len(up'[c]) <= 1
        /\ \A d \in Conns \ {c} : up'[d] = up[d]
    BY <1>5, <1>7 DEF TypeOK, WireTypeOK
  <2>8. PipeOK(c)' /\ FrameTrue(c)'
    BY <1>1, <1>5, <2>4, <2>6, <2>7 DEF PipeOK, FrameTrue, Receives
  <2>9. WorkerOK(w)' /\ ServerTrue(w)' /\ TokenOK(w)'
    <3>1. From(c, h.peerKey)'
      BY <1>6, <2>4 DEF From
    <3>2. WorkerOK(w)'
      BY <1>1, <1>2, <1>5, <2>2, <2>4, <2>6, <2>7 DEF WorkerOK, Receives
    <3>3. ServerTrue(w)'
      BY <1>6, <2>2, <2>4, <2>5, <3>1 DEF ServerTrue
    <3>4. TokenOK(w)'
      BY <1>1, <1>2, <2>2, <2>4 DEF TokenOK
    <3>. QED BY <3>2, <3>3, <3>4
  <2>10. TokensTypeOK' /\ SpentInv'
    BY <1>7, <2>4 DEF TokensTypeOK, TypeOK, SpentInv
  <2>11. ASSUME NEW u \in Users, userAt[u].conn = c
         PROVE  UserOK(u)' /\ InStep(userAt[u].step, "response")
    <3>1. userAt[u].step \in {"idle", "challenge"} /\ userAt'[u] = userAt[u] /\ UserOK(u)
      BY <1>1, <1>2, <2>4, <2>11 DEF InStep, UserOK, TypeOK, EndsTypeOK, Steps
    <3>. QED BY <1>1, <1>5, <2>6, <2>7, <2>11, <3>1 DEF UserOK, InStep, Receives
  <2>12. StepsInv'
    <3>1. \A u \in Users : userAt[u].conn = c =>
            /\ UserOK(u)'
            /\ workerAt'[w].step # "idle" => InStep(userAt[u].step, workerAt'[w].step)
      BY <2>2, <2>4, <2>11
    <3>2. workerAt[w].conn = c /\ workerAt'[w].conn = c /\ sessions \subseteq sessions'
      BY <1>1, <1>7, <2>2, <2>4
    <3>. QED BY <2>4, <2>6, <2>7, <2>8, <2>9, <2>10, <3>1, <3>2, WorkerMoves
  <2>13. SessionsInv'
    BY <1>7, <2>4, <2>5, WorkerSessionsStay
  <2>. QED BY <2>12, <2>13
<1>8. CASE ServerFails(w, h)
  <2>1. server'[w] = h
    BY <1>8 DEF ServerFails, TypeOK, EndsTypeOK
  <2>. QED BY <1>6, <1>8, <2>1, ServerFailsStep
<1>. QED BY <1>1, <1>3, <1>4, <1>7, <1>8 DEF SendServerChallenge

\* A token that is valid now was not spent when the connection was accepted.
LEMMA ReceiveClientResponseStep ==
  ASSUME ZapInv, NEW w \in Workers, ReceiveClientResponse(w)
  PROVE  ZapInv'
<1>1. PICK c \in Conns :
        /\ workerAt[w].conn = c /\ c \in Nat /\ c <= accepted /\ accepted <= dialed
        /\ accepted \in Nat /\ dialed \in Nat
        /\ up[c] \in Seq(Frames) /\ down[c] \in Seq(Frames)
        /\ Len(up[c]) <= 1 /\ Len(down[c]) <= 1
        /\ PipeOK(c) /\ FrameTrue(c) /\ WorkerOK(w) /\ ServerTrue(w) /\ TokenOK(w)
        /\ \A u \in Users : userAt[u].conn = c =>
             UserOK(u) /\ InStep(userAt[u].step, workerAt[w].step)
  BY WorkerOn DEF ReceiveClientResponse
<1>2. workerAt[w].step = "response" /\ server[w] \in Handshakes
  BY DEF ReceiveClientResponse, TypeOK, EndsTypeOK
<1>3. PICK h \in Handshakes : h = server[w]
  BY <1>2
<1>4. /\ h.clientRandom = c /\ h.serverRandom = c /\ h.state # "Authenticated"
      /\ h.peerKey \in Users \cup {""} /\ From(c, h.peerKey)
  BY <1>1, <1>2, <1>3 DEF ServerTrue
<1>5. CASE /\ Receives(up[c], "ClientResponse") /\ up' = [up EXCEPT ![c] = Tail(@)]
           /\ \/ /\ Head(up[c]).data \in tokens
                 /\ ServerDone(w, h, h.state, [At(w, "delete") EXCEPT !.token = Head(up[c]).data])
              \/ ServerDone(w, h, "ClientResponseSent", At(w, "success"))
           /\ UNCHANGED <<down, tokens, spent, sessions>>
  <2>1. up[c] # <<>> /\ Head(up[c]).type = "ClientResponse" /\ down[c] = <<>>
    BY <1>1, <1>5 DEF PipeOK, Receives
  <2>2. /\ h.state \in States /\ "ClientResponseSent" \in States
        /\ "delete" \in Steps /\ "success" \in Steps
    BY DEF States, Steps, Handshakes
  <2>3. PICK next \in [step : Steps, conn : 0..MaxConns, token : Tokens \cup {"none"}],
             state \in States \ {"Authenticated"} :
          /\ next.conn = c /\ next.step \in {"delete", "success"}
          /\ next.token \notin late[c]
          /\ next.step = "delete" => next.token \in Tokens
          /\ ServerDone(w, h, state, next)
    <3>1. CASE /\ Head(up[c]).data \in tokens
               /\ ServerDone(w, h, h.state, [At(w, "delete") EXCEPT !.token = Head(up[c]).data])
      <4>1. PICK t \in Tokens : t = Head(up[c]).data
        BY <3>1 DEF TypeOK, TokensTypeOK
      <4>2. t \notin late[c]
        BY <3>1, <4>1 DEF SpentInv
      <4>3. PICK a \in [step : Steps, conn : 0..MaxConns, token : Tokens \cup {"none"}] :
              a = At(w, "delete") /\ a.step = "delete" /\ a.conn = c
        BY <1>1, <2>2, AtFacts
      <4>4. PICK next \in [step : Steps, conn : 0..MaxConns, token : Tokens \cup {"none"}] :
              next = [a EXCEPT !.token = t]
        OBVIOUS
      <4>5. next.step = "delete" /\ next.conn = c /\ next.token = t
        BY <4>3, <4>4
      <4>6. ServerDone(w, h, h.state, next)
        BY <3>1, <4>1, <4>3, <4>4
      <4>7. h.state \in States \ {"Authenticated"}
        BY <1>4, <2>2
      <4>. QED BY <4>2, <4>5, <4>6, <4>7
    <3>2. CASE ServerDone(w, h, "ClientResponseSent", At(w, "success"))
      <4>1. PICK a \in [step : Steps, conn : 0..MaxConns, token : Tokens \cup {"none"}] :
              a = At(w, "success") /\ a.step = "success" /\ a.conn = c /\ a.token = "none"
        BY <1>1, <1>2, <2>2, AtFacts DEF TokenOK
      <4>2. "none" \notin late[c]
        BY ZapAssumption DEF ZapAssumption, TypeOK, TokensTypeOK
      <4>3. ServerDone(w, h, "ClientResponseSent", a)
        BY <3>2, <4>1
      <4>4. "ClientResponseSent" \in States \ {"Authenticated"}
        BY <2>2
      <4>. QED BY <4>1, <4>2, <4>3, <4>4
    <3>. QED BY <1>5, <3>1, <3>2
  <2>4. /\ UNCHANGED <<dialed, accepted, shut, broken, client, userAt, late, alive>>
        /\ server' \in [Workers -> Handshakes] /\ server'[w] = [h EXCEPT !.state = state]
        /\ \A v \in Workers \ {w} : server'[v] = server[v]
        /\ workerAt' \in [Workers -> [step : Steps, conn : 0..MaxConns,
                                      token : Tokens \cup {"none"}]]
        /\ \A v \in Workers \ {w} : workerAt'[v] = workerAt[v]
        /\ workerAt'[w] = next
    BY <2>3, ServerDoneFacts
  <2>5. /\ server'[w].state # "Authenticated" /\ server'[w].clientRandom = c
        /\ server'[w].serverRandom = c /\ server'[w].peerKey = h.peerKey
    BY <1>4, <2>3, <2>4 DEF Handshakes
  <2>6. /\ up' \in [Conns -> Seq(Frames)] /\ up'[c] = <<>> /\ Len(up'[c]) <= 1
        /\ \A d \in Conns \ {c} : up'[d] = up[d]
    BY <1>5, <2>1, ReadUpFacts
  <2>7. /\ down' \in [Conns -> Seq(Frames)] /\ down'[c] = <<>> /\ Len(down'[c]) <= 1
        /\ \A d \in Conns \ {c} : down'[d] = down[d]
    BY <1>5, <2>1 DEF TypeOK, WireTypeOK
  <2>8. PipeOK(c)' /\ FrameTrue(c)'
    BY <2>6, <2>7 DEF PipeOK, FrameTrue, Receives
  <2>9. WorkerOK(w)' /\ ServerTrue(w)' /\ TokenOK(w)'
    <3>1. From(c, h.peerKey)'
      BY <1>4, <2>4 DEF From
    <3>2. WorkerOK(w)'
      BY <1>1, <1>2, <2>3, <2>4, <2>6, <2>7 DEF WorkerOK
    <3>3. ServerTrue(w)'
      BY <1>4, <2>3, <2>4, <2>5, <3>1 DEF ServerTrue
    <3>4. TokenOK(w)'
      BY <2>3, <2>4 DEF TokenOK
    <3>. QED BY <3>2, <3>3, <3>4
  <2>10. TokensTypeOK' /\ SpentInv'
    BY <1>5, <2>4 DEF TokensTypeOK, TypeOK, SpentInv
  <2>11. ASSUME NEW u \in Users, userAt[u].conn = c
         PROVE  UserOK(u)' /\ InStep(userAt[u].step, next.step)
    <3>1. userAt[u].step \in {"idle", "success"} /\ userAt'[u] = userAt[u] /\ UserOK(u)
      <4>1. userAt[u].step \in Steps /\ userAt'[u] = userAt[u]
        BY <2>4 DEF TypeOK, EndsTypeOK
      <4>2. Receives(up[c], "ClientResponse") /\ up[c] # <<>>
        BY <1>5, <2>1
      <4>3. UserOK(u)
        BY <1>1, <2>11
      <4>. QED BY <2>11, <4>1, <4>2, <4>3 DEF UserOK, Steps
    <3>2. up'[userAt'[u].conn] = <<>> /\ down'[userAt'[u].conn] = <<>> /\ accepted' = accepted
      BY <2>4, <2>6, <2>7, <2>11, <3>1
    <3>3. UserOK(u)'
      BY <3>1, <3>2 DEF UserOK, Receives
    <3>. QED BY <2>3, <3>1, <3>3 DEF InStep
  <2>12. StepsInv'
    <3>1. \A u \in Users : userAt[u].conn = c =>
            /\ UserOK(u)'
            /\ workerAt'[w].step # "idle" => InStep(userAt[u].step, workerAt'[w].step)
      BY <2>4, <2>11
    <3>2. workerAt[w].conn = c /\ workerAt'[w].conn = c /\ sessions \subseteq sessions'
      BY <1>1, <1>5, <2>3, <2>4
    <3>. QED BY <2>4, <2>6, <2>7, <2>8, <2>9, <2>10, <3>1, <3>2, WorkerMoves
  <2>13. SessionsInv'
    BY <1>5, <2>4, <2>5, WorkerSessionsStay
  <2>. QED BY <2>12, <2>13
<1>6. CASE ServerFails(w, h)
  <2>1. server'[w] = server[w]
    BY <1>3, <1>6 DEF ServerFails, TypeOK, EndsTypeOK
  <2>. QED BY <1>6, <2>1, ServerFailsStep
<1>. QED BY <1>1, <1>3, <1>5, <1>6 DEF ReceiveClientResponse

LEMMA DeleteTokenStep ==
  ASSUME ZapInv, NEW w \in Workers, DeleteToken(w)
  PROVE  ZapInv'
<1>1. workerAt[w].step = "delete" /\ server[w] \in Handshakes
  BY DEF DeleteToken, TypeOK, EndsTypeOK
<1>2. PICK c \in Conns :
        /\ workerAt[w].conn = c /\ c \in Nat /\ c <= accepted /\ accepted <= dialed
        /\ accepted \in Nat /\ dialed \in Nat
        /\ up[c] \in Seq(Frames) /\ down[c] \in Seq(Frames)
        /\ Len(up[c]) <= 1 /\ Len(down[c]) <= 1
        /\ PipeOK(c) /\ FrameTrue(c) /\ WorkerOK(w) /\ ServerTrue(w) /\ TokenOK(w)
        /\ \A u \in Users : userAt[u].conn = c =>
             UserOK(u) /\ InStep(userAt[u].step, workerAt[w].step)
  BY <1>1, WorkerOn
<1>3. PICK h \in Handshakes : h = server[w]
  BY <1>1
<1>4. /\ h.clientRandom = c /\ h.serverRandom = c
      /\ h.peerKey \in Users \cup {""} /\ From(c, h.peerKey)
      /\ up[c] = <<>> /\ down[c] = <<>>
  BY <1>1, <1>2, <1>3 DEF ServerTrue, WorkerOK
<1>5. PICK t \in Tokens : workerAt[w].token = t /\ t \notin late[c]
  BY <1>1, <1>2 DEF TokenOK
<1>6. /\ tokens' = tokens \ {t} /\ spent' = spent \cup {[token |-> t, conn |-> c]}
      /\ ServerDone(w, h, "ClientResponseSent", At(w, "success"))
      /\ up' = up /\ down' = down /\ sessions' = sessions
  BY <1>2, <1>3, <1>5 DEF DeleteToken
<1>7. "ClientResponseSent" \in States /\ "success" \in Steps
  BY DEF States, Steps
<1>8. PICK next \in [step : Steps, conn : 0..MaxConns, token : Tokens \cup {"none"}] :
        next = At(w, "success") /\ next.step = "success" /\ next.conn = c /\ next.token = t
  BY <1>2, <1>5, <1>7, AtFacts
<1>9. ServerDone(w, h, "ClientResponseSent", next)
  BY <1>6, <1>8
<1>10. /\ UNCHANGED <<dialed, accepted, shut, broken, client, userAt, late, alive>>
       /\ server' \in [Workers -> Handshakes]
       /\ server'[w] = [h EXCEPT !.state = "ClientResponseSent"]
       /\ \A v \in Workers \ {w} : server'[v] = server[v]
       /\ workerAt' \in [Workers -> [step : Steps, conn : 0..MaxConns,
                                     token : Tokens \cup {"none"}]]
       /\ \A v \in Workers \ {w} : workerAt'[v] = workerAt[v]
       /\ workerAt'[w] = next
  BY <1>7, <1>9, ServerDoneFacts
<1>11. /\ server'[w].state = "ClientResponseSent" /\ server'[w].clientRandom = c
       /\ server'[w].serverRandom = c /\ server'[w].peerKey = h.peerKey
  BY <1>4, <1>10 DEF Handshakes
<1>12. /\ up' \in [Conns -> Seq(Frames)] /\ Len(up'[c]) <= 1
       /\ down' \in [Conns -> Seq(Frames)] /\ Len(down'[c]) <= 1
       /\ \A d \in Conns \ {c} : up'[d] = up[d] /\ down'[d] = down[d]
       /\ up'[c] = <<>> /\ down'[c] = <<>>
  BY <1>4, <1>6 DEF TypeOK, WireTypeOK
<1>13. PipeOK(c)' /\ FrameTrue(c)'
  BY <1>12 DEF PipeOK, FrameTrue, Receives
<1>14. WorkerOK(w)' /\ ServerTrue(w)' /\ TokenOK(w)'
  <2>1. From(c, h.peerKey)'
    BY <1>4, <1>10 DEF From
  <2>2. WorkerOK(w)'
    BY <1>1, <1>2, <1>8, <1>10, <1>12 DEF WorkerOK
  <2>3. ServerTrue(w)'
    BY <1>4, <1>8, <1>10, <1>11, <2>1 DEF ServerTrue
  <2>4. TokenOK(w)'
    BY <1>5, <1>8, <1>10 DEF TokenOK
  <2>. QED BY <2>2, <2>3, <2>4
<1>15. TokensTypeOK'
  BY <1>6, <1>10 DEF TokensTypeOK, TypeOK
<1>16. SpentInv'
  <2>1. \A p \in spent' : p \in spent \/ p.token = t
    BY <1>6
  <2>2. \A p \in spent' : p.token \notin tokens'
    BY <1>6, <2>1 DEF SpentInv
  <2>3. \A d \in Conns : late'[d] \subseteq {p.token : p \in spent'}
    BY <1>6, <1>10 DEF SpentInv
  <2>. QED BY <2>2, <2>3 DEF SpentInv
<1>17. ASSUME NEW u \in Users, userAt[u].conn = c
       PROVE  UserOK(u)' /\ InStep(userAt[u].step, "success")
  <2>1. userAt[u].step \in {"idle", "success"} /\ userAt'[u] = userAt[u] /\ UserOK(u)
    <3>1. userAt[u].step \in Steps /\ userAt'[u] = userAt[u]
      BY <1>10 DEF TypeOK, EndsTypeOK
    <3>2. UserOK(u) /\ InStep(userAt[u].step, "delete")
      BY <1>1, <1>2, <1>17
    <3>3. userAt[u].step \notin {"hello", "challenge", "response"}
      BY <3>2 DEF InStep
    <3>4. userAt[u].step # "delete"
      BY <3>2 DEF UserOK
    <3>. QED BY <3>1, <3>2, <3>3, <3>4 DEF Steps
  <2>2. up'[userAt'[u].conn] = <<>> /\ down'[userAt'[u].conn] = <<>> /\ accepted' = accepted
    BY <1>10, <1>12, <1>17, <2>1
  <2>3. UserOK(u)'
    BY <2>1, <2>2 DEF UserOK, Receives
  <2>. QED BY <2>1, <2>3 DEF InStep
<1>18. StepsInv'
  <2>1. \A u \in Users : userAt[u].conn = c =>
          /\ UserOK(u)'
          /\ workerAt'[w].step # "idle" => InStep(userAt[u].step, workerAt'[w].step)
    BY <1>8, <1>10, <1>17
  <2>2. workerAt[w].conn = c /\ workerAt'[w].conn = c /\ sessions \subseteq sessions'
    BY <1>2, <1>6, <1>8, <1>10
  <2>. QED BY <1>10, <1>12, <1>13, <1>14, <1>15, <1>16, <2>1, <2>2, WorkerMoves
<1>19. SessionsInv'
  BY <1>6, <1>10, <1>11, WorkerSessionsStay
<1>. QED BY <1>18, <1>19

\* The session is made from what was said on this connection, and so is the one
\* the user will make of the announcement.
LEMMA SendServerSuccessStep ==
  ASSUME ZapInv, NEW w \in Workers, SendServerSuccess(w)
  PROVE  ZapInv'
<1>1. workerAt[w].step = "success" /\ server[w] \in Handshakes
  BY DEF SendServerSuccess, TypeOK, EndsTypeOK
<1>2. PICK c \in Conns :
        /\ workerAt[w].conn = c /\ c \in Nat /\ c <= accepted /\ accepted <= dialed
        /\ accepted \in Nat /\ dialed \in Nat
        /\ up[c] \in Seq(Frames) /\ down[c] \in Seq(Frames)
        /\ Len(up[c]) <= 1 /\ Len(down[c]) <= 1
        /\ PipeOK(c) /\ FrameTrue(c) /\ WorkerOK(w) /\ ServerTrue(w) /\ TokenOK(w)
        /\ \A u \in Users : userAt[u].conn = c =>
             UserOK(u) /\ InStep(userAt[u].step, workerAt[w].step)
  BY <1>1, WorkerOn
<1>. DEFINE g == [server[w] EXCEPT !.id = c]
            h == [g EXCEPT !.key = SessionKey(g, "server")]
<1>3. /\ server[w].clientRandom = c /\ server[w].serverRandom = c
      /\ server[w].state # "Authenticated" /\ server[w].peerKey \in Users \cup {""}
      /\ From(c, server[w].peerKey) /\ up[c] = <<>> /\ down[c] = <<>>
      /\ workerAt[w].token \notin late[c]
  BY <1>1, <1>2 DEF ServerTrue, WorkerOK, TokenOK
<1>4. /\ g \in Handshakes /\ g.state = server[w].state /\ g.peerKey = server[w].peerKey
      /\ g.clientRandom = c /\ g.serverRandom = c /\ g.id = c
  BY <1>1, <1>3 DEF Handshakes
<1>5. ASSUME CanDerive(g, ServerKey)
      PROVE  \E k \in Conns \X Conns \X {{v, "server"} : v \in Users} :
               /\ SessionKey(g, "server") = k /\ k[1] = c
               /\ \A u \in Users : userAt[u].conn = c => k = SharedKey(c, u)
  <2>1. PICK v \in Users : server[w].peerKey = v
    BY <1>3, <1>4, <1>5 DEF CanDerive
  <2>2. PICK k \in Conns \X Conns \X {{x, "server"} : x \in Users} : k = <<c, c, {v, "server"}>>
    OBVIOUS
  <2>3. SessionKey(g, "server") = <<c, c, {"server", v}>> /\ {"server", v} = {v, "server"}
    BY <1>4, <2>1 DEF SessionKey
  <2>4. \A u \in Users : userAt[u].conn = c => UserKey(u) = v
    BY <1>3, <2>1 DEF From
  <2>5. \A u \in Users : userAt[u].conn = c => k = SharedKey(c, u)
    BY <2>2, <2>3, <2>4 DEF SharedKey
  <2>. QED BY <2>2, <2>3, <2>5
<1>6. ASSUME CanDerive(g, ServerKey)
      PROVE  \E hs \in Handshakes :
               /\ hs = h /\ hs.id = c /\ hs.state # "Authenticated" /\ hs.key[1] = c
               /\ \A u \in Users : userAt[u].conn = c => hs.key = SharedKey(c, u)
  <2>1. PICK k \in Conns \X Conns \X {{v, "server"} : v \in Users} :
               /\ SessionKey(g, "server") = k /\ k[1] = c
               /\ \A u \in Users : userAt[u].conn = c => k = SharedKey(c, u)
    BY <1>5, <1>6
  <2>2. PICK gs \in Handshakes : gs = g /\ gs.id = c /\ gs.state # "Authenticated"
    BY <1>3, <1>4
  <2>3. PICK hs : hs = [gs EXCEPT !.key = k]
    OBVIOUS
  <2>4. hs \in Handshakes /\ hs.id = c /\ hs.key = k /\ hs.state # "Authenticated"
    BY <2>2, <2>3 DEF Handshakes
  <2>5. hs = h
    BY <2>1, <2>2, <2>3
  <2>. HIDE DEF g, h
  <2>. QED BY <2>1, <2>4, <2>5
<1>7. CASE /\ CanDerive(g, ServerKey) /\ WriteDown(c, ServerSuccess(c))
           /\ sessions' = sessions \cup {Session("server", w, c, h, workerAt[w].token)}
           /\ ServerDone(w, h, "Authenticated", At(w, "idle"))
           /\ UNCHANGED <<up, tokens, spent>>
  <2>1. PICK hs \in Handshakes :
               /\ hs = h /\ hs.id = c /\ hs.key[1] = c
               /\ \A u \in Users : userAt[u].conn = c => hs.key = SharedKey(c, u)
    BY <1>6, <1>7
  <2>2. PICK s : /\ s = Session("server", w, c, hs, workerAt[w].token)
                 /\ sessions' = sessions \cup {s}
    BY <1>7, <2>1
  <2>3. "Authenticated" \in States /\ "idle" \in Steps
    BY DEF States, Steps
  <2>4. PICK next \in [step : Steps, conn : 0..MaxConns, token : Tokens \cup {"none"}] :
          next = At(w, "idle") /\ next.step = "idle" /\ next.conn = c
    BY <1>2, <2>3, AtFacts
  <2>5. ServerDone(w, hs, "Authenticated", next)
    BY <1>7, <2>1, <2>4
  <2>6. PICK f \in Frames : f = ServerSuccess(c) /\ f.type = "ServerSuccess" /\ f.id = c
    BY FrameTypes DEF ServerSuccess
  <2>7. WriteDown(c, f) /\ UNCHANGED <<up, tokens, spent>>
    BY <1>7, <2>6
  <2>. HIDE DEF g, h
  <2>8. s.end = "server" /\ s.who = w /\ s.conn = c /\ s.id = c /\ s.key = hs.key
        /\ s.token = workerAt[w].token
    BY <2>1, <2>2 DEF Session
  <2>9. /\ UNCHANGED <<dialed, accepted, shut, broken, client, userAt, late, alive>>
        /\ server' \in [Workers -> Handshakes] /\ server'[w] = [hs EXCEPT !.state = "Authenticated"]
        /\ \A v \in Workers \ {w} : server'[v] = server[v]
        /\ workerAt' \in [Workers -> [step : Steps, conn : 0..MaxConns,
                                      token : Tokens \cup {"none"}]]
        /\ \A v \in Workers \ {w} : workerAt'[v] = workerAt[v]
        /\ workerAt'[w] = next
    BY <2>3, <2>5, ServerDoneFacts
  <2>10. server'[w].id = c /\ server'[w].key = hs.key
    BY <2>1, <2>9 DEF Handshakes
  <2>11. /\ down' \in [Conns -> Seq(Frames)] /\ Len(down'[c]) <= 1
         /\ \A d \in Conns \ {c} : down'[d] = down[d]
         /\ down'[c] # <<>> => Head(down'[c]) = f
    BY <1>3, <2>7, WriteDownFacts
  <2>12. /\ up' \in [Conns -> Seq(Frames)] /\ up'[c] = <<>> /\ Len(up'[c]) <= 1
         /\ \A d \in Conns \ {c} : up'[d] = up[d]
    BY <1>3, <2>7 DEF TypeOK, WireTypeOK
  <2>13. PipeOK(c)'
    BY <1>2, <2>6, <2>9, <2>11, <2>12 DEF PipeOK, Receives
  <2>14. FrameTrue(c)'
    <3>1. s \in sessions' /\ \A u \in Users : userAt'[u].conn = c => s.key = SharedKey(c, u)
      BY <2>1, <2>2, <2>8, <2>9
    <3>2. Announced(c)'
      BY <2>8, <3>1 DEF Announced
    <3>. QED BY <2>6, <2>11, <2>12, <3>2 DEF FrameTrue, Receives
  <2>15. WorkerOK(w)' /\ ServerTrue(w)' /\ TokenOK(w)'
    BY <2>4, <2>9 DEF WorkerOK, ServerTrue, TokenOK
  <2>16. TokensTypeOK' /\ SpentInv'
    BY <2>7, <2>9 DEF TokensTypeOK, TypeOK, SpentInv
  <2>17. ASSUME NEW u \in Users, userAt[u].conn = c
         PROVE  UserOK(u)'
    <3>1. userAt[u].step \in {"idle", "success"} /\ userAt'[u] = userAt[u] /\ UserOK(u)
      BY <1>1, <1>2, <2>9, <2>17 DEF InStep, UserOK, TypeOK, EndsTypeOK, Steps
    <3>. QED BY <1>2, <2>6, <2>9, <2>11, <2>12, <2>17, <3>1 DEF UserOK, Receives
  <2>18. StepsInv'
    <3>1. \A u \in Users : userAt[u].conn = c =>
            /\ UserOK(u)'
            /\ workerAt'[w].step # "idle" => InStep(userAt[u].step, workerAt'[w].step)
      BY <2>4, <2>9, <2>17
    <3>2. workerAt[w].conn = c /\ workerAt'[w].conn = c /\ sessions \subseteq sessions'
      BY <1>2, <2>2, <2>4, <2>9
    <3>. QED BY <2>9, <2>11, <2>12, <2>13, <2>14, <2>15, <2>16, <3>1, <3>2, WorkerMoves
  <2>19. \A t \in sessions' : SessionTrue(t)'
    BY <1>2, <2>1, <2>2, <2>8, <2>9 DEF SessionTrue
  <2>20. ClientSessionIsShared'
    BY <2>2, <2>8 DEF ClientSessionIsShared
  <2>21. AuthenticatedIsASession'
    <3>1. ASSUME NEW v \in Workers, server'[v].state = "Authenticated"
          PROVE  \E t \in sessions' : t.who = v /\ t.id = server'[v].id /\ t.key = server'[v].key
      <4>1. CASE v = w
        <5>1. s \in sessions' /\ s.who = v /\ s.id = server'[v].id /\ s.key = server'[v].key
          BY <2>2, <2>8, <2>10, <4>1
        <5>. QED BY <5>1
      <4>2. CASE v # w
        <5>1. server'[v] = server[v]
          BY <2>9, <4>2
        <5>. QED BY <2>2, <3>1, <5>1 DEF AuthenticatedIsASession
      <4>. QED BY <4>1, <4>2
    <3>2. \A u \in Users : client'[u].state = "Authenticated" =>
            \E t \in sessions' : t.who = u /\ t.id = client'[u].id /\ t.key = client'[u].key
      BY <2>2, <2>9 DEF AuthenticatedIsASession
    <3>. QED BY <3>1, <3>2 DEF AuthenticatedIsASession
  <2>22. SpentTokenIsDead'
    BY <1>3, <2>2, <2>8, <2>9 DEF SpentTokenIsDead
  <2>. QED BY <2>18, <2>19, <2>20, <2>21, <2>22
<1>8. CASE CanDerive(g, ServerKey) /\ ServerFails(w, h)
  <2>1. PICK hs \in Handshakes : hs = h /\ hs.state # "Authenticated"
    BY <1>6, <1>8
  <2>2. ServerFails(w, hs)
    BY <1>8, <2>1
  <2>3. server'[w] = hs
    BY <2>2 DEF ServerFails, TypeOK, EndsTypeOK
  <2>. QED BY <2>1, <2>2, <2>3, ServerFailsStep
<1>9. CASE ServerFails(w, g)
  <2>1. server'[w] = g
    BY <1>9 DEF ServerFails, TypeOK, EndsTypeOK
  <2>. QED BY <1>3, <1>4, <1>9, <2>1, ServerFailsStep
<1>. QED BY <1>2, <1>7, <1>8, <1>9 DEF SendServerSuccess

----------------------------------------------------------------------------
(* New connections. *)

\* An object that is used again is as it was or reset.
LEMMA ReusedFacts ==
  ASSUME NEW g \in Handshakes, NEW h \in Reusable(g)
  PROVE  /\ h \in Handshakes
         /\ h.state = "Authenticated" => g.state = "Authenticated" /\ h.id = g.id /\ h.key = g.key
<1>1. CASE h = g
  BY <1>1
<1>2. CASE h = Reset(g)
  <2>1. h = [Fresh EXCEPT !.method = g.method] /\ g.method \in Methods
    BY <1>2 DEF Reset, Handshakes
  <2>2. Fresh \in Handshakes
    BY DEF Fresh, Handshakes, States, Methods, None
  <2>3. h \in Handshakes /\ h.state = "Idle"
    BY <2>1, <2>2 DEF Handshakes, Fresh
  <2>. QED BY <2>3
<1>. QED BY <1>1, <1>2 DEF Reusable

LEMMA DialStep ==
  ASSUME ZapInv, NEW u \in Users, Dial(u)
  PROVE  ZapInv'
<1>1. PICK h \in Reusable(client[u]) : client' = [client EXCEPT ![u] = h]
  BY DEF Dial
<1>2. PICK c \in Conns : /\ c = dialed + 1 /\ c \in Nat /\ dialed \in Nat /\ dialed' = c
                         /\ accepted \in Nat /\ accepted <= dialed
  BY ZapAssumption DEF ZapAssumption, Dial, TypeOK, WireTypeOK, Conns
<1>3. /\ userAt' = [userAt EXCEPT ![u] = [step |-> "hello", conn |-> c]]
      /\ UNCHANGED <<accepted, up, down, shut, broken, server, workerAt, tokens, spent, late,
                     alive, sessions>>
  BY <1>2 DEF Dial, servers
<1>4. /\ h \in Handshakes
      /\ h.state = "Authenticated" =>
           client[u].state = "Authenticated" /\ h.id = client[u].id /\ h.key = client[u].key
  BY ReusedFacts DEF TypeOK, EndsTypeOK
<1>5. /\ client' \in [Users -> Handshakes] /\ client'[u] = h
      /\ \A v \in Users \ {u} : client'[v] = client[v]
  BY <1>1, <1>4 DEF TypeOK, EndsTypeOK
<1>6. [step |-> "hello", conn |-> c] \in [step : Steps, conn : 0..MaxConns]
  BY <1>2 DEF Steps, Conns
<1>7. /\ userAt' \in [Users -> [step : Steps, conn : 0..MaxConns]]
      /\ userAt'[u].step = "hello" /\ userAt'[u].conn = c
      /\ \A v \in Users \ {u} : userAt'[v] = userAt[v]
  BY <1>3, <1>6 DEF TypeOK, EndsTypeOK
<1>8. /\ \A v \in Users : userAt[v].conn \in Nat /\ userAt[v].conn < c
      /\ \A w \in Workers : workerAt[w].conn \in Nat /\ workerAt[w].conn < c
  BY <1>2 DEF TypeOK, EndsTypeOK
<1>9. up[c] = <<>> /\ down[c] = <<>>
  BY <1>2 DEF PipesInv, PipeOK
<1>10. TypeOK'
  <2>1. WireTypeOK'
    BY <1>2, <1>3 DEF TypeOK, WireTypeOK, Conns
  <2>2. EndsTypeOK'
    BY <1>2, <1>3, <1>5, <1>7, <1>8 DEF TypeOK, EndsTypeOK
  <2>3. TokensTypeOK'
    BY <1>3 DEF TypeOK, TokensTypeOK
  <2>. QED BY <2>1, <2>2, <2>3 DEF TypeOK
<1>11. PipesInv'
  <2>1. ASSUME NEW d \in Conns
        PROVE  PipeOK(d)'
    BY <1>2, <1>3 DEF PipesInv, PipeOK, Receives, Conns
  <2>2. ASSUME NEW d \in Conns
        PROVE  FrameTrue(d)'
    <3>1. CASE d = c
      BY <1>3, <1>9, <3>1 DEF FrameTrue, Receives
    <3>2. CASE d # c
      <4>1. \A v \in Users : userAt'[v].conn = d => userAt[v].conn = d
        BY <1>7, <3>2
      <4>. QED BY <1>3, <4>1, FrameStays DEF PipesInv
    <3>. QED BY <3>1, <3>2
  <2>. QED BY <2>1, <2>2 DEF PipesInv
<1>12. UsersInv'
  <2>1. UserOK(u)' /\ ClientTrue(u)'
    BY <1>2, <1>3, <1>7, <1>9 DEF UserOK, ClientTrue, None
  <2>2. ASSUME NEW v \in Users, v # u
        PROVE  UserOK(v)' /\ ClientTrue(v)'
    <3>1. userAt'[v] = userAt[v] /\ client'[v] = client[v] /\ UserOK(v) /\ ClientTrue(v)
      BY <1>5, <1>7, <2>2 DEF UsersInv
    <3>. QED BY <1>3, <3>1 DEF UserOK, ClientTrue, Receives
  <2>. QED BY <2>1, <2>2 DEF UsersInv
<1>13. WorkersInv'
  <2>1. ASSUME NEW w \in Workers
        PROVE  WorkerOK(w)' /\ ServerTrue(w)' /\ TokenOK(w)'
    <3>1. WorkerOK(w) /\ ServerTrue(w) /\ TokenOK(w)
      BY DEF WorkersInv
    <3>2. WorkerOK(w)' /\ TokenOK(w)'
      BY <1>3, <3>1 DEF WorkerOK, TokenOK, Receives
    <3>3. \A v \in Users : userAt'[v].conn = workerAt[w].conn => userAt[v].conn = workerAt[w].conn
      BY <1>7, <1>8
    <3>4. ServerTrue(w)'
      BY <1>3, <3>1, <3>3, ServerStays
    <3>. QED BY <3>2, <3>4
  <2>. QED BY <2>1 DEF WorkersInv
<1>14. PairsInv'
  <2>1. ASSUME NEW v \in Users, NEW w \in Workers, userAt'[v].conn = workerAt[w].conn,
               workerAt[w].step # "idle"
        PROVE  InStep(userAt'[v].step, workerAt[w].step)
    <3>1. v # u
      BY <1>7, <1>8, <2>1
    <3>. QED BY <1>7, <2>1, <3>1 DEF PairsInv
  <2>. QED BY <1>3, <2>1 DEF PairsInv, InStep
<1>15. Apart'
  <2>1. ASSUME NEW v \in Users, NEW x \in Users,
               userAt'[v].conn = userAt'[x].conn, userAt'[v].conn # None
        PROVE  v = x
    <3>1. CASE v = u \/ x = u
      BY <1>7, <1>8, <2>1, <3>1
    <3>2. CASE v # u /\ x # u
      BY <1>7, <2>1, <3>2 DEF Apart
    <3>. QED BY <3>1, <3>2
  <2>2. ASSUME NEW v \in Workers, NEW w \in Workers,
               workerAt'[v].conn = workerAt'[w].conn, workerAt'[v].conn # None
        PROVE  v = w
    BY <1>3, <2>2 DEF Apart
  <2>. QED BY <2>1, <2>2 DEF Apart
<1>16. SpentInv'
  BY <1>3 DEF SpentInv
<1>17. SessionsInv'
  <2>1. \A v \in Users : client'[v].state = "Authenticated" =>
          /\ client[v].state = "Authenticated"
          /\ client'[v].id = client[v].id /\ client'[v].key = client[v].key
    BY <1>4, <1>5
  <2>. QED BY <1>2, <1>3, <2>1, SessionsStay
<1>. QED BY <1>10, <1>11, <1>12, <1>13, <1>14, <1>15, <1>16, <1>17

LEMMA AcceptStep ==
  ASSUME ZapInv, NEW w \in Workers, Accept(w)
  PROVE  ZapInv'
<1>1. PICK h \in Reusable(server[w]) : server' = [server EXCEPT ![w] = h]
  BY DEF Accept
<1>2. PICK c \in Conns : /\ c = accepted + 1 /\ c \in Nat /\ accepted' = c /\ accepted \in Nat
                         /\ dialed \in Nat /\ c <= dialed
  BY ZapAssumption DEF ZapAssumption, Accept, TypeOK, WireTypeOK, Conns
<1>3. /\ workerAt' = [workerAt EXCEPT ![w] = [step |-> "hello", conn |-> c, token |-> "none"]]
      /\ late' = [late EXCEPT ![c] = {p.token : p \in spent}]
      /\ UNCHANGED <<dialed, up, down, shut, broken, client, userAt, tokens, spent, alive, sessions>>
  BY <1>2 DEF Accept, clients
<1>4. /\ h \in Handshakes
      /\ h.state = "Authenticated" =>
           server[w].state = "Authenticated" /\ h.id = server[w].id /\ h.key = server[w].key
  BY ReusedFacts DEF TypeOK, EndsTypeOK
<1>5. /\ server' \in [Workers -> Handshakes] /\ server'[w] = h
      /\ \A v \in Workers \ {w} : server'[v] = server[v]
  BY <1>1, <1>4 DEF TypeOK, EndsTypeOK
<1>6. [step |-> "hello", conn |-> c, token |-> "none"]
        \in [step : Steps, conn : 0..MaxConns, token : Tokens \cup {"none"}]
  BY <1>2 DEF Steps, Conns
<1>7. /\ workerAt' \in [Workers -> [step : Steps, conn : 0..MaxConns, token : Tokens \cup {"none"}]]
      /\ workerAt'[w].step = "hello" /\ workerAt'[w].conn = c /\ workerAt'[w].token = "none"
      /\ \A v \in Workers \ {w} : workerAt'[v] = workerAt[v]
  BY <1>3, <1>6 DEF TypeOK, EndsTypeOK
<1>8. \A v \in Workers : workerAt[v].conn \in Nat /\ workerAt[v].conn < c
  BY <1>2 DEF TypeOK, EndsTypeOK
<1>9. down[c] = <<>> /\ ~Receives(up[c], "ClientResponse")
  BY <1>2 DEF PipesInv, PipeOK
<1>10. {p.token : p \in spent} \subseteq Tokens
  BY DEF TypeOK, TokensTypeOK
<1>11. /\ late' \in [Conns -> SUBSET Tokens] /\ late'[c] = {p.token : p \in spent}
       /\ \A d \in Conns \ {c} : late'[d] = late[d]
  BY <1>3, <1>10 DEF TypeOK, TokensTypeOK
<1>12. TypeOK'
  <2>1. WireTypeOK'
    BY <1>2, <1>3 DEF TypeOK, WireTypeOK
  <2>2. EndsTypeOK'
    <3>1. \A v \in Workers : workerAt'[v].conn <= c
      BY <1>2, <1>7, <1>8
    <3>. QED BY <1>2, <1>3, <1>5, <1>7, <3>1 DEF TypeOK, EndsTypeOK
  <2>3. TokensTypeOK'
    BY <1>3, <1>11 DEF TypeOK, TokensTypeOK
  <2>. QED BY <2>1, <2>2, <2>3 DEF TypeOK
<1>13. PipesInv'
  <2>1. ASSUME NEW d \in Conns
        PROVE  PipeOK(d)'
    BY <1>2, <1>3 DEF PipesInv, PipeOK, Receives, Conns
  <2>2. ASSUME NEW d \in Conns
        PROVE  FrameTrue(d)'
    <3>1. \A u \in Users : userAt'[u].conn = d => userAt[u].conn = d
      BY <1>3
    <3>. QED BY <1>3, <3>1, FrameStays DEF PipesInv
  <2>. QED BY <2>1, <2>2 DEF PipesInv
<1>14. UsersInv'
  <2>1. ASSUME NEW u \in Users
        PROVE  UserOK(u)' /\ ClientTrue(u)'
    <3>1. UserOK(u) /\ ClientTrue(u) /\ userAt'[u] = userAt[u] /\ client'[u] = client[u]
      BY <1>3 DEF UsersInv
    <3>2. userAt[u].conn \in Nat
      BY DEF TypeOK, EndsTypeOK
    <3>. QED BY <1>2, <1>3, <3>1, <3>2 DEF UserOK, ClientTrue, Receives
  <2>. QED BY <2>1 DEF UsersInv
<1>15. WorkersInv'
  <2>1. WorkerOK(w)' /\ ServerTrue(w)' /\ TokenOK(w)'
    BY <1>2, <1>3, <1>7, <1>9 DEF WorkerOK, ServerTrue, TokenOK, None, Receives
  <2>2. ASSUME NEW v \in Workers, v # w
        PROVE  WorkerOK(v)' /\ ServerTrue(v)' /\ TokenOK(v)'
    <3>1. /\ workerAt'[v] = workerAt[v] /\ server'[v] = server[v]
          /\ WorkerOK(v) /\ ServerTrue(v) /\ TokenOK(v)
      BY <1>5, <1>7, <2>2 DEF WorkersInv
    <3>2. WorkerOK(v)'
      BY <1>3, <3>1 DEF WorkerOK, Receives
    <3>3. ServerTrue(v)'
      BY <1>3, <3>1, ServerStays
    <3>4. TokenOK(v)'
      <4>1. CASE workerAt[v].step = "idle"
        BY <3>1, <4>1 DEF TokenOK
      <4>2. CASE workerAt[v].step # "idle"
        <5>1. workerAt[v].conn \in Conns \ {c}
          BY <1>8, <3>1, <4>2 DEF WorkerOK, TypeOK, EndsTypeOK, Conns, None
        <5>. QED BY <1>11, <3>1, <5>1 DEF TokenOK
      <4>. QED BY <4>1, <4>2
    <3>. QED BY <3>2, <3>3, <3>4
  <2>. QED BY <2>1, <2>2 DEF WorkersInv
<1>16. PairsInv'
  <2>1. ASSUME NEW u \in Users, NEW v \in Workers, userAt[u].conn = workerAt'[v].conn,
               workerAt'[v].step # "idle"
        PROVE  InStep(userAt[u].step, workerAt'[v].step)
    <3>1. CASE v = w
      <4>1. userAt[u].step \notin {"response", "success"}
        BY <1>2, <1>7, <2>1, <3>1 DEF UsersInv, UserOK
      <4>. QED BY <1>7, <3>1, <4>1 DEF InStep
    <3>2. CASE v # w
      BY <1>7, <2>1, <3>2 DEF PairsInv
    <3>. QED BY <3>1, <3>2
  <2>. QED BY <1>3, <2>1 DEF PairsInv, InStep
<1>17. Apart'
  <2>1. ASSUME NEW v \in Workers, NEW x \in Workers,
               workerAt'[v].conn = workerAt'[x].conn, workerAt'[v].conn # None
        PROVE  v = x
    <3>1. CASE v = w \/ x = w
      BY <1>7, <1>8, <2>1, <3>1
    <3>2. CASE v # w /\ x # w
      BY <1>7, <2>1, <3>2 DEF Apart
    <3>. QED BY <3>1, <3>2
  <2>2. ASSUME NEW u \in Users, NEW v \in Users,
               userAt'[u].conn = userAt'[v].conn, userAt'[u].conn # None
        PROVE  u = v
    BY <1>3, <2>2 DEF Apart
  <2>. QED BY <2>1, <2>2 DEF Apart
<1>18. SpentInv'
  <2>1. ASSUME NEW d \in Conns
        PROVE  late'[d] \subseteq {p.token : p \in spent}
    BY <1>11 DEF SpentInv
  <2>. QED BY <1>3, <2>1 DEF SpentInv
<1>19. SessionsInv'
  <2>1. \A s \in sessions : SessionTrue(s)'
    BY <1>2 DEF SessionTrue, Conns
  <2>2. ClientSessionIsShared'
    BY <1>3 DEF ClientSessionIsShared
  <2>3. AuthenticatedIsASession'
    <3>1. \A v \in Workers : server'[v].state = "Authenticated" =>
            /\ server[v].state = "Authenticated"
            /\ server'[v].id = server[v].id /\ server'[v].key = server[v].key
      BY <1>4, <1>5
    <3>. QED BY <1>3, <3>1 DEF AuthenticatedIsASession
  <2>4. SpentTokenIsDead'
    <3>1. ASSUME NEW s \in sessions, s.end = "server"
          PROVE  s.token \notin late'[s.conn]
      <4>1. s.conn \in Conns \ {c}
        BY <1>2, <3>1 DEF SessionTrue
      <4>. QED BY <1>11, <3>1, <4>1 DEF SpentTokenIsDead
    <3>. QED BY <1>3, <3>1 DEF SpentTokenIsDead
  <2>. QED BY <1>3, <2>1, <2>2, <2>3, <2>4
<1>. QED BY <1>12, <1>13, <1>14, <1>15, <1>16, <1>17, <1>18, <1>19

----------------------------------------------------------------------------
(* The specification. *)

LEMMA ZapInit == Init => ZapInv
<1>. SUFFICES ASSUME Init PROVE ZapInv
  OBVIOUS
<1>1. Fresh \in Handshakes /\ Fresh.state = "Idle"
  BY DEF Fresh, Handshakes, States, Methods, None
<1>2. /\ \A u \in Users : userAt[u].step = "idle" /\ userAt[u].conn = None
      /\ \A w \in Workers : workerAt[w].step = "idle" /\ workerAt[w].conn = None
      /\ \A c \in Conns : up[c] = <<>> /\ down[c] = <<>>
  BY DEF Init
<1>3. TypeOK
  <2>1. MaxConns \in Nat /\ <<>> \in Seq(Frames) /\ Len(<<>>) = 0
    BY ZapAssumption DEF ZapAssumption
  <2>2. WireTypeOK
    BY <1>2, <2>1 DEF Init, WireTypeOK
  <2>3. EndsTypeOK
    BY <1>1, <2>1 DEF Init, EndsTypeOK, Steps, None
  <2>4. TokensTypeOK
    BY DEF Init, TokensTypeOK
  <2>. QED BY <2>2, <2>3, <2>4 DEF TypeOK
<1>4. PipesInv
  BY <1>2 DEF PipesInv, PipeOK, FrameTrue, Receives
<1>5. UsersInv
  BY <1>2 DEF UsersInv, UserOK, ClientTrue
<1>6. WorkersInv
  BY <1>2 DEF WorkersInv, WorkerOK, ServerTrue, TokenOK
<1>7. PairsInv /\ Apart
  BY <1>2 DEF PairsInv, Apart
<1>8. SpentInv
  BY DEF Init, SpentInv
<1>9. SessionsInv
  BY <1>1 DEF Init, ClientSessionIsShared, AuthenticatedIsASession, SpentTokenIsDead
<1>. QED BY <1>3, <1>4, <1>5, <1>6, <1>7, <1>8, <1>9

LEMMA ZapStutter ==
  ASSUME ZapInv, UNCHANGED vars
  PROVE  ZapInv'
<1>1. UNCHANGED <<dialed, accepted, up, down, shut, broken, client, userAt, server, workerAt,
                  tokens, spent, late, alive, sessions>>
  BY DEF vars, wire, clients, servers
<1>. QED BY <1>1, FailuresStep DEF TypeOK, WireTypeOK, EndsTypeOK, TokensTypeOK

LEMMA ZapStep == ZapInv /\ [Next]_vars => ZapInv'
<1>. SUFFICES ASSUME ZapInv, [Next]_vars PROVE ZapInv'
  OBVIOUS
<1>1. CASE \E u \in Users : Dial(u) \/ UserStep(u)
  BY <1>1, DialStep, SendClientHelloStep, ReceiveServerChallengeStep, SendClientResponseStep,
     ReceiveServerSuccessStep DEF UserStep
<1>2. CASE \E w \in Workers : WorkerStep(w)
  BY <1>2, AcceptStep, ReceiveClientHelloStep, SendServerChallengeStep,
     ReceiveClientResponseStep, DeleteTokenStep, SendServerSuccessStep DEF WorkerStep
<1>3. CASE ConcurrentMapAccess
  BY <1>3, ConcurrentMapAccessStep
<1>4. CASE \E c \in Conns : Break(c)
  BY <1>4, BreakStep
<1>5. CASE UNCHANGED vars
  BY <1>5, ZapStutter
<1>. QED BY <1>1, <1>2, <1>3, <1>4, <1>5 DEF Next

\* Whatever the handshakes of any number of clients and workers do, in any order
\* and with connections that break: a client that has a session shares it with
\* the server, no identifier or key comes twice on a side, and what State reports
\* as authenticated is a session that was returned.
THEOREM SessionsAlwaysAgree == Spec => []SessionsAgree
<1>1. ZapInv => SessionsAgree
  <2>1. ASSUME ZapInv PROVE SessionsAreFresh
    BY <2>1 DEF SessionsAreFresh, SessionTrue
  <2>. QED BY <2>1 DEF SessionsAgree
<1>. QED BY <1>1, ZapInit, ZapStep, PTL DEF Spec

\* A one-time token authenticates no connection that was accepted after the token
\* was deleted, although no lock protects the set of tokens.
THEOREM SpentTokensStayDead == Spec => []SpentTokenIsDead
<1>1. ZapInv => SpentTokenIsDead
  OBVIOUS
<1>. QED BY <1>1, ZapInit, ZapStep, PTL DEF Spec

----------------------------------------------------------------------------
(* Failures have a cause. *)

Busy(u) == userAt[u].step # "idle"

\* What excuses the failure of user u.
Excuse(u) ==
  \/ userAt[u].conn \in broken \/ ~alive
  \/ \E p \in spent : p.token = UserConfig[u].token /\ p.conn # userAt[u].conn

\* A worker knows the method of the user on its connection, and the data of that
\* user is on the way.
MeantInv ==
  /\ \A u \in Users : LET c == userAt[u].conn IN
       c # None =>
         /\ Receives(up[c], "ClientHello") => Head(up[c]).method = UserConfig[u].method
         /\ Receives(up[c], "ClientResponse") =>
              Head(up[c]).data = GenerateResponse(UserConfig[u])
  /\ \A u \in Users, w \in Workers :
       /\ userAt[u].conn = workerAt[w].conn
       /\ workerAt[w].step \in {"challenge", "response"}
       => server[w].method = UserConfig[u].method

\* A token is there until some worker deletes it, which has then verified it.
SpentAtInv ==
  /\ \A t \in Tokens : t \in tokens \/ \E p \in spent : p.token = t
  /\ \A p \in spent : /\ p.conn <= accepted
                      /\ \A w \in Workers : workerAt[w].conn = p.conn
                           => workerAt[w].step \in {"success", "idle"}

\* Who has closed a connection, and why.
ShutInv ==
  /\ alive => \A c \in Conns : c > dialed => shut[c] = {}
  /\ \A u \in Users : Busy(u) =>
       /\ "client" \in shut[userAt[u].conn] => userAt[u].conn \in broken
       /\ Acceptable(UserConfig[u]) /\ "server" \in shut[userAt[u].conn] => Excuse(u)

CauseInv == MeantInv /\ SpentAtInv /\ ShutInv

\* Steps that write nothing up, and let a worker choose the method of its client
\* only.
LEMMA MeantStays ==
  ASSUME ZapInv, MeantInv,
         \A u \in Users : userAt'[u].conn = userAt[u].conn,
         \A c \in Conns : up'[c] = up[c] \/ up'[c] = <<>>,
         \A w \in Workers : workerAt'[w].step \in {"challenge", "response"} =>
           \/ /\ workerAt[w].step \in {"challenge", "response"}
              /\ workerAt'[w].conn = workerAt[w].conn /\ server'[w].method = server[w].method
           \/ \A u \in Users : userAt[u].conn = workerAt'[w].conn =>
                server'[w].method = UserConfig[u].method
  PROVE  MeantInv'
<1>1. ASSUME NEW u \in Users, NEW c, c = userAt[u].conn, c # None
      PROVE  /\ Receives(up'[c], "ClientHello") => Head(up'[c]).method = UserConfig[u].method
             /\ Receives(up'[c], "ClientResponse") =>
                  Head(up'[c]).data = GenerateResponse(UserConfig[u])
  <2>1. c \in Conns
    BY <1>1 DEF TypeOK, EndsTypeOK, Conns, None
  <2>2. CASE up'[c] = up[c]
    BY <1>1, <2>2 DEF MeantInv
  <2>3. CASE up'[c] = <<>>
    BY <2>3 DEF Receives
  <2>. QED BY <2>1, <2>2, <2>3
<1>2. ASSUME NEW u \in Users, NEW w \in Workers, userAt'[u].conn = workerAt'[w].conn,
             workerAt'[w].step \in {"challenge", "response"}
      PROVE  server'[w].method = UserConfig[u].method
  BY <1>2 DEF MeantInv
<1>3. \A u \in Users : userAt'[u].conn = userAt[u].conn
  OBVIOUS
<1>. QED BY <1>1, <1>2, <1>3 DEF MeantInv, Receives

\* Steps that delete no token.
LEMMA SpentAtStays ==
  ASSUME ZapInv, SpentAtInv, UNCHANGED <<tokens, spent>>,
         accepted' >= accepted, accepted' \in Nat,
         \A w \in Workers :
           \/ /\ workerAt'[w].conn = workerAt[w].conn
              /\ \/ workerAt'[w].step \in {workerAt[w].step, "idle"}
                 \/ workerAt[w].step \notin {"success", "idle"}
           \/ workerAt'[w].conn > accepted
  PROVE  SpentAtInv'
<1>0. accepted \in Nat /\ \A p \in spent : p.conn \in Nat
  BY DEF TypeOK, WireTypeOK, TokensTypeOK, Conns
<1>1. \A t \in Tokens : t \in tokens' \/ \E p \in spent' : p.token = t
  BY DEF SpentAtInv
<1>2. ASSUME NEW p \in spent PROVE p.conn <= accepted'
  BY <1>0, <1>2 DEF SpentAtInv
<1>3. ASSUME NEW p \in spent, NEW w \in Workers, workerAt'[w].conn = p.conn
      PROVE  workerAt'[w].step \in {"success", "idle"}
  <2>1. p.conn <= accepted /\ p.conn \in Nat
    BY <1>0 DEF SpentAtInv
  <2>2. workerAt'[w].conn = workerAt[w].conn
    BY <1>0, <1>3, <2>1
  <2>3. workerAt[w].step \in {"success", "idle"}
    BY <1>3, <2>2 DEF SpentAtInv
  <2>4. \/ workerAt'[w].step \in {workerAt[w].step, "idle"}
        \/ workerAt'[w].conn > accepted
    BY <2>3
  <2>. QED BY <1>0, <1>3, <2>1, <2>3, <2>4
<1>. QED BY <1>1, <1>2, <1>3 DEF SpentAtInv

\* What excuses a failure goes on to excuse it.
LEMMA ExcuseStays ==
  ASSUME NEW u \in Users, Excuse(u), userAt'[u].conn = userAt[u].conn,
         broken \subseteq broken', spent \subseteq spent', alive' => alive
  PROVE  Excuse(u)'
<1>1. CASE userAt[u].conn \in broken \/ ~alive
  BY <1>1 DEF Excuse
<1>2. CASE \E p \in spent : p.token = UserConfig[u].token /\ p.conn # userAt[u].conn
  BY <1>2 DEF Excuse
<1>. QED BY <1>1, <1>2 DEF Excuse

\* Steps that close nothing.
LEMMA ShutStays ==
  ASSUME ZapInv, ShutInv, dialed' >= dialed, dialed' \in Nat, shut' = shut,
         broken \subseteq broken', spent \subseteq spent', alive' => alive,
         \A u \in Users : userAt'[u].step # "idle" =>
           \/ userAt[u].step # "idle" /\ userAt'[u].conn = userAt[u].conn
           \/ shut[userAt'[u].conn] = {}
  PROVE  ShutInv'
<1>0. dialed \in Nat /\ Conns \subseteq Nat
  BY DEF TypeOK, WireTypeOK, Conns
<1>1. alive' => \A c \in Conns : c > dialed' => shut'[c] = {}
  <2>. SUFFICES ASSUME alive', NEW c \in Conns, c > dialed' PROVE shut'[c] = {}
    OBVIOUS
  <2>1. c > dialed
    BY <1>0
  <2>. QED BY <2>1 DEF ShutInv
<1>2. ASSUME NEW u \in Users, Busy(u)'
      PROVE  /\ "client" \in shut'[userAt'[u].conn] => userAt'[u].conn \in broken'
             /\ Acceptable(UserConfig[u]) /\ "server" \in shut'[userAt'[u].conn] => Excuse(u)'
  <2>1. CASE Busy(u) /\ userAt'[u].conn = userAt[u].conn
    <3>1. Excuse(u) => Excuse(u)'
      BY <2>1, ExcuseStays
    <3>. QED BY <2>1, <3>1 DEF ShutInv
  <2>2. CASE shut[userAt'[u].conn] = {}
    BY <2>2
  <2>. QED BY <1>2, <2>1, <2>2 DEF Busy
<1>3. \A u \in Users : Acceptable(UserConfig[u])' = Acceptable(UserConfig[u])
  BY DEF Acceptable, CanRespond, Providers
<1>. QED BY <1>1, <1>2, <1>3 DEF ShutInv

\* A client on a connection that somebody has closed has an excuse.
LEMMA ShutExcuses ==
  ASSUME ShutInv, NEW u \in Users, Busy(u), Acceptable(UserConfig[u]),
         shut \in [Conns -> SUBSET {"client", "server"}],
         userAt[u].conn \in Conns, shut[userAt[u].conn] # {}
  PROVE  Excuse(u)
<1>1. "client" \in shut[userAt[u].conn] \/ "server" \in shut[userAt[u].conn]
  OBVIOUS
<1>2. CASE "client" \in shut[userAt[u].conn]
  BY <1>2 DEF ShutInv, Excuse
<1>3. CASE "server" \in shut[userAt[u].conn]
  BY <1>3 DEF ShutInv
<1>. QED BY <1>1, <1>2, <1>3

\* Neither end reads a frame of a type it does not expect.
LEMMA ClientReadExcused ==
  ASSUME ZapInv, ShutInv, NEW u \in Users, Acceptable(UserConfig[u]),
         \/ userAt[u].step = "challenge"
            /\ ClientCannotRead(userAt[u].conn, "ServerChallenge")
         \/ userAt[u].step = "success" /\ ClientCannotRead(userAt[u].conn, "ServerSuccess")
  PROVE  Excuse(u)
<1>1. PICK c \in Conns : userAt[u].conn = c /\ PipeOK(c) /\ UserOK(u)
  BY UserOn
<1>2. shut \in [Conns -> SUBSET {"client", "server"}] /\ Busy(u)
  BY DEF TypeOK, WireTypeOK, Busy
<1>3. CASE shut[c] # {}
  BY <1>1, <1>2, <1>3, ShutExcuses
<1>4. CASE shut[c] = {}
  <2>1. down[c] # <<>>
    BY <1>1, <1>4 DEF ClientCannotRead, Unreadable
  <2>2. Head(down[c]).type \in {"ServerChallenge", "ServerSuccess"}
    BY <1>1, <2>1 DEF PipeOK
  <2>3. CASE userAt[u].step = "challenge" /\ ClientCannotRead(c, "ServerChallenge")
    BY <1>1, <1>4, <2>1, <2>2, <2>3 DEF ClientCannotRead, Unreadable, UserOK, Receives
  <2>4. CASE userAt[u].step = "success" /\ ClientCannotRead(c, "ServerSuccess")
    BY <1>1, <1>4, <2>1, <2>2, <2>4 DEF ClientCannotRead, Unreadable, UserOK, Receives
  <2>. QED BY <1>1, <2>3, <2>4
<1>. QED BY <1>3, <1>4

LEMMA ServerReadExcuses ==
  ASSUME ZapInv, ShutInv, NEW w \in Workers,
         \/ workerAt[w].step = "hello" /\ ServerCannotRead(workerAt[w].conn, "ClientHello")
         \/ workerAt[w].step = "response"
            /\ ServerCannotRead(workerAt[w].conn, "ClientResponse"),
         NEW u \in Users, userAt[u].conn = workerAt[w].conn, Busy(u),
         Acceptable(UserConfig[u])
  PROVE  Excuse(u)
<1>1. PICK c \in Conns : workerAt[w].conn = c /\ PipeOK(c) /\ WorkerOK(w)
  BY WorkerOn
<1>2. shut \in [Conns -> SUBSET {"client", "server"}]
  BY DEF TypeOK, WireTypeOK
<1>3. CASE shut[c] # {}
  BY <1>1, <1>2, <1>3, ShutExcuses
<1>4. CASE shut[c] = {}
  <2>1. up[c] # <<>>
    BY <1>1, <1>4 DEF ServerCannotRead, Unreadable
  <2>2. Head(up[c]).type \in {"ClientHello", "ClientResponse"}
    BY <1>1, <2>1 DEF PipeOK
  <2>3. CASE workerAt[w].step = "hello" /\ ServerCannotRead(c, "ClientHello")
    BY <1>1, <1>4, <2>1, <2>2, <2>3 DEF ServerCannotRead, Unreadable, WorkerOK, Receives
  <2>4. CASE workerAt[w].step = "response" /\ ServerCannotRead(c, "ClientResponse")
    BY <1>1, <1>4, <2>1, <2>2, <2>4 DEF ServerCannotRead, Unreadable, WorkerOK, Receives
  <2>. QED BY <1>1, <2>3, <2>4
<1>. QED BY <1>3, <1>4

\* A client that goes on, or is done.
LEMMA ClientDoneCause ==
  ASSUME ZapInv, SpentAtInv, ShutInv, NEW u \in Users, Busy(u), NEW h, NEW state, NEW next,
         ClientDone(u, h, state, next)
  PROVE  /\ SpentAtInv' /\ ShutInv' /\ UNCHANGED <<server, workerAt>>
         /\ \A v \in Users : userAt'[v].conn = userAt[v].conn
<1>1. /\ userAt' = [userAt EXCEPT ![u].step = next]
      /\ UNCHANGED <<dialed, accepted, shut, broken, server, workerAt, tokens, spent, alive>>
  BY DEF ClientDone, servers
<1>2. \A v \in Users : /\ userAt'[v].conn = userAt[v].conn
                       /\ v # u => userAt'[v] = userAt[v]
  BY <1>1 DEF TypeOK, EndsTypeOK
<1>3. accepted \in Nat /\ dialed \in Nat
  BY DEF TypeOK, WireTypeOK
<1>4. SpentAtInv'
  <2>1. accepted' >= accepted /\ accepted' \in Nat
    BY <1>1, <1>3
  <2>. QED BY <1>1, <2>1, SpentAtStays
<1>5. ShutInv'
  <2>1. dialed' >= dialed /\ dialed' \in Nat
    BY <1>1, <1>3
  <2>2. \A v \in Users : userAt'[v].step # "idle" =>
          userAt[v].step # "idle" /\ userAt'[v].conn = userAt[v].conn
    BY <1>2 DEF Busy
  <2>. QED BY <1>1, <2>1, <2>2, ShutStays
<1>. QED BY <1>1, <1>2, <1>4, <1>5

\* A client that fails closes a connection that nobody else uses.
LEMMA ClientFailsCause ==
  ASSUME ZapInv, CauseInv, NEW u \in Users, Busy(u), NEW h, ClientFails(u, h)
  PROVE  CauseInv'
<1>1. PICK c \in Conns : /\ userAt[u].conn = c /\ c \in Nat /\ c <= dialed
                         /\ \A v \in Users : userAt[v].conn = c => v = u
  BY UserOn DEF Busy
<1>2. /\ userAt' = [userAt EXCEPT ![u].step = "idle"]
      /\ shut' = [shut EXCEPT ![c] = @ \cup {"client"}]
      /\ UNCHANGED <<dialed, accepted, up, broken, server, workerAt, tokens, spent, alive>>
  BY <1>1 DEF ClientFails, servers
<1>3. /\ \A v \in Users : userAt'[v].conn = userAt[v].conn /\ (v # u => userAt'[v] = userAt[v])
      /\ userAt'[u].step = "idle"
  BY <1>2 DEF TypeOK, EndsTypeOK
<1>4. accepted \in Nat /\ dialed \in Nat /\ \A d \in Conns : d # c => shut'[d] = shut[d]
  BY <1>2 DEF TypeOK, WireTypeOK
<1>5. MeantInv'
  BY <1>2, <1>3, MeantStays DEF CauseInv
<1>6. SpentAtInv'
  <2>1. accepted' >= accepted /\ accepted' \in Nat
    BY <1>2, <1>4
  <2>. QED BY <1>2, <2>1, SpentAtStays DEF CauseInv
<1>7. ShutInv'
  <2>1. alive' => \A d \in Conns : d > dialed' => shut'[d] = {}
    BY <1>1, <1>2, <1>4 DEF CauseInv, ShutInv
  <2>2. ASSUME NEW v \in Users, Busy(v)'
        PROVE  /\ "client" \in shut'[userAt'[v].conn] => userAt'[v].conn \in broken'
               /\ Acceptable(UserConfig[v]) /\ "server" \in shut'[userAt'[v].conn] => Excuse(v)'
    <3>1. v # u /\ Busy(v) /\ userAt'[v] = userAt[v]
      BY <1>3, <2>2 DEF Busy
    <3>2. userAt[v].conn \in Conns /\ userAt[v].conn # c
      <4>1. PICK d \in Conns : userAt[v].conn = d
        BY <3>1, UserOn DEF Busy
      <4>. QED BY <1>1, <3>1, <4>1
    <3>3. shut'[userAt'[v].conn] = shut[userAt[v].conn]
      BY <1>4, <3>1, <3>2
    <3>4. Excuse(v) => Excuse(v)'
      BY <1>2, <1>3, ExcuseStays
    <3>. QED BY <1>2, <3>1, <3>3, <3>4 DEF CauseInv, ShutInv
  <2>3. \A v \in Users : Acceptable(UserConfig[v])' = Acceptable(UserConfig[v])
    BY DEF Acceptable, CanRespond, Providers
  <2>. QED BY <2>1, <2>2, <2>3 DEF ShutInv
<1>. QED BY <1>5, <1>6, <1>7 DEF CauseInv

\* A worker that goes on, or is done, and deletes no token.
LEMMA ServerDoneCause ==
  ASSUME ZapInv, SpentAtInv, ShutInv, NEW w \in Workers,
         NEW h, NEW state, NEW next, next.conn = workerAt[w].conn,
         workerAt[w].step \notin {"idle", "success"} \/ next.step = "idle",
         ServerDone(w, h, state, next), UNCHANGED <<tokens, spent>>
  PROVE  SpentAtInv' /\ ShutInv'
<1>1. /\ workerAt' = [workerAt EXCEPT ![w] = next]
      /\ UNCHANGED <<dialed, accepted, shut, broken, userAt, alive>>
  BY DEF ServerDone, clients
<1>2. workerAt'[w] = next /\ \A v \in Workers : v # w => workerAt'[v] = workerAt[v]
  BY <1>1 DEF TypeOK, EndsTypeOK
<1>3. accepted \in Nat /\ dialed \in Nat
  BY DEF TypeOK, WireTypeOK
<1>4. SpentAtInv'
  <2>1. accepted' >= accepted /\ accepted' \in Nat
    BY <1>1, <1>3
  <2>2. ASSUME NEW v \in Workers
        PROVE  /\ workerAt'[v].conn = workerAt[v].conn
               /\ \/ workerAt'[v].step \in {workerAt[v].step, "idle"}
                  \/ workerAt[v].step \notin {"success", "idle"}
    BY <1>2
  <2>. QED BY <2>1, <2>2, SpentAtStays
<1>5. ShutInv'
  <2>1. dialed' >= dialed /\ dialed' \in Nat
    BY <1>1, <1>3
  <2>. QED BY <1>1, <2>1, ShutStays
<1>. QED BY <1>4, <1>5

\* A worker may fail if the client on its connection has an excuse.
LEMMA ServerFailsCause ==
  ASSUME ZapInv, CauseInv, NEW w \in Workers, workerAt[w].step # "idle",
         NEW h, ServerFails(w, h),
         \A u \in Users : userAt[u].conn = workerAt[w].conn /\ Busy(u)
                          /\ Acceptable(UserConfig[u]) => Excuse(u)
  PROVE  CauseInv'
<1>1. PICK c \in Conns : /\ workerAt[w].conn = c /\ c \in Nat /\ c <= accepted
                         /\ accepted <= dialed /\ accepted \in Nat /\ dialed \in Nat
  BY WorkerOn
<1>2. /\ workerAt' = [workerAt EXCEPT ![w] = At(w, "idle")]
      /\ server' = [server EXCEPT ![w] = h]
      /\ shut' = [shut EXCEPT ![c] = @ \cup {"server"}]
      /\ UNCHANGED <<dialed, accepted, up, broken, userAt, tokens, spent, alive>>
  BY <1>1 DEF ServerFails, clients
<1>3. /\ workerAt'[w].step = "idle" /\ workerAt'[w].conn = workerAt[w].conn
      /\ \A v \in Workers : v # w => workerAt'[v] = workerAt[v] /\ server'[v] = server[v]
  BY <1>2 DEF TypeOK, EndsTypeOK, At
<1>4. /\ \A d \in Conns : d # c => shut'[d] = shut[d]
      /\ shut'[c] = shut[c] \cup {"server"}
  BY <1>2 DEF TypeOK, WireTypeOK
<1>5. MeantInv'
  BY <1>2, <1>3, MeantStays DEF CauseInv
<1>6. SpentAtInv'
  <2>1. accepted' >= accepted /\ accepted' \in Nat
    BY <1>1, <1>2
  <2>2. \A v \in Workers : /\ workerAt'[v].conn = workerAt[v].conn
                           /\ workerAt'[v].step \in {workerAt[v].step, "idle"}
    BY <1>3
  <2>. QED BY <1>2, <2>1, <2>2, SpentAtStays DEF CauseInv
<1>7. ShutInv'
  <2>1. alive' => \A d \in Conns : d > dialed' => shut'[d] = {}
    <3>1. \A d \in Conns : d > dialed => d # c
      BY <1>1
    <3>. QED BY <1>2, <1>4, <3>1 DEF CauseInv, ShutInv
  <2>2. ASSUME NEW u \in Users, Busy(u)'
        PROVE  /\ "client" \in shut'[userAt'[u].conn] => userAt'[u].conn \in broken'
               /\ Acceptable(UserConfig[u]) /\ "server" \in shut'[userAt'[u].conn] => Excuse(u)'
    <3>1. Busy(u) /\ userAt'[u] = userAt[u]
      BY <1>2, <2>2 DEF Busy
    <3>2. PICK d \in Conns : userAt[u].conn = d
      BY <3>1, UserOn DEF Busy
    <3>3. Excuse(u) => Excuse(u)'
      BY <1>2, <3>1, ExcuseStays
    <3>4. CASE d = c
      BY <1>1, <1>2, <1>4, <3>1, <3>2, <3>3, <3>4 DEF CauseInv, ShutInv
    <3>5. CASE d # c
      BY <1>2, <1>4, <3>1, <3>2, <3>3, <3>5 DEF CauseInv, ShutInv
    <3>. QED BY <3>4, <3>5
  <2>3. \A v \in Users : Acceptable(UserConfig[v])' = Acceptable(UserConfig[v])
    BY DEF Acceptable, CanRespond, Providers
  <2>. QED BY <2>1, <2>2, <2>3 DEF ShutInv
<1>. QED BY <1>5, <1>6, <1>7 DEF CauseInv

\* What a client writes is meant for the worker on its connection.
LEMMA WrittenMeant ==
  ASSUME ZapInv, MeantInv, NEW u \in Users, NEW c \in Conns, userAt[u].conn = c,
         \A v \in Users : userAt[v].conn = c => v = u,
         NEW f \in Frames,
         f.type = "ClientHello" => f.method = UserConfig[u].method,
         f.type = "ClientResponse" => f.data = GenerateResponse(UserConfig[u]),
         \A d \in Conns \ {c} : up'[d] = up[d],
         up'[c] # <<>> => Head(up'[c]) = f,
         \A v \in Users : userAt'[v].conn = userAt[v].conn,
         UNCHANGED <<server, workerAt>>
  PROVE  MeantInv'
<1>1. ASSUME NEW v \in Users, NEW d, d = userAt[v].conn, d # None
      PROVE  /\ Receives(up'[d], "ClientHello") => Head(up'[d]).method = UserConfig[v].method
             /\ Receives(up'[d], "ClientResponse") =>
                  Head(up'[d]).data = GenerateResponse(UserConfig[v])
  <2>1. d \in Conns
    BY <1>1 DEF TypeOK, EndsTypeOK, Conns, None
  <2>2. CASE d = c
    BY <1>1, <2>2 DEF Receives
  <2>3. CASE d # c
    BY <1>1, <2>1, <2>3 DEF MeantInv
  <2>. QED BY <2>2, <2>3
<1>2. ASSUME NEW v \in Users, NEW w \in Workers, userAt'[v].conn = workerAt'[w].conn,
             workerAt'[w].step \in {"challenge", "response"}
      PROVE  server'[w].method = UserConfig[v].method
  BY <1>2 DEF MeantInv
<1>. QED BY <1>1, <1>2 DEF MeantInv, Receives

LEMMA SendClientHelloCause ==
  ASSUME ZapInv, CauseInv, NEW u \in Users, SendClientHello(u)
  PROVE  CauseInv'
<1>1. PICK c \in Conns : /\ userAt[u].conn = c /\ UserOK(u)
                         /\ \A v \in Users : userAt[v].conn = c => v = u
  BY UserOn DEF SendClientHello
<1>2. PICK f \in Frames : f = ClientHello(UserConfig[u].method, c, UserKey(u))
  BY FrameTypes
<1>3. /\ Busy(u) /\ up[c] = <<>>
      /\ f.type = "ClientHello" /\ f.method = UserConfig[u].method
  BY <1>1, <1>2 DEF SendClientHello, UserOK, ClientHello, Busy
<1>4. PICK h : h = [client[u] EXCEPT !.clientRandom = c]
  OBVIOUS
<1>5. CASE WriteUp(c, f) /\ ClientDone(u, h, "ClientHelloSent", "challenge")
  <2>1. /\ SpentAtInv' /\ ShutInv' /\ UNCHANGED <<server, workerAt>>
        /\ \A v \in Users : userAt'[v].conn = userAt[v].conn
    BY <1>3, <1>5, ClientDoneCause DEF CauseInv
  <2>2. /\ \A d \in Conns \ {c} : up'[d] = up[d]
        /\ up'[c] # <<>> => Head(up'[c]) = f
    BY <1>3, <1>5, WriteUpFacts
  <2>3. MeantInv'
    BY <1>1, <1>3, <2>1, <2>2, WrittenMeant DEF CauseInv
  <2>. QED BY <2>1, <2>3 DEF CauseInv
<1>6. CASE ClientFails(u, h)
  BY <1>3, <1>6, ClientFailsCause
<1>. QED BY <1>1, <1>2, <1>4, <1>5, <1>6 DEF SendClientHello, UserKey

LEMMA SendClientResponseCause ==
  ASSUME ZapInv, CauseInv, NEW u \in Users, SendClientResponse(u)
  PROVE  CauseInv'
<1>1. PICK c \in Conns : /\ userAt[u].conn = c /\ UserOK(u)
                         /\ \A v \in Users : userAt[v].conn = c => v = u
  BY UserOn DEF SendClientResponse
<1>2. PICK f \in Frames : f = ClientResponse(GenerateResponse(UserConfig[u]))
  BY FrameTypes
<1>3. /\ Busy(u) /\ up[c] = <<>>
      /\ f.type = "ClientResponse" /\ f.data = GenerateResponse(UserConfig[u])
  BY <1>1, <1>2 DEF SendClientResponse, UserOK, ClientResponse, Busy
<1>4. PICK h : h = client[u]
  OBVIOUS
<1>5. CASE WriteUp(c, f) /\ ClientDone(u, h, "ClientResponseSent", "success")
  <2>1. /\ SpentAtInv' /\ ShutInv' /\ UNCHANGED <<server, workerAt>>
        /\ \A v \in Users : userAt'[v].conn = userAt[v].conn
    BY <1>3, <1>5, ClientDoneCause DEF CauseInv
  <2>2. /\ \A d \in Conns \ {c} : up'[d] = up[d]
        /\ up'[c] # <<>> => Head(up'[c]) = f
    BY <1>3, <1>5, WriteUpFacts
  <2>3. MeantInv'
    BY <1>1, <1>3, <2>1, <2>2, WrittenMeant DEF CauseInv
  <2>. QED BY <2>1, <2>3 DEF CauseInv
<1>6. CASE ClientFails(u, h)
  BY <1>3, <1>6, ClientFailsCause
<1>. QED BY <1>1, <1>2, <1>4, <1>5, <1>6 DEF SendClientResponse

\* A client that has read.
LEMMA ClientReadsCause ==
  ASSUME ZapInv, CauseInv, NEW u \in Users, Busy(u), NEW h, NEW state, NEW next,
         ClientDone(u, h, state, next), UNCHANGED up
  PROVE  CauseInv'
<1>1. /\ SpentAtInv' /\ ShutInv' /\ UNCHANGED <<server, workerAt>>
      /\ \A v \in Users : userAt'[v].conn = userAt[v].conn
  BY ClientDoneCause DEF CauseInv
<1>2. MeantInv'
  BY <1>1, MeantStays DEF CauseInv
<1>. QED BY <1>1, <1>2 DEF CauseInv

LEMMA ReceiveServerChallengeCause ==
  ASSUME ZapInv, CauseInv, NEW u \in Users, ReceiveServerChallenge(u)
  PROVE  CauseInv'
<1>1. Busy(u)
  BY DEF ReceiveServerChallenge, Busy
<1>2. PICK g : g = [client[u] EXCEPT !.serverRandom = Head(down[userAt[u].conn]).random,
                                     !.peerKey = Head(down[userAt[u].conn]).key,
                                     !.salt = Head(down[userAt[u].conn]).salt]
  OBVIOUS
<1>3. CASE ClientDone(u, g, "ServerChallengeSent", "response") /\ UNCHANGED up
  BY <1>1, <1>3, ClientReadsCause
<1>4. CASE ClientFails(u, client[u])
  BY <1>1, <1>4, ClientFailsCause
<1>. QED BY <1>2, <1>3, <1>4 DEF ReceiveServerChallenge

LEMMA ReceiveServerSuccessCause ==
  ASSUME ZapInv, CauseInv, NEW u \in Users, ReceiveServerSuccess(u)
  PROVE  CauseInv'
<1>1. Busy(u)
  BY DEF ReceiveServerSuccess, Busy
<1>2. PICK g : g = [client[u] EXCEPT !.id = Head(down[userAt[u].conn]).id]
  OBVIOUS
<1>3. PICK h : h = [g EXCEPT !.key = SessionKey(g, u)]
  OBVIOUS
<1>4. CASE ClientDone(u, h, "Authenticated", "idle") /\ UNCHANGED up
  BY <1>1, <1>4, ClientReadsCause
<1>5. CASE \E x : ClientFails(u, x)
  BY <1>1, <1>5, ClientFailsCause
<1>. QED BY <1>2, <1>3, <1>4, <1>5 DEF ReceiveServerSuccess

\* A client fails only with an excuse, if its configuration is acceptable.
LEMMA ClientFailureExcused ==
  ASSUME ZapInv, CauseInv, NEW u \in Users, UserStep(u), Acceptable(UserConfig[u]),
         userAt'[u].step = "idle", client'[u].state # "Authenticated"
  PROVE  Excuse(u)
<1>0. ASSUME NEW h, NEW state, NEW next, ClientDone(u, h, state, next)
      PROVE  userAt'[u].step = next
  BY <1>0 DEF ClientDone, TypeOK, EndsTypeOK
<1>1. Busy(u)
  BY DEF UserStep, SendClientHello, ReceiveServerChallenge, SendClientResponse,
         ReceiveServerSuccess, Busy
<1>2. PICK c \in Conns : userAt[u].conn = c /\ PipeOK(c) /\ FrameTrue(c) /\ ClientTrue(u)
  BY <1>1, UserOn DEF Busy
<1>3. shut \in [Conns -> SUBSET {"client", "server"}] /\ client[u] \in Handshakes
  BY DEF TypeOK, WireTypeOK, EndsTypeOK
<1>4. WriteMayFail(c) => Excuse(u)
  BY <1>1, <1>2, <1>3, ShutExcuses DEF WriteMayFail, CauseInv
<1>5. CASE SendClientHello(u)
  <2>1. ~ ClientDone(u, [client[u] EXCEPT !.clientRandom = c], "ClientHelloSent", "challenge")
    BY <1>0
  <2>. QED BY <1>2, <1>4, <1>5, <2>1 DEF SendClientHello
<1>6. CASE ReceiveServerChallenge(u)
  <2>1. ASSUME NEW h PROVE ~ ClientDone(u, h, "ServerChallengeSent", "response")
    BY <1>0
  <2>2. userAt[u].step = "challenge" /\ ClientCannotRead(c, "ServerChallenge")
    BY <1>2, <1>6, <2>1 DEF ReceiveServerChallenge
  <2>. QED BY <1>2, <2>2, ClientReadExcused DEF CauseInv
<1>7. CASE SendClientResponse(u)
  <2>1. ~ ClientDone(u, client[u], "ClientResponseSent", "success")
    BY <1>0
  <2>. QED BY <1>2, <1>4, <1>7, <2>1 DEF SendClientResponse, Acceptable
<1>8. CASE ReceiveServerSuccess(u)
  <2>1. PICK g : g = [client[u] EXCEPT !.id = Head(down[c]).id]
    OBVIOUS
  <2>2. userAt[u].step = "success"
    BY <1>8 DEF ReceiveServerSuccess
  <2>3. CanDerive(g, UserConfig[u].key)
    <3>1. client[u].peerKey = "server"
      BY <1>2, <2>2 DEF ClientTrue, Acceptable, PublicKey
    <3>2. g.peerKey = client[u].peerKey
      BY <1>3, <2>1 DEF Handshakes
    <3>. QED BY <3>1, <3>2 DEF CanDerive, Acceptable
  <2>4. ASSUME NEW h, ClientDone(u, [h EXCEPT !.key = SessionKey(h, u)], "Authenticated", "idle"),
               h = g
        PROVE  client'[u].state = "Authenticated"
    <3>1. client' = [client EXCEPT ![u] =
                       [[h EXCEPT !.key = SessionKey(h, u)] EXCEPT !.state = "Authenticated"]]
      BY <2>4 DEF ClientDone
    <3>2. client'[u] = [[h EXCEPT !.key = SessionKey(h, u)] EXCEPT !.state = "Authenticated"]
      BY <3>1 DEF TypeOK, EndsTypeOK
    <3>3. h = [client[u] EXCEPT !.id = Head(down[c]).id]
      BY <2>1, <2>4
    <3>. QED BY <1>3, <3>2, <3>3 DEF Handshakes
  <2>5. ClientCannotRead(c, "ServerSuccess")
    BY <1>2, <1>8, <2>1, <2>3, <2>4 DEF ReceiveServerSuccess
  <2>. QED BY <1>2, <2>2, <2>5, ClientReadExcused DEF CauseInv
<1>. QED BY <1>5, <1>6, <1>7, <1>8 DEF UserStep

LEMMA ReceiveClientHelloCause ==
  ASSUME ZapInv, CauseInv, NEW w \in Workers, ReceiveClientHello(w)
  PROVE  CauseInv'
<1>1. PICK c \in Conns : workerAt[w].conn = c /\ c # None /\ up[c] \in Seq(Frames)
                         /\ Len(up[c]) <= 1
  BY WorkerOn DEF ReceiveClientHello, WorkerOK
<1>2. workerAt[w].step = "hello"
  BY DEF ReceiveClientHello
<1>3. PICK g : g = [server[w] EXCEPT !.clientRandom = Head(up[c]).random,
                                     !.peerKey = Head(up[c]).key, !.method = Head(up[c]).method]
  OBVIOUS
<1>4. ASSUME Receives(up[c], "ClientHello"), NEW u \in Users, userAt[u].conn = c
      PROVE  Head(up[c]).method = UserConfig[u].method
  BY <1>1, <1>4 DEF CauseInv, MeantInv
<1>5. CASE /\ Receives(up[c], "ClientHello") /\ up' = [up EXCEPT ![c] = Tail(@)]
           /\ ServerDone(w, g, "ClientHelloSent", At(w, "challenge"))
           /\ UNCHANGED <<tokens, spent>>
  <2>1. PICK next : next = At(w, "challenge")
    OBVIOUS
  <2>2. next.conn = c
    BY <1>1, <2>1, <1>2 DEF At, TypeOK, EndsTypeOK
  <2>3. SpentAtInv' /\ ShutInv'
    BY <1>1, <1>2, <1>5, <2>1, <2>2, ServerDoneCause DEF CauseInv
  <2>4. /\ server' = [server EXCEPT ![w] = [g EXCEPT !.state = "ClientHelloSent"]]
        /\ workerAt' = [workerAt EXCEPT ![w] = next] /\ UNCHANGED userAt
    BY <1>5, <2>1 DEF ServerDone, clients
  <2>5. /\ workerAt'[w].conn = c /\ server'[w].method = Head(up[c]).method
        /\ \A v \in Workers : v # w => workerAt'[v] = workerAt[v] /\ server'[v] = server[v]
    <3>1. server[w] \in Handshakes
      BY DEF TypeOK, EndsTypeOK
    <3>2. g.method = Head(up[c]).method /\ [g EXCEPT !.state = "ClientHelloSent"].method = g.method
      BY <1>3, <3>1 DEF Handshakes
    <3>. QED BY <2>2, <2>4, <3>2 DEF TypeOK, EndsTypeOK
  <2>6. \A d \in Conns : up'[d] = up[d] \/ up'[d] = <<>>
    BY <1>1, <1>5, OneFrame DEF Receives, TypeOK, WireTypeOK
  <2>7. MeantInv'
    BY <1>4, <1>5, <2>4, <2>5, <2>6, MeantStays DEF CauseInv
  <2>. QED BY <2>3, <2>7 DEF CauseInv
<1>6. CASE Receives(up[c], "ClientHello") /\ Head(up[c]).method \notin Providers /\ ServerFails(w, g)
  BY <1>1, <1>2, <1>4, <1>6, ServerFailsCause DEF Acceptable
<1>7. CASE ServerCannotRead(c, "ClientHello") /\ ServerFails(w, server[w])
  BY <1>1, <1>2, <1>7, ServerReadExcuses, ServerFailsCause DEF CauseInv
<1>. QED BY <1>1, <1>3, <1>5, <1>6, <1>7 DEF ReceiveClientHello

\* A worker may fail if its connection is closed.
LEMMA ServerWriteFailsCause ==
  ASSUME ZapInv, CauseInv, NEW w \in Workers, workerAt[w].step # "idle",
         NEW h, ServerFails(w, h), WriteMayFail(workerAt[w].conn)
  PROVE  CauseInv'
<1>1. workerAt[w].conn \in Conns
  BY WorkerOn
<1>2. ASSUME NEW u \in Users, userAt[u].conn = workerAt[w].conn, Busy(u),
             Acceptable(UserConfig[u])
      PROVE  Excuse(u)
  BY <1>1, <1>2, ShutExcuses DEF WriteMayFail, CauseInv, TypeOK, WireTypeOK
<1>. QED BY <1>2, ServerFailsCause

\* A worker that has written.
LEMMA ServerWritesCause ==
  ASSUME ZapInv, CauseInv, NEW w \in Workers, NEW h, NEW state, NEW step,
         ServerDone(w, h, state, At(w, step)), UNCHANGED <<up, tokens, spent>>,
         \/ workerAt[w].step = "challenge" /\ step = "response" /\ h.method = server[w].method
            /\ h \in Handshakes
         \/ workerAt[w].step = "success" /\ step = "idle"
  PROVE  CauseInv'
<1>1. PICK next : next = At(w, step)
  OBVIOUS
<1>2. next.conn = workerAt[w].conn /\ next.step = step
  BY <1>1 DEF At, TypeOK, EndsTypeOK
<1>3. SpentAtInv' /\ ShutInv'
  BY <1>1, <1>2, ServerDoneCause DEF CauseInv
<1>4. /\ server' = [server EXCEPT ![w] = [h EXCEPT !.state = state]]
      /\ workerAt' = [workerAt EXCEPT ![w] = next] /\ UNCHANGED userAt
  BY <1>1 DEF ServerDone, clients
<1>5. /\ workerAt'[w] = next /\ server'[w] = [h EXCEPT !.state = state]
      /\ \A v \in Workers : v # w => workerAt'[v] = workerAt[v] /\ server'[v] = server[v]
  BY <1>4 DEF TypeOK, EndsTypeOK
<1>6. h \in Handshakes => [h EXCEPT !.state = state].method = h.method
  BY DEF Handshakes
<1>7. MeantInv'
  BY <1>2, <1>4, <1>5, <1>6, MeantStays DEF CauseInv
<1>. QED BY <1>3, <1>7 DEF CauseInv

LEMMA SendServerChallengeCause ==
  ASSUME ZapInv, CauseInv, NEW w \in Workers, SendServerChallenge(w)
  PROVE  CauseInv'
<1>1. PICK c \in Conns : workerAt[w].conn = c
  BY WorkerOn DEF SendServerChallenge
<1>2. workerAt[w].step = "challenge" /\ server[w] \in Handshakes
  BY DEF SendServerChallenge, TypeOK, EndsTypeOK
<1>3. PICK h \in Handshakes : h = [server[w] EXCEPT !.serverRandom = c, !.salt = c]
  BY <1>2, HandshakeFields
<1>4. h.method = server[w].method
  BY <1>2, <1>3 DEF Handshakes
<1>5. CASE /\ ServerDone(w, h, "ServerChallengeSent", At(w, "response"))
           /\ UNCHANGED <<up, tokens, spent>>
  BY <1>2, <1>4, <1>5, ServerWritesCause
<1>6. CASE WriteMayFail(c) /\ ServerFails(w, h)
  BY <1>1, <1>2, <1>6, ServerWriteFailsCause
<1>. QED BY <1>1, <1>3, <1>5, <1>6 DEF SendServerChallenge

LEMMA SendServerSuccessCause ==
  ASSUME ZapInv, CauseInv, NEW w \in Workers, SendServerSuccess(w)
  PROVE  CauseInv'
<1>1. PICK c \in Conns : workerAt[w].conn = c /\ ServerTrue(w)
  BY WorkerOn DEF SendServerSuccess
<1>2. workerAt[w].step = "success" /\ server[w] \in Handshakes
  BY DEF SendServerSuccess, TypeOK, EndsTypeOK
<1>3. PICK g : g = [server[w] EXCEPT !.id = c]
  OBVIOUS
<1>4. PICK h : h = [g EXCEPT !.key = SessionKey(g, "server")]
  OBVIOUS
<1>5. CASE /\ ServerDone(w, h, "Authenticated", At(w, "idle")) /\ UNCHANGED <<up, tokens, spent>>
  BY <1>2, <1>5, ServerWritesCause
<1>6. CASE WriteMayFail(c) /\ ServerFails(w, h)
  BY <1>1, <1>2, <1>6, ServerWriteFailsCause
<1>7. CASE ~CanDerive(g, ServerKey) /\ ServerFails(w, g)
  <2>1. ASSUME NEW u \in Users, userAt[u].conn = c, Acceptable(UserConfig[u])
        PROVE  FALSE
    <3>1. server[w].peerKey = UserKey(u)
      BY <1>1, <1>2, <2>1 DEF ServerTrue, From
    <3>2. UserKey(u) # "" /\ ServerKey
      BY <2>1, KeyAssumption DEF UserKey, PublicKey, Acceptable, KeyAssumption
    <3>3. g.peerKey = server[w].peerKey
      BY <1>2, <1>3 DEF Handshakes
    <3>. QED BY <1>7, <3>1, <3>2, <3>3 DEF CanDerive
  <2>. QED BY <1>1, <1>2, <1>7, <2>1, ServerFailsCause
<1>. QED BY <1>1, <1>3, <1>4, <1>5, <1>6, <1>7 DEF SendServerSuccess

\* The response of a client whose configuration is acceptable is valid, unless
\* its token came with another connection.
LEMMA ResponseIsValid ==
  ASSUME ZapInv, CauseInv, NEW w \in Workers, workerAt[w].step = "response",
         Receives(up[workerAt[w].conn], "ClientResponse"),
         NEW data, data = Head(up[workerAt[w].conn]).data,
         NEW u \in Users, userAt[u].conn = workerAt[w].conn, Acceptable(UserConfig[u]),
         IF server[w].method = "token" THEN data \notin tokens
                                       ELSE ~Accepts(server[w].method, data)
  PROVE  Excuse(u)
<1>1. workerAt[w].conn # None
  BY WorkerOn DEF WorkerOK
<1>2. server[w].method = UserConfig[u].method /\ data = GenerateResponse(UserConfig[u])
  BY <1>1 DEF CauseInv, MeantInv
<1>3. UserConfig[u].method \in Methods
  BY ZapAssumption DEF ZapAssumption
<1>4. CASE UserConfig[u].method = "token"
  <2>1. data = UserConfig[u].token /\ data \in Tokens /\ data \notin tokens
    BY <1>2, <1>4 DEF Acceptable, GenerateResponse
  <2>2. PICK p \in spent : p.token = data
    BY <2>1 DEF CauseInv, SpentAtInv
  <2>3. p.conn # workerAt[w].conn
    BY <2>2 DEF CauseInv, SpentAtInv
  <2>. QED BY <2>1, <2>2, <2>3 DEF Excuse
<1>5. CASE UserConfig[u].method = "psk"
  BY <1>2, <1>5 DEF GenerateResponse, Accepts
<1>6. CASE UserConfig[u].method = "totp"
  BY <1>2, <1>6 DEF GenerateResponse, Accepts, Acceptable
<1>. QED BY <1>3, <1>4, <1>5, <1>6 DEF Methods

LEMMA ReceiveClientResponseCause ==
  ASSUME ZapInv, CauseInv, NEW w \in Workers, ReceiveClientResponse(w)
  PROVE  CauseInv'
<1>1. PICK c \in Conns : workerAt[w].conn = c /\ up[c] \in Seq(Frames) /\ Len(up[c]) <= 1
  BY WorkerOn DEF ReceiveClientResponse
<1>2. workerAt[w].step = "response"
  BY DEF ReceiveClientResponse
<1>3. PICK data : data = Head(up[c]).data
  OBVIOUS
<1>4. ASSUME Receives(up[c], "ClientResponse"), up' = [up EXCEPT ![c] = Tail(@)],
             UNCHANGED <<tokens, spent>>, NEW h, NEW state, NEW next, next.conn = c,
             next.step \in {"delete", "success"}, ServerDone(w, h, state, next)
      PROVE  CauseInv'
  <2>1. SpentAtInv' /\ ShutInv'
    BY <1>1, <1>2, <1>4, ServerDoneCause DEF CauseInv
  <2>2. workerAt' = [workerAt EXCEPT ![w] = next] /\ UNCHANGED userAt
        /\ server' = [server EXCEPT ![w] = [h EXCEPT !.state = state]]
    BY <1>4 DEF ServerDone, clients
  <2>3. /\ workerAt'[w] = next
        /\ \A v \in Workers : v # w => workerAt'[v] = workerAt[v] /\ server'[v] = server[v]
    BY <2>2 DEF TypeOK, EndsTypeOK
  <2>4. \A d \in Conns : up'[d] = up[d] \/ up'[d] = <<>>
    BY <1>1, <1>4, OneFrame DEF Receives, TypeOK, WireTypeOK
  <2>5. MeantInv'
    BY <1>4, <2>2, <2>3, <2>4, MeantStays DEF CauseInv
  <2>. QED BY <2>1, <2>5 DEF CauseInv
<1>5. PICK a : a = At(w, "success")
  OBVIOUS
<1>6. PICK d : d = [At(w, "delete") EXCEPT !.token = data]
  OBVIOUS
<1>. a.step = "success" /\ a.conn = c /\ d.step = "delete" /\ d.conn = c
  BY <1>1, <1>5, <1>6 DEF At, TypeOK, EndsTypeOK
<1>7. CASE ServerCannotRead(c, "ClientResponse") /\ ServerFails(w, server[w])
  BY <1>1, <1>2, <1>7, ServerReadExcuses, ServerFailsCause DEF CauseInv
<1>8. CASE /\ Receives(up[c], "ClientResponse") /\ ServerFails(w, server[w])
           /\ ~IF server[w].method = "token" THEN data \in tokens
                                             ELSE Accepts(server[w].method, data)
  <2>1. ASSUME NEW u \in Users, userAt[u].conn = c, Acceptable(UserConfig[u])
        PROVE  Excuse(u)
    BY <1>1, <1>2, <1>3, <1>8, <2>1, ResponseIsValid
  <2>. QED BY <1>1, <1>2, <1>8, <2>1, ServerFailsCause
<1>9. CASE /\ Receives(up[c], "ClientResponse") /\ up' = [up EXCEPT ![c] = Tail(@)]
           /\ UNCHANGED <<tokens, spent>>
           /\ \/ ServerDone(w, server[w], server[w].state, d)
              \/ ServerDone(w, server[w], "ClientResponseSent", a)
  BY <1>4, <1>5, <1>6, <1>9
<1>. QED BY <1>1, <1>3, <1>5, <1>6, <1>7, <1>8, <1>9 DEF ReceiveClientResponse

LEMMA DeleteTokenCause ==
  ASSUME ZapInv, CauseInv, NEW w \in Workers, DeleteToken(w)
  PROVE  CauseInv'
<1>1. PICK c \in Conns : /\ workerAt[w].conn = c /\ c \in Nat /\ c <= accepted
                         /\ accepted \in Nat /\ dialed \in Nat /\ c # None
  BY WorkerOn DEF DeleteToken, WorkerOK
<1>2. PICK p : p = [token |-> workerAt[w].token, conn |-> c]
  OBVIOUS
<1>3. PICK next : next = At(w, "success")
  OBVIOUS
<1>. /\ p.token = workerAt[w].token /\ p.conn = c
     /\ next.step = "success" /\ next.conn = c
  BY <1>1, <1>2, <1>3 DEF At, TypeOK, EndsTypeOK
<1>4. /\ tokens' = tokens \ {workerAt[w].token} /\ spent' = spent \cup {p}
      /\ workerAt' = [workerAt EXCEPT ![w] = next] /\ UNCHANGED <<userAt, up>>
      /\ UNCHANGED <<dialed, accepted, shut, broken, alive>>
      /\ server' = [server EXCEPT ![w] = [server[w] EXCEPT !.state = "ClientResponseSent"]]
  BY <1>1, <1>2, <1>3 DEF DeleteToken, ServerDone, clients
<1>5. /\ workerAt'[w] = next
      /\ \A v \in Workers : v # w => workerAt'[v] = workerAt[v] /\ server'[v] = server[v]
  BY <1>4 DEF TypeOK, EndsTypeOK
<1>6. MeantInv'
  BY <1>3, <1>4, <1>5, MeantStays DEF CauseInv
<1>7. ShutInv'
  BY <1>1, <1>4, ShutStays DEF CauseInv
<1>8. SpentAtInv'
  <2>1. ASSUME NEW t \in Tokens PROVE t \in tokens' \/ \E q \in spent' : q.token = t
    BY <1>2, <1>4 DEF CauseInv, SpentAtInv
  <2>2. ASSUME NEW q \in spent'
        PROVE  /\ q.conn <= accepted'
               /\ \A v \in Workers : workerAt'[v].conn = q.conn
                    => workerAt'[v].step \in {"success", "idle"}
    <3>1. CASE q = p
      <4>1. \A v \in Workers : v # w => workerAt[v].conn # c
        BY <1>1 DEF Apart
      <4>. QED BY <1>1, <1>2, <1>3, <1>4, <1>5, <3>1, <4>1
    <3>2. CASE q \in spent
      BY <1>3, <1>4, <1>5, <3>2 DEF CauseInv, SpentAtInv
    <3>. QED BY <1>4, <2>2, <3>1, <3>2
  <2>. QED BY <2>1, <2>2 DEF SpentAtInv
<1>. QED BY <1>6, <1>7, <1>8 DEF CauseInv

LEMMA AcceptCause ==
  ASSUME ZapInv, CauseInv, NEW w \in Workers, Accept(w)
  PROVE  CauseInv'
<1>1. accepted \in Nat /\ dialed \in Nat /\ accepted' = accepted + 1
  BY DEF Accept, TypeOK, WireTypeOK
<1>2. PICK next : next.step = "hello" /\ next.conn = accepted + 1
                  /\ workerAt' = [workerAt EXCEPT ![w] = next]
  BY DEF Accept
<1>3. PICK h : server' = [server EXCEPT ![w] = h]
  BY DEF Accept
<1>4. UNCHANGED <<dialed, up, shut, broken, userAt, tokens, spent, alive>>
  BY DEF Accept, clients
<1>5. /\ workerAt'[w].step = "hello" /\ workerAt'[w].conn = accepted + 1
      /\ \A v \in Workers : v # w => workerAt'[v] = workerAt[v] /\ server'[v] = server[v]
  BY <1>2, <1>3 DEF TypeOK, EndsTypeOK
<1>6. MeantInv'
  BY <1>4, <1>5, MeantStays DEF CauseInv
<1>7. SpentAtInv'
  BY <1>1, <1>4, <1>5, SpentAtStays DEF CauseInv
<1>8. ShutInv'
  BY <1>1, <1>4, ShutStays DEF CauseInv
<1>. QED BY <1>6, <1>7, <1>8 DEF CauseInv

LEMMA DialCause ==
  ASSUME ZapInv, CauseInv, NEW u \in Users, Dial(u)
  PROVE  CauseInv'
<1>0. /\ dialed \in Nat /\ MaxConns \in Nat
      /\ dialed < MaxConns /\ dialed' = dialed + 1
  BY ZapAssumption DEF ZapAssumption, Dial, TypeOK, WireTypeOK
<1>1. PICK c \in Conns : c = dialed + 1 /\ dialed' = c /\ dialed \in Nat /\ c \in Nat
  BY <1>0 DEF Conns
<1>2. /\ userAt' = [userAt EXCEPT ![u] = [step |-> "hello", conn |-> c]]
      /\ UNCHANGED <<accepted, up, shut, broken, server, workerAt, tokens, spent, alive>> /\ alive
  BY <1>1 DEF Dial, servers
<1>3. /\ userAt'[u].conn = c
      /\ \A v \in Users : v # u => userAt'[v] = userAt[v]
  BY <1>2 DEF TypeOK, EndsTypeOK
<1>4. up[c] = <<>> /\ shut[c] = {}
  BY <1>1, <1>2 DEF PipesInv, PipeOK, CauseInv, ShutInv
<1>5. accepted \in Nat /\ accepted <= dialed
  BY DEF TypeOK, WireTypeOK
<1>6. \A w \in Workers : workerAt[w].conn # c
  BY <1>1, <1>5 DEF TypeOK, EndsTypeOK
<1>7. MeantInv'
  <2>1. ASSUME NEW v \in Users, NEW d, d = userAt'[v].conn, d # None
        PROVE  /\ Receives(up[d], "ClientHello") => Head(up[d]).method = UserConfig[v].method
               /\ Receives(up[d], "ClientResponse") =>
                    Head(up[d]).data = GenerateResponse(UserConfig[v])
    <3>1. CASE v = u
      BY <1>3, <1>4, <2>1, <3>1 DEF Receives
    <3>2. CASE v # u
      BY <1>3, <2>1, <3>2 DEF CauseInv, MeantInv
    <3>. QED BY <3>1, <3>2
  <2>2. ASSUME NEW v \in Users, NEW w \in Workers, userAt'[v].conn = workerAt[w].conn,
               workerAt[w].step \in {"challenge", "response"}
        PROVE  server[w].method = UserConfig[v].method
    <3>1. v # u
      BY <1>3, <1>6, <2>2
    <3>. QED BY <1>3, <2>2, <3>1 DEF CauseInv, MeantInv
  <2>. QED BY <1>2, <2>1, <2>2 DEF MeantInv, Receives
<1>8. SpentAtInv'
  BY <1>2, <1>5, SpentAtStays DEF CauseInv
<1>9. ShutInv'
  BY <1>1, <1>2, <1>3, <1>4, ShutStays DEF CauseInv
<1>. QED BY <1>7, <1>8, <1>9 DEF CauseInv

LEMMA ConcurrentMapAccessCause ==
  ASSUME ZapInv, CauseInv, ConcurrentMapAccess
  PROVE  CauseInv'
<1>1. /\ UNCHANGED <<dialed, accepted, up, broken, userAt, server, tokens, spent>>
      /\ alive' = FALSE
      /\ workerAt' = [w \in Workers |-> [workerAt[w] EXCEPT !.step = "idle"]]
      /\ shut' = [c \in Conns |-> shut[c] \cup {"server"}]
  BY DEF ConcurrentMapAccess, clients, At
<1>2. \A w \in Workers : workerAt'[w].conn = workerAt[w].conn /\ workerAt'[w].step = "idle"
  BY <1>1 DEF TypeOK, EndsTypeOK
<1>3. MeantInv'
  BY <1>1, <1>2, MeantStays DEF CauseInv
<1>4. SpentAtInv'
  BY <1>1, <1>2, SpentAtStays DEF CauseInv, TypeOK, WireTypeOK
<1>5. ShutInv'
  <2>1. ASSUME NEW u \in Users, Busy(u), "client" \in shut'[userAt[u].conn]
        PROVE  userAt[u].conn \in broken
    <3>1. userAt[u].conn \in Conns
      BY <2>1, UserOn DEF Busy
    <3>2. "client" \in shut[userAt[u].conn]
      BY <1>1, <2>1, <3>1
    <3>. QED BY <2>1, <3>2 DEF CauseInv, ShutInv
  <2>2. \A u \in Users : Excuse(u)'
    BY <1>1 DEF Excuse
  <2>. QED BY <1>1, <2>1, <2>2 DEF ShutInv, Busy
<1>. QED BY <1>3, <1>4, <1>5 DEF CauseInv

LEMMA BreakCause ==
  ASSUME ZapInv, CauseInv, NEW c \in Conns, Break(c)
  PROVE  CauseInv'
<1>1. /\ UNCHANGED <<dialed, accepted, up, userAt, server, workerAt, tokens, spent, alive>>
      /\ shut' = [shut EXCEPT ![c] = {"client", "server"}] /\ broken' = broken \cup {c}
      /\ c <= dialed /\ dialed \in Nat /\ accepted \in Nat
  BY DEF Break, clients, servers, TypeOK, WireTypeOK
<1>2. MeantInv'
  BY <1>1, MeantStays DEF CauseInv
<1>3. SpentAtInv'
  BY <1>1, SpentAtStays DEF CauseInv
<1>4. ShutInv'
  <2>1. \A d \in Conns : d # c => shut'[d] = shut[d]
    BY <1>1 DEF TypeOK, WireTypeOK
  <2>2. \A d \in Conns : d > dialed => d # c
    BY <1>1 DEF Conns
  <2>3. ASSUME NEW u \in Users, Busy(u)
        PROVE  /\ "client" \in shut'[userAt[u].conn] => userAt[u].conn \in broken'
               /\ Acceptable(UserConfig[u]) /\ "server" \in shut'[userAt[u].conn] => Excuse(u)'
    <3>1. userAt[u].conn \in Conns
      BY <2>3, UserOn DEF Busy
    <3>2. Excuse(u) => Excuse(u)'
      BY <1>1, ExcuseStays
    <3>3. CASE userAt[u].conn = c
      BY <1>1, <3>3 DEF Excuse
    <3>4. CASE userAt[u].conn # c
      BY <1>1, <2>1, <2>3, <3>1, <3>2, <3>4 DEF CauseInv, ShutInv
    <3>. QED BY <3>3, <3>4
  <2>4. \A u \in Users : Acceptable(UserConfig[u])' = Acceptable(UserConfig[u])
    BY DEF Acceptable, CanRespond, Providers
  <2>. QED BY <1>1, <2>1, <2>2, <2>3, <2>4 DEF CauseInv, ShutInv, Busy
<1>. QED BY <1>2, <1>3, <1>4 DEF CauseInv

LEMMA CauseInit == Init => CauseInv
<1>. SUFFICES ASSUME Init PROVE CauseInv
  OBVIOUS
<1>1. MeantInv
  BY DEF Init, MeantInv
<1>2. SpentAtInv
  BY DEF Init, SpentAtInv
<1>3. ShutInv
  BY DEF Init, ShutInv, Busy
<1>. QED BY <1>1, <1>2, <1>3 DEF CauseInv

LEMMA CauseStep == ZapInv /\ CauseInv /\ [Next]_vars => CauseInv'
<1>. SUFFICES ASSUME ZapInv, CauseInv, [Next]_vars PROVE CauseInv'
  OBVIOUS
<1>1. CASE \E u \in Users : Dial(u) \/ UserStep(u)
  BY <1>1, DialCause, SendClientHelloCause, ReceiveServerChallengeCause,
     SendClientResponseCause, ReceiveServerSuccessCause DEF UserStep
<1>2. CASE \E w \in Workers : WorkerStep(w)
  BY <1>2, AcceptCause, ReceiveClientHelloCause, SendServerChallengeCause,
     ReceiveClientResponseCause, DeleteTokenCause, SendServerSuccessCause DEF WorkerStep
<1>3. CASE ConcurrentMapAccess
  BY <1>3, ConcurrentMapAccessCause
<1>4. CASE \E c \in Conns : Break(c)
  BY <1>4, BreakCause
<1>5. CASE UNCHANGED vars
  <2>1. UNCHANGED <<dialed, accepted, up, shut, broken, userAt, server, workerAt, tokens, spent,
                    alive>>
    BY <1>5 DEF vars, wire, clients, servers
  <2>2. MeantInv' /\ SpentAtInv'
    BY <2>1, MeantStays, SpentAtStays DEF CauseInv, TypeOK, WireTypeOK
  <2>3. ShutInv'
    BY <2>1, ShutStays DEF CauseInv, TypeOK, WireTypeOK
  <2>. QED BY <2>2, <2>3 DEF CauseInv
<1>. QED BY <1>1, <1>2, <1>3, <1>4, <1>5 DEF Next

\* Nobody but a client ends its handshake.
LEMMA EndsItself ==
  ASSUME ZapInv, [Next]_vars, NEW u \in Users, Busy(u), userAt'[u].step = "idle"
  PROVE  UserStep(u)
<1>1. CASE \E v \in Users : Dial(v) \/ UserStep(v)
  <2>1. PICK v \in Users : Dial(v) \/ UserStep(v)
    BY <1>1
  <2>2. CASE v = u
    BY <2>1, <2>2 DEF Dial, Busy
  <2>3. CASE v # u
    <3>1. \E n : userAt' = [userAt EXCEPT ![v] = n]
      BY <2>1 DEF Dial, UserStep, SendClientHello, ReceiveServerChallenge, SendClientResponse,
                  ReceiveServerSuccess, ClientDone, ClientFails
    <3>2. userAt'[u] = userAt[u]
      BY <2>3, <3>1 DEF TypeOK, EndsTypeOK
    <3>. QED BY <3>2 DEF Busy
  <2>. QED BY <2>2, <2>3
<1>2. CASE \E w \in Workers : WorkerStep(w)
  <2>1. PICK w \in Workers : WorkerStep(w)
    BY <1>2
  <2>2. UNCHANGED clients
    <3>1. CASE ReceiveClientHello(w)
      BY <3>1 DEF ReceiveClientHello, ServerDone, ServerFails
    <3>2. CASE SendServerChallenge(w)
      BY <3>2 DEF SendServerChallenge, ServerDone, ServerFails
    <3>3. CASE ReceiveClientResponse(w)
      BY <3>3 DEF ReceiveClientResponse, ServerDone, ServerFails
    <3>4. CASE Accept(w) \/ DeleteToken(w)
      BY <3>4 DEF Accept, DeleteToken, ServerDone
    <3>5. CASE SendServerSuccess(w)
      BY <3>5 DEF SendServerSuccess, ServerDone, ServerFails
    <3>. QED BY <2>1, <3>1, <3>2, <3>3, <3>4, <3>5 DEF WorkerStep
  <2>. QED BY <2>2 DEF clients, Busy
<1>3. CASE ConcurrentMapAccess \/ (\E c \in Conns : Break(c)) \/ UNCHANGED vars
  BY <1>3 DEF ConcurrentMapAccess, Break, vars, clients, Busy
<1>. QED BY <1>1, <1>2, <1>3 DEF Next

\* A client whose configuration fits the server's fails only if its connection
\* broke, the server is dead or its token came with another connection: with any
\* number of handshakes under way, neither end misreads what the other has
\* written, and neither closes a connection the other still needs.
THEOREM FailuresHaveCauses == Spec => FailsForCause
<1>1. ASSUME ZapInv, CauseInv, [Next]_vars, NEW u \in Users,
             userAt[u].step # "idle", userAt'[u].step = "idle",
             client'[u].state # "Authenticated", Acceptable(UserConfig[u])
      PROVE  \/ userAt[u].conn \in broken \/ ~alive
             \/ \E p \in spent : p.token = UserConfig[u].token /\ p.conn # userAt[u].conn
  <2>1. UserStep(u)
    BY <1>1, EndsItself DEF Busy
  <2>2. Excuse(u)
    BY <1>1, <2>1, ClientFailureExcused
  <2>. QED BY <2>2 DEF Excuse
<1>2. ZapInv /\ CauseInv /\ [Next]_vars =>
        [\A u \in Users :
           userAt[u].step # "idle" /\ userAt'[u].step = "idle" /\ client'[u].state # "Authenticated"
           /\ Acceptable(UserConfig[u])
           => \/ userAt[u].conn \in broken \/ ~alive
              \/ \E p \in spent : p.token = UserConfig[u].token /\ p.conn # userAt[u].conn]_vars
  BY <1>1
<1>. QED BY <1>2, ZapInit, ZapStep, CauseInit, CauseStep, PTL DEF Spec, FailsForCause
==============================================================================
