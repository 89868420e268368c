------------------------------- MODULE Socks5 -------------------------------
(***************************************************************************)
(* The SOCKS5 server, whose DialFunc is the outbound connector: the accept *)
(* loop, and one handler per client that negotiates, authenticates, dials  *)
(* and relays with two copying goroutines.                                 *)
(*                                                                         *)
(* A client sends a message and waits for the answer.  The first Read of a *)
(* message returns as many of its bytes as have arrived, the handler's     *)
(* minimum at least; buffers count from 0 and start out as zeros.  The     *)
(* relay is seen as its goroutines only, without the data.                 *)
(***************************************************************************)
EXTENDS ZtpOutbound, Sequences

CONSTANTS
  Starts,     \* what config.RequireAuth is and what each client sends:
              \* [requireAuth, profile], a profile being [offers, auth, request]
  BufferSize  \* of the buffers: 513 and 262 in the code, where every message fits

\* The user and password of the configuration: "ab" and "p".
Username == <<97, 98>>
Password == <<112>>

Bytes == 0..255

\* The messages of a client that speaks SOCKS5: user and password (RFC 1929), and
\* a request with an IPv4 address, a domain name, an IPv6 address or neither.
Auths ==
  {m \in Seq(Bytes) : /\ Len(m) \in 3..BufferSize /\ m[1] = 1 /\ Len(m) >= 3 + m[2]
                      /\ Len(m) = 3 + m[2] + m[3 + m[2]]}
Requests ==
  {m \in Seq(Bytes) : /\ Len(m) \in 4..BufferSize /\ m[1] = 5
                      /\ m[4] = 1 => Len(m) = 10
                      /\ m[4] = 3 => Len(m) >= 5 /\ Len(m) = 7 + m[5]
                      /\ m[4] = 4 => Len(m) = 22}
Profiles == [offers : SUBSET Bytes, auth : Auths, request : Requests]

ASSUME Socks5Assumption ==
  /\ Starts \subseteq [requireAuth : BOOLEAN, profile : [Callers -> Profiles]]
  /\ BufferSize \in Nat

VARIABLES
  requireAuth,  \* config.RequireAuth
  listening,    \* the listener is open, and acceptLoop runs
  profile,      \* the messages of each client
  gone,         \* the client has closed its connection
  handler,      \* where handleConnection is
  dialled,      \* the target DialFunc is asked for, and whether the length of its
                \* address was read before it was looked up
  copying,      \* per client and direction, the goroutine that copies
  errCh         \* results in the channel of each relay

config == <<requireAuth, profile>>
socksVars == <<config, listening, gone, handler, dialled, copying, errCh>>
vars == <<outboundVars, socksVars>>

Clients == Callers
Ways == {"up", "down"}
Reading == {"greeting", "auth", "request", "stuck"}
Stages == {"none", "dialling", "answer", "refuse", "relay", "ended"} \cup Reading
NoTarget == [host |-> <<>>, port |-> <<>>, sure |-> FALSE]

TypeOK ==
  /\ OutboundTypeOK
  /\ requireAuth \in BOOLEAN /\ listening \in BOOLEAN
  /\ [requireAuth |-> requireAuth, profile |-> profile] \in Starts
  /\ gone \in [Clients -> BOOLEAN]
  /\ handler \in [Clients -> Stages]
  /\ dialled \in [Clients -> [host : Seq(Bytes), port : Seq(Bytes), sure : BOOLEAN]]
  /\ copying \in [Clients -> [Ways -> {"none", "copy", "done"}]]
  /\ errCh \in [Clients -> 0..2]

Init ==
  /\ OutboundInit
  /\ \E s \in Starts : requireAuth = s.requireAuth /\ profile = s.profile
  /\ listening = TRUE
  /\ gone = [c \in Clients |-> FALSE]
  /\ handler = [c \in Clients |-> "none"]
  /\ dialled = [c \in Clients |-> NoTarget]
  /\ copying = [c \in Clients |-> [w \in Ways |-> "none"]]
  /\ errCh = [c \in Clients |-> 0]

----------------------------------------------------------------------------
(* Buffers. *)

\* What the first n bytes of message m make of a fresh buffer.
Buffer(m, n) == [i \in 0..(BufferSize - 1) |-> IF i < n THEN m[i + 1] ELSE 0]

\* buf[at:at+k] after io.ReadFull of k bytes, the message having been read up to r.
ReadInto(buf, at, m, r, k) ==
  [i \in DOMAIN buf |-> IF at <= i /\ i < at + k THEN m[r + i - at + 1] ELSE buf[i]]

Slice(buf, from, to) == [i \in 1..(to - from) |-> buf[from + i - 1]]

Missing(n, want) == IF n < want THEN want - n ELSE 0

\* Where authenticate leads: the length of the password is looked up before its byte is known
\* to be there, and what was read after the first Read is not counted in n.
AuthResult(m, n) ==
  LET ulen == Buffer(m, n)[1]
      k1   == Missing(n, 2 + ulen)
      buf1 == ReadInto(Buffer(m, n), n, m, n, k1)
      plen == buf1[2 + ulen]
      k2   == Missing(n, 2 + ulen + 1 + plen)
      buf2 == ReadInto(buf1, n, m, n + k1, k2)
  IN IF n + k1 + k2 > Len(m) THEN "stuck"
     ELSE IF /\ Slice(buf1, 2, 2 + ulen) = Username
             /\ Slice(buf2, 2 + ulen + 1, 2 + ulen + 1 + plen) = Password
     THEN "request" ELSE "ended"

\* The length of an address of ATYP 1, 3 or 4; that of a domain is looked up before
\* its byte is known to be there.
AddressLen(m, n) == IF m[4] = 1 THEN 4 ELSE IF m[4] = 3 THEN Buffer(m, n)[4] ELSE 16

\* Mutated: the second read of the request goes to the start of the address.
TargetShifted(m, n) ==
  LET len  == AddressLen(m, n)
      from == IF m[4] = 3 THEN 5 ELSE 4
      buf  == ReadInto(Buffer(m, n), 4, m, n, Missing(n, from + len + 2))
  IN [host |-> Slice(buf, from, from + len), port |-> Slice(buf, from + len, from + len + 2)]

\* handleRequest: the address and port.
Target(m, n) ==
  LET len  == AddressLen(m, n)
      from == IF m[4] = 3 THEN 5 ELSE 4
      buf  == ReadInto(Buffer(m, n), n, m, n, Missing(n, from + len + 2))
  IN [host |-> Slice(buf, from, from + len), port |-> Slice(buf, from + len, from + len + 2)]

\* The messages a client means: what authenticates it, and the target it asks for.
RightAuth == <<1, Len(Username)>> \o Username \o <<Len(Password)>> \o Password
Meant(m) == [host |-> SubSeq(m, IF m[4] = 3 THEN 6 ELSE 5, Len(m) - 2),
             port |-> SubSeq(m, Len(m) - 1, Len(m))]

----------------------------------------------------------------------------
(* The listener. *)

Accept(c) ==
  /\ listening /\ handler[c] = "none" /\ ~gone[c]
  /\ handler' = [handler EXCEPT ![c] = "greeting"]
  /\ UNCHANGED <<outboundVars, config, listening, gone, dialled, copying, errCh>>

\* Server.Close leaves the connections alone.
CloseServer ==
  /\ listening /\ listening' = FALSE
  /\ UNCHANGED <<outboundVars, config, gone, handler, dialled, copying, errCh>>

ClientLeaves(c) ==
  /\ handler[c] \notin {"none", "ended"} /\ ~gone[c]
  /\ gone' = [gone EXCEPT ![c] = TRUE]
  /\ UNCHANGED <<outboundVars, config, listening, handler, dialled, copying, errCh>>

----------------------------------------------------------------------------
(* The handler. *)

\* The handler goes on, and touches nothing but what is named beside it.
Step(c, from, to) == handler[c] = from /\ handler' = [handler EXCEPT ![c] = to]

\* A Read that finds the connection closed, or waits for bytes that do not come;
\* a message that came just before the end changes nothing in what follows.
ReadFails(c) ==
  /\ handler[c] \in Reading /\ gone[c]
  /\ Step(c, handler[c], "ended")
  /\ UNCHANGED <<outboundVars, config, listening, gone, dialled, copying, errCh>>

\* negotiate reads all the methods, however they arrive.
Method(c) ==
  IF ~requireAuth /\ 0 \in profile[c].offers THEN 0
  ELSE IF requireAuth /\ 2 \in profile[c].offers THEN 2 ELSE 255

Negotiate(c) ==
  /\ ~gone[c]
  /\ \/ Method(c) = 0 /\ Step(c, "greeting", "request")
     \/ Method(c) = 2 /\ Step(c, "greeting", "auth")
     \/ Method(c) = 255 /\ Step(c, "greeting", "ended")
  /\ UNCHANGED <<outboundVars, config, listening, gone, dialled, copying, errCh>>

CheckUser(c) ==
  /\ ~gone[c]
  /\ \E n \in 2..Len(profile[c].auth) :
       Step(c, "auth", AuthResult(profile[c].auth, n))
  /\ UNCHANGED <<outboundVars, config, listening, gone, dialled, copying, errCh>>

\* A command other than CONNECT, or an unknown type of address, is refused.
Supported(m) == m[2] = 1 /\ m[4] \in {1, 3, 4}

HandleRequest(c) ==
  /\ ~gone[c] /\ handler[c] = "request"
  /\ IF Supported(profile[c].request)
     THEN /\ \E n \in 4..Len(profile[c].request) :
               LET target == Target(profile[c].request, n)
               IN dialled' = [dialled EXCEPT ![c] =
                                [host |-> target.host, port |-> target.port,
                                 sure |-> profile[c].request[4] # 3 \/ n > 4]]
          /\ Step(c, "request", "dialling") /\ StartDial(c)
     ELSE /\ Step(c, "request", "ended") /\ UNCHANGED <<outboundVars, dialled>>
  /\ UNCHANGED <<config, listening, gone, copying, errCh>>

\* The dial has failed: the reply says so, and the handler returns.
Refuse(c) ==
  /\ dial[c] = "failed" /\ Step(c, "dialling", "ended")
  /\ dialled' = [dialled EXCEPT ![c] = NoTarget]
  /\ UNCHANGED <<outboundVars, config, listening, gone, copying, errCh>>

CloseTarget(c) ==
  /\ CloseStream(c)
  /\ UNCHANGED <<mu, closing, session, tlsConn, links, sessions, loops, dial, closes>>

\* The reply is written, or cannot be because the client has gone.
Answer(c) ==
  /\ dial[c] = "connected"
  /\ \/ /\ Step(c, "dialling", "relay")
        /\ copying' = [copying EXCEPT ![c] = [w \in Ways |-> "copy"]]
        /\ UNCHANGED outboundVars
     \/ /\ gone[c] /\ Step(c, "dialling", "ended")
        /\ CloseTarget(c) /\ UNCHANGED copying
  /\ dialled' = [dialled EXCEPT ![c] = NoTarget]
  /\ UNCHANGED <<config, listening, gone, errCh>>

----------------------------------------------------------------------------
(* The relay. *)

\* io.Copy has to end: its own end is closed, the client has gone, or the session
\* of the stream has ended, which only a read of the stream notices by itself.
MustEnd(c, w) ==
  handler[c] = "ended" \/ gone[c] \/ (w = "down" /\ sessions[stream[c].on] = "closed")

ErrChCapacity == 2

\* errCh <- err: there is room, or the handler is waiting.
CanReport(c) == errCh[c] < ErrChCapacity \/ (handler[c] = "relay" /\ errCh[c] = 0)

\* The stream may also end, stay silent for 30 s, or fail to take a write.
CopyEnds(c, w) ==
  /\ copying[c][w] = "copy"
  /\ w = "down" \/ MustEnd(c, w) \/ sessions[stream[c].on] = "closed"
  /\ CanReport(c)
  /\ errCh' = [errCh EXCEPT ![c] = @ + 1]
  /\ copying' = [copying EXCEPT ![c][w] = "done"]
  /\ UNCHANGED <<outboundVars, config, listening, gone, handler, dialled>>

\* The first result ends the relay: both connections are closed.
FinishRelay(c) ==
  /\ errCh[c] > 0 /\ errCh' = [errCh EXCEPT ![c] = @ - 1]
  /\ Step(c, "relay", "ended") /\ CloseTarget(c)
  /\ UNCHANGED <<config, listening, gone, dialled, copying>>

----------------------------------------------------------------------------
HandlerStep(c) ==
  \/ ReadFails(c) \/ Negotiate(c) \/ CheckUser(c) \/ HandleRequest(c)
  \/ Refuse(c) \/ Answer(c) \/ FinishRelay(c)
  \/ (DialStep(c) /\ UNCHANGED socksVars)

Next ==
  \/ \E c \in Clients : \/ Accept(c) \/ ClientLeaves(c) \/ HandlerStep(c)
                        \/ \E w \in Ways : CopyEnds(c, w)
  \/ CloseServer
  \/ (OutboundEvent /\ UNCHANGED socksVars)

\* Goroutines that can go on do. Nothing makes the server answer or the loops of a
\* session leave: Authenticate may end in silence, and LoopFails may come at any time.
FairSpec ==
  /\ Init /\ [][Next]_vars
  /\ \A c \in Clients : /\ WF_vars(HandlerStep(c))
                        /\ \A w \in Ways : WF_vars(CopyEnds(c, w) /\ MustEnd(c, w))
  /\ WF_vars((EnterClose \/ FinishClose) /\ UNCHANGED socksVars)

----------------------------------------------------------------------------
(* Properties. *)

\* However its messages are cut into segments, a client that must authenticate
\* gets to the request only with the right user and password.
AuthSound ==
  \A c \in Clients :
    requireAuth /\ handler[c] \in {"request", "dialling", "relay"} =>
      profile[c].auth = RightAuth

\* handleRequest dials what the client asked for; the one exception is a domain name
\* whose length byte had not arrived with the first four bytes.
TargetMisreadOnlyIfSplit ==
  \A c \in Clients :
    LET request == profile[c].request IN
    dialled[c] # NoTarget /\ dialled[c].sure =>
      [host |-> dialled[c].host, port |-> dialled[c].port] = Meant(request)

\* A handler that has returned has closed the stream registered for it, on every path
\* out of handleRequest; the one exception is a stream whose OPEN frame could not be
\* queued: OpenStream returns an error, and nobody removes it before the session closes.
StreamsClosed ==
  \A c \in Clients :
    handler[c] = "ended" /\ stream[c].on # 0 => stream[c].closed \/ dial[c] = "failed"

\* The dial waits for a lock that is never given back, or for a silent server.
WaitsForEver(c) ==
  handler[c] = "dialling" /\ dial[c] \in {"ensure", "lock", "silent"} /\ ConnectorHangs

\* A client that leaves does not keep its handler in handleConnection: not in a read,
\* not in the relay, and in a dial only if the connector hangs.
HandlerEnds == \A c \in Clients : gone[c] ~> handler[c] = "ended" \/ WaitsForEver(c)

\* The two goroutines of a relay do not outlive the handler for ever: the one whose
\* result nobody takes can still report it.
CopiesEnd ==
  \A c \in Clients :
    handler[c] = "ended" ~> \A w \in Ways : copying[c][w] \in {"none", "done"}

\* DialContext gets an answer, although others dial and close the connector meanwhile,
\* unless the connector hangs.
DialsEnd ==
  \A c \in Clients : handler[c] = "dialling" ~> handler[c] # "dialling" \/ WaitsForEver(c)

\* What the messages of a client lead to is what it meant, however they are cut.
TakenAsMeant == TypeOK /\ AuthSound /\ TargetMisreadOnlyIfSplit

\* Whatever fails, each connection and session, and each stream but those whose OPEN
\* frame could not be queued, is closed or in the hands of somebody who may close it.
NothingLeaks == NoOrphanLink /\ OneSession /\ StreamsClosed

\* Every goroutine of a client that leaves ends, and so does every dial, unless it waits
\* for a connector that hangs in one of the ways ConnectorHangs names.
GoroutinesEnd == HandlerEnds /\ CopiesEnd /\ DialsEnd
=============================================================================
