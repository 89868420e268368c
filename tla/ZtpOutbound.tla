---------------------------- MODULE ZtpOutbound ----------------------------
(***************************************************************************)
(* The outbound connector that carries every connection as a stream of one *)
(* ZTP session, which runs over a TLS connection.  The first caller makes  *)
(* the session with the write lock held, and the others wait for it.       *)
(*                                                                         *)
(* A TLS connection and the session over it have the same number.  What    *)
(* the server answers (TLS, Zap) is a choice, and so are timeouts; of the  *)
(* session only its end is modelled (ZtpSession has the whole).            *)
(***************************************************************************)
EXTENDS Naturals, FiniteSets

CONSTANTS
  Callers,    \* goroutines that call DialContext, once each
  MaxLinks,   \* bound: TLS connections that are made
  MaxCloses   \* bound: calls of Outbound.Close

Closer == "closer"   \* the goroutine in Outbound.Close
Nobody == "nobody"

ASSUME OutboundAssumption ==
  /\ Closer \notin Callers /\ Nobody \notin Callers
  /\ MaxLinks \in Nat /\ MaxCloses \in Nat

VARIABLES
  mu,        \* who has o.mu for writing
  closing,   \* where Session.Close is that the holder of the lock has called
  session,   \* o.session; 0 is nil
  tlsConn,   \* o.tlsConn; 0 is nil
  links,     \* the TLS connections
  sessions,  \* the sessions over them; one that somebody closes is closed
  loops,     \* of each session: its loops run or have left, processLoop is inside
             \* Session.Close, or one is stuck until the transport is closed
  dial,      \* where each call of DialContext is
  stream,    \* the stream the call returned: its session, and whether it is closed
  closes     \* calls of Close so far

outboundVars == <<mu, closing, session, tlsConn, links, sessions, loops, dial, stream, closes>>

Links == 1..MaxLinks
Dialling ==
  {"ensure", "lock", "dial", "handshake", "zap", "silent", "start", "open", "queue"}
NoStream == [on |-> 0, closed |-> FALSE]

OutboundTypeOK ==
  /\ mu \in Callers \cup {Closer, Nobody} /\ closing \in {"no", "once", "wait"}
  /\ session \in 0..MaxLinks /\ tlsConn \in 0..MaxLinks
  /\ links \in [Links -> {"unused", "open", "closed"}]
  /\ sessions \in [Links -> {"none", "started", "closed"}]
  /\ loops \in [Links -> {"run", "closing", "stuck", "left"}]
  /\ dial \in [Callers -> {"idle", "failed", "connected"} \cup Dialling]
  /\ stream \in [Callers -> [on : 0..MaxLinks, closed : BOOLEAN]]
  /\ closes \in 0..MaxCloses
  /\ \A c \in Callers : dial[c] \in {"open", "queue", "connected"} => stream[c].on # 0

OutboundInit ==
  /\ mu = Nobody /\ closing = "no" /\ session = 0 /\ tlsConn = 0
  /\ links = [l \in Links |-> "unused"] /\ sessions = [l \in Links |-> "none"]
  /\ loops = [l \in Links |-> "run"]
  /\ dial = [c \in Callers |-> "idle"] /\ stream = [c \in Callers |-> NoStream]
  /\ closes = 0

----------------------------------------------------------------------------
(* DialContext *)

Goto(c, next) == dial' = [dial EXCEPT ![c] = next]

StartDial(c) ==
  /\ dial[c] = "idle"
  /\ Goto(c, "ensure")
  /\ UNCHANGED <<mu, session, tlsConn, links, sessions, stream, closes, closing, loops>>

\* The session the caller will use; a session that has ended is not told apart.
Use(c) == Goto(c, "open") /\ stream' = [stream EXCEPT ![c].on = session]

\* ensureSession under the read lock.
ReadSession(c) ==
  /\ dial[c] = "ensure" /\ mu = Nobody
  /\ IF session # 0 THEN Use(c) ELSE Goto(c, "lock") /\ UNCHANGED stream
  /\ UNCHANGED <<mu, session, tlsConn, links, sessions, closes, closing, loops>>

\* Mutated: no second look at o.session.
LockSessionOnce(c) ==
  /\ dial[c] = "lock" /\ mu = Nobody
  /\ Goto(c, "dial") /\ mu' = c /\ UNCHANGED stream
  /\ UNCHANGED <<session, tlsConn, links, sessions, closes, closing, loops>>

\* The write lock, and the second look.
LockSession(c) ==
  /\ dial[c] = "lock" /\ mu = Nobody
  /\ IF session # 0 THEN Use(c) /\ UNCHANGED mu
                    ELSE Goto(c, "dial") /\ mu' = c /\ UNCHANGED stream
  /\ UNCHANGED <<session, tlsConn, links, sessions, closes, closing, loops>>

\* createSession returns an error, and ensureSession gives the lock up.
Fail(c) == Goto(c, "failed") /\ mu' = Nobody

\* The connection that the holder of the lock is making.
Made == CHOOSE l \in Links : links[l] # "unused" /\ \A k \in Links : k > l => links[k] = "unused"

CloseTls(l) == [links EXCEPT ![l] = "closed"]

\* The base connection of TLSTransport.Dial.
DialBase(c) ==
  /\ dial[c] = "dial"
  /\ \/ \E l \in Links :
          /\ links[l] = "unused" /\ \A k \in Links : k < l => links[k] # "unused"
          /\ links' = [links EXCEPT ![l] = "open"]
          /\ Goto(c, "handshake") /\ UNCHANGED mu
     \/ Fail(c) /\ UNCHANGED links
  /\ UNCHANGED <<session, tlsConn, sessions, stream, closes, closing, loops>>

\* The TLS handshake succeeds, fails, or takes too long.
Handshake(c) ==
  /\ dial[c] = "handshake"
  /\ \/ Goto(c, "zap") /\ UNCHANGED <<mu, links>>
     \/ Fail(c) /\ links' = CloseTls(Made)
  /\ UNCHANGED <<session, tlsConn, sessions, stream, closes, closing, loops>>

\* The Zap handshake: DoClientHandshake has no deadline, and a server that does not
\* answer keeps it waiting.
Authenticate(c) ==
  /\ dial[c] = "zap"
  /\ \/ \E next \in {"start", "silent"} : Goto(c, next) /\ UNCHANGED <<mu, links>>
     \/ Fail(c) /\ links' = CloseTls(Made)
  /\ UNCHANGED <<session, tlsConn, sessions, stream, closes, closing, loops>>

\* NewSession and Start do not fail for a fresh session over a connection.
StartSession(c) ==
  /\ dial[c] = "start"
  /\ sessions' = [sessions EXCEPT ![Made] = "started"]
  /\ session' = Made /\ tlsConn' = Made
  /\ mu' = Nobody
  /\ Goto(c, "open") /\ stream' = [stream EXCEPT ![c].on = Made]
  /\ UNCHANGED <<links, closes, closing, loops>>

\* OpenStream fails on a session that has ended and at the limit of identifiers;
\* else the stream is registered, whatever becomes of it.
OpenStream(c) ==
  /\ dial[c] = "open"
  /\ \/ sessions[stream[c].on] = "started" /\ Goto(c, "queue") /\ UNCHANGED stream
     \/ Goto(c, "failed") /\ stream' = [stream EXCEPT ![c] = NoStream]
  /\ UNCHANGED <<mu, session, tlsConn, links, sessions, closes, closing, loops>>

\* Its frame is queued, or sendFrame fails because the session closes or after 5 s;
\* then the caller gets no stream, and the one registered stays where it is.
QueueOpen(c) ==
  /\ dial[c] = "queue"
  /\ Goto(c, "connected") \/ Goto(c, "failed")
  /\ UNCHANGED <<mu, session, tlsConn, links, sessions, stream, closes, closing, loops>>

----------------------------------------------------------------------------
(* How a session ends. *)

\* processLoop takes an error and finds the session open in Close; or it waits to
\* report an error where only it takes errors, or sendLoop writes to a server that
\* does not read.
LoopFails(l) ==
  /\ sessions[l] # "none" /\ loops[l] = "run"
  /\ \/ sessions[l] = "started" /\ loops' = [loops EXCEPT ![l] = "closing"]
     \/ loops' = [loops EXCEPT ![l] = "stuck"]
  /\ UNCHANGED <<mu, closing, session, tlsConn, links, sessions, dial, stream, closes>>

\* processLoop is the first in closeOnce: it ends the streams, waits for itself and so
\* never closes the transport.
LoopCloses(l) ==
  /\ loops[l] = "closing" /\ sessions[l] = "started"
  /\ sessions' = [sessions EXCEPT ![l] = "closed"]
  /\ UNCHANGED <<mu, closing, session, tlsConn, links, loops, dial, stream, closes>>

Forget == session' = 0 /\ tlsConn' = 0

\* Outbound.Close: with the lock held, Session.Close finds the session open; nothing is
\* left to do for one that is closed or being closed.
CloseOutbound ==
  /\ mu = Nobody /\ closes < MaxCloses
  /\ closes' = closes + 1
  /\ IF session # 0 /\ sessions[session] = "started"
     THEN /\ mu' = Closer /\ closing' = "once"
          /\ UNCHANGED <<session, tlsConn, links>>
     ELSE /\ Forget /\ links' = [l \in Links |-> IF l = tlsConn THEN "closed" ELSE links[l]]
          /\ UNCHANGED <<mu, closing>>
  /\ UNCHANGED <<sessions, loops, dial, stream>>

\* It is the first in closeOnce; behind processLoop it would wait for ever.
EnterClose ==
  /\ closing = "once" /\ sessions[session] = "started"
  /\ sessions' = [sessions EXCEPT ![session] = "closed"] /\ closing' = "wait"
  /\ UNCHANGED <<mu, session, tlsConn, links, loops, dial, stream, closes>>

\* Mutated: Close keeps the lock.
FinishCloseLocked ==
  /\ closing = "wait" /\ loops[session] = "run" /\ tlsConn # 0
  /\ loops' = [loops EXCEPT ![session] = "left"]
  /\ links' = CloseTls(tlsConn)
  /\ Forget /\ closing' = "no" /\ UNCHANGED mu
  /\ UNCHANGED <<sessions, dial, stream, closes>>

\* The loops have left: Session.Close closes the transport, and Close closes it
\* once more.
FinishClose ==
  /\ closing = "wait" /\ loops[session] = "run"
  /\ loops' = [loops EXCEPT ![session] = "left"]
  /\ links' = CloseTls(tlsConn)
  /\ Forget /\ closing' = "no" /\ mu' = Nobody
  /\ UNCHANGED <<sessions, dial, stream, closes>>

\* ZtpTLSConn.Close
CloseStream(c) == stream' = [stream EXCEPT ![c].closed = TRUE]

----------------------------------------------------------------------------
DialStep(c) ==
  \/ ReadSession(c) \/ LockSession(c) \/ DialBase(c) \/ Handshake(c)
  \/ Authenticate(c) \/ StartSession(c) \/ OpenStream(c) \/ QueueOpen(c)

\* What happens to the connector without its callers.
OutboundEvent ==
  \/ CloseOutbound \/ EnterClose \/ FinishClose
  \/ \E l \in Links : LoopFails(l) \/ LoopCloses(l)

\* The lock is held for ever: by a Close that waits for processLoop, which waits for it
\* or for itself, or for a loop that does not leave; or by a caller whose server is silent.
ConnectorHangs ==
  \/ closing = "once" /\ sessions[session] = "closed"
  \/ closing = "wait" /\ loops[session] # "run"
  \/ \E c \in Callers : dial[c] = "silent"

\* However DialContext, its failures and Close interleave, an open TLS connection
\* is the one Close will close, or one that the holder of the lock is making.
NoOrphanLink ==
  \A l \in Links : links[l] = "open" =>
    l = tlsConn \/ (mu \in Callers /\ dial[mu] \in {"handshake", "zap", "silent", "start"} /\ l = Made)

\* Calls of ensureSession that find no session at the same time do not make two,
\* and no running session is lost sight of.
OneSession ==
  /\ Cardinality({l \in Links : sessions[l] = "started"}) <= 1
  /\ \A l \in Links : sessions[l] = "started" => session = l
=============================================================================
