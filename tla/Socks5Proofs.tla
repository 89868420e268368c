---------------------------- MODULE Socks5Proofs -----------------------------
(***************************************************************************)
(* Proofs about Socks5 and the connector it dials with, for any number of  *)
(* clients that speak SOCKS5, any TLS connections and any calls of Close.  *)
(***************************************************************************)
EXTENDS Socks5, SequenceTheorems, FiniteSetTheorems, TLAPS

(* The connector. *)

\* The caller that holds the lock has a TLS connection and no session yet.
Making == mu \in Callers /\ dial[mu] \in {"handshake", "zap", "silent", "start"}

Newest(l) == links[l] # "unused" /\ \A k \in Links : k > l => links[k] = "unused"

\* TLS connections are made one after the other; the connector knows the session
\* that runs, and the connection that is open unless it is being made.
LinkInv ==
  /\ tlsConn = session
  /\ session # 0 => links[session] # "unused"
  /\ \A l \in Links : links[l] = "unused" =>
       sessions[l] = "none" /\ \A k \in Links : k > l => links[k] = "unused"
  /\ \A l \in Links : sessions[l] = "started" => session = l
  /\ \A l \in Links : links[l] = "open" => l = session \/ (Making /\ Newest(l))

\* Whoever makes a session holds the lock, and then there is none; while Close holds
\* it there is one, which has ended when its loops are waited for.
LockInv ==
  /\ \A c \in Callers : dial[c] \in {"dial", "handshake", "zap", "silent", "start"} <=> mu = c
  /\ mu \in Callers => session = 0
  /\ mu = Closer <=> closing # "no"
  /\ mu = Closer => session # 0 /\ sessions[session] # "none"
  /\ closing = "wait" => sessions[session] = "closed"
  /\ Making => \E l \in Links : Newest(l) /\ links[l] = "open" /\ sessions[l] = "none"

OutboundInv == OutboundTypeOK /\ LinkInv /\ LockInv

\* The connection being made is the newest one.
LEMMA MadeIsNewest == ASSUME NEW l \in Links, Newest(l) PROVE Made = l
<1>1. \A k \in Links : Newest(k) => k = l
  BY OutboundAssumption DEF Newest, Links
<1>. QED
  BY <1>1 DEF Made, Newest

\* The first states of the connector.
LEMMA OutboundInitInv == OutboundInit => OutboundInv
<1>. SUFFICES ASSUME OutboundInit PROVE OutboundInv
  OBVIOUS
<1>. USE OutboundAssumption DEF OutboundInit
<1>1. OutboundTypeOK
  BY DEF OutboundTypeOK, NoStream
<1>2. LinkInv
  BY DEF LinkInv
<1>3. LockInv
  BY DEF LockInv, Making, Closer, Nobody
<1>. QED
  BY <1>1, <1>2, <1>3 DEF OutboundInv

\* DialContext calls ensureSession.
LEMMA StartDialInv ==
  ASSUME OutboundInv, NEW c \in Callers, StartDial(c) PROVE OutboundInv'
BY OutboundAssumption
DEF StartDial, Goto, OutboundInv, OutboundTypeOK, LinkInv, LockInv, Making, Newest,
    Dialling

LEMMA ReadSessionInv ==
  ASSUME OutboundInv, NEW c \in Callers, ReadSession(c) PROVE OutboundInv'
BY OutboundAssumption
DEF ReadSession, Use, Goto, OutboundInv, OutboundTypeOK, LinkInv, LockInv, Making,
    Newest, Dialling

\* The second look: a caller goes on to make a session only if there is none.
LEMMA LockSessionInv ==
  ASSUME OutboundInv, NEW c \in Callers, LockSession(c) PROVE OutboundInv'
<1>. USE OutboundAssumption DEF LockSession, Use, Goto, OutboundInv, OutboundTypeOK
<1>1. OutboundTypeOK'
  BY DEF Dialling
<1>2. LockInv'
  BY DEF LockInv, Making, Newest
<1>3. LinkInv'
  BY DEF LinkInv, LockInv, Making, Newest
<1>. QED
  BY <1>1, <1>2, <1>3

\* The connection that is made is the next one, and then the newest.
LEMMA DialBaseInv ==
  ASSUME OutboundInv, NEW c \in Callers, DialBase(c) PROVE OutboundInv'
<1>1. mu = c /\ c # Closer /\ c # Nobody /\ session = 0
  BY OutboundAssumption DEF OutboundInv, LockInv, DialBase
<1>2. \A l \in Links : links[l] # "open"
  BY <1>1 DEF OutboundInv, OutboundTypeOK, LinkInv, Making, DialBase, Links
<1>3. CASE Fail(c) /\ UNCHANGED links
  <2>1. OutboundTypeOK'
    BY <1>3 DEF Fail, Goto, OutboundInv, OutboundTypeOK, DialBase, Dialling
  <2>2. LockInv' /\ LinkInv'
    BY OutboundAssumption, <1>1, <1>2, <1>3
    DEF Fail, Goto, OutboundInv, OutboundTypeOK, DialBase, LockInv, LinkInv, Making,
        Closer, Nobody
  <2>. QED
    BY <2>1, <2>2 DEF OutboundInv
<1>4. CASE ~(Fail(c) /\ UNCHANGED links)
  <2>1. PICK l \in Links :
          /\ links[l] = "unused" /\ \A k \in Links : k < l => links[k] # "unused"
          /\ links' = [links EXCEPT ![l] = "open"]
          /\ Goto(c, "handshake") /\ UNCHANGED mu
    BY <1>4 DEF DialBase
  <2>2. /\ links \in [Links -> {"unused", "open", "closed"}]
        /\ links' \in [Links -> {"unused", "open", "closed"}]
        /\ \A k \in Links : links'[k] = IF k = l THEN "open" ELSE links[k]
    BY <2>1 DEF OutboundInv, OutboundTypeOK
  <2>3. dial'[c] = "handshake" /\ \A d \in Callers : d # c => dial'[d] = dial[d]
    BY <2>1 DEF Goto, OutboundInv, OutboundTypeOK
  <2>4. OutboundTypeOK'
    BY <2>1, <2>2, <2>3 DEF Goto, OutboundInv, OutboundTypeOK, DialBase, Dialling
  <2>5. Newest(l)' /\ sessions[l] = "none"
    BY <2>1, <2>2 DEF OutboundInv, LinkInv, Newest
  <2>6. Making'
    BY <1>1, <2>1, <2>3 DEF Making
  <2>7. LockInv'
    BY <1>1, <2>1, <2>2, <2>3, <2>5, OutboundAssumption
    DEF OutboundInv, LockInv, DialBase
  <2>8. LinkInv'
    BY <1>1, <1>2, <2>1, <2>2, <2>5, <2>6, OutboundAssumption
    DEF OutboundInv, LinkInv, DialBase, Links
  <2>. QED
    BY <2>4, <2>7, <2>8 DEF OutboundInv
<1>. QED
  BY <1>3, <1>4

\* A step of the handshakes that succeeds leaves everything as it is, and one that
\* fails closes the connection and gives the lock up.
LEMMA MakingInv ==
  ASSUME OutboundInv, NEW c \in Callers, dial[c] \in {"handshake", "zap"},
         UNCHANGED <<session, tlsConn, sessions, stream, closes, closing, loops>>,
         \/ \E next \in {"zap", "silent", "start"} : Goto(c, next) /\ UNCHANGED <<mu, links>>
         \/ Fail(c) /\ links' = CloseTls(Made)
  PROVE  OutboundInv'
<1>1. mu = c /\ c # Closer /\ c # Nobody /\ session = 0 /\ Making
  BY OutboundAssumption DEF OutboundInv, LockInv, Making
<1>2. PICK l \in Links : Newest(l) /\ links[l] = "open" /\ sessions[l] = "none"
  BY <1>1 DEF OutboundInv, LockInv
<1>3. Made = l
  BY <1>2, MadeIsNewest
<1>4. CASE \E next \in {"zap", "silent", "start"} : Goto(c, next) /\ UNCHANGED <<mu, links>>
  <2>1. PICK next \in {"zap", "silent", "start"} : Goto(c, next) /\ UNCHANGED <<mu, links>>
    BY <1>4
  <2>2. OutboundTypeOK'
    BY <2>1 DEF Goto, OutboundInv, OutboundTypeOK, Dialling
  <2>3. dial'[c] = next /\ \A d \in Callers : d # c => dial'[d] = dial[d]
    BY <2>1 DEF Goto, OutboundInv, OutboundTypeOK
  <2>4. Making'
    BY <1>1, <2>1, <2>3 DEF Making
  <2>5. LockInv' /\ LinkInv'
    BY <1>1, <1>2, <2>1, <2>3, <2>4, OutboundAssumption
    DEF OutboundInv, LockInv, LinkInv, Newest
  <2>. QED
    BY <2>2, <2>5 DEF OutboundInv
<1>5. CASE Fail(c) /\ links' = CloseTls(Made)
  <2>1. /\ links \in [Links -> {"unused", "open", "closed"}]
        /\ links' \in [Links -> {"unused", "open", "closed"}]
        /\ \A k \in Links : links'[k] = IF k = l THEN "closed" ELSE links[k]
    BY <1>3, <1>5 DEF OutboundInv, OutboundTypeOK, CloseTls
  <2>2. /\ dial'[c] = "failed" /\ \A d \in Callers : d # c => dial'[d] = dial[d]
        /\ mu' = Nobody
    BY <1>5 DEF Fail, Goto, OutboundInv, OutboundTypeOK
  <2>3. OutboundTypeOK'
    BY <1>5, <2>1, <2>2 DEF Fail, Goto, OutboundInv, OutboundTypeOK
  <2>4. LockInv'
    BY <1>1, <2>2, OutboundAssumption DEF OutboundInv, LockInv, Making, Closer, Nobody
  <2>5. \A k \in Links : links[k] = "open" => k = l
    BY <1>1, <1>2, <1>3, MadeIsNewest DEF OutboundInv, LinkInv, Links
  <2>6. /\ session' = 0 /\ tlsConn' = 0
        /\ \A k \in Links : /\ links'[k] = "unused" <=> links[k] = "unused"
                            /\ links'[k] # "open" /\ sessions'[k] = sessions[k]
    BY <1>1, <1>2, <2>1, <2>5 DEF OutboundInv, LinkInv
  <2>7. LinkInv'
    BY <1>1, <2>6 DEF OutboundInv, LinkInv
  <2>. QED
    BY <2>3, <2>4, <2>7 DEF OutboundInv
<1>. QED
  BY <1>4, <1>5

LEMMA HandshakeInv ==
  ASSUME OutboundInv, NEW c \in Callers, Handshake(c) \/ Authenticate(c)
  PROVE  OutboundInv'
BY MakingInv DEF Handshake, Authenticate

\* The new session is the only one: there was none when the lock was taken.
LEMMA StartSessionInv ==
  ASSUME OutboundInv, NEW c \in Callers, StartSession(c) PROVE OutboundInv'
<1>. USE DEF StartSession
<1>1. mu = c /\ c # Closer /\ c # Nobody /\ session = 0 /\ Making
  BY OutboundAssumption DEF OutboundInv, LockInv, Making
<1>2. PICK l \in Links : Newest(l) /\ links[l] = "open" /\ sessions[l] = "none"
  BY <1>1 DEF OutboundInv, LockInv
<1>3. Made = l
  BY <1>2, MadeIsNewest
<1>4. /\ sessions' \in [Links -> {"none", "started", "closed"}]
      /\ \A k \in Links : sessions'[k] = IF k = l THEN "started" ELSE sessions[k]
  BY <1>3 DEF OutboundInv, OutboundTypeOK
<1>5. dial'[c] = "open" /\ \A d \in Callers : d # c => dial'[d] = dial[d]
  BY DEF Goto, OutboundInv, OutboundTypeOK
<1>6. OutboundTypeOK'
  <2>1. /\ stream' \in [Callers -> [on : 0..MaxLinks, closed : BOOLEAN]]
        /\ stream'[c].on = l /\ \A d \in Callers : d # c => stream'[d] = stream[d]
    BY <1>3 DEF OutboundInv, OutboundTypeOK, Links
  <2>2. dial' \in [Callers -> {"idle", "failed", "connected"} \cup Dialling]
    BY DEF Goto, OutboundInv, OutboundTypeOK, Dialling
  <2>3. \A d \in Callers :
          dial'[d] \in {"open", "queue", "connected"} => stream'[d].on # 0
    BY <1>5, <2>1 DEF OutboundInv, OutboundTypeOK, Links
  <2>. QED
    BY <1>3, <1>4, <2>1, <2>2, <2>3 DEF OutboundInv, OutboundTypeOK, Links
<1>7. LockInv'
  BY <1>1, <1>5, OutboundAssumption DEF OutboundInv, LockInv, Making, Closer, Nobody
<1>8. \A k \in Links : sessions[k] # "started" /\ (links[k] = "open" => k = l)
  BY <1>1, <1>2, <1>3, MadeIsNewest DEF OutboundInv, LinkInv, Links
<1>9. LinkInv'
  BY <1>2, <1>3, <1>4, <1>8 DEF OutboundInv, LinkInv, Links
<1>. QED
  BY <1>6, <1>7, <1>9 DEF OutboundInv

LEMMA OpenStreamInv ==
  ASSUME OutboundInv, NEW c \in Callers, OpenStream(c) PROVE OutboundInv'
<1>. USE DEF OpenStream
<1>1. /\ dial'[c] \in {"queue", "failed"}
      /\ \A d \in Callers : d # c => dial'[d] = dial[d]
  BY DEF Goto, OutboundInv, OutboundTypeOK
<1>2. OutboundTypeOK'
  <2>1. NoStream \in [on : 0..MaxLinks, closed : BOOLEAN]
    BY OutboundAssumption DEF NoStream
  <2>2. /\ stream' \in [Callers -> [on : 0..MaxLinks, closed : BOOLEAN]]
        /\ \A d \in Callers : dial'[d] \in {"open", "queue", "connected"} =>
              /\ dial[d] \in {"open", "queue", "connected"}
              /\ stream'[d] = stream[d]
    BY <1>1, <2>1 DEF Goto, OutboundInv, OutboundTypeOK
  <2>3. dial' \in [Callers -> {"idle", "failed", "connected"} \cup Dialling]
    BY DEF Goto, OutboundInv, OutboundTypeOK, Dialling
  <2>. QED
    BY <2>2, <2>3 DEF OutboundInv, OutboundTypeOK
<1>3. LockInv' /\ LinkInv'
  BY <1>1, OutboundAssumption DEF OutboundInv, LockInv, LinkInv, Making, Newest
<1>. QED
  BY <1>2, <1>3 DEF OutboundInv

LEMMA QueueOpenInv ==
  ASSUME OutboundInv, NEW c \in Callers, QueueOpen(c) PROVE OutboundInv'
<1>. USE DEF QueueOpen
<1>1. /\ dial'[c] \in {"connected", "failed"} /\ dial[c] = "queue"
      /\ \A d \in Callers : d # c => dial'[d] = dial[d]
      /\ dial' \in [Callers -> {"idle", "failed", "connected"} \cup Dialling]
  BY DEF Goto, OutboundInv, OutboundTypeOK
<1>2. OutboundTypeOK'
  BY <1>1 DEF OutboundInv, OutboundTypeOK
<1>3. LockInv' /\ LinkInv'
  BY <1>1, OutboundAssumption DEF OutboundInv, LockInv, LinkInv, Making, Newest
<1>. QED
  BY <1>2, <1>3 DEF OutboundInv

LEMMA DialStepInv ==
  ASSUME OutboundInv, NEW c \in Callers, DialStep(c) PROVE OutboundInv'
BY ReadSessionInv, LockSessionInv, DialBaseInv, HandshakeInv, StartSessionInv,
   OpenStreamInv, QueueOpenInv
DEF DialStep

\* A loop that is stuck changes nothing but itself.
LEMMA LoopFailsInv ==
  ASSUME OutboundInv, NEW l \in Links, LoopFails(l) PROVE OutboundInv'
<1>1. loops' \in [Links -> {"run", "closing", "stuck", "left"}]
  BY DEF LoopFails, OutboundInv, OutboundTypeOK
<1>. QED
  BY <1>1 DEF LoopFails, OutboundInv, OutboundTypeOK, LockInv, LinkInv, Making, Newest

\* The session that processLoop closes is the one of the connector.
LEMMA LoopClosesInv ==
  ASSUME OutboundInv, NEW l \in Links, LoopCloses(l) PROVE OutboundInv'
<1>. USE DEF LoopCloses
<1>1. /\ sessions' \in [Links -> {"none", "started", "closed"}]
      /\ \A k \in Links : sessions'[k] = IF k = l THEN "closed" ELSE sessions[k]
  BY DEF OutboundInv, OutboundTypeOK
<1>2. OutboundTypeOK'
  BY <1>1 DEF OutboundInv, OutboundTypeOK
<1>3. LockInv' /\ LinkInv'
  BY <1>1 DEF OutboundInv, OutboundTypeOK, LockInv, LinkInv, Making, Newest, Links
<1>. QED
  BY <1>2, <1>3 DEF OutboundInv

\* Close takes the lock for a session that runs, and forgets one that is over.
LEMMA CloseOutboundInv ==
  ASSUME OutboundInv, CloseOutbound PROVE OutboundInv'
<1>1. mu = Nobody /\ ~Making /\ closing = "no"
  BY OutboundAssumption
  DEF CloseOutbound, Making, OutboundInv, LockInv, Closer, Nobody
<1>2. CASE session # 0 /\ sessions[session] = "started"
  <2>1. OutboundTypeOK'
    BY <1>2, OutboundAssumption DEF CloseOutbound, OutboundInv, OutboundTypeOK
  <2>2. LockInv'
    BY <1>1, <1>2, OutboundAssumption
    DEF CloseOutbound, OutboundInv, LockInv, Making, Closer, Nobody
  <2>3. LinkInv'
    BY <1>1, <1>2 DEF CloseOutbound, OutboundInv, LinkInv
  <2>. QED
    BY <2>1, <2>2, <2>3 DEF OutboundInv
<1>3. CASE ~(session # 0 /\ sessions[session] = "started")
  <2>1. /\ links' \in [Links -> {"unused", "open", "closed"}]
        /\ \A k \in Links : links'[k] = IF k = tlsConn THEN "closed" ELSE links[k]
        /\ session' = 0 /\ tlsConn' = 0
    BY <1>3 DEF CloseOutbound, Forget, OutboundInv, OutboundTypeOK
  <2>2. OutboundTypeOK'
    BY <1>3, <2>1, OutboundAssumption DEF CloseOutbound, OutboundInv, OutboundTypeOK
  <2>3. LockInv'
    BY <1>1, <1>3, <2>1, OutboundAssumption
    DEF CloseOutbound, OutboundInv, LockInv, Making, Closer, Nobody
  <2>4. \A k \in Links : /\ links'[k] = "unused" <=> links[k] = "unused"
                         /\ links'[k] # "open" /\ sessions[k] # "started"
    BY <1>1, <1>3, <2>1 DEF OutboundInv, LinkInv, Links
  <2>5. LinkInv'
    BY <1>3, <2>1, <2>4 DEF CloseOutbound, OutboundInv, LinkInv
  <2>. QED
    BY <2>2, <2>3, <2>5 DEF OutboundInv
<1>. QED
  BY <1>2, <1>3

\* The session ends before its loops are waited for.
LEMMA EnterCloseInv ==
  ASSUME OutboundInv, EnterClose PROVE OutboundInv'
<1>. USE DEF EnterClose
<1>1. mu = Closer /\ ~Making /\ session # 0 /\ session \in Links
  BY OutboundAssumption DEF OutboundInv, OutboundTypeOK, LockInv, Making, Links
<1>2. /\ sessions' \in [Links -> {"none", "started", "closed"}]
      /\ \A k \in Links : sessions'[k] = IF k = session THEN "closed" ELSE sessions[k]
  BY <1>1 DEF OutboundInv, OutboundTypeOK
<1>3. OutboundTypeOK'
  BY <1>2 DEF OutboundInv, OutboundTypeOK
<1>4. LockInv'
  BY <1>1, <1>2, OutboundAssumption DEF OutboundInv, LockInv, Making, Closer, Nobody
<1>5. LinkInv'
  BY <1>1, <1>2 DEF OutboundInv, LinkInv, Making
<1>. QED
  BY <1>3, <1>4, <1>5 DEF OutboundInv

\* Close forgets a session only once it is over and its connection is closed.
LEMMA FinishCloseInv ==
  ASSUME OutboundInv, FinishClose PROVE OutboundInv'
<1>. USE DEF FinishClose
<1>1. /\ mu = Closer /\ session \in Links /\ sessions[session] = "closed"
      /\ tlsConn = session /\ ~Making
  BY OutboundAssumption
  DEF OutboundInv, OutboundTypeOK, LockInv, LinkInv, Making, Links
<1>2. /\ links' \in [Links -> {"unused", "open", "closed"}]
      /\ \A k \in Links : links'[k] = IF k = session THEN "closed" ELSE links[k]
      /\ session' = 0 /\ tlsConn' = 0
      /\ loops' \in [Links -> {"run", "closing", "stuck", "left"}]
  BY <1>1 DEF CloseTls, Forget, OutboundInv, OutboundTypeOK
<1>3. OutboundTypeOK'
  BY <1>2, OutboundAssumption DEF OutboundInv, OutboundTypeOK
<1>4. LockInv'
  BY <1>1, <1>2, OutboundAssumption DEF OutboundInv, LockInv, Making, Closer, Nobody
<1>5. \A k \in Links : /\ links'[k] = "unused" <=> links[k] = "unused"
                       /\ links'[k] # "open" /\ sessions[k] # "started"
  BY <1>1, <1>2 DEF OutboundInv, LinkInv
<1>6. LinkInv'
  BY <1>2, <1>5 DEF OutboundInv, LinkInv
<1>. QED
  BY <1>3, <1>4, <1>6 DEF OutboundInv

LEMMA OutboundEventInv == OutboundInv /\ OutboundEvent => OutboundInv'
BY LoopFailsInv, LoopClosesInv, CloseOutboundInv, EnterCloseInv, FinishCloseInv
DEF OutboundEvent

\* Closing a stream is no concern of the connector.
LEMMA CloseTargetInv ==
  ASSUME OutboundInv, NEW c \in Callers, CloseTarget(c) PROVE OutboundInv'
<1>. USE DEF CloseTarget, CloseStream
<1>1. /\ stream' \in [Callers -> [on : 0..MaxLinks, closed : BOOLEAN]]
      /\ \A d \in Callers : stream'[d].on = stream[d].on
  BY DEF OutboundInv, OutboundTypeOK
<1>. QED
  BY <1>1 DEF OutboundInv, OutboundTypeOK, LockInv, LinkInv, Making, Newest

LEMMA OutboundUnchanged == OutboundInv /\ UNCHANGED outboundVars => OutboundInv'
BY DEF OutboundInv, OutboundTypeOK, LockInv, LinkInv, Making, Newest, outboundVars

\* What the invariant says of leaks.
LEMMA OutboundSafe == OutboundInv => NoOrphanLink /\ OneSession
<1>. SUFFICES ASSUME OutboundInv PROVE NoOrphanLink /\ OneSession
  OBVIOUS
<1>1. NoOrphanLink
  BY MadeIsNewest DEF OutboundInv, LinkInv, NoOrphanLink, Making
<1>2. \A l \in Links : sessions[l] = "started" => session = l
  BY DEF OutboundInv, LinkInv
<1>3. Cardinality({l \in Links : sessions[l] = "started"}) <= 1
  <2>. DEFINE running == {l \in Links : sessions[l] = "started"}
  <2>1. CASE running = {}
    BY <2>1, FS_EmptySet
  <2>2. CASE running # {}
    <3>1. running = {session}
      BY <1>2, <2>2
    <3>2. Cardinality({session}) = 1
      BY FS_Singleton
    <3>. QED
      BY <3>1, <3>2
  <2>. QED
    BY <2>1, <2>2
<1>. QED
  BY <1>1, <1>2, <1>3 DEF OneSession

------------------------------------------------------------------------------
(* Messages and buffers. *)

\* The length of a slice is read off its domain.
LEMMA SameInterval ==
  ASSUME NEW a \in Nat, NEW b \in Nat, 1..a = 1..b
  PROVE  a = b
<1>1. CASE a < b
  <2>1. b \in 1..b
    BY <1>1
  <2>2. b \notin 1..a
    BY <1>1
  <2>. QED BY <2>1, <2>2
<1>2. CASE b < a
  <2>1. a \in 1..a
    BY <1>2
  <2>2. a \notin 1..b
    BY <1>2
  <2>. QED BY <2>1, <2>2
<1>. QED BY <1>1, <1>2

\* A message fits a buffer, whose first n bytes are those of the message.
LEMMA BufferFilled ==
  ASSUME NEW m \in Seq(Bytes), Len(m) <= BufferSize, NEW n \in 0..Len(m)
  PROVE  /\ Buffer(m, n) \in [0..(BufferSize - 1) -> Bytes]
         /\ \A i \in 0..(n - 1) : Buffer(m, n)[i] = m[i + 1]
         /\ \A i \in n..(BufferSize - 1) : Buffer(m, n)[i] = 0
<1>1. BufferSize \in Nat /\ Len(m) \in Nat /\ \A i \in 1..Len(m) : m[i] \in Bytes
  BY Socks5Assumption, LenProperties, ElementOfSeq
<1>2. 0 \in Bytes
  BY DEF Bytes
<1>. QED
  BY <1>1, <1>2 DEF Buffer

\* What buffer new is to buffer buf: the k bytes of message m after the first r have
\* been put there from at on.
Filled(new, buf, at, m, r, k) ==
  /\ new \in [0..(BufferSize - 1) -> Bytes]
  /\ \A i \in 0..(BufferSize - 1) :
       /\ at <= i /\ i < at + k => new[i] = m[r + i - at + 1]
       /\ i < at \/ at + k <= i => new[i] = buf[i]

LEMMA ReadIntoFills ==
  ASSUME NEW m \in Seq(Bytes), NEW buf \in [0..(BufferSize - 1) -> Bytes],
         NEW at \in Nat, NEW r \in Nat, NEW k \in Nat, r + k <= Len(m)
  PROVE  Filled(ReadInto(buf, at, m, r, k), buf, at, m, r, k)
<1>1. Len(m) \in Nat /\ \A i \in 1..Len(m) : m[i] \in Bytes
  BY LenProperties, ElementOfSeq
<1>2. DOMAIN buf = 0..(BufferSize - 1)
  OBVIOUS
<1>3. ASSUME NEW i \in 0..(BufferSize - 1), at <= i, i < at + k
      PROVE  m[r + i - at + 1] \in Bytes
  <2>1. r + i - at + 1 \in 1..Len(m)
    BY <1>1, <1>3, Socks5Assumption
  <2>. QED
    BY <1>1, <2>1
<1>4. ReadInto(buf, at, m, r, k) \in [0..(BufferSize - 1) -> Bytes]
  BY <1>2, <1>3 DEF ReadInto
<1>5. ASSUME NEW i \in 0..(BufferSize - 1)
      PROVE  /\ at <= i /\ i < at + k => ReadInto(buf, at, m, r, k)[i] = m[r + i - at + 1]
             /\ i < at \/ at + k <= i => ReadInto(buf, at, m, r, k)[i] = buf[i]
  BY <1>2, Socks5Assumption DEF ReadInto
<1>. QED
  BY <1>4, <1>5 DEF Filled

LEMMA RightAuthIs ==
  /\ Len(RightAuth) = 6 /\ RightAuth \in Seq(Bytes)
  /\ RightAuth[1] = 1 /\ RightAuth[2] = 2 /\ RightAuth[3] = 97 /\ RightAuth[4] = 98
  /\ RightAuth[5] = 1 /\ RightAuth[6] = 112
<1>1. RightAuth = (<<1, 2>> \o <<97, 98>>) \o <<1>> \o <<112>>
  BY DEF RightAuth, Username, Password
<1>2. <<1, 2>> \in Seq(Bytes) /\ <<97, 98>> \in Seq(Bytes)
      /\ <<1>> \in Seq(Bytes) /\ <<112>> \in Seq(Bytes)
  BY DEF Bytes
<1>. QED
  BY <1>1, <1>2, ConcatProperties

LEMMA MissingIs ==
  ASSUME NEW n \in Nat, NEW want \in Nat
  PROVE  /\ Missing(n, want) \in Nat
         /\ n >= want => Missing(n, want) = 0
         /\ n < want => n + Missing(n, want) = want
BY DEF Missing

\* What passes authenticate is the right message, wherever it is cut: had the length
\* of the password not been read when it is looked up, it would count as zero.
LEMMA OnlyRightAuth ==
  ASSUME NEW m \in Auths, NEW n \in 2..Len(m), AuthResult(m, n) = "request"
  PROVE  m = RightAuth
<1>1. /\ m \in Seq(Bytes) /\ Len(m) \in 3..BufferSize /\ m[1] = 1
      /\ Len(m) >= 3 + m[2] /\ Len(m) = 3 + m[2] + m[3 + m[2]]
      /\ BufferSize \in Nat /\ m[2] \in Bytes
  BY Socks5Assumption, ElementOfSeq DEF Auths
<1>2. PICK len \in Nat : /\ Len(m) = len /\ 3 <= len /\ len <= BufferSize
                         /\ n \in Nat /\ 2 <= n /\ n <= len
  BY <1>1, LenProperties
<1>3. /\ Buffer(m, n) \in [0..(BufferSize - 1) -> Bytes]
      /\ \A i \in 0..(n - 1) : Buffer(m, n)[i] = m[i + 1]
      /\ \A i \in n..(BufferSize - 1) : Buffer(m, n)[i] = 0
  BY <1>1, <1>2, BufferFilled
<1>4. PICK ulen \in Nat : /\ Buffer(m, n)[1] = ulen /\ m[2] = ulen
                          /\ len >= 3 + ulen /\ 3 + ulen + m[3 + ulen] = len
  <2>1. PICK ulen \in Nat : m[2] = ulen
    BY <1>1 DEF Bytes
  <2>2. 1 \in 0..(n - 1)
    BY <1>2
  <2>3. Buffer(m, n)[1] = ulen
    BY <1>3, <2>1, <2>2
  <2>. QED
    BY <1>1, <1>2, <2>1, <2>3
<1>5. PICK k1 \in Nat : /\ Missing(n, 2 + ulen) = k1
                        /\ n >= 2 + ulen => k1 = 0
                        /\ n < 2 + ulen => n + k1 = 2 + ulen
  <2>1. 2 + ulen \in Nat
    BY <1>4
  <2>. QED
    BY <1>2, <2>1, MissingIs, Zenon
<1>6. PICK buf1 :
        /\ ReadInto(Buffer(m, n), n, m, n, k1) = buf1
        /\ Filled(buf1, Buffer(m, n), n, m, n, k1)
  <2>1. n + k1 <= Len(m)
    BY <1>2, <1>4, <1>5
  <2>. QED
    BY <1>1, <1>2, <1>3, <2>1, ReadIntoFills, Zenon
<1>7. PICK plen \in Nat : buf1[2 + ulen] = plen
  <2>1. 2 + ulen \in 0..(BufferSize - 1)
    BY <1>1, <1>2, <1>4
  <2>2. buf1 \in [0..(BufferSize - 1) -> Bytes]
    BY <1>6 DEF Filled
  <2>3. buf1[2 + ulen] \in Bytes
    BY <2>1, <2>2
  <2>. QED
    BY <2>3 DEF Bytes
<1>8. PICK k2 \in Nat : /\ Missing(n, 2 + ulen + 1 + plen) = k2
                        /\ n >= 2 + ulen + 1 + plen => k2 = 0
                        /\ n < 2 + ulen + 1 + plen => n + k2 = 2 + ulen + 1 + plen
  <2>1. 2 + ulen + 1 + plen \in Nat
    BY <1>4, <1>7
  <2>. QED
    BY <1>2, <2>1, MissingIs, Zenon
<1>9. /\ n + k1 + k2 <= len
      /\ Slice(buf1, 2, 2 + ulen) = Username
      /\ Slice(ReadInto(buf1, n, m, n + k1, k2), 2 + ulen + 1, 2 + ulen + 1 + plen) = Password
  BY <1>2, <1>4, <1>5, <1>6, <1>7, <1>8 DEF AuthResult
<1>10. PICK r \in Nat : n + k1 = r
  BY <1>2
<1>11. PICK buf2 :
        /\ ReadInto(buf1, n, m, r, k2) = buf2
        /\ Filled(buf2, buf1, n, m, r, k2)
  <2>1. r + k2 <= Len(m)
    BY <1>2, <1>9, <1>10
  <2>2. buf1 \in [0..(BufferSize - 1) -> Bytes]
    BY <1>6 DEF Filled
  <2>. QED
    BY <1>1, <1>2, <2>1, <2>2, ReadIntoFills, Zenon
\* The user.
<1>12. ulen = 2 /\ buf1[2] = 97 /\ buf1[3] = 98
  <2>1. [i \in 1..ulen |-> buf1[i + 1]] = <<97, 98>>
    BY <1>9 DEF Slice, Username
  <2>2. DOMAIN [i \in 1..ulen |-> buf1[i + 1]] = 1..2
    BY <2>1
  <2>3. ulen = 2
    BY <2>2, SameInterval
  <2>. QED
    BY <2>1, <2>3
<1>13. m[3] = 97 /\ m[4] = 98
  BY <1>1, <1>2, <1>3, <1>4, <1>5, <1>6, <1>12 DEF Filled
\* The password.
<1>14. plen = 1 /\ buf2[5] = 112
  <2>1. Slice(buf2, 5, 5 + plen) = <<112>>
    BY <1>9, <1>10, <1>11, <1>12 DEF Password
  <2>2. [i \in 1..plen |-> buf2[i + 4]] = <<112>>
    BY <2>1 DEF Slice
  <2>3. DOMAIN [i \in 1..plen |-> buf2[i + 4]] = 1..1
    BY <2>2
  <2>4. plen = 1
    BY <2>3, SameInterval
  <2>. QED
    BY <2>2, <2>4
<1>15. n >= 5 /\ m[5] = 1
  <2>1. \/ buf1[4] = 1 /\ 4 \in 0..(BufferSize - 1) /\ n + k1 <= 4
        \/ n >= 5
    BY <1>1, <1>2, <1>4, <1>5, <1>7, <1>12, <1>14
  <2>2. n <= 4 => buf1[4] = Buffer(m, n)[4] /\ Buffer(m, n)[4] = 0
    BY <1>1, <1>2, <1>3, <1>6, <2>1 DEF Filled
  <2>3. n >= 5
    BY <2>1, <2>2
  <2>4. buf1[4] = Buffer(m, n)[4] /\ Buffer(m, n)[4] = m[5]
    BY <1>1, <1>2, <1>3, <1>4, <1>6, <1>12, <2>3 DEF Filled
  <2>. QED
    BY <1>7, <1>12, <1>14, <2>3, <2>4
<1>16. m[6] = 112 /\ len = 6
  BY <1>1, <1>2, <1>3, <1>4, <1>5, <1>6, <1>8, <1>10, <1>11, <1>12, <1>14, <1>15
  DEF Filled
<1>. QED
  <2>1. \A i \in 1..Len(m) : m[i] = RightAuth[i]
    BY <1>1, <1>2, <1>4, <1>12, <1>13, <1>15, <1>16, RightAuthIs
  <2>. QED
    BY <1>1, <1>2, <1>16, <2>1, RightAuthIs, SeqEqual

\* A part of a buffer is a sequence of bytes, and a part of the message if the buffer
\* holds the whole of it.
LEMMA SliceOfMessage ==
  ASSUME NEW m \in Seq(Bytes), Len(m) <= BufferSize,
         NEW buf \in [0..(BufferSize - 1) -> Bytes],
         NEW from \in Nat, NEW to \in Nat, from <= to, to <= Len(m)
  PROVE  /\ Slice(buf, from, to) \in Seq(Bytes)
         /\ (\A i \in 0..(Len(m) - 1) : buf[i] = m[i + 1]) =>
              Slice(buf, from, to) = SubSeq(m, from + 1, to)
<1>1. to - from \in Nat /\ BufferSize \in Nat /\ Len(m) \in Nat
  BY Socks5Assumption, LenProperties
<1>2. \A i \in 1..(to - from) : from + i - 1 \in 0..(Len(m) - 1)
  BY <1>1
<1>3. Slice(buf, from, to) \in [1..(to - from) -> Bytes]
  BY <1>1, <1>2 DEF Slice
<1>4. Slice(buf, from, to) \in Seq(Bytes)
  BY <1>1, <1>3, SeqDef
<1>5. ASSUME \A i \in 0..(Len(m) - 1) : buf[i] = m[i + 1]
      PROVE  Slice(buf, from, to) = SubSeq(m, from + 1, to)
  <2>1. SubSeq(m, from + 1, to) = [i \in 1..(to - from) |-> m[from + i]]
    BY <1>1
  <2>2. \A i \in 1..(to - from) : buf[from + i - 1] = m[from + i]
    BY <1>1, <1>2, <1>5
  <2>. QED
    BY <2>1, <2>2 DEF Slice
<1>. QED
  BY <1>4, <1>5

\* handleRequest takes the address and the port from the message, and they are what is
\* meant unless the length of a domain was looked up too early.
LEMMA TargetIs ==
  ASSUME NEW m \in Requests, Supported(m), NEW n \in 4..Len(m)
  PROVE  /\ Target(m, n).host \in Seq(Bytes) /\ Target(m, n).port \in Seq(Bytes)
         /\ m[4] # 3 \/ n > 4 =>
              Meant(m) = [host |-> Target(m, n).host, port |-> Target(m, n).port]
<1>1. /\ m \in Seq(Bytes) /\ Len(m) \in 4..BufferSize
      /\ m[4] = 1 => Len(m) = 10
      /\ m[4] = 3 => Len(m) >= 5 /\ Len(m) = 7 + m[5]
      /\ m[4] = 4 => Len(m) = 22
      /\ m[4] \in {1, 3, 4} /\ BufferSize \in Nat
  BY Socks5Assumption DEF Requests, Supported
<1>2. PICK size \in Nat : /\ Len(m) = size /\ 4 <= size /\ size <= BufferSize
                         /\ n \in Nat /\ 4 <= n /\ n <= size
  BY <1>1, LenProperties
<1>3. /\ Buffer(m, n) \in [0..(BufferSize - 1) -> Bytes]
      /\ \A i \in 0..(n - 1) : Buffer(m, n)[i] = m[i + 1]
      /\ \A i \in n..(BufferSize - 1) : Buffer(m, n)[i] = 0
  BY <1>1, <1>2, BufferFilled
<1>4. PICK from \in Nat : (IF m[4] = 3 THEN 5 ELSE 4) = from
  OBVIOUS
\* The length is right, or it is zero.
<1>5. PICK len \in Nat :
        /\ AddressLen(m, n) = len /\ from + len + 2 <= size
        /\ m[4] # 3 \/ n > 4 => from + len + 2 = size
        /\ m[4] = 3 /\ n = 4 => len = 0
  <2>1. CASE m[4] = 1
    <3>1. AddressLen(m, n) = 4 /\ from = 4 /\ size = 10
      BY <1>1, <1>2, <1>4, <2>1 DEF AddressLen
    <3>. QED
      BY <2>1, <3>1
  <2>2. CASE m[4] = 4
    <3>1. AddressLen(m, n) = 16 /\ from = 4 /\ size = 22
      BY <1>1, <1>2, <1>4, <2>2 DEF AddressLen
    <3>. QED
      BY <2>2, <3>1
  <2>3. CASE m[4] = 3
    <3>1. AddressLen(m, n) = Buffer(m, n)[4] /\ from = 5
      BY <1>4, <2>3 DEF AddressLen
    <3>2. PICK d \in Nat : m[5] = d /\ size = 7 + d
      <4>1. m[5] \in Bytes
        BY <1>1, <1>2, <2>3, ElementOfSeq
      <4>2. PICK d \in Nat : m[5] = d
        BY <4>1 DEF Bytes
      <4>3. size = 7 + d
        BY <1>1, <1>2, <2>3, <4>2
      <4>. QED
        BY <4>2, <4>3
    <3>3. n > 4 => Buffer(m, n)[4] = d
      BY <1>2, <1>3, <3>2
    <3>4. n = 4 => Buffer(m, n)[4] = 0
      BY <1>1, <1>2, <1>3, <3>2
    <3>. QED
      BY <1>2, <2>3, <3>1, <3>2, <3>3, <3>4
  <2>. QED
    BY <1>1, <2>1, <2>2, <2>3
<1>6. PICK to \in Nat, stop \in Nat : from + len = to /\ to + 2 = stop
  OBVIOUS
<1>7. PICK k \in Nat : Missing(n, stop) = k /\ n + k <= size
                     /\ (n >= stop => k = 0) /\ (n < stop => n + k = stop)
  BY <1>2, <1>5, <1>6 DEF Missing
<1>8. PICK buf : ReadInto(Buffer(m, n), n, m, n, k) = buf /\ Filled(buf, Buffer(m, n), n, m, n, k)
  <2>1. n + k <= Len(m)
    BY <1>2, <1>7
  <2>. QED
    BY <1>1, <1>2, <1>3, <2>1, ReadIntoFills, Zenon
<1>9. buf \in [0..(BufferSize - 1) -> Bytes]
  BY <1>8 DEF Filled
<1>10. /\ Target(m, n).host = Slice(buf, from, to)
       /\ Target(m, n).port = Slice(buf, to, stop)
  BY <1>4, <1>5, <1>6, <1>7, <1>8 DEF Target
<1>11. /\ Slice(buf, from, to) \in Seq(Bytes) /\ Slice(buf, to, stop) \in Seq(Bytes)
       /\ (\A i \in 0..(Len(m) - 1) : buf[i] = m[i + 1]) =>
            /\ Slice(buf, from, to) = SubSeq(m, from + 1, to)
            /\ Slice(buf, to, stop) = SubSeq(m, to + 1, stop)
  <2>1. from <= to /\ to <= Len(m) /\ to <= stop /\ stop <= Len(m) /\ Len(m) <= BufferSize
    BY <1>2, <1>5, <1>6
  <2>. QED
    BY <1>1, <1>9, <2>1, SliceOfMessage, Zenon
<1>12. ASSUME m[4] # 3 \/ n > 4
       PROVE  Meant(m) = [host |-> Target(m, n).host, port |-> Target(m, n).port]
  <2>1. stop = size
    BY <1>5, <1>6, <1>12
  <2>2. ASSUME NEW i \in 0..(size - 1) PROVE buf[i] = m[i + 1]
    <3>1. CASE i < n
      BY <1>1, <1>2, <1>3, <1>8, <3>1 DEF Filled
    <3>2. CASE n <= i
      BY <1>1, <1>2, <1>7, <1>8, <2>1, <3>2 DEF Filled
    <3>. QED
      BY <1>2, <3>1, <3>2
  <2>3. /\ (IF m[4] = 3 THEN 6 ELSE 5) = from + 1
        /\ Len(m) - 2 = to /\ Len(m) - 1 = to + 1 /\ Len(m) = stop
    BY <1>2, <1>4, <1>6, <2>1
  <2>4. Meant(m) = [host |-> SubSeq(m, from + 1, to), port |-> SubSeq(m, to + 1, stop)]
    BY <2>3 DEF Meant
  <2>. QED
    BY <1>2, <1>10, <1>11, <2>2, <2>4
<1>. QED
  BY <1>10, <1>11, <1>12

------------------------------------------------------------------------------
(* The handlers. *)

SocksTypeOK ==
  /\ requireAuth \in BOOLEAN /\ listening \in BOOLEAN
  /\ [requireAuth |-> requireAuth, profile |-> profile] \in Starts
  /\ gone \in [Clients -> BOOLEAN]
  /\ handler \in [Clients -> Stages]
  /\ dialled \in [Clients -> [host : Seq(Bytes), port : Seq(Bytes), sure : BOOLEAN]]
  /\ copying \in [Clients -> [Ways -> {"none", "copy", "done"}]]
  /\ errCh \in [Clients -> 0..2]

\* A handler dials when it has read everything, relays what it has dialled, and when it
\* has returned no dial is going on and no stream it was given is left open.
HandlerInv ==
  \A c \in Clients :
    /\ handler[c] \in {"none"} \cup Reading => dial[c] = "idle"
    /\ handler[c] = "relay" => dial[c] = "connected"
    /\ dial[c] = "idle" => stream[c].on = 0
    /\ handler[c] = "ended" =>
         dial[c] \in {"idle", "failed"} \/ (dial[c] = "connected" /\ stream[c].closed)

SocksInv ==
  OutboundInv /\ SocksTypeOK /\ HandlerInv /\ AuthSound /\ TargetMisreadOnlyIfSplit

\* What a client may send.
LEMMA ClientProfile ==
  ASSUME SocksTypeOK, NEW c \in Clients
  PROVE  /\ profile[c].auth \in Auths /\ profile[c].request \in Requests
         /\ requireAuth \in BOOLEAN
<1>1. [requireAuth |-> requireAuth, profile |-> profile]
        \in [requireAuth : BOOLEAN, profile : [Callers -> Profiles]]
  BY Socks5Assumption DEF SocksTypeOK
<1>2. profile \in [Callers -> Profiles]
  BY <1>1
<1>3. profile[c] \in Profiles
  BY <1>2 DEF Clients
<1>. QED
  BY <1>3 DEF Profiles, SocksTypeOK

\* What the invariant depends on.
LEMMA SocksUnchanged ==
  /\ HandlerInv /\ UNCHANGED <<handler, dial, stream>> => HandlerInv'
  /\ AuthSound /\ UNCHANGED <<requireAuth, profile, handler>> => AuthSound'
  /\ TargetMisreadOnlyIfSplit /\ UNCHANGED <<profile, dialled>> => TargetMisreadOnlyIfSplit'
  /\ SocksTypeOK /\ UNCHANGED socksVars => SocksTypeOK'
BY DEF HandlerInv, AuthSound, TargetMisreadOnlyIfSplit, SocksTypeOK, socksVars, config

LEMMA SocksInitInv == Init => SocksInv
<1>. SUFFICES ASSUME Init PROVE SocksInv
  OBVIOUS
<1>1. OutboundInv
  BY OutboundInitInv DEF Init
<1>2. SocksTypeOK
  <2>1. PICK s \in Starts : requireAuth = s.requireAuth /\ profile = s.profile
    BY DEF Init
  <2>2. s \in [requireAuth : BOOLEAN, profile : [Callers -> Profiles]]
    BY <2>1, Socks5Assumption
  <2>3. /\ requireAuth \in BOOLEAN
        /\ [requireAuth |-> requireAuth, profile |-> profile] \in Starts
    BY <2>1, <2>2
  <2>4. NoTarget \in [host : Seq(Bytes), port : Seq(Bytes), sure : BOOLEAN]
    BY DEF NoTarget
  <2>. QED
    BY <2>3, <2>4 DEF Init, SocksTypeOK, Stages
<1>3. HandlerInv
  BY DEF Init, OutboundInit, HandlerInv, Reading, Clients, NoStream
<1>4. AuthSound /\ TargetMisreadOnlyIfSplit
  BY DEF Init, AuthSound, TargetMisreadOnlyIfSplit
<1>. QED
  BY <1>1, <1>2, <1>3, <1>4 DEF SocksInv

\* A step of handleConnection before the dial: the handler reads on, or returns.
LEMMA ReadingInv ==
  ASSUME SocksInv, NEW c \in Clients, NEW to \in Reading \cup {"ended"},
         handler[c] \in {"none"} \cup Reading, handler' = [handler EXCEPT ![c] = to],
         requireAuth /\ to = "request" => profile[c].auth = RightAuth,
         UNCHANGED <<outboundVars, config, listening, gone, dialled, copying, errCh>>
  PROVE  SocksInv'
<1>1. OutboundInv'
  BY OutboundUnchanged DEF SocksInv
<1>2. SocksTypeOK'
  BY DEF SocksInv, SocksTypeOK, Stages, config
<1>3. /\ handler'[c] = to /\ \A d \in Clients : d # c => handler'[d] = handler[d]
  BY DEF SocksInv, SocksTypeOK
<1>4. HandlerInv'
  BY <1>3 DEF SocksInv, HandlerInv, outboundVars, Reading
<1>5. AuthSound'
  BY <1>3 DEF SocksInv, AuthSound, config, Reading
<1>6. TargetMisreadOnlyIfSplit'
  BY SocksUnchanged DEF SocksInv, config
<1>. QED
  BY <1>1, <1>2, <1>4, <1>5, <1>6 DEF SocksInv

LEMMA AcceptInv ==
  ASSUME SocksInv, NEW c \in Clients, Accept(c) \/ ReadFails(c) PROVE SocksInv'
<1>1. CASE Accept(c)
  BY <1>1, ReadingInv DEF Accept, Reading
<1>2. CASE ReadFails(c)
  BY <1>2, ReadingInv DEF ReadFails, Step, Reading
<1>. QED
  BY <1>1, <1>2

\* Nobody who must authenticate gets past negotiate without being asked to.
LEMMA NegotiateInv ==
  ASSUME SocksInv, NEW c \in Clients, Negotiate(c) PROVE SocksInv'
<1>1. Method(c) = 0 => ~requireAuth
  BY DEF Method
<1>. QED
  BY <1>1, ReadingInv DEF Negotiate, Step, Reading

LEMMA CheckUserInv ==
  ASSUME SocksInv, NEW c \in Clients, CheckUser(c) PROVE SocksInv'
<1>1. PICK n \in 2..Len(profile[c].auth) :
        Step(c, "auth", AuthResult(profile[c].auth, n))
  BY DEF CheckUser
<1>2. AuthResult(profile[c].auth, n) \in {"request", "ended", "stuck"}
  BY DEF AuthResult
<1>3. AuthResult(profile[c].auth, n) = "request" => profile[c].auth = RightAuth
  BY ClientProfile, OnlyRightAuth DEF SocksInv
<1>. QED
  BY <1>1, <1>2, <1>3, ReadingInv DEF CheckUser, Step, Reading

\* The handler dials what the request asks for.
LEMMA HandleRequestInv ==
  ASSUME SocksInv, NEW c \in Clients, HandleRequest(c) PROVE SocksInv'
<1>1. CASE ~Supported(profile[c].request)
  BY <1>1, ReadingInv DEF HandleRequest, Step, Reading
<1>2. CASE Supported(profile[c].request)
  <2>1. PICK n \in 4..Len(profile[c].request) :
          dialled' = [dialled EXCEPT ![c] =
            [host |-> Target(profile[c].request, n).host,
             port |-> Target(profile[c].request, n).port,
               sure |-> profile[c].request[4] # 3 \/ n > 4]]
    BY <1>2 DEF HandleRequest
  <2>2. /\ StartDial(c) /\ Step(c, "request", "dialling")
        /\ UNCHANGED <<config, listening, gone, copying, errCh>>
    BY <1>2 DEF HandleRequest
  <2>3. profile[c].request \in Requests
    BY ClientProfile DEF SocksInv
  <2>4. /\ Target(profile[c].request, n).host \in Seq(Bytes)
        /\ Target(profile[c].request, n).port \in Seq(Bytes)
        /\ profile[c].request[4] # 3 \/ n > 4 =>
             Meant(profile[c].request) = [host |-> Target(profile[c].request, n).host,
                                          port |-> Target(profile[c].request, n).port]
    BY <1>2, <2>3, TargetIs
  <2>5. /\ handler'[c] = "dialling" /\ handler[c] = "request"
        /\ \A d \in Clients : d # c => handler'[d] = handler[d]
    BY <2>2 DEF Step, SocksInv, SocksTypeOK
  <2>6. /\ dialled'[c] = [host |-> Target(profile[c].request, n).host,
                          port |-> Target(profile[c].request, n).port,
               sure |-> profile[c].request[4] # 3 \/ n > 4]
        /\ \A d \in Clients : d # c => dialled'[d] = dialled[d]
    BY <2>1 DEF SocksInv, SocksTypeOK
  <2>7. OutboundInv'
    BY <2>2, StartDialInv DEF SocksInv, Clients
  <2>8. SocksTypeOK'
    <3>1. [host |-> Target(profile[c].request, n).host,
           port |-> Target(profile[c].request, n).port,
               sure |-> profile[c].request[4] # 3 \/ n > 4]
             \in [host : Seq(Bytes), port : Seq(Bytes), sure : BOOLEAN]
      BY <2>4
    <3>2. dialled' \in [Clients -> [host : Seq(Bytes), port : Seq(Bytes), sure : BOOLEAN]]
      BY <2>1, <3>1 DEF SocksInv, SocksTypeOK
    <3>3. handler' \in [Clients -> Stages]
      BY <2>2 DEF Step, SocksInv, SocksTypeOK, Stages
    <3>. QED
      BY <2>2, <3>2, <3>3 DEF SocksInv, SocksTypeOK, config
  <2>9. HandlerInv'
    BY <2>2, <2>5 DEF SocksInv, HandlerInv, StartDial, Goto, Clients, Reading, OutboundInv,
                      OutboundTypeOK
  <2>10. AuthSound'
    BY <2>2, <2>5 DEF SocksInv, AuthSound, config
  <2>11. TargetMisreadOnlyIfSplit'
    <3>1. profile' = profile
      BY <2>2 DEF config
    <3>2. /\ dialled'[c].host = Target(profile[c].request, n).host
          /\ dialled'[c].port = Target(profile[c].request, n).port
          /\ dialled'[c].sure => profile[c].request[4] # 3 \/ n > 4
      <4>1. PICK cut \in BOOLEAN : cut <=> profile[c].request[4] # 3 \/ n > 4
        OBVIOUS
      <4>2. dialled'[c] = [host |-> Target(profile[c].request, n).host,
                           port |-> Target(profile[c].request, n).port, sure |-> cut]
        BY <2>6, <4>1
      <4>. QED
        BY <4>1, <4>2
    <3>3. ASSUME dialled'[c].sure
          PROVE  [host |-> dialled'[c].host, port |-> dialled'[c].port]
                   = Meant(profile[c].request)
      <4>1. profile[c].request[4] # 3 \/ n > 4
        BY <3>2, <3>3, Zenon
      <4>2. Meant(profile[c].request) = [host |-> Target(profile[c].request, n).host,
                                         port |-> Target(profile[c].request, n).port]
        BY <2>4, <4>1, Zenon
      <4>. QED
        BY <3>2, <4>2, Zenon
    <3>4. ASSUME NEW d \in Clients, dialled'[d] # NoTarget,
                 dialled'[d].sure
          PROVE  [host |-> dialled'[d].host, port |-> dialled'[d].port]
                   = Meant(profile[d].request)
      <4>1. CASE d = c
        BY <3>3, <3>4, <4>1
      <4>2. CASE d # c
        BY <2>6, <3>4, <4>2 DEF SocksInv, TargetMisreadOnlyIfSplit
      <4>. QED
        BY <4>1, <4>2
    <3>. QED
      BY <3>1, <3>4 DEF TargetMisreadOnlyIfSplit
  <2>. QED
    BY <2>7, <2>8, <2>9, <2>10, <2>11 DEF SocksInv
<1>. QED
  BY <1>1, <1>2

\* A dial that is over is no longer remembered.
LEMMA ForgetTarget ==
  ASSUME SocksTypeOK, TargetMisreadOnlyIfSplit, NEW c \in Clients, UNCHANGED profile,
         dialled' = [dialled EXCEPT ![c] = NoTarget]
  PROVE  /\ TargetMisreadOnlyIfSplit'
         /\ dialled' \in [Clients -> [host : Seq(Bytes), port : Seq(Bytes), sure : BOOLEAN]]
<1>1. NoTarget \in [host : Seq(Bytes), port : Seq(Bytes), sure : BOOLEAN]
  BY DEF NoTarget
<1>2. /\ dialled'[c] = NoTarget /\ \A d \in Clients : d # c => dialled'[d] = dialled[d]
      /\ dialled' \in [Clients -> [host : Seq(Bytes), port : Seq(Bytes), sure : BOOLEAN]]
  BY <1>1 DEF SocksTypeOK
<1>. QED
  BY <1>2 DEF TargetMisreadOnlyIfSplit

LEMMA RefuseInv ==
  ASSUME SocksInv, NEW c \in Clients, Refuse(c) PROVE SocksInv'
<1>. USE DEF Refuse, Step
<1>1. /\ TargetMisreadOnlyIfSplit'
      /\ dialled' \in [Clients -> [host : Seq(Bytes), port : Seq(Bytes), sure : BOOLEAN]]
  BY ForgetTarget DEF SocksInv, config
<1>2. OutboundInv'
  BY OutboundUnchanged DEF SocksInv
<1>3. SocksTypeOK'
  BY <1>1 DEF SocksInv, SocksTypeOK, Stages, config
<1>4. handler'[c] = "ended" /\ \A d \in Clients : d # c => handler'[d] = handler[d]
  BY DEF SocksInv, SocksTypeOK
<1>5. HandlerInv' /\ AuthSound'
  BY <1>4 DEF SocksInv, HandlerInv, AuthSound, Reading, outboundVars, config
<1>. QED
  BY <1>1, <1>2, <1>3, <1>5 DEF SocksInv

\* The reply: the relay starts, or the stream is closed.
LEMMA AnswerInv ==
  ASSUME SocksInv, NEW c \in Clients, Answer(c) PROVE SocksInv'
<1>1. /\ dial[c] = "connected" /\ handler[c] = "dialling"
      /\ dialled' = [dialled EXCEPT ![c] = NoTarget]
      /\ UNCHANGED <<config, listening, gone, errCh>> /\ UNCHANGED dial
  BY DEF Answer, Step, CloseTarget, outboundVars
<1>2. /\ TargetMisreadOnlyIfSplit'
      /\ dialled' \in [Clients -> [host : Seq(Bytes), port : Seq(Bytes), sure : BOOLEAN]]
  BY <1>1, ForgetTarget DEF SocksInv, config
<1>3. OutboundInv'
  BY OutboundUnchanged, CloseTargetInv DEF SocksInv, Answer, Clients
<1>4. CASE Step(c, "dialling", "relay") /\ UNCHANGED outboundVars
           /\ copying' = [copying EXCEPT ![c] = [w \in Ways |-> "copy"]]
  <2>1. SocksTypeOK'
    BY <1>1, <1>2, <1>4 DEF Step, SocksInv, SocksTypeOK, Stages, config
  <2>2. handler'[c] = "relay" /\ \A d \in Clients : d # c => handler'[d] = handler[d]
    BY <1>4 DEF Step, SocksInv, SocksTypeOK
  <2>3. HandlerInv' /\ AuthSound'
    BY <1>1, <1>4, <2>2
    DEF SocksInv, HandlerInv, AuthSound, Reading, outboundVars, config
  <2>. QED
    BY <1>2, <1>3, <2>1, <2>3 DEF SocksInv
<1>5. CASE Step(c, "dialling", "ended") /\ CloseTarget(c) /\ UNCHANGED copying
  <2>1. SocksTypeOK'
    BY <1>1, <1>2, <1>5 DEF Step, SocksInv, SocksTypeOK, Stages, config
  <2>2. handler'[c] = "ended" /\ \A d \in Clients : d # c => handler'[d] = handler[d]
    BY <1>5 DEF Step, SocksInv, SocksTypeOK
  <2>3. stream'[c].closed /\ \A d \in Clients : d # c => stream'[d] = stream[d]
    BY <1>5 DEF CloseTarget, CloseStream, SocksInv, OutboundInv, OutboundTypeOK, Clients
  <2>4. HandlerInv' /\ AuthSound'
    BY <1>1, <2>2, <2>3 DEF SocksInv, HandlerInv, AuthSound, Reading, config
  <2>. QED
    BY <1>2, <1>3, <2>1, <2>4 DEF SocksInv
<1>. QED
  BY <1>4, <1>5 DEF Answer

\* The relay is over: the stream is closed.
LEMMA FinishRelayInv ==
  ASSUME SocksInv, NEW c \in Clients, FinishRelay(c) PROVE SocksInv'
<1>. USE DEF FinishRelay, Step
<1>1. OutboundInv'
  BY CloseTargetInv DEF SocksInv, Clients
<1>2. errCh' \in [Clients -> 0..2]
  BY DEF SocksInv, SocksTypeOK
<1>3. SocksTypeOK'
  BY <1>2 DEF SocksInv, SocksTypeOK, Stages, config
<1>4. handler'[c] = "ended" /\ \A d \in Clients : d # c => handler'[d] = handler[d]
  BY DEF SocksInv, SocksTypeOK
<1>5. /\ stream'[c].closed /\ \A d \in Clients : d # c => stream'[d] = stream[d]
      /\ UNCHANGED dial
  BY DEF CloseTarget, CloseStream, SocksInv, OutboundInv, OutboundTypeOK, Clients
<1>6. HandlerInv' /\ AuthSound' /\ TargetMisreadOnlyIfSplit'
  BY <1>4, <1>5, SocksUnchanged DEF SocksInv, HandlerInv, AuthSound, Reading, config
<1>. QED
  BY <1>1, <1>3, <1>6 DEF SocksInv

LEMMA CopyEndsInv ==
  ASSUME SocksInv, NEW c \in Clients, NEW w \in Ways, CopyEnds(c, w) PROVE SocksInv'
<1>. USE DEF CopyEnds
<1>1. OutboundInv' /\ HandlerInv' /\ AuthSound' /\ TargetMisreadOnlyIfSplit'
  BY OutboundUnchanged, SocksUnchanged DEF SocksInv, outboundVars, config
<1>2. errCh' \in [Clients -> 0..2]
  <2>1. errCh \in [Clients -> 0..2] /\ errCh[c] \in 0..2
    BY DEF SocksInv, SocksTypeOK
  <2>2. errCh[c] + 1 \in 0..2
    BY <2>1 DEF CanReport, ErrChCapacity
  <2>. QED
    BY <2>1, <2>2
<1>3. copying' \in [Clients -> [Ways -> {"none", "copy", "done"}]]
  BY DEF SocksInv, SocksTypeOK
<1>4. SocksTypeOK'
  BY <1>2, <1>3 DEF SocksInv, SocksTypeOK, config
<1>. QED
  BY <1>1, <1>4 DEF SocksInv

\* A handler whose dial goes on has not returned.
LEMMA DialInv ==
  ASSUME SocksInv, NEW c \in Clients, DialStep(c), UNCHANGED socksVars PROVE SocksInv'
<1>1. OutboundInv'
  BY DialStepInv DEF SocksInv, Clients
<1>2. SocksTypeOK' /\ AuthSound' /\ TargetMisreadOnlyIfSplit' /\ UNCHANGED handler
  BY SocksUnchanged DEF SocksInv, socksVars, config
<1>3. dial[c] \in Dialling
  BY DEF DialStep, ReadSession, LockSession, DialBase, Handshake, Authenticate,
         StartSession, OpenStream, QueueOpen, Dialling
<1>4. \A d \in Clients : d # c => dial'[d] = dial[d] /\ stream'[d] = stream[d]
  BY DEF DialStep, ReadSession, LockSession, DialBase, Handshake, Authenticate,
         StartSession, OpenStream, QueueOpen, Use, Goto, Fail, SocksInv, OutboundInv,
         OutboundTypeOK, Clients
<1>5. dial'[c] # "idle"
  BY DEF DialStep, ReadSession, LockSession, DialBase, Handshake, Authenticate,
         StartSession, OpenStream, QueueOpen, Use, Goto, Fail, SocksInv, OutboundInv,
         OutboundTypeOK, Clients
<1>6. HandlerInv'
  BY <1>2, <1>3, <1>4, <1>5 DEF SocksInv, HandlerInv, Reading, Dialling
<1>. QED
  BY <1>1, <1>2, <1>6 DEF SocksInv

LEMMA EventInv ==
  ASSUME SocksInv, OutboundEvent, UNCHANGED socksVars PROVE SocksInv'
<1>1. OutboundInv'
  BY OutboundEventInv DEF SocksInv
<1>2. UNCHANGED <<dial, stream>>
  BY DEF OutboundEvent, CloseOutbound, EnterClose, FinishClose, LoopFails, LoopCloses
<1>. QED
  BY <1>1, <1>2, SocksUnchanged DEF SocksInv, socksVars, config

\* Every step keeps the invariant.
LEMMA SocksNextInv == SocksInv /\ [Next]_vars => SocksInv'
<1>. SUFFICES ASSUME SocksInv, [Next]_vars PROVE SocksInv'
  OBVIOUS
<1>1. ASSUME NEW c \in Clients, HandlerStep(c) PROVE SocksInv'
  BY <1>1, AcceptInv, NegotiateInv, CheckUserInv, HandleRequestInv, RefuseInv, AnswerInv,
     FinishRelayInv, DialInv
  DEF HandlerStep
<1>2. ASSUME NEW c \in Clients, ClientLeaves(c) PROVE SocksInv'
  BY <1>2, OutboundUnchanged, SocksUnchanged
  DEF ClientLeaves, SocksInv, SocksTypeOK, outboundVars, config
<1>3. CASE CloseServer
  BY <1>3, OutboundUnchanged, SocksUnchanged
  DEF CloseServer, SocksInv, SocksTypeOK, outboundVars, config
<1>4. CASE UNCHANGED vars
  BY <1>4, OutboundUnchanged, SocksUnchanged
  DEF vars, socksVars, config, SocksInv, outboundVars
<1>. QED
  BY <1>1, <1>2, <1>3, <1>4, AcceptInv, CopyEndsInv, EventInv DEF Next

------------------------------------------------------------------------------
(* Theorems. *)

LEMMA SocksAlways == FairSpec => []SocksInv
BY SocksInitInv, SocksNextInv, PTL DEF FairSpec

\* For any clients, offers, users, passwords and requests, and wherever their messages
\* are cut, who must authenticate does, and what is dialled is what was asked for unless
\* the length of a domain was looked up too early (authenticate, handleRequest).
THEOREM TakenAsMeantAlways == FairSpec => []TakenAsMeant
<1>1. SocksInv => TakenAsMeant
  BY DEF SocksInv, SocksTypeOK, OutboundInv, TakenAsMeant, TypeOK
<1>. QED
  BY <1>1, SocksAlways, PTL

\* For any callers and connections: of the TLS connections, sessions and streams that
\* createSession and DialContext make, none is left to nobody (Outbound, Server).
THEOREM NothingLeaksAlways == FairSpec => []NothingLeaks
<1>1. SocksInv => StreamsClosed
  BY DEF SocksInv, HandlerInv, StreamsClosed
<1>2. SocksInv => NothingLeaks
  BY <1>1, OutboundSafe DEF SocksInv, NothingLeaks
<1>. QED
  BY <1>2, SocksAlways, PTL

=============================================================================
