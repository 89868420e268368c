------------------------------ MODULE TunProxy -------------------------------
(***************************************************************************)
(* The transparent proxy between a TUN device and an outbound: packetLoop  *)
(* handling the TCP packets of clients under ProxyInterface.mu, one        *)
(* forwardConnection goroutine per connection, and the goroutine that      *)
(* handleFIN leaves behind.                                                *)
(*                                                                         *)
(* A key is a four-tuple (connID); a connection is a ProxyConnection,      *)
(* numbered in the order they are made.  Every payload has the length 1.   *)
(* The mutex is not reentrant and only packetLoop blocks while it holds    *)
(* it, so `loop` says who has it: in "dial", "write" and "stuck" packetLoop*)
(* does, and what the others do under it is one step.                      *)
(*                                                                         *)
(* Clients and servers are not part of the program: a client sends packets *)
(* its TCP may send, a server reads, writes and closes its connection.     *)
(***************************************************************************)
EXTENDS Naturals, Sequences

CONSTANTS
  Keys,      \* four-tuples
  Modulus,   \* sequence numbers are uint32: 2^32
  Isn,       \* the server ISN of each connection: the clock, modulo 2^32
  ConnBuf,   \* bytes an outbound connection holds in each direction
  InCap,     \* packets the TUN device holds
  MaxConns,  \* bound: SYN packets altogether
  MaxUp,     \* bound: data packets altogether
  MaxDown,   \* bound: bytes each server sends
  Env        \* which of Behaviours this environment shows

\* rst           a client resets its connection
\* fin_again     a client sends its FIN again
\* dial_error    the outbound cannot be reached
\* write_error   the outbound connection fails a Write
\* tun_error     a packet cannot be written to the TUN device
\* server_close  a server ends its direction of the connection
\* piggyback     a client acknowledges with its next data packet only
\* echo          servers answer every byte, and stop reading when they cannot
Behaviours ==
  {"rst", "fin_again", "dial_error", "write_error", "tun_error",
   "server_close", "piggyback", "echo"}

Conns == 1..MaxConns
NoConn == 0

ASSUME TunAssumption ==
  /\ Keys # {}
  /\ Modulus \in Nat \ {0}
  /\ MaxConns \in Nat
  /\ Isn \in [Conns -> 0..(Modulus - 1)]
  /\ ConnBuf \in Nat \ {0} /\ InCap \in Nat \ {0}
  /\ MaxUp \in Nat /\ MaxDown \in Nat
  /\ Env \subseteq Behaviours

VARIABLES
  inbox,        \* packets from the clients, in the TUN device
  loop,         \* where packetLoop is, and for which key
  connections,  \* ProxyInterface.connections
  made,         \* number of connections made
  key,          \* ProxyConnection.ID
  state,        \* ProxyConnection.State
  closed,       \* connections with Closed set: OutboundConn is closed with it
  serverSeq,    \* ProxyConnection.ServerSeq
  forwarder,    \* where forwardConnection is
  finTimer,     \* connections whose goroutine of handleFIN is asleep
  toServer,     \* bytes the server has still to read
  replies,      \* bytes of the server the forwarder has still to read
  serverClosed, \* connections whose server will send no more
  client,       \* what each client is doing
  expects,      \* next sequence number it expects
  owes,         \* clients that have received something they have not acked
  syns, ups,    \* SYN and data packets so far
  downs,        \* bytes each server has sent so far
  forwarded,    \* history: bytes forwardConnection has sent to the client
  finSent       \* history: connections whose FIN has been sent

connVars   == <<made, key, state, closed, serverSeq>>
threadVars == <<forwarder, finTimer>>
serverVars == <<toServer, replies, serverClosed, downs>>
clientVars == <<client, expects, owes>>
countVars  == <<syns, ups>>
histVars   == <<forwarded, finSent>>
vars == <<inbox, loop, connections, connVars, threadVars, serverVars,
          clientVars, countVars, histVars>>

Packets ==
  [key : Keys, type : {"syn", "ack", "data", "fin", "rst"},
   ack : 0..(Modulus - 1)]

Idle == [pc |-> "idle"]
Loops == {Idle} \cup [pc : {"dial", "write", "stuck"}, key : Keys]

Plus(a, n) == (a + n) % Modulus

Init ==
  /\ inbox = <<>> /\ loop = Idle
  /\ connections = [k \in Keys |-> NoConn]
  /\ made = 0
  /\ key = [c \in Conns |-> CHOOSE k \in Keys : TRUE]
  /\ state = [c \in Conns |-> "none"]
  /\ closed = {} /\ serverSeq = [c \in Conns |-> 0]
  /\ forwarder = [c \in Conns |-> "none"]
  /\ finTimer = {}
  /\ toServer = [c \in Conns |-> 0] /\ replies = [c \in Conns |-> 0]
  /\ serverClosed = {} /\ downs = [c \in Conns |-> 0]
  /\ client = [k \in Keys |-> "closed"]
  /\ expects = [k \in Keys |-> 0] /\ owes = {}
  /\ syns = 0 /\ ups = 0
  /\ forwarded = [c \in Conns |-> 0] /\ finSent = {}

LockFree == loop = Idle

\* A packet with sequence number seq gets to the client of k.
Hears(k, seq) ==
  IF client[k] \in {"acking", "open", "fin"}
    THEN /\ expects' = IF seq = expects[k]
                         THEN [expects EXCEPT ![k] = Plus(seq, 1)] ELSE expects
         /\ owes' = owes \cup {k}
         /\ UNCHANGED client
    ELSE UNCHANGED clientVars

\* SendPacketToTUN returns an error.
TunFails == "tun_error" \in Env /\ UNCHANGED clientVars

------------------------------------------------------------------------------
(* ProxyInterface.SendPacket, called by packetLoop through the router *)

\* The oldest packet, if it is of this type, by a packetLoop that can lock.
Take(type) ==
  /\ LockFree
  /\ inbox # <<>>
  /\ Head(inbox).type = type
  /\ inbox' = Tail(inbox)

PacketKey  == Head(inbox).key
PacketConn == connections[PacketKey]
Exists     == PacketConn # NoConn

\* The lock is held for good: a handler that has it locks again.
Stuck(k) == loop' = [pc |-> "stuck", key |-> k]

\* Mutant of HandleSYN: dials for every SYN.
HandleEverySYN ==
  /\ Take("syn")
  /\ loop' = [pc |-> "dial", key |-> PacketKey]
  /\ UNCHANGED <<connections, connVars, threadVars, serverVars, clientVars,
                 countVars, histVars>>

\* A repeated SYN is ignored; otherwise the outbound is dialled.
HandleSYN ==
  /\ Take("syn")
  /\ loop' = IF Exists THEN Idle ELSE [pc |-> "dial", key |-> PacketKey]
  /\ UNCHANGED <<connections, connVars, threadVars, serverVars, clientVars,
                 countVars, histVars>>

\* Mutant of DialDone: nobody reads what the server sends.
DialUnforwarded ==
  LET c == made + 1  k == loop.key IN
  /\ loop.pc = "dial"
  /\ made < MaxConns \* bound, reached by the SYNs first
  /\ loop' = Idle
  /\ made' = c
  /\ connections' = [connections EXCEPT ![k] = c]
  /\ key' = [key EXCEPT ![c] = k]
  /\ state' = [state EXCEPT ![c] = "SynReceived"]
  /\ serverSeq' = [serverSeq EXCEPT ![c] = Plus(Isn[c], 1)]
  /\ IF client[k] = "syn"
       THEN /\ client' = [client EXCEPT ![k] = "acking"]
            /\ expects' = [expects EXCEPT ![k] = Plus(Isn[c], 1)]
            /\ owes' = owes \cup {k}
       ELSE UNCHANGED clientVars
  /\ UNCHANGED <<inbox, closed, threadVars, serverVars, countVars, histVars>>

\* The SYN-ACK has been written, and the forwarder started.
DialDone ==
  LET c == made + 1  k == loop.key IN
  /\ loop.pc = "dial"
  /\ made < MaxConns \* bound, reached by the SYNs first
  /\ loop' = Idle
  /\ made' = c
  /\ connections' = [connections EXCEPT ![k] = c]
  /\ key' = [key EXCEPT ![c] = k]
  /\ state' = [state EXCEPT ![c] = "SynReceived"]
  /\ serverSeq' = [serverSeq EXCEPT ![c] = Plus(Isn[c], 1)]
  /\ forwarder' = [forwarder EXCEPT ![c] = "read"]
  /\ IF client[k] = "syn"
       THEN /\ client' = [client EXCEPT ![k] = "acking"]
            /\ expects' = [expects EXCEPT ![k] = Plus(Isn[c], 1)]
            /\ owes' = owes \cup {k}
       ELSE UNCHANGED clientVars
  /\ UNCHANGED <<inbox, closed, finTimer, serverVars, countVars, histVars>>

\* No outbound connection, or no SYN-ACK: nothing is kept, and recordError
\* locks again.
DialFails ==
  /\ loop.pc = "dial"
  /\ Env \cap {"dial_error", "tun_error"} # {}
  /\ Stuck(loop.key)
  /\ UNCHANGED <<inbox, connections, connVars, threadVars, serverVars,
                 clientVars, countVars, histVars>>

\* Mutants of Acknowledge: only the ACK of the SYN completes the handshake;
\* the sequence number follows every ACK.
AcknowledgeSyn(c, ack) ==
  \/ /\ state[c] = "SynReceived"
     /\ state' = [state EXCEPT
                    ![c] = IF ack = Plus(Isn[c], 1) THEN "Established" ELSE @]
     /\ UNCHANGED serverSeq
  \/ /\ state[c] = "Established"
     /\ serverSeq' = [serverSeq EXCEPT ![c] = IF ack > @ THEN ack ELSE @]
     /\ UNCHANGED state
  \/ state[c] \notin {"SynReceived", "Established"} /\ UNCHANGED <<state, serverSeq>>
AcknowledgeFollow(c, ack) ==
  \/ /\ state[c] = "SynReceived"
     /\ state' = [state EXCEPT ![c] = IF ack = serverSeq[c] THEN "Established" ELSE @]
     /\ UNCHANGED serverSeq
  \/ /\ state[c] = "Established"
     /\ serverSeq' = [serverSeq EXCEPT ![c] = ack]
     /\ UNCHANGED state
  \/ state[c] \notin {"SynReceived", "Established"} /\ UNCHANGED <<state, serverSeq>>

\* FinWait1, FinWait2, Closing, LastAck and TimeWait are never entered.
Acknowledge(c, ack) ==
  \/ /\ state[c] = "SynReceived"
     /\ state' = [state EXCEPT ![c] = IF ack = serverSeq[c] THEN "Established" ELSE @]
     /\ UNCHANGED serverSeq
  \/ /\ state[c] = "Established"
     /\ serverSeq' = [serverSeq EXCEPT ![c] = IF ack > @ THEN ack ELSE @]
     /\ UNCHANGED state
  \/ state[c] \notin {"SynReceived", "Established"} /\ UNCHANGED <<state, serverSeq>>

HandleACK ==
  /\ Take("ack")
  /\ Exists
  /\ Acknowledge(PacketConn, Head(inbox).ack)
  /\ UNCHANGED <<loop, connections, made, key, closed, threadVars, serverVars,
                 clientVars, countVars, histVars>>

\* State, Closed and OutboundConn.Close; the delete is behind a second Lock.
CloseAndRelock(c) ==
  /\ state' = [state EXCEPT ![c] = "Closed"]
  /\ closed' = closed \cup {c}
  /\ Stuck(key[c])

HandleRST ==
  /\ Take("rst")
  /\ Exists
  /\ CloseAndRelock(PacketConn)
  /\ UNCHANGED <<connections, made, key, serverSeq, threadVars, serverVars,
                 clientVars, countVars, histVars>>

\* The first FIN of an established connection is acknowledged, and answered
\* later; without the ACK nobody will answer.
HandleFIN ==
  /\ Take("fin")
  /\ Exists /\ state[PacketConn] = "Established"
  /\ state' = [state EXCEPT ![PacketConn] = "CloseWait"]
  /\ \/ finTimer' = finTimer \cup {PacketConn}
     \/ "tun_error" \in Env /\ UNCHANGED finTimer
  /\ UNCHANGED <<loop, connections, made, key, closed, serverSeq, forwarder,
                 serverVars, clientVars, countVars, histVars>>

\* Any other FIN is acknowledged and closes the connection.
HandleLateFIN ==
  /\ Take("fin")
  /\ Exists /\ state[PacketConn] # "Established"
  /\ \/ CloseAndRelock(PacketConn)
     \/ "tun_error" \in Env /\ UNCHANGED <<state, closed, loop>>
  /\ UNCHANGED <<connections, made, key, serverSeq, threadVars, serverVars,
                 clientVars, countVars, histVars>>

HandleData ==
  /\ Take("data")
  /\ Exists /\ state[PacketConn] = "Established"
  /\ loop' = [pc |-> "write", key |-> PacketKey]
  /\ UNCHANGED <<connections, connVars, threadVars, serverVars, clientVars,
                 countVars, histVars>>

\* Packets without a connection, and data before or after Established.
IgnorePacket ==
  /\ \E type \in {"ack", "rst", "fin", "data"} :
       /\ Take(type)
       /\ Exists => type = "data" /\ state[PacketConn] # "Established"
  /\ UNCHANGED <<loop, connections, connVars, threadVars, serverVars,
                 clientVars, countVars, histVars>>

\* OutboundConn.Write returns, under the lock.
WriteDone ==
  /\ loop.pc = "write"
  /\ toServer[connections[loop.key]] < ConnBuf
  /\ toServer' = [toServer EXCEPT ![connections[loop.key]] = @ + 1]
  /\ loop' = Idle
  /\ UNCHANGED <<inbox, connections, connVars, threadVars, replies,
                 serverClosed, downs, clientVars, countVars, histVars>>

\* recordError comes before handleClose.
WriteFails ==
  /\ loop.pc = "write"
  /\ "write_error" \in Env
  /\ Stuck(loop.key)
  /\ UNCHANGED <<inbox, connections, connVars, threadVars, serverVars,
                 clientVars, countVars, histVars>>

------------------------------------------------------------------------------
(* forwardConnection, and the goroutine of handleFIN *)

ForwardRead(c) ==
  /\ forwarder[c] = "read"
  /\ c \notin closed
  /\ replies[c] > 0
  /\ replies' = [replies EXCEPT ![c] = @ - 1]
  /\ forwarder' = [forwarder EXCEPT ![c] = "deliver"]
  /\ UNCHANGED <<inbox, loop, connections, connVars, finTimer, toServer,
                 serverClosed, downs, clientVars, countVars, histVars>>

\* A packet that could not be written is counted as sent.
ForwardDeliver(c) ==
  /\ forwarder[c] = "deliver"
  /\ LockFree
  /\ forwarder' = [forwarder EXCEPT ![c] = "read"]
  /\ Hears(key[c], serverSeq[c]) \/ TunFails
  /\ serverSeq' = [serverSeq EXCEPT ![c] = Plus(@, 1)]
  /\ forwarded' = [forwarded EXCEPT ![c] = @ + 1]
  /\ UNCHANGED <<inbox, loop, connections, made, key, state, closed, finTimer,
                 serverVars, countVars, finSent>>

\* Read returns an error: the server has closed, or OutboundConn is closed.
ForwardEnd(c) ==
  /\ forwarder[c] = "read"
  /\ c \in closed \/ (c \in serverClosed /\ replies[c] = 0)
  /\ forwarder' = [forwarder EXCEPT ![c] = "leave"]
  /\ UNCHANGED <<inbox, loop, connections, connVars, finTimer, serverVars,
                 clientVars, countVars, histVars>>

\* Mutant of ForwardLeave: the entry is left to the handlers.
ForwardLeaveEntry(c) ==
  /\ forwarder[c] = "leave"
  /\ LockFree
  /\ forwarder' = [forwarder EXCEPT ![c] = "done"]
  /\ closed' = closed \cup {c}
  /\ UNCHANGED <<inbox, loop, connections, made, key, state, serverSeq, finTimer,
                 serverVars, clientVars, countVars, histVars>>

\* The client is told nothing.
ForwardLeave(c) ==
  /\ forwarder[c] = "leave"
  /\ LockFree
  /\ forwarder' = [forwarder EXCEPT ![c] = "done"]
  /\ connections' = IF c \in closed THEN connections
                    ELSE [connections EXCEPT ![key[c]] = NoConn]
  /\ closed' = closed \cup {c}
  /\ UNCHANGED <<inbox, loop, made, key, state, serverSeq, finTimer, serverVars,
                 clientVars, countVars, histVars>>

\* 100 ms after the FIN.  The state is CloseWait for good; Closed is not
\* looked at.
FinTimer(c) ==
  /\ c \in finTimer
  /\ LockFree
  /\ finTimer' = finTimer \ {c}
  /\ \/ /\ state[c] = "CloseWait"
        /\ Hears(key[c], serverSeq[c])
        /\ serverSeq' = [serverSeq EXCEPT ![c] = Plus(@, 1)]
        /\ finSent' = finSent \cup {c}
     \/ /\ state[c] # "CloseWait" \/ "tun_error" \in Env
        /\ UNCHANGED <<clientVars, serverSeq, finSent>>
  /\ UNCHANGED <<inbox, loop, connections, made, key, state, closed, forwarder,
                 serverVars, countVars, forwarded>>

------------------------------------------------------------------------------
(* The clients *)

Packet(k, type, ack) == [key |-> k, type |-> type, ack |-> ack]

Sends(k, type) ==
  /\ Len(inbox) < InCap
  /\ inbox' = Append(inbox, Packet(k, type, expects[k]))
  /\ UNCHANGED <<loop, connections, connVars, threadVars, serverVars, expects,
                 histVars>>

\* Also again, while there is no answer.
ClientSyn(k) ==
  /\ client[k] \in {"closed", "syn"}
  /\ syns < MaxConns
  /\ Sends(k, "syn")
  /\ client' = [client EXCEPT ![k] = "syn"]
  /\ syns' = syns + 1
  /\ UNCHANGED <<owes, ups>>

\* The first one ends the client's side of the handshake.
ClientAck(k) ==
  /\ k \in owes
  /\ Sends(k, "ack")
  /\ owes' = owes \ {k}
  /\ client' = [client EXCEPT ![k] = IF @ = "acking" THEN "open" ELSE @]
  /\ UNCHANGED countVars

ClientData(k) ==
  /\ client[k] = "open"
  /\ ups < MaxUp
  /\ Sends(k, "data")
  /\ ups' = ups + 1
  /\ owes' = IF "piggyback" \in Env THEN owes \ {k} ELSE owes
  /\ UNCHANGED <<client, syns>>

ClientFin(k) ==
  /\ client[k] = "open" \/ (client[k] = "fin" /\ "fin_again" \in Env)
  /\ Sends(k, "fin")
  /\ client' = [client EXCEPT ![k] = "fin"]
  /\ UNCHANGED <<owes, countVars>>

\* After a reset the four-tuple may be used again.
ClientRst(k) ==
  /\ "rst" \in Env
  /\ client[k] # "closed"
  /\ Sends(k, "rst")
  /\ client' = [client EXCEPT ![k] = "closed"]
  /\ owes' = owes \ {k}
  /\ UNCHANGED countVars

------------------------------------------------------------------------------
(* The servers *)

Serves(c) == forwarder[c] # "none" /\ c \notin serverClosed
Echoes(c) == "echo" \in Env /\ c \notin serverClosed

ServerReads(c) ==
  /\ toServer[c] > 0
  /\ toServer' = [toServer EXCEPT ![c] = @ - 1]
  /\ IF Echoes(c)
       THEN /\ replies[c] < ConnBuf
            /\ replies' = [replies EXCEPT ![c] = @ + 1]
            /\ downs' = [downs EXCEPT ![c] = @ + 1]
       ELSE UNCHANGED <<replies, downs>>
  /\ UNCHANGED <<inbox, loop, connections, connVars, threadVars, serverClosed,
                 clientVars, countVars, histVars>>

ServerSends(c) ==
  /\ Serves(c)
  /\ "echo" \notin Env
  /\ replies[c] < ConnBuf /\ downs[c] < MaxDown
  /\ replies' = [replies EXCEPT ![c] = @ + 1]
  /\ downs' = [downs EXCEPT ![c] = @ + 1]
  /\ UNCHANGED <<inbox, loop, connections, connVars, threadVars, toServer,
                 serverClosed, clientVars, countVars, histVars>>

ServerCloses(c) ==
  /\ Serves(c)
  /\ "server_close" \in Env
  /\ serverClosed' = serverClosed \cup {c}
  /\ UNCHANGED <<inbox, loop, connections, connVars, threadVars, toServer,
                 replies, downs, clientVars, countVars, histVars>>

------------------------------------------------------------------------------
SendPacket ==
  \/ HandleSYN \/ HandleACK \/ HandleRST \/ HandleFIN \/ HandleLateFIN
  \/ HandleData \/ IgnorePacket

PacketLoop ==
  SendPacket \/ DialDone \/ DialFails \/ WriteDone \/ WriteFails

ForwardConnection(c) ==
  ForwardRead(c) \/ ForwardDeliver(c) \/ ForwardEnd(c) \/ ForwardLeave(c)

Client(k) ==
  ClientSyn(k) \/ ClientAck(k) \/ ClientData(k) \/ ClientFin(k) \/ ClientRst(k)

Server(c) == ServerReads(c) \/ ServerSends(c) \/ ServerCloses(c)

Next ==
  \/ PacketLoop
  \/ \E c \in Conns : ForwardConnection(c) \/ FinTimer(c) \/ Server(c)
  \/ \E k \in Keys : Client(k)

Spec == Init /\ [][Next]_vars

\* packetLoop and the forwarders run, and get the mutex in their turn
\* (sync.Mutex hands it to whoever has waited for 1 ms); clients acknowledge
\* what they receive, and servers read.
Fairness ==
  /\ SF_vars(PacketLoop)
  /\ \A c \in Conns : SF_vars(ForwardConnection(c)) /\ WF_vars(ServerReads(c))
  /\ \A k \in Keys : SF_vars(ClientAck(k))

FairSpec == Spec /\ Fairness

------------------------------------------------------------------------------
(* Properties *)

LoopTypeOK ==
  /\ inbox \in Seq(Packets) /\ Len(inbox) <= InCap
  /\ loop \in Loops

ConnTypeOK ==
  /\ connections \in [Keys -> Conns \cup {NoConn}]
  /\ key \in [Conns -> Keys]
  /\ state \in [Conns -> {"none", "SynReceived", "Established", "CloseWait",
                          "Closed"}]
  /\ closed \subseteq Conns
  /\ serverSeq \in [Conns -> 0..(Modulus - 1)]

ThreadTypeOK ==
  /\ made \in 0..MaxConns
  /\ forwarder \in [Conns -> {"none", "read", "deliver", "leave", "done"}]
  /\ \A c \in Conns : forwarder[c] = "none" <=> c > made
  /\ finTimer \subseteq Conns

ServerTypeOK ==
  /\ toServer \in [Conns -> 0..ConnBuf]
  /\ replies \in [Conns -> 0..ConnBuf]
  /\ serverClosed \subseteq Conns
  /\ downs \in [Conns -> Nat]

ClientTypeOK ==
  /\ client \in [Keys -> {"closed", "syn", "acking", "open", "fin"}]
  /\ expects \in [Keys -> 0..(Modulus - 1)]
  /\ owes \subseteq Keys

CountTypeOK ==
  /\ syns \in Nat /\ ups \in Nat
  /\ forwarded \in [Conns -> Nat]
  /\ finSent \subseteq Conns

\* Every variable keeps its type; buffers stay within capacity, and exactly
\* the connections that were made have a forwarder (line 295).
TypeOK ==
  /\ LoopTypeOK /\ ConnTypeOK /\ ThreadTypeOK
  /\ ServerTypeOK /\ ClientTypeOK /\ CountTypeOK

\* A connection whose forwarder runs and which nobody has closed is the one
\* its key names (proxy_interface.go:225, 280, 512-516): the packets of its
\* client find it, however SYNs are repeated and four-tuples used again.
LiveIsTracked ==
  \A c \in Conns :
    forwarder[c] \in {"read", "deliver", "leave"} /\ c \notin closed
      => connections[key[c]] = c

\* ServerSeq is what the client has been sent (lines 345-348, 568, 678): late
\* acknowledgements, and the FIN of line 433, never move it elsewhere, as
\* long as it does not wrap.
SeqMatchesSent ==
  \A c \in 1..made :
    serverSeq[c] =
      Plus(Isn[c], 1 + forwarded[c] + (IF c \in finSent THEN 1 ELSE 0))

\* packetLoop always comes back for the next packet: no handler keeps the
\* lock for good (lines 195-219).
LoopKeepsRunning == loop # Idle ~> loop = Idle

\* A client that has received everything it was sent and acknowledges it is
\* taken to be connected (lines 322-341), also when the server has spoken
\* first and ServerSeq has moved on from the SYN-ACK.
HandshakeCompletes ==
  \A c \in Conns :
    LET waits == /\ state[c] = "SynReceived" /\ c \notin closed
                 /\ client[key[c]] \in {"acking", "open"} /\ expects[key[c]] = serverSeq[c]
    IN  waits ~> ~waits \/ loop.pc = "stuck"

\* When the server has said its last, its four-tuple becomes free (lines
\* 511-519), unless the lock is gone.
ServerCloseFreesKey ==
  \A c \in Conns :
    c \in serverClosed
      ~> (\A k \in Keys : connections[k] # c) \/ loop.pc = "stuck"
==============================================================================
