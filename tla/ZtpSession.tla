----------------------------- MODULE ZtpSession ------------------------------
(***************************************************************************)
(* The goroutines of one ZTP session: sendLoop, recvLoop, processLoop and  *)
(* pingLoop, the error channel they share, the priority queues, and the    *)
(* calls of Session.Close, by applications and by processLoop itself.      *)
(*                                                                         *)
(* Frames are known by what processLoop does with them: "plain" (handled   *)
(* inside the session), "ping" (answered with a pong) or "bad" (handling   *)
(* reports an error: an unknown type, or an ACK payload that is not eight  *)
(* bytes).  A pong is an ACK with the four bytes "pong", hence "bad".      *)
(***************************************************************************)
EXTENDS Naturals, Sequences, FiniteSets

CONSTANTS
  Closers,    \* application goroutines that may call Close
  SendBuf,    \* capacity of each priority queue
  RecvBuf,    \* capacity of Session.recvCh
  ErrBuf,     \* capacity of Session.errors: 10
  MaxSends,   \* bound: frames the applications send
  MaxFrames,  \* bound: plain, ping and bad frames the peer sends unasked
  MaxPings,   \* bound: ticks of the ping ticker
  Env         \* which of Behaviours this environment shows

\* transport_error  reads and writes of the transport may fail, or reach EOF
\* bad_frame        the peer sends frames whose handling reports an error
\* ping             PingInterval > 0: pingLoop runs
\* slow_bytes       a frame may arrive in pieces more than 100 ms apart
\* no_deadline      the transport has no SetReadDeadline
\* stalled_peer     the peer has stopped reading: writes block for ever
Behaviours ==
  {"transport_error", "bad_frame", "ping", "slow_bytes", "no_deadline",
   "stalled_peer"}

\* processLoop calls Close too.
Loop == "processLoop"

ASSUME SessionAssumption ==
  /\ Loop \notin Closers
  /\ SendBuf \in Nat \ {0} /\ RecvBuf \in Nat \ {0} /\ ErrBuf \in Nat \ {0}
  /\ MaxSends \in Nat /\ MaxFrames \in Nat /\ MaxPings \in Nat
  /\ Env \subseteq Behaviours

Callers == Closers \cup {Loop}
Queues  == {"high", "normal", "low"}

VARIABLES
  sendPc,     \* sendLoop
  recvPc,     \* recvLoop
  procPc,     \* processLoop
  pingPc,     \* pingLoop
  closePc,    \* the call of Close of each caller
  once,       \* closeOnce: "free", "busy" or "done"
  isClosed,   \* Session.isClosed
  cancelled,  \* ctx is cancelled
  closeCh,    \* closeCh is closed
  transport,  \* "open" until transport.Close()
  queued,     \* frames in each priority queue
  writing,    \* the queue of the frame sendLoop is writing
  recvCh,     \* Session.recvCh: kinds of the frames in it
  held,       \* the frame recvLoop is handing to recvCh
  errors,     \* number of errors in Session.errors
  desync,     \* part of a frame was lost by a read deadline
  sends,      \* frames sent by applications so far
  frames,     \* unasked frames read from the peer so far
  ticks,      \* ticks of the ping ticker so far
  pings,      \* pings on the wire the peer has not answered
  faults      \* history: failed calls of the transport, bad frames and pongs

loopVars  == <<sendPc, recvPc, procPc, pingPc>>
closeVars == <<closePc, once, isClosed, cancelled, closeCh, transport>>
sendVars  == <<queued, writing>>
recvVars  == <<recvCh, held, desync>>
countVars == <<sends, frames, ticks, pings, faults>>
vars == <<loopVars, closeVars, sendVars, recvVars, errors, countVars>>

------------------------------------------------------------------------------
Init ==
  /\ sendPc = "scan" /\ recvPc = "top" /\ procPc = "select"
  /\ pingPc = IF "ping" \in Env THEN "wait" ELSE "done"
  /\ closePc = [c \in Callers |-> "idle"]
  /\ once = "free"
  /\ isClosed = FALSE /\ cancelled = FALSE /\ closeCh = FALSE
  /\ transport = "open"
  /\ queued = [q \in Queues |-> 0]
  /\ writing = "none"
  /\ recvCh = <<>> /\ held = "none" /\ errors = 0 /\ desync = FALSE
  /\ sends = 0 /\ frames = 0 /\ ticks = 0 /\ pings = 0 /\ faults = 0

\* ctx.Done() or closeCh is ready.
Stopping == cancelled \/ closeCh

Room(q) == queued[q] < SendBuf

Count(b) == IF b THEN 1 ELSE 0

\* Mutant of TrySend: no check for room.
TrySendAlways(q) == queued' = [queued EXCEPT ![q] = @ + 1]

\* trySendFrame: a full queue loses the frame.
TrySend(q) ==
  queued' = IF Room(q) THEN [queued EXCEPT ![q] = @ + 1] ELSE queued

\* Mutant of LoopsDone: processLoop is not in the wait group.
TransportLoopsDone == sendPc = "done" /\ recvPc = "done" /\ pingPc = "done"

\* Mutant of LoopsDone: pingLoop is not in the wait group.
UnpingedLoopsDone == sendPc = "done" /\ recvPc = "done" /\ procPc = "done"

LoopsDone ==
  sendPc = "done" /\ recvPc = "done" /\ procPc = "done" /\ pingPc = "done"

------------------------------------------------------------------------------
(* sendLoop *)

Take(q) ==
  /\ queued[q] > 0
  /\ queued' = [queued EXCEPT ![q] = @ - 1]
  /\ writing' = q
  /\ sendPc' = "write"

\* The nested selects with default: high before normal before low.
SendScan ==
  /\ sendPc = "scan"
  /\ \/ Take("high")
     \/ queued["high"] = 0 /\ Take("normal")
     \/ queued["high"] = 0 /\ queued["normal"] = 0 /\ Take("low")
     \/ /\ \A q \in Queues : queued[q] = 0
        /\ sendPc' = "park"
        /\ UNCHANGED sendVars
  /\ UNCHANGED <<recvPc, procPc, pingPc, closeVars, recvVars, errors, countVars>>

\* The blocking select takes any ready case.
SendPark ==
  /\ sendPc = "park"
  /\ \/ \E q \in Queues : Take(q)
     \/ Stopping /\ sendPc' = "done" /\ UNCHANGED sendVars
  /\ UNCHANGED <<recvPc, procPc, pingPc, closeVars, recvVars, errors, countVars>>

WriteDone ==
  /\ sendPc = "write"
  /\ "stalled_peer" \notin Env
  /\ sendPc' = "scan"
  /\ writing' = "none"
  /\ pings' = IF writing = "low" THEN pings + 1 ELSE pings
  /\ UNCHANGED <<recvPc, procPc, pingPc, closeVars, queued, recvVars, errors,
                 sends, frames, ticks, faults>>

WriteFails ==
  /\ sendPc = "write"
  /\ "transport_error" \in Env
  /\ sendPc' = "report"
  /\ writing' = "none"
  /\ faults' = faults + 1
  /\ UNCHANGED <<recvPc, procPc, pingPc, closeVars, queued, recvVars, errors,
                 sends, frames, ticks, pings>>

\* s.errors <- err: blocks while the channel is full.
SendReport ==
  /\ sendPc = "report"
  /\ errors < ErrBuf
  /\ errors' = errors + 1
  /\ sendPc' = "done"
  /\ UNCHANGED <<recvPc, procPc, pingPc, closeVars, sendVars, recvVars,
                 countVars>>

------------------------------------------------------------------------------
(* recvLoop *)

RecvTop ==
  /\ recvPc = "top"
  /\ recvPc' = IF Stopping THEN "done" ELSE "read"
  /\ UNCHANGED <<sendPc, procPc, pingPc, closeVars, sendVars, recvVars, errors,
                 countVars>>

Receive(kind) ==
  /\ held' = kind
  /\ recvPc' = "push"
  /\ faults' = faults + Count(kind = "bad")
  /\ UNCHANGED <<sendPc, procPc, pingPc, closeVars, sendVars, recvCh, errors,
                 desync, sends, ticks>>

\* A frame the peer sends of its own accord.
ReadFrame ==
  /\ recvPc = "read"
  /\ ~desync
  /\ frames < MaxFrames
  /\ frames' = frames + 1
  /\ \E kind \in {"plain", "ping"} \cup
                 (IF "bad_frame" \in Env THEN {"bad"} ELSE {}) : Receive(kind)
  /\ UNCHANGED pings

\* The answer to one of our pings, as handlePingFrame of the peer builds it.
ReadPong ==
  /\ recvPc = "read"
  /\ ~desync
  /\ pings > 0
  /\ pings' = pings - 1
  /\ Receive("bad")
  /\ UNCHANGED frames

\* Mutant of ReadDeadline: a deadline is an error like any other.
ReadDeadlineFails ==
  /\ recvPc = "read"
  /\ "no_deadline" \notin Env
  /\ recvPc' = "report"
  /\ UNCHANGED <<sendPc, procPc, pingPc, closeVars, sendVars, recvVars, errors,
                 countVars>>

\* The 100 ms read deadline passes; with a frame half read, its first bytes
\* are gone.
ReadDeadline ==
  /\ recvPc = "read"
  /\ "no_deadline" \notin Env
  /\ recvPc' = "top"
  /\ \/ UNCHANGED desync
     \/ "slow_bytes" \in Env /\ frames < MaxFrames /\ desync' = TRUE
  /\ UNCHANGED <<sendPc, procPc, pingPc, closeVars, sendVars, recvCh, held,
                 errors, countVars>>

\* EOF, a transport error, or bytes from the middle of a frame.
ReadFails ==
  /\ recvPc = "read"
  /\ "transport_error" \in Env \/ desync
  /\ recvPc' = "report"
  /\ faults' = faults + 1
  /\ UNCHANGED <<sendPc, procPc, pingPc, closeVars, sendVars, recvVars, errors,
                 sends, frames, ticks, pings>>

\* Mutant of RecvReport: recvLoop leaves without reporting.
RecvLeave ==
  /\ recvPc = "report"
  /\ recvPc' = "done"
  /\ UNCHANGED <<sendPc, procPc, pingPc, closeVars, sendVars, recvVars, errors,
                 countVars>>

RecvReport ==
  /\ recvPc = "report"
  /\ errors < ErrBuf
  /\ errors' = errors + 1
  /\ recvPc' = "done"
  /\ UNCHANGED <<sendPc, procPc, pingPc, closeVars, sendVars, recvVars,
                 countVars>>

\* Mutant of RecvPush: a blocked hand-over does not look at ctx and closeCh.
RecvPushStubborn ==
  /\ recvPc = "push"
  /\ Len(recvCh) < RecvBuf
  /\ recvCh' = Append(recvCh, held)
  /\ recvPc' = "top"
  /\ held' = "none"
  /\ UNCHANGED <<sendPc, procPc, pingPc, closeVars, sendVars, errors, desync,
                 countVars>>

RecvPush ==
  /\ recvPc = "push"
  /\ \/ /\ Len(recvCh) < RecvBuf
        /\ recvCh' = Append(recvCh, held)
        /\ recvPc' = "top"
     \/ Stopping /\ recvPc' = "done" /\ UNCHANGED recvCh
  /\ held' = "none"
  /\ UNCHANGED <<sendPc, procPc, pingPc, closeVars, sendVars, errors, desync,
                 countVars>>

------------------------------------------------------------------------------
(* processLoop *)

\* handleFrame: a plain frame may make the session send an ACK or a RESET, a
\* ping makes it send a pong at normal priority, a bad one reports an error.
Handle ==
  /\ procPc = "select"
  /\ recvCh # <<>>
  /\ recvCh' = Tail(recvCh)
  /\ \/ /\ Head(recvCh) = "plain"
        /\ TrySend("high") \/ TrySend("normal") \/ UNCHANGED queued
        /\ UNCHANGED procPc
     \/ /\ Head(recvCh) = "ping"
        /\ TrySend("normal")
        /\ UNCHANGED procPc
     \/ /\ Head(recvCh) = "bad"
        /\ procPc' = "report"
        /\ UNCHANGED queued
  /\ UNCHANGED <<sendPc, recvPc, pingPc, closeVars, writing, held, errors,
                 desync, countVars>>

\* s.errors <- err from inside handleFrame.
ProcReport ==
  /\ procPc = "report"
  /\ errors < ErrBuf
  /\ errors' = errors + 1
  /\ procPc' = "select"
  /\ UNCHANGED <<sendPc, recvPc, pingPc, closeVars, sendVars, recvVars,
                 countVars>>

\* An error is received: processLoop calls Close.
ProcError ==
  /\ procPc = "select"
  /\ errors > 0
  /\ errors' = errors - 1
  /\ procPc' = "close"
  /\ UNCHANGED <<sendPc, recvPc, pingPc, closeVars, sendVars, recvVars,
                 countVars>>

ProcStop ==
  /\ \/ procPc = "select" /\ Stopping
     \/ procPc = "close" /\ closePc[Loop] = "returned"
  /\ procPc' = "done"
  /\ UNCHANGED <<sendPc, recvPc, pingPc, closeVars, sendVars, recvVars, errors,
                 countVars>>

------------------------------------------------------------------------------
(* pingLoop *)

PingTick ==
  /\ pingPc = "wait"
  /\ ticks < MaxPings
  /\ ticks' = ticks + 1
  /\ pingPc' = IF isClosed THEN "done" ELSE "send"
  /\ UNCHANGED <<sendPc, recvPc, procPc, closeVars, sendVars, recvVars, errors,
                 sends, frames, pings, faults>>

\* sendFrame(ping): queued at low priority, or an error after closeCh closed
\* or the queue stayed full for 5 s, which ends the loop.
PingSend ==
  /\ pingPc = "send"
  /\ \/ /\ Room("low")
        /\ queued' = [queued EXCEPT !["low"] = @ + 1]
        /\ pingPc' = "wait"
     \/ /\ closeCh \/ ~Room("low")
        /\ pingPc' = "done"
        /\ UNCHANGED queued
  /\ UNCHANGED <<sendPc, recvPc, procPc, closeVars, writing, recvVars, errors,
                 countVars>>

PingStop ==
  /\ pingPc = "wait"
  /\ Stopping
  /\ pingPc' = "done"
  /\ UNCHANGED <<sendPc, recvPc, procPc, closeVars, sendVars, recvVars, errors,
                 countVars>>

------------------------------------------------------------------------------
(* Session.Close, by caller c *)

\* Applications call it when they like, processLoop on an error; whoever
\* finds isClosed set returns at once.
CloseEnter(c) ==
  /\ closePc[c] = "idle"
  /\ c = Loop => procPc = "close"
  /\ closePc' = [closePc EXCEPT ![c] = IF isClosed THEN "returned" ELSE "once"]
  /\ UNCHANGED <<once, isClosed, cancelled, closeCh, transport, loopVars,
                 sendVars, recvVars, errors, countVars>>

\* Mutant of CloseOnce: an isClosed check where the code has closeOnce.
CloseUnguarded(c) ==
  /\ closePc[c] = "once"
  /\ once' = "busy"
  /\ isClosed' = TRUE
  /\ cancelled' = TRUE
  /\ closePc' = [closePc EXCEPT ![c] = "drain"]
  /\ UNCHANGED <<closeCh, transport, loopVars, sendVars, recvVars, errors,
                 countVars>>

\* closeOnce.Do: the first caller runs the body up to s.cancel(); the others
\* wait until it has finished.
CloseOnce(c) ==
  /\ closePc[c] = "once"
  /\ \/ /\ once = "free"
        /\ once' = "busy"
        /\ isClosed' = TRUE
        /\ cancelled' = TRUE
        /\ closePc' = [closePc EXCEPT ![c] = "drain"]
     \/ /\ once = "done"
        /\ closePc' = [closePc EXCEPT ![c] = "returned"]
        /\ UNCHANGED <<once, isClosed, cancelled>>
  /\ UNCHANGED <<closeCh, transport, loopVars, sendVars, recvVars, errors,
                 countVars>>

\* The streams are dropped and closeCh is closed.
CloseDrain(c) ==
  /\ closePc[c] = "drain"
  /\ closeCh' = TRUE
  /\ closePc' = [closePc EXCEPT ![c] = "wait"]
  /\ UNCHANGED <<once, isClosed, cancelled, transport, loopVars, sendVars,
                 recvVars, errors, countVars>>

\* wg.Wait() returns only when every loop has left; then transport.Close().
CloseFinish(c) ==
  /\ closePc[c] = "wait"
  /\ LoopsDone
  /\ transport' = "closed"
  /\ once' = "done"
  /\ closePc' = [closePc EXCEPT ![c] = "returned"]
  /\ UNCHANGED <<isClosed, cancelled, closeCh, loopVars, sendVars, recvVars,
                 errors, countVars>>

------------------------------------------------------------------------------
\* sendFrame by an application: OpenStream, Stream.Write or Stream.Close.
AppSend ==
  /\ sends < MaxSends
  /\ Room("normal")
  /\ sends' = sends + 1
  /\ queued' = [queued EXCEPT !["normal"] = @ + 1]
  /\ UNCHANGED <<loopVars, closeVars, writing, recvVars, errors, frames, ticks,
                 pings, faults>>

SendLoop == SendScan \/ SendPark \/ WriteDone \/ WriteFails \/ SendReport
RecvLoop ==
  RecvTop \/ ReadFrame \/ ReadPong \/ ReadDeadline \/ ReadFails \/ RecvReport
  \/ RecvPush
ProcessLoop == Handle \/ ProcReport \/ ProcError \/ ProcStop
PingLoop == PingTick \/ PingSend \/ PingStop
Close(c) == CloseEnter(c) \/ CloseOnce(c) \/ CloseDrain(c) \/ CloseFinish(c)

Next ==
  \/ SendLoop \/ RecvLoop \/ ProcessLoop \/ PingLoop
  \/ \E c \in Callers : Close(c)
  \/ AppSend

Spec == Init /\ [][Next]_vars

\* Goroutines that can run do run, and a call of Close that was made goes on.
\* Nobody has to call Close, to send, or to tick; the transport need not fail,
\* and the peer need not speak: recvLoop's steps include its read deadline.
Fairness ==
  /\ WF_vars(SendLoop)
  /\ WF_vars(RecvLoop)
  /\ WF_vars(ProcessLoop)
  /\ WF_vars(PingSend \/ PingStop)
  /\ \A c \in Callers :
       WF_vars(CloseOnce(c) \/ CloseDrain(c) \/ CloseFinish(c))
  /\ WF_vars(CloseEnter(Loop))

FairSpec == Spec /\ Fairness

------------------------------------------------------------------------------
(* Properties *)

\* Every variable keeps its type; channels stay within capacity.
TypeOK ==
  /\ sendPc \in {"scan", "park", "write", "report", "done"}
  /\ recvPc \in {"top", "read", "push", "report", "done"}
  /\ procPc \in {"select", "report", "close", "done"}
  /\ pingPc \in {"wait", "send", "done"}
  /\ closePc \in [Callers -> {"idle", "once", "drain", "wait", "returned"}]
  /\ once \in {"free", "busy", "done"}
  /\ isClosed \in BOOLEAN /\ cancelled \in BOOLEAN /\ closeCh \in BOOLEAN
  /\ transport \in {"open", "closed"}
  /\ queued \in [Queues -> 0..SendBuf]
  /\ writing \in Queues \cup {"none"}
  /\ recvCh \in Seq({"plain", "ping", "bad"}) /\ Len(recvCh) <= RecvBuf
  /\ held \in {"plain", "ping", "bad", "none"}
  /\ held = "none" <=> recvPc # "push"
  /\ errors \in 0..ErrBuf
  /\ desync \in BOOLEAN
  /\ sends \in Nat /\ frames \in Nat /\ ticks \in Nat /\ pings \in Nat
  /\ faults \in Nat

\* The transport is closed after every loop has left (session.go:172-176):
\* no goroutine reads or writes a transport this session has closed.
TransportClosedLast ==
  transport = "closed" => {sendPc, recvPc, procPc, pingPc} = {"done"}

\* One caller at a time is inside closeOnce.Do (session.go:157), so closeCh is
\* closed once; and nobody is there before or after.
OneCloser ==
  /\ \A c, d \in Callers :
       closePc[c] \in {"drain", "wait"} /\ closePc[d] \in {"drain", "wait"}
         => c = d
  /\ (\E c \in Callers : closePc[c] \in {"drain", "wait"}) <=> once = "busy"

\* When processLoop itself runs the body of Close (session.go:386), wg.Wait
\* waits for processLoop: that call never returns and the transport is never
\* closed, by this or any other call.
LoopCloseIsFinal ==
  [][closePc[Loop] = "wait" => closePc'[Loop] = "wait" /\ transport' = "open"]_vars

\* Faults whose error is still to come, is queued, or is closing the session.
BadIn(s) == Cardinality({i \in DOMAIN s : s[i] = "bad"})
FaultsAhead ==
  BadIn(recvCh) + Count(held = "bad") + Count(sendPc = "report")
  + Count(recvPc = "report") + Count(procPc = "report") + errors
  + Count(procPc = "close")

\* Until the session is stopped, each fault of the transport or of the peer is
\* one error on its way to processLoop, and sendLoop and recvLoop leave for a
\* fault only; at no time is there an error without a fault of its own.  So a
\* read deadline (session.go:356), a full queue or an application's Close never
\* makes the session close itself.  A pong counts as a fault (541), and so does
\* what follows a frame that a deadline has cut, as the code has it.
FaultsAccounted ==
  /\ FaultsAhead <= faults
  /\ ~Stopping => FaultsAhead = faults
  /\ ~Stopping /\ "done" \in {sendPc, recvPc} => faults > 0

\* A session that sendLoop or recvLoop has left (session.go:328, 351-362) is
\* marked closed, unless processLoop is stuck putting an error of its own into
\* the channel that it alone drains (509, 541).  Nothing is promised for pingLoop,
\* which leaves without a word (574).
HalfDeadIsClosed ==
  (sendPc = "done" \/ recvPc = "done")
    ~> isClosed \/ (procPc = "report" /\ errors = ErrBuf)

\* Without a fault of the transport or of the peer, only an application closes
\* the session (session.go:377-394).  TLC refutes it with "ping" in Env.
HealthyStaysOpen == isClosed => \E c \in Closers : closePc[c] # "idle"

\* A call of Close by an application that gets past the first check releases the
\* transport, unless processLoop closes the session at the same time and waits
\* for itself, or a loop is stuck at a full error channel that nobody drains.
CloseCompletes ==
  (\E c \in Closers : closePc[c] = "once")
    ~> \/ transport = "closed"
       \/ closePc[Loop] \in {"once", "drain", "wait"}
       \/ (errors = ErrBuf /\ "report" \in {sendPc, recvPc, procPc})

\* An error that processLoop has taken closes the session's transport.
ErrorClosesTransport == procPc = "close" ~> transport = "closed"
==============================================================================
