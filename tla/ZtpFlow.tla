------------------------------- MODULE ZtpFlow -------------------------------
(***************************************************************************)
(* One direction of one ZTP stream: the goroutines inside Stream.Write,    *)
(* the byte-credit window, the sender's normal-priority queue, the         *)
(* receiver's bounded stream buffer, its cumulative acknowledgements, and  *)
(* Stream.Read with the end-of-stream rules.                               *)
(*                                                                         *)
(* Payloads are chunks known by their position and size.  The transport    *)
(* and the receiving session's recvCh together form the FIFO `wire`; the   *)
(* acknowledging session's high-priority queue and the way back form       *)
(* `ackPath`.  Byte counters are unsigned and wrap at Modulus (2^32).      *)
(***************************************************************************)
EXTENDS Integers, Sequences, SequencesExt

CONSTANTS
  Writers,   \* goroutines that call Write on the same Stream
  Modulus,   \* counters are uint32: 2^32
  Window,    \* initial window and the fixed window every ACK announces: 65535
  MaxFrame,  \* MaxFrameSize: 65535
  SendBuf,   \* SendBufferSize: capacity of a priority queue
  RecvBuf,   \* ReceiveBufferSize: capacity of Stream.recvCh
  WireCap,   \* frames the transport and Session.recvCh hold
  ReadSize,  \* length of the slice the application passes to Read
  MaxWrite,  \* bound: bytes in one Write call
  MaxBytes,  \* bound: bytes passed to Write altogether
  Env        \* which of Behaviours this environment shows

\* window_timeout      the 30 s wait for window runs out
\* send_timeout        a queue stays full for sendFrame's 5 s
\* write_timeout       the write timeout, set below 5 s, runs out first
\* slow_reader         Stream.recvCh stays full for handleDataFrame's 100 ms
\* read_timeout        the read timeout runs out
\* close_during_write  Close is called while a Write is in progress
Behaviours ==
  {"window_timeout", "send_timeout", "write_timeout", "slow_reader",
   "read_timeout", "close_during_write"}

ASSUME FlowAssumption ==
  /\ Modulus \in Nat \ {0}
  /\ Window \in Nat \ {0} /\ Window < Modulus
  /\ MaxFrame \in Nat \ {0} /\ MaxFrame <= Window
  /\ SendBuf \in Nat \ {0} /\ RecvBuf \in Nat \ {0} /\ WireCap \in Nat \ {0}
  /\ ReadSize \in Nat \ {0}
  /\ MaxWrite \in Nat \ {0} /\ MaxBytes \in Nat
  /\ Env \subseteq Behaviours

VARIABLES
  pc,          \* where each writer is inside Write
  todo,        \* bytes its Write has still to send
  sentSeen,    \* its last load of sentBytes
  orphans,     \* sizes of frames whose Write returned before they were queued
  sent,        \* Stream.sentBytes of the sender
  acked,       \* Stream.ackedBytes of the sender
  windowSize,  \* Stream.windowSize of the sender
  isClosed,    \* Stream.isClosed of the sender (closeCh is closed with it)
  closer,      \* progress of the call of Close
  sendQ,       \* the sending session's normalPriorityCh
  wire,        \* frames between the sendLoop and the peer's processLoop
  recvCh,      \* Stream.recvCh of the receiver
  received,    \* Stream.receivedBytes of the receiver
  remoteClosed,\* Stream.remoteClosed of the receiver
  ackPath,     \* acknowledgements on their way back
  reading,     \* TRUE while Read is blocked in its select
  eof,         \* TRUE once Read has returned io.EOF
  started,     \* history: bytes passed to Write
  enqueued,    \* history: bytes of the frames put in sendQ
  chunks,      \* history: number of data frames put in sendQ
  accepted,    \* history: bytes put in recvCh
  ackLost,     \* history: the newest acknowledgement found its queue full
  lastRead,    \* history: position of the last chunk read
  readBytes    \* history: bytes copied to the application

writerVars == <<pc, todo, sentSeen, orphans, sent>>
creditVars == <<acked, windowSize>>
closeVars  == <<isClosed, closer>>
recvVars   == <<recvCh, received, remoteClosed, accepted, ackLost>>
readVars   == <<reading, eof, lastRead, readBytes>>
queueHist  == <<enqueued, chunks>>
vars == <<writerVars, creditVars, closeVars, sendQ, wire, recvVars, ackPath,
          readVars, started, queueHist>>

------------------------------------------------------------------------------
(* uint32 arithmetic on operands below Modulus *)

Plus(a, b)  == IF a + b < Modulus THEN a + b ELSE a + b - Modulus
Minus(a, b) == IF a >= b THEN a - b ELSE a - b + Modulus

MinOf(a, b) == IF a <= b THEN a ELSE b

\* The size of the frame that writer w is working on.
Chunk(w) == MinOf(todo[w], MaxFrame)

\* `available` of Stream.Write: what the writer believes it may still send.
Available(w) == Minus(windowSize, Minus(sentSeen[w], acked))

DataFrame(size) ==
  [kind |-> "data", pos |-> chunks + 1, size |-> size, end |-> enqueued + size]
CloseFrame == [kind |-> "close", pos |-> 0, size |-> 0, end |-> enqueued]

Frames == [kind : {"data", "close"}, pos : Nat, size : 0..MaxFrame, end : Nat]
Acks   == [acked : 0..(Modulus - 1), window : {Window}]

------------------------------------------------------------------------------
Init ==
  /\ pc = [w \in Writers |-> "idle"]
  /\ todo = [w \in Writers |-> 0]
  /\ sentSeen = [w \in Writers |-> 0]
  /\ orphans = <<>>
  /\ sent = 0 /\ acked = 0 /\ windowSize = Window
  /\ isClosed = FALSE /\ closer = "open"
  /\ sendQ = <<>> /\ wire = <<>> /\ ackPath = <<>>
  /\ recvCh = <<>> /\ received = 0 /\ remoteClosed = FALSE /\ accepted = 0
  /\ ackLost = FALSE
  /\ reading = FALSE /\ eof = FALSE /\ lastRead = 0 /\ readBytes = 0
  /\ started = 0 /\ enqueued = 0 /\ chunks = 0

------------------------------------------------------------------------------
(* Stream.Write *)

\* Write(data) with Len(data) = n on a stream that is not closed locally.
StartWrite(w, n) ==
  /\ pc[w] = "idle"
  /\ ~isClosed
  /\ started + n <= MaxBytes
  /\ pc' = [pc EXCEPT ![w] = "load"]
  /\ todo' = [todo EXCEPT ![w] = n]
  /\ started' = started + n
  /\ UNCHANGED <<sentSeen, orphans, sent, creditVars, closeVars, sendQ, wire,
                 recvVars, ackPath, readVars, queueHist>>

\* sent := s.sentBytes.Load()
LoadSent(w) ==
  /\ pc[w] = "load"
  /\ pc' = [pc EXCEPT ![w] = "check"]
  /\ sentSeen' = [sentSeen EXCEPT ![w] = sent]
  /\ UNCHANGED <<todo, orphans, sent, creditVars, closeVars, sendQ, wire,
                 recvVars, ackPath, readVars, started, queueHist>>

\* The loads of ackedBytes and windowSize and the comparison; the frame is
\* handed to a goroutine that calls sendFrame.
PassWindow(w) ==
  /\ pc[w] = "check"
  /\ Chunk(w) <= Available(w)
  /\ pc' = [pc EXCEPT ![w] = "queue"]
  /\ UNCHANGED <<todo, sentSeen, orphans, sent, creditVars, closeVars, sendQ,
                 wire, recvVars, ackPath, readVars, started, queueHist>>

\* Too little window: sleep 10 ms and look again.
RetryWindow(w) ==
  /\ pc[w] = "check"
  /\ Chunk(w) > Available(w)
  /\ ~isClosed
  /\ pc' = [pc EXCEPT ![w] = "load"]
  /\ UNCHANGED <<todo, sentSeen, orphans, sent, creditVars, closeVars, sendQ,
                 wire, recvVars, ackPath, readVars, started, queueHist>>

Return(w) ==
  /\ pc' = [pc EXCEPT ![w] = "idle"]
  /\ todo' = [todo EXCEPT ![w] = 0]

\* Too little window and the stream is closed, or the write timeout ran out.
GiveUpWindow(w) ==
  /\ pc[w] = "check"
  /\ Chunk(w) > Available(w)
  /\ isClosed \/ "window_timeout" \in Env
  /\ Return(w)
  /\ UNCHANGED <<sentSeen, orphans, sent, creditVars, closeVars, sendQ, wire,
                 recvVars, ackPath, readVars, started, queueHist>>

PutFrame(f) ==
  /\ Len(sendQ) < SendBuf
  /\ sendQ' = Append(sendQ, f)

PutData(size) ==
  /\ PutFrame(DataFrame(size))
  /\ enqueued' = enqueued + size
  /\ chunks' = chunks + 1

\* The goroutine's sendFrame finds room and reports success on sendDone.
Enqueue(w) ==
  /\ pc[w] = "queue"
  /\ PutData(Chunk(w))
  /\ pc' = [pc EXCEPT ![w] = "done"]
  /\ UNCHANGED <<todo, sentSeen, orphans, sent, creditVars, closeVars, wire,
                 recvVars, ackPath, readVars, started>>

\* sendFrame gives up after 5 s; Write returns its error.
SendTimeout(w) ==
  /\ pc[w] = "queue"
  /\ "send_timeout" \in Env
  /\ Len(sendQ) = SendBuf
  /\ Return(w)
  /\ UNCHANGED <<sentSeen, orphans, sent, creditVars, closeVars, sendQ, wire,
                 recvVars, ackPath, readVars, started, queueHist>>

\* Mutant of FinishChunk: the bytes are never added to sentBytes.
FinishChunkUncounted(w) ==
  /\ pc[w] = "done"
  /\ todo' = [todo EXCEPT ![w] = @ - Chunk(w)]
  /\ pc' = [pc EXCEPT ![w] = IF todo[w] > Chunk(w) THEN "load" ELSE "idle"]
  /\ UNCHANGED <<sent, sentSeen, orphans, creditVars, closeVars, sendQ, wire,
                 recvVars, ackPath, readVars, started, queueHist>>

\* Write receives nil from sendDone, counts the bytes and goes on.
FinishChunk(w) ==
  /\ pc[w] = "done"
  /\ sent' = Plus(sent, Chunk(w))
  /\ todo' = [todo EXCEPT ![w] = @ - Chunk(w)]
  /\ pc' = [pc EXCEPT ![w] = IF todo[w] > Chunk(w) THEN "load" ELSE "idle"]
  /\ UNCHANGED <<sentSeen, orphans, creditVars, closeVars, sendQ, wire,
                 recvVars, ackPath, readVars, started, queueHist>>

\* Write leaves by closeCh or by its timer instead; the goroutine lives on.
ReturnEarly(w) ==
  /\ pc[w] \in {"queue", "done"}
  /\ isClosed \/ "write_timeout" \in Env
  /\ Return(w)
  /\ orphans' = IF pc[w] = "queue" THEN Append(orphans, Chunk(w)) ELSE orphans
  /\ UNCHANGED <<sentSeen, sent, creditVars, closeVars, sendQ, wire, recvVars,
                 ackPath, readVars, started, queueHist>>

\* A goroutine left behind gets its frame into the queue after all.
EnqueueOrphan(i) ==
  /\ PutData(orphans[i])
  /\ orphans' = RemoveAt(orphans, i)
  /\ UNCHANGED <<pc, todo, sentSeen, sent, creditVars, closeVars, wire,
                 recvVars, ackPath, readVars, started>>

OrphanTimeout(i) ==
  /\ "send_timeout" \in Env
  /\ Len(sendQ) = SendBuf
  /\ orphans' = RemoveAt(orphans, i)
  /\ UNCHANGED <<pc, todo, sentSeen, sent, creditVars, closeVars, sendQ, wire,
                 recvVars, ackPath, readVars, started, queueHist>>

------------------------------------------------------------------------------
(* Stream.Close of the sender *)

CloseStream ==
  /\ closer = "open"
  /\ "close_during_write" \in Env \/ \A w \in Writers : pc[w] = "idle"
  /\ isClosed' = TRUE
  /\ closer' = "sending"
  /\ UNCHANGED <<writerVars, creditVars, sendQ, wire, recvVars, ackPath,
                 readVars, started, queueHist>>

EnqueueClose ==
  /\ closer = "sending"
  /\ PutFrame(CloseFrame)
  /\ closer' = "closed"
  /\ UNCHANGED <<writerVars, creditVars, isClosed, wire, recvVars, ackPath,
                 readVars, started, queueHist>>

\* The error of sendFrame is ignored: the peer is never told.
CloseTimeout ==
  /\ closer = "sending"
  /\ "send_timeout" \in Env
  /\ Len(sendQ) = SendBuf
  /\ closer' = "closed"
  /\ UNCHANGED <<writerVars, creditVars, isClosed, sendQ, wire, recvVars,
                 ackPath, readVars, started, queueHist>>

------------------------------------------------------------------------------
(* The two sessions *)

\* sendLoop writes the oldest normal-priority frame to the transport.
Transmit ==
  /\ sendQ # <<>>
  /\ Len(wire) < WireCap
  /\ wire' = Append(wire, Head(sendQ))
  /\ sendQ' = Tail(sendQ)
  /\ UNCHANGED <<writerVars, creditVars, closeVars, recvVars, ackPath,
                 readVars, started, queueHist>>

\* Mutant of SendAck: no check for room.
SendAckAlways(bytes) ==
  /\ ackPath' = Append(ackPath, [acked |-> bytes, window |-> Window])
  /\ ackLost' = FALSE

\* trySendFrame: an acknowledgement that finds the queue full is forgotten.
SendAck(bytes) ==
  /\ ackPath' = IF Len(ackPath) < SendBuf
                  THEN Append(ackPath, [acked |-> bytes, window |-> Window])
                  ELSE ackPath
  /\ ackLost' = (Len(ackPath) = SendBuf)

\* Mutant of AcceptData: acknowledged before the payload is counted.
AcceptDataAckedEarly ==
  /\ wire # <<>> /\ Head(wire).kind = "data"
  /\ ~remoteClosed
  /\ Len(recvCh) < RecvBuf
  /\ wire' = Tail(wire)
  /\ recvCh' = Append(recvCh, Head(wire))
  /\ received' = Plus(received, Head(wire).size)
  /\ accepted' = accepted + Head(wire).size
  /\ SendAck(received)
  /\ UNCHANGED <<writerVars, creditVars, closeVars, sendQ, remoteClosed,
                 readVars, started, queueHist>>

\* handleDataFrame puts the payload in recvCh, counts it and acknowledges.
AcceptData ==
  /\ wire # <<>> /\ Head(wire).kind = "data"
  /\ ~remoteClosed
  /\ Len(recvCh) < RecvBuf
  /\ wire' = Tail(wire)
  /\ recvCh' = Append(recvCh, Head(wire))
  /\ received' = Plus(received, Head(wire).size)
  /\ accepted' = accepted + Head(wire).size
  /\ SendAck(Plus(received, Head(wire).size))
  /\ UNCHANGED <<writerVars, creditVars, closeVars, sendQ, remoteClosed,
                 readVars, started, queueHist>>

\* Mutants of DropData: the discarded payload is counted and acknowledged;
\* the 100 ms are not waited for.
DropDataCounted ==
  /\ wire # <<>> /\ Head(wire).kind = "data"
  /\ ~remoteClosed
  /\ "slow_reader" \in Env
  /\ Len(recvCh) = RecvBuf
  /\ wire' = Tail(wire)
  /\ received' = Plus(received, Head(wire).size)
  /\ SendAck(Plus(received, Head(wire).size))
  /\ UNCHANGED <<writerVars, creditVars, closeVars, sendQ, recvCh, accepted,
                 remoteClosed, readVars, started, queueHist>>
DropDataAtOnce ==
  /\ wire # <<>> /\ Head(wire).kind = "data"
  /\ ~remoteClosed
  /\ Len(recvCh) = RecvBuf
  /\ wire' = Tail(wire)
  /\ UNCHANGED <<writerVars, creditVars, closeVars, sendQ, recvVars, ackPath,
                 readVars, started, queueHist>>

\* recvCh stayed full for 100 ms: the payload is discarded.
DropData ==
  /\ wire # <<>> /\ Head(wire).kind = "data"
  /\ ~remoteClosed
  /\ "slow_reader" \in Env
  /\ Len(recvCh) = RecvBuf
  /\ wire' = Tail(wire)
  /\ UNCHANGED <<writerVars, creditVars, closeVars, sendQ, recvVars, ackPath,
                 readVars, started, queueHist>>

\* A frame behind the close frame finds no stream; the RESET it provokes
\* finds none at the sender either.
LateData ==
  /\ wire # <<>> /\ Head(wire).kind = "data"
  /\ remoteClosed
  /\ wire' = Tail(wire)
  /\ UNCHANGED <<writerVars, creditVars, closeVars, sendQ, recvVars, ackPath,
                 readVars, started, queueHist>>

\* Mutant of RemoteClose: the stream is deleted but not marked.
RemoteCloseUnmarked ==
  /\ wire # <<>> /\ Head(wire).kind = "close"
  /\ wire' = Tail(wire)
  /\ UNCHANGED <<writerVars, creditVars, closeVars, sendQ, recvVars, ackPath,
                 readVars, started, queueHist>>

\* handleStreamCloseFrame
RemoteClose ==
  /\ wire # <<>> /\ Head(wire).kind = "close"
  /\ wire' = Tail(wire)
  /\ remoteClosed' = TRUE
  /\ UNCHANGED <<writerVars, creditVars, closeVars, sendQ, recvCh, received,
                 accepted, ackLost, ackPath, readVars, started, queueHist>>

\* Mutant of HandleAck: any acknowledgement replaces ackedBytes.
HandleAckAnyOrder ==
  /\ ackPath # <<>>
  /\ ackPath' = Tail(ackPath)
  /\ IF isClosed
       THEN UNCHANGED creditVars
       ELSE /\ acked' = Head(ackPath).acked
            /\ windowSize' = Head(ackPath).window
  /\ UNCHANGED <<writerVars, closeVars, sendQ, wire, recvVars, readVars,
                 started, queueHist>>

\* handleAckFrame: acknowledgements of a closed stream are ignored, and
\* ackedBytes only ever grows.
HandleAck ==
  /\ ackPath # <<>>
  /\ ackPath' = Tail(ackPath)
  /\ IF isClosed
       THEN UNCHANGED creditVars
       ELSE /\ acked' = IF Head(ackPath).acked > acked
                          THEN Head(ackPath).acked ELSE acked
            /\ windowSize' = Head(ackPath).window
  /\ UNCHANGED <<writerVars, closeVars, sendQ, wire, recvVars, readVars,
                 started, queueHist>>

------------------------------------------------------------------------------
(* Stream.Read *)

\* Copy the oldest payload to the application; what its slice cannot hold
\* is thrown away.
TakeChunk ==
  /\ recvCh # <<>>
  /\ recvCh' = Tail(recvCh)
  /\ lastRead' = Head(recvCh).pos
  /\ readBytes' = readBytes + MinOf(Head(recvCh).size, ReadSize)

unreadVars == <<writerVars, creditVars, closeVars, sendQ, wire, received,
                remoteClosed, accepted, ackLost, ackPath, started, queueHist>>

\* The peer has not closed: Read goes on to block in its select.
StartRead ==
  /\ ~reading /\ ~eof
  /\ ~remoteClosed
  /\ reading' = TRUE
  /\ UNCHANGED <<eof, lastRead, readBytes, recvCh, unreadVars>>

\* The peer has closed: take what is left without blocking.
DrainRead ==
  /\ ~reading /\ ~eof
  /\ remoteClosed
  /\ TakeChunk
  /\ UNCHANGED <<reading, eof, unreadVars>>

EndOfStream ==
  /\ ~reading /\ ~eof
  /\ remoteClosed
  /\ recvCh = <<>>
  /\ eof' = TRUE
  /\ UNCHANGED <<reading, lastRead, readBytes, recvCh, unreadVars>>

FinishRead ==
  /\ reading
  /\ TakeChunk
  /\ reading' = FALSE
  /\ UNCHANGED <<eof, unreadVars>>

\* A payload that has arrived wakes the blocked select before the timer does.
ReadTimeout ==
  /\ reading
  /\ recvCh = <<>>
  /\ "read_timeout" \in Env
  /\ reading' = FALSE
  /\ UNCHANGED <<eof, lastRead, readBytes, recvCh, unreadVars>>

------------------------------------------------------------------------------
Write(w) ==
  \/ \E n \in 1..MaxWrite : StartWrite(w, n)
  \/ LoadSent(w)
  \/ PassWindow(w)
  \/ RetryWindow(w)
  \/ GiveUpWindow(w)
  \/ Enqueue(w)
  \/ SendTimeout(w)
  \/ FinishChunk(w)
  \/ ReturnEarly(w)

Orphan(i) == EnqueueOrphan(i) \/ OrphanTimeout(i)

Close == CloseStream \/ EnqueueClose \/ CloseTimeout

Sessions ==
  Transmit \/ AcceptData \/ DropData \/ LateData \/ RemoteClose \/ HandleAck

Read == StartRead \/ DrainRead \/ EndOfStream \/ FinishRead \/ ReadTimeout

Next ==
  \/ \E w \in Writers : Write(w)
  \/ \E i \in DOMAIN orphans : Orphan(i)
  \/ Close
  \/ Sessions
  \/ Read

Spec == Init /\ [][Next]_vars

\* The session loops run, a Write in progress goes on, a call of Close goes
\* on, and the application keeps reading; a read timer that is set runs out.
\* Nobody has to start a Write or to close the stream, and no other timer has
\* to run out.
Fairness ==
  /\ \A w \in Writers :
       WF_vars(LoadSent(w) \/ PassWindow(w) \/ RetryWindow(w) \/ Enqueue(w)
               \/ FinishChunk(w))
  /\ WF_vars(EnqueueClose)
  /\ WF_vars(Transmit)
  /\ WF_vars(AcceptData \/ LateData \/ RemoteClose)
  /\ WF_vars(HandleAck)
  /\ WF_vars(StartRead \/ DrainRead \/ EndOfStream \/ FinishRead)
  /\ WF_vars(ReadTimeout)

FairSpec == Spec /\ Fairness

------------------------------------------------------------------------------
(* Properties *)

\* Every variable keeps its type; queues and buffers stay within capacity.
TypeOK ==
  /\ pc \in [Writers -> {"idle", "load", "check", "queue", "done"}]
  /\ todo \in [Writers -> Nat]
  /\ sentSeen \in [Writers -> 0..(Modulus - 1)]
  /\ orphans \in Seq(0..MaxFrame)
  /\ sent \in 0..(Modulus - 1)
  /\ acked \in 0..(Modulus - 1)
  /\ windowSize = Window
  /\ isClosed \in BOOLEAN
  /\ closer \in {"open", "sending", "closed"}
  /\ sendQ \in Seq(Frames) /\ Len(sendQ) <= SendBuf
  /\ wire \in Seq(Frames) /\ Len(wire) <= WireCap
  /\ recvCh \in Seq(Frames) /\ Len(recvCh) <= RecvBuf
  /\ received \in 0..(Modulus - 1)
  /\ remoteClosed \in BOOLEAN /\ ackLost \in BOOLEAN
  /\ ackPath \in Seq(Acks) /\ Len(ackPath) <= SendBuf
  /\ reading \in BOOLEAN /\ eof \in BOOLEAN
  /\ started \in Nat /\ enqueued \in Nat /\ chunks \in Nat /\ accepted \in Nat
  /\ lastRead \in Nat /\ readBytes \in Nat

\* The credit window (stream.go:59-89): the bytes the sender has put on the
\* way and the receiver has not yet accepted never exceed one window, across
\* the wrap of the counters, lost acknowledgements and discarded payloads.
WindowRespected == enqueued - accepted <= Window

\* Acknowledgements tell the truth (session.go:432-441, 525-528): the sender
\* never believes more bytes accepted than the receiver has put in recvCh,
\* so a discarded payload is never credited back.
AckNeverAhead == acked <= accepted

\* Because ackedBytes only takes larger values (session.go:526), a stream
\* carries at most one counter's worth of bytes plus one window.
LifetimeBound == enqueued <= Modulus - 1 + Window

\* Window comes back, and a Write in progress ends, unless the receiver is left
\* with its newest acknowledgement lost: trySendFrame forgets one that finds the
\* queue full (session.go:228-233, 441), nothing repeats it, and only the next
\* payload brings another.  Earlier losses do no harm: acknowledgements add up.
WriteCompletes ==
  <>[]ackLost \/ (\A w \in Writers : pc[w] # "idle" ~> pc[w] = "idle")

\* A stream closed by its writer is reported as ended to a reader that keeps
\* reading.
CloseReachesReader == isClosed ~> eof

\* One direction of a stream implements the ordered, lossless pipe: EOF
\* (stream.go:142-160) comes after every chunk and every byte queued before it.
Pipe == INSTANCE StreamPipe
          WITH put <- chunks, size <- enqueued, got <- lastRead,
               taken <- readBytes, shut <- isClosed, ended <- eof
ImplementsPipe == Pipe!PipeSpec
==============================================================================
