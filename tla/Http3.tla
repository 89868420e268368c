-------------------------------- MODULE Http3 --------------------------------
(***************************************************************************)
(* The HTTP/3 transport of ZOP: two ends that frame what they write, count *)
(* it against a window that WINDOW_UPDATE frames enlarge, and take frames  *)
(* out of one rawBuffer, both in Read and, while they wait for the window, *)
(* in Write.                                                               *)
(*                                                                         *)
(* Each end is used by one goroutine that calls Read or Write, and Close   *)
(* may come from another.  A frame is a header cell, for its three bytes,  *)
(* followed by its payload, one cell per unit; the increment of a          *)
(* WINDOW_UPDATE is one cell.  The units an end writes are numbered in the *)
(* order it writes them.  What a cell of a payload is for is recorded in   *)
(* it; the ends read the headers and the numbers, and never that.          *)
(* The connection below hands over what is in it in pieces of any length,  *)
(* is never full, and delivers what was written before it was closed.  The *)
(* header of a DATA frame and its payload are two writes to it.            *)
(***************************************************************************)
EXTENDS Naturals, Sequences, SequencesExt, FiniteSetsExt

CONSTANTS
  Window,       \* defaultWindowSize
  Modulus,      \* the counters are uint32: 2^32
  HeadersSize,  \* length of the HEADERS frame
  MaxFrame,     \* maxFrameSize of writeDataFrameZeroCopy
  StreamAbove,  \* streamWriteThreshold
  StreamFrame,  \* maxPayload of StreamObfuscate
  WriteSizes,   \* lengths of the slices given to Write
  ReadSizes,    \* lengths of the slices given to Read
  MaxPut,       \* bound: units each end writes
  Closers       \* ends that may be closed

Ends == {"a", "b"}
Peer(e) == IF e = "a" THEN "b" ELSE "a"

ASSUME Http3Assumption ==
  /\ Modulus \in Nat \ {0} /\ Window \in 1..(Modulus - 1)
  /\ {HeadersSize, MaxFrame, StreamAbove, StreamFrame} \subseteq Nat \ {0}
  /\ WriteSizes \subseteq Nat \ {0} /\ ReadSizes \subseteq Nat \ {0}
  /\ MaxPut \in [Ends -> Nat] /\ Closers \subseteq Ends

VARIABLES
  net,             \* cells on their way to an end
  rawBuffer,       \* cells taken from the connection
  readBuffer,      \* units taken from a frame and not yet returned
  hasSentHeaders,
  sentBytes,       \* atomic counters
  windowSize,
  closed,
  call,            \* what the goroutine of an end is doing
  unsent,          \* cells of the frame an end has begun and not yet written
  put,             \* history: units in the frames an end has begun to write
  got,             \* history: units Read has returned
  dropped          \* history: a failed Read has dropped units

buffers == <<net, rawBuffer, readBuffer>>
counters == <<hasSentHeaders, sentBytes, windowSize>>
history == <<put, got, dropped>>
vars == <<buffers, counters, closed, call, unsent, history>>

Idle == [op |-> "idle"]
\* What remains of a Write: its phase, the units still to frame, whether it
\* streams, and how much it adds to sentBytes when it returns.
Calls ==
  {Idle} \cup [op : {"read"}, size : ReadSizes]
  \cup [op : {"wait", "headers", "send", "stream", "payload"}, left : Nat, stream : BOOLEAN, atEnd : Nat]

Init ==
  /\ net = [e \in Ends |-> <<>>] /\ rawBuffer = [e \in Ends |-> <<>>]
  /\ readBuffer = [e \in Ends |-> <<>>]
  /\ hasSentHeaders = [e \in Ends |-> FALSE]
  /\ sentBytes = [e \in Ends |-> 0] /\ windowSize = [e \in Ends |-> Window]
  /\ closed = [e \in Ends |-> FALSE] /\ call = [e \in Ends |-> Idle]
  /\ unsent = [e \in Ends |-> <<>>]
  /\ put = [e \in Ends |-> 0] /\ got = [e \in Ends |-> <<>>]
  /\ dropped = [e \in Ends |-> FALSE]

------------------------------------------------------------------------------
(***************************************************************************)
(* Frames.                                                                 *)
(***************************************************************************)
Content == [DATA |-> "unit", HEADERS |-> "text", WINDOW_UPDATE |-> "increment"]
Types == DOMAIN Content

Frame(type, payload) ==
  <<[t |-> type, n |-> Len(payload)]>> \o [i \in DOMAIN payload |-> [t |-> Content[type], n |-> payload[i]]]

HeadersFrame == Frame("HEADERS", [i \in 1..HeadersSize |-> 0])
WindowUpdateFrame(increment) == Frame("WINDOW_UPDATE", <<increment>>)

\* The units from + 1 to from + n.
DataFrame(from, n) == Frame("DATA", [i \in 1..n |-> from + i])

HasFrame(buf) == buf # <<>> /\ Len(buf) > Head(buf).n
Payload(buf) == [i \in 1..Head(buf).n |-> buf[i + 1].n]
AfterFrame(buf) == SubSeq(buf, Head(buf).n + 2, Len(buf))

\* Mutated: what follows the last whole frame is dropped.
ScanDropsRest(buf) ==
  LET scan[i \in 1..(Len(buf) + 1)] ==
        IF i > Len(buf) \/ i + buf[i].n > Len(buf)
        THEN [kept |-> <<>>, credit |-> 0]
        ELSE LET next == i + 1 + buf[i].n  rest == scan[next] IN
             IF buf[i].t = "WINDOW_UPDATE"
             THEN [rest EXCEPT !.credit = @ + buf[i + 1].n]
             ELSE [rest EXCEPT !.kept = SubSeq(buf, i, next - 1) \o @]
  IN scan[1]

\* Mutated: a handled WINDOW_UPDATE stays for Read.
ScanKeeps(buf) ==
  LET scan[i \in 1..(Len(buf) + 1)] ==
        IF i > Len(buf) \/ i + buf[i].n > Len(buf)
        THEN [kept |-> SubSeq(buf, i, Len(buf)), credit |-> 0]
        ELSE LET next == i + 1 + buf[i].n  rest == scan[next] IN
             IF buf[i].t = "WINDOW_UPDATE"
             THEN [rest EXCEPT !.credit = @ + buf[i + 1].n, !.kept = SubSeq(buf, i, next - 1) \o @]
             ELSE [rest EXCEPT !.kept = SubSeq(buf, i, next - 1) \o @]
  IN scan[1]

\* What processIncomingFrames makes of a buffer: the WINDOW_UPDATE frames before
\* the first incomplete frame are taken out and their increments added up.
Scan(buf) ==
  LET scan[i \in 1..(Len(buf) + 1)] ==
        IF i > Len(buf) \/ i + buf[i].n > Len(buf)
        THEN [kept |-> SubSeq(buf, i, Len(buf)), credit |-> 0]
        ELSE LET next == i + 1 + buf[i].n  rest == scan[next] IN
             IF buf[i].t = "WINDOW_UPDATE"
             THEN [rest EXCEPT !.credit = @ + buf[i + 1].n]
             ELSE [rest EXCEPT !.kept = SubSeq(buf, i, next - 1) \o @]
  IN scan[1]

\* The first k cells of net[e] move to rawBuffer[e].
Pieces(e) == 1..Len(net[e])
Pulled(e, k) == rawBuffer[e] \o SubSeq(net[e], 1, k)
Pull(e, k) == net' = [net EXCEPT ![e] = SubSeq(@, k + 1, Len(@))]

HandleWindowUpdate(window, increment) == (window + increment) % Modulus

ProcessIncomingFrames(e) ==
  \E k \in Pieces(e) :
    LET scanned == Scan(Pulled(e, k)) IN
    /\ Pull(e, k)
    /\ rawBuffer' = [rawBuffer EXCEPT ![e] = scanned.kept]
    /\ windowSize' = [windowSize EXCEPT ![e] = HandleWindowUpdate(@, scanned.credit)]

\* One conn.Write.  A connection the peer has closed may lose it without an error.
Deliver(e, cells) ==
  IF closed[Peer(e)] THEN UNCHANGED net
  ELSE net' = [net EXCEPT ![Peer(e)] = @ \o cells]
WriteMayFail(e) == closed[e] \/ closed[Peer(e)]

------------------------------------------------------------------------------
(***************************************************************************)
(* Write.                                                                  *)
(***************************************************************************)
Goes(e, c) == call' = [call EXCEPT ![e] = c]

\* Later calls read what has arrived before anything else, if anything does within
\* 10 ms.  A call that does not stream counts its units frame by frame, and a later
\* one again at its end.
WriteStart(e, n) ==
  LET stream == n > StreamAbove IN
  /\ call[e] = Idle /\ ~closed[e] /\ put[e] + n <= MaxPut[e]
  /\ Goes(e, [op |-> "wait", left |-> n, stream |-> stream,
              atEnd |-> IF stream \/ hasSentHeaders[e] THEN n ELSE 0])
  /\ \/ hasSentHeaders[e] /\ ProcessIncomingFrames(e)
     \/ UNCHANGED <<net, rawBuffer, windowSize>>
  /\ UNCHANGED <<readBuffer, hasSentHeaders, sentBytes, closed, unsent, history>>

ChunkSize(c) == IF c.stream THEN c.left ELSE Min({c.left, MaxFrame})

\* The first call asks for its headers and all its units at once, a stream for
\* all its units, and writeDataFrameZeroCopy for the next frame.
Needed(e) ==
  IF hasSentHeaders[e] THEN ChunkSize(call[e]) ELSE HeadersSize + call[e].left

Available(e) == (windowSize[e] + Modulus - sentBytes[e]) % Modulus

WindowSufficient(e) ==
  /\ call[e].op = "wait" /\ Needed(e) <= Available(e)
  /\ Goes(e, [call[e] EXCEPT !.op = IF hasSentHeaders[e] THEN "send" ELSE "headers"])
  /\ UNCHANGED <<buffers, counters, closed, unsent, history>>

WaitForWindow(e) ==
  /\ call[e].op = "wait" /\ Needed(e) > Available(e) /\ ~closed[e]
  /\ ProcessIncomingFrames(e)
  /\ UNCHANGED <<readBuffer, hasSentHeaders, sentBytes, closed, call, unsent, history>>

\* The window has not come for 30 s, or the end has been closed.
WaitFails(e) ==
  /\ call[e].op = "wait" /\ Needed(e) > Available(e)
  /\ Goes(e, Idle)
  /\ UNCHANGED <<buffers, counters, closed, unsent, history>>

WriteHeaders(e) ==
  /\ call[e].op = "headers" /\ ~closed[e]
  /\ Deliver(e, HeadersFrame)
  /\ sentBytes' = [sentBytes EXCEPT ![e] = (@ + HeadersSize) % Modulus]
  /\ hasSentHeaders' = [hasSentHeaders EXCEPT ![e] = TRUE]
  \* A stream has its window; the other units wait frame by frame.
  /\ Goes(e, [call[e] EXCEPT !.op = IF call[e].stream THEN "send" ELSE "wait"])
  /\ UNCHANGED <<rawBuffer, readBuffer, windowSize, closed, unsent, history>>

\* A frame of n units begins: its header is written, its payload is yet to be.
BeginFrame(e, n) ==
  LET frame == DataFrame(put[e], n) IN
  /\ ~closed[e]
  /\ Deliver(e, <<Head(frame)>>)
  /\ unsent' = [unsent EXCEPT ![e] = Tail(frame)]
  /\ put' = [put EXCEPT ![e] = @ + n]
  /\ Goes(e, [call[e] EXCEPT !.op = "payload"])
  /\ UNCHANGED <<rawBuffer, readBuffer, counters, closed, got, dropped>>

\* One frame of writeDataFrameZeroCopy.
WriteFrame(e) ==
  call[e].op = "send" /\ ~call[e].stream /\ BeginFrame(e, ChunkSize(call[e]))

\* StreamObfuscate writes HEADERS each time it is called, then its frames without
\* asking for the window again; the bytes are counted when it has returned.
WriteStreamHeaders(e) ==
  /\ call[e].op = "send" /\ call[e].stream /\ ~closed[e]
  /\ Deliver(e, HeadersFrame)
  /\ Goes(e, [call[e] EXCEPT !.op = "stream"])
  /\ UNCHANGED <<rawBuffer, readBuffer, counters, closed, unsent, history>>

WriteStream(e) ==
  call[e].op = "stream" /\ BeginFrame(e, Min({call[e].left, StreamFrame}))

\* The payload follows, and counts unless it is streamed; the last frame returns.
WritePayload(e) ==
  LET c == call[e]  n == Len(unsent[e])  last == c.left = n IN
  /\ c.op = "payload" /\ ~closed[e]
  /\ Deliver(e, unsent[e])
  /\ unsent' = [unsent EXCEPT ![e] = <<>>]
  /\ sentBytes' = [sentBytes EXCEPT ![e] =
       (@ + (IF c.stream THEN 0 ELSE n) + IF last THEN c.atEnd ELSE 0) % Modulus]
  /\ Goes(e, IF last THEN Idle
             ELSE [c EXCEPT !.op = IF c.stream THEN "stream" ELSE "wait", !.left = @ - n])
  /\ UNCHANGED <<rawBuffer, readBuffer, hasSentHeaders, windowSize, closed, history>>

\* What a conn.Write that fails now may have written a part of: the rest of a frame,
\* or all of a HEADERS frame.  (A part of a header is as good as none.)
Slice(e) ==
  IF call[e].op = "payload" THEN unsent[e]
  ELSE IF call[e].op = "headers" \/ (call[e].op = "send" /\ call[e].stream) THEN HeadersFrame
  ELSE <<>>

\* What it has not written never is.
WriteFails(e) ==
  /\ call[e].op \in {"headers", "send", "stream", "payload"} /\ WriteMayFail(e)
  /\ \/ UNCHANGED <<net, unsent>>
     \/ \E k \in 1..Len(Slice(e)) :
          /\ Deliver(e, SubSeq(Slice(e), 1, k))
          /\ unsent' = [unsent EXCEPT ![e] = SubSeq(Slice(e), k + 1, Len(Slice(e)))]
  /\ Goes(e, Idle)
  /\ UNCHANGED <<rawBuffer, readBuffer, counters, closed, history>>

------------------------------------------------------------------------------
(***************************************************************************)
(* Read.                                                                   *)
(***************************************************************************)
Returns(e, units) ==
  /\ got' = [got EXCEPT ![e] = @ \o units]
  /\ Goes(e, Idle)

ReadStart(e, size) ==
  /\ call[e] = Idle /\ ~closed[e]
  /\ \/ /\ readBuffer[e] # <<>>
        /\ readBuffer' = [readBuffer EXCEPT ![e] = SubSeq(@, size + 1, Len(@))]
        /\ Returns(e, SubSeq(readBuffer[e], 1, Min({size, Len(readBuffer[e])})))
     \/ /\ readBuffer[e] = <<>>
        /\ Goes(e, [op |-> "read", size |-> size])
        /\ UNCHANGED <<readBuffer, got>>
  /\ UNCHANGED <<net, rawBuffer, counters, closed, unsent, put, dropped>>

ReadsFrame(e, type) ==
  /\ call[e].op = "read" /\ ~closed[e]
  /\ HasFrame(rawBuffer[e]) /\ Head(rawBuffer[e]).t = type
  /\ rawBuffer' = [rawBuffer EXCEPT ![e] = AfterFrame(@)]

\* The whole frame is credited as soon as it leaves rawBuffer.
ReadData(e) ==
  LET units == Payload(rawBuffer[e])  n == Min({call[e].size, Len(units)}) IN
  /\ ReadsFrame(e, "DATA")
  /\ Deliver(e, WindowUpdateFrame(Len(units)))
  /\ readBuffer' = [readBuffer EXCEPT ![e] = SubSeq(units, n + 1, Len(units))]
  /\ Returns(e, SubSeq(units, 1, n))
  /\ UNCHANGED <<counters, closed, unsent, put, dropped>>

\* The WINDOW_UPDATE cannot be written: a frame that fits the caller's slice is
\* gone, another is in readBuffer for the next call.
ReadDataFails(e) ==
  LET units == Payload(rawBuffer[e])  fits == Len(units) <= call[e].size IN
  /\ ReadsFrame(e, "DATA") /\ WriteMayFail(e)
  /\ readBuffer' = [readBuffer EXCEPT ![e] = IF fits THEN @ ELSE units]
  /\ dropped' = [dropped EXCEPT ![e] = @ \/ fits]
  /\ Goes(e, Idle)
  /\ UNCHANGED <<net, counters, closed, unsent, put, got>>

ReadHeaders(e) ==
  /\ ReadsFrame(e, "HEADERS")
  /\ UNCHANGED <<net, readBuffer, counters, closed, call, unsent, history>>

ReadWindowUpdate(e) ==
  /\ ReadsFrame(e, "WINDOW_UPDATE")
  /\ windowSize' = [windowSize EXCEPT ![e] = HandleWindowUpdate(@, Payload(rawBuffer[e])[1])]
  /\ UNCHANGED <<net, readBuffer, hasSentHeaders, sentBytes, closed, call, unsent, history>>

\* Mutated: the connection is read when rawBuffer is empty only.
ReadConnWhenEmpty(e) ==
  /\ call[e].op = "read" /\ ~closed[e] /\ rawBuffer[e] = <<>>
  /\ \E k \in Pieces(e) :
       Pull(e, k) /\ rawBuffer' = [rawBuffer EXCEPT ![e] = Pulled(e, k)]
  /\ UNCHANGED <<readBuffer, counters, closed, call, unsent, history>>

ReadConn(e) ==
  /\ call[e].op = "read" /\ ~closed[e] /\ ~HasFrame(rawBuffer[e])
  /\ \E k \in Pieces(e) :
       Pull(e, k) /\ rawBuffer' = [rawBuffer EXCEPT ![e] = Pulled(e, k)]
  /\ UNCHANGED <<readBuffer, counters, closed, call, unsent, history>>

ReadFails(e) ==
  /\ call[e].op = "read"
  /\ closed[e] \/ (closed[Peer(e)] /\ net[e] = <<>> /\ ~HasFrame(rawBuffer[e]))
  /\ Goes(e, Idle)
  /\ UNCHANGED <<buffers, counters, closed, unsent, history>>

\* Close gives the buffers back to the pool, whatever they hold.
Close(e) ==
  /\ e \in Closers /\ ~closed[e]
  /\ closed' = [closed EXCEPT ![e] = TRUE]
  /\ rawBuffer' = [rawBuffer EXCEPT ![e] = <<>>]
  /\ readBuffer' = [readBuffer EXCEPT ![e] = <<>>]
  /\ net' = [net EXCEPT ![e] = <<>>]
  /\ UNCHANGED <<counters, call, unsent, history>>

------------------------------------------------------------------------------
WriteStep(e) ==
  \/ WindowSufficient(e) \/ WaitForWindow(e) \/ WaitFails(e)
  \/ WriteHeaders(e) \/ WriteFrame(e)
  \/ WriteStreamHeaders(e) \/ WriteStream(e) \/ WritePayload(e) \/ WriteFails(e)
ReadStep(e) ==
  \/ ReadData(e) \/ ReadDataFails(e) \/ ReadHeaders(e) \/ ReadWindowUpdate(e)
  \/ ReadConn(e) \/ ReadFails(e)

Next ==
  \E e \in Ends :
    \/ \E n \in WriteSizes : WriteStart(e, n)
    \/ \E n \in ReadSizes : ReadStart(e, n)
    \/ WriteStep(e) \/ ReadStep(e) \/ Close(e)

\* Goroutines run, and who uses a transport calls Read again and again.
Fairness ==
  \A e \in Ends : /\ WF_vars(WriteStep(e)) /\ WF_vars(ReadStep(e))
                  /\ SF_vars(\E n \in ReadSizes : ReadStart(e, n))

Spec == Init /\ [][Next]_vars /\ Fairness

------------------------------------------------------------------------------
(***************************************************************************)
(* Properties.                                                             *)
(***************************************************************************)
\* What an end has still to take: in its buffer, on the way, and the rest of the
\* frame that its peer is in the middle of, or stopped in.
Way(e) == net[e] \o unsent[Peer(e)]
Coming(e) == rawBuffer[e] \o Way(e)

\* Counters stay within uint32 and calls are what the code can be in.
TypeOK ==
  /\ \A e \in Ends : /\ sentBytes[e] \in 0..(Modulus - 1) /\ windowSize[e] \in 0..(Modulus - 1)
                     /\ call[e] \in Calls /\ put[e] \in 0..MaxPut[e]
  /\ hasSentHeaders \in [Ends -> BOOLEAN] /\ closed \in [Ends -> BOOLEAN]
  /\ dropped \in [Ends -> BOOLEAN]

\* A sequence of whole frames: a header first, behind each header its payload, and
\* behind that nothing or the next header.
Framed(cells) ==
  /\ cells # <<>> => cells[1].t \in Types
  /\ \A i \in DOMAIN cells :
       cells[i].t \in Types =>
         /\ i + cells[i].n <= Len(cells)
         /\ \A j \in 1..cells[i].n : cells[i + j].t = Content[cells[i].t]
         /\ cells[i].t = "WINDOW_UPDATE" => cells[i].n = 1
         /\ i + cells[i].n < Len(cells) => cells[i + cells[i].n + 1].t \in Types

\* The buffer of an open end always starts with the header of a frame: taking
\* WINDOW_UPDATE frames out of the middle, with part of a frame behind them, never
\* leaves Read or processIncomingFrames with an unknown frame type.  Each frame is
\* followed by its payload: only the last can be cut short, by the Close of the end
\* that was writing it.
FramesStayAligned ==
  \A e \in Ends : ~closed[e] =>
    /\ Framed(Coming(e))
    /\ unsent[Peer(e)] # <<>> => call[Peer(e)].op = "payload" \/ closed[Peer(e)]

\* The units in a sequence of cells are those after m up to p, in their order.
InOrder(cells, m, p) ==
  LET units == {i \in DOMAIN cells : cells[i].t = "unit"} IN
  /\ {cells[i].n : i \in units} = (m + 1)..p
  /\ \A i, j \in units : i < j => cells[i].n < cells[j].n

\* Nothing is lost, repeated or reordered: an open end has taken the first units
\* its peer has framed, in their order, and the others are behind them, on their way
\* or in the frame that the peer is writing (or had begun when it closed); unless a
\* Read has dropped a frame.
StreamIntact ==
  \A e \in Ends : ~closed[e] /\ ~dropped[e] =>
    LET taken == got[e] \o readBuffer[e] IN
    /\ taken = [i \in 1..Len(taken) |-> i] /\ Len(taken) <= put[Peer(e)]
    /\ InOrder(Coming(e), Len(taken), put[Peer(e)])

\* What Read returns is a prefix of what was written, also around Close, unless
\* a Read that could not send its WINDOW_UPDATE has dropped a frame.
ReadIsPrefix ==
  \A e \in Ends : ~dropped[e] => got[e] = [i \in 1..Len(got[e]) |-> i]

Credit(cell) == IF cell.t = "increment" THEN cell.n ELSE 0
Credits(cells) ==
  LET sum[i \in 0..Len(cells)] == IF i = 0 THEN 0 ELSE sum[i - 1] + Credit(cells[i])
  IN sum[Len(cells)]

\* Every unit that has left the peer's rawBuffer is credited exactly once: what
\* the window has grown by and what is still on its way back add up to the units
\* taken, whichever of Read and Write handles the WINDOW_UPDATE.
CreditedOnce ==
  \A e \in Ends : ~closed[e] /\ ~closed[Peer(e)] =>
    (windowSize[e] + Credits(Coming(e))) % Modulus
      = (Window + Len(got[Peer(e)] \o readBuffer[Peer(e)])) % Modulus

\* What an end has written its peer has read in the end, if it keeps reading: no
\* frame gets stuck behind another, or behind half a frame that Write has
\* pulled in.
WrittenIsRead ==
  \A e \in Ends : <>[](Len(got[Peer(e)]) = put[e] \/ closed[e] \/ closed[Peer(e)])

\* The window comes back: when the peer has taken every unit and every
\* WINDOW_UPDATE has been handled, a Write that fits the window does not wait.
WindowRecovers ==
  \A e \in Ends :
    call[e].op = "wait" /\ Needed(e) <= Window /\ net[e] = <<>> /\ rawBuffer[e] = <<>>
    /\ Len(got[Peer(e)]) = put[e] /\ ~closed[Peer(e)]
    => Needed(e) <= Available(e)

\* The stream is whole in its framing, on its way and in what Read returns.
StreamWhole == TypeOK /\ FramesStayAligned /\ StreamIntact /\ ReadIsPrefix
==============================================================================
