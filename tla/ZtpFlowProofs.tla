---------------------------- MODULE ZtpFlowProofs ----------------------------
(***************************************************************************)
(* Machine-checked facts about ZtpFlow, for every value of its constants.  *)
(***************************************************************************)
EXTENDS ZtpFlow, SequenceTheorems, TLAPS

\* The arithmetic of the byte counters stays within uint32 (stream.go:27-30).
LEMMA CounterRange ==
  ASSUME NEW a \in 0..(Modulus - 1), NEW b \in 0..(Modulus - 1)
  PROVE  Plus(a, b) \in 0..(Modulus - 1) /\ Minus(a, b) \in 0..(Modulus - 1)
BY FlowAssumption DEF Plus, Minus

\* The frame a writer works on (stream.go:51-54) is at most MaxFrame, and no
\* larger than what is left to send.
LEMMA ChunkRange ==
  ASSUME TypeOK, NEW w \in Writers
  PROVE  /\ Chunk(w) \in Nat
         /\ Chunk(w) <= todo[w]
         /\ Chunk(w) \in 0..MaxFrame
         /\ Chunk(w) \in 0..(Modulus - 1)
BY FlowAssumption DEF TypeOK, Chunk, MinOf

\* A goroutine that leaves the list of orphans leaves frame sizes behind.
LEMMA RemoveAtType ==
  ASSUME NEW S, NEW s \in Seq(S), NEW i \in 1..Len(s)
  PROVE  /\ RemoveAt(s, i) \in Seq(S)
         /\ Len(RemoveAt(s, i)) = Len(s) - 1
<1>1. SubSeq(s, 1, i - 1) \in Seq(S) /\ Len(SubSeq(s, 1, i - 1)) = i - 1
  BY SubSeqProperties, ElementOfSeq, LenProperties
<1>2. SubSeq(s, i + 1, Len(s)) \in Seq(S)
      /\ Len(SubSeq(s, i + 1, Len(s))) = Len(s) - i
  BY SubSeqProperties, ElementOfSeq, LenProperties
<1>3. /\ SubSeq(s, 1, i - 1) \o SubSeq(s, i + 1, Len(s)) \in Seq(S)
      /\ Len(SubSeq(s, 1, i - 1) \o SubSeq(s, i + 1, Len(s)))
           = Len(SubSeq(s, 1, i - 1)) + Len(SubSeq(s, i + 1, Len(s)))
  BY <1>1, <1>2, ConcatProperties
<1>4. RemoveAt(s, i) \in Seq(S)
  BY <1>3, Zenon DEF RemoveAt
<1>5. Len(RemoveAt(s, i)) = Len(SubSeq(s, 1, i - 1)) + Len(SubSeq(s, i + 1, Len(s)))
  BY <1>3, Zenon DEF RemoveAt
<1>6. Len(RemoveAt(s, i)) = (i - 1) + (Len(s) - i)
  BY <1>1, <1>2, <1>5, Zenon
<1>. QED
  BY <1>4, <1>6, LenProperties

\* The frame that a chunk becomes (stream.go:91-92) is a frame.
LEMMA DataFrameType ==
  ASSUME TypeOK, NEW n \in 0..MaxFrame
  PROVE  DataFrame(n) \in Frames
<1>1. chunks + 1 \in Nat /\ enqueued + n \in Nat
  BY FlowAssumption DEF TypeOK
<1>. QED
  BY <1>1 DEF DataFrame, Frames

------------------------------------------------------------------------------
(* Types *)

\* A new stream has the types of TypeOK.
LEMMA InitType == Init => TypeOK
<1>. SUFFICES ASSUME Init PROVE TypeOK
  OBVIOUS
<1>. USE FlowAssumption
<1>1. /\ 0 \in 0..(Modulus - 1)
      /\ pc \in [Writers -> {"idle", "load", "check", "queue", "done"}]
      /\ todo \in [Writers -> Nat]
      /\ sentSeen \in [Writers -> 0..(Modulus - 1)]
  BY DEF Init
<1>2. /\ orphans \in Seq(0..MaxFrame) /\ ackPath \in Seq(Acks)
      /\ sendQ \in Seq(Frames) /\ wire \in Seq(Frames)
      /\ recvCh \in Seq(Frames)
      /\ Len(sendQ) = 0 /\ Len(wire) = 0 /\ Len(recvCh) = 0
      /\ Len(ackPath) = 0
  BY EmptySeq DEF Init
<1>3. /\ sent \in 0..(Modulus - 1) /\ acked \in 0..(Modulus - 1)
      /\ received \in 0..(Modulus - 1)
      /\ enqueued \in Nat /\ chunks \in Nat /\ accepted \in Nat
      /\ started \in Nat /\ lastRead \in Nat /\ readBytes \in Nat
      /\ SendBuf \in Nat /\ WireCap \in Nat /\ RecvBuf \in Nat
  BY <1>1 DEF Init
<1>4. /\ Len(sendQ) <= SendBuf /\ Len(wire) <= WireCap
      /\ Len(recvCh) <= RecvBuf /\ Len(ackPath) <= SendBuf
  BY <1>2, <1>3
<1>5. /\ isClosed \in BOOLEAN /\ remoteClosed \in BOOLEAN /\ ackLost \in BOOLEAN
      /\ reading \in BOOLEAN /\ eof \in BOOLEAN
      /\ closer \in {"open", "sending", "closed"}
      /\ windowSize = Window
  BY DEF Init
<1>. QED
  BY <1>1, <1>2, <1>3, <1>4, <1>5, Zenon DEF TypeOK

\* No step of either end breaks a type or a capacity.
LEMMA NextType == TypeOK /\ [Next]_vars => TypeOK'
<1>. SUFFICES ASSUME TypeOK, [Next]_vars PROVE TypeOK'
  OBVIOUS
<1>. USE FlowAssumption
<1>1. ASSUME NEW w \in Writers, Write(w) PROVE TypeOK'
  <2>0. /\ Chunk(w) \in 0..MaxFrame /\ Chunk(w) <= todo[w]
        /\ Chunk(w) \in 0..(Modulus - 1)
    BY ChunkRange
  <2>1. CASE \E n \in 1..MaxWrite : StartWrite(w, n)
    BY <2>1 DEF TypeOK, StartWrite, creditVars, closeVars, recvVars, readVars,
                queueHist
  <2>2. CASE LoadSent(w)
    BY <2>2 DEF TypeOK, LoadSent, creditVars, closeVars, recvVars, readVars,
                queueHist
  <2>3. CASE PassWindow(w)
    BY <2>3 DEF TypeOK, PassWindow, creditVars, closeVars, recvVars, readVars,
                queueHist
  <2>4. CASE RetryWindow(w)
    BY <2>4 DEF TypeOK, RetryWindow, creditVars, closeVars, recvVars,
                readVars, queueHist
  <2>5. CASE GiveUpWindow(w)
    BY <2>5 DEF TypeOK, GiveUpWindow, Return, creditVars, closeVars, recvVars,
                readVars, queueHist
  <2>6. CASE Enqueue(w)
    <3>1. DataFrame(Chunk(w)) \in Frames
      BY <2>0, DataFrameType
    <3>2. sendQ' \in Seq(Frames) /\ Len(sendQ') <= SendBuf
      BY <2>6, <3>1 DEF TypeOK, Enqueue, PutData, PutFrame
    <3>3. enqueued' \in Nat /\ chunks' \in Nat
      BY <2>0, <2>6 DEF TypeOK, Enqueue, PutData
    <3>. QED
      BY <2>6, <3>2, <3>3 DEF TypeOK, Enqueue, creditVars, closeVars,
                              recvVars, readVars
  <2>7. CASE SendTimeout(w)
    BY <2>7 DEF TypeOK, SendTimeout, Return, creditVars, closeVars, recvVars,
                readVars, queueHist
  <2>8. CASE FinishChunk(w)
    <3>1. sent' \in 0..(Modulus - 1)
      BY <2>0, <2>8, CounterRange DEF TypeOK, FinishChunk
    <3>. QED
      BY SMTT(20), <2>0, <2>8, <3>1 DEF TypeOK, FinishChunk, creditVars, closeVars,
                              recvVars, readVars, queueHist
  <2>9. CASE ReturnEarly(w)
    <3>1. orphans' \in Seq(0..MaxFrame)
      BY <2>0, <2>9, AppendProperties DEF TypeOK, ReturnEarly
    <3>. QED
      BY <2>9, <3>1 DEF TypeOK, ReturnEarly, Return, creditVars, closeVars,
                        recvVars, readVars, queueHist
  <2>. QED
    BY <1>1, <2>1, <2>2, <2>3, <2>4, <2>5, <2>6, <2>7, <2>8, <2>9 DEF Write
<1>2. ASSUME NEW i \in DOMAIN orphans, Orphan(i) PROVE TypeOK'
  <2>a. orphans \in Seq(0..MaxFrame) /\ i \in 1..Len(orphans)
    BY LenProperties DEF TypeOK
  <2>0. RemoveAt(orphans, i) \in Seq(0..MaxFrame)
    BY <2>a, RemoveAtType
  <2>b. orphans[i] \in 0..MaxFrame
    BY <2>a, ElementOfSeq
  <2>1. CASE EnqueueOrphan(i)
    <3>1. DataFrame(orphans[i]) \in Frames
      BY <2>b, DataFrameType
    <3>2. sendQ' \in Seq(Frames) /\ Len(sendQ') <= SendBuf
      BY <2>1, <3>1 DEF TypeOK, EnqueueOrphan, PutData, PutFrame
    <3>3. enqueued' \in Nat /\ chunks' \in Nat
      BY SMTT(20), <2>b, <2>1 DEF TypeOK, EnqueueOrphan, PutData
    <3>4. orphans' \in Seq(0..MaxFrame)
      BY <2>0, <2>1 DEF EnqueueOrphan
    <3>. QED
      BY <2>1, <3>2, <3>3, <3>4
      DEF TypeOK, EnqueueOrphan, creditVars, closeVars, recvVars, readVars
  <2>2. CASE OrphanTimeout(i)
    BY <2>0, <2>2 DEF TypeOK, OrphanTimeout, creditVars, closeVars, recvVars,
                      readVars, queueHist
  <2>. QED
    BY <1>2, <2>1, <2>2 DEF Orphan
<1>3. CASE Close
  <2>1. CASE CloseStream
    BY <2>1 DEF TypeOK, CloseStream, writerVars, creditVars, recvVars,
                readVars, queueHist
  <2>2. CASE EnqueueClose
    <3>1. sendQ' \in Seq(Frames) /\ Len(sendQ') <= SendBuf
      BY <2>2 DEF TypeOK, EnqueueClose, PutFrame, CloseFrame, Frames
    <3>. QED
      BY <2>2, <3>1 DEF TypeOK, EnqueueClose, writerVars, creditVars,
                        recvVars, readVars, queueHist
  <2>3. CASE CloseTimeout
    BY <2>3 DEF TypeOK, CloseTimeout, writerVars, creditVars, recvVars,
                readVars, queueHist
  <2>. QED
    BY <1>3, <2>1, <2>2, <2>3 DEF Close
<1>4. CASE Sessions
  <2>1. CASE Transmit
    <3>1. Head(sendQ) \in Frames /\ Tail(sendQ) \in Seq(Frames)
          /\ Len(Tail(sendQ)) <= SendBuf
      BY <2>1, HeadTailProperties, LenProperties DEF TypeOK, Transmit
    <3>2. wire' \in Seq(Frames) /\ Len(wire') <= WireCap
      BY <2>1, <3>1 DEF TypeOK, Transmit
    <3>. QED
      BY <2>1, <3>1, <3>2 DEF TypeOK, Transmit, writerVars, creditVars,
                              closeVars, recvVars, readVars, queueHist
  <2>2. ASSUME wire # <<>>, wire' = Tail(wire)
        PROVE  Head(wire) \in Frames /\ wire' \in Seq(Frames)
               /\ Len(wire') <= WireCap
    BY <2>2, HeadTailProperties, LenProperties DEF TypeOK
  <2>3. CASE AcceptData
    <3>1. Head(wire) \in Frames /\ wire' \in Seq(Frames) /\ Len(wire') <= WireCap
      BY <2>2, <2>3 DEF AcceptData
    <3>2. recvCh' \in Seq(Frames) /\ Len(recvCh') <= RecvBuf
      BY <2>3, <3>1 DEF TypeOK, AcceptData
    <3>3. Head(wire).size \in 0..MaxFrame
      BY <3>1 DEF Frames
    <3>a. Head(wire).size \in 0..(Modulus - 1)
      BY <3>3
    <3>b. Plus(received, Head(wire).size) \in 0..(Modulus - 1)
      BY <3>a, CounterRange DEF TypeOK
    <3>c. accepted + Head(wire).size \in Nat
      BY <3>3 DEF TypeOK
    <3>4. received' \in 0..(Modulus - 1) /\ accepted' \in Nat
      BY <2>3, <3>b, <3>c DEF AcceptData
    <3>5. [acked |-> received', window |-> Window] \in Acks
      BY <3>4 DEF Acks
    <3>6. ackPath' \in Seq(Acks) /\ Len(ackPath') <= SendBuf
      BY <2>3, <3>5, AppendProperties, LenProperties
      DEF TypeOK, AcceptData, SendAck
    <3>7. ackLost' \in BOOLEAN
      BY <2>3 DEF AcceptData, SendAck
    <3>. QED
      BY <2>3, <3>1, <3>2, <3>4, <3>6, <3>7
      DEF TypeOK, AcceptData, writerVars, creditVars, closeVars, readVars,
          queueHist
  <2>4. CASE DropData
    BY <2>2, <2>4 DEF TypeOK, DropData, writerVars, creditVars, closeVars,
                      recvVars, readVars, queueHist
  <2>5. CASE LateData
    BY <2>2, <2>5 DEF TypeOK, LateData, writerVars, creditVars, closeVars,
                      recvVars, readVars, queueHist
  <2>6. CASE RemoteClose
    BY <2>2, <2>6 DEF TypeOK, RemoteClose, writerVars, creditVars, closeVars,
                      readVars, queueHist
  <2>7. CASE HandleAck
    <3>1. Head(ackPath) \in Acks /\ ackPath' \in Seq(Acks)
          /\ Len(ackPath') <= SendBuf
      BY <2>7, HeadTailProperties, LenProperties DEF TypeOK, HandleAck
    <3>. QED
      BY SMTT(20), <2>7, <3>1 DEF TypeOK, HandleAck, Acks, writerVars, creditVars,
                        closeVars, recvVars, readVars, queueHist
  <2>. QED
    BY <1>4, <2>1, <2>3, <2>4, <2>5, <2>6, <2>7 DEF Sessions
<1>5. CASE Read
  <2>1. ASSUME TakeChunk
        PROVE  /\ recvCh' \in Seq(Frames) /\ Len(recvCh') <= RecvBuf
               /\ lastRead' \in Nat /\ readBytes' \in Nat
    <3>1. Head(recvCh) \in Frames /\ Tail(recvCh) \in Seq(Frames)
          /\ Len(Tail(recvCh)) <= RecvBuf
      BY <2>1, HeadTailProperties, LenProperties DEF TypeOK, TakeChunk
    <3>2. Head(recvCh).size \in Nat /\ Head(recvCh).pos \in Nat
      BY <3>1 DEF Frames
    <3>3. MinOf(Head(recvCh).size, ReadSize) \in Nat
      BY <3>2 DEF MinOf
    <3>4. recvCh' = Tail(recvCh)
      BY <2>1 DEF TakeChunk
    <3>5. lastRead' = Head(recvCh).pos
      BY <2>1 DEF TakeChunk
    <3>6. readBytes' = readBytes + MinOf(Head(recvCh).size, ReadSize)
      BY <2>1 DEF TakeChunk
    <3>7. readBytes \in Nat
      BY DEF TypeOK
    <3>. QED
      BY <3>1, <3>2, <3>3, <3>4, <3>5, <3>6, <3>7
  <2>2. CASE StartRead
    BY <2>2 DEF TypeOK, StartRead, unreadVars, writerVars, creditVars,
                closeVars, queueHist
  <2>3. CASE DrainRead
    BY <2>1, <2>3 DEF TypeOK, DrainRead, unreadVars, writerVars, creditVars,
                      closeVars, queueHist
  <2>4. CASE EndOfStream
    BY <2>4 DEF TypeOK, EndOfStream, unreadVars, writerVars, creditVars,
                closeVars, queueHist
  <2>5. CASE FinishRead
    BY <2>1, <2>5 DEF TypeOK, FinishRead, unreadVars, writerVars, creditVars,
                      closeVars, queueHist
  <2>6. CASE ReadTimeout
    BY <2>6 DEF TypeOK, ReadTimeout, unreadVars, writerVars, creditVars,
                closeVars, queueHist
  <2>. QED
    BY <1>5, <2>2, <2>3, <2>4, <2>5, <2>6 DEF Read
<1>6. CASE UNCHANGED vars
  BY <1>6 DEF TypeOK, vars, writerVars, creditVars, closeVars, recvVars,
              readVars, queueHist
<1>. QED
  BY <1>1, <1>2, <1>3, <1>4, <1>5, <1>6 DEF Next

\* Type correctness of the stream's counters, queues and buffers.
THEOREM TypeCorrect == Spec => []TypeOK
BY InitType, NextType, PTL DEF Spec

------------------------------------------------------------------------------
(* Acknowledgements never run ahead of the receiver *)

\* What makes AckNeverAhead inductive: the receiver's wrapped counter and
\* every acknowledgement on its way are no larger than what was accepted.
AckInv ==
  /\ acked <= accepted
  /\ received <= accepted
  /\ \A i \in 1..Len(ackPath) : ackPath[i].acked <= accepted

\* No acknowledgement is on its way on a new stream.
LEMMA InitAck == Init => AckInv
BY DEF Init, AckInv

\* Acknowledgements are issued, carried and taken in without gaining bytes
\* (session.go:432-441, 525-528).
LEMMA NextAck == TypeOK /\ AckInv /\ [Next]_vars => AckInv'
<1>. SUFFICES ASSUME TypeOK, AckInv, [Next]_vars PROVE AckInv'
  OBVIOUS
<1>1. CASE AcceptData
  <2>0. /\ acked \in Nat /\ accepted \in Nat /\ received \in 0..(Modulus - 1)
        /\ ackPath \in Seq(Acks) /\ Len(ackPath) \in Nat
    BY LenProperties DEF TypeOK
  <2>1. Head(wire) \in Frames
    BY <1>1, HeadTailProperties DEF TypeOK, AcceptData
  <2>2. Head(wire).size \in 0..(Modulus - 1)
    BY <2>1, FlowAssumption DEF Frames
  <2>3. /\ accepted' >= accepted /\ accepted' \in Nat
        /\ received' <= accepted'
    <3>1. /\ accepted' = accepted + Head(wire).size
          /\ received' = Plus(received, Head(wire).size)
      BY <1>1 DEF AcceptData
    <3>. QED
      BY SMTT(20), <2>0, <2>2, <3>1, FlowAssumption DEF AckInv, Plus
  <2>4. acked' <= accepted'
    BY <1>1, <2>0, <2>3 DEF AckInv, AcceptData, creditVars
  <2>5. ASSUME NEW i \in 1..Len(ackPath)
        PROVE  ackPath[i].acked <= accepted'
    <3>1. ackPath[i] \in Acks
      BY <2>0, ElementOfSeq
    <3>2. ackPath[i].acked \in Nat
      BY <3>1, FlowAssumption DEF Acks
    <3>. QED
      BY <2>0, <2>3, <3>2 DEF AckInv
  <2>6. ASSUME NEW i \in 1..Len(ackPath') PROVE ackPath'[i].acked <= accepted'
    <3>1. CASE Len(ackPath) < SendBuf
      <4>1. ackPath' = Append(ackPath, [acked |-> received', window |-> Window])
        BY <1>1, <3>1 DEF AcceptData, SendAck
      <4>2. CASE i = Len(ackPath) + 1
        BY <2>0, <4>1, <4>2, <2>3
      <4>3. CASE i # Len(ackPath) + 1
        <5>1. i \in 1..Len(ackPath) /\ ackPath'[i] = ackPath[i]
          BY <2>0, <4>1, <4>3
        <5>. QED
          BY <2>5, <5>1
      <4>. QED
        BY <4>2, <4>3
    <3>2. CASE ~(Len(ackPath) < SendBuf)
      BY <1>1, <2>5, <3>2 DEF AcceptData, SendAck
    <3>. QED
      BY <3>1, <3>2
  <2>. QED
    BY <2>3, <2>4, <2>6 DEF AckInv
<1>2. CASE HandleAck
  <2>1. /\ Head(ackPath) = ackPath[1] /\ 1 \in 1..Len(ackPath)
        /\ Len(ackPath') = Len(ackPath) - 1
        /\ \A i \in 1..Len(ackPath') : ackPath'[i] = ackPath[i + 1]
    BY <1>2, HeadTailProperties, LenProperties DEF TypeOK, HandleAck
  <2>2. acked' <= accepted
    BY <1>2, <2>1 DEF AckInv, HandleAck, creditVars
  <2>3. \A i \in 1..Len(ackPath') : i + 1 \in 1..Len(ackPath)
    BY <2>1 DEF TypeOK
  <2>. QED
    BY <1>2, <2>1, <2>2, <2>3 DEF AckInv, HandleAck, recvVars
<1>3. CASE UNCHANGED <<acked, accepted, received, ackPath>>
  BY <1>3 DEF AckInv
<1>4. ASSUME NEW w \in Writers, Write(w)
      PROVE  UNCHANGED <<acked, accepted, received, ackPath>>
  BY <1>4 DEF Write, StartWrite, LoadSent, PassWindow, RetryWindow,
     GiveUpWindow, Enqueue, SendTimeout, FinishChunk, ReturnEarly, creditVars,
     recvVars
<1>5. ASSUME NEW i \in DOMAIN orphans, Orphan(i)
      PROVE  UNCHANGED <<acked, accepted, received, ackPath>>
  BY <1>5 DEF Orphan, EnqueueOrphan, OrphanTimeout, creditVars, recvVars
<1>6. CASE Close
  BY <1>3, <1>6 DEF Close, CloseStream, EnqueueClose, CloseTimeout,
     creditVars, recvVars
<1>7. CASE Transmit \/ DropData \/ LateData \/ RemoteClose
  BY <1>3, <1>7 DEF Transmit, DropData, LateData, RemoteClose, creditVars,
     recvVars
<1>8. CASE Read
  BY <1>3, <1>8 DEF Read, StartRead, DrainRead, EndOfStream, FinishRead,
     ReadTimeout, unreadVars, creditVars
<1>9. CASE UNCHANGED vars
  BY <1>3, <1>9 DEF vars, creditVars, recvVars
<1>. QED
  BY <1>1, <1>2, <1>3, <1>4, <1>5, <1>6, <1>7, <1>8, <1>9 DEF Next, Sessions

\* The sender is never told of a byte the receiver did not put in recvCh.
THEOREM AcksAreTrue == Spec => []AckNeverAhead
<1>1. TypeOK /\ AckInv => AckNeverAhead
  BY DEF AckInv, AckNeverAhead
<1>. QED
  BY <1>1, TypeCorrect, InitAck, NextAck, PTL DEF Spec

------------------------------------------------------------------------------
(* Frames travel in order and occupy disjoint ranges of the stream *)

\* The frames of q cover disjoint ranges, in order, between lo and hi.
InOrder(q, lo, hi) ==
  /\ \A i \in 1..Len(q) : lo + q[i].size <= q[i].end /\ q[i].end <= hi
  /\ \A i, j \in 1..Len(q) : i < j => q[i].end + q[j].size <= q[j].end

\* The fields of a frame on the path are numbers.
LEMMA FrameFields ==
  ASSUME NEW f \in Frames
  PROVE  f.size \in Nat /\ f.end \in Nat
BY FlowAssumption DEF Frames

\* A frame queued behind the others keeps the path in order.
LEMMA AppendInOrder ==
  ASSUME NEW q \in Seq(Frames), NEW lo \in Nat, NEW mid \in Nat,
         NEW hi \in Nat, NEW f \in Frames, lo <= mid,
         InOrder(q, lo, mid), mid + f.size <= f.end, f.end <= hi
  PROVE  InOrder(Append(q, f), lo, hi)
<1>. DEFINE r == Append(q, f)
<1>1. /\ Len(q) \in Nat /\ Len(r) = Len(q) + 1 /\ r[Len(q) + 1] = f
      /\ \A i \in 1..Len(q) : r[i] = q[i] /\ q[i] \in Frames
  BY AppendProperties, LenProperties, ElementOfSeq
<1>2. f.size \in Nat /\ f.end \in Nat
      /\ \A i \in 1..Len(q) : q[i].size \in Nat /\ q[i].end \in Nat
  BY <1>1, FrameFields
<1>3. ASSUME NEW i \in 1..Len(r)
      PROVE  lo + r[i].size <= r[i].end /\ r[i].end <= hi
  BY SMTT(20), <1>1, <1>2 DEF InOrder
<1>4. ASSUME NEW i \in 1..Len(r), NEW j \in 1..Len(r), i < j
      PROVE  r[i].end + r[j].size <= r[j].end
  <2>1. i \in 1..Len(q)
    BY <1>1, <1>4
  <2>2. CASE j = Len(q) + 1
    BY <1>1, <1>2, <2>1, <2>2 DEF InOrder
  <2>3. CASE j # Len(q) + 1
    BY <1>1, <1>4, <2>1, <2>3 DEF InOrder
  <2>. QED
    BY <2>2, <2>3
<1>. QED
  BY <1>3, <1>4 DEF InOrder

\* Taking the oldest frame off a path keeps the rest in order.
LEMMA TailInOrder ==
  ASSUME NEW q \in Seq(Frames), q # <<>>, NEW lo \in Nat, NEW hi \in Nat,
         InOrder(q, lo, hi), NEW n \in Nat, n <= Head(q).end
  PROVE  /\ InOrder(Tail(q), n, hi)
         /\ lo + Head(q).size <= Head(q).end
         /\ Head(q).end <= hi
<1>1. /\ Len(q) \in Nat \ {0} /\ Head(q) = q[1]
      /\ Len(Tail(q)) = Len(q) - 1
      /\ \A i \in 1..Len(Tail(q)) : Tail(q)[i] = q[i + 1]
  BY HeadTailProperties, LenProperties, EmptySeq
<1>2. \A i \in 1..Len(q) : q[i].size \in Nat /\ q[i].end \in Nat
  BY ElementOfSeq, FrameFields
<1>3. ASSUME NEW i \in 1..Len(Tail(q))
      PROVE  n + Tail(q)[i].size <= Tail(q)[i].end /\ Tail(q)[i].end <= hi
  <2>1. 1 \in 1..Len(q) /\ i + 1 \in 1..Len(q) /\ 1 < i + 1
    BY <1>1
  <2>2. q[1].end + q[i + 1].size <= q[i + 1].end /\ q[i + 1].end <= hi
    BY <2>1 DEF InOrder
  <2>. QED
    BY <1>1, <1>2, <2>1, <2>2
<1>4. ASSUME NEW i \in 1..Len(Tail(q)), NEW j \in 1..Len(Tail(q)), i < j
      PROVE  Tail(q)[i].end + Tail(q)[j].size <= Tail(q)[j].end
  <2>1. i + 1 \in 1..Len(q) /\ j + 1 \in 1..Len(q) /\ i + 1 < j + 1
    BY <1>1, <1>4
  <2>. QED
    BY <1>1, <2>1 DEF InOrder
<1>5. lo + Head(q).size <= Head(q).end /\ Head(q).end <= hi
  BY <1>1 DEF InOrder
<1>. QED
  BY <1>3, <1>4, <1>5 DEF InOrder

\* Everything on the way lies between what was accepted and what was queued.
PathInv ==
  \E mid \in Nat :
    /\ accepted <= mid /\ mid <= enqueued
    /\ InOrder(wire, accepted, mid)
    /\ InOrder(sendQ, mid, enqueued)

\* The path of a new stream is empty, hence in order.
LEMMA InitPath == Init => PathInv
<1>. SUFFICES ASSUME Init PROVE PathInv
  OBVIOUS
<1>1. InOrder(wire, accepted, 0) /\ InOrder(sendQ, 0, enqueued)
  BY DEF Init, InOrder
<1>. QED
  BY <1>1 DEF Init, PathInv

\* Queueing a frame (session.go:202-203) keeps the path in order.
LEMMA PutFramePath ==
  ASSUME TypeOK, PathInv, NEW f \in Frames, PutFrame(f),
         f.end = enqueued + f.size, enqueued' = f.end,
         UNCHANGED <<wire, accepted>>
  PROVE  PathInv'
<1>1. PICK mid \in Nat :
        /\ accepted <= mid /\ mid <= enqueued
        /\ InOrder(wire, accepted, mid)
        /\ InOrder(sendQ, mid, enqueued)
  BY DEF PathInv
<1>2. /\ enqueued \in Nat /\ sendQ \in Seq(Frames)
      /\ f.size \in Nat /\ f.end \in Nat
  BY FrameFields DEF TypeOK
<1>3. InOrder(Append(sendQ, f), mid, f.end)
  BY <1>1, <1>2, AppendInOrder
<1>4. InOrder(sendQ', mid, enqueued') /\ InOrder(wire', accepted', mid)
  BY <1>1, <1>3 DEF PutFrame
<1>. QED
  BY <1>1, <1>2, <1>4 DEF PathInv

\* Every step keeps the frames on the path in the order and at the
\* positions at which they were queued.
LEMMA NextPath == TypeOK /\ PathInv /\ [Next]_vars => PathInv'
<1>. SUFFICES ASSUME TypeOK, PathInv, [Next]_vars PROVE PathInv'
  OBVIOUS
<1>0. PICK mid \in Nat :
        /\ accepted <= mid /\ mid <= enqueued
        /\ InOrder(wire, accepted, mid)
        /\ InOrder(sendQ, mid, enqueued)
  BY DEF PathInv
<1>a. /\ enqueued \in Nat /\ accepted \in Nat /\ sendQ \in Seq(Frames)
      /\ wire \in Seq(Frames)
  BY DEF TypeOK
<1>1. CASE UNCHANGED <<wire, sendQ, accepted, enqueued>>
  BY <1>1, <1>0 DEF PathInv, InOrder
<1>2. ASSUME NEW w \in Writers, Write(w) PROVE PathInv'
  <2>1. CASE Enqueue(w)
    <3>1. Chunk(w) \in 0..MaxFrame
      BY ChunkRange
    <3>2. DataFrame(Chunk(w)) \in Frames
      BY <3>1, DataFrameType
    <3>. QED
      BY <2>1, <3>2, PutFramePath
      DEF Enqueue, PutData, DataFrame, recvVars
  <2>2. CASE ~Enqueue(w)
    BY <1>1, <1>2, <2>2 DEF Write, StartWrite, LoadSent, PassWindow,
       RetryWindow, GiveUpWindow, SendTimeout, FinishChunk, ReturnEarly,
       recvVars, queueHist
  <2>. QED
    BY <2>1, <2>2
<1>3. ASSUME NEW i \in DOMAIN orphans, Orphan(i) PROVE PathInv'
  <2>1. CASE EnqueueOrphan(i)
    <3>1. orphans[i] \in 0..MaxFrame
      BY LenProperties, ElementOfSeq DEF TypeOK
    <3>2. DataFrame(orphans[i]) \in Frames
      BY <3>1, DataFrameType
    <3>. QED
      BY <2>1, <3>2, PutFramePath
      DEF EnqueueOrphan, PutData, DataFrame, recvVars
  <2>2. CASE OrphanTimeout(i)
    BY <1>1, <2>2 DEF OrphanTimeout, recvVars, queueHist
  <2>. QED
    BY <1>3, <2>1, <2>2 DEF Orphan
<1>4. CASE Close
  <2>1. CASE EnqueueClose
    <3>1. CloseFrame \in Frames /\ CloseFrame.end = enqueued + CloseFrame.size
      BY <1>a, FlowAssumption DEF CloseFrame, Frames
    <3>. QED
      BY <2>1, <3>1, PutFramePath
      DEF EnqueueClose, CloseFrame, recvVars, queueHist
  <2>2. CASE CloseStream \/ CloseTimeout
    BY <1>1, <2>2 DEF CloseStream, CloseTimeout, recvVars, queueHist
  <2>. QED
    BY <1>4, <2>1, <2>2 DEF Close
<1>5. CASE Transmit
  <2>. DEFINE f == Head(sendQ)
  <2>1. sendQ # <<>> /\ f \in Frames /\ f.size \in Nat /\ f.end \in Nat
    BY <1>a, <1>5, HeadTailProperties, FrameFields DEF Transmit
  <2>2. InOrder(Tail(sendQ), f.end, enqueued) /\ mid + f.size <= f.end
        /\ f.end <= enqueued
    BY <1>0, <1>a, <2>1, TailInOrder
  <2>3. InOrder(Append(wire, f), accepted, f.end)
    BY SMTT(20), <1>0, <1>a, <2>1, <2>2, AppendInOrder
  <2>4. accepted <= f.end
    BY <1>0, <1>a, <2>1, <2>2
  <2>. QED
    BY <1>5, <2>1, <2>2, <2>3, <2>4 DEF PathInv, Transmit, recvVars, queueHist
<1>6. CASE AcceptData
  <2>1. wire # <<>> /\ Head(wire) \in Frames
        /\ Head(wire).size \in Nat /\ Head(wire).end \in Nat
    BY <1>a, <1>6, HeadTailProperties, FrameFields DEF AcceptData
  <2>2. accepted + Head(wire).size <= Head(wire).end /\ Head(wire).end <= mid
    BY <1>0, <1>a, <2>1, TailInOrder
  <2>3. InOrder(Tail(wire), accepted + Head(wire).size, mid)
    BY <1>0, <1>a, <2>1, <2>2, TailInOrder
  <2>4. accepted + Head(wire).size <= mid
    BY <1>0, <1>a, <2>1, <2>2
  <2>. QED
    BY <1>0, <1>6, <2>3, <2>4 DEF PathInv, AcceptData, queueHist
<1>7. CASE DropData \/ LateData \/ RemoteClose
  <2>1. wire # <<>> /\ wire' = Tail(wire)
        /\ UNCHANGED <<sendQ, accepted, enqueued>>
    BY <1>7 DEF DropData, LateData, RemoteClose, recvVars, queueHist
  <2>2. Head(wire) \in Frames
        /\ Head(wire).size \in Nat /\ Head(wire).end \in Nat
    BY <1>a, <2>1, HeadTailProperties, FrameFields
  <2>3. accepted + Head(wire).size <= Head(wire).end
    BY <1>0, <1>a, <2>1, <2>2, TailInOrder
  <2>4. InOrder(Tail(wire), accepted, mid)
    BY <1>0, <1>a, <2>1, <2>2, <2>3, TailInOrder
  <2>. QED
    BY <1>0, <2>1, <2>4 DEF PathInv
<1>8. CASE HandleAck
  BY <1>1, <1>8 DEF HandleAck, recvVars, queueHist
<1>9. CASE Read
  BY <1>1, <1>9 DEF Read, StartRead, DrainRead, EndOfStream, FinishRead,
     ReadTimeout, unreadVars, queueHist
<1>10. CASE UNCHANGED vars
  BY <1>1, <1>10 DEF vars, recvVars, queueHist
<1>. QED
  BY <1>1, <1>2, <1>3, <1>4, <1>5, <1>6, <1>7, <1>8, <1>9, <1>10
  DEF Next, Sessions
------------------------------------------------------------------------------
(* The credit window *)

\* One goroutine writes, and its write timeout does not run out before
\* sendFrame's own: the use the window accounting of Stream.Write is right for.
SequentialUse(w) == Writers = {w} /\ "write_timeout" \notin Env

\* A counter that has wrapped at most once.
Low(n) == IF n < Modulus THEN n ELSE n - Modulus

\* Bytes that may still enter the queue without another look at the window.
Committed(w) ==
  IF pc[w] = "queue" THEN Chunk(w)
  ELSE IF orphans = <<>> THEN 0 ELSE orphans[1]

\* The strengthening that makes WindowRespected inductive: what is queued or
\* committed is covered by credit, and the writer's counters agree with what
\* it has queued whenever it is going to look at them.
CreditInv(w) ==
  /\ enqueued + Committed(w) <= acked + Window
  /\ Len(orphans) <= 1
  /\ orphans # <<>> => isClosed /\ pc[w] = "idle"
  /\ pc[w] \in {"load", "check", "queue"} \/ (pc[w] = "idle" /\ ~isClosed)
       => sent = Low(enqueued)
  /\ pc[w] = "done" => Chunk(w) <= enqueued /\ sent = Low(enqueued - Chunk(w))
  /\ pc[w] = "check" => sentSeen[w] = sent

\* The counters of a new stream agree with the bytes it has queued.
LEMMA InitCredit ==
  ASSUME NEW w, SequentialUse(w), Init
  PROVE  CreditInv(w)
BY FlowAssumption DEF SequentialUse, Init, CreditInv, Committed, Low

\* What the writer computes as `available` is exactly the credit left.
LEMMA AvailableIsCredit ==
  ASSUME NEW w, SequentialUse(w), TypeOK, AckInv, PathInv, CreditInv(w),
         pc[w] = "check"
  PROVE  Available(w) = acked + Window - enqueued
<1>1. acked <= enqueued
  BY DEF AckInv, PathInv, TypeOK
<1>2. /\ acked \in 0..(Modulus - 1) /\ enqueued \in Nat /\ windowSize = Window
  BY DEF TypeOK
<1>3. sentSeen[w] = Low(enqueued) /\ orphans = <<>>
  BY DEF CreditInv
<1>4. enqueued <= acked + Window
  <2>1. Committed(w) = 0
    BY <1>3 DEF Committed
  <2>. QED
    BY <1>2, <2>1, FlowAssumption DEF CreditInv
<1>5. Minus(sentSeen[w], acked) = enqueued - acked
  BY <1>1, <1>2, <1>3, <1>4, FlowAssumption DEF Minus, Low
<1>. QED
  BY <1>1, <1>2, <1>4, <1>5, FlowAssumption DEF Available, Minus

\* Every step keeps the counters of the one writer in agreement with the
\* bytes that are queued and acknowledged (stream.go:59-114).
LEMMA NextCredit ==
  ASSUME NEW w, SequentialUse(w), TypeOK, TypeOK', AckInv, PathInv,
         CreditInv(w), [Next]_vars
  PROVE  CreditInv(w)'
<1>. USE FlowAssumption
<1>a. w \in Writers /\ \A v \in Writers : v = w
  BY DEF SequentialUse
<1>b. /\ enqueued \in Nat /\ acked \in 0..(Modulus - 1)
      /\ sent \in 0..(Modulus - 1) /\ Window \in Nat
      /\ orphans \in Seq(0..MaxFrame) /\ Len(orphans) \in Nat
      /\ pc \in [Writers -> {"idle", "load", "check", "queue", "done"}]
      /\ todo \in [Writers -> Nat]
      /\ sentSeen \in [Writers -> 0..(Modulus - 1)]
  BY LenProperties DEF TypeOK
<1>c. Chunk(w) \in 0..MaxFrame /\ Chunk(w) <= todo[w]
  BY <1>a, ChunkRange
<1>d. orphans # <<>> => orphans[1] \in 0..MaxFrame /\ Len(orphans) = 1
  <2>. SUFFICES ASSUME orphans # <<>>
                PROVE  orphans[1] \in 0..MaxFrame /\ Len(orphans) = 1
    OBVIOUS
  <2>1. Len(orphans) \in Nat \ {0}
    BY <1>b, EmptySeq
  <2>2. Len(orphans) = 1
    BY <2>1 DEF CreditInv
  <2>3. 1 \in 1..Len(orphans)
    BY <2>2
  <2>. QED
    BY <1>b, <2>2, <2>3, ElementOfSeq
<1>e. Committed(w) \in Nat
  BY <1>c, <1>d DEF Committed
<1>f. enqueued <= acked + Window
  BY <1>b, <1>e DEF CreditInv
<1>1. ASSUME Write(w) PROVE CreditInv(w)'
  <2>1. CASE \E n \in 1..MaxWrite : StartWrite(w, n)
    BY <1>a, <1>b, <1>f, <2>1
    DEF CreditInv, Committed, StartWrite, creditVars, closeVars, queueHist
  <2>2. CASE LoadSent(w)
    BY <1>a, <1>b, <1>f, <2>2
    DEF CreditInv, Committed, LoadSent, creditVars, closeVars, queueHist
  <2>3. CASE PassWindow(w)
    <3>1. Chunk(w) <= acked + Window - enqueued
      BY <2>3, AvailableIsCredit DEF PassWindow
    <3>2. Chunk(w)' = Chunk(w)
      BY <2>3 DEF PassWindow, Chunk
    <3>. QED
      BY <1>a, <1>b, <1>c, <2>3, <3>1, <3>2
      DEF CreditInv, Committed, PassWindow, creditVars, closeVars, queueHist
  <2>4. CASE RetryWindow(w)
    BY <1>a, <1>b, <1>f, <2>4
    DEF CreditInv, Committed, RetryWindow, creditVars, closeVars, queueHist
  <2>5. CASE GiveUpWindow(w)
    BY <1>a, <1>b, <1>f, <2>5
    DEF CreditInv, Committed, GiveUpWindow, Return, creditVars, closeVars,
        queueHist
  <2>6. CASE Enqueue(w)
    <3>1. Chunk(w)' = Chunk(w)
      BY <2>6 DEF Enqueue, Chunk
    <3>2. /\ enqueued + Chunk(w) <= acked + Window /\ sent = Low(enqueued)
          /\ orphans = <<>>
      BY <2>6 DEF CreditInv, Committed, Enqueue
    <3>3. /\ pc' = [pc EXCEPT ![w] = "done"]
          /\ enqueued' = enqueued + Chunk(w)
          /\ UNCHANGED <<sent, acked, orphans>>
      BY <2>6 DEF Enqueue, PutData, creditVars
    <3>4. Committed(w)' = 0
      BY <1>a, <1>b, <3>2, <3>3 DEF Committed
    <3>5. enqueued' - Chunk(w) = enqueued
      BY <1>b, <1>c, <3>3
    <3>6. sent' = Low(enqueued' - Chunk(w))
      BY <3>2, <3>3, <3>5
    <3>7. Low(enqueued' - Chunk(w)) = Low(enqueued - Chunk(w))'
      BY <3>1 DEF Low
    <3>. QED
      BY <1>a, <1>b, <1>c, <3>1, <3>2, <3>3, <3>4, <3>6, <3>7 DEF CreditInv
  <2>7. CASE SendTimeout(w)
    BY <1>a, <1>b, <1>f, <2>7
    DEF CreditInv, Committed, SendTimeout, Return, creditVars, closeVars,
        queueHist
  <2>8. CASE FinishChunk(w)
    <3>1. /\ Chunk(w) <= enqueued /\ sent = Low(enqueued - Chunk(w))
          /\ orphans = <<>>
      BY <2>8 DEF CreditInv, FinishChunk
    <3>2. sent' = Plus(Low(enqueued - Chunk(w)), Chunk(w))
      BY <2>8, <3>1 DEF FinishChunk
    <3>3. Low(enqueued - Chunk(w)) + Chunk(w) < 2 * Modulus
      BY <1>b, <1>c, <1>f, <3>1 DEF Low
    <3>4. Plus(Low(enqueued - Chunk(w)), Chunk(w)) = Low(enqueued)
      BY <1>b, <1>c, <1>f, <3>1 DEF Plus, Low
    <3>5. sent' = Low(enqueued)' /\ enqueued' = enqueued
      BY <2>8, <3>2, <3>4 DEF FinishChunk, queueHist, Low
    <3>. QED
      BY <1>a, <1>b, <1>f, <2>8, <3>1, <3>5
      DEF CreditInv, Committed, FinishChunk, creditVars, closeVars, queueHist
  <2>9. CASE ReturnEarly(w)
    <3>1. isClosed /\ isClosed' /\ pc'[w] = "idle" /\ orphans = <<>>
      BY <1>a, <1>b, <2>9
      DEF ReturnEarly, Return, SequentialUse, CreditInv, closeVars
    <3>2. orphans' = IF pc[w] = "queue" THEN <<Chunk(w)>> ELSE <<>>
      BY <2>9, <3>1 DEF ReturnEarly
    <3>3. Len(orphans') <= 1
      BY <3>2
    <3>4. Committed(w)' = Committed(w)
      BY <2>9, <3>1, <3>2 DEF Committed, ReturnEarly
    <3>. QED
      BY <2>9, <3>1, <3>3, <3>4
      DEF CreditInv, ReturnEarly, creditVars, queueHist
  <2>. QED
    BY <1>1, <2>1, <2>2, <2>3, <2>4, <2>5, <2>6, <2>7, <2>8, <2>9 DEF Write
<1>2. ASSUME NEW i \in DOMAIN orphans, Orphan(i) PROVE CreditInv(w)'
  <2>1. orphans # <<>> /\ i = 1 /\ Len(orphans) = 1
        /\ orphans[1] \in 0..MaxFrame
    BY <1>b, <1>d, LenProperties, EmptySeq
  <2>2. isClosed /\ pc[w] = "idle" /\ enqueued + orphans[1] <= acked + Window
    BY <2>1 DEF CreditInv, Committed
  <2>3. orphans' = RemoveAt(orphans, 1)
    BY <1>2, <2>1 DEF Orphan, EnqueueOrphan, OrphanTimeout
  <2>4. orphans' \in Seq(0..MaxFrame) /\ Len(orphans') = 0
    <3>1. 1 \in 1..Len(orphans)
      BY <2>1
    <3>2. /\ RemoveAt(orphans, 1) \in Seq(0..MaxFrame)
          /\ Len(RemoveAt(orphans, 1)) = Len(orphans) - 1
      BY <1>b, <3>1, RemoveAtType
    <3>. QED
      BY <2>1, <2>3, <3>2
  <2>5. orphans' = <<>>
    BY <2>4, EmptySeq
  <2>6. enqueued' \in Nat /\ enqueued' <= acked + Window
    BY <1>2, <1>b, <2>1, <2>2
    DEF Orphan, EnqueueOrphan, OrphanTimeout, PutData, queueHist
  <2>7. UNCHANGED <<pc, acked, isClosed>>
    BY <1>2 DEF Orphan, EnqueueOrphan, OrphanTimeout, creditVars, closeVars
  <2>. QED
    BY <1>b, <2>2, <2>5, <2>6, <2>7 DEF CreditInv, Committed
<1>3. ASSUME UNCHANGED <<pc, todo, sentSeen, orphans, sent, enqueued>>,
             acked' \in Nat, acked' >= acked, isClosed => isClosed'
      PROVE  CreditInv(w)'
  <2>1. Chunk(w)' = Chunk(w) /\ Committed(w)' = Committed(w)
    BY <1>3 DEF Chunk, Committed
  <2>. QED
    BY <1>b, <1>e, <1>3, <2>1 DEF CreditInv, Low
<1>4. CASE HandleAck
  <2>1. Head(ackPath) \in Acks
    BY <1>4, HeadTailProperties DEF TypeOK, HandleAck
  <2>2. acked' \in Nat /\ acked' >= acked
    BY <1>4, <1>b, <2>1 DEF HandleAck, Acks, creditVars
  <2>. QED
    BY <1>3, <1>4, <2>2 DEF HandleAck, writerVars, closeVars, queueHist
<1>5. CASE Close
  BY <1>3, <1>5, <1>b DEF Close, CloseStream, EnqueueClose, CloseTimeout,
     writerVars, creditVars, queueHist
<1>6. CASE Transmit \/ AcceptData \/ DropData \/ LateData \/ RemoteClose
  BY <1>3, <1>6, <1>b DEF Transmit, AcceptData, DropData, LateData,
     RemoteClose, writerVars, creditVars, closeVars, queueHist
<1>7. CASE Read
  BY <1>3, <1>7, <1>b DEF Read, StartRead, DrainRead, EndOfStream,
     FinishRead, ReadTimeout, unreadVars, writerVars, creditVars, closeVars,
     queueHist
<1>8. CASE UNCHANGED vars
  BY <1>3, <1>8, <1>b DEF vars, writerVars, creditVars, closeVars, queueHist
<1>. QED
  BY <1>1, <1>2, <1>4, <1>5, <1>6, <1>7, <1>8, <1>a DEF Next, Sessions

\* With one writer and sendFrame's timeout the shorter one, the bytes on the
\* way never exceed a window, whatever is lost, delayed or discarded.
THEOREM WindowIsRespected ==
  ASSUME NEW w, SequentialUse(w)
  PROVE  Spec => []WindowRespected
<1>1. TypeOK /\ AckInv /\ CreditInv(w) => WindowRespected
  <2>. SUFFICES ASSUME TypeOK, AckInv, CreditInv(w) PROVE WindowRespected
    OBVIOUS
  <2>1. Committed(w) >= 0 /\ Committed(w) \in Nat
    <3>1. w \in Writers
      BY DEF SequentialUse
    <3>2. Chunk(w) \in Nat
      BY <3>1, ChunkRange
    <3>3. orphans # <<>> => orphans[1] \in Nat
      BY ElementOfSeq, EmptySeq, FlowAssumption DEF TypeOK
    <3>. QED
      BY <3>2, <3>3 DEF Committed
  <2>2. /\ enqueued \in Nat /\ acked \in Nat /\ accepted \in Nat
        /\ Window \in Nat
    BY FlowAssumption DEF TypeOK
  <2>3. enqueued + Committed(w) <= acked + Window /\ acked <= accepted
    BY DEF CreditInv, AckInv
  <2>. QED
    BY <2>1, <2>2, <2>3 DEF WindowRespected
<1>2. Init => CreditInv(w)
  BY InitCredit
<1>3. TypeOK /\ TypeOK' /\ AckInv /\ PathInv /\ CreditInv(w) /\ [Next]_vars
        => CreditInv(w)'
  BY NextCredit
<1>. QED
  BY <1>1, <1>2, <1>3, TypeCorrect, InitAck, NextAck, InitPath, NextPath, PTL
  DEF Spec

\* Under the same use, a stream carries less than 2^32 bytes plus a window in
\* its whole life: ackedBytes cannot follow the counters past their wrap.
THEOREM LifetimeIsBounded ==
  ASSUME NEW w, SequentialUse(w)
  PROVE  Spec => []LifetimeBound
<1>1. TypeOK /\ CreditInv(w) => LifetimeBound
  <2>. SUFFICES ASSUME TypeOK, CreditInv(w) PROVE LifetimeBound
    OBVIOUS
  <2>1. w \in Writers
    BY DEF SequentialUse
  <2>2. Chunk(w) \in Nat
    BY <2>1, ChunkRange
  <2>3. orphans # <<>> => orphans[1] \in Nat
    BY ElementOfSeq, EmptySeq, FlowAssumption DEF TypeOK
  <2>4. Committed(w) \in Nat
    BY <2>2, <2>3 DEF Committed
  <2>. QED
    BY <2>4, FlowAssumption DEF TypeOK, CreditInv, LifetimeBound
<1>2. Init => CreditInv(w)
  BY InitCredit
<1>3. TypeOK /\ TypeOK' /\ AckInv /\ PathInv /\ CreditInv(w) /\ [Next]_vars
        => CreditInv(w)'
  BY NextCredit
<1>. QED
  BY <1>1, <1>2, <1>3, TypeCorrect, InitAck, NextAck, InitPath, NextPath, PTL
  DEF Spec
------------------------------------------------------------------------------
(* One direction of a stream is a lossless ordered pipe *)

\* The use under which a stream loses nothing: a reader that keeps up
\* (session.go:424-429), no Write that returns before its frame is queued,
\* and a slice that holds a whole frame.
Lossless ==
  /\ Env \cap {"slow_reader", "close_during_write", "write_timeout"} = {}
  /\ MaxFrame <= ReadSize

\* Everything between the sender's queue and the reader, oldest first.
Line == (recvCh \o wire) \o sendQ

\* The close frame has been queued and not yet been handled.
Told == Line # <<>> /\ Line[Len(Line)].kind = "close"

\* How many chunks are on the line: no frame follows the close frame.
Payloads == IF Told THEN Len(Line) - 1 ELSE Len(Line)

\* The first n frames of q are the chunks after the p-th and the bytes after
\* the b-th of the stream, up to chunk last and byte total.
Carries(q, n, p, b, last, total) ==
  /\ last = p + n
  /\ total = IF n = 0 THEN b ELSE q[n].end
  /\ b <= total
  /\ \A i \in 1..n :
       /\ q[i].kind = "data" /\ q[i].pos = p + i /\ q[i].size > 0
       /\ q[i].end = q[i].size + (IF i = 1 THEN b ELSE q[i - 1].end)
       /\ q[i].end <= total

WritersInv ==
  /\ orphans = <<>>
  /\ \A w \in Writers : pc[w] # "idle" => todo[w] > 0 /\ ~isClosed

ClosingInv ==
  /\ closer = "open" <=> ~isClosed
  /\ Told => closer = "closed"
  /\ remoteClosed => closer = "closed" /\ wire = <<>> /\ sendQ = <<>>
  /\ \A i \in 1..Len(recvCh) : recvCh[i].kind = "data"

LineInv == Carries(Line, Payloads, lastRead, readBytes, chunks, enqueued)

PipeInv == WritersInv /\ ClosingInv /\ LineInv

\* A frame put at the end of the last queue is at the end of the line.
LEMMA ConcatAppend ==
  ASSUME NEW S, NEW a \in Seq(S), NEW b \in Seq(S), NEW f \in S
  PROVE  a \o Append(b, f) = Append(a \o b, f)
<1>1. <<f>> \in Seq(S)
  OBVIOUS
<1>2. Append(b, f) = b \o <<f>> /\ a \o b \in Seq(S)
  BY AppendIsConcat, ConcatProperties
<1>3. Append(a \o b, f) = (a \o b) \o <<f>>
  BY <1>2, AppendIsConcat, Zenon
<1>4. (a \o b) \o <<f>> = a \o (b \o <<f>>)
  BY <1>1, ConcatAssociative
<1>. QED
  BY <1>2, <1>3, <1>4, Zenon

\* A frame handed from one queue to the next keeps its place in the line.
LEMMA ConcatHandOver ==
  ASSUME NEW S, NEW a \in Seq(S), NEW b \in Seq(S), b # <<>>
  PROVE  Append(a, Head(b)) \o Tail(b) = a \o b
<1>. DEFINE h == Head(b)
            t == Tail(b)
            r == Append(a, h)
<1>1. /\ h \in S /\ t \in Seq(S) /\ Len(t) = Len(b) - 1
      /\ \A i \in 1..Len(t) : t[i] = b[i + 1]
      /\ h = b[1] /\ Len(a) \in Nat /\ Len(b) \in Nat \ {0}
  BY HeadTailProperties, LenProperties, EmptySeq
<1>2. /\ r \in Seq(S) /\ Len(r) = Len(a) + 1 /\ r[Len(a) + 1] = h
      /\ \A i \in 1..Len(a) : r[i] = a[i]
  BY <1>1, AppendProperties
<1>. HIDE DEF h, t, r
<1>3. /\ r \o t \in Seq(S) /\ Len(r \o t) = Len(r) + Len(t)
      /\ \A i \in 1..Len(r) + Len(t) :
           (r \o t)[i] = IF i <= Len(r) THEN r[i] ELSE t[i - Len(r)]
  BY <1>1, <1>2, ConcatProperties, Zenon
<1>4. /\ a \o b \in Seq(S) /\ Len(a \o b) = Len(a) + Len(b)
      /\ \A i \in 1..Len(a) + Len(b) :
           (a \o b)[i] = IF i <= Len(a) THEN a[i] ELSE b[i - Len(a)]
  BY ConcatProperties, Zenon
<1>5. Len(r \o t) = Len(a \o b)
  BY <1>1, <1>2, <1>3, <1>4
<1>6. ASSUME NEW i \in 1..Len(r \o t) PROVE (r \o t)[i] = (a \o b)[i]
  <2>0. i \in Nat /\ 1 <= i /\ i <= Len(a) + Len(b)
        /\ i \in 1..Len(r) + Len(t) /\ i \in 1..Len(a) + Len(b)
    BY <1>1, <1>2, <1>3, <1>4, <1>5
  <2>1. CASE i <= Len(a)
    <3>1. i <= Len(r) /\ i \in 1..Len(a)
      BY <1>1, <1>2, <2>0, <2>1
    <3>. QED
      BY <1>2, <1>3, <1>4, <2>0, <2>1, <3>1
  <2>2. CASE i = Len(a) + 1
    <3>1. i <= Len(r) /\ ~(i <= Len(a)) /\ i - Len(a) = 1
      BY <1>1, <1>2, <2>0, <2>2
    <3>2. (r \o t)[i] = r[i] /\ (a \o b)[i] = b[1]
      BY <1>3, <1>4, <2>0, <3>1
    <3>. QED
      BY <1>1, <1>2, <2>2, <3>2
  <2>3. CASE i > Len(a) + 1
    <3>1. ~(i <= Len(r)) /\ ~(i <= Len(a)) /\ i - Len(r) \in 1..Len(t)
          /\ (i - Len(r)) + 1 = i - Len(a)
      BY <1>1, <1>2, <2>0, <2>3
    <3>2. (r \o t)[i] = t[i - Len(r)] /\ (a \o b)[i] = b[i - Len(a)]
      BY <1>3, <1>4, <2>0, <3>1
    <3>3. t[i - Len(r)] = b[(i - Len(r)) + 1]
      BY <1>1, <3>1, Zenon
    <3>. QED
      BY <3>1, <3>2, <3>3
  <2>4. i <= Len(a) \/ i = Len(a) + 1 \/ i > Len(a) + 1
    <3>1. Len(a) \in Nat /\ i \in Nat
      BY <1>1, <2>0
    <3>. QED
      BY <3>1
  <2>. QED
    BY <2>1, <2>2, <2>3, <2>4
<1>7. r \o t = a \o b
  BY <1>3, <1>4, <1>5, <1>6, SeqEqual, Zenon
<1>. QED
  BY <1>7 DEF r, h, t

\* A frame the reader takes is the oldest one of the line.
LEMMA ConcatTail ==
  ASSUME NEW S, NEW a \in Seq(S), NEW b \in Seq(S), a # <<>>
  PROVE  /\ Tail(a) \o b = Tail(a \o b)
         /\ a \o b # <<>>
         /\ Head(a \o b) = Head(a)
<1>. DEFINE t == Tail(a)
            c == a \o b
<1>1. /\ t \in Seq(S) /\ Len(t) = Len(a) - 1
      /\ \A i \in 1..Len(t) : t[i] = a[i + 1]
      /\ Len(a) \in Nat \ {0} /\ Len(b) \in Nat /\ Head(a) = a[1]
  BY HeadTailProperties, LenProperties, EmptySeq
<1>2. /\ c \in Seq(S) /\ Len(c) = Len(a) + Len(b)
      /\ \A i \in 1..Len(a) + Len(b) :
           c[i] = IF i <= Len(a) THEN a[i] ELSE b[i - Len(a)]
  BY ConcatProperties
<1>3. c # <<>>
  BY <1>1, <1>2, EmptySeq
<1>4. /\ Tail(c) \in Seq(S) /\ Len(Tail(c)) = Len(c) - 1
      /\ \A i \in 1..Len(Tail(c)) : Tail(c)[i] = c[i + 1]
      /\ Head(c) = c[1]
  BY <1>2, <1>3, HeadTailProperties
<1>. HIDE DEF t, c
<1>5. /\ t \o b \in Seq(S) /\ Len(t \o b) = Len(t) + Len(b)
      /\ \A i \in 1..Len(t) + Len(b) :
           (t \o b)[i] = IF i <= Len(t) THEN t[i] ELSE b[i - Len(t)]
  BY <1>1, ConcatProperties, Zenon
<1>6. Len(t \o b) = Len(Tail(c))
  BY <1>1, <1>2, <1>4, <1>5
<1>7. ASSUME NEW i \in 1..Len(t \o b) PROVE (t \o b)[i] = Tail(c)[i]
  <2>0. /\ i \in Nat /\ i \in 1..Len(t) + Len(b)
        /\ i \in 1..Len(Tail(c)) /\ i + 1 \in 1..Len(a) + Len(b)
    <3>1. /\ Len(t) = Len(a) - 1 /\ Len(a) \in Nat \ {0} /\ Len(b) \in Nat
          /\ Len(t \o b) = Len(t) + Len(b) /\ Len(Tail(c)) = Len(t \o b)
      BY <1>1, <1>5, <1>6
    <3>2. i \in 1..Len(t) + Len(b) /\ i \in 1..Len(Tail(c))
      BY <1>7, <3>1, Zenon
    <3>3. i \in Nat /\ i + 1 \in 1..Len(a) + Len(b)
      BY <3>1, <3>2
    <3>. QED
      BY <3>2, <3>3
  <2>1. Tail(c)[i] = c[i + 1]
    BY <1>4, <2>0
  <2>2. CASE i <= Len(t)
    <3>1. i + 1 <= Len(a) /\ i \in 1..Len(t)
      BY <1>1, <2>0, <2>2
    <3>. QED
      BY <1>1, <1>2, <1>5, <2>0, <2>1, <2>2, <3>1
  <2>3. CASE ~(i <= Len(t))
    <3>1. ~(i + 1 <= Len(a)) /\ (i + 1) - Len(a) = i - Len(t)
      BY <1>1, <2>0, <2>3
    <3>2. c[i + 1] = b[(i + 1) - Len(a)]
      BY <1>2, <2>0, <3>1
    <3>. QED
      BY <1>5, <2>0, <2>1, <2>3, <3>1, <3>2
  <2>. QED
    BY <2>2, <2>3
<1>8. t \o b = Tail(c)
  BY <1>4, <1>5, <1>6, <1>7, SeqEqual, Zenon
<1>9. Head(c) = Head(a)
  BY <1>1, <1>2, <1>4
<1>. QED
  BY <1>3, <1>8, <1>9 DEF t, c

\* What a put adds to the line.
LEMMA CarriesAppend ==
  ASSUME NEW q \in Seq(Frames), NEW p \in Nat, NEW b \in Nat,
         NEW last \in Nat, NEW total \in Nat, NEW f \in Frames,
         Carries(q, Len(q), p, b, last, total),
         f.kind = "data", f.pos = last + 1, f.size > 0,
         f.end = total + f.size
  PROVE  Carries(Append(q, f), Len(q) + 1, p, b, last + 1, total + f.size)
<1>. DEFINE r == Append(q, f)
            n == Len(q)
<1>1. /\ n \in Nat /\ r[n + 1] = f /\ f.size \in Nat /\ f.end \in Nat
      /\ \A i \in 1..n : r[i] = q[i] /\ q[i] \in Frames
                         /\ q[i].size \in Nat /\ q[i].end \in Nat
  BY AppendProperties, LenProperties, ElementOfSeq, FrameFields
<1>. HIDE DEF r, n
<1>2. last + 1 = p + (n + 1) /\ total + f.size = r[n + 1].end
      /\ b <= total + f.size /\ total <= total + f.size
  BY <1>1 DEF Carries, n
<1>3. ASSUME NEW i \in 1..(n + 1)
      PROVE  /\ r[i].kind = "data" /\ r[i].pos = p + i /\ r[i].size > 0
             /\ r[i].end = r[i].size + (IF i = 1 THEN b ELSE r[i - 1].end)
             /\ r[i].end <= total + f.size
  <2>1. CASE i \in 1..n
    <3>1. i # 1 => i - 1 \in 1..n
      BY <1>1, <2>1
    <3>2. i # 1 => r[i - 1] = q[i - 1]
      BY <1>1, <3>1
    <3>3. /\ q[i].kind = "data" /\ q[i].pos = p + i /\ q[i].size > 0
          /\ q[i].end = q[i].size + (IF i = 1 THEN b ELSE q[i - 1].end)
          /\ q[i].end <= total
      BY <2>1 DEF Carries, n
    <3>4. r[i] = q[i] /\ q[i].end \in Nat
      BY <1>1, <2>1
    <3>5. q[i].end <= total + f.size
      BY <1>1, <3>3, <3>4
    <3>6. (IF i = 1 THEN b ELSE r[i - 1].end)
            = (IF i = 1 THEN b ELSE q[i - 1].end)
      BY <3>2
    <3>. QED
      BY <3>3, <3>4, <3>5, <3>6
  <2>2. CASE i = n + 1
    <3>1. total = IF n = 0 THEN b ELSE q[n].end
      BY DEF Carries, n
    <3>2. i # 1 => n # 0 /\ i - 1 = n /\ r[i - 1] = q[n]
      BY <1>1, <2>2
    <3>3. total = IF i = 1 THEN b ELSE r[i - 1].end
      BY <1>1, <2>2, <3>1, <3>2
    <3>4. r[i] = f /\ p + i = last + 1
      BY <1>1, <1>2, <2>2
    <3>5. f.end = f.size + total /\ f.end <= total + f.size
      BY <1>1
    <3>. QED
      BY <3>3, <3>4, <3>5
  <2>. QED
    BY <1>1, <2>1, <2>2
<1>4. n + 1 # 0
  BY <1>1
<1>5. Carries(r, n + 1, p, b, last + 1, total + f.size)
  BY <1>2, <1>3, <1>4 DEF Carries
<1>. QED
  BY <1>5 DEF r, n

\* What the reader takes from the line: the next chunk, whole.
LEMMA CarriesTail ==
  ASSUME NEW q \in Seq(Frames), q # <<>>, NEW n \in 1..Len(q),
         NEW p \in Nat, NEW b \in Nat, NEW last \in Nat, NEW total \in Nat,
         Carries(q, n, p, b, last, total)
  PROVE  /\ Head(q).pos = p + 1 /\ Head(q).size > 0
         /\ p < last /\ b + Head(q).size <= total
         /\ Carries(Tail(q), n - 1, p + 1, b + Head(q).size, last, total)
<1>. DEFINE t == Tail(q)
            h == Head(q)
            c == b + h.size
<1>1. /\ h = q[1] /\ h \in Frames /\ Len(q) \in Nat \ {0}
      /\ \A i \in 1..(Len(q) - 1) : t[i] = q[i + 1]
      /\ \A i \in 1..n : q[i] \in Frames /\ q[i].size \in Nat
                         /\ q[i].end \in Nat
  <2>1. Len(q) \in Nat \ {0}
    BY LenProperties, EmptySeq
  <2>2. \A i \in 1..n : i \in 1..Len(q)
    BY <2>1
  <2>. QED
    BY <2>1, <2>2, HeadTailProperties, ElementOfSeq, FrameFields
<1>2. /\ h.pos = p + 1 /\ h.size > 0 /\ h.end = b + h.size /\ h.end <= total
      /\ h.size \in Nat /\ h.end = c
  BY <1>1 DEF Carries
<1>3. p < last /\ last = (p + 1) + (n - 1)
  BY <1>1 DEF Carries
<1>4. ASSUME NEW i \in 1..(n - 1)
      PROVE  /\ t[i].kind = "data" /\ t[i].pos = (p + 1) + i /\ t[i].size > 0
             /\ t[i].end = t[i].size + (IF i = 1 THEN c ELSE t[i - 1].end)
             /\ t[i].end <= total
  <2>1. i + 1 \in 1..n /\ i \in 1..(Len(q) - 1) /\ i + 1 # 1
        /\ (i + 1) - 1 = i /\ p + (i + 1) = (p + 1) + i
    BY <1>1
  <2>2. t[i] = q[i + 1]
    BY <1>1, <2>1
  <2>3. /\ q[i + 1].kind = "data" /\ q[i + 1].pos = p + (i + 1)
        /\ q[i + 1].size > 0
        /\ q[i + 1].end = q[i + 1].size + q[i].end
        /\ q[i + 1].end <= total
    BY <2>1 DEF Carries
  <2>4. CASE i = 1
    BY <1>1, <1>2, <2>1, <2>2, <2>3, <2>4
  <2>5. CASE i # 1
    <3>1. i - 1 \in 1..(Len(q) - 1) /\ (i - 1) + 1 = i
      BY <2>1, <2>5
    <3>2. t[i - 1] = q[i]
      BY <1>1, <3>1
    <3>. QED
      BY <2>1, <2>2, <2>3, <2>5, <3>2
  <2>. QED
    BY <2>4, <2>5
<1>5. total = IF n - 1 = 0 THEN c ELSE t[n - 1].end
  <2>1. total = q[n].end
    BY DEF Carries
  <2>2. CASE n = 1
    BY <1>1, <1>2, <2>1, <2>2
  <2>3. CASE n # 1
    <3>1. n - 1 \in 1..(Len(q) - 1) /\ (n - 1) + 1 = n /\ n - 1 # 0
      BY <1>1, <2>3
    <3>2. t[n - 1] = q[n]
      BY <1>1, <3>1
    <3>. QED
      BY <2>1, <3>1, <3>2
  <2>. QED
    BY <2>2, <2>3
<1>6. c <= total
  BY <1>2
<1>. HIDE DEF t, c
<1>7. Carries(t, n - 1, p + 1, c, last, total)
  BY <1>3, <1>4, <1>5, <1>6 DEF Carries
<1>. QED
  BY <1>2, <1>3, <1>6, <1>7 DEF t, c

\* A step of the pipe, or none.
PipeStep == [Pipe!PipeNext]_(Pipe!pipeVars)

\* What the pipe does not show is a stutter.
LEMMA HiddenStep ==
  ASSUME UNCHANGED <<chunks, enqueued, lastRead, readBytes, isClosed, eof>>
  PROVE  PipeStep
BY DEF PipeStep, Pipe!pipeVars

\* The line is a sequence of frames.
LEMMA LineType ==
  ASSUME TypeOK
  PROVE  /\ recvCh \in Seq(Frames) /\ wire \in Seq(Frames)
         /\ sendQ \in Seq(Frames) /\ recvCh \o wire \in Seq(Frames)
         /\ Line \in Seq(Frames) /\ Len(Line) \in Nat
         /\ Payloads \in 0..Len(Line)
<1>1. recvCh \in Seq(Frames) /\ wire \in Seq(Frames) /\ sendQ \in Seq(Frames)
  BY DEF TypeOK
<1>2. recvCh \o wire \in Seq(Frames)
  BY <1>1, ConcatProperties
<1>3. Line \in Seq(Frames)
  BY <1>1, <1>2, ConcatProperties DEF Line
<1>4. Len(Line) \in Nat /\ (Line # <<>> => Len(Line) # 0)
  BY <1>3, LenProperties, EmptySeq
<1>5. Payloads \in 0..Len(Line)
  BY <1>4 DEF Payloads, Told
<1>. QED
  BY <1>1, <1>2, <1>3, <1>4, <1>5

\* Nothing happens to the line when its frames only change queues.
LEMMA SameLine ==
  ASSUME LineInv, Line' = Line,
         UNCHANGED <<lastRead, readBytes, chunks, enqueued>>
  PROVE  LineInv' /\ (Told' <=> Told)
<1>1. Told' <=> Told
  BY DEF Told
<1>2. Payloads' = Payloads
  BY <1>1 DEF Payloads
<1>. QED
  BY <1>1, <1>2 DEF LineInv, Carries

\* A data frame is queued (session.go:202-203): the line grows by one chunk.
LEMMA PutLine ==
  ASSUME TypeOK, LineInv, ~Told, NEW n \in 1..MaxFrame, PutData(n),
         UNCHANGED <<recvCh, wire, lastRead, readBytes>>
  PROVE  LineInv' /\ ~Told'
<1>. DEFINE f == DataFrame(n)
            q == Line
<1>1. /\ n \in 0..MaxFrame /\ f \in Frames /\ f.kind = "data"
      /\ f.pos = chunks + 1 /\ f.size = n /\ f.size > 0
      /\ f.end = enqueued + f.size
  <2>1. n \in 0..MaxFrame /\ n > 0
    BY FlowAssumption
  <2>. QED
    BY <2>1, DataFrameType DEF DataFrame
<1>2. /\ sendQ' = Append(sendQ, f) /\ chunks' = chunks + 1
      /\ enqueued' = enqueued + f.size
  BY <1>1 DEF PutData, PutFrame
<1>3. /\ chunks \in Nat /\ enqueued \in Nat /\ lastRead \in Nat
      /\ readBytes \in Nat
  BY DEF TypeOK
<1>4. Line' = Append(Line, f)
  <2>1. Line' = (recvCh \o wire) \o Append(sendQ, f)
    BY <1>2 DEF Line
  <2>2. (recvCh \o wire) \o Append(sendQ, f) = Append((recvCh \o wire) \o sendQ, f)
    BY <1>1, LineType, ConcatAppend
  <2>. QED
    BY <2>1, <2>2 DEF Line
<1>. HIDE DEF f
<1>5. /\ Line \in Seq(Frames) /\ Len(Line) \in Nat
      /\ Len(Append(Line, f)) = Len(Line) + 1
      /\ Append(Line, f)[Len(Line) + 1] = f
      /\ Append(Line, f) # <<>>
  BY <1>1, LineType, AppendProperties
<1>6. ~Told'
  <2>1. Line'[Len(Line')] = f
    BY <1>4, <1>5
  <2>2. f.kind # "close"
    BY <1>1
  <2>. QED
    BY <2>1, <2>2 DEF Told
<1>7. Payloads = Len(Line) /\ Payloads' = Len(Line) + 1
  BY <1>4, <1>5, <1>6 DEF Payloads
<1>8. Carries(Line, Len(Line), lastRead, readBytes, chunks, enqueued)
  BY <1>7 DEF LineInv
<1>9. Carries(Append(Line, f), Len(Line) + 1, lastRead, readBytes,
              chunks + 1, enqueued + f.size)
  BY <1>1, <1>3, <1>5, <1>8, CarriesAppend
<1>10. Carries(Line', Payloads', lastRead', readBytes', chunks', enqueued')
  BY <1>2, <1>4, <1>7, <1>9
<1>. QED
  BY <1>6, <1>10 DEF LineInv

\* The reader takes the oldest payload (stream.go:163-180): the next chunk.
LEMMA TakeLine ==
  ASSUME Lossless, TypeOK, PipeInv, TakeChunk,
         UNCHANGED <<wire, sendQ, chunks, enqueued>>
  PROVE  /\ LineInv' /\ (Told' <=> Told)
         /\ lastRead < chunks /\ lastRead' = lastRead + 1
         /\ readBytes' > readBytes /\ readBytes' <= enqueued
<1>. DEFINE h == Head(recvCh)
            q == Line
<1>1. /\ recvCh # <<>> /\ recvCh' = Tail(recvCh) /\ lastRead' = h.pos
      /\ readBytes' = readBytes + MinOf(h.size, ReadSize)
  BY DEF TakeChunk
<1>2. /\ Tail(recvCh) \o wire = Tail(recvCh \o wire)
      /\ recvCh \o wire # <<>>
      /\ Head(recvCh \o wire) = h
  BY <1>1, LineType, ConcatTail
<1>3. /\ Tail(recvCh \o wire) \o sendQ = Tail(q)
      /\ q # <<>> /\ Head(q) = h
  BY <1>2, LineType, ConcatTail DEF Line
<1>4. Line' = Tail(Line)
  BY <1>1, <1>2, <1>3 DEF Line
<1>5. /\ h.kind = "data" /\ h \in Frames /\ h = recvCh[1]
  <2>1. 1 \in 1..Len(recvCh) /\ h = recvCh[1] /\ h \in Frames
    BY <1>1, LineType, HeadTailProperties, EmptySeq
  <2>. QED
    BY <2>1 DEF PipeInv, ClosingInv
<1>6. /\ q \in Seq(Frames) /\ Len(q) \in Nat \ {0} /\ q[1] = h
      /\ Tail(q) \in Seq(Frames) /\ Len(Tail(q)) = Len(q) - 1
      /\ \A i \in 1..Len(Tail(q)) : Tail(q)[i] = q[i + 1]
  BY <1>3, LineType, HeadTailProperties, EmptySeq
<1>. HIDE DEF q, h
<1>a. q = Line
  BY DEF q
<1>7. Told => Len(q) > 1
  <2>1. Told /\ Len(q) = 1 => h.kind = "close"
    BY <1>6, <1>a DEF Told
  <2>. QED
    BY <1>5, <1>6, <2>1
<1>8. Payloads \in 1..Len(q)
  BY <1>6, <1>7, <1>a DEF Payloads
<1>9. Told' <=> Told
  <2>1. CASE Len(q) = 1
    <3>1. Line' = <<>>
      BY <1>4, <1>6, <1>a, <2>1, EmptySeq
    <3>. QED
      BY <1>7, <2>1, <3>1 DEF Told
  <2>2. CASE Len(q) # 1
    <3>1. /\ Len(Tail(q)) \in 1..Len(Tail(q)) /\ Len(Tail(q)) + 1 = Len(q)
          /\ Len(Tail(q)) # 0
      BY <1>6, <2>2
    <3>2. Tail(q)[Len(Tail(q))] = q[Len(Tail(q)) + 1]
      BY <1>6, <3>1, Zenon
    <3>3. Tail(q) # <<>>
      <4>1. Len(<<>>) = 0
        OBVIOUS
      <4>2. Tail(q) = <<>> => Len(Tail(q)) = 0
        BY <4>1, Zenon
      <4>3. Len(Tail(q)) # 0
        BY <3>1
      <4>. QED
        BY <4>2, <4>3, Zenon
    <3>4. Tail(q)[Len(Tail(q))] = q[Len(q)]
      BY <3>1, <3>2
    <3>. QED
      BY <1>3, <1>4, <1>a, <3>3, <3>4 DEF Told
  <2>. QED
    BY <2>1, <2>2
<1>10. Payloads' = Payloads - 1
  BY <1>4, <1>6, <1>9, <1>a DEF Payloads
<1>11. /\ lastRead \in Nat /\ readBytes \in Nat /\ chunks \in Nat
       /\ enqueued \in Nat
  BY DEF TypeOK
<1>12. Carries(q, Payloads, lastRead, readBytes, chunks, enqueued)
  BY <1>a DEF PipeInv, LineInv
<1>13. /\ h.pos = lastRead + 1 /\ h.size > 0 /\ lastRead < chunks
       /\ readBytes + h.size <= enqueued
       /\ Carries(Tail(q), Payloads - 1, lastRead + 1, readBytes + h.size,
                  chunks, enqueued)
  BY <1>3, <1>6, <1>8, <1>11, <1>12, CarriesTail
<1>14. h.size \in Nat /\ MinOf(h.size, ReadSize) = h.size
  <2>1. h.size \in 0..MaxFrame
    BY <1>5 DEF Frames
  <2>. QED
    BY <2>1, FlowAssumption DEF Lossless, MinOf
<1>15. lastRead' = lastRead + 1 /\ readBytes' = readBytes + h.size
  BY <1>1, <1>13, <1>14
<1>16. LineInv'
  <2>1. Carries(Line', Payloads', lastRead', readBytes', chunks', enqueued')
    BY <1>4, <1>10, <1>13, <1>15, <1>a
  <2>. QED
    BY <2>1 DEF LineInv
<1>. QED
  BY <1>9, <1>11, <1>13, <1>14, <1>15, <1>16

\* The close frame is handled (session.go:493-502): it was the last frame, so
\* what the reader has not taken yet is all in recvCh.
LEMMA CloseLine ==
  ASSUME TypeOK, PipeInv, RemoteClose
  PROVE  /\ LineInv' /\ ~Told' /\ closer = "closed"
         /\ wire' = <<>> /\ sendQ = <<>>
<1>. DEFINE a == recvCh \o wire
            m == Len(recvCh) + 1
<1>1. /\ wire # <<>> /\ Head(wire).kind = "close" /\ wire' = Tail(wire)
      /\ UNCHANGED <<recvCh, sendQ, lastRead, readBytes, chunks, enqueued>>
  BY DEF RemoteClose, readVars, queueHist
<1>2. /\ recvCh \in Seq(Frames) /\ wire \in Seq(Frames)
      /\ sendQ \in Seq(Frames) /\ a \in Seq(Frames)
      /\ Line \in Seq(Frames) /\ Payloads \in 0..Len(Line)
  BY LineType
<1>3. /\ Len(recvCh) \in Nat /\ Len(wire) \in Nat \ {0} /\ Len(sendQ) \in Nat
      /\ Head(wire) = wire[1]
  BY <1>1, <1>2, LenProperties, EmptySeq
<1>4. /\ Len(a) = Len(recvCh) + Len(wire)
      /\ \A i \in 1..Len(recvCh) + Len(wire) :
           a[i] = IF i <= Len(recvCh) THEN recvCh[i] ELSE wire[i - Len(recvCh)]
  BY <1>2, ConcatProperties
<1>. HIDE DEF a
<1>5. /\ Len(Line) = Len(a) + Len(sendQ)
      /\ \A i \in 1..Len(a) + Len(sendQ) :
           Line[i] = IF i <= Len(a) THEN a[i] ELSE sendQ[i - Len(a)]
  <2>1. Line = a \o sendQ
    BY DEF Line, a
  <2>. QED
    BY <1>2, <2>1, ConcatProperties
<1>6. /\ m \in 1..Len(recvCh) + Len(wire) /\ ~(m <= Len(recvCh))
      /\ m - Len(recvCh) = 1 /\ m \in 1..Len(a) + Len(sendQ) /\ m <= Len(a)
  BY <1>3, <1>4
<1>7. Line[m].kind = "close"
  <2>1. a[m] = wire[1] /\ Line[m] = a[m]
    BY <1>4, <1>5, <1>6
  <2>. QED
    BY <1>1, <1>3, <2>1
<1>8. Carries(Line, Payloads, lastRead, readBytes, chunks, enqueued)
  BY DEF PipeInv, LineInv
<1>9. ~(m \in 1..Payloads)
  BY <1>7, <1>8 DEF Carries
<1>10. m > Payloads /\ m <= Len(Line)
  BY <1>2, <1>3, <1>4, <1>5, <1>6, <1>9
<1>11. Told /\ Payloads = Len(Line) - 1 /\ m = Len(Line)
  BY <1>2, <1>3, <1>4, <1>5, <1>10 DEF Payloads
<1>12. Len(wire) = 1 /\ Len(sendQ) = 0 /\ Payloads = Len(recvCh)
  <2>1. Len(Line) = (Len(recvCh) + Len(wire)) + Len(sendQ)
    BY <1>4, <1>5
  <2>2. Len(Line) = Len(recvCh) + 1 /\ Payloads = Len(Line) - 1
    BY <1>11
  <2>3. ASSUME NEW x \in Nat, NEW y \in Nat \ {0}, NEW z \in Nat,
               (x + y) + z = x + 1
        PROVE  y = 1 /\ z = 0
    BY <2>3
  <2>4. Len(wire) = 1 /\ Len(sendQ) = 0
    BY <1>3, <2>1, <2>2, <2>3, Zenon
  <2>5. ASSUME NEW x \in Nat, NEW y, y = x + 1 PROVE y - 1 = x
    BY <2>5
  <2>. QED
    BY <1>3, <2>2, <2>4, <2>5, Zenon
<1>13. sendQ = <<>> /\ wire' = <<>>
  <2>1. Tail(wire) \in Seq(Frames) /\ Len(Tail(wire)) = 0
    BY <1>1, <1>2, <1>12, HeadTailProperties
  <2>. QED
    BY <1>1, <1>2, <1>12, <2>1, EmptySeq
<1>14. Line' = recvCh
  BY <1>1, <1>2, <1>13, ConcatEmptySeq DEF Line
<1>15. \A i \in 1..Len(recvCh) : recvCh[i].kind = "data"
  BY DEF PipeInv, ClosingInv
<1>16. ~Told'
  <2>1. recvCh # <<>> => Len(recvCh) \in 1..Len(recvCh)
    BY <1>2, EmptySeq
  <2>. QED
    BY <1>14, <1>15, <2>1 DEF Told
<1>17. Payloads' = Len(recvCh)
  BY <1>14, <1>16 DEF Payloads
<1>18. \A i \in 1..Len(recvCh) : Line[i] = recvCh[i]
  <2>. SUFFICES ASSUME NEW i \in 1..Len(recvCh) PROVE Line[i] = recvCh[i]
    OBVIOUS
  <2>1. /\ i \in 1..Len(recvCh) + Len(wire) /\ i <= Len(recvCh)
        /\ i \in 1..Len(a) + Len(sendQ) /\ i <= Len(a)
    BY <1>3, <1>4
  <2>. QED
    BY <1>4, <1>5, <2>1
<1>19. Carries(recvCh, Len(recvCh), lastRead, readBytes, chunks, enqueued)
  <2>1. Carries(Line, Len(recvCh), lastRead, readBytes, chunks, enqueued)
    BY <1>8, <1>12
  <2>2. \A i \in 1..Len(recvCh) : i # 1 => i - 1 \in 1..Len(recvCh)
    BY <1>3
  <2>3. Len(recvCh) # 0 => Len(recvCh) \in 1..Len(recvCh)
    BY <1>3
  <2>. QED
    BY <1>18, <2>1, <2>2, <2>3 DEF Carries
<1>20. LineInv'
  BY <1>1, <1>14, <1>17, <1>19 DEF LineInv
<1>21. closer = "closed"
  BY <1>11 DEF PipeInv, ClosingInv
<1>. QED
  BY <1>13, <1>16, <1>20, <1>21

\* The close frame is queued (stream.go:197-200) behind every chunk.
LEMMA QueueCloseLine ==
  ASSUME TypeOK, LineInv, ~Told, PutFrame(CloseFrame),
         UNCHANGED <<recvCh, wire, lastRead, readBytes, chunks, enqueued>>
  PROVE  LineInv' /\ Told'
<1>. DEFINE f == CloseFrame
<1>1. f \in Frames /\ f.kind = "close"
  BY FlowAssumption DEF CloseFrame, Frames, TypeOK
<1>2. Line' = Append(Line, f)
  <2>1. Line' = (recvCh \o wire) \o Append(sendQ, f)
    BY DEF Line, PutFrame
  <2>2. (recvCh \o wire) \o Append(sendQ, f) = Append((recvCh \o wire) \o sendQ, f)
    BY <1>1, LineType, ConcatAppend
  <2>. QED
    BY <2>1, <2>2 DEF Line
<1>. HIDE DEF f
<1>3. /\ Line \in Seq(Frames) /\ Len(Line) \in Nat
      /\ Len(Append(Line, f)) = Len(Line) + 1
      /\ Append(Line, f)[Len(Line) + 1] = f
      /\ Append(Line, f) # <<>>
      /\ \A i \in 1..Len(Line) : Append(Line, f)[i] = Line[i]
  BY <1>1, LineType, AppendProperties
<1>4. Told'
  <2>1. Line'[Len(Line')] = f /\ Line' # <<>>
    BY <1>2, <1>3
  <2>. QED
    BY <1>1, <2>1 DEF Told
<1>5. Payloads = Len(Line) /\ Payloads' = Len(Line)
  BY <1>2, <1>3, <1>4 DEF Payloads
<1>6. Carries(Line, Len(Line), lastRead, readBytes, chunks, enqueued)
  BY <1>5 DEF LineInv
<1>7. Carries(Append(Line, f), Len(Line), lastRead, readBytes, chunks, enqueued)
  <2>1. \A i \in 1..Len(Line) : i # 1 => i - 1 \in 1..Len(Line)
    BY <1>3
  <2>2. Len(Line) # 0 => Len(Line) \in 1..Len(Line)
    BY <1>3
  <2>. QED
    BY <1>3, <1>6, <2>1, <2>2 DEF Carries
<1>8. LineInv'
  BY <1>2, <1>5, <1>7 DEF LineInv
<1>. QED
  BY <1>4, <1>8

------------------------------------------------------------------------------
(* Every step keeps PipeInv and is a step of the pipe *)

\* A new stream is an empty pipe.
LEMMA InitPipe == Init => PipeInv /\ Pipe!PipeInit
<1>. SUFFICES ASSUME Init PROVE PipeInv /\ Pipe!PipeInit
  OBVIOUS
<1>1. /\ orphans = <<>> /\ ~isClosed /\ closer = "open" /\ ~remoteClosed
      /\ recvCh = <<>> /\ wire = <<>> /\ sendQ = <<>>
      /\ lastRead = 0 /\ readBytes = 0 /\ chunks = 0 /\ enqueued = 0
      /\ \A w \in Writers : pc[w] = "idle"
  BY DEF Init
<1>2. Line = <<>>
  <2>1. <<>> \in Seq(Frames)
    OBVIOUS
  <2>. QED
    BY <1>1, <2>1, ConcatEmptySeq DEF Line
<1>3. ~Told /\ Payloads = 0
  BY <1>2 DEF Told, Payloads
<1>4. LineInv
  BY <1>1, <1>3 DEF LineInv, Carries
<1>5. WritersInv /\ ClosingInv
  BY <1>1, <1>3 DEF WritersInv, ClosingInv
<1>6. Pipe!PipeInit
  BY DEF Init, Pipe!PipeInit
<1>. QED
  BY <1>4, <1>5, <1>6 DEF PipeInv

\* The steps that only move frames or move none show nothing of the pipe.
LEMMA HiddenPipe ==
  ASSUME PipeInv, WritersInv', ClosingInv', Line' = Line,
         UNCHANGED <<lastRead, readBytes, chunks, enqueued, isClosed, eof>>
  PROVE  PipeInv' /\ PipeStep
<1>1. LineInv'
  BY SameLine DEF PipeInv
<1>2. PipeStep
  BY HiddenStep
<1>. QED
  BY <1>1, <1>2 DEF PipeInv

\* Stream.Write (stream.go:32-121): a chunk is put by the frame's queueing,
\* and by nothing else.
LEMMA WritePipe ==
  ASSUME Lossless, TypeOK, PipeInv, NEW w \in Writers, Write(w)
  PROVE  PipeInv' /\ PipeStep
<1>1. /\ orphans = <<>>
      /\ \A v \in Writers : pc[v] # "idle" => todo[v] > 0 /\ ~isClosed
      /\ closer = "open" <=> ~isClosed
      /\ Told => closer = "closed"
  BY DEF PipeInv, WritersInv, ClosingInv
<1>2. ASSUME UNCHANGED <<recvCh, wire, sendQ, remoteClosed, closeVars,
                         readVars, queueHist>>,
             WritersInv'
      PROVE  PipeInv' /\ PipeStep
  <2>1. Line' = Line
    BY <1>2 DEF Line
  <2>2. Told' <=> Told
    BY <2>1 DEF Told
  <2>3. ClosingInv'
    BY <1>2, <2>2 DEF PipeInv, ClosingInv, closeVars
  <2>. QED
    BY <1>2, <2>1, <2>3, HiddenPipe DEF closeVars, readVars, queueHist
<1>3. ASSUME NEW n \in 1..MaxWrite, StartWrite(w, n)
      PROVE  PipeInv' /\ PipeStep
  <2>1. n > 0 /\ todo' = [todo EXCEPT ![w] = n] /\ ~isClosed /\ ~isClosed'
        /\ orphans' = orphans /\ pc' = [pc EXCEPT ![w] = "load"]
    BY <1>3, FlowAssumption DEF StartWrite, closeVars
  <2>2. WritersInv'
    BY <1>1, <2>1 DEF WritersInv, TypeOK
  <2>. QED
    BY <1>2, <1>3, <2>2 DEF StartWrite, recvVars
<1>4. CASE LoadSent(w) \/ PassWindow(w) \/ RetryWindow(w)
  <2>1. /\ pc[w] # "idle" /\ todo' = todo /\ orphans' = orphans
        /\ isClosed' = isClosed
        /\ \A v \in Writers : v # w => pc'[v] = pc[v]
    BY <1>4 DEF LoadSent, PassWindow, RetryWindow, closeVars, TypeOK
  <2>2. WritersInv'
    BY <1>1, <2>1 DEF WritersInv
  <2>. QED
    BY <1>2, <1>4, <2>2 DEF LoadSent, PassWindow, RetryWindow, recvVars
<1>5. CASE GiveUpWindow(w) \/ SendTimeout(w)
  <2>1. /\ orphans' = orphans /\ isClosed' = isClosed
        /\ pc'[w] = "idle"
        /\ \A v \in Writers : v # w => pc'[v] = pc[v] /\ todo'[v] = todo[v]
    BY <1>5 DEF GiveUpWindow, SendTimeout, Return, closeVars, TypeOK
  <2>2. WritersInv'
    BY <1>1, <2>1 DEF WritersInv
  <2>. QED
    BY <1>2, <1>5, <2>2 DEF GiveUpWindow, SendTimeout, recvVars
<1>6. CASE Enqueue(w)
  <2>. DEFINE n == Chunk(w)
  <2>1. /\ pc[w] = "queue" /\ pc' = [pc EXCEPT ![w] = "done"] /\ PutData(n)
        /\ UNCHANGED <<todo, orphans, closeVars, wire, recvCh, remoteClosed,
                       readVars>>
    BY <1>6 DEF Enqueue, recvVars
  <2>2. todo[w] > 0 /\ ~isClosed /\ ~Told
    BY <1>1, <2>1
  <2>3. n \in 1..MaxFrame
    BY <2>2, FlowAssumption DEF Chunk, MinOf, TypeOK
  <2>. HIDE DEF n
  <2>4. LineInv' /\ ~Told'
    BY <2>1, <2>2, <2>3, PutLine DEF PipeInv, readVars
  <2>5. WritersInv'
    BY <1>1, <2>1 DEF WritersInv, closeVars, TypeOK
  <2>6. ~remoteClosed
    BY <1>1, <2>2 DEF PipeInv, ClosingInv
  <2>7. ClosingInv'
    BY <2>1, <2>4, <2>6 DEF PipeInv, ClosingInv, closeVars
  <2>8. /\ chunks' = chunks + 1 /\ enqueued' = enqueued + n
        /\ enqueued' > enqueued
    BY <2>1, <2>3, FlowAssumption DEF PutData, TypeOK
  <2>9. Pipe!Put
    BY <2>1, <2>2, <2>8 DEF Pipe!Put, readVars, closeVars
  <2>. QED
    BY <2>4, <2>5, <2>7, <2>9 DEF PipeInv, PipeStep, Pipe!PipeNext
<1>7. CASE FinishChunk(w)
  <2>1. /\ orphans' = orphans /\ isClosed' = isClosed /\ pc[w] = "done"
        /\ todo'[w] = todo[w] - Chunk(w)
        /\ pc'[w] = IF todo[w] > Chunk(w) THEN "load" ELSE "idle"
        /\ \A v \in Writers : v # w => pc'[v] = pc[v] /\ todo'[v] = todo[v]
    BY <1>7 DEF FinishChunk, closeVars, TypeOK
  <2>2. pc'[w] # "idle" => todo'[w] > 0 /\ ~isClosed
    <3>1. todo[w] \in Nat /\ Chunk(w) \in Nat
      BY ChunkRange DEF TypeOK
    <3>. QED
      BY <1>1, <2>1, <3>1
  <2>3. WritersInv'
    BY <1>1, <2>1, <2>2 DEF WritersInv
  <2>. QED
    BY <1>2, <1>7, <2>3 DEF FinishChunk, recvVars
<1>8. ~ReturnEarly(w)
  BY <1>1 DEF ReturnEarly, Lossless
<1>. QED
  BY <1>3, <1>4, <1>5, <1>6, <1>7, <1>8 DEF Write

\* Stream.Close (stream.go:191-217) shuts the pipe; the close frame follows
\* every chunk.
LEMMA ClosePipe ==
  ASSUME Lossless, TypeOK, PipeInv, Close
  PROVE  PipeInv' /\ PipeStep
<1>1. /\ closer = "open" <=> ~isClosed
      /\ Told => closer = "closed"
      /\ remoteClosed => closer = "closed" /\ wire = <<>> /\ sendQ = <<>>
      /\ \A i \in 1..Len(recvCh) : recvCh[i].kind = "data"
  BY DEF PipeInv, ClosingInv
<1>2. CASE CloseStream
  <2>1. /\ \A w \in Writers : pc[w] = "idle"
        /\ closer = "open" /\ isClosed' = TRUE /\ closer' = "sending"
        /\ UNCHANGED <<writerVars, sendQ, wire, recvVars, readVars, queueHist>>
    BY <1>2 DEF CloseStream, Lossless
  <2>2. Line' = Line
    BY <2>1 DEF Line, recvVars
  <2>3. LineInv' /\ (Told' <=> Told)
    BY <2>1, <2>2, SameLine DEF PipeInv, readVars, queueHist
  <2>4. WritersInv'
    BY <2>1 DEF PipeInv, WritersInv, writerVars
  <2>5. ~remoteClosed /\ ~Told /\ ~isClosed
    BY <1>1, <2>1
  <2>6. ClosingInv'
    BY <1>1, <2>1, <2>3, <2>5 DEF ClosingInv, recvVars
  <2>7. Pipe!Shut
    BY <2>1, <2>5 DEF Pipe!Shut, readVars, queueHist
  <2>. QED
    BY <2>3, <2>4, <2>6, <2>7 DEF PipeInv, PipeStep, Pipe!PipeNext
<1>3. CASE EnqueueClose
  <2>1. /\ closer = "sending" /\ PutFrame(CloseFrame) /\ closer' = "closed"
        /\ UNCHANGED <<writerVars, isClosed, wire, recvVars, readVars,
                       queueHist>>
    BY <1>3 DEF EnqueueClose
  <2>2. ~Told /\ isClosed /\ ~remoteClosed
    BY <1>1, <2>1
  <2>3. LineInv'
    BY <2>1, <2>2, QueueCloseLine DEF PipeInv, recvVars, readVars, queueHist
  <2>4. WritersInv'
    BY <2>1 DEF PipeInv, WritersInv, writerVars
  <2>5. ClosingInv'
    BY <1>1, <2>1, <2>2 DEF ClosingInv, recvVars
  <2>6. PipeStep
    BY <2>1, HiddenStep DEF readVars, queueHist
  <2>. QED
    BY <2>3, <2>4, <2>5, <2>6 DEF PipeInv
<1>4. CASE CloseTimeout
  <2>1. /\ closer = "sending" /\ closer' = "closed"
        /\ UNCHANGED <<writerVars, isClosed, sendQ, wire, recvVars, readVars,
                       queueHist>>
    BY <1>4 DEF CloseTimeout
  <2>2. isClosed /\ ~remoteClosed
    BY <1>1, <2>1
  <2>3. WritersInv'
    BY <2>1 DEF PipeInv, WritersInv, writerVars
  <2>4. ClosingInv'
    BY <1>1, <2>1, <2>2 DEF ClosingInv, recvVars
  <2>5. Line' = Line
    BY <2>1 DEF Line, recvVars
  <2>. QED
    BY <2>1, <2>3, <2>4, <2>5, HiddenPipe DEF readVars, queueHist
<1>. QED
  BY <1>2, <1>3, <1>4 DEF Close

\* The two sessions (session.go:226-260, 417-447, 493-502) hand frames on
\* without the pipe's noticing.
LEMMA SessionsPipe ==
  ASSUME Lossless, TypeOK, PipeInv, Sessions
  PROVE  PipeInv' /\ PipeStep
<1>1. /\ closer = "open" <=> ~isClosed
      /\ Told => closer = "closed"
      /\ remoteClosed => closer = "closed" /\ wire = <<>> /\ sendQ = <<>>
      /\ \A i \in 1..Len(recvCh) : recvCh[i].kind = "data"
  BY DEF PipeInv, ClosingInv
<1>2. /\ recvCh \in Seq(Frames) /\ wire \in Seq(Frames)
      /\ sendQ \in Seq(Frames) /\ recvCh \o wire \in Seq(Frames)
  BY LineType
<1>3. CASE Transmit
  <2>1. /\ sendQ # <<>> /\ wire' = Append(wire, Head(sendQ))
        /\ sendQ' = Tail(sendQ)
        /\ UNCHANGED <<writerVars, closeVars, recvVars, readVars, queueHist>>
    BY <1>3 DEF Transmit
  <2>2. Head(sendQ) \in Frames
    BY <1>2, <2>1, HeadTailProperties
  <2>3. recvCh \o wire' = Append(recvCh \o wire, Head(sendQ))
    BY <1>2, <2>1, <2>2, ConcatAppend
  <2>4. Append(recvCh \o wire, Head(sendQ)) \o Tail(sendQ)
          = (recvCh \o wire) \o sendQ
    BY <1>2, <2>1, ConcatHandOver
  <2>5. Line' = Line
    BY <2>1, <2>3, <2>4 DEF Line, recvVars
  <2>6. (Told' <=> Told) /\ ~remoteClosed
    BY <1>1, <2>1, <2>5 DEF Told
  <2>7. ClosingInv' /\ WritersInv'
    BY <1>1, <2>1, <2>6
    DEF PipeInv, ClosingInv, WritersInv, recvVars, closeVars, writerVars
  <2>. QED
    BY <2>1, <2>5, <2>7, HiddenPipe DEF closeVars, readVars, queueHist
<1>4. CASE AcceptData
  <2>1. /\ wire # <<>> /\ Head(wire).kind = "data" /\ ~remoteClosed
        /\ wire' = Tail(wire) /\ recvCh' = Append(recvCh, Head(wire))
        /\ UNCHANGED <<writerVars, closeVars, sendQ, remoteClosed, readVars,
                       queueHist>>
    BY <1>4 DEF AcceptData
  <2>2. Head(wire) \in Frames
    BY <1>2, <2>1, HeadTailProperties
  <2>3. recvCh' \o wire' = recvCh \o wire
    BY <1>2, <2>1, ConcatHandOver
  <2>4. Line' = Line
    BY <2>1, <2>3 DEF Line
  <2>5. Told' <=> Told
    BY <2>4 DEF Told
  <2>6. \A i \in 1..Len(recvCh') : recvCh'[i].kind = "data"
    <3>1. /\ Len(recvCh') = Len(recvCh) + 1 /\ Len(recvCh) \in Nat
          /\ recvCh'[Len(recvCh) + 1] = Head(wire)
          /\ \A i \in 1..Len(recvCh) : recvCh'[i] = recvCh[i]
      BY <1>2, <2>1, <2>2, AppendProperties, LenProperties
    <3>2. ASSUME NEW i \in 1..Len(recvCh') PROVE recvCh'[i].kind = "data"
      <4>1. i \in 1..Len(recvCh) \/ i = Len(recvCh) + 1
        BY <3>1
      <4>. QED
        BY <1>1, <2>1, <3>1, <4>1
    <3>. QED
      BY <3>2
  <2>7. ClosingInv'
    BY <1>1, <2>1, <2>5, <2>6 DEF ClosingInv, closeVars
  <2>8. WritersInv'
    BY <2>1 DEF PipeInv, WritersInv, closeVars, writerVars
  <2>. QED
    BY <2>1, <2>4, <2>7, <2>8, HiddenPipe DEF closeVars, readVars, queueHist
<1>5. ~DropData /\ ~LateData
  BY <1>1 DEF DropData, LateData, Lossless
<1>6. CASE RemoteClose
  <2>1. remoteClosed' = TRUE
        /\ UNCHANGED <<writerVars, closeVars, recvCh, readVars, queueHist>>
    BY <1>6 DEF RemoteClose
  <2>2. LineInv' /\ ~Told' /\ closer = "closed" /\ wire' = <<>> /\ sendQ' = <<>>
    <3>1. sendQ' = sendQ
      BY <1>6 DEF RemoteClose
    <3>. QED
      BY <1>6, <3>1, CloseLine
  <2>3. ClosingInv'
    BY <1>1, <2>1, <2>2 DEF ClosingInv, closeVars
  <2>4. WritersInv'
    BY <2>1 DEF PipeInv, WritersInv, closeVars, writerVars
  <2>5. PipeStep
    BY <2>1, HiddenStep DEF closeVars, readVars, queueHist
  <2>. QED
    BY <2>2, <2>3, <2>4, <2>5 DEF PipeInv
<1>7. CASE HandleAck
  <2>1. UNCHANGED <<writerVars, closeVars, sendQ, wire, recvVars, readVars,
                    queueHist>>
    BY <1>7 DEF HandleAck
  <2>2. Line' = Line
    BY <2>1 DEF Line, recvVars
  <2>3. Told' <=> Told
    BY <2>2 DEF Told
  <2>4. ClosingInv' /\ WritersInv'
    BY <1>1, <2>1, <2>3
    DEF PipeInv, ClosingInv, WritersInv, recvVars, closeVars, writerVars
  <2>. QED
    BY <2>1, <2>2, <2>4, HiddenPipe DEF closeVars, readVars, queueHist
<1>. QED
  BY <1>3, <1>4, <1>5, <1>6, <1>7 DEF Sessions

\* Stream.Read (stream.go:126-188) takes the next chunk whole, and reports the
\* end of the stream when none is left.
LEMMA ReadPipe ==
  ASSUME Lossless, TypeOK, PipeInv, Read
  PROVE  PipeInv' /\ PipeStep
<1>1. /\ closer = "open" <=> ~isClosed
      /\ Told => closer = "closed"
      /\ remoteClosed => closer = "closed" /\ wire = <<>> /\ sendQ = <<>>
      /\ \A i \in 1..Len(recvCh) : recvCh[i].kind = "data"
  BY DEF PipeInv, ClosingInv
<1>2. UNCHANGED <<writerVars, closeVars, sendQ, wire, remoteClosed, queueHist>>
  BY DEF Read, StartRead, DrainRead, EndOfStream, FinishRead, ReadTimeout,
         unreadVars
<1>3. WritersInv'
  BY <1>2 DEF PipeInv, WritersInv, closeVars, writerVars
<1>4. ASSUME recvCh' = recvCh PROVE Line' = Line /\ ClosingInv'
  <2>1. Line' = Line
    BY <1>2, <1>4 DEF Line
  <2>2. Told' <=> Told
    BY <2>1 DEF Told
  <2>. QED
    BY <1>1, <1>2, <1>4, <2>1, <2>2 DEF ClosingInv, closeVars
<1>5. CASE StartRead \/ ReadTimeout
  <2>1. UNCHANGED <<eof, lastRead, readBytes, recvCh>>
    BY <1>5 DEF StartRead, ReadTimeout
  <2>. QED
    BY <1>2, <1>3, <1>4, <2>1, HiddenPipe DEF closeVars, queueHist
<1>6. CASE DrainRead \/ FinishRead
  <2>1. TakeChunk /\ eof' = eof
    BY <1>6 DEF DrainRead, FinishRead
  <2>2. /\ LineInv' /\ (Told' <=> Told)
        /\ lastRead < chunks /\ lastRead' = lastRead + 1
        /\ readBytes' > readBytes /\ readBytes' <= enqueued
    BY <1>2, <2>1, TakeLine DEF queueHist
  <2>3. \A i \in 1..Len(recvCh') : recvCh'[i].kind = "data"
    <3>1. /\ recvCh \in Seq(Frames) /\ recvCh # <<>> /\ recvCh' = Tail(recvCh)
      BY <2>1, LineType DEF TakeChunk
    <3>2. /\ Len(recvCh) \in Nat /\ Len(recvCh') = Len(recvCh) - 1
          /\ \A i \in 1..Len(recvCh') : recvCh'[i] = recvCh[i + 1]
      BY <3>1, HeadTailProperties, LenProperties
    <3>3. \A i \in 1..Len(recvCh') : i + 1 \in 1..Len(recvCh)
      BY <3>2
    <3>. QED
      BY <1>1, <3>2, <3>3
  <2>4. ClosingInv'
    BY <1>1, <1>2, <2>2, <2>3 DEF ClosingInv, closeVars
  <2>5. Pipe!Get
    BY <1>2, <2>1, <2>2 DEF Pipe!Get, closeVars, queueHist
  <2>. QED
    BY <1>3, <2>2, <2>4, <2>5 DEF PipeInv, PipeStep, Pipe!PipeNext
<1>7. CASE EndOfStream
  <2>1. /\ remoteClosed /\ recvCh = <<>> /\ eof' = TRUE
        /\ UNCHANGED <<lastRead, readBytes, recvCh>>
    BY <1>7 DEF EndOfStream
  <2>2. LineInv'
    BY <1>2, <1>4, <2>1, SameLine DEF PipeInv, queueHist
  <2>3. isClosed
    BY <1>1, <2>1
  <2>4. lastRead = chunks /\ readBytes = enqueued
    <3>1. <<>> \in Seq(Frames)
      OBVIOUS
    <3>2. Line = <<>>
      BY <1>1, <2>1, <3>1, ConcatEmptySeq DEF Line
    <3>3. Payloads = 0
      BY <3>2 DEF Payloads, Told
    <3>. QED
      BY <3>3 DEF PipeInv, LineInv, Carries, TypeOK
  <2>5. Pipe!End
    BY <1>2, <2>1, <2>3, <2>4 DEF Pipe!End, closeVars, queueHist
  <2>. QED
    BY <1>3, <1>4, <2>1, <2>2, <2>5 DEF PipeInv, PipeStep, Pipe!PipeNext
<1>. QED
  BY <1>5, <1>6, <1>7 DEF Read

\* Every step of the stream is a step of the pipe or none.
LEMMA NextPipe ==
  Lossless /\ TypeOK /\ PipeInv /\ [Next]_vars => PipeInv' /\ PipeStep
<1>. SUFFICES ASSUME Lossless, TypeOK, PipeInv, [Next]_vars
              PROVE  PipeInv' /\ PipeStep
  OBVIOUS
<1>1. ASSUME NEW i \in DOMAIN orphans, Orphan(i) PROVE FALSE
  BY <1>1 DEF PipeInv, WritersInv
<1>2. CASE UNCHANGED vars
  <2>1. UNCHANGED <<writerVars, closeVars, sendQ, wire, recvVars, readVars,
                    queueHist>>
    BY <1>2 DEF vars
  <2>2. Line' = Line
    BY <2>1 DEF Line, recvVars
  <2>3. Told' <=> Told
    BY <2>2 DEF Told
  <2>4. ClosingInv' /\ WritersInv'
    BY <2>1, <2>3
    DEF PipeInv, ClosingInv, WritersInv, recvVars, closeVars, writerVars
  <2>. QED
    BY <2>1, <2>2, <2>4, HiddenPipe DEF closeVars, readVars, queueHist
<1>. QED
  BY <1>1, <1>2, WritePipe, ClosePipe, SessionsPipe, ReadPipe DEF Next

\* A reader that keeps up, writers that are not cut off and a slice that holds
\* a whole frame make one direction of a stream the lossless ordered pipe that
\* StreamPipe specifies, whatever the number of writers, the size of the
\* buffers and the other timers (stream.go:32-217, session.go:185-203, 417-447).
THEOREM StreamIsAPipe ==
  ASSUME Lossless
  PROVE  Spec => ImplementsPipe
<1>1. Init => PipeInv /\ Pipe!PipeInit
  BY InitPipe
<1>2. TypeOK /\ PipeInv /\ [Next]_vars
        => PipeInv' /\ [Pipe!PipeNext]_(Pipe!pipeVars)
  BY NextPipe DEF PipeStep
<1>. QED
  BY <1>1, <1>2, TypeCorrect, PTL DEF Spec, ImplementsPipe, Pipe!PipeSpec
==============================================================================
