-------------------------- MODULE ZtpSessionProofs --------------------------
(***************************************************************************)
(* Proofs about ZtpSession, for any number of applications, any capacities *)
(* and any environment.  The invariant CloseInv says who can be where      *)
(* inside Session.Close; FaultsAccounted counts errors along their way to   *)
(* processLoop and is inductive as it stands.                              *)
(***************************************************************************)
EXTENDS ZtpSession, FiniteSetTheorems, TLAPS

Inside == {"drain", "wait"}

\* Whoever runs the body of Close owns closeOnce and has cancelled the
\* context; nobody returns before; the transport is open until the body ends.
OnceInv ==
  /\ \A c, d \in Callers :
       closePc[c] \in Inside /\ closePc[d] \in Inside => c = d
  /\ \A c \in Callers : closePc[c] \in Inside => once = "busy"
  /\ once = "busy" => \E c \in Callers : closePc[c] \in Inside
  /\ once # "free" => cancelled
  /\ isClosed => cancelled
  /\ \A c \in Callers : closePc[c] = "returned" => cancelled
  /\ transport = "closed" => once = "done"

\* processLoop is in Close from the moment it enters it until it has returned.
LoopInv ==
  /\ procPc \in {"select", "report"} => closePc[Loop] = "idle"
  /\ closePc[Loop] \in {"once", "drain", "wait"} => procPc = "close"

CloseInv == OnceInv /\ LoopInv /\ TransportClosedLast

------------------------------------------------------------------------------
\* Type correctness: the initial state and every step keep the types, and no
\* channel is ever filled beyond its capacity.
LEMMA InitType == Init => TypeOK
<1> SUFFICES ASSUME Init PROVE TypeOK
  OBVIOUS
<1> USE SessionAssumption
<1>1. /\ queued \in [Queues -> 0..SendBuf]
      /\ closePc \in [Callers -> {"idle", "once", "drain", "wait", "returned"}]
      /\ recvCh \in Seq({"plain", "ping", "bad"}) /\ Len(recvCh) <= RecvBuf
      /\ errors \in 0..ErrBuf
  BY DEF Init
<1> QED BY <1>1 DEF Init, TypeOK

\* No step of a loop or of Close breaks a type or a capacity.
LEMMA NextType == TypeOK /\ [Next]_vars => TypeOK'
<1> SUFFICES ASSUME TypeOK, [Next]_vars PROVE TypeOK'
  OBVIOUS
<1> USE SessionAssumption
<1>1. CASE SendLoop
  <2>1. CASE SendScan \/ SendPark
    <3>1. ASSUME NEW q \in Queues, Take(q)
          PROVE  /\ queued' \in [Queues -> 0..SendBuf]
                 /\ writing' \in Queues
                 /\ sendPc' = "write"
      BY <3>1 DEF TypeOK, Take
    <3>2. /\ queued' \in [Queues -> 0..SendBuf]
          /\ writing' \in Queues \cup {"none"}
          /\ sendPc' \in {"scan", "park", "write", "report", "done"}
      BY <2>1, <3>1 DEF TypeOK, SendScan, SendPark, sendVars, Queues
    <3>3. UNCHANGED <<recvPc, procPc, pingPc, closeVars, recvVars, errors, countVars>>
      BY <2>1 DEF SendScan, SendPark
    <3> QED BY <3>2, <3>3 DEF TypeOK, closeVars, recvVars, countVars
  <2>2. CASE WriteDone \/ WriteFails \/ SendReport
    BY SMTT(60), <2>2 DEF TypeOK, WriteDone, WriteFails, SendReport, sendVars, closeVars,
       recvVars, countVars
  <2> QED BY <1>1, <2>1, <2>2 DEF SendLoop
<1>2. CASE RecvLoop
  <2>1. CASE ReadFrame \/ ReadPong
    <3>1. PICK kind \in {"plain", "ping", "bad"} : Receive(kind)
      BY <2>1 DEF ReadFrame, ReadPong
    <3>2. faults' \in Nat /\ frames' \in Nat /\ pings' \in Nat
      BY <2>1, <3>1 DEF TypeOK, ReadFrame, ReadPong, Receive, Count
    <3>3. UNCHANGED <<sends, ticks>>
      BY <3>1 DEF Receive
    <3>. QED BY <3>1, <3>2, <3>3 DEF TypeOK, Receive, sendVars, closeVars
  <2>2. CASE RecvTop \/ ReadFails \/ RecvReport
    BY SMTT(60), <2>2 DEF TypeOK, RecvTop, ReadFails, RecvReport, sendVars, closeVars,
       recvVars, countVars
  <2>4. CASE ReadDeadline
    <3>1. desync' \in BOOLEAN
      BY <2>4 DEF TypeOK, ReadDeadline
    <3>2. /\ recvPc' = "top" /\ recvPc = "read"
          /\ UNCHANGED <<sendPc, procPc, pingPc, closeVars, sendVars, recvCh,
                         held, errors, countVars>>
      BY <2>4 DEF ReadDeadline
    <3> QED BY <3>1, <3>2 DEF TypeOK, sendVars, closeVars, countVars
  <2>3. CASE RecvPush
    <3>1. /\ recvCh' \in Seq({"plain", "ping", "bad"}) /\ Len(recvCh') <= RecvBuf
          /\ recvPc' \in {"top", "done"}
      <4>1. /\ recvCh \in Seq({"plain", "ping", "bad"}) /\ Len(recvCh) <= RecvBuf
            /\ held \in {"plain", "ping", "bad"}
        BY <2>3 DEF TypeOK, RecvPush
      <4>2. /\ Append(recvCh, held) \in Seq({"plain", "ping", "bad"})
            /\ Len(Append(recvCh, held)) = Len(recvCh) + 1
        BY <4>1
      <4> QED BY <2>3, <4>1, <4>2 DEF RecvPush
    <3> QED BY <2>3, <3>1 DEF TypeOK, RecvPush, sendVars, closeVars, countVars
  <2> QED BY <1>2, <2>1, <2>2, <2>3, <2>4 DEF RecvLoop
<1>3. CASE ProcessLoop
  <2>1. CASE Handle
    <3>1. recvCh' \in Seq({"plain", "ping", "bad"}) /\ Len(recvCh') <= RecvBuf
      BY <2>1 DEF TypeOK, Handle
    <3>2. ASSUME NEW q \in Queues, TrySend(q)
          PROVE  queued' \in [Queues -> 0..SendBuf]
      BY <3>2 DEF TypeOK, TrySend, Room
    <3>3. queued' \in [Queues -> 0..SendBuf] /\ procPc' \in {"select", "report"}
      BY <2>1, <3>2 DEF TypeOK, Handle, Queues
    <3> QED BY <2>1, <3>1, <3>3 DEF TypeOK, Handle, closeVars, countVars
  <2>2. CASE ProcReport \/ ProcError \/ ProcStop
    BY SMTT(60), <2>2 DEF TypeOK, ProcReport, ProcError, ProcStop, sendVars, closeVars,
       recvVars, countVars
  <2> QED BY <1>3, <2>1, <2>2 DEF ProcessLoop
<1>4. CASE PingLoop
  <2>1. CASE PingSend
    <3>1. queued' \in [Queues -> 0..SendBuf] /\ pingPc' \in {"wait", "done"}
      BY <2>1 DEF TypeOK, PingSend, Room, Queues
    <3> QED BY <2>1, <3>1 DEF TypeOK, PingSend, closeVars, recvVars, countVars
  <2>2. CASE PingTick \/ PingStop
    BY SMTT(60), <2>2 DEF TypeOK, PingTick, PingStop, sendVars, closeVars, recvVars, countVars
  <2> QED BY <1>4, <2>1, <2>2 DEF PingLoop
<1>5. ASSUME NEW c \in Callers, Close(c) PROVE TypeOK'
  <2>1. closePc' \in [Callers -> {"idle", "once", "drain", "wait", "returned"}]
    BY <1>5 DEF TypeOK, Close, CloseEnter, CloseOnce, CloseDrain, CloseFinish
  <2>2. UNCHANGED <<loopVars, sendVars, recvVars, errors, countVars>>
    BY <1>5 DEF Close, CloseEnter, CloseOnce, CloseDrain, CloseFinish
  <2>3. /\ once' \in {"free", "busy", "done"}
        /\ isClosed' \in BOOLEAN /\ cancelled' \in BOOLEAN /\ closeCh' \in BOOLEAN
        /\ transport' \in {"open", "closed"}
    BY <1>5 DEF TypeOK, Close, CloseEnter, CloseOnce, CloseDrain, CloseFinish
  <2> QED BY <2>1, <2>2, <2>3 DEF TypeOK, loopVars, sendVars, recvVars, countVars
<1>6. CASE AppSend
  <2>1. queued' \in [Queues -> 0..SendBuf] /\ sends' \in Nat
    BY <1>6 DEF TypeOK, AppSend, Room, Queues
  <2> QED BY <1>6, <2>1 DEF TypeOK, AppSend, loopVars, closeVars, recvVars
<1>7. CASE UNCHANGED vars
  BY <1>7 DEF TypeOK, vars, loopVars, closeVars, sendVars, recvVars, countVars
<1> QED BY <1>1, <1>2, <1>3, <1>4, <1>5, <1>6, <1>7 DEF Next

\* Every variable keeps its type in every behaviour of the session.
THEOREM TypeCorrect == Spec => []TypeOK
  BY InitType, NextType, PTL DEF Spec

------------------------------------------------------------------------------
\* CloseInv holds initially: nobody is inside Close.
LEMMA InitClose == Init => CloseInv
  BY SessionAssumption DEF Init, CloseInv, OnceInv, LoopInv, TransportClosedLast, Inside, Callers, Loop

\* The loops never touch what Close owns, and a loop that has left stays away.
LEMMA LoopsClose ==
  ASSUME TypeOK, CloseInv, SendLoop \/ RecvLoop \/ PingLoop \/ AppSend
  PROVE  CloseInv'
<1>1. UNCHANGED <<closeVars, procPc>>
  <2>1. CASE SendLoop
    BY <2>1 DEF SendLoop, SendScan, SendPark, WriteDone, WriteFails, SendReport
  <2>2. CASE RecvLoop
    BY <2>2 DEF RecvLoop, RecvTop, ReadFrame, ReadPong, Receive, ReadDeadline,
       ReadFails, RecvReport, RecvPush
  <2>3. CASE PingLoop \/ AppSend
    BY <2>3 DEF PingLoop, PingTick, PingSend, PingStop, AppSend, loopVars
  <2> QED BY <2>1, <2>2, <2>3
<1>3. /\ sendPc = "done" => sendPc' = "done"
      /\ recvPc = "done" => recvPc' = "done"
      /\ pingPc = "done" => pingPc' = "done"
  BY DEF SendLoop, SendScan, Take, SendPark, WriteDone, WriteFails, SendReport,
     RecvLoop, RecvTop, ReadFrame, ReadPong, Receive, ReadDeadline, ReadFails,
     RecvReport, RecvPush, PingLoop, PingTick, PingSend, PingStop, AppSend,
     loopVars
<1>5. OnceInv' /\ LoopInv'
  BY <1>1 DEF CloseInv, OnceInv, LoopInv, closeVars
<1>7. TransportClosedLast'
  <2>1. ASSUME transport' = "closed"
        PROVE  {sendPc', recvPc', procPc', pingPc'} = {"done"}
    <3>1. sendPc = "done" /\ recvPc = "done" /\ procPc = "done" /\ pingPc = "done"
      BY <1>1, <2>1 DEF CloseInv, TransportClosedLast, closeVars
    <3> QED BY <1>1, <1>3, <3>1
  <2> QED BY <2>1 DEF TransportClosedLast
<1> QED BY <1>5, <1>7 DEF CloseInv

\* processLoop takes an error out of the channel only to close the session,
\* and leaves only when the session is stopping.
LEMMA ProcessClose ==
  ASSUME TypeOK, CloseInv, ProcessLoop
  PROVE  CloseInv'
<1>0. Loop \in Callers
  BY DEF Callers
<1>1. CASE Handle
  BY <1>1 DEF TypeOK, CloseInv, OnceInv, LoopInv, TransportClosedLast, Handle, Stopping, closeVars
<1>2. CASE ProcReport
  BY <1>2 DEF TypeOK, CloseInv, OnceInv, LoopInv, TransportClosedLast, ProcReport, Stopping, closeVars
<1>3. CASE ProcError
  BY <1>3 DEF TypeOK, CloseInv, OnceInv, LoopInv, TransportClosedLast, ProcError, Stopping, closeVars
<1>4. CASE ProcStop
  BY <1>0, <1>4 DEF TypeOK, CloseInv, OnceInv, LoopInv, TransportClosedLast, ProcStop, Stopping, closeVars
<1> QED BY <1>1, <1>2, <1>3, <1>4 DEF ProcessLoop

\* A step of a call of Close: closeOnce lets one caller in, and the transport
\* is closed after the loops have left.
LEMMA CallerClose ==
  ASSUME TypeOK, CloseInv, NEW c \in Callers, Close(c)
  PROVE  CloseInv'
<1>0. /\ Loop \in Callers
      /\ closePc \in [Callers -> {"idle", "once", "drain", "wait", "returned"}]
  BY DEF Callers, TypeOK
<1>1. CASE CloseEnter(c)
  <2>1. OnceInv'
    BY <1>0, <1>1 DEF CloseInv, OnceInv, CloseEnter, Inside
  <2>2. LoopInv'
    BY <1>0, <1>1 DEF CloseInv, LoopInv, CloseEnter, loopVars
  <2>3. TransportClosedLast'
    BY <1>1 DEF CloseInv, TransportClosedLast, CloseEnter,
       loopVars, Stopping
  <2> QED BY <2>1, <2>2, <2>3 DEF CloseInv
<1>2. CASE CloseOnce(c)
  <2>1. OnceInv'
    BY <1>0, <1>2 DEF CloseInv, OnceInv, CloseOnce, Inside
  <2>2. LoopInv'
    BY <1>0, <1>2 DEF CloseInv, LoopInv, CloseOnce, loopVars
  <2>3. TransportClosedLast'
    BY <1>2 DEF CloseInv, TransportClosedLast, CloseOnce,
       loopVars, Stopping, OnceInv
  <2> QED BY <2>1, <2>2, <2>3 DEF CloseInv
<1>3. CASE CloseDrain(c)
  <2>1. OnceInv'
    BY <1>0, <1>3 DEF CloseInv, OnceInv, CloseDrain, Inside
  <2>2. LoopInv'
    BY <1>0, <1>3 DEF CloseInv, LoopInv, CloseDrain, loopVars
  <2>3. TransportClosedLast'
    BY <1>3 DEF CloseInv, TransportClosedLast, CloseDrain,
       loopVars, Stopping
  <2> QED BY <2>1, <2>2, <2>3 DEF CloseInv
<1>4. CASE CloseFinish(c)
  <2>1. OnceInv'
    BY <1>0, <1>4 DEF CloseInv, OnceInv, CloseFinish, Inside
  <2>2. LoopInv'
    BY <1>0, <1>4 DEF CloseInv, LoopInv, CloseFinish, loopVars, LoopsDone
  <2>3. TransportClosedLast'
    BY <1>4 DEF CloseInv, TransportClosedLast, CloseFinish,
       loopVars, Stopping, LoopsDone
  <2> QED BY <2>1, <2>2, <2>3 DEF CloseInv
<1> QED BY <1>1, <1>2, <1>3, <1>4 DEF Close

\* Every step keeps CloseInv.
LEMMA NextClose == TypeOK /\ CloseInv /\ [Next]_vars => CloseInv'
<1> SUFFICES ASSUME TypeOK, CloseInv, [Next]_vars PROVE CloseInv'
  OBVIOUS
<1>1. CASE UNCHANGED vars
  BY <1>1 DEF CloseInv, OnceInv, LoopInv, TransportClosedLast, Stopping, vars, loopVars, closeVars
<1> QED BY <1>1, LoopsClose, ProcessClose, CallerClose DEF Next

\* The invariant holds in every behaviour of the session.
LEMMA CloseInvariant == Spec => []CloseInv
  BY InitType, NextType, InitClose, NextClose, PTL DEF Spec

------------------------------------------------------------------------------
\* Session.Close: one caller at a time is inside closeOnce.Do, so closeCh is
\* closed once, by whoever holds closeOnce.
THEOREM CloseRunsOnce == Spec => []OneCloser
<1>1. CloseInv => OneCloser
  BY DEF CloseInv, OnceInv, OneCloser, Inside
<1> QED BY <1>1, CloseInvariant, PTL

\* Session.Close: the transport is closed after all four loops have left.
THEOREM TransportIsClosedLast == Spec => []TransportClosedLast
<1>1. CloseInv => TransportClosedLast
  BY DEF CloseInv
<1> QED BY <1>1, CloseInvariant, PTL

\* processLoop calling Close waits for itself: from then on no step completes
\* that call or closes the transport.
THEOREM LoopCloseNeverReturns == Spec => LoopCloseIsFinal
<1>1. ASSUME TypeOK, CloseInv, [Next]_vars, closePc[Loop] = "wait"
      PROVE  closePc'[Loop] = "wait" /\ transport' = "open"
  <2>0. /\ Loop \in Callers
        /\ closePc \in [Callers -> {"idle", "once", "drain", "wait", "returned"}]
        /\ transport \in {"open", "closed"}
    BY <1>1 DEF Callers, TypeOK
  <2>1. procPc = "close" /\ transport = "open" /\ once = "busy"
    BY <1>1, <2>0 DEF CloseInv, LoopInv, OnceInv, Inside
  <2>2. ASSUME NEW c \in Callers, Close(c) PROVE UNCHANGED <<closePc[Loop], transport>>
    <3>1. ~CloseFinish(c)
      BY <2>1 DEF CloseFinish, LoopsDone
    <3>2. CASE CloseEnter(c)
      BY <1>1, <2>0, <3>2 DEF CloseEnter
    <3>3. CASE CloseOnce(c)
      BY <1>1, <2>0, <3>3 DEF CloseOnce
    <3>4. CASE CloseDrain(c)
      BY <1>1, <2>0, <3>4 DEF CloseDrain
    <3> QED BY <2>2, <3>1, <3>2, <3>3, <3>4 DEF Close
  <2>3. CASE ~\E c \in Callers : Close(c)
    <3>1. UNCHANGED closeVars
      BY <1>1, <2>3 DEF Next, vars, SendLoop, SendScan, SendPark, WriteDone,
         WriteFails, SendReport, RecvLoop, RecvTop, ReadFrame, ReadPong, Receive,
         ReadDeadline, ReadFails, RecvReport, RecvPush, ProcessLoop, Handle,
         ProcReport, ProcError, ProcStop, PingLoop, PingTick, PingSend, PingStop,
         AppSend
    <3> QED BY <1>1, <2>1, <3>1 DEF closeVars
  <2> QED BY <1>1, <2>1, <2>2, <2>3
<1>2. TypeOK /\ CloseInv /\ [Next]_vars
        => [closePc[Loop] = "wait"
              => closePc'[Loop] = "wait" /\ transport' = "open"]_vars
  BY <1>1
<1> QED BY <1>2, TypeCorrect, CloseInvariant, PTL DEF Spec, LoopCloseIsFinal
------------------------------------------------------------------------------
(* Errors *)

Kinds == {"plain", "ping", "bad"}

\* The positions of the bad frames of a queue.
BadAt(s) == {i \in DOMAIN s : s[i] = "bad"}

\* A queue has finitely many bad frames, and an empty one has none.
LEMMA BadFinite ==
  ASSUME NEW s \in Seq(Kinds)
  PROVE  IsFiniteSet(BadAt(s)) /\ BadIn(s) \in Nat /\ BadIn(s) = Cardinality(BadAt(s))
<1>1. IsFiniteSet(1..Len(s)) /\ BadAt(s) \subseteq 1..Len(s)
  BY FS_Interval DEF BadAt
<1>2. IsFiniteSet(BadAt(s))
  BY <1>1, FS_Subset
<1>. QED BY <1>2, FS_CardinalityType DEF BadAt, BadIn

\* A frame put behind a queue is counted if it is bad.
LEMMA BadAppend ==
  ASSUME NEW s \in Seq(Kinds), NEW k \in Kinds
  PROVE  BadIn(Append(s, k)) = BadIn(s) + Count(k = "bad")
<1>. DEFINE t == Append(s, k)
<1>1. t \in Seq(Kinds) /\ Len(t) = Len(s) + 1 /\ t[Len(t)] = k
      /\ \A i \in 1..Len(s) : t[i] = s[i]
  OBVIOUS
<1>2. BadAt(t) = IF k = "bad" THEN BadAt(s) \cup {Len(t)} ELSE BadAt(s)
  BY <1>1 DEF BadAt
<1>3. Len(t) \notin BadAt(s)
  BY <1>1 DEF BadAt
<1>4. IsFiniteSet(BadAt(s)) /\ BadIn(s) = Cardinality(BadAt(s))
  BY BadFinite
<1>5. BadIn(t) = Cardinality(BadAt(t))
  BY <1>1, BadFinite
<1>6. CASE k = "bad"
  <2>1. BadAt(t) = BadAt(s) \cup {Len(t)}
    BY <1>2, <1>6
  <2>2. Cardinality(BadAt(s) \cup {Len(t)}) = Cardinality(BadAt(s)) + 1
    BY <1>3, <1>4, FS_AddElement
  <2>3. BadIn(t) = BadIn(s) + 1
    BY <1>4, <1>5, <2>1, <2>2
  <2>. QED BY <2>3, <1>6 DEF Count
<1>7. CASE k # "bad"
  BY <1>2, <1>4, <1>5, <1>7, BadFinite DEF Count
<1>. QED BY <1>6, <1>7

\* The frame taken from the front of a queue is counted no longer.
LEMMA BadTail ==
  ASSUME NEW s \in Seq(Kinds), s # <<>>
  PROVE  BadIn(s) = BadIn(Tail(s)) + Count(Head(s) = "bad")
<1>. DEFINE t == Tail(s)
            rest == BadAt(s) \ {1}
            shift == [i \in BadAt(t) |-> i + 1]
<1>1. t \in Seq(Kinds) /\ Len(s) = Len(t) + 1 /\ Len(t) \in Nat /\ Head(s) = s[1]
      /\ \A i \in 1..Len(t) : t[i] = s[i + 1]
  OBVIOUS
<1>2. /\ IsFiniteSet(BadAt(s)) /\ BadIn(s) = Cardinality(BadAt(s))
      /\ IsFiniteSet(BadAt(t)) /\ BadIn(t) = Cardinality(BadAt(t))
  BY <1>1, BadFinite
<1>3. shift \in Bijection(BadAt(t), rest)
  <2>1. BadAt(t) = {i \in 1..Len(t) : t[i] = "bad"} /\ BadAt(s) = {i \in 1..Len(s) : s[i] = "bad"}
    BY <1>1 DEF BadAt
  <2>2. \A i \in BadAt(t) : i \in Nat /\ i + 1 \in rest
    BY <1>1, <2>1
  <2>3. \A j \in rest : j \in Nat /\ j - 1 \in BadAt(t) /\ (j - 1) + 1 = j
    <3>. SUFFICES ASSUME NEW j \in rest PROVE j \in Nat /\ j - 1 \in BadAt(t) /\ (j - 1) + 1 = j
      OBVIOUS
    <3>1. j \in 2..Len(s) /\ s[j] = "bad" /\ (j - 1) + 1 = j /\ j - 1 \in 1..Len(t)
      BY <1>1, <2>1
    <3>2. t[j - 1] = s[(j - 1) + 1]
      BY <1>1, <3>1
    <3>3. t[j - 1] = "bad"
      BY <3>1, <3>2
    <3>. QED BY <2>1, <3>1, <3>3
  <2>4. shift \in [BadAt(t) -> rest]
    BY <2>2
  <2>5. shift \in Injection(BadAt(t), rest)
    BY <2>2, <2>4 DEF Injection, IsInjective
  <2>6. \A j \in rest : \E i \in BadAt(t) : shift[i] = j
    BY <2>3
  <2>7. shift \in Surjection(BadAt(t), rest)
    BY <2>4, <2>6 DEF Surjection
  <2>. QED BY <2>5, <2>7 DEF Bijection
<1>4. IsFiniteSet(rest) /\ Cardinality(rest) = Cardinality(BadAt(t))
  <2>. HIDE DEF shift, rest
  <2>1. ExistsBijection(BadAt(t), rest)
    BY <1>3 DEF ExistsBijection
  <2>. QED BY <1>2, <2>1, FS_Bijection
<1>5. CASE s[1] = "bad"
  <2>1. 1 \in BadAt(s) /\ 1 \notin rest /\ BadAt(s) = rest \cup {1}
    BY <1>1, <1>5 DEF BadAt
  <2>2. Cardinality(BadAt(s)) = Cardinality(rest) + 1
    BY <1>4, <2>1, FS_AddElement
  <2>. QED BY <1>1, <1>2, <1>4, <1>5, <2>2 DEF Count
<1>6. CASE s[1] # "bad"
  <2>1. rest = BadAt(s)
    BY <1>1, <1>6 DEF BadAt
  <2>2. BadIn(t) \in Nat
    BY <1>1, BadFinite
  <2>3. Count(Head(s) = "bad") = 0
    BY <1>1, <1>6 DEF Count
  <2>4. BadIn(s) = BadIn(t)
    BY <1>2, <1>4, <2>1
  <2>. QED BY <2>2, <2>3, <2>4
<1>. QED BY <1>5, <1>6

\* The count of faults on their way is a sum of natural numbers.
LEMMA AheadType ==
  ASSUME TypeOK
  PROVE  BadIn(recvCh) \in Nat /\ errors \in Nat /\ faults \in Nat
<1>1. recvCh \in Seq(Kinds)
  BY DEF TypeOK, Kinds
<1>. QED BY <1>1, BadFinite, SessionAssumption DEF TypeOK

\* No fault has happened in the initial state.
LEMMA InitFaults == Init => FaultsAccounted
<1>. SUFFICES ASSUME Init PROVE FaultsAccounted
  OBVIOUS
<1>1. recvCh = <<>> /\ BadAt(<<>>) = {}
  BY DEF Init, BadAt
<1>2. BadIn(recvCh) = 0
  BY <1>1, FS_EmptySet DEF BadIn, BadAt
<1>. QED BY <1>2 DEF Init, FaultsAccounted, FaultsAhead, Count

\* What a step of sendLoop or recvLoop does to the count: one more with the fault
\* that happens, none otherwise.
LEMMA LoopsFaults ==
  ASSUME TypeOK, FaultsAccounted, SendLoop \/ RecvLoop
  PROVE  FaultsAccounted'
<1>0. BadIn(recvCh) \in Nat /\ errors \in Nat /\ faults \in Nat
  BY AheadType
<1>1. UNCHANGED <<closeVars, procPc>>
  BY DEF SendLoop, SendScan, SendPark, WriteDone, WriteFails, SendReport, RecvLoop,
     RecvTop, ReadFrame, ReadPong, Receive, ReadDeadline, ReadFails, RecvReport, RecvPush
<1>2. CASE SendLoop
  <2>1. UNCHANGED <<recvPc, recvVars>>
    BY <1>2 DEF SendLoop, SendScan, SendPark, WriteDone, WriteFails, SendReport
  <2>2. CASE SendScan \/ SendPark \/ WriteDone
    <3>1. /\ UNCHANGED <<errors, faults>>
          /\ sendPc # "report" /\ sendPc' # "report"
          /\ sendPc' = "done" => Stopping
      BY <2>2 DEF SendScan, SendPark, Take, WriteDone, countVars
    <3>. QED BY <1>0, <1>1, <2>1, <3>1
         DEF FaultsAccounted, FaultsAhead, Count, Stopping, recvVars, closeVars
  <2>3. CASE WriteFails
    BY <1>0, <1>1, <2>1, <2>3
    DEF WriteFails, FaultsAccounted, FaultsAhead, Count, Stopping, recvVars, closeVars
  <2>4. CASE SendReport
    BY <1>0, <1>1, <2>1, <2>4
    DEF SendReport, FaultsAccounted, FaultsAhead, Count, Stopping, recvVars, closeVars, countVars
  <2>. QED BY <1>2, <2>2, <2>3, <2>4 DEF SendLoop
<1>3. CASE RecvLoop
  <2>1. UNCHANGED sendPc
    BY <1>3 DEF RecvLoop, RecvTop, ReadFrame, ReadPong, Receive, ReadDeadline, ReadFails,
       RecvReport, RecvPush
  <2>2. CASE RecvTop \/ ReadDeadline
    <3>1. /\ UNCHANGED <<errors, faults, recvCh, held>>
          /\ recvPc # "report" /\ recvPc' # "report"
          /\ recvPc' = "done" => Stopping
      BY <2>2 DEF RecvTop, ReadDeadline, recvVars, countVars
    <3>. QED BY <1>0, <1>1, <2>1, <3>1
         DEF FaultsAccounted, FaultsAhead, Count, Stopping, closeVars
  <2>3. CASE ReadFrame \/ ReadPong
    <3>1. PICK kind \in Kinds : Receive(kind)
      BY <2>3 DEF ReadFrame, ReadPong, Kinds
    <3>2. held = "none" /\ recvPc = "read"
      BY <2>3 DEF TypeOK, ReadFrame, ReadPong
    <3>. QED BY <1>0, <1>1, <2>1, <3>1, <3>2
         DEF Receive, FaultsAccounted, FaultsAhead, Count, Stopping, closeVars
  <2>4. CASE ReadFails
    BY <1>0, <1>1, <2>1, <2>4
    DEF ReadFails, FaultsAccounted, FaultsAhead, Count, Stopping, recvVars, closeVars
  <2>5. CASE RecvReport
    BY <1>0, <1>1, <2>1, <2>5
    DEF RecvReport, FaultsAccounted, FaultsAhead, Count, Stopping, recvVars, closeVars, countVars
  <2>6. CASE RecvPush
    <3>1. /\ recvCh \in Seq(Kinds) /\ held \in Kinds
          /\ held' = "none" /\ recvPc = "push" /\ UNCHANGED <<errors, faults>>
      BY <2>6 DEF TypeOK, RecvPush, Kinds, countVars
    <3>2. CASE recvCh' = Append(recvCh, held) /\ recvPc' = "top"
      <4>1. BadIn(recvCh') = BadIn(recvCh) + Count(held = "bad")
        BY <3>1, <3>2, BadAppend
      <4>. QED BY <1>0, <1>1, <2>1, <3>1, <3>2, <4>1
           DEF FaultsAccounted, FaultsAhead, Count, Stopping, closeVars
    <3>3. CASE Stopping /\ recvPc' = "done" /\ UNCHANGED recvCh
      BY <1>0, <1>1, <2>1, <3>1, <3>3
      DEF FaultsAccounted, FaultsAhead, Count, Stopping, closeVars
    <3>. QED BY <2>6, <3>2, <3>3 DEF RecvPush
  <2>. QED BY <1>3, <2>2, <2>3, <2>4, <2>5, <2>6 DEF RecvLoop
<1>. QED BY <1>2, <1>3

\* processLoop hands errors on one by one, and forgets them only when the session
\* is stopping.
LEMMA ProcessFaults ==
  ASSUME TypeOK, CloseInv, FaultsAccounted, ProcessLoop
  PROVE  FaultsAccounted'
<1>0. BadIn(recvCh) \in Nat /\ errors \in Nat /\ faults \in Nat /\ Loop \in Callers
  BY AheadType DEF Callers
<1>1. UNCHANGED <<closeVars, sendPc, recvPc, held, faults>>
  BY DEF ProcessLoop, Handle, ProcReport, ProcError, ProcStop, recvVars, countVars
<1>2. CASE Handle
  <2>1. recvCh \in Seq(Kinds) /\ recvCh # <<>> /\ recvCh' = Tail(recvCh)
        /\ procPc = "select" /\ UNCHANGED errors
    BY <1>2 DEF TypeOK, Handle, Kinds
  <2>2. BadIn(recvCh) = BadIn(recvCh') + Count(Head(recvCh) = "bad") /\ recvCh' \in Seq(Kinds)
    BY <2>1, BadTail
  <2>3. BadIn(recvCh') \in Nat
    BY <2>2, BadFinite
  <2>4. procPc' = IF Head(recvCh) = "bad" THEN "report" ELSE procPc
    BY <1>2 DEF Handle
  <2>. QED BY <1>0, <1>1, <2>1, <2>2, <2>3, <2>4
       DEF FaultsAccounted, FaultsAhead, Count, Stopping, closeVars
<1>3. CASE ProcReport
  BY <1>0, <1>1, <1>3
  DEF ProcReport, FaultsAccounted, FaultsAhead, Count, Stopping, recvVars, closeVars
<1>4. CASE ProcError
  BY <1>0, <1>1, <1>4
  DEF ProcError, FaultsAccounted, FaultsAhead, Count, Stopping, recvVars, closeVars
<1>5. CASE ProcStop
  <2>1. Stopping /\ procPc' = "done" /\ UNCHANGED <<recvCh, errors>>
    BY <1>0, <1>5 DEF ProcStop, CloseInv, OnceInv, Stopping, recvVars
  <2>. QED BY <1>0, <1>1, <2>1
       DEF FaultsAccounted, FaultsAhead, Count, Stopping, closeVars
<1>. QED BY <1>2, <1>3, <1>4, <1>5 DEF ProcessLoop

\* pingLoop, the applications and Close make no errors; nothing that has stopped a
\* session starts it again.
LEMMA OthersFaults ==
  ASSUME TypeOK, FaultsAccounted,
         PingLoop \/ AppSend \/ (\E c \in Callers : Close(c)) \/ UNCHANGED vars
  PROVE  FaultsAccounted'
<1>1. UNCHANGED <<sendPc, recvPc, procPc, recvCh, held, errors, faults>>
  BY DEF PingLoop, PingTick, PingSend, PingStop, AppSend, Close, CloseEnter, CloseOnce,
     CloseDrain, CloseFinish, vars, loopVars, recvVars, countVars
<1>2. Stopping => Stopping'
  BY DEF PingLoop, PingTick, PingSend, PingStop, AppSend, Close, CloseEnter, CloseOnce,
     CloseDrain, CloseFinish, vars, closeVars, Stopping
<1>. QED BY <1>1, <1>2 DEF FaultsAccounted, FaultsAhead

\* The error channel, recvLoop, sendLoop and processLoop together: no error is made
\* up, none is lost before the session stops, and neither sendLoop nor recvLoop
\* leaves without one.
THEOREM ErrorsAreTrue == Spec => []FaultsAccounted
<1>1. TypeOK /\ CloseInv /\ FaultsAccounted /\ [Next]_vars => FaultsAccounted'
  BY LoopsFaults, ProcessFaults, OthersFaults DEF Next
<1>. QED BY <1>1, InitFaults, TypeCorrect, CloseInvariant, PTL DEF Spec
==============================================================================
