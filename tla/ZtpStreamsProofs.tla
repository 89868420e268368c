-------------------------- MODULE ZtpStreamsProofs ---------------------------
(***************************************************************************)
(* What ZtpStreams promises, for any capacities and any number of streams, *)
(* when at most one of the two applications opens streams: in this program *)
(* only the client calls OpenStream (ztptls.go) and the server accepts.    *)
(* With two openers the promises do not hold: both count from 1.           *)
(***************************************************************************)
EXTENDS ZtpStreams, ZtpFrame, SequenceTheorems, TLAPS

OneOpener == \E p \in Peers : Openers \subseteq {p}

Opener   == CHOOSE p \in Peers : Openers \subseteq {p}
Acceptor == Other(Opener)

\* A session has one end of every stream, always of the same origin.
Side(p)   == IF p = Opener THEN "local" ELSE "remote"
End(p, i) == <<i, Side(p)>>

\* A stream that is, or was, in the map of p; one that was.
Over(p, i) == End(p, i) \in isClosed[p] \cup remoteClosed[p]
Seen(p, i) == streams[p][i] # "none" \/ Over(p, i)
Dead(p, i) == streams[p][i] = "none" /\ Over(p, i)

\* What is on its way from p, and what processLoop of q is busy with.
OnWire(p)    == {wire[p][k] : k \in 1..Len(wire[p])}
Tells(p, i)  == \E f \in OnWire(p) : f.id = i
Busy(q, i)   == task[q].type # "none" /\ task[q].id = i
IsOpening(q, i) == task[q].type = "open" /\ task[q].id = i

\* The frame that opens stream i has not been sent.
Unsent(i) == i >= nextStream[Opener] \/ opening[Opener][i] # "idle"

\* The frame that opens stream i has been sent and not been handled.
Pending(i) ==
  \/ IsOpening(Acceptor, i)
  \/ \E f \in OnWire(Opener) : f.type = "open" /\ f.id = i

------------------------------------------------------------------------------
(* The inductive invariant *)

Sides ==
  /\ \A p \in Peers : \A i \in Ids : streams[p][i] \in {"none", Side(p)}
  /\ \A p \in Peers : \A o \in held[p] \cup remoteClosed[p] : o[2] = Side(p)
  /\ \A i \in Ids : opening[Acceptor][i] = "idle"
  /\ acceptCh[Opener] = <<>>
  /\ task[Opener].type # "open"
  /\ \A f \in OnWire(Acceptor) : f.type # "open"

Calls ==
  /\ \A p \in Peers : isClosed[p] \cup writing[p] \subseteq held[p]
  /\ \A p \in Peers : \A i \in Ids : End(p, i) \in held[p] => Seen(p, i)
  /\ \A p \in Peers : \A k \in 1..Len(acceptCh[p]) : Seen(p, acceptCh[p][k])
  /\ \A p \in Peers : \A i \in Ids :
       opening[p][i] = "registered" => Seen(p, i)
  /\ \A p \in Peers : \A o \in Objects :
       /\ closing[p][o] # "idle" => o \in isClosed[p]
       /\ closing[p][o] = "removed" => streams[p][o[1]] = "none"

\* An identifier is used by one call of OpenStream, and by nobody before it.
UsedOnce(i) ==
  /\ opening[Opener][i] # "idle" => i < nextStream[Opener]
  /\ i >= nextStream[Opener] \/ opening[Opener][i] = "alloc" => ~Seen(Opener, i)
  /\ Unsent(i) =>
       /\ ~Tells(Opener, i) /\ ~Busy(Acceptor, i)
       /\ End(Opener, i) \notin held[Opener] /\ ~Seen(Acceptor, i)
  /\ Seen(Acceptor, i) \/ Tells(Opener, i) \/ Busy(Acceptor, i)
       => Seen(Opener, i)
  /\ Tells(Acceptor, i) \/ Busy(Opener, i) => Seen(Acceptor, i)

Fresh == \A i \in Ids : UsedOnce(i)

\* While its loops run, the opener's frames arrive.
OpensArrive ==
  session[Opener] # "gone" =>
    \A i \in Ids :
      End(Opener, i) \in held[Opener] => Seen(Acceptor, i) \/ Pending(i)

\* The frame that opens a stream finds nothing of it at the acceptor.
OpensAreNews ==
  /\ \A i \in Ids : Pending(i) => ~Seen(Acceptor, i)
  /\ task[Acceptor].type = "open" => task[Acceptor].found = "none"

\* It comes once, and before all others of the stream.
OpensComeOnce ==
  \A k \in 1..Len(wire[Opener]) :
    wire[Opener][k].type = "open" =>
      /\ ~Busy(Acceptor, wire[Opener][k].id)
      /\ \A j \in 1..Len(wire[Opener]) :
           wire[Opener][j].id = wire[Opener][k].id /\ j # k
             => j > k /\ wire[Opener][j].type # "open"

OpensComeFirst ==
  /\ \A k \in 1..Len(wire[Opener]) :
       wire[Opener][k].type # "open" =>
         \/ Seen(Acceptor, wire[Opener][k].id)
         \/ IsOpening(Acceptor, wire[Opener][k].id)
         \/ \E j \in 1..Len(wire[Opener]) :
              /\ j < k
              /\ wire[Opener][j].type = "open"
              /\ wire[Opener][j].id = wire[Opener][k].id
  /\ task[Acceptor].type = "data" => Seen(Acceptor, task[Acceptor].id)

\* CLOSE and RESET come from a session that has done with the stream.
EndsAreTrue ==
  \A p \in Peers :
    /\ \A f \in OnWire(p) : f.type \in {"close", "reset"} => Dead(p, f.id)
    /\ task[p].type = "data" /\ task[p].found = "none" => Dead(p, task[p].id)
    /\ \A i \in Ids :
         session[p] = "open" /\ End(p, i) \in remoteClosed[p]
           => Dead(Other(p), i)

\* A CLOSE is on its way or will be sent.
Closing(p, i) ==
  \/ closing[p][End(p, i)] # "idle"
  \/ \E f \in OnWire(p) : f.type = "close" /\ f.id = i

Agreed(i) ==
  /\ streams[Acceptor][i] # "none" \/ Pending(i)
       => streams[Opener][i] # "none" \/ Closing(Opener, i)
  /\ streams[Opener][i] # "none" /\ opening[Opener][i] = "idle"
       => streams[Acceptor][i] # "none" \/ Pending(i) \/ Closing(Acceptor, i)

BothOpen == (\A p \in Peers : session[p] = "open") /\ ~SendTimeouts

Agreement == BothOpen => \A i \in Ids : Agreed(i)

StreamsInv ==
  /\ TypeOK /\ Sides /\ Calls /\ Fresh
  /\ OpensArrive /\ OpensAreNews /\ OpensComeOnce /\ OpensComeFirst
  /\ EndsAreTrue /\ Agreement

------------------------------------------------------------------------------
(* The two sessions *)

LEMMA Pair ==
  ASSUME NEW p \in Peers
  PROVE  Other(p) \in Peers /\ Other(p) # p /\ Other(Other(p)) = p
BY StreamsAssumption DEF Peers, Other

LEMMA OpenerAndAcceptor ==
  ASSUME OneOpener
  PROVE  /\ Opener \in Peers /\ Acceptor \in Peers
         /\ Acceptor # Opener
         /\ Openers \subseteq {Opener}
         /\ \A p \in Peers : p = Opener \/ p = Acceptor
         /\ Other(Opener) = Acceptor /\ Other(Acceptor) = Opener
<1>1. Opener \in Peers /\ Openers \subseteq {Opener}
  BY Zenon DEF OneOpener, Opener
<1>. QED
  BY <1>1, StreamsAssumption DEF Acceptor, Other, Peers

LEMMA Sided ==
  ASSUME OneOpener
  PROVE  /\ Side(Opener) = "local" /\ Side(Acceptor) = "remote"
         /\ \A p \in Peers : Side(p) \in Origins /\ Side(p) # "none"
         /\ \A p \in Peers : \A i \in Ids : End(p, i) \in Objects
         /\ \A p \in Peers : \A i, j \in Ids : End(p, i) = End(p, j) => i = j
         /\ \A p \in Peers : \A o \in Objects : o[2] = Side(p) => o = End(p, o[1])
         /\ \A p \in Peers : \A i \in Ids : End(p, i)[1] = i /\ End(p, i)[2] = Side(p)
BY OpenerAndAcceptor DEF Side, End, Objects, Origins

------------------------------------------------------------------------------
(* Types *)

\* A frame that is queued (session.go:200-222) fits, and the queue has the
\* frames it had.
LEMMA SendKeepsTypes ==
  ASSUME TypeOK, NEW p \in Peers, NEW f \in Frames, Send(p, f)
  PROVE  /\ wire' \in [Peers -> Seq(Frames)]
         /\ \A q \in Peers : Len(wire'[q]) <= WireCap
<1>1. CASE session[p] = "gone"
  BY <1>1 DEF Send, TypeOK
<1>2. CASE session[p] # "gone"
  <2>1. /\ wire[p] \in Seq(Frames) /\ Len(wire[p]) < WireCap
        /\ wire' = [wire EXCEPT ![p] = Append(wire[p], f)]
    BY <1>2 DEF Send, TypeOK
  <2>2. /\ Append(wire[p], f) \in Seq(Frames)
        /\ Len(Append(wire[p], f)) = Len(wire[p]) + 1
    BY <2>1, AppendProperties
  <2>. QED
    BY <2>1, <2>2, StreamsAssumption, LenProperties DEF TypeOK
<1>. QED
  BY <1>1, <1>2

LEMMA FrameType ==
  ASSUME NEW id \in Ids
  PROVE  /\ \A type \in {"open", "data", "close"} : \A from \in Origins :
              Frame(type, id, from) \in Frames
         /\ Frame("reset", id, "none") \in Frames
BY DEF Frame, Frames

\* What is received is a frame, and the others stay.
LEMMA ReceiveKeepsTypes ==
  ASSUME TypeOK, NEW q \in Peers, Receive(q)
  PROVE  /\ wire' \in [Peers -> Seq(Frames)]
         /\ \A p \in Peers : Len(wire'[p]) <= WireCap
         /\ Arriving(q) \in Frames
<1>. DEFINE p == Other(q)
<1>1. p \in Peers
  BY Pair
<1>2. /\ wire[p] \in Seq(Frames) /\ wire[p] # <<>> /\ Len(wire[p]) <= WireCap
      /\ wire' = [wire EXCEPT ![p] = Tail(wire[p])]
  BY <1>1 DEF Receive, TypeOK
<1>3. Head(wire[p]) \in Frames /\ Tail(wire[p]) \in Seq(Frames)
      /\ Len(Tail(wire[p])) = Len(wire[p]) - 1
  BY <1>2, HeadTailProperties
<1>. QED
  BY <1>1, <1>2, <1>3, StreamsAssumption, LenProperties DEF TypeOK, Arriving

LEMMA InitType == Init => TypeOK
<1>. SUFFICES ASSUME Init PROVE TypeOK
  OBVIOUS
<1>1. <<>> \in Seq(Ids) /\ <<>> \in Seq(Frames) /\ Len(<<>>) = 0
  BY EmptySeq
<1>2. /\ \A p \in Peers : Len(acceptCh[p]) <= AcceptBuf /\ Len(wire[p]) <= WireCap
      /\ NoTask \in Tasks
  BY StreamsAssumption DEF Init, Tasks
<1>. QED
  BY <1>1, <1>2 DEF Init, TypeOK

LEMMA OpenStreamType ==
  ASSUME TypeOK, NEW p \in Peers, OpenStream(p)
  PROVE  TypeOK'
<1>1. CASE OpenAlloc(p)
  BY <1>1 DEF TypeOK, OpenAlloc, sessVars, flagVars
<1>2. ASSUME NEW id \in Ids, OpenRegister(p, id) PROVE TypeOK'
  BY <1>2 DEF TypeOK, OpenRegister, Register, Origins, sessVars, flagVars
<1>3. ASSUME NEW id \in Ids, OpenSend(p, id) PROVE TypeOK'
  <2>1. /\ wire' \in [Peers -> Seq(Frames)]
        /\ \A q \in Peers : Len(wire'[q]) <= WireCap
    <3>1. CASE Send(p, Frame("open", id, "local"))
      BY <3>1, SendKeepsTypes, FrameType DEF Origins
    <3>2. CASE SendFails(p)
      BY <3>2 DEF SendFails, TypeOK
    <3>. QED
      BY <1>3, <3>1, <3>2 DEF OpenSend
  <2>2. held' \in [Peers -> SUBSET Objects]
    <3>1. <<id, "local">> \in Objects
      BY DEF Objects, Origins
    <3>2. held[p] \cup {<<id, "local">>} \in SUBSET Objects
      BY <3>1 DEF TypeOK
    <3>. QED
      BY <1>3, <3>2 DEF OpenSend, TypeOK
  <2>. QED
    BY <1>3, <2>1, <2>2 DEF TypeOK, OpenSend, sessVars, flagVars
<1>. QED
  BY <1>1, <1>2, <1>3 DEF OpenStream

LEMMA AcceptType ==
  ASSUME TypeOK, NEW p \in Peers, Accept(p)
  PROVE  TypeOK'
<1>1. acceptCh[p] \in Seq(Ids) /\ acceptCh[p] # <<>> /\ Len(acceptCh[p]) <= AcceptBuf
  BY DEF Accept, TypeOK
<1>2. Head(acceptCh[p]) \in Ids /\ Tail(acceptCh[p]) \in Seq(Ids)
      /\ Len(Tail(acceptCh[p])) = Len(acceptCh[p]) - 1
  BY <1>1, HeadTailProperties
<1>3. acceptCh' \in [Peers -> Seq(Ids)]
      /\ \A q \in Peers : Len(acceptCh'[q]) <= AcceptBuf
  BY <1>1, <1>2, StreamsAssumption, LenProperties DEF Accept, TypeOK
<1>4. held' \in [Peers -> SUBSET Objects]
  BY <1>2 DEF Accept, TypeOK, Objects, Origins
<1>. QED
  BY <1>3, <1>4 DEF TypeOK, Accept, sessVars, flagVars

LEMMA UseStreamType ==
  ASSUME TypeOK, NEW p \in Peers, NEW o \in Objects, UseStream(p, o)
  PROVE  TypeOK'
<1>o. o[1] \in Ids /\ o[2] \in Origins
  BY DEF Objects
<1>1. CASE WriteStart(p, o)
  BY <1>1 DEF TypeOK, WriteStart, sessVars, flagVars
<1>2. CASE WriteSend(p, o)
  <2>1. /\ wire' \in [Peers -> Seq(Frames)]
        /\ \A q \in Peers : Len(wire'[q]) <= WireCap
    <3>1. CASE Send(p, Frame("data", o[1], o[2]))
      BY <1>o, <3>1, SendKeepsTypes, FrameType
    <3>2. CASE SendFails(p)
      BY <3>2 DEF SendFails, TypeOK
    <3>. QED
      BY <1>2, <3>1, <3>2 DEF WriteSend
  <2>. QED
    BY <1>2, <2>1 DEF TypeOK, WriteSend, sessVars, flagVars
<1>3. CASE CloseMark(p, o)
  BY <1>3 DEF TypeOK, CloseMark, sessVars
<1>4. CASE CloseRemove(p, o)
  BY <1>o, <1>4 DEF TypeOK, CloseRemove, Register, sessVars, flagVars
<1>5. CASE CloseSend(p, o)
  <2>1. /\ wire' \in [Peers -> Seq(Frames)]
        /\ \A q \in Peers : Len(wire'[q]) <= WireCap
    <3>1. CASE Send(p, Frame("close", o[1], o[2]))
      BY <1>o, <3>1, SendKeepsTypes, FrameType
    <3>2. CASE SendFails(p)
      BY <3>2 DEF SendFails, TypeOK
    <3>. QED
      BY <1>5, <3>1, <3>2 DEF CloseSend
  <2>. QED
    BY <1>5, <2>1 DEF TypeOK, CloseSend, sessVars, flagVars
<1>. QED
  BY <1>1, <1>2, <1>3, <1>4, <1>5 DEF UseStream

\* A session forgets streams it has.
LEMMA ForgetType ==
  ASSUME TypeOK, NEW q \in Peers, NEW id \in Ids, Forget(q, id)
  PROVE  /\ streams' \in [Peers -> [Ids -> Origins \cup {"none"}]]
         /\ remoteClosed' \in [Peers -> SUBSET Objects]
<1>1. streams[q][id] # "none" => <<id, streams[q][id]>> \in Objects
  BY DEF TypeOK, Objects
<1>. QED
  BY <1>1 DEF TypeOK, Forget, Register

LEMMA ProcessLoopType ==
  ASSUME TypeOK, NEW q \in Peers, ProcessLoop(q)
  PROVE  TypeOK'
<1>t. task[q] # NoTask => task[q].id \in Ids
  BY DEF TypeOK, Tasks, NoTask
<1>n. NoTask \in Tasks /\ [task EXCEPT ![q] = NoTask] \in [Peers -> Tasks]
  BY DEF TypeOK, Tasks
<1>1. CASE LookUp(q)
  <2>1. Receive(q) /\ Arriving(q) \in Frames
    BY <1>1, ReceiveKeepsTypes DEF LookUp
  <2>2. [type |-> Arriving(q).type, id |-> Arriving(q).id,
         from |-> Arriving(q).from, found |-> streams[q][Arriving(q).id]] \in Tasks
    BY <1>1, <2>1 DEF LookUp, Tasks, Frames, TypeOK
  <2>3. task' \in [Peers -> Tasks]
    BY <1>1, <2>2 DEF LookUp, TypeOK
  <2>. QED
    BY <1>1, <2>1, <2>3, ReceiveKeepsTypes
    DEF TypeOK, LookUp, sessVars, flagVars, appVars
<1>2. CASE HandleEnd(q)
  <2>1. Receive(q) /\ Arriving(q).id \in Ids
    BY <1>2, ReceiveKeepsTypes DEF HandleEnd, Frames
  <2>. QED
    BY <1>2, <2>1, ReceiveKeepsTypes, ForgetType
    DEF TypeOK, HandleEnd, sessVars, appVars
<1>3. CASE HandleOpen(q)
  <2>1. task[q].id \in Ids
    BY <1>3, <1>t DEF HandleOpen, NoTask
  <2>2. /\ Append(acceptCh[q], task[q].id) \in Seq(Ids)
        /\ Len(Append(acceptCh[q], task[q].id)) = Len(acceptCh[q]) + 1
        /\ Len(acceptCh[q]) \in Nat
    BY <2>1, AppendProperties, LenProperties DEF TypeOK
  <2>3. /\ acceptCh' \in [Peers -> Seq(Ids)]
        /\ \A p \in Peers : Len(acceptCh'[p]) <= AcceptBuf
    BY <1>3, <2>2, StreamsAssumption DEF TypeOK, HandleOpen
  <2>4. streams' \in [Peers -> [Ids -> Origins \cup {"none"}]]
    BY <1>3, <2>1 DEF TypeOK, HandleOpen, Register, Origins
  <2>. QED
    BY <1>3, <1>n, <2>3, <2>4
    DEF TypeOK, HandleOpen, Finish, sessVars, appVars, flagVars
<1>4. CASE HandleRefuse(q)
  <2>1. task[q].id \in Ids
    BY <1>4, <1>t DEF HandleRefuse, NoTask
  <2>2. /\ wire' \in [Peers -> Seq(Frames)]
        /\ \A p \in Peers : Len(wire'[p]) <= WireCap
    <3>1. CASE Send(q, Frame("reset", task[q].id, "none"))
      BY <2>1, <3>1, SendKeepsTypes, FrameType
    <3>2. CASE UNCHANGED wire
      BY <3>2 DEF TypeOK
    <3>. QED
      BY <1>4, <3>1, <3>2 DEF HandleRefuse, TryReset
  <2>. QED
    BY <1>4, <1>n, <2>2 DEF TypeOK, HandleRefuse, Finish, sessVars, appVars, flagVars
<1>5. CASE HandleData(q)
  BY <1>5, <1>n DEF TypeOK, HandleData, Finish, sessVars, appVars, flagVars
<1>. QED
  BY <1>1, <1>2, <1>3, <1>4, <1>5 DEF ProcessLoop

LEMMA CloseSessionType ==
  ASSUME TypeOK, NEW p \in Peers, CloseSession(p)
  PROVE  TypeOK'
<1>1. CASE SessionClose(p)
  BY <1>1 DEF TypeOK, SessionClose, appVars, flagVars
<1>2. CASE SessionLost(p)
  BY <1>2 DEF TypeOK, SessionLost, appVars, flagVars
<1>3. CASE SessionEmpty(p)
  <2>1. {<<i, streams[p][i]>> : i \in Registered(p)} \subseteq Objects
    BY DEF TypeOK, Registered, Objects
  <2>. QED
    BY <1>3, <2>1 DEF TypeOK, SessionEmpty, appVars
<1>4. CASE SessionShut(p)
  BY <1>4 DEF TypeOK, SessionShut, appVars, flagVars
<1>5. CASE SessionGone(p)
  <2>1. PICK n \in 0..Len(wire[p]) : wire' = [wire EXCEPT ![p] = SubSeq(wire[p], 1, n)]
    BY <1>5 DEF SessionGone
  <2>2. wire[p] \in Seq(Frames) /\ Len(wire[p]) \in Nat /\ Len(wire[p]) <= WireCap
    BY LenProperties DEF TypeOK
  <2>3. SubSeq(wire[p], 1, n) \in Seq(Frames) /\ Len(SubSeq(wire[p], 1, n)) = n
    BY <2>1, <2>2, SubSeqProperties, ElementOfSeq
  <2>4. /\ wire' \in [Peers -> Seq(Frames)]
        /\ \A q \in Peers : Len(wire'[q]) <= WireCap
    BY <2>1, <2>2, <2>3, StreamsAssumption DEF TypeOK
  <2>. QED
    BY <1>5, <2>4 DEF TypeOK, SessionGone, appVars, flagVars
<1>. QED
  BY <1>1, <1>2, <1>3, <1>4, <1>5 DEF CloseSession

LEMMA NextType == TypeOK /\ [Next]_vars => TypeOK'
<1>. SUFFICES ASSUME TypeOK, [Next]_vars PROVE TypeOK'
  OBVIOUS
<1>1. CASE UNCHANGED vars
  BY <1>1 DEF TypeOK, vars, sessVars, appVars, flagVars
<1>. QED
  BY <1>1, OpenStreamType, AcceptType, UseStreamType, ProcessLoopType,
     CloseSessionType DEF Next

------------------------------------------------------------------------------
(* The wire *)

\* sendFrame adds its frame behind the others.
LEMMA SendAppends ==
  ASSUME TypeOK, NEW p \in Peers, NEW f \in Frames, Send(p, f)
  PROVE  /\ \A q \in Peers : q # p => wire'[q] = wire[q]
         /\ \/ session[p] = "gone" /\ wire' = wire
            \/ /\ Len(wire'[p]) = Len(wire[p]) + 1
               /\ wire'[p][Len(wire[p]) + 1] = f
               /\ \A k \in 1..Len(wire[p]) : wire'[p][k] = wire[p][k]
<1>1. CASE session[p] = "gone"
  BY <1>1 DEF Send
<1>2. CASE session[p] # "gone"
  <2>1. wire[p] \in Seq(Frames) /\ wire' = [wire EXCEPT ![p] = Append(wire[p], f)]
    BY <1>2 DEF Send, TypeOK
  <2>2. /\ Len(Append(wire[p], f)) = Len(wire[p]) + 1
        /\ Append(wire[p], f)[Len(wire[p]) + 1] = f
        /\ \A k \in 1..Len(wire[p]) : Append(wire[p], f)[k] = wire[p][k]
    BY <2>1, AppendProperties
  <2>3. wire'[p] = Append(wire[p], f) /\ \A q \in Peers : q # p => wire'[q] = wire[q]
    BY <2>1 DEF TypeOK
  <2>. QED
    BY <2>2, <2>3
<1>. QED
  BY <1>1, <1>2

LEMMA SendOnWire ==
  ASSUME TypeOK, NEW p \in Peers, NEW f \in Frames, Send(p, f)
  PROVE  /\ \A q \in Peers : q # p => OnWire(q)' = OnWire(q)
         /\ OnWire(p) \subseteq OnWire(p)'
         /\ OnWire(p)' \subseteq OnWire(p) \cup {f}
         /\ session[p] # "gone" => f \in OnWire(p)'
<1>1. Len(wire[p]) \in Nat
  BY LenProperties DEF TypeOK
<1>2. \A q \in Peers : q # p => OnWire(q)' = OnWire(q)
  BY SendAppends DEF OnWire
<1>3. CASE session[p] = "gone" /\ wire' = wire
  BY <1>2, <1>3 DEF OnWire
<1>4. CASE /\ Len(wire'[p]) = Len(wire[p]) + 1
           /\ wire'[p][Len(wire[p]) + 1] = f
           /\ \A k \in 1..Len(wire[p]) : wire'[p][k] = wire[p][k]
  <2>1. OnWire(p) \subseteq OnWire(p)'
    <3>. SUFFICES ASSUME NEW k \in 1..Len(wire[p]) PROVE wire[p][k] \in OnWire(p)'
      BY DEF OnWire
    <3>1. k \in 1..Len(wire'[p]) /\ wire'[p][k] = wire[p][k]
      BY <1>1, <1>4
    <3>. QED
      BY <3>1 DEF OnWire
  <2>2. OnWire(p)' \subseteq OnWire(p) \cup {f}
    <3>. SUFFICES ASSUME NEW k \in 1..Len(wire'[p])
                  PROVE  wire'[p][k] \in OnWire(p) \cup {f}
      BY DEF OnWire
    <3>1. k \in 1..Len(wire[p]) \/ k = Len(wire[p]) + 1
      BY <1>1, <1>4
    <3>. QED
      BY <1>4, <3>1 DEF OnWire
  <2>3. f \in OnWire(p)'
    <3>1. Len(wire[p]) + 1 \in 1..Len(wire'[p])
      BY <1>1, <1>4
    <3>. QED
      BY <1>4, <3>1 DEF OnWire
  <2>. QED
    BY <1>2, <2>1, <2>2, <2>3
<1>. QED
  BY <1>3, <1>4, SendAppends

\* The transport keeps the order: the first frame is handled first.
LEMMA ReceiveTakesFirst ==
  ASSUME TypeOK, NEW q \in Peers, Receive(q)
  PROVE  /\ wire'[q] = wire[q]
         /\ Len(wire[Other(q)]) \in Nat \ {0}
         /\ Len(wire'[Other(q)]) = Len(wire[Other(q)]) - 1
         /\ wire[Other(q)][1] = Arriving(q)
         /\ \A k \in 1..(Len(wire[Other(q)]) - 1) :
              wire'[Other(q)][k] = wire[Other(q)][k + 1]
<1>. DEFINE p == Other(q)
<1>1. p \in Peers /\ p # q
  BY Pair
<1>2. /\ wire[p] \in Seq(Frames) /\ wire[p] # <<>>
      /\ wire' = [wire EXCEPT ![p] = Tail(wire[p])]
  BY <1>1 DEF Receive, TypeOK
<1>3. /\ Len(wire[p]) \in Nat \ {0} /\ Head(wire[p]) = wire[p][1]
      /\ Len(Tail(wire[p])) = Len(wire[p]) - 1
      /\ \A k \in 1..(Len(wire[p]) - 1) : Tail(wire[p])[k] = wire[p][k + 1]
  BY <1>2, HeadTailProperties, EmptySeq, LenProperties
<1>4. wire'[p] = Tail(wire[p]) /\ wire'[q] = wire[q]
  BY <1>1, <1>2 DEF TypeOK
<1>. QED
  BY <1>3, <1>4 DEF Arriving

LEMMA ReceiveOnWire ==
  ASSUME TypeOK, NEW q \in Peers, Receive(q)
  PROVE  /\ OnWire(q)' = OnWire(q)
         /\ OnWire(Other(q))' \subseteq OnWire(Other(q))
         /\ OnWire(Other(q)) \subseteq OnWire(Other(q))' \cup {Arriving(q)}
         /\ Arriving(q) \in OnWire(Other(q)) /\ Arriving(q) \in Frames
<1>. DEFINE p == Other(q)
<1>1. /\ wire'[q] = wire[q] /\ Len(wire[p]) \in Nat \ {0}
      /\ Len(wire'[p]) = Len(wire[p]) - 1 /\ wire[p][1] = Arriving(q)
      /\ \A k \in 1..(Len(wire[p]) - 1) : wire'[p][k] = wire[p][k + 1]
  BY ReceiveTakesFirst
<1>2. OnWire(q)' = OnWire(q)
  BY <1>1 DEF OnWire
<1>3. OnWire(p)' \subseteq OnWire(p)
  <2>. SUFFICES ASSUME NEW k \in 1..(Len(wire[p]) - 1)
                PROVE  wire'[p][k] \in OnWire(p)
    BY <1>1 DEF OnWire
  <2>. QED
    BY <1>1 DEF OnWire
<1>4. OnWire(p) \subseteq OnWire(p)' \cup {Arriving(q)}
  <2>. SUFFICES ASSUME NEW k \in 1..Len(wire[p]), k # 1
                PROVE  wire[p][k] \in OnWire(p)'
    BY <1>1 DEF OnWire
  <2>1. k - 1 \in 1..(Len(wire[p]) - 1) /\ (k - 1) + 1 = k
    BY <1>1
  <2>2. wire'[p][k - 1] = wire[p][k]
    BY <1>1, <2>1
  <2>. QED
    BY <1>1, <2>1, <2>2 DEF OnWire
<1>5. Arriving(q) \in OnWire(p)
  BY <1>1 DEF OnWire
<1>. QED
  BY <1>2, <1>3, <1>4, <1>5, ReceiveKeepsTypes

LEMMA FramesOnWire ==
  ASSUME TypeOK, NEW p \in Peers
  PROVE  /\ \A f \in OnWire(p) : f \in Frames /\ f.id \in Ids
         /\ \A k \in 1..Len(wire[p]) : wire[p][k] \in Frames /\ wire[p][k].id \in Ids
<1>1. wire[p] \in Seq(Frames)
  BY DEF TypeOK
<1>2. \A k \in 1..Len(wire[p]) : wire[p][k] \in Frames
  BY <1>1, ElementOfSeq
<1>3. \A f \in Frames : f.id \in Ids
  BY DEF Frames
<1>. QED
  BY <1>2, <1>3 DEF OnWire

------------------------------------------------------------------------------
(* Every action keeps the invariant *)

\* Who remembers a stream is decided by three variables.
LEMMA SameMemory ==
  ASSUME UNCHANGED <<streams, isClosed, remoteClosed>>
  PROVE  \A p, i : (Seen(p, i)' <=> Seen(p, i)) /\ (Dead(p, i)' <=> Dead(p, i))
BY DEF Seen, Dead, Over, End, Side

LEMMA SameWire ==
  ASSUME UNCHANGED wire
  PROVE  \A p : OnWire(p)' = OnWire(p) /\ \A i : Tells(p, i)' <=> Tells(p, i)
BY DEF OnWire, Tells

LEMMA SameTask ==
  ASSUME UNCHANGED task
  PROVE  \A p, i : /\ Busy(p, i)' <=> Busy(p, i)
                   /\ IsOpening(p, i)' <=> IsOpening(p, i)
BY DEF Busy, IsOpening

LEMMA SamePending ==
  ASSUME UNCHANGED <<wire, task>>
  PROVE  \A i : Pending(i)' <=> Pending(i)
BY SameWire, SameTask DEF Pending

LEMMA SameClosing ==
  ASSUME UNCHANGED <<wire, closing>>
  PROVE  \A p, i : Closing(p, i)' <=> Closing(p, i)
BY SameWire DEF Closing, End, Side

LEMMA IdsAreNumbers == \A i \in Ids : i \in Nat
BY StreamsAssumption DEF Ids

LEMMA TaskIds ==
  ASSUME TypeOK, NEW q \in Peers, task[q].type # "none"
  PROVE  task[q].id \in Ids /\ task[q].type \in {"open", "data"}
BY DEF TypeOK, Tasks, NoTask

\* What Calls says of streams that are remembered stays true.
LEMMA CallsStay ==
  ASSUME TypeOK, Calls,
         \A q \in Peers : \A i \in Ids : Seen(q, i) => Seen(q, i)',
         \A q \in Peers : isClosed'[q] \cup writing'[q] \subseteq held'[q],
         \A q \in Peers : \A i \in Ids :
           /\ End(q, i) \in held'[q] => End(q, i) \in held[q] \/ Seen(q, i)'
           /\ opening'[q][i] = "registered"
                => opening[q][i] = "registered" \/ Seen(q, i)',
         \A q \in Peers :
           \/ acceptCh'[q] = acceptCh[q]
           \/ \A k \in 1..Len(acceptCh'[q]) : Seen(q, acceptCh[q][k])',
         \A q \in Peers : \A o \in Objects :
           /\ closing'[q][o] # "idle" => o \in isClosed'[q]
           /\ closing'[q][o] = "removed" => streams'[q][o[1]] = "none"
  PROVE  Calls'
<1>1. ASSUME NEW q \in Peers, NEW k \in 1..Len(acceptCh'[q])
      PROVE  Seen(q, acceptCh[q][k])'
  <2>. SUFFICES ASSUME acceptCh'[q] = acceptCh[q] PROVE Seen(q, acceptCh[q][k])'
    BY <1>1
  <2>1. acceptCh[q] \in Seq(Ids) /\ k \in 1..Len(acceptCh[q])
    BY DEF TypeOK
  <2>2. acceptCh[q][k] \in Ids /\ Seen(q, acceptCh[q][k])
    BY <2>1, ElementOfSeq DEF Calls
  <2>. QED
    BY <2>2
<1>2. ASSUME NEW q \in Peers, NEW i \in Ids
      PROVE  /\ End(q, i) \in held'[q] => Seen(q, i)'
             /\ opening'[q][i] = "registered" => Seen(q, i)'
  BY DEF Calls
<1>. QED
  BY <1>1, <1>2 DEF Calls, End, Side

\* A session that has done with a stream has done with it for good, so what it
\* said of it stays true.
LEMMA EndsStayTrue ==
  ASSUME TypeOK, EndsAreTrue,
         \A q \in Peers : \A i \in Ids : Dead(q, i) => Dead(q, i)',
         \A q \in Peers : \A f \in OnWire(q)' :
           f.type \in {"close", "reset"} => f \in OnWire(q) \/ Dead(q, f.id)',
         \A q \in Peers :
           \/ task'[q] = task[q]
           \/ task'[q].type = "data" /\ task'[q].found = "none"
                => Dead(q, task[q].id)',
         \A q \in Peers :
           session'[q] = "open" =>
             /\ session[q] = "open"
             /\ \A i \in Ids : End(q, i) \in remoteClosed'[q] =>
                  End(q, i) \in remoteClosed[q] \/ Dead(Other(q), i)'
  PROVE  EndsAreTrue'
<1>. SUFFICES ASSUME NEW q \in Peers
     PROVE
       /\ \A f \in OnWire(q)' : f.type \in {"close", "reset"} => Dead(q, f.id)'
       /\ task'[q].type = "data" /\ task'[q].found = "none"
            => Dead(q, task[q].id)'
       /\ \A i \in Ids :
            session'[q] = "open" /\ End(q, i) \in remoteClosed'[q]
              => Dead(Other(q), i)'
  BY DEF EndsAreTrue, End, Side, Other
<1>1. \A f \in OnWire(q)' : f.type \in {"close", "reset"} => Dead(q, f.id)'
  <2>. SUFFICES ASSUME NEW f \in OnWire(q)', f.type \in {"close", "reset"},
                       f \in OnWire(q)
                PROVE  Dead(q, f.id)'
    OBVIOUS
  <2>1. f.id \in Ids /\ Dead(q, f.id)
    BY FramesOnWire DEF EndsAreTrue
  <2>. QED
    BY <2>1
<1>2. task'[q].type = "data" /\ task'[q].found = "none" => Dead(q, task[q].id)'
  <2>. SUFFICES ASSUME task'[q] = task[q], task[q].type = "data",
                       task[q].found = "none"
                PROVE  Dead(q, task[q].id)'
    OBVIOUS
  <2>1. task[q].id \in Ids /\ Dead(q, task[q].id)
    BY TaskIds DEF EndsAreTrue
  <2>. QED
    BY <2>1
<1>3. ASSUME NEW i \in Ids, session'[q] = "open", End(q, i) \in remoteClosed'[q]
      PROVE  Dead(Other(q), i)'
  <2>1. Other(q) \in Peers
    BY Pair
  <2>2. Dead(Other(q), i) \/ Dead(Other(q), i)'
    BY <1>3 DEF EndsAreTrue
  <2>. QED
    BY <2>1, <2>2
<1>. QED
  BY <1>1, <1>2, <1>3

LEMMA OpenAllocKeeps ==
  ASSUME OneOpener, StreamsInv, NEW p \in Peers, OpenAlloc(p)
  PROVE  StreamsInv'
<1>. USE DEF StreamsInv
<1>1. TypeOK'
  BY OpenStreamType DEF OpenStream
<1>2. /\ p = Opener /\ nextStream[p] \in Nat
      /\ nextStream'[p] = nextStream[p] + 2
      /\ \A i \in Ids : \/ opening'[p][i] = opening[p][i]
                        \/ i = nextStream[p] /\ opening'[p][i] = "alloc"
      /\ \A q \in Peers : q # p => opening'[q] = opening[q]
  BY OpenerAndAcceptor DEF OpenAlloc, TypeOK
<1>3. UNCHANGED <<streams, acceptCh, session, task, writing, closing, held,
                  isClosed, remoteClosed, wire>>
  BY DEF OpenAlloc, sessVars, flagVars
<1>m. \A q, i : (Seen(q, i)' <=> Seen(q, i)) /\ (Dead(q, i)' <=> Dead(q, i))
  BY <1>3, SameMemory
<1>w. \A q : OnWire(q)' = OnWire(q) /\ \A i : Tells(q, i)' <=> Tells(q, i)
  BY <1>3, SameWire
<1>t. \A q, i : (Busy(q, i)' <=> Busy(q, i)) /\ (IsOpening(q, i)' <=> IsOpening(q, i))
  BY <1>3, SameTask
<1>p. \A i : Pending(i)' <=> Pending(i)
  BY <1>3, SamePending
<1>c. \A q, i : Closing(q, i)' <=> Closing(q, i)
  BY <1>3, SameClosing
<1>4. Sides'
  BY <1>2, <1>3, <1>w, OpenerAndAcceptor DEF Sides, Side
<1>5. Calls'
  BY <1>2, <1>3, <1>m, OpenerAndAcceptor DEF Calls, End, Side
<1>6. Fresh'
  <2>. SUFFICES ASSUME NEW i \in Ids PROVE UsedOnce(i)'
    BY DEF Fresh
  <2>1. i \in Nat /\ UsedOnce(i)
    BY IdsAreNumbers DEF Fresh
  <2>. QED
    BY <1>2, <1>3, <1>m, <1>w, <1>t, <2>1 DEF UsedOnce, Unsent, End, Side
<1>7. OpensArrive' /\ OpensAreNews' /\ OpensComeOnce' /\ OpensComeFirst'
  BY <1>3, <1>m, <1>t, <1>p
  DEF OpensArrive, OpensAreNews, OpensComeOnce, OpensComeFirst, End, Side
<1>8. EndsAreTrue'
  BY <1>3, <1>m, <1>w DEF EndsAreTrue, End, Side
<1>9. Agreement'
  BY <1>2, <1>3, <1>c, <1>p, OpenerAndAcceptor DEF Agreement, BothOpen, Agreed
<1>. QED
  BY <1>1, <1>4, <1>5, <1>6, <1>7, <1>8, <1>9

LEMMA OpenRegisterKeeps ==
  ASSUME OneOpener, StreamsInv, NEW p \in Peers, NEW id \in Ids, OpenRegister(p, id)
  PROVE  StreamsInv'
<1>. USE DEF StreamsInv
<1>1. TypeOK'
  BY OpenStreamType DEF OpenStream
<1>2. /\ p = Opener /\ opening[p][id] = "alloc" /\ ~Seen(p, id)
      /\ id \in Nat /\ nextStream[p] \in Nat /\ id < nextStream[p]
  BY OpenerAndAcceptor, IdsAreNumbers DEF OpenRegister, Sides, Fresh, UsedOnce, TypeOK
<1>3. /\ opening'[p][id] = "registered" /\ streams'[p][id] = "local"
      /\ \A i \in Ids : i # id => /\ opening'[p][i] = opening[p][i]
                                  /\ streams'[p][i] = streams[p][i]
      /\ \A q \in Peers : q # p => opening'[q] = opening[q] /\ streams'[q] = streams[q]
  BY DEF OpenRegister, Register, TypeOK
<1>4. UNCHANGED <<nextStream, acceptCh, session, task, writing, closing, held,
                  isClosed, remoteClosed, wire>>
  BY DEF OpenRegister, sessVars, flagVars
<1>m. \A q \in Peers : \A i \in Ids :
        /\ Seen(q, i)' <=> Seen(q, i) \/ (q = p /\ i = id)
        /\ Dead(q, i)' <=> Dead(q, i)
  BY <1>2, <1>3, <1>4 DEF Seen, Dead, Over, End, Side
<1>w. \A q : OnWire(q)' = OnWire(q) /\ \A i : Tells(q, i)' <=> Tells(q, i)
  BY <1>4, SameWire
<1>t. \A q, i : (Busy(q, i)' <=> Busy(q, i)) /\ (IsOpening(q, i)' <=> IsOpening(q, i))
  BY <1>4, SameTask
<1>p. \A i : Pending(i)' <=> Pending(i)
  BY <1>4, SamePending
<1>c. \A q, i : Closing(q, i)' <=> Closing(q, i)
  BY <1>4, SameClosing
<1>5. Sides'
  BY <1>2, <1>3, <1>4, <1>w, OpenerAndAcceptor DEF Sides, Side
<1>6. Calls'
  <2>1. \A o \in Objects : closing'[p][o] = "removed" => o[1] # id
    BY <1>2, <1>4, Sided DEF Calls, Sides, Seen, Over
  <2>2. \A q \in Peers : \A o \in Objects :
          /\ closing'[q][o] # "idle" => o \in isClosed'[q]
          /\ closing'[q][o] = "removed" => streams'[q][o[1]] = "none"
    BY <1>3, <1>4, <2>1 DEF Calls, Objects
  <2>3. \A q \in Peers : isClosed'[q] \cup writing'[q] \subseteq held'[q]
    BY <1>4 DEF Calls
  <2>. QED
    BY <1>2, <1>3, <1>4, <1>m, <2>2, <2>3, CallsStay
<1>7. Fresh'
  <2>. SUFFICES ASSUME NEW i \in Ids PROVE UsedOnce(i)'
    BY DEF Fresh
  <2>1. i \in Nat /\ UsedOnce(i)
    BY IdsAreNumbers DEF Fresh
  <2>. QED
    BY <1>2, <1>3, <1>4, <1>m, <1>w, <1>t, <2>1, OpenerAndAcceptor
    DEF UsedOnce, Unsent, End, Side
<1>a. \A i \in Ids : Seen(Acceptor, i)' <=> Seen(Acceptor, i)
  BY <1>2, <1>m, OpenerAndAcceptor
<1>8. OpensArrive' /\ OpensAreNews' /\ OpensComeOnce'
  BY <1>4, <1>a, <1>t, <1>p
  DEF OpensArrive, OpensAreNews, OpensComeOnce, End, Side
<1>9. OpensComeFirst'
  BY <1>4, <1>a, <1>t, FramesOnWire, OpenerAndAcceptor, TaskIds DEF OpensComeFirst
<1>10. EndsAreTrue'
  BY <1>4, <1>m, <1>w, EndsStayTrue
<1>11. Agreement'
  BY <1>2, <1>3, <1>4, <1>c, <1>p, OpenerAndAcceptor DEF Agreement, BothOpen, Agreed
<1>. QED
  BY <1>1, <1>5, <1>6, <1>7, <1>8, <1>9, <1>10, <1>11

\* sendFrame of the frame that opens a stream.
LEMMA OpenSendKeeps ==
  ASSUME OneOpener, StreamsInv, NEW p \in Peers, NEW id \in Ids, OpenSend(p, id)
  PROVE  StreamsInv'
<1>. USE DEF StreamsInv
<1>. DEFINE f == Frame("open", id, "local")
<1>1. TypeOK'
  BY OpenStreamType DEF OpenStream
<1>f. f \in Frames /\ f.type = "open" /\ f.id = id
  BY FrameType DEF Origins, Frame
<1>2. /\ p = Opener /\ opening[p][id] = "registered"
      /\ Seen(p, id) /\ UsedOnce(id) /\ Unsent(id)
  BY OpenerAndAcceptor DEF OpenSend, Sides, Calls, Fresh, Unsent
<1>3. /\ ~Tells(Opener, id) /\ ~Busy(Acceptor, id) /\ ~Seen(Acceptor, id)
      /\ End(Opener, id) \notin held[Opener] /\ streams[Acceptor][id] = "none"
  BY <1>2 DEF UsedOnce, Seen
<1>4. /\ opening'[p][id] = "idle"
      /\ \A i \in Ids : i # id => opening'[p][i] = opening[p][i]
      /\ \A q \in Peers : q # p => opening'[q] = opening[q]
  BY DEF OpenSend, TypeOK
<1>5. UNCHANGED <<nextStream, streams, acceptCh, session, task, writing, closing,
                  isClosed, remoteClosed>>
  BY DEF OpenSend, sessVars, flagVars
<1>6. /\ Send(p, f) \/ UNCHANGED wire
      /\ Send(p, f) \/ SendFails(p)
      /\ \A q \in Peers : q # p => held'[q] = held[q]
      /\ \/ held'[p] = held[p] \cup {End(p, id)} /\ Send(p, f)
         \/ held'[p] = held[p]
  BY <1>2, Sided DEF OpenSend, SendFails, End, TypeOK
<1>m. \A q, i : (Seen(q, i)' <=> Seen(q, i)) /\ (Dead(q, i)' <=> Dead(q, i))
  BY <1>5, SameMemory
<1>t. \A q, i : (Busy(q, i)' <=> Busy(q, i)) /\ (IsOpening(q, i)' <=> IsOpening(q, i))
  BY <1>5, SameTask
<1>w. /\ \A q \in Peers : q # p => OnWire(q)' = OnWire(q)
      /\ OnWire(p) \subseteq OnWire(p)'
      /\ OnWire(p)' \subseteq OnWire(p) \cup {f}
      /\ session[p] # "gone" /\ Send(p, f) => f \in OnWire(p)'
  <2>1. CASE Send(p, f)
    BY <1>f, <2>1, SendOnWire
  <2>2. CASE UNCHANGED wire
    <3>1. \A q : OnWire(q)' = OnWire(q)
      BY <2>2, SameWire
    <3>. QED
      BY <1>f, <2>1, <3>1
  <2>. QED
    BY <1>6, <2>1, <2>2
<1>p. /\ \A i \in Ids : /\ Pending(i) => Pending(i)'
                        /\ Pending(i)' => Pending(i) \/ i = id
      /\ session[p] # "gone" /\ Send(p, f) => Pending(id)'
  BY <1>2, <1>f, <1>w, <1>t DEF Pending
<1>c. \A q \in Peers, i \in Ids : Closing(q, i)' <=> Closing(q, i)
  BY <1>2, <1>5, <1>f, <1>w DEF Closing, End, Side
<1>7. Sides'
  <2>1. \A i \in Ids : opening'[Acceptor][i] = "idle"
    BY <1>2, <1>4, OpenerAndAcceptor DEF Sides
  <2>2. \A q \in Peers : \A o \in held'[q] \cup remoteClosed'[q] : o[2] = Side(q)
    BY <1>2, <1>5, <1>6, Sided DEF Sides
  <2>3. \A g \in OnWire(Acceptor)' : g.type # "open"
    BY <1>2, <1>w, OpenerAndAcceptor DEF Sides
  <2>. QED
    BY <1>5, <2>1, <2>2, <2>3 DEF Sides, Side
<1>8. Calls'
  <2>1. \A q \in Peers : isClosed'[q] \cup writing'[q] \subseteq held'[q]
    BY <1>5, <1>6 DEF Calls
  <2>2. \A q \in Peers : \A i \in Ids :
          /\ End(q, i) \in held'[q] => End(q, i) \in held[q] \/ Seen(q, i)'
          /\ opening'[q][i] = "registered" => opening[q][i] = "registered"
    BY <1>2, <1>4, <1>6, <1>m, Sided
  <2>3. \A q \in Peers : \A o \in Objects :
          /\ closing'[q][o] # "idle" => o \in isClosed'[q]
          /\ closing'[q][o] = "removed" => streams'[q][o[1]] = "none"
    BY <1>5 DEF Calls
  <2>. QED
    BY <1>5, <1>m, <2>1, <2>2, <2>3, CallsStay
<1>9. Fresh'
  <2>. SUFFICES ASSUME NEW i \in Ids PROVE UsedOnce(i)'
    BY DEF Fresh
  <2>1. i \in Nat /\ nextStream[Opener] \in Nat /\ UsedOnce(i) /\ id \in Nat
    BY IdsAreNumbers, OpenerAndAcceptor DEF Fresh, TypeOK
  <2>2. Tells(Acceptor, i)' <=> Tells(Acceptor, i)
    BY <1>2, <1>w, OpenerAndAcceptor DEF Tells
  <2>3. Tells(Opener, i)' => Tells(Opener, i) \/ i = id
    BY <1>2, <1>f, <1>w DEF Tells
  <2>4. CASE i = id
    BY <1>2, <1>3, <1>4, <1>5, <1>m, <1>t, <2>1, <2>2, <2>4
    DEF UsedOnce, Unsent, End, Side
  <2>5. CASE i # id
    <3>1. End(Opener, i) \in held'[Opener] => End(Opener, i) \in held[Opener]
      BY <1>2, <1>6, <2>5, Sided
    <3>2. Unsent(i)' <=> Unsent(i)
      BY <1>2, <1>4, <1>5, <2>5 DEF Unsent
    <3>. QED
      BY <1>2, <1>4, <1>5, <1>m, <1>t, <2>1, <2>2, <2>3, <2>5, <3>1, <3>2
      DEF UsedOnce, End, Side
  <2>. QED
    BY <2>4, <2>5
<1>10. OpensArrive'
  <2>1. \A i \in Ids : session[p] # "gone" /\ End(p, i) \in held'[p]
          => End(p, i) \in held[p] \/ Pending(i)'
    BY <1>2, <1>6, <1>p, Sided
  <2>. QED
    BY <1>2, <1>5, <1>m, <1>p, <2>1 DEF OpensArrive, End, Side
<1>11. OpensAreNews'
  BY <1>3, <1>5, <1>m, <1>p DEF OpensAreNews
<1>12. OpensComeOnce' /\ OpensComeFirst'
  <2>n. Len(wire[Opener]) \in Nat
    BY LenProperties, OpenerAndAcceptor DEF TypeOK
  <2>1. CASE wire' = wire
    BY <1>5, <1>m, <1>t, <2>1 DEF OpensComeOnce, OpensComeFirst
  <2>2. CASE /\ Len(wire'[p]) = Len(wire[p]) + 1
             /\ wire'[p][Len(wire[p]) + 1] = f
             /\ \A k \in 1..Len(wire[p]) : wire'[p][k] = wire[p][k]
    <3>1. \A k \in 1..Len(wire[p]) : wire[p][k].id # id
      BY <1>2, <1>3 DEF Tells, OnWire
    <3>2. \A k \in 1..Len(wire'[p]) : k \in 1..Len(wire[p]) \/ k = Len(wire[p]) + 1
      BY <1>2, <2>2, <2>n
    <3>3. OpensComeOnce'
      <4>. SUFFICES ASSUME NEW k \in 1..Len(wire'[p]), wire'[p][k].type = "open"
           PROVE  /\ ~Busy(Acceptor, wire[p][k].id)'
                  /\ \A j \in 1..Len(wire'[p]) :
                       wire'[p][j].id = wire'[p][k].id /\ j # k
                         => j > k /\ wire'[p][j].type # "open"
        BY <1>2 DEF OpensComeOnce
      <4>1. CASE k = Len(wire[p]) + 1
        BY <1>3, <1>f, <1>t, <2>2, <3>1, <3>2, <4>1
      <4>2. CASE k \in 1..Len(wire[p])
        <5>1. /\ wire'[p][k] = wire[p][k] /\ wire[p][k].id # id
              /\ wire[p][k].type = "open"
          BY <2>2, <3>1, <4>2
        <5>2. /\ ~Busy(Acceptor, wire[p][k].id)
              /\ \A j \in 1..Len(wire[p]) :
                   wire[p][j].id = wire[p][k].id /\ j # k
                     => j > k /\ wire[p][j].type # "open"
          BY <1>2, <4>2, <5>1 DEF OpensComeOnce
        <5>. QED
          BY <1>f, <1>t, <2>2, <3>2, <5>1, <5>2
      <4>. QED
        BY <3>2, <4>1, <4>2
    <3>4. OpensComeFirst'
      <4>. SUFFICES ASSUME NEW k \in 1..Len(wire'[p]), wire'[p][k].type # "open"
           PROVE  \/ Seen(Acceptor, wire[p][k].id)'
                  \/ IsOpening(Acceptor, wire[p][k].id)'
                  \/ \E j \in 1..Len(wire'[p]) :
                       /\ j < k
                       /\ wire'[p][j].type = "open"
                       /\ wire'[p][j].id = wire'[p][k].id
        BY <1>2, <1>5, <1>m DEF OpensComeFirst
      <4>1. k \in 1..Len(wire[p]) /\ wire'[p][k] = wire[p][k]
        BY <1>f, <2>2, <3>2
      <4>2. \/ Seen(Acceptor, wire[p][k].id)
            \/ IsOpening(Acceptor, wire[p][k].id)
            \/ \E j \in 1..Len(wire[p]) :
                 /\ j < k
                 /\ wire[p][j].type = "open"
                 /\ wire[p][j].id = wire[p][k].id
        BY <1>2, <4>1 DEF OpensComeFirst
      <4>3. \A j \in 1..Len(wire[p]) : /\ j \in 1..Len(wire'[p])
                                      /\ wire'[p][j] = wire[p][j]
        BY <2>2, <2>n, <1>2
      <4>. QED
        BY <1>m, <1>t, <4>1, <4>2, <4>3
    <3>. QED
      BY <3>3, <3>4
  <2>. QED
    BY <1>f, <1>6, <2>1, <2>2, SendAppends
<1>13. EndsAreTrue'
  BY <1>2, <1>5, <1>f, <1>m, <1>w, EndsStayTrue
<1>14. Agreement'
  <2>. SUFFICES ASSUME BothOpen', NEW i \in Ids PROVE Agreed(i)'
    BY DEF Agreement
  <2>1. BothOpen /\ Agreed(i) /\ session[p] = "open" /\ session[Acceptor] = "open"
    BY <1>5, OpenerAndAcceptor DEF BothOpen, Agreement
  <2>2. Send(p, f)
    BY <1>6, <2>1 DEF SendFails, Shut, BothOpen
  <2>3. CASE i = id
    <3>1. Pending(i)'
      BY <1>p, <2>1, <2>2, <2>3
    <3>2. End(p, id) \notin remoteClosed[p] /\ End(p, id) \notin isClosed[p]
      <4>1. End(p, id) \in remoteClosed[p] => Dead(Acceptor, id)
        BY <1>2, <2>1, OpenerAndAcceptor DEF EndsAreTrue
      <4>. QED
        BY <1>2, <1>3, <4>1 DEF Dead, Seen, Calls
    <3>3. streams[p][id] # "none"
      BY <1>2, <3>2 DEF Seen, Over
    <3>. QED
      BY <1>2, <1>5, <2>3, <3>1, <3>3 DEF Agreed
  <2>4. CASE i # id
    BY <1>2, <1>4, <1>5, <1>c, <1>p, <2>1, <2>4, OpenerAndAcceptor DEF Agreed
  <2>. QED
    BY <2>3, <2>4
<1>. QED
  BY <1>1, <1>7, <1>8, <1>9, <1>10, <1>11, <1>12, <1>13, <1>14

LEMMA AgreementStays ==
  ASSUME OneOpener, Agreement, UNCHANGED <<streams, opening>>,
         BothOpen' => BothOpen,
         BothOpen' => \A i \in Ids : Pending(i)' <=> Pending(i),
         BothOpen' => \A q \in Peers : \A i \in Ids :
                        Closing(q, i) => Closing(q, i)'
  PROVE  Agreement'
<1>. SUFFICES ASSUME BothOpen', NEW i \in Ids PROVE Agreed(i)'
  BY DEF Agreement
<1>1. Agreed(i)
  BY DEF Agreement
<1>. QED
  BY <1>1, OpenerAndAcceptor DEF Agreed

\* A session says something of a stream that it knows, or nothing at all.
Says(p, f) ==
  /\ UNCHANGED <<nextStream, streams, acceptCh, session, opening, held,
                 isClosed, remoteClosed>>
  /\ \A q \in Peers :
       task'[q] = task[q] \/ (task[q].type = "data" /\ task'[q] = NoTask)
  /\ Send(p, f) \/ UNCHANGED wire
  /\ f \in Frames /\ f.type # "open"
  /\ Seen(p, f.id)
  /\ p = Opener => ~Unsent(f.id)
  /\ p = Opener /\ session[p] # "gone" => Seen(Acceptor, f.id) \/ Pending(f.id)
  /\ f.type \in {"close", "reset"} => Dead(p, f.id)

LEMMA SaysWire ==
  ASSUME OneOpener, StreamsInv, NEW p \in Peers, NEW f, Says(p, f)
  PROVE  /\ \A q \in Peers : q # p => OnWire(q)' = OnWire(q)
         /\ \A q \in Peers : OnWire(q) \subseteq OnWire(q)'
         /\ OnWire(p)' \subseteq OnWire(p) \cup {f}
         /\ session[p] # "gone" /\ Send(p, f) => f \in OnWire(p)'
<1>1. f \in Frames /\ TypeOK
  BY DEF Says, StreamsInv
<1>2. CASE Send(p, f)
  BY <1>1, <1>2, SendOnWire
<1>3. CASE UNCHANGED wire
  <2>1. \A q : OnWire(q)' = OnWire(q)
    BY <1>3, SameWire
  <2>. QED
    BY <1>1, <1>2, <2>1
<1>. QED
  BY <1>2, <1>3 DEF Says

LEMMA SaysPending ==
  ASSUME OneOpener, StreamsInv, NEW p \in Peers, NEW f, Says(p, f)
  PROVE  /\ \A q \in Peers : \A i : Busy(q, i)' => Busy(q, i)
         /\ \A i : IsOpening(Acceptor, i)' <=> IsOpening(Acceptor, i)
         /\ \A i : Pending(i)' <=> Pending(i)
<1>1. \A q \in Peers : \A i : Busy(q, i)' => Busy(q, i)
  BY DEF Says, Busy, NoTask
<1>2. \A i : IsOpening(Acceptor, i)' <=> IsOpening(Acceptor, i)
  BY OpenerAndAcceptor DEF Says, IsOpening, NoTask
<1>3. \A g : g.type = "open" => (g \in OnWire(Opener)' <=> g \in OnWire(Opener))
  BY SaysWire, OpenerAndAcceptor DEF Says
<1>. QED
  BY <1>1, <1>2, <1>3 DEF Pending

LEMMA SaysInOrder ==
  ASSUME OneOpener, StreamsInv, NEW p \in Peers, NEW f, Says(p, f)
  PROVE  OpensComeOnce' /\ OpensComeFirst'
<1>. USE DEF StreamsInv
<1>m. \A q, i : Seen(q, i)' <=> Seen(q, i)
  BY SameMemory DEF Says
<1>t. /\ \A i : Busy(Acceptor, i)' => Busy(Acceptor, i)
      /\ \A i : IsOpening(Acceptor, i)' <=> IsOpening(Acceptor, i)
  BY SaysPending, OpenerAndAcceptor
<1>d. task'[Acceptor].type = "data" => Seen(Acceptor, task[Acceptor].id)'
  BY <1>m, OpenerAndAcceptor DEF Says, OpensComeFirst, NoTask
<1>n. Len(wire[Opener]) \in Nat
  BY LenProperties, OpenerAndAcceptor DEF TypeOK
<1>1. CASE wire'[Opener] = wire[Opener]
  BY <1>m, <1>t, <1>d, <1>1 DEF OpensComeOnce, OpensComeFirst
<1>2. CASE /\ p = Opener /\ session[p] # "gone"
           /\ Len(wire'[p]) = Len(wire[p]) + 1
           /\ wire'[p][Len(wire[p]) + 1] = f
           /\ \A k \in 1..Len(wire[p]) : wire'[p][k] = wire[p][k]
  <2>1. \A k \in 1..Len(wire'[p]) : k \in 1..Len(wire[p]) \/ k = Len(wire[p]) + 1
    BY <1>2, <1>n
  <2>2. \A k \in 1..Len(wire[p]) : k \in 1..Len(wire'[p]) /\ wire'[p][k] = wire[p][k]
    BY <1>2, <1>n
  <2>f. f.type # "open" /\ (Seen(Acceptor, f.id) \/ Pending(f.id))
    BY <1>2 DEF Says
  <2>3. OpensComeOnce'
    <3>. SUFFICES ASSUME NEW k \in 1..Len(wire'[p]), wire'[p][k].type = "open"
         PROVE  /\ ~Busy(Acceptor, wire[p][k].id)'
                /\ \A j \in 1..Len(wire'[p]) :
                     wire'[p][j].id = wire'[p][k].id /\ j # k
                       => j > k /\ wire'[p][j].type # "open"
      BY <1>2 DEF OpensComeOnce
    <3>1. k \in 1..Len(wire[p]) /\ wire'[p][k] = wire[p][k]
      BY <1>2, <2>1, <2>f
    <3>2. /\ ~Busy(Acceptor, wire[p][k].id)
          /\ \A j \in 1..Len(wire[p]) :
               wire[p][j].id = wire[p][k].id /\ j # k
                 => j > k /\ wire[p][j].type # "open"
      BY <1>2, <3>1 DEF OpensComeOnce
    <3>. QED
      BY <1>2, <1>n, <1>t, <2>1, <2>f, <3>1, <3>2
  <2>4. OpensComeFirst'
    <3>. SUFFICES ASSUME NEW k \in 1..Len(wire'[p]), wire'[p][k].type # "open"
         PROVE  \/ Seen(Acceptor, wire[p][k].id)'
                \/ IsOpening(Acceptor, wire[p][k].id)'
                \/ \E j \in 1..Len(wire'[p]) :
                     /\ j < k
                     /\ wire'[p][j].type = "open"
                     /\ wire'[p][j].id = wire'[p][k].id
      BY <1>2, <1>d DEF OpensComeFirst
    <3>1. CASE k \in 1..Len(wire[p])
      <4>1. \/ Seen(Acceptor, wire[p][k].id)
            \/ IsOpening(Acceptor, wire[p][k].id)
            \/ \E j \in 1..Len(wire[p]) :
                 /\ j < k
                 /\ wire[p][j].type = "open"
                 /\ wire[p][j].id = wire[p][k].id
        BY <1>2, <2>2, <3>1 DEF OpensComeFirst
      <4>. QED
        BY <1>m, <1>t, <2>2, <3>1, <4>1
    <3>2. CASE k = Len(wire[p]) + 1
      <4>1. \/ Seen(Acceptor, f.id)
            \/ IsOpening(Acceptor, f.id)
            \/ \E j \in 1..Len(wire[p]) : wire[p][j].type = "open" /\ wire[p][j].id = f.id
        BY <1>2, <2>f DEF Pending, OnWire
      <4>2. \A j \in 1..Len(wire[p]) : j < k
        BY <1>2, <1>n, <3>2
      <4>. QED
        BY <1>2, <1>m, <1>t, <2>2, <3>2, <4>1, <4>2
    <3>. QED
      BY <2>1, <3>1, <3>2
  <2>. QED
    BY <2>3, <2>4
<1>3. CASE Send(p, f)
  <2>1. /\ \A q \in Peers : q # p => wire'[q] = wire[q]
        /\ \/ session[p] = "gone" /\ wire' = wire
           \/ /\ Len(wire'[p]) = Len(wire[p]) + 1
              /\ wire'[p][Len(wire[p]) + 1] = f
              /\ \A k \in 1..Len(wire[p]) : wire'[p][k] = wire[p][k]
    BY <1>3, SendAppends DEF Says
  <2>2. session[p] = "gone" => wire' = wire
    BY <1>3 DEF Send
  <2>. QED
    BY <1>1, <1>2, <2>1, <2>2, OpenerAndAcceptor
<1>. QED
  BY <1>1, <1>3 DEF Says

LEMMA SaysKeeps ==
  ASSUME OneOpener, StreamsInv, NEW p \in Peers, NEW f, Says(p, f)
  PROVE  /\ Sides' /\ Fresh' /\ OpensArrive' /\ OpensAreNews'
         /\ OpensComeOnce' /\ OpensComeFirst' /\ EndsAreTrue'
<1>. USE DEF StreamsInv
<1>1. UNCHANGED <<nextStream, streams, acceptCh, session, opening, held,
                  isClosed, remoteClosed>>
  BY DEF Says
<1>2. \A q \in Peers :
        task'[q] = task[q] \/ (task[q].type = "data" /\ task'[q].type = "none")
  BY DEF Says, NoTask
<1>m. \A q, i : (Seen(q, i)' <=> Seen(q, i)) /\ (Dead(q, i)' <=> Dead(q, i))
  BY <1>1, SameMemory
<1>t. /\ \A q \in Peers : \A i : Busy(q, i)' => Busy(q, i)
      /\ \A i : Pending(i)' <=> Pending(i)
  BY SaysPending
<1>w. /\ \A q \in Peers : q # p => OnWire(q)' = OnWire(q)
      /\ OnWire(p)' \subseteq OnWire(p) \cup {f}
  BY SaysWire
<1>f. /\ f.type # "open" /\ Seen(p, f.id) /\ (p = Opener => ~Unsent(f.id))
      /\ f.type \in {"close", "reset"} => Dead(p, f.id)
  BY DEF Says
<1>3. Sides'
  BY <1>1, <1>2, <1>w, <1>f, OpenerAndAcceptor DEF Sides, Side
<1>4. Fresh'
  <2>. SUFFICES ASSUME NEW i \in Ids PROVE UsedOnce(i)'
    BY DEF Fresh
  <2>1. UsedOnce(i)
    BY DEF Fresh
  <2>2. \A q \in Peers : Tells(q, i)' => Tells(q, i) \/ (q = p /\ f.id = i)
    BY <1>w DEF Tells
  <2>3. Unsent(i)' <=> Unsent(i)
    BY <1>1 DEF Unsent
  <2>. QED
    BY <1>1, <1>m, <1>t, <1>f, <2>1, <2>2, <2>3, OpenerAndAcceptor
    DEF UsedOnce, End, Side
<1>5. OpensArrive'
  BY <1>1, <1>m, <1>t DEF OpensArrive, End, Side
<1>6. OpensAreNews'
  BY <1>2, <1>m, <1>t, OpenerAndAcceptor DEF OpensAreNews
<1>7. EndsAreTrue'
  <2>1. \A q \in Peers : \A g \in OnWire(q)' :
          g.type \in {"close", "reset"} => g \in OnWire(q) \/ Dead(q, g.id)'
    BY <1>m, <1>w, <1>f
  <2>2. \A q \in Peers : \A i \in Ids : Dead(q, i) => Dead(q, i)'
    BY <1>m
  <2>3. \A q \in Peers : \/ task'[q] = task[q]
                         \/ task'[q].type = "data" /\ task'[q].found = "none"
                              => Dead(q, task[q].id)'
    BY <1>2
  <2>4. \A q \in Peers :
          session'[q] = "open" =>
            /\ session[q] = "open"
            /\ \A i \in Ids : End(q, i) \in remoteClosed'[q] =>
                 End(q, i) \in remoteClosed[q] \/ Dead(Other(q), i)'
    BY <1>1
  <2>. QED
    BY <2>1, <2>2, <2>3, <2>4, EndsStayTrue
<1>. QED
  BY <1>3, <1>4, <1>5, <1>6, <1>7, SaysInOrder

LEMMA HeldEnd ==
  ASSUME OneOpener, StreamsInv, NEW p \in Peers, NEW o \in held[p]
  PROVE  /\ o \in Objects /\ o[1] \in Ids /\ o[2] \in Origins
         /\ o = End(p, o[1]) /\ Seen(p, o[1])
         /\ p = Opener => ~Unsent(o[1])
         /\ p = Opener /\ session[p] # "gone"
              => Seen(Acceptor, o[1]) \/ Pending(o[1])
<1>1. o \in Objects /\ o[1] \in Ids /\ o[2] \in Origins
  BY DEF StreamsInv, TypeOK, Objects
<1>2. o = End(p, o[1])
  BY <1>1, Sided DEF StreamsInv, Sides
<1>. QED
  BY <1>1, <1>2 DEF StreamsInv, Calls, Fresh, UsedOnce, OpensArrive

LEMMA WriteStartKeeps ==
  ASSUME OneOpener, StreamsInv, NEW p \in Peers, NEW o \in Objects, WriteStart(p, o)
  PROVE  StreamsInv'
<1>. USE DEF StreamsInv
<1>1. TypeOK'
  BY UseStreamType DEF UseStream
<1>2. UNCHANGED <<nextStream, streams, acceptCh, session, task, opening, closing,
                  held, isClosed, remoteClosed, wire>>
  BY DEF WriteStart, sessVars, flagVars
<1>3. \A q \in Peers : writing'[q] \subseteq held[q]
  BY DEF WriteStart, Calls, TypeOK
<1>m. \A q, i : (Seen(q, i)' <=> Seen(q, i)) /\ (Dead(q, i)' <=> Dead(q, i))
  BY <1>2, SameMemory
<1>w. \A q : OnWire(q)' = OnWire(q) /\ \A i : Tells(q, i)' <=> Tells(q, i)
  BY <1>2, SameWire
<1>t. \A q, i : (Busy(q, i)' <=> Busy(q, i)) /\ (IsOpening(q, i)' <=> IsOpening(q, i))
  BY <1>2, SameTask
<1>p. \A i : Pending(i)' <=> Pending(i)
  BY <1>2, SamePending
<1>c. \A q, i : Closing(q, i)' <=> Closing(q, i)
  BY <1>2, SameClosing
<1>4. Sides'
  BY <1>2, <1>w DEF Sides, Side
<1>5. Calls'
  BY <1>2, <1>3, <1>m DEF Calls, End, Side
<1>6. Fresh'
  <2>. SUFFICES ASSUME NEW i \in Ids PROVE UsedOnce(i)'
    BY DEF Fresh
  <2>. QED
    BY <1>2, <1>m, <1>w, <1>t DEF Fresh, UsedOnce, Unsent, End, Side
<1>7. OpensArrive' /\ OpensAreNews' /\ OpensComeOnce' /\ OpensComeFirst'
  BY <1>2, <1>m, <1>t, <1>p
  DEF OpensArrive, OpensAreNews, OpensComeOnce, OpensComeFirst, End, Side
<1>8. EndsAreTrue'
  BY <1>2, <1>m, <1>w, EndsStayTrue
<1>9. Agreement'
  BY <1>2, <1>c, <1>p, AgreementStays DEF BothOpen
<1>. QED
  BY <1>1, <1>4, <1>5, <1>6, <1>7, <1>8, <1>9

LEMMA WriteSendKeeps ==
  ASSUME OneOpener, StreamsInv, NEW p \in Peers, NEW o \in Objects, WriteSend(p, o)
  PROVE  StreamsInv'
<1>. USE DEF StreamsInv
<1>. DEFINE f == Frame("data", o[1], o[2])
<1>1. TypeOK'
  BY UseStreamType DEF UseStream
<1>2. o \in held[p]
  BY DEF WriteSend, Calls
<1>f. f \in Frames /\ f.type = "data" /\ f.id = o[1]
  BY <1>2, HeldEnd, FrameType DEF Frame
<1>3. UNCHANGED <<nextStream, streams, acceptCh, session, task, opening, closing,
                  held, isClosed, remoteClosed>>
  BY DEF WriteSend, sessVars, flagVars
<1>4. Says(p, f)
  BY <1>2, <1>3, <1>f, HeldEnd DEF Says, WriteSend, SendFails
<1>m. \A q, i : Seen(q, i)' <=> Seen(q, i)
  BY <1>3, SameMemory
<1>5. Calls'
  <2>1. \A q \in Peers : writing'[q] \subseteq held[q]
    BY DEF WriteSend, Calls, TypeOK
  <2>. QED
    BY <1>3, <1>m, <2>1 DEF Calls, End, Side
<1>6. Agreement'
  <2>1. \A q \in Peers : \A i \in Ids : Closing(q, i) => Closing(q, i)'
    BY <1>3, <1>4, SaysWire DEF Closing, End, Side
  <2>. QED
    BY <1>3, <1>4, <2>1, SaysPending, AgreementStays DEF BothOpen
<1>. QED
  BY <1>1, <1>4, <1>5, <1>6, SaysKeeps

LEMMA CloseMarkKeeps ==
  ASSUME OneOpener, StreamsInv, NEW p \in Peers, NEW o \in Objects, CloseMark(p, o)
  PROVE  StreamsInv'
<1>. USE DEF StreamsInv
<1>1. TypeOK'
  BY UseStreamType DEF UseStream
<1>2. UNCHANGED <<nextStream, streams, acceptCh, session, task, opening, writing,
                  held, remoteClosed, wire>>
  BY DEF CloseMark, sessVars
<1>3. /\ o \in held[p] /\ o = End(p, o[1]) /\ Seen(p, o[1]) /\ o[1] \in Ids
      /\ isClosed'[p] = isClosed[p] \cup {o}
      /\ closing'[p][o] = "marked"
      /\ \A x \in Objects : x # o => closing'[p][x] = closing[p][x]
      /\ \A q \in Peers : q # p => /\ isClosed'[q] = isClosed[q]
                                   /\ closing'[q] = closing[q]
  BY HeldEnd DEF CloseMark, TypeOK
<1>m. \A q \in Peers : \A i \in Ids :
        (Seen(q, i)' <=> Seen(q, i)) /\ (Dead(q, i) => Dead(q, i)')
  <2>. SUFFICES ASSUME NEW q \in Peers, NEW i \in Ids
                PROVE  (Seen(q, i)' <=> Seen(q, i)) /\ (Dead(q, i) => Dead(q, i)')
    OBVIOUS
  <2>1. End(q, i) \in isClosed'[q] <=> End(q, i) \in isClosed[q] \/ (q = p /\ i = o[1])
    BY <1>3, Sided
  <2>. QED
    BY <1>2, <1>3, <2>1 DEF Seen, Dead, Over, End, Side
<1>w. \A q : OnWire(q)' = OnWire(q) /\ \A i : Tells(q, i)' <=> Tells(q, i)
  BY <1>2, SameWire
<1>t. \A q, i : (Busy(q, i)' <=> Busy(q, i)) /\ (IsOpening(q, i)' <=> IsOpening(q, i))
  BY <1>2, SameTask
<1>p. \A i : Pending(i)' <=> Pending(i)
  BY <1>2, SamePending
<1>c. \A q \in Peers : \A i \in Ids : Closing(q, i) => Closing(q, i)'
  <2>. SUFFICES ASSUME NEW q \in Peers, NEW i \in Ids
                PROVE  closing[q][End(q, i)] # "idle" => closing'[q][End(q, i)] # "idle"
    BY <1>w DEF Closing, End, Side
  <2>. QED
    BY <1>3, Sided
<1>4. Sides'
  BY <1>2, <1>w DEF Sides, Side
<1>5. Calls'
  <2>1. \A q \in Peers : isClosed'[q] \cup writing'[q] \subseteq held'[q]
    BY <1>2, <1>3 DEF Calls
  <2>2. \A q \in Peers : \A x \in Objects :
          /\ closing'[q][x] # "idle" => x \in isClosed'[q]
          /\ closing'[q][x] = "removed" => streams'[q][x[1]] = "none"
    BY <1>2, <1>3 DEF Calls
  <2>. QED
    BY <1>2, <1>m, <2>1, <2>2, CallsStay
<1>6. Fresh'
  <2>. SUFFICES ASSUME NEW i \in Ids PROVE UsedOnce(i)'
    BY DEF Fresh
  <2>. QED
    BY <1>2, <1>m, <1>w, <1>t, OpenerAndAcceptor
    DEF Fresh, UsedOnce, Unsent, End, Side
<1>a. \A i \in Ids : Seen(Acceptor, i)' <=> Seen(Acceptor, i)
  BY <1>m, OpenerAndAcceptor
<1>7. OpensArrive' /\ OpensAreNews' /\ OpensComeOnce'
  BY <1>2, <1>a, <1>t, <1>p DEF OpensArrive, OpensAreNews, OpensComeOnce, End, Side
<1>8. OpensComeFirst'
  BY <1>2, <1>a, <1>t, FramesOnWire, OpenerAndAcceptor, TaskIds DEF OpensComeFirst
<1>9. EndsAreTrue'
  BY <1>2, <1>m, <1>w, EndsStayTrue
<1>10. Agreement'
  BY <1>2, <1>c, <1>p, AgreementStays DEF BothOpen
<1>. QED
  BY <1>1, <1>4, <1>5, <1>6, <1>7, <1>8, <1>9, <1>10

LEMMA CloseRemoveKeeps ==
  ASSUME OneOpener, StreamsInv, NEW p \in Peers, NEW o \in Objects, CloseRemove(p, o)
  PROVE  StreamsInv'
<1>. USE DEF StreamsInv
<1>1. TypeOK'
  BY UseStreamType DEF UseStream
<1>2. UNCHANGED <<nextStream, acceptCh, session, task, opening, writing, held,
                  isClosed, remoteClosed, wire>>
  BY DEF CloseRemove, sessVars, flagVars
<1>3. PICK i0 \in Ids : o[1] = i0
  BY DEF Objects
<1>4. /\ o \in isClosed[p] /\ o \in held[p] /\ o = End(p, i0)
      /\ closing[p][o] = "marked"
      /\ closing'[p][o] = "removed" /\ streams'[p][i0] = "none"
      /\ \A x \in Objects : x # o => closing'[p][x] = closing[p][x]
      /\ \A i \in Ids : i # i0 => streams'[p][i] = streams[p][i]
      /\ \A q \in Peers : q # p => /\ streams'[q] = streams[q]
                                   /\ closing'[q] = closing[q]
  <2>1. o \in isClosed[p] /\ o \in held[p] /\ closing[p][o] = "marked"
    BY DEF CloseRemove, Calls
  <2>2. o = End(p, i0)
    BY <1>3, <2>1, HeldEnd
  <2>3. /\ closing'[p][o] = "removed"
        /\ \A x \in Objects : x # o => closing'[p][x] = closing[p][x]
        /\ \A q \in Peers : q # p => closing'[q] = closing[q]
    BY DEF CloseRemove, TypeOK
  <2>4. /\ streams'[p][i0] = "none"
        /\ \A i \in Ids : i # i0 => streams'[p][i] = streams[p][i]
        /\ \A q \in Peers : q # p => streams'[q] = streams[q]
    BY <1>3 DEF CloseRemove, Register, TypeOK
  <2>. QED
    BY <2>1, <2>2, <2>3, <2>4
<1>m. \A q \in Peers : \A i \in Ids :
        (Seen(q, i)' <=> Seen(q, i)) /\ (Dead(q, i) => Dead(q, i)')
  BY <1>2, <1>4 DEF Seen, Dead, Over, End, Side
<1>w. \A q : OnWire(q)' = OnWire(q) /\ \A i : Tells(q, i)' <=> Tells(q, i)
  BY <1>2, SameWire
<1>t. \A q, i : (Busy(q, i)' <=> Busy(q, i)) /\ (IsOpening(q, i)' <=> IsOpening(q, i))
  BY <1>2, SameTask
<1>p. \A i : Pending(i)' <=> Pending(i)
  BY <1>2, SamePending
<1>c. \A q \in Peers : \A i \in Ids :
        (Closing(q, i) => Closing(q, i)') /\ (q = p /\ i = i0 => Closing(q, i)')
  <2>. SUFFICES ASSUME NEW q \in Peers, NEW i \in Ids
         PROVE  /\ closing[q][End(q, i)] # "idle" => closing'[q][End(q, i)] # "idle"
                /\ q = p /\ i = i0 => closing'[q][End(q, i)] # "idle"
    BY <1>w DEF Closing, End, Side
  <2>. QED
    BY <1>4, Sided
<1>5. Sides'
  BY <1>2, <1>4, <1>w DEF Sides, Side
<1>6. Calls'
  <2>1. \A q \in Peers : isClosed'[q] \cup writing'[q] \subseteq held'[q]
    BY <1>2 DEF Calls
  <2>2. \A q \in Peers : \A x \in Objects :
          /\ closing'[q][x] # "idle" => x \in isClosed'[q]
          /\ closing'[q][x] = "removed" => streams'[q][x[1]] = "none"
    <3>. SUFFICES ASSUME NEW q \in Peers, NEW x \in Objects
         PROVE  /\ closing'[q][x] # "idle" => x \in isClosed'[q]
                /\ closing'[q][x] = "removed" => streams'[q][x[1]] = "none"
      OBVIOUS
    <3>1. x[1] \in Ids
      BY DEF Objects
    <3>. QED
      BY <1>2, <1>3, <1>4, <3>1 DEF Calls
  <2>. QED
    BY <1>2, <1>m, <2>1, <2>2, CallsStay
<1>7. Fresh'
  <2>. SUFFICES ASSUME NEW i \in Ids PROVE UsedOnce(i)'
    BY DEF Fresh
  <2>. QED
    BY <1>2, <1>m, <1>w, <1>t, OpenerAndAcceptor
    DEF Fresh, UsedOnce, Unsent, End, Side
<1>a. \A i \in Ids : Seen(Acceptor, i)' <=> Seen(Acceptor, i)
  BY <1>m, OpenerAndAcceptor
<1>8. OpensArrive' /\ OpensAreNews' /\ OpensComeOnce'
  BY <1>2, <1>a, <1>t, <1>p DEF OpensArrive, OpensAreNews, OpensComeOnce, End, Side
<1>9. OpensComeFirst'
  BY <1>2, <1>a, <1>t, FramesOnWire, OpenerAndAcceptor, TaskIds DEF OpensComeFirst
<1>10. EndsAreTrue'
  BY <1>2, <1>m, <1>w, EndsStayTrue
<1>11. Agreement'
  <2>. SUFFICES ASSUME BothOpen', NEW i \in Ids PROVE Agreed(i)'
    BY DEF Agreement
  <2>1. Agreed(i)
    BY <1>2 DEF Agreement, BothOpen
  <2>2. \A q \in Peers : \/ streams'[q][i] = streams[q][i]
                         \/ streams'[q][i] = "none" /\ Closing(q, i)'
    BY <1>4, <1>c
  <2>. QED
    BY <1>2, <1>c, <1>p, <2>1, <2>2, OpenerAndAcceptor DEF Agreed
<1>. QED
  BY <1>1, <1>5, <1>6, <1>7, <1>8, <1>9, <1>10, <1>11

LEMMA CloseSendKeeps ==
  ASSUME OneOpener, StreamsInv, NEW p \in Peers, NEW o \in Objects, CloseSend(p, o)
  PROVE  StreamsInv'
<1>. USE DEF StreamsInv
<1>. DEFINE f == Frame("close", o[1], o[2])
<1>1. TypeOK'
  BY UseStreamType DEF UseStream
<1>2. /\ o \in held[p] /\ o \in isClosed[p] /\ streams[p][o[1]] = "none"
      /\ closing'[p][o] = "idle"
      /\ \A x \in Objects : x # o => closing'[p][x] = closing[p][x]
      /\ \A q \in Peers : q # p => closing'[q] = closing[q]
  BY DEF CloseSend, Calls, TypeOK
<1>f. f \in Frames /\ f.type = "close" /\ f.id = o[1]
  BY <1>2, HeldEnd, FrameType DEF Frame
<1>3. UNCHANGED <<nextStream, streams, acceptCh, session, task, opening, writing,
                  held, isClosed, remoteClosed>>
  BY DEF CloseSend, sessVars, flagVars
<1>d. Dead(p, o[1])
  BY <1>2, HeldEnd DEF Dead, Over
<1>s. Send(p, f) \/ SendFails(p)
  BY DEF CloseSend
<1>4. Says(p, f)
  BY <1>2, <1>3, <1>f, <1>d, <1>s, HeldEnd DEF Says, SendFails
<1>m. \A q, i : Seen(q, i)' <=> Seen(q, i)
  BY <1>3, SameMemory
<1>5. Calls'
  <2>1. \A q \in Peers : \A x \in Objects :
          closing'[q][x] # "idle" => closing'[q][x] = closing[q][x]
    BY <1>2
  <2>. QED
    BY <1>3, <1>m, <2>1 DEF Calls, End, Side
<1>6. Agreement'
  <2>1. ASSUME BothOpen', NEW q \in Peers, NEW i \in Ids, Closing(q, i)
        PROVE  Closing(q, i)'
    <3>1. Send(p, f) /\ session[p] # "gone"
      BY <1>3, <1>s, <2>1 DEF BothOpen, SendFails, Shut
    <3>2. f \in OnWire(p)' /\ OnWire(q) \subseteq OnWire(q)'
      BY <1>4, <3>1, SaysWire
    <3>3. CASE q = p /\ i = o[1]
      BY <1>f, <3>2, <3>3 DEF Closing
    <3>4. CASE ~(q = p /\ i = o[1])
      <4>1. closing'[q][End(q, i)] = closing[q][End(q, i)]
        BY <1>2, <3>4, Sided, HeldEnd
      <4>. QED
        BY <2>1, <3>2, <4>1 DEF Closing, End, Side
    <3>. QED
      BY <3>3, <3>4
  <2>2. BothOpen' => BothOpen
    BY <1>3 DEF BothOpen
  <2>3. \A i \in Ids : Pending(i)' <=> Pending(i)
    BY <1>4, SaysPending
  <2>. QED
    BY <1>3, <2>1, <2>2, <2>3, AgreementStays
<1>. QED
  BY <1>1, <1>4, <1>5, <1>6, SaysKeeps

LEMMA AcceptKeeps ==
  ASSUME OneOpener, StreamsInv, NEW p \in Peers, Accept(p)
  PROVE  StreamsInv'
<1>. USE DEF StreamsInv
<1>1. TypeOK'
  BY AcceptType
<1>2. UNCHANGED <<nextStream, streams, session, task, opening, writing, closing,
                  isClosed, remoteClosed, wire>>
  BY DEF Accept, sessVars, flagVars
<1>3. p = Acceptor /\ p # Opener /\ Side(p) = "remote"
  BY OpenerAndAcceptor, Sided DEF Accept, Sides
<1>4. acceptCh[p] \in Seq(Ids) /\ acceptCh[p] # <<>>
  BY DEF Accept, TypeOK
<1>5. PICK i0 \in Ids : Head(acceptCh[p]) = i0
  BY <1>4, HeadTailProperties
<1>6. /\ Len(acceptCh[p]) \in Nat \ {0} /\ acceptCh[p][1] = i0
      /\ Len(Tail(acceptCh[p])) = Len(acceptCh[p]) - 1
      /\ \A k \in 1..(Len(acceptCh[p]) - 1) :
           Tail(acceptCh[p])[k] = acceptCh[p][k + 1]
  BY <1>4, <1>5, HeadTailProperties, EmptySeq, LenProperties
<1>7. /\ held'[p] = held[p] \cup {End(p, i0)} /\ Seen(p, i0)
      /\ \A q \in Peers : q # p => held'[q] = held[q] /\ acceptCh'[q] = acceptCh[q]
      /\ acceptCh'[p] = Tail(acceptCh[p])
  <2>1. Seen(p, i0)
    BY <1>6 DEF Calls
  <2>2. End(p, i0) = <<Head(acceptCh[p]), "remote">>
    BY <1>3, <1>5 DEF End
  <2>. QED
    BY <2>1, <2>2 DEF Accept, TypeOK
<1>m. \A q, i : (Seen(q, i)' <=> Seen(q, i)) /\ (Dead(q, i)' <=> Dead(q, i))
  BY <1>2, SameMemory
<1>w. \A q : OnWire(q)' = OnWire(q) /\ \A i : Tells(q, i)' <=> Tells(q, i)
  BY <1>2, SameWire
<1>t. \A q, i : (Busy(q, i)' <=> Busy(q, i)) /\ (IsOpening(q, i)' <=> IsOpening(q, i))
  BY <1>2, SameTask
<1>p. \A i : Pending(i)' <=> Pending(i)
  BY <1>2, SamePending
<1>c. \A q, i : Closing(q, i)' <=> Closing(q, i)
  BY <1>2, SameClosing
<1>8. held'[Opener] = held[Opener] /\ acceptCh'[Opener] = acceptCh[Opener]
  BY <1>3, <1>7, OpenerAndAcceptor
<1>9. Sides'
  <2>1. \A q \in Peers : \A o \in held'[q] \cup remoteClosed'[q] : o[2] = Side(q)
    BY <1>2, <1>7, Sided DEF Sides
  <2>. QED
    BY <1>2, <1>8, <1>w, <2>1 DEF Sides, Side
<1>10. Calls'
  <2>1. \A q \in Peers : isClosed'[q] \cup writing'[q] \subseteq held'[q]
    BY <1>2, <1>7 DEF Calls
  <2>2. \A q \in Peers : \A i \in Ids :
          End(q, i) \in held'[q] => End(q, i) \in held[q] \/ Seen(q, i)'
    BY <1>7, <1>m, Sided
  <2>3. \A k \in 1..Len(acceptCh'[p]) : Seen(p, acceptCh[p][k])'
    <3>. SUFFICES ASSUME NEW k \in 1..(Len(acceptCh[p]) - 1)
                  PROVE  Seen(p, acceptCh[p][k + 1])
      BY <1>6, <1>7, <1>m
    <3>1. k + 1 \in 1..Len(acceptCh[p])
      BY <1>6
    <3>. QED
      BY <3>1 DEF Calls
  <2>4. \A q \in Peers : \A o \in Objects :
          /\ closing'[q][o] # "idle" => o \in isClosed'[q]
          /\ closing'[q][o] = "removed" => streams'[q][o[1]] = "none"
    BY <1>2 DEF Calls
  <2>. QED
    BY <1>2, <1>7, <1>m, <2>1, <2>2, <2>3, <2>4, CallsStay
<1>11. Fresh'
  <2>. SUFFICES ASSUME NEW i \in Ids PROVE UsedOnce(i)'
    BY DEF Fresh
  <2>. QED
    BY <1>2, <1>8, <1>m, <1>w, <1>t DEF Fresh, UsedOnce, Unsent, End, Side
<1>12. OpensArrive' /\ OpensAreNews' /\ OpensComeOnce' /\ OpensComeFirst'
  BY <1>2, <1>8, <1>m, <1>t, <1>p
  DEF OpensArrive, OpensAreNews, OpensComeOnce, OpensComeFirst, End, Side
<1>13. EndsAreTrue'
  BY <1>2, <1>m, <1>w, EndsStayTrue
<1>14. Agreement'
  BY <1>2, <1>c, <1>p, AgreementStays DEF BothOpen
<1>. QED
  BY <1>1, <1>9, <1>10, <1>11, <1>12, <1>13, <1>14

\* A frame that is received is true of its stream.
LEMMA ArrivingIsTrue ==
  ASSUME OneOpener, StreamsInv, NEW q \in Peers, Receive(q)
  PROVE  /\ Arriving(q) \in OnWire(Other(q)) /\ Arriving(q) \in Frames
         /\ Arriving(q).id \in Ids
         /\ Tells(Other(q), Arriving(q).id)
         /\ Arriving(q).type = "open" => q = Acceptor
         /\ Arriving(q).type # "open" => Seen(q, Arriving(q).id)
         /\ q = Acceptor /\ Arriving(q).type = "open" => Pending(Arriving(q).id)
         /\ Arriving(q).type \in {"close", "reset"} => Dead(Other(q), Arriving(q).id)
         /\ Arriving(q).type # "open" => ~Pending(Arriving(q).id)
<1>. USE DEF StreamsInv
<1>. DEFINE a == Arriving(q)
            r == Other(q)
<1>1. a \in OnWire(r) /\ a \in Frames /\ r \in Peers
  BY ReceiveOnWire, Pair
<1>2. a.id \in Ids /\ Tells(r, a.id)
  BY <1>1 DEF Tells, Frames
<1>3. a.type = "open" => q = Acceptor
  BY <1>1, OpenerAndAcceptor DEF Sides
<1>4. a.type # "open" => Seen(q, a.id)
  <2>1. CASE q = Opener
    BY <1>2, <2>1, OpenerAndAcceptor DEF Fresh, UsedOnce
  <2>2. CASE q = Acceptor
    <3>1. Len(wire[Opener]) \in Nat \ {0} /\ wire[Opener][1] = a
      BY <2>2, ReceiveTakesFirst, OpenerAndAcceptor
    <3>2. 1 \in 1..Len(wire[Opener]) /\ \A j \in 1..Len(wire[Opener]) : ~(j < 1)
      BY <3>1
    <3>3. ~IsOpening(Acceptor, a.id)
      BY <2>2 DEF Receive, IsOpening, NoTask
    <3>. QED
      BY <2>2, <3>1, <3>2, <3>3 DEF OpensComeFirst
  <2>. QED
    BY <2>1, <2>2, OpenerAndAcceptor
<1>5. q = Acceptor /\ a.type = "open" => Pending(a.id)
  BY <1>1, OpenerAndAcceptor DEF Pending
<1>6. a.type \in {"close", "reset"} => Dead(r, a.id)
  BY <1>1 DEF EndsAreTrue
<1>7. a.type # "open" => ~Pending(a.id)
  <2>1. CASE q = Acceptor
    BY <1>2, <1>4, <2>1 DEF OpensAreNews
  <2>2. CASE q = Opener
    BY <1>2, <2>2, OpenerAndAcceptor DEF OpensAreNews, Fresh, UsedOnce
  <2>. QED
    BY <2>1, <2>2, OpenerAndAcceptor
<1>. QED
  BY <1>1, <1>2, <1>3, <1>4, <1>5, <1>6, <1>7

\* The frames that are left keep their order.
LEMMA RestInOrder ==
  ASSUME OneOpener, StreamsInv, Receive(Acceptor),
         \A i \in Ids : Seen(Acceptor, i) => Seen(Acceptor, i)',
         \/ task'[Acceptor].type = "none" /\ Arriving(Acceptor).type # "open"
         \/ /\ task'[Acceptor].type = Arriving(Acceptor).type
            /\ task'[Acceptor].id = Arriving(Acceptor).id
  PROVE  OpensComeOnce' /\ OpensComeFirst'
<1>. USE DEF StreamsInv
<1>. DEFINE p == Opener
            a == Arriving(Acceptor)
<1>1. /\ Len(wire[p]) \in Nat \ {0} /\ Len(wire'[p]) = Len(wire[p]) - 1
      /\ wire[p][1] = a
      /\ \A k \in 1..(Len(wire[p]) - 1) : wire'[p][k] = wire[p][k + 1]
  BY ReceiveTakesFirst, OpenerAndAcceptor
<1>2. task[Acceptor].type = "none"
  BY DEF Receive, NoTask
<1>3. \A k \in 1..Len(wire[p]) : wire[p][k].id \in Ids
  BY FramesOnWire, OpenerAndAcceptor
<1>4. ASSUME NEW k \in 1..Len(wire'[p]), wire'[p][k].type = "open"
      PROVE  /\ ~Busy(Acceptor, wire[p][k].id)'
             /\ \A j \in 1..Len(wire'[p]) :
                  wire'[p][j].id = wire'[p][k].id /\ j # k
                    => j > k /\ wire'[p][j].type # "open"
  <2>1. PICK m \in 1..Len(wire[p]) : m = k + 1 /\ m # 1 /\ wire'[p][k] = wire[p][m]
    BY <1>1
  <2>2. \A j \in 1..Len(wire[p]) :
          wire[p][j].id = wire[p][m].id /\ j # m => j > m /\ wire[p][j].type # "open"
    BY <1>4, <2>1 DEF OpensComeOnce
  <2>3. a.id # wire[p][m].id
    <3>1. 1 \in 1..Len(wire[p]) /\ ~(1 > m)
      BY <1>1, <2>1
    <3>. QED
      BY <1>1, <2>1, <2>2, <3>1
  <2>4. wire[p][m].id \in Ids
    BY <1>3
  <2>5. ~Busy(Acceptor, wire[p][k].id)'
    BY <2>1, <2>3 DEF Busy
  <2>6. ASSUME NEW j \in 1..Len(wire'[p]), wire'[p][j].id = wire'[p][k].id, j # k
        PROVE  j > k /\ wire'[p][j].type # "open"
    <3>1. PICK n \in 1..Len(wire[p]) : n = j + 1 /\ wire'[p][j] = wire[p][n]
      BY <1>1
    <3>2. n > m /\ wire[p][n].type # "open"
      BY <2>1, <2>2, <2>6, <3>1
    <3>. QED
      BY <2>1, <3>1, <3>2
  <2>. QED
    BY <2>5, <2>6
<1>5. ASSUME NEW k \in 1..Len(wire'[p]), wire'[p][k].type # "open"
      PROVE  \/ Seen(Acceptor, wire[p][k].id)'
             \/ IsOpening(Acceptor, wire[p][k].id)'
             \/ \E j \in 1..Len(wire'[p]) : /\ j < k
                                            /\ wire'[p][j].type = "open"
                                            /\ wire'[p][j].id = wire'[p][k].id
  <2>1. PICK m \in 1..Len(wire[p]) : m = k + 1 /\ m # 1 /\ wire'[p][k] = wire[p][m]
    BY <1>1
  <2>2. wire[p][m].id \in Ids /\ wire[p][m].type # "open"
    BY <1>3, <1>5, <2>1
  <2>3. CASE Seen(Acceptor, wire[p][m].id)
    <3>1. PICK i \in Ids : wire[p][m].id = i
      BY <2>2
    <3>2. Seen(Acceptor, i)' /\ wire'[p][k].id = i
      BY <2>1, <2>3, <3>1
    <3>. QED
      BY <3>2
  <2>4. CASE \E n \in 1..Len(wire[p]) : /\ n < m
                                        /\ wire[p][n].type = "open"
                                        /\ wire[p][n].id = wire[p][m].id
    <3>1. PICK n \in 1..Len(wire[p]) : /\ n < m
                                       /\ wire[p][n].type = "open"
                                       /\ wire[p][n].id = wire[p][m].id
      BY <2>4
    <3>2. CASE n = 1
      <4>1. task'[Acceptor].type = "open" /\ task'[Acceptor].id = wire'[p][k].id
        BY <1>1, <2>1, <3>1, <3>2
      <4>. QED
        BY <4>1 DEF IsOpening
    <3>3. CASE n # 1
      <4>1. PICK j \in 1..Len(wire'[p]) : n = j + 1 /\ wire'[p][j] = wire[p][n]
        <5>1. n - 1 \in 1..Len(wire'[p]) /\ n = (n - 1) + 1
          BY <1>1, <3>3
        <5>. QED
          BY <1>1, <5>1
      <4>2. j < k
        BY <1>1, <2>1, <3>1, <4>1
      <4>. QED
        BY <2>1, <3>1, <4>1, <4>2
    <3>. QED
      BY <3>2, <3>3
  <2>. QED
    BY <1>2, <2>1, <2>2, <2>3, <2>4 DEF OpensComeFirst, IsOpening
<1>6. task'[Acceptor].type = "data" => Seen(Acceptor, task[Acceptor].id)'
  <2>. SUFFICES ASSUME task'[Acceptor].type = "data"
                PROVE  Seen(Acceptor, task[Acceptor].id)'
    OBVIOUS
  <2>1. PICK i \in Ids : a.id = i
    BY ArrivingIsTrue, OpenerAndAcceptor
  <2>2. task'[Acceptor].id = i /\ a.type = "data"
    BY <2>1
  <2>3. Seen(Acceptor, i)'
    BY <2>1, <2>2, ArrivingIsTrue, OpenerAndAcceptor
  <2>. QED
    BY <2>2, <2>3
<1>. QED
  BY <1>4, <1>5, <1>6 DEF OpensComeOnce, OpensComeFirst

\* Handlers that answer with a RESET, or not at all.
LEMMA AnswerKeeps ==
  ASSUME OneOpener, StreamsInv, NEW q \in Peers, HandleRefuse(q) \/ HandleData(q)
  PROVE  StreamsInv'
<1>. USE DEF StreamsInv
<1>. DEFINE f == Frame("reset", task[q].id, "none")
<1>1. TypeOK'
  BY ProcessLoopType DEF ProcessLoop
<1>2. UNCHANGED <<nextStream, streams, acceptCh, session, opening, writing, closing,
                  held, isClosed, remoteClosed>>
  BY DEF HandleRefuse, HandleData, sessVars, appVars, flagVars
<1>3. task[q].type = "data" /\ (HandleRefuse(q) => task[q].found = "none")
  BY OpenerAndAcceptor DEF HandleRefuse, HandleData, OpensAreNews, Sides
<1>4. /\ task'[q] = NoTask
      /\ \A p \in Peers : p # q => task'[p] = task[p]
  BY DEF HandleRefuse, HandleData, Finish, TypeOK
<1>f. f \in Frames /\ f.type = "reset" /\ f.id = task[q].id /\ task[q].id \in Ids
  BY <1>3, TaskIds, FrameType DEF Frame
<1>5. UNCHANGED wire \/ (Send(q, f) /\ task[q].found = "none")
  BY <1>3 DEF HandleRefuse, HandleData, TryReset
<1>m. \A p, i : Seen(p, i)' <=> Seen(p, i)
  BY <1>2, SameMemory
<1>6. Calls'
  BY <1>2, <1>m DEF Calls, End, Side
<1>7. ASSUME NEW p \in Peers, NEW g, Says(p, g)
      PROVE  StreamsInv'
  <2>1. \A x \in Peers : \A i \in Ids : Closing(x, i) => Closing(x, i)'
    BY <1>2, <1>7, SaysWire DEF Closing, End, Side
  <2>2. Agreement'
    BY <1>2, <1>7, <2>1, SaysPending, AgreementStays DEF BothOpen
  <2>. QED
    BY <1>1, <1>6, <1>7, <2>2, SaysKeeps
<1>8. \A p \in Peers :
        task'[p] = task[p] \/ (task[p].type = "data" /\ task'[p] = NoTask)
  BY <1>3, <1>4
<1>9. CASE UNCHANGED wire
  <2>m. \A p, i : (Seen(p, i)' <=> Seen(p, i)) /\ (Dead(p, i)' <=> Dead(p, i))
    BY <1>2, SameMemory
  <2>w. \A p : OnWire(p)' = OnWire(p) /\ \A i : Tells(p, i)' <=> Tells(p, i)
    BY <1>9, SameWire
  <2>t. /\ \A p \in Peers : \A i : Busy(p, i)' => Busy(p, i)
        /\ \A p \in Peers : \A i : IsOpening(p, i)' <=> IsOpening(p, i)
    BY <1>8 DEF Busy, IsOpening, NoTask
  <2>p. \A i : Pending(i)' <=> Pending(i)
    BY <2>w, <2>t, OpenerAndAcceptor DEF Pending
  <2>1. Sides'
    BY <1>2, <1>8, <2>w, OpenerAndAcceptor DEF Sides, Side, NoTask
  <2>2. Fresh'
    <3>. SUFFICES ASSUME NEW i \in Ids PROVE UsedOnce(i)'
      BY DEF Fresh
    <3>. QED
      BY <1>2, <2>m, <2>w, <2>t, OpenerAndAcceptor
      DEF Fresh, UsedOnce, Unsent, End, Side
  <2>3. OpensArrive' /\ OpensAreNews'
    BY <1>2, <1>8, <2>m, <2>p, OpenerAndAcceptor
    DEF OpensArrive, OpensAreNews, NoTask, End, Side
  <2>4. OpensComeOnce' /\ OpensComeFirst'
    BY <1>8, <1>9, <2>m, <2>t, OpenerAndAcceptor
    DEF OpensComeOnce, OpensComeFirst, NoTask
  <2>5. EndsAreTrue'
    BY <1>2, <1>8, <2>m, <2>w, EndsStayTrue DEF NoTask
  <2>6. \A x \in Peers : \A i \in Ids : Closing(x, i) => Closing(x, i)'
    BY <1>2, <2>w DEF Closing, End, Side
  <2>7. Agreement'
    BY <1>2, <2>p, <2>6, AgreementStays DEF BothOpen
  <2>. QED
    BY <1>1, <1>6, <2>1, <2>2, <2>3, <2>4, <2>5, <2>7
<1>10. CASE Send(q, f) /\ task[q].found = "none"
  <2>1. Dead(q, task[q].id)
    BY <1>3, <1>10 DEF EndsAreTrue
  <2>2. Busy(q, task[q].id)
    BY <1>3 DEF Busy
  <2>3. Seen(q, task[q].id)
    BY <2>1 DEF Seen, Dead
  <2>4. q = Opener => ~Unsent(task[q].id) /\ Seen(Acceptor, task[q].id)
    BY <1>f, <2>2 DEF Fresh, UsedOnce
  <2>5. Says(q, f)
    BY <1>2, <1>8, <1>10, <1>f, <2>1, <2>3, <2>4 DEF Says
  <2>. QED
    BY <1>7, <2>5
<1>. QED
  BY <1>5, <1>9, <1>10

LEMMA LookUpKeeps ==
  ASSUME OneOpener, StreamsInv, NEW q \in Peers, LookUp(q)
  PROVE  StreamsInv'
<1>. USE DEF StreamsInv
<1>. DEFINE a == Arriving(q)
            r == Other(q)
<1>1. TypeOK'
  BY ProcessLoopType DEF ProcessLoop
<1>2. UNCHANGED <<nextStream, streams, acceptCh, session, opening, writing, closing,
                  held, isClosed, remoteClosed>>
  BY DEF LookUp, sessVars, appVars, flagVars
<1>3. /\ Receive(q) /\ a.type \in {"open", "data"}
      /\ task[q].type = "none"
      /\ task'[q].type = a.type /\ task'[q].id = a.id
      /\ task'[q].found = streams[q][a.id]
      /\ \A p \in Peers : p # q => task'[p] = task[p]
  BY DEF LookUp, Receive, NoTask, TypeOK
<1>4. PICK i0 \in Ids : a.id = i0
  BY <1>3, ArrivingIsTrue
<1>5. /\ a \in OnWire(r) /\ Tells(r, i0)
      /\ a.type = "open" => q = Acceptor /\ Pending(i0)
      /\ a.type # "open" => Seen(q, i0) /\ ~Pending(i0)
  BY <1>3, <1>4, ArrivingIsTrue
<1>r. r \in Peers /\ r # q /\ \A p \in Peers : p = q \/ p = r
  BY Pair, OpenerAndAcceptor
<1>m. \A p, i : (Seen(p, i)' <=> Seen(p, i)) /\ (Dead(p, i)' <=> Dead(p, i))
  BY <1>2, SameMemory
<1>w. /\ OnWire(q)' = OnWire(q) /\ OnWire(r)' \subseteq OnWire(r)
      /\ OnWire(r) \subseteq OnWire(r)' \cup {a}
  BY <1>3, ReceiveOnWire
<1>x. \A p \in Peers : OnWire(p)' \subseteq OnWire(p) /\ \A i : Tells(p, i)' => Tells(p, i)
  BY <1>w, <1>r DEF Tells
<1>t. \A p \in Peers : \A i : Busy(p, i)' => Busy(p, i) \/ (p = q /\ i = i0)
  BY <1>3, <1>4 DEF Busy
<1>p. \A i : Pending(i)' <=> Pending(i)
  <2>1. CASE q = Acceptor
    <3>1. \A i : IsOpening(Acceptor, i)' <=> (a.type = "open" /\ i = i0)
      BY <1>3, <1>4, <2>1 DEF IsOpening
    <3>2. \A i : ~IsOpening(Acceptor, i)
      BY <1>3, <2>1 DEF IsOpening
    <3>3. r = Opener
      BY <2>1, OpenerAndAcceptor
    <3>4. /\ \A g \in OnWire(Opener)' : g \in OnWire(Opener)
          /\ \A g \in OnWire(Opener) : g \in OnWire(Opener)' \/ g = a
          /\ a \in OnWire(Opener)
      BY <1>w, <1>5, <3>3
    <3>. QED
      BY <1>4, <3>1, <3>2, <3>4 DEF Pending
  <2>2. CASE q = Opener
    <3>1. OnWire(Opener)' = OnWire(Opener) /\ task'[Acceptor] = task[Acceptor]
      BY <1>w, <1>3, <2>2, OpenerAndAcceptor
    <3>. QED
      BY <3>1 DEF Pending, IsOpening
  <2>. QED
    BY <2>1, <2>2, OpenerAndAcceptor
<1>c. \A p \in Peers : \A i \in Ids : Closing(p, i) => Closing(p, i)'
  <2>. SUFFICES ASSUME NEW p \in Peers, NEW g \in OnWire(p), g.type = "close"
                PROVE  g \in OnWire(p)'
    BY <1>2 DEF Closing, End, Side
  <2>. QED
    BY <1>3, <1>r, <1>w
<1>6. Sides'
  BY <1>2, <1>3, <1>5, <1>x, OpenerAndAcceptor DEF Sides, Side
<1>7. Calls'
  BY <1>2, <1>m DEF Calls, End, Side
<1>8. Fresh'
  <2>. SUFFICES ASSUME NEW i \in Ids PROVE UsedOnce(i)'
    BY DEF Fresh
  <2>1. \A p \in Peers : Busy(p, i)' => Busy(p, i) \/ Tells(Other(p), i)
    BY <1>5, <1>t
  <2>2. UsedOnce(i) /\ (Unsent(i)' <=> Unsent(i))
    BY <1>2 DEF Fresh, Unsent
  <2>. QED
    BY <1>2, <1>m, <1>x, <2>1, <2>2, OpenerAndAcceptor DEF UsedOnce, End, Side
<1>9. OpensArrive'
  BY <1>2, <1>m, <1>p DEF OpensArrive, End, Side
<1>10. OpensAreNews'
  <2>1. CASE q = Opener
    BY <1>3, <1>m, <1>p, <2>1, OpenerAndAcceptor DEF OpensAreNews
  <2>2. CASE q = Acceptor
    <3>1. a.type = "open" => streams[q][i0] = "none"
      BY <1>5, <2>2 DEF OpensAreNews, Seen
    <3>. QED
      BY <1>3, <1>4, <1>m, <1>p, <2>2, <3>1 DEF OpensAreNews
  <2>. QED
    BY <2>1, <2>2, OpenerAndAcceptor
<1>11. OpensComeOnce' /\ OpensComeFirst'
  <2>1. CASE q = Opener
    <3>1. wire'[Opener] = wire[Opener] /\ task'[Acceptor] = task[Acceptor]
      BY <1>3, <2>1, ReceiveTakesFirst, OpenerAndAcceptor
    <3>. QED
      BY <1>m, <3>1 DEF OpensComeOnce, OpensComeFirst, Busy, IsOpening
  <2>2. CASE q = Acceptor
    BY <1>3, <1>m, <2>2, RestInOrder
  <2>. QED
    BY <2>1, <2>2, OpenerAndAcceptor
<1>12. EndsAreTrue'
  <2>1. task'[q].type = "data" /\ task'[q].found = "none" => Dead(q, task[q].id)'
    <3>1. a.type = "data" /\ streams[q][i0] = "none" => Dead(q, i0)'
      BY <1>5, <1>m DEF Seen, Dead
    <3>2. task'[q].id = i0 /\ task'[q].type = a.type /\ task'[q].found = streams[q][i0]
      BY <1>3, <1>4
    <3>. QED
      BY <3>1, <3>2
  <2>2. \A p \in Peers : \/ task'[p] = task[p]
                         \/ task'[p].type = "data" /\ task'[p].found = "none"
                              => Dead(p, task[p].id)'
    BY <1>3, <2>1
  <2>. QED
    BY <1>2, <1>m, <1>x, <2>2, EndsStayTrue
<1>13. Agreement'
  BY <1>2, <1>c, <1>p, AgreementStays DEF BothOpen
<1>. QED
  BY <1>1, <1>6, <1>7, <1>8, <1>9, <1>10, <1>11, <1>12, <1>13

LEMMA HandleEndKeeps ==
  ASSUME OneOpener, StreamsInv, NEW q \in Peers, HandleEnd(q)
  PROVE  StreamsInv'
<1>. USE DEF StreamsInv
<1>. DEFINE a == Arriving(q)
            r == Other(q)
<1>1. TypeOK'
  BY ProcessLoopType DEF ProcessLoop
<1>2. UNCHANGED <<nextStream, acceptCh, session, task, opening, writing, closing,
                  held, isClosed>>
  BY DEF HandleEnd, sessVars, appVars
<1>3. Receive(q) /\ a.type \in {"close", "reset"} /\ task[q].type = "none"
  BY DEF HandleEnd, Receive, NoTask
<1>4. PICK i0 \in Ids : a.id = i0
  BY <1>3, ArrivingIsTrue
<1>5. /\ a \in OnWire(r) /\ a.type # "open" /\ Seen(q, i0)
      /\ Dead(r, i0) /\ ~Pending(i0)
  BY <1>3, <1>4, ArrivingIsTrue
<1>r. r \in Peers /\ r # q /\ \A p \in Peers : p = q \/ p = r
  BY Pair, OpenerAndAcceptor
<1>6. /\ streams'[q][i0] = "none"
      /\ \A i \in Ids : i # i0 => streams'[q][i] = streams[q][i]
      /\ \A p \in Peers : p # q => /\ streams'[p] = streams[p]
                                   /\ remoteClosed'[p] = remoteClosed[p]
      /\ \/ streams[q][i0] = "none" /\ remoteClosed'[q] = remoteClosed[q]
         \/ remoteClosed'[q] = remoteClosed[q] \cup {End(q, i0)}
      /\ streams[q][i0] # "none" => End(q, i0) \in remoteClosed'[q]
  <2>1. Forget(q, i0)
    BY <1>4 DEF HandleEnd
  <2>2. streams[q][i0] # "none" => <<i0, streams[q][i0]>> = End(q, i0)
    BY DEF Sides, End
  <2>3. /\ streams'[q][i0] = "none"
        /\ \A i \in Ids : i # i0 => streams'[q][i] = streams[q][i]
        /\ \A p \in Peers : p # q => streams'[p] = streams[p]
    BY <2>1 DEF Forget, Register, TypeOK
  <2>. QED
    BY <2>1, <2>2, <2>3 DEF Forget, TypeOK
<1>7. \A p \in Peers : \A i \in Ids :
        End(p, i) \in remoteClosed'[p] =>
          End(p, i) \in remoteClosed[p] \/ (p = q /\ i = i0)
  BY <1>6, Sided
<1>m. \A p \in Peers : \A i \in Ids :
        (Seen(p, i)' <=> Seen(p, i)) /\ (Dead(p, i) => Dead(p, i)')
  <2>. SUFFICES ASSUME NEW p \in Peers, NEW i \in Ids
                PROVE  (Seen(p, i)' <=> Seen(p, i)) /\ (Dead(p, i) => Dead(p, i)')
    OBVIOUS
  <2>1. CASE p = q /\ i = i0
    BY <1>2, <1>5, <1>6, <2>1 DEF Seen, Dead, Over, End, Side
  <2>2. CASE ~(p = q /\ i = i0)
    <3>1. End(p, i) \in remoteClosed'[p] <=> End(p, i) \in remoteClosed[p]
      BY <1>6, <1>7, <2>2
    <3>2. streams'[p][i] = streams[p][i]
      BY <1>6, <2>2
    <3>. QED
      BY <1>2, <3>1, <3>2 DEF Seen, Dead, Over, End, Side
  <2>. QED
    BY <2>1, <2>2
<1>w. /\ OnWire(q)' = OnWire(q) /\ OnWire(r)' \subseteq OnWire(r)
      /\ OnWire(r) \subseteq OnWire(r)' \cup {a}
  BY <1>3, ReceiveOnWire
<1>x. \A p \in Peers : OnWire(p)' \subseteq OnWire(p) /\ \A i : Tells(p, i)' => Tells(p, i)
  BY <1>w, <1>r DEF Tells
<1>t. \A p, i : (Busy(p, i)' <=> Busy(p, i)) /\ (IsOpening(p, i)' <=> IsOpening(p, i))
  BY <1>2, SameTask
<1>p. \A i : Pending(i)' <=> Pending(i)
  <2>1. \A p \in Peers : \A g : g.type = "open" => (g \in OnWire(p)' <=> g \in OnWire(p))
    BY <1>5, <1>r, <1>w
  <2>. QED
    BY <1>t, <2>1, OpenerAndAcceptor DEF Pending
<1>c. \A p \in Peers : \A i \in Ids : i # i0 => (Closing(p, i) => Closing(p, i)')
  <2>. SUFFICES ASSUME NEW p \in Peers, NEW g \in OnWire(p), g.id # i0
                PROVE  g \in OnWire(p)'
    BY <1>2 DEF Closing, End, Side
  <2>. QED
    BY <1>4, <1>r, <1>w
<1>8. Sides'
  <2>1. \A p \in Peers : \A o \in held'[p] \cup remoteClosed'[p] : o[2] = Side(p)
    BY <1>2, <1>6, Sided DEF Sides
  <2>2. \A p \in Peers : \A i \in Ids : streams'[p][i] \in {"none", Side(p)}
    BY <1>6 DEF Sides
  <2>3. \A g \in OnWire(Acceptor)' : g.type # "open"
    BY <1>x, OpenerAndAcceptor DEF Sides
  <2>. QED
    BY <1>2, <2>1, <2>2, <2>3 DEF Sides, Side
<1>9. Calls'
  <2>1. \A p \in Peers : isClosed'[p] \cup writing'[p] \subseteq held'[p]
    BY <1>2 DEF Calls
  <2>2. \A p \in Peers : \A o \in Objects :
          /\ closing'[p][o] # "idle" => o \in isClosed'[p]
          /\ closing'[p][o] = "removed" => streams'[p][o[1]] = "none"
    <3>. SUFFICES ASSUME NEW p \in Peers, NEW o \in Objects
         PROVE  /\ closing'[p][o] # "idle" => o \in isClosed'[p]
                /\ closing'[p][o] = "removed" => streams'[p][o[1]] = "none"
      OBVIOUS
    <3>1. o[1] \in Ids
      BY DEF Objects
    <3>. QED
      BY <1>2, <1>6, <3>1 DEF Calls
  <2>. QED
    BY <1>2, <1>m, <2>1, <2>2, CallsStay
<1>10. Fresh'
  <2>. SUFFICES ASSUME NEW i \in Ids PROVE UsedOnce(i)'
    BY DEF Fresh
  <2>1. UsedOnce(i) /\ (Unsent(i)' <=> Unsent(i))
    BY <1>2 DEF Fresh, Unsent
  <2>. QED
    BY <1>2, <1>m, <1>x, <1>t, <2>1, OpenerAndAcceptor DEF UsedOnce, End, Side
<1>a. \A i \in Ids : Seen(Acceptor, i)' <=> Seen(Acceptor, i)
  BY <1>m, OpenerAndAcceptor
<1>11. OpensArrive' /\ OpensAreNews'
  BY <1>2, <1>a, <1>p DEF OpensArrive, OpensAreNews, End, Side
<1>12. OpensComeOnce' /\ OpensComeFirst'
  <2>1. CASE q = Opener
    <3>1. wire'[Opener] = wire[Opener] /\ task'[Acceptor] = task[Acceptor]
      BY <1>2, <1>3, <2>1, ReceiveTakesFirst, OpenerAndAcceptor
    <3>2. OpensComeOnce'
      BY <3>1 DEF OpensComeOnce, Busy
    <3>. QED
      BY <1>a, <3>1, <3>2, FramesOnWire, OpenerAndAcceptor, TaskIds
      DEF OpensComeFirst, IsOpening
  <2>2. CASE q = Acceptor
    BY <1>2, <1>3, <1>a, <2>2, RestInOrder
  <2>. QED
    BY <2>1, <2>2, OpenerAndAcceptor
<1>13. EndsAreTrue'
  <2>1. \A p \in Peers : \A i \in Ids : End(p, i) \in remoteClosed'[p] =>
          End(p, i) \in remoteClosed[p] \/ Dead(Other(p), i)'
    BY <1>5, <1>7, <1>m, <1>r
  <2>. QED
    BY <1>2, <1>m, <1>x, <2>1, EndsStayTrue
<1>14. Agreement'
  <2>. SUFFICES ASSUME BothOpen', NEW i \in Ids PROVE Agreed(i)'
    BY DEF Agreement
  <2>1. Agreed(i)
    BY <1>2 DEF Agreement, BothOpen
  <2>2. CASE i = i0
    <3>1. \A p \in Peers : streams'[p][i] = "none"
      BY <1>5, <1>6, <1>r, <2>2 DEF Dead
    <3>. QED
      BY <1>5, <1>p, <2>2, <3>1, OpenerAndAcceptor DEF Agreed
  <2>3. CASE i # i0
    <3>1. \A p \in Peers : streams'[p][i] = streams[p][i]
      BY <1>6, <2>3
    <3>. QED
      BY <1>2, <1>c, <1>p, <2>1, <2>3, <3>1, OpenerAndAcceptor DEF Agreed
  <2>. QED
    BY <2>2, <2>3
<1>. QED
  BY <1>1, <1>8, <1>9, <1>10, <1>11, <1>12, <1>13, <1>14

LEMMA HandleOpenKeeps ==
  ASSUME OneOpener, StreamsInv, NEW q \in Peers, HandleOpen(q)
  PROVE  StreamsInv'
<1>. USE DEF StreamsInv
<1>1. TypeOK'
  BY ProcessLoopType DEF ProcessLoop
<1>2. UNCHANGED <<nextStream, session, opening, writing, closing, held, isClosed,
                  remoteClosed, wire>>
  BY DEF HandleOpen, sessVars, appVars, flagVars
<1>3. q = Acceptor /\ q # Opener /\ task[q].type = "open" /\ Side(q) = "remote"
  BY OpenerAndAcceptor, Sided DEF HandleOpen, Sides
<1>4. PICK i0 \in Ids : task[q].id = i0
  BY <1>3, TaskIds
<1>5. IsOpening(q, i0) /\ Pending(i0) /\ Busy(q, i0) /\ ~Seen(q, i0) /\ Seen(Opener, i0)
  BY <1>3, <1>4 DEF IsOpening, Pending, Busy, OpensAreNews, Fresh, UsedOnce
<1>6. /\ streams'[q][i0] = "remote"
      /\ \A i \in Ids : i # i0 => streams'[q][i] = streams[q][i]
      /\ \A p \in Peers : p # q => /\ streams'[p] = streams[p] /\ task'[p] = task[p]
                                   /\ acceptCh'[p] = acceptCh[p]
      /\ task'[q] = NoTask
      /\ acceptCh'[q] = acceptCh[q] \/ acceptCh'[q] = Append(acceptCh[q], i0)
  <2>1. /\ streams'[q][i0] = "remote"
        /\ \A i \in Ids : i # i0 => streams'[q][i] = streams[q][i]
        /\ \A p \in Peers : p # q => streams'[p] = streams[p]
    BY <1>4 DEF HandleOpen, Register, TypeOK
  <2>2. task'[q] = NoTask /\ \A p \in Peers : p # q => task'[p] = task[p]
    BY DEF HandleOpen, Finish, TypeOK
  <2>3. /\ \A p \in Peers : p # q => acceptCh'[p] = acceptCh[p]
        /\ acceptCh'[q] = acceptCh[q] \/ acceptCh'[q] = Append(acceptCh[q], i0)
    BY <1>4 DEF HandleOpen, TypeOK
  <2>. QED
    BY <2>1, <2>2, <2>3
<1>m. \A p \in Peers : \A i \in Ids :
        /\ Seen(p, i)' <=> Seen(p, i) \/ (p = q /\ i = i0)
        /\ Dead(p, i)' <=> Dead(p, i)
  BY <1>2, <1>5, <1>6 DEF Seen, Dead, Over, End, Side
<1>w. \A p : OnWire(p)' = OnWire(p) /\ \A i : Tells(p, i)' <=> Tells(p, i)
  BY <1>2, SameWire
<1>t. /\ \A p \in Peers : \A i : Busy(p, i)' => Busy(p, i) /\ p # q
      /\ \A i : ~IsOpening(q, i)' /\ (IsOpening(q, i) => i = i0)
  BY <1>4, <1>6 DEF Busy, IsOpening, NoTask
<1>8. \A f \in OnWire(Opener) : f.type = "open" => f.id # i0
  <2>1. \A k \in 1..Len(wire[Opener]) :
          wire[Opener][k].type = "open" => wire[Opener][k].id # i0
    BY <1>3, <1>5 DEF OpensComeOnce
  <2>. QED
    BY <2>1 DEF OnWire
<1>p. \A i : Pending(i)' <=> Pending(i) /\ i # i0
  BY <1>3, <1>w, <1>t, <1>8 DEF Pending
<1>c. \A p \in Peers : \A i \in Ids : Closing(p, i)' <=> Closing(p, i)
  BY <1>2, SameClosing
<1>9. Sides'
  <2>1. task'[Opener] = task[Opener] /\ acceptCh'[Opener] = acceptCh[Opener]
    BY <1>3, <1>6, OpenerAndAcceptor
  <2>2. \A p \in Peers : \A i \in Ids : streams'[p][i] \in {"none", Side(p)}
    BY <1>3, <1>6 DEF Sides
  <2>. QED
    BY <1>2, <1>w, <2>1, <2>2 DEF Sides, Side
<1>10. Calls'
  <2>1. \A p \in Peers : isClosed'[p] \cup writing'[p] \subseteq held'[p]
    BY <1>2 DEF Calls
  <2>2. \A o \in Objects : closing[q][o] # "idle" => o[1] # i0
    <3>. SUFFICES ASSUME NEW o \in Objects, closing[q][o] # "idle", o[1] = i0
                  PROVE  FALSE
      OBVIOUS
    <3>1. o \in held[q]
      BY DEF Calls
    <3>2. Seen(q, o[1])
      BY <3>1, HeldEnd
    <3>. QED
      BY <1>5, <3>2
  <2>3. \A p \in Peers : \A o \in Objects :
          /\ closing'[p][o] # "idle" => o \in isClosed'[p]
          /\ closing'[p][o] = "removed" => streams'[p][o[1]] = "none"
    <3>. SUFFICES ASSUME NEW p \in Peers, NEW o \in Objects
         PROVE  /\ closing'[p][o] # "idle" => o \in isClosed'[p]
                /\ closing'[p][o] = "removed" => streams'[p][o[1]] = "none"
      OBVIOUS
    <3>1. o[1] \in Ids
      BY DEF Objects
    <3>. QED
      BY <1>2, <1>6, <2>2, <3>1 DEF Calls
  <2>4. \/ acceptCh'[q] = acceptCh[q]
        \/ \A k \in 1..Len(acceptCh'[q]) : Seen(q, acceptCh[q][k])'
    <3>. SUFFICES ASSUME acceptCh'[q] = Append(acceptCh[q], i0),
                         NEW k \in 1..Len(acceptCh'[q])
                  PROVE  Seen(q, acceptCh[q][k])'
      BY <1>6
    <3>1. /\ acceptCh[q] \in Seq(Ids) /\ Len(acceptCh[q]) \in Nat
          /\ Len(acceptCh'[q]) = Len(acceptCh[q]) + 1
          /\ acceptCh'[q][Len(acceptCh[q]) + 1] = i0
          /\ \A n \in 1..Len(acceptCh[q]) : acceptCh'[q][n] = acceptCh[q][n]
      BY AppendProperties, LenProperties DEF TypeOK
    <3>2. CASE k \in 1..Len(acceptCh[q])
      <4>1. PICK i \in Ids : acceptCh[q][k] = i
        BY <3>1, <3>2, ElementOfSeq
      <4>2. Seen(q, i)'
        BY <1>m, <3>2, <4>1 DEF Calls
      <4>. QED
        BY <3>1, <3>2, <4>1, <4>2
    <3>3. CASE k = Len(acceptCh[q]) + 1
      BY <1>m, <3>1, <3>3
    <3>. QED
      BY <3>1, <3>2, <3>3
  <2>5. \A p \in Peers : \/ acceptCh'[p] = acceptCh[p]
                         \/ \A k \in 1..Len(acceptCh'[p]) : Seen(p, acceptCh[p][k])'
    BY <1>6, <2>4
  <2>. QED
    BY <1>2, <1>m, <2>1, <2>3, <2>5, CallsStay
<1>11. Fresh'
  <2>. SUFFICES ASSUME NEW i \in Ids PROVE UsedOnce(i)'
    BY DEF Fresh
  <2>1. UsedOnce(i) /\ (Unsent(i)' <=> Unsent(i)) /\ ~Unsent(i0)
    BY <1>2, <1>3, <1>5 DEF Fresh, Unsent, UsedOnce
  <2>2. (Seen(Opener, i)' <=> Seen(Opener, i))
        /\ (Seen(Acceptor, i)' <=> Seen(Acceptor, i) \/ i = i0)
    BY <1>3, <1>m, OpenerAndAcceptor
  <2>. QED
    BY <1>2, <1>5, <1>w, <1>t, <2>1, <2>2, OpenerAndAcceptor DEF UsedOnce, End, Side
<1>12. OpensArrive' /\ OpensAreNews'
  <2>1. \A i \in Ids : Seen(Acceptor, i)' <=> Seen(Acceptor, i) \/ i = i0
    BY <1>3, <1>m
  <2>. QED
    BY <1>2, <1>3, <1>6, <1>p, <2>1 DEF OpensArrive, OpensAreNews, NoTask, End, Side
<1>13. OpensComeOnce' /\ OpensComeFirst'
  <2>1. OpensComeOnce'
    BY <1>2, <1>3, <1>t DEF OpensComeOnce
  <2>2. \A k \in 1..Len(wire[Opener]) :
          Seen(Acceptor, wire[Opener][k].id) \/ IsOpening(Acceptor, wire[Opener][k].id)
            => Seen(Acceptor, wire[Opener][k].id)'
    <3>. SUFFICES ASSUME NEW k \in 1..Len(wire[Opener])
         PROVE  Seen(Acceptor, wire[Opener][k].id) \/ IsOpening(Acceptor, wire[Opener][k].id)
                  => Seen(Acceptor, wire[Opener][k].id)'
      OBVIOUS
    <3>1. PICK i \in Ids : wire[Opener][k].id = i
      BY FramesOnWire, OpenerAndAcceptor
    <3>2. Seen(Acceptor, i) \/ IsOpening(Acceptor, i) => Seen(Acceptor, i)'
      BY <1>3, <1>m, <1>t
    <3>. QED
      BY <1>2, <3>1, <3>2
  <2>. QED
    BY <1>2, <1>3, <1>6, <2>1, <2>2 DEF OpensComeFirst, NoTask
<1>14. EndsAreTrue'
  <2>1. \A p \in Peers : task'[p] = task[p] \/ task'[p].type # "data"
    BY <1>6 DEF NoTask
  <2>. QED
    BY <1>2, <1>m, <1>w, <2>1, EndsStayTrue
<1>15. Agreement'
  <2>. SUFFICES ASSUME BothOpen', NEW i \in Ids PROVE Agreed(i)'
    BY DEF Agreement
  <2>1. Agreed(i)
    BY <1>2 DEF Agreement, BothOpen
  <2>2. streams'[Opener][i] = streams[Opener][i]
    BY <1>3, <1>6, OpenerAndAcceptor
  <2>3. streams'[Acceptor][i] = IF i = i0 THEN "remote" ELSE streams[Acceptor][i]
    BY <1>3, <1>6
  <2>. QED
    BY <1>2, <1>5, <1>c, <1>p, <2>1, <2>2, <2>3, OpenerAndAcceptor DEF Agreed
<1>. QED
  BY <1>1, <1>9, <1>10, <1>11, <1>12, <1>13, <1>14, <1>15

LEMMA SessionStepKeeps ==
  ASSUME OneOpener, StreamsInv, NEW p \in Peers,
         SessionClose(p) \/ SessionLost(p) \/ SessionShut(p)
  PROVE  StreamsInv'
<1>. USE DEF StreamsInv
<1>1. TypeOK'
  BY CloseSessionType DEF CloseSession
<1>2. UNCHANGED <<nextStream, streams, acceptCh, task, opening, writing, closing,
                  held, isClosed, remoteClosed, wire>>
  BY DEF SessionClose, SessionLost, SessionShut, appVars, flagVars
<1>3. /\ session'[p] \in {"marked", "shut"} /\ session[p] # "gone"
      /\ \A q \in Peers : q # p => session'[q] = session[q]
  BY DEF SessionClose, SessionLost, SessionShut, TypeOK
<1>4. \A q \in Peers : /\ session'[q] = "open" => session[q] = "open"
                       /\ session'[q] # "gone" => session[q] # "gone"
  BY <1>3
<1>m. \A q, i : (Seen(q, i)' <=> Seen(q, i)) /\ (Dead(q, i)' <=> Dead(q, i))
  BY <1>2, SameMemory
<1>w. \A q : OnWire(q)' = OnWire(q) /\ \A i : Tells(q, i)' <=> Tells(q, i)
  BY <1>2, SameWire
<1>t. \A q, i : (Busy(q, i)' <=> Busy(q, i)) /\ (IsOpening(q, i)' <=> IsOpening(q, i))
  BY <1>2, SameTask
<1>p. \A i : Pending(i)' <=> Pending(i)
  BY <1>2, SamePending
<1>5. Sides'
  BY <1>2, <1>w DEF Sides, Side
<1>6. Calls'
  BY <1>2, <1>m DEF Calls, End, Side
<1>7. Fresh'
  <2>. SUFFICES ASSUME NEW i \in Ids PROVE UsedOnce(i)'
    BY DEF Fresh
  <2>. QED
    BY <1>2, <1>m, <1>w, <1>t DEF Fresh, UsedOnce, Unsent, End, Side
<1>8. OpensArrive'
  BY <1>2, <1>4, <1>m, <1>p, OpenerAndAcceptor DEF OpensArrive, End, Side
<1>9. OpensAreNews' /\ OpensComeOnce' /\ OpensComeFirst'
  BY <1>2, <1>m, <1>t, <1>p DEF OpensAreNews, OpensComeOnce, OpensComeFirst
<1>10. EndsAreTrue'
  BY <1>2, <1>4, <1>m, <1>w, EndsStayTrue
<1>11. Agreement'
  BY <1>3 DEF Agreement, BothOpen
<1>. QED
  BY <1>1, <1>5, <1>6, <1>7, <1>8, <1>9, <1>10, <1>11

LEMMA SessionEmptyKeeps ==
  ASSUME OneOpener, StreamsInv, NEW p \in Peers, SessionEmpty(p)
  PROVE  StreamsInv'
<1>. USE DEF StreamsInv
<1>1. TypeOK'
  BY CloseSessionType DEF CloseSession
<1>2. UNCHANGED <<nextStream, acceptCh, task, opening, writing, closing, held,
                  isClosed, wire>>
  BY DEF SessionEmpty, appVars
<1>3. /\ session'[p] = "emptied" /\ session[p] = "marked"
      /\ \A q \in Peers : q # p => /\ session'[q] = session[q]
                                   /\ streams'[q] = streams[q]
                                   /\ remoteClosed'[q] = remoteClosed[q]
      /\ \A i \in Ids : streams'[p][i] = "none"
      /\ remoteClosed'[p] =
           remoteClosed[p] \cup {<<i, streams[p][i]>> : i \in Registered(p)}
  BY DEF SessionEmpty, TypeOK
<1>4. \A i \in Ids : End(p, i) \in remoteClosed'[p] <=>
        End(p, i) \in remoteClosed[p] \/ streams[p][i] # "none"
  <2>1. \A i \in Ids : streams[p][i] # "none" => <<i, streams[p][i]>> = End(p, i)
    BY DEF Sides, End
  <2>. QED
    BY <1>3, <2>1, Sided DEF Registered
<1>5. \A o \in remoteClosed'[p] : o[2] = Side(p)
  BY <1>3 DEF Sides, Registered
<1>m. \A q \in Peers : \A i \in Ids :
        (Seen(q, i)' <=> Seen(q, i)) /\ (Dead(q, i) => Dead(q, i)')
  BY <1>2, <1>3, <1>4 DEF Seen, Dead, Over, End, Side
<1>w. \A q : OnWire(q)' = OnWire(q) /\ \A i : Tells(q, i)' <=> Tells(q, i)
  BY <1>2, SameWire
<1>t. \A q, i : (Busy(q, i)' <=> Busy(q, i)) /\ (IsOpening(q, i)' <=> IsOpening(q, i))
  BY <1>2, SameTask
<1>p. \A i : Pending(i)' <=> Pending(i)
  BY <1>2, SamePending
<1>6. Sides'
  <2>1. \A q \in Peers : \A i \in Ids : streams'[q][i] \in {"none", Side(q)}
    BY <1>3 DEF Sides
  <2>2. \A q \in Peers : \A o \in held'[q] \cup remoteClosed'[q] : o[2] = Side(q)
    BY <1>2, <1>3, <1>5 DEF Sides
  <2>. QED
    BY <1>2, <1>w, <2>1, <2>2 DEF Sides, Side
<1>7. Calls'
  <2>1. \A q \in Peers : isClosed'[q] \cup writing'[q] \subseteq held'[q]
    BY <1>2 DEF Calls
  <2>2. \A q \in Peers : \A o \in Objects :
          /\ closing'[q][o] # "idle" => o \in isClosed'[q]
          /\ closing'[q][o] = "removed" => streams'[q][o[1]] = "none"
    BY <1>2, <1>3 DEF Calls, Objects
  <2>. QED
    BY <1>2, <1>m, <2>1, <2>2, CallsStay
<1>8. Fresh'
  <2>. SUFFICES ASSUME NEW i \in Ids PROVE UsedOnce(i)'
    BY DEF Fresh
  <2>. QED
    BY <1>2, <1>m, <1>w, <1>t, OpenerAndAcceptor
    DEF Fresh, UsedOnce, Unsent, End, Side
<1>a. \A i \in Ids : Seen(Acceptor, i)' <=> Seen(Acceptor, i)
  BY <1>m, OpenerAndAcceptor
<1>9. OpensArrive'
  <2>1. session'[Opener] # "gone" => session[Opener] # "gone"
    BY <1>3, OpenerAndAcceptor
  <2>. QED
    BY <1>2, <1>a, <1>p, <2>1 DEF OpensArrive, End, Side
<1>10. OpensAreNews' /\ OpensComeOnce'
  BY <1>2, <1>a, <1>t, <1>p DEF OpensAreNews, OpensComeOnce
<1>11. OpensComeFirst'
  BY <1>2, <1>a, <1>t, FramesOnWire, OpenerAndAcceptor, TaskIds DEF OpensComeFirst
<1>12. EndsAreTrue'
  <2>1. \A q \in Peers :
          session'[q] = "open" =>
            /\ session[q] = "open"
            /\ \A i \in Ids : End(q, i) \in remoteClosed'[q] =>
                 End(q, i) \in remoteClosed[q] \/ Dead(Other(q), i)'
    BY <1>3
  <2>. QED
    BY <1>2, <1>m, <1>w, <2>1, EndsStayTrue
<1>13. Agreement'
  BY <1>3 DEF Agreement, BothOpen
<1>. QED
  BY <1>1, <1>6, <1>7, <1>8, <1>9, <1>10, <1>11, <1>12, <1>13

\* Frames that are lost when a session ends are the last ones.
LEMMA SessionGoneKeeps ==
  ASSUME OneOpener, StreamsInv, NEW p \in Peers, SessionGone(p)
  PROVE  StreamsInv'
<1>. USE DEF StreamsInv
<1>1. TypeOK'
  BY CloseSessionType DEF CloseSession
<1>2. UNCHANGED <<nextStream, streams, acceptCh, task, opening, writing, closing,
                  held, isClosed, remoteClosed>>
  BY DEF SessionGone, appVars, flagVars
<1>3. /\ session'[p] = "gone"
      /\ \A q \in Peers : q # p => session'[q] = session[q]
  BY DEF SessionGone, TypeOK
<1>4. /\ \A q \in Peers : q # p => wire'[q] = wire[q]
      /\ Len(wire[p]) \in Nat /\ Len(wire'[p]) \in 0..Len(wire[p])
      /\ \A k \in 1..Len(wire'[p]) : wire'[p][k] = wire[p][k]
  <2>1. PICK n \in 0..Len(wire[p]) : wire' = [wire EXCEPT ![p] = SubSeq(wire[p], 1, n)]
    BY DEF SessionGone
  <2>2. wire[p] \in Seq(Frames) /\ Len(wire[p]) \in Nat
    BY LenProperties DEF TypeOK
  <2>3. /\ Len(SubSeq(wire[p], 1, n)) = n
        /\ \A k \in 1..n : SubSeq(wire[p], 1, n)[k] = wire[p][k]
    BY <2>2, SubSeqProperties, ElementOfSeq
  <2>4. wire'[p] = SubSeq(wire[p], 1, n) /\ \A q \in Peers : q # p => wire'[q] = wire[q]
    BY <2>1 DEF TypeOK
  <2>. QED
    BY <2>2, <2>3, <2>4
<1>5. \A q \in Peers : \A k \in 1..Len(wire'[q]) :
        k \in 1..Len(wire[q]) /\ wire'[q][k] = wire[q][k]
  BY <1>4
<1>m. \A q, i : (Seen(q, i)' <=> Seen(q, i)) /\ (Dead(q, i)' <=> Dead(q, i))
  BY <1>2, SameMemory
<1>t. \A q, i : (Busy(q, i)' <=> Busy(q, i)) /\ (IsOpening(q, i)' <=> IsOpening(q, i))
  BY <1>2, SameTask
<1>x. \A q \in Peers : OnWire(q)' \subseteq OnWire(q) /\ \A i : Tells(q, i)' => Tells(q, i)
  <2>1. \A q \in Peers : OnWire(q)' \subseteq OnWire(q)
    BY <1>5 DEF OnWire
  <2>. QED
    BY <2>1 DEF Tells
<1>p. \A i : Pending(i)' => Pending(i)
  BY <1>x, <1>t, OpenerAndAcceptor DEF Pending
<1>6. Sides'
  BY <1>2, <1>x, OpenerAndAcceptor DEF Sides, Side
<1>7. Calls'
  BY <1>2, <1>m DEF Calls, End, Side
<1>8. Fresh'
  <2>. SUFFICES ASSUME NEW i \in Ids PROVE UsedOnce(i)'
    BY DEF Fresh
  <2>1. UsedOnce(i) /\ (Unsent(i)' <=> Unsent(i))
    BY <1>2 DEF Fresh, Unsent
  <2>. QED
    BY <1>2, <1>m, <1>x, <1>t, <2>1, OpenerAndAcceptor DEF UsedOnce, End, Side
<1>9. OpensArrive'
  <2>1. CASE p = Opener
    BY <1>3, <2>1 DEF OpensArrive
  <2>2. CASE p # Opener
    <3>1. session'[Opener] = session[Opener] /\ wire'[Opener] = wire[Opener]
      BY <1>3, <1>4, <2>2, OpenerAndAcceptor
    <3>2. \A i : Pending(i)' <=> Pending(i)
      BY <1>t, <3>1 DEF Pending, OnWire
    <3>. QED
      BY <1>2, <1>m, <3>1, <3>2 DEF OpensArrive, End, Side
  <2>. QED
    BY <2>1, <2>2
<1>10. OpensAreNews'
  BY <1>2, <1>m, <1>p DEF OpensAreNews
<1>11. OpensComeOnce'
  BY <1>5, <1>t, OpenerAndAcceptor DEF OpensComeOnce
<1>12. OpensComeFirst'
  <2>n. Len(wire[Opener]) \in Nat /\ Len(wire'[Opener]) \in Nat
    BY <1>1, LenProperties, OpenerAndAcceptor DEF TypeOK
  <2>. SUFFICES ASSUME NEW k \in 1..Len(wire'[Opener]), wire'[Opener][k].type # "open"
       PROVE  \/ Seen(Acceptor, wire[Opener][k].id)'
              \/ IsOpening(Acceptor, wire[Opener][k].id)'
              \/ \E j \in 1..Len(wire'[Opener]) :
                   /\ j < k
                   /\ wire'[Opener][j].type = "open"
                   /\ wire'[Opener][j].id = wire'[Opener][k].id
    BY <1>2, <1>m DEF OpensComeFirst
  <2>1. k \in 1..Len(wire[Opener]) /\ wire'[Opener][k] = wire[Opener][k]
    BY <1>5, OpenerAndAcceptor
  <2>2. \/ Seen(Acceptor, wire[Opener][k].id)
        \/ IsOpening(Acceptor, wire[Opener][k].id)
        \/ \E j \in 1..Len(wire[Opener]) :
             /\ j < k
             /\ wire[Opener][j].type = "open"
             /\ wire[Opener][j].id = wire[Opener][k].id
    BY <2>1 DEF OpensComeFirst
  <2>3. \A j \in 1..Len(wire[Opener]) :
          j < k => j \in 1..Len(wire'[Opener]) /\ wire'[Opener][j] = wire[Opener][j]
    BY <1>5, <2>n, OpenerAndAcceptor
  <2>. QED
    BY <1>m, <1>t, <2>1, <2>2, <2>3
<1>13. EndsAreTrue'
  <2>1. \A q \in Peers : session'[q] = "open" => session[q] = "open"
    BY <1>3
  <2>. QED
    BY <1>2, <1>m, <1>x, <2>1, EndsStayTrue
<1>14. Agreement'
  BY <1>3 DEF Agreement, BothOpen
<1>. QED
  BY <1>1, <1>6, <1>7, <1>8, <1>9, <1>10, <1>11, <1>12, <1>13, <1>14

------------------------------------------------------------------------------
(* The theorems *)

LEMMA InitStreams ==
  ASSUME OneOpener, Init
  PROVE  StreamsInv
<1>1. TypeOK
  BY InitType
<1>2. Len(<<>>) = 0 /\ \A p \in Peers : wire[p] = <<>> /\ acceptCh[p] = <<>>
  BY EmptySeq DEF Init
<1>3. \A p \in Peers : OnWire(p) = {}
  BY <1>2 DEF OnWire
<1>4. \A p \in Peers : \A i \in Ids : ~Tells(p, i) /\ ~Busy(p, i) /\ ~IsOpening(p, i)
  BY <1>3 DEF Init, Tells, Busy, IsOpening, NoTask
<1>5. \A p \in Peers : \A i \in Ids : ~Seen(p, i)
  BY DEF Init, Seen, Over
<1>6. \A i \in Ids : ~Pending(i)
  BY <1>3, <1>4, OpenerAndAcceptor DEF Pending
<1>7. \A p \in Peers : task[p].type = "none" /\ Len(wire[p]) = 0
  BY <1>2 DEF Init, NoTask
<1>8. Sides
  BY <1>2, <1>3, <1>7, OpenerAndAcceptor DEF Sides, Init
<1>9. Calls
  BY <1>2, <1>5 DEF Calls, Init
<1>10. Fresh
  BY <1>4, <1>5, OpenerAndAcceptor DEF Fresh, UsedOnce, Init
<1>11. OpensArrive /\ OpensAreNews /\ OpensComeOnce /\ OpensComeFirst
  BY <1>6, <1>7, OpenerAndAcceptor
  DEF OpensArrive, OpensAreNews, OpensComeOnce, OpensComeFirst, Init
<1>12. EndsAreTrue
  BY <1>3, <1>7 DEF EndsAreTrue, Init
<1>13. Agreement
  BY <1>6, OpenerAndAcceptor DEF Agreement, Agreed, Init
<1>. QED
  BY <1>1, <1>8, <1>9, <1>10, <1>11, <1>12, <1>13 DEF StreamsInv

LEMMA UnchangedKeeps ==
  ASSUME OneOpener, StreamsInv, UNCHANGED vars
  PROVE  StreamsInv'
<1>. USE DEF StreamsInv
<1>1. TypeOK'
  BY NextType
<1>2. UNCHANGED <<nextStream, streams, acceptCh, session, task, opening, writing,
                  closing, held, isClosed, remoteClosed, wire>>
  BY DEF vars, sessVars, appVars, flagVars
<1>m. \A q, i : (Seen(q, i)' <=> Seen(q, i)) /\ (Dead(q, i)' <=> Dead(q, i))
  BY <1>2, SameMemory
<1>w. \A q : OnWire(q)' = OnWire(q) /\ \A i : Tells(q, i)' <=> Tells(q, i)
  BY <1>2, SameWire
<1>t. \A q, i : (Busy(q, i)' <=> Busy(q, i)) /\ (IsOpening(q, i)' <=> IsOpening(q, i))
  BY <1>2, SameTask
<1>p. \A i : Pending(i)' <=> Pending(i)
  BY <1>2, SamePending
<1>c. \A q, i : Closing(q, i)' <=> Closing(q, i)
  BY <1>2, SameClosing
<1>3. Sides'
  BY <1>2, <1>w DEF Sides, Side
<1>4. Calls'
  BY <1>2, <1>m DEF Calls, End, Side
<1>5. Fresh'
  <2>. SUFFICES ASSUME NEW i \in Ids PROVE UsedOnce(i)'
    BY DEF Fresh
  <2>. QED
    BY <1>2, <1>m, <1>w, <1>t DEF Fresh, UsedOnce, Unsent, End, Side
<1>6. OpensArrive' /\ OpensAreNews' /\ OpensComeOnce' /\ OpensComeFirst'
  BY <1>2, <1>m, <1>t, <1>p
  DEF OpensArrive, OpensAreNews, OpensComeOnce, OpensComeFirst, End, Side
<1>7. EndsAreTrue'
  BY <1>2, <1>m, <1>w, EndsStayTrue
<1>8. Agreement'
  BY <1>2, <1>c, <1>p, AgreementStays DEF BothOpen
<1>. QED
  BY <1>1, <1>3, <1>4, <1>5, <1>6, <1>7, <1>8

LEMMA NextStreams ==
  ASSUME OneOpener, StreamsInv, [Next]_vars
  PROVE  StreamsInv'
<1>1. CASE UNCHANGED vars
  BY <1>1, UnchangedKeeps
<1>2. ASSUME NEW p \in Peers, OpenStream(p) PROVE StreamsInv'
  BY <1>2, OpenAllocKeeps, OpenRegisterKeeps, OpenSendKeeps DEF OpenStream
<1>3. ASSUME NEW p \in Peers, NEW o \in Objects, UseStream(p, o) PROVE StreamsInv'
  BY <1>3, WriteStartKeeps, WriteSendKeeps, CloseMarkKeeps, CloseRemoveKeeps,
     CloseSendKeeps DEF UseStream
<1>4. ASSUME NEW p \in Peers, ProcessLoop(p) PROVE StreamsInv'
  BY <1>4, LookUpKeeps, HandleEndKeeps, HandleOpenKeeps, AnswerKeeps DEF ProcessLoop
<1>5. ASSUME NEW p \in Peers, CloseSession(p) PROVE StreamsInv'
  BY <1>5, SessionStepKeeps, SessionEmptyKeeps, SessionGoneKeeps DEF CloseSession
<1>. QED
  BY <1>1, <1>2, <1>3, <1>4, <1>5, AcceptKeeps DEF Next

\* Every stream an application has and nobody has closed is in the map of its
\* session (session.go:161-167, 263-265, 479-481).
THEOREM HeldStreamsAreFound ==
  ASSUME OneOpener
  PROVE  Spec => []RegistrySound
<1>1. StreamsInv => RegistrySound
  <2>. SUFFICES ASSUME StreamsInv, NEW p \in Peers,
                       NEW o \in held[p] \ (isClosed[p] \cup remoteClosed[p])
                PROVE  streams[p][o[1]] = o[2]
    BY DEF StreamsInv, RegistrySound, UsableIsRegistered
  <2>1. o[1] \in Ids /\ o = End(p, o[1]) /\ Seen(p, o[1])
    BY HeldEnd
  <2>2. streams[p][o[1]] # "none"
    BY <2>1 DEF Seen, Over
  <2>. QED
    BY <2>1, <2>2, Sided DEF StreamsInv, Sides
<1>. QED
  BY <1>1, InitStreams, NextStreams, PTL DEF Spec

\* When nothing is on the way the two sessions name the same streams, provided
\* that no frame was given up after 5 s (session.go:209-222).
THEOREM MapsAgreeWhenQuiet ==
  ASSUME OneOpener, ~SendTimeouts
  PROVE  Spec => []QuietAgreement
<1>1. StreamsInv => QuietAgreement
  <2>. SUFFICES ASSUME StreamsInv, Quiet, NEW i \in Ids
       PROVE  \/ streams[Client][i] = "none" /\ streams[Server][i] = "none"
              \/ streams[Client][i] = Opposite(streams[Server][i])
                 /\ streams[Client][i] # "none"
    BY DEF QuietAgreement
  <2>1. Agreed(i)
    BY DEF StreamsInv, Agreement, BothOpen, Quiet
  <2>2. \A p \in Peers : OnWire(p) = {} /\ task[p].type = "none"
    BY EmptySeq DEF Quiet, OnWire, NoTask
  <2>3. ~Pending(i) /\ \A p \in Peers : ~Closing(p, i)
    BY <2>2, Sided, OpenerAndAcceptor DEF Pending, Closing, IsOpening, Quiet
  <2>4. streams[Acceptor][i] # "none" <=> streams[Opener][i] # "none"
    BY <2>1, <2>3, OpenerAndAcceptor DEF Agreed, Quiet
  <2>5. /\ streams[Opener][i] \in {"none", "local"}
        /\ streams[Acceptor][i] \in {"none", "remote"}
    BY Sided, OpenerAndAcceptor DEF StreamsInv, Sides
  <2>. QED
    BY <2>4, <2>5, OpenerAndAcceptor DEF Opposite, Peers
<1>. QED
  BY <1>1, InitStreams, NextStreams, PTL DEF Spec

\* A RESET takes a stream from nobody whose peer has not closed it
\* (session.go:421-428, 457-461).
THEOREM ResetsFollowCloses ==
  ASSUME OneOpener
  PROVE  Spec => []ResetFollowsClose
<1>1. StreamsInv => ResetFollowsClose
  <2>. SUFFICES ASSUME StreamsInv, NEW p \in Peers, NEW k \in 1..Len(wire[p]),
                       wire[p][k].type = "reset", session[p] = "open",
                       NEW origin \in Origins,
                       streams[Other(p)][wire[p][k].id] = origin
       PROVE  <<wire[p][k].id, Opposite(origin)>> \in isClosed[p]
    BY DEF ResetFollowsClose
  <2>1. PICK i \in Ids : wire[p][k].id = i
    BY FramesOnWire DEF StreamsInv
  <2>2. Dead(p, i)
    BY <2>1 DEF StreamsInv, EndsAreTrue, OnWire
  <2>3. Other(p) \in Peers /\ streams[Other(p)][i] # "none" /\ origin = Side(Other(p))
    BY <2>1, Pair DEF StreamsInv, Sides, Origins
  <2>4. End(p, i) \notin remoteClosed[p]
    BY <2>3 DEF StreamsInv, EndsAreTrue, Dead
  <2>5. End(p, i) \in isClosed[p]
    BY <2>2, <2>4 DEF Dead, Over
  <2>6. Opposite(origin) = Side(p)
    BY <2>3, Sided, OpenerAndAcceptor DEF Opposite
  <2>. QED
    BY <2>1, <2>5, <2>6 DEF End
<1>. QED
  BY <1>1, InitStreams, NextStreams, PTL DEF Spec
------------------------------------------------------------------------------
(***************************************************************************)
(* The frames that carry streams, of ZtpFrame: what one end writes the     *)
(* other end reads, for every identifier of 32 bits.                       *)
(***************************************************************************)

\* The numbers below 16 * 2^28.
Uint32s == {v \in Nat : v \div 268435456 < 16}

LEMMA Weights ==
  /\ Weight[1] = 1 /\ Weight[2] = 128 /\ Weight[3] = 16384
  /\ Weight[4] = 2097152 /\ Weight[5] = 268435456
BY SMT DEF Weight

\* A uint32 is the sum of its groups of seven bits.
LEMMA Group ==
  ASSUME NEW n \in Nat
  PROVE  n = (n % 128) + 128 * (n \div 128) /\ n \div 128 \in Nat /\ n % 128 \in 0..127
BY SMT

LEMMA Small ==
  ASSUME NEW x \in 0..127
  PROVE  x < 128 /\ x + 128 >= 128 /\ 1 * x = x
BY SMT

LEMMA ByteFacts ==
  ASSUME NEW x \in Bytes
  PROVE  x \in Nat /\ (x < 128 => ~(x >= 128))
BY SMT DEF Bytes

LEMMA Shifts ==
  ASSUME NEW v \in Nat
  PROVE  /\ v \div 16384 = (v \div 128) \div 128
         /\ v \div 2097152 = (v \div 16384) \div 128
         /\ v \div 268435456 = (v \div 2097152) \div 128
<1>1. v \div 16384 = (v \div 128) \div 128
  BY SMT
<1>2. v \div 2097152 = (v \div 16384) \div 128
  BY SMT
<1>3. v \div 268435456 = (v \div 2097152) \div 128
  BY SMT
<1> QED
  BY SMT, <1>1, <1>2, <1>3

LEMMA Top ==
  ASSUME NEW v \in Uint32s
  PROVE v \div 268435456 \in 0..15 
BY SMT DEF Uint32s

\* The bytes of a varint: all but the last have the continuation bit.
LEMMA VarintBytes ==
  ASSUME NEW v \in Uint32s
  PROVE  /\ VarintSize(v) \in 1..5
         /\ EncodeVarint(v) \in Seq(Bytes) /\ Len(EncodeVarint(v)) = VarintSize(v)
         /\ \A i \in 1..VarintSize(v) :
              /\ EncodeVarint(v)[i] = ((v \div Weight[i]) % 128)
                                        + (IF i < VarintSize(v) THEN 128 ELSE 0)
              /\ i < VarintSize(v) => EncodeVarint(v)[i] >= 128
              /\ i = VarintSize(v) => EncodeVarint(v)[i] < 128
<1> DEFINE n == VarintSize(v)
           e == EncodeVarint(v)
<1>1. n \in 1..5
  BY SMT, Weights DEF VarintSize, Uint32s
<1>2. e = [i \in 1..n |-> ((v \div Weight[i]) % 128) + (IF i < n THEN 128 ELSE 0)]
  BY SMT DEF EncodeVarint
<1> HIDE DEF n, e
<1>3. ASSUME NEW i \in 1..n
      PROVE  /\ e[i] = ((v \div Weight[i]) % 128) + (IF i < n THEN 128 ELSE 0)
             /\ e[i] \in Bytes
             /\ i < n => e[i] >= 128
             /\ i = n => e[i] < 128
  <2>1. (v \div Weight[i]) \in Nat
    BY SMT, <1>1, Weights DEF Uint32s
  <2>2. (v \div Weight[i]) % 128 \in 0..127
    BY SMT, <2>1
  <2>3. e[i] = ((v \div Weight[i]) % 128) + (IF i < n THEN 128 ELSE 0)
    BY SMT, <1>2
  <2> QED
    BY SMT, <1>1, <2>2, <2>3 DEF Bytes
<1>4. e \in [1..n -> Bytes]
  BY SMT, <1>2, <1>3
<1>5. e \in Seq(Bytes) /\ Len(e) = n
  BY SMT, <1>1, <1>4
<1> QED
  BY SMT, <1>1, <1>3, <1>5 DEF n, e

\* The i-th group of seven bits.
Digit(v, i) == (v \div Weight[i]) % 128

LEMMA DigitRange ==
  ASSUME NEW v \in Uint32s, NEW i \in 1..5
  PROVE  Digit(v, i) \in 0..127
<1>1. (v \div Weight[i]) \in Nat
  BY SMT, Weights DEF Uint32s
<1> QED
  BY SMT, <1>1 DEF Digit

\* The groups add up to the number.
LEMMA Digits ==
  ASSUME NEW v \in Uint32s
  PROVE  /\ Digit(v, 5) \in 0..15
         /\ v = Digit(v, 1) + Weight[2] * Digit(v, 2) + Weight[3] * Digit(v, 3)
                + Weight[4] * Digit(v, 4) + Weight[5] * Digit(v, 5)
<1>1. v \in Nat
  BY SMT DEF Uint32s
<1>2. PICK q1 \in Nat : q1 = v \div 128
  BY SMT, <1>1, Group
<1>3. PICK q2 \in Nat : q2 = q1 \div 128
  BY SMT, <1>2, Group
<1>4. PICK q3 \in Nat : q3 = q2 \div 128
  BY SMT, <1>3, Group
<1>5. q2 = v \div 16384 /\ q3 = v \div 2097152 /\ v \div 268435456 = q3 \div 128
  BY SMT, <1>1, <1>2, <1>3, <1>4, Shifts
<1>6. PICK q4 \in 0..15 : q4 = q3 \div 128 /\ q4 = v \div 268435456
  BY SMT, <1>1, <1>5, Top
<1>7. PICK d1 \in 0..127 : d1 = v % 128 /\ v = d1 + 128 * q1
  BY SMT, <1>1, <1>2, Group
<1>8. PICK d2 \in 0..127 : d2 = q1 % 128 /\ q1 = d2 + 128 * q2
  <2>1. q1 % 128 \in 0..127 /\ q1 = (q1 % 128) + 128 * (q1 \div 128)
    BY Group
  <2> QED
    BY SMT, <1>3, <2>1
<1>9. PICK d3 \in 0..127 : d3 = q2 % 128 /\ q2 = d3 + 128 * q3
  BY SMT, <1>3, <1>4, Group
<1>10. PICK d4 \in 0..127 : d4 = q3 % 128 /\ q3 = d4 + 128 * q4
  BY SMT, <1>4, <1>6, Group
<1>11. Digit(v, 1) = d1
  BY SMT, <1>1, <1>7, Weights DEF Digit
<1>12. Digit(v, 2) = d2
  BY SMT, <1>1, <1>2, <1>8, Weights DEF Digit
<1>13. Digit(v, 3) = d3
  BY SMT, <1>1, <1>5, <1>9, Weights DEF Digit
<1>14. Digit(v, 4) = d4
  BY SMT, <1>1, <1>5, <1>10, Weights DEF Digit
<1>15. Digit(v, 5) = q4
  BY SMT, <1>1, <1>6, Weights DEF Digit
<1>16. v = d1 + 128 * d2 + 16384 * d3 + 2097152 * d4 + 268435456 * q4
  BY SMT, <1>1, <1>7, <1>8, <1>9, <1>10
<1>17. v = d1 + Weight[2] * d2 + Weight[3] * d3 + Weight[4] * d4 + Weight[5] * q4
  BY SMT, <1>16, Weights
<1>18. q4 \in 0..15
  BY SMT, <1>6
<1> QED
  BY Zenon, <1>11, <1>12, <1>13, <1>14, <1>15, <1>17, <1>18

\* The groups past the size of the varint are zero.
LEMMA ZeroDigits ==
  ASSUME NEW v \in Uint32s, NEW i \in 1..5, i > VarintSize(v)
  PROVE  Digit(v, i) = 0
<1>1. v \in Nat /\ v < Weight[i]
  <2>1. CASE i = 1
    BY SMT, <2>1, Weights DEF VarintSize
  <2>2. CASE i = 2
    BY SMT, <2>2, Weights DEF VarintSize, Uint32s
  <2>3. CASE i = 3
    BY SMT, <2>3, Weights DEF VarintSize, Uint32s
  <2>4. CASE i = 4
    BY SMT, <2>4, Weights DEF VarintSize, Uint32s
  <2>5. CASE i = 5
    BY SMT, <2>5, Weights DEF VarintSize, Uint32s
  <2> QED
    BY SMT, <2>1, <2>2, <2>3, <2>4, <2>5
<1>2. v \div Weight[i] = 0
  BY SMT, <1>1, Weights
<1> QED
  BY SMT, <1>2 DEF Digit

LEMMA SizeRange == ASSUME NEW v \in Uint32s PROVE VarintSize(v) \in 1..5
BY SMT, Weights DEF VarintSize, Uint32s

LEMMA ByteOf ==
  ASSUME NEW v \in Uint32s, NEW i \in 1..VarintSize(v)
  PROVE  /\ i \in 1..5
         /\ i < VarintSize(v) => EncodeVarint(v)[i] = Digit(v, i) + 128
         /\ i = VarintSize(v) => EncodeVarint(v)[i] = Digit(v, i)
<1>1. i \in 1..5 /\ VarintSize(v) \in 1..5
  BY SMT, SizeRange
<1>2. Digit(v, i) \in 0..127
  BY SMT, <1>1, DigitRange
<1>3. EncodeVarint(v)[i] = Digit(v, i) + (IF i < VarintSize(v) THEN 128 ELSE 0)
  BY Zenon DEF EncodeVarint, Digit
<1> QED
  BY SMT, <1>1, <1>2, <1>3

\* The first byte without the continuation bit ends the varint.
LEMMA VarintEnd ==
  ASSUME NEW data \in Seq(Bytes), NEW n \in 1..5, n <= Len(data), data[n] < 128,
         \A i \in 1..(n - 1) : data[i] >= 128
  PROVE  /\ Ends(data, n)
         /\ \A i \in DOMAIN data : Ends(data, i) => i = n
         /\ DecodeVarint(data)
              = [ok |-> TRUE, size |-> n,
                 value |-> Bits(data, 1, n) + Bits(data, 2, n) + Bits(data, 3, n)
                           + Bits(data, 4, n) + Bits(data, 5, n)]
<1>1. n \in DOMAIN data /\ Ends(data, n)
  BY SMT DEF Ends
<1>2. ASSUME NEW i \in DOMAIN data, Ends(data, i)
      PROVE  i = n
  <2>1. i \in 1..Len(data) /\ data[i] < 128 /\ \A j \in 1..(i - 1) : data[j] >= 128
    BY SMT, <1>2 DEF Ends
  <2>2. data[i] \in Nat /\ data[n] \in Nat
    <3>1. data[i] \in Bytes /\ data[n] \in Bytes
      BY <1>1, <1>2, ElementOfSeq
    <3> QED
      BY Zenon, <3>1, ByteFacts
  <2>3. i < n => data[i] >= 128
    BY SMT, <2>1
  <2>4. n < i => data[n] >= 128
    BY SMT, <2>1
  <2> QED
    BY SMT, <2>1, <2>2, <2>3, <2>4
<1>3. (IF \E i \in DOMAIN data : Ends(data, i)
       THEN CHOOSE i \in DOMAIN data : Ends(data, i) ELSE Len(data)) = n
  BY Zenon, <1>1, <1>2
<1>4. n # 0 /\ ~(n > 5) /\ ~(n = 5 /\ data[n] >= 128)
  <2>1. data[n] \in Bytes
    BY <1>1, ElementOfSeq
  <2>2. ~(data[n] >= 128)
    BY Zenon, <2>1, ByteFacts
  <2> QED
    BY SMT, <2>2
<1>5. DecodeVarint(data)
        = IF n = 0 \/ n > 5 \/ (n = 5 /\ data[n] >= 128)
          THEN [ok |-> FALSE, value |-> 0, size |-> 0]
          ELSE [ok |-> TRUE, size |-> n,
                value |-> Bits(data, 1, n) + Bits(data, 2, n) + Bits(data, 3, n)
                          + Bits(data, 4, n) + Bits(data, 5, n)]
  BY Zenon, <1>3 DEF DecodeVarint
<1> QED
  BY Zenon, <1>1, <1>2, <1>4, <1>5

\* What a byte adds to the number.
LEMMA Adds ==
  ASSUME NEW data \in Seq(Bytes), NEW n \in 1..5, NEW i \in 1..5, NEW x \in 0..127,
         i < n => data[i] = x + 128, i = n => data[i] = x, i > n => x = 0,
         i = 5 => x \in 0..15
  PROVE  Bits(data, i, n) = Weight[i] * x
<1>1. CASE i > n
  BY SMT, <1>1, Weights DEF Bits
<1>2. CASE i <= n
  <2>1. data[i] = x + 128 \/ data[i] = x
    BY SMT, <1>2
  <2>2. data[i] % 128 = x
    BY SMTT(30), <2>1
  <2>3. i = 5 => data[i] = x /\ x \in 0..15
    BY SMT, <1>2
  <2>4. i = 5 => data[i] % 16 = x
    BY SMT, <2>3
  <2> QED
    BY SMT, <1>2, <2>2, <2>4 DEF Bits
<1> QED
  BY SMT, <1>1, <1>2

\* Reading a varint gives the number that was written, whatever follows it.
\* (encodeVarint, decodeVarint)
THEOREM VarintsAreRead ==
  ASSUME NEW v \in Uint32s, NEW data \in Seq(Bytes), Len(data) >= VarintSize(v),
         \A i \in 1..VarintSize(v) : data[i] = EncodeVarint(v)[i]
  PROVE  /\ Ends(data, VarintSize(v))
         /\ \A i \in DOMAIN data : Ends(data, i) => i = VarintSize(v)
         /\ DecodeVarint(data) = [ok |-> TRUE, size |-> VarintSize(v), value |-> v]
<1>1. VarintSize(v) \in 1..5
  BY SizeRange
<1>2. ASSUME NEW i \in 1..VarintSize(v)
      PROVE  /\ i < VarintSize(v) => data[i] = Digit(v, i) + 128 /\ data[i] >= 128
             /\ i = VarintSize(v) => data[i] = Digit(v, i) /\ data[i] < 128
  <2>1. /\ i \in 1..5 /\ data[i] = EncodeVarint(v)[i]
        /\ i < VarintSize(v) => EncodeVarint(v)[i] = Digit(v, i) + 128
        /\ i = VarintSize(v) => EncodeVarint(v)[i] = Digit(v, i)
    BY ZenonT(60), ByteOf
  <2>2. Digit(v, i) \in 0..127
    BY Zenon, <2>1, DigitRange
  <2>3. Digit(v, i) < 128 /\ Digit(v, i) + 128 >= 128
    BY Zenon, <2>2, Small
  <2> QED
    BY Zenon, <2>1, <2>3
<1>3. ASSUME NEW i \in 1..5
      PROVE  Bits(data, i, VarintSize(v)) = Weight[i] * Digit(v, i)
  <2>1. /\ Digit(v, i) \in 0..127
        /\ i = 5 => Digit(v, i) \in 0..15
        /\ i > VarintSize(v) => Digit(v, i) = 0
    BY Zenon, DigitRange, Digits, ZeroDigits
  <2>2. i <= VarintSize(v) => i \in 1..VarintSize(v)
    BY SMT, <1>1
  <2>3. /\ i < VarintSize(v) => data[i] = Digit(v, i) + 128
        /\ i = VarintSize(v) => data[i] = Digit(v, i)
    BY SMT, <1>1, <1>2, <2>2
  <2> QED
    BY ZenonT(60), <1>1, <2>1, <2>3, Adds
<1>4. Bits(data, 1, VarintSize(v)) + Bits(data, 2, VarintSize(v)) + Bits(data, 3, VarintSize(v))
        + Bits(data, 4, VarintSize(v)) + Bits(data, 5, VarintSize(v)) = v
  <2>1. 1 \in 1..5 /\ 2 \in 1..5 /\ 3 \in 1..5 /\ 4 \in 1..5 /\ 5 \in 1..5
    BY SMT
  <2>2. Digit(v, 1) \in 0..127 /\ Weight[1] * Digit(v, 1) = Digit(v, 1)
    <3>1. Digit(v, 1) \in 0..127
      BY <2>1, DigitRange
    <3>2. Weight[1] = 1
      BY SMT, Weights
    <3> QED
      BY Zenon, <3>1, <3>2, Small
  <2> QED
    BY Zenon, <1>3, <2>1, <2>2, Digits
<1>5. /\ VarintSize(v) <= Len(data) /\ data[VarintSize(v)] < 128
      /\ \A i \in 1..(VarintSize(v) - 1) : data[i] >= 128
  <2>1. VarintSize(v) \in 1..VarintSize(v) /\ VarintSize(v) <= Len(data)
    BY SMT, <1>1
  <2>2. ASSUME NEW i \in 1..(VarintSize(v) - 1)
        PROVE  i \in 1..VarintSize(v) /\ i < VarintSize(v)
    BY SMT, <1>1
  <2> QED
    BY Zenon, <1>2, <2>1, <2>2
<1> QED
  BY Zenon, <1>1, <1>4, <1>5, VarintEnd

Uint16s == {n \in Nat : n < 65536}

\* The frames that Validate lets pass and whose fields fit the bytes they get.
CodecFrames ==
  {f \in [type : Types, flags : Bytes, streamID : Uint32s, length : Uint16s,
          payload : Seq(Bytes)] : f.length = Len(f.payload)}

\* Two bytes hold a length.
LEMMA LengthBytes ==
  ASSUME NEW n \in Uint16s
  PROVE  n % 256 \in Bytes /\ n \div 256 \in Bytes /\ (n % 256) + 256 * (n \div 256) = n
BY SMT DEF Bytes, Uint16s

LEMMA FourBytes ==
  ASSUME NEW a \in Bytes, NEW b \in Bytes, NEW c \in Bytes, NEW d \in Bytes,
         NEW s, s = <<a, b, c, d>>
  PROVE  s \in Seq(Bytes) /\ Len(s) = 4 /\ s[1] = a /\ s[2] = b /\ s[3] = c /\ s[4] = d
OBVIOUS

LEMMA Joined ==
  ASSUME NEW s \in Seq(Bytes), NEW t \in Seq(Bytes)
  PROVE  \E x \in Seq(Bytes) :
           /\ x = s \o t /\ Len(x) = Len(s) + Len(t)
           /\ \A i \in 1..(Len(s) + Len(t)) :
                x[i] = IF i <= Len(s) THEN s[i] ELSE t[i - Len(s)]
<1>1. /\ s \o t \in Seq(Bytes)
      /\ Len(s \o t) = Len(s) + Len(t)
      /\ \A i \in 1..(Len(s) + Len(t)) :
           (s \o t)[i] = IF i <= Len(s) THEN s[i] ELSE t[i - Len(s)]
  BY Zenon, ConcatProperties
<1>. QED BY Zenon, <1>1

\* Where the parts of a concatenation are.
LEMMA Layout ==
  ASSUME NEW a \in Seq(Bytes), NEW b \in Seq(Bytes), NEW c \in Seq(Bytes), NEW d \in Seq(Bytes),
         NEW e, e = a \o b \o c \o d
  PROVE  /\ e \in Seq(Bytes) /\ Len(e) = Len(a) + Len(b) + Len(c) + Len(d)
         /\ \A i \in 1..Len(a) : e[i] = a[i]
         /\ \A i \in 1..Len(b) : e[Len(a) + i] = b[i]
         /\ \A i \in 1..Len(c) : e[Len(a) + Len(b) + i] = c[i]
         /\ \A i \in 1..Len(d) : e[Len(a) + Len(b) + Len(c) + i] = d[i]
<1>0. Len(a) \in Nat /\ Len(b) \in Nat /\ Len(c) \in Nat /\ Len(d) \in Nat
  OBVIOUS
<1>1. PICK x \in Seq(Bytes) :
        /\ x = a \o b /\ Len(x) = Len(a) + Len(b)
        /\ \A i \in 1..(Len(a) + Len(b)) : x[i] = IF i <= Len(a) THEN a[i] ELSE b[i - Len(a)]
  BY Joined
<1>2. PICK y \in Seq(Bytes) :
        /\ y = x \o c /\ Len(y) = Len(x) + Len(c)
        /\ \A i \in 1..(Len(x) + Len(c)) : y[i] = IF i <= Len(x) THEN x[i] ELSE c[i - Len(x)]
  BY Joined
<1>3. PICK z \in Seq(Bytes) :
        /\ z = y \o d /\ Len(z) = Len(y) + Len(d)
        /\ \A i \in 1..(Len(y) + Len(d)) : z[i] = IF i <= Len(y) THEN y[i] ELSE d[i - Len(y)]
  BY Joined
<1>. e = z
  BY <1>1, <1>2, <1>3
<1>4. /\ \A i \in 1..Len(a) : e[i] = a[i]
      /\ \A i \in 1..Len(b) : e[Len(a) + i] = b[i]
  BY <1>0, <1>1, <1>2, <1>3
<1>5. \A i \in 1..Len(c) : e[Len(a) + Len(b) + i] = c[i]
  BY <1>0, <1>1, <1>2, <1>3
<1>6. \A i \in 1..Len(d) : e[Len(a) + Len(b) + Len(c) + i] = d[i]
  BY <1>0, <1>1, <1>2, <1>3
<1>7. Len(e) = Len(a) + Len(b) + Len(c) + Len(d)
  BY <1>1, <1>2, <1>3
<1>. QED BY <1>1, <1>2, <1>3, <1>4, <1>5, <1>6, <1>7

\* The bytes of a frame.
LEMMA EncodeBytes ==
  ASSUME NEW f \in CodecFrames, NEW n, n = VarintSize(f.streamID), NEW e, e = Encode(f)
  PROVE  /\ e \in Seq(Bytes) /\ Len(e) = 6 + n + f.length
         /\ e[1] = FrameMagic /\ e[2] = ProtocolVersion /\ e[3] = f.type /\ e[4] = f.flags
         /\ \A i \in 1..n : e[4 + i] = EncodeVarint(f.streamID)[i]
         /\ e[5 + n] = f.length % 256 /\ e[6 + n] = f.length \div 256
         /\ \A i \in 1..f.length : e[6 + n + i] = f.payload[i]
<1>1. /\ f.type \in Types /\ f.flags \in Bytes /\ f.streamID \in Uint32s
      /\ f.length \in Uint16s /\ f.payload \in Seq(Bytes) /\ f.length = Len(f.payload)
  BY DEF CodecFrames
<1>2. PICK type \in Bytes, flags \in Bytes, m \in Uint16s, p \in Seq(Bytes) :
        type = f.type /\ flags = f.flags /\ m = f.length /\ p = f.payload /\ Len(p) = m
  <2>1. f.type \in Bytes
    BY <1>1 DEF Types, Bytes
  <2>. QED BY Zenon, <1>1, <2>1
<1>3. PICK head : head = <<FrameMagic, ProtocolVersion, type, flags>>
  OBVIOUS
<1>4. /\ head \in Seq(Bytes) /\ Len(head) = 4
      /\ head[1] = FrameMagic /\ head[2] = ProtocolVersion /\ head[3] = type /\ head[4] = flags
  <2>1. FrameMagic \in Bytes /\ ProtocolVersion \in Bytes
    BY DEF FrameMagic, ProtocolVersion, Bytes
  <2>. QED BY ZenonT(60), <1>3, <2>1, FourBytes
<1>5. PICK v : v = EncodeVarint(f.streamID)
  OBVIOUS
<1>6. v \in Seq(Bytes) /\ Len(v) = n /\ n \in 1..5
  BY Zenon, <1>1, <1>5, VarintBytes
<1>7. PICK length : length = <<m % 256, m \div 256>>
  OBVIOUS
<1>8. length \in Seq(Bytes) /\ Len(length) = 2 /\ length[1] = m % 256 /\ length[2] = m \div 256
  <2>1. m % 256 \in Bytes /\ m \div 256 \in Bytes
    BY LengthBytes
  <2>2. PICK low \in Bytes, high \in Bytes : low = m % 256 /\ high = m \div 256
    BY <2>1
  <2>3. length = <<low, high>>
    BY <1>7, <2>2
  <2>. QED BY <2>2, <2>3
<1>9. e = head \o v \o length \o p
  BY ZenonT(60), <1>1, <1>2, <1>3, <1>5, <1>7 DEF Encode, Validate
<1>10. /\ e \in Seq(Bytes) /\ Len(e) = Len(head) + Len(v) + Len(length) + Len(p)
       /\ \A i \in 1..Len(head) : e[i] = head[i]
       /\ \A i \in 1..Len(v) : e[Len(head) + i] = v[i]
       /\ \A i \in 1..Len(length) : e[Len(head) + Len(v) + i] = length[i]
       /\ \A i \in 1..Len(p) : e[Len(head) + Len(v) + Len(length) + i] = p[i]
  <2>1. head \in Seq(Bytes) /\ v \in Seq(Bytes) /\ length \in Seq(Bytes)
    BY <1>4, <1>6, <1>8
  <2>. HIDE <1>2, <1>3, <1>4, <1>5, <1>6, <1>7, <1>8
  <2>. QED BY SMTT(20), <1>9, <2>1, Layout
<1>11. m \in Nat
  BY DEF Uint16s
<1>12. Len(e) = 6 + n + m
  BY <1>2, <1>4, <1>6, <1>8, <1>10, <1>11
<1>13. e[1] = FrameMagic /\ e[2] = ProtocolVersion /\ e[3] = type /\ e[4] = flags
  BY <1>4, <1>10
<1>14. \A i \in 1..n : e[4 + i] = v[i]
  BY <1>4, <1>6, <1>10
<1>15. e[5 + n] = m % 256 /\ e[6 + n] = m \div 256
  <2>1. 1 \in 1..Len(length) /\ 2 \in 1..Len(length)
    BY <1>8
  <2>2. e[4 + n + 1] = length[1] /\ e[4 + n + 2] = length[2]
    BY <1>4, <1>6, <1>10, <2>1
  <2>3. 4 + n + 1 = 5 + n /\ 4 + n + 2 = 6 + n
    BY <1>6
  <2>. QED BY <1>8, <2>2, <2>3
<1>16. \A i \in 1..m : e[6 + n + i] = p[i]
  <2>1. 4 + n + 2 = 6 + n
    BY <1>6
  <2>2. ASSUME NEW i \in 1..m PROVE e[4 + n + 2 + i] = p[i]
    BY SMTT(30), <1>2, <1>4, <1>6, <1>8, <1>10
  <2>. QED BY <2>1, <2>2
<1>. QED BY ZenonT(60), <1>2, <1>5, <1>10, <1>12, <1>13, <1>14, <1>15, <1>16

\* A reader that delivers what begins like an encoded frame.
Begins(in, e) == \A i \in 1..Len(e) : i <= Len(in) => in[i] = e[i]

LEMMA Stretch ==
  ASSUME NEW n \in Nat, NEW m \in Nat, NEW first, NEW last, first = 7 + n, last = 6 + n + m
  PROVE  last - first + 1 = m /\ (IF first <= last THEN m ELSE 0) = m
OBVIOUS

\* What comes after the identifier.
LEMMA RestReads ==
  ASSUME NEW f \in CodecFrames, NEW n, n = VarintSize(f.streamID), NEW e, e = Encode(f),
         NEW in \in Seq(Bytes), Begins(in, e),
         NEW id, id = [ok |-> TRUE, size |-> n, value |-> f.streamID]
  PROVE  Rest(in, id) = IF Len(in) < Len(e) THEN Failed("end")
                        ELSE [err |-> "none", frame |-> f, used |-> Len(e)]
<1>1. /\ e \in Seq(Bytes) /\ Len(e) = 6 + n + f.length
      /\ e[2] = ProtocolVersion /\ e[3] = f.type /\ e[4] = f.flags
      /\ e[5 + n] = f.length % 256 /\ e[6 + n] = f.length \div 256
      /\ \A i \in 1..f.length : e[6 + n + i] = f.payload[i]
  BY EncodeBytes
<1>2. /\ f.type \in Types /\ f.flags \in Bytes /\ f.streamID \in Uint32s
      /\ f.length \in Uint16s /\ f.payload \in Seq(Bytes) /\ f.length = Len(f.payload)
      /\ f = [type |-> f.type, flags |-> f.flags, streamID |-> f.streamID,
              length |-> f.length, payload |-> f.payload]
  BY DEF CodecFrames
<1>3. PICK m \in Nat : m = f.length /\ m = Len(f.payload)
  BY <1>2 DEF Uint16s
<1>4. n \in 1..5 /\ Len(in) \in Nat /\ Len(e) = 6 + n + m
  BY <1>1, <1>2, <1>3, SizeRange
<1>5. id.size = n /\ id.value = f.streamID
  OBVIOUS
<1> DEFINE length == in[4 + n + 1] + 256 * in[4 + n + 2]
           payload == SubSeq(in, 4 + n + 3, 4 + n + 2 + length)
           g == [type |-> in[3], flags |-> in[4], streamID |-> f.streamID, length |-> length,
                 payload |-> payload]
<1>6. Rest(in, id) = IF Len(in) < 4 + n + 2 \/ Len(in) < 4 + n + 2 + length THEN Failed("end")
                     ELSE IF in[2] # ProtocolVersion \/ ~Validate(g) THEN Failed("invalid")
                     ELSE [err |-> "none", frame |-> g, used |-> 4 + n + 2 + length]
  BY <1>5 DEF Rest
<1>7. CASE Len(in) < 6 + n
  <2>1. Len(in) < 4 + n + 2 /\ Len(in) < Len(e)
    BY <1>3, <1>4, <1>7
  <2>. HIDE DEF length, payload, g
  <2>. QED BY Zenon, <1>6, <2>1
<1>8. CASE Len(in) >= 6 + n
  <2>1. length = m
    <3>1. 5 + n \in 1..Len(e) /\ 6 + n \in 1..Len(e) /\ 5 + n <= Len(in) /\ 6 + n <= Len(in)
      BY SMTT(30), <1>3, <1>4, <1>8
    <3>2. in[5 + n] = e[5 + n] /\ in[6 + n] = e[6 + n]
      BY Zenon, <3>1 DEF Begins
    <3>3. 4 + n + 1 = 5 + n /\ 4 + n + 2 = 6 + n
      BY <1>4
    <3>4. (f.length % 256) + 256 * (f.length \div 256) = f.length
      BY ZenonT(60), <1>2, LengthBytes
    <3>. QED BY ZenonT(60), <1>1, <1>3, <3>2, <3>3, <3>4
  <2>2. CASE Len(in) < Len(e)
    <3>1. Len(in) < 4 + n + 2 + length
      BY <1>4, <2>1, <2>2
    <3>. HIDE DEF length, payload, g
    <3>. QED BY Zenon, <1>6, <2>2, <3>1
  <2>3. CASE ~(Len(in) < Len(e))
    <3>1. ~(Len(in) < 4 + n + 2) /\ ~(Len(in) < 4 + n + 2 + length) /\ 4 + n + 2 + length = Len(e)
      BY <1>3, <1>4, <1>8, <2>1, <2>3
    <3>2. in[2] = e[2] /\ in[3] = e[3] /\ in[4] = e[4]
      BY <1>3, <1>4, <2>3 DEF Begins
    <3>3. payload = f.payload
      <4>1. ASSUME NEW i \in 1..m
            PROVE  in[6 + n + i] = f.payload[i]
        <5>1. 6 + n + i \in 1..Len(e) /\ 6 + n + i <= Len(in)
          BY SMTT(30), <1>3, <1>4, <2>3
        <5>. QED BY ZenonT(60), <1>1, <1>3, <5>1 DEF Begins
      <4>2. PICK first \in Int, last \in Int : first = 7 + n /\ last = 6 + n + m
        BY <1>3, <1>4
      <4>3. payload = SubSeq(in, first, last)
        <5>1. 4 + n + 3 = first /\ 4 + n + 2 + length = last
          BY <1>3, <1>4, <2>1, <4>2
        <5>. QED BY Zenon, <5>1
      <4>4. \A i \in first..last : in[i] \in Bytes
        <5>1. \A i \in first..last : i \in 1..Len(in)
          BY <1>3, <1>4, <2>3, <4>2
        <5>. QED BY <5>1, ElementOfSeq
      <4>5. PICK p : p = SubSeq(in, first, last)
        OBVIOUS
      <4>6. /\ p \in Seq(Bytes)
            /\ Len(p) = IF first <= last THEN last - first + 1 ELSE 0
            /\ \A i \in 1..(last - first + 1) : p[i] = in[first + i - 1]
        BY <4>4, <4>5, SubSeqProperties
      <4>. last - first + 1 = m /\ (IF first <= last THEN m ELSE 0) = m
        <5>1. n \in Nat
          BY <1>4
        <5>. QED BY SMT, <4>2, <5>1, Stretch
      <4>7. Len(p) = m
        BY Zenon, <4>6
      <4>8. \A i \in 1..m : p[i] = f.payload[i]
        <5>. TAKE i \in 1..m
        <5>1. i \in 1..(last - first + 1)
          OBVIOUS
        <5>2. first + i - 1 = 6 + n + i
          BY <1>4, <4>2
        <5>. QED BY Zenon, <4>1, <4>6, <5>1, <5>2
      <4>9. p = f.payload
        BY Zenon, <1>2, <1>3, <4>6, <4>7, <4>8, SeqEqual
      <4>. QED BY Zenon, <4>3, <4>5, <4>9
    <3>4. g = f
      BY ZenonT(60), <1>1, <1>2, <1>3, <2>1, <3>2, <3>3
    <3>5. Validate(f)
      BY <1>2 DEF Validate
    <3>. HIDE DEF length, payload, g
    <3>. QED BY Zenon, <1>1, <1>6, <2>3, <3>1, <3>2, <3>4, <3>5
  <2>. QED BY Zenon, <2>2, <2>3
<1>. QED BY <1>4, <1>7, <1>8

\* What is left of a reader after the first bytes.
LEMMA AfterHeader ==
  ASSUME NEW in \in Seq(Bytes), NEW tail, tail = SubSeq(in, 5, Len(in)), Len(in) >= 4
  PROVE  /\ tail \in Seq(Bytes) /\ Len(tail) = Len(in) - 4
         /\ \A i \in 1..Len(tail) : tail[i] = in[4 + i]
<1>1. PICK m \in Nat : m = Len(in)
  BY LenProperties
<1>2. 5 \in Int /\ m \in Int /\ \A i \in 5..m : in[i] \in Bytes
  BY <1>1, ElementOfSeq
<1>3. /\ SubSeq(in, 5, m) \in Seq(Bytes)
      /\ Len(SubSeq(in, 5, m)) = IF 5 <= m THEN m - 5 + 1 ELSE 0
      /\ \A i \in 1..(m - 5 + 1) : SubSeq(in, 5, m)[i] = in[5 + i - 1]
  BY <1>2, SubSeqProperties
<1>4. tail = SubSeq(in, 5, m)
  BY <1>1
<1>5. tail \in Seq(Bytes) /\ Len(tail) = m - 4
  BY <1>1, <1>3, <1>4
<1>6. ASSUME NEW i \in 1..Len(tail)
      PROVE  tail[i] = in[4 + i]
  <2>1. i \in 1..(m - 5 + 1) /\ 5 + i - 1 = 4 + i
    BY <1>1, <1>5
  <2>. QED BY Zenon, <1>3, <1>4, <2>1
<1>. QED BY Zenon, <1>1, <1>5, <1>6

LEMMA Start ==
  ASSUME NEW s \in Seq(Bytes), NEW n \in Nat, n <= Len(s), NEW t, t = SubSeq(s, 1, n)
  PROVE  t \in Seq(Bytes) /\ Len(t) = n /\ \A i \in 1..n : t[i] = s[i]
<1>1. 1 \in Int /\ n \in Int /\ \A i \in 1..n : s[i] \in Bytes
  BY ElementOfSeq
<1>2. /\ SubSeq(s, 1, n) \in Seq(Bytes)
      /\ Len(SubSeq(s, 1, n)) = IF 1 <= n THEN n - 1 + 1 ELSE 0
      /\ \A i \in 1..(n - 1 + 1) : SubSeq(s, 1, n)[i] = s[1 + i - 1]
  BY <1>1, SubSeqProperties
<1>3. /\ n - 1 + 1 = n /\ (IF 1 <= n THEN n ELSE 0) = n
      /\ \A i \in 1..n : 1 + i - 1 = i
  OBVIOUS
<1>. QED BY Zenon, <1>2, <1>3

\* The identifier is cut: no byte ends it, and what there is of it counts as all.
LEMMA CutVarint ==
  ASSUME NEW data \in Seq(Bytes), Len(data) <= 4, \A i \in 1..Len(data) : data[i] >= 128
  PROVE  /\ \A i \in DOMAIN data : ~Ends(data, i)
         /\ Len(data) # 0 => DecodeVarint(data).ok /\ DecodeVarint(data).size = Len(data)
<1>1. ASSUME NEW i \in DOMAIN data PROVE ~Ends(data, i)
  <2>1. data[i] \in Bytes /\ data[i] >= 128
    BY ElementOfSeq
  <2>. QED BY Zenon, <2>1, ByteFacts DEF Ends
<1>2. PICK n \in Nat : n = Len(data) /\ ~(n > 5) /\ n # 5
  BY LenProperties
<1>3. (IF \E i \in DOMAIN data : Ends(data, i)
       THEN CHOOSE i \in DOMAIN data : Ends(data, i) ELSE Len(data)) = n
  BY Zenon, <1>1, <1>2
<1>4. DecodeVarint(data)
        = IF n = 0 \/ n > 5 \/ (n = 5 /\ data[n] >= 128)
          THEN [ok |-> FALSE, value |-> 0, size |-> 0]
          ELSE [ok |-> TRUE, size |-> n,
                value |-> Bits(data, 1, n) + Bits(data, 2, n) + Bits(data, 3, n)
                          + Bits(data, 4, n) + Bits(data, 5, n)]
  BY Zenon, <1>3 DEF DecodeVarint
<1>5. PICK value : value = Bits(data, 1, n) + Bits(data, 2, n) + Bits(data, 3, n)
                           + Bits(data, 4, n) + Bits(data, 5, n)
  OBVIOUS
<1>6. n # 0 => DecodeVarint(data) = [ok |-> TRUE, size |-> n, value |-> value]
  BY Zenon, <1>2, <1>4, <1>5
<1>7. \A r : r = [ok |-> TRUE, size |-> n, value |-> value] => r.ok /\ r.size = n
  OBVIOUS
<1>. QED BY Zenon, <1>1, <1>2, <1>6, <1>7

\* What ReadFrame looks at first.
LEMMA EncodeHead ==
  ASSUME NEW f \in CodecFrames, NEW n, n = VarintSize(f.streamID), NEW e, e = Encode(f),
         NEW v, v = EncodeVarint(f.streamID)
  PROVE  /\ Len(e) = 6 + n + f.length /\ e[1] = FrameMagic
         /\ \A i \in 1..n : e[4 + i] = v[i]
<1>1. /\ e \in Seq(Bytes) /\ Len(e) = 6 + n + f.length
      /\ e[1] = FrameMagic /\ e[2] = ProtocolVersion /\ e[3] = f.type /\ e[4] = f.flags
      /\ \A i \in 1..n : e[4 + i] = EncodeVarint(f.streamID)[i]
      /\ e[5 + n] = f.length % 256 /\ e[6 + n] = f.length \div 256
      /\ \A i \in 1..f.length : e[6 + n + i] = f.payload[i]
  BY SMTT(60), EncodeBytes
<1>. QED BY Zenon, <1>1

\* A reader that delivers an encoded frame and anything after it gives that frame and
\* takes exactly its bytes; one that ends in the middle of it reports the end, never
\* another frame. The two decoders agree on both. (Encode, Decode, ReadFrame)
THEOREM FramesAreRead ==
  ASSUME NEW f \in CodecFrames, NEW e, e = Encode(f),
         NEW in \in Seq(Bytes), Begins(in, e),
         NEW result, result = IF Len(in) < Len(e) THEN Failed("end")
                              ELSE [err |-> "none", frame |-> f, used |-> Len(e)]
  PROVE  ReadFrame(in) = result /\ Decode(in) = result
<1>1. PICK n : n = VarintSize(f.streamID)
  OBVIOUS
<1>2. PICK v : v = EncodeVarint(f.streamID)
  OBVIOUS
<1>3. f.streamID \in Uint32s /\ f.length \in Nat
  BY DEF CodecFrames, Uint16s
<1>4. /\ Len(e) = 6 + n + f.length /\ e[1] = FrameMagic
      /\ \A i \in 1..n : e[4 + i] = v[i]
  BY SMTT(60), <1>1, <1>2, EncodeHead
<1>5. PICK k \in Nat : k = Len(in)
  BY LenProperties
<1>6. PICK tail : tail = SubSeq(in, 5, Len(in))
  OBVIOUS
<1>7. n \in 1..5 /\ Len(e) \in Nat /\ Len(e) >= 6 + n
  BY <1>1, <1>3, <1>4, SizeRange
<1>8. CASE k < 4
  <2>1. Len(in) < 4 /\ Len(in) < 6 /\ Len(in) < Len(e)
    BY <1>5, <1>7, <1>8
  <2>. QED BY Zenon, <2>1 DEF ReadFrame, Decode
<1>9. ASSUME k >= 4
      PROVE  /\ tail \in Seq(Bytes) /\ Len(tail) = k - 4
             /\ \A i \in 1..Len(tail) : tail[i] = in[4 + i]
             /\ in[1] = FrameMagic /\ ~(Len(in) < 4)
             /\ \A i \in 1..n : i <= Len(tail) => tail[i] = v[i]
  <2>1. /\ tail \in Seq(Bytes) /\ Len(tail) = k - 4
        /\ \A i \in 1..Len(tail) : tail[i] = in[4 + i]
    BY <1>5, <1>6, <1>9, AfterHeader
  <2>2. 1 \in 1..Len(e) /\ 1 <= Len(in) /\ ~(Len(in) < 4)
    BY <1>5, <1>7, <1>9
  <2>3. in[1] = FrameMagic
    BY Zenon, <1>4, <2>2 DEF Begins
  <2>4. ASSUME NEW i \in 1..n, i <= Len(tail)
        PROVE  tail[i] = v[i]
    <3>1. i \in 1..Len(tail) /\ 4 + i \in 1..Len(e) /\ 4 + i <= Len(in)
      BY <1>5, <1>7, <1>9, <2>1, <2>4
    <3>. QED BY Zenon, <1>4, <2>1, <3>1 DEF Begins
  <2>. QED BY Zenon, <2>1, <2>2, <2>3, <2>4
<1>10. CASE k >= 4 /\ k < 4 + n
  <2>1. Len(tail) = k - 4 /\ k - 4 \in 0..4 /\ k - 4 < n /\ Len(in) < Len(e)
    <3>1. k >= 4 /\ k - 4 \in 0..4 /\ k - 4 < n /\ k < Len(e)
      BY <1>7, <1>10
    <3>. QED BY Zenon, <1>5, <1>9, <3>1
  <2>2. ASSUME NEW i \in 1..Len(tail)
        PROVE  tail[i] >= 128
    <3>1. i \in 1..n /\ i < n /\ i <= Len(tail)
      BY <1>7, <2>1
    <3>2. v[i] >= 128
      BY Zenon, <1>1, <1>2, <1>3, <3>1, VarintBytes
    <3>. QED BY Zenon, <1>9, <1>10, <3>1, <3>2
  <2>3. /\ \A i \in DOMAIN tail : ~Ends(tail, i)
        /\ Len(tail) # 0 => DecodeVarint(tail).ok /\ DecodeVarint(tail).size = Len(tail)
    <3>1. tail \in Seq(Bytes) /\ Len(tail) <= 4
      BY <1>9, <1>10, <2>1
    <3>. QED BY Zenon, <2>2, <3>1, CutVarint
  <2>4. ReadFrame(in) = Failed("end")
    BY Zenon, <1>6, <1>9, <1>10, <2>3 DEF ReadFrame
  <2>5. Decode(in) = Failed("end")
    <3>1. CASE Len(in) < 6
      BY Zenon, <3>1 DEF Decode
    <3>2. CASE ~(Len(in) < 6)
      <4>1. PICK id : id = DecodeVarint(tail)
        OBVIOUS
      <4>2. id.ok /\ id.size = Len(tail)
        <5>1. k - 4 # 0
          BY <1>5, <3>2
        <5>. QED BY Zenon, <2>1, <2>3, <4>1, <5>1
      <4>3. Len(in) < 4 + id.size + 2
        BY <1>5, <1>10, <2>1, <4>2
      <4>4. Rest(in, id) = Failed("end")
        BY Zenon, <4>3 DEF Rest
      <4>. QED BY Zenon, <1>6, <1>9, <1>10, <3>2, <4>1, <4>2, <4>4 DEF Decode
    <3>. QED BY Zenon, <3>1, <3>2
  <2>. QED BY Zenon, <2>1, <2>4, <2>5
<1>11. CASE k >= 4 + n
  <2>1. k >= 4 /\ Len(tail) >= n /\ n \in Nat /\ n <= Len(tail)
    BY <1>7, <1>9, <1>11
  <2>2. \A i \in 1..n : tail[i] = v[i]
    BY <1>9, <2>1
  <2>3. tail \in Seq(Bytes)
    BY Zenon, <1>9, <2>1
  <2>4. PICK id : id = [ok |-> TRUE, size |-> n, value |-> f.streamID]
    OBVIOUS
  <2>. id.ok
    BY <2>4
  <2>5. /\ Ends(tail, n) /\ \A i \in DOMAIN tail : Ends(tail, i) => i = n
        /\ DecodeVarint(tail) = id
    BY Zenon, <1>1, <1>2, <1>3, <2>1, <2>2, <2>3, <2>4, VarintsAreRead
  <2>6. DecodeVarint(SubSeq(tail, 1, n)) = id
    <3>1. PICK t : t = SubSeq(tail, 1, n)
      OBVIOUS
    <3>2. t \in Seq(Bytes) /\ Len(t) = n /\ \A i \in 1..n : t[i] = tail[i]
      BY ZenonT(60), <2>1, <2>3, <3>1, Start
    <3>3. Len(t) >= n /\ \A i \in 1..n : t[i] = v[i]
      BY <2>1, <2>2, <3>2
    <3>. QED BY Zenon, <1>1, <1>2, <1>3, <2>4, <3>1, <3>2, <3>3, VarintsAreRead
  <2>7. n \in DOMAIN tail
    BY <1>7, <2>1, <2>3
  <2>8. (CHOOSE i \in DOMAIN tail : Ends(tail, i)) = n
    BY Zenon, <2>5, <2>7
  <2>9. Rest(in, id) = result
    BY <1>1, <2>4, RestReads
  <2>10. ReadFrame(in) = result
    BY Zenon, <1>6, <1>9, <2>1, <2>4, <2>5, <2>6, <2>7, <2>8, <2>9 DEF ReadFrame
  <2>11. CASE Len(in) < 6
    <3>1. Len(in) < Len(e)
      BY <1>5, <1>7, <2>11
    <3>. QED BY Zenon, <2>10, <2>11, <3>1 DEF Decode
  <2>12. CASE ~(Len(in) < 6)
    BY Zenon, <1>6, <1>9, <2>1, <2>4, <2>5, <2>9, <2>10, <2>12 DEF Decode
  <2>. QED BY Zenon, <2>11, <2>12
<1>12. k < 4 \/ (k >= 4 /\ k < 4 + n) \/ k >= 4 + n
  BY <1>7
<1>. QED BY Zenon, <1>8, <1>10, <1>11, <1>12

\* A number in four bytes.
LEMMA Uint32Bytes ==
  ASSUME NEW n \in Uint32s, NEW u, u = Uint32(n)
  PROVE  /\ u \in Seq(Bytes) /\ Len(u) = 4
         /\ u[1] + 256 * u[2] + 65536 * u[3] + 16777216 * u[4] = n
<1>1. n \in Nat /\ n \div 268435456 < 16
  BY DEF Uint32s
<1>2. PICK a \in 0..255, p \in Nat : a = n % 256 /\ p = n \div 256 /\ n = a + 256 * p
  BY SMT, <1>1
<1>3. PICK b \in 0..255, q \in Nat : b = p % 256 /\ q = p \div 256 /\ p = b + 256 * q
  BY SMT
<1>4. PICK c \in 0..255, d \in Nat : c = q % 256 /\ d = q \div 256 /\ q = c + 256 * d
  BY SMT
<1>5. q = n \div 65536 /\ d = n \div 16777216
  BY SMT, <1>1, <1>2, <1>3, <1>4
<1>6. d \in 0..255
  BY SMT, <1>1, <1>2, <1>3, <1>4
<1>7. n = a + 256 * b + 65536 * c + 16777216 * d
  BY SMT, <1>2, <1>3, <1>4
<1>8. u = <<a, b, c, d>>
  BY <1>2, <1>3, <1>4, <1>5 DEF Uint32
<1>9. a \in Bytes /\ b \in Bytes /\ c \in Bytes /\ d \in Bytes
  BY <1>6 DEF Bytes
<1>10. u \in Seq(Bytes) /\ Len(u) = 4 /\ u[1] = a /\ u[2] = b /\ u[3] = c /\ u[4] = d
  BY SMTT(90), <1>8, <1>9, FourBytes
<1>11. u[1] = a /\ u[2] = b /\ u[3] = c /\ u[4] = d
  BY Zenon, <1>10
<1>12. u[1] + 256 * u[2] + 65536 * u[3] + 16777216 * u[4] = n
  BY SMTT(60), <1>7, <1>11
<1>. QED BY SMTT(60), <1>10, <1>12

\* Acknowledgements carry both counters unchanged. (EncodeAckPayload, DecodeAckPayload)
THEOREM AcksAreRead ==
  ASSUME NEW acked \in Uint32s, NEW window \in Uint32s
  PROVE  DecodeAckPayload(EncodeAckPayload(acked, window))
           = [ok |-> TRUE, ackedBytes |-> acked, windowSize |-> window]
<1>1. PICK a, w : a = Uint32(acked) /\ w = Uint32(window)
  OBVIOUS
<1>1a. a \in Seq(Bytes) /\ w \in Seq(Bytes) /\ Len(a) = 4 /\ Len(w) = 4
  BY <1>1, Uint32Bytes
<1>1b. /\ a[1] + 256 * a[2] + 65536 * a[3] + 16777216 * a[4] = acked
      /\ w[1] + 256 * w[2] + 65536 * w[3] + 16777216 * w[4] = window
  BY <1>1, Uint32Bytes
<1>2. PICK d \in Seq(Bytes) :
        /\ d = a \o w /\ Len(d) = Len(a) + Len(w)
        /\ \A i \in 1..(Len(a) + Len(w)) : d[i] = IF i <= Len(a) THEN a[i] ELSE w[i - Len(a)]
  BY Zenon, <1>1a, Joined
<1>3. /\ Len(d) = 8
      /\ d[1] = a[1] /\ d[2] = a[2] /\ d[3] = a[3] /\ d[4] = a[4]
      /\ d[5] = w[1] /\ d[6] = w[2] /\ d[7] = w[3] /\ d[8] = w[4]
  BY <1>1a, <1>2
<1>4. Number(d, 0) = d[1] + 256 * d[2] + 65536 * d[3] + 16777216 * d[4]
  BY DEF Number
<1>5. Number(d, 4) = d[5] + 256 * d[6] + 65536 * d[7] + 16777216 * d[8]
  BY DEF Number
<1>6. d = EncodeAckPayload(acked, window)
  BY <1>1, <1>2 DEF EncodeAckPayload
<1>7. Number(d, 0) = acked /\ Number(d, 4) = window
  BY <1>1b, <1>3, <1>4, <1>5
<1>8. DecodeAckPayload(d) = [ok |-> TRUE, ackedBytes |-> Number(d, 0), windowSize |-> Number(d, 4)]
  BY <1>3 DEF DecodeAckPayload
<1>. QED BY Zenon, <1>6, <1>7, <1>8

==============================================================================
