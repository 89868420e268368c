----------------------------- MODULE ZtpStreams ------------------------------
(***************************************************************************)
(* The streams of two connected ZTP sessions: identifiers, the stream map  *)
(* of each session, OpenStream, AcceptStream, Stream.Write and Stream.Close*)
(* as the frames they send, the handlers of processLoop, and Session.Close *)
(* dropping the streams while other goroutines are in the middle of a call.*)
(*                                                                         *)
(* A stream object is <<id, origin>>: "local" at the session whose         *)
(* application opened it, "remote" at the one that was told.  The normal-  *)
(* priority queue of a session, the transport and the other session's      *)
(* recvCh form the FIFO wire[p]; what a frame carries is left to ZtpFlow.  *)
(***************************************************************************)
EXTENDS Naturals, Sequences

CONSTANTS
  Client, Server,  \* the two sessions
  Openers,    \* sessions whose application calls OpenStream
  Closers,    \* sessions whose application may call Session.Close
  MaxStreams, \* config.MaxStreams
  SendBuf,    \* capacity of a priority queue
  WireCap,    \* SendBuf and what the transport and recvCh hold
  AcceptBuf,  \* capacity of acceptCh
  SendTimeouts, \* TRUE: a queue may stay full for sendFrame's 5 s
  MaxId,      \* bound: largest identifier allocated
  MaxData     \* bound: calls of Write by each application

Peers == {Client, Server}

ASSUME StreamsAssumption ==
  /\ Client # Server
  /\ Openers \subseteq Peers /\ Closers \subseteq Peers
  /\ MaxStreams \in Nat
  /\ SendBuf \in Nat \ {0} /\ WireCap \in Nat /\ WireCap >= SendBuf
  /\ AcceptBuf \in Nat \ {0}
  /\ SendTimeouts \in BOOLEAN
  /\ MaxId \in Nat /\ MaxData \in Nat

Other(p) == IF p = Client THEN Server ELSE Client

Ids     == {i \in 1..MaxId : i % 2 = 1}
Origins == {"local", "remote"}
Objects == Ids \X Origins
Opposite(origin) == IF origin = "local" THEN "remote" ELSE "local"

VARIABLES
  nextStream,   \* Session.nextStream
  streams,      \* Session.streams: the origin of the stream an id names
  acceptCh,     \* Session.acceptCh: ids of remote streams
  session,      \* how far Session.Close has got
  closedBy,     \* who runs the body of Session.Close
  task,         \* the frame processLoop is handling, with what it looked up
  opening,      \* how far the call of OpenStream for an id has got
  writing,      \* streams with a Write between its checks and its sendFrame
  closing,      \* how far the call of Close of a stream has got
  held,         \* streams an application has got from Open- or AcceptStream
  isClosed,     \* streams with isClosed set
  remoteClosed, \* streams with remoteClosed set
  wire,         \* frames of a session on their way to the other
  writes        \* number of calls of Write so far

appVars  == <<opening, writing, closing, held, writes>>
flagVars == <<isClosed, remoteClosed>>
sessVars == <<session, closedBy>>
vars == <<nextStream, streams, acceptCh, sessVars, task, appVars, flagVars,
          wire>>

Frames ==
  [type : {"open", "data", "close"}, id : Ids, from : Origins]
    \cup [type : {"reset"}, id : Ids, from : {"none"}]

NoTask == [type |-> "none"]
Tasks ==
  {NoTask} \cup [type : {"open", "data"}, id : Ids, from : Origins,
                 found : Origins \cup {"none"}]

Init ==
  /\ nextStream = [p \in Peers |-> 1]
  /\ streams = [p \in Peers |-> [i \in Ids |-> "none"]]
  /\ acceptCh = [p \in Peers |-> <<>>]
  /\ session = [p \in Peers |-> "open"]
  /\ closedBy = [p \in Peers |-> "nobody"]
  /\ task = [p \in Peers |-> NoTask]
  /\ opening = [p \in Peers |-> [i \in Ids |-> "idle"]]
  /\ writing = [p \in Peers |-> {}]
  /\ closing = [p \in Peers |-> [o \in Objects |-> "idle"]]
  /\ held = [p \in Peers |-> {}]
  /\ isClosed = [p \in Peers |-> {}]
  /\ remoteClosed = [p \in Peers |-> {}]
  /\ wire = [p \in Peers |-> <<>>]
  /\ writes = [p \in Peers |-> 0]

Registered(p) == {i \in Ids : streams[p][i] # "none"}

\* closeCh of the session is closed.
Shut(p) == session[p] \in {"shut", "gone"}

Frame(type, id, from) == [type |-> type, id |-> id, from |-> from]

\* sendFrame succeeds; after sendLoop has left, nobody takes the frame out of
\* its queue.
Send(p, f) ==
  IF session[p] = "gone"
    THEN UNCHANGED wire
    ELSE /\ Len(wire[p]) < WireCap
         /\ wire' = [wire EXCEPT ![p] = Append(@, f)]

\* sendFrame returns an error.
SendFails(p) ==
  /\ Shut(p) \/ (SendTimeouts /\ Len(wire[p]) >= SendBuf)
  /\ UNCHANGED wire

\* trySendFrame of a RESET: a full queue loses it.
TryReset(p, id) ==
  \/ Send(p, Frame("reset", id, "none"))
  \/ Len(wire[p]) >= SendBuf /\ UNCHANGED wire

Register(p, id, origin) ==
  streams' = [streams EXCEPT ![p][id] = origin]

------------------------------------------------------------------------------
(* Session.OpenStream *)

\* The check of isClosed and the atomic increment; the limit is on the id.
OpenAlloc(p) ==
  /\ p \in Openers
  /\ session[p] = "open"
  /\ nextStream[p] \in Ids
  /\ nextStream' = [nextStream EXCEPT ![p] = @ + 2]
  /\ opening' = IF nextStream[p] > MaxStreams THEN opening
                ELSE [opening EXCEPT ![p][nextStream[p]] = "alloc"]
  /\ UNCHANGED <<streams, acceptCh, sessVars, task, writing, closing, held,
                 writes, flagVars, wire>>

OpenRegister(p, id) ==
  /\ opening[p][id] = "alloc"
  /\ opening' = [opening EXCEPT ![p][id] = "registered"]
  /\ Register(p, id, "local")
  /\ UNCHANGED <<nextStream, acceptCh, sessVars, task, writing, closing, held,
                 writes, flagVars, wire>>

\* An error leaves the stream in the map.
OpenSend(p, id) ==
  /\ opening[p][id] = "registered"
  /\ opening' = [opening EXCEPT ![p][id] = "idle"]
  /\ \/ /\ Send(p, Frame("open", id, "local"))
        /\ held' = [held EXCEPT ![p] = @ \cup {<<id, "local">>}]
     \/ SendFails(p) /\ UNCHANGED held
  /\ UNCHANGED <<nextStream, streams, acceptCh, sessVars, task, writing, closing,
                 writes, flagVars>>

\* AcceptStream
Accept(p) ==
  /\ acceptCh[p] # <<>>
  /\ acceptCh' = [acceptCh EXCEPT ![p] = Tail(@)]
  /\ held' = [held EXCEPT ![p] = @ \cup {<<Head(acceptCh[p]), "remote">>}]
  /\ UNCHANGED <<nextStream, streams, sessVars, task, opening, writing, closing,
                 writes, flagVars, wire>>

------------------------------------------------------------------------------
(* Stream.Write and Stream.Close of a stream the application holds *)

\* Write has checked isClosed (and nothing else) and the window.
WriteStart(p, o) ==
  /\ o \in held[p] \ (isClosed[p] \cup writing[p])
  /\ writes[p] < MaxData
  /\ writing' = [writing EXCEPT ![p] = @ \cup {o}]
  /\ writes' = [writes EXCEPT ![p] = @ + 1]
  /\ UNCHANGED <<nextStream, streams, acceptCh, sessVars, task, opening, closing,
                 held, flagVars, wire>>

WriteSend(p, o) ==
  /\ o \in writing[p]
  /\ writing' = [writing EXCEPT ![p] = @ \ {o}]
  /\ Send(p, Frame("data", o[1], o[2])) \/ SendFails(p)
  /\ UNCHANGED <<nextStream, streams, acceptCh, sessVars, task, opening, closing,
                 held, writes, flagVars>>

CloseMark(p, o) ==
  /\ o \in held[p] \ isClosed[p]
  /\ isClosed' = [isClosed EXCEPT ![p] = @ \cup {o}]
  /\ closing' = [closing EXCEPT ![p][o] = "marked"]
  /\ UNCHANGED <<nextStream, streams, acceptCh, sessVars, task, opening, writing,
                 held, writes, remoteClosed, wire>>

\* delete(s.session.streams, s.id): by identifier, whatever it names now.
CloseRemove(p, o) ==
  /\ closing[p][o] = "marked"
  /\ closing' = [closing EXCEPT ![p][o] = "removed"]
  /\ Register(p, o[1], "none")
  /\ UNCHANGED <<nextStream, acceptCh, sessVars, task, opening, writing, held,
                 writes, flagVars, wire>>

\* The error of sendFrame is ignored.
CloseSend(p, o) ==
  /\ closing[p][o] = "removed"
  /\ closing' = [closing EXCEPT ![p][o] = "idle"]
  /\ Send(p, Frame("close", o[1], o[2])) \/ SendFails(p)
  /\ UNCHANGED <<nextStream, streams, acceptCh, sessVars, task, opening, writing,
                 held, writes, flagVars>>

------------------------------------------------------------------------------
(* processLoop: the frames the other session sent *)

Arriving(q) == Head(wire[Other(q)])

Receive(q) ==
  /\ task[q] = NoTask
  /\ session[q] # "gone"
  /\ closedBy[q] # "processLoop"
  /\ wire[Other(q)] # <<>>
  /\ wire' = [wire EXCEPT ![Other(q)] = Tail(@)]

\* handleDataFrame and handleStreamOpenFrame look the stream up under the
\* read lock and let go of it.
LookUp(q) ==
  /\ Receive(q)
  /\ Arriving(q).type \in {"open", "data"}
  /\ task' = [task EXCEPT ![q] =
                [type |-> Arriving(q).type, id |-> Arriving(q).id,
                 from |-> Arriving(q).from, found |-> streams[q][Arriving(q).id]]]
  /\ UNCHANGED <<nextStream, streams, acceptCh, sessVars, appVars, flagVars>>

\* Mutant of Forget: mark without deleting.
ForgetMarkOnly(q, id) ==
  /\ remoteClosed' =
       IF streams[q][id] = "none" THEN remoteClosed
       ELSE [remoteClosed EXCEPT ![q] = @ \cup {<<id, streams[q][id]>>}]
  /\ UNCHANGED streams

\* closeInternal(false) and delete, under one lock.
Forget(q, id) ==
  /\ remoteClosed' =
       IF streams[q][id] = "none" THEN remoteClosed
       ELSE [remoteClosed EXCEPT ![q] = @ \cup {<<id, streams[q][id]>>}]
  /\ Register(q, id, "none")

\* handleStreamCloseFrame, handleResetFrame
HandleEnd(q) ==
  /\ Receive(q)
  /\ Arriving(q).type \in {"close", "reset"}
  /\ Forget(q, Arriving(q).id)
  /\ UNCHANGED <<nextStream, acceptCh, sessVars, task, appVars, isClosed>>

Finish(q) == task' = [task EXCEPT ![q] = NoTask]

\* Mutants of HandleOpen: a stream that acceptCh has no room for is not
\* registered; acceptCh is taken to be full one stream early.
HandleOpenIfRoom(q) ==
  /\ task[q].type = "open"
  /\ task[q].found = "none"
  /\ Finish(q)
  /\ IF Len(acceptCh[q]) < AcceptBuf
       THEN /\ Register(q, task[q].id, "remote")
            /\ acceptCh' = [acceptCh EXCEPT ![q] = Append(@, task[q].id)]
       ELSE UNCHANGED <<streams, acceptCh>>
  /\ UNCHANGED <<nextStream, sessVars, appVars, flagVars, wire>>
HandleOpenOneShort(q) ==
  /\ task[q].type = "open"
  /\ task[q].found = "none"
  /\ Finish(q)
  /\ Register(q, task[q].id, "remote")
  /\ acceptCh' = IF Len(acceptCh[q]) + 1 < AcceptBuf
                   THEN [acceptCh EXCEPT ![q] = Append(@, task[q].id)]
                   ELSE acceptCh
  /\ UNCHANGED <<nextStream, sessVars, appVars, flagVars, wire>>

\* The stream is created and registered; a full acceptCh is not told.
HandleOpen(q) ==
  /\ task[q].type = "open"
  /\ task[q].found = "none"
  /\ Finish(q)
  /\ Register(q, task[q].id, "remote")
  /\ acceptCh' = IF Len(acceptCh[q]) < AcceptBuf
                   THEN [acceptCh EXCEPT ![q] = Append(@, task[q].id)]
                   ELSE acceptCh
  /\ UNCHANGED <<nextStream, sessVars, appVars, flagVars, wire>>

\* "stream already exists", "stream not found"
HandleRefuse(q) ==
  /\ \/ task[q].type = "open" /\ task[q].found # "none"
     \/ task[q].type = "data" /\ task[q].found = "none"
  /\ Finish(q)
  /\ TryReset(q, task[q].id)
  /\ UNCHANGED <<nextStream, streams, acceptCh, sessVars, appVars, flagVars>>

\* Into recvCh of the stream that was looked up, or dropped if it has closed.
HandleData(q) ==
  /\ task[q].type = "data"
  /\ task[q].found # "none"
  /\ Finish(q)
  /\ UNCHANGED <<nextStream, streams, acceptCh, sessVars, appVars, flagVars,
                 wire>>

------------------------------------------------------------------------------
(* Session.Close *)

\* Called by an application.
SessionClose(p) ==
  /\ session[p] = "open"
  /\ p \in Closers
  /\ session' = [session EXCEPT ![p] = "marked"]
  /\ closedBy' = [closedBy EXCEPT ![p] = "application"]
  /\ UNCHANGED <<nextStream, streams, acceptCh, task, appVars, flagVars, wire>>

\* The other end of the transport is gone: processLoop calls Close, and will
\* wait for itself when it has closed closeCh.
SessionLost(p) ==
  /\ session[p] = "open"
  /\ session[Other(p)] = "gone"
  /\ task[p] = NoTask
  /\ session' = [session EXCEPT ![p] = "marked"]
  /\ closedBy' = [closedBy EXCEPT ![p] = "processLoop"]
  /\ UNCHANGED <<nextStream, streams, acceptCh, task, appVars, flagVars, wire>>

\* Mutant of SessionEmpty: the map is replaced, the streams are not told.
SessionEmptyUnmarked(p) ==
  /\ session[p] = "marked"
  /\ session' = [session EXCEPT ![p] = "emptied"]
  /\ streams' = [streams EXCEPT ![p] = [i \in Ids |-> "none"]]
  /\ UNCHANGED <<nextStream, acceptCh, closedBy, task, appVars, flagVars, wire>>

SessionEmpty(p) ==
  /\ session[p] = "marked"
  /\ session' = [session EXCEPT ![p] = "emptied"]
  /\ remoteClosed' =
       [remoteClosed EXCEPT ![p] =
          @ \cup {<<i, streams[p][i]>> : i \in Registered(p)}]
  /\ streams' = [streams EXCEPT ![p] = [i \in Ids |-> "none"]]
  /\ UNCHANGED <<nextStream, acceptCh, closedBy, task, appVars, isClosed, wire>>

SessionShut(p) ==
  /\ session[p] = "emptied"
  /\ session' = [session EXCEPT ![p] = "shut"]
  /\ UNCHANGED <<nextStream, streams, acceptCh, closedBy, task, appVars,
                 flagVars, wire>>

\* The loops have left and the transport is closed: frames that are still
\* queued are lost.
SessionGone(p) ==
  /\ session[p] = "shut"
  /\ closedBy[p] = "application"
  /\ task[p] = NoTask
  /\ session' = [session EXCEPT ![p] = "gone"]
  /\ \E n \in 0..Len(wire[p]) :
       wire' = [wire EXCEPT ![p] = SubSeq(@, 1, n)]
  /\ UNCHANGED <<nextStream, streams, acceptCh, closedBy, task, appVars,
                 flagVars>>

------------------------------------------------------------------------------
OpenStream(p) ==
  OpenAlloc(p) \/ \E id \in Ids : OpenRegister(p, id) \/ OpenSend(p, id)

UseStream(p, o) ==
  \/ WriteStart(p, o) \/ WriteSend(p, o)
  \/ CloseMark(p, o) \/ CloseRemove(p, o) \/ CloseSend(p, o)

ProcessLoop(q) ==
  LookUp(q) \/ HandleEnd(q) \/ HandleOpen(q) \/ HandleRefuse(q) \/ HandleData(q)

CloseSession(p) ==
  \/ SessionClose(p) \/ SessionLost(p)
  \/ SessionEmpty(p) \/ SessionShut(p) \/ SessionGone(p)

Next ==
  \E p \in Peers :
    \/ OpenStream(p)
    \/ Accept(p)
    \/ \E o \in Objects : UseStream(p, o)
    \/ ProcessLoop(p)
    \/ CloseSession(p)

Spec == Init /\ [][Next]_vars

\* Calls that were made go on, processLoop runs, and the application accepts;
\* nobody has to open, write or close.
Fairness ==
  \A p \in Peers :
    /\ WF_vars(ProcessLoop(p))
    /\ WF_vars(Accept(p))
    /\ \A id \in Ids : WF_vars(OpenRegister(p, id) \/ OpenSend(p, id))
    /\ \A o \in Objects :
         WF_vars(WriteSend(p, o)) /\ WF_vars(CloseRemove(p, o) \/ CloseSend(p, o))

FairSpec == Spec /\ Fairness

------------------------------------------------------------------------------
(* Properties *)

\* Every variable keeps its type; queues stay within capacity.
TypeOK ==
  /\ nextStream \in [Peers -> Nat]
  /\ streams \in [Peers -> [Ids -> Origins \cup {"none"}]]
  /\ acceptCh \in [Peers -> Seq(Ids)]
  /\ \A p \in Peers : Len(acceptCh[p]) <= AcceptBuf
  /\ session \in [Peers -> {"open", "marked", "emptied", "shut", "gone"}]
  /\ closedBy \in [Peers -> {"nobody", "application", "processLoop"}]
  /\ task \in [Peers -> Tasks]
  /\ opening \in [Peers -> [Ids -> {"idle", "alloc", "registered"}]]
  /\ writing \in [Peers -> SUBSET Objects]
  /\ closing \in [Peers -> [Objects -> {"idle", "marked", "removed"}]]
  /\ held \in [Peers -> SUBSET Objects]
  /\ isClosed \in [Peers -> SUBSET Objects]
  /\ remoteClosed \in [Peers -> SUBSET Objects]
  /\ wire \in [Peers -> Seq(Frames)]
  /\ \A p \in Peers : Len(wire[p]) <= WireCap
  /\ writes \in [Peers -> Nat]

Quiet ==
  \A p \in Peers :
    /\ session[p] = "open"
    /\ wire[p] = <<>>
    /\ task[p] = NoTask
    /\ \A i \in Ids : opening[p][i] = "idle"
    /\ \A o \in Objects : closing[p][o] = "idle"

\* When nothing is on the way, the two maps name the same streams, one end
\* local and the other remote (session.go:237-502): no call, in whatever
\* order its frames cross, leaves a stream open at one end only.
QuietAgreement ==
  Quiet =>
    \A i \in Ids :
      \/ streams[Client][i] = "none" /\ streams[Server][i] = "none"
      \/ streams[Client][i] = Opposite(streams[Server][i])
         /\ streams[Client][i] # "none"

\* A stream that an application has and nobody has closed is in the map: its
\* data, its CLOSE and Session.Close will find it (session.go:161-167,
\* 263-265, 479-481), also when it is registered while Session.Close runs.
UsableIsRegistered ==
  \A p \in Peers :
    \A o \in held[p] \ (isClosed[p] \cup remoteClosed[p]) :
      streams[p][o[1]] = o[2]

\* The identifier tells the two directions apart: data written to a stream
\* (session.go:243, 417-431) is never handed to the stream that the other
\* application opened under the same identifier.
NoCrossTalk ==
  \A q \in Peers :
    task[q].type = "data" => task[q].found \in {"none", Opposite(task[q].from)}

\* A RESET (session.go:421-428, 457-461) kills a live stream only when the
\* application at the other end has closed it: data that arrives while Close
\* has deleted the stream but not yet sent its CLOSE frame is answered first.
ResetFollowsClose ==
  \A p \in Peers : \A k \in 1..Len(wire[p]) :
    wire[p][k].type = "reset" /\ session[p] = "open"
      => \A origin \in Origins :
           streams[Other(p)][wire[p][k].id] = origin
             => <<wire[p][k].id, Opposite(origin)>> \in isClosed[p]

\* A stream one application opens gets to the other application, or is
\* closed first (session.go:483-490).
OpenedIsAccepted ==
  \A p \in Peers : \A i \in Ids :
    streams[p][i] = "remote"
      ~> <<i, "remote">> \in held[p] \/ streams[p][i] # "remote"

\* A stream closed at one end is forgotten and ended at the other
\* (stream.go:191-203, session.go:494-502).
CloseReachesPeer ==
  \A p \in Peers : \A o \in Objects :
    o \in isClosed[p] ~> streams[Other(p)][o[1]] = "none"

\* What the applications hold and what the maps name fit together.
RegistrySound == TypeOK /\ UsableIsRegistered
==============================================================================
