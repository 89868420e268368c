# Formal models of zpt

zpt is a Go program (module `github.com/SxAllyn/zpt`) that carries TCP and TUN
traffic over a layered tunnel. An *inbound* (SOCKS5, ZOP, TUN) accepts
connections, a *router* chooses an *outbound*, and an outbound reaches the other
side through three protocol layers: **ZTP** multiplexes streams over one
connection, **ZAP** authenticates and agrees on keys, and **ZOP** disguises the
bytes as HTTP/3, DoH-QUIC or WebRTC traffic.

This directory holds TLA+ models of that code, TLC configurations that check
them on small instances, and TLAPS proofs. Paths below are relative to
`src/internal/` unless they start with `docs/`.

## 1. Inventory

| component | source | state | operations | status |
|---|---|---|---|---|
| ZTP stream flow control | `protocol/ztp/stream.go`, `session.go` | `sentBytes`, `receivedBytes`, `ackedBytes`, `windowSize` (uint32), `recvCh`, `closeCh`, flags | `Write`, `Read`, `Close`, `handleDataFrame`, `handleAckFrame`, `handleStreamCloseFrame` | modelled: `ZtpFlow` |
| ZTP session | `protocol/ztp/session.go` | three priority queues, `recvCh`, `errors`, `ctx`, `closeCh`, `closeOnce`, `wg` | `Start`, `Close`, four loops, `sendFrame`, `trySendFrame` | modelled: `ZtpSession` |
| ZTP stream lifecycle | `protocol/ztp/session.go`, `stream.go` | `nextStream`, `streams`, `acceptCh`, per-stream flags | `OpenStream`, `AcceptStream`, `Stream.Close`, frame handlers, `Session.Close` | modelled: `ZtpStreams` |
| ZTP frame codec | `protocol/ztp/frame.go` | none | `Encode`, `Decode`, `ReadFrame`, varints, acknowledgement payloads | modelled: `ZtpFrame` |
| TUN proxy interface | `tunproxy/proxy_interface.go`, `connection_tracker.go` | connection table with TCP states and sequence numbers, `mu`, tracker | `SendPacket`, `handleSYN/ACK/FIN/RST/Data/Close`, `forwardConnection`, `Close` | partly: `TunProxy` |
| TUN proxy lifecycle | `tunproxy/tunproxy.go`, `tun/mock_tun.go` | `running`, `stopChan`, `wg`, device queue | `Start`, `Stop`, `packetLoop`, `SendPacketToTUN` | modelled: `TunStack` |
| Router | `router/default_router.go` | routes, interfaces, statistics, `mu` | `AddRoute`, `RemoveRoute`, `RoutePacket`, `RegisterInterface`, `Start`, `Stop` | modelled: `TunStack` |
| ZAP handshake | `protocol/zap/{handshake,auth,zap,frame}.go` | handshake state, random numbers, peer key, identifier; one-time tokens | four messages on each side, `Reset`, `Verify` | modelled: `ZapHandshake` |
| HTTP/3 transport | `protocol/zop/http3.go` | `rawBuffer`, `readBuffer`, `sentBytes`, `windowSize`, flags | `Read`, `Write`, `waitForWindow`, `Close` | partly: `Http3` |
| BufferedPipe | `transport/bufpipe.go` | two rings, two mutexes, four condition variables, deadlines | `Read`, `Write`, `Close`, `SetDeadline`, `TryRead`, `TryWrite` | modelled: `BufferedPipe` |
| SOCKS5 server | `inbound/socks5/socks5.go` | listener, one goroutine per client, two per relay | accept, negotiation, authentication, request, relay, `Close` | modelled: `Socks5` |
| ZTP over TLS connector | `outbound/ztptls/ztptls.go` | `session`, `tlsConn`, `mu` | `DialContext`, `ensureSession`, `createSession`, `Close` | modelled: `ZtpOutbound` |
| TLS transport | `transport/tls.go` | base and TLS connection | `Dial`, `Close` | partly: `ZtpOutbound` |
| Dynamic transport, DoQ, WebRTC, pool | `protocol/zop/*.go` | mode, read buffer | `Read`, `Write`, `Switch`, `Close` | not modelled |
| ZOP connector and server, loopback, kernel, buffer pool, QUIC, TCP, TUN device, configuration, ZAP cryptography | | | | not modelled: see section 7 |

How they interact: an application calls `Session.OpenStream`/`AcceptStream` and
then `Stream.Write/Read/Close`; these queue frames in the session's three
priority channels, `sendLoop` writes them to the transport, the peer's `recvLoop`
reads them into `Session.recvCh`, and its `processLoop` runs the handlers, which
change stream state, answer with ACK or RESET, and hand payloads to
`Stream.recvCh`. Errors of the loops go to one channel that `processLoop` drains.
The transport under a session is anything with `Read`, `Write` and `Close`: a
TLS connection, a `BufferedPipe`, a ZOP transport. The TUN proxy interface dials
through an outbound and copies bytes between the connection and the TUN device;
the router chooses the outbound.

What makes each modelled component hard, and what makes it correct:

* **Flow control.** `Write` loads `sentBytes`, compares, hands the frame to a
  goroutine and adds to `sentBytes` only when that goroutine reports; `closeCh`
  and a timer can end the `Write` in between. Acknowledgements are best effort,
  payloads are discarded when the reader is 100 ms late, and all counters wrap.
  *Correct when* at most a window is on the way, credit is only given for
  accepted bytes, EOF comes after all payloads, the window comes back.
* **Session.** Five goroutines per session plus any number of callers of
  `Close`, joined by a `WaitGroup`. *Correct when* the transport is closed last
  and once, only a fault of the transport or of the peer becomes an error, a
  session that `sendLoop` or `recvLoop` has left is closed, and `Close` ends. The
  code keeps less than that: see section 4.
* **Lifecycle.** Handlers look a stream up under one lock and change the map
  under another; CLOSE, RESET and data cross on the wire; `Session.Close` empties
  the map while calls are under way. *Correct when* the two ends agree once
  nothing is in flight, a usable stream is registered, a RESET never kills a
  stream that is alive, an opened stream reaches the other application.
* **TUN proxy interface.** Handlers dial and write under one mutex that is not
  reentrant, while a forwarder per connection and a delayed goroutine take the
  same mutex to send, close and delete; clients repeat, reset and reuse
  four-tuples. *Correct when* the table leads to the live connection, `ServerSeq`
  is what the client has been sent, a handshake completes, a closed connection
  frees its four-tuple, and `packetLoop` never locks itself out.
* **TUN proxy lifecycle and router.** `Start` takes back what it has done when a
  route does not parse or an interface name is taken; `Stop` waits, with the
  mutex held, for a loop that waits for a packet; a packet's handler, which may
  dial for 30 s, runs under the router's read lock. *Correct when* Start and Stop
  happen as a whole or not at all, a packet goes where the table says at that
  moment, and a stopped proxy hands nothing on.
* **ZAP handshake.** The workers of a server share an `AuthManager` with a map of
  one-time tokens and no lock; `Handshake` objects are used again with what the
  last handshake left; no timeout reaches a `Read`. *Correct when* the two ends
  return the same fresh session, a spent token is dead, and every handshake ends.
* **HTTP/3 transport.** Both `Read` and a `Write` that waits for the window take
  bytes from the connection and frames out of one buffer. *Correct when* the
  stream is whole and aligned, every unit is credited once, and what was written
  is read.
* **BufferedPipe.** Condition variables whose signals wake one goroutine and are
  lost when nobody waits, timers, and deadlines set while others wait. *Correct
  when* data stays in order and nobody sleeps for ever over data or room.
* **SOCKS5 server and its connector.** Messages arrive in pieces, dials compete
  for a session that one of them makes under a lock, sessions die under their
  users, and `Close` comes at any time. *Correct when* a client gets what it
  asked for, nothing is left open without an owner, and goroutines end as long as
  the connector does not hang with its lock held.
* **ZTP frame codec.** Two readers of one format, and numbers of variable length.
  *Correct when* a frame comes back whole, a cut one is never taken for another,
  and the readers agree.

The hazards at their lines, with the properties that watch them, are in
`PROJECT.json`.

## 2. Modules

| module | what it is |
|---|---|
| `StreamPipe` | abstract specification: an ordered pipe that loses no chunk and no byte and ends after the last |
| `ZtpFlow` | one direction of one stream, all goroutines that touch it |
| `ZtpFlowProofs` | theorems about `ZtpFlow`, with the refinement of `StreamPipe` |
| `ZtpSession` | the goroutines of one session and `Session.Close` |
| `ZtpSessionProofs` | theorems about `ZtpSession` |
| `ZtpStreams` | two connected sessions: identifiers, maps, open, accept, close |
| `ZtpStreamsProofs` | theorems about `ZtpStreams` with one application that opens, and about `ZtpFrame` |
| `ZtpFrame` | the codec as operators on sequences of bytes |
| `MCZtpFrame` | the codec against reference definitions, as assumptions that the runs of `MCZtpStreams` evaluate |
| `TunProxy` | the transparent proxy between TUN packets and outbound connections |
| `TunStack` | `TUNProxy`, the device and the router |
| `TunProofs` | theorems about `TunStack` and `TunProxy` |
| `ZapHandshake` | clients and the workers of one server |
| `ZapHandshakeProofs` | theorems about `ZapHandshake` |
| `Http3` | the two ends of an HTTP/3 transport |
| `Http3Proofs` | theorems about `Http3` |
| `BufferedPipe` | the two ends of a pipe with the goroutines that call them |
| `BufferedPipeProofs` | theorems about `BufferedPipe` |
| `ZtpOutbound` | the connector with its one session over TLS |
| `Socks5` | the SOCKS5 server; it extends `ZtpOutbound`, whose `DialContext` is its `DialFunc` |
| `Socks5Proofs` | theorems about `Socks5` and `ZtpOutbound` |
| `MC<module>` | the instance of `<module>` for TLC, with its environments |

`ZtpFlow` abstracts what surrounds one stream (the rest of the session is a FIFO
that delivers), `ZtpSession` abstracts the streams away (frames are known by what
handling them does), and `ZtpStreams` abstracts the contents of streams away. The
three meet at the queues: each model keeps the capacity and the blocking rule of
the queue its actors share. `TunProxy` stands above them: its outbound
connections are any `net.Conn`, with room for `ConnBuf` bytes each way, so that
a `Write` may block. `TunStack` has the device and the router around it and takes
a handler as something that may write one answer to the device. `Socks5` and
`ZtpOutbound` are one specification: the handlers of one are the callers of the
other, and of a session they have what `Close` waits for, with `ZtpSession` for its
inside.

### `ZtpFlow` and the code

| code | model |
|---|---|
| `Write` 43-122, one step per load, wait and select | `StartWrite`, `LoadSent`, `PassWindow`, `RetryWindow`, `GiveUpWindow`, `Enqueue`, `SendTimeout`, `FinishChunk`, `ReturnEarly` |
| the goroutine of line 103 after its `Write` has returned | `EnqueueOrphan`, `OrphanTimeout` |
| `Close`, `closeInternal` 191-227 | `CloseStream`, `EnqueueClose`, `CloseTimeout` |
| `sendLoop`, transport, `recvLoop` | `Transmit` between the FIFOs `sendQ` and `wire` |
| `handleDataFrame` 417-448: accept and acknowledge, drop after 100 ms, answer for an unknown stream | `AcceptData` with `SendAck`, `DropData`, `LateData` |
| `handleStreamCloseFrame` 493-502, `handleAckFrame` 505-536 | `RemoteClose`, `HandleAck` |
| `Read` 128-188: the first check, the drain, EOF, the blocking select | `StartRead`, `DrainRead`, `EndOfStream`, `FinishRead`, `ReadTimeout` |

A frame carries its size, its position and the total up to its end instead of
bytes. `enqueued`, `chunks`, `accepted`, `ackLost`, `lastRead`, `readBytes` and
`started` are history. Counters wrap at `Modulus`. `Env` says which timers run out in an
environment, so that a property is stated with the faults it tolerates.

### `ZtpSession` and the code

| code | model |
|---|---|
| `sendLoop` 289-332 | `SendScan` (the non-blocking scan by priority), `SendPark` (the select over all), `WriteDone`, `WriteFails`, `SendReport` |
| `recvLoop` 335-374 | `RecvTop`, `ReadFrame`, `ReadPong`, `ReadDeadline`, `ReadFails`, `RecvReport`, `RecvPush` |
| `processLoop` 377-394, `handleFrame` 397-414 | `Handle`, `ProcReport`, `ProcError`, `ProcStop` |
| `pingLoop` 557-583 | `PingTick`, `PingSend`, `PingStop` |
| `Close` 151-182 | `CloseEnter`, `CloseOnce`, `CloseDrain`, `CloseFinish` for each caller, `processLoop` one of them |
| `sendFrame`, `trySendFrame` 184-234 | `AppSend`, `TrySend` |

`CloseOnce` follows `sync.Once`: a second caller that passed the first check
waits until the body has run. The body is two steps and the wait because the
loops see `cancel()` before `closeCh`. `faults` is history: how often the transport
or the peer has failed, where a pong counts as the code counts it.

### `ZtpStreams` and the code

Every action that takes and releases a lock in the code is its own step, so
that a check and the act it guards can be separated: `OpenAlloc`,
`OpenRegister`, `OpenSend` (237-274); `Accept` (276-286); `WriteStart`,
`WriteSend`; `CloseMark`, `CloseRemove`, `CloseSend` (`stream.go` 191-227);
`LookUp` then `HandleOpen`, `HandleRefuse` or `HandleData` (417-491); `HandleEnd`
(451-502, one lock); `SessionClose`, `SessionLost`, `SessionEmpty`,
`SessionShut`, `SessionGone` (151-182). A stream object is an identifier with the
side that created it, because both ends count 1, 3, 5, ...

### `TunProxy` and the code

| code | model |
|---|---|
| `SendPacket` 122-220, called by `packetLoop` for every packet | `Take` and one action per branch |
| `handleSYN` 223-298: the dial and the SYN-ACK, under `mu` | `HandleSYN`, then `DialDone` or `DialFails` |
| `handleACK` 317-392 | `HandleACK`, `Acknowledge` |
| `handleRST` 395-406; the default branch of `handleFIN` 455-466 | `HandleRST`, `HandleLateFIN`, both by `CloseAndRelock` |
| `handleFIN` 409-435 and its goroutine | `HandleFIN`, `FinTimer` |
| `handleData` 472-506: the blocking `Write`, under `mu` | `HandleData`, then `WriteDone` or `WriteFails` |
| `forwardConnection` 509-574 | `ForwardRead`, `ForwardDeliver`, `ForwardEnd`, `ForwardLeave` |

`loop` is where `packetLoop` is. Only `packetLoop` does anything that takes time
under `mu`, so the mutex is free exactly when `loop` is idle, and `stuck` is a
handler that calls `mu.Lock` while it holds `mu`. The second `Lock` is at lines
401, 463 and in `recordError` (239, 287, 491); what follows it never runs, which
is why `CloseAndRelock` leaves the entry in `connections`. `FinWait1`, `FinWait2`,
`Closing`, `LastAck` and `TimeWait` are tested in the code and never assigned from
a state that is reached, so the model has no such states. A packet carries its
type and acknowledgement number; the numbers that the proxy echoes to clients
(`ClientSeq`, `ClientAck`, `ServerAck`) are left out, and so are the swapped
arguments with which `handleFIN` calls `sendACK` (422, 457): clients of the model
take any acknowledgement. `ProxyInterface.Close` and `connection_tracker.go` are
not called anywhere and not modelled. Clients and servers are external; a client
sends only what its TCP may send.

### `TunStack` and the code

| code | model |
|---|---|
| `TUNProxy.Start` 140-186, `DefaultRouter.Start`, `MockDevice.Start` | `Start`, `StartRouter`, `RegisterProxy`, `AddConfigRoute` for each route, `StartLoop`, each with its failure, which takes back the steps before it |
| `TUNProxy.Stop` 189-219 | `Stop`, `WaitForLoop`, `UnregisterProxy`, `StopRouter`, `StopDevice` |
| `packetLoop` 224-263, `ReadPacket` | `LoopTop`, `ReadPacket`, `ReceivePacket`, `ReceiveNil`, `DeviceStopped` |
| `RoutePacket` 123-206: choice and handler under the read lock | `RoutePacket` by `BestRoute`, `Answer`, `HandlerReturns` |
| a handler of `ProxyInterface` that locks its mutex twice (`proxy_interface.go:401` and others) | `HandlerHangs`: the loop is stuck, with the router's read lock |
| `SendPacketToTUN`, `WritePacket`, `InjectPacket` | `CheckProxy`, `CheckDevice`, `Enqueue`, `BeginWrite` |
| `AddRoute`, `RemoveRoute`, `RegisterInterface`, `UnregisterInterface` | `UserAddRoute`, `UserRemoveRoute`, `UserRegister`, `UserUnregister`, all guarded by the lock (`Change`) |

A panic sets `crash` and nothing moves any more. Networks are named, with the
length of their mask (at most 128, an IPv6 address) and the addresses they cover
as constants. `Start` takes the router's lock once per route, so packets of other
interfaces are routed between two of them; `added` counts those it has added.

### `ZapHandshake` and the code

| code | model |
|---|---|
| `DoClientHandshake` 142-180 and what it calls | `SendClientHello`, `ReceiveServerChallenge`, `SendClientResponse`, `ReceiveServerSuccess` |
| `DoServerHandshake` 183-223 | `ReceiveClientHello`, `SendServerChallenge`, `ReceiveClientResponse`, `SendServerSuccess` |
| `TokenAuth.Verify`: the look-up, and the deletion | `ReceiveClientResponse`, then `DeleteToken`; `ConcurrentMapAccess` is the fatal error of the Go runtime |
| `Reset` 550-560 | a choice at `Dial` and `Accept` |
| `ztptls.createSession` 151-156 | `ClientFails` closes the connection |

A random number is named by the connection it was drawn for, so that an old one
that survives in a `Handshake` object is told from a new one. `DeriveSessionKey`
is a tuple of what goes into it. `"none"` stands for the lack of a token and is no
token of `Tokens`; `""` stands for a missing key and is nobody's.

### `Http3` and the code

| code | model |
|---|---|
| `Write` 314-432 | `WriteStart`, `WaitForWindow` with `ProcessIncomingFrames` by `Scan`, `WaitFails`, `WriteHeaders`, and for each frame `WriteFrame` (by `BeginFrame`: the header) and `WritePayload` |
| `streamWrite` 1077-1132, `StreamObfuscate` 569-630 | `WriteStreamHeaders`, then `WriteStream` (by `BeginFrame`) and `WritePayload` for each frame |
| a `conn.Write` that fails, having written nothing or a part (611-620, 1022-1028) | `WriteFails` |
| `Read` 146-311 | `ReadStart`, `ReadData`, `ReadHeaders`, `ReadWindowUpdate`, `ReadConn`, `ReadDataFails`, `ReadFails` |
| `handleWindowUpdateFrame` 859-871 | `HandleWindowUpdate` |
| `Close` 435-463 | `Close` |

The connection hands over pieces of any length, so half a frame may be in the
buffer at every step. `WINDOW_UPDATE` frames are taken out of the middle of the
buffer by `Scan`, as lines 915-969 do. A stream asks for its window once and counts
its bytes once all of them are written, so between two of its frames the other end
may read, credit and answer, and the connection may fail. So may it between the
header of a frame and its payload, which are two writes: `unsent` is what a frame
still lacks. A call that finds nothing to read in 10 ms goes on without a scan.

A frame is a cell with its type and length and one cell for each unit of its payload.
What a payload cell is for (`Content`: a unit of the stream, the text of headers, an
increment) is written down in it. No action looks at that: `Scan` and the reads go by
the lengths in the headers, and take a payload for a header if they ever lose step.
`FramesStayAligned` says that they do not, for what an end holds together with what
is on its way and what the peer has still to write of the frame it is in (`Coming`);
and that a frame is left without its rest only by a peer that has closed, so that
nothing follows it. `StreamIntact` says of the same cells that they hold the units an
end has still to take, in their order, as long as that end is open.

### `BufferedPipe` and the code

An action is what a call does from taking the mutex to the next `Cond.Wait` or to
its return: `Read` (99-149), `Write` and `ResumeWrite` (220-311) by `PutOrWait`,
`TryRead`, `TryWrite`, `Close`, the three `SetDeadline`s, `Expire` for the passing
of a deadline, `ReadTimer` and `WriteTimer` for the goroutines that broadcast.
`Signalled` picks any one waiter, or none if nobody waits.

### `Socks5`, `ZtpOutbound` and the code

| code | model |
|---|---|
| `acceptLoop` 62-94, `Close` 349-356 | `Accept`, `CloseServer` |
| `negotiate` 109-174, `authenticate` 176-223 | `Negotiate`, `CheckUser`, by `ReadInto`, `Missing` and `Slice` on the fixed buffers |
| `handleRequest` 225-340 | `HandleRequest` by `Target`, `Refuse`, `Answer`, `CloseTarget`, `CopyEnds`, `FinishRelay` |
| `DialContext` 64-100, `ensureSession` 103-131 | `StartDial`, `ReadSession`, `LockSession` |
| `Session.OpenStream` (`session.go:237-274`) | `OpenStream` (the checks and the registration), `QueueOpen` (the frame, or the error that leaves the stream registered) |
| `createSession` 133-175, `TLSTransport.Dial` 123-196 | `DialBase`, `Handshake`, `Authenticate`, `StartSession`, each with its error return; `Authenticate` may also wait for ever |
| `Outbound.Close` 177-202 with `Session.Close` | `CloseOutbound`, `EnterClose` (first in `closeOnce`), `FinishClose` (the loops have left) |
| the end of a session under its users (`session.go:377-395`) | `LoopFails`, `LoopCloses` |

Bytes matter in `Socks5`: the first `Read` of a message returns any prefix that
satisfies `io.ReadAtLeast`, and the handler goes on with buffers whose rest is
zero. `closing` is where `Session.Close` is that `Outbound.Close` has called, and
`loops` whether its loops can leave: `processLoop` may be inside `Close` itself, or a
loop where only the end of the transport gets it out. `ConnectorHangs` collects the
states in which the connector's lock is held for ever. The data of a relay is left
out. `Starts` ranges over clients that send
well-formed messages of RFC 1928 and 1929 (`Auths`, `Requests`); `BufferSize` is 32
in the run and stands for 513 and 262 in the code, which every message fits as well.

### `ZtpFrame` and the code

Operators with the names of the functions of `frame.go`. A reader is the sequence
of bytes it will deliver, and an error is the reason for it. `decodeVarint`
drops the upper bits of a fifth byte (`Bits`) and takes a number that stops in the
middle for one that has ended; `ReadFrame` reads an identifier byte by byte until
it ends, however long it gets.

## 3. Runs

Every run ends in under five minutes on two workers. All pass but `pipe_trywrite`,
whose one property a test of the repository expects and TLC refutes. Deadlock is not
checked: every bounded instance stops when its bounds are used up, and a session
that has closed stops for good. Some properties are conjunctions of named parts,
which the last column gives in brackets; each part is stated where it is defined.

| run | instance | shows |
|---|---|---|
| `flow_safe` | 1 writer, window 3, counters modulo 5, queues of 1, up to 8 bytes, every fault but a short write timeout | `TypeOK`, `WindowRespected`, `AckNeverAhead`, `LifetimeBound` |
| `flow_pipe` | 1 writer, window 3, send queue of 1, up to 7 bytes in frames of 2, only the read timer, fair | `ImplementsPipe`, `WriteCompletes`, `CloseReachesReader` |
| `session_faults` | 2 closers and `processLoop`, queues of 1, an error channel of 2, failing transport, bad frames, pings, split frames, fair | `TypeOK`, `TransportClosedLast`, `OneCloser`, `LoopCloseIsFinal`, `FaultsAccounted`, `HalfDeadIsClosed`, `CloseCompletes` |
| `streams_safe` | client opens 2 streams, both ends write and close, client may close its session at any step | `RegistrySound` (`TypeOK`, `UsableIsRegistered`), `QuietAgreement`, `ResetFollowsClose`; the assumptions of `MCZtpFrame` |
| `streams_live` | client opens 2 streams and is refused a third, `acceptCh` has room, fair | `OpenedIsAccepted`, `CloseReachesPeer` |
| `tun_proxy` | 1 four-tuple used for up to 2 connections, device of 2 packets, 1 byte up, 1 byte down per connection, every behaviour but `"piggyback"` and `"echo"`, fair | `TypeOK`, `LiveIsTracked`, `SeqMatchesSent`, `HandshakeCompletes`, `ServerCloseFreesKey` |
| `tun_stack` | a queue of 1, 2 packets, 2 changes of the table, 2 lives, a route that does not parse, handlers that may hang, fair | `AllOrNothing`, `PacketsRouted` (`StackTypeOK`, `HandledByBestRoute`, `PacketsAccounted`), `FirstLifeIsSafe`, `StopHolds` (`StopIsFinal`, `StopNeedsAPacket`) |
| `zap_handshake` | 5 kinds of clients, 2 workers, 2 connections, 2 tokens, fair | `SessionsAgree` (`TypeOK`, `ClientSessionIsShared`, `SessionsAreFresh`, `AuthenticatedIsASession`), `SpentTokenIsDead`, `EndsForCause` (`AttemptEnds`, `FailsForCause`) |
| `http3` | window 5, counters modulo 8, frames of 2 in two writes each, 5 units one way and 1 back, one end may close, fair | `StreamWhole` (`TypeOK`, `FramesStayAligned`, `StreamIntact`, `ReadIsPrefix`), `CreditedOnce`, `WrittenIsRead` |
| `pipe` | a buffer of 4, 2 writers of 3 units at one end, 2 readers and a `TryWrite` at the other, a deadline set at any step, fair | `DataIntact` (`TypeOK`, `InOrder`), `NoLostWakeup`, `CallsReturn` (`DataIsRead`, `WriteReturns`, `ReadReturns`) |
| `pipe_trywrite` | the same instance | refutes `TryWriteReachesPeer` |
| `socks` | 2 clients of 5 kinds, 2 TLS connections, 1 `Close`, a server that may fall silent, sessions that die or do not end, fair | `TakenAsMeant` (`TypeOK`, `AuthSound`, `TargetMisreadOnlyIfSplit`), `NothingLeaks` (`NoOrphanLink`, `OneSession`, `StreamsClosed`), `GoroutinesEnd` (`HandlerEnds`, `CopiesEnd`, `DialsEnd`) |

### Bounds and why they are enough

* `Modulus = 5` with `Window = 3` and 8 bytes: the counters pass the wrap, and
  `Available` is computed on both sides of it. `LifetimeBound` is tight there
  (7 of at most 7 bytes are carried).
* Queues of capacity 1 are full as soon as one frame is in them, which is what
  makes timeouts, lost acknowledgements and dropped payloads happen; a chunk of 2
  with a window of 3 gives a Write of two chunks and a partial window.
* In `flow_pipe` a send queue of 1 under a window of 3 loses acknowledgements, as the
  code's 1024 slots under 65535 bytes do; 7 bytes let a later one make up for them.
* `session_faults` gives the peer one frame, the application one send and one ping,
  two applications and `processLoop` as callers of `Close`: every pair of callers
  meets in `closeOnce`. An error channel of 2, for which the code has 10, is filled
  by the errors of the two loops, with `processLoop` at its own.
* `MaxId = 3` gives two streams, so that actions on one stream cross those on the
  other; queues of 1 make every frame of one wait behind one of the other.
  `MaxId = 5` with `MaxStreams = 3` reaches the refusal of line 244.

* In `tun_proxy` one four-tuple with two connections is what makes an old
  forwarder, an old FIN goroutine and late packets meet a new connection; a
  device of 2 packets lets an acknowledgement wait behind another. The two ISNs
  are 10 apart modulo 32, so that numbers of one connection are never mistaken
  for those of the other, and far from the wrap: `SeqMatchesSent` is about the
  code below it. Two four-tuples share only the mutex.

* In `tun_stack` a queue of 1 blocks the writers, and two starts give a proxy its
  second life, with what the first left closed. Two packets and two changes put
  a change of the table before, into and after the handling of a packet. A third
  network would only repeat the comparison of two.
* In `zap_handshake` two connections make every client use its `Handshake` object
  again and two workers verify the same token at the same time; the five clients
  cover each reason for which a server refuses.
* In `http3` a window of 5 with 5 units, headers and the second count of later
  writes runs out and makes `Write` wait; the counters pass 8. One end sends and
  the other answers, so that `WINDOW_UPDATE` frames stand before and behind data.
* In `pipe` two writes of 3 do not fit a buffer of 4, and two sleepers on each
  condition variable are what a single `Signal` can choose wrongly from.
* In `socks` two clients are two callers of the connector: one makes the session,
  the other waits for it, or makes the next one after `Close` or a failure. One
  `Close` is enough to meet `processLoop` at every step of both.
  Messages are cut at every byte that the code can tell.
* `MCZtpFrame` takes identifiers on both sides of each length of a varint, every
  proper prefix of every frame, and all tails of up to 5 bytes over five values
  for the agreement of the two readers.

### Fairness

Weak fairness stands for the Go scheduler: a goroutine that can take its next
step takes it. It is given per goroutine (one `WF` over the steps of one loop),
never per step, so that a loop may prefer one branch of a `select`. No fairness
is given to an application that may open, write, close or accept a stream, except
that it keeps reading in `FairSpec` of `ZtpFlow` and keeps accepting in
`FairSpec` of `ZtpStreams`; nor to timers that a property does not rest on. In
`ZtpFlow` a read timer that is set runs out, because the default read timeout is
30 s; a `Read` without one is not woken by the peer's close (see below).
`TunProxy` gives `packetLoop` and the forwarders strong fairness, because they
compete for a mutex, and `sync.Mutex` hands itself to a goroutine that has waited
for 1 ms. Its clients acknowledge what they receive (delayed acknowledgements are
sent in the end) and its servers read; nobody has to send, close or reset.

In the newer modules: `TunStack` gives weak fairness to the steps of Start and Stop,
to the loop and to each goroutine that writes to the device, and none to users, to
those who inject packets, or to `HandlerHangs`, which may come instead of the return
of a handler. `ZapHandshake` gives it to each end's next step, so that a handshake
ends assumes that both ends are scheduled or the connection breaks; none to `Dial` or
`Break`. `Http3` gives it to a call that has begun, and strong fairness to the start
of a `Read`: the application reads on, also if its goroutine writes in between.
`BufferedPipe` gives it to the calls, to readers that call `Read` again, to timers
and to the clock. `Socks5` gives it to each handler, which includes the dial it waits
in, to a copying goroutine one of whose connections has ended, and to what is left of
an `Outbound.Close` (`EnterClose`, `FinishClose`). That does not make the connector
answer: a server may fall silent in the ZAP handshake, which no timeout covers, and
the loops of a session may never leave. Then no step is enabled, and `ConnectorHangs`
names the state.

## 4. What TLC refutes

Comments, documents and tests of the repository say more than the code does. Each
of these is a definition of a module or a property of a run, and TLC refutes it
with the constants given:

1. `ImplementsPipe` with `Env = {"slow_reader"}` and `RecvBuf = 1` in `flow_pipe`: a
   payload that is discarded after 100 ms is never sent again, and EOF comes
   without it. The comment at `session.go:444` says that the sender waits.
2. `ErrorClosesTransport` of `ZtpSession` with `Env = {"transport_error"}` and
   `FairSpec`: `processLoop` calls `Close` (`session.go:386`), which waits for
   `processLoop` (173). The loops leave, the transport (175) stays open.
3. `HealthyStaysOpen` of `ZtpSession` with `Env = {"ping"}`: a pong is an ACK frame of
   four bytes (`session.go:541`), which `handleAckFrame` (509) takes for an error;
   keep-alive, which the default configuration sends, ends a healthy session.
   `FaultsAccounted` counts a pong as the fault that the code makes of it.
4. `NoCrossTalk` of `ZtpStreams` with `Openers = {client, server}` and `MaxId = 1`:
   both ends count 1, 3, 5, ..., although `docs/DEVLOG.md:89` has odd and even.
5. `LoopKeepsRunning` of `TunProxy` with `Env = {}` and `FairSpec`: `handleFIN`
   (`proxy_interface.go:463`) locks the mutex that `SendPacket` holds, and every
   later packet of every client waits behind it. It takes no fault: the server
   speaks first, the ACK of the handshake no longer equals `ServerSeq`, and the
   client closes.
6. `DefaultRouteForwards` of `TunStack` with `Configs <- OnlyDefault`: the best prefix
   starts at 0 and only a longer one replaces it (`default_router.go:169`), so the
   default route of the default configuration is never chosen.
7. `WindowRecovers` of `Http3`: headers are counted and never credited, later
   writes are counted twice (`http3.go:429`), and the window shrinks for good until
   every `Write` waits 30 s and fails although the peer has read everything.
8. `TryWriteReachesPeer` of `BufferedPipe`, in the run `pipe_trywrite`:
   `bufpipe_test.go:311-328` writes with the client's `TryWrite` and expects the
   server's `TryRead` to return it. `TryWrite` (`bufpipe.go:420`) puts it into the
   buffer of its own end, where only the client reads it. `InOrder` says where the
   units are: behind a `Write` at the peer, behind a `TryWrite` at home.

The constants reach further behaviours of the code that no run lists, because
they follow from a single branch. `Writers = {w1, w2}` makes `WindowRespected`
false (two `Write`s share one credit check). Counters that wrap before the last
byte make `WriteCompletes` false (no acknowledgement is larger than the last,
and `Write` waits for ever). So would a lost acknowledgement, were it not for the
first half of that property: the window of 65535 bytes lets through more frames
than the 1024 slots of the send queue have acknowledgements for, `trySendFrame`
drops one that finds no slot (`session.go:212-234`, 441), and if it was the last,
nothing repeats it and `Write` waits for its timer, if one is set. `ackLost` says
that this has happened; with `SendBuf = 1` below a window of 3 it does in
`flow_pipe`. Adding `"write_timeout"` to `Env` of `ZtpFlow`
makes `WindowRespected` false (a `Write` that times out before `sendFrame`
leaves an uncounted frame); `ReadSize = 1` makes `ImplementsPipe` false (the
rest of a payload is not put back); `Env = {}` makes `CloseReachesReader` false (a
`Read` without a timer is not woken). `"slow_bytes"` makes `HealthyStaysOpen`
false, `"stalled_peer"` makes `CloseCompletes` false. `SendTimeouts = TRUE` makes
`QuietAgreement` false (a CLOSE frame that is not queued is forgotten). Each of
`"rst"`, `"dial_error"`, `"write_error"`, `"fin_again"` and `"echo"` makes
`LoopKeepsRunning` of `TunProxy` false by a lock of its own (`"echo"` by two
full buffers and no second `Lock`), and `"piggyback"` makes `HandshakeCompletes`
false: an acknowledgement that comes with data is not looked at.

What reading the code for the newer modules has shown, and no run lists:

* `BufferedPipe`: `SetWriteDeadline` and `Close` wake the waiters of their own end,
  but a blocked `Write` of that end waits at its peer. Without a reader the
  `Write` of a closed end is stuck (`bufpipe_test.go:432-470` expects `Close` to end
  it). `Close` tells the peer nothing. Two writers interleave whenever the buffer
  fills up.
* `TUNProxy`: `stopChan` and the device's channels are made once. The loop of a
  second life ends at once, its device panics on a write, and its `Stop` panics.
  With an empty queue `Stop` waits for ever, with `p.mu` held. So it does after a
  handler of `ProxyInterface` has locked its mutex twice: the loop never comes back
  from `RoutePacket`, no packet helps, and the router's read lock is never released
  (`HandlerHangs`). A `Start` that fails leaves the routes it has added in the table.
* `http3Transport`: two goroutines in one transport race on `rawBuffer`, and the
  10 ms read deadline that a waiting `Write` sets fails a `Read` under way. Once
  `sentBytes` passes `windowSize` the difference wraps and the window holds
  nobody back.
* `Socks5`: the length of a domain is taken from a byte that may not have arrived
  (264), and an empty host is dialled. Authentication is refused or hangs when its
  message is cut before the length of the password (201). What a client sends ahead
  is lost in the buffer of `negotiate` (112). The first direction that ends closes
  both (338).
* `ztptls`: a dead session is handed out until somebody calls `Close` (109), `Close`
  is not final (178), and `DoClientHandshake` ignores its context while `mu` is held:
  a silent server stops every dial for ever. `Close` holds `mu` as well while it waits
  for `Session.Close`, which never returns if `processLoop` is in its own `Close`, or
  stuck, when the call comes (`session.go:153-179`, 386). So `DialsEnd` without
  `WaitsForEver` is false.
* `ztp`: `processLoop` sends into the error channel that only it drains
  (`session.go:509`, 541), and once it is stuck there no error closes the session,
  which `HalfDeadIsClosed` exempts; `pingLoop` leaves for good and tells nobody when a
  queue stays full (574); two
  concurrent `Start`s start the loops twice (123); the stream limit counts
  identifiers, and a refused call uses one up (244); an `OpenStream` that cannot
  queue its frame leaves the stream registered (269); two goroutines that close
  one stream close a channel twice (`stream.go:209`).
* `proxy_interface.go`: where the numbers of two connections of a four-tuple meet or
  one wraps, `SeqMatchesSent` is false (345 compares them as they are); a client is
  not told that its server has closed (524); a
  connection whose client has closed stays until the server closes as well (416);
  data packets are not acknowledged, so clients repeat them and each copy is
  written (489).

## 5. Proofs

`ZtpFlowProofs`, for every value of the constants that `FlowAssumption` allows:

* `TypeCorrect`: `Spec => []TypeOK`. Besides the ranges it bounds all queues.
* `AcksAreTrue`: `Spec => []AckNeverAhead`. `AckNeverAhead` is not inductive: an
  acknowledgement on its way must not announce more than was accepted, nor may
  `received`. `AckInv` says so for both and for `acked`.
* `WindowIsRespected`, `LifetimeIsBounded`: with one writer and no
  `"write_timeout"` in `Env`. The invariant has two parts. `PathInv`: the frames
  in `sendQ` and `wire` are in order, each `end` between `accepted` and
  `enqueued`, so that what is accepted next never overtakes what was queued. The
  credit invariant relates the wrapped counters to the true ones: as long as
  nothing has wrapped past the window, the `available` that the writer computes
  is the true credit (`AvailableIsCredit`), and the orphans of a closed stream
  are accounted for. Where the hypotheses fail the property fails: a second
  writer and `"write_timeout"` are among the further behaviours above.
* `StreamIsAPipe`: `Spec => ImplementsPipe`, the refinement of `StreamPipe`, for any
  number of writers, under `Lossless`: no `"slow_reader"`, `"close_during_write"` or
  `"write_timeout"` in `Env` and `MaxFrame <= ReadSize`. The other timers may run
  out: a chunk or a close frame that finds no room for 5 s was never in the pipe.
  The invariant looks at `recvCh`, `wire` and `sendQ` as one sequence (`Line`).
  `Carries` says that its frames are the chunks after `lastRead`, each of at least
  one byte and ending where the next begins, up to `chunks` and `enqueued`; the
  close frame, if it is on the line, is last (`Told`, `Payloads`). A frame that
  changes queues leaves the line as it is (`ConcatHandOver`), queueing one is `Put`,
  reading one is `Get`, and when the close frame is handled nothing is left behind
  it (`CloseLine`), so that `End` finds all chunks read. Without each of the
  hypotheses TLC refutes the refinement: a discarded payload, a `Write` whose frame
  comes after the close frame, and a slice too short for a payload.

`ZtpSessionProofs`, from `SessionAssumption`, for any number of closers and any
environment: `TypeCorrect`, `CloseRunsOnce` (`OneCloser`), `TransportIsClosedLast`,
`LoopCloseNeverReturns` (`LoopCloseIsFinal`, an action property) and `ErrorsAreTrue`
(`FaultsAccounted`). All but the first rest on one inductive invariant `CloseInv`:
`OnceInv` ties the program counter of each caller to `once`, `isClosed`, `cancelled`
and `closeCh`; `LoopInv` says that `processLoop` is at its call of `Close` as long as
that call is under way, which is why `wg.Wait` cannot return. `FaultsAccounted` is a
balance and inductive with `CloseInv`: every fault is one bad frame, one report that a
loop is about to make, one entry of the error channel or the `Close` it led to
(`FaultsAhead`). The lemmas have one part per goroutine: `sendLoop` and `recvLoop` add
to both sides together, `processLoop` hands an error on, the others touch neither;
once the session stops errors may be dropped, and the balance becomes an inequality.

`ZtpStreamsProofs`, from `StreamsAssumption` and `OneOpener`: only one side's
application calls `OpenStream`, as in this program (with two openers the names of
streams collide, see section 4). `HeldStreamsAreFound` (`RegistrySound`),
`ResetsFollowCloses` (`ResetFollowsClose`) and, where no send times out,
`MapsAgreeWhenQuiet` (`QuietAgreement`). None of the three is inductive: each needs
the whole `StreamsInv`. It says that an identifier is used once (`UsedOnce`), that
the frame which opens a stream comes once, before all others of the stream, to a
side that has nothing of it (`OpensComeOnce`, `OpensComeFirst`, `OpensAreNews`), that
a CLOSE or RESET on the way comes from a side that has done with the stream
(`EndsAreTrue`), and that a stream in one map only is about to be opened or closed
in the other (`Agreement`).

The last part of `ZtpStreamsProofs` is about `ZtpFrame`. `VarintsAreRead`, for every
number of 32 bits and whatever follows its bytes: the number ends where its last byte
is and nowhere else, and `DecodeVarint` returns it with the number of its bytes.
`Digits` splits a number into its groups of seven bits by four divisions by 128,
`ByteOf` says which group a byte carries, `VarintEnd` that the first byte without the
continuation bit is the last. `FramesAreRead`, for every frame that `Validate` lets
pass and whose fields fit their bytes (`CodecFrames`), and every input that agrees
with its bytes as far as the shorter of the two goes: once all of the frame is there,
`ReadFrame` and `Decode` return it and take exactly its bytes; before, both report
the end. So a connection that breaks inside a frame never yields another one.
`EncodeBytes` says which byte of a frame is where, `CutVarint` that an identifier cut
short has no end, `RestReads` what is read behind the identifier. `AcksAreRead`: an
acknowledgement carries both its counters unchanged.

`TunProofs` begins with `TunStack`: from `TunStackAssumption`, for any networks,
configurations and packets: `StartAndStopAreWhole` (`AllOrNothing`),
`PacketsGoWhereTheTableSays` (`PacketsRouted`), `OneLifeIsSafe` (`FirstLifeIsSafe`)
and `StoppedForGood` (`StopIsFinal`, the first half of `StopHolds`). `StackInv` says
what is up and what is down at each step of Start and Stop (`ControlInv`), that the
loop lives no longer than `Stop` waits for it (`LoopInv`), how many packets can be on
their way (`QueueInv`) and in which order channels are closed (`LifeInv`).
`BestRoute` is a loop in the code and a choice in the model; that it picks an enabled
route of the longest prefix is a lemma, for which there must be a longest one:
prefixes are bounded by `TunStackAssumption`, as those of addresses are.

The second half of `TunProofs` is about `TunProxy`: from `TunAssumption`, for any
number of four-tuples and connections, any ISNs and any environment: `TypeCorrect`,
and `LiveConnectionsAreTracked` (`LiveIsTracked`). The invariant `Tracking` adds to
it what it rests on: the table names every connection under its own key
(`TableTrue`), so that deleting the entry of one connection does not lose another,
and the four-tuple for which `packetLoop` is dialling has no entry (`DialIsFree`),
which holds because the dial is under the mutex.

`SentIsCounted` (`SeqMatchesSent`) holds for any ISNs and in any state before
acknowledgements become ambiguous: `NumbersApart` says of the state that no
connection has reached the wrap so far, and that no two connections of one four-tuple
have used the same number so far. No constant is restricted by it. The code promises
neither: an ISN is the low 32 bits of a clock of nanoseconds
(`proxy_interface.go:584`), and line 345 takes any larger acknowledgement for
progress of the connection in hand. Where numbers collide TLC refutes the property.
Because numbers only grow (`NextGrows`,
`ApartBefore`), a state that satisfies `NumbersApart` has only such states before it,
so that `SequenceInv` (`NumbersApart => Counting /\ Talking`) is inductive.
`Counting` ties `ServerSeq` to the bytes of the server and its FIN, once each.
`Talking` is about the clients: what they acknowledge has been sent to them
(`AcksHeard`), between two resets it belongs to one connection, that is, two numbers
are both within what one connection has sent (`SameConn`, `OneConnAtATime`), and for
an established connection to that one until the client resets it
(`EstablishedIsMeant`). The ACK that completes the handshake brings the third about
from the second; a reset in the device would end it, and there the handler closes the
connection. `AckTalking` concludes that no ACK moves `ServerSeq`.

`ZapHandshakeProofs`, from `ZapAssumption` and `KeyAssumption`, for any clients,
workers, connections and tokens: `SessionsAlwaysAgree` (`SessionsAgree`),
`SpentTokensStayDead` (`SpentTokenIsDead`) and `FailuresHaveCauses`
(`FailsForCause`). What an end holds may be left from an earlier connection, so
the invariant `ZapInv` first says that the two ends of a connection keep pace
(`PairsInv`) and what can then be on the way (`PipeOK`), and from that that the
random numbers, keys and identifiers which a step reads were written for this
connection (`FrameTrue`, `ClientTrue`, `ServerTrue`). `SpentInv` and `TokenOK` follow
a token from `Verify` to its deletion: two workers may both accept it, but a
connection that is accepted later finds it gone. For the causes of failures,
`CauseInv` adds to `ZapInv` that a worker knows its client's method and reads the
data that client has sent (`MeantInv`), that a token is there until a connection has
used it up (`SpentAtInv`), and that a connection is closed at the client's end only
if it broke, and at the server's only if its client has an excuse (`ShutInv`). So a
worker that refuses a client which fits its configuration is itself an excuse, and
the client's failure that follows has one. The proof needs what
`Acceptable` says of providers: a client of the TOTP method without an
`AuthManager` sends zeros, which the server refuses.

`Socks5Proofs`, from `Socks5Assumption` and `OutboundAssumption`, for any number of
clients, any configuration and any well-formed messages: `TakenAsMeantAlways`
(`TakenAsMeant`) and `NothingLeaksAlways` (`NothingLeaks`). For the first, `Filled`
says what is in a buffer after reads that cut a message anywhere; the lemmas about
it show that the handler's slices are the message's parts unless the length of a
domain was looked up too early. For the second, `OutboundInv` ties the caller that
holds the connector's lock to the connection it is making, and a `Close` under
way to the lock and the session it closes (`LinkInv`, `LockInv`): an open connection is
that of the session or the newest one, which is being made. A stream whose OPEN frame
could not be queued is the exception that the property names: its session keeps it
and its caller was given an error.

`BufferedPipeProofs`, from `BufferedPipeAssumption`, for any finite number of
goroutines, any buffer of at least four bytes, any slices and deadlines:
`NoWakeupIsLost` (`NoLostWakeup`) and `NothingIsLostOrReordered` (`DataIntact`). For
the first, `SignalWakes` says what `sync.Cond` gives: a
`Signal` wakes one of those who wait, if there are any. The invariant `PipeInv` adds
to the property that a buffer keeps to its size and that a `Write` which is not done
has something left; so a `Write` that is about to wait has filled the buffer, and
one that put anything has woken a reader, if all of them slept. The proof has one
lemma for each call, and one for everything that only wakes (`OnlyWakes`):
deadlines, timers and `Close`. For the second, `DataInv` adds that units are only in
the buffer their goroutine writes to (`UnitsTrue`), so that a `Read` at one end leaves
the count of other writers alone, and that what a goroutine has written and what is
left of its `Write` keep to the bound (`Promised`). A `Read` takes the first units of a
buffer, those of every writer in it; that the rest begins after the newest of them
(`RestInOrder`) needs that a bounded set of numbers has a largest one
(`LargestNumber`), which follows from the library's theorem that the order of the
natural numbers is well-founded.

`Http3Proofs`, from `Http3Assumption`, for any window, modulus and sizes of headers,
frames, streams and slices: `StreamStaysWhole` (`StreamWhole`) and
`UnitsAreCreditedOnce` (`CreditedOnce`). Both need the same invariant `Inv`, which
TLC has also checked on the instance of `http3`. For each end, `Good` says that what
it has still to take, with what its peer has yet to write of the frame it is in
(`Coming`), is whole frames, what it has taken counts from 1, and the rest is behind
it in order; `Balance` is the equation of the window. `CallInv` says of a `Write` how
much is left, that this much room is left below `MaxPut`, and that only two things
leave a header without its payload: a `Write` that is in the middle of the frame, and
one that was cut short, after which one of the two ends is closed (`Rest`). The work
is in four groups of lemmas:

* A sequence of frames is one frame and the frames behind it (`FramedCat`,
  `FramedTail`, `FrontFrame`). If the first frame is all there, taking its cells
  away leaves frames, the units behind it in order (`InOrderBehind`, `TakeData`) and
  the credits less its own (`FrameTaken`).
* `Scan` (`ScanSifts`): for a buffer with any cells behind it, what `Scan` keeps with
  those cells behind it is again whole frames, has the same units in the same order,
  and the credit taken out is what is missing from `Credits`. This goes from the end
  of the buffer to its front: of the positions at which the claim fails there is a
  largest one, from the library's theorem that the numbers are well-founded, and the
  frame there (`SiftFrame`) or the lack of one (`SiftNone`) contradicts it. That the
  function `Scan` defines by itself exists at all is `ScanExists`, from the same
  theorem.
* `Credits` of two sequences, one behind the other, is the sum of both (`CreditsCat`,
  with `SumExists` for the recursive function).
* Counters that wrap: `ModPlus`, from the division of natural numbers.

The steps then need few facts each: what is delivered is behind what was there
(`Appended`, `FramePut`), what is pulled moves from `net` to `rawBuffer` and leaves
`Coming` alone (`Pulling`), and a frame that is taken is the first (`FrameRead`). The
frame which a failing `Read` drops breaks the order for that end, and the property
says so (`dropped`); that nothing else does is what is proved.

Only model-checked: all liveness, which TLAPS cannot prove under fairness:
`WriteCompletes`, `CloseReachesReader`, `HalfDeadIsClosed`, `CloseCompletes`,
`OpenedIsAccepted`, `CloseReachesPeer`, `HandshakeCompletes`, `ServerCloseFreesKey`,
`StopNeedsAPacket`, `AttemptEnds`, `WrittenIsRead`, `CallsReturn` and `GoroutinesEnd`;
and that `ReadFrame` and
`Decode` agree on bytes which no frame begins with (`ReadersAgree` of `MCZtpFrame`).
Every invariant and every action property that a run checks is a theorem.

## 6. Further proofs

Of the properties that TLAPS can reach none is left. Some theorems have hypotheses
beyond the assumptions on constants, and sections 4 and 5 say why: one writer and no
`"write_timeout"` for `WindowIsRespected` and `LifetimeIsBounded`, `Lossless` for
`StreamIsAPipe`, one side that opens for the theorems about `ZtpStreams` and no send
that times out for `MapsAgreeWhenQuiet`. That of `SentIsCounted`, `NumbersApart`, is
about the state and not about the constants.

## 7. Not modelled

* *Dynamic transport*: only a test makes one. Its calls hold a read lock through
  the blocking `Read` or `Write` below, so that `Switch` and `Close` wait for them;
  all its modes share one connection.
* *DoQ and WebRTC transports*: frame wrappers with the read path of the HTTP/3
  transport and without its windows.
* *ZOP connector and server*: wrappers around a mock of QUIC with one lock, and an
  accept loop and relay like those of `Socks5`, except that both directions are
  waited for.
* *Loopback pair*: a test component of one channel. `Close` empties it once; a
  `Dial` whose `select` takes the channel after that leaves a connection nobody
  closes.
* *Kernel*: one lock around a map of services, of which the program registers none.
* *Buffer pool*: a wrapper of `sync.Pool`.
* *ZAP cryptography*: computation; `ZapHandshake` has what both ends must agree on.
* *TLS (but for `Dial` and `Close`), QUIC and TCP transports, TUN device*: they pass
  calls on to libraries and the operating system.
* *Configuration*: no behaviour over time.
* Of modelled components: the connection tracker, which nothing fills;
  `ProxyInterface.Close`, which nothing calls; `Switch` and the obfuscators of the
  HTTP/3 transport; `legacyWrite` of the pipe; the data of a SOCKS5 relay; expiry
  times and the `Error` frame of ZAP.
