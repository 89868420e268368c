------------------------------ MODULE TunStack ------------------------------
(***************************************************************************)
(* The life of a TUNProxy: Start and Stop, the packet loop, the device     *)
(* with its queue (the MockDevice, which NewDevice returns wherever no     *)
(* real driver is compiled in) and the DefaultRouter.                      *)
(*                                                                         *)
(* Start and Stop hold p.mu from beginning to end, so control is a single  *)
(* sequence of steps, each of them one call to the device or the router.   *)
(* Beside it run the loop, the goroutine of an outbound connection that    *)
(* writes packets to the device, the source of packets (InjectPacket) and  *)
(* users of the router.  A panic ends the process: nothing moves once      *)
(* crash is set.                                                           *)
(***************************************************************************)
EXTENDS Naturals, Sequences, SequencesExt

CONSTANTS
  Addresses,    \* destinations of packets
  Unparsable,   \* a packet that is neither IPv4 nor IPv6
  Networks,     \* Destination strings net.ParseCIDR accepts
  Prefix,       \* Networks -> length of the mask, at most that of an IPv6 address
  Covers,       \* Networks -> addresses the network contains
  Configs,      \* the choices of config.Routes
  Proxy,        \* config.ProxyInterface
  UserRoutes,   \* routes given to AddRoute at run time
  QueueCap,     \* capacity of packetChan: 1000
  MaxPackets,   \* bound: packets put into the queue
  MaxChanges    \* bound: calls of the router's users

Routes == UserRoutes \cup UNION {Range(c) : c \in Configs}
Accepted == {r \in Routes : r.net \in Networks}    \* those AddRoute takes
Interfaces == {r.iface : r \in Routes} \cup {Proxy}

ASSUME TunStackAssumption ==
  /\ Configs \subseteq Seq(Routes)
  /\ Prefix \in [Networks -> 0..128] /\ Covers \in [Networks -> SUBSET Addresses]
  /\ Unparsable \notin Addresses
  /\ \A r \in Routes : r.enabled \in BOOLEAN
  /\ {QueueCap, MaxPackets, MaxChanges} \subseteq Nat

VARIABLES
  config,     \* config.Routes
  added,      \* how many of them Start has added to the router
  running,    \* TUNProxy.running
  stopClosed, \* stopChan of the proxy is closed
  ctl,        \* the step of Start or Stop that is next
  dev,        \* the device: running, and whether its channels are closed
  queue,      \* packetChan
  rtr,        \* the router: running, routes, interfaces
  stat,       \* RouterStats
  packetLoop, \* the step of packetLoop that is next and the packet it holds
  writers,    \* WritePacket and InjectPacket in progress, per goroutine
  put,        \* packets put into the queue so far
  changes,    \* calls of the router's users so far
  starts,     \* history: device starts, up to two
  failed,     \* history: a Start was rolled back
  handed,     \* history: packets handed to an interface since router.Start
  crash       \* who panicked, and why

control == <<config, added, running, stopClosed, ctl, starts, failed>>
traffic == <<queue, put, packetLoop, writers>>
routing == <<rtr, stat, handed, changes>>
stackVars == <<control, dev, traffic, routing, crash>>

DevicePackets == Addresses \cup {Unparsable}
Goroutines == {"loop", "conn", "source"}
NotWriting == [pc |-> "idle", pkt |-> Unparsable]
NoLoop == [pc |-> "none", pkt |-> Unparsable]
NoCrash == [who |-> "nobody", why |-> "none"]
NewStats == [processed |-> 0, routed |-> 0, dropped |-> 0, errors |-> 0]

StackInit ==
  /\ config \in Configs /\ added = 0
  /\ running = FALSE /\ stopClosed = FALSE /\ ctl = "free"
  /\ dev = [running |-> FALSE, closed |-> FALSE] /\ queue = <<>>
  /\ rtr = [running |-> FALSE, routes |-> <<>>,
            handlers |-> [i \in Interfaces |-> "none"]]
  /\ stat = NewStats /\ packetLoop = NoLoop
  /\ writers = [g \in Goroutines |-> NotWriting]
  /\ put = 0 /\ changes = 0 /\ starts = 0 /\ failed = FALSE /\ handed = 0
  /\ crash = NoCrash

Panic(g, reason) == crash' = [who |-> g, why |-> reason]

----------------------------------------------------------------------------
(* The router's operations on its state. *)

\* AddRoute of a route whose Destination parses: replaced in place or appended.
AddRoute(routes, r) ==
  IF \E i \in DOMAIN routes : routes[i].net = r.net
  THEN [i \in DOMAIN routes |-> IF routes[i].net = r.net THEN r ELSE routes[i]]
  ELSE Append(routes, r)

\* The search for a route begins with a best length of 0 and replaces the best
\* only by a longer one: 0 is returned when nothing was found.
BestRoute(routes, a) ==
  LET matching == {i \in DOMAIN routes : routes[i].enabled
                     /\ a \in Covers[routes[i].net] /\ Prefix[routes[i].net] > 0}
  IN IF matching = {} THEN 0
     ELSE CHOOSE i \in matching : \A j \in matching :
            LET p == Prefix[routes[i].net] q == Prefix[routes[j].net]
            IN p > q \/ (p = q /\ i <= j)

\* The read lock of RoutePacket is held while the handler runs, for ever if it
\* does not return.
RouterLocked == packetLoop.pc \in {"send", "answered", "stuck"}

\* The handler RoutePacket finds for a packet, "none" when it drops the packet.
Handler(p) ==
  LET best == IF p = Unparsable THEN 0 ELSE BestRoute(rtr.routes, p)
  IN IF best = 0 THEN "none" ELSE rtr.handlers[rtr.routes[best].iface]

----------------------------------------------------------------------------
(* Start and Stop. *)

\* Start, up to device.Start, which succeeds.  A proxy that runs refuses, and
\* so does a device that runs.
Start ==
  /\ ctl = "free" /\ ~running /\ ~dev.running
  /\ dev' = [dev EXCEPT !.running = TRUE]
  /\ starts' = IF starts = 0 THEN 1 ELSE 2
  /\ ctl' = "router"
  /\ UNCHANGED <<config, added, running, stopClosed, failed, traffic, routing, crash>>

\* router.Start; the statistics begin again.
StartRouter ==
  /\ ctl = "router" /\ ~rtr.running
  /\ rtr' = [rtr EXCEPT !.running = TRUE] /\ stat' = NewStats /\ handed' = 0
  /\ ctl' = "register"
  /\ UNCHANGED <<config, added, running, stopClosed, starts, failed, dev, traffic, changes, crash>>

\* Mutated: a Start that is taken back leaves the router running.
RegisterProxyKeepRouter ==
  /\ ctl = "register"
  /\ IF rtr.handlers[Proxy] = "none"
     THEN /\ rtr' = [rtr EXCEPT !.handlers[Proxy] = "proxy"]
          /\ ctl' = "routes" /\ UNCHANGED failed
     ELSE ctl' = "stopDevice" /\ failed' = TRUE /\ UNCHANGED rtr
  /\ UNCHANGED <<config, added, running, stopClosed, starts, dev, traffic, stat, handed, changes, crash>>

\* RegisterInterface refuses a name that is taken: Start stops the router and
\* the device again.
RegisterProxy ==
  /\ ctl = "register"
  /\ IF rtr.handlers[Proxy] = "none"
     THEN /\ rtr' = [rtr EXCEPT !.handlers[Proxy] = "proxy"]
          /\ ctl' = "routes" /\ UNCHANGED failed
     ELSE ctl' = "stopRouter" /\ failed' = TRUE /\ UNCHANGED rtr
  /\ UNCHANGED <<config, added, running, stopClosed, starts, dev, traffic, stat, handed, changes, crash>>

\* One turn of the loop over config.Routes.  At the first that does not parse
\* Start takes everything back, except the routes it has added.
AddConfigRoute ==
  /\ ctl = "routes" /\ added < Len(config)
  /\ LET r == config[added + 1]
     IN IF r.net \in Networks
        THEN /\ rtr' = [rtr EXCEPT !.routes = AddRoute(rtr.routes, r)]
             /\ added' = added + 1 /\ UNCHANGED <<ctl, failed>>
        ELSE /\ added' = 0 /\ ctl' = "unregister" /\ failed' = TRUE /\ UNCHANGED rtr
  /\ UNCHANGED <<config, running, stopClosed, starts, dev, traffic, stat, handed, changes, crash>>

\* All routes are there: the packet loop starts.
StartLoop ==
  /\ ctl = "routes" /\ added = Len(config)
  /\ running' = TRUE /\ packetLoop' = [NoLoop EXCEPT !.pc = "top"]
  /\ ctl' = "free" /\ added' = 0
  /\ UNCHANGED <<config, stopClosed, starts, failed, dev, queue, put, writers, routing, crash>>

\* Stop closes stopChan, which is made only once, and waits for the loop.
Stop ==
  /\ ctl = "free" /\ running
  /\ IF stopClosed THEN Panic("control", "closedTwice") /\ UNCHANGED control
     ELSE /\ stopClosed' = TRUE /\ running' = FALSE /\ ctl' = "wait"
          /\ UNCHANGED <<config, added, starts, failed, crash>>
  /\ UNCHANGED <<dev, traffic, routing>>

\* Mutated: Stop does not wait for the loop.
WaitForNothing ==
  /\ ctl = "wait"
  /\ ctl' = "unregister"
  /\ UNCHANGED <<config, added, running, stopClosed, starts, failed, dev, traffic, routing, crash>>

WaitForLoop ==
  /\ ctl = "wait" /\ packetLoop.pc = "none"
  /\ ctl' = "unregister"
  /\ UNCHANGED <<config, added, running, stopClosed, starts, failed, dev, traffic, routing, crash>>

\* UnregisterInterface goes by the name, whoever registered it.
UnregisterProxy ==
  /\ ctl = "unregister" /\ ~RouterLocked
  /\ rtr' = [rtr EXCEPT !.handlers[Proxy] = "none"] /\ ctl' = "stopRouter"
  /\ UNCHANGED <<config, added, running, stopClosed, starts, failed, dev, traffic, stat, handed, changes, crash>>

StopRouter ==
  /\ ctl = "stopRouter" /\ ~RouterLocked
  /\ rtr' = [rtr EXCEPT !.running = FALSE] /\ ctl' = "stopDevice"
  /\ UNCHANGED <<config, added, running, stopClosed, starts, failed, dev, traffic, stat, handed, changes, crash>>

\* device.Stop closes both of its channels, which are made only once.
StopDevice ==
  /\ ctl = "stopDevice"
  /\ IF dev.closed THEN Panic("control", "closedTwice") /\ UNCHANGED <<ctl, dev>>
     ELSE dev' = [running |-> FALSE, closed |-> TRUE] /\ ctl' = "free" /\ UNCHANGED crash
  /\ UNCHANGED <<config, added, running, stopClosed, starts, failed, traffic, routing>>

Control == Start \/ StartRouter \/ RegisterProxy \/ AddConfigRoute \/ StartLoop
           \/ Stop \/ WaitForLoop \/ UnregisterProxy \/ StopRouter \/ StopDevice

----------------------------------------------------------------------------
(* The packet loop. *)

\* Mutated: the loop does not look at stopChan.
LoopTopForever ==
  /\ packetLoop.pc = "top"
  /\ packetLoop' = [packetLoop EXCEPT !.pc = "read"]
  /\ UNCHANGED <<control, dev, queue, put, writers, routing, crash>>

\* select: stopChan, or else the next packet.
LoopTop ==
  /\ packetLoop.pc = "top"
  /\ packetLoop' = [packetLoop EXCEPT !.pc = IF stopClosed THEN "none" ELSE "read"]
  /\ UNCHANGED <<control, dev, queue, put, writers, routing, crash>>

\* ReadPacket of a device that does not run fails, and the loop goes on.
ReadPacket ==
  /\ packetLoop.pc = "read"
  /\ packetLoop' = [packetLoop EXCEPT !.pc = IF dev.running THEN "receive" ELSE "top"]
  /\ UNCHANGED <<control, dev, queue, put, writers, routing, crash>>

\* ReadPacket waits for the queue or the device's stopChan.
ReceivePacket ==
  /\ packetLoop.pc = "receive" /\ queue # <<>>
  /\ packetLoop' = [pc |-> "route", pkt |-> Head(queue)] /\ queue' = Tail(queue)
  /\ UNCHANGED <<control, dev, put, writers, routing, crash>>

DeviceStopped ==
  /\ packetLoop.pc = "receive" /\ dev.closed
  /\ packetLoop' = [packetLoop EXCEPT !.pc = "top"]
  /\ UNCHANGED <<control, dev, queue, put, writers, routing, crash>>

\* A closed packetChan that is empty yields nil, and len(packet.Data) panics.
ReceiveNil ==
  /\ packetLoop.pc = "receive" /\ dev.closed /\ queue = <<>>
  /\ Panic("loop", "nilPacket")
  /\ UNCHANGED <<control, dev, traffic, routing>>

\* RoutePacket up to the handler's call: refused, dropped, or handed over.
\* (A router that does not run refuses, and counts nothing.)
RoutePacket ==
  /\ packetLoop.pc = "route"
  /\ IF ~rtr.running
     THEN packetLoop' = [NoLoop EXCEPT !.pc = "top"] /\ UNCHANGED <<stat, handed>>
     ELSE IF Handler(packetLoop.pkt) = "none"
     THEN /\ stat' = [stat EXCEPT !.processed = @ + 1, !.dropped = @ + 1]
          /\ packetLoop' = [NoLoop EXCEPT !.pc = "top"] /\ UNCHANGED handed
     ELSE /\ stat' = [stat EXCEPT !.processed = @ + 1]
          /\ packetLoop' = [packetLoop EXCEPT !.pc = "send"] /\ handed' = handed + 1
  /\ UNCHANGED <<control, dev, queue, put, writers, rtr, changes, crash>>

\* The proxy's handler may answer the packet with one to the device.
Answer ==
  /\ packetLoop.pc = "send" /\ Handler(packetLoop.pkt) = "proxy" /\ put < MaxPackets
  /\ \E p \in Addresses : writers' = [writers EXCEPT !["loop"] = [pc |-> "proxy", pkt |-> p]]
  /\ packetLoop' = [packetLoop EXCEPT !.pc = "answered"]
  /\ UNCHANGED <<control, dev, queue, put, routing, crash>>

\* ProxyInterface.SendPacket holds its mutex, and some of what it calls (a RST,
\* a last FIN, a dial or a write that fails) locks that mutex again.
HandlerHangs ==
  /\ packetLoop.pc \in {"send", "answered"} /\ Handler(packetLoop.pkt) = "proxy"
  /\ writers["loop"] = NotWriting
  /\ packetLoop' = [packetLoop EXCEPT !.pc = "stuck"]
  /\ UNCHANGED <<control, dev, queue, put, writers, routing, crash>>

\* The handler returns, and RoutePacket with it.
HandlerReturns ==
  /\ packetLoop.pc \in {"send", "answered"} /\ writers["loop"] = NotWriting
  /\ packetLoop' = [NoLoop EXCEPT !.pc = "top"]
  /\ \/ stat' = [stat EXCEPT !.routed = @ + 1]
     \/ stat' = [stat EXCEPT !.errors = @ + 1]
  /\ UNCHANGED <<control, dev, queue, put, writers, rtr, handed, changes, crash>>

Loop == LoopTop \/ ReadPacket \/ ReceivePacket \/ DeviceStopped \/ ReceiveNil
        \/ RoutePacket \/ HandlerReturns

----------------------------------------------------------------------------
(* Packets to the device. *)

\* A connection's goroutine calls SendPacketToTUN, whether or not the proxy
\* runs; the source injects a packet of any kind.
BeginWrite(g) ==
  /\ writers[g] = NotWriting /\ put < MaxPackets
  /\ \/ /\ g = "conn"
        /\ \E p \in Addresses : writers' = [writers EXCEPT ![g] = [pc |-> "proxy", pkt |-> p]]
     \/ /\ g = "source"
        /\ \E p \in DevicePackets : writers' = [writers EXCEPT ![g] = [pc |-> "device", pkt |-> p]]
  /\ UNCHANGED <<control, dev, queue, put, packetLoop, routing, crash>>

\* SendPacketToTUN refuses when the proxy does not run, WritePacket and
\* InjectPacket when the device does not.
CheckProxy(g) ==
  /\ writers[g].pc = "proxy"
  /\ writers' = [writers EXCEPT ![g] = IF running THEN [@ EXCEPT !.pc = "device"] ELSE NotWriting]
  /\ UNCHANGED <<control, dev, queue, put, packetLoop, routing, crash>>

CheckDevice(g) ==
  /\ writers[g].pc = "device"
  /\ writers' = [writers EXCEPT ![g] = IF dev.running THEN [@ EXCEPT !.pc = "queue"] ELSE NotWriting]
  /\ UNCHANGED <<control, dev, queue, put, packetLoop, routing, crash>>

\* The packet goes into the queue unless that is full; the lock under which
\* the device was seen to run is no longer held.
Enqueue(g) ==
  /\ writers[g].pc = "queue"
  /\ writers' = [writers EXCEPT ![g] = NotWriting]
  /\ IF dev.closed THEN Panic(g, "sendOnClosed") /\ UNCHANGED <<queue, put>>
     ELSE IF Len(queue) < QueueCap
     THEN queue' = Append(queue, writers[g].pkt) /\ put' = put + 1 /\ UNCHANGED crash
     ELSE UNCHANGED <<queue, put, crash>>
  /\ UNCHANGED <<control, dev, packetLoop, routing>>

Write(g) == CheckProxy(g) \/ CheckDevice(g) \/ Enqueue(g)

----------------------------------------------------------------------------
(* Users of the router; each call waits for its lock. *)

\* Mutated: the table changes while a packet is in a handler.
ChangeUnlocked(r) ==
  /\ changes < MaxChanges
  /\ rtr' = r /\ changes' = changes + 1
  /\ UNCHANGED <<control, dev, traffic, stat, handed, crash>>

Change(r) ==
  /\ changes < MaxChanges /\ ~RouterLocked
  /\ rtr' = r /\ changes' = changes + 1
  /\ UNCHANGED <<control, dev, traffic, stat, handed, crash>>

\* A Destination that does not parse is refused.
UserAddRoute == \E r \in UserRoutes :
  r.net \in Networks /\ Change([rtr EXCEPT !.routes = AddRoute(rtr.routes, r)])

\* RemoveRoute takes the first route with the Destination out of the table.
UserRemoveRoute == \E i \in DOMAIN rtr.routes :
  /\ \A j \in 1..i - 1 : rtr.routes[j].net # rtr.routes[i].net
  /\ Change([rtr EXCEPT !.routes = RemoveAt(rtr.routes, i)])

\* RegisterInterface refuses a name that is taken.
UserRegister == \E n \in Interfaces :
  rtr.handlers[n] = "none" /\ Change([rtr EXCEPT !.handlers[n] = "user"])

UserUnregister == \E n \in Interfaces :
  rtr.handlers[n] # "none" /\ Change([rtr EXCEPT !.handlers[n] = "none"])

User == UserAddRoute \/ UserRemoveRoute \/ UserRegister \/ UserUnregister

StackNext ==
  /\ crash = NoCrash
  /\ \/ Control \/ Loop \/ Answer \/ HandlerHangs \/ User
     \/ \E g \in Goroutines : BeginWrite(g) \/ Write(g)

\* The goroutines run: what has begun goes on, and a handler returns unless it
\* hangs, which it is never forced to do.
StackFairness ==
  /\ WF_stackVars(crash = NoCrash /\ ctl # "free" /\ Control)
  /\ WF_stackVars(crash = NoCrash /\ Loop)
  /\ \A g \in Goroutines : WF_stackVars(crash = NoCrash /\ Write(g))

StackSpec == StackInit /\ [][StackNext]_stackVars /\ StackFairness

----------------------------------------------------------------------------
(* Properties. *)

Steps == {"free", "router", "register", "routes", "wait", "unregister",
          "stopRouter", "stopDevice"}

ControlTypeOK ==
  /\ config \in Configs /\ added \in 0..Len(config)
  /\ running \in BOOLEAN /\ stopClosed \in BOOLEAN /\ ctl \in Steps
  /\ starts \in {0, 1, 2} /\ failed \in BOOLEAN

TrafficTypeOK ==
  /\ queue \in Seq(DevicePackets) /\ Len(queue) <= QueueCap /\ put \in Nat
  /\ packetLoop \in [pc : {"none", "top", "read", "receive", "route", "send", "answered",
                           "stuck"}, pkt : DevicePackets]
  /\ writers \in [Goroutines -> [pc : {"idle", "proxy", "device", "queue"}, pkt : DevicePackets]]

RoutingTypeOK ==
  /\ rtr \in [running : BOOLEAN, routes : Seq(Accepted),
              handlers : [Interfaces -> {"none", "proxy", "user"}]]
  /\ stat \in [processed : Nat, routed : Nat, dropped : Nat, errors : Nat]
  /\ handed \in Nat /\ changes \in 0..MaxChanges

StackTypeOK ==
  /\ ControlTypeOK /\ TrafficTypeOK /\ RoutingTypeOK
  /\ dev \in [running : BOOLEAN, closed : BOOLEAN]
  /\ crash \in [who : Goroutines \cup {"control", "nobody"},
                why : {"none", "closedTwice", "nilPacket", "sendOnClosed"}]

\* Start and Stop are done as a whole or not at all: when neither is in progress
\* the proxy, the device and the router agree on whether they run, and a proxy
\* that does not run has no handler in the router and no loop.  The routes
\* which a Start has added before it failed stay in the table.  (Start, Stop)
AllOrNothing ==
  ctl = "free" =>
    /\ dev.running = running /\ rtr.running = running
    /\ ~running => rtr.handlers[Proxy] # "proxy" /\ packetLoop = NoLoop

\* A packet is in a handler only as long as an enabled route of the table leads
\* there and no enabled route that covers the packet is more specific,
\* whatever the users do to the table meanwhile.  (RoutePacket and its lock)
HandledByBestRoute ==
  RouterLocked =>
    \E i \in DOMAIN rtr.routes : LET r == rtr.routes[i] IN
      /\ r.enabled /\ packetLoop.pkt \in Covers[r.net] /\ rtr.handlers[r.iface] # "none"
      /\ \A j \in DOMAIN rtr.routes :
           rtr.routes[j].enabled /\ packetLoop.pkt \in Covers[rtr.routes[j].net]
             => Prefix[rtr.routes[j].net] <= Prefix[r.net]

\* The router's statistics account for every packet once: it was dropped, or
\* handed to an interface, and then it was routed, failed, or is there still.
\* (RoutePacket, and Start, which begins the statistics again)
PacketsAccounted ==
  LET inHandler == IF RouterLocked THEN 1 ELSE 0
  IN /\ stat.processed = stat.dropped + handed
     /\ handed = stat.routed + stat.errors + inHandler

\* A proxy that was started once and stopped does not panic in its loop or in
\* Stop: what remains is a packet some other goroutine was writing while the
\* device was stopped.  The loop finds a nil packet only after a Start that
\* was taken back, which closes the device's channels.  (Stop waits for the
\* loop before it stops the device)
FirstLifeIsSafe ==
  /\ starts # 2 => crash = NoCrash \/ (crash.why = "sendOnClosed" /\ crash.who # "loop")
  /\ crash.who = "loop" => failed

\* Once a Stop has returned no packet is handed to an interface, not even by a
\* proxy that is started again.  (packetLoop and the closed stopChan)
StopIsFinal == [][stopClosed /\ ctl # "wait" => handed' <= handed]_stackVars

\* Stop comes to an end when a packet is left to wake the loop, unless a handler
\* of the proxy hangs: then Stop waits for ever with p.mu held, and so it does
\* with an empty queue, where the loop waits in ReadPacket.  (Stop, ReadPacket,
\* ProxyInterface.SendPacket)
StopNeedsAPacket ==
  ctl = "wait" /\ queue # <<>>
    ~> ctl # "wait" \/ crash # NoCrash \/ packetLoop.pc = "stuck"

\* A packet that a route to an interface covers is handed to that interface,
\* also when the route is the default route.  (RoutePacket)
DefaultRouteForwards ==
  [][\A i \in DOMAIN rtr.routes : LET r == rtr.routes[i] IN
       /\ packetLoop.pc = "route" /\ packetLoop'.pc # "route" /\ rtr.running /\ Len(rtr.routes) = 1
       /\ r.enabled /\ packetLoop.pkt \in Covers[r.net] /\ rtr.handlers[r.iface] # "none"
       => packetLoop'.pc = "send"]_stackVars

\* Packets go where the table says at that moment, and the statistics say so.
PacketsRouted == StackTypeOK /\ HandledByBestRoute /\ PacketsAccounted

\* Stop lasts, and comes to an end if it can.
StopHolds == StopIsFinal /\ StopNeedsAPacket
=============================================================================
