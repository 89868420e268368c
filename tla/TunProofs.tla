----------------------------- MODULE TunProofs -----------------------------
(***************************************************************************)
(* Proofs about the TUN proxy.  The first half is about its life, which is *)
(* TunStack, for any addresses, networks, configurations and users' routes,*)
(* any queue and any number of packets and changes of the table.           *)
(*                                                                         *)
(* The argument goes along the steps of Start and Stop: ControlInv says    *)
(* what is up and what is down at each of them, LoopInv that the packet    *)
(* loop lives only while the proxy runs or Stop waits for it, and LifeInv  *)
(* in which order stopChan and the device's channels are closed.           *)
(*                                                                         *)
(* The second half is about its connections, which are TunProxy, for any   *)
(* number of clients and connections and any environment: their types, and *)
(* that the connection table always leads to the live connection of a      *)
(* four-tuple; and, with ISNs that are far enough apart, that sequence     *)
(* numbers count what clients have been sent.                              *)
(***************************************************************************)
EXTENDS TunProxy, TunStack, SequenceTheorems, WellFoundedInduction, TLAPS

\* One for a goroutine that has a packet for the device.
Busy(g) == IF writers[g] = NotWriting THEN 0 ELSE 1

\* What each step of Start and Stop knows of the device, the router and the
\* proxy: they are taken up and down in a fixed order.
ControlInv ==
  /\ ctl = "free" => (dev.running <=> running) /\ (rtr.running <=> running)
  /\ ctl # "free" => dev.running /\ ~running
  /\ ctl \in {"register", "routes", "wait", "unregister", "stopRouter"} => rtr.running
  /\ ctl \in {"router", "stopDevice"} => ~rtr.running
  /\ ctl # "routes" => added = 0
  /\ ctl \in {"router", "register", "stopRouter", "stopDevice"} \/ (ctl = "free" /\ ~running)
       => rtr.handlers[Proxy] # "proxy"

\* The loop lives no longer than Stop waits for it, it holds a packet only
\* while it routes one, and it writes to the device only inside a handler.
LoopInv ==
  /\ packetLoop.pc \notin {"route", "send", "answered", "stuck"} => packetLoop.pkt = Unparsable
  /\ ~running /\ ctl # "wait" => packetLoop = NoLoop
  /\ writers["loop"] # NotWriting => packetLoop.pc = "answered"

\* Packets in the queue's history and packets on their way there.
QueueInv ==
  put + Busy("loop") + Busy("conn") + Busy("source") <= MaxPackets + 2

\* How far the proxy is in its life: the device's channels are closed at the
\* end of the first life at the earliest, and unless a Start was taken back
\* stopChan was closed before and the loop has seen it.
LifeInv ==
  /\ starts = 0 => ctl = "free" /\ ~running /\ ~stopClosed /\ ~dev.closed /\ ~failed
  /\ starts # 2 /\ dev.closed => ctl = "free" /\ ~running
  /\ starts # 2 /\ stopClosed => ~running /\ ctl \notin {"router", "register", "routes"}
  /\ dev.closed /\ ~failed => stopClosed /\ ctl # "wait"
  /\ ctl = "wait" => stopClosed
  /\ ctl \in {"unregister", "stopRouter", "stopDevice"} /\ ~failed => stopClosed
  /\ stopClosed /\ ctl # "wait" => packetLoop.pc \in {"none", "top"}

StackInv ==
  /\ StackTypeOK /\ ControlInv /\ LoopInv /\ QueueInv /\ LifeInv
  /\ HandledByBestRoute /\ PacketsAccounted /\ FirstLifeIsSafe

----------------------------------------------------------------------------
(* The route table. *)

LEMMA SmallestExists ==
  ASSUME NEW S, S \subseteq Nat, S # {}
  PROVE  \E m \in S : \A n \in S : m <= n
<1>1. \E m \in S : \A n \in S : ~ (n < m)
  <2>1. PICK m \in S : \A n \in S : <<n, m>> \notin OpToRel(<, Nat)
    BY NatLessThanWellFounded, WFMin, Zenon
  <2>. QED BY <2>1, Zenon DEF OpToRel
<1>. QED BY <1>1

\* Of some routes one has the longest prefix and, among those, comes first.
LEMMA LongestExists ==
  ASSUME NEW I, I \subseteq Nat, I # {}, NEW len \in [I -> 0..128]
  PROVE  \E i \in I : \A j \in I : len[i] > len[j] \/ (len[i] = len[j] /\ i <= j)
<1>. DEFINE gap == [i \in I |-> 128 - len[i]]
            Gaps == {gap[i] : i \in I}
<1>1. \A i \in I : gap[i] \in Nat
  OBVIOUS
<1>2. Gaps \subseteq Nat /\ Gaps # {}
  BY <1>1
<1>3. PICK g \in Gaps : \A h \in Gaps : g <= h
  <2>. HIDE DEF Gaps
  <2>. QED BY <1>2, SmallestExists
<1>. DEFINE J == {i \in I : gap[i] = g}
<1>4. J \subseteq Nat /\ J # {}
  OBVIOUS
<1>5. PICK i \in J : \A j \in J : i <= j
  <2>. HIDE DEF J
  <2>. QED BY <1>4, SmallestExists
<1>6. \A j \in I : gap[i] <= gap[j]
  BY <1>3
<1>7. ASSUME NEW j \in I PROVE len[i] > len[j] \/ (len[i] = len[j] /\ i <= j)
  <2>1. gap[i] = 128 - len[i] /\ gap[j] = 128 - len[j] /\ gap[i] <= gap[j]
    BY <1>6
  <2>2. PICK p \in 0..128, q \in 0..128 : len[i] = p /\ len[j] = q
    OBVIOUS
  <2>3. p = q => i <= j
    BY <1>5, <2>1, <2>2
  <2>4. p >= q
    BY <2>1, <2>2
  <2>. QED BY <2>2, <2>3, <2>4
<1>. QED BY <1>7

\* BestRoute finds a route that covers the address, and no other route that
\* covers it is more specific.
LEMMA BestRouteIsBest ==
  ASSUME NEW t \in Seq(Accepted), NEW a, BestRoute(t, a) # 0
  PROVE  /\ BestRoute(t, a) \in DOMAIN t
         /\ t[BestRoute(t, a)].enabled /\ a \in Covers[t[BestRoute(t, a)].net]
         /\ \A j \in DOMAIN t : t[j].enabled /\ a \in Covers[t[j].net]
              => Prefix[t[j].net] <= Prefix[t[BestRoute(t, a)].net]
<1>. DEFINE I == {i \in DOMAIN t : t[i].enabled /\ a \in Covers[t[i].net]
                                    /\ Prefix[t[i].net] > 0}
            Beats(i, j) == LET p == Prefix[t[i].net] q == Prefix[t[j].net]
                           IN p > q \/ (p = q /\ i <= j)
            len == [i \in I |-> Prefix[t[i].net]]
            b == CHOOSE i \in I : \A j \in I : Beats(i, j)
<1>1. I # {} /\ BestRoute(t, a) = b
  BY DEF BestRoute
<1>2. \A j \in DOMAIN t : t[j] \in Accepted /\ Prefix[t[j].net] \in 0..128
  BY TunStackAssumption DEF TunStackAssumption, Accepted
<1>3. I \subseteq Nat /\ len \in [I -> 0..128]
  BY <1>2
<1>4. PICK i \in I : \A j \in I : len[i] > len[j] \/ (len[i] = len[j] /\ i <= j)
  <2>. HIDE DEF I, len
  <2>. QED BY <1>1, <1>3, LongestExists
<1>5. \A j \in I : Beats(i, j)
  BY <1>4
<1>6. b \in I /\ \A j \in I : Beats(b, j)
  <2>. HIDE DEF I, Beats
  <2>. QED BY <1>5
<1>. HIDE DEF b
<1>7. ASSUME NEW j \in DOMAIN t, t[j].enabled, a \in Covers[t[j].net]
      PROVE  Prefix[t[j].net] <= Prefix[t[b].net]
  <2>1. PICK p \in 0..128 : Prefix[t[j].net] = p
    BY <1>2
  <2>2. PICK q \in 0..128 : Prefix[t[b].net] = q
    BY <1>2, <1>6
  <2>3. p > 0 => Beats(b, j)
    BY <1>6, <1>7, <2>1
  <2>4. q > 0 /\ (p > 0 => q >= p)
    BY <1>6, <2>1, <2>2, <2>3
  <2>5. p <= q
    BY ONLY p \in 0..128, q \in 0..128, <2>4
  <2>. QED BY <2>1, <2>2, <2>5
<1>. QED BY <1>1, <1>6, <1>7

LEMMA AddRouteType ==
  ASSUME NEW t \in Seq(Accepted), NEW r \in Accepted
  PROVE  AddRoute(t, r) \in Seq(Accepted)
BY DEF AddRoute

LEMMA RemoveAtType ==
  ASSUME NEW t \in Seq(Accepted), NEW i \in DOMAIN t
  PROVE  RemoveAt(t, i) \in Seq(Accepted)
BY DEF RemoveAt

----------------------------------------------------------------------------
(* Parts of the invariant that most steps leave alone. *)

\* A packet in a handler stays on its best route while the table stays.
LEMMA BestRouteStays ==
  ASSUME HandledByBestRoute,
         RouterLocked' => RouterLocked /\ packetLoop'.pkt = packetLoop.pkt /\ UNCHANGED rtr
  PROVE  HandledByBestRoute'
BY DEF HandledByBestRoute

LEMMA AccountsStay ==
  ASSUME PacketsAccounted, RouterLocked' = RouterLocked, UNCHANGED <<stat, handed>>
  PROVE  PacketsAccounted'
BY DEF PacketsAccounted

\* A step of the loop that does not end it leaves a packet in it only on the way
\* to a handler.
LEMMA LoopGoesOn ==
  ASSUME LoopInv, UNCHANGED <<running, ctl>>, packetLoop.pc # "none",
         packetLoop'.pc \in {"route", "send", "answered", "stuck"} \/ packetLoop'.pkt = Unparsable,
         writers'["loop"] # NotWriting => packetLoop'.pc = "answered"
  PROVE  LoopInv'
BY DEF LoopInv, NoLoop

LEMMA LoopStays ==
  ASSUME LoopInv, UNCHANGED <<running, ctl, packetLoop>>,
         writers'["loop"] # NotWriting => writers["loop"] # NotWriting
  PROVE  LoopInv'
BY DEF LoopInv, NoLoop

LEMMA NoPanic ==
  ASSUME crash = NoCrash, UNCHANGED crash
  PROVE  FirstLifeIsSafe'
BY DEF FirstLifeIsSafe, NoCrash

LEMMA CrashType ==
  ASSUME StackTypeOK,
         \/ UNCHANGED crash
         \/ \E g \in Goroutines \cup {"control"},
               reason \in {"closedTwice", "nilPacket", "sendOnClosed"} : Panic(g, reason)
  PROVE  (crash \in [who : Goroutines \cup {"control", "nobody"},
                     why : {"none", "closedTwice", "nilPacket", "sendOnClosed"}])'
<1>1. CASE UNCHANGED crash
  BY <1>1 DEF StackTypeOK
<1>2. CASE \E g \in Goroutines \cup {"control"},
              reason \in {"closedTwice", "nilPacket", "sendOnClosed"} : Panic(g, reason)
  BY <1>2 DEF Panic
<1>. QED BY <1>1, <1>2

LEMMA QueueStays ==
  ASSUME QueueInv, UNCHANGED <<put, writers>>
  PROVE  QueueInv'
BY DEF QueueInv, Busy

\* The bound on the queue in arithmetic: a goroutine that is not busy may begin
\* below the bound, and one that ends has put at most one packet more.
LEMMA QueueMoves ==
  ASSUME StackTypeOK, StackTypeOK', QueueInv, NEW g \in Goroutines,
         \A h \in Goroutines \ {g} : writers'[h] = writers[h],
         \/ put' = put /\ writers'[g] = NotWriting
         \/ put' = put /\ writers[g] # NotWriting
         \/ put' = put /\ put < MaxPackets
         \/ put' = put + 1 /\ writers[g] # NotWriting /\ writers'[g] = NotWriting
  PROVE  QueueInv'
<1>1. /\ Busy("loop") \in {0, 1} /\ Busy("conn") \in {0, 1} /\ Busy("source") \in {0, 1}
      /\ Busy("loop")' \in {0, 1} /\ Busy("conn")' \in {0, 1} /\ Busy("source")' \in {0, 1}
  BY DEF Busy
<1>2. \A h \in Goroutines \ {g} : Busy(h)' = Busy(h)
  BY DEF Busy
<1>3. (writers[g] # NotWriting => Busy(g) = 1) /\ (writers'[g] = NotWriting => Busy(g)' = 0)
  BY DEF Busy
<1>4. put \in Nat /\ put' \in Nat /\ MaxPackets \in Nat
  BY TunStackAssumption DEF TunStackAssumption, StackTypeOK, TrafficTypeOK
<1>5. g \in {"loop", "conn", "source"} 
  BY DEF Goroutines
<1>6. CASE g = "loop"
  BY <1>1, <1>2, <1>3, <1>4, <1>6 DEF QueueInv, Goroutines
<1>7. CASE g = "conn"
  BY <1>1, <1>2, <1>3, <1>4, <1>7 DEF QueueInv, Goroutines
<1>8. CASE g = "source"
  BY <1>1, <1>2, <1>3, <1>4, <1>8 DEF QueueInv, Goroutines
<1>. QED BY <1>5, <1>6, <1>7, <1>8

USE DEF StackInv

----------------------------------------------------------------------------
(* Every step preserves the invariant. *)

\* A second start follows the first life, whose device is closed.
LEMMA StartStep ==
  ASSUME StackInv, crash = NoCrash, Start
  PROVE  StackInv'
<1>1. StackTypeOK'
  <2>1. ControlTypeOK'
    BY DEF StackTypeOK, ControlTypeOK, Start, Steps
  <2>2. TrafficTypeOK'
    BY DEF StackTypeOK, TrafficTypeOK, Start, traffic
  <2>3. RoutingTypeOK'
    BY DEF StackTypeOK, RoutingTypeOK, Start, routing
  <2>. QED BY <2>1, <2>2, <2>3 DEF StackTypeOK, Start
<1>2. ControlInv'
  BY DEF StackTypeOK, ControlTypeOK, RoutingTypeOK, ControlInv, LoopInv, NoLoop, Start,
     traffic, routing
<1>3. LoopInv'
  BY DEF StackTypeOK, TrafficTypeOK, ControlInv, LoopInv, NoLoop, NotWriting, Start, traffic,
     routing
<1>4. QueueInv'
  BY QueueStays DEF Start, traffic, routing
<1>5. LifeInv'
  <2>1. /\ ctl = "free" /\ ctl' = "router" /\ starts' # 0
        /\ starts' # 2 => starts = 0
        /\ dev'.closed = dev.closed /\ UNCHANGED <<running, stopClosed, failed, packetLoop>>
    BY DEF Start, StackTypeOK, ControlTypeOK, traffic
  <2>. QED BY <2>1 DEF LifeInv
<1>6. HandledByBestRoute'
  BY BestRouteStays DEF RouterLocked, ControlInv, LoopInv, NoLoop,
     Start, traffic, routing
<1>7. PacketsAccounted'
  BY AccountsStay DEF RouterLocked, ControlInv, LoopInv, NoLoop,
     Start, traffic, routing
<1>8. FirstLifeIsSafe'
  BY NoPanic DEF Start
<1>. QED BY <1>1, <1>2, <1>3, <1>4, <1>5, <1>6, <1>7, <1>8

\* The statistics begin again while no packet is in a handler.
LEMMA StartRouterStep ==
  ASSUME StackInv, crash = NoCrash, StartRouter
  PROVE  StackInv'
<1>1. StackTypeOK'
  <2>1. ControlTypeOK'
    BY DEF StackTypeOK, ControlTypeOK, Steps, StartRouter, control
  <2>2. TrafficTypeOK'
    BY DEF StackTypeOK, TrafficTypeOK, StartRouter, traffic, DevicePackets, NotWriting, NoLoop
  <2>3. RoutingTypeOK'
    <3>1. NewStats \in [processed : Nat, routed : Nat, dropped : Nat, errors : Nat]
      BY DEF NewStats
    <3>. QED BY <3>1 DEF StackTypeOK, RoutingTypeOK, StartRouter
  <2>4. (dev \in [running : BOOLEAN, closed : BOOLEAN])'
    BY DEF StackTypeOK, StartRouter
  <2>. QED BY <2>1, <2>2, <2>3, <2>4, CrashType DEF StackTypeOK, StartRouter
<1>2. ControlInv'
  BY DEF StackTypeOK, ControlTypeOK, RoutingTypeOK, ControlInv, LoopInv, NoLoop,
     StartRouter, traffic
<1>3. LoopInv'
  BY DEF StackTypeOK, TrafficTypeOK, ControlInv, LoopInv, NoLoop, NotWriting, StartRouter,
     traffic
<1>4. QueueInv'
  BY QueueStays DEF StartRouter, traffic
<1>5. LifeInv'
  BY DEF StackTypeOK, ControlTypeOK, TrafficTypeOK, ControlInv, LoopInv, LifeInv,
     NoLoop, StartRouter, traffic
<1>6. HandledByBestRoute'
  BY BestRouteStays DEF RouterLocked, ControlInv, LoopInv, NoLoop,
     StartRouter, traffic
<1>7. PacketsAccounted'
  <2>1. ~RouterLocked'
    BY DEF RouterLocked, StartRouter, ControlInv, LoopInv, NoLoop, traffic
  <2>. QED BY <2>1 DEF PacketsAccounted, StartRouter, NewStats
<1>8. FirstLifeIsSafe'
  BY NoPanic DEF StartRouter
<1>. QED BY <1>1, <1>2, <1>3, <1>4, <1>5, <1>6, <1>7, <1>8

\* Only here does the proxy get into the router; a name that is taken is the
\* beginning of the way back.
LEMMA RegisterProxyStep ==
  ASSUME StackInv, crash = NoCrash, RegisterProxy
  PROVE  StackInv'
<1>1. StackTypeOK'
  <2>1. ControlTypeOK'
    BY DEF StackTypeOK, ControlTypeOK, Steps, RegisterProxy, control
  <2>2. TrafficTypeOK'
    BY DEF StackTypeOK, TrafficTypeOK, RegisterProxy, traffic, DevicePackets, NotWriting, NoLoop
  <2>3. RoutingTypeOK'
    <3>1. CASE rtr' = [rtr EXCEPT !.handlers[Proxy] = "proxy"]
      BY <3>1 DEF StackTypeOK, RoutingTypeOK, RegisterProxy
    <3>2. CASE UNCHANGED rtr
      BY <3>2 DEF StackTypeOK, RoutingTypeOK, RegisterProxy
    <3>. QED BY <3>1, <3>2 DEF RegisterProxy
  <2>4. (dev \in [running : BOOLEAN, closed : BOOLEAN])'
    BY DEF StackTypeOK, RegisterProxy
  <2>. QED BY <2>1, <2>2, <2>3, <2>4, CrashType DEF StackTypeOK, RegisterProxy
<1>2. ControlInv'
  BY DEF StackTypeOK, ControlTypeOK, RoutingTypeOK, ControlInv, LoopInv, NoLoop,
     RegisterProxy, traffic
<1>3. LoopInv'
  BY DEF StackTypeOK, TrafficTypeOK, ControlInv, LoopInv, NoLoop, NotWriting, RegisterProxy,
     traffic
<1>4. QueueInv'
  BY QueueStays DEF RegisterProxy, traffic
<1>5. LifeInv'
  BY DEF StackTypeOK, ControlTypeOK, TrafficTypeOK, ControlInv, LoopInv, LifeInv,
     NoLoop, RegisterProxy, traffic
<1>6. HandledByBestRoute'
  BY BestRouteStays DEF RouterLocked, ControlInv, LoopInv, NoLoop,
     RegisterProxy, traffic
<1>7. PacketsAccounted'
  BY AccountsStay DEF RouterLocked, ControlInv, LoopInv, NoLoop,
     RegisterProxy, traffic
<1>8. FirstLifeIsSafe'
  BY NoPanic DEF RegisterProxy
<1>. QED BY <1>1, <1>2, <1>3, <1>4, <1>5, <1>6, <1>7, <1>8

\* The way back from a bad route still has the proxy in the router.
LEMMA AddConfigRouteStep ==
  ASSUME StackInv, crash = NoCrash, AddConfigRoute
  PROVE  StackInv'
<1>1. StackTypeOK'
  <2>1. ControlTypeOK'
    <3>1. added \in Nat /\ Len(config) \in Nat
      BY TunStackAssumption DEF TunStackAssumption, StackTypeOK, ControlTypeOK
    <3>2. added' \in 0..Len(config)
      BY <3>1 DEF AddConfigRoute
    <3>3. ctl' \in Steps /\ failed' \in BOOLEAN
      BY DEF AddConfigRoute, StackTypeOK, ControlTypeOK, Steps
    <3>. QED BY <3>2, <3>3 DEF StackTypeOK, ControlTypeOK, AddConfigRoute
  <2>2. TrafficTypeOK'
    BY DEF StackTypeOK, TrafficTypeOK, AddConfigRoute, traffic, DevicePackets, NotWriting, NoLoop
  <2>3. RoutingTypeOK'
    <3>1. config[added + 1] \in Routes
      BY TunStackAssumption DEF TunStackAssumption, AddConfigRoute, StackTypeOK,
         ControlTypeOK
    <3>2. CASE config[added + 1].net \in Networks
      <4>1. AddRoute(rtr.routes, config[added + 1]) \in Seq(Accepted)
        BY <3>1, <3>2, AddRouteType DEF Accepted, StackTypeOK, RoutingTypeOK
      <4>. QED BY <3>2, <4>1 DEF StackTypeOK, RoutingTypeOK, AddConfigRoute
    <3>3. CASE config[added + 1].net \notin Networks
      BY <3>3 DEF StackTypeOK, RoutingTypeOK, AddConfigRoute
    <3>. QED BY <3>2, <3>3
  <2>4. (dev \in [running : BOOLEAN, closed : BOOLEAN])'
    BY DEF StackTypeOK, AddConfigRoute
  <2>. QED BY <2>1, <2>2, <2>3, <2>4, CrashType DEF StackTypeOK, AddConfigRoute
<1>2. ControlInv'
  BY DEF StackTypeOK, ControlTypeOK, RoutingTypeOK, ControlInv, LoopInv, NoLoop,
     AddConfigRoute, traffic
<1>3. LoopInv'
  BY DEF StackTypeOK, TrafficTypeOK, ControlInv, LoopInv, NoLoop, NotWriting, AddConfigRoute,
     traffic
<1>4. QueueInv'
  BY QueueStays DEF AddConfigRoute, traffic
<1>5. LifeInv'
  BY DEF StackTypeOK, ControlTypeOK, TrafficTypeOK, ControlInv, LoopInv, LifeInv,
     NoLoop, AddConfigRoute, traffic
<1>6. HandledByBestRoute'
  BY BestRouteStays DEF RouterLocked, ControlInv, LoopInv, NoLoop,
     AddConfigRoute, traffic
<1>7. PacketsAccounted'
  BY AccountsStay DEF RouterLocked, ControlInv, LoopInv, NoLoop,
     AddConfigRoute, traffic
<1>8. FirstLifeIsSafe'
  BY NoPanic DEF AddConfigRoute
<1>. QED BY <1>1, <1>2, <1>3, <1>4, <1>5, <1>6, <1>7, <1>8

\* The loop is new: the one before has ended.
LEMMA StartLoopStep ==
  ASSUME StackInv, crash = NoCrash, StartLoop
  PROVE  StackInv'
<1>1. StackTypeOK'
  <2>1. ControlTypeOK'
    BY TunStackAssumption DEF TunStackAssumption, StackTypeOK, ControlTypeOK, Steps,
       StartLoop
  <2>2. TrafficTypeOK'
    BY DEF StackTypeOK, TrafficTypeOK, StartLoop, traffic, DevicePackets, NotWriting, NoLoop
  <2>3. RoutingTypeOK'
    BY DEF StackTypeOK, RoutingTypeOK, StartLoop, routing
  <2>4. (dev \in [running : BOOLEAN, closed : BOOLEAN])'
    BY DEF StackTypeOK, StartLoop
  <2>. QED BY <2>1, <2>2, <2>3, <2>4, CrashType DEF StackTypeOK, StartLoop
<1>2. ControlInv'
  BY DEF StackTypeOK, ControlTypeOK, RoutingTypeOK, ControlInv, LoopInv, NoLoop,
     StartLoop, routing
<1>3. LoopInv'
  <2>1. packetLoop'.pc = "top" /\ packetLoop'.pkt = Unparsable /\ writers' = writers /\ running'
    BY DEF StartLoop, NoLoop
  <2>2. packetLoop = NoLoop
    BY DEF StartLoop, ControlInv, LoopInv
  <2>. QED BY <2>1, <2>2 DEF LoopInv, NoLoop
<1>4. QueueInv'
  BY QueueStays DEF StartLoop, routing
<1>5. LifeInv'
  BY DEF StackTypeOK, ControlTypeOK, TrafficTypeOK, ControlInv, LoopInv, LifeInv,
     NoLoop, StartLoop, routing
<1>6. HandledByBestRoute'
  BY BestRouteStays DEF RouterLocked, ControlInv, LoopInv, NoLoop,
     StartLoop, routing
<1>7. PacketsAccounted'
  BY AccountsStay DEF RouterLocked, ControlInv, LoopInv, NoLoop,
     StartLoop, routing
<1>8. FirstLifeIsSafe'
  BY NoPanic DEF StartLoop
<1>. QED BY <1>1, <1>2, <1>3, <1>4, <1>5, <1>6, <1>7, <1>8

\* A second Stop can only come in a second life.
LEMMA StopStep ==
  ASSUME StackInv, crash = NoCrash, Stop
  PROVE  StackInv'
<1>1. StackTypeOK'
  <2>1. ControlTypeOK'
    BY DEF StackTypeOK, ControlTypeOK, Steps, Stop, control
  <2>2. TrafficTypeOK'
    BY DEF StackTypeOK, TrafficTypeOK, Stop, traffic, DevicePackets, NotWriting, NoLoop
  <2>3. RoutingTypeOK'
    BY DEF StackTypeOK, RoutingTypeOK, Stop, routing
  <2>4. (dev \in [running : BOOLEAN, closed : BOOLEAN])'
    BY DEF StackTypeOK, Stop
  <2>5. UNCHANGED crash \/ Panic("control", "closedTwice")
    BY DEF Stop
  <2>. QED BY <2>1, <2>2, <2>3, <2>4, <2>5, CrashType DEF StackTypeOK, Goroutines
<1>2. ControlInv'
  BY DEF StackTypeOK, ControlTypeOK, RoutingTypeOK, ControlInv, LoopInv, NoLoop, Stop,
     control, traffic, routing
<1>3. LoopInv'
  BY DEF StackTypeOK, TrafficTypeOK, ControlInv, LoopInv, NoLoop, NotWriting, Stop, control,
     traffic, routing
<1>4. QueueInv'
  BY QueueStays DEF Stop, control, traffic, routing
<1>5. LifeInv'
  BY DEF StackTypeOK, ControlTypeOK, TrafficTypeOK, ControlInv, LoopInv, LifeInv,
     NoLoop, Stop, control, traffic, routing
<1>6. HandledByBestRoute'
  BY BestRouteStays DEF RouterLocked, ControlInv, LoopInv, NoLoop,
     Stop, control, traffic, routing
<1>7. PacketsAccounted'
  BY AccountsStay DEF RouterLocked, ControlInv, LoopInv, NoLoop,
     Stop, control, traffic, routing
<1>8. FirstLifeIsSafe'
  <2>1. CASE stopClosed
    <3>1. starts = 2 /\ UNCHANGED starts /\ crash'.who = "control"
      BY <2>1 DEF LifeInv, Stop, Panic, control, StackTypeOK, ControlTypeOK
    <3>. QED BY <3>1 DEF FirstLifeIsSafe
  <2>2. CASE ~stopClosed
    BY <2>2, NoPanic DEF Stop
  <2>. QED BY <2>1, <2>2
<1>. QED BY <1>1, <1>2, <1>3, <1>4, <1>5, <1>6, <1>7, <1>8

\* From here on there is no loop.
LEMMA WaitForLoopStep ==
  ASSUME StackInv, crash = NoCrash, WaitForLoop
  PROVE  StackInv'
<1>1. StackTypeOK'
  BY DEF StackTypeOK, ControlTypeOK, TrafficTypeOK, RoutingTypeOK, WaitForLoop, traffic,
     routing, Steps, DevicePackets
<1>2. ControlInv'
  BY DEF StackTypeOK, ControlTypeOK, RoutingTypeOK, ControlInv, LoopInv, NoLoop,
     WaitForLoop, traffic, routing
<1>3. LoopInv'
  BY DEF StackTypeOK, TrafficTypeOK, ControlInv, LoopInv, NoLoop, NotWriting, WaitForLoop,
     traffic, routing
<1>4. QueueInv'
  BY QueueStays DEF WaitForLoop, traffic, routing
<1>5. LifeInv'
  BY DEF StackTypeOK, ControlTypeOK, TrafficTypeOK, ControlInv, LoopInv, LifeInv,
     NoLoop, WaitForLoop, traffic, routing
<1>6. HandledByBestRoute'
  BY BestRouteStays DEF RouterLocked, ControlInv, LoopInv, NoLoop,
     WaitForLoop, traffic, routing
<1>7. PacketsAccounted'
  BY AccountsStay DEF RouterLocked, ControlInv, LoopInv, NoLoop,
     WaitForLoop, traffic, routing
<1>8. FirstLifeIsSafe'
  BY NoPanic DEF WaitForLoop
<1>. QED BY <1>1, <1>2, <1>3, <1>4, <1>5, <1>6, <1>7, <1>8

LEMMA UnregisterProxyStep ==
  ASSUME StackInv, crash = NoCrash, UnregisterProxy
  PROVE  StackInv'
<1>1. StackTypeOK'
  <2>1. ControlTypeOK'
    BY DEF StackTypeOK, ControlTypeOK, Steps, UnregisterProxy, control
  <2>2. TrafficTypeOK'
    BY DEF StackTypeOK, TrafficTypeOK, UnregisterProxy, traffic, DevicePackets, NotWriting, NoLoop
  <2>3. RoutingTypeOK'
    BY DEF StackTypeOK, RoutingTypeOK, UnregisterProxy, routing
  <2>4. (dev \in [running : BOOLEAN, closed : BOOLEAN])'
    BY DEF StackTypeOK, UnregisterProxy
  <2>. QED BY <2>1, <2>2, <2>3, <2>4, CrashType DEF StackTypeOK, UnregisterProxy
<1>2. ControlInv'
  BY DEF StackTypeOK, ControlTypeOK, TrafficTypeOK, RoutingTypeOK, ControlInv,
     Interfaces, UnregisterProxy
<1>3. LoopInv'
  BY DEF StackTypeOK, TrafficTypeOK, ControlInv, LoopInv, NoLoop, NotWriting, UnregisterProxy,
     traffic
<1>4. QueueInv'
  BY QueueStays DEF UnregisterProxy, traffic
<1>5. LifeInv'
  BY DEF StackTypeOK, ControlTypeOK, TrafficTypeOK, ControlInv, LoopInv, LifeInv,
     NoLoop, UnregisterProxy, traffic
<1>6. HandledByBestRoute'
  BY BestRouteStays DEF RouterLocked, ControlInv, LoopInv, NoLoop,
     UnregisterProxy, traffic
<1>7. PacketsAccounted'
  BY AccountsStay DEF RouterLocked, ControlInv, LoopInv, NoLoop,
     UnregisterProxy, traffic
<1>8. FirstLifeIsSafe'
  BY NoPanic DEF UnregisterProxy
<1>. QED BY <1>1, <1>2, <1>3, <1>4, <1>5, <1>6, <1>7, <1>8

LEMMA StopRouterStep ==
  ASSUME StackInv, crash = NoCrash, StopRouter
  PROVE  StackInv'
<1>1. StackTypeOK'
  <2>1. ControlTypeOK'
    BY DEF StackTypeOK, ControlTypeOK, Steps, StopRouter, control
  <2>2. TrafficTypeOK'
    BY DEF StackTypeOK, TrafficTypeOK, StopRouter, traffic, DevicePackets, NotWriting, NoLoop
  <2>3. RoutingTypeOK'
    BY DEF StackTypeOK, RoutingTypeOK, StopRouter, routing
  <2>4. (dev \in [running : BOOLEAN, closed : BOOLEAN])'
    BY DEF StackTypeOK, StopRouter
  <2>. QED BY <2>1, <2>2, <2>3, <2>4, CrashType DEF StackTypeOK, StopRouter
<1>2. ControlInv'
  BY DEF StackTypeOK, ControlTypeOK, RoutingTypeOK, ControlInv, LoopInv, NoLoop,
     StopRouter, traffic
<1>3. LoopInv'
  BY DEF StackTypeOK, TrafficTypeOK, ControlInv, LoopInv, NoLoop, NotWriting, StopRouter, traffic
<1>4. QueueInv'
  BY QueueStays DEF StopRouter, traffic
<1>5. LifeInv'
  BY DEF StackTypeOK, ControlTypeOK, TrafficTypeOK, ControlInv, LoopInv, LifeInv,
     NoLoop, StopRouter, traffic
<1>6. HandledByBestRoute'
  BY BestRouteStays DEF RouterLocked, ControlInv, LoopInv, NoLoop,
     StopRouter, traffic
<1>7. PacketsAccounted'
  BY AccountsStay DEF RouterLocked, ControlInv, LoopInv, NoLoop,
     StopRouter, traffic
<1>8. FirstLifeIsSafe'
  BY NoPanic DEF StopRouter
<1>. QED BY <1>1, <1>2, <1>3, <1>4, <1>5, <1>6, <1>7, <1>8

\* The device is closed when nothing reads from it any more.
LEMMA StopDeviceStep ==
  ASSUME StackInv, crash = NoCrash, StopDevice
  PROVE  StackInv'
<1>1. StackTypeOK'
  <2>1. ControlTypeOK'
    BY DEF StackTypeOK, ControlTypeOK, Steps, StopDevice, control
  <2>2. TrafficTypeOK'
    BY DEF StackTypeOK, TrafficTypeOK, StopDevice, traffic, DevicePackets, NotWriting, NoLoop
  <2>3. RoutingTypeOK'
    BY DEF StackTypeOK, RoutingTypeOK, StopDevice, routing
  <2>4. (dev \in [running : BOOLEAN, closed : BOOLEAN])'
    <3>1. UNCHANGED dev \/ dev' = [running |-> FALSE, closed |-> TRUE]
      BY DEF StopDevice
    <3>2. [running |-> FALSE, closed |-> TRUE] \in [running : BOOLEAN, closed : BOOLEAN]
      OBVIOUS
    <3>. QED BY <3>1, <3>2 DEF StackTypeOK
  <2>5. UNCHANGED crash \/ Panic("control", "closedTwice")
    BY DEF StopDevice
  <2>. QED BY <2>1, <2>2, <2>3, <2>4, <2>5, CrashType DEF StackTypeOK, Goroutines
<1>2. ControlInv'
  <2>1. CASE dev.closed
    BY <2>1 DEF ControlInv, StopDevice, routing
  <2>2. CASE ~dev.closed
    <3>1. ~dev'.running /\ ctl' = "free" /\ ctl = "stopDevice" /\ UNCHANGED <<running, rtr, added>>
      BY <2>2 DEF StopDevice, routing
    <3>2. dev'.running = FALSE /\ running = FALSE /\ rtr.running = FALSE
      BY <2>2, <3>1 DEF ControlInv, StopDevice, StackTypeOK, ControlTypeOK, RoutingTypeOK
    <3>. QED BY <3>1, <3>2 DEF ControlInv
  <2>. QED BY <2>1, <2>2
<1>3. LoopInv'
  BY DEF StackTypeOK, TrafficTypeOK, ControlInv, LoopInv, NoLoop, NotWriting, StopDevice,
     control, traffic, routing
<1>4. QueueInv'
  BY QueueStays DEF StopDevice, control, traffic, routing
<1>5. LifeInv'
  BY DEF StackTypeOK, ControlTypeOK, TrafficTypeOK, ControlInv, LoopInv, LifeInv,
     NoLoop, StopDevice, control, traffic, routing
<1>6. HandledByBestRoute'
  BY BestRouteStays DEF RouterLocked, ControlInv, LoopInv, NoLoop,
     StopDevice, control, traffic, routing
<1>7. PacketsAccounted'
  BY AccountsStay DEF RouterLocked, ControlInv, LoopInv, NoLoop,
     StopDevice, control, traffic, routing
<1>8. FirstLifeIsSafe'
  <2>1. CASE dev.closed
    <3>1. starts = 2 /\ UNCHANGED starts /\ crash'.who = "control"
      BY <2>1 DEF LifeInv, StopDevice, Panic, StackTypeOK, ControlTypeOK
    <3>. QED BY <3>1 DEF FirstLifeIsSafe
  <2>2. CASE ~dev.closed
    BY <2>2, NoPanic DEF StopDevice
  <2>. QED BY <2>1, <2>2
<1>. QED BY <1>1, <1>2, <1>3, <1>4, <1>5, <1>6, <1>7, <1>8

\* A loop that finds stopChan closed ends, and without a packet.
LEMMA LoopTopStep ==
  ASSUME StackInv, crash = NoCrash, LoopTop
  PROVE  StackInv'
<1>1. StackTypeOK'
  <2>1. ControlTypeOK'
    BY DEF StackTypeOK, ControlTypeOK, Steps, LoopTop, control
  <2>2. TrafficTypeOK'
    BY DEF StackTypeOK, TrafficTypeOK, LoopTop, traffic, DevicePackets, NotWriting, NoLoop
  <2>3. RoutingTypeOK'
    BY DEF StackTypeOK, RoutingTypeOK, LoopTop, routing
  <2>4. (dev \in [running : BOOLEAN, closed : BOOLEAN])'
    BY DEF StackTypeOK, LoopTop
  <2>. QED BY <2>1, <2>2, <2>3, <2>4, CrashType DEF StackTypeOK, LoopTop
<1>2. ControlInv'
  BY DEF StackTypeOK, ControlTypeOK, RoutingTypeOK, ControlInv, LoopInv, NoLoop,
     LoopTop, control, routing
<1>3. LoopInv'
  BY LoopGoesOn DEF StackTypeOK, TrafficTypeOK, LoopInv, NoLoop, RouterLocked, LoopTop,
     control
<1>4. QueueInv'
  BY QueueStays DEF LoopTop, control, routing
<1>5. LifeInv'
  BY DEF StackTypeOK, ControlTypeOK, TrafficTypeOK, ControlInv, LoopInv, LifeInv,
     NoLoop, LoopTop, control, routing
<1>6. HandledByBestRoute'
  BY BestRouteStays DEF RouterLocked, ControlInv, LoopInv, NoLoop,
     LoopTop, control, routing
<1>7. PacketsAccounted'
  BY AccountsStay DEF RouterLocked, ControlInv, LoopInv, NoLoop,
     LoopTop, control, routing
<1>8. FirstLifeIsSafe'
  BY NoPanic DEF LoopTop
<1>. QED BY <1>1, <1>2, <1>3, <1>4, <1>5, <1>6, <1>7, <1>8

LEMMA ReadPacketStep ==
  ASSUME StackInv, crash = NoCrash, ReadPacket
  PROVE  StackInv'
<1>1. StackTypeOK'
  <2>1. ControlTypeOK'
    BY DEF StackTypeOK, ControlTypeOK, Steps, ReadPacket, control
  <2>2. TrafficTypeOK'
    BY DEF StackTypeOK, TrafficTypeOK, ReadPacket, DevicePackets
  <2>3. RoutingTypeOK'
    BY DEF StackTypeOK, RoutingTypeOK, ReadPacket, routing
  <2>. QED BY <2>1, <2>2, <2>3, CrashType DEF StackTypeOK, ReadPacket
<1>2. ControlInv'
  BY DEF StackTypeOK, ControlTypeOK, RoutingTypeOK, ControlInv, LoopInv, NoLoop,
     ReadPacket, control, routing
<1>3. LoopInv'
  BY LoopGoesOn DEF StackTypeOK, TrafficTypeOK, LoopInv, NoLoop, RouterLocked,
     ReadPacket, control
<1>4. QueueInv'
  BY QueueStays DEF ReadPacket, control, routing
<1>5. LifeInv'
  BY DEF StackTypeOK, ControlTypeOK, TrafficTypeOK, ControlInv, LoopInv, LifeInv,
     NoLoop, ReadPacket, control, routing
<1>6. HandledByBestRoute'
  BY BestRouteStays DEF RouterLocked, ControlInv, LoopInv, NoLoop,
     ReadPacket, control, routing
<1>7. PacketsAccounted'
  BY AccountsStay DEF RouterLocked, ControlInv, LoopInv, NoLoop,
     ReadPacket, control, routing
<1>8. FirstLifeIsSafe'
  BY NoPanic DEF ReadPacket
<1>. QED BY <1>1, <1>2, <1>3, <1>4, <1>5, <1>6, <1>7, <1>8

LEMMA ReceivePacketStep ==
  ASSUME StackInv, crash = NoCrash, ReceivePacket
  PROVE  StackInv'
<1>1. StackTypeOK'
  <2>1. ControlTypeOK'
    BY DEF StackTypeOK, ControlTypeOK, Steps, ReceivePacket, control
  <2>2. TrafficTypeOK'
    <3>1. Head(queue) \in DevicePackets /\ Tail(queue) \in Seq(DevicePackets) /\ Len(Tail(queue)) <= QueueCap
      BY TunStackAssumption DEF TunStackAssumption, ReceivePacket, StackTypeOK,
         TrafficTypeOK
    <3>. QED BY <3>1 DEF StackTypeOK, TrafficTypeOK, ReceivePacket
  <2>3. RoutingTypeOK'
    BY DEF StackTypeOK, RoutingTypeOK, ReceivePacket, routing
  <2>4. (dev \in [running : BOOLEAN, closed : BOOLEAN])'
    BY DEF StackTypeOK, ReceivePacket
  <2>. QED BY <2>1, <2>2, <2>3, <2>4, CrashType DEF StackTypeOK, ReceivePacket
<1>2. ControlInv'
  BY DEF StackTypeOK, ControlTypeOK, RoutingTypeOK, ControlInv, LoopInv, NoLoop,
     ReceivePacket, control, routing
<1>3. LoopInv'
  BY LoopGoesOn DEF StackTypeOK, TrafficTypeOK, LoopInv, NoLoop, RouterLocked,
     ReceivePacket, control
<1>4. QueueInv'
  BY QueueStays DEF ReceivePacket, control, routing
<1>5. LifeInv'
  BY DEF StackTypeOK, ControlTypeOK, TrafficTypeOK, ControlInv, LoopInv, LifeInv,
     NoLoop, ReceivePacket, control, routing
<1>6. HandledByBestRoute'
  BY BestRouteStays DEF RouterLocked, ControlInv, LoopInv, NoLoop,
     ReceivePacket, control, routing
<1>7. PacketsAccounted'
  BY AccountsStay DEF RouterLocked, ControlInv, LoopInv, NoLoop,
     ReceivePacket, control, routing
<1>8. FirstLifeIsSafe'
  BY NoPanic DEF ReceivePacket
<1>. QED BY <1>1, <1>2, <1>3, <1>4, <1>5, <1>6, <1>7, <1>8

LEMMA DeviceStoppedStep ==
  ASSUME StackInv, crash = NoCrash, DeviceStopped
  PROVE  StackInv'
<1>1. StackTypeOK'
  BY DEF StackTypeOK, ControlTypeOK, TrafficTypeOK, RoutingTypeOK, DeviceStopped,
     control, routing, Steps, DevicePackets
<1>2. ControlInv'
  BY DEF StackTypeOK, ControlTypeOK, RoutingTypeOK, ControlInv, LoopInv, NoLoop,
     DeviceStopped, control, routing
<1>3. LoopInv'
  BY LoopGoesOn DEF StackTypeOK, TrafficTypeOK, LoopInv, NoLoop, RouterLocked,
     DeviceStopped, control
<1>4. QueueInv'
  BY QueueStays DEF DeviceStopped, control, routing
<1>5. LifeInv'
  BY DEF StackTypeOK, ControlTypeOK, TrafficTypeOK, ControlInv, LoopInv, LifeInv,
     NoLoop, DeviceStopped, control, routing
<1>6. HandledByBestRoute'
  BY BestRouteStays DEF RouterLocked, ControlInv, LoopInv, NoLoop,
     DeviceStopped, control, routing
<1>7. PacketsAccounted'
  BY AccountsStay DEF RouterLocked, ControlInv, LoopInv, NoLoop,
     DeviceStopped, control, routing
<1>8. FirstLifeIsSafe'
  BY NoPanic DEF DeviceStopped
<1>. QED BY <1>1, <1>2, <1>3, <1>4, <1>5, <1>6, <1>7, <1>8

\* The loop reads from a closed device only in a second life, after a Start that
\* was taken back.
LEMMA ReceiveNilStep ==
  ASSUME StackInv, crash = NoCrash, ReceiveNil
  PROVE  StackInv'
<1>1. StackTypeOK'
  BY DEF StackTypeOK, ControlTypeOK, TrafficTypeOK, RoutingTypeOK, ReceiveNil, control,
     traffic, routing, Steps, DevicePackets, Panic, Goroutines
<1>2. ControlInv'
  BY DEF StackTypeOK, ControlTypeOK, RoutingTypeOK, ControlInv, LoopInv, NoLoop,
     ReceiveNil, control, traffic, routing
<1>3. LoopInv'
  BY LoopStays DEF StackTypeOK, TrafficTypeOK, NotWriting, ReceiveNil, control, traffic
<1>4. QueueInv'
  BY QueueStays DEF ReceiveNil, control, traffic, routing
<1>5. LifeInv'
  BY DEF StackTypeOK, ControlTypeOK, TrafficTypeOK, ControlInv, LoopInv, LifeInv,
     NoLoop, ReceiveNil, control, traffic, routing
<1>6. HandledByBestRoute'
  BY BestRouteStays DEF RouterLocked, ControlInv, LoopInv, NoLoop,
     ReceiveNil, control, traffic, routing
<1>7. PacketsAccounted'
  BY AccountsStay DEF RouterLocked, ControlInv, LoopInv, NoLoop,
     ReceiveNil, control, traffic, routing
<1>8. FirstLifeIsSafe'
  <2>1. dev.closed /\ packetLoop.pc = "receive" /\ UNCHANGED <<starts, failed>>
    BY DEF ReceiveNil, control
  <2>2. starts = 2 /\ failed
    BY <2>1 DEF LifeInv, LoopInv, NoLoop, StackTypeOK, ControlTypeOK
  <2>. QED BY <2>1, <2>2 DEF FirstLifeIsSafe
<1>. QED BY <1>1, <1>2, <1>3, <1>4, <1>5, <1>6, <1>7, <1>8

\* The handler that is found is that of the best route.
LEMMA RoutePacketStep ==
  ASSUME StackInv, crash = NoCrash, RoutePacket
  PROVE  StackInv'
<1>1. StackTypeOK'
  <2>1. ControlTypeOK'
    BY DEF StackTypeOK, ControlTypeOK, Steps, RoutePacket, control
  <2>2. TrafficTypeOK'
    BY DEF StackTypeOK, TrafficTypeOK, RoutePacket, DevicePackets, NoLoop
  <2>3. RoutingTypeOK'
    <3>1. CASE UNCHANGED <<stat, handed>>
      BY <3>1 DEF StackTypeOK, RoutingTypeOK, RoutePacket
    <3>2. CASE stat' = [stat EXCEPT !.processed = @ + 1, !.dropped = @ + 1] /\ handed' = handed
      <4>1. stat.processed + 1 \in Nat /\ stat.dropped + 1 \in Nat
        BY DEF StackTypeOK, RoutingTypeOK
      <4>2. stat' \in [processed : Nat, routed : Nat, dropped : Nat, errors : Nat]
        BY <3>2, <4>1 DEF StackTypeOK, RoutingTypeOK
      <4>. QED BY <3>2, <4>2 DEF StackTypeOK, RoutingTypeOK, RoutePacket
    <3>3. CASE stat' = [stat EXCEPT !.processed = @ + 1] /\ handed' = handed + 1
      BY <3>3 DEF StackTypeOK, RoutingTypeOK, RoutePacket
    <3>. QED BY <3>1, <3>2, <3>3 DEF RoutePacket
  <2>4. (dev \in [running : BOOLEAN, closed : BOOLEAN])'
    BY DEF StackTypeOK, RoutePacket
  <2>. QED BY <2>1, <2>2, <2>3, <2>4, CrashType DEF StackTypeOK, RoutePacket
<1>2. ControlInv'
  BY DEF StackTypeOK, ControlTypeOK, RoutingTypeOK, ControlInv, LoopInv, NoLoop,
     RoutePacket, control
<1>3. LoopInv'
  BY LoopGoesOn DEF StackTypeOK, TrafficTypeOK, LoopInv, NoLoop, RouterLocked,
     RoutePacket, control
<1>4. QueueInv'
  BY QueueStays DEF RoutePacket, control
<1>5. LifeInv'
  BY DEF StackTypeOK, ControlTypeOK, TrafficTypeOK, ControlInv, LoopInv, LifeInv,
     NoLoop, RoutePacket, control
<1>6. HandledByBestRoute'
  <2>1. SUFFICES ASSUME RouterLocked' PROVE HandledByBestRoute'
    BY DEF HandledByBestRoute
  <2>2. /\ Handler(packetLoop.pkt) # "none" /\ packetLoop'.pkt = packetLoop.pkt /\ UNCHANGED rtr
    BY <2>1 DEF RoutePacket, RouterLocked, NoLoop, StackTypeOK, TrafficTypeOK
  <2>. DEFINE i == BestRoute(rtr.routes, packetLoop.pkt)
  <2>3. i # 0 /\ rtr.handlers[rtr.routes[i].iface] # "none"
    BY <2>2 DEF Handler
  <2>4. rtr.routes \in Seq(Accepted)
    BY DEF StackTypeOK, RoutingTypeOK
  <2>5. /\ i \in DOMAIN rtr.routes
        /\ rtr.routes[i].enabled /\ packetLoop.pkt \in Covers[rtr.routes[i].net]
        /\ \A j \in DOMAIN rtr.routes :
             rtr.routes[j].enabled /\ packetLoop.pkt \in Covers[rtr.routes[j].net]
               => Prefix[rtr.routes[j].net] <= Prefix[rtr.routes[i].net]
    BY <2>3, <2>4, BestRouteIsBest
  <2>. HIDE DEF i
  <2>. QED BY <2>2, <2>3, <2>5 DEF HandledByBestRoute
<1>7. PacketsAccounted'
  <2>1. ~RouterLocked
    BY DEF RoutePacket, RouterLocked
  <2>2. CASE UNCHANGED <<stat, handed>> /\ ~RouterLocked'
    BY <2>1, <2>2 DEF PacketsAccounted
  <2>3. CASE /\ stat' = [stat EXCEPT !.processed = @ + 1, !.dropped = @ + 1]
             /\ handed' = handed /\ ~RouterLocked'
    BY <2>1, <2>3 DEF PacketsAccounted, StackTypeOK, RoutingTypeOK
  <2>4. CASE stat' = [stat EXCEPT !.processed = @ + 1] /\ handed' = handed + 1 /\ RouterLocked'
    BY <2>1, <2>4 DEF PacketsAccounted, StackTypeOK, RoutingTypeOK
  <2>. QED BY <2>2, <2>3, <2>4 DEF RoutePacket, RouterLocked, NoLoop, StackTypeOK,
     TrafficTypeOK
<1>8. FirstLifeIsSafe'
  BY NoPanic DEF RoutePacket
<1>. QED BY <1>1, <1>2, <1>3, <1>4, <1>5, <1>6, <1>7, <1>8

LEMMA AnswerStep ==
  ASSUME StackInv, crash = NoCrash, Answer
  PROVE  StackInv'
<1>1. StackTypeOK'
  <2>1. ControlTypeOK'
    BY DEF StackTypeOK, ControlTypeOK, Steps, Answer, control
  <2>2. TrafficTypeOK'
    <3>1. PICK p \in Addresses : writers' = [writers EXCEPT !["loop"] = [pc |-> "proxy", pkt |-> p]]
      BY DEF Answer
    <3>2. writers' \in [Goroutines -> [pc : {"idle", "proxy", "device", "queue"}, pkt : DevicePackets]]
      BY <3>1 DEF StackTypeOK, TrafficTypeOK, DevicePackets
    <3>. QED BY <3>2 DEF StackTypeOK, TrafficTypeOK, Answer
  <2>3. RoutingTypeOK'
    BY DEF StackTypeOK, RoutingTypeOK, Answer, routing
  <2>4. (dev \in [running : BOOLEAN, closed : BOOLEAN])'
    BY DEF StackTypeOK, Answer
  <2>. QED BY <2>1, <2>2, <2>3, <2>4, CrashType DEF StackTypeOK, Answer
<1>2. ControlInv'
  BY DEF StackTypeOK, ControlTypeOK, RoutingTypeOK, ControlInv, LoopInv, NoLoop, Answer,
     control, routing
<1>3. LoopInv'
  BY LoopGoesOn DEF StackTypeOK, TrafficTypeOK, LoopInv, NoLoop, RouterLocked, Answer,
     control
<1>4. QueueInv'
  <2>1. put < MaxPackets /\ put' = put
    BY DEF Answer
  <2>2. \A h \in Goroutines \ {"loop"} : writers'[h] = writers[h]
    BY DEF Answer, StackTypeOK, TrafficTypeOK
  <2>. QED BY <1>1, <2>1, <2>2, QueueMoves DEF Goroutines
<1>5. LifeInv'
  BY DEF StackTypeOK, ControlTypeOK, TrafficTypeOK, ControlInv, LoopInv, LifeInv,
     NoLoop, Answer, control, routing
<1>6. HandledByBestRoute'
  BY BestRouteStays DEF RouterLocked, ControlInv, LoopInv, NoLoop,
     Answer, control, routing
<1>7. PacketsAccounted'
  BY AccountsStay DEF RouterLocked, ControlInv, LoopInv, NoLoop,
     Answer, control, routing
<1>8. FirstLifeIsSafe'
  BY NoPanic DEF Answer
<1>. QED BY <1>1, <1>2, <1>3, <1>4, <1>5, <1>6, <1>7, <1>8

\* The packet stays in the handler.
LEMMA HandlerHangsStep ==
  ASSUME StackInv, crash = NoCrash, HandlerHangs
  PROVE  StackInv'
<1>1. StackTypeOK'
  <2>1. ControlTypeOK'
    BY DEF StackTypeOK, ControlTypeOK, Steps, HandlerHangs, control
  <2>2. TrafficTypeOK'
    BY DEF StackTypeOK, TrafficTypeOK, HandlerHangs, DevicePackets
  <2>3. RoutingTypeOK'
    BY DEF StackTypeOK, RoutingTypeOK, HandlerHangs, routing
  <2>4. (dev \in [running : BOOLEAN, closed : BOOLEAN])'
    BY DEF StackTypeOK, HandlerHangs
  <2>. QED BY <2>1, <2>2, <2>3, <2>4, CrashType DEF StackTypeOK, HandlerHangs
<1>2. ControlInv'
  BY DEF StackTypeOK, ControlTypeOK, RoutingTypeOK, ControlInv, LoopInv, NoLoop,
     HandlerHangs, control, routing
<1>3. LoopInv'
  BY LoopGoesOn DEF StackTypeOK, TrafficTypeOK, LoopInv, NoLoop, HandlerHangs, control
<1>4. QueueInv'
  BY QueueStays DEF HandlerHangs, control
<1>5. LifeInv'
  BY DEF StackTypeOK, ControlTypeOK, TrafficTypeOK, ControlInv, LoopInv, LifeInv,
     NoLoop, HandlerHangs, control, routing
<1>6. HandledByBestRoute'
  BY BestRouteStays DEF StackTypeOK, TrafficTypeOK, RouterLocked, HandlerHangs, routing
<1>7. PacketsAccounted'
  BY AccountsStay DEF StackTypeOK, TrafficTypeOK, RouterLocked, HandlerHangs, routing
<1>8. FirstLifeIsSafe'
  BY NoPanic DEF HandlerHangs
<1>. QED BY <1>1, <1>2, <1>3, <1>4, <1>5, <1>6, <1>7, <1>8

\* The packet leaves the handler and is counted.
LEMMA HandlerReturnsStep ==
  ASSUME StackInv, crash = NoCrash, HandlerReturns
  PROVE  StackInv'
<1>1. StackTypeOK'
  <2>1. ControlTypeOK'
    BY DEF StackTypeOK, ControlTypeOK, Steps, HandlerReturns, control
  <2>2. TrafficTypeOK'
    BY DEF StackTypeOK, TrafficTypeOK, HandlerReturns, traffic, DevicePackets, NotWriting, NoLoop
  <2>3. RoutingTypeOK'
    <3>1. stat' \in [processed : Nat, routed : Nat, dropped : Nat, errors : Nat]
      BY SMTT(30) DEF StackTypeOK, RoutingTypeOK, HandlerReturns
    <3>. QED BY <3>1 DEF StackTypeOK, RoutingTypeOK, HandlerReturns
  <2>4. (dev \in [running : BOOLEAN, closed : BOOLEAN])'
    BY DEF StackTypeOK, HandlerReturns
  <2>. QED BY <2>1, <2>2, <2>3, <2>4, CrashType DEF StackTypeOK, HandlerReturns
<1>2. ControlInv'
  BY DEF StackTypeOK, ControlTypeOK, RoutingTypeOK, ControlInv, LoopInv, NoLoop,
     HandlerReturns, control
<1>3. LoopInv'
  BY LoopGoesOn DEF StackTypeOK, TrafficTypeOK, LoopInv, NoLoop, RouterLocked,
     HandlerReturns, control
<1>4. QueueInv'
  BY QueueStays DEF HandlerReturns, control
<1>5. LifeInv'
  BY DEF StackTypeOK, ControlTypeOK, TrafficTypeOK, ControlInv, LoopInv, LifeInv,
     NoLoop, HandlerReturns, control
<1>6. HandledByBestRoute'
  BY BestRouteStays DEF RouterLocked, ControlInv, LoopInv, NoLoop,
     HandlerReturns, control
<1>7. PacketsAccounted'
  <2>1. RouterLocked /\ ~RouterLocked' /\ handed' = handed
    BY DEF HandlerReturns, RouterLocked, NoLoop
  <2>2. CASE stat' = [stat EXCEPT !.routed = @ + 1]
    BY <2>1, <2>2 DEF PacketsAccounted, StackTypeOK, RoutingTypeOK
  <2>3. CASE stat' = [stat EXCEPT !.errors = @ + 1]
    BY <2>1, <2>3 DEF PacketsAccounted, StackTypeOK, RoutingTypeOK
  <2>. QED BY <2>2, <2>3 DEF HandlerReturns
<1>8. FirstLifeIsSafe'
  BY NoPanic DEF HandlerReturns
<1>. QED BY <1>1, <1>2, <1>3, <1>4, <1>5, <1>6, <1>7, <1>8

LEMMA BeginWriteStep ==
  ASSUME StackInv, crash = NoCrash, NEW g \in Goroutines, BeginWrite(g)
  PROVE  StackInv'
<1>1. StackTypeOK'
  <2>1. ControlTypeOK'
    BY DEF StackTypeOK, ControlTypeOK, Steps, BeginWrite, control
  <2>2. TrafficTypeOK'
    <3>1. writers' \in [Goroutines -> [pc : {"idle", "proxy", "device", "queue"}, pkt : DevicePackets]]
      BY DEF StackTypeOK, TrafficTypeOK, BeginWrite, DevicePackets
    <3>. QED BY <3>1 DEF StackTypeOK, TrafficTypeOK, BeginWrite
  <2>3. RoutingTypeOK'
    BY DEF StackTypeOK, RoutingTypeOK, BeginWrite, routing
  <2>4. (dev \in [running : BOOLEAN, closed : BOOLEAN])'
    BY DEF StackTypeOK, BeginWrite
  <2>. QED BY <2>1, <2>2, <2>3, <2>4, CrashType DEF StackTypeOK, BeginWrite
<1>2. ControlInv'
  BY DEF StackTypeOK, ControlTypeOK, RoutingTypeOK, ControlInv, LoopInv, NoLoop,
     BeginWrite, control, routing
<1>3. LoopInv'
  <2>1. writers'["loop"] = writers["loop"]
    BY DEF BeginWrite, StackTypeOK, TrafficTypeOK, Goroutines
  <2>. QED BY <2>1, LoopStays DEF BeginWrite, control
<1>4. QueueInv'
  <2>1. put < MaxPackets /\ put' = put
    BY DEF BeginWrite
  <2>2. \A h \in Goroutines \ {g} : writers'[h] = writers[h]
    BY DEF BeginWrite, StackTypeOK, TrafficTypeOK
  <2>. QED BY <1>1, <2>1, <2>2, QueueMoves
<1>5. LifeInv'
  BY DEF StackTypeOK, ControlTypeOK, TrafficTypeOK, ControlInv, LoopInv, LifeInv,
     NoLoop, BeginWrite, control, routing
<1>6. HandledByBestRoute'
  BY BestRouteStays DEF RouterLocked, ControlInv, LoopInv, NoLoop,
     BeginWrite, control, routing
<1>7. PacketsAccounted'
  BY AccountsStay DEF RouterLocked, ControlInv, LoopInv, NoLoop,
     BeginWrite, control, routing
<1>8. FirstLifeIsSafe'
  BY NoPanic DEF BeginWrite
<1>. QED BY <1>1, <1>2, <1>3, <1>4, <1>5, <1>6, <1>7, <1>8

LEMMA CheckProxyStep ==
  ASSUME StackInv, crash = NoCrash, NEW g \in Goroutines, CheckProxy(g)
  PROVE  StackInv'
<1>1. StackTypeOK'
  <2>1. ControlTypeOK'
    BY DEF StackTypeOK, ControlTypeOK, Steps, CheckProxy, control
  <2>2. TrafficTypeOK'
    BY DEF StackTypeOK, TrafficTypeOK, CheckProxy, traffic, DevicePackets, NotWriting, NoLoop
  <2>3. RoutingTypeOK'
    BY DEF StackTypeOK, RoutingTypeOK, CheckProxy, routing
  <2>4. (dev \in [running : BOOLEAN, closed : BOOLEAN])'
    BY DEF StackTypeOK, CheckProxy
  <2>. QED BY <2>1, <2>2, <2>3, <2>4, CrashType DEF StackTypeOK, CheckProxy
<1>2. ControlInv'
  BY DEF StackTypeOK, ControlTypeOK, RoutingTypeOK, ControlInv, LoopInv, NoLoop,
     CheckProxy, control, routing
<1>3. LoopInv'
  <2>1. writers[g] # NotWriting /\ \A h \in Goroutines \ {g} : writers'[h] = writers[h]
    BY DEF CheckProxy, NotWriting, StackTypeOK, TrafficTypeOK
  <2>2. writers'["loop"] # NotWriting => writers["loop"] # NotWriting
    BY <2>1 DEF Goroutines
  <2>. QED BY <2>2, LoopStays DEF CheckProxy, control
<1>4. QueueInv'
  <2>1. writers[g] # NotWriting /\ put' = put
    BY DEF CheckProxy, NotWriting
  <2>2. \A h \in Goroutines \ {g} : writers'[h] = writers[h]
    BY DEF CheckProxy, StackTypeOK, TrafficTypeOK
  <2>. QED BY <1>1, <2>1, <2>2, QueueMoves
<1>5. LifeInv'
  BY DEF StackTypeOK, ControlTypeOK, TrafficTypeOK, ControlInv, LoopInv, LifeInv,
     NoLoop, CheckProxy, control, routing
<1>6. HandledByBestRoute'
  BY BestRouteStays DEF RouterLocked, ControlInv, LoopInv, NoLoop,
     CheckProxy, control, routing
<1>7. PacketsAccounted'
  BY AccountsStay DEF RouterLocked, ControlInv, LoopInv, NoLoop,
     CheckProxy, control, routing
<1>8. FirstLifeIsSafe'
  BY NoPanic DEF CheckProxy
<1>. QED BY <1>1, <1>2, <1>3, <1>4, <1>5, <1>6, <1>7, <1>8

LEMMA CheckDeviceStep ==
  ASSUME StackInv, crash = NoCrash, NEW g \in Goroutines, CheckDevice(g)
  PROVE  StackInv'
<1>1. StackTypeOK'
  <2>1. ControlTypeOK'
    BY DEF StackTypeOK, ControlTypeOK, Steps, CheckDevice, control
  <2>2. TrafficTypeOK'
    BY DEF StackTypeOK, TrafficTypeOK, CheckDevice, traffic, DevicePackets, NotWriting, NoLoop
  <2>3. RoutingTypeOK'
    BY DEF StackTypeOK, RoutingTypeOK, CheckDevice, routing
  <2>4. (dev \in [running : BOOLEAN, closed : BOOLEAN])'
    BY DEF StackTypeOK, CheckDevice
  <2>. QED BY <2>1, <2>2, <2>3, <2>4, CrashType DEF StackTypeOK, CheckDevice
<1>2. ControlInv'
  BY DEF StackTypeOK, ControlTypeOK, RoutingTypeOK, ControlInv, LoopInv, NoLoop,
     CheckDevice, control, routing
<1>3. LoopInv'
  <2>1. writers[g] # NotWriting /\ \A h \in Goroutines \ {g} : writers'[h] = writers[h]
    BY DEF CheckDevice, NotWriting, StackTypeOK, TrafficTypeOK
  <2>2. writers'["loop"] # NotWriting => writers["loop"] # NotWriting
    BY <2>1 DEF Goroutines
  <2>. QED BY <2>2, LoopStays DEF CheckDevice, control
<1>4. QueueInv'
  <2>1. writers[g] # NotWriting /\ put' = put
    BY DEF CheckDevice, NotWriting
  <2>2. \A h \in Goroutines \ {g} : writers'[h] = writers[h]
    BY DEF CheckDevice, StackTypeOK, TrafficTypeOK
  <2>. QED BY <1>1, <2>1, <2>2, QueueMoves
<1>5. LifeInv'
  BY DEF StackTypeOK, ControlTypeOK, TrafficTypeOK, ControlInv, LoopInv, LifeInv,
     NoLoop, CheckDevice, control, routing
<1>6. HandledByBestRoute'
  BY BestRouteStays DEF RouterLocked, ControlInv, LoopInv, NoLoop,
     CheckDevice, control, routing
<1>7. PacketsAccounted'
  BY AccountsStay DEF RouterLocked, ControlInv, LoopInv, NoLoop,
     CheckDevice, control, routing
<1>8. FirstLifeIsSafe'
  BY NoPanic DEF CheckDevice
<1>. QED BY <1>1, <1>2, <1>3, <1>4, <1>5, <1>6, <1>7, <1>8

\* The loop itself writes to a closed device only in a second life, after a Start
\* that was taken back.
LEMMA EnqueueStep ==
  ASSUME StackInv, crash = NoCrash, NEW g \in Goroutines, Enqueue(g)
  PROVE  StackInv'
<1>1. StackTypeOK'
  <2>1. ControlTypeOK'
    BY DEF StackTypeOK, ControlTypeOK, Steps, Enqueue, control
  <2>2. TrafficTypeOK'
    <3>1. writers' \in [Goroutines -> [pc : {"idle", "proxy", "device", "queue"}, pkt : DevicePackets]]
      BY DEF StackTypeOK, TrafficTypeOK, Enqueue, DevicePackets, NotWriting
    <3>2. CASE UNCHANGED <<queue, put>>
      BY <3>1, <3>2 DEF StackTypeOK, TrafficTypeOK, Enqueue
    <3>3. CASE /\ Len(queue) < QueueCap
               /\ queue' = Append(queue, writers[g].pkt) /\ put' = put + 1
      <4>1. writers[g].pkt \in DevicePackets /\ QueueCap \in Nat
        BY TunStackAssumption DEF TunStackAssumption, StackTypeOK, TrafficTypeOK
      <4>2. queue' \in Seq(DevicePackets) /\ Len(queue') <= QueueCap
        BY <3>3, <4>1 DEF StackTypeOK, TrafficTypeOK
      <4>. QED BY <3>1, <3>3, <4>2 DEF StackTypeOK, TrafficTypeOK, Enqueue
    <3>. QED BY <3>2, <3>3 DEF Enqueue
  <2>3. RoutingTypeOK'
    BY DEF StackTypeOK, RoutingTypeOK, Enqueue, routing
  <2>4. (dev \in [running : BOOLEAN, closed : BOOLEAN])'
    BY DEF StackTypeOK, Enqueue
  <2>5. UNCHANGED crash \/ Panic(g, "sendOnClosed")
    BY DEF Enqueue
  <2>. QED BY <2>1, <2>2, <2>3, <2>4, <2>5, CrashType DEF StackTypeOK, Goroutines
<1>2. ControlInv'
  BY DEF StackTypeOK, ControlTypeOK, RoutingTypeOK, ControlInv, LoopInv, NoLoop,
     Enqueue, control, routing
<1>3. LoopInv'
  <2>1. writers[g] # NotWriting /\ \A h \in Goroutines \ {g} : writers'[h] = writers[h]
    BY DEF Enqueue, NotWriting, StackTypeOK, TrafficTypeOK
  <2>2. writers'["loop"] # NotWriting => writers["loop"] # NotWriting
    BY <2>1 DEF Goroutines
  <2>. QED BY <2>2, LoopStays DEF Enqueue, control
<1>4. QueueInv'
  <2>1. writers[g] # NotWriting /\ writers'[g] = NotWriting
    BY DEF Enqueue, NotWriting, StackTypeOK, TrafficTypeOK
  <2>2. \A h \in Goroutines \ {g} : writers'[h] = writers[h]
    BY DEF Enqueue, StackTypeOK, TrafficTypeOK
  <2>3. put' = put \/ put' = put + 1
    BY DEF Enqueue
  <2>. QED BY <1>1, <2>1, <2>2, <2>3, QueueMoves
<1>5. LifeInv'
  BY DEF StackTypeOK, ControlTypeOK, TrafficTypeOK, ControlInv, LoopInv, LifeInv,
     NoLoop, Enqueue, control, routing
<1>6. HandledByBestRoute'
  BY BestRouteStays DEF RouterLocked, ControlInv, LoopInv, NoLoop,
     Enqueue, control, routing
<1>7. PacketsAccounted'
  BY AccountsStay DEF RouterLocked, ControlInv, LoopInv, NoLoop,
     Enqueue, control, routing
<1>8. FirstLifeIsSafe'
  <2>1. CASE UNCHANGED crash
    BY <2>1, NoPanic
  <2>2. CASE dev.closed /\ crash' = [who |-> g, why |-> "sendOnClosed"]
    <3>1. writers[g] # NotWriting /\ UNCHANGED <<starts, failed>>
      BY DEF Enqueue, NotWriting, control
    <3>2. g = "loop" => starts = 2 /\ failed
      BY <2>2, <3>1 DEF LoopInv, LifeInv, NoLoop, StackTypeOK, ControlTypeOK
    <3>3. crash'.who = g /\ crash'.why = "sendOnClosed"
      BY <2>2
    <3>. QED BY <3>1, <3>2, <3>3 DEF FirstLifeIsSafe
  <2>. QED BY <2>1, <2>2 DEF Enqueue, Panic
<1>. QED BY <1>1, <1>2, <1>3, <1>4, <1>5, <1>6, <1>7, <1>8

\* A call of the router's users waits for the lock, so no packet is in a
\* handler; it may take the proxy's interface away, but never puts the proxy
\* there.
LEMMA ChangeStep ==
  ASSUME StackInv, crash = NoCrash, \E r : Change(r),
         rtr' \in [running : BOOLEAN, routes : Seq(Accepted),
                   handlers : [Interfaces -> {"none", "proxy", "user"}]],
         rtr'.running = rtr.running,
         rtr'.handlers[Proxy] \in {rtr.handlers[Proxy], "user", "none"}
  PROVE  StackInv'
<1>1. /\ changes < MaxChanges /\ ~RouterLocked /\ changes' = changes + 1
      /\ UNCHANGED <<control, dev, traffic, stat, handed, crash>>
  BY DEF Change
<1>2. UNCHANGED <<config, added, running, stopClosed, ctl, starts, failed, queue, put, packetLoop, writers>>
  BY <1>1 DEF control, traffic
<1>3. StackTypeOK'
  <2>1. ControlTypeOK' /\ TrafficTypeOK'
    BY <1>2 DEF StackTypeOK, ControlTypeOK, TrafficTypeOK
  <2>2. RoutingTypeOK'
    BY <1>1, TunStackAssumption DEF StackTypeOK, RoutingTypeOK, TunStackAssumption
  <2>. QED BY <1>1, <2>1, <2>2 DEF StackTypeOK
<1>4. ControlInv'
  BY <1>1, <1>2 DEF ControlInv
<1>5. LoopInv'
  BY <1>2 DEF LoopInv
<1>6. QueueInv'
  BY <1>2, QueueStays
<1>7. LifeInv'
  BY <1>1, <1>2 DEF LifeInv
<1>8. HandledByBestRoute'
  BY <1>1, <1>2 DEF HandledByBestRoute, RouterLocked
<1>9. PacketsAccounted'
  BY <1>1, <1>2, AccountsStay DEF RouterLocked
<1>10. FirstLifeIsSafe'
  BY <1>1, NoPanic
<1>. QED BY <1>3, <1>4, <1>5, <1>6, <1>7, <1>8, <1>9, <1>10

LEMMA UserStep ==
  ASSUME StackInv, crash = NoCrash, User
  PROVE  StackInv'
<1>1. /\ rtr \in [running : BOOLEAN, routes : Seq(Accepted),
                  handlers : [Interfaces -> {"none", "proxy", "user"}]]
      /\ Proxy \in Interfaces
  BY DEF StackTypeOK, RoutingTypeOK, Interfaces
<1>2. ASSUME NEW r \in UserRoutes, r.net \in Networks,
             Change([rtr EXCEPT !.routes = AddRoute(rtr.routes, r)])
      PROVE  StackInv'
  <2>1. AddRoute(rtr.routes, r) \in Seq(Accepted)
    BY <1>1, <1>2, AddRouteType DEF Accepted, Routes
  <2>2. rtr' = [rtr EXCEPT !.routes = AddRoute(rtr.routes, r)]
    BY <1>2 DEF Change
  <2>. QED BY <1>1, <1>2, <2>1, <2>2, ChangeStep
<1>3. ASSUME NEW i \in DOMAIN rtr.routes, Change([rtr EXCEPT !.routes = RemoveAt(rtr.routes, i)])
      PROVE  StackInv'
  <2>1. RemoveAt(rtr.routes, i) \in Seq(Accepted)
    BY <1>1, RemoveAtType
  <2>2. rtr' = [rtr EXCEPT !.routes = RemoveAt(rtr.routes, i)]
    BY <1>3 DEF Change
  <2>. QED BY <1>1, <1>3, <2>1, <2>2, ChangeStep
<1>4. ASSUME NEW n \in Interfaces, NEW h \in {"user", "none"},
             Change([rtr EXCEPT !.handlers[n] = h])
      PROVE  StackInv'
  <2>1. rtr' = [rtr EXCEPT !.handlers[n] = h]
    BY <1>4 DEF Change
  <2>. QED BY <1>1, <1>4, <2>1, ChangeStep
<1>. QED BY <1>2, <1>3, <1>4 DEF User, UserAddRoute, UserRemoveRoute, UserRegister, UserUnregister

----------------------------------------------------------------------------
(* The theorems. *)

LEMMA InitStack ==
  ASSUME StackInit
  PROVE  StackInv
<1>1. StackTypeOK
  <2>1. ControlTypeOK
    <3>1. Len(config) \in Nat
      BY TunStackAssumption DEF TunStackAssumption, StackInit
    <3>2. config \in Configs /\ added \in 0..Len(config) /\ starts \in {0, 1, 2}
      BY <3>1 DEF StackInit
    <3>3. running \in BOOLEAN /\ stopClosed \in BOOLEAN /\ ctl \in Steps /\ failed \in BOOLEAN
      BY Zenon DEF StackInit, Steps
    <3>. QED BY <3>2, <3>3 DEF ControlTypeOK
  <2>2. TrafficTypeOK
    <3>1. NotWriting \in [pc : {"idle", "proxy", "device", "queue"}, pkt : DevicePackets]
      BY DEF NotWriting, DevicePackets
    <3>2. NoLoop \in [pc : {"none", "top", "read", "receive", "route", "send", "answered",
                            "stuck"}, pkt : DevicePackets]
      BY DEF NoLoop, DevicePackets
    <3>. QED BY <3>1, <3>2, TunStackAssumption DEF TunStackAssumption, StackInit, TrafficTypeOK
  <2>3. RoutingTypeOK
    <3>1. <<>> \in Seq(Accepted)
      OBVIOUS
    <3>2. NewStats \in [processed : Nat, routed : Nat, dropped : Nat, errors : Nat]
      BY DEF NewStats
    <3>3. rtr \in [running : BOOLEAN, routes : Seq(Accepted),
                   handlers : [Interfaces -> {"none", "proxy", "user"}]]
      BY <3>1 DEF StackInit
    <3>. QED BY <3>2, <3>3, TunStackAssumption DEF TunStackAssumption, StackInit, RoutingTypeOK
  <2>4. dev \in [running : BOOLEAN, closed : BOOLEAN]
    BY DEF StackInit
  <2>5. crash \in [who : Goroutines \cup {"control", "nobody"},
                   why : {"none", "closedTwice", "nilPacket", "sendOnClosed"}]
    BY DEF StackInit, NoCrash
  <2>. QED BY <2>1, <2>2, <2>3, <2>4, <2>5 DEF StackTypeOK
<1>2. ControlInv
  BY DEF StackInit, ControlInv, Interfaces
<1>3. LoopInv
  BY DEF StackInit, LoopInv, NoLoop, Goroutines
<1>4. QueueInv
  BY TunStackAssumption DEF TunStackAssumption, StackInit, QueueInv, Busy, Goroutines
<1>5. LifeInv
  BY DEF StackInit, LifeInv, NoLoop
<1>6. HandledByBestRoute /\ PacketsAccounted
  BY DEF StackInit, HandledByBestRoute, PacketsAccounted, RouterLocked, NoLoop, NewStats
<1>7. FirstLifeIsSafe
  BY DEF StackInit, FirstLifeIsSafe, NoCrash
<1>. QED BY <1>1, <1>2, <1>3, <1>4, <1>5, <1>6, <1>7

LEMMA NextStack ==
  ASSUME StackInv, [StackNext]_stackVars
  PROVE  StackInv'
<1>1. CASE UNCHANGED stackVars
  <2>1. /\ UNCHANGED <<config, added, running, stopClosed, ctl, starts, failed>>
        /\ UNCHANGED <<dev, queue, put, packetLoop, writers, rtr, stat, handed, changes, crash>>
    BY <1>1 DEF stackVars, control, traffic, routing
  <2>2. StackTypeOK'
    BY <2>1 DEF StackTypeOK, ControlTypeOK, TrafficTypeOK, RoutingTypeOK
  <2>3. ControlInv' /\ LoopInv' /\ QueueInv' /\ LifeInv'
    BY <2>1, QueueStays DEF ControlInv, LoopInv, LifeInv
  <2>4. HandledByBestRoute' /\ PacketsAccounted'
    BY <2>1, BestRouteStays, AccountsStay DEF RouterLocked
  <2>5. FirstLifeIsSafe'
    BY <2>1 DEF FirstLifeIsSafe
  <2>. QED BY <2>2, <2>3, <2>4, <2>5
<1>2. CASE StackNext
  <2>1. crash = NoCrash
    BY <1>2 DEF StackNext
  <2>2. CASE Control
    BY <2>1, <2>2, StartStep, StartRouterStep, RegisterProxyStep, AddConfigRouteStep,
       StartLoopStep, StopStep, WaitForLoopStep, UnregisterProxyStep, StopRouterStep,
       StopDeviceStep DEF Control
  <2>3. CASE Loop
    BY <2>1, <2>3, LoopTopStep, ReadPacketStep, ReceivePacketStep, DeviceStoppedStep,
       ReceiveNilStep, RoutePacketStep, HandlerReturnsStep DEF Loop
  <2>4. CASE Answer
    BY <2>1, <2>4, AnswerStep
  <2>5. CASE User
    BY <2>1, <2>5, UserStep
  <2>6. CASE \E g \in Goroutines : BeginWrite(g) \/ Write(g)
    BY <2>1, <2>6, BeginWriteStep, CheckProxyStep, CheckDeviceStep, EnqueueStep DEF Write
  <2>7. CASE HandlerHangs
    BY <2>1, <2>7, HandlerHangsStep
  <2>. QED BY <1>2, <2>2, <2>3, <2>4, <2>5, <2>6, <2>7 DEF StackNext
<1>. QED BY <1>1, <1>2

LEMMA StackInvAlways == StackSpec => []StackInv
<1>1. StackInit => StackInv
  BY InitStack
<1>2. StackInv /\ [StackNext]_stackVars => StackInv'
  BY NextStack
<1>. QED BY <1>1, <1>2, PTL DEF StackSpec

\* Start and Stop are done as a whole or not at all, but for the routes a failed
\* Start has added, however the users of the router interfere.  (Start, Stop)
THEOREM StartAndStopAreWhole == StackSpec => []AllOrNothing
<1>1. StackInv => AllOrNothing
  BY DEF AllOrNothing, ControlInv, LoopInv, StackTypeOK, ControlTypeOK, RoutingTypeOK
<1>. QED BY <1>1, StackInvAlways, PTL

\* While a packet is in a handler its route is the most specific enabled one of
\* the table, and the statistics account for every packet once.
\* (RoutePacket and its lock)
THEOREM PacketsGoWhereTheTableSays == StackSpec => []PacketsRouted
<1>1. StackInv => PacketsRouted
  BY DEF PacketsRouted
<1>. QED BY <1>1, StackInvAlways, PTL

\* The panics of a first life: none in the loop or in Stop.  (Stop waits for
\* the loop before it stops the device)
THEOREM OneLifeIsSafe == StackSpec => []FirstLifeIsSafe
<1>1. StackInv => FirstLifeIsSafe
  OBVIOUS
<1>. QED BY <1>1, StackInvAlways, PTL

\* After Stop has returned no packet is handed to an interface any more, not
\* even by a proxy that is started again.  (packetLoop and the closed stopChan)
THEOREM StoppedForGood == StackSpec => StopIsFinal
<1>1. StackInv /\ [StackNext]_stackVars => [stopClosed /\ ctl # "wait" => handed' <= handed]_stackVars
  <2>1. SUFFICES ASSUME StackInv, StackNext, stopClosed, ctl # "wait"
                 PROVE  handed' <= handed
    BY DEF stackVars
  <2>2. packetLoop.pc \in {"none", "top"} /\ handed \in Nat
    BY <2>1 DEF LifeInv, StackTypeOK, RoutingTypeOK
  <2>3. handed' \in {handed, 0}
    BY <2>1, <2>2 DEF StackNext, Control, Start, StartRouter, RegisterProxy, AddConfigRoute, StartLoop,
       Stop, WaitForLoop, UnregisterProxy, StopRouter, StopDevice, Loop, LoopTop, ReadPacket,
       ReceivePacket, DeviceStopped, ReceiveNil, RoutePacket, HandlerReturns,
       HandlerHangs, Answer, User,
       UserAddRoute, UserRemoveRoute, UserRegister, UserUnregister, Change, BeginWrite, Write,
       CheckProxy, CheckDevice, Enqueue, routing
  <2>. QED BY <2>2, <2>3
<1>. QED BY <1>1, StackInvAlways, PTL DEF StackSpec, StopIsFinal

----------------------------------------------------------------------------
(***************************************************************************)
(* The connections of TunProxy.                                            *)
(***************************************************************************)

USE TunAssumption

\* A sequence number moved on is a sequence number.
LEMMA PlusType ==
  ASSUME NEW a \in 0..(Modulus - 1), NEW n \in Nat
  PROVE  Plus(a, n) \in 0..(Modulus - 1)
BY DEF Plus

\* Taking a packet keeps the TUN device's packets and its capacity.
LEMMA TakeType ==
  ASSUME LoopTypeOK, NEW type, Take(type)
  PROVE  /\ PacketKey \in Keys /\ Head(inbox).ack \in 0..(Modulus - 1)
         /\ inbox' \in Seq(Packets) /\ Len(inbox') <= InCap
         /\ loop = Idle
<1>1. /\ inbox \in Seq(Packets) /\ inbox # <<>> /\ inbox' = Tail(inbox)
      /\ Len(inbox) <= InCap /\ loop = Idle
  BY DEF LoopTypeOK, Take, LockFree
<1>2. /\ Head(inbox) \in Packets /\ Tail(inbox) \in Seq(Packets)
      /\ Len(Tail(inbox)) = Len(inbox) - 1
  BY <1>1, HeadTailProperties
<1>3. Len(inbox) \in Nat
  BY <1>1, LenProperties
<1>. QED
  BY <1>1, <1>2, <1>3 DEF Packets, PacketKey

\* So does a client that sends one.
LEMMA SendsType ==
  ASSUME LoopTypeOK, ClientTypeOK, NEW k \in Keys,
         NEW type \in {"syn", "ack", "data", "fin", "rst"}, Sends(k, type)
  PROVE  LoopTypeOK'
<1>1. Packet(k, type, expects[k]) \in Packets
  BY DEF ClientTypeOK, Packet, Packets
<1>2. /\ inbox \in Seq(Packets) /\ Len(inbox) < InCap
      /\ inbox' = Append(inbox, Packet(k, type, expects[k]))
  BY DEF LoopTypeOK, Sends
<1>3. inbox' \in Seq(Packets) /\ Len(inbox') = Len(inbox) + 1
  BY <1>1, <1>2, AppendProperties
<1>. QED
  BY <1>2, <1>3, LenProperties DEF LoopTypeOK, Sends

\* What a client hears keeps the types of the clients.
LEMMA HearsType ==
  ASSUME ClientTypeOK, NEW k \in Keys, NEW seq \in 0..(Modulus - 1),
         Hears(k, seq)
  PROVE  ClientTypeOK'
<1>1. Plus(seq, 1) \in 0..(Modulus - 1)
  BY PlusType
<1>2. /\ client' = client
      /\ expects' = expects \/ expects' = [expects EXCEPT ![k] = Plus(seq, 1)]
      /\ owes' = owes \/ owes' = owes \cup {k}
  BY DEF Hears, clientVars
<1>. QED
  BY <1>1, <1>2 DEF ClientTypeOK

------------------------------------------------------------------------------
\* The initial state has the types.
LEMMA InitType == Init => TypeOK
<1>. SUFFICES ASSUME Init PROVE TypeOK
  OBVIOUS
<1>. USE DEF Init
<1>1. LoopTypeOK
  BY DEF LoopTypeOK, Loops
<1>2. ConnTypeOK
  <2>. DEFINE any == CHOOSE k \in Keys : TRUE
  <2>1. \E k \in Keys : TRUE
    BY DEF TunAssumption
  <2>2. any \in Keys
    BY <2>1
  <2>3. key = [c \in Conns |-> any]
    OBVIOUS
  <2>. HIDE DEF any
  <2>4. key \in [Conns -> Keys]
    BY <2>2, <2>3
  <2>5. /\ connections = [k \in Keys |-> NoConn] /\ closed = {}
        /\ state = [c \in Conns |-> "none"]
        /\ serverSeq = [c \in Conns |-> 0]
    OBVIOUS
  <2>. HIDE DEF Init
  <2>. QED
    BY <2>4, <2>5 DEF ConnTypeOK
<1>3. ThreadTypeOK
  BY DEF ThreadTypeOK, Conns
<1>4. ServerTypeOK /\ ClientTypeOK /\ CountTypeOK
  BY DEF ServerTypeOK, ClientTypeOK, CountTypeOK
<1>. QED
  BY <1>1, <1>2, <1>3, <1>4 DEF TypeOK

------------------------------------------------------------------------------
\* The parts of the type invariant are about different variables.
LEMMA UnchangedTypes ==
  /\ LoopTypeOK /\ UNCHANGED <<inbox, loop>> => LoopTypeOK'
  /\ ConnTypeOK /\ UNCHANGED <<connections, key, state, closed, serverSeq>>
       => ConnTypeOK'
  /\ ThreadTypeOK /\ UNCHANGED <<made, forwarder, finTimer>> => ThreadTypeOK'
  /\ ServerTypeOK /\ UNCHANGED serverVars => ServerTypeOK'
  /\ ClientTypeOK /\ UNCHANGED clientVars => ClientTypeOK'
  /\ CountTypeOK /\ UNCHANGED <<syns, ups, forwarded, finSent>> => CountTypeOK'
BY DEF LoopTypeOK, ConnTypeOK, ThreadTypeOK, ServerTypeOK, ClientTypeOK,
       CountTypeOK, serverVars, clientVars

\* The connection of a packet is a connection.
LEMMA ConnOfPacket ==
  ASSUME LoopTypeOK, ConnTypeOK, NEW type, Take(type), Exists
  PROVE  PacketConn \in Conns
BY TakeType DEF ConnTypeOK, PacketConn, Exists

\* packetLoop keeps the types when it takes a packet.
LEMMA TakesType == TypeOK /\ SendPacket => TypeOK'
<1>. SUFFICES ASSUME TypeOK, SendPacket PROVE TypeOK'
  OBVIOUS
<1>. USE DEF connVars, threadVars, serverVars, clientVars, countVars, histVars
<1>1. CASE HandleSYN
  BY <1>1, TakeType, UnchangedTypes DEF TypeOK, HandleSYN, LoopTypeOK, Loops
<1>2. CASE HandleACK
  <2>1. PacketConn \in Conns /\ Head(inbox).ack \in 0..(Modulus - 1)
    BY <1>2, TakeType, ConnOfPacket DEF TypeOK, HandleACK
  <2>2. LoopTypeOK'
    BY <1>2, TakeType DEF TypeOK, HandleACK, LoopTypeOK
  <2>3. ConnTypeOK'
    BY <1>2, <2>1 DEF TypeOK, HandleACK, ConnTypeOK, Acknowledge
  <2>. QED
    BY <1>2, <2>2, <2>3, UnchangedTypes DEF TypeOK, HandleACK
<1>3. CASE HandleRST
  <2>1. PacketConn \in Conns
    BY <1>3, ConnOfPacket DEF TypeOK, HandleRST
  <2>2. LoopTypeOK' /\ ConnTypeOK'
    BY <1>3, <2>1, TakeType
    DEF TypeOK, HandleRST, CloseAndRelock, Stuck, LoopTypeOK, Loops, ConnTypeOK
  <2>. QED
    BY <1>3, <2>2, UnchangedTypes DEF TypeOK, HandleRST
<1>4. CASE HandleFIN
  <2>1. PacketConn \in Conns
    BY <1>4, ConnOfPacket DEF TypeOK, HandleFIN
  <2>2. LoopTypeOK' /\ ConnTypeOK' /\ ThreadTypeOK'
    BY <1>4, <2>1, TakeType
    DEF TypeOK, HandleFIN, LoopTypeOK, ConnTypeOK, ThreadTypeOK
  <2>. QED
    BY <1>4, <2>2, UnchangedTypes DEF TypeOK, HandleFIN
<1>5. CASE HandleLateFIN
  <2>1. PacketConn \in Conns
    BY <1>5, ConnOfPacket DEF TypeOK, HandleLateFIN
  <2>2. LoopTypeOK' /\ ConnTypeOK'
    <3>1. /\ inbox' \in Seq(Packets) /\ Len(inbox') <= InCap
          /\ UNCHANGED <<connections, key, serverSeq>>
      BY <1>5, TakeType DEF TypeOK, HandleLateFIN
    <3>2. CASE CloseAndRelock(PacketConn)
      BY <2>1, <3>1, <3>2
      DEF TypeOK, CloseAndRelock, Stuck, LoopTypeOK, Loops, ConnTypeOK
    <3>3. CASE UNCHANGED <<state, closed, loop>>
      BY <3>1, <3>3 DEF TypeOK, LoopTypeOK, ConnTypeOK
    <3>. QED
      BY <1>5, <3>2, <3>3 DEF HandleLateFIN
  <2>. QED
    BY <1>5, <2>2, UnchangedTypes DEF TypeOK, HandleLateFIN
<1>6. CASE HandleData
  BY <1>6, TakeType, UnchangedTypes DEF TypeOK, HandleData, LoopTypeOK, Loops
<1>7. CASE IgnorePacket
  BY <1>7, TakeType, UnchangedTypes DEF TypeOK, IgnorePacket, LoopTypeOK
<1>. QED
  BY <1>1, <1>2, <1>3, <1>4, <1>5, <1>6, <1>7 DEF SendPacket

\* And when it goes on under the lock.
LEMMA LoopType == TypeOK /\ PacketLoop => TypeOK'
<1>. SUFFICES ASSUME TypeOK, PacketLoop PROVE TypeOK'
  OBVIOUS
<1>. USE DEF connVars, threadVars, serverVars, clientVars, countVars, histVars
<1>0. loop # Idle => loop.key \in Keys
  BY DEF TypeOK, LoopTypeOK, Loops
<1>1. CASE SendPacket
  BY <1>1, TakesType
<1>2. CASE DialDone
  <2>1. loop.key \in Keys /\ made + 1 \in Conns /\ loop.pc = "dial"
    BY <1>0, <1>2 DEF TypeOK, ThreadTypeOK, DialDone, Idle, Conns
  <2>2. Isn[made + 1] \in 0..(Modulus - 1)
    BY <2>1
  <2>3. Plus(Isn[made + 1], 1) \in 0..(Modulus - 1)
    BY <2>2, PlusType
  <2>4. LoopTypeOK'
    BY <1>2 DEF TypeOK, DialDone, LoopTypeOK, Loops
  <2>5. ConnTypeOK'
    BY <1>2, <2>1, <2>3 DEF TypeOK, DialDone, ConnTypeOK
  <2>6. ThreadTypeOK'
    <3>1. made' \in 0..MaxConns
      BY <1>2, <2>1 DEF DialDone, Conns
    <3>2. forwarder' \in [Conns -> {"none", "read", "deliver", "leave", "done"}]
      BY <1>2, <2>1 DEF TypeOK, DialDone, ThreadTypeOK
    <3>3. \A d \in Conns : forwarder'[d] = "none" <=> d > made'
      <4>. TAKE d \in Conns
      <4>1. d \in Nat /\ made \in Nat
        BY DEF TypeOK, ThreadTypeOK, Conns
      <4>2. forwarder[d] = "none" <=> d > made
        BY DEF TypeOK, ThreadTypeOK
      <4>3. forwarder'[d] = IF d = made + 1 THEN "read" ELSE forwarder[d]
        BY <1>2 DEF TypeOK, DialDone, ThreadTypeOK
      <4>. QED
        BY <1>2, <4>1, <4>2, <4>3 DEF DialDone
    <3>. QED
      BY <1>2, <3>1, <3>2, <3>3 DEF TypeOK, DialDone, ThreadTypeOK
  <2>7. ClientTypeOK'
    BY <1>2, <2>1, <2>3 DEF TypeOK, DialDone, ClientTypeOK
  <2>. QED
    BY <1>2, <2>4, <2>5, <2>6, <2>7, UnchangedTypes DEF TypeOK, DialDone
<1>3. CASE DialFails
  BY <1>0, <1>3, UnchangedTypes
  DEF TypeOK, DialFails, Stuck, LoopTypeOK, Loops, Idle
<1>4. CASE WriteDone
  <2>1. toServer' \in [Conns -> 0..ConnBuf]
    <3>. DEFINE c == connections[loop.key]
    <3>1. /\ toServer' = [toServer EXCEPT ![c] = toServer[c] + 1]
          /\ toServer[c] < ConnBuf /\ toServer \in [Conns -> 0..ConnBuf]
      BY <1>4 DEF TypeOK, WriteDone, ServerTypeOK
    <3>. HIDE DEF c
    <3>2. c \in Conns => toServer[c] + 1 \in 0..ConnBuf
      BY <3>1
    <3>. QED
      BY <3>1, <3>2
  <2>3. ServerTypeOK'
    BY <1>4, <2>1 DEF TypeOK, WriteDone, ServerTypeOK
  <2>2. LoopTypeOK'
    BY <1>4 DEF TypeOK, WriteDone, LoopTypeOK, Loops
  <2>. QED
    BY <1>4, <2>2, <2>3, UnchangedTypes DEF TypeOK, WriteDone
<1>5. CASE WriteFails
  BY <1>0, <1>5, UnchangedTypes
  DEF TypeOK, WriteFails, Stuck, LoopTypeOK, Loops, Idle
<1>. QED
  BY <1>1, <1>2, <1>3, <1>4, <1>5 DEF PacketLoop

\* So do the goroutines of a connection and its server.
LEMMA ConnType ==
  ASSUME TypeOK, NEW c \in Conns,
         ForwardConnection(c) \/ FinTimer(c) \/ Server(c)
  PROVE  TypeOK'
<1>. USE DEF connVars, threadVars, serverVars, countVars, histVars
<1>0. /\ key[c] \in Keys /\ serverSeq[c] \in 0..(Modulus - 1)
      /\ Plus(serverSeq[c], 1) \in 0..(Modulus - 1)
  BY PlusType DEF TypeOK, ConnTypeOK
<1>1. CASE ForwardRead(c)
  BY <1>1, UnchangedTypes
  DEF TypeOK, ForwardRead, ThreadTypeOK, ServerTypeOK
<1>2. CASE ForwardDeliver(c)
  <2>1. ClientTypeOK'
    BY <1>0, <1>2, HearsType, UnchangedTypes DEF TypeOK, ForwardDeliver, TunFails
  <2>2. ConnTypeOK' /\ ThreadTypeOK' /\ CountTypeOK'
    BY <1>0, <1>2
    DEF TypeOK, ForwardDeliver, ConnTypeOK, ThreadTypeOK, CountTypeOK
  <2>. QED
    BY <1>2, <2>1, <2>2, UnchangedTypes DEF TypeOK, ForwardDeliver
<1>3. CASE ForwardEnd(c)
  BY <1>3, UnchangedTypes DEF TypeOK, ForwardEnd, ThreadTypeOK
<1>4. CASE ForwardLeave(c)
  BY <1>0, <1>4, UnchangedTypes DEF TypeOK, ForwardLeave, ConnTypeOK, ThreadTypeOK
<1>5. CASE FinTimer(c)
  <2>1. ClientTypeOK'
    BY <1>0, <1>5, HearsType, UnchangedTypes DEF TypeOK, FinTimer
  <2>2. ConnTypeOK' /\ ThreadTypeOK' /\ CountTypeOK'
    BY <1>0, <1>5 DEF TypeOK, FinTimer, ConnTypeOK, ThreadTypeOK, CountTypeOK
  <2>. QED
    BY <1>5, <2>1, <2>2, UnchangedTypes DEF TypeOK, FinTimer
<1>6. CASE ServerReads(c)
  BY <1>6, UnchangedTypes DEF TypeOK, ServerReads, ServerTypeOK
<1>7. CASE ServerSends(c)
  BY <1>7, UnchangedTypes DEF TypeOK, ServerSends, ServerTypeOK
<1>8. CASE ServerCloses(c)
  BY <1>8, UnchangedTypes DEF TypeOK, ServerCloses, ServerTypeOK
<1>. QED
  BY <1>1, <1>2, <1>3, <1>4, <1>5, <1>6, <1>7, <1>8
  DEF ForwardConnection, Server

\* And the clients.
LEMMA ClientType == ASSUME TypeOK, NEW k \in Keys, Client(k) PROVE TypeOK'
<1>1. PICK type \in {"syn", "ack", "data", "fin", "rst"} : Sends(k, type)
  BY DEF Client, ClientSyn, ClientAck, ClientData, ClientFin, ClientRst
<1>2. LoopTypeOK' /\ expects' = expects
  BY <1>1, SendsType DEF TypeOK, Sends
<1>3. ConnTypeOK' /\ ThreadTypeOK' /\ ServerTypeOK'
  BY <1>1, UnchangedTypes
  DEF TypeOK, Sends, connVars, threadVars
<1>4. ClientTypeOK'
  BY <1>2
  DEF TypeOK, ClientTypeOK, Client, ClientSyn, ClientAck, ClientData, ClientFin,
      ClientRst
<1>5. CountTypeOK'
  BY <1>1
  DEF TypeOK, CountTypeOK, Client, ClientSyn, ClientAck, ClientData, ClientFin,
      ClientRst, Sends, countVars, histVars
<1>. QED
  BY <1>2, <1>3, <1>4, <1>5 DEF TypeOK

\* Every step keeps the types.
LEMMA NextType == TypeOK /\ [Next]_vars => TypeOK'
<1>. SUFFICES ASSUME TypeOK, [Next]_vars PROVE TypeOK'
  OBVIOUS
<1>1. CASE UNCHANGED vars
  BY <1>1, UnchangedTypes
  DEF TypeOK, vars, connVars, threadVars, countVars, histVars
<1>2. CASE Next
  BY <1>2, LoopType, ConnType, ClientType DEF Next
<1>. QED
  BY <1>1, <1>2

\* The types of the proxy: sequence numbers stay within uint32, buffers within
\* their capacity, and exactly the connections that were made have a forwarder.
THEOREM TypeCorrect == Spec => []TypeOK
BY InitType, NextType, PTL DEF Spec

------------------------------------------------------------------------------
\* LiveIsTracked is not inductive: a connection made for a four-tuple must not
\* take the place of a live one, so the table must be known to be empty where
\* packetLoop dials; and an entry deleted for one connection must not be the
\* entry of another, so the table must name each connection under its own key.
TableTrue ==
  \A k \in Keys :
    connections[k] # NoConn => connections[k] <= made /\ key[connections[k]] = k

DialIsFree == loop.pc = "dial" => connections[loop.key] = NoConn

Tracking == TableTrue /\ DialIsFree /\ LiveIsTracked

\* A step of packetLoop that closes connections at most, and dials for nobody
\* new, keeps the table true.
LEMMA QuietTracking ==
  ASSUME TypeOK, Tracking, UNCHANGED <<connections, made, key, forwarder>>,
         closed \subseteq closed',
         loop'.pc = "dial" => connections[loop'.key] = NoConn
  PROVE  Tracking'
BY DEF Tracking, TableTrue, DialIsFree, LiveIsTracked

\* packetLoop keeps the tracking.
LEMMA LoopTracking == TypeOK /\ Tracking /\ PacketLoop => Tracking'
<1>. SUFFICES ASSUME TypeOK, Tracking, PacketLoop PROVE Tracking'
  OBVIOUS
<1>. USE DEF connVars, threadVars, serverVars, clientVars, countVars, histVars
<1>1. CASE HandleSYN
  BY <1>1, QuietTracking DEF HandleSYN, Exists, PacketConn, Idle
<1>2. CASE HandleACK
  BY <1>2, QuietTracking DEF HandleACK, Take, LockFree, Idle
<1>3. CASE HandleRST
  BY <1>3, QuietTracking DEF HandleRST, CloseAndRelock, Stuck
<1>4. CASE HandleFIN
  BY <1>4, QuietTracking DEF HandleFIN, Take, LockFree, Idle
<1>5. CASE HandleLateFIN
  <2>1. loop'.pc # "dial" /\ closed \subseteq closed'
    BY <1>5 DEF HandleLateFIN, CloseAndRelock, Stuck, Take, LockFree, Idle
  <2>. QED
    BY <1>5, <2>1, QuietTracking DEF HandleLateFIN
<1>6. CASE HandleData
  BY <1>6, QuietTracking DEF HandleData
<1>7. CASE IgnorePacket
  BY <1>7, QuietTracking DEF IgnorePacket, Take, LockFree, Idle
<1>8. CASE DialDone
  <2>. DEFINE c == made + 1  k == loop.key
  <2>1. /\ k \in Keys /\ c \in Conns /\ c # NoConn /\ made \in Nat
        /\ connections[k] = NoConn
    BY <1>8
    DEF TypeOK, LoopTypeOK, ThreadTypeOK, Loops, DialDone, Idle, Conns, NoConn,
        Tracking, DialIsFree
  <2>2. /\ connections' = [connections EXCEPT ![k] = c] /\ made' = c
        /\ key' = [key EXCEPT ![c] = k] /\ closed' = closed
        /\ forwarder' = [forwarder EXCEPT ![c] = "read"] /\ loop' = Idle
    BY <1>8 DEF DialDone
  <2>3. \A j \in Keys : connections[j] \in Conns \cup {NoConn}
    BY DEF TypeOK, ConnTypeOK
  <2>. HIDE DEF c, k
  <2>4. TableTrue'
    <3>. SUFFICES ASSUME NEW j \in Keys, connections'[j] # NoConn
                  PROVE  connections'[j] <= made' /\ key'[connections'[j]] = j
      BY DEF TableTrue
    <3>1. CASE j = k
      BY <2>1, <2>2, <3>1 DEF TypeOK, ConnTypeOK, Conns
    <3>2. CASE j # k
      <4>1. connections'[j] = connections[j]
        BY <2>2, <3>2 DEF TypeOK, ConnTypeOK
      <4>2. connections[j] <= made /\ key[connections[j]] = j
        BY <4>1 DEF Tracking, TableTrue
      <4>3. connections[j] \in Nat /\ connections[j] # c /\ connections[j] <= c
        BY <2>1, <2>3, <4>2 DEF c, Conns, NoConn
      <4>. QED
        BY <2>2, <4>1, <4>2, <4>3 DEF TypeOK, ConnTypeOK
    <3>. QED
      BY <3>1, <3>2
  <2>5. DialIsFree'
    BY <2>2 DEF DialIsFree, Idle
  <2>6. LiveIsTracked'
    <3>. SUFFICES ASSUME NEW d \in Conns, d \notin closed',
                         forwarder'[d] \in {"read", "deliver", "leave"}
                  PROVE  connections'[key'[d]] = d
      BY DEF LiveIsTracked
    <3>1. CASE d = c
      BY <2>1, <2>2, <3>1 DEF TypeOK, ConnTypeOK
    <3>2. CASE d # c
      <4>1. connections[key[d]] = d /\ key[d] \in Keys /\ key'[d] = key[d]
        BY <2>2, <3>2
        DEF TypeOK, ConnTypeOK, ThreadTypeOK, Tracking, LiveIsTracked
      <4>2. d # NoConn
        BY DEF Conns, NoConn
      <4>. QED
        BY <2>1, <2>2, <4>1, <4>2 DEF TypeOK, ConnTypeOK
    <3>. QED
      BY <3>1, <3>2
  <2>. QED
    BY <2>4, <2>5, <2>6 DEF Tracking
<1>9. CASE DialFails
  BY <1>9, QuietTracking DEF DialFails, Stuck
<1>10. CASE WriteDone
  BY <1>10, QuietTracking DEF WriteDone, Idle
<1>11. CASE WriteFails
  BY <1>11, QuietTracking DEF WriteFails, Stuck
<1>. QED
  BY <1>1, <1>2, <1>3, <1>4, <1>5, <1>6, <1>7, <1>8, <1>9, <1>10, <1>11
  DEF PacketLoop, SendPacket

\* So do the goroutines of a connection, its server and the clients.
LEMMA ConnTracking ==
  ASSUME TypeOK, Tracking, NEW c \in Conns,
         ForwardConnection(c) \/ FinTimer(c) \/ Server(c)
  PROVE  Tracking'
<1>. USE DEF connVars, threadVars, serverVars, countVars, histVars
<1>1. ASSUME UNCHANGED <<loop, connections, made, key, closed>>,
             \A d \in Conns : \/ forwarder'[d] = forwarder[d]
                              \/ forwarder[d] \in {"read", "deliver"}
      PROVE  Tracking'
  BY <1>1 DEF Tracking, TableTrue, DialIsFree, LiveIsTracked
<1>2. CASE ForwardRead(c)
  BY <1>1, <1>2 DEF TypeOK, ThreadTypeOK, ForwardRead
<1>3. CASE ForwardDeliver(c)
  BY <1>1, <1>3 DEF TypeOK, ThreadTypeOK, ForwardDeliver
<1>4. CASE ForwardEnd(c)
  BY <1>1, <1>4 DEF TypeOK, ThreadTypeOK, ForwardEnd
<1>5. CASE ForwardLeave(c)
  <2>1. /\ forwarder[c] = "leave" /\ forwarder' = [forwarder EXCEPT ![c] = "done"]
        /\ connections' = IF c \in closed THEN connections
                          ELSE [connections EXCEPT ![key[c]] = NoConn]
        /\ closed' = closed \cup {c} /\ loop = Idle
        /\ UNCHANGED <<loop, made, key>>
    BY <1>5 DEF ForwardLeave, LockFree
  <2>2. TableTrue'
    BY <2>1 DEF TypeOK, ConnTypeOK, Tracking, TableTrue
  <2>3. DialIsFree'
    BY <2>1 DEF DialIsFree, Idle
  <2>4. LiveIsTracked'
    <3>. SUFFICES ASSUME NEW d \in Conns, d \notin closed',
                         forwarder'[d] \in {"read", "deliver", "leave"}
                  PROVE  connections'[key[d]] = d
      BY <2>1 DEF LiveIsTracked
    <3>1. d # c /\ d \notin closed /\ forwarder'[d] = forwarder[d]
      BY <2>1 DEF TypeOK, ThreadTypeOK
    <3>2. connections[key[d]] = d
      BY <3>1 DEF Tracking, LiveIsTracked
    <3>3. c \notin closed => connections[key[c]] = c
      BY <2>1 DEF Tracking, LiveIsTracked
    <3>. QED
      BY <2>1, <3>1, <3>2, <3>3 DEF TypeOK, ConnTypeOK
  <2>. QED
    BY <2>2, <2>3, <2>4 DEF Tracking
<1>6. CASE FinTimer(c) \/ Server(c)
  BY <1>1, <1>6 DEF FinTimer, Server, ServerReads, ServerSends, ServerCloses
<1>. QED
  BY <1>2, <1>3, <1>4, <1>5, <1>6 DEF ForwardConnection

\* Every step keeps the tracking.
LEMMA NextTracking == TypeOK /\ Tracking /\ [Next]_vars => Tracking'
<1>. SUFFICES ASSUME TypeOK, Tracking, [Next]_vars PROVE Tracking'
  OBVIOUS
<1>. USE DEF connVars, threadVars
<1>1. CASE UNCHANGED vars
  BY <1>1 DEF vars, Tracking, TableTrue, DialIsFree, LiveIsTracked
<1>2. ASSUME NEW k \in Keys, Client(k) PROVE Tracking'
  BY <1>2
  DEF Client, ClientSyn, ClientAck, ClientData, ClientFin, ClientRst, Sends,
      Tracking, TableTrue, DialIsFree, LiveIsTracked
<1>. QED
  BY <1>1, <1>2, LoopTracking, ConnTracking DEF Next

\* The tracking holds always.
LEMMA TrackingCorrect == Spec => []Tracking
<1>1. Init => Tracking
  <2>1. Init => /\ connections = [k \in Keys |-> NoConn] /\ loop = Idle
                /\ forwarder = [c \in Conns |-> "none"]
    BY DEF Init
  <2>. QED
    BY <2>1 DEF Tracking, TableTrue, DialIsFree, LiveIsTracked, Idle
<1>. QED
  BY <1>1, TypeCorrect, NextTracking, PTL DEF Spec

\* A connection that is forwarded and not closed is the one its four-tuple
\* leads to, so that the packets of its client find it.
THEOREM LiveConnectionsAreTracked == Spec => []LiveIsTracked
BY TrackingCorrect, PTL DEF Tracking

------------------------------------------------------------------------------
(***************************************************************************)
(* SeqMatchesSent says nothing of the acknowledgements that HandleACK lets *)
(* move ServerSeq.  The invariant says what they can be: between two       *)
(* resets a client speaks of one connection only, as far as that has sent, *)
(* and it is the established one until the client resets that.             *)
(***************************************************************************)

\* What connection c has sent to its client.
SentOn(c) == forwarded[c] + (IF c \in finSent THEN 1 ELSE 0)

\* The numbers with which a client acknowledges what connection c has sent: the
\* SYN-ACK, the bytes of the server and one FIN.
Sent(c) == (Isn[c] + 1)..(Isn[c] + 1 + SentOn(c))

\* So far, acknowledgements can be told apart: no connection has reached the
\* wrap, and no two connections of a four-tuple have used the same number.  The
\* ISN is the low half of a clock that counts nanoseconds
\* (proxy_interface.go:584) and wraps every four seconds, so this ends some day;
\* HandleACK compares numbers without regard to it, and may then take an old
\* acknowledgement for a new one.
NumbersApart ==
  /\ \A c \in 1..made : Isn[c] + 1 + SentOn(c) < Modulus
  /\ \A c, d \in 1..made :
       c # d /\ key[c] = key[d] => Sent(c) \cap Sent(d) = {}

\* A connection counts what it has sent, and at most one FIN.
CountsTrue(c) ==
  /\ c \in finTimer \cup finSent => state[c] \in {"CloseWait", "Closed"}
  /\ c \notin finTimer \/ c \notin finSent
  /\ c > made => state[c] = "none" /\ forwarded[c] = 0
  /\ c <= made => state[c] # "none" /\ serverSeq[c] = Isn[c] + 1 + SentOn(c)

Counting == \A c \in Conns : CountsTrue(c)

\* Below the wrap a sequence number is moved on by adding.
LEMMA PlusBelowWrap ==
  ASSUME NEW a \in Nat, NEW n \in Nat, a + n < Modulus
  PROVE  Plus(a, n) = a + n
BY DEF Plus

\* What a connection has sent is among its numbers.
LEMMA SentInNumbers ==
  ASSUME NumbersApart, TypeOK, NEW c \in Conns, c <= made, CountsTrue(c)
  PROVE  /\ serverSeq[c] \in Sent(c) /\ SentOn(c) \in Nat
         /\ serverSeq[c] = Plus(Isn[c], 1 + SentOn(c))
<1>1. Isn[c] \in Nat /\ forwarded[c] \in Nat /\ c \in 1..made
  BY DEF TypeOK, CountTypeOK, ThreadTypeOK, Conns
<1>2. SentOn(c) \in Nat
  BY <1>1 DEF SentOn
<1>3. serverSeq[c] = Isn[c] + 1 + SentOn(c)
  BY DEF CountsTrue
<1>4. Isn[c] + 1 + SentOn(c) < Modulus
  BY <1>1 DEF NumbersApart
<1>5. Isn[c] + (1 + SentOn(c)) < Modulus /\ 1 + SentOn(c) \in Nat
  BY <1>1, <1>2, <1>4
<1>6. Plus(Isn[c], 1 + SentOn(c)) = Isn[c] + (1 + SentOn(c))
  BY <1>1, <1>5, PlusBelowWrap
<1>. QED
  BY <1>1, <1>2, <1>3, <1>6 DEF Sent

\* No step takes back what was sent, so that numbers that are apart after a step
\* were apart before.
LEMMA ApartBefore ==
  ASSUME TypeOK, TypeOK', made <= made',
         \A c \in 1..made : SentOn(c) <= SentOn(c)' /\ key'[c] = key[c],
         NumbersApart'
  PROVE  NumbersApart
<1>1. /\ made \in Nat /\ made' \in Nat
      /\ \A c \in 1..made : c \in 1..made' /\ c \in Conns
  BY DEF TypeOK, ThreadTypeOK, Conns
<1>2. \A c \in 1..made :
        Isn[c] \in Nat /\ SentOn(c) \in Nat /\ SentOn(c)' \in Nat
  BY <1>1 DEF TypeOK, CountTypeOK, SentOn
<1>3. \A c \in 1..made : Isn[c] + 1 + SentOn(c) < Modulus
  <2>. TAKE c \in 1..made
  <2>1. Isn[c] + 1 + SentOn(c)' < Modulus
    BY <1>1 DEF NumbersApart
  <2>. QED
    BY <1>2, <2>1
<1>4. \A c \in 1..made : Sent(c) \subseteq Sent(c)'
  BY <1>2 DEF Sent
<1>5. ASSUME NEW c \in 1..made, NEW d \in 1..made, c # d, key[c] = key[d]
      PROVE  Sent(c) \cap Sent(d) = {}
  <2>1. (Sent(c) \cap Sent(d) = {})'
    BY <1>1, <1>5 DEF NumbersApart
  <2>. QED
    BY <1>4, <2>1
<1>. QED
  BY <1>3, <1>5 DEF NumbersApart

\* A step that makes no connection and sends nothing may close connections, and
\* start the timer of one that becomes CloseWait.
LEMMA QuietCounting ==
  ASSUME TypeOK, Counting,
         UNCHANGED <<made, serverSeq, forwarded, finSent>>,
         \A c \in Conns :
           /\ state'[c] = state[c] \/ (state[c] # "none" /\ state'[c] # "none")
           /\ c \in finTimer' \cup finSent => state'[c] \in {"CloseWait", "Closed"}
           /\ c \notin finTimer' \/ c \notin finSent
  PROVE  Counting'
<1>. SUFFICES ASSUME NEW c \in Conns PROVE CountsTrue(c)'
  BY DEF Counting
<1>1. /\ CountsTrue(c) /\ made \in Nat /\ c \in Nat
      /\ c > made <=> ~(c <= made)
  BY DEF Counting, TypeOK, ThreadTypeOK, Conns
<1>. QED
  BY <1>1 DEF CountsTrue, SentOn

\* packetLoop keeps the count, if an ACK does not move ServerSeq.
LEMMA LoopCounting ==
  ASSUME NumbersApart', TypeOK, TableTrue, Counting, PacketLoop,
         HandleACK => UNCHANGED serverSeq
  PROVE  Counting'
<1>. USE DEF connVars, threadVars, serverVars, clientVars, countVars, histVars
<1>0. \A c \in Conns : /\ CountsTrue(c) /\ made \in Nat /\ c \in Nat
                       /\ c > made <=> ~(c <= made)
  BY DEF Counting, TypeOK, ThreadTypeOK, Conns
<1>a. /\ \A c \in Conns : c \in finTimer \cup finSent =>
                            state[c] \in {"CloseWait", "Closed"}
      /\ \A c \in Conns : c \notin finTimer \/ c \notin finSent
      /\ \A c \in Conns : c <= made => state[c] # "none"
  BY <1>0 DEF CountsTrue
<1>b. ASSUME NEW type, Take(type), Exists
      PROVE  PacketConn \in Conns /\ PacketConn <= made /\ state[PacketConn] # "none"
  <2>1. PacketConn \in Conns /\ PacketKey \in Keys
    BY <1>b, ConnOfPacket, TakeType DEF TypeOK
  <2>. QED
    BY <1>a, <1>b, <2>1 DEF TableTrue, Exists, PacketConn
<1>c. state \in [Conns -> {"none", "SynReceived", "Established", "CloseWait",
                           "Closed"}]
  BY DEF TypeOK, ConnTypeOK
<1>1. CASE HandleSYN
  BY <1>1, <1>a, QuietCounting DEF HandleSYN
<1>2. CASE HandleACK
  <2>1. /\ UNCHANGED <<made, serverSeq, forwarder, replies, downs, forwarded,
                       finSent, finTimer>>
        /\ PacketConn \in Conns
        /\ Acknowledge(PacketConn, Head(inbox).ack)
    BY <1>2, <1>b DEF HandleACK
  <2>2. \/ state' = state
        \/ /\ state[PacketConn] = "SynReceived"
           /\ state' = [state EXCEPT ![PacketConn] = "Established"]
    BY <2>1, <1>c DEF Acknowledge
  <2>3. \A c \in Conns :
          \/ state'[c] = state[c]
          \/ state[c] = "SynReceived" /\ state'[c] = "Established"
    BY <1>c, <2>1, <2>2
  <2>. QED
    BY <1>a, <2>1, <2>3, QuietCounting
<1>3. CASE HandleRST
  <2>1. /\ UNCHANGED <<made, serverSeq, forwarder, replies, downs, forwarded,
                       finSent, finTimer>>
        /\ PacketConn \in Conns /\ state[PacketConn] # "none"
        /\ state' = [state EXCEPT ![PacketConn] = "Closed"]
    BY <1>3, <1>b DEF HandleRST, CloseAndRelock
  <2>. QED
    BY <1>a, <1>c, <2>1, QuietCounting
<1>4. CASE HandleFIN
  <2>1. /\ UNCHANGED <<made, serverSeq, forwarder, replies, downs, forwarded,
                       finSent>>
        /\ PacketConn \in Conns /\ state[PacketConn] = "Established"
        /\ state' = [state EXCEPT ![PacketConn] = "CloseWait"]
        /\ finTimer' = finTimer \/ finTimer' = finTimer \cup {PacketConn}
    BY <1>4, <1>b DEF HandleFIN
  <2>. QED
    BY <1>a, <1>c, <2>1, QuietCounting
<1>5. CASE HandleLateFIN
  <2>1. /\ UNCHANGED <<made, serverSeq, forwarder, replies, downs, forwarded,
                       finSent, finTimer>>
        /\ PacketConn \in Conns /\ state[PacketConn] # "none"
        /\ state' = state \/ state' = [state EXCEPT ![PacketConn] = "Closed"]
    BY <1>5, <1>b DEF HandleLateFIN, CloseAndRelock
  <2>. QED
    BY <1>a, <1>c, <2>1, QuietCounting
<1>6. CASE HandleData
  BY <1>6, <1>a, QuietCounting DEF HandleData
<1>7. CASE IgnorePacket
  BY <1>7, <1>a, QuietCounting DEF IgnorePacket
<1>8. CASE DialDone
  <2>0. PICK d \in Nat : d = made + 1
    BY <1>0 DEF TypeOK, ThreadTypeOK
  <2>1. /\ d \in Conns /\ made' = d /\ state' = [state EXCEPT ![d] = "SynReceived"]
        /\ serverSeq' = [serverSeq EXCEPT ![d] = Plus(Isn[d], 1)]
        /\ UNCHANGED <<finTimer, forwarded, finSent>>
    BY <1>8, <2>0 DEF DialDone, TypeOK, ThreadTypeOK, Conns
  <2>4. /\ d > made /\ made \in Nat /\ d \in Nat
        /\ state[d] = "none" /\ forwarded[d] = 0 /\ CountsTrue(d)
    BY <1>0, <2>0, <2>1 DEF CountsTrue
  <2>5. d \notin finTimer /\ d \notin finSent
    BY <1>a, <2>1, <2>4
  <2>6. CountsTrue(d)'
    <3>1. SentOn(d)' = 0
      BY <2>1, <2>4, <2>5 DEF SentOn
    <3>2. Isn[d] \in Nat /\ d \in 1..made' /\ Isn[d] + 1 + SentOn(d)' < Modulus
      BY <2>1, <2>4 DEF NumbersApart, Conns
    <3>3. Plus(Isn[d], 1) = Isn[d] + 1
      BY <3>1, <3>2, PlusBelowWrap
    <3>4. state'[d] = "SynReceived" /\ serverSeq'[d] = Isn[d] + 1
      BY <2>1, <3>3 DEF TypeOK, ConnTypeOK
    <3>. QED
      BY <2>1, <2>4, <2>5, <3>1, <3>2, <3>4 DEF CountsTrue
  <2>7. ASSUME NEW c \in Conns, c # d PROVE CountsTrue(c)'
    <3>1. state'[c] = state[c] /\ serverSeq'[c] = serverSeq[c]
      BY <2>1, <2>7 DEF TypeOK, ConnTypeOK
    <3>2. SentOn(c)' = SentOn(c) /\ c \in Nat /\ made \in Nat
      BY <1>0, <2>1 DEF SentOn
    <3>3. c > made' <=> c > made
      BY <2>0, <2>1, <2>7, <3>2
    <3>4. c <= made' <=> c <= made
      BY <2>0, <2>1, <2>7, <3>2
    <3>. QED
      BY <1>0, <2>1, <3>1, <3>2, <3>3, <3>4 DEF CountsTrue
  <2>. QED
    BY <2>6, <2>7 DEF Counting
<1>9. CASE DialFails
  BY <1>9, <1>a, QuietCounting DEF DialFails
<1>10. CASE WriteDone
  BY <1>10, <1>a, QuietCounting DEF WriteDone
<1>11. CASE WriteFails
  BY <1>11, <1>a, QuietCounting DEF WriteFails
<1>. QED
  BY <1>1, <1>2, <1>3, <1>4, <1>5, <1>6, <1>7, <1>8, <1>9, <1>10, <1>11
  DEF PacketLoop, SendPacket

\* So do the goroutines of a connection and its server: one packet is sent, and
\* counted, or none.
LEMMA ConnCounting ==
  ASSUME NumbersApart', TypeOK, Counting, NEW c \in Conns,
         ForwardConnection(c) \/ FinTimer(c) \/ Server(c)
  PROVE  Counting'
<1>. USE DEF connVars, threadVars, serverVars, countVars, histVars
<1>0. /\ made \in Nat /\ c \in Nat
      /\ forwarder[c] = "none" <=> c > made
      /\ \A d \in Conns : CountsTrue(d)
  BY DEF Counting, TypeOK, ThreadTypeOK, Conns
<1>a. /\ serverSeq \in [Conns -> 0..(Modulus - 1)] /\ forwarded \in [Conns -> Nat]
      /\ Isn[c] \in Nat /\ forwarded[c] \in Nat
  BY DEF TypeOK, ConnTypeOK, CountTypeOK
<1>b. ASSUME UNCHANGED <<made, state, serverSeq, forwarded, finSent, finTimer>>
      PROVE  Counting'
  BY <1>0, <1>b DEF Counting, CountsTrue, SentOn
<1>c. ASSUME CountsTrue(c)', UNCHANGED <<made, state>>,
             \A d \in Conns : d # c =>
               /\ serverSeq'[d] = serverSeq[d] /\ forwarded'[d] = forwarded[d]
               /\ (d \in finSent') <=> (d \in finSent)
               /\ (d \in finTimer') <=> (d \in finTimer)
      PROVE  Counting'
  BY <1>0, <1>c DEF Counting, CountsTrue, SentOn
<1>d. ASSUME UNCHANGED made, c <= made, SentOn(c)' = SentOn(c) + 1,
             serverSeq' = [serverSeq EXCEPT ![c] = Plus(serverSeq[c], 1)]
      PROVE  serverSeq'[c] = Isn[c] + 1 + SentOn(c)'
  <2>1. serverSeq[c] = Isn[c] + 1 + SentOn(c) /\ SentOn(c) \in Nat
    BY <1>0, <1>a, <1>d DEF CountsTrue, SentOn
  <2>2. c \in 1..made' /\ Isn[c] + 1 + SentOn(c)' < Modulus
    BY <1>0, <1>d DEF NumbersApart, Conns
  <2>3. serverSeq[c] \in Nat /\ serverSeq[c] + 1 < Modulus
    BY <1>a, <1>d, <2>1, <2>2
  <2>4. serverSeq'[c] = serverSeq[c] + 1
    BY <1>a, <1>d, <2>3, PlusBelowWrap
  <2>. QED
    BY <1>a, <1>d, <2>1, <2>4
<1>1. CASE ForwardRead(c) \/ ForwardEnd(c) \/ ForwardLeave(c) \/ Server(c)
  BY <1>b, <1>1
  DEF ForwardRead, ForwardEnd, ForwardLeave, Server, ServerReads, ServerSends,
      ServerCloses
<1>2. CASE ForwardDeliver(c)
  <2>1. /\ UNCHANGED <<made, state, finSent, finTimer>>
        /\ forwarder[c] = "deliver"
        /\ serverSeq' = [serverSeq EXCEPT ![c] = Plus(serverSeq[c], 1)]
        /\ forwarded' = [forwarded EXCEPT ![c] = forwarded[c] + 1]
    BY <1>2 DEF ForwardDeliver
  <2>2. forwarded'[c] = forwarded[c] + 1
    BY <1>a, <2>1
  <2>3. c <= made /\ ~(c > made)
    BY <1>0, <2>1
  <2>4. SentOn(c)' = SentOn(c) + 1
    BY <1>a, <2>1, <2>2 DEF SentOn
  <2>5. serverSeq'[c] = Isn[c] + 1 + SentOn(c)'
    BY <1>d, <2>1, <2>3, <2>4
  <2>6. CountsTrue(c)'
    BY <1>0, <2>1, <2>3, <2>5 DEF CountsTrue
  <2>. QED
    BY <1>a, <1>c, <2>1, <2>6
<1>3. CASE FinTimer(c)
  <2>1. /\ UNCHANGED <<made, state, forwarded>>
        /\ c \in finTimer /\ finTimer' = finTimer \ {c}
    BY <1>3 DEF FinTimer
  <2>2. c \notin finSent /\ state[c] \in {"CloseWait", "Closed"}
    BY <1>0, <2>1 DEF CountsTrue
  <2>3. CASE UNCHANGED <<serverSeq, finSent>>
    <3>1. CountsTrue(c)'
      BY <1>0, <2>1, <2>2, <2>3 DEF CountsTrue, SentOn
    <3>. QED
      BY <1>c, <2>1, <2>3, <3>1
  <2>4. CASE /\ serverSeq' = [serverSeq EXCEPT ![c] = Plus(serverSeq[c], 1)]
             /\ finSent' = finSent \cup {c}
    <3>1. c <= made /\ ~(c > made)
      BY <1>0, <2>2 DEF CountsTrue
    <3>2. SentOn(c)' = SentOn(c) + 1
      BY <1>a, <2>1, <2>2, <2>4 DEF SentOn
    <3>3. serverSeq'[c] = Isn[c] + 1 + SentOn(c)'
      BY <1>d, <2>1, <2>4, <3>1, <3>2
    <3>4. CountsTrue(c)'
      BY <1>0, <2>1, <2>2, <2>4, <3>1, <3>3 DEF CountsTrue
    <3>. QED
      BY <1>a, <1>c, <2>1, <2>4, <3>4
  <2>. QED
    BY <1>3, <2>3, <2>4 DEF FinTimer
<1>. QED
  BY <1>1, <1>2, <1>3 DEF ForwardConnection

------------------------------------------------------------------------------
\* A number that a connection of k has sent up to, and two of one connection.
HeardOf(k, n) == \E d \in 1..made : key[d] = k /\ n \in Sent(d)
SameConn(k, m, n) ==
  \E d \in 1..made : key[d] = k /\ m \in Sent(d) /\ n \in Sent(d)

Connected(k) == client[k] \in {"acking", "open", "fin"}

\* What the client of k says: its acknowledgements in the device and, after
\* them, at End, the number it expects.
End == Len(inbox) + 1
IsAck(k, j)  == j \in 1..Len(inbox) /\ inbox[j].type = "ack" /\ inbox[j].key = k
Says(k, j)   == j = End \/ IsAck(k, j)
Number(k, j) == IF j = End THEN expects[k] ELSE inbox[j].ack

\* No reset by the client of k between i and j.
NoReset(k, i, j) ==
  \A m \in 1..Len(inbox) :
    i < m /\ m < j => ~(inbox[m].type = "rst" /\ inbox[m].key = k)

\* Clients say what they have heard.
AcksHeard ==
  /\ \A k \in Keys : Connected(k) => HeardOf(k, expects[k])
  /\ \A k \in Keys : \A i \in 1..Len(inbox) : IsAck(k, i) => HeardOf(k, inbox[i].ack)
  /\ \A k \in owes : Connected(k)

\* Between two resets a client speaks of one connection.
OneConnAtATime ==
  \A k \in Keys : \A i \in 1..Len(inbox) : \A j \in 1..End :
    i < j /\ IsAck(k, i) /\ Says(k, j) /\ NoReset(k, i, j)
      => SameConn(k, Number(k, i), Number(k, j)) /\ (j = End => Connected(k))

\* Until it resets, the client of connection c of k speaks of c, from i on.
SpeaksOf(k, i, c) ==
  \A j \in 1..End :
    i < j /\ Says(k, j) /\ NoReset(k, i, j) => Number(k, j) \in Sent(c)

EstablishedIsMeant ==
  \A k \in Keys :
    connections[k] # NoConn /\ state[connections[k]] = "Established"
      => SpeaksOf(k, 0, connections[k])

Talking == AcksHeard /\ OneConnAtATime /\ EstablishedIsMeant

\* Connections are added, and send more.
Grows ==
  /\ made <= made'
  /\ \A d \in 1..made : SentOn(d) <= SentOn(d)' /\ key'[d] = key[d]

\* Most steps do not send.
LEMMA GrowsNot ==
  ASSUME TypeOK, UNCHANGED <<made, key, forwarded, finSent>>
  PROVE  Grows
<1>1. made \in Nat /\ \A d \in 1..made : forwarded[d] \in Nat
  BY DEF TypeOK, ThreadTypeOK, CountTypeOK, Conns
<1>. QED
  BY <1>1 DEF Grows, SentOn

\* What has been heard of stays so.
LEMMA HeardGrows ==
  ASSUME TypeOK, TypeOK', Grows
  PROVE  /\ \A k, n : HeardOf(k, n) => HeardOf(k, n)'
         /\ \A k, m, n : SameConn(k, m, n) => SameConn(k, m, n)'
         /\ \A c \in 1..made : Sent(c) \subseteq Sent(c)'
<1>1. made \in Nat /\ made' \in Nat /\ made <= made' /\ made <= MaxConns
  BY DEF TypeOK, ThreadTypeOK, Grows
<1>2. \A d \in 1..made : d \in 1..made' /\ d \in Conns
  BY <1>1 DEF Conns
<1>3. ASSUME NEW d \in 1..made PROVE Sent(d) \subseteq Sent(d)' /\ key'[d] = key[d]
  <2>1. /\ Isn[d] \in Nat /\ SentOn(d) \in Nat /\ SentOn(d)' \in Nat
    BY <1>2 DEF TypeOK, CountTypeOK, SentOn
  <2>2. SentOn(d) <= SentOn(d)' /\ key'[d] = key[d]
    BY DEF Grows
  <2>. QED
    BY <2>1, <2>2 DEF Sent
<1>. QED
  BY <1>2, <1>3 DEF HeardOf, SameConn

\* An established connection is one that was made.
LEMMA EstablishedIsMade ==
  ASSUME TypeOK, TableTrue, NEW k \in Keys, connections[k] # NoConn
  PROVE  /\ connections[k] \in Conns /\ connections[k] \in 1..made
         /\ key[connections[k]] = k
BY DEF TypeOK, ConnTypeOK, ThreadTypeOK, TableTrue, Conns, NoConn

\* A step by which no client says or hears anything.
LEMMA QuietTalking ==
  ASSUME TypeOK, TypeOK', TableTrue, Talking, Grows, UNCHANGED <<inbox, clientVars>>,
         \A k \in Keys :
           connections'[k] # NoConn /\ state'[connections'[k]] = "Established"
             => connections'[k] = connections[k]
                /\ state[connections[k]] = "Established"
  PROVE  Talking'
<1>. USE DEF clientVars, Talking
<1>1. /\ End' = End /\ Len(inbox') = Len(inbox)
      /\ \A k : Connected(k)' <=> Connected(k)
      /\ \A k, j : Says(k, j)' <=> Says(k, j)
      /\ \A k, j : IsAck(k, j)' <=> IsAck(k, j)
      /\ \A k, j : Number(k, j)' = Number(k, j)
      /\ \A k, i, j : NoReset(k, i, j)' <=> NoReset(k, i, j)
  BY DEF End, Connected, Says, IsAck, Number, NoReset
<1>2. AcksHeard'
  BY <1>1, HeardGrows DEF AcksHeard
<1>3. OneConnAtATime'
  BY <1>1, HeardGrows DEF OneConnAtATime
<1>4. EstablishedIsMeant'
  <2>. SUFFICES ASSUME NEW k \in Keys, NEW c, c = connections'[k], c # NoConn,
                       state'[c] = "Established"
                PROVE  SpeaksOf(k, 0, c)'
    BY DEF EstablishedIsMeant
  <2>1. SpeaksOf(k, 0, c) /\ c \in 1..made
    BY EstablishedIsMade DEF EstablishedIsMeant
  <2>2. Sent(c) \subseteq Sent(c)'
    BY <2>1, HeardGrows
  <2>. QED
    BY <1>1, <2>1, <2>2 DEF SpeaksOf
<1>. QED
  BY <1>2, <1>3, <1>4

\* When a packet is taken, what the clients say moves up by one.
LEMMA TakeMovesUp ==
  ASSUME TypeOK, NEW type, Take(type), UNCHANGED clientVars
  PROVE  /\ End \in Nat /\ End' = End - 1 /\ End' \in Nat /\ End' >= 1
         /\ \A k : Connected(k)' <=> Connected(k)
         /\ \A k : \A j \in 1..End' :
              /\ Says(k, j)' <=> Says(k, j + 1)
              /\ IsAck(k, j)' <=> IsAck(k, j + 1)
              /\ Number(k, j)' = Number(k, j + 1)
         /\ \A k : \A i \in 0..End' : \A j \in 1..End' :
              NoReset(k, i, j)' => NoReset(k, i + 1, j + 1)
<1>1. /\ inbox \in Seq(Packets) /\ inbox # <<>> /\ inbox' = Tail(inbox)
      /\ expects' = expects /\ client' = client
  BY DEF TypeOK, LoopTypeOK, Take, clientVars
<1>2. /\ Len(inbox) \in Nat /\ Len(inbox) >= 1 /\ Len(inbox') = Len(inbox) - 1
      /\ \A j \in 1..Len(inbox') : inbox'[j] = inbox[j + 1]
  BY <1>1, HeadTailProperties, EmptySeq, LenProperties
<1>3. ASSUME NEW k, NEW j \in 1..End'
      PROVE  /\ Says(k, j)' <=> Says(k, j + 1)
             /\ IsAck(k, j)' <=> IsAck(k, j + 1)
             /\ Number(k, j)' = Number(k, j + 1)
  <2>1. /\ j = End' <=> j + 1 = End
        /\ j \in 1..Len(inbox') <=> j + 1 \in 1..Len(inbox)
        /\ j # End' => j \in 1..Len(inbox')
    BY <1>2 DEF End
  <2>2. j \in 1..Len(inbox') => inbox'[j] = inbox[j + 1]
    BY <1>2
  <2>3. IsAck(k, j)' <=> IsAck(k, j + 1)
    BY <2>1, <2>2 DEF IsAck
  <2>4. Says(k, j)' <=> Says(k, j + 1)
    BY <2>1, <2>3 DEF Says
  <2>5. Number(k, j)' = Number(k, j + 1)
    BY <1>1, <2>1, <2>2 DEF Number
  <2>. QED
    BY <2>3, <2>4, <2>5
<1>4. ASSUME NEW k, NEW i \in 0..End', NEW j \in 1..End', NoReset(k, i, j)'
      PROVE  NoReset(k, i + 1, j + 1)
  <2>. SUFFICES ASSUME NEW m \in 1..Len(inbox), i + 1 < m, m < j + 1
                PROVE  ~(inbox[m].type = "rst" /\ inbox[m].key = k)
    BY DEF NoReset
  <2>1. /\ m - 1 \in 1..Len(inbox') /\ i < m - 1 /\ m - 1 < j
        /\ (m - 1) + 1 = m
    BY <1>2 DEF End
  <2>. QED
    BY <1>2, <1>4, <2>1 DEF NoReset
<1>. QED
  BY <1>1, <1>2, <1>3, <1>4 DEF End, Connected

\* A step that takes a packet, and leaves established connections that are
\* spoken of from the next one on.
LEMMA TakeTalking ==
  ASSUME TypeOK, TypeOK', TableTrue, Talking, Grows, NEW type, Take(type),
         UNCHANGED <<connections, clientVars>>,
         \A k \in Keys :
           connections[k] # NoConn /\ state'[connections[k]] = "Established"
             => SpeaksOf(k, 1, connections[k])
  PROVE  Talking'
<1>. USE DEF Talking
<1>1. /\ End \in Nat /\ End' = End - 1 /\ End' \in Nat
      /\ Len(inbox) = End - 1 /\ Len(inbox') = End' - 1
      /\ expects' = expects /\ owes' = owes
  BY TakeMovesUp, LenProperties DEF End, clientVars, TypeOK, LoopTypeOK
<1>2. AcksHeard'
  <2>1. ASSUME NEW k \in Keys, Connected(k)' PROVE HeardOf(k, expects[k])'
    <3>1. PICK n : n = expects[k]
      OBVIOUS
    <3>2. HeardOf(k, n)'
      BY <2>1, <3>1, TakeMovesUp, HeardGrows DEF AcksHeard
    <3>. QED
      BY <1>1, <3>1, <3>2 DEF HeardOf
  <2>2. ASSUME NEW k \in Keys, NEW i \in 1..Len(inbox'), IsAck(k, i)'
        PROVE  HeardOf(k, inbox[i].ack)'
    <3>1. /\ i \in 1..End' /\ i # End' /\ i + 1 # End /\ i + 1 \in 1..Len(inbox)
      BY <1>1
    <3>2. IsAck(k, i + 1) /\ inbox'[i].ack = inbox[i + 1].ack
      BY <2>2, <3>1, TakeMovesUp DEF Number
    <3>3. PICK n : n = inbox[i + 1].ack
      OBVIOUS
    <3>4. HeardOf(k, n)'
      BY <3>1, <3>2, <3>3, HeardGrows DEF AcksHeard
    <3>. QED
      BY <3>2, <3>3, <3>4 DEF HeardOf
  <2>. QED
    BY <1>1, <2>1, <2>2, TakeMovesUp DEF AcksHeard
<1>3. OneConnAtATime'
  <2>. SUFFICES ASSUME NEW k \in Keys, NEW i \in 1..Len(inbox'), NEW j \in 1..End',
                       i < j, IsAck(k, i)', Says(k, j)', NoReset(k, i, j)'
                PROVE  /\ SameConn(k, Number(k, i), Number(k, j))'
                       /\ j = End' => Connected(k)'
    BY DEF OneConnAtATime
  <2>1. /\ i \in 1..End' /\ i \in 0..End' /\ i + 1 \in 1..Len(inbox)
        /\ j + 1 \in 1..End /\ i + 1 < j + 1 /\ (j = End' <=> j + 1 = End)
    BY <1>1
  <2>2. IsAck(k, i + 1) /\ Says(k, j + 1) /\ NoReset(k, i + 1, j + 1)
    BY <2>1, TakeMovesUp
  <2>3. /\ SameConn(k, Number(k, i + 1), Number(k, j + 1))
        /\ j + 1 = End => Connected(k)
    BY <2>1, <2>2 DEF OneConnAtATime
  <2>4. /\ Number(k, i)' = Number(k, i + 1) /\ Number(k, j)' = Number(k, j + 1)
        /\ Connected(k)' <=> Connected(k)
    BY <2>1, TakeMovesUp
  <2>5. PICK m, n : m = Number(k, i + 1) /\ n = Number(k, j + 1)
    OBVIOUS
  <2>6. SameConn(k, m, n)'
    BY <2>3, <2>5, HeardGrows
  <2>7. SameConn(k, Number(k, i), Number(k, j))'
    BY <2>4, <2>5, <2>6 DEF SameConn
  <2>. QED
    BY <2>1, <2>3, <2>4, <2>7
<1>4. EstablishedIsMeant'
  <2>. SUFFICES ASSUME NEW k \in Keys, NEW c, c = connections[k], c # NoConn,
                       state'[c] = "Established",
                       NEW j \in 1..End', Says(k, j)', NoReset(k, 0, j)'
                PROVE  Number(k, j)' \in Sent(c)'
    BY DEF EstablishedIsMeant, SpeaksOf
  <2>1. j + 1 \in 1..End /\ 1 < j + 1 /\ 0 \in 0..End' /\ 0 + 1 = 1
    BY <1>1
  <2>2. /\ Says(k, j + 1) /\ Number(k, j)' = Number(k, j + 1)
        /\ NoReset(k, 0 + 1, j + 1)
    BY <2>1, TakeMovesUp
  <2>3. SpeaksOf(k, 1, c) /\ Sent(c) \subseteq Sent(c)'
    BY EstablishedIsMade, HeardGrows
  <2>. QED
    BY <2>1, <2>2, <2>3 DEF SpeaksOf
<1>. QED
  BY <1>2, <1>3, <1>4

\* An established connection whose client has not just reset it is spoken of
\* from the next packet on.
LEMMA StillMeant ==
  ASSUME TypeOK, Talking, NEW type, Take(type), NEW k \in Keys,
         connections[k] # NoConn, state[connections[k]] = "Established",
         type # "rst" \/ PacketKey # k
  PROVE  SpeaksOf(k, 1, connections[k])
<1>1. SpeaksOf(k, 0, connections[k])
  BY DEF Talking, EstablishedIsMeant
<1>2. /\ inbox # <<>> /\ Head(inbox) = inbox[1] /\ Len(inbox) \in Nat
      /\ ~(inbox[1].type = "rst" /\ inbox[1].key = k)
  BY LenProperties DEF TypeOK, LoopTypeOK, Take, PacketKey
<1>3. ASSUME NEW j \in 1..End, NoReset(k, 1, j) PROVE NoReset(k, 0, j)
  <2>1. \A m \in 1..Len(inbox) : 0 < m => m = 1 \/ 1 < m
    BY <1>2
  <2>. QED
    BY <1>2, <1>3, <2>1 DEF NoReset
<1>4. \A j \in 1..End : 1 < j => 0 < j
  BY <1>2 DEF End
<1>. QED
  BY <1>1, <1>3, <1>4 DEF SpeaksOf

\* An ACK never moves ServerSeq, and an established connection is the one that
\* its client acknowledges.
LEMMA AckTalking ==
  ASSUME NumbersApart, TypeOK, TypeOK', TableTrue, Counting, Talking, HandleACK
  PROVE  UNCHANGED serverSeq /\ Talking'
<1>1. PICK c, k : c = PacketConn /\ k = PacketKey
  OBVIOUS
<1>2. PICK ack : ack = Head(inbox).ack
  OBVIOUS
<1>3. /\ Take("ack") /\ c # NoConn /\ c = connections[k] /\ k \in Keys
      /\ Acknowledge(c, ack) /\ c \in Conns /\ c <= made
      /\ key[c] = k /\ UNCHANGED <<connections, made, key, forwarded, finSent, clientVars>>
  <2>1. Take("ack") /\ Exists
    BY DEF HandleACK
  <2>2. PacketConn \in Conns /\ PacketKey \in Keys
    BY <2>1, ConnOfPacket, TakeType DEF TypeOK
  <2>. QED
    BY <1>1, <1>2, <2>1, <2>2
    DEF HandleACK, Exists, PacketConn, TableTrue, clientVars, histVars
<1>4. /\ state \in [Conns -> {"none", "SynReceived", "Established", "CloseWait",
                              "Closed"}]
      /\ serverSeq \in [Conns -> 0..(Modulus - 1)] /\ made \in Nat
      /\ c \in 1..made /\ Len(inbox) \in Nat
  <2>1. made \in 0..MaxConns /\ c \in 1..MaxConns
    BY <1>3 DEF TypeOK, ThreadTypeOK, Conns
  <2>2. Len(inbox) \in Nat
    BY LenProperties DEF TypeOK, LoopTypeOK
  <2>. QED
    BY <1>3, <2>1, <2>2 DEF TypeOK, ConnTypeOK
<1>5. /\ serverSeq[c] = Isn[c] + 1 + SentOn(c) /\ serverSeq[c] \in Sent(c)
      /\ Isn[c] \in Nat /\ SentOn(c) \in Nat
      /\ \A d \in 1..made : key[d] = k /\ d # c => Sent(d) \cap Sent(c) = {}
  <2>1. serverSeq[c] \in Sent(c) /\ SentOn(c) \in Nat /\ CountsTrue(c)
    BY <1>3, SentInNumbers DEF Counting
  <2>. QED
    BY <1>3, <1>4, <2>1 DEF NumbersApart, CountsTrue
<1>6. /\ Len(inbox) >= 1 /\ IsAck(k, 1) /\ Number(k, 1) = ack /\ Says(k, 1)
      /\ 1 \in 1..Len(inbox) /\ 1 \in 1..End /\ End # 1 /\ NoReset(k, 0, 1)
  <2>1. inbox # <<>> /\ Head(inbox) = inbox[1] /\ Head(inbox).type = "ack"
    BY <1>3 DEF Take
  <2>2. Len(inbox) >= 1 /\ 1 \in 1..Len(inbox) /\ 1 \in 1..End /\ End # 1
    BY <1>4, <2>1, EmptySeq DEF TypeOK, LoopTypeOK, End
  <2>3. NoReset(k, 0, 1)
    BY <1>4 DEF NoReset
  <2>. QED
    BY <1>1, <1>2, <2>1, <2>2, <2>3 DEF IsAck, Number, Says, PacketKey
<1>7. state[c] = "Established" => ack \in Sent(c)
  <2>. SUFFICES ASSUME state[c] = "Established" PROVE ack \in Sent(c)
    OBVIOUS
  <2>1. SpeaksOf(k, 0, c)
    BY <1>3 DEF Talking, EstablishedIsMeant
  <2>. QED
    BY <1>6, <2>1 DEF SpeaksOf
<1>8. UNCHANGED serverSeq
  <2>1. CASE state[c] = "Established"
    <3>1. serverSeq' = [serverSeq EXCEPT ![c] = serverSeq[c]]
      <4>1. ack \in Nat /\ serverSeq[c] \in Nat
        BY <1>2, <1>3, <1>4, TakeType DEF TypeOK
      <4>2. ~(ack > serverSeq[c])
        BY <1>5, <1>7, <2>1, <4>1 DEF Sent
      <4>. QED
        BY <1>3, <2>1, <4>2 DEF Acknowledge
    <3>. QED
      BY <1>4, <3>1
  <2>2. CASE state[c] # "Established"
    BY <1>3, <2>2 DEF Acknowledge
  <2>. QED
    BY <2>1, <2>2
<1>9. /\ \A d \in Conns : d # c => state'[d] = state[d]
      /\ state'[c] = "Established" => state[c] = "Established" \/ ack = serverSeq[c]
  BY <1>3, <1>4 DEF Acknowledge
<1>10. ASSUME NEW h \in Keys, connections[h] # NoConn,
              state'[connections[h]] = "Established"
       PROVE  SpeaksOf(h, 1, connections[h])
  <2>1. connections[h] \in Conns
    BY <1>10 DEF TypeOK, ConnTypeOK
  <2>2. CASE state[connections[h]] = "Established"
    BY <1>3, <1>10, <2>1, <2>2, StillMeant
  <2>3. CASE state[connections[h]] # "Established"
    <3>1. connections[h] = c /\ ack = serverSeq[c] /\ ack \in Sent(c)
      BY <1>5, <1>9, <1>10, <2>1, <2>3
    <3>2. h = k
      BY <1>3, <1>10, <2>1, <3>1 DEF TableTrue
    <3>3. ASSUME NEW j \in 1..End, 1 < j, Says(k, j), NoReset(k, 1, j)
          PROVE  Number(k, j) \in Sent(c)
      <4>1. SameConn(k, ack, Number(k, j))
        BY <1>3, <1>6, <3>3 DEF Talking, OneConnAtATime
      <4>. QED
        BY <1>5, <3>1, <4>1 DEF SameConn
    <3>. QED
      BY <2>1, <3>1, <3>2, <3>3 DEF SpeaksOf
  <2>. QED
    BY <2>2, <2>3
<1>11. Grows
  BY <1>3, GrowsNot
<1>. QED
  BY <1>3, <1>8, <1>10, <1>11, TakeTalking

\* packetLoop keeps what the clients say, when it takes a packet.
LEMMA TakesTalking ==
  ASSUME NumbersApart, TypeOK, TypeOK', TableTrue, Counting, Talking, SendPacket
  PROVE  Talking'
<1>. USE DEF connVars, threadVars, serverVars, countVars, histVars
<1>0. /\ state \in [Conns -> {"none", "SynReceived", "Established", "CloseWait",
                              "Closed"}]
      /\ connections \in [Keys -> Conns \cup {NoConn}]
  BY DEF TypeOK, ConnTypeOK
<1>2. ASSUME NEW type, Take(type),
             UNCHANGED <<connections, made, key, histVars, clientVars>>,
             \A d \in Conns :
               state'[d] = "Established" => state[d] = "Established",
             type = "rst" /\ Exists => state'[PacketConn] # "Established"
      PROVE  Talking'
  <2>1. ASSUME NEW k \in Keys, connections[k] # NoConn,
               state'[connections[k]] = "Established"
        PROVE  SpeaksOf(k, 1, connections[k])
    <3>1. state[connections[k]] = "Established"
      BY <1>0, <1>2, <2>1
    <3>2. type # "rst" \/ PacketKey # k
      BY <1>2, <2>1, <3>1 DEF Exists, PacketConn
    <3>. QED
      BY <1>2, <2>1, <3>1, <3>2, StillMeant
  <2>. QED
    BY <1>2, <2>1, TakeTalking, GrowsNot
<1>3. CASE HandleSYN
  BY <1>2, <1>3 DEF HandleSYN
<1>4. CASE HandleACK
  BY <1>4, AckTalking
<1>5. CASE HandleRST
  <2>1. Take("rst") /\ Exists /\ PacketConn \in Conns
    BY <1>5, ConnOfPacket DEF HandleRST, TypeOK
  <2>2. state' = [state EXCEPT ![PacketConn] = "Closed"]
    BY <1>5 DEF HandleRST, CloseAndRelock
  <2>3. state'[PacketConn] = "Closed"
    BY <1>0, <2>1, <2>2
  <2>4. \A d \in Conns : state'[d] = "Established" => state[d] = "Established"
    BY <1>0, <2>2
  <2>5. UNCHANGED <<connections, made, key, histVars, clientVars>>
    BY <1>5 DEF HandleRST
  <2>. QED
    BY <1>2, <2>1, <2>3, <2>4, <2>5
<1>6. CASE HandleFIN
  <2>1. \A d \in Conns : state'[d] = "Established" => state[d] = "Established"
    BY <1>0, <1>6 DEF HandleFIN
  <2>. QED
    BY <1>2, <1>6, <2>1 DEF HandleFIN
<1>7. CASE HandleLateFIN
  <2>1. \A d \in Conns : state'[d] = "Established" => state[d] = "Established"
    BY <1>0, <1>7 DEF HandleLateFIN, CloseAndRelock
  <2>. QED
    BY <1>2, <1>7, <2>1 DEF HandleLateFIN
<1>8. CASE HandleData
  BY <1>2, <1>8 DEF HandleData
<1>9. CASE IgnorePacket
  <2>1. PICK type \in {"ack", "rst", "fin", "data"} :
               Take(type) /\ (Exists => type = "data")
    BY <1>9 DEF IgnorePacket
  <2>2. UNCHANGED <<connections, made, key, histVars, state, clientVars>>
    BY <1>9 DEF IgnorePacket
  <2>. QED
    BY <1>2, <2>1, <2>2
<1>. QED
  BY <1>3, <1>4, <1>5, <1>6, <1>7, <1>8, <1>9 DEF SendPacket

\* The client of a new connection speaks of that, and of nothing before.
LEMMA DialTalking ==
  ASSUME NumbersApart', TypeOK, TypeOK', Tracking, Talking, DialDone
  PROVE  Talking'
<1>0. PICK c, k : c = made + 1 /\ k = loop.key
  OBVIOUS
<1>1. /\ c \in Conns /\ made' = c /\ made \in Nat /\ c > made /\ c \in 1..made'
      /\ k \in Keys /\ state' = [state EXCEPT ![c] = "SynReceived"]
      /\ connections' = [connections EXCEPT ![k] = c]
      /\ key' = [key EXCEPT ![c] = k]
      /\ UNCHANGED <<inbox, forwarded, finSent>>
  BY <1>0
  DEF DialDone, histVars, TypeOK, LoopTypeOK, Loops, Idle, ThreadTypeOK, Conns, Tracking
<1>2. /\ state \in [Conns -> {"none", "SynReceived", "Established", "CloseWait",
                              "Closed"}]
      /\ key \in [Conns -> Keys] /\ forwarded \in [Conns -> Nat]
      /\ connections \in [Keys -> Conns \cup {NoConn}]
      /\ expects \in [Keys -> 0..(Modulus - 1)]
      /\ client \in [Keys -> {"closed", "syn", "acking", "open", "fin"}]
      /\ owes \subseteq Keys /\ Len(inbox) \in Nat
  BY LenProperties DEF TypeOK, LoopTypeOK, ConnTypeOK, ClientTypeOK, CountTypeOK
<1>3. Grows
  <2>1. \A d \in 1..made : d \in Conns /\ d # c /\ SentOn(d) \in Nat
    BY <1>1, <1>2 DEF TypeOK, ThreadTypeOK, Conns, SentOn
  <2>2. \A d \in 1..made : SentOn(d)' = SentOn(d)
    BY <1>1 DEF SentOn
  <2>. QED
    BY <1>1, <1>2, <2>1, <2>2 DEF Grows
<1>4. \A h \in Keys :
        connections'[h] # NoConn /\ state'[connections'[h]] = "Established"
          => /\ h # k /\ connections'[h] = connections[h]
             /\ state[connections[h]] = "Established"
  <2>. TAKE h \in Keys
  <2>1. CASE h = k
    BY <1>1, <1>2, <2>1
  <2>2. CASE h # k
    <3>1. connections'[h] = connections[h]
      BY <1>1, <1>2, <2>2
    <3>2. connections[h] # NoConn => connections[h] \in Conns /\ connections[h] # c
      BY <1>1, <1>2 DEF Tracking, TableTrue, Conns
    <3>. QED
      BY <1>1, <1>2, <2>2, <3>1, <3>2
  <2>. QED
    BY <2>1, <2>2
<1>5. CASE client[k] # "syn"
  <2>1. UNCHANGED clientVars
    BY <1>0, <1>5 DEF DialDone
  <2>. QED
    BY <1>1, <1>3, <1>4, <2>1, QuietTalking DEF Tracking
<1>6. CASE client[k] = "syn"
  <2>1. /\ client' = [client EXCEPT ![k] = "acking"]
        /\ expects' = [expects EXCEPT ![k] = Plus(Isn[c], 1)]
        /\ owes' = owes \cup {k}
    BY <1>0, <1>6 DEF DialDone
  <2>2. /\ End' = End /\ Len(inbox') = Len(inbox)
        /\ \A h \in Keys : h # k => (Connected(h)' <=> Connected(h))
        /\ Connected(k)' /\ ~Connected(k)
        /\ \A h \in Keys : \A j : h # k \/ j # End => Number(h, j)' = Number(h, j)
        /\ \A h, j : Says(h, j)' <=> Says(h, j)
        /\ \A h, j : IsAck(h, j)' <=> IsAck(h, j)
        /\ \A h, i, j : NoReset(h, i, j)' <=> NoReset(h, i, j)
    BY <1>1, <1>2, <1>6, <2>1 DEF End, Connected, Says, IsAck, Number, NoReset
  <2>3. AcksHeard'
    <3>1. ASSUME NEW h \in Keys, Connected(h)' PROVE HeardOf(h, expects[h])'
      <4>1. CASE h = k
        <5>1. Isn[c] \in Nat /\ SentOn(c) \in Nat /\ SentOn(c)' = SentOn(c)
          BY <1>1, <1>2 DEF SentOn
        <5>2. Isn[c] + 1 + SentOn(c) < Modulus
          BY <1>1, <5>1 DEF NumbersApart
        <5>3. Isn[c] + 1 < Modulus
          BY <5>1, <5>2
        <5>4. expects'[k] = Isn[c] + 1
          BY <1>1, <1>2, <2>1, <5>1, <5>3, PlusBelowWrap
        <5>5. expects'[k] \in Sent(c)'
          BY <5>1, <5>4 DEF Sent
        <5>6. key'[c] = k
          BY <1>1, <1>2
        <5>. QED
          BY <1>1, <4>1, <5>5, <5>6 DEF HeardOf
      <4>2. CASE h # k
        <5>1. expects'[h] = expects[h] /\ Connected(h)
          BY <1>2, <2>1, <2>2, <3>1, <4>2
        <5>2. PICK n : n = expects[h]
          OBVIOUS
        <5>3. HeardOf(h, n)'
          BY <1>3, <5>1, <5>2, HeardGrows DEF Talking, AcksHeard
        <5>. QED
          BY <5>1, <5>2, <5>3 DEF HeardOf
      <4>. QED
        BY <4>1, <4>2
    <3>2. \A h \in Keys : \A i \in 1..Len(inbox') :
            IsAck(h, i)' => HeardOf(h, inbox[i].ack)'
      BY <1>1, <1>3, <2>2, HeardGrows DEF Talking, AcksHeard
    <3>3. \A h \in owes' : Connected(h)'
      BY <1>2, <2>1, <2>2 DEF Talking, AcksHeard
    <3>. QED
      BY <3>1, <3>2, <3>3 DEF AcksHeard
  <2>4. OneConnAtATime'
    <3>. SUFFICES ASSUME NEW h \in Keys, NEW i \in 1..Len(inbox'), NEW j \in 1..End',
                         i < j, IsAck(h, i)', Says(h, j)', NoReset(h, i, j)'
                  PROVE  /\ SameConn(h, Number(h, i), Number(h, j))'
                         /\ j = End' => Connected(h)'
      BY DEF OneConnAtATime
    <3>1. /\ SameConn(h, Number(h, i), Number(h, j)) /\ (j = End => Connected(h))
      BY <2>2 DEF Talking, OneConnAtATime
    <3>2. (h # k \/ j # End) /\ i # End
      BY <1>2, <2>2, <3>1 DEF End
    <3>3. Number(h, i)' = Number(h, i) /\ Number(h, j)' = Number(h, j)
      BY <2>2, <3>2
    <3>4. PICK m, n : m = Number(h, i) /\ n = Number(h, j)
      OBVIOUS
    <3>5. SameConn(h, m, n)'
      BY <1>3, <3>1, <3>4, HeardGrows
    <3>6. SameConn(h, Number(h, i), Number(h, j))'
      BY <3>3, <3>4, <3>5 DEF SameConn
    <3>. QED
      BY <2>2, <3>1, <3>6
  <2>5. EstablishedIsMeant'
    <3>. SUFFICES ASSUME NEW h \in Keys, NEW d, d = connections'[h], d # NoConn,
                         state'[d] = "Established"
                  PROVE  SpeaksOf(h, 0, d)'
      BY DEF EstablishedIsMeant
    <3>1. h # k /\ SpeaksOf(h, 0, d) /\ d \in 1..made
      BY <1>4, EstablishedIsMade DEF Talking, EstablishedIsMeant, Tracking
    <3>2. Sent(d) \subseteq Sent(d)'
      BY <1>3, <3>1, HeardGrows
    <3>. QED
      BY <2>2, <3>1, <3>2 DEF SpeaksOf
  <2>. QED
    BY <2>3, <2>4, <2>5 DEF Talking
<1>. QED
  BY <1>5, <1>6

\* What a client hears is the next number of its connection, and it goes on
\* speaking of that.
LEMMA HearsTalking ==
  ASSUME NumbersApart, NumbersApart', TypeOK, TypeOK', TableTrue, Counting, Talking,
         NEW d \in Conns, d <= made,
         Hears(key[d], serverSeq[d]) \/ UNCHANGED clientVars,
         SentOn(d)' = SentOn(d) + 1,
         \A e \in Conns : e # d => SentOn(e)' = SentOn(e),
         UNCHANGED <<inbox, connections, made, key, state>>
  PROVE  Talking'
<1>0. PICK k : k = key[d]
  OBVIOUS
<1>1. /\ k \in Keys /\ made \in Nat /\ d \in 1..made /\ Len(inbox) \in Nat
      /\ expects \in [Keys -> 0..(Modulus - 1)] /\ owes \subseteq Keys
  <2>1. k \in Keys /\ made \in Nat /\ d \in 1..made
    BY <1>0 DEF TypeOK, ConnTypeOK, ThreadTypeOK, Conns
  <2>2. Len(inbox) \in Nat
    BY LenProperties DEF TypeOK, LoopTypeOK
  <2>. QED
    BY <2>1, <2>2 DEF TypeOK, ClientTypeOK
<1>2. PICK next : next = serverSeq[d] + 1
  OBVIOUS
<1>3. /\ serverSeq[d] \in Sent(d) /\ next \in Sent(d)'
      /\ Plus(serverSeq[d], 1) = next
  <2>1. /\ serverSeq[d] \in Sent(d) /\ SentOn(d) \in Nat
        /\ serverSeq[d] = Isn[d] + 1 + SentOn(d)
    BY SentInNumbers DEF Counting, CountsTrue
  <2>2. Isn[d] + 1 + SentOn(d)' < Modulus /\ Isn[d] \in Nat
    BY <1>1 DEF NumbersApart
  <2>3. serverSeq[d] \in Nat /\ serverSeq[d] + 1 < Modulus
    BY <2>1, <2>2
  <2>4. next \in Sent(d)'
    BY <1>2, <2>1, <2>2 DEF Sent
  <2>. QED
    BY <1>2, <2>1, <2>3, <2>4, PlusBelowWrap
<1>4. Grows
  <2>1. \A e \in 1..made : e \in Conns
    BY DEF TypeOK, ThreadTypeOK, Conns
  <2>2. \A e \in 1..made : SentOn(e) \in Nat
    BY <2>1 DEF TypeOK, CountTypeOK, SentOn
  <2>3. \A e \in 1..made : SentOn(e) <= SentOn(e)'
    BY <2>1, <2>2
  <2>. QED
    BY <1>1, <2>3 DEF Grows
<1>5. CASE UNCHANGED clientVars
  BY <1>4, <1>5, QuietTalking
<1>6. CASE Hears(k, serverSeq[d]) /\ ~UNCHANGED clientVars
  <2>1. /\ Connected(k) /\ owes' = owes \cup {k} /\ client' = client
        /\ expects' = IF serverSeq[d] = expects[k]
                        THEN [expects EXCEPT ![k] = next] ELSE expects
    BY <1>1, <1>3, <1>6 DEF Hears, Connected
  <2>2. /\ End' = End /\ Len(inbox') = Len(inbox)
        /\ \A h : Connected(h)' <=> Connected(h)
        /\ \A h, j : Says(h, j)' <=> Says(h, j)
        /\ \A h, j : IsAck(h, j)' <=> IsAck(h, j)
        /\ \A h, i, j : NoReset(h, i, j)' <=> NoReset(h, i, j)
        /\ \A h : \A i \in 1..Len(inbox) : Number(h, i)' = Number(h, i)
    BY <1>1, <2>1 DEF End, Connected, Says, IsAck, Number, NoReset
  <2>3. \A h \in Keys :
          \/ expects'[h] = expects[h]
          \/ h = k /\ expects[h] = serverSeq[d] /\ expects'[h] = next
    BY <1>1, <2>1
  <2>4. \A h \in Keys : \A j :
          \/ Number(h, j)' = Number(h, j)
          \/ h = k /\ Number(h, j) = serverSeq[d] /\ Number(h, j)' = next
    BY <2>2, <2>3 DEF Number
  <2>5. \A e \in 1..made : key[e] = k /\ serverSeq[d] \in Sent(e) => e = d
    BY <1>0, <1>1, <1>3 DEF NumbersApart
  <2>6. AcksHeard'
    <3>1. ASSUME NEW h \in Keys, Connected(h)' PROVE HeardOf(h, expects[h])'
      <4>1. CASE expects'[h] = expects[h]
        <5>1. PICK n : n = expects[h]
          OBVIOUS
        <5>2. HeardOf(h, n)'
          BY <1>4, <2>2, <3>1, <5>1, HeardGrows DEF Talking, AcksHeard
        <5>. QED
          BY <4>1, <5>1, <5>2 DEF HeardOf
      <4>2. CASE h = k /\ expects'[h] = next
        BY <1>0, <1>1, <1>3, <4>2 DEF HeardOf
      <4>. QED
        BY <2>3, <4>1, <4>2
    <3>2. \A h \in Keys : \A i \in 1..Len(inbox') :
            IsAck(h, i)' => HeardOf(h, inbox[i].ack)'
      BY <1>4, <2>2, HeardGrows DEF Talking, AcksHeard
    <3>3. \A h \in owes' : Connected(h)'
      BY <2>1, <2>2 DEF Talking, AcksHeard
    <3>. QED
      BY <3>1, <3>2, <3>3 DEF AcksHeard
  <2>7. OneConnAtATime'
    <3>. SUFFICES ASSUME NEW h \in Keys, NEW i \in 1..Len(inbox'), NEW j \in 1..End',
                         i < j, IsAck(h, i)', Says(h, j)', NoReset(h, i, j)'
                  PROVE  /\ SameConn(h, Number(h, i), Number(h, j))'
                         /\ j = End' => Connected(h)'
      BY DEF OneConnAtATime
    <3>1. /\ SameConn(h, Number(h, i), Number(h, j))
          /\ j = End => Connected(h)
      BY <2>2 DEF Talking, OneConnAtATime
    <3>2. PICK e \in 1..made :
            key[e] = h /\ Number(h, i) \in Sent(e) /\ Number(h, j) \in Sent(e)
      BY <3>1 DEF SameConn
    <3>3. Sent(e) \subseteq Sent(e)'
      BY <1>4, HeardGrows
    <3>4. Number(h, j)' \in Sent(e)'
      BY <1>3, <2>4, <2>5, <3>2, <3>3
    <3>5. Number(h, i)' \in Sent(e)'
      BY <2>2, <3>2, <3>3
    <3>6. SameConn(h, Number(h, i), Number(h, j))'
      BY <3>2, <3>4, <3>5 DEF SameConn
    <3>. QED
      BY <2>2, <3>1, <3>6
  <2>8. EstablishedIsMeant'
    <3>. SUFFICES ASSUME NEW h \in Keys, NEW e, e = connections'[h], e # NoConn,
                         state'[e] = "Established",
                         NEW j \in 1..End', 0 < j, Says(h, j)', NoReset(h, 0, j)'
                  PROVE  Number(h, j)' \in Sent(e)'
      BY DEF EstablishedIsMeant, SpeaksOf
    <3>1. e \in 1..made /\ key[e] = h /\ SpeaksOf(h, 0, e)
      BY EstablishedIsMade DEF Talking, EstablishedIsMeant
    <3>2. Number(h, j) \in Sent(e)
      BY <2>2, <3>1 DEF SpeaksOf
    <3>3. Sent(e) \subseteq Sent(e)'
      BY <1>4, <3>1, HeardGrows
    <3>. QED
      BY <1>3, <2>4, <2>5, <3>1, <3>2, <3>3
  <2>. QED
    BY <2>6, <2>7, <2>8 DEF Talking
<1>. QED
  BY <1>0, <1>5, <1>6

\* So do the goroutines of a connection and its server.
LEMMA ConnTalking ==
  ASSUME NumbersApart, NumbersApart', TypeOK, TypeOK', Tracking, Counting, Talking,
         NEW c \in Conns, ForwardConnection(c) \/ FinTimer(c) \/ Server(c)
  PROVE  Talking'
<1>. USE DEF connVars, threadVars, serverVars, countVars, histVars
<1>t. TableTrue
  BY DEF Tracking
<1>0. /\ made \in Nat /\ connections \in [Keys -> Conns \cup {NoConn}]
      /\ forwarded \in [Conns -> Nat]
  <2>1. /\ connections \in [Keys -> Conns \cup {NoConn}] /\ forwarded \in [Conns -> Nat]
        /\ made \in 0..MaxConns
    BY Zenon DEF TypeOK, ConnTypeOK, ThreadTypeOK, CountTypeOK
  <2>. QED
    BY <2>1
<1>f. made \in Nat /\ c \in Nat /\ (forwarder[c] = "none" <=> c > made)
  <2>1. c \in Nat
    BY DEF Conns
  <2>2. forwarder[c] = "none" <=> c > made
    BY Zenon DEF TypeOK, ThreadTypeOK
  <2>. QED
    BY <1>0, <2>1, <2>2
<1>1. UNCHANGED <<made, key, forwarded, finSent>> => Grows
  BY GrowsNot
<1>2. ASSUME UNCHANGED <<inbox, connections, made, key, state, forwarded, finSent,
                         clientVars>>
      PROVE  Talking'
  BY <1>t, <1>1, <1>2, QuietTalking
<1>3. CASE ForwardRead(c) \/ ForwardEnd(c) \/ Server(c)
  BY <1>2, <1>3
  DEF ForwardRead, ForwardEnd, Server, ServerReads, ServerSends, ServerCloses
<1>4. CASE ForwardDeliver(c)
  <2>1. /\ forwarder[c] = "deliver"
        /\ Hears(key[c], serverSeq[c]) \/ UNCHANGED clientVars
        /\ forwarded' = [forwarded EXCEPT ![c] = forwarded[c] + 1]
        /\ UNCHANGED <<inbox, connections, made, key, state, finSent>>
    BY <1>4 DEF ForwardDeliver, TunFails
  <2>2. c <= made
    BY <1>f, <2>1
  <2>3. SentOn(c)' = SentOn(c) + 1 /\ \A e \in Conns : e # c => SentOn(e)' = SentOn(e)
    BY <1>0, <2>1 DEF SentOn
  <2>. QED
    BY <1>t, <2>1, <2>2, <2>3, HearsTalking
<1>5. CASE ForwardLeave(c)
  <2>1. /\ \/ connections' = connections
           \/ connections' = [connections EXCEPT ![key[c]] = NoConn]
        /\ UNCHANGED <<inbox, made, key, state, forwarded, finSent, clientVars>>
    BY <1>5 DEF ForwardLeave
  <2>2. \A k \in Keys : connections'[k] # NoConn => connections'[k] = connections[k]
    BY <1>0, <2>1
  <2>. QED
    BY <1>t, <1>1, <2>1, <2>2, QuietTalking
<1>6. CASE FinTimer(c)
  <2>1. UNCHANGED <<inbox, connections, made, key, state, forwarded>> /\ c \in finTimer
    BY <1>6 DEF FinTimer
  <2>2. CountsTrue(c) /\ c \notin finSent
    BY <2>1 DEF Counting, CountsTrue
  <2>3. c <= made
    BY <1>0, <2>1, <2>2 DEF CountsTrue, Conns
  <2>4. CASE UNCHANGED <<clientVars, finSent>>
    BY <1>2, <2>1, <2>4
  <2>5. CASE Hears(key[c], serverSeq[c]) /\ finSent' = finSent \cup {c}
    <3>1. SentOn(c)' = SentOn(c) + 1 /\ \A e \in Conns : e # c => SentOn(e)' = SentOn(e)
      BY <1>0, <2>1, <2>2, <2>5 DEF SentOn
    <3>. QED
      BY <1>t, <2>1, <2>3, <2>5, <3>1, HearsTalking
  <2>. QED
    BY <1>6, <2>4, <2>5 DEF FinTimer
<1>. QED
  BY <1>3, <1>4, <1>5, <1>6 DEF ForwardConnection

\* What a client sends is the number it expects, and a reset disconnects it.
LEMMA ClientSends ==
  ASSUME TypeOK, NEW k \in Keys, Client(k)
  PROVE  \E type \in {"syn", "ack", "data", "fin", "rst"} :
           /\ Sends(k, type)
           /\ type = "ack" => k \in owes
           /\ \A h \in Keys : Connected(h)' => Connected(h)
           /\ \A h \in Keys : Connected(h) /\ (h # k \/ type # "rst") => Connected(h)'
           /\ owes' \subseteq owes /\ (type = "rst" => k \notin owes')
<1>0. client \in [Keys -> {"closed", "syn", "acking", "open", "fin"}]
  BY DEF TypeOK, ClientTypeOK
<1>1. CASE ClientSyn(k)
  <2>1. /\ Sends(k, "syn") /\ client[k] \in {"closed", "syn"} /\ owes' = owes
        /\ client' = [client EXCEPT ![k] = "syn"]
    BY <1>1 DEF ClientSyn
  <2>2. \A h \in Keys : Connected(h)' <=> Connected(h)
    BY <1>0, <2>1 DEF Connected
  <2>. QED
    BY <2>1, <2>2
<1>2. CASE ClientAck(k)
  <2>1. /\ Sends(k, "ack") /\ k \in owes /\ owes' = owes \ {k}
        /\ client' = [client EXCEPT
                        ![k] = IF client[k] = "acking" THEN "open" ELSE client[k]]
    BY <1>2 DEF ClientAck
  <2>2. \A h \in Keys : Connected(h)' <=> Connected(h)
    BY <1>0, <2>1 DEF Connected
  <2>. QED
    BY <2>1, <2>2
<1>3. CASE ClientData(k)
  <2>1. Sends(k, "data") /\ client' = client /\ owes' \subseteq owes
    BY <1>3 DEF ClientData
  <2>2. \A h \in Keys : Connected(h)' <=> Connected(h)
    BY <2>1 DEF Connected
  <2>. QED
    BY <2>1, <2>2
<1>4. CASE ClientFin(k)
  <2>1. /\ Sends(k, "fin") /\ client[k] \in {"open", "fin"} /\ owes' = owes
        /\ client' = [client EXCEPT ![k] = "fin"]
    BY <1>4 DEF ClientFin
  <2>2. \A h \in Keys : Connected(h)' <=> Connected(h)
    BY <1>0, <2>1 DEF Connected
  <2>. QED
    BY <2>1, <2>2
<1>5. CASE ClientRst(k)
  <2>1. /\ Sends(k, "rst") /\ client' = [client EXCEPT ![k] = "closed"]
        /\ owes' = owes \ {k}
    BY <1>5 DEF ClientRst
  <2>2. /\ \A h \in Keys : Connected(h)' => Connected(h)
        /\ \A h \in Keys : Connected(h) /\ h # k => Connected(h)'
    BY <1>0, <2>1 DEF Connected
  <2>. QED
    BY <2>1, <2>2
<1>. QED
  BY <1>1, <1>2, <1>3, <1>4, <1>5 DEF Client

\* When a packet is sent, what the clients say at its place and after it is
\* what they said at the end before.
LEMMA SendMovesEnd ==
  ASSUME TypeOK, NEW k \in Keys, NEW type, Sends(k, type)
  PROVE  /\ End \in Nat /\ End >= 1 /\ End' = End + 1 /\ expects' = expects
         /\ \A h, i : i \in 1..Len(inbox) =>
              (IsAck(h, i)' <=> IsAck(h, i)) /\ Number(h, i)' = Number(h, i)
         /\ \A h, n : n = End /\ IsAck(h, n)' => h = k /\ type = "ack"
         /\ \A h : \A j \in 1..End' : \A b :
              b = (IF j = End' THEN End ELSE j) /\ Says(h, j)' =>
                b \in 1..End /\ Says(h, b) /\ Number(h, j)' = Number(h, b)
         /\ \A h, i : \A j \in 1..End' : \A b :
              b = (IF j = End' THEN End ELSE j) /\ NoReset(h, i, j)' =>
                NoReset(h, i, b)
         /\ \A i \in 1..Len(inbox) :
              NoReset(k, i, End)' => type # "rst"
<1>1. PICK p : p = Packet(k, type, expects[k])
  OBVIOUS
<1>2. /\ inbox \in Seq(Packets) /\ inbox' = Append(inbox, p)
      /\ expects' = expects /\ p.key = k /\ p.type = type /\ p.ack = expects[k]
  BY <1>1 DEF TypeOK, LoopTypeOK, Sends, Packet
<1>3. Len(inbox) \in Nat
  BY <1>2, LenProperties
<1>4. /\ Len(inbox') = Len(inbox) + 1 /\ inbox'[Len(inbox) + 1] = p
      /\ \A i \in 1..Len(inbox) : inbox'[i] = inbox[i]
  BY <1>2, <1>3
<1>5. /\ End \in Nat /\ End >= 1 /\ End' = End + 1 /\ End = Len(inbox) + 1
      /\ End' = Len(inbox') + 1 /\ Len(inbox') = End /\ End # End'
  BY <1>3, <1>4 DEF End
<1>6. ASSUME NEW h, NEW i \in 1..Len(inbox)
      PROVE  (IsAck(h, i)' <=> IsAck(h, i)) /\ Number(h, i)' = Number(h, i)
  <2>1. /\ i \in 1..Len(inbox') /\ inbox'[i] = inbox[i] /\ i # End
        /\ i # End'
    BY <1>3, <1>4, <1>5
  <2>. QED
    BY <2>1 DEF IsAck, Number
<1>7. ASSUME NEW h, NEW n, n = End, IsAck(h, n)' PROVE h = k /\ type = "ack"
  BY <1>2, <1>4, <1>5, <1>7 DEF IsAck
<1>8. ASSUME NEW h, NEW j \in 1..End', NEW b, Says(h, j)',
             b = (IF j = End' THEN End ELSE j)
      PROVE  b \in 1..End /\ Says(h, b) /\ Number(h, j)' = Number(h, b)
  <2>1. CASE j = End'
    BY <1>2, <1>5, <1>8, <2>1 DEF Says, Number
  <2>2. CASE j = End
    <3>1. IsAck(h, j)' /\ h = k /\ b = End
      BY <1>5, <1>7, <1>8, <2>2 DEF Says
    <3>2. Number(h, j)' = inbox'[j].ack
      BY <1>5, <2>2 DEF Number
    <3>. QED
      BY <1>2, <1>4, <1>5, <2>2, <3>1, <3>2 DEF Says, Number
  <2>3. CASE j \in 1..Len(inbox)
    <3>1. j # End /\ j # End' /\ b = j /\ j \in 1..End
      BY <1>3, <1>5, <1>8, <2>3
    <3>. QED
      BY <1>6, <1>8, <2>3, <3>1 DEF Says
  <2>. QED
    BY <1>3, <1>5, <2>1, <2>2, <2>3
<1>9. ASSUME NEW h, NEW i, NEW j \in 1..End', NEW b, NoReset(h, i, j)',
             b = (IF j = End' THEN End ELSE j)
      PROVE  NoReset(h, i, b)
  <2>. SUFFICES ASSUME NEW m \in 1..Len(inbox), i < m, m < b
                PROVE  ~(inbox[m].type = "rst" /\ inbox[m].key = h)
    BY DEF NoReset
  <2>1. m \in 1..Len(inbox') /\ m < j /\ inbox'[m] = inbox[m]
    BY <1>3, <1>4, <1>5, <1>9
  <2>. QED
    BY <1>9, <2>1 DEF NoReset
<1>10. ASSUME NEW i \in 1..Len(inbox), NoReset(k, i, End)' PROVE type # "rst"
  <2>1. End \in 1..Len(inbox') /\ i < End /\ End < End' /\ inbox'[End] = p
    BY <1>3, <1>4, <1>5
  <2>. QED
    BY <1>2, <1>10, <2>1 DEF NoReset
<1>. QED
  BY <1>2, <1>5, <1>6, <1>7, <1>8, <1>9, <1>10

\* So clients keep to one connection when they send.
LEMMA ClientTalking ==
  ASSUME TypeOK, TypeOK', Talking, NEW k \in Keys, Client(k)
  PROVE  Talking'
<1>. USE DEF Talking
<1>1. PICK type \in {"syn", "ack", "data", "fin", "rst"} :
        /\ Sends(k, type)
        /\ type = "ack" => k \in owes
        /\ \A h \in Keys : Connected(h)' => Connected(h)
        /\ \A h \in Keys : Connected(h) /\ (h # k \/ type # "rst") => Connected(h)'
        /\ owes' \subseteq owes /\ (type = "rst" => k \notin owes')
  BY ClientSends
<1>2. UNCHANGED <<connections, made, key, state, forwarded, finSent>>
  BY <1>1 DEF Sends, connVars, histVars
<1>3. \A d : Sent(d)' = Sent(d)
  BY <1>2 DEF Sent, SentOn
<1>4. PICK last : last = End
  OBVIOUS
<1>5. /\ last \in Nat /\ End' = last + 1 /\ Len(inbox') = last
      /\ Len(inbox) = last - 1 /\ expects' = expects /\ owes \subseteq Keys
  BY <1>1, <1>4, SendMovesEnd, LenProperties
  DEF End, TypeOK, LoopTypeOK, ClientTypeOK
<1>6. AcksHeard'
  <2>1. ASSUME NEW h \in Keys, Connected(h)' PROVE HeardOf(h, expects[h])'
    BY <1>1, <1>2, <1>3, <1>5, <2>1 DEF AcksHeard, HeardOf
  <2>2. ASSUME NEW h \in Keys, NEW i \in 1..Len(inbox'), IsAck(h, i)'
        PROVE  HeardOf(h, inbox[i].ack)'
    <3>1. i \in 1..End' /\ i # End'
      BY <1>5
    <3>2. PICK b : b = IF i = End' THEN End ELSE i
      OBVIOUS
    <3>3. b = i /\ Says(h, i)'
      BY <2>2, <3>1, <3>2 DEF Says
    <3>4. i \in 1..End /\ Says(h, i) /\ Number(h, i)' = Number(h, i)
      BY <1>1, <3>1, <3>2, <3>3, SendMovesEnd
    <3>5. Number(h, i)' = inbox'[i].ack
      BY <3>1 DEF Number
    <3>6. HeardOf(h, Number(h, i))
      <4>1. CASE i = End
        <5>1. h = k /\ Connected(k)
          BY <1>1, <2>2, <4>1, SendMovesEnd DEF AcksHeard
        <5>. QED
          BY <4>1, <5>1 DEF AcksHeard, Number
      <4>2. CASE i # End
        <5>1. IsAck(h, i) /\ i \in 1..Len(inbox)
          BY <3>4, <4>2 DEF Says, IsAck
        <5>. QED
          BY <4>2, <5>1 DEF AcksHeard, Number
      <4>. QED
        BY <4>1, <4>2
    <3>7. HeardOf(h, Number(h, i))'
      BY <1>2, <1>3, <3>4, <3>6 DEF HeardOf
    <3>. QED
      BY <3>5, <3>7
  <2>3. \A h \in owes' : Connected(h)'
    BY <1>1, <1>5 DEF AcksHeard
  <2>. QED
    BY <2>1, <2>2, <2>3 DEF AcksHeard
<1>7. OneConnAtATime'
  <2>. SUFFICES ASSUME NEW h \in Keys, NEW i \in 1..Len(inbox'), NEW j \in 1..End',
                       i < j, IsAck(h, i)', Says(h, j)', NoReset(h, i, j)'
                PROVE  /\ SameConn(h, Number(h, i), Number(h, j))'
                       /\ j = End' => Connected(h)'
    BY DEF OneConnAtATime
  <2>1. PICK b : b = IF j = End' THEN End ELSE j
    OBVIOUS
  <2>2. /\ b \in 1..End /\ Says(h, b) /\ NoReset(h, i, b)
        /\ Number(h, j)' = Number(h, b)
    BY <1>1, <2>1, SendMovesEnd
  <2>3. CASE i = last
    <3>1. h = k /\ type = "ack" /\ Connected(k) /\ Connected(k)'
      BY <1>1, <1>4, <2>3, SendMovesEnd DEF AcksHeard
    <3>2. j = End' /\ b = End /\ Number(h, b) = expects[k]
      BY <1>4, <1>5, <2>1, <2>3, <3>1 DEF Number
    <3>3. /\ i \in 1..End' /\ i # End' /\ i = End /\ Says(h, i)'
      BY <1>4, <1>5, <2>3 DEF Says
    <3>4. Number(h, i)' = Number(h, i)
      BY <1>1, <3>3, SendMovesEnd
    <3>5. Number(h, i) = expects[k]
      BY <3>1, <3>3 DEF Number
    <3>6. HeardOf(k, expects[k])
      BY <3>1 DEF AcksHeard
    <3>7. SameConn(h, Number(h, i), Number(h, b))
      BY <3>1, <3>2, <3>5, <3>6 DEF HeardOf, SameConn
    <3>8. SameConn(h, Number(h, i), Number(h, j))'
      BY <1>2, <1>3, <2>2, <3>4, <3>7 DEF SameConn
    <3>. QED
      BY <3>1, <3>8
  <2>4. CASE i # last
    <3>1. i \in 1..Len(inbox) /\ i < b
      BY <1>4, <1>5, <2>1, <2>4
    <3>2. IsAck(h, i) /\ Number(h, i)' = Number(h, i)
      BY <1>1, <3>1, SendMovesEnd
    <3>3. SameConn(h, Number(h, i), Number(h, b)) /\ (b = End => Connected(h))
      BY <2>2, <3>1, <3>2 DEF OneConnAtATime
    <3>4. SameConn(h, Number(h, i), Number(h, j))'
      BY <1>2, <1>3, <2>2, <3>2, <3>3 DEF SameConn
    <3>5. ASSUME j = End' PROVE Connected(h)'
      <4>1. Connected(h)
        BY <2>1, <3>3, <3>5
      <4>2. NoReset(h, i, End)'
        BY <3>5
      <4>3. h # k \/ type # "rst"
        BY <1>1, <3>1, <4>2, SendMovesEnd
      <4>. QED
        BY <1>1, <4>1, <4>3
    <3>. QED
      BY <3>4, <3>5
  <2>. QED
    BY <2>3, <2>4
<1>8. EstablishedIsMeant'
  <2>. SUFFICES ASSUME NEW h \in Keys, NEW c, c = connections'[h], c # NoConn,
                       state'[c] = "Established",
                       NEW j \in 1..End', 0 < j, Says(h, j)', NoReset(h, 0, j)'
                PROVE  Number(h, j)' \in Sent(c)'
    BY DEF EstablishedIsMeant, SpeaksOf
  <2>1. PICK b : b = IF j = End' THEN End ELSE j
    OBVIOUS
  <2>2. /\ b \in 1..End /\ Says(h, b) /\ NoReset(h, 0, b)
        /\ Number(h, j)' = Number(h, b)
    BY <1>1, <2>1, SendMovesEnd
  <2>3. SpeaksOf(h, 0, c) /\ 0 < b
    BY <1>2, <1>4, <1>5, <2>2 DEF EstablishedIsMeant
  <2>. QED
    BY <1>3, <2>2, <2>3 DEF SpeaksOf
<1>. QED
  BY <1>6, <1>7, <1>8

\* No step makes fewer connections, or takes back what one has sent.
LEMMA NextGrows ==
  ASSUME TypeOK, [Next]_vars
  PROVE  Grows
<1>. USE DEF connVars, threadVars, serverVars, countVars, histVars
<1>0. /\ made \in Nat /\ \A d \in 1..made : d \in Conns
      /\ forwarded \in [Conns -> Nat] /\ key \in [Conns -> Keys]
  BY DEF TypeOK, ConnTypeOK, ThreadTypeOK, CountTypeOK, Conns
<1>1. UNCHANGED <<made, key, forwarded, finSent>> => Grows
  BY GrowsNot
<1>2. CASE UNCHANGED vars
  BY <1>1, <1>2 DEF vars
<1>3. CASE SendPacket \/ DialFails \/ WriteDone \/ WriteFails
  BY <1>1, <1>3
  DEF SendPacket, HandleSYN, HandleACK, HandleRST, HandleFIN, HandleLateFIN,
      HandleData, IgnorePacket, DialFails, WriteDone, WriteFails
<1>4. CASE DialDone
  <2>1. /\ made' = made + 1 /\ UNCHANGED <<forwarded, finSent>>
        /\ key' = [key EXCEPT ![made + 1] = loop.key]
    BY <1>4 DEF DialDone
  <2>2. \A d \in 1..made : key'[d] = key[d] /\ SentOn(d)' = SentOn(d)
    BY <1>0, <2>1 DEF SentOn
  <2>3. \A d \in 1..made : SentOn(d) \in Nat
    BY <1>0 DEF SentOn
  <2>. QED
    BY <1>0, <2>1, <2>2, <2>3 DEF Grows
<1>5. ASSUME NEW c \in Conns, ForwardConnection(c) \/ FinTimer(c) \/ Server(c)
      PROVE  Grows
  <2>1. CASE ForwardRead(c) \/ ForwardEnd(c) \/ ForwardLeave(c) \/ Server(c)
    BY <1>1, <2>1
    DEF ForwardRead, ForwardEnd, ForwardLeave, Server, ServerReads, ServerSends,
        ServerCloses
  <2>2. CASE ForwardDeliver(c) \/ FinTimer(c)
    <3>1. /\ UNCHANGED <<made, key>>
          /\ \/ forwarded' = forwarded
             \/ forwarded' = [forwarded EXCEPT ![c] = forwarded[c] + 1]
          /\ finSent \subseteq finSent'
      BY <2>2 DEF ForwardDeliver, FinTimer
    <3>2. \A d \in 1..made : /\ forwarded[d] \in Nat /\ forwarded'[d] \in Nat
                             /\ forwarded[d] <= forwarded'[d]
      BY <1>0, <3>1
    <3>. QED
      BY <1>0, <3>1, <3>2 DEF Grows, SentOn
  <2>. QED
    BY <1>5, <2>1, <2>2 DEF ForwardConnection
<1>6. ASSUME NEW k \in Keys, Client(k) PROVE Grows
  BY <1>1, <1>6
  DEF Client, ClientSyn, ClientAck, ClientData, ClientFin, ClientRst, Sends
<1>. QED
  BY <1>2, <1>3, <1>4, <1>5, <1>6 DEF Next, PacketLoop

\* As long as numbers are apart, the count is right and clients speak of what
\* they were sent.
SequenceInv == NumbersApart => Counting /\ Talking

LEMMA NextSequence ==
  ASSUME TypeOK, TypeOK', Tracking, SequenceInv, [Next]_vars
  PROVE  SequenceInv'
<1>. SUFFICES ASSUME NumbersApart' PROVE Counting' /\ Talking'
  BY DEF SequenceInv
<1>. USE DEF connVars, threadVars, serverVars, countVars, histVars
<1>1. NumbersApart
  BY NextGrows, ApartBefore DEF Grows
<1>2. Counting /\ Talking
  BY <1>1 DEF SequenceInv
<1>3. ASSUME UNCHANGED <<made, state, serverSeq, finTimer, forwarded, finSent>>
      PROVE  Counting'
  BY <1>2, <1>3 DEF Counting, CountsTrue, SentOn
<1>4. ASSUME UNCHANGED <<inbox, connections, made, key, state, forwarded, finSent,
                         clientVars>>
      PROVE  Talking'
  BY <1>2, <1>4, QuietTalking, GrowsNot DEF Tracking
<1>5. CASE UNCHANGED vars
  BY <1>3, <1>4, <1>5 DEF vars
<1>6. CASE PacketLoop
  <2>1. HandleACK => UNCHANGED serverSeq
    BY <1>1, <1>2, AckTalking DEF Tracking
  <2>2. Counting'
    BY <1>2, <1>6, <2>1, LoopCounting DEF Tracking
  <2>3. Talking'
    <3>1. CASE SendPacket
      BY <1>1, <1>2, <3>1, TakesTalking DEF Tracking
    <3>2. CASE DialDone
      BY <1>2, <3>2, DialTalking
    <3>3. CASE DialFails \/ WriteDone \/ WriteFails
      BY <1>4, <3>3 DEF DialFails, WriteDone, WriteFails
    <3>. QED
      BY <1>6, <3>1, <3>2, <3>3 DEF PacketLoop
  <2>. QED
    BY <2>2, <2>3
<1>7. ASSUME NEW c \in Conns, ForwardConnection(c) \/ FinTimer(c) \/ Server(c)
      PROVE  Counting' /\ Talking'
  BY <1>1, <1>2, <1>7, ConnCounting, ConnTalking
<1>8. ASSUME NEW k \in Keys, Client(k) PROVE Counting' /\ Talking'
  <2>1. Counting'
    BY <1>3, <1>8
    DEF Client, ClientSyn, ClientAck, ClientData, ClientFin, ClientRst, Sends
  <2>. QED
    BY <1>2, <1>8, <2>1, ClientTalking DEF Tracking
<1>. QED
  BY <1>5, <1>6, <1>7, <1>8 DEF Next

\* Until a four-tuple has used a number twice or one has wrapped, ServerSeq of
\* every connection is its ISN and what its client has been sent, however late
\* acknowledgements of this and of other connections arrive.  (HandleACK,
\* forwardConnection, sendFIN)
THEOREM SentIsCounted == Spec => [](NumbersApart => SeqMatchesSent)
<1>1. Init => SequenceInv
  <2>. SUFFICES ASSUME Init PROVE Counting /\ Talking
    BY DEF SequenceInv
  <2>1. /\ inbox = <<>> /\ connections = [k \in Keys |-> NoConn] /\ made = 0
        /\ state = [c \in Conns |-> "none"] /\ finTimer = {} /\ finSent = {}
        /\ owes = {} /\ client = [k \in Keys |-> "closed"]
        /\ forwarded = [c \in Conns |-> 0]
    BY DEF Init
  <2>2. \A c \in Conns : c \in Nat /\ c > 0 /\ ~(c <= 0)
    BY DEF Conns
  <2>3. Counting
    BY <2>1, <2>2 DEF Counting, CountsTrue
  <2>4. Talking
    BY <2>1
    DEF Talking, AcksHeard, OneConnAtATime, EstablishedIsMeant, IsAck, Connected
  <2>. QED
    BY <2>3, <2>4
<1>2. TypeOK /\ SequenceInv => (NumbersApart => SeqMatchesSent)
  <2>. SUFFICES ASSUME TypeOK, NumbersApart, Counting, NEW c \in 1..made
                PROVE  serverSeq[c] = Plus(Isn[c], 1 + forwarded[c]
                                         + (IF c \in finSent THEN 1 ELSE 0))
    BY DEF SeqMatchesSent, SequenceInv
  <2>1. c \in Conns /\ c <= made /\ CountsTrue(c)
    BY DEF TypeOK, ThreadTypeOK, Conns, Counting
  <2>2. forwarded[c] \in Nat
    BY <2>1 DEF TypeOK, CountTypeOK
  <2>3. 1 + forwarded[c] + (IF c \in finSent THEN 1 ELSE 0) = 1 + SentOn(c)
    BY <2>2 DEF SentOn
  <2>. QED
    BY <2>1, <2>3, SentInNumbers
<1>. QED
  BY <1>1, <1>2, TypeCorrect, TrackingCorrect, NextSequence, PTL DEF Spec
============================================================================
