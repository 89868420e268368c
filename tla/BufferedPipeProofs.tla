------------------------- MODULE BufferedPipeProofs --------------------------
(***************************************************************************)
(* Proofs about BufferedPipe, for any goroutines, buffer and deadlines: no *)
(* Signal that somebody needs is lost.                                     *)
(***************************************************************************)
EXTENDS BufferedPipe, SequenceTheorems, FiniteSetTheorems, WellFoundedInduction, TLAPS

Calling == [at : {"idle", "waiting", "woken"}, left : Nat, timer : BOOLEAN]

\* Every Write in calls c that is not done has something left.
SomethingLeft(c) == \A g \in DOMAIN Writers : c[g].at # "idle" => c[g].left >= 1

\* What the proofs need of the types: how much is in a buffer, and that a
\* Write which is not done has something left.
PipeTypes ==
  /\ buffer \in [Ends -> Seq([by : Goroutines, n : Nat])]
  /\ \A e \in Ends : Len(buffer[e]) <= BufferSize
  /\ closed \in [Ends -> BOOLEAN]
  /\ written \in [Goroutines -> Nat]
  /\ call \in [Goroutines -> Calling] /\ SomethingLeft(call)

\* The constants.
LEMMA Constants ==
  /\ BufferSize \in Nat /\ BufferSize >= 4 /\ MaxSize \in Nat /\ MaxSize >= 1
  /\ ReadSizes \subseteq Nat \ {0} /\ WriteSizes \subseteq Nat \ {0}
  /\ \A g \in DOMAIN Readers : g \in Goroutines /\ Readers[g] \in Ends
  /\ \A g \in DOMAIN Writers : g \in Goroutines /\ Writers[g] \in Ends
  /\ \A g \in DOMAIN TryWriters : g \in Goroutines /\ TryWriters[g] \in Ends
  /\ DOMAIN Readers \cap DOMAIN Writers = {}
  /\ (DOMAIN Readers \cup DOMAIN Writers) \cap DOMAIN TryWriters = {}
  /\ IsFiniteSet(Goroutines)
<1>1. /\ BufferSize \in Nat /\ BufferSize >= 4
      /\ ReadSizes \subseteq Nat \ {0} /\ WriteSizes \subseteq Nat \ {0}
      /\ DOMAIN Readers \cap DOMAIN Writers = {}
      /\ (DOMAIN Readers \cup DOMAIN Writers) \cap DOMAIN TryWriters = {}
      /\ IsFiniteSet(Goroutines)
      /\ Range(Readers) \subseteq Ends /\ Range(Writers) \subseteq Ends
      /\ Range(TryWriters) \subseteq Ends
  BY BufferedPipeAssumption
<1>2. MaxSize \in Nat /\ MaxSize >= 1
  BY <1>1, SMT DEF MaxSize
<1>3. /\ \A g \in DOMAIN Readers : g \in Goroutines /\ Readers[g] \in Ends
      /\ \A g \in DOMAIN Writers : g \in Goroutines /\ Writers[g] \in Ends
      /\ \A g \in DOMAIN TryWriters : g \in Goroutines /\ TryWriters[g] \in Ends
  BY <1>1 DEF Range, Goroutines
<1>. QED
  BY <1>1, <1>2, <1>3

\* An end and its peer.
LEMMA Peers ==
  ASSUME NEW e \in Ends
  PROVE  Peer(e) \in Ends /\ Peer(Peer(e)) = e /\ Peer(e) # e
BY DEF Ends, Peer

\* Who waits on the conditions of an end.
LEMMA Conditions ==
  ASSUME NEW e \in Ends
  PROVE  /\ ReadCond(e) \subseteq Goroutines /\ WriteCond(e) \subseteq Goroutines
         /\ ReadCond(e) \subseteq DOMAIN Readers /\ WriteCond(e) \subseteq DOMAIN Writers
         /\ \A d \in Ends : ReadCond(e) \cap WriteCond(d) = {}
BY Constants DEF ReadCond, WriteCond

\* The smallest of some numbers.
LEMMA MinOfTwo ==
  ASSUME NEW a \in Nat, NEW b \in Nat
  PROVE  Min({a, b}) = (IF a <= b THEN a ELSE b)
BY DEF Min

LEMMA MinOfThree ==
  ASSUME NEW a \in Nat, NEW b \in Nat, NEW c \in Nat
  PROVE  Min({a, b, c}) = IF a <= b /\ a <= c THEN a ELSE IF b <= c THEN b ELSE c
<1>. DEFINE m == IF a <= b /\ a <= c THEN a ELSE IF b <= c THEN b ELSE c
<1>1. m \in {a, b, c} /\ m \in Nat /\ \A y \in {a, b, c} : m <= y
  OBVIOUS
<1>2. \A x \in {a, b, c} : (\A y \in {a, b, c} : x <= y) => x = m
  <2>. TAKE x \in {a, b, c}
  <2>1. x \in Nat
    OBVIOUS
  <2>. HIDE DEF m
  <2>. QED
    BY <1>1, <2>1
<1>. HIDE DEF m
<1>3. Min({a, b, c}) = m
  BY <1>1, <1>2 DEF Min
<1>. QED
  BY <1>3 DEF m

LEMMA MaxOfTwo ==
  ASSUME NEW a \in Nat, NEW b \in Nat
  PROVE  Max({a, b}) = (IF a >= b THEN a ELSE b)
BY DEF Max

\* Signals wake some of those who wait, and one at least if there are any.
LEMMA SignalWakes ==
  ASSUME NEW cond, cond \subseteq Goroutines, NEW n \in Nat, NEW c,
         NEW new \in Signalled(c, cond, n)
  PROVE  \E gs \in SUBSET Waiting(cond) :
           /\ new = Woken(c, gs)
           /\ n >= 1 /\ Waiting(cond) # {} => gs # {}
<1>. DEFINE W == Waiting(cond)
<1>1. IsFiniteSet(W) /\ Cardinality(W) \in Nat
  <2>1. W \subseteq Goroutines
    BY DEF Waiting
  <2>. QED
    BY <2>1, Constants, FS_Subset, FS_CardinalityType
<1>2. W # {} => Cardinality(W) # 0
  BY <1>1, FS_EmptySet
<1>3. PICK gs \in kSubset(Min({n, Cardinality(W)}), W) : new = Woken(c, gs)
  BY DEF Signalled
<1>. HIDE DEF W
<1>4. gs \in SUBSET W /\ Cardinality(gs) = Min({n, Cardinality(W)})
  BY <1>3 DEF kSubset
<1>5. n >= 1 /\ W # {} => Min({n, Cardinality(W)}) >= 1
  BY <1>1, <1>2, MinOfTwo
<1>6. Cardinality({}) = 0
  BY FS_EmptySet
<1>7. n >= 1 /\ W # {} => gs # {}
  BY <1>4, <1>5, <1>6
<1>. QED
  BY <1>3, <1>4, <1>7 DEF W

\* What waking does to calls.
LEMMA WokenCalls ==
  ASSUME NEW c \in [Goroutines -> Calling], NEW gs
  PROVE  \A g \in Goroutines :
           /\ Woken(c, gs)[g] \in Calling
           /\ Woken(c, gs)[g].left = c[g].left
           /\ Woken(c, gs)[g].at = IF g \in gs THEN "woken" ELSE c[g].at
<1>. TAKE g \in Goroutines
<1>. DEFINE w == Woken(c, gs)[g]
<1>0. c[g] \in Calling
  OBVIOUS
<1>1. CASE g \in gs
  <2>1. w = [c[g] EXCEPT !.at = "woken", !.timer = FALSE]
    BY <1>1 DEF Woken
  <2>. HIDE DEF w
  <2>2. w \in Calling /\ w.left = c[g].left /\ w.at = "woken"
    BY <1>0, <2>1 DEF Calling
  <2>. QED
    BY <1>1, <2>2 DEF w
<1>2. CASE g \notin gs
  <2>1. w = c[g]
    BY <1>2 DEF Woken
  <2>. QED
    BY <1>0, <1>2, <2>1
<1>. QED
  BY <1>1, <1>2

\* Waking goroutines that wait keeps the types of the calls.
LEMMA WokenType ==
  ASSUME NEW c \in [Goroutines -> Calling], SomethingLeft(c),
         NEW gs, \A g \in gs : g \in Goroutines /\ c[g].at = "waiting"
  PROVE  Woken(c, gs) \in [Goroutines -> Calling] /\ SomethingLeft(Woken(c, gs))
<1>1. \A g \in Goroutines :
        /\ Woken(c, gs)[g] \in Calling
        /\ Woken(c, gs)[g].left = c[g].left
        /\ Woken(c, gs)[g].at # "idle" => c[g].at # "idle"
  BY WokenCalls
<1>2. Woken(c, gs) \in [Goroutines -> Calling]
  BY <1>1 DEF Woken
<1>. QED
  BY <1>1, <1>2, Constants DEF SomethingLeft

\* What a call does to itself, and the Signals it sends.
LEMMA SignalledType ==
  ASSUME PipeTypes, NEW cond, cond \subseteq Goroutines, NEW n \in Nat,
         NEW c \in [Goroutines -> Calling], SomethingLeft(c),
         \A g \in Waiting(cond) : c[g] = call[g],
         call' \in Signalled(c, cond, n)
  PROVE  call' \in [Goroutines -> Calling] /\ SomethingLeft(call')
<1>1. PICK gs \in SUBSET Waiting(cond) : call' = Woken(c, gs)
  BY SignalWakes
<1>2. \A g \in gs : g \in Goroutines /\ c[g].at = "waiting"
  BY <1>1 DEF Waiting
<1>. QED
  BY <1>1, <1>2, WokenType

\* Taking from a buffer.
LEMMA TakeBuffer ==
  ASSUME PipeTypes, NEW e \in Ends, NEW n \in Nat, NEW c, Take(e, n, c)
  PROVE  /\ buffer' \in [Ends -> Seq([by : Goroutines, n : Nat])]
         /\ \A d \in Ends : Len(buffer'[d]) <= BufferSize
         /\ \A d \in Ends : buffer'[d] # <<>> => buffer[d] # <<>>
         /\ \A d \in Ends : d # e => buffer'[d] = buffer[d]
<1>. DEFINE U == [by : Goroutines, n : Nat]
            k == Min({n, Len(buffer[e])})
<1>1. buffer[e] \in Seq(U) /\ Len(buffer[e]) \in Nat /\ Len(buffer[e]) <= BufferSize
  BY LenProperties DEF PipeTypes
<1>2. k \in Nat /\ k <= Len(buffer[e])
  BY <1>1, MinOfTwo
<1>3. buffer' = [buffer EXCEPT ![e] = SubSeq(buffer[e], k + 1, Len(buffer[e]))]
  BY DEF Take
<1>. HIDE DEF k, U
<1>4. PICK rest : rest = SubSeq(buffer[e], k + 1, Len(buffer[e]))
  OBVIOUS
<1>5. /\ rest \in Seq(U) /\ Len(rest) <= Len(buffer[e])
      /\ rest # <<>> => buffer[e] # <<>>
  <2>1. k + 1 \in 1..(Len(buffer[e]) + 1) /\ Len(buffer[e]) \in k..Len(buffer[e])
    BY <1>1, <1>2
  <2>2. rest \in Seq(U)
    BY <1>1, <1>2, <1>4, SubSeqProperties
  <2>3. Len(rest) = Len(buffer[e]) - k
    BY <1>1, <1>2, <1>4, <2>1, SubSeqProperties
  <2>4. rest # <<>> => Len(rest) # 0
    BY <2>2, EmptySeq
  <2>5. buffer[e] = <<>> => Len(buffer[e]) = 0
    OBVIOUS
  <2>. QED
    BY <1>1, <1>2, <2>2, <2>3, <2>4, <2>5
<1>6. \A d \in Ends : buffer'[d] = IF d = e THEN rest ELSE buffer[d]
  BY <1>3, <1>4 DEF PipeTypes
<1>7. \A d \in Ends : Len(buffer[d]) \in Nat /\ Len(buffer[d]) <= BufferSize
  BY LenProperties DEF PipeTypes
<1>8. Len(rest) \in Nat /\ BufferSize \in Nat
  BY <1>5, LenProperties, Constants
<1>9. buffer' \in [Ends -> Seq(U)]
  BY <1>3, <1>4, <1>5 DEF PipeTypes, U
<1>10. \A d \in Ends : Len(buffer'[d]) <= BufferSize
  <2>1. Len(rest) <= BufferSize
    BY <1>1, <1>5, <1>8
  <2>. QED
    BY <1>6, <1>7, <2>1
<1>11. /\ \A d \in Ends : buffer'[d] # <<>> => buffer[d] # <<>>
       /\ \A d \in Ends : d # e => buffer'[d] = buffer[d]
  BY <1>5, <1>6
<1>. QED
  BY <1>9, <1>10, <1>11 DEF U

\* Writing to a buffer: it is not empty then.
LEMMA PutBuffer ==
  ASSUME PipeTypes, NEW g \in Goroutines, NEW e \in Ends, NEW m \in Nat, NEW n, NEW c,
         m <= Room(e), Put(g, e, m, n, c)
  PROVE  /\ buffer' \in [Ends -> Seq([by : Goroutines, n : Nat])]
         /\ written' \in [Goroutines -> Nat]
         /\ \A d \in Ends : Len(buffer'[d]) <= BufferSize
         /\ \A d \in Ends : d # e => buffer'[d] = buffer[d]
         /\ Len(buffer'[e]) = Len(buffer[e]) + m
<1>. DEFINE U == [by : Goroutines, n : Nat]
<1>1. buffer[e] \in Seq(U) /\ Len(buffer[e]) \in Nat /\ written[g] \in Nat
  BY LenProperties DEF PipeTypes
<1>2. Units(g, m) \in Seq(U) /\ Len(Units(g, m)) = m
  <2>1. \A i \in 1..m : [by |-> g, n |-> written[g] + i] \in U
    BY <1>1
  <2>2. Units(g, m) \in [1..m -> U]
    BY <2>1 DEF Units
  <2>. QED
    BY <2>2, SeqDef DEF Units
<1>3. PICK b : b = buffer[e] \o Units(g, m)
  OBVIOUS
<1>. HIDE DEF U
<1>4. b \in Seq(U) /\ Len(b) = Len(buffer[e]) + m
  <2>1. PICK us \in Seq(U) : us = Units(g, m) /\ Len(us) = m
    BY <1>2
  <2>2. buffer[e] \o us \in Seq(U) /\ Len(buffer[e] \o us) = Len(buffer[e]) + Len(us)
    BY <1>1, ConcatProperties
  <2>. QED
    BY <1>3, <2>1, <2>2
<1>5. buffer' = [buffer EXCEPT ![e] = b]
  BY <1>3 DEF Put
<1>6. \A d \in Ends : buffer'[d] = IF d = e THEN b ELSE buffer[d]
  BY <1>5 DEF PipeTypes
<1>7. Len(b) <= BufferSize
  BY <1>1, <1>4, Constants DEF Room
<1>8. buffer' \in [Ends -> Seq(U)]
  BY <1>4, <1>5 DEF PipeTypes, U
<1>9. written' \in [Goroutines -> Nat]
  BY <1>1 DEF Put, PipeTypes
<1>. QED
  BY <1>4, <1>6, <1>7, <1>8, <1>9 DEF PipeTypes, U

------------------------------------------------------------------------------
\* NoLostWakeup of one end.
NoneLost(e) ==
  /\ closed[e] => Waiting(ReadCond(e) \cup WriteCond(e)) = {}
  /\ buffer[e] # <<>> /\ ReadCond(e) # {} =>
       \E g \in ReadCond(e) : call[g].at # "waiting"
  /\ Waiting(WriteCond(e)) # {} =>
       buffer[e] # <<>> \/ \E g \in WriteCond(e) : call[g].at = "woken"

PipeInv == PipeTypes /\ \A e \in Ends : NoneLost(e)

\* A step that wakes goroutines, lets none wait, and may close ends at which
\* nobody waits any more.
LEMMA OnlyWakes ==
  ASSUME PipeInv, UNCHANGED <<buffer, written>>, closed' \in [Ends -> BOOLEAN],
         NEW gs, \A g \in gs : g \in Goroutines /\ call[g].at = "waiting",
         call' = Woken(call, gs),
         \A e \in Ends : closed'[e] => closed[e] \/ Waiting(ReadCond(e) \cup WriteCond(e)) \subseteq gs
  PROVE  PipeInv'
<1>1. PipeTypes'
  BY WokenType DEF PipeInv, PipeTypes
<1>2. \A g \in Goroutines : call'[g].at = IF g \in gs THEN "woken" ELSE call[g].at
  <2>1. call \in [Goroutines -> Calling]
    BY DEF PipeInv, PipeTypes
  <2>. QED
    BY <2>1, WokenCalls
<1>3. ASSUME NEW e \in Ends PROVE NoneLost(e)'
  <2>1. NoneLost(e)
    BY DEF PipeInv
  <2>2. \A g \in ReadCond(e) \cup WriteCond(e) : g \in Goroutines
    BY Conditions
  <2>3. /\ \A g \in Goroutines : call'[g].at = "waiting" => call[g].at = "waiting" /\ g \notin gs
        /\ \A g \in Goroutines : call[g].at = "woken" => call'[g].at = "woken"
    BY <1>2
  <2>4. closed'[e] => Waiting(ReadCond(e) \cup WriteCond(e))' = {}
    BY <2>1, <2>2, <2>3 DEF NoneLost, Waiting, ReadCond, WriteCond
  <2>5. buffer'[e] # <<>> /\ ReadCond(e) # {} =>
          \E g \in ReadCond(e) : call'[g].at # "waiting"
    BY <2>1, <2>2, <2>3 DEF NoneLost
  <2>6. Waiting(WriteCond(e))' # {} =>
          buffer'[e] # <<>> \/ \E g \in WriteCond(e) : call'[g].at = "woken"
    BY <2>1, <2>2, <2>3 DEF NoneLost, Waiting, WriteCond
  <2>. QED
    BY <2>4, <2>5, <2>6 DEF NoneLost, ReadCond, WriteCond
<1>. QED
  BY <1>1, <1>3 DEF PipeInv

\* A Read that takes: it tells a writer, who will see that the buffer is empty.
LEMMA TakeLosesNone ==
  ASSUME PipeInv, NEW e \in Ends, NEW n \in Nat \ {0}, NEW c \in [Goroutines -> Calling],
         \A g \in Goroutines : c[g] = call[g] \/ (g \in DOMAIN Readers /\ c[g] = Idle),
         Take(e, n, c)
  PROVE  PipeInv'
<1>1. /\ \A g \in DOMAIN Writers : g \in Goroutines /\ g \notin DOMAIN Readers /\ c[g] = call[g]
      /\ SomethingLeft(c)
  BY Constants DEF PipeInv, PipeTypes, SomethingLeft
<1>2. /\ WriteCond(e) \subseteq Goroutines /\ WriteCond(e) \subseteq DOMAIN Writers
      /\ \A g \in Waiting(WriteCond(e)) : c[g] = call[g]
  BY <1>1, Conditions DEF Waiting
<1>3. PICK gs \in SUBSET Waiting(WriteCond(e)) :
        /\ call' = Woken(c, gs)
        /\ Waiting(WriteCond(e)) # {} => gs # {}
  BY <1>2, SignalWakes DEF Take
<1>4. PipeTypes'
  <2>1. /\ buffer' \in [Ends -> Seq([by : Goroutines, n : Nat])]
        /\ \A d \in Ends : Len(buffer'[d]) <= BufferSize
    BY TakeBuffer DEF PipeInv
  <2>2. call' \in [Goroutines -> Calling] /\ SomethingLeft(call')
    BY <1>1, <1>2, SignalledType DEF PipeInv, Take
  <2>. QED
    BY <2>1, <2>2 DEF PipeInv, PipeTypes, Take, SomethingLeft
<1>5. /\ \A g \in Goroutines : call'[g].at = "waiting" => call[g].at = "waiting"
      /\ \A g \in DOMAIN Writers : call[g].at = "woken" => call'[g].at = "woken"
      /\ \A g \in gs : g \in WriteCond(e) /\ call'[g].at = "woken"
  <2>1. \A g \in Goroutines : call'[g].at = IF g \in gs THEN "woken" ELSE c[g].at
    BY <1>3, WokenCalls
  <2>2. Idle.at = "idle" /\ \A g \in gs : g \in WriteCond(e)
    BY <1>3 DEF Idle, Waiting
  <2>. QED
    BY <1>1, <1>2, <2>1, <2>2
<1>6. ASSUME NEW d \in Ends PROVE NoneLost(d)'
  <2>1. /\ NoneLost(d) /\ closed'[d] = closed[d]
        /\ buffer'[d] # <<>> => buffer[d] # <<>>
        /\ d # e => buffer'[d] = buffer[d]
    BY TakeBuffer DEF PipeInv, Take
  <2>2. /\ \A g \in ReadCond(d) \cup WriteCond(d) : g \in Goroutines
        /\ \A g \in WriteCond(d) : g \in DOMAIN Writers
    BY Conditions
  <2>3. closed'[d] => Waiting(ReadCond(d) \cup WriteCond(d))' = {}
    BY <1>5, <2>1, <2>2 DEF NoneLost, Waiting, ReadCond, WriteCond
  <2>4. buffer'[d] # <<>> /\ ReadCond(d) # {} =>
          \E g \in ReadCond(d) : call'[g].at # "waiting"
    BY <1>5, <2>1, <2>2 DEF NoneLost
  <2>5. Waiting(WriteCond(d))' # {} =>
          buffer'[d] # <<>> \/ \E g \in WriteCond(d) : call'[g].at = "woken"
    <3>1. Waiting(WriteCond(d))' # {} => Waiting(WriteCond(d)) # {}
      BY <1>5, <2>2 DEF Waiting, WriteCond
    <3>2. CASE d = e
      BY <1>3, <1>5, <3>1, <3>2
    <3>3. CASE d # e
      BY <1>5, <2>1, <2>2, <3>1, <3>3 DEF NoneLost
    <3>. QED
      BY <3>2, <3>3
  <2>. QED
    BY <2>3, <2>4, <2>5 DEF NoneLost, ReadCond, WriteCond
<1>. QED
  BY <1>4, <1>6 DEF PipeInv

\* A Write that puts something into the buffer, or leaves it full, tells a
\* reader; it waits only if the buffer is full.
LEMMA PutLosesNone ==
  ASSUME PipeInv, NEW g \in Goroutines, NEW e \in Ends, ~closed[e],
         NEW m \in Nat, NEW n \in Nat, m >= 1 => n >= 1, m <= Room(e), m >= 1 \/ m = Room(e),
         NEW c \in [Goroutines -> Calling], SomethingLeft(c),
         \A h \in Goroutines : c[h] = call[h] \/ (h = g /\ h \in WriteCond(e)),
         Put(g, e, m, n, c)
  PROVE  PipeInv'
<1>1. /\ ReadCond(e) \subseteq Goroutines
      /\ \A h \in Waiting(ReadCond(e)) : h \in Goroutines /\ c[h] = call[h]
  BY Conditions DEF Waiting
<1>2. PICK gs \in SUBSET Waiting(ReadCond(e)) :
        /\ call' = Woken(c, gs)
        /\ n >= 1 /\ Waiting(ReadCond(e)) # {} => gs # {}
  BY <1>1, SignalWakes DEF Put
<1>3. /\ buffer' \in [Ends -> Seq([by : Goroutines, n : Nat])]
      /\ written' \in [Goroutines -> Nat]
      /\ \A d \in Ends : Len(buffer'[d]) <= BufferSize
      /\ \A d \in Ends : d # e => buffer'[d] = buffer[d]
      /\ Len(buffer'[e]) = Len(buffer[e]) + m
  BY PutBuffer DEF PipeInv
<1>4. PipeTypes'
  <2>1. call' \in [Goroutines -> Calling] /\ SomethingLeft(call')
    BY <1>1, SignalledType DEF PipeInv, Put
  <2>. QED
    BY <1>3, <2>1 DEF PipeInv, PipeTypes, Put, SomethingLeft
<1>5. buffer'[e] # <<>>
  <2>1. Len(buffer[e]) \in Nat /\ Len(buffer[e]) <= BufferSize
    BY LenProperties DEF PipeInv, PipeTypes
  <2>2. Len(buffer'[e]) >= 1
    BY <1>3, <2>1, Constants DEF Room
  <2>. QED
    BY <2>2
<1>6. \A h \in Goroutines : call'[h].at = IF h \in gs THEN "woken" ELSE c[h].at
  BY <1>2, WokenCalls
<1>7. \A h \in gs : h \in ReadCond(e)
  BY <1>2 DEF Waiting
<1>8. ASSUME NEW d \in Ends PROVE NoneLost(d)'
  <2>1. NoneLost(d) /\ closed'[d] = closed[d]
    BY DEF PipeInv, Put
  <2>2. /\ \A h \in ReadCond(d) \cup WriteCond(d) : h \in Goroutines
        /\ \A h \in ReadCond(d) : h \notin WriteCond(e)
        /\ \A h \in WriteCond(d) : h \notin ReadCond(e)
    BY Conditions
  <2>3. \A h \in WriteCond(d) : d # e => h \notin WriteCond(e)
    BY Peers DEF WriteCond
  <2>4. \A h \in ReadCond(d) : call'[h].at = "waiting" => call[h].at = "waiting" /\ h \notin gs
    BY <1>6, <2>2
  <2>5. d # e => \A h \in WriteCond(d) : call'[h].at = call[h].at
    BY <1>6, <1>7, <2>2, <2>3
  <2>6. closed'[d] => Waiting(ReadCond(d) \cup WriteCond(d))' = {}
    <3>. SUFFICES ASSUME closed'[d] PROVE Waiting(ReadCond(d) \cup WriteCond(d))' = {}
      OBVIOUS
    <3>1. d # e /\ Waiting(ReadCond(d) \cup WriteCond(d)) = {}
      BY <2>1 DEF NoneLost
    <3>. QED
      BY <2>2, <2>4, <2>5, <3>1 DEF Waiting, ReadCond, WriteCond
  <2>7. buffer'[d] # <<>> /\ ReadCond(d) # {} =>
          \E h \in ReadCond(d) : call'[h].at # "waiting"
    <3>1. CASE d # e
      BY <1>3, <2>1, <2>4, <3>1 DEF NoneLost
    <3>2. CASE d = e /\ buffer[e] # <<>>
      BY <2>1, <2>4, <3>2 DEF NoneLost
    <3>3. CASE d = e /\ buffer[e] = <<>>
      <4>1. n >= 1
        <5>1. Len(buffer[e]) = 0
          BY <3>3
        <5>. QED
          BY <5>1, Constants DEF Room
      <4>2. \A h \in ReadCond(e) : h \in Waiting(ReadCond(e)) \/ call[h].at # "waiting"
        BY DEF Waiting
      <4>. QED
        BY <1>2, <1>7, <2>4, <3>3, <4>1, <4>2
    <3>. QED
      BY <3>1, <3>2, <3>3
  <2>8. Waiting(WriteCond(d))' # {} =>
          buffer'[d] # <<>> \/ \E h \in WriteCond(d) : call'[h].at = "woken"
    <3>1. CASE d = e
      BY <1>5, <3>1
    <3>2. CASE d # e
      <4>1. Waiting(WriteCond(d))' # {} => Waiting(WriteCond(d)) # {}
        BY <2>5, <3>2 DEF Waiting, WriteCond
      <4>2. Waiting(WriteCond(d)) # {} =>
              buffer[d] # <<>> \/ \E h \in WriteCond(d) : call[h].at = "woken"
        BY <2>1 DEF NoneLost
      <4>. QED
        BY <1>3, <2>5, <3>2, <4>1, <4>2
    <3>. QED
      BY <3>1, <3>2
  <2>. QED
    BY <2>6, <2>7, <2>8 DEF NoneLost, ReadCond, WriteCond
<1>. QED
  BY <1>4, <1>8 DEF PipeInv

\* What Read does.
LEMMA ReadLosesNone ==
  ASSUME PipeInv, NEW g \in DOMAIN Readers, Read(g)
  PROVE  PipeInv'
<1>. DEFINE e == Readers[g]
<1>1. e \in Ends /\ g \in Goroutines /\ g \notin DOMAIN Writers /\ call \in [Goroutines -> Calling]
  BY Constants DEF PipeInv, PipeTypes
<1>2. CASE buffer[e] # <<>> /\ \E n \in ReadSizes : Take(e, n, [call EXCEPT ![g] = Idle])
  <2>1. PICK n \in ReadSizes : Take(e, n, [call EXCEPT ![g] = Idle])
    BY <1>2
  <2>2. n \in Nat \ {0} /\ Idle \in Calling
    BY Constants DEF Idle, Calling
  <2>3. PICK c : c = [call EXCEPT ![g] = Idle]
    OBVIOUS
  <2>4. /\ c \in [Goroutines -> Calling]
        /\ \A h \in Goroutines : c[h] = call[h] \/ (h \in DOMAIN Readers /\ c[h] = Idle)
    BY <1>1, <2>2, <2>3
  <2>. HIDE DEF e
  <2>. QED
    BY <1>1, <2>1, <2>2, <2>3, <2>4, TakeLosesNone
<1>3. CASE /\ buffer[e] = <<>>
           /\ call' = [call EXCEPT ![g] = IF closed[e] \/ readDeadline[e] = "past"
                                            THEN Idle ELSE WaitWith(readDeadline[e], 0)]
           /\ UNCHANGED <<buffer, closed, deadlines, written, seen>>
  <2>1. PICK new : new = IF closed[e] \/ readDeadline[e] = "past"
                           THEN Idle ELSE WaitWith(readDeadline[e], 0)
    OBVIOUS
  <2>2. new \in Calling /\ (closed[e] => new.at = "idle")
    BY <2>1 DEF Idle, WaitWith, Calling
  <2>3. call' = [call EXCEPT ![g] = new]
    BY <1>3, <2>1
  <2>. HIDE DEF e
  <2>4. /\ call' \in [Goroutines -> Calling] /\ call'[g] = new
        /\ \A h \in Goroutines : h # g => call'[h] = call[h]
    BY <1>1, <2>2, <2>3
  <2>5. PipeTypes'
    BY <1>1, <1>3, <2>4, Constants DEF PipeInv, PipeTypes, SomethingLeft
  <2>6. ASSUME NEW d \in Ends PROVE NoneLost(d)'
    <3>1. /\ NoneLost(d) /\ closed'[d] = closed[d] /\ buffer'[d] = buffer[d]
          /\ \A h \in ReadCond(d) \cup WriteCond(d) : h \in Goroutines
          /\ \A h \in WriteCond(d) : h # g
          /\ \A h \in ReadCond(d) : d # e => h # g
      BY <1>1, <1>3, Conditions DEF PipeInv, ReadCond, e
    <3>2. closed'[d] => Waiting(ReadCond(d) \cup WriteCond(d))' = {}
      <4>. SUFFICES ASSUME closed'[d], NEW h \in ReadCond(d) \cup WriteCond(d),
                           call'[h].at = "waiting"
                    PROVE  FALSE
        BY DEF Waiting, ReadCond, WriteCond
      <4>1. call[h].at # "waiting"
        BY <3>1 DEF NoneLost, Waiting
      <4>2. h = g /\ d = e
        BY <2>4, <3>1, <4>1
      <4>. QED
        BY <2>2, <2>4, <3>1, <4>2
    <3>3. buffer'[d] # <<>> /\ ReadCond(d) # {} =>
            \E h \in ReadCond(d) : call'[h].at # "waiting"
      <4>. SUFFICES ASSUME buffer'[d] # <<>>, ReadCond(d) # {}
                    PROVE  \E h \in ReadCond(d) : call'[h].at # "waiting"
        OBVIOUS
      <4>1. d # e
        BY <1>3, <3>1
      <4>. QED
        BY <2>4, <3>1, <4>1 DEF NoneLost
    <3>4. Waiting(WriteCond(d))' # {} =>
            buffer'[d] # <<>> \/ \E h \in WriteCond(d) : call'[h].at = "woken"
      BY <2>4, <3>1 DEF NoneLost, Waiting, WriteCond
    <3>. QED
      BY <3>2, <3>3, <3>4 DEF NoneLost, ReadCond, WriteCond
  <2>. QED
    BY <2>5, <2>6 DEF PipeInv
<1>. QED
  BY <1>2, <1>3 DEF Read

\* What TryRead does.
LEMMA TryReadLosesNone ==
  ASSUME PipeInv, NEW e \in Ends, TryRead(e)
  PROVE  PipeInv'
<1>1. PICK n \in ReadSizes : Take(e, n, call)
  BY DEF TryRead
<1>2. n \in Nat \ {0} /\ call \in [Goroutines -> Calling]
  BY Constants DEF PipeInv, PipeTypes
<1>. QED
  BY <1>1, <1>2, TakeLosesNone

\* The room in a buffer, and the chunks of a Write.
LEMMA RoomType ==
  ASSUME PipeTypes, NEW e \in Ends
  PROVE  Room(e) \in Nat
<1>1. Len(buffer[e]) \in Nat /\ Len(buffer[e]) <= BufferSize
  BY LenProperties DEF PipeTypes
<1>. QED
  BY <1>1, Constants DEF Room

LEMMA ChunksType ==
  ASSUME NEW m \in Nat
  PROVE  Chunks(m) \in Nat /\ (m >= 1 => Chunks(m) >= 1)
<1>1. \A a, b \in Nat : b >= 1 => a \div b \in Nat /\ (a >= b => a \div b >= 1)
  BY SMT
<1>2. m + MaxSize - 1 \in Nat /\ MaxSize \in Nat /\ MaxSize >= 1
  BY Constants
<1>3. m >= 1 => m + MaxSize - 1 >= MaxSize
  BY <1>2
<1>4. (m + MaxSize - 1) \div MaxSize \in Nat
  BY <1>1, <1>2
<1>5. m >= 1 => (m + MaxSize - 1) \div MaxSize >= 1
  BY <1>1, <1>2, <1>3
<1>. QED
  BY <1>4, <1>5 DEF Chunks

\* What Write does when it is called or woken.
LEMMA WriteLosesNone ==
  ASSUME PipeInv, NEW g \in DOMAIN Writers, NEW left \in Nat, left >= 1,
         PutOrWait(g, left)
  PROVE  PipeInv'
<1>1. PICK e \in Ends : e = Peer(Writers[g])
  BY Constants, Peers
<1>2. /\ g \in Goroutines /\ g \in WriteCond(e) /\ call \in [Goroutines -> Calling]
      /\ SomethingLeft(call)
      /\ Peer(e) = Writers[g]
  BY <1>1, Constants, Peers DEF PipeInv, PipeTypes, WriteCond
<1>3. CASE closed[e]
  <2>1. call' = [call EXCEPT ![g] = Idle] /\ UNCHANGED <<buffer, closed, written>>
    BY <1>1, <1>3 DEF PutOrWait
  <2>2. /\ call' \in [Goroutines -> Calling] /\ call'[g].at = "idle"
        /\ \A h \in Goroutines : h # g => call'[h] = call[h]
    BY <1>2, <2>1 DEF Idle, Calling
  <2>3. PipeTypes'
    BY <1>2, <2>1, <2>2, Constants DEF PipeInv, PipeTypes, SomethingLeft
  <2>4. ASSUME NEW d \in Ends PROVE NoneLost(d)'
    <3>1. /\ NoneLost(d) /\ closed'[d] = closed[d] /\ buffer'[d] = buffer[d]
          /\ \A h \in ReadCond(d) \cup WriteCond(d) : h \in Goroutines
          /\ \A h \in ReadCond(d) : h # g
          /\ \A h \in WriteCond(d) : d # e => h # g
      BY <1>1, <1>2, <2>1, Conditions, Peers DEF PipeInv, WriteCond
    <3>2. \A h \in ReadCond(d) \cup WriteCond(d) :
            call'[h].at = "waiting" => call[h].at = "waiting"
      BY <2>2, <3>1
    <3>3. closed'[d] => Waiting(ReadCond(d) \cup WriteCond(d))' = {}
      BY <3>1, <3>2 DEF NoneLost, Waiting, ReadCond, WriteCond
    <3>4. buffer'[d] # <<>> /\ ReadCond(d) # {} =>
            \E h \in ReadCond(d) : call'[h].at # "waiting"
      BY <3>1, <3>2 DEF NoneLost
    <3>5. Waiting(WriteCond(d))' # {} =>
            buffer'[d] # <<>> \/ \E h \in WriteCond(d) : call'[h].at = "woken"
      <4>1. CASE d = e
        BY <1>3, <3>1, <3>3, <4>1 DEF Waiting, WriteCond
      <4>2. CASE d # e
        BY <2>2, <3>1, <4>2 DEF NoneLost, Waiting, WriteCond
      <4>. QED
        BY <4>1, <4>2
    <3>. QED
      BY <3>3, <3>4, <3>5 DEF NoneLost, ReadCond, WriteCond
  <2>. QED
    BY <2>3, <2>4 DEF PipeInv
<1>4. CASE ~closed[e]
  <2>1. PICK m, deadline : m = Min({left, Room(e)}) /\ deadline = writeDeadline[Writers[g]]
    OBVIOUS
  <2>2. PICK n : n = IF call[g].at = "woken" THEN Max({Chunks(m), 1}) ELSE Chunks(m)
    OBVIOUS
  <2>3. PICK new : new = IF m = left \/ deadline = "past" THEN Idle
                           ELSE WaitWith(deadline, left - m)
    OBVIOUS
  <2>4. Put(g, e, m, n, [call EXCEPT ![g] = new])
    BY <1>1, <1>4, <2>1, <2>2, <2>3 DEF PutOrWait
  <2>5. Room(e) \in Nat
    BY RoomType DEF PipeInv
  <2>6. m \in Nat /\ m <= left /\ m <= Room(e) /\ (m >= 1 \/ m = Room(e))
    BY <2>1, <2>5, MinOfTwo
  <2>7. n \in Nat /\ (m >= 1 => n >= 1)
    BY <2>2, <2>6, ChunksType, MaxOfTwo
  <2>8. new \in Calling /\ (new.at # "idle" => new.left >= 1)
    <3>1. m # left => left - m \in Nat /\ left - m >= 1
      BY <2>6
    <3>. QED
      BY <2>3, <3>1 DEF Idle, WaitWith, Calling
  <2>9. PICK c : c = [call EXCEPT ![g] = new]
    OBVIOUS
  <2>10. /\ c \in [Goroutines -> Calling] /\ c[g] = new
         /\ \A h \in Goroutines : h # g => c[h] = call[h]
    BY <1>2, <2>8, <2>9
  <2>11. /\ SomethingLeft(c)
         /\ \A h \in Goroutines : c[h] = call[h] \/ (h = g /\ h \in WriteCond(e))
    BY <1>2, <2>8, <2>10, Constants DEF SomethingLeft
  <2>12. Put(g, e, m, n, c)
    BY <2>4, <2>9
  <2>. QED
    BY <1>2, <1>4, <2>6, <2>7, <2>10, <2>11, <2>12, PutLosesNone
<1>. QED
  BY <1>3, <1>4

\* What TryWrite does.
LEMMA TryWriteLosesNone ==
  ASSUME PipeInv, NEW g \in DOMAIN TryWriters, TryWrite(g)
  PROVE  PipeInv'
<1>1. PICK e \in Ends : e = TryWriters[g]
  BY Constants
<1>2. PICK n \in WriteSizes : Put(g, e, Min({n, Room(e), MaxSize}), 1, call)
  BY <1>1 DEF TryWrite
<1>3. Room(e) \in Nat /\ Room(e) > 0 /\ ~closed[e]
  BY <1>1, RoomType DEF PipeInv, TryWrite
<1>4. PICK m : m = Min({n, Room(e), MaxSize})
  OBVIOUS
<1>5. n \in Nat /\ n >= 1 /\ MaxSize \in Nat /\ MaxSize >= 1 /\ g \in Goroutines
  BY Constants
<1>6. m \in Nat /\ m >= 1 /\ m <= Room(e)
  BY <1>3, <1>4, <1>5, MinOfThree
<1>7. call \in [Goroutines -> Calling] /\ SomethingLeft(call)
  BY DEF PipeInv, PipeTypes
<1>. QED
  BY <1>2, <1>3, <1>4, <1>5, <1>6, <1>7, PutLosesNone

\* Every step keeps the invariant.
LEMMA NextPipe == PipeInv /\ [Next]_vars => PipeInv'
<1>. SUFFICES ASSUME PipeInv, [Next]_vars PROVE PipeInv'
  OBVIOUS
<1>0. closed \in [Ends -> BOOLEAN]
  BY DEF PipeInv, PipeTypes
<1>1. ASSUME UNCHANGED <<buffer, closed, call, written>> PROVE PipeInv'
  <2>1. PipeTypes'
    BY <1>1 DEF PipeInv, PipeTypes, SomethingLeft
  <2>2. ASSUME NEW e \in Ends PROVE NoneLost(e)'
    <3>1. NoneLost(e) /\ \A gs : Waiting(gs)' = Waiting(gs)
      BY <1>1 DEF PipeInv, Waiting
    <3>. QED
      BY <1>1, <3>1 DEF NoneLost, ReadCond, WriteCond
  <2>. QED
    BY <2>1, <2>2 DEF PipeInv
<1>2. ASSUME NEW e \in Ends, UNCHANGED <<buffer, closed, written>>,
             \/ call' = Woken(call, Waiting(ReadCond(e)))
             \/ call' = Woken(call, Waiting(WriteCond(e)))
             \/ call' = Woken(call, Waiting(ReadCond(e) \cup WriteCond(e)))
      PROVE  PipeInv'
  <2>1. PICK gs : /\ call' = Woken(call, gs)
                  /\ gs \subseteq Waiting(ReadCond(e) \cup WriteCond(e))
    BY <1>2 DEF Waiting
  <2>2. \A g \in gs : g \in Goroutines /\ call[g].at = "waiting"
    BY <2>1, Conditions DEF Waiting
  <2>. QED
    BY <1>0, <1>2, <2>1, <2>2, OnlyWakes
<1>3. CASE UNCHANGED vars
  BY <1>1, <1>3 DEF vars
<1>4. ASSUME NEW g \in DOMAIN Readers, Read(g) \/ ReadTimer(g) PROVE PipeInv'
  <2>1. CASE Read(g)
    BY <2>1, ReadLosesNone
  <2>2. CASE ReadTimer(g)
    BY <1>2, <2>2, Constants DEF ReadTimer
  <2>. QED
    BY <1>4, <2>1, <2>2
<1>5. ASSUME NEW g \in DOMAIN Writers, Write(g) \/ ResumeWrite(g) \/ WriteTimer(g)
      PROVE  PipeInv'
  <2>1. CASE Write(g)
    <3>1. PICK n \in WriteSizes : PutOrWait(g, n)
      BY <2>1 DEF Write
    <3>. QED
      BY <3>1, Constants, WriteLosesNone
  <2>2. CASE ResumeWrite(g)
    <3>1. call[g].left \in Nat /\ call[g].left >= 1 /\ PutOrWait(g, call[g].left)
      BY <2>2, Constants DEF ResumeWrite, PipeInv, PipeTypes, SomethingLeft, Calling
    <3>. QED
      BY <3>1, WriteLosesNone
  <2>3. CASE WriteTimer(g)
    BY <1>2, <2>3, Constants, Peers DEF WriteTimer
  <2>. QED
    BY <1>5, <2>1, <2>2, <2>3
<1>6. ASSUME NEW g \in DOMAIN TryWriters, TryWrite(g) PROVE PipeInv'
  BY <1>6, TryWriteLosesNone
<1>7. ASSUME NEW e \in Ends, TryRead(e) \/ Close(e) \/ Expire(e) PROVE PipeInv'
  <2>1. CASE TryRead(e)
    BY <2>1, TryReadLosesNone
  <2>2. CASE Close(e)
    <3>1. PICK gs : gs = Waiting(ReadCond(e) \cup WriteCond(e))
      OBVIOUS
    <3>2. /\ call' = Woken(call, gs) /\ UNCHANGED <<buffer, written>>
          /\ closed' = [closed EXCEPT ![e] = TRUE]
      BY <2>2, <3>1 DEF Close
    <3>3. \A g \in gs : g \in Goroutines /\ call[g].at = "waiting"
      BY <3>1, Conditions DEF Waiting
    <3>4. /\ closed' \in [Ends -> BOOLEAN]
          /\ \A d \in Ends : closed'[d] =>
               closed[d] \/ Waiting(ReadCond(d) \cup WriteCond(d)) \subseteq gs
      BY <1>0, <3>1, <3>2
    <3>. QED
      BY <3>2, <3>3, <3>4, OnlyWakes
  <2>3. CASE Expire(e)
    BY <1>1, <2>3 DEF Expire
  <2>. QED
    BY <1>7, <2>1, <2>2, <2>3
<1>8. ASSUME NEW e \in Ends, NEW t \in Times,
             SetReadDeadline(e, t) \/ SetWriteDeadline(e, t) \/ SetDeadline(e, t)
      PROVE  PipeInv'
  BY <1>2, <1>8 DEF SetReadDeadline, SetWriteDeadline, SetDeadline
<1>. QED
  BY <1>3, <1>4, <1>5, <1>6, <1>7, <1>8 DEF Next

\* The initial states.
LEMMA InitPipe == Init => PipeInv
<1>. SUFFICES ASSUME Init PROVE PipeInv
  OBVIOUS
<1>1. \A g \in Goroutines : call[g] = Idle
  BY DEF Init
<1>2. /\ call \in [Goroutines -> Calling] /\ \A g \in Goroutines : call[g].at = "idle"
  BY DEF Init, Idle, Calling
<1>3. PipeTypes
  <2>1. /\ buffer = [e \in Ends |-> <<>>] /\ closed = [e \in Ends |-> FALSE]
        /\ written = [g \in Goroutines |-> 0]
    BY DEF Init
  <2>2. <<>> \in Seq([by : Goroutines, n : Nat]) /\ Len(<<>>) = 0
    OBVIOUS
  <2>3. \A e \in Ends : buffer[e] = <<>> /\ Len(buffer[e]) = 0
    BY <2>1, <2>2
  <2>4. SomethingLeft(call)
    BY <1>2, Constants DEF SomethingLeft
  <2>5. \A e \in Ends : Len(buffer[e]) <= BufferSize
    BY <2>3, Constants
  <2>. QED
    BY <1>2, <2>1, <2>2, <2>4, <2>5 DEF PipeTypes
<1>4. \A e \in Ends : NoneLost(e)
  BY <1>2, Conditions DEF NoneLost, Waiting, Init
<1>. QED
  BY <1>3, <1>4 DEF PipeInv

\* No wakeup is lost: data in a buffer never has all its readers asleep, nobody
\* sleeps at a closed end, and writers sleep only while a Read is still to come
\* that wakes one, or one has been woken; however calls, deadlines, timers and
\* Close interleave.
THEOREM NoWakeupIsLost == Spec => []NoLostWakeup
<1>1. PipeInv => NoLostWakeup
  BY DEF PipeInv, NoneLost, NoLostWakeup
<1>. QED
  BY <1>1, InitPipe, NextPipe, PTL DEF Spec

------------------------------------------------------------------------------
\* Any set of numbers has a smallest one.
LEMMA SmallestNumber ==
  ASSUME NEW T, T \subseteq Nat, T # {}
  PROVE  \E x \in T : \A y \in T : x <= y
<1>. DEFINE R == OpToRel(<, Nat)
<1>1. IsWellFoundedOn(R, Nat)
  BY NatLessThanWellFounded
<1>2. \A x, y \in Nat : y < x => <<y, x>> \in R
  BY DEF OpToRel
<1>. HIDE DEF R
<1>3. PICK x \in T : \A y \in T : <<y, x>> \notin R
  BY <1>1, WFMin
<1>4. \A y \in T : x <= y
  <2>. TAKE y \in T
  <2>1. x \in Nat /\ y \in Nat /\ ~(y < x)
    BY <1>2, <1>3
  <2>. QED
    BY <2>1
<1>. QED
  BY <1>4

\* A bounded set of numbers has a largest one.
LEMMA LargestNumber ==
  ASSUME NEW A, A \subseteq Nat, A # {}, NEW hi \in Nat, \A a \in A : a <= hi
  PROVE  Max(A) \in A /\ \A a \in A : a <= Max(A)
<1>. DEFINE T == {w \in Nat : \A a \in A : a <= w}
<1>1. PICK w \in T : \A y \in T : w <= y
  <2>1. hi \in T
    OBVIOUS
  <2>. HIDE DEF T
  <2>2. T \subseteq Nat
    BY DEF T
  <2>. QED
    BY <2>1, <2>2, SmallestNumber
<1>2. w \in Nat /\ \A a \in A : a <= w
  OBVIOUS
<1>3. w \in A
  <2>. SUFFICES ASSUME w \notin A PROVE FALSE
    OBVIOUS
  <2>1. \A a \in A : a \in Nat /\ a <= w /\ a # w
    BY <1>2
  <2>2. w >= 1 /\ \A a \in A : a <= w - 1
    <3>1. PICK a \in A : a <= w /\ a # w /\ a \in Nat
      BY <2>1
    <3>2. w >= 1
      BY <1>2, <3>1
    <3>. QED
      BY <1>2, <2>1, <3>2
  <2>3. w - 1 \in T
    BY <1>2, <2>2
  <2>. QED
    BY <1>1, <1>2, <2>3
<1>4. \A x \in A : (\A y \in A : x >= y) <=> x = w
  <2>. TAKE x \in A
  <2>. HIDE DEF T
  <2>1. x \in Nat
    OBVIOUS
  <2>2. ASSUME \A y \in A : x >= y PROVE x = w
    <3>1. x >= w /\ x <= w
      BY <1>2, <1>3, <2>2
    <3>. QED
      BY <1>2, <2>1, <3>1
  <2>3. ASSUME x = w PROVE \A y \in A : x >= y
    <3>. TAKE y \in A
    <3>1. y \in Nat /\ y <= w
      BY <1>2
    <3>. QED
      BY <1>2, <2>3, <3>1
  <2>. QED
    BY <2>2, <2>3
<1>. HIDE DEF T
<1>5. Max(A) = w
  BY <1>3, <1>4 DEF Max
<1>. QED
  BY <1>2, <1>3, <1>5

\* InOrder of one goroutine: its units in b are lo + 1 to hi, in this order.
OrderOf(b, g, lo, hi) ==
  /\ \A i \in 1..Len(b) : b[i].by = g => lo < b[i].n /\ b[i].n <= hi
  /\ \A x \in (lo + 1)..hi : \E i \in 1..Len(b) : b[i].by = g /\ b[i].n = x
  /\ \A i, j \in 1..Len(b) : b[i].by = g /\ b[j].by = g /\ i < j => b[i].n < b[j].n

Unit == [by : Goroutines, n : Nat]

LEMMA OrderIsOrderOf ==
  ASSUME buffer \in [Ends -> Seq(Unit)], written \in [Goroutines -> Nat],
         seen \in [Goroutines -> Nat]
  PROVE  InOrder <=> \A g \in Written : OrderOf(buffer[Target(g)], g, seen[g], written[g])
<1>1. ASSUME NEW g \in Written
      PROVE  LET b == buffer[Target(g)]
                 mine == {i \in DOMAIN b : b[i].by = g}
             IN (/\ {b[i].n : i \in mine} = (seen[g] + 1)..written[g]
                 /\ \A i, j \in mine : i < j => b[i].n < b[j].n)
                <=> OrderOf(b, g, seen[g], written[g])
  <2>1. Target(g) \in Ends /\ g \in Goroutines
    BY <1>1, Constants, Peers DEF Target, Written
  <2>2. PICK b, lo, hi : b = buffer[Target(g)] /\ lo = seen[g] /\ hi = written[g]
    OBVIOUS
  <2>3. b \in Seq(Unit) /\ lo \in Nat /\ hi \in Nat /\ DOMAIN b = 1..Len(b)
    BY <2>1, <2>2, LenProperties
  <2>4. \A i \in 1..Len(b) : b[i].n \in Nat
    <3>1. \A i \in 1..Len(b) : b[i] \in Unit
      BY <2>3, ElementOfSeq
    <3>. QED
      BY <3>1 DEF Unit
  <2>5. {b[i].n : i \in {i \in 1..Len(b) : b[i].by = g}} = (lo + 1)..hi
        <=> /\ \A i \in 1..Len(b) : b[i].by = g => lo < b[i].n /\ b[i].n <= hi
            /\ \A x \in (lo + 1)..hi : \E i \in 1..Len(b) : b[i].by = g /\ b[i].n = x
    <3>1. \A x \in Nat : x \in (lo + 1)..hi <=> lo < x /\ x <= hi
      BY <2>3
    <3>2. (lo + 1)..hi \subseteq Nat
      BY <2>3
    <3>. QED
      BY <2>4, <3>1, <3>2
  <2>6. (\A i, j \in {i \in 1..Len(b) : b[i].by = g} : i < j => b[i].n < b[j].n)
        <=> \A i, j \in 1..Len(b) : b[i].by = g /\ b[j].by = g /\ i < j => b[i].n < b[j].n
    OBVIOUS
  <2>7. (/\ {b[i].n : i \in {i \in DOMAIN b : b[i].by = g}} = (lo + 1)..hi
         /\ \A i, j \in {i \in DOMAIN b : b[i].by = g} : i < j => b[i].n < b[j].n)
        <=> OrderOf(b, g, lo, hi)
    BY <2>3, <2>5, <2>6 DEF OrderOf
  <2>. QED
    BY <2>2, <2>7
<1>. QED
  BY <1>1 DEF InOrder

\* Units of g that are appended are the next ones; those of others stay.
LEMMA AppendedOrder ==
  ASSUME NEW b \in Seq(Unit), NEW g \in Goroutines, NEW m \in Nat, written[g] \in Nat,
         NEW h \in Goroutines, NEW lo \in Nat, NEW hi \in Nat, lo <= hi,
         OrderOf(b, h, lo, hi), h = g => hi = written[g]
  PROVE  OrderOf(b \o Units(g, m), h, lo, IF h = g THEN hi + m ELSE hi)
<1>. DEFINE n == Len(b)
            c == b \o Units(g, m)
            top == IF h = g THEN hi + m ELSE hi
<1>1. n \in Nat /\ \A i \in 1..n : b[i] \in Unit
  BY LenProperties, ElementOfSeq
<1>2. Units(g, m) \in Seq(Unit) /\ Len(Units(g, m)) = m
      /\ \A i \in 1..m : Units(g, m)[i] = [by |-> g, n |-> written[g] + i]
  <2>1. \A i \in 1..m : [by |-> g, n |-> written[g] + i] \in Unit
    BY DEF Unit
  <2>2. Units(g, m) \in [1..m -> Unit]
    BY <2>1 DEF Units
  <2>. QED
    BY <2>2, SeqDef DEF Units
<1>3. /\ Len(c) = n + m
      /\ \A i \in 1..n : c[i] = b[i]
      /\ \A i \in (n + 1)..(n + m) : c[i].by = g /\ c[i].n = written[g] + (i - n)
  <2>0. PICK us \in Seq(Unit) : us = Units(g, m) /\ Len(us) = m
    BY <1>2
  <2>1. /\ Len(c) = n + m
        /\ \A i \in 1..(n + m) : c[i] = IF i <= n THEN b[i] ELSE us[i - n]
    <3>1. /\ Len(b \o us) = Len(b) + Len(us)
          /\ \A i \in 1..(Len(b) + Len(us)) :
               (b \o us)[i] = IF i <= Len(b) THEN b[i] ELSE us[i - Len(b)]
      BY ConcatProperties
    <3>. QED
      BY <2>0, <3>1
  <2>2. ASSUME NEW i \in (n + 1)..(n + m)
        PROVE  c[i].by = g /\ c[i].n = written[g] + (i - n)
    <3>1. i - n \in 1..m /\ i \in 1..(n + m) /\ ~(i <= n)
      BY <1>1
    <3>2. c[i] = us[i - n]
      BY <2>1, <3>1
    <3>3. us[i - n] = [by |-> g, n |-> written[g] + (i - n)]
      BY <1>2, <2>0, <3>1
    <3>. HIDE DEF c
    <3>. QED
      BY <3>2, <3>3
  <2>. QED
    BY <1>1, <2>1, <2>2
<1>4. top \in Nat /\ hi <= top
  OBVIOUS
<1>. HIDE DEF n, c, top
<1>5. \A i \in 1..(n + m) :
        \/ i \in 1..n /\ c[i] = b[i] /\ b[i].n \in Nat
        \/ i \in (n + 1)..(n + m) /\ c[i].by = g /\ c[i].n = written[g] + (i - n)
  <2>. TAKE i \in 1..(n + m)
  <2>1. CASE i \in 1..n
    BY <1>1, <1>3, <2>1 DEF Unit
  <2>2. CASE i \in (n + 1)..(n + m)
    BY <1>3, <2>2
  <2>. QED
    BY <1>1, <2>1, <2>2
<1>6. /\ \A i \in 1..n : b[i].by = h => lo < b[i].n /\ b[i].n <= hi
      /\ \A x \in (lo + 1)..hi : \E i \in 1..n : b[i].by = h /\ b[i].n = x
      /\ \A i, j \in 1..n : b[i].by = h /\ b[j].by = h /\ i < j => b[i].n < b[j].n
  BY DEF OrderOf, n
<1>7. h = g => top = hi + m /\ hi = written[g]
  BY DEF top
<1>8. \A i \in 1..(n + m) : c[i].by = h => lo < c[i].n /\ c[i].n <= top
  <2>. TAKE i \in 1..(n + m)
  <2>1. CASE i \in 1..n /\ c[i] = b[i] /\ b[i].n \in Nat
    BY <1>4, <1>6, <2>1
  <2>2. CASE i \in (n + 1)..(n + m) /\ c[i].by = g /\ c[i].n = written[g] + (i - n)
    BY <1>1, <1>7, <2>2
  <2>. QED
    BY <1>5, <2>1, <2>2
<1>9. \A x \in (lo + 1)..top : \E i \in 1..(n + m) : c[i].by = h /\ c[i].n = x
  <2>. TAKE x \in (lo + 1)..top
  <2>1. CASE x <= hi
    <3>1. PICK i \in 1..n : b[i].by = h /\ b[i].n = x
      BY <1>4, <1>6, <2>1
    <3>. QED
      BY <1>1, <1>3, <3>1
  <2>2. CASE x > hi
    <3>1. h = g /\ top = hi + m /\ hi = written[g]
      BY <1>4, <1>7, <2>2 DEF top
    <3>2. x \in Nat /\ x <= hi + m
      BY <1>4, <3>1
    <3>3. PICK i \in Nat : i = n + (x - hi)
      BY <1>1, <2>2, <3>2
    <3>4. i \in (n + 1)..(n + m) /\ i \in 1..(n + m) /\ hi + (i - n) = x
      BY <1>1, <2>2, <3>2, <3>3
    <3>5. c[i].by = h /\ c[i].n = written[g] + (i - n)
      BY <1>3, <3>1, <3>4
    <3>. QED
      BY <3>1, <3>4, <3>5
  <2>. QED
    BY <1>4, <2>1, <2>2
<1>10. \A i, j \in 1..(n + m) : c[i].by = h /\ c[j].by = h /\ i < j => c[i].n < c[j].n
  <2>. SUFFICES ASSUME NEW i \in 1..(n + m), NEW j \in 1..(n + m),
                       c[i].by = h, c[j].by = h, i < j
                PROVE  c[i].n < c[j].n
    OBVIOUS
  <2>1. CASE j \in 1..n
    <3>1. i \in 1..n
      BY <1>1, <2>1
    <3>. QED
      BY <1>3, <1>6, <2>1, <3>1
  <2>2. CASE j \in (n + 1)..(n + m)
    <3>1. c[j].by = g /\ c[j].n = written[g] + (j - n)
      BY <1>3, <2>2
    <3>2. CASE i \in 1..n
      <4>1. c[i].n <= hi /\ c[i].n \in Nat /\ hi = written[g]
        BY <1>1, <1>3, <1>6, <1>7, <3>1, <3>2 DEF Unit
      <4>. QED
        BY <1>1, <2>2, <3>1, <4>1
    <3>3. CASE i \in (n + 1)..(n + m)
      <4>1. c[i].n = written[g] + (i - n)
        BY <1>3, <3>3
      <4>. QED
        BY <1>1, <2>2, <3>1, <3>3, <4>1
    <3>. QED
      BY <1>1, <3>2, <3>3
  <2>. QED
    BY <1>1, <2>1, <2>2
<1>. QED
  BY <1>3, <1>8, <1>9, <1>10 DEF OrderOf, c, top

\* When the first k units of b have been read, the others follow the newest.
LEMMA RestInOrder ==
  ASSUME NEW b \in Seq(Unit), NEW h \in Goroutines, NEW hi \in Nat, seen[h] \in Nat,
         seen[h] <= hi, OrderOf(b, h, seen[h], hi), NEW k \in 0..Len(b)
  PROVE  /\ Newest(h, SubSeq(b, 1, k)) \in Nat
         /\ Newest(h, SubSeq(b, 1, k)) <= hi
         /\ OrderOf(SubSeq(b, k + 1, Len(b)), h, Newest(h, SubSeq(b, 1, k)), hi)
<1>. DEFINE n == Len(b)
            us == SubSeq(b, 1, k)
            A == {seen[h]} \cup {u.n : u \in {v \in Range(us) : v.by = h}}
            r == SubSeq(b, k + 1, n)
<1>1. n \in Nat /\ k \in Nat /\ k <= n /\ \A i \in 1..n : b[i] \in Unit /\ b[i].n \in Nat
  <2>1. n \in Nat /\ \A i \in 1..n : b[i] \in Unit
    BY LenProperties, ElementOfSeq
  <2>. QED
    BY <2>1 DEF Unit
<1>2. DOMAIN us = 1..k /\ \A i \in 1..k : us[i] = b[i]
  <2>1. us \in Seq(Unit) /\ Len(us) = k /\ \A i \in 1..k : us[i] = b[1 + i - 1]
    BY <1>1, SubSeqProperties
  <2>2. \A i \in 1..k : 1 + i - 1 = i
    BY <1>1
  <2>3. DOMAIN us = 1..k
    BY <2>1, LenProperties
  <2>. QED
    BY <2>1, <2>2, <2>3
<1>3. Len(r) = n - k /\ \A i \in 1..(n - k) : r[i] = b[k + i]
  <2>1. Len(r) = n - k /\ \A i \in 1..(n - k) : r[i] = b[(k + 1) + i - 1]
    BY <1>1, SubSeqProperties
  <2>2. \A i \in 1..(n - k) : (k + 1) + i - 1 = k + i
    BY <1>1
  <2>. QED
    BY <2>1, <2>2
<1>. HIDE DEF n, us, r
<1>4. /\ \A i \in 1..n : b[i].by = h => seen[h] < b[i].n /\ b[i].n <= hi
      /\ \A x \in (seen[h] + 1)..hi : \E i \in 1..n : b[i].by = h /\ b[i].n = x
      /\ \A i, j \in 1..n : b[i].by = h /\ b[j].by = h /\ i < j => b[i].n < b[j].n
  BY DEF OrderOf, n
<1>5. A = {seen[h]} \cup {b[i].n : i \in {j \in 1..k : b[j].by = h}}
  BY <1>2 DEF Range
<1>. HIDE DEF A
<1>6. /\ seen[h] \in A
      /\ \A i \in 1..k : b[i].by = h => b[i].n \in A
      /\ \A a \in A : a = seen[h] \/ \E i \in 1..k : b[i].by = h /\ a = b[i].n
  BY <1>5
<1>7. \A i \in 1..k : i \in 1..n
  BY <1>1
<1>8. A \subseteq Nat /\ A # {} /\ \A a \in A : a <= hi
  BY <1>1, <1>4, <1>6, <1>7
<1>9. PICK top : top = Max(A)
  OBVIOUS
<1>10. top \in A /\ \A a \in A : a <= top
  BY <1>8, <1>9, LargestNumber
<1>11. top \in Nat /\ top <= hi /\ seen[h] <= top
  BY <1>6, <1>8, <1>10
<1>12. \A i \in 1..n : b[i].by = h => (i > k <=> b[i].n > top)
  <2>. SUFFICES ASSUME NEW i \in 1..n, b[i].by = h PROVE i > k <=> b[i].n > top
    OBVIOUS
  <2>1. CASE i \in 1..k
    BY <1>1, <1>6, <1>10, <1>11, <2>1
  <2>2. CASE i > k
    <3>1. CASE top = seen[h]
      BY <1>4, <2>2, <3>1
    <3>2. CASE \E j \in 1..k : b[j].by = h /\ top = b[j].n
      <4>1. PICK j \in 1..k : b[j].by = h /\ top = b[j].n
        BY <3>2
      <4>2. j < i /\ j \in 1..n
        BY <1>1, <2>2
      <4>3. b[j].n < b[i].n
        BY <1>4, <4>1, <4>2
      <4>. QED
        BY <1>1, <2>2, <4>1, <4>2, <4>3
    <3>. QED
      BY <1>6, <1>10, <3>1, <3>2
  <2>. QED
    BY <1>1, <2>1, <2>2
<1>13. \A i \in 1..(n - k) : k + i \in 1..n /\ k + i > k /\ r[i] = b[k + i]
  BY <1>1, <1>3
<1>14. \A i \in 1..(n - k) : r[i].by = h => top < r[i].n /\ r[i].n <= hi
  BY <1>1, <1>4, <1>11, <1>12, <1>13
<1>15. \A x \in (top + 1)..hi : \E i \in 1..(n - k) : r[i].by = h /\ r[i].n = x
  <2>. TAKE x \in (top + 1)..hi
  <2>1. x \in (seen[h] + 1)..hi /\ x > top
    BY <1>11
  <2>2. PICK i \in 1..n : b[i].by = h /\ b[i].n = x
    BY <1>4, <2>1
  <2>3. i > k
    BY <1>12, <2>1, <2>2
  <2>4. i - k \in 1..(n - k) /\ k + (i - k) = i
    BY <1>1, <2>3
  <2>. QED
    BY <1>13, <2>2, <2>4
<1>16. \A i, j \in 1..(n - k) : r[i].by = h /\ r[j].by = h /\ i < j => r[i].n < r[j].n
  <2>. SUFFICES ASSUME NEW i \in 1..(n - k), NEW j \in 1..(n - k),
                       r[i].by = h, r[j].by = h, i < j
                PROVE  r[i].n < r[j].n
    OBVIOUS
  <2>1. k + i < k + j
    BY <1>1
  <2>. QED
    BY <1>4, <1>13, <2>1
<1>17. OrderOf(r, h, top, hi)
  BY <1>3, <1>14, <1>15, <1>16 DEF OrderOf
<1>18. Newest(h, us) = top
  BY <1>9 DEF Newest, A
<1>. QED
  BY <1>11, <1>17, <1>18 DEF r, us, n

\* What a goroutine has written, and what is left of its Write, is within the
\* bound; only a Write has something left.
Promised(c, w) == \A g \in Goroutines :
                    /\ w[g] + c[g].left <= MaxUnits
                    /\ g \notin DOMAIN Writers => c[g].left = 0

\* Units are in the buffer that their goroutine writes to, and those of each are
\* the ones that have been written and not read, in their order.
UnitsTrue ==
  /\ seen \in [Goroutines -> Nat] /\ \A g \in Goroutines : seen[g] <= written[g]
  /\ \A e \in Ends : \A i \in 1..Len(buffer[e]) :
       buffer[e][i].by \in Written /\ Target(buffer[e][i].by) = e
  /\ \A g \in Written : OrderOf(buffer[Target(g)], g, seen[g], written[g])

DeadlineTypes ==
  /\ readDeadline \in [Ends -> Times] /\ writeDeadline \in [Ends -> Times]
  /\ changes \in 0..MaxChanges

DataInv == DeadlineTypes /\ Promised(call, written) /\ UnitsTrue

\* Signals change nothing of this.
LEMMA WokenPromised ==
  ASSUME NEW c \in [Goroutines -> Calling], NEW w, Promised(c, w), NEW gs
  PROVE  Promised(Woken(c, gs), w)
BY WokenCalls DEF Promised

LEMMA SignalledPromised ==
  ASSUME NEW c \in [Goroutines -> Calling], NEW w, Promised(c, w), NEW cond, NEW n,
         NEW new \in Signalled(c, cond, n)
  PROVE  Promised(new, w)
BY WokenPromised DEF Signalled

\* Who writes, and where.
LEMMA Targets ==
  /\ \A g \in Written : g \in Goroutines /\ Target(g) \in Ends
  /\ \A g \in DOMAIN Writers : g \in Written /\ Target(g) = Peer(Writers[g])
  /\ \A g \in DOMAIN TryWriters : g \in Written /\ Target(g) = TryWriters[g]
BY Constants, Peers DEF Target, Written

\* Taking units from a buffer.
LEMMA TakeKeepsData ==
  ASSUME PipeInv, DataInv, NEW e \in Ends, NEW n \in Nat,
         NEW c \in [Goroutines -> Calling], Promised(c, written), Take(e, n, c)
  PROVE  DataInv'
<1>1. PICK k : k = Min({n, Len(buffer[e])})
  OBVIOUS
<1>2. PICK b : b = buffer[e]
  OBVIOUS
<1>3. b \in Seq(Unit) /\ Len(b) \in Nat /\ k \in 0..Len(b)
  <2>1. b \in Seq(Unit)
    BY <1>2 DEF PipeInv, PipeTypes, Unit
  <2>2. Len(b) \in Nat
    BY <2>1, LenProperties
  <2>. QED
    BY <1>1, <1>2, <2>1, <2>2, MinOfTwo
<1>4. PICK r : r = SubSeq(b, k + 1, Len(b))
  OBVIOUS
<1>5. /\ \A d \in Ends : buffer'[d] = IF d = e THEN r ELSE buffer[d]
      /\ seen' = [g \in Goroutines |-> Newest(g, SubSeq(b, 1, k))]
      /\ call' \in Signalled(c, WriteCond(e), 1)
      /\ written' = written /\ UNCHANGED deadlines
  BY <1>1, <1>2, <1>4 DEF Take, PipeInv, PipeTypes
<1>6. Promised(call, written)'
  <2>1. Promised(call', written)
    BY <1>5, SignalledPromised
  <2>. QED
    BY <1>5, <2>1 DEF Promised
<1>7. DeadlineTypes'
  BY <1>5 DEF DataInv, DeadlineTypes, deadlines
<1>8. /\ seen \in [Goroutines -> Nat] /\ \A g \in Goroutines : seen[g] <= written[g]
      /\ written \in [Goroutines -> Nat]
      /\ \A d \in Ends : \A i \in 1..Len(buffer[d]) :
           buffer[d][i].by \in Written /\ Target(buffer[d][i].by) = d
      /\ \A g \in Written : OrderOf(buffer[Target(g)], g, seen[g], written[g])
  BY DEF DataInv, UnitsTrue, PipeInv, PipeTypes
<1>9. ASSUME NEW g \in Written, Target(g) = e
      PROVE  /\ seen'[g] \in Nat /\ seen'[g] <= written[g]
             /\ OrderOf(r, g, seen'[g], written[g])
  <2>1. g \in Goroutines /\ OrderOf(b, g, seen[g], written[g])
    BY <1>2, <1>8, <1>9, Targets
  <2>. QED
    BY <1>3, <1>4, <1>5, <1>8, <2>1, RestInOrder
<1>10. ASSUME NEW g \in Goroutines, ~(g \in Written /\ Target(g) = e)
       PROVE  seen'[g] = seen[g]
  <2>1. \A i \in 1..Len(b) : b[i].by # g
    BY <1>2, <1>8, <1>10
  <2>2. PICK us : us = SubSeq(b, 1, k)
    OBVIOUS
  <2>3. us \in Seq(Unit) /\ Len(us) = k /\ \A i \in 1..k : us[i] = b[i]
    <3>1. us \in Seq(Unit) /\ Len(us) = k /\ \A i \in 1..k : us[i] = b[1 + i - 1]
      BY <1>3, <2>2, SubSeqProperties
    <3>2. \A i \in 1..k : 1 + i - 1 = i
      BY <1>3
    <3>. QED
      BY <3>1, <3>2
  <2>4. {v \in Range(us) : v.by = g} = {}
    <3>1. DOMAIN us = 1..k /\ \A i \in 1..k : i \in 1..Len(b)
      BY <1>3, <2>3, LenProperties
    <3>. QED
      BY <2>1, <2>3, <3>1 DEF Range
  <2>5. Newest(g, us) = Max({seen[g]})
    <3>1. {seen[g]} \cup {u.n : u \in {v \in Range(us) : v.by = g}} = {seen[g]}
      BY <2>4
    <3>. QED
      BY <3>1 DEF Newest
  <2>6. Max({seen[g]}) = seen[g]
    <3>1. seen[g] \in Nat
      BY <1>8, <1>10
    <3>. QED
      BY <3>1 DEF Max
  <2>. QED
    BY <1>5, <1>10, <2>2, <2>5, <2>6
<1>11. UnitsTrue'
  <2>1. \A g \in Goroutines : seen'[g] \in Nat /\ seen'[g] <= written'[g]
    BY <1>5, <1>8, <1>9, <1>10
  <2>2. seen' \in [Goroutines -> Nat]
    BY <1>5, <2>1
  <2>3. ASSUME NEW d \in Ends, NEW i \in 1..Len(buffer'[d])
        PROVE  buffer'[d][i].by \in Written /\ Target(buffer'[d][i].by) = d
    <3>1. CASE d = e
      <4>1. Len(r) = Len(b) - k /\ \A j \in 1..(Len(b) - k) : r[j] = b[(k + 1) + j - 1]
        BY <1>3, <1>4, SubSeqProperties
      <4>2. i \in 1..(Len(b) - k) /\ buffer'[d] = r
        BY <1>5, <2>3, <3>1, <4>1
      <4>3. (k + 1) + i - 1 \in 1..Len(b)
        BY <1>3, <4>2
      <4>. QED
        BY <1>2, <1>8, <3>1, <4>1, <4>2, <4>3
    <3>2. CASE d # e
      BY <1>5, <1>8, <2>3, <3>2
    <3>. QED
      BY <3>1, <3>2
  <2>4. ASSUME NEW g \in Written
        PROVE  OrderOf(buffer'[Target(g)], g, seen'[g], written'[g])
    <3>1. g \in Goroutines /\ Target(g) \in Ends
      BY Targets
    <3>2. CASE Target(g) = e
      BY <1>5, <1>9, <3>1, <3>2
    <3>3. CASE Target(g) # e
      BY <1>5, <1>8, <1>10, <3>1, <3>3
    <3>. QED
      BY <3>2, <3>3
  <2>. QED
    BY <2>1, <2>2, <2>3, <2>4 DEF UnitsTrue, Written, Target
<1>. QED
  BY <1>6, <1>7, <1>11 DEF DataInv

\* Putting units of g into the buffer that it writes to.
LEMMA PutKeepsData ==
  ASSUME PipeInv, DataInv, NEW g \in Written, NEW e \in Ends, e = Target(g),
         NEW m \in Nat, NEW n, NEW c \in [Goroutines -> Calling],
         \A h \in Goroutines : h # g => c[h] = call[h],
         written[g] + m + c[g].left <= MaxUnits,
         g \notin DOMAIN Writers => c[g].left = 0,
         Put(g, e, m, n, c)
  PROVE  DataInv'
<1>1. PICK b : b = buffer[e]
  OBVIOUS
<1>2. PICK new : new = b \o Units(g, m)
  OBVIOUS
<1>3. /\ g \in Goroutines /\ b \in Seq(Unit)
      /\ seen \in [Goroutines -> Nat] /\ \A h \in Goroutines : seen[h] <= written[h]
      /\ written \in [Goroutines -> Nat]
      /\ \A d \in Ends : \A i \in 1..Len(buffer[d]) :
           buffer[d][i].by \in Written /\ Target(buffer[d][i].by) = d
      /\ \A h \in Written : OrderOf(buffer[Target(h)], h, seen[h], written[h])
      /\ Promised(call, written)
  BY <1>1, Targets DEF DataInv, UnitsTrue, PipeInv, PipeTypes, Unit
<1>4. /\ \A d \in Ends : buffer'[d] = IF d = e THEN new ELSE buffer[d]
      /\ written' = [written EXCEPT ![g] = @ + m]
      /\ call' \in Signalled(c, ReadCond(e), n)
      /\ seen' = seen /\ UNCHANGED deadlines
  BY <1>1, <1>2 DEF Put, PipeInv, PipeTypes
<1>5. /\ written' \in [Goroutines -> Nat] /\ written'[g] = written[g] + m
      /\ \A h \in Goroutines : h # g => written'[h] = written[h]
  BY <1>3, <1>4
<1>6. Promised(call, written)'
  <2>1. Promised(c, written')
    <3>1. ASSUME NEW h \in Goroutines
          PROVE  /\ written'[h] + c[h].left <= MaxUnits
                 /\ h \notin DOMAIN Writers => c[h].left = 0
      <4>1. CASE h = g
        BY <1>5, <4>1
      <4>2. CASE h # g
        BY <1>3, <1>5, <4>2 DEF Promised
      <4>. QED
        BY <4>1, <4>2
    <3>. QED
      BY <3>1 DEF Promised
  <2>2. Promised(call', written')
    BY <1>4, <2>1, SignalledPromised
  <2>. QED
    BY <2>2 DEF Promised
<1>7. DeadlineTypes'
  BY <1>4 DEF DataInv, DeadlineTypes, deadlines
<1>8. UnitsTrue'
  <2>1. seen' \in [Goroutines -> Nat] /\ \A h \in Goroutines : seen'[h] <= written'[h]
    BY <1>3, <1>4, <1>5
  <2>2. ASSUME NEW d \in Ends, NEW i \in 1..Len(buffer'[d])
        PROVE  buffer'[d][i].by \in Written /\ Target(buffer'[d][i].by) = d
    <3>1. CASE d = e
      <4>1. PICK us : us = Units(g, m)
        OBVIOUS
      <4>2. /\ us \in Seq(Unit) /\ Len(us) = m /\ Len(b) \in Nat
            /\ \A j \in 1..m : us[j].by = g
        <5>1. \A j \in 1..m : [by |-> g, n |-> written[g] + j] \in Unit
          BY <1>3 DEF Unit
        <5>2. us \in [1..m -> Unit] /\ \A j \in 1..m : us[j].by = g
          BY <4>1, <5>1 DEF Units
        <5>3. us \in Seq(Unit) /\ Len(us) = m
          BY <5>2, <4>1, SeqDef DEF Units
        <5>. QED
          BY <1>3, <5>2, <5>3, LenProperties
      <4>3. /\ Len(new) = Len(b) + m
            /\ \A j \in 1..(Len(b) + m) : new[j] = IF j <= Len(b) THEN b[j] ELSE us[j - Len(b)]
        <5>1. /\ Len(b \o us) = Len(b) + Len(us)
              /\ \A j \in 1..(Len(b) + Len(us)) :
                   (b \o us)[j] = IF j <= Len(b) THEN b[j] ELSE us[j - Len(b)]
          BY <1>3, <4>2, ConcatProperties
        <5>. QED
          BY <1>2, <4>1, <4>2, <5>1
      <4>4. i \in 1..(Len(b) + m) /\ buffer'[d] = new
        BY <1>4, <2>2, <3>1, <4>3
      <4>5. CASE i <= Len(b)
        <5>1. i \in 1..Len(b) /\ new[i] = b[i]
          BY <4>2, <4>3, <4>4, <4>5
        <5>. QED
          BY <1>1, <1>3, <3>1, <4>4, <5>1
      <4>6. CASE ~(i <= Len(b))
        <5>1. i - Len(b) \in 1..m /\ new[i] = us[i - Len(b)]
          BY <4>2, <4>3, <4>4, <4>6
        <5>2. new[i].by = g
          BY <4>2, <5>1
        <5>. QED
          BY <3>1, <4>4, <5>2
      <4>. QED
        BY <4>5, <4>6
    <3>2. CASE d # e
      BY <1>3, <1>4, <2>2, <3>2
    <3>. QED
      BY <3>1, <3>2
  <2>3. ASSUME NEW h \in Written
        PROVE  OrderOf(buffer'[Target(h)], h, seen'[h], written'[h])
    <3>1. /\ h \in Goroutines /\ Target(h) \in Ends /\ seen'[h] = seen[h]
          /\ seen[h] \in Nat /\ written[h] \in Nat /\ seen[h] <= written[h]
          /\ OrderOf(buffer[Target(h)], h, seen[h], written[h])
          /\ written[g] \in Nat
      BY <1>3, <1>4, Targets
    <3>2. CASE Target(h) = e
      <4>1. OrderOf(b, h, seen[h], written[h])
        BY <1>1, <3>1, <3>2
      <4>2. OrderOf(new, h, seen[h], IF h = g THEN written[h] + m ELSE written[h])
        BY <1>2, <1>3, <3>1, <4>1, AppendedOrder
      <4>3. written'[h] = IF h = g THEN written[h] + m ELSE written[h]
        BY <1>5, <3>1
      <4>. QED
        BY <1>4, <3>1, <3>2, <4>2, <4>3
    <3>3. CASE Target(h) # e
      BY <1>4, <1>5, <3>1, <3>3
    <3>. QED
      BY <3>2, <3>3
  <2>. QED
    BY <2>1, <2>2, <2>3 DEF UnitsTrue, Written, Target
<1>. QED
  BY <1>6, <1>7, <1>8 DEF DataInv

\* Steps that move no data.
LEMMA MovesNoData ==
  ASSUME DataInv, UNCHANGED <<buffer, written, seen>>, DeadlineTypes',
         Promised(call', written)
  PROVE  DataInv'
<1>1. UnitsTrue'
  <2>1. UnitsTrue /\ buffer' = buffer /\ written' = written /\ seen' = seen
    BY DEF DataInv
  <2>2. \A g \in Written : OrderOf(buffer'[Target(g)], g, seen'[g], written'[g])
    BY <2>1 DEF UnitsTrue
  <2>3. \A e \in Ends : \A i \in 1..Len(buffer'[e]) :
          buffer'[e][i].by \in Written /\ Target(buffer'[e][i].by) = e
    BY <2>1 DEF UnitsTrue
  <2>4. seen' \in [Goroutines -> Nat] /\ \A g \in Goroutines : seen'[g] <= written'[g]
    BY <2>1 DEF UnitsTrue
  <2>. QED
    BY <2>2, <2>3, <2>4 DEF UnitsTrue, Written, Target
<1>2. Promised(call, written)'
  BY DEF Promised
<1>. QED
  BY <1>1, <1>2 DEF DataInv

\* What Read does when it is called or woken.
LEMMA ReadKeepsData ==
  ASSUME PipeInv, DataInv, NEW g \in DOMAIN Readers, Read(g)
  PROVE  DataInv'
<1>1. /\ g \in Goroutines /\ g \notin DOMAIN Writers /\ Readers[g] \in Ends
      /\ call \in [Goroutines -> Calling] /\ written \in [Goroutines -> Nat]
      /\ Promised(call, written) /\ MaxUnits \in Nat
  BY Constants, BufferedPipeAssumption DEF DataInv, PipeInv, PipeTypes
<1>2. ASSUME NEW t \in BOOLEAN, NEW at \in {"idle", "waiting"},
             NEW c, c = [call EXCEPT ![g] = [at |-> at, left |-> 0, timer |-> t]]
      PROVE  c \in [Goroutines -> Calling] /\ Promised(c, written)
  <2>1. [at |-> at, left |-> 0, timer |-> t] \in Calling
    BY DEF Calling
  <2>2. c \in [Goroutines -> Calling]
    BY <1>1, <1>2, <2>1
  <2>3. ASSUME NEW h \in Goroutines
        PROVE  written[h] + c[h].left <= MaxUnits /\ (h \notin DOMAIN Writers => c[h].left = 0)
    <3>1. CASE h = g
      <4>1. c[h].left = 0
        BY <1>1, <1>2, <3>1
      <4>2. written[h] + call[h].left <= MaxUnits /\ call[h].left \in Nat /\ written[h] \in Nat
        BY <1>1 DEF Promised, Calling
      <4>. QED
        BY <1>1, <4>1, <4>2
    <3>2. CASE h # g
      BY <1>1, <1>2, <3>2 DEF Promised
    <3>. QED
      BY <3>1, <3>2
  <2>. QED
    BY <2>2, <2>3 DEF Promised
<1>3. ASSUME NEW n \in ReadSizes, Take(Readers[g], n, [call EXCEPT ![g] = Idle])
      PROVE  DataInv'
  <2>1. n \in Nat
    BY Constants
  <2>2. PICK c : c = [call EXCEPT ![g] = [at |-> "idle", left |-> 0, timer |-> FALSE]]
    OBVIOUS
  <2>3. Take(Readers[g], n, c)
    BY <1>3, <2>2 DEF Idle
  <2>. QED
    BY <1>1, <1>2, <2>1, <2>2, <2>3, TakeKeepsData
<1>4. CASE /\ call' = [call EXCEPT ![g] = IF closed[Readers[g]] \/ readDeadline[Readers[g]] = "past"
                                          THEN Idle ELSE WaitWith(readDeadline[Readers[g]], 0)]
           /\ UNCHANGED <<buffer, closed, deadlines, written, seen>>
  <2>1. PICK t \in BOOLEAN, at \in {"idle", "waiting"} :
          call' = [call EXCEPT ![g] = [at |-> at, left |-> 0, timer |-> t]]
    BY <1>4 DEF Idle, WaitWith
  <2>2. Promised(call', written)
    BY <1>2, <2>1
  <2>. QED
    BY <1>4, <2>2, MovesNoData DEF DataInv, DeadlineTypes, deadlines
<1>. QED
  BY <1>3, <1>4 DEF Read

\* What Write does when it is called or woken.
LEMMA WriteKeepsData ==
  ASSUME PipeInv, DataInv, NEW g \in DOMAIN Writers, NEW left \in Nat,
         written[g] + left <= MaxUnits, PutOrWait(g, left)
  PROVE  DataInv'
<1>1. PICK e \in Ends : e = Peer(Writers[g])
  BY Constants, Peers
<1>2. /\ g \in Goroutines /\ g \in Written /\ e = Target(g)
      /\ call \in [Goroutines -> Calling] /\ written \in [Goroutines -> Nat]
      /\ Promised(call, written) /\ MaxUnits \in Nat /\ Room(e) \in Nat
  BY <1>1, Constants, Targets, RoomType, BufferedPipeAssumption
    DEF DataInv, PipeInv, PipeTypes
<1>3. CASE closed[e]
  <2>1. call' = [call EXCEPT ![g] = Idle] /\ UNCHANGED <<buffer, closed, deadlines, written, seen>>
    BY <1>1, <1>3 DEF PutOrWait
  <2>2. ASSUME NEW h \in Goroutines
        PROVE  written[h] + call'[h].left <= MaxUnits /\ (h \notin DOMAIN Writers => call'[h].left = 0)
    <3>1. CASE h = g
      BY <1>2, <2>1, <3>1 DEF Idle
    <3>2. CASE h # g
      BY <1>2, <2>1, <3>2 DEF Promised
    <3>. QED
      BY <3>1, <3>2
  <2>3. Promised(call', written)
    BY <2>2 DEF Promised
  <2>. QED
    BY <2>1, <2>3, MovesNoData DEF DataInv, DeadlineTypes, deadlines
<1>4. CASE ~closed[e]
  <2>1. PICK m, deadline : m = Min({left, Room(e)}) /\ deadline = writeDeadline[Writers[g]]
    OBVIOUS
  <2>2. PICK n : n = IF call[g].at = "woken" THEN Max({Chunks(m), 1}) ELSE Chunks(m)
    OBVIOUS
  <2>3. PICK new : new = IF m = left \/ deadline = "past" THEN Idle
                         ELSE WaitWith(deadline, left - m)
    OBVIOUS
  <2>4. PICK c : c = [call EXCEPT ![g] = new]
    OBVIOUS
  <2>5. Put(g, e, m, n, c)
    BY <1>1, <1>4, <2>1, <2>2, <2>3, <2>4 DEF PutOrWait
  <2>6. m \in Nat /\ m <= left
    BY <1>2, <2>1, MinOfTwo
  <2>7. new \in Calling /\ new.left + m <= left
    <3>1. left - m \in Nat
      BY <2>6
    <3>2. Idle \in Calling /\ Idle.left = 0
      BY DEF Idle, Calling
    <3>3. WaitWith(deadline, left - m) \in Calling /\ WaitWith(deadline, left - m).left = left - m
      BY <3>1 DEF WaitWith, Calling
    <3>. QED
      BY <2>3, <2>6, <3>1, <3>2, <3>3
  <2>8. /\ c \in [Goroutines -> Calling] /\ c[g] = new
        /\ \A h \in Goroutines : h # g => c[h] = call[h]
    BY <1>2, <2>4, <2>7
  <2>9. written[g] + m + c[g].left <= MaxUnits
    <3>1. new.left \in Nat /\ written[g] \in Nat
      BY <1>2, <2>7 DEF Calling
    <3>. QED
      BY <1>2, <2>6, <2>7, <2>8, <3>1
  <2>. QED
    BY <1>2, <2>5, <2>6, <2>8, <2>9, PutKeepsData
<1>. QED
  BY <1>3, <1>4

\* What TryWrite does.
LEMMA TryWriteKeepsData ==
  ASSUME PipeInv, DataInv, NEW g \in DOMAIN TryWriters, TryWrite(g)
  PROVE  DataInv'
<1>1. PICK e \in Ends : e = TryWriters[g]
  BY Constants
<1>2. PICK n \in WriteSizes : /\ written[g] + n <= MaxUnits
                              /\ Put(g, e, Min({n, Room(e), MaxSize}), 1, call)
  BY <1>1 DEF TryWrite
<1>3. PICK m : m = Min({n, Room(e), MaxSize})
  OBVIOUS
<1>4. /\ n \in Nat /\ MaxSize \in Nat /\ Room(e) \in Nat
      /\ g \in Written /\ g \in Goroutines /\ e = Target(g) /\ g \notin DOMAIN Writers
      /\ call \in [Goroutines -> Calling] /\ written[g] \in Nat
      /\ call[g].left = 0 /\ MaxUnits \in Nat
  BY <1>1, Constants, Targets, RoomType, BufferedPipeAssumption
    DEF DataInv, Promised, PipeInv, PipeTypes
<1>5. m \in Nat /\ m <= n
  BY <1>3, <1>4, MinOfThree
<1>6. written[g] + m + call[g].left <= MaxUnits
  BY <1>2, <1>4, <1>5
<1>. QED
  BY <1>2, <1>3, <1>4, <1>5, <1>6, PutKeepsData

\* Every step keeps the data.
LEMMA NextData == PipeInv /\ DataInv /\ [Next]_vars => DataInv'
<1>. SUFFICES ASSUME PipeInv, DataInv, [Next]_vars PROVE DataInv'
  OBVIOUS
<1>0. /\ call \in [Goroutines -> Calling] /\ Promised(call, written)
      /\ DeadlineTypes /\ MaxChanges \in Nat
  BY BufferedPipeAssumption DEF PipeInv, PipeTypes, DataInv
<1>1. ASSUME UNCHANGED <<buffer, written, seen>>, DeadlineTypes',
             call' = call \/ \E gs : call' = Woken(call, gs)
      PROVE  DataInv'
  <2>1. Promised(call', written)
    BY <1>0, <1>1, WokenPromised
  <2>. QED
    BY <1>1, <2>1, MovesNoData
<1>2. CASE UNCHANGED vars
  BY <1>0, <1>1, <1>2 DEF vars, deadlines, DeadlineTypes
<1>3. ASSUME NEW g \in DOMAIN Readers, Read(g) \/ ReadTimer(g) PROVE DataInv'
  <2>1. CASE Read(g)
    BY <2>1, ReadKeepsData
  <2>2. CASE ReadTimer(g)
    BY <1>0, <1>1, <2>2 DEF ReadTimer, deadlines, DeadlineTypes
  <2>. QED
    BY <1>3, <2>1, <2>2
<1>4. ASSUME NEW g \in DOMAIN Writers, Write(g) \/ ResumeWrite(g) \/ WriteTimer(g)
      PROVE  DataInv'
  <2>1. CASE Write(g)
    <3>1. PICK n \in WriteSizes : written[g] + n <= MaxUnits /\ PutOrWait(g, n)
      BY <2>1 DEF Write
    <3>2. n \in Nat
      BY Constants
    <3>. QED
      BY <3>1, <3>2, WriteKeepsData
  <2>2. CASE ResumeWrite(g)
    <3>1. g \in Goroutines /\ PutOrWait(g, call[g].left)
      BY <2>2, Constants DEF ResumeWrite
    <3>2. call[g].left \in Nat /\ written[g] + call[g].left <= MaxUnits
      BY <1>0, <3>1 DEF Promised, Calling
    <3>. QED
      BY <3>1, <3>2, WriteKeepsData
  <2>3. CASE WriteTimer(g)
    BY <1>0, <1>1, <2>3 DEF WriteTimer, deadlines, DeadlineTypes
  <2>. QED
    BY <1>4, <2>1, <2>2, <2>3
<1>5. ASSUME NEW g \in DOMAIN TryWriters, TryWrite(g) PROVE DataInv'
  BY <1>5, TryWriteKeepsData
<1>6. ASSUME NEW e \in Ends, TryRead(e) \/ Close(e) \/ Expire(e) PROVE DataInv'
  <2>1. CASE TryRead(e)
    <3>1. PICK n \in ReadSizes : n \in Nat /\ Take(e, n, call)
      BY <2>1, Constants DEF TryRead
    <3>. QED
      BY <1>0, <3>1, TakeKeepsData
  <2>2. CASE Close(e)
    BY <1>0, <1>1, <2>2 DEF Close, deadlines, DeadlineTypes
  <2>3. CASE Expire(e)
    <3>1. DeadlineTypes'
      BY <1>0, <2>3 DEF Expire, DeadlineTypes, Times
    <3>. QED
      BY <1>1, <2>3, <3>1 DEF Expire
  <2>. QED
    BY <1>6, <2>1, <2>2, <2>3
<1>7. ASSUME NEW e \in Ends, NEW t \in Times,
             SetReadDeadline(e, t) \/ SetWriteDeadline(e, t) \/ SetDeadline(e, t)
      PROVE  DataInv'
  <2>1. DeadlineTypes'
    BY <1>0, <1>7 DEF SetReadDeadline, SetWriteDeadline, SetDeadline, DeadlineTypes
  <2>. QED
    BY <1>1, <1>7, <2>1 DEF SetReadDeadline, SetWriteDeadline, SetDeadline
<1>. QED
  BY <1>2, <1>3, <1>4, <1>5, <1>6, <1>7 DEF Next

\* The initial states.
LEMMA InitData == Init => DataInv
<1>. SUFFICES ASSUME Init PROVE DataInv
  OBVIOUS
<1>0. MaxUnits \in Nat /\ MaxChanges \in Nat
  BY BufferedPipeAssumption
<1>1. /\ buffer = [e \in Ends |-> <<>>] /\ call = [g \in Goroutines |-> Idle]
      /\ written = [g \in Goroutines |-> 0] /\ seen = [g \in Goroutines |-> 0]
  BY DEF Init
<1>2. DeadlineTypes
  BY <1>0 DEF Init, DeadlineTypes, Times
<1>3. Promised(call, written)
  BY <1>0, <1>1 DEF Promised, Idle
<1>4. \A e \in Ends : buffer[e] = <<>> /\ 1..Len(buffer[e]) = {}
  <2>1. 1..Len(<<>>) = {}
    OBVIOUS
  <2>. QED
    BY <1>1, <2>1
<1>5. \A g \in Written : OrderOf(buffer[Target(g)], g, seen[g], written[g])
  <2>. TAKE g \in Written
  <2>1. 1..Len(buffer[Target(g)]) = {}
    BY <1>4, Targets
  <2>2. (seen[g] + 1)..written[g] = {}
    BY <1>1, Targets
  <2>. QED
    BY <2>1, <2>2 DEF OrderOf
<1>6. UnitsTrue
  BY <1>1, <1>4, <1>5 DEF UnitsTrue
<1>. QED
  BY <1>2, <1>3, <1>6 DEF DataInv

\* The invariants say that data is intact.
LEMMA DataIsIntact == PipeInv /\ DataInv => DataIntact
<1>. SUFFICES ASSUME PipeInv, DataInv PROVE DataIntact
  OBVIOUS
<1>1. /\ buffer \in [Ends -> Seq(Unit)] /\ call \in [Goroutines -> Calling]
      /\ written \in [Goroutines -> Nat] /\ seen \in [Goroutines -> Nat]
      /\ MaxUnits \in Nat
  BY BufferedPipeAssumption DEF PipeInv, PipeTypes, DataInv, UnitsTrue, Unit
<1>2. \A g \in Goroutines : /\ written[g] \in 0..MaxUnits /\ seen[g] \in 0..MaxUnits
                            /\ call[g].left \in 0..MaxUnits
  <2>. TAKE g \in Goroutines
  <2>1. call[g].left \in Nat /\ written[g] \in Nat /\ seen[g] \in Nat
    BY <1>1 DEF Calling
  <2>2. written[g] + call[g].left <= MaxUnits /\ seen[g] <= written[g]
    BY DEF DataInv, Promised, UnitsTrue
  <2>. QED
    BY <1>1, <2>1, <2>2
<1>3. call \in [Goroutines -> Calls]
  <2>1. \A g \in Goroutines : call[g] \in Calls
    BY <1>1, <1>2 DEF Calling, Calls
  <2>. QED
    BY <1>1, <2>1
<1>4. ASSUME NEW e \in Ends PROVE buffer[e] \in Seq([by : Written, n : 1..MaxUnits])
  <2>1. /\ buffer[e] \in Seq(Unit) /\ Len(buffer[e]) \in Nat
        /\ buffer[e] \in [1..Len(buffer[e]) -> Unit]
    BY <1>1, LenProperties
  <2>2. ASSUME NEW i \in 1..Len(buffer[e])
        PROVE  buffer[e][i] \in [by : Written, n : 1..MaxUnits]
    <3>1. PICK u \in Unit : u = buffer[e][i]
      BY <2>1
    <3>2. u.by \in Written /\ Target(u.by) = e
      BY <3>1 DEF DataInv, UnitsTrue
    <3>3. u.by \in Goroutines /\ OrderOf(buffer[e], u.by, seen[u.by], written[u.by])
      BY <3>2, Targets DEF DataInv, UnitsTrue
    <3>4. seen[u.by] < u.n /\ u.n <= written[u.by]
      BY <3>1, <3>3 DEF OrderOf
    <3>5. u.n \in 1..MaxUnits
      BY <1>1, <1>2, <3>3, <3>4 DEF Unit
    <3>. QED
      BY <3>1, <3>2, <3>5 DEF Unit
  <2>3. buffer[e] \in [1..Len(buffer[e]) -> [by : Written, n : 1..MaxUnits]]
    BY <2>1, <2>2
  <2>4. \A S : \A n \in Nat : \A b \in [1..n -> S] : b \in Seq(S)
    BY SeqDef
  <2>. QED
    BY <2>1, <2>3, <2>4
<1>5. TypeOK
  <2>1. buffer \in [Ends -> Seq([by : Written, n : 1..MaxUnits])]
    BY <1>1, <1>4
  <2>2. /\ \A e \in Ends : Len(buffer[e]) <= BufferSize
        /\ closed \in [Ends -> BOOLEAN]
    BY DEF PipeInv, PipeTypes
  <2>3. DeadlineTypes
    BY DEF DataInv
  <2>4. /\ written \in [Goroutines -> 0..MaxUnits] /\ seen \in [Goroutines -> 0..MaxUnits]
    BY <1>1, <1>2
  <2>. QED
    BY <1>3, <2>1, <2>2, <2>3, <2>4 DEF TypeOK, DeadlineTypes
<1>6. InOrder
  BY <1>1, OrderIsOrderOf DEF DataInv, UnitsTrue
<1>. QED
  BY <1>5, <1>6 DEF DataIntact

\* Data is intact: a buffer never holds more than its size, and what a goroutine
\* has written and nobody has read is in it once and in order, however Writes are
\* cut and Reads, timers and Close come between.
THEOREM NothingIsLostOrReordered == Spec => []DataIntact
<1>1. Init => PipeInv /\ DataInv
  BY InitPipe, InitData
<1>2. PipeInv /\ DataInv /\ [Next]_vars => (PipeInv /\ DataInv)'
  BY NextPipe, NextData
<1>. QED
  BY <1>1, <1>2, DataIsIntact, PTL DEF Spec
==============================================================================
