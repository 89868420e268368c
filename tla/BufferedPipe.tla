---------------------------- MODULE BufferedPipe ----------------------------
(***************************************************************************)
(* The pair of connected pipes that stands for a network connection: each  *)
(* end has the buffer it reads from, and its peer's Write fills it.        *)
(*                                                                         *)
(* Goroutines take the mutex of an end for a whole call and give it up     *)
(* only in Cond.Wait, so an action is what a call does from there to the   *)
(* next Wait or to its return.  Wait and Signal are those of sync.Cond: a  *)
(* Signal that finds nobody waiting is lost.  A deadline is later, past or *)
(* none; a call that waits with a deadline has a timer, which broadcasts.  *)
(* Units are numbered per goroutine that writes them.                      *)
(***************************************************************************)
EXTENDS Naturals, Sequences, FiniteSets, FiniteSetsExt, SequencesExt

CONSTANTS
  Readers,     \* goroutine -> the end whose Read it calls
  Writers,     \* goroutine -> the end whose Write it calls
  TryWriters,  \* goroutine -> the end whose TryWrite it calls
  BufferSize,  \* bufferSize
  ReadSizes,   \* lengths of the slices given to Read and TryRead
  WriteSizes,  \* lengths of the slices given to Write and TryWrite
  MaxUnits,    \* bound: units a goroutine gives to Write
  Deadlines,   \* calls that set deadlines: <<kind, end, time>>
  MaxChanges   \* bound: their number

Ends == {"a", "b"}
Peer(e) == IF e = "a" THEN "b" ELSE "a"
Goroutines == DOMAIN Readers \cup DOMAIN Writers \cup DOMAIN TryWriters

\* maxSize; a buffer of less than four units would never take one.
MaxSize == BufferSize \div 4

ASSUME BufferedPipeAssumption ==
  /\ \A f \in {Readers, Writers, TryWriters} : Range(f) \subseteq Ends
  /\ IsFiniteSet(Goroutines)
  /\ DOMAIN Readers \cap DOMAIN Writers = {}
  /\ (DOMAIN Readers \cup DOMAIN Writers) \cap DOMAIN TryWriters = {}
  /\ BufferSize \in Nat /\ BufferSize >= 4
  /\ ReadSizes \subseteq Nat \ {0} /\ WriteSizes \subseteq Nat \ {0}
  /\ Deadlines \subseteq {"read", "write", "both"} \X Ends \X {"none", "later", "past"}
  /\ MaxUnits \in Nat /\ MaxChanges \in Nat

VARIABLES
  buffer,        \* per end
  closed,
  readDeadline,
  writeDeadline,
  call,          \* per goroutine: whether it waits, for what, with a timer
  written,       \* units a goroutine has put into a buffer
  seen,          \* units of a goroutine that have been read
  changes        \* deadlines set so far

deadlines == <<readDeadline, writeDeadline, changes>>
vars == <<buffer, closed, deadlines, call, written, seen>>

Times == {"none", "later", "past"}
\* left: units of a Write that are not in the buffer yet.
Calls == [at : {"idle", "waiting", "woken"}, left : 0..MaxUnits, timer : BOOLEAN]
Idle == [at |-> "idle", left |-> 0, timer |-> FALSE]

Init ==
  /\ buffer = [e \in Ends |-> <<>>]
  /\ closed = [e \in Ends |-> FALSE]
  /\ readDeadline = [e \in Ends |-> "none"] /\ writeDeadline = [e \in Ends |-> "none"]
  /\ call = [g \in Goroutines |-> Idle]
  /\ written = [g \in Goroutines |-> 0] /\ seen = [g \in Goroutines |-> 0]
  /\ changes = 0

----------------------------------------------------------------------------
(* The condition variables. *)

Waiting(gs) == {g \in gs : call[g].at = "waiting"}
\* Who may wait on readCond and on writeCond of an end.
ReadCond(e)  == {g \in DOMAIN Readers : Readers[g] = e}
WriteCond(e) == {g \in DOMAIN Writers : Writers[g] = Peer(e)}

\* c is the calls after the goroutines gs have been woken.  Timers end with the wait.
Woken(c, gs) == [g \in Goroutines |->
                   IF g \in gs THEN [c[g] EXCEPT !.at = "woken", !.timer = FALSE] ELSE c[g]]

\* The calls that n Signals to a condition can lead to, c being what the caller
\* does itself.
Signalled(c, cond, n) ==
  {Woken(c, gs) : gs \in kSubset(Min({n, Cardinality(Waiting(cond))}), Waiting(cond))}

WaitWith(deadline, left) == [at |-> "waiting", left |-> left, timer |-> deadline = "later"]

----------------------------------------------------------------------------
(* Read and TryRead. *)

\* The last unit of g that has been read, once us are.
Newest(g, us) == Max({seen[g]} \cup {u.n : u \in {v \in Range(us) : v.by = g}})

\* Mutated: Read and TryRead tell no writer.
TakeUnsignalled(e, n, c) ==
  LET k == Min({n, Len(buffer[e])})
  IN /\ buffer' = [buffer EXCEPT ![e] = SubSeq(@, k + 1, Len(@))]
     /\ seen' = [g \in Goroutines |-> Newest(g, SubSeq(buffer[e], 1, k))]
     /\ call' \in {c}
     /\ UNCHANGED <<closed, deadlines, written>>

\* Mutated: Read drops what does not fit into the slice.
TakeAll(e, n, c) ==
  LET k == Min({n, Len(buffer[e])})
  IN /\ buffer' = [buffer EXCEPT ![e] = <<>>]
     /\ seen' = [g \in Goroutines |-> Newest(g, SubSeq(buffer[e], 1, k))]
     /\ call' \in Signalled(c, WriteCond(e), 1)
     /\ UNCHANGED <<closed, deadlines, written>>

\* Takes what is there, up to n units, and tells one writer.
Take(e, n, c) ==
  LET k == Min({n, Len(buffer[e])})
  IN /\ buffer' = [buffer EXCEPT ![e] = SubSeq(@, k + 1, Len(@))]
     /\ seen' = [g \in Goroutines |-> Newest(g, SubSeq(buffer[e], 1, k))]
     /\ call' \in Signalled(c, WriteCond(e), 1)
     /\ UNCHANGED <<closed, deadlines, written>>

\* A Read that was just called, or has been woken: it returns data, the end of
\* the pipe or a timeout, or waits.
Read(g) ==
  LET e == Readers[g] IN
  /\ call[g].at # "waiting"
  /\ \/ /\ buffer[e] # <<>>
        /\ \E n \in ReadSizes : Take(e, n, [call EXCEPT ![g] = Idle])
     \/ /\ buffer[e] = <<>>
        /\ call' = [call EXCEPT ![g] = IF closed[e] \/ readDeadline[e] = "past" THEN Idle
                                       ELSE WaitWith(readDeadline[e], 0)]
        /\ UNCHANGED <<buffer, closed, deadlines, written, seen>>

TryRead(e) ==
  /\ buffer[e] # <<>>
  /\ \E n \in ReadSizes : Take(e, n, call)

----------------------------------------------------------------------------
(* Write and TryWrite. *)

Units(g, m) == [i \in 1..m |-> [by |-> g, n |-> written[g] + i]]

\* The chunks of at most maxSize that m units make.
Chunks(m) == (m + MaxSize - 1) \div MaxSize

\* Puts m units of g into the buffer of e and tells n readers.
Put(g, e, m, n, c) ==
  /\ buffer' = [buffer EXCEPT ![e] = @ \o Units(g, m)]
  /\ written' = [written EXCEPT ![g] = @ + m]
  /\ call' \in Signalled(c, ReadCond(e), n)
  /\ UNCHANGED <<closed, deadlines, seen>>

Room(e) == BufferSize - Len(buffer[e])

\* A Write with so many units left, just called or woken.  What has room goes
\* into the peer's buffer, with a Signal for each chunk (a Write that is woken
\* and finds no room puts an empty one); if that is not all, the deadline of the
\* writer's end decides whether it waits.
PutOrWait(g, left) ==
  LET peer == Peer(Writers[g])
      m == Min({left, Room(peer)})
      deadline == writeDeadline[Writers[g]]
  IN IF closed[peer]
     THEN call' = [call EXCEPT ![g] = Idle]
          /\ UNCHANGED <<buffer, closed, deadlines, written, seen>>
     ELSE Put(g, peer, m, IF call[g].at = "woken" THEN Max({Chunks(m), 1}) ELSE Chunks(m),
            [call EXCEPT ![g] =
            IF m = left \/ deadline = "past" THEN Idle ELSE WaitWith(deadline, left - m)])

Write(g) ==
  /\ call[g].at = "idle"
  /\ \E n \in WriteSizes : written[g] + n <= MaxUnits /\ PutOrWait(g, n)

ResumeWrite(g) == call[g].at = "woken" /\ PutOrWait(g, call[g].left)

\* TryWrite fills the buffer of its own end, up to maxSize, where Write fills the
\* peer's: see TryWriteReachesPeer.
TryWrite(g) ==
  LET e == TryWriters[g] IN
  /\ ~closed[e] /\ Room(e) > 0
  /\ \E n \in WriteSizes :
       written[g] + n <= MaxUnits /\ Put(g, e, Min({n, Room(e), MaxSize}), 1, call)

----------------------------------------------------------------------------
(* Close, deadlines and timers. *)

Close(e) ==
  /\ ~closed[e]
  /\ closed' = [closed EXCEPT ![e] = TRUE]
  /\ call' = Woken(call, Waiting(ReadCond(e) \cup WriteCond(e)))
  /\ UNCHANGED <<buffer, deadlines, written, seen>>

SetReadDeadline(e, t) ==
  /\ changes < MaxChanges /\ changes' = changes + 1
  /\ readDeadline' = [readDeadline EXCEPT ![e] = t]
  /\ call' = Woken(call, Waiting(ReadCond(e)))
  /\ UNCHANGED <<buffer, closed, writeDeadline, written, seen>>

\* The broadcast goes to writeCond of this end, where the peer's writers wait.
SetWriteDeadline(e, t) ==
  /\ changes < MaxChanges /\ changes' = changes + 1
  /\ writeDeadline' = [writeDeadline EXCEPT ![e] = t]
  /\ call' = Woken(call, Waiting(WriteCond(e)))
  /\ UNCHANGED <<buffer, closed, readDeadline, written, seen>>

\* Mutated: SetDeadline wakes nobody.
SetDeadlineQuietly(e, t) ==
  /\ changes < MaxChanges /\ changes' = changes + 1
  /\ readDeadline' = [readDeadline EXCEPT ![e] = t]
  /\ writeDeadline' = [writeDeadline EXCEPT ![e] = t]
  /\ call' = call
  /\ UNCHANGED <<buffer, closed, written, seen>>

SetDeadline(e, t) ==
  /\ changes < MaxChanges /\ changes' = changes + 1
  /\ readDeadline' = [readDeadline EXCEPT ![e] = t]
  /\ writeDeadline' = [writeDeadline EXCEPT ![e] = t]
  /\ call' = Woken(call, Waiting(ReadCond(e) \cup WriteCond(e)))
  /\ UNCHANGED <<buffer, closed, written, seen>>

\* Time passes.
Expire(e) ==
  /\ \/ readDeadline[e] = "later" /\ readDeadline' = [readDeadline EXCEPT ![e] = "past"]
        /\ UNCHANGED writeDeadline
     \/ writeDeadline[e] = "later" /\ writeDeadline' = [writeDeadline EXCEPT ![e] = "past"]
        /\ UNCHANGED readDeadline
  /\ UNCHANGED <<buffer, closed, changes, call, written, seen>>

\* The timer of a waiting call runs out, for a Write perhaps at a deadline that
\* has been replaced since: everybody on its condition wakes.
ReadTimer(g) ==
  /\ call[g].timer /\ readDeadline[Readers[g]] = "past"
  /\ call' = Woken(call, Waiting(ReadCond(Readers[g])))
  /\ UNCHANGED <<buffer, closed, deadlines, written, seen>>

WriteTimer(g) ==
  /\ call[g].timer /\ writeDeadline[Writers[g]] # "later"
  /\ call' = Woken(call, Waiting(WriteCond(Peer(Writers[g]))))
  /\ UNCHANGED <<buffer, closed, deadlines, written, seen>>

----------------------------------------------------------------------------
Next ==
  \/ \E g \in DOMAIN Readers : Read(g) \/ ReadTimer(g)
  \/ \E g \in DOMAIN Writers : Write(g) \/ ResumeWrite(g) \/ WriteTimer(g)
  \/ \E g \in DOMAIN TryWriters : TryWrite(g)
  \/ \E e \in Ends : TryRead(e) \/ Close(e) \/ Expire(e)
  \/ \E e \in Ends, t \in Times :
       \/ <<"read", e, t>> \in Deadlines /\ SetReadDeadline(e, t)
       \/ <<"write", e, t>> \in Deadlines /\ SetWriteDeadline(e, t)
       \/ <<"both", e, t>> \in Deadlines /\ SetDeadline(e, t)

Spec == Init /\ [][Next]_vars

\* Goroutines that have been woken run, time passes, timers run out, and the
\* applications that read go on reading.
Fairness ==
  /\ \A g \in DOMAIN Readers : WF_vars(Read(g)) /\ WF_vars(ReadTimer(g))
  /\ \A g \in DOMAIN Writers : WF_vars(ResumeWrite(g)) /\ WF_vars(WriteTimer(g))
  /\ \A e \in Ends : WF_vars(Expire(e))

FairSpec == Spec /\ Fairness

----------------------------------------------------------------------------
(* Properties. *)

Target(g) == IF g \in DOMAIN Writers THEN Peer(Writers[g]) ELSE TryWriters[g]
Written == DOMAIN Writers \cup DOMAIN TryWriters

TypeOK ==
  /\ buffer \in [Ends -> Seq([by : Written, n : 1..MaxUnits])]
  /\ \A e \in Ends : Len(buffer[e]) <= BufferSize
  /\ closed \in [Ends -> BOOLEAN]
  /\ readDeadline \in [Ends -> Times] /\ writeDeadline \in [Ends -> Times]
  /\ call \in [Goroutines -> Calls]
  /\ written \in [Goroutines -> 0..MaxUnits] /\ seen \in [Goroutines -> 0..MaxUnits]
  /\ changes \in 0..MaxChanges

\* What a goroutine has written and nobody has read is in the buffer that its call
\* appends to (Target: the peer's for Write, the own one for TryWrite), once and in order, however its Write was cut into chunks by
\* others, a full buffer or a deadline.  That TryWrite's buffer is the wrong one is
\* not looked at here.  (Read, Write)
InOrder ==
  \A g \in Written :
    LET b == buffer[Target(g)]
        mine == {i \in DOMAIN b : b[i].by = g}
    IN /\ {b[i].n : i \in mine} = (seen[g] + 1)..written[g]
       /\ \A i, j \in mine : i < j => b[i].n < b[j].n

\* Not all readers of an end sleep while it has data, and none sleeps once it is
\* closed; no writer sleeps at a closed end, nor over room unless another was
\* woken for it or data is left whose Read will wake one.  (the Signals of Read,
\* TryRead and Write, and Close)
NoLostWakeup ==
  \A e \in Ends :
    /\ closed[e] => Waiting(ReadCond(e) \cup WriteCond(e)) = {}
    /\ buffer[e] # <<>> /\ ReadCond(e) # {} => \E g \in ReadCond(e) : call[g].at # "waiting"
    /\ Waiting(WriteCond(e)) # {} =>
         buffer[e] # <<>> \/ \E g \in WriteCond(e) : call[g].at = "woken"

\* Data that is in a buffer is read, also when the reader that was woken for it
\* is slow and another takes it.  (Write wakes readers)
DataIsRead ==
  \A e \in Ends : ReadCond(e) # {} => (buffer[e] # <<>> ~> buffer[e] = <<>>)

\* Where the peer is read, every Write returns.  (Read wakes writers, Close)
WriteReturns == \A g \in DOMAIN Writers : call[g].at # "idle" ~> call[g].at = "idle"

\* A Read whose end has been closed, or whose deadline has passed, returns,
\* whenever the deadline was set.  (Close, SetReadDeadline, the timer)
ReadReturns ==
  \A g \in DOMAIN Readers :
    call[g].at # "idle" /\ (closed[Readers[g]] \/ readDeadline[Readers[g]] = "past")
      ~> call[g].at = "idle" \/ ~(closed[Readers[g]] \/ readDeadline[Readers[g]] = "past")

\* What TryWrite has put is waiting at the peer, where bufpipe_test.go:313-329 reads
\* it with TryRead.  TryWrite appends to p.buffer (bufpipe.go:420), the buffer of its
\* own end, and TLC refutes this.
TryWriteReachesPeer ==
  \A e \in Ends : \A u \in Range(buffer[e]) :
    u.by \in DOMAIN TryWriters => e = Peer(TryWriters[u.by])

\* What has been written is buffered within the size of the buffer, in order.
DataIntact == TypeOK /\ InOrder

\* Nobody waits for ever for data, for room, or past a Close or a deadline.
CallsReturn == DataIsRead /\ WriteReturns /\ ReadReturns
=============================================================================
