--------------------------- MODULE MCBufferedPipe ---------------------------
EXTENDS BufferedPipe

CONSTANTS r1, r2, w1, w2, t1

\* Two goroutines write at a and two read at b, as in TestBufferedPipe_Concurrent;
\* one calls TryWrite at b.
AtB == [g \in {r1, r2} |-> "b"]
AtA == [g \in {w1, w2} |-> "a"]
TryAtB == [g \in {t1} |-> "b"]

\* Deadlines of the readers and the writers, and one at the end where the
\* writers do not belong but wait.
Timing == {<<"read", "b", "later">>, <<"write", "a", "later">>, <<"write", "a", "past">>,
           <<"write", "b", "later">>, <<"both", "b", "past">>, <<"both", "a", "none">>}
=============================================================================
