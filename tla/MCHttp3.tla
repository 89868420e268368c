------------------------------- MODULE MCHttp3 -------------------------------
EXTENDS Http3

\* One end sends, the other answers once.
Bound == [e \in Ends |-> IF e = "a" THEN 5 ELSE 1]
==============================================================================
