----------------------------- MODULE MCTunProxy ------------------------------
EXTENDS TunProxy

\* Server sequence numbers far enough apart, and from the wrap.
FarIsn == [c \in Conns |-> 10 * (MaxConns - c) + 3]

\* Everything that can go wrong with clients that acknowledge by themselves
\* and servers that always read.
Hostile == Behaviours \ {"piggyback", "echo"}
==============================================================================
