---------------------------- MODULE MCZtpSession -----------------------------
EXTENDS ZtpSession

\* Everything that can go wrong on a transport with read deadlines.
Hostile == Behaviours \ {"no_deadline", "stalled_peer"}
==============================================================================
