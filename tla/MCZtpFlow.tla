------------------------------ MODULE MCZtpFlow ------------------------------
EXTENDS ZtpFlow

\* Everything that can happen to a stream whose write timeout is the default
\* 30 s, longer than the 5 s of sendFrame.
Rough == Behaviours \ {"write_timeout"}

\* No timer but the reader's runs out, and nobody closes under a Write.
Calm == {"read_timeout"}
==============================================================================
