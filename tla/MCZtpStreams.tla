---------------------------- MODULE MCZtpStreams -----------------------------
(* The sessions of ZtpStreams, and the codec of the frames they exchange. *)
EXTENDS ZtpStreams, MCZtpFrame
==============================================================================
