----------------------------- MODULE StreamPipe -----------------------------
(***************************************************************************)
(* What one direction of a ZTP stream promises its two applications: an    *)
(* ordered pipe of chunks that loses nothing, repeats nothing, and reports *)
(* the end of the stream only when every chunk has been read.              *)
(***************************************************************************)
EXTENDS Naturals

VARIABLES
  put,     \* number of chunks handed to the pipe
  size,    \* their bytes
  got,     \* number of chunks the reader has taken: always the oldest ones
  taken,   \* their bytes
  shut,    \* TRUE once the writer has closed the stream
  ended    \* TRUE once the reader has been told EOF

pipeVars == <<put, size, got, taken, shut, ended>>

PipeInit ==
  /\ put = 0 /\ size = 0
  /\ got = 0 /\ taken = 0
  /\ shut = FALSE
  /\ ended = FALSE

Put ==
  /\ ~shut
  /\ put' = put + 1 /\ size' > size
  /\ UNCHANGED <<got, taken, shut, ended>>

Get ==
  /\ got < put
  /\ got' = got + 1 /\ taken' > taken /\ taken' <= size
  /\ UNCHANGED <<put, size, shut, ended>>

Shut ==
  /\ ~shut
  /\ shut' = TRUE
  /\ UNCHANGED <<put, size, got, taken, ended>>

End ==
  /\ shut
  /\ got = put /\ taken = size
  /\ ended' = TRUE
  /\ UNCHANGED <<put, size, got, taken, shut>>

PipeNext == Put \/ Get \/ Shut \/ End

PipeSpec == PipeInit /\ [][PipeNext]_pipeVars
=============================================================================
