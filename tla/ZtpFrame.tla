------------------------------ MODULE ZtpFrame ------------------------------
(***************************************************************************)
(* The bytes of ZTP frames: four bytes of header, the stream identifier as *)
(* a LEB128 varint of up to five bytes, the length in two bytes, and the   *)
(* payload.  Readers are sequences of the bytes that they will deliver.    *)
(***************************************************************************)
EXTENDS Integers, Sequences

FrameMagic == 90
ProtocolVersion == 1
TypeAck == 4
Types == 1..6
FlagPriority == 1

Bytes == 0..255

\* The factor of the i-th byte of a varint: a shift by 7 * (i - 1).
Weight == <<1, 128, 16384, 2097152, 268435456>>

----------------------------------------------------------------------------
(* Varints. *)

VarintSize(value) ==
  IF value < Weight[2] THEN 1 ELSE IF value < Weight[3] THEN 2
  ELSE IF value < Weight[4] THEN 3 ELSE IF value < Weight[5] THEN 4 ELSE 5

EncodeVarint(value) ==
  [i \in 1..VarintSize(value) |->
     ((value \div Weight[i]) % 128) + (IF i < VarintSize(value) THEN 128 ELSE 0)]

\* The first byte without the continuation bit.
Ends(data, i) == /\ i \in DOMAIN data /\ data[i] < 128
                 /\ \A j \in 1..(i - 1) : data[j] >= 128

\* The i-th byte of a varint of n bytes; the fifth has room for four bits of a uint32.
Bits(data, i, n) == IF i <= n THEN Weight[i] * (data[i] % (IF i = 5 THEN 16 ELSE 128)) ELSE 0

\* A varint that stops in the middle counts as ended.
DecodeVarint(data) ==
  LET n == IF \E i \in DOMAIN data : Ends(data, i)
           THEN CHOOSE i \in DOMAIN data : Ends(data, i) ELSE Len(data)
  IN IF n = 0 \/ n > 5 \/ (n = 5 /\ data[n] >= 128)
     THEN [ok |-> FALSE, value |-> 0, size |-> 0]
     ELSE [ok |-> TRUE, size |-> n,
           value |-> Bits(data, 1, n) + Bits(data, 2, n) + Bits(data, 3, n)
                     + Bits(data, 4, n) + Bits(data, 5, n)]

----------------------------------------------------------------------------
(* Frames. *)

\* Length is a uint16: it is wrong for a payload that is too long.
NewFrame(type, id, payload) ==
  [type |-> type, flags |-> 0, streamID |-> id, length |-> Len(payload) % 65536,
   payload |-> payload]

Validate(f) == f.type \in Types /\ Len(f.payload) = f.length

\* Nothing is written for a frame that is not valid.
Encode(f) ==
  IF ~Validate(f) THEN <<>>
  ELSE <<FrameMagic, ProtocolVersion, f.type, f.flags>> \o EncodeVarint(f.streamID)
         \o <<f.length % 256, f.length \div 256>> \o f.payload

Failed(why) == [err |-> why]

\* What follows the identifier, which takes id.size bytes from the fifth on.
Rest(in, id) ==
  LET at     == 4 + id.size
      length == in[at + 1] + 256 * in[at + 2]
      f == [type |-> in[3], flags |-> in[4], streamID |-> id.value, length |-> length,
            payload |-> SubSeq(in, at + 3, at + 2 + length)]
  IN IF Len(in) < at + 2 \/ Len(in) < at + 2 + length THEN Failed("end")
     ELSE IF in[2] # ProtocolVersion \/ ~Validate(f) THEN Failed("invalid")
     ELSE [err |-> "none", frame |-> f, used |-> at + 2 + length]

Decode(data) ==
  LET id == DecodeVarint(SubSeq(data, 5, Len(data)))
  IN IF Len(data) < 6 THEN Failed("end")
     ELSE IF data[1] # FrameMagic THEN Failed("magic")
     ELSE IF ~id.ok THEN Failed("varint")
     ELSE Rest(data, id)

\* The identifier is read byte by byte until it ends, however long it gets.
ReadFrame(in) ==
  LET tail == SubSeq(in, 5, Len(in))
      last == CHOOSE i \in DOMAIN tail : Ends(tail, i)
      id   == DecodeVarint(SubSeq(tail, 1, last))
  IN IF Len(in) < 4 THEN Failed("end")
     ELSE IF in[1] # FrameMagic THEN Failed("magic")
     ELSE IF \A i \in DOMAIN tail : ~Ends(tail, i) THEN Failed("end")
     ELSE IF ~id.ok THEN Failed("varint")
     ELSE Rest(in, id)

----------------------------------------------------------------------------
(* Acknowledgements. *)

Uint32(n) == <<n % 256, (n \div 256) % 256, (n \div 65536) % 256, n \div 16777216>>
Number(data, at) ==
  data[at + 1] + 256 * data[at + 2] + 65536 * data[at + 3] + 16777216 * data[at + 4]

EncodeAckPayload(acked, window) == Uint32(acked) \o Uint32(window)

DecodeAckPayload(data) ==
  IF Len(data) # 8 THEN [ok |-> FALSE]
  ELSE [ok |-> TRUE, ackedBytes |-> Number(data, 0), windowSize |-> Number(data, 4)]

\* Acknowledgements go into the high-priority queue.
NewAckFrame(id, acked, window) ==
  [NewFrame(TypeAck, id, EncodeAckPayload(acked, window)) EXCEPT !.flags = FlagPriority]
=============================================================================
