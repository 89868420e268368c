----------------------------- MODULE MCZtpFrame -----------------------------
(* The codec of ZtpFrame over bounded inputs. *)
EXTENDS ZtpFrame

\* Identifiers around each length of a varint, below 2^31.
Identifiers == {0, 1, 127, 128, 300, 16383, 16384, 2097151, 2097152, 268435455, 268435456, 2147483647}
Payloads == {<<>>, <<90>>, <<128, 1>>}
SomeFrames == {NewFrame(t, id, p) : t \in {1, 6}, id \in Identifiers, p \in Payloads}
                \cup {NewAckFrame(id, a, 65536) : id \in {1, 128}, a \in {0, 255, 256, 2147483647}}

\* Encoding as the loop does it: seven bits at a time.
LoopEncode[value \in Nat] ==
  IF value < 128 THEN <<value>> ELSE <<(value % 128) + 128>> \o LoopEncode[value \div 128]

ASSUME VarintsAreLeb128 == \A v \in Identifiers : EncodeVarint(v) = LoopEncode[v]

ASSUME VarintsComeBack ==
  \A v \in Identifiers, tail \in Payloads :
    DecodeVarint(EncodeVarint(v) \o tail) = [ok |-> TRUE, value |-> v, size |-> VarintSize(v)]

\* A frame is read whole, and what follows it is left for the next frame.
ASSUME FramesComeBack ==
  \A f \in SomeFrames, next \in Payloads \cup {Encode(NewFrame(1, 1, <<7>>))} :
    LET bytes == Encode(f) \o next
        read  == ReadFrame(bytes)
    IN read = [err |-> "none", frame |-> f, used |-> Len(Encode(f))] /\ Decode(bytes) = read

\* A frame that is cut short is never taken for another.
ASSUME CutFramesEnd ==
  \A f \in SomeFrames : \A n \in 0..(Len(Encode(f)) - 1) :
    /\ ReadFrame(SubSeq(Encode(f), 1, n)) = Failed("end")
    /\ Decode(SubSeq(Encode(f), 1, n)) = Failed("end")

\* ReadFrame and Decode agree on every input up to this size, except for the error.
Tails == UNION {[1..n -> {0, 1, 3, 128, 135}] : n \in 0..5}
ASSUME ReadersAgree ==
  \A version \in {1, 2}, type \in {0, 1, 6, 7}, tail \in Tails :
    LET bytes == <<FrameMagic, version, type, 0>> \o tail
    IN ReadFrame(bytes).err = "none" \/ Decode(bytes).err = "none"
         => ReadFrame(bytes) = Decode(bytes)

ASSUME AcksComeBack ==
  \A a, w \in Identifiers :
    DecodeAckPayload(EncodeAckPayload(a, w)) = [ok |-> TRUE, ackedBytes |-> a, windowSize |-> w]
=============================================================================
