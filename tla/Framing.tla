------------------------------ MODULE Framing -------------------------------
(***************************************************************************)
(* The framing of the Open Device Protocol (framing.rs): two magic bytes,  *)
(* a length of two bytes, the CRC-8 of the payload, the payload.  Bytes    *)
(* are numbers 0 .. 255; the checksum is the real one, the limit on the    *)
(* length of a payload is a constant.                                      *)
(***************************************************************************)
EXTENDS Integers, Sequences

CONSTANT MaxPayload  \* MAX_PAYLOAD

ASSUME FramingAssumption == MaxPayload \in Nat \ {0} /\ MaxPayload <= 65535

Byte == 0 .. 255
Magic == <<170, 85>>
HeaderLength == 5

-----------------------------------------------------------------------------
(* CRC-8, polynomial 7 *)

\* Exclusive or of two bytes: the bits in which they differ.
Xor(a, b) ==
    LET Bit(value) == value * ((a \div value + b \div value) % 2)
    IN Bit(1) + Bit(2) + Bit(4) + Bit(8) + Bit(16) + Bit(32) + Bit(64) + Bit(128)

\* One round of the inner loop, and the eight of them for each byte.
Shifted(crc) == IF crc >= 128 THEN Xor((2 * crc) % 256, 7) ELSE 2 * crc
FourRounds(crc) == Shifted(Shifted(Shifted(Shifted(crc))))
CrcOfByte == [byte \in Byte |-> FourRounds(FourRounds(byte))]

Crc8Update(seed, data) ==
    LET crc[k \in 0 .. Len(data)] ==
            IF k = 0 THEN seed ELSE CrcOfByte[Xor(crc[k - 1], data[k])]
    IN crc[Len(data)]

Crc8(data) == Crc8Update(0, data)

-----------------------------------------------------------------------------
(* Frames *)

Encode(payload) ==
    Magic \o <<Len(payload) % 256, Len(payload) \div 256, Crc8(payload)>> \o payload

LengthField(buffer) == buffer[3] + 256 * buffer[4]
FrameEnd(buffer) == HeaderLength + LengthField(buffer)
Payload(buffer) == SubSeq(buffer, HeaderLength + 1, FrameEnd(buffer))

OutOfStep(buffer) == Len(buffer) >= 2 /\ SubSeq(buffer, 1, 2) # Magic

\* Mutant of ImpossibleLength: any length is waited for.
AnyLength(buffer) == FALSE
ImpossibleLength(buffer) == LengthField(buffer) > MaxPayload

Incomplete(buffer) == Len(buffer) < FrameEnd(buffer)

\* Mutant of Corrupt: the checksum is not compared.
NeverCorrupt(buffer) == FALSE
Corrupt(buffer) == Crc8(Payload(buffer)) # buffer[5]

\* Decoder::push: the payloads in the buffer, and what is left in it.  A frame
\* that cannot be right costs its magic only; the search goes on behind it.
Decoded[buffer \in Seq(Byte)] ==
    IF OutOfStep(buffer) THEN Decoded[Tail(buffer)]
    ELSE IF Len(buffer) < HeaderLength THEN [left |-> buffer, payloads |-> <<>>]
    ELSE IF ImpossibleLength(buffer) THEN Decoded[SubSeq(buffer, 3, Len(buffer))]
    ELSE IF Incomplete(buffer) THEN [left |-> buffer, payloads |-> <<>>]
    ELSE IF Corrupt(buffer) THEN Decoded[SubSeq(buffer, 3, Len(buffer))]
    ELSE LET rest == Decoded[SubSeq(buffer, FrameEnd(buffer) + 1, Len(buffer))]
         IN [left |-> rest.left, payloads |-> <<Payload(buffer)>> \o rest.payloads]
=============================================================================
