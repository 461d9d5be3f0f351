------------------------- MODULE DeviceLink_proofs --------------------------
(***************************************************************************)
(* What the link keeps, for any documents, image, limits and noise.  The   *)
(* decoder is a recursive function of the buffer: by induction over the    *)
(* length of the buffer it obeys its equation, and has a type (Decoded-    *)
(* Round, DecodedType).  LinkInv is the inductive invariant: it adds to    *)
(* the types that what a device has of an upload is the beginning of the   *)
(* image, that the duties its answers announce are those it applied, and   *)
(* that a duty credited was read from an answer taken.  LinkOrder says     *)
(* what is under way in each direction, as long as nothing was damaged.    *)
(***************************************************************************)
EXTENDS DeviceLink, SequenceTheorems, WellFoundedInduction, TLAPS

-----------------------------------------------------------------------------
(* Induction and recursion *)

Below == {p \in Nat \X Nat : p[1] < p[2]}

\* Below is well founded: the library states it of an operator.
LEMMA BelowIsWellFounded == IsWellFoundedOn(Below, Nat)
  BY NatLessThanWellFounded, Zenon DEF OpToRel, Below

\* Induction over the natural numbers, for sets: a set with 0 and with the
\* successor of each natural number it has, has them all.
LEMMA SetInduction ==
    ASSUME NEW S, 0 \in S, \A n \in Nat : n \in S => n + 1 \in S
    PROVE  Nat \subseteq S
<1> DEFINE T == Nat \ S
<1>1. SUFFICES ASSUME T # {} PROVE FALSE
  OBVIOUS
<1>2. PICK x \in T : \A y \in T : ~ (<<y, x>> \in Below)
  <2> T \subseteq Nat
    OBVIOUS
  <2> HIDE DEF T
  <2> QED
    BY <1>1, BelowIsWellFounded, WFMin
<1>3. x \in Nat /\ x # 0 /\ x - 1 \in Nat
  OBVIOUS
<1>4. <<x - 1, x>> \in Below
  BY <1>3 DEF Below
<1>5. x - 1 \in S
  BY <1>2, <1>3, <1>4
<1> QED
  BY <1>3, <1>5

\* The same when all the smaller numbers may be used.
LEMMA StrongSetInduction ==
    ASSUME NEW S, \A n \in Nat : (0 .. n - 1) \subseteq S => n \in S
    PROVE  Nat \subseteq S
<1> DEFINE T == {n \in Nat : (0 .. n) \subseteq S}
<1>1. 0 \in T
  OBVIOUS
<1>2. ASSUME NEW n \in Nat, n \in T PROVE n + 1 \in T
  BY <1>2
<1>3. Nat \subseteq T
  <2> HIDE DEF T
  <2> QED BY <1>1, <1>2, SetInduction
<1> QED
  BY <1>3

\* f[k] is what k steps make of start.
Iterates(f, n, start, step) ==
    /\ f[0] = start
    /\ \A k \in 1 .. n : f[k] = step[<<f[k - 1], k>>]

\* A step that stays in a set can be iterated, and the iteration stays there.
LEMMA IterationExists ==
    ASSUME NEW S, NEW n \in Nat, NEW start \in S, NEW step \in [S \X (1 .. n) -> S]
    PROVE  \E f \in [0 .. n -> S] : Iterates(f, n, start, step)
<1> DEFINE Good(m, f) == /\ f[0] = start
                         /\ \A k \in 1 .. m : f[k] = step[<<f[k - 1], k>>]
           T == {m \in Nat : m <= n => \E f \in [0 .. m -> S] : Good(m, f)}
<1>1. 0 \in T
  <2> DEFINE f == [k \in 0 .. 0 |-> start]
  <2>1. f \in [0 .. 0 -> S] /\ Good(0, f)
    OBVIOUS
  <2> QED
    BY <2>1
<1>2. ASSUME NEW m \in Nat, m \in T PROVE m + 1 \in T
  <2> SUFFICES ASSUME m + 1 <= n PROVE \E g \in [0 .. m + 1 -> S] : Good(m + 1, g)
    OBVIOUS
  <2>1. PICK f \in [0 .. m -> S] : Good(m, f)
    BY <1>2
  <2> DEFINE g == [k \in 0 .. m + 1 |-> IF k = m + 1 THEN step[<<f[m], m + 1>>] ELSE f[k]]
  <2>2. g \in [0 .. m + 1 -> S]
    <3>1. step[<<f[m], m + 1>>] \in S
      OBVIOUS
    <3> QED
      BY <3>1
  <2>3. /\ g[m + 1] = step[<<f[m], m + 1>>]
        /\ \A k \in 0 .. m : g[k] = f[k]
    OBVIOUS
  <2> HIDE DEF g
  <2>4. g[0] = start
    BY <2>1, <2>3
  <2>5. ASSUME NEW k \in 1 .. m + 1 PROVE g[k] = step[<<g[k - 1], k>>]
    <3>1. CASE k = m + 1
      <4>1. k - 1 = m /\ g[k - 1] = f[m]
        BY <2>3, <3>1
      <4> QED
        BY <2>3, <3>1, <4>1
    <3>2. CASE k \in 1 .. m
      <4>1. g[k] = f[k] /\ g[k - 1] = f[k - 1]
        BY <2>3, <3>2
      <4> QED
        BY <2>1, <3>2, <4>1
    <3> QED
      BY <3>1, <3>2
  <2> QED
    BY <2>2, <2>4, <2>5
<1>3. n \in T
  <2> HIDE DEF T
  <2> QED BY <1>1, <1>2, SetInduction
<1> QED
  BY <1>3 DEF Iterates

-----------------------------------------------------------------------------
(* The checksum *)

\* Bytes are numbers.
LEMMA ByteIsNat == \A b \in Byte : b \in Nat
  BY DEF Byte

\* Two bytes, or two numbers of which only the low eight bits count, differ in a
\* byte.
LEMMA XorType == \A a, b \in Nat : Xor(a, b) \in Byte
<1> SUFFICES ASSUME NEW a \in Nat, NEW b \in Nat PROVE Xor(a, b) \in Byte
  OBVIOUS
<1> DEFINE Bit(value) == value * ((a \div value + b \div value) % 2)
<1>0. \A value \in Byte \ {0} : (a \div value + b \div value) % 2 \in {0, 1}
  BY DEF Byte
<1>1. /\ Bit(1) \in {0, 1} /\ Bit(2) \in {0, 2} /\ Bit(4) \in {0, 4} /\ Bit(8) \in {0, 8}
      /\ Bit(16) \in {0, 16} /\ Bit(32) \in {0, 32} /\ Bit(64) \in {0, 64}
      /\ Bit(128) \in {0, 128}
  BY <1>0 DEF Byte
<1>2. Xor(a, b) = Bit(1) + Bit(2) + Bit(4) + Bit(8) + Bit(16) + Bit(32) + Bit(64) + Bit(128)
  BY DEF Xor
<1> HIDE DEF Bit
<1> QED
  BY <1>1, <1>2 DEF Byte

\* The eight rounds turn a byte into a byte.
LEMMA CrcOfByteType == CrcOfByte \in [Byte -> Byte]
<1>1. ASSUME NEW crc \in Byte PROVE Shifted(crc) \in Byte
  <2>1. crc \in Nat /\ (2 * crc) % 256 \in Nat /\ 7 \in Nat
    BY DEF Byte
  <2>2. Xor((2 * crc) % 256, 7) \in Byte
    BY <2>1, XorType
  <2>3. ~(crc >= 128) => 2 * crc \in Byte
    BY DEF Byte
  <2> QED
    BY <2>2, <2>3 DEF Shifted
<1>2. \A crc \in Byte : FourRounds(crc) \in Byte
  BY <1>1 DEF FourRounds
<1> QED
  BY <1>2 DEF CrcOfByte

\* Whatever the seed and the bytes, the checksum is a byte.
LEMMA Crc8UpdateType ==
    ASSUME NEW seed \in Byte, NEW data \in Seq(Byte)
    PROVE  Crc8Update(seed, data) \in Byte
<1> DEFINE n == Len(data)
           step == [p \in Byte \X (1 .. n) |-> CrcOfByte[Xor(p[1], data[p[2]])]]
           IsCrc(f) == f = [k \in 0 .. n |->
                               IF k = 0 THEN seed ELSE CrcOfByte[Xor(f[k - 1], data[k])]]
<1>1. ASSUME NEW c \in Byte, NEW k \in 1 .. n PROVE CrcOfByte[Xor(c, data[k])] \in Byte
  <2>1. data[k] \in Byte
    OBVIOUS
  <2>2. c \in Nat /\ data[k] \in Nat
    BY <2>1, ByteIsNat
  <2> QED
    BY <2>2, CrcOfByteType, XorType
<1>2. step \in [Byte \X (1 .. n) -> Byte]
  BY <1>1
<1>3. PICK f \in [0 .. n -> Byte] : Iterates(f, n, seed, step)
  <2>1. n \in Nat
    OBVIOUS
  <2> HIDE DEF step, n, IsCrc
  <2> QED
    BY <1>2, <2>1, IterationExists
<1>4. IsCrc(f)
  <2>1. ASSUME NEW k \in 1 .. n PROVE f[k] = CrcOfByte[Xor(f[k - 1], data[k])]
    <3>1. f[k - 1] \in Byte
      OBVIOUS
    <3>2. step[<<f[k - 1], k>>] = CrcOfByte[Xor(f[k - 1], data[k])]
      BY <3>1
    <3> QED
      BY <1>3, <3>2 DEF Iterates
  <2>2. f = [k \in 0 .. n |-> f[k]]
    OBVIOUS
  <2>3. \A k \in 0 .. n : f[k] = IF k = 0 THEN seed ELSE CrcOfByte[Xor(f[k - 1], data[k])]
    BY <1>3, <2>1 DEF Iterates
  <2> HIDE DEF n, step
  <2> QED
    BY <2>2, <2>3
<1>5. ASSUME NEW g, IsCrc(g) PROVE g[n] \in Byte
  <2> DEFINE T == {k \in Nat : k <= n => g[k] \in Byte}
  <2>1. 0 \in T
    BY <1>5
  <2>2. ASSUME NEW k \in Nat, k \in T PROVE k + 1 \in T
    <3> SUFFICES ASSUME k + 1 <= n PROVE g[k + 1] \in Byte
      OBVIOUS
    <3>1. g[k + 1] = CrcOfByte[Xor(g[k], data[k + 1])]
      BY <1>5
    <3> QED
      BY <1>1, <2>2, <3>1
  <2>3. n \in T
    <3> HIDE DEF T
    <3> QED BY <2>1, <2>2, SetInduction
  <2> QED
    BY <2>3
<1>6. IsCrc(CHOOSE g : IsCrc(g))
  <2> HIDE DEF IsCrc
  <2> QED BY <1>4
<1>7. Crc8Update(seed, data) = (CHOOSE g : IsCrc(g))[n]
  BY DEF Crc8Update
<1> HIDE DEF IsCrc
<1> QED
  BY <1>5, <1>6, <1>7

-----------------------------------------------------------------------------
(* The decoder *)

\* What one round of Decoder::push makes of the buffer, the rest decoded by d.
Round(d, buf) ==
    IF OutOfStep(buf) THEN d[Tail(buf)]
    ELSE IF Len(buf) < HeaderLength THEN [left |-> buf, payloads |-> <<>>]
    ELSE IF ImpossibleLength(buf) THEN d[SubSeq(buf, 3, Len(buf))]
    ELSE IF Incomplete(buf) THEN [left |-> buf, payloads |-> <<>>]
    ELSE IF Corrupt(buf) THEN d[SubSeq(buf, 3, Len(buf))]
    ELSE LET rest == d[SubSeq(buf, FrameEnd(buf) + 1, Len(buf))]
         IN [left |-> rest.left, payloads |-> <<Payload(buf)>> \o rest.payloads]

\* Every round that goes on goes on with fewer bytes.
LEMMA TailShrinks ==
    ASSUME NEW buf \in Seq(Byte), OutOfStep(buf)
    PROVE  Tail(buf) \in Seq(Byte) /\ Len(Tail(buf)) = Len(buf) - 1 /\ Len(buf) \in Nat \ {0}
  BY DEF OutOfStep

\* What is left when some bytes are dropped.
LEMMA DropShrinks ==
    ASSUME NEW buf \in Seq(Byte), NEW n \in 1 .. Len(buf)
    PROVE  /\ SubSeq(buf, n + 1, Len(buf)) \in Seq(Byte)
           /\ Len(SubSeq(buf, n + 1, Len(buf))) = Len(buf) - n
<1>1. Len(buf) \in Nat
  OBVIOUS
<1>2. n + 1 \in 1 .. Len(buf) + 1
  BY <1>1
<1> QED
  BY <1>1, <1>2

\* The length a header announces is a number, whatever bytes are in it.
LEMMA HeaderType ==
    ASSUME NEW buf \in Seq(Byte), Len(buf) >= HeaderLength
    PROVE  /\ LengthField(buf) \in Nat
           /\ FrameEnd(buf) = LengthField(buf) + 5
           /\ FrameEnd(buf) \in Nat
<1>1. buf[3] \in Byte /\ buf[4] \in Byte
  BY DEF HeaderLength
<1>2. buf[3] \in Nat /\ buf[4] \in Nat
  BY <1>1, ByteIsNat
<1>3. LengthField(buf) \in Nat
  BY <1>2 DEF LengthField
<1> QED
  BY <1>3 DEF FrameEnd, HeaderLength

\* A round looks only at what is decoded of fewer bytes.
LEMMA RoundIsLocal ==
    ASSUME NEW buf \in Seq(Byte), NEW d, NEW e,
           \A c \in Seq(Byte) : Len(c) < Len(buf) => d[c] = e[c]
    PROVE  Round(d, buf) = Round(e, buf)
<1>0. Len(buf) \in Nat
  OBVIOUS
<1>1. ASSUME NEW c \in Seq(Byte), NEW n \in Nat \ {0}, Len(c) = Len(buf) - n
      PROVE  d[c] = e[c]
  <2>1. Len(c) < Len(buf)
    BY <1>0, <1>1
  <2> QED
    BY <2>1
<1>5. ASSUME OutOfStep(buf) PROVE d[Tail(buf)] = e[Tail(buf)]
  <2>1. Tail(buf) \in Seq(Byte) /\ Len(Tail(buf)) = Len(buf) - 1 /\ 1 \in Nat \ {0}
    BY <1>5, TailShrinks
  <2> QED
    BY <1>1, <2>1
<1>2. Len(buf) >= HeaderLength => d[SubSeq(buf, 3, Len(buf))] = e[SubSeq(buf, 3, Len(buf))]
  <2> SUFFICES ASSUME Len(buf) >= HeaderLength
               PROVE  d[SubSeq(buf, 3, Len(buf))] = e[SubSeq(buf, 3, Len(buf))]
    OBVIOUS
  <2>1. 2 \in 1 .. Len(buf) /\ 2 + 1 = 3
    BY <1>0 DEF HeaderLength
  <2>2. SubSeq(buf, 3, Len(buf)) \in Seq(Byte) /\ Len(SubSeq(buf, 3, Len(buf))) = Len(buf) - 2
    BY <2>1, DropShrinks
  <2>3. 2 \in Nat \ {0}
    OBVIOUS
  <2> QED
    BY <1>1, <2>2, <2>3
<1>3. Len(buf) >= HeaderLength /\ ~Incomplete(buf)
        => d[SubSeq(buf, FrameEnd(buf) + 1, Len(buf))]
             = e[SubSeq(buf, FrameEnd(buf) + 1, Len(buf))]
  <2> SUFFICES ASSUME Len(buf) >= HeaderLength, ~Incomplete(buf)
               PROVE  d[SubSeq(buf, FrameEnd(buf) + 1, Len(buf))]
                        = e[SubSeq(buf, FrameEnd(buf) + 1, Len(buf))]
    OBVIOUS
  <2>1. FrameEnd(buf) \in 1 .. Len(buf)
    BY <1>0, HeaderType DEF Incomplete
  <2>2. /\ SubSeq(buf, FrameEnd(buf) + 1, Len(buf)) \in Seq(Byte)
        /\ Len(SubSeq(buf, FrameEnd(buf) + 1, Len(buf))) = Len(buf) - FrameEnd(buf)
    BY <2>1, DropShrinks
  <2>3. FrameEnd(buf) \in Nat \ {0}
    BY <2>1
  <2> QED
    BY <1>1, <2>2, <2>3
<1>4. ~(Len(buf) < HeaderLength) => Len(buf) >= HeaderLength
  BY <1>0 DEF HeaderLength
<1> QED
  BY <1>2, <1>3, <1>4, <1>5, Zenon DEF Round

Upto(n) == {buf \in Seq(Byte) : Len(buf) <= n}
Decodes(d, n) == \A buf \in Upto(n) : d[buf] = Round(d, buf)

\* For every bound there is a function that decodes the buffers up to it...
LEMMA DecodersExist == \A n \in Nat : \E d : Decodes(d, n)
<1> DEFINE T == {n \in Nat : \E d : Decodes(d, n)}
<1>1. 0 \in T
  <2> DEFINE d == [buf \in Upto(0) |-> Round(<<>>, buf)]
  <2>1. ASSUME NEW buf \in Upto(0) PROVE d[buf] = Round(d, buf)
    <3>1. buf \in Seq(Byte) /\ \A c \in Seq(Byte) : ~(Len(c) < Len(buf))
      BY DEF Upto
    <3>2. d[buf] = Round(<<>>, buf)
      OBVIOUS
    <3> HIDE DEF d
    <3>3. Round(<<>>, buf) = Round(d, buf)
      BY <3>1, RoundIsLocal
    <3> QED
      BY <3>2, <3>3
  <2> QED
    BY <2>1 DEF Decodes
<1>2. ASSUME NEW n \in Nat, n \in T PROVE n + 1 \in T
  <2>1. PICK d : Decodes(d, n)
    BY <1>2
  <2> DEFINE e == [buf \in Upto(n + 1) |-> IF Len(buf) <= n THEN d[buf] ELSE Round(d, buf)]
  <2>2. \A c \in Upto(n) : e[c] = d[c]
    BY DEF Upto
  <2>3. ASSUME NEW buf \in Upto(n + 1) PROVE e[buf] = Round(e, buf)
    <3>1. buf \in Seq(Byte) /\ Len(buf) \in Nat /\ Len(buf) <= n + 1
      BY DEF Upto
    <3>2. e[buf] = IF Len(buf) <= n THEN d[buf] ELSE Round(d, buf)
      OBVIOUS
    <3> HIDE DEF e
    <3>3. e[buf] = Round(d, buf)
      BY <2>1, <3>1, <3>2 DEF Decodes, Upto
    <3>4. \A c \in Seq(Byte) : Len(c) < Len(buf) => d[c] = e[c]
      BY <2>2, <3>1 DEF Upto
    <3>5. Round(d, buf) = Round(e, buf)
      BY <3>1, <3>4, RoundIsLocal
    <3> QED
      BY <3>3, <3>5
  <2>4. Decodes(e, n + 1)
    <3> HIDE DEF e
    <3> QED BY <2>3 DEF Decodes
  <2> QED
    BY <2>4
<1>3. Nat \subseteq T
  <2> HIDE DEF T
  <2> QED BY <1>1, <1>2, SetInduction
<1> QED
  BY <1>3

\* ... and it is the only one, so that they are all parts of one decoder.
LEMMA DecodersAgree ==
    ASSUME NEW n \in Nat, NEW d, NEW e, Decodes(d, n), Decodes(e, n), NEW buf \in Upto(n)
    PROVE  d[buf] = e[buf]
<1> DEFINE T == {k \in Nat : k <= n => \A c \in Seq(Byte) : Len(c) = k => d[c] = e[c]}
<1>1. ASSUME NEW k \in Nat, (0 .. k - 1) \subseteq T PROVE k \in T
  <2> SUFFICES ASSUME k <= n, NEW c \in Seq(Byte), Len(c) = k PROVE d[c] = e[c]
    OBVIOUS
  <2>1. \A b \in Seq(Byte) : Len(b) < Len(c) => d[b] = e[b]
    <3> SUFFICES ASSUME NEW b \in Seq(Byte), Len(b) < Len(c) PROVE d[b] = e[b]
      OBVIOUS
    <3>1. Len(b) \in 0 .. k - 1 /\ Len(b) <= n
      OBVIOUS
    <3> QED
      BY <1>1, <3>1
  <2>2. Round(d, c) = Round(e, c)
    BY <2>1, RoundIsLocal
  <2>3. c \in Upto(n)
    BY DEF Upto
  <2> QED
    BY <2>2, <2>3 DEF Decodes
<1>2. Nat \subseteq T
  <2> HIDE DEF T
  <2> QED BY <1>1, StrongSetInduction
<1>3. buf \in Seq(Byte) /\ Len(buf) \in Nat /\ Len(buf) <= n
  BY DEF Upto
<1> QED
  BY <1>2, <1>3

\* Decoded is the function its definition says it is.
LEMMA DecodedRound == \A buf \in Seq(Byte) : Decoded[buf] = Round(Decoded, buf)
<1> DEFINE G(n) == CHOOSE d : Decodes(d, n)
           D == [buf \in Seq(Byte) |-> G(Len(buf))[buf]]
           IsDecoder(d) == d = [buf \in Seq(Byte) |-> Round(d, buf)]
<1>1. \A n \in Nat : Decodes(G(n), n)
  BY DecodersExist, Zenon
<1>2. ASSUME NEW buf \in Seq(Byte) PROVE D[buf] = Round(D, buf)
  <2> DEFINE n == Len(buf)
  <2>0. n \in Nat /\ buf \in Upto(n)
    BY DEF Upto
  <2>1. D[buf] = G(n)[buf]
    OBVIOUS
  <2>2. G(n)[buf] = Round(G(n), buf)
    <3> HIDE DEF G, n
    <3> QED BY <1>1, <2>0 DEF Decodes
  <2>3. ASSUME NEW c \in Seq(Byte), Len(c) < Len(buf) PROVE G(n)[c] = D[c]
    <3>1. Len(c) \in Nat /\ c \in Upto(Len(c)) /\ Upto(Len(c)) \subseteq Upto(n)
      BY <2>3 DEF Upto
    <3>2. D[c] = G(Len(c))[c]
      OBVIOUS
    <3> HIDE DEF G, D, n
    <3>3. Decodes(G(n), Len(c)) /\ Decodes(G(Len(c)), Len(c))
      BY <1>1, <2>0, <3>1 DEF Decodes
    <3>4. G(n)[c] = G(Len(c))[c]
      BY <3>1, <3>3, DecodersAgree
    <3> QED
      BY <3>2, <3>4
  <2> HIDE DEF G, D
  <2>4. Round(G(n), buf) = Round(D, buf)
    BY <2>3, RoundIsLocal
  <2> QED
    BY <2>1, <2>2, <2>4
<1>3. IsDecoder(D)
  <2>1. D = [buf \in Seq(Byte) |-> D[buf]]
    OBVIOUS
  <2> HIDE DEF D
  <2> QED
    BY <1>2, <2>1
<1>4. IsDecoder(CHOOSE d : IsDecoder(d))
  <2> HIDE DEF IsDecoder, D
  <2> QED BY <1>3
<1>5. Decoded = CHOOSE d : IsDecoder(d)
  BY Zenon DEF Decoded, Round
<1>6. Decoded = [buf \in Seq(Byte) |-> Round(Decoded, buf)]
  <2>1. IsDecoder(Decoded)
    <3> HIDE DEF IsDecoder
    <3> QED BY <1>4, <1>5
  <2> QED
    BY <2>1
<1> QED
  BY <1>6, Zenon

\* What a decoder leaves is less than a frame of the largest size, what it
\* yields are strings of bytes.
WellDecoded(result) ==
    /\ result.left \in Seq(Byte)
    /\ Len(result.left) < HeaderLength + MaxPayload
    /\ result.payloads \in Seq(Seq(Byte))

\* Decoder::push, on any buffer: what stays in it is shorter than a frame of the
\* largest size.
LEMMA DecodedType == \A buf \in Seq(Byte) : WellDecoded(Decoded[buf])
<1> DEFINE T == {n \in Nat : \A buf \in Seq(Byte) : Len(buf) = n => WellDecoded(Decoded[buf])}
<1>1. ASSUME NEW n \in Nat, (0 .. n - 1) \subseteq T PROVE n \in T
  <2> SUFFICES ASSUME NEW buf \in Seq(Byte), Len(buf) = n PROVE WellDecoded(Decoded[buf])
    OBVIOUS
  <2> DEFINE R == Decoded[buf]
  <2>0. R = Round(Decoded, buf)
    BY DecodedRound
  <2>1. ASSUME NEW c \in Seq(Byte), NEW k \in Nat \ {0}, Len(c) = Len(buf) - k
        PROVE  WellDecoded(Decoded[c])
    <3>1. Len(c) \in 0 .. n - 1
      BY <2>1
    <3> QED
      BY <1>1, <3>1
  <2>2. 1 \in Nat \ {0} /\ 2 \in Nat \ {0} /\ Len(buf) \in Nat /\ MaxPayload \in Nat \ {0}
    BY FramingAssumption
  <2> HIDE DEF T
  <2>3. CASE OutOfStep(buf)
    <3>1. Tail(buf) \in Seq(Byte) /\ Len(Tail(buf)) = Len(buf) - 1
      BY <2>3, TailShrinks
    <3>2. WellDecoded(Decoded[Tail(buf)])
      BY <2>1, <2>2, <3>1
    <3> QED
      BY <2>0, <2>3, <3>2 DEF Round
  <2>4. CASE ~OutOfStep(buf) /\ Len(buf) < HeaderLength
    <3>1. R = [left |-> buf, payloads |-> <<>>]
      BY <2>0, <2>4 DEF Round
    <3>2. R.left = buf /\ R.payloads = <<>>
      BY <3>1
    <3>3. Len(buf) < HeaderLength + MaxPayload
      BY <2>2, <2>4 DEF HeaderLength
    <3> QED
      BY <3>2, <3>3 DEF WellDecoded
  <2>5. CASE ~OutOfStep(buf) /\ ~(Len(buf) < HeaderLength)
    <3>1. Len(buf) >= HeaderLength
      BY <2>2, <2>5 DEF HeaderLength
    <3>2. WellDecoded(Decoded[SubSeq(buf, 3, Len(buf))])
      <4>1. 2 \in 1 .. Len(buf) /\ 2 + 1 = 3
        BY <2>2, <3>1 DEF HeaderLength
      <4>2. /\ SubSeq(buf, 3, Len(buf)) \in Seq(Byte)
            /\ Len(SubSeq(buf, 3, Len(buf))) = Len(buf) - 2
        BY <4>1, DropShrinks
      <4> QED
        BY <2>1, <2>2, <4>2
    <3>3. CASE ImpossibleLength(buf)
      BY <2>0, <2>5, <3>2, <3>3 DEF Round
    <3>4. CASE ~ImpossibleLength(buf) /\ Incomplete(buf)
      <4>1. R = [left |-> buf, payloads |-> <<>>]
        BY <2>0, <2>5, <3>4 DEF Round
      <4>2. Len(buf) < HeaderLength + MaxPayload
        BY <2>2, <3>1, <3>4, HeaderType
           DEF ImpossibleLength, Incomplete, HeaderLength
      <4>3. R.left = buf /\ R.payloads = <<>>
        BY <4>1
      <4> QED
        BY <4>2, <4>3 DEF WellDecoded
    <3>5. CASE ~ImpossibleLength(buf) /\ ~Incomplete(buf) /\ Corrupt(buf)
      BY <2>0, <2>5, <3>2, <3>5 DEF Round
    <3>6. CASE ~ImpossibleLength(buf) /\ ~Incomplete(buf) /\ ~Corrupt(buf)
      <4> DEFINE more == SubSeq(buf, FrameEnd(buf) + 1, Len(buf))
                 rest == Decoded[more]
      <4>1. FrameEnd(buf) \in 1 .. Len(buf) /\ FrameEnd(buf) \in Nat \ {0}
        BY <2>2, <3>1, <3>6, HeaderType DEF Incomplete
      <4>2. more \in Seq(Byte) /\ Len(more) = Len(buf) - FrameEnd(buf)
        BY <4>1, DropShrinks
      <4>3. Payload(buf) \in Seq(Byte)
        BY <2>2, <4>1 DEF Payload, HeaderLength
      <4>4. R = [left |-> rest.left, payloads |-> <<Payload(buf)>> \o rest.payloads]
        BY <2>0, <2>5, <3>6 DEF Round
      <4> HIDE DEF more
      <4>5. WellDecoded(rest)
        BY <2>1, <4>1, <4>2
      <4> HIDE DEF rest
      <4>6. <<Payload(buf)>> \o rest.payloads \in Seq(Seq(Byte))
        BY <4>3, <4>5 DEF WellDecoded
      <4>7. R.left = rest.left /\ R.payloads = <<Payload(buf)>> \o rest.payloads
        BY <4>4
      <4> QED
        BY <4>5, <4>6, <4>7 DEF WellDecoded
    <3> QED
      BY <3>3, <3>4, <3>5, <3>6
  <2> QED
    BY <2>3, <2>4, <2>5
<1>2. Nat \subseteq T
  <2> HIDE DEF T
  <2> QED BY <1>1, StrongSetInduction
<1> QED
  BY <1>2

-----------------------------------------------------------------------------
(* Frames *)

HeaderOf(payload) ==
    Magic \o <<Len(payload) % 256, Len(payload) \div 256, Crc8(payload)>>

\* The largest payload has a length that fits in its two bytes.
LEMMA LargestFrame == MaxPayload \in Nat \ {0} /\ MaxPayload <= 65535
  BY FramingAssumption

\* Where the bytes of a concatenation come from.
LEMMA ConcatBytes ==
    ASSUME NEW s \in Seq(Byte), NEW t \in Seq(Byte)
    PROVE  /\ s \o t \in Seq(Byte)
           /\ Len(s \o t) = Len(s) + Len(t)
           /\ \A i \in 1 .. Len(s) + Len(t) : (s \o t)[i] =
                 IF i <= Len(s) THEN s[i] ELSE t[i - Len(s)]
  BY ConcatProperties, Zenon

\* Concatenation is associative; stated for bytes.
LEMMA ConcatRegroup ==
    ASSUME NEW s \in Seq(Byte), NEW t \in Seq(Byte), NEW u \in Seq(Byte)
    PROVE  (s \o t) \o u = s \o (t \o u)
  BY ConcatAssociative

\* A length is its low and its high byte.
LEMMA TwoBytes ==
    ASSUME NEW n \in Nat
    PROVE  /\ n % 256 \in Byte /\ (n % 256) + 256 * (n \div 256) = n
           /\ n <= 65535 => n \div 256 \in Byte
  BY DEF Byte

\* The header of a frame, byte by byte.
LEMMA HeaderBytes ==
    ASSUME NEW payload \in Seq(Byte), Len(payload) <= 65535
    PROVE  /\ HeaderOf(payload) \in Seq(Byte) /\ Len(HeaderOf(payload)) = 5
           /\ HeaderOf(payload)[1] = 170 /\ HeaderOf(payload)[2] = 85
           /\ HeaderOf(payload)[3] = Len(payload) % 256
           /\ HeaderOf(payload)[4] = Len(payload) \div 256
           /\ HeaderOf(payload)[5] = Crc8(payload)
<1> DEFINE n == Len(payload)
           c == Crc8(payload)
           low == n % 256
           high == n \div 256
           magic == <<170, 85>>
           fields == <<low, high, c>>
<1>1. c \in Byte
  <2>1. 0 \in Byte
    BY DEF Byte
  <2> QED
    BY <2>1, Crc8UpdateType DEF Crc8
<1>2. n \in Nat /\ n <= 65535
  OBVIOUS
<1>3. low \in Byte /\ high \in Byte
  BY <1>2, TwoBytes
<1> HIDE DEF n, c, low, high
<1>4. /\ magic \in Seq(Byte) /\ Len(magic) = 2 /\ magic[1] = 170 /\ magic[2] = 85
      /\ fields \in Seq(Byte) /\ Len(fields) = 3
      /\ fields[1] = low /\ fields[2] = high /\ fields[3] = c
  BY <1>1, <1>3 DEF Byte
<1>5. HeaderOf(payload) = magic \o fields
  BY DEF HeaderOf, Magic, n, c, low, high
<1> HIDE DEF magic, fields
<1>9. magic \in Seq(Byte) /\ fields \in Seq(Byte)
  BY <1>4
<1>6. /\ magic \o fields \in Seq(Byte)
      /\ Len(magic \o fields) = Len(magic) + Len(fields)
      /\ \A i \in 1 .. Len(magic) + Len(fields) : (magic \o fields)[i] =
            IF i <= Len(magic) THEN magic[i] ELSE fields[i - Len(magic)]
  BY <1>9, ConcatBytes
<1> DEFINE header == HeaderOf(payload)
<1>7. /\ header \in Seq(Byte) /\ Len(header) = 5
      /\ \A i \in 1 .. 5 : header[i] = IF i <= 2 THEN magic[i] ELSE fields[i - 2]
  BY <1>4, <1>5, <1>6
<1> HIDE DEF header
<1>8. /\ header[1] = 170 /\ header[2] = 85 /\ header[3] = low /\ header[4] = high
      /\ header[5] = c
  BY <1>4, <1>7
<1> QED
  BY <1>7, <1>8 DEF header, n, c, low, high

\* Where the bytes of a frame are when other bytes follow it.
FrameAhead(buf, payload, rest) ==
    /\ Len(payload) \in Nat /\ Len(rest) \in Nat
    /\ buf \in Seq(Byte) /\ Len(buf) = 5 + Len(payload) + Len(rest)
    /\ Encode(payload) \in Seq(Byte) /\ Len(Encode(payload)) = 5 + Len(payload)
    /\ buf[1] = 170 /\ buf[2] = 85
    /\ buf[3] = Len(payload) % 256 /\ buf[4] = Len(payload) \div 256
    /\ buf[5] = Crc8(payload)
    /\ \A i \in 1 .. Len(payload) : buf[5 + i] = payload[i]
    /\ \A i \in 1 .. Len(rest) : buf[5 + Len(payload) + i] = rest[i]

\* So it is of every frame.
LEMMA FrameBytes ==
    ASSUME NEW payload \in Seq(Byte), Len(payload) <= MaxPayload, NEW rest \in Seq(Byte)
    PROVE  FrameAhead(Encode(payload) \o rest, payload, rest)
<1> DEFINE buf == Encode(payload) \o rest
           header == HeaderOf(payload)
           frame == header \o payload
<1>1. Len(payload) \in Nat /\ Len(rest) \in Nat /\ Len(payload) <= 65535
  <2>1. MaxPayload \in Nat /\ MaxPayload <= 65535
    BY LargestFrame
  <2>2. Len(payload) \in Nat /\ Len(rest) \in Nat
    OBVIOUS
  <2> QED
    BY <2>1, <2>2
<1>2. /\ header \in Seq(Byte) /\ Len(header) = 5
      /\ header[1] = 170 /\ header[2] = 85 /\ header[3] = Len(payload) % 256
      /\ header[4] = Len(payload) \div 256 /\ header[5] = Crc8(payload)
  BY <1>1, HeaderBytes
<1>3. Encode(payload) = frame
  BY DEF Encode, HeaderOf
<1> HIDE DEF header
<1>13. header \in Seq(Byte)
  BY <1>2
<1>4. /\ header \o payload \in Seq(Byte)
      /\ Len(header \o payload) = Len(header) + Len(payload)
      /\ \A i \in 1 .. Len(header) + Len(payload) : (header \o payload)[i] =
            IF i <= Len(header) THEN header[i] ELSE payload[i - Len(header)]
  BY <1>13, ConcatProperties, Zenon
<1> HIDE DEF frame
<1>5. /\ frame \in Seq(Byte) /\ Len(frame) = 5 + Len(payload)
      /\ \A i \in 1 .. 5 + Len(payload) : frame[i] =
            IF i <= 5 THEN header[i] ELSE payload[i - 5]
  BY <1>2, <1>4 DEF frame
<1>14. frame \in Seq(Byte)
  BY <1>5
<1>6. /\ frame \o rest \in Seq(Byte)
      /\ Len(frame \o rest) = Len(frame) + Len(rest)
      /\ \A i \in 1 .. Len(frame) + Len(rest) : (frame \o rest)[i] =
            IF i <= Len(frame) THEN frame[i] ELSE rest[i - Len(frame)]
  BY <1>14, ConcatProperties, Zenon
<1>7. buf = frame \o rest
  BY <1>3
<1> HIDE DEF buf
<1>8. /\ buf \in Seq(Byte) /\ Len(buf) = 5 + Len(payload) + Len(rest)
      /\ \A i \in 1 .. 5 + Len(payload) + Len(rest) : buf[i] =
            IF i <= 5 + Len(payload) THEN frame[i] ELSE rest[i - (5 + Len(payload))]
  BY <1>5, <1>6, <1>7
<1>9. \A i \in 1 .. 5 : buf[i] = header[i]
  BY <1>1, <1>5, <1>8
<1>10. \A i \in 1 .. Len(payload) : buf[5 + i] = payload[i]
  <2> TAKE i \in 1 .. Len(payload)
  <2>1. 5 + i \in 1 .. 5 + Len(payload) /\ ~(5 + i <= 5) /\ 5 + i - 5 = i
    BY <1>1
  <2>2. frame[5 + i] = payload[i]
    BY <1>5, <2>1
  <2> QED
    BY <1>1, <1>8, <2>1, <2>2
<1>11. \A i \in 1 .. Len(rest) : buf[5 + Len(payload) + i] = rest[i]
  <2> TAKE i \in 1 .. Len(rest)
  <2>1. /\ 5 + Len(payload) + i \in 1 .. 5 + Len(payload) + Len(rest)
        /\ ~(5 + Len(payload) + i <= 5 + Len(payload))
        /\ 5 + Len(payload) + i - (5 + Len(payload)) = i
    BY <1>1
  <2> QED
    BY <1>8, <2>1
<1>12. Encode(payload) \in Seq(Byte) /\ Len(Encode(payload)) = 5 + Len(payload)
  BY <1>3, <1>5
<1> QED
  <2>1. /\ buf[1] = 170 /\ buf[2] = 85 /\ buf[3] = Len(payload) % 256
        /\ buf[4] = Len(payload) \div 256 /\ buf[5] = Crc8(payload)
    BY <1>2, <1>9
  <2>2. FrameAhead(buf, payload, rest)
    BY <1>1, <1>8, <1>10, <1>11, <1>12, <2>1 DEF FrameAhead
  <2> QED
    BY <2>2 DEF buf

\* The magic opens a frame, so that a buffer that starts with it is in step.
LEMMA InStep ==
    ASSUME NEW buf \in Seq(Byte), Len(buf) >= 2, buf[1] = 170, buf[2] = 85
    PROVE  ~OutOfStep(buf)
<1>1. Len(buf) \in Nat /\ 2 \in 1 .. Len(buf)
  OBVIOUS
<1>2. SubSeq(buf, 1, 2) \in Seq(Byte) /\ Len(SubSeq(buf, 1, 2)) = 2
  BY <1>1
<1>3. SubSeq(buf, 1, 2)[1] = 170 /\ SubSeq(buf, 1, 2)[2] = 85
  BY <1>1
<1>4. SubSeq(buf, 1, 2) = <<170, 85>>
  <2> DEFINE some == SubSeq(buf, 1, 2)
  <2>1. some \in Seq(Byte) /\ Len(some) = 2 /\ some[1] = 170 /\ some[2] = 85
    BY <1>2, <1>3
  <2> HIDE DEF some
  <2>2. some = <<170, 85>>
    BY <2>1
  <2> QED
    BY <2>2 DEF some
<1> QED
  BY <1>4 DEF OutOfStep, Magic

\* What was framed is found again, whatever follows it on the stream, and the
\* search goes on right behind it.
THEOREM FrameSurvives ==
    \A payload, rest \in Seq(Byte) : Len(payload) <= MaxPayload =>
        Decoded[Encode(payload) \o rest] =
            [left |-> Decoded[rest].left, payloads |-> <<payload>> \o Decoded[rest].payloads]
<1> SUFFICES ASSUME NEW payload \in Seq(Byte), NEW rest \in Seq(Byte), Len(payload) <= MaxPayload
             PROVE  Decoded[Encode(payload) \o rest] =
                        [left |-> Decoded[rest].left,
                         payloads |-> <<payload>> \o Decoded[rest].payloads]
  OBVIOUS
<1> DEFINE buf == Encode(payload) \o rest
           n == Len(payload)
<1>1. /\ n \in Nat /\ Len(rest) \in Nat
      /\ buf \in Seq(Byte) /\ Len(buf) = 5 + n + Len(rest)
      /\ buf[1] = 170 /\ buf[2] = 85 /\ buf[3] = n % 256 /\ buf[4] = n \div 256
      /\ buf[5] = Crc8(payload)
      /\ \A i \in 1 .. n : buf[5 + i] = payload[i]
      /\ \A i \in 1 .. Len(rest) : buf[5 + n + i] = rest[i]
  <2>1. FrameAhead(buf, payload, rest)
    BY FrameBytes, Zenon
  <2> HIDE DEF buf
  <2> QED
    BY <2>1 DEF FrameAhead
<1>2. n <= MaxPayload /\ MaxPayload \in Nat
  BY FramingAssumption
<1> HIDE DEF buf
<1>3. ~OutOfStep(buf) /\ ~(Len(buf) < HeaderLength)
  <2>1. Len(buf) >= 5
    BY <1>1
  <2>2. Len(buf) >= 2
    BY <1>1
  <2>3. buf \in Seq(Byte) /\ buf[1] = 170 /\ buf[2] = 85
    BY <1>1
  <2>4. ~OutOfStep(buf)
    BY <2>2, <2>3, InStep
  <2>5. ~(Len(buf) < HeaderLength)
    BY <1>1, <2>1 DEF HeaderLength
  <2> QED
    BY <2>4, <2>5
<1>4. LengthField(buf) = n
  <2>1. (n % 256) + 256 * (n \div 256) = n
    BY <1>1, TwoBytes
  <2> QED
    BY <1>1, <2>1 DEF LengthField
<1>5. FrameEnd(buf) = 5 + n
  BY <1>4 DEF FrameEnd, HeaderLength
<1>6. ~ImpossibleLength(buf) /\ ~Incomplete(buf)
  BY <1>1, <1>2, <1>4, <1>5 DEF ImpossibleLength, Incomplete
<1>7. Payload(buf) = payload
  <2>1. Payload(buf) = SubSeq(buf, 6, 5 + n)
    BY <1>5 DEF Payload, HeaderLength
  <2>2. /\ SubSeq(buf, 6, 5 + n) \in Seq(Byte) /\ Len(SubSeq(buf, 6, 5 + n)) = n
        /\ \A i \in 1 .. n : SubSeq(buf, 6, 5 + n)[i] = buf[5 + i]
    BY <1>1
  <2>3. \A i \in 1 .. n : SubSeq(buf, 6, 5 + n)[i] = payload[i]
    BY <1>1, <2>2
  <2> DEFINE some == SubSeq(buf, 6, 5 + n)
  <2> HIDE DEF some
  <2>4. some = payload
    BY <2>2, <2>3, SeqEqual DEF some
  <2> QED
    BY <2>1, <2>4 DEF some
<1>8. SubSeq(buf, FrameEnd(buf) + 1, Len(buf)) = rest
  <2> DEFINE some == SubSeq(buf, n + 6, 5 + n + Len(rest))
  <2>1. /\ some \in Seq(Byte) /\ Len(some) = Len(rest)
        /\ \A i \in 1 .. Len(rest) : some[i] = buf[5 + n + i]
    BY <1>1
  <2>2. \A i \in 1 .. Len(rest) : some[i] = rest[i]
    BY <1>1, <2>1
  <2>3. SubSeq(buf, FrameEnd(buf) + 1, Len(buf)) = some
    <3>1. FrameEnd(buf) + 1 = n + 6
      BY <1>1, <1>5
    <3> QED
      BY <1>1, <3>1
  <2> HIDE DEF some
  <2>4. some = rest
    BY <2>1, <2>2, SeqEqual
  <2> QED
    BY <2>3, <2>4
<1>9. ~Corrupt(buf)
  BY <1>1, <1>7 DEF Corrupt
<1>10. Round(Decoded, buf) =
          [left |-> Decoded[rest].left, payloads |-> <<payload>> \o Decoded[rest].payloads]
  BY <1>3, <1>6, <1>7, <1>8, <1>9 DEF Round
<1> QED
  BY <1>1, <1>10, DecodedRound DEF buf

\* A frame of which only a part has arrived is waited for: no byte of it is
\* dropped, wherever the read was cut.
THEOREM FrameIsAwaited ==
    \A payload, buf, more \in Seq(Byte) :
        /\ Len(payload) <= MaxPayload
        /\ buf \o more = Encode(payload) /\ Len(buf) < Len(Encode(payload))
        => Decoded[buf] = [left |-> buf, payloads |-> <<>>]
<1> SUFFICES ASSUME NEW payload \in Seq(Byte), NEW buf \in Seq(Byte), NEW more \in Seq(Byte),
                    Len(payload) <= MaxPayload,
                    buf \o more = Encode(payload), Len(buf) < Len(Encode(payload))
             PROVE  Decoded[buf] = [left |-> buf, payloads |-> <<>>]
  OBVIOUS
<1> DEFINE n == Len(payload)
           frame == Encode(payload)
<1>1. /\ n \in Nat /\ frame \in Seq(Byte) /\ Len(frame) = 5 + n
      /\ frame[1] = 170 /\ frame[2] = 85 /\ frame[3] = n % 256 /\ frame[4] = n \div 256
  <2> DEFINE nothing == <<>>
             whole == Encode(payload) \o nothing
  <2>1. nothing \in Seq(Byte) /\ Len(nothing) = 0
    OBVIOUS
  <2> HIDE DEF nothing
  <2>2. FrameAhead(whole, payload, nothing)
    BY <2>1, FrameBytes, Zenon
  <2> HIDE DEF frame
  <2>3. frame \in Seq(Byte)
    BY <2>2 DEF FrameAhead, frame
  <2>4. whole = frame
    BY <2>3, ConcatEmptySeq DEF nothing, frame
  <2> HIDE DEF whole
  <2> QED
    BY <2>1, <2>2, <2>3, <2>4 DEF FrameAhead
<1> HIDE DEF frame
<1>2. /\ buf \o more = frame /\ Len(buf) < 5 + n /\ Len(buf) \in Nat
      /\ \A i \in 1 .. Len(buf) : buf[i] = frame[i]
  <2>1. /\ Len(buf \o more) = Len(buf) + Len(more)
        /\ \A i \in 1 .. Len(buf) + Len(more) : (buf \o more)[i] =
              IF i <= Len(buf) THEN buf[i] ELSE more[i - Len(buf)]
    BY ConcatProperties, Zenon
  <2>2. buf \o more = frame /\ Len(buf) < Len(frame) /\ Len(buf) \in Nat /\ Len(more) \in Nat
    BY DEF frame
  <2> QED
    BY <1>1, <2>1, <2>2
<1>3. ~OutOfStep(buf)
  <2>1. CASE Len(buf) >= 2
    <3>1. 1 \in 1 .. Len(buf) /\ 2 \in 1 .. Len(buf)
      BY <1>2, <2>1
    <3>2. buf[1] = 170 /\ buf[2] = 85
      BY <1>1, <1>2, <3>1
    <3> QED
      BY <2>1, <3>2, InStep
  <2>2. CASE ~(Len(buf) >= 2)
    BY <2>2 DEF OutOfStep
  <2> QED
    BY <2>1, <2>2
<1>4. CASE Len(buf) < HeaderLength
  BY <1>3, <1>4, DecodedRound DEF Round
<1>5. CASE ~(Len(buf) < HeaderLength)
  <2>1. buf[3] = n % 256 /\ buf[4] = n \div 256
    BY <1>1, <1>2, <1>5 DEF HeaderLength
  <2>2. LengthField(buf) = n
    <3>1. (n % 256) + 256 * (n \div 256) = n
      BY <1>1, TwoBytes
    <3> QED
      BY <2>1, <3>1 DEF LengthField
  <2>3. n <= MaxPayload /\ MaxPayload \in Nat
    BY LargestFrame
  <2>4. ~ImpossibleLength(buf)
    BY <1>1, <2>2, <2>3 DEF ImpossibleLength
  <2>5. Incomplete(buf)
    BY <1>1, <1>2, <2>2 DEF Incomplete, FrameEnd, HeaderLength
  <2> QED
    BY <1>3, <1>5, <2>4, <2>5, DecodedRound DEF Round
<1> QED
  BY <1>4, <1>5

-----------------------------------------------------------------------------
(* The device *)

\* What is in the device's memory, and what its memory of an upload means:
\* every byte taken so far stands at its place in some image, and the bytes are
\* the first ones of every image that all the chunks are cut from.
Memories == [duty : Duties, silent : 0 .. FallbackAfter + 1,
             engaged : BOOLEAN, bootloader : BOOLEAN,
             firmware : [received : Nat, total : 0 .. MaxFirmware, crc : Byte],
             flashed : Seq(Byte), chunks : SUBSET Requests,
             running : Seq(Byte), built : SUBSET Requests]

Begins(chunks, bytes) ==
    \A image \in Images : (\A r \in chunks : IsChunk(r, image)) =>
        Len(bytes) <= Len(image) /\ bytes = SubSeq(image, 1, Len(bytes))

Uploading(f) ==
    /\ Len(f.flashed) = f.firmware.received
    /\ InPlace(f.flashed) /\ Begins(f.chunks, f.flashed)

Installed(f) ==
    /\ InPlace(f.running)
    /\ f.built # {} => \E image \in Images : Len(image) = Len(f.running)
    /\ \A image \in Images :
          f.built # {} /\ (\A r \in f.built : IsChunk(r, image)) => f.running = image

Fans == {f \in Memories : Uploading(f) /\ Installed(f)}

\* What an upload that has not begun, and a device never updated, remember.
LEMMA NothingUploaded == InPlace(<<>>) /\ Begins({}, <<>>) /\ Len(<<>>) = 0
<1>1. <<>> \in Seq(Byte) /\ Len(<<>>) = 0 /\ DOMAIN <<>> = {}
  OBVIOUS
<1>2. ASSUME NEW image \in Images
      PROVE  0 <= Len(image) /\ SubSeq(image, 1, 0) = <<>>
  <2>1. image \in Seq(Byte)
    BY DeviceLinkAssumption, Zenon
  <2> QED
    BY <2>1
<1> QED
  BY <1>1, <1>2 DEF InPlace, Begins

\* A device whose memory of its uploads is another's is as sound.
LEMMA SameUpload ==
    ASSUME NEW f \in Fans, NEW g \in Memories, g.firmware = f.firmware,
           g.flashed = f.flashed, g.chunks = f.chunks,
           g.running = f.running, g.built = f.built
    PROVE  g \in Fans
  BY DEF Fans, Uploading, Installed

\* The device as it is built.
LEMMA NewFanSound == NewFan \in Fans
<1>1. /\ 40 \in Duties /\ 0 \in 0 .. FallbackAfter + 1 /\ 0 \in 0 .. MaxFirmware /\ 0 \in Byte
      /\ <<>> \in Seq(Byte)
  BY OpenFanAssumption DEF Duties, NewFan, Byte
<1>2. NewFan \in Memories
  BY <1>1 DEF NewFan, NoFirmware, Memories
<1>3. /\ NewFan.firmware.received = 0 /\ NewFan.flashed = <<>> /\ NewFan.chunks = {}
      /\ NewFan.running = <<>> /\ NewFan.built = {}
  BY DEF NewFan, NoFirmware
<1>4. Uploading(NewFan) /\ Installed(NewFan)
  BY <1>3, NothingUploaded DEF Uploading, Installed
<1> QED
  BY <1>2, <1>4 DEF Fans

\* MockOpenFan::tick keeps the device sound.
LEMMA TickedSound ==
    ASSUME NEW f \in Fans
    PROVE  Ticked(f) \in Fans
<1> DEFINE silent == IF f.silent > FallbackAfter THEN f.silent ELSE f.silent + 1
<1>1. f \in Memories
  BY DEF Fans
<1>2. silent \in 0 .. FallbackAfter + 1 /\ FallbackDuty \in Duties
  BY <1>1, OpenFanAssumption DEF Memories, Duties
<1>3. Ticked(f) = IF ~f.engaged /\ silent > FallbackAfter
                  THEN [f EXCEPT !.silent = silent, !.engaged = TRUE, !.duty = FallbackDuty]
                  ELSE [f EXCEPT !.silent = silent]
  BY DEF Ticked
<1> HIDE DEF silent
<1>4. Ticked(f) \in Memories
  BY <1>1, <1>2, <1>3 DEF Memories
<1>5. /\ Ticked(f).firmware = f.firmware
      /\ Ticked(f).flashed = f.flashed /\ Ticked(f).chunks = f.chunks
      /\ Ticked(f).running = f.running /\ Ticked(f).built = f.built
  BY <1>1, <1>3 DEF Memories
<1> QED
  BY <1>4, <1>5, SameUpload

\* MockOpenFan::host_spoke keeps it sound.
LEMMA HostSpokeSound ==
    ASSUME NEW f \in Fans
    PROVE  HostSpoke(f) \in Fans
<1>1. f \in Memories
  BY DEF Fans
<1>2. HostSpoke(f) \in Memories
  <2>1. 0 \in 0 .. FallbackAfter + 1 /\ FALSE \in BOOLEAN
    BY OpenFanAssumption
  <2> QED
    BY <1>1, <2>1 DEF Memories, HostSpoke
<1>3. /\ HostSpoke(f).firmware = f.firmware
      /\ HostSpoke(f).flashed = f.flashed /\ HostSpoke(f).chunks = f.chunks
      /\ HostSpoke(f).running = f.running /\ HostSpoke(f).built = f.built
  BY <1>1 DEF Memories, HostSpoke
<1> QED
  BY <1>2, <1>3, SameUpload

\* SET_STATE leaves the fan at a duty some request asks for, and its answer
\* does not depend on the fan.
LEMMA SetSound ==
    ASSUME NEW f \in Fans, NEW r \in Requests, r.op = "set_state"
    PROVE  /\ AnswerSet(f, r).fan \in Fans
           /\ AnswerSet(f, r).answer = AnswerSet(NewFan, r).answer
<1>1. f \in Memories
  BY DEF Fans
<1>2. AnswerSet(f, r).answer = AnswerSet(NewFan, r).answer
  BY DEF AnswerSet, Refuse, Reply
<1>3. CASE AnswerSet(f, r).fan = f
  BY <1>2, <1>3
<1>4. CASE AnswerSet(f, r).fan # f
  <2>1. r.value \in 0 .. 100 /\ AnswerSet(f, r).fan = [f EXCEPT !.duty = r.value]
    BY <1>4 DEF AnswerSet, Refuse, Reply
  <2>2. r.value \in Duties
    BY <2>1 DEF Duties
  <2> DEFINE g == [f EXCEPT !.duty = r.value]
  <2>3. /\ g \in Memories /\ g.firmware = f.firmware
        /\ g.flashed = f.flashed /\ g.chunks = f.chunks
        /\ g.running = f.running /\ g.built = f.built
    BY <1>1, <2>2 DEF Memories
  <2>4. g \in Fans
    BY <2>3, SameUpload
  <2> QED
    BY <1>2, <2>1, <2>4
<1> QED
  BY <1>3, <1>4

\* AnswerBootloader keeps it sound.
LEMMA BootloaderSound ==
    ASSUME NEW f \in Fans, NEW r \in Requests, r.op = "enter_bootloader"
    PROVE  /\ AnswerBootloader(f, r).fan \in Fans
           /\ AnswerBootloader(f, r).answer = AnswerBootloader(NewFan, r).answer
<1>1. f \in Memories
  BY DEF Fans
<1>2. r.confirm \in BOOLEAN
  BY DeviceLinkAssumption
<1> DEFINE g == [f EXCEPT !.bootloader = f.bootloader \/ r.confirm]
<1>3. AnswerBootloader(f, r).fan = g
  BY DEF AnswerBootloader, Reply
<1>4. f.bootloader \/ r.confirm \in BOOLEAN
  BY <1>1, <1>2 DEF Memories
<1>5. /\ g \in Memories /\ g.firmware = f.firmware
      /\ g.flashed = f.flashed /\ g.chunks = f.chunks
      /\ g.running = f.running /\ g.built = f.built
  BY <1>1, <1>4 DEF Memories
<1>6. g \in Fans
  BY <1>5, SameUpload
<1> QED
  BY <1>3, <1>6 DEF AnswerBootloader, Reply

\* A chunk taken where the last one ended leaves every byte in its place, and
\* the bytes the first ones of every image all the chunks are cut from.
LEMMA ChunkFits ==
    ASSUME NEW bytes \in Seq(Byte), NEW chunks, NEW r, NEW image0 \in Images,
           IsChunk(r, image0), r.offset = Len(bytes),
           InPlace(bytes), Begins(chunks, bytes)
    PROVE  /\ bytes \o r.data \in Seq(Byte)
           /\ Len(bytes \o r.data) = r.offset + Len(r.data)
           /\ InPlace(bytes \o r.data) /\ Begins(chunks \cup {r}, bytes \o r.data)
<1> DEFINE m == Len(bytes)
           n == Len(bytes) + Len(r.data)
           more == bytes \o r.data
<1>1. image0 \in Seq(Byte) /\ r.data \in Seq(Byte) /\ m \in Nat /\ n \in Nat /\ m <= n
  <2>1. image0 \in Seq(Byte)
    BY DeviceLinkAssumption, Zenon
  <2> QED
    BY <2>1 DEF IsChunk
<1>2. more \in Seq(Byte) /\ Len(more) = n /\ DOMAIN more = 1 .. n
  BY <1>1
<1>3. InPlace(more)
  <2> SUFFICES ASSUME NEW i \in 1 .. n
               PROVE  \E image \in Images : i <= Len(image) /\ more[i] = image[i]
    BY <1>2 DEF InPlace
  <2>1. CASE i <= m
    <3>1. more[i] = bytes[i] /\ i \in DOMAIN bytes
      BY <1>1, <2>1
    <3> QED
      BY <3>1 DEF InPlace
  <2>2. CASE ~(i <= m)
    <3>1. more[i] = r.data[i - m] /\ i - m \in 1 .. Len(r.data)
      BY <1>1, <2>2
    <3>2. /\ r.data = SubSeq(image0, m + 1, n) /\ n <= Len(image0) /\ Len(image0) \in Nat
          /\ Len(r.data) = n - m
      BY <1>1 DEF IsChunk
    <3>3. r.data[i - m] = image0[i]
      <4>1. \A k \in 1 .. n - m : SubSeq(image0, m + 1, n)[k] = image0[(m + 1) + k - 1]
        BY <1>1, <3>2
      <4>2. i - m \in 1 .. n - m /\ (m + 1) + (i - m) - 1 = i
        BY <1>1, <3>1, <3>2
      <4> HIDE DEF m, n, more
      <4> QED
        BY <3>2, <4>1, <4>2
    <3>4. i <= Len(image0)
      BY <1>1, <3>2
    <3> QED
      BY <3>1, <3>3, <3>4
  <2> QED
    BY <2>1, <2>2
<1>4. Begins(chunks \cup {r}, more)
  <2> SUFFICES ASSUME NEW image \in Images, \A q \in chunks \cup {r} : IsChunk(q, image)
               PROVE  n <= Len(image) /\ more = SubSeq(image, 1, n)
    BY <1>2 DEF Begins
  <2>1. image \in Seq(Byte)
    BY DeviceLinkAssumption, Zenon
  <2>2. bytes = SubSeq(image, 1, m)
    BY DEF Begins
  <2>3. n <= Len(image) /\ r.data = SubSeq(image, m + 1, n)
    BY DEF IsChunk
  <2>4. 1 \in 1 .. Len(image) + 1 /\ m \in 0 .. Len(image) /\ n \in m .. Len(image)
    BY <1>1, <2>1, <2>3
  <2> HIDE DEF m, n
  <2>5. SubSeq(image, 1, m) \o SubSeq(image, m + 1, n) = SubSeq(image, 1, n)
    BY <2>1, <2>4, ConcatAdjacentSubSeq, SMTT(20)
  <2> QED
    BY <2>2, <2>3, <2>5
<1> QED
  BY <1>2, <1>3, <1>4

\* UPDATE_FIRMWARE: a chunk is taken only where the last one ended, whatever
\* its total; the last one of an image completes it.
LEMMA UpdateSound ==
    ASSUME NEW f \in Fans, NEW r \in Requests, r.op = "update_firmware"
    PROVE  /\ AnswerUpdate(f, r).fan \in Fans
           /\ AnswerUpdate(f, r).answer \in
                {Error("firmware_rejected"),
                 [op |-> "firmware_chunk", received |-> r.offset + Len(r.data)]}
<1> DEFINE after == WithChunk(f, r)
           bytes == f.flashed \o r.data
           chunks == f.chunks \cup {r}
           done == [op |-> "firmware_chunk", received |-> after.received]
           empty == [f EXCEPT !.firmware = NoFirmware, !.flashed = <<>>, !.chunks = {}]
           taken == [f EXCEPT !.firmware = after, !.flashed = bytes, !.chunks = chunks]
           installed == [empty EXCEPT !.bootloader = FALSE, !.running = bytes,
                                      !.built = chunks]
<1>1. f \in Memories /\ Uploading(f) /\ Installed(f)
  BY DEF Fans
<1>2. PICK image0 \in Images : IsChunk(r, image0)
  BY DeviceLinkAssumption
<1>3. /\ r.offset \in Nat /\ r.data \in Seq(Byte) /\ r.total = Len(image0)
      /\ r.offset + Len(r.data) <= Len(image0)
      /\ image0 \in Seq(Byte) /\ Len(image0) \in Nat /\ Len(r.data) \in Nat
  <2>1. image0 \in Seq(Byte)
    BY DeviceLinkAssumption, Zenon
  <2> QED
    BY <1>2, <2>1 DEF IsChunk
<1>4. /\ after.received = f.firmware.received + Len(r.data) /\ after.total = r.total
      /\ after.crc \in Byte
      /\ after = [received |-> after.received, total |-> after.total, crc |-> after.crc]
  <2> DEFINE seed == IF f.firmware.total # r.total THEN 0 ELSE f.firmware.crc
  <2>1. seed \in Byte
    BY <1>1 DEF Memories, Byte
  <2>2. after = [received |-> f.firmware.received + Len(r.data), total |-> r.total,
                 crc |-> Crc8Update(seed, r.data)]
    BY DEF WithChunk
  <2> HIDE DEF seed, after
  <2>3. Crc8Update(seed, r.data) \in Byte
    BY <1>3, <2>1, Crc8UpdateType
  <2> QED
    BY <2>2, <2>3
<1>5. /\ empty \in Memories /\ empty.firmware = NoFirmware /\ empty.flashed = <<>>
      /\ empty.chunks = {} /\ empty.running = f.running /\ empty.built = f.built
  <2>1. NoFirmware \in [received : Nat, total : 0 .. MaxFirmware, crc : Byte]
    BY OpenFanAssumption DEF NoFirmware, Byte
  <2>2. <<>> \in Seq(Byte) /\ {} \in SUBSET Requests
    OBVIOUS
  <2> QED
    BY <1>1, <2>1, <2>2 DEF Memories
<1>6. NoFirmware.received = 0
  BY DEF NoFirmware
<1>7. empty \in Fans
  <2> HIDE DEF empty
  <2>1. Uploading(empty)
    BY <1>5, <1>6, NothingUploaded DEF Uploading
  <2>2. Installed(empty)
    BY <1>1, <1>5 DEF Installed
  <2> QED
    BY <1>5, <2>1, <2>2 DEF Fans
<1>8. ASSUME r.offset = f.firmware.received
      PROVE  /\ bytes \in Seq(Byte) /\ Len(bytes) = after.received
             /\ InPlace(bytes) /\ Begins(chunks, bytes)
             /\ after.received \in Nat /\ after.received <= r.total
             /\ after.received = r.offset + Len(r.data)
  <2>1. /\ f.flashed \in Seq(Byte) /\ r.offset = Len(f.flashed)
        /\ InPlace(f.flashed) /\ Begins(f.chunks, f.flashed)
    BY <1>1, <1>8 DEF Memories, Uploading
  <2>2. after.received = r.offset + Len(r.data)
    BY <1>4, <1>8
  <2> HIDE DEF after
  <2>3. /\ bytes \in Seq(Byte) /\ Len(bytes) = r.offset + Len(r.data)
        /\ InPlace(bytes) /\ Begins(chunks, bytes)
    BY <1>2, <2>1, ChunkFits
  <2> HIDE DEF bytes, chunks
  <2> QED
    BY <1>3, <2>2, <2>3
<1>9. chunks \in SUBSET Requests
  BY <1>1 DEF Memories
<1>10. CASE r.total > MaxFirmware \/ ~Expected(f, r.offset)
  <2>1. /\ AnswerUpdate(f, r).fan = f
        /\ AnswerUpdate(f, r).answer = Error("firmware_rejected")
    BY <1>10 DEF AnswerUpdate, Refuse, Reply
  <2> QED
    BY <2>1
<1>11. CASE ~(r.total > MaxFirmware) /\ Expected(f, r.offset) /\ after.received < after.total
  <2>1. AnswerUpdate(f, r).fan = taken /\ AnswerUpdate(f, r).answer = done
    BY <1>11 DEF AnswerUpdate, Reply
  <2>2. r.offset = f.firmware.received
    BY <1>11 DEF Expected
  <2>3. after.total \in 0 .. MaxFirmware
    BY <1>3, <1>4, <1>11, OpenFanAssumption
  <2> HIDE DEF after
  <2>4. after \in [received : Nat, total : 0 .. MaxFirmware, crc : Byte]
    BY <1>4, <1>8, <2>2, <2>3
  <2>5. /\ bytes \in Seq(Byte) /\ Len(bytes) = after.received
        /\ InPlace(bytes) /\ Begins(chunks, bytes)
    BY <1>8, <2>2
  <2> HIDE DEF bytes, chunks
  <2>6. taken \in Memories /\ taken.firmware = after /\ taken.flashed = bytes
        /\ taken.chunks = chunks /\ taken.running = f.running /\ taken.built = f.built
    BY <1>1, <1>9, <2>4, <2>5 DEF Memories
  <2>7. taken \in Fans
    <3> HIDE DEF taken
    <3> QED BY <1>1, <2>5, <2>6 DEF Fans, Uploading, Installed
  <2>8. done = [op |-> "firmware_chunk", received |-> r.offset + Len(r.data)]
    BY <1>8, <2>2
  <2> QED
    BY <2>1, <2>7, <2>8
<1>12. CASE /\ ~(r.total > MaxFirmware) /\ Expected(f, r.offset)
            /\ ~(after.received < after.total) /\ after.crc # r.crc
  <2>1. /\ AnswerUpdate(f, r).fan = empty
        /\ AnswerUpdate(f, r).answer = Error("firmware_rejected")
    BY <1>12 DEF AnswerUpdate, Refuse, Reply
  <2> QED
    BY <1>7, <2>1
<1>13. CASE /\ ~(r.total > MaxFirmware) /\ Expected(f, r.offset)
            /\ ~(after.received < after.total) /\ ~(after.crc # r.crc)
  <2>1. AnswerUpdate(f, r).fan = installed /\ AnswerUpdate(f, r).answer = done
    BY <1>13 DEF AnswerUpdate, Reply
  <2>2. r.offset = f.firmware.received
    BY <1>13 DEF Expected
  <2>3. after.received = Len(image0)
    <3> HIDE DEF after
    <3> QED BY <1>3, <1>4, <1>8, <1>13, <2>2
  <2> HIDE DEF after
  <2>4. /\ bytes \in Seq(Byte) /\ Len(bytes) = Len(image0)
        /\ InPlace(bytes) /\ Begins(chunks, bytes)
    BY <1>8, <2>2, <2>3
  <2>5. r \in chunks
    OBVIOUS
  <2> HIDE DEF bytes, chunks, empty
  <2>6. /\ installed \in Memories
        /\ installed.firmware = NoFirmware /\ installed.flashed = <<>>
        /\ installed.chunks = {} /\ installed.running = bytes /\ installed.built = chunks
    BY <1>5, <1>9, <2>4 DEF Memories
  <2> HIDE DEF installed
  <2>7. Uploading(installed)
    BY <1>6, <2>6, NothingUploaded DEF Uploading
  <2>8. ASSUME NEW image \in Images, \A q \in chunks : IsChunk(q, image)
        PROVE  bytes = image
    <3>1. Len(bytes) = Len(image)
      BY <1>2, <2>4, <2>5, <2>8 DEF IsChunk
    <3>2. bytes = SubSeq(image, 1, Len(bytes))
      BY <2>4, <2>8 DEF Begins
    <3>3. image \in Seq(Byte)
      BY DeviceLinkAssumption, Zenon
    <3>4. SubSeq(image, 1, Len(image)) = image
      BY <3>3
    <3> QED
      BY <3>1, <3>2, <3>4
  <2>9. Installed(installed)
    BY <2>4, <2>6, <2>8 DEF Installed
  <2>10. done = [op |-> "firmware_chunk", received |-> r.offset + Len(r.data)]
    BY <1>8, <2>2
  <2> QED
    BY <2>1, <2>6, <2>7, <2>9, <2>10 DEF Fans
<1> QED
  BY <1>10, <1>11, <1>12, <1>13

\* Whatever the request, the device stays sound, and says what it may say.
LEMMA AnsweredSound ==
    ASSUME NEW f0 \in Fans, NEW r \in Requests
    PROVE  /\ Answered(f0, r).fan \in Fans
           /\ Answered(f0, r).answer \in MayAnswer(r)
<1> DEFINE f == HostSpoke(f0)
           reply == Handled(f, r)
<1>1. f \in Fans
  BY HostSpokeSound
<1>2. r.op \in Operations
  BY DeviceLinkAssumption
<1> HIDE DEF f
<1>3. reply.fan \in Fans /\ reply.answer \in MayAnswer(r)
  <2>1. CASE r.op = "get_device_info"
    <3>1. reply = Reply(f, [op |-> "device_info", compatible |-> Compatible])
      BY <2>1 DEF Handled
    <3>2. MayAnswer(r) = {Error("bootloader_mode")}
                            \cup {[op |-> "device_info", compatible |-> Compatible]}
      BY <2>1 DEF MayAnswer
    <3> QED
      BY <1>1, <3>1, <3>2 DEF Reply
  <2>2. CASE r.op = "get_state"
    <3>1. reply = Reply(f, [op |-> "state", duty |-> f.duty])
      BY <2>2 DEF Handled
    <3>2. MayAnswer(r) = {Error("bootloader_mode")}
                            \cup {[op |-> "state", duty |-> duty] : duty \in Duties}
      BY <2>2 DEF MayAnswer
    <3>3. f.duty \in Duties
      BY <1>1 DEF Fans, Memories
    <3> QED
      BY <1>1, <3>1, <3>2, <3>3 DEF Reply
  <2>3. CASE r.op = "set_state"
    <3>1. reply = AnswerSet(f, r)
      BY <2>3 DEF Handled
    <3>2. MayAnswer(r) = {Error("bootloader_mode")} \cup {AnswerSet(NewFan, r).answer}
      BY <2>3 DEF MayAnswer
    <3> QED
      BY <1>1, <2>3, <3>1, <3>2, SetSound
  <2>4. CASE r.op = "enter_bootloader"
    <3>1. reply = AnswerBootloader(f, r)
      BY <2>4 DEF Handled
    <3>2. MayAnswer(r) = {Error("bootloader_mode")} \cup {AnswerBootloader(NewFan, r).answer}
      BY <2>4 DEF MayAnswer
    <3> QED
      BY <1>1, <2>4, <3>1, <3>2, BootloaderSound
  <2>5. CASE r.op = "update_firmware"
    <3>1. reply = AnswerUpdate(f, r)
      BY <2>5 DEF Handled
    <3>2. MayAnswer(r) = {Error("bootloader_mode")} \cup
            {Error("firmware_rejected"),
             [op |-> "firmware_chunk", received |-> r.offset + Len(r.data)]}
      BY <2>5 DEF MayAnswer
    <3> QED
      BY <1>1, <2>5, <3>1, <3>2, UpdateSound
  <2>6. CASE r.op = "ping"
    <3>1. reply = Reply(f, [op |-> "pong"])
      BY <2>6 DEF Handled
    <3>2. MayAnswer(r) = {Error("bootloader_mode")} \cup {[op |-> "pong"]}
      BY <2>6 DEF MayAnswer
    <3> QED
      BY <1>1, <3>1, <3>2 DEF Reply
  <2> QED
    BY <1>2, <2>1, <2>2, <2>3, <2>4, <2>5, <2>6 DEF Operations
<1>4. /\ Refuse(f, "bootloader_mode").fan = f
      /\ Refuse(f, "bootloader_mode").answer \in MayAnswer(r)
  BY DEF Refuse, Reply, MayAnswer
<1>5. \/ Answered(f0, r) = Refuse(f, "bootloader_mode")
      \/ Answered(f0, r) = reply
  BY DEF Answered, f
<1> HIDE DEF reply
<1> QED
  BY <1>1, <1>3, <1>4, <1>5

-----------------------------------------------------------------------------
(* Streams of frames *)

\* Documents are one byte long, so that each frame takes six bytes of a stream.
Docs == {<<b>> : b \in Byte}

StreamOf(docs) == [i \in 1 .. 6 * Len(docs) |-> Encode(docs[(i - 1) \div 6 + 1])[((i - 1) % 6) + 1]]

\* The i-th byte of frames of six bytes is in frame (i - 1) \div 6 + 1.
LEMMA SixBytes ==
    ASSUME NEW i \in Nat \ {0}, NEW n \in Nat
    PROVE  /\ i <= 6 * n => (i - 1) \div 6 + 1 \in 1 .. n
           /\ ((i - 1) % 6) + 1 \in 1 .. 6
           /\ i > 6 * n => /\ (i - 6 * n - 1) \div 6 + 1 = (i - 1) \div 6 + 1 - n
                           /\ (i - 6 * n - 1) % 6 = (i - 1) % 6
                           /\ (i - 1) \div 6 + 1 > n
  OBVIOUS

\* A document is a string of one byte.
LEMMA DocsAreStrings == Docs \subseteq Seq(Byte)
  BY DEF Docs

\* The frame of a document has six bytes.
LEMMA EncodedDoc ==
    ASSUME NEW doc \in Docs
    PROVE  Encode(doc) \in Seq(Byte) /\ Len(Encode(doc)) = 6
<1> DEFINE nothing == <<>>
           whole == Encode(doc) \o nothing
<1>1. doc \in Seq(Byte) /\ Len(doc) = 1
  <2>1. PICK byte \in Byte : doc = <<byte>>
    BY DEF Docs
  <2> QED
    BY <2>1
<1>2. Len(doc) <= MaxPayload
  BY <1>1, LargestFrame
<1>3. nothing \in Seq(Byte)
  OBVIOUS
<1> HIDE DEF nothing
<1>4. FrameAhead(whole, doc, nothing)
  BY <1>1, <1>2, <1>3, FrameBytes, Zenon
<1> HIDE DEF whole
<1> QED
  BY <1>1, <1>4 DEF FrameAhead

\* The frames of some documents, one behind the other.
LEMMA StreamType ==
    ASSUME NEW docs \in Seq(Docs)
    PROVE  StreamOf(docs) \in Seq(Byte) /\ Len(StreamOf(docs)) = 6 * Len(docs)
<1>1. ASSUME NEW i \in 1 .. 6 * Len(docs)
      PROVE  Encode(docs[(i - 1) \div 6 + 1])[((i - 1) % 6) + 1] \in Byte
  <2>1. (i - 1) \div 6 + 1 \in 1 .. Len(docs) /\ ((i - 1) % 6) + 1 \in 1 .. 6
    BY SixBytes
  <2> DEFINE doc == docs[(i - 1) \div 6 + 1]
             j == ((i - 1) % 6) + 1
  <2>2. doc \in Docs /\ j \in 1 .. 6
    BY <2>1
  <2> HIDE DEF doc, j
  <2>3. Encode(doc)[j] \in Byte
    BY <2>2, EncodedDoc
  <2> QED
    BY <2>3 DEF doc, j
<1>2. StreamOf(docs) \in [1 .. 6 * Len(docs) -> Byte]
  BY <1>1 DEF StreamOf
<1>3. 6 * Len(docs) \in Nat
  OBVIOUS
<1> HIDE DEF StreamOf
<1> QED
  BY <1>2, <1>3

\* The frames of two lists of documents are those of the first, then the others.
LEMMA StreamConcat ==
    ASSUME NEW d1 \in Seq(Docs), NEW d2 \in Seq(Docs)
    PROVE  StreamOf(d1 \o d2) = StreamOf(d1) \o StreamOf(d2)
<1> DEFINE left == StreamOf(d1 \o d2)
           right == StreamOf(d1) \o StreamOf(d2)
           m == Len(d1)
           n == Len(d2)
<1>1. /\ d1 \o d2 \in Seq(Docs) /\ Len(d1 \o d2) = m + n
      /\ \A i \in 1 .. m + n : (d1 \o d2)[i] = IF i <= m THEN d1[i] ELSE d2[i - m]
      /\ m \in Nat /\ n \in Nat
  BY ConcatProperties
<1>2. left \in Seq(Byte) /\ Len(left) = 6 * (m + n)
  BY <1>1, StreamType
<1>3. /\ StreamOf(d1) \in Seq(Byte) /\ Len(StreamOf(d1)) = 6 * m
      /\ StreamOf(d2) \in Seq(Byte) /\ Len(StreamOf(d2)) = 6 * n
  BY StreamType
<1>4. /\ right \in Seq(Byte) /\ Len(right) = 6 * m + 6 * n
      /\ \A i \in 1 .. 6 * m + 6 * n :
            right[i] = IF i <= 6 * m THEN StreamOf(d1)[i] ELSE StreamOf(d2)[i - 6 * m]
  <2> DEFINE s1 == StreamOf(d1)
             s2 == StreamOf(d2)
  <2>1. s1 \in Seq(Byte) /\ s2 \in Seq(Byte)
    BY <1>3
  <2> HIDE DEF s1, s2
  <2>2. /\ s1 \o s2 \in Seq(Byte)
        /\ Len(s1 \o s2) = Len(s1) + Len(s2)
        /\ \A i \in 1 .. Len(s1) + Len(s2) : (s1 \o s2)[i] =
              IF i <= Len(s1) THEN s1[i] ELSE s2[i - Len(s1)]
    BY <2>1, ConcatProperties, Zenon
  <2> QED
    BY <1>3, <2>2 DEF s1, s2
<1>5. ASSUME NEW i \in 1 .. 6 * (m + n) PROVE left[i] = right[i]
  <2> DEFINE k == (i - 1) \div 6 + 1
             j == ((i - 1) % 6) + 1
  <2>0. i \in Nat \ {0}
    BY <1>1
  <2>1. left[i] = Encode((d1 \o d2)[k])[j]
    BY <1>1 DEF StreamOf
  <2>2. CASE i <= 6 * m
    <3>1. k \in 1 .. m
      BY <1>1, <2>0, <2>2, SixBytes
    <3>2. right[i] = StreamOf(d1)[i]
      BY <1>1, <1>4, <2>2
    <3>3. StreamOf(d1)[i] = Encode(d1[k])[j]
      BY <1>1, <2>0, <2>2 DEF StreamOf
    <3>4. (d1 \o d2)[k] = d1[k]
      <4> HIDE DEF k, m, n
      <4> QED BY <1>1, <3>1
    <3> QED
      BY <2>1, <3>2, <3>3, <3>4
  <2>3. CASE i > 6 * m
    <3> DEFINE i2 == i - 6 * m
    <3>1. /\ (i2 - 1) \div 6 + 1 = k - m /\ ((i2 - 1) % 6) + 1 = j /\ k > m
          /\ k \in 1 .. m + n
      BY <1>1, <2>0, <2>3, SixBytes
    <3>2. i2 \in 1 .. 6 * n
      BY <1>1, <2>0, <2>3
    <3>3. right[i] = StreamOf(d2)[i2]
      BY <1>1, <1>4, <2>3
    <3>4. StreamOf(d2)[i2] = Encode(d2[k - m])[j]
      <4>1. StreamOf(d2)[i2] = Encode(d2[(i2 - 1) \div 6 + 1])[((i2 - 1) % 6) + 1]
        BY <3>2 DEF StreamOf
      <4> QED
        BY <3>1, <4>1
    <3>5. (d1 \o d2)[k] = d2[k - m]
      <4> HIDE DEF k, m, n
      <4> QED BY <1>1, <3>1
    <3> QED
      BY <2>1, <3>3, <3>4, <3>5
  <2>4. i <= 6 * m \/ i > 6 * m
    BY <1>1, <2>0
  <2> HIDE DEF left, right
  <2> QED
    BY <2>2, <2>3, <2>4
<1>6. 6 * (m + n) = 6 * m + 6 * n
  BY <1>1
<1> HIDE DEF left, right, m, n
<1>7. left = right
  BY <1>2, <1>4, <1>5, <1>6, SeqEqual
<1> QED
  BY <1>7 DEF left, right

\* The stream of one document is its frame.
LEMMA StreamOfOne ==
    ASSUME NEW doc \in Docs
    PROVE  /\ StreamOf(<<doc>>) = Encode(doc)
           /\ StreamOf(<<>>) = <<>>
<1>1. Encode(doc) \in Seq(Byte) /\ Len(Encode(doc)) = 6
  BY EncodedDoc
<1>2. StreamOf(<<doc>>) \in Seq(Byte) /\ Len(StreamOf(<<doc>>)) = 6
  <2> DEFINE one == <<doc>>
  <2>1. one \in Seq(Docs) /\ Len(one) = 1
    OBVIOUS
  <2> HIDE DEF one
  <2>2. StreamOf(one) \in Seq(Byte) /\ Len(StreamOf(one)) = 6 * Len(one)
    BY <2>1, StreamType
  <2> QED
    BY <2>1, <2>2 DEF one
<1>3. ASSUME NEW i \in 1 .. 6 PROVE StreamOf(<<doc>>)[i] = Encode(doc)[i]
  <2>1. (i - 1) \div 6 + 1 = 1 /\ ((i - 1) % 6) + 1 = i
    OBVIOUS
  <2>2. StreamOf(<<doc>>)[i] = Encode(<<doc>>[(i - 1) \div 6 + 1])[((i - 1) % 6) + 1]
    BY DEF StreamOf
  <2> QED
    BY <2>1, <2>2
<1>4. StreamOf(<<doc>>) = Encode(doc)
  BY <1>1, <1>2, <1>3
<1>5. StreamOf(<<>>) \in Seq(Byte) /\ Len(StreamOf(<<>>)) = 0
  <2> DEFINE none == <<>>
  <2>1. none \in Seq(Docs) /\ Len(none) = 0
    OBVIOUS
  <2> HIDE DEF none
  <2>2. StreamOf(none) \in Seq(Byte) /\ Len(StreamOf(none)) = 6 * Len(none)
    BY <2>1, StreamType
  <2> QED
    BY <2>1, <2>2 DEF none
<1>6. StreamOf(<<>>) = <<>>
  BY <1>5
<1> QED
  BY <1>4, <1>6

-----------------------------------------------------------------------------
(* What documents tell *)

AnswerDocs == {Document(a) : a \in Answers}
SetAnswers == {a \in Answers : a.op = "state_set"}
Announces(doc, duty) ==
    \E a \in SetAnswers : "applied" \in DOMAIN a /\ a.applied = duty /\ doc = Document(a)

\* The duties are the ones the documents announce, all of them and in order.
Places(at, documents, duties) ==
    /\ at \in [1 .. Len(duties) -> 1 .. Len(documents)]
    /\ \A j, k \in 1 .. Len(duties) : j < k => at[j] < at[k]
    /\ \A k \in 1 .. Len(duties) : Announces(documents[at[k]], duties[k])
    /\ \A i \in 1 .. Len(documents) : \A a \in SetAnswers :
          documents[i] = Document(a) => \E k \in 1 .. Len(duties) : at[k] = i

Tells(documents, duties) == \E at : Places(at, documents, duties)

\* Every answer has a document...
LEMMA DocumentIsDoc ==
    ASSUME NEW a \in Answers
    PROVE  Document(a) \in Docs /\ Document(a) \in AnswerDocs
  BY DeviceLinkAssumption DEF Document, Docs, AnswerDocs

\* ... and the documents of answers are documents.
LEMMA AnswerDocsAreDocs == AnswerDocs \subseteq Docs
  BY DocumentIsDoc DEF AnswerDocs

\* No two answers have one document.
LEMMA DocumentsDiffer ==
    ASSUME NEW a \in Answers, NEW b \in Answers, Document(a) = Document(b)
    PROVE  a = b
<1>1. AnswerCode[a] = AnswerCode[b]
  BY DEF Document
<1>2. DOMAIN AnswerCode = Answers /\ IsInjective(AnswerCode)
  BY DeviceLinkAssumption
<1> QED
  BY <1>1, <1>2 DEF IsInjective

\* Nothing said, nothing announced.
LEMMA TellsNothing == Tells(<<>>, <<>>)
<1> DEFINE at == [k \in 1 .. 0 |-> 0]
<1>1. Places(at, <<>>, <<>>)
  BY DEF Places
<1> HIDE DEF at
<1> QED
  BY <1>1 DEF Tells

\* One answer announces one duty, if it says that it has set one.
LEMMA TellsOne ==
    ASSUME NEW a \in Answers
    PROVE  /\ a.op # "state_set" => Tells(<<Document(a)>>, <<>>)
           /\ a.op = "state_set" /\ "applied" \in DOMAIN a
                => Tells(<<Document(a)>>, <<a.applied>>)
<1>1. ASSUME a.op # "state_set" PROVE Tells(<<Document(a)>>, <<>>)
  <2> DEFINE at == [k \in 1 .. 0 |-> 0]
  <2>1. \A b \in SetAnswers : Document(a) # Document(b)
    BY <1>1, DocumentsDiffer DEF SetAnswers
  <2>2. Places(at, <<Document(a)>>, <<>>)
    BY <2>1 DEF Places
  <2> HIDE DEF at
  <2> QED
    BY <2>2 DEF Tells
<1>2. ASSUME a.op = "state_set", "applied" \in DOMAIN a
      PROVE  Tells(<<Document(a)>>, <<a.applied>>)
  <2> DEFINE at == [k \in 1 .. 1 |-> 1]
  <2>1. Announces(Document(a), a.applied)
    BY <1>2 DEF Announces, SetAnswers
  <2>2. Places(at, <<Document(a)>>, <<a.applied>>)
    BY <2>1 DEF Places
  <2> HIDE DEF at
  <2> QED
    BY <2>2 DEF Tells
<1> QED
  BY <1>1, <1>2

\* What two lists of documents announce, one behind the other.
LEMMA TellsConcat ==
    ASSUME NEW D, NEW U,
           NEW d1 \in Seq(D), NEW d2 \in Seq(D), NEW u1 \in Seq(U), NEW u2 \in Seq(U),
           Tells(d1, u1), Tells(d2, u2)
    PROVE  Tells(d1 \o d2, u1 \o u2)
<1> DEFINE d == d1 \o d2
           u == u1 \o u2
           m == Len(d1)
           n == Len(d2)
           p == Len(u1)
           q == Len(u2)
<1>1. /\ d \in Seq(D) /\ Len(d) = m + n
      /\ \A i \in 1 .. m + n : d[i] = IF i <= m THEN d1[i] ELSE d2[i - m]
      /\ m \in Nat /\ n \in Nat
  BY ConcatProperties
<1>2. /\ u \in Seq(U) /\ Len(u) = p + q
      /\ \A i \in 1 .. p + q : u[i] = IF i <= p THEN u1[i] ELSE u2[i - p]
      /\ p \in Nat /\ q \in Nat
  BY ConcatProperties
<1>3. PICK at1 : Places(at1, d1, u1)
  BY DEF Tells
<1>4. PICK at2 : Places(at2, d2, u2)
  BY DEF Tells
<1>5. /\ at1 \in [1 .. p -> 1 .. m]
      /\ \A j, k \in 1 .. p : j < k => at1[j] < at1[k]
      /\ \A k \in 1 .. p : Announces(d1[at1[k]], u1[k])
      /\ \A i \in 1 .. m : \A a \in SetAnswers :
            d1[i] = Document(a) => \E k \in 1 .. p : at1[k] = i
  BY <1>3 DEF Places
<1>6. /\ at2 \in [1 .. q -> 1 .. n]
      /\ \A j, k \in 1 .. q : j < k => at2[j] < at2[k]
      /\ \A k \in 1 .. q : Announces(d2[at2[k]], u2[k])
      /\ \A i \in 1 .. n : \A a \in SetAnswers :
            d2[i] = Document(a) => \E k \in 1 .. q : at2[k] = i
  BY <1>4 DEF Places
<1> DEFINE at == [k \in 1 .. p + q |-> IF k <= p THEN at1[k] ELSE at2[k - p] + m]
<1> HIDE DEF d, u, m, n, p, q
<1>7. ASSUME NEW k \in 1 .. p PROVE k \in 1 .. p + q /\ at[k] = at1[k] /\ at1[k] \in 1 .. m
  BY <1>1, <1>2, <1>5
<1>8. ASSUME NEW k \in 1 .. q
      PROVE  k + p \in 1 .. p + q /\ at[k + p] = at2[k] + m /\ at2[k] \in 1 .. n
  <2>1. k + p \in 1 .. p + q /\ ~(k + p <= p) /\ (k + p) - p = k
    BY <1>2
  <2> QED
    BY <1>6, <2>1
<1>9. ASSUME NEW k \in 1 .. p + q
      PROVE  k \in 1 .. p \/ \E l \in 1 .. q : k = l + p
  <2>1. CASE k <= p
    BY <1>2, <2>1
  <2>2. CASE k > p
    <3>1. k - p \in 1 .. q /\ k = (k - p) + p
      BY <1>2, <2>2
    <3> QED
      BY <3>1
  <2> QED
    BY <1>2, <2>1, <2>2
<1>10. at \in [1 .. p + q -> 1 .. m + n]
  <2>1. ASSUME NEW k \in 1 .. p + q PROVE at[k] \in 1 .. m + n
    <3> HIDE DEF at
    <3>1. CASE k \in 1 .. p
      BY <1>1, <1>7, <3>1
    <3>2. CASE \E l \in 1 .. q : k = l + p
      <4>1. PICK l \in 1 .. q : k = l + p
        BY <3>2
      <4>2. at[k] = at2[l] + m /\ at2[l] \in 1 .. n
        BY <1>8, <4>1
      <4> QED
        BY <1>1, <4>2
    <3> QED
      BY <1>9, <3>1, <3>2
  <2>2. at = [k \in 1 .. p + q |-> at[k]]
    OBVIOUS
  <2> HIDE DEF at
  <2> QED
    BY <2>1, <2>2
<1> HIDE DEF at
<1>11. ASSUME NEW j \in 1 .. p + q, NEW k \in 1 .. p + q, j < k PROVE at[j] < at[k]
  <2>1. CASE k \in 1 .. p
    <3>1. j \in 1 .. p
      BY <1>2, <1>11, <2>1
    <3> QED
      BY <1>5, <1>7, <1>11, <2>1, <3>1
  <2>2. CASE \E l \in 1 .. q : k = l + p
    <3>1. PICK l \in 1 .. q : k = l + p
      BY <2>2
    <3>2. at[k] = at2[l] + m /\ at2[l] \in 1 .. n
      BY <1>8, <3>1
    <3>3. CASE j \in 1 .. p
      <4>1. at[j] \in 1 .. m
        BY <1>7, <3>3
      <4> QED
        BY <1>1, <3>2, <4>1
    <3>4. CASE \E i \in 1 .. q : j = i + p
      <4>1. PICK i \in 1 .. q : j = i + p
        BY <3>4
      <4>2. at[j] = at2[i] + m /\ at2[i] \in 1 .. n
        BY <1>8, <4>1
      <4>3. i < l
        BY <1>2, <1>11, <3>1, <4>1
      <4>4. at2[i] < at2[l]
        BY <1>6, <4>3
      <4> QED
        BY <1>1, <3>2, <4>2, <4>4, SMTT(20)
    <3> QED
      BY <1>9, <3>3, <3>4
  <2> QED
    BY <1>9, <2>1, <2>2
<1>12. ASSUME NEW k \in 1 .. p + q PROVE Announces(d[at[k]], u[k])
  <2>1. CASE k \in 1 .. p
    <3>1. at[k] = at1[k] /\ at1[k] \in 1 .. m
      BY <1>7, <2>1
    <3>2. d[at[k]] = d1[at1[k]]
      BY <1>1, <3>1
    <3>3. u[k] = u1[k]
      BY <1>2, <2>1
    <3> QED
      BY <1>5, <2>1, <3>2, <3>3
  <2>2. CASE \E l \in 1 .. q : k = l + p
    <3>1. PICK l \in 1 .. q : k = l + p
      BY <2>2
    <3>2. at[k] = at2[l] + m /\ at2[l] \in 1 .. n
      BY <1>8, <3>1
    <3>3. d[at[k]] = d2[at2[l]]
      <4>1. /\ at2[l] + m \in 1 .. m + n /\ ~(at2[l] + m <= m)
            /\ (at2[l] + m) - m = at2[l]
        BY <1>1, <3>2
      <4> QED
        BY <1>1, <3>2, <4>1
    <3>4. u[k] = u2[l]
      <4>1. ~(k <= p) /\ k - p = l
        BY <1>2, <3>1
      <4> QED
        BY <1>2, <4>1
    <3> QED
      BY <1>6, <3>3, <3>4
  <2> QED
    BY <1>9, <2>1, <2>2
<1>13. ASSUME NEW i \in 1 .. m + n, NEW a \in SetAnswers, d[i] = Document(a)
       PROVE  \E k \in 1 .. p + q : at[k] = i
  <2>1. CASE i <= m
    <3>1. i \in 1 .. m /\ d1[i] = Document(a)
      BY <1>1, <1>13, <2>1
    <3>2. PICK k \in 1 .. p : at1[k] = i
      BY <1>5, <3>1
    <3> QED
      BY <1>7, <3>2
  <2>2. CASE ~(i <= m)
    <3>1. i - m \in 1 .. n /\ d2[i - m] = Document(a)
      BY <1>1, <1>13, <2>2
    <3>2. PICK k \in 1 .. q : at2[k] = i - m
      BY <1>6, <3>1
    <3>3. at[k + p] = i /\ k + p \in 1 .. p + q
      BY <1>1, <1>8, <3>2
    <3> QED
      BY <3>3
  <2> QED
    BY <2>1, <2>2
<1>14. Places(at, d, u)
  BY <1>1, <1>2, <1>10, <1>11, <1>12, <1>13 DEF Places
<1> QED
  BY <1>14 DEF Tells, d, u

-----------------------------------------------------------------------------
(* The loop of the device's end *)

\* What the loop has made so far of the payloads of a read.
Services ==
    {s \in [fan : Fans, documents : Seq(AnswerDocs), frames : Seq(Byte), duties : Seq(0 .. 100)] :
        s.frames = StreamOf(s.documents) /\ Tells(s.documents, s.duties)}

\* The duty a device says it has set is one.
LEMMA SetAnswersAreDuties ==
    ASSUME NEW r \in Requests, NEW a \in MayAnswer(r), a.op = "state_set"
    PROVE  "applied" \in DOMAIN a /\ a.applied \in 0 .. 100
<1>1. r.op \in Operations
  BY DeviceLinkAssumption
<1>2. \A code : Error(code).op = "error"
  BY DEF Error
<1>3. CASE r.op = "set_state"
  <2>1. a = AnswerSet(NewFan, r).answer
    BY <1>2, <1>3 DEF MayAnswer
  <2>2. r.value \in 0 .. 100 /\ a = [op |-> "state_set", applied |-> r.value]
    BY <1>2, <2>1 DEF AnswerSet, Refuse, Reply
  <2> QED
    BY <2>2
<1>4. CASE r.op = "get_device_info"
  BY <1>2, <1>4 DEF MayAnswer
<1>5. CASE r.op = "get_state"
  BY <1>2, <1>5 DEF MayAnswer
<1>6. CASE r.op = "enter_bootloader"
  BY <1>2, <1>6 DEF MayAnswer, AnswerBootloader, Reply
<1>7. CASE r.op = "update_firmware"
  BY <1>2, <1>7 DEF MayAnswer
<1>8. CASE r.op = "ping"
  BY <1>2, <1>8 DEF MayAnswer
<1> QED
  BY <1>1, <1>3, <1>4, <1>5, <1>6, <1>7, <1>8 DEF Operations

\* What the device says to a payload, a request or not, is an answer that has a
\* document, and a duty if it says that it has set one.
LEMMA ReplySound ==
    ASSUME NEW f \in Fans, NEW payload,
           NEW reply, reply = IF IsRequest(payload) THEN Answered(f, RequestOf(payload))
                              ELSE Refuse(f, "framing")
    PROVE  /\ reply.fan \in Fans /\ reply.answer \in Answers
           /\ reply.answer.op = "state_set"
                => "applied" \in DOMAIN reply.answer /\ reply.answer.applied \in 0 .. 100
<1>1. CASE IsRequest(payload)
  <2> DEFINE r == RequestOf(payload)
  <2>1. r \in Requests
    BY <1>1 DEF IsRequest, RequestOf
  <2>2. reply = Answered(f, r)
    BY <1>1
  <2> HIDE DEF r
  <2>3. reply.fan \in Fans /\ reply.answer \in MayAnswer(r)
    BY <2>1, <2>2, AnsweredSound
  <2>4. reply.answer \in Answers
    BY <2>1, <2>3, DeviceLinkAssumption
  <2> QED
    BY <2>1, <2>3, <2>4, SetAnswersAreDuties
<1>2. CASE ~IsRequest(payload)
  <2>1. reply.fan = f /\ reply.answer = Error("framing")
    BY <1>2 DEF Refuse, Reply
  <2>2. Error("framing").op = "error"
    BY DEF Error
  <2> QED
    BY <2>1, <2>2, DeviceLinkAssumption
<1> QED
  BY <1>1, <1>2

\* One payload served: the device stays sound, what goes on the wire is the frame
\* of what it said, and the duties it announces are the ones it applied.
LEMMA ServedSound ==
    ASSUME NEW s \in Services, NEW payload
    PROVE  Served(s, payload) \in Services
<1> DEFINE reply == IF IsRequest(payload) THEN Answered(s.fan, RequestOf(payload))
                    ELSE Refuse(s.fan, "framing")
           doc == Document(reply.answer)
           next == Served(s, payload)
           told == IF reply.answer.op = "state_set" THEN <<reply.answer.applied>> ELSE <<>>
<1>1. /\ s.fan \in Fans /\ s.documents \in Seq(AnswerDocs) /\ s.frames \in Seq(Byte)
      /\ s.duties \in Seq(0 .. 100)
      /\ s.frames = StreamOf(s.documents) /\ Tells(s.documents, s.duties)
  BY DEF Services
<1>2. next = [fan |-> reply.fan,
              documents |-> Append(s.documents, doc),
              frames |-> s.frames \o Encode(doc),
              duties |-> IF reply.answer.op = "state_set"
                         THEN Append(s.duties, reply.answer.applied) ELSE s.duties]
  BY DEF Served
<1>3. /\ reply.fan \in Fans /\ reply.answer \in Answers
      /\ reply.answer.op = "state_set"
            => "applied" \in DOMAIN reply.answer /\ reply.answer.applied \in 0 .. 100
  <2> HIDE DEF reply
  <2>1. reply = IF IsRequest(payload) THEN Answered(s.fan, RequestOf(payload))
                ELSE Refuse(s.fan, "framing")
    BY DEF reply
  <2> QED
    BY <1>1, <2>1, ReplySound
<1> HIDE DEF reply, next
<1>4. doc \in Docs /\ doc \in AnswerDocs
  BY <1>3, DocumentIsDoc
<1>5. told \in Seq(0 .. 100) /\ Tells(<<doc>>, told)
  <2> DEFINE a == reply.answer
  <2>1. a \in Answers /\ doc = Document(a)
    BY <1>3
  <2>2. CASE a.op = "state_set"
    <3>1. told = <<a.applied>> /\ "applied" \in DOMAIN a /\ a.applied \in 0 .. 100
      BY <1>3, <2>2
    <3> HIDE DEF told, doc, a
    <3>2. Tells(<<Document(a)>>, <<a.applied>>)
      BY <2>1, <2>2, <3>1, TellsOne
    <3> QED
      BY <2>1, <3>1, <3>2
  <2>3. CASE a.op # "state_set"
    <3>1. told = <<>>
      BY <2>3
    <3> HIDE DEF told, doc, a
    <3>2. Tells(<<Document(a)>>, <<>>)
      BY <2>1, <2>3, TellsOne
    <3> QED
      BY <2>1, <3>1, <3>2
  <2> QED
    BY <2>2, <2>3
<1> HIDE DEF doc
<1> DEFINE one == <<doc>>
<1>6. one \in Seq(AnswerDocs) /\ one \in Seq(Docs) /\ Append(s.documents, doc) = s.documents \o one
  BY <1>1, <1>4, AppendIsConcat
<1>7. (IF reply.answer.op = "state_set" THEN Append(s.duties, reply.answer.applied) ELSE s.duties)
        = s.duties \o told
  <2>1. CASE reply.answer.op = "state_set"
    BY <1>1, <1>3, <2>1, AppendIsConcat
  <2>2. CASE reply.answer.op # "state_set"
    BY <1>1, <2>2, ConcatEmptySeq
  <2> QED
    BY <2>1, <2>2
<1>8. StreamOf(one) = Encode(doc) /\ Encode(doc) \in Seq(Byte)
  BY <1>4, StreamOfOne, EncodedDoc
<1> HIDE DEF told, one
<1>9. s.documents \in Seq(Docs)
  BY <1>1, AnswerDocsAreDocs, SeqMonotonic
<1>10. StreamOf(s.documents \o one) = s.frames \o Encode(doc)
  BY <1>1, <1>6, <1>8, <1>9, StreamConcat
<1>11. Tells(s.documents \o one, s.duties \o told)
  <2>1. Tells(one, told)
    BY <1>5 DEF one
  <2> QED
    BY <1>1, <1>5, <1>6, <2>1, TellsConcat
<1>12. /\ s.documents \o one \in Seq(AnswerDocs) /\ s.duties \o told \in Seq(0 .. 100)
       /\ s.frames \o Encode(doc) \in Seq(Byte)
  BY <1>1, <1>5, <1>6, <1>8
<1>13. next = [fan |-> reply.fan, documents |-> s.documents \o one,
               frames |-> s.frames \o Encode(doc), duties |-> s.duties \o told]
  BY <1>2, <1>6, <1>7
<1>14. next \in Services
  BY <1>3, <1>10, <1>11, <1>12, <1>13 DEF Services
<1> QED
  BY <1>14 DEF next

\* All the payloads of one read served.
LEMMA ServedAllSound ==
    ASSUME fan \in Fans, NEW payloads, Len(payloads) \in Nat
    PROVE  ServedAll(payloads) \in Services
<1> DEFINE n == Len(payloads)
           start == [fan |-> fan, documents |-> <<>>, frames |-> <<>>, duties |-> <<>>]
           IsLoop(g) == g = [k \in 0 .. n |-> IF k = 0 THEN start
                                              ELSE Served(g[k - 1], payloads[k])]
           step == [p \in Services \X (1 .. n) |-> Served(p[1], payloads[p[2]])]
<1>1. start \in Services
  <2>1. <<>> \in Seq(AnswerDocs) /\ <<>> \in Seq(Byte) /\ <<>> \in Seq(0 .. 100)
    OBVIOUS
  <2>2. StreamOf(<<>>) = <<>>
    <3>1. 0 \in Byte
      BY DEF Byte
    <3>2. <<0>> \in Docs
      BY <3>1 DEF Docs
    <3> QED
      BY <3>2, StreamOfOne
  <2> QED
    BY <2>1, <2>2, TellsNothing DEF Services
<1>2. step \in [Services \X (1 .. n) -> Services]
  BY ServedSound
<1> HIDE DEF start
<1>3. PICK f \in [0 .. n -> Services] : Iterates(f, n, start, step)
  <2> HIDE DEF step, n, IsLoop
  <2> QED
    BY <1>1, <1>2, IterationExists DEF n
<1>4. IsLoop(f)
  <2>1. ASSUME NEW k \in 1 .. n PROVE f[k] = Served(f[k - 1], payloads[k])
    <3>1. f[k - 1] \in Services
      OBVIOUS
    <3>2. step[<<f[k - 1], k>>] = Served(f[k - 1], payloads[k])
      BY <3>1
    <3> QED
      BY <1>3, <3>2 DEF Iterates
  <2>2. f = [k \in 0 .. n |-> f[k]]
    OBVIOUS
  <2>3. \A k \in 0 .. n : f[k] = IF k = 0 THEN start ELSE Served(f[k - 1], payloads[k])
    BY <1>3, <2>1 DEF Iterates
  <2> HIDE DEF n, step
  <2> QED
    BY <2>2, <2>3
<1>5. ASSUME NEW g, IsLoop(g) PROVE g[n] \in Services
  <2> DEFINE T == {k \in Nat : k <= n => g[k] \in Services}
  <2>1. 0 \in T
    BY <1>1, <1>5
  <2>2. ASSUME NEW k \in Nat, k \in T PROVE k + 1 \in T
    <3> SUFFICES ASSUME k + 1 <= n PROVE g[k + 1] \in Services
      OBVIOUS
    <3>1. g[k + 1] = Served(g[k], payloads[k + 1])
      BY <1>5
    <3> QED
      BY <2>2, <3>1, ServedSound
  <2>3. n \in T
    <3> HIDE DEF T
    <3> QED BY <2>1, <2>2, SetInduction
  <2> QED
    BY <2>3
<1>6. IsLoop(CHOOSE g : IsLoop(g))
  <2> HIDE DEF IsLoop
  <2> QED BY <1>4
<1>7. ServedAll(payloads) = (CHOOSE g : IsLoop(g))[n]
  BY DEF ServedAll, start
<1> HIDE DEF IsLoop
<1> QED
  BY <1>5, <1>6, <1>7

-----------------------------------------------------------------------------
(* Types *)

Outcomes == {NoOutcome, "answered", "refused", "unexpected", "unreadable", "did_not_answer"}

HostTypes ==
    /\ present \in BOOLEAN /\ known \in BOOLEAN /\ asked \in Requests \cup {NoCall}
    /\ outcome \in Outcomes /\ calls \in 0 .. MaxCalls
    /\ buffer \in Seq(Byte) /\ Len(buffer) < HeaderLength + MaxPayload
    /\ ready \in Seq(Seq(Byte))

DeviceTypes ==
    /\ heard \in Seq(Byte) /\ Len(heard) < HeaderLength + MaxPayload
    /\ fan \in Fans

WireTypes ==
    /\ toDevice \in Seq(Byte) /\ toHost \in Seq(Byte)
    /\ faults \in Nat /\ cuts \in Nat /\ faults + cuts <= MaxTroubles

HistoryTypes ==
    /\ requestsSent \in Seq(Docs) /\ requestsGot \in Seq(Seq(Byte))
    /\ answersSent \in Seq(AnswerDocs) /\ answersTaken \in Seq(Seq(Byte))
    /\ applied \in Seq(0 .. 100) /\ credited \in Seq({Told(a) : a \in Answers})

\* What each duty of a write was read from.
Reads(at, taken, duties) ==
    /\ at \in [1 .. Len(duties) -> 1 .. Len(taken)]
    /\ \A j, k \in 1 .. Len(duties) : j < k => at[j] < at[k]
    /\ \A k \in 1 .. Len(duties) : \E a \in SetAnswers :
          taken[at[k]] = Document(a) /\ duties[k] = Told(a)

CreditIsRead == \E at : Reads(at, answersTaken, credited)

LinkInv ==
    /\ HostTypes /\ DeviceTypes /\ WireTypes /\ HistoryTypes
    /\ Tells(answersSent, applied) /\ CreditIsRead

\* The strengthened invariant has the type invariant in it...
LEMMA LinkTypeOK == LinkInv => TypeOK
<1> SUFFICES ASSUME LinkInv PROVE TypeOK
  OBVIOUS
<1>1. fan.duty \in 0 .. 100
  <2>1. fan \in Memories
    BY DEF LinkInv, DeviceTypes, Fans
  <2>2. Duties \subseteq 0 .. 100
    BY OpenFanAssumption DEF Duties, NewFan
  <2> QED
    BY <2>1, <2>2 DEF Memories
<1>2. /\ fan.silent \in 0 .. FallbackAfter + 1 /\ fan.engaged \in BOOLEAN
      /\ fan.bootloader \in BOOLEAN /\ fan.firmware.total \in 0 .. MaxFirmware
      /\ fan.firmware.received \in Nat
  BY DEF LinkInv, DeviceTypes, Fans, Memories
<1>3. \A k \in DOMAIN answersSent : answersSent[k] \in {<<AnswerCode[a]>> : a \in Answers}
  BY DEF LinkInv, HistoryTypes, AnswerDocs, Document
<1>4. faults + cuts \in 0 .. MaxTroubles
  BY DeviceLinkAssumption DEF LinkInv, WireTypes
<1> QED
  BY <1>1, <1>2, <1>3, <1>4
     DEF LinkInv, TypeOK, BuffersAreBounded, HostTypes, DeviceTypes, WireTypes, Outcomes

\* ... holds of the link as it is built...
LEMMA LinkInit == Init => LinkInv
<1> SUFFICES ASSUME Init PROVE LinkInv
  OBVIOUS
<1>1. HostTypes
  <2>1. /\ <<>> \in Seq(Byte) /\ <<>> \in Seq(Seq(Byte)) /\ Len(<<>>) < HeaderLength + MaxPayload
        /\ 0 \in 0 .. MaxCalls
    <3>1. MaxCalls \in Nat /\ MaxPayload \in Nat \ {0}
      <4>1. MaxCalls \in Nat
        BY DeviceLinkAssumption, Zenon
      <4>2. MaxPayload \in Nat \ {0}
        BY FramingAssumption
      <4> QED
        BY <4>1, <4>2
    <3>2. <<>> \in Seq(Byte) /\ <<>> \in Seq(Seq(Byte))
      OBVIOUS
    <3> QED
      BY <3>1, <3>2 DEF HeaderLength
  <2> QED
    BY <2>1 DEF Init, HostTypes, Outcomes
<1>2. DeviceTypes
  <2>1. heard = <<>> /\ fan = NewFan
    BY DEF Init
  <2>2. <<>> \in Seq(Byte) /\ Len(<<>>) = 0
    OBVIOUS
  <2>3. 0 < HeaderLength + MaxPayload
    BY FramingAssumption DEF HeaderLength
  <2> QED
    BY <2>1, <2>2, <2>3, NewFanSound, Zenon DEF DeviceTypes
<1>3. WireTypes
  BY DeviceLinkAssumption DEF Init, WireTypes
<1>4. HistoryTypes
  BY DEF Init, HistoryTypes
<1>5. Tells(answersSent, applied)
  BY TellsNothing DEF Init
<1>6. CreditIsRead
  <2> DEFINE at == [k \in 1 .. 0 |-> 0]
  <2>1. Reads(at, <<>>, <<>>)
    BY DEF Reads
  <2> HIDE DEF at
  <2> QED
    BY <2>1 DEF Init, CreditIsRead
<1> QED
  BY <1>1, <1>2, <1>3, <1>4, <1>5, <1>6 DEF LinkInv

\* However a byte is damaged, the wire carries bytes.
LEMMA DamagedType ==
    ASSUME NEW bytes \in Seq(Byte), NEW other \in Damaged(bytes)
    PROVE  other \in Seq(Byte)
<1>0. Noise \subseteq Byte
  BY DeviceLinkAssumption
<1>1. CASE \E i \in DOMAIN bytes, b \in Noise : other = [bytes EXCEPT ![i] = b]
  BY <1>0, <1>1
<1>2. CASE \E i \in DOMAIN bytes : other = RemoveAt(bytes, i)
  <2>1. PICK i \in DOMAIN bytes : other = RemoveAt(bytes, i)
    BY <1>2
  <2>2. SubSeq(bytes, 1, i - 1) \in Seq(Byte) /\ SubSeq(bytes, i + 1, Len(bytes)) \in Seq(Byte)
    OBVIOUS
  <2> QED
    BY <2>1, <2>2 DEF RemoveAt
<1>3. CASE \E i \in DOMAIN bytes, b \in Noise : other = InsertAt(bytes, i, b)
  <2>1. PICK i \in DOMAIN bytes, b \in Noise : other = InsertAt(bytes, i, b)
    BY <1>3
  <2>2. /\ SubSeq(bytes, 1, i - 1) \in Seq(Byte) /\ SubSeq(bytes, i, Len(bytes)) \in Seq(Byte)
        /\ <<b>> \in Seq(Byte)
    BY <1>0
  <2> QED
    BY <2>1, <2>2 DEF InsertAt
<1> QED
  BY <1>1, <1>2, <1>3 DEF Damaged

\* What a read takes and leaves, and that it counts only where it is cut short.
LEMMA ReadType ==
    ASSUME NEW bytes \in Seq(Byte), NEW n \in Arrived(bytes), CountCut(bytes, n), WireTypes
    PROVE  /\ n \in 0 .. Len(bytes)
           /\ SubSeq(bytes, 1, n) \in Seq(Byte) /\ Rest(bytes, n) \in Seq(Byte)
           /\ cuts' \in Nat /\ faults + cuts' <= MaxTroubles
<1>1. n \in 0 .. Len(bytes)
  BY DEF Arrived
<1>2. SubSeq(bytes, 1, n) \in Seq(Byte) /\ Rest(bytes, n) \in Seq(Byte)
  BY <1>1 DEF Rest
<1>3. CASE Quiet
  <2>1. faults + cuts < MaxTroubles /\ faults \in Nat /\ cuts \in Nat /\ MaxTroubles \in Nat
    BY <1>3, DeviceLinkAssumption DEF Quiet, WireTypes
  <2>2. cuts' = cuts + 1 \/ cuts' = cuts
    BY DEF CountCut
  <2>3. cuts' \in Nat /\ faults + cuts' <= MaxTroubles
    BY <2>1, <2>2
  <2> QED
    BY <1>1, <1>2, <2>3
<1>4. CASE ~Quiet
  <2>1. n = Len(bytes) /\ Len(bytes) \in Nat
    BY <1>4 DEF Arrived
  <2>2. cuts' = cuts
    BY <2>1 DEF CountCut
  <2> QED
    BY <1>1, <1>2, <2>2 DEF WireTypes
<1> QED
  BY <1>1, <1>2, <1>3, <1>4

-----------------------------------------------------------------------------
(* Steps *)

\* An answer more leaves what was credited before as it was.
LEMMA ReadsMore ==
    ASSUME NEW D, NEW taken \in Seq(D), NEW duties, NEW doc \in D, NEW at,
           Len(duties) \in Nat, Reads(at, taken, duties)
    PROVE  Reads(at, Append(taken, doc), duties)
<1>1. /\ Len(Append(taken, doc)) = Len(taken) + 1 /\ Len(taken) \in Nat
      /\ \A i \in 1 .. Len(taken) : Append(taken, doc)[i] = taken[i]
  OBVIOUS
<1>2. at \in [1 .. Len(duties) -> 1 .. Len(taken) + 1]
  <2>1. at \in [1 .. Len(duties) -> 1 .. Len(taken)]
    BY DEF Reads
  <2> QED
    BY <1>1, <2>1
<1>3. \A k \in 1 .. Len(duties) : Append(taken, doc)[at[k]] = taken[at[k]]
  BY <1>1 DEF Reads
<1> QED
  BY <1>1, <1>2, <1>3 DEF Reads

\* An answer to a write, credited.
LEMMA ReadsOneMore ==
    ASSUME NEW D, NEW taken \in Seq(D), NEW U, NEW duties \in Seq(U),
           NEW a \in SetAnswers, Document(a) \in D, Told(a) \in U,
           NEW at, Reads(at, taken, duties)
    PROVE  \E some : Reads(some, Append(taken, Document(a)), Append(duties, Told(a)))
<1> DEFINE doc == Document(a)
           told == Told(a)
           more == Append(taken, doc)
           paid == Append(duties, told)
           m == Len(taken)
           p == Len(duties)
           some == [k \in 1 .. p + 1 |-> IF k = p + 1 THEN m + 1 ELSE at[k]]
<1> HIDE DEF doc, told
<1>0. doc \in D /\ told \in U /\ doc = Document(a) /\ told = Told(a)
  BY DEF doc, told
<1>1. /\ Len(more) = m + 1 /\ m \in Nat /\ more[m + 1] = doc
      /\ \A i \in 1 .. m : more[i] = taken[i]
  BY <1>0
<1>2. /\ Len(paid) = p + 1 /\ p \in Nat /\ paid[p + 1] = told
      /\ \A i \in 1 .. p : paid[i] = duties[i]
  BY <1>0
<1>3. /\ at \in [1 .. p -> 1 .. m]
      /\ \A j, k \in 1 .. p : j < k => at[j] < at[k]
      /\ \A k \in 1 .. p : \E b \in SetAnswers : taken[at[k]] = Document(b) /\ duties[k] = Told(b)
  BY DEF Reads
<1> HIDE DEF more, paid, m, p
<1>4. some \in [1 .. p + 1 -> 1 .. m + 1]
  BY <1>1, <1>2, <1>3
<1>5. some[p + 1] = m + 1 /\ \A k \in 1 .. p : some[k] = at[k]
  BY <1>2
<1> HIDE DEF some
<1>6. ASSUME NEW j \in 1 .. p + 1, NEW k \in 1 .. p + 1, j < k PROVE some[j] < some[k]
  <2>1. j \in 1 .. p /\ (k \in 1 .. p \/ k = p + 1)
    BY <1>2, <1>6
  <2> QED
    BY <1>1, <1>3, <1>5, <1>6, <2>1
<1>7. ASSUME NEW k \in 1 .. p + 1
      PROVE  \E b \in SetAnswers : more[some[k]] = Document(b) /\ paid[k] = Told(b)
  <2>1. CASE k = p + 1
    BY <1>0, <1>1, <1>2, <1>5, <2>1
  <2>2. CASE k \in 1 .. p
    <3>1. more[some[k]] = taken[at[k]] /\ paid[k] = duties[k]
      BY <1>1, <1>2, <1>3, <1>5, <2>2
    <3> QED
      BY <1>3, <2>2, <3>1
  <2> QED
    BY <1>2, <2>1, <2>2
<1>8. Reads(some, more, paid)
  BY <1>1, <1>2, <1>4, <1>6, <1>7 DEF Reads
<1> QED
  BY <1>8 DEF more, paid, doc, told

\* A write is credited only by an answer to a write.
LEMMA ConcludeSound ==
    ASSUME LinkInv, asked \in Requests, NEW payload \in Seq(Byte), Conclude(payload)
    PROVE  /\ outcome' \in Outcomes /\ known' \in BOOLEAN
           /\ answersTaken' = Append(answersTaken, payload)
           /\ answersTaken' \in Seq(Seq(Byte))
           /\ credited' \in Seq({Told(a) : a \in Answers})
           /\ CreditIsRead'
<1> DEFINE answer == AnswerOf(payload)
           verdict == IF IsAnswer(payload) THEN Judged(asked.op, answer) ELSE "unreadable"
           tolds == {Told(a) : a \in Answers}
<1>1. /\ outcome' = verdict /\ known' = (known \/ Welcomed(answer, verdict))
      /\ credited' = IF asked.op = "set_state" /\ verdict = "answered"
                     THEN Append(credited, Told(answer)) ELSE credited
      /\ answersTaken' = Append(answersTaken, payload)
  BY DEF Conclude
<1>2. /\ answersTaken \in Seq(Seq(Byte)) /\ credited \in Seq(tolds) /\ known \in BOOLEAN
  BY DEF LinkInv, HistoryTypes, HostTypes
<1>3. verdict \in Outcomes
  BY DEF Judged, Outcomes
<1>4. known' \in BOOLEAN
  BY <1>1, <1>2 DEF Welcomed
<1>5. answersTaken' \in Seq(Seq(Byte))
  BY <1>1, <1>2
<1>6. PICK at : Reads(at, answersTaken, credited)
  BY DEF LinkInv, CreditIsRead
<1>7. CASE ~(asked.op = "set_state" /\ verdict = "answered")
  <2>1. credited' = credited
    BY <1>1, <1>7
  <2>2. Reads(at, Append(answersTaken, payload), credited)
    <3>1. Len(credited) \in Nat
      BY <1>2
    <3> QED
      BY <1>2, <1>6, <3>1, ReadsMore
  <2>3. CreditIsRead'
    <3>1. Reads(at, answersTaken', credited')
      BY <1>1, <2>1, <2>2
    <3> QED
      BY <3>1 DEF CreditIsRead, Reads
  <2> QED
    BY <1>1, <1>2, <1>3, <1>4, <1>5, <2>1, <2>3
<1>8. CASE asked.op = "set_state" /\ verdict = "answered"
  <2>1. IsAnswer(payload) /\ Judged(asked.op, answer) = "answered"
    BY <1>8
  <2>2. answer \in Answers /\ Document(answer) = payload
    BY <2>1 DEF IsAnswer, AnswerOf, Document
  <2>3. answer.op = "state_set"
    BY <1>8, <2>1 DEF Judged, AnswerTo
  <2>4. answer \in SetAnswers /\ Told(answer) \in tolds
    BY <2>2, <2>3 DEF SetAnswers
  <2>5. credited' = Append(credited, Told(answer)) /\ answersTaken' = Append(answersTaken, Document(answer))
    BY <1>1, <1>8, <2>2
  <2> HIDE DEF answer, verdict, tolds
  <2>6. Document(answer) \in Seq(Byte)
    BY <2>2
  <2>7. PICK some : Reads(some, Append(answersTaken, Document(answer)), Append(credited, Told(answer)))
    BY <1>2, <1>6, <2>4, <2>6, ReadsOneMore
  <2>8. CreditIsRead'
    <3>1. Reads(some, answersTaken', credited')
      BY <2>5, <2>7
    <3> QED
      BY <3>1 DEF CreditIsRead, Reads
  <2>9. credited' \in Seq(tolds)
    BY <1>2, <2>4, <2>5
  <2> QED
    BY <1>1, <1>3, <1>4, <1>5, <2>8, <2>9 DEF tolds
<1> QED
  BY <1>7, <1>8

\* ... and every step keeps it.  A request is put on the wire.
LEMMA AskKeepsTypes ==
    ASSUME LinkInv, NEW request \in Requests, Ask(request)
    PROVE  LinkInv'
<1> DEFINE doc == <<RequestCode[request]>>
<1>1. RequestCode[request] \in Byte
  BY DeviceLinkAssumption
<1>2. doc \in Docs
  BY <1>1 DEF Docs
<1>3. Encode(doc) \in Seq(Byte)
  BY <1>2, EncodedDoc
<1>4. HostTypes'
  <2>1. faults \in Nat /\ MaxCalls \in Nat /\ calls \in Nat /\ calls + faults < MaxCalls
    BY DeviceLinkAssumption DEF Ask, LinkInv, HostTypes, WireTypes
  <2>2. calls + 1 \in 0 .. MaxCalls
    BY <2>1
  <2> QED
    BY <2>2 DEF Ask, LinkInv, HostTypes
<1>5. DeviceTypes'
  BY DEF Ask, LinkInv, DeviceTypes, device
<1>6. WireTypes'
  BY <1>3 DEF Ask, LinkInv, WireTypes
<1>7. HistoryTypes'
  <2>1. requestsSent' \in Seq(Docs)
    <3> HIDE DEF doc
    <3>1. requestsSent \in Seq(Docs)
      BY DEF LinkInv, HistoryTypes
    <3>2. requestsSent' = Append(requestsSent, doc)
      BY DEF Ask, doc
    <3> QED
      BY <1>2, <3>1, <3>2
  <2> QED
    BY <2>1 DEF Ask, LinkInv, HistoryTypes
<1>8. (Tells(answersSent, applied) /\ CreditIsRead)'
  BY DEF Ask, LinkInv, CreditIsRead, Tells, Places, Reads
<1> QED
  BY <1>4, <1>5, <1>6, <1>7, <1>8 DEF LinkInv

\* An answer is taken, or the call ends without one: nothing but the host's
\* side of the link and the bytes it read have changed.
LEMMA ReceiveKeepsTypes == ASSUME LinkInv, Receive PROVE LinkInv'
<1>1. /\ asked \in Requests /\ asked' = NoCall
      /\ UNCHANGED <<present, calls, heard, fan, toDevice, faults, requestsSent, requestsGot,
                     answersSent, applied>>
  BY DEF Receive, LinkInv, HostTypes, device
<1>2. DeviceTypes' /\ Tells(answersSent, applied)'
  BY <1>1 DEF LinkInv, DeviceTypes, Tells, Places
<1>3. ready \in Seq(Seq(Byte)) /\ toHost \in Seq(Byte) /\ buffer \in Seq(Byte)
  BY DEF LinkInv, HostTypes, WireTypes
<1>4. CASE /\ ready # <<>> /\ Conclude(Head(ready)) /\ ready' = Taken(ready)
           /\ UNCHANGED <<buffer, toHost, cuts>>
  <2>1. Head(ready) \in Seq(Byte) /\ Tail(ready) \in Seq(Seq(Byte))
    BY <1>3, <1>4
  <2>2. /\ outcome' \in Outcomes /\ known' \in BOOLEAN
        /\ answersTaken' \in Seq(Seq(Byte))
        /\ credited' \in Seq({Told(a) : a \in Answers})
        /\ CreditIsRead'
    BY <1>1, <1>4, <2>1, ConcludeSound
  <2>3. HostTypes'
    BY <1>1, <1>4, <2>1, <2>2 DEF LinkInv, HostTypes, Taken
  <2>4. WireTypes' /\ HistoryTypes'
    BY <1>1, <1>4, <2>2 DEF LinkInv, WireTypes, HistoryTypes
  <2> QED
    BY <1>2, <2>2, <2>3, <2>4 DEF LinkInv
<1>5. ASSUME NEW n \in Arrived(toHost),
             NEW decoded \in {Decoded[buffer \o SubSeq(toHost, 1, n)]},
             /\ CountCut(toHost, n)
             /\ toHost' = Rest(toHost, n)
             /\ buffer' = decoded.left
             /\ IF decoded.payloads = <<>>
                THEN NoAnswer /\ ready' = <<>>
                ELSE /\ Conclude(Head(decoded.payloads))
                     /\ ready' = Taken(decoded.payloads)
      PROVE  LinkInv'
  <2>1. /\ SubSeq(toHost, 1, n) \in Seq(Byte) /\ Rest(toHost, n) \in Seq(Byte)
        /\ cuts' \in Nat /\ faults + cuts' <= MaxTroubles
    BY <1>3, <1>5, ReadType DEF LinkInv
  <2>2. WellDecoded(decoded)
    <3>1. buffer \o SubSeq(toHost, 1, n) \in Seq(Byte)
      BY <1>3, <2>1
    <3> QED
      BY <1>5, <3>1, DecodedType
  <2>3. /\ decoded.left \in Seq(Byte) /\ Len(decoded.left) < HeaderLength + MaxPayload
        /\ decoded.payloads \in Seq(Seq(Byte))
    BY <2>2 DEF WellDecoded
  <2>4. WireTypes'
    BY <1>1, <1>5, <2>1 DEF LinkInv, WireTypes
  <2>5. /\ outcome' \in Outcomes /\ known' \in BOOLEAN
        /\ answersTaken' \in Seq(Seq(Byte)) /\ ready' \in Seq(Seq(Byte))
        /\ credited' \in Seq({Told(a) : a \in Answers})
        /\ CreditIsRead'
    <3>1. CASE decoded.payloads = <<>>
      <4>1. /\ outcome' = "did_not_answer" /\ known' = known /\ credited' = credited
            /\ answersTaken' = answersTaken /\ ready' = <<>>
        BY <1>5, <3>1 DEF NoAnswer
      <4>2. CreditIsRead'
        BY <4>1 DEF LinkInv, CreditIsRead, Reads
      <4>3. ready' \in Seq(Seq(Byte))
        BY <4>1
      <4> QED
        BY <4>1, <4>2, <4>3 DEF LinkInv, HostTypes, HistoryTypes, Outcomes
    <3>2. CASE decoded.payloads # <<>>
      <4>1. /\ Head(decoded.payloads) \in Seq(Byte)
            /\ Tail(decoded.payloads) \in Seq(Seq(Byte))
        BY <2>3, <3>2
      <4>2. Conclude(Head(decoded.payloads)) /\ ready' = Tail(decoded.payloads)
        BY <1>5, <3>2 DEF Taken
      <4> QED
        BY <1>1, <4>1, <4>2, ConcludeSound
    <3> QED
      BY <3>1, <3>2
  <2>6. HostTypes'
    BY <1>1, <1>5, <2>3, <2>5 DEF LinkInv, HostTypes
  <2>7. HistoryTypes'
    BY <1>1, <2>5 DEF LinkInv, HistoryTypes
  <2> QED
    BY <1>2, <2>4, <2>5, <2>6, <2>7 DEF LinkInv
<1> QED
  BY <1>4, <1>5 DEF Receive

\* The device reads, decodes and serves what it decoded.
LEMMA DeviceReadsKeepsTypes == ASSUME LinkInv, DeviceReads PROVE LinkInv'
<1>0. PICK n \in Arrived(toDevice) \ {0} :
        \E decoded \in {Decoded[heard \o SubSeq(toDevice, 1, n)]} :
        \E served \in {ServedAll(decoded.payloads)} :
        /\ CountCut(toDevice, n)
        /\ toDevice' = Rest(toDevice, n)
        /\ heard' = decoded.left
        /\ fan' = served.fan
        /\ toHost' = toHost \o served.frames
        /\ requestsGot' = requestsGot \o decoded.payloads
        /\ answersSent' = answersSent \o served.documents
        /\ applied' = applied \o served.duties
        /\ UNCHANGED <<host, faults, requestsSent, answersTaken, credited>>
  BY DEF DeviceReads
<1> DEFINE decoded == Decoded[heard \o SubSeq(toDevice, 1, n)]
           served == ServedAll(decoded.payloads)
<1>1.   /\ CountCut(toDevice, n)
        /\ toDevice' = Rest(toDevice, n)
        /\ heard' = decoded.left
        /\ fan' = served.fan
        /\ toHost' = toHost \o served.frames
        /\ requestsGot' = requestsGot \o decoded.payloads
        /\ answersSent' = answersSent \o served.documents
        /\ applied' = applied \o served.duties
        /\ UNCHANGED <<present, known, asked, outcome, buffer, ready, calls, faults,
                       requestsSent, answersTaken, credited>>
  BY <1>0 DEF host
<1>2. /\ SubSeq(toDevice, 1, n) \in Seq(Byte) /\ Rest(toDevice, n) \in Seq(Byte)
      /\ cuts' \in Nat /\ faults + cuts' <= MaxTroubles
  <2>1. toDevice \in Seq(Byte) /\ WireTypes
    BY DEF LinkInv, WireTypes
  <2> QED
    BY <1>0, <2>1, ReadType
<1>3. WellDecoded(decoded)
  <2>1. heard \o SubSeq(toDevice, 1, n) \in Seq(Byte)
    BY <1>2 DEF LinkInv, DeviceTypes
  <2> QED
    BY <2>1, DecodedType
<1>4. /\ decoded.left \in Seq(Byte) /\ Len(decoded.left) < HeaderLength + MaxPayload
      /\ decoded.payloads \in Seq(Seq(Byte))
  BY <1>3 DEF WellDecoded
<1>5. served \in Services
  <2>1. Len(decoded.payloads) \in Nat /\ fan \in Fans
    BY <1>4 DEF LinkInv, DeviceTypes
  <2> QED
    BY <2>1, ServedAllSound
<1> HIDE DEF decoded, served
<1>6. /\ served.fan \in Fans /\ served.documents \in Seq(AnswerDocs)
      /\ served.frames \in Seq(Byte) /\ served.duties \in Seq(0 .. 100)
      /\ Tells(served.documents, served.duties)
  BY <1>5 DEF Services
<1>7. HostTypes'
  BY <1>1 DEF LinkInv, HostTypes
<1>8. DeviceTypes'
  BY <1>1, <1>4, <1>6 DEF LinkInv, DeviceTypes
<1>9. WireTypes'
  BY <1>1, <1>2, <1>6 DEF LinkInv, WireTypes
<1>10. HistoryTypes'
  BY <1>1, <1>4, <1>6 DEF LinkInv, HistoryTypes
<1>11. Tells(answersSent, applied)'
  <2>1. /\ answersSent \in Seq(AnswerDocs) /\ applied \in Seq(0 .. 100)
        /\ Tells(answersSent, applied)
    BY DEF LinkInv, HistoryTypes
  <2>2. Tells(answersSent \o served.documents, applied \o served.duties)
    BY <1>6, <2>1, TellsConcat
  <2> QED
    BY <1>1, <2>2 DEF Tells, Places
<1>12. CreditIsRead'
  BY <1>1 DEF LinkInv, CreditIsRead, Reads
<1> QED
  BY <1>7, <1>8, <1>9, <1>10, <1>11, <1>12 DEF LinkInv

\* The clock of the device.
LEMMA TickKeepsTypes == ASSUME LinkInv, Tick PROVE LinkInv'
<1>1. fan' \in Fans
  BY TickedSound DEF Tick, LinkInv, DeviceTypes
<1> QED
  BY <1>1 DEF Tick, LinkInv, HostTypes, DeviceTypes, WireTypes, HistoryTypes, CreditIsRead,
              Reads, Tells, Places, host, wire, history

\* A damaged byte is a byte, or is gone.
LEMMA DamageKeepsTypes == ASSUME LinkInv, Damage PROVE LinkInv'
<1>1. /\ faults' = faults + 1 /\ faults + cuts < MaxTroubles
      /\ UNCHANGED <<present, known, asked, outcome, buffer, ready, calls, heard, fan, cuts,
                     requestsSent, requestsGot, answersSent, answersTaken, applied, credited>>
  BY DEF Damage, Quiet, host, device, history
<1>2. toDevice' \in Seq(Byte) /\ toHost' \in Seq(Byte)
  <2>1. toDevice \in Seq(Byte) /\ toHost \in Seq(Byte)
    BY DEF LinkInv, WireTypes
  <2>2. CASE toDevice' \in Damaged(toDevice) /\ UNCHANGED toHost
    BY <2>1, <2>2, DamagedType
  <2>3. CASE toHost' \in Damaged(toHost) /\ UNCHANGED toDevice
    BY <2>1, <2>3, DamagedType
  <2> QED
    BY <2>2, <2>3 DEF Damage
<1>3. WireTypes'
  <2>1. faults \in Nat /\ cuts \in Nat /\ MaxTroubles \in Nat
    BY DeviceLinkAssumption DEF LinkInv, WireTypes
  <2>2. faults + 1 \in Nat /\ faults + 1 + cuts <= MaxTroubles
    BY <1>1, <2>1
  <2> QED
    BY <1>1, <1>2, <2>1, <2>2 DEF WireTypes
<1>4. HostTypes' /\ DeviceTypes' /\ HistoryTypes'
  BY <1>1 DEF LinkInv, HostTypes, DeviceTypes, HistoryTypes
<1>5. Tells(answersSent, applied)' /\ CreditIsRead'
  BY <1>1 DEF LinkInv, CreditIsRead, Reads, Tells, Places
<1> QED
  BY <1>3, <1>4, <1>5 DEF LinkInv

\* The death of the host leaves everything else where it is.
LEMMA QuietStepsKeepTypes == ASSUME LinkInv, HostDies \/ UNCHANGED vars PROVE LinkInv'
<1>1. /\ present' \in BOOLEAN
      /\ UNCHANGED <<known, asked, outcome, buffer, ready, calls, heard, fan, toDevice, toHost,
                     faults, cuts, requestsSent, requestsGot, answersSent, answersTaken,
                     applied, credited>>
  BY DEF HostDies, vars, host, device, wire, history, LinkInv, HostTypes
<1>2. HostTypes' /\ DeviceTypes' /\ WireTypes' /\ HistoryTypes'
  BY <1>1 DEF LinkInv, HostTypes, DeviceTypes, WireTypes, HistoryTypes
<1>3. Tells(answersSent, applied)' /\ CreditIsRead'
  BY <1>1 DEF LinkInv, CreditIsRead, Reads, Tells, Places
<1> QED
  BY <1>2, <1>3 DEF LinkInv

\* The invariant is inductive.
LEMMA LinkStep == LinkInv /\ [Next]_vars => LinkInv'
  BY AskKeepsTypes, ReceiveKeepsTypes, DeviceReadsKeepsTypes, TickKeepsTypes, DamageKeepsTypes,
     QuietStepsKeepTypes DEF Next

\* So it holds at every moment of every behaviour.
LEMMA LinkIsSound == Spec => []LinkInv
  BY LinkInit, LinkStep, PTL DEF Spec

\* Every variable of the link has its type at every moment, and neither decoder
\* ever holds more than one frame of the largest size: whatever the documents,
\* the limits and the damage done to the wire.
THEOREM LinkTypes == Spec => []TypeOK
  BY LinkIsSound, LinkTypeOK, PTL

\* However the chunks of any images are cut, lost, repeated, reordered by a late
\* answer, damaged on the way or broken off for those of another image, of the
\* same length or not: what the device installs has every byte in its place and
\* the length of an image, and is the image its chunks are all of, if there is
\* one.
THEOREM ImageStaysWhole == Spec => []InstalledWhole
<1>1. LinkInv => InstalledWhole
  BY DEF LinkInv, DeviceTypes, Fans, Installed, InstalledWhole
<1> QED
  BY <1>1, LinkIsSound, PTL

-----------------------------------------------------------------------------
(* A stream in pieces *)

\* A decoder that has read a part of a stream of documents: what it yields and
\* what it holds, with what has not arrived yet, are the documents again.
IsSplit(first, second, late, buf, rest) ==
    /\ first \in Seq(Docs) /\ second \in Seq(Docs) /\ late = first \o second
    /\ Decoded[buf].payloads = first
    /\ Decoded[buf].left \in Seq(Byte)
    /\ Decoded[buf].left \o rest = StreamOf(second)

Splits(late, buf, rest) == \E first, second : IsSplit(first, second, late, buf, rest)

\* Nothing decodes to nothing.
LEMMA EmptyBuffer == Decoded[<<>>] = [left |-> <<>>, payloads |-> <<>>]
<1>1. <<>> \in Seq(Byte) /\ Len(<<>>) = 0
  OBVIOUS
<1>2. ~OutOfStep(<<>>) /\ Len(<<>>) < HeaderLength
  BY <1>1 DEF OutOfStep, HeaderLength
<1>3. Decoded[<<>>] = Round(Decoded, <<>>)
  BY <1>1, DecodedRound
<1> QED
  BY <1>2, <1>3 DEF Round

\* Concatenation is associative; stated for documents.
LEMMA ConcatDocs ==
    ASSUME NEW s \in Seq(Docs), NEW t \in Seq(Docs), NEW u \in Seq(Docs)
    PROVE  (s \o t) \o u = s \o (t \o u)
  BY ConcatAssociative

\* A stream of no documents.
LEMMA NothingIsSplit ==
    ASSUME NEW buf \in Seq(Byte), NEW rest \in Seq(Byte), buf \o rest = <<>>
    PROVE  Splits(<<>>, buf, rest)
<1>1. buf = <<>> /\ rest = <<>>
  <2>1. Len(buf \o rest) = Len(buf) + Len(rest)
    BY ConcatBytes
  <2>2. Len(buf) = 0 /\ Len(rest) = 0
    <3>1. Len(buf) \in Nat /\ Len(rest) \in Nat /\ Len(<<>>) = 0
      OBVIOUS
    <3> QED
      BY <2>1, <3>1
  <2> QED
    BY <2>2, EmptySeq
<1>2. StreamOf(<<>>) = <<>>
  <2>1. <<0>> \in Docs
    BY DEF Docs, Byte
  <2> QED
    BY <2>1, StreamOfOne
<1> DEFINE nothing == <<>>
<1>3. nothing \in Seq(Docs) /\ nothing = nothing \o nothing
  BY ConcatEmptySeq
<1>4. Decoded[buf] = [left |-> <<>>, payloads |-> <<>>]
  BY <1>1, EmptyBuffer
<1>5. Decoded[buf].left \o rest = <<>> /\ Decoded[buf].left \in Seq(Byte)
  BY <1>1, <1>4, <1>3
<1> HIDE DEF nothing
<1>6. IsSplit(nothing, nothing, nothing, buf, rest)
  BY <1>2, <1>3, <1>4, <1>5 DEF IsSplit, nothing
<1>7. Splits(nothing, buf, rest)
  BY <1>6 DEF Splits
<1> QED
  BY <1>7 DEF nothing

\* Two ways of cutting the same bytes, in the middle or before it.
Reaches(a, b, c, d) == \E m \in Seq(Byte) : a = c \o m /\ m \o b = d

\* The shorter part opens the longer one.
LEMMA Recut ==
    ASSUME NEW a \in Seq(Byte), NEW b \in Seq(Byte), NEW c \in Seq(Byte), NEW d \in Seq(Byte),
           a \o b = c \o d, Len(c) <= Len(a)
    PROVE  Reaches(a, b, c, d)
<1> DEFINE m == SubSeq(a, Len(c) + 1, Len(a))
           whole == a \o b
           cm == c \o m
           mb == m \o b
<1>0. Len(a) \in Nat /\ Len(b) \in Nat /\ Len(c) \in Nat /\ Len(d) \in Nat
  OBVIOUS
<1>1. /\ m \in Seq(Byte) /\ Len(m) = Len(a) - Len(c)
      /\ \A i \in 1 .. Len(m) : m[i] = a[Len(c) + i]
  BY <1>0
<1>2. /\ Len(whole) = Len(a) + Len(b)
      /\ \A i \in 1 .. Len(a) + Len(b) : whole[i] =
            IF i <= Len(a) THEN a[i] ELSE b[i - Len(a)]
  BY ConcatBytes, Zenon
<1>3. /\ Len(whole) = Len(c) + Len(d)
      /\ \A i \in 1 .. Len(c) + Len(d) : whole[i] =
            IF i <= Len(c) THEN c[i] ELSE d[i - Len(c)]
  <2>1. whole = c \o d
    OBVIOUS
  <2>2. /\ Len(c \o d) = Len(c) + Len(d)
        /\ \A i \in 1 .. Len(c) + Len(d) : (c \o d)[i] =
              IF i <= Len(c) THEN c[i] ELSE d[i - Len(c)]
    BY ConcatBytes, Zenon
  <2> HIDE DEF whole
  <2> QED
    BY <2>1, <2>2
<1> HIDE DEF m, whole
<1>9. m \in Seq(Byte)
  BY <1>1
<1>4. /\ cm \in Seq(Byte) /\ Len(cm) = Len(c) + Len(m)
      /\ \A i \in 1 .. Len(c) + Len(m) : cm[i] =
            IF i <= Len(c) THEN c[i] ELSE m[i - Len(c)]
  BY <1>9, ConcatBytes, Zenon
<1>5. /\ mb \in Seq(Byte) /\ Len(mb) = Len(m) + Len(b)
      /\ \A i \in 1 .. Len(m) + Len(b) : mb[i] =
            IF i <= Len(m) THEN m[i] ELSE b[i - Len(m)]
  BY <1>9, ConcatBytes, Zenon
<1> HIDE DEF cm, mb
<1>6. a = cm
  <2>1. Len(cm) = Len(a)
    BY <1>0, <1>1, <1>4
  <2>2. ASSUME NEW i \in 1 .. Len(a) PROVE a[i] = cm[i]
    <3>1. CASE i <= Len(c)
      <4>1. whole[i] = a[i] /\ whole[i] = c[i] /\ cm[i] = c[i]
        BY <1>0, <1>2, <1>3, <1>4, <2>1, <3>1
      <4> QED
        BY <4>1
    <3>2. CASE ~(i <= Len(c))
      <4>1. cm[i] = m[i - Len(c)]
        BY <1>0, <1>4, <2>1, <3>2
      <4>2. i - Len(c) \in 1 .. Len(m) /\ Len(c) + (i - Len(c)) = i
        BY <1>0, <1>1, <3>2
      <4>3. m[i - Len(c)] = a[Len(c) + (i - Len(c))]
        BY <1>1, <4>2
      <4> QED
        BY <4>1, <4>2, <4>3
    <3> QED
      BY <3>1, <3>2
  <2> QED
    BY <1>4, <2>1, <2>2, SeqEqual
<1>7. mb = d
  <2>1. Len(mb) = Len(d)
    BY <1>0, <1>1, <1>2, <1>3, <1>5
  <2>2. ASSUME NEW i \in 1 .. Len(d) PROVE mb[i] = d[i]
    <3>1. whole[Len(c) + i] = d[i]
      <4>1. /\ Len(c) + i \in 1 .. Len(c) + Len(d) /\ ~(Len(c) + i <= Len(c))
            /\ Len(c) + i - Len(c) = i
        BY <1>0
      <4> QED
        BY <1>3, <4>1
    <3>2. CASE i <= Len(m)
      <4>0. Len(m) \in Nat /\ i \in 1 .. Len(m) /\ i \in 1 .. Len(m) + Len(b)
        BY <1>0, <1>1, <3>2
      <4>1. mb[i] = m[i] /\ m[i] = a[Len(c) + i]
        BY <1>1, <1>5, <3>2, <4>0
      <4>2. whole[Len(c) + i] = a[Len(c) + i]
        BY <1>0, <1>1, <1>2, <3>2
      <4> QED
        BY <3>1, <4>1, <4>2
    <3>3. CASE ~(i <= Len(m))
      <4>1. mb[i] = b[i - Len(m)]
        BY <1>0, <1>1, <1>5, <2>1, <3>3
      <4>2. whole[Len(c) + i] = b[Len(c) + i - Len(a)]
        BY <1>0, <1>1, <1>2, <1>3, <3>3
      <4>3. Len(c) + i - Len(a) = i - Len(m)
        BY <1>0, <1>1
      <4> QED
        BY <3>1, <4>1, <4>2, <4>3
    <3> QED
      BY <3>2, <3>3
  <2> QED
    BY <1>5, <2>1, <2>2, SeqEqual
<1> QED
  BY <1>6, <1>7, <1>9 DEF cm, mb, Reaches

\* One document more at the head of the stream.
LEMMA SplitBehind ==
    ASSUME NEW doc \in Docs, NEW late \in Seq(Docs), NEW buf \in Seq(Byte), NEW rest \in Seq(Byte),
           buf \o rest = Encode(doc) \o StreamOf(late),
           \A b \in Seq(Byte) : b \o rest = StreamOf(late) => Splits(late, b, rest)
    PROVE  Splits(<<doc>> \o late, buf, rest)
<1> DEFINE frame == Encode(doc)
           one == <<doc>>
           stream == StreamOf(late)
<1>0. /\ doc \in Seq(Byte) /\ Len(doc) = 1 /\ Len(doc) <= MaxPayload
      /\ frame \in Seq(Byte) /\ Len(frame) = 6
      /\ one \in Seq(Docs) /\ stream \in Seq(Byte)
  <2>1. doc \in Seq(Byte) /\ Len(doc) = 1
    <3>1. PICK byte \in Byte : doc = <<byte>>
      BY DEF Docs
    <3> QED
      BY <3>1
  <2>2. Len(doc) <= MaxPayload
    BY <2>1, LargestFrame
  <2>3. frame \in Seq(Byte) /\ Len(frame) = 6
    BY EncodedDoc
  <2>4. stream \in Seq(Byte)
    BY StreamType
  <2>5. one \in Seq(Docs)
    OBVIOUS
  <2> QED
    BY <2>1, <2>2, <2>3, <2>4, <2>5
<1>1. StreamOf(one \o late) = frame \o stream
  <2>1. StreamOf(one) = frame
    BY StreamOfOne
  <2> HIDE DEF one
  <2> QED
    BY <1>0, <2>1, StreamConcat
<1> HIDE DEF one, frame, stream
<1>2. CASE Len(frame) <= Len(buf)
  <2>1. PICK b \in Seq(Byte) : buf = frame \o b /\ b \o rest = stream
    <3>1. buf \o rest = frame \o stream
      BY DEF frame, stream
    <3>2. frame \in Seq(Byte) /\ stream \in Seq(Byte)
      BY <1>0
    <3>3. Reaches(buf, rest, frame, stream)
      BY <1>2, <3>1, <3>2, Recut, Zenon
    <3> QED
      BY <3>3 DEF Reaches
  <2>2. PICK first, second : IsSplit(first, second, late, b, rest)
    BY <2>1 DEF Splits, stream
  <2>3. Decoded[buf] = [left |-> Decoded[b].left, payloads |-> one \o Decoded[b].payloads]
    BY <1>0, <2>1, FrameSurvives DEF frame, one
  <2>4. /\ first \in Seq(Docs) /\ second \in Seq(Docs) /\ late = first \o second
        /\ Decoded[b].payloads = first
        /\ Decoded[b].left \in Seq(Byte)
        /\ Decoded[b].left \o rest = StreamOf(second)
    BY <2>2 DEF IsSplit
  <2>5. one \o late = (one \o first) \o second
    <3>1. one \in Seq(Docs) /\ first \in Seq(Docs) /\ second \in Seq(Docs)
      BY <1>0, <2>4
    <3>2. (one \o first) \o second = one \o (first \o second)
      BY <3>1, ConcatDocs
    <3> QED
      BY <2>4, <3>2
  <2>6. one \o first \in Seq(Docs)
    BY <1>0, <2>4
  <2>7. IsSplit(one \o first, second, one \o late, buf, rest)
    BY <2>3, <2>4, <2>5, <2>6 DEF IsSplit
  <2> QED
    BY <2>7 DEF Splits, one
<1>3. CASE ~(Len(frame) <= Len(buf))
  <2>1. PICK more \in Seq(Byte) : frame = buf \o more
    <3>1. frame \o stream = buf \o rest
      BY DEF frame, stream
    <3>2. Len(buf) <= Len(frame)
      <4>1. Len(frame) \in Nat /\ Len(buf) \in Nat
        BY <1>0
      <4> QED
        BY <1>3, <4>1
    <3>3. frame \in Seq(Byte) /\ stream \in Seq(Byte)
      BY <1>0
    <3>4. Reaches(frame, stream, buf, rest)
      BY <3>1, <3>2, <3>3, Recut, Zenon
    <3> QED
      BY <3>4 DEF Reaches
  <2>2. Decoded[buf] = [left |-> buf, payloads |-> <<>>]
    <3>1. Len(buf) < Len(frame)
      <4>1. Len(frame) \in Nat /\ Len(buf) \in Nat
        BY <1>0
      <4> QED
        BY <1>3, <4>1
    <3> QED
      BY <1>0, <2>1, <3>1, FrameIsAwaited DEF frame
  <2> DEFINE nothing == <<>>
             all == one \o late
  <2>3. nothing \in Seq(Docs) /\ all \in Seq(Docs)
    BY <1>0
  <2>4. all = nothing \o all
    BY <2>3, ConcatEmptySeq
  <2> HIDE DEF nothing, all
  <2>5. buf \o rest = StreamOf(all)
    BY <1>1 DEF all, frame, stream
  <2>6. IsSplit(nothing, all, all, buf, rest)
    BY <2>2, <2>3, <2>4, <2>5 DEF IsSplit, nothing
  <2>7. Splits(all, buf, rest)
    BY <2>6 DEF Splits
  <2> QED
    BY <2>7 DEF all, one
<1> QED
  BY <1>2, <1>3

\* Decoder::push, called with the stream in pieces however small.
LEMMA StreamIsSplit ==
    ASSUME NEW late \in Seq(Docs), NEW buf \in Seq(Byte), NEW rest \in Seq(Byte),
           buf \o rest = StreamOf(late)
    PROVE  Splits(late, buf, rest)
<1> DEFINE AllSplit(n) == \A docs \in Seq(Docs) : Len(docs) = n =>
                            \A b \in Seq(Byte) : b \o rest = StreamOf(docs) => Splits(docs, b, rest)
           T == {n \in Nat : AllSplit(n)}
<1>1. 0 \in T
  <2> SUFFICES ASSUME NEW docs \in Seq(Docs), Len(docs) = 0,
                      NEW b \in Seq(Byte), b \o rest = StreamOf(docs)
               PROVE  Splits(docs, b, rest)
    OBVIOUS
  <2>1. docs = <<>>
    BY EmptySeq
  <2>2. StreamOf(<<>>) = <<>>
    <3>1. <<0>> \in Docs
      BY DEF Docs, Byte
    <3> QED
      BY <3>1, StreamOfOne
  <2>3. b \o rest = <<>>
    BY <2>1, <2>2
  <2>4. Splits(<<>>, b, rest)
    BY <2>3, NothingIsSplit
  <2> QED
    BY <2>1, <2>4
<1>2. ASSUME NEW n \in Nat, n \in T PROVE n + 1 \in T
  <2> SUFFICES ASSUME NEW docs \in Seq(Docs), Len(docs) = n + 1,
                      NEW b \in Seq(Byte), b \o rest = StreamOf(docs)
               PROVE  Splits(docs, b, rest)
    <3>1. n + 1 \in Nat
      OBVIOUS
    <3> QED
      BY <3>1
  <2> DEFINE doc == Head(docs)
             others == Tail(docs)
             one == <<doc>>
  <2>1. doc \in Docs /\ others \in Seq(Docs) /\ Len(others) = n /\ docs # <<>>
    <3>1. docs # <<>>
      BY <1>2
    <3> QED
      BY <3>1
  <2>2. docs = one \o others
    BY <2>1
  <2> HIDE DEF doc, others
  <2>3. one \in Seq(Docs) /\ StreamOf(one) = Encode(doc)
    BY <2>1, StreamOfOne
  <2> HIDE DEF one
  <2>4. StreamOf(docs) = Encode(doc) \o StreamOf(others)
    BY <2>1, <2>2, <2>3, StreamConcat
  <2>5. \A c \in Seq(Byte) : c \o rest = StreamOf(others) => Splits(others, c, rest)
    BY <1>2, <2>1
  <2>6. b \o rest = Encode(doc) \o StreamOf(others)
    BY <2>4
  <2>7. Splits(<<doc>> \o others, b, rest)
    BY <2>1, <2>5, <2>6, SplitBehind
  <2> QED
    BY <2>2, <2>7 DEF one
<1>3. Len(late) \in T
  <2>1. Len(late) \in Nat
    OBVIOUS
  <2> HIDE DEF T
  <2> QED
    BY <1>1, <1>2, <2>1, SetInduction
<1> QED
  BY <1>3

-----------------------------------------------------------------------------
(* Order *)

\* What was sent is what was got and what is still under way, which is exactly
\* what the receiver's buffer and the wire hold together.
IsUnderWay(late, sent, got, held, bytes) ==
    late \in Seq(Docs) /\ sent = got \o late /\ held \o bytes = StreamOf(late)

InOrder(sent, got, held, bytes) ==
    got \in Seq(Docs) /\ \E late : IsUnderWay(late, sent, got, held, bytes)

\* Only a damaged byte can break it.
LinkOrder ==
    faults = 0 => /\ InOrder(requestsSent, requestsGot, heard, toDevice)
                  /\ InOrder(answersSent, answersTaken \o ready, buffer, toHost)

\* Nothing was sent, nothing is under way.
LEMMA OrderAtFirst == InOrder(<<>>, <<>>, <<>>, <<>>)
<1> DEFINE nothing == <<>>
<1>1. nothing \in Seq(Docs) /\ nothing \o nothing = nothing
  OBVIOUS
<1>2. StreamOf(<<>>) = <<>>
  <2>1. <<0>> \in Docs
    BY DEF Docs, Byte
  <2> QED
    BY <2>1, StreamOfOne
<1>3. StreamOf(nothing) = nothing
  BY <1>2
<1> HIDE DEF nothing
<1>4. IsUnderWay(nothing, nothing, nothing, nothing, nothing)
  BY <1>1, <1>3 DEF IsUnderWay
<1>5. InOrder(nothing, nothing, nothing, nothing)
  BY <1>1, <1>4 DEF InOrder
<1> QED
  BY <1>5 DEF nothing

\* What is sent is under way.
LEMMA OrderWhenSent ==
    ASSUME NEW sent, NEW got, NEW held \in Seq(Byte), NEW bytes \in Seq(Byte),
           InOrder(sent, got, held, bytes), NEW more \in Seq(Docs)
    PROVE  InOrder(sent \o more, got, held, bytes \o StreamOf(more))
<1>1. PICK late : IsUnderWay(late, sent, got, held, bytes)
  BY DEF InOrder
<1>2. /\ late \in Seq(Docs) /\ sent = got \o late /\ held \o bytes = StreamOf(late)
      /\ got \in Seq(Docs)
  BY <1>1 DEF IsUnderWay, InOrder
<1> DEFINE stream == StreamOf(more)
           later == late \o more
<1>3. stream \in Seq(Byte) /\ later \in Seq(Docs)
  BY <1>2, StreamType
<1>4. StreamOf(later) = StreamOf(late) \o stream
  BY <1>2, StreamConcat
<1> HIDE DEF stream
<1>5. held \o (bytes \o stream) = StreamOf(later)
  <2>1. (held \o bytes) \o stream = held \o (bytes \o stream)
    BY <1>3, ConcatAssociative
  <2> QED
    BY <1>2, <1>4, <2>1
<1>6. sent \o more = got \o later
  BY <1>2, ConcatDocs
<1> HIDE DEF later
<1>7. IsUnderWay(later, sent \o more, got, held, bytes \o stream)
  BY <1>3, <1>5, <1>6 DEF IsUnderWay
<1> QED
  BY <1>2, <1>7 DEF InOrder, stream

\* A sequence is what was read of it and the rest.
LEMMA Halves ==
    ASSUME NEW bytes \in Seq(Byte), NEW n \in 0 .. Len(bytes)
    PROVE  SubSeq(bytes, 1, n) \o Rest(bytes, n) = bytes
<1> DEFINE a == SubSeq(bytes, 1, n)
           b == SubSeq(bytes, n + 1, Len(bytes))
           both == a \o b
<1>0. Len(bytes) \in Nat /\ n \in Nat /\ n <= Len(bytes)
  OBVIOUS
<1>1. /\ a \in Seq(Byte) /\ Len(a) = n
      /\ \A i \in 1 .. n : a[i] = bytes[i]
  BY <1>0
<1>2. /\ b \in Seq(Byte) /\ Len(b) = Len(bytes) - n
      /\ \A i \in 1 .. Len(b) : b[i] = bytes[n + i]
  BY <1>0
<1> HIDE DEF a, b
<1>3. a \in Seq(Byte) /\ b \in Seq(Byte)
  BY <1>1, <1>2
<1>4. /\ both \in Seq(Byte) /\ Len(both) = Len(a) + Len(b)
      /\ \A i \in 1 .. Len(a) + Len(b) : both[i] =
            IF i <= Len(a) THEN a[i] ELSE b[i - Len(a)]
  BY <1>3, ConcatBytes
<1> HIDE DEF both
<1>5. Len(both) = Len(bytes)
  BY <1>0, <1>1, <1>2, <1>4
<1>6. ASSUME NEW i \in 1 .. Len(bytes) PROVE both[i] = bytes[i]
  <2>1. CASE i <= n
    <3>1. i \in 1 .. n /\ both[i] = a[i]
      BY <1>0, <1>1, <1>2, <1>4, <1>5, <2>1
    <3> QED
      BY <1>1, <3>1
  <2>2. CASE ~(i <= n)
    <3>1. i - n \in 1 .. Len(b) /\ n + (i - n) = i
      BY <1>0, <1>2, <2>2
    <3>2. both[i] = b[i - n]
      BY <1>0, <1>1, <1>2, <1>4, <1>5, <2>2
    <3>3. b[i - n] = bytes[n + (i - n)]
      BY <1>2, <3>1
    <3> QED
      BY <3>1, <3>2, <3>3
  <2> QED
    BY <2>1, <2>2
<1>7. both = bytes
  BY <1>4, <1>5, <1>6, SeqEqual
<1> QED
  BY <1>7 DEF both, a, b, Rest

\* A read, however much of what is under way it finds.
LEMMA OrderWhenRead ==
    ASSUME NEW sent, NEW got, NEW held \in Seq(Byte), NEW bytes \in Seq(Byte),
           InOrder(sent, got, held, bytes), NEW n \in 0 .. Len(bytes),
           NEW decoded, decoded = Decoded[held \o SubSeq(bytes, 1, n)]
    PROVE  /\ decoded.payloads \in Seq(Docs)
           /\ InOrder(sent, got \o decoded.payloads, decoded.left, Rest(bytes, n))
<1> DEFINE here == SubSeq(bytes, 1, n)
           rest == Rest(bytes, n)
           buf == held \o here
<1>1. PICK late : IsUnderWay(late, sent, got, held, bytes)
  BY DEF InOrder
<1>2. /\ late \in Seq(Docs) /\ sent = got \o late /\ held \o bytes = StreamOf(late)
      /\ got \in Seq(Docs)
  BY <1>1 DEF IsUnderWay, InOrder
<1>3. here \in Seq(Byte) /\ rest \in Seq(Byte) /\ here \o rest = bytes
  <2>1. here \in Seq(Byte) /\ rest \in Seq(Byte)
    BY DropShrinks DEF Rest
  <2>2. here \o rest = bytes
    BY Halves
  <2> QED
    BY <2>1, <2>2
<1> HIDE DEF here, rest
<1>4. buf \in Seq(Byte) /\ buf \o rest = held \o bytes
  <2>1. (held \o here) \o rest = held \o (here \o rest)
    <3>1. here \in Seq(Byte) /\ rest \in Seq(Byte)
      BY <1>3
    <3> QED
      BY <3>1, ConcatRegroup
  <2>2. buf \in Seq(Byte)
    BY <1>3
  <2> QED
    BY <1>3, <2>1, <2>2
<1> HIDE DEF buf
<1>5. Splits(late, buf, rest)
  BY <1>2, <1>3, <1>4, StreamIsSplit
<1>6. PICK first, second : IsSplit(first, second, late, buf, rest)
  BY <1>5 DEF Splits
<1>7. decoded = Decoded[buf]
  BY DEF buf, here
<1>8. /\ first \in Seq(Docs) /\ second \in Seq(Docs) /\ late = first \o second
      /\ decoded.payloads = first /\ decoded.left \o rest = StreamOf(second)
  BY <1>6, <1>7 DEF IsSplit
<1>9. sent = (got \o first) \o second /\ got \o first \in Seq(Docs)
  <2>1. (got \o first) \o second = got \o (first \o second)
    <3>1. got \in Seq(Docs) /\ first \in Seq(Docs) /\ second \in Seq(Docs)
      BY <1>2, <1>8, Zenon
    <3> QED
      BY <3>1, ConcatDocs, Zenon
  <2> QED
    BY <1>2, <1>8, <2>1
<1>10. IsUnderWay(second, sent, got \o first, decoded.left, rest)
  BY <1>8, <1>9 DEF IsUnderWay
<1>11. InOrder(sent, got \o first, decoded.left, rest)
  BY <1>9, <1>10 DEF InOrder
<1> QED
  BY <1>8, <1>11 DEF rest

\* The answer taken from the head of the queue is the next of those yielded.
LEMMA TakenInTurn ==
    ASSUME NEW D, NEW taken \in Seq(D), NEW queue \in Seq(D), queue # <<>>
    PROVE  Append(taken, Head(queue)) \o Tail(queue) = taken \o queue
<1> DEFINE one == <<Head(queue)>>
<1>1. Head(queue) \in D /\ Tail(queue) \in Seq(D) /\ one \in Seq(D)
  OBVIOUS
<1>2. queue = one \o Tail(queue)
  OBVIOUS
<1>3. Append(taken, Head(queue)) = taken \o one
  BY <1>1, AppendIsConcat
<1> HIDE DEF one
<1>4. (taken \o one) \o Tail(queue) = taken \o (one \o Tail(queue))
  BY <1>1, ConcatAssociative
<1> QED
  BY <1>2, <1>3, <1>4

\* A request joins those under way.
LEMMA AskKeepsOrder ==
    ASSUME LinkInv, LinkOrder, NEW request \in Requests, Ask(request)
    PROVE  LinkOrder'
<1> DEFINE doc == <<RequestCode[request]>>
           one == <<doc>>
<1>1. doc \in Docs
  <2>1. RequestCode[request] \in Byte
    BY DeviceLinkAssumption
  <2> QED
    BY <2>1 DEF Docs
<1>2. one \in Seq(Docs) /\ StreamOf(one) = Encode(doc)
  BY <1>1, StreamOfOne
<1>3. /\ requestsSent' = requestsSent \o one
      /\ toDevice' = toDevice \o StreamOf(one)
  <2>1. requestsSent' = Append(requestsSent, doc) /\ toDevice' = toDevice \o Encode(doc)
    BY DEF Ask
  <2>2. requestsSent \in Seq(Docs)
    BY DEF LinkInv, HistoryTypes
  <2> HIDE DEF doc
  <2>3. Append(requestsSent, doc) = requestsSent \o one
    BY <1>1, <2>2, AppendIsConcat
  <2> QED
    BY <1>2, <2>1, <2>3
<1>4. UNCHANGED <<faults, requestsGot, heard, answersSent, answersTaken, ready, buffer, toHost>>
  BY DEF Ask, device
<1> HIDE DEF one
<1> SUFFICES ASSUME faults = 0 PROVE LinkOrder'
  BY <1>4 DEF LinkOrder
<1>5. /\ InOrder(requestsSent, requestsGot, heard, toDevice)
      /\ InOrder(answersSent, answersTaken \o ready, buffer, toHost)
  BY DEF LinkOrder
<1>6. heard \in Seq(Byte) /\ toDevice \in Seq(Byte)
  BY DEF LinkInv, DeviceTypes, WireTypes
<1>7. InOrder(requestsSent \o one, requestsGot, heard, toDevice \o StreamOf(one))
  BY <1>2, <1>5, <1>6, OrderWhenSent
<1>8. InOrder(requestsSent', requestsGot', heard', toDevice')
  BY <1>3, <1>4, <1>7
<1>9. InOrder(answersSent', answersTaken' \o ready', buffer', toHost')
  BY <1>4, <1>5
<1> QED
  BY <1>8, <1>9 DEF LinkOrder, InOrder, IsUnderWay

\* A call takes the next answer, from the queue or from the wire; the others it
\* decodes join the queue.
LEMMA ReceiveKeepsOrder == ASSUME LinkInv, LinkOrder, Receive PROVE LinkOrder'
<1>1. UNCHANGED <<faults, requestsSent, requestsGot, heard, toDevice, answersSent>>
  BY DEF Receive, device
<1> SUFFICES ASSUME faults = 0 PROVE LinkOrder'
  BY <1>1 DEF LinkOrder
<1>2. /\ InOrder(requestsSent, requestsGot, heard, toDevice)
      /\ InOrder(answersSent, answersTaken \o ready, buffer, toHost)
  BY DEF LinkOrder
<1>3. /\ answersTaken \in Seq(Seq(Byte)) /\ ready \in Seq(Seq(Byte))
      /\ buffer \in Seq(Byte) /\ toHost \in Seq(Byte)
  BY DEF LinkInv, HistoryTypes, HostTypes, WireTypes
<1>4. InOrder(answersSent', answersTaken' \o ready', buffer', toHost')
  <2>1. CASE /\ ready # <<>> /\ Conclude(Head(ready)) /\ ready' = Taken(ready)
             /\ UNCHANGED <<buffer, toHost, cuts>>
    <3>1. answersTaken' = Append(answersTaken, Head(ready)) /\ ready' = Tail(ready)
      BY <2>1 DEF Conclude, Taken
    <3>2. Append(answersTaken, Head(ready)) \o Tail(ready) = answersTaken \o ready
      BY <1>3, <2>1, TakenInTurn
    <3>3. answersTaken' \o ready' = answersTaken \o ready
      BY <3>1, <3>2
    <3> QED
      BY <1>1, <1>2, <2>1, <3>3
  <2>2. ASSUME ready = <<>>, NEW n \in Arrived(toHost),
               NEW decoded \in {Decoded[buffer \o SubSeq(toHost, 1, n)]},
               /\ CountCut(toHost, n)
               /\ toHost' = Rest(toHost, n)
               /\ buffer' = decoded.left
               /\ IF decoded.payloads = <<>>
                  THEN NoAnswer /\ ready' = <<>>
                  ELSE /\ Conclude(Head(decoded.payloads))
                       /\ ready' = Taken(decoded.payloads)
        PROVE  InOrder(answersSent', answersTaken' \o ready', buffer', toHost')
    <3>1. n \in 0 .. Len(toHost)
      BY <1>3 DEF Arrived
    <3>2. answersTaken \o ready = answersTaken
      BY <1>3, <2>2, ConcatEmptySeq
    <3>3. InOrder(answersSent, answersTaken, buffer, toHost)
      BY <1>2, <3>2
    <3>4. decoded = Decoded[buffer \o SubSeq(toHost, 1, n)]
      BY <2>2
    <3>5. /\ decoded.payloads \in Seq(Docs)
          /\ InOrder(answersSent, answersTaken \o decoded.payloads, decoded.left, Rest(toHost, n))
      BY <1>3, <3>1, <3>3, <3>4, OrderWhenRead
    <3>6. answersTaken' \o ready' = answersTaken \o decoded.payloads
      <4>1. CASE decoded.payloads = <<>>
        BY <2>2, <4>1 DEF NoAnswer
      <4>2. CASE decoded.payloads # <<>>
        <5>1. /\ answersTaken' = Append(answersTaken, Head(decoded.payloads))
              /\ ready' = Tail(decoded.payloads)
          BY <2>2, <4>2 DEF Conclude, Taken
        <5>2. decoded.payloads \in Seq(Seq(Byte))
          BY <3>5, DocsAreStrings, SeqMonotonic
        <5>3. Append(answersTaken, Head(decoded.payloads)) \o Tail(decoded.payloads)
                = answersTaken \o decoded.payloads
          BY <1>3, <4>2, <5>2, TakenInTurn
        <5> QED
          BY <5>1, <5>3
      <4> QED
        BY <4>1, <4>2
    <3> QED
      BY <1>1, <2>2, <3>5, <3>6
  <2> QED
    BY <2>1, <2>2 DEF Receive
<1>5. InOrder(requestsSent', requestsGot', heard', toDevice')
  BY <1>1, <1>2
<1> QED
  BY <1>4, <1>5 DEF LinkOrder, InOrder, IsUnderWay

\* The device takes the next requests, and its answers join those under way.
LEMMA DeviceReadsKeepsOrder == ASSUME LinkInv, LinkOrder, DeviceReads PROVE LinkOrder'
<1>0. PICK n \in Arrived(toDevice) \ {0} :
        \E decoded \in {Decoded[heard \o SubSeq(toDevice, 1, n)]} :
        \E served \in {ServedAll(decoded.payloads)} :
        /\ CountCut(toDevice, n)
        /\ toDevice' = Rest(toDevice, n)
        /\ heard' = decoded.left
        /\ fan' = served.fan
        /\ toHost' = toHost \o served.frames
        /\ requestsGot' = requestsGot \o decoded.payloads
        /\ answersSent' = answersSent \o served.documents
        /\ applied' = applied \o served.duties
        /\ UNCHANGED <<host, faults, requestsSent, answersTaken, credited>>
  BY DEF DeviceReads
<1> DEFINE decoded == Decoded[heard \o SubSeq(toDevice, 1, n)]
           served == ServedAll(decoded.payloads)
<1>1.   /\ toDevice' = Rest(toDevice, n)
        /\ heard' = decoded.left
        /\ toHost' = toHost \o served.frames
        /\ requestsGot' = requestsGot \o decoded.payloads
        /\ answersSent' = answersSent \o served.documents
        /\ UNCHANGED <<buffer, ready, faults, requestsSent, answersTaken>>
  BY <1>0 DEF host
<1> SUFFICES ASSUME faults = 0 PROVE LinkOrder'
  BY <1>1 DEF LinkOrder
<1>2. /\ InOrder(requestsSent, requestsGot, heard, toDevice)
      /\ InOrder(answersSent, answersTaken \o ready, buffer, toHost)
  BY DEF LinkOrder
<1>3. /\ heard \in Seq(Byte) /\ toDevice \in Seq(Byte) /\ fan \in Fans
      /\ buffer \in Seq(Byte) /\ toHost \in Seq(Byte)
  BY DEF LinkInv, DeviceTypes, HostTypes, WireTypes
<1>4. n \in 0 .. Len(toDevice)
  BY <1>3 DEF Arrived
<1>5. /\ decoded.payloads \in Seq(Docs)
      /\ InOrder(requestsSent, requestsGot \o decoded.payloads, decoded.left, Rest(toDevice, n))
  <2> HIDE DEF decoded
  <2>1. decoded = Decoded[heard \o SubSeq(toDevice, 1, n)]
    BY DEF decoded
  <2> QED
    BY <1>2, <1>3, <1>4, <2>1, OrderWhenRead
<1>6. served \in Services
  <2>1. Len(decoded.payloads) \in Nat
    BY <1>5
  <2> QED
    BY <1>3, <2>1, ServedAllSound
<1> HIDE DEF decoded, served
<1>7. served.documents \in Seq(Docs) /\ served.frames = StreamOf(served.documents)
  <2>1. served.documents \in Seq(AnswerDocs) /\ served.frames = StreamOf(served.documents)
    BY <1>6 DEF Services
  <2> QED
    BY <2>1, AnswerDocsAreDocs, SeqMonotonic
<1>8. InOrder(answersSent \o served.documents, answersTaken \o ready, buffer,
              toHost \o StreamOf(served.documents))
  BY <1>2, <1>3, <1>7, OrderWhenSent
<1>9. InOrder(requestsSent', requestsGot', heard', toDevice')
  BY <1>1, <1>5
<1>10. InOrder(answersSent', answersTaken' \o ready', buffer', toHost')
  BY <1>1, <1>7, <1>8
<1> QED
  BY <1>9, <1>10 DEF LinkOrder, InOrder, IsUnderWay

\* Damage ends the promise.
LEMMA DamageKeepsOrder == ASSUME LinkInv, Damage PROVE LinkOrder'
<1>1. faults' # 0
  BY DEF LinkInv, WireTypes, Damage
<1> QED
  BY <1>1 DEF LinkOrder

\* No other step touches what is under way.
LEMMA QuietStepsKeepOrder ==
    ASSUME LinkOrder, Tick \/ HostDies \/ UNCHANGED vars
    PROVE  LinkOrder'
<1>1. UNCHANGED <<faults, requestsSent, requestsGot, heard, toDevice, answersSent, answersTaken,
                  ready, buffer, toHost>>
  BY DEF Tick, HostDies, vars, host, device, wire, history
<1> QED
  BY <1>1 DEF LinkOrder, InOrder, IsUnderWay

\* So the order is kept by every step that damages nothing...
LEMMA LinkOrderStep == LinkInv /\ LinkOrder /\ [Next]_vars => LinkOrder'
  BY AskKeepsOrder, ReceiveKeepsOrder, DeviceReadsKeepsOrder, DamageKeepsOrder,
     QuietStepsKeepOrder DEF Next

\* ... and at every moment until then.
LEMMA LinkIsOrdered == Spec => [](LinkInv /\ LinkOrder)
<1>1. Init => LinkOrder
  <2> SUFFICES ASSUME Init PROVE LinkOrder
    OBVIOUS
  <2>1. answersTaken \o ready = <<>>
    BY DEF Init
  <2> QED
    BY <2>1, OrderAtFirst DEF Init, LinkOrder
<1> QED
  BY <1>1, LinkInit, LinkStep, LinkOrderStep, PTL DEF Spec

-----------------------------------------------------------------------------
(* The channel *)

\* The start of a sequence is the sequence with its end taken out.
LEMMA StartIsSubsequence ==
    ASSUME NEW D, NEW got \in Seq(D), NEW late \in Seq(D)
    PROVE  /\ Requesting!IsSubsequence(got, got \o late)
           /\ Answering!IsSubsequence(got, got \o late)
<1> DEFINE sent == got \o late
           place == [k \in DOMAIN got |-> k]
<1>1. /\ Len(got) \in Nat /\ Len(late) \in Nat
      /\ sent \in Seq(D) /\ Len(sent) = Len(got) + Len(late)
      /\ \A i \in 1 .. Len(got) : sent[i] = got[i]
  OBVIOUS
<1>2. DOMAIN got = 1 .. Len(got) /\ DOMAIN sent = 1 .. Len(sent)
  BY <1>1
<1> HIDE DEF sent
<1>3. place \in [DOMAIN got -> DOMAIN sent]
  BY <1>1, <1>2
<1>4. /\ \A j, k \in DOMAIN got : j < k => place[j] < place[k]
      /\ \A k \in DOMAIN got : got[k] = sent[place[k]]
  BY <1>1, <1>2
<1> HIDE DEF place
<1>5. Requesting!IsSubsequence(got, sent) /\ Answering!IsSubsequence(got, sent)
  BY <1>3, <1>4 DEF Requesting!IsSubsequence, Answering!IsSubsequence
<1> QED
  BY <1>5 DEF sent

\* What is appended makes a longer sequence of the same start.
LEMMA LongerIsLater ==
    ASSUME NEW D, NEW old \in Seq(D), NEW more \in Seq(D), more # <<>>
    PROVE  /\ Requesting!IsStrictPrefix(old, old \o more)
           /\ Answering!IsStrictPrefix(old, old \o more)
<1> DEFINE new == old \o more
<1>1. /\ Len(old) \in Nat /\ Len(more) \in Nat /\ Len(more) # 0
      /\ new \in Seq(D) /\ Len(new) = Len(old) + Len(more)
      /\ \A i \in 1 .. Len(old) : new[i] = old[i]
  BY EmptySeq
<1> HIDE DEF new
<1>2. Len(old) <= Len(new) /\ old # new
  BY <1>1
<1> DEFINE a == SubSeq(old, 1, Len(old))
           b == SubSeq(new, 1, Len(old))
<1>3. /\ a \in Seq(D) /\ Len(a) = Len(old) /\ b \in Seq(D) /\ Len(b) = Len(old)
      /\ \A i \in 1 .. Len(old) : a[i] = old[i] /\ b[i] = new[i]
  BY <1>1
<1> HIDE DEF a, b
<1>4. a = b
  BY <1>1, <1>3, SeqEqual
<1>5. Requesting!IsStrictPrefix(old, new) /\ Answering!IsStrictPrefix(old, new)
  BY <1>2, <1>4 DEF a, b, Requesting!IsStrictPrefix, Answering!IsStrictPrefix,
                    Requesting!IsPrefix, Answering!IsPrefix
<1> QED
  BY <1>5 DEF new

\* On a wire that damages nothing, a step sends requests, delivers some, or
\* does neither.
LEMMA RequestStep ==
    LinkInv /\ LinkOrder /\ LinkOrder' /\ faults' = 0 /\ [Next]_vars
        => [Requesting!Send \/ Requesting!Deliver]_<<requestsSent, requestsGot>>
<1> SUFFICES ASSUME LinkInv, LinkOrder, LinkOrder', faults' = 0, [Next]_vars
             PROVE  [Requesting!Send \/ Requesting!Deliver]_<<requestsSent, requestsGot>>
  OBVIOUS
<1>1. ASSUME NEW request \in Requests, Ask(request) PROVE Requesting!Send
  <2> DEFINE doc == <<RequestCode[request]>>
             one == <<doc>>
  <2>1. doc \in Docs
    <3>1. RequestCode[request] \in Byte
      BY DeviceLinkAssumption
    <3> QED
      BY <3>1 DEF Docs
  <2>2. requestsSent' = Append(requestsSent, doc) /\ requestsGot' = requestsGot
    BY <1>1 DEF Ask
  <2>3. requestsSent \in Seq(Docs)
    BY DEF LinkInv, HistoryTypes
  <2> HIDE DEF doc
  <2>4. requestsSent' = requestsSent \o one /\ one \in Seq(Docs) /\ one # <<>>
    BY <2>1, <2>2, <2>3, AppendIsConcat
  <2> HIDE DEF one
  <2>5. Requesting!IsStrictPrefix(requestsSent, requestsSent \o one)
    BY <2>3, <2>4, LongerIsLater
  <2> QED
    BY <2>2, <2>4, <2>5 DEF Requesting!Send
<1>2. ASSUME DeviceReads
      PROVE  Requesting!Deliver \/ UNCHANGED <<requestsSent, requestsGot>>
  <2>1. PICK n \in Arrived(toDevice) \ {0} :
          \E decoded \in {Decoded[heard \o SubSeq(toDevice, 1, n)]} :
             /\ requestsGot' = requestsGot \o decoded.payloads
             /\ UNCHANGED <<requestsSent, faults>>
    BY <1>2 DEF DeviceReads
  <2> DEFINE decoded == Decoded[heard \o SubSeq(toDevice, 1, n)]
  <2>2. /\ requestsGot' = requestsGot \o decoded.payloads
        /\ UNCHANGED <<requestsSent, faults>>
    BY <2>1
  <2>3. InOrder(requestsSent, requestsGot, heard, toDevice)
    BY <2>2 DEF LinkOrder
  <2>4. n \in 0 .. Len(toDevice) /\ heard \in Seq(Byte) /\ toDevice \in Seq(Byte)
    BY DEF LinkInv, DeviceTypes, WireTypes, Arrived
  <2> HIDE DEF decoded
  <2>5. decoded.payloads \in Seq(Docs)
    <3>1. decoded = Decoded[heard \o SubSeq(toDevice, 1, n)]
      BY DEF decoded
    <3> QED
      BY <2>3, <2>4, <3>1, OrderWhenRead
  <2>6. requestsGot \in Seq(Docs)
    BY <2>3 DEF InOrder
  <2>7. CASE decoded.payloads = <<>>
    BY <2>2, <2>6, <2>7, ConcatEmptySeq
  <2>8. CASE decoded.payloads # <<>>
    <3>1. Requesting!IsStrictPrefix(requestsGot, requestsGot')
      BY <2>2, <2>5, <2>6, <2>8, LongerIsLater
    <3>2. InOrder(requestsSent', requestsGot', heard', toDevice')
      BY DEF LinkOrder, InOrder, IsUnderWay
    <3>3. PICK late : IsUnderWay(late, requestsSent', requestsGot', heard', toDevice')
      BY <3>2 DEF InOrder
    <3>4. late \in Seq(Docs) /\ requestsSent' = requestsGot' \o late /\ requestsGot' \in Seq(Docs)
      BY <3>2, <3>3 DEF IsUnderWay, InOrder
    <3>5. Requesting!IsSubsequence(requestsGot', requestsSent)
      <4>1. Requesting!IsSubsequence(requestsGot', requestsGot' \o late)
        BY <3>4, StartIsSubsequence
      <4> QED
        BY <2>2, <3>4, <4>1
    <3> QED
      BY <2>2, <3>1, <3>5 DEF Requesting!Deliver
  <2> QED
    BY <2>7, <2>8
<1>3. ASSUME Receive \/ Tick \/ Damage \/ HostDies \/ UNCHANGED vars
      PROVE  UNCHANGED <<requestsSent, requestsGot>>
  BY <1>3 DEF Receive, Tick, Damage, HostDies, vars, history
<1> QED
  BY <1>1, <1>2, <1>3 DEF Next

\* Concatenation is associative; stated for strings of bytes.
LEMMA ConcatStrings ==
    ASSUME NEW s \in Seq(Seq(Byte)), NEW t \in Seq(Seq(Byte)), NEW u \in Seq(Seq(Byte))
    PROVE  (s \o t) \o u = s \o (t \o u)
<1> DEFINE D == Seq(Byte)
<1> HIDE DEF D
<1>1. s \in Seq(D) /\ t \in Seq(D) /\ u \in Seq(D)
  BY Zenon DEF D
<1> QED
  BY <1>1, ConcatAssociative, SMTT(20)

\* What was taken opens what was sent: the queue and the wire hold the rest.
LEMMA TakenOpensSent ==
    ASSUME NEW taken \in Seq(Seq(Byte)), NEW queue \in Seq(Seq(Byte)),
           NEW sent, NEW held, NEW bytes, InOrder(sent, taken \o queue, held, bytes)
    PROVE  Answering!IsSubsequence(taken, sent)
<1>1. PICK late : IsUnderWay(late, sent, taken \o queue, held, bytes)
  BY DEF InOrder
<1>2. late \in Seq(Docs) /\ sent = (taken \o queue) \o late
  BY <1>1 DEF IsUnderWay
<1>3. late \in Seq(Seq(Byte))
  BY <1>2, DocsAreStrings, SeqMonotonic
<1>4. (taken \o queue) \o late = taken \o (queue \o late)
  BY <1>3, ConcatStrings
<1> DEFINE more == queue \o late
<1>5. more \in Seq(Seq(Byte)) /\ sent = taken \o more
  BY <1>2, <1>3, <1>4
<1> HIDE DEF more
<1>6. Answering!IsSubsequence(taken, taken \o more)
  BY <1>5, StartIsSubsequence
<1> QED
  BY <1>5, <1>6

\* And it sends answers, delivers some, or does neither.
LEMMA AnswerStep ==
    LinkInv /\ LinkInv' /\ LinkOrder' /\ faults' = 0 /\ [Next]_vars
        => [Answering!Send \/ Answering!Deliver]_<<answersSent, answersTaken>>
<1> SUFFICES ASSUME LinkInv, LinkInv', LinkOrder', faults' = 0, [Next]_vars
             PROVE  [Answering!Send \/ Answering!Deliver]_<<answersSent, answersTaken>>
  OBVIOUS
<1>1. ASSUME DeviceReads PROVE Answering!Send \/ UNCHANGED <<answersSent, answersTaken>>
  <2>1. PICK n \in Arrived(toDevice) \ {0} :
          \E decoded \in {Decoded[heard \o SubSeq(toDevice, 1, n)]} :
          \E served \in {ServedAll(decoded.payloads)} :
             /\ answersSent' = answersSent \o served.documents
             /\ UNCHANGED answersTaken
    BY <1>1 DEF DeviceReads
  <2> DEFINE decoded == Decoded[heard \o SubSeq(toDevice, 1, n)]
             served == ServedAll(decoded.payloads)
  <2>2. answersSent' = answersSent \o served.documents /\ UNCHANGED answersTaken
    BY <2>1
  <2>3. served \in Services
    <3>1. heard \o SubSeq(toDevice, 1, n) \in Seq(Byte)
      <4>1. heard \in Seq(Byte) /\ toDevice \in Seq(Byte) /\ n \in 0 .. Len(toDevice)
        BY DEF LinkInv, DeviceTypes, WireTypes, Arrived
      <4> QED
        BY <4>1
    <3>2. WellDecoded(decoded)
      BY <3>1, DecodedType
    <3>3. Len(decoded.payloads) \in Nat
      BY <3>2 DEF WellDecoded
    <3>4. fan \in Fans
      BY DEF LinkInv, DeviceTypes
    <3> QED
      BY <3>3, <3>4, ServedAllSound
  <2> HIDE DEF served
  <2>4. served.documents \in Seq(AnswerDocs) /\ answersSent \in Seq(AnswerDocs)
    BY <2>3 DEF Services, LinkInv, HistoryTypes
  <2>5. CASE served.documents = <<>>
    BY <2>2, <2>4, <2>5, ConcatEmptySeq
  <2>6. CASE served.documents # <<>>
    <3>1. Answering!IsStrictPrefix(answersSent, answersSent')
      BY <2>2, <2>4, <2>6, LongerIsLater
    <3> QED
      BY <2>2, <3>1 DEF Answering!Send
  <2> QED
    BY <2>5, <2>6
<1>2. ASSUME Receive PROVE Answering!Deliver \/ UNCHANGED <<answersSent, answersTaken>>
  <2>1. UNCHANGED answersSent
    BY <1>2 DEF Receive
  <2>2. CASE \E payload \in Seq(Byte) : answersTaken' = Append(answersTaken, payload)
    <3>1. PICK payload \in Seq(Byte) : answersTaken' = Append(answersTaken, payload)
      BY <2>2
    <3> DEFINE one == <<payload>>
    <3>2. answersTaken \in Seq(Seq(Byte)) /\ one \in Seq(Seq(Byte)) /\ one # <<>>
      BY DEF LinkInv, HistoryTypes
    <3>3. answersTaken' = answersTaken \o one
      BY <3>1, <3>2, AppendIsConcat
    <3> HIDE DEF one
    <3>4. Answering!IsStrictPrefix(answersTaken, answersTaken')
      BY <3>2, <3>3, LongerIsLater
    <3>5. answersTaken' \in Seq(Seq(Byte)) /\ ready' \in Seq(Seq(Byte))
      BY DEF LinkInv, HistoryTypes, HostTypes
    <3>6. InOrder(answersSent', answersTaken' \o ready', buffer', toHost')
      BY DEF LinkOrder, InOrder, IsUnderWay
    <3>7. Answering!IsSubsequence(answersTaken', answersSent)
      BY <2>1, <3>5, <3>6, TakenOpensSent
    <3> QED
      BY <2>1, <3>4, <3>7 DEF Answering!Deliver
  <2>3. CASE UNCHANGED answersTaken
    BY <2>1, <2>3
  <2>4. \/ \E payload \in Seq(Byte) : answersTaken' = Append(answersTaken, payload)
        \/ UNCHANGED answersTaken
    <3>1. CASE ready # <<>> /\ Conclude(Head(ready))
      <4>1. Head(ready) \in Seq(Byte)
        BY <3>1 DEF LinkInv, HostTypes
      <4> QED
        BY <3>1, <4>1 DEF Conclude
    <3>2. ASSUME NEW n \in Arrived(toHost),
                 NEW decoded \in {Decoded[buffer \o SubSeq(toHost, 1, n)]},
                 IF decoded.payloads = <<>>
                 THEN NoAnswer /\ ready' = <<>>
                 ELSE /\ Conclude(Head(decoded.payloads))
                      /\ ready' = Taken(decoded.payloads)
          PROVE  \/ \E payload \in Seq(Byte) : answersTaken' = Append(answersTaken, payload)
                 \/ UNCHANGED answersTaken
      <4>1. CASE decoded.payloads = <<>>
        BY <3>2, <4>1 DEF NoAnswer
      <4>2. CASE decoded.payloads # <<>>
        <5>1. buffer \o SubSeq(toHost, 1, n) \in Seq(Byte)
          <6>1. buffer \in Seq(Byte) /\ toHost \in Seq(Byte) /\ n \in 0 .. Len(toHost)
            BY <3>2 DEF LinkInv, HostTypes, WireTypes, Arrived
          <6> QED
            BY <6>1
        <5>2. WellDecoded(decoded)
          BY <3>2, <5>1, DecodedType
        <5>3. Head(decoded.payloads) \in Seq(Byte)
          BY <4>2, <5>2 DEF WellDecoded
        <5> QED
          BY <3>2, <4>2, <5>3 DEF Conclude
      <4> QED
        BY <4>1, <4>2
    <3> QED
      BY <1>2, <3>1, <3>2 DEF Receive
  <2> QED
    BY <2>2, <2>3, <2>4
<1>3. ASSUME (\E request \in Requests : Ask(request)) \/ Tick \/ Damage \/ HostDies \/ UNCHANGED vars
      PROVE  UNCHANGED <<answersSent, answersTaken>>
  BY <1>3 DEF Ask, Tick, Damage, HostDies, vars, history
<1> QED
  BY <1>1, <1>2, <1>3 DEF Next

\* As long as the wire damages nothing, the link is two channels that keep the
\* order: what the device serves is what the host sent, what the host's calls
\* take is what the device said, however the reads are cut, however late an
\* answer comes, and whether or not the host goes on to live.  (A checksum of
\* eight bits lets some damage through, so no theorem says it of every wire.)
THEOREM LinkImplementsChannel == Spec /\ [](faults = 0) => FramesArriveInOrder
<1> DEFINE Undamaged == faults = 0
<1>1. Init => Requesting!Init /\ Answering!Init
  BY DEF Init, Requesting!Init, Answering!Init
<1>2. /\ LinkInv /\ LinkOrder /\ LinkInv' /\ LinkOrder' /\ Undamaged' /\ [Next]_vars
      => [Requesting!Send \/ Requesting!Deliver]_<<requestsSent, requestsGot>>
  BY RequestStep
<1>3. /\ LinkInv /\ LinkOrder /\ LinkInv' /\ LinkOrder' /\ Undamaged' /\ [Next]_vars
      => [Answering!Send \/ Answering!Deliver]_<<answersSent, answersTaken>>
  BY AnswerStep
<1> HIDE DEF Undamaged
<1>4. Spec /\ []Undamaged => Requesting!Spec
  BY <1>1, <1>2, LinkIsOrdered, PTL DEF Spec, Requesting!Spec
<1>5. Spec /\ []Undamaged => Answering!Spec
  BY <1>1, <1>3, LinkIsOrdered, PTL DEF Spec, Answering!Spec
<1> QED
  BY <1>4, <1>5 DEF FramesArriveInOrder, RequestsArriveInOrder, AnswersArriveInOrder, Undamaged

-----------------------------------------------------------------------------
(* Credit *)

\* An answer credited is one that was taken, one that was taken is one that was
\* sent, and one that says a duty was set announces a duty that was applied.
LEMMA OrderEarnsCredit ==
    ASSUME LinkInv, Answering!IsSubsequence(answersTaken, answersSent)
    PROVE  CreditIsEarned
<1> DEFINE c == Len(credited)
           p == Len(applied)
           t == Len(answersTaken)
           n == Len(answersSent)
<1>1. /\ answersTaken \in Seq(Seq(Byte)) /\ answersSent \in Seq(AnswerDocs)
      /\ applied \in Seq(0 .. 100) /\ credited \in Seq({Told(a) : a \in Answers})
  BY DEF LinkInv, HistoryTypes
<1>2. /\ c \in Nat /\ p \in Nat /\ t \in Nat /\ n \in Nat
      /\ DOMAIN credited = 1 .. c /\ DOMAIN applied = 1 .. p
      /\ DOMAIN answersTaken = 1 .. t /\ DOMAIN answersSent = 1 .. n
  BY <1>1
<1>3. PICK place \in [1 .. t -> 1 .. n] :
        /\ \A j, k \in 1 .. t : j < k => place[j] < place[k]
        /\ \A k \in 1 .. t : answersTaken[k] = answersSent[place[k]]
  BY <1>2 DEF Answering!IsSubsequence
<1>4. PICK at : Reads(at, answersTaken, credited)
  BY DEF LinkInv, CreditIsRead
<1>5. PICK said : Places(said, answersSent, applied)
  BY DEF LinkInv, Tells
<1>6. /\ at \in [1 .. c -> 1 .. t]
      /\ \A j, k \in 1 .. c : j < k => at[j] < at[k]
      /\ \A k \in 1 .. c : \E a \in SetAnswers :
            answersTaken[at[k]] = Document(a) /\ credited[k] = Told(a)
  BY <1>4 DEF Reads
<1>7. /\ said \in [1 .. p -> 1 .. n]
      /\ \A j, k \in 1 .. p : j < k => said[j] < said[k]
      /\ \A k \in 1 .. p : Announces(answersSent[said[k]], applied[k])
      /\ \A i \in 1 .. n : \A a \in SetAnswers :
            answersSent[i] = Document(a) => \E k \in 1 .. p : said[k] = i
  BY <1>5 DEF Places
<1> HIDE DEF c, p, t, n
<1> DEFINE spot == [k \in 1 .. c |-> CHOOSE m \in 1 .. p : said[m] = place[at[k]]]
<1>8. ASSUME NEW k \in 1 .. c
      PROVE  /\ spot[k] \in 1 .. p /\ said[spot[k]] = place[at[k]]
             /\ credited[k] = applied[spot[k]]
  <2>1. PICK a \in SetAnswers : answersTaken[at[k]] = Document(a) /\ credited[k] = Told(a)
    BY <1>6
  <2>2. at[k] \in 1 .. t /\ place[at[k]] \in 1 .. n
    BY <1>3, <1>6
  <2>3. answersSent[place[at[k]]] = Document(a)
    BY <1>3, <2>1, <2>2
  <2>4. \E m \in 1 .. p : said[m] = place[at[k]]
    BY <1>7, <2>2, <2>3
  <2>5. spot[k] \in 1 .. p /\ said[spot[k]] = place[at[k]]
    BY <2>4
  <2> HIDE DEF spot
  <2>6. Announces(answersSent[place[at[k]]], applied[spot[k]])
    BY <1>7, <2>5
  <2>7. PICK b \in SetAnswers : /\ "applied" \in DOMAIN b /\ b.applied = applied[spot[k]]
                                /\ answersSent[place[at[k]]] = Document(b)
    BY <2>6 DEF Announces
  <2>8. a = b
    BY <2>3, <2>7, DocumentsDiffer DEF SetAnswers
  <2>9. credited[k] = applied[spot[k]]
    BY <2>1, <2>7, <2>8 DEF Told
  <2> QED
    BY <2>5, <2>9
<1>9. spot \in [1 .. c -> 1 .. p]
  <2> DEFINE found(k) == CHOOSE m \in 1 .. p : said[m] = place[at[k]]
  <2>1. \A k \in 1 .. c : found(k) \in 1 .. p
    BY <1>8
  <2> QED
    BY <2>1
<1> HIDE DEF spot
<1>10. ASSUME NEW j \in 1 .. c, NEW k \in 1 .. c, j < k PROVE spot[j] < spot[k]
  <2>1. at[j] \in 1 .. t /\ at[k] \in 1 .. t /\ at[j] < at[k]
    BY <1>6, <1>10
  <2>2. said[spot[j]] < said[spot[k]]
    BY <1>3, <1>8, <2>1
  <2>3. /\ spot[j] \in 1 .. p /\ spot[k] \in 1 .. p
        /\ said[spot[j]] \in 1 .. n /\ said[spot[k]] \in 1 .. n
    BY <1>7, <1>8
  <2>4. spot[k] < spot[j] => said[spot[k]] < said[spot[j]]
    BY <1>7, <2>3
  <2>5. CASE spot[j] = spot[k]
    BY <1>2, <2>2, <2>3, <2>5
  <2>6. CASE spot[k] < spot[j]
    BY <1>2, <2>2, <2>3, <2>4, <2>6
  <2> QED
    BY <1>2, <2>3, <2>5, <2>6
<1>11. /\ spot \in [DOMAIN credited -> DOMAIN applied]
       /\ \A j, k \in DOMAIN credited : j < k => spot[j] < spot[k]
       /\ \A k \in DOMAIN credited : credited[k] = applied[spot[k]]
  BY <1>2, <1>8, <1>9, <1>10
<1> QED
  BY <1>11 DEF CreditIsEarned, Answering!IsSubsequence

\* Whatever the wire does to the bytes, a write is reported as applied at most
\* as often, and only with the duties, that the device really applied, as long
\* as the answers the calls took are answers the device sent, in that order:
\* what framing promises is all the accounting of the adapter needs.
THEOREM CreditFollowsOrder ==
    Spec => [](Answering!IsSubsequence(answersTaken, answersSent) => CreditIsEarned)
<1>1. LinkInv => (Answering!IsSubsequence(answersTaken, answersSent) => CreditIsEarned)
  BY OrderEarnsCredit
<1> QED
  BY <1>1, LinkIsSound, PTL

\* And on a wire that damages nothing every credit is earned, however late the
\* answers come and whichever calls they end up with.
THEOREM CreditIsEarnedUndamaged == Spec => [](faults = 0 => CreditIsEarned)
<1>1. LinkInv /\ LinkOrder => (faults = 0 => CreditIsEarned)
  <2> SUFFICES ASSUME LinkInv, LinkOrder, faults = 0 PROVE CreditIsEarned
    OBVIOUS
  <2>1. answersTaken \in Seq(Seq(Byte)) /\ ready \in Seq(Seq(Byte))
    BY DEF LinkInv, HistoryTypes, HostTypes
  <2>2. InOrder(answersSent, answersTaken \o ready, buffer, toHost)
    BY DEF LinkOrder
  <2>3. Answering!IsSubsequence(answersTaken, answersSent)
    BY <2>1, <2>2, TakenOpensSent
  <2> QED
    BY <2>3, OrderEarnsCredit
<1> QED
  BY <1>1, LinkIsOrdered, PTL
=============================================================================
