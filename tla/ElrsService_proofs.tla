--------------------------- MODULE ElrsService_proofs ---------------------------
(***************************************************************************)
(* Theorems about the serial side of elrs_telemetry, for packets, lines,   *)
(* queues and buckets of any size and any number of HTTP threads.          *)
(*                                                                         *)
(* The decoder: while it is in step, its state says how much of which      *)
(* packet is left on the wire (StepInv); while it is not, the bytes it has *)
(* been adrift for and the most it may still skip keep within a sum that   *)
(* is fixed (PlaceInv).  The queue: a frame dropped for a newer one leaves *)
(* a place, and both are counted down together (OweInv).                   *)
(***************************************************************************)
EXTENDS ElrsService, FiniteSetTheorems, SequenceTheorems, TLAPS

AnyByte == 0..255

LongestPacket == Longer(5 + MaxPayload, LineLength + 2)

(* The most bytes the decoder takes for the rest of what it has begun.     *)
MostSkipped == Longer(3 + MaxPayload, MaxLine)

(* The bytes that matter of a frame and of a line, from byte k on.         *)
Header(s, k, channel, n) ==
  /\ k <= 1 => s[2 - k] = MAGIC1
  /\ k <= 2 => s[3 - k] = MAGIC2
  /\ k <= 3 => s[4 - k] = channel
  /\ k <= 4 => s[5 - k] = n % 256
  /\ k <= 5 => s[6 - k] = n \div 256
  /\ Len(s) = 6 - k + n

FrameFrom(s, k) ==
  \E channel \in {CHAN_TX, CHAN_RX}, n \in 1..MaxPayload : Header(s, k, channel, n)

LineFrom(s, k) ==
  /\ Len(s) = LineLength + 3 - k
  /\ k = 1 => s[1] = Hash
  /\ \A i \in 1..(Len(s) - 1) : k + i > 2 => s[i] = 32
  /\ s[Len(s)] = Newline

(* What is on the wire.                                                    *)
WireInv ==
  /\ wire.begun \in BOOLEAN
  /\ wire.rest \in Seq(AnyByte)
  /\ Len(wire.rest) \in 1..LongestPacket
  /\ ~ wire.begun => FrameFrom(wire.rest, 1) \/ LineFrom(wire.rest, 1)

Decoders ==
  [state : DecoderStates, chan : AnyByte, len : Nat, read : Nat, exact : BOOLEAN]

(* A decoder, with the bounds of what it counts.                           *)
GoodDecoder(d) ==
  /\ d \in Decoders
  /\ d.state = "len_hi" => d.len \in AnyByte
  /\ d.state = "payload" => d.read < d.len /\ d.len <= MaxPayload
  /\ d.state = "diag" => d.read \in 1..MaxLine

Seeks(d) == d.state \in {"magic1", "magic2"}

(* The decoder has read of a frame all but the bytes s.                    *)
ReadsFrame(d, s) ==
  \/ d.state = "magic2" /\ FrameFrom(s, 2)
  \/ d.state = "chan" /\ FrameFrom(s, 3)
  \/ d.state = "len_lo" /\ d.chan \in {CHAN_TX, CHAN_RX} /\ FrameFrom(s, 4)
  \/ /\ d.state = "len_hi" /\ d.chan \in {CHAN_TX, CHAN_RX}
     /\ \E n \in 1..MaxPayload :
          d.len = n % 256 /\ s[1] = n \div 256 /\ Len(s) = 1 + n
  \/ d.state = "payload" /\ Len(s) = d.len - d.read

(* It has read of a line all but the bytes s.                              *)
ReadsLine(d, s) ==
  d.state = "diag" /\ d.read <= LineLength + 1 /\ LineFrom(s, d.read + 1)

(* A decoder in step has read of the packet what the firmware has sent.    *)
StepInv ==
  inStep /\ port = "open" =>
    \/ ~ wire.begun /\ Seeks(dec)
    \/ wire.begun /\ dec.exact /\ ReadsFrame(dec, wire.rest)
    \/ wire.begun /\ ReadsLine(dec, wire.rest)

(* The most bytes until the decoder looks for a packet again.              *)
Left(d) ==
  CASE d.state = "chan"    -> 3 + MaxPayload
    [] d.state = "len_lo"  -> 2 + MaxPayload
    [] d.state = "len_hi"  -> 1 + MaxPayload
    [] d.state = "payload" -> d.len - d.read
    [] d.state = "diag"    -> MaxLine + 1 - d.read
    [] OTHER               -> 0

PlaceInv ==
  /\ adrift \in Nat
  /\ inStep => adrift = 0
  /\ IF Seeks(dec) THEN adrift + Len(wire.rest) <= MostSkipped + LongestPacket
     ELSE adrift + Left(dec) <= MostSkipped

MuxInv ==
  /\ port \in {"closed", "open", "broken"} /\ device \in BOOLEAN /\ inStep \in BOOLEAN
  /\ WireInv /\ GoodDecoder(dec) /\ StepInv /\ PlaceInv

(* The queue, the bucket and the threads that write.                       *)
QueueInv ==
  /\ tokens \in 0..Capacity
  /\ handler \in [Handlers -> {"idle", "put", "full", "again"}]
  /\ queue \in 0..QueueMax
  /\ watched \in 0..queue
  /\ writer \in {"idle", "frame", "write"}
  /\ owed \in Nat
  /\ traffic \in Directions

Again == {h \in Handlers : handler[h] = "again"}

(* Each frame dropped left a place nobody has taken yet, and a handler     *)
(* that is about to put its own.                                           *)
OweInv == owed <= QueueMax - queue /\ owed <= Cardinality(Again)

-----------------------------------------------------------------------------
(* Packets *)

LEMMA Constants ==
  /\ MaxPayload \in 1..256 /\ MaxLine \in Nat \ {0}
  /\ LineLength \in Nat /\ LineLength < MaxLine
  /\ PayloadBytes \subseteq AnyByte
  /\ LongestPacket \in Nat /\ MostSkipped \in Nat
  /\ 5 + MaxPayload <= LongestPacket /\ LineLength + 2 <= LongestPacket
  /\ LongestPacket <= 5 + MaxPayload + MaxLine
  /\ 3 + MaxPayload <= MostSkipped /\ MaxLine <= MostSkipped
  /\ LongestSkip = MostSkipped + LongestPacket
BY MuxConstantsOK DEF AnyByte, LongestPacket, MostSkipped, LongestSkip, Longer

LEMMA Bytes == \A x : x \in AnyByte <=> x \in Int /\ 0 <= x /\ x <= 255
BY DEF AnyByte

(* A length in two bytes.                                                  *)
LEMMA LengthBytes ==
  ASSUME NEW n \in 1..256
  PROVE  /\ n % 256 \in 0..255 /\ n \div 256 \in 0..255
         /\ n = (n % 256) + 256 * (n \div 256)
OBVIOUS

LEMMA PayloadShape ==
  ASSUME NEW p \in Payloads
  PROVE  p \in Seq(AnyByte) /\ Len(p) \in 1..MaxPayload
<1>1. PICK n \in 1..MaxPayload : p \in [1..n -> PayloadBytes]
  BY DEF Payloads
<1>2. n \in Nat /\ p \in [1..n -> AnyByte]
  BY <1>1, Constants
<1>3. p \in Seq(AnyByte) /\ Len(p) = n
  BY <1>2
<1> QED
  BY <1>1, <1>3

LEMMA HeaderShape ==
  ASSUME NEW channel \in {CHAN_TX, CHAN_RX}, NEW n \in 1..MaxPayload,
         NEW p \in Seq(AnyByte), Len(p) = n,
         NEW h, h = << MAGIC1, MAGIC2, channel, n % 256, n \div 256 >>
  PROVE  h \o p \in Seq(AnyByte) /\ Header(h \o p, 1, channel, n)
<1>1. n \in 1..256
  BY Constants
<1>2. n % 256 \in AnyByte /\ n \div 256 \in AnyByte
  BY <1>1, LengthBytes DEF AnyByte
<1>3. h \in Seq(AnyByte) /\ Len(h) = 5
  BY <1>2 DEF AnyByte, MAGIC1, MAGIC2, CHAN_TX, CHAN_RX
<1>4. /\ h \o p \in Seq(AnyByte)
      /\ Len(h \o p) = 5 + n
      /\ \A i \in 1..(5 + n) : (h \o p)[i] = IF i <= 5 THEN h[i] ELSE p[i - 5]
  BY <1>3, ConcatProperties
<1>5. /\ h[1] = MAGIC1 /\ h[2] = MAGIC2 /\ h[3] = channel
      /\ h[4] = n % 256 /\ h[5] = n \div 256
  OBVIOUS
<1>6. \A i \in 1..5 : (h \o p)[i] = h[i]
  BY <1>1, <1>4
<1>7. /\ (h \o p)[2 - 1] = MAGIC1 /\ (h \o p)[3 - 1] = MAGIC2
      /\ (h \o p)[4 - 1] = channel /\ (h \o p)[5 - 1] = n % 256
      /\ (h \o p)[6 - 1] = n \div 256
  BY <1>5, <1>6
<1>8. Len(h \o p) = 6 - 1 + n
  BY <1>1, <1>4
<1> QED
  BY <1>4, <1>7, <1>8 DEF Header

LEMMA FrameShape ==
  ASSUME NEW channel \in {CHAN_TX, CHAN_RX}, NEW p \in Payloads
  PROVE  /\ Frame(channel, p) \in Seq(AnyByte)
         /\ Header(Frame(channel, p), 1, channel, Len(p))
BY PayloadShape, HeaderShape DEF Frame

LEMMA LineShape == Line \in Seq(AnyByte) /\ LineFrom(Line, 1)
<1> DEFINE blanks == [i \in 1..LineLength |-> 32]
<1>1. LineLength \in Nat
  BY Constants
<1>2. blanks \in [1..LineLength -> AnyByte]
  BY DEF AnyByte
<1>3. /\ blanks \in Seq(AnyByte) /\ Len(blanks) = LineLength
      /\ \A i \in 1..LineLength : blanks[i] = 32
  BY <1>1, <1>2
<1> HIDE DEF blanks
<1>4. /\ << Hash >> \in Seq(AnyByte) /\ Len(<< Hash >>) = 1 /\ << Hash >>[1] = Hash
      /\ << Newline >> \in Seq(AnyByte) /\ Len(<< Newline >>) = 1
      /\ << Newline >>[1] = Newline
  BY DEF Hash, Newline, AnyByte
<1> DEFINE front == << Hash >> \o blanks
<1>5. /\ front \in Seq(AnyByte) /\ Len(front) = 1 + LineLength
      /\ front[1] = Hash
      /\ \A i \in 2..(1 + LineLength) : front[i] = 32
  <2>1. /\ front \in Seq(AnyByte) /\ Len(front) = 1 + LineLength
        /\ \A i \in 1..(1 + LineLength) :
             front[i] = IF i <= 1 THEN << Hash >>[i] ELSE blanks[i - 1]
    BY <1>3, <1>4, ConcatProperties
  <2> HIDE DEF front
  <2> QED
    BY <1>1, <1>3, <1>4, <2>1
<1> HIDE DEF front
<1>6. /\ front \o << Newline >> \in Seq(AnyByte)
      /\ Len(front \o << Newline >>) = LineLength + 2
      /\ \A i \in 1..(LineLength + 2) :
           (front \o << Newline >>)[i] =
              IF i <= 1 + LineLength THEN front[i] ELSE << Newline >>[i - (1 + LineLength)]
  BY <1>1, <1>4, <1>5, ConcatProperties
<1>7. Line = front \o << Newline >>
  BY DEF Line, front, blanks
<1>8. /\ Line[1] = Hash /\ Line[LineLength + 2] = Newline
      /\ \A i \in 2..(1 + LineLength) : Line[i] = 32
  BY <1>1, <1>4, <1>5, <1>6, <1>7
<1>9. Line \in Seq(AnyByte) /\ Len(Line) = LineLength + 2
  BY <1>6, <1>7
<1> QED
  BY <1>1, <1>8, <1>9 DEF LineFrom

(* What the firmware begins to send, and what a connection begins with.    *)
LEMMA PacketShape ==
  ASSUME NEW q \in Packets
  PROVE  /\ q \in Seq(AnyByte) /\ Len(q) \in 1..LongestPacket
         /\ FrameFrom(q, 1) \/ LineFrom(q, 1)
<1>1. CASE q = Line
  BY <1>1, LineShape, Constants DEF LineFrom
<1>2. ASSUME NEW channel \in {CHAN_TX, CHAN_RX}, NEW p \in Payloads, q = Frame(channel, p)
      PROVE  /\ q \in Seq(AnyByte) /\ Len(q) \in 1..LongestPacket
             /\ FrameFrom(q, 1)
  <2>1. q \in Seq(AnyByte) /\ Header(q, 1, channel, Len(p)) /\ Len(p) \in 1..MaxPayload
    BY <1>2, FrameShape, PayloadShape
  <2>2. Len(q) = 5 + Len(p)
    BY <2>1 DEF Header
  <2> QED
    BY <2>1, <2>2, Constants DEF FrameFrom
<1> QED
  BY <1>1, <1>2 DEF Packets

(* What a packet is without its first bytes.                               *)
LEMMA SuffixShape ==
  ASSUME NEW q \in Packets, NEW i \in 2..Len(q)
  PROVE  /\ SubSeq(q, i, Len(q)) \in Seq(AnyByte)
         /\ Len(SubSeq(q, i, Len(q))) \in 1..LongestPacket
<1>1. q \in Seq(AnyByte) /\ Len(q) \in 1..LongestPacket
  BY PacketShape
<1>2. /\ SubSeq(q, i, Len(q)) \in Seq(AnyByte)
      /\ Len(SubSeq(q, i, Len(q))) = Len(q) - i + 1
  <2>1. i \in Int /\ Len(q) \in Int /\ i <= Len(q)
    BY <1>1
  <2>2. \A j \in i..Len(q) : q[j] \in AnyByte
    BY <1>1, <2>1
  <2> QED
    BY <2>1, <2>2, SubSeqProperties
<1> QED
  BY <1>1, <1>2, Constants

LEMMA NextByte ==
  ASSUME NEW s \in Seq(AnyByte), Len(s) >= 1
  PROVE  /\ Head(s) = s[1] /\ Head(s) \in AnyByte
         /\ Tail(s) \in Seq(AnyByte) /\ Len(Tail(s)) = Len(s) - 1
         /\ \A i \in 1..(Len(s) - 1) : Tail(s)[i] = s[i + 1]
<1>1. s # << >>
  OBVIOUS
<1> QED
  BY <1>1, HeadTailProperties

(* A byte on, what is left of a header is a byte shorter.                  *)
LEMMA HeaderShifts ==
  ASSUME NEW s \in Seq(AnyByte), NEW k \in 1..5, NEW channel, NEW n \in 1..MaxPayload,
         Header(s, k, channel, n)
  PROVE  Len(s) > 1 /\ Header(Tail(s), k + 1, channel, n)
<1>1. n \in Nat /\ n >= 1
  BY Constants
<1>2. Len(s) = 6 - k + n /\ Len(s) > 1
  BY <1>1 DEF Header
<1>3. /\ Len(Tail(s)) = 6 - (k + 1) + n
      /\ \A j \in (k + 2)..6 : Tail(s)[j - (k + 1)] = s[j - k]
  BY <1>1, <1>2, NextByte
<1> QED
  BY <1>2, <1>3 DEF Header

LEMMA LineShifts ==
  ASSUME NEW s \in Seq(AnyByte), NEW k \in Nat, k >= 1, LineFrom(s, k), Len(s) > 1
  PROVE  LineFrom(Tail(s), k + 1)
<1>1. LineLength \in Nat /\ Len(s) = LineLength + 3 - k
  BY Constants DEF LineFrom
<1>2. /\ Len(Tail(s)) = Len(s) - 1
      /\ \A i \in 1..(Len(s) - 1) : Tail(s)[i] = s[i + 1]
  BY NextByte
<1>3. Tail(s)[Len(Tail(s))] = Newline
  BY <1>2 DEF LineFrom
<1>4. \A i \in 1..(Len(Tail(s)) - 1) : Tail(s)[i] = 32
  BY <1>2 DEF LineFrom
<1> QED
  BY <1>1, <1>2, <1>3, <1>4 DEF LineFrom

-----------------------------------------------------------------------------
(* The decoder *)

LEMMA LeftCases ==
  ASSUME NEW d
  PROVE  /\ d.state = "magic1"  => Left(d) = 0
         /\ d.state = "magic2"  => Left(d) = 0
         /\ d.state = "chan"    => Left(d) = 3 + MaxPayload
         /\ d.state = "len_lo"  => Left(d) = 2 + MaxPayload
         /\ d.state = "len_hi"  => Left(d) = 1 + MaxPayload
         /\ d.state = "payload" => Left(d) = d.len - d.read
         /\ d.state = "diag"    => Left(d) = MaxLine + 1 - d.read
BY Zenon DEF Left

LEMMA FreshDecoder ==
  /\ GoodDecoder(Fresh) /\ Fresh.state = "magic1"
  /\ GoodDecoder(Begin) /\ Begin.state = "magic2" /\ Begin.exact = ~ wire.begun
  /\ GoodDecoder(ReadLine) /\ ReadLine.state = "diag" /\ ReadLine.read = 1
<1>1. Fresh \in Decoders /\ GoodDecoder(Fresh) /\ Fresh.state = "magic1"
  BY Bytes DEF Fresh, GoodDecoder, Decoders, DecoderStates
<1>2. GoodDecoder(Begin) /\ Begin.state = "magic2" /\ Begin.exact = ~ wire.begun
  <2>1. PICK x \in BOOLEAN : x = ~ wire.begun
    OBVIOUS
  <2>2. Begin = [Fresh EXCEPT !.state = "magic2", !.exact = x]
    BY <2>1, Zenon DEF Begin
  <2> QED
    BY <1>1, <2>1, <2>2 DEF GoodDecoder, Decoders, DecoderStates
<1>3. GoodDecoder(ReadLine) /\ ReadLine.state = "diag" /\ ReadLine.read = 1
  <2>1. ReadLine \in Decoders /\ ReadLine.state = "diag" /\ ReadLine.read = 1
    BY <1>1 DEF ReadLine, Decoders, DecoderStates
  <2> QED
    BY <2>1, Constants DEF GoodDecoder
<1> QED
  BY <1>1, <1>2, <1>3

LEMMA LeftBounds ==
  ASSUME NEW d, GoodDecoder(d)
  PROVE  Left(d) \in 0..MostSkipped /\ (Left(d) = 0 <=> Seeks(d))
<1>1. /\ d.state \in DecoderStates /\ d.len \in Nat /\ d.read \in Nat
      /\ d.state = "payload" => d.read < d.len /\ d.len <= MaxPayload
      /\ d.state = "diag" => d.read \in 1..MaxLine
  BY Bytes DEF GoodDecoder, Decoders
<1> QED
  BY <1>1, LeftCases, Constants DEF DecoderStates, Seeks

(* The length of a header is taken.                                        *)
LEMMA TakesLength ==
  ASSUME dec \in Decoders, NEW m \in Nat, NEW d,
         d = [[dec EXCEPT !.state = "payload"] EXCEPT !.len = m, !.read = 0]
  PROVE  /\ d \in Decoders /\ d.state = "payload" /\ d.len = m /\ d.read = 0
         /\ d.exact = dec.exact
BY DEF Decoders, DecoderStates

(* What a byte makes of the decoder, whatever the decoder was reading.     *)
LEMMA Feeding ==
  ASSUME GoodDecoder(dec), NEW b \in AnyByte, NEW d, d = Feed(b)
  PROVE  /\ GoodDecoder(d)
         /\ ~ Seeks(dec) /\ ~ Seeks(d) => Left(d) < Left(dec)
<1>0. /\ dec \in Decoders /\ dec.state \in DecoderStates
      /\ dec.read \in Nat /\ dec.len \in Nat /\ b \in Nat /\ b <= 255
      /\ Seeks(dec) <=> dec.state \in {"magic1", "magic2"}
      /\ Seeks(d) <=> d.state \in {"magic1", "magic2"}
  BY Bytes DEF GoodDecoder, Decoders, Seeks
<1>1. CASE dec.state = "magic1"
  <2>1. d = Begin \/ d = ReadLine \/ d = dec
    BY <1>1, Zenon DEF Feed
  <2> QED
    BY <1>0, <1>1, <2>1, FreshDecoder
<1>2. CASE dec.state = "magic2"
  <2>1. d = In("chan") \/ d = Begin \/ d = ReadLine \/ d = Fresh
    BY <1>2, Zenon DEF Feed
  <2>2. GoodDecoder(In("chan"))
    BY <1>0 DEF In, GoodDecoder, Decoders, DecoderStates
  <2> QED
    BY <1>0, <1>2, <2>1, <2>2, FreshDecoder
<1>3. CASE dec.state = "chan"
  <2>1. d = [[dec EXCEPT !.state = "len_lo"] EXCEPT !.chan = b]
    BY <1>3, Zenon DEF Feed, In
  <2>2. GoodDecoder(d) /\ d.state = "len_lo"
    BY <1>0, <2>1 DEF GoodDecoder, Decoders, DecoderStates
  <2> QED
    BY <1>3, <2>2, LeftCases, Constants
<1>4. CASE dec.state = "len_lo"
  <2>1. d = [[dec EXCEPT !.state = "len_hi"] EXCEPT !.len = b]
    BY <1>4, Zenon DEF Feed, In
  <2>2. GoodDecoder(d) /\ d.state = "len_hi"
    BY <1>0, <2>1 DEF GoodDecoder, Decoders, DecoderStates
  <2> QED
    BY <1>4, <2>2, LeftCases, Constants
<1>5. CASE dec.state = "len_hi"
  <2> DEFINE m == dec.len + 256 * b
  <2>1. CASE ~ ValidHeader(dec.chan, m)
    <3>1. d = Fresh
      BY <1>5, <2>1, Zenon DEF Feed
    <3> QED
      BY <1>0, <3>1, FreshDecoder
  <2>2. CASE ValidHeader(dec.chan, m)
    <3>1. m \in Nat
      BY <1>0, <1>5, Bytes DEF GoodDecoder
    <3>2. m > 0 /\ m <= MaxPayload
      BY <2>2 DEF ValidHeader
    <3>3. d = [[dec EXCEPT !.state = "payload"]
                 EXCEPT !.len = In("payload").len + 256 * b, !.read = 0]
      BY <1>5, <2>2, Zenon DEF Feed, In
    <3>4. In("payload").len = dec.len
      BY <1>0 DEF In, Decoders
    <3>5. d = [[dec EXCEPT !.state = "payload"] EXCEPT !.len = m, !.read = 0]
      BY <3>3, <3>4
    <3> HIDE DEF m
    <3>6. GoodDecoder(d) /\ d.state = "payload" /\ d.len = m /\ d.read = 0
      <4>1. dec \in Decoders
        BY <1>0
      <4>2. PICK k \in Nat : k = m
        BY <3>1
      <4>3. d = [[dec EXCEPT !.state = "payload"] EXCEPT !.len = k, !.read = 0]
        BY <3>5, <4>2
      <4>4. d \in Decoders /\ d.state = "payload" /\ d.len = k /\ d.read = 0
        BY <4>1, <4>3, TakesLength
      <4> QED
        BY <3>2, <4>2, <4>4 DEF GoodDecoder
    <3> QED
      BY <1>5, <3>1, <3>2, <3>6, Bytes, LeftCases, Constants
  <2> QED
    BY <2>1, <2>2
<1>6. CASE dec.state = "payload"
  <2>1. CASE LastByte
    <3>1. d = Fresh
      BY <1>6, <2>1, Zenon DEF Feed
    <3> QED
      BY <1>0, <3>1, FreshDecoder
  <2>2. CASE ~ LastByte
    <3>1. d = [dec EXCEPT !.read = dec.read + 1]
      BY <1>6, <2>2, Zenon DEF Feed
    <3>2. dec.read + 1 < dec.len
      BY <1>0, <2>2 DEF LastByte
    <3>3. GoodDecoder(d) /\ d.state = "payload" /\ d.len = dec.len /\ d.read = dec.read + 1
      BY <1>0, <1>6, <3>1, <3>2 DEF GoodDecoder, Decoders
    <3> QED
      BY <1>0, <1>6, <3>3, LeftCases
  <2> QED
    BY <2>1, <2>2
<1>7. CASE dec.state = "diag"
  <2>1. CASE b = Newline \/ LineIsLong
    <3>1. d = Fresh
      BY <1>7, <2>1, Zenon DEF Feed
    <3> QED
      BY <1>0, <3>1, FreshDecoder
  <2>2. CASE ~ (b = Newline \/ LineIsLong)
    <3>1. d = [dec EXCEPT !.read = dec.read + 1]
      BY <1>7, <2>2, Zenon DEF Feed
    <3>2. dec.read + 1 \in 1..MaxLine
      BY <1>0, <2>2, Constants DEF LineIsLong
    <3>3. GoodDecoder(d) /\ d.state = "diag" /\ d.read = dec.read + 1
      BY <1>0, <1>7, <3>1, <3>2 DEF GoodDecoder, Decoders
    <3> QED
      BY <1>0, <1>7, <3>3, LeftCases, Constants
  <2> QED
    BY <2>1, <2>2
<1> QED
  BY <1>0, <1>1, <1>2, <1>3, <1>4, <1>5, <1>6, <1>7 DEF DecoderStates

(* A decoder that has read the beginning of a frame reads on to its end,   *)
(* and neither stops before it nor goes beyond it.                         *)
LEMMA FollowsFrame ==
  ASSUME GoodDecoder(dec), NEW s \in Seq(AnyByte), Len(s) >= 1, ReadsFrame(dec, s),
         NEW d, d = Feed(Head(s))
  PROVE  IF Len(s) > 1 THEN ReadsFrame(d, Tail(s)) /\ d.exact = dec.exact ELSE Seeks(d)
<1> DEFINE Goal == IF Len(s) > 1 THEN ReadsFrame(d, Tail(s)) /\ d.exact = dec.exact
                   ELSE Seeks(d)
<1>1. /\ Head(s) = s[1] /\ Head(s) \in AnyByte /\ Len(Tail(s)) = Len(s) - 1
      /\ Tail(s) \in Seq(AnyByte)
      /\ \A i \in 1..(Len(s) - 1) : Tail(s)[i] = s[i + 1]
  BY NextByte
<1>2. dec \in Decoders
  BY DEF GoodDecoder
<1>3. ASSUME dec.state = "magic2", FrameFrom(s, 2)
      PROVE  Goal
  <2>1. PICK channel \in {CHAN_TX, CHAN_RX}, n \in 1..MaxPayload : Header(s, 2, channel, n)
    BY <1>3 DEF FrameFrom
  <2>2. Len(s) > 1 /\ Header(Tail(s), 3, channel, n)
    BY <2>1, HeaderShifts
  <2>3. Head(s) = MAGIC2
    BY <1>1, <2>1 DEF Header
  <2>4. d.state = "chan" /\ d.exact = dec.exact
    <3>1. d = [dec EXCEPT !.state = "chan"]
      BY <1>3, <2>3, Zenon DEF Feed, In
    <3> QED
      BY <1>2, <3>1 DEF Decoders
  <2>5. FrameFrom(Tail(s), 3)
    BY <2>2 DEF FrameFrom
  <2> QED
    BY <2>2, <2>4, <2>5, Zenon DEF ReadsFrame
<1>4. ASSUME dec.state = "chan", FrameFrom(s, 3)
      PROVE  Goal
  <2>1. PICK channel \in {CHAN_TX, CHAN_RX}, n \in 1..MaxPayload : Header(s, 3, channel, n)
    BY <1>4 DEF FrameFrom
  <2>2. Len(s) > 1 /\ Header(Tail(s), 4, channel, n)
    BY <2>1, HeaderShifts
  <2>3. Head(s) = channel
    BY <1>1, <2>1 DEF Header
  <2>4. d.state = "len_lo" /\ d.chan = channel /\ d.exact = dec.exact
    <3>1. d = [[dec EXCEPT !.state = "len_lo"] EXCEPT !.chan = channel]
      BY <1>4, <2>3, Zenon DEF Feed, In
    <3> QED
      BY <1>2, <3>1 DEF Decoders
  <2>5. FrameFrom(Tail(s), 4)
    BY <2>2 DEF FrameFrom
  <2> QED
    BY <2>2, <2>4, <2>5, Zenon DEF ReadsFrame
<1>5. ASSUME dec.state = "len_lo", dec.chan \in {CHAN_TX, CHAN_RX}, FrameFrom(s, 4)
      PROVE  Goal
  <2>1. PICK channel \in {CHAN_TX, CHAN_RX}, n \in 1..MaxPayload : Header(s, 4, channel, n)
    BY <1>5 DEF FrameFrom
  <2>2. Len(s) > 1 /\ Header(Tail(s), 5, channel, n)
    BY <2>1, HeaderShifts
  <2>3. Head(s) = n % 256
    BY <1>1, <2>1 DEF Header
  <2>4. d.state = "len_hi" /\ d.chan = dec.chan /\ d.len = n % 256 /\ d.exact = dec.exact
    <3>1. d = [[dec EXCEPT !.state = "len_hi"] EXCEPT !.len = n % 256]
      BY <1>5, <2>3, Zenon DEF Feed, In
    <3> QED
      BY <1>2, <3>1 DEF Decoders
  <2>5. Tail(s)[1] = n \div 256 /\ Len(Tail(s)) = 1 + n
    BY <2>2, Constants DEF Header
  <2> QED
    BY <1>5, <2>2, <2>4, <2>5 DEF ReadsFrame
<1>6. ASSUME dec.state = "len_hi", dec.chan \in {CHAN_TX, CHAN_RX},
             NEW n \in 1..MaxPayload,
             dec.len = n % 256, s[1] = n \div 256, Len(s) = 1 + n
      PROVE  Goal
  <2>1. n \in 1..256 /\ n <= MaxPayload
    BY Constants
  <2>2. dec.len + 256 * Head(s) = n
    BY <1>1, <1>6, <2>1, LengthBytes
  <2>3. ValidHeader(dec.chan, n)
    BY <1>6, <2>1 DEF ValidHeader
  <2>4. d.state = "payload" /\ d.len = n /\ d.read = 0 /\ d.exact = dec.exact
    <3>1. d = [[dec EXCEPT !.state = "payload"]
                 EXCEPT !.len = In("payload").len + 256 * Head(s), !.read = 0]
      BY <1>6, <2>2, <2>3, Zenon DEF Feed, In
    <3>2. In("payload").len = dec.len
      BY <1>2 DEF In, Decoders
    <3>3. d = [[dec EXCEPT !.state = "payload"] EXCEPT !.len = n, !.read = 0]
      BY <2>2, <3>1, <3>2
    <3>4. n \in Nat
      BY <2>1
    <3> QED
      BY ONLY <1>2, <3>3, <3>4, TakesLength
  <2>5. Len(s) > 1 /\ Len(Tail(s)) = d.len - d.read
    BY <1>1, <1>6, <2>1, <2>4
  <2> QED
    BY <2>4, <2>5, Zenon DEF ReadsFrame
<1>7. ASSUME dec.state = "payload", Len(s) = dec.len - dec.read
      PROVE  Goal
  <2>1. LastByte <=> ~ (Len(s) > 1)
    BY <1>2, <1>7 DEF LastByte, Decoders
  <2>2. CASE ~ (Len(s) > 1)
    <3>1. d = Fresh
      BY <1>7, <2>1, <2>2, Zenon DEF Feed
    <3> QED
      BY <2>2, <3>1, FreshDecoder DEF Seeks
  <2>3. CASE Len(s) > 1
    <3>4. ~ LastByte
      BY <2>1, <2>3, Zenon
    <3>1. d = [dec EXCEPT !.read = dec.read + 1]
      BY <1>7, <3>4, Zenon DEF Feed
    <3>2. /\ d.state = "payload" /\ d.len = dec.len /\ d.read = dec.read + 1
          /\ d.exact = dec.exact
      BY <1>2, <1>7, <3>1 DEF Decoders
    <3>3. Len(Tail(s)) = d.len - d.read
      BY <1>1, <1>2, <1>7, <3>2 DEF Decoders
    <3> QED
      <4>1. ReadsFrame(d, Tail(s))
        BY <3>2, <3>3, Zenon DEF ReadsFrame
      <4> QED
        BY <2>3, <3>2, <4>1
  <2> QED
    BY <2>2, <2>3
<1> QED
  BY <1>3, <1>4, <1>5, <1>6, <1>7 DEF ReadsFrame

LEMMA FollowsLine ==
  ASSUME GoodDecoder(dec), NEW s \in Seq(AnyByte), Len(s) >= 1, ReadsLine(dec, s),
         NEW d, d = Feed(Head(s))
  PROVE  IF Len(s) > 1 THEN ReadsLine(d, Tail(s)) ELSE Seeks(d)
<1>1. Head(s) = s[1] /\ Len(Tail(s)) = Len(s) - 1
  BY NextByte
<1>2. dec \in Decoders /\ dec.state = "diag" /\ dec.read \in 1..(LineLength + 1)
  BY Constants DEF GoodDecoder, ReadsLine
<1>3. LineFrom(s, dec.read + 1) /\ Len(s) = LineLength + 2 - dec.read
  BY <1>2, Constants DEF ReadsLine, LineFrom, Decoders
<1>4. CASE ~ (Len(s) > 1)
  <2>1. Head(s) = Newline
    <3>1. Len(s) = 1
      <4>1. PICK n \in Nat : n = Len(s)
        BY LenProperties
      <4>2. n >= 1 /\ ~ (n > 1)
        BY <1>4, <4>1
      <4> QED
        BY <4>1, <4>2
    <3> QED
      BY <1>1, <1>3, <3>1 DEF LineFrom
  <2> QED
    <3>1. d = Fresh
      BY <1>2, <2>1, Zenon DEF Feed
    <3> QED
      BY <1>4, <3>1, FreshDecoder DEF Seeks
<1>5. CASE Len(s) > 1
  <2>1. dec.read \in Nat /\ dec.read >= 1 /\ dec.read <= LineLength
    BY <1>2, <1>3, <1>5, Constants
  <2>2. s[1] = 32
    BY <1>3, <1>5, <2>1 DEF LineFrom
  <2>3. d = [dec EXCEPT !.read = dec.read + 1]
    <3>1. Head(s) # Newline /\ ~ LineIsLong
      BY <1>1, <2>1, <2>2, Constants DEF LineIsLong, Newline
    <3> QED
      BY <1>2, <3>1, Zenon DEF Feed
  <2>4. d.state = "diag" /\ d.read = dec.read + 1
    BY <1>2, <2>3 DEF Decoders
  <2>5. LineFrom(Tail(s), dec.read + 2)
    BY <1>3, <1>5, <2>1, LineShifts
  <2>6. d.read + 1 = dec.read + 2 /\ d.read <= LineLength + 1
    BY <2>1, <2>4, Constants
  <2> QED
    BY <1>5, <2>4, <2>5, <2>6, Zenon DEF ReadsLine
<1> QED
  BY <1>4, <1>5

-----------------------------------------------------------------------------
(* The steps of the reader *)

LEMMA WholePacket ==
  ASSUME NEW w, \E p \in Packets : w = Whole(p)
  PROVE  /\ w.begun = FALSE /\ w.rest \in Seq(AnyByte)
         /\ Len(w.rest) \in 1..LongestPacket
         /\ FrameFrom(w.rest, 1) \/ LineFrom(w.rest, 1)
<1>1. PICK p \in Packets : w = Whole(p)
  OBVIOUS
<1>2. w.begun = FALSE /\ w.rest = p
  BY <1>1 DEF Whole
<1> QED
  BY <1>2, PacketShape

LEMMA MuxInitOK == MuxInit => MuxInv
<1> SUFFICES ASSUME MuxInit PROVE MuxInv
  OBVIOUS
<1>1. WireInv
  BY WholePacket DEF MuxInit, WireInv
<1>2. GoodDecoder(dec) /\ Seeks(dec)
  BY FreshDecoder DEF MuxInit, Seeks
<1>3. StepInv
  BY DEF MuxInit, StepInv
<1>4. PlaceInv
  BY <1>1, <1>2, Constants DEF MuxInit, PlaceInv, WireInv
<1> QED
  BY <1>1, <1>2, <1>3, <1>4 DEF MuxInit, MuxInv

LEMMA ByteKeeps ==
  ASSUME MuxInv, Byte
  PROVE  MuxInv'
<1> DEFINE s == wire.rest
           b == Head(s)
<1>1. /\ port = "open" /\ port' = port /\ device' = device /\ device \in BOOLEAN
      /\ inStep \in BOOLEAN
      /\ GoodDecoder(dec) /\ s \in Seq(AnyByte) /\ Len(s) \in 1..LongestPacket
      /\ dec' = Feed(b)
  BY DEF MuxInv, WireInv, Byte
<1>2. Len(s) \in Nat /\ Len(s) >= 1
  BY <1>1, Constants
<1>3. /\ b = s[1] /\ b \in AnyByte /\ Tail(s) \in Seq(AnyByte)
      /\ Len(Tail(s)) = Len(s) - 1
  BY <1>1, <1>2, NextByte
<1>4. /\ GoodDecoder(dec')
      /\ ~ Seeks(dec) /\ ~ Seeks(dec') => Left(dec') < Left(dec)
  BY <1>1, <1>3, Feeding
<1>5. IF Len(s) > 1 THEN wire' = [rest |-> Tail(s), begun |-> TRUE]
      ELSE \E p \in Packets : wire' = Whole(p)
  BY Zenon DEF Byte
<1>6. /\ wire'.begun \in BOOLEAN /\ (wire'.begun <=> Len(s) > 1)
      /\ wire'.rest \in Seq(AnyByte) /\ Len(wire'.rest) \in 1..LongestPacket
      /\ Len(s) > 1 => wire'.rest = Tail(s) /\ Len(wire'.rest) = Len(s) - 1
      /\ ~ wire'.begun => FrameFrom(wire'.rest, 1) \/ LineFrom(wire'.rest, 1)
  <2>1. CASE Len(s) > 1
    <3>1. wire'.rest = Tail(s) /\ wire'.begun = TRUE
      <4>1. wire' = [rest |-> Tail(s), begun |-> TRUE]
        BY <1>5, <2>1, Zenon
      <4> HIDE DEF s
      <4> QED
        BY <4>1
    <3>2. PICK n \in Nat : n = Len(s)
      BY <1>2
    <3>3. n - 1 \in 1..LongestPacket
      BY <1>1, <2>1, <3>2, Constants
    <3>4. Len(wire'.rest) \in 1..LongestPacket
      <4>1. Len(Tail(s)) = n - 1
        BY <1>3, <3>2
      <4> QED
        BY <3>1, <3>3, <4>1
    <3> QED
      BY <1>3, <2>1, <3>1, <3>4
  <2>2. CASE ~ (Len(s) > 1)
    BY <1>5, <2>2, WholePacket
  <2> QED
    BY <2>1, <2>2
<1>7. /\ inStep' \in BOOLEAN
      /\ inStep' <=> inStep \/ (~ wire'.begun /\ Seeks(dec'))
  BY Zenon DEF Byte, Hunting, Seeks
<1>8. adrift' = IF inStep' \/ (Seeks(dec) /\ ~ Seeks(dec')) THEN 0 ELSE adrift + 1
  BY Zenon DEF Byte, Hunting, Seeks
<1>9. StepInv'
  <2> SUFFICES ASSUME inStep'
               PROVE  \/ ~ wire'.begun /\ Seeks(dec')
                      \/ wire'.begun /\ dec'.exact /\ ReadsFrame(dec', wire'.rest)
                      \/ wire'.begun /\ ReadsLine(dec', wire'.rest)
    BY DEF StepInv
  <2>1. CASE ~ inStep
    BY <1>7, <2>1
  <2>2. CASE inStep /\ wire.begun /\ dec.exact /\ ReadsFrame(dec, s)
    BY <1>1, <1>2, <1>6, <2>2, FollowsFrame
  <2>3. CASE inStep /\ wire.begun /\ ReadsLine(dec, s)
    BY <1>1, <1>2, <1>6, <2>3, FollowsLine
  <2>4. CASE inStep /\ ~ wire.begun /\ Seeks(dec) /\ FrameFrom(s, 1)
    <3>1. PICK channel \in {CHAN_TX, CHAN_RX}, n \in 1..MaxPayload : Header(s, 1, channel, n)
      BY <2>4 DEF FrameFrom
    <3>2. Len(s) > 1 /\ Header(Tail(s), 2, channel, n)
      BY <1>1, <3>1, HeaderShifts
    <3>3. b = MAGIC1
      BY <1>3, <3>1 DEF Header
    <3>4. dec' = Begin
      <4>1. dec.state \in {"magic1", "magic2"} /\ MAGIC1 # MAGIC2
        BY <2>4 DEF Seeks, MAGIC1, MAGIC2
      <4> QED
        BY <1>1, <3>3, <4>1, Zenon DEF Feed
    <3>5. dec'.state = "magic2" /\ dec'.exact
      BY <2>4, <3>4, FreshDecoder
    <3>6. FrameFrom(Tail(s), 2)
      BY <3>2 DEF FrameFrom
    <3>7. ReadsFrame(dec', wire'.rest)
      BY <1>6, <3>2, <3>5, <3>6, Zenon DEF ReadsFrame
    <3> QED
      BY <1>6, <3>2, <3>5, <3>7
  <2>5. CASE inStep /\ ~ wire.begun /\ Seeks(dec) /\ LineFrom(s, 1)
    <3>1. b = Hash /\ Len(s) > 1
      BY <1>3, <2>5, Constants DEF LineFrom
    <3>2. LineFrom(Tail(s), 2)
      BY <1>1, <2>5, <3>1, LineShifts
    <3>3. dec' = ReadLine
      <4>1. /\ dec.state \in {"magic1", "magic2"}
            /\ Hash # MAGIC1 /\ Hash # MAGIC2
        BY <2>5 DEF Seeks, MAGIC1, MAGIC2, Hash
      <4> QED
        BY <1>1, <3>1, <4>1, Zenon DEF Feed
    <3>4. dec'.state = "diag" /\ dec'.read = 1 /\ 1 <= LineLength + 1
      BY <3>3, FreshDecoder, Constants
    <3>5. LineFrom(wire'.rest, dec'.read + 1)
      BY <1>6, <3>1, <3>2, <3>4
    <3> QED
      BY <1>6, <3>1, <3>4, <3>5, Zenon DEF ReadsLine
  <2> QED
    BY <1>1, <1>7, <2>1, <2>2, <2>3, <2>4, <2>5 DEF MuxInv, StepInv, WireInv
<1>10. PlaceInv'
  <2>1. /\ adrift \in Nat
        /\ IF Seeks(dec) THEN adrift + Len(s) <= MostSkipped + LongestPacket
           ELSE adrift + Left(dec) <= MostSkipped
    BY DEF MuxInv, PlaceInv
  <2>2. PICK left \in 0..MostSkipped : left = Left(dec) /\ (left = 0 <=> Seeks(dec))
    BY <1>1, LeftBounds
  <2>3. PICK left2 \in 0..MostSkipped : left2 = Left(dec') /\ (left2 = 0 <=> Seeks(dec'))
    BY <1>4, LeftBounds
  <2>4. PICK n \in 1..LongestPacket : n = Len(s)
    BY <1>1
  <2>5. PICK n2 \in 1..LongestPacket : n2 = Len(wire'.rest)
    BY <1>6
  <2>6. n > 1 => n2 = n - 1
    BY <1>6, <2>4, <2>5
  <2>7. ~ (n > 1) => inStep' \/ ~ Seeks(dec')
    BY <1>6, <1>7, <2>4
  <2>8. /\ adrift' \in Nat /\ (inStep' => adrift' = 0)
        /\ IF Seeks(dec') THEN adrift' + n2 <= MostSkipped + LongestPacket
           ELSE adrift' + left2 <= MostSkipped
    <3>1. PICK m \in Nat : m = MostSkipped
      BY Constants
    <3>2. PICK l \in Nat : l = LongestPacket
      BY Constants
    <3>3. n2 <= l /\ left2 <= m /\ left2 \in Nat /\ n \in Nat /\ n2 \in Nat /\ left \in Nat
      BY <3>1, <3>2
    <3>4. CASE inStep' \/ (Seeks(dec) /\ ~ Seeks(dec'))
      BY <1>8, <3>1, <3>2, <3>3, <3>4
    <3>5. CASE ~ inStep' /\ Seeks(dec) /\ Seeks(dec')
      <4>1. adrift' = adrift + 1 /\ n2 = n - 1
        BY <1>8, <2>6, <2>7, <3>5
      <4>2. adrift + n <= m + l
        BY <2>1, <2>4, <3>1, <3>2, <3>5
      <4>3. adrift' \in Nat /\ adrift' + n2 <= m + l
        BY <2>1, <3>3, <4>1, <4>2
      <4> QED
        BY <3>1, <3>2, <3>5, <4>3
    <3>6. CASE ~ inStep' /\ ~ Seeks(dec)
      <4>1. adrift' = adrift + 1 /\ adrift + left <= m
        BY <1>8, <2>1, <2>2, <3>1, <3>6
      <4>2. left >= 1 /\ left2 < left
        BY <1>4, <2>2, <2>3, <3>3, <3>6
      <4> QED
        BY <2>1, <3>1, <3>2, <3>3, <3>6, <4>1, <4>2
    <3> QED
      BY <3>4, <3>5, <3>6
  <2> QED
    BY <2>3, <2>5, <2>8 DEF PlaceInv
<1> QED
  BY <1>1, <1>4, <1>6, <1>7, <1>9, <1>10 DEF MuxInv, WireInv

(* A connection begins anywhere; what the decoder was reading goes on.     *)
LEMMA OpenKeeps ==
  ASSUME MuxInv, Open
  PROVE  MuxInv'
<1>1. /\ port' = "open" /\ device' = device /\ device \in BOOLEAN
      /\ GoodDecoder(dec) /\ dec' = [dec EXCEPT !.exact = FALSE]
      /\ wire' \in Anywhere
      /\ inStep' = (~ wire'.begun /\ Hunting) /\ adrift' = 0
  BY DEF MuxInv, Open
<1>2. /\ GoodDecoder(dec') /\ (Seeks(dec') <=> Hunting)
  BY <1>1 DEF GoodDecoder, Decoders, Seeks, Hunting
<1>3. /\ wire'.begun \in BOOLEAN /\ wire'.rest \in Seq(AnyByte)
      /\ Len(wire'.rest) \in 1..LongestPacket
      /\ ~ wire'.begun => FrameFrom(wire'.rest, 1) \/ LineFrom(wire'.rest, 1)
  <2>1. CASE \E p \in Packets : wire' = Whole(p)
    BY <2>1, WholePacket
  <2>2. ASSUME NEW p \in Packets, NEW i \in 2..Len(p),
               wire' = [rest |-> SubSeq(p, i, Len(p)), begun |-> TRUE]
        PROVE  wire'.begun = TRUE /\ wire'.rest = SubSeq(p, i, Len(p))
    BY <2>2
  <2>3. CASE \E p \in Packets : \E i \in 2..Len(p) :
               wire' = [rest |-> SubSeq(p, i, Len(p)), begun |-> TRUE]
    BY <2>2, <2>3, SuffixShape
  <2> QED
    BY <1>1, <2>1, <2>3, Zenon DEF Anywhere
<1>4. StepInv'
  BY <1>1, <1>2 DEF StepInv
<1>5. PlaceInv'
  <2>1. Left(dec') \in 0..MostSkipped
    BY <1>2, LeftBounds
  <2>2. PICK n \in 1..LongestPacket : n = Len(wire'.rest)
    BY <1>3
  <2>3. PICK l \in 0..MostSkipped : l = Left(dec')
    BY <2>1
  <2>4. 0 + n <= MostSkipped + LongestPacket /\ 0 + l <= MostSkipped
    BY Constants
  <2> QED
    BY <1>1, <2>2, <2>3, <2>4 DEF PlaceInv
<1>6. inStep' \in BOOLEAN
  BY <1>1, <1>3
<1> QED
  BY <1>1, <1>2, <1>3, <1>4, <1>5, <1>6 DEF MuxInv, WireInv

LEMMA MuxKeeps ==
  ASSUME MuxInv, [MuxNext]_muxVars
  PROVE  MuxInv'
<1>1. CASE Byte
  BY <1>1, ByteKeeps
<1>2. CASE Unplug
  BY <1>2 DEF MuxInv, Unplug, WireInv, StepInv, PlaceInv
<1>3. CASE Plug
  BY <1>3 DEF MuxInv, Plug, WireInv, StepInv, PlaceInv
<1>4. CASE ReadFails
  BY <1>4 DEF MuxInv, ReadFails, WireInv, StepInv, PlaceInv
<1>5. CASE Open
  BY <1>5, OpenKeeps
<1>6. CASE UNCHANGED muxVars
  BY <1>6 DEF MuxInv, muxVars, WireInv, StepInv, PlaceInv
<1> QED
  BY <1>1, <1>2, <1>3, <1>4, <1>5, <1>6 DEF MuxNext

(* The writer and the handlers leave the reading of the port as it is.     *)
LEMMA StepIsMux ==
  ASSUME [Next]_vars
  PROVE  [MuxNext]_muxVars
<1>1. CASE ReaderStep
  BY <1>1, Zenon DEF ReaderStep, MuxNext
<1>2. CASE Refill
  BY <1>2, Zenon DEF Refill
<1>3. ASSUME NEW h \in Handlers, Post(h) \/ HandlerStep(h)
      PROVE  UNCHANGED muxVars
  BY <1>3, Zenon DEF Post, HandlerStep, Put, FoundFull, DropOldest, PutAgain, NoRoom, Accept
<1>4. CASE WriterStep
  BY <1>4, Zenon DEF WriterStep, Get, Discard, Encode, Write
<1>5. CASE UNCHANGED vars
  BY <1>5, Zenon DEF vars
<1> QED
  BY <1>1, <1>2, <1>3, <1>4, <1>5 DEF Next

(* The serial side reads its port the way the decoder alone is specified   *)
(* to: the threads that write to it are no part of what is read.           *)
THEOREM ReadsAsDecoder == Spec => MuxSpec
<1>1. Init => MuxInit
  BY DEF Init
<1>2. [Next]_vars => [MuxNext]_muxVars
  BY StepIsMux
<1> QED
  BY <1>1, <1>2, PTL DEF Spec, MuxSpec

(* What is on the wire, what the decoder has read of it, and how far it    *)
(* may be off, at any time.                                                *)
THEOREM DecoderInvariant == MuxSpec => []MuxInv
<1>1. MuxInit => MuxInv
  BY MuxInitOK
<1>2. MuxInv /\ [MuxNext]_muxVars => MuxInv'
  BY MuxKeeps
<1> QED
  BY <1>1, <1>2, PTL DEF MuxSpec

LEMMA MuxTypes == MuxInv => MuxTypeOK
<1> SUFFICES ASSUME MuxInv PROVE MuxTypeOK
  OBVIOUS
<1>1. /\ port \in {"closed", "open", "broken"} /\ device \in BOOLEAN /\ inStep \in BOOLEAN
      /\ wire.begun \in BOOLEAN /\ Len(wire.rest) \in 1..LongestPacket /\ adrift \in Nat
  BY DEF MuxInv, WireInv, PlaceInv
<1>2. PICK n \in 1..LongestPacket : n = Len(wire.rest)
  BY <1>1
<1>3. n \in 1..(5 + MaxPayload + MaxLine)
  BY Constants
<1>4. /\ dec \in [state : DecoderStates, chan : 0..255, len : Nat, read : Nat, exact : BOOLEAN]
      /\ dec.state = "payload" => dec.read < dec.len /\ dec.len <= MaxPayload
  BY DEF MuxInv, GoodDecoder, Decoders, AnyByte
<1> QED
  BY <1>1, <1>2, <1>3, <1>4, Zenon DEF MuxTypeOK

LEMMA InStep == MuxInv => StaysInStep
<1> SUFFICES ASSUME MuxInv, inStep, port = "open"
             PROVE  /\ ~ wire.begun => Hunting
                    /\ Delivers => dec.exact /\ Len(wire.rest) = 1
  BY DEF StaysInStep
<1>1. Seeks(dec) <=> Hunting
  BY DEF Seeks, Hunting
<1>2. \/ ~ wire.begun /\ Seeks(dec)
      \/ wire.begun /\ dec.exact /\ ReadsFrame(dec, wire.rest)
      \/ wire.begun /\ ReadsLine(dec, wire.rest)
  BY DEF MuxInv, StepInv
<1>3. ASSUME Delivers PROVE dec.exact /\ Len(wire.rest) = 1
  <2>1. dec.state = "payload" /\ dec.read + 1 >= dec.len
    BY <1>3 DEF Delivers, LastByte
  <2>2. dec.exact /\ Len(wire.rest) = dec.len - dec.read
    BY <1>2, <2>1 DEF Seeks, ReadsFrame, ReadsLine
  <2>3. dec.len \in Nat /\ dec.read \in Nat /\ Len(wire.rest) \in 1..LongestPacket
    BY DEF MuxInv, GoodDecoder, Decoders, WireInv
  <2> QED
    BY <2>1, <2>2, <2>3, Constants
<1> QED
  BY <1>1, <1>2, <1>3

LEMMA NotLost == MuxInv => SkipIsBounded
<1> SUFFICES ASSUME MuxInv PROVE SkipIsBounded
  OBVIOUS
<1>1. adrift \in Nat /\ Left(dec) \in 0..MostSkipped /\ Len(wire.rest) \in 1..LongestPacket
  BY LeftBounds DEF MuxInv, PlaceInv, WireInv
<1>2. \/ adrift + Len(wire.rest) <= MostSkipped + LongestPacket
      \/ adrift + Left(dec) <= MostSkipped
  BY DEF MuxInv, PlaceInv
<1>3. PICK n \in Nat, l \in Nat : n = Len(wire.rest) /\ l = Left(dec)
  BY <1>1, Constants
<1>4. adrift <= MostSkipped + LongestPacket
  BY <1>1, <1>2, <1>3, Constants
<1> QED
  BY <1>4, Constants DEF SkipIsBounded

-----------------------------------------------------------------------------
(* The queue *)

LEMMA AgainFinite ==
  /\ IsFiniteSet(Again) /\ Cardinality(Again) \in Nat
  /\ IsFiniteSet(Again') /\ Cardinality(Again') \in Nat
<1>1. Again \subseteq Handlers /\ Again' \subseteq Handlers
  BY DEF Again
<1>2. IsFiniteSet(Again) /\ IsFiniteSet(Again')
  BY <1>1, FS_Subset, ElrsConstantsOK
<1> QED
  BY <1>2, FS_CardinalityType

(* How many are about to put again, after one of them has gone on.         *)
LEMMA AgainMoves ==
  ASSUME QueueInv, NEW h \in Handlers, NEW at, Goto(h, at)
  PROVE  /\ at = "again" /\ handler[h] # "again" => Cardinality(Again') = Cardinality(Again) + 1
         /\ at # "again" /\ handler[h] = "again" => Cardinality(Again') = Cardinality(Again) - 1
         /\ at # "again" /\ handler[h] # "again" => Again' = Again
<1>1. /\ \A u \in Handlers \ {h} : handler'[u] = handler[u]
      /\ handler'[h] = at
  BY DEF QueueInv, Goto
<1>2. at = "again" => Again' = Again \cup {h}
  BY <1>1 DEF Again
<1>3. at # "again" => Again' = Again \ {h}
  BY <1>1 DEF Again
<1>4. h \in Again <=> handler[h] = "again"
  BY DEF Again
<1>5. handler[h] # "again" => Again \ {h} = Again
  BY <1>4
<1>6. h \notin Again => Cardinality(Again \cup {h}) = Cardinality(Again) + 1
  BY FS_AddElement, AgainFinite
<1>7. h \in Again => Cardinality(Again \ {h}) = Cardinality(Again) - 1
  BY FS_RemoveElement, AgainFinite
<1> QED
  BY <1>2, <1>3, <1>4, <1>5, <1>6, <1>7

LEMMA QueueInit == Init => QueueInv /\ OweInv
<1> SUFFICES ASSUME Init PROVE QueueInv /\ OweInv
  OBVIOUS
<1>1. QueueInv
  BY ElrsConstantsOK DEF Init, QueueInv
<1>2. Cardinality(Again) \in Nat
  BY AgainFinite
<1>3. PICK n \in Nat : n = Cardinality(Again)
  BY <1>2
<1> QED
  BY <1>1, <1>3, ElrsConstantsOK DEF Init, OweInv

LEMMA QueueTypes ==
  ASSUME QueueInv, [Next]_vars
  PROVE  QueueInv'
<1> USE ElrsConstantsOK DEF QueueInv
<1>1. CASE ReaderStep
  BY <1>1 DEF ReaderStep, txVars
<1>2. CASE Refill
  BY <1>2 DEF Refill
<1>3. ASSUME NEW h \in Handlers, Post(h) PROVE QueueInv'
  BY <1>3 DEF Post, Goto
<1>4. ASSUME NEW h \in Handlers, Accept(h) PROVE QueueInv'
  BY <1>4 DEF Accept, Goto
<1>5. ASSUME NEW h \in Handlers, FoundFull(h) PROVE QueueInv'
  BY <1>5 DEF FoundFull, Goto
<1>6. ASSUME NEW h \in Handlers, DropOldest(h) PROVE QueueInv'
  BY <1>6 DEF DropOldest, Goto, Pop, AfterDrop
<1>7. ASSUME NEW h \in Handlers, NoRoom(h) PROVE QueueInv'
  BY <1>7 DEF NoRoom, Goto
<1>8. CASE Get
  BY <1>8 DEF Get, Pop
<1>9. CASE Discard \/ Encode \/ Write
  BY <1>9 DEF Discard, Encode, Write
<1>10. CASE UNCHANGED vars
  BY <1>10 DEF vars, txVars
<1> QED
  BY <1>1, <1>2, <1>3, <1>4, <1>5, <1>6, <1>7, <1>8, <1>9, <1>10
  DEF Next, HandlerStep, Put, PutAgain, WriterStep

LEMMA OweKeeps ==
  ASSUME QueueInv, OweInv, [Next]_vars
  PROVE  OweInv'
<1> DEFINE size == Cardinality(Again)
           size2 == Cardinality(Again')
<1>1. /\ owed \in Nat /\ queue \in 0..QueueMax /\ QueueMax \in Nat
      /\ owed <= QueueMax - queue /\ owed <= size
      /\ size \in Nat /\ size2 \in Nat
  BY AgainFinite, ElrsConstantsOK DEF QueueInv, OweInv
<1>2. PICK n \in Nat, n2 \in Nat : n = size /\ n2 = size2
  BY <1>1
<1> DEFINE Owes == owed' <= QueueMax - queue' /\ owed' <= n2
<1>3. SUFFICES Owes
  BY <1>2 DEF OweInv
<1> HIDE DEF size, size2
<1>4. owed <= n
  BY <1>1, <1>2
<1>5. CASE UNCHANGED << handler, queue, owed >>
  <2>1. n2 = n
    BY <1>2, <1>5 DEF Again, size, size2
  <2> QED
    BY <1>1, <1>4, <1>5, <2>1
<1>6. CASE Refill \/ ReaderStep \/ Discard \/ Encode \/ Write \/ UNCHANGED vars
  BY <1>5, <1>6, Zenon DEF Refill, ReaderStep, Discard, Encode, Write, vars, txVars
<1>7. CASE Get
  <2>1. handler' = handler /\ owed' = owed /\ queue > 0 /\ queue' = queue - 1
    BY <1>7 DEF Get, Pop
  <2>2. n2 = n
    BY <1>2, <2>1 DEF Again, size, size2
  <2> QED
    BY <1>1, <1>4, <2>1, <2>2
<1>8. ASSUME NEW h \in Handlers, Post(h) PROVE Owes
  <2>1. /\ owed' = owed /\ queue' = queue /\ handler[h] = "idle" /\ Goto(h, "put")
    BY <1>8 DEF Post
  <2>2. n2 = n
    BY <1>2, <2>1, AgainMoves DEF size, size2
  <2> QED
    BY <1>1, <1>4, <2>1, <2>2
<1>9. ASSUME NEW h \in Handlers, Accept(h), handler[h] \in {"put", "again"} PROVE Owes
  <2>1. /\ queue < QueueMax /\ queue' = queue + 1 /\ Goto(h, "idle")
        /\ owed' = IF owed > 0 THEN owed - 1 ELSE 0
    BY <1>9 DEF Accept
  <2>2. n2 = n \/ n2 = n - 1
    BY <1>2, <1>9, <2>1, AgainMoves DEF size, size2
  <2> QED
    BY <1>1, <1>4, <2>1, <2>2
<1>10. ASSUME NEW h \in Handlers, FoundFull(h) PROVE Owes
  <2>1. /\ owed' = owed /\ queue' = queue /\ handler[h] = "put" /\ Goto(h, "full")
    BY <1>10 DEF FoundFull
  <2>2. n2 = n
    BY <1>2, <2>1, AgainMoves DEF size, size2
  <2> QED
    BY <1>1, <1>4, <2>1, <2>2
<1>11. ASSUME NEW h \in Handlers, DropOldest(h) PROVE Owes
  <2>1. /\ handler[h] = "full" /\ Goto(h, "again")
        /\ \/ queue > 0 /\ queue' = queue - 1 /\ owed' = owed + 1
           \/ queue' = queue /\ owed' = owed
    BY <1>11 DEF DropOldest, Pop, AfterDrop
  <2>2. n2 = n + 1
    BY <1>2, <2>1, AgainMoves DEF size, size2
  <2> QED
    BY <1>1, <1>4, <2>1, <2>2
<1>12. ASSUME NEW h \in Handlers, NoRoom(h) PROVE Owes
  <2>1. /\ owed' = owed /\ queue' = queue /\ queue = QueueMax
    BY <1>12 DEF NoRoom
  <2>2. owed = 0
    BY <1>1, <2>1
  <2> QED
    BY <1>1, <2>1, <2>2
<1>13. ASSUME NEW h \in Handlers, Put(h) \/ PutAgain(h) PROVE Owes
  BY <1>9, <1>13 DEF Put, PutAgain
<1> QED
  BY <1>6, <1>7, <1>8, <1>10, <1>11, <1>12, <1>13 DEF Next, HandlerStep, WriterStep

-----------------------------------------------------------------------------
(* The service *)

(* The decoder, the wire, the queue and the threads keep their types, and  *)
(* a frame being read never outgrows the buffer, for payloads, lines and   *)
(* queues of any size.                                                     *)
THEOREM TypeCorrect == Spec => []TypeOK
<1>1. Init => QueueInv
  BY QueueInit
<1>2. QueueInv /\ [Next]_vars => QueueInv'
  BY QueueTypes
<1>3. QueueInv /\ MuxInv => TypeOK
  BY MuxTypes DEF QueueInv, TypeOK
<1> QED
  BY <1>1, <1>2, <1>3, ReadsAsDecoder, DecoderInvariant, PTL DEF Spec

(* A decoder in step stays in step whatever payloads and lines contain,    *)
(* and every frame it delivers is one the firmware sent, to the last byte. *)
THEOREM KeepsInStep == Spec => []StaysInStep
BY InStep, ReadsAsDecoder, DecoderInvariant, PTL

(* From a broken connection, and from every byte a decoder out of step     *)
(* takes for the beginning of something: within the longest packet it can  *)
(* take for begun and the longest that can follow it has its place again,  *)
(* or takes another byte for a beginning.                                  *)
THEOREM BoundedSkip == Spec => []SkipIsBounded
BY NotLost, ReadsAsDecoder, DecoderInvariant, PTL

(* Each frame dropped from a full queue has made room for a newer one that *)
(* was accepted, or a handler is still about to put one, however many HTTP *)
(* threads and however the writer runs between their steps.                *)
THEOREM DropsMakeRoom == Spec => []NoneDroppedForNothing
<1>1. Init => QueueInv /\ OweInv
  BY QueueInit
<1>2. QueueInv /\ OweInv /\ [Next]_vars => QueueInv' /\ OweInv'
  BY QueueTypes, OweKeeps
<1>3. OweInv => NoneDroppedForNothing
  BY DEF OweInv, NoneDroppedForNothing, Again
<1> QED
  BY <1>1, <1>2, <1>3, PTL DEF Spec
================================================================================
