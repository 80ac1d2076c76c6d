------------------------------- MODULE MuxDecoder -------------------------------
(***************************************************************************)
(* Reading the serial port of elrs_telemetry: the firmware interleaves     *)
(* frames of two channels and diagnostic lines on one byte stream, and     *)
(* mux.MuxDecoder takes them apart again, byte by byte.  The USB device    *)
(* may be unplugged in the middle of a packet; the reader opens the port   *)
(* anew and goes on with the decoder it has, at whatever byte the firmware *)
(* is sending then.                                                        *)
(*                                                                         *)
(* A payload is a sequence of PayloadBytes; which bytes it has matters     *)
(* only to a decoder that has lost its place.  Counters of /stats and the  *)
(* CRSF frames inside the payload are left out.                            *)
(***************************************************************************)
EXTENDS Integers, Sequences

CONSTANTS
  MaxPayload,    (* MAX_PAYLOAD, 256 in the code                           *)
  MaxLine,       (* longest diagnostic line kept, 512 in the code          *)
  PayloadBytes,  (* bytes a payload is made of                             *)
  LineLength     (* characters of a diagnostic line the firmware sends     *)

ASSUME MuxConstantsOK ==
  /\ MaxPayload \in 1..256
  /\ MaxLine \in Nat \ {0}
  /\ PayloadBytes \subseteq 0..255 /\ PayloadBytes # {}
  /\ LineLength \in 0..(MaxLine - 1)

VARIABLES
  port,    (* the serial port: closed, open, or broken by an unplug        *)
  device,  (* the USB device is there                                      *)
  wire,    (* what is left of the packet the firmware sends                *)
  dec,     (* the decoder                                                  *)
  inStep,  (* history: the decoder knows where packets begin               *)
  adrift   (* history: bytes it has been out of step for, since it last    *)
           (* took something for a beginning                               *)

muxVars == << port, device, wire, dec, inStep, adrift >>

MAGIC1 == 254
MAGIC2 == 202
Hash == 35
Newline == 10
CHAN_TX == 1
CHAN_RX == 2

-----------------------------------------------------------------------------
(* Packets of the firmware *)

Payloads == UNION {[1..n -> PayloadBytes] : n \in 1..MaxPayload}

(* The header and the payload, as encode() makes them too.                 *)
Frame(channel, payload) ==
  << MAGIC1, MAGIC2, channel, Len(payload) % 256, Len(payload) \div 256 >> \o payload

Line == << Hash >> \o [i \in 1..LineLength |-> 32] \o << Newline >>

Packets ==
  {Frame(c, p) : c \in {CHAN_TX, CHAN_RX}, p \in Payloads} \cup {Line}

Whole(packet) == [rest |-> packet, begun |-> FALSE]

(* MuxDecoder.__init__; what is left of an earlier packet is not told      *)
(* apart from it.                                                          *)
Fresh == [state |-> "magic1", chan |-> 0, len |-> 0, read |-> 0, exact |-> FALSE]

MuxInit ==
  /\ port = "closed"
  /\ device \in BOOLEAN
  /\ wire \in {Whole(p) : p \in Packets}
  /\ dec = Fresh
  /\ inStep = FALSE
  /\ adrift = 0

-----------------------------------------------------------------------------
(* The decoder *)

In(state) == [dec EXCEPT !.state = state]

(* A frame begins with this byte: really, if the firmware begins one here. *)
Begin == [Fresh EXCEPT !.state = "magic2", !.exact = ~ wire.begun]

ReadLine == [Fresh EXCEPT !.state = "diag", !.read = 1]

\* Mutant: any length is taken.
ValidHeader_AnyLength(channel, len) == channel \in {CHAN_TX, CHAN_RX} /\ len > 0

ValidHeader(channel, len) ==
  channel \in {CHAN_TX, CHAN_RX} /\ len > 0 /\ len <= MaxPayload

\* Mutant: one byte too few is read.
LastByte_Early == dec.read + 1 >= dec.len - 1

LastByte == dec.read + 1 >= dec.len

Delivers == dec.state = "payload" /\ LastByte

\* Mutant: a line goes on until its end comes.
LineIsLong_Never == FALSE

LineIsLong == dec.read >= MaxLine

(* _feed_byte                                                              *)
Feed(b) ==
  CASE dec.state = "magic1" ->
         IF b = MAGIC1 THEN Begin ELSE IF b = Hash THEN ReadLine ELSE dec
    [] dec.state = "magic2" ->
         IF b = MAGIC2 THEN In("chan")
         ELSE IF b = MAGIC1 THEN Begin
         ELSE IF b = Hash THEN ReadLine ELSE Fresh
    [] dec.state = "chan"   -> [In("len_lo") EXCEPT !.chan = b]
    [] dec.state = "len_lo" -> [In("len_hi") EXCEPT !.len = b]
    [] dec.state = "len_hi" ->
         IF ValidHeader(dec.chan, dec.len + 256 * b)
         THEN [In("payload") EXCEPT !.len = @ + 256 * b, !.read = 0]
         ELSE Fresh
    [] dec.state = "payload" ->
         IF LastByte THEN Fresh ELSE [dec EXCEPT !.read = @ + 1]
    [] dec.state = "diag"   ->
         IF b = Newline \/ LineIsLong THEN Fresh ELSE [dec EXCEPT !.read = @ + 1]

(* The decoder is about to look for a packet.                              *)
Hunting == dec.state \in {"magic1", "magic2"}

(* One byte arrives.  After the last one the firmware begins a new packet. *)
Byte ==
  /\ port = "open"
  /\ LET b == Head(wire.rest) IN
       /\ dec' = Feed(b)
       /\ IF Len(wire.rest) > 1
          THEN wire' = [rest |-> Tail(wire.rest), begun |-> TRUE]
          ELSE wire' \in {Whole(p) : p \in Packets}
       /\ inStep' = (inStep \/ (~ wire'.begun /\ Hunting'))
       /\ adrift' = IF inStep' \/ (Hunting /\ ~ Hunting') THEN 0 ELSE adrift + 1
  /\ UNCHANGED << port, device >>

-----------------------------------------------------------------------------
(* The port *)

(* The suffixes of packets: where a new connection may begin.              *)
Anywhere ==
  {Whole(p) : p \in Packets}
    \cup UNION {{[rest |-> SubSeq(p, i, Len(p)), begun |-> TRUE] : i \in 2..Len(p)} :
                  p \in Packets}

Unplug ==
  /\ device
  /\ device' = FALSE
  /\ port' = IF port = "open" THEN "broken" ELSE port
  /\ UNCHANGED << wire, dec, inStep, adrift >>

Plug ==
  /\ ~ device
  /\ device' = TRUE
  /\ UNCHANGED << port, wire, dec, inStep, adrift >>

(* read() raises; the handle is given up.                                  *)
ReadFails ==
  /\ port = "broken"
  /\ port' = "closed"
  /\ UNCHANGED << device, wire, dec, inStep, adrift >>

(* After the backoff the port is opened.  The decoder stays what it was,   *)
(* and a frame it was reading goes on with bytes of the new connection.    *)
Open ==
  /\ port = "closed"
  /\ device
  /\ port' = "open"
  /\ wire' \in Anywhere
  /\ dec' = [dec EXCEPT !.exact = FALSE]
  /\ inStep' = (~ wire'.begun /\ Hunting)
  /\ adrift' = 0
  /\ UNCHANGED device

MuxNext == Byte \/ Unplug \/ Plug \/ ReadFails \/ Open

MuxSpec == MuxInit /\ [][MuxNext]_muxVars

-----------------------------------------------------------------------------
(* Properties *)

DecoderStates == {"magic1", "magic2", "chan", "len_lo", "len_hi", "payload", "diag"}

(* Every variable keeps its type; a frame stays within the buffer.         *)
MuxTypeOK ==
  /\ port \in {"closed", "open", "broken"}
  /\ device \in BOOLEAN
  /\ wire.begun \in BOOLEAN /\ Len(wire.rest) \in 1..(5 + MaxPayload + MaxLine)
  /\ dec \in [state : DecoderStates, chan : 0..255, len : Nat, read : Nat,
              exact : BOOLEAN]
  /\ dec.state = "payload" => dec.read < dec.len /\ dec.len <= MaxPayload
  /\ inStep \in BOOLEAN
  /\ adrift \in Nat

(* A decoder in step stays in step whatever the payloads contain - magic   *)
(* bytes and '#' included - and every frame it delivers then is a frame    *)
(* the firmware sent, from its first byte to its last.                     *)
StaysInStep ==
  inStep /\ port = "open" =>
    /\ ~ wire.begun => Hunting
    /\ Delivers => dec.exact /\ Len(wire.rest) = 1

(* A decoder that lost its place - a connection broke in a header, in a    *)
(* payload or in a line - does not stay in one packet or one line for      *)
(* ever: within the longest packet it can take for begun and the longest   *)
(* that can follow it has its place again, or takes another byte for the   *)
(* beginning of something.  How often it is misled so depends on what the  *)
(* payloads hold, and has no bound.                                        *)
Longer(m, n) == IF m > n THEN m ELSE n

LongestSkip == Longer(3 + MaxPayload, MaxLine) + Longer(5 + MaxPayload, LineLength + 2)

SkipIsBounded == adrift <= LongestSkip
================================================================================
