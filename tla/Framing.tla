------------------------------- MODULE Framing -------------------------------
(***************************************************************************)
(* The transport codecs (src/core/transport.cpp): packets in frames on a   *)
(* byte stream. The stream is modelled in units: the fields that precede a *)
(* payload are one unit, which carries the length they announce, and a     *)
(* payload is a sequence of units. A unit knows which packet it is from    *)
(* and its place in it; place 0 is the header. A unit of a payload that    *)
(* the decoder takes for a header announces some other length.             *)
(***************************************************************************)
EXTENDS Naturals, Sequences

CONSTANTS WordSize   \* units in a word of the abridged framing (4 bytes)

ASSUME WordAssumption == WordSize \in Nat \ {0}

Protocol == {"Abridged", "Intermediate", "PaddedIntermediate", "Full"}

(* The abridged framing counts words, rounded up, but writes no padding.   *)
Announced(protocol, n) ==
  IF protocol = "Abridged"
    THEN ((n + WordSize - 1) \div WordSize) * WordSize
    ELSE n

(* encode_packet: packet p of n units, the seq-th of its direction. Only   *)
(* the full framing sends seq and a checksum.                              *)
Frame(protocol, p, n, seq) ==
  [k \in 1 .. n + 1 |->
     [packet |-> p, place |-> k - 1, size |-> n, seq |-> seq,
      length |-> Announced(protocol, n)]]

Payload(frame) == Tail(frame)

(* The checksum of the full framing matches.                               *)
Intact(header, payload) ==
  /\ Len(payload) = header.size
  /\ \A k \in DOMAIN payload : payload[k] = [header EXCEPT !.place = k]

(* decode_packets on a buffer; other is the length read from a unit that   *)
(* is no header, 0 standing for one the full framing rejects. When it      *)
(* throws, the packets decoded so far are gone and the buffer is as it was.*)
(* Its loop, at offset o: from tells what it does at later offsets.        *)
DecodeAt(protocol, buffer, other, from, o) ==
  LET header  == buffer[o + 1]
      length  == IF header.place = 0 THEN header.length ELSE other
      next    == o + 1 + length
      payload == SubSeq(buffer, o + 2, next)
      stop(t) == [packets |-> <<>>, offset |-> o, threw |-> t]
  IN IF o = Len(buffer) THEN stop(FALSE)
     ELSE IF protocol = "Full" /\ header.place # 0 /\ other = 0 THEN stop(TRUE)
     ELSE IF next > Len(buffer) THEN stop(FALSE)
     ELSE IF protocol = "Full" /\ (header.place # 0 \/ ~Intact(header, payload))
       THEN stop(TRUE)
     ELSE [from[next] EXCEPT !.packets = <<payload>> \o @]

Decode(protocol, buffer, other) ==
  LET from[o \in 0 .. Len(buffer)] == DecodeAt(protocol, buffer, other, from, o)
  IN from[0]
=============================================================================
