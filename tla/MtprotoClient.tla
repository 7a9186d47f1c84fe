---------------------------- MODULE MtprotoClient ----------------------------
(***************************************************************************)
(* MtprotoClient (src/core/mtproto_client.cpp) with its TcpConnection      *)
(* (src/core/network.cpp), its codec (Framing) and its Session. One thread *)
(* uses the client; the server and the network decide what connects, how   *)
(* the stream is cut into chunks, and when a send fails half way.          *)
(***************************************************************************)
EXTENDS Session, Framing

CONSTANTS Dc,            \* datacenters DatacenterManager knows
          UnknownDc,     \* an identifier it does not know
          MaxConnects,   \* bound: calls of connect
          MaxMessages,   \* bound: identifiers taken by the session
          MaxPackets,    \* bound: packets on a connection, in both directions
          MaxReceives    \* bound: calls of receive_response per connection

ASSUME DcAssumption == UnknownDc \notin Dc

VARIABLES
  socket,          \* the datacenter the socket is connected to, or UnknownDc
  rx_buffer,       \* rx_buffer_
  codec,           \* buffer_ and out_seq_no_ of codec_
  active_dc,       \* active_dc_id_
  active_protocol, \* active_protocol_
  pc,              \* where receive_packet is
  incoming,        \* external: what the network has not delivered
  served,          \* history: the payloads the server sent on this connection
  received,        \* history: the payloads receive_response returned
  wire,            \* history: what the client wrote on this connection
  outbox,          \* history: the packets it meant to write
  tidy,            \* history: every decode so far found exactly one packet
  torn,            \* history: a send failed half way on this connection
  calls            \* bound: connects in all, receives on this connection

connectionVars == <<socket, rx_buffer, codec, active_dc, active_protocol>>
inVars  == <<pc, incoming, served, received, tidy>>
outVars == <<wire, outbox, torn>>
vars == <<sessionVars, connectionVars, inVars, outVars, calls>>

Unit == [packet : Nat, place : Nat, size : Nat, seq : Nat, length : Nat]
Connected == socket # UnknownDc

TypeOK ==
  /\ SessionTypeOK
  /\ socket \in Dc \cup {UnknownDc}
  /\ rx_buffer \in Seq(Unit)
  /\ codec \in [buffer : Seq(Unit), out_seq_no : Nat]
  /\ active_dc \in Dc
  /\ active_protocol \in Protocol
  /\ pc \in {"idle", "decode", "poll"}
  /\ incoming \in Seq(Unit)
  /\ served \in Seq(Seq(Unit))
  /\ received \in Seq(Seq(Unit))
  /\ wire \in Seq(Unit)
  /\ outbox \in Seq(Seq(Unit))
  /\ tidy \in BOOLEAN
  /\ torn \in BOOLEAN
  /\ calls \in [{"connect", "receive"} -> Nat]

NewCodec == [buffer |-> <<>>, out_seq_no |-> 0]

Init ==
  /\ SessionInit
  /\ socket = UnknownDc
  /\ rx_buffer = <<>>
  /\ codec = NewCodec
  /\ active_dc \in Dc
  /\ active_protocol = "Intermediate"
  /\ pc = "idle"
  /\ incoming = <<>>
  /\ served = <<>>
  /\ received = <<>>
  /\ wire = <<>>
  /\ outbox = <<>>
  /\ tidy = TRUE
  /\ torn = FALSE
  /\ calls = [connect |-> 0, receive |-> 0]

-----------------------------------------------------------------------------
(* Bug: the bytes received before stay in rx_buffer_. *)
DisconnectedKeepingBytes(s) ==
  /\ socket' = s
  /\ UNCHANGED rx_buffer
  /\ codec' = NewCodec
  /\ incoming' = <<>>
  /\ served' = <<>>
  /\ received' = <<>>
  /\ tidy' = TRUE
  /\ wire' = <<>>
  /\ outbox' = <<>>
  /\ torn' = FALSE

(* disconnect closes the socket and clears both buffers; with the socket   *)
(* goes what was under way on it.                                          *)
Disconnected(s) ==
  /\ socket' = s
  /\ rx_buffer' = <<>>
  /\ codec' = NewCodec
  /\ incoming' = <<>>
  /\ served' = <<>>
  /\ received' = <<>>
  /\ tidy' = TRUE
  /\ wire' = <<>>
  /\ outbox' = <<>>
  /\ torn' = FALSE

Disconnect ==
  /\ pc = "idle"
  /\ Disconnected(UnknownDc)
  /\ UNCHANGED <<sessionVars, active_dc, active_protocol, pc, calls>>

(* Bug: the datacenter is remembered before it is looked up. *)
ConnectUnchecked(dc, protocol) ==
  /\ pc = "idle"
  /\ calls.connect < MaxConnects
  /\ \E s \in {UnknownDc, dc} : Disconnected(s)
  /\ active_dc' = dc
  /\ active_protocol' = IF dc \in Dc THEN protocol ELSE active_protocol
  /\ calls' = [connect |-> calls.connect + 1, receive |-> 0]
  /\ UNCHANGED <<sessionVars, pc>>

(* Bug: connect remembers the datacenter only when it changes protocol. *)
ConnectForgettingDc(dc, protocol) ==
  /\ pc = "idle"
  /\ calls.connect < MaxConnects
  /\ \E s \in {UnknownDc, dc} : Disconnected(s)
  /\ active_dc' = IF dc \in Dc /\ protocol # active_protocol THEN dc ELSE active_dc
  /\ active_protocol' = IF dc \in Dc THEN protocol ELSE active_protocol
  /\ calls' = [connect |-> calls.connect + 1, receive |-> 0]
  /\ UNCHANGED <<sessionVars, pc>>

(* The datacenter and the protocol are set before the socket is tried: the *)
(* connection, or the header that announces the framing, may still fail.   *)
Connect(dc, protocol) ==
  /\ pc = "idle"
  /\ calls.connect < MaxConnects
  /\ \E s \in {UnknownDc, dc} : Disconnected(s)
  /\ active_dc' = IF dc \in Dc THEN dc ELSE active_dc
  /\ active_protocol' = IF dc \in Dc THEN protocol ELSE active_protocol
  /\ calls' = [connect |-> calls.connect + 1, receive |-> 0]
  /\ UNCHANGED <<sessionVars, pc>>

-----------------------------------------------------------------------------
(* Bug: the codec does not count the packet. *)
WriteUncounted(n) ==
  LET frame == Frame(active_protocol, Len(outbox), n, codec.out_seq_no)
  IN /\ codec' = codec
     /\ outbox' = Append(outbox, Payload(frame))
     /\ \E k \in 0 .. Len(frame) :
          /\ wire' = wire \o SubSeq(frame, 1, k)
          /\ torn' = (torn \/ k < Len(frame))

(* send_packet: the codec counts the packet, then send_bytes writes the    *)
(* frame, or a part of it; a failed send does not close the socket.        *)
Write(n) ==
  LET frame == Frame(active_protocol, Len(outbox), n, codec.out_seq_no)
  IN /\ codec' = IF active_protocol = "Full"
                   THEN [codec EXCEPT !.out_seq_no = @ + 1] ELSE codec
     /\ outbox' = Append(outbox, Payload(frame))
     /\ \E k \in 0 .. Len(frame) :
          /\ wire' = wire \o SubSeq(frame, 1, k)
          /\ torn' = (torn \/ k < Len(frame))

(* A packet is a whole number of words if it is encrypted.                 *)
PayloadSize(encrypted) == IF encrypted THEN {WordSize} ELSE {WordSize, WordSize + 1}

MayTransmit == Len(outbox) + Len(served) < MaxPackets

Sending ==
  /\ pc = "idle"
  /\ Connected
  /\ Len(packed) < MaxMessages
  /\ MayTransmit

SendUnencrypted(t) ==
  /\ Sending
  /\ PackUnencrypted(t)
  /\ \E n \in PayloadSize(FALSE) : Write(n)
  /\ UNCHANGED <<socket, rx_buffer, active_dc, active_protocol, inVars, calls>>

SendEncrypted(t, content) ==
  /\ Sending
  /\ PackEncrypted(t, content)
  /\ \E n \in PayloadSize(TRUE) : Write(n)
  /\ UNCHANGED <<socket, rx_buffer, active_dc, active_protocol, inVars, calls>>

(* ping takes an identifier of its own, then one for the message. Without  *)
(* a connection or a key only the first is taken.                          *)
Ping(t) ==
  /\ pc = "idle"
  /\ last_msg_id < 4 * MaxMessages
  /\ Connected /\ auth_key => Sending
  /\ IF Connected /\ auth_key
       THEN /\ \E t2 \in Clock :
                 LET id == IF 4 * t2 <= MsgId(t) THEN MsgId(t) + 4 ELSE 4 * t2
                 IN /\ last_msg_id' = id
                    /\ packed' = Append(packed, [id |-> id, seq |-> SeqNo(FALSE),
                                                 content |-> FALSE, encrypted |-> TRUE])
            /\ UNCHANGED <<auth_key, content_seq_no>>
            /\ \E n \in PayloadSize(TRUE) : Write(n)
       ELSE /\ GenerateMsgId(t)
            /\ UNCHANGED <<codec, outVars>>
  /\ UNCHANGED <<socket, rx_buffer, active_dc, active_protocol, inVars, calls>>

SetKey ==
  /\ pc = "idle"
  /\ SetAuthKey
  /\ UNCHANGED <<connectionVars, inVars, outVars, calls>>

-----------------------------------------------------------------------------
(* The server and receive_packet                                           *)

Serve ==
  /\ Connected
  /\ MayTransmit
  /\ LET frame == Frame(active_protocol, Len(served), WordSize, Len(served))
     IN /\ incoming' = incoming \o frame
        /\ served' = Append(served, Payload(frame))
  /\ UNCHANGED <<sessionVars, connectionVars, pc, received, tidy, outVars, calls>>

Receive ==
  /\ pc = "idle"
  /\ Connected
  /\ calls.receive < MaxReceives
  /\ calls' = [calls EXCEPT !.receive = @ + 1]
  /\ pc' = IF rx_buffer = <<>> THEN "poll" ELSE "decode"
  /\ UNCHANGED <<sessionVars, connectionVars, incoming, served, received, tidy,
                 outVars>>

(* The whole of rx_buffer_ is given to the codec, which appends it to what *)
(* it has kept; the first packet is returned and rx_buffer_ is cleared.    *)
DecodeBuffer(other) ==
  /\ pc = "decode"
  /\ LET buffer == codec.buffer \o rx_buffer
         result == Decode(active_protocol, buffer, other)
     IN IF result.threw
          THEN /\ codec' = [codec EXCEPT !.buffer = buffer]
               /\ pc' = "idle"
               /\ tidy' = FALSE
               /\ UNCHANGED <<rx_buffer, received>>
          ELSE /\ codec' = [codec EXCEPT !.buffer =
                              SubSeq(buffer, result.offset + 1, Len(buffer))]
               /\ tidy' = (tidy /\ Len(result.packets) = 1)
               /\ IF result.packets = <<>>
                    THEN pc' = "poll" /\ UNCHANGED <<rx_buffer, received>>
                    ELSE /\ pc' = "idle"
                         /\ rx_buffer' = <<>>
                         /\ received' = Append(received, Head(result.packets))
  /\ UNCHANGED <<sessionVars, socket, active_dc, active_protocol, incoming,
                 served, outVars, calls>>

(* Bug: the last unit of a chunk is read again with the next. *)
PollChunkOverlapping ==
  /\ pc = "poll"
  /\ incoming # <<>>
  /\ \E n \in 1 .. Len(incoming) :
       /\ rx_buffer' = rx_buffer \o SubSeq(incoming, 1, n)
       /\ incoming' = SubSeq(incoming, n, Len(incoming))
  /\ pc' = "decode"
  /\ UNCHANGED <<sessionVars, socket, codec, active_dc, active_protocol, served,
                 received, tidy, outVars, calls>>

(* receive_bytes returns what has arrived.                                 *)
PollChunk ==
  /\ pc = "poll"
  /\ incoming # <<>>
  /\ \E n \in 1 .. Len(incoming) :
       /\ rx_buffer' = rx_buffer \o SubSeq(incoming, 1, n)
       /\ incoming' = SubSeq(incoming, n + 1, Len(incoming))
  /\ pc' = "decode"
  /\ UNCHANGED <<sessionVars, socket, codec, active_dc, active_protocol, served,
                 received, tidy, outVars, calls>>

(* The time is up, or the peer has closed: an empty packet is returned and *)
(* the socket stays open.                                                  *)
PollNothing ==
  /\ pc = "poll"
  /\ pc' = "idle"
  /\ UNCHANGED <<sessionVars, connectionVars, incoming, served, received, tidy,
                 outVars, calls>>

-----------------------------------------------------------------------------
Next ==
  \/ Disconnect
  \/ \E dc \in Dc \cup {UnknownDc}, protocol \in Protocol : Connect(dc, protocol)
  \/ \E t \in Clock : SendUnencrypted(t) \/ Ping(t)
  \/ \E t \in Clock, content \in BOOLEAN : SendEncrypted(t, content)
  \/ SetKey
  \/ Serve
  \/ Receive
  \/ \E other \in {0, 2 * WordSize} : DecodeBuffer(other)
  \/ PollChunk
  \/ PollNothing

Spec == Init /\ [][Next]_vars

-----------------------------------------------------------------------------
IsPrefixOf(s, t) == Len(s) <= Len(t) /\ s = SubSeq(t, 1, Len(s))

(* The buffers hold nothing that this connection's server did not send.    *)
NoStaleBytes ==
  \A u \in {rx_buffer[k] : k \in DOMAIN rx_buffer}
           \cup {codec.buffer[k] : k \in DOMAIN codec.buffer} :
    u.packet < Len(served) /\ u.length = Announced(active_protocol, WordSize)

(* receive_response returns the server's packets in order, unchanged and   *)
(* none twice, across reconnections, as long as every chunk completed      *)
(* exactly one packet; and whatever was received before, the buffers hold  *)
(* no byte of an earlier connection.                                       *)
ReceivedIntact == (tidy => IsPrefixOf(received, served)) /\ NoStaleBytes

(* While connected, the client reports the datacenter the socket is        *)
(* connected to, whatever attempts failed in between.                      *)
ActiveDcIsServed == Connected => active_dc = socket

WellFramed ==
  LET result == Decode(active_protocol, wire, 0)
  IN /\ result.packets = outbox
     /\ result.offset = Len(wire)
     /\ active_protocol = "Full" =>
          \A k \in DOMAIN wire : wire[k].seq = wire[k].packet

(* What the client wrote decodes to what it sent, numbered from zero on    *)
(* each connection, unless a send failed half way or a packet of the       *)
(* abridged framing was no whole number of words: README.md:329-335 frames *)
(* five bytes with it, but the length is rounded up and nothing is padded. *)
SentWellFramed ==
  \/ torn
  \/ active_protocol = "Abridged" /\ \E i \in DOMAIN outbox : Len(outbox[i]) % WordSize # 0
  \/ WellFramed

(* Both streams of bytes keep the packets apart.                           *)
StreamsIntact == ReceivedIntact /\ SentWellFramed

-----------------------------------------------------------------------------
(* What the comments say, and the code does not do.                        *)

(* transport.hpp:47, decode_packets: "Feeds incoming stream chunk and      *)
(* extracts all fully received raw MTProto payloads": every packet served  *)
(* is returned once, in order.                                             *)
ReceivedInOrder == IsPrefixOf(received, served)

(* README.md:329-335 encodes five bytes with the abridged codec and        *)
(* decodes what that returned: what was sent decodes, whatever its length. *)
SentIsDecoded == torn \/ WellFramed
=============================================================================
