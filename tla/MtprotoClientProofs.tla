------------------------- MODULE MtprotoClientProofs -------------------------
(***************************************************************************)
(* Proofs about MtprotoClient for any clock, any datacenters, any size of  *)
(* a word and any number of messages and packets: the numbers a session    *)
(* gives its messages, the datacenter the client reports, and the packets  *)
(* of its two streams. What decode_packets returns is defined by recursion *)
(* over the buffer; its lemmas are proved by induction on the offset.      *)
(***************************************************************************)
EXTENDS MtprotoClient, SequenceTheorems, WellFoundedInduction, TLAPS

(* What the next message has to exceed: every identifier given so far is   *)
(* at most last_msg_id, a multiple of four, and every sequence number at   *)
(* most twice the messages that count, less than that if it counts itself. *)
Bounded ==
  /\ last_msg_id % 4 = 0
  /\ \A i \in DOMAIN packed :
       /\ packed[i].id <= last_msg_id
       /\ packed[i].seq <= 2 * content_seq_no
       /\ packed[i].encrypted /\ packed[i].content =>
            packed[i].seq < 2 * content_seq_no

NumbersInv == SessionTypeOK /\ Bounded /\ NumbersFollow

-----------------------------------------------------------------------------
(* generate_msg_id: whatever the time, the next identifier is greater than *)
(* the last one and a multiple of four.                                    *)
LEMMA NextMsgId ==
  ASSUME NEW last \in Nat, last % 4 = 0, NEW t \in Clock
  PROVE  LET id == IF 4 * t <= last THEN last + 4 ELSE 4 * t
         IN id \in Nat /\ id > last /\ id % 4 = 0
<1>1. t \in Nat
  BY ClockAssumption
<1>2. (last + 4) % 4 = 0 /\ (4 * t) % 4 = 0
  BY <1>1
<1> QED
  BY <1>1, <1>2

(* Packing a message under a new identifier keeps the numbers in order.    *)
LEMMA PackKeepsOrder ==
  ASSUME NumbersInv,
         NEW m \in Message,
         m.id > last_msg_id, m.id % 4 = 0,
         m.seq = IF m.encrypted THEN SeqNo(m.content) ELSE 0,
         m.content => m.encrypted,
         auth_key' \in BOOLEAN,
         last_msg_id' = m.id,
         content_seq_no' = IF m.content THEN content_seq_no + 1 ELSE content_seq_no,
         packed' = Append(packed, m)
  PROVE  NumbersInv'
<1> DEFINE n == Len(packed)
<1>1. /\ packed \in Seq(Message) /\ last_msg_id \in Nat /\ content_seq_no \in Nat
      /\ n \in Nat /\ DOMAIN packed = 1 .. n
      /\ \A i \in 1 .. n : packed[i] \in Message
  BY DEF NumbersInv, SessionTypeOK
<1>2. /\ m.id \in Nat /\ m.seq \in Nat /\ m.content \in BOOLEAN /\ m.encrypted \in BOOLEAN
      /\ \A i \in 1 .. n : /\ packed[i].id \in Nat /\ packed[i].seq \in Nat
                           /\ packed[i].content \in BOOLEAN
                           /\ packed[i].encrypted \in BOOLEAN
  BY <1>1 DEF Message
<1>3. /\ packed' \in Seq(Message)
      /\ DOMAIN packed' = 1 .. n + 1
      /\ packed'[n + 1] = m
      /\ \A i \in 1 .. n : packed'[i] = packed[i]
  BY <1>1
<1>4. /\ content_seq_no' \in Nat
      /\ content_seq_no' >= content_seq_no
      /\ m.content => content_seq_no' = content_seq_no + 1
  BY <1>1, <1>2
<1>5. /\ m.encrypted => m.seq % 2 = (IF m.content THEN 1 ELSE 0)
      /\ m.seq <= 2 * content_seq_no'
      /\ m.content => m.seq < 2 * content_seq_no'
      /\ m.encrypted => m.seq >= 2 * content_seq_no
  <2>1. (2 * content_seq_no) % 2 = 0 /\ (2 * content_seq_no + 1) % 2 = 1
    BY <1>1
  <2>2. CASE m.encrypted /\ m.content
    BY <1>1, <1>2, <1>4, <2>1, <2>2 DEF SeqNo
  <2>3. CASE m.encrypted /\ ~m.content
    BY <1>1, <1>2, <1>4, <2>1, <2>3 DEF SeqNo
  <2>4. CASE ~m.encrypted
    BY <1>1, <1>2, <1>4, <2>4
  <2> QED
    BY <1>2, <2>2, <2>3, <2>4
<1>6. SessionTypeOK'
  BY <1>2, <1>3, <1>4 DEF SessionTypeOK
<1>7. Bounded'
  <2>1. last_msg_id' % 4 = 0
    OBVIOUS
  <2>2. ASSUME NEW i \in 1 .. n + 1
        PROVE  /\ packed'[i].id <= last_msg_id'
               /\ packed'[i].seq <= 2 * content_seq_no'
               /\ packed'[i].encrypted /\ packed'[i].content =>
                    packed'[i].seq < 2 * content_seq_no'
    <3>1. CASE i = n + 1
      BY <1>2, <1>3, <1>5, <3>1
    <3>2. CASE i \in 1 .. n
      BY <1>1, <1>2, <1>3, <1>4, <3>2 DEF NumbersInv, Bounded
    <3> QED
      BY <1>1, <3>1, <3>2
  <2> QED
    BY <1>3, <2>1, <2>2 DEF Bounded
<1>8. NumbersFollow'
  <2>1. ASSUME NEW i \in 1 .. n + 1
        PROVE  /\ packed'[i].id % 4 = 0
               /\ packed'[i].encrypted =>
                    packed'[i].seq % 2 = (IF packed'[i].content THEN 1 ELSE 0)
    <3>1. CASE i = n + 1
      BY <1>3, <1>5, <3>1
    <3>2. CASE i \in 1 .. n
      BY <1>1, <1>3, <3>2 DEF NumbersInv, NumbersFollow
    <3> QED
      BY <1>1, <3>1, <3>2
  <2>2. ASSUME NEW i \in 1 .. n + 1, NEW j \in 1 .. n + 1, i < j
        PROVE  /\ packed'[i].id < packed'[j].id
               /\ packed'[i].encrypted /\ packed'[j].encrypted =>
                    IF packed'[i].content THEN packed'[i].seq < packed'[j].seq
                                          ELSE packed'[i].seq <= packed'[j].seq
    <3>1. i \in 1 .. n
      BY <1>1, <2>2
    <3>2. CASE j = n + 1
      <4>1. /\ packed[i].id <= last_msg_id
            /\ packed[i].seq <= 2 * content_seq_no
            /\ packed[i].encrypted /\ packed[i].content =>
                 packed[i].seq < 2 * content_seq_no
        BY <1>1, <3>1 DEF NumbersInv, Bounded
      <4> QED
        BY <1>1, <1>2, <1>3, <1>5, <3>1, <3>2, <4>1
    <3>3. CASE j \in 1 .. n
      BY <1>1, <1>3, <2>2, <3>1, <3>3 DEF NumbersInv, NumbersFollow
    <3> QED
      BY <1>1, <3>2, <3>3
  <2> QED
    BY <1>3, <2>1, <2>2 DEF NumbersFollow
<1> QED
  BY <1>6, <1>7, <1>8 DEF NumbersInv

(* An identifier that no message carries only moves the bound.             *)
LEMMA IdKeepsOrder ==
  ASSUME NumbersInv,
         last_msg_id' \in Nat, last_msg_id' >= last_msg_id, last_msg_id' % 4 = 0,
         auth_key' \in BOOLEAN, UNCHANGED <<content_seq_no, packed>>
  PROVE  NumbersInv'
<1>1. SessionTypeOK'
  BY DEF NumbersInv, SessionTypeOK
<1>2. NumbersFollow'
  BY DEF NumbersInv, NumbersFollow
<1>3. Bounded'
  <2>1. ASSUME NEW i \in DOMAIN packed
        PROVE  packed[i].id <= last_msg_id'
    <3>1. packed \in Seq(Message) /\ last_msg_id \in Nat
      BY DEF NumbersInv, SessionTypeOK
    <3>2. packed[i] \in Message
      BY <3>1
    <3>3. packed[i].id \in Nat /\ packed[i].id <= last_msg_id
      BY <3>2 DEF Message, NumbersInv, Bounded
    <3> QED
      BY <3>1, <3>3
  <2>2. packed' = packed /\ content_seq_no' = content_seq_no /\ Bounded
    BY DEF NumbersInv
  <2> QED
    BY <2>1, <2>2 DEF Bounded
<1> QED
  BY <1>1, <1>2, <1>3 DEF NumbersInv

-----------------------------------------------------------------------------
LEMMA InitNumbers == Init => NumbersInv
<1> SUFFICES ASSUME Init PROVE NumbersInv
  OBVIOUS
<1>1. packed = <<>> /\ last_msg_id = 0 /\ content_seq_no = 0 /\ auth_key = FALSE
  BY DEF Init, SessionInit
<1>2. packed \in Seq(Message) /\ DOMAIN packed = {} /\ 0 % 4 = 0
  BY <1>1
<1> QED
  BY <1>1, <1>2 DEF NumbersInv, SessionTypeOK, Bounded, NumbersFollow

(* pack_unencrypted_message and pack_encrypted_message.                    *)
LEMMA PackUnencryptedNumbers ==
  ASSUME NumbersInv, NEW t \in Clock, PackUnencrypted(t)
  PROVE  NumbersInv'
<1> DEFINE m == [id |-> MsgId(t), seq |-> 0, content |-> FALSE, encrypted |-> FALSE]
<1>1. last_msg_id \in Nat /\ last_msg_id % 4 = 0 /\ auth_key' \in BOOLEAN
  BY DEF NumbersInv, SessionTypeOK, Bounded, PackUnencrypted
<1>2. MsgId(t) \in Nat /\ MsgId(t) > last_msg_id /\ MsgId(t) % 4 = 0
  BY <1>1, NextMsgId DEF MsgId
<1>3. m \in Message
  BY <1>2 DEF Message
<1>4. last_msg_id' = m.id /\ packed' = Append(packed, m) /\ content_seq_no' = content_seq_no
  BY DEF PackUnencrypted
<1> HIDE DEF m
<1>5. m.id > last_msg_id /\ m.id % 4 = 0 /\ m.seq = 0 /\ ~m.content /\ ~m.encrypted
  BY <1>2 DEF m
<1> QED
  BY <1>1, <1>3, <1>4, <1>5, PackKeepsOrder

LEMMA PackEncryptedNumbers ==
  ASSUME NumbersInv, NEW id \in Nat, id > last_msg_id, id % 4 = 0,
         NEW content \in BOOLEAN,
         UNCHANGED auth_key,
         last_msg_id' = id,
         content_seq_no' = IF content THEN content_seq_no + 1 ELSE content_seq_no,
         packed' = Append(packed, [id |-> id, seq |-> SeqNo(content),
                                   content |-> content, encrypted |-> TRUE])
  PROVE  NumbersInv'
<1> DEFINE m == [id |-> id, seq |-> SeqNo(content), content |-> content,
                 encrypted |-> TRUE]
<1>1. content_seq_no \in Nat /\ auth_key' \in BOOLEAN
  BY DEF NumbersInv, SessionTypeOK
<1>2. m \in Message
  BY <1>1 DEF Message, SeqNo
<1>3. m.id = id /\ m.seq = SeqNo(m.content) /\ m.content = content /\ m.encrypted
  OBVIOUS
<1>4. packed' = Append(packed, m)
  OBVIOUS
<1> HIDE DEF m
<1> QED
  BY <1>1, <1>2, <1>3, <1>4, PackKeepsOrder

LEMMA NextNumbers == NumbersInv /\ [Next]_vars => NumbersInv'
<1> SUFFICES ASSUME NumbersInv, [Next]_vars PROVE NumbersInv'
  OBVIOUS
<1>1. last_msg_id \in Nat /\ last_msg_id % 4 = 0 /\ auth_key \in BOOLEAN
  BY DEF NumbersInv, SessionTypeOK, Bounded
<1>2. ASSUME UNCHANGED sessionVars PROVE NumbersInv'
  BY <1>1, <1>2, IdKeepsOrder DEF sessionVars
<1>3. CASE Disconnect
  BY <1>2, <1>3 DEF Disconnect
<1>4. ASSUME NEW dc \in Dc \cup {UnknownDc}, NEW protocol \in Protocol,
             Connect(dc, protocol)
      PROVE  NumbersInv'
  BY <1>2, <1>4 DEF Connect
<1>5. ASSUME NEW t \in Clock, SendUnencrypted(t) PROVE NumbersInv'
  BY <1>5, PackUnencryptedNumbers DEF SendUnencrypted
<1>6. ASSUME NEW t \in Clock, NEW content \in BOOLEAN, SendEncrypted(t, content)
      PROVE  NumbersInv'
  <2>1. MsgId(t) \in Nat /\ MsgId(t) > last_msg_id /\ MsgId(t) % 4 = 0
    BY <1>1, NextMsgId DEF MsgId
  <2> QED
    BY <1>6, <2>1, PackEncryptedNumbers DEF SendEncrypted, PackEncrypted
<1>7. ASSUME NEW t \in Clock, Ping(t) PROVE NumbersInv'
  <2>1. MsgId(t) \in Nat /\ MsgId(t) > last_msg_id /\ MsgId(t) % 4 = 0
    BY <1>1, NextMsgId DEF MsgId
  <2>2. CASE Connected /\ auth_key
    <3>1. PICK t2 \in Clock :
            LET id == IF 4 * t2 <= MsgId(t) THEN MsgId(t) + 4 ELSE 4 * t2
            IN /\ last_msg_id' = id
               /\ packed' = Append(packed, [id |-> id, seq |-> SeqNo(FALSE),
                                            content |-> FALSE, encrypted |-> TRUE])
      BY <1>7, <2>2 DEF Ping
    <3> DEFINE id == IF 4 * t2 <= MsgId(t) THEN MsgId(t) + 4 ELSE 4 * t2
    <3>2. id \in Nat /\ id > MsgId(t) /\ id % 4 = 0
      BY <2>1, NextMsgId
    <3>3. /\ last_msg_id' = id /\ UNCHANGED <<auth_key, content_seq_no>>
          /\ packed' = Append(packed, [id |-> id, seq |-> SeqNo(FALSE),
                                       content |-> FALSE, encrypted |-> TRUE])
      BY <1>7, <2>2, <3>1 DEF Ping
    <3> HIDE DEF id
    <3>4. id > last_msg_id
      BY <1>1, <2>1, <3>2
    <3> QED
      BY <3>2, <3>3, <3>4, PackEncryptedNumbers
  <2>3. CASE ~(Connected /\ auth_key)
    <3>1. GenerateMsgId(t)
      BY <1>7, <2>3 DEF Ping
    <3>2. last_msg_id' = MsgId(t) /\ UNCHANGED <<auth_key, content_seq_no, packed>>
      BY <3>1 DEF GenerateMsgId
    <3>3. last_msg_id' \in Nat /\ last_msg_id' >= last_msg_id /\ last_msg_id' % 4 = 0
      BY <1>1, <2>1, <3>2
    <3> QED
      BY <1>1, <3>2, <3>3, IdKeepsOrder
  <2> QED
    BY <2>2, <2>3
<1>8. CASE SetKey
  BY <1>1, <1>8, IdKeepsOrder DEF SetKey, SetAuthKey
<1>9. CASE Serve
  BY <1>2, <1>9 DEF Serve
<1>10. CASE Receive
  BY <1>2, <1>10 DEF Receive
<1>11. ASSUME NEW other \in {0, 2 * WordSize}, DecodeBuffer(other) PROVE NumbersInv'
  BY <1>2, <1>11 DEF DecodeBuffer
<1>12. CASE PollChunk
  BY <1>2, <1>12 DEF PollChunk
<1>13. CASE PollNothing
  BY <1>2, <1>13 DEF PollNothing
<1>14. CASE UNCHANGED vars
  BY <1>2, <1>14 DEF vars
<1> QED
  BY <1>3, <1>4, <1>5, <1>6, <1>7, <1>8, <1>9, <1>10, <1>11, <1>12, <1>13, <1>14
  DEF Next

(* Message identifiers of a session grow, whatever the clock does and      *)
(* however often the client reconnects, and sequence numbers follow them.  *)
THEOREM NumbersAlwaysFollow == Spec => []NumbersFollow
<1>1. NumbersInv => NumbersFollow
  BY DEF NumbersInv
<1> QED
  BY <1>1, InitNumbers, NextNumbers, PTL DEF Spec

-----------------------------------------------------------------------------
DcInv == ActiveDcIsServed /\ socket \in Dc \cup {UnknownDc}

LEMMA NextDc == DcInv /\ [Next]_vars => DcInv'
<1> SUFFICES ASSUME DcInv, [Next]_vars PROVE DcInv'
  OBVIOUS
<1> USE DEF DcInv, ActiveDcIsServed, Connected
<1>1. ASSUME UNCHANGED <<socket, active_dc>> PROVE DcInv'
  BY <1>1
<1>2. CASE Disconnect
  BY <1>2 DEF Disconnect, Disconnected
<1>3. ASSUME NEW dc \in Dc \cup {UnknownDc}, NEW protocol \in Protocol,
             Connect(dc, protocol)
      PROVE  DcInv'
  <2>1. socket' \in {UnknownDc, dc} /\ active_dc' = IF dc \in Dc THEN dc ELSE active_dc
    BY <1>3 DEF Connect, Disconnected
  <2> QED
    BY <2>1
<1>4. ASSUME NEW t \in Clock, SendUnencrypted(t) \/ Ping(t) PROVE DcInv'
  BY <1>1, <1>4 DEF SendUnencrypted, Ping
<1>5. ASSUME NEW t \in Clock, NEW content \in BOOLEAN, SendEncrypted(t, content)
      PROVE  DcInv'
  BY <1>1, <1>5 DEF SendEncrypted
<1>6. CASE SetKey
  BY <1>1, <1>6 DEF SetKey, connectionVars
<1>7. CASE Serve
  BY <1>1, <1>7 DEF Serve, connectionVars
<1>8. CASE Receive
  BY <1>1, <1>8 DEF Receive, connectionVars
<1>9. ASSUME NEW other \in {0, 2 * WordSize}, DecodeBuffer(other) PROVE DcInv'
  BY <1>1, <1>9 DEF DecodeBuffer
<1>10. CASE PollChunk
  BY <1>1, <1>10 DEF PollChunk
<1>11. CASE PollNothing
  BY <1>1, <1>11 DEF PollNothing, connectionVars
<1>12. CASE UNCHANGED vars
  BY <1>1, <1>12 DEF vars, connectionVars
<1> QED
  BY <1>2, <1>3, <1>4, <1>5, <1>6, <1>7, <1>8, <1>9, <1>10, <1>11, <1>12 DEF Next

(* A connected client reports the datacenter its socket is connected to,   *)
(* although connect stores it before it tries and may fail afterwards.     *)
THEOREM ActiveDcAlwaysServed == Spec => []ActiveDcIsServed
<1>1. Init => DcInv
  BY DEF Init, DcInv, ActiveDcIsServed, Connected
<1>2. DcInv => ActiveDcIsServed
  BY DEF DcInv
<1> QED
  BY <1>1, <1>2, NextDc, PTL DEF Spec

-----------------------------------------------------------------------------
(* Induction on the natural numbers, without an operator parameter: a set  *)
(* of them that is not empty has a least one.                              *)
LEMMA LeastNumber ==
  ASSUME NEW U \in SUBSET Nat, U # {}
  PROVE  \E x \in U : \A y \in U : x <= y
<1>1. IsWellFoundedOn(OpToRel(<, Nat), Nat)
  BY NatLessThanWellFounded
<1>2. PICK x \in U : \A y \in U : <<y, x>> \notin OpToRel(<, Nat)
  BY <1>1, WFMin
<1>3. \A y \in U : ~(y < x)
  BY <1>2 DEF OpToRel
<1> QED
  BY <1>3

(* A set that has every o up to L once it has those above o has them all.  *)
LEMMA Downward ==
  ASSUME NEW L \in Nat, NEW T,
         \A o \in 0 .. L : o + 1 .. L \subseteq T => o \in T
  PROVE  0 .. L \subseteq T
<1> SUFFICES ASSUME NEW o \in 0 .. L, o \notin T PROVE FALSE
  OBVIOUS
<1> DEFINE U == {k \in Nat : k <= L /\ L - k \notin T}
<1>1. L - o \in U
  OBVIOUS
<1>2. PICK k \in U : \A y \in U : k <= y
  <2>1. U \in SUBSET Nat /\ U # {}
    BY <1>1
  <2> HIDE DEF U
  <2> QED
    BY <2>1, LeastNumber
<1>3. L - k \in 0 .. L /\ L - k \notin T
  BY <1>2
<1>4. ASSUME NEW m \in (L - k) + 1 .. L PROVE m \in T
  <2>1. L - m \in Nat /\ L - m < k /\ L - (L - m) = m
    BY <1>2, <1>4
  <2> QED
    BY <1>2, <2>1
<1> QED
  BY <1>3, <1>4

(* Quotient and remainder exist and are unique.                            *)
LEMMA Division ==
  ASSUME NEW d \in Nat \ {0}, NEW n \in Nat
  PROVE  /\ n \div d \in Nat /\ n % d \in 0 .. d - 1
         /\ n = (n \div d) * d + (n % d)
  OBVIOUS

LEMMA DivisionUnique ==
  ASSUME NEW d \in Nat \ {0}, NEW k \in Nat, NEW j \in 0 .. d - 1
  PROVE  (k * d + j) \div d = k /\ (k * d + j) % d = j
<1> DEFINE n == k * d + j
           q == n \div d
           r == n % d
<1>1. n \in Nat
  OBVIOUS
<1>1a. q \in Nat /\ r \in 0 .. d - 1 /\ n = q * d + r
  <2> HIDE DEF n
  <2> QED
    BY <1>1, Division
<1> HIDE DEF q, r
<1>2. ASSUME NEW a \in Nat, NEW b \in Nat, a < b PROVE b * d >= a * d + d
  BY <1>2
<1>3. q = k
  BY <1>1, <1>1a, <1>2
<1>4. r = j
  BY <1>1, <1>1a, <1>3
<1> QED
  BY <1>3, <1>4 DEF q, r

-----------------------------------------------------------------------------
(* What the loop of decode_packets returns from offset o on.               *)
Result(buffer, o) == [packets : Seq(Seq(Unit)), offset : o .. Len(buffer), threw : BOOLEAN]

(* The function that Decode defines by recursion.                          *)
IsLoop(from, protocol, buffer, other) ==
  from = [o \in 0 .. Len(buffer) |-> DecodeAt(protocol, buffer, other, from, o)]

(* The loop at an offset looks only at the offsets above it, ...           *)
LEMMA LooksAhead ==
  ASSUME NEW protocol, NEW buffer \in Seq(Unit), NEW other \in Nat,
         NEW o \in 0 .. Len(buffer), NEW f, NEW g,
         \A m \in o + 1 .. Len(buffer) : f[m] = g[m]
  PROVE  DecodeAt(protocol, buffer, other, f, o) = DecodeAt(protocol, buffer, other, g, o)
<1>1. CASE o = Len(buffer)
  BY <1>1 DEF DecodeAt
<1>2. CASE o < Len(buffer)
  <2> DEFINE length == IF buffer[o + 1].place = 0 THEN buffer[o + 1].length ELSE other
             next == o + 1 + length
  <2>1. buffer[o + 1] \in Unit
    BY <1>2
  <2>2. length \in Nat
    BY <2>1 DEF Unit
  <2>3. next > Len(buffer) \/ f[next] = g[next]
    BY <1>2, <2>2
  <2> QED
    BY <2>3 DEF DecodeAt
<1> QED
  BY <1>1, <1>2

(* ... so that the recursion defines a function, ...                       *)
LEMMA LoopExists ==
  ASSUME NEW protocol, NEW buffer \in Seq(Unit), NEW other \in Nat
  PROVE  \E f : IsLoop(f, protocol, buffer, other)
<1> DEFINE L == Len(buffer)
           At(f, o) == DecodeAt(protocol, buffer, other, f, o)
           T == {o \in 0 .. L : \E f : f = [m \in o .. L |-> At(f, m)]}
<1>1. L \in Nat
  OBVIOUS
<1>2. ASSUME NEW o \in 0 .. L, o + 1 .. L \subseteq T PROVE o \in T
  <2>1. PICK f : f = [m \in o + 1 .. L |-> At(f, m)]
    <3>1. CASE o = L
      <4> DEFINE f == [m \in o + 1 .. L |-> 0]
      <4>1. o + 1 .. L = {}
        BY <3>1
      <4>2. f = [m \in o + 1 .. L |-> At(f, m)]
        BY <4>1
      <4> QED
        BY <4>2
    <3>2. CASE o < L
      <4>1. o + 1 \in T
        BY <1>2, <3>2
      <4> QED
        BY <4>1
    <3> QED
      BY <3>1, <3>2
  <2> DEFINE g == [m \in o .. L |-> IF m = o THEN At(f, o) ELSE f[m]]
  <2> HIDE DEF At
  <2>2. \A m \in o + 1 .. L : g[m] = f[m]
    BY <1>1
  <2>3. ASSUME NEW m \in o .. L PROVE At(g, m) = At(f, m)
    BY <1>1, <2>2, LooksAhead DEF At
  <2>4. ASSUME NEW m \in o .. L PROVE g[m] = At(g, m)
    <3>1. CASE m = o
      BY <1>1, <2>3, <3>1
    <3>2. CASE m # o
      <4>1. m \in o + 1 .. L
        BY <1>1, <3>2
      <4>2. f[m] = At(f, m)
        BY <2>1, <4>1
      <4> QED
        BY <2>2, <2>3, <4>1, <4>2
    <3> QED
      BY <3>1, <3>2
  <2>5. g = [m \in o .. L |-> At(g, m)]
    BY <2>4
  <2> QED
    BY <2>5
<1>3. 0 .. L \subseteq T
  <2> HIDE DEF T, L
  <2> QED
    BY <1>1, <1>2, Downward
<1>4. 0 \in T
  BY <1>1, <1>3
<1> QED
  BY <1>4 DEF IsLoop

(* ... and Decode is its value at the start of the buffer.                 *)
LEMMA DecodeIsLoop ==
  ASSUME NEW protocol, NEW buffer \in Seq(Unit), NEW other \in Nat
  PROVE  \E f : /\ IsLoop(f, protocol, buffer, other)
                /\ Decode(protocol, buffer, other) = f[0]
<1> DEFINE f == CHOOSE f : IsLoop(f, protocol, buffer, other)
<1>1. IsLoop(f, protocol, buffer, other)
  BY LoopExists
<1>2. Decode(protocol, buffer, other) = f[0]
  BY DEF Decode, IsLoop
<1> QED
  BY <1>1, <1>2

-----------------------------------------------------------------------------
(* What the loop finds at an offset before the end.                        *)
Header(buffer, o) == buffer[o + 1]
LengthAt(buffer, other, o) ==
  IF Header(buffer, o).place = 0 THEN Header(buffer, o).length ELSE other
NextOffset(buffer, other, o) == o + 1 + LengthAt(buffer, other, o)
PayloadAt(buffer, other, o) == SubSeq(buffer, o + 2, NextOffset(buffer, other, o))
Decodes(protocol, buffer, other, o) ==
  /\ o < Len(buffer)
  /\ NextOffset(buffer, other, o) <= Len(buffer)
  /\ protocol = "Full" => /\ Header(buffer, o).place = 0
                          /\ Intact(Header(buffer, o), PayloadAt(buffer, other, o))

LEMMA NextOffsetIsLater ==
  ASSUME NEW buffer \in Seq(Unit), NEW other \in Nat,
         NEW o \in 0 .. Len(buffer), o < Len(buffer)
  PROVE  NextOffset(buffer, other, o) \in Nat /\ NextOffset(buffer, other, o) > o
<1>1. Header(buffer, o) \in Unit
  BY DEF Header
<1>2. LengthAt(buffer, other, o) \in Nat
  BY <1>1 DEF LengthAt, Unit
<1> QED
  BY <1>2 DEF NextOffset

(* Where a packet is complete, the loop takes it and goes on behind it ... *)
LEMMA LoopGoesOn ==
  ASSUME NEW protocol, NEW buffer \in Seq(Unit), NEW other \in Nat,
         NEW f, IsLoop(f, protocol, buffer, other), NEW o \in 0 .. Len(buffer),
         Decodes(protocol, buffer, other, o),
         f[NextOffset(buffer, other, o)] \in Result(buffer, NextOffset(buffer, other, o))
  PROVE  LET rest == f[NextOffset(buffer, other, o)] IN
         f[o] = [packets |-> <<PayloadAt(buffer, other, o)>> \o rest.packets,
                 offset  |-> rest.offset,
                 threw   |-> rest.threw]
<1>1. f[o] = DecodeAt(protocol, buffer, other, f, o)
  BY DEF IsLoop
<1>2. o # Len(buffer) /\ ~(NextOffset(buffer, other, o) > Len(buffer))
  BY NextOffsetIsLater DEF Decodes
<1>3. ~(protocol = "Full" /\ (Header(buffer, o).place # 0
                             \/ ~Intact(Header(buffer, o), PayloadAt(buffer, other, o))))
  BY DEF Decodes
<1> DEFINE rest == f[NextOffset(buffer, other, o)]
           payload == PayloadAt(buffer, other, o)
           packets == <<payload>> \o rest.packets
<1>4. f[o] = [rest EXCEPT !.packets = packets]
  BY <1>1, <1>2, <1>3 DEF DecodeAt, Header, LengthAt, NextOffset, PayloadAt
<1>5. rest \in [packets : Seq(Seq(Unit)), offset : NextOffset(buffer, other, o) .. Len(buffer),
               threw : BOOLEAN]
  BY DEF Result
<1>6. [rest EXCEPT !.packets = packets] =
        [packets |-> packets, offset |-> rest.offset, threw |-> rest.threw]
  <2> HIDE DEF rest, packets
  <2> QED
    BY <1>5
<1> QED
  BY <1>4, <1>6

(* ... and elsewhere it stops, and consumes nothing more.                  *)
LEMMA LoopStops ==
  ASSUME NEW protocol, NEW buffer \in Seq(Unit), NEW other \in Nat,
         NEW f, IsLoop(f, protocol, buffer, other), NEW o \in 0 .. Len(buffer),
         ~Decodes(protocol, buffer, other, o)
  PROVE  /\ f[o] \in Result(buffer, o)
         /\ f[o].packets = <<>>
         /\ f[o].offset = o
<1>1. f[o] = DecodeAt(protocol, buffer, other, f, o)
  BY DEF IsLoop
<1>2. \/ o = Len(buffer)
      \/ NextOffset(buffer, other, o) > Len(buffer)
      \/ protocol = "Full" /\ (Header(buffer, o).place # 0
                              \/ ~Intact(Header(buffer, o), PayloadAt(buffer, other, o)))
  BY NextOffsetIsLater DEF Decodes
<1>3. \/ f[o] = [packets |-> <<>>, offset |-> o, threw |-> TRUE]
      \/ f[o] = [packets |-> <<>>, offset |-> o, threw |-> FALSE]
  BY <1>1, <1>2 DEF DecodeAt, Header, LengthAt, NextOffset, PayloadAt
<1>4. CASE f[o] = [packets |-> <<>>, offset |-> o, threw |-> TRUE]
  <2>1. f[o] \in Result(buffer, o)
    BY <1>4 DEF Result
  <2> QED
    BY <1>4, <2>1
<1>5. CASE f[o] = [packets |-> <<>>, offset |-> o, threw |-> FALSE]
  <2>1. f[o] \in Result(buffer, o)
    BY <1>5 DEF Result
  <2> QED
    BY <1>5, <2>1
<1> QED
  BY <1>3, <1>4, <1>5

(* A loop that finds no packet consumes nothing.                           *)
StopsAt(f, buffer, o) ==
  /\ f[o] \in Result(buffer, o)
  /\ f[o].packets = <<>> => f[o].offset = o

LEMMA LoopType ==
  ASSUME NEW protocol, NEW buffer \in Seq(Unit), NEW other \in Nat,
         NEW f, IsLoop(f, protocol, buffer, other)
  PROVE  \A o \in 0 .. Len(buffer) : StopsAt(f, buffer, o)
<1> USE DEF StopsAt
<1> DEFINE L == Len(buffer)
           Good(o) == StopsAt(f, buffer, o)
           T == {o \in 0 .. L : Good(o)}
<1>1. L \in Nat
  OBVIOUS
<1>2. ASSUME NEW o \in 0 .. L, o + 1 .. L \subseteq T PROVE Good(o)
  <2>1. CASE ~Decodes(protocol, buffer, other, o)
    BY <2>1, LoopStops
  <2>2. CASE Decodes(protocol, buffer, other, o)
    <3> DEFINE next == NextOffset(buffer, other, o)
               payload == PayloadAt(buffer, other, o)
    <3>1. next \in o + 1 .. L
      BY <1>1, <2>2, NextOffsetIsLater DEF Decodes
    <3>2. f[next] \in Result(buffer, next)
      BY <1>2, <3>1
    <3>3. payload \in Seq(Unit)
      BY <1>1, <3>1 DEF PayloadAt
    <3>4. f[o] = [packets |-> <<payload>> \o f[next].packets,
                  offset |-> f[next].offset, threw |-> f[next].threw]
      BY <2>2, <3>2, LoopGoesOn
    <3> HIDE DEF payload, next, L
    <3>5. /\ <<payload>> \o f[next].packets \in Seq(Seq(Unit))
          /\ <<payload>> \o f[next].packets # <<>>
      BY <3>2, <3>3 DEF Result
    <3>6. f[next].offset \in o .. L /\ f[next].threw \in BOOLEAN
      BY <1>1, <3>1, <3>2 DEF Result, L
    <3> QED
      BY <3>4, <3>5, <3>6 DEF Result, L
  <2> QED
    BY <2>1, <2>2
<1>3. 0 .. L \subseteq T
  <2>1. \A o \in 0 .. L : o + 1 .. L \subseteq T => o \in T
    BY <1>2
  <2> HIDE DEF T, L
  <2> QED
    BY <1>1, <2>1, Downward
<1> QED
  BY <1>3

(* One packet of the loop, and the rest of it.                             *)
Steps(f, buffer, other, o) ==
  LET next == NextOffset(buffer, other, o)
  IN /\ next \in o + 1 .. Len(buffer)
     /\ f[next] \in Result(buffer, next)
     /\ f[o].packets = <<PayloadAt(buffer, other, o)>> \o f[next].packets
     /\ f[o].offset = f[next].offset

LEMMA LoopSteps ==
  ASSUME NEW protocol, NEW buffer \in Seq(Unit), NEW other \in Nat,
         NEW f, IsLoop(f, protocol, buffer, other), NEW o \in 0 .. Len(buffer),
         Decodes(protocol, buffer, other, o)
  PROVE  Steps(f, buffer, other, o)
<1> DEFINE next == NextOffset(buffer, other, o)
<1>1. next \in o + 1 .. Len(buffer)
  BY NextOffsetIsLater DEF Decodes
<1>2. f[next] \in Result(buffer, next)
  <2>1. next \in 0 .. Len(buffer)
    BY <1>1
  <2> HIDE DEF next
  <2> QED
    BY <2>1, LoopType DEF StopsAt
<1>4. f[o] = [packets |-> <<PayloadAt(buffer, other, o)>> \o f[next].packets,
              offset |-> f[next].offset, threw |-> f[next].threw]
  BY <1>2, LoopGoesOn
<1>5. /\ f[o].packets = <<PayloadAt(buffer, other, o)>> \o f[next].packets
      /\ f[o].offset = f[next].offset
  BY <1>4
<1> QED
  BY <1>1, <1>2, <1>5 DEF next, Steps

LEMMA DecodeType ==
  ASSUME NEW protocol, NEW buffer \in Seq(Unit), NEW other \in Nat
  PROVE  Decode(protocol, buffer, other) \in Result(buffer, 0)
<1>1. PICK f : /\ IsLoop(f, protocol, buffer, other)
               /\ Decode(protocol, buffer, other) = f[0]
  BY DecodeIsLoop
<1> QED
  BY <1>1, LoopType DEF StopsAt

LEMMA LoopEnd ==
  ASSUME NEW protocol, NEW buffer \in Seq(Unit), NEW other \in Nat,
         NEW f, IsLoop(f, protocol, buffer, other)
  PROVE  f[Len(buffer)] = [packets |-> <<>>, offset |-> Len(buffer), threw |-> FALSE]
<1>1. Len(buffer) \in 0 .. Len(buffer)
  OBVIOUS
<1>2. f[Len(buffer)] = DecodeAt(protocol, buffer, other, f, Len(buffer))
  BY <1>1 DEF IsLoop
<1> QED
  BY <1>2 DEF DecodeAt

(* A packet that is complete stays so when more arrives.                   *)
LEMMA DecodesLonger ==
  ASSUME NEW protocol, NEW buffer \in Seq(Unit), NEW frame \in Seq(Unit),
         NEW other \in Nat, NEW o \in 0 .. Len(buffer),
         Decodes(protocol, buffer, other, o)
  PROVE  /\ Decodes(protocol, buffer \o frame, other, o)
         /\ NextOffset(buffer \o frame, other, o) = NextOffset(buffer, other, o)
         /\ PayloadAt(buffer \o frame, other, o) = PayloadAt(buffer, other, o)
<1> DEFINE longer == buffer \o frame
           next == NextOffset(buffer, other, o)
<1>1. /\ longer \in Seq(Unit) /\ Len(longer) = Len(buffer) + Len(frame)
      /\ \A k \in 1 .. Len(buffer) : longer[k] = buffer[k]
  OBVIOUS
<1>2. o < Len(buffer) /\ next \in o + 1 .. Len(buffer)
  BY NextOffsetIsLater DEF Decodes
<1> HIDE DEF longer
<1>3. Header(longer, o) = Header(buffer, o)
  BY <1>1, <1>2 DEF Header
<1>4. NextOffset(longer, other, o) = next
  BY <1>3 DEF NextOffset, LengthAt
<1> HIDE DEF next
<1>5. SubSeq(longer, o + 2, next) = SubSeq(buffer, o + 2, next)
  <2> DEFINE p == SubSeq(longer, o + 2, next)
             q == SubSeq(buffer, o + 2, next)
  <2>1. /\ p \in Seq(Unit) /\ q \in Seq(Unit) /\ Len(p) = Len(q)
        /\ \A k \in 1 .. Len(p) : p[k] = q[k]
    BY <1>1, <1>2, SubSeqProperties
  <2> HIDE DEF p, q
  <2> QED
    BY <2>1, SeqEqual DEF p, q
<1>6. PayloadAt(longer, other, o) = PayloadAt(buffer, other, o)
  BY <1>4, <1>5 DEF PayloadAt, next
<1>7. Decodes(protocol, longer, other, o)
  BY <1>1, <1>2, <1>3, <1>4, <1>6 DEF Decodes, next
<1> QED
  BY <1>4, <1>6, <1>7 DEF longer, next

(* A frame behind a buffer that decodes to its end decodes to one more     *)
(* packet.                                                                 *)
Appended(protocol, buffer, frame, other) ==
  /\ Decode(protocol, buffer \o frame, other).packets =
       Append(Decode(protocol, buffer, other).packets, Payload(frame))
  /\ Decode(protocol, buffer \o frame, other).offset = Len(buffer) + Len(frame)

LEMMA DecodeAppend ==
  ASSUME NEW protocol, NEW buffer \in Seq(Unit), NEW frame \in Seq(Unit),
         NEW other \in Nat,
         frame # <<>>, frame[1].place = 0, frame[1].length = Len(frame) - 1,
         protocol = "Full" => Intact(frame[1], Payload(frame)),
         Decode(protocol, buffer, other).offset = Len(buffer)
  PROVE  Appended(protocol, buffer, frame, other)
<1> DEFINE longer == buffer \o frame
           L == Len(buffer)
           N == Len(longer)
<1>1. /\ L \in Nat /\ N \in Nat /\ L < N /\ N = L + Len(frame)
      /\ longer \in Seq(Unit) /\ longer[L + 1] = frame[1]
      /\ \A k \in 1 .. Len(frame) : longer[L + k] = frame[k]
  OBVIOUS
<1>2. PICK f : /\ IsLoop(f, protocol, buffer, other)
               /\ Decode(protocol, buffer, other) = f[0]
  BY DecodeIsLoop
<1>2a. ASSUME NEW o \in 0 .. L, Decodes(protocol, buffer, other, o)
       PROVE  /\ Decodes(protocol, longer, other, o)
              /\ NextOffset(longer, other, o) = NextOffset(buffer, other, o)
              /\ PayloadAt(longer, other, o) = PayloadAt(buffer, other, o)
  BY <1>2a, DecodesLonger
<1> HIDE DEF longer
<1>3. PICK g : /\ IsLoop(g, protocol, longer, other)
               /\ Decode(protocol, longer, other) = g[0]
  BY <1>1, DecodeIsLoop
<1>4. g[N] = [packets |-> <<>>, offset |-> N, threw |-> FALSE]
  BY <1>1, <1>3, LoopEnd
<1>5. f[L] = [packets |-> <<>>, offset |-> L, threw |-> FALSE]
  BY <1>2, LoopEnd
<1> DEFINE Good(o) == f[o].offset = L =>
                        /\ g[o].packets = Append(f[o].packets, Payload(frame))
                        /\ g[o].offset = N
           T == {o \in 0 .. L : Good(o)}
<1> HIDE DEF L, N
<1>6. Good(L)
  <2>1. Header(longer, L) = frame[1]
    BY <1>1 DEF Header
  <2>2. NextOffset(longer, other, L) = N
    BY <1>1, <2>1 DEF NextOffset, LengthAt
  <2>3. PayloadAt(longer, other, L) = Payload(frame)
    <3> DEFINE p == SubSeq(longer, L + 2, N)
               q == Tail(frame)
    <3>1. /\ p \in Seq(Unit) /\ q \in Seq(Unit)
          /\ Len(p) = N - L - 1 /\ Len(q) = N - L - 1
          /\ \A k \in 1 .. N - L - 1 : p[k] = longer[L + 1 + k] /\ q[k] = frame[k + 1]
      <4>1. /\ p \in Seq(Unit) /\ Len(p) = N - L - 1
            /\ \A k \in 1 .. N - L - 1 : p[k] = longer[L + 1 + k]
        <5>1. /\ L + 2 \in Int /\ N \in Int
              /\ \A k \in L + 2 .. N : longer[k] \in Unit
          BY <1>1 DEF N
        <5>2. /\ p \in Seq(Unit)
              /\ Len(p) = IF L + 2 <= N THEN N - (L + 2) + 1 ELSE 0
              /\ \A k \in 1 .. N - (L + 2) + 1 : p[k] = longer[L + 2 + k - 1]
          BY <5>1, SubSeqProperties
        <5>3. L \in Nat /\ N \in Nat /\ L < N
          BY <1>1
        <5>4. /\ N - (L + 2) + 1 = N - L - 1
              /\ \A k \in 1 .. N - L - 1 : L + 2 + k - 1 = L + 1 + k
              /\ ~(L + 2 <= N) => N - L - 1 = 0
          BY <5>3
        <5> HIDE DEF p
        <5> QED
          BY <5>2, <5>3, <5>4
      <4>2. /\ q \in Seq(Unit) /\ Len(q) = N - L - 1
            /\ \A k \in 1 .. N - L - 1 : q[k] = frame[k + 1]
        BY <1>1
      <4> QED
        BY <4>1, <4>2
    <3>2. \A k \in 1 .. N - L - 1 : longer[L + 1 + k] = frame[k + 1]
      BY <1>1
    <3> HIDE DEF p, q
    <3>3. p = q
      BY <3>1, <3>2, SeqEqual, SMTT(20)
    <3> QED
      BY <2>2, <3>3 DEF PayloadAt, Payload, p, q
  <2>4. Decodes(protocol, longer, other, L)
    BY <1>1, <2>1, <2>2, <2>3 DEF Decodes, N
  <2>5. /\ g[L].packets = <<Payload(frame)>> \o g[N].packets
        /\ g[L].offset = g[N].offset
    <3>1. L \in 0 .. Len(longer)
      BY <1>1 DEF N
    <3>2. Steps(g, longer, other, L)
      BY <1>1, <1>3, <2>4, <3>1, LoopSteps
    <3> QED
      BY <2>2, <2>3, <3>2 DEF Steps
  <2>6. g[N].packets = <<>> /\ g[N].offset = N /\ f[L].packets = <<>>
    BY <1>4, <1>5
  <2> QED
    BY <2>5, <2>6
<1>7. ASSUME NEW o \in 0 .. L, o + 1 .. L \subseteq T PROVE Good(o)
  <2>1. SUFFICES ASSUME f[o].offset = L, o # L
                 PROVE  /\ g[o].packets = Append(f[o].packets, Payload(frame))
                        /\ g[o].offset = N
    BY <1>6
  <2>2. o \in 0 .. Len(buffer) /\ o \in 0 .. Len(longer)
    BY <1>1 DEF L, N
  <2>3. Decodes(protocol, buffer, other, o)
    BY <1>2, <2>1, <2>2, LoopStops
  <2>4. /\ Decodes(protocol, longer, other, o)
        /\ NextOffset(longer, other, o) = NextOffset(buffer, other, o)
        /\ PayloadAt(longer, other, o) = PayloadAt(buffer, other, o)
    BY <1>2a, <2>3
  <2> DEFINE next == NextOffset(buffer, other, o)
             payload == PayloadAt(buffer, other, o)
  <2>5. /\ next \in o + 1 .. L
        /\ f[next] \in Result(buffer, next)
        /\ f[o].packets = <<payload>> \o f[next].packets
        /\ f[o].offset = f[next].offset
    <3>1. Steps(f, buffer, other, o)
      BY <1>2, <2>2, <2>3, LoopSteps
    <3> QED
      BY <3>1 DEF L, Steps
  <2>6. /\ g[o].packets = <<payload>> \o g[next].packets
        /\ g[o].offset = g[next].offset
    <3>1. Steps(g, longer, other, o)
      BY <1>1, <1>3, <2>2, <2>4, LoopSteps
    <3> QED
      BY <2>4, <3>1 DEF Steps
  <2> HIDE DEF next, payload
  <2>7. Good(next)
    BY <1>7, <2>5
  <2>8. /\ g[next].packets = Append(f[next].packets, Payload(frame))
        /\ g[next].offset = N
    BY <2>1, <2>5, <2>7
  <2>9. f[next].packets \in Seq(Seq(Unit))
    BY <2>5 DEF Result
  <2>10. <<payload>> \o Append(f[next].packets, Payload(frame)) =
           Append(<<payload>> \o f[next].packets, Payload(frame))
    <3> DEFINE s == f[next].packets
    <3>1. s \in Seq(Seq(Unit))
      BY <2>9
    <3> HIDE DEF s
    <3>2. \A e : <<payload>> \o Append(s, e) = Append(<<payload>> \o s, e)
      BY <3>1, SMTT(20)
    <3> QED
      BY <3>2 DEF s
  <2> QED
    BY <2>5, <2>6, <2>8, <2>10
<1>8. 0 .. L \subseteq T
  <2>1. \A o \in 0 .. L : o + 1 .. L \subseteq T => o \in T
    BY <1>7
  <2> HIDE DEF T
  <2> QED
    BY <1>1, <2>1, Downward
<1>9. Good(0)
  BY <1>1, <1>8
<1> QED
  BY <1>1, <1>2, <1>3, <1>9 DEF longer, L, N, Appended

-----------------------------------------------------------------------------
USE WordAssumption

(* The abridged framing announces the length of a whole number of words.   *)
LEMMA AnnouncedWhole ==
  ASSUME NEW protocol, NEW n \in Nat, protocol = "Abridged" => n % WordSize = 0
  PROVE  Announced(protocol, n) = n
<1>1. CASE protocol # "Abridged"
  BY <1>1 DEF Announced
<1>2. CASE protocol = "Abridged"
  <2> DEFINE k == n \div WordSize
  <2>1. k \in Nat /\ n = k * WordSize
    <3>1. n % WordSize = 0
      BY <1>2
    <3>2. k \in Nat /\ n = k * WordSize + (n % WordSize)
      BY Division
    <3> HIDE DEF k
    <3> QED
      BY <3>1, <3>2
  <2> HIDE DEF k
  <2>2. WordSize - 1 \in 0 .. WordSize - 1
    OBVIOUS
  <2>3. (k * WordSize + (WordSize - 1)) \div WordSize = k
    BY <2>1, <2>2, DivisionUnique
  <2>4. n + WordSize - 1 = k * WordSize + (WordSize - 1)
    BY <2>1
  <2> QED
    BY <1>2, <2>1, <2>3, <2>4 DEF Announced
<1> QED
  BY <1>1, <1>2

LEMMA AnnouncedType ==
  ASSUME NEW protocol, NEW n \in Nat
  PROVE  Announced(protocol, n) \in Nat
<1> DEFINE k == (n + WordSize - 1) \div WordSize
<1>1. n + WordSize - 1 \in Nat
  OBVIOUS
<1>2. k \in Nat
  BY <1>1, Division
<1> HIDE DEF k
<1>3. k * WordSize \in Nat
  BY <1>2
<1> QED
  BY <1>3 DEF Announced, k

(* What encode_packet returns.                                             *)
Framed(frame, protocol, p, n, seq) ==
  /\ frame \in Seq(Unit)
  /\ Len(frame) = n + 1
  /\ \A k \in 1 .. n + 1 :
       frame[k] = [packet |-> p, place |-> k - 1, size |-> n, seq |-> seq,
                   length |-> Announced(protocol, n)]
  /\ Payload(frame) \in Seq(Unit)
  /\ Len(Payload(frame)) = n
  /\ \A k \in 1 .. n : Payload(frame)[k] = frame[k + 1]

LEMMA FrameProperties ==
  ASSUME NEW protocol, NEW p \in Nat, NEW n \in Nat, NEW seq \in Nat
  PROVE  Framed(Frame(protocol, p, n, seq), protocol, p, n, seq)
<1> DEFINE length == Announced(protocol, n)
           unit(k) == [packet |-> p, place |-> k - 1, size |-> n, seq |-> seq,
                       length |-> length]
           frame == [k \in 1 .. n + 1 |-> unit(k)]
<1>1. length \in Nat
  BY AnnouncedType
<1>2. ASSUME NEW k \in 1 .. n + 1 PROVE unit(k) \in Unit
  BY <1>1 DEF Unit
<1>3. \A k \in 1 .. n + 1 : frame[k] = unit(k)
  OBVIOUS
<1> HIDE DEF unit
<1>4. frame \in Seq(Unit) /\ Len(frame) = n + 1
  BY <1>2
<1> HIDE DEF frame
<1>5. /\ Tail(frame) \in Seq(Unit) /\ Len(Tail(frame)) = n
      /\ \A k \in 1 .. n : Tail(frame)[k] = frame[k + 1]
  BY <1>4
<1> QED
  BY <1>3, <1>4, <1>5 DEF Framed, Frame, Payload, frame, unit

(* The decoder's checksum accepts it.                                      *)
LEMMA FrameIntact ==
  ASSUME NEW protocol, NEW p \in Nat, NEW n \in Nat, NEW seq \in Nat,
         NEW frame, Framed(frame, protocol, p, n, seq)
  PROVE  Intact(frame[1], Payload(frame))
<1>1. frame[1] = [packet |-> p, place |-> 0, size |-> n, seq |-> seq,
                  length |-> Announced(protocol, n)]
  BY DEF Framed
<1>2. ASSUME NEW k \in 1 .. n
      PROVE  Payload(frame)[k] = [frame[1] EXCEPT !.place = k]
  <2>1. Payload(frame)[k] = frame[k + 1] /\ k + 1 \in 1 .. n + 1 /\ (k + 1) - 1 = k
    BY DEF Framed
  <2>2. frame[k + 1] = [packet |-> p, place |-> k, size |-> n, seq |-> seq,
                        length |-> Announced(protocol, n)]
    BY <2>1 DEF Framed
  <2> QED
    BY <1>1, <2>1, <2>2
<1>3. Len(Payload(frame)) = n /\ DOMAIN Payload(frame) = 1 .. n /\ frame[1].size = n
  BY <1>1 DEF Framed
<1> QED
  BY <1>2, <1>3 DEF Intact

-----------------------------------------------------------------------------
(* The stream to the server: the full framing numbers its packets as the   *)
(* history counts them.                                                    *)
SendInv ==
  /\ SentWellFramed
  /\ active_protocol = "Full" => codec.out_seq_no = Len(outbox)

LEMMA WriteType ==
  ASSUME TypeOK, NEW n \in Nat, Write(n)
  PROVE  /\ codec' \in [buffer : Seq(Unit), out_seq_no : Nat]
         /\ wire' \in Seq(Unit)
         /\ outbox' \in Seq(Seq(Unit))
         /\ torn' \in BOOLEAN
<1> DEFINE frame == Frame(active_protocol, Len(outbox), n, codec.out_seq_no)
<1>1. /\ codec \in [buffer : Seq(Unit), out_seq_no : Nat] /\ outbox \in Seq(Seq(Unit))
      /\ wire \in Seq(Unit) /\ torn \in BOOLEAN
  BY DEF TypeOK
<1>2. codec.out_seq_no \in Nat /\ Len(outbox) \in Nat
  BY <1>1
<1>3. Framed(frame, active_protocol, Len(outbox), n, codec.out_seq_no)
  BY <1>2, FrameProperties
<1>4. /\ codec' = IF active_protocol = "Full"
                    THEN [codec EXCEPT !.out_seq_no = @ + 1] ELSE codec
      /\ outbox' = Append(outbox, Payload(frame))
      /\ \E k \in 0 .. Len(frame) : /\ wire' = wire \o SubSeq(frame, 1, k)
                                     /\ torn' = (torn \/ k < Len(frame))
  BY DEF Write
<1> HIDE DEF frame
<1>5. frame \in Seq(Unit) /\ Payload(frame) \in Seq(Unit)
  BY <1>3 DEF Framed
<1>6. codec' \in [buffer : Seq(Unit), out_seq_no : Nat]
  <2> DEFINE next == codec.out_seq_no + 1
  <2>1. next \in Nat
    BY <1>2
  <2>2. codec' = [codec EXCEPT !.out_seq_no = next] \/ codec' = codec
    BY <1>4
  <2> HIDE DEF next
  <2> QED
    BY <1>1, <2>1, <2>2
<1>7. outbox' \in Seq(Seq(Unit))
  BY <1>1, <1>4, <1>5
<1>8. wire' \in Seq(Unit) /\ torn' \in BOOLEAN
  BY <1>1, <1>4, <1>5
<1> QED
  BY <1>6, <1>7, <1>8

(* send_packet keeps the stream to the server decodable, whatever breaks   *)
(* off.                                                                    *)
LEMMA WriteFramed ==
  ASSUME TypeOK, SendInv, NEW n \in Nat, Write(n), UNCHANGED active_protocol
  PROVE  SendInv'
<1> DEFINE frame == Frame(active_protocol, Len(outbox), n, codec.out_seq_no)
<1>1. /\ codec \in [buffer : Seq(Unit), out_seq_no : Nat] /\ outbox \in Seq(Seq(Unit))
      /\ wire \in Seq(Unit) /\ torn \in BOOLEAN
  BY DEF TypeOK
<1>2. codec.out_seq_no \in Nat /\ Len(outbox) \in Nat
  BY <1>1
<1>3. Framed(frame, active_protocol, Len(outbox), n, codec.out_seq_no)
  BY <1>2, FrameProperties
<1>4. /\ codec' = IF active_protocol = "Full"
                    THEN [codec EXCEPT !.out_seq_no = @ + 1] ELSE codec
      /\ outbox' = Append(outbox, Payload(frame))
      /\ \E k \in 0 .. Len(frame) : /\ wire' = wire \o SubSeq(frame, 1, k)
                                     /\ torn' = (torn \/ k < Len(frame))
  BY DEF Write
<1>5. Intact(frame[1], Payload(frame))
  BY <1>2, <1>3, FrameIntact
<1> HIDE DEF frame
<1>6. /\ frame \in Seq(Unit) /\ Len(frame) = n + 1 /\ Payload(frame) \in Seq(Unit)
      /\ Len(Payload(frame)) = n
  BY <1>3 DEF Framed
<1>7. active_protocol = "Full" => codec'.out_seq_no = Len(outbox')
  BY <1>1, <1>4, <1>6 DEF SendInv
<1>8. ASSUME ~torn',
             ~(active_protocol = "Abridged"
               /\ \E i \in DOMAIN outbox' : Len(outbox'[i]) % WordSize # 0)
      PROVE  WellFramed'
  <2>1. ~torn /\ wire' = wire \o frame
    <3>1. PICK k \in 0 .. Len(frame) : /\ wire' = wire \o SubSeq(frame, 1, k)
                                        /\ torn' = (torn \/ k < Len(frame))
      BY <1>4
    <3>2. ~torn /\ ~(k < Len(frame))
      BY <1>8, <3>1, Zenon
    <3>2a. k = Len(frame)
      BY <1>6, <3>2
    <3>3. SubSeq(frame, 1, Len(frame)) = frame
      BY <1>6, SubSeqFull
    <3> QED
      BY <3>1, <3>2, <3>2a, <3>3
  <2>2. /\ DOMAIN outbox' = 1 .. Len(outbox) + 1
        /\ outbox'[Len(outbox) + 1] = Payload(frame)
        /\ \A i \in DOMAIN outbox : i \in DOMAIN outbox' /\ outbox'[i] = outbox[i]
    BY <1>1, <1>4, <1>6
  <2>3. ~(active_protocol = "Abridged"
          /\ \E i \in DOMAIN outbox : Len(outbox[i]) % WordSize # 0)
    BY <1>8, <2>2
  <2>4. active_protocol = "Abridged" => n % WordSize = 0
    <3>1. Len(outbox) + 1 \in DOMAIN outbox'
      BY <1>2, <2>2
    <3> QED
      BY <1>6, <1>8, <2>2, <3>1
  <2>5. WellFramed
    BY <2>1, <2>3 DEF SendInv, SentWellFramed
  <2>6. /\ Decode(active_protocol, wire, 0).packets = outbox
        /\ Decode(active_protocol, wire, 0).offset = Len(wire)
    BY <2>5 DEF WellFramed
  <2>7. /\ frame # <<>> /\ frame[1].place = 0 /\ frame[1].length = Len(frame) - 1
    <3>1. frame[1] = [packet |-> Len(outbox), place |-> 0, size |-> n,
                      seq |-> codec.out_seq_no, length |-> Announced(active_protocol, n)]
      BY <1>3 DEF Framed
    <3>2. Announced(active_protocol, n) = n
      BY <2>4, AnnouncedWhole
    <3>3. frame # <<>> /\ Len(frame) - 1 = n
      BY <1>6
    <3> QED
      BY <3>1, <3>2, <3>3
  <2>8. Appended(active_protocol, wire, frame, 0)
    BY <1>1, <1>5, <1>6, <2>6, <2>7, DecodeAppend
  <2>9. ASSUME active_protocol = "Full", NEW k \in DOMAIN wire'
        PROVE  wire'[k].seq = wire'[k].packet
    <3>1. CASE k \in DOMAIN wire
      <4>1. wire'[k] = wire[k]
        BY <1>1, <1>6, <2>1, <3>1
      <4> QED
        BY <2>5, <2>9, <3>1, <4>1 DEF WellFramed
    <3>2. CASE k \notin DOMAIN wire
      <4>1. k - Len(wire) \in 1 .. n + 1 /\ wire'[k] = frame[k - Len(wire)]
        BY <1>1, <1>6, <2>1, <3>2
      <4>2. frame[k - Len(wire)].seq = codec.out_seq_no
            /\ frame[k - Len(wire)].packet = Len(outbox)
        BY <1>3, <4>1 DEF Framed
      <4> QED
        BY <2>9, <4>1, <4>2 DEF SendInv
    <3> QED
      BY <3>1, <3>2
  <2> QED
    <3>1. /\ Decode(active_protocol, wire', 0).packets = outbox'
          /\ Decode(active_protocol, wire', 0).offset = Len(wire')
      <4>1. wire' = wire \o frame /\ Len(wire') = Len(wire) + Len(frame)
        <5>1. wire' = wire \o frame
          BY <2>1
        <5>2. Len(wire \o frame) = Len(wire) + Len(frame)
          BY <1>1, <1>6, ConcatProperties
        <5> QED
          BY <5>1, <5>2
      <4>2. outbox' = Append(Decode(active_protocol, wire, 0).packets, Payload(frame))
        BY <1>4, <2>6
      <4> QED
        BY <2>8, <4>1, <4>2 DEF Appended
    <3> QED
      BY <2>9, <3>1 DEF WellFramed
<1> QED
  BY <1>7, <1>8 DEF SendInv, SentWellFramed

LEMMA EmptyFramed ==
  ASSUME NEW protocol
  PROVE  Decode(protocol, <<>>, 0).packets = <<>> /\ Decode(protocol, <<>>, 0).offset = 0
<1> DEFINE nothing == <<>>
<1>1. nothing \in Seq(Unit) /\ Len(nothing) = 0 /\ 0 \in Nat
  OBVIOUS
<1> HIDE DEF nothing
<1>2. PICK f : IsLoop(f, protocol, nothing, 0) /\ Decode(protocol, nothing, 0) = f[0]
  BY <1>1, DecodeIsLoop
<1>3. f[Len(nothing)] = [packets |-> <<>>, offset |-> Len(nothing), threw |-> FALSE]
  BY <1>1, <1>2, LoopEnd
<1> QED
  BY <1>1, <1>2, <1>3 DEF nothing

-----------------------------------------------------------------------------
(* The units of a frame of the server.                                     *)
FrameSize == WordSize + 1
(* The j-th unit of the server's packet q.                                 *)
ServedUnit(q, j) ==
  [packet |-> q, place |-> j, size |-> WordSize, seq |-> q, length |-> WordSize]
(* The frames of the packets from r on and before s, one behind the other. *)
Stream(r, s) ==
  [i \in 1 .. (s - r) * FrameSize |->
     ServedUnit(r + ((i - 1) \div FrameSize), (i - 1) % FrameSize)]

(* The server's frames, in every framing.                                  *)
LEMMA ServedUnits ==
  ASSUME NEW protocol, NEW q \in Nat
  PROVE  /\ Announced(protocol, WordSize) = WordSize
         /\ Framed(Frame(protocol, q, WordSize, q), protocol, q, WordSize, q)
         /\ \A k \in 1 .. FrameSize :
              Frame(protocol, q, WordSize, q)[k] = ServedUnit(q, k - 1)
<1>1. WordSize % WordSize = 0
  <2>1. 0 \in 0 .. WordSize - 1 /\ 1 * WordSize + 0 = WordSize
    OBVIOUS
  <2> QED
    BY <2>1, DivisionUnique
<1>2. Announced(protocol, WordSize) = WordSize
  BY <1>1, AnnouncedWhole
<1>3. Framed(Frame(protocol, q, WordSize, q), protocol, q, WordSize, q)
  BY FrameProperties
<1> QED
  BY <1>2, <1>3 DEF Framed, ServedUnit, FrameSize

LEMMA StreamProperties ==
  ASSUME NEW r \in Nat, NEW s \in Nat, r <= s
  PROVE  /\ (s - r) * FrameSize \in Nat
         /\ Stream(r, s) \in Seq(Unit)
         /\ Len(Stream(r, s)) = (s - r) * FrameSize
         /\ \A i \in 1 .. (s - r) * FrameSize :
              Stream(r, s)[i] = ServedUnit(r + ((i - 1) \div FrameSize), (i - 1) % FrameSize)
<1>1. (s - r) * FrameSize \in Nat
  BY DEF FrameSize
<1> DEFINE n == (s - r) * FrameSize
           unit(i) == ServedUnit(r + ((i - 1) \div FrameSize), (i - 1) % FrameSize)
<1>2. ASSUME NEW i \in 1 .. n PROVE unit(i) \in Unit
  <2>1. i - 1 \in Nat /\ FrameSize \in Nat \ {0}
    BY DEF FrameSize
  <2>2. (i - 1) \div FrameSize \in Nat /\ (i - 1) % FrameSize \in Nat
    BY <2>1, Division
  <2> QED
    BY <2>2 DEF ServedUnit, Unit
<1>3. Stream(r, s) = [i \in 1 .. n |-> unit(i)]
  BY DEF Stream
<1> HIDE DEF n, unit
<1>4. Stream(r, s) \in Seq(Unit) /\ Len(Stream(r, s)) = n
      /\ \A i \in 1 .. n : Stream(r, s)[i] = unit(i)
  BY <1>1, <1>2, <1>3 DEF n
<1> QED
  BY <1>1, <1>4 DEF n, unit

(* A unit's packet and its place in it.                                    *)
LEMMA StreamUnit ==
  ASSUME NEW r \in Nat, NEW s \in Nat, r <= s,
         NEW k \in Nat, k < s - r, NEW j \in 0 .. WordSize
  PROVE  /\ k * FrameSize + j + 1 \in 1 .. (s - r) * FrameSize
         /\ Stream(r, s)[k * FrameSize + j + 1] = ServedUnit(r + k, j)
<1>1. FrameSize \in Nat \ {0} /\ j \in 0 .. FrameSize - 1 /\ j < FrameSize
  BY DEF FrameSize
<1>2. k * FrameSize + j + 1 \in 1 .. (s - r) * FrameSize
  <2>1. \A a \in Nat, b \in Nat : a < b => b * FrameSize >= a * FrameSize + FrameSize
    BY <1>1
  <2>2. (s - r) * FrameSize >= k * FrameSize + FrameSize
    BY <2>1
  <2>3. k * FrameSize \in Nat
    BY <1>1
  <2> QED
    BY <1>1, <2>2, <2>3
<1>3. (k * FrameSize + j) \div FrameSize = k /\ (k * FrameSize + j) % FrameSize = j
  BY <1>1, DivisionUnique
<1> DEFINE i == k * FrameSize + j + 1
<1>4. i - 1 = k * FrameSize + j
  BY <1>1
<1>5. Stream(r, s)[i] = ServedUnit(r + ((i - 1) \div FrameSize), (i - 1) % FrameSize)
  <2>1. i \in 1 .. (s - r) * FrameSize
    BY <1>2
  <2> HIDE DEF i
  <2> QED
    BY <2>1, StreamProperties
<1>6. Stream(r, s)[i] = ServedUnit(r + k, j)
  <2> HIDE DEF i
  <2> QED
    BY <1>3, <1>4, <1>5
<1> QED
  BY <1>2, <1>6

(* Every unit of the stream has such a place.                              *)
LEMMA StreamPlace ==
  ASSUME NEW n \in Nat, NEW i \in 1 .. n * FrameSize
  PROVE  \E k \in Nat, j \in 0 .. WordSize : k < n /\ i = k * FrameSize + j + 1
<1> DEFINE k == (i - 1) \div FrameSize
           j == (i - 1) % FrameSize
<1>1. FrameSize \in Nat \ {0}
  BY DEF FrameSize
<1>2. i \in Nat /\ i - 1 \in Nat
  BY <1>1
<1>3. k \in Nat /\ j \in 0 .. FrameSize - 1 /\ i - 1 = k * FrameSize + j
  BY <1>1, <1>2, Division
<1> HIDE DEF k, j
<1>4. k < n
  <2>1. \A a \in Nat, b \in Nat : a <= b => b * FrameSize >= a * FrameSize
    BY <1>1
  <2>2. n <= k => k * FrameSize >= n * FrameSize
    BY <1>3, <2>1
  <2>3. k * FrameSize \in Nat /\ n * FrameSize \in Nat
    BY <1>1, <1>3
  <2> QED
    BY <1>1, <1>2, <1>3, <2>2, <2>3
<1>5. j \in 0 .. WordSize /\ i = k * FrameSize + j + 1
  BY <1>1, <1>2, <1>3 DEF FrameSize
<1> QED
  BY <1>3, <1>4, <1>5

(* One sequence behind the other.                                          *)
Joined(whole, s, t) ==
  /\ whole \in Seq(Unit)
  /\ Len(whole) = Len(s) + Len(t)
  /\ \A i \in 1 .. Len(s) : whole[i] = s[i]
  /\ \A i \in 1 .. Len(t) : whole[Len(s) + i] = t[i]

LEMMA EmptyHasNone == ASSUME NEW s, Len(s) = 1 PROVE s # <<>>
OBVIOUS

LEMMA ConcatJoins ==
  ASSUME NEW s \in Seq(Unit), NEW t \in Seq(Unit)
  PROVE  Joined(s \o t, s, t)
BY DEF Joined

(* Two streams are equal if they have the same length and agree on places. *)
LEMMA IsStream ==
  ASSUME NEW r \in Nat, NEW s \in Nat, r <= s, NEW units \in Seq(Unit),
         Len(units) = (s - r) * FrameSize,
         \A k \in Nat, j \in 0 .. WordSize :
           k < s - r => units[k * FrameSize + j + 1] = ServedUnit(r + k, j)
  PROVE  units = Stream(r, s)
<1>1. ASSUME NEW i \in 1 .. Len(units) PROVE units[i] = Stream(r, s)[i]
  <2>1. s - r \in Nat /\ i \in 1 .. (s - r) * FrameSize
    OBVIOUS
  <2>2. PICK k \in Nat, j \in 0 .. WordSize : k < s - r /\ i = k * FrameSize + j + 1
    BY <2>1, StreamPlace
  <2>3. units[i] = ServedUnit(r + k, j)
    BY <2>2
  <2>4. Stream(r, s)[i] = ServedUnit(r + k, j)
    BY <2>2, StreamUnit, SMTT(20)
  <2> QED
    BY <2>3, <2>4
<1>2. Stream(r, s) \in Seq(Unit) /\ Len(Stream(r, s)) = Len(units)
  BY StreamProperties
<1> QED
  BY <1>1, <1>2, SeqEqual

(* The server's next packet continues the stream.                          *)
LEMMA StreamServe ==
  ASSUME NEW protocol, NEW r \in Nat, NEW s \in Nat, r <= s
  PROVE  Stream(r, s) \o Frame(protocol, s, WordSize, s) = Stream(r, s + 1)
<1> DEFINE frame == Frame(protocol, s, WordSize, s)
           stream == Stream(r, s)
           units == stream \o frame
           n == (s - r) * FrameSize
<1>1. /\ frame \in Seq(Unit) /\ Len(frame) = FrameSize
      /\ \A k \in 1 .. FrameSize : frame[k] = ServedUnit(s, k - 1)
  BY ServedUnits DEF Framed, FrameSize
<1>2. n \in Nat /\ stream \in Seq(Unit) /\ Len(stream) = n
  BY StreamProperties
<1> HIDE DEF frame, stream
<1>3. /\ units \in Seq(Unit) /\ Len(units) = n + FrameSize
      /\ \A i \in 1 .. n : units[i] = stream[i]
      /\ \A i \in 1 .. FrameSize : units[n + i] = frame[i]
  <2>1. /\ units \in Seq(Unit) /\ Len(units) = Len(stream) + Len(frame)
        /\ \A i \in 1 .. Len(stream) : units[i] = stream[i]
        /\ \A i \in 1 .. Len(frame) : units[Len(stream) + i] = frame[i]
    BY <1>1, <1>2, ConcatJoins DEF Joined, units
  <2> QED
    BY <1>1, <1>2, <2>1
<1> HIDE DEF units
<1>4. ASSUME NEW k \in Nat, NEW j \in 0 .. WordSize, k < (s + 1) - r
      PROVE  units[k * FrameSize + j + 1] = ServedUnit(r + k, j)
  <2>1. CASE k < s - r
    <3>1. /\ k * FrameSize + j + 1 \in 1 .. n
          /\ stream[k * FrameSize + j + 1] = ServedUnit(r + k, j)
      BY <2>1, StreamUnit DEF stream
    <3> QED
      BY <1>3, <3>1
  <2>2. CASE ~(k < s - r)
    <3>1. k = s - r /\ r + k = s /\ j + 1 \in 1 .. FrameSize /\ (j + 1) - 1 = j
      BY <1>4, <2>2 DEF FrameSize
    <3>2. k * FrameSize + j + 1 = n + (j + 1)
      BY <1>2, <3>1 DEF FrameSize
    <3>3. units[n + (j + 1)] = frame[j + 1] /\ frame[j + 1] = ServedUnit(s, (j + 1) - 1)
      <4> HIDE DEF n
      <4> QED
        BY <1>1, <1>3, <3>1
    <3> QED
      BY <3>1, <3>2, <3>3
  <2> QED
    BY <2>1, <2>2
<1>5. r <= s + 1 /\ s + 1 \in Nat /\ n + FrameSize = ((s + 1) - r) * FrameSize
  BY DEF FrameSize
<1>6. units = Stream(r, s + 1)
  <2>1. Len(units) = ((s + 1) - r) * FrameSize
    BY <1>3, <1>5
  <2> QED
    BY <1>3, <1>4, <1>5, <2>1, IsStream
<1> QED
  BY <1>6 DEF units, stream, frame

(* When the loop finds exactly one packet at the start of the stream, it   *)
(* is the first one served, and what is left is the rest of the stream.    *)
DecodedFirst(protocol, buffer, tail, result, r, s) ==
  /\ r < s
  /\ Head(result.packets) = Payload(Frame(protocol, r, WordSize, r))
  /\ SubSeq(buffer, result.offset + 1, Len(buffer)) \o tail = Stream(r + 1, s)

LEMMA DecodeFirst ==
  ASSUME NEW protocol, NEW buffer \in Seq(Unit), NEW tail \in Seq(Unit),
         NEW other \in Nat, NEW r \in Nat, NEW s \in Nat, r <= s,
         buffer \o tail = Stream(r, s),
         Len(Decode(protocol, buffer, other).packets) = 1
  PROVE  DecodedFirst(protocol, buffer, tail, Decode(protocol, buffer, other), r, s)
<1> DEFINE B == Len(buffer)
           whole == buffer \o tail
           frame == Frame(protocol, r, WordSize, r)
<1>1. PICK f : /\ IsLoop(f, protocol, buffer, other)
               /\ Decode(protocol, buffer, other) = f[0]
  BY DecodeIsLoop
<1>2. f[0] \in Result(buffer, 0) /\ Len(f[0].packets) = 1
  BY <1>1, LoopType DEF StopsAt
<1>3. Decodes(protocol, buffer, other, 0)
  <2>1. f[0].packets # <<>>
    BY <1>2, EmptyHasNone
  <2> QED
    BY <1>1, <2>1, LoopStops
<1>4. Steps(f, buffer, other, 0)
  BY <1>1, <1>3, LoopSteps
<1>5. /\ B \in Nat /\ B > 0 /\ Len(whole) = B + Len(tail) /\ whole \in Seq(Unit)
      /\ \A i \in 1 .. B : whole[i] = buffer[i]
      /\ \A i \in 1 .. Len(tail) : whole[B + i] = tail[i]
  <2>1. Joined(buffer \o tail, buffer, tail)
    BY ConcatJoins
  <2>2. 0 < Len(buffer) /\ Len(buffer) \in Nat
    BY <1>3 DEF Decodes
  <2> QED
    BY <2>1, <2>2 DEF Joined
<1>6. /\ s - r \in Nat /\ (s - r) * FrameSize \in Nat
      /\ Len(whole) = (s - r) * FrameSize /\ whole = Stream(r, s)
  BY StreamProperties
<1> HIDE DEF B, whole
<1>7. r < s
  <2>1. s = r => (s - r) * FrameSize = 0
    BY DEF FrameSize
  <2>2. Len(tail) \in Nat
    OBVIOUS
  <2> QED
    BY <1>5, <1>6, <2>1, <2>2
<1>8. \A j \in 0 .. WordSize : j + 1 <= B => buffer[j + 1] = ServedUnit(r, j)
  <2>1. SUFFICES ASSUME NEW j \in 0 .. WordSize, j + 1 <= B
                 PROVE  buffer[j + 1] = ServedUnit(r, j)
    OBVIOUS
  <2>2. whole[0 * FrameSize + j + 1] = ServedUnit(r + 0, j)
    <3>1. 0 \in Nat /\ 0 < s - r
      BY <1>7
    <3> QED
      BY <1>6, <3>1, StreamUnit
  <2>3. 0 * FrameSize + j + 1 = j + 1 /\ r + 0 = r /\ j + 1 \in 1 .. B
    BY <1>5, <2>1 DEF FrameSize
  <2> QED
    BY <1>5, <2>2, <2>3
<1>9. Header(buffer, 0) = ServedUnit(r, 0)
  <2>1. 0 \in 0 .. WordSize /\ 0 + 1 <= B
    BY <1>5
  <2> QED
    BY <1>8, <2>1 DEF Header
<1>10. NextOffset(buffer, other, 0) = FrameSize
  BY <1>9 DEF NextOffset, LengthAt, ServedUnit, FrameSize
<1>11. FrameSize \in 1 .. B /\ f[FrameSize] \in Result(buffer, FrameSize)
       /\ f[0].packets = <<PayloadAt(buffer, other, 0)>> \o f[FrameSize].packets
       /\ f[0].offset = f[FrameSize].offset
  BY <1>4, <1>10 DEF Steps, B
<1>12. f[FrameSize].packets = <<>>
  <2>1. f[FrameSize].packets \in Seq(Seq(Unit))
    BY <1>11 DEF Result
  <2> DEFINE rest == f[FrameSize].packets
             payload == PayloadAt(buffer, other, 0)
  <2>2. rest \in Seq(Seq(Unit)) /\ Len(<<payload>> \o rest) = 1
    BY <1>2, <1>11, <2>1
  <2> HIDE DEF rest, payload
  <2>3. rest = <<>>
    BY <2>2
  <2> QED
    BY <2>3 DEF rest
<1>13. f[0].offset = FrameSize
  <2>1. FrameSize \in 0 .. Len(buffer)
    BY <1>11 DEF B
  <2>2. f[FrameSize].offset = FrameSize
    <3>1. StopsAt(f, buffer, FrameSize)
      BY <1>1, <2>1, LoopType
    <3> QED
      BY <1>12, <3>1 DEF StopsAt
  <2> QED
    BY <1>11, <2>2
<1>14. f[0].packets = <<Payload(frame)>>
  <2>1. PayloadAt(buffer, other, 0) = SubSeq(buffer, 2, FrameSize)
    <3>1. 0 + 2 = 2
      OBVIOUS
    <3> QED
      BY <1>10, <3>1 DEF PayloadAt
  <2>2. /\ Payload(frame) \in Seq(Unit) /\ Len(Payload(frame)) = WordSize
        /\ \A k \in 1 .. WordSize : Payload(frame)[k] = ServedUnit(r, k)
    <3>1. /\ Framed(frame, protocol, r, WordSize, r)
          /\ \A k \in 1 .. FrameSize : frame[k] = ServedUnit(r, k - 1)
      BY ServedUnits
    <3>2. \A k \in 1 .. WordSize : k + 1 \in 1 .. FrameSize /\ (k + 1) - 1 = k
      BY DEF FrameSize
    <3> HIDE DEF frame
    <3> QED
      BY <3>1, <3>2 DEF Framed
  <2> DEFINE p == SubSeq(buffer, 2, FrameSize)
  <2>3. p \in Seq(Unit) /\ Len(p) = WordSize /\ \A k \in 1 .. WordSize : p[k] = buffer[k + 1]
    BY <1>11 DEF FrameSize, B
  <2>4. \A k \in 1 .. WordSize : buffer[k + 1] = ServedUnit(r, k)
    BY <1>5, <1>8, <1>11 DEF FrameSize
  <2> HIDE DEF p, frame
  <2>5. p = Payload(frame)
    <3>1. \A k \in 1 .. Len(p) : p[k] = Payload(frame)[k]
      BY <2>2, <2>3, <2>4
    <3> QED
      BY <2>2, <2>3, <3>1, SeqEqual
  <2>6. <<p>> \o <<>> = <<p>>
    OBVIOUS
  <2> QED
    BY <1>11, <1>12, <2>1, <2>5, <2>6 DEF p
<1>15. Head(f[0].packets) = Payload(frame)
  BY <1>14
<1> DEFINE left == SubSeq(buffer, FrameSize + 1, B)
           units == left \o tail
<1>16. /\ left \in Seq(Unit) /\ Len(left) = B - FrameSize
       /\ \A i \in 1 .. B - FrameSize : left[i] = buffer[FrameSize + i]
  BY <1>5, <1>11 DEF B
<1> HIDE DEF left
<1>17. /\ units \in Seq(Unit) /\ Len(units) = (B - FrameSize) + Len(tail)
       /\ \A i \in 1 .. B - FrameSize : units[i] = left[i]
       /\ \A i \in 1 .. Len(tail) : units[(B - FrameSize) + i] = tail[i]
  <2>1. Joined(left \o tail, left, tail)
    BY <1>16, ConcatJoins
  <2> QED
    BY <1>16, <2>1 DEF Joined
<1> HIDE DEF units
<1>18. /\ s - (r + 1) \in Nat /\ Len(units) = (s - (r + 1)) * FrameSize
  <2>1. (s - r) * FrameSize = (s - (r + 1)) * FrameSize + FrameSize
    BY DEF FrameSize
  <2>2. Len(tail) \in Nat
    OBVIOUS
  <2>3. s - (r + 1) \in Nat /\ FrameSize \in Nat
    BY <1>7, <1>11
  <2> DEFINE n == (s - (r + 1)) * FrameSize
  <2>4. n \in Nat
    <3> DEFINE k == s - (r + 1)
    <3> HIDE DEF k
    <3>1. k \in Nat => k * FrameSize \in Nat
      BY <2>3
    <3> QED
      BY <2>3, <3>1 DEF k
  <2>5. Len(whole) = n + FrameSize
    BY <1>6, <2>1
  <2> HIDE DEF n
  <2>6. Len(units) = n
    BY <1>5, <1>17, <2>2, <2>3, <2>4, <2>5
  <2> QED
    BY <2>3, <2>6 DEF n
<1>19. ASSUME NEW i \in 1 .. Len(units) PROVE units[i] = whole[FrameSize + i]
  <2>1. Len(tail) \in Nat /\ FrameSize \in Nat
    BY <1>11
  <2>2. CASE i <= B - FrameSize
    <3>1. i \in 1 .. B - FrameSize /\ FrameSize + i \in 1 .. B
      BY <1>5, <1>11, <1>17, <2>1, <2>2
    <3> QED
      BY <1>5, <1>16, <1>17, <3>1
  <2>3. CASE ~(i <= B - FrameSize)
    <3> DEFINE m == i - (B - FrameSize)
    <3>1. m \in 1 .. Len(tail) /\ (B - FrameSize) + m = i /\ B + m = FrameSize + i
      BY <1>5, <1>11, <1>17, <2>1, <2>3
    <3> HIDE DEF m
    <3>2. units[(B - FrameSize) + m] = tail[m] /\ whole[B + m] = tail[m]
      BY <1>5, <1>17, <3>1
    <3> QED
      BY <3>1, <3>2
  <2> QED
    BY <2>2, <2>3
<1>20. ASSUME NEW k \in Nat, NEW j \in 0 .. WordSize, k < s - (r + 1)
       PROVE  units[k * FrameSize + j + 1] = ServedUnit((r + 1) + k, j)
  <2>1. k * FrameSize + j + 1 \in 1 .. Len(units)
    <3>1. r + 1 \in Nat /\ r + 1 <= s
      BY <1>7
    <3> QED
      BY <1>18, <1>20, <3>1, StreamUnit
  <2>2. units[k * FrameSize + j + 1] = whole[FrameSize + (k * FrameSize + j + 1)]
    BY <1>19, <2>1
  <2>3. k + 1 \in Nat /\ k + 1 < s - r /\ r + (k + 1) = (r + 1) + k
    BY <1>20
  <2>4. whole[(k + 1) * FrameSize + j + 1] = ServedUnit(r + (k + 1), j)
    <3> DEFINE m == k + 1
    <3>1. m \in Nat /\ m < s - r
      BY <2>3
    <3> HIDE DEF m
    <3>2. Stream(r, s)[m * FrameSize + j + 1] = ServedUnit(r + m, j)
      BY <3>1, StreamUnit
    <3> QED
      BY <1>6, <3>2 DEF m
  <2>5. (k + 1) * FrameSize + j + 1 = FrameSize + (k * FrameSize + j + 1)
    BY DEF FrameSize
  <2> QED
    BY <2>2, <2>3, <2>4, <2>5
<1>21. units = Stream(r + 1, s)
  <2> DEFINE q == r + 1
  <2>1. q \in Nat /\ q <= s
    BY <1>7
  <2>2. /\ units \in Seq(Unit) /\ Len(units) = (s - q) * FrameSize
        /\ \A k \in Nat, j \in 0 .. WordSize :
             k < s - q => units[k * FrameSize + j + 1] = ServedUnit(q + k, j)
    BY <1>17, <1>18, <1>20
  <2> HIDE DEF q
  <2>3. units = Stream(q, s)
    BY <2>1, <2>2, IsStream, SMTT(20)
  <2> QED
    BY <2>3 DEF q
<1> QED
  BY <1>1, <1>7, <1>13, <1>15, <1>21 DEF DecodedFirst, units, left, frame, B

-----------------------------------------------------------------------------
(* Every unit is of one of the n packets served, as long as they all are.  *)
Fresh(units, n) ==
  \A k \in DOMAIN units : units[k].packet < n /\ units[k].length = WordSize

(* The packets received are the first of those served, and the buffers and *)
(* the network hold the frames of the others.                              *)
ReceivedSoFar(whole) ==
  /\ Len(received) <= Len(served)
  /\ \A q \in 1 .. Len(received) : received[q] = served[q]
  /\ whole = Stream(Len(received), Len(served))

(* The stream from the server. The decoder's buffer, rx_buffer_ and the    *)
(* network together hold what has been served and not received.            *)
ReceiveInv ==
  /\ Fresh(rx_buffer, Len(served))
  /\ Fresh(codec.buffer, Len(served))
  /\ Fresh(incoming, Len(served))
  /\ \A q \in DOMAIN served :
       served[q] = Payload(Frame(active_protocol, q - 1, WordSize, q - 1))
  /\ tidy => ReceivedSoFar(codec.buffer \o (rx_buffer \o incoming))

StreamInv == NumbersInv /\ TypeOK /\ SendInv /\ ReceiveInv

LEMMA FreshJoined ==
  ASSUME NEW s \in Seq(Unit), NEW t \in Seq(Unit), NEW n \in Nat, NEW m \in Nat,
         n <= m, Fresh(s, n), Fresh(t, m)
  PROVE  Fresh(s \o t, m)
<1> DEFINE units == s \o t
<1>1. /\ DOMAIN units = 1 .. Len(s) + Len(t)
      /\ \A i \in 1 .. Len(s) : units[i] = s[i]
      /\ \A i \in 1 .. Len(t) : units[Len(s) + i] = t[i]
      /\ Len(s) \in Nat /\ Len(t) \in Nat
  OBVIOUS
<1> HIDE DEF units
<1>2. ASSUME NEW k \in DOMAIN units
      PROVE  units[k].packet < m /\ units[k].length = WordSize
  <2>1. CASE k \in 1 .. Len(s)
    <3>1. k \in DOMAIN s /\ s[k] \in Unit
      BY <2>1
    <3>2. s[k].packet \in Nat /\ s[k].packet < n /\ s[k].length = WordSize
      BY <3>1 DEF Fresh, Unit
    <3> QED
      BY <1>1, <2>1, <3>2
  <2>2. CASE k \notin 1 .. Len(s)
    <3> DEFINE i == k - Len(s)
    <3>1. i \in 1 .. Len(t) /\ Len(s) + i = k
      BY <1>1, <2>2
    <3> HIDE DEF i
    <3>2. i \in DOMAIN t /\ units[k] = t[i]
      BY <1>1, <3>1
    <3> QED
      BY <3>2 DEF Fresh
  <2> QED
    BY <2>1, <2>2
<1> QED
  BY <1>2 DEF Fresh, units

LEMMA FreshPart ==
  ASSUME NEW s \in Seq(Unit), NEW n \in Nat, Fresh(s, n),
         NEW i \in 1 .. Len(s) + 1, NEW j \in 0 .. Len(s)
  PROVE  SubSeq(s, i, j) \in Seq(Unit) /\ Fresh(SubSeq(s, i, j), n)
<1> DEFINE part == SubSeq(s, i, j)
<1>1. \A k \in i .. j : k \in DOMAIN s /\ s[k] \in Unit
  OBVIOUS
<1>2. /\ part \in Seq(Unit)
      /\ Len(part) = IF i <= j THEN j - i + 1 ELSE 0
      /\ \A k \in 1 .. j - i + 1 : part[k] = s[i + k - 1]
  BY <1>1, SubSeqProperties
<1> HIDE DEF part
<1>3. ASSUME NEW k \in DOMAIN part
      PROVE  part[k].packet < n /\ part[k].length = WordSize
  <2>1. k \in 1 .. j - i + 1 /\ i + k - 1 \in i .. j
    BY <1>2
  <2>2. part[k] = s[i + k - 1] /\ i + k - 1 \in DOMAIN s
    BY <1>1, <1>2, <2>1
  <2> QED
    BY <2>2 DEF Fresh
<1> QED
  BY <1>2, <1>3 DEF Fresh, part

LEMMA FreshFrame ==
  ASSUME NEW protocol, NEW q \in Nat
  PROVE  Fresh(Frame(protocol, q, WordSize, q), q + 1)
<1> DEFINE frame == Frame(protocol, q, WordSize, q)
<1>1. DOMAIN frame = 1 .. FrameSize
  BY ServedUnits DEF Framed, FrameSize
<1>2. \A k \in 1 .. FrameSize : frame[k] = ServedUnit(q, k - 1)
  BY ServedUnits
<1> HIDE DEF frame
<1> QED
  BY <1>1, <1>2 DEF Fresh, ServedUnit, frame
-----------------------------------------------------------------------------
Places == {"idle", "decode", "poll"}
Calls == [{"connect", "receive"} -> Nat]

(* Steps that touch neither stream.                                        *)
LEMMA QuietStreams ==
  ASSUME StreamInv, NumbersInv', pc' \in Places, calls' \in Calls,
         UNCHANGED <<connectionVars, incoming, served, received, tidy, outVars>>
  PROVE  StreamInv'
<1> USE DEF StreamInv, connectionVars, outVars
<1>1. TypeOK'
  BY DEF TypeOK, NumbersInv, Places, Calls
<1>2. SendInv'
  BY DEF SendInv, SentWellFramed, WellFramed
<1>3. ReceiveInv'
  BY DEF ReceiveInv, ReceivedSoFar
<1> QED
  BY <1>1, <1>2, <1>3

LEMMA EmptyStream == <<>> \o (<<>> \o <<>>) = Stream(0, 0)
<1>1. (0 - 0) * FrameSize = 0
  BY DEF FrameSize
<1>2. Len(Stream(0, 0)) = 0 /\ Stream(0, 0) \in Seq(Unit)
  BY <1>1, StreamProperties
<1> QED
  BY <1>2

(* disconnect, and connect, which starts with it.                          *)
LEMMA ResetStreams ==
  ASSUME NumbersInv', NEW s \in Dc \cup {UnknownDc}, Disconnected(s),
         active_dc' \in Dc, active_protocol' \in Protocol,
         pc' \in Places, calls' \in Calls
  PROVE  StreamInv'
<1> USE DEF Disconnected
<1>1. TypeOK'
  <2>1. <<>> \in Seq(Unit) /\ <<>> \in Seq(Seq(Unit))
    OBVIOUS
  <2> QED
    BY <2>1 DEF TypeOK, NumbersInv, NewCodec, Places, Calls
<1>2. SendInv'
  <2>1. WellFramed'
    BY EmptyFramed DEF WellFramed
  <2>2. codec'.out_seq_no = 0 /\ Len(outbox') = 0
    BY DEF NewCodec
  <2> QED
    BY <2>1, <2>2 DEF SendInv, SentWellFramed
<1>3. ReceiveInv'
  <2>1. codec'.buffer = <<>> /\ rx_buffer' = <<>> /\ incoming' = <<>>
        /\ received' = <<>> /\ served' = <<>>
    BY DEF NewCodec
  <2>3. Len(<<>>) = 0 /\ DOMAIN <<>> = {}
    OBVIOUS
  <2>4. ReceivedSoFar(<<>>)'
    BY <2>1, <2>3, EmptyStream DEF ReceivedSoFar
  <2> QED
    BY <2>1, <2>3, <2>4 DEF ReceiveInv, Fresh
<1> QED
  BY <1>1, <1>2, <1>3 DEF StreamInv

(* The three ways to send.                                                 *)
LEMMA WriteStreams ==
  ASSUME StreamInv, NumbersInv', NEW n \in Nat, Write(n),
         UNCHANGED <<socket, rx_buffer, active_dc, active_protocol, inVars, calls>>
  PROVE  StreamInv'
<1> USE DEF StreamInv, inVars
<1>1. TypeOK'
  <2>1. /\ codec' \in [buffer : Seq(Unit), out_seq_no : Nat]
        /\ wire' \in Seq(Unit)
        /\ outbox' \in Seq(Seq(Unit))
        /\ torn' \in BOOLEAN
    BY WriteType
  <2>2. SessionTypeOK'
    BY DEF NumbersInv
  <2> QED
    BY <2>1, <2>2 DEF TypeOK
<1>2. SendInv'
  BY WriteFramed
<1>3. ReceiveInv'
  <2>1. codec'.buffer = codec.buffer
    BY DEF Write, TypeOK
  <2> QED
    BY <2>1 DEF ReceiveInv, ReceivedSoFar
<1> QED
  BY <1>1, <1>2, <1>3

LEMMA ServeStreams ==
  ASSUME StreamInv, NumbersInv', Serve
  PROVE  StreamInv'
<1> DEFINE s == Len(served)
           frame == Frame(active_protocol, s, WordSize, s)
<1>1. /\ incoming' = incoming \o frame
      /\ served' = Append(served, Payload(frame))
      /\ UNCHANGED <<connectionVars, pc, received, tidy, outVars, calls>>
  BY DEF Serve
<1>2. /\ s \in Nat /\ incoming \in Seq(Unit) /\ served \in Seq(Seq(Unit))
      /\ rx_buffer \in Seq(Unit) /\ codec.buffer \in Seq(Unit)
      /\ received \in Seq(Seq(Unit))
  BY DEF StreamInv, TypeOK
<1>3. Framed(frame, active_protocol, s, WordSize, s) /\ Fresh(frame, s + 1)
  BY <1>2, ServedUnits, FreshFrame
<1> HIDE DEF frame
<1>4. frame \in Seq(Unit) /\ Payload(frame) \in Seq(Unit)
  BY <1>3 DEF Framed
<1>5. /\ incoming' \in Seq(Unit) /\ served' \in Seq(Seq(Unit)) /\ Len(served') = s + 1
      /\ served'[s + 1] = Payload(frame)
      /\ \A q \in 1 .. s : served'[q] = served[q]
  BY <1>1, <1>2, <1>4
<1>6. TypeOK'
  BY <1>1, <1>5 DEF StreamInv, TypeOK, NumbersInv, connectionVars, outVars
<1>7. SendInv'
  BY <1>1 DEF StreamInv, SendInv, SentWellFramed, WellFramed, connectionVars, outVars
<1>8. ReceiveInv'
  <2>1. Fresh(rx_buffer, s) /\ Fresh(codec.buffer, s) /\ Fresh(incoming, s)
    BY DEF StreamInv, ReceiveInv
  <2>2. Fresh(rx_buffer, s + 1) /\ Fresh(codec.buffer, s + 1)
    <3>1. ASSUME NEW units \in Seq(Unit), Fresh(units, s) PROVE Fresh(units, s + 1)
      <4>1. ASSUME NEW k \in DOMAIN units
            PROVE  units[k].packet < s + 1 /\ units[k].length = WordSize
        <5>1. units[k] \in Unit
          BY <4>1
        <5>2. units[k].packet \in Nat /\ units[k].packet < s /\ units[k].length = WordSize
          BY <3>1, <4>1, <5>1 DEF Fresh, Unit
        <5> QED
          BY <1>2, <5>2
      <4> QED
        BY <4>1 DEF Fresh
    <3> QED
      BY <1>2, <2>1, <3>1
  <2>3. Fresh(incoming', s + 1)
    BY <1>1, <1>2, <1>3, <1>4, <2>1, FreshJoined
  <2>4. ASSUME NEW q \in DOMAIN served'
        PROVE  served'[q] = Payload(Frame(active_protocol, q - 1, WordSize, q - 1))
    <3>1. CASE q \in DOMAIN served
      <4>1. served'[q] = served[q]
        <5>1. q \in 1 .. s
          BY <1>2, <3>1
        <5> QED
          BY <1>5, <5>1
      <4>2. served[q] = Payload(Frame(active_protocol, q - 1, WordSize, q - 1))
        BY <3>1 DEF StreamInv, ReceiveInv
      <4> QED
        BY <4>1, <4>2
    <3>2. CASE q \notin DOMAIN served
      <4>1. q = s + 1 /\ q - 1 = s
        BY <1>2, <1>5, <3>2
      <4> QED
        BY <1>5, <4>1 DEF frame
    <3> QED
      BY <3>1, <3>2
  <2>5. ASSUME tidy
        PROVE  ReceivedSoFar(codec.buffer \o (rx_buffer \o incoming))'
    <3> DEFINE r == Len(received)
    <3>1. /\ r \in Nat /\ r <= s
          /\ \A q \in 1 .. r : received[q] = served[q]
          /\ codec.buffer \o (rx_buffer \o incoming) = Stream(r, s)
      <4>1. r \in Nat
        BY <1>2
      <4>2. ReceivedSoFar(codec.buffer \o (rx_buffer \o incoming))
        BY <2>5 DEF StreamInv, ReceiveInv
      <4> QED
        BY <4>1, <4>2 DEF ReceivedSoFar
    <3>2. codec.buffer \o (rx_buffer \o (incoming \o frame)) = Stream(r, s) \o frame
      <4>1. codec.buffer \o (rx_buffer \o (incoming \o frame)) =
              (codec.buffer \o (rx_buffer \o incoming)) \o frame
        <5>1. /\ codec.buffer \in Seq(Unit) /\ rx_buffer \in Seq(Unit)
              /\ incoming \in Seq(Unit) /\ frame \in Seq(Unit)
          BY <1>2, <1>4
        <5> DEFINE b == codec.buffer
        <5> HIDE DEF b, s
        <5>2. b \in Seq(Unit)
          BY <5>1 DEF b
        <5>3. b \o (rx_buffer \o (incoming \o frame)) = (b \o (rx_buffer \o incoming)) \o frame
          BY <5>1, <5>2, SMTT(20)
        <5> QED
          BY <5>3 DEF b
      <4> QED
        BY <3>1, <4>1
    <3>3. Stream(r, s) \o frame = Stream(r, s + 1)
      BY <1>2, <3>1, StreamServe DEF frame
    <3>4. /\ r <= s + 1 /\ \A q \in 1 .. r : received[q] = served'[q]
      BY <1>2, <1>5, <3>1
    <3> QED
      BY <1>1, <1>5, <3>2, <3>3, <3>4 DEF ReceivedSoFar, connectionVars
  <2> QED
    BY <1>1, <1>5, <2>2, <2>3, <2>4, <2>5 DEF ReceiveInv, connectionVars
<1> QED
  BY <1>6, <1>7, <1>8 DEF StreamInv

(* A chunk arrives: the whole of what was served stays the same.           *)
LEMMA PollStreams ==
  ASSUME StreamInv, NumbersInv', PollChunk
  PROVE  StreamInv'
<1>1. /\ incoming \in Seq(Unit) /\ rx_buffer \in Seq(Unit) /\ codec.buffer \in Seq(Unit)
      /\ Fresh(rx_buffer, Len(served)) /\ Fresh(incoming, Len(served))
      /\ Len(served) \in Nat
  BY DEF StreamInv, TypeOK, ReceiveInv
<1>2. PICK n \in 1 .. Len(incoming) :
        /\ rx_buffer' = rx_buffer \o SubSeq(incoming, 1, n)
        /\ incoming' = SubSeq(incoming, n + 1, Len(incoming))
  BY DEF PollChunk
<1> DEFINE chunk == SubSeq(incoming, 1, n)
           rest == SubSeq(incoming, n + 1, Len(incoming))
<1>3. /\ pc' = "decode"
      /\ UNCHANGED <<socket, codec, active_dc, active_protocol, served, received,
                     tidy, outVars, calls>>
  BY DEF PollChunk
<1>4. /\ chunk \in Seq(Unit) /\ Fresh(chunk, Len(served))
      /\ rest \in Seq(Unit) /\ Fresh(rest, Len(served))
  <2>1. 1 \in 1 .. Len(incoming) + 1 /\ n \in 0 .. Len(incoming)
        /\ n + 1 \in 1 .. Len(incoming) + 1 /\ Len(incoming) \in 0 .. Len(incoming)
    BY <1>1
  <2> QED
    BY <1>1, <2>1, FreshPart
<1>5. chunk \o rest = incoming
  BY <1>1
<1> HIDE DEF chunk, rest
<1>6. rx_buffer' = rx_buffer \o chunk /\ incoming' = rest
  BY <1>2 DEF chunk, rest
<1>7. rx_buffer' \in Seq(Unit) /\ incoming' \in Seq(Unit)
  BY <1>1, <1>4, <1>6
<1>8. TypeOK'
  BY <1>3, <1>7 DEF StreamInv, TypeOK, NumbersInv, outVars
<1>9. SendInv'
  BY <1>3 DEF StreamInv, SendInv, SentWellFramed, WellFramed, outVars
<1>10. ReceiveInv'
  <2>1. Fresh(rx_buffer', Len(served)) /\ Fresh(incoming', Len(served))
    BY <1>1, <1>4, <1>6, FreshJoined
  <2>2. codec.buffer \o (rx_buffer' \o incoming') = codec.buffer \o (rx_buffer \o incoming)
    <3>1. (rx_buffer \o chunk) \o rest = rx_buffer \o (chunk \o rest)
      BY <1>1, <1>4, SMTT(20)
    <3> QED
      BY <1>5, <1>6, <3>1
  <2> QED
    BY <1>3, <2>1, <2>2 DEF StreamInv, ReceiveInv, ReceivedSoFar
<1> QED
  BY <1>8, <1>9, <1>10 DEF StreamInv

(* decode_packets: exactly one packet found is the next one served.        *)
LEMMA DecodeStreams ==
  ASSUME StreamInv, NumbersInv', NEW other \in Nat, DecodeBuffer(other)
  PROVE  StreamInv'
<1> DEFINE buffer == codec.buffer \o rx_buffer
           result == Decode(active_protocol, buffer, other)
           n == Len(served)
           left == SubSeq(buffer, result.offset + 1, Len(buffer))
<1>1. /\ incoming \in Seq(Unit) /\ rx_buffer \in Seq(Unit)
      /\ codec \in [buffer : Seq(Unit), out_seq_no : Nat] /\ codec.buffer \in Seq(Unit)
      /\ received \in Seq(Seq(Unit)) /\ n \in Nat /\ tidy \in BOOLEAN
      /\ Fresh(rx_buffer, n) /\ Fresh(codec.buffer, n)
  BY DEF StreamInv, TypeOK, ReceiveInv
<1>2. buffer \in Seq(Unit) /\ Fresh(buffer, n)
  BY <1>1, FreshJoined
<1>3. result \in Result(buffer, 0)
  <2> HIDE DEF buffer
  <2> QED
    BY <1>2, DecodeType
<1>4. /\ UNCHANGED <<sessionVars, socket, active_dc, active_protocol, incoming,
                     served, outVars, calls>>
      /\ \/ /\ codec' = [codec EXCEPT !.buffer = buffer]
            /\ pc' = "idle" /\ tidy' = FALSE /\ UNCHANGED <<rx_buffer, received>>
         \/ /\ codec' = [codec EXCEPT !.buffer = left]
            /\ tidy' = (tidy /\ Len(result.packets) = 1)
            /\ \/ /\ result.packets = <<>>
                  /\ pc' = "poll" /\ UNCHANGED <<rx_buffer, received>>
               \/ /\ result.packets # <<>>
                  /\ pc' = "idle" /\ rx_buffer' = <<>>
                  /\ received' = Append(received, Head(result.packets))
  BY DEF DecodeBuffer
<1> HIDE DEF buffer, result
<1>5. left \in Seq(Unit) /\ Fresh(left, n)
  <2> DEFINE offset == result.offset
  <2>1. offset \in 0 .. Len(buffer) /\ Len(buffer) \in Nat
    BY <1>2, <1>3 DEF Result
  <2> HIDE DEF offset
  <2>2. offset + 1 \in 1 .. Len(buffer) + 1 /\ Len(buffer) \in 0 .. Len(buffer)
    BY <2>1
  <2>3. SubSeq(buffer, offset + 1, Len(buffer)) \in Seq(Unit)
        /\ Fresh(SubSeq(buffer, offset + 1, Len(buffer)), n)
    BY <1>1, <1>2, <2>2, FreshPart
  <2> QED
    BY <2>3 DEF offset
<1> HIDE DEF left
<1>6. \E kept \in {buffer, left} : codec' = [codec EXCEPT !.buffer = kept]
  BY <1>4
<1>7. /\ codec' \in [buffer : Seq(Unit), out_seq_no : Nat]
      /\ codec'.out_seq_no = codec.out_seq_no
      /\ codec'.buffer \in {buffer, left}
  BY <1>1, <1>2, <1>5, <1>6
<1>8. rx_buffer' \in Seq(Unit) /\ Fresh(rx_buffer', n)
  <2>1. rx_buffer' = rx_buffer \/ rx_buffer' = <<>>
    BY <1>4
  <2>2. <<>> \in Seq(Unit) /\ DOMAIN <<>> = {}
    OBVIOUS
  <2>3. Fresh(<<>>, n)
    BY <2>2 DEF Fresh
  <2> QED
    BY <1>1, <2>1, <2>2, <2>3
<1>9. received' \in Seq(Seq(Unit))
  <2>1. CASE received' = received
    BY <1>1, <2>1
  <2>2. CASE result.packets # <<>> /\ received' = Append(received, Head(result.packets))
    <3> DEFINE packets == result.packets
    <3>1. packets \in Seq(Seq(Unit)) /\ packets # <<>>
      BY <1>3, <2>2 DEF Result
    <3> HIDE DEF packets
    <3>2. Head(packets) \in Seq(Unit)
      BY <3>1
    <3> QED
      BY <1>1, <2>2, <3>2 DEF packets
  <2> QED
    BY <1>4, <2>1, <2>2
<1>10. tidy' \in BOOLEAN /\ pc' \in {"idle", "decode", "poll"}
  BY <1>4
<1>11. TypeOK'
  BY <1>4, <1>7, <1>8, <1>9, <1>10 DEF StreamInv, TypeOK, NumbersInv, outVars
<1>12. SendInv'
  BY <1>4, <1>7 DEF StreamInv, SendInv, SentWellFramed, WellFramed, outVars
<1>13. ReceiveInv'
  <2>1. Fresh(rx_buffer', n) /\ Fresh(codec'.buffer, n)
    BY <1>2, <1>5, <1>7, <1>8
  <2>2. ASSUME tidy'
        PROVE  ReceivedSoFar(codec.buffer \o (rx_buffer \o incoming))'
    <3> DEFINE r == Len(received)
    <3>1. /\ tidy /\ Len(result.packets) = 1
          /\ codec' = [codec EXCEPT !.buffer = left]
      BY <1>4, <2>2
    <3>2. result.packets # <<>>
      BY <3>1, EmptyHasNone
    <3>3. rx_buffer' = <<>> /\ received' = Append(received, Head(result.packets))
      BY <1>4, <2>2, <3>2
    <3>4. r \in Nat
      BY <1>1
    <3>5. /\ r <= n
          /\ \A q \in 1 .. r : received[q] = served[q]
          /\ codec.buffer \o (rx_buffer \o incoming) = Stream(r, n)
      BY <3>1 DEF StreamInv, ReceiveInv, ReceivedSoFar
    <3>6. buffer \o incoming = Stream(r, n)
      <4>1. (codec.buffer \o rx_buffer) \o incoming = codec.buffer \o (rx_buffer \o incoming)
        BY <1>1
      <4> QED
        BY <3>5, <4>1 DEF buffer
    <3> HIDE DEF r, n
    <3>7. DecodedFirst(active_protocol, buffer, incoming, result, r, n)
      BY <1>1, <1>2, <3>1, <3>4, <3>5, <3>6, DecodeFirst DEF result
    <3>8. /\ r < n
          /\ Head(result.packets) = Payload(Frame(active_protocol, r, WordSize, r))
          /\ left \o incoming = Stream(r + 1, n)
      BY <3>7 DEF DecodedFirst, left
    <3>9. Head(result.packets) = served[r + 1]
      <4>1. r + 1 \in DOMAIN served /\ (r + 1) - 1 = r
        BY <1>1, <3>4, <3>8 DEF n, StreamInv, TypeOK
      <4>2. \A q \in DOMAIN served :
              served[q] = Payload(Frame(active_protocol, q - 1, WordSize, q - 1))
        BY DEF StreamInv, ReceiveInv
      <4> QED
        BY <3>8, <4>1, <4>2
    <3>10. /\ Len(received') = r + 1 /\ r + 1 <= n
           /\ \A q \in 1 .. r + 1 : received'[q] = served[q]
      <4>1. /\ Len(received') = r + 1 /\ received'[r + 1] = Head(result.packets)
            /\ \A q \in 1 .. r : received'[q] = received[q]
        BY <1>1, <3>3 DEF r
      <4>2. r + 1 <= n
        BY <1>1, <3>4, <3>8
      <4> QED
        BY <3>4, <3>5, <3>9, <4>1, <4>2
    <3>11. codec'.buffer \o (rx_buffer' \o incoming) = Stream(r + 1, n)
      <4>1. codec'.buffer = left
        BY <1>1, <3>1
      <4>2. <<>> \o incoming = incoming
        BY <1>1
      <4> QED
        BY <3>3, <3>8, <4>1, <4>2
    <3> QED
      BY <1>4, <3>10, <3>11 DEF ReceivedSoFar, n
  <2>3. /\ \A q \in DOMAIN served :
             served[q] = Payload(Frame(active_protocol, q - 1, WordSize, q - 1))
        /\ Fresh(incoming, n)
    BY DEF StreamInv, ReceiveInv
  <2>4. incoming' = incoming /\ served' = served /\ active_protocol' = active_protocol
    BY <1>4
  <2> QED
    BY <2>1, <2>2, <2>3, <2>4 DEF ReceiveInv
<1> QED
  BY <1>11, <1>12, <1>13 DEF StreamInv

LEMMA InitStreams == Init => StreamInv
<1> SUFFICES ASSUME Init PROVE StreamInv
  OBVIOUS
<1> USE DEF Init
<1>1. NumbersInv
  BY InitNumbers
<1>2. TypeOK
  <2>1. <<>> \in Seq(Unit) /\ <<>> \in Seq(Seq(Unit))
    OBVIOUS
  <2>2. SessionTypeOK
    BY <1>1 DEF NumbersInv
  <2>3. codec \in [buffer : Seq(Unit), out_seq_no : Nat]
    BY <2>1 DEF NewCodec
  <2>4. calls \in [{"connect", "receive"} -> Nat]
    OBVIOUS
  <2>5. active_protocol \in Protocol /\ pc \in {"idle", "decode", "poll"}
    BY DEF Protocol
  <2> QED
    BY <2>1, <2>2, <2>3, <2>4, <2>5 DEF TypeOK, Init
<1>3. SendInv
  <2>1. WellFramed
    BY EmptyFramed DEF WellFramed
  <2>2. active_protocol # "Full"
    OBVIOUS
  <2> QED
    BY <2>1, <2>2 DEF SendInv, SentWellFramed
<1>4. ReceiveInv
  <2>1. codec.buffer = <<>> /\ rx_buffer = <<>> /\ incoming = <<>>
        /\ received = <<>> /\ served = <<>>
    BY DEF NewCodec
  <2>2. Len(<<>>) = 0 /\ DOMAIN <<>> = {}
    OBVIOUS
  <2> QED
    BY <2>1, <2>2, EmptyStream DEF ReceiveInv, ReceivedSoFar, Fresh
<1> QED
  BY <1>1, <1>2, <1>3, <1>4 DEF StreamInv

LEMMA NextStreams == StreamInv /\ [Next]_vars => StreamInv'
<1> SUFFICES ASSUME StreamInv, [Next]_vars PROVE StreamInv'
  OBVIOUS
<1>1. NumbersInv'
  BY NextNumbers DEF StreamInv
<1>2. /\ calls \in Calls /\ pc \in Places /\ active_dc \in Dc
      /\ active_protocol \in Protocol
  BY DEF StreamInv, TypeOK, Calls, Places
<1>3. WordSize \in Nat /\ WordSize + 1 \in Nat /\ 2 * WordSize \in Nat
  OBVIOUS
<1>4. ASSUME NEW encrypted \in BOOLEAN, NEW n \in PayloadSize(encrypted), Write(n),
             UNCHANGED <<socket, rx_buffer, active_dc, active_protocol, inVars, calls>>
      PROVE  StreamInv'
  <2>1. n \in Nat
    BY <1>3 DEF PayloadSize
  <2> QED
    BY <1>1, <1>4, <2>1, WriteStreams
<1>5. CASE Disconnect
  BY <1>1, <1>2, <1>5, ResetStreams DEF Disconnect
<1>6. ASSUME NEW dc \in Dc \cup {UnknownDc}, NEW protocol \in Protocol,
             Connect(dc, protocol)
      PROVE  StreamInv'
  <2>1. PICK s \in {UnknownDc, dc} : Disconnected(s)
    BY <1>6 DEF Connect
  <2>2. active_dc' \in Dc /\ active_protocol' \in Protocol /\ pc' \in Places
    BY <1>2, <1>6 DEF Connect
  <2>3. calls' \in Calls
    <3>1. calls.connect + 1 \in Nat
      BY <1>2 DEF Calls
    <3>2. calls' = [connect |-> calls.connect + 1, receive |-> 0]
      BY <1>6 DEF Connect
    <3> QED
      BY <3>1, <3>2 DEF Calls
  <2> QED
    BY <1>1, <2>1, <2>2, <2>3, ResetStreams
<1>7. ASSUME NEW t \in Clock, SendUnencrypted(t) PROVE StreamInv'
  BY <1>4, <1>7 DEF SendUnencrypted
<1>8. ASSUME NEW t \in Clock, NEW content \in BOOLEAN, SendEncrypted(t, content)
      PROVE  StreamInv'
  BY <1>4, <1>8 DEF SendEncrypted
<1>9. ASSUME NEW t \in Clock, Ping(t) PROVE StreamInv'
  <2>1. CASE Connected /\ auth_key
    BY <1>4, <1>9, <2>1 DEF Ping
  <2>2. CASE ~(Connected /\ auth_key)
    <3>1. UNCHANGED <<codec, outVars, socket, rx_buffer, active_dc, active_protocol,
                      inVars, calls>>
      BY <1>9, <2>2 DEF Ping
    <3> QED
      BY <1>1, <1>2, <3>1, QuietStreams DEF connectionVars, inVars
  <2> QED
    BY <2>1, <2>2
<1>10. CASE SetKey
  BY <1>1, <1>2, <1>10, QuietStreams DEF SetKey, inVars
<1>11. CASE Serve
  BY <1>1, <1>11, ServeStreams
<1>12. CASE Receive
  <2>1. calls' \in Calls /\ pc' \in Places
    <3>1. calls.receive + 1 \in Nat
      BY <1>2 DEF Calls
    <3>2. calls' = [calls EXCEPT !.receive = @ + 1]
          /\ pc' = IF rx_buffer = <<>> THEN "poll" ELSE "decode"
      BY <1>12 DEF Receive
    <3> QED
      BY <1>2, <3>1, <3>2 DEF Calls, Places
  <2> QED
    BY <1>1, <1>12, <2>1, QuietStreams DEF Receive
<1>13. ASSUME NEW other \in {0, 2 * WordSize}, DecodeBuffer(other) PROVE StreamInv'
  <2>1. other \in Nat
    BY <1>3
  <2> QED
    BY <1>1, <1>13, <2>1, DecodeStreams
<1>14. CASE PollChunk
  BY <1>1, <1>14, PollStreams
<1>15. CASE PollNothing
  BY <1>1, <1>2, <1>15, QuietStreams DEF PollNothing, Places
<1>16. CASE UNCHANGED vars
  BY <1>1, <1>2, <1>16, QuietStreams DEF vars, inVars
<1> QED
  BY <1>5, <1>6, <1>7, <1>8, <1>9, <1>10, <1>11, <1>12, <1>13, <1>14, <1>15, <1>16
  DEF Next

LEMMA StreamsFollow == StreamInv => TypeOK /\ StreamsIntact
<1> SUFFICES ASSUME StreamInv PROVE TypeOK /\ StreamsIntact
  OBVIOUS
<1>1. TypeOK /\ SentWellFramed
  BY DEF StreamInv, SendInv
<1>2. NoStaleBytes
  <2>1. Announced(active_protocol, WordSize) = WordSize
    BY ServedUnits
  <2>2. Fresh(rx_buffer, Len(served)) /\ Fresh(codec.buffer, Len(served))
    BY DEF StreamInv, ReceiveInv
  <2> QED
    BY <2>1, <2>2 DEF NoStaleBytes, Fresh
<1>3. ASSUME tidy PROVE IsPrefixOf(received, served)
  <2> DEFINE r == Len(received)
  <2>1. /\ received \in Seq(Seq(Unit)) /\ served \in Seq(Seq(Unit))
        /\ r <= Len(served)
        /\ \A q \in 1 .. r : received[q] = served[q]
    BY <1>3 DEF StreamInv, TypeOK, ReceiveInv, ReceivedSoFar
  <2>2. /\ SubSeq(served, 1, r) \in Seq(Seq(Unit)) /\ Len(SubSeq(served, 1, r)) = r
        /\ \A q \in 1 .. r : SubSeq(served, 1, r)[q] = served[q]
    BY <2>1
  <2>3. \A q \in 1 .. r : received[q] = SubSeq(served, 1, r)[q]
    BY <2>1, <2>2
  <2>4. received = SubSeq(served, 1, r)
    BY <2>1, <2>2, <2>3, SeqEqual
  <2> QED
    BY <2>1, <2>4 DEF IsPrefixOf
<1> QED
  BY <1>1, <1>2, <1>3 DEF StreamsIntact, ReceivedIntact

(* The client, its session, its codec and its two streams keep their types. *)
THEOREM TypeCorrect == Spec => []TypeOK
BY InitStreams, NextStreams, StreamsFollow, PTL DEF Spec

(* However the network cuts the stream and wherever a send breaks off, what *)
(* receive_response returned is what the server sent, in order, as long as  *)
(* every decode found one packet; no byte of an earlier connection is left  *)
(* in a buffer; and what send_packet wrote decodes to what it was given,    *)
(* unless a send failed half way or an abridged packet had to be padded.    *)
THEOREM StreamsAlwaysIntact == Spec => []StreamsIntact
BY InitStreams, NextStreams, StreamsFollow, PTL DEF Spec
=============================================================================
