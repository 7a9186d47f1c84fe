------------------------------- MODULE Session -------------------------------
(***************************************************************************)
(* Message identifiers and sequence numbers of an MTProto session          *)
(* (src/core/session.cpp). A session outlives its connections and is used  *)
(* by one thread. The clock may stand still or go back, and its offset may *)
(* be changed at any time, so that the time of a message is any number.    *)
(***************************************************************************)
EXTENDS Naturals, Sequences

CONSTANTS Clock    \* times, in units of four: the two lowest bits are cleared

ASSUME ClockAssumption == Clock \subseteq Nat

VARIABLES
  auth_key,        \* whether auth_key_ has its 256 bytes
  last_msg_id,     \* last_msg_id_
  content_seq_no,  \* content_seq_no_
  packed           \* history: the messages packed, encrypted or not

sessionVars == <<auth_key, last_msg_id, content_seq_no, packed>>

(* An unencrypted message carries no sequence number.                      *)
Message == [id : Nat, seq : Nat, content : BOOLEAN, encrypted : BOOLEAN]

SessionTypeOK ==
  /\ auth_key \in BOOLEAN
  /\ last_msg_id \in Nat
  /\ content_seq_no \in Nat
  /\ packed \in Seq(Message)

SessionInit ==
  /\ auth_key = FALSE
  /\ last_msg_id = 0
  /\ content_seq_no = 0
  /\ packed = <<>>

-----------------------------------------------------------------------------
(* Bug: a clock that stands still gives the same identifier twice. *)
MsgIdRepeated(t) == IF 4 * t < last_msg_id THEN last_msg_id + 4 ELSE 4 * t

(* generate_msg_id at time t.                                              *)
MsgId(t) == IF 4 * t <= last_msg_id THEN last_msg_id + 4 ELSE 4 * t

(* generate_seq_no.                                                        *)
SeqNo(content) == IF content THEN 2 * content_seq_no + 1 ELSE 2 * content_seq_no

SetAuthKey ==
  /\ auth_key' \in BOOLEAN
  /\ UNCHANGED <<last_msg_id, content_seq_no, packed>>

GenerateMsgId(t) ==
  /\ last_msg_id' = MsgId(t)
  /\ UNCHANGED <<auth_key, content_seq_no, packed>>

PackUnencrypted(t) ==
  /\ last_msg_id' = MsgId(t)
  /\ packed' = Append(packed, [id |-> MsgId(t), seq |-> 0, content |-> FALSE,
                               encrypted |-> FALSE])
  /\ UNCHANGED <<auth_key, content_seq_no>>

(* Without a key it throws before it takes an identifier.                  *)
PackEncrypted(t, content) ==
  /\ auth_key
  /\ last_msg_id' = MsgId(t)
  /\ content_seq_no' = IF content THEN content_seq_no + 1 ELSE content_seq_no
  /\ packed' = Append(packed, [id |-> MsgId(t), seq |-> SeqNo(content),
                               content |-> content, encrypted |-> TRUE])
  /\ UNCHANGED auth_key

SessionNext ==
  \/ SetAuthKey
  \/ \E t \in Clock : GenerateMsgId(t) \/ PackUnencrypted(t)
  \/ \E t \in Clock, content \in BOOLEAN : PackEncrypted(t, content)

SessionSpec == SessionInit /\ [][SessionNext]_sessionVars

-----------------------------------------------------------------------------
(* Whatever the clock does, and across reconnections, a later message has  *)
(* a greater identifier, a multiple of four. Sequence numbers follow the   *)
(* identifiers: they never decrease, one that counts is odd and is used    *)
(* once, and one that does not is even.                                    *)
NumbersFollow ==
  /\ \A i \in DOMAIN packed :
       /\ packed[i].id % 4 = 0
       /\ packed[i].encrypted => packed[i].seq % 2 = (IF packed[i].content THEN 1 ELSE 0)
  /\ \A i, j \in DOMAIN packed :
       i < j => /\ packed[i].id < packed[j].id
                /\ packed[i].encrypted /\ packed[j].encrypted =>
                     IF packed[i].content THEN packed[i].seq < packed[j].seq
                                          ELSE packed[i].seq <= packed[j].seq
=============================================================================
