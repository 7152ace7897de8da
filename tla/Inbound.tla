------------------------------ MODULE Inbound ------------------------------
(***************************************************************************)
(* What the response handlers of mqttnox.c read out of a packet, byte by   *)
(* byte at their offsets, what they answer, and what the callback of       *)
(* main.c makes of the event.  One packet is in rcv_buf at a time, whole   *)
(* and at its beginning (RcvFraming says when that is so); the bytes       *)
(* behind it are those of earlier packets.                                 *)
(*                                                                         *)
(* A byte is a number.  Topics and payloads are sequences of non-zero      *)
(* bytes, as the callback's printf takes them.                             *)
(***************************************************************************)
EXTENDS Integers, Sequences, SequencesExt

CONSTANTS
  Packets,   \* the packets the broker may send
  BufSize,   \* c->rcv_buf_size (4096)
  AppBuf,    \* size of topic and payload in main.c (256)
  LenBase,   \* values of a length byte before it is continued (128)
  WordMod,   \* values of a uint16_t (65536)
  MaxPackets \* bound: packets received

VARIABLES
  phase,    \* "recv", "dispatch", "event", "beyond" (a copy of the callback left
            \* its buffer) or "unended" (its printf did)
  rcv_buf,  \* c->rcv_buf
  evt,      \* the event data a handler passes on
  topic,    \* main.c's topic and payload
  payload,
  pkt,      \* history: the packet in rcv_buf
  reply,    \* history: the function called to reply, and its identifier
  printed,  \* history: the topic and payload the callback printed last
  longest,  \* history: the longest payload copied so far
  count     \* packets received

vars == <<phase, rcv_buf, evt, topic, payload, pkt, reply, printed, longest, count>>

----------------------------------------------------------------------------
(* The broker's packets (external)                                         *)

TypeNum == [CONNACK |-> 2, PUBLISH |-> 3, PUBACK |-> 4, PUBREC |-> 5, PUBREL |-> 6,
            PUBCOMP |-> 7, SUBACK |-> 9, UNSUBACK |-> 11]
Flags(p) == CASE p.type = "PUBLISH" -> p.qos * 2 [] p.type = "PUBREL" -> 2 [] OTHER -> 0
RemainLen(n) ==
  IF n < LenBase THEN <<n>> ELSE <<LenBase + (n % LenBase), n \div LenBase>>

BodyOf(p) ==
  CASE p.type = "CONNACK" -> <<p.session, p.code>>
    [] p.type = "PUBLISH" ->
         <<Len(p.topic) \div 256, Len(p.topic) % 256>> \o p.topic \o (IF p.qos > 0 THEN p.id ELSE <<>>) \o p.payload
    [] p.type = "SUBACK" -> p.id \o <<p.code>>
    [] OTHER -> p.id
BytesOf(p) ==
  <<TypeNum[p.type] * 16 + Flags(p)>> \o RemainLen(Len(BodyOf(p))) \o BodyOf(p)

\* What a broker may send, as far as it fits into rcv_buf.
Byte == 0 .. 255
Text == Seq(1 .. 255)
Ident == Byte \X Byte
Publish == [type : {"PUBLISH"}, qos : 0 .. 2, id : Ident, topic : Text, payload : Text]
Ack == [type : {"PUBACK", "PUBREC", "PUBREL", "PUBCOMP", "UNSUBACK"}, id : Ident]
Suback == [type : {"SUBACK"}, id : Ident, code : Byte]
Connack == [type : {"CONNACK"}, session : 0 .. 1, code : Byte]
Packet == Publish \cup Ack \cup Suback \cup Connack

ASSUME InboundAssumption ==
  /\ BufSize \in Nat \ {0} /\ AppBuf \in Nat \ {0} /\ MaxPackets \in Nat
  /\ LenBase \in Nat /\ LenBase > 2 /\ BufSize <= LenBase * LenBase
  /\ WordMod \in Nat /\ WordMod > BufSize /\ WordMod > AppBuf + 2
  /\ \A p \in Packets : p \in Packet /\ Len(BytesOf(p)) <= BufSize

----------------------------------------------------------------------------
(* The receive thread and the handlers                                     *)

NoEvent == [evt_id |-> "none"]
NoReply == [fn |-> "none", id |-> 0]

receive ==
  /\ phase = "recv" /\ count < MaxPackets
  /\ \E p \in Packets :
       LET b == BytesOf(p)
       IN /\ rcv_buf' = [j \in 0 .. BufSize - 1 |->
                           IF j < Len(b) THEN b[j + 1] ELSE rcv_buf[j]]
          /\ pkt' = p
  /\ count' = count + 1 /\ phase' = "dispatch" /\ reply' = NoReply
  /\ UNCHANGED <<evt, topic, payload, printed, longest>>

\* data[i], and the big-endian number at i.
data(i) == rcv_buf[i]
Word(i) == data(i) * 256 + data(i + 1)
Sub(i, n) == [k \in 1 .. n |-> data(i + k - 1)]

HdrType == data(0) \div 16
HdrQos == (data(0) \div 2) % 4

\* mqttnox_decode_remain_len, for what fits into the buffer.
LenBytes == IF data(1) < LenBase THEN 1 ELSE 2
RemainLength ==
  IF data(1) < LenBase THEN data(1) ELSE data(1) - LenBase + data(2) * LenBase

Handles(type) == phase = "dispatch" /\ HdrType = TypeNum[type]

mqttnox_send_event(e) ==
  /\ evt' = e /\ phase' = "event"
  /\ UNCHANGED <<rcv_buf, topic, payload, pkt, printed, longest, count>>

\* A handler that makes no event returns to recv().
Silent ==
  /\ phase' = "recv"
  /\ UNCHANGED <<rcv_buf, evt, topic, payload, pkt, printed, longest, count>>

Replies(fn, id) == reply' = [fn |-> fn, id |-> id]
NoAnswer == UNCHANGED reply

\* The variable header is taken to start at data + 3: its first byte, of which
\* session_present is the lowest bit, is the return code, and conn_return_code
\* the byte after the packet.
mqttnox_handler_connack ==
  /\ Handles("CONNACK") /\ NoAnswer
  /\ IF data(4) = 0
     THEN mqttnox_send_event([evt_id |-> "CONNECT", session_present |-> data(3) % 2])
     ELSE IF data(4) \in 1 .. 5
          THEN mqttnox_send_event([evt_id |-> "CONNECT_ERROR", reason |-> data(4)])
          ELSE Silent

\* Where the fields of a PUBLISH are read.
TopicLen == Word(1 + LenBytes)
TopicAt == 1 + LenBytes + 2
IdentAt == TopicAt + TopicLen
PayloadAt_AlwaysIdent == IdentAt + 2
PayloadAt == IF HdrQos = 0 THEN IdentAt ELSE IdentAt + 2
TwoFields == 2 + 2
PayloadLen_NoTopic == (RemainLength + WordMod - TwoFields) % WordMod
PayloadLen_Signed == RemainLength - TwoFields - TopicLen
PayloadLen == (RemainLength + WordMod - TwoFields - TopicLen) % WordMod

\* The identifier of a QoS 0 event is an uninitialized variable: not modelled.
mqttnox_handler_publish ==
  /\ Handles("PUBLISH")
  /\ CASE HdrQos = 0 -> NoAnswer
       [] HdrQos = 1 -> Replies("puback", Word(IdentAt))
       [] HdrQos = 2 -> Replies("pubrec", Word(IdentAt))
  /\ mqttnox_send_event(
       [evt_id |-> "RECEIVED", topic |-> TopicAt, topic_len |-> TopicLen,
        payload |-> PayloadAt, payload_len |-> PayloadLen,
        id |-> IF HdrQos = 0 THEN 0 ELSE Word(IdentAt)])

AckAt_Next == 3
AckAt == 2

mqttnox_handler_puback ==
  /\ Handles("PUBACK") /\ NoAnswer
  /\ mqttnox_send_event([evt_id |-> "PUBLISHED", id |-> Sub(AckAt, 2)])

mqttnox_handler_unsuback ==
  /\ Handles("UNSUBACK") /\ NoAnswer
  /\ mqttnox_send_event([evt_id |-> "UNSUBSCRIBED", id |-> Sub(AckAt, 2)])

\* The identifier is taken from one byte too early.
mqttnox_handler_pubrec == Handles("PUBREC") /\ Replies("pubrel", Word(1)) /\ Silent
mqttnox_handler_pubrel == Handles("PUBREL") /\ Replies("pubcomp", Word(1)) /\ Silent
mqttnox_handler_pubcomp == Handles("PUBCOMP") /\ NoAnswer /\ Silent

\* The return code is the four bytes from data + 3 on, lowest first: the low
\* identifier byte, the return code, and two bytes behind the packet.
mqttnox_handler_suback ==
  /\ Handles("SUBACK") /\ NoAnswer
  /\ mqttnox_send_event([evt_id |-> "SUBSCRIBED", return_code |-> Sub(3, 4)])

----------------------------------------------------------------------------
(* mqttnox_callback                                                        *)

\* A buffer printf("%s") can print, and what it prints: up to the first zero.
Ended(b) == \E n \in 0 .. AppBuf - 1 : b[n] = 0
CString(b) ==
  LET ends == {n \in 0 .. AppBuf - 1 : b[n] = 0}
      len == CHOOSE n \in ends : \A m \in ends : n <= m
  IN [k \in 1 .. len |-> b[k - 1]]

\* memcpy of n bytes of rcv_buf from i on.
CopiedInto(b, i, n) == [j \in 0 .. AppBuf - 1 |-> IF j < n THEN data(i + j) ELSE b[j]]

\* MEMZERO(topic); MEMZERO(data) clears only the size of a pointer, evt_id.
ClearedTopic_Kept == topic
ClearedTopic == [j \in 0 .. AppBuf - 1 |-> 0]

\* topic and payload after the two copies.
NewTopic == CopiedInto(ClearedTopic, evt.topic, evt.topic_len)
NewPayload == CopiedInto(payload, evt.payload, evt.payload_len)

callback_received ==
  /\ phase = "event" /\ evt.evt_id = "RECEIVED"
  /\ evt.topic_len <= AppBuf /\ evt.payload_len <= AppBuf
  /\ Ended(NewTopic) /\ Ended(NewPayload)
  /\ topic' = NewTopic /\ payload' = NewPayload
  /\ printed' = [topic |-> CString(topic'), payload |-> CString(payload')]
  /\ longest' = IF evt.payload_len > longest THEN evt.payload_len ELSE longest
  /\ phase' = "recv"
  /\ UNCHANGED <<rcv_buf, evt, pkt, reply, count>>

\* A copy longer than topic or payload: what it overwrites is not modelled.
callback_beyond ==
  /\ phase = "event" /\ evt.evt_id = "RECEIVED"
  /\ evt.topic_len > AppBuf \/ evt.payload_len > AppBuf
  /\ phase' = "beyond"
  /\ UNCHANGED <<rcv_buf, evt, topic, payload, pkt, reply, printed, longest, count>>

\* Without a zero in its buffer a printf reads on behind it: what it prints is
\* not modelled.
callback_unended ==
  /\ phase = "event" /\ evt.evt_id = "RECEIVED"
  /\ evt.topic_len <= AppBuf /\ evt.payload_len <= AppBuf
  /\ ~Ended(NewTopic) \/ ~Ended(NewPayload)
  /\ phase' = "unended"
  /\ UNCHANGED <<rcv_buf, evt, topic, payload, pkt, reply, printed, longest, count>>

\* The other events are only reported.
callback_other ==
  /\ phase = "event" /\ evt.evt_id # "RECEIVED"
  /\ phase' = "recv"
  /\ UNCHANGED <<rcv_buf, evt, topic, payload, pkt, reply, printed, longest, count>>

----------------------------------------------------------------------------
Zeros(n) == [j \in 0 .. n - 1 |-> 0]

Init ==
  /\ phase = "recv" /\ rcv_buf = Zeros(BufSize)
  /\ evt = NoEvent /\ topic = Zeros(AppBuf) /\ payload = Zeros(AppBuf)
  /\ pkt = [type |-> "none"] /\ reply = NoReply
  /\ printed = [topic |-> <<>>, payload |-> <<>>] /\ longest = 0 /\ count = 0

mqttnox_callback ==
  callback_received \/ callback_beyond \/ callback_unended \/ callback_other

Handler ==
  \/ mqttnox_handler_connack \/ mqttnox_handler_publish \/ mqttnox_handler_puback
  \/ mqttnox_handler_pubrec \/ mqttnox_handler_pubrel \/ mqttnox_handler_pubcomp
  \/ mqttnox_handler_suback \/ mqttnox_handler_unsuback

Next == receive \/ Handler \/ mqttnox_callback

Spec == Init /\ [][Next]_vars

----------------------------------------------------------------------------
(* Properties                                                              *)

TypeOK ==
  /\ phase \in {"recv", "dispatch", "event", "beyond", "unended"}
  /\ rcv_buf \in [0 .. BufSize - 1 -> Nat]
  /\ topic \in [0 .. AppBuf - 1 -> Nat] /\ payload \in [0 .. AppBuf - 1 -> Nat]
  /\ pkt \in Packets \cup {[type |-> "none"]}
  /\ evt.evt_id = "RECEIVED" =>
       evt.topic_len \in 0 .. BufSize /\ evt.payload_len \in 0 .. WordMod - 1
  /\ longest \in 0 .. AppBuf - 1 /\ count \in 0 .. MaxPackets

IsEvent(type) == phase = "event" /\ pkt.type = type

\* Whatever earlier packets left in the buffer, the event of a QoS 1 or QoS 2
\* PUBLISH has the topic, the identifier and the payload of the packet, for
\* every length of its remaining-length field, and the reply has the identifier.
PublishRead ==
  IsEvent("PUBLISH") /\ pkt.qos > 0 =>
    /\ Sub(evt.topic, evt.topic_len) = pkt.topic
    /\ Sub(evt.payload, evt.payload_len) = pkt.payload
    /\ evt.id = pkt.id[1] * 256 + pkt.id[2]
    /\ reply = [fn |-> IF pkt.qos = 1 THEN "puback" ELSE "pubrec", id |-> evt.id]

\* Of a QoS 0 PUBLISH the topic, and the place where the payload begins.
PublishFound ==
  IsEvent("PUBLISH") =>
    /\ Sub(evt.topic, evt.topic_len) = pkt.topic
    /\ Sub(evt.payload, Len(pkt.payload)) = pkt.payload

\* The event of a PUBACK or UNSUBACK has the identifier of the packet.
AckRead ==
  IsEvent("PUBACK") \/ IsEvent("UNSUBACK") => evt.id = pkt.id

\* Where both buffers end in a zero the callback prints the message it was given:
\* the topic, and the payload of a QoS 1 or QoS 2 message unless an earlier payload
\* was longer, of which the end is still there.
PrintedRight ==
  phase = "recv" /\ pkt.type = "PUBLISH" =>
    /\ printed.topic = pkt.topic
    /\ pkt.qos > 0 => /\ IsPrefix(pkt.payload, printed.payload)
                      /\ Len(pkt.payload) >= longest => printed.payload = pkt.payload

\* The callback's copies stay within topic and payload when the message fits,
\* except for the payload of a QoS 0 message shorter than two bytes, whose length
\* wraps round; and its printf stays there, whatever earlier messages left in
\* payload, unless this message fills a buffer to its end.
CopiesFit ==
  /\ phase = "beyond" =>
       \/ Len(pkt.topic) > AppBuf \/ Len(pkt.payload) > AppBuf
       \/ pkt.qos = 0 /\ Len(pkt.payload) < 2
  /\ phase = "unended" =>
       \/ Len(pkt.topic) = AppBuf
       \/ Len(pkt.payload) = AppBuf + (IF pkt.qos = 0 THEN 2 ELSE 0)

----------------------------------------------------------------------------
(* What a comment says and the code does not do (checked to be violated)   *)

\* "Packet identifier only present in packets with QoS of 1 or 2": the event of
\* a QoS 0 PUBLISH has all of its payload.
PayloadWhole ==
  IsEvent("PUBLISH") => evt.payload_len = Len(pkt.payload)
=============================================================================
