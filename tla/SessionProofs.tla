--------------------------- MODULE SessionProofs ---------------------------
(***************************************************************************)
(* Theorems of Session, for every value of its constants: the types, three *)
(* safety properties the runs check on small instances, and the order in   *)
(* which messages, acknowledgements and events come out.                   *)
(***************************************************************************)
EXTENDS Session, SequenceFacts, FiniteSetTheorems

\* An identifier stays a pair of bytes through every rewriting of its bytes.
LEMMA IdentBytes ==
  ASSUME NEW id \in Ident
  PROVE  /\ NextIdent(id) \in Ident /\ AckIdent(id) \in Ident
         /\ SwappedBytes(id) \in Ident /\ MsbFirst(id) \in Ident
         /\ EventIdent(id) \in Ident
  BY ByteBaseAssumption
  DEF Ident, Byte, NextIdent, AckIdent, SwappedBytes, MsbFirst, EventIdent

\* What Pkt and Plain build is a packet.
LEMMA PktType ==
  ASSUME NEW type \in PacketType, NEW id \in Ident, NEW x \in 0 .. 5
  PROVE  Pkt(type, id, x) \in Packet
  BY DEF Pkt, Packet

\* The identifier of packets that carry none.
LEMMA ZeroIdentType == ZeroIdent \in Ident
  BY ByteBaseAssumption DEF ZeroIdent, Ident, Byte

\* A packet without an identifier.
LEMMA PlainType ==
  ASSUME NEW type \in PacketType
  PROVE  Plain(type) \in Packet
  BY ZeroIdentType, PktType DEF Plain

\* Sending a packet keeps what the send touches well typed.
LEMMA SendType ==
  ASSUME NEW p \in Packet, TypeOK, mqttnox_tcp_send(p)
  PROVE  /\ wire' \in Seq(Packet) /\ c2s' \in Seq(Packet)
         /\ sock' \in {"open", "dead"} /\ localClose' \in BOOLEAN
<1>1. wire' \in Seq(Packet) /\ c2s' \in Seq(Packet) /\ sock' \in {"open", "dead"}
  <2>1. wire \in Seq(Packet) /\ c2s \in Seq(Packet) /\ sock \in {"open", "dead"}
    BY DEF TypeOK
  <2>2. Append(wire, p) \in Seq(Packet) /\ Append(c2s, p) \in Seq(Packet)
    BY <2>1, AppendProperties
  <2> QED
    BY <2>1, <2>2 DEF mqttnox_tcp_send, SendAccepts, SendFails
<1>2. localClose' \in BOOLEAN
  BY DEF TypeOK, mqttnox_tcp_send, SendAccepts, SendFails
<1> QED
  BY <1>1, <1>2

\* The type invariant in two parts, for provers that reason best about one kind
\* of value at a time.
FlagsOK ==
  /\ initialized \in BOOLEAN /\ connected \in BOOLEAN
  /\ dirty \in BOOLEAN /\ told \in BOOLEAN
  /\ overlap \in BOOLEAN /\ reopened \in BOOLEAN
  /\ localClose \in BOOLEAN /\ cleanStart \in BOOLEAN

ValuesOK ==
  /\ packet_ident \in Ident
  /\ sock \in {"open", "dead"}
  /\ rpc \in [Receivers -> {"none", "recv", "dispatch", "closing", "stuck", "done"}]
  /\ rcv_buf \in Packet
  /\ peer \in {"up", "fin", "reset"}
  /\ c2s \in Seq(Packet) /\ s2c \in Seq(Packet)
  /\ bst \in {"wait", "up", "refused"}
  /\ bout \in [InMsgs -> BoutState]
  /\ bsent \in Seq(Packet)
  /\ appPc \in {"idle", "connecting", "closing", "clearing"}
  /\ reqs \in 0 .. MaxReq
  /\ conn \in 0 .. MaxConn /\ StraysOK
  /\ wire \in Seq(Packet) /\ events \in Seq(Event)

\* The two parts make up the type invariant, before a step and after it.
LEMMA TypeParts ==
  /\ TypeOK => FlagsOK /\ ValuesOK
  /\ FlagsOK' /\ ValuesOK' => TypeOK'
<1>1. TypeOK => FlagsOK /\ ValuesOK
  BY Zenon DEF TypeOK, FlagsOK, ValuesOK
<1>2. FlagsOK' /\ ValuesOK' => TypeOK'
  BY Zenon DEF TypeOK, FlagsOK, ValuesOK
<1> QED
  BY <1>1, <1>2

\* What is left on abandoned connections keeps its type while nothing reads it.
LEMMA StraysKept ==
  ASSUME StraysOK, UNCHANGED <<on, old>>
  PROVE  StraysOK'
  BY DEF StraysOK

\* The initial state has its types.
LEMMA InitType == Init => TypeOK
<1> SUFFICES ASSUME Init PROVE TypeOK
  OBVIOUS
<1>1. rcv_buf \in Packet /\ packet_ident \in Ident
  BY ZeroIdentType, PlainType DEF Init, PacketType
<1>2. \A S : <<>> \in Seq(S)
  OBVIOUS
<1>3. /\ c2s \in Seq(Packet) /\ s2c \in Seq(Packet) /\ bsent \in Seq(Packet)
      /\ wire \in Seq(Packet) /\ events \in Seq(Event)
  BY <1>2 DEF Init
<1>4. /\ reqs \in 0 .. MaxReq /\ conn \in 0 .. MaxConn /\ StraysOK
  BY <1>2, BoundAssumption DEF Init, StraysOK
<1> QED
  BY <1>1, <1>3, <1>4 DEF Init, TypeOK, BoutState

\* Up to mqttnox_tcp_connect, whatever threads stay on the abandoned connection.
LEMMA BeginType ==
  ASSUME TypeOK, NEW S \in SUBSET InRecv, BeginConnect(S)
  PROVE  /\ conn \in 0 .. MaxConn /\ conn' = conn + 1 /\ conn' \in Receivers
         /\ Abandoned(S) \in [Receivers -> {"none", "recv", "dispatch", "closing", "stuck", "done"}]
         /\ StraysOK'
         /\ reopened' \in BOOLEAN /\ overlap' \in BOOLEAN /\ cleanStart' \in BOOLEAN
         /\ UNCHANGED <<initialized, packet_ident, rcv_buf, dirty, bout, told, reqs,
                        events, localClose>>
         /\ c2s' = <<>> /\ s2c' = <<>> /\ bst' = "wait" /\ bsent' = <<>> /\ wire' = <<>>
<1>1. conn \in 0 .. MaxConn /\ conn' = conn + 1 /\ conn' \in 1 .. MaxConn
  BY BoundAssumption DEF TypeOK, BeginConnect
<1>2. Abandoned(S) \in [Receivers -> {"none", "recv", "dispatch", "closing", "stuck", "done"}]
  BY DEF TypeOK, Abandoned
<1>3. on' \in [Receivers -> 0 .. MaxConn]
  BY <1>1 DEF TypeOK, StraysOK, BeginConnect, Abandon
<1>4. old' \in [0 .. MaxConn -> Seq(Packet)]
  BY <1>1 DEF TypeOK, StraysOK, BeginConnect, Abandon
<1>5. reopened' \in BOOLEAN /\ overlap' \in BOOLEAN /\ cleanStart' \in BOOLEAN
  BY DEF TypeOK, BeginConnect, Abandon
<1> QED
  BY <1>1, <1>2, <1>3, <1>4, <1>5 DEF BeginConnect, Receivers, StraysOK

\* A call of the application keeps the types.
LEMMA AppType == TypeOK /\ App => TypeOK'
<1> SUFFICES ASSUME TypeOK, App PROVE TypeOK'
  OBVIOUS
<1>1. CASE mqttnox_init
  <2> USE DEF mqttnox_init, brokerVars, linkVars, callVars, connVars
  <2>1. FlagsOK'
    BY <1>1, TypeParts, Zenon DEF FlagsOK
  <2>2. ValuesOK'
    BY <1>1, TypeParts, IdentAssumption, StraysKept DEF ValuesOK
  <2> QED
    BY <2>1, <2>2, TypeParts
<1>2. CASE mqttnox_connect_open
  <2>1. PICK S \in SUBSET InRecv :
          /\ BeginConnect(S)
          /\ sock' = "open" /\ peer' = "up"
          /\ rpc' = StartReceiver(Abandoned(S), conn + 1)
          /\ connected' = connected /\ appPc' = "connecting"
    BY <1>2 DEF mqttnox_connect_open, ConnectedAtOpen
  <2>2. rpc' \in [Receivers -> {"none", "recv", "dispatch", "closing", "stuck", "done"}]
    BY <2>1, BeginType DEF StartReceiver
  <2>3. \A T : <<>> \in Seq(T)
    OBVIOUS
  <2>4. FlagsOK'
    BY <2>1, BeginType, TypeParts, Zenon DEF FlagsOK
  <2>5. /\ conn' \in 0 .. MaxConn /\ StraysOK'
        /\ UNCHANGED <<packet_ident, rcv_buf, bout, reqs, events>>
        /\ c2s' = <<>> /\ s2c' = <<>> /\ bst' = "wait" /\ bsent' = <<>> /\ wire' = <<>>
    BY <2>1, BeginType DEF Receivers
  <2>6. ValuesOK'
    BY <2>1, <2>2, <2>3, <2>5, TypeParts DEF ValuesOK
  <2> QED
    BY <2>4, <2>6, TypeParts
<1>8. CASE mqttnox_connect_fails
  <2>1. PICK S \in SUBSET InRecv :
          /\ BeginConnect(S)
          /\ sock' = "dead" /\ peer' = "reset"
          /\ rpc' = Abandoned(S)
          /\ UNCHANGED <<connected, appPc>>
    BY <1>8 DEF mqttnox_connect_fails
  <2>2. \A T : <<>> \in Seq(T)
    OBVIOUS
  <2>3. FlagsOK'
    BY <2>1, BeginType, TypeParts, Zenon DEF FlagsOK
  <2>4. /\ conn' \in 0 .. MaxConn /\ StraysOK'
        /\ UNCHANGED <<packet_ident, rcv_buf, bout, reqs, events>>
        /\ c2s' = <<>> /\ s2c' = <<>> /\ bst' = "wait" /\ bsent' = <<>> /\ wire' = <<>>
    BY <2>1, BeginType DEF Receivers
  <2>5. rpc' \in [Receivers -> {"none", "recv", "dispatch", "closing", "stuck", "done"}]
    BY <2>1, BeginType
  <2>6. ValuesOK'
    BY <2>1, <2>2, <2>4, <2>5, TypeParts DEF ValuesOK
  <2> QED
    BY <2>3, <2>6, TypeParts
<1>3. CASE mqttnox_connect_send
  <2>1. Plain("CONNECT") \in Packet
    BY PlainType DEF PacketType
  <2>2. /\ c2s' \in Seq(Packet) /\ sock' \in {"open", "dead"}
        /\ wire' \in Seq(Packet) /\ localClose' \in BOOLEAN
    BY <1>3, <2>1, SendType DEF mqttnox_connect_send
  <2> USE DEF mqttnox_connect_send, clientVars, brokerVars, connVars
  <2>3. FlagsOK'
    BY <1>3, <2>2, TypeParts, Zenon DEF FlagsOK
  <2>4. ValuesOK'
    BY <1>3, <2>2, TypeParts, StraysKept DEF ValuesOK
  <2> QED
    BY <2>3, <2>4, TypeParts
<1>4. ASSUME NEW p \in Packet, Request(p), packet_ident' \in Ident
      PROVE  TypeOK'
  <2>1. /\ c2s' \in Seq(Packet) /\ sock' \in {"open", "dead"}
        /\ wire' \in Seq(Packet) /\ localClose' \in BOOLEAN
    BY <1>4, SendType DEF Request
  <2>2. reqs' \in 0 .. MaxReq
    BY <1>4, BoundAssumption DEF TypeOK, Request
  <2>3. told' \in BOOLEAN
    BY <1>4, Zenon DEF TypeOK, Request
  <2> USE DEF Request, brokerVars, connVars
  <2>4. FlagsOK'
    BY <1>4, <2>1, <2>3, TypeParts, Zenon DEF FlagsOK
  <2>5. ValuesOK'
    BY <1>4, <2>1, <2>2, TypeParts, StraysKept DEF ValuesOK
  <2> QED
    BY <2>4, <2>5, TypeParts
<1>5. ASSUME NEW qos \in 0 .. 2, mqttnox_publish(qos) PROVE TypeOK'
  <2>1. packet_ident' \in Ident
    BY <1>5, IdentBytes DEF TypeOK, mqttnox_publish
  <2>2. /\ Pkt("PUBLISH", ZeroIdent, 0) \in Packet
        /\ Pkt("PUBLISH", packet_ident, qos) \in Packet
    BY PktType, ZeroIdentType DEF TypeOK, PacketType
  <2> QED
    BY <1>4, <1>5, <2>1, <2>2 DEF mqttnox_publish
<1>6. CASE mqttnox_subscribe \/ mqttnox_unsubscribe
  <2>1. packet_ident' \in Ident
    BY <1>6, IdentBytes DEF TypeOK, mqttnox_subscribe, mqttnox_unsubscribe
  <2>2. /\ Pkt("SUBSCRIBE", packet_ident, 0) \in Packet
        /\ Pkt("UNSUBSCRIBE", packet_ident, 0) \in Packet
    BY PktType DEF TypeOK, PacketType
  <2> QED
    BY <1>4, <1>6, <2>1, <2>2 DEF mqttnox_subscribe, mqttnox_unsubscribe
<1>7. CASE mqttnox_disconnect
  <2>1. Plain("DISCONNECT") \in Packet
    BY PlainType DEF PacketType
  <2>2. mqttnox_tcp_send(Plain("DISCONNECT"))
    BY <1>7 DEF mqttnox_disconnect, mqttnox_tcp_send
  <2>3. /\ wire' \in Seq(Packet) /\ c2s' \in Seq(Packet)
        /\ sock' \in {"open", "dead"} /\ localClose' \in BOOLEAN
    BY <2>1, <2>2, SendType
  <2> QED
    BY <1>7, <2>3, StraysKept DEF TypeOK, mqttnox_disconnect, clientVars, brokerVars, connVars
<1>9. CASE mqttnox_disconnect_close
  BY <1>9, StraysKept
  DEF TypeOK, mqttnox_disconnect_close, SockAfterDisconnect, clientVars, linkVars,
      brokerVars, connVars
<1>10. CASE mqttnox_disconnect_clear
  <2> USE DEF mqttnox_disconnect_clear, linkVars, brokerVars, connVars
  <2>1. FlagsOK'
    BY <1>10, TypeParts, Zenon DEF FlagsOK
  <2>2. ValuesOK'
    BY <1>10, TypeParts, StraysKept DEF ValuesOK
  <2> QED
    BY <2>1, <2>2, TypeParts
<1>11. CASE mqttnox_is_connected
  BY <1>11, StraysKept
  DEF TypeOK, mqttnox_is_connected, clientVars, linkVars, brokerVars, connVars
<1> QED
  BY <1>1, <1>2, <1>3, <1>5, <1>6, <1>7, <1>8, <1>9, <1>10, <1>11 DEF App

\* What the broker and the network do keeps the types.
LEMMA BrokerType == TypeOK /\ (Broker \/ link_reset) => TypeOK'
<1> SUFFICES ASSUME TypeOK, Broker \/ link_reset PROVE TypeOK'
  OBVIOUS
<1> USE DEF clientVars, linkVars, brokerVars, callVars, connVars
<1>1. CASE broker_accept
  <2>1. Plain("CONNACK") \in Packet /\ Pkt("CONNACK", ZeroIdent, 5) \in Packet
    BY PlainType, PktType, ZeroIdentType DEF PacketType
  <2>2. /\ Append(s2c, Plain("CONNACK")) \in Seq(Packet)
        /\ Append(s2c, Pkt("CONNACK", ZeroIdent, 5)) \in Seq(Packet)
        /\ Tail(c2s) \in Seq(Packet)
    BY <1>1, <2>1, AppendProperties, HeadTailProperties DEF TypeOK, broker_accept
  <2>3. Resume(bout) \in [InMsgs -> BoutState]
    BY DEF TypeOK, Resume, BoutState
  <2>4. FlagsOK'
    BY <1>1, TypeParts, Zenon DEF FlagsOK, broker_accept
  <2>5. ValuesOK'
    BY <1>1, <2>2, <2>3, TypeParts, StraysKept DEF ValuesOK, broker_accept
  <2> QED
    BY <2>4, <2>5, TypeParts
<1>2. CASE broker_read
  <2>1. Head(c2s) \in Packet /\ Tail(c2s) \in Seq(Packet)
    BY <1>2, HeadTailProperties DEF TypeOK, broker_read
  <2>2. BrokerReply(Head(c2s)) \in Seq(Packet)
    <3> DEFINE id == Head(c2s).id
    <3>1. id \in Ident
      BY <2>1 DEF Packet
    <3>2. /\ Pkt("PUBACK", id, 0) \in Packet /\ Pkt("PUBREC", id, 0) \in Packet
          /\ Pkt("PUBCOMP", id, 0) \in Packet /\ Pkt("SUBACK", id, 0) \in Packet
          /\ Pkt("UNSUBACK", id, 0) \in Packet
      BY <3>1, PktType DEF PacketType
    <3> QED
      BY <3>2 DEF BrokerReply
  <2>3. s2c \o BrokerReply(Head(c2s)) \in Seq(Packet)
    BY <2>2, ConcatProperties DEF TypeOK
  <2>4. BrokerProgress(bout, Head(c2s)) \in [InMsgs -> BoutState]
    BY DEF TypeOK, BrokerProgress, BoutState
  <2>5. FlagsOK'
    BY <1>2, TypeParts, Zenon DEF FlagsOK, broker_read
  <2>6. ValuesOK'
    BY <1>2, <2>1, <2>3, <2>4, TypeParts, StraysKept DEF ValuesOK, broker_read
  <2> QED
    BY <2>5, <2>6, TypeParts
<1>3. ASSUME NEW m \in InMsgs, broker_deliver(m) \/ broker_release(m)
      PROVE  TypeOK'
  <2>1. m \in Ident /\ InQos[m] \in 0 .. 5
    BY IdentAssumption, QosAssumption
  <2>2. /\ Pkt("PUBLISH", m, InQos[m]) \in Packet
        /\ Pkt("PUBREL", m, 0) \in Packet
    BY <2>1, PktType DEF PacketType
  <2>3. s2c' \in Seq(Packet) /\ bsent' \in Seq(Packet)
    <3>1. /\ Append(s2c, Pkt("PUBLISH", m, InQos[m])) \in Seq(Packet)
          /\ Append(s2c, Pkt("PUBREL", m, 0)) \in Seq(Packet)
          /\ Append(bsent, Pkt("PUBLISH", m, InQos[m])) \in Seq(Packet)
      BY <2>2, AppendProperties DEF TypeOK
    <3> QED
      BY <1>3, <3>1 DEF TypeOK, broker_deliver, broker_release
  <2>4. bout' \in [InMsgs -> BoutState]
    BY <1>3 DEF TypeOK, broker_deliver, broker_release, BoutState
  <2> QED
    BY <1>3, <2>3, <2>4, StraysKept DEF TypeOK, broker_deliver, broker_release
<1>4. CASE broker_close
  BY <1>4, StraysKept, SMTT(20)
  DEF TypeOK, broker_close
<1>5. CASE link_reset
  BY <1>5, StraysKept, SMTT(20)
  DEF TypeOK, link_reset
<1> QED
  BY <1>1, <1>2, <1>3, <1>4, <1>5 DEF Broker

\* What a handler does: it sends at most one packet, never a DISCONNECT.
LEMMA DispatchStep ==
  ASSUME TypeOK, NEW t \in Receivers, Dispatch(t)
  PROVE  /\ \E type \in PacketType : Handles(t, type)
         /\ connected' \in BOOLEAN /\ events' \in Seq(Event)
         /\ \/ NoReply
            \/ \E p \in Packet : p.type # "DISCONNECT" /\ mqttnox_tcp_send(p)
<1> USE DEF Dispatch, mqttnox_handler_connack, mqttnox_handler_publish,
        mqttnox_handler_puback, mqttnox_handler_pubrec, mqttnox_handler_pubrel,
        mqttnox_handler_pubcomp, mqttnox_handler_suback, mqttnox_handler_unsuback
<1>1. \E type \in PacketType : Handles(t, type)
  BY DEF PacketType
<1>2. rcv_buf.id \in Ident
  BY DEF TypeOK, Packet
<1>3. connected' \in BOOLEAN
  BY DEF TypeOK
<1>4. events' \in Seq(Event)
  <2>1. ASSUME NEW evt_id \in EventId, NEW id \in Ident
        PROVE  Append(events, [conn |-> conn, evt_id |-> evt_id, id |-> id])
                 \in Seq(Event)
    <3>1. [conn |-> conn, evt_id |-> evt_id, id |-> id] \in Event
      BY DEF TypeOK, Event
    <3> QED
      BY <3>1, AppendProperties DEF TypeOK
  <2>2. EventIdent(rcv_buf.id) \in Ident /\ ZeroIdent \in Ident
    BY <1>2, IdentBytes, ZeroIdentType
  <2> QED
    BY <1>2, <2>1, <2>2 DEF TypeOK, EventId, mqttnox_send_event
<1>5. \/ NoReply
      \/ \E p \in Packet : p.type # "DISCONNECT" /\ mqttnox_tcp_send(p)
  <2>1. \/ NoReply
        \/ mqttnox_tcp_send(Pkt("PUBACK", MsbFirst(rcv_buf.id), 0))
        \/ mqttnox_tcp_send(Pkt("PUBREC", MsbFirst(rcv_buf.id), 0))
        \/ mqttnox_tcp_send(Pkt("PUBREL", SwappedBytes(AckIdent(rcv_buf.id)), 0))
        \/ mqttnox_tcp_send(Pkt("PUBCOMP", SwappedBytes(AckIdent(rcv_buf.id)), 0))
    OBVIOUS
  <2>2. ASSUME NEW type \in PacketType, NEW id \in Ident
        PROVE  Pkt(type, id, 0) \in Packet /\ Pkt(type, id, 0).type = type
    BY DEF Pkt, Packet
  <2>3. /\ MsbFirst(rcv_buf.id) \in Ident
        /\ SwappedBytes(AckIdent(rcv_buf.id)) \in Ident
    BY <1>2, IdentBytes
  <2> QED
    BY <2>1, <2>2, <2>3, ZenonT(30) DEF PacketType
<1> QED
  BY <1>1, <1>3, <1>4, <1>5

\* A receive thread keeps the types.
LEMMA ReceiveType ==
  ASSUME TypeOK, NEW t \in Receivers, Receive(t) \/ tcp_receive_stray(t)
  PROVE  TypeOK'
<1> USE DEF linkVars, brokerVars, callVars, connVars
<1>1. CASE tcp_receive(t)
  <2>1. Head(s2c) \in Packet /\ Tail(s2c) \in Seq(Packet)
    BY <1>1, HeadTailProperties DEF TypeOK, tcp_receive, Unread
  <2>2. dirty' \in BOOLEAN
    BY <1>1 DEF TypeOK, tcp_receive
  <2>3. rpc' \in [Receivers -> {"none", "recv", "dispatch", "closing", "stuck", "done"}]
    BY <1>1 DEF TypeOK, tcp_receive
  <2> QED
    BY <1>1, <2>1, <2>2, <2>3, StraysKept DEF TypeOK, tcp_receive, Unread, clientVars
<1>2. CASE tcp_receive_closed(t)
  BY <1>2, StraysKept DEF TypeOK, tcp_receive_closed, clientVars
<1>4. CASE tcp_close(t)
  <2>1. localClose' \in BOOLEAN
    BY <1>4 DEF TypeOK, tcp_close
  <2>2. rpc' \in [Receivers -> {"none", "recv", "dispatch", "closing", "stuck", "done"}]
    BY <1>4 DEF TypeOK, tcp_close, RunAfterClose
  <2> QED
    BY <1>4, <2>1, <2>2, StraysKept DEF TypeOK, tcp_close, clientVars
<1>5. CASE tcp_receive_stray(t)
  <2> DEFINE left == old[on[t]]
  <2>1. on[t] \in 0 .. MaxConn /\ left \in Seq(Packet) /\ <<>> \in Seq(Packet)
    BY DEF TypeOK, StraysOK
  <2>2. left # <<>> => Head(left) \in Packet /\ Tail(left) \in Seq(Packet)
    BY <2>1, HeadTailProperties
  <2>3. rpc' \in [Receivers -> {"none", "recv", "dispatch", "closing", "stuck", "done"}]
    BY <1>5 DEF TypeOK, tcp_receive_stray
  <2>4. /\ rcv_buf' \in Packet /\ dirty' \in BOOLEAN
        /\ old' \in [0 .. MaxConn -> Seq(Packet)]
    BY <1>5, <2>1, <2>2 DEF TypeOK, StraysOK, tcp_receive_stray
  <2>5. on' \in [Receivers -> 0 .. MaxConn]
    BY <1>5, BoundAssumption DEF TypeOK, StraysOK, tcp_receive_stray
  <2> QED
    BY <1>5, <2>3, <2>4, <2>5 DEF TypeOK, StraysOK, tcp_receive_stray, clientVars
<1>3. CASE Dispatch(t)
  <2>1. PICK type \in PacketType : Handles(t, type)
    BY <1>3, DispatchStep
  <2>2. rpc' \in [Receivers -> {"none", "recv", "dispatch", "closing", "stuck", "done"}]
    BY <2>1 DEF TypeOK, Handles, AfterDispatch
  <2>3. /\ wire' \in Seq(Packet) /\ c2s' \in Seq(Packet)
        /\ sock' \in {"open", "dead"} /\ localClose' \in BOOLEAN
    <3>1. CASE NoReply
      BY <3>1 DEF TypeOK, NoReply
    <3> QED
      BY <1>3, <3>1, DispatchStep, SendType
  <2>4. connected' \in BOOLEAN /\ events' \in Seq(Event)
    BY <1>3, DispatchStep
  <2>5. FlagsOK'
    BY <2>1, <2>3, <2>4, TypeParts, Zenon DEF FlagsOK, Handles
  <2>6. ValuesOK'
    BY <2>1, <2>2, <2>3, <2>4, TypeParts, StraysKept DEF ValuesOK, Handles
  <2> QED
    BY <2>5, <2>6, TypeParts
<1> QED
  BY <1>1, <1>2, <1>3, <1>4, <1>5 DEF Receive

\* Type correctness (every variable of the client, the transport and the broker
\* keeps its type in every reachable state).
THEOREM TypeCorrect == Spec => []TypeOK
<1>1. TypeOK /\ [Next]_vars => TypeOK'
  <2> SUFFICES ASSUME TypeOK, [Next]_vars PROVE TypeOK'
    OBVIOUS
  <2>1. CASE UNCHANGED vars
    BY <2>1, StraysKept
    DEF vars, TypeOK, clientVars, linkVars, brokerVars, callVars, connVars
  <2> QED
    BY <2>1, AppType, BrokerType, ReceiveType DEF Next
<1> QED
  BY <1>1, InitType, PTL DEF Spec

----------------------------------------------------------------------------
(* A disconnected connection is silent.                                    *)

\* The connection of a DISCONNECT is closed, or mqttnox_disconnect is about to.
DisconnectCloses == Disconnecting => sock = "dead" \/ appPc = "closing"

\* Sending any other packet neither opens a closed connection nor ends the call
\* that closes one.
LEMMA SendDisconnect ==
  ASSUME TypeOK, DisconnectCloses, NEW p \in Packet, p.type # "DISCONNECT",
         mqttnox_tcp_send(p), appPc' = appPc \/ appPc # "closing"
  PROVE  DisconnectCloses'
<1>1. CASE SendAccepts(p) /\ UNCHANGED <<sock, localClose>>
  <2>1. wire \in Seq(Packet) /\ wire' = Append(wire, p) /\ sock = "open"
    BY <1>1 DEF TypeOK, SendAccepts
  <2>2. Disconnecting' => Disconnecting
    BY <2>1 DEF Disconnecting
  <2> QED
    BY <1>1, <2>1, <2>2 DEF DisconnectCloses
<1>2. CASE SendFails
  BY <1>2 DEF DisconnectCloses, SendFails
<1> QED
  BY <1>1, <1>2 DEF mqttnox_tcp_send

\* Whatever a request is, it is a packet other than DISCONNECT.
LEMMA RequestStep ==
  ASSUME TypeOK,
         (\E qos \in 0 .. 2 : mqttnox_publish(qos)) \/ mqttnox_subscribe
           \/ mqttnox_unsubscribe
  PROVE  \E p \in Packet : p.type # "DISCONNECT" /\ Request(p)
<1>1. ASSUME NEW type \in PacketType \ {"DISCONNECT"}, NEW id \in Ident, NEW x \in 0 .. 2,
             Request(Pkt(type, id, x))
      PROVE  \E p \in Packet : p.type # "DISCONNECT" /\ Request(p)
  <2>1. Pkt(type, id, x) \in Packet /\ Pkt(type, id, x).type # "DISCONNECT"
    BY DEF Pkt, Packet
  <2> QED
    BY <1>1, <2>1
<1>2. packet_ident \in Ident /\ ZeroIdent \in Ident
  BY ZeroIdentType DEF TypeOK
<1> QED
  BY <1>1, <1>2
  DEF PacketType, mqttnox_publish, mqttnox_subscribe, mqttnox_unsubscribe

\* What a step may do to a connection that is being disconnected.
LEMMA DisconnectStep ==
  ASSUME TypeOK, DisconnectCloses, [Next]_vars
  PROVE  DisconnectCloses'
<1> USE DEF clientVars, linkVars, brokerVars, callVars, connVars
<1>1. CASE UNCHANGED vars
  BY <1>1 DEF vars, DisconnectCloses, Disconnecting
<1>2. CASE mqttnox_init \/ mqttnox_is_connected \/ Broker \/ link_reset
  BY <1>2
  DEF DisconnectCloses, Disconnecting, mqttnox_init, mqttnox_is_connected, Broker,
      broker_accept, broker_read, broker_deliver, broker_release, broker_close,
      link_reset
<1>3. CASE mqttnox_connect_open \/ mqttnox_connect_fails
  <2>1. wire' = <<>>
    BY <1>3 DEF mqttnox_connect_open, mqttnox_connect_fails, BeginConnect
  <2> QED
    BY <2>1 DEF DisconnectCloses, Disconnecting
<1>4. CASE mqttnox_connect_send
  <2>1. Plain("CONNECT") \in Packet /\ Plain("CONNECT").type # "DISCONNECT"
    BY PlainType DEF PacketType, Plain, Pkt
  <2> QED
    BY <1>4, <2>1, SendDisconnect DEF mqttnox_connect_send
<1>5. CASE (\E qos \in 0 .. 2 : mqttnox_publish(qos)) \/ mqttnox_subscribe
             \/ mqttnox_unsubscribe
  BY <1>5, RequestStep, SendDisconnect DEF Request
<1>6. CASE mqttnox_disconnect
  BY <1>6 DEF DisconnectCloses, SendFails, mqttnox_disconnect
<1>7. CASE mqttnox_disconnect_close \/ mqttnox_disconnect_clear
  BY <1>7
  DEF DisconnectCloses, Disconnecting, mqttnox_disconnect_close,
      mqttnox_disconnect_clear, SockAfterDisconnect
<1>8. ASSUME NEW t \in Receivers, Receive(t) \/ tcp_receive_stray(t)
      PROVE  DisconnectCloses'
  <2>1. CASE \/ tcp_receive(t) \/ tcp_receive_closed(t) \/ tcp_close(t)
             \/ tcp_receive_stray(t)
    BY <2>1
    DEF DisconnectCloses, Disconnecting, tcp_receive, tcp_receive_closed, tcp_close,
        tcp_receive_stray
  <2>2. CASE Dispatch(t)
    <3>1. appPc' = appPc
      BY <2>2, DispatchStep DEF Handles
    <3>2. CASE NoReply
      BY <3>1, <3>2 DEF DisconnectCloses, Disconnecting, NoReply
    <3> QED
      BY <2>2, <3>1, <3>2, DispatchStep, SendDisconnect
  <2> QED
    BY <1>8, <2>1, <2>2 DEF Receive
<1> QED
  BY <1>1, <1>2, <1>3, <1>4, <1>5, <1>6, <1>7, <1>8 DEF Next, App

\* What goes on the wire needs an open socket, and a new connection's is empty.
LEMMA WireStep ==
  ASSUME TypeOK, [Next]_vars
  PROVE  wire' = wire \/ wire' = <<>> \/ sock = "open"
<1>1. CASE UNCHANGED vars
  BY <1>1 DEF vars
<1>2. ASSUME NEW p, mqttnox_tcp_send(p) PROVE wire' = wire \/ sock = "open"
  BY <1>2 DEF mqttnox_tcp_send, SendAccepts, SendFails
<1>3. CASE App
  <2>1. CASE (\E qos \in 0 .. 2 : mqttnox_publish(qos)) \/ mqttnox_subscribe
               \/ mqttnox_unsubscribe \/ mqttnox_connect_send
    BY <1>2, <2>1, RequestStep DEF Request, mqttnox_connect_send
  <2>2. CASE mqttnox_connect_open \/ mqttnox_connect_fails
    BY <2>2 DEF mqttnox_connect_open, mqttnox_connect_fails, BeginConnect
  <2> QED
    BY <1>3, <2>1, <2>2
    DEF App, mqttnox_init, mqttnox_is_connected, mqttnox_disconnect, SendAccepts,
        SendFails, mqttnox_disconnect_close, mqttnox_disconnect_clear
<1>4. CASE Broker \/ link_reset
  BY <1>4
  DEF Broker, broker_accept, broker_read, broker_deliver, broker_release,
      broker_close, link_reset
<1>5. ASSUME NEW t \in Receivers, Receive(t) \/ tcp_receive_stray(t)
      PROVE  wire' = wire \/ sock = "open"
  BY <1>2, <1>5, DispatchStep
  DEF Receive, tcp_receive, tcp_receive_closed, tcp_close, tcp_receive_stray, NoReply
<1> QED
  BY <1>1, <1>3, <1>4, <1>5 DEF Next

\* A packet follows a DISCONNECT on its connection only while mqttnox_disconnect
\* is between its send() and its closesocket().
THEOREM DisconnectLast == Spec => SilentAfterDisconnect
<1>1. Init => DisconnectCloses
  BY DEF Init, DisconnectCloses, Disconnecting
<1>2. TypeOK /\ DisconnectCloses /\ [Next]_vars => DisconnectCloses'
  BY DisconnectStep
<1>3. TypeOK /\ DisconnectCloses /\ [Next]_vars
        => [Disconnecting /\ wire' # wire => appPc = "closing" \/ wire' = <<>>]_vars
  BY WireStep DEF DisconnectCloses, TypeOK
<1> QED
  BY <1>1, <1>2, <1>3, TypeCorrect, PTL DEF Spec, SilentAfterDisconnect

----------------------------------------------------------------------------
(* What two receive threads need.                                          *)

\* As long as this process closed no socket under a running receive thread and
\* replaced none that was open, the only thread is the one of the last
\* connection, and it ends with its socket.
OwnReceiver ==
  ~localClose /\ ~reopened =>
    /\ ~overlap
    /\ Live \subseteq {conn}
    /\ sock = "dead" => Live = {}

\* A step that closes no socket and neither starts nor stops a thread.
LEMMA KeepReceiver ==
  ASSUME TypeOK, OwnReceiver, Live' = Live, UNCHANGED <<conn, overlap, reopened>>,
         UNCHANGED <<sock, localClose>> \/ SendFails
  PROVE  OwnReceiver'
<1>1. CASE UNCHANGED <<sock, localClose>>
  BY <1>1 DEF OwnReceiver
<1>2. CASE SendFails
  BY <1>2 DEF TypeOK, OwnReceiver, SendFails
<1> QED
  BY <1>1, <1>2

\* Sending leaves the socket as it was, or fails.
LEMMA SendKeeps ==
  ASSUME NEW p, mqttnox_tcp_send(p)
  PROVE  UNCHANGED <<sock, localClose>> \/ SendFails
  BY DEF mqttnox_tcp_send

\* A connect starts at most its own thread, and finds the others where they are.
LEMMA ConnectLive ==
  ASSUME TypeOK, mqttnox_connect_open \/ mqttnox_connect_fails
  PROVE  /\ Live' \subseteq Live \cup {conn'}
         /\ mqttnox_connect_fails => Live' \subseteq Live
         /\ conn' = conn + 1 /\ localClose' = localClose
         /\ overlap' = (overlap \/ Live # {}) /\ reopened' = (reopened \/ sock = "open")
         /\ \A t \in Receivers : rpc'[t] \in {"dispatch", "stuck"} => t \in Live
<1>1. ASSUME NEW S \in SUBSET InRecv
      PROVE  \A t \in Receivers :
               /\ Abandoned(S)[t] \in {"recv", "dispatch", "closing", "stuck"} => t \in Live
               /\ Abandoned(S) \in [Receivers -> {Abandoned(S)[u] : u \in Receivers}]
  BY DEF TypeOK, InRecv, Abandoned, Live
<1>2. CASE mqttnox_connect_open
  <2>1. PICK S \in SUBSET InRecv :
          BeginConnect(S) /\ rpc' = StartReceiver(Abandoned(S), conn + 1)
    BY <1>2 DEF mqttnox_connect_open
  <2>2. conn' = conn + 1 /\ conn' \in Receivers
    BY <2>1, BeginType
  <2>3. rpc' = [Abandoned(S) EXCEPT ![conn'] = "recv"]
    BY <2>1, <2>2 DEF StartReceiver
  <2>4. \A t \in Receivers :
          /\ t # conn' => rpc'[t] = Abandoned(S)[t]
          /\ rpc'[conn'] = "recv"
    BY <2>2, <2>3 DEF Abandoned
  <2>5. ~mqttnox_connect_fails \/ Live' \subseteq Live
    <3>1. sock' = "open"
      BY <1>2 DEF mqttnox_connect_open
    <3> QED
      BY <3>1 DEF mqttnox_connect_fails
  <2>6. Live' \subseteq Live \cup {conn'}
    BY <1>1, <2>4 DEF Live
  <2>7. \A t \in Receivers : rpc'[t] \in {"dispatch", "stuck"} => t \in Live
    BY <1>1, <2>4
  <2> QED
    BY <2>1, <2>2, <2>5, <2>6, <2>7 DEF BeginConnect, Abandon
<1>3. CASE mqttnox_connect_fails
  <2>1. PICK S \in SUBSET InRecv : BeginConnect(S) /\ rpc' = Abandoned(S)
    BY <1>3 DEF mqttnox_connect_fails
  <2>2. \A t \in Receivers :
          rpc'[t] \in {"recv", "dispatch", "closing", "stuck"} => t \in Live
    BY <1>1, <2>1
  <2> QED
    BY <2>1, <2>2, BeginType DEF BeginConnect, Abandon, Live
<1> QED
  BY <1>2, <1>3

\* What a receive thread does, it does as one of those in the loop; only
\* tcp_close leaves it.
LEMMA ReceiveLive ==
  ASSUME TypeOK, NEW t \in Receivers, Receive(t) \/ tcp_receive_stray(t)
  PROVE  /\ t \in Live
         /\ tcp_close(t) => Live' = Live \ {t}
         /\ ~tcp_close(t) => Live' = Live
         /\ UNCHANGED <<conn, overlap, reopened>>
<1> USE DEF connVars
<1>1. CASE tcp_receive(t)
  BY <1>1 DEF TypeOK, Live, tcp_receive, tcp_close
<1>2. CASE tcp_receive_closed(t)
  BY <1>2 DEF TypeOK, Live, tcp_receive_closed, tcp_close
<1>3. CASE tcp_close(t)
  BY <1>3 DEF TypeOK, Live, tcp_close, RunAfterClose
<1>4. CASE tcp_receive_stray(t)
  BY <1>4 DEF TypeOK, Live, tcp_receive_stray, tcp_close
<1>5. CASE Dispatch(t)
  <2>1. PICK type \in PacketType : Handles(t, type)
    BY <1>5, DispatchStep
  <2> QED
    BY <2>1 DEF TypeOK, Live, Handles, AfterDispatch, tcp_close
<1> QED
  BY <1>1, <1>2, <1>3, <1>4, <1>5 DEF Receive

\* No step gives a connection two receive threads.
LEMMA ReceiverStep ==
  ASSUME TypeOK, OwnReceiver, [Next]_vars
  PROVE  OwnReceiver'
<1>1. CASE UNCHANGED vars
  BY <1>1, KeepReceiver DEF vars, connVars, Live
<1>2. CASE mqttnox_init \/ mqttnox_is_connected \/ mqttnox_disconnect_clear
             \/ Broker \/ link_reset
  BY <1>2, KeepReceiver
  DEF mqttnox_init, mqttnox_is_connected, mqttnox_disconnect_clear, Broker,
      broker_accept, broker_read, broker_deliver, broker_release, broker_close,
      link_reset, connVars, Live
<1>3. CASE mqttnox_connect_open \/ mqttnox_connect_fails
  <2>1. ~localClose' /\ ~reopened' => sock = "dead" /\ Live = {} /\ ~overlap'
    BY <1>3, ConnectLive DEF TypeOK, OwnReceiver
  <2>2. mqttnox_connect_open => sock' = "open"
    BY DEF mqttnox_connect_open
  <2> QED
    BY <1>3, <2>1, <2>2, ConnectLive DEF OwnReceiver
<1>4. CASE mqttnox_connect_send
  BY <1>4, KeepReceiver, SendKeeps DEF mqttnox_connect_send, connVars, Live
<1>5. CASE (\E qos \in 0 .. 2 : mqttnox_publish(qos)) \/ mqttnox_subscribe
             \/ mqttnox_unsubscribe
  BY <1>5, RequestStep, KeepReceiver, SendKeeps DEF Request, connVars, Live
<1>6. CASE mqttnox_disconnect
  BY <1>6, KeepReceiver DEF mqttnox_disconnect, connVars, Live
<1>7. CASE mqttnox_disconnect_close
  <2>1. /\ Live' = Live /\ UNCHANGED <<conn, overlap, reopened>>
        /\ sock' = "dead" /\ localClose' = (localClose \/ sock = "open")
    BY <1>7 DEF mqttnox_disconnect_close, SockAfterDisconnect, connVars, Live
  <2> QED
    BY <2>1 DEF TypeOK, OwnReceiver
<1>8. ASSUME NEW t \in Receivers, Receive(t) \/ tcp_receive_stray(t)
      PROVE  OwnReceiver'
  <2>1. CASE tcp_close(t)
    <3>1. localClose' = FALSE => localClose = FALSE
      BY <2>1 DEF TypeOK, tcp_close
    <3>2. ~localClose' /\ ~reopened' => Live' = {} /\ ~overlap'
      BY <1>8, <2>1, <3>1, ReceiveLive DEF TypeOK, OwnReceiver, tcp_close
    <3> QED
      BY <3>2 DEF OwnReceiver
  <2>2. CASE ~tcp_close(t)
    <3>1. UNCHANGED <<sock, localClose>> \/ SendFails
      BY <1>8, <2>2, DispatchStep, SendKeeps
      DEF Receive, tcp_receive, tcp_receive_closed, tcp_receive_stray, NoReply
    <3> QED
      BY <1>8, <2>2, <3>1, ReceiveLive, KeepReceiver
  <2> QED
    BY <2>1, <2>2
<1> QED
  BY <1>1, <1>2, <1>3, <1>4, <1>5, <1>6, <1>7, <1>8 DEF Next, App

\* Two receive threads run, or a connection was opened beside a running one,
\* only after this process closed a socket a receive thread was still using, or
\* opened a connection over one that nobody had closed.
THEOREM LeakCause == Spec => []OneReceiver
<1>1. Init => OwnReceiver
  BY DEF Init, OwnReceiver, Live
<1>2. OwnReceiver => OneReceiver
  <2>1. IsFiniteSet({conn}) /\ Cardinality({conn}) = 1
    BY FS_Singleton
  <2>2. Live \subseteq {conn} => Cardinality(Live) <= 1
    BY <2>1, FS_Subset
  <2> QED
    BY <2>2 DEF OwnReceiver, OneReceiver
<1> QED
  BY <1>1, <1>2, ReceiverStep, TypeCorrect, PTL DEF Spec

----------------------------------------------------------------------------
(* The handshake comes first.                                              *)

\* Until the broker answers, a cleanly opened connection carries CONNECT and
\* perhaps DISCONNECT: the client reports not connected, no caller was told
\* otherwise, nothing is there to be received, and no receive thread is inside a
\* handler or in the recv() of an earlier connection.
Quiet ==
  bst = "wait" =>
    /\ ~connected /\ ~told /\ s2c = <<>>
    /\ \A t \in Receivers : rpc[t] \notin {"dispatch", "stuck"}
    /\ \A i \in 2 .. Len(wire) : wire[i].type = "DISCONNECT"

\* CONNECT was sent before any other packet could be.
ConnectFirst ==
  /\ wire # <<>> => wire[1].type = "CONNECT"
  /\ appPc = "connecting" => wire = <<>>
  /\ appPc # "connecting" /\ sock = "open" => wire # <<>>

Handshake ==
  /\ wire = <<>> => c2s = <<>> /\ bst = "wait"
  /\ CallerAsks /\ cleanStart => Quiet /\ ConnectFirst

\* What a packet may be for the history of a cleanly opened connection to stay
\* in order: CONNECT first, then DISCONNECT, or anything once the broker answered.
InOrder(p) ==
  \/ wire = <<>> /\ p.type = "CONNECT"
  \/ wire # <<>> /\ (bst # "wait" \/ p.type = "DISCONNECT")

\* What is sent is on the wire.
LEMMA SendFills ==
  ASSUME TypeOK, NEW p \in Packet, SendAccepts(p)
  PROVE  wire' # <<>>
<1>1. Append(wire, p) \in Seq(Packet) /\ Len(Append(wire, p)) = Len(wire) + 1
  BY AppendProperties DEF TypeOK
<1>2. Len(wire) \in Nat
  BY DEF TypeOK
<1>3. Len(Append(wire, p)) # 0
  BY <1>1, <1>2
<1>4. Append(wire, p) # <<>>
  <2>1. Len(<<>>) = 0
    OBVIOUS
  <2> QED
    BY <1>3, <2>1, Zenon
<1> QED
  BY <1>4 DEF SendAccepts

\* What is sent in order leaves the CONNECT first.
LEMMA SendInOrder ==
  ASSUME TypeOK, Quiet, ConnectFirst, NEW p \in Packet, SendAccepts(p),
         InOrder(p)
  PROVE  /\ wire' # <<>> /\ wire'[1].type = "CONNECT"
         /\ bst = "wait" => \A i \in 2 .. Len(wire') : wire'[i].type = "DISCONNECT"
<1>1. /\ wire \in Seq(Packet) /\ wire' = Append(wire, p)
      /\ wire' \in Seq(Packet) /\ Len(wire') = Len(wire) + 1
      /\ wire'[Len(wire) + 1] = p
      /\ \A i \in 1 .. Len(wire) : wire'[i] = wire[i]
  BY AppendProperties DEF TypeOK, SendAccepts
<1>2. wire' # <<>>
  BY <1>1, EmptySeq
<1>3. wire'[1].type = "CONNECT"
  BY <1>1 DEF InOrder, ConnectFirst
<1>4. ASSUME bst = "wait", NEW i \in 2 .. Len(wire')
      PROVE  wire'[i].type = "DISCONNECT"
  <2>1. CASE i \in 2 .. Len(wire)
    BY <1>1, <1>4, <2>1 DEF Quiet
  <2>2. CASE i = Len(wire) + 1
    BY <1>1, <1>4, <2>2 DEF InOrder
  <2> QED
    BY <1>1, <2>1, <2>2
<1> QED
  BY <1>2, <1>3, <1>4

\* Every step keeps the order of the handshake.
LEMMA HandshakeStep ==
  ASSUME TypeOK, Handshake, [Next]_vars
  PROVE  Handshake'
<1> USE DEF linkVars, brokerVars, callVars, connVars, clientVars
<1>1. CASE UNCHANGED vars
  BY <1>1 DEF vars, Handshake, Quiet, ConnectFirst
<1>2. CASE mqttnox_init
  BY <1>2 DEF Handshake, Quiet, ConnectFirst, mqttnox_init
<1>3. CASE mqttnox_connect_open \/ mqttnox_connect_fails
  <2>1. Live = {} => \A t \in Receivers : rpc'[t] \notin {"dispatch", "stuck"}
    BY <1>3, ConnectLive
  <2>2. /\ wire' = <<>> /\ c2s' = <<>> /\ s2c' = <<>> /\ bst' = "wait"
        /\ connected' = connected /\ told' = told
        /\ appPc' = "connecting" \/ sock' = "dead"
        /\ cleanStart' = (~connected /\ ~told /\ Live = {})
    BY <1>3
    DEF mqttnox_connect_open, mqttnox_connect_fails, BeginConnect, ConnectedAtOpen
  <2>3. \A i \in 2 .. Len(wire') : wire'[i].type = "DISCONNECT"
    <3>1. Len(wire') = 0
      BY <2>2
    <3> QED
      BY <3>1
  <2>4. cleanStart' => ~connected' /\ ~told' /\ Live = {}
    BY <2>2
  <2>5. cleanStart' => Quiet'
    BY <2>1, <2>2, <2>3, <2>4 DEF Quiet
  <2>6. ConnectFirst'
    BY <2>2 DEF ConnectFirst
  <2> QED
    BY <2>2, <2>5, <2>6 DEF Handshake
<1>4. CASE mqttnox_connect_send
  <2>1. Plain("CONNECT") \in Packet /\ Plain("CONNECT").type = "CONNECT"
    BY PlainType DEF PacketType, Plain, Pkt
  <2>2. CASE SendFails
    BY <1>4, <2>2
    DEF Handshake, Quiet, ConnectFirst, SendFails, mqttnox_connect_send
  <2>3. CASE SendAccepts(Plain("CONNECT"))
    <3>1. wire' # <<>>
      BY <2>1, <2>3, SendFills
    <3>2. ASSUME CallerAsks, cleanStart PROVE InOrder(Plain("CONNECT"))
      BY <1>4, <2>1, <3>2
      DEF Handshake, ConnectFirst, InOrder, mqttnox_connect_send
    <3> QED
      BY <1>4, <2>1, <2>3, <3>1, <3>2, SendInOrder
      DEF Handshake, Quiet, ConnectFirst, mqttnox_connect_send
  <2> QED
    BY <1>4, <2>2, <2>3 DEF mqttnox_connect_send, mqttnox_tcp_send
<1>5. CASE (\E qos \in 0 .. 2 : mqttnox_publish(qos)) \/ mqttnox_subscribe
             \/ mqttnox_unsubscribe
  <2>1. PICK p \in Packet : Request(p)
    BY <1>5, RequestStep
  <2>2. CASE SendFails
    BY <2>1, <2>2 DEF Handshake, Quiet, ConnectFirst, SendFails, Request
  <2>3. CASE SendAccepts(p) /\ sock' = sock
    <3>1. wire' # <<>>
      BY <2>3, SendFills
    <3>2. ASSUME CallerAsks, cleanStart PROVE InOrder(p) /\ bst # "wait"
      BY <2>1, <3>2
      DEF Handshake, Quiet, InOrder, Request
    <3> QED
      BY <2>1, <2>3, <3>1, <3>2, SendInOrder
      DEF Handshake, Quiet, ConnectFirst, Request
  <2> QED
    BY <2>1, <2>2, <2>3 DEF Request, mqttnox_tcp_send
<1>6. CASE mqttnox_disconnect
  <2>1. Plain("DISCONNECT") \in Packet /\ Plain("DISCONNECT").type = "DISCONNECT"
    BY PlainType DEF PacketType, Plain, Pkt
  <2>2. CASE SendFails
    BY <1>6, <2>2
    DEF Handshake, Quiet, ConnectFirst, SendFails, mqttnox_disconnect
  <2>3. CASE SendAccepts(Plain("DISCONNECT")) /\ sock' = sock
    <3>1. wire' # <<>>
      BY <2>1, <2>3, SendFills
    <3>2. ASSUME CallerAsks, cleanStart PROVE InOrder(Plain("DISCONNECT"))
      BY <1>6, <2>1, <2>3, <3>2
      DEF Handshake, ConnectFirst, InOrder, SendAccepts, mqttnox_disconnect
    <3> QED
      BY <1>6, <2>1, <2>3, <3>1, <3>2, SendInOrder
      DEF Handshake, Quiet, ConnectFirst, mqttnox_disconnect
  <2> QED
    BY <1>6, <2>2, <2>3 DEF mqttnox_disconnect
<1>10. CASE mqttnox_disconnect_close \/ mqttnox_disconnect_clear
  BY <1>10
  DEF Handshake, Quiet, ConnectFirst, mqttnox_disconnect_close,
      mqttnox_disconnect_clear, SockAfterDisconnect
<1>11. CASE mqttnox_is_connected
  BY <1>11 DEF Handshake, Quiet, ConnectFirst, mqttnox_is_connected
<1>7. CASE Broker \/ link_reset
  <2>1. c2s # <<>> => wire # <<>>
    BY DEF Handshake
  <2> QED
    BY <1>7, <2>1
    DEF Handshake, Quiet, ConnectFirst, Broker, broker_accept, broker_read,
        broker_deliver, broker_release, broker_close, link_reset
<1>8. ASSUME NEW t \in Receivers,
             \/ tcp_receive(t) \/ tcp_receive_closed(t) \/ tcp_close(t)
             \/ tcp_receive_stray(t)
      PROVE  Handshake'
  <2>1. CallerAsks /\ cleanStart /\ bst = "wait"
          => tcp_receive_closed(t) \/ tcp_close(t)
    BY <1>8 DEF Handshake, Quiet, tcp_receive, tcp_receive_stray
  <2>2. /\ bst' = bst /\ cleanStart' = cleanStart /\ connected' = connected
        /\ told' = told /\ wire' = wire /\ c2s' = c2s /\ appPc' = appPc
        /\ sock' \in {sock, "dead"}
    BY <1>8 DEF tcp_receive, tcp_receive_closed, tcp_close, tcp_receive_stray
  <2>3. (tcp_receive_closed(t) \/ tcp_close(t))
             /\ (\A u \in Receivers : rpc[u] \notin {"dispatch", "stuck"})
          => \A u \in Receivers : rpc'[u] \notin {"dispatch", "stuck"}
    BY DEF TypeOK, tcp_receive_closed, tcp_close, RunAfterClose
  <2>4. tcp_receive_closed(t) \/ tcp_close(t) => s2c' = s2c
    BY DEF tcp_receive_closed, tcp_close
  <2>5. CallerAsks /\ cleanStart => Quiet' /\ ConnectFirst'
    BY <2>1, <2>2, <2>3, <2>4 DEF Handshake, Quiet, ConnectFirst
  <2> QED
    BY <2>2, <2>5 DEF Handshake
<1>9. ASSUME NEW t \in Receivers, Dispatch(t) PROVE Handshake'
  <2>1. PICK type \in PacketType : Handles(t, type)
    BY <1>9, DispatchStep
  <2>2. CallerAsks /\ cleanStart => bst # "wait" /\ wire # <<>>
    BY <2>1 DEF Handshake, Quiet, Handles
  <2>3. CASE NoReply
    BY <2>1, <2>2, <2>3
    DEF Handshake, Quiet, ConnectFirst, Handles, NoReply
  <2>4. CASE SendFails
    BY <2>1, <2>2, <2>4
    DEF Handshake, Quiet, ConnectFirst, Handles, SendFails
  <2>5. ASSUME NEW p \in Packet, SendAccepts(p), sock' = sock PROVE Handshake'
    <3>1. wire' # <<>>
      BY <2>5, SendFills
    <3>2. ASSUME CallerAsks, cleanStart PROVE InOrder(p)
      BY <2>2, <3>2 DEF InOrder
    <3> QED
      BY <2>1, <2>2, <2>5, <3>1, <3>2, SendInOrder
      DEF Handshake, Quiet, ConnectFirst, Handles
  <2> QED
    BY <1>9, <2>3, <2>4, <2>5, DispatchStep DEF mqttnox_tcp_send
<1> QED
  BY <1>1, <1>2, <1>3, <1>4, <1>5, <1>6, <1>7, <1>8, <1>9, <1>10, <1>11
  DEF Next, App, Receive

\* With callers that ask first, CONNECT is the first packet of a connection opened
\* while the client was not connected, no caller was about to call and no receive
\* thread was left, and only DISCONNECT may overtake the broker's answer.
THEOREM ConnectBeforeRequests == Spec => []HandshakeOrder
<1>1. Init => Handshake
  BY DEF Init, Handshake
<1>2. TypeOK /\ Handshake => HandshakeOrder
  <2> SUFFICES ASSUME TypeOK, Handshake, CallerAsks, cleanStart, NEW i \in 1 .. Len(wire)
               PROVE  IF i = 1 THEN wire[i].type = "CONNECT"
                      ELSE bst # "wait" \/ wire[i].type = "DISCONNECT"
    BY DEF HandshakeOrder
  <2>1. Quiet /\ ConnectFirst
    BY DEF Handshake
  <2>2. Len(wire) \in Nat /\ (Len(wire) > 0 => wire # <<>>)
    BY DEF TypeOK
  <2> QED
    BY <2>1, <2>2 DEF Quiet, ConnectFirst
<1> QED
  BY <1>1, <1>2, HandshakeStep, TypeCorrect, PTL DEF Spec

----------------------------------------------------------------------------
(* Order.  While one receive thread at a time uses the client, what goes   *)
(* in at one end of a connection comes out at the other in its order: the  *)
(* messages of the broker and their acknowledgements, the publications and *)
(* their events.  Each proof follows the packets along the way: what has   *)
(* come out, followed by what is still under way, is what went in.         *)

\* The packets that have left the broker and not yet their handler: the one a
\* receive thread has taken into rcv_buf, and those in flight behind it.
Handling == \E t \in Receivers : rpc[t] = "dispatch"
Coming == (IF Handling THEN <<rcv_buf>> ELSE <<>>) \o s2c

\* As long as mqttnox_connect never ran beside a running receive thread, the
\* thread of the last connection is the only one, and none reads an abandoned one.
OneAtATime ==
  ~overlap => Live \subseteq {conn} /\ \A t \in Receivers : rpc[t] # "stuck"

\* What is to be received is a sequence of packets.
LEMMA ComingType ==
  ASSUME TypeOK
  PROVE  Coming \in Seq(Packet)
  BY DEF TypeOK, Coming

----------------------------------------------------------------------------
(* What a step may do to the packets under way                             *)

\* Nothing moves; the socket or the peer may end.
Rests ==
  /\ UNCHANGED <<conn, events, bsent, wire, c2s>> /\ Coming' = Coming
  /\ sock' \in {sock, "dead"}
  /\ peer' = peer \/ (peer = "up" /\ peer' = "fin")

Opens ==
  /\ conn' = conn + 1 /\ events' = events
  /\ bsent' = <<>> /\ wire' = <<>> /\ c2s' = <<>> /\ Coming' = <<>>

\* The client sends a packet other than the acknowledgement of a message.
Sends(p) ==
  /\ UNCHANGED <<conn, events, bsent, peer>> /\ Coming' = Coming
  /\ p \notin Acknowledgements
  /\ sock = "open" /\ sock' \in {sock, "dead"}
  /\ wire' = Append(wire, p)
  /\ c2s' = IF peer = "up" THEN Append(c2s, p) ELSE c2s

\* A handler deals with the packet that came first.
Handled(t) ==
  /\ UNCHANGED <<conn, bsent, peer>> /\ Dispatch(t)
  /\ Coming = <<rcv_buf>> \o Coming'

\* The broker takes a packet, and answers it or closes.
Takes(r) ==
  /\ UNCHANGED <<conn, events, bsent, wire, sock>>
  /\ peer = "up" /\ c2s # <<>> /\ c2s' = Tail(c2s) /\ Coming' = Coming \o r
  /\ \/ r = BrokerReply(Head(c2s)) /\ peer' \in {"up", "fin"}
     \/ Head(c2s).type = "CONNECT" /\ r \in {<<Plain("CONNACK")>>, <<Pkt("CONNACK", ZeroIdent, 5)>>}
          /\ peer' \in {"up", "fin"}
     \/ r = <<>> /\ peer' = "fin"

Delivers(p) ==
  /\ UNCHANGED <<conn, events, wire, c2s, sock, peer>>
  /\ peer = "up" /\ Coming' = Coming \o <<p>>
  /\ \/ p \in Publications(0 .. 2) /\ bsent' = bsent \o <<p>>
     \/ p.type = "PUBREL" /\ bsent' = bsent

Resets ==
  /\ UNCHANGED <<conn, events, bsent, wire, sock>>
  /\ peer' = "reset" /\ c2s' = <<>> /\ Coming = Coming' \o s2c

\* Every step that leaves one receive thread at a time does one of these.
Moves ==
  \/ Rests \/ Opens \/ Resets
  \/ (\E p \in Packet : Sends(p) \/ Delivers(p))
  \/ (\E t \in Receivers : Handled(t))
  \/ (\E r \in Seq(Packet) : Takes(r))

\* A request sends a packet that acknowledges nothing.
LEMMA MovesSend ==
  ASSUME TypeOK, NEW p \in Packet, mqttnox_tcp_send(p), p \notin Acknowledgements,
         UNCHANGED <<conn, events, bsent, peer, s2c, rcv_buf, rpc>>
  PROVE  Moves
<1>1. Coming' = Coming
  BY DEF Coming, Handling
<1>2. CASE SendAccepts(p) /\ sock' = sock
  BY <1>1, <1>2 DEF Moves, Sends, SendAccepts
<1>3. CASE SendFails
  BY <1>1, <1>3 DEF Moves, Rests, SendFails
<1> QED
  BY <1>2, <1>3 DEF mqttnox_tcp_send

\* What a call of the application does to the packets on their way.
LEMMA MovesApp ==
  ASSUME TypeOK, OneAtATime, App, ~overlap'
  PROVE  Moves
<1> USE DEF linkVars, brokerVars, callVars, connVars, clientVars
<1>1. CASE mqttnox_init
  BY <1>1 DEF mqttnox_init, Moves, Rests, Coming, Handling
<1>2. CASE mqttnox_connect_open \/ mqttnox_connect_fails
  <2>1. /\ conn' = conn + 1 /\ events' = events /\ bsent' = <<>> /\ wire' = <<>>
        /\ c2s' = <<>> /\ s2c' = <<>>
    BY <1>2 DEF mqttnox_connect_open, mqttnox_connect_fails, BeginConnect
  <2>2. Live = {}
    BY <1>2, ConnectLive
  <2>3. ~Handling'
    BY <1>2, <2>2, ConnectLive DEF Handling
  <2> QED
    BY <2>1, <2>3 DEF Moves, Opens, Coming
<1>3. CASE mqttnox_connect_send
  <2>1. Plain("CONNECT") \in Packet /\ Plain("CONNECT") \notin Acknowledgements
    BY PlainType DEF PacketType, Plain, Pkt, Acknowledgements
  <2> QED
    BY <1>3, <2>1, MovesSend DEF mqttnox_connect_send
<1>4. CASE (\E qos \in 0 .. 2 : mqttnox_publish(qos)) \/ mqttnox_subscribe
             \/ mqttnox_unsubscribe
  <2>1. ASSUME NEW type \in {"PUBLISH", "SUBSCRIBE", "UNSUBSCRIBE"}, NEW id \in Ident,
               NEW x \in 0 .. 2, Request(Pkt(type, id, x))
        PROVE  Moves
    <3>1. Pkt(type, id, x) \in Packet /\ Pkt(type, id, x) \notin Acknowledgements
      BY DEF PacketType, Packet, Pkt, Acknowledgements
    <3> QED
      BY <2>1, <3>1, MovesSend DEF Request
  <2>2. packet_ident \in Ident /\ ZeroIdent \in Ident
    BY ZeroIdentType DEF TypeOK
  <2> QED
    BY <1>4, <2>1, <2>2 DEF mqttnox_publish, mqttnox_subscribe, mqttnox_unsubscribe
<1>5. CASE mqttnox_disconnect
  <2>1. Plain("DISCONNECT") \in Packet /\ Plain("DISCONNECT") \notin Acknowledgements
    BY PlainType DEF PacketType, Plain, Pkt, Acknowledgements
  <2>2. Coming' = Coming
    BY <1>5 DEF mqttnox_disconnect, Coming, Handling
  <2>3. CASE SendAccepts(Plain("DISCONNECT")) /\ sock' = sock
    BY <1>5, <2>1, <2>2, <2>3 DEF mqttnox_disconnect, Moves, Sends, SendAccepts
  <2>4. CASE SendFails
    BY <1>5, <2>2, <2>4 DEF mqttnox_disconnect, Moves, Rests, SendFails
  <2> QED
    BY <1>5, <2>3, <2>4 DEF mqttnox_disconnect
<1>6. CASE mqttnox_disconnect_close
  BY <1>6 DEF mqttnox_disconnect_close, SockAfterDisconnect, Moves, Rests, Coming, Handling
<1>7. CASE mqttnox_disconnect_clear \/ mqttnox_is_connected
  BY <1>7
  DEF mqttnox_disconnect_clear, mqttnox_is_connected, Moves, Rests, Coming, Handling
<1> QED
  BY <1>1, <1>2, <1>3, <1>4, <1>5, <1>6, <1>7 DEF App

\* What the broker and the network do to them.
LEMMA MovesBroker ==
  ASSUME TypeOK, Broker \/ link_reset
  PROVE  Moves
<1> USE DEF linkVars, brokerVars, callVars, connVars, clientVars
<1> DEFINE now == IF Handling THEN <<rcv_buf>> ELSE <<>>
<1>1. now \in Seq(Packet) /\ s2c \in Seq(Packet) /\ c2s \in Seq(Packet) /\ Coming = now \o s2c
  BY DEF TypeOK, Coming
<1>2. UNCHANGED <<rpc, rcv_buf>> => Coming' = now \o s2c'
  BY DEF Coming, Handling
<1> HIDE DEF now
<1>3. ASSUME NEW r \in Seq(Packet), s2c' = s2c \o r, UNCHANGED <<rpc, rcv_buf>>
      PROVE  Coming' = Coming \o r
  <2>1. Associated(now, s2c, r)
    BY <1>1, Associates
  <2>2. now \o (s2c \o r) = (now \o s2c) \o r
    BY <2>1, Zenon DEF Associated
  <2> QED
    BY <1>1, <1>2, <1>3, <2>2
<1>4. CASE broker_accept
  <2>1. PICK p \in {Plain("CONNACK"), Pkt("CONNACK", ZeroIdent, 5)} : s2c' = Append(s2c, p)
    BY <1>4 DEF broker_accept
  <2>2. p \in Packet
    BY PlainType, PktType, ZeroIdentType DEF PacketType
  <2>3. <<p>> \in Seq(Packet) /\ s2c' = s2c \o <<p>>
    BY <1>1, <2>1, <2>2, AppendIsConcat
  <2>4. Coming' = Coming \o <<p>>
    BY <1>3, <1>4, <2>3 DEF broker_accept
  <2>5. Takes(<<p>>)
    BY <1>4, <2>1, <2>4 DEF broker_accept, Takes
  <2> QED
    BY <2>3, <2>5 DEF Moves
<1>5. CASE broker_read
  <2>1. CASE bst = "up"
    <3>1. Head(c2s) \in Packet
      BY <1>1, <1>5, HeadTailProperties DEF broker_read
    <3>2. BrokerReply(Head(c2s)) \in Seq(Packet)
      <4>1. \A type \in PacketType : <<Pkt(type, Head(c2s).id, 0)>> \in Seq(Packet)
        <5>1. Head(c2s).id \in Ident
          BY <3>1 DEF Packet
        <5> QED
          BY <5>1, PktType
      <4> QED
        BY <4>1 DEF BrokerReply, PacketType
    <3>3. Coming' = Coming \o BrokerReply(Head(c2s))
      BY <1>3, <1>5, <2>1, <3>2 DEF broker_read
    <3>4. Takes(BrokerReply(Head(c2s)))
      BY <1>5, <2>1, <3>3 DEF broker_read, Takes
    <3> QED
      BY <3>2, <3>4 DEF Moves
  <2>2. CASE bst # "up"
    <3>1. <<>> \in Seq(Packet) /\ s2c' = s2c \o <<>>
      BY <1>1, <1>5, <2>2, ConcatEmptySeq DEF broker_read
    <3>2. Coming' = Coming \o <<>>
      BY <1>3, <1>5, <3>1 DEF broker_read
    <3>3. Takes(<<>>)
      BY <1>5, <2>2, <3>2 DEF broker_read, Takes
    <3> QED
      BY <3>1, <3>3 DEF Moves
  <2> QED
    BY <2>1, <2>2
<1>6. ASSUME NEW m \in InMsgs, broker_deliver(m) PROVE Moves
  <2> DEFINE p == Pkt("PUBLISH", m, InQos[m])
  <2>1. p \in Publications(0 .. 2) /\ p \in Packet
    BY IdentAssumption, QosAssumption DEF Publications, Pkt, Packet, PacketType
  <2> HIDE DEF p
  <2>2. <<p>> \in Seq(Packet) /\ s2c' = s2c \o <<p>> /\ bsent' = bsent \o <<p>>
    BY <1>6, <2>1, AppendIsConcat DEF TypeOK, broker_deliver, p
  <2>3. Coming' = Coming \o <<p>>
    BY <1>3, <1>6, <2>2 DEF broker_deliver
  <2> QED
    BY <1>6, <2>1, <2>2, <2>3 DEF broker_deliver, Moves, Delivers
<1>7. ASSUME NEW m \in InMsgs, broker_release(m) PROVE Moves
  <2> DEFINE p == Pkt("PUBREL", m, 0)
  <2>1. p \in Packet /\ p.type = "PUBREL"
    BY IdentAssumption DEF Pkt, Packet, PacketType
  <2> HIDE DEF p
  <2>2. <<p>> \in Seq(Packet) /\ s2c' = s2c \o <<p>>
    BY <1>7, <2>1, AppendIsConcat DEF TypeOK, broker_release, p
  <2>3. Coming' = Coming \o <<p>>
    BY <1>3, <1>7, <2>2 DEF broker_release
  <2> QED
    BY <1>7, <2>1, <2>3 DEF broker_release, Moves, Delivers
<1>8. CASE broker_close
  BY <1>1, <1>2, <1>8 DEF broker_close, Moves, Rests
<1>9. CASE link_reset
  <2>1. Coming' = now
    BY <1>1, <1>2, <1>9, ConcatEmptySeq DEF link_reset
  <2> QED
    BY <1>1, <1>9, <2>1 DEF link_reset, Moves, Resets
<1> QED
  BY <1>4, <1>5, <1>6, <1>7, <1>8, <1>9 DEF Broker

\* What a receive thread does to them.
LEMMA MovesReceive ==
  ASSUME TypeOK, OneAtATime, ~overlap, NEW t \in Receivers,
         Receive(t) \/ tcp_receive_stray(t)
  PROVE  Moves
<1> USE DEF linkVars, brokerVars, callVars, connVars, clientVars
<1>1. t \in Live /\ Live = {t}
  BY ReceiveLive DEF OneAtATime
<1>2. \A u \in Receivers : rpc[u] = "dispatch" => u = t
  BY <1>1 DEF Live
<1>3. CASE tcp_receive(t)
  <2>1. ~Handling /\ Handling' /\ rcv_buf' = Head(s2c) /\ s2c' = Tail(s2c) /\ s2c # <<>>
    BY <1>2, <1>3 DEF TypeOK, Handling, tcp_receive, Unread
  <2>2. s2c \in Seq(Packet)
    BY DEF TypeOK
  <2>3. <<>> \o s2c = s2c /\ <<Head(s2c)>> \o Tail(s2c) = s2c
    BY <2>1, <2>2
  <2>4. Coming' = Coming
    BY <2>1, <2>3 DEF Coming
  <2> QED
    BY <1>3, <2>4 DEF tcp_receive, Moves, Rests
<1>4. CASE tcp_receive_closed(t)
  <2>1. ~Handling /\ ~Handling'
    BY <1>2, <1>4 DEF TypeOK, Handling, tcp_receive_closed
  <2> QED
    BY <1>4, <2>1 DEF tcp_receive_closed, Moves, Rests, Coming
<1>6. CASE tcp_close(t)
  <2>1. ~Handling /\ ~Handling'
    BY <1>2, <1>6 DEF TypeOK, Handling, tcp_close, RunAfterClose
  <2> QED
    BY <1>6, <2>1 DEF tcp_close, Moves, Rests, Coming
<1>7. ~tcp_receive_stray(t)
  BY DEF OneAtATime, tcp_receive_stray
<1>5. CASE Dispatch(t)
  <2>1. PICK type \in PacketType : Handles(t, type)
    BY <1>5, DispatchStep
  <2>2. Handling /\ ~Handling' /\ s2c' = s2c
    BY <1>2, <2>1 DEF TypeOK, Handling, Handles, AfterDispatch
  <2>3. s2c \in Seq(Packet) /\ <<>> \o s2c = s2c
    BY DEF TypeOK
  <2>4. Coming = <<rcv_buf>> \o Coming'
    BY <2>2, <2>3 DEF Coming
  <2> QED
    BY <1>5, <2>1, <2>4 DEF Handles, Moves, Handled
<1> QED
  BY <1>3, <1>4, <1>5, <1>6, <1>7 DEF Receive

\* overlap is history: only mqttnox_connect sets it, nothing resets it.
LEMMA StepOverlap ==
  ASSUME TypeOK, [Next]_vars
  PROVE  overlap => overlap'
<1> USE DEF connVars
<1>1. CASE UNCHANGED vars
  BY <1>1 DEF vars
<1>2. CASE App
  BY <1>2, ConnectLive
  DEF App, mqttnox_init, mqttnox_is_connected, mqttnox_connect_send, mqttnox_publish,
      mqttnox_subscribe, mqttnox_unsubscribe, Request, mqttnox_disconnect,
      mqttnox_disconnect_close, mqttnox_disconnect_clear
<1>3. CASE Broker \/ link_reset
  BY <1>3 DEF Broker, broker_accept, broker_read, broker_deliver, broker_release,
     broker_close, link_reset
<1>4. ASSUME NEW t \in Receivers, Receive(t) \/ tcp_receive_stray(t)
      PROVE  overlap => overlap'
  BY <1>4, ReceiveLive
<1> QED
  BY <1>1, <1>2, <1>3, <1>4 DEF Next

\* So every step does one of these things to them.
LEMMA EveryStepMoves ==
  ASSUME TypeOK, OneAtATime, [Next]_vars, ~overlap'
  PROVE  ~overlap /\ Moves
<1>1. ~overlap
  BY StepOverlap
<1>2. CASE UNCHANGED vars
  BY <1>2 DEF vars, linkVars, brokerVars, callVars, connVars, clientVars,
              Moves, Rests, Coming, Handling
<1> QED
  BY <1>1, <1>2, MovesApp, MovesBroker, MovesReceive DEF Next
----------------------------------------------------------------------------
(* What the histories are seen through: identifiers, acknowledgements      *)

\* The identifiers of a sequence.
LEMMA IdsType ==
  ASSUME NEW U, \A u \in U : u.id \in Ident, NEW s \in Seq(U)
  PROVE  /\ Ids(s) \in Seq(Ident) /\ Len(Ids(s)) = Len(s)
         /\ \A i \in 1 .. Len(s) : Ids(s)[i] = s[i].id
  BY DEF Ids

\* The identifiers of two sequences put together.
LEMMA IdsConcat ==
  ASSUME NEW U, \A u \in U : u.id \in Ident, NEW s \in Seq(U), NEW t \in Seq(U)
  PROVE  Ids(s \o t) = Ids(s) \o Ids(t)
<1>1. /\ s \o t \in Seq(U) /\ Len(s \o t) = Len(s) + Len(t)
      /\ Len(s) \in Nat /\ Len(t) \in Nat
      /\ \A i \in 1 .. Len(s) : (s \o t)[i] = s[i]
      /\ \A i \in 1 .. Len(t) : (s \o t)[Len(s) + i] = t[i]
  OBVIOUS
<1> DEFINE a == Ids(s)
           b == Ids(t)
           c == Ids(s \o t)
<1>2. /\ a \in Seq(Ident) /\ Len(a) = Len(s)
      /\ \A i \in 1 .. Len(s) : a[i] = s[i].id
  BY IdsType
<1>3. /\ b \in Seq(Ident) /\ Len(b) = Len(t)
      /\ \A i \in 1 .. Len(t) : b[i] = t[i].id
  BY IdsType
<1>4. /\ c \in Seq(Ident) /\ Len(c) = Len(s \o t)
      /\ \A i \in 1 .. Len(s \o t) : c[i] = (s \o t)[i].id
  BY <1>1, IdsType
<1> HIDE DEF a, b, c
<1>5. \A i \in 1 .. Len(s) : i \in 1 .. Len(s \o t)
  BY <1>1
<1>6. \A i \in 1 .. Len(t) : Len(s) + i \in 1 .. Len(s \o t)
  BY <1>1
<1>7. ASSUME NEW i \in 1 .. Len(s) PROVE c[i] = a[i]
  BY <1>1, <1>2, <1>4, <1>5, <1>7, Zenon
<1>8. ASSUME NEW i \in 1 .. Len(t) PROVE c[Len(s) + i] = b[i]
  BY <1>1, <1>3, <1>4, <1>6, <1>8, Zenon
<1>9. /\ Len(c) = Len(a) + Len(b)
      /\ \A i \in 1 .. Len(a) : c[i] = a[i]
      /\ \A i \in 1 .. Len(b) : c[Len(a) + i] = b[i]
  BY <1>1, <1>2, <1>3, <1>4, <1>7, <1>8
<1>10. c = a \o b
  BY <1>2, <1>3, <1>4, <1>9, ConcatIs
<1> QED
  BY <1>10 DEF a, b, c

\* The identifiers of no and of one packet.
LEMMA IdsShort ==
  ASSUME NEW p
  PROVE  Ids(<<>>) = <<>> /\ Ids(<<p>>) = <<p.id>>
  BY DEF Ids

\* The acknowledgements that a sequence asks for.
LEMMA AcksForType ==
  ASSUME NEW s \in Seq(Packet)
  PROVE  /\ AcksFor(s) \in Seq(Packet) /\ Len(AcksFor(s)) = Len(s)
         /\ \A i \in 1 .. Len(s) : AcksFor(s)[i] = AckFor(s[i])
<1>1. \A p \in Packet : AckFor(p) \in Packet
  BY DEF AckFor, Pkt, Packet, PacketType
<1> QED
  BY <1>1 DEF AcksFor

\* The acknowledgements of two sequences put together.
LEMMA AcksForConcat ==
  ASSUME NEW s \in Seq(Packet), NEW t \in Seq(Packet)
  PROVE  AcksFor(s \o t) = AcksFor(s) \o AcksFor(t)
<1>1. /\ s \o t \in Seq(Packet) /\ Len(s \o t) = Len(s) + Len(t)
      /\ Len(s) \in Nat /\ Len(t) \in Nat
      /\ \A i \in 1 .. Len(s) : (s \o t)[i] = s[i]
      /\ \A i \in 1 .. Len(t) : (s \o t)[Len(s) + i] = t[i]
  OBVIOUS
<1> DEFINE a == AcksFor(s)
           b == AcksFor(t)
           c == AcksFor(s \o t)
<1>2. /\ a \in Seq(Packet) /\ Len(a) = Len(s)
      /\ \A i \in 1 .. Len(s) : a[i] = AckFor(s[i])
  BY AcksForType
<1>3. /\ b \in Seq(Packet) /\ Len(b) = Len(t)
      /\ \A i \in 1 .. Len(t) : b[i] = AckFor(t[i])
  BY AcksForType
<1>4. /\ c \in Seq(Packet) /\ Len(c) = Len(s \o t)
      /\ \A i \in 1 .. Len(s \o t) : c[i] = AckFor((s \o t)[i])
  BY <1>1, AcksForType
<1> HIDE DEF a, b, c
<1>5. \A i \in 1 .. Len(s) : i \in 1 .. Len(s \o t)
  BY <1>1
<1>6. \A i \in 1 .. Len(t) : Len(s) + i \in 1 .. Len(s \o t)
  BY <1>1
<1>7. ASSUME NEW i \in 1 .. Len(s) PROVE c[i] = a[i]
  BY <1>1, <1>2, <1>4, <1>5, <1>7, Zenon
<1>8. ASSUME NEW i \in 1 .. Len(t) PROVE c[Len(s) + i] = b[i]
  BY <1>1, <1>3, <1>4, <1>6, <1>8, Zenon
<1>9. /\ Len(c) = Len(a) + Len(b)
      /\ \A i \in 1 .. Len(a) : c[i] = a[i]
      /\ \A i \in 1 .. Len(b) : c[Len(a) + i] = b[i]
  BY <1>1, <1>2, <1>3, <1>4, <1>7, <1>8
<1>10. c = a \o b
  BY <1>2, <1>3, <1>4, <1>9, ConcatIs
<1> QED
  BY <1>10 DEF a, b, c

\* The acknowledgements of no and of one packet.
LEMMA AcksForShort ==
  ASSUME NEW p
  PROVE  AcksFor(<<>>) = <<>> /\ AcksFor(<<p>>) = <<AckFor(p)>>
  BY DEF AcksFor
----------------------------------------------------------------------------
(* What a handler tells the callback and answers the broker                *)

\* Both conversions keep the order of the two bytes.
LEMMA PairBytes ==
  ASSUME NEW id \in Ident
  PROVE  MsbFirst(id) = id /\ EventIdent(id) = id
  BY DEF Ident, MsbFirst, EventIdent

\* The event that a handler sends.
LEMMA HandlerEvent ==
  ASSUME TypeOK, NEW t \in Receivers, Dispatch(t)
  PROVE  \/ rcv_buf.type = "PUBLISH" /\ mqttnox_send_event("RECEIVED", rcv_buf.id)
         \/ rcv_buf.type = "PUBACK" /\ mqttnox_send_event("PUBLISHED", rcv_buf.id)
         \/ /\ rcv_buf.type \notin {"PUBLISH", "PUBACK"}
            /\ \/ events' = events
               \/ \E evt_id \in EventId \ {"RECEIVED", "PUBLISHED"}, id \in Ident :
                    mqttnox_send_event(evt_id, id)
<1>1. rcv_buf.id \in Ident /\ ZeroIdent \in Ident
  BY ZeroIdentType DEF TypeOK, Packet
<1>2. EventIdent(rcv_buf.id) = rcv_buf.id
  BY <1>1, PairBytes
<1>3. CASE mqttnox_handler_publish(t)
  BY <1>3 DEF mqttnox_handler_publish, Handles
<1>4. CASE mqttnox_handler_puback(t)
  BY <1>2, <1>4 DEF mqttnox_handler_puback, Handles
<1>5. CASE mqttnox_handler_connack(t)
  BY <1>1, <1>5 DEF mqttnox_handler_connack, Handles, EventId
<1>6. CASE mqttnox_handler_suback(t)
  BY <1>1, <1>6 DEF mqttnox_handler_suback, Handles, EventId
<1>7. CASE mqttnox_handler_unsuback(t)
  BY <1>1, <1>2, <1>7 DEF mqttnox_handler_unsuback, Handles, EventId
<1>8. CASE mqttnox_handler_pubrec(t) \/ mqttnox_handler_pubrel(t) \/ mqttnox_handler_pubcomp(t)
  BY <1>8 DEF mqttnox_handler_pubrec, mqttnox_handler_pubrel,
              mqttnox_handler_pubcomp, Handles
<1> QED
  BY <1>3, <1>4, <1>5, <1>6, <1>7, <1>8 DEF Dispatch

\* The packet that a handler sends.
LEMMA HandlerReply ==
  ASSUME TypeOK, NEW t \in Receivers, Dispatch(t)
  PROVE  \/ rcv_buf \in Publications(1 .. 5) /\ mqttnox_tcp_send(AckFor(rcv_buf))
         \/ /\ rcv_buf \notin Publications(1 .. 5)
            /\ \/ NoReply
               \/ \E p \in Packet :
                    p.type \in {"PUBREL", "PUBCOMP"} /\ mqttnox_tcp_send(p)
<1>1. rcv_buf \in Packet /\ rcv_buf.id \in Ident
  BY DEF TypeOK, Packet
<1>2. MsbFirst(rcv_buf.id) = rcv_buf.id /\ SwappedBytes(AckIdent(rcv_buf.id)) \in Ident
  BY <1>1, PairBytes, IdentBytes
<1>3. CASE mqttnox_handler_publish(t)
  <2>1. rcv_buf.type = "PUBLISH"
    BY <1>3 DEF mqttnox_handler_publish, Handles
  <2>2. rcv_buf \in Publications(1 .. 5) <=> rcv_buf.x # 0
    BY <1>1, <2>1 DEF Packet, Publications
  <2>3. CASE rcv_buf.x = 0
    <3>1. rcv_buf.x # 1
      BY <2>3
    <3>2. NoReply
      BY <1>3, <2>3, <3>1, Zenon DEF mqttnox_handler_publish
    <3> QED
      BY <2>2, <2>3, <3>2
  <2>4. CASE rcv_buf.x = 1
    <3>1. mqttnox_tcp_send(Pkt("PUBACK", MsbFirst(rcv_buf.id), 0))
      BY <1>3, <2>4 DEF mqttnox_handler_publish
    <3>2. rcv_buf.x # 0
      BY <2>4
    <3> QED
      BY <1>2, <2>2, <2>4, <3>1, <3>2, Zenon DEF AckFor
  <2>5. CASE rcv_buf.x # 0 /\ rcv_buf.x # 1
    <3>1. mqttnox_tcp_send(Pkt("PUBREC", MsbFirst(rcv_buf.id), 0))
      BY <1>3, <2>5, Zenon DEF mqttnox_handler_publish
    <3> QED
      BY <1>2, <2>2, <2>5, <3>1, Zenon DEF AckFor
  <2> QED
    BY <2>3, <2>4, <2>5
<1>4. CASE mqttnox_handler_pubrec(t) \/ mqttnox_handler_pubrel(t)
  <2>1. rcv_buf \notin Publications(1 .. 5)
    BY <1>4 DEF mqttnox_handler_pubrec, mqttnox_handler_pubrel, Handles, Publications
  <2>2. \A type \in {"PUBREL", "PUBCOMP"} :
          LET p == Pkt(type, SwappedBytes(AckIdent(rcv_buf.id)), 0)
          IN  p \in Packet /\ p.type = type
    BY <1>2 DEF Pkt, Packet, PacketType
  <2> QED
    BY <1>4, <2>1, <2>2, Zenon DEF mqttnox_handler_pubrec, mqttnox_handler_pubrel
<1>5. CASE \/ mqttnox_handler_connack(t) \/ mqttnox_handler_puback(t)
           \/ mqttnox_handler_suback(t) \/ mqttnox_handler_unsuback(t)
           \/ mqttnox_handler_pubcomp(t)
  BY <1>5 DEF mqttnox_handler_connack, mqttnox_handler_puback,
     mqttnox_handler_suback, mqttnox_handler_unsuback, mqttnox_handler_pubcomp,
     Handles, Publications
<1> QED
  BY <1>3, <1>4, <1>5 DEF Dispatch

\* One more event on this connection is one more identifier in its history.
LEMMA EventSeen ==
  ASSUME TypeOK, NEW evt_id \in EventId, NEW id \in Ident, conn' = conn,
         mqttnox_send_event(evt_id, id), NEW name
  PROVE  Ids(OnConn(name))'
           = Ids(OnConn(name)) \o (IF name = evt_id THEN <<id>> ELSE <<>>)
<1> DEFINE e == [conn |-> conn, evt_id |-> evt_id, id |-> id]
           S == [conn : {conn}, evt_id : {name}, id : Ident]
<1>1. e \in Event /\ e.id = id /\ (e \in S <=> name = evt_id)
  BY DEF TypeOK, Event
<1>2. events \in Seq(Event) /\ events' = Append(events, e)
  BY DEF TypeOK, mqttnox_send_event
<1>3. OnConn(name)' = Only(Append(events, e), S) /\ OnConn(name) = Only(events, S)
  BY <1>2 DEF OnConn
<1> HIDE DEF e, S
<1>4. Only(Append(events, e), S)
        = IF e \in S THEN Append(Only(events, S), e) ELSE Only(events, S)
  BY <1>1, <1>2, OnlyAppend
<1>5. Only(events, S) \in Seq(Event)
  BY <1>2, OnlySeq
<1>6. \A u \in Event : u.id \in Ident
  BY DEF Event
<1>7. CASE name = evt_id
  <2>1. OnConn(name)' = OnConn(name) \o <<e>> /\ <<e>> \in Seq(Event)
    BY <1>1, <1>3, <1>4, <1>5, <1>7
  <2>2. ASSUME NEW s \in Seq(Event) PROVE Ids(s \o <<e>>) = Ids(s) \o <<id>>
    BY <1>1, <1>6, <2>1, IdsConcat, IdsShort
  <2> QED
    BY <1>3, <1>5, <1>7, <2>1, <2>2
<1>8. CASE name # evt_id
  <2>1. OnConn(name)' = OnConn(name)
    BY <1>1, <1>3, <1>4, <1>8
  <2>2. Ids(OnConn(name)) \in Seq(Ident)
    BY <1>3, <1>5, <1>6, IdsType
  <2> QED
    BY <1>8, <2>1, <2>2
<1> QED
  BY <1>7, <1>8

\* What a handler adds to the events of its connection.
LEMMA EventsSeen ==
  ASSUME TypeOK, NEW t \in Receivers, Dispatch(t), conn' = conn
  PROVE  /\ Ids(OnConn("RECEIVED"))'
              = Ids(OnConn("RECEIVED"))
                  \o (IF rcv_buf.type = "PUBLISH" THEN <<rcv_buf.id>> ELSE <<>>)
         /\ Ids(OnConn("PUBLISHED"))'
              = Ids(OnConn("PUBLISHED"))
                  \o (IF rcv_buf.type = "PUBACK" THEN <<rcv_buf.id>> ELSE <<>>)
<1>1. rcv_buf.id \in Ident
  BY DEF TypeOK, Packet
<1>2. CASE rcv_buf.type = "PUBLISH" /\ mqttnox_send_event("RECEIVED", rcv_buf.id)
  BY <1>1, <1>2, EventSeen DEF EventId
<1>3. CASE rcv_buf.type = "PUBACK" /\ mqttnox_send_event("PUBLISHED", rcv_buf.id)
  BY <1>1, <1>3, EventSeen DEF EventId
<1>4. ASSUME rcv_buf.type \notin {"PUBLISH", "PUBACK"},
             NEW evt_id \in EventId \ {"RECEIVED", "PUBLISHED"}, NEW id \in Ident,
             mqttnox_send_event(evt_id, id)
      PROVE  /\ Ids(OnConn("RECEIVED"))' = Ids(OnConn("RECEIVED")) \o <<>>
             /\ Ids(OnConn("PUBLISHED"))' = Ids(OnConn("PUBLISHED")) \o <<>>
  BY <1>4, EventSeen
<1>5. CASE rcv_buf.type \notin {"PUBLISH", "PUBACK"} /\ events' = events
  <2>1. ASSUME NEW name PROVE Ids(OnConn(name))' = Ids(OnConn(name)) \o <<>>
    <3>1. OnConn(name)' = OnConn(name)
      BY <1>5 DEF OnConn
    <3>2. OnConn(name) \in Seq(Event)
      BY OnlySeq DEF TypeOK, OnConn
    <3>3. Ids(OnConn(name)) \in Seq(Ident)
      <4>1. \A u \in Event : u.id \in Ident
        BY DEF Event
      <4> QED
        BY <3>2, <4>1, IdsType
    <3> QED
      BY <3>1, <3>3
  <2> QED
    BY <1>5, <2>1
<1> QED
  BY <1>2, <1>3, <1>4, <1>5, HandlerEvent
----------------------------------------------------------------------------
(* One receive thread, and events of no later connection                   *)

PastEvents == \A i \in 1 .. Len(events) : events[i].conn <= conn

\* Every step leaves the receive thread of the last connection the only one.
LEMMA OneAtATimeStep ==
  ASSUME TypeOK, OneAtATime, [Next]_vars
  PROVE  OneAtATime'
<1> DEFINE Stuck == \E t \in Receivers : rpc[t] = "stuck"
<1> SUFFICES ASSUME ~overlap' PROVE Live' \subseteq {conn'} /\ ~Stuck'
  BY DEF OneAtATime
<1> USE DEF connVars
<1>1. ~overlap /\ Live \subseteq {conn} /\ ~Stuck
  BY StepOverlap DEF OneAtATime
<1>2. CASE mqttnox_connect_open \/ mqttnox_connect_fails
  <2>1. Live = {}
    BY <1>2, ConnectLive
  <2> QED
    BY <1>2, <2>1, ConnectLive
<1>3. CASE UNCHANGED <<conn, rpc>>
  BY <1>1, <1>3 DEF Live
<1>4. ASSUME NEW t \in Receivers, Receive(t) \/ tcp_receive_stray(t)
      PROVE  Live' \subseteq {conn'} /\ ~Stuck'
  <2>1. Live' \subseteq {conn'}
    BY <1>1, <1>4, ReceiveLive
  <2>2. ~tcp_receive_stray(t)
    BY <1>1 DEF tcp_receive_stray
  <2>3. CASE tcp_receive(t) \/ tcp_receive_closed(t) \/ tcp_close(t)
    BY <1>1, <2>1, <2>3
    DEF TypeOK, tcp_receive, tcp_receive_closed, tcp_close, RunAfterClose
  <2>4. CASE Dispatch(t)
    <3>1. PICK type \in PacketType : Handles(t, type)
      BY <2>4, DispatchStep
    <3> QED
      BY <1>1, <2>1, <3>1 DEF TypeOK, Handles, AfterDispatch
  <2> QED
    BY <1>4, <2>2, <2>3, <2>4 DEF Receive
<1>5. CASE App /\ ~mqttnox_connect_open /\ ~mqttnox_connect_fails
  BY <1>3, <1>5
  DEF App, mqttnox_init, mqttnox_is_connected, mqttnox_connect_send, mqttnox_publish,
      mqttnox_subscribe, mqttnox_unsubscribe, Request, mqttnox_disconnect,
      mqttnox_disconnect_close, mqttnox_disconnect_clear
<1>6. CASE Broker \/ link_reset
  BY <1>3, <1>6 DEF Broker, broker_accept, broker_read, broker_deliver,
     broker_release, broker_close, link_reset
<1>7. CASE UNCHANGED vars
  BY <1>3, <1>7 DEF vars
<1> QED
  BY <1>2, <1>4, <1>5, <1>6, <1>7 DEF Next

\* No event is of a connection to come.
LEMMA PastEventsStep ==
  ASSUME TypeOK, TypeOK', PastEvents, [Next]_vars
  PROVE  PastEvents'
<1> USE DEF connVars
<1>0. conn \in Nat /\ conn' \in Nat /\ events \in Seq(Event) /\ \A e \in Event : e.conn \in Nat
  BY DEF TypeOK, Event
<1>1. CASE events' = events /\ conn <= conn'
  BY <1>0, <1>1 DEF PastEvents
<1>2. ASSUME NEW evt_id \in EventId, NEW id \in Ident,
             mqttnox_send_event(evt_id, id), conn' = conn
      PROVE  PastEvents'
  <2> DEFINE e == [conn |-> conn, evt_id |-> evt_id, id |-> id]
  <2>1. e \in Event /\ e.conn = conn /\ events' = Append(events, e)
    BY <1>2 DEF TypeOK, Event, mqttnox_send_event
  <2> HIDE DEF e
  <2> QED
    BY <1>0, <1>2, <2>1 DEF PastEvents
<1>3. CASE App
  <2>1. events' = events
    BY <1>3, Zenon
    DEF App, mqttnox_init, mqttnox_is_connected, mqttnox_connect_open,
        mqttnox_connect_fails, BeginConnect, mqttnox_connect_send, mqttnox_publish,
        mqttnox_subscribe, mqttnox_unsubscribe, Request, mqttnox_disconnect,
        mqttnox_disconnect_close, mqttnox_disconnect_clear
  <2>2. conn' = conn \/ conn' = conn + 1
    BY <1>3, Zenon
    DEF App, mqttnox_init, mqttnox_is_connected, mqttnox_connect_open,
        mqttnox_connect_fails, BeginConnect, mqttnox_connect_send, mqttnox_publish,
        mqttnox_subscribe, mqttnox_unsubscribe, Request, mqttnox_disconnect,
        mqttnox_disconnect_close, mqttnox_disconnect_clear
  <2>3. conn <= conn'
    BY <1>0, <2>2
  <2> QED
    BY <1>1, <2>1, <2>3
<1>4. CASE Broker \/ link_reset \/ UNCHANGED vars
  BY <1>0, <1>1, <1>4 DEF Broker, broker_accept, broker_read, broker_deliver,
     broker_release, broker_close, link_reset, vars
<1>5. ASSUME NEW t \in Receivers, Receive(t) \/ tcp_receive_stray(t)
      PROVE  PastEvents'
  <2>1. CASE \/ tcp_receive(t) \/ tcp_receive_closed(t) \/ tcp_close(t)
             \/ tcp_receive_stray(t)
    BY <1>0, <1>1, <2>1
    DEF tcp_receive, tcp_receive_closed, tcp_close, tcp_receive_stray
  <2>2. CASE Dispatch(t)
    <3>1. conn' = conn
      BY <2>2, DispatchStep DEF Handles
    <3>2. rcv_buf.id \in Ident
      BY DEF TypeOK, Packet
    <3>3. "RECEIVED" \in EventId /\ "PUBLISHED" \in EventId
      BY DEF EventId
    <3> QED
      BY <1>0, <1>1, <1>2, <2>2, <3>1, <3>2, <3>3, HandlerEvent
  <2> QED
    BY <1>5, <2>1, <2>2 DEF Receive
<1> QED
  BY <1>3, <1>4, <1>5 DEF Next

----------------------------------------------------------------------------
(* What a step does to the identifiers under way                           *)

\* The identifiers of the packets of one kind.
LEMMA IdsOnly ==
  ASSUME NEW s \in Seq(Packet), NEW t \in Seq(Packet), NEW S
  PROVE  /\ Ids(Only(s, S)) \in Seq(Ident)
         /\ Ids(Only(s \o t, S)) = Ids(Only(s, S)) \o Ids(Only(t, S))
<1>1. \A p \in Packet : p.id \in Ident
  BY DEF Packet
<1>2. Only(s, S) \in Seq(Packet) /\ Only(t, S) \in Seq(Packet)
  BY OnlySeq
<1>3. Only(s \o t, S) = Only(s, S) \o Only(t, S)
  BY OnlyConcat
<1>4. Ids(Only(s, S) \o Only(t, S)) = Ids(Only(s, S)) \o Ids(Only(t, S))
  BY <1>1, <1>2, IdsConcat
<1> QED
  BY <1>1, <1>2, <1>3, <1>4, IdsType

\* The same of one packet.
LEMMA IdsOnlyOne ==
  ASSUME NEW p \in Packet, NEW S
  PROVE  Ids(Only(<<p>>, S)) = IF p \in S THEN <<p.id>> ELSE <<>>
<1>1. Only(<<p>>, S) = IF p \in S THEN <<p>> ELSE <<>>
  BY OnlyOne
<1> QED
  BY <1>1, IdsShort

\* The same of no packet.
LEMMA IdsOnlyNone ==
  ASSUME NEW S
  PROVE  Ids(Only(<<>>, S)) = <<>>
  BY OnlyEmpty, IdsShort

\* The identifiers announced on this connection.
LEMMA IdsOnConn ==
  ASSUME TypeOK, NEW name
  PROVE  Ids(OnConn(name)) \in Seq(Ident)
<1>1. OnConn(name) \in Seq(Event) /\ \A u \in Event : u.id \in Ident
  BY OnlySeq DEF TypeOK, OnConn, Event
<1> QED
  BY <1>1, IdsType

\* A new connection has no events yet.
LEMMA FreshEvents ==
  ASSUME TypeOK, PastEvents, events' = events, conn' = conn + 1, NEW name
  PROVE  Ids(OnConn(name))' = <<>>
<1> DEFINE S == [conn : {conn + 1}, evt_id : {name}, id : Ident]
<1>1. OnConn(name)' = Only(events, S)
  BY DEF OnConn
<1>2. ASSUME NEW i \in 1 .. Len(events) PROVE events[i] \notin S
  <2>1. events[i] \in Event /\ events[i].conn <= conn /\ conn \in Nat
    BY DEF TypeOK, PastEvents
  <2>2. events[i].conn \in Nat /\ events[i].conn # conn + 1
    BY <2>1 DEF Event
  <2> QED
    BY <2>2
<1> HIDE DEF S
<1>3. Only(events, S) = <<>>
  BY <1>2, OnlyNone DEF TypeOK
<1> QED
  BY <1>1, <1>3, IdsShort

\* Sequences of identifiers associate.
LEMMA IdentsConcat ==
  ASSUME NEW a \in Seq(Ident), NEW b \in Seq(Ident), NEW c \in Seq(Ident)
  PROVE  (a \o b) \o c = a \o (b \o c)
  BY ConcatAssociative

\* The beginning of a prefix is a prefix.
LEMMA IdentsPrefix ==
  ASSUME NEW a \in Seq(Ident), NEW b \in Seq(Ident), NEW c \in Seq(Ident),
         IsPrefix(a \o b, c)
  PROVE  IsPrefix(a, c)
  BY PrefixShrinks

\* Nothing is a prefix of nothing.
LEMMA PrefixEmpty == IsPrefix(<<>>, <<>>)
  BY DEF IsPrefix

\* The same of the next state.
LEMMA ComingTypeNext ==
  ASSUME TypeOK'
  PROVE  Coming' \in Seq(Packet)
  BY DEF TypeOK, Coming

----------------------------------------------------------------------------
(* The messages of the broker reach the callback in order                  *)

Received == Ids(OnConn("RECEIVED")) \o Ids(Only(Coming, Publications(0 .. 5)))

\* What the callback has received, followed by what is under way to it, is what
\* the broker has sent; a reset loses some of what was under way.
ReceivedSoFar ==
  ~overlap => /\ IsPrefix(Received, Ids(bsent))
              /\ peer # "reset" => Received = Ids(bsent)

\* Nothing new: neither received, nor under way, nor sent.
LEMMA ReceivedKeeps ==
  ASSUME Received' = Received, bsent' = bsent, ReceivedSoFar, ~overlap,
         peer' # "reset" => peer # "reset"
  PROVE  ReceivedSoFar'
  BY DEF ReceivedSoFar

\* Every step keeps what was received in the order in which it was sent.
LEMMA ReceivedStep ==
  ASSUME TypeOK, TypeOK', PastEvents, OneAtATime, ReceivedSoFar, [Next]_vars
  PROVE  ReceivedSoFar'
<1> SUFFICES ASSUME ~overlap'
             PROVE  ReceivedSoFar'
  BY DEF ReceivedSoFar
<1>1. Moves /\ ~overlap
  BY EveryStepMoves
<1> DEFINE P == Publications(0 .. 5)
           E == Ids(OnConn("RECEIVED"))
           M == Ids(Only(Coming, P))
<1>2. /\ IsPrefix(E \o M, Ids(bsent))
      /\ peer # "reset" => E \o M = Ids(bsent)
      /\ Received = E \o M /\ Received' = E' \o M'
  BY <1>1 DEF ReceivedSoFar, Received
<1>3. /\ Coming \in Seq(Packet) /\ Coming' \in Seq(Packet)
      /\ s2c \in Seq(Packet) /\ bsent \in Seq(Packet)
      /\ rcv_buf \in Packet /\ conn \in Nat
  BY ComingType, ComingTypeNext DEF TypeOK
<1>4. /\ E \in Seq(Ident) /\ M \in Seq(Ident) /\ M' \in Seq(Ident)
      /\ Ids(bsent) \in Seq(Ident)
  <2>1. \A p \in Packet : p.id \in Ident
    BY DEF Packet
  <2>2. M' = Ids(Only(Coming', P))
    BY DEF Publications
  <2> QED
    BY <1>3, <2>1, <2>2, IdsOnConn, IdsOnly, IdsType
<1>5. ASSUME NEW r \in Seq(Packet), Coming' = Coming \o r
      PROVE  M' = M \o Ids(Only(r, P))
  <2>1. M' = Ids(Only(Coming', P))
    BY DEF Publications
  <2>2. ASSUME NEW c \in Seq(Packet)
        PROVE  Ids(Only(c \o r, P)) = Ids(Only(c, P)) \o Ids(Only(r, P))
    BY IdsOnly
  <2> QED
    BY <1>3, <1>5, <2>1, <2>2, Zenon
<1>6. ASSUME NEW r \in Seq(Packet), Coming = r \o Coming'
      PROVE  M = Ids(Only(r, P)) \o M'
  <2>1. M' = Ids(Only(Coming', P))
    BY DEF Publications
  <2>2. ASSUME NEW c \in Seq(Packet)
        PROVE  Ids(Only(r \o c, P)) = Ids(Only(r, P)) \o Ids(Only(c, P))
    BY IdsOnly
  <2> QED
    BY <1>3, <1>6, <2>1, <2>2
<1>7. UNCHANGED <<conn, events>> => E' = E
  BY DEF OnConn
<1>8. Coming' = Coming => M' = M
  BY DEF Publications
<1> HIDE DEF E, M, P
<1>9. CASE Rests \/ \E p \in Packet : Sends(p)
  <2>1. Received' = Received
    BY <1>2, <1>7, <1>8, <1>9 DEF Rests, Sends
  <2> QED
    BY <1>1, <1>9, <2>1, ReceivedKeeps DEF Rests, Sends
<1>10. CASE Opens
  <2>1. E' = <<>>
    BY <1>10, FreshEvents DEF Opens, E
  <2>2. M' = <<>>
    BY <1>10, IdsOnlyNone DEF Opens, M, P, Publications
  <2>3. Ids(bsent)' = <<>>
    BY <1>10, IdsShort DEF Opens
  <2>4. Received' = <<>>
    BY <1>2, <2>1, <2>2
  <2> QED
    BY <2>3, <2>4, PrefixEmpty DEF ReceivedSoFar
<1>11. ASSUME NEW t \in Receivers, Handled(t) PROVE ReceivedSoFar'
  <2> DEFINE h == IF rcv_buf.type = "PUBLISH" THEN <<rcv_buf.id>> ELSE <<>>
  <2>1. h \in Seq(Ident)
    BY <1>3 DEF Packet
  <2>2. E' = E \o h
    BY <1>11, EventsSeen DEF Handled, E
  <2>3. M = h \o M'
    <3>1. <<rcv_buf>> \in Seq(Packet) /\ Coming = <<rcv_buf>> \o Coming'
      BY <1>3, <1>11 DEF Handled
    <3>2. rcv_buf \in P <=> rcv_buf.type = "PUBLISH"
      BY <1>3 DEF P, Publications, Packet
    <3>3. Ids(Only(<<rcv_buf>>, P)) = h
      BY <1>3, <3>2, IdsOnlyOne
    <3> QED
      BY <1>6, <3>1, <3>3
  <2> HIDE DEF h
  <2>4. (E \o h) \o M' = E \o (h \o M')
    BY <1>4, <2>1, IdentsConcat, ZenonT(40)
  <2>5. Received' = Received
    BY <1>2, <2>2, <2>3, <2>4
  <2> QED
    BY <1>1, <1>11, <2>5, ReceivedKeeps DEF Handled
<1>12. ASSUME NEW r \in Seq(Packet), Takes(r) PROVE ReceivedSoFar'
  <2>1. Ids(Only(r, P)) = <<>>
    <3>1. \A i \in 1 .. Len(r) : r[i].type # "PUBLISH"
      BY <1>12 DEF Takes, BrokerReply, Plain, Pkt
    <3>2. \A i \in 1 .. Len(r) : r[i] \notin P
      BY <3>1 DEF P, Publications
    <3> QED
      BY <3>2, OnlyNone, IdsShort
  <2>2. M' = M \o <<>>
    BY <1>5, <1>12, <2>1 DEF Takes
  <2>3. Received' = Received
    BY <1>2, <1>4, <1>7, <1>12, <2>2 DEF Takes
  <2> QED
    BY <1>1, <1>12, <2>3, ReceivedKeeps DEF Takes
<1>13. ASSUME NEW p \in Packet, Delivers(p) PROVE ReceivedSoFar'
  <2>0. /\ <<p>> \in Seq(Packet) /\ Coming' = Coming \o <<p>> /\ E' = E
        /\ peer' # "reset" /\ peer # "reset"
    BY <1>7, <1>13 DEF Delivers
  <2>1. M' = M \o Ids(Only(<<p>>, P))
    BY <1>5, <2>0
  <2>2. Ids(Only(<<p>>, P)) = IF p \in P THEN <<p.id>> ELSE <<>>
    BY IdsOnlyOne
  <2>3. CASE p \in Publications(0 .. 2) /\ bsent' = bsent \o <<p>>
    <3>1. p \in P
      BY <2>3 DEF P, Publications
    <3>2. <<p.id>> \in Seq(Ident)
      BY DEF Packet
    <3>3. Received' = (E \o M) \o <<p.id>>
      <4>1. Received' = E \o (M \o <<p.id>>)
        BY <1>2, <2>0, <2>1, <2>2, <3>1
      <4> QED
        BY <1>4, <3>2, <4>1, ConcatAssociative
    <3>4. Ids(bsent)' = Ids(bsent) \o <<p.id>>
      <4>1. \A u \in Packet : u.id \in Ident
        BY DEF Packet
      <4>2. Ids(bsent \o <<p>>) = Ids(bsent) \o Ids(<<p>>)
        BY <1>3, <2>0, <4>1, IdsConcat
      <4> QED
        BY <2>3, <4>2, IdsShort
    <3>5. Received' = Ids(bsent)'
      BY <1>2, <2>0, <3>3, <3>4
    <3>6. Ids(bsent)' \in Seq(Ident)
      BY <1>4, <3>2, <3>4
    <3> QED
      BY <3>5, <3>6, PrefixSelf DEF ReceivedSoFar
  <2>4. CASE p.type = "PUBREL" /\ bsent' = bsent
    <3>1. p \notin P
      BY <2>4 DEF P, Publications
    <3>2. M' = M
      BY <1>4, <2>1, <2>2, <3>1, SMTT(30)
    <3>3. Received' = Received
      BY <1>2, <2>0, <3>2
    <3> QED
      BY <1>1, <2>0, <2>4, <3>3, ReceivedKeeps
  <2> QED
    BY <1>13, <2>3, <2>4 DEF Delivers
<1>14. CASE Resets
  <2>1. M = M' \o Ids(Only(s2c, P))
    <3>1. ASSUME NEW c \in Seq(Packet)
          PROVE  Ids(Only(c \o s2c, P)) = Ids(Only(c, P)) \o Ids(Only(s2c, P))
      BY <1>3, IdsOnly, ZenonT(40)
    <3>2. M' = Ids(Only(Coming', P))
      BY DEF M, P, Publications
    <3> QED
      BY <1>3, <1>14, <3>1, <3>2 DEF Resets, M
  <2>2. Ids(Only(s2c, P)) \in Seq(Ident)
    BY <1>3, IdsOnly
  <2>3. E \o M = Received' \o Ids(Only(s2c, P)) /\ Received' \in Seq(Ident)
    <3>1. E' = E
      BY <1>7, <1>14 DEF Resets
    <3>2. (E \o M') \o Ids(Only(s2c, P)) = E \o (M' \o Ids(Only(s2c, P)))
      BY <1>4, <2>2, IdentsConcat, ZenonT(40)
    <3>3. E \o M' \in Seq(Ident)
      BY <1>4
    <3> QED
      BY <1>2, <2>1, <3>1, <3>2, <3>3, Zenon
  <2>4. IsPrefix(Received', Ids(bsent))
    BY <1>2, <1>4, <2>2, <2>3, PrefixShrinks
  <2> QED
    BY <1>14, <2>4 DEF Resets, ReceivedSoFar
<1> QED
  BY <1>1, <1>9, <1>10, <1>11, <1>12, <1>13, <1>14 DEF Moves
----------------------------------------------------------------------------
(* The messages of the broker are acknowledged in order                    *)

Acked == Only(wire, Acknowledgements)
ToAck == AcksFor(Only(Coming, Publications(1 .. 5)))
Due == AcksFor(Only(bsent, Publications({1, 2})))

\* While the socket is open, the acknowledgements sent, followed by those of the
\* messages under way, are the ones due; a reset loses some of the messages.
AckedSoFar ==
  ~overlap => /\ IsPrefix(Acked, Due)
              /\ sock = "open" => IsPrefix(Acked \o ToAck, Due)
              /\ sock = "open" /\ peer # "reset" => Acked \o ToAck = Due

\* Sequences of packets associate.
LEMMA PacketsConcat ==
  ASSUME NEW a \in Seq(Packet), NEW b \in Seq(Packet), NEW c \in Seq(Packet)
  PROVE  (a \o b) \o c = a \o (b \o c)
  BY ConcatAssociative

\* The acknowledgements of the packets of one kind.
LEMMA AcksOnly ==
  ASSUME NEW s \in Seq(Packet), NEW t \in Seq(Packet), NEW S
  PROVE  /\ AcksFor(Only(s, S)) \in Seq(Packet)
         /\ AcksFor(Only(s \o t, S)) = AcksFor(Only(s, S)) \o AcksFor(Only(t, S))
<1>1. Only(s, S) \in Seq(Packet) /\ Only(t, S) \in Seq(Packet)
  BY OnlySeq
<1>2. Only(s \o t, S) = Only(s, S) \o Only(t, S)
  BY OnlyConcat
<1>3. AcksFor(Only(s, S) \o Only(t, S)) = AcksFor(Only(s, S)) \o AcksFor(Only(t, S))
  BY <1>1, AcksForConcat
<1> QED
  BY <1>1, <1>2, <1>3, AcksForType

\* The same of one packet.
LEMMA AcksOnlyOne ==
  ASSUME NEW p \in Packet, NEW S
  PROVE  AcksFor(Only(<<p>>, S)) = IF p \in S THEN <<AckFor(p)>> ELSE <<>>
<1>1. Only(<<p>>, S) = IF p \in S THEN <<p>> ELSE <<>>
  BY OnlyOne
<1> QED
  BY <1>1, AcksForShort

\* What is acknowledged, to be acknowledged, and due are packets.
LEMMA AckedType ==
  ASSUME TypeOK
  PROVE  Acked \in Seq(Packet) /\ ToAck \in Seq(Packet) /\ Due \in Seq(Packet)
<1>1. Coming \in Seq(Packet) /\ wire \in Seq(Packet) /\ bsent \in Seq(Packet)
  BY ComingType DEF TypeOK
<1>2. /\ Only(Coming, Publications(1 .. 5)) \in Seq(Packet)
      /\ Only(bsent, Publications({1, 2})) \in Seq(Packet)
      /\ Only(wire, Acknowledgements) \in Seq(Packet)
  BY <1>1, OnlySeq
<1> QED
  BY <1>2, AcksForType DEF Acked, ToAck, Due

\* A step that moves no publication keeps the acknowledgements.
LEMMA AckedKeeps ==
  ASSUME AckedSoFar, ~overlap, Acked' = Acked, ToAck' = ToAck, Due' = Due,
         sock' \in {sock, "dead"}, peer' # "reset" => peer # "reset"
  PROVE  AckedSoFar'
  BY DEF AckedSoFar

\* A packet that acknowledges no message changes no history of acknowledgements.
LEMMA AckedSends ==
  ASSUME TypeOK, NEW p \in Packet, wire' = Append(wire, p)
  PROVE  Acked' = IF p \in Acknowledgements THEN Append(Acked, p) ELSE Acked
<1>1. wire \in Seq(Packet)
  BY DEF TypeOK
<1>2. Acked' = Only(Append(wire, p), Acknowledgements)
  BY DEF Acked, Acknowledgements
<1> QED
  BY <1>1, <1>2, OnlyAppend DEF Acked

\* What the handlers are still to acknowledge grows behind and shrinks in front.
LEMMA ToAckMore ==
  ASSUME TypeOK, NEW r \in Seq(Packet), Coming' = Coming \o r
  PROVE  ToAck' = ToAck \o AcksFor(Only(r, Publications(1 .. 5)))
<1>1. ToAck' = AcksFor(Only(Coming', Publications(1 .. 5)))
  BY DEF ToAck, Publications
<1>2. ASSUME NEW c \in Seq(Packet), NEW S
      PROVE  AcksFor(Only(c \o r, S)) = AcksFor(Only(c, S)) \o AcksFor(Only(r, S))
  BY AcksOnly
<1>3. Coming \in Seq(Packet)
  BY ComingType
<1> QED
  BY <1>1, <1>2, <1>3, Zenon DEF ToAck

\* What is received first is to be acknowledged first.
LEMMA ToAckFirst ==
  ASSUME TypeOK', NEW r \in Seq(Packet), Coming = r \o Coming'
  PROVE  ToAck = AcksFor(Only(r, Publications(1 .. 5))) \o ToAck'
<1>1. ToAck' = AcksFor(Only(Coming', Publications(1 .. 5)))
  BY DEF ToAck, Publications
<1>2. ASSUME NEW c \in Seq(Packet), NEW S
      PROVE  AcksFor(Only(r \o c, S)) = AcksFor(Only(r, S)) \o AcksFor(Only(c, S))
  BY AcksOnly
<1> QED
  BY <1>1, <1>2, ComingTypeNext, Zenon DEF ToAck

\* What is lost last was to be acknowledged last.
LEMMA ToAckLost ==
  ASSUME TypeOK', NEW r \in Seq(Packet), Coming = Coming' \o r
  PROVE  ToAck = ToAck' \o AcksFor(Only(r, Publications(1 .. 5)))
<1>1. ToAck' = AcksFor(Only(Coming', Publications(1 .. 5)))
  BY DEF ToAck, Publications
<1>2. ASSUME NEW c \in Seq(Packet), NEW S
      PROVE  AcksFor(Only(c \o r, S)) = AcksFor(Only(c, S)) \o AcksFor(Only(r, S))
  BY AcksOnly
<1> QED
  BY <1>1, <1>2, ComingTypeNext, Zenon DEF ToAck

\* A message the broker sends is due one acknowledgement, unless its QoS is 0.
LEMMA DueMore ==
  ASSUME TypeOK, NEW p \in Packet, p \in Publications(0 .. 2), bsent' = bsent \o <<p>>
  PROVE  Due' = Due \o AcksFor(Only(<<p>>, Publications(1 .. 5)))
<1>1. p \in Publications(1 .. 5) <=> p \in Publications({1, 2})
  BY DEF Publications
<1>2. AcksFor(Only(<<p>>, Publications(1 .. 5))) = AcksFor(Only(<<p>>, Publications({1, 2})))
  <2>1. ASSUME NEW S
        PROVE  AcksFor(Only(<<p>>, S)) = IF p \in S THEN <<AckFor(p)>> ELSE <<>>
    BY AcksOnlyOne
  <2> QED
    BY <1>1, <2>1, Zenon
<1>3. Due' = AcksFor(Only(bsent \o <<p>>, Publications({1, 2})))
  BY DEF Due, Publications
<1>4. ASSUME NEW S
      PROVE  AcksFor(Only(bsent \o <<p>>, S))
               = AcksFor(Only(bsent, S)) \o AcksFor(Only(<<p>>, S))
  <2>1. bsent \in Seq(Packet) /\ <<p>> \in Seq(Packet)
    BY DEF TypeOK
  <2> QED
    BY <2>1, AcksOnly
<1> QED
  BY <1>2, <1>3, <1>4, Zenon DEF Due

\* Every step keeps the acknowledgements in the order of the publications.
LEMMA AckedStep ==
  ASSUME TypeOK, TypeOK', OneAtATime, AckedSoFar, [Next]_vars
  PROVE  AckedSoFar'
<1> SUFFICES ASSUME ~overlap' PROVE AckedSoFar'
  BY DEF AckedSoFar
<1>1. Moves /\ ~overlap
  BY EveryStepMoves
<1> DEFINE P == Publications(1 .. 5)
<1>2. /\ IsPrefix(Acked, Due)
      /\ sock = "open" => IsPrefix(Acked \o ToAck, Due)
      /\ sock = "open" /\ peer # "reset" => Acked \o ToAck = Due
  BY <1>1 DEF AckedSoFar
<1>3. /\ Coming \in Seq(Packet) /\ Coming' \in Seq(Packet)
      /\ s2c \in Seq(Packet) /\ bsent \in Seq(Packet) /\ wire \in Seq(Packet)
      /\ rcv_buf \in Packet
  BY ComingType, ComingTypeNext DEF TypeOK
<1>4. /\ Acked \in Seq(Packet) /\ ToAck \in Seq(Packet) /\ Due \in Seq(Packet)
      /\ ToAck' \in Seq(Packet)
  <2>1. ToAck' = AcksFor(Only(Coming', P))
    BY DEF ToAck, Publications
  <2>2. AcksFor(Only(Coming', P)) \in Seq(Packet)
    BY <1>3, AcksOnly
  <2> QED
    BY <2>1, <2>2, AckedType
<1>5. /\ wire' = wire => Acked' = Acked
      /\ bsent' = bsent => Due' = Due
      /\ Coming' = Coming => ToAck' = ToAck
  BY DEF Acked, Due, ToAck, Acknowledgements, Publications
<1>6. CASE Rests
  BY <1>1, <1>5, <1>6, AckedKeeps DEF Rests
<1>7. CASE Opens
  <2>1. Acked' = <<>>
    BY <1>7, OnlyEmpty DEF Opens, Acked, Acknowledgements
  <2>2. ToAck' = <<>>
    BY <1>7, OnlyEmpty, AcksForShort DEF Opens, ToAck, Publications
  <2>3. Due' = <<>>
    BY <1>7, OnlyEmpty, AcksForShort DEF Opens, Due, Publications
  <2>4. Acked' \o ToAck' = <<>>
    BY <2>1, <2>2
  <2> QED
    BY <2>1, <2>3, <2>4, PrefixEmpty DEF AckedSoFar
<1>8. ASSUME NEW p \in Packet, Sends(p) PROVE AckedSoFar'
  <2>1. Acked' = Acked
    <3>1. wire' = Append(wire, p) /\ p \notin Acknowledgements
      BY <1>8 DEF Sends
    <3> QED
      BY <3>1, AckedSends, Zenon
  <2>2. sock' \in {sock, "dead"} /\ UNCHANGED <<bsent, peer>> /\ Coming' = Coming
    BY <1>8 DEF Sends
  <2> QED
    BY <1>1, <1>5, <1>8, <2>1, <2>2, AckedKeeps DEF Sends
<1>9. ASSUME NEW t \in Receivers, Handled(t) PROVE AckedSoFar'
  <2>1. /\ <<rcv_buf>> \in Seq(Packet) /\ Coming = <<rcv_buf>> \o Coming'
        /\ Due' = Due /\ peer' = peer
    BY <1>3, <1>5, <1>9 DEF Handled
  <2>2. ToAck = AcksFor(Only(<<rcv_buf>>, P)) \o ToAck'
    BY <2>1, ToAckFirst
  <2>3. AcksFor(Only(<<rcv_buf>>, P)) = IF rcv_buf \in P THEN <<AckFor(rcv_buf)>> ELSE <<>>
    BY <1>3, AcksOnlyOne
  <2> HIDE DEF P
  <2>4. AckFor(rcv_buf) \in Packet /\ AckFor(rcv_buf) \in Acknowledgements
    BY <1>3 DEF AckFor, Pkt, Packet, PacketType, Acknowledgements
  <2>5. CASE rcv_buf \notin P
    <3>1. ToAck' = ToAck
      BY <1>4, <2>2, <2>3, <2>5
    <3>2. /\ Acked' = Acked /\ sock' \in {sock, "dead"}
      <4>1. CASE NoReply
        BY <1>5, <4>1 DEF NoReply
      <4>2. ASSUME NEW p \in Packet, p.type \in {"PUBREL", "PUBCOMP"}, mqttnox_tcp_send(p)
            PROVE  Acked' = Acked /\ sock' \in {sock, "dead"}
        <5>1. p \notin Acknowledgements
          BY <4>2 DEF Acknowledgements
        <5> QED
          BY <1>5, <4>2, <5>1, AckedSends DEF mqttnox_tcp_send, SendAccepts, SendFails
      <4> QED
        BY <1>9, <2>5, <4>1, <4>2, HandlerReply DEF P, Handled
    <3> QED
      BY <1>1, <2>1, <3>1, <3>2, AckedKeeps
  <2>6. CASE rcv_buf \in P /\ SendFails
    <3>1. Acked' = Acked /\ sock' = "dead"
      BY <1>5, <2>6 DEF SendFails
    <3> QED
      BY <1>2, <2>1, <3>1 DEF AckedSoFar
  <2>7. CASE rcv_buf \in P /\ SendAccepts(AckFor(rcv_buf)) /\ sock' = sock
    <3> DEFINE k == <<AckFor(rcv_buf)>>
    <3>1. k \in Seq(Packet)
      BY <2>4
    <3>2. Acked' = Acked \o k /\ sock = "open"
      <4>1. wire' = Append(wire, AckFor(rcv_buf)) /\ sock = "open"
        BY <2>7 DEF SendAccepts
      <4>2. Acked' = Append(Acked, AckFor(rcv_buf))
        BY <2>4, <4>1, AckedSends, Zenon
      <4> QED
        BY <1>4, <2>4, <4>1, <4>2, AppendIsConcat
    <3>3. ToAck = k \o ToAck'
      BY <2>2, <2>3, <2>7
    <3> HIDE DEF k
    <3>4. Acked' \in Seq(Packet)
      BY <1>4, <3>1, <3>2
    <3>5. (Acked \o k) \o ToAck' = Acked \o (k \o ToAck')
      BY <1>4, <3>1, PacketsConcat, ZenonT(40)
    <3>6. Acked' \o ToAck' = Acked \o ToAck
      BY <3>2, <3>3, <3>5, Zenon
    <3>7. IsPrefix(Acked' \o ToAck', Due)
      BY <1>2, <3>2, <3>6
    <3>8. IsPrefix(Acked', Due)
      BY <1>4, <3>4, <3>7, PrefixShrinks
    <3> QED
      BY <1>2, <2>1, <2>7, <3>6, <3>7, <3>8 DEF AckedSoFar
  <2> QED
    BY <1>9, <2>5, <2>6, <2>7, HandlerReply DEF P, Handled, mqttnox_tcp_send
<1>10. ASSUME NEW r \in Seq(Packet), Takes(r) PROVE AckedSoFar'
  <2>1. AcksFor(Only(r, P)) = <<>>
    <3>1. \A i \in 1 .. Len(r) : r[i].type # "PUBLISH"
      BY <1>10 DEF Takes, BrokerReply, Plain, Pkt
    <3>2. \A i \in 1 .. Len(r) : r[i] \notin P
      BY <3>1 DEF Publications
    <3> QED
      BY <3>2, OnlyNone, AcksForShort
  <2>2. ToAck' = ToAck \o AcksFor(Only(r, P))
    BY <1>10, ToAckMore DEF Takes
  <2>3. ToAck' = ToAck
    BY <1>4, <2>1, <2>2
  <2>4. sock' \in {sock, "dead"} /\ wire' = wire /\ bsent' = bsent /\ peer # "reset"
    BY <1>10 DEF Takes
  <2> QED
    BY <1>1, <1>5, <2>3, <2>4, AckedKeeps
<1>11. ASSUME NEW p \in Packet, Delivers(p) PROVE AckedSoFar'
  <2>1. /\ <<p>> \in Seq(Packet) /\ Coming' = Coming \o <<p>> /\ Acked' = Acked
        /\ peer' = peer /\ peer # "reset" /\ sock' = sock
    BY <1>5, <1>11 DEF Delivers
  <2>2. ToAck' = ToAck \o AcksFor(Only(<<p>>, P))
    BY <2>1, ToAckMore
  <2>3. AcksFor(Only(<<p>>, P)) = IF p \in P THEN <<AckFor(p)>> ELSE <<>>
    BY AcksOnlyOne
  <2>4. CASE bsent' = bsent /\ p \notin P
    <3>1. ToAck' = ToAck
      BY <1>4, <2>2, <2>3, <2>4
    <3> QED
      BY <1>1, <1>5, <2>1, <2>4, <3>1, AckedKeeps
  <2>5. CASE p \in Publications(0 .. 2) /\ bsent' = bsent \o <<p>>
    <3> DEFINE k == AcksFor(Only(<<p>>, P))
    <3>1. k \in Seq(Packet)
      BY <2>1, AcksOnly
    <3>2. Due' = Due \o k /\ ToAck' = ToAck \o k
      BY <2>2, <2>5, DueMore
    <3> HIDE DEF k
    <3>3. (Acked \o ToAck) \o k = Acked \o (ToAck \o k)
      BY <1>4, <3>1, PacketsConcat, ZenonT(40)
    <3>4. sock = "open" => Acked' \o ToAck' = Due'
      BY <1>2, <2>1, <3>2, <3>3
    <3>5. IsPrefix(Acked, Due \o k) /\ IsPrefix(Due \o k, Due \o k)
      <4>1. Due \o k \in Seq(Packet)
        BY <1>4, <3>1
      <4> QED
        BY <1>2, <1>4, <3>1, <4>1, PrefixGrows, PrefixSelf
    <3>6. IsPrefix(Acked', Due') /\ IsPrefix(Due', Due')
      BY <2>1, <3>2, <3>5, Zenon
    <3> QED
      BY <2>1, <3>4, <3>6 DEF AckedSoFar
  <2>6. p.type = "PUBREL" => p \notin P
    BY DEF Publications
  <2> QED
    BY <1>11, <2>4, <2>5, <2>6 DEF Delivers
<1>12. CASE Resets
  <2>1. Acked' = Acked /\ Due' = Due /\ sock' = sock /\ peer' = "reset"
    BY <1>5, <1>12 DEF Resets
  <2> DEFINE k == AcksFor(Only(s2c, P))
  <2>2. k \in Seq(Packet)
    BY <1>3, AcksOnly
  <2>3. ToAck = ToAck' \o k
    BY <1>3, <1>12, ToAckLost DEF Resets
  <2> HIDE DEF k
  <2>4. (Acked \o ToAck') \o k = Acked \o (ToAck' \o k)
    BY <1>4, <2>2, PacketsConcat, SMTT(30)
  <2>5. Acked \o ToAck' \in Seq(Packet)
    BY <1>4
  <2>6. sock = "open" => IsPrefix((Acked \o ToAck') \o k, Due)
    BY <1>2, <2>3, <2>4
  <2>7. sock = "open" => IsPrefix(Acked \o ToAck', Due)
    BY <1>4, <2>2, <2>5, <2>6, PrefixShrinks
  <2> QED
    BY <1>2, <2>1, <2>7 DEF AckedSoFar
<1> QED
  BY <1>1, <1>6, <1>7, <1>8, <1>9, <1>10, <1>11, <1>12 DEF Moves
----------------------------------------------------------------------------
(* MQTTNOX_EVT_PUBLISHED follows the QoS 1 publications in order           *)

Pubacks == [type : {"PUBACK"}, id : Ident, x : 0 .. 5]
Confirming == Ids(Only(Coming, Pubacks))
Confirmed == Ids(OnConn("PUBLISHED")) \o Confirming
Outgoing == Ids(Only(c2s, Publications({1})))
Published == Ids(Only(wire, Publications({1})))

\* The publications confirmed, those whose PUBACK is under way and those the
\* broker is still to read are, in this order, the ones the client sent; what a
\* broker that stopped reading leaves behind is never confirmed.
PublishedSoFar ==
  ~overlap => /\ IsPrefix(Confirmed, Published)
              /\ peer = "up" => Confirmed \o Outgoing = Published

\* The identifiers on their way out and back.
LEMMA PublishedType ==
  ASSUME TypeOK
  PROVE  /\ Ids(OnConn("PUBLISHED")) \in Seq(Ident) /\ Confirming \in Seq(Ident)
         /\ Confirmed \in Seq(Ident)
         /\ Outgoing \in Seq(Ident) /\ Published \in Seq(Ident)
<1>1. c2s \in Seq(Packet) /\ wire \in Seq(Packet) /\ Coming \in Seq(Packet)
  BY ComingType DEF TypeOK
<1>2. Ids(OnConn("PUBLISHED")) \in Seq(Ident)
  BY IdsOnConn
<1>3. ASSUME NEW s \in Seq(Packet), NEW S PROVE Ids(Only(s, S)) \in Seq(Ident)
  BY IdsOnly
<1>4. /\ Confirming \in Seq(Ident) /\ Outgoing \in Seq(Ident) /\ Published \in Seq(Ident)
  BY <1>1, <1>3 DEF Confirming, Outgoing, Published
<1>5. Confirmed \in Seq(Ident)
  <2>1. \A a, b \in Seq(Ident) : a \o b \in Seq(Ident)
    OBVIOUS
  <2> QED
    BY <1>2, <1>4, <2>1, Zenon DEF Confirmed
<1> QED
  BY <1>2, <1>4, <1>5

\* The packets a step adds are seen behind those that were there.
LEMMA IdsOnlyAppend ==
  ASSUME NEW s \in Seq(Packet), NEW p \in Packet, NEW S
  PROVE  Ids(Only(Append(s, p), S))
           = Ids(Only(s, S)) \o (IF p \in S THEN <<p.id>> ELSE <<>>)
<1>1. Append(s, p) = s \o <<p>> /\ <<p>> \in Seq(Packet)
  BY AppendIsConcat
<1>2. Ids(Only(s \o <<p>>, S)) = Ids(Only(s, S)) \o Ids(Only(<<p>>, S))
  BY <1>1, IdsOnly
<1>3. Ids(Only(<<p>>, S)) = IF p \in S THEN <<p.id>> ELSE <<>>
  BY IdsOnlyOne
<1> QED
  BY <1>1, <1>2, <1>3, Zenon

\* A step that moves no PUBLISH and no PUBACK keeps their order.
LEMMA PublishedKeeps ==
  ASSUME TypeOK, PublishedSoFar, ~overlap, Confirmed' = Confirmed,
         Outgoing' = Outgoing, Published' = Published, peer' = "up" => peer = "up"
  PROVE  PublishedSoFar'
  BY DEF PublishedSoFar

\* A PUBACK that is sent is the last one under way.
LEMMA ConfirmingMore ==
  ASSUME TypeOK, NEW r \in Seq(Packet), Coming' = Coming \o r
  PROVE  Confirming' = Confirming \o Ids(Only(r, Pubacks))
<1>1. Confirming' = Ids(Only(Coming', Pubacks))
  BY DEF Confirming, Pubacks
<1>2. ASSUME NEW c \in Seq(Packet), NEW S
      PROVE  Ids(Only(c \o r, S)) = Ids(Only(c, S)) \o Ids(Only(r, S))
  BY IdsOnly
<1> QED
  BY <1>1, <1>2, ComingType, Zenon DEF Confirming

\* The PUBACK received is the first one under way.
LEMMA ConfirmingFirst ==
  ASSUME TypeOK', NEW r \in Seq(Packet), Coming = r \o Coming'
  PROVE  Confirming = Ids(Only(r, Pubacks)) \o Confirming'
<1>1. Confirming' = Ids(Only(Coming', Pubacks))
  BY DEF Confirming, Pubacks
<1>2. ASSUME NEW c \in Seq(Packet), NEW S
      PROVE  Ids(Only(r \o c, S)) = Ids(Only(r, S)) \o Ids(Only(c, S))
  BY IdsOnly
<1> QED
  BY <1>1, <1>2, ComingTypeNext, Zenon DEF Confirming

\* What is lost is the last of those under way.
LEMMA ConfirmingLost ==
  ASSUME TypeOK', NEW r \in Seq(Packet), Coming = Coming' \o r
  PROVE  Confirming = Confirming' \o Ids(Only(r, Pubacks))
<1>1. Confirming' = Ids(Only(Coming', Pubacks))
  BY DEF Confirming, Pubacks
<1>2. ASSUME NEW c \in Seq(Packet), NEW S
      PROVE  Ids(Only(c \o r, S)) = Ids(Only(c, S)) \o Ids(Only(r, S))
  BY IdsOnly
<1> QED
  BY <1>1, <1>2, ComingTypeNext, Zenon DEF Confirming

\* A packet the client sends: behind what it sent, and behind what is unread.
LEMMA PublishedSend ==
  ASSUME TypeOK, PublishedSoFar, ~overlap, NEW p \in Packet, Confirmed' = Confirmed,
         wire' = Append(wire, p), peer' = peer,
         c2s' = IF peer = "up" THEN Append(c2s, p) ELSE c2s
  PROVE  PublishedSoFar'
<1> DEFINE h == IF p \in Publications({1}) THEN <<p.id>> ELSE <<>>
<1>1. h \in Seq(Ident)
  BY DEF Packet
<1>2. wire \in Seq(Packet) /\ c2s \in Seq(Packet)
  BY DEF TypeOK
<1>3. /\ Confirmed \in Seq(Ident) /\ Outgoing \in Seq(Ident) /\ Published \in Seq(Ident)
  BY PublishedType
<1>4. Published' = Published \o h
  <2>1. Published' = Ids(Only(Append(wire, p), Publications({1})))
    BY DEF Published, Publications
  <2> QED
    BY <1>2, <2>1, IdsOnlyAppend, Zenon DEF Published
<1>5. peer = "up" => Outgoing' = Outgoing \o h
  <2>1. peer = "up" => Outgoing' = Ids(Only(Append(c2s, p), Publications({1})))
    BY DEF Outgoing, Publications
  <2> QED
    BY <1>2, <2>1, IdsOnlyAppend, Zenon DEF Outgoing
<1> HIDE DEF h
<1>6. IsPrefix(Confirmed, Published)
  BY DEF PublishedSoFar
<1>7. IsPrefix(Confirmed, Published \o h)
  BY <1>1, <1>3, <1>6, PrefixGrows
<1>8. (Confirmed \o Outgoing) \o h = Confirmed \o (Outgoing \o h)
  BY <1>1, <1>3, IdentsConcat
<1>9. peer = "up" => Confirmed \o (Outgoing \o h) = Published \o h
  BY <1>8 DEF PublishedSoFar
<1> QED
  BY <1>4, <1>5, <1>7, <1>9 DEF PublishedSoFar

\* Every step keeps the confirmations in the order of the publications.
LEMMA PublishedStep ==
  ASSUME TypeOK, TypeOK', PastEvents, OneAtATime, PublishedSoFar, [Next]_vars
  PROVE  PublishedSoFar'
<1> SUFFICES ASSUME ~overlap' PROVE PublishedSoFar'
  BY DEF PublishedSoFar
<1>1. Moves /\ ~overlap
  BY EveryStepMoves
<1> DEFINE E == Ids(OnConn("PUBLISHED"))
<1>2. /\ IsPrefix(Confirmed, Published)
      /\ peer = "up" => Confirmed \o Outgoing = Published
      /\ Confirmed = E \o Confirming /\ Confirmed' = E' \o Confirming'
  BY <1>1 DEF PublishedSoFar, Confirmed
<1>3. /\ E \in Seq(Ident) /\ Confirming \in Seq(Ident) /\ Confirmed \in Seq(Ident)
      /\ Outgoing \in Seq(Ident) /\ Published \in Seq(Ident)
      /\ Confirming' \in Seq(Ident) /\ Confirmed' \in Seq(Ident) /\ Outgoing' \in Seq(Ident)
  <2>1. (TypeOK => /\ Confirming \in Seq(Ident) /\ Confirmed \in Seq(Ident)
                   /\ Outgoing \in Seq(Ident))'
    BY PublishedType, PTL
  <2> QED
    BY <2>1, PublishedType
<1>4. /\ rcv_buf \in Packet /\ s2c \in Seq(Packet) /\ c2s \in Seq(Packet)
      /\ Coming \in Seq(Packet)
  BY ComingType DEF TypeOK
<1>5. /\ UNCHANGED <<conn, events>> => E' = E
      /\ Coming' = Coming => Confirming' = Confirming
      /\ c2s' = c2s => Outgoing' = Outgoing
      /\ wire' = wire => Published' = Published
  BY DEF OnConn, Confirming, Outgoing, Published, Pubacks, Publications
<1>6. UNCHANGED <<conn, events>> /\ Coming' = Coming => Confirmed' = Confirmed
  BY <1>2, <1>3, <1>5
<1> HIDE DEF E
<1>7. CASE Rests
  BY <1>1, <1>5, <1>6, <1>7, PublishedKeeps DEF Rests
<1>8. CASE Opens
  <2>1. E' = <<>>
    BY <1>8, FreshEvents DEF Opens, E
  <2>2. Confirming' = <<>>
    BY <1>8, IdsOnlyNone DEF Opens, Confirming, Pubacks
  <2>3. Outgoing' = <<>>
    BY <1>8, IdsOnlyNone DEF Opens, Outgoing, Publications
  <2>4. Published' = <<>>
    BY <1>8, IdsOnlyNone DEF Opens, Published, Publications
  <2>5. Confirmed' = <<>> /\ Confirmed' \o Outgoing' = <<>>
    BY <1>2, <2>1, <2>2, <2>3
  <2> QED
    BY <2>4, <2>5, PrefixEmpty DEF PublishedSoFar
<1>9. ASSUME NEW p \in Packet, Sends(p) PROVE PublishedSoFar'
  <2>1. Confirmed' = Confirmed
    BY <1>6, <1>9 DEF Sends
  <2> QED
    BY <1>1, <1>9, <2>1, PublishedSend DEF Sends
<1>10. ASSUME NEW t \in Receivers, Handled(t) PROVE PublishedSoFar'
  <2> DEFINE h == IF rcv_buf.type = "PUBACK" THEN <<rcv_buf.id>> ELSE <<>>
  <2>1. h \in Seq(Ident)
    BY <1>4 DEF Packet
  <2>2. E' = E \o h
    BY <1>10, EventsSeen DEF Handled, E
  <2>3. Confirming = h \o Confirming'
    <3>1. <<rcv_buf>> \in Seq(Packet) /\ Coming = <<rcv_buf>> \o Coming'
      BY <1>4, <1>10 DEF Handled
    <3>2. rcv_buf \in Pubacks <=> rcv_buf.type = "PUBACK"
      BY <1>4 DEF Pubacks, Packet
    <3>3. Ids(Only(<<rcv_buf>>, Pubacks)) = h
      BY <1>4, <3>2, IdsOnlyOne
    <3> QED
      BY <3>1, <3>3, ConfirmingFirst
  <2> HIDE DEF h
  <2>4. (E \o h) \o Confirming' = E \o (h \o Confirming')
    <3>1. E \in Seq(Ident) /\ Confirming' \in Seq(Ident)
      BY <1>3
    <3> QED
      BY <2>1, <3>1, IdentsConcat
  <2>5. Confirmed' = Confirmed /\ peer' = peer
    BY <1>2, <1>3, <1>10, <2>2, <2>3, <2>4 DEF Handled
  <2>6. CASE NoReply \/ SendFails
    BY <1>1, <1>5, <2>5, <2>6, PublishedKeeps DEF NoReply, SendFails
  <2>7. ASSUME NEW p \in Packet, SendAccepts(p) PROVE PublishedSoFar'
    BY <1>1, <2>5, <2>7, PublishedSend DEF SendAccepts
  <2> QED
    BY <1>10, <2>6, <2>7, DispatchStep DEF Handled, mqttnox_tcp_send
<1>11. ASSUME NEW r \in Seq(Packet), Takes(r) PROVE PublishedSoFar'
  <2> DEFINE h == Ids(Only(r, Pubacks))
             p == Head(c2s)
             k == Ids(Only(<<p>>, Publications({1})))
  <2>1. /\ Published' = Published /\ E' = E /\ peer = "up"
        /\ Confirmed \o Outgoing = Published
    BY <1>2, <1>5, <1>11 DEF Takes
  <2>2. Confirming' = Confirming \o h
    BY <1>11, ConfirmingMore DEF Takes
  <2>3. h \in Seq(Ident)
    BY IdsOnly
  <2>4. p \in Packet /\ Tail(c2s) \in Seq(Packet) /\ c2s = <<p>> \o Tail(c2s)
    BY <1>4, <1>11 DEF Takes
  <2>5. Outgoing = k \o Outgoing'
    <3>1. Outgoing' = Ids(Only(Tail(c2s), Publications({1})))
      BY <1>11 DEF Takes, Outgoing, Publications
    <3>2. <<p>> \in Seq(Packet)
      BY <2>4
    <3>3. ASSUME NEW a \in Seq(Packet), NEW b \in Seq(Packet), NEW S
          PROVE  Ids(Only(a \o b, S)) = Ids(Only(a, S)) \o Ids(Only(b, S))
      BY IdsOnly
    <3> HIDE DEF p
    <3>4. Outgoing = Ids(Only(<<p>> \o Tail(c2s), Publications({1})))
      BY <2>4, Zenon DEF Outgoing
    <3>5. Ids(Only(<<p>> \o Tail(c2s), Publications({1}))) =
            Ids(Only(<<p>>, Publications({1}))) \o Ids(Only(Tail(c2s), Publications({1})))
      BY <2>4, <3>2, <3>3, Zenon
    <3> QED
      BY <3>1, <3>4, <3>5, Zenon
  <2>6. k = IF p \in Publications({1}) THEN <<p.id>> ELSE <<>>
    <3>1. ASSUME NEW q \in Packet, NEW S
          PROVE  Ids(Only(<<q>>, S)) = IF q \in S THEN <<q.id>> ELSE <<>>
      BY IdsOnlyOne
    <3> HIDE DEF p
    <3> QED
      BY <2>4, <3>1, Zenon
  <2>7. k \in Seq(Ident)
    <3>1. p.id \in Ident
      BY <2>4 DEF Packet
    <3> HIDE DEF p, k
    <3> QED
      BY <2>6, <3>1
  <2>8. /\ h = k \/ (h = <<>> /\ peer' = "fin")
    <3>1. CASE r = BrokerReply(p)
      <4>1. CASE p \in Publications({1})
        <5>1. p.type = "PUBLISH" /\ p.x = 1 /\ p.id \in Ident
          BY <4>1 DEF Publications
        <5>2. r = <<Pkt("PUBACK", p.id, 0)>>
          BY <3>1, <5>1 DEF BrokerReply
        <5>3. Pkt("PUBACK", p.id, 0) \in Pubacks /\ Pkt("PUBACK", p.id, 0) \in Packet
              /\ Pkt("PUBACK", p.id, 0).id = p.id
          BY <5>1 DEF Pkt, Pubacks, Packet, PacketType
        <5>4. h = <<p.id>>
          BY <5>2, <5>3, IdsOnlyOne
        <5> QED
          BY <2>6, <4>1, <5>4
      <4>2. CASE p \notin Publications({1})
        <5>1. ~(p.type = "PUBLISH" /\ p.x = 1)
          BY <2>4, <4>2 DEF Publications, Packet
        <5>2. \A i \in 1 .. Len(r) : r[i].type # "PUBACK"
          BY <3>1, <5>1 DEF BrokerReply, Pkt
        <5>3. \A i \in 1 .. Len(r) : r[i] \notin Pubacks
          BY <5>2 DEF Pubacks
        <5>4. h = <<>>
          BY <5>3, OnlyNone, IdsShort
        <5> QED
          BY <2>6, <4>2, <5>4
      <4> QED
        BY <4>1, <4>2
    <3>2. CASE p.type = "CONNECT" /\ r \in {<<Plain("CONNACK")>>, <<Pkt("CONNACK", ZeroIdent, 5)>>}
      <4>1. \A i \in 1 .. Len(r) : r[i] \notin Pubacks
        BY <3>2 DEF Plain, Pkt, Pubacks
      <4>2. h = <<>>
        BY <4>1, OnlyNone, IdsShort
      <4>3. k = <<>>
        BY <2>6, <3>2 DEF Publications
      <4> QED
        BY <4>2, <4>3
    <3>3. CASE r = <<>> /\ peer' = "fin"
      BY <3>3, IdsOnlyNone
    <3> QED
      BY <1>11, <3>1, <3>2, <3>3 DEF Takes
  <2> HIDE DEF h, k, p
  <2>9. Confirmed' = Confirmed \o h
    <3>1. (E \o Confirming) \o h = E \o (Confirming \o h)
      <4>1. E \in Seq(Ident) /\ Confirming \in Seq(Ident)
        BY <1>3
      <4> QED
        BY <2>3, <4>1, IdentsConcat
    <3> QED
      BY <1>2, <1>3, <2>1, <2>2, <3>1
  <2>10. (Confirmed \o k) \o Outgoing' = Confirmed \o (k \o Outgoing')
    <3>1. Confirmed \in Seq(Ident) /\ Outgoing' \in Seq(Ident)
      BY <1>3
    <3> QED
      BY <2>7, <3>1, IdentsConcat
  <2>11. CASE h = k
    <3>1. Confirmed' \o Outgoing' = Published'
      BY <2>1, <2>5, <2>9, <2>10, <2>11
    <3>2. IsPrefix(Confirmed', Confirmed' \o Outgoing')
      BY <1>3, PrefixConcat
    <3> QED
      BY <3>1, <3>2 DEF PublishedSoFar
  <2>12. CASE h = <<>> /\ peer' = "fin"
    <3>1. Confirmed' = Confirmed
      BY <1>3, <2>9, <2>12
    <3> QED
      BY <1>2, <2>1, <2>12, <3>1 DEF PublishedSoFar
  <2> QED
    BY <2>8, <2>11, <2>12
<1>12. ASSUME NEW p \in Packet, Delivers(p) PROVE PublishedSoFar'
  <2>1. Ids(Only(<<p>>, Pubacks)) = <<>>
    <3>1. p \notin Pubacks
      BY <1>12 DEF Delivers, Publications, Pubacks
    <3> QED
      BY <3>1, IdsOnlyOne
  <2>2. <<p>> \in Seq(Packet) /\ Coming' = Coming \o <<p>>
    BY <1>12 DEF Delivers
  <2>3. Confirming' = Confirming
    <3>1. Confirming' = Confirming \o Ids(Only(<<p>>, Pubacks))
      BY <2>2, ConfirmingMore
    <3> QED
      BY <1>3, <2>1, <3>1, ConcatEmptySeq, Zenon
  <2>4. Confirmed' = Confirmed
    BY <1>2, <1>3, <1>5, <1>12, <2>3 DEF Delivers
  <2> QED
    BY <1>1, <1>5, <1>12, <2>4, PublishedKeeps DEF Delivers
<1>13. CASE Resets
  <2> DEFINE k == Ids(Only(s2c, Pubacks))
  <2>1. k \in Seq(Ident)
    BY <1>4, IdsOnly
  <2>2. Confirming = Confirming' \o k
    BY <1>4, <1>13, ConfirmingLost DEF Resets
  <2> HIDE DEF k
  <2>3. (E \o Confirming') \o k = E \o (Confirming' \o k)
    <3>1. E \in Seq(Ident) /\ Confirming' \in Seq(Ident)
      BY <1>3
    <3> QED
      BY <2>1, <3>1, IdentsConcat
  <2>4. E' = E /\ Published' = Published /\ peer' = "reset"
    BY <1>5, <1>13 DEF Resets
  <2>5. Confirmed = Confirmed' \o k
    BY <1>2, <1>3, <2>2, <2>3, <2>4, Zenon
  <2>6. IsPrefix(Confirmed', Published)
    <3>1. Confirmed' \in Seq(Ident) /\ Published \in Seq(Ident)
      BY <1>3
    <3>2. IsPrefix(Confirmed' \o k, Published)
      BY <1>2, <2>5
    <3> QED
      BY <2>1, <3>1, <3>2, IdentsPrefix
  <2> QED
    BY <2>4, <2>6 DEF PublishedSoFar
<1> QED
  BY <1>1, <1>7, <1>8, <1>9, <1>10, <1>11, <1>12, <1>13 DEF Moves
----------------------------------------------------------------------------
(* The theorems                                                            *)

\* Nothing is on its way at the beginning.
LEMMA InitEmpty ==
  ASSUME Init
  PROVE  /\ OneAtATime /\ PastEvents
         /\ events = <<>> /\ wire = <<>> /\ bsent = <<>> /\ c2s = <<>> /\ Coming = <<>>
<1>1. ~Handling /\ Live = {}
  BY DEF Init, Handling, Live
<1> QED
  BY <1>1 DEF Init, OneAtATime, PastEvents, Coming

\* At most one receive thread runs while no connection was opened beside a
\* running one, and no event is of a connection still to be opened.
LEMMA OneThread == Spec => [](OneAtATime /\ PastEvents)
<1>1. Init => OneAtATime /\ PastEvents
  BY InitEmpty
<1>2. /\ TypeOK /\ TypeOK' /\ OneAtATime /\ PastEvents /\ [Next]_vars
      => (OneAtATime /\ PastEvents)'
  BY OneAtATimeStep, PastEventsStep
<1> QED
  BY <1>1, <1>2, TypeCorrect, PTL DEF Spec

\* With one receive thread, the messages the broker sends on a connection reach
\* the callback in the order it sent them, none twice and none skipped.
THEOREM ReceivedOrder == Spec => []ReceivedInOrder
<1>1. Init => ReceivedSoFar
  <2> SUFFICES ASSUME Init PROVE ReceivedSoFar
    OBVIOUS
  <2>1. Ids(OnConn("RECEIVED")) = <<>>
    BY InitEmpty, IdsOnlyNone DEF OnConn
  <2>2. Ids(Only(Coming, Publications(0 .. 5))) = <<>>
    BY InitEmpty, IdsOnlyNone
  <2>3. Ids(bsent) = <<>>
    BY InitEmpty, IdsShort
  <2>4. Received = <<>>
    BY <2>1, <2>2 DEF Received
  <2> QED
    BY <2>3, <2>4, PrefixEmpty DEF ReceivedSoFar
<1>2. /\ TypeOK /\ TypeOK' /\ OneAtATime /\ PastEvents /\ ReceivedSoFar /\ [Next]_vars
      => ReceivedSoFar'
  BY ReceivedStep
<1>3. TypeOK /\ ReceivedSoFar => ReceivedInOrder
  <2> SUFFICES ASSUME TypeOK, ReceivedSoFar, ~overlap
               PROVE  IsPrefix(Ids(OnConn("RECEIVED")), Ids(bsent))
    BY DEF ReceivedInOrder
  <2>1. Ids(OnConn("RECEIVED")) \in Seq(Ident)
    BY IdsOnConn
  <2>2. Ids(Only(Coming, Publications(0 .. 5))) \in Seq(Ident)
    BY ComingType, IdsOnly
  <2>3. Ids(bsent) \in Seq(Ident)
    <3>1. bsent \in Seq(Packet) /\ \A p \in Packet : p.id \in Ident
      BY DEF TypeOK, Packet
    <3> QED
      BY <3>1, IdsType
  <2>4. IsPrefix(Ids(OnConn("RECEIVED")) \o Ids(Only(Coming, Publications(0 .. 5))),
                 Ids(bsent))
    BY DEF ReceivedSoFar, Received
  <2> QED
    BY <2>1, <2>2, <2>3, <2>4, IdentsPrefix
<1> QED
  BY <1>1, <1>2, <1>3, OneThread, TypeCorrect, PTL DEF Spec

\* With one receive thread, the PUBACKs and PUBRECs the client sends on a
\* connection name the QoS 1 and QoS 2 messages of the broker, each once and in
\* the order they came.
THEOREM AcksOrder == Spec => []AcksInOrder
<1>1. Init => AckedSoFar
  <2> SUFFICES ASSUME Init PROVE AckedSoFar
    OBVIOUS
  <2>1. Acked = <<>>
    BY InitEmpty, OnlyEmpty DEF Acked
  <2>2. ToAck = <<>> /\ Due = <<>>
    BY InitEmpty, OnlyEmpty, AcksForShort DEF ToAck, Due
  <2>3. Acked \o ToAck = <<>>
    BY <2>1, <2>2
  <2> QED
    BY <2>1, <2>2, <2>3, PrefixEmpty DEF AckedSoFar
<1>2. TypeOK /\ TypeOK' /\ OneAtATime /\ AckedSoFar /\ [Next]_vars => AckedSoFar'
  BY AckedStep
<1>3. AckedSoFar => AcksInOrder
  BY DEF AckedSoFar, AcksInOrder, Acked, Due
<1> QED
  BY <1>1, <1>2, <1>3, OneThread, TypeCorrect, PTL DEF Spec

\* With one receive thread, MQTTNOX_EVT_PUBLISHED is raised for the QoS 1
\* publications of a connection, each once and in the order they were sent.
THEOREM PublishedOrder == Spec => []PublishedInOrder
<1>1. Init => PublishedSoFar
  <2> SUFFICES ASSUME Init PROVE PublishedSoFar
    OBVIOUS
  <2>1. Ids(OnConn("PUBLISHED")) = <<>>
    BY InitEmpty, IdsOnlyNone DEF OnConn
  <2>2. Confirming = <<>> /\ Outgoing = <<>> /\ Published = <<>>
    BY InitEmpty, IdsOnlyNone DEF Confirming, Outgoing, Published
  <2>3. Confirmed = <<>> /\ Confirmed \o Outgoing = <<>>
    BY <2>1, <2>2 DEF Confirmed
  <2> QED
    BY <2>2, <2>3, PrefixEmpty DEF PublishedSoFar
<1>2. /\ TypeOK /\ TypeOK' /\ OneAtATime /\ PastEvents /\ PublishedSoFar /\ [Next]_vars
      => PublishedSoFar'
  BY PublishedStep
<1>3. TypeOK /\ PublishedSoFar => PublishedInOrder
  <2> SUFFICES ASSUME TypeOK, PublishedSoFar, ~overlap
               PROVE  IsPrefix(Ids(OnConn("PUBLISHED")), Published)
    BY DEF PublishedInOrder, Published
  <2>1. /\ Ids(OnConn("PUBLISHED")) \in Seq(Ident) /\ Confirming \in Seq(Ident)
        /\ Published \in Seq(Ident)
    BY PublishedType
  <2>2. IsPrefix(Ids(OnConn("PUBLISHED")) \o Confirming, Published)
    BY DEF PublishedSoFar, Confirmed
  <2> QED
    BY <2>1, <2>2, IdentsPrefix
<1> QED
  BY <1>1, <1>2, <1>3, OneThread, TypeCorrect, PTL DEF Spec
=============================================================================
