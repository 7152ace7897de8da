------------------------------ MODULE Session ------------------------------
(***************************************************************************)
(* One MQTTNox client object, its TCP abstraction layer (TAL) and a broker.*)
(*                                                                         *)
(* The API functions and the response handlers of mqttnox.c are actions on *)
(* whole packets.  mqttnox_connect has two steps, because it starts the    *)
(* receive thread before it sends CONNECT, and mqttnox_disconnect three    *)
(* (send, close, clear connected); a publish or subscribe call, whose only *)
(* effects outside the transmit buffer are its packet and its identifier,  *)
(* is one step after the caller's look at mqttnox_is_connected.            *)
(*                                                                         *)
(* A receive thread takes one packet per recv() into the shared rcv_buf    *)
(* and dispatches it in a later step.  It reads whatever ClientSocket      *)
(* holds, for ever unless recv() returns 0: that is what lets two threads  *)
(* share one connection, after this process closed a socket, or opened a   *)
(* connection over a socket that nobody had closed.  In the second case a  *)
(* thread may still be in the recv() of the abandoned connection.          *)
(* The last two steps of mqttnox_tcp_connect, malloc() and _beginthread,   *)
(* are taken to succeed: Tal has what follows when they do not.            *)
(*                                                                         *)
(* A packet identifier is the pair <<msb, lsb>> of its bytes, because the  *)
(* handlers read and write the two bytes one by one, at fixed offsets.     *)
(***************************************************************************)
EXTENDS Naturals, Sequences, FiniteSets, SequencesExt, Selected

CONSTANTS
  ByteBase,    \* number of values of a byte (256 in the code)
  FirstIdent,  \* packet_ident after mqttnox_init (<<0, 17>> in the code)
  InMsgs,      \* identifiers of the messages the broker has for this client
  InQos,       \* the QoS of each of them
  CallerAsks,  \* the application asks mqttnox_is_connected before a request
  MaxConn,     \* bound: connects that reach socket()
  MaxReq       \* bound: publish, subscribe and unsubscribe calls

Byte == 0 .. ByteBase - 1
Ident == Byte \X Byte

ASSUME ByteBaseAssumption == ByteBase \in Nat /\ ByteBase > 2
ASSUME IdentAssumption == FirstIdent \in Ident /\ InMsgs \subseteq Ident
ASSUME QosAssumption == InQos \in [InMsgs -> 0 .. 2]
ASSUME CallerAssumption == CallerAsks \in BOOLEAN
ASSUME BoundAssumption == MaxConn \in Nat /\ MaxReq \in Nat

ZeroIdent == <<0, 0>>

VARIABLES
  initialized,   \* flag_initialized = MQTTNOX_INIT_FLAG
  connected,     \* c->status.connected
  packet_ident,  \* c->packet_ident
  sock,          \* ClientSocket: "open", or "dead" (not connected or closed here)
  rpc,           \* where each receive thread is
  rcv_buf,       \* the packet at the head of c->rcv_buf
  dirty,         \* rcv_buf holds old bytes beyond its fourth
  peer,          \* the broker's end: "up", "fin" (closed), "reset"
  c2s, s2c,      \* packets in flight to and from the broker
  bst,           \* the broker's state of the connection
  bout,          \* the broker's progress with each message of InMsgs
  appPc,         \* where mqttnox_connect or mqttnox_disconnect is, or "idle"
  told,          \* a caller was told it is connected and has yet to call
  reqs,          \* requests made so far
  conn,          \* connects that reached socket() so far
  on, old,       \* the abandoned connection a thread still reads, its data
  wire,          \* history: packets send() accepted on this connection
  bsent,         \* history: PUBLISH packets the broker sent on it
  events,        \* history: every event handed to the callback
  overlap,       \* history: mqttnox_connect ran with a receiver running
  reopened,      \* history: mqttnox_connect replaced an open socket
  localClose,    \* history: this process closed a socket with a receiver on it
  cleanStart     \* history: how the current connection was opened

clientVars == <<initialized, connected, packet_ident>>
linkVars == <<peer, c2s, s2c>>
brokerVars == <<bst, bout, bsent>>
callVars == <<appPc, told, reqs>>
connVars == <<conn, on, old, overlap, reopened, cleanStart>>
vars == <<clientVars, sock, rpc, rcv_buf, dirty, linkVars, brokerVars,
          callVars, connVars, wire, events, localClose>>

----------------------------------------------------------------------------
(* Packets and events                                                      *)

PacketType == {"CONNECT", "CONNACK", "PUBLISH", "PUBACK", "PUBREC", "PUBREL",
               "PUBCOMP", "SUBSCRIBE", "SUBACK", "UNSUBSCRIBE", "UNSUBACK",
               "DISCONNECT"}

\* x is the QoS of a PUBLISH and the return code of a CONNACK.  The id of a
\* QoS 0 PUBLISH from the broker is not on the wire, it only names the message.
Packet == [type : PacketType, id : Ident, x : 0 .. 5]
Pkt(type, id, x) == [type |-> type, id |-> id, x |-> x]
Plain(type) == Pkt(type, ZeroIdent, 0)

EventId == {"CONNECT", "CONNECT_ERROR", "PUBLISHED", "RECEIVED", "SUBSCRIBED",
            "UNSUBSCRIBED"}
Event == [conn : 0 .. MaxConn, evt_id : EventId, id : Ident]

\* c->packet_ident++ on a uint16_t.
NextIdent_NoCarry(i) == <<i[1], i[2] + 1>>
NextIdent(i) ==
  IF i[2] = ByteBase - 1 THEN <<(i[1] + 1) % ByteBase, 0>> ELSE <<i[1], i[2] + 1>>

\* The PUBREC and PUBREL handlers take the identifier from data[1..2]: the
\* remaining length of the packet (2) and the first identifier byte.
AckIdent(id) == <<2, id[1]>>

\* mqttnox_pubrel and mqttnox_pubcomp write LSB(identifier) first.
SwappedBytes(id) == <<id[2], id[1]>>

\* mqttnox_puback and mqttnox_pubrec write MSB(identifier) first.
MsbFirst_Swapped(id) == SwappedBytes(id)
MsbFirst(id) == <<id[1], id[2]>>

\* The identifier PUBACK and UNSUBACK events carry: data[2] and data[3].
EventIdent_OffByOne(id) == AckIdent(id)
EventIdent(id) == <<id[1], id[2]>>

----------------------------------------------------------------------------
(* TCP abstraction layer                                                   *)

Receivers == 1 .. MaxConn
Live == {t \in Receivers : rpc[t] \in {"recv", "dispatch", "closing", "stuck"}}

\* send() takes the packet; what it takes for a peer that is gone is lost.
SendAccepts(p) ==
  /\ sock = "open"
  /\ wire' = Append(wire, p)
  /\ c2s' = IF peer = "up" THEN Append(c2s, p) ELSE c2s

\* send() returns SOCKET_ERROR and mqttnox_tcp_send closes the socket.
SendFails ==
  /\ sock = "dead" \/ peer # "up"
  /\ sock' = "dead"
  /\ localClose' = (localClose \/ sock = "open")
  /\ UNCHANGED <<wire, c2s>>

mqttnox_tcp_send(p) ==
  \/ SendAccepts(p) /\ UNCHANGED <<sock, localClose>>
  \/ SendFails

\* mqttnox_tcp_disconnect.
SockAfterDisconnect_Open == "open"
SockAfterDisconnect == "dead"

\* A connect over an open socket abandons its connection: socket() replaces
\* ClientSocket and nothing closes the old one.  The threads that are in its
\* recv() (S, of those in the loop) stay there; what the broker sent is still
\* read, what it has not read is lost.
InRecv ==
  IF sock = "open" /\ peer # "reset" THEN {t \in Receivers : rpc[t] = "recv"} ELSE {}
Abandoned(S) == [t \in Receivers |-> IF t \in S THEN "stuck" ELSE rpc[t]]
Abandon(S) ==
  /\ on' = [t \in Receivers |-> IF t \in S THEN conn ELSE on[t]]
  /\ old' = IF S = {} THEN old ELSE [old EXCEPT ![conn] = s2c]
  /\ reopened' = (reopened \/ sock = "open")
  /\ overlap' = (overlap \/ Live # {})

\* The receive thread mqttnox_tcp_connect starts; run = 1.
StartReceiver(r, t) == [r EXCEPT ![t] = "recv"]

\* run = 0 when recv() returned 0.
RunAfterClose_Forgotten == "recv"
RunAfterClose == "done"

\* What is left to read: when nothing follows, rcv_offset = 0 drops the packet.
Unread_Offset == IF Len(s2c) = 1 THEN s2c ELSE Tail(s2c)
Unread == Tail(s2c)

\* recv() returned a packet.  A PUBLISH and a SUBACK are longer than four bytes.
tcp_receive(t) ==
  /\ rpc[t] = "recv" /\ sock = "open" /\ s2c # <<>>
  /\ rcv_buf' = Head(s2c)
  /\ s2c' = Unread
  /\ dirty' = (dirty \/ Head(s2c).type \in {"PUBLISH", "SUBACK"})
  /\ rpc' = [rpc EXCEPT ![t] = "dispatch"]
  /\ UNCHANGED <<clientVars, sock, peer, c2s, brokerVars, callVars, connVars,
                 wire, events, localClose>>

\* recv() returned 0: the broker closed its end and all its data was read.
\* After an error (SOCKET_ERROR) the loop just calls recv() again: no step.
tcp_receive_closed(t) ==
  /\ rpc[t] = "recv" /\ sock = "open" /\ s2c = <<>> /\ peer = "fin"
  /\ rpc' = [rpc EXCEPT ![t] = "closing"]
  /\ UNCHANGED <<clientVars, sock, rcv_buf, dirty, linkVars, brokerVars,
                 callVars, connVars, wire, events, localClose>>

\* closesocket(ClientSocket), by now perhaps another connection's; run = 0.
tcp_close(t) ==
  /\ rpc[t] = "closing"
  /\ sock' = "dead"
  /\ localClose' = (localClose \/ (sock = "open" /\ Live # {t}))
  /\ rpc' = [rpc EXCEPT ![t] = RunAfterClose]
  /\ UNCHANGED <<clientVars, rcv_buf, dirty, linkVars, brokerVars, callVars,
                 connVars, wire, events>>

\* The recv() on an abandoned connection returns: a packet, 0 when the broker
\* has closed it, or an error when it was reset.
tcp_receive_stray(t) ==
  /\ rpc[t] = "stuck"
  /\ on' = [on EXCEPT ![t] = 0]
  /\ LET left == old[on[t]] IN
     \/ /\ left # <<>>
        /\ rcv_buf' = Head(left)
        /\ dirty' = (dirty \/ Head(left).type \in {"PUBLISH", "SUBACK"})
        /\ old' = [old EXCEPT ![on[t]] = Tail(left)]
        /\ rpc' = [rpc EXCEPT ![t] = "dispatch"]
     \/ /\ left = <<>>
        /\ rpc' = [rpc EXCEPT ![t] = "closing"]
        /\ UNCHANGED <<rcv_buf, dirty, old>>
     \/ /\ rpc' = [rpc EXCEPT ![t] = "recv"]
        /\ old' = [old EXCEPT ![on[t]] = <<>>]
        /\ UNCHANGED <<rcv_buf, dirty>>
  /\ UNCHANGED <<clientVars, sock, linkVars, brokerVars, callVars, conn, overlap,
                 reopened, cleanStart, wire, events, localClose>>

----------------------------------------------------------------------------
(* API functions                                                           *)

mqttnox_init ==
  /\ ~initialized
  /\ initialized' = TRUE
  /\ connected' = FALSE
  /\ packet_ident' = FirstIdent
  /\ UNCHANGED <<sock, rpc, rcv_buf, dirty, linkVars, brokerVars, callVars,
                 connVars, wire, events, localClose>>

\* What mqttnox_connect leaves in status.connected: what it found there.
ConnectedAtOpen_Early == TRUE
ConnectedAtOpen == connected

\* mqttnox_connect up to its mqttnox_tcp_connect.  Nothing asks whether there is
\* a connection already.
BeginConnect(S) ==
  /\ initialized /\ appPc = "idle" /\ conn < MaxConn
  /\ Abandon(S)
  /\ c2s' = <<>> /\ s2c' = <<>>
  /\ conn' = conn + 1
  /\ bst' = "wait" /\ bsent' = <<>> /\ wire' = <<>>
  /\ cleanStart' = (~connected /\ ~told /\ Live = {})
  /\ UNCHANGED <<initialized, packet_ident, rcv_buf, dirty, bout, told, reqs,
                 events, localClose>>

\* It returns 0: the socket is connected and its receive thread started.
mqttnox_connect_open ==
  \E S \in SUBSET InRecv :
    /\ BeginConnect(S)
    /\ sock' = "open" /\ peer' = "up"
    /\ rpc' = StartReceiver(Abandoned(S), conn + 1)
    /\ connected' = ConnectedAtOpen
    /\ appPc' = "connecting"

\* It fails in socket() or connect(): ClientSocket is a socket without a peer, or
\* invalid.  (When it fails before, nothing changes: no step.)
mqttnox_connect_fails ==
  \E S \in SUBSET InRecv :
    /\ BeginConnect(S)
    /\ sock' = "dead" /\ peer' = "reset"
    /\ rpc' = Abandoned(S)
    /\ UNCHANGED <<connected, appPc>>

\* The rest of mqttnox_connect: it returns MQTTNOX_SUCCESS whatever send() says.
mqttnox_connect_send ==
  /\ appPc = "connecting"
  /\ mqttnox_tcp_send(Plain("CONNECT"))
  /\ appPc' = "idle"
  /\ UNCHANGED <<clientVars, rpc, rcv_buf, dirty, peer, s2c, brokerVars, told,
                 reqs, connVars, events>>

\* A caller that asks first, and is told that the client is connected.
mqttnox_is_connected ==
  /\ CallerAsks /\ connected /\ told' = TRUE
  /\ UNCHANGED <<clientVars, sock, rpc, rcv_buf, dirty, linkVars, brokerVars,
                 appPc, reqs, connVars, wire, events, localClose>>

\* A request of any thread, the callback's included.  The functions check only
\* that the client is initialized; that they "must be called when client has
\* successfully connected" is left to the caller, who acts on what it was told
\* before.  Another caller may have been told so, too.
Request(p) ==
  /\ initialized /\ reqs < MaxReq
  /\ CallerAsks => told
  /\ told' \in {FALSE, told}
  /\ reqs' = reqs + 1
  /\ mqttnox_tcp_send(p)
  /\ UNCHANGED <<initialized, connected, rpc, rcv_buf, dirty, peer, s2c,
                 brokerVars, appPc, connVars, events>>

mqttnox_publish(qos) ==
  IF qos = 0
  THEN Request(Pkt("PUBLISH", ZeroIdent, 0)) /\ UNCHANGED packet_ident
  ELSE Request(Pkt("PUBLISH", packet_ident, qos))
       /\ packet_ident' = NextIdent(packet_ident)

mqttnox_subscribe ==
  /\ Request(Pkt("SUBSCRIBE", packet_ident, 0))
  /\ packet_ident' = NextIdent(packet_ident)

mqttnox_unsubscribe ==
  /\ Request(Pkt("UNSUBSCRIBE", packet_ident, 0))
  /\ packet_ident' = NextIdent(packet_ident)

\* mqttnox_disconnect up to its send().  When that fails the function returns
\* before mqttnox_tcp_disconnect and before it clears connected.
mqttnox_disconnect ==
  /\ initialized /\ appPc = "idle"
  /\ \/ /\ SendAccepts(Plain("DISCONNECT")) /\ UNCHANGED <<sock, localClose>>
        /\ appPc' = "closing"
     \/ SendFails /\ UNCHANGED appPc
  /\ UNCHANGED <<clientVars, rpc, rcv_buf, dirty, peer, s2c, brokerVars, told,
                 reqs, connVars, events>>

mqttnox_disconnect_close ==
  /\ appPc = "closing"
  /\ sock' = SockAfterDisconnect
  /\ localClose' = (localClose \/ sock = "open")
  /\ appPc' = "clearing"
  /\ UNCHANGED <<clientVars, rpc, rcv_buf, dirty, linkVars, brokerVars, told,
                 reqs, connVars, wire, events>>

mqttnox_disconnect_clear ==
  /\ appPc = "clearing"
  /\ connected' = FALSE
  /\ appPc' = "idle"
  /\ UNCHANGED <<initialized, packet_ident, sock, rpc, rcv_buf, dirty, linkVars,
                 brokerVars, told, reqs, connVars, wire, events, localClose>>

----------------------------------------------------------------------------
(* mqttnox_tcp_rcv_func on one complete packet: the response handlers      *)

\* The loop in the receive thread goes on with the next recv().
AfterDispatch_Exit == "done"
AfterDispatch == "recv"

Handles(t, type) ==
  /\ rpc[t] = "dispatch" /\ rcv_buf.type = type
  /\ rpc' = [rpc EXCEPT ![t] = AfterDispatch]
  /\ UNCHANGED <<initialized, packet_ident, rcv_buf, dirty, peer, s2c,
                 brokerVars, callVars, connVars>>

NoReply == UNCHANGED <<wire, c2s, sock, localClose>>

mqttnox_send_event(evt_id, id) ==
  events' = Append(events, [conn |-> conn, evt_id |-> evt_id, id |-> id])

\* The return code is read from data[4], one byte beyond the packet: zero
\* (accepted) in a fresh buffer, any byte of an earlier packet in a dirty one.
mqttnox_handler_connack(t) ==
  /\ Handles(t, "CONNACK") /\ NoReply
  /\ connected' = TRUE
  /\ \/ mqttnox_send_event("CONNECT", ZeroIdent)
     \/ dirty /\ mqttnox_send_event("CONNECT_ERROR", ZeroIdent)
     \/ dirty /\ UNCHANGED events

\* The reply is sent before the event; its result is ignored.
mqttnox_handler_publish(t) ==
  /\ Handles(t, "PUBLISH")
  /\ CASE rcv_buf.x = 0 -> NoReply
       [] rcv_buf.x = 1 -> mqttnox_tcp_send(Pkt("PUBACK", MsbFirst(rcv_buf.id), 0))
       [] OTHER -> mqttnox_tcp_send(Pkt("PUBREC", MsbFirst(rcv_buf.id), 0))
  /\ mqttnox_send_event("RECEIVED", rcv_buf.id)
  /\ UNCHANGED connected

mqttnox_handler_puback(t) ==
  /\ Handles(t, "PUBACK") /\ NoReply
  /\ mqttnox_send_event("PUBLISHED", EventIdent(rcv_buf.id))
  /\ UNCHANGED connected

mqttnox_handler_pubrec(t) ==
  /\ Handles(t, "PUBREC")
  /\ mqttnox_tcp_send(Pkt("PUBREL", SwappedBytes(AckIdent(rcv_buf.id)), 0))
  /\ UNCHANGED <<connected, events>>

mqttnox_handler_pubrel(t) ==
  /\ Handles(t, "PUBREL")
  /\ mqttnox_tcp_send(Pkt("PUBCOMP", SwappedBytes(AckIdent(rcv_buf.id)), 0))
  /\ UNCHANGED <<connected, events>>

\* Not implemented in the code.
mqttnox_handler_pubcomp(t) ==
  Handles(t, "PUBCOMP") /\ NoReply /\ UNCHANGED <<connected, events>>

\* The SUBACK event carries a return code and no identifier.
mqttnox_handler_suback(t) ==
  /\ Handles(t, "SUBACK") /\ NoReply
  /\ mqttnox_send_event("SUBSCRIBED", ZeroIdent)
  /\ UNCHANGED connected

mqttnox_handler_unsuback(t) ==
  /\ Handles(t, "UNSUBACK") /\ NoReply
  /\ mqttnox_send_event("UNSUBSCRIBED", EventIdent(rcv_buf.id))
  /\ UNCHANGED connected

Dispatch(t) ==
  \/ mqttnox_handler_connack(t) \/ mqttnox_handler_publish(t)
  \/ mqttnox_handler_puback(t) \/ mqttnox_handler_pubrec(t)
  \/ mqttnox_handler_pubrel(t) \/ mqttnox_handler_pubcomp(t)
  \/ mqttnox_handler_suback(t) \/ mqttnox_handler_unsuback(t)

----------------------------------------------------------------------------
(* The broker and the network (external)                                   *)

BoutState == {"queued", "sent", "rec", "rel", "done"}

\* A resumed session (clean_session = 0) starts unfinished deliveries again.
Resume(b) ==
  [m \in InMsgs |-> CASE b[m] = "sent" -> "queued"
                      [] b[m] = "rel" -> "rec"
                      [] OTHER -> b[m]]

broker_accept ==
  /\ peer = "up" /\ bst = "wait" /\ c2s # <<>> /\ Head(c2s).type = "CONNECT"
  /\ c2s' = Tail(c2s)
  /\ \/ /\ bst' = "up" /\ bout' = Resume(bout) /\ peer' = peer
        /\ s2c' = Append(s2c, Plain("CONNACK"))
     \/ /\ bst' = "refused" /\ bout' = bout /\ peer' = "fin"
        /\ s2c' = Append(s2c, Pkt("CONNACK", ZeroIdent, 5))
  /\ UNCHANGED <<clientVars, sock, rpc, rcv_buf, dirty, bsent, callVars,
                 connVars, wire, events, localClose>>

BrokerReply(p) ==
  CASE p.type = "PUBLISH" /\ p.x = 1 -> <<Pkt("PUBACK", p.id, 0)>>
    [] p.type = "PUBLISH" /\ p.x = 2 -> <<Pkt("PUBREC", p.id, 0)>>
    [] p.type = "PUBREL" -> <<Pkt("PUBCOMP", p.id, 0)>>
    [] p.type = "SUBSCRIBE" -> <<Pkt("SUBACK", p.id, 0)>>
    [] p.type = "UNSUBSCRIBE" -> <<Pkt("UNSUBACK", p.id, 0)>>
    [] OTHER -> <<>>

BrokerProgress(b, p) ==
  [m \in InMsgs |->
     CASE m # p.id -> b[m]
       [] p.type = "PUBACK" /\ b[m] = "sent" -> "done"
       [] p.type = "PUBREC" /\ b[m] = "sent" -> "rec"
       [] p.type = "PUBCOMP" /\ b[m] = "rel" -> "done"
       [] OTHER -> b[m]]

\* A first packet other than CONNECT makes the broker close the connection.
broker_read ==
  /\ peer = "up" /\ c2s # <<>>
  /\ bst = "up" \/ Head(c2s).type # "CONNECT"
  /\ c2s' = Tail(c2s)
  /\ IF bst = "up"
     THEN /\ s2c' = s2c \o BrokerReply(Head(c2s))
          /\ bout' = BrokerProgress(bout, Head(c2s))
          /\ peer' = IF Head(c2s).type = "DISCONNECT" THEN "fin" ELSE peer
          /\ bst' = bst
     ELSE peer' = "fin" /\ bst' = "refused" /\ UNCHANGED <<s2c, bout>>
  /\ UNCHANGED <<clientVars, sock, rpc, rcv_buf, dirty, bsent, callVars,
                 connVars, wire, events, localClose>>

broker_deliver(m) ==
  /\ peer = "up" /\ bst = "up" /\ bout[m] = "queued"
  /\ s2c' = Append(s2c, Pkt("PUBLISH", m, InQos[m]))
  /\ bsent' = Append(bsent, Pkt("PUBLISH", m, InQos[m]))
  /\ bout' = [bout EXCEPT ![m] = IF InQos[m] = 0 THEN "done" ELSE "sent"]
  /\ UNCHANGED <<clientVars, sock, rpc, rcv_buf, dirty, peer, c2s, bst,
                 callVars, connVars, wire, events, localClose>>

broker_release(m) ==
  /\ peer = "up" /\ bst = "up" /\ bout[m] = "rec"
  /\ s2c' = Append(s2c, Pkt("PUBREL", m, 0))
  /\ bout' = [bout EXCEPT ![m] = "rel"]
  /\ UNCHANGED <<clientVars, sock, rpc, rcv_buf, dirty, peer, c2s, bst, bsent,
                 callVars, connVars, wire, events, localClose>>

\* The broker closes (keep-alive expired, shutdown): its data is still read.
broker_close ==
  /\ peer = "up" /\ sock = "open"
  /\ peer' = "fin"
  /\ UNCHANGED <<clientVars, sock, rpc, rcv_buf, dirty, c2s, s2c, brokerVars,
                 callVars, connVars, wire, events, localClose>>

\* The connection is reset: what is in flight both ways is lost.
link_reset ==
  /\ peer = "up" /\ sock = "open"
  /\ peer' = "reset" /\ c2s' = <<>> /\ s2c' = <<>>
  /\ UNCHANGED <<clientVars, sock, rpc, rcv_buf, dirty, brokerVars, callVars,
                 connVars, wire, events, localClose>>

----------------------------------------------------------------------------
Init ==
  /\ initialized = FALSE /\ connected = FALSE /\ packet_ident = ZeroIdent
  /\ sock = "dead" /\ rpc = [t \in Receivers |-> "none"]
  /\ rcv_buf = Plain("CONNACK") /\ dirty = FALSE
  /\ peer = "up" /\ c2s = <<>> /\ s2c = <<>>
  /\ bst = "wait" /\ bout = [m \in InMsgs |-> "queued"] /\ bsent = <<>>
  /\ appPc = "idle" /\ told = FALSE /\ reqs = 0
  /\ conn = 0 /\ on = [t \in Receivers |-> 0] /\ old = [c \in 0 .. MaxConn |-> <<>>]
  /\ wire = <<>> /\ events = <<>>
  /\ overlap = FALSE /\ reopened = FALSE /\ localClose = FALSE /\ cleanStart = FALSE

Receive(t) ==
  tcp_receive(t) \/ tcp_receive_closed(t) \/ tcp_close(t) \/ Dispatch(t)

App ==
  \/ mqttnox_init
  \/ mqttnox_connect_open \/ mqttnox_connect_fails \/ mqttnox_connect_send
  \/ mqttnox_is_connected \/ (\E qos \in 0 .. 2 : mqttnox_publish(qos))
  \/ mqttnox_subscribe \/ mqttnox_unsubscribe
  \/ mqttnox_disconnect \/ mqttnox_disconnect_close \/ mqttnox_disconnect_clear

Broker ==
  \/ broker_accept \/ broker_read \/ broker_close
  \/ \E m \in InMsgs : broker_deliver(m) \/ broker_release(m)

Next ==
  \/ App \/ Broker \/ link_reset
  \/ \E t \in Receivers : Receive(t) \/ tcp_receive_stray(t)

Spec == Init /\ [][Next]_vars

\* A running receive thread is scheduled and mqttnox_connect is left; nothing
\* makes the application, the broker or the network act, and a recv() on an
\* abandoned connection need not return.
FairSpec ==
  /\ Spec
  /\ \A t \in Receivers : WF_vars(Receive(t))
  /\ WF_vars(mqttnox_connect_send)

----------------------------------------------------------------------------
(* Properties                                                              *)

StraysOK ==
  on \in [Receivers -> 0 .. MaxConn] /\ old \in [0 .. MaxConn -> Seq(Packet)]

TypeOK ==
  /\ initialized \in BOOLEAN /\ connected \in BOOLEAN
  /\ packet_ident \in Ident
  /\ sock \in {"open", "dead"}
  /\ rpc \in [Receivers -> {"none", "recv", "dispatch", "closing", "stuck", "done"}]
  /\ rcv_buf \in Packet /\ dirty \in BOOLEAN
  /\ peer \in {"up", "fin", "reset"}
  /\ c2s \in Seq(Packet) /\ s2c \in Seq(Packet)
  /\ bst \in {"wait", "up", "refused"}
  /\ bout \in [InMsgs -> BoutState]
  /\ bsent \in Seq(Packet)
  /\ appPc \in {"idle", "connecting", "closing", "clearing"}
  /\ told \in BOOLEAN /\ reqs \in 0 .. MaxReq
  /\ conn \in 0 .. MaxConn /\ StraysOK
  /\ wire \in Seq(Packet) /\ events \in Seq(Event)
  /\ overlap \in BOOLEAN /\ reopened \in BOOLEAN
  /\ localClose \in BOOLEAN /\ cleanStart \in BOOLEAN

\* When the callers ask first, a connection opened by a client that reported
\* not connected, with no caller still to act on an earlier answer and no receive
\* thread left, starts with CONNECT, and only a DISCONNECT may follow before the
\* broker has answered: no thread, callback or late handler slips a packet in
\* between mqttnox_tcp_connect and the CONNACK.
HandshakeOrder ==
  CallerAsks /\ cleanStart => \A i \in 1 .. Len(wire) :
                  IF i = 1 THEN wire[i].type = "CONNECT"
                  ELSE bst # "wait" \/ wire[i].type = "DISCONNECT"

Disconnecting == \E i \in 1 .. Len(wire) : wire[i].type = "DISCONNECT"

\* A packet follows a DISCONNECT on its connection only while mqttnox_disconnect
\* is between its send() and its closesocket(): once it is past that, whatever
\* receive threads, callers and further connects do, the connection is silent.
SilentAfterDisconnect ==
  [][Disconnecting /\ wire' # wire => appPc = "closing" \/ wire' = <<>>]_vars

\* Two receive threads never share the client's buffer unless this process
\* closed a socket under a running receive thread, or called mqttnox_connect
\* over a socket nobody had closed (open, or reset by the broker): a connection
\* the broker closed leaves no thread behind.
OneReceiver ==
  ~localClose /\ ~reopened => ~overlap /\ Cardinality(Live) <= 1

OnConn(evt_id) == Only(events, [conn : {conn}, evt_id : {evt_id}, id : Ident])
Ids(s) == [i \in 1 .. Len(s) |-> s[i].id]

Publications(qos) == [type : {"PUBLISH"}, id : Ident, x : qos]
Acknowledgements == [type : {"PUBACK", "PUBREC"}, id : Ident, x : {0}]

\* With one receive thread, the messages of a connection reach the callback in
\* the order the broker sent them, none twice and none skipped.
ReceivedInOrder ==
  ~overlap => IsPrefix(Ids(OnConn("RECEIVED")), Ids(bsent))

\* With one receive thread, the PUBACKs and PUBRECs of a connection name the
\* QoS 1 and QoS 2 messages the broker sent, each once and in order.
AckFor(p) == Pkt(IF p.x = 1 THEN "PUBACK" ELSE "PUBREC", p.id, 0)
AcksFor(s) == [i \in 1 .. Len(s) |-> AckFor(s[i])]
AcksInOrder ==
  ~overlap => IsPrefix(Only(wire, Acknowledgements),
                       AcksFor(Only(bsent, Publications({1, 2}))))

\* With one receive thread, MQTTNOX_EVT_PUBLISHED is raised for the QoS 1
\* publications of the connection, each once and in the order they were sent.
PublishedInOrder ==
  ~overlap => IsPrefix(Ids(OnConn("PUBLISHED")), Ids(Only(wire, Publications({1}))))

\* A message the broker sent reaches the callback, unless the connection ends
\* first on this side or by a reset, or two receive threads share the buffer.
MessageArrives ==
  \A m \in InMsgs :
    (\E i \in 1 .. Len(s2c) : s2c[i].type = "PUBLISH" /\ s2c[i].id = m)
      ~> \/ sock = "dead" \/ peer = "reset" \/ overlap
         \/ \E i \in 1 .. Len(events) :
              /\ events[i].conn = conn /\ events[i].evt_id = "RECEIVED"
              /\ events[i].id = m

\* When the broker closes a connection, the receive thread drains the data and
\* closes the socket, unless mqttnox_connect replaces the connection first.
PeerCloseNoticed ==
  \A c \in Receivers :
    (conn = c /\ sock = "open" /\ peer = "fin") ~> (sock = "dead" \/ conn # c)

----------------------------------------------------------------------------
(* What the comments say and the code does not do (checked to be violated) *)

\* mqttnox.h: MQTTNOX_EVT_CONNECT is "Connection", MQTTNOX_EVT_CONNECT_ERROR
\* "Connection Error": the event tells an accepted CONNACK from a refused one.
ConnectEventMeansAccepted ==
  \A i \in 1 .. Len(events) :
    events[i].evt_id = "CONNECT" /\ events[i].conn = conn => bst = "up"

\* mqttnox_pubrel adds the "packet identifier": the one of a publication of
\* the connection, which the PUBREC it answers carried.
PubrelNamesPublication ==
  \A i \in 1 .. Len(wire) : wire[i].type = "PUBREL" =>
    \E j \in 1 .. i : wire[j] = Pkt("PUBLISH", wire[i].id, 2)
=============================================================================
