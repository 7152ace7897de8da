------------------------------- MODULE TxPath -------------------------------
(***************************************************************************)
(* How the API functions and the reply functions of mqttnox.c build a      *)
(* packet in the one static mqttnox_tx_buf, statement by statement, while  *)
(* other threads do the same: main connects and disconnects, the command   *)
(* line publishes and subscribes, the receive thread acknowledges, and no  *)
(* lock protects the buffer or c->packet_ident.                            *)
(*                                                                         *)
(* A byte is a number; zero is what memset leaves and what ends strlen.    *)
(* A string is a sequence of non-zero bytes, and <<>> also stands for      *)
(* NULL, from which the code tells the empty string only in a client       *)
(* identifier.  The constant ten bytes of CONNECT's variable header are    *)
(* two here: one for the protocol and the keep-alive, and the flags.       *)
(***************************************************************************)
EXTENDS Integers, Sequences, FiniteSets, SequencesExt

CONSTANTS
  Thread,       \* the threads that use the client
  Calls,        \* Calls[t]: the calls thread t may make
  BufSize,      \* MQTTNOX_TX_BUF_SIZE (256)
  LenBase,      \* values of a length byte before it is continued (128)
  IdentBase,    \* values of an identifier byte (256)
  FirstIdent,   \* packet_ident at the start
  MaxDeviceId,  \* MQTT_MAX_DEVICE_ID_LEN
  MaxCalls      \* bound: calls made

IdentMod == IdentBase * IdentBase

\* What the application passes in, and the identifiers of what is replied to.
String == Seq(Nat \ {0})
NULL == <<0>>
Conf == [client_id : String \cup {NULL}, will_topic : String, will_msg : String, qos : 0 .. 2,
         retain : 0 .. 1, username : String, password : String, clean : BOOLEAN]
Call ==
  [fn : {"connect"}, conf : Conf] \cup [fn : {"disconnect"}]
  \cup [fn : {"publish"}, qos : 0 .. 2, retain : 0 .. 1, dup : 0 .. 1,
        topic : String, msg : String]
  \cup [fn : {"subscribe", "unsubscribe"}, topics : Seq([topic : String, qos : 0 .. 2])]
  \cup [fn : {"puback", "pubrec", "pubrel", "pubcomp"}, id : 0 .. IdentMod - 1]

ASSUME TxAssumption ==
  /\ LenBase \in 2 .. 256 /\ IdentBase \in Nat \ {0, 1}
  /\ BufSize \in Nat /\ BufSize > 5 /\ BufSize < LenBase * LenBase
  /\ FirstIdent \in 0 .. IdentMod - 1
  /\ MaxDeviceId \in Nat /\ MaxCalls \in Nat
  /\ \A t \in Thread : Calls[t] \subseteq Call

VARIABLES
  tx_buf,        \* mqttnox_tx_buf
  packet_ident,  \* c->packet_ident
  call,          \* the call each thread is in
  todo,          \* the statements it still has to execute
  at,            \* where its next byte goes: pkt_len, plus offset if it has one
  gap,           \* buf_offset in mqttnox_append_utf8_string
  seen,          \* the packet_ident it is about to increment
  made,          \* calls made
  ident0,        \* history: packet_ident when the call began
  took,          \* history: the identifier bytes it has read
  alone,         \* history: no other call overlapped it
  solo,          \* history: no other call that takes an identifier did
  sent,          \* history: packets of calls that were alone
  drawn,         \* history: identifiers taken by calls that were solo
  outside        \* a write left tx_buf (what it hits is not modelled)

shared == <<tx_buf, packet_ident>>
cursor == <<at, gap, seen, took>>
history == <<call, ident0, alone, solo>>
vars == <<shared, cursor, history, todo, made, sent, drawn, outside>>

----------------------------------------------------------------------------
(* Calls and what is put in the buffer for them                            *)

HeaderFirst == {"connect", "unsubscribe", "disconnect"}
Draws(c) == c.fn \in {"subscribe", "unsubscribe"} \/ (c.fn = "publish" /\ c.qos > 0)

\* The first byte: type in the high half, the flags of hdr below.
Type == [connect |-> 1, publish |-> 3, puback |-> 4, pubrec |-> 5, pubrel |-> 6,
         pubcomp |-> 7, subscribe |-> 8, unsubscribe |-> 10, disconnect |-> 14]
Hdr(c) == Type[c.fn] * 16
            + (IF c.fn = "publish" THEN c.dup * 8 + c.qos * 2 + c.retain ELSE 0)

\* These functions OR 2 into it.
Flagged == {"subscribe", "unsubscribe", "pubrel"}

Msb(i) == i \div IdentBase
Lsb(i) == i % IdentBase

Bit(b) == IF b THEN 1 ELSE 0
HasWill(conf) == conf.will_msg # <<>> \/ conf.will_topic # <<>>
HasUser(conf) == conf.username # <<>>
HasPassword(conf) == HasUser(conf) /\ conf.password # <<>>
ConnectFlags(conf) ==
  128 * Bit(HasUser(conf)) + 64 * Bit(HasPassword(conf)) + 2 * Bit(conf.clean)
    + (IF HasWill(conf) THEN 32 * conf.retain + 8 * conf.qos + 4 ELSE 0)
VarHdr(conf) == <<77, ConnectFlags(conf)>>

Letters == (48 .. 57) \cup (65 .. 90) \cup (97 .. 122)
mqttnoxlib_validate_device_id(id) ==
  /\ id # NULL /\ Len(id) < MaxDeviceId
  /\ \A i \in 1 .. Len(id) : id[i] \in Letters

\* A statement on tx_buf, with the bytes it writes.
Op(o, s) == [op |-> o, bytes |-> s]

\* mqttnox_append_utf8_string: strlen(buffer), and memcpy behind what it found.
Prefix(s) == <<Len(s) \div 256, Len(s) % 256>>
Append_utf8(s, add_len) ==
  IF s = <<>> THEN <<>>
  ELSE <<Op("measure", <<>>),
         Op("copy", IF add_len THEN Prefix(s) \o s ELSE s)>>

NewIdent == <<Op("msb", <<>>), Op("lsb", <<>>), Op("fetch", <<>>), Op("store", <<>>)>>
GivenIdent(b1, b2) == <<Op("put", <<b1>>), Op("put", <<b2>>)>>

\* What each function puts between the header and the length.
connect_fields(conf) ==
  <<Op("put", VarHdr(conf))>> \o Append_utf8(conf.client_id, TRUE)
  \o (IF HasWill(conf)
      THEN Append_utf8(conf.will_topic, TRUE) \o Append_utf8(conf.will_msg, TRUE)
      ELSE <<>>)
  \o (IF HasUser(conf) THEN Append_utf8(conf.username, TRUE) ELSE <<>>)
  \o (IF HasPassword(conf) THEN Append_utf8(conf.password, TRUE) ELSE <<>>)

publish_fields(c) ==
  Append_utf8(c.topic, TRUE) \o (IF c.qos > 0 THEN NewIdent ELSE <<>>)
  \o Append_utf8(c.msg, FALSE)

subscribe_fields(topics) ==
  NewIdent \o FlattenSeq([i \in 1 .. Len(topics) |->
                Append_utf8(topics[i].topic, TRUE) \o <<Op("put", <<topics[i].qos>>)>>])

unsubscribe_fields(topics) ==
  NewIdent \o FlattenSeq([i \in 1 .. Len(topics) |-> Append_utf8(topics[i].topic, TRUE)])

puback_fields(id) == GivenIdent(Msb(id), Lsb(id))
pubrec_fields(id) == GivenIdent(Msb(id), Lsb(id))
pubrel_fields(id) == GivenIdent(Lsb(id), Msb(id))
pubcomp_fields(id) == GivenIdent(Lsb(id), Msb(id))
disconnect_fields == <<>>

Fields(c) ==
  CASE c.fn = "connect" -> connect_fields(c.conf)
    [] c.fn = "publish" -> publish_fields(c)
    [] c.fn = "subscribe" -> subscribe_fields(c.topics)
    [] c.fn = "unsubscribe" -> unsubscribe_fields(c.topics)
    [] c.fn = "puback" -> puback_fields(c.id)
    [] c.fn = "pubrec" -> pubrec_fields(c.id)
    [] c.fn = "pubrel" -> pubrel_fields(c.id)
    [] c.fn = "pubcomp" -> pubcomp_fields(c.id)
    [] c.fn = "disconnect" -> disconnect_fields

HeaderOps(c) ==
  <<Op("header", <<Hdr(c)>>)>>
  \o (IF c.fn \in Flagged THEN <<Op("flag", <<>>)>> ELSE <<>>)

\* CONNECT, UNSUBSCRIBE and DISCONNECT put the header first and store the length
\* last, the others the other way round.
Program(c) ==
  <<Op("clear", <<>>)>>
  \o (IF c.fn \in HeaderFirst THEN HeaderOps(c) \o Fields(c) \o <<Op("length", <<>>)>>
      ELSE Fields(c) \o <<Op("length", <<>>)>> \o HeaderOps(c))
  \o <<Op("send", <<>>)>>

----------------------------------------------------------------------------
(* Statements                                                              *)

\* sizeof(hdr) + 1, or sizeof(hdr) + MAX_REMAIN_LEN_BYTES.
FirstField_Off(c) == IF c.fn \in HeaderFirst THEN 2 ELSE 6
FirstField(c) == IF c.fn \in HeaderFirst THEN 2 ELSE 5

\* mqttnox_set_remain_len, for what fits into the buffer.
RemainLen(n) ==
  IF n < LenBase THEN <<n>> ELSE <<LenBase + (n % LenBase), n \div LenBase>>

\* Where the packet starts, with n bytes from its first field on.
Start(c, n) == IF c.fn \in HeaderFirst THEN 0 ELSE FirstField(c) - 1 - Len(RemainLen(n))

Idle == [fn |-> "none"]
Busy(t) == todo[t] # <<>>
Now(t) == Head(todo[t])
Does(t, o) ==
  /\ Busy(t) /\ Now(t).op = o /\ ~outside
  /\ todo' = [todo EXCEPT ![t] = Tail(@)]
PktLen(t) == at[t] - FirstField(call[t])

\* Bytes s at index i of tx_buf.
Write(i, s) ==
  /\ tx_buf' = [j \in 0 .. BufSize - 1 |->
                  IF j \in i .. i + Len(s) - 1 THEN s[j - i + 1] ELSE tx_buf[j]]
  /\ outside' = (i + Len(s) > BufSize)

\* strlen(&tx_buf[i]): up to the first zero, or to the end of the buffer, behind
\* which the next variable of the program is taken to begin with a zero.
StrLen(i) ==
  CHOOSE n \in 0 .. BufSize :
    /\ \A j \in i .. i + n - 1 : j < BufSize /\ tx_buf[j] # 0
    /\ i + n >= BufSize \/ tx_buf[i + n] = 0

Begin(t) ==
  /\ ~Busy(t) /\ made < MaxCalls /\ ~outside
  /\ \E c \in Calls[t] :
       /\ c.fn = "connect" => mqttnoxlib_validate_device_id(c.conf.client_id)
       /\ call' = [call EXCEPT ![t] = c]
       /\ todo' = [todo EXCEPT ![t] = Program(c)]
       /\ at' = [at EXCEPT ![t] = FirstField(c)]
       /\ ident0' = [ident0 EXCEPT ![t] = packet_ident]
       /\ alone' = [u \in Thread |->
            IF u = t THEN \A v \in Thread : ~Busy(v) ELSE alone[u] /\ ~Busy(u)]
       /\ solo' = [u \in Thread |->
            IF u = t THEN \A v \in Thread : Busy(v) => ~Draws(call[v])
            ELSE solo[u] /\ ~(Busy(u) /\ Draws(c))]
  /\ made' = made + 1
  /\ UNCHANGED <<shared, gap, seen, took, sent, drawn, outside>>

\* MEMZERO(mqttnox_tx_buf)
Cleared_Kept == tx_buf
Cleared == [j \in 0 .. BufSize - 1 |-> 0]

Clear(t) ==
  /\ Does(t, "clear")
  /\ tx_buf' = Cleared
  /\ UNCHANGED <<packet_ident, cursor, history, made, sent, drawn, outside>>

Measure(t) ==
  /\ Does(t, "measure")
  /\ gap' = [gap EXCEPT ![t] = StrLen(at[t])]
  /\ UNCHANGED <<shared, at, seen, took, history, made, sent, drawn, outside>>

\* The bytes go behind the gap; pkt_len does not count it.
Copy(t) ==
  /\ Does(t, "copy")
  /\ LET s == Now(t).bytes
     IN Write(at[t] + gap[t], s) /\ at' = [at EXCEPT ![t] = @ + Len(s)]
  /\ UNCHANGED <<packet_ident, gap, seen, took, history, made, sent, drawn>>

Put(t) ==
  /\ Does(t, "put")
  /\ LET s == Now(t).bytes
     IN Write(at[t], s) /\ at' = [at EXCEPT ![t] = @ + Len(s)]
  /\ UNCHANGED <<packet_ident, gap, seen, took, history, made, sent, drawn>>

PutIdentByte(t, b) ==
  /\ Write(at[t], <<b>>) /\ at' = [at EXCEPT ![t] = @ + 1]
  /\ took' = [took EXCEPT ![t] = Append(@, b)]
  /\ UNCHANGED <<packet_ident, gap, seen, history, made, sent>>

PutMsb(t) ==
  Does(t, "msb") /\ PutIdentByte(t, Msb(packet_ident)) /\ UNCHANGED drawn

PutLsb(t) ==
  Does(t, "lsb") /\ PutIdentByte(t, Lsb(packet_ident)) /\ UNCHANGED drawn

\* c->packet_ident++ reads and writes.
Incremented_NoWrap(i) == i + 1
Incremented_Same(i) == i
Incremented(i) == (i + 1) % IdentMod

FetchIdent(t) ==
  /\ Does(t, "fetch")
  /\ seen' = [seen EXCEPT ![t] = packet_ident]
  /\ UNCHANGED <<shared, at, gap, took, history, made, sent, drawn, outside>>

StoreIdent(t) ==
  /\ Does(t, "store")
  /\ packet_ident' = Incremented(seen[t])
  /\ drawn' = IF solo[t] THEN Append(drawn, took[t]) ELSE drawn
  /\ UNCHANGED <<tx_buf, cursor, history, made, sent, outside>>

\* pkt_len - 2 in one byte, or mqttnox_set_remain_len before the first field.
StoreLength(t) ==
  /\ Does(t, "length")
  /\ IF call[t].fn \in HeaderFirst THEN Write(1, <<PktLen(t) % 256>>)
     ELSE LET r == RemainLen(PktLen(t)) IN Write(FirstField(call[t]) - Len(r), r)
  /\ UNCHANGED <<packet_ident, cursor, history, made, sent, drawn>>

StoreHeader(t) ==
  /\ Does(t, "header")
  /\ Write(Start(call[t], PktLen(t)), Now(t).bytes)
  /\ UNCHANGED <<packet_ident, cursor, history, made, sent, drawn>>

\* |= 0x2
StoreFlag(t) ==
  /\ Does(t, "flag")
  /\ LET i == Start(call[t], PktLen(t))
     IN Write(i, <<IF (tx_buf[i] \div 2) % 2 = 1 THEN tx_buf[i] ELSE tx_buf[i] + 2>>)
  /\ UNCHANGED <<packet_ident, cursor, history, made, sent, drawn>>

\* mqttnox_tcp_send hands the bytes to send(), and the function returns.
Send(t) ==
  /\ Does(t, "send")
  /\ LET from == Start(call[t], PktLen(t))
         bytes == [j \in 1 .. at[t] - from |-> tx_buf[from + j - 1]]
     IN sent' = IF alone[t]
                THEN Append(sent, [call |-> call[t], id |-> ident0[t], bytes |-> bytes])
                ELSE sent
  /\ call' = [call EXCEPT ![t] = Idle] /\ at' = [at EXCEPT ![t] = 0]
  /\ gap' = [gap EXCEPT ![t] = 0] /\ seen' = [seen EXCEPT ![t] = 0]
  /\ took' = [took EXCEPT ![t] = <<>>] /\ ident0' = [ident0 EXCEPT ![t] = 0]
  /\ alone' = [alone EXCEPT ![t] = TRUE] /\ solo' = [solo EXCEPT ![t] = TRUE]
  /\ UNCHANGED <<shared, made, drawn, outside>>

----------------------------------------------------------------------------
Init ==
  /\ tx_buf = [j \in 0 .. BufSize - 1 |-> 0] /\ packet_ident = FirstIdent
  /\ call = [t \in Thread |-> Idle] /\ todo = [t \in Thread |-> <<>>]
  /\ at = [t \in Thread |-> 0] /\ gap = [t \in Thread |-> 0]
  /\ seen = [t \in Thread |-> 0] /\ took = [t \in Thread |-> <<>>]
  /\ ident0 = [t \in Thread |-> 0] /\ made = 0
  /\ alone = [t \in Thread |-> TRUE] /\ solo = [t \in Thread |-> TRUE]
  /\ sent = <<>> /\ drawn = <<>> /\ outside = FALSE

Statement(t) ==
  \/ Clear(t) \/ Measure(t) \/ Copy(t) \/ Put(t) \/ PutMsb(t) \/ PutLsb(t)
  \/ FetchIdent(t) \/ StoreIdent(t) \/ StoreLength(t) \/ StoreHeader(t)
  \/ StoreFlag(t) \/ Send(t)

Next == \E t \in Thread : Begin(t) \/ Statement(t)

Spec == Init /\ [][Next]_vars

----------------------------------------------------------------------------
(* Properties                                                              *)

TypeOK ==
  /\ tx_buf \in [0 .. BufSize - 1 -> Nat]
  /\ packet_ident \in 0 .. IdentMod - 1
  /\ \A t \in Thread : call[t] \in Calls[t] \cup {Idle}
  /\ at \in [Thread -> 0 .. BufSize] \/ outside
  /\ gap \in [Thread -> 0 .. BufSize]
  /\ seen \in [Thread -> 0 .. IdentMod - 1] /\ ident0 \in [Thread -> 0 .. IdentMod - 1]
  /\ took \in [Thread -> Seq(0 .. IdentBase - 1)]
  /\ alone \in [Thread -> BOOLEAN] /\ solo \in [Thread -> BOOLEAN]
  /\ made \in 0 .. MaxCalls /\ outside \in BOOLEAN

\* The packet MQTT defines for a call.
Utf8(s) == Prefix(s) \o s
IdentBytes(i) == <<Msb(i), Lsb(i)>>
Optional(b, s) == IF b THEN Utf8(s) ELSE <<>>
Body(c, id) ==
  CASE c.fn = "connect" ->
         VarHdr(c.conf) \o Utf8(c.conf.client_id)
         \o Optional(HasWill(c.conf), c.conf.will_topic)
         \o Optional(HasWill(c.conf), c.conf.will_msg)
         \o Optional(HasUser(c.conf), c.conf.username)
         \o Optional(HasPassword(c.conf), c.conf.password)
    [] c.fn = "publish" ->
         Utf8(c.topic) \o (IF c.qos > 0 THEN IdentBytes(id) ELSE <<>>) \o c.msg
    [] c.fn = "subscribe" ->
         IdentBytes(id)
           \o FlattenSeq([i \in 1 .. Len(c.topics) |->
                             Utf8(c.topics[i].topic) \o <<c.topics[i].qos>>])
    [] c.fn = "unsubscribe" ->
         IdentBytes(id)
           \o FlattenSeq([i \in 1 .. Len(c.topics) |-> Utf8(c.topics[i].topic)])
    [] c.fn \in {"puback", "pubrec", "pubrel", "pubcomp"} -> IdentBytes(c.id)
    [] OTHER -> <<>>
PacketOf(c, id) ==
  <<Hdr(c) + (IF c.fn \in Flagged THEN 2 ELSE 0)>>
  \o RemainLen(Len(Body(c, id))) \o Body(c, id)

\* What mqttnox_append_utf8_string leaves out, MQTT wants as an empty string.
NoString(c) ==
  CASE c.fn = "connect" ->
         \/ c.conf.client_id = <<>>
         \/ (HasWill(c.conf) /\ <<>> \in {c.conf.will_topic, c.conf.will_msg})
    [] c.fn = "publish" -> c.topic = <<>>
    [] c.fn \in {"subscribe", "unsubscribe"} ->
         \E i \in 1 .. Len(c.topics) : c.topics[i].topic = <<>>
    [] OTHER -> FALSE

\* mqttnox_pubrel and mqttnox_pubcomp write the identifier low byte first, MQTT
\* wants the high one first: what they send names another identifier.
Exchanged(i) == IdentBase * Lsb(i) + Msb(i)
Named(c) ==
  IF c.fn \in {"pubrel", "pubcomp"} THEN [c EXCEPT !.id = Exchanged(c.id)] ELSE c

OneByteLength(c) == c.fn \in HeaderFirst /\ Len(Body(c, 0)) >= LenBase
Fits(c) == (IF c.fn \in HeaderFirst THEN 2 ELSE 5) + Len(Body(c, 0)) <= BufSize

\* A call that no other call overlaps sends the packet MQTT defines for it,
\* whatever earlier calls, also ones that clashed, left in mqttnox_tx_buf: except
\* when a string is empty, and when CONNECT or UNSUBSCRIBE needs more than one
\* length byte; and the PUBREL and the PUBCOMP it sends are those MQTT defines
\* for the identifier with its two bytes exchanged.
Intact ==
  \A i \in 1 .. Len(sent) :
    LET c == sent[i].call
    IN NoString(c) \/ OneByteLength(c) \/ sent[i].bytes = PacketOf(Named(c), sent[i].id)

\* A call that is alone and whose packet fits writes within mqttnox_tx_buf,
\* to its last byte.
StaysInside ==
  outside => \E t \in Thread : Busy(t) /\ (~alone[t] \/ ~Fits(call[t]))

\* Two calls that take an identifier, each overlapped by no other such call, never
\* take the same one, although replies and other calls may overlap them.  Of calls
\* that do overlap it says nothing: they may share an identifier, and when one of
\* them loses the other's increment, a later call repeats an identifier as well.
IdentsDistinct ==
  \A i, j \in 1 .. Len(drawn) : i # j => drawn[i] # drawn[j]
=============================================================================
