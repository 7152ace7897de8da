# MQTTNox: verification of the client library

TLA+ models of the MQTTNox client (`src/src/mqttnox-lib`), of the Windows TCP
abstraction layer (TAL) and of the sample application that drive it
(`src/apps/MQTTNoxClient`), model-checked with TLC on small instances, and
theorems about them checked by TLAPS for every instance.  The code is the
reference: a definition named like a C function stands for that function, and
`PROJECT.json` gives the lines of each.

## The system

| Component | State | Operations | Interacts through |
| --- | --- | --- | --- |
| Client API (`mqttnox.c`) | `mqttnox_client_t`: `flag_initialized`, `status.connected`, `packet_ident`, `callback`, `rcv_offset`; the static `mqttnox_tx_buf` | `mqttnox_init`, `_connect`, `_publish`, `_subscribe`, `_unsubscribe`, `_disconnect`, `_is_connected` | calls of the TAL; any thread may call it, the callback included |
| Response handlers (`mqttnox.c`) | none of their own; read `rcv_buf` at fixed offsets | one per packet type, each making a reply, an event, or both | called in the receive thread; reply through the TAL, event through `callback` |
| Receive path (`mqttnox_tcp_rcv_func`) | `rcv_buf`, `rcv_offset` | cut what `recv()` returned into packets, dispatch each, keep the rest | called by the receive thread |
| TAL (`mqttnox_tal_windows.c`) | `ClientSocket`, `client`, the thread object | `tcp_init`, `tcp_connect`, `tcp_send`, `tcp_disconnect`, the receive thread, `wait_thread` | the network; all threads share `ClientSocket` without a lock |
| Remaining length (`mqttnox.c`) | none | `mqttnox_set_remain_len`, `mqttnox_decode_remain_len` | used by every packet written and read |
| Packet construction (`mqttnox.c`, `mqttnoxlib.c`) | `mqttnox_tx_buf` | CONNECT flags and payload, `append_utf8_string`, `validate_device_id` | used by the API functions |
| Command line (`mqttnox_commandline.c`) | `read_buffer`, `read_cnt` | read a line, split it, publish or subscribe | its own thread calls the API |
| Sample application (`main.c`) | the client object | `main`, the event callback | starts the command line *before* it connects |

What is hard here: three threads (main, command line, receive thread) share one
client object, one transmit buffer and one socket with no lock; handlers reply
before they report; a socket may be closed by a sender, by a disconnect or by
the receive thread while the others use it; a receive thread can outlive its
connection; the stream must be cut into packets whatever `recv()` returns;
identifiers are read byte by byte at hand-written offsets; and `read()` returns
what it likes.  `PROJECT.json` lists each hazard at its line with the properties
that would catch it, or a note that says why none does.

What makes each component correct:

* API: nothing but CONNECT opens a connection; nothing is sent on one that
  `mqttnox_disconnect` has closed (between its send and its close another thread's
  packet may follow the DISCONNECT); `mqttnox_is_connected` tells the truth; calls
  that do not compete for the counter take distinct identifiers.
* Packet construction: what is sent is the packet MQTT defines for the call (for
  PUBREL and PUBCOMP, for the identifier with its bytes exchanged), and it stays
  inside the transmit buffer.
* Handlers: one acknowledgement and one event per message, in order, naming the
  right message, in spite of requests, resets and reconnects; the event has the
  packet's own topic, payload and identifier, and the callback prints them.
* Receive path: each packet dispatched once, whole and in order.
* TAL: one receive thread per connection (none when `_beginthread` fails, which
  nobody notices), it ends with the connection, and nobody closes a connection
  that is not his.
* Command line: a line runs the command it names, once, with its own arguments.
* Remaining length: MQTT's encoding for every length; the decoder undoes it.

Not all of this holds of the code; the properties say when it does, the "violation"
runs and the list behind the table of runs when it does not.

## Modules

| Module | What it is |
| --- | --- |
| `Session` | The client object, its TAL and a broker, on whole packets: API calls, receive threads, handlers, resets and reconnects |
| `MCSession` | Values for `Session`'s constants |
| `Selected` | `Only`, the filter that `Session`'s history properties use |
| `SessionProofs` | TLAPS proofs about `Session` |
| `RemainLen` | The remaining-length encoder and decoder as a round trip |
| `MCRemainLen` | The lengths to try |
| `RemainLenProofs` | TLAPS proofs about `RemainLen` |
| `RcvFraming` | `mqttnox_tcp_rcv_func` on a byte stream that `recv()` cuts anywhere |
| `PacketReader` | What the receive path promises: an abstract reader of whole packets |
| `MCRcvFraming` | Streams for `RcvFraming` |
| `RcvFramingProofs` | TLAPS proofs about `RcvFraming` |
| `TxPath` | Every function that builds a packet, statement by statement, by several threads in one `mqttnox_tx_buf` |
| `MCTxPath` | Threads and calls for `TxPath` |
| `TxPathProofs` | TLAPS proofs about `TxPath` |
| `Tal` | The Windows TCP abstraction layer call by call, with its failures (its own run module) |
| `TalProofs` | TLAPS proofs about `Tal` |
| `Inbound` | The bytes the handlers read, and the callback of `main.c` |
| `MCInbound` | Packets for `Inbound` |
| `InboundProofs` | TLAPS proofs about `Inbound` |
| `CommandLine` | The command line thread: `read()`, the line buffer and the command handlers |
| `MCCommandLine` | Requests for `CommandLine` |
| `CommandLineProofs` | TLAPS proofs about `CommandLine` |
| `SequenceFacts` | What the proofs share: facts about numbers and sequences, and induction |

The modules meet where one takes for granted what another shows.  `Session` is
the composition: client, TAL, receive threads, broker and network on whole
packets.  `RcvFraming` shows when a piece of the stream is a sequence of whole
packets; `Inbound` starts from one whole packet in the buffer and shows what the
handlers read; `TxPath` opens the API call that is atomic in `Session`; `Tal`
opens the connect, send and close that are; `CommandLine` is a caller.

### Session

`Session` has the client's `flag_initialized`, `connected` and `packet_ident`,
the TAL's `ClientSocket` (`sock`: open, or dead: not connected or closed in this
process), one program counter per receive thread ever started (`rpc`), and the
shared `rcv_buf`.  A call is as many actions as it has effects that others can come
between:

* `mqttnox_connect` opens the socket and starts the receive thread
  (`mqttnox_connect_open`), then sends CONNECT (`mqttnox_connect_send`;
  `mqttnox_tal_windows.c:208`, `mqttnox.c:702`), or fails (`mqttnox_connect_fails`);
* `mqttnox_disconnect` sends, closes and clears `connected` (`mqttnox.c:1267`, `:1273`,
  `:1275`); when the send fails it ends there (`:1268`);
* a caller is told by `mqttnox_is_connected` (`told`) and calls later (`Request`), by
  when anything may have happened;
* a receive thread takes a packet (`tcp_receive`) and dispatches it, or sees the end
  of the connection (`tcp_receive_closed`) and closes whatever `ClientSocket` is by
  then (`tcp_close`).

`mqttnox_tcp_send` either hands the packet to TCP or fails and closes the socket, as
the code does; a send to a peer that is gone may still succeed.

A receive thread leaves its loop only when `recv()` returns 0.  One whose socket
was closed in this process, or reset by the peer, stays in the loop (`recv()` fails,
nothing happens) and, because `ClientSocket` is global, it reads the *next*
connection: `rpc` keeps it alive across connections, and `overlap` records that this
happened.  Nothing in `mqttnox_connect` asks whether a connection is open: connecting
over one replaces `ClientSocket` and abandons it (`Abandon`).  A thread that was in its
`recv()` stays there (`InRecv`, "stuck"; `old` is the data it may still get, `on` its
connection) until `tcp_receive_stray` brings it back; one that was elsewhere goes on
with the new connection.  `reopened` records that a connect replaced an open socket.

Identifiers are pairs of bytes.  The handlers of PUBREC and PUBREL read the
remaining length and the first identifier byte instead of the two identifier
bytes (`AckIdent`), and `mqttnox_pubrel` and `mqttnox_pubcomp` write the low byte
first (`SwappedBytes`); both are modelled as they are.  The CONNACK handler
reads its return code one byte beyond the packet: `dirty` says whether that
byte can be anything but the zero of a fresh buffer.

The broker and the network are external: the broker answers requests, delivers
`InMsgs` with the QoS of `InQos`, goes through the QoS 1 and 2 exchanges,
resumes them on a new connection, may refuse a connection or close it at any
time; the link may reset.  `wire`, `bsent`, `events`, `overlap`, `reopened`,
`localClose` and `cleanStart` are history variables: no action's guard reads them.

`CallerAsks` selects the application: one that asks `mqttnox_is_connected`
before each request, or one that does not, like the command line.

Assumptions: one packet per `recv()` (`RcvFraming` says when several in one
`recv()` behave the same);
an API call's buffer and counter accesses are not interleaved with another's
(`TxPath` says what holds when they are); one thread connects and disconnects, as
`main` does; `malloc()` and `_beginthread`, the last steps of `mqttnox_tcp_connect`,
succeed, and no `WSACleanup` is one too many (`Tal` has those failures); on an
abandoned connection the broker sends no more, and what it has not read of it is
lost; `mqttnox_init` is called once, as its comment asks.  A QoS 0 PUBLISH has no
identifier on the wire; in the model its `id` only names the message.

### RemainLen

`mqttnox_set_remain_len` is translated branch by branch with its masks and
shifts as arithmetic (`Bits7`, `Bits14`, `Bits21` keep the overlapping bits the
masks keep, `Continued` is the OR of the continuation bit) and the truncation of
a byte store.  The decoder's loop is the first byte without a continuation bit
(`Ends`), unless the loop has given up by then.  The program has the two ends, a
caller of the encoder (`mqttnox.c:780`) and the receive function (`:143`); the round
trip puts them together.

### RcvFraming

One receive thread, `rcv_buf` and `rcv_offset`, and the local variables of
`mqttnox_tcp_rcv_func`.  A byte of the stream is the pair of its packet and its
position in it, so that reading stale, shifted or cleared bytes shows; a cleared
byte is `Zero`.  `recv` puts any number of bytes behind `rcv_offset`; one action
per outcome of a loop iteration follows: a header with its length field
(`parse_packet`, dispatched whether or not the rest is there, as the empty branch
"Packet incomplete" has it), a header whose length field reads as zero
(`parse_short`), cleared bytes (`parse_zero`), bytes that are no header
(`parse_other`), a read past the buffer (`parse_beyond`).  Then the left-over
bytes are kept (`keep_rest`) or there are none (`no_rest`).  `left` is unsigned
(`Minus`).  What the code does after it has misread bytes as a header, or past
the buffer, depends on values the model does not have: these phases ("lost",
"beyond") are absorbing, and only properties that already failed can see more.

The code frames correctly when the transport is kind, and `CleanCut` says how
kind it must be: each `recv()` returns whole packets, and what follows a packet in
it is nothing or at least as many bytes as that packet's remaining length (the
loop compares `left` with the length of the packet it has *just* handled).
`FramedWhenClean` holds on any stream until the first piece that is not clean;
up to there the code implements `PacketReader` (`ImplementsReader`; from there on
the mapping stands still, which the reader may do between two pieces).  This is
what `Session` takes for granted.

Assumptions: lengths are scaled down (a length field has the number of bytes the
constants say, up to the three the decoder accepts); every packet has a remaining
length of at least 2, which holds of all a broker sends this client (PINGRESP
would have 0, but no PINGREQ is sent); a `size_t` is much larger than the buffer.

### TxPath

An API or reply function is its list of statements on the transmit buffer
(`Program`): clear it, put the fields, store the length, put the header, send.
CONNECT, UNSUBSCRIBE and DISCONNECT put the header first, at byte 0, and store the
length in one byte at the end; the others leave five bytes free and write length
and header backwards in front of the fields.  Each statement is an action, so two
threads interleave between any two; `c->packet_ident` is read for each of its
bytes and once more by the increment, which reads and writes in two steps.
`mqttnox_append_utf8_string` takes `strlen` of the buffer before it copies
(`Measure`, `Copy`): what another call left at that place shifts the string, and
`pkt_len` does not count the shift.  A write beyond the buffer sets `outside` and
stops the model.  `alone` says that no other call overlapped this one, `solo`
that no other call taking an identifier did.

`Intact` compares what a call that was alone has sent with the packet MQTT
defines (`PacketOf`, written without regard to the code's offsets), after any
clashes before it.  It has three exceptions, which the code is known to make: an empty
client identifier, topic, will topic or will message is left out instead of sent as an
empty string (`NoString`); a CONNECT or UNSUBSCRIBE of more than 127 bytes has
a wrong length (`OneByteLength`); and PUBREL and PUBCOMP have the low byte of the
identifier first where MQTT wants the high one (`mqttnox.c:1146`, `:1206`), so that
they are the packets of another identifier (`Exchanged`, `Named`).  While calls overlap
nothing is promised: torn packets and equal identifiers are reachable.

`IdentsDistinct` speaks of the calls that take an identifier and are overlapped by no
other such call: no two of them take the same one.  It says nothing of a call that
overlapped another.  Two of those may share an identifier, and when one of them loses
the other's increment, it sets the counter back, so that a later call, also one that
is alone, repeats an identifier that an overlapping call had taken.

A NULL string is an empty one, except as a client identifier, where NULL is refused
and the empty string accepted (`NULL`, `mqttnoxlib_validate_device_id`).

Lengths are scaled: a length byte holds less than `LenBase`, an identifier byte
less than `IdentBase`; CONNECT's constant ten-byte variable header is two bytes.
A QoS in a topic or a message is at most 2, as its type has it.

### Tal

The sockets `socket()` makes, `WSAStartup` calls without their `WSACleanup`
(`wsa`), and where each actor stands: the application in `mqttnox_tcp_connect` or
`mqttnox_disconnect`, the command line thread in `mqttnox_tcp_send`, and one
receive thread per connection.  Each Winsock call is a step, each can fail, and
every use of `ClientSocket` reads the global again.  The application may connect
over an open socket, and disconnect without one: the send fails then, and
`WSACleanup` is called all the same.  `_beginthread` can fail like the rest, but
`mqttnox_tcp_connect` returns 0 then, too: the connection's thread is "absent".
`connect_connect` fails without undoing anything, and the last `WSACleanup` closes every socket, as Winsock does.  `crossed` records the one
way the layer closes a healthy connection by mistake: a connect replaced an open
socket, or was under way while another actor was between a failed `send()` or a
`recv()` of 0 and its `closesocket(ClientSocket)`.

### Inbound

One packet at a time, byte by byte, in a `rcv_buf` that keeps the bytes of earlier
packets; the handlers read it at their offsets (`data(i)`), and `evt.topic` and
`evt.payload` are offsets because in C they are pointers into that buffer.
`payload_len` is a `uint16_t` (`WordMod`).  The callback of `main.c` copies into
two buffers, of which it clears only `topic`: `MEMZERO(data)` clears the size of a
pointer.  A copy past a buffer is the absorbing phase "beyond".  A message that fills
a buffer to its last byte leaves no zero for `printf("%s")` to stop at: the absorbing
phase "unended" (`Ended`).  What the QoS 0
event says of an identifier is an uninitialized variable and left out.  Numbers are
scaled: `LenBase` 8, `WordMod` 64, buffers of 4 and 16 bytes.

### CommandLine

`read()` returns a line, any part of one, the end of one with other lines and the
beginning of another behind it (a pipe), or nothing.  `Ahead` bounds the lines that
one `read()` returns whole before the one it ends in.  It is given the address of
`read_buffer[read_cnt]` and the size of the whole buffer; `read_cnt` becomes the
number of characters this one call returned.  So a line that comes alone and in one
piece is handled and everything else puts the thread out of step, until an end of line
happens to stand where it looks and the buffer is cleared.  `inStep` follows this:
`LineHandled` and `StaysInBuffer` speak of lines read from a clear buffer, also
one that was cleared after a time out of step; `OncePerNewline` of all input.  The
read before the buffer, a `read()` past its end and arguments without an end are
the phase "beyond".  An uninitialized QoS is any value in `Garbage`, an uninitialized
topic any in `GarbageText`.  A command's name is one character and a number one digit;
`Asked` states what a request means from its words, not from the buffer.

## Runs

| Run | Expect | Shows |
| --- | --- | --- |
| `SessionRequests` | pass | two requests of any kind, sent at any time, under way together with a QoS 0 and two QoS 1 messages: publish events match what was sent, and messages are received and acknowledged, one for one and in order |
| `SessionReconnect` | pass | over two connections with resets, closes, failed sends and connects, connects over an open socket, and disconnects: a clean connection's handshake comes first, two receive threads only after a local close or such a connect, silence once `mqttnox_disconnect` has closed; messages arrive, and a close by the broker is noticed |
| `RcvFraming` | pass | on a stream cut anywhere, packets are dispatched once, whole and in order as long as the pieces are clean, the call returns, and the loop implements `PacketReader`, fairness included |
| `RemainLen` | pass | encoder and round trip around every size class |
| `TxPath` | pass | a call that is alone sends the right packet and stays inside the buffer whatever clashed before it; calls that are alone in drawing an identifier never draw the same one, also after a lost increment |
| `Tal` | pass | a live connection is closed on purpose only, is served by its thread, and the wait for that thread returns, or why not |
| `Inbound` | pass | events and replies have this packet's fields, whatever earlier packets left; what the callback prints, and that its copies fit |
| `CommandLine` | pass | lines that `read()` returns alone and whole run what was entered, also after the thread is back in step; no end of a line runs two commands, however lines are cut or joined |
| `RcvIncomplete` | violation | a packet split over two `recv()` calls is dispatched incomplete |
| `SessionRefused` | violation | a refused connection is reported as MQTTNOX_EVT_CONNECT |
| `SessionPubrel` | violation | PUBREL names no publication |
| `InboundPayload` | violation | the event of a QoS 0 message lacks the last two bytes of its payload |

A "violation" run checks one statement of the code's own comments or names that
the code does not keep; `findings` in `PROJECT.json` quotes it.

More behaviours show in the state spaces and have no run of their own:

* `status.connected` stays 1 when the connection goes (`mqttnox.c:1324` says "Checks
  whether the MQTT is currently connected"), which is why `HandshakeOrder` speaks of
  connections opened with it cleared.
* A QoS 2 message sent again on a resumed session reaches the callback again, which
  `ReceivedInOrder` allows for.
* A caller that does not ask may publish before CONNECT is sent.
* A packet of another thread, the PUBACK of a receive thread for one, can follow the
  DISCONNECT, between the send and the close of `mqttnox_disconnect`
  (`SilentAfterDisconnect` excepts that window).
* After `mqttnox_disconnect`, a failed send or a reset, the receive thread never ends:
  it calls `recv()` on a dead socket for ever.  `PeerCloseNoticed` and `WaitReturns`
  except it.
* A connect over an open or reset socket leaves the old connection's thread beside the
  new one's (`OneReceiver`, `overlap`).
* When `_beginthread` fails, the connection is open, nobody reads it, and
  `mqttnox_wait_thread` waits on no thread ("absent" in `Tal`).
* A whole packet left over behind a longer one is lost: the rest is copied from
  `rcv_offset`, which is its length (`keep_rest`).
* The decoder gives up on the four-byte lengths the encoder writes (`RoundTrip` ends
  at three bytes).
* SUBACK's return code and CONNACK's session_present are read from neighbouring
  bytes (`Inbound` has the reads as they are).
* Torn packets, equal identifiers, identifiers repeated after a lost increment,
  CONNECT's left-out empty strings and one-byte length, and the exchanged bytes of
  PUBREL and PUBCOMP (see `TxPath`).
* The counter of identifiers wraps to 0, which MQTT does not allow.
* A receive thread or a failed send can close a newer connection (`crossed` in `Tal`).
* The end of an earlier, longer payload is printed behind a shorter one
  (`PrintedRight`), and the payload length of a QoS 0 message shorter than two bytes
  wraps round to nearly 65536, which the callback copies; a message that fills a
  buffer is printed on behind it (`CopiesFit`).
* A line typed into a terminal that returns single characters never runs, of several
  lines in one `read()` the first runs with the rest as its arguments or none does, and
  a line after an end of file is lost (see `CommandLine`).

Bounds.  `ByteBase` 3 is the smallest base in which a byte can hold the
remaining length 2; `FirstIdent` <<0, 2>> makes the second identifier carry into
the high byte.  `MaxConn` 2 is the fewest connections for a stray receive thread
to meet a second one and for a session to be resumed; `MaxReq` 2 lets two
publications be unacknowledged together, and three messages let deliveries of
different QoS overlap and two of QoS 1 be acknowledged in order (`SessionRequests`).
`SessionReconnect` has one QoS 2 message, whose exchange a reset, a disconnect or a
reconnect can cut at every step, and one request, which a caller may make on an old
answer.  Both runs compare states by a view (`Ordered`, `Handshake` in `MCSession`): what
later steps can still look at (`Ahead`), and what the properties of the run look at in
the histories, which no action reads.  Two states with the same view take the same steps
to states with the same view and satisfy the same properties, so nothing is missed.
`MCLensAll` has every length up to 300 and
the seven around each class boundary.  `Stream7` has seven packets of different lengths, fields
of one and two bytes, a packet exactly as long as the remaining length before it
(the boundary of the loop's comparison); `BufSize` 16 is less than the stream, so
that the buffer fills.  `Stream3` is the shortest stream with a short packet behind
a long one.  `TxPath`: four calls (`MaxCalls`) are the fewest in which two lose an
increment and two follow alone; `IdentBase` 3 and `FirstIdent` 7 make the counter carry
and wrap with more identifiers than calls; the view `Judged` leaves out what was sent
and keeps whether it was right; `LenBase` 12 puts the
second length byte within reach, and `BufSize` 18 is filled to its last byte by one
call and exceeded by another.  `Tal`: `MaxSock` 2 is an old and a new connection;
the counts of `WSAStartup` and `WSACleanup` reach their differences with them.
`Inbound`: `MaxPackets` 3 lets an earlier packet be longer, a later one shorter, and
a third follow; topics and payloads go from one byte, or none, over those that fill
`AppBuf` exactly to those it does not hold (a QoS 0 payload of 6 counts as 4), and over
the first length byte.  `CommandLine`: four calls of `read()` (`MaxReads`) let the thread
fall out of step, leave arguments without an end, or come back and handle a line;
requests fill the nine characters of the buffer (`BufLen`) and exceed them; `Ahead` has
no line, one, and two of which the second is empty.  Deadlock is not checked: the
application may stop, connections, requests, calls, packets and input are bounded,
the "beyond" and "unended" phases are absorbing, and a round trip ends.

Fairness (`FairSpec`): weak fairness of each receive thread's step, because the
operating system schedules a thread that can run, and of the second half of
`mqttnox_connect`, which nothing blocks; in `RcvFraming`, of the callback's steps
(`Return`), because nothing in it waits; in `Tal`, of each receive thread, its
sends included.  Nothing makes the application, the
broker or the network act.

## Theorems

Every invariant and action property that a passing run checks is also proved, for
all values of the constants that meet the assumptions named in the modules.
`PROJECT.json` lists the theorems with the properties they state.

### Assumptions

* `Session`: `ByteBase` > 2; identifiers and messages are pairs of bytes.
* `RemainLen`: the lengths are natural numbers.
* `RcvFraming`: lengths of one to three bytes, remaining lengths of at least 2, a
  stream of packets one after the other, a `size_t` more than twice as large as
  what it has to count (the buffer and a packet).
* `TxPath`: `LenBase` between 2 and 256, a buffer of more than 5 and fewer than
  `LenBase`^2 bytes, every call one of `Call`.  `IdentsNeverRepeat` has the
  hypothesis `MaxCalls < IdentMod`: with as many calls as identifiers the counter
  comes round (the run has 4 calls and 9 identifiers).
* `Tal`: any number of sockets.
* `Inbound`: the packets are a broker's (`Packet`) and fit into `rcv_buf`; its
  `LenBase` is more than 2 and the buffer no larger than `LenBase`^2, so that a
  length field has one byte or two; `WordMod` exceeds the buffer, and `AppBuf` by
  more than 2 (a `uint16_t`, 4096 and 256 bytes in the code).
* `CommandLine`: the special characters are among the characters, requests are made
  of words, a word holds no delimiter and starts with a digit only when it is one
  digit; `read_cnt` can count the buffer; there is something an uninitialized variable
  may hold (`Garbage`, `GarbageText`), and `Ahead` has sequences of requests.

`ByteBase`, `LenBase` and `IdentBase` are 128 or 256 in the code, which the
assumptions allow, so the theorems hold of the code's own numbers as well as of the
smaller ones that TLC checks.  The limit on the buffers is then 16384 bytes; the
library's have 256 (send) and 4096 (receive).

### Sequences

Many properties compare a history with another, or a buffer with a text, through
a filter (`Only`), a concatenation (`FlattenSeq`) or the cutting of a string into
words (`Words`).  The library's induction theorems take an operator as a parameter,
which the provers cannot instantiate; `SequenceFacts` goes round that:
`LeastNumber` and `SetInduction` speak of a *set* of numbers.  A definition by
recursion is first shown to have a solution at each length (`PicksExist`,
`FlattenExist`, and `TakesExist` in `CommandLineProofs`), which then gives what it
makes of an empty sequence, of one more element (`OnlyAppend`, `FlattenMore`,
`WordsAppend`) and of a concatenation (`OnlyConcat`, `FlattenConcat`).

### Session

* `TypeCorrect`: `TypeOK` is inductive as it stands (`TypeParts` splits it into flags
  and values for the provers).  What it needs of the code is that the identifier stays
  two bytes through the carry.
* `DisconnectLast` (`SilentAfterDisconnect`): the inductive invariant
  `DisconnectCloses` adds that the socket of a DISCONNECT is dead, or
  `mqttnox_disconnect` about to close it; a dead socket stops every sender, handlers
  included, and only a connect, which begins a new `wire`, opens it.
* `LeakCause` (`OneReceiver`): the inductive invariant `OwnReceiver` relates the threads
  to the connections: without a local close and without a connect over an open socket,
  at most the newest thread lives, and none while the socket is dead.
* `ConnectBeforeRequests`: the inductive invariant `Handshake` follows a cleanly
  opened connection through its phases: before CONNECT nothing is on the wire and
  nothing in the buffers can set `connected` (`ConnectFirst`); until the broker has
  answered there is no CONNACK anywhere, no caller has been told yes, and no thread
  still reads an older connection (`Quiet`).
* `ReceivedOrder`, `AcksOrder`, `PublishedOrder`: the final histories say nothing
  of what is under way, so each inductive invariant adds it.  `Coming` is the packet
  a receive thread has taken and the ones in flight behind it.
  `ReceivedSoFar`: what the callback got, then what is coming, is what was sent.
  `AckedSoFar`: the acknowledgements on the wire, then those the coming messages
  will cause, are the ones due.  `PublishedSoFar`: the confirmed publications, those
  whose PUBACK is coming and those the broker is still to read are the ones the
  client sent.  A reset cuts the tail of what is coming, so each is an equation
  before it and a prefix after it.  `OneAtATime` and `PastEvents` say that no other
  thread and no later connection interfere.  Every step is one of eight `Moves` on
  these queues, so the three proofs go over eight cases instead of every action.

### RemainLen

`EncoderCorrect` holds for every length up to 268435455 and
`RoundTripCorrect` up to 2097151: the four size classes are computed
(`Encoded1` to `Encoded4`), a field of each length is well formed and has its
value (`Field1` to `Field4`), and the decoder stops at the last byte of a
well-formed field of at most three bytes (`DecodesField`).

### RcvFraming

`FramingCorrect` holds for every stream, buffer and way of
cutting.  The inductive invariant `Framing` adds to the property what the loop
needs in its middle (`Parsing`): the buffer holds the end of what was read, the
loop stands on a packet boundary, `left` is the distance to the end of the data,
everything before the boundary is dispatched, and the rest is clean.
`PacketAhead` derives that the next packet is there to its last byte,
`OnlyThatPacket` that no other branch of the loop can run.

`RcvTypeCorrect` has a loop invariant of its own (`Loop`), because offset and
length stay within the buffer on dirty pieces too.  `ReaderImplemented` is the
refinement: the initial state of `RcvFraming` is one of `PacketReader`, and each
step is a step of the reader or leaves its mapped state alone.

### TxPath

* `TxTypeCorrect`: besides the types, what is left of a call (`todo`) is a sequence
  of statements in the order `Program` gives them, with `send` last (`Programs`).
* `IdentsNeverRepeat`: the invariant measures an identifier by its `Age`, the
  increments since the first one.  Every increment, made or begun, belongs to a call
  of its own, so ages do not wrap (`Increments`); identifiers drawn by calls that
  were alone in drawing have different ages, all less than the counter's and none
  more than that of an increment under way, whose store may set the counter *back*
  when calls overlap (`Drawn`).
* `PacketsIntact`, `WritesInside`: a call that is alone takes the identifier it
  began with (`OwnIdent`), finds nothing behind its cursor (`NoGap`), and is at a
  `Stage` of its packet: the fields put and those still to be put by the remaining
  statements make up what it writes (`Filling`), the length field stands in
  front of them (`Ready`), the header is there (`Complete`).  `Content` is what a
  list of statements will put, by which `Fields` is compared with the packet MQTT
  defines; `MadeIs` shows them equal but for an empty string and a one-byte length,
  and, with `Named`, for the exchanged identifier bytes of PUBREL and PUBCOMP.

### Tal

`TalTypeCorrect`, `ConnectionServed` (`Served`) and `OnlyOnPurpose`
(`ClosedOnPurpose`).  The inductive invariant follows who holds what: every actor
is where its calls may leave it (`Places`); a thread belongs to a socket that was
made, and the thread of the current socket ends only when that is closed
(`Threads`); an open socket holds a `WSAStartup` (`Counted`); unless connects
crossed, only the current socket is open (`OneOpen`), and while its peer is there
nobody is about to close it or to take its last `WSAStartup` (`NoneLate`).

### Inbound

`InboundInv`: while a packet is handled it lies at the beginning of `rcv_buf`
(`Handling`), the event is what its handler reads there (`Announced`), and the
callback's payload buffer is clear behind the longest payload so far (`Zeroed`); a
buffer without a zero is printed in no state but "unended".
`PublishFields` and `AckFields` compute the handlers' offsets from the bytes of the
packet (`BytesAre`), whatever lies behind it.  From it follow `InboundTypeCorrect`,
`PublishReadRight`, `PublishFoundRight`, `AckReadRight`, `PrintedAsSent` and
`CopiesStayInside`.

### CommandLine

`CmdInv`: a thread in step has a clear buffer before it reads and exactly the line
(`Holds`) after (`InStep`); what is left of a line being read ends with its only end of
a line (`LeftOver`); `InputIs` and `ReturnedIs` say what one `read()` returns, whole lines and
a part of one behind them; at most one end of a line in the buffer has not run a
command (`Pending`).  `LineHolds` gives the name and the arguments the thread finds in such
a buffer, `WordsWord` and `SpacedIs` the words in the arguments, and `Handled` the
call they make.  From it follow `CommandLineTypeCorrect`, `LinesHandled`,
`CommandsOncePerNewline` and `ThreadStaysInBuffer`.

### Only model-checked

* Liveness, which the proof system does not cover: `MessageArrives`,
  `PeerCloseNoticed`, `CallReturns`, `WaitReturns`, and the fairness that
  `ImplementsReader` includes (`ReaderImplemented` is the rest of it).
* The "violation" runs: TLC's counterexample is the result.

## Plan

Done: `Session`, `RemainLen`, `RcvFraming` with `PacketReader`, `TxPath`, `Tal`,
`Inbound` and `CommandLine`, each model-checked and proved.  Left, in order of
importance:

1. An abstract specification of at-least-once delivery for a QoS 1 message, with
   `Session` shown to implement it.
2. The hazards without a property: what a broker reads of a CONNECT that lacks an
   empty string (`mqttnox.c:665`), the return code of SUBACK (`mqttnox.c:489`), and
   bytes left over from the connection before (`mqttnox_tal_windows.c:256`).
3. Shorter proofs: the field statements of `TxPath` and the order properties of
   `Session` take the provers longest.

## Not modelled

Debug printing and its levels, the unimplemented generic command line library,
and the configuration, version and error headers have no behaviour the others
depend on.  PINGRESP's handler is unreachable: the client never sends PINGREQ, so
no broker sends the answer.  `keepalive` is stored and sent, and no timer uses it.
What a read or write outside a buffer goes on to do is not modelled: the models
stop there.  Bytes left in `rcv_buf` when a connection ends and the next begins are
not carried over (`rcv_offset` is not reset): `RcvFraming` follows one connection.
The API functions' checks of `flag_initialized` are in `Session`; `TxPath` starts
after `mqttnox_init`.
