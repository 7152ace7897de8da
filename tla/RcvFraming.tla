----------------------------- MODULE RcvFraming -----------------------------
(***************************************************************************)
(* How mqttnox_tcp_rcv_func cuts what recv() returns into packets: one     *)
(* receive thread, its buffer, and a byte stream that TCP may hand over in *)
(* pieces of any size.  A byte of the stream is <<packet, position>>, so   *)
(* that a handler that reads anything but its own packet can be seen; a    *)
(* byte never written or cleared by memset is Zero.                        *)
(*                                                                         *)
(* The broker sends packets 1, 2, ...  Packet k is a header byte, Lb[k]    *)
(* bytes of remaining length and Rem[k] further bytes.  No packet a broker *)
(* sends to this client has Rem below 2 (only PINGRESP has, and the client *)
(* never asks for one).                                                    *)
(***************************************************************************)
EXTENDS Integers, Sequences, FiniteSets

CONSTANTS
  N,        \* number of packets the broker sends
  Lb, Rem,  \* their remaining-length bytes and remaining lengths
  Stream,   \* the bytes of all of them, in order
  BufSize,  \* c->rcv_buf_size (4096 in the code)
  SizeMod   \* the number of values of a size_t

Size(k) == 1 + Lb[k] + Rem[k]
Zero == <<0, 0>>

ASSUME PacketAssumption ==
  /\ N \in Nat /\ Lb \in [1 .. N -> 1 .. 3] /\ Rem \in [1 .. N -> Nat \ {0, 1}]
ASSUME StreamAssumption ==
  /\ Stream \in Seq((1 .. N) \X Nat)
  /\ Stream # <<>> => Stream[1] = <<1, 1>>
  /\ \A j \in 1 .. Len(Stream) :
       LET k == Stream[j][1]  i == Stream[j][2]
       IN /\ i \in 1 .. Size(k) /\ j >= i /\ j - i + Size(k) <= Len(Stream)
          /\ \A x \in 1 .. Size(k) : Stream[j - i + x] = <<k, x>>
          /\ i = Size(k) /\ j < Len(Stream) => Stream[j + 1] = <<k + 1, 1>>
ASSUME BufAssumption ==
  /\ BufSize \in Nat \ {0} /\ SizeMod \in Nat /\ SizeMod > 2 * BufSize
  /\ \A k \in 1 .. N : SizeMod > 2 * (BufSize + Size(k))

VARIABLES
  phase,          \* "recv", "parse" (in the loop), "exit" (after it), or, for
                  \* good, "lost" (a header read inside a packet) or "beyond"
                  \* (a read past the end of rcv_buf)
  pos,            \* bytes of Stream recv() has returned
  rcv_buf, rcv_offset,          \* c->rcv_buf and c->rcv_offset
  len, offset, left, remain_length,  \* mqttnox_tcp_rcv_func's variables
  handled,        \* history: packets dispatched, whether they were whole, and
                  \* whether all pieces were clean so far
  clean           \* history: recv() has returned nothing but clean pieces

locals == <<len, offset, left, remain_length>>
vars == <<phase, pos, rcv_buf, rcv_offset, locals, handled, clean>>

----------------------------------------------------------------------------
\* After b bytes the stream is between two packets.
Boundary(b) == b > 0 => Stream[b][2] = Size(Stream[b][1])

\* A piece is clean when it is made of whole packets and no packet in it is
\* followed by fewer bytes than its own remaining length, unless by none.
CleanCut(b, n) ==
  /\ Boundary(b) /\ Boundary(b + n)
  /\ \A j \in b + 1 .. b + n - 1 :
       Boundary(j) => b + n - j >= Rem[Stream[j][1]]

\* recv() into the buffer from rcv_offset on.
recv(n) ==
  /\ phase = "recv"
  /\ rcv_buf' = [j \in 0 .. BufSize - 1 |->
                   IF j \in rcv_offset .. rcv_offset + n - 1
                   THEN Stream[pos + 1 + j - rcv_offset] ELSE rcv_buf[j]]
  /\ pos' = pos + n
  /\ len' = rcv_offset + n /\ left' = rcv_offset + n
  /\ offset' = 0 /\ remain_length' = 0
  /\ phase' = "parse"
  /\ clean' = (clean /\ CleanCut(pos, n))
  /\ UNCHANGED <<rcv_offset, handled>>

Holds(k, i) == offset + i - 1 < BufSize /\ rcv_buf[offset + i - 1] = <<k, i>>

\* The bytes a packet takes: remain_length, the header, the length field.
Consumed_NoHeader(rem, lb) == rem + lb
Consumed(rem, lb) == rem + 1 + lb

\* while (left >= remain_length)
Continues_Strict(l, rem) == l > rem
Continues(l, rem) == l >= rem

\* left is unsigned.
Minus(a, b) == IF b <= a THEN a - b ELSE a + SizeMod - b

\* The end of one iteration.
Advance(rem, lb) ==
  /\ offset' = offset + Consumed(rem, lb)
  /\ left' = Minus(left, Consumed(rem, lb))
  /\ remain_length' = rem
  /\ phase' = IF Continues(left', rem) THEN "parse" ELSE "exit"
  /\ UNCHANGED <<pos, rcv_buf, rcv_offset, len, clean>>

Dispatched == [pkt : 1 .. N, whole : BOOLEAN, clean : BOOLEAN]

\* Packet k's handler runs, on whatever stands where its bytes belong.
Dispatch(k) ==
  handled' = Append(handled,
               [pkt |-> k, whole |-> \A i \in 1 .. Size(k) : Holds(k, i),
                clean |-> clean])

\* The header and the length field of a packet: the branch "Packet incomplete"
\* is empty, so that the packet is dispatched whole or not.
parse_packet(k) ==
  /\ phase = "parse"
  /\ \A i \in 1 .. 1 + Lb[k] : Holds(k, i)
  /\ Dispatch(k)
  /\ Advance(Rem[k], Lb[k])

\* A cleared header: "Packet Type Error", and a remaining length of zero.
parse_zero ==
  /\ phase = "parse" /\ offset + 1 < BufSize
  /\ rcv_buf[offset] = Zero /\ rcv_buf[offset + 1] = Zero
  /\ Advance(0, 1)
  /\ UNCHANGED handled

\* A header whose length field is not there and reads as zero.
parse_short(k) ==
  /\ phase = "parse"
  /\ Holds(k, 1) /\ offset + 1 < BufSize /\ rcv_buf[offset + 1] = Zero
  /\ Dispatch(k)
  /\ Advance(0, 1)

\* Anything else in the buffer is read as a header and a length field: what
\* follows depends on the values of the bytes.
parse_other ==
  /\ phase = "parse" /\ offset + 1 < BufSize
  /\ ~\E k \in 1 .. N : \A i \in 1 .. 1 + Lb[k] : Holds(k, i)
  /\ rcv_buf[offset + 1] = Zero =>
       rcv_buf[offset] # Zero /\ ~\E k \in 1 .. N : Holds(k, 1)
  /\ IF \E k \in 1 .. N : Holds(k, 1) THEN Dispatch(rcv_buf[offset][1])
     ELSE UNCHANGED handled
  /\ phase' = "lost"
  /\ UNCHANGED <<pos, rcv_buf, rcv_offset, locals, clean>>

parse_beyond ==
  /\ phase = "parse" /\ offset + 1 >= BufSize
  /\ phase' = "beyond"
  /\ UNCHANGED <<pos, rcv_buf, rcv_offset, locals, handled, clean>>

\* After the loop.  The rest is copied from rcv_offset, which is its length,
\* and the remainder of the buffer is cleared.  (The rest is shorter than the
\* packet dispatched last, so that the copy stays within the buffer.)
keep_rest ==
  /\ phase = "exit" /\ offset < len
  /\ rcv_offset' = len - offset
  /\ rcv_buf' = [j \in 0 .. BufSize - 1 |->
                   IF j < left THEN rcv_buf[rcv_offset' + j] ELSE Zero]
  /\ phase' = "recv"
  /\ UNCHANGED <<pos, locals, handled, clean>>

OffsetAfterAll_Kept == rcv_offset + len
OffsetAfterAll == 0

no_rest ==
  /\ phase = "exit" /\ offset >= len
  /\ rcv_offset' = OffsetAfterAll
  /\ phase' = "recv"
  /\ UNCHANGED <<pos, rcv_buf, locals, handled, clean>>

Init ==
  /\ phase = "recv" /\ pos = 0
  /\ rcv_buf = [j \in 0 .. BufSize - 1 |-> Zero] /\ rcv_offset = 0
  /\ len = 0 /\ offset = 0 /\ left = 0 /\ remain_length = 0
  /\ handled = <<>> /\ clean = TRUE

Receive == \E n \in 1 .. BufSize - rcv_offset :
             n <= Len(Stream) - pos /\ recv(n)

Return ==
  \/ \E k \in 1 .. N : parse_packet(k) \/ parse_short(k)
  \/ parse_zero \/ parse_other \/ parse_beyond
  \/ keep_rest \/ no_rest

Next == Receive \/ Return

Spec == Init /\ [][Next]_vars

\* The callback, once called, is run by its thread.
FairSpec == Spec /\ WF_vars(Return)

----------------------------------------------------------------------------
(* Properties                                                              *)

Phase == {"recv", "parse", "exit", "lost", "beyond"}

TypeOK ==
  /\ phase \in Phase
  /\ pos \in 0 .. Len(Stream)
  /\ rcv_buf \in [0 .. BufSize - 1 -> (0 .. N) \X Nat]
  /\ rcv_offset \in 0 .. BufSize - 1
  /\ len \in 0 .. BufSize /\ offset \in Nat /\ left \in 0 .. SizeMod - 1
  /\ remain_length \in Nat
  /\ handled \in Seq(Dispatched)
  /\ clean \in BOOLEAN

\* Packets of the stream that end within its first b bytes, b a boundary.
PacketsIn(b) == IF b = 0 THEN 0 ELSE Stream[b][1]

Right(i) == [pkt |-> i, whole |-> TRUE, clean |-> TRUE]

\* As long as recv() returns clean pieces, every packet is dispatched once,
\* whole and in order, all bytes of a piece are dealt with before the next
\* recv(), and the loop never leaves the bytes it was given.
FramedWhenClean ==
  clean =>
    /\ phase \notin {"lost", "beyond"} /\ rcv_offset = 0
    /\ \A i \in 1 .. Len(handled) : handled[i] = Right(i)
    /\ phase = "recv" => Boundary(pos) /\ Len(handled) = PacketsIn(pos)

\* A call of mqttnox_tcp_rcv_func on a clean piece returns to recv().
CallReturns == (phase = "parse" /\ clean) ~> phase = "recv"

\* Up to the first piece that is not clean, the byte-level code is the
\* packet-level reader, its progress included; from there on the mapping stands
\* still, which the reader may do between two pieces only.
ReaderDone == Cardinality({i \in 1 .. Len(handled) : handled[i].clean})
ReaderTaken == IF clean THEN PacketsIn(pos) ELSE ReaderDone
Reader == INSTANCE PacketReader WITH taken <- ReaderTaken, done <- ReaderDone
ImplementsReader == Reader!Spec

----------------------------------------------------------------------------
(* What the comments say and the code does not do (checked to be violated) *)

\* "Packet incomplete": a packet is dispatched only when all of it is there.
OnlyWholePackets == \A i \in 1 .. Len(handled) : handled[i].whole
=============================================================================
