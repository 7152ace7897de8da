-------------------------- MODULE RcvFramingProofs --------------------------
(***************************************************************************)
(* On clean pieces, mqttnox_tcp_rcv_func dispatches every packet of any    *)
(* stream once, whole and in order, whatever the sizes of the packets, of  *)
(* the pieces and of the buffer.                                           *)
(***************************************************************************)
EXTENDS RcvFraming, SequenceFacts, FiniteSetTheorems

\* The size of a packet and of its parts.
LEMMA SizeType ==
  ASSUME NEW k \in 1 .. N
  PROVE  /\ Lb[k] \in 1 .. 3 /\ Rem[k] \in Nat /\ Rem[k] >= 2
         /\ Size(k) \in Nat /\ Size(k) = 1 + Lb[k] + Rem[k]
<1>1. Lb[k] \in 1 .. 3 /\ Rem[k] \in Nat \ {0, 1}
  BY PacketAssumption
<1> QED
  BY <1>1 DEF Size

\* What StreamAssumption says of one byte.
LEMMA ByteOfPacket ==
  ASSUME NEW j \in 1 .. Len(Stream), NEW k, NEW i, Stream[j] = <<k, i>>
  PROVE  /\ k \in 1 .. N /\ i \in 1 .. Size(k) /\ j >= i
         /\ j - i + Size(k) <= Len(Stream)
         /\ \A x \in 1 .. Size(k) : Stream[j - i + x] = <<k, x>>
         /\ i = Size(k) /\ j < Len(Stream) => Stream[j + 1] = <<k + 1, 1>>
<1>1. Stream[j] \in (1 .. N) \X Nat
  BY StreamAssumption
<1>2. Stream[j][1] = k /\ Stream[j][2] = i
  OBVIOUS
<1>3. k \in 1 .. N
  BY <1>1, <1>2
<1> QED
  BY <1>2, <1>3, StreamAssumption

\* The byte after a boundary is the header of the next packet.
LEMMA NextHeader ==
  ASSUME NEW b \in 0 .. Len(Stream) - 1, Boundary(b)
  PROVE  Stream[b + 1] = <<PacketsIn(b) + 1, 1>>
<1>1. CASE b = 0
  <2>1. Stream # <<>>
    BY <1>1
  <2> QED
    BY <1>1, <2>1, StreamAssumption DEF PacketsIn
<1>2. CASE b # 0
  <2>1. b \in 1 .. Len(Stream) /\ b < Len(Stream)
    BY <1>2, StreamAssumption
  <2>0. Stream[b] \in (1 .. N) \X Nat
    BY <2>1, StreamAssumption
  <2>2. PICK k \in 1 .. N, i \in Nat : Stream[b] = <<k, i>>
    BY <2>0
  <2>3. i = Size(k) /\ PacketsIn(b) = k
    BY <1>2, <2>1, <2>2 DEF Boundary, PacketsIn
  <2> QED
    BY <2>1, <2>2, <2>3, ByteOfPacket
<1> QED
  BY <1>1, <1>2

\* The bytes of a packet follow its header, and no boundary is among them
\* before the last.
LEMMA PacketBytes ==
  ASSUME NEW b \in 0 .. Len(Stream) - 1, NEW k, Stream[b + 1] = <<k, 1>>
  PROVE  /\ k \in 1 .. N /\ b + Size(k) <= Len(Stream)
         /\ \A x \in 1 .. Size(k) : Stream[b + x] = <<k, x>>
         /\ \A e \in b + 1 .. Len(Stream) : Boundary(e) => b + Size(k) <= e
<1>0. Len(Stream) \in Nat /\ b + 1 \in 1 .. Len(Stream) /\ b \in Nat
  BY StreamAssumption
<1>1. k \in 1 .. N /\ (b + 1) - 1 + Size(k) <= Len(Stream)
  BY <1>0, ByteOfPacket
<1>2. Size(k) \in Nat
  BY <1>1, SizeType
<1>3. \A x \in 1 .. Size(k) : Stream[(b + 1) - 1 + x] = <<k, x>>
  <2>1. \A j \in 1 .. Len(Stream) : Stream[j] = <<k, 1>> =>
          \A x \in 1 .. Size(k) : Stream[j - 1 + x] = <<k, x>>
    <3> SUFFICES ASSUME NEW j \in 1 .. Len(Stream), Stream[j] = <<k, 1>>
                 PROVE  \A x \in 1 .. Size(k) : Stream[j - 1 + x] = <<k, x>>
      OBVIOUS
    <3>1. Stream[j][1] = k /\ Stream[j][2] = 1
      OBVIOUS
    <3> QED
      BY <1>1, <3>1, StreamAssumption
  <2> QED
    BY <1>0, <2>1
<1>4. ASSUME NEW x \in 1 .. Size(k) PROVE Stream[b + x] = <<k, x>>
  <2>1. (b + 1) - 1 + x = b + x
    BY <1>0, <1>2
  <2> QED
    BY <1>3, <2>1, Zenon
<1>5. \A x \in 1 .. Size(k) : Stream[b + x] = <<k, x>>
  BY <1>4
<1>6. ASSUME NEW e \in b + 1 .. Len(Stream), Boundary(e), e < b + Size(k)
      PROVE  FALSE
  <2>1. e - b \in 1 .. Size(k) /\ e - b # Size(k) /\ b + (e - b) = e /\ e > 0
    BY <1>0, <1>2, <1>6
  <2>2. Stream[e] = <<k, e - b>>
    BY <1>5, <2>1
  <2>3. Stream[e][1] = k /\ Stream[e][2] = e - b
    BY <2>2
  <2> QED
    BY <1>6, <2>1, <2>3 DEF Boundary
<1>7. \A e \in b + 1 .. Len(Stream) : Boundary(e) => b + Size(k) <= e
  BY <1>0, <1>2, <1>6
<1> QED
  BY <1>0, <1>1, <1>2, <1>5, <1>7

----------------------------------------------------------------------------
\* In the loop: the buffer holds the end of what was read, the loop stands
\* between two packets with all before it dispatched, and the rest is clean.
Parsing ==
  /\ len \in 1 .. BufSize /\ len <= pos
  /\ offset \in 0 .. len - 1 /\ left = len - offset
  /\ \A j \in 0 .. len - 1 : rcv_buf[j] = Stream[pos - len + 1 + j]
  /\ Boundary(pos - left) /\ Len(handled) = PacketsIn(pos - left)
  /\ \A j \in pos - left + 1 .. pos - 1 :
       Boundary(j) => pos - j >= Rem[Stream[j][1]]

Whole(h) == \A i \in 1 .. Len(h) : h[i] = Right(i)

Framing ==
  /\ pos \in 0 .. Len(Stream) /\ clean \in BOOLEAN
  /\ clean =>
       /\ phase \in {"recv", "parse", "exit"} /\ rcv_offset = 0
       /\ handled \in Seq(Dispatched) /\ Whole(handled)
       /\ Boundary(pos)
       /\ phase # "parse" => Len(handled) = PacketsIn(pos)
       /\ phase = "exit" => len \in Nat /\ offset = len
       /\ phase = "parse" => Parsing

\* The packet the loop stands before is all there, and what follows it is
\* nothing or at least its remaining length.
LEMMA PacketAhead ==
  ASSUME Framing, clean, phase = "parse",
         NEW b, b = pos - left, NEW k, k = Len(handled) + 1
  PROVE  /\ b \in Nat /\ left \in Nat /\ k \in 1 .. N
         /\ \A i \in 1 .. Size(k) : Holds(k, i)
         /\ Size(k) <= left
         /\ Boundary(b + Size(k)) /\ PacketsIn(b + Size(k)) = k
         /\ left - Size(k) = 0 \/ left - Size(k) >= Rem[k]
<1>0. /\ pos \in 0 .. Len(Stream) /\ len \in 1 .. BufSize /\ len <= pos
      /\ offset \in 0 .. len - 1 /\ left = len - offset
  BY DEF Framing, Parsing
<1>1. /\ pos \in Nat /\ Len(Stream) \in Nat /\ pos <= Len(Stream)
      /\ len \in Nat /\ offset \in Nat /\ left \in Nat
      /\ len <= BufSize /\ len <= pos /\ offset < len /\ left = len - offset
  BY <1>0, StreamAssumption, BufAssumption
<1>2. b \in 0 .. Len(Stream) - 1 /\ b \in Nat /\ pos \in b + 1 .. Len(Stream)
  BY <1>1
<1>3. Boundary(b) /\ Boundary(pos) /\ k = PacketsIn(b) + 1
  BY DEF Framing, Parsing
<1>4. Stream[b + 1] = <<k, 1>>
  BY <1>2, <1>3, NextHeader
<1>5. /\ k \in 1 .. N /\ b + Size(k) <= pos
      /\ \A x \in 1 .. Size(k) : Stream[b + x] = <<k, x>>
  <2>1. /\ k \in 1 .. N
        /\ \A x \in 1 .. Size(k) : Stream[b + x] = <<k, x>>
        /\ \A e \in b + 1 .. Len(Stream) : Boundary(e) => b + Size(k) <= e
    BY <1>2, <1>4, PacketBytes, Zenon
  <2> QED
    BY <1>2, <1>3, <2>1
<1>6. Size(k) \in Nat /\ Size(k) >= 1 /\ Rem[k] \in Nat
  BY <1>5, SizeType
<1>7. Size(k) <= left
  BY <1>1, <1>2, <1>5, <1>6
<1>8. ASSUME NEW i \in 1 .. Size(k) PROVE Holds(k, i)
  <2>1. /\ offset + i - 1 \in 0 .. len - 1 /\ offset + i - 1 < BufSize
        /\ pos - len + 1 + (offset + i - 1) = b + i
    BY <1>1, <1>2, <1>6, <1>7, BufAssumption
  <2>2. rcv_buf[offset + i - 1] = Stream[pos - len + 1 + (offset + i - 1)]
    BY <2>1 DEF Framing, Parsing
  <2> QED
    BY <1>5, <2>1, <2>2 DEF Holds
<1>9. Stream[b + Size(k)] = <<k, Size(k)>>
  BY <1>5, <1>6
<1>10. Stream[b + Size(k)][1] = k /\ Stream[b + Size(k)][2] = Size(k)
  BY <1>9
<1>11. Boundary(b + Size(k)) /\ PacketsIn(b + Size(k)) = k
  BY <1>2, <1>6, <1>10 DEF Boundary, PacketsIn
<1>12. left - Size(k) = 0 \/ left - Size(k) >= Rem[k]
  <2>1. CASE b + Size(k) = pos
    BY <1>1, <1>2, <1>6, <2>1
  <2>2. CASE b + Size(k) # pos
    <3>1. b + Size(k) \in pos - left + 1 .. pos - 1
      <4>1. b + Size(k) < pos /\ b + Size(k) >= b + 1 /\ b + Size(k) \in Int
        BY <1>1, <1>2, <1>5, <1>6, <2>2
      <4> QED
        BY <1>1, <4>1
    <3>2. pos - (b + Size(k)) >= Rem[Stream[b + Size(k)][1]]
      BY <1>11, <3>1 DEF Framing, Parsing
    <3>3. pos - (b + Size(k)) = left - Size(k)
      BY <1>1, <1>6
    <3> QED
      BY <1>10, <3>2, <3>3
  <2> QED
    BY <2>1, <2>2
<1> QED
  BY <1>1, <1>2, <1>5, <1>7, <1>8, <1>11, <1>12

\* On clean pieces the loop only ever dispatches the packet it stands before.
LEMMA OnlyThatPacket ==
  ASSUME Framing, clean, phase = "parse", Return
  PROVE  parse_packet(Len(handled) + 1)
<1> DEFINE k == Len(handled) + 1
<1>1. k \in 1 .. N /\ \A i \in 1 .. Size(k) : Holds(k, i)
  BY PacketAhead
<1>2. /\ Size(k) \in Nat /\ Lb[k] \in 1 .. 3 /\ 1 + Lb[k] <= Size(k)
      /\ 1 \in 1 .. Size(k) /\ 2 \in 1 .. Size(k)
  BY <1>1, SizeType
<1>3. offset \in Nat
  BY BufAssumption DEF Framing, Parsing
<1>4. Holds(k, 1) /\ Holds(k, 2) /\ \A i \in 1 .. 1 + Lb[k] : Holds(k, i)
  BY <1>1, <1>2
<1> HIDE DEF k
<1>5. /\ offset + 1 - 1 = offset /\ offset + 2 - 1 = offset + 1
  BY <1>3
<1>6. /\ rcv_buf[offset] = <<k, 1>> /\ rcv_buf[offset + 1] = <<k, 2>>
      /\ offset + 1 < BufSize
  BY <1>3, <1>4, <1>5 DEF Holds
<1>7. rcv_buf[offset] # Zero /\ rcv_buf[offset + 1] # Zero
  BY <1>6 DEF Zero
<1>8. ~parse_zero /\ ~parse_beyond /\ ~keep_rest /\ ~no_rest
  <2>1. ~parse_zero
    BY <1>7 DEF parse_zero
  <2>2. ~(offset + 1 >= BufSize)
    <3>1. BufSize \in Nat
      BY BufAssumption
    <3> QED
      BY <1>3, <1>6, <3>1
  <2>3. ~keep_rest /\ ~no_rest
    BY DEF keep_rest, no_rest
  <2> QED
    BY <2>1, <2>2, <2>3 DEF parse_beyond
<1>9. ~parse_other
  BY <1>1, <1>4 DEF parse_other
<1>10. ASSUME NEW m \in 1 .. N PROVE ~parse_short(m)
  BY <1>7 DEF parse_short
<1>11. ASSUME NEW m \in 1 .. N, parse_packet(m) PROVE m = k
  <2>1. 1 \in 1 .. 1 + Lb[m]
    BY SizeType
  <2>2. Holds(m, 1)
    BY <1>11, <2>1 DEF parse_packet
  <2>3. rcv_buf[offset] = <<m, 1>>
    BY <1>5, <2>2 DEF Holds
  <2>4. <<m, 1>>[1] = <<k, 1>>[1]
    BY <1>6, <2>3
  <2> QED
    BY <2>4
<1>12. PICK m \in 1 .. N : parse_packet(m)
  BY <1>8, <1>9, <1>10 DEF Return
<1> QED
  BY <1>11, <1>12 DEF k

\* recv() keeps the framing.
LEMMA FramingReceive ==
  ASSUME Framing, Receive
  PROVE  Framing'
<1>1. PICK n \in 1 .. BufSize - rcv_offset : n <= Len(Stream) - pos /\ recv(n)
  BY DEF Receive
<1>2. pos \in Nat /\ Len(Stream) \in Nat /\ n \in Int
  BY StreamAssumption DEF Framing
<1>3. pos' \in 0 .. Len(Stream)
  <2>1. CASE rcv_offset \in Int
    BY <1>1, <1>2, <2>1, BufAssumption DEF recv
  <2> QED
    BY <1>1, <1>2 DEF recv
<1>4. ASSUME clean' PROVE Parsing' /\ Boundary(pos)' /\ rcv_offset' = 0
                          /\ phase' = "parse" /\ handled' = handled /\ clean
  <2>1. clean /\ CleanCut(pos, n) /\ rcv_offset = 0 /\ phase = "recv"
    BY <1>1, <1>4 DEF recv, Framing
  <2>2. /\ n \in 1 .. BufSize /\ pos' = pos + n /\ len' = n /\ left' = n
        /\ offset' = 0 /\ handled' = handled /\ rcv_offset' = 0
        /\ phase' = "parse"
    BY <1>1, <1>2, <2>1, BufAssumption DEF recv
  <2>3. pos' - left' = pos /\ pos' - len' = pos
    BY <1>2, <2>2
  <2>4. /\ len' \in 1 .. BufSize /\ len' <= pos'
        /\ offset' \in 0 .. len' - 1 /\ left' = len' - offset'
    BY <1>2, <2>2
  <2>5. ASSUME NEW j \in 0 .. n - 1
        PROVE  rcv_buf'[j] = Stream[pos + 1 + j]
    <3>1. j \in 0 .. BufSize - 1 /\ j \in 0 .. 0 + n - 1 /\ pos + 1 + j - 0 = pos + 1 + j
      BY <1>2, <2>2, BufAssumption
    <3> QED
      BY <1>1, <2>1, <3>1 DEF recv
  <2>6. Boundary(pos) /\ Boundary(pos') /\ Len(handled) = PacketsIn(pos)
    BY <2>1, <2>2 DEF CleanCut, Framing
  <2>7. \A j \in pos + 1 .. pos' - 1 :
          Boundary(j) => pos' - j >= Rem[Stream[j][1]]
    <3> SUFFICES ASSUME NEW j \in pos + 1 .. pos' - 1, Boundary(j)
                 PROVE  pos' - j >= Rem[Stream[j][1]]
      OBVIOUS
    <3>1. j \in pos + 1 .. pos + n - 1
      BY <1>2, <2>2
    <3>2. pos + n - j >= Rem[Stream[j][1]]
      BY <2>1, <3>1 DEF CleanCut
    <3> QED
      BY <1>2, <2>2, <3>2
  <2>8. Boundary(pos' - left') /\ Len(handled') = PacketsIn(pos' - left')
    BY <2>2, <2>3, <2>6
  <2> QED
    BY <2>1, <2>2, <2>3, <2>4, <2>5, <2>6, <2>7, <2>8
    DEF Parsing, Boundary, PacketsIn
<1>5. clean' \in BOOLEAN
  BY <1>1 DEF recv
<1> QED
  BY <1>3, <1>4, <1>5 DEF Framing

\* One more packet handled as it was sent.
LEMMA WholeAppend ==
  ASSUME NEW h \in Seq(Dispatched), Whole(h),
         Len(h) + 1 \in 1 .. N,
         NEW r, r = Right(Len(h) + 1)
  PROVE  /\ Append(h, r) \in Seq(Dispatched)
         /\ Len(Append(h, r)) = Len(h) + 1 /\ Whole(Append(h, r))
<1>1. r \in Dispatched
  BY DEF Right, Dispatched
<1>2. /\ Append(h, r) \in Seq(Dispatched)
      /\ Len(Append(h, r)) = Len(h) + 1 /\ Len(h) \in Nat
  BY <1>1
<1>3. ASSUME NEW i \in 1 .. Len(Append(h, r))
      PROVE  Append(h, r)[i] = Right(i)
  <2>1. CASE i = Len(h) + 1
    BY <1>1, <2>1
  <2>2. CASE i # Len(h) + 1
    <3>1. i \in 1 .. Len(h) /\ Append(h, r)[i] = h[i]
      BY <1>1, <1>2, <2>2
    <3> QED
      BY <3>1 DEF Whole
  <2> QED
    BY <2>1, <2>2
<1> QED
  BY <1>2, <1>3 DEF Whole

\* A call of the receive handler keeps the framing.
LEMMA FramingReturn ==
  ASSUME Framing, Return
  PROVE  Framing'
<1>1. pos' = pos /\ clean' = clean
  BY DEF Return, parse_packet, parse_short, parse_zero, parse_other,
         parse_beyond, keep_rest, no_rest, Advance
<1>2. CASE ~clean
  BY <1>1, <1>2 DEF Framing
<1>3. CASE clean /\ phase = "parse"
  <2> DEFINE k == Len(handled) + 1
             b == pos - left
  <2>1. /\ b \in Nat /\ left \in Nat /\ k \in 1 .. N
        /\ \A i \in 1 .. Size(k) : Holds(k, i)
        /\ Size(k) <= left
        /\ Boundary(b + Size(k)) /\ PacketsIn(b + Size(k)) = k
        /\ left - Size(k) = 0 \/ left - Size(k) >= Rem[k]
    BY <1>3, PacketAhead
  <2>2. parse_packet(k)
    BY <1>3, OnlyThatPacket
  <2>3. Size(k) \in Nat /\ Size(k) = Rem[k] + 1 + Lb[k] /\ Rem[k] \in Nat /\ Rem[k] >= 2
        /\ Lb[k] \in 1 .. 3
    <3>1. k \in 1 .. N
      BY <2>1
    <3> HIDE DEF k
    <3>2. /\ Lb[k] \in 1 .. 3 /\ Rem[k] \in Nat /\ Rem[k] >= 2
          /\ Size(k) \in Nat /\ Size(k) = 1 + Lb[k] + Rem[k]
      BY <3>1, SizeType
    <3> QED
      BY <3>2
  <2>4. /\ handled \in Seq(Dispatched) /\ Whole(handled)
        /\ Boundary(pos) /\ rcv_offset = 0 /\ Parsing
        /\ pos \in Nat /\ len \in Nat /\ offset \in Nat
        /\ left = len - offset /\ len <= pos
    BY <1>3, StreamAssumption, BufAssumption DEF Framing, Parsing
  <2>5. handled' = Append(handled, Right(k))
    <3>1. clean = TRUE
      BY <1>3 DEF Framing
    <3> QED
      BY <2>1, <2>2, <3>1 DEF parse_packet, Dispatch, Right
  <2>6. /\ handled' \in Seq(Dispatched)
        /\ Len(handled') = k /\ Whole(handled')
    BY <2>1, <2>4, <2>5, WholeAppend
  <2>7. /\ offset' = offset + Size(k) /\ left' = left - Size(k)
        /\ len' = len /\ rcv_buf' = rcv_buf /\ rcv_offset' = rcv_offset
        /\ phase' = IF left' >= Rem[k] THEN "parse" ELSE "exit"
    BY <2>1, <2>2, <2>3
    DEF parse_packet, Advance, Consumed, Minus, Continues
  <2> HIDE DEF k
  <2> DEFINE s == Size(k)
  <2>0. /\ s \in Nat /\ s >= 1 /\ s <= left /\ Rem[k] > 0 /\ b = pos - left
        /\ left \in Nat /\ pos \in Nat /\ len \in Nat /\ offset \in Nat
        /\ left = len - offset /\ len <= pos
        /\ offset' = offset + s /\ left' = left - s
    <3>1. s \in Nat /\ s >= 1 /\ Rem[k] > 0
      BY <2>3
    <3>2. s <= left /\ b = pos - left /\ left \in Nat
      BY <2>1
    <3>3. /\ pos \in Nat /\ len \in Nat /\ offset \in Nat
          /\ left = len - offset /\ len <= pos
      BY <2>4
    <3>4. offset' = offset + s /\ left' = left - s
      BY <2>7
    <3> QED
      BY <3>1, <3>2, <3>3, <3>4
  <2> HIDE DEF s, b
  <2>8. CASE left' = 0
    <3>0. offset + s = len /\ b + s = pos /\ ~(left' >= Rem[k])
      BY <2>0, <2>3, <2>8
    <3>1. phase' = "exit" /\ offset' = len' /\ len' \in Nat /\ b + Size(k) = pos
      BY <2>0, <2>7, <3>0 DEF s
    <3>2. Len(handled') = PacketsIn(pos)
      BY <2>1, <2>6, <3>1
    <3> QED
      BY <1>1, <2>4, <2>6, <2>7, <3>1, <3>2 DEF Framing, Boundary, PacketsIn
  <2>9. CASE left' # 0
    <3>1. left' >= Rem[k] /\ phase' = "parse"
      BY <2>1, <2>7, <2>9
    <3>2. /\ pos - left' = b + Size(k) /\ left' \in Nat
          /\ offset' \in 0 .. len - 1 /\ left' = len - offset'
      <4>1. /\ pos - (left - s) = b + s /\ left - s \in Nat
            /\ left - s # 0 => offset + s \in 0 .. len - 1
            /\ left - s = len - (offset + s)
        BY <2>0
      <4> QED
        BY <2>0, <2>9, <4>1 DEF s
    <3>3. Boundary(pos - left') /\ Len(handled') = PacketsIn(pos - left')
      BY <2>1, <2>6, <3>2
    <3>4. \A j \in pos - left' + 1 .. pos - 1 : j \in pos - left + 1 .. pos - 1
      <4>1. /\ pos - left \in Int /\ pos - left' \in Int /\ pos \in Int
            /\ pos - left <= pos - left'
        BY <2>0, <3>2
      <4> QED
        BY <4>1
    <3>5. \A j \in pos - left' + 1 .. pos - 1 :
            Boundary(j) => pos - j >= Rem[Stream[j][1]]
      BY <2>4, <3>4 DEF Parsing
    <3>6. Parsing'
      BY <1>1, <2>4, <2>7, <3>2, <3>3, <3>5 DEF Parsing, Boundary, PacketsIn
    <3> QED
      BY <1>1, <2>4, <2>6, <2>7, <3>1, <3>6 DEF Framing, Boundary, PacketsIn
  <2> QED
    BY <2>8, <2>9
<1>4. CASE clean /\ phase # "parse"
  <2>1. no_rest \/ keep_rest
    BY <1>4 DEF Return, parse_packet, parse_short, parse_zero, parse_other,
                parse_beyond
  <2>2. phase = "exit" /\ len \in Nat /\ offset = len
    BY <1>4, <2>1 DEF Framing, no_rest, keep_rest
  <2>3. ~(offset < len)
    BY <2>2
  <2> QED
    BY <1>1, <1>4, <2>1, <2>2, <2>3
    DEF Framing, no_rest, keep_rest, OffsetAfterAll, Boundary, PacketsIn
<1> QED
  BY <1>2, <1>3, <1>4

\* The framing holds in every reachable state.
LEMMA FramingInvariant == Spec => []Framing
<1>1. Init => Framing
  BY StreamAssumption DEF Init, Framing, Boundary, PacketsIn, Whole
<1>2. Framing /\ [Next]_vars => Framing'
  <2>1. ASSUME Framing, UNCHANGED vars PROVE Framing'
    BY <2>1 DEF Framing, Parsing, Boundary, PacketsIn, vars, locals
  <2> QED
    BY <2>1, FramingReceive, FramingReturn DEF Next
<1> QED
  BY <1>1, <1>2, PTL DEF Spec

\* As long as recv() returns clean pieces, mqttnox_tcp_rcv_func dispatches every
\* packet once, whole and in order, and keeps within what it was given.
THEOREM FramingCorrect == Spec => []FramedWhenClean
<1>1. Framing => FramedWhenClean
  BY DEF Framing, FramedWhenClean, Whole
<1> QED
  BY <1>1, FramingInvariant, PTL

----------------------------------------------------------------------------
(* Types, on any pieces                                                    *)

\* left is what is left of len, wrapped around when the loop has passed the end;
\* and when the loop ends, the rest is shorter than what it has passed.
Loop ==
  /\ 2 * offset < SizeMod
  /\ left = IF offset <= len THEN len - offset ELSE SizeMod - (offset - len)
  /\ phase = "exit" => left < remain_length /\ remain_length < offset

\* How far the loop goes past the buffer, which a size_t can tell.
LEMMA Reach ==
  ASSUME NEW b \in Nat, NEW o \in Nat, NEW r \in Nat, NEW l \in Nat, NEW m \in Nat,
         o < b, m > 2 * (b + (1 + l + r))
  PROVE  2 * (o + r + 1 + l) < m /\ b + r + 1 + l <= m
  OBVIOUS

\* The end of an iteration that stays within reach of the buffer.
LEMMA AdvanceType ==
  ASSUME TypeOK, Loop, NEW rem \in Nat, NEW lb \in Nat, Advance(rem, lb),
         offset < BufSize, 2 * (offset + rem + 1 + lb) < SizeMod,
         BufSize + rem + 1 + lb <= SizeMod
  PROVE  /\ Loop' /\ offset' \in Nat /\ left' \in 0 .. SizeMod - 1
         /\ remain_length' \in Nat /\ phase' \in Phase
<1> DEFINE s == rem + 1 + lb
<1>0. /\ BufSize \in Nat \ {0} /\ SizeMod \in Nat /\ SizeMod > 2 * BufSize
      /\ len \in 0 .. BufSize /\ offset \in Nat /\ left \in 0 .. SizeMod - 1
  BY BufAssumption DEF TypeOK
<1>1. /\ offset' = offset + s /\ left' = Minus(left, s) /\ remain_length' = rem
      /\ phase' = (IF Continues(left', rem) THEN "parse" ELSE "exit") /\ len' = len
  BY DEF Advance, Consumed
<1>2. s \in Nat /\ s > rem /\ 2 * (offset + s) < SizeMod /\ BufSize + s <= SizeMod
  BY <1>0
<1> HIDE DEF s
<1>3. left = IF offset <= len THEN len - offset ELSE SizeMod - (offset - len)
  BY DEF Loop
<1>4. left' = IF offset + s <= len THEN len - (offset + s)
              ELSE SizeMod - ((offset + s) - len)
  <2>1. CASE offset <= len
    BY <1>0, <1>1, <1>2, <1>3, <2>1 DEF Minus
  <2>2. CASE ~(offset <= len)
    <3>1. s <= left
      BY <1>0, <1>2, <1>3, <2>2
    <3> QED
      BY <1>0, <1>1, <1>2, <1>3, <2>2, <3>1 DEF Minus
  <2> QED
    BY <2>1, <2>2
<1>5. left' \in 0 .. SizeMod - 1
  BY <1>0, <1>2, <1>4
<1>6. phase' = "exit" => left' < rem
  BY <1>1, <1>5 DEF Continues
<1> QED
  BY <1>0, <1>1, <1>2, <1>4, <1>5, <1>6 DEF Loop, Phase

\* A dispatched packet is recorded with its type.
LEMMA DispatchType ==
  ASSUME TypeOK, NEW k \in 1 .. N, Dispatch(k)
  PROVE  handled' \in Seq(Dispatched)
<1> DEFINE w == \A i \in 1 .. Size(k) : Holds(k, i)
<1>1. w \in BOOLEAN
  BY Zenon
<1>2. [pkt |-> k, whole |-> w, clean |-> clean] \in Dispatched
  BY <1>1 DEF Dispatched, TypeOK
<1>3. handled' = Append(handled, [pkt |-> k, whole |-> w, clean |-> clean])
  BY DEF Dispatch
<1> HIDE DEF w
<1> QED
  BY <1>2, <1>3 DEF TypeOK

\* recv() keeps the types.
LEMMA LoopReceive ==
  ASSUME TypeOK, Loop, Receive
  PROVE  TypeOK' /\ Loop'
<1>1. PICK n \in 1 .. BufSize - rcv_offset : n <= Len(Stream) - pos /\ recv(n)
  BY DEF Receive
<1>2. /\ pos \in 0 .. Len(Stream) /\ Len(Stream) \in Nat /\ BufSize \in Nat
      /\ rcv_offset \in 0 .. BufSize - 1 /\ SizeMod \in Nat /\ SizeMod > 2 * BufSize
      /\ rcv_buf \in [0 .. BufSize - 1 -> (0 .. N) \X Nat]
  BY StreamAssumption, BufAssumption DEF TypeOK
<1>3. /\ n \in Nat /\ rcv_offset + n <= BufSize /\ pos + n <= Len(Stream)
  BY <1>1, <1>2
<1>4. rcv_buf' \in [0 .. BufSize - 1 -> (0 .. N) \X Nat]
  <2>1. ASSUME NEW j \in 0 .. BufSize - 1
        PROVE  (IF j \in rcv_offset .. rcv_offset + n - 1
                THEN Stream[pos + 1 + j - rcv_offset] ELSE rcv_buf[j]) \in (0 .. N) \X Nat
    <3>1. CASE j \in rcv_offset .. rcv_offset + n - 1
      <4>1. pos + 1 + j - rcv_offset \in 1 .. Len(Stream)
        BY <1>2, <1>3, <2>1, <3>1
      <4>2. Stream[pos + 1 + j - rcv_offset] \in (1 .. N) \X Nat
        BY <4>1, StreamAssumption
      <4> QED
        BY <3>1, <4>2, PacketAssumption
    <3>2. CASE j \notin rcv_offset .. rcv_offset + n - 1
      BY <1>2, <3>2
    <3> QED
      BY <3>1, <3>2
  <2> QED
    BY <1>1, <2>1 DEF recv
<1>5. /\ pos' = pos + n /\ len' = rcv_offset + n /\ left' = rcv_offset + n
      /\ offset' = 0 /\ remain_length' = 0 /\ phase' = "parse"
      /\ UNCHANGED <<rcv_offset, handled>>
  BY <1>1 DEF recv
<1>6. clean' \in BOOLEAN
  BY <1>1 DEF recv
<1>7. /\ pos' \in 0 .. Len(Stream) /\ len' \in 0 .. BufSize /\ left' \in 0 .. SizeMod - 1
      /\ offset' \in Nat /\ remain_length' \in Nat
  BY <1>2, <1>3, <1>5
<1>8. Loop'
  BY <1>2, <1>3, <1>5 DEF Loop
<1> QED
  BY <1>4, <1>5, <1>6, <1>7, <1>8 DEF TypeOK, Phase

\* The receive handler keeps the types.
LEMMA LoopReturn ==
  ASSUME TypeOK, Loop, Return
  PROVE  TypeOK' /\ Loop'
<1>0. /\ BufSize \in Nat \ {0} /\ SizeMod \in Nat /\ SizeMod > 2 * BufSize /\ N \in Nat
      /\ len \in 0 .. BufSize /\ offset \in Nat /\ left \in 0 .. SizeMod - 1
      /\ rcv_buf \in [0 .. BufSize - 1 -> (0 .. N) \X Nat]
  BY BufAssumption, PacketAssumption DEF TypeOK
<1>1. ASSUME NEW rem \in Nat, NEW lb \in Nat, Advance(rem, lb),
             offset < BufSize, 2 * (offset + rem + 1 + lb) < SizeMod,
             BufSize + rem + 1 + lb <= SizeMod, handled' \in Seq(Dispatched)
      PROVE  TypeOK' /\ Loop'
  BY <1>1, AdvanceType DEF TypeOK, Advance
<1>2. ASSUME NEW k \in 1 .. N, parse_packet(k) PROVE TypeOK' /\ Loop'
  <2>1. Lb[k] \in 1 .. 3 /\ Rem[k] \in Nat /\ Size(k) = 1 + Lb[k] + Rem[k]
    BY SizeType
  <2>2. SizeMod > 2 * (BufSize + Size(k))
    BY BufAssumption
  <2>3. offset < BufSize
    <3>1. Holds(k, 1)
      BY <1>2, <2>1 DEF parse_packet
    <3> QED
      BY <1>0, <3>1 DEF Holds
  <2>4. /\ 2 * (offset + Rem[k] + 1 + Lb[k]) < SizeMod
        /\ BufSize + Rem[k] + 1 + Lb[k] <= SizeMod
    <3>1. SizeMod > 2 * (BufSize + (1 + Lb[k] + Rem[k]))
      BY <2>1, <2>2
    <3>2. offset \in Nat /\ BufSize \in Nat /\ Rem[k] \in Nat /\ Lb[k] \in Nat
      BY <1>0, <2>1
    <3> QED
      BY <1>0, <2>3, <3>1, <3>2, Reach
  <2>5. handled' \in Seq(Dispatched)
    BY <1>2, DispatchType DEF parse_packet
  <2> QED
    BY <1>1, <1>2, <2>1, <2>3, <2>4, <2>5 DEF parse_packet
<1>3. ASSUME offset + 1 < BufSize, Advance(0, 1), handled' \in Seq(Dispatched)
      PROVE  TypeOK' /\ Loop'
  <2>1. /\ offset < BufSize /\ 2 * (offset + 0 + 1 + 1) < SizeMod
        /\ BufSize + 0 + 1 + 1 <= SizeMod
    BY <1>0, <1>3
  <2> QED
    BY <1>1, <1>3, <2>1
<1>4. CASE parse_zero
  BY <1>3, <1>4 DEF parse_zero, TypeOK
<1>5. ASSUME NEW k \in 1 .. N, parse_short(k) PROVE TypeOK' /\ Loop'
  BY <1>3, <1>5, DispatchType DEF parse_short
<1>6. CASE parse_other
  <2>1. handled' \in Seq(Dispatched)
    <3>1. CASE \E k \in 1 .. N : Holds(k, 1)
      <4>1. PICK k \in 1 .. N : Holds(k, 1)
        BY <3>1
      <4>2. offset + 1 - 1 = offset
        BY <1>0
      <4>3. rcv_buf[offset] = <<k, 1>>
        BY <4>1, <4>2 DEF Holds
      <4>4. Dispatch(k)
        BY <1>6, <3>1, <4>3 DEF parse_other
      <4> QED
        BY <4>4, DispatchType
    <3>2. CASE ~\E k \in 1 .. N : Holds(k, 1)
      BY <1>6, <3>2 DEF parse_other, TypeOK
    <3> QED
      BY <3>1, <3>2
  <2>2. /\ phase' = "lost" /\ UNCHANGED <<pos, rcv_buf, rcv_offset, locals, clean>>
    BY <1>6 DEF parse_other
  <2> QED
    BY <2>1, <2>2 DEF TypeOK, Loop, locals, Phase
<1>7. CASE parse_beyond
  BY <1>7 DEF parse_beyond, TypeOK, Loop, locals, Phase
<1>8. CASE keep_rest
  <2>1. /\ phase = "exit" /\ offset < len /\ rcv_offset' = len - offset
        /\ phase' = "recv" /\ UNCHANGED <<pos, locals, handled, clean>>
    BY <1>8 DEF keep_rest
  <2>2. /\ left = len - offset /\ left < remain_length /\ remain_length < offset
    BY <1>0, <2>1 DEF Loop
  <2>3. remain_length \in Nat
    BY DEF TypeOK
  <2>4. rcv_offset' \in 0 .. BufSize - 1
    BY <1>0, <2>1, <2>2, <2>3
  <2>5. ASSUME NEW j \in 0 .. BufSize - 1
        PROVE  (IF j < left THEN rcv_buf[rcv_offset' + j] ELSE Zero) \in (0 .. N) \X Nat
    <3>1. CASE j < left
      <4>1. rcv_offset' + j \in 0 .. BufSize - 1
        BY <1>0, <2>1, <2>2, <2>3, <2>5, <3>1
      <4> QED
        BY <1>0, <3>1, <4>1
    <3>2. CASE ~(j < left)
      BY <1>0, <3>2 DEF Zero
    <3> QED
      BY <3>1, <3>2
  <2>6. rcv_buf' \in [0 .. BufSize - 1 -> (0 .. N) \X Nat]
    BY <1>8, <2>5 DEF keep_rest
  <2> QED
    BY <2>1, <2>4, <2>6 DEF TypeOK, Loop, locals, Phase
<1>9. CASE no_rest
  <2>1. rcv_offset' \in 0 .. BufSize - 1
    BY <1>0, <1>9 DEF no_rest, OffsetAfterAll
  <2> QED
    BY <1>9, <2>1 DEF no_rest, TypeOK, Loop, locals, Phase
<1> QED
  BY <1>2, <1>4, <1>5, <1>6, <1>7, <1>8, <1>9 DEF Return

\* The types hold in every reachable state.
LEMMA TypeInvariant == Spec => [](TypeOK /\ Loop)
<1>1. Init => TypeOK /\ Loop
  <2> SUFFICES ASSUME Init PROVE TypeOK /\ Loop
    OBVIOUS
  <2>1. /\ BufSize \in Nat \ {0} /\ SizeMod \in Nat /\ SizeMod > 2 * BufSize /\ N \in Nat
        /\ Len(Stream) \in Nat
    BY BufAssumption, PacketAssumption, StreamAssumption
  <2>2. rcv_buf \in [0 .. BufSize - 1 -> (0 .. N) \X Nat]
    BY <2>1 DEF Init, Zero
  <2> QED
    BY <2>1, <2>2 DEF Init, TypeOK, Loop, Phase
<1>2. TypeOK /\ Loop /\ [Next]_vars => (TypeOK /\ Loop)'
  <2>1. ASSUME TypeOK, Loop, UNCHANGED vars PROVE TypeOK' /\ Loop'
    BY <2>1 DEF TypeOK, Loop, vars, locals
  <2> QED
    BY <2>1, LoopReceive, LoopReturn DEF Next
<1> QED
  BY <1>1, <1>2, PTL DEF Spec

\* However TCP cuts the stream, also where the loop then misreads it, the
\* variables of mqttnox_tcp_rcv_func keep their types, the unsigned left wraps
\* around as a size_t does, and the copy of the rest stays within rcv_buf.
THEOREM RcvTypeCorrect == Spec => []TypeOK
BY TypeInvariant, PTL

----------------------------------------------------------------------------
(* The packet-level reader                                                 *)

\* The bytes of a packet belong together: the numbers along the stream never fall.
LEMMA NumbersRise ==
  ASSUME NEW b \in 1 .. Len(Stream), NEW e \in b .. Len(Stream)
  PROVE  Stream[b][1] <= Stream[e][1]
<1>0. Len(Stream) \in Nat
  BY StreamAssumption
<1>1. \A j \in 1 .. Len(Stream) : Stream[j][1] \in Nat
  <2>1. \A j \in 1 .. Len(Stream) : Stream[j] \in (1 .. N) \X Nat
    BY StreamAssumption
  <2>2. 1 .. N \subseteq Nat
    BY PacketAssumption
  <2> QED
    BY <2>1, <2>2
<1>2. ASSUME NEW j \in 1 .. Len(Stream) - 1
      PROVE  Stream[j][1] <= Stream[j + 1][1]
  <2>1. j \in 1 .. Len(Stream) /\ j < Len(Stream) /\ j \in Nat
    BY <1>0
  <2>2. PICK k \in 1 .. N, i \in Nat : Stream[j] = <<k, i>>
    <3>1. Stream[j] \in (1 .. N) \X Nat
      BY <2>1, StreamAssumption
    <3> QED
      BY <3>1
  <2>3. /\ i \in 1 .. Size(k) /\ Size(k) \in Nat
        /\ \A x \in 1 .. Size(k) : Stream[j - i + x] = <<k, x>>
        /\ i = Size(k) => Stream[j + 1] = <<k + 1, 1>>
    <3>1. Stream[j][1] = k /\ Stream[j][2] = i
      BY <2>2
    <3>2. Size(k) \in Nat
      BY SizeType
    <3> QED
      BY <2>1, <3>1, <3>2, StreamAssumption
  <2>4. CASE i = Size(k)
    BY <2>2, <2>3, <2>4
  <2>5. CASE i # Size(k)
    <3>1. i + 1 \in 1 .. Size(k) /\ j - i + (i + 1) = j + 1
      BY <2>1, <2>3, <2>5
    <3>2. Stream[j + 1] = <<k, i + 1>>
      BY <2>3, <3>1
    <3> QED
      BY <2>2, <3>2
  <2> QED
    BY <2>4, <2>5
<1> DEFINE T == {n \in Nat : b + n <= Len(Stream) => Stream[b][1] <= Stream[b + n][1]}
<1>3. 0 \in T
  BY <1>0, <1>1
<1>4. ASSUME NEW n \in Nat, n \in T PROVE n + 1 \in T
  <2> SUFFICES ASSUME b + (n + 1) <= Len(Stream)
               PROVE  Stream[b][1] <= Stream[b + (n + 1)][1]
    OBVIOUS
  <2>1. /\ b + n \in 1 .. Len(Stream) - 1 /\ b + (n + 1) = (b + n) + 1
        /\ b + (n + 1) \in 1 .. Len(Stream)
    BY <1>0
  <2>2. Stream[b][1] <= Stream[b + n][1]
    BY <1>4, <2>1
  <2>3. Stream[b + n][1] <= Stream[b + (n + 1)][1]
    BY <1>2, <2>1
  <2>4. /\ Stream[b][1] \in Nat /\ Stream[b + n][1] \in Nat /\ Stream[b + (n + 1)][1] \in Nat
    BY <1>0, <1>1, <2>1
  <2> QED
    BY <2>2, <2>3, <2>4
<1> HIDE DEF T
<1>5. e - b \in T
  <2>1. e - b \in Nat
    BY <1>0
  <2> QED
    BY <1>3, <1>4, <2>1, SetInduction
<1>6. b + (e - b) = e
  BY <1>0
<1> QED
  BY <1>0, <1>5, <1>6 DEF T

\* What lies within one clean piece is at least one packet more.
LEMMA MorePackets ==
  ASSUME NEW b \in 0 .. Len(Stream), NEW e \in b + 1 .. Len(Stream), Boundary(b)
  PROVE  /\ PacketsIn(b) \in Nat /\ PacketsIn(e) \in PacketsIn(b) + 1 .. N
<1>0. Len(Stream) \in Nat
  BY StreamAssumption
<1>1. Stream[b + 1] = <<PacketsIn(b) + 1, 1>>
  BY <1>0, NextHeader
<1>2. \A j \in 1 .. Len(Stream) : Stream[j][1] \in 1 .. N
  BY StreamAssumption, SMTT(30)
<1>3. PacketsIn(b) \in Nat
  BY <1>0, <1>2, PacketAssumption DEF PacketsIn
<1>4. PacketsIn(e) = Stream[e][1] /\ e \in 1 .. Len(Stream)
  BY <1>0 DEF PacketsIn
<1>5. Stream[b + 1][1] <= Stream[e][1]
  BY <1>0, NumbersRise
<1> QED
  BY <1>1, <1>2, <1>3, <1>4, <1>5, PacketAssumption

\* Up to the first piece that is not clean, all that was dispatched counts.
LEMMA DoneWhenClean == Framing /\ clean => ReaderDone = Len(handled) /\ Len(handled) \in Nat
<1> SUFFICES ASSUME Framing, clean
             PROVE  ReaderDone = Len(handled) /\ Len(handled) \in Nat
  OBVIOUS
<1>1. handled \in Seq(Dispatched) /\ \A i \in 1 .. Len(handled) : handled[i] = Right(i)
  <2>1. handled \in Seq(Dispatched) /\ Whole(handled)
    BY DEF Framing
  <2> QED
    BY <2>1 DEF Whole
<1>2. {i \in 1 .. Len(handled) : handled[i].clean} = 1 .. Len(handled)
  <2>1. \A i : Right(i).clean = TRUE
    BY DEF Right
  <2> QED
    BY <1>1, <2>1, Zenon
<1>3. Len(handled) \in Nat
  BY <1>1
<1>4. Cardinality(1 .. Len(handled)) = Len(handled)
  <2>1. ASSUME NEW n \in Nat PROVE Cardinality(1 .. n) = n
    <3>1. Cardinality(1 .. n) = IF 1 > n THEN 0 ELSE n - 1 + 1
      BY FS_Interval
    <3> QED
      BY <3>1
  <2> QED
    BY <1>3, <2>1
<1> QED
  BY <1>2, <1>3, <1>4 DEF ReaderDone

\* While the stream is clean, the packets handled are those the reader has done.
LEMMA DoneWhenCleanNext == Framing' /\ clean' => ReaderDone' = Len(handled')
<1>1. (Framing /\ clean => ReaderDone = Len(handled) /\ Len(handled) \in Nat)'
  BY DoneWhenClean, PTL
<1> QED
  BY <1>1

\* From there on nothing does.
LEMMA DoneKept ==
  ASSUME TypeOK, ~clean, Return
  PROVE  ReaderDone' = ReaderDone
<1>1. CASE handled' = handled
  BY <1>1 DEF ReaderDone
<1>2. ASSUME NEW k, Dispatch(k) PROVE ReaderDone' = ReaderDone
  <2> DEFINE r == [pkt |-> k, whole |-> \A i \in 1 .. Size(k) : Holds(k, i), clean |-> clean]
  <2>1. handled' = Append(handled, r) /\ ~r.clean
    BY <1>2 DEF Dispatch
  <2> HIDE DEF r
  <2>2. /\ Len(handled') = Len(handled) + 1 /\ Len(handled) \in Nat
        /\ handled'[Len(handled) + 1] = r
        /\ \A i \in 1 .. Len(handled) : handled'[i] = handled[i]
    BY <2>1 DEF TypeOK
  <2>3. {i \in 1 .. Len(handled') : handled'[i].clean}
          = {i \in 1 .. Len(handled) : handled[i].clean}
    BY <2>1, <2>2
  <2> QED
    BY <2>3 DEF ReaderDone
<1>3. handled' = handled \/ \E k : Dispatch(k)
  BY DEF Return, parse_packet, parse_short, parse_zero, parse_other, parse_beyond,
         keep_rest, no_rest
<1> QED
  BY <1>1, <1>2, <1>3

\* recv() is a step of the abstract reader, or none.
LEMMA ReaderReceive ==
  ASSUME Framing, Receive, Framing'
  PROVE  Reader!Take \/ UNCHANGED <<ReaderTaken, ReaderDone>>
<1>1. PICK n \in 1 .. BufSize - rcv_offset : n <= Len(Stream) - pos /\ recv(n)
  BY DEF Receive
<1>2. /\ phase = "recv" /\ pos' = pos + n /\ clean' = (clean /\ CleanCut(pos, n))
      /\ handled' = handled
  BY <1>1 DEF recv
<1>3. ReaderDone' = ReaderDone
  BY <1>2 DEF ReaderDone
<1>4. CASE ~clean
  BY <1>2, <1>3, <1>4 DEF ReaderTaken
<1>5. CASE clean /\ ~clean'
  <2>1. ReaderDone = PacketsIn(pos)
    BY <1>2, <1>5, DoneWhenClean DEF Framing
  <2> QED
    BY <1>3, <1>5, <2>1 DEF ReaderTaken
<1>6. CASE clean /\ clean'
  <2>1. /\ pos \in 0 .. Len(Stream) /\ Boundary(pos) /\ rcv_offset = 0
        /\ ReaderDone = PacketsIn(pos)
    BY <1>2, <1>6, DoneWhenClean DEF Framing
  <2>2. pos' \in pos + 1 .. Len(Stream)
    BY <1>1, <1>2, <2>1, StreamAssumption, BufAssumption
  <2>3. PacketsIn(pos') \in PacketsIn(pos) + 1 .. N
    BY <2>1, <2>2, MorePackets
  <2>4. ReaderTaken = PacketsIn(pos) /\ ReaderTaken' = PacketsIn(pos')
    BY <1>6 DEF ReaderTaken, PacketsIn
  <2> QED
    BY <1>3, <2>1, <2>3, <2>4 DEF Reader!Take
<1> QED
  BY <1>4, <1>5, <1>6

\* So is a call of the receive handler.
LEMMA ReaderReturn ==
  ASSUME TypeOK, Framing, Return, Framing'
  PROVE  Reader!Dispatch \/ UNCHANGED <<ReaderTaken, ReaderDone>>
<1>1. pos' = pos /\ clean' = clean
  BY DEF Return, parse_packet, parse_short, parse_zero, parse_other,
         parse_beyond, keep_rest, no_rest, Advance
<1>2. CASE ~clean
  BY <1>1, <1>2, DoneKept DEF ReaderTaken
<1>3. CASE clean
  <2>1. /\ ReaderDone = Len(handled) /\ ReaderTaken = PacketsIn(pos)
        /\ ReaderDone' = Len(handled') /\ ReaderTaken' = ReaderTaken /\ Len(handled) \in Nat
    <3>1. ReaderDone = Len(handled) /\ Len(handled) \in Nat
      BY <1>3, DoneWhenClean
    <3>2. ReaderDone' = Len(handled')
      <4>1. Framing' /\ clean'
        BY <1>1, <1>3
      <4> QED
        BY <4>1, DoneWhenCleanNext
    <3> QED
      BY <1>1, <1>3, <3>1, <3>2 DEF ReaderTaken, PacketsIn
  <2>2. CASE phase = "parse"
    <3> DEFINE k == Len(handled) + 1
               b == pos - left
    <3>1. parse_packet(k)
      BY <1>3, <2>2, OnlyThatPacket
    <3>2. handled \in Seq(Dispatched) /\ Len(handled') = Len(handled) + 1
      BY <1>3, <3>1 DEF Framing, parse_packet, Dispatch
    <3>3. Len(handled) < PacketsIn(pos)
      <4>1. /\ b \in Nat /\ left \in Nat /\ Boundary(b) /\ PacketsIn(b) = Len(handled)
            /\ pos \in 0 .. Len(Stream) /\ left # 0
        <5>1. b \in Nat /\ left \in Nat
          BY <1>3, <2>2, PacketAhead
        <5> QED
          BY <1>3, <2>2, <5>1, BufAssumption DEF Framing, Parsing
      <4>2. b \in 0 .. Len(Stream) /\ pos \in b + 1 .. Len(Stream)
        BY <4>1, StreamAssumption
      <4> HIDE DEF b
      <4>3. PacketsIn(pos) \in PacketsIn(b) + 1 .. N /\ PacketsIn(b) \in Nat
        BY <4>1, <4>2, MorePackets
      <4> QED
        BY <4>1, <4>3, PacketAssumption
    <3> QED
      BY <2>1, <3>2, <3>3 DEF Reader!Dispatch
  <2>3. CASE phase # "parse"
    <3>1. handled' = handled
      BY <2>3 DEF Return, parse_packet, parse_short, parse_zero, parse_other,
         parse_beyond, keep_rest, no_rest
    <3> QED
      BY <2>1, <3>1
  <2> QED
    BY <2>2, <2>3
<1> QED
  BY <1>2, <1>3

\* Up to the first piece that is not clean, mqttnox_tcp_rcv_func takes the steps of
\* the packet-level reader: it takes packets only when all it took before are
\* dispatched, and dispatches them one at a time; from there on the reader stands
\* still.  (That it does not stand still before is checked, not proved.)
THEOREM ReaderImplemented == Spec => Reader!Steps
<1>1. Init => Reader!Init
  <2> SUFFICES ASSUME Init PROVE Reader!Init
    OBVIOUS
  <2>1. handled = <<>> /\ pos = 0 /\ clean = TRUE
    BY DEF Init
  <2>2. {i \in 1 .. Len(handled) : handled[i].clean} = {}
    BY <2>1
  <2>3. ReaderDone = 0
    BY <2>2, FS_EmptySet DEF ReaderDone
  <2>4. ReaderTaken = 0
    BY <2>1 DEF ReaderTaken, PacketsIn
  <2> QED
    BY <2>3, <2>4 DEF Reader!Init
<1>2. TypeOK /\ Framing /\ Framing' /\ [Next]_vars
        => [Reader!Next]_<<ReaderTaken, ReaderDone>>
  <2>1. ASSUME UNCHANGED vars PROVE UNCHANGED <<ReaderTaken, ReaderDone>>
    BY <2>1 DEF vars, locals, ReaderTaken, ReaderDone, PacketsIn
  <2> QED
    BY <2>1, ReaderReceive, ReaderReturn DEF Next, Reader!Next
<1> QED
  BY <1>1, <1>2, FramingInvariant, RcvTypeCorrect, PTL DEF Spec, Reader!Steps
=============================================================================
