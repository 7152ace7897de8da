--------------------------- MODULE InboundProofs ---------------------------
(***************************************************************************)
(* Proofs about Inbound: what the handlers read out of a packet is what    *)
(* the broker put into it, and what the callback prints of it.             *)
(***************************************************************************)
EXTENDS Inbound, SequenceFacts

----------------------------------------------------------------------------
(* The broker's packets                                                    *)

\* The fields of a packet, by its type.
LEMMA Kinds ==
  ASSUME NEW p \in Packets
  PROVE  /\ p.type \in {"PUBLISH", "PUBACK", "PUBREC", "PUBREL", "PUBCOMP",
                        "UNSUBACK", "SUBACK", "CONNACK"}
         /\ p.type = "PUBLISH" => p \in Publish
         /\ p.type \in {"PUBACK", "PUBREC", "PUBREL", "PUBCOMP", "UNSUBACK"} => p \in Ack
         /\ p.type = "SUBACK" => p \in Suback
         /\ p.type = "CONNACK" => p \in Connack
<1>1. p \in Publish \cup Ack \cup Suback \cup Connack
  BY InboundAssumption DEF Packet
<1> QED
  BY <1>1 DEF Publish, Ack, Suback, Connack

\* An identifier is two bytes.
LEMMA IdentIs ==
  ASSUME NEW i \in Ident
  PROVE  i \in Seq(Nat) /\ Len(i) = 2 /\ i[1] \in Byte /\ i[2] \in Byte /\ i = <<i[1], i[2]>>
<1>1. PICK a \in Byte, b \in Byte : i = <<a, b>>
  BY DEF Ident
<1>2. a \in Nat /\ b \in Nat
  BY DEF Byte
<1>3. <<a, b>> \in Seq(Nat) /\ Len(<<a, b>>) = 2 /\ <<a, b>>[1] = a /\ <<a, b>>[2] = b
  BY <1>2
<1> QED
  BY <1>1, <1>3

\* The characters of a text.
LEMMA TextIs ==
  ASSUME NEW t \in Text
  PROVE  t \in Seq(Nat) /\ Len(t) \in Nat /\ \A k \in 1 .. Len(t) : t[k] \in 1 .. 255
<1>1. t \in Seq(1 .. 255)
  BY DEF Text
<1>2. Len(t) \in Nat /\ \A k \in 1 .. Len(t) : t[k] \in 1 .. 255
  BY <1>1, ElementOfSeq, LenProperties
<1>3. 1 .. 255 \subseteq Nat
  OBVIOUS
<1>4. t \in Seq(Nat)
  BY <1>1, <1>3, SeqMonotonic
<1> QED
  BY <1>2, <1>4

\* Where the parts of four sequences put together are.
Joined(s, a, b, c, d) ==
  /\ Len(s) = Len(a) + Len(b) + Len(c) + Len(d)
  /\ \A k \in 1 .. Len(a) : s[k] = a[k]
  /\ \A k \in 1 .. Len(b) : s[Len(a) + k] = b[k]
  /\ \A k \in 1 .. Len(c) : s[Len(a) + Len(b) + k] = c[k]
  /\ \A k \in 1 .. Len(d) : s[Len(a) + Len(b) + Len(c) + k] = d[k]

\* Four sequences put together.
LEMMA JoinedIs ==
  ASSUME NEW a \in Seq(Nat), NEW b \in Seq(Nat), NEW c \in Seq(Nat), NEW d \in Seq(Nat)
  PROVE  a \o b \o c \o d \in Seq(Nat) /\ Joined(a \o b \o c \o d, a, b, c, d)
<1>1. a \o b \in Seq(Nat) /\ a \o b \o c \in Seq(Nat) /\ a \o b \o c \o d \in Seq(Nat)
  BY ConcatProperties
<1>2. /\ Len(a) \in Nat /\ Len(b) \in Nat /\ Len(c) \in Nat /\ Len(d) \in Nat
  BY LenProperties
<1>3. /\ Len(a \o b) = Len(a) + Len(b)
      /\ \A k \in 1 .. Len(a) + Len(b) :
           (a \o b)[k] = IF k <= Len(a) THEN a[k] ELSE b[k - Len(a)]
  BY ConcatProperties
<1>4. /\ Len(a \o b \o c) = Len(a \o b) + Len(c)
      /\ \A k \in 1 .. Len(a \o b) + Len(c) :
           (a \o b \o c)[k] = IF k <= Len(a \o b) THEN (a \o b)[k] ELSE c[k - Len(a \o b)]
  BY <1>1, ConcatProperties
<1>5. /\ Len(a \o b \o c \o d) = Len(a \o b \o c) + Len(d)
      /\ \A k \in 1 .. Len(a \o b \o c) + Len(d) :
           (a \o b \o c \o d)[k] =
             IF k <= Len(a \o b \o c) THEN (a \o b \o c)[k] ELSE d[k - Len(a \o b \o c)]
  BY <1>1, ConcatProperties
<1> QED
  BY <1>1, <1>2, <1>3, <1>4, <1>5 DEF Joined

\* Two sequences put together, the first of which is a byte.
LEMMA FramedIs ==
  ASSUME NEW h \in Nat, NEW r \in Seq(Nat), NEW b \in Seq(Nat)
  PROVE  LET s == <<h>> \o r \o b
         IN /\ s \in Seq(Nat) /\ Len(s) = 1 + Len(r) + Len(b) /\ s[1] = h
            /\ \A k \in 1 .. Len(r) : s[1 + k] = r[k]
            /\ \A k \in 1 .. Len(b) : s[1 + Len(r) + k] = b[k]
<1>1. <<h>> \in Seq(Nat) /\ Len(<<h>>) = 1 /\ <<h>>[1] = h
  OBVIOUS
<1>2. Len(r) \in Nat /\ Len(b) \in Nat
  BY LenProperties
<1>3. /\ <<h>> \o r \in Seq(Nat) /\ Len(<<h>> \o r) = 1 + Len(r)
      /\ \A k \in 1 .. 1 + Len(r) :
           (<<h>> \o r)[k] = IF k <= 1 THEN <<h>>[k] ELSE r[k - 1]
  BY <1>1, ConcatProperties
<1>4. /\ <<h>> \o r \o b \in Seq(Nat) /\ Len(<<h>> \o r \o b) = Len(<<h>> \o r) + Len(b)
      /\ \A k \in 1 .. Len(<<h>> \o r) + Len(b) :
           (<<h>> \o r \o b)[k] =
             IF k <= Len(<<h>> \o r) THEN (<<h>> \o r)[k] ELSE b[k - Len(<<h>> \o r)]
  BY <1>3, ConcatProperties
<1> QED
  BY <1>1, <1>2, <1>3, <1>4

\* The parts of a PUBLISH.
IdPart(p) == IF p.qos > 0 THEN p.id ELSE <<>>
LenPart(p) == <<Len(p.topic) \div 256, Len(p.topic) % 256>>

\* A PUBLISH: the length of its topic, the topic, the identifier, the payload.
LEMMA PublishBody ==
  ASSUME NEW p \in Publish
  PROVE  /\ LenPart(p) \in Seq(Nat) /\ IdPart(p) \in Seq(Nat) /\ BodyOf(p) \in Seq(Nat)
         /\ Joined(BodyOf(p), LenPart(p), p.topic, IdPart(p), p.payload)
<1>1. /\ p.type = "PUBLISH" /\ p.qos \in 0 .. 2 /\ p.id \in Ident
      /\ p.topic \in Text /\ p.payload \in Text
  BY DEF Publish
<1>2. p.topic \in Seq(Nat) /\ p.payload \in Seq(Nat) /\ Len(p.topic) \in Nat
  BY <1>1, TextIs
<1>3. Len(p.topic) \div 256 \in Nat /\ Len(p.topic) % 256 \in Nat
  <2>1. \A n \in Nat : n \div 256 \in Nat /\ n % 256 \in Nat
    OBVIOUS
  <2> QED
    BY <1>2, <2>1, Zenon
<1>4. LenPart(p) \in Seq(Nat)
  <2> DEFINE q == Len(p.topic) \div 256
             m == Len(p.topic) % 256
  <2>1. q \in Nat /\ m \in Nat /\ LenPart(p) = <<q, m>>
    BY <1>3 DEF LenPart
  <2> HIDE DEF q, m
  <2> QED
    BY <2>1
<1>5. IdPart(p) \in Seq(Nat)
  BY <1>1, IdentIs DEF IdPart
<1>6. BodyOf(p) = LenPart(p) \o p.topic \o IdPart(p) \o p.payload
  BY <1>1 DEF BodyOf, LenPart, IdPart
<1> QED
  BY <1>2, <1>4, <1>5, <1>6, JoinedIs

\* The remaining length is one byte or two, and what the code decodes from them.
LEMMA RemainIs ==
  ASSUME NEW n \in Nat
  PROVE  /\ RemainLen(n) \in Seq(Nat) /\ Len(RemainLen(n)) = IF n < LenBase THEN 1 ELSE 2
         /\ n < LenBase => RemainLen(n)[1] = n
         /\ n >= LenBase => /\ RemainLen(n)[1] >= LenBase
                            /\ n = RemainLen(n)[1] - LenBase + RemainLen(n)[2] * LenBase
<1>1. LenBase \in Nat \ {0}
  BY InboundAssumption
<1>2. n \div LenBase \in Nat /\ n % LenBase \in Nat /\ n = LenBase * (n \div LenBase) + (n % LenBase)
  BY <1>1, Division
<1>3. LenBase * (n \div LenBase) = (n \div LenBase) * LenBase
  BY <1>1, <1>2
<1>4. CASE n < LenBase
  BY <1>1, <1>4 DEF RemainLen
<1>5. CASE n >= LenBase
  <2>1. RemainLen(n) = <<LenBase + (n % LenBase), n \div LenBase>>
    BY <1>1, <1>5 DEF RemainLen
  <2>2. LenBase + (n % LenBase) \in Nat
    BY <1>1, <1>2
  <2> DEFINE a == LenBase + (n % LenBase)
             q == n \div LenBase
  <2>3. a \in Nat /\ q \in Nat /\ RemainLen(n) = <<a, q>>
    BY <1>2, <2>1, <2>2
  <2>4. a >= LenBase /\ n = a - LenBase + q * LenBase
    BY <1>1, <1>2, <1>3
  <2> HIDE DEF a, q
  <2>5. RemainLen(n) \in Seq(Nat) /\ Len(RemainLen(n)) = 2
        /\ RemainLen(n)[1] = a /\ RemainLen(n)[2] = q
    BY <2>3
  <2>6. n = RemainLen(n)[1] - LenBase + RemainLen(n)[2] * LenBase
    BY <2>4, <2>5, Zenon
  <2>7. /\ Len(RemainLen(n)) = IF n < LenBase THEN 1 ELSE 2
        /\ n < LenBase => RemainLen(n)[1] = n
        /\ RemainLen(n)[1] >= LenBase
    <3>1. ~(n < LenBase)
      BY <1>1, <1>5
    <3> QED
      BY <2>4, <2>5, <3>1, Zenon
  <2> QED
    BY <2>5, <2>6, <2>7, Zenon
<1> QED
  BY <1>1, <1>4, <1>5

\* The bytes behind the fixed header.
LEMMA BodyType ==
  ASSUME NEW p \in Packets
  PROVE  BodyOf(p) \in Seq(Nat)
<1>1. CASE p.type = "PUBLISH"
  BY <1>1, Kinds, PublishBody
<1>2. CASE p.type \in {"PUBACK", "PUBREC", "PUBREL", "PUBCOMP", "UNSUBACK"}
  <2>1. p.id \in Ident
    BY <1>2, Kinds DEF Ack
  <2>2. BodyOf(p) = p.id
    BY <1>2 DEF BodyOf
  <2> QED
    BY <2>1, <2>2, IdentIs
<1>3. CASE p.type = "SUBACK"
  <2>1. p.id \in Ident /\ p.code \in Nat
    BY <1>3, Kinds DEF Suback, Byte
  <2>2. BodyOf(p) = p.id \o <<p.code>>
    BY <1>3 DEF BodyOf
  <2>3. p.id \in Seq(Nat) /\ <<p.code>> \in Seq(Nat)
    BY <2>1, IdentIs
  <2> QED
    BY <2>2, <2>3, ConcatProperties
<1>4. CASE p.type = "CONNACK"
  <2>1. p.session \in Nat /\ p.code \in Nat
    BY <1>4, Kinds DEF Connack, Byte
  <2>2. BodyOf(p) = <<p.session, p.code>>
    BY <1>4 DEF BodyOf
  <2> QED
    BY <2>1, <2>2
<1> QED
  BY <1>1, <1>2, <1>3, <1>4, Kinds

\* The flags and the type of a fixed header.
LEMMA FlagsType ==
  ASSUME NEW p \in Packets
  PROVE  /\ Flags(p) \in {0, 2, 4}
         /\ p.type = "PUBLISH" => Flags(p) = p.qos * 2 /\ p.qos \in 0 .. 2
         /\ TypeNum[p.type] \in {2, 3, 4, 5, 6, 7, 9, 11}
<1>1. CASE p.type = "PUBLISH"
  <2>1. p.qos \in {0, 1, 2}
    BY <1>1, Kinds DEF Publish
  <2>2. Flags(p) = p.qos * 2
    BY <1>1 DEF Flags
  <2>3. TypeNum[p.type] = 3
    BY <1>1 DEF TypeNum
  <2> QED
    BY <2>1, <2>2, <2>3
<1>2. CASE p.type # "PUBLISH"
  <2>1. Flags(p) \in {0, 2}
    BY <1>2 DEF Flags
  <2>2. TypeNum[p.type] \in {2, 3, 4, 5, 6, 7, 9, 11}
    BY Kinds DEF TypeNum
  <2> QED
    BY <1>2, <2>1, <2>2
<1> QED
  BY <1>1, <1>2

\* Where the parts of a packet are.
LEMMA BytesAre ==
  ASSUME NEW p \in Packets
  PROVE  LET b == BodyOf(p)
             r == RemainLen(Len(BodyOf(p)))
             s == BytesOf(p)
         IN /\ Len(b) \in Nat /\ Len(r) \in 1 .. 2
            /\ s \in Seq(Nat) /\ Len(s) = 1 + Len(r) + Len(b) /\ Len(s) <= BufSize
            /\ s[1] = TypeNum[p.type] * 16 + Flags(p)
            /\ \A k \in 1 .. Len(r) : s[1 + k] = r[k]
            /\ \A k \in 1 .. Len(b) : s[1 + Len(r) + k] = b[k]
<1> DEFINE b == BodyOf(p)
           r == RemainLen(Len(BodyOf(p)))
           h == TypeNum[p.type] * 16 + Flags(p)
<1>1. b \in Seq(Nat) /\ Len(b) \in Nat
  BY BodyType, LenProperties
<1>2. r \in Seq(Nat) /\ Len(r) \in 1 .. 2
  BY <1>1, RemainIs
<1>3. h \in Nat
  BY FlagsType
<1>4. BytesOf(p) = <<h>> \o r \o b
  BY DEF BytesOf
<1>5. Len(BytesOf(p)) <= BufSize
  BY InboundAssumption
<1> HIDE DEF b, r, h
<1>6. /\ BytesOf(p) \in Seq(Nat) /\ Len(BytesOf(p)) = 1 + Len(r) + Len(b) /\ BytesOf(p)[1] = h
      /\ \A k \in 1 .. Len(r) : BytesOf(p)[1 + k] = r[k]
      /\ \A k \in 1 .. Len(b) : BytesOf(p)[1 + Len(r) + k] = b[k]
  BY <1>1, <1>2, <1>3, <1>4, FramedIs
<1> QED
  BY <1>1, <1>2, <1>5, <1>6 DEF b, r, h

----------------------------------------------------------------------------
(* What the handlers read                                                  *)

\* The packet p lies at the beginning of rcv_buf.
Held(p) == \A j \in 0 .. Len(BytesOf(p)) - 1 : rcv_buf[j] = BytesOf(p)[j + 1]

\* The type, the QoS, and what the remaining length says.
LEMMA HeaderRead ==
  ASSUME NEW p \in Packets, Held(p)
  PROVE  /\ HdrType = TypeNum[p.type]
         /\ p.type = "PUBLISH" => HdrQos = p.qos
         /\ LenBytes = Len(RemainLen(Len(BodyOf(p)))) /\ LenBytes \in 1 .. 2
         /\ RemainLength = Len(BodyOf(p))
         /\ \A k \in 1 .. Len(BodyOf(p)) : data(LenBytes + k) = BodyOf(p)[k]
         /\ Len(BodyOf(p)) \in Nat /\ 1 + LenBytes + Len(BodyOf(p)) <= BufSize
<1> DEFINE b == BodyOf(p)
           r == RemainLen(Len(BodyOf(p)))
           n == Len(BodyOf(p))
<1>1. /\ n \in Nat /\ Len(r) \in 1 .. 2
      /\ Len(BytesOf(p)) = 1 + Len(r) + n /\ Len(BytesOf(p)) <= BufSize
      /\ BytesOf(p)[1] = TypeNum[p.type] * 16 + Flags(p)
      /\ \A k \in 1 .. Len(r) : BytesOf(p)[1 + k] = r[k]
      /\ \A k \in 1 .. n : BytesOf(p)[1 + Len(r) + k] = b[k]
  BY BytesAre
<1>2. /\ Len(r) = IF n < LenBase THEN 1 ELSE 2
      /\ n < LenBase => r[1] = n
      /\ n >= LenBase => r[1] >= LenBase /\ n = r[1] - LenBase + r[2] * LenBase
  BY <1>1, RemainIs
<1> HIDE DEF b, r, n
<1>3. /\ data(0) = TypeNum[p.type] * 16 + Flags(p)
      /\ data(1) = r[1] /\ (Len(r) = 2 => data(2) = r[2])
      /\ \A k \in 1 .. n : data(Len(r) + k) = b[k]
  BY <1>1, SMTT(30) DEF Held, data
<1>4. /\ Flags(p) \in {0, 2, 4} /\ TypeNum[p.type] \in {2, 3, 4, 5, 6, 7, 9, 11}
      /\ p.type = "PUBLISH" => Flags(p) = p.qos * 2 /\ p.qos \in 0 .. 2
  BY FlagsType
<1>5. HdrType = TypeNum[p.type]
  BY <1>3, <1>4 DEF HdrType
<1>6. ASSUME p.type = "PUBLISH" PROVE HdrQos = p.qos
  <2>1. TypeNum[p.type] = 3
    BY <1>6 DEF TypeNum
  <2>2. p.qos \in {0, 1, 2} /\ data(0) = 48 + p.qos * 2
    BY <1>3, <1>4, <1>6, <2>1
  <2> QED
    BY <2>2 DEF HdrQos
<1>7. LenBase \in Nat /\ r[1] \in Nat /\ (Len(r) = 2 => r[2] \in Nat)
  <2>1. r \in Seq(Nat)
    BY <1>1, RemainIs DEF r, n
  <2> QED
    BY <1>1, <2>1, InboundAssumption, ElementOfSeq
<1>8. ASSUME n < LenBase
      PROVE  LenBytes = Len(r) /\ RemainLength = n
  <2>1. Len(r) = 1 /\ data(1) = n
    BY <1>2, <1>3, <1>8
  <2> QED
    BY <1>8, <2>1, Zenon DEF LenBytes, RemainLength
<1>9. ASSUME n >= LenBase
      PROVE  LenBytes = Len(r) /\ RemainLength = n
  <2>1. ~(n < LenBase)
    BY <1>1, <1>7, <1>9
  <2>2. Len(r) = 2 /\ r[1] >= LenBase /\ n = r[1] - LenBase + r[2] * LenBase
    BY <1>2, <1>9, <2>1, Zenon
  <2>3. ~(r[1] < LenBase)
    BY <1>7, <2>2
  <2>4. RemainLength = n
    BY <1>3, <2>2, <2>3, Zenon DEF RemainLength
  <2>5. LenBytes = 2
    BY <1>3, <2>3, Zenon DEF LenBytes
  <2> QED
    BY <2>2, <2>4, <2>5, Zenon
<1>10. LenBytes = Len(r) /\ RemainLength = n
  <2>1. n < LenBase \/ n >= LenBase
    BY <1>1, <1>7
  <2> QED
    BY <1>8, <1>9, <2>1, Zenon
<1> QED
  BY <1>1, <1>3, <1>5, <1>6, <1>10 DEF b, r, n

\* What a PUBLISH in rcv_buf is read as.
LEMMA PublishFields ==
  ASSUME NEW p \in Packets, p.type = "PUBLISH", Held(p)
  PROVE  /\ HdrQos = p.qos /\ TopicLen = Len(p.topic)
         /\ Sub(TopicAt, TopicLen) = p.topic
         /\ p.qos > 0 => Word(IdentAt) = p.id[1] * 256 + p.id[2]
         /\ Sub(PayloadAt, Len(p.payload)) = p.payload
         /\ TopicAt \in Nat /\ PayloadAt \in Nat
         /\ Len(p.topic) \in Nat /\ TopicAt + Len(p.topic) <= BufSize
         /\ Len(p.payload) \in Nat /\ PayloadAt + Len(p.payload) <= BufSize
         /\ RemainLength = 2 + Len(p.topic) + (IF p.qos > 0 THEN 2 ELSE 0) + Len(p.payload)
<1>1. /\ p.qos \in 0 .. 2 /\ p.id \in Ident /\ p.topic \in Text /\ p.payload \in Text
      /\ p \in Publish
  BY Kinds DEF Publish
<1>2. /\ HdrQos = p.qos /\ LenBytes \in 1 .. 2 /\ RemainLength = Len(BodyOf(p))
      /\ \A k \in 1 .. Len(BodyOf(p)) : data(LenBytes + k) = BodyOf(p)[k]
      /\ Len(BodyOf(p)) \in Nat /\ 1 + LenBytes + Len(BodyOf(p)) <= BufSize
  BY HeaderRead
<1> DEFINE t == Len(p.topic)
           i == IF p.qos > 0 THEN 2 ELSE 0
           m == Len(p.payload)
           b == BodyOf(p)
<1>3. /\ t \in Nat /\ m \in Nat /\ p.topic \in Seq(Nat) /\ p.payload \in Seq(Nat)
      /\ Len(p.topic) = t /\ Len(p.payload) = m
  BY <1>1, TextIs
<1>4. Len(LenPart(p)) = 2 /\ LenPart(p)[1] = t \div 256 /\ LenPart(p)[2] = t % 256
  BY DEF LenPart
<1>5. Len(IdPart(p)) = i
  BY <1>1, IdentIs DEF IdPart
<1>6. p.qos > 0 => IdPart(p)[1] = p.id[1] /\ IdPart(p)[2] = p.id[2]
  BY DEF IdPart
<1>7. i \in 0 .. 2 /\ (p.qos > 0 => i = 2) /\ (p.qos = 0 => i = 0)
  BY <1>1
<1>8. Joined(b, LenPart(p), p.topic, IdPart(p), p.payload)
  BY <1>1, PublishBody
<1> HIDE DEF t, i, m, b
<1>9. /\ t = 256 * (t \div 256) + (t % 256) /\ t \div 256 \in Nat /\ t % 256 \in Nat
  <2>1. \A k \in Nat : k = 256 * (k \div 256) + (k % 256) /\ k \div 256 \in Nat /\ k % 256 \in Nat
    OBVIOUS
  <2>2. t \in Nat
    BY <1>3
  <2> QED
    BY <2>1, <2>2, Zenon
<1>10. /\ Len(b) = 2 + t + i + m
       /\ b[1] = t \div 256 /\ b[2] = t % 256
       /\ \A k \in 1 .. t : b[2 + k] = p.topic[k]
       /\ p.qos > 0 => b[2 + t + 1] = p.id[1] /\ b[2 + t + 2] = p.id[2]
       /\ \A k \in 1 .. m : b[2 + t + i + k] = p.payload[k]
  <2>2. /\ Len(b) = 2 + t + i + m
        /\ \A k \in 1 .. 2 : b[k] = LenPart(p)[k]
        /\ \A k \in 1 .. t : b[2 + k] = p.topic[k]
        /\ \A k \in 1 .. i : b[2 + t + k] = IdPart(p)[k]
        /\ \A k \in 1 .. m : b[2 + t + i + k] = p.payload[k]
    <3>1. Len(LenPart(p)) = 2 /\ Len(p.topic) = t /\ Len(IdPart(p)) = i /\ Len(p.payload) = m
      BY <1>3, <1>4, <1>5
    <3>2. Len(b) = Len(LenPart(p)) + Len(p.topic) + Len(IdPart(p)) + Len(p.payload)
      BY <1>8, Zenon DEF Joined
    <3>3. \A k \in 1 .. Len(LenPart(p)) : b[k] = LenPart(p)[k]
      BY <1>8, Zenon DEF Joined
    <3>4. \A k \in 1 .. Len(p.topic) : b[Len(LenPart(p)) + k] = p.topic[k]
      BY <1>8, Zenon DEF Joined
    <3>5. \A k \in 1 .. Len(IdPart(p)) : b[Len(LenPart(p)) + Len(p.topic) + k] = IdPart(p)[k]
      BY <1>8, Zenon DEF Joined
    <3>6. \A k \in 1 .. Len(p.payload) :
            b[Len(LenPart(p)) + Len(p.topic) + Len(IdPart(p)) + k] = p.payload[k]
      BY <1>8, Zenon DEF Joined
    <3>7. Len(b) = 2 + t + i + m
      BY <3>1, <3>2, Zenon
    <3>8. \A k \in 1 .. 2 : b[k] = LenPart(p)[k]
      BY <3>1, <3>3, Zenon
    <3>9. \A k \in 1 .. t : b[2 + k] = p.topic[k]
      BY <3>1, <3>4, Zenon
    <3>10. \A k \in 1 .. i : b[2 + t + k] = IdPart(p)[k]
      BY <3>1, <3>5, Zenon
    <3>11. \A k \in 1 .. m : b[2 + t + i + k] = p.payload[k]
      BY <3>1, <3>6, Zenon
    <3> QED
      BY <3>7, <3>8, <3>9, <3>10, <3>11, Zenon
  <2>4. 1 \in 1 .. 2 /\ 2 \in 1 .. 2
    OBVIOUS
  <2>5. p.qos > 0 => b[2 + t + 1] = IdPart(p)[1] /\ b[2 + t + 2] = IdPart(p)[2]
    BY <1>7, <2>2, <2>4, Zenon
  <2>6. b[1] = LenPart(p)[1] /\ b[2] = LenPart(p)[2]
    BY <2>2, <2>4, Zenon
  <2> QED
    BY <1>4, <1>6, <2>2, <2>5, <2>6, Zenon
<1> DEFINE l == LenBytes
<1>11. l \in 1 .. 2 /\ (\A k \in 1 .. Len(b) : data(l + k) = b[k])
      /\ 1 + l + Len(b) <= BufSize
  BY <1>2 DEF b
<1> HIDE DEF l
<1>12. TopicLen = t
  <2>1. data(l + 1) = t \div 256 /\ data(l + 2) = t % 256
    BY <1>3, <1>7, <1>9, <1>11, <1>10
  <2>2. TopicLen = data(1 + l) * 256 + data(1 + l + 1)
    BY DEF TopicLen, Word, l
  <2>3. 1 + l = l + 1 /\ 1 + l + 1 = l + 2
    BY <1>11
  <2> QED
    BY <1>3, <1>9, <2>1, <2>2, <2>3
<1>13. TopicAt = l + 3 /\ IdentAt = l + 3 + t /\ PayloadAt = l + 3 + t + i
  <2>1. TopicAt = 1 + l + 2
    BY DEF TopicAt, l
  <2>2. IdentAt = TopicAt + t
    BY <1>12 DEF IdentAt
  <2>3. PayloadAt = IF p.qos = 0 THEN IdentAt ELSE IdentAt + 2
    BY <1>2 DEF PayloadAt
  <2> QED
    BY <1>1, <1>3, <1>7, <1>11, <2>1, <2>2, <2>3
<1>14. Sub(TopicAt, TopicLen) = p.topic
  <2>1. ASSUME NEW k \in 1 .. t PROVE data(TopicAt + k - 1) = p.topic[k]
    <3>1. 2 + k \in 1 .. Len(b) /\ TopicAt + k - 1 = l + (2 + k)
      BY <1>3, <1>7, <1>9, <1>11, <1>10, <1>13
    <3>2. data(l + (2 + k)) = b[2 + k] /\ b[2 + k] = p.topic[k]
      BY <1>11, <1>10, <3>1, Zenon
    <3> QED
      BY <3>1, <3>2, Zenon
  <2>2. Sub(TopicAt, t) = [k \in 1 .. t |-> data(TopicAt + k - 1)]
    BY DEF Sub
  <2>3. p.topic = [k \in 1 .. t |-> p.topic[k]]
    BY <1>3 DEF t
  <2> QED
    BY <1>12, <2>1, <2>2, <2>3
<1>15. p.qos > 0 => Word(IdentAt) = p.id[1] * 256 + p.id[2]
  <2> SUFFICES ASSUME p.qos > 0 PROVE Word(IdentAt) = p.id[1] * 256 + p.id[2]
    OBVIOUS
  <2>1. /\ 2 + t + 1 \in 1 .. Len(b) /\ 2 + t + 2 \in 1 .. Len(b)
        /\ IdentAt = l + (2 + t + 1) /\ IdentAt + 1 = l + (2 + t + 2)
    BY <1>3, <1>7, <1>9, <1>11, <1>10, <1>13
  <2>2. data(IdentAt) = p.id[1] /\ data(IdentAt + 1) = p.id[2]
    BY <1>10, <1>11, <2>1, Zenon
  <2> QED
    BY <2>2 DEF Word
<1>16. Sub(PayloadAt, m) = p.payload
  <2>1. ASSUME NEW k \in 1 .. m PROVE data(PayloadAt + k - 1) = p.payload[k]
    <3>1. 2 + t + i + k \in 1 .. Len(b) /\ PayloadAt + k - 1 = l + (2 + t + i + k)
      BY <1>3, <1>7, <1>9, <1>11, <1>10, <1>13
    <3>2. data(l + (2 + t + i + k)) = b[2 + t + i + k] /\ b[2 + t + i + k] = p.payload[k]
      BY <1>11, <1>10, <3>1, Zenon
    <3> QED
      BY <3>1, <3>2, Zenon
  <2>2. Sub(PayloadAt, m) = [k \in 1 .. m |-> data(PayloadAt + k - 1)]
    BY DEF Sub
  <2>3. p.payload = [k \in 1 .. m |-> p.payload[k]]
    BY <1>3 DEF m
  <2> QED
    BY <2>1, <2>2, <2>3
<1>17. RemainLength = 2 + t + i + m
  BY <1>2, <1>10 DEF b
<1>9a. BufSize \in Nat
  BY InboundAssumption
<1>19. TopicAt \in Nat /\ PayloadAt \in Nat /\ TopicAt + t <= BufSize /\ PayloadAt + m <= BufSize
  <2>1. Len(b) = 2 + t + i + m
    BY <1>10, Zenon
  <2> QED
    BY <1>3, <1>7, <1>11, <1>13, <1>9a, <2>1
<1> QED
  BY <1>2, <1>3, <1>12, <1>14, <1>15, <1>16, <1>17, <1>19 DEF t, i, m

\* The two bytes of an identifier lie behind the header.
LEMMA AckFields ==
  ASSUME NEW p \in Packets, p.type \in {"PUBACK", "UNSUBACK"}, Held(p)
  PROVE  Sub(AckAt, 2) = p.id
<1>1. p.id \in Ident /\ BodyOf(p) = p.id
  BY Kinds DEF Ack, BodyOf
<1>2. /\ p.id \in Seq(Nat) /\ Len(p.id) = 2
  BY <1>1, IdentIs
<1>3. LenBytes = 1 /\ \A k \in 1 .. 2 : data(LenBytes + k) = p.id[k]
  <2>1. LenBytes = Len(RemainLen(2)) /\ \A k \in 1 .. 2 : data(LenBytes + k) = p.id[k]
    BY <1>1, <1>2, HeaderRead
  <2>2. 2 \in Nat /\ 2 < LenBase
    BY InboundAssumption
  <2> QED
    BY <2>1, <2>2, RemainIs
<1>4. data(2) = p.id[1] /\ data(3) = p.id[2]
  BY <1>3
<1>5. Sub(AckAt, 2) = [k \in 1 .. 2 |-> data(2 + k - 1)]
  BY DEF Sub, AckAt
<1>6. p.id = [k \in 1 .. 2 |-> p.id[k]]
  BY <1>2
<1> QED
  BY <1>4, <1>5, <1>6

\* A number that is reduced by the modulus once.
LEMMA WrapsOnce ==
  ASSUME NEW d \in Nat \ {0}, NEW n \in Nat, n < d
  PROVE  (n + d) % d = n
<1> DEFINE q == (n + d) \div d
           r == (n + d) % d
<1>1. q \in Nat /\ r \in 0 .. d - 1 /\ n + d = d * q + r
  BY Division
<1> HIDE DEF q, r
<1>2. q = 0 => d * q = 0
  BY <1>1
<1>3. q = 1 => d * q = d
  BY <1>1
<1>4. q >= 2 => d * q >= d + d
  <2>1. \A k \in Nat : k >= 2 => d * k >= d * 2
    OBVIOUS
  <2> QED
    BY <1>1, <2>1
<1>5. q = 1
  BY <1>1, <1>2, <1>4
<1>6. n = r
  BY <1>1, <1>3, <1>5
<1> QED
  BY <1>6 DEF r

\* The payload length, in sixteen bits: right for QoS 1 and 2, and too short by
\* the two bytes of the identifier that a QoS 0 packet does not have.
LEMMA PayloadLenIs ==
  ASSUME NEW p \in Packets, p.type = "PUBLISH", Held(p)
  PROVE  /\ PayloadLen \in 0 .. WordMod - 1
         /\ p.qos > 0 => PayloadLen = Len(p.payload)
         /\ p.qos = 0 => PayloadLen = IF Len(p.payload) >= 2 THEN Len(p.payload) - 2
                                     ELSE Len(p.payload) + WordMod - 2
<1> DEFINE t == Len(p.topic)
           m == Len(p.payload)
<1>1. /\ t \in Nat /\ m \in Nat /\ TopicLen = t
      /\ RemainLength = 2 + t + (IF p.qos > 0 THEN 2 ELSE 0) + m
      /\ PayloadAt \in Nat /\ PayloadAt + m <= BufSize
  BY PublishFields
<1>2. /\ WordMod \in Nat \ {0} /\ BufSize \in Nat /\ BufSize < WordMod /\ WordMod > 2
  BY InboundAssumption
<1>3. p.qos \in 0 .. 2
  BY Kinds DEF Publish
<1> HIDE DEF t, m
<1>4. m < WordMod
  BY <1>1, <1>2
<1>5. CASE p.qos > 0
  <2>1. RemainLength + WordMod - TwoFields - TopicLen = m + WordMod
    BY <1>1, <1>2, <1>5 DEF TwoFields
  <2>2. PayloadLen = m
    BY <1>1, <1>2, <1>4, <2>1, WrapsOnce DEF PayloadLen
  <2> QED
    BY <1>1, <1>2, <1>4, <1>5, <2>2 DEF m
<1>6. CASE p.qos = 0
  <2>1. RemainLength + WordMod - TwoFields - TopicLen = m + WordMod - 2
    BY <1>1, <1>2, <1>6 DEF TwoFields
  <2>2. CASE m >= 2
    <3>1. m - 2 \in Nat /\ m - 2 < WordMod /\ m + WordMod - 2 = (m - 2) + WordMod
      BY <1>1, <1>2, <1>4, <2>2
    <3>2. PayloadLen = m - 2
      BY <1>2, <2>1, <3>1, WrapsOnce DEF PayloadLen
    <3> QED
      BY <1>2, <1>6, <2>2, <3>1, <3>2 DEF m
  <2>3. CASE m < 2
    <3>1. m + WordMod - 2 \in Nat /\ m + WordMod - 2 < WordMod
      BY <1>1, <1>2, <2>3
    <3>2. PayloadLen = m + WordMod - 2
      BY <1>2, <2>1, <3>1, SmallDivision DEF PayloadLen
    <3> QED
      BY <1>1, <1>2, <1>6, <2>3, <3>1, <3>2 DEF m
  <2> QED
    BY <1>1, <2>2, <2>3
<1> QED
  BY <1>3, <1>5, <1>6

----------------------------------------------------------------------------
(* What printf prints                                                      *)

\* A buffer that begins with n characters, and has a zero, is printed from the
\* first of them on, and no further when zeros follow.
LEMMA CStringIs ==
  ASSUME NEW b \in [0 .. AppBuf - 1 -> Nat], NEW n \in 0 .. AppBuf, Ended(b),
         \A j \in 0 .. n - 1 : b[j] # 0
  PROVE  /\ CString(b) \in Seq(Nat) /\ Len(CString(b)) >= n
         /\ \A k \in 1 .. n : CString(b)[k] = b[k - 1]
         /\ (\A j \in n .. AppBuf - 1 : b[j] = 0) => Len(CString(b)) = n
<1> DEFINE ends == {e \in 0 .. AppBuf - 1 : b[e] = 0}
           len == CHOOSE e \in ends : \A m \in ends : e <= m
<1>1. AppBuf \in Nat
  BY InboundAssumption
<1>2. ends # {}
  BY DEF Ended
<1>3. /\ len \in 0 .. AppBuf /\ len >= n
      /\ (\A j \in n .. AppBuf - 1 : b[j] = 0) => len = n
  <2>1. ends \in SUBSET Nat
    OBVIOUS
  <2>2. \E e \in ends : \A m \in ends : e <= m
    BY <1>2, <2>1, LeastNumber
  <2>3. len \in ends /\ \A m \in ends : len <= m
    BY <2>2
  <2>4. len \in 0 .. AppBuf - 1 /\ b[len] = 0
    BY <2>3
  <2>5. n < AppBuf /\ b[n] = 0 => n \in ends
    BY <1>1
  <2>6. n < AppBuf => n \in n .. AppBuf - 1
    BY <1>1
  <2> HIDE DEF len, ends
  <2>7. len >= n
    BY <1>1, <2>4
  <2> QED
    BY <1>1, <2>3, <2>4, <2>5, <2>6, <2>7
<1>4. len \in 0 .. AppBuf /\ len >= n /\ ((\A j \in n .. AppBuf - 1 : b[j] = 0) => len = n)
  BY <1>3
<1>5. CString(b) = [k \in 1 .. len |-> b[k - 1]]
  BY DEF CString
<1> HIDE DEF len
<1>6. \A k \in 1 .. len : b[k - 1] \in Nat
  BY <1>1, <1>4
<1>7. [k \in 1 .. len |-> b[k - 1]] \in [1 .. len -> Nat] /\ len \in Nat
  BY <1>1, <1>4, <1>6
<1>8. CString(b) \in Seq(Nat) /\ Len(CString(b)) = len
  BY <1>5, <1>7, FunctionSeq
<1>9. \A k \in 1 .. n : CString(b)[k] = b[k - 1]
  BY <1>1, <1>4, <1>5
<1> QED
  BY <1>4, <1>8, <1>9

----------------------------------------------------------------------------
(* The inductive invariant                                                 *)

\* While a packet is handled it lies at the beginning of rcv_buf.
Handling == phase \in {"dispatch", "event"} => pkt \in Packets /\ Held(pkt)

\* An event is what its handler has read from rcv_buf.
Announced ==
  /\ phase = "event" /\ evt.evt_id = "RECEIVED" => pkt.type = "PUBLISH"
  /\ IsEvent("PUBLISH") =>
       /\ evt.evt_id = "RECEIVED" /\ evt.topic = TopicAt /\ evt.topic_len = TopicLen
       /\ evt.payload = PayloadAt /\ evt.payload_len = PayloadLen
       /\ pkt.qos > 0 => /\ evt.id = Word(IdentAt)
                         /\ reply = [fn |-> IF pkt.qos = 1 THEN "puback" ELSE "pubrec",
                                     id |-> Word(IdentAt)]
  /\ IsEvent("PUBACK") \/ IsEvent("UNSUBACK") => evt.id = Sub(AckAt, 2)

\* Behind the longest payload so far the callback's buffer is clear.
Zeroed == \A j \in longest .. AppBuf - 1 : payload[j] = 0

InboundInv == TypeOK /\ Handling /\ Announced /\ Zeroed /\ PrintedRight /\ CopiesFit

\* Nothing is received at the beginning.
LEMMA InboundInit == Init => InboundInv
<1> SUFFICES ASSUME Init PROVE InboundInv
  OBVIOUS
<1> USE InboundAssumption
<1>1. /\ rcv_buf \in [0 .. BufSize - 1 -> Nat] /\ topic \in [0 .. AppBuf - 1 -> Nat]
      /\ payload \in [0 .. AppBuf - 1 -> Nat] /\ \A j \in 0 .. AppBuf - 1 : payload[j] = 0
  BY DEF Init, Zeros
<1>2. evt.evt_id = "none"
  BY DEF Init, NoEvent
<1>3. TypeOK
  BY <1>1, <1>2 DEF Init, TypeOK
<1> QED
  BY <1>1, <1>3 DEF Init, InboundInv, Handling, Announced, Zeroed, PrintedRight, CopiesFit, IsEvent

\* A new packet overwrites the beginning of rcv_buf.
LEMMA ReceiveStep ==
  ASSUME InboundInv, receive
  PROVE  InboundInv'
<1>1. phase = "recv" /\ phase' = "dispatch" /\ count' = count + 1 /\ count < MaxPackets
      /\ UNCHANGED <<evt, topic, payload, printed, longest>>
  BY DEF receive
<1>2. PICK p \in Packets :
        /\ rcv_buf' = [j \in 0 .. BufSize - 1 |->
                         IF j < Len(BytesOf(p)) THEN BytesOf(p)[j + 1] ELSE rcv_buf[j]]
        /\ pkt' = p
  BY DEF receive
<1>3. BytesOf(p) \in Seq(Nat) /\ Len(BytesOf(p)) <= BufSize /\ Len(BytesOf(p)) \in Nat
  BY BytesAre, LenProperties
<1> DEFINE s == BytesOf(p)
<1> HIDE DEF s
<1>4. /\ s \in Seq(Nat) /\ Len(s) <= BufSize /\ Len(s) \in Nat
      /\ rcv_buf' = [j \in 0 .. BufSize - 1 |-> IF j < Len(s) THEN s[j + 1] ELSE rcv_buf[j]]
  BY <1>2, <1>3 DEF s
<1>5. BufSize \in Nat /\ MaxPackets \in Nat
  BY InboundAssumption
<1>6. \A j \in 0 .. Len(s) - 1 : rcv_buf'[j] = s[j + 1]
  BY <1>4, <1>5
<1>7. Held(pkt)'
  BY <1>2, <1>6 DEF Held, s
<1>8. rcv_buf' \in [0 .. BufSize - 1 -> Nat]
  <2>1. rcv_buf \in [0 .. BufSize - 1 -> Nat]
    BY DEF InboundInv, TypeOK
  <2>2. \A k \in 1 .. Len(s) : s[k] \in Nat
    BY <1>4, ElementOfSeq
  <2>3. \A j \in 0 .. BufSize - 1 : (IF j < Len(s) THEN s[j + 1] ELSE rcv_buf[j]) \in Nat
    BY <1>4, <1>5, <2>1, <2>2
  <2> QED
    BY <1>4, <2>3
<1>9. count' \in 0 .. MaxPackets
  BY <1>1, <1>5 DEF InboundInv, TypeOK
<1>10. TypeOK'
  BY <1>1, <1>2, <1>8, <1>9 DEF InboundInv, TypeOK
<1>11. Handling' /\ Announced' /\ PrintedRight' /\ CopiesFit'
  BY <1>1, <1>2, <1>7 DEF Handling, Announced, IsEvent, PrintedRight, CopiesFit
<1>12. Zeroed'
  BY <1>1 DEF InboundInv, Zeroed
<1> QED
  BY <1>10, <1>11, <1>12 DEF InboundInv

----------------------------------------------------------------------------
(* The handlers                                                            *)

\* A packet goes to the handler of its type.
LEMMA HandlesIts ==
  ASSUME NEW x \in DOMAIN TypeNum, Handling, Handles(x)
  PROVE  pkt \in Packets /\ Held(pkt) /\ phase = "dispatch" /\ pkt.type = x
<1>1. pkt \in Packets /\ Held(pkt) /\ phase = "dispatch" /\ HdrType = TypeNum[x]
  BY DEF Handling, Handles
<1>2. TypeNum[pkt.type] = TypeNum[x]
  BY <1>1, HeaderRead
<1>3. pkt.type \in DOMAIN TypeNum
  BY <1>1, Kinds DEF TypeNum
<1>4. \A y, z \in DOMAIN TypeNum : TypeNum[y] = TypeNum[z] => y = z
  BY DEF TypeNum
<1> QED
  BY <1>1, <1>2, <1>3, <1>4

\* What every handler leaves alone.
HandlerLeaves ==
  /\ phase = "dispatch" /\ phase' \in {"event", "recv"}
  /\ UNCHANGED <<rcv_buf, topic, payload, pkt, printed, longest, count>>

\* No handler writes to rcv_buf or to the buffers of the application.
LEMMA HandlersLeave ==
  ASSUME Handler
  PROVE  HandlerLeaves
<1> USE DEF HandlerLeaves, mqttnox_send_event, Silent, Handles
<1>1. CASE mqttnox_handler_connack
  BY <1>1 DEF mqttnox_handler_connack
<1>2. CASE mqttnox_handler_publish
  BY <1>2 DEF mqttnox_handler_publish
<1>3. CASE mqttnox_handler_puback \/ mqttnox_handler_unsuback \/ mqttnox_handler_suback
  BY <1>3 DEF mqttnox_handler_puback, mqttnox_handler_unsuback, mqttnox_handler_suback
<1>4. CASE mqttnox_handler_pubrec \/ mqttnox_handler_pubrel \/ mqttnox_handler_pubcomp
  BY <1>4 DEF mqttnox_handler_pubrec, mqttnox_handler_pubrel, mqttnox_handler_pubcomp
<1> QED
  BY <1>1, <1>2, <1>3, <1>4 DEF Handler

\* What is left to show of a handler.
LEMMA HandlerKeeps ==
  ASSUME InboundInv, HandlerLeaves, Announced',
         evt'.evt_id = "RECEIVED" =>
           evt'.topic_len \in 0 .. BufSize /\ evt'.payload_len \in 0 .. WordMod - 1,
         phase' = "recv" => pkt.type # "PUBLISH"
  PROVE  InboundInv'
<1>1. TypeOK'
  BY DEF InboundInv, TypeOK, HandlerLeaves
<1>2. Handling'
  BY DEF InboundInv, Handling, HandlerLeaves, Held
<1>3. Zeroed'
  BY DEF InboundInv, Zeroed, HandlerLeaves
<1>4. PrintedRight' /\ CopiesFit'
  BY DEF PrintedRight, CopiesFit, HandlerLeaves
<1> QED
  BY <1>1, <1>2, <1>3, <1>4 DEF InboundInv

\* mqttnox_handler_publish announces what it read.
LEMMA PublishStep ==
  ASSUME InboundInv, mqttnox_handler_publish
  PROVE  InboundInv'
<1>1. HandlerLeaves
  BY HandlersLeave DEF Handler
<1>2. pkt \in Packets /\ Held(pkt) /\ pkt.type = "PUBLISH" /\ phase' = "event"
  <2>1. "PUBLISH" \in DOMAIN TypeNum
    BY DEF TypeNum
  <2> QED
    BY <2>1, HandlesIts DEF mqttnox_handler_publish, mqttnox_send_event, InboundInv
<1>3. /\ HdrQos = pkt.qos /\ TopicLen = Len(pkt.topic) /\ Len(pkt.topic) \in Nat
      /\ TopicAt \in Nat /\ TopicAt + Len(pkt.topic) <= BufSize
  BY <1>2, PublishFields
<1>4. pkt.qos \in {0, 1, 2} /\ BufSize \in Nat
  BY <1>2, Kinds, InboundAssumption DEF Publish
<1>5. /\ evt'.evt_id = "RECEIVED" /\ evt'.topic = TopicAt /\ evt'.topic_len = TopicLen
      /\ evt'.payload = PayloadAt /\ evt'.payload_len = PayloadLen
      /\ pkt.qos > 0 => evt'.id = Word(IdentAt)
  BY <1>3, <1>4 DEF mqttnox_handler_publish, mqttnox_send_event
<1>6. pkt.qos > 0 => reply' = [fn |-> IF pkt.qos = 1 THEN "puback" ELSE "pubrec",
                               id |-> Word(IdentAt)]
  <2>1. CASE HdrQos = 1
    <3>1. Replies("puback", Word(IdentAt))
      BY <2>1 DEF mqttnox_handler_publish
    <3> QED
      BY <1>3, <2>1, <3>1 DEF Replies
  <2>2. CASE HdrQos = 2
    <3>1. Replies("pubrec", Word(IdentAt))
      BY <2>2 DEF mqttnox_handler_publish
    <3> QED
      BY <1>3, <2>2, <3>1 DEF Replies
  <2> QED
    BY <1>3, <1>4, <2>1, <2>2
<1>7. /\ TopicAt' = TopicAt /\ TopicLen' = TopicLen /\ PayloadAt' = PayloadAt
      /\ PayloadLen' = PayloadLen /\ Word(IdentAt)' = Word(IdentAt) /\ pkt' = pkt
  BY <1>1 DEF HandlerLeaves, TopicAt, TopicLen, PayloadAt, PayloadLen, IdentAt, HdrQos,
              Word, LenBytes, RemainLength, data
<1>8. Announced'
  BY <1>2, <1>5, <1>6, <1>7 DEF Announced, IsEvent
<1>9. evt'.topic_len \in 0 .. BufSize /\ evt'.payload_len \in 0 .. WordMod - 1
  <2>1. PayloadLen \in 0 .. WordMod - 1
    BY <1>2, PayloadLenIs
  <2>2. TopicLen \in 0 .. BufSize
    BY <1>3, <1>4
  <2> QED
    BY <1>5, <2>1, <2>2
<1> QED
  BY <1>1, <1>2, <1>8, <1>9, HandlerKeeps

\* The handlers of PUBACK and UNSUBACK announce the identifier they read.
LEMMA AckStep ==
  ASSUME InboundInv, mqttnox_handler_puback \/ mqttnox_handler_unsuback
  PROVE  InboundInv'
<1>1. HandlerLeaves
  BY HandlersLeave DEF Handler
<1>2. pkt.type \in {"PUBACK", "UNSUBACK"} /\ phase' = "event"
  <2>1. "PUBACK" \in DOMAIN TypeNum /\ "UNSUBACK" \in DOMAIN TypeNum
    BY DEF TypeNum
  <2>2. Handles("PUBACK") \/ Handles("UNSUBACK")
    BY DEF mqttnox_handler_puback, mqttnox_handler_unsuback
  <2>3. pkt.type \in {"PUBACK", "UNSUBACK"}
    BY <2>1, <2>2, HandlesIts DEF InboundInv
  <2> QED
    BY <2>3 DEF mqttnox_handler_puback, mqttnox_handler_unsuback, mqttnox_send_event
<1>3. evt'.evt_id # "RECEIVED" /\ evt'.id = Sub(AckAt, 2)
  BY DEF mqttnox_handler_puback, mqttnox_handler_unsuback, mqttnox_send_event
<1>4. Sub(AckAt, 2)' = Sub(AckAt, 2) /\ pkt' = pkt
  BY <1>1 DEF HandlerLeaves, Sub, AckAt, data
<1>5. Announced'
  BY <1>2, <1>3, <1>4 DEF Announced, IsEvent
<1> QED
  BY <1>1, <1>2, <1>3, <1>5, HandlerKeeps

\* The other handlers announce nothing that was read from a PUBLISH.
LEMMA OtherStep ==
  ASSUME InboundInv,
         \/ mqttnox_handler_connack \/ mqttnox_handler_suback
         \/ mqttnox_handler_pubrec \/ mqttnox_handler_pubrel \/ mqttnox_handler_pubcomp
  PROVE  InboundInv'
<1>1. HandlerLeaves
  BY HandlersLeave DEF Handler
<1>2. pkt.type \notin {"PUBLISH", "PUBACK", "UNSUBACK"}
  <2>1. {"CONNACK", "SUBACK", "PUBREC", "PUBREL", "PUBCOMP"} \subseteq DOMAIN TypeNum
    BY DEF TypeNum
  <2>2. \E x \in {"CONNACK", "SUBACK", "PUBREC", "PUBREL", "PUBCOMP"} : Handles(x)
    BY DEF mqttnox_handler_connack, mqttnox_handler_suback, mqttnox_handler_pubrec,
           mqttnox_handler_pubrel, mqttnox_handler_pubcomp
  <2> QED
    BY <2>1, <2>2, HandlesIts DEF InboundInv
<1>3. \/ phase' = "event" /\ evt'.evt_id # "RECEIVED"
      \/ phase' = "recv" /\ evt' = evt
  <2>1. CASE mqttnox_handler_connack
    BY <2>1 DEF mqttnox_handler_connack, mqttnox_send_event, Silent
  <2>2. CASE mqttnox_handler_suback
    BY <2>2 DEF mqttnox_handler_suback, mqttnox_send_event
  <2>3. CASE mqttnox_handler_pubrec \/ mqttnox_handler_pubrel \/ mqttnox_handler_pubcomp
    BY <2>3 DEF mqttnox_handler_pubrec, mqttnox_handler_pubrel, mqttnox_handler_pubcomp, Silent
  <2> QED
    BY <2>1, <2>2, <2>3
<1>4. pkt' = pkt
  BY <1>1 DEF HandlerLeaves
<1>5. Announced'
  BY <1>2, <1>3, <1>4 DEF Announced, IsEvent
<1>6. evt'.evt_id = "RECEIVED" =>
        evt'.topic_len \in 0 .. BufSize /\ evt'.payload_len \in 0 .. WordMod - 1
  BY <1>3 DEF InboundInv, TypeOK
<1> QED
  BY <1>1, <1>2, <1>5, <1>6, HandlerKeeps

----------------------------------------------------------------------------
(* The callback                                                            *)

\* What is known of a message when the callback is called.
LEMMA EventOf ==
  ASSUME InboundInv, phase = "event", evt.evt_id = "RECEIVED"
  PROVE  /\ pkt \in Packets /\ pkt.type = "PUBLISH" /\ pkt.qos \in {0, 1, 2}
         /\ pkt.topic \in Text /\ pkt.payload \in Text
         /\ Sub(evt.topic, evt.topic_len) = pkt.topic /\ evt.topic_len = Len(pkt.topic)
         /\ Sub(evt.payload, Len(pkt.payload)) = pkt.payload
         /\ evt.topic \in Nat /\ evt.payload \in Nat
         /\ evt.topic + Len(pkt.topic) <= BufSize /\ Len(pkt.topic) \in Nat
         /\ evt.payload + Len(pkt.payload) <= BufSize /\ Len(pkt.payload) \in Nat
         /\ evt.payload_len \in Nat
         /\ pkt.qos > 0 => evt.payload_len = Len(pkt.payload)
         /\ pkt.qos = 0 =>
              evt.payload_len = IF Len(pkt.payload) >= 2 THEN Len(pkt.payload) - 2
                                ELSE Len(pkt.payload) + WordMod - 2
<1>1. pkt \in Packets /\ Held(pkt) /\ pkt.type = "PUBLISH"
  BY DEF InboundInv, Handling, Announced
<1>2. /\ evt.topic = TopicAt /\ evt.topic_len = TopicLen
      /\ evt.payload = PayloadAt /\ evt.payload_len = PayloadLen
  BY <1>1 DEF InboundInv, Announced, IsEvent
<1>3. pkt.qos \in {0, 1, 2} /\ pkt.topic \in Text /\ pkt.payload \in Text
  BY <1>1, Kinds DEF Publish
<1>4. /\ TopicLen = Len(pkt.topic) /\ Sub(TopicAt, TopicLen) = pkt.topic
      /\ Sub(PayloadAt, Len(pkt.payload)) = pkt.payload
      /\ TopicAt \in Nat /\ PayloadAt \in Nat
      /\ Len(pkt.topic) \in Nat /\ TopicAt + Len(pkt.topic) <= BufSize
      /\ Len(pkt.payload) \in Nat /\ PayloadAt + Len(pkt.payload) <= BufSize
  BY <1>1, PublishFields
<1>5. /\ PayloadLen \in 0 .. WordMod - 1
      /\ pkt.qos > 0 => PayloadLen = Len(pkt.payload)
      /\ pkt.qos = 0 => PayloadLen = IF Len(pkt.payload) >= 2 THEN Len(pkt.payload) - 2
                                     ELSE Len(pkt.payload) + WordMod - 2
  BY <1>1, PayloadLenIs
<1>6. PayloadLen \in Nat
  BY <1>5, InboundAssumption
<1> QED
  BY <1>1, <1>2, <1>3, <1>4, <1>5, <1>6, Zenon

\* What memcpy leaves in a buffer of the callback.
LEMMA Copied ==
  ASSUME NEW b \in [0 .. AppBuf - 1 -> Nat], NEW i \in Nat, NEW n \in 0 .. AppBuf,
         NEW t \in Text, n <= Len(t), Sub(i, Len(t)) = t, i + Len(t) <= BufSize, TypeOK
  PROVE  /\ CopiedInto(b, i, n) \in [0 .. AppBuf - 1 -> Nat]
         /\ \A j \in 0 .. n - 1 : CopiedInto(b, i, n)[j] = t[j + 1] /\ CopiedInto(b, i, n)[j] # 0
         /\ \A j \in n .. AppBuf - 1 : CopiedInto(b, i, n)[j] = b[j]
<1>1. /\ t \in Seq(Nat) /\ Len(t) \in Nat /\ \A k \in 1 .. Len(t) : t[k] \in 1 .. 255
  BY TextIs
<1>2. AppBuf \in Nat /\ BufSize \in Nat
  BY InboundAssumption
<1>3. CopiedInto(b, i, n) = [j \in 0 .. AppBuf - 1 |-> IF j < n THEN data(i + j) ELSE b[j]]
  BY DEF CopiedInto
<1>4. ASSUME NEW j \in 0 .. n - 1
      PROVE  /\ j \in 0 .. AppBuf - 1 /\ data(i + j) = t[j + 1] /\ t[j + 1] \in 1 .. 255
             /\ data(i + j) \in 1 .. 255
  <2>1. j + 1 \in 1 .. Len(t) /\ j \in 0 .. AppBuf - 1 /\ i + (j + 1) - 1 = i + j
    BY <1>1, <1>2
  <2>2. Sub(i, Len(t))[j + 1] = data(i + (j + 1) - 1)
    BY <2>1 DEF Sub
  <2>3. data(i + (j + 1) - 1) = data(i + j)
    BY <2>1, Zenon
  <2>4. data(i + j) = t[j + 1]
    BY <2>2, <2>3, Zenon
  <2> QED
    BY <1>1, <2>1, <2>4, ZenonT(40)
<1>5. ASSUME NEW j \in 0 .. AppBuf - 1
      PROVE  /\ (IF j < n THEN data(i + j) ELSE b[j]) \in Nat
             /\ j < n => j \in 0 .. n - 1
             /\ j \in n .. AppBuf - 1 => ~(j < n)
  <2>1. j < n => j \in 0 .. n - 1
    BY <1>2
  <2>2. j < n => data(i + j) \in 1 .. 255
    <3>1. ASSUME j \in 0 .. n - 1 PROVE data(i + j) \in 1 .. 255
      BY <1>4, <3>1
    <3> QED
      BY <2>1, <3>1, Zenon
  <2>3. \A k \in 1 .. 255 : k \in Nat
    OBVIOUS
  <2>4. ~(j < n) => b[j] \in Nat
    OBVIOUS
  <2>5. (IF j < n THEN data(i + j) ELSE b[j]) \in Nat
    BY <2>2, <2>3, <2>4, Zenon
  <2>6. j \in n .. AppBuf - 1 => ~(j < n)
    BY <1>2
  <2> QED
    BY <2>1, <2>5, <2>6, Zenon
<1>6. \A j \in 0 .. n - 1 : j < n /\ j \in 0 .. AppBuf - 1
  BY <1>2
<1>7. \A j \in n .. AppBuf - 1 : ~(j < n) /\ j \in 0 .. AppBuf - 1
  BY <1>2
<1> DEFINE c == CopiedInto(b, i, n)
<1>8. c \in [0 .. AppBuf - 1 -> Nat]
  BY <1>3, <1>5
<1>9. \A j \in 0 .. n - 1 : c[j] = t[j + 1] /\ c[j] # 0
  <2> TAKE j \in 0 .. n - 1
  <2>1. c[j] = data(i + j)
    BY <1>3, <1>6
  <2>2. t[j + 1] # 0
    <3>1. t[j + 1] \in 1 .. 255
      BY <1>4, Zenon
    <3>2. \A k \in 1 .. 255 : k # 0
      OBVIOUS
    <3> QED
      BY <3>1, <3>2, Zenon
  <2> QED
    BY <1>4, <2>1, <2>2, Zenon
<1>10. \A j \in n .. AppBuf - 1 : c[j] = b[j]
  BY <1>3, <1>7
<1> QED
  BY <1>8, <1>9, <1>10

\* The callback copies and prints a topic and a payload that fit.
LEMMA CallbackReceived ==
  ASSUME InboundInv, callback_received
  PROVE  InboundInv'
<1> DEFINE t == pkt.topic
           m == pkt.payload
           n == evt.payload_len
<1>1. /\ phase = "event" /\ evt.evt_id = "RECEIVED" /\ phase' = "recv"
      /\ evt.topic_len <= AppBuf /\ evt.payload_len <= AppBuf
      /\ Ended(topic') /\ Ended(payload')
      /\ topic' = CopiedInto(ClearedTopic, evt.topic, evt.topic_len)
      /\ payload' = CopiedInto(payload, evt.payload, evt.payload_len)
      /\ printed' = [topic |-> CString(topic'), payload |-> CString(payload')]
      /\ longest' = IF evt.payload_len > longest THEN evt.payload_len ELSE longest
      /\ UNCHANGED <<rcv_buf, evt, pkt, reply, count>>
  BY DEF callback_received, NewTopic, NewPayload
<1>2. /\ pkt \in Packets /\ pkt.type = "PUBLISH" /\ pkt.qos \in {0, 1, 2}
      /\ t \in Text /\ m \in Text
      /\ Sub(evt.topic, Len(t)) = t /\ evt.topic_len = Len(t)
      /\ Sub(evt.payload, Len(m)) = m
      /\ evt.topic \in Nat /\ evt.payload \in Nat
      /\ evt.topic + Len(t) <= BufSize /\ Len(t) \in Nat
      /\ evt.payload + Len(m) <= BufSize /\ Len(m) \in Nat
      /\ n \in Nat /\ (pkt.qos > 0 => n = Len(m))
      /\ pkt.qos = 0 => n = IF Len(m) >= 2 THEN Len(m) - 2 ELSE Len(m) + WordMod - 2
  BY <1>1, EventOf
<1>3. TypeOK
  BY DEF InboundInv
<1>4. /\ AppBuf \in Nat /\ WordMod \in Nat /\ WordMod > AppBuf + 2
  BY InboundAssumption
<1>5. /\ longest \in 0 .. AppBuf - 1 /\ payload \in [0 .. AppBuf - 1 -> Nat]
      /\ \A j \in longest .. AppBuf - 1 : payload[j] = 0
  BY DEF InboundInv, TypeOK, Zeroed
<1>6. ClearedTopic \in [0 .. AppBuf - 1 -> Nat] /\ \A j \in 0 .. AppBuf - 1 : ClearedTopic[j] = 0
  BY DEF ClearedTopic
<1>7. n \in 0 .. AppBuf /\ n <= Len(m) /\ Len(t) \in 0 .. AppBuf
  BY <1>1, <1>2, <1>4
<1> HIDE DEF t, m, n
<1>8. /\ topic' \in [0 .. AppBuf - 1 -> Nat]
      /\ \A j \in 0 .. Len(t) - 1 : topic'[j] = t[j + 1] /\ topic'[j] # 0
      /\ \A j \in Len(t) .. AppBuf - 1 : topic'[j] = 0
  <2> DEFINE c == CopiedInto(ClearedTopic, evt.topic, Len(t))
  <2>1. topic' = c
    BY <1>1, <1>2
  <2>0. Len(t) <= Len(t)
    BY <1>2
  <2>2. /\ ClearedTopic \in [0 .. AppBuf - 1 -> Nat] /\ evt.topic \in Nat
        /\ Len(t) \in 0 .. AppBuf /\ t \in Text /\ Len(t) <= Len(t)
        /\ Sub(evt.topic, Len(t)) = t /\ evt.topic + Len(t) <= BufSize
    BY <1>2, <1>6, <1>7, <2>0, Zenon
  <2>3. /\ c \in [0 .. AppBuf - 1 -> Nat]
        /\ \A j \in 0 .. Len(t) - 1 : c[j] = t[j + 1] /\ c[j] # 0
        /\ \A j \in Len(t) .. AppBuf - 1 : c[j] = ClearedTopic[j]
    BY <1>3, <2>2, Copied
  <2>4. \A j \in Len(t) .. AppBuf - 1 : j \in 0 .. AppBuf - 1
    BY <1>4, <1>7
  <2> QED
    BY <1>6, <2>1, <2>3, <2>4, Zenon
<1>9. /\ payload' \in [0 .. AppBuf - 1 -> Nat]
      /\ \A j \in 0 .. n - 1 : payload'[j] = m[j + 1] /\ payload'[j] # 0
      /\ \A j \in n .. AppBuf - 1 : payload'[j] = payload[j]
  <2> DEFINE c == CopiedInto(payload, evt.payload, n)
  <2>1. payload' = c
    BY <1>1 DEF n
  <2>2. /\ payload \in [0 .. AppBuf - 1 -> Nat] /\ evt.payload \in Nat /\ n \in 0 .. AppBuf
        /\ m \in Text /\ n <= Len(m) /\ Sub(evt.payload, Len(m)) = m
        /\ evt.payload + Len(m) <= BufSize
    BY <1>2, <1>5, <1>7, Zenon
  <2>3. /\ c \in [0 .. AppBuf - 1 -> Nat]
        /\ \A j \in 0 .. n - 1 : c[j] = m[j + 1] /\ c[j] # 0
        /\ \A j \in n .. AppBuf - 1 : c[j] = payload[j]
    BY <1>3, <2>2, Copied
  <2> QED
    BY <2>1, <2>3, Zenon
<1>9a. n < AppBuf
  <2> SUFFICES ASSUME n = AppBuf PROVE FALSE
    BY <1>4, <1>7
  <2>1. PICK e \in 0 .. AppBuf - 1 : payload'[e] = 0
    BY <1>1 DEF Ended
  <2> QED
    BY <1>9, <2>1, Zenon
<1>10. longest' \in 0 .. AppBuf - 1 /\ longest' >= n /\ longest' >= longest
  <2>1. longest' = IF n > longest THEN n ELSE longest
    BY <1>1 DEF n
  <2>2. n \in 0 .. AppBuf - 1
    BY <1>4, <1>7, <1>9a
  <2> QED
    BY <1>4, <1>5, <2>1, <2>2
<1>11. \A j \in longest' .. AppBuf - 1 : payload'[j] = 0
  <2> TAKE j \in longest' .. AppBuf - 1
  <2>1. j \in n .. AppBuf - 1 /\ j \in longest .. AppBuf - 1
    BY <1>4, <1>5, <1>7, <1>10
  <2> QED
    BY <1>5, <1>9, <2>1, Zenon
<1>12. TypeOK'
  BY <1>1, <1>8, <1>9, <1>10 DEF InboundInv, TypeOK
<1>13. Handling' /\ Announced' /\ CopiesFit'
  BY <1>1 DEF Handling, Announced, IsEvent, CopiesFit
<1>14. Zeroed'
  BY <1>11 DEF Zeroed
<1>15. printed.topic' = t
  <2> DEFINE c == CString(topic')
  <2>1. /\ c \in Seq(Nat) /\ \A k \in 1 .. Len(t) : c[k] = topic'[k - 1]
        /\ Len(c) = Len(t)
    BY <1>1, <1>7, <1>8, CStringIs
  <2>2. ASSUME NEW k \in 1 .. Len(t) PROVE c[k] = t[k]
    <3>1. k - 1 \in 0 .. Len(t) - 1 /\ (k - 1) + 1 = k
      BY <1>2
    <3>2. topic'[k - 1] = t[(k - 1) + 1]
      BY <1>8, <3>1, Zenon
    <3> QED
      BY <2>1, <3>1, <3>2, Zenon
  <2>3. t \in Seq(Nat)
    BY <1>2, TextIs
  <2>4. printed'.topic = c
    BY <1>1
  <2> HIDE DEF c
  <2>5. c = t
    BY <2>1, <2>2, <2>3, SeqEqual
  <2> QED
    BY <2>4, <2>5
<1>16. ASSUME pkt.qos > 0
       PROVE  /\ IsPrefix(m, printed'.payload)
              /\ Len(m) >= longest' => printed'.payload = m
  <2> DEFINE c == CString(payload')
  <2>1. n = Len(m)
    BY <1>2, <1>16
  <2>2. /\ c \in Seq(Nat) /\ Len(c) >= n /\ \A k \in 1 .. n : c[k] = payload'[k - 1]
        /\ (\A j \in n .. AppBuf - 1 : payload'[j] = 0) => Len(c) = n
    BY <1>1, <1>7, <1>9, CStringIs
  <2>3. ASSUME NEW k \in 1 .. n PROVE c[k] = m[k]
    <3>1. k - 1 \in 0 .. n - 1 /\ (k - 1) + 1 = k
      BY <1>7
    <3>2. payload'[k - 1] = m[(k - 1) + 1]
      BY <1>9, <3>1, Zenon
    <3> QED
      BY <2>2, <3>1, <3>2, Zenon
  <2>4. m \in Seq(Nat)
    BY <1>2, TextIs
  <2>5. printed'.payload = c
    BY <1>1
  <2> HIDE DEF c
  <2>6. IsPrefix(m, c)
    <3>1. SubSeq(c, 1, Len(m)) = [k \in 1 .. Len(m) |-> c[k]]
      BY <1>2, <2>1, <2>2, <2>4
    <3>2. SubSeq(m, 1, Len(m)) = [k \in 1 .. Len(m) |-> m[k]]
      BY <1>2, <2>4
    <3>3. [k \in 1 .. Len(m) |-> c[k]] = [k \in 1 .. Len(m) |-> m[k]]
      BY <2>1, <2>3
    <3> QED
      BY <2>1, <2>2, <3>1, <3>2, <3>3 DEF IsPrefix
  <2>7. Len(m) >= longest' => c = m
    <3> SUFFICES ASSUME Len(m) >= longest' PROVE c = m
      OBVIOUS
    <3>1. longest' = n
      BY <1>7, <1>10, <2>1
    <3>2. Len(c) = Len(m)
      BY <1>11, <2>1, <2>2, <3>1, Zenon
    <3> QED
      BY <2>1, <2>2, <2>3, <2>4, <3>2, SeqEqual
  <2> QED
    BY <2>5, <2>6, <2>7, Zenon
<1>17. PrintedRight'
  BY <1>1, <1>15, <1>16 DEF PrintedRight, t, m
<1> QED
  BY <1>12, <1>13, <1>14, <1>17 DEF InboundInv

\* A topic or a payload that does not fit.
LEMMA CallbackBeyond ==
  ASSUME InboundInv, callback_beyond
  PROVE  InboundInv'
<1>1. /\ phase = "event" /\ evt.evt_id = "RECEIVED" /\ phase' = "beyond"
      /\ evt.topic_len > AppBuf \/ evt.payload_len > AppBuf
      /\ UNCHANGED <<rcv_buf, evt, topic, payload, pkt, reply, printed, longest, count>>
  BY DEF callback_beyond
<1>2. /\ pkt.qos \in {0, 1, 2} /\ evt.topic_len = Len(pkt.topic)
      /\ Len(pkt.topic) \in Nat /\ Len(pkt.payload) \in Nat
      /\ pkt.qos > 0 => evt.payload_len = Len(pkt.payload)
      /\ pkt.qos = 0 => evt.payload_len = IF Len(pkt.payload) >= 2 THEN Len(pkt.payload) - 2
                                          ELSE Len(pkt.payload) + WordMod - 2
  BY <1>1, EventOf
<1>3. AppBuf \in Nat
  BY InboundAssumption
<1>4. \/ Len(pkt.topic) > AppBuf \/ Len(pkt.payload) > AppBuf
      \/ pkt.qos = 0 /\ Len(pkt.payload) < 2
  BY <1>1, <1>2, <1>3
<1>5. CopiesFit'
  BY <1>1, <1>4 DEF CopiesFit
<1>6. TypeOK'
  BY <1>1 DEF InboundInv, TypeOK
<1>7. Handling' /\ Announced' /\ PrintedRight'
  BY <1>1 DEF Handling, Announced, IsEvent, PrintedRight
<1>8. Zeroed'
  BY <1>1 DEF InboundInv, Zeroed
<1> QED
  BY <1>5, <1>6, <1>7, <1>8 DEF InboundInv

\* A topic or a payload that fills its buffer.
LEMMA CallbackUnended ==
  ASSUME InboundInv, callback_unended
  PROVE  InboundInv'
<1> DEFINE t == pkt.topic
           m == pkt.payload
           n == evt.payload_len
<1>1. /\ phase = "event" /\ evt.evt_id = "RECEIVED" /\ phase' = "unended"
      /\ evt.topic_len <= AppBuf /\ evt.payload_len <= AppBuf
      /\ ~Ended(NewTopic) \/ ~Ended(NewPayload)
      /\ UNCHANGED <<rcv_buf, evt, topic, payload, pkt, reply, printed, longest, count>>
  BY DEF callback_unended
<1>2. /\ t \in Text /\ m \in Text /\ pkt.qos \in {0, 1, 2}
      /\ Sub(evt.topic, Len(t)) = t /\ evt.topic_len = Len(t)
      /\ Sub(evt.payload, Len(m)) = m
      /\ evt.topic \in Nat /\ evt.payload \in Nat
      /\ evt.topic + Len(t) <= BufSize /\ Len(t) \in Nat
      /\ evt.payload + Len(m) <= BufSize /\ Len(m) \in Nat
      /\ n \in Nat /\ (pkt.qos > 0 => n = Len(m))
      /\ pkt.qos = 0 => n = IF Len(m) >= 2 THEN Len(m) - 2 ELSE Len(m) + WordMod - 2
  BY <1>1, EventOf
<1>3. TypeOK /\ AppBuf \in Nat \ {0} /\ WordMod \in Nat /\ WordMod > AppBuf + 2
  BY InboundAssumption DEF InboundInv
<1>4. /\ longest \in 0 .. AppBuf - 1 /\ payload \in [0 .. AppBuf - 1 -> Nat]
      /\ payload[AppBuf - 1] = 0
  <2>1. longest \in 0 .. AppBuf - 1
    BY <1>3 DEF TypeOK
  <2>2. AppBuf - 1 \in longest .. AppBuf - 1
    BY <1>3, <2>1
  <2> QED
    BY <1>3, <2>1, <2>2 DEF InboundInv, TypeOK, Zeroed
<1>5. ClearedTopic \in [0 .. AppBuf - 1 -> Nat] /\ ClearedTopic[AppBuf - 1] = 0
  BY <1>3 DEF ClearedTopic
<1>6. n \in 0 .. AppBuf /\ n <= Len(m) /\ Len(t) \in 0 .. AppBuf /\ Len(t) <= Len(t)
  BY <1>1, <1>2, <1>3
<1> HIDE DEF t, m, n
<1>7. ASSUME Len(t) < AppBuf PROVE Ended(NewTopic)
  <2>1. AppBuf - 1 \in Len(t) .. AppBuf - 1 /\ AppBuf - 1 \in 0 .. AppBuf - 1
    BY <1>2, <1>3, <1>7
  <2>2. NewTopic = CopiedInto(ClearedTopic, evt.topic, Len(t))
    BY <1>2 DEF NewTopic
  <2>3. \A j \in Len(t) .. AppBuf - 1 :
          CopiedInto(ClearedTopic, evt.topic, Len(t))[j] = ClearedTopic[j]
    BY <1>2, <1>3, <1>5, <1>6, Copied
  <2>4. NewTopic[AppBuf - 1] = 0
    BY <1>5, <2>1, <2>2, <2>3, Zenon
  <2> QED
    BY <2>1, <2>4, Zenon DEF Ended
<1>8. ASSUME n < AppBuf PROVE Ended(NewPayload)
  <2>1. AppBuf - 1 \in n .. AppBuf - 1 /\ AppBuf - 1 \in 0 .. AppBuf - 1
    BY <1>2, <1>3, <1>8
  <2>2. NewPayload = CopiedInto(payload, evt.payload, n)
    BY DEF NewPayload, n
  <2>3. \A j \in n .. AppBuf - 1 : CopiedInto(payload, evt.payload, n)[j] = payload[j]
    BY <1>2, <1>3, <1>4, <1>6, Copied
  <2>4. NewPayload[AppBuf - 1] = 0
    BY <1>4, <2>1, <2>2, <2>3, Zenon
  <2> QED
    BY <2>1, <2>4, Zenon DEF Ended
<1>9. Len(t) = AppBuf \/ Len(m) = AppBuf + (IF pkt.qos = 0 THEN 2 ELSE 0)
  <2>1. Len(t) = AppBuf \/ n = AppBuf
    BY <1>1, <1>3, <1>6, <1>7, <1>8
  <2> QED
    BY <1>2, <1>3, <2>1
<1>10. CopiesFit'
  BY <1>1, <1>9 DEF CopiesFit, t, m
<1>11. TypeOK'
  BY <1>1 DEF InboundInv, TypeOK
<1>12. Handling' /\ Announced' /\ PrintedRight'
  BY <1>1 DEF Handling, Announced, IsEvent, PrintedRight
<1>13. Zeroed'
  BY <1>1 DEF InboundInv, Zeroed
<1> QED
  BY <1>10, <1>11, <1>12, <1>13 DEF InboundInv

\* The other events change nothing of the application.
LEMMA CallbackOther ==
  ASSUME InboundInv, callback_other
  PROVE  InboundInv'
<1>1. /\ phase = "event" /\ evt.evt_id # "RECEIVED" /\ phase' = "recv"
      /\ UNCHANGED <<rcv_buf, evt, topic, payload, pkt, reply, printed, longest, count>>
  BY DEF callback_other
<1>2. pkt.type # "PUBLISH"
  BY <1>1 DEF InboundInv, Announced, IsEvent
<1>3. TypeOK'
  BY <1>1 DEF InboundInv, TypeOK
<1>4. Handling' /\ Announced' /\ PrintedRight' /\ CopiesFit'
  BY <1>1, <1>2 DEF Handling, Announced, IsEvent, PrintedRight, CopiesFit
<1>5. Zeroed'
  BY <1>1 DEF InboundInv, Zeroed
<1> QED
  BY <1>3, <1>4, <1>5 DEF InboundInv

----------------------------------------------------------------------------
(* The theorems                                                            *)

\* Every step keeps the invariant.
LEMMA InboundStep ==
  ASSUME InboundInv, [Next]_vars
  PROVE  InboundInv'
<1>1. CASE receive
  BY <1>1, ReceiveStep
<1>2. CASE Handler
  BY <1>2, PublishStep, AckStep, OtherStep DEF Handler
<1>3. CASE mqttnox_callback
  BY <1>3, CallbackReceived, CallbackBeyond, CallbackUnended, CallbackOther DEF mqttnox_callback
<1>4. CASE UNCHANGED vars
  <2>1. UNCHANGED <<phase, rcv_buf, evt, topic, payload, pkt, reply, printed, longest, count>>
    BY <1>4 DEF vars
  <2>2. TypeOK'
    BY <2>1 DEF InboundInv, TypeOK
  <2>3. Handling' /\ Zeroed' /\ PrintedRight' /\ CopiesFit'
    BY <2>1 DEF InboundInv, Handling, Held, Zeroed, PrintedRight, CopiesFit
  <2>4. /\ TopicAt' = TopicAt /\ TopicLen' = TopicLen /\ PayloadAt' = PayloadAt
        /\ PayloadLen' = PayloadLen /\ Word(IdentAt)' = Word(IdentAt)
        /\ Sub(AckAt, 2)' = Sub(AckAt, 2)
    BY <2>1 DEF TopicAt, TopicLen, PayloadAt, PayloadLen, IdentAt, HdrQos,
                Word, LenBytes, RemainLength, Sub, AckAt, data
  <2>5. Announced'
    BY <2>1, <2>4 DEF InboundInv, Announced, IsEvent
  <2> QED
    BY <2>2, <2>3, <2>5 DEF InboundInv
<1> QED
  BY <1>1, <1>2, <1>3, <1>4 DEF Next

\* The invariant holds in every reachable state.
LEMMA InboundAlways == Spec => []InboundInv
<1>1. InboundInv /\ [Next]_vars => InboundInv'
  BY InboundStep
<1> QED
  BY InboundInit, <1>1, PTL DEF Spec

\* Packets, events and the callback's buffers keep their types.
THEOREM InboundTypeCorrect == Spec => []TypeOK
<1>1. InboundInv => TypeOK
  BY DEF InboundInv
<1> QED
  BY InboundAlways, <1>1, PTL

\* For every packet that fits and whatever earlier packets left in rcv_buf, the
\* event and the reply of a QoS 1 or QoS 2 PUBLISH are what the broker sent.
THEOREM PublishReadRight == Spec => []PublishRead
<1>1. ASSUME InboundInv PROVE PublishRead
  <2> SUFFICES ASSUME IsEvent("PUBLISH"), pkt.qos > 0
               PROVE  /\ Sub(evt.topic, evt.topic_len) = pkt.topic
                      /\ Sub(evt.payload, evt.payload_len) = pkt.payload
                      /\ evt.id = pkt.id[1] * 256 + pkt.id[2]
                      /\ reply = [fn |-> IF pkt.qos = 1 THEN "puback" ELSE "pubrec",
                                  id |-> evt.id]
    BY DEF PublishRead
  <2>1. phase = "event" /\ pkt.type = "PUBLISH" /\ pkt \in Packets /\ Held(pkt)
    BY <1>1 DEF InboundInv, IsEvent, Handling
  <2>2. /\ evt.evt_id = "RECEIVED" /\ evt.id = Word(IdentAt)
        /\ reply = [fn |-> IF pkt.qos = 1 THEN "puback" ELSE "pubrec", id |-> Word(IdentAt)]
    BY <1>1 DEF InboundInv, Announced
  <2>3. /\ Sub(evt.topic, evt.topic_len) = pkt.topic
        /\ Sub(evt.payload, Len(pkt.payload)) = pkt.payload
        /\ evt.payload_len = Len(pkt.payload)
    BY <1>1, <2>1, <2>2, EventOf
  <2>4. Word(IdentAt) = pkt.id[1] * 256 + pkt.id[2]
    BY <2>1, PublishFields
  <2> QED
    BY <2>2, <2>3, <2>4, Zenon
<1> QED
  BY InboundAlways, <1>1, PTL

\* The event of any PUBLISH has the topic, and the payload begins where it says.
THEOREM PublishFoundRight == Spec => []PublishFound
<1>1. ASSUME InboundInv PROVE PublishFound
  <2> SUFFICES ASSUME IsEvent("PUBLISH")
               PROVE  /\ Sub(evt.topic, evt.topic_len) = pkt.topic
                      /\ Sub(evt.payload, Len(pkt.payload)) = pkt.payload
    BY DEF PublishFound
  <2>1. phase = "event" /\ evt.evt_id = "RECEIVED"
    BY <1>1 DEF InboundInv, IsEvent, Announced
  <2> QED
    BY <1>1, <2>1, EventOf
<1> QED
  BY InboundAlways, <1>1, PTL

\* The event of a PUBACK or UNSUBACK has the identifier of the packet.
THEOREM AckReadRight == Spec => []AckRead
<1>1. ASSUME InboundInv PROVE AckRead
  <2> SUFFICES ASSUME IsEvent("PUBACK") \/ IsEvent("UNSUBACK")
               PROVE  evt.id = pkt.id
    BY DEF AckRead
  <2>1. pkt \in Packets /\ Held(pkt) /\ pkt.type \in {"PUBACK", "UNSUBACK"}
        /\ evt.id = Sub(AckAt, 2)
    BY <1>1 DEF InboundInv, IsEvent, Handling, Announced
  <2> QED
    BY <2>1, AckFields
<1> QED
  BY InboundAlways, <1>1, PTL

\* Where both its buffers end in a zero the callback prints the topic it was given,
\* and of the payload of a QoS 1 or QoS 2 message nothing is lost; something of an
\* earlier one may follow it.
THEOREM PrintedAsSent == Spec => []PrintedRight
<1>1. InboundInv => PrintedRight
  BY DEF InboundInv
<1> QED
  BY InboundAlways, <1>1, PTL

\* The callback's copies leave their buffers only for a message that does not fit,
\* or one of QoS 0 whose payload has less than two bytes, and its printf only for a
\* message that fills one of them, whatever came before it.
THEOREM CopiesStayInside == Spec => []CopiesFit
<1>1. InboundInv => CopiesFit
  BY DEF InboundInv
<1> QED
  BY InboundAlways, <1>1, PTL
=============================================================================
