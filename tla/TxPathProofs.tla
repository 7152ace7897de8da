--------------------------- MODULE TxPathProofs ---------------------------
(***************************************************************************)
(* Theorems of TxPath, for every value of its constants: the types, that   *)
(* identifiers do not repeat among calls that take one and are overlapped  *)
(* by no other such call, that a call which no other one overlaps sends    *)
(* the packet it was asked for, and that only a packet that does not fit,  *)
(* or two calls at once, write outside the buffer.                         *)
(***************************************************************************)
EXTENDS TxPath, SequenceFacts, FiniteSetTheorems

\* A quotient below a bound.
LEMMA Quotient ==
  ASSUME NEW d \in Nat \ {0}, NEW e \in Nat, NEW n \in Nat, n < d * e
  PROVE  n \div d < e
<1>1. /\ n \div d \in Nat /\ n % d \in 0 .. d - 1
      /\ n = d * (n \div d) + (n % d)
  BY Division
<1>2. ASSUME NEW q \in Nat, q >= e PROVE d * q >= d * e
  BY <1>2
<1> QED
  BY <1>1, <1>2

\* An identifier and its two bytes.
LEMMA Identifiers ==
  /\ IdentMod \in Nat /\ IdentMod > 1
  /\ \A i \in 0 .. IdentMod - 1 :
       /\ Msb(i) \in 0 .. IdentBase - 1 /\ Lsb(i) \in 0 .. IdentBase - 1
       /\ i = IdentBase * Msb(i) + Lsb(i)
       /\ Incremented(i) \in 0 .. IdentMod - 1
       /\ i + 1 < IdentMod => Incremented(i) = i + 1
       /\ i + 1 = IdentMod => Incremented(i) = 0
<1>0. IdentBase \in Nat \ {0, 1}
  BY TxAssumption
<1>1. IdentMod \in Nat /\ IdentMod > 1
  BY <1>0 DEF IdentMod
<1>2. ASSUME NEW i \in 0 .. IdentMod - 1
      PROVE  /\ Msb(i) \in 0 .. IdentBase - 1 /\ Lsb(i) \in 0 .. IdentBase - 1
             /\ i = IdentBase * Msb(i) + Lsb(i)
  <2>1. i \in Nat /\ IdentBase \in Nat \ {0} /\ i < IdentBase * IdentBase
    BY <1>0, <1>1 DEF IdentMod
  <2>2. /\ i \div IdentBase \in Nat /\ i % IdentBase \in 0 .. IdentBase - 1
        /\ i = IdentBase * (i \div IdentBase) + (i % IdentBase)
    BY <2>1, Division
  <2>3. i \div IdentBase < IdentBase
    BY <2>1, Quotient
  <2> QED
    BY <2>1, <2>2, <2>3 DEF Msb, Lsb
<1>3. ASSUME NEW i \in 0 .. IdentMod - 1
      PROVE  /\ Incremented(i) \in 0 .. IdentMod - 1
             /\ i + 1 < IdentMod => Incremented(i) = i + 1
             /\ i + 1 = IdentMod => Incremented(i) = 0
  <2>1. i + 1 \in Nat /\ IdentMod \in Nat \ {0}
    BY <1>1
  <2>2. (i + 1) % IdentMod \in 0 .. IdentMod - 1
    BY <2>1, Division
  <2>3. i + 1 < IdentMod => (i + 1) % IdentMod = i + 1
    BY <2>1, SmallDivision
  <2>4. i + 1 = IdentMod => (i + 1) % IdentMod = 0
    BY <2>1, Wraps
  <2> QED
    BY <2>2, <2>3, <2>4 DEF Incremented
<1> QED
  BY <1>1, <1>2, <1>3

----------------------------------------------------------------------------
(* What the functions execute                                              *)

Idents == {"msb", "lsb", "fetch", "store"}
OpName == {"clear", "measure", "copy", "put", "length", "header", "flag", "send"} \cup Idents
Ops == [op : OpName, bytes : Seq(Nat)]

\* Statements that put a field of the packet, but no new identifier.
FieldOps == [op : {"measure", "copy", "put"}, bytes : Seq(Nat)]

\* Statements that do not deal with a new identifier.
PlainOps == [op : OpName \ Idents, bytes : Seq(Nat)]

\* A string is made of bytes, and what stands for NULL may pass for one.
LEMMA StringBytes == String \subseteq Seq(Nat) /\ NULL \in Seq(Nat)
<1>1. String \subseteq Seq(Nat)
  BY SeqMonotonic DEF String
<1> QED
  BY <1>1 DEF NULL

\* So is every string in a configuration.
LEMMA ConfBytes ==
  ASSUME NEW conf \in Conf
  PROVE  /\ conf.client_id \in Seq(Nat)
         /\ conf.will_topic \in Seq(Nat) /\ conf.will_msg \in Seq(Nat)
         /\ conf.username \in Seq(Nat) /\ conf.password \in Seq(Nat)
  BY StringBytes DEF Conf

\* A string and its length prefix are bytes.
LEMMA Utf8Type ==
  ASSUME NEW s \in Seq(Nat)
  PROVE  Prefix(s) \in Seq(Nat) /\ s \in Seq(Nat) /\ Prefix(s) \o s \in Seq(Nat)
<1>1. Len(s) \in Nat /\ s \in Seq(Nat)
  OBVIOUS
<1>2. Len(s) \div 256 \in Nat /\ Len(s) % 256 \in Nat
  BY <1>1, Division
<1>3. Prefix(s) \in Seq(Nat)
  BY <1>2 DEF Prefix
<1> QED
  BY <1>1, <1>3, ConcatProperties

\* mqttnox_append_utf8 makes statements that write fields.
LEMMA AppendFields ==
  ASSUME NEW s \in Seq(Nat), NEW b
  PROVE  Append_utf8(s, b) \in Seq(FieldOps)
<1>1. s \in Seq(Nat) /\ Prefix(s) \o s \in Seq(Nat)
  BY Utf8Type
<1>2. \A x \in Seq(Nat) : <<Op("measure", <<>>), Op("copy", x)>> \in Seq(FieldOps)
  BY DEF Op, FieldOps
<1>3. <<>> \in Seq(FieldOps)
  OBVIOUS
<1> HIDE DEF FieldOps
<1>4. /\ <<Op("measure", <<>>), Op("copy", s)>> \in Seq(FieldOps)
      /\ <<Op("measure", <<>>), Op("copy", Prefix(s) \o s)>> \in Seq(FieldOps)
  BY <1>1, <1>2
<1> QED
  BY <1>3, <1>4 DEF Append_utf8

\* So does a single memcpy.
LEMMA PutFields ==
  ASSUME NEW s \in Seq(Nat)
  PROVE  <<Op("put", s)>> \in Seq(FieldOps)
  BY DEF Op, FieldOps

\* Fields one after the other are fields.
LEMMA FieldsConcat ==
  ASSUME NEW s \in Seq(FieldOps), NEW r \in Seq(FieldOps)
  PROVE  s \o r \in Seq(FieldOps)
  BY ConcatProperties

\* The variable header is two bytes.
LEMMA ConfHdr ==
  ASSUME NEW conf \in Conf
  PROVE  VarHdr(conf) \in Seq(Nat)
<1>1. conf.qos \in 0 .. 2 /\ conf.retain \in 0 .. 1
  BY DEF Conf
<1> QED
  BY <1>1 DEF VarHdr, ConnectFlags, Bit

\* The fields of CONNECT.
LEMMA ConnectFields ==
  ASSUME NEW conf \in Conf
  PROVE  connect_fields(conf) \in Seq(FieldOps)
<1>1. VarHdr(conf) \in Seq(Nat)
  BY ConfHdr
<1>2. <<Op("put", VarHdr(conf))>> \in Seq(FieldOps)
  BY <1>1, PutFields
<1>3. /\ Append_utf8(conf.client_id, TRUE) \in Seq(FieldOps)
      /\ Append_utf8(conf.will_topic, TRUE) \in Seq(FieldOps)
      /\ Append_utf8(conf.will_msg, TRUE) \in Seq(FieldOps)
      /\ Append_utf8(conf.username, TRUE) \in Seq(FieldOps)
      /\ Append_utf8(conf.password, TRUE) \in Seq(FieldOps)
  BY AppendFields, ConfBytes
<1>4. <<>> \in Seq(FieldOps)
  OBVIOUS
<1> QED
  BY <1>2, <1>3, <1>4, FieldsConcat DEF connect_fields

\* The topics of SUBSCRIBE and of UNSUBSCRIBE.
Subscribed(topics) ==
  [i \in 1 .. Len(topics) |->
     Append_utf8(topics[i].topic, TRUE) \o <<Op("put", <<topics[i].qos>>)>>]
Unsubscribed(topics) == [i \in 1 .. Len(topics) |-> Append_utf8(topics[i].topic, TRUE)]

Topics == Seq([topic : String, qos : 0 .. 2])

\* The fields of SUBSCRIBE and UNSUBSCRIBE, topic by topic.
LEMMA TopicFields ==
  ASSUME NEW topics \in Topics
  PROVE  /\ Subscribed(topics) \in Seq(Seq(FieldOps))
         /\ Unsubscribed(topics) \in Seq(Seq(FieldOps))
<1>1. ASSUME NEW i \in 1 .. Len(topics)
      PROVE  /\ Append_utf8(topics[i].topic, TRUE) \in Seq(FieldOps)
             /\ <<Op("put", <<topics[i].qos>>)>> \in Seq(FieldOps)
  <2>1. topics[i].topic \in Seq(Nat) /\ topics[i].qos \in Nat
    <3>1. topics[i] \in [topic : String, qos : 0 .. 2]
      BY ElementOfSeq DEF Topics
    <3> QED
      BY <3>1, StringBytes
  <2>2. <<topics[i].qos>> \in Seq(Nat)
    BY <2>1
  <2> QED
    BY <2>1, <2>2, AppendFields, PutFields
<1>2. Len(topics) \in Nat
  BY DEF Topics
<1>3. Unsubscribed(topics) \in Seq(Seq(FieldOps))
  <2>1. [i \in 1 .. Len(topics) |-> Append_utf8(topics[i].topic, TRUE)]
          \in [1 .. Len(topics) -> Seq(FieldOps)]
    BY <1>1
  <2> QED
    BY <1>2, <2>1, FunctionSeq, Zenon DEF Unsubscribed
<1>4. Subscribed(topics) \in Seq(Seq(FieldOps))
  <2>1. \A i \in 1 .. Len(topics) :
          Append_utf8(topics[i].topic, TRUE) \o <<Op("put", <<topics[i].qos>>)>>
            \in Seq(FieldOps)
    BY <1>1, FieldsConcat
  <2>2. [i \in 1 .. Len(topics) |->
           Append_utf8(topics[i].topic, TRUE) \o <<Op("put", <<topics[i].qos>>)>>]
          \in [1 .. Len(topics) -> Seq(FieldOps)]
    BY <2>1
  <2> QED
    BY <1>2, <2>2, FunctionSeq, Zenon DEF Subscribed
<1> QED
  BY <1>3, <1>4

\* The same, one after the other.
LEMMA FlattenFields ==
  ASSUME NEW topics \in Topics
  PROVE  /\ FlattenSeq(Subscribed(topics)) \in Seq(FieldOps)
         /\ FlattenSeq(Unsubscribed(topics)) \in Seq(FieldOps)
  BY TopicFields, FlattenType

\* A call that takes an identifier does so once, between other fields, and the
\* others never do.
LEMMA FieldsShape ==
  ASSUME NEW c \in Call
  PROVE  IF Draws(c)
         THEN \E pre, post \in Seq(FieldOps) : Fields(c) = pre \o NewIdent \o post
         ELSE Fields(c) \in Seq(FieldOps)
<1>0. <<>> \in Seq(FieldOps)
  OBVIOUS
<1>1. CASE c.fn = "connect"
  BY <1>1, ConnectFields DEF Call, Fields, Draws
<1>2. CASE c.fn = "publish"
  <2>1. c.topic \in Seq(Nat) /\ c.msg \in Seq(Nat) /\ c.qos \in 0 .. 2
    BY <1>2, StringBytes DEF Call
  <2>2. Append_utf8(c.topic, TRUE) \in Seq(FieldOps) /\ Append_utf8(c.msg, FALSE) \in Seq(FieldOps)
    BY <2>1, AppendFields
  <2>3. Fields(c) = Append_utf8(c.topic, TRUE) \o (IF c.qos > 0 THEN NewIdent ELSE <<>>)
                      \o Append_utf8(c.msg, FALSE)
    BY <1>2 DEF Fields, publish_fields
  <2>4. Draws(c) <=> c.qos > 0
    BY <1>2 DEF Draws
  <2> QED
    BY <1>0, <2>2, <2>3, <2>4, FieldsConcat
<1>3. CASE c.fn = "subscribe" \/ c.fn = "unsubscribe"
  <2>1. c.topics \in Topics /\ Draws(c)
    BY <1>3 DEF Call, Topics, Draws
  <2>2. Fields(c) = NewIdent \o FlattenSeq(IF c.fn = "subscribe" THEN Subscribed(c.topics)
                                          ELSE Unsubscribed(c.topics))
    BY <1>3 DEF Fields, subscribe_fields, unsubscribe_fields, Subscribed, Unsubscribed
  <2>3. PICK post \in Seq(FieldOps) : Fields(c) = NewIdent \o post
    BY <2>1, <2>2, FlattenFields
  <2>4. NewIdent \in Seq(Ops)
    BY DEF NewIdent, Op, Ops, OpName, Idents
  <2>5. NewIdent = <<>> \o NewIdent
    BY <2>4
  <2> QED
    BY <1>0, <2>1, <2>3, <2>5
<1>4. CASE c.fn \in {"puback", "pubrec", "pubrel", "pubcomp"}
  <2>1. Msb(c.id) \in Nat /\ Lsb(c.id) \in Nat /\ ~Draws(c)
    BY <1>4, Identifiers DEF Call, Draws
  <2>2. \A x, y \in Nat : GivenIdent(x, y) \in Seq(FieldOps)
    BY DEF GivenIdent, Op, FieldOps
  <2> QED
    BY <1>4, <2>1, <2>2 DEF Fields, puback_fields, pubrec_fields, pubrel_fields, pubcomp_fields
<1>5. CASE c.fn = "disconnect"
  BY <1>0, <1>5 DEF Fields, disconnect_fields, Draws
<1> QED
  BY <1>1, <1>2, <1>3, <1>4, <1>5 DEF Call

\* A new identifier is dealt with by its four statements in their order, once.
Ordered(s) ==
  \A i \in 1 .. Len(s) :
    /\ s[i].op = "msb" => i < Len(s) /\ s[i + 1].op = "lsb"
    /\ s[i].op = "lsb" => i < Len(s) /\ s[i + 1].op = "fetch"
    /\ s[i].op = "fetch" => i < Len(s) /\ s[i + 1].op = "store"
    /\ s[i].op = "store" => \A j \in i + 1 .. Len(s) : s[j].op \notin Idents

\* The four statements that write and draw an identifier.
LEMMA IdentOps ==
  /\ NewIdent \in Seq(Ops) /\ Len(NewIdent) = 4
  /\ NewIdent[1].op = "msb" /\ NewIdent[2].op = "lsb" /\ NewIdent[3].op = "fetch"
  /\ NewIdent[4].op = "store"
  BY DEF NewIdent, Op, Ops, OpName, Idents

\* A field is a statement that draws no identifier.
LEMMA PlainSeq ==
  /\ Seq(FieldOps) \subseteq Seq(PlainOps) /\ Seq(PlainOps) \subseteq Seq(Ops)
<1>1. FieldOps \subseteq PlainOps
  BY DEF FieldOps, PlainOps, OpName, Idents
<1>2. PlainOps \subseteq Ops
  BY DEF Ops, PlainOps
<1> QED
  BY <1>1, <1>2, SeqMonotonic

\* Three sequences put together.
LEMMA ThreeParts ==
  ASSUME NEW U, NEW a \in Seq(U), NEW b \in Seq(U), NEW d \in Seq(U)
  PROVE  /\ a \o b \o d \in Seq(U) /\ Len(a \o b \o d) = Len(a) + Len(b) + Len(d)
         /\ \A i \in 1 .. Len(a \o b \o d) :
              (a \o b \o d)[i] = IF i <= Len(a) THEN a[i]
                                 ELSE IF i <= Len(a) + Len(b) THEN b[i - Len(a)]
                                 ELSE d[i - Len(a) - Len(b)]
  OBVIOUS

\* A statement without an identifier is none of those four.
LEMMA PlainElements ==
  ASSUME NEW s \in Seq(PlainOps), NEW i \in 1 .. Len(s)
  PROVE  s[i].op \notin Idents
<1>1. s[i] \in PlainOps
  BY ElementOfSeq
<1> QED
  BY <1>1 DEF PlainOps

\* A call that draws one identifier does so in order.
LEMMA OrderedProgram ==
  ASSUME NEW pre \in Seq(PlainOps), NEW post \in Seq(PlainOps)
  PROVE  /\ pre \o NewIdent \o post \in Seq(Ops) /\ Ordered(pre \o NewIdent \o post)
         /\ \E i \in 1 .. Len(pre \o NewIdent \o post) :
              (pre \o NewIdent \o post)[i].op = "msb"
<1> DEFINE s == pre \o NewIdent \o post
           n == Len(pre)
<1>1. pre \in Seq(Ops) /\ post \in Seq(Ops) /\ NewIdent \in Seq(Ops)
  BY PlainSeq, IdentOps
<1>2. /\ s \in Seq(Ops) /\ Len(s) = n + 4 + Len(post) /\ n \in Nat /\ Len(post) \in Nat
      /\ \A i \in 1 .. Len(s) :
           s[i] = IF i <= n THEN pre[i]
                  ELSE IF i <= n + 4 THEN NewIdent[i - n] ELSE post[i - n - 4]
  <2>1. /\ s \in Seq(Ops) /\ Len(s) = Len(pre) + Len(NewIdent) + Len(post)
        /\ \A i \in 1 .. Len(s) :
             s[i] = IF i <= Len(pre) THEN pre[i]
                    ELSE IF i <= Len(pre) + Len(NewIdent) THEN NewIdent[i - Len(pre)]
                    ELSE post[i - Len(pre) - Len(NewIdent)]
    <3>1. ASSUME NEW a \in Seq(Ops), NEW b \in Seq(Ops), NEW d \in Seq(Ops)
          PROVE  /\ a \o b \o d \in Seq(Ops)
                 /\ Len(a \o b \o d) = Len(a) + Len(b) + Len(d)
                 /\ \A i \in 1 .. Len(a \o b \o d) :
                      (a \o b \o d)[i] = IF i <= Len(a) THEN a[i]
                                         ELSE IF i <= Len(a) + Len(b) THEN b[i - Len(a)]
                                         ELSE d[i - Len(a) - Len(b)]
      BY ThreeParts
    <3> QED
      BY <1>1, <3>1, Zenon
  <2>2. Len(pre) \in Nat /\ Len(post) \in Nat
    OBVIOUS
  <2> QED
    BY <2>1, <2>2, IdentOps, Zenon
<1> HIDE DEF s
<1>3. \A i \in 1 .. n : pre[i].op \notin Idents
  BY PlainElements
<1>4. \A i \in 1 .. Len(post) : post[i].op \notin Idents
  BY PlainElements
<1> HIDE DEF n
<1>5. \A i \in 1 .. Len(s) : i <= n => s[i].op \notin Idents
  BY <1>2, <1>3 DEF n
<1>6. \A i \in 1 .. Len(s) : i > n + 4 => s[i].op \notin Idents
  <2>1. ASSUME NEW i \in 1 .. Len(s), i > n + 4 PROVE s[i].op \notin Idents
    <3>1. s[i] = post[i - n - 4] /\ i - n - 4 \in 1 .. Len(post)
      BY <1>2, <2>1
    <3> QED
      BY <1>4, <3>1
  <2> QED
    BY <2>1
<1>7. /\ n + 1 \in 1 .. Len(s) /\ n + 2 \in 1 .. Len(s) /\ n + 3 \in 1 .. Len(s)
      /\ n + 4 \in 1 .. Len(s)
      /\ s[n + 1] = NewIdent[1] /\ s[n + 2] = NewIdent[2]
      /\ s[n + 3] = NewIdent[3] /\ s[n + 4] = NewIdent[4]
  BY <1>2
<1>8. /\ s[n + 1].op = "msb" /\ s[n + 2].op = "lsb"
      /\ s[n + 3].op = "fetch" /\ s[n + 4].op = "store"
  BY <1>7, IdentOps
<1>9. Ordered(s)
  <2> SUFFICES ASSUME NEW i \in 1 .. Len(s), s[i].op \in Idents
               PROVE  /\ s[i].op = "msb" => i < Len(s) /\ s[i + 1].op = "lsb"
                      /\ s[i].op = "lsb" => i < Len(s) /\ s[i + 1].op = "fetch"
                      /\ s[i].op = "fetch" => i < Len(s) /\ s[i + 1].op = "store"
                      /\ s[i].op = "store" => \A j \in i + 1 .. Len(s) : s[j].op \notin Idents
    BY DEF Ordered, Idents
  <2>1. i = n + 1 \/ i = n + 2 \/ i = n + 3 \/ i = n + 4
    BY <1>2, <1>5, <1>6, SMTT(30)
  <2>2. Len(s) \in Nat /\ n + 4 <= Len(s)
    BY <1>2
  <2>3. CASE i = n + 1
    BY <1>2, <1>8, <2>2, <2>3
  <2>4. CASE i = n + 2
    BY <1>2, <1>8, <2>2, <2>4
  <2>5. CASE i = n + 3
    BY <1>2, <1>8, <2>2, <2>5
  <2>6. CASE i = n + 4
    BY <1>2, <1>6, <1>8, <2>2, <2>6
  <2> QED
    BY <2>1, <2>3, <2>4, <2>5, <2>6
<1> QED
  BY <1>2, <1>7, <1>8, <1>9 DEF s

\* A call that draws none is in order.
LEMMA OrderedPlain ==
  ASSUME NEW s \in Seq(PlainOps)
  PROVE  /\ s \in Seq(Ops) /\ Ordered(s) /\ \A i \in 1 .. Len(s) : s[i].op \notin Idents
<1>1. \A i \in 1 .. Len(s) : s[i].op \notin Idents
  BY PlainElements
<1> QED
  BY <1>1, PlainSeq DEF Ordered, Idents

\* The header draws no identifier.
LEMMA HeaderPlain ==
  ASSUME NEW c \in Call
  PROVE  HeaderOps(c) \in Seq(PlainOps) /\ Hdr(c) \in Nat
<1>1. Hdr(c) \in Nat
  BY DEF Hdr, Type, Call
<1>2. \A x \in Nat : <<Op("header", <<x>>)>> \in Seq(PlainOps)
  BY DEF Op, PlainOps, OpName, Idents
<1>3. <<Op("flag", <<>>)>> \in Seq(PlainOps)
  BY DEF Op, PlainOps, OpName, Idents
<1> QED
  BY <1>1, <1>2, <1>3 DEF HeaderOps

\* What is around the fields.
Before(c) ==
  <<Op("clear", <<>>)>> \o (IF c.fn \in HeaderFirst THEN HeaderOps(c) ELSE <<>>)
After(c) ==
  (IF c.fn \in HeaderFirst THEN <<Op("length", <<>>)>>
   ELSE <<Op("length", <<>>)>> \o HeaderOps(c)) \o <<Op("send", <<>>)>>

\* Neither do the statements around it.
LEMMA OnePlain ==
  /\ <<Op("clear", <<>>)>> \in Seq(PlainOps) /\ <<Op("length", <<>>)>> \in Seq(PlainOps)
  /\ <<Op("send", <<>>)>> \in Seq(PlainOps) /\ <<>> \in Seq(PlainOps)
  BY DEF Op, PlainOps, OpName, Idents

\* What a call does before and after it draws an identifier.
LEMMA AroundPlain ==
  ASSUME NEW c \in Call
  PROVE  Before(c) \in Seq(PlainOps) /\ After(c) \in Seq(PlainOps)
<1>1. \A s, r \in Seq(PlainOps) : s \o r \in Seq(PlainOps)
  BY ConcatProperties
<1> QED
  BY <1>1, HeaderPlain, OnePlain DEF Before, After

----------------------------------------------------------------------------
(* The inductive invariants                                                *)

HasOp(s, o) == \E i \in 1 .. Len(s) : s[i].op = o

\* A call ends by sending, and only then.
SendLast(s) == \A i \in 1 .. Len(s) : s[i].op = "send" <=> i = Len(s)

\* What a thread still has to execute.
Programs ==
  /\ todo \in [Thread -> Seq(Ops)] /\ call \in [Thread -> Call \cup {Idle}]
  /\ \A t \in Thread :
       /\ Ordered(todo[t]) /\ SendLast(todo[t])
       /\ IF Busy(t) THEN call[t] \in Call /\ (outside \/ at[t] >= FirstField(call[t]))
                     ELSE call[t] = Idle /\ took[t] = <<>>

\* The identifier is still to be taken.
Drawing(t) == HasOp(todo[t], "store")

\* A thread that draws has executed nothing of it but what its history says, and when
\* it is alone in that the identifier is the one it began with.
Draw ==
  \A t \in Thread : Drawing(t) =>
    /\ Draws(call[t])
    /\ HasOp(todo[t], "msb") => took[t] = <<>>
    /\ solo[t] =>
         /\ packet_ident = ident0[t]
         /\ HasOp(todo[t], "msb")
              \/ took[t] = IF HasOp(todo[t], "lsb") THEN <<Msb(ident0[t])>>
                           ELSE IdentBytes(ident0[t])
         /\ HasOp(todo[t], "fetch") \/ seen[t] = ident0[t]

\* Two calls that take identifiers and overlap are neither of them solo.
SoloAlone ==
  \A t, u \in Thread :
    t # u /\ Busy(t) /\ Busy(u) /\ Draws(call[t]) /\ Draws(call[u]) => ~solo[t]

\* How often an identifier was incremented since the first.
Age(i) == IF i >= FirstIdent THEN i - FirstIdent ELSE i + IdentMod - FirstIdent

\* Who has read the identifier it is about to increment.
Fetched(t) == Drawing(t) /\ ~HasOp(todo[t], "fetch")
Pending == {t \in Thread : Drawing(t)}

\* Every increment made or begun belongs to a call of its own.
Increments ==
  /\ IsFiniteSet(Pending)
  /\ Age(packet_ident) + Cardinality(Pending) <= made
  /\ \A t \in Thread : Fetched(t) => Age(seen[t]) + Cardinality(Pending) <= made

\* The identifier two bytes are of.
Drew(b) == IdentBase * b[1] + b[2]

\* What was drawn is older than the identifier and not younger than what one is
\* about to increment, and no two are as old.
Drawn ==
  /\ drawn \in Seq(Seq(Nat))
  /\ \A i \in 1 .. Len(drawn) :
       /\ Drew(drawn[i]) \in 0 .. IdentMod - 1
       /\ Age(Drew(drawn[i])) < Age(packet_ident)
       /\ \A t \in Thread : Fetched(t) => Age(Drew(drawn[i])) <= Age(seen[t])
  /\ \A i, j \in 1 .. Len(drawn) : i # j => Age(Drew(drawn[i])) # Age(Drew(drawn[j]))

----------------------------------------------------------------------------
(* Executing a statement                                                   *)

\* A sequence of statements: the first and the rest.
LEMMA TailIs ==
  ASSUME NEW U, NEW s \in Seq(U), s # <<>>
  PROVE  /\ Tail(s) \in Seq(U) /\ Len(s) \in Nat /\ Len(s) # 0
         /\ Len(Tail(s)) = Len(s) - 1 /\ Head(s) = s[1] /\ Head(s) \in U
         /\ \A i \in 1 .. Len(s) - 1 : Tail(s)[i] = s[i + 1]
  OBVIOUS

\* The statements of an identifier that are left.
LEMMA OrderedAll ==
  ASSUME NEW s \in Seq(Ops), Ordered(s)
  PROVE  /\ HasOp(s, "msb") => HasOp(s, "lsb")
         /\ HasOp(s, "lsb") => HasOp(s, "fetch")
         /\ HasOp(s, "fetch") => HasOp(s, "store")
<1>1. Len(s) \in Nat
  OBVIOUS
<1>2. \A i \in 1 .. Len(s) : i < Len(s) => i + 1 \in 1 .. Len(s)
  BY <1>1
<1> QED
  BY <1>2 DEF HasOp, Ordered

\* One that is next stands in its order.
LEMMA OrderedHead ==
  ASSUME NEW s \in Seq(Ops), Ordered(s), s # <<>>
  PROVE  /\ Head(s).op = "lsb" => ~HasOp(s, "msb")
         /\ Head(s).op = "fetch" => ~HasOp(s, "msb") /\ ~HasOp(s, "lsb")
         /\ Head(s).op = "store" => ~HasOp(s, "msb") /\ ~HasOp(s, "lsb") /\ ~HasOp(s, "fetch")
<1>1. Len(s) \in Nat /\ Len(s) # 0 /\ Head(s) = s[1] /\ 1 \in 1 .. Len(s)
  BY TailIs
<1>2. ASSUME s[1].op = "store"
      PROVE  ~HasOp(s, "msb") /\ ~HasOp(s, "lsb") /\ ~HasOp(s, "fetch")
  <2>1. \A j \in 1 .. Len(s) : j = 1 \/ j \in 1 + 1 .. Len(s)
    BY <1>1
  <2>2. \A j \in 1 + 1 .. Len(s) : s[j].op \notin Idents
    BY <1>1, <1>2 DEF Ordered
  <2> QED
    BY <1>2, <2>1, <2>2 DEF HasOp, Idents
<1>3. ASSUME s[1].op = "fetch"
      PROVE  ~HasOp(s, "msb") /\ ~HasOp(s, "lsb")
  <2>1. Len(s) > 1 /\ s[2].op = "store" /\ 2 \in 1 .. Len(s)
    BY <1>1, <1>3 DEF Ordered
  <2>2. \A j \in 1 .. Len(s) : j = 1 \/ j = 2 \/ j \in 2 + 1 .. Len(s)
    BY <1>1
  <2>3. \A j \in 2 + 1 .. Len(s) : s[j].op \notin Idents
    BY <2>1 DEF Ordered
  <2> QED
    BY <1>3, <2>1, <2>2, <2>3 DEF HasOp, Idents
<1>4. ASSUME s[1].op = "lsb"
      PROVE  ~HasOp(s, "msb")
  <2>1. Len(s) > 1 /\ s[2].op = "fetch" /\ 2 \in 1 .. Len(s)
    BY <1>1, <1>4 DEF Ordered
  <2>2. Len(s) > 2 /\ s[3].op = "store" /\ 3 \in 1 .. Len(s)
    BY <1>1, <2>1 DEF Ordered
  <2>3. \A j \in 1 .. Len(s) : j = 1 \/ j = 2 \/ j = 3 \/ j \in 3 + 1 .. Len(s)
    BY <1>1
  <2>4. \A j \in 3 + 1 .. Len(s) : s[j].op \notin Idents
    BY <2>2 DEF Ordered
  <2> QED
    BY <1>4, <2>1, <2>2, <2>3, <2>4 DEF HasOp, Idents
<1> QED
  BY <1>1, <1>2, <1>3, <1>4

\* None comes twice.
LEMMA OrderedOnce ==
  ASSUME NEW s \in Seq(Ops), Ordered(s), s # <<>>, s[1].op \in Idents
  PROVE  \A j \in 2 .. Len(s) : s[j].op # s[1].op
<1>1. Len(s) \in Nat /\ Len(s) # 0 /\ 1 \in 1 .. Len(s)
  BY TailIs
<1>2. ASSUME NEW k \in 1 .. Len(s), s[k].op = "store"
      PROVE  \A j \in 1 .. Len(s) : j <= k \/ s[j].op \notin Idents
  <2>1. \A j \in k + 1 .. Len(s) : s[j].op \notin Idents
    BY <1>2 DEF Ordered
  <2> QED
    BY <1>1, <2>1
<1>3. CASE s[1].op = "store"
  BY <1>1, <1>2, <1>3
<1>4. CASE s[1].op = "fetch"
  <2>1. 2 \in 1 .. Len(s) /\ s[2].op = "store"
    BY <1>1, <1>4 DEF Ordered
  <2> QED
    BY <1>1, <1>2, <1>4, <2>1 DEF Idents
<1>5. CASE s[1].op = "lsb"
  <2>1. 2 \in 1 .. Len(s) /\ s[2].op = "fetch"
    BY <1>1, <1>5 DEF Ordered
  <2>2. 3 \in 1 .. Len(s) /\ s[3].op = "store"
    BY <1>1, <2>1 DEF Ordered
  <2>3. \A j \in 2 .. Len(s) : j = 2 \/ j = 3 \/ s[j].op \notin Idents
    BY <1>1, <1>2, <2>2
  <2> QED
    BY <1>5, <2>1, <2>2, <2>3 DEF Idents
<1>6. CASE s[1].op = "msb"
  <2>1. 2 \in 1 .. Len(s) /\ s[2].op = "lsb"
    BY <1>1, <1>6 DEF Ordered
  <2>2. 3 \in 1 .. Len(s) /\ s[3].op = "fetch"
    BY <1>1, <2>1 DEF Ordered
  <2>3. 4 \in 1 .. Len(s) /\ s[4].op = "store"
    BY <1>1, <2>2 DEF Ordered
  <2>4. \A j \in 2 .. Len(s) : j = 2 \/ j = 3 \/ j = 4 \/ s[j].op \notin Idents
    BY <1>1, <1>2, <2>3
  <2> QED
    BY <1>6, <2>1, <2>2, <2>3, <2>4 DEF Idents
<1> QED
  BY <1>3, <1>4, <1>5, <1>6 DEF Idents

\* What is left after one of them has one less of it.
LEMMA OrderedTail ==
  ASSUME NEW s \in Seq(Ops), Ordered(s), s # <<>>
  PROVE  /\ Ordered(Tail(s))
         /\ \A o \in Idents : HasOp(Tail(s), o) <=> HasOp(s, o) /\ Head(s).op # o
<1> DEFINE r == Tail(s)
<1>1. /\ r \in Seq(Ops) /\ Len(s) \in Nat /\ Len(s) # 0 /\ Len(r) = Len(s) - 1
      /\ Head(s) = s[1] /\ 1 \in 1 .. Len(s)
      /\ \A i \in 1 .. Len(r) : r[i] = s[i + 1]
  BY TailIs
<1> HIDE DEF r
<1>2. \A i \in 1 .. Len(r) : i + 1 \in 1 .. Len(s) /\ (i + 1 < Len(s) => i < Len(r) /\ i + 1 \in 1 .. Len(r))
  BY <1>1
<1>3. Ordered(r)
  <2> SUFFICES ASSUME NEW i \in 1 .. Len(r)
               PROVE  /\ r[i].op = "msb" => i < Len(r) /\ r[i + 1].op = "lsb"
                      /\ r[i].op = "lsb" => i < Len(r) /\ r[i + 1].op = "fetch"
                      /\ r[i].op = "fetch" => i < Len(r) /\ r[i + 1].op = "store"
                      /\ r[i].op = "store" => \A j \in i + 1 .. Len(r) : r[j].op \notin Idents
    BY DEF Ordered
  <2>1. /\ i + 1 \in 1 .. Len(s) /\ r[i] = s[i + 1]
        /\ (i + 1 < Len(s) => i < Len(r) /\ r[i + 1] = s[(i + 1) + 1])
    BY <1>1, <1>2
  <2>2. \A j \in i + 1 .. Len(r) : r[j] = s[j + 1] /\ j + 1 \in (i + 1) + 1 .. Len(s)
    BY <1>1
  <2>3. /\ s[i + 1].op = "msb" => i + 1 < Len(s) /\ s[(i + 1) + 1].op = "lsb"
        /\ s[i + 1].op = "lsb" => i + 1 < Len(s) /\ s[(i + 1) + 1].op = "fetch"
        /\ s[i + 1].op = "fetch" => i + 1 < Len(s) /\ s[(i + 1) + 1].op = "store"
        /\ s[i + 1].op = "store" => \A j \in (i + 1) + 1 .. Len(s) : s[j].op \notin Idents
    BY <2>1 DEF Ordered
  <2> QED
    BY <2>1, <2>2, <2>3
<1>4. \A o : HasOp(r, o) => HasOp(s, o)
  BY <1>1, <1>2 DEF HasOp
<1>5. \A o : HasOp(s, o) /\ s[1].op # o => HasOp(r, o)
  <2> SUFFICES ASSUME NEW o, HasOp(s, o), s[1].op # o PROVE HasOp(r, o)
    OBVIOUS
  <2>1. PICK i \in 1 .. Len(s) : s[i].op = o
    BY DEF HasOp
  <2>2. i # 1 /\ i - 1 \in 1 .. Len(r) /\ r[i - 1] = s[i]
    BY <1>1, <2>1
  <2> QED
    BY <2>1, <2>2 DEF HasOp
<1>6. ASSUME NEW o \in Idents, HasOp(r, o) PROVE s[1].op # o
  <2>1. PICK i \in 1 .. Len(r) : r[i].op = o
    BY <1>6 DEF HasOp
  <2>2. i + 1 \in 2 .. Len(s) /\ s[i + 1].op = o
    BY <1>1, <1>2, <2>1, SMTT(30)
  <2> QED
    BY <2>2, OrderedOnce
<1> QED
  BY <1>1, <1>3, <1>4, <1>5, <1>6 DEF r

\* Statements before the last one.
NoSend == [op : OpName \ {"send"}, bytes : Seq(Nat)]

\* The last statement sends, and no other.
LEMMA SendLastTail ==
  ASSUME NEW s \in Seq(Ops), SendLast(s), s # <<>>
  PROVE  SendLast(Tail(s)) /\ (Head(s).op = "send" <=> Tail(s) = <<>>)
<1>1. /\ Tail(s) \in Seq(Ops) /\ Len(s) \in Nat /\ Len(s) # 0
      /\ Len(Tail(s)) = Len(s) - 1 /\ Head(s) = s[1]
      /\ \A i \in 1 .. Len(s) - 1 : Tail(s)[i] = s[i + 1]
  BY TailIs
<1>2. \A i \in 1 .. Len(Tail(s)) : i + 1 \in 1 .. Len(s) /\ Tail(s)[i] = s[i + 1]
                                    /\ (i + 1 = Len(s) <=> i = Len(Tail(s)))
  BY <1>1
<1>3. Tail(s) = <<>> <=> Len(s) = 1
  BY <1>1, EmptySeq
<1>4. 1 \in 1 .. Len(s)
  BY <1>1, SMTT(30)
<1>5. s[1].op = "send" <=> Len(s) = 1
  BY <1>1, <1>4 DEF SendLast
<1> QED
  BY <1>1, <1>2, <1>3, <1>5 DEF SendLast

\* So it is when a call ends with the send.
LEMMA SendLastEnd ==
  ASSUME NEW s \in Seq(NoSend)
  PROVE  SendLast(s \o <<Op("send", <<>>)>>) /\ s \o <<Op("send", <<>>)>> # <<>>
<1> DEFINE r == s \o <<Op("send", <<>>)>>
<1>1. \A i \in 1 .. Len(s) : s[i].op # "send"
  <2>1. \A i \in 1 .. Len(s) : s[i] \in NoSend
    BY ElementOfSeq
  <2> QED
    BY <2>1 DEF NoSend
<1>2. /\ Len(r) = Len(s) + 1 /\ Len(s) \in Nat /\ r[Len(s) + 1] = Op("send", <<>>)
      /\ \A i \in 1 .. Len(s) : r[i] = s[i]
  OBVIOUS
<1>3. Op("send", <<>>).op = "send"
  BY DEF Op
<1> HIDE DEF r
<1>4. r # <<>>
  <2>1. Len(r) # 0
    BY <1>2
  <2>2. Len(<<>>) = 0
    OBVIOUS
  <2> QED
    BY <2>1, <2>2, Zenon
<1> QED
  BY <1>1, <1>2, <1>3, <1>4 DEF SendLast, r

\* Parts that do not send, put together, do not send.
LEMMA NoSendConcat ==
  ASSUME NEW s \in Seq(NoSend), NEW r \in Seq(NoSend)
  PROVE  s \o r \in Seq(NoSend)
  BY ConcatProperties

\* No other part of a call sends.
LEMMA NoSendParts ==
  ASSUME NEW c \in Call
  PROVE  /\ HeaderOps(c) \in Seq(NoSend) /\ Fields(c) \in Seq(NoSend)
         /\ <<Op("clear", <<>>)>> \in Seq(NoSend) /\ <<Op("length", <<>>)>> \in Seq(NoSend)
<1>1. \A x \in Nat : <<Op("header", <<x>>)>> \in Seq(NoSend)
  BY DEF Op, NoSend, OpName, Idents
<1>2. /\ <<Op("flag", <<>>)>> \in Seq(NoSend) /\ <<Op("clear", <<>>)>> \in Seq(NoSend)
      /\ <<Op("length", <<>>)>> \in Seq(NoSend) /\ NewIdent \in Seq(NoSend)
      /\ <<>> \in Seq(NoSend)
  BY DEF Op, NoSend, OpName, Idents, NewIdent
<1>3. HeaderOps(c) \in Seq(NoSend)
  BY <1>1, <1>2, HeaderPlain, NoSendConcat DEF HeaderOps
<1>4. Seq(FieldOps) \subseteq Seq(NoSend)
  <2>1. FieldOps \subseteq NoSend
    BY DEF FieldOps, NoSend, OpName, Idents
  <2> QED
    BY <2>1, SeqMonotonic
<1>5. Fields(c) \in Seq(NoSend)
  <2>1. CASE Draws(c)
    <3>1. PICK pre \in Seq(FieldOps), post \in Seq(FieldOps) :
            Fields(c) = pre \o NewIdent \o post
      BY <2>1, FieldsShape
    <3>2. pre \in Seq(NoSend) /\ post \in Seq(NoSend)
      BY <1>4
    <3> QED
      BY <1>2, <3>1, <3>2, NoSendConcat
  <2>2. CASE ~Draws(c)
    BY <1>4, <2>2, FieldsShape
  <2> QED
    BY <2>1, <2>2
<1> QED
  BY <1>2, <1>3, <1>5

\* Statements put together are statements.
LEMMA OpsConcat ==
  ASSUME NEW x \in Seq(Ops), NEW y \in Seq(Ops)
  PROVE  x \o y \in Seq(Ops)
  BY ConcatProperties

\* Sequences of statements associate.
LEMMA OpsAssociative ==
  ASSUME NEW x \in Seq(Ops), NEW y \in Seq(Ops), NEW z \in Seq(Ops)
  PROVE  Associated(x, y, z)
  BY Associates

\* Where five sequences are put together first does not matter.
Regroups(a, b, i, d, e) == (a \o ((b \o i) \o d)) \o e = ((a \o b) \o i) \o (d \o e)

\* Five parts of a call, grouped around the identifier.
LEMMA Reassociate ==
  ASSUME NEW a \in Seq(Ops), NEW b \in Seq(Ops), NEW i \in Seq(Ops),
         NEW d \in Seq(Ops), NEW e \in Seq(Ops)
  PROVE  Regroups(a, b, i, d, e)
<1>1. b \o i \in Seq(Ops) /\ i \o d \in Seq(Ops) /\ a \o b \in Seq(Ops)
  BY OpsConcat
<1>2. (a \o b) \o i \in Seq(Ops)
  BY <1>1, OpsConcat
<1>3. /\ Associated(b, i, d) /\ Associated(a, b, i \o d)
      /\ Associated(a \o b, i, d) /\ Associated((a \o b) \o i, d, e)
  BY <1>1, <1>2, OpsAssociative
<1> QED
  BY <1>3, Zenon DEF Associated, Regroups

\* The program of a call is what is around its fields, and they.
LEMMA ProgramIs ==
  ASSUME NEW c \in Call
  PROVE  Program(c) = Before(c) \o Fields(c) \o After(c)
<1>1. /\ HeaderOps(c) \in Seq(Ops) /\ Fields(c) \in Seq(Ops)
      /\ <<Op("clear", <<>>)>> \in Seq(Ops) /\ <<Op("length", <<>>)>> \in Seq(Ops)
      /\ <<Op("send", <<>>)>> \in Seq(Ops)
  <2>1. Seq(NoSend) \subseteq Seq(Ops)
    <3>1. NoSend \subseteq Ops
      BY DEF NoSend, Ops
    <3> QED
      BY <3>1, SeqMonotonic
  <2> QED
    BY <2>1, NoSendParts, OnePlain, PlainSeq
<1>2. CASE c.fn \in HeaderFirst
  <2>1. Regroups(<<Op("clear", <<>>)>>, HeaderOps(c), Fields(c), <<Op("length", <<>>)>>,
                 <<Op("send", <<>>)>>)
    BY <1>1, Reassociate
  <2> QED
    BY <1>2, <2>1 DEF Program, Before, After, Regroups
<1>3. CASE c.fn \notin HeaderFirst
  <2> DEFINE x == <<Op("clear", <<>>)>>
             f == Fields(c)
             l == <<Op("length", <<>>)>>
             h == HeaderOps(c)
             s == <<Op("send", <<>>)>>
  <2>1. Program(c) = (x \o ((f \o l) \o h)) \o s
    BY <1>3 DEF Program
  <2>2. Before(c) = x \o <<>> /\ After(c) = (l \o h) \o s
    BY <1>3 DEF Before, After
  <2>3. x \in Seq(Ops) /\ f \in Seq(Ops) /\ l \in Seq(Ops) /\ h \in Seq(Ops) /\ s \in Seq(Ops)
    BY <1>1
  <2> HIDE DEF x, f, l, h, s
  <2>4. l \o h \in Seq(Ops) /\ x \o f \in Seq(Ops) /\ x \o <<>> = x
    BY <2>3, OpsConcat, ConcatEmptySeq
  <2>5. Associated(f, l, h) /\ Associated(x, f, l \o h) /\ Associated(x \o f, l \o h, s)
    BY <2>3, <2>4, OpsAssociative
  <2>6. Program(c) = (x \o f) \o ((l \o h) \o s)
    BY <2>1, <2>5, Zenon DEF Associated
  <2> QED
    BY <2>2, <2>4, <2>6, Zenon DEF f
<1> QED
  BY <1>2, <1>3

\* The statements of a call: it draws its identifier in order, or none, and sends last.
LEMMA ProgramShape ==
  ASSUME NEW c \in Call
  PROVE  /\ Program(c) \in Seq(Ops) /\ Program(c) # <<>>
         /\ Ordered(Program(c)) /\ SendLast(Program(c))
         /\ Draws(c) => HasOp(Program(c), "msb")
         /\ ~Draws(c) => \A o \in Idents : ~HasOp(Program(c), o)
<1>1. \E s \in Seq(NoSend) : Program(c) = s \o <<Op("send", <<>>)>>
  <2>1. /\ HeaderOps(c) \o Fields(c) \o <<Op("length", <<>>)>> \in Seq(NoSend)
        /\ Fields(c) \o <<Op("length", <<>>)>> \o HeaderOps(c) \in Seq(NoSend)
        /\ <<Op("clear", <<>>)>> \in Seq(NoSend)
    BY NoSendParts, NoSendConcat
  <2> DEFINE m == IF c.fn \in HeaderFirst
                  THEN HeaderOps(c) \o Fields(c) \o <<Op("length", <<>>)>>
                  ELSE Fields(c) \o <<Op("length", <<>>)>> \o HeaderOps(c)
  <2>2. Program(c) = (<<Op("clear", <<>>)>> \o m) \o <<Op("send", <<>>)>>
    BY DEF Program
  <2>3. m \in Seq(NoSend)
    BY <2>1
  <2> HIDE DEF m
  <2>4. <<Op("clear", <<>>)>> \o m \in Seq(NoSend)
    BY <2>1, <2>3, NoSendConcat
  <2> QED
    BY <2>2, <2>4
<1>2. Program(c) # <<>> /\ SendLast(Program(c))
  BY <1>1, SendLastEnd
<1>3. Before(c) \in Seq(PlainOps) /\ After(c) \in Seq(PlainOps)
  BY AroundPlain
<1>4. \A s, r \in Seq(PlainOps) : s \o r \in Seq(PlainOps)
  BY ConcatProperties
<1>5. CASE Draws(c)
  <2>1. PICK pre \in Seq(PlainOps), post \in Seq(PlainOps) :
          Fields(c) = pre \o NewIdent \o post
    BY <1>5, FieldsShape, PlainSeq
  <2>2. Program(c) = (Before(c) \o pre) \o NewIdent \o (post \o After(c))
    <3>1. /\ Before(c) \in Seq(Ops) /\ After(c) \in Seq(Ops) /\ pre \in Seq(Ops)
          /\ post \in Seq(Ops) /\ NewIdent \in Seq(Ops)
      BY <1>3, PlainSeq, IdentOps
    <3>2. Regroups(Before(c), pre, NewIdent, post, After(c))
      BY <3>1, Reassociate
    <3> QED
      BY <2>1, <3>2, ProgramIs, Zenon DEF Regroups
  <2>3. Before(c) \o pre \in Seq(PlainOps) /\ post \o After(c) \in Seq(PlainOps)
    BY <1>3, <1>4
  <2>4. ASSUME NEW x \in Seq(PlainOps), NEW y \in Seq(PlainOps)
        PROVE  /\ x \o NewIdent \o y \in Seq(Ops) /\ Ordered(x \o NewIdent \o y)
               /\ HasOp(x \o NewIdent \o y, "msb")
    BY OrderedProgram DEF HasOp
  <2>5. Program(c) \in Seq(Ops) /\ Ordered(Program(c)) /\ HasOp(Program(c), "msb")
    BY <2>2, <2>3, <2>4, Zenon
  <2> QED
    BY <1>2, <1>5, <2>5
<1>6. CASE ~Draws(c)
  <2>1. Fields(c) \in Seq(PlainOps)
    BY <1>6, FieldsShape, PlainSeq
  <2>2. Program(c) \in Seq(PlainOps)
    BY <1>3, <1>4, <2>1, ProgramIs
  <2> QED
    BY <1>2, <1>6, <2>2, OrderedPlain DEF HasOp
<1> QED
  BY <1>5, <1>6

----------------------------------------------------------------------------
(* Types                                                                   *)

\* The statement a thread executes is the next of its program.
LEMMA DoesStep ==
  ASSUME Programs, NEW t \in Thread, NEW o, Does(t, o)
  PROVE  /\ Busy(t) /\ call[t] \in Call /\ ~outside /\ at[t] >= FirstField(call[t])
         /\ Now(t) \in Ops /\ Now(t).op = o
         /\ todo' \in [Thread -> Seq(Ops)]
         /\ \A u \in Thread : u # t => todo'[u] = todo[u]
         /\ \A u \in Thread : Ordered(todo'[u]) /\ SendLast(todo'[u])
         /\ o = "send" <=> todo'[t] = <<>>
         /\ \A p \in Idents : HasOp(todo'[t], p) <=> HasOp(todo[t], p) /\ p # o
         /\ o \in Idents => HasOp(todo[t], o)
<1>1. todo[t] \in Seq(Ops) /\ todo[t] # <<>> /\ Ordered(todo[t]) /\ SendLast(todo[t])
  BY DEF Programs, Does, Busy
<1>2. /\ Tail(todo[t]) \in Seq(Ops) /\ Head(todo[t]) = todo[t][1] /\ Head(todo[t]) \in Ops
      /\ 1 \in 1 .. Len(todo[t])
  BY <1>1, TailIs
<1>3. todo' \in [Thread -> Seq(Ops)] /\ todo'[t] = Tail(todo[t])
      /\ \A u \in Thread : u # t => todo'[u] = todo[u]
  BY <1>2 DEF Programs, Does
<1>4. Now(t).op = o /\ Now(t) = Head(todo[t])
  BY DEF Does, Now
<1>5. Ordered(Tail(todo[t])) /\ SendLast(Tail(todo[t])) /\ (o = "send" <=> Tail(todo[t]) = <<>>)
  BY <1>1, <1>4, OrderedTail, SendLastTail
<1>6. \A p \in Idents : HasOp(Tail(todo[t]), p) <=> HasOp(todo[t], p) /\ p # o
  BY <1>1, <1>4, OrderedTail
<1>7. \A u \in Thread : Ordered(todo'[u]) /\ SendLast(todo'[u])
  BY <1>3, <1>5 DEF Programs
<1>8. HasOp(todo[t], o)
  BY <1>2, <1>4 DEF HasOp
<1>9. call[t] \in Call /\ ~outside /\ at[t] >= FirstField(call[t]) /\ Busy(t)
  BY DEF Programs, Does
<1> QED
  BY <1>2, <1>3, <1>4, <1>5, <1>6, <1>7, <1>8, <1>9

\* A statement before the last keeps the program of its thread in order.
LEMMA ProgramsKept ==
  ASSUME Programs, NEW t \in Thread, NEW o, Does(t, o), o # "send", call' = call,
         outside' \/ at'[t] >= at[t], at[t] \in Int, outside' \/ at'[t] \in Int,
         \A u \in Thread : u # t => took'[u] = took[u] /\ (outside' \/ at'[u] = at[u])
  PROVE  Programs'
<1>1. \A c \in Call : FirstField(c) \in Nat
  BY DEF FirstField
<1>2. /\ todo' \in [Thread -> Seq(Ops)] /\ ~outside
      /\ \A u \in Thread : Ordered(todo'[u]) /\ SendLast(todo'[u])
  BY DoesStep
<1>3. ASSUME NEW u \in Thread, u # t
      PROVE  IF todo'[u] # <<>>
             THEN call'[u] \in Call /\ (outside' \/ at'[u] >= FirstField(call'[u]))
             ELSE call'[u] = Idle /\ took'[u] = <<>>
  <2>1. todo'[u] = todo[u]
    BY <1>3, DoesStep
  <2>2. IF todo[u] # <<>> THEN call[u] \in Call /\ at[u] >= FirstField(call[u])
                          ELSE call[u] = Idle /\ took[u] = <<>>
    BY <1>2 DEF Programs, Busy
  <2> QED
    BY <1>3, <2>1, <2>2
<1>4. /\ todo'[t] # <<>> /\ call[t] \in Call
      /\ outside' \/ at'[t] >= FirstField(call[t])
  <2>1. todo'[t] # <<>> /\ call[t] \in Call /\ at[t] >= FirstField(call[t])
    BY DoesStep
  <2> QED
    BY <1>1, <2>1
<1>5. \A u \in Thread :
        IF todo'[u] # <<>>
        THEN call'[u] \in Call /\ (outside' \/ at'[u] >= FirstField(call'[u]))
        ELSE call'[u] = Idle /\ took'[u] = <<>>
  BY <1>3, <1>4
<1>6. call' \in [Thread -> Call \cup {Idle}]
  BY DEF Programs
<1> QED
  BY <1>2, <1>5, <1>6 DEF Programs, Busy

\* Bytes written anywhere leave bytes in the buffer.
LEMMA WriteType ==
  ASSUME TypeOK, NEW i \in Nat, NEW s \in Seq(Nat), Write(i, s)
  PROVE  /\ tx_buf' \in [0 .. BufSize - 1 -> Nat] /\ outside' \in BOOLEAN
         /\ ~outside' => i + Len(s) <= BufSize
<1>1. ASSUME NEW j \in 0 .. BufSize - 1
      PROVE  (IF j \in i .. i + Len(s) - 1 THEN s[j - i + 1] ELSE tx_buf[j]) \in Nat
  <2>1. CASE j \in i .. i + Len(s) - 1
    <3>1. j - i + 1 \in 1 .. Len(s)
      BY <1>1, <2>1
    <3> QED
      BY <2>1, <3>1, ElementOfSeq
  <2>2. CASE j \notin i .. i + Len(s) - 1
    BY <2>2 DEF TypeOK
  <2> QED
    BY <2>1, <2>2
<1>2. outside' \in BOOLEAN
  BY DEF Write
<1>3. ~outside' => i + Len(s) <= BufSize
  <2>1. Len(s) \in Nat /\ BufSize \in Nat
    BY TxAssumption
  <2>2. ~outside' => ~(i + Len(s) > BufSize)
    BY Zenon DEF Write
  <2> QED
    BY <2>1, <2>2
<1>4. tx_buf' \in [0 .. BufSize - 1 -> Nat]
  BY <1>1 DEF Write
<1> QED
  BY <1>2, <1>3, <1>4

\* strlen stops within the buffer.
LEMMA StrLenType ==
  ASSUME TypeOK, NEW i \in 0 .. BufSize
  PROVE  /\ StrLen(i) \in 0 .. BufSize
         /\ \A j \in i .. i + StrLen(i) - 1 : j < BufSize /\ tx_buf[j] # 0
         /\ i + StrLen(i) >= BufSize \/ tx_buf[i + StrLen(i)] = 0
<1>0. BufSize \in Nat
  BY TxAssumption
<1> DEFINE T == {n \in Nat : i + n >= BufSize \/ tx_buf[i + n] = 0}
           R(n) == /\ \A j \in i .. i + n - 1 : j < BufSize /\ tx_buf[j] # 0
                   /\ i + n >= BufSize \/ tx_buf[i + n] = 0
<1>1. BufSize - i \in T
  BY <1>0
<1>2. PICK m \in T : \A k \in T : m <= k
  BY <1>1, LeastNumber
<1>3. m \in 0 .. BufSize
  BY <1>0, <1>1, <1>2
<1>4. ASSUME NEW j \in i .. i + m - 1 PROVE j < BufSize /\ tx_buf[j] # 0
  <2>1. j - i \in Nat /\ j - i < m /\ i + (j - i) = j
    BY <1>3
  <2>2. j - i \notin T
    BY <1>2, <1>3, <2>1
  <2>3. j - i \in Nat /\ ~(i + (j - i) >= BufSize \/ tx_buf[i + (j - i)] = 0)
    BY <2>1, <2>2
  <2> QED
    BY <1>0, <2>1, <2>3
<1>5. R(m)
  BY <1>2, <1>4
<1> HIDE DEF T
<1>6. \E n \in 0 .. BufSize : R(n)
  BY <1>3, <1>5
<1>7. StrLen(i) = CHOOSE n \in 0 .. BufSize : R(n)
  BY DEF StrLen
<1> HIDE DEF R
<1>8. StrLen(i) \in 0 .. BufSize /\ R(StrLen(i))
  BY <1>6, <1>7
<1> QED
  BY <1>8 DEF R

\* A length takes one byte or two.
LEMMA RemainLenType ==
  ASSUME NEW n \in Nat
  PROVE  RemainLen(n) \in Seq(Nat) /\ Len(RemainLen(n)) \in 1 .. 2
<1>1. LenBase \in Nat \ {0}
  BY TxAssumption
<1>2. n \div LenBase \in Nat /\ n % LenBase \in Nat
  BY <1>1, Division
<1> QED
  BY <1>1, <1>2 DEF RemainLen

\* A packet starts within the buffer, before its first field.
LEMMA StartType ==
  ASSUME NEW c, NEW n \in Nat
  PROVE  /\ FirstField(c) \in Nat /\ Start(c, n) \in Nat
         /\ Start(c, n) < FirstField(c) /\ Start(c, n) < BufSize
<1> DEFINE r == Len(RemainLen(n))
<1>1. r \in 1 .. 2 /\ BufSize \in Nat /\ BufSize > 5
  BY RemainLenType, TxAssumption
<1>2. c.fn \in HeaderFirst => FirstField(c) = 2 /\ Start(c, n) = 0
  BY DEF FirstField, Start
<1>3. c.fn \notin HeaderFirst => FirstField(c) = 5 /\ Start(c, n) = 5 - 1 - r
  BY DEF FirstField, Start
<1> HIDE DEF r
<1> QED
  BY <1>1, <1>2, <1>3

\* What Begin hands the thread.
LEMMA BeginType ==
  ASSUME TypeOK, Programs, NEW t \in Thread, Begin(t)
  PROVE  TypeOK' /\ Programs'
<1>1. PICK c \in Calls[t] :
        /\ call' = [call EXCEPT ![t] = c] /\ todo' = [todo EXCEPT ![t] = Program(c)]
        /\ at' = [at EXCEPT ![t] = FirstField(c)]
        /\ ident0' = [ident0 EXCEPT ![t] = packet_ident]
        /\ alone' = [u \in Thread |->
             IF u = t THEN \A v \in Thread : ~Busy(v) ELSE alone[u] /\ ~Busy(u)]
        /\ solo' = [u \in Thread |->
             IF u = t THEN \A v \in Thread : Busy(v) => ~Draws(call[v])
             ELSE solo[u] /\ ~(Busy(u) /\ Draws(c))]
  BY DEF Begin
<1>2. /\ ~Busy(t) /\ made < MaxCalls /\ ~outside /\ made' = made + 1
      /\ UNCHANGED <<tx_buf, packet_ident, gap, seen, took, outside>>
  BY DEF Begin, shared
<1>3. c \in Call /\ FirstField(c) \in 0 .. BufSize
  BY TxAssumption DEF FirstField
<1>4. /\ Program(c) \in Seq(Ops) /\ Program(c) # <<>>
      /\ Ordered(Program(c)) /\ SendLast(Program(c))
  BY <1>3, ProgramShape
<1>5. at \in [Thread -> 0 .. BufSize]
  BY <1>2 DEF TypeOK
<1>6. at' \in [Thread -> 0 .. BufSize]
  BY <1>1, <1>3, <1>5
<1>7. call' \in [Thread -> Call \cup {Idle}] /\ todo' \in [Thread -> Seq(Ops)]
  BY <1>1, <1>3, <1>4 DEF Programs
<1>8. alone' \in [Thread -> BOOLEAN] /\ solo' \in [Thread -> BOOLEAN]
  <2>1. \A u \in Thread :
          /\ (IF u = t THEN \A v \in Thread : ~Busy(v) ELSE alone[u] /\ ~Busy(u)) \in BOOLEAN
          /\ (IF u = t THEN \A v \in Thread : Busy(v) => ~Draws(call[v])
              ELSE solo[u] /\ ~(Busy(u) /\ Draws(c))) \in BOOLEAN
    BY Zenon
  <2> QED
    BY <1>1, <2>1, Zenon
<1>9. made' \in 0 .. MaxCalls
  BY <1>2, TxAssumption, SMTT(30) DEF TypeOK
<1>10. \A u \in Thread : call'[u] \in Calls[u] \cup {Idle}
  BY <1>1 DEF TypeOK, Programs
<1>11. ident0' \in [Thread -> 0 .. IdentMod - 1]
  BY <1>1 DEF TypeOK
<1>12. TypeOK'
  BY <1>2, <1>6, <1>8, <1>9, <1>10, <1>11, Zenon DEF TypeOK
<1>13. ASSUME NEW u \in Thread
       PROVE  /\ Ordered(todo'[u]) /\ SendLast(todo'[u])
              /\ IF todo'[u] # <<>>
                 THEN call'[u] \in Call /\ (outside' \/ at'[u] >= FirstField(call'[u]))
                 ELSE call'[u] = Idle /\ took'[u] = <<>>
  <2>1. CASE u = t
    BY <1>1, <1>3, <1>4, <1>5, <2>1 DEF Programs
  <2>2. CASE u # t
    <3>1. todo'[u] = todo[u] /\ call'[u] = call[u] /\ at'[u] = at[u] /\ took'[u] = took[u]
      BY <1>1, <1>2, <1>5, <2>2 DEF Programs
    <3> QED
      BY <1>2, <3>1 DEF Programs, Busy
  <2> QED
    BY <2>1, <2>2
<1> QED
  BY <1>7, <1>12, <1>13 DEF Programs, Busy

\* A statement of a call.
LEMMA StatementType ==
  ASSUME TypeOK, Programs, NEW t \in Thread, NEW o, Does(t, o)
  PROVE  /\ at \in [Thread -> 0 .. BufSize] /\ PktLen(t) \in Nat
         /\ Now(t).bytes \in Seq(Nat) /\ Start(call[t], PktLen(t)) \in Nat
         /\ Start(call[t], PktLen(t)) < at[t] /\ Start(call[t], PktLen(t)) < BufSize
         /\ FirstField(call[t]) \in Nat
<1>1. /\ ~outside /\ at[t] >= FirstField(call[t]) /\ Now(t) \in Ops
  BY DoesStep
<1>2. at \in [Thread -> 0 .. BufSize]
  BY <1>1 DEF TypeOK
<1>3. FirstField(call[t]) \in Nat /\ BufSize \in Nat
  BY TxAssumption DEF FirstField
<1>4. PktLen(t) \in Nat
  BY <1>1, <1>2, <1>3 DEF PktLen
<1>5. /\ Start(call[t], PktLen(t)) \in Nat /\ Start(call[t], PktLen(t)) < BufSize
      /\ Start(call[t], PktLen(t)) < FirstField(call[t])
  BY <1>4, StartType
<1> QED
  BY <1>1, <1>2, <1>3, <1>4, <1>5 DEF Ops

\* A thread that writes its next bytes goes on behind them.
LEMMA AdvanceType ==
  ASSUME TypeOK, NEW t \in Thread, NEW i \in Nat, NEW s \in Seq(Nat), Write(i, s),
         at \in [Thread -> 0 .. BufSize], i >= at[t],
         at' = [at EXCEPT ![t] = @ + Len(s)]
  PROVE  /\ at' \in [Thread -> 0 .. BufSize] \/ outside'
         /\ at'[t] = at[t] + Len(s) /\ \A u \in Thread : u # t => at'[u] = at[u]
<1>1. Len(s) \in Nat /\ BufSize \in Nat
  BY TxAssumption
<1>2. ~outside' => i + Len(s) <= BufSize
  BY WriteType
<1>3. ~outside' => at[t] + Len(s) \in 0 .. BufSize
  BY <1>1, <1>2
<1> QED
  BY <1>3

\* Each statement keeps the types, and its thread's program.
LEMMA PlainType ==
  ASSUME TypeOK, Programs, NEW t \in Thread,
         Clear(t) \/ Measure(t) \/ FetchIdent(t) \/ StoreIdent(t)
  PROVE  TypeOK' /\ Programs'
<1>1. CASE Clear(t)
  <2>1. Does(t, "clear") /\ UNCHANGED <<at, took, call, outside>>
    BY <1>1 DEF Clear, cursor, history
  <2>2. tx_buf' \in [0 .. BufSize - 1 -> Nat]
    BY <1>1 DEF Clear, Cleared
  <2>3. TypeOK'
    BY <1>1, <2>2 DEF Clear, TypeOK, cursor, history
  <2>4. at[t] \in Int
    BY <2>1, StatementType
  <2> QED
    BY <2>1, <2>3, <2>4, ProgramsKept
<1>2. CASE Measure(t)
  <2>1. Does(t, "measure") /\ UNCHANGED <<at, took, call, outside>>
    BY <1>2 DEF Measure, history
  <2>2. at[t] \in 0 .. BufSize
    BY <2>1, StatementType
  <2>3. gap' \in [Thread -> 0 .. BufSize]
    BY <1>2, <2>2, StrLenType DEF Measure, TypeOK
  <2>4. TypeOK'
    BY <1>2, <2>3 DEF Measure, TypeOK, shared, history
  <2> QED
    BY <2>1, <2>2, <2>4, ProgramsKept
<1>3. CASE FetchIdent(t)
  <2>1. Does(t, "fetch") /\ UNCHANGED <<at, took, call, outside>>
    BY <1>3 DEF FetchIdent, history
  <2>2. seen' \in [Thread -> 0 .. IdentMod - 1]
    BY <1>3 DEF FetchIdent, TypeOK
  <2>3. TypeOK'
    BY <1>3, <2>2 DEF FetchIdent, TypeOK, shared, history
  <2>4. at[t] \in Int
    BY <2>1, StatementType
  <2> QED
    BY <2>1, <2>3, <2>4, ProgramsKept
<1>4. CASE StoreIdent(t)
  <2>1. Does(t, "store") /\ UNCHANGED <<at, took, call, outside>>
    BY <1>4 DEF StoreIdent, cursor, history
  <2>2. packet_ident' \in 0 .. IdentMod - 1
    <3>1. seen[t] \in 0 .. IdentMod - 1
      BY DEF TypeOK
    <3> QED
      BY <1>4, <3>1, Identifiers DEF StoreIdent
  <2>3. TypeOK'
    BY <1>4, <2>2 DEF StoreIdent, TypeOK, cursor, history
  <2>4. at[t] \in Int
    BY <2>1, StatementType
  <2> QED
    BY <2>1, <2>3, <2>4, ProgramsKept
<1> QED
  BY <1>1, <1>2, <1>3, <1>4

\* A statement that writes a field keeps the types.
LEMMA WritingType ==
  ASSUME TypeOK, Programs, NEW t \in Thread,
         Copy(t) \/ Put(t) \/ PutMsb(t) \/ PutLsb(t)
  PROVE  TypeOK' /\ Programs'
<1>1. PICK o, i, s :
        /\ o \in {"copy", "put", "msb", "lsb"} /\ Does(t, o)
        /\ i \in Nat /\ s \in Seq(Nat) /\ i >= at[t]
        /\ Write(i, s) /\ at' = [at EXCEPT ![t] = @ + Len(s)]
        /\ took' = took \/ \E b \in 0 .. IdentBase - 1 : took' = [took EXCEPT ![t] = Append(@, b)]
        /\ UNCHANGED <<packet_ident, gap, seen, call, ident0, alone, solo, made>>
  <2>1. ASSUME NEW o, NEW s, Does(t, o), s = Now(t).bytes,
               (o = "copy" /\ Copy(t)) \/ (o = "put" /\ Put(t))
        PROVE  \E i : /\ i \in Nat /\ s \in Seq(Nat) /\ i >= at[t]
                      /\ Write(i, s) /\ at' = [at EXCEPT ![t] = @ + Len(s)]
                      /\ took' = took
                      /\ UNCHANGED <<packet_ident, gap, seen, call, ident0, alone, solo, made>>
    <3>1. /\ s \in Seq(Nat) /\ at[t] \in Nat /\ gap[t] \in Nat
          /\ at[t] + gap[t] \in Nat /\ at[t] + gap[t] >= at[t]
      BY <2>1, StatementType, SMTT(30) DEF TypeOK
    <3>2. CASE o = "copy" /\ Copy(t)
      <4>1. /\ Write(at[t] + gap[t], s) /\ at' = [at EXCEPT ![t] = @ + Len(s)]
            /\ took' = took
            /\ UNCHANGED <<packet_ident, gap, seen, call, ident0, alone, solo, made>>
        BY <2>1, <3>2, Zenon DEF Copy, history
      <4> QED
        BY <3>1, <4>1, Zenon
    <3>3. CASE o = "put" /\ Put(t)
      <4>1. /\ Write(at[t], s) /\ at' = [at EXCEPT ![t] = @ + Len(s)]
            /\ took' = took
            /\ UNCHANGED <<packet_ident, gap, seen, call, ident0, alone, solo, made>>
        BY <2>1, <3>3, Zenon DEF Put, history
      <4>2. at[t] >= at[t]
        BY <3>1
      <4> QED
        BY <3>1, <4>1, <4>2, Zenon
    <3> QED
      BY <2>1, <3>2, <3>3
  <2>2. ASSUME NEW o, NEW b \in 0 .. IdentBase - 1, Does(t, o), PutIdentByte(t, b)
        PROVE  /\ at[t] \in Nat /\ <<b>> \in Seq(Nat) /\ at[t] >= at[t]
               /\ Write(at[t], <<b>>) /\ at' = [at EXCEPT ![t] = @ + Len(<<b>>)]
               /\ took' = [took EXCEPT ![t] = Append(@, b)]
               /\ UNCHANGED <<packet_ident, gap, seen, call, ident0, alone, solo, made>>
    <3>1. IdentBase \in Nat
      BY TxAssumption
    <3> QED
      BY <2>2, <3>1, StatementType DEF PutIdentByte, history
  <2>3. Msb(packet_ident) \in 0 .. IdentBase - 1 /\ Lsb(packet_ident) \in 0 .. IdentBase - 1
    BY Identifiers DEF TypeOK
  <2>4. CASE Copy(t)
    BY <2>1, <2>4, Zenon DEF Copy
  <2>5. CASE Put(t)
    BY <2>1, <2>5, Zenon DEF Put
  <2>6. CASE PutMsb(t)
    BY <2>2, <2>3, <2>6, Zenon DEF PutMsb
  <2>7. CASE PutLsb(t)
    BY <2>2, <2>3, <2>7, Zenon DEF PutLsb
  <2> QED
    BY <2>4, <2>5, <2>6, <2>7
<1>2. at \in [Thread -> 0 .. BufSize]
  BY <1>1, StatementType
<1>3. tx_buf' \in [0 .. BufSize - 1 -> Nat] /\ outside' \in BOOLEAN
  BY <1>1, WriteType
<1>4. /\ at' \in [Thread -> 0 .. BufSize] \/ outside'
      /\ at'[t] = at[t] + Len(s) /\ \A u \in Thread : u # t => at'[u] = at[u]
  BY <1>1, <1>2, AdvanceType
<1>5. took' \in [Thread -> Seq(0 .. IdentBase - 1)] /\ \A u \in Thread : u # t => took'[u] = took[u]
  <2>1. CASE took' = took
    BY <2>1 DEF TypeOK
  <2>2. ASSUME NEW b \in 0 .. IdentBase - 1, took' = [took EXCEPT ![t] = Append(@, b)]
        PROVE  /\ took' \in [Thread -> Seq(0 .. IdentBase - 1)]
               /\ \A u \in Thread : u # t => took'[u] = took[u]
    <3>1. Append(took[t], b) \in Seq(0 .. IdentBase - 1)
      BY AppendProperties DEF TypeOK
    <3> QED
      BY <2>2, <3>1 DEF TypeOK
  <2> QED
    BY <1>1, <2>1, <2>2
<1>6. TypeOK'
  BY <1>1, <1>3, <1>4, <1>5 DEF TypeOK
<1>7. at[t] \in Int /\ at'[t] \in Int /\ at'[t] >= at[t]
  <2>1. Len(s) \in Nat /\ at[t] \in Nat
    BY <1>1, <1>2
  <2> QED
    BY <1>4, <2>1
<1>8. o # "send"
  BY <1>1
<1> QED
  BY <1>1, <1>4, <1>5, <1>6, <1>7, <1>8, ProgramsKept

\* A statement that writes the fixed header keeps the types.
LEMMA HeaderType ==
  ASSUME TypeOK, Programs, NEW t \in Thread,
         StoreLength(t) \/ StoreHeader(t) \/ StoreFlag(t)
  PROVE  TypeOK' /\ Programs'
<1>1. PICK o, i, s :
        /\ o \in {"length", "header", "flag"} /\ Does(t, o)
        /\ i \in Nat /\ s \in Seq(Nat) /\ Write(i, s)
        /\ UNCHANGED <<packet_ident, at, gap, seen, took, call, ident0, alone, solo, made>>
  <2>1. CASE StoreLength(t)
    <3>1. /\ Does(t, "length")
          /\ UNCHANGED <<packet_ident, at, gap, seen, took, call, ident0, alone, solo, made>>
      BY <2>1, Zenon DEF StoreLength, cursor, history
    <3>2. CASE call[t].fn \in HeaderFirst
      <4>1. Write(1, <<PktLen(t) % 256>>)
        BY <2>1, <3>2, Zenon DEF StoreLength
      <4>2. PktLen(t) % 256 \in Nat
        BY <3>1, StatementType
      <4>3. 1 \in Nat /\ <<PktLen(t) % 256>> \in Seq(Nat)
        BY <4>2
      <4> QED
        BY <3>1, <4>1, <4>3, Zenon
    <3>3. CASE call[t].fn \notin HeaderFirst
      <4> DEFINE r == RemainLen(PktLen(t))
      <4>1. Write(FirstField(call[t]) - Len(r), r)
        BY <2>1, <3>3, Zenon DEF StoreLength
      <4>2. r \in Seq(Nat) /\ Len(r) \in 1 .. 2
        BY <3>1, StatementType, RemainLenType
      <4>3. FirstField(call[t]) = 5
        BY <3>3 DEF FirstField
      <4> HIDE DEF r
      <4>4. \A k \in 1 .. 2 : 5 - k \in Nat
        OBVIOUS
      <4>5. FirstField(call[t]) - Len(r) \in Nat
        BY <4>2, <4>3, <4>4, Zenon
      <4> QED
        BY <3>1, <4>1, <4>2, <4>5, Zenon
    <3> QED
      BY <3>2, <3>3
  <2>2. CASE StoreHeader(t)
    <3>1. /\ Does(t, "header") /\ Write(Start(call[t], PktLen(t)), Now(t).bytes)
          /\ UNCHANGED <<packet_ident, at, gap, seen, took, call, ident0, alone, solo, made>>
      BY <2>2, Zenon DEF StoreHeader, cursor, history
    <3>2. Start(call[t], PktLen(t)) \in Nat /\ Now(t).bytes \in Seq(Nat)
      BY <3>1, StatementType
    <3> QED
      BY <3>1, <3>2, Zenon
  <2>3. CASE StoreFlag(t)
    <3> DEFINE i == Start(call[t], PktLen(t))
               b == IF (tx_buf[i] \div 2) % 2 = 1 THEN tx_buf[i] ELSE tx_buf[i] + 2
    <3>1. /\ Does(t, "flag") /\ Write(i, <<b>>)
          /\ UNCHANGED <<packet_ident, at, gap, seen, took, call, ident0, alone, solo, made>>
      BY <2>3, Zenon DEF StoreFlag, cursor, history
    <3>2. i \in 0 .. BufSize - 1
      BY <3>1, StatementType, TxAssumption
    <3> HIDE DEF i
    <3>3. tx_buf[i] \in Nat
      BY <3>2 DEF TypeOK
    <3>4. b \in Nat
      BY <3>3
    <3> HIDE DEF b
    <3>5. i \in Nat /\ <<b>> \in Seq(Nat)
      BY <3>2, <3>4
    <3> QED
      BY <3>1, <3>5, Zenon
  <2> QED
    BY <2>1, <2>2, <2>3
<1>2. at \in [Thread -> 0 .. BufSize]
  BY <1>1, StatementType
<1>3. tx_buf' \in [0 .. BufSize - 1 -> Nat] /\ outside' \in BOOLEAN
  BY <1>1, WriteType
<1>4. TypeOK'
  BY <1>1, <1>2, <1>3 DEF TypeOK
<1>5. at[t] \in Int /\ at'[t] \in Int /\ at'[t] >= at[t] /\ o # "send"
  BY <1>1, <1>2
<1> QED
  BY <1>1, <1>4, <1>5, ProgramsKept

\* Sending keeps the types.
LEMMA SendType ==
  ASSUME TypeOK, Programs, NEW t \in Thread, Send(t)
  PROVE  TypeOK' /\ Programs'
<1>1. Does(t, "send") /\ ~outside
  BY DEF Send, Does
<1>2. /\ todo' \in [Thread -> Seq(Ops)] /\ todo'[t] = <<>>
      /\ \A u \in Thread : Ordered(todo'[u]) /\ SendLast(todo'[u])
      /\ \A u \in Thread : u # t => todo'[u] = todo[u]
  BY <1>1, DoesStep
<1>3. /\ call' = [call EXCEPT ![t] = Idle] /\ at' = [at EXCEPT ![t] = 0]
      /\ gap' = [gap EXCEPT ![t] = 0] /\ seen' = [seen EXCEPT ![t] = 0]
      /\ took' = [took EXCEPT ![t] = <<>>] /\ ident0' = [ident0 EXCEPT ![t] = 0]
      /\ alone' = [alone EXCEPT ![t] = TRUE] /\ solo' = [solo EXCEPT ![t] = TRUE]
      /\ UNCHANGED <<tx_buf, packet_ident, made, outside>>
  BY DEF Send, shared
<1>4. at \in [Thread -> 0 .. BufSize] /\ BufSize \in Nat /\ IdentMod \in Nat /\ IdentMod > 1
  BY <1>1, StatementType, TxAssumption, Identifiers
<1>5. at' \in [Thread -> 0 .. BufSize] /\ gap' \in [Thread -> 0 .. BufSize]
  BY <1>3, <1>4 DEF TypeOK
<1>6. seen' \in [Thread -> 0 .. IdentMod - 1] /\ ident0' \in [Thread -> 0 .. IdentMod - 1]
  BY <1>3, <1>4 DEF TypeOK
<1>7. took' \in [Thread -> Seq(0 .. IdentBase - 1)] /\ took'[t] = <<>>
  BY <1>3 DEF TypeOK
<1>8. alone' \in [Thread -> BOOLEAN] /\ solo' \in [Thread -> BOOLEAN]
  BY <1>3 DEF TypeOK
<1>9. /\ \A u \in Thread : call'[u] \in Calls[u] \cup {Idle}
      /\ call' \in [Thread -> Call \cup {Idle}] /\ call'[t] = Idle
  BY <1>3 DEF TypeOK, Programs
<1>10. TypeOK'
  BY <1>3, <1>5, <1>6, <1>7, <1>8, <1>9, Zenon DEF TypeOK
<1>11. ASSUME NEW u \in Thread
       PROVE  IF todo'[u] # <<>>
              THEN call'[u] \in Call /\ (outside' \/ at'[u] >= FirstField(call'[u]))
              ELSE call'[u] = Idle /\ took'[u] = <<>>
  <2>1. CASE u = t
    BY <1>2, <1>7, <1>9, <2>1
  <2>2. CASE u # t
    <3>1. todo'[u] = todo[u] /\ call'[u] = call[u] /\ at'[u] = at[u] /\ took'[u] = took[u]
      BY <1>2, <1>3, <1>4, <2>2 DEF Programs, TypeOK
    <3> QED
      BY <1>1, <3>1 DEF Programs, Busy
  <2> QED
    BY <2>1, <2>2
<1> QED
  BY <1>2, <1>9, <1>10, <1>11 DEF Programs, Busy

\* Every step keeps the types.
LEMMA TypeStep == TypeOK /\ Programs /\ [Next]_vars => TypeOK' /\ Programs'
<1> SUFFICES ASSUME TypeOK, Programs, [Next]_vars PROVE TypeOK' /\ Programs'
  OBVIOUS
<1>1. CASE UNCHANGED vars
  BY <1>1 DEF vars, shared, cursor, history, TypeOK, Programs, Busy
<1>2. ASSUME NEW t \in Thread, Begin(t) PROVE TypeOK' /\ Programs'
  BY <1>2, BeginType
<1>3. ASSUME NEW t \in Thread, Statement(t) PROVE TypeOK' /\ Programs'
  BY <1>3, PlainType, WritingType, HeaderType, SendType, Zenon DEF Statement
<1> QED
  BY <1>1, <1>2, <1>3 DEF Next

\* The initial state has its types.
LEMMA TypeInit == Init => TypeOK /\ Programs
<1> SUFFICES ASSUME Init PROVE TypeOK /\ Programs
  OBVIOUS
<1>1. IdentMod \in Nat /\ IdentMod > 1 /\ BufSize \in Nat
  BY Identifiers, TxAssumption
<1>2. TypeOK
  <2>1. /\ tx_buf \in [0 .. BufSize - 1 -> Nat] /\ packet_ident \in 0 .. IdentMod - 1
        /\ \A t \in Thread : call[t] \in Calls[t] \cup {Idle}
    BY <1>1, TxAssumption DEF Init
  <2>2. /\ at \in [Thread -> 0 .. BufSize] /\ gap \in [Thread -> 0 .. BufSize]
        /\ seen \in [Thread -> 0 .. IdentMod - 1] /\ ident0 \in [Thread -> 0 .. IdentMod - 1]
    BY <1>1 DEF Init
  <2>3. /\ took \in [Thread -> Seq(0 .. IdentBase - 1)]
        /\ alone \in [Thread -> BOOLEAN] /\ solo \in [Thread -> BOOLEAN]
    <3>1. <<>> \in Seq(0 .. IdentBase - 1)
      OBVIOUS
    <3>2. took = [t \in Thread |-> <<>>]
      BY DEF Init
    <3>3. took \in [Thread -> Seq(0 .. IdentBase - 1)]
      BY <3>1, <3>2, Zenon
    <3> QED
      BY <3>3, Zenon DEF Init
  <2>4. made \in 0 .. MaxCalls
    BY TxAssumption DEF Init
  <2>5. outside \in BOOLEAN
    BY Zenon DEF Init
  <2> QED
    BY <2>1, <2>2, <2>3, <2>4, <2>5, Zenon DEF TypeOK
<1>3. /\ todo \in [Thread -> Seq(Ops)] /\ call \in [Thread -> Call \cup {Idle}]
  BY DEF Init
<1>4. \A t \in Thread : todo[t] = <<>> /\ call[t] = Idle /\ took[t] = <<>>
  BY DEF Init
<1> QED
  BY <1>2, <1>3, <1>4 DEF Programs, Ordered, SendLast, Busy

\* Whatever the threads do, the buffer, the identifier, the cursors and the
\* history keep their types: strlen ends inside the buffer, and as long as no
\* write left the buffer no thread's pkt_len does.
THEOREM TxTypeCorrect == Spec => []TypeOK
<1>1. TypeOK /\ Programs /\ [Next]_vars => (TypeOK /\ Programs)'
  BY TypeStep
<1> QED
  BY TypeInit, <1>1, PTL DEF Spec

----------------------------------------------------------------------------
(* Identifiers                                                             *)

\* An increment makes an identifier one older, short of a full turn.
LEMMA AgeStep ==
  ASSUME NEW i \in 0 .. IdentMod - 1
  PROVE  /\ Age(i) \in 0 .. IdentMod - 1
         /\ Incremented(i) \in 0 .. IdentMod - 1
         /\ Age(i) + 1 < IdentMod => Age(Incremented(i)) = Age(i) + 1
<1>1. FirstIdent \in 0 .. IdentMod - 1 /\ IdentMod \in Nat
  BY TxAssumption, Identifiers
<1>2. /\ Incremented(i) \in 0 .. IdentMod - 1
      /\ i + 1 < IdentMod => Incremented(i) = i + 1
      /\ i + 1 = IdentMod => Incremented(i) = 0
  BY Identifiers
<1> QED
  BY <1>1, <1>2 DEF Age

\* Two bytes of an identifier are of that identifier.
LEMMA DrewIdent ==
  ASSUME NEW i \in 0 .. IdentMod - 1
  PROVE  Drew(IdentBytes(i)) = i
<1>1. i = IdentBase * Msb(i) + Lsb(i)
  BY Identifiers
<1> QED
  BY <1>1 DEF Drew, IdentBytes

\* What every thread has left, after one executed a statement.
LEMMA LeftAfter ==
  ASSUME Programs, NEW t \in Thread, NEW o, Does(t, o)
  PROVE  /\ \A u \in Thread, p \in Idents :
              HasOp(todo'[u], p) <=> HasOp(todo[u], p) /\ ~(u = t /\ p = o)
         /\ o \in Idents => HasOp(todo[t], o)
         /\ o = "lsb" => ~HasOp(todo[t], "msb")
         /\ o = "fetch" => ~HasOp(todo[t], "msb") /\ ~HasOp(todo[t], "lsb")
         /\ o = "store" =>
              ~HasOp(todo[t], "msb") /\ ~HasOp(todo[t], "lsb") /\ ~HasOp(todo[t], "fetch")
<1>1. \A u \in Thread, p \in Idents :
        HasOp(todo'[u], p) <=> HasOp(todo[u], p) /\ ~(u = t /\ p = o)
  <2> SUFFICES ASSUME NEW u \in Thread, NEW p \in Idents
               PROVE  HasOp(todo'[u], p) <=> HasOp(todo[u], p) /\ ~(u = t /\ p = o)
    OBVIOUS
  <2>1. CASE u = t
    BY <2>1, DoesStep
  <2>2. CASE u # t
    <3>1. todo'[u] = todo[u]
      BY <2>2, DoesStep
    <3> QED
      BY <2>2, <3>1
  <2> QED
    BY <2>1, <2>2
<1>2. o \in Idents => HasOp(todo[t], o)
  BY DoesStep
<1>3. todo[t] \in Seq(Ops) /\ Ordered(todo[t]) /\ todo[t] # <<>> /\ Head(todo[t]).op = o
  BY DEF Programs, Does, Busy, Now
<1> QED
  BY <1>1, <1>2, <1>3, OrderedHead

\* Who has a statement left is busy, and has those that follow it left too.
LEMMA LeftBusy ==
  ASSUME Programs, NEW t \in Thread
  PROVE  /\ \A p \in Idents : HasOp(todo[t], p) => Busy(t)
         /\ HasOp(todo[t], "msb") => HasOp(todo[t], "lsb")
         /\ HasOp(todo[t], "lsb") => HasOp(todo[t], "fetch")
         /\ HasOp(todo[t], "fetch") => HasOp(todo[t], "store")
<1>1. \A p \in Idents : ~HasOp(<<>>, p)
  BY DEF HasOp
<1>2. todo[t] \in Seq(Ops) /\ Ordered(todo[t])
  BY DEF Programs
<1> QED
  BY <1>1, <1>2, OrderedAll DEF Busy

\* What holds of identifiers, inductively.
IdentInv == Draw /\ SoloAlone /\ Increments /\ Drawn

\* What the statements that have nothing to do with identifiers leave alone.
LEMMA IdentsKept ==
  ASSUME IdentInv,
         UNCHANGED <<packet_ident, call, took, solo, ident0, seen, made, drawn>>,
         \A u \in Thread : Busy(u)' => Busy(u),
         \A u \in Thread, p \in Idents : HasOp(todo'[u], p) <=> HasOp(todo[u], p)
  PROVE  IdentInv'
<1>0. {"msb", "lsb", "fetch", "store"} = Idents
  BY DEF Idents
<1>1. Draw'
  BY <1>0 DEF IdentInv, Draw, Drawing
<1>2. SoloAlone'
  BY DEF IdentInv, SoloAlone
<1>3. Pending' = Pending /\ \A u \in Thread : Fetched(u)' <=> Fetched(u)
  BY <1>0 DEF Pending, Drawing, Fetched
<1>4. Age(packet_ident)' = Age(packet_ident)
  BY DEF Age
<1>5. Increments'
  BY <1>3 DEF IdentInv, Increments, Age
<1>6. Drawn'
  BY <1>3 DEF IdentInv, Drawn, Age, Drew
<1> QED
  BY <1>1, <1>2, <1>5, <1>6 DEF IdentInv

\* A statement whose name is none of the four.
LEMMA IdentsQuiet ==
  ASSUME TypeOK, Programs, IdentInv, NEW t \in Thread,
         \/ Clear(t) \/ Measure(t) \/ Copy(t) \/ Put(t)
         \/ StoreLength(t) \/ StoreHeader(t) \/ StoreFlag(t)
  PROVE  IdentInv'
<1>1. PICK o : /\ Does(t, o) /\ o \notin Idents /\ o # "send"
               /\ UNCHANGED <<packet_ident, call, took, solo, ident0, seen, made, drawn>>
  BY Zenon DEF Clear, Measure, Copy, Put, StoreLength, StoreHeader, StoreFlag, shared,
     cursor, history, Idents
<1>2. \A u \in Thread, p \in Idents : HasOp(todo'[u], p) <=> HasOp(todo[u], p)
  BY <1>1, LeftAfter
<1>3. \A u \in Thread : Busy(u)' => Busy(u)
  BY <1>1, DoesStep DEF Busy
<1> QED
  BY <1>1, <1>2, <1>3, IdentsKept

\* A call ends with nothing to take an identifier left.
LEMMA IdentsSend ==
  ASSUME TypeOK, Programs, IdentInv, NEW t \in Thread, Send(t)
  PROVE  IdentInv'
<1>1. /\ Does(t, "send") /\ UNCHANGED <<packet_ident, made, drawn>>
      /\ call' = [call EXCEPT ![t] = Idle] /\ seen' = [seen EXCEPT ![t] = 0]
      /\ took' = [took EXCEPT ![t] = <<>>] /\ ident0' = [ident0 EXCEPT ![t] = 0]
      /\ solo' = [solo EXCEPT ![t] = TRUE]
  BY DEF Send, shared
<1>2. todo'[t] = <<>>
  BY <1>1, DoesStep
<1>3. \A u \in Thread, p \in Idents : HasOp(todo'[u], p) <=> HasOp(todo[u], p)
  BY <1>1, LeftAfter DEF Idents
<1>4. \A p \in Idents : ~HasOp(todo'[t], p)
  BY <1>2 DEF HasOp
<1>5. /\ "msb" \in Idents /\ "lsb" \in Idents /\ "fetch" \in Idents /\ "store" \in Idents
  BY DEF Idents
<1>6. \A u \in Thread : Drawing(u)' => Drawing(u) /\ u # t
  BY <1>3, <1>4, <1>5 DEF Drawing
<1>7. \A u \in Thread : u # t =>
        /\ call'[u] = call[u] /\ seen'[u] = seen[u] /\ took'[u] = took[u]
        /\ ident0'[u] = ident0[u] /\ solo'[u] = solo[u] /\ todo'[u] = todo[u]
  BY <1>1, DoesStep DEF TypeOK, Programs
<1>8. Draw'
  <2> SUFFICES ASSUME NEW u \in Thread, Drawing(u)'
               PROVE  /\ Draws(call'[u])
                      /\ HasOp(todo'[u], "msb") => took'[u] = <<>>
                      /\ solo'[u] =>
                           /\ packet_ident' = ident0'[u]
                           /\ HasOp(todo'[u], "msb")
                                \/ took'[u] = IF HasOp(todo'[u], "lsb") THEN <<Msb(ident0'[u])>>
                                              ELSE IdentBytes(ident0'[u])
                           /\ HasOp(todo'[u], "fetch") \/ seen'[u] = ident0'[u]
    BY DEF Draw
  <2>1. Drawing(u) /\ u # t
    BY <1>6
  <2> QED
    BY <1>1, <1>7, <2>1 DEF IdentInv, Draw
<1>9. SoloAlone'
  BY <1>2, <1>7 DEF IdentInv, SoloAlone, Busy
<1>10. Pending' = Pending /\ \A u \in Thread : Fetched(u)' => Fetched(u) /\ u # t
  BY <1>3, <1>4, <1>5 DEF Pending, Drawing, Fetched
<1>11. Increments'
  BY <1>1, <1>7, <1>10 DEF IdentInv, Increments, Age
<1>12. Drawn'
  BY <1>1, <1>7, <1>10 DEF IdentInv, Drawn, Age, Drew
<1> QED
  BY <1>8, <1>9, <1>11, <1>12 DEF IdentInv

\* The two bytes of an identifier, kept one after the other.
LEMMA AppendTwo ==
  ASSUME NEW x \in Nat, NEW y \in Nat
  PROVE  Append(<<>>, x) = <<x>> /\ Append(<<x>>, y) = <<x, y>>
<1>1. Append(<<>>, x) = <<x>>
  OBVIOUS
<1> DEFINE a == Append(<<x>>, y)
<1>2. <<x>> \in Seq(Nat) /\ Len(<<x>>) = 1 /\ <<x>>[1] = x
  OBVIOUS
<1>3. a \in Seq(Nat) /\ Len(a) = 2 /\ a[1] = x /\ a[2] = y
  BY <1>2, AppendProperties
<1>4. <<x, y>> \in Seq(Nat) /\ Len(<<x, y>>) = 2 /\ <<x, y>>[1] = x /\ <<x, y>>[2] = y
  OBVIOUS
<1> HIDE DEF a
<1>5. a = <<x, y>>
  BY <1>3, <1>4, SeqEqual
<1> QED
  BY <1>1, <1>5 DEF a

\* The bytes of the identifier, read one after the other.
LEMMA IdentsBytes ==
  ASSUME TypeOK, Programs, IdentInv, NEW t \in Thread, PutMsb(t) \/ PutLsb(t)
  PROVE  IdentInv'
<1>0. /\ "msb" \in Idents /\ "lsb" \in Idents /\ "fetch" \in Idents /\ "store" \in Idents
  BY DEF Idents
<1>1. PICK o, b :
        /\ (o = "msb" /\ b = Msb(packet_ident)) \/ (o = "lsb" /\ b = Lsb(packet_ident))
        /\ Does(t, o) /\ took' = [took EXCEPT ![t] = Append(@, b)]
        /\ UNCHANGED <<packet_ident, call, solo, ident0, seen, made, drawn>>
  BY Zenon DEF PutMsb, PutLsb, PutIdentByte, history
<1>11. Msb(packet_ident) \in Nat /\ Lsb(packet_ident) \in Nat /\ b \in Nat
  <2>1. IdentBase \in Nat
    BY TxAssumption
  <2>2. Msb(packet_ident) \in 0 .. IdentBase - 1 /\ Lsb(packet_ident) \in 0 .. IdentBase - 1
    BY Identifiers DEF TypeOK
  <2> QED
    BY <1>1, <2>1, <2>2
<1>2. \A u \in Thread, p \in Idents :
        HasOp(todo'[u], p) <=> HasOp(todo[u], p) /\ ~(u = t /\ p = o)
  BY <1>1, LeftAfter
<1>3. o # "fetch" /\ o # "store" /\ o # "send"
  BY <1>1
<1>4. \A u \in Thread : /\ Drawing(u)' <=> Drawing(u)
                        /\ HasOp(todo'[u], "fetch") <=> HasOp(todo[u], "fetch")
  BY <1>0, <1>2, <1>3 DEF Drawing
<1>5. /\ \A u \in Thread : u # t => took'[u] = took[u]
      /\ took'[t] = Append(took[t], b)
  BY <1>1 DEF TypeOK
<1>6. Draw'
  <2> SUFFICES ASSUME NEW u \in Thread, Drawing(u)
               PROVE  /\ Draws(call'[u])
                      /\ HasOp(todo'[u], "msb") => took'[u] = <<>>
                      /\ solo'[u] =>
                           /\ packet_ident' = ident0'[u]
                           /\ HasOp(todo'[u], "msb")
                                \/ took'[u] = IF HasOp(todo'[u], "lsb") THEN <<Msb(ident0'[u])>>
                                              ELSE IdentBytes(ident0'[u])
                           /\ HasOp(todo'[u], "fetch") \/ seen'[u] = ident0'[u]
    BY <1>4 DEF Draw
  <2>1. /\ Draws(call'[u])
        /\ HasOp(todo[u], "msb") => took[u] = <<>>
        /\ solo'[u] =>
             /\ packet_ident' = ident0'[u]
             /\ HasOp(todo[u], "msb")
                  \/ took[u] = IF HasOp(todo[u], "lsb") THEN <<Msb(ident0'[u])>>
                               ELSE IdentBytes(ident0'[u])
             /\ HasOp(todo'[u], "fetch") \/ seen'[u] = ident0'[u]
    BY <1>1, <1>4 DEF IdentInv, Draw
  <2>2. CASE u # t
    BY <1>0, <1>2, <1>5, <2>1, <2>2
  <2>3. CASE u = t /\ o = "msb"
    <3>1. /\ HasOp(todo[t], "msb") /\ ~HasOp(todo'[t], "msb") /\ took[t] = <<>>
          /\ HasOp(todo'[t], "lsb")
      <4>1. HasOp(todo[t], "msb")
        BY <1>0, <1>1, <2>3, LeftAfter
      <4>2. HasOp(todo[t], "lsb")
        BY <4>1, LeftBusy
      <4> QED
        BY <1>0, <1>2, <2>1, <2>3, <4>1, <4>2
    <3>2. took'[t] = <<Msb(packet_ident)>>
      <4>1. b = Msb(packet_ident) /\ took'[t] = Append(<<>>, b)
        BY <1>1, <1>5, <2>3, <3>1
      <4>2. Append(<<>>, b) = <<b>>
        BY <1>1, <1>11, AppendTwo
      <4> QED
        BY <4>1, <4>2, Zenon
    <3> QED
      BY <1>1, <2>1, <2>3, <3>1, <3>2
  <2>4. CASE u = t /\ o = "lsb"
    <3>1. /\ ~HasOp(todo[t], "msb") /\ HasOp(todo[t], "lsb")
          /\ ~HasOp(todo'[t], "msb") /\ ~HasOp(todo'[t], "lsb")
      BY <1>0, <1>1, <1>2, <2>4, LeftAfter
    <3>2. ASSUME solo'[t] PROVE took'[t] = IdentBytes(ident0'[t])
      <4>1. took[t] = <<Msb(packet_ident)>> /\ packet_ident = ident0'[t]
        BY <1>1, <2>1, <2>4, <3>1, <3>2
      <4>2. took'[t] = <<Msb(packet_ident), Lsb(packet_ident)>>
        <5>1. b = Lsb(packet_ident) /\ took'[t] = Append(<<Msb(packet_ident)>>, b)
          BY <1>1, <1>5, <2>4, <4>1
        <5>2. Append(<<Msb(packet_ident)>>, b) = <<Msb(packet_ident), b>>
          BY <1>1, <1>11, AppendTwo
        <5> QED
          BY <5>1, <5>2, Zenon
      <4> QED
        BY <4>1, <4>2 DEF IdentBytes
    <3> QED
      BY <2>1, <2>4, <3>1, <3>2
  <2> QED
    BY <1>1, <2>2, <2>3, <2>4
<1>7. SoloAlone'
  BY <1>1, DoesStep DEF IdentInv, SoloAlone, Busy
<1>8. Pending' = Pending /\ \A u \in Thread : Fetched(u)' <=> Fetched(u)
  BY <1>4 DEF Pending, Fetched
<1>9. Increments'
  BY <1>1, <1>8 DEF IdentInv, Increments, Age
<1>10. Drawn'
  BY <1>1, <1>8, ZenonT(40) DEF IdentInv, Drawn, Age, Drew
<1> QED
  BY <1>6, <1>7, <1>9, <1>10 DEF IdentInv

\* What is about to be incremented is read.
LEMMA IdentsFetch ==
  ASSUME TypeOK, Programs, IdentInv, NEW t \in Thread, FetchIdent(t)
  PROVE  IdentInv'
<1>0. /\ "msb" \in Idents /\ "lsb" \in Idents /\ "fetch" \in Idents /\ "store" \in Idents
  BY DEF Idents
<1>1. /\ Does(t, "fetch") /\ seen' = [seen EXCEPT ![t] = packet_ident]
      /\ UNCHANGED <<packet_ident, call, took, solo, ident0, made, drawn>>
  BY DEF FetchIdent, shared, history
<1>2. /\ seen'[t] = packet_ident
      /\ \A u \in Thread : u # t => seen'[u] = seen[u]
  BY <1>1 DEF TypeOK
<1>3. \A u \in Thread, p \in Idents :
        HasOp(todo'[u], p) <=> HasOp(todo[u], p) /\ ~(u = t /\ p = "fetch")
  BY <1>1, LeftAfter
<1>4. \A u \in Thread :
        /\ Drawing(u)' <=> Drawing(u)
        /\ HasOp(todo'[u], "msb") <=> HasOp(todo[u], "msb")
        /\ HasOp(todo'[u], "lsb") <=> HasOp(todo[u], "lsb")
        /\ u # t => (HasOp(todo'[u], "fetch") <=> HasOp(todo[u], "fetch"))
  BY <1>0, <1>3 DEF Drawing
<1>5. Draw'
  <2> SUFFICES ASSUME NEW u \in Thread, Drawing(u)
               PROVE  /\ Draws(call'[u])
                      /\ HasOp(todo[u], "msb") => took'[u] = <<>>
                      /\ solo'[u] =>
                           /\ packet_ident' = ident0'[u]
                           /\ HasOp(todo[u], "msb")
                                \/ took'[u] = IF HasOp(todo[u], "lsb") THEN <<Msb(ident0'[u])>>
                                              ELSE IdentBytes(ident0'[u])
                           /\ HasOp(todo'[u], "fetch") \/ seen'[u] = ident0'[u]
    BY <1>4 DEF Draw
  <2>1. /\ Draws(call'[u])
        /\ HasOp(todo[u], "msb") => took'[u] = <<>>
        /\ solo'[u] =>
             /\ packet_ident' = ident0'[u]
             /\ HasOp(todo[u], "msb")
                  \/ took'[u] = IF HasOp(todo[u], "lsb") THEN <<Msb(ident0'[u])>>
                                ELSE IdentBytes(ident0'[u])
             /\ HasOp(todo[u], "fetch") \/ seen[u] = ident0'[u]
    BY <1>1 DEF IdentInv, Draw
  <2>2. solo'[u] => HasOp(todo'[u], "fetch") \/ seen'[u] = ident0'[u]
    BY <1>1, <1>2, <1>4, <2>1
  <2> QED
    BY <2>1, <2>2
<1>6. SoloAlone'
  <2>1. \A u \in Thread : Busy(u)' => Busy(u)
    BY <1>1, DoesStep DEF Busy
  <2> QED
    BY <1>1, <2>1 DEF IdentInv, SoloAlone
<1>7. Pending' = Pending /\ \A u \in Thread : u # t => (Fetched(u)' <=> Fetched(u))
  BY <1>4 DEF Pending, Fetched
<1>8. Increments'
  BY <1>1, <1>2, <1>7 DEF IdentInv, Increments, Age
<1>9. Drawn'
  <2>1. /\ drawn' \in Seq(Seq(Nat))
        /\ \A i \in 1 .. Len(drawn') :
             /\ Drew(drawn'[i]) \in 0 .. IdentMod - 1
             /\ Age(Drew(drawn'[i])) < Age(packet_ident')
        /\ \A i, j \in 1 .. Len(drawn') : i # j => Age(Drew(drawn'[i])) # Age(Drew(drawn'[j]))
    BY <1>1 DEF IdentInv, Drawn
  <2>2. ASSUME NEW i \in 1 .. Len(drawn'), NEW u \in Thread, Fetched(u)'
        PROVE  Age(Drew(drawn'[i])) <= Age(seen'[u])
    <3>1. Drew(drawn'[i]) \in 0 .. IdentMod - 1 /\ Age(Drew(drawn'[i])) < Age(packet_ident)
      BY <1>1, <2>1
    <3>2. Age(Drew(drawn'[i])) \in Nat /\ Age(packet_ident) \in Nat
      <4>1. \A v \in 0 .. IdentMod - 1 : Age(v) \in Nat
        BY AgeStep, Identifiers
      <4>2. packet_ident \in 0 .. IdentMod - 1
        BY DEF TypeOK
      <4> QED
        BY <3>1, <4>1, <4>2
    <3>3. CASE u = t
      BY <1>2, <3>1, <3>2, <3>3
    <3>4. CASE u # t
      BY <1>1, <1>2, <1>7, <2>2, <3>4 DEF IdentInv, Drawn
    <3> QED
      BY <3>3, <3>4
  <2> QED
    BY <2>1, <2>2 DEF Drawn, Age, Drew
<1> QED
  BY <1>5, <1>6, <1>8, <1>9 DEF IdentInv

\* The increment: one statement, executed on what was read before.
LEMMA IdentsStore ==
  ASSUME MaxCalls < IdentMod, TypeOK, Programs, IdentInv, NEW t \in Thread, StoreIdent(t)
  PROVE  IdentInv'
<1>0. /\ "msb" \in Idents /\ "lsb" \in Idents /\ "fetch" \in Idents /\ "store" \in Idents
  BY DEF Idents
<1>1. /\ Does(t, "store") /\ packet_ident' = Incremented(seen[t])
      /\ drawn' = IF solo[t] THEN Append(drawn, took[t]) ELSE drawn
      /\ UNCHANGED <<seen, call, took, solo, ident0, made>>
  BY DEF StoreIdent, cursor, history
<1>2. \A u \in Thread, p \in Idents :
        HasOp(todo'[u], p) <=> HasOp(todo[u], p) /\ ~(u = t /\ p = "store")
  BY <1>1, LeftAfter
<1>3. /\ HasOp(todo[t], "store") /\ ~HasOp(todo[t], "msb") /\ ~HasOp(todo[t], "lsb")
      /\ ~HasOp(todo[t], "fetch")
  BY <1>0, <1>1, LeftAfter
<1>4. /\ ~Drawing(t)'
      /\ \A u \in Thread : u # t =>
           /\ Drawing(u)' <=> Drawing(u)
           /\ HasOp(todo'[u], "msb") <=> HasOp(todo[u], "msb")
           /\ HasOp(todo'[u], "lsb") <=> HasOp(todo[u], "lsb")
           /\ HasOp(todo'[u], "fetch") <=> HasOp(todo[u], "fetch")
  BY <1>0, <1>2 DEF Drawing
<1>5. Fetched(t)
  BY <1>3 DEF Fetched, Drawing
<1>6. \A u \in Thread : u # t /\ Drawing(u) => ~solo[u] /\ ~solo[t]
  <2> SUFFICES ASSUME NEW u \in Thread, u # t, Drawing(u) PROVE ~solo[u] /\ ~solo[t]
    OBVIOUS
  <2>1. Draws(call[u]) /\ Draws(call[t])
    BY <1>5 DEF IdentInv, Draw, Fetched
  <2>2. Busy(u) /\ Busy(t)
    BY <1>0, <1>3, LeftBusy DEF Drawing
  <2> QED
    BY <2>1, <2>2 DEF IdentInv, SoloAlone
<1>7. /\ \A v \in 0 .. IdentMod - 1 : Age(v) \in Nat
      /\ packet_ident \in 0 .. IdentMod - 1 /\ seen[t] \in 0 .. IdentMod - 1
      /\ \A u \in Thread : seen[u] \in 0 .. IdentMod - 1
      /\ MaxCalls \in Nat /\ made \in 0 .. MaxCalls /\ IdentMod \in Nat
  <2>1. \A v \in 0 .. IdentMod - 1 : Age(v) \in Nat
    BY AgeStep, Identifiers
  <2>2. IdentMod \in Nat /\ MaxCalls \in Nat
    BY Identifiers, TxAssumption
  <2> QED
    BY <2>1, <2>2 DEF TypeOK
<1>8. /\ IsFiniteSet(Pending) /\ t \in Pending /\ Pending' = Pending \ {t}
      /\ Cardinality(Pending) \in Nat \ {0} /\ IsFiniteSet(Pending')
      /\ Cardinality(Pending') = Cardinality(Pending) - 1
  <2>1. IsFiniteSet(Pending) /\ t \in Pending
    BY <1>5 DEF IdentInv, Increments, Fetched, Pending
  <2>2. Pending' = Pending \ {t}
    BY <1>4 DEF Pending
  <2>3. Cardinality(Pending) \in Nat /\ Cardinality(Pending) # 0
    BY <2>1, FS_CardinalityType, FS_EmptySet
  <2>4. IsFiniteSet(Pending \ {t}) /\ Cardinality(Pending \ {t}) = Cardinality(Pending) - 1
    BY <2>1, FS_RemoveElement
  <2> QED
    BY <2>1, <2>2, <2>3, <2>4
<1>9. Age(seen[t]) + Cardinality(Pending) <= made
  BY <1>5 DEF IdentInv, Increments
<1>10. Age(packet_ident') = Age(seen[t]) + 1
  <2>1. Age(seen[t]) + 1 < IdentMod
    BY <1>7, <1>8, <1>9
  <2> QED
    BY <1>1, <1>7, <2>1, AgeStep
<1>11. \A u \in Thread : Fetched(u)' => Fetched(u) /\ u # t
  BY <1>4 DEF Fetched
<1>12. Draw'
  <2> SUFFICES ASSUME NEW u \in Thread, Drawing(u)'
               PROVE  /\ Draws(call'[u])
                      /\ HasOp(todo'[u], "msb") => took'[u] = <<>>
                      /\ ~solo'[u]
    BY DEF Draw
  <2>1. u # t /\ Drawing(u)
    BY <1>4
  <2> QED
    BY <1>1, <1>4, <1>6, <2>1 DEF IdentInv, Draw
<1>13. SoloAlone'
  <2>1. \A u \in Thread : Busy(u)' => Busy(u)
    BY <1>1, DoesStep DEF Busy
  <2> QED
    BY <1>1, <2>1 DEF IdentInv, SoloAlone
<1>14. Increments'
  <2>1. Age(packet_ident') + Cardinality(Pending') <= made'
    BY <1>1, <1>7, <1>8, <1>9, <1>10
  <2>2. ASSUME NEW u \in Thread, Fetched(u)'
        PROVE  Age(seen'[u]) + Cardinality(Pending') <= made'
    <3>1. Age(seen[u]) + Cardinality(Pending) <= made
      BY <1>11, <2>2 DEF IdentInv, Increments
    <3>2. Age(seen[u]) \in Nat
      BY <1>7
    <3> QED
      BY <1>1, <1>7, <1>8, <3>1, <3>2
  <2> QED
    BY <1>8, <2>1, <2>2 DEF Increments, Age
<1>15. Drawn'
  <2>1. /\ drawn \in Seq(Seq(Nat))
        /\ \A i \in 1 .. Len(drawn) :
             /\ Drew(drawn[i]) \in 0 .. IdentMod - 1
             /\ Age(Drew(drawn[i])) \in Nat
             /\ Age(Drew(drawn[i])) < Age(packet_ident)
             /\ Age(Drew(drawn[i])) <= Age(seen[t])
             /\ Age(Drew(drawn[i])) < Age(packet_ident')
             /\ \A u \in Thread : Fetched(u) => Age(Drew(drawn[i])) <= Age(seen[u])
        /\ \A i, j \in 1 .. Len(drawn) : i # j => Age(Drew(drawn[i])) # Age(Drew(drawn[j]))
    <3>1. /\ drawn \in Seq(Seq(Nat))
          /\ \A i \in 1 .. Len(drawn) :
               /\ Drew(drawn[i]) \in 0 .. IdentMod - 1
               /\ Age(Drew(drawn[i])) < Age(packet_ident)
               /\ \A u \in Thread : Fetched(u) => Age(Drew(drawn[i])) <= Age(seen[u])
          /\ \A i, j \in 1 .. Len(drawn) : i # j => Age(Drew(drawn[i])) # Age(Drew(drawn[j]))
      BY DEF IdentInv, Drawn
    <3>2. ASSUME NEW i \in 1 .. Len(drawn)
          PROVE  /\ Age(Drew(drawn[i])) \in Nat /\ Age(Drew(drawn[i])) <= Age(seen[t])
                 /\ Age(Drew(drawn[i])) < Age(packet_ident')
      <4>1. Age(Drew(drawn[i])) \in Nat /\ Age(Drew(drawn[i])) <= Age(seen[t]) /\ Age(seen[t]) \in Nat
        BY <1>5, <1>7, <3>1
      <4> QED
        BY <1>10, <4>1
    <3> QED
      BY <3>1, <3>2
  <2>2. CASE ~solo[t]
    <3>1. drawn' = drawn
      BY <1>1, <2>2
    <3> QED
      BY <1>1, <1>11, <2>1, <3>1 DEF Drawn, Age, Drew
  <2>3. CASE solo[t]
    <3>1. \A u \in Thread : ~Fetched(u)'
      BY <1>6, <1>11, <2>3 DEF Fetched
    <3>2. drawn' = Append(drawn, took[t]) /\ took[t] \in Seq(Nat)
      <4>1. took[t] \in Seq(0 .. IdentBase - 1) /\ 0 .. IdentBase - 1 \subseteq Nat
        BY TxAssumption DEF TypeOK
      <4> QED
        BY <1>1, <2>3, <4>1, SeqMonotonic
    <3>3. Drew(took[t]) = packet_ident /\ seen[t] = packet_ident
      <4>1. packet_ident = ident0[t] /\ took[t] = IdentBytes(ident0[t]) /\ seen[t] = ident0[t]
        BY <1>3, <1>5, <2>3 DEF IdentInv, Draw, Fetched
      <4> QED
        BY <1>7, <4>1, DrewIdent
    <3>4. /\ drawn' \in Seq(Seq(Nat)) /\ Len(drawn') = Len(drawn) + 1
          /\ \A i \in 1 .. Len(drawn) : drawn'[i] = drawn[i]
          /\ drawn'[Len(drawn) + 1] = took[t]
          /\ Len(drawn) \in Nat
      BY <2>1, <3>2, AppendProperties
    <3>5. ASSUME NEW i \in 1 .. Len(drawn')
          PROVE  /\ Drew(drawn'[i]) \in 0 .. IdentMod - 1
                 /\ Age(Drew(drawn'[i])) < Age(packet_ident')
                 /\ i # Len(drawn') => Age(Drew(drawn'[i])) < Age(packet_ident)
                                       /\ i \in 1 .. Len(drawn) /\ drawn'[i] = drawn[i]
                                       /\ Age(Drew(drawn'[i])) \in Nat
                 /\ i = Len(drawn') => Drew(drawn'[i]) = packet_ident
      <4>1. CASE i = Len(drawn) + 1
        <5>1. Drew(drawn'[i]) = packet_ident
          BY <3>3, <3>4, <4>1
        <5>2. Age(packet_ident) < Age(packet_ident')
          BY <1>7, <1>10, <3>3
        <5> QED
          BY <1>7, <3>4, <4>1, <5>1, <5>2
      <4>2. CASE i # Len(drawn) + 1
        <5>1. i \in 1 .. Len(drawn)
          BY <3>4, <4>2
        <5> QED
          BY <2>1, <3>4, <4>2, <5>1
      <4> QED
        BY <4>1, <4>2
    <3>6. ASSUME NEW i \in 1 .. Len(drawn'), NEW j \in 1 .. Len(drawn'), i # j
          PROVE  Age(Drew(drawn'[i])) # Age(Drew(drawn'[j]))
      <4>0. Age(packet_ident) \in Nat
        BY <1>7
      <4>1. CASE i = Len(drawn')
        BY <3>5, <3>6, <4>0, <4>1
      <4>2. CASE j = Len(drawn')
        BY <3>5, <3>6, <4>0, <4>2
      <4>3. CASE i # Len(drawn') /\ j # Len(drawn')
        BY <2>1, <3>5, <3>6, <4>3
      <4> QED
        BY <4>1, <4>2, <4>3
    <3> QED
      BY <3>1, <3>4, <3>5, <3>6 DEF Drawn, Age, Drew
  <2> QED
    BY <2>2, <2>3
<1> QED
  BY <1>12, <1>13, <1>14, <1>15 DEF IdentInv

\* A call begins with its identifier still to take, and one call more was made.
LEMMA IdentsBegin ==
  ASSUME TypeOK, Programs, IdentInv, NEW t \in Thread, Begin(t)
  PROVE  IdentInv'
<1>0. /\ "msb" \in Idents /\ "lsb" \in Idents /\ "fetch" \in Idents /\ "store" \in Idents
  BY DEF Idents
<1>1. PICK c \in Calls[t] :
        /\ call' = [call EXCEPT ![t] = c] /\ todo' = [todo EXCEPT ![t] = Program(c)]
        /\ ident0' = [ident0 EXCEPT ![t] = packet_ident]
        /\ solo' = [u \in Thread |->
             IF u = t THEN \A v \in Thread : Busy(v) => ~Draws(call[v])
             ELSE solo[u] /\ ~(Busy(u) /\ Draws(c))]
  BY DEF Begin
<1>2. /\ ~Busy(t) /\ made' = made + 1
      /\ UNCHANGED <<packet_ident, seen, took, drawn>>
  BY DEF Begin, shared
<1>3. c \in Call
  BY TxAssumption
<1>4. /\ Program(c) \in Seq(Ops) /\ Program(c) # <<>> /\ Ordered(Program(c))
      /\ Draws(c) => HasOp(Program(c), "msb")
      /\ ~Draws(c) => \A p \in Idents : ~HasOp(Program(c), p)
  BY <1>3, ProgramShape
<1>5. /\ call'[t] = c /\ todo'[t] = Program(c) /\ ident0'[t] = packet_ident
      /\ solo'[t] => \A v \in Thread : Busy(v) => ~Draws(call[v])
      /\ took'[t] = <<>>
  BY <1>1, <1>2 DEF Programs, TypeOK
<1>6. \A u \in Thread : u # t =>
        /\ call'[u] = call[u] /\ todo'[u] = todo[u] /\ ident0'[u] = ident0[u]
        /\ solo'[u] => solo[u] /\ ~(Busy(u) /\ Draws(c))
  BY <1>1 DEF Programs, TypeOK
<1>7. /\ Draws(c) => /\ HasOp(Program(c), "msb") /\ HasOp(Program(c), "lsb")
                     /\ HasOp(Program(c), "fetch") /\ HasOp(Program(c), "store")
      /\ HasOp(Program(c), "store") => Draws(c)
  BY <1>0, <1>4, OrderedAll
<1>8. ~Drawing(t)
  BY <1>0, <1>2, LeftBusy DEF Drawing
<1>9. Draw'
  <2> SUFFICES ASSUME NEW u \in Thread, Drawing(u)'
               PROVE  /\ Draws(call'[u])
                      /\ HasOp(todo'[u], "msb") => took'[u] = <<>>
                      /\ solo'[u] =>
                           /\ packet_ident' = ident0'[u]
                           /\ HasOp(todo'[u], "msb")
                                \/ took'[u] = IF HasOp(todo'[u], "lsb") THEN <<Msb(ident0'[u])>>
                                              ELSE IdentBytes(ident0'[u])
                           /\ HasOp(todo'[u], "fetch") \/ seen'[u] = ident0'[u]
    BY DEF Draw
  <2>1. CASE u = t
    BY <1>2, <1>5, <1>7, <2>1 DEF Drawing
  <2>2. CASE u # t
    <3>1. Drawing(u)
      BY <1>6, <2>2 DEF Drawing
    <3> QED
      BY <1>2, <1>6, <2>2, <3>1 DEF IdentInv, Draw
  <2> QED
    BY <2>1, <2>2
<1>10. SoloAlone'
  <2> SUFFICES ASSUME NEW u \in Thread, NEW v \in Thread, u # v, Busy(u)', Busy(v)',
                      Draws(call'[u]), Draws(call'[v])
               PROVE  ~solo'[u]
    BY DEF SoloAlone
  <2>1. \A w \in Thread : w # t => (Busy(w)' <=> Busy(w))
    BY <1>6 DEF Busy
  <2>2. CASE u = t
    BY <1>5, <1>6, <2>1, <2>2
  <2>3. CASE v = t
    BY <1>5, <1>6, <2>1, <2>3
  <2>4. CASE u # t /\ v # t
    BY <1>6, <2>1, <2>4 DEF IdentInv, SoloAlone
  <2> QED
    BY <2>2, <2>3, <2>4
<1>11. /\ \A u \in Thread : u # t => (Drawing(u)' <=> Drawing(u))
       /\ Drawing(t)' => Draws(c)
  BY <1>5, <1>6, <1>7 DEF Drawing
<1>12. \A u \in Thread : Fetched(u)' => Fetched(u)
  BY <1>5, <1>6, <1>7 DEF Fetched, Drawing
<1>13. IsFiniteSet(Pending') /\ Cardinality(Pending') \in Nat
       /\ Cardinality(Pending') <= Cardinality(Pending) + 1 /\ Cardinality(Pending) \in Nat
  <2>1. IsFiniteSet(Pending) /\ Cardinality(Pending) \in Nat
    BY FS_CardinalityType DEF IdentInv, Increments
  <2>2. Pending' = Pending \/ Pending' = Pending \cup {t}
    BY <1>8, <1>11 DEF Pending
  <2>3. IsFiniteSet(Pending \cup {t}) /\ t \notin Pending
        /\ Cardinality(Pending \cup {t}) = Cardinality(Pending) + 1
    <3>1. t \notin Pending
      BY <1>8 DEF Pending
    <3> QED
      BY <2>1, <3>1, FS_AddElement
  <2>4. CASE Pending' = Pending
    BY <2>1, <2>4
  <2>5. CASE Pending' = Pending \cup {t}
    BY <2>1, <2>3, <2>5
  <2> QED
    BY <2>2, <2>4, <2>5
<1>14. Increments'
  <2>1. /\ \A v \in 0 .. IdentMod - 1 : Age(v) \in Nat
        /\ packet_ident \in 0 .. IdentMod - 1 /\ made \in Nat
        /\ \A u \in Thread : seen[u] \in 0 .. IdentMod - 1
    <3>1. \A v \in 0 .. IdentMod - 1 : Age(v) \in Nat
      BY AgeStep, Identifiers
    <3>2. MaxCalls \in Nat
      BY TxAssumption
    <3>3. made \in Nat
      BY <3>2 DEF TypeOK
    <3>4. packet_ident \in 0 .. IdentMod - 1 /\ \A u \in Thread : seen[u] \in 0 .. IdentMod - 1
      BY DEF TypeOK
    <3> QED
      BY <3>1, <3>3, <3>4
  <2>2. ASSUME NEW n \in Nat, n + Cardinality(Pending) <= made
        PROVE  n + Cardinality(Pending') <= made'
    BY <1>2, <1>13, <2>1, <2>2
  <2>3. Age(packet_ident') + Cardinality(Pending') <= made'
    BY <1>2, <2>1, <2>2 DEF IdentInv, Increments
  <2>4. ASSUME NEW u \in Thread, Fetched(u)'
        PROVE  Age(seen'[u]) + Cardinality(Pending') <= made'
    BY <1>2, <1>12, <2>1, <2>2, <2>4 DEF IdentInv, Increments
  <2> QED
    BY <1>13, <2>3, <2>4 DEF Increments, Age
<1>15. Drawn'
  BY <1>2, <1>12, ZenonT(40) DEF IdentInv, Drawn, Age, Drew
<1> QED
  BY <1>9, <1>10, <1>14, <1>15 DEF IdentInv

\* No identifier is drawn at the beginning.
LEMMA IdentsInit == Init => IdentInv
<1> SUFFICES ASSUME Init PROVE IdentInv
  OBVIOUS
<1>1. \A t \in Thread : todo[t] = <<>>
  BY DEF Init
<1>2. \A t \in Thread : ~Drawing(t) /\ ~Busy(t)
  BY <1>1 DEF Drawing, HasOp, Busy
<1>3. Draw /\ SoloAlone
  BY <1>2 DEF Draw, SoloAlone
<1>4. Increments
  <2>1. Pending = {}
    BY <1>2 DEF Pending
  <2>2. IsFiniteSet(Pending) /\ Cardinality(Pending) = 0
    BY <2>1, FS_EmptySet
  <2>3. Age(packet_ident) = 0 /\ made = 0
    BY TxAssumption, Identifiers DEF Init, Age
  <2> QED
    BY <1>2, <2>2, <2>3 DEF Increments, Fetched
<1>5. Drawn
  <2>1. drawn = <<>>
    BY DEF Init
  <2> QED
    BY <2>1 DEF Drawn
<1> QED
  BY <1>3, <1>4, <1>5 DEF IdentInv

\* Every step keeps the identifiers drawn in order.
LEMMA IdentsStep ==
  ASSUME MaxCalls < IdentMod
  PROVE  TypeOK /\ Programs /\ IdentInv /\ [Next]_vars => IdentInv'
<1> SUFFICES ASSUME TypeOK, Programs, IdentInv, [Next]_vars PROVE IdentInv'
  OBVIOUS
<1>1. CASE UNCHANGED vars
  <2>1. /\ UNCHANGED <<packet_ident, call, took, solo, ident0, seen, made, drawn>>
        /\ todo' = todo
    BY <1>1 DEF vars, shared, cursor, history
  <2>2. /\ \A u \in Thread : Busy(u)' => Busy(u)
        /\ \A u \in Thread, p \in Idents : HasOp(todo'[u], p) <=> HasOp(todo[u], p)
    BY <2>1 DEF Busy
  <2> QED
    BY <2>1, <2>2, IdentsKept
<1>2. ASSUME NEW t \in Thread, Begin(t) PROVE IdentInv'
  BY <1>2, IdentsBegin
<1>3. ASSUME NEW t \in Thread, Statement(t) PROVE IdentInv'
  BY <1>3, IdentsQuiet, IdentsBytes, IdentsFetch, IdentsStore, IdentsSend, Zenon
     DEF Statement
<1> QED
  BY <1>1, <1>2, <1>3 DEF Next

\* Identifiers drawn in order are different.
LEMMA DrawnDistinct == Drawn => IdentsDistinct
BY DEF Drawn, IdentsDistinct

\* Two publish, subscribe or unsubscribe calls, each overlapped by no other such
\* call, take different packet identifiers, whatever else runs beside them and however
\* many increments calls that did overlap have lost, as long as fewer calls are made
\* than there are identifiers.  Calls that overlapped one are not among them: they may
\* share an identifier with each other and with a later call.
THEOREM IdentsNeverRepeat ==
  ASSUME MaxCalls < IdentMod
  PROVE  Spec => []IdentsDistinct
<1>1. Init => TypeOK /\ Programs /\ IdentInv
  BY TypeInit, IdentsInit
<1>2. TypeOK /\ Programs /\ IdentInv /\ [Next]_vars => (TypeOK /\ Programs /\ IdentInv)'
  BY TypeStep, IdentsStep
<1>3. IdentInv => IdentsDistinct
  BY DrawnDistinct DEF IdentInv
<1> QED
  BY <1>1, <1>2, <1>3, PTL DEF Spec

----------------------------------------------------------------------------
(* The contents of the buffer: what a call that no other call overlaps     *)
(* sends, and that it stays within mqttnox_tx_buf.                         *)

(* What the statements of a call put into the buffer                       *)

\* Statements that put a field of the packet, a new identifier included.
BodyOps == [op : {"measure", "copy", "put"} \cup Idents, bytes : Seq(Nat)]

\* The bytes a statement puts, with id as the identifier.
Gives(o, id) ==
  CASE o.op \in {"copy", "put"} -> o.bytes
    [] o.op = "msb" -> <<Msb(id)>>
    [] o.op = "lsb" -> <<Lsb(id)>>
    [] OTHER -> <<>>

\* The bytes several statements put.
GivenBy(s, id) == [i \in 1 .. Len(s) |-> Gives(s[i], id)]
Content(s, id) == FlattenSeq(GivenBy(s, id))

\* What mqttnox_append_utf8_string appends, and Body made of that.
Sends(s) == IF s = <<>> THEN <<>> ELSE Utf8(s)
SendsIf(b, s) == IF b THEN Sends(s) ELSE <<>>
SubscribedTo(topics) ==
  [i \in 1 .. Len(topics) |-> Sends(topics[i].topic) \o <<topics[i].qos>>]
UnsubscribedFrom(topics) == [i \in 1 .. Len(topics) |-> Sends(topics[i].topic)]
Written(c, id) ==
  CASE c.fn = "connect" ->
         VarHdr(c.conf) \o Sends(c.conf.client_id)
         \o SendsIf(HasWill(c.conf), c.conf.will_topic)
         \o SendsIf(HasWill(c.conf), c.conf.will_msg)
         \o SendsIf(HasUser(c.conf), c.conf.username)
         \o SendsIf(HasPassword(c.conf), c.conf.password)
    [] c.fn = "publish" ->
         Sends(c.topic) \o (IF c.qos > 0 THEN IdentBytes(id) ELSE <<>>) \o c.msg
    [] c.fn = "subscribe" -> IdentBytes(id) \o FlattenSeq(SubscribedTo(c.topics))
    [] c.fn = "unsubscribe" -> IdentBytes(id) \o FlattenSeq(UnsubscribedFrom(c.topics))
    [] c.fn \in {"puback", "pubrec"} -> IdentBytes(c.id)
    [] c.fn \in {"pubrel", "pubcomp"} -> <<Lsb(c.id), Msb(c.id)>>
    [] OTHER -> <<>>

----------------------------------------------------------------------------
(* The inductive invariant                                                 *)

\* The n bytes at index i of a buffer.
Bytes(buf, i, n) == [j \in 1 .. n |-> buf[i + j - 1]]

\* The first byte, and the packet a call makes.
First(c) == Hdr(c) + (IF c.fn \in Flagged THEN 2 ELSE 0)
Length(c, n) == IF c.fn \in HeaderFirst THEN <<n % 256>> ELSE RemainLen(n)
Made(c, id) ==
  <<First(c)>> \o Length(c, Len(Written(c, id))) \o Written(c, id)

\* A call that another one overlaps is not alone.
Alone == \A t, u \in Thread : t # u /\ Busy(t) /\ Busy(u) => ~alone[t]

\* A call that is alone takes the identifier it began with.
OwnIdent ==
  \A t \in Thread :
    Busy(t) /\ alone[t] /\ (HasOp(todo[t], "msb") \/ HasOp(todo[t], "lsb"))
      => packet_ident = ident0[t]

\* It finds nothing behind what it has put.
NoGap == \A t \in Thread : ~Busy(t) \/ alone[t] => gap[t] = 0

\* A buffer is clear from i on.
ClearFrom(buf, i) == \A j \in 0 .. BufSize - 1 : j >= i => buf[j] = 0

\* Where the packet of a call starts whose next byte goes to index a.
From(c, a) == Start(c, a - FirstField(c))

\* The statements that follow the header.
Rest(c) == IF c.fn \in HeaderFirst THEN Fields(c) \o After(c) ELSE <<Op("send", <<>>)>>

\* All that a call with identifier id puts before its header is in buf.
Ready(c, id, a, buf) ==
  IF c.fn \in HeaderFirst THEN a = 2 /\ ClearFrom(buf, 1)
  ELSE /\ a - FirstField(c) = Len(Written(c, id))
       /\ Bytes(buf, From(c, a) + 1, a - From(c, a) - 1)
            = RemainLen(Len(Written(c, id))) \o Written(c, id)

\* Where a call may be with statements s left, and what buf then holds.
Begun(c, s, a) == s = Program(c) /\ a = FirstField(c)
ToHead(c, id, s, a, buf) == s = HeaderOps(c) \o Rest(c) /\ Ready(c, id, a, buf)
ToFlag(c, id, s, a, buf) ==
  /\ c.fn \in Flagged /\ s = <<Op("flag", <<>>)>> \o Rest(c)
  /\ Ready(c, id, a, buf) /\ buf[From(c, a)] = Hdr(c)
FillsWith(c, id, s, a, buf, f) ==
  /\ s = f \o After(c)
  /\ ClearFrom(buf, a)
  /\ Written(c, id) = Bytes(buf, FirstField(c), a - FirstField(c)) \o Content(f, id)
  /\ c.fn \in HeaderFirst => buf[0] = First(c)
Filling(c, id, s, a, buf) == \E f \in Seq(BodyOps) : FillsWith(c, id, s, a, buf, f)
Complete(c, id, s, a, buf) ==
  /\ s = <<Op("send", <<>>)>>
  /\ Bytes(buf, From(c, a), a - From(c, a)) = Made(c, id)

Stage(c, id, s, a, buf) ==
  \/ Begun(c, s, a) \/ ToHead(c, id, s, a, buf) \/ ToFlag(c, id, s, a, buf)
  \/ Filling(c, id, s, a, buf) \/ Complete(c, id, s, a, buf)
Stages ==
  ~outside => \A t \in Thread : Busy(t) /\ alone[t] =>
                Stage(call[t], ident0[t], todo[t], at[t], tx_buf)

\* What was sent has its type.
Sent == sent \in Seq([call : Call, id : 0 .. IdentMod - 1, bytes : Seq(Nat)])

PacketInv == Alone /\ OwnIdent /\ NoGap /\ Stages /\ Sent

----------------------------------------------------------------------------
(* Contents                                                                *)

\* The first of several put together.
LEMMA HeadConcat ==
  ASSUME NEW U, NEW f \in Seq(U), NEW g \in Seq(U), f # <<>>
  PROVE  f \o g # <<>> /\ Head(f \o g) = Head(f) /\ Tail(f \o g) = Tail(f) \o g
<1>1. /\ f \o g \in Seq(U) /\ Len(f \o g) = Len(f) + Len(g) /\ Len(f) \in Nat /\ Len(g) \in Nat
      /\ \A i \in 1 .. Len(f) + Len(g) :
           (f \o g)[i] = IF i <= Len(f) THEN f[i] ELSE g[i - Len(f)]
  OBVIOUS
<1>2. Len(f) # 0 /\ Head(f) = f[1] /\ Tail(f) \in Seq(U) /\ Len(Tail(f)) = Len(f) - 1
      /\ \A i \in 1 .. Len(f) - 1 : Tail(f)[i] = f[i + 1]
  BY TailIs
<1> DEFINE s == f \o g
           r == Tail(f)
<1>3. s \in Seq(U) /\ Len(s) = Len(f) + Len(g) /\ Len(s) # 0 /\ s # <<>>
  BY <1>1, <1>2
<1>4. /\ Tail(s) \in Seq(U) /\ Len(Tail(s)) = Len(s) - 1 /\ Head(s) = s[1]
      /\ \A i \in 1 .. Len(s) - 1 : Tail(s)[i] = s[i + 1]
  BY <1>3, TailIs
<1>5. Head(s) = Head(f)
  BY <1>1, <1>2, <1>4, SMTT(30)
<1>6. Tail(s) = r \o g
  <2>1. \A i \in 1 .. Len(r) : Tail(s)[i] = r[i]
    BY <1>1, <1>2, <1>3, <1>4
  <2>2. \A i \in 1 .. Len(g) : Tail(s)[Len(r) + i] = g[i]
    <3> SUFFICES ASSUME NEW i \in 1 .. Len(g) PROVE Tail(s)[Len(r) + i] = g[i]
      OBVIOUS
    <3>1. Len(r) + i \in 1 .. Len(s) - 1 /\ (Len(r) + i) + 1 = Len(f) + i
      BY <1>1, <1>2, <1>3
    <3>2. Tail(s)[Len(r) + i] = s[Len(f) + i]
      BY <1>4, <3>1
    <3>3. s[Len(f) + i] = g[(Len(f) + i) - Len(f)]
      BY <1>1
    <3>4. (Len(f) + i) - Len(f) = i
      BY <1>1
    <3> QED
      BY <3>2, <3>3, <3>4
  <2>3. Len(Tail(s)) = Len(r) + Len(g)
    BY <1>1, <1>2, <1>3, <1>4
  <2> HIDE DEF s, r
  <2> QED
    BY <1>2, <1>4, <2>1, <2>2, <2>3, ConcatIs DEF r
<1> QED
  BY <1>3, <1>5, <1>6

\* A statement gives bytes.
LEMMA GivesType ==
  ASSUME NEW o \in Ops, NEW id \in 0 .. IdentMod - 1
  PROVE  Gives(o, id) \in Seq(Nat)
<1>1. o.bytes \in Seq(Nat) /\ Msb(id) \in Nat /\ Lsb(id) \in Nat
  BY Identifiers DEF Ops
<1> QED
  BY <1>1 DEF Gives

\* So does each of a sequence of them.
LEMMA GivenByType ==
  ASSUME NEW s \in Seq(Ops), NEW id \in 0 .. IdentMod - 1
  PROVE  GivenBy(s, id) \in Seq(Seq(Nat)) /\ Len(GivenBy(s, id)) = Len(s)
<1>1. Len(s) \in Nat
  OBVIOUS
<1>2. \A i \in 1 .. Len(s) : Gives(s[i], id) \in Seq(Nat)
  BY GivesType, ElementOfSeq
<1>3. GivenBy(s, id) \in [1 .. Len(s) -> Seq(Nat)]
  BY <1>2 DEF GivenBy
<1>4. GivenBy(s, id) \in Seq(Seq(Nat))
  BY <1>1, <1>3, FunctionSeq
<1> QED
  BY <1>1, <1>3, <1>4

\* The content of statements is bytes.
LEMMA ContentType ==
  ASSUME NEW s \in Seq(Ops), NEW id \in 0 .. IdentMod - 1
  PROVE  Content(s, id) \in Seq(Nat)
  BY GivenByType, FlattenType DEF Content

\* Statements put together put their bytes together.
Parted(s, r, id) == Content(s \o r, id) = Content(s, id) \o Content(r, id)

\* The content of statements put together.
LEMMA ContentConcat ==
  ASSUME NEW s \in Seq(Ops), NEW r \in Seq(Ops), NEW id \in 0 .. IdentMod - 1
  PROVE  Parted(s, r, id)
<1> DEFINE a == GivenBy(s, id)
           b == GivenBy(r, id)
           c == GivenBy(s \o r, id)
<1>1. /\ s \o r \in Seq(Ops) /\ Len(s \o r) = Len(s) + Len(r)
      /\ Len(s) \in Nat /\ Len(r) \in Nat
      /\ \A i \in 1 .. Len(s) : (s \o r)[i] = s[i]
      /\ \A i \in 1 .. Len(r) : (s \o r)[Len(s) + i] = r[i]
  <2>1. s \o r \in Seq(Ops) /\ Len(s) \in Nat /\ Len(r) \in Nat
    BY ConcatProperties
  <2> QED
    BY <2>1
<1>2. /\ a \in Seq(Seq(Nat)) /\ Len(a) = Len(s) /\ b \in Seq(Seq(Nat)) /\ Len(b) = Len(r)
      /\ c \in Seq(Seq(Nat)) /\ Len(c) = Len(s \o r)
  BY <1>1, GivenByType
<1>3. \A i \in 1 .. Len(s) : c[i] = a[i]
  BY <1>1 DEF GivenBy
<1>4. \A i \in 1 .. Len(r) : c[Len(s) + i] = b[i]
  BY <1>1 DEF GivenBy
<1>5. c = a \o b
  <2> HIDE DEF a, b, c
  <2>1. Len(c) = Len(a) + Len(b)
    BY <1>1, <1>2
  <2>2. \A i \in 1 .. Len(a) : c[i] = a[i]
    BY <1>2, <1>3
  <2>3. \A i \in 1 .. Len(b) : c[Len(a) + i] = b[i]
    BY <1>2, <1>4
  <2>4. a \in Seq(Seq(Nat)) /\ b \in Seq(Seq(Nat)) /\ c \in Seq(Seq(Nat))
    BY <1>2
  <2> QED
    BY <2>1, <2>2, <2>3, <2>4, ConcatIs
<1>6. Flattened(a, b)
  BY <1>2, FlattenConcat
<1> QED
  BY <1>5, <1>6, Zenon DEF Parted, Content, Flattened

\* No statement, no content.
LEMMA ContentEmpty ==
  ASSUME NEW id
  PROVE  Content(<<>>, id) = <<>>
<1>1. GivenBy(<<>>, id) = <<>>
  BY DEF GivenBy
<1> QED
  BY <1>1, FlattenEmpty, Zenon DEF Content

\* The content of one statement.
LEMMA ContentOne ==
  ASSUME NEW o \in Ops, NEW id \in 0 .. IdentMod - 1
  PROVE  Content(<<o>>, id) = Gives(o, id)
<1>1. GivenBy(<<o>>, id) = <<Gives(o, id)>>
  BY DEF GivenBy
<1>2. Gives(o, id) \in Seq(Nat)
  BY GivesType
<1> QED
  BY <1>1, <1>2, FlattenOne, Zenon DEF Content

\* The next statement's bytes come first.
LEMMA ContentFirst ==
  ASSUME NEW s \in Seq(Ops), s # <<>>, NEW id \in 0 .. IdentMod - 1
  PROVE  /\ Content(s, id) = Gives(Head(s), id) \o Content(Tail(s), id)
         /\ Gives(Head(s), id) \in Seq(Nat) /\ Content(Tail(s), id) \in Seq(Nat)
<1>1. Head(s) \in Ops /\ Tail(s) \in Seq(Ops) /\ <<Head(s)>> \in Seq(Ops)
  <2>1. Head(s) \in Ops /\ Tail(s) \in Seq(Ops)
    BY TailIs
  <2> QED
    BY <2>1
<1>2. s = <<Head(s)>> \o Tail(s)
  OBVIOUS
<1>3. Parted(<<Head(s)>>, Tail(s), id)
  BY <1>1, ContentConcat
<1>4. Content(<<Head(s)>>, id) = Gives(Head(s), id)
  BY <1>1, ContentOne
<1>5. Content(s, id) = Gives(Head(s), id) \o Content(Tail(s), id)
  BY <1>2, <1>3, <1>4, Zenon DEF Parted
<1> QED
  BY <1>1, <1>5, GivesType, ContentType

\* What flattened statements put.
Contents(ss, id) == [i \in 1 .. Len(ss) |-> Content(ss[i], id)]

\* The content of statements that were flattened.
LEMMA ContentFlatten ==
  ASSUME NEW ss \in Seq(Seq(Ops)), NEW id \in 0 .. IdentMod - 1
  PROVE  Content(FlattenSeq(ss), id) = FlattenSeq(Contents(ss, id))
<1> DEFINE T == {n \in Nat : \A t \in Seq(Seq(Ops)) :
                   Len(t) = n => Content(FlattenSeq(t), id) = FlattenSeq(Contents(t, id))}
<1>1. 0 \in T
  <2>1. \A t \in Seq(Seq(Ops)) : Len(t) = 0 => t = <<>>
    OBVIOUS
  <2>2. Contents(<<>>, id) = <<>>
    BY DEF Contents
  <2>3. Content(FlattenSeq(<<>>), id) = FlattenSeq(Contents(<<>>, id))
    BY <2>2, FlattenEmpty, ContentEmpty, Zenon
  <2> QED
    BY <2>1, <2>3
<1>2. ASSUME NEW n \in Nat, n \in T PROVE n + 1 \in T
  <2> SUFFICES ASSUME NEW t \in Seq(Seq(Ops)), Len(t) = n + 1
               PROVE  Content(FlattenSeq(t), id) = FlattenSeq(Contents(t, id))
    OBVIOUS
  <2>0. t # <<>>
    OBVIOUS
  <2>1. PICK u \in Seq(Seq(Ops)), e \in Seq(Ops) : t = Append(u, e)
    BY <2>0, SequenceEmptyOrAppend
  <2>2. Len(u) = n /\ t[n + 1] = e /\ \A i \in 1 .. n : t[i] = u[i]
    BY <2>1
  <2>3. Content(FlattenSeq(u), id) = FlattenSeq(Contents(u, id))
    BY <1>2, <2>2
  <2>4. FlattenSeq(t) = FlattenSeq(u) \o e /\ FlattenSeq(u) \in Seq(Ops)
    BY <2>1, FlattenAppend, FlattenType
  <2>5. Parted(FlattenSeq(u), e, id)
    BY <2>4, ContentConcat
  <2>6. \A r \in Seq(Seq(Ops)) : Contents(r, id) \in Seq(Seq(Nat)) /\ Len(Contents(r, id)) = Len(r)
    <3> SUFFICES ASSUME NEW r \in Seq(Seq(Ops))
                 PROVE  Contents(r, id) \in Seq(Seq(Nat)) /\ Len(Contents(r, id)) = Len(r)
      OBVIOUS
    <3>1. \A i \in 1 .. Len(r) : Content(r[i], id) \in Seq(Nat)
      BY ContentType, ElementOfSeq
    <3>2. Contents(r, id) \in [1 .. Len(r) -> Seq(Nat)] /\ Len(r) \in Nat
      BY <3>1 DEF Contents
    <3>3. Contents(r, id) \in Seq(Seq(Nat))
      BY <3>2, FunctionSeq
    <3> QED
      BY <3>2, <3>3
  <2>7. FlattenSeq(Contents(t, id)) = FlattenSeq(Contents(u, id)) \o Content(e, id)
    <3>1. Agree(Contents(u, id), Contents(t, id), n) /\ Contents(t, id)[n + 1] = Content(e, id)
      BY <2>2 DEF Agree, Contents
    <3>2. Content(e, id) \in Seq(Nat)
      BY ContentType
    <3> QED
      BY <2>2, <2>6, <3>1, <3>2, FlattenMore
  <2> QED
    BY <2>3, <2>4, <2>5, <2>7, Zenon DEF Parted
<1> HIDE DEF T
<1>3. Nat \subseteq T
  BY <1>1, <1>2, SetInduction
<1>4. Len(ss) \in T
  BY <1>3, LenProperties
<1> QED
  BY <1>4 DEF T

\* Fields and identifiers make up the body of a packet.
LEMMA FieldOpsAre ==
  /\ Seq(FieldOps) \subseteq Seq(BodyOps) /\ Seq(BodyOps) \subseteq Seq(Ops)
  /\ Seq(FieldOps) \subseteq Seq(Ops)
  /\ NewIdent \in Seq(BodyOps)
<1>1. FieldOps \subseteq BodyOps
  BY DEF FieldOps, BodyOps, Idents
<1>2. BodyOps \subseteq Ops
  BY DEF Ops, BodyOps, OpName, Idents
<1>3. NewIdent \in Seq(BodyOps)
  BY DEF NewIdent, Op, BodyOps, Idents
<1> QED
  BY <1>1, <1>2, <1>3, SeqMonotonic

\* A string is appended with its length or without.
LEMMA StringContent ==
  ASSUME NEW s \in Seq(Nat), NEW id \in 0 .. IdentMod - 1
  PROVE  /\ Content(Append_utf8(s, TRUE), id) = Sends(s)
         /\ Content(Append_utf8(s, FALSE), id) = s
<1>1. ASSUME NEW x \in Seq(Nat)
      PROVE  Content(<<Op("measure", <<>>), Op("copy", x)>>, id) = x
  <2> DEFINE m == Op("measure", <<>>)
             o == Op("copy", x)
  <2>1. m \in Ops /\ o \in Ops /\ Gives(m, id) = <<>> /\ Gives(o, id) = x
    BY DEF Op, Ops, OpName, Idents, Gives
  <2> HIDE DEF m, o
  <2>2. <<m, o>> \in Seq(Ops) /\ <<m, o>> # <<>> /\ Head(<<m, o>>) = m /\ Tail(<<m, o>>) = <<o>>
    BY <2>1
  <2>3. Content(<<m, o>>, id) = Gives(m, id) \o Content(<<o>>, id)
    <3>1. \A r \in Seq(Ops) : r # <<>> =>
            Content(r, id) = Gives(Head(r), id) \o Content(Tail(r), id)
      BY ContentFirst
    <3>2. Content(<<m, o>>, id) = Gives(Head(<<m, o>>), id) \o Content(Tail(<<m, o>>), id)
      BY <2>2, <3>1, Zenon
    <3> QED
      BY <2>2, <3>2, Zenon
  <2>4. Content(<<o>>, id) = x
    BY <2>1, ContentOne
  <2>5. <<>> \o x = x
    OBVIOUS
  <2> QED
    BY <2>1, <2>3, <2>4, <2>5, Zenon DEF m, o
<1>2. Prefix(s) \o s \in Seq(Nat) /\ s \in Seq(Nat)
  BY Utf8Type
<1>3. Content(<<>>, id) = <<>>
  BY ContentEmpty
<1>4. CASE s = <<>>
  BY <1>3, <1>4, Zenon DEF Append_utf8, Sends
<1>5. CASE s # <<>>
  <2>1. /\ Append_utf8(s, TRUE) = <<Op("measure", <<>>), Op("copy", Prefix(s) \o s)>>
        /\ Append_utf8(s, FALSE) = <<Op("measure", <<>>), Op("copy", s)>>
        /\ Sends(s) = Prefix(s) \o s
    BY <1>5, Zenon DEF Append_utf8, Sends, Utf8
  <2> QED
    BY <1>1, <1>2, <2>1, Zenon
<1> QED
  BY <1>4, <1>5

\* Bytes that are put as they are.
LEMMA PutContent ==
  ASSUME NEW s \in Seq(Nat), NEW id \in 0 .. IdentMod - 1
  PROVE  Content(<<Op("put", s)>>, id) = s
<1>1. Op("put", s) \in Ops /\ Gives(Op("put", s), id) = s
  BY DEF Op, Ops, OpName, Idents, Gives
<1> QED
  BY <1>1, ContentOne, Zenon

\* Two bytes one after the other.
LEMMA TwoConcat ==
  ASSUME NEW x \in Nat, NEW y \in Nat
  PROVE  <<x>> \o <<y>> = <<x, y>>
<1>1. <<x>> \o <<y>> = Append(<<x>>, y)
  OBVIOUS
<1> QED
  BY <1>1, AppendTwo

\* The bytes of an identifier, new or given.
LEMMA IdentContent ==
  ASSUME NEW id \in 0 .. IdentMod - 1
  PROVE  /\ Content(NewIdent, id) = IdentBytes(id)
         /\ \A x, y \in Nat : Content(GivenIdent(x, y), id) = <<x, y>>
<1>0. \A r \in Seq(Ops) : r # <<>> =>
        Content(r, id) = Gives(Head(r), id) \o Content(Tail(r), id)
  BY ContentFirst
<1>e. Content(<<>>, id) = <<>>
  BY ContentEmpty
<1>1. ASSUME NEW a \in Ops, NEW b \in Ops, NEW x \in Nat, NEW y \in Nat,
             Gives(a, id) = <<x>>, Gives(b, id) = <<y>>,
             NEW r \in Seq(Ops), Content(r, id) = <<>>
      PROVE  Content(<<a, b>> \o r, id) = <<x, y>>
  <2>1. Content(<<b>>, id) = <<y>>
    BY <1>1, ContentOne, Zenon
  <2>2. <<a, b>> \in Seq(Ops) /\ <<a, b>> # <<>> /\ Head(<<a, b>>) = a /\ Tail(<<a, b>>) = <<b>>
    OBVIOUS
  <2>3. Content(<<a, b>>, id) = Gives(Head(<<a, b>>), id) \o Content(Tail(<<a, b>>), id)
    BY <1>0, <2>2, Zenon
  <2>4. <<x>> \o <<y>> = <<x, y>>
    BY TwoConcat
  <2>5. Content(<<a, b>>, id) = <<x, y>>
    BY <1>1, <2>1, <2>2, <2>3, <2>4, Zenon
  <2>6. Parted(<<a, b>>, r, id)
    BY <2>2, ContentConcat
  <2>7. <<x, y>> \o <<>> = <<x, y>>
    OBVIOUS
  <2> QED
    BY <1>1, <2>5, <2>6, <2>7, Zenon DEF Parted
<1>2. Content(NewIdent, id) = IdentBytes(id)
  <2> DEFINE a == Op("msb", <<>>)
             b == Op("lsb", <<>>)
             d == Op("fetch", <<>>)
             e == Op("store", <<>>)
  <2>1. /\ a \in Ops /\ b \in Ops /\ d \in Ops /\ e \in Ops
        /\ Gives(a, id) = <<Msb(id)>> /\ Gives(b, id) = <<Lsb(id)>>
        /\ Gives(d, id) = <<>> /\ Gives(e, id) = <<>>
    BY DEF Op, Ops, OpName, Idents, Gives
  <2>2. NewIdent = <<a, b, d, e>>
    BY DEF NewIdent
  <2> HIDE DEF a, b, d, e
  <2>3. NewIdent = <<a, b>> \o <<d, e>> /\ <<d, e>> \in Seq(Ops) /\ <<d, e>> # <<>>
        /\ Head(<<d, e>>) = d /\ Tail(<<d, e>>) = <<e>>
    BY <2>1, <2>2
  <2>4. Content(<<e>>, id) = <<>>
    BY <2>1, ContentOne, Zenon
  <2>5. Content(<<d, e>>, id) = Gives(Head(<<d, e>>), id) \o Content(Tail(<<d, e>>), id)
    BY <1>0, <2>3, Zenon
  <2>6. <<>> \o <<>> = <<>>
    OBVIOUS
  <2>7. Content(<<d, e>>, id) = <<>>
    BY <2>1, <2>3, <2>4, <2>5, <2>6, Zenon
  <2>8. Msb(id) \in Nat /\ Lsb(id) \in Nat
    BY Identifiers
  <2>9. Content(<<a, b>> \o <<d, e>>, id) = <<Msb(id), Lsb(id)>>
    BY <1>1, <2>1, <2>3, <2>7, <2>8, ZenonT(60)
  <2> QED
    BY <2>3, <2>9, Zenon DEF IdentBytes
<1>3. ASSUME NEW x \in Nat, NEW y \in Nat
      PROVE  Content(GivenIdent(x, y), id) = <<x, y>>
  <2> DEFINE a == Op("put", <<x>>)
             b == Op("put", <<y>>)
  <2>1. a \in Ops /\ b \in Ops /\ Gives(a, id) = <<x>> /\ Gives(b, id) = <<y>>
    BY DEF Op, Ops, OpName, Idents, Gives
  <2>2. GivenIdent(x, y) = <<a, b>>
    BY DEF GivenIdent
  <2> HIDE DEF a, b
  <2>3. <<>> \in Seq(Ops) /\ <<a, b>> \o <<>> = <<a, b>>
    BY <2>1
  <2>4. Content(<<a, b>> \o <<>>, id) = <<x, y>>
    BY <1>1, <1>e, <2>1, <2>3, Zenon
  <2> QED
    BY <2>2, <2>3, <2>4, Zenon
<1> QED
  BY <1>2, <1>3

\* The strings a call puts have the types of the code's.
LEMMA SendsType ==
  ASSUME NEW s \in Seq(Nat), NEW b
  PROVE  /\ Sends(s) \in Seq(Nat) /\ SendsIf(b, s) \in Seq(Nat)
         /\ Utf8(s) \in Seq(Nat) /\ Optional(b, s) \in Seq(Nat)
<1>1. Prefix(s) \o s \in Seq(Nat) /\ <<>> \in Seq(Nat)
  BY Utf8Type
<1> QED
  BY <1>1, Zenon DEF Sends, SendsIf, Utf8, Optional

\* Whatever a field is put with is a statement.
LEMMA FieldsAreOps ==
  /\ <<>> \in Seq(Ops) /\ NewIdent \in Seq(Ops)
  /\ \A s \in Seq(Nat), b \in BOOLEAN : Append_utf8(s, b) \in Seq(Ops)
  /\ \A s \in Seq(Nat) : <<Op("put", s)>> \in Seq(Ops)
<1>1. \A s \in Seq(Nat), b \in BOOLEAN : Append_utf8(s, b) \in Seq(FieldOps)
  BY AppendFields
<1>2. \A s \in Seq(Nat) : <<Op("put", s)>> \in Seq(FieldOps)
  BY PutFields
<1>3. <<>> \in Seq(Ops)
  OBVIOUS
<1> QED
  BY <1>1, <1>2, <1>3, FieldOpsAre, Zenon

\* What the fields of CONNECT write is the body of CONNECT.
LEMMA ConnectContent ==
  ASSUME NEW conf \in Conf, NEW id \in 0 .. IdentMod - 1
  PROVE  Content(connect_fields(conf), id)
           = VarHdr(conf) \o Sends(conf.client_id)
             \o SendsIf(HasWill(conf), conf.will_topic)
             \o SendsIf(HasWill(conf), conf.will_msg)
             \o SendsIf(HasUser(conf), conf.username)
             \o SendsIf(HasPassword(conf), conf.password)
<1> DEFINE v == <<Op("put", VarHdr(conf))>>
           i == Append_utf8(conf.client_id, TRUE)
           t == Append_utf8(conf.will_topic, TRUE)
           m == Append_utf8(conf.will_msg, TRUE)
           w == IF HasWill(conf) THEN t \o m ELSE <<>>
           u == IF HasUser(conf) THEN Append_utf8(conf.username, TRUE) ELSE <<>>
           p == IF HasPassword(conf) THEN Append_utf8(conf.password, TRUE) ELSE <<>>
           C(s) == Content(s, id)
<1>0. /\ conf.client_id \in Seq(Nat)
      /\ conf.will_topic \in Seq(Nat) /\ conf.will_msg \in Seq(Nat)
      /\ conf.username \in Seq(Nat) /\ conf.password \in Seq(Nat)
      /\ VarHdr(conf) \in Seq(Nat)
  BY ConfBytes, ConfHdr
<1>1. /\ <<>> \in Seq(Ops) /\ v \in Seq(Ops) /\ i \in Seq(Ops) /\ t \in Seq(Ops) /\ m \in Seq(Ops)
      /\ Append_utf8(conf.username, TRUE) \in Seq(Ops)
      /\ Append_utf8(conf.password, TRUE) \in Seq(Ops)
  BY <1>0, FieldsAreOps, Zenon
<1>2. t \o m \in Seq(Ops)
  BY <1>1, OpsConcat
<1>3. w \in Seq(Ops) /\ u \in Seq(Ops) /\ p \in Seq(Ops)
  BY <1>1, <1>2
<1>4. C(v) = VarHdr(conf) /\ C(i) = Sends(conf.client_id)
  BY <1>0, PutContent, StringContent
<1>5. C(t \o m) = Sends(conf.will_topic) \o Sends(conf.will_msg)
  <2>1. Parted(t, m, id)
    BY <1>1, ContentConcat
  <2>2. C(t) = Sends(conf.will_topic) /\ C(m) = Sends(conf.will_msg)
    BY <1>0, StringContent
  <2> QED
    BY <2>1, <2>2, Zenon DEF Parted
<1>6. C(<<>>) = <<>>
  BY ContentEmpty
<1>7. C(w) = SendsIf(HasWill(conf), conf.will_topic) \o SendsIf(HasWill(conf), conf.will_msg)
  <2>1. <<>> \o <<>> = <<>>
    OBVIOUS
  <2> QED
    BY <1>5, <1>6, <2>1, Zenon DEF SendsIf
<1>8. /\ C(u) = SendsIf(HasUser(conf), conf.username)
      /\ C(p) = SendsIf(HasPassword(conf), conf.password)
  <2>1. /\ C(Append_utf8(conf.username, TRUE)) = Sends(conf.username)
        /\ C(Append_utf8(conf.password, TRUE)) = Sends(conf.password)
    BY <1>0, StringContent
  <2> QED
    BY <1>6, <2>1, Zenon DEF SendsIf
<1>9. connect_fields(conf) = (((v \o i) \o w) \o u) \o p
  BY DEF connect_fields
<1>10. /\ SendsIf(HasWill(conf), conf.will_topic) \in Seq(Nat)
       /\ SendsIf(HasWill(conf), conf.will_msg) \in Seq(Nat)
       /\ Sends(conf.client_id) \in Seq(Nat)
  BY <1>0, SendsType
<1> HIDE DEF v, i, t, m, w, u, p
<1>11. v \o i \in Seq(Ops) /\ (v \o i) \o w \in Seq(Ops) /\ ((v \o i) \o w) \o u \in Seq(Ops)
  BY <1>1, <1>3, OpsConcat
<1>12. /\ Parted(v, i, id) /\ Parted(v \o i, w, id) /\ Parted((v \o i) \o w, u, id)
       /\ Parted(((v \o i) \o w) \o u, p, id)
  BY <1>1, <1>3, <1>11, ContentConcat
<1>13. C(connect_fields(conf)) = (((C(v) \o C(i)) \o C(w)) \o C(u)) \o C(p)
  BY <1>9, <1>12, Zenon DEF Parted
<1>14. Associated(VarHdr(conf) \o Sends(conf.client_id),
                  SendsIf(HasWill(conf), conf.will_topic), SendsIf(HasWill(conf), conf.will_msg))
  <2>1. VarHdr(conf) \o Sends(conf.client_id) \in Seq(Nat)
    BY <1>0, <1>10, ConcatProperties
  <2> QED
    BY <1>10, <2>1, Associates
<1> QED
  BY <1>4, <1>7, <1>8, <1>13, <1>14, Zenon DEF Associated

\* What the fields of topics write is the body of SUBSCRIBE and UNSUBSCRIBE.
LEMMA TopicsContent ==
  ASSUME NEW topics \in Topics, NEW id \in 0 .. IdentMod - 1
  PROVE  /\ Content(FlattenSeq(Subscribed(topics)), id) = FlattenSeq(SubscribedTo(topics))
         /\ Content(FlattenSeq(Unsubscribed(topics)), id) = FlattenSeq(UnsubscribedFrom(topics))
<1>1. ASSUME NEW i \in 1 .. Len(topics)
      PROVE  /\ Content(Append_utf8(topics[i].topic, TRUE), id) = Sends(topics[i].topic)
             /\ Content(Append_utf8(topics[i].topic, TRUE) \o <<Op("put", <<topics[i].qos>>)>>, id)
                  = Sends(topics[i].topic) \o <<topics[i].qos>>
  <2>1. topics[i].topic \in Seq(Nat) /\ <<topics[i].qos>> \in Seq(Nat)
    <3>1. topics[i] \in [topic : String, qos : 0 .. 2]
      BY ElementOfSeq DEF Topics
    <3> QED
      BY <3>1, StringBytes
  <2>2. /\ Content(Append_utf8(topics[i].topic, TRUE), id) = Sends(topics[i].topic)
        /\ Content(<<Op("put", <<topics[i].qos>>)>>, id) = <<topics[i].qos>>
    BY <2>1, StringContent, PutContent
  <2>3. /\ Append_utf8(topics[i].topic, TRUE) \in Seq(Ops)
        /\ <<Op("put", <<topics[i].qos>>)>> \in Seq(Ops)
    BY <2>1, AppendFields, PutFields, FieldOpsAre
  <2>4. Parted(Append_utf8(topics[i].topic, TRUE), <<Op("put", <<topics[i].qos>>)>>, id)
    BY <2>3, ContentConcat
  <2> QED
    BY <2>2, <2>4, Zenon DEF Parted
<1>2. /\ Subscribed(topics) \in Seq(Seq(Ops)) /\ Unsubscribed(topics) \in Seq(Seq(Ops))
      /\ Len(Subscribed(topics)) = Len(topics) /\ Len(Unsubscribed(topics)) = Len(topics)
  <2>1. Seq(Seq(FieldOps)) \subseteq Seq(Seq(Ops))
    BY FieldOpsAre, SeqMonotonic
  <2>2. Len(topics) \in Nat
    BY DEF Topics
  <2>3. Subscribed(topics) \in Seq(Seq(Ops)) /\ Unsubscribed(topics) \in Seq(Seq(Ops))
    BY <2>1, TopicFields, Zenon
  <2>4. Len(Subscribed(topics)) = Len(topics) /\ Len(Unsubscribed(topics)) = Len(topics)
    BY <2>2 DEF Subscribed, Unsubscribed
  <2> QED
    BY <2>3, <2>4
<1>3. Contents(Subscribed(topics), id) = SubscribedTo(topics)
  BY <1>1, <1>2, Zenon DEF Contents, Subscribed, SubscribedTo
<1>4. Contents(Unsubscribed(topics), id) = UnsubscribedFrom(topics)
  BY <1>1, <1>2, Zenon DEF Contents, Unsubscribed, UnsubscribedFrom
<1>5. ASSUME NEW ss \in Seq(Seq(Ops))
      PROVE  Content(FlattenSeq(ss), id) = FlattenSeq(Contents(ss, id))
  BY ContentFlatten
<1> QED
  BY <1>2, <1>3, <1>4, <1>5, Zenon

\* The statements of a call put what Written says, and nothing else.
LEMMA FieldsContent ==
  ASSUME NEW c \in Call, NEW id \in 0 .. IdentMod - 1
  PROVE  Fields(c) \in Seq(BodyOps) /\ Content(Fields(c), id) = Written(c, id)
<1>0. Fields(c) \in Seq(BodyOps)
  <2>1. \A x, y \in Seq(BodyOps) : x \o y \in Seq(BodyOps)
    BY ConcatProperties
  <2> QED
    BY <2>1, FieldsShape, FieldOpsAre
<1>1. CASE c.fn = "connect"
  <2>1. c.conf \in Conf /\ Fields(c) = connect_fields(c.conf)
    BY <1>1 DEF Call, Fields
  <2> QED
    BY <1>0, <1>1, <2>1, ConnectContent, Zenon DEF Written
<1>2. CASE c.fn = "publish"
  <2> DEFINE t == Append_utf8(c.topic, TRUE)
             n == IF c.qos > 0 THEN NewIdent ELSE <<>>
             m == Append_utf8(c.msg, FALSE)
  <2>1. c.topic \in Seq(Nat) /\ c.msg \in Seq(Nat)
    BY <1>2, StringBytes DEF Call
  <2>2. t \in Seq(Ops) /\ n \in Seq(Ops) /\ m \in Seq(Ops)
    BY <2>1, FieldsAreOps, Zenon
  <2>3. Fields(c) = (t \o n) \o m
    BY <1>2 DEF Fields, publish_fields
  <2>4. Content(t, id) = Sends(c.topic) /\ Content(m, id) = c.msg
    BY <2>1, StringContent
  <2>5. Content(n, id) = IF c.qos > 0 THEN IdentBytes(id) ELSE <<>>
    BY IdentContent, ContentEmpty
  <2>6. Written(c, id) = (Sends(c.topic) \o (IF c.qos > 0 THEN IdentBytes(id) ELSE <<>>)) \o c.msg
    BY <1>2, Zenon DEF Written
  <2> HIDE DEF t, n, m
  <2>7. t \o n \in Seq(Ops)
    BY <2>2, OpsConcat
  <2>8. Parted(t, n, id) /\ Parted(t \o n, m, id)
    BY <2>2, <2>7, ContentConcat
  <2> QED
    BY <1>0, <2>3, <2>4, <2>5, <2>6, <2>8, Zenon DEF Parted
<1>3. CASE c.fn = "subscribe" \/ c.fn = "unsubscribe"
  <2>1. c.topics \in Topics
    BY <1>3 DEF Call, Topics
  <2>2. /\ FlattenSeq(Subscribed(c.topics)) \in Seq(Ops) /\ NewIdent \in Seq(Ops)
        /\ FlattenSeq(Unsubscribed(c.topics)) \in Seq(Ops)
    BY <2>1, FlattenFields, FieldOpsAre
  <2>3. /\ Parted(NewIdent, FlattenSeq(Subscribed(c.topics)), id)
        /\ Parted(NewIdent, FlattenSeq(Unsubscribed(c.topics)), id)
    BY <2>2, ContentConcat
  <2>4. /\ c.fn = "subscribe" => Fields(c) = NewIdent \o FlattenSeq(Subscribed(c.topics))
        /\ c.fn = "unsubscribe" => Fields(c) = NewIdent \o FlattenSeq(Unsubscribed(c.topics))
    BY DEF Fields, subscribe_fields, unsubscribe_fields, Subscribed, Unsubscribed
  <2>5. /\ c.fn = "subscribe" =>
             Written(c, id) = IdentBytes(id) \o FlattenSeq(SubscribedTo(c.topics))
        /\ c.fn = "unsubscribe" =>
             Written(c, id) = IdentBytes(id) \o FlattenSeq(UnsubscribedFrom(c.topics))
    BY DEF Written
  <2>6. Content(NewIdent, id) = IdentBytes(id)
    BY IdentContent
  <2>7. /\ Content(FlattenSeq(Subscribed(c.topics)), id) = FlattenSeq(SubscribedTo(c.topics))
        /\ Content(FlattenSeq(Unsubscribed(c.topics)), id)
             = FlattenSeq(UnsubscribedFrom(c.topics))
    BY <2>1, TopicsContent
  <2> QED
    BY <1>0, <1>3, <2>3, <2>4, <2>5, <2>6, <2>7, Zenon DEF Parted
<1>4. CASE c.fn \in {"puback", "pubrec", "pubrel", "pubcomp"}
  <2>1. Msb(c.id) \in Nat /\ Lsb(c.id) \in Nat
    BY <1>4, Identifiers DEF Call
  <2>2. /\ Content(GivenIdent(Msb(c.id), Lsb(c.id)), id) = <<Msb(c.id), Lsb(c.id)>>
        /\ Content(GivenIdent(Lsb(c.id), Msb(c.id)), id) = <<Lsb(c.id), Msb(c.id)>>
    BY <2>1, IdentContent
  <2>3. /\ c.fn \in {"puback", "pubrec"} =>
             /\ Fields(c) = GivenIdent(Msb(c.id), Lsb(c.id))
             /\ Written(c, id) = <<Msb(c.id), Lsb(c.id)>>
        /\ c.fn \in {"pubrel", "pubcomp"} =>
             /\ Fields(c) = GivenIdent(Lsb(c.id), Msb(c.id))
             /\ Written(c, id) = <<Lsb(c.id), Msb(c.id)>>
    BY DEF Fields, Written, puback_fields, pubrec_fields, pubrel_fields, pubcomp_fields,
           IdentBytes
  <2> QED
    BY <1>0, <1>4, <2>2, <2>3
<1>5. CASE c.fn = "disconnect"
  <2>1. Fields(c) = <<>> /\ Written(c, id) = <<>>
    BY <1>5 DEF Fields, Written, disconnect_fields
  <2> QED
    BY <1>0, <2>1, ContentEmpty
<1> QED
  BY <1>1, <1>2, <1>3, <1>4, <1>5 DEF Call

----------------------------------------------------------------------------
(* The packet                                                              *)

\* One sequence of bytes is not longer than another.
NoLonger(a, b) == a \in Seq(Nat) /\ b \in Seq(Nat) /\ Len(a) <= Len(b)

\* Parts that are no longer make a whole that is no longer.
LEMMA NoLongerConcat ==
  ASSUME NEW a, NEW b, NEW x, NEW y, NoLonger(a, b), NoLonger(x, y)
  PROVE  NoLonger(a \o x, b \o y)
<1>1. a \in Seq(Nat) /\ b \in Seq(Nat) /\ x \in Seq(Nat) /\ y \in Seq(Nat)
      /\ Len(a) <= Len(b) /\ Len(x) <= Len(y)
  BY DEF NoLonger
<1>2. /\ a \o x \in Seq(Nat) /\ b \o y \in Seq(Nat)
      /\ Len(a \o x) = Len(a) + Len(x) /\ Len(b \o y) = Len(b) + Len(y)
      /\ Len(a) \in Nat /\ Len(b) \in Nat /\ Len(x) \in Nat /\ Len(y) \in Nat
  BY <1>1, ConcatProperties, LenProperties
<1>3. Len(a \o x) <= Len(b \o y)
  BY <1>1, <1>2
<1> QED
  BY <1>2, <1>3, Zenon DEF NoLonger

\* A sequence is no longer than itself.
LEMMA NoLongerSelf ==
  ASSUME NEW a \in Seq(Nat)
  PROVE  NoLonger(a, a)
  BY DEF NoLonger

\* A string that is left out is no longer than one that is sent.
LEMMA NoLongerStrings ==
  ASSUME NEW s \in Seq(Nat), NEW b \in BOOLEAN
  PROVE  NoLonger(Sends(s), Utf8(s)) /\ NoLonger(SendsIf(b, s), Optional(b, s))
<1>1. Utf8(s) \in Seq(Nat) /\ Len(Utf8(s)) \in Nat /\ <<>> \in Seq(Nat) /\ Len(<<>>) = 0
  BY SendsType
<1>2. NoLonger(<<>>, Utf8(s)) /\ NoLonger(Utf8(s), Utf8(s)) /\ NoLonger(<<>>, <<>>)
  BY <1>1 DEF NoLonger
<1>3. NoLonger(Sends(s), Utf8(s))
  BY <1>2, Zenon DEF Sends
<1> QED
  BY <1>2, <1>3, Zenon DEF SendsIf, Optional

\* A number has one quotient and one remainder.
LEMMA SameParts ==
  ASSUME NEW d \in Nat \ {0}, NEW q \in Nat, NEW r \in 0 .. d - 1,
         NEW p \in Nat, NEW o \in 0 .. d - 1, d * q + r = d * p + o
  PROVE  q = p /\ r = o
<1>1. ASSUME NEW x \in Nat, NEW y \in Nat, x < y PROVE d * x + d <= d * y
  <2>1. y - x - 1 \in Nat
    BY <1>1
  <2>2. d * (y - x - 1) \in Nat
    BY <2>1
  <2> QED
    BY <2>2
<1>2. ~(q < p)
  BY <1>1
<1>3. ~(p < q)
  BY <1>1
<1> QED
  BY <1>2, <1>3

\* Two bytes make a number below the square of their base.
LEMMA Below ==
  ASSUME NEW d \in Nat \ {0}, NEW q \in 0 .. d - 1, NEW r \in 0 .. d - 1
  PROVE  d * q + r < d * d
<1>1. d - 1 - q \in Nat
  OBVIOUS
<1>2. d * (d - 1 - q) \in Nat
  BY <1>1
<1> QED
  BY <1>2

\* The same as bytes of an identifier, whichever it is.
LEMMA NoLongerIdents ==
  ASSUME NEW i \in 0 .. IdentMod - 1, NEW j \in 0 .. IdentMod - 1
  PROVE  NoLonger(IdentBytes(i), IdentBytes(j))
<1>1. Msb(i) \in Nat /\ Lsb(i) \in Nat /\ Msb(j) \in Nat /\ Lsb(j) \in Nat
  BY Identifiers
<1> QED
  BY <1>1 DEF IdentBytes, NoLonger

\* An identifier whose bytes are exchanged has them in the other order.
LEMMA ReversedIdent ==
  ASSUME NEW i \in 0 .. IdentMod - 1
  PROVE  /\ Exchanged(i) \in 0 .. IdentMod - 1
         /\ IdentBytes(Exchanged(i)) = <<Lsb(i), Msb(i)>>
<1> DEFINE m == Msb(i)
           l == Lsb(i)
           e == IdentBase * l + m
<1>1. IdentBase \in Nat \ {0} /\ m \in 0 .. IdentBase - 1 /\ l \in 0 .. IdentBase - 1
  BY Identifiers, TxAssumption
<1> HIDE DEF m, l
<1>2. e \in Nat
  BY <1>1
<1>3. /\ e \div IdentBase \in Nat /\ e % IdentBase \in 0 .. IdentBase - 1
      /\ e = IdentBase * (e \div IdentBase) + (e % IdentBase)
  BY <1>1, <1>2, Division
<1>4. e \div IdentBase = l /\ e % IdentBase = m
  BY <1>1, <1>3, SameParts
<1>5. e < IdentMod
  BY <1>1, Below DEF IdentMod
<1> QED
  BY <1>2, <1>4, <1>5, Identifiers DEF IdentBytes, Exchanged, Msb, Lsb, m, l

\* The topics of SUBSCRIBE and UNSUBSCRIBE, as MQTT wants them.
SubscribedBody(topics) ==
  [i \in 1 .. Len(topics) |-> Utf8(topics[i].topic) \o <<topics[i].qos>>]
UnsubscribedBody(topics) == [i \in 1 .. Len(topics) |-> Utf8(topics[i].topic)]

\* The topics as they are sent are no longer than as the standard has them.
LEMMA TopicsNoLonger ==
  ASSUME NEW topics \in Topics
  PROVE  /\ NoLonger(FlattenSeq(SubscribedTo(topics)), FlattenSeq(SubscribedBody(topics)))
         /\ NoLonger(FlattenSeq(UnsubscribedFrom(topics)), FlattenSeq(UnsubscribedBody(topics)))
<1>1. ASSUME NEW i \in 1 .. Len(topics)
      PROVE  /\ NoLonger(Sends(topics[i].topic), Utf8(topics[i].topic))
             /\ NoLonger(Sends(topics[i].topic) \o <<topics[i].qos>>,
                         Utf8(topics[i].topic) \o <<topics[i].qos>>)
  <2>1. topics[i].topic \in Seq(Nat) /\ <<topics[i].qos>> \in Seq(Nat)
    <3>1. topics[i] \in [topic : String, qos : 0 .. 2]
      BY ElementOfSeq DEF Topics
    <3> QED
      BY <3>1, StringBytes
  <2>2. NoLonger(Sends(topics[i].topic), Utf8(topics[i].topic))
    BY <2>1, NoLongerStrings
  <2>3. NoLonger(<<topics[i].qos>>, <<topics[i].qos>>)
    BY <2>1, NoLongerSelf
  <2> QED
    BY <2>2, <2>3, NoLongerConcat
<1>2. Len(topics) \in Nat
  BY DEF Topics
<1>3. ASSUME NEW f, NEW g, \A i \in 1 .. Len(topics) : NoLonger(f[i], g[i]),
             f = [i \in 1 .. Len(topics) |-> f[i]], g = [i \in 1 .. Len(topics) |-> g[i]]
      PROVE  NoLonger(FlattenSeq(f), FlattenSeq(g))
  <2>1. \A i \in 1 .. Len(topics) : f[i] \in Seq(Nat) /\ g[i] \in Seq(Nat) /\ Len(f[i]) <= Len(g[i])
    BY <1>3 DEF NoLonger
  <2>2. f \in [1 .. Len(topics) -> Seq(Nat)] /\ g \in [1 .. Len(topics) -> Seq(Nat)]
    BY <1>3, <2>1
  <2>3. f \in Seq(Seq(Nat)) /\ g \in Seq(Seq(Nat))
    BY <1>2, <2>2, FunctionSeq
  <2>4. Len(f) = Len(topics) /\ Len(g) = Len(topics)
    BY <1>2, <2>2
  <2>5. Shorter(f, g)
    BY <2>1, <2>4 DEF Shorter
  <2>6. Len(FlattenSeq(f)) <= Len(FlattenSeq(g))
    BY <2>3, <2>5, FlattenShorter
  <2> QED
    BY <2>3, <2>6, FlattenType DEF NoLonger
<1>4. NoLonger(FlattenSeq(SubscribedTo(topics)), FlattenSeq(SubscribedBody(topics)))
  <2> DEFINE f == SubscribedTo(topics)
             g == SubscribedBody(topics)
  <2>1. /\ f = [i \in 1 .. Len(topics) |-> f[i]] /\ g = [i \in 1 .. Len(topics) |-> g[i]]
        /\ \A i \in 1 .. Len(topics) : NoLonger(f[i], g[i])
    BY <1>1 DEF SubscribedTo, SubscribedBody
  <2> QED
    BY <1>3, <2>1, Zenon
<1>5. NoLonger(FlattenSeq(UnsubscribedFrom(topics)), FlattenSeq(UnsubscribedBody(topics)))
  <2> DEFINE f == UnsubscribedFrom(topics)
             g == UnsubscribedBody(topics)
  <2>1. /\ f = [i \in 1 .. Len(topics) |-> f[i]] /\ g = [i \in 1 .. Len(topics) |-> g[i]]
        /\ \A i \in 1 .. Len(topics) : NoLonger(f[i], g[i])
    BY <1>1 DEF UnsubscribedFrom, UnsubscribedBody
  <2> QED
    BY <1>3, <2>1, Zenon
<1> QED
  BY <1>4, <1>5

\* The connection's body, longer where an empty string is left out.
LEMMA ConnectNoLonger ==
  ASSUME NEW conf \in Conf
  PROVE  NoLonger(VarHdr(conf) \o Sends(conf.client_id)
                    \o SendsIf(HasWill(conf), conf.will_topic)
                    \o SendsIf(HasWill(conf), conf.will_msg)
                    \o SendsIf(HasUser(conf), conf.username)
                    \o SendsIf(HasPassword(conf), conf.password),
                  VarHdr(conf) \o Utf8(conf.client_id)
                    \o Optional(HasWill(conf), conf.will_topic)
                    \o Optional(HasWill(conf), conf.will_msg)
                    \o Optional(HasUser(conf), conf.username)
                    \o Optional(HasPassword(conf), conf.password))
<1>1. /\ conf.client_id \in Seq(Nat)
      /\ conf.will_topic \in Seq(Nat) /\ conf.will_msg \in Seq(Nat)
      /\ conf.username \in Seq(Nat) /\ conf.password \in Seq(Nat)
      /\ VarHdr(conf) \in Seq(Nat)
  BY ConfBytes, ConfHdr
<1>2. /\ HasWill(conf) \in BOOLEAN /\ HasUser(conf) \in BOOLEAN /\ HasPassword(conf) \in BOOLEAN
  BY DEF HasWill, HasUser, HasPassword
<1>3. /\ NoLonger(VarHdr(conf), VarHdr(conf))
      /\ NoLonger(Sends(conf.client_id), Utf8(conf.client_id))
      /\ NoLonger(SendsIf(HasWill(conf), conf.will_topic), Optional(HasWill(conf), conf.will_topic))
      /\ NoLonger(SendsIf(HasWill(conf), conf.will_msg), Optional(HasWill(conf), conf.will_msg))
      /\ NoLonger(SendsIf(HasUser(conf), conf.username), Optional(HasUser(conf), conf.username))
      /\ NoLonger(SendsIf(HasPassword(conf), conf.password),
                  Optional(HasPassword(conf), conf.password))
  BY <1>1, <1>2, NoLongerSelf, NoLongerStrings, Zenon
<1> QED
  BY <1>3, NoLongerConcat, Zenon

\* What a call puts is never longer than what MQTT wants.
LEMMA WrittenNoLonger ==
  ASSUME NEW c \in Call, NEW id \in 0 .. IdentMod - 1
  PROVE  NoLonger(Written(c, id), Body(c, 0))
<1>0. 0 \in 0 .. IdentMod - 1
  BY Identifiers
<1>e. NoLonger(<<>>, <<>>)
  BY DEF NoLonger
<1>i. NoLonger(IdentBytes(id), IdentBytes(0))
  BY <1>0, NoLongerIdents
<1>1. CASE c.fn = "connect"
  <2>1. c.conf \in Conf
    BY <1>1 DEF Call
  <2> QED
    BY <1>1, <2>1, ConnectNoLonger DEF Written, Body
<1>2. CASE c.fn = "publish"
  <2>1. c.topic \in Seq(Nat) /\ c.msg \in Seq(Nat)
    BY <1>2, StringBytes DEF Call
  <2>2. /\ NoLonger(Sends(c.topic), Utf8(c.topic)) /\ NoLonger(c.msg, c.msg)
        /\ NoLonger(IF c.qos > 0 THEN IdentBytes(id) ELSE <<>>,
                    IF c.qos > 0 THEN IdentBytes(0) ELSE <<>>)
    BY <1>e, <1>i, <2>1, NoLongerStrings, NoLongerSelf
  <2>3. NoLonger(Sends(c.topic) \o (IF c.qos > 0 THEN IdentBytes(id) ELSE <<>>) \o c.msg,
                 Utf8(c.topic) \o (IF c.qos > 0 THEN IdentBytes(0) ELSE <<>>) \o c.msg)
    BY <2>2, NoLongerConcat, Zenon
  <2> QED
    BY <1>2, <2>3 DEF Written, Body
<1>3. CASE c.fn = "subscribe"
  <2>1. c.topics \in Topics
    BY <1>3 DEF Call, Topics
  <2>2. NoLonger(IdentBytes(id) \o FlattenSeq(SubscribedTo(c.topics)),
                 IdentBytes(0) \o FlattenSeq(SubscribedBody(c.topics)))
    BY <1>i, <2>1, TopicsNoLonger, NoLongerConcat
  <2> QED
    BY <1>3, <2>2 DEF Written, Body, SubscribedBody
<1>4. CASE c.fn = "unsubscribe"
  <2>1. c.topics \in Topics
    BY <1>4 DEF Call, Topics
  <2>2. NoLonger(IdentBytes(id) \o FlattenSeq(UnsubscribedFrom(c.topics)),
                 IdentBytes(0) \o FlattenSeq(UnsubscribedBody(c.topics)))
    BY <1>i, <2>1, TopicsNoLonger, NoLongerConcat
  <2> QED
    BY <1>4, <2>2 DEF Written, Body, UnsubscribedBody
<1>5. CASE c.fn \in {"puback", "pubrec", "pubrel", "pubcomp"}
  <2>1. c.id \in 0 .. IdentMod - 1
    BY <1>5 DEF Call
  <2>2. IdentBytes(c.id) \in Seq(Nat) /\ <<Lsb(c.id), Msb(c.id)>> \in Seq(Nat)
    BY <2>1, Identifiers DEF IdentBytes
  <2>3. /\ c.fn \in {"puback", "pubrec"} => Written(c, id) = IdentBytes(c.id)
        /\ c.fn \in {"pubrel", "pubcomp"} => Written(c, id) = <<Lsb(c.id), Msb(c.id)>>
        /\ Body(c, 0) = IdentBytes(c.id)
    BY <1>5 DEF Written, Body
  <2>4. /\ NoLonger(IdentBytes(c.id), IdentBytes(c.id))
        /\ NoLonger(<<Lsb(c.id), Msb(c.id)>>, IdentBytes(c.id))
    BY <2>2 DEF NoLonger, IdentBytes
  <2> QED
    BY <1>5, <2>3, <2>4
<1>6. CASE c.fn = "disconnect"
  BY <1>e, <1>6 DEF Written, Body
<1> QED
  BY <1>1, <1>2, <1>3, <1>4, <1>5, <1>6 DEF Call

\* Only the replies of QoS 2 name another identifier than their own.
LEMMA NamedIs ==
  ASSUME NEW c \in Call
  PROVE  /\ Named(c).fn = c.fn /\ First(Named(c)) = First(c)
         /\ c.fn \notin {"pubrel", "pubcomp"} => Named(c) = c
         /\ c.fn \in {"pubrel", "pubcomp"} =>
              Named(c).id = Exchanged(c.id) /\ c.id \in 0 .. IdentMod - 1
<1>1. CASE c.fn \in {"pubrel", "pubcomp"}
  <2>1. c \in [fn : {"puback", "pubrec", "pubrel", "pubcomp"}, id : 0 .. IdentMod - 1]
    BY <1>1 DEF Call
  <2>2. Named(c).fn = c.fn /\ Named(c).id = Exchanged(c.id)
    BY <1>1, <2>1 DEF Named
  <2>3. First(Named(c)) = First(c)
    BY <1>1, <2>2 DEF First, Hdr
  <2> QED
    BY <1>1, <2>1, <2>2, <2>3
<1>2. CASE c.fn \notin {"pubrel", "pubcomp"}
  BY <1>2 DEF Named
<1> QED
  BY <1>1, <1>2

\* It is what MQTT wants when no string that must be there is empty, for the
\* identifier a reply names.
LEMMA WrittenIs ==
  ASSUME NEW c \in Call, NEW id \in 0 .. IdentMod - 1, ~NoString(c)
  PROVE  Written(c, id) = Body(Named(c), id)
<1>1. CASE c.fn = "connect"
  <2>1. /\ c.conf.client_id # <<>>
        /\ HasWill(c.conf) => c.conf.will_topic # <<>> /\ c.conf.will_msg # <<>>
        /\ HasUser(c.conf) => c.conf.username # <<>>
        /\ HasPassword(c.conf) => c.conf.password # <<>>
    BY <1>1 DEF NoString, HasUser, HasPassword
  <2>2. /\ Sends(c.conf.client_id) = Utf8(c.conf.client_id)
        /\ SendsIf(HasWill(c.conf), c.conf.will_topic) = Optional(HasWill(c.conf), c.conf.will_topic)
        /\ SendsIf(HasWill(c.conf), c.conf.will_msg) = Optional(HasWill(c.conf), c.conf.will_msg)
        /\ SendsIf(HasUser(c.conf), c.conf.username) = Optional(HasUser(c.conf), c.conf.username)
        /\ SendsIf(HasPassword(c.conf), c.conf.password)
             = Optional(HasPassword(c.conf), c.conf.password)
    BY <2>1, Zenon DEF Sends, SendsIf, Optional
  <2>3. Named(c) = c
    BY <1>1, NamedIs
  <2> QED
    BY <1>1, <2>2, <2>3, Zenon DEF Written, Body
<1>2. CASE c.fn = "publish"
  <2>1. Sends(c.topic) = Utf8(c.topic)
    BY <1>2 DEF NoString, Sends
  <2>2. Named(c) = c
    BY <1>2, NamedIs
  <2> QED
    BY <1>2, <2>1, <2>2 DEF Written, Body
<1>3. CASE c.fn = "subscribe" \/ c.fn = "unsubscribe"
  <2>1. \A i \in 1 .. Len(c.topics) : Sends(c.topics[i].topic) = Utf8(c.topics[i].topic)
    BY <1>3 DEF NoString, Sends
  <2>2. /\ SubscribedTo(c.topics) = SubscribedBody(c.topics)
        /\ UnsubscribedFrom(c.topics) = UnsubscribedBody(c.topics)
    BY <2>1, Zenon DEF SubscribedTo, SubscribedBody, UnsubscribedFrom, UnsubscribedBody
  <2>3. Named(c) = c
    BY <1>3, NamedIs
  <2> QED
    BY <1>3, <2>2, <2>3 DEF Written, Body, SubscribedBody, UnsubscribedBody
<1>4. CASE c.fn \in {"puback", "pubrec"}
  <2>1. Named(c) = c
    BY <1>4, NamedIs
  <2> QED
    BY <1>4, <2>1 DEF Written, Body
<1>5. CASE c.fn \in {"pubrel", "pubcomp"}
  <2>1. /\ Named(c).fn = c.fn /\ Named(c).id = Exchanged(c.id)
        /\ IdentBytes(Exchanged(c.id)) = <<Lsb(c.id), Msb(c.id)>>
    BY <1>5, NamedIs, ReversedIdent
  <2> QED
    BY <1>5, <2>1 DEF Written, Body
<1>6. CASE c.fn = "disconnect"
  <2>1. Named(c) = c
    BY <1>6, NamedIs
  <2> QED
    BY <1>6, <2>1 DEF Written, Body
<1> QED
  BY <1>1, <1>2, <1>3, <1>4, <1>5, <1>6 DEF Call

\* With a length that its one byte can say, the packet made is MQTT's.
LEMMA MadeIs ==
  ASSUME NEW c \in Call, NEW id \in 0 .. IdentMod - 1, ~NoString(c), ~OneByteLength(c)
  PROVE  Made(c, id) = PacketOf(Named(c), id)
<1>1. Written(c, id) = Body(Named(c), id)
  BY WrittenIs
<1>2. /\ Len(Body(Named(c), id)) \in Nat /\ Len(Body(c, 0)) \in Nat
      /\ Len(Body(Named(c), id)) <= Len(Body(c, 0))
  BY <1>1, WrittenNoLonger, LenProperties DEF NoLonger
<1>3. Length(c, Len(Body(Named(c), id))) = RemainLen(Len(Body(Named(c), id)))
  <2>1. ASSUME c.fn \in HeaderFirst
        PROVE  <<Len(Body(Named(c), id)) % 256>> = RemainLen(Len(Body(Named(c), id)))
    <3>1. Len(Body(c, 0)) < LenBase /\ LenBase \in 2 .. 256
      BY <1>2, <2>1, TxAssumption DEF OneByteLength
    <3>2. Len(Body(Named(c), id)) < LenBase /\ Len(Body(Named(c), id)) < 256
      BY <1>2, <3>1
    <3>3. Len(Body(Named(c), id)) % 256 = Len(Body(Named(c), id))
      BY <1>2, <3>2, SmallDivision
    <3> QED
      BY <3>2, <3>3 DEF RemainLen
  <2> QED
    BY <2>1 DEF Length
<1> QED
  BY <1>1, <1>3, NamedIs, Zenon DEF Made, PacketOf, First

----------------------------------------------------------------------------
(* Bytes of the buffer                                                     *)

\* The bytes of a part of the buffer.
LEMMA BytesType ==
  ASSUME NEW buf \in [0 .. BufSize - 1 -> Nat], NEW i \in Nat, NEW n \in Nat, i + n <= BufSize
  PROVE  /\ Bytes(buf, i, n) \in Seq(Nat) /\ Len(Bytes(buf, i, n)) = n
         /\ \A j \in 1 .. n : Bytes(buf, i, n)[j] = buf[i + j - 1]
<1>1. BufSize \in Nat
  BY TxAssumption
<1>2. \A j \in 1 .. n : buf[i + j - 1] \in Nat
  BY <1>1
<1>3. Bytes(buf, i, n) \in [1 .. n -> Nat]
  BY <1>2 DEF Bytes
<1>4. Bytes(buf, i, n) \in Seq(Nat)
  BY <1>3, FunctionSeq
<1> QED
  BY <1>3, <1>4 DEF Bytes

\* Bytes that follow each other.
BytesJoin(buf, i, m, n) == Bytes(buf, i, m + n) = Bytes(buf, i, m) \o Bytes(buf, i + m, n)

\* The bytes of two neighbouring parts.
LEMMA BytesSplit ==
  ASSUME NEW buf \in [0 .. BufSize - 1 -> Nat], NEW i \in Nat, NEW m \in Nat, NEW n \in Nat,
         i + m + n <= BufSize
  PROVE  BytesJoin(buf, i, m, n)
<1> DEFINE a == Bytes(buf, i, m)
           b == Bytes(buf, i + m, n)
           c == Bytes(buf, i, m + n)
<1>1. m + n \in Nat /\ i + m \in Nat /\ i + (m + n) <= BufSize /\ i + m <= BufSize
      /\ (i + m) + n <= BufSize /\ BufSize \in Nat
  BY TxAssumption
<1>2. /\ a \in Seq(Nat) /\ Len(a) = m /\ \A j \in 1 .. m : a[j] = buf[i + j - 1]
      /\ b \in Seq(Nat) /\ Len(b) = n /\ \A j \in 1 .. n : b[j] = buf[(i + m) + j - 1]
      /\ c \in Seq(Nat) /\ Len(c) = m + n /\ \A j \in 1 .. m + n : c[j] = buf[i + j - 1]
  BY <1>1, BytesType, ZenonT(40)
<1> HIDE DEF a, b, c
<1>3. \A j \in 1 .. Len(a) : c[j] = a[j]
  BY <1>2, SMTT(30)
<1>4. \A j \in 1 .. Len(b) : c[Len(a) + j] = b[j]
  <2> SUFFICES ASSUME NEW j \in 1 .. n PROVE c[m + j] = b[j]
    BY <1>2
  <2>1. m + j \in 1 .. m + n /\ i + (m + j) - 1 = (i + m) + j - 1
    OBVIOUS
  <2>2. c[m + j] = buf[i + (m + j) - 1]
    BY <1>2, <2>1
  <2>3. b[j] = buf[(i + m) + j - 1]
    BY <1>2
  <2> QED
    BY <2>1, <2>2, <2>3
<1>5. c = a \o b
  BY <1>2, <1>3, <1>4, ConcatIs
<1> QED
  BY <1>5 DEF a, b, c, BytesJoin

\* Bytes that two buffers have in common.
LEMMA BytesSame ==
  ASSUME NEW a, NEW b, NEW i \in Nat, NEW n \in Nat,
         \A j \in i .. i + n - 1 : a[j] = b[j]
  PROVE  Bytes(a, i, n) = Bytes(b, i, n)
<1>1. \A j \in 1 .. n : a[i + j - 1] = b[i + j - 1]
  OBVIOUS
<1> QED
  BY <1>1 DEF Bytes

\* The bytes of an empty part, and of one of one byte.
LEMMA BytesFew ==
  ASSUME NEW buf \in [0 .. BufSize - 1 -> Nat], NEW i \in 0 .. BufSize - 1
  PROVE  Bytes(buf, i, 0) = <<>> /\ Bytes(buf, i, 1) = <<buf[i]>>
<1>1. Bytes(buf, i, 0) = <<>>
  BY DEF Bytes
<1>2. i + 1 - 1 = i /\ BufSize \in Nat /\ i \in Nat
  BY TxAssumption
<1>3. Bytes(buf, i, 1) = [j \in 1 .. 1 |-> buf[i]]
  <2>1. \A j \in 1 .. 1 : i + j - 1 = i
    BY <1>2
  <2> QED
    BY <2>1, Zenon DEF Bytes
<1>4. [j \in 1 .. 1 |-> buf[i]] = <<buf[i]>>
  OBVIOUS
<1> QED
  BY <1>1, <1>3, <1>4

\* One buffer is another with bytes x written at i.
Wrote(buf, i, x, buf2) ==
  /\ buf2 \in [0 .. BufSize - 1 -> Nat]
  /\ i + Len(x) <= BufSize /\ Bytes(buf2, i, Len(x)) = x
  /\ \A j \in 0 .. BufSize - 1 : j < i \/ j >= i + Len(x) => buf2[j] = buf[j]

\* What a write that stays in the buffer leaves.
LEMMA WriteBytes ==
  ASSUME TypeOK, NEW i \in Nat, NEW s \in Seq(Nat), Write(i, s), ~outside'
  PROVE  Wrote(tx_buf, i, s, tx_buf')
<1>1. tx_buf' \in [0 .. BufSize - 1 -> Nat] /\ i + Len(s) <= BufSize
  BY WriteType
<1>2. Len(s) \in Nat /\ BufSize \in Nat
  BY TxAssumption
<1>3. \A j \in 0 .. BufSize - 1 :
        tx_buf'[j] = IF j \in i .. i + Len(s) - 1 THEN s[j - i + 1] ELSE tx_buf[j]
  BY DEF Write
<1>4. \A j \in 0 .. BufSize - 1 : j < i \/ j >= i + Len(s) => tx_buf'[j] = tx_buf[j]
  BY <1>2, <1>3
<1> DEFINE a == Bytes(tx_buf', i, Len(s))
<1>5. /\ a \in Seq(Nat) /\ Len(a) = Len(s)
      /\ \A j \in 1 .. Len(s) : a[j] = tx_buf'[i + j - 1]
  BY <1>1, <1>2, BytesType
<1> HIDE DEF a
<1>6. \A j \in 1 .. Len(s) : a[j] = s[j]
  <2> SUFFICES ASSUME NEW j \in 1 .. Len(s) PROVE a[j] = s[j]
    OBVIOUS
  <2>1. /\ i + j - 1 \in 0 .. BufSize - 1 /\ i + j - 1 \in i .. i + Len(s) - 1
        /\ (i + j - 1) - i + 1 = j
    BY <1>1, <1>2
  <2>2. tx_buf'[i + j - 1] = s[(i + j - 1) - i + 1]
    BY <1>3, <2>1
  <2> QED
    BY <1>5, <2>1, <2>2
<1>7. a = s
  BY <1>5, <1>6, SeqEqual
<1> QED
  BY <1>1, <1>4, <1>7, Zenon DEF a, Wrote

----------------------------------------------------------------------------
(* Which statement is next                                                 *)

\* A sequence behind its first element.
LEMMA ConsIs ==
  ASSUME NEW U, NEW x \in U, NEW s \in Seq(U)
  PROVE  /\ <<x>> \o s \in Seq(U) /\ <<x>> \o s # <<>>
         /\ Head(<<x>> \o s) = x /\ Tail(<<x>> \o s) = s
<1>1. <<x>> \in Seq(U) /\ <<x>> # <<>> /\ Head(<<x>>) = x /\ Tail(<<x>>) = <<>>
  OBVIOUS
<1>2. /\ <<x>> \o s # <<>> /\ Head(<<x>> \o s) = Head(<<x>>)
      /\ Tail(<<x>> \o s) = Tail(<<x>>) \o s
  <2>1. \A f \in Seq(U) : f # <<>> =>
          f \o s # <<>> /\ Head(f \o s) = Head(f) /\ Tail(f \o s) = Tail(f) \o s
    BY HeadConcat
  <2> QED
    BY <1>1, <2>1, Zenon
<1>3. <<>> \o s = s /\ <<x>> \o s \in Seq(U)
  BY <1>1, ConcatProperties
<1> QED
  BY <1>1, <1>2, <1>3, Zenon

\* The statements before and after a call's fields, one by one.
LEMMA PartsAre ==
  ASSUME NEW c \in Call
  PROVE  /\ HeaderOps(c) \in Seq(Ops) /\ Rest(c) \in Seq(Ops) /\ After(c) \in Seq(Ops)
         /\ Fields(c) \in Seq(Ops)
         /\ Program(c) = <<Op("clear", <<>>)>>
                           \o (IF c.fn \in HeaderFirst THEN HeaderOps(c) \o Rest(c)
                               ELSE Fields(c) \o After(c))
         /\ HeaderOps(c) \o Rest(c)
              = <<Op("header", <<Hdr(c)>>)>>
                  \o (IF c.fn \in Flagged THEN <<Op("flag", <<>>)>> \o Rest(c) ELSE Rest(c))
         /\ After(c) = <<Op("length", <<>>)>>
                         \o (IF c.fn \in HeaderFirst THEN <<Op("send", <<>>)>>
                             ELSE HeaderOps(c) \o Rest(c))
<1> DEFINE x == <<Op("clear", <<>>)>>
           l == <<Op("length", <<>>)>>
           d == <<Op("send", <<>>)>>
           g == <<Op("flag", <<>>)>>
           k == <<Op("header", <<Hdr(c)>>)>>
           h == HeaderOps(c)
           f == Fields(c)
           a == After(c)
           r == Rest(c)
<1>1. /\ x \in Seq(Ops) /\ l \in Seq(Ops) /\ d \in Seq(Ops) /\ <<>> \in Seq(Ops)
      /\ h \in Seq(Ops) /\ a \in Seq(Ops) /\ f \in Seq(Ops)
  <2>1. f \in Seq(Ops)
    <3>1. 0 \in 0 .. IdentMod - 1
      BY Identifiers
    <3> QED
      BY <3>1, FieldsContent, FieldOpsAre
  <2> QED
    BY <2>1, OnePlain, PlainSeq, HeaderPlain, AroundPlain, Zenon
<1>2. g \in Seq(Ops) /\ k \in Seq(Ops)
  <2>1. Hdr(c) \in Nat
    BY HeaderPlain
  <2>2. Op("flag", <<>>) \in Ops /\ Op("header", <<Hdr(c)>>) \in Ops
    BY <2>1 DEF Op, Ops, OpName, Idents
  <2> QED
    BY <2>2
<1>3. /\ Program(c) = (x \o (IF c.fn \in HeaderFirst THEN h ELSE <<>>)) \o f \o a
      /\ h = k \o (IF c.fn \in Flagged THEN g ELSE <<>>)
      /\ a = (IF c.fn \in HeaderFirst THEN l ELSE l \o h) \o d
      /\ r = IF c.fn \in HeaderFirst THEN f \o a ELSE d
  BY ProgramIs, Zenon DEF Before, HeaderOps, After, Rest
<1> HIDE DEF x, l, d, g, k, h, f, a, r
<1>4. f \o a \in Seq(Ops) /\ x \o h \in Seq(Ops) /\ x \o <<>> = x /\ k \o <<>> = k /\ <<>> \o r = r
  <2>1. f \o a \in Seq(Ops) /\ x \o h \in Seq(Ops)
    BY <1>1, OpsConcat
  <2>2. r \in Seq(Ops)
    BY <1>1, <1>3, <2>1, Zenon
  <2> QED
    BY <1>1, <1>2, <2>1, <2>2, ConcatEmptySeq
<1>5. r \in Seq(Ops)
  BY <1>1, <1>3, <1>4, Zenon
<1>6. /\ Associated(x, h, f) /\ Associated(x \o h, f, a) /\ Associated(x, h, f \o a)
      /\ Associated(x, f, a) /\ Associated(k, g, r) /\ Associated(l, h, d)
  BY <1>1, <1>2, <1>4, <1>5, OpsAssociative
<1>7. Program(c) = x \o (IF c.fn \in HeaderFirst THEN h \o r ELSE f \o a)
  BY <1>3, <1>4, <1>6, Zenon DEF Associated
<1>8. h \o r = k \o (IF c.fn \in Flagged THEN g \o r ELSE r)
  BY <1>3, <1>4, <1>6, Zenon DEF Associated
<1>9. a = l \o (IF c.fn \in HeaderFirst THEN d ELSE h \o r)
  BY <1>3, <1>6, Zenon DEF Associated
<1> QED
  BY <1>1, <1>5, <1>7, <1>8, <1>9, Zenon DEF x, l, d, g, k, h, f, a, r

\* The statement a call executes next, by where it is.
LEMMA NextIs ==
  ASSUME NEW c \in Call, NEW id, NEW s, NEW a, NEW buf, Stage(c, id, s, a, buf)
  PROVE  \/ /\ Begun(c, s, a) /\ Head(s).op = "clear"
            /\ Tail(s) = IF c.fn \in HeaderFirst THEN HeaderOps(c) \o Rest(c)
                         ELSE Fields(c) \o After(c)
         \/ /\ ToHead(c, id, s, a, buf) /\ Head(s) = Op("header", <<Hdr(c)>>)
            /\ Tail(s) = IF c.fn \in Flagged THEN <<Op("flag", <<>>)>> \o Rest(c) ELSE Rest(c)
         \/ ToFlag(c, id, s, a, buf) /\ Head(s).op = "flag" /\ Tail(s) = Rest(c)
         \/ \E f \in Seq(BodyOps) :
              /\ f # <<>> /\ FillsWith(c, id, s, a, buf, f) /\ Head(s) = Head(f)
              /\ Head(f) \in BodyOps /\ Tail(f) \in Seq(BodyOps)
              /\ Tail(s) = Tail(f) \o After(c)
         \/ /\ FillsWith(c, id, s, a, buf, <<>>) /\ Head(s).op = "length"
            /\ Tail(s) = IF c.fn \in HeaderFirst THEN <<Op("send", <<>>)>>
                         ELSE HeaderOps(c) \o Rest(c)
         \/ Complete(c, id, s, a, buf) /\ Head(s).op = "send"
<1> DEFINE x == Op("clear", <<>>)
           l == Op("length", <<>>)
           d == Op("send", <<>>)
           g == Op("flag", <<>>)
           k == Op("header", <<Hdr(c)>>)
           h == HeaderOps(c) \o Rest(c)
           b == IF c.fn \in HeaderFirst THEN h ELSE Fields(c) \o After(c)
           e == IF c.fn \in HeaderFirst THEN <<d>> ELSE h
           y == IF c.fn \in Flagged THEN <<g>> \o Rest(c) ELSE Rest(c)
<1>1. /\ x \in Ops /\ x.op = "clear" /\ l \in Ops /\ l.op = "length"
      /\ d \in Ops /\ d.op = "send" /\ g \in Ops /\ g.op = "flag" /\ k \in Ops
  <2>1. Hdr(c) \in Nat
    BY HeaderPlain
  <2> QED
    BY <2>1 DEF Op, Ops, OpName, Idents
<1>2. /\ HeaderOps(c) \in Seq(Ops) /\ Rest(c) \in Seq(Ops) /\ After(c) \in Seq(Ops)
      /\ Fields(c) \in Seq(Ops)
      /\ Program(c) = <<x>> \o b /\ h = <<k>> \o y /\ After(c) = <<l>> \o e
  BY PartsAre
<1>3. /\ h \in Seq(Ops) /\ b \in Seq(Ops) /\ y \in Seq(Ops) /\ e \in Seq(Ops)
  <2>1. h \in Seq(Ops) /\ Fields(c) \o After(c) \in Seq(Ops)
    BY <1>2, OpsConcat
  <2>2. <<g>> \in Seq(Ops) /\ <<d>> \in Seq(Ops)
    BY <1>1
  <2>3. <<g>> \o Rest(c) \in Seq(Ops)
    BY <1>2, <2>2, OpsConcat
  <2> QED
    BY <1>2, <2>1, <2>2, <2>3, Zenon
<1>4. ASSUME NEW u \in Ops, NEW r \in Seq(Ops) PROVE Head(<<u>> \o r) = u /\ Tail(<<u>> \o r) = r
  BY ConsIs
<1>5. CASE Begun(c, s, a)
  <2>1. s = <<x>> \o b
    BY <1>2, <1>5, Zenon DEF Begun
  <2>2. Head(s) = x /\ Tail(s) = b
    BY <1>1, <1>3, <1>4, <2>1, Zenon
  <2> QED
    BY <1>1, <1>5, <2>2, Zenon
<1>6. CASE ToHead(c, id, s, a, buf)
  <2>1. s = <<k>> \o y
    BY <1>2, <1>6, Zenon DEF ToHead
  <2>2. Head(s) = k /\ Tail(s) = y
    BY <1>1, <1>3, <1>4, <2>1, Zenon
  <2> QED
    BY <1>6, <2>2, Zenon
<1>7. CASE ToFlag(c, id, s, a, buf)
  <2>1. s = <<g>> \o Rest(c)
    BY <1>7, Zenon DEF ToFlag
  <2>2. Head(s) = g /\ Tail(s) = Rest(c)
    BY <1>1, <1>2, <1>4, <2>1, Zenon
  <2> QED
    BY <1>1, <1>7, <2>2, Zenon
<1>8. CASE Filling(c, id, s, a, buf)
  <2>1. PICK f \in Seq(BodyOps) : FillsWith(c, id, s, a, buf, f)
    BY <1>8, Zenon DEF Filling
  <2>2. s = f \o After(c)
    BY <2>1, Zenon DEF FillsWith
  <2>3. CASE f = <<>>
    <3>1. <<>> \o After(c) = After(c)
      BY <1>2
    <3>2. s = <<l>> \o e
      BY <1>2, <2>2, <2>3, <3>1, Zenon
    <3>3. Head(s) = l /\ Tail(s) = e
      BY <1>1, <1>3, <1>4, <3>2, Zenon
    <3> QED
      BY <1>1, <2>1, <2>3, <3>3, Zenon
  <2>4. CASE f # <<>>
    <3>1. f \in Seq(Ops)
      BY FieldOpsAre, Zenon
    <3>2. Head(s) = Head(f) /\ Tail(s) = Tail(f) \o After(c)
      BY <1>2, <2>2, <2>4, <3>1, HeadConcat
    <3>3. Head(f) \in BodyOps /\ Tail(f) \in Seq(BodyOps)
      <4>1. \A r \in Seq(BodyOps) : r # <<>> => Head(r) \in BodyOps /\ Tail(r) \in Seq(BodyOps)
        BY TailIs
      <4> QED
        BY <2>4, <4>1, Zenon
    <3> QED
      BY <2>1, <2>4, <3>2, <3>3, Zenon
  <2> QED
    BY <2>3, <2>4
<1>9. CASE Complete(c, id, s, a, buf)
  <2>1. s = <<d>>
    BY <1>9, Zenon DEF Complete
  <2>2. Head(s) = d
    BY <1>1, <2>1
  <2> QED
    BY <1>1, <1>9, <2>2, Zenon
<1> QED
  BY <1>5, <1>6, <1>7, <1>8, <1>9, Zenon DEF Stage

----------------------------------------------------------------------------
(* From one stage to the next                                              *)

\* What a call of the model is made of.
LEMMA CallIs ==
  ASSUME NEW c \in Call, NEW id \in 0 .. IdentMod - 1
  PROVE  /\ Written(c, id) \in Seq(Nat) /\ Len(Written(c, id)) \in Nat
         /\ Hdr(c) \in Nat /\ First(c) \in Nat
         /\ Fields(c) \in Seq(BodyOps) /\ Content(Fields(c), id) = Written(c, id)
<1>1. Fields(c) \in Seq(BodyOps) /\ Content(Fields(c), id) = Written(c, id)
  BY FieldsContent
<1>2. Fields(c) \in Seq(Ops)
  BY <1>1, FieldOpsAre, Zenon
<1>3. Written(c, id) \in Seq(Nat)
  BY <1>1, <1>2, ContentType
<1>4. Hdr(c) \in Nat
  BY HeaderPlain
<1>5. First(c) \in Nat
  BY <1>4 DEF First
<1> QED
  BY <1>1, <1>3, <1>4, <1>5

\* Indices of the buffer that a call uses.
LEMMA FromIs ==
  ASSUME NEW c, NEW a \in 0 .. BufSize, a >= FirstField(c)
  PROVE  /\ a - FirstField(c) \in Nat /\ BufSize \in Nat /\ BufSize > 5
         /\ From(c, a) \in 0 .. BufSize - 1 /\ From(c, a) < FirstField(c)
         /\ c.fn \in HeaderFirst => FirstField(c) = 2 /\ From(c, a) = 0
         /\ c.fn \notin HeaderFirst =>
              /\ FirstField(c) = 5 /\ Len(RemainLen(a - FirstField(c))) \in 1 .. 2
              /\ From(c, a) = 4 - Len(RemainLen(a - FirstField(c)))
<1>1. BufSize \in Nat /\ BufSize > 5 /\ FirstField(c) \in {2, 5}
  BY TxAssumption DEF FirstField
<1> DEFINE n == a - FirstField(c)
<1>2. n \in Nat
  BY <1>1
<1> HIDE DEF n
<1>3. Len(RemainLen(n)) \in 1 .. 2 /\ RemainLen(n) \in Seq(Nat)
  BY <1>2, RemainLenType
<1>4. Start(c, n) \in Nat /\ Start(c, n) < FirstField(c) /\ Start(c, n) < BufSize
  BY <1>2, StartType
<1>5. c.fn \in HeaderFirst => FirstField(c) = 2 /\ Start(c, n) = 0
  BY DEF FirstField, Start
<1>6. c.fn \notin HeaderFirst => FirstField(c) = 5 /\ Start(c, n) = 5 - 1 - Len(RemainLen(n))
  BY DEF FirstField, Start
<1>7. From(c, a) = Start(c, n)
  BY Zenon DEF From, n
<1>8. Start(c, n) \in 0 .. BufSize - 1
  BY <1>1, <1>4
<1>9. c.fn \notin HeaderFirst => Start(c, n) = 4 - Len(RemainLen(n))
  BY <1>3, <1>6
<1> QED
  BY <1>1, <1>2, <1>3, <1>4, <1>5, <1>6, <1>7, <1>8, <1>9, Zenon DEF n

\* Clearing the buffer.
LEMMA ClearStage ==
  ASSUME NEW c \in Call, NEW id \in 0 .. IdentMod - 1, NEW buf \in [0 .. BufSize - 1 -> Nat],
         \A j \in 0 .. BufSize - 1 : buf[j] = 0, NEW a, a = FirstField(c),
         NEW r, r = IF c.fn \in HeaderFirst THEN HeaderOps(c) \o Rest(c)
                    ELSE Fields(c) \o After(c)
  PROVE  Stage(c, id, r, a, buf)
<1>1. BufSize \in Nat /\ BufSize > 5
  BY TxAssumption
<1>2. \A i \in Nat : ClearFrom(buf, i)
  BY DEF ClearFrom
<1>3. CASE c.fn \in HeaderFirst
  <2>1. a = 2 /\ ClearFrom(buf, 1)
    BY <1>2, <1>3 DEF FirstField
  <2> QED
    BY <1>3, <2>1, Zenon DEF Stage, ToHead, Ready
<1>4. CASE c.fn \notin HeaderFirst
  <2>1. a = 5 /\ FirstField(c) = 5 /\ a - FirstField(c) = 0 /\ 5 \in 0 .. BufSize - 1
    BY <1>1, <1>4 DEF FirstField
  <2>2. ClearFrom(buf, a)
    BY <1>2, <2>1
  <2>3. Bytes(buf, FirstField(c), a - FirstField(c)) = <<>>
    BY <2>1, BytesFew
  <2>4. /\ Fields(c) \in Seq(BodyOps) /\ Content(Fields(c), id) = Written(c, id)
        /\ Written(c, id) \in Seq(Nat)
    BY CallIs
  <2>5. <<>> \o Written(c, id) = Written(c, id)
    BY <2>4
  <2>6. FillsWith(c, id, r, a, buf, Fields(c))
    BY <1>4, <2>2, <2>3, <2>4, <2>5, Zenon DEF FillsWith
  <2> QED
    BY <2>4, <2>6, Zenon DEF Stage, Filling
<1> QED
  BY <1>3, <1>4

\* The first byte is the last thing the header needs.
LEMMA HeadedStage ==
  ASSUME NEW c \in Call, NEW id \in 0 .. IdentMod - 1, NEW buf \in [0 .. BufSize - 1 -> Nat],
         NEW a \in 0 .. BufSize, a >= FirstField(c),
         Ready(c, id, a, buf), buf[From(c, a)] = First(c)
  PROVE  Stage(c, id, Rest(c), a, buf)
<1>1. /\ Fields(c) \in Seq(BodyOps) /\ Content(Fields(c), id) = Written(c, id)
      /\ Written(c, id) \in Seq(Nat) /\ First(c) \in Nat /\ Len(Written(c, id)) \in Nat
  BY CallIs
<1>2. CASE c.fn \in HeaderFirst
  <2>1. FirstField(c) = 2 /\ From(c, a) = 0 /\ a = 2 /\ ClearFrom(buf, 1) /\ 2 \in 0 .. BufSize - 1
    BY <1>2, FromIs DEF Ready
  <2>2. ClearFrom(buf, a) /\ a - FirstField(c) = 0
    BY <2>1 DEF ClearFrom
  <2>3. Bytes(buf, FirstField(c), a - FirstField(c)) = <<>>
    BY <2>1, <2>2, BytesFew
  <2>4. <<>> \o Written(c, id) = Written(c, id)
    BY <1>1
  <2>5. Rest(c) = Fields(c) \o After(c)
    BY <1>2, Zenon DEF Rest
  <2>6. FillsWith(c, id, Rest(c), a, buf, Fields(c))
    BY <1>1, <2>1, <2>2, <2>3, <2>4, <2>5, Zenon DEF FillsWith
  <2> QED
    BY <1>1, <2>6, Zenon DEF Stage, Filling
<1>3. CASE c.fn \notin HeaderFirst
  <2> DEFINE i == From(c, a)
             w == Written(c, id)
             l == RemainLen(Len(w))
             m == a - i - 1
  <2>1. /\ i \in 0 .. BufSize - 1 /\ i < FirstField(c) /\ FirstField(c) = 5 /\ BufSize \in Nat
    BY <1>3, FromIs
  <2>2. Bytes(buf, i + 1, m) = l \o w
    BY <1>3, Zenon DEF Ready
  <2>3. buf[i] = First(c)
    OBVIOUS
  <2>4. l \in Seq(Nat)
    BY <1>1, RemainLenType
  <2>5. w \in Seq(Nat)
    BY <1>1
  <2>6. Rest(c) = <<Op("send", <<>>)>> /\ Length(c, Len(w)) = l
    BY <1>3, Zenon DEF Rest, Length
  <2>7. Made(c, id) = (<<First(c)>> \o l) \o w
    BY <2>6, Zenon DEF Made
  <2> HIDE DEF i, w, l
  <2>8. m \in Nat /\ i \in Nat /\ i + 1 + m <= BufSize /\ 1 + m = a - i /\ 1 \in Nat
    BY <2>1
  <2> HIDE DEF m
  <2>9. BytesJoin(buf, i, 1, m)
    BY <2>8, BytesSplit
  <2>10. Bytes(buf, i, 1) = <<First(c)>>
    BY <2>1, <2>3, BytesFew
  <2>11. Bytes(buf, i, a - i) = <<First(c)>> \o (l \o w)
    BY <2>2, <2>8, <2>9, <2>10, Zenon DEF BytesJoin
  <2>12. <<First(c)>> \in Seq(Nat)
    BY <1>1
  <2>13. Associated(<<First(c)>>, l, w)
    BY <2>4, <2>5, <2>12, Associates
  <2>14. Bytes(buf, i, a - i) = Made(c, id)
    BY <2>7, <2>11, <2>13, Zenon DEF Associated
  <2>15. Complete(c, id, Rest(c), a, buf)
    BY <2>6, <2>14, Zenon DEF Complete, i
  <2> QED
    BY <2>15, Zenon DEF Stage
<1> QED
  BY <1>2, <1>3

\* A byte written where the packet starts leaves the rest ready.
LEMMA ReadyKept ==
  ASSUME NEW c \in Call, NEW id \in 0 .. IdentMod - 1, NEW buf, NEW buf2,
         NEW a \in 0 .. BufSize, a >= FirstField(c), Ready(c, id, a, buf),
         \A j \in 0 .. BufSize - 1 : j # From(c, a) => buf2[j] = buf[j]
  PROVE  Ready(c, id, a, buf2)
<1>1. CASE c.fn \in HeaderFirst
  <2>1. a = 2 /\ ClearFrom(buf, 1) /\ From(c, a) = 0
    BY <1>1, FromIs DEF Ready
  <2>2. ClearFrom(buf2, 1)
    BY <2>1 DEF ClearFrom
  <2> QED
    BY <1>1, <2>1, <2>2 DEF Ready
<1>2. CASE c.fn \notin HeaderFirst
  <2> DEFINE i == From(c, a)
             n == a - i - 1
  <2>1. i \in 0 .. BufSize - 1 /\ i < FirstField(c) /\ FirstField(c) = 5 /\ BufSize \in Nat
    BY <1>2, FromIs
  <2>2. \A j \in 0 .. BufSize - 1 : j # i => buf2[j] = buf[j]
    OBVIOUS
  <2> HIDE DEF i
  <2>3. n \in Nat /\ i + 1 \in Nat /\ i + 1 + n = a
    BY <2>1
  <2>4. \A j \in i + 1 .. i + 1 + n - 1 : buf2[j] = buf[j]
    BY <2>1, <2>2, <2>3
  <2> HIDE DEF n
  <2>5. Bytes(buf2, i + 1, n) = Bytes(buf, i + 1, n)
    BY <2>3, <2>4, BytesSame
  <2> QED
    BY <1>2, <2>5, Zenon DEF Ready, i, n
<1> QED
  BY <1>1, <1>2

\* One byte written.
LEMMA WroteOne ==
  ASSUME NEW buf, NEW buf2, NEW i \in 0 .. BufSize - 1, NEW x \in Nat,
         Wrote(buf, i, <<x>>, buf2)
  PROVE  /\ buf2 \in [0 .. BufSize - 1 -> Nat] /\ buf2[i] = x
         /\ \A j \in 0 .. BufSize - 1 : j # i => buf2[j] = buf[j]
<1>1. BufSize \in Nat /\ Len(<<x>>) = 1
  BY TxAssumption
<1>2. /\ buf2 \in [0 .. BufSize - 1 -> Nat] /\ Bytes(buf2, i, 1) = <<x>>
      /\ \A j \in 0 .. BufSize - 1 : j < i \/ j >= i + 1 => buf2[j] = buf[j]
  BY <1>1, Zenon DEF Wrote
<1>3. Bytes(buf2, i, 1) = <<buf2[i]>>
  BY <1>2, BytesFew
<1>4. buf2[i] = x
  BY <1>2, <1>3
<1> QED
  BY <1>1, <1>2, <1>4

\* The header, and the flag the code adds to it.
LEMMA HeaderStage ==
  ASSUME NEW c \in Call, NEW id \in 0 .. IdentMod - 1, NEW buf, NEW buf2,
         NEW a \in 0 .. BufSize, a >= FirstField(c), Ready(c, id, a, buf),
         Wrote(buf, From(c, a), <<Hdr(c)>>, buf2),
         NEW r, r = IF c.fn \in Flagged THEN <<Op("flag", <<>>)>> \o Rest(c) ELSE Rest(c)
  PROVE  Stage(c, id, r, a, buf2)
<1>1. From(c, a) \in 0 .. BufSize - 1 /\ Hdr(c) \in Nat
  BY FromIs, CallIs
<1>2. /\ buf2 \in [0 .. BufSize - 1 -> Nat] /\ buf2[From(c, a)] = Hdr(c)
      /\ \A j \in 0 .. BufSize - 1 : j # From(c, a) => buf2[j] = buf[j]
  <2>1. \A i \in 0 .. BufSize - 1, x \in Nat : Wrote(buf, i, <<x>>, buf2) =>
          /\ buf2 \in [0 .. BufSize - 1 -> Nat] /\ buf2[i] = x
          /\ \A j \in 0 .. BufSize - 1 : j # i => buf2[j] = buf[j]
    BY WroteOne, ZenonT(40)
  <2> QED
    BY <1>1, <2>1, Zenon
<1>3. Ready(c, id, a, buf2)
  BY <1>2, ReadyKept
<1>4. CASE c.fn \in Flagged
  BY <1>2, <1>3, <1>4, Zenon DEF Stage, ToFlag
<1>5. CASE c.fn \notin Flagged
  <2>1. First(c) = Hdr(c)
    BY <1>1, <1>5 DEF First
  <2> QED
    BY <1>2, <1>3, <1>5, <2>1, HeadedStage
<1> QED
  BY <1>4, <1>5

\* The flag is not there before.
LEMMA FlagNew ==
  ASSUME NEW c \in Call, c.fn \in Flagged
  PROVE  (Hdr(c) \div 2) % 2 # 1 /\ First(c) = Hdr(c) + 2
<1>1. Hdr(c) \in {128, 160, 96}
  BY DEF Hdr, Type, Flagged
<1>2. First(c) = Hdr(c) + 2
  BY DEF First
<1> QED
  BY <1>1, <1>2

\* Setting the flag of a header completes its first byte.
LEMMA FlagStage ==
  ASSUME NEW c \in Call, NEW id \in 0 .. IdentMod - 1, NEW buf, NEW buf2,
         NEW a \in 0 .. BufSize, a >= FirstField(c), NEW s, ToFlag(c, id, s, a, buf),
         NEW b, b = buf[From(c, a)],
         Wrote(buf, From(c, a), <<IF (b \div 2) % 2 = 1 THEN b ELSE b + 2>>, buf2)
  PROVE  Stage(c, id, Rest(c), a, buf2)
<1>1. From(c, a) \in 0 .. BufSize - 1 /\ First(c) \in Nat
  BY FromIs, CallIs
<1>2. c.fn \in Flagged /\ Ready(c, id, a, buf) /\ b = Hdr(c)
  BY Zenon DEF ToFlag
<1>3. (IF (b \div 2) % 2 = 1 THEN b ELSE b + 2) = First(c)
  BY <1>2, FlagNew
<1>4. Wrote(buf, From(c, a), <<First(c)>>, buf2)
  BY <1>3, Zenon
<1>5. /\ buf2 \in [0 .. BufSize - 1 -> Nat] /\ buf2[From(c, a)] = First(c)
      /\ \A j \in 0 .. BufSize - 1 : j # From(c, a) => buf2[j] = buf[j]
  <2>1. \A i \in 0 .. BufSize - 1, x \in Nat : Wrote(buf, i, <<x>>, buf2) =>
          /\ buf2 \in [0 .. BufSize - 1 -> Nat] /\ buf2[i] = x
          /\ \A j \in 0 .. BufSize - 1 : j # i => buf2[j] = buf[j]
    BY WroteOne, ZenonT(40)
  <2> QED
    BY <1>1, <1>4, <2>1, Zenon
<1>6. Ready(c, id, a, buf2)
  BY <1>2, <1>5, ReadyKept
<1> QED
  BY <1>5, <1>6, HeadedStage

\* All fields are there.
LEMMA FilledIs ==
  ASSUME NEW c \in Call, NEW id \in 0 .. IdentMod - 1, NEW buf \in [0 .. BufSize - 1 -> Nat],
         NEW a \in 0 .. BufSize, a >= FirstField(c), NEW s, FillsWith(c, id, s, a, buf, <<>>)
  PROVE  /\ Written(c, id) = Bytes(buf, FirstField(c), a - FirstField(c))
         /\ Len(Written(c, id)) = a - FirstField(c)
<1> DEFINE i == FirstField(c)
           n == a - i
<1>1. n \in Nat /\ i \in Nat /\ i + n <= BufSize
  <2>1. n \in Nat /\ BufSize \in Nat
    BY FromIs
  <2> QED
    BY <2>1 DEF FirstField
<1>2. Written(c, id) = Bytes(buf, i, n) \o Content(<<>>, id)
  BY Zenon DEF FillsWith
<1> HIDE DEF i, n
<1>3. Bytes(buf, i, n) \in Seq(Nat) /\ Len(Bytes(buf, i, n)) = n
  BY <1>1, BytesType
<1>4. Content(<<>>, id) = <<>>
  BY ContentEmpty
<1>5. Written(c, id) = Bytes(buf, i, n)
  BY <1>2, <1>3, <1>4, ConcatEmptySeq, Zenon
<1> QED
  BY <1>3, <1>5, Zenon DEF i, n

\* The length in its one byte, behind the header.
LEMMA ByteLengthStage ==
  ASSUME NEW c \in Call, c.fn \in HeaderFirst, NEW id \in 0 .. IdentMod - 1,
         NEW buf \in [0 .. BufSize - 1 -> Nat], NEW buf2,
         NEW a \in 0 .. BufSize, a >= FirstField(c), NEW s, FillsWith(c, id, s, a, buf, <<>>),
         Wrote(buf, 1, <<(a - FirstField(c)) % 256>>, buf2)
  PROVE  Stage(c, id, <<Op("send", <<>>)>>, a, buf2)
<1> DEFINE w == Written(c, id)
           n == a - 2
           l == <<n % 256>>
           h == <<First(c)>>
<1>1. /\ FirstField(c) = 2 /\ n \in Nat /\ From(c, a) = 0 /\ BufSize \in Nat /\ BufSize > 5
  <2>1. FirstField(c) = 2 /\ a - FirstField(c) \in Nat /\ From(c, a) = 0
        /\ BufSize \in Nat /\ BufSize > 5
    BY FromIs
  <2> QED
    BY <2>1
<1>2. w = Bytes(buf, 2, n) /\ Len(w) = n
  <2>1. w = Bytes(buf, FirstField(c), a - FirstField(c)) /\ Len(w) = a - FirstField(c)
    BY FilledIs
  <2> QED
    BY <1>1, <2>1, Zenon
<1>3. w \in Seq(Nat) /\ First(c) \in Nat
  BY CallIs
<1>4. n % 256 \in Nat
  BY <1>1
<1>5. /\ buf2 \in [0 .. BufSize - 1 -> Nat] /\ buf2[1] = n % 256
      /\ \A j \in 0 .. BufSize - 1 : j # 1 => buf2[j] = buf[j]
  <2>1. 1 \in 0 .. BufSize - 1 /\ Wrote(buf, 1, <<n % 256>>, buf2)
    BY <1>1
  <2> HIDE DEF n
  <2>2. \A i \in 0 .. BufSize - 1, x \in Nat : Wrote(buf, i, <<x>>, buf2) =>
          /\ buf2 \in [0 .. BufSize - 1 -> Nat] /\ buf2[i] = x
          /\ \A j \in 0 .. BufSize - 1 : j # i => buf2[j] = buf[j]
    BY WroteOne, ZenonT(40)
  <2> QED
    BY <1>4, <2>1, <2>2, ZenonT(40)
<1>6. buf2[0] = First(c)
  <2>1. buf[0] = First(c)
    BY Zenon DEF FillsWith
  <2> QED
    BY <1>1, <1>5, <2>1
<1>7. a = 1 + (1 + n)
  BY <1>1
<1>8. Made(c, id) = (h \o l) \o w
  BY <1>2, Zenon DEF Made, Length
<1>9. n + 2 <= BufSize
  BY <1>1
<1> HIDE DEF w, n
<1>10. Bytes(buf2, 2, n) = w
  <2>1. \A j \in 1 .. n : 2 + j - 1 \in 0 .. BufSize - 1 /\ 2 + j - 1 # 1
    BY <1>1, <1>9
  <2>2. \A j \in 1 .. n : buf2[2 + j - 1] = buf[2 + j - 1]
    BY <1>5, <2>1, Zenon
  <2> QED
    BY <1>2, <2>2, Zenon DEF Bytes
<1>11. Bytes(buf2, 0, 1) = h /\ Bytes(buf2, 1, 1) = l
  <2>1. 0 \in 0 .. BufSize - 1 /\ 1 \in 0 .. BufSize - 1
    BY <1>1
  <2>2. Bytes(buf2, 0, 1) = <<buf2[0]>> /\ Bytes(buf2, 1, 1) = <<buf2[1]>>
    BY <1>5, <2>1, BytesFew
  <2> QED
    BY <1>5, <1>6, <2>2, Zenon
<1>12. Bytes(buf2, 0, 1 + (1 + n)) = h \o (l \o w)
  <2>1. BytesJoin(buf2, 0, 1, 1 + n) /\ BytesJoin(buf2, 1, 1, n)
    <3>1. \A i, j, m \in Nat : i + j + m <= BufSize => BytesJoin(buf2, i, j, m)
      BY <1>5, BytesSplit
    <3>2. 0 \in Nat /\ 1 \in Nat /\ n \in Nat /\ 1 + n \in Nat
          /\ 0 + 1 + (1 + n) <= BufSize /\ 1 + 1 + n <= BufSize
      BY <1>1, <1>9
    <3> QED
      BY <3>1, <3>2, Zenon
  <2>2. 0 + 1 = 1 /\ 1 + 1 = 2
    OBVIOUS
  <2> QED
    BY <1>10, <1>11, <2>1, <2>2, ZenonT(40) DEF BytesJoin
<1>13. h \in Seq(Nat) /\ l \in Seq(Nat)
  BY <1>3, <1>4
<1>14. Associated(h, l, w)
  BY <1>3, <1>13, Associates
<1>15. a - 0 = a
  OBVIOUS
<1>16. Bytes(buf2, From(c, a), a - From(c, a)) = Made(c, id)
  BY <1>1, <1>7, <1>8, <1>12, <1>14, <1>15, ZenonT(40) DEF Associated
<1> QED
  BY <1>16, Zenon DEF Stage, Complete

\* The length before the first field.
LEMMA RemainLengthStage ==
  ASSUME NEW c \in Call, c.fn \notin HeaderFirst, NEW id \in 0 .. IdentMod - 1,
         NEW buf \in [0 .. BufSize - 1 -> Nat], NEW buf2,
         NEW a \in 0 .. BufSize, a >= FirstField(c), NEW s, FillsWith(c, id, s, a, buf, <<>>),
         NEW l, l = RemainLen(a - FirstField(c)), Wrote(buf, FirstField(c) - Len(l), l, buf2)
  PROVE  Stage(c, id, HeaderOps(c) \o Rest(c), a, buf2)
<1> DEFINE w == Written(c, id)
           n == a - 5
           k == Len(l)
           i == 5 - k
<1>1. FirstField(c) = 5 /\ From(c, a) = 4 - k /\ k \in 1 .. 2 /\ BufSize \in Nat
  BY FromIs
<1>2. w = Bytes(buf, 5, n) /\ Len(w) = n /\ l = RemainLen(n)
  <2>1. w = Bytes(buf, FirstField(c), a - FirstField(c)) /\ Len(w) = a - FirstField(c)
    BY FilledIs
  <2> QED
    BY <1>1, <2>1, Zenon
<1>3. n \in Nat /\ i \in Nat /\ i + k = 5 /\ 5 + n = a /\ From(c, a) + 1 = i
      /\ a - From(c, a) - 1 = k + n /\ i + k + n <= BufSize
  <2> HIDE DEF k
  <2>1. a >= 5 /\ a <= BufSize /\ a \in Nat
    BY <1>1
  <2>2. n \in Nat /\ 5 + n = a
    BY <2>1
  <2>3. i \in Nat /\ i + k = 5
    BY <1>1
  <2>4. From(c, a) + 1 = i /\ a - From(c, a) - 1 = k + n
    BY <1>1, <2>1
  <2>5. i + k + n <= BufSize
    BY <1>1, <2>1
  <2> QED
    BY <2>2, <2>3, <2>4, <2>5
<1>4. /\ buf2 \in [0 .. BufSize - 1 -> Nat] /\ Bytes(buf2, i, k) = l
      /\ \A j \in 0 .. BufSize - 1 : j < i \/ j >= i + k => buf2[j] = buf[j]
  BY <1>1, Zenon DEF Wrote
<1> HIDE DEF w, n, k, i
<1>5. Bytes(buf2, 5, n) = w
  <2>1. \A j \in 1 .. n : 5 + j - 1 \in 0 .. BufSize - 1 /\ 5 + j - 1 >= i + k
    BY <1>1, <1>3
  <2>2. \A j \in 1 .. n : buf2[5 + j - 1] = buf[5 + j - 1]
    BY <1>4, <2>1, Zenon
  <2> QED
    BY <1>2, <2>2, Zenon DEF Bytes
<1>6. k \in Nat
  BY <1>1
<1>7. BytesJoin(buf2, i, k, n)
  BY <1>3, <1>4, <1>6, BytesSplit
<1>8. Bytes(buf2, i, k + n) = l \o w
  BY <1>3, <1>4, <1>5, <1>7, Zenon DEF BytesJoin
<1>9. a - FirstField(c) = Len(w)
  BY <1>1, <1>2, <1>3
<1>10. Ready(c, id, a, buf2)
  BY <1>2, <1>3, <1>8, <1>9, Zenon DEF Ready, w
<1> QED
  BY <1>10, Zenon DEF Stage, ToHead

\* The bytes of the next field.
LEMMA NextField ==
  ASSUME NEW c \in Call, NEW id \in 0 .. IdentMod - 1, NEW buf \in [0 .. BufSize - 1 -> Nat],
         NEW a \in 0 .. BufSize, a >= FirstField(c), NEW s,
         NEW f \in Seq(BodyOps), f # <<>>, FillsWith(c, id, s, a, buf, f)
  PROVE  /\ Gives(Head(f), id) \in Seq(Nat)
         /\ Written(c, id) = Bytes(buf, FirstField(c), a - FirstField(c))
                               \o (Gives(Head(f), id) \o Content(Tail(f), id))
         /\ a + Len(Gives(Head(f), id)) <= FirstField(c) + Len(Written(c, id))
         /\ Content(Tail(f), id) \in Seq(Nat)
<1> DEFINE b == Bytes(buf, FirstField(c), a - FirstField(c))
           x == Gives(Head(f), id)
           y == Content(Tail(f), id)
<1>1. f \in Seq(Ops)
  BY FieldOpsAre, Zenon
<1>2. Content(f, id) = x \o y /\ x \in Seq(Nat) /\ y \in Seq(Nat)
  BY <1>1, ContentFirst
<1>3. a - FirstField(c) \in Nat /\ FirstField(c) \in Nat /\ BufSize \in Nat
  BY FromIs DEF FirstField
<1>4. b \in Seq(Nat) /\ Len(b) = a - FirstField(c)
  <2>1. \A i, n \in Nat : i + n <= BufSize =>
          Bytes(buf, i, n) \in Seq(Nat) /\ Len(Bytes(buf, i, n)) = n
    BY BytesType
  <2>2. FirstField(c) + (a - FirstField(c)) <= BufSize
    BY <1>3
  <2> QED
    BY <1>3, <2>1, <2>2, Zenon
<1>5. Written(c, id) = b \o Content(f, id)
  BY Zenon DEF FillsWith
<1> HIDE DEF b, x, y
<1>6. Written(c, id) = b \o (x \o y)
  BY <1>2, <1>5, Zenon
<1>7. /\ Len(b \o (x \o y)) = Len(b) + (Len(x) + Len(y)) /\ Len(x) \in Nat /\ Len(y) \in Nat
  <2>1. x \o y \in Seq(Nat) /\ Len(x \o y) = Len(x) + Len(y)
    BY <1>2, ConcatProperties
  <2>2. Len(b \o (x \o y)) = Len(b) + Len(x \o y)
    BY <1>4, <2>1, ConcatProperties
  <2>3. Len(x) \in Nat /\ Len(y) \in Nat
    BY <1>2, LenProperties
  <2> QED
    BY <2>1, <2>2, <2>3, Zenon
<1>8. a + Len(x) <= FirstField(c) + Len(Written(c, id))
  BY <1>3, <1>4, <1>6, <1>7
<1> QED
  BY <1>2, <1>6, <1>8, Zenon DEF b, x, y

\* A call that fits puts every field within the buffer.
LEMMA FieldFits ==
  ASSUME NEW c \in Call, NEW id \in 0 .. IdentMod - 1, NEW buf \in [0 .. BufSize - 1 -> Nat],
         NEW a \in 0 .. BufSize, a >= FirstField(c), NEW s,
         NEW f \in Seq(BodyOps), f # <<>>, FillsWith(c, id, s, a, buf, f), Fits(c)
  PROVE  a + Len(Gives(Head(f), id)) <= BufSize
<1> DEFINE m == Len(Gives(Head(f), id))
           n == Len(Written(c, id))
           k == Len(Body(c, 0))
<1>1. Gives(Head(f), id) \in Seq(Nat) /\ a + m <= FirstField(c) + n
  BY NextField
<1>2. Written(c, id) \in Seq(Nat) /\ Body(c, 0) \in Seq(Nat) /\ n <= k
  BY WrittenNoLonger, Zenon DEF NoLonger
<1>3. FirstField(c) + k <= BufSize
  BY Zenon DEF Fits, FirstField
<1>4. m \in Nat /\ n \in Nat /\ k \in Nat /\ FirstField(c) \in Nat /\ BufSize \in Nat
  BY <1>1, <1>2, TxAssumption DEF FirstField
<1> HIDE DEF m, n, k
<1>5. a + m <= BufSize
  BY <1>1, <1>2, <1>3, <1>4
<1> QED
  BY <1>5 DEF m

\* A field.
LEMMA FieldStage ==
  ASSUME NEW c \in Call, NEW id \in 0 .. IdentMod - 1,
         NEW buf \in [0 .. BufSize - 1 -> Nat], NEW buf2,
         NEW a \in 0 .. BufSize, a >= FirstField(c), NEW s,
         NEW f \in Seq(BodyOps), f # <<>>, FillsWith(c, id, s, a, buf, f),
         Tail(f) \in Seq(BodyOps), NEW x, x = Gives(Head(f), id), Wrote(buf, a, x, buf2),
         NEW r, r = Tail(f) \o After(c)
  PROVE  Stage(c, id, r, a + Len(x), buf2)
<1> DEFINE i == FirstField(c)
           n == a - i
           y == Content(Tail(f), id)
           b == Bytes(buf, i, n)
           k == Len(x)
<1>1. x \in Seq(Nat) /\ Written(c, id) = b \o (x \o y) /\ y \in Seq(Nat)
  BY NextField
<1>2. /\ n \in Nat /\ i \in Nat /\ i # 0 /\ BufSize \in Nat /\ i + n = a /\ k \in Nat
      /\ (a + k) - i = n + k
  <2>1. n \in Nat /\ BufSize \in Nat
    BY FromIs
  <2>2. i \in Nat /\ i # 0
    BY DEF FirstField
  <2>3. k \in Nat
    BY <1>1, LenProperties
  <2> HIDE DEF i, k
  <2> QED
    BY <2>1, <2>2, <2>3
<1>3. /\ ClearFrom(buf, a) /\ (c.fn \in HeaderFirst => buf[0] = First(c))
  BY Zenon DEF FillsWith
<1>4. /\ buf2 \in [0 .. BufSize - 1 -> Nat] /\ Bytes(buf2, a, k) = x /\ a + k <= BufSize
      /\ \A j \in 0 .. BufSize - 1 : j < a \/ j >= a + k => buf2[j] = buf[j]
  BY Zenon DEF Wrote
<1> HIDE DEF i, n, y, b, k
<1>5. ClearFrom(buf2, a + k)
  BY <1>2, <1>3, <1>4 DEF ClearFrom
<1>6. c.fn \in HeaderFirst => buf2[0] = First(c)
  <2>1. 0 \in 0 .. BufSize - 1 /\ 0 < a
    BY <1>2, TxAssumption
  <2> QED
    BY <1>3, <1>4, <2>1
<1>7. Bytes(buf2, i, n) = b
  <2>1. \A j \in i .. i + n - 1 : buf2[j] = buf[j]
    BY <1>2, <1>4
  <2> QED
    BY <1>2, <2>1, BytesSame DEF b
<1>8. BytesJoin(buf2, i, n, k)
  BY <1>2, <1>4, BytesSplit
<1>9. Bytes(buf2, i, (a + k) - i) = b \o x
  BY <1>2, <1>4, <1>7, <1>8, Zenon DEF BytesJoin
<1>10. b \in Seq(Nat)
  <2>1. \A g \in [0 .. BufSize - 1 -> Nat], j, m \in Nat :
          j + m <= BufSize => Bytes(g, j, m) \in Seq(Nat)
    BY BytesType
  <2>2. i + n <= BufSize
    BY <1>2
  <2> QED
    BY <1>2, <2>1, <2>2, Zenon DEF b
<1>11. Associated(b, x, y)
  BY <1>1, <1>10, Associates
<1>12. Written(c, id) = Bytes(buf2, i, (a + k) - i) \o y
  BY <1>1, <1>9, <1>11, Zenon DEF Associated
<1>13. FillsWith(c, id, r, a + k, buf2, Tail(f))
  BY <1>5, <1>6, <1>12, Zenon DEF FillsWith, i, y
<1> QED
  BY <1>13, Zenon DEF Stage, Filling, k

----------------------------------------------------------------------------
(* What a statement of a call that is alone does                           *)

BodyNames == {"measure", "copy", "put"} \cup Idents

\* Next is a statement of the fields.
TakesField(c, id, s, a, buf) ==
  \E f \in Seq(BodyOps) :
    /\ f # <<>> /\ FillsWith(c, id, s, a, buf, f) /\ Head(s) = Head(f)
    /\ Tail(f) \in Seq(BodyOps) /\ Tail(s) = Tail(f) \o After(c)

\* A statement that puts a field is one of those the fields are made of, and the
\* others have each their place.
LEMMA NextFor ==
  ASSUME NEW c \in Call, NEW id, NEW s, NEW a, NEW buf, Stage(c, id, s, a, buf)
  PROVE  /\ Head(s).op \in BodyNames => TakesField(c, id, s, a, buf)
         /\ Head(s).op = "clear" =>
              /\ a = FirstField(c)
              /\ Tail(s) = IF c.fn \in HeaderFirst THEN HeaderOps(c) \o Rest(c)
                           ELSE Fields(c) \o After(c)
         /\ Head(s).op = "header" =>
              /\ Ready(c, id, a, buf) /\ Head(s).bytes = <<Hdr(c)>>
              /\ Tail(s) = IF c.fn \in Flagged THEN <<Op("flag", <<>>)>> \o Rest(c) ELSE Rest(c)
         /\ Head(s).op = "flag" => ToFlag(c, id, s, a, buf) /\ Tail(s) = Rest(c)
         /\ Head(s).op = "length" =>
              /\ FillsWith(c, id, s, a, buf, <<>>)
              /\ Tail(s) = IF c.fn \in HeaderFirst THEN <<Op("send", <<>>)>>
                           ELSE HeaderOps(c) \o Rest(c)
         /\ Head(s).op = "send" =>
              Bytes(buf, From(c, a), a - From(c, a)) = Made(c, id)
<1>1. /\ \A o \in BodyOps : o.op \in BodyNames
      /\ Op("header", <<Hdr(c)>>).op = "header" /\ Op("header", <<Hdr(c)>>).bytes = <<Hdr(c)>>
  BY DEF BodyOps, BodyNames, Op
<1>2. /\ "clear" \notin BodyNames /\ "header" \notin BodyNames /\ "flag" \notin BodyNames
      /\ "length" \notin BodyNames /\ "send" \notin BodyNames
  BY DEF BodyNames, Idents
<1> DEFINE o == Head(s).op
           C1 == /\ Begun(c, s, a) /\ o = "clear"
                 /\ Tail(s) = IF c.fn \in HeaderFirst THEN HeaderOps(c) \o Rest(c)
                              ELSE Fields(c) \o After(c)
           C2 == /\ ToHead(c, id, s, a, buf) /\ Head(s) = Op("header", <<Hdr(c)>>)
                 /\ Tail(s) = IF c.fn \in Flagged THEN <<Op("flag", <<>>)>> \o Rest(c)
                              ELSE Rest(c)
           C3 == ToFlag(c, id, s, a, buf) /\ o = "flag" /\ Tail(s) = Rest(c)
           C4 == \E f \in Seq(BodyOps) :
                   /\ f # <<>> /\ FillsWith(c, id, s, a, buf, f) /\ Head(s) = Head(f)
                   /\ Head(f) \in BodyOps /\ Tail(f) \in Seq(BodyOps)
                   /\ Tail(s) = Tail(f) \o After(c)
           C5 == /\ FillsWith(c, id, s, a, buf, <<>>) /\ o = "length"
                 /\ Tail(s) = IF c.fn \in HeaderFirst THEN <<Op("send", <<>>)>>
                              ELSE HeaderOps(c) \o Rest(c)
           C6 == Complete(c, id, s, a, buf) /\ o = "send"
<1>3. C1 \/ C2 \/ C3 \/ C4 \/ C5 \/ C6
  BY NextIs
<1>4. /\ C1 => o = "clear" /\ a = FirstField(c)
      /\ C2 => o = "header" /\ Head(s).bytes = <<Hdr(c)>> /\ Ready(c, id, a, buf)
      /\ C3 => o = "flag"
      /\ C4 => o \in BodyNames
      /\ C5 => o = "length"
      /\ C6 => o = "send" /\ Bytes(buf, From(c, a), a - From(c, a)) = Made(c, id)
  <2>1. C1 => a = FirstField(c)
    BY DEF Begun
  <2>2. C2 => o = "header" /\ Head(s).bytes = <<Hdr(c)>> /\ Ready(c, id, a, buf)
    BY <1>1, Zenon DEF ToHead
  <2>3. C4 => o \in BodyNames
    BY <1>1, Zenon
  <2>4. C6 => Bytes(buf, From(c, a), a - From(c, a)) = Made(c, id)
    BY Zenon DEF Complete
  <2> QED
    BY <2>1, <2>2, <2>3, <2>4, Zenon
<1> HIDE DEF C1, C2, C3, C4, C5, C6
<1>5. /\ o \in BodyNames => C4
      /\ o = "clear" => C1 /\ a = FirstField(c)
      /\ o = "header" => C2 /\ Head(s).bytes = <<Hdr(c)>> /\ Ready(c, id, a, buf)
      /\ o = "flag" => C3
      /\ o = "length" => C5
      /\ o = "send" => Bytes(buf, From(c, a), a - From(c, a)) = Made(c, id)
  <2> HIDE DEF o
  <2> QED
    BY <1>2, <1>3, <1>4
<1> QED
  BY <1>5, Zenon DEF C1, C2, C3, C4, C5, TakesField

\* The thread that executes a statement, and the buffer it finds.
LEMMA Setting ==
  ASSUME TypeOK, Programs, NEW t \in Thread, NEW o, Does(t, o)
  PROVE  /\ call[t] \in Call /\ ident0[t] \in 0 .. IdentMod - 1
         /\ at[t] \in 0 .. BufSize /\ at[t] >= FirstField(call[t])
         /\ tx_buf \in [0 .. BufSize - 1 -> Nat]
         /\ todo'[t] = Tail(todo[t]) /\ Now(t) = Head(todo[t]) /\ Head(todo[t]).op = o
         /\ Now(t) \in Ops /\ ~outside /\ Busy(t)
         /\ Start(call[t], PktLen(t)) = From(call[t], at[t])
<1>1. call[t] \in Call /\ at[t] >= FirstField(call[t]) /\ ~outside /\ Now(t) \in Ops
      /\ Now(t).op = o /\ Busy(t)
  BY DoesStep
<1>2. at[t] \in 0 .. BufSize
  BY StatementType
<1>3. todo'[t] = Tail(todo[t])
  BY DEF Does, Programs
<1>4. tx_buf \in [0 .. BufSize - 1 -> Nat] /\ ident0[t] \in 0 .. IdentMod - 1
  BY DEF TypeOK
<1>5. Start(call[t], PktLen(t)) = From(call[t], at[t])
  BY Zenon DEF From, PktLen
<1> QED
  BY <1>1, <1>2, <1>3, <1>4, <1>5, Zenon DEF Now

\* Whether a write leaves the buffer.
LEMMA WriteOutside ==
  ASSUME NEW i \in Nat, NEW s \in Seq(Nat), Write(i, s)
  PROVE  i + Len(s) <= BufSize => ~outside'
<1>1. Len(s) \in Nat /\ BufSize \in Nat
  BY TxAssumption
<1>2. outside' => i + Len(s) > BufSize
  BY Zenon DEF Write
<1>3. i + Len(s) <= BufSize => ~(i + Len(s) > BufSize)
  BY <1>1
<1> QED
  BY <1>2, <1>3, Zenon

\* A field: its bytes go to where the thread is.
FieldWritten(t, x) ==
  /\ at'[t] = at[t] + Len(x)
  /\ outside' \/ Wrote(tx_buf, at[t], x, tx_buf')
  /\ at[t] + Len(x) <= BufSize => ~outside'

\* A statement that writes bytes writes a field.
LEMMA WriteField ==
  ASSUME TypeOK, Programs, NEW t \in Thread, NEW o, Does(t, o), NEW x \in Seq(Nat),
         Write(at[t], x), at' = [at EXCEPT ![t] = @ + Len(x)]
  PROVE  FieldWritten(t, x)
<1>1. at[t] \in Nat /\ at \in [Thread -> 0 .. BufSize]
  <2>1. at \in [Thread -> 0 .. BufSize]
    BY StatementType
  <2> QED
    BY <2>1
<1>2. at'[t] = at[t] + Len(x)
  BY <1>1
<1>3. ASSUME ~outside' PROVE Wrote(tx_buf, at[t], x, tx_buf')
  BY <1>1, <1>3, WriteBytes
<1>4. at[t] + Len(x) <= BufSize => ~outside'
  BY <1>1, WriteOutside
<1> QED
  BY <1>2, <1>3, <1>4, Zenon DEF FieldWritten

\* A statement that writes nothing writes an empty field.
LEMMA WriteNothing ==
  ASSUME TypeOK, Programs, NEW t \in Thread, NEW o, Does(t, o),
         tx_buf' = tx_buf, at' = at, outside' = outside
  PROVE  FieldWritten(t, <<>>)
<1>1. at[t] \in 0 .. BufSize /\ ~outside /\ tx_buf \in [0 .. BufSize - 1 -> Nat]
  BY Setting
<1>2. at[t] + 0 = at[t] /\ Len(<<>>) = 0 /\ at[t] + 0 <= BufSize
  BY <1>1, TxAssumption
<1>3. Bytes(tx_buf, at[t], 0) = <<>>
  BY DEF Bytes
<1>4. Wrote(tx_buf, at[t], <<>>, tx_buf)
  BY <1>1, <1>2, <1>3, Zenon DEF Wrote
<1> QED
  BY <1>1, <1>2, <1>4, Zenon DEF FieldWritten

\* The statements of a field.
FieldStatement(t) ==
  Measure(t) \/ Copy(t) \/ Put(t) \/ PutMsb(t) \/ PutLsb(t) \/ FetchIdent(t) \/ StoreIdent(t)

\* Every statement of a body writes what it gives.
LEMMA FieldWrites ==
  ASSUME TypeOK, Programs, NoGap, OwnIdent, NEW t \in Thread, alone[t], FieldStatement(t)
  PROVE  /\ \E o \in BodyNames : Does(t, o)
         /\ FieldWritten(t, Gives(Now(t), ident0[t]))
         /\ UNCHANGED <<call, ident0, alone>>
<1>n. /\ "measure" \in BodyNames /\ "copy" \in BodyNames /\ "put" \in BodyNames
      /\ "msb" \in BodyNames /\ "lsb" \in BodyNames /\ "fetch" \in BodyNames
      /\ "store" \in BodyNames
  BY DEF BodyNames, Idents
<1>b. ASSUME NEW o, Does(t, o)
      PROVE  /\ Now(t).op = o /\ Now(t).bytes \in Seq(Nat) /\ Busy(t)
             /\ at[t] \in Nat /\ gap[t] = 0 /\ at[t] + gap[t] = at[t]
  <2>1. Now(t).op = o /\ Now(t).bytes \in Seq(Nat) /\ Busy(t) /\ at[t] \in 0 .. BufSize
    BY <1>b, Setting, StatementType
  <2>2. gap[t] = 0
    BY <2>1 DEF NoGap
  <2> QED
    BY <2>1, <2>2
<1>i. ASSUME NEW o \in {"msb", "lsb"}, Does(t, o)
      PROVE  packet_ident = ident0[t] /\ Msb(ident0[t]) \in Nat /\ Lsb(ident0[t]) \in Nat
  <2>1. HasOp(todo[t], o) /\ Busy(t)
    BY <1>i, DoesStep DEF Idents
  <2>2. packet_ident = ident0[t] /\ ident0[t] \in 0 .. IdentMod - 1
    BY <2>1 DEF OwnIdent, TypeOK
  <2> QED
    BY <2>2, Identifiers
<1>1. CASE Measure(t)
  <2>1. Does(t, "measure") /\ tx_buf' = tx_buf /\ at' = at /\ outside' = outside
        /\ UNCHANGED <<call, ident0, alone>>
    BY <1>1 DEF Measure, shared, history
  <2>2. Gives(Now(t), ident0[t]) = <<>>
    BY <1>b, <2>1 DEF Gives
  <2> QED
    BY <1>n, <2>1, <2>2, WriteNothing, Zenon
<1>2. CASE FetchIdent(t)
  <2>1. Does(t, "fetch") /\ tx_buf' = tx_buf /\ at' = at /\ outside' = outside
        /\ UNCHANGED <<call, ident0, alone>>
    BY <1>2 DEF FetchIdent, shared, history
  <2>2. Gives(Now(t), ident0[t]) = <<>>
    BY <1>b, <2>1 DEF Gives
  <2> QED
    BY <1>n, <2>1, <2>2, WriteNothing, Zenon
<1>3. CASE StoreIdent(t)
  <2>1. Does(t, "store") /\ tx_buf' = tx_buf /\ at' = at /\ outside' = outside
        /\ UNCHANGED <<call, ident0, alone>>
    BY <1>3 DEF StoreIdent, cursor, history
  <2>2. Gives(Now(t), ident0[t]) = <<>>
    BY <1>b, <2>1 DEF Gives
  <2> QED
    BY <1>n, <2>1, <2>2, WriteNothing, Zenon
<1>4. CASE Copy(t)
  <2> DEFINE x == Now(t).bytes
  <2>1. Does(t, "copy") /\ Write(at[t] + gap[t], x) /\ at' = [at EXCEPT ![t] = @ + Len(x)]
        /\ UNCHANGED <<call, ident0, alone>>
    BY <1>4, Zenon DEF Copy, history
  <2>2. Gives(Now(t), ident0[t]) = x /\ x \in Seq(Nat)
    BY <1>b, <2>1 DEF Gives
  <2>3. Write(at[t], x)
    BY <1>b, <2>1, Zenon
  <2> HIDE DEF x
  <2>4. FieldWritten(t, x)
    BY <2>1, <2>2, <2>3, WriteField
  <2> QED
    BY <1>n, <2>1, <2>2, <2>4, Zenon
<1>5. CASE Put(t)
  <2> DEFINE x == Now(t).bytes
  <2>1. Does(t, "put") /\ Write(at[t], x) /\ at' = [at EXCEPT ![t] = @ + Len(x)]
        /\ UNCHANGED <<call, ident0, alone>>
    BY <1>5, Zenon DEF Put, history
  <2>2. Gives(Now(t), ident0[t]) = x /\ x \in Seq(Nat)
    BY <1>b, <2>1 DEF Gives
  <2> HIDE DEF x
  <2>3. FieldWritten(t, x)
    BY <2>1, <2>2, WriteField
  <2> QED
    BY <1>n, <2>1, <2>2, <2>3, Zenon
<1>6. ASSUME NEW b, NEW o \in {"msb", "lsb"}, Does(t, o), PutIdentByte(t, b), b \in Nat,
             Gives(Now(t), ident0[t]) = <<b>>
      PROVE  FieldWritten(t, Gives(Now(t), ident0[t])) /\ UNCHANGED <<call, ident0, alone>>
  <2>1. Write(at[t], <<b>>) /\ at' = [at EXCEPT ![t] = @ + 1] /\ UNCHANGED <<call, ident0, alone>>
    BY <1>6, Zenon DEF PutIdentByte, history
  <2>2. <<b>> \in Seq(Nat) /\ Len(<<b>>) = 1
    BY <1>6
  <2>3. at' = [at EXCEPT ![t] = @ + Len(<<b>>)]
    BY <2>1, <2>2, Zenon
  <2>4. FieldWritten(t, <<b>>)
    BY <1>6, <2>1, <2>2, <2>3, WriteField
  <2> QED
    BY <1>6, <2>1, <2>4, Zenon
<1>7. CASE PutMsb(t)
  <2>1. Does(t, "msb") /\ PutIdentByte(t, Msb(packet_ident))
    BY <1>7, Zenon DEF PutMsb
  <2>2. packet_ident = ident0[t] /\ Msb(ident0[t]) \in Nat
    BY <1>i, <2>1
  <2>3. Gives(Now(t), ident0[t]) = <<Msb(ident0[t])>>
    BY <1>b, <2>1 DEF Gives
  <2>4. "msb" \in {"msb", "lsb"}
    OBVIOUS
  <2> QED
    BY <1>6, <1>n, <2>1, <2>2, <2>3, <2>4, Zenon
<1>8. CASE PutLsb(t)
  <2>1. Does(t, "lsb") /\ PutIdentByte(t, Lsb(packet_ident))
    BY <1>8, Zenon DEF PutLsb
  <2>2. packet_ident = ident0[t] /\ Lsb(ident0[t]) \in Nat
    BY <1>i, <2>1
  <2>3. Gives(Now(t), ident0[t]) = <<Lsb(ident0[t])>>
    BY <1>b, <2>1 DEF Gives
  <2>4. "lsb" \in {"msb", "lsb"}
    OBVIOUS
  <2> QED
    BY <1>6, <1>n, <2>1, <2>2, <2>3, <2>4, Zenon
<1> QED
  BY <1>1, <1>2, <1>3, <1>4, <1>5, <1>7, <1>8, Zenon DEF FieldStatement

StageNow(t) == Stage(call[t], ident0[t], todo[t], at[t], tx_buf)

\* Each kind of statement takes a call that is alone to its next stage, and a call
\* that fits stays within the buffer.
LEMMA FieldMoves ==
  ASSUME TypeOK, Programs, NoGap, OwnIdent, NEW t \in Thread, alone[t], StageNow(t),
         FieldStatement(t)
  PROVE  (outside' \/ StageNow(t)') /\ (Fits(call[t]) => ~outside')
<1> DEFINE c == call[t]
           id == ident0[t]
           s == todo[t]
           a == at[t]
           x == Gives(Now(t), id)
<1>1. PICK o \in BodyNames : Does(t, o)
  BY FieldWrites
<1>2. /\ at'[t] = a + Len(x) /\ (outside' \/ Wrote(tx_buf, a, x, tx_buf'))
      /\ (a + Len(x) <= BufSize => ~outside')
      /\ call'[t] = c /\ ident0'[t] = id
  BY FieldWrites, Zenon DEF FieldWritten
<1>3. /\ c \in Call /\ id \in 0 .. IdentMod - 1 /\ a \in 0 .. BufSize /\ a >= FirstField(c)
      /\ tx_buf \in [0 .. BufSize - 1 -> Nat]
      /\ todo'[t] = Tail(s) /\ Now(t) = Head(s) /\ Head(s).op = o
  BY <1>1, Setting
<1>4. Stage(c, id, s, a, tx_buf)
  BY Zenon DEF StageNow
<1> HIDE DEF c, id, s, a
<1>5. PICK f \in Seq(BodyOps) :
        /\ f # <<>> /\ FillsWith(c, id, s, a, tx_buf, f) /\ Head(s) = Head(f)
        /\ Tail(f) \in Seq(BodyOps) /\ Tail(s) = Tail(f) \o After(c)
  <2>1. Head(s).op \in BodyNames
    BY <1>3, Zenon
  <2>2. c \in Call /\ Stage(c, id, s, a, tx_buf)
    BY <1>3, <1>4
  <2>3. TakesField(c, id, s, a, tx_buf)
    BY <2>1, <2>2, NextFor
  <2> QED
    BY <2>3, Zenon DEF TakesField
<1>6. x = Gives(Head(f), id)
  BY <1>3, <1>5, Zenon
<1> HIDE DEF x
<1>7. ASSUME Fits(c) PROVE ~outside'
  <2>1. a + Len(Gives(Head(f), id)) <= BufSize
    BY <1>3, <1>5, <1>7, FieldFits
  <2> QED
    BY <1>2, <1>6, <2>1, Zenon
<1>8. ASSUME ~outside' PROVE StageNow(t)'
  <2>1. Wrote(tx_buf, a, x, tx_buf')
    BY <1>2, <1>8, Zenon
  <2>2. Stage(c, id, Tail(s), a + Len(x), tx_buf')
    BY <1>3, <1>5, <1>6, <2>1, FieldStage
  <2> QED
    BY <1>2, <1>3, <2>2, Zenon DEF StageNow
<1> QED
  BY <1>7, <1>8, Zenon DEF c

\* Clearing the buffer takes a call to its next stage.
LEMMA ClearMoves ==
  ASSUME TypeOK, Programs, NEW t \in Thread, StageNow(t), Clear(t)
  PROVE  StageNow(t)' /\ ~outside'
<1> DEFINE c == call[t]
           id == ident0[t]
           s == todo[t]
           a == at[t]
<1>1. Does(t, "clear") /\ tx_buf' = Cleared /\ UNCHANGED <<call, ident0, at, outside>>
  BY DEF Clear, cursor, history
<1>2. /\ c \in Call /\ id \in 0 .. IdentMod - 1
      /\ todo'[t] = Tail(s) /\ Head(s).op = "clear" /\ ~outside
  BY <1>1, Setting
<1>3. Stage(c, id, s, a, tx_buf)
  BY Zenon DEF StageNow
<1>4. /\ Cleared \in [0 .. BufSize - 1 -> Nat]
      /\ \A j \in 0 .. BufSize - 1 : Cleared[j] = 0
  BY DEF Cleared
<1> HIDE DEF c, id, s, a
<1>5. /\ a = FirstField(c)
      /\ Tail(s) = IF c.fn \in HeaderFirst THEN HeaderOps(c) \o Rest(c)
                   ELSE Fields(c) \o After(c)
  BY <1>2, <1>3, NextFor
<1>6. Stage(c, id, Tail(s), a, Cleared)
  BY <1>2, <1>4, <1>5, ClearStage
<1>7. call'[t] = c /\ ident0'[t] = id /\ at'[t] = a
  BY <1>1, Zenon DEF c, id, a
<1> QED
  BY <1>1, <1>2, <1>6, <1>7, Zenon DEF StageNow

\* A write of the header or of the length, which always stays in the buffer.
LEMMA HeaderWrite ==
  ASSUME TypeOK, NEW i \in Nat, NEW x \in Seq(Nat), Write(i, x), i + Len(x) <= BufSize
  PROVE  Wrote(tx_buf, i, x, tx_buf') /\ ~outside'
  BY WriteOutside, WriteBytes

\* So does storing the header.
LEMMA HeaderMoves ==
  ASSUME TypeOK, Programs, NEW t \in Thread, StageNow(t), StoreHeader(t)
  PROVE  StageNow(t)' /\ ~outside'
<1> DEFINE c == call[t]
           id == ident0[t]
           s == todo[t]
           a == at[t]
           i == From(c, a)
           x == <<Hdr(c)>>
<1>1. /\ Does(t, "header") /\ Write(Start(c, PktLen(t)), Now(t).bytes)
      /\ UNCHANGED <<call, ident0, at>>
  BY Zenon DEF StoreHeader, cursor, history
<1>2. /\ c \in Call /\ id \in 0 .. IdentMod - 1 /\ a \in 0 .. BufSize /\ a >= FirstField(c)
      /\ tx_buf \in [0 .. BufSize - 1 -> Nat]
      /\ todo'[t] = Tail(s) /\ Now(t) = Head(s) /\ Head(s).op = "header"
      /\ Start(c, PktLen(t)) = i
  BY <1>1, Setting
<1>3. Stage(c, id, s, a, tx_buf)
  BY Zenon DEF StageNow
<1>4. call'[t] = c /\ ident0'[t] = id /\ at'[t] = a
  BY <1>1, Zenon
<1> HIDE DEF c, id, s, a
<1>5. /\ Ready(c, id, a, tx_buf) /\ Head(s).bytes = x
      /\ Tail(s) = IF c.fn \in Flagged THEN <<Op("flag", <<>>)>> \o Rest(c) ELSE Rest(c)
  BY <1>2, <1>3, NextFor
<1>6. i \in Nat /\ x \in Seq(Nat) /\ i + Len(x) <= BufSize
  <2>1. i \in 0 .. BufSize - 1 /\ BufSize \in Nat
    BY <1>2, FromIs
  <2>2. Hdr(c) \in Nat
    BY <1>2, HeaderPlain
  <2> HIDE DEF i
  <2>3. x \in Seq(Nat) /\ Len(x) = 1
    BY <2>2
  <2> QED
    BY <2>1, <2>3
<1>7. Write(i, x)
  BY <1>1, <1>2, <1>5, Zenon
<1> HIDE DEF i, x
<1>8. Wrote(tx_buf, i, x, tx_buf') /\ ~outside'
  BY <1>6, <1>7, HeaderWrite
<1>9. Stage(c, id, Tail(s), a, tx_buf')
  BY <1>2, <1>5, <1>8, HeaderStage DEF i, x
<1> QED
  BY <1>2, <1>4, <1>8, <1>9, Zenon DEF StageNow

\* So does setting its flag.
LEMMA FlagMoves ==
  ASSUME TypeOK, Programs, NEW t \in Thread, StageNow(t), StoreFlag(t)
  PROVE  StageNow(t)' /\ ~outside'
<1> DEFINE c == call[t]
           id == ident0[t]
           s == todo[t]
           a == at[t]
           i == From(c, a)
           b == tx_buf[i]
           x == <<IF (b \div 2) % 2 = 1 THEN b ELSE b + 2>>
<1>1. /\ Does(t, "flag") /\ UNCHANGED <<call, ident0, at>>
      /\ \A j : j = Start(c, PktLen(t)) =>
           Write(j, <<IF (tx_buf[j] \div 2) % 2 = 1 THEN tx_buf[j] ELSE tx_buf[j] + 2>>)
  BY Zenon DEF StoreFlag, cursor, history
<1>2. /\ c \in Call /\ id \in 0 .. IdentMod - 1 /\ a \in 0 .. BufSize /\ a >= FirstField(c)
      /\ tx_buf \in [0 .. BufSize - 1 -> Nat]
      /\ todo'[t] = Tail(s) /\ Head(s).op = "flag" /\ Start(c, PktLen(t)) = i
  BY <1>1, Setting
<1>3. Stage(c, id, s, a, tx_buf)
  BY Zenon DEF StageNow
<1>4. call'[t] = c /\ ident0'[t] = id /\ at'[t] = a
  BY <1>1, Zenon
<1>5. Write(i, x)
  BY <1>1, <1>2, Zenon
<1> HIDE DEF c, id, s, a
<1>6. ToFlag(c, id, s, a, tx_buf) /\ Tail(s) = Rest(c)
  BY <1>2, <1>3, NextFor
<1>7. i \in 0 .. BufSize - 1 /\ BufSize \in Nat
  BY <1>2, FromIs
<1> HIDE DEF i
<1>8. b \in Nat
  BY <1>2, <1>7
<1> HIDE DEF b
<1>9. i \in Nat /\ x \in Seq(Nat) /\ i + Len(x) <= BufSize
  BY <1>7, <1>8
<1>10. Wrote(tx_buf, i, x, tx_buf') /\ ~outside'
  <2> HIDE DEF x
  <2> QED
    BY <1>5, <1>9, HeaderWrite
<1>11. Stage(c, id, Rest(c), a, tx_buf')
  BY <1>2, <1>6, <1>10, FlagStage DEF i, b
<1> QED
  BY <1>2, <1>4, <1>6, <1>10, <1>11, Zenon DEF StageNow

\* So does storing the length.
LEMMA LengthMoves ==
  ASSUME TypeOK, Programs, NEW t \in Thread, StageNow(t), StoreLength(t)
  PROVE  StageNow(t)' /\ ~outside'
<1> DEFINE c == call[t]
           id == ident0[t]
           s == todo[t]
           a == at[t]
           n == a - FirstField(c)
           r == RemainLen(n)
           b == <<n % 256>>
<1>1. /\ Does(t, "length") /\ UNCHANGED <<call, ident0, at>>
  BY Zenon DEF StoreLength, cursor, history
<1>2. IF c.fn \in HeaderFirst THEN Write(1, b) ELSE Write(FirstField(c) - Len(r), r)
  BY Zenon DEF StoreLength, PktLen
<1>3. /\ c \in Call /\ id \in 0 .. IdentMod - 1 /\ a \in 0 .. BufSize /\ a >= FirstField(c)
      /\ tx_buf \in [0 .. BufSize - 1 -> Nat]
      /\ todo'[t] = Tail(s) /\ Head(s).op = "length"
  BY <1>1, Setting
<1>4. Stage(c, id, s, a, tx_buf)
  BY Zenon DEF StageNow
<1>5. call'[t] = c /\ ident0'[t] = id /\ at'[t] = a
  BY <1>1, Zenon
<1> HIDE DEF c, id, s, a
<1>6. /\ FillsWith(c, id, s, a, tx_buf, <<>>)
      /\ Tail(s) = IF c.fn \in HeaderFirst THEN <<Op("send", <<>>)>> ELSE HeaderOps(c) \o Rest(c)
  BY <1>3, <1>4, NextFor
<1>7. n \in Nat /\ BufSize \in Nat /\ BufSize > 5
  BY <1>3, FromIs
<1> HIDE DEF n
<1>8. CASE c.fn \in HeaderFirst
  <2>1. b \in Seq(Nat) /\ 1 \in Nat /\ 1 + Len(b) <= BufSize
    BY <1>7
  <2>2. Write(1, b)
    BY <1>2, <1>8, Zenon
  <2>3. Wrote(tx_buf, 1, b, tx_buf') /\ ~outside'
    <3> HIDE DEF b
    <3> QED
      BY <2>1, <2>2, HeaderWrite
  <2>4. Stage(c, id, <<Op("send", <<>>)>>, a, tx_buf')
    BY <1>3, <1>6, <1>8, <2>3, ByteLengthStage DEF n
  <2> QED
    BY <1>3, <1>5, <1>6, <1>8, <2>3, <2>4, Zenon DEF StageNow
<1>9. CASE c.fn \notin HeaderFirst
  <2>1. r \in Seq(Nat) /\ Len(r) \in 1 .. 2
    BY <1>7, RemainLenType
  <2>2. FirstField(c) = 5
    BY <1>9 DEF FirstField
  <2> DEFINE i == FirstField(c) - Len(r)
  <2>3. Write(i, r)
    BY <1>2, <1>9, Zenon
  <2> HIDE DEF r
  <2>4. i \in Nat /\ i + Len(r) <= BufSize
    <3>1. \A k \in 1 .. 2 : 5 - k \in Nat /\ (5 - k) + k <= BufSize
      BY <1>7
    <3> QED
      BY <2>1, <2>2, <3>1, Zenon
  <2> HIDE DEF i
  <2>5. Wrote(tx_buf, i, r, tx_buf') /\ ~outside'
    BY <2>1, <2>3, <2>4, HeaderWrite
  <2>6. r = RemainLen(a - FirstField(c)) /\ Wrote(tx_buf, FirstField(c) - Len(r), r, tx_buf')
    BY <2>5, Zenon DEF r, n, i
  <2>7. Stage(c, id, HeaderOps(c) \o Rest(c), a, tx_buf')
    BY <1>3, <1>6, <1>9, <2>6, RemainLengthStage
  <2> QED
    BY <1>3, <1>5, <1>6, <1>9, <2>5, <2>7, Zenon DEF StageNow
<1> QED
  BY <1>8, <1>9

----------------------------------------------------------------------------
(* The invariant is inductive                                              *)

\* A statement leaves the other threads where they are, and its own with fewer
\* statements.
LEMMA StatementFrame ==
  ASSUME TypeOK, Programs, NEW t \in Thread, Statement(t)
  PROVE  /\ Busy(t) /\ ~outside /\ call[t] \in Call
         /\ \A u \in Thread : u # t => todo'[u] = todo[u]
         /\ \A p \in Idents : HasOp(todo'[t], p) => HasOp(todo[t], p)
         /\ Send(t) \/ (FieldStatement(t) \/ Clear(t) \/ StoreLength(t) \/ StoreHeader(t)
                         \/ StoreFlag(t))
         /\ Send(t) \/ UNCHANGED <<call, ident0, alone, sent>>
         /\ Send(t) <=> todo'[t] = <<>>
<1>1. PICK o : Does(t, o) /\ (o = "send" <=> Send(t))
  <2>1. /\ (Clear(t) => Does(t, "clear")) /\ (Measure(t) => Does(t, "measure"))
        /\ (Copy(t) => Does(t, "copy")) /\ (Put(t) => Does(t, "put"))
        /\ (PutMsb(t) => Does(t, "msb")) /\ (PutLsb(t) => Does(t, "lsb"))
        /\ (FetchIdent(t) => Does(t, "fetch")) /\ (StoreIdent(t) => Does(t, "store"))
        /\ (StoreLength(t) => Does(t, "length")) /\ (StoreHeader(t) => Does(t, "header"))
        /\ (StoreFlag(t) => Does(t, "flag")) /\ (Send(t) => Does(t, "send"))
    BY Zenon DEF Clear, Measure, Copy, Put, PutMsb, PutLsb, FetchIdent, StoreIdent,
                 StoreLength, StoreHeader, StoreFlag, Send
  <2> DEFINE N == OpName \ {"send"}
  <2>2. /\ "clear" \in N /\ "measure" \in N /\ "copy" \in N /\ "put" \in N /\ "msb" \in N
        /\ "lsb" \in N /\ "fetch" \in N /\ "store" \in N /\ "length" \in N
        /\ "header" \in N /\ "flag" \in N
    BY DEF OpName, Idents
  <2>3. \A p \in N : Does(t, p) => ~Does(t, "send")
    BY DEF Does
  <2> HIDE DEF N
  <2>4. Send(t) \/ \E p \in N : Does(t, p)
    BY <2>1, <2>2, Zenon DEF Statement
  <2>5. \A p \in N : p # "send"
    BY DEF N
  <2> QED
    BY <2>1, <2>3, <2>4, <2>5, Zenon
<1>2. /\ Busy(t) /\ call[t] \in Call /\ ~outside
      /\ \A u \in Thread : u # t => todo'[u] = todo[u]
      /\ o = "send" <=> todo'[t] = <<>>
      /\ \A p \in Idents : HasOp(todo'[t], p) <=> HasOp(todo[t], p) /\ p # o
  BY <1>1, DoesStep
<1>3. Send(t) \/ UNCHANGED <<call, ident0, alone, sent>>
  BY Zenon DEF Statement, Clear, Measure, Copy, Put, PutMsb, PutLsb, PutIdentByte, FetchIdent,
               StoreIdent, StoreLength, StoreHeader, StoreFlag, history
<1>4. Send(t) \/ (FieldStatement(t) \/ Clear(t) \/ StoreLength(t) \/ StoreHeader(t)
                         \/ StoreFlag(t))
  BY Zenon DEF Statement, FieldStatement
<1> QED
  BY <1>1, <1>2, <1>3, <1>4, Zenon

\* What Begin hands the thread.
LEMMA BeginFrame ==
  ASSUME TypeOK, Programs, NEW t \in Thread, Begin(t)
  PROVE  /\ ~Busy(t) /\ ~outside /\ ~outside' /\ todo'[t] # <<>>
         /\ \A u \in Thread : u # t => todo'[u] = todo[u]
         /\ ident0'[t] = packet_ident /\ packet_ident' = packet_ident /\ gap' = gap
         /\ sent' = sent
         /\ alone'[t] => \A v \in Thread : ~Busy(v)
         /\ \A u \in Thread : u # t /\ alone'[u] => alone[u] /\ ~Busy(u)
         /\ StageNow(t)'
<1>1. PICK c \in Calls[t] :
        /\ call' = [call EXCEPT ![t] = c] /\ todo' = [todo EXCEPT ![t] = Program(c)]
        /\ at' = [at EXCEPT ![t] = FirstField(c)]
        /\ ident0' = [ident0 EXCEPT ![t] = packet_ident]
        /\ alone' = [u \in Thread |->
             IF u = t THEN \A v \in Thread : ~Busy(v) ELSE alone[u] /\ ~Busy(u)]
  BY DEF Begin
<1>2. c \in Call
  BY TxAssumption
<1>3. ~Busy(t) /\ ~outside /\ ~outside' /\ packet_ident' = packet_ident /\ gap' = gap /\ sent' = sent
  BY DEF Begin, shared
<1>4. Program(c) # <<>>
  BY <1>2, ProgramShape
<1>5. at \in [Thread -> 0 .. BufSize]
  BY <1>3 DEF TypeOK
<1>6. /\ todo'[t] = Program(c) /\ \A u \in Thread : u # t => todo'[u] = todo[u]
      /\ call'[t] = c /\ at'[t] = FirstField(c) /\ ident0'[t] = packet_ident
  <2>1. todo'[t] = Program(c) /\ \A u \in Thread : u # t => todo'[u] = todo[u]
    BY <1>1 DEF Programs
  <2>2. call'[t] = c
    BY <1>1 DEF Programs
  <2>3. at'[t] = FirstField(c)
    BY <1>1, <1>5
  <2>4. ident0'[t] = packet_ident
    BY <1>1 DEF TypeOK
  <2> QED
    BY <2>1, <2>2, <2>3, <2>4
<1>7. /\ alone'[t] => \A v \in Thread : ~Busy(v)
      /\ \A u \in Thread : u # t /\ alone'[u] => alone[u] /\ ~Busy(u)
  BY <1>1, Zenon
<1>8. Begun(call'[t], todo'[t], at'[t])
  BY <1>6, Zenon DEF Begun
<1>9. StageNow(t)'
  BY <1>8, Zenon DEF StageNow, Stage
<1> QED
  BY <1>3, <1>4, <1>6, <1>7, <1>9, Zenon

\* No statement leaves two calls under way alone.
LEMMA AloneStep ==
  ASSUME TypeOK, Programs, Alone, NEW t \in Thread, Begin(t) \/ Statement(t)
  PROVE  Alone'
<1> SUFFICES ASSUME NEW v \in Thread, NEW w \in Thread, v # w, Busy(v)', Busy(w)'
             PROVE  ~alone'[v]
  BY Zenon DEF Alone
<1>1. CASE Begin(t)
  <2>1. /\ \A u \in Thread : u # t => todo'[u] = todo[u]
        /\ alone'[t] => \A x \in Thread : ~Busy(x)
        /\ \A u \in Thread : u # t /\ alone'[u] => alone[u] /\ ~Busy(u)
    BY <1>1, BeginFrame
  <2> QED
    BY <2>1, Zenon DEF Busy
<1>2. CASE Statement(t)
  <2>1. /\ Busy(t) /\ \A u \in Thread : u # t => todo'[u] = todo[u]
        /\ Send(t) \/ alone' = alone
        /\ Send(t) => todo'[t] = <<>>
    BY <1>2, StatementFrame
  <2>2. Busy(v) /\ Busy(w)
    BY <2>1, Zenon DEF Busy
  <2>3. ~alone[v]
    BY <2>2, Zenon DEF Alone
  <2>4. Send(t) => alone' = [alone EXCEPT ![t] = TRUE] /\ v # t
    BY <2>1, Zenon DEF Send, Busy
  <2>5. Send(t) => alone'[v] = alone[v]
    BY <2>4 DEF TypeOK
  <2> QED
    BY <2>1, <2>3, <2>5, Zenon
<1> QED
  BY <1>1, <1>2

\* Every statement keeps the identifier of a call that is alone its own.
LEMMA OwnIdentStep ==
  ASSUME TypeOK, Programs, Alone, OwnIdent, NEW t \in Thread, Begin(t) \/ Statement(t)
  PROVE  OwnIdent'
<1> SUFFICES ASSUME NEW v \in Thread, Busy(v)', alone'[v],
                    HasOp(todo'[v], "msb") \/ HasOp(todo'[v], "lsb")
             PROVE  packet_ident' = ident0'[v]
  BY Zenon DEF OwnIdent
<1>1. CASE Begin(t)
  <2>1. /\ \A u \in Thread : u # t => todo'[u] = todo[u]
        /\ ident0'[t] = packet_ident /\ packet_ident' = packet_ident
        /\ \A u \in Thread : u # t /\ alone'[u] => alone[u] /\ ~Busy(u)
    BY <1>1, BeginFrame
  <2> QED
    BY <2>1, Zenon DEF Busy
<1>2. CASE Statement(t)
  <2>1. /\ Busy(t) /\ \A u \in Thread : u # t => todo'[u] = todo[u]
        /\ \A p \in Idents : HasOp(todo'[t], p) => HasOp(todo[t], p)
        /\ Send(t) \/ UNCHANGED <<call, ident0, alone, sent>>
        /\ Send(t) => todo'[t] = <<>>
    BY <1>2, StatementFrame
  <2>2. "msb" \in Idents /\ "lsb" \in Idents
    BY DEF Idents
  <2>3. Busy(v) /\ (HasOp(todo[v], "msb") \/ HasOp(todo[v], "lsb"))
    <3>1. CASE v = t
      BY <2>1, <2>2, <3>1, Zenon
    <3>2. CASE v # t
      BY <2>1, <3>2, Zenon DEF Busy
    <3> QED
      BY <3>1, <3>2
  <2>4. CASE Send(t)
    <3>1. v # t
      BY <2>1, <2>4, Zenon DEF Busy
    <3>2. /\ packet_ident' = packet_ident /\ ident0' = [ident0 EXCEPT ![t] = 0]
          /\ alone' = [alone EXCEPT ![t] = TRUE]
      BY <2>4, Zenon DEF Send, shared
    <3>3. ident0'[v] = ident0[v] /\ alone'[v] = alone[v]
      BY <3>1, <3>2 DEF TypeOK
    <3>4. alone[v]
      BY <3>3, Zenon
    <3>5. packet_ident = ident0[v]
      BY <2>3, <3>4, Zenon DEF OwnIdent
    <3> QED
      BY <3>2, <3>3, <3>5, Zenon
  <2>5. CASE ~Send(t)
    <3>1. v = t
      <4>1. ASSUME v # t PROVE FALSE
        <5>1. alone[v]
          BY <2>1, <2>5, Zenon
        <5> QED
          BY <2>1, <2>3, <4>1, <5>1, Zenon DEF Alone
      <4> QED
        BY <4>1
    <3>2. alone[t] /\ ident0'[t] = ident0[t]
      BY <2>1, <2>5, <3>1, Zenon
    <3>3. packet_ident = ident0[t]
      BY <2>3, <3>1, <3>2, Zenon DEF OwnIdent
    <3>4. packet_ident' = packet_ident
      <4>1. CASE StoreIdent(t)
        <5>1. Does(t, "store")
          BY <4>1, Zenon DEF StoreIdent
        <5>2. todo[t] \in Seq(Ops) /\ Ordered(todo[t]) /\ todo[t] # <<>>
          BY <2>1 DEF Programs, Busy
        <5>3. Head(todo[t]).op = "store"
          BY <5>1, Zenon DEF Does, Now
        <5>4. ~HasOp(todo[t], "msb") /\ ~HasOp(todo[t], "lsb")
          BY <5>2, <5>3, OrderedHead
        <5> QED
          BY <2>3, <3>1, <5>4, Zenon
      <4>2. CASE ~StoreIdent(t)
        BY <1>2, <2>5, <4>2, Zenon DEF Statement, Clear, Measure, Copy, Put, PutMsb, PutLsb,
             PutIdentByte, FetchIdent, StoreLength, StoreHeader, StoreFlag, shared
      <4> QED
        BY <4>1, <4>2
    <3> QED
      BY <3>1, <3>2, <3>3, <3>4, Zenon
  <2> QED
    BY <2>4, <2>5
<1> QED
  BY <1>1, <1>2

\* strlen behind what a call has put, when nothing is there.
LEMMA NothingBehind ==
  ASSUME TypeOK, NEW i \in 0 .. BufSize, ClearFrom(tx_buf, i)
  PROVE  StrLen(i) = 0
<1>1. /\ StrLen(i) \in 0 .. BufSize /\ BufSize \in Nat
      /\ \A j \in i .. i + StrLen(i) - 1 : j < BufSize /\ tx_buf[j] # 0
  BY StrLenType, TxAssumption
<1> DEFINE n == StrLen(i)
<1> HIDE DEF n
<1>2. ASSUME n # 0 PROVE FALSE
  <2>1. i \in i .. i + n - 1
    BY <1>1, <1>2 DEF n
  <2>2. i < BufSize /\ tx_buf[i] # 0
    BY <1>1, <2>1 DEF n
  <2> QED
    BY <1>1, <2>2 DEF ClearFrom
<1> QED
  BY <1>2 DEF n

\* Every statement of a call that is alone leaves nothing behind what it has put.
LEMMA NoGapStep ==
  ASSUME TypeOK, Programs, Stages, NoGap, NEW t \in Thread, Begin(t) \/ Statement(t)
  PROVE  NoGap'
<1> SUFFICES ASSUME NEW v \in Thread, ~Busy(v)' \/ alone'[v]
             PROVE  gap'[v] = 0
  BY Zenon DEF NoGap
<1>1. CASE Begin(t)
  <2>1. /\ ~Busy(t) /\ gap' = gap /\ \A u \in Thread : u # t => todo'[u] = todo[u]
        /\ \A u \in Thread : u # t /\ alone'[u] => alone[u] /\ ~Busy(u)
    BY <1>1, BeginFrame
  <2>2. ~Busy(v) \/ alone[v]
    BY <2>1, Zenon DEF Busy
  <2> QED
    BY <2>1, <2>2, Zenon DEF NoGap
<1>2. CASE Statement(t)
  <2>1. /\ Busy(t) /\ ~outside /\ \A u \in Thread : u # t => todo'[u] = todo[u]
        /\ Send(t) \/ UNCHANGED <<call, ident0, alone, sent>>
        /\ Send(t) <=> todo'[t] = <<>>
    BY <1>2, StatementFrame
  <2>2. CASE Send(t)
    <3>1. gap' = [gap EXCEPT ![t] = 0] /\ alone' = [alone EXCEPT ![t] = TRUE]
      BY <2>2, Zenon DEF Send
    <3>2. CASE v = t
      BY <3>1, <3>2 DEF TypeOK
    <3>3. CASE v # t
      <4>1. gap'[v] = gap[v] /\ alone'[v] = alone[v] /\ todo'[v] = todo[v]
        BY <2>1, <3>1, <3>3 DEF TypeOK
      <4> QED
        BY <4>1, Zenon DEF NoGap, Busy
    <3> QED
      BY <3>2, <3>3
  <2>3. CASE ~Send(t)
    <3>1. alone' = alone /\ todo'[t] # <<>>
      BY <2>1, <2>3, Zenon
    <3>2. ~Busy(v) \/ alone[v]
      BY <2>1, <3>1, Zenon DEF Busy
    <3>3. gap[v] = 0
      BY <3>2, Zenon DEF NoGap
    <3>4. CASE Measure(t) /\ v = t
      <4>1. alone[t] /\ Does(t, "measure")
        BY <3>1, <3>4, Zenon DEF Measure, Busy
      <4>2. Stage(call[t], ident0[t], todo[t], at[t], tx_buf)
        BY <2>1, <4>1, Zenon DEF Stages
      <4>3. call[t] \in Call /\ at[t] \in 0 .. BufSize /\ Head(todo[t]).op = "measure"
        BY <4>1, Setting
      <4>4. "measure" \in BodyNames
        BY DEF BodyNames
      <4>5. TakesField(call[t], ident0[t], todo[t], at[t], tx_buf)
        BY <4>2, <4>3, <4>4, NextFor
      <4>6. ClearFrom(tx_buf, at[t])
        BY <4>5, Zenon DEF TakesField, FillsWith
      <4>7. StrLen(at[t]) = 0
        BY <4>3, <4>6, NothingBehind
      <4>8. gap' = [gap EXCEPT ![t] = 0]
        BY <3>4, <4>7, Zenon DEF Measure
      <4> QED
        BY <3>4, <4>8 DEF TypeOK
    <3>5. CASE Measure(t) /\ v # t
      <4>1. gap' = [gap EXCEPT ![t] = StrLen(at[t])]
        BY <3>5, Zenon DEF Measure
      <4> QED
        BY <3>3, <3>5, <4>1 DEF TypeOK
    <3>6. CASE ~Measure(t)
      <4>1. gap' = gap
        BY <1>2, <2>3, <3>6, Zenon DEF Statement, Clear, Copy, Put, PutMsb, PutLsb,
           PutIdentByte, FetchIdent, StoreIdent, StoreLength, StoreHeader, StoreFlag, cursor
      <4> QED
        BY <3>3, <4>1, Zenon
    <3> QED
      BY <3>4, <3>5, <3>6
  <2> QED
    BY <2>2, <2>3
<1> QED
  BY <1>1, <1>2

\* A statement of a call that is alone, of whatever kind.
LEMMA Moves ==
  ASSUME TypeOK, Programs, NoGap, OwnIdent, NEW t \in Thread, alone[t], StageNow(t),
         Statement(t), ~Send(t)
  PROVE  (outside' \/ StageNow(t)') /\ (Fits(call[t]) => ~outside')
<1>1. FieldStatement(t) \/ Clear(t) \/ StoreLength(t) \/ StoreHeader(t) \/ StoreFlag(t)
  BY StatementFrame
<1> QED
  BY <1>1, FieldMoves, ClearMoves, LengthMoves, HeaderMoves, FlagMoves, Zenon

\* Every statement takes the call from one stage to the next.
LEMMA StagesStep ==
  ASSUME TypeOK, Programs, Alone, OwnIdent, NoGap, Stages,
         NEW t \in Thread, Begin(t) \/ Statement(t)
  PROVE  Stages'
<1> SUFFICES ASSUME ~outside', NEW v \in Thread, Busy(v)', alone'[v]
             PROVE  StageNow(v)'
  BY Zenon DEF Stages, StageNow
<1>1. CASE Begin(t)
  <2>1. /\ StageNow(t)' /\ \A u \in Thread : u # t => todo'[u] = todo[u]
        /\ \A u \in Thread : u # t /\ alone'[u] => alone[u] /\ ~Busy(u)
    BY <1>1, BeginFrame
  <2>2. v = t
    BY <2>1, Zenon DEF Busy
  <2> QED
    BY <2>1, <2>2, Zenon
<1>2. CASE Statement(t)
  <2>1. /\ Busy(t) /\ ~outside /\ \A u \in Thread : u # t => todo'[u] = todo[u]
        /\ Send(t) \/ UNCHANGED <<call, ident0, alone, sent>>
        /\ Send(t) <=> todo'[t] = <<>>
    BY <1>2, StatementFrame
  <2>2. v = t
    <3>1. ASSUME v # t PROVE FALSE
      <4>1. Busy(v)
        BY <2>1, <3>1, Zenon DEF Busy
      <4>2. ~alone[v]
        BY <2>1, <3>1, <4>1, Zenon DEF Alone
      <4>3. Send(t) => alone' = [alone EXCEPT ![t] = TRUE]
        BY Zenon DEF Send
      <4>4. alone'[v] = alone[v]
        BY <2>1, <3>1, <4>3 DEF TypeOK
      <4> QED
        BY <4>2, <4>4, Zenon
    <3> QED
      BY <3>1
  <2>3. ~Send(t)
    BY <2>1, <2>2, Zenon DEF Busy
  <2>4. alone[t]
    BY <2>1, <2>2, <2>3, Zenon
  <2>5. StageNow(t)
    BY <2>1, <2>4, Zenon DEF Stages, StageNow
  <2>6. outside' \/ StageNow(t)'
    BY <1>2, <2>3, <2>4, <2>5, Moves
  <2> QED
    BY <2>2, <2>6, Zenon
<1> QED
  BY <1>1, <1>2

\* A packet that is sent: what the call it is of makes.
LEMMA SendSent ==
  ASSUME TypeOK, Programs, Stages, NEW t \in Thread, Send(t), alone[t]
  PROVE  /\ call[t] \in Call /\ ident0[t] \in 0 .. IdentMod - 1
         /\ Made(call[t], ident0[t]) \in Seq(Nat)
         /\ sent' = Append(sent, [call |-> call[t], id |-> ident0[t],
                                  bytes |-> Made(call[t], ident0[t])])
<1> DEFINE c == call[t]
           id == ident0[t]
           s == todo[t]
           a == at[t]
           i == From(c, a)
           b == Bytes(tx_buf, i, a - i)
<1>1. Does(t, "send")
  BY Zenon DEF Send
<1>2. /\ c \in Call /\ id \in 0 .. IdentMod - 1 /\ a \in 0 .. BufSize /\ a >= FirstField(c)
      /\ tx_buf \in [0 .. BufSize - 1 -> Nat] /\ Head(s).op = "send" /\ ~outside /\ Busy(t)
      /\ Start(c, PktLen(t)) = i
  BY <1>1, Setting
<1>3. Stage(c, id, s, a, tx_buf)
  BY <1>2, Zenon DEF Stages
<1>4. sent' = Append(sent, [call |-> c, id |-> id, bytes |-> b])
  BY <1>2, Zenon DEF Send, Bytes
<1> HIDE DEF c, id, s, a
<1>5. Bytes(tx_buf, From(c, a), a - From(c, a)) = Made(c, id)
  BY <1>2, <1>3, NextFor
<1>6. i \in Nat /\ a - i \in Nat /\ i + (a - i) <= BufSize
  <2>1. i \in 0 .. BufSize - 1 /\ i < FirstField(c) /\ BufSize \in Nat /\ FirstField(c) \in Nat
    BY <1>2, FromIs DEF FirstField
  <2> HIDE DEF i
  <2> QED
    BY <1>2, <2>1
<1>7. b \in Seq(Nat)
  <2>1. \A j, m \in Nat : j + m <= BufSize => Bytes(tx_buf, j, m) \in Seq(Nat)
    BY <1>2, BytesType
  <2> QED
    BY <1>6, <2>1, Zenon
<1>8. b = Made(c, id)
  BY <1>5, Zenon
<1> HIDE DEF b
<1> QED
  BY <1>2, <1>4, <1>7, <1>8, Zenon DEF c, id

Record == [call : Call, id : 0 .. IdentMod - 1, bytes : Seq(Nat)]

\* Either nothing more is sent, or one packet.
LEMMA SentStep ==
  ASSUME TypeOK, Programs, Stages, NEW t \in Thread, Begin(t) \/ Statement(t)
  PROVE  \/ sent' = sent
         \/ \E r \in Record : sent' = Append(sent, r) /\ r.bytes = Made(r.call, r.id)
<1>1. CASE Begin(t)
  BY <1>1, BeginFrame
<1>2. CASE Statement(t) /\ ~Send(t)
  <2>1. Send(t) \/ UNCHANGED <<call, ident0, alone, sent>>
    BY <1>2, StatementFrame
  <2> QED
    BY <1>2, <2>1, Zenon
<1>3. CASE Send(t) /\ ~alone[t]
  BY <1>3, Zenon DEF Send
<1>4. CASE Send(t) /\ alone[t]
  <2> DEFINE c == call[t]
             id == ident0[t]
             m == Made(c, id)
             r == [call |-> c, id |-> id, bytes |-> m]
  <2>1. /\ c \in Call /\ id \in 0 .. IdentMod - 1 /\ m \in Seq(Nat)
        /\ sent' = Append(sent, r)
    BY <1>4, SendSent
  <2> HIDE DEF c, id, m
  <2>2. r \in Record /\ r.call = c /\ r.id = id /\ r.bytes = m
    BY <2>1 DEF Record
  <2>3. r.bytes = Made(r.call, r.id)
    BY <2>2, Zenon DEF m
  <2> QED
    BY <2>1, <2>2, <2>3, Zenon
<1> QED
  BY <1>1, <1>2, <1>3, <1>4

\* What a packet that was sent must be.
Right(r) == NoString(r.call) \/ OneByteLength(r.call) \/ r.bytes = PacketOf(Named(r.call), r.id)

\* One more packet sent as it was made.
LEMMA AppendSent ==
  ASSUME Sent, Intact, NEW r \in Record, sent' = Append(sent, r), r.bytes = Made(r.call, r.id)
  PROVE  Sent' /\ Intact'
<1> DEFINE n == Len(sent)
<1>1. sent \in Seq(Record) /\ n \in Nat
  BY LenProperties DEF Sent, Record
<1>2. /\ sent' \in Seq(Record) /\ Len(sent') = n + 1 /\ sent'[n + 1] = r
      /\ \A i \in 1 .. n : sent'[i] = sent[i]
  BY <1>1, AppendProperties
<1>3. Sent'
  BY <1>2, Zenon DEF Sent, Record
<1>4. Right(r)
  <2>1. r.call \in Call /\ r.id \in 0 .. IdentMod - 1
    BY DEF Record
  <2>2. \A c \in Call, id \in 0 .. IdentMod - 1 :
          ~NoString(c) /\ ~OneByteLength(c) => Made(c, id) = PacketOf(Named(c), id)
    BY MadeIs
  <2> QED
    BY <2>1, <2>2, Zenon DEF Right
<1>5. \A i \in 1 .. n : Right(sent[i])
  BY Zenon DEF Intact, Right
<1> HIDE DEF n
<1>6. \A i \in 1 .. Len(sent') : i \in 1 .. n \/ i = n + 1
  BY <1>1, <1>2
<1>7. \A i \in 1 .. Len(sent') : Right(sent'[i])
  BY <1>2, <1>4, <1>5, <1>6, Zenon
<1>8. Intact'
  BY <1>7, Zenon DEF Intact, Right
<1> QED
  BY <1>3, <1>8

\* A call that fits, and that no other one overlaps, never writes outside.
LEMMA InsideStep ==
  ASSUME TypeOK, Programs, Alone, OwnIdent, NoGap, Stages, StaysInside,
         NEW t \in Thread, Begin(t) \/ Statement(t)
  PROVE  StaysInside'
<1>1. CASE Begin(t)
  <2>1. ~outside'
    BY <1>1, BeginFrame
  <2> QED
    BY <2>1, Zenon DEF StaysInside
<1>2. CASE Send(t)
  <2>1. Does(t, "send") /\ outside' = outside
    BY <1>2, Zenon DEF Send
  <2>2. ~outside
    BY <2>1, Zenon DEF Does
  <2> QED
    BY <2>1, <2>2, Zenon DEF StaysInside
<1>3. CASE Statement(t) /\ ~Send(t)
  <2>1. /\ Busy(t) /\ ~outside /\ todo'[t] # <<>> /\ call' = call /\ alone' = alone
    BY <1>3, StatementFrame
  <2>2. ASSUME alone[t], Fits(call[t]) PROVE ~outside'
    <3>1. StageNow(t)
      BY <2>1, <2>2, Zenon DEF Stages, StageNow
    <3> QED
      BY <1>3, <2>2, <3>1, Moves
  <2>3. ASSUME outside' PROVE Busy(t)' /\ (~alone'[t] \/ ~Fits(call[t])')
    <3>1. ~alone[t] \/ ~Fits(call[t])
      BY <2>2, <2>3
    <3> QED
      BY <2>1, <3>1, Zenon DEF Busy, Fits
  <2> QED
    BY <2>3, Zenon DEF StaysInside
<1> QED
  BY <1>1, <1>2, <1>3

\* Everything at once, for a step of the specification.
Packets == PacketInv /\ Intact /\ StaysInside

\* Every step keeps the packets right.
LEMMA PacketsStep ==
  TypeOK /\ Programs /\ Packets /\ [Next]_vars => Packets'
<1> SUFFICES ASSUME TypeOK, Programs, Packets, [Next]_vars PROVE Packets'
  OBVIOUS
<1>1. Alone /\ OwnIdent /\ NoGap /\ Stages /\ Sent /\ Intact /\ StaysInside
  BY DEF Packets, PacketInv
<1>2. CASE UNCHANGED vars
  <2>1. UNCHANGED <<tx_buf, packet_ident, call, todo, at, gap, ident0, alone, sent, outside>>
    BY <1>2 DEF vars, shared, cursor, history
  <2>2. Alone' /\ OwnIdent' /\ NoGap'
    BY <1>1, <2>1, Zenon DEF Alone, OwnIdent, NoGap, Busy
  <2>3. Stages'
    BY <1>1, <2>1, Zenon DEF Stages, Busy
  <2>4. Sent' /\ Intact'
    BY <1>1, <2>1, Zenon DEF Sent, Intact
  <2>5. StaysInside'
    BY <1>1, <2>1, Zenon DEF StaysInside, Busy, Fits
  <2> QED
    BY <2>2, <2>3, <2>4, <2>5 DEF Packets, PacketInv
<1>3. ASSUME NEW t \in Thread, Begin(t) \/ Statement(t) PROVE Packets'
  <2>1. Alone' /\ OwnIdent' /\ NoGap' /\ Stages' /\ StaysInside'
    BY <1>1, <1>3, AloneStep, OwnIdentStep, NoGapStep, StagesStep, InsideStep
  <2>2. Sent' /\ Intact'
    <3>1. CASE sent' = sent
      BY <1>1, <3>1, Zenon DEF Sent, Intact
    <3>2. CASE \E r \in Record : sent' = Append(sent, r) /\ r.bytes = Made(r.call, r.id)
      BY <1>1, <3>2, AppendSent
    <3> QED
      BY <1>1, <1>3, <3>1, <3>2, SentStep
  <2> QED
    BY <2>1, <2>2 DEF Packets, PacketInv
<1> QED
  BY <1>2, <1>3, Zenon DEF Next

\* Nothing is written at the beginning.
LEMMA PacketsInit == Init => Packets
<1> SUFFICES ASSUME Init PROVE Packets
  OBVIOUS
<1>1. /\ \A t \in Thread : ~Busy(t) /\ gap[t] = 0
      /\ sent = <<>> /\ outside = FALSE
  BY DEF Init, Busy
<1>2. Alone /\ OwnIdent /\ NoGap /\ Stages /\ StaysInside
  BY <1>1, Zenon DEF Alone, OwnIdent, NoGap, Stages, StaysInside
<1>3. Sent /\ Intact
  <2>1. sent \in Seq([call : Call, id : 0 .. IdentMod - 1, bytes : Seq(Nat)]) /\ Len(sent) = 0
    BY <1>1
  <2>2. 1 .. Len(sent) = {}
    BY <2>1
  <2> QED
    BY <2>1, <2>2, Zenon DEF Sent, Intact
<1> QED
  BY <1>2, <1>3 DEF Packets, PacketInv

\* So they are in every reachable state.
LEMMA PacketsAlways == Spec => []Packets
<1>1. TypeOK /\ Programs /\ Packets /\ [Next]_vars => (TypeOK /\ Programs /\ Packets)'
  BY TypeStep, PacketsStep
<1> QED
  BY TypeInit, PacketsInit, <1>1, PTL DEF Spec

----------------------------------------------------------------------------
\* What the API functions and the replies promise, whatever earlier calls left in
\* mqttnox_tx_buf and however calls of other threads overlapped them: a call that runs
\* alone hands send() the packet MQTT defines for it, unless one of its strings is
\* empty or its one length byte is too small; of PUBREL and PUBCOMP it is the packet
\* of the identifier with its two bytes exchanged.
THEOREM PacketsIntact == Spec => []Intact
<1>1. Packets => Intact
  BY DEF Packets
<1> QED
  BY PacketsAlways, <1>1, PTL

\* No statement of a call that runs alone, and whose packet fits, writes outside
\* mqttnox_tx_buf: a write that leaves the buffer belongs to a packet too long, or to
\* two calls at once.
THEOREM WritesInside == Spec => []StaysInside
<1>1. Packets => StaysInside
  BY DEF Packets
<1> QED
  BY PacketsAlways, <1>1, PTL
=============================================================================
