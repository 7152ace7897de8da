-------------------------- MODULE RemainLenProofs --------------------------
(***************************************************************************)
(* The remaining-length encoder is correct for every length a packet can   *)
(* have, and the decoder reads back every field of up to three bytes.      *)
(***************************************************************************)
EXTENDS RemainLen, TLAPS

\* The four size classes of the encoder, with the masks worked out.
LEMMA Encoded1 ==
  ASSUME NEW n \in Nat, n <= 127
  PROVE  mqttnox_set_remain_len(n) = <<n>>
  BY SMT DEF mqttnox_set_remain_len, MaxThreeBytes

\* The field of a length of two bytes.
LEMMA Encoded2 ==
  ASSUME NEW n \in Nat, n > 127, n <= 16383
  PROVE  mqttnox_set_remain_len(n) = <<(n % 128) + 128, n \div 128>>
  BY SMT DEF mqttnox_set_remain_len, Continued, Bits7, MaxThreeBytes

\* The field of a length of three bytes.
LEMMA Encoded3 ==
  ASSUME NEW n \in Nat, n > 16383, n <= MaxThreeBytes
  PROVE  mqttnox_set_remain_len(n) =
           <<(n % 128) + 128, ((n \div 128) % 128) + 128, n \div 16384>>
  BY SMT DEF mqttnox_set_remain_len, Continued, Bits7, Bits14, MaxThreeBytes

\* The field of a length of four bytes.
LEMMA Encoded4 ==
  ASSUME NEW n \in Nat, n > MaxThreeBytes, n <= MaxLen
  PROVE  mqttnox_set_remain_len(n) =
           <<(n % 128) + 128, ((n \div 128) % 128) + 128,
             ((n \div 16384) % 128) + 128, n \div Weight4>>
  BY SMT DEF mqttnox_set_remain_len, Continued, Bits7, Bits14, Bits21, MaxLen,
             MaxThreeBytes, Weight4

\* The bytes that may occur before the last and as the last of a longer field,
\* and the values of fields of two, three and four bytes.
Cont == 128 .. 255
Last == 1 .. 127
Value2(a, c) == (a - 128) + c * 128
Value3(a, c, d) == (a - 128) + (c - 128) * 128 + d * 16384
Value4(a, c, d, e) ==
  (a - 128) + (c - 128) * 128 + (d - 128) * 16384 + e * Weight4

\* A field of one to four bytes: its length, well-formedness, value.
LEMMA Field1 ==
  ASSUME NEW a \in 0 .. 127
  PROVE  /\ Len(<<a>>) = 1 /\ <<a>> \in Seq(0 .. 255)
         /\ WellFormed(<<a>>)
         /\ Value(<<a>>) = a
<1> DEFINE b == <<a>>
<1>1. /\ Len(b) = 1 /\ b \in Seq(0 .. 255)
      /\ b[1] = a
  OBVIOUS
<1> HIDE DEF b
<1>2. Value(b) = a
  <2>0. a % 128 = a
    BY SMT
  <2>1. Digit(b, 1) = a
    BY <1>1, <2>0, SMT DEF Digit
  <2>2. Digit(b, 2) = 0
    BY <1>1, <2>0, SMT DEF Digit
  <2>3. Digit(b, 3) = 0
    BY <1>1, <2>0, SMT DEF Digit
  <2>4. Digit(b, 4) = 0
    BY <1>1, <2>0, SMT DEF Digit
  <2> QED
    BY <2>1, <2>2, <2>3, <2>4, SMT DEF Value, Weight4
<1>3. WellFormed(b)
  <2>1. \A i \in 1 .. 1 : i = 1
    OBVIOUS
  <2>2. b[1] \in 0 .. 255 /\ (b[1] >= 128 <=> 1 < 1)
    BY <1>1, SMT
  <2>3. \A i \in 1 .. 1 : b[i] \in 0 .. 255 /\ (b[i] >= 128 <=> i < 1)
    BY <2>1, <2>2
  <2> QED
    BY <1>1, <2>2, <2>3, SMT DEF WellFormed
<1> QED
  BY <1>1, <1>2, <1>3 DEF b

\* A field of two bytes and its value.
LEMMA Field2 ==
  ASSUME NEW a \in Cont, NEW c \in Last
  PROVE  /\ Len(<<a, c>>) = 2 /\ <<a, c>> \in Seq(0 .. 255)
         /\ WellFormed(<<a, c>>)
         /\ Value(<<a, c>>) = Value2(a, c)
<1> DEFINE b == <<a, c>>
<1>1. /\ Len(b) = 2 /\ b \in Seq(0 .. 255)
      /\ b[1] = a /\ b[2] = c
  BY DEF Cont, Last
<1> HIDE DEF b
<1>2. Value(b) = Value2(a, c)
  <2>0. a % 128 = a - 128 /\ c % 128 = c
    BY SMT DEF Cont, Last
  <2>1. Digit(b, 1) = a - 128
    BY <1>1, <2>0, SMT DEF Digit, Cont, Last
  <2>2. Digit(b, 2) = c
    BY <1>1, <2>0, SMT DEF Digit, Cont, Last
  <2>3. Digit(b, 3) = 0
    BY <1>1, <2>0, SMT DEF Digit, Cont, Last
  <2>4. Digit(b, 4) = 0
    BY <1>1, <2>0, SMT DEF Digit, Cont, Last
  <2> QED
    BY <2>1, <2>2, <2>3, <2>4, SMT DEF Value, Value2, Weight4, Cont, Last
<1>3. WellFormed(b)
  <2>1. \A i \in 1 .. 2 : i = 1 \/ i = 2
    OBVIOUS
  <2>2. b[1] \in 0 .. 255 /\ (b[1] >= 128 <=> 1 < 2)
    BY <1>1, SMT DEF Cont, Last
  <2>3. b[2] \in 0 .. 255 /\ (b[2] >= 128 <=> 2 < 2) /\ b[2] # 0
    BY <1>1, SMT DEF Cont, Last
  <2>4. \A i \in 1 .. 2 : b[i] \in 0 .. 255 /\ (b[i] >= 128 <=> i < 2)
    BY <2>1, <2>2, <2>3
  <2> QED
    BY <1>1, <2>3, <2>4, SMT DEF WellFormed
<1> QED
  BY <1>1, <1>2, <1>3 DEF b

\* A field of three bytes and its value.
LEMMA Field3 ==
  ASSUME NEW a \in Cont, NEW c \in Cont, NEW d \in Last
  PROVE  /\ Len(<<a, c, d>>) = 3 /\ <<a, c, d>> \in Seq(0 .. 255)
         /\ WellFormed(<<a, c, d>>)
         /\ Value(<<a, c, d>>) = Value3(a, c, d)
<1> DEFINE b == <<a, c, d>>
<1>1. /\ Len(b) = 3 /\ b \in Seq(0 .. 255)
      /\ b[1] = a /\ b[2] = c /\ b[3] = d
  BY DEF Cont, Last
<1> HIDE DEF b
<1>2. Value(b) = Value3(a, c, d)
  <2>0. a % 128 = a - 128 /\ c % 128 = c - 128 /\ d % 128 = d
    BY SMT DEF Cont, Last
  <2>1. Digit(b, 1) = a - 128
    BY <1>1, <2>0, SMT DEF Digit, Cont, Last
  <2>2. Digit(b, 2) = c - 128
    BY <1>1, <2>0, SMT DEF Digit, Cont, Last
  <2>3. Digit(b, 3) = d
    BY <1>1, <2>0, SMT DEF Digit, Cont, Last
  <2>4. Digit(b, 4) = 0
    BY <1>1, <2>0, SMT DEF Digit, Cont, Last
  <2> QED
    BY <2>1, <2>2, <2>3, <2>4, SMT DEF Value, Value3, Weight4, Cont, Last
<1>3. WellFormed(b)
  <2>1. \A i \in 1 .. 3 : i = 1 \/ i = 2 \/ i = 3
    OBVIOUS
  <2>2. b[1] \in 0 .. 255 /\ (b[1] >= 128 <=> 1 < 3)
    BY <1>1, SMT DEF Cont, Last
  <2>3. b[2] \in 0 .. 255 /\ (b[2] >= 128 <=> 2 < 3)
    BY <1>1, SMT DEF Cont, Last
  <2>4. b[3] \in 0 .. 255 /\ (b[3] >= 128 <=> 3 < 3) /\ b[3] # 0
    BY <1>1, SMT DEF Cont, Last
  <2>5. \A i \in 1 .. 3 : b[i] \in 0 .. 255 /\ (b[i] >= 128 <=> i < 3)
    BY <2>1, <2>2, <2>3, <2>4
  <2> QED
    BY <1>1, <2>4, <2>5, SMT DEF WellFormed
<1> QED
  BY <1>1, <1>2, <1>3 DEF b

\* A field of four bytes and its value.
LEMMA Field4 ==
  ASSUME NEW a \in Cont, NEW c \in Cont, NEW d \in Cont,
         NEW e \in Last
  PROVE  /\ Len(<<a, c, d, e>>) = 4 /\ <<a, c, d, e>> \in Seq(0 .. 255)
         /\ WellFormed(<<a, c, d, e>>)
         /\ Value(<<a, c, d, e>>) = Value4(a, c, d, e)
<1> DEFINE b == <<a, c, d, e>>
<1>1. /\ Len(b) = 4 /\ b \in Seq(0 .. 255)
      /\ b[1] = a /\ b[2] = c /\ b[3] = d /\ b[4] = e
  BY DEF Cont, Last
<1> HIDE DEF b
<1>2. Value(b) = Value4(a, c, d, e)
  <2>0. a % 128 = a - 128 /\ c % 128 = c - 128 /\ d % 128 = d - 128 /\ e % 128 = e
    BY SMT DEF Cont, Last
  <2>1. Digit(b, 1) = a - 128
    BY <1>1, <2>0, SMT DEF Digit, Cont, Last
  <2>2. Digit(b, 2) = c - 128
    BY <1>1, <2>0, SMT DEF Digit, Cont, Last
  <2>3. Digit(b, 3) = d - 128
    BY <1>1, <2>0, SMT DEF Digit, Cont, Last
  <2>4. Digit(b, 4) = e
    BY <1>1, <2>0, SMT DEF Digit, Cont, Last
  <2> QED
    BY <2>1, <2>2, <2>3, <2>4, SMT DEF Value, Value4, Weight4, Cont, Last
<1>3. WellFormed(b)
  <2>1. \A i \in 1 .. 4 : i = 1 \/ i = 2 \/ i = 3 \/ i = 4
    OBVIOUS
  <2>2. b[1] \in 0 .. 255 /\ (b[1] >= 128 <=> 1 < 4)
    BY <1>1, SMT DEF Cont, Last
  <2>3. b[2] \in 0 .. 255 /\ (b[2] >= 128 <=> 2 < 4)
    BY <1>1, SMT DEF Cont, Last
  <2>4. b[3] \in 0 .. 255 /\ (b[3] >= 128 <=> 3 < 4)
    BY <1>1, SMT DEF Cont, Last
  <2>5. b[4] \in 0 .. 255 /\ (b[4] >= 128 <=> 4 < 4) /\ b[4] # 0
    BY <1>1, SMT DEF Cont, Last
  <2>6. \A i \in 1 .. 4 : b[i] \in 0 .. 255 /\ (b[i] >= 128 <=> i < 4)
    BY <2>1, <2>2, <2>3, <2>4, <2>5
  <2> QED
    BY <1>1, <2>5, <2>6, SMT DEF WellFormed
<1> QED
  BY <1>1, <1>2, <1>3 DEF b

\* The bytes of the encoded field, by size class.
LEMMA Bytes ==
  ASSUME NEW n \in Nat, n <= MaxLen
  PROVE  \/ /\ n \in 0 .. 127
            /\ mqttnox_set_remain_len(n) = <<n>>
         \/ \E a \in Cont, c \in Last :
              /\ n = Value2(a, c)
              /\ mqttnox_set_remain_len(n) = <<a, c>>
         \/ \E a, c \in Cont, d \in Last :
              /\ n = Value3(a, c, d)
              /\ mqttnox_set_remain_len(n) = <<a, c, d>>
         \/ /\ n > MaxThreeBytes
            /\ \E a, c, d \in Cont, e \in Last :
                 /\ n = Value4(a, c, d, e)
                 /\ mqttnox_set_remain_len(n) = <<a, c, d, e>>
<1>1. CASE n <= 127
  <2>1. n \in 0 .. 127
    BY <1>1, SMT
  <2> QED
    BY <1>1, <2>1, Encoded1, Zenon
<1>2. CASE n > 127 /\ n <= 16383
  <2> DEFINE a == (n % 128) + 128
             c == n \div 128
  <2>1. a \in Cont
    BY <1>2, SMT DEF Cont
  <2>2. c \in Last
    BY <1>2, SMT DEF Last
  <2>3. n = Value2(a, c)
    BY <1>2, SMT DEF Value2
  <2>4. mqttnox_set_remain_len(n) = <<a, c>>
    BY <1>2, Encoded2, SMT
  <2> HIDE DEF a, c
  <2> QED
    BY <2>1, <2>2, <2>3, <2>4, Zenon
<1>3. CASE n > 16383 /\ n <= MaxThreeBytes
  <2> DEFINE a == (n % 128) + 128
             c == ((n \div 128) % 128) + 128
             d == n \div 16384
  <2>1. a \in Cont
    BY <1>3, SMT DEF Cont
  <2>2. c \in Cont
    BY <1>3, SMT DEF Cont
  <2>3. d \in Last
    BY <1>3, SMT DEF Last, MaxThreeBytes
  <2>4. n = Value3(a, c, d)
    BY <1>3, SMT DEF Value3
  <2>5. mqttnox_set_remain_len(n) = <<a, c, d>>
    BY <1>3, Encoded3, SMT
  <2> HIDE DEF a, c, d
  <2> QED
    BY <2>1, <2>2, <2>3, <2>4, <2>5, Zenon
<1>4. CASE n > MaxThreeBytes
  <2> DEFINE a == (n % 128) + 128
             c == ((n \div 128) % 128) + 128
             d == ((n \div 16384) % 128) + 128
             e == n \div Weight4
  <2>1. a \in Cont
    BY <1>4, SMT DEF Cont
  <2>2. c \in Cont
    BY <1>4, SMT DEF Cont
  <2>3. d \in Cont
    BY <1>4, SMT DEF Cont
  <2>4. e \in Last
    BY <1>4, SMT DEF Last, MaxThreeBytes, MaxLen, Weight4
  <2>5. n = Value4(a, c, d, e)
    BY <1>4, SMT DEF Value4, Weight4
  <2>6. mqttnox_set_remain_len(n) = <<a, c, d, e>>
    BY <1>4, Encoded4, SMT
  <2> HIDE DEF a, c, d, e
  <2> QED
    BY <1>4, <2>1, <2>2, <2>3, <2>4, <2>5, <2>6, Zenon
<1>5. n <= 127 \/ (n > 127 /\ n <= 16383) \/ (n > 16383 /\ n <= MaxThreeBytes)
        \/ n > MaxThreeBytes
  BY SMT DEF MaxThreeBytes
<1> QED
  BY <1>1, <1>2, <1>3, <1>4, <1>5

\* Whatever its size class, the field is well formed and its value the length;
\* four bytes are written only beyond MaxThreeBytes.
LEMMA FieldCorrect ==
  ASSUME NEW n \in Nat, n <= MaxLen
  PROVE  /\ WellFormed(mqttnox_set_remain_len(n))
         /\ Value(mqttnox_set_remain_len(n)) = n
         /\ mqttnox_set_remain_len(n) \in Seq(0 .. 255)
         /\ Len(mqttnox_set_remain_len(n)) \in 1 .. 3 \/ n > MaxThreeBytes
<1> DEFINE b == mqttnox_set_remain_len(n)
<1>0. 1 \in 1 .. 3 /\ 2 \in 1 .. 3 /\ 3 \in 1 .. 3
  BY SMT
<1>1. CASE n \in 0 .. 127 /\ b = <<n>>
  BY <1>0, <1>1, Field1, Zenon
<1>2. CASE \E a \in Cont, c \in Last :
             n = Value2(a, c) /\ b = <<a, c>>
  BY <1>0, <1>2, Field2, Zenon
<1>3. CASE \E a, c \in Cont, d \in Last :
             n = Value3(a, c, d) /\ b = <<a, c, d>>
  <2>1. PICK a \in Cont, c \in Cont, d \in Last :
          n = Value3(a, c, d) /\ b = <<a, c, d>>
    BY <1>3, Zenon
  <2>2. /\ Len(<<a, c, d>>) = 3 /\ <<a, c, d>> \in Seq(0 .. 255)
        /\ WellFormed(<<a, c, d>>)
        /\ Value(<<a, c, d>>) = Value3(a, c, d)
    BY Field3, Zenon
  <2> QED
    BY <1>0, <2>1, <2>2, Zenon
<1>4. CASE /\ n > MaxThreeBytes
           /\ \E a, c, d \in Cont, e \in Last :
                /\ n = Value4(a, c, d, e)
                /\ b = <<a, c, d, e>>
  <2>1. PICK a \in Cont, c \in Cont, d \in Cont, e \in Last :
          /\ n = Value4(a, c, d, e)
          /\ b = <<a, c, d, e>>
    BY <1>4, Zenon
  <2>2. /\ <<a, c, d, e>> \in Seq(0 .. 255) /\ WellFormed(<<a, c, d, e>>)
        /\ Value(<<a, c, d, e>>)
             = Value4(a, c, d, e)
    BY Field4
  <2> QED
    BY <1>4, <2>1, <2>2, Zenon
<1> QED
  BY <1>1, <1>2, <1>3, <1>4, Bytes, Zenon

\* In a well-formed field of n bytes, the i-th ends it just when i is n.
LEMMA LastByte ==
  ASSUME NEW x \in 0 .. 255, NEW n \in Nat, NEW i \in 1 .. n, x >= 128 <=> i < n
  PROVE  x < 128 <=> i = n
  BY SMT

\* The decoder stops at the last byte of a well-formed field of at most three.
LEMMA DecodesField ==
  ASSUME NEW b \in Seq(0 .. 255), WellFormed(b), Len(b) <= 3, NEW old
  PROVE  mqttnox_decode_remain_len(b, old) = <<Len(b), Value(b)>>
<1> DEFINE n == Len(b)
<1>b. n \in 1 .. 4 /\ n <= 3
  BY Zenon DEF WellFormed
<1>a. \A i \in 1 .. n : b[i] \in 0 .. 255 /\ (b[i] >= 128 <=> i < n)
  BY Zenon DEF WellFormed
<1> HIDE DEF n
<1>0. n \in 1 .. 3 /\ n \in Nat
  BY <1>b, SMT
<1>1. n \in 1 .. n
  BY <1>0, SMT
<1>2. Ends(b, n)
  <2>1. b[n] < 128
    <3>1. b[n] \in 0 .. 255 /\ (b[n] >= 128 <=> n < n)
      BY <1>a, <1>1, Zenon
    <3> QED
      BY <1>0, <1>1, <3>1, LastByte, Zenon
  <2>2. \A j \in 1 .. n - 1 : b[j] >= 128
    BY <1>0, <1>a, SMT
  <2> QED
    BY <1>0, <2>1, <2>2, SMT DEF Ends
<1>3. ASSUME NEW i \in 1 .. n, Ends(b, i) PROVE i = n
  <2>1. b[i] < 128
    BY <1>3, Zenon DEF Ends
  <2>2. b[i] \in 0 .. 255 /\ (b[i] >= 128 <=> i < n)
    BY <1>a, Zenon
  <2> QED
    BY <1>0, <2>1, <2>2, LastByte, Zenon
<1>4. (CHOOSE i \in 1 .. n : Ends(b, i)) = n
  BY <1>1, <1>2, <1>3
<1>5. SubSeq(b, 1, n) = b
  BY DEF n
<1> QED
  BY <1>1, <1>2, <1>4, <1>5 DEF n, mqttnox_decode_remain_len

\* What the two functions made of len, at each point of the round trip.
RoundTripInv ==
  /\ len \in Nat
  /\ pc # "encode" => buffer = mqttnox_set_remain_len(len)
  /\ pc = "done" /\ buffer # <<>> => out = mqttnox_decode_remain_len(buffer, 0)

\* The inductive invariant holds in every reachable state.
LEMMA RoundTripInductive == Spec => []RoundTripInv
<1>1. Init => RoundTripInv
  BY LensAssumption DEF Init, RoundTripInv
<1>2. RoundTripInv /\ [Next]_vars => RoundTripInv'
  BY DEF RoundTripInv, Next, Encode, Decode, vars
<1> QED
  BY <1>1, <1>2, PTL DEF Spec

\* mqttnox_set_remain_len writes MQTT's field for every packet length.
THEOREM EncoderCorrect == Spec => []EncodedRight
<1>1. RoundTripInv => EncodedRight
  BY FieldCorrect DEF RoundTripInv, EncodedRight
<1> QED
  BY <1>1, RoundTripInductive, PTL

\* mqttnox_decode_remain_len undoes mqttnox_set_remain_len up to MaxThreeBytes,
\* the lengths whose field has at most three bytes.
THEOREM RoundTripCorrect == Spec => []RoundTrip
<1>1. RoundTripInv => RoundTrip
  <2> SUFFICES ASSUME RoundTripInv, pc = "done", len <= MaxThreeBytes
               PROVE  out = <<Len(buffer), len>>
    BY DEF RoundTrip
  <2>1. /\ buffer = mqttnox_set_remain_len(len) /\ len \in Nat
        /\ buffer # <<>> => out = mqttnox_decode_remain_len(buffer, 0)
    BY DEF RoundTripInv
  <2>a. len <= MaxLen /\ ~(len > MaxThreeBytes)
    BY <2>1, SMT DEF MaxThreeBytes, MaxLen
  <2>2. buffer \in Seq(0 .. 255) /\ Len(buffer) \in 1 .. 3
    BY <2>1, <2>a, FieldCorrect, Zenon
  <2>3. buffer # <<>>
    <3>1. Len(<<>>) = 0
      OBVIOUS
    <3>2. Len(buffer) # 0
      BY <2>2
    <3> QED
      BY <3>1, <3>2, Zenon
  <2>4. WellFormed(buffer) /\ Value(buffer) = len
    BY <2>1, <2>a, FieldCorrect, Zenon
  <2>5. Len(buffer) <= 3
    <3>1. \A k \in 1 .. 3 : k <= 3
      BY SMT
    <3> QED
      BY <2>2, <3>1, Zenon
  <2> QED
    BY <2>1, <2>2, <2>3, <2>4, <2>5, DecodesField
<1> QED
  BY <1>1, RoundTripInductive, PTL
=============================================================================
