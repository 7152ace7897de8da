----------------------------- MODULE RemainLen -----------------------------
(***************************************************************************)
(* The variable-length "remaining length" of a packet: a round trip of one *)
(* value through mqttnox_set_remain_len and mqttnox_decode_remain_len.     *)
(* The program encodes what it sends and decodes what it receives; that    *)
(* one undoes the other is what two clients of this library would rely on. *)
(* A byte is 0 .. 255; no step can exceed the width of a uint32_t.         *)
(***************************************************************************)
EXTENDS Naturals, Integers, Sequences

CONSTANT Lens  \* the values sent through the encoder

ASSUME LensAssumption == Lens \subseteq Nat

VARIABLES
  pc,      \* "encode", "decode" or "done"
  len,     \* the value
  buffer,  \* the bytes the encoder wrote, right-aligned in buffer[0..3]
  out      \* what the decoder returned and left in *len

vars == <<pc, len, buffer, out>>

\* The bounds of the last two size classes, and the weight of a fourth byte.
MaxThreeBytes == 2097151
MaxLen == 268435455
Weight4 == 2097152

\* b | (1 << 7), stored in a byte.
Continued(b) == IF b % 256 >= 128 THEN b % 256 ELSE (b % 256) + 128

\* (len & mask) >> shift: the masks 0x7FF0, 0x7FF000 and 0x7FF00000 keep the
\* bits up to 14, 22 and 30.
Bits7(n) == (n \div 128) % 256
Bits14(n) == (n \div 16384) % 512
Bits21(n) == (n \div Weight4) % 1024

mqttnox_set_remain_len_Bound(n) ==
  IF n <= 128 THEN <<n % 128>>
  ELSE IF n <= 16384 THEN <<Continued(n % 128), Bits7(n) % 128>>
  ELSE IF n <= MaxThreeBytes
  THEN <<Continued(n % 128), Continued(Bits7(n)), Bits14(n) % 256>>
  ELSE IF n <= MaxLen
  THEN <<Continued(n % 128), Continued(Bits7(n)), Continued(Bits14(n)),
         Bits21(n) % 256>>
  ELSE <<>>

mqttnox_set_remain_len(n) ==
  IF n <= 127 THEN <<n % 128>>
  ELSE IF n <= 16383 THEN <<Continued(n % 128), Bits7(n)>>
  ELSE IF n <= MaxThreeBytes
  THEN <<Continued(n % 128), Continued(Bits7(n)), Bits14(n) % 256>>
  ELSE IF n <= MaxLen
  THEN <<Continued(n % 128), Continued(Bits7(n)), Continued(Bits14(n)),
         Bits21(n) % 256>>
  ELSE <<>>

\* The last byte of the field, when the decoder finds it: it gives up after
\* reading a fourth byte.
Ends_Two(b, i) == b[i] < 128 /\ i <= 2 /\ \A j \in 1 .. i - 1 : b[j] >= 128
Ends(b, i) == b[i] < 128 /\ i <= 3 /\ \A j \in 1 .. i - 1 : b[j] >= 128

Digit(b, i) == IF i <= Len(b) THEN b[i] % 128 ELSE 0
Value(b) == Digit(b, 1) + Digit(b, 2) * 128 + Digit(b, 3) * 16384
              + Digit(b, 4) * Weight4

\* The result is <<bytes read, *len>>; *len keeps its old value after -1.
mqttnox_decode_remain_len(b, old) ==
  IF \E i \in 1 .. Len(b) : Ends(b, i)
  THEN LET n == CHOOSE i \in 1 .. Len(b) : Ends(b, i)
       IN <<n, Value(SubSeq(b, 1, n))>>
  ELSE <<-1, old>>

Init ==
  /\ pc = "encode" /\ len \in Lens /\ buffer = <<>> /\ out = <<0, 0>>

Encode ==
  /\ pc = "encode"
  /\ buffer' = mqttnox_set_remain_len(len)
  /\ pc' = IF buffer' = <<>> THEN "done" ELSE "decode"
  /\ UNCHANGED <<len, out>>

Decode ==
  /\ pc = "decode"
  /\ out' = mqttnox_decode_remain_len(buffer, 0)
  /\ pc' = "done"
  /\ UNCHANGED <<len, buffer>>

Next == Encode \/ Decode
Spec == Init /\ [][Next]_vars
----------------------------------------------------------------------------
\* MQTT's definition of the field: at most four bytes, all but the last with
\* the continuation bit, no superfluous last byte.
WellFormed(b) ==
  /\ Len(b) \in 1 .. 4
  /\ \A i \in 1 .. Len(b) : b[i] \in 0 .. 255 /\ (b[i] >= 128 <=> i < Len(b))
  /\ Len(b) > 1 => b[Len(b)] # 0

\* Every length a packet can have is written as the field MQTT defines for it,
\* across the four size classes and their boundaries.
EncodedRight ==
  pc # "encode" /\ len <= MaxLen => WellFormed(buffer) /\ Value(buffer) = len

\* A length of up to three bytes is read back whole, and the decoder consumes
\* exactly the bytes that were written.
RoundTrip ==
  pc = "done" /\ len <= MaxThreeBytes => out = <<Len(buffer), len>>
=============================================================================
