---------------------------- MODULE MCRcvFraming ----------------------------
(***************************************************************************)
(* Streams for RcvFraming.  The sizes are scaled down: in the code a       *)
(* length field has two bytes from 128 on.                                 *)
(***************************************************************************)
EXTENDS RcvFraming, SequencesExt

\* A CONNACK or an acknowledgement, a longer PUBLISH, another acknowledgement.
Lb3 == <<1, 1, 1>>
Rem3 == <<2, 5, 2>>

\* Seven packets, some with a length field of two bytes.  The last is exactly as
\* long as the remaining length of the one before it.
Lb7 == <<1, 1, 2, 1, 1, 1, 2>>
Rem7 == <<2, 3, 3, 2, 2, 5, 2>>

Bytes(lb, rem) ==
  FlattenSeq([k \in 1 .. Len(lb) |->
                [i \in 1 .. 1 + lb[k] + rem[k] |-> <<k, i>>]])
Stream3 == Bytes(Lb3, Rem3)
Stream7 == Bytes(Lb7, Rem7)
=============================================================================
