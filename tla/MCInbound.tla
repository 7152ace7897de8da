----------------------------- MODULE MCInbound -----------------------------
(***************************************************************************)
(* Packets for Inbound, with lengths scaled down to LenBase 8 and buffers  *)
(* of a few bytes: topics of one and two bytes and one that fills its      *)
(* buffer, payloads from none to one that does not fit, and a topic that   *)
(* does not.                                                               *)
(***************************************************************************)
EXTENDS Inbound

Copies(b, n) == [i \in 1 .. n |-> b]
Publishes ==
  [type : {"PUBLISH"}, qos : 0 .. 2, id : {<<1, 2>>},
   topic : {Copies(65, 1), Copies(66, 2)}, payload : {Copies(97, n) : n \in {0, 1, 2, 4, 6}}]
Longest ==
  [type : {"PUBLISH"}, qos : {2}, id : {<<3, 0>>}, topic : {Copies(65, 4), Copies(65, 5)},
   payload : {Copies(98, 3)}]
Acks ==
  [type : {"PUBACK", "PUBREC", "PUBREL", "PUBCOMP", "UNSUBACK"}, id : {<<1, 2>>}]
Subacks == [type : {"SUBACK"}, id : {<<2, 1>>}, code : {1, 128}]
Connacks == [type : {"CONNACK"}, session : {1}, code : {0, 5}]
MCPackets == Publishes \cup Longest \cup Acks \cup Subacks \cup Connacks
=============================================================================
