----------------------------- MODULE MCSession -----------------------------
(***************************************************************************)
(* Instances of Session for TLC.  Bytes have three values, the fewest that *)
(* hold the remaining length 2 of an acknowledgement.                      *)
(***************************************************************************)
EXTENDS Session

\* packet_ident starts one below the carry into the high byte.
MCFirstIdent == <<0, 2>>

\* packet_ident starts at a value whose low byte is not the remaining length 2.
LowIdent == <<0, 1>>

\* The broker's messages: one of QoS 0 and two of QoS 1, or one of QoS 1 or 2.
Qos011 == (<<0, 0>> :> 0) @@ (<<0, 1>> :> 1) @@ (<<1, 0>> :> 1)
Qos1 == <<0, 1>> :> 1
Qos2 == <<0, 1>> :> 2
Msgs011 == DOMAIN Qos011
Msgs1 == DOMAIN Qos1

(***************************************************************************)
(* Two views for TLC.  Ahead is what a later step can still look at:       *)
(* rcv_buf while a thread dispatches it, c2s while the broker is there,    *)
(* s2c while the socket is open; dirty only chooses among the connect      *)
(* events, which no property of these two runs mentions.  To it each view  *)
(* adds what the properties of its run look at in the histories.           *)
(***************************************************************************)
Ahead ==
  <<clientVars, sock, rpc, peer, bst, bout, callVars, conn, on, old, overlap,
    {rcv_buf : t \in {u \in Receivers : rpc[u] = "dispatch"}},
    IF peer = "up" THEN c2s ELSE <<>>, IF sock = "open" THEN s2c ELSE <<>>>>

\* SessionRequests: the sequences that its order properties compare.
Ordered ==
  <<Ahead, TypeOK, bsent, Ids(OnConn("RECEIVED")), Ids(OnConn("PUBLISHED")),
    Only(wire, Acknowledgements), Ids(Only(wire, Publications({1})))>>

\* SessionReconnect: whether wire starts with CONNECT, has a DISCONNECT, has
\* anything else after its first packet, and which messages have arrived.
Handshake ==
  <<Ahead, cleanStart, localClose \/ reopened, wire = <<>>,
    wire # <<>> /\ wire[1].type = "CONNECT", Disconnecting,
    \E i \in 2 .. Len(wire) : wire[i].type # "DISCONNECT",
    {OnConn("RECEIVED")[i].id : i \in DOMAIN OnConn("RECEIVED")}>>
=============================================================================
