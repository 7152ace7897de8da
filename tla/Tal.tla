-------------------------------- MODULE Tal --------------------------------
(***************************************************************************)
(* The Windows TCP abstraction layer, call by call: mqttnox_tcp_connect    *)
(* with every way it can fail, mqttnox_tcp_send, mqttnox_tcp_disconnect    *)
(* and the receive threads, around the global ClientSocket that each of    *)
(* them reads again whenever it uses it.                                   *)
(*                                                                         *)
(* The actors are the application, which connects and disconnects, the     *)
(* command line thread, which sends, and one receive thread per connection *)
(* made, which also sends the replies of the handlers.  Sockets are        *)
(* numbered in the order socket() makes them; receive thread s is the one  *)
(* started for socket s.                                                   *)
(***************************************************************************)
EXTENDS Naturals, FiniteSets

CONSTANT MaxSock  \* bound: sockets made

ASSUME MaxSockAssumption == MaxSock \in Nat

Sock == 1 .. MaxSock
App == MaxSock + 1
Cmd == MaxSock + 2
Actor == Sock \cup {App, Cmd}
INVALID_SOCKET == 0

VARIABLES
  ClientSocket,
  sk,         \* each socket: "none", "made", "conn" (connected), "closed"
  remote,     \* its peer: "up", "fin" (has closed), "reset"
  data,       \* bytes of the peer wait to be read
  wsa,        \* WSAStartup calls without their WSACleanup
  pc,         \* where each actor is
  rcvOn,      \* the socket a receive thread's recv() was called with
  result,     \* what the last mqttnox_tcp_connect returned: 0 or 1 (failed)
  closedBy,   \* history: what closed each socket
  crossed     \* history: a connect replaced an open socket, or was under way
              \* while another actor was about to close

sockVars == <<sk, remote, data, closedBy>>
vars == <<ClientSocket, sockVars, wsa, pc, rcvOn, result, crossed>>

----------------------------------------------------------------------------
(* Winsock (external)                                                      *)

Usable(s) == s # INVALID_SOCKET /\ sk[s] \in {"made", "conn"}
Connected(s) == s # INVALID_SOCKET /\ sk[s] = "conn"
Live(s) == Connected(s) /\ remote[s] = "up"

\* What closing a set of open sockets leaves.
Close(by, S) ==
  /\ sk' = [s \in Sock |-> IF s \in S THEN "closed" ELSE sk[s]]
  /\ remote' = [s \in Sock |-> IF s \in S THEN "up" ELSE remote[s]]
  /\ data' = [s \in Sock |-> data[s] /\ s \notin S]
  /\ closedBy' = [s \in Sock |-> IF s \in S THEN by ELSE closedBy[s]]

\* Closing a socket that is not open fails.
closesocket(by, s) == Close(by, {s} \cap {r \in Sock : Usable(r)})

\* The last WSACleanup closes every socket; one too many fails.
WSACleanup ==
  /\ wsa' = IF wsa = 0 THEN 0 ELSE wsa - 1
  /\ Close("cleanup", IF wsa = 1 THEN {s \in Sock : Usable(s)} ELSE {})

----------------------------------------------------------------------------
(* mqttnox_tcp_send                                                        *)

Goes(a, to) == pc' = [pc EXCEPT ![a] = to]

\* Where an actor stands when it calls mqttnox_tcp_send, and where it goes on
\* when it returns: mqttnox_disconnect ends when send() failed.
SendsAt(a) ==
  CASE a = App -> {"hello", "bye"} [] a = Cmd -> {"idle"} [] OTHER -> {"handle"}
Sent(a) ==
  CASE a = App /\ pc[a] = "bye" -> "disconnect" [] a \in Sock -> "recv" [] OTHER -> "idle"
NotSent_Loops(a) == "recv"
NotSent(a) == IF a \in Sock THEN "recv" ELSE "idle"

\* if (ret == SOCKET_ERROR)
AfterSend_Always(a, ok) == "failed"
AfterSend(a, ok) == IF ok THEN Sent(a) ELSE "failed"

\* What is sent to a peer that has closed may be accepted or not.
mqttnox_tcp_send(a) ==
  /\ pc[a] \in SendsAt(a)
  /\ \/ Connected(ClientSocket) /\ remote[ClientSocket] # "reset"
        /\ Goes(a, AfterSend(a, TRUE))
     \/ ~Live(ClientSocket) /\ Goes(a, AfterSend(a, FALSE))
  /\ UNCHANGED <<ClientSocket, sockVars, wsa, rcvOn, result, crossed>>

send_failed_close(a) ==
  /\ pc[a] = "failed"
  /\ closesocket("send", ClientSocket)
  /\ Goes(a, "failed_cleanup")
  /\ UNCHANGED <<ClientSocket, wsa, rcvOn, result, crossed>>

send_failed_cleanup(a) ==
  /\ pc[a] = "failed_cleanup"
  /\ WSACleanup
  /\ Goes(a, NotSent(a))
  /\ UNCHANGED <<ClientSocket, rcvOn, result, crossed>>

----------------------------------------------------------------------------
(* mqttnox_tcp_connect and mqttnox_tcp_disconnect, by the application      *)

Closing(a) ==
  pc[a] \in {"failed", "failed_cleanup", "closed", "disconnect", "disconnect_cleanup"}

Crosses ==
  crossed' = (crossed \/ (\E a \in Actor \ {App} : Closing(a))
                      \/ (pc[App] = "socket" /\ Usable(ClientSocket)))

\* The application may connect at any time, also over an open socket.
connect_startup ==
  /\ pc[App] = "idle" /\ \E s \in Sock : sk[s] = "none"
  /\ \/ wsa' = wsa + 1 /\ Goes(App, "resolve") /\ UNCHANGED result
     \/ wsa' = wsa /\ Goes(App, "idle") /\ result' = 1
  /\ UNCHANGED <<ClientSocket, sockVars, rcvOn, crossed>>

connect_resolve ==
  /\ pc[App] = "resolve"
  /\ \/ wsa > 0 /\ Goes(App, "socket") /\ UNCHANGED <<sockVars, wsa, result>>
     \/ WSACleanup /\ Goes(App, "idle") /\ result' = 1
  /\ UNCHANGED <<ClientSocket, rcvOn, crossed>>

connect_socket ==
  /\ pc[App] = "socket" /\ Crosses
  /\ \/ \E s \in Sock :
          /\ wsa > 0 /\ sk[s] = "none" /\ \A r \in 1 .. s - 1 : sk[r] # "none"
          /\ ClientSocket' = s /\ sk' = [sk EXCEPT ![s] = "made"]
          /\ Goes(App, "connect") /\ UNCHANGED <<remote, data, closedBy, wsa, result>>
     \/ /\ ClientSocket' = INVALID_SOCKET
        /\ WSACleanup /\ Goes(App, "idle") /\ result' = 1
  /\ UNCHANGED rcvOn

\* connect() on what ClientSocket holds; when it fails, nothing is undone.
connect_connect ==
  /\ pc[App] = "connect" /\ Crosses
  /\ \/ /\ Usable(ClientSocket) /\ Goes(App, "thread")
        /\ sk' = [sk EXCEPT ![ClientSocket] = "conn"] /\ UNCHANGED result
     \/ Goes(App, "idle") /\ result' = 1 /\ UNCHANGED sk
  /\ UNCHANGED <<ClientSocket, remote, data, closedBy, wsa, rcvOn>>

\* malloc() of the thread's argument, and _beginthread: when that fails, nobody
\* notices, and the connection has no receive thread.
connect_thread ==
  /\ pc[App] = "thread"
  /\ \/ \E at \in {"recv", "absent"} :
          /\ pc' = [pc EXCEPT ![App] = "hello", ![ClientSocket] = at]
          /\ result' = 0
     \/ Goes(App, "idle") /\ result' = 1
  /\ UNCHANGED <<ClientSocket, sockVars, wsa, rcvOn, crossed>>

\* mqttnox_disconnect, connected or not: send() first.
begin_disconnect ==
  /\ pc[App] = "idle" /\ Goes(App, "bye")
  /\ UNCHANGED <<ClientSocket, sockVars, wsa, rcvOn, result, crossed>>

disconnect_close ==
  /\ pc[App] = "disconnect" /\ closesocket("application", ClientSocket)
  /\ Goes(App, "disconnect_cleanup")
  /\ UNCHANGED <<ClientSocket, wsa, rcvOn, result, crossed>>

disconnect_cleanup ==
  /\ pc[App] = "disconnect_cleanup" /\ WSACleanup /\ Goes(App, "idle")
  /\ UNCHANGED <<ClientSocket, rcvOn, result, crossed>>

----------------------------------------------------------------------------
(* mqttnox_tcp_receive_thread                                              *)

call_recv(t) ==
  /\ pc[t] = "recv" /\ Goes(t, "in_recv")
  /\ rcvOn' = [rcvOn EXCEPT ![t] = ClientSocket]
  /\ UNCHANGED <<ClientSocket, sockVars, wsa, result, crossed>>

Returns(t) == pc[t] = "in_recv" /\ rcvOn' = [rcvOn EXCEPT ![t] = INVALID_SOCKET]

\* The callback, which may send a reply or not.
AfterData_Exit == "done"
AfterData == "recv"

recv_data(t) ==
  /\ Returns(t) /\ Connected(rcvOn[t]) /\ data[rcvOn[t]]
  /\ data' = [data EXCEPT ![rcvOn[t]] = FALSE]
  /\ Goes(t, "handle") \/ Goes(t, AfterData)
  /\ UNCHANGED <<ClientSocket, sk, remote, closedBy, wsa, result, crossed>>

\* recv() returned 0.
recv_closed(t) ==
  /\ Returns(t) /\ Connected(rcvOn[t]) /\ ~data[rcvOn[t]]
  /\ remote[rcvOn[t]] = "fin"
  /\ Goes(t, "closed")
  /\ UNCHANGED <<ClientSocket, sockVars, wsa, result, crossed>>

\* recv() returned SOCKET_ERROR, which the loop ignores.
recv_error(t) ==
  /\ Returns(t) /\ ~(Connected(rcvOn[t]) /\ remote[rcvOn[t]] # "reset")
  /\ Goes(t, "recv")
  /\ UNCHANGED <<ClientSocket, sockVars, wsa, result, crossed>>

\* "Connection has been closed": run = 0.
AfterClosed_Again == "recv"
AfterClosed == "done"

thread_close(t) ==
  /\ pc[t] = "closed" /\ Goes(t, AfterClosed)
  /\ closesocket(IF t = ClientSocket THEN "own thread" ELSE "other thread", ClientSocket)
  /\ UNCHANGED <<ClientSocket, wsa, rcvOn, result, crossed>>

----------------------------------------------------------------------------
(* The peer and the network (external)                                     *)

peer_sends(s) ==
  /\ Live(s) /\ ~data[s] /\ data' = [data EXCEPT ![s] = TRUE]
  /\ UNCHANGED <<ClientSocket, sk, remote, closedBy, wsa, pc, rcvOn, result, crossed>>

peer_ends(s) ==
  /\ Live(s) /\ \E r \in {"fin", "reset"} : remote' = [remote EXCEPT ![s] = r]
  /\ UNCHANGED <<ClientSocket, sk, data, closedBy, wsa, pc, rcvOn, result, crossed>>

----------------------------------------------------------------------------
Init ==
  /\ ClientSocket = INVALID_SOCKET
  /\ sk = [s \in Sock |-> "none"] /\ remote = [s \in Sock |-> "up"]
  /\ data = [s \in Sock |-> FALSE] /\ closedBy = [s \in Sock |-> "none"]
  /\ wsa = 0 /\ rcvOn = [t \in Sock |-> INVALID_SOCKET]
  /\ pc = [a \in Actor |-> IF a \in Sock THEN "none" ELSE "idle"]
  /\ result = 1 /\ crossed = FALSE

tcp_send(a) == mqttnox_tcp_send(a) \/ send_failed_close(a) \/ send_failed_cleanup(a)
tcp_connect ==
  \/ connect_startup \/ connect_resolve \/ connect_socket
  \/ connect_connect \/ connect_thread
tcp_disconnect == begin_disconnect \/ disconnect_close \/ disconnect_cleanup
receive_thread(t) ==
  call_recv(t) \/ recv_data(t) \/ recv_closed(t) \/ recv_error(t) \/ thread_close(t)

Next ==
  \/ tcp_connect \/ tcp_disconnect
  \/ \E a \in Actor : tcp_send(a)
  \/ \E s \in Sock : receive_thread(s) \/ peer_sends(s) \/ peer_ends(s)

Spec == Init /\ [][Next]_vars

\* A receive thread that can run is scheduled, and its calls return.
FairSpec == Spec /\ \A t \in Sock : WF_vars(receive_thread(t) \/ tcp_send(t))

----------------------------------------------------------------------------
(* Properties                                                              *)

AppPc == {"idle", "resolve", "socket", "connect", "thread", "hello", "bye",
          "disconnect", "disconnect_cleanup", "failed", "failed_cleanup"}
ThreadPc == {"none", "absent", "recv", "in_recv", "handle", "closed", "failed",
             "failed_cleanup", "done"}

Closer == {"none", "own thread", "other thread", "send", "application", "cleanup"}

TypeOK ==
  /\ ClientSocket \in Sock \cup {INVALID_SOCKET}
  /\ sk \in [Sock -> {"none", "made", "conn", "closed"}]
  /\ remote \in [Sock -> {"up", "fin", "reset"}]
  /\ data \in [Sock -> BOOLEAN] /\ wsa \in Nat
  /\ pc[App] \in AppPc /\ pc[Cmd] \in {"idle", "failed", "failed_cleanup"}
  /\ \A t \in Sock : pc[t] \in ThreadPc
  /\ rcvOn \in [Sock -> Sock \cup {INVALID_SOCKET}]
  /\ result \in {0, 1} /\ closedBy \in [Sock -> Closer]
  /\ crossed \in BOOLEAN

\* The current connection, while its peer is there, is closed by nothing but the
\* application's mqttnox_disconnect: neither by a sender or receive thread that
\* is late with an older connection nor by the count of WSACleanup; unless a
\* mqttnox_tcp_connect replaced an open socket or was under way while such an
\* actor was about to close.
ClosedOnPurpose ==
  [][ClientSocket' = ClientSocket /\ Live(ClientSocket) /\ ~Connected(ClientSocket)'
       => crossed \/ pc[App] = "disconnect"]_vars

\* After mqttnox_tcp_connect has returned 0, the open connection has its receive
\* thread, whatever older threads, failed sends and retried connects do, unless
\* _beginthread failed, whose result is not looked at ("absent").
Served ==
  result = 0 /\ Connected(ClientSocket) /\ pc[App] \notin {"connect", "thread"}
    => pc[ClientSocket] \notin {"none", "done"}

\* When the peer closes, the connection's receive thread ends, and with it
\* mqttnox_wait_thread; unless a failed send, its own replies included, or another
\* actor closes the socket first, or a new connection replaces it: then the thread
\* never ends.
WaitReturns ==
  \A s \in Sock :
    (Connected(s) /\ remote[s] = "fin" /\ rcvOn[s] = s /\ pc[s] = "in_recv")
      ~> (pc[s] = "done" \/ closedBy[s] \notin {"none", "own thread"} \/ ClientSocket # s)
=============================================================================
