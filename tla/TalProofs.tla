----------------------------- MODULE TalProofs -----------------------------
(***************************************************************************)
(* Theorems of Tal, for any number of sockets: the types, that an open     *)
(* connection has its receive thread, and that nothing but the             *)
(* application's disconnect closes a connection whose peer is there.       *)
(***************************************************************************)
EXTENDS Tal, TLAPS

\* Every actor stands somewhere.
Places == pc \in [Actor -> AppPc \cup ThreadPc]

\* The application is between socket() and _beginthread.
Opening == pc[App] \in {"connect", "thread"}

\* A receive thread was started for a socket that had been made, and when the
\* one of the current socket ends the socket is closed.
Threads ==
  /\ \A t \in Sock : pc[t] # "none" => sk[t] # "none"
  /\ Opening => ClientSocket # INVALID_SOCKET
  /\ ClientSocket # INVALID_SOCKET =>
       /\ sk[ClientSocket] # "none"
       /\ pc[ClientSocket] = "done" => sk[ClientSocket] = "closed"

\* Who closes or cleans up without the application's wish.
Late == {"failed", "failed_cleanup", "closed", "disconnect_cleanup"}

\* Open sockets hold a WSAStartup; only the current one is open unless connects
\* crossed; and while its peer is there, no actor is about to close it, and a
\* connect that is under way holds a WSAStartup of its own.
Counted == \A s \in Sock : Usable(s) => wsa > 0
OneOpen == ~crossed => \A s \in Sock : Usable(s) => s = ClientSocket
NoneLate ==
  ~crossed /\ Live(ClientSocket) =>
    /\ \A a \in Actor : pc[a] \notin Late
    /\ pc[App] \in {"resolve", "socket"} => wsa > 1

\* The threads that may call the layer.
LEMMA Actors ==
  /\ Actor = Sock \cup {App, Cmd} /\ App \notin Sock /\ Cmd \notin Sock /\ App # Cmd
  /\ INVALID_SOCKET \notin Sock /\ Sock \subseteq Nat
  BY MaxSockAssumption DEF Actor, Sock, App, Cmd, INVALID_SOCKET

\* What is allowed of an actor.
PlacesOf(a) == CASE a = App -> AppPc
                 [] a = Cmd -> {"idle", "failed", "failed_cleanup"}
                 [] OTHER -> ThreadPc

\* Each actor is at one of its own places.
LEMMA PlacesType ==
  ASSUME TypeOK, Places, NEW a \in Actor
  PROVE  pc[a] \in PlacesOf(a)
  BY Actors DEF TypeOK, PlacesOf

\* The same of the next state.
LEMMA PlacesNext ==
  ASSUME Places', \A a \in Actor : pc'[a] \in PlacesOf(a)
  PROVE  /\ pc'[App] \in AppPc /\ pc'[Cmd] \in {"idle", "failed", "failed_cleanup"}
         /\ \A t \in Sock : pc'[t] \in ThreadPc
  BY Actors DEF PlacesOf

\* A move from one place to another keeps them.
LEMMA GoesType ==
  ASSUME TypeOK, Places, NEW a \in Actor, NEW to \in PlacesOf(a), Goes(a, to)
  PROVE  /\ Places'
         /\ pc'[App] \in AppPc /\ pc'[Cmd] \in {"idle", "failed", "failed_cleanup"}
         /\ \A t \in Sock : pc'[t] \in ThreadPc
<1>1. to \in AppPc \cup ThreadPc
  BY Actors DEF PlacesOf, AppPc, ThreadPc
<1>2. Places'
  BY <1>1 DEF Goes, Places
<1>3. \A b \in Actor : pc'[b] \in PlacesOf(b)
  BY PlacesType DEF Goes, Places
<1> QED
  BY <1>2, <1>3, PlacesNext

\* Closing sockets keeps the types.
LEMMA CloseType ==
  ASSUME TypeOK, NEW by \in Closer, NEW S \in SUBSET Sock, Close(by, S)
  PROVE  /\ sk' \in [Sock -> {"none", "made", "conn", "closed"}]
         /\ remote' \in [Sock -> {"up", "fin", "reset"}]
         /\ data' \in [Sock -> BOOLEAN] /\ closedBy' \in [Sock -> Closer]
<1>1. sk' \in [Sock -> {"none", "made", "conn", "closed"}]
  BY DEF TypeOK, Close
<1>2. remote' \in [Sock -> {"up", "fin", "reset"}]
  BY DEF TypeOK, Close
<1>3. data' \in [Sock -> BOOLEAN]
  BY DEF TypeOK, Close
<1>4. closedBy' \in [Sock -> Closer]
  BY DEF TypeOK, Close
<1> QED
  BY <1>1, <1>2, <1>3, <1>4

\* So does WSACleanup.
LEMMA CleanupType ==
  ASSUME TypeOK, WSACleanup
  PROVE  /\ wsa' \in Nat
         /\ sk' \in [Sock -> {"none", "made", "conn", "closed"}]
         /\ remote' \in [Sock -> {"up", "fin", "reset"}]
         /\ data' \in [Sock -> BOOLEAN] /\ closedBy' \in [Sock -> Closer]
<1>1. wsa' \in Nat
  BY DEF TypeOK, WSACleanup
<1>2. PICK S \in SUBSET Sock : Close("cleanup", S)
  BY DEF WSACleanup
<1> QED
  BY <1>1, <1>2, CloseType DEF Closer

\* tcp_send takes its caller from one place to another.
LEMMA SendMoves ==
  ASSUME TypeOK, Places, NEW a \in Actor, tcp_send(a)
  PROVE  \E to \in PlacesOf(a) : Goes(a, to)
<1>1. pc[a] \in PlacesOf(a)
  BY PlacesType
<1>2. ASSUME NEW ok \in BOOLEAN, pc[a] \in SendsAt(a)
      PROVE  AfterSend(a, ok) \in PlacesOf(a)
  BY <1>1, Actors DEF AfterSend, Sent, PlacesOf, AppPc, ThreadPc
<1>3. NotSent(a) \in PlacesOf(a) /\ "failed_cleanup" \in PlacesOf(a)
  BY Actors DEF NotSent, PlacesOf, AppPc, ThreadPc
<1> QED
  BY <1>2, <1>3 DEF tcp_send, mqttnox_tcp_send, send_failed_close, send_failed_cleanup

\* tcp_send keeps the types.
LEMMA SendType ==
  ASSUME TypeOK, Places, NEW a \in Actor, tcp_send(a)
  PROVE  TypeOK' /\ Places'
<1>1. /\ Places'
      /\ pc'[App] \in AppPc /\ pc'[Cmd] \in {"idle", "failed", "failed_cleanup"}
      /\ \A t \in Sock : pc'[t] \in ThreadPc
  BY SendMoves, GoesType
<1>2. CASE mqttnox_tcp_send(a)
  BY <1>1, <1>2 DEF TypeOK, mqttnox_tcp_send, sockVars
<1>3. CASE send_failed_close(a)
  BY <1>1, <1>3, CloseType DEF TypeOK, send_failed_close, closesocket, Closer
<1>4. CASE send_failed_cleanup(a)
  BY <1>1, <1>4, CleanupType DEF TypeOK, send_failed_cleanup
<1> QED
  BY <1>1, <1>2, <1>3, <1>4 DEF tcp_send

\* tcp_connect and tcp_disconnect keep the types.
LEMMA ConnectType ==
  ASSUME TypeOK, Places, tcp_connect \/ tcp_disconnect, Threads
  PROVE  TypeOK' /\ Places'
<1>1. App \in Actor /\ PlacesOf(App) = AppPc
  BY Actors DEF PlacesOf
<1>2. ASSUME NEW to \in AppPc, Goes(App, to)
      PROVE  /\ Places'
             /\ pc'[App] \in AppPc /\ pc'[Cmd] \in {"idle", "failed", "failed_cleanup"}
             /\ \A t \in Sock : pc'[t] \in ThreadPc
  BY <1>1, <1>2, GoesType
<1>3. CASE connect_startup
  BY <1>2, <1>3 DEF TypeOK, connect_startup, sockVars, AppPc
<1>4. CASE connect_resolve
  <2>1. Places' /\ pc'[App] \in AppPc /\ pc'[Cmd] \in {"idle", "failed", "failed_cleanup"}
        /\ \A t \in Sock : pc'[t] \in ThreadPc
    BY <1>2, <1>4 DEF connect_resolve, AppPc
  <2> QED
    BY <1>4, <2>1, CleanupType DEF TypeOK, connect_resolve, sockVars
<1>5. CASE connect_socket
  <2>1. Places' /\ pc'[App] \in AppPc /\ pc'[Cmd] \in {"idle", "failed", "failed_cleanup"}
        /\ \A t \in Sock : pc'[t] \in ThreadPc
    BY <1>2, <1>5 DEF connect_socket, AppPc
  <2>2. crossed' \in BOOLEAN
    BY <1>5 DEF TypeOK, connect_socket, Crosses
  <2> QED
    BY <1>5, <2>1, <2>2, CleanupType DEF TypeOK, connect_socket
<1>6. CASE connect_connect
  <2>1. Places' /\ pc'[App] \in AppPc /\ pc'[Cmd] \in {"idle", "failed", "failed_cleanup"}
        /\ \A t \in Sock : pc'[t] \in ThreadPc
    BY <1>2, <1>6 DEF connect_connect, AppPc
  <2>2. crossed' \in BOOLEAN
    BY <1>6 DEF TypeOK, connect_connect, Crosses
  <2> QED
    BY <1>6, <2>1, <2>2 DEF TypeOK, connect_connect
<1>7. CASE connect_thread
  <2>1. ClientSocket \in Sock
    BY <1>7 DEF TypeOK, Threads, Opening, connect_thread
  <2>2. ASSUME NEW at \in {"recv", "absent"},
               pc' = [pc EXCEPT ![App] = "hello", ![ClientSocket] = at]
        PROVE  TypeOK' /\ Places'
    <3>1. \A a \in Actor : pc'[a] \in PlacesOf(a)
      BY <2>1, <2>2, Actors, PlacesType DEF Places, PlacesOf, AppPc, ThreadPc
    <3>2. Places'
      BY <2>1, <2>2 DEF Places, AppPc, ThreadPc
    <3> QED
      BY <1>7, <3>1, <3>2, PlacesNext DEF TypeOK, connect_thread, sockVars
  <2>3. CASE Goes(App, "idle")
    BY <1>2, <1>7, <2>3 DEF TypeOK, connect_thread, sockVars, AppPc
  <2> QED
    BY <1>7, <2>2, <2>3 DEF connect_thread
<1>8. CASE begin_disconnect
  BY <1>2, <1>8 DEF TypeOK, begin_disconnect, sockVars, AppPc
<1>9. CASE disconnect_close
  <2>1. Places' /\ pc'[App] \in AppPc /\ pc'[Cmd] \in {"idle", "failed", "failed_cleanup"}
        /\ \A t \in Sock : pc'[t] \in ThreadPc
    BY <1>2, <1>9 DEF disconnect_close, AppPc
  <2> QED
    BY <1>9, <2>1, CloseType DEF TypeOK, disconnect_close, closesocket, Closer
<1>10. CASE disconnect_cleanup
  <2>1. Places' /\ pc'[App] \in AppPc /\ pc'[Cmd] \in {"idle", "failed", "failed_cleanup"}
        /\ \A t \in Sock : pc'[t] \in ThreadPc
    BY <1>2, <1>10 DEF disconnect_cleanup, AppPc
  <2> QED
    BY <1>10, <2>1, CleanupType DEF TypeOK, disconnect_cleanup
<1> QED
  BY <1>3, <1>4, <1>5, <1>6, <1>7, <1>8, <1>9, <1>10 DEF tcp_connect, tcp_disconnect

\* A receive thread goes from one place to another.
LEMMA ThreadMoves ==
  ASSUME NEW t \in Sock, receive_thread(t)
  PROVE  \E to \in PlacesOf(t) : Goes(t, to)
<1>1. PlacesOf(t) = ThreadPc
  BY Actors DEF PlacesOf
<1> QED
  BY <1>1 DEF receive_thread, call_recv, recv_data, recv_closed, recv_error,
     thread_close, AfterData, AfterClosed, ThreadPc

\* A receive thread keeps the types.
LEMMA ThreadType ==
  ASSUME TypeOK, Places, NEW t \in Sock, receive_thread(t)
  PROVE  TypeOK' /\ Places'
<1>1. /\ Places'
      /\ pc'[App] \in AppPc /\ pc'[Cmd] \in {"idle", "failed", "failed_cleanup"}
      /\ \A u \in Sock : pc'[u] \in ThreadPc
  BY ThreadMoves, GoesType, Actors
<1>2. CASE call_recv(t)
  BY <1>1, <1>2 DEF TypeOK, call_recv, sockVars
<1>3. CASE recv_data(t)
  BY <1>1, <1>3 DEF TypeOK, recv_data, Returns
<1>4. CASE recv_closed(t) \/ recv_error(t)
  BY <1>1, <1>4 DEF TypeOK, recv_closed, recv_error, Returns, sockVars
<1>5. CASE thread_close(t)
  <2>1. \E by \in Closer : closesocket(by, ClientSocket)
    BY <1>5 DEF thread_close, Closer
  <2> QED
    BY <1>1, <1>5, <2>1, CloseType DEF TypeOK, thread_close, closesocket
<1> QED
  BY <1>1, <1>2, <1>3, <1>4, <1>5 DEF receive_thread

\* What the peer does keeps the types.
LEMMA PeerType ==
  ASSUME TypeOK, Places, NEW s \in Sock, peer_sends(s) \/ peer_ends(s)
  PROVE  TypeOK' /\ Places'
  BY DEF TypeOK, Places, peer_sends, peer_ends

\* No socket and no thread at the beginning.
LEMMA InitHolds ==
  Init => TypeOK /\ Places /\ Threads /\ Served /\ Counted /\ OneOpen /\ NoneLate
<1> SUFFICES ASSUME Init
             PROVE  TypeOK /\ Places /\ Threads /\ Served /\ Counted /\ OneOpen /\ NoneLate
  OBVIOUS
<1>1. pc = [a \in Actor |-> IF a \in Sock THEN "none" ELSE "idle"]
  BY DEF Init
<1>2. pc[App] = "idle" /\ pc[Cmd] = "idle" /\ \A t \in Sock : pc[t] = "none"
  BY <1>1, Actors
<1>3. TypeOK
  BY <1>2 DEF Init, TypeOK, AppPc, ThreadPc, Closer
<1>4. Places
  BY <1>1 DEF Places, AppPc, ThreadPc
<1>5. Threads /\ Counted /\ OneOpen
  BY <1>2 DEF Init, Threads, Opening, Counted, OneOpen, Usable
<1>6. Served /\ NoneLate
  BY DEF Init, Served, NoneLate, Live, Connected
<1> QED
  BY <1>3, <1>4, <1>5, <1>6

\* Every step keeps the types.
LEMMA TypeStep ==
  ASSUME TypeOK, Places, Threads, [Next]_vars
  PROVE  TypeOK' /\ Places'
<1>1. CASE UNCHANGED vars
  BY <1>1 DEF vars, sockVars, TypeOK, Places
<1> QED
  BY <1>1, SendType, ConnectType, ThreadType, PeerType DEF Next

----------------------------------------------------------------------------
(* What a step may do to the sockets and to an actor                       *)

\* Sockets are only closed, except by the two calls that make and connect one, and
\* the peer of an open one never returns.
KeptOrClosed(s) ==
  \/ sk'[s] = sk[s] /\ (remote'[s] = "up" => remote[s] = "up")
  \/ sk'[s] = "closed" /\ Usable(s)

OnlyCloses ==
  /\ ClientSocket' = ClientSocket
  /\ \A s \in Sock : KeptOrClosed(s)

\* Close and WSACleanup change open sockets alone.
LEMMA CloseCloses ==
  ASSUME TypeOK, NEW by, NEW S \in SUBSET Sock, Close(by, S), \A s \in S : Usable(s)
  PROVE  \A s \in Sock : KeptOrClosed(s)
  BY DEF Close, KeptOrClosed, TypeOK

\* closesocket leaves every socket as it is or closes it.
LEMMA SocketCloses ==
  ASSUME TypeOK, NEW by, NEW s0, closesocket(by, s0)
  PROVE  \A s \in Sock : KeptOrClosed(s)
  BY CloseCloses DEF closesocket

\* So does WSACleanup.
LEMMA CleanupCloses ==
  ASSUME TypeOK, WSACleanup
  PROVE  \A s \in Sock : KeptOrClosed(s)
<1>1. \E S \in SUBSET Sock : Close("cleanup", S) /\ \A s \in S : Usable(s)
  BY DEF WSACleanup
<1> QED
  BY <1>1, CloseCloses

\* The calls of a sender, of a receive thread and of the peer only close.
LEMMA SenderCloses ==
  ASSUME TypeOK, NEW a \in Actor, tcp_send(a)
  PROVE  OnlyCloses
  BY SocketCloses, CleanupCloses
  DEF tcp_send, mqttnox_tcp_send, send_failed_close, send_failed_cleanup, sockVars,
      OnlyCloses, KeptOrClosed

\* No receive thread and no peer opens a socket.
LEMMA ReceiverCloses ==
  ASSUME TypeOK, NEW t \in Sock, receive_thread(t) \/ peer_sends(t) \/ peer_ends(t)
  PROVE  OnlyCloses
<1>1. thread_close(t) => \E by : closesocket(by, ClientSocket)
  BY DEF thread_close
<1> QED
  BY <1>1, SocketCloses
  DEF receive_thread, call_recv, recv_data, recv_closed, recv_error,
      thread_close, Returns, peer_sends, peer_ends, sockVars, OnlyCloses,
      KeptOrClosed, Live, TypeOK

\* Only socket() and connect() open one.
LEMMA AppCloses ==
  ASSUME TypeOK, tcp_connect \/ tcp_disconnect, ~connect_socket, ~connect_connect
  PROVE  OnlyCloses
  BY SocketCloses, CleanupCloses
  DEF tcp_connect, connect_startup, connect_resolve, connect_thread, tcp_disconnect,
      begin_disconnect, disconnect_close, disconnect_cleanup, sockVars, OnlyCloses,
      KeptOrClosed

\* A move is the move of one actor.
LEMMA GoesOnly ==
  ASSUME Places, NEW a \in Actor, NEW to, Goes(a, to)
  PROVE  pc'[a] = to /\ \A b \in Actor : b # a => pc'[b] = pc[b]
  BY DEF Places, Goes

\* Who moves: the application, and whoever calls mqttnox_tcp_send, move alone.
LEMMA SenderMoves ==
  ASSUME TypeOK, Places, NEW a \in Actor, tcp_send(a)
  PROVE  /\ \A b \in Actor : b # a => pc'[b] = pc[b]
         /\ pc[a] \in {"hello", "bye", "idle", "handle", "failed", "failed_cleanup"}
         /\ pc'[a] \in {"disconnect", "recv", "idle", "failed", "failed_cleanup"}
         /\ pc'[a] = "disconnect" => a = App
<1>1. \E to : Goes(a, to)
  BY SendMoves
<1>2. \A b \in Actor : b # a => pc'[b] = pc[b]
  BY <1>1, GoesOnly
<1>3. CASE mqttnox_tcp_send(a)
  <2>1. PICK ok \in BOOLEAN : Goes(a, AfterSend(a, ok)) /\ pc[a] \in SendsAt(a)
    BY <1>3 DEF mqttnox_tcp_send
  <2>2. pc'[a] = AfterSend(a, ok)
    BY <2>1, GoesOnly
  <2> QED
    BY <1>2, <2>1, <2>2, Actors DEF AfterSend, Sent, SendsAt
<1>4. CASE send_failed_close(a) \/ send_failed_cleanup(a)
  <2>1. pc'[a] \in {"failed_cleanup", NotSent(a)}
    BY <1>4, GoesOnly DEF send_failed_close, send_failed_cleanup
  <2> QED
    BY <1>2, <1>4, <2>1 DEF send_failed_close, send_failed_cleanup, NotSent
<1> QED
  BY <1>3, <1>4 DEF tcp_send

\* Where a receive thread may go.
LEMMA ReceiverMoves ==
  ASSUME Places, NEW t \in Sock, receive_thread(t)
  PROVE  /\ \A b \in Actor : b # t => pc'[b] = pc[b]
         /\ pc[t] \in {"recv", "in_recv", "closed"}
         /\ pc'[t] \in {"in_recv", "handle", "recv", "closed", "done"}
         /\ pc'[t] = "done" => thread_close(t)
         /\ pc'[t] = "closed" => recv_closed(t)
<1>1. t \in Actor
  BY Actors
<1>2. PICK to \in {"in_recv", "handle", "recv", "closed", "done"} :
        /\ Goes(t, to) /\ (to = "done" => thread_close(t))
        /\ (to = "closed" => recv_closed(t))
  BY DEF receive_thread, call_recv, recv_data, recv_closed, recv_error,
     thread_close, AfterData, AfterClosed
<1>3. pc'[t] = to /\ \A b \in Actor : b # t => pc'[b] = pc[b]
  BY <1>1, <1>2, GoesOnly
<1> QED
  BY <1>2, <1>3 DEF receive_thread, call_recv, recv_data, recv_closed, recv_error,
     thread_close, Returns

\* The application's calls move it alone, but for the thread they start.
LEMMA AppMoves ==
  ASSUME Places, Threads, TypeOK, tcp_connect \/ tcp_disconnect, ~connect_thread
  PROVE  /\ \A b \in Actor : b # App => pc'[b] = pc[b]
         /\ pc'[App] \in {"idle", "resolve", "socket", "connect", "thread", "bye",
                          "disconnect_cleanup"}
         /\ pc'[App] = "connect" => connect_socket
         /\ pc'[App] = "thread" => connect_connect
         /\ pc'[App] = "resolve" => connect_startup
         /\ pc'[App] = "socket" => connect_resolve
         /\ pc'[App] = "disconnect_cleanup" => disconnect_close
<1>1. App \in Actor
  BY Actors
<1>2. PICK to \in {"idle", "resolve", "socket", "connect", "thread", "bye",
                   "disconnect_cleanup"} :
        /\ Goes(App, to)
        /\ (to = "connect" => connect_socket) /\ (to = "thread" => connect_connect)
        /\ (to = "resolve" => connect_startup) /\ (to = "socket" => connect_resolve)
        /\ (to = "disconnect_cleanup" => disconnect_close)
  BY DEF tcp_connect, tcp_disconnect, connect_startup, connect_resolve,
     connect_socket, connect_connect, begin_disconnect, disconnect_close,
     disconnect_cleanup
<1>3. pc'[App] = to /\ \A b \in Actor : b # App => pc'[b] = pc[b]
  BY <1>1, <1>2, GoesOnly
<1> QED
  BY <1>2, <1>3

----------------------------------------------------------------------------
(* The open connection has its receive thread                              *)

\* Every step keeps the threads to their sockets.
LEMMA ThreadsStep ==
  ASSUME TypeOK, Places, Threads, [Next]_vars
  PROVE  Threads'
<1>1. Sock \subseteq Actor /\ App \in Actor /\ App \notin Sock
  BY Actors
<1>2. CASE connect_socket
  <2>1. \A t \in Sock : pc'[t] = pc[t]
    BY <1>1, <1>2, AppMoves DEF tcp_connect, connect_thread, connect_socket
  <2>2. CASE WSACleanup /\ ClientSocket' = INVALID_SOCKET /\ Goes(App, "idle")
    <3>1. \A s \in Sock : sk[s] # "none" => sk'[s] # "none"
      BY <2>2 DEF TypeOK, WSACleanup, Close, Usable
    <3>2. ~Opening'
      BY <1>1, <2>2, GoesOnly DEF Opening
    <3> QED
      BY <2>1, <2>2, <3>1, <3>2 DEF Threads
  <2>3. ASSUME NEW s \in Sock, sk[s] = "none", ClientSocket' = s,
               sk' = [sk EXCEPT ![s] = "made"]
        PROVE  Threads'
    <3>1. pc'[s] = "none" /\ s # INVALID_SOCKET /\ sk'[s] = "made"
      BY <2>1, <2>3, Actors DEF TypeOK, Threads
    <3>2. \A t \in Sock : sk[t] # "none" => sk'[t] # "none"
      BY <2>3 DEF TypeOK
    <3> QED
      BY <2>1, <2>3, <3>1, <3>2 DEF Threads
  <2> QED
    BY <1>2, <2>2, <2>3 DEF connect_socket
<1>3. CASE connect_connect
  <2>1. \A t \in Sock : pc'[t] = pc[t]
    BY <1>1, <1>3, AppMoves DEF tcp_connect, connect_thread, connect_connect
  <2>2. ClientSocket # INVALID_SOCKET /\ ClientSocket' = ClientSocket /\ ClientSocket \in Sock
    BY <1>3 DEF TypeOK, Threads, Opening, connect_connect
  <2>3. CASE Usable(ClientSocket) /\ sk' = [sk EXCEPT ![ClientSocket] = "conn"]
    BY <2>1, <2>2, <2>3 DEF TypeOK, Threads, Usable
  <2>4. CASE UNCHANGED sk
    BY <2>1, <2>2, <2>4 DEF Threads
  <2> QED
    BY <1>3, <2>3, <2>4 DEF connect_connect
<1>4. OnlyCloses =>
        /\ ClientSocket' = ClientSocket
        /\ \A s \in Sock : sk[s] # "none" => sk'[s] # "none"
        /\ \A s \in Sock : sk[s] = "closed" => sk'[s] = "closed"
  BY DEF OnlyCloses, KeptOrClosed
<1>5. CASE connect_thread
  <2>1. ClientSocket \in Sock /\ sk[ClientSocket] # "none" /\ sk' = sk
        /\ ClientSocket' = ClientSocket /\ ClientSocket # INVALID_SOCKET
    BY <1>5 DEF TypeOK, Threads, Opening, connect_thread, sockVars
  <2>2. ASSUME NEW at \in {"recv", "absent"},
               pc' = [pc EXCEPT ![App] = "hello", ![ClientSocket] = at]
        PROVE  Threads'
    <3>1. /\ pc'[ClientSocket] = at
          /\ \A t \in Sock : t # ClientSocket => pc'[t] = pc[t]
      BY <1>1, <2>1, <2>2 DEF Places
    <3> QED
      BY <2>1, <3>1 DEF Threads
  <2>3. CASE Goes(App, "idle")
    <3>1. \A t \in Sock : pc'[t] = pc[t]
      BY <1>1, <2>3, GoesOnly
    <3> QED
      BY <2>1, <3>1 DEF Threads
  <2> QED
    BY <1>5, <2>2, <2>3 DEF connect_thread
<1>6. CASE (tcp_connect \/ tcp_disconnect) /\ ~connect_thread
             /\ ~connect_socket /\ ~connect_connect
  <2>1. (\A t \in Sock : pc'[t] = pc[t]) /\ ~Opening'
    BY <1>1, <1>6, AppMoves DEF Opening
  <2> QED
    BY <1>4, <1>6, <2>1, AppCloses DEF TypeOK, Threads
<1>7. ASSUME NEW a \in Actor, tcp_send(a) PROVE Threads'
  <2>1. \A t \in Sock : pc'[t] # "none" => pc[t] # "none"
    BY <1>1, <1>7, SenderMoves
  <2>2. \A t \in Sock : pc'[t] = "done" => pc[t] = "done"
    BY <1>1, <1>7, SenderMoves
  <2>3. Opening' => Opening
    BY <1>1, <1>7, SenderMoves DEF Opening
  <2> QED
    BY <1>4, <1>7, <2>1, <2>2, <2>3, SenderCloses DEF TypeOK, Threads
<1>8. ASSUME NEW t \in Sock, receive_thread(t) PROVE Threads'
  <2>1. OnlyCloses /\ (Opening' => Opening)
    BY <1>1, <1>8, ReceiverCloses, ReceiverMoves DEF Opening
  <2>2. \A u \in Sock : pc'[u] # "none" => pc[u] # "none"
    BY <1>1, <1>8, ReceiverMoves
  <2>3. ASSUME ClientSocket # INVALID_SOCKET, pc'[ClientSocket] = "done",
               pc[ClientSocket] # "done"
        PROVE  sk'[ClientSocket] = "closed"
    <3>1. ClientSocket \in Sock
      BY <2>3 DEF TypeOK
    <3>2. t = ClientSocket /\ thread_close(t)
      BY <1>1, <1>8, <2>3, <3>1, ReceiverMoves
    <3>3. sk[ClientSocket] \in {"made", "conn", "closed"}
      BY <2>3, <3>1 DEF TypeOK, Threads
    <3>4. \E by : closesocket(by, ClientSocket)
      BY <3>2 DEF thread_close
    <3> QED
      BY <2>3, <3>1, <3>3, <3>4 DEF closesocket, Close, Usable, TypeOK
  <2> QED
    BY <1>4, <2>1, <2>2, <2>3 DEF TypeOK, Threads
<1>9. ASSUME NEW s \in Sock, peer_sends(s) \/ peer_ends(s) PROVE Threads'
  BY <1>9 DEF Threads, Opening, peer_sends, peer_ends
<1>10. CASE UNCHANGED vars
  BY <1>10 DEF Threads, Opening, vars, sockVars
<1> QED
  BY <1>2, <1>3, <1>5, <1>6, <1>7, <1>8, <1>9, <1>10 DEF Next

\* Every step leaves a connected socket with its receive thread.
LEMMA ServedStep ==
  ASSUME TypeOK, Places, Threads, Served, [Next]_vars
  PROVE  Served'
<1>1. Sock \subseteq Actor /\ App \in Actor /\ App \notin Sock
  BY Actors
<1>2. CASE connect_socket
  BY <1>1, <1>2, GoesOnly DEF connect_socket, Served, Connected
<1>3. CASE connect_connect
  BY <1>1, <1>3, GoesOnly DEF connect_connect, Served
<1>4. OnlyCloses => ClientSocket' = ClientSocket /\
                    (Connected(ClientSocket)' => Connected(ClientSocket))
  BY DEF OnlyCloses, KeptOrClosed, Connected, TypeOK
<1>5. CASE connect_thread
  <2>1. ClientSocket' = ClientSocket /\ ClientSocket \in Sock
    BY <1>5 DEF TypeOK, Threads, Opening, connect_thread
  <2>2. ASSUME NEW at \in {"recv", "absent"},
               pc' = [pc EXCEPT ![App] = "hello", ![ClientSocket] = at]
        PROVE  Served'
    BY <1>1, <2>1, <2>2 DEF Places, Served
  <2> QED
    BY <1>5, <2>2 DEF connect_thread, Served
<1>6. CASE (tcp_connect \/ tcp_disconnect) /\ ~connect_thread
             /\ ~connect_socket /\ ~connect_connect
  <2>1. OnlyCloses /\ \A t \in Sock : pc'[t] = pc[t]
    BY <1>1, <1>6, AppCloses, AppMoves
  <2>2. result' = 0 => result = 0
    BY <1>6 DEF tcp_connect, tcp_disconnect, connect_startup, connect_resolve,
       begin_disconnect, disconnect_close, disconnect_cleanup
  <2>3. pc[App] \notin {"connect", "thread"}
    BY <1>6 DEF tcp_connect, tcp_disconnect, connect_startup, connect_resolve,
       begin_disconnect, disconnect_close, disconnect_cleanup
  <2> QED
    BY <1>4, <2>1, <2>2, <2>3 DEF Served, Connected, TypeOK
<1>7. ASSUME NEW a \in Actor, tcp_send(a) PROVE Served'
  <2>1. OnlyCloses /\ result' = result
    BY <1>7, SenderCloses
    DEF tcp_send, mqttnox_tcp_send, send_failed_close, send_failed_cleanup
  <2>2. pc'[App] \notin {"connect", "thread"} => pc[App] \notin {"connect", "thread"}
    BY <1>1, <1>7, SenderMoves
  <2>3. \A t \in Sock : pc'[t] \in {"none", "done"} => pc'[t] = pc[t]
    BY <1>1, <1>7, SenderMoves
  <2> QED
    BY <1>4, <2>1, <2>2, <2>3 DEF Served, Connected, TypeOK
<1>8. ASSUME NEW t \in Sock, receive_thread(t) PROVE Served'
  <2>1. OnlyCloses /\ result' = result /\ pc'[App] = pc[App]
    BY <1>1, <1>8, ReceiverCloses, ReceiverMoves, ZenonT(40)
    DEF receive_thread, call_recv, recv_data, recv_closed, recv_error, thread_close
  <2>2. \A u \in Sock : pc'[u] = "none" => pc[u] = "none"
    BY <1>1, <1>8, ReceiverMoves
  <2>3. Threads'
    BY ThreadsStep
  <2> QED
    BY <1>4, <2>1, <2>2, <2>3 DEF Served, Connected, TypeOK, Threads
<1>9. ASSUME NEW s \in Sock, peer_sends(s) \/ peer_ends(s) PROVE Served'
  BY <1>9 DEF Served, Connected, peer_sends, peer_ends
<1>10. CASE UNCHANGED vars
  BY <1>10 DEF Served, Connected, vars, sockVars
<1> QED
  BY <1>2, <1>3, <1>5, <1>6, <1>7, <1>8, <1>9, <1>10 DEF Next

----------------------------------------------------------------------------
(* Who closes the open connection                                          *)

\* WSACleanup closes nothing while a WSAStartup is left, and everything with the
\* last one.
LEMMA CleanupCounts ==
  ASSUME TypeOK, WSACleanup
  PROVE  /\ wsa > 1 => wsa' > 0 /\ \A s \in Sock : sk'[s] = sk[s]
         /\ wsa = 1 => \A s \in Sock : ~Usable(s)'
<1>1. wsa > 1 => wsa' > 0 /\ \A s \in Sock : sk'[s] = sk[s]
  BY DEF TypeOK, WSACleanup, Close
<1>2. wsa = 1 => \A s \in Sock : ~Usable(s)'
  BY DEF TypeOK, WSACleanup, Close, Usable
<1> QED
  BY <1>1, <1>2

\* WSACleanup is counted.
LEMMA CleanupCounted ==
  ASSUME TypeOK, Counted, WSACleanup
  PROVE  Counted'
<1>1. wsa = 0 => \A s \in Sock : ~Usable(s)' 
  BY CleanupCloses DEF Counted, Usable, KeptOrClosed
<1>2. wsa \in Nat
  BY DEF TypeOK
<1> QED
  BY <1>1, <1>2, CleanupCounts DEF Counted

\* A socket that can be used after a step that only closes could be used before it.
LEMMA KeptUsable ==
  ASSUME TypeOK, NEW s \in Sock, KeptOrClosed(s), Usable(s)'
  PROVE  Usable(s) /\ sk'[s] = sk[s]
  BY DEF KeptOrClosed, Usable

\* Every open socket keeps holding a WSAStartup.
LEMMA CountedStep ==
  ASSUME TypeOK, Places, Threads, Counted, [Next]_vars
  PROVE  Counted'
<1>1. CASE WSACleanup
  BY <1>1, CleanupCounted
<1>2. OnlyCloses /\ wsa' = wsa => Counted'
  BY KeptUsable DEF OnlyCloses, Counted
<1>3. CASE connect_startup
  BY <1>3 DEF connect_startup, sockVars, Counted, Usable, TypeOK
<1>4. CASE connect_resolve
  BY <1>1, <1>4 DEF connect_resolve, sockVars, Counted, Usable
<1>5. CASE connect_socket
  BY <1>1, <1>5 DEF connect_socket, Counted
<1>6. CASE connect_connect
  <2>1. CASE Usable(ClientSocket)
    <3>1. wsa > 0
      BY <2>1 DEF Counted, Usable, TypeOK
    <3> QED
      BY <1>6, <3>1 DEF connect_connect, Counted
  <2>2. CASE UNCHANGED sk
    BY <1>6, <2>2 DEF connect_connect, Counted, Usable
  <2> QED
    BY <1>6, <2>1, <2>2 DEF connect_connect
<1>7. CASE connect_thread \/ begin_disconnect
  BY <1>7 DEF connect_thread, begin_disconnect, sockVars, Counted, Usable
<1>8. CASE disconnect_close
  BY <1>2, <1>8, SocketCloses DEF disconnect_close, OnlyCloses
<1>9. CASE disconnect_cleanup
  BY <1>1, <1>9 DEF disconnect_cleanup
<1>10. ASSUME NEW a \in Actor, tcp_send(a) PROVE Counted'
  <2>1. CASE send_failed_cleanup(a)
    BY <1>1, <2>1 DEF send_failed_cleanup
  <2>2. CASE mqttnox_tcp_send(a) \/ send_failed_close(a)
    BY <1>2, <1>10, <2>2, SenderCloses DEF mqttnox_tcp_send, send_failed_close
  <2> QED
    BY <1>10, <2>1, <2>2 DEF tcp_send
<1>11. ASSUME NEW t \in Sock, receive_thread(t) \/ peer_sends(t) \/ peer_ends(t)
       PROVE  Counted'
  <2>1. wsa' = wsa
    BY <1>11 DEF receive_thread, call_recv, recv_data, recv_closed, recv_error,
       thread_close, peer_sends, peer_ends
  <2> QED
    BY <1>2, <1>11, <2>1, ReceiverCloses
<1>12. CASE UNCHANGED vars
  BY <1>12 DEF vars, sockVars, Counted, Usable
<1> QED
  BY <1>3, <1>4, <1>5, <1>6, <1>7, <1>8, <1>9, <1>10, <1>11, <1>12
  DEF Next, tcp_connect, tcp_disconnect

\* Only two calls of a connect can set crossed, and nothing resets it.
LEMMA CrossedStays ==
  ASSUME TypeOK, [Next]_vars
  PROVE  crossed => crossed'
<1>1. CASE connect_socket \/ connect_connect
  BY <1>1 DEF connect_socket, connect_connect, Crosses
<1>2. CASE ~connect_socket /\ ~connect_connect
  <2>1. CASE tcp_connect \/ tcp_disconnect
    BY <1>2, <2>1 DEF tcp_connect, tcp_disconnect, connect_startup, connect_resolve,
       connect_thread, begin_disconnect, disconnect_close, disconnect_cleanup
  <2>2. CASE \E a \in Actor : tcp_send(a)
    BY <2>2 DEF tcp_send, mqttnox_tcp_send, send_failed_close, send_failed_cleanup
  <2>3. CASE \E t \in Sock : receive_thread(t) \/ peer_sends(t) \/ peer_ends(t)
    BY <2>3 DEF receive_thread, call_recv, recv_data, recv_closed, recv_error,
       thread_close, peer_sends, peer_ends
  <2> QED
    BY <1>2, <2>1, <2>2, <2>3 DEF Next, vars
<1> QED
  BY <1>1, <1>2

\* No step leaves two sockets open.
LEMMA OneOpenStep ==
  ASSUME TypeOK, Places, Threads, OneOpen, [Next]_vars
  PROVE  OneOpen'
<1>1. CASE connect_socket
  <2> SUFFICES ASSUME ~crossed' PROVE \A s \in Sock : Usable(s)' => s = ClientSocket'
    BY DEF OneOpen
  <2>1. \A s \in Sock : ~Usable(s)
    <3>1. ~crossed /\ ~Usable(ClientSocket)
      BY <1>1 DEF connect_socket, Crosses, TypeOK
    <3> QED
      BY <3>1 DEF OneOpen
  <2>2. CASE WSACleanup
    BY <2>1, <2>2, CleanupCloses, KeptUsable
  <2>3. CASE \E s \in Sock : ClientSocket' = s /\ sk' = [sk EXCEPT ![s] = "made"]
    BY <2>1, <2>3 DEF Usable, TypeOK
  <2> QED
    BY <1>1, <2>2, <2>3 DEF connect_socket
<1>2. CASE connect_connect
  <2>1. CASE Usable(ClientSocket) /\ sk' = [sk EXCEPT ![ClientSocket] = "conn"]
    BY <1>2, <2>1, CrossedStays DEF connect_connect, OneOpen, Usable, TypeOK
  <2>2. CASE UNCHANGED sk
    BY <1>2, <2>2, CrossedStays DEF connect_connect, OneOpen, Usable
  <2> QED
    BY <1>2, <2>1, <2>2 DEF connect_connect
<1>3. OnlyCloses => OneOpen'
  BY KeptUsable, CrossedStays DEF OnlyCloses, OneOpen
<1>4. CASE UNCHANGED vars
  BY <1>4 DEF vars, sockVars, OneOpen, Usable
<1> QED
  BY <1>1, <1>2, <1>3, <1>4, AppCloses, SenderCloses, ReceiverCloses DEF Next

\* Only connect() makes the current connection live.
LEMMA LiveBefore ==
  ASSUME TypeOK, [Next]_vars, ~connect_connect, Live(ClientSocket)'
  PROVE  ClientSocket' = ClientSocket /\ Live(ClientSocket)
<1>1. ~connect_socket
  <2> SUFFICES ASSUME connect_socket PROVE FALSE
    OBVIOUS
  <2>1. CASE ClientSocket' = INVALID_SOCKET
    BY <2>1 DEF Live, Connected
  <2>2. ASSUME NEW s \in Sock, ClientSocket' = s, sk' = [sk EXCEPT ![s] = "made"]
        PROVE  FALSE
    BY <2>2 DEF Live, Connected, TypeOK
  <2> QED
    BY <2>1, <2>2 DEF connect_socket
<1>2. CASE OnlyCloses
  BY <1>2 DEF OnlyCloses, KeptOrClosed, Live, Connected, TypeOK
<1>3. CASE UNCHANGED vars
  BY <1>3 DEF vars, sockVars, Live, Connected
<1> QED
  BY <1>1, <1>2, <1>3, AppCloses, SenderCloses, ReceiverCloses DEF Next

\* A live connection has a socket that can be used.
LEMMA LiveOpen ==
  ASSUME TypeOK, Live(ClientSocket)
  PROVE  ClientSocket \in Sock /\ Usable(ClientSocket) /\ ClientSocket # INVALID_SOCKET
  BY DEF TypeOK, Live, Connected, Usable

\* No step brings an actor to the point of closing the live connection.
LEMMA NoneLateStep ==
  ASSUME TypeOK, Places, Threads, Counted, OneOpen, NoneLate, [Next]_vars
  PROVE  NoneLate'
<1> SUFFICES ASSUME ~crossed', Live(ClientSocket)'
             PROVE  /\ \A a \in Actor : pc'[a] \notin Late
                    /\ pc'[App] \in {"resolve", "socket"} => wsa' > 1
  BY DEF NoneLate
<1>1. Sock \subseteq Actor /\ App \in Actor /\ App \notin Sock
  BY Actors
<1>2. CASE connect_connect
  <2>1. \A a \in Actor \ {App} : ~Closing(a) /\ pc[a] # "disconnect_cleanup"
    <3>1. \A a \in Actor \ {App} : ~Closing(a)
      BY <1>2 DEF connect_connect, Crosses, TypeOK
    <3> QED
      BY <3>1 DEF Closing
  <2>2. pc'[App] \in {"thread", "idle"} /\ \A b \in Actor : b # App => pc'[b] = pc[b]
    BY <1>1, <1>2, GoesOnly DEF connect_connect
  <2> QED
    BY <2>1, <2>2 DEF Closing, Late
<1>3. CASE ~connect_connect
  <2>1. /\ ~crossed /\ ClientSocket' = ClientSocket /\ Live(ClientSocket)
        /\ ClientSocket \in Sock /\ Usable(ClientSocket)
    BY <1>3, LiveBefore, LiveOpen, CrossedStays
  <2>2. /\ \A a \in Actor : pc[a] \notin Late
        /\ pc[App] \in {"resolve", "socket"} => wsa > 1
    BY <2>1 DEF NoneLate
  <2>3. \A s \in Sock : Usable(s) => s = ClientSocket
    BY <2>1 DEF OneOpen
  <2>4. CASE connect_thread
    BY <1>1, <2>2, <2>4, GoesOnly DEF connect_thread, Places, Late
  <2>5. CASE (tcp_connect \/ tcp_disconnect) /\ ~connect_thread
    <3>1. ~disconnect_close
      <4> SUFFICES ASSUME disconnect_close PROVE FALSE
        OBVIOUS
      <4>1. sk'[ClientSocket] = "closed"
        BY <2>1 DEF disconnect_close, closesocket, Close
      <4> QED
        BY <2>1, <4>1 DEF Live, Connected
    <3>2. connect_startup => (wsa' > 1 \/ pc'[App] = "idle")
      BY <1>1, <2>1, GoesOnly DEF connect_startup, Counted, TypeOK
    <3>3. connect_resolve => \/ pc'[App] = "socket" /\ wsa' = wsa /\ pc[App] = "resolve"
                             \/ pc'[App] = "idle"
      BY <1>1, GoesOnly DEF connect_resolve
    <3> QED
      BY <1>1, <2>2, <2>5, <3>1, <3>2, <3>3, AppMoves DEF Late
  <2>6. ASSUME NEW a \in Actor, tcp_send(a)
        PROVE  /\ \A b \in Actor : pc'[b] \notin Late
               /\ pc'[App] \in {"resolve", "socket"} => wsa' > 1
    <3>1. mqttnox_tcp_send(a)
      BY <2>2, <2>6 DEF tcp_send, send_failed_close, send_failed_cleanup, Late
    <3>2. Goes(a, AfterSend(a, TRUE)) /\ wsa' = wsa
      BY <2>1, <3>1 DEF mqttnox_tcp_send
    <3>3. pc'[a] \in {"disconnect", "recv", "idle"}
      BY <3>2, GoesOnly DEF AfterSend, Sent
    <3> QED
      BY <1>1, <2>2, <2>6, <3>2, <3>3, SenderMoves DEF Late
  <2>7. ASSUME NEW t \in Sock, receive_thread(t)
        PROVE  /\ \A b \in Actor : pc'[b] \notin Late
               /\ pc'[App] \in {"resolve", "socket"} => wsa' > 1
    <3>1. ~recv_closed(t)
      <4> SUFFICES ASSUME recv_closed(t) PROVE FALSE
        OBVIOUS
      <4>1. rcvOn[t] \in Sock /\ Usable(rcvOn[t]) /\ remote[rcvOn[t]] = "fin"
        BY DEF recv_closed, Connected, Usable, TypeOK
      <4> QED
        BY <2>1, <2>3, <4>1 DEF Live
    <3>2. wsa' = wsa
      BY <2>7 DEF receive_thread, call_recv, recv_data, recv_closed, recv_error,
         thread_close
    <3> QED
      BY <1>1, <2>2, <2>7, <3>1, <3>2, ReceiverMoves DEF Late
  <2>8. ASSUME NEW s \in Sock, peer_sends(s) \/ peer_ends(s)
        PROVE  /\ \A b \in Actor : pc'[b] \notin Late
               /\ pc'[App] \in {"resolve", "socket"} => wsa' > 1
    BY <2>2, <2>8 DEF peer_sends, peer_ends
  <2>9. CASE UNCHANGED vars
    BY <2>2, <2>9 DEF vars
  <2> QED
    BY <2>4, <2>5, <2>6, <2>7, <2>8, <2>9 DEF Next
<1> QED
  BY <1>2, <1>3

\* A live connection ends in tcp_disconnect, unless connections crossed.
LEMMA PurposeStep ==
  ASSUME TypeOK, Places, Threads, Counted, OneOpen, NoneLate, [Next]_vars,
         ClientSocket' = ClientSocket, Live(ClientSocket), ~Connected(ClientSocket)',
         ~crossed
  PROVE  pc[App] = "disconnect"
<1>1. Sock \subseteq Actor /\ App \in Actor
  BY Actors
<1>2. ClientSocket \in Sock /\ ClientSocket # INVALID_SOCKET /\ sk[ClientSocket] = "conn"
      /\ sk'[ClientSocket] # "conn"
  BY LiveOpen DEF Live, Connected
<1>3. /\ \A a \in Actor : pc[a] \notin Late
      /\ pc[App] \in {"resolve", "socket"} => wsa > 1
  BY DEF NoneLate
<1>4. CASE connect_startup \/ connect_thread \/ begin_disconnect
  BY <1>2, <1>4 DEF connect_startup, connect_thread, begin_disconnect, sockVars
<1>5. CASE connect_resolve
  BY <1>2, <1>3, <1>5, CleanupCounts DEF connect_resolve, sockVars
<1>6. CASE connect_socket
  BY <1>2, <1>6 DEF connect_socket, TypeOK
<1>7. CASE connect_connect
  BY <1>2, <1>7 DEF connect_connect, TypeOK
<1>8. CASE disconnect_close
  BY <1>8 DEF disconnect_close
<1>9. CASE disconnect_cleanup
  BY <1>1, <1>3, <1>9 DEF disconnect_cleanup, Late
<1>10. ASSUME NEW a \in Actor, tcp_send(a) PROVE FALSE
  BY <1>2, <1>3, <1>10 DEF tcp_send, mqttnox_tcp_send, send_failed_close,
     send_failed_cleanup, sockVars, Late
<1>11. ASSUME NEW t \in Sock, receive_thread(t) \/ peer_sends(t) \/ peer_ends(t)
       PROVE  FALSE
  BY <1>1, <1>2, <1>3, <1>11 DEF receive_thread, call_recv, recv_data, recv_closed,
     recv_error, thread_close, peer_sends, peer_ends, sockVars, Late
<1>12. CASE UNCHANGED vars
  BY <1>2, <1>12 DEF vars, sockVars
<1> QED
  BY <1>4, <1>5, <1>6, <1>7, <1>8, <1>9, <1>10, <1>11, <1>12
  DEF Next, tcp_connect, tcp_disconnect

\* Every value of the layer's state stays in its type, and an actor where its
\* calls may leave it.
THEOREM TalTypeCorrect == Spec => []TypeOK
<1>1. Init => TypeOK /\ Places /\ Threads
  BY InitHolds
<1>2. TypeOK /\ Places /\ Threads /\ [Next]_vars => (TypeOK /\ Places /\ Threads)'
  BY TypeStep, ThreadsStep
<1> QED
  BY <1>1, <1>2, PTL DEF Spec

\* After mqttnox_tcp_connect has returned 0, the open connection has its receive
\* thread, whatever older threads, failed sends and retried connects do, unless
\* _beginthread failed, whose result is not looked at ("absent").
THEOREM ConnectionServed == Spec => []Served
<1>1. Init => TypeOK /\ Places /\ Threads /\ Served
  BY InitHolds
<1>2. TypeOK /\ Places /\ Threads /\ Served /\ [Next]_vars
        => (TypeOK /\ Places /\ Threads /\ Served)'
  BY TypeStep, ThreadsStep, ServedStep
<1> QED
  BY <1>1, <1>2, PTL DEF Spec

\* The current connection, while its peer is there, is closed by nothing but the
\* application's mqttnox_disconnect: neither by a sender or receive thread that
\* is late with an older connection nor by the count of WSACleanup; unless a
\* mqttnox_tcp_connect replaced an open socket or was under way while such an
\* actor was about to close.
THEOREM OnlyOnPurpose == Spec => ClosedOnPurpose
<1> DEFINE IInv == TypeOK /\ Places /\ Threads /\ Counted /\ OneOpen /\ NoneLate
<1>1. Init => IInv
  BY InitHolds
<1>2. IInv /\ [Next]_vars => IInv'
  BY TypeStep, ThreadsStep, CountedStep, OneOpenStep, NoneLateStep
<1>3. IInv /\ [Next]_vars =>
        [ClientSocket' = ClientSocket /\ Live(ClientSocket) /\ ~Connected(ClientSocket)'
           => crossed \/ pc[App] = "disconnect"]_vars
  BY PurposeStep
<1> QED
  BY <1>1, <1>2, <1>3, PTL DEF Spec, ClosedOnPurpose
=============================================================================
