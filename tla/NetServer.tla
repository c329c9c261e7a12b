------------------------------- MODULE NetServer -------------------------------
(***************************************************************************)
(* The clients of a NetInstanceServer, from the TCP connection through the *)
(* handshake to the disconnection.  Four kinds of actor share them:        *)
(*   - the program thread, which calls ClientJoined, DisconnectClient and  *)
(*     SendTCP;                                                            *)
(*   - the worker threads of the completion port, running the instance's   *)
(*     branch of NetManageCompletionPort: DealCompletion, CompletionError, *)
(*     CompletedSendOperation and DoRecv;                                  *)
(*   - winsock (external);                                                 *)
(*   - remote programs running NetInstanceClient's handshake, which may    *)
(*     leave at any time and whose datagrams may be lost, delayed,         *)
(*     duplicated and reordered.                                           *)
(* A client ID is a place that client after client uses.  The handshake is *)
(* enabled, graceful disconnection is not.  What NetSocket models in steps *)
(* (Close, Recv, CompletedSendOperation) is one step here.  The lock of a  *)
(* client's connectionState is held for one step only; the program thread  *)
(* holds the lock of clientSortedByAddressUDP while it closes a socket.    *)
(***************************************************************************)
EXTENDS Integers, Sequences, FiniteSets

CONSTANTS
    MaxClients,   \* no server has more clients
    Peers,        \* connections that remote programs may make, once each
    Addresses,    \* UDP addresses
    Addr,         \* the UDP address of each peer
    Workers,      \* worker threads of the completion port
    Servers,      \* how servers are set up: how many clients, and UDP or not
    MaxSends,     \* bound: send operations of one client at a time
    MaxPort,      \* bound: packets queued at the completion port
    None          \* no peer, no address

ASSUME ConstantsAssumption ==
    /\ MaxClients \in Nat \ {0}
    /\ Addr \in [Peers -> Addresses]
    /\ Servers \subseteq [maxClients : 1 .. MaxClients, udp : BOOLEAN]
    /\ MaxSends \in Nat
    /\ MaxPort \in Nat \ {0}
    /\ None \notin Peers \cup Addresses

VARIABLES
    maxClients,   \* client IDs are 1..maxClients
    enabledUDP,   \* IsEnabledUDP
    state,        \* NetServerClient::connectionState of each client ID
    wasFullyConnected,
    connectCode,  \* the peer the stored codes were generated for
    remoteAddrUDP,
    conn,         \* winsockSocket: the peer it is connected to
    recvs,        \* its pending receives, by what it was connected to
    recvEvent,    \* recvOverlappedEvent is signaled
    notDealing,   \* notDealingWithData is signaled
    sends,        \* number of send objects in the send cleanup vector
    sendOps,      \* number of those winsock still works on
    needsResort,  \* clientSortedByAddressUdpNeedsResort
    sorted,       \* the addresses clientSortedByAddressUDP was last sorted by
    udpRecv,      \* a receive operation of the UDP socket is pending
    port,         \* packets queued at the completion port
    backlog,      \* connections the listening socket has not accepted yet
    peer,         \* where each remote program is
    peerID,       \* the client ID it was told with the codes for UDP
    workerPC, packet,
    lastAborted,  \* the worker's WSAGetLastError is WSA_OPERATION_ABORTED
    mainPC,       \* where the program thread is
    clientID,     \* the client ID it works on
    unusedClientID, returnMe,
    afterClose,   \* where it goes on when the client is disconnected
    reported      \* of each ID: joins reported and not followed by a leave

setup == <<maxClients, enabledUDP>>
slotVars == <<state, wasFullyConnected, connectCode, remoteAddrUDP>>
sendVars == <<sends, sendOps>>
recvVars == <<recvs, recvEvent, notDealing>>
sortVars == <<needsResort, sorted>>
peerVars == <<peer, peerID, backlog>>
workerVars == <<workerPC, packet, lastAborted>>
mainVars == <<mainPC, clientID, unusedClientID, returnMe, afterClose, reported>>
vars == <<setup, slotVars, conn, sendVars, recvVars, sortVars, udpRecv,
          peerVars, port, workerVars, mainVars>>

ClientIDs == 1 .. MaxClients
Served == 1 .. maxClients

\* Completion packets.  Operations are of a client's TCP socket, or of the UDP socket
\* (id 0); status is "ok", "zero", "error" or "aborted".
Completed(id, op, status) == [id |-> id, op |-> op, status |-> status, from |-> None]
Datagram(p) == [id |-> 0, op |-> "recv", status |-> "ok", from |-> p]
NoPacket == Datagram(None)

Alive(p) == peer[p] # "gone"

Init ==
    /\ \E server \in Servers : maxClients = server.maxClients /\ enabledUDP = server.udp
    /\ state = [id \in ClientIDs |-> "NOT_CONNECTED"]
    /\ wasFullyConnected = [id \in ClientIDs |-> FALSE]
    /\ connectCode = [id \in ClientIDs |-> None]
    /\ remoteAddrUDP = [id \in ClientIDs |-> None]
    /\ conn = [id \in ClientIDs |-> None]
    /\ recvs = [id \in ClientIDs |-> <<>>]
    /\ recvEvent = [id \in ClientIDs |-> TRUE]
    /\ notDealing = [id \in ClientIDs |-> TRUE]
    /\ sends = [id \in ClientIDs |-> 0]
    /\ sendOps = [id \in ClientIDs |-> 0]
    /\ needsResort = TRUE
    /\ sorted = remoteAddrUDP
    /\ udpRecv = enabledUDP
    /\ port = <<>>
    /\ backlog = {}
    /\ peer = [p \in Peers |-> "idle"]
    /\ peerID = [p \in Peers |-> 0]
    /\ workerPC = [w \in Workers |-> "idle"]
    /\ packet = [w \in Workers |-> NoPacket]
    /\ lastAborted = [w \in Workers |-> FALSE]
    /\ mainPC = "idle"
    /\ clientID = 0
    /\ unusedClientID = 0
    /\ returnMe = 0
    /\ afterClose = "idle"
    /\ reported = [id \in ClientIDs |-> 0]

-------------------------------------------------------------------------------
(* Remote programs: NetInstanceClient *)

\* Connect: the connection request reaches the listening socket.
Connect(p) ==
    /\ peer[p] = "idle"
    /\ peer' = [peer EXCEPT ![p] = "waiting"]
    /\ backlog' = backlog \cup {p}
    /\ UNCHANGED <<setup, slotVars, conn, sendVars, recvVars, sortVars, udpRecv,
                   peerID, port, workerVars, mainVars>>

\* The remote program closes its TCP connection, or the connection breaks.
PeerLeaves(p) ==
    /\ peer[p] # "idle"
    /\ Alive(p)
    /\ peer' = [peer EXCEPT ![p] = "gone"]
    /\ UNCHANGED <<setup, slotVars, conn, sendVars, recvVars, sortVars, udpRecv,
                   peerID, backlog, port, workerVars, mainVars>>

-------------------------------------------------------------------------------
(* Winsock (external) *)

\* A receive of a client's TCP socket ends: with data, because the peer closed
\* the connection (no bytes), because it broke, or because this side closed it.
CompleteRecv(id) ==
    \E i \in DOMAIN recvs[id] :
        LET p == recvs[id][i] IN
        /\ Len(port) < MaxPort
        /\ \E status \in IF conn[id] # p THEN {"aborted"}
                         ELSE IF Alive(p) THEN {"ok"} ELSE {"ok", "zero", "error"} :
              port' = Append(port, Completed(id, "recv", status))
        /\ recvs' = [recvs EXCEPT ![id] = SubSeq(@, 1, i - 1) \o SubSeq(@, i + 1, Len(@))]
        /\ recvEvent' = [recvEvent EXCEPT ![id] = TRUE]
        /\ UNCHANGED <<setup, slotVars, conn, sendVars, notDealing, sortVars,
                       udpRecv, peerVars, workerVars, mainVars>>

SendStatuses(id) ==
    IF conn[id] = None THEN {"aborted"}
    ELSE IF Alive(conn[id]) THEN {"ok"} ELSE {"ok", "error"}

\* A send ends: its packet is queued.
SendEnds(id) ==
    \E status \in SendStatuses(id) : port' = Append(port, Completed(id, "send", status))

CompleteSend(id) ==
    /\ sendOps[id] > 0
    /\ Len(port) < MaxPort
    /\ SendEnds(id)
    /\ sendOps' = [sendOps EXCEPT ![id] = @ - 1]
    /\ UNCHANGED <<setup, slotVars, conn, sends, recvVars, sortVars, udpRecv,
                   peerVars, workerVars, mainVars>>

\* A datagram arrives.  A remote program that was told its client ID and codes
\* sends them by UDP, again and again, until it is told that it is connected; each
\* of these datagrams may arrive late, twice or never.
CompleteRecvUDP ==
    /\ udpRecv
    /\ Len(port) < MaxPort
    /\ udpRecv' = FALSE
    /\ \E p \in Peers :
          /\ peerID[p] # 0
          /\ port' = Append(port, Datagram(p))
    /\ UNCHANGED <<setup, slotVars, conn, sendVars, recvVars, sortVars,
                   peerVars, workerVars, mainVars>>

\* Recv on the TCP socket of client id: WSARecv starts, or it fails (as it does
\* without a connection) and the socket signals the end of the receive itself.
Recv(id, started) ==
    /\ started => conn[id] # None
    /\ recvs' = IF started THEN [recvs EXCEPT ![id] = Append(@, conn[id])] ELSE recvs
    /\ recvEvent' = [recvEvent EXCEPT ![id] = ~started]
    /\ notDealing' = [notDealing EXCEPT ![id] = ~started]

-------------------------------------------------------------------------------
(* NetServerClient *)

SetConnectionState(id, new) ==
    /\ state' = [state EXCEPT ![id] = new]
    /\ wasFullyConnected' = [wasFullyConnected EXCEPT ![id] =
                                (@ /\ new # "NOT_CONNECTED") \/ new = "CONNECTED"]

\* Mutated form of ErrorOccurred: it marks an unused client ID too.
ErrorOccurredAlways(id) ==
    /\ SetConnectionState(id, "DISCONNECTING")
    /\ UNCHANGED <<connectCode, remoteAddrUDP>>

ErrorOccurred(id) ==
    /\ IF state[id] = "NOT_CONNECTED"
       THEN UNCHANGED <<state, wasFullyConnected>>
       ELSE SetConnectionState(id, "DISCONNECTING")
    /\ UNCHANGED <<connectCode, remoteAddrUDP>>

-------------------------------------------------------------------------------
(* NetManageCompletionPort, the branch of an instance's socket: worker w *)

WorkerGoto(w, pc) ==
    /\ workerPC' = [workerPC EXCEPT ![w] = pc]
    /\ packet' = [packet EXCEPT ![w] = IF pc = "idle" THEN NoPacket ELSE @]

\* The worker takes packet p.
Dequeue(w, p) ==
    /\ workerPC[w] = "idle"
    /\ port # <<>>
    /\ p = Head(port)
    /\ port' = Tail(port)
    /\ lastAborted' = [lastAborted EXCEPT ![w] =
                          p.status = "aborted" \/ (@ /\ p.status # "error")]

\* A receive that failed counts as a shutdown when the last error of the thread
\* says so; a receive of no bytes does not set it.
ShuttingDown(w, p) == p.status = "aborted" \/ (p.status = "zero" /\ lastAborted[w])

\* Mutated form of RecvFailed: the end of dealing with data is not signaled.
RecvFailedUnsignaled(w) ==
    LET p == Head(port) IN
    /\ Dequeue(w, p)
    /\ p.op = "recv"
    /\ p.status # "ok"
    /\ IF ShuttingDown(w, p) THEN UNCHANGED slotVars ELSE ErrorOccurred(p.id)
    /\ UNCHANGED <<setup, conn, sendVars, recvVars, sortVars, udpRecv,
                   peerVars, workerPC, packet, mainVars>>

\* A receive of a TCP socket failed: CompletionError, unless this side is
\* shutting down, and the end of dealing with data.
RecvFailed(w) ==
    LET p == Head(port) IN
    /\ Dequeue(w, p)
    /\ p.op = "recv"
    /\ p.status # "ok"
    /\ IF ShuttingDown(w, p) THEN UNCHANGED slotVars ELSE ErrorOccurred(p.id)
    /\ notDealing' = [notDealing EXCEPT ![p.id] = TRUE]
    /\ UNCHANGED <<setup, conn, sendVars, recvs, recvEvent, sortVars, udpRecv,
                   peerVars, workerPC, packet, mainVars>>

\* DealCompletion of a TCP socket: the data is dealt with if the client is
\* connected or connecting.  An exception is an error of the client.
DealWithDataTCP(w) ==
    LET p == Head(port) IN
    /\ Dequeue(w, p)
    /\ p.op = "recv"
    /\ p.status = "ok"
    /\ p.id # 0
    /\ packet' = [packet EXCEPT ![w] = p]
    /\ \/ workerPC' = [workerPC EXCEPT ![w] = "recv"]
       \/ /\ state[p.id] # "NOT_CONNECTED"
          /\ workerPC' = [workerPC EXCEPT ![w] = "errorRecv"]
    /\ notDealing' = [notDealing EXCEPT ![p.id] = @ \/ state[p.id] # "NOT_CONNECTED"]
    /\ UNCHANGED <<setup, slotVars, conn, sendVars, recvs, recvEvent, sortVars,
                   udpRecv, peerVars, mainVars>>

\* CompletedSendOperation: the send object is removed; when the send failed, the
\* close request this makes is read back and is an error of the client.
CompletedSendOperation(w) ==
    LET p == Head(port) IN
    /\ Dequeue(w, p)
    /\ p.op = "send"
    /\ sends' = [sends EXCEPT ![p.id] = @ - 1]
    /\ IF p.status = "error"
       THEN /\ workerPC' = [workerPC EXCEPT ![w] = "error"]
            /\ packet' = [packet EXCEPT ![w] = p]
       ELSE UNCHANGED <<workerPC, packet>>
    /\ UNCHANGED <<setup, slotVars, conn, sendOps, recvVars, sortVars, udpRecv,
                   peerVars, mainVars>>

\* The exception, or the failure of what came last, is an error of the client.
WorkerErrorOccurred(w, pc, next) ==
    /\ workerPC[w] = pc
    /\ ErrorOccurred(packet[w].id)
    /\ WorkerGoto(w, next)
    /\ UNCHANGED <<setup, conn, sendVars, recvVars, sortVars, udpRecv,
                   peerVars, port, lastAborted, mainVars>>

\* DoRecv: the next receive of the client's socket.
DoRecv(w) ==
    /\ workerPC[w] = "recv"
    /\ \E started \in BOOLEAN :
          /\ Recv(packet[w].id, started)
          /\ WorkerGoto(w, IF started THEN "idle" ELSE "error")
    /\ lastAborted' = [lastAborted EXCEPT ![w] = FALSE]
    /\ UNCHANGED <<setup, slotVars, conn, sendVars, sortVars, udpRecv,
                   peerVars, port, mainVars>>

-------------------------------------------------------------------------------
(* The same for the UDP socket, which all clients share: worker w *)

\* DoRecv retries until the receive starts, or gives up for good.
DoRecvUDP(w) ==
    /\ udpRecv' \in BOOLEAN
    /\ WorkerGoto(w, "idle")
    /\ lastAborted' = [lastAborted EXCEPT ![w] = FALSE]

\* clientSortedByAddressUDP is free: the program thread is not closing a client.
SortedFree == mainPC # "closing"

\* The client with this UDP address, 0 for none.  The binary search may miss it
\* in a vector whose order is out of date.
FindClientByAddressUDP(addr) ==
    LET found == {id \in ClientIDs : remoteAddrUDP[id] = addr}
    IN IF found = {} THEN {0}
       ELSE IF needsResort \/ sorted = remoteAddrUDP THEN found ELSE found \cup {0}

\* A datagram was received.
TakeDatagram(w) ==
    LET p == Head(port) IN
    /\ Dequeue(w, p)
    /\ p.id = 0
    /\ packet' = [packet EXCEPT ![w] = p]
    /\ workerPC' = [workerPC EXCEPT ![w] = "findClient"]
    /\ UNCHANGED <<setup, slotVars, conn, sendVars, recvVars, sortVars, udpRecv,
                   peerVars, mainVars>>

\* DealCompletion: whose datagram is it?  The lock is released before the data
\* is dealt with.
FindClient(w) ==
    LET d == packet[w].from IN
    /\ workerPC[w] = "findClient"
    /\ SortedFree
    /\ \E id \in FindClientByAddressUDP(Addr[d]) :
          /\ packet' = [packet EXCEPT ![w].id = id]
          /\ workerPC' = [workerPC EXCEPT ![w] = IF id = 0 THEN "handshake" ELSE "dealUdp"]
    /\ sorted' = IF needsResort THEN remoteAddrUDP ELSE sorted
    /\ needsResort' = FALSE
    /\ UNCHANGED <<setup, slotVars, conn, sendVars, recvVars, udpRecv,
                   peerVars, port, lastAborted, mainVars>>

\* A known client's datagram is dealt with, or an exception is its error.
DealWithDataUDP(w) ==
    /\ workerPC[w] = "dealUdp"
    /\ \/ /\ WorkerGoto(w, "errorUdp")
          /\ UNCHANGED <<udpRecv, lastAborted>>
       \/ DoRecvUDP(w)
    /\ UNCHANGED <<setup, slotVars, conn, sendVars, recvVars, sortVars,
                   peerVars, port, mainVars>>

WorkerErrorOccurredUDP(w) ==
    /\ workerPC[w] = "errorUdp"
    /\ ErrorOccurred(packet[w].id)
    /\ DoRecvUDP(w)
    /\ UNCHANGED <<setup, conn, sendVars, recvVars, sortVars,
                   peerVars, port, mainVars>>

\* A datagram of the handshake names the client ID and codes its sender was told.
Authenticated(d) ==
    LET id == peerID[d] IN
    state[id] = "CONNECTING" /\ connectCode[id] = d

LoadUDP(id, addr) ==
    /\ remoteAddrUDP' = [remoteAddrUDP EXCEPT ![id] = addr]
    /\ SetConnectionState(id, "CONNECTED_AC")
    /\ needsResort' = TRUE

\* Under both locks.  A datagram that is not accepted is ignored.
DealHandshake(w) ==
    LET d == packet[w].from IN
    /\ workerPC[w] = "handshake"
    /\ SortedFree
    /\ IF Authenticated(d)
       THEN LoadUDP(peerID[d], Addr[d])
       ELSE UNCHANGED <<state, wasFullyConnected, remoteAddrUDP, needsResort>>
    /\ DoRecvUDP(w)
    /\ UNCHANGED <<setup, connectCode, conn, sendVars, recvVars, sorted,
                   peerVars, port, mainVars>>

-------------------------------------------------------------------------------
(* The program thread: ClientJoined *)

MainGoto(pc) ==
    /\ mainPC' = pc
    /\ UNCHANGED <<clientID, unusedClientID, returnMe, afterClose, reported>>

\* The call is over, and so is the life of its local variables.
EndCall ==
    /\ mainPC' = "idle"
    /\ clientID' = 0
    /\ unusedClientID' = 0
    /\ returnMe' = 0
    /\ afterClose' = "idle"

\* Nobody is reported.
Throw == EndCall /\ reported' = reported

\* ClientJoined returns, reporting the client that joined if there is one.
Return ==
    /\ EndCall
    /\ reported' = IF returnMe = 0 THEN reported
                   ELSE [reported EXCEPT ![returnMe] = @ + 1]

StartClientJoined ==
    /\ mainPC = "idle"
    /\ mainPC' = "scan"
    /\ clientID' = 1
    /\ afterClose' = "scan"
    /\ UNCHANGED <<setup, slotVars, conn, sendVars, recvVars, sortVars, udpRecv,
                   peerVars, port, workerVars, unusedClientID, returnMe, reported>>

\* One look at each client ID.  A client that is connecting may have timed out.
ScanClient ==
    /\ mainPC = "scan"
    /\ clientID \in Served
    /\ \/ /\ state[clientID] \in {"DISCONNECTING", "CONNECTING"}
          /\ MainGoto("disconnect")
       \/ /\ state[clientID] = "CONNECTED_AC"
          /\ returnMe = 0
          /\ MainGoto("notify")
       \/ /\ state[clientID] \in {"NOT_CONNECTED", "CONNECTING", "CONNECTED"}
             \/ (state[clientID] = "CONNECTED_AC" /\ returnMe # 0)
          /\ unusedClientID' = IF state[clientID] = "NOT_CONNECTED" /\ unusedClientID = 0
                               THEN clientID ELSE unusedClientID
          /\ clientID' = clientID + 1
          /\ UNCHANGED <<mainPC, returnMe, afterClose, reported>>
    /\ UNCHANGED <<setup, slotVars, conn, sendVars, recvVars, sortVars, udpRecv,
                   peerVars, port, workerVars>>

\* The client is told that it is connected.  The send blocks until the operation
\* has ended; if it cannot be started or times out, ClientJoined throws.
NotifyCompletion ==
    /\ mainPC = "notify"
    /\ \/ /\ sends[clientID] < MaxSends
          /\ Len(port) < MaxPort
          /\ SendEnds(clientID)
          /\ sends' = [sends EXCEPT ![clientID] = @ + 1]
          /\ MainGoto("announce")
       \/ Throw /\ UNCHANGED <<port, sends>>
    /\ UNCHANGED <<setup, slotVars, conn, sendOps, recvVars, sortVars, udpRecv,
                   peerVars, workerVars>>

\* The client is connected, and will be what ClientJoined returns.
Announce ==
    /\ mainPC = "announce"
    /\ SetConnectionState(clientID, "CONNECTED")
    /\ returnMe' = clientID
    /\ clientID' = clientID + 1
    /\ mainPC' = "scan"
    /\ UNCHANGED <<setup, connectCode, remoteAddrUDP, conn, sendVars,
                   recvVars, sortVars, udpRecv, peerVars, port, workerVars,
                   unusedClientID, afterClose, reported>>

\* The scan is over and connections are accepted.
Accepting == mainPC = "scan" /\ clientID \notin Served

\* Nothing to accept.
AcceptNone ==
    /\ Accepting
    /\ backlog = {}
    /\ Return
    /\ UNCHANGED <<setup, slotVars, conn, sendVars, recvVars, sortVars, udpRecv,
                   peerVars, port, workerVars>>

\* No client ID was free: the connection is refused.
AcceptRefuses(p) ==
    /\ Accepting
    /\ p \in backlog
    /\ unusedClientID = 0
    /\ backlog' = backlog \ {p}
    /\ peer' = [peer EXCEPT ![p] = "gone"]
    /\ Return
    /\ UNCHANGED <<setup, slotVars, conn, sendVars, recvVars, sortVars, udpRecv,
                   peerID, port, workerVars>>

\* A connection that broke before it was accepted makes WSAAccept fail:
\* AcceptConnection throws, and so does ClientJoined.
AcceptThrows(p) ==
    /\ Accepting
    /\ p \in backlog
    /\ ~Alive(p)
    /\ backlog' = backlog \ {p}
    /\ Throw
    /\ UNCHANGED <<setup, slotVars, conn, sendVars, recvVars, sortVars, udpRecv,
                   peer, peerID, port, workerVars>>

\* The connection gets the free client ID: LoadTCP.
AcceptConnection(p) ==
    /\ Accepting
    /\ p \in backlog
    /\ unusedClientID # 0
    /\ backlog' = backlog \ {p}
    /\ peer' = [peer EXCEPT ![p] = IF @ = "waiting" THEN "connected" ELSE @]
    /\ conn' = [conn EXCEPT ![unusedClientID] = p]
    /\ SetConnectionState(unusedClientID, IF enabledUDP THEN "CONNECTING" ELSE "CONNECTED_AC")
    /\ clientID' = unusedClientID
    /\ mainPC' = "recv"
    /\ UNCHANGED <<setup, connectCode, remoteAddrUDP, sendVars, recvVars,
                   sortVars, udpRecv, peerID, port, workerVars, unusedClientID, returnMe,
                   afterClose, reported>>

\* Its first receive.
FirstRecv ==
    /\ mainPC = "recv"
    /\ \E started \in BOOLEAN :
          /\ Recv(clientID, started)
          /\ MainGoto(IF started THEN "sendHandshake" ELSE "recvFailed")
    /\ UNCHANGED <<setup, slotVars, conn, sendVars, sortVars, udpRecv, peerVars,
                   port, workerVars>>

FirstRecvFailed ==
    /\ mainPC = "recvFailed"
    /\ ErrorOccurred(clientID)
    /\ MainGoto("sendHandshake")
    /\ UNCHANGED <<setup, conn, sendVars, recvVars, sortVars, udpRecv, peerVars,
                   port, workerVars>>

\* New codes, the packet with the server's information, and the clock; or the
\* send fails and the client is disconnected again.
SendHandshakingPacket ==
    LET p == conn[clientID] IN
    /\ mainPC = "sendHandshake"
    /\ connectCode' = [connectCode EXCEPT ![clientID] = IF enabledUDP THEN p ELSE @]
    /\ \/ /\ sends[clientID] < MaxSends
          /\ sends' = [sends EXCEPT ![clientID] = @ + 1]
          /\ sendOps' = [sendOps EXCEPT ![clientID] = @ + 1]
          /\ peerID' = [peerID EXCEPT ![p] =
                           IF enabledUDP /\ Alive(p) THEN clientID ELSE @]
          /\ Return
       \/ /\ mainPC' = "disconnect"
          /\ afterClose' = "return"
          /\ UNCHANGED <<sends, sendOps, peerID, clientID,
                         unusedClientID, returnMe, reported>>
    /\ UNCHANGED <<setup, state, wasFullyConnected, remoteAddrUDP, conn,
                   recvVars, sortVars, udpRecv, peer, backlog, port, workerVars>>

-------------------------------------------------------------------------------
(* The program thread: DisconnectClient, and Disconnect after a failed handshake *)

\* Mutated form of Disconnect: ClientLeft does not hear of the client.
DisconnectUnreported ==
    /\ mainPC = "disconnect"
    /\ remoteAddrUDP' = [remoteAddrUDP EXCEPT ![clientID] = None]
    /\ conn' = [conn EXCEPT ![clientID] = None]
    /\ mainPC' = "closing"
    /\ UNCHANGED <<setup, state, wasFullyConnected, connectCode, sendVars, recvVars,
                   sortVars, udpRecv, peerVars, port, workerVars, clientID,
                   unusedClientID, returnMe, afterClose, reported>>

\* The client is reported to ClientLeft if it was fully connected; then, with
\* clientSortedByAddressUDP locked, its UDP address is forgotten and Close closes
\* the socket.
Disconnect ==
    /\ mainPC = "disconnect"
    /\ reported' = [reported EXCEPT ![clientID] =
                       IF wasFullyConnected[clientID] THEN @ - 1 ELSE @]
    /\ remoteAddrUDP' = [remoteAddrUDP EXCEPT ![clientID] = None]
    /\ conn' = [conn EXCEPT ![clientID] = None]
    /\ mainPC' = "closing"
    /\ UNCHANGED <<setup, state, wasFullyConnected, connectCode, sendVars,
                   recvVars, sortVars, udpRecv, peerVars, port, workerVars, clientID,
                   unusedClientID, returnMe, afterClose>>

\* The client ID is free again, and the lock released.
FreeClientID ==
    /\ SetConnectionState(clientID, "NOT_CONNECTED")
    /\ needsResort' = TRUE
    /\ \/ afterClose = "return" /\ Return
       \/ afterClose = "idle" /\ Throw
       \/ /\ afterClose = "scan"
          /\ mainPC' = "scan"
          /\ clientID' = clientID + 1
          /\ UNCHANGED <<unusedClientID, returnMe, afterClose, reported>>
    /\ UNCHANGED <<setup, connectCode, remoteAddrUDP, conn, sendVars,
                   recvVars, sorted, udpRecv, peerVars, port, workerVars>>

\* Close waits for the receive to end, the sends to be cleaned up and the data to
\* be dealt with.
Closed ==
    /\ mainPC = "closing"
    /\ recvEvent[clientID]
    /\ sends[clientID] = 0
    /\ notDealing[clientID]
    /\ FreeClientID

\* The program disconnects a client.
DisconnectClient(id) ==
    /\ mainPC = "idle"
    /\ conn[id] # None
    /\ mainPC' = "disconnect"
    /\ clientID' = id
    /\ afterClose' = "idle"
    /\ UNCHANGED <<setup, slotVars, conn, sendVars, recvVars, sortVars, udpRecv,
                   peerVars, port, workerVars, unusedClientID, returnMe, reported>>

\* The program sends to a client: the send is in progress, or failed for good.
SendTCP(id) ==
    /\ mainPC = "idle"
    /\ state[id] = "CONNECTED"
    /\ \/ /\ sends[id] < MaxSends
          /\ sends' = [sends EXCEPT ![id] = @ + 1]
          /\ sendOps' = [sendOps EXCEPT ![id] = @ + 1]
          /\ UNCHANGED slotVars
       \/ /\ ErrorOccurred(id)
          /\ UNCHANGED <<sends, sendOps>>
    /\ UNCHANGED <<setup, conn, recvVars, sortVars, udpRecv, peerVars, port,
                   workerVars, mainVars>>

-------------------------------------------------------------------------------
Peer(p) == Connect(p) \/ PeerLeaves(p)

Complete(id) == CompleteRecv(id) \/ CompleteSend(id)

\* The operations of a socket that was closed here.
CompleteAborted(id) == conn[id] = None /\ Complete(id)

Worker(w) ==
    \/ RecvFailed(w) \/ DealWithDataTCP(w) \/ DoRecv(w)
    \/ CompletedSendOperation(w) \/ TakeDatagram(w) \/ FindClient(w) \/ DealWithDataUDP(w)
    \/ WorkerErrorOccurredUDP(w) \/ DealHandshake(w)
    \/ WorkerErrorOccurred(w, "errorRecv", "recv")
    \/ WorkerErrorOccurred(w, "error", "idle")

\* ClientJoined or DisconnectClient runs on once it was called.
RunCall ==
    \/ ScanClient \/ NotifyCompletion \/ Announce \/ AcceptNone
    \/ (\E p \in Peers : AcceptRefuses(p) \/ AcceptThrows(p) \/ AcceptConnection(p))
    \/ FirstRecv \/ FirstRecvFailed \/ SendHandshakingPacket \/ Disconnect \/ Closed

Next ==
    \/ \E p \in Peers : Peer(p)
    \/ \E id \in ClientIDs : Complete(id)
    \/ CompleteRecvUDP
    \/ \E w \in Workers : Worker(w)
    \/ StartClientJoined \/ RunCall
    \/ \E id \in ClientIDs : DisconnectClient(id) \/ SendTCP(id)

Spec == Init /\ [][Next]_vars

\* Winsock ends every operation of a socket that was closed, the worker threads run,
\* and the program calls ClientJoined again and again, as its documentation asks.
Fairness ==
    /\ \A id \in ClientIDs : WF_vars(CompleteAborted(id))
    /\ \A w \in Workers : WF_vars(Worker(w))
    /\ WF_vars(RunCall)
    /\ WF_vars(StartClientJoined)

FairSpec == Spec /\ Fairness

-------------------------------------------------------------------------------
(* Properties *)

\* A client ID is free exactly when its TCP socket is closed, whoever worked on it
\* last: neither an error reported late (ErrorOccurred) nor a datagram of the
\* handshake (LoadUDP) gives a free ID a state, and none is freed with its socket
\* open, which the next client could then not be given.  A client ID is given to a
\* new client only when the sends of the last one are cleaned up, no data is dealt
\* with and no receive holds up Close.  FindClientByAddressUDP
\* searches by halves: a vector not marked for sorting is in the order of the
\* addresses the clients have, unless the program thread, which keeps the lock, is
\* in the middle of a change.
SlotsConsistent ==
    /\ mainPC # "closing" =>
          \A id \in ClientIDs : state[id] = "NOT_CONNECTED" <=> conn[id] = None
    /\ \A id \in ClientIDs :
          state[id] = "NOT_CONNECTED" =>
              sends[id] = 0 /\ sendOps[id] = 0 /\ notDealing[id] /\ recvEvent[id]
    /\ SortedFree /\ ~needsResort => sorted = remoteAddrUDP

\* ClientJoined reports no second client with an ID before DisconnectClient has
\* reported to ClientLeft that the first one left.  One that was reported is known
\* to have been fully connected until then, whatever errors come in between:
\* DisconnectClient tells by this flag alone whether to report it.
JoinsAlternate ==
    \A id \in ClientIDs :
        reported[id] < 1 \/ (reported[id] = 1 /\ wasFullyConnected[id])

\* ClientJoined and DisconnectClient return: the locks and the waits of Close do
\* not hold the program thread up forever.
ClientJoinedReturns == mainPC # "idle" ~> mainPC = "idle"

===============================================================================
