---------------------------- MODULE NetServerProofs ----------------------------
(***************************************************************************)
(* Theorems about NetServer for any number of clients, remote programs and *)
(* worker threads: its two safety invariants.                              *)
(*                                                                         *)
(* Neither is inductive.  That a free client ID has nothing left over rests *)
(* on the count of its sends, wherever they are, and on what the program   *)
(* thread knows of the client it works on, whatever the workers do to it   *)
(* meanwhile; that joins and leaves alternate, on which client is still to *)
(* be reported while ClientJoined goes on.                                 *)
(***************************************************************************)
EXTENDS NetServer, FiniteSetTheorems, TLAPS

States == {"NOT_CONNECTED", "CONNECTING", "CONNECTED_AC", "CONNECTED", "DISCONNECTING"}
Packet == [id : 0 .. MaxClients, op : {"recv", "send"},
           status : {"ok", "zero", "error", "aborted"}, from : Peers \cup {None}]

ClientPlaces == {"recv", "errorRecv", "error", "dealUdp", "errorUdp"}
DatagramPlaces == {"findClient", "handshake"}
ScanPlaces == {"scan", "notify", "announce"}
AcceptPlaces == {"recv", "recvFailed", "sendHandshake"}
ClosePlaces == {"disconnect", "closing"}

\* The types of the variables.
TypeOK ==
    /\ maxClients \in ClientIDs
    /\ enabledUDP \in BOOLEAN
    /\ state \in [ClientIDs -> States]
    /\ wasFullyConnected \in [ClientIDs -> BOOLEAN]
    /\ connectCode \in [ClientIDs -> Peers \cup {None}]
    /\ remoteAddrUDP \in [ClientIDs -> Addresses \cup {None}]
    /\ conn \in [ClientIDs -> Peers \cup {None}]
    /\ recvs \in [ClientIDs -> Seq(Peers)]
    /\ recvEvent \in [ClientIDs -> BOOLEAN]
    /\ notDealing \in [ClientIDs -> BOOLEAN]
    /\ sends \in [ClientIDs -> Nat]
    /\ sendOps \in [ClientIDs -> Nat]
    /\ needsResort \in BOOLEAN
    /\ sorted \in [ClientIDs -> Addresses \cup {None}]
    /\ udpRecv \in BOOLEAN
    /\ port \in Seq(Packet)
    /\ backlog \in SUBSET Peers
    /\ peer \in [Peers -> {"idle", "waiting", "connected", "gone"}]
    /\ peerID \in [Peers -> 0 .. MaxClients]
    /\ workerPC \in [Workers -> ClientPlaces \cup DatagramPlaces \cup {"idle"}]
    /\ packet \in [Workers -> Packet]
    /\ lastAborted \in [Workers -> BOOLEAN]
    /\ mainPC \in ScanPlaces \cup AcceptPlaces \cup ClosePlaces \cup {"idle"}
    /\ clientID \in Nat
    /\ unusedClientID \in 0 .. MaxClients
    /\ returnMe \in 0 .. MaxClients
    /\ afterClose \in {"idle", "scan", "return"}
    /\ reported \in [ClientIDs -> Int]

\* A packet of the UDP socket is a datagram of a remote program that was told its
\* client ID; what a worker does fits the packet it has.
PacketFits ==
    /\ \A n \in 1 .. Len(port) : port[n].id = 0 =>
          /\ port[n].op = "recv" /\ port[n].status = "ok"
          /\ port[n].from \in Peers /\ peerID[port[n].from] # 0
    /\ \A w \in Workers : workerPC[w] \in ClientPlaces => packet[w].id # 0
    /\ \A w \in Workers : workerPC[w] \in DatagramPlaces =>
          packet[w].from \in Peers /\ peerID[packet[w].from] # 0

\* The packets of a client's sends at the port.
SendPackets(id) == {n \in 1 .. Len(port) : port[n].id = id /\ port[n].op = "send"}

\* Every send object in a client's vector has an operation that winsock works on, or
\* a packet at the port, and there are no others.
SendsCounted ==
    \A id \in ClientIDs : sends[id] = sendOps[id] + Cardinality(SendPackets(id))

\* A client ID is free when its socket is closed, and not before Close has waited;
\* a free one has nothing under way that Close waits for.
FreeIsClosed ==
    \A id \in ClientIDs :
        /\ state[id] = "NOT_CONNECTED" <=>
              conn[id] = None /\ ~(mainPC = "closing" /\ clientID = id)
        /\ state[id] = "NOT_CONNECTED" =>
              sends[id] = 0 /\ sendOps[id] = 0 /\ notDealing[id] /\ recvEvent[id]

\* The client the program thread works on has a socket until Close closes it.
\* ClientJoined goes back to its scan after it disconnected one of the scanned
\* clients; outside of it there is no client to report.
MainKnows ==
    /\ mainPC = "scan" => clientID # 0
    /\ mainPC \notin {"idle", "scan"} => clientID \in ClientIDs
    /\ mainPC \notin {"idle", "scan", "closing"} => conn[clientID] # None
    /\ mainPC = "closing" => conn[clientID] = None
    /\ mainPC \in ScanPlaces \cup AcceptPlaces => afterClose = "scan"
    /\ mainPC = "idle" \/ (mainPC \in ClosePlaces /\ afterClose = "idle") =>
          unusedClientID = 0 /\ returnMe = 0

Scanning == mainPC \in ScanPlaces \/ (mainPC \in ClosePlaces /\ afterClose = "scan")

\* The client ID that the scan found free stays free until a connection gets it.
UnusedFree ==
    Scanning /\ unusedClientID # 0 => state[unusedClientID] = "NOT_CONNECTED"

\* Only Announce makes a client fully connected, and none that is: the flag is set
\* in no state that comes before.
NotYetFully ==
    /\ \A id \in ClientIDs :
          state[id] \in {"NOT_CONNECTED", "CONNECTING", "CONNECTED_AC"} =>
              ~wasFullyConnected[id]
    /\ mainPC \in {"notify", "announce"} => ~wasFullyConnected[clientID]

\* The client that ClientJoined will return is fully connected, not reported yet, and
\* not the one that ClientJoined works on now.
ReturnedOnce ==
    /\ returnMe # 0 =>
          /\ wasFullyConnected[returnMe] /\ reported[returnMe] < 1
          /\ clientID # returnMe
          /\ Scanning => returnMe < clientID
    /\ mainPC = "closing" => reported[clientID] < 1

\* The vector is in the order it was last sorted by, or marked, or locked.
SortedOrMarked == SortedFree /\ ~needsResort => sorted = remoteAddrUDP

IInv ==
    /\ TypeOK
    /\ PacketFits
    /\ SendsCounted
    /\ FreeIsClosed
    /\ MainKnows
    /\ UnusedFree
    /\ NotYetFully
    /\ ReturnedOnce
    /\ SortedOrMarked
    /\ JoinsAlternate

-------------------------------------------------------------------------------
(* Lemmas about the port and about receives *)

\* There are finitely many packets of sends.
LEMMA SendPacketsFinite ==
  ASSUME TypeOK, NEW id
  PROVE  IsFiniteSet(SendPackets(id)) /\ Cardinality(SendPackets(id)) \in Nat
<1>1. IsFiniteSet(1 .. Len(port))
  BY FS_Interval DEF TypeOK
<1>2. SendPackets(id) \subseteq 1 .. Len(port)
  BY DEF SendPackets
<1> QED
  BY <1>1, <1>2, FS_Subset, FS_CardinalityType

\* What Append leaves in the port.
LEMMA Queued ==
  ASSUME TypeOK, NEW p \in Packet, port' = Append(port, p)
  PROVE  /\ port' \in Seq(Packet)
         /\ \A n \in 1 .. Len(port') :
               \/ port'[n] = p
               \/ n \in 1 .. Len(port) /\ port'[n] = port[n]
         /\ \A id : Cardinality(SendPackets(id)) \in Nat
         /\ \A id : p.id = id /\ p.op = "send" =>
               Cardinality(SendPackets(id)') = Cardinality(SendPackets(id)) + 1
         /\ \A id : p.id # id \/ p.op # "send" =>
               Cardinality(SendPackets(id)') = Cardinality(SendPackets(id))
<1> DEFINE last == Len(port) + 1
<1>1. /\ port' \in Seq(Packet) /\ Len(port') = last /\ last \in Nat
      /\ port'[last] = p /\ \A n \in 1 .. Len(port) : port'[n] = port[n]
  BY DEF TypeOK
<1>2. ASSUME NEW id
      PROVE  Cardinality(SendPackets(id)') =
                IF p.id = id /\ p.op = "send" THEN Cardinality(SendPackets(id)) + 1
                                             ELSE Cardinality(SendPackets(id))
  <2>1. IsFiniteSet(SendPackets(id)) /\ Cardinality(SendPackets(id)) \in Nat
    BY SendPacketsFinite
  <2>2. last \notin SendPackets(id)
    BY DEF SendPackets, TypeOK
  <2>3. SendPackets(id)' = IF p.id = id /\ p.op = "send"
                           THEN SendPackets(id) \cup {last} ELSE SendPackets(id)
    BY <1>1 DEF SendPackets, TypeOK
  <2>4. Cardinality(SendPackets(id) \cup {last}) = Cardinality(SendPackets(id)) + 1
    BY <2>1, <2>2, FS_AddElement
  <2> QED
    BY <2>1, <2>3, <2>4
<1> QED
  BY <1>1, <1>2, SendPacketsFinite

\* What is taken from the port, and what stays in it.
LEMMA Dequeued ==
  ASSUME TypeOK, port # <<>>, port' = Tail(port)
  PROVE  /\ 1 \in 1 .. Len(port) /\ Head(port) = port[1] /\ port[1] \in Packet
         /\ port' \in Seq(Packet)
         /\ \A n \in 1 .. Len(port') : n + 1 \in 1 .. Len(port) /\ port'[n] = port[n + 1]
         /\ \A id : Cardinality(SendPackets(id)) \in Nat
         /\ \A id : port[1].id = id /\ port[1].op = "send" =>
               Cardinality(SendPackets(id)') = Cardinality(SendPackets(id)) - 1
         /\ \A id : port[1].id # id \/ port[1].op # "send" =>
               Cardinality(SendPackets(id)') = Cardinality(SendPackets(id))
<1>1. /\ 1 \in 1 .. Len(port) /\ Head(port) = port[1] /\ port[1] \in Packet
      /\ port' \in Seq(Packet) /\ Len(port) \in Nat /\ Len(port') = Len(port) - 1
      /\ \A n \in 1 .. Len(port') : n + 1 \in 1 .. Len(port) /\ port'[n] = port[n + 1]
  BY DEF TypeOK
<1>2. ASSUME NEW id
      PROVE  Cardinality(SendPackets(id)') =
                IF port[1].id = id /\ port[1].op = "send"
                THEN Cardinality(SendPackets(id)) - 1 ELSE Cardinality(SendPackets(id))
  <2> DEFINE Rest == SendPackets(id) \ {1}
             Shift == [n \in Rest |-> n - 1]
  <2>1. IsFiniteSet(SendPackets(id)) /\ Cardinality(SendPackets(id)) \in Nat
    BY SendPacketsFinite
  <2>2. IsFiniteSet(Rest)
    BY <2>1, FS_Subset
  <2>3. Cardinality(Rest) = IF port[1].id = id /\ port[1].op = "send"
                            THEN Cardinality(SendPackets(id)) - 1
                            ELSE Cardinality(SendPackets(id))
    <3>1. 1 \in SendPackets(id) <=> port[1].id = id /\ port[1].op = "send"
      BY <1>1 DEF SendPackets
    <3>2. CASE 1 \in SendPackets(id)
      BY <2>1, <3>1, <3>2, FS_RemoveElement
    <3>3. CASE 1 \notin SendPackets(id)
      <4>1. Rest = SendPackets(id)
        BY <3>3
      <4> QED
        BY <3>1, <3>3, <4>1
    <3> QED
      BY <3>2, <3>3
  <2>4. SendPackets(id)' = {n \in 1 .. Len(port') : n + 1 \in Rest}
    BY <1>1 DEF SendPackets
  <2>5. Rest \subseteq 2 .. Len(port)
    BY <1>1 DEF SendPackets
  <2>6. Shift \in Bijection(Rest, SendPackets(id)')
    <3>1. Shift \in [Rest -> SendPackets(id)']
      BY <1>1, <2>4, <2>5
    <3>2. \A m, n \in Rest : Shift[m] = Shift[n] => m = n
      BY <2>5
    <3>3. \A k \in SendPackets(id)' : k + 1 \in Rest /\ Shift[k + 1] = k
      BY <2>4
    <3> QED
      BY <3>1, <3>2, <3>3 DEF Bijection, Injection, Surjection, IsInjective
  <2>7. Cardinality(SendPackets(id)') = Cardinality(Rest)
    BY <2>2, <2>6, FS_Bijection DEF ExistsBijection
  <2> QED
    BY <2>1, <2>3, <2>7
<1> QED
  BY <1>1, <1>2, SendPacketsFinite

\* A receive starts on an open socket only; on a closed one both events are signaled.
LEMMA ReceiveKeeps ==
  ASSUME TypeOK, FreeIsClosed, NEW id \in ClientIDs, NEW started \in BOOLEAN,
         Recv(id, started)
  PROVE  /\ recvs' \in [ClientIDs -> Seq(Peers)]
         /\ recvEvent' \in [ClientIDs -> BOOLEAN] /\ notDealing' \in [ClientIDs -> BOOLEAN]
         /\ \A i \in ClientIDs :
               state[i] = "NOT_CONNECTED" => notDealing'[i] /\ recvEvent'[i]
<1>1. recvs' \in [ClientIDs -> Seq(Peers)]
  <2>1. CASE started
    <3>1. conn[id] \in Peers
      BY <2>1 DEF Recv, TypeOK
    <3>2. Append(recvs[id], conn[id]) \in Seq(Peers)
      BY <3>1 DEF TypeOK
    <3> QED
      BY <2>1, <3>2 DEF Recv, TypeOK
  <2>2. CASE ~started
    BY <2>2 DEF Recv, TypeOK
  <2> QED
    BY <2>1, <2>2
<1>2. recvEvent' \in [ClientIDs -> BOOLEAN] /\ notDealing' \in [ClientIDs -> BOOLEAN]
  BY DEF Recv, TypeOK
<1>3. \A i \in ClientIDs : state[i] = "NOT_CONNECTED" => notDealing'[i] /\ recvEvent'[i]
  BY DEF Recv, TypeOK, FreeIsClosed
<1> QED
  BY <1>1, <1>2, <1>3

\* A receive that ends is taken from those that winsock works on.
LEMMA ReceiveTaken ==
  ASSUME NEW s \in Seq(Peers), NEW k \in DOMAIN s
  PROVE  SubSeq(s, 1, k - 1) \o SubSeq(s, k + 1, Len(s)) \in Seq(Peers)
<1>1. k \in 1 .. Len(s) /\ Len(s) \in Nat
  OBVIOUS
<1>2. SubSeq(s, 1, k - 1) \in Seq(Peers) /\ SubSeq(s, k + 1, Len(s)) \in Seq(Peers)
  BY <1>1
<1> QED
  BY <1>2

\* What SetConnectionState changes.
LEMMA StateSet ==
  ASSUME TypeOK, NEW id \in ClientIDs, NEW new \in States, SetConnectionState(id, new)
  PROVE  /\ state' \in [ClientIDs -> States] /\ wasFullyConnected' \in [ClientIDs -> BOOLEAN]
         /\ state'[id] = new
         /\ \A i \in ClientIDs \ {id} :
               state'[i] = state[i] /\ wasFullyConnected'[i] = wasFullyConnected[i]
         /\ wasFullyConnected'[id] <=>
               (wasFullyConnected[id] /\ new # "NOT_CONNECTED") \/ new = "CONNECTED"
<1>1. state' \in [ClientIDs -> States] /\ wasFullyConnected' \in [ClientIDs -> BOOLEAN]
  BY DEF TypeOK, SetConnectionState
<1>2. state'[id] = new /\ \A i \in ClientIDs \ {id} : state'[i] = state[i]
  BY DEF TypeOK, SetConnectionState
<1>3. \A i \in ClientIDs \ {id} : wasFullyConnected'[i] = wasFullyConnected[i]
  BY DEF TypeOK, SetConnectionState
<1>4. wasFullyConnected'[id] <=>
         (wasFullyConnected[id] /\ new # "NOT_CONNECTED") \/ new = "CONNECTED"
  BY DEF TypeOK, SetConnectionState
<1> QED
  BY <1>1, <1>2, <1>3, <1>4

\* An error, if there is one, frees no client ID, gives a free one no client and
\* forgets of no client that it was fully connected.
LEMMA ErrorKeeps ==
  ASSUME TypeOK, NEW id \in ClientIDs, ErrorOccurred(id) \/ UNCHANGED slotVars
  PROVE  /\ state' \in [ClientIDs -> States] /\ wasFullyConnected' \in [ClientIDs -> BOOLEAN]
         /\ \A i \in ClientIDs : state'[i] = state[i]
               \/ (state[i] # "NOT_CONNECTED" /\ state'[i] = "DISCONNECTING")
         /\ \A i \in ClientIDs : wasFullyConnected'[i] <=> wasFullyConnected[i]
         /\ connectCode' = connectCode /\ remoteAddrUDP' = remoteAddrUDP
<1>1. connectCode' = connectCode /\ remoteAddrUDP' = remoteAddrUDP
  BY DEF ErrorOccurred, slotVars
<1>2. \/ state' = state /\ wasFullyConnected' = wasFullyConnected
      \/ state[id] # "NOT_CONNECTED" /\ SetConnectionState(id, "DISCONNECTING")
  BY DEF ErrorOccurred, slotVars
<1>3. CASE state' = state /\ wasFullyConnected' = wasFullyConnected
  <2>1. state' \in [ClientIDs -> States] /\ wasFullyConnected' \in [ClientIDs -> BOOLEAN]
    BY <1>3 DEF TypeOK
  <2> QED
    BY <1>1, <1>3, <2>1
<1>4. CASE state[id] # "NOT_CONNECTED" /\ SetConnectionState(id, "DISCONNECTING")
  <2>1. /\ state' \in [ClientIDs -> States] /\ wasFullyConnected' \in [ClientIDs -> BOOLEAN]
        /\ state'[id] = "DISCONNECTING"
        /\ \A i \in ClientIDs \ {id} :
              state'[i] = state[i] /\ wasFullyConnected'[i] = wasFullyConnected[i]
        /\ wasFullyConnected'[id] <=> wasFullyConnected[id]
    BY <1>4, StateSet DEF States
  <2>2. \A i \in ClientIDs : state'[i] = state[i]
           \/ (state[i] # "NOT_CONNECTED" /\ state'[i] = "DISCONNECTING")
    BY <1>4, <2>1
  <2>3. \A i \in ClientIDs : wasFullyConnected'[i] <=> wasFullyConnected[i]
    BY <2>1
  <2> QED
    BY <1>1, <2>1, <2>2, <2>3
<1> QED
  BY <1>2, <1>3, <1>4

\* When ClientJoined or DisconnectClient is over, with or without a client to report,
\* nothing is left of it.
LEMMA CallEnds ==
  ASSUME IInv, Return \/ Throw,
         \A i \in ClientIDs : wasFullyConnected[i] /\ (i = returnMe \/ reported[i] = 1) =>
            wasFullyConnected'[i]
  PROVE  /\ mainPC' = "idle" /\ clientID' = 0 /\ unusedClientID' = 0 /\ returnMe' = 0
         /\ afterClose' = "idle" /\ reported' \in [ClientIDs -> Int]
         /\ MainKnows' /\ UnusedFree' /\ ReturnedOnce' /\ JoinsAlternate'
<1>1. /\ mainPC' = "idle" /\ clientID' = 0 /\ unusedClientID' = 0 /\ returnMe' = 0
      /\ afterClose' = "idle"
  BY DEF Return, Throw, EndCall
<1>2. /\ reported' \in [ClientIDs -> Int]
      /\ \A i \in ClientIDs : reported'[i] = reported[i]
            \/ (i = returnMe /\ returnMe # 0 /\ reported'[i] = reported[i] + 1)
  <2>1. reported \in [ClientIDs -> Int] /\ (returnMe = 0 \/ returnMe \in ClientIDs)
    BY ConstantsAssumption DEF IInv, TypeOK, ClientIDs
  <2>2. \/ reported' = reported
        \/ returnMe # 0 /\ reported' = [reported EXCEPT ![returnMe] = @ + 1]
    BY DEF Return, Throw
  <2> QED
    BY <2>1, <2>2
<1>3. MainKnows' /\ UnusedFree' /\ ReturnedOnce'
  BY <1>1 DEF MainKnows, UnusedFree, ReturnedOnce, Scanning, ScanPlaces, AcceptPlaces
<1>4. JoinsAlternate'
  <2> SUFFICES ASSUME NEW i \in ClientIDs
               PROVE  reported'[i] < 1 \/ (reported'[i] = 1 /\ wasFullyConnected'[i])
    BY DEF JoinsAlternate
  <2>1. reported[i] \in Int /\ (reported[i] < 1 \/ (reported[i] = 1 /\ wasFullyConnected[i]))
    BY DEF IInv, TypeOK, JoinsAlternate
  <2>2. CASE reported'[i] = reported[i]
    BY <2>1, <2>2
  <2>3. CASE i = returnMe /\ returnMe # 0 /\ reported'[i] = reported[i] + 1
    <3>1. wasFullyConnected[i] /\ reported[i] < 1
      BY <2>3 DEF IInv, ReturnedOnce
    <3> QED
      BY <2>1, <2>3, <3>1
  <2> QED
    BY <1>2, <2>2, <2>3
<1> QED
  BY <1>1, <1>2, <1>3, <1>4

-------------------------------------------------------------------------------
(* Every action keeps the invariant *)

\* A connection request is nothing to the server yet.
LEMMA ConnectKeeps ==
  ASSUME IInv, NEW p \in Peers, Connect(p)
  PROVE  IInv'
<1>1. TypeOK'
  BY ConstantsAssumption DEF Connect, setup, slotVars, sendVars, recvVars, sortVars,
                             workerVars, mainVars, IInv, TypeOK, NoPacket, Datagram,
                             Completed, States, Packet, ClientPlaces, DatagramPlaces,
                             ScanPlaces, AcceptPlaces, ClosePlaces, ClientIDs, Served
<1>2. /\ PacketFits' /\ SendsCounted' /\ FreeIsClosed' /\ MainKnows' /\ UnusedFree'
      /\ NotYetFully' /\ ReturnedOnce' /\ SortedOrMarked' /\ JoinsAlternate'
  BY DEF Connect, setup, slotVars, sendVars, recvVars, sortVars, workerVars, mainVars,
         IInv, PacketFits, SendsCounted, FreeIsClosed, MainKnows, UnusedFree, Scanning,
         NotYetFully, ReturnedOnce, SortedOrMarked, SortedFree, JoinsAlternate,
         SendPackets
<1> QED
  BY <1>1, <1>2 DEF IInv

\* Nor is a remote program that leaves.
LEMMA PeerLeavesKeeps ==
  ASSUME IInv, NEW p \in Peers, PeerLeaves(p)
  PROVE  IInv'
<1>1. TypeOK'
  BY ConstantsAssumption DEF PeerLeaves, Alive, setup, slotVars, sendVars, recvVars,
                             sortVars, workerVars, mainVars, IInv, TypeOK, NoPacket,
                             Datagram, Completed, States, Packet, ClientPlaces,
                             DatagramPlaces, ScanPlaces, AcceptPlaces, ClosePlaces,
                             ClientIDs, Served
<1>2. /\ PacketFits' /\ SendsCounted' /\ FreeIsClosed' /\ MainKnows' /\ UnusedFree'
      /\ NotYetFully' /\ ReturnedOnce' /\ SortedOrMarked' /\ JoinsAlternate'
  BY DEF PeerLeaves, Alive, setup, slotVars, sendVars, recvVars, sortVars, workerVars,
         mainVars, IInv, PacketFits, SendsCounted, FreeIsClosed, MainKnows, UnusedFree,
         Scanning, NotYetFully, ReturnedOnce, SortedOrMarked, SortedFree, JoinsAlternate,
         SendPackets
<1> QED
  BY <1>1, <1>2 DEF IInv

\* A receive of a client that ends leaves a packet that counts for no send.
LEMMA CompleteRecvKeeps ==
  ASSUME IInv, NEW id \in ClientIDs, CompleteRecv(id)
  PROVE  IInv'
<1>1. PICK k \in DOMAIN recvs[id], s \in {"ok", "zero", "error", "aborted"} :
        /\ port' = Append(port, Completed(id, "recv", s))
        /\ recvs' = [recvs EXCEPT ![id] = SubSeq(@, 1, k - 1) \o SubSeq(@, k + 1, Len(@))]
  BY DEF CompleteRecv
<1>2. Completed(id, "recv", s) \in Packet
  BY ConstantsAssumption DEF Completed, Packet, ClientIDs
<1>3. /\ port' \in Seq(Packet)
      /\ \A n \in 1 .. Len(port') :
            \/ port'[n].id = id
            \/ n \in 1 .. Len(port) /\ port'[n] = port[n]
      /\ \A i : Cardinality(SendPackets(i)) \in Nat
      /\ \A i : Cardinality(SendPackets(i)') = Cardinality(SendPackets(i))
  BY <1>1, <1>2, Queued DEF IInv, Completed
<1>4. recvs' \in [ClientIDs -> Seq(Peers)]
  BY <1>1, ReceiveTaken DEF IInv, TypeOK
<1>5. TypeOK'
  <2>1. recvEvent' \in [ClientIDs -> BOOLEAN]
    BY DEF CompleteRecv, IInv, TypeOK
  <2>2. port' \in Seq(Packet)
    BY <1>3
  <2>3. UNCHANGED <<setup, slotVars, conn, sendVars, sortVars, peerVars, workerVars, mainVars>>
    BY DEF CompleteRecv
  <2>4. notDealing' = notDealing /\ udpRecv' = udpRecv
    BY DEF CompleteRecv
  <2> QED
    BY <1>4, <2>1, <2>2, <2>3, <2>4
    DEF setup, slotVars, sendVars, sortVars, peerVars, workerVars, mainVars, IInv, TypeOK
<1>6. PacketFits'
  <2>1. UNCHANGED <<peerVars, workerVars>>
    BY DEF CompleteRecv
  <2> QED
    BY <1>3, <2>1 DEF peerVars, workerVars, IInv, PacketFits, ClientIDs
<1>7. SendsCounted'
  BY <1>3, ConstantsAssumption DEF CompleteRecv, setup, slotVars, sendVars, mainVars,
                                   IInv, TypeOK, SendsCounted
<1>8. FreeIsClosed'
  BY DEF CompleteRecv, setup, slotVars, sendVars, mainVars, IInv, FreeIsClosed
<1>9. /\ MainKnows' /\ UnusedFree' /\ NotYetFully' /\ ReturnedOnce' /\ SortedOrMarked'
      /\ JoinsAlternate'
  BY DEF CompleteRecv, setup, slotVars, sendVars, sortVars, peerVars, workerVars,
         mainVars, IInv, MainKnows, UnusedFree, Scanning, NotYetFully, ReturnedOnce,
         SortedOrMarked, SortedFree, JoinsAlternate
<1> QED
  BY <1>5, <1>6, <1>7, <1>8, <1>9 DEF IInv

\* The packet of a send that ends takes the place of its operation.
LEMMA CompleteSendKeeps ==
  ASSUME IInv, NEW id \in ClientIDs, CompleteSend(id)
  PROVE  IInv'
<1>1. PICK s \in {"ok", "error", "aborted"} : port' = Append(port, Completed(id, "send", s))
  BY DEF CompleteSend, SendEnds, SendStatuses
<1>2. Completed(id, "send", s) \in Packet
  BY ConstantsAssumption DEF Completed, Packet, ClientIDs
<1>3. /\ port' \in Seq(Packet)
      /\ \A n \in 1 .. Len(port') :
            \/ port'[n].id = id
            \/ n \in 1 .. Len(port) /\ port'[n] = port[n]
      /\ \A i : Cardinality(SendPackets(i)) \in Nat
      /\ \A i : i = id => Cardinality(SendPackets(i)') = Cardinality(SendPackets(i)) + 1
      /\ \A i : i # id => Cardinality(SendPackets(i)') = Cardinality(SendPackets(i))
  BY <1>1, <1>2, Queued DEF IInv, Completed
<1>4. /\ sendOps' \in [ClientIDs -> Nat]
      /\ sendOps'[id] = sendOps[id] - 1
      /\ \A i \in ClientIDs \ {id} : sendOps'[i] = sendOps[i]
      /\ sendOps[id] # 0
  BY DEF CompleteSend, IInv, TypeOK
<1>5. TypeOK'
  BY <1>3, <1>4 DEF CompleteSend, setup, slotVars, recvVars, sortVars, peerVars,
                    workerVars, mainVars, IInv, TypeOK
<1>6. PacketFits'
  <2>1. UNCHANGED <<peerVars, workerVars>>
    BY DEF CompleteSend
  <2> QED
    BY <1>3, <2>1 DEF peerVars, workerVars, IInv, PacketFits, ClientIDs
<1>7. SendsCounted'
  <2> SUFFICES ASSUME NEW i \in ClientIDs
               PROVE  sends'[i] = sendOps'[i] + Cardinality(SendPackets(i)')
    BY DEF SendsCounted
  <2>1. /\ sends[i] \in Nat /\ sendOps[i] \in Nat
        /\ sends[i] = sendOps[i] + Cardinality(SendPackets(i))
    BY DEF IInv, TypeOK, SendsCounted
  <2>2. sends'[i] = sends[i]
    BY DEF CompleteSend
  <2>3. CASE i = id
    <3>1. sendOps'[i] = sendOps[i] - 1
      BY <1>4, <2>3
    <3>2. /\ Cardinality(SendPackets(i)) \in Nat
          /\ Cardinality(SendPackets(i)') = Cardinality(SendPackets(i)) + 1
      BY <1>3, <2>3
    <3> QED
      BY <2>1, <2>2, <3>1, <3>2
  <2>4. CASE i # id
    BY <1>3, <1>4, <2>1, <2>2, <2>4
  <2> QED
    BY <2>3, <2>4
<1>8. FreeIsClosed'
  BY DEF CompleteSend, setup, slotVars, recvVars, mainVars, IInv, FreeIsClosed
<1>9. /\ MainKnows' /\ UnusedFree' /\ NotYetFully' /\ ReturnedOnce' /\ SortedOrMarked'
      /\ JoinsAlternate'
  BY DEF CompleteSend, setup, slotVars, recvVars, sortVars, peerVars, workerVars,
         mainVars, IInv, MainKnows, UnusedFree, Scanning, NotYetFully, ReturnedOnce,
         SortedOrMarked, SortedFree, JoinsAlternate
<1> QED
  BY <1>5, <1>6, <1>7, <1>8, <1>9 DEF IInv

\* A datagram comes only from a remote program that was told its client ID.
LEMMA CompleteRecvUDPKeeps ==
  ASSUME IInv, CompleteRecvUDP
  PROVE  IInv'
<1>1. PICK p \in Peers : peerID[p] # 0 /\ port' = Append(port, Datagram(p))
  BY DEF CompleteRecvUDP
<1>2. Datagram(p) \in Packet
  BY ConstantsAssumption DEF Datagram, Packet
<1>3. /\ port' \in Seq(Packet)
      /\ \A n \in 1 .. Len(port') :
            \/ port'[n] = Datagram(p)
            \/ n \in 1 .. Len(port) /\ port'[n] = port[n]
      /\ \A i : Cardinality(SendPackets(i)) \in Nat
      /\ \A i : Cardinality(SendPackets(i)') = Cardinality(SendPackets(i))
  BY <1>1, <1>2, Queued DEF IInv, Datagram
<1>4. TypeOK'
  BY <1>3 DEF CompleteRecvUDP, setup, slotVars, sendVars, recvVars, sortVars, peerVars,
              workerVars, mainVars, IInv, TypeOK
<1>5. PacketFits'
  <2>1. UNCHANGED <<peerVars, workerVars>>
    BY DEF CompleteRecvUDP
  <2> QED
    BY <1>1, <2>1 DEF peerVars, workerVars, IInv, PacketFits, ClientIDs, Datagram
<1>6. SendsCounted'
  BY <1>3 DEF CompleteRecvUDP, setup, slotVars, sendVars, recvVars, mainVars, IInv,
              SendsCounted
<1>7. /\ FreeIsClosed' /\ MainKnows' /\ UnusedFree' /\ NotYetFully' /\ ReturnedOnce'
      /\ SortedOrMarked' /\ JoinsAlternate'
  BY DEF CompleteRecvUDP, setup, slotVars, sendVars, recvVars, sortVars, peerVars,
         workerVars, mainVars, IInv, FreeIsClosed, MainKnows, UnusedFree, Scanning,
         NotYetFully, ReturnedOnce, SortedOrMarked, SortedFree, JoinsAlternate
<1> QED
  BY <1>4, <1>5, <1>6, <1>7 DEF IInv

\* A failed receive signals the end of dealing with data and gives a free client ID no
\* state.
LEMMA RecvFailedKeeps ==
  ASSUME IInv, NEW w \in Workers, RecvFailed(w)
  PROVE  IInv'
<1>1. lastAborted' \in [Workers -> BOOLEAN]
  BY DEF RecvFailed, Dequeue, IInv, TypeOK
<1>2. /\ Head(port) = port[1] /\ 1 \in 1 .. Len(port) /\ port[1].op = "recv"
      /\ port[1].id \in ClientIDs
  BY Dequeued DEF RecvFailed, Dequeue, IInv, PacketFits, Packet, ClientIDs
<1>3. /\ workerPC[w] = "idle" /\ port[1] \in Packet /\ port' \in Seq(Packet)
      /\ \A n \in 1 .. Len(port') : n + 1 \in 1 .. Len(port) /\ port'[n] = port[n + 1]
      /\ \A i : Cardinality(SendPackets(i)) \in Nat
      /\ \A i : Cardinality(SendPackets(i)') = Cardinality(SendPackets(i))
  BY <1>2, Dequeued DEF RecvFailed, Dequeue, IInv
<1>4. ErrorOccurred(port[1].id) \/ UNCHANGED slotVars
  BY <1>2 DEF RecvFailed
<1>5. /\ state' \in [ClientIDs -> States] /\ wasFullyConnected' \in [ClientIDs -> BOOLEAN]
      /\ \A i \in ClientIDs : state'[i] = state[i]
            \/ (state[i] # "NOT_CONNECTED" /\ state'[i] = "DISCONNECTING")
      /\ \A i \in ClientIDs : wasFullyConnected'[i] <=> wasFullyConnected[i]
      /\ connectCode' = connectCode /\ remoteAddrUDP' = remoteAddrUDP
  BY <1>2, <1>4, ErrorKeeps DEF IInv
<1>6. TypeOK'
  <2>1. notDealing' \in [ClientIDs -> BOOLEAN]
    BY DEF RecvFailed, IInv, TypeOK
  <2> QED
    BY <1>1, <1>3, <1>5, <2>1 DEF RecvFailed, setup, sendVars, sortVars, peerVars,
                                  mainVars, IInv, TypeOK
<1>7. PacketFits'
  BY DEF RecvFailed, Dequeue, ShuttingDown, sortVars, peerVars, mainVars, IInv,
         PacketFits, ClientPlaces
<1>8. SendsCounted'
  BY <1>3, <1>5, ConstantsAssumption DEF RecvFailed, setup, sendVars, mainVars, IInv,
                                         SendsCounted
<1>9. FreeIsClosed'
  <2>1. /\ notDealing \in [ClientIDs -> BOOLEAN]
        /\ notDealing' = [notDealing EXCEPT ![port[1].id] = TRUE]
    BY <1>2 DEF RecvFailed, IInv, TypeOK
  <2>2. \A i \in ClientIDs : notDealing[i] => notDealing'[i]
    BY <2>1
  <2>3. UNCHANGED <<conn, sends, sendOps, recvEvent, mainPC, clientID>>
    BY DEF RecvFailed, sendVars, mainVars
  <2>4. "DISCONNECTING" # "NOT_CONNECTED"
    OBVIOUS
  <2>5. \A i \in ClientIDs : state'[i] = "NOT_CONNECTED" <=> state[i] = "NOT_CONNECTED"
    BY <1>5, <2>4
  <2> QED
    BY <2>2, <2>3, <2>5 DEF IInv, FreeIsClosed
<1>10. UnusedFree'
  BY <1>5, ConstantsAssumption DEF RecvFailed, Dequeue, ShuttingDown, mainVars, IInv,
                                   TypeOK, UnusedFree, Scanning, ScanPlaces, ClosePlaces,
                                   ClientIDs, Served
<1>11. NotYetFully'
  BY <1>5, ConstantsAssumption DEF RecvFailed, mainVars, IInv, NotYetFully, MainKnows
<1>12. ReturnedOnce'
  BY <1>5, ConstantsAssumption DEF RecvFailed, Dequeue, ShuttingDown, mainVars, IInv,
                                   TypeOK, ReturnedOnce, Scanning, ScanPlaces,
                                   ClosePlaces, ClientIDs, Served
<1>13. JoinsAlternate'
  BY <1>5, ConstantsAssumption DEF RecvFailed, mainVars, IInv, JoinsAlternate
<1>14. MainKnows' /\ SortedOrMarked'
  BY <1>5 DEF RecvFailed, sortVars, peerVars, mainVars, IInv, MainKnows, SortedOrMarked,
              SortedFree
<1> QED
  BY <1>6, <1>7, <1>8, <1>9, <1>10, <1>11, <1>12, <1>13, <1>14 DEF IInv

\* A worker with data of a client holds up only a client ID that is not free.
LEMMA DealWithDataTCPKeeps ==
  ASSUME IInv, NEW w \in Workers, DealWithDataTCP(w)
  PROVE  IInv'
<1>1. lastAborted' \in [Workers -> BOOLEAN]
  BY DEF DealWithDataTCP, Dequeue, IInv, TypeOK
<1>2. /\ Head(port) = port[1] /\ 1 \in 1 .. Len(port) /\ port[1].op = "recv"
      /\ port[1].id \in ClientIDs
  BY Dequeued DEF DealWithDataTCP, Dequeue, IInv, PacketFits, Packet, ClientIDs
<1>3. /\ workerPC[w] = "idle" /\ port[1] \in Packet /\ port' \in Seq(Packet)
      /\ \A n \in 1 .. Len(port') : n + 1 \in 1 .. Len(port) /\ port'[n] = port[n + 1]
      /\ \A i : Cardinality(SendPackets(i)) \in Nat
      /\ \A i : Cardinality(SendPackets(i)') = Cardinality(SendPackets(i))
  BY <1>2, Dequeued DEF DealWithDataTCP, Dequeue, IInv
<1>4. TypeOK'
  <2>1. workerPC' \in [Workers -> ClientPlaces \cup DatagramPlaces \cup {"idle"}]
    BY DEF DealWithDataTCP, Dequeue, mainVars, IInv, TypeOK, ClientPlaces
  <2>2. packet' \in [Workers -> Packet]
    BY <1>3 DEF DealWithDataTCP, mainVars, IInv, TypeOK
  <2> QED
    BY <1>1, <1>3, <2>1, <2>2 DEF DealWithDataTCP, setup, slotVars, sendVars, sortVars,
                                  peerVars, mainVars, IInv, TypeOK
<1>5. PacketFits'
  BY <1>1, <1>2, <1>3, ConstantsAssumption, SMTT(30) DEF DealWithDataTCP, Dequeue, setup, slotVars,
         sendVars, sortVars, peerVars, mainVars, IInv, TypeOK, PacketFits, ClientPlaces,
         DatagramPlaces, NoPacket, Datagram, ClientIDs
<1>6. SendsCounted'
  BY <1>3 DEF DealWithDataTCP, setup, slotVars, sendVars, mainVars, IInv, SendsCounted
<1>7. FreeIsClosed'
  BY DEF DealWithDataTCP, setup, slotVars, sendVars, mainVars, IInv, TypeOK, FreeIsClosed
<1>8. /\ MainKnows' /\ UnusedFree' /\ NotYetFully' /\ ReturnedOnce' /\ SortedOrMarked'
      /\ JoinsAlternate'
  BY DEF DealWithDataTCP, setup, slotVars, sendVars, sortVars, peerVars, mainVars, IInv,
         MainKnows, UnusedFree, Scanning, NotYetFully, ReturnedOnce, SortedOrMarked,
         SortedFree, JoinsAlternate
<1> QED
  BY <1>4, <1>5, <1>6, <1>7, <1>8 DEF IInv

\* The send is removed together with its packet, so that a client ID with a send is
\* never free.
LEMMA CompletedSendOperationKeeps ==
  ASSUME IInv, NEW w \in Workers, CompletedSendOperation(w)
  PROVE  IInv'
<1>1. lastAborted' \in [Workers -> BOOLEAN]
  BY DEF CompletedSendOperation, Dequeue, IInv, TypeOK
<1>2. /\ Head(port) = port[1] /\ 1 \in 1 .. Len(port) /\ port[1].op = "send"
      /\ port[1].id \in ClientIDs
  BY Dequeued DEF CompletedSendOperation, Dequeue, IInv, PacketFits, Packet, ClientIDs
<1>3. /\ workerPC[w] = "idle" /\ port[1] \in Packet /\ port' \in Seq(Packet)
      /\ \A n \in 1 .. Len(port') : n + 1 \in 1 .. Len(port) /\ port'[n] = port[n + 1]
      /\ \A i : Cardinality(SendPackets(i)) \in Nat
      /\ \A i : i = port[1].id => Cardinality(SendPackets(i)') = Cardinality(SendPackets(i)) - 1
      /\ \A i : i # port[1].id => Cardinality(SendPackets(i)') = Cardinality(SendPackets(i))
  BY <1>2, Dequeued DEF CompletedSendOperation, Dequeue, IInv
<1>4. /\ sends' \in [ClientIDs -> Nat]
      /\ sends'[port[1].id] = sends[port[1].id] - 1
      /\ \A i \in ClientIDs \ {port[1].id} : sends'[i] = sends[i]
      /\ sends[port[1].id] # 0
  <2>1. sends' = [sends EXCEPT ![port[1].id] = @ - 1]
    BY <1>2 DEF CompletedSendOperation
  <2>2. sends[port[1].id] # 0
    <3>1. 1 \in SendPackets(port[1].id) /\ IsFiniteSet(SendPackets(port[1].id))
      BY <1>2, SendPacketsFinite DEF IInv, SendPackets
    <3>2. Cardinality(SendPackets(port[1].id)) # 0
      BY <3>1, FS_EmptySet
    <3> QED
      <4>1. sends[port[1].id] \in Nat /\ sendOps[port[1].id] \in Nat
        BY <1>2 DEF IInv, TypeOK
      <4>2. sends[port[1].id] = sendOps[port[1].id] + Cardinality(SendPackets(port[1].id))
        BY <1>2 DEF IInv, SendsCounted
      <4>3. Cardinality(SendPackets(port[1].id)) \in Nat
        BY SendPacketsFinite DEF IInv
      <4> QED
        BY <3>2, <4>1, <4>2, <4>3
  <2> QED
    BY <1>2, <2>1, <2>2 DEF IInv, TypeOK
<1>5. \/ workerPC' = workerPC /\ packet' = packet
      \/ workerPC' = [workerPC EXCEPT ![w] = "error"] /\ packet' = [packet EXCEPT ![w] = port[1]]
  BY <1>2 DEF CompletedSendOperation
<1>6. TypeOK'
  <2>1. workerPC' \in [Workers -> ClientPlaces \cup DatagramPlaces \cup {"idle"}]
    BY DEF CompletedSendOperation, Dequeue, mainVars, IInv, TypeOK, ClientPlaces
  <2>2. packet' \in [Workers -> Packet]
    BY <1>2, <1>3, <1>5 DEF IInv, TypeOK
  <2> QED
    BY <1>1, <1>3, <1>4, <1>5, <2>1, <2>2 DEF CompletedSendOperation, setup, slotVars,
           recvVars, sortVars, peerVars, mainVars, IInv, TypeOK
<1>7. PacketFits'
  <2>1. peerID' = peerID /\ port[1].id # 0
    BY <1>2, ConstantsAssumption DEF CompletedSendOperation, peerVars, ClientIDs
  <2>2. \A n \in 1 .. Len(port') : port'[n].id = 0 =>
           /\ port'[n].op = "recv" /\ port'[n].status = "ok"
           /\ port'[n].from \in Peers /\ peerID'[port'[n].from] # 0
    BY <1>3, <2>1 DEF IInv, PacketFits
  <2>3. workerPC \in [Workers -> ClientPlaces \cup DatagramPlaces \cup {"idle"}]
        /\ packet \in [Workers -> Packet]
    BY DEF IInv, TypeOK
  <2>4. /\ \A v \in Workers : workerPC'[v] \in ClientPlaces => packet'[v].id # 0
        /\ \A v \in Workers : workerPC'[v] \in DatagramPlaces =>
              packet'[v].from \in Peers /\ peerID'[packet'[v].from] # 0
    <3>1. CASE workerPC' = workerPC /\ packet' = packet
      BY <2>1, <3>1 DEF IInv, PacketFits
    <3>2. CASE workerPC' = [workerPC EXCEPT ![w] = "error"] /\ packet' = [packet EXCEPT ![w] = port[1]]
      <4>1. "error" \notin DatagramPlaces
        BY DEF DatagramPlaces
      <4>2. /\ \A v \in Workers : v = w => workerPC'[v] = "error" /\ packet'[v] = port[1]
            /\ \A v \in Workers : v # w => workerPC'[v] = workerPC[v] /\ packet'[v] = packet[v]
        BY <2>3, <3>2
      <4> QED
        BY <2>1, <4>1, <4>2 DEF IInv, PacketFits
    <3> QED
      BY <1>5, <3>1, <3>2
  <2> QED
    BY <2>2, <2>4 DEF PacketFits
<1>8. SendsCounted'
  <2> SUFFICES ASSUME NEW i \in ClientIDs
               PROVE  sends'[i] = sendOps'[i] + Cardinality(SendPackets(i)')
    BY DEF SendsCounted
  <2>1. /\ sends[i] \in Nat /\ sendOps[i] \in Nat
        /\ sends[i] = sendOps[i] + Cardinality(SendPackets(i))
    BY DEF IInv, TypeOK, SendsCounted
  <2>2. sendOps'[i] = sendOps[i]
    BY DEF CompletedSendOperation
  <2>3. CASE i = port[1].id
    BY <1>3, <1>4, <2>1, <2>2, <2>3
  <2>4. CASE i # port[1].id
    BY <1>3, <1>4, <2>1, <2>2, <2>4
  <2> QED
    BY <2>3, <2>4
<1>9. FreeIsClosed'
  BY <1>4 DEF CompletedSendOperation, setup, slotVars, recvVars, mainVars, IInv,
              FreeIsClosed
<1>10. /\ MainKnows' /\ UnusedFree' /\ NotYetFully' /\ ReturnedOnce' /\ SortedOrMarked'
       /\ JoinsAlternate'
  BY DEF CompletedSendOperation, setup, slotVars, recvVars, sortVars, peerVars, mainVars,
         IInv, MainKnows, UnusedFree, Scanning, NotYetFully, ReturnedOnce, SortedOrMarked,
         SortedFree, JoinsAlternate
<1> QED
  BY <1>6, <1>7, <1>8, <1>9, <1>10 DEF IInv

\* An error that a worker reports late finds the client ID free, or its client still
\* there.
LEMMA WorkerErrorOccurredKeeps ==
  ASSUME IInv, NEW w \in Workers,
         NEW pc \in {"errorRecv", "error"}, NEW next \in {"recv", "idle"},
         WorkerErrorOccurred(w, pc, next)
  PROVE  IInv'
<1>1. packet[w].id \in ClientIDs
  BY DEF WorkerErrorOccurred, IInv, TypeOK, PacketFits, Packet, ClientIDs, ClientPlaces
<1>2. /\ state' \in [ClientIDs -> States] /\ wasFullyConnected' \in [ClientIDs -> BOOLEAN]
      /\ \A i \in ClientIDs : state'[i] = state[i]
            \/ (state[i] # "NOT_CONNECTED" /\ state'[i] = "DISCONNECTING")
      /\ \A i \in ClientIDs : wasFullyConnected'[i] <=> wasFullyConnected[i]
      /\ connectCode' = connectCode /\ remoteAddrUDP' = remoteAddrUDP
  BY <1>1, ErrorKeeps DEF WorkerErrorOccurred, IInv
<1>3. TypeOK'
  <2>1. workerPC' \in [Workers -> ClientPlaces \cup DatagramPlaces \cup {"idle"}]
    BY DEF WorkerErrorOccurred, WorkerGoto, mainVars, IInv, TypeOK, ClientPlaces
  <2>2. packet' \in [Workers -> Packet]
    BY ConstantsAssumption DEF WorkerErrorOccurred, WorkerGoto, mainVars, IInv, TypeOK,
                               NoPacket, Datagram, Packet
  <2> QED
    BY <1>2, <2>1, <2>2 DEF WorkerErrorOccurred, WorkerGoto, setup, sendVars, recvVars,
                            sortVars, peerVars, mainVars, IInv, TypeOK
<1>4. PacketFits'
  BY DEF WorkerErrorOccurred, WorkerGoto, sortVars, peerVars, mainVars, IInv, TypeOK,
         PacketFits, ClientPlaces, DatagramPlaces
<1>5. FreeIsClosed'
  BY <1>2 DEF WorkerErrorOccurred, WorkerGoto, setup, sendVars, recvVars, mainVars, IInv,
              FreeIsClosed
<1>6. UnusedFree'
  BY <1>2 DEF WorkerErrorOccurred, WorkerGoto, mainVars, IInv, TypeOK, UnusedFree,
              Scanning, ScanPlaces, ClosePlaces, ClientIDs
<1>7. NotYetFully'
  BY <1>2 DEF WorkerErrorOccurred, WorkerGoto, mainVars, IInv, NotYetFully, MainKnows
<1>8. ReturnedOnce'
  BY <1>2 DEF WorkerErrorOccurred, WorkerGoto, mainVars, IInv, TypeOK, ReturnedOnce,
              Scanning, ScanPlaces, ClosePlaces, ClientIDs
<1>9. JoinsAlternate'
  BY <1>2 DEF WorkerErrorOccurred, WorkerGoto, mainVars, IInv, JoinsAlternate
<1>10. SendsCounted' /\ MainKnows' /\ SortedOrMarked'
  BY <1>2 DEF WorkerErrorOccurred, WorkerGoto, setup, sendVars, recvVars, sortVars,
              peerVars, mainVars, IInv, SendsCounted, MainKnows, SortedOrMarked,
              SortedFree, SendPackets
<1> QED
  BY <1>3, <1>4, <1>5, <1>6, <1>7, <1>8, <1>9, <1>10 DEF IInv

\* A receive that starts finds a connection, so that its client ID is not free.
LEMMA DoRecvKeeps ==
  ASSUME IInv, NEW w \in Workers, DoRecv(w)
  PROVE  IInv'
<1>1. PICK started \in BOOLEAN :
        Recv(packet[w].id, started) /\ WorkerGoto(w, IF started THEN "idle" ELSE "error")
  BY DEF DoRecv
<1>2. packet[w].id \in ClientIDs
  BY DEF DoRecv, IInv, TypeOK, PacketFits, Packet, ClientIDs, ClientPlaces
<1>3. /\ recvs' \in [ClientIDs -> Seq(Peers)]
      /\ recvEvent' \in [ClientIDs -> BOOLEAN] /\ notDealing' \in [ClientIDs -> BOOLEAN]
      /\ \A i \in ClientIDs :
               state[i] = "NOT_CONNECTED" => notDealing'[i] /\ recvEvent'[i]
  BY <1>1, <1>2, ReceiveKeeps DEF IInv
<1>4. TypeOK'
  <2>1. workerPC' \in [Workers -> ClientPlaces \cup DatagramPlaces \cup {"idle"}]
    BY DEF DoRecv, WorkerGoto, mainVars, IInv, TypeOK, ClientPlaces
  <2>2. packet' \in [Workers -> Packet]
    BY ConstantsAssumption DEF DoRecv, WorkerGoto, mainVars, IInv, TypeOK, NoPacket,
                               Datagram, Packet
  <2>3. lastAborted' \in [Workers -> BOOLEAN]
    BY DEF DoRecv, IInv, TypeOK
  <2> QED
    BY <1>3, <2>1, <2>2, <2>3 DEF DoRecv, WorkerGoto, setup, slotVars, sendVars, sortVars,
                                  peerVars, mainVars, IInv, TypeOK
<1>5. PacketFits'
  BY DEF DoRecv, WorkerGoto, sortVars, peerVars, mainVars, IInv, TypeOK, PacketFits,
         ClientPlaces, DatagramPlaces
<1>6. FreeIsClosed'
  BY <1>3 DEF DoRecv, WorkerGoto, setup, slotVars, sendVars, mainVars, IInv, FreeIsClosed
<1>7. /\ SendsCounted' /\ MainKnows' /\ UnusedFree' /\ NotYetFully' /\ ReturnedOnce'
      /\ SortedOrMarked' /\ JoinsAlternate'
  BY DEF DoRecv, WorkerGoto, setup, slotVars, sendVars, sortVars, peerVars, mainVars,
         IInv, SendsCounted, MainKnows, UnusedFree, Scanning, NotYetFully, ReturnedOnce,
         SortedOrMarked, SortedFree, JoinsAlternate, SendPackets
<1> QED
  BY <1>4, <1>5, <1>6, <1>7 DEF IInv

\* The packet of a datagram counts for no send either.
LEMMA TakeDatagramKeeps ==
  ASSUME IInv, NEW w \in Workers, TakeDatagram(w)
  PROVE  IInv'
<1>1. lastAborted' \in [Workers -> BOOLEAN]
  BY DEF TakeDatagram, Dequeue, IInv, TypeOK
<1>2. /\ Head(port) = port[1] /\ 1 \in 1 .. Len(port) /\ port[1].op # "send"
      /\ port[1].from \in Peers /\ peerID[port[1].from] # 0
  BY Dequeued DEF TakeDatagram, Dequeue, IInv, PacketFits
<1>3. /\ workerPC[w] = "idle" /\ port[1] \in Packet /\ port' \in Seq(Packet)
      /\ \A n \in 1 .. Len(port') : n + 1 \in 1 .. Len(port) /\ port'[n] = port[n + 1]
      /\ \A i : Cardinality(SendPackets(i)) \in Nat
      /\ \A i : Cardinality(SendPackets(i)') = Cardinality(SendPackets(i))
  BY <1>2, Dequeued DEF TakeDatagram, Dequeue, IInv
<1>4. TypeOK'
  BY <1>1, <1>2, <1>3, ConstantsAssumption DEF TakeDatagram, Dequeue, setup, slotVars,
         sendVars, recvVars, sortVars, peerVars, mainVars, IInv, TypeOK, NoPacket,
         Datagram, Completed, States, Packet, ClientPlaces, DatagramPlaces, ScanPlaces,
         AcceptPlaces, ClosePlaces, ClientIDs, Served
<1>5. PacketFits'
  BY DEF TakeDatagram, Dequeue, sortVars, peerVars, mainVars, IInv, TypeOK, PacketFits,
         ClientPlaces, ClientIDs
<1>6. SendsCounted'
  BY <1>3 DEF TakeDatagram, setup, slotVars, sendVars, recvVars, mainVars, IInv,
              SendsCounted
<1>7. /\ FreeIsClosed' /\ MainKnows' /\ UnusedFree' /\ NotYetFully' /\ ReturnedOnce'
      /\ SortedOrMarked' /\ JoinsAlternate'
  BY DEF TakeDatagram, setup, slotVars, sendVars, recvVars, sortVars, peerVars, mainVars,
         IInv, FreeIsClosed, MainKnows, UnusedFree, Scanning, NotYetFully, ReturnedOnce,
         SortedOrMarked, SortedFree, JoinsAlternate
<1> QED
  BY <1>4, <1>5, <1>6, <1>7 DEF IInv

\* Looking for the address sorts the vector if it is marked.
LEMMA FindClientKeeps ==
  ASSUME IInv, NEW w \in Workers, FindClient(w)
  PROVE  IInv'
<1>1. PICK id \in 0 .. MaxClients :
        /\ packet' = [packet EXCEPT ![w].id = id]
        /\ workerPC' = [workerPC EXCEPT ![w] = IF id = 0 THEN "handshake" ELSE "dealUdp"]
  <2>1. FindClientByAddressUDP(Addr[packet[w].from]) \subseteq 0 .. MaxClients
    <3>1. {id \in ClientIDs : remoteAddrUDP[id] = Addr[packet[w].from]} \subseteq 0 .. MaxClients
      BY ConstantsAssumption DEF ClientIDs
    <3>2. 0 \in 0 .. MaxClients
      BY ConstantsAssumption
    <3> QED
      BY <3>1, <3>2 DEF FindClientByAddressUDP
  <2> QED
    BY <2>1 DEF FindClient
<1>2. [packet[w] EXCEPT !.id = id] \in Packet /\ [packet[w] EXCEPT !.id = id].id = id
      /\ [packet[w] EXCEPT !.id = id].from = packet[w].from
  <2>1. packet[w] \in Packet
    BY DEF IInv, TypeOK
  <2> QED
    BY <2>1 DEF Packet
<1>3. /\ packet' \in [Workers -> Packet] /\ packet'[w].id = id
      /\ packet'[w].from = packet[w].from
      /\ \A v \in Workers \ {w} : packet'[v] = packet[v]
  BY <1>1, <1>2 DEF IInv, TypeOK
<1>4. TypeOK'
  <2>1. sorted' \in [ClientIDs -> Addresses \cup {None}]
    BY DEF FindClient, IInv, TypeOK
  <2>2. workerPC' \in [Workers -> ClientPlaces \cup DatagramPlaces \cup {"idle"}]
    BY DEF FindClient, mainVars, IInv, TypeOK, ClientPlaces, DatagramPlaces
  <2> QED
    BY <1>3, <2>1, <2>2 DEF FindClient, setup, slotVars, sendVars, recvVars, peerVars,
                            mainVars, IInv, TypeOK
<1>5. PacketFits'
  BY DEF FindClient, peerVars, mainVars, IInv, TypeOK, PacketFits, ClientPlaces,
         DatagramPlaces, ClientIDs
<1>6. SortedOrMarked'
  BY DEF FindClient, setup, slotVars, sendVars, recvVars, IInv, SortedOrMarked
<1>7. /\ SendsCounted' /\ FreeIsClosed' /\ MainKnows' /\ UnusedFree' /\ NotYetFully'
      /\ ReturnedOnce' /\ JoinsAlternate'
  BY DEF FindClient, setup, slotVars, sendVars, recvVars, mainVars, IInv, SendsCounted,
         FreeIsClosed, MainKnows, UnusedFree, Scanning, NotYetFully, ReturnedOnce,
         JoinsAlternate, SendPackets
<1> QED
  BY <1>4, <1>5, <1>6, <1>7 DEF IInv

\* Dealing with a datagram touches no client,
LEMMA DealWithDataUDPKeeps ==
  ASSUME IInv, NEW w \in Workers, DealWithDataUDP(w)
  PROVE  IInv'
<1>1. PICK pc \in {"errorUdp", "idle"} : WorkerGoto(w, pc)
  BY DEF DealWithDataUDP, DoRecvUDP
<1>2. /\ UNCHANGED <<port, peerVars>> /\ workerPC[w] = "dealUdp" /\ packet[w] \in Packet
      /\ NoPacket \in Packet
  BY ConstantsAssumption DEF DealWithDataUDP, IInv, TypeOK, NoPacket, Datagram, Packet
<1>3. TypeOK'
  <2>1. workerPC' \in [Workers -> ClientPlaces \cup DatagramPlaces \cup {"idle"}]
    BY DEF DealWithDataUDP, WorkerGoto, DoRecvUDP, mainVars, IInv, TypeOK, ClientPlaces
  <2>2. packet' \in [Workers -> Packet]
    BY <1>1, <1>2 DEF WorkerGoto, IInv, TypeOK
  <2>3. lastAborted' \in [Workers -> BOOLEAN]
    BY DEF DealWithDataUDP, WorkerGoto, DoRecvUDP, IInv, TypeOK
  <2> QED
    BY <2>1, <2>2, <2>3 DEF DealWithDataUDP, WorkerGoto, DoRecvUDP, setup, slotVars,
                            sendVars, recvVars, sortVars, peerVars, mainVars, IInv, TypeOK
<1>4. PacketFits'
  BY <1>1, <1>2 DEF WorkerGoto, peerVars, IInv, TypeOK, PacketFits, ClientPlaces,
                    DatagramPlaces
<1>5. /\ SendsCounted' /\ FreeIsClosed' /\ MainKnows' /\ UnusedFree' /\ NotYetFully'
      /\ ReturnedOnce' /\ SortedOrMarked' /\ JoinsAlternate'
  BY DEF DealWithDataUDP, WorkerGoto, DoRecvUDP, setup, slotVars, sendVars, recvVars,
         sortVars, peerVars, mainVars, IInv, SendsCounted, FreeIsClosed, MainKnows,
         UnusedFree, Scanning, NotYetFully, ReturnedOnce, SortedOrMarked, SortedFree,
         JoinsAlternate, SendPackets
<1> QED
  BY <1>3, <1>4, <1>5 DEF IInv

\* and its error is like any other.
LEMMA WorkerErrorOccurredUDPKeeps ==
  ASSUME IInv, NEW w \in Workers, WorkerErrorOccurredUDP(w)
  PROVE  IInv'
<1>1. packet[w].id \in ClientIDs
  BY DEF WorkerErrorOccurredUDP, IInv, TypeOK, PacketFits, Packet, ClientIDs, ClientPlaces
<1>2. /\ state' \in [ClientIDs -> States] /\ wasFullyConnected' \in [ClientIDs -> BOOLEAN]
      /\ \A i \in ClientIDs : state'[i] = state[i]
            \/ (state[i] # "NOT_CONNECTED" /\ state'[i] = "DISCONNECTING")
      /\ \A i \in ClientIDs : wasFullyConnected'[i] <=> wasFullyConnected[i]
      /\ connectCode' = connectCode /\ remoteAddrUDP' = remoteAddrUDP
  BY <1>1, ErrorKeeps DEF WorkerErrorOccurredUDP, IInv
<1>3. TypeOK'
  <2>1. packet' \in [Workers -> Packet]
    BY ConstantsAssumption DEF WorkerErrorOccurredUDP, WorkerGoto, DoRecvUDP, mainVars,
                               IInv, TypeOK, NoPacket, Datagram, Packet
  <2>2. lastAborted' \in [Workers -> BOOLEAN]
    BY DEF WorkerErrorOccurredUDP, WorkerGoto, DoRecvUDP, IInv, TypeOK
  <2> QED
    BY <1>2, <2>1, <2>2 DEF WorkerErrorOccurredUDP, WorkerGoto, DoRecvUDP, setup,
                            sendVars, recvVars, sortVars, peerVars, mainVars, IInv, TypeOK
<1>4. PacketFits'
  BY DEF WorkerErrorOccurredUDP, WorkerGoto, DoRecvUDP, sortVars, peerVars, mainVars,
         IInv, TypeOK, PacketFits, ClientPlaces, DatagramPlaces
<1>5. FreeIsClosed'
  BY <1>2 DEF WorkerErrorOccurredUDP, WorkerGoto, DoRecvUDP, setup, sendVars, recvVars,
              mainVars, IInv, FreeIsClosed
<1>6. UnusedFree'
  BY <1>2 DEF WorkerErrorOccurredUDP, WorkerGoto, DoRecvUDP, mainVars, IInv, TypeOK,
              UnusedFree, Scanning, ScanPlaces, ClosePlaces, ClientIDs
<1>7. NotYetFully'
  BY <1>2 DEF WorkerErrorOccurredUDP, WorkerGoto, DoRecvUDP, mainVars, IInv, NotYetFully,
              MainKnows
<1>8. ReturnedOnce'
  BY <1>2 DEF WorkerErrorOccurredUDP, WorkerGoto, DoRecvUDP, mainVars, IInv, TypeOK,
              ReturnedOnce, Scanning, ScanPlaces, ClosePlaces, ClientIDs
<1>9. JoinsAlternate'
  BY <1>2 DEF WorkerErrorOccurredUDP, WorkerGoto, DoRecvUDP, mainVars, IInv, JoinsAlternate
<1>10. SendsCounted' /\ MainKnows' /\ SortedOrMarked'
  BY <1>2 DEF WorkerErrorOccurredUDP, WorkerGoto, DoRecvUDP, setup, sendVars, recvVars,
              sortVars, peerVars, mainVars, IInv, SendsCounted, MainKnows, SortedOrMarked,
              SortedFree, SendPackets
<1> QED
  BY <1>3, <1>4, <1>5, <1>6, <1>7, <1>8, <1>9, <1>10 DEF IInv

\* A datagram of the handshake moves a client on only while it is connecting, and
\* marks the vector.
LEMMA DealHandshakeKeeps ==
  ASSUME IInv, NEW w \in Workers, DealHandshake(w)
  PROVE  IInv'
<1>1. packet[w].from \in Peers /\ peerID[packet[w].from] \in ClientIDs
  BY DEF DealHandshake, IInv, TypeOK, PacketFits, ClientIDs, DatagramPlaces
<1>2. /\ state' \in [ClientIDs -> States] /\ wasFullyConnected' \in [ClientIDs -> BOOLEAN]
      /\ remoteAddrUDP' \in [ClientIDs -> Addresses \cup {None}] /\ needsResort' \in BOOLEAN
      /\ \A i \in ClientIDs : state'[i] = state[i]
            \/ (state[i] = "CONNECTING" /\ state'[i] = "CONNECTED_AC")
      /\ \A i \in ClientIDs : wasFullyConnected'[i] <=> wasFullyConnected[i]
      /\ needsResort' \/ UNCHANGED <<needsResort, remoteAddrUDP>>
  <2>1. CASE Authenticated(packet[w].from)
    <3> DEFINE id == peerID[packet[w].from]
    <3>1. LoadUDP(id, Addr[packet[w].from]) /\ state[id] = "CONNECTING"
      BY <2>1 DEF DealHandshake, Authenticated
    <3>2. SetConnectionState(id, "CONNECTED_AC") /\ "CONNECTED_AC" \in States
      BY <3>1 DEF LoadUDP, States
    <3>3. remoteAddrUDP' \in [ClientIDs -> Addresses \cup {None}] /\ needsResort'
      BY <1>1, <3>1, ConstantsAssumption DEF LoadUDP, IInv, TypeOK
    <3>4. needsResort' \in BOOLEAN
      BY <3>1 DEF LoadUDP
    <3>5. id \in ClientIDs
      BY <1>1
    <3> HIDE DEF id
    <3>6. /\ state' \in [ClientIDs -> States]
          /\ wasFullyConnected' \in [ClientIDs -> BOOLEAN]
          /\ state'[id] = "CONNECTED_AC" /\ \A i \in ClientIDs \ {id} : state'[i] = state[i]
          /\ \A i \in ClientIDs : wasFullyConnected'[i] <=> wasFullyConnected[i]
      <4>1. /\ state' \in [ClientIDs -> States]
            /\ wasFullyConnected' \in [ClientIDs -> BOOLEAN]
            /\ state'[id] = "CONNECTED_AC"
            /\ \A i \in ClientIDs \ {id} :
                  state'[i] = state[i] /\ wasFullyConnected'[i] = wasFullyConnected[i]
            /\ wasFullyConnected'[id] <=> wasFullyConnected[id]
        BY <3>2, <3>5, StateSet DEF IInv
      <4> QED
        BY <4>1
    <3>7. \A i \in ClientIDs : state'[i] = state[i]
             \/ (state[i] = "CONNECTING" /\ state'[i] = "CONNECTED_AC")
      BY <3>1, <3>6
    <3> QED
      BY <3>3, <3>4, <3>6, <3>7
  <2>2. CASE ~Authenticated(packet[w].from)
    <3>1. UNCHANGED <<state, wasFullyConnected, remoteAddrUDP, needsResort>>
      BY <2>2 DEF DealHandshake
    <3> QED
      BY <3>1 DEF IInv, TypeOK
  <2> QED
    BY <2>1, <2>2
<1>3. TypeOK'
  <2>1. packet' \in [Workers -> Packet]
    BY ConstantsAssumption DEF DealHandshake, WorkerGoto, DoRecvUDP, mainVars, IInv,
                               TypeOK, NoPacket, Datagram, Packet
  <2>2. lastAborted' \in [Workers -> BOOLEAN]
    BY DEF DealHandshake, WorkerGoto, DoRecvUDP, IInv, TypeOK
  <2> QED
    BY <1>2, <2>1, <2>2 DEF DealHandshake, WorkerGoto, DoRecvUDP, setup, sendVars,
                            recvVars, peerVars, mainVars, IInv, TypeOK
<1>4. PacketFits'
  BY DEF DealHandshake, WorkerGoto, DoRecvUDP, peerVars, mainVars, IInv, TypeOK,
         PacketFits, ClientPlaces, DatagramPlaces
<1>5. FreeIsClosed'
  BY <1>1, <1>2, ConstantsAssumption DEF DealHandshake, WorkerGoto, DoRecvUDP, setup,
                                         sendVars, recvVars, peerVars, mainVars, IInv,
                                         TypeOK, FreeIsClosed, MainKnows, SendsCounted
<1>6. UnusedFree'
  BY <1>1, <1>2 DEF DealHandshake, WorkerGoto, DoRecvUDP, peerVars, mainVars, IInv,
                    TypeOK, UnusedFree, Scanning, ScanPlaces, ClosePlaces, ClientIDs
<1>7. NotYetFully'
  BY <1>2 DEF DealHandshake, WorkerGoto, DoRecvUDP, mainVars, IInv, NotYetFully, MainKnows
<1>8. ReturnedOnce'
  BY <1>2 DEF DealHandshake, WorkerGoto, DoRecvUDP, mainVars, IInv, TypeOK, ReturnedOnce,
              Scanning, ScanPlaces, ClosePlaces, ClientIDs
<1>9. SortedOrMarked'
  BY <1>2 DEF DealHandshake, WorkerGoto, DoRecvUDP, mainVars, IInv, SortedOrMarked
<1>10. JoinsAlternate'
  BY <1>2 DEF DealHandshake, WorkerGoto, DoRecvUDP, mainVars, IInv, JoinsAlternate
<1>11. SendsCounted' /\ MainKnows'
  BY DEF DealHandshake, WorkerGoto, DoRecvUDP, setup, sendVars, recvVars, mainVars, IInv,
         SendsCounted, MainKnows, SendPackets
<1> QED
  BY <1>3, <1>4, <1>5, <1>6, <1>7, <1>8, <1>9, <1>10, <1>11 DEF IInv

\* ClientJoined starts with no free client ID found and nobody to return.
LEMMA StartClientJoinedKeeps ==
  ASSUME IInv, StartClientJoined
  PROVE  IInv'
<1>1. TypeOK'
  BY DEF StartClientJoined, setup, slotVars, sendVars, recvVars, sortVars, peerVars,
         workerVars, IInv, TypeOK, NoPacket, Datagram, Completed, States, Packet,
         ClientPlaces, DatagramPlaces, ScanPlaces
<1>2. FreeIsClosed'
  BY DEF StartClientJoined, setup, slotVars, sendVars, recvVars, IInv, FreeIsClosed
<1>3. MainKnows'
  BY DEF StartClientJoined, MainKnows
<1>4. UnusedFree'
  BY DEF StartClientJoined, IInv, UnusedFree, Scanning, MainKnows
<1>5. NotYetFully'
  BY DEF StartClientJoined, setup, slotVars, sendVars, IInv, NotYetFully
<1>6. ReturnedOnce'
  BY DEF StartClientJoined, IInv, ReturnedOnce, Scanning, MainKnows
<1>7. SortedOrMarked'
  BY DEF StartClientJoined, setup, slotVars, sendVars, recvVars, sortVars, peerVars, IInv,
         SortedOrMarked, SortedFree
<1>8. PacketFits' /\ SendsCounted' /\ JoinsAlternate'
  BY DEF StartClientJoined, setup, slotVars, sendVars, recvVars, sortVars, peerVars,
         workerVars, IInv, PacketFits, SendsCounted, JoinsAlternate, SendPackets
<1> QED
  BY <1>1, <1>2, <1>3, <1>4, <1>5, <1>6, <1>7, <1>8 DEF IInv

\* The scan finds a client ID free, goes on past the client that will be returned, or
\* begins to work on a client with a socket.
LEMMA ScanClientKeeps ==
  ASSUME IInv, ScanClient
  PROVE  IInv'
<1>1. clientID \in ClientIDs /\ clientID # 0 /\ mainPC = "scan" /\ afterClose = "scan"
  BY ConstantsAssumption DEF ScanClient, IInv, TypeOK, MainKnows, ScanPlaces, Served,
                             ClientIDs
<1>2. /\ UNCHANGED <<returnMe, afterClose, reported>>
      /\ \/ /\ mainPC' = "disconnect" /\ UNCHANGED <<clientID, unusedClientID>>
            /\ state[clientID] # "NOT_CONNECTED"
         \/ /\ mainPC' = "notify" /\ UNCHANGED <<clientID, unusedClientID>>
            /\ state[clientID] = "CONNECTED_AC" /\ returnMe = 0
         \/ /\ mainPC' = "scan" /\ clientID' = clientID + 1
            /\ \/ unusedClientID' = unusedClientID
               \/ unusedClientID' = clientID /\ state[clientID] = "NOT_CONNECTED"
  BY <1>1 DEF ScanClient, MainGoto
<1>3. UNCHANGED <<state, conn, wasFullyConnected>>
  BY DEF ScanClient, slotVars
<1>4. TypeOK'
  <2>1. mainPC' \in ScanPlaces \cup AcceptPlaces \cup ClosePlaces \cup {"idle"}
    BY <1>2 DEF IInv, ScanPlaces, ClosePlaces
  <2>2. clientID' \in Nat
    BY <1>2 DEF IInv, TypeOK
  <2>3. unusedClientID' \in 0 .. MaxClients
    BY <1>1, <1>2, ConstantsAssumption DEF IInv, TypeOK, ScanPlaces, ClosePlaces, ClientIDs
  <2> QED
    BY <1>2, <2>1, <2>2, <2>3, SMTT(30) DEF ScanClient, setup, slotVars, sendVars, recvVars,
                                  sortVars, peerVars, workerVars, IInv, TypeOK
<1>5. FreeIsClosed'
  BY <1>1, <1>2, <1>3 DEF ScanClient, sendVars, recvVars, IInv, TypeOK, FreeIsClosed
<1>6. MainKnows'
  BY <1>1, <1>2, <1>3 DEF IInv, FreeIsClosed, MainKnows, NotYetFully, UnusedFree,
                          ReturnedOnce, JoinsAlternate, Scanning, ScanPlaces,
                          AcceptPlaces, ClosePlaces, ClientIDs
<1>7. UnusedFree'
  BY <1>1, <1>2, <1>3 DEF IInv, UnusedFree, Scanning, ScanPlaces, AcceptPlaces, ClosePlaces
<1>8. NotYetFully'
  BY <1>1, <1>2, <1>3 DEF IInv, NotYetFully
<1>9. ReturnedOnce'
  BY <1>1, <1>2, <1>3 DEF IInv, TypeOK, ReturnedOnce, Scanning, ScanPlaces, AcceptPlaces,
                          ClosePlaces
<1>10. SortedOrMarked'
  BY DEF ScanClient, setup, slotVars, sendVars, recvVars, sortVars, peerVars, IInv,
         SortedOrMarked, SortedFree
<1>11. PacketFits' /\ SendsCounted' /\ JoinsAlternate'
  BY DEF ScanClient, MainGoto, setup, slotVars, sendVars, recvVars, sortVars, peerVars,
         workerVars, IInv, PacketFits, SendsCounted, JoinsAlternate, SendPackets
<1> QED
  BY <1>4, <1>5, <1>6, <1>7, <1>8, <1>9, <1>10, <1>11 DEF IInv

\* The packet of the send that blocks until it has ended takes its place at once.
LEMMA NotifyCompletionKeeps ==
  ASSUME IInv, NotifyCompletion
  PROVE  IInv'
<1>1. clientID \in ClientIDs
  BY DEF NotifyCompletion, IInv, MainKnows
<1>2. /\ port' \in Seq(Packet)
      /\ \A n \in 1 .. Len(port') :
            port'[n].id = clientID \/ (n \in 1 .. Len(port) /\ port'[n] = port[n])
      /\ \A i : Cardinality(SendPackets(i)) \in Nat /\ Cardinality(SendPackets(i)') \in Nat
      /\ sends' \in [ClientIDs -> Nat]
      /\ \A i \in ClientIDs :
            sends'[i] - sends[i] = Cardinality(SendPackets(i)') - Cardinality(SendPackets(i))
      /\ \A i \in ClientIDs \ {clientID} : sends'[i] = sends[i]
  <2>1. CASE UNCHANGED <<port, sends>>
    <3>1. \A i : SendPackets(i)' = SendPackets(i)
      BY <2>1 DEF SendPackets
    <3>2. \A i : Cardinality(SendPackets(i)) \in Nat
      BY SendPacketsFinite DEF IInv
    <3>3. port \in Seq(Packet) /\ sends \in [ClientIDs -> Nat]
      BY DEF IInv, TypeOK
    <3> QED
      BY <2>1, <3>1, <3>2, <3>3
  <2>2. CASE SendEnds(clientID) /\ sends' = [sends EXCEPT ![clientID] = @ + 1]
    <3>1. PICK s \in {"ok", "error", "aborted"} : port' = Append(port, Completed(clientID, "send", s))
      BY <2>2 DEF SendEnds, SendStatuses
    <3>2. Completed(clientID, "send", s) \in Packet
      BY <1>1, ConstantsAssumption DEF Completed, Packet, ClientIDs
    <3>3. \A i : Cardinality(SendPackets(i)) \in Nat
      BY SendPacketsFinite DEF IInv
    <3>4. /\ port' \in Seq(Packet)
          /\ \A n \in 1 .. Len(port') :
                port'[n].id = clientID \/ (n \in 1 .. Len(port) /\ port'[n] = port[n])
          /\ \A i : i = clientID => Cardinality(SendPackets(i)') = Cardinality(SendPackets(i)) + 1
          /\ \A i : i # clientID => Cardinality(SendPackets(i)') = Cardinality(SendPackets(i))
      BY <3>1, <3>2, Queued DEF IInv, Completed
    <3>5. sends \in [ClientIDs -> Nat]
      BY DEF IInv, TypeOK
    <3> QED
      <4>1. \A i : Cardinality(SendPackets(i)') \in Nat
        BY <3>3, <3>4
      <4>2. /\ sends' \in [ClientIDs -> Nat]
            /\ \A i \in ClientIDs : i = clientID => sends'[i] = sends[i] + 1
            /\ \A i \in ClientIDs : i # clientID => sends'[i] = sends[i]
        BY <1>1, <2>2, <3>5
      <4>3. \A i \in ClientIDs :
               sends'[i] - sends[i] = Cardinality(SendPackets(i)') - Cardinality(SendPackets(i))
        BY <3>3, <3>4, <3>5, <4>1, <4>2
      <4> QED
        BY <3>3, <3>4, <4>1, <4>2, <4>3
  <2> QED
    BY <2>1, <2>2 DEF NotifyCompletion
<1>3. \/ Throw
      \/ /\ mainPC' = "announce"
         /\ UNCHANGED <<clientID, unusedClientID, returnMe, afterClose, reported>>
  BY DEF NotifyCompletion, MainGoto
<1>4. \A i \in ClientIDs : wasFullyConnected[i] /\ (i = returnMe \/ reported[i] = 1) =>
         wasFullyConnected'[i]
  BY DEF NotifyCompletion, slotVars
<1>5. Return \/ Throw =>
         /\ mainPC' = "idle" /\ clientID' = 0 /\ unusedClientID' = 0 /\ returnMe' = 0
         /\ afterClose' = "idle" /\ reported' \in [ClientIDs -> Int]
         /\ MainKnows' /\ UnusedFree' /\ ReturnedOnce' /\ JoinsAlternate'
  BY <1>4, CallEnds
<1>6. TypeOK'
  <2>1. mainPC' \in ScanPlaces \cup AcceptPlaces \cup ClosePlaces \cup {"idle"}
    BY <1>3, <1>5 DEF IInv, ScanPlaces, AcceptPlaces, ClosePlaces
  <2>2. clientID' \in Nat
    BY <1>3, <1>5 DEF IInv, TypeOK
  <2>3. unusedClientID' \in 0 .. MaxClients
    BY <1>3, <1>5, ConstantsAssumption DEF IInv, TypeOK
  <2>4. returnMe' \in 0 .. MaxClients
    BY <1>3, <1>5, ConstantsAssumption DEF IInv, TypeOK
  <2>5. afterClose' \in {"idle", "scan", "return"}
    BY <1>3, <1>5 DEF IInv, TypeOK
  <2> QED
    BY <1>2, <1>3, <1>5, <2>1, <2>2, <2>3, <2>4, <2>5 DEF NotifyCompletion, setup,
           slotVars, recvVars, sortVars, peerVars, workerVars, IInv, TypeOK
<1>7. PacketFits'
  <2>1. peerID' = peerID /\ packet' = packet /\ workerPC' = workerPC
    BY DEF NotifyCompletion, peerVars, workerVars
  <2>2. clientID # 0
    BY <1>1, ConstantsAssumption DEF ClientIDs
  <2>3. \A n \in 1 .. Len(port') : port'[n].id = 0 => n \in 1 .. Len(port) /\ port'[n] = port[n]
    BY <1>2, <2>2
  <2>4. \A n \in 1 .. Len(port') : port'[n].id = 0 =>
          /\ port'[n].op = "recv" /\ port'[n].status = "ok"
          /\ port'[n].from \in Peers /\ peerID[port'[n].from] # 0
    BY <2>3 DEF IInv, PacketFits
  <2>5. /\ \A w \in Workers : workerPC[w] \in ClientPlaces => packet[w].id # 0
        /\ \A w \in Workers : workerPC[w] \in DatagramPlaces =>
              packet[w].from \in Peers /\ peerID[packet[w].from] # 0
    BY DEF IInv, PacketFits
  <2> QED
    BY <2>1, <2>4, <2>5 DEF PacketFits
<1>8. SendsCounted'
  <2>1. sends \in [ClientIDs -> Nat] /\ sendOps \in [ClientIDs -> Nat]
    BY DEF IInv, TypeOK
  <2>2. \A i \in ClientIDs : sends[i] = sendOps[i] + Cardinality(SendPackets(i))
    BY DEF IInv, SendsCounted
  <2>3. sendOps' = sendOps
    BY DEF NotifyCompletion
  <2> QED
    BY <1>2, <2>1, <2>2, <2>3 DEF SendsCounted
<1>9. FreeIsClosed'
  BY <1>2, <1>3, <1>5 DEF NotifyCompletion, slotVars, recvVars, IInv, FreeIsClosed,
                          MainKnows
<1>10. MainKnows'
  <2>1. CASE Return \/ Throw
    BY <2>1, <1>5
  <2>2. CASE /\ mainPC' = "announce"
               /\ UNCHANGED <<clientID, unusedClientID, returnMe, afterClose, reported>>
    BY <2>2 DEF NotifyCompletion, IInv, FreeIsClosed, MainKnows, NotYetFully, UnusedFree,
                ReturnedOnce, JoinsAlternate, Scanning, ScanPlaces
  <2> QED
    BY <1>3, <2>1, <2>2
<1>11. UnusedFree'
  <2>1. CASE Return \/ Throw
    BY <2>1, <1>5
  <2>2. CASE /\ mainPC' = "announce"
               /\ UNCHANGED <<clientID, unusedClientID, returnMe, afterClose, reported>>
    BY <2>2 DEF NotifyCompletion, slotVars, IInv, FreeIsClosed, MainKnows, NotYetFully,
                UnusedFree, ReturnedOnce, JoinsAlternate, Scanning, ScanPlaces
  <2> QED
    BY <1>3, <2>1, <2>2
<1>12. NotYetFully'
  BY <1>1, <1>3, <1>5 DEF NotifyCompletion, slotVars, IInv, TypeOK, NotYetFully, MainKnows
<1>13. ReturnedOnce'
  <2>1. CASE Return \/ Throw
    BY <2>1, <1>5
  <2>2. CASE /\ mainPC' = "announce"
               /\ UNCHANGED <<clientID, unusedClientID, returnMe, afterClose, reported>>
    BY <2>2 DEF NotifyCompletion, slotVars, IInv, FreeIsClosed, MainKnows, NotYetFully,
                UnusedFree, ReturnedOnce, JoinsAlternate, Scanning, ScanPlaces
  <2> QED
    BY <1>3, <2>1, <2>2
<1>14. SortedOrMarked'
  BY <1>3, <1>5 DEF NotifyCompletion, slotVars, sortVars, IInv, SortedOrMarked, SortedFree
<1>15. JoinsAlternate'
  BY DEF NotifyCompletion, MainGoto, Throw, EndCall, setup, slotVars, IInv, JoinsAlternate
<1> QED
  BY <1>6, <1>7, <1>8, <1>9, <1>10, <1>11, <1>12, <1>13, <1>14, <1>15 DEF IInv

\* Only here does a client become fully connected, and it was not reported before.
LEMMA AnnounceKeeps ==
  ASSUME IInv, Announce
  PROVE  IInv'
<1>1. clientID \in ClientIDs
  BY DEF Announce, IInv, MainKnows
<1>2. /\ state' \in [ClientIDs -> States] /\ wasFullyConnected' \in [ClientIDs -> BOOLEAN]
      /\ state'[clientID] = "CONNECTED"
      /\ \A i \in ClientIDs \ {clientID} :
            state'[i] = state[i] /\ wasFullyConnected'[i] = wasFullyConnected[i]
      /\ wasFullyConnected'[clientID]
  BY <1>1, StateSet DEF Announce, IInv, States
<1>3. TypeOK'
  <2>1. clientID' \in Nat /\ returnMe' \in 0 .. MaxClients
    BY <1>1, ConstantsAssumption DEF Announce, IInv, TypeOK, ClientIDs
  <2>2. mainPC' \in ScanPlaces \cup AcceptPlaces \cup ClosePlaces \cup {"idle"}
    BY DEF Announce, ScanPlaces
  <2> QED
    BY <1>2, <2>1, <2>2 DEF Announce, setup, sendVars, recvVars, sortVars, peerVars,
       workerVars, IInv, TypeOK
<1>4. FreeIsClosed'
  BY <1>2 DEF Announce, setup, sendVars, recvVars, IInv, FreeIsClosed, MainKnows,
              NotYetFully, UnusedFree, ReturnedOnce
<1>5. MainKnows'
  BY DEF Announce, IInv, MainKnows, Scanning, ScanPlaces, ClientIDs
<1>6. UnusedFree'
  BY <1>2 DEF Announce, IInv, TypeOK, UnusedFree, Scanning, FreeIsClosed, MainKnows,
              NotYetFully, ReturnedOnce, ScanPlaces, ClosePlaces, ClientIDs
<1>7. NotYetFully'
  BY <1>2 DEF Announce, IInv, NotYetFully
<1>8. ReturnedOnce'
  BY <1>2 DEF Announce, IInv, TypeOK, ReturnedOnce, Scanning, FreeIsClosed, MainKnows,
              NotYetFully, UnusedFree, JoinsAlternate
<1>9. SortedOrMarked'
  BY DEF Announce, sortVars, peerVars, IInv, SortedOrMarked, SortedFree
<1>10. JoinsAlternate'
  BY <1>2 DEF Announce, IInv, JoinsAlternate
<1>11. PacketFits' /\ SendsCounted'
  BY DEF Announce, setup, sendVars, recvVars, sortVars, peerVars, workerVars, IInv,
         PacketFits, SendsCounted, SendPackets
<1> QED
  BY <1>3, <1>4, <1>5, <1>6, <1>7, <1>8, <1>9, <1>10, <1>11 DEF IInv

\* Nothing to accept: the client that joined, if any, is reported once.
LEMMA AcceptNoneKeeps ==
  ASSUME IInv, AcceptNone
  PROVE  IInv'
<1>1. \A i \in ClientIDs : wasFullyConnected[i] /\ (i = returnMe \/ reported[i] = 1) =>
         wasFullyConnected'[i]
  BY DEF AcceptNone, slotVars
<1>2. /\ mainPC' = "idle" /\ clientID' = 0 /\ unusedClientID' = 0 /\ returnMe' = 0
      /\ afterClose' = "idle" /\ reported' \in [ClientIDs -> Int]
      /\ MainKnows' /\ UnusedFree' /\ ReturnedOnce' /\ JoinsAlternate'
  BY <1>1, CallEnds DEF AcceptNone
<1>3. TypeOK'
  <2>1. unusedClientID' \in 0 .. MaxClients
    BY <1>2, ConstantsAssumption DEF ScanPlaces, AcceptPlaces, ClosePlaces
  <2>2. returnMe' \in 0 .. MaxClients
    BY <1>2, ConstantsAssumption DEF ScanPlaces, AcceptPlaces, ClosePlaces
  <2>3. afterClose' \in {"idle", "scan", "return"}
    BY <1>2, ConstantsAssumption DEF ScanPlaces, AcceptPlaces, ClosePlaces
  <2> QED
    BY <1>2, <2>1, <2>2, <2>3 DEF AcceptNone, Accepting, setup, slotVars, sendVars,
                                  recvVars, sortVars, peerVars, workerVars, IInv, TypeOK
<1>4. FreeIsClosed'
  BY <1>2 DEF AcceptNone, Accepting, setup, slotVars, sendVars, recvVars, IInv, FreeIsClosed
<1>5. MainKnows'
  BY <1>2
<1>6. UnusedFree'
  BY <1>2
<1>7. NotYetFully'
  BY <1>2 DEF AcceptNone, Accepting, setup, slotVars, sendVars, recvVars, IInv, NotYetFully
<1>8. ReturnedOnce'
  BY <1>2
<1>9. SortedOrMarked'
  BY DEF AcceptNone, Accepting, setup, slotVars, sendVars, recvVars, sortVars, peerVars,
         IInv, SortedOrMarked, SortedFree
<1>10. JoinsAlternate'
  BY <1>2
<1>11. PacketFits' /\ SendsCounted'
  BY DEF AcceptNone, Accepting, setup, slotVars, sendVars, recvVars, sortVars, peerVars,
         workerVars, IInv, PacketFits, SendsCounted, SendPackets
<1> QED
  BY <1>3, <1>4, <1>5, <1>6, <1>7, <1>8, <1>9, <1>10, <1>11 DEF IInv

\* The same holds when a connection is refused.
LEMMA AcceptRefusesKeeps ==
  ASSUME IInv, NEW p \in Peers, AcceptRefuses(p)
  PROVE  IInv'
<1>1. \A i \in ClientIDs : wasFullyConnected[i] /\ (i = returnMe \/ reported[i] = 1) =>
         wasFullyConnected'[i]
  BY DEF AcceptRefuses, slotVars
<1>2. /\ mainPC' = "idle" /\ clientID' = 0 /\ unusedClientID' = 0 /\ returnMe' = 0
      /\ afterClose' = "idle" /\ reported' \in [ClientIDs -> Int]
      /\ MainKnows' /\ UnusedFree' /\ ReturnedOnce' /\ JoinsAlternate'
  BY <1>1, CallEnds DEF AcceptRefuses
<1>3. TypeOK'
  <2>1. mainPC' \in ScanPlaces \cup AcceptPlaces \cup ClosePlaces \cup {"idle"}
    BY <1>2, ConstantsAssumption DEF ScanPlaces, AcceptPlaces, ClosePlaces
  <2>2. clientID' \in Nat
    BY <1>2, ConstantsAssumption DEF ScanPlaces, AcceptPlaces, ClosePlaces
  <2>3. unusedClientID' \in 0 .. MaxClients
    BY <1>2, ConstantsAssumption DEF ScanPlaces, AcceptPlaces, ClosePlaces
  <2>4. returnMe' \in 0 .. MaxClients
    BY <1>2, ConstantsAssumption DEF ScanPlaces, AcceptPlaces, ClosePlaces
  <2>5. afterClose' \in {"idle", "scan", "return"}
    BY <1>2, ConstantsAssumption DEF ScanPlaces, AcceptPlaces, ClosePlaces
  <2> QED
    BY <1>2, <2>1, <2>2, <2>3, <2>4, <2>5 DEF AcceptRefuses, Accepting, setup, slotVars,
           sendVars, recvVars, sortVars, workerVars, IInv, TypeOK
<1>4. FreeIsClosed'
  BY <1>2 DEF AcceptRefuses, Accepting, setup, slotVars, sendVars, recvVars, IInv,
              FreeIsClosed
<1>5. MainKnows'
  BY <1>2
<1>6. UnusedFree'
  BY <1>2
<1>7. NotYetFully'
  BY <1>2 DEF AcceptRefuses, Accepting, setup, slotVars, sendVars, recvVars, IInv,
              NotYetFully
<1>8. ReturnedOnce'
  BY <1>2
<1>9. SortedOrMarked'
  BY DEF AcceptRefuses, Accepting, setup, slotVars, sendVars, recvVars, sortVars, IInv,
         SortedOrMarked, SortedFree
<1>10. JoinsAlternate'
  BY <1>2
<1>11. PacketFits' /\ SendsCounted'
  BY DEF AcceptRefuses, Accepting, setup, slotVars, sendVars, recvVars, sortVars,
         workerVars, IInv, PacketFits, SendsCounted, SendPackets
<1> QED
  BY <1>3, <1>4, <1>5, <1>6, <1>7, <1>8, <1>9, <1>10, <1>11 DEF IInv

\* An exception reports nobody.
LEMMA AcceptThrowsKeeps ==
  ASSUME IInv, NEW p \in Peers, AcceptThrows(p)
  PROVE  IInv'
<1>1. \A i \in ClientIDs : wasFullyConnected[i] /\ (i = returnMe \/ reported[i] = 1) =>
         wasFullyConnected'[i]
  BY DEF AcceptThrows, slotVars
<1>2. /\ mainPC' = "idle" /\ clientID' = 0 /\ unusedClientID' = 0 /\ returnMe' = 0
      /\ afterClose' = "idle" /\ reported' \in [ClientIDs -> Int]
      /\ MainKnows' /\ UnusedFree' /\ ReturnedOnce' /\ JoinsAlternate'
  BY <1>1, CallEnds DEF AcceptThrows
<1>3. TypeOK'
  <2>1. clientID' \in Nat
    BY <1>2, ConstantsAssumption DEF ScanPlaces, AcceptPlaces, ClosePlaces
  <2>2. unusedClientID' \in 0 .. MaxClients
    BY <1>2, ConstantsAssumption DEF ScanPlaces, AcceptPlaces, ClosePlaces
  <2>3. returnMe' \in 0 .. MaxClients
    BY <1>2, ConstantsAssumption DEF ScanPlaces, AcceptPlaces, ClosePlaces
  <2>4. afterClose' \in {"idle", "scan", "return"}
    BY <1>2, ConstantsAssumption DEF ScanPlaces, AcceptPlaces, ClosePlaces
  <2> QED
    BY <1>2, <2>1, <2>2, <2>3, <2>4 DEF AcceptThrows, Accepting, setup, slotVars,
                                        sendVars, recvVars, sortVars, workerVars, IInv,
                                        TypeOK
<1>4. FreeIsClosed'
  BY <1>2 DEF AcceptThrows, Accepting, setup, slotVars, sendVars, recvVars, IInv,
              FreeIsClosed
<1>5. MainKnows'
  BY <1>2
<1>6. UnusedFree'
  BY <1>2
<1>7. NotYetFully'
  BY <1>2 DEF AcceptThrows, Accepting, setup, slotVars, sendVars, recvVars, IInv,
              NotYetFully
<1>8. ReturnedOnce'
  BY <1>2
<1>9. SortedOrMarked'
  BY DEF AcceptThrows, Accepting, setup, slotVars, sendVars, recvVars, sortVars, IInv,
         SortedOrMarked, SortedFree
<1>10. PacketFits' /\ SendsCounted' /\ JoinsAlternate'
  BY DEF AcceptThrows, Accepting, Throw, EndCall, setup, slotVars, sendVars, recvVars,
         sortVars, workerVars, IInv, PacketFits, SendsCounted, JoinsAlternate, SendPackets
<1> QED
  BY <1>3, <1>4, <1>5, <1>6, <1>7, <1>8, <1>9, <1>10 DEF IInv

\* The client ID that the scan found is still free, and the new client is not fully
\* connected.
LEMMA AcceptConnectionKeeps ==
  ASSUME IInv, NEW p \in Peers, AcceptConnection(p)
  PROVE  IInv'
<1>1. unusedClientID \in ClientIDs
  BY ConstantsAssumption DEF AcceptConnection, IInv, TypeOK, ClientIDs
<1>2. PICK new \in {"CONNECTING", "CONNECTED_AC"} : SetConnectionState(unusedClientID, new)
  BY DEF AcceptConnection
<1>3. /\ state' \in [ClientIDs -> States] /\ wasFullyConnected' \in [ClientIDs -> BOOLEAN]
      /\ state'[unusedClientID] = new
      /\ \A i \in ClientIDs \ {unusedClientID} :
            state'[i] = state[i] /\ wasFullyConnected'[i] = wasFullyConnected[i]
      /\ wasFullyConnected'[unusedClientID] <=> wasFullyConnected[unusedClientID]
  BY <1>1, <1>2, StateSet DEF IInv, States
<1>4. TypeOK'
  <2>1. backlog' \in SUBSET Peers
    BY DEF AcceptConnection, IInv, TypeOK
  <2>2. peer' \in [Peers -> {"idle", "waiting", "connected", "gone"}]
    BY DEF AcceptConnection, IInv, TypeOK
  <2>3. mainPC' \in ScanPlaces \cup AcceptPlaces \cup ClosePlaces \cup {"idle"}
    BY DEF AcceptConnection, Accepting, AcceptPlaces
  <2>4. clientID' \in Nat
    BY DEF AcceptConnection, IInv, TypeOK
  <2> QED
    BY <1>3, <2>1, <2>2, <2>3, <2>4 DEF AcceptConnection, Accepting, setup, sendVars,
                                        recvVars, sortVars, workerVars, IInv, TypeOK
<1>5. FreeIsClosed'
  <2>1. /\ mainPC = "scan" /\ mainPC' = "recv" /\ conn \in [ClientIDs -> Peers \cup {None}]
        /\ conn' = [conn EXCEPT ![unusedClientID] = p]
    BY DEF AcceptConnection, Accepting, IInv, TypeOK
  <2>2. /\ \A i \in ClientIDs : i = unusedClientID => conn'[i] # None
        /\ \A i \in ClientIDs : i # unusedClientID => conn'[i] = conn[i]
    BY <2>1, ConstantsAssumption
  <2>3. UNCHANGED <<sends, sendOps, notDealing, recvEvent>>
    BY DEF AcceptConnection, sendVars, recvVars
  <2>4. /\ \A i \in ClientIDs : i = unusedClientID => state'[i] # "NOT_CONNECTED"
        /\ \A i \in ClientIDs : i # unusedClientID => state'[i] = state[i]
    BY <1>2, <1>3
  <2> QED
    BY <2>1, <2>2, <2>3, <2>4 DEF IInv, FreeIsClosed
<1>6. MainKnows'
  BY ConstantsAssumption DEF AcceptConnection, Accepting, IInv, TypeOK, MainKnows,
                             Scanning, ScanPlaces, ClientIDs, AcceptPlaces, ClosePlaces,
                             Served
<1>7. UnusedFree'
  BY DEF AcceptConnection, Accepting, IInv, UnusedFree, Scanning, ScanPlaces, ClosePlaces
<1>8. NotYetFully'
  BY <1>1, <1>2, <1>3, ConstantsAssumption DEF AcceptConnection, Accepting, setup,
         sendVars, recvVars, sortVars, workerVars, IInv, TypeOK, NotYetFully,
         FreeIsClosed, MainKnows, UnusedFree, ReturnedOnce, Scanning, ScanPlaces,
         ClientIDs, MainKnows, ClientIDs, Served
<1>9. ReturnedOnce'
  <2>1. returnMe # 0 => /\ returnMe \in ClientIDs
                        /\ wasFullyConnected[returnMe] /\ reported[returnMe] < 1
    BY DEF IInv, TypeOK, ReturnedOnce, ClientIDs
  <2>2. ~wasFullyConnected[unusedClientID]
    BY <1>1 DEF AcceptConnection, Accepting, IInv, UnusedFree, Scanning, ScanPlaces,
                NotYetFully
  <2>3. /\ returnMe' = returnMe /\ reported' = reported /\ clientID' = unusedClientID
        /\ mainPC' \in AcceptPlaces
    BY DEF AcceptConnection, AcceptPlaces
  <2> QED
    BY <1>3, <2>1, <2>2, <2>3
    DEF ReturnedOnce, Scanning, ScanPlaces, AcceptPlaces, ClosePlaces
<1>10. SortedOrMarked'
  BY DEF AcceptConnection, Accepting, sortVars, IInv, SortedOrMarked, SortedFree
<1>11. JoinsAlternate'
  BY <1>3 DEF AcceptConnection, Accepting, IInv, JoinsAlternate, Scanning
<1>12. PacketFits' /\ SendsCounted'
  BY DEF AcceptConnection, Accepting, setup, sendVars, recvVars, sortVars, workerVars,
         IInv, PacketFits, SendsCounted, SendPackets
<1> QED
  BY <1>4, <1>5, <1>6, <1>7, <1>8, <1>9, <1>10, <1>11, <1>12 DEF IInv

\* The first receive of a client finds its connection.
LEMMA FirstRecvKeeps ==
  ASSUME IInv, FirstRecv
  PROVE  IInv'
<1>1. clientID \in ClientIDs
  BY DEF FirstRecv, IInv, MainKnows
<1>2. /\ recvs' \in [ClientIDs -> Seq(Peers)]
      /\ recvEvent' \in [ClientIDs -> BOOLEAN] /\ notDealing' \in [ClientIDs -> BOOLEAN]
      /\ \A i \in ClientIDs :
               state[i] = "NOT_CONNECTED" => notDealing'[i] /\ recvEvent'[i]
  BY <1>1, ReceiveKeeps DEF FirstRecv, IInv
<1>3. TypeOK'
  BY <1>2 DEF FirstRecv, MainGoto, setup, slotVars, sendVars, sortVars, peerVars,
              workerVars, IInv, TypeOK, NoPacket, Datagram, Completed, States, Packet,
              ClientPlaces, DatagramPlaces, ScanPlaces, AcceptPlaces, ClosePlaces,
              ClientIDs
<1>4. FreeIsClosed'
  BY <1>2 DEF FirstRecv, MainGoto, setup, slotVars, sendVars, IInv, FreeIsClosed
<1>5. MainKnows'
  BY DEF FirstRecv, MainGoto, IInv, MainKnows, Scanning, ScanPlaces, AcceptPlaces
<1>6. UnusedFree'
  BY DEF FirstRecv, MainGoto, IInv, UnusedFree, Scanning, ScanPlaces, ClosePlaces
<1>7. NotYetFully'
  BY DEF FirstRecv, MainGoto, setup, slotVars, sendVars, IInv, NotYetFully
<1>8. ReturnedOnce'
  BY DEF FirstRecv, MainGoto, setup, slotVars, sendVars, IInv, ReturnedOnce, Scanning,
         ScanPlaces, ClosePlaces
<1>9. SortedOrMarked'
  BY DEF FirstRecv, setup, slotVars, sendVars, sortVars, peerVars, IInv, SortedOrMarked,
         SortedFree
<1>10. PacketFits' /\ SendsCounted' /\ JoinsAlternate'
  BY DEF FirstRecv, MainGoto, setup, slotVars, sendVars, sortVars, peerVars, workerVars,
         IInv, PacketFits, SendsCounted, JoinsAlternate, SendPackets
<1> QED
  BY <1>3, <1>4, <1>5, <1>6, <1>7, <1>8, <1>9, <1>10 DEF IInv

\* One that fails is an error of this client.
LEMMA FirstRecvFailedKeeps ==
  ASSUME IInv, FirstRecvFailed
  PROVE  IInv'
<1>1. clientID \in ClientIDs
  BY DEF FirstRecvFailed, IInv, MainKnows
<1>2. /\ state' \in [ClientIDs -> States] /\ wasFullyConnected' \in [ClientIDs -> BOOLEAN]
      /\ \A i \in ClientIDs : state'[i] = state[i]
            \/ (state[i] # "NOT_CONNECTED" /\ state'[i] = "DISCONNECTING")
      /\ \A i \in ClientIDs : wasFullyConnected'[i] <=> wasFullyConnected[i]
      /\ connectCode' = connectCode /\ remoteAddrUDP' = remoteAddrUDP
  BY <1>1, ErrorKeeps DEF FirstRecvFailed, IInv
<1>3. TypeOK'
  BY <1>2 DEF FirstRecvFailed, MainGoto, setup, sendVars, recvVars, sortVars, peerVars,
              workerVars, IInv, TypeOK, NoPacket, Datagram, Completed, States, Packet,
              ClientPlaces, DatagramPlaces, ScanPlaces, AcceptPlaces, ClosePlaces,
              ClientIDs
<1>4. FreeIsClosed'
  BY <1>2 DEF FirstRecvFailed, MainGoto, setup, sendVars, recvVars, IInv, FreeIsClosed
<1>5. MainKnows'
  BY DEF FirstRecvFailed, MainGoto, IInv, MainKnows, Scanning, ScanPlaces, AcceptPlaces
<1>6. UnusedFree'
  BY DEF FirstRecvFailed, MainGoto, IInv, UnusedFree, Scanning, ScanPlaces, ClosePlaces
<1>7. NotYetFully'
  BY <1>2 DEF FirstRecvFailed, MainGoto, IInv, NotYetFully, Scanning, ClientIDs
<1>8. ReturnedOnce'
  BY <1>2 DEF FirstRecvFailed, MainGoto, IInv, TypeOK, ReturnedOnce, Scanning, ScanPlaces,
              ClosePlaces, ClientIDs
<1>9. SortedOrMarked'
  BY <1>2 DEF FirstRecvFailed, sortVars, peerVars, workerVars, IInv, SortedOrMarked,
              SortedFree
<1>10. JoinsAlternate'
  BY <1>2 DEF FirstRecvFailed, MainGoto, IInv, JoinsAlternate
<1>11. PacketFits' /\ SendsCounted'
  BY DEF FirstRecvFailed, setup, sendVars, recvVars, sortVars, peerVars, workerVars, IInv,
         PacketFits, SendsCounted, SendPackets
<1> QED
  BY <1>3, <1>4, <1>5, <1>6, <1>7, <1>8, <1>9, <1>10, <1>11 DEF IInv

\* The packet with the codes is counted, and only its receiver gets to know the client
\* ID; or the client is to be disconnected.
LEMMA SendHandshakingPacketKeeps ==
  ASSUME IInv, SendHandshakingPacket
  PROVE  IInv'
<1>1. clientID \in ClientIDs
  BY DEF SendHandshakingPacket, IInv, MainKnows
<1>2. \/ Return
      \/ /\ mainPC' = "disconnect" /\ afterClose' = "return"
         /\ UNCHANGED <<clientID, unusedClientID, returnMe, reported>>
  BY DEF SendHandshakingPacket
<1>3. \/ UNCHANGED <<sends, sendOps, peerID>>
      \/ /\ sends' = [sends EXCEPT ![clientID] = @ + 1]
         /\ sendOps' = [sendOps EXCEPT ![clientID] = @ + 1]
         /\ peerID' = [peerID EXCEPT ![conn[clientID]] =
                          IF enabledUDP /\ Alive(conn[clientID]) THEN clientID ELSE @]
  BY DEF SendHandshakingPacket
<1>4. conn[clientID] \in Peers /\ state[clientID] # "NOT_CONNECTED"
  BY <1>1 DEF SendHandshakingPacket, IInv, TypeOK, MainKnows, FreeIsClosed
<1>5. /\ sends' \in [ClientIDs -> Nat] /\ sendOps' \in [ClientIDs -> Nat]
      /\ \A i \in ClientIDs : sends'[i] - sends[i] = sendOps'[i] - sendOps[i]
      /\ \A i \in ClientIDs \ {clientID} : sends'[i] = sends[i] /\ sendOps'[i] = sendOps[i]
  <2>1. sends \in [ClientIDs -> Nat] /\ sendOps \in [ClientIDs -> Nat]
    BY DEF IInv, TypeOK
  <2>2. CASE UNCHANGED <<sends, sendOps, peerID>>
    BY <2>1, <2>2
  <2>3. CASE /\ sends' = [sends EXCEPT ![clientID] = @ + 1]
             /\ sendOps' = [sendOps EXCEPT ![clientID] = @ + 1]
    BY <1>1, <2>1, <2>3
  <2> QED
    BY <1>3, <2>2, <2>3
<1>6. /\ peerID' \in [Peers -> 0 .. MaxClients]
      /\ \A p \in Peers : peerID[p] # 0 => peerID'[p] # 0
  <2>1. \/ peerID' = peerID
        \/ peerID' = [peerID EXCEPT ![conn[clientID]] = clientID]
    BY <1>3, <1>4 DEF IInv, TypeOK
  <2>2. clientID \in 0 .. MaxClients /\ clientID # 0
    BY <1>1, ConstantsAssumption DEF ClientIDs
  <2> QED
    BY <1>4, <2>1, <2>2 DEF IInv, TypeOK
<1>7. \A i \in ClientIDs : wasFullyConnected[i] /\ (i = returnMe \/ reported[i] = 1) =>
         wasFullyConnected'[i]
  BY DEF SendHandshakingPacket
<1>8. Return \/ Throw =>
         /\ mainPC' = "idle" /\ clientID' = 0 /\ unusedClientID' = 0 /\ returnMe' = 0
         /\ afterClose' = "idle" /\ reported' \in [ClientIDs -> Int]
         /\ MainKnows' /\ UnusedFree' /\ ReturnedOnce' /\ JoinsAlternate'
  BY <1>7, CallEnds
<1>9. TypeOK'
  <2>1. connectCode' \in [ClientIDs -> Peers \cup {None}]
    BY DEF SendHandshakingPacket, IInv, TypeOK
  <2>2. mainPC' \in ScanPlaces \cup AcceptPlaces \cup ClosePlaces \cup {"idle"}
    BY <1>2, <1>8 DEF IInv, ScanPlaces, AcceptPlaces, ClosePlaces
  <2>3. clientID' \in Nat
    BY <1>2, <1>8 DEF IInv, TypeOK
  <2>4. unusedClientID' \in 0 .. MaxClients
    BY <1>2, <1>8, ConstantsAssumption DEF IInv, TypeOK
  <2>5. returnMe' \in 0 .. MaxClients
    BY <1>1, <1>2, <1>8, ConstantsAssumption DEF IInv, TypeOK, ScanPlaces, AcceptPlaces,
           ClosePlaces
  <2>6. afterClose' \in {"idle", "scan", "return"}
    BY <1>2, <1>8 DEF IInv
  <2> QED
    BY <1>5, <1>6, <1>7, <1>8, <2>1, <2>2, <2>3, <2>4, <2>5, <2>6 DEF
           SendHandshakingPacket, setup, recvVars, sortVars, workerVars, IInv, TypeOK
<1>10. PacketFits'
  BY <1>6 DEF SendHandshakingPacket, workerVars, IInv, TypeOK, PacketFits
<1>11. SendsCounted'
  <2>1. \A i : SendPackets(i)' = SendPackets(i) /\ Cardinality(SendPackets(i)) \in Nat
    BY SendPacketsFinite DEF SendHandshakingPacket, IInv, SendPackets
  <2>2. sends \in [ClientIDs -> Nat] /\ sendOps \in [ClientIDs -> Nat]
    BY DEF IInv, TypeOK
  <2>3. \A i \in ClientIDs : sends[i] = sendOps[i] + Cardinality(SendPackets(i))
    BY DEF IInv, SendsCounted
  <2> QED
    BY <1>5, <2>1, <2>2, <2>3 DEF SendsCounted
<1>12. FreeIsClosed'
  BY <1>1, <1>2, <1>4, <1>5, <1>8 DEF SendHandshakingPacket, recvVars, IInv, TypeOK,
                                      FreeIsClosed
<1>13. MainKnows'
  <2>1. CASE Return \/ Throw
    BY <2>1, <1>8
  <2>2. CASE /\ mainPC' = "disconnect" /\ afterClose' = "return"
               /\ UNCHANGED <<clientID, unusedClientID, returnMe, reported>>
    BY <2>2 DEF SendHandshakingPacket, IInv, FreeIsClosed, MainKnows, NotYetFully,
                UnusedFree, ReturnedOnce, JoinsAlternate, Scanning, ScanPlaces,
                AcceptPlaces
  <2> QED
    BY <1>2, <2>1, <2>2
<1>14. UnusedFree'
  <2>1. CASE Return \/ Throw
    BY <2>1, <1>8
  <2>2. CASE /\ mainPC' = "disconnect" /\ afterClose' = "return"
               /\ UNCHANGED <<clientID, unusedClientID, returnMe, reported>>
    BY <2>2 DEF SendHandshakingPacket, IInv, FreeIsClosed, MainKnows, NotYetFully,
                UnusedFree, ReturnedOnce, JoinsAlternate, Scanning, ScanPlaces,
                AcceptPlaces
  <2> QED
    BY <1>2, <2>1, <2>2
<1>15. NotYetFully'
  BY <1>1, <1>2, <1>8 DEF SendHandshakingPacket, IInv, TypeOK, NotYetFully
<1>16. ReturnedOnce'
  <2>1. CASE Return \/ Throw
    BY <2>1, <1>8
  <2>2. CASE /\ mainPC' = "disconnect" /\ afterClose' = "return"
               /\ UNCHANGED <<clientID, unusedClientID, returnMe, reported>>
    BY <2>2 DEF SendHandshakingPacket, IInv, FreeIsClosed, MainKnows, NotYetFully,
                UnusedFree, ReturnedOnce, JoinsAlternate, Scanning, ScanPlaces,
                AcceptPlaces
  <2> QED
    BY <1>2, <2>1, <2>2
<1>17. SortedOrMarked'
  BY <1>2, <1>8 DEF SendHandshakingPacket, sortVars, IInv, SortedOrMarked, SortedFree
<1>18. JoinsAlternate'
  <2>1. CASE Return \/ Throw
    BY <2>1, <1>8
  <2>2. CASE /\ mainPC' = "disconnect" /\ afterClose' = "return"
               /\ UNCHANGED <<clientID, unusedClientID, returnMe, reported>>
    BY <2>2 DEF SendHandshakingPacket, IInv, FreeIsClosed, MainKnows, NotYetFully,
                UnusedFree, ReturnedOnce, JoinsAlternate
  <2> QED
    BY <1>2, <2>1, <2>2
<1> QED
  BY <1>9, <1>10, <1>11, <1>12, <1>13, <1>14, <1>15, <1>16, <1>17, <1>18 DEF IInv

\* A client that was reported is reported to have left before its socket is closed.
LEMMA DisconnectKeeps ==
  ASSUME IInv, Disconnect
  PROVE  IInv'
<1>1. clientID \in ClientIDs
  BY DEF Disconnect, IInv, MainKnows
<1>2. reported' = [reported EXCEPT ![clientID] = IF wasFullyConnected[clientID] THEN @ - 1 ELSE @]
  BY DEF Disconnect
<1>3. /\ reported' \in [ClientIDs -> Int] /\ reported'[clientID] < 1
      /\ \A i \in ClientIDs \ {clientID} : reported'[i] = reported[i]
  <2>1. /\ reported[clientID] \in Int
        /\ reported[clientID] < 1 \/ (reported[clientID] = 1 /\ wasFullyConnected[clientID])
    BY <1>1 DEF IInv, TypeOK, JoinsAlternate
  <2> QED
    BY <1>1, <1>2, <2>1 DEF IInv, TypeOK
<1>4. TypeOK'
  <2>1. conn' \in [ClientIDs -> Peers \cup {None}]
    BY DEF Disconnect, IInv, TypeOK
  <2>2. mainPC' \in ScanPlaces \cup AcceptPlaces \cup ClosePlaces \cup {"idle"}
    BY DEF Disconnect, ClosePlaces
  <2> QED
    BY <1>3, <2>1, <2>2 DEF Disconnect, setup, sendVars, recvVars, sortVars, peerVars,
                            workerVars, IInv, TypeOK
<1>5. FreeIsClosed'
  <2> SUFFICES ASSUME NEW i \in ClientIDs
               PROVE  /\ state'[i] = "NOT_CONNECTED" <=>
                            conn'[i] = None /\ ~(mainPC' = "closing" /\ clientID' = i)
                      /\ state'[i] = "NOT_CONNECTED" =>
                            /\ sends'[i] = 0 /\ sendOps'[i] = 0
                            /\ notDealing'[i] /\ recvEvent'[i]
    BY DEF FreeIsClosed
  <2>1. UNCHANGED <<state, sends, sendOps, notDealing, recvEvent, clientID>>
    BY DEF Disconnect, sendVars, recvVars
  <2>2. /\ mainPC = "disconnect" /\ mainPC' = "closing"
        /\ conn'[clientID] = None /\ (i # clientID => conn'[i] = conn[i])
    BY <1>1 DEF Disconnect, IInv, TypeOK
  <2>3. conn[clientID] # None
    BY <2>2 DEF IInv, MainKnows
  <2> QED
    BY <1>1, <2>1, <2>2, <2>3 DEF IInv, FreeIsClosed
<1>6. MainKnows'
  BY DEF Disconnect, IInv, TypeOK, MainKnows, Scanning, ScanPlaces, AcceptPlaces
<1>7. UnusedFree'
  BY DEF Disconnect, IInv, UnusedFree, Scanning, ScanPlaces, ClosePlaces
<1>8. NotYetFully'
  BY DEF Disconnect, IInv, NotYetFully
<1>9. ReturnedOnce'
  BY <1>3 DEF Disconnect, IInv, ReturnedOnce, Scanning, ScanPlaces, ClosePlaces
<1>10. SortedOrMarked'
  BY DEF Disconnect, SortedOrMarked, SortedFree
<1>11. JoinsAlternate'
  BY <1>1, <1>3 DEF Disconnect, IInv, TypeOK, JoinsAlternate
<1>12. PacketFits' /\ SendsCounted'
  BY DEF Disconnect, setup, sendVars, recvVars, sortVars, peerVars, workerVars, IInv,
         PacketFits, SendsCounted, SendPackets
<1> QED
  BY <1>4, <1>5, <1>6, <1>7, <1>8, <1>9, <1>10, <1>11, <1>12 DEF IInv

\* Close has waited for all that a free client ID must not have.
LEMMA ClosedKeeps ==
  ASSUME IInv, Closed
  PROVE  IInv'
<1>1. clientID \in ClientIDs
  BY DEF Closed, IInv, MainKnows
<1>2. /\ state' \in [ClientIDs -> States] /\ wasFullyConnected' \in [ClientIDs -> BOOLEAN]
      /\ state'[clientID] = "NOT_CONNECTED"
      /\ \A i \in ClientIDs \ {clientID} :
            state'[i] = state[i] /\ wasFullyConnected'[i] = wasFullyConnected[i]
      /\ ~wasFullyConnected'[clientID]
  BY <1>1, StateSet DEF Closed, FreeClientID, IInv, States
<1>3. \/ Return \/ Throw
      \/ /\ afterClose = "scan" /\ mainPC' = "scan" /\ clientID' = clientID + 1
         /\ UNCHANGED <<unusedClientID, returnMe, afterClose, reported>>
  BY DEF Closed, FreeClientID
<1>4. reported[clientID] < 1 /\ clientID # returnMe
  BY <1>1 DEF Closed, IInv, ReturnedOnce, ClientIDs
<1>5. \A i \in ClientIDs : wasFullyConnected[i] /\ (i = returnMe \/ reported[i] = 1) =>
         wasFullyConnected'[i]
  BY <1>1, <1>2, <1>4, SMTT(30) DEF IInv, JoinsAlternate, TypeOK
<1>6. Return \/ Throw =>
         /\ mainPC' = "idle" /\ clientID' = 0 /\ unusedClientID' = 0 /\ returnMe' = 0
         /\ afterClose' = "idle" /\ reported' \in [ClientIDs -> Int]
         /\ MainKnows' /\ UnusedFree' /\ ReturnedOnce' /\ JoinsAlternate'
  BY <1>5, CallEnds
<1>7. TypeOK'
  <2>1. needsResort' \in BOOLEAN
    BY DEF Closed, FreeClientID
  <2>2. mainPC' \in ScanPlaces \cup AcceptPlaces \cup ClosePlaces \cup {"idle"}
    BY <1>3, <1>6 DEF IInv, ScanPlaces, AcceptPlaces, ClosePlaces
  <2>3. clientID' \in Nat
    BY <1>3, <1>6 DEF IInv, TypeOK
  <2>4. unusedClientID' \in 0 .. MaxClients
    BY <1>3, <1>6, ConstantsAssumption DEF IInv, TypeOK
  <2>5. returnMe' \in 0 .. MaxClients
    BY <1>3, <1>6, ConstantsAssumption DEF IInv, TypeOK
  <2>6. afterClose' \in {"idle", "scan", "return"}
    BY <1>3, <1>6 DEF IInv
  <2> QED
    BY <1>2, <1>5, <1>6, <2>1, <2>2, <2>3, <2>4, <2>5, <2>6 DEF Closed, FreeClientID,
           setup, sendVars, recvVars, peerVars, workerVars, IInv, TypeOK
<1>8. FreeIsClosed'
  <2>1. sendOps[clientID] = 0
    <3>1. Cardinality(SendPackets(clientID)) \in Nat
      BY SendPacketsFinite DEF IInv
    <3>2. sends[clientID] = 0 /\ sendOps[clientID] \in Nat
      BY <1>1 DEF Closed, IInv, TypeOK
    <3>3. sends[clientID] = sendOps[clientID] + Cardinality(SendPackets(clientID))
      BY <1>1 DEF IInv, SendsCounted
    <3> QED
      BY <3>1, <3>2, <3>3
  <2>2. conn[clientID] = None /\ mainPC' # "closing" /\ mainPC = "closing"
    BY <1>3, <1>6 DEF Closed, IInv, MainKnows
  <2> QED
    BY <1>2, <2>1, <2>2 DEF Closed, FreeClientID, sendVars, recvVars, IInv, FreeIsClosed
<1>9. MainKnows'
  <2>1. CASE Return \/ Throw
    BY <2>1, <1>6
  <2>2. CASE /\ afterClose = "scan" /\ mainPC' = "scan" /\ clientID' = clientID + 1
               /\ UNCHANGED <<unusedClientID, returnMe, afterClose, reported>>
    BY <2>2 DEF Closed, FreeClientID, IInv, TypeOK, FreeIsClosed, MainKnows, NotYetFully,
                UnusedFree, ReturnedOnce, JoinsAlternate, Scanning
  <2> QED
    BY <1>3, <2>1, <2>2
<1>10. UnusedFree'
  <2>1. CASE Return \/ Throw
    BY <2>1, <1>6
  <2>2. CASE /\ afterClose = "scan" /\ mainPC' = "scan" /\ clientID' = clientID + 1
             /\ UNCHANGED <<unusedClientID, returnMe, afterClose, reported>>
    <3>1. unusedClientID # 0 => unusedClientID \in ClientIDs
      BY ConstantsAssumption DEF IInv, TypeOK, ClientIDs
    <3>2. unusedClientID # 0 => state[unusedClientID] = "NOT_CONNECTED"
      BY <2>2 DEF Closed, IInv, UnusedFree, Scanning, ClosePlaces
    <3> QED
      BY <1>2, <2>2, <3>1, <3>2 DEF UnusedFree
  <2> QED
    BY <1>3, <2>1, <2>2
<1>11. NotYetFully'
  BY <1>1, <1>2, <1>3, <1>6 DEF Closed, IInv, TypeOK, NotYetFully
<1>12. ReturnedOnce'
  <2>1. CASE Return \/ Throw
    BY <2>1, <1>6
  <2>2. CASE /\ afterClose = "scan" /\ mainPC' = "scan" /\ clientID' = clientID + 1
             /\ UNCHANGED <<unusedClientID, returnMe, afterClose, reported>>
    <3>1. clientID \in Nat /\ returnMe \in Nat /\ (returnMe # 0 => returnMe \in ClientIDs)
      BY ConstantsAssumption DEF IInv, TypeOK, ClientIDs
    <3>2. returnMe # 0 =>
             wasFullyConnected[returnMe] /\ reported[returnMe] < 1 /\ returnMe < clientID
      BY <2>2 DEF Closed, IInv, ReturnedOnce, Scanning, ClosePlaces
    <3>3. returnMe # 0 => wasFullyConnected'[returnMe]
      BY <1>2, <1>4, <3>1, <3>2
    <3>4. returnMe < clientID => clientID + 1 # returnMe /\ returnMe < clientID + 1
      BY <3>1
    <3> QED
      BY <2>2, <3>2, <3>3, <3>4 DEF ReturnedOnce
  <2> QED
    BY <1>3, <2>1, <2>2
<1>13. SortedOrMarked'
  BY DEF Closed, FreeClientID, SortedOrMarked
<1>14. JoinsAlternate'
  <2>1. CASE Return \/ Throw
    BY <2>1, <1>6
  <2>2. CASE /\ afterClose = "scan" /\ mainPC' = "scan" /\ clientID' = clientID + 1
               /\ UNCHANGED <<unusedClientID, returnMe, afterClose, reported>>
    BY <1>2, <2>2 DEF Closed, FreeClientID, IInv, FreeIsClosed, MainKnows, NotYetFully,
                      UnusedFree, ReturnedOnce, JoinsAlternate, Scanning
  <2> QED
    BY <1>3, <2>1, <2>2
<1>15. PacketFits' /\ SendsCounted'
  BY DEF Closed, FreeClientID, sendVars, peerVars, workerVars, IInv, PacketFits,
     SendsCounted, SendPackets
<1> QED
  BY <1>7, <1>8, <1>9, <1>10, <1>11, <1>12, <1>13, <1>14, <1>15 DEF IInv

\* The program disconnects only a client with a socket.
LEMMA DisconnectClientKeeps ==
  ASSUME IInv, NEW id \in ClientIDs, DisconnectClient(id)
  PROVE  IInv'
<1>1. TypeOK'
  BY ConstantsAssumption, SMTT(30) DEF DisconnectClient, setup, slotVars, sendVars, recvVars,
                             sortVars, peerVars, workerVars, IInv, TypeOK, NoPacket,
                             Datagram, Completed, States, Packet, ClientPlaces,
                             DatagramPlaces, ScanPlaces, AcceptPlaces, ClosePlaces,
                             ClientIDs, Served
<1>2. FreeIsClosed'
  BY DEF DisconnectClient, setup, slotVars, sendVars, recvVars, IInv, FreeIsClosed
<1>3. MainKnows'
  BY DEF DisconnectClient, IInv, MainKnows, Scanning, ScanPlaces, AcceptPlaces
<1>4. UnusedFree'
  BY DEF DisconnectClient, IInv, UnusedFree, Scanning, ScanPlaces
<1>5. NotYetFully'
  BY DEF DisconnectClient, setup, slotVars, sendVars, IInv, NotYetFully
<1>6. ReturnedOnce'
  BY DEF DisconnectClient, IInv, ReturnedOnce, Scanning, MainKnows
<1>7. SortedOrMarked'
  BY DEF DisconnectClient, setup, slotVars, sendVars, recvVars, sortVars, peerVars, IInv,
         SortedOrMarked, SortedFree
<1>8. PacketFits' /\ SendsCounted' /\ JoinsAlternate'
  BY DEF DisconnectClient, setup, slotVars, sendVars, recvVars, sortVars, peerVars,
         workerVars, IInv, PacketFits, SendsCounted, JoinsAlternate, SendPackets
<1> QED
  BY <1>1, <1>2, <1>3, <1>4, <1>5, <1>6, <1>7, <1>8 DEF IInv

\* A send of the program is counted, or its failure is an error of the client.
LEMMA SendTCPKeeps ==
  ASSUME IInv, NEW id \in ClientIDs, SendTCP(id)
  PROVE  IInv'
<1>1. ErrorOccurred(id) \/ UNCHANGED slotVars
  BY DEF SendTCP
<1>2. /\ state' \in [ClientIDs -> States] /\ wasFullyConnected' \in [ClientIDs -> BOOLEAN]
      /\ \A i \in ClientIDs : state'[i] = state[i]
            \/ (state[i] # "NOT_CONNECTED" /\ state'[i] = "DISCONNECTING")
      /\ \A i \in ClientIDs : wasFullyConnected'[i] <=> wasFullyConnected[i]
      /\ connectCode' = connectCode /\ remoteAddrUDP' = remoteAddrUDP
  BY <1>1, ErrorKeeps DEF IInv
<1>3. \/ UNCHANGED <<sends, sendOps>>
      \/ /\ state[id] = "CONNECTED"
         /\ sends' = [sends EXCEPT ![id] = @ + 1] /\ sendOps' = [sendOps EXCEPT ![id] = @ + 1]
  BY DEF SendTCP
<1>4. sends \in [ClientIDs -> Nat] /\ sendOps \in [ClientIDs -> Nat]
  BY DEF IInv, TypeOK
<1>5. TypeOK'
  <2>1. sends' \in [ClientIDs -> Nat]
    BY <1>3, <1>4
  <2>2. sendOps' \in [ClientIDs -> Nat]
    BY <1>3, <1>4
  <2> QED
    BY <1>2, <2>1, <2>2 DEF SendTCP, setup, recvVars, sortVars, peerVars, workerVars,
                            mainVars, IInv, TypeOK
<1>6. SendsCounted'
  <2>1. \A i : SendPackets(i)' = SendPackets(i) /\ Cardinality(SendPackets(i)) \in Nat
    BY SendPacketsFinite DEF SendTCP, IInv, SendPackets
  <2>2. CASE UNCHANGED <<sends, sendOps>>
    BY <2>1, <2>2 DEF IInv, SendsCounted
  <2>3. CASE /\ sends' = [sends EXCEPT ![id] = @ + 1]
             /\ sendOps' = [sendOps EXCEPT ![id] = @ + 1]
    BY <1>4, <2>1, <2>3 DEF IInv, SendsCounted
  <2> QED
    BY <1>3, <2>2, <2>3
<1>7. FreeIsClosed'
  BY <1>2, <1>4, ConstantsAssumption DEF SendTCP, setup, recvVars, mainVars, IInv,
                                         FreeIsClosed
<1>8. UnusedFree'
  BY DEF SendTCP, mainVars, IInv, UnusedFree, Scanning, ScanPlaces, ClosePlaces
<1>9. NotYetFully'
  BY <1>2, ConstantsAssumption DEF SendTCP, mainVars, IInv, NotYetFully
<1>10. ReturnedOnce'
  BY <1>2, ConstantsAssumption DEF SendTCP, mainVars, IInv, TypeOK, ReturnedOnce,
                                   Scanning, ScanPlaces, ClosePlaces, ClientIDs, Served
<1>11. JoinsAlternate'
  BY <1>2, ConstantsAssumption DEF SendTCP, mainVars, IInv, JoinsAlternate
<1>12. PacketFits' /\ MainKnows' /\ SortedOrMarked'
  BY <1>2 DEF SendTCP, sortVars, peerVars, workerVars, mainVars, IInv, PacketFits,
              MainKnows, SortedOrMarked, SortedFree
<1> QED
  BY <1>5, <1>6, <1>7, <1>8, <1>9, <1>10, <1>11, <1>12 DEF IInv

-------------------------------------------------------------------------------
(* The invariant, and what follows from it *)

\* A loaded server has no clients.
LEMMA InitIInv == Init => IInv
<1> SUFFICES ASSUME Init PROVE IInv
  OBVIOUS
<1>1. TypeOK
  <2>1. /\ maxClients \in ClientIDs /\ enabledUDP \in BOOLEAN
        /\ state \in [ClientIDs -> States] /\ connectCode \in [ClientIDs -> Peers \cup {None}]
        /\ conn \in [ClientIDs -> Peers \cup {None}]
    BY ConstantsAssumption DEF Init, ClientIDs, States
  <2>2. /\ remoteAddrUDP \in [ClientIDs -> Addresses \cup {None}]
        /\ sorted \in [ClientIDs -> Addresses \cup {None}]
    BY DEF Init
  <2>3. /\ recvs \in [ClientIDs -> Seq(Peers)] /\ port \in Seq(Packet)
        /\ sends \in [ClientIDs -> Nat] /\ sendOps \in [ClientIDs -> Nat]
    BY DEF Init
  <2>4. /\ peer \in [Peers -> {"idle", "waiting", "connected", "gone"}]
        /\ peerID \in [Peers -> 0 .. MaxClients]
        /\ packet \in [Workers -> Packet]
    BY ConstantsAssumption DEF Init, Packet, NoPacket, Datagram
  <2>5. /\ workerPC \in [Workers -> ClientPlaces \cup DatagramPlaces \cup {"idle"}]
        /\ reported \in [ClientIDs -> Int]
        /\ unusedClientID \in 0 .. MaxClients /\ returnMe \in 0 .. MaxClients
    BY ConstantsAssumption DEF Init
  <2>6. /\ wasFullyConnected \in [ClientIDs -> BOOLEAN]
        /\ recvEvent \in [ClientIDs -> BOOLEAN] /\ notDealing \in [ClientIDs -> BOOLEAN]
        /\ lastAborted \in [Workers -> BOOLEAN]
    BY DEF Init
  <2>7. /\ needsResort \in BOOLEAN /\ udpRecv \in BOOLEAN /\ backlog \in SUBSET Peers
        /\ mainPC \in ScanPlaces \cup AcceptPlaces \cup ClosePlaces \cup {"idle"}
        /\ clientID \in Nat /\ afterClose \in {"idle", "scan", "return"}
    BY <2>1 DEF Init
  <2> QED
    BY <2>1, <2>2, <2>3, <2>4, <2>5, <2>6, <2>7 DEF TypeOK
<1>2. PacketFits
  BY DEF Init, PacketFits, ClientPlaces, DatagramPlaces
<1>3. SendsCounted
  <2>1. \A i : SendPackets(i) = {}
    BY DEF Init, SendPackets
  <2>2. \A i : Cardinality(SendPackets(i)) = 0
    BY <2>1, FS_EmptySet
  <2>3. \A i \in ClientIDs : sends[i] = 0 /\ sendOps[i] = 0
    BY DEF Init
  <2> QED
    BY <2>2, <2>3 DEF SendsCounted
<1>4. FreeIsClosed /\ SortedOrMarked
  BY DEF Init, FreeIsClosed, SortedOrMarked
<1>5. MainKnows /\ UnusedFree
  BY DEF Init, MainKnows, UnusedFree, ScanPlaces, AcceptPlaces, ClosePlaces
<1>6. NotYetFully /\ ReturnedOnce /\ JoinsAlternate
  BY DEF Init, NotYetFully, ReturnedOnce, JoinsAlternate
<1> QED
  BY <1>1, <1>2, <1>3, <1>4, <1>5, <1>6 DEF IInv

\* A step that changes nothing keeps the invariant.
LEMMA StutterKeeps ==
  ASSUME IInv, UNCHANGED vars
  PROVE  IInv'
<1>1. TypeOK'
  BY DEF vars, setup, slotVars, sendVars, recvVars, sortVars, peerVars, workerVars,
     mainVars, IInv, TypeOK
<1>2. PacketFits' /\ SendsCounted' /\ FreeIsClosed' /\ MainKnows' /\ UnusedFree'
  BY DEF vars, setup, slotVars, sendVars, recvVars, sortVars, peerVars, workerVars,
     mainVars, IInv, PacketFits, SendsCounted, SendPackets, FreeIsClosed, MainKnows,
     UnusedFree, Scanning
<1>3. NotYetFully' /\ ReturnedOnce' /\ SortedOrMarked' /\ JoinsAlternate'
  BY DEF vars, setup, slotVars, sendVars, recvVars, sortVars, peerVars, workerVars,
     mainVars, IInv, NotYetFully, ReturnedOnce, Scanning, SortedOrMarked, SortedFree,
     JoinsAlternate
<1> QED
  BY <1>1, <1>2, <1>3 DEF IInv

\* Every step of the program thread, the workers, winsock and the remote programs
\* keeps the invariant, for any number of each.
THEOREM Inductive == Spec => []IInv
<1>1. Init => IInv
  BY InitIInv
<1>2. IInv /\ [Next]_vars => IInv'
  <2> SUFFICES ASSUME IInv, [Next]_vars PROVE IInv'
    OBVIOUS
  <2>1. ASSUME NEW p \in Peers, Peer(p) PROVE IInv'
    BY <2>1, ConnectKeeps, PeerLeavesKeeps DEF Peer
  <2>2. ASSUME NEW id \in ClientIDs, Complete(id) PROVE IInv'
    BY <2>2, CompleteRecvKeeps, CompleteSendKeeps DEF Complete
  <2>3. ASSUME NEW w \in Workers, Worker(w) PROVE IInv'
    <3>1. CASE RecvFailed(w) \/ DealWithDataTCP(w) \/ DoRecv(w) \/ CompletedSendOperation(w)
      BY <3>1, RecvFailedKeeps, DealWithDataTCPKeeps, DoRecvKeeps,
         CompletedSendOperationKeeps
    <3>2. CASE TakeDatagram(w) \/ FindClient(w) \/ DealWithDataUDP(w) \/ DealHandshake(w)
      BY <3>2, TakeDatagramKeeps, FindClientKeeps, DealWithDataUDPKeeps, DealHandshakeKeeps
    <3>3. CASE WorkerErrorOccurredUDP(w)
      BY <3>3, WorkerErrorOccurredUDPKeeps
    <3>4. CASE \/ WorkerErrorOccurred(w, "errorRecv", "recv")
               \/ WorkerErrorOccurred(w, "error", "idle")
      BY <3>4, WorkerErrorOccurredKeeps
    <3> QED
      BY <2>3, <3>1, <3>2, <3>3, <3>4 DEF Worker
  <2>4. CASE RunCall
    <3>1. ASSUME NEW p \in Peers, AcceptRefuses(p) \/ AcceptThrows(p) \/ AcceptConnection(p)
          PROVE  IInv'
      BY <3>1, AcceptRefusesKeeps, AcceptThrowsKeeps, AcceptConnectionKeeps
    <3>2. CASE ScanClient \/ NotifyCompletion \/ Announce \/ AcceptNone
      BY <3>2, ScanClientKeeps, NotifyCompletionKeeps, AnnounceKeeps, AcceptNoneKeeps
    <3>3. CASE FirstRecv \/ FirstRecvFailed \/ SendHandshakingPacket \/ Disconnect \/ Closed
      BY <3>3, FirstRecvKeeps, FirstRecvFailedKeeps, SendHandshakingPacketKeeps,
         DisconnectKeeps, ClosedKeeps
    <3> QED
      BY <2>4, <3>1, <3>2, <3>3 DEF RunCall
  <2>5. ASSUME NEW id \in ClientIDs, DisconnectClient(id) \/ SendTCP(id) PROVE IInv'
    BY <2>5, DisconnectClientKeeps, SendTCPKeeps
  <2>6. CASE CompleteRecvUDP \/ StartClientJoined
    BY <2>6, CompleteRecvUDPKeeps, StartClientJoinedKeeps
  <2>7. CASE UNCHANGED vars
    BY <2>7, StutterKeeps
  <2> QED
    BY <2>1, <2>2, <2>3, <2>4, <2>5, <2>6, <2>7 DEF Next
<1> QED
  BY <1>1, <1>2, PTL DEF Spec

\* Every variable keeps its type.
THEOREM TypeCorrect == Spec => []TypeOK
<1>1. IInv => TypeOK
  BY DEF IInv
<1> QED
  BY <1>1, Inductive, PTL

\* A client ID is free exactly when its socket is closed, has nothing under way then,
\* and the vector searched by halves is in order or marked (ErrorOccurred, LoadUDP,
\* Close, FindClientByAddressUDP).
THEOREM SlotsConsistentHolds == Spec => []SlotsConsistent
<1>1. IInv => SlotsConsistent
  BY DEF IInv, FreeIsClosed, SortedOrMarked, SlotsConsistent
<1> QED
  BY <1>1, Inductive, PTL

\* ClientJoined reports no second client with an ID before DisconnectClient has
\* reported that the first one left.
THEOREM JoinsAlternateHolds == Spec => []JoinsAlternate
<1>1. IInv => JoinsAlternate
  BY DEF IInv
<1> QED
  BY <1>1, Inductive, PTL

===============================================================================
