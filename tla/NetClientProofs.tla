---------------------------- MODULE NetClientProofs ----------------------------
(***************************************************************************)
(* Theorems about NetClient for any profiles, any number of connection     *)
(* attempts and any amount of data: its two safety invariants.             *)
(*                                                                         *)
(* Neither is inductive.  Both follow from where every packet that the     *)
(* server sent is: with the user, in the store, in the hands of a worker   *)
(* or on the wire, in this order and none missing, for as long as the      *)
(* connection attempt can still end well (Order).  The packets of the      *)
(* handshake have places before the data, so that their number tells when  *)
(* they have all been taken, and what the server knows by then.            *)
(***************************************************************************)
EXTENDS NetClient, Integers, TLAPS

Statuses == {"NOT_CONNECTED", "CONNECTING", "CONNECTED", "DISCONNECTING", "REFUSED"}
ExitCodes == {"STILL_ACTIVE", "TIMED_OUT", "CONNECTED", "CONNECTION_ERROR"}
Answers == {"none", "TIMED_OUT", "CONNECTED", "CONNECTION_ERROR", "REFUSED"}
Running == {"poll", "recv", "wait", "datagram"}
WorkerPlaces == {"idle", "taken", "deal", "next", "error", "refused", "failed"}
Packets == {Welcome, Confirm} \cup {Data(n) : n \in Nat}

\* The types of the variables.
TypeOK ==
  /\ setup \in [handshake : BOOLEAN, udp : BOOLEAN, func : BOOLEAN, graceful : BOOLEAN]
  /\ setup.udp => setup.handshake
  /\ loaded \in BOOLEAN /\ destroy \in BOOLEAN /\ status \in Statuses
  /\ hsPC \in Running \cup {"none", "exited"} /\ exitCode \in ExitCodes
  /\ hsThrew \in BOOLEAN /\ terminate \in BOOLEAN /\ expired \in BOOLEAN
  /\ datagram \in BOOLEAN
  /\ socket \in {"closed", "connecting", "up", "broken"} /\ reset \in BOOLEAN
  /\ wire \in Seq(Packets)
  /\ recvPending \in BOOLEAN /\ funcRemoved \in BOOLEAN
  /\ store \in Seq(Packets)
  /\ worker \in [pc : WorkerPlaces, packet : Packets, direct : BOOLEAN]
  /\ server \in {"none", "accepted", "told", "joined"} /\ sent \in Nat
  /\ mainPC \in {"idle", "connected", "recv", "drain", "stop", "kill", "close"}
  /\ answer \in Answers
  /\ got \in Seq(Packets) /\ dropped \in BOOLEAN /\ straddled \in BOOLEAN
  /\ connects \in Nat

\* An instance that is not loaded, or was just deleted, has left nothing behind.
UnloadedIsFresh ==
  ~loaded =>
    /\ hsPC = "none" /\ exitCode = "STILL_ACTIVE" /\ mainPC = "idle" /\ answer = "none"
    /\ status = "NOT_CONNECTED"
    /\ socket = "closed" /\ server = "none" /\ sent = 0 /\ wire = <<>>
    /\ ~recvPending /\ store = <<>> /\ worker.pc = "idle"
    /\ got = <<>> /\ ~dropped /\ ~straddled

\* While there is a handshake thread the program has not got further than
\* PollConnect, and the user's function is off the socket.
HandshakeFirst ==
  /\ hsPC # "none" =>
       /\ mainPC \in {"idle", "stop", "kill"} /\ answer = "none"
       /\ funcRemoved /\ socket # "closed"
  /\ hsPC \in Running => exitCode = "STILL_ACTIVE"
  /\ hsPC \in {"recv", "wait", "datagram"} => setup.handshake
  /\ hsPC = "datagram" => setup.udp
  /\ answer # "CONNECTED" => got = <<>> /\ ~straddled /\ mainPC # "connected"
  /\ mainPC = "close" => socket = "closed" /\ ~recvPending
  /\ mainPC = "drain" => setup.func /\ ~funcRemoved
  /\ mainPC = "recv" => ~setup.handshake

\* The user's function is on the socket from RestoreRecvFunction on.
FunctionIsBack ==
  /\ loaded /\ ~funcRemoved => answer = "CONNECTED" /\ mainPC # "connected"
  /\ mainPC \in {"connected", "drain", "recv"} => answer = "CONNECTED"
  /\ mainPC = "connected" => got = <<>> /\ ~straddled
  /\ status = "CONNECTED" => mainPC = "connected" \/ ~funcRemoved
  /\ worker.pc = "deal" /\ worker.direct => ~funcRemoved /\ setup.func
  /\ worker.pc = "deal" /\ setup.func /\ ~funcRemoved /\ ~straddled => worker.direct
  /\ setup.func /\ ~funcRemoved /\ ~straddled /\ mainPC # "drain" => store = <<>>

\* Without handshake the TCP socket receives nothing before FirstRecv.
QuietBeforeRecv ==
  ~setup.handshake /\ (hsPC # "none" \/ mainPC \in {"connected", "recv"}) =>
     ~recvPending /\ worker.pc = "idle" /\ store = <<>>

\* A packet that was dropped ends the connection attempt.
DropIsAnError == dropped => status # "CONNECTING"

\* The place of a packet in what the server sends: data is numbered from 1, and what
\* belongs to the handshake comes before.
Rank(p, udp) == IF p.what = "data" THEN p.n
                ELSE IF p.what = "confirm" \/ ~udp THEN 0 ELSE -1

\* The packets of s are those that come after place k.
Follows(s, k, udp) == \A i \in 1 .. Len(s) : Rank(s[i], udp) = k + i

Start == IF setup.udp THEN -2 ELSE IF setup.handshake THEN -1 ELSE 0

\* The last packet that the server has sent, and the last one that was taken from
\* the store or given to the user.
Told == IF server = "joined" THEN sent ELSE IF server = "told" THEN Start + 1 ELSE Start
Taken == IF hsPC = "datagram" THEN Start + 1
         ELSE IF hsPC \in Running THEN Start ELSE Len(got)

InHand == IF worker.pc \in {"taken", "deal"} THEN 1 ELSE 0

\* The handshake goes on, or has ended well.
Completed == (hsPC = "exited" /\ exitCode = "CONNECTED") \/ answer = "CONNECTED"
Live == (hsPC \in Running \/ Completed) /\ ~dropped /\ ~straddled

\* Nothing is lost, doubled or overtaken between the server and the user.
Order ==
  /\ Follows(store, Taken, setup.udp)
  /\ InHand = 1 => Rank(worker.packet, setup.udp) = Taken + Len(store) + 1
  /\ Follows(wire, Taken + Len(store) + InHand, setup.udp)
  /\ Taken + Len(store) + InHand + Len(wire) <= Told
  /\ socket = "up" => Taken + Len(store) + InHand + Len(wire) = Told
  /\ Follows(got, 0, setup.udp)

InOrder == Live => Order

\* What the server has come to.
ServerKnows ==
  /\ server # "joined" => sent = 0
  /\ server = "told" => setup.udp
  /\ server = "accepted" => setup.handshake
  /\ socket \in {"up", "broken"} => server # "none"
  /\ socket = "connecting" =>
       /\ server = "none" /\ hsPC \notin {"recv", "wait", "datagram"}
       /\ wire = <<>> /\ store = <<>> /\ ~recvPending /\ worker.pc = "idle"

AllData(s) == \A i \in 1 .. Len(s) : s[i].what = "data"

\* What has not reached the user yet.
RestIsData ==
  /\ AllData(store) /\ AllData(wire)
  /\ InHand = 1 => worker.packet.what = "data"

\* After the handshake there is nothing but data.
OnlyData ==
  /\ Completed => server = "joined" /\ RestIsData
  /\ AllData(got)

\* The inductive invariant.
IInv ==
  /\ TypeOK /\ UnloadedIsFresh /\ HandshakeFirst /\ FunctionIsBack /\ QuietBeforeRecv
  /\ DropIsAnError /\ InOrder /\ ServerKnows /\ OnlyData

-------------------------------------------------------------------------------
(* Lemmas about sequences of packets *)

\* What the place of a packet is, by its kind.
LEMMA RankType ==
  ASSUME NEW p \in Packets, NEW udp \in BOOLEAN
  PROVE  /\ Rank(p, udp) \in Int
         /\ p.what # "data" => Rank(p, udp) <= 0
         /\ p.what = "data" => Rank(p, udp) = p.n
<1>1. p.what = "data" => p.n \in Nat
  BY DEF Packets, Welcome, Confirm, Data
<1>2. CASE p.what = "data"
  BY <1>1, <1>2 DEF Rank
<1>3. CASE p.what # "data"
  BY <1>3 DEF Rank
<1> QED
  BY <1>2, <1>3

\* A packet appended in its place keeps the order.
LEMMA Appended ==
  ASSUME NEW s \in Seq(Packets), NEW p \in Packets, NEW k \in Int, NEW udp \in BOOLEAN
  PROVE  /\ Append(s, p) \in Seq(Packets) /\ Len(s) \in Nat
         /\ Len(Append(s, p)) = Len(s) + 1
         /\ Follows(s, k, udp) /\ Rank(p, udp) = k + Len(s) + 1 => Follows(Append(s, p), k, udp)
         /\ AllData(s) /\ p.what = "data" => AllData(Append(s, p))
<1>1. /\ Append(s, p) \in Seq(Packets) /\ Len(s) \in Nat /\ Len(Append(s, p)) = Len(s) + 1
      /\ \A i \in 1 .. Len(s) : Append(s, p)[i] = s[i]
      /\ Append(s, p)[Len(s) + 1] = p
  OBVIOUS
<1>2. \A i \in 1 .. Len(Append(s, p)) : i \in 1 .. Len(s) \/ i = Len(s) + 1
  BY <1>1
<1>3. ASSUME Follows(s, k, udp), Rank(p, udp) = k + Len(s) + 1
      PROVE  Follows(Append(s, p), k, udp)
  BY <1>1, <1>2, <1>3 DEF Follows
<1>4. ASSUME AllData(s), p.what = "data"
      PROVE  AllData(Append(s, p))
  BY <1>1, <1>2, <1>4 DEF AllData
<1> QED
  BY <1>1, <1>3, <1>4

\* The first packet is the next one, and the others follow it.
LEMMA Removed ==
  ASSUME NEW s \in Seq(Packets), s # <<>>, NEW k \in Int, NEW udp \in BOOLEAN
  PROVE  /\ Head(s) \in Packets /\ Tail(s) \in Seq(Packets) /\ Len(s) \in Nat
         /\ Len(Tail(s)) = Len(s) - 1
         /\ Follows(s, k, udp) => Rank(Head(s), udp) = k + 1 /\ Follows(Tail(s), k + 1, udp)
         /\ AllData(s) => Head(s).what = "data" /\ AllData(Tail(s))
<1>1. /\ Head(s) \in Packets /\ Tail(s) \in Seq(Packets) /\ Len(s) \in Nat
      /\ 1 \in 1 .. Len(s) /\ Head(s) = s[1] /\ Len(Tail(s)) = Len(s) - 1
      /\ \A i \in 1 .. Len(Tail(s)) : i + 1 \in 1 .. Len(s) /\ Tail(s)[i] = s[i + 1]
  OBVIOUS
<1>2. ASSUME Follows(s, k, udp)
      PROVE  Rank(Head(s), udp) = k + 1 /\ Follows(Tail(s), k + 1, udp)
  <2>1. \A i \in 1 .. Len(s) : Rank(s[i], udp) = k + i
    BY <1>2 DEF Follows
  <2>2. \A i \in 1 .. Len(Tail(s)) : i \in Int /\ Rank(Tail(s)[i], udp) = k + (i + 1)
    BY <1>1, <2>1
  <2>3. \A i \in 1 .. Len(Tail(s)) : k + (i + 1) = (k + 1) + i
    OBVIOUS
  <2> QED
    BY <1>1, <2>1, <2>2, <2>3 DEF Follows
<1>3. ASSUME AllData(s)
      PROVE  Head(s).what = "data" /\ AllData(Tail(s))
  BY <1>1, <1>3 DEF AllData
<1> QED
  BY <1>1, <1>2, <1>3

\* What follows a place that is not before the data is data.
LEMMA DataFollows ==
  ASSUME NEW s \in Seq(Packets), NEW k \in Nat, NEW udp \in BOOLEAN, Follows(s, k, udp)
  PROVE  AllData(s)
<1> SUFFICES ASSUME NEW i \in 1 .. Len(s) PROVE s[i].what = "data"
  BY DEF AllData
<1>1. s[i] \in Packets /\ i > 0 /\ i \in Int
  OBVIOUS
<1>2. Rank(s[i], udp) = k + i
  BY DEF Follows
<1> QED
  BY <1>1, <1>2, RankType

\* No packets are in order, and all of them are data.
LEMMA Nothing ==
  ASSUME NEW k, NEW udp
  PROVE  Len(<<>>) = 0 /\ Follows(<<>>, k, udp) /\ AllData(<<>>)
  BY DEF Follows, AllData

-------------------------------------------------------------------------------
(* Lemmas about the order of packets *)

\* The types of what Order adds up.
LEMMA Numbers ==
  ASSUME TypeOK
  PROVE  /\ setup.udp \in BOOLEAN /\ InHand \in {0, 1}
         /\ Start \in Int /\ Told \in Int /\ Taken \in Int
         /\ Len(store) \in Nat /\ Len(wire) \in Nat /\ Len(got) \in Nat
<1>1. /\ setup.udp \in BOOLEAN /\ Start \in Int /\ sent \in Int
      /\ Len(store) \in Nat /\ Len(wire) \in Nat /\ Len(got) \in Nat
  BY DEF TypeOK, Start
<1> QED
  BY <1>1 DEF Told, Taken, InHand

\* The first packet of the store is handed to the user.
LEMMA Handed ==
  ASSUME TypeOK, store # <<>>
  PROVE  /\ Tail(store) \in Seq(Packets) /\ Len(Tail(store)) = Len(store) - 1
         /\ Append(got, Head(store)) \in Seq(Packets)
         /\ Len(Append(got, Head(store))) = Len(got) + 1
         /\ Follows(store, Len(got), setup.udp) /\ Follows(got, 0, setup.udp) =>
               /\ Follows(Tail(store), Len(got) + 1, setup.udp)
               /\ Follows(Append(got, Head(store)), 0, setup.udp)
         /\ AllData(store) /\ AllData(got) =>
               AllData(Tail(store)) /\ AllData(Append(got, Head(store)))
<1>1. /\ setup.udp \in BOOLEAN /\ store \in Seq(Packets) /\ got \in Seq(Packets)
      /\ 0 \in Int /\ Len(got) \in Int
  BY Numbers DEF TypeOK
<1>2. /\ Head(store) \in Packets /\ Tail(store) \in Seq(Packets)
      /\ Len(Tail(store)) = Len(store) - 1
      /\ Follows(store, Len(got), setup.udp) =>
            /\ Rank(Head(store), setup.udp) = Len(got) + 1
            /\ Follows(Tail(store), Len(got) + 1, setup.udp)
      /\ AllData(store) => Head(store).what = "data" /\ AllData(Tail(store))
  BY <1>1, Removed
<1>3. /\ Append(got, Head(store)) \in Seq(Packets)
      /\ Len(Append(got, Head(store))) = Len(got) + 1
      /\ Follows(got, 0, setup.udp) /\ Rank(Head(store), setup.udp) = 0 + Len(got) + 1 =>
            Follows(Append(got, Head(store)), 0, setup.udp)
      /\ AllData(got) /\ Head(store).what = "data" => AllData(Append(got, Head(store)))
  BY <1>1, <1>2, Appended
<1> QED
  BY <1>1, <1>2, <1>3

\* A step that moves no packet keeps the order.
LEMMA OrderKept ==
  ASSUME IInv, UNCHANGED <<setup, store, wire, got, server, sent>>,
         Taken' = Taken, InHand' = InHand, InHand = 1 => worker.packet' = worker.packet,
         Live' => Live, socket' = "up" => socket = "up"
  PROVE  InOrder'
<1>1. Told' = Told
  BY DEF Told, Start
<1>2. Live => Order
  BY DEF IInv, InOrder
<1> QED
  BY <1>1, <1>2 DEF InOrder, Order

\* It also keeps what is data, unless it ends the handshake.
LEMMA DataKept ==
  ASSUME IInv, UNCHANGED <<store, wire, got, server>>,
         InHand' = InHand, InHand = 1 => worker.packet' = worker.packet,
         Completed' => Completed
  PROVE  OnlyData'
<1>1. Completed => server = "joined" /\ RestIsData
  BY DEF IInv, OnlyData
<1>2. AllData(got)
  BY DEF IInv, OnlyData
<1> QED
  BY <1>1, <1>2 DEF OnlyData, RestIsData

\* The server sends the packet that is due.
LEMMA SentInOrder ==
  ASSUME IInv, NEW p \in Packets, Transmit(p), Rank(p, setup.udp) = Told + 1,
         UNCHANGED <<setup, store, worker, got, hsPC, exitCode, answer, dropped, straddled,
                     socket>>,
         Told' = Told + 1
  PROVE  wire' \in Seq(Packets) /\ InOrder'
<1>1. TypeOK /\ (Live => Order)
  BY DEF IInv, InOrder
<1>2. wire \in Seq(Packets) /\ wire' = Append(wire, p) /\ socket = "up"
  BY <1>1 DEF Transmit, TypeOK
<1>3. Live' = Live /\ Taken' = Taken /\ InHand' = InHand /\ worker.packet' = worker.packet
  BY DEF Live, Completed, Taken, Start, InHand
<1>4. /\ setup.udp \in BOOLEAN /\ InHand \in {0, 1} /\ Told \in Int /\ Taken \in Int
      /\ Len(store) \in Nat
  BY <1>1, Numbers
<1> DEFINE k == Taken + Len(store) + InHand
<1>5. k \in Int
  BY <1>4
<1>6. /\ wire' \in Seq(Packets) /\ Len(wire) \in Nat /\ Len(wire') = Len(wire) + 1
      /\ Follows(wire, k, setup.udp) /\ Rank(p, setup.udp) = k + Len(wire) + 1 =>
            Follows(wire', k, setup.udp)
  BY <1>2, <1>4, <1>5, Appended
<1>7. Order => k + Len(wire) = Told
  BY <1>2 DEF Order
<1>8. Order => Follows(wire', k, setup.udp) /\ k + Len(wire') = Told + 1
  BY <1>4, <1>5, <1>6, <1>7 DEF Order
<1>9. Order => Order'
  BY <1>3, <1>4, <1>5, <1>6, <1>8 DEF Order
<1> QED
  BY <1>1, <1>3, <1>6, <1>9 DEF InOrder

\* When the packets of the handshake were taken, all the others are data.
LEMMA HandshakeOver ==
  ASSUME TypeOK', Order', Taken' \in Nat
  PROVE  RestIsData'
<1>1. /\ store' \in Seq(Packets) /\ wire' \in Seq(Packets) /\ worker'.packet \in Packets
      /\ setup'.udp \in BOOLEAN /\ Len(store') \in Nat
  BY DEF TypeOK
<1>2. InHand' \in {0, 1}
  BY DEF InHand
<1>3. AllData(store')
  BY <1>1, DataFollows DEF Order
<1>4. AllData(wire')
  BY <1>1, <1>2, DataFollows DEF Order
<1>5. InHand' = 1 => worker'.packet.what = "data"
  BY <1>1, RankType DEF Order
<1> QED
  BY <1>3, <1>4, <1>5 DEF RestIsData

-------------------------------------------------------------------------------
(* Every action keeps the invariant *)

\* The server accepts a connection over which nothing was sent.
LEMMA ServerAcceptsKeeps ==
  ASSUME IInv, ServerAccepts
  PROVE  IInv'
<1>1. /\ TypeOK /\ (Live => Order) /\ AllData(got)
      /\ Completed => server = "joined" /\ RestIsData
  BY DEF IInv, InOrder, OnlyData
<1>2. /\ setup.udp \in BOOLEAN /\ InHand \in {0, 1}
      /\ Start \in Int /\ Told \in Int /\ Taken \in Int
      /\ Len(store) \in Nat /\ Len(wire) \in Nat /\ Len(got) \in Nat
  BY <1>1, Numbers
<1>3. /\ socket = "connecting" /\ server = "none" /\ store = <<>> /\ wire = <<>>
      /\ InHand = 0 /\ ~Completed /\ hsPC \notin {"recv", "wait", "datagram"} /\ sent = 0
  BY <1>1 DEF ServerAccepts, IInv, ServerKnows, InHand
<1>4. /\ UNCHANGED <<setup, hsPC, exitCode, answer, dropped, straddled, store, wire, got, sent,
                   worker>>
      /\ server' = IF setup.handshake THEN "accepted" ELSE "joined"
  BY DEF ServerAccepts, instance, handshake, receiving, program, history
<1>5. TypeOK'
  BY DEF ServerAccepts, instance, handshake, receiving, program, history, IInv, TypeOK
<1>6. UnloadedIsFresh'
  BY DEF ServerAccepts, instance, receiving, program, history, IInv, UnloadedIsFresh
<1>7. HandshakeFirst'
  BY DEF ServerAccepts, instance, handshake, receiving, program, history, IInv,
         HandshakeFirst
<1>8. InOrder'
  <2>1. Live' = Live /\ InHand' = 0 /\ Taken' = Taken
    BY <1>3, <1>4 DEF Live, Completed, InHand, Taken, Start
  <2>2. Live => Taken = Start
    BY <1>3 DEF Live, Taken, Running
  <2>3. Told' = Start
    BY <1>1, <1>3, <1>4 DEF Told, Start, TypeOK
  <2>4. Live => Taken + Len(store) + InHand + Len(wire) = Start
    BY <1>2, <1>3, <2>2
  <2>5. Live => Order'
    <3> SUFFICES ASSUME Live PROVE Order'
      OBVIOUS
    <3>1. Order /\ InHand = 0 /\ Len(store) = 0 /\ Len(wire) = 0
      BY <1>1, <1>3, Nothing
    <3>2. /\ Follows(store, Taken, setup.udp)
          /\ Follows(wire, Taken + Len(store) + InHand, setup.udp)
          /\ Follows(got, 0, setup.udp)
      BY <3>1 DEF Order
    <3>3. Taken + Len(store) + InHand + Len(wire) = Told'
      BY <2>3, <2>4
    <3>4. Told' \in Int
      BY <1>2, <2>3
    <3> QED
      BY <1>3, <1>4, <2>1, <3>1, <3>2, <3>3, <3>4 DEF Order
  <2> QED
    BY <2>1, <2>5 DEF InOrder
<1>9. ServerKnows'
  BY DEF ServerAccepts, instance, handshake, receiving, IInv, ServerKnows
<1>10. OnlyData'
  BY <1>1, <1>3, <1>4 DEF Completed, OnlyData
<1>11. FunctionIsBack' /\ QuietBeforeRecv' /\ DropIsAnError'
  BY DEF ServerAccepts, instance, handshake, receiving, program, history, IInv,
         FunctionIsBack, QuietBeforeRecv, DropIsAnError
<1> QED
  BY <1>5, <1>6, <1>7, <1>8, <1>9, <1>10, <1>11 DEF IInv

\* The packet of the handshake is the first one.
LEMMA ServerTellsKeeps ==
  ASSUME IInv, ServerTells
  PROVE  IInv'
<1>1. /\ TypeOK /\ (Live => Order) /\ AllData(got)
      /\ Completed => server = "joined" /\ RestIsData
  BY DEF IInv, InOrder, OnlyData
<1>2. Welcome \in Packets /\ Transmit(Welcome)
  BY <1>1 DEF ServerTells, TypeOK, Packets
<1>3. /\ server' = (IF setup.udp THEN "told" ELSE "joined")
      /\ server = "accepted" /\ setup.handshake /\ sent = 0 /\ sent' = sent
  BY DEF ServerTells, IInv, ServerKnows
<1>4. UNCHANGED <<setup, store, worker, got, hsPC, exitCode, answer, dropped, straddled,
                 socket>>
  BY DEF ServerTells, Transmit, instance, handshake, receiving, program, history
<1>5. Rank(Welcome, setup.udp) = Told + 1 /\ Told' = Told + 1
  BY <1>1, <1>3, <1>4 DEF Rank, Welcome, Confirm, Data, Told, Start
<1>6. wire' \in Seq(Packets) /\ InOrder'
  BY <1>2, <1>4, <1>5, SentInOrder
<1>7. TypeOK'
  BY <1>1, <1>6 DEF ServerTells, instance, handshake, receiving, program, history, TypeOK
<1>8. UnloadedIsFresh'
  BY DEF ServerTells, instance, receiving, program, history, IInv, UnloadedIsFresh
<1>9. InOrder'
  BY <1>6
<1>10. ServerKnows'
  BY DEF ServerTells, Transmit, instance, handshake, receiving, IInv, ServerKnows
<1>11. OnlyData'
  BY <1>1, <1>3, <1>4 DEF Completed, OnlyData
<1>12. HandshakeFirst' /\ FunctionIsBack' /\ QuietBeforeRecv' /\ DropIsAnError'
  BY DEF ServerTells, instance, handshake, receiving, program, history, IInv,
         HandshakeFirst, FunctionIsBack, QuietBeforeRecv, DropIsAnError
<1> QED
  BY <1>7, <1>8, <1>9, <1>10, <1>11, <1>12 DEF IInv

\* The confirmation comes after it, and then the server counts the client as joined.
LEMMA ServerConfirmsKeeps ==
  ASSUME IInv, ServerConfirms
  PROVE  IInv'
<1>1. /\ TypeOK /\ (Live => Order) /\ AllData(got)
      /\ Completed => server = "joined" /\ RestIsData
  BY DEF IInv, InOrder, OnlyData
<1>2. Confirm \in Packets /\ Transmit(Confirm)
  BY <1>1 DEF ServerConfirms, TypeOK, Packets
<1>3. server = "told" /\ server' = "joined" /\ setup.udp /\ sent = 0 /\ sent' = sent
  BY DEF ServerConfirms, IInv, ServerKnows
<1>4. UNCHANGED <<setup, store, worker, got, hsPC, exitCode, answer, dropped, straddled,
                 socket>>
  BY DEF ServerConfirms, Transmit, instance, handshake, receiving, program, history
<1>5. Rank(Confirm, setup.udp) = Told + 1 /\ Told' = Told + 1
  BY <1>1, <1>3, <1>4 DEF Rank, Confirm, Data, Told, Start
<1>6. wire' \in Seq(Packets) /\ InOrder'
  BY <1>2, <1>4, <1>5, SentInOrder
<1>7. TypeOK'
  BY <1>1, <1>6 DEF ServerConfirms, instance, handshake, receiving, program, history, TypeOK
<1>8. UnloadedIsFresh'
  BY DEF ServerConfirms, instance, program, history, IInv, UnloadedIsFresh
<1>9. InOrder'
  BY <1>6
<1>10. ServerKnows'
  BY DEF ServerConfirms, Transmit, instance, handshake, receiving, ServerKnows
<1>11. OnlyData'
  BY <1>1, <1>3, <1>4 DEF Completed, OnlyData
<1>12. HandshakeFirst' /\ FunctionIsBack' /\ QuietBeforeRecv' /\ DropIsAnError'
  BY DEF ServerConfirms, instance, handshake, receiving, program, history, IInv,
         HandshakeFirst, FunctionIsBack, QuietBeforeRecv, DropIsAnError
<1> QED
  BY <1>7, <1>8, <1>9, <1>10, <1>11, <1>12 DEF IInv

\* Data comes after that, one packet after the other.
LEMMA ServerSendsKeeps ==
  ASSUME IInv, ServerSends
  PROVE  IInv'
<1>1. /\ TypeOK /\ (Live => Order) /\ AllData(got)
      /\ Completed => server = "joined" /\ RestIsData
  BY DEF IInv, InOrder, OnlyData
<1>2. /\ setup.udp \in BOOLEAN /\ InHand \in {0, 1}
      /\ Start \in Int /\ Told \in Int /\ Taken \in Int
      /\ Len(store) \in Nat /\ Len(wire) \in Nat /\ Len(got) \in Nat
  BY <1>1, Numbers
<1>3. Data(sent + 1) \in Packets /\ Transmit(Data(sent + 1))
  BY <1>1 DEF ServerSends, TypeOK, Packets
<1>4. server = "joined" /\ server' = server /\ sent' = sent + 1
  BY DEF ServerSends, IInv, ServerKnows
<1>5. UNCHANGED <<setup, store, worker, got, hsPC, exitCode, answer, dropped, straddled,
                 socket>>
  BY DEF ServerSends, Transmit, instance, handshake, receiving, program, history
<1>6. Rank(Data(sent + 1), setup.udp) = Told + 1 /\ Told' = Told + 1
  BY <1>1, <1>4, <1>5 DEF Rank, Confirm, Data, Told, Start
<1>7. wire' \in Seq(Packets) /\ InOrder'
  BY <1>3, <1>5, <1>6, SentInOrder
<1>8. TypeOK'
  BY <1>1, <1>7 DEF ServerSends, instance, handshake, receiving, program, history, TypeOK
<1>9. UnloadedIsFresh'
  BY DEF ServerSends, instance, receiving, program, history, IInv, UnloadedIsFresh
<1>10. InOrder'
  BY <1>7
<1>11. ServerKnows'
  BY DEF ServerSends, Transmit, instance, handshake, receiving, ServerKnows
<1>12. OnlyData'
  <2>1. wire \in Seq(Packets) /\ wire' = Append(wire, Data(sent + 1))
    BY <1>1, <1>3 DEF TypeOK, Transmit
  <2>2. AllData(wire) => AllData(wire')
    BY <1>2, <1>3, <2>1, Appended DEF Data
  <2> QED
    BY <1>1, <1>4, <1>5, <2>2 DEF Completed, OnlyData, RestIsData, InHand
<1>13. HandshakeFirst' /\ FunctionIsBack' /\ QuietBeforeRecv' /\ DropIsAnError'
  BY DEF ServerSends, instance, handshake, receiving, program, history, IInv,
         HandshakeFirst, FunctionIsBack, QuietBeforeRecv, DropIsAnError
<1> QED
  BY <1>8, <1>9, <1>10, <1>11, <1>12, <1>13 DEF IInv

\* A reset loses the end of what was sent, but nothing in between.
LEMMA ConnectionBreaksKeeps ==
  ASSUME IInv, ConnectionBreaks
  PROVE  IInv'
<1>1. /\ TypeOK /\ (Live => Order) /\ AllData(got)
      /\ Completed => server = "joined" /\ RestIsData
  BY DEF IInv, InOrder, OnlyData
<1>2. /\ setup.udp \in BOOLEAN /\ InHand \in {0, 1}
      /\ Start \in Int /\ Told \in Int /\ Taken \in Int
      /\ Len(store) \in Nat /\ Len(wire) \in Nat /\ Len(got) \in Nat
  BY <1>1, Numbers
<1>3. /\ socket = "up" /\ socket' = "broken" /\ (wire' = wire \/ wire' = <<>>)
      /\ UNCHANGED <<setup, hsPC, exitCode, answer, dropped, straddled, store, got, sent, server,
                   worker>>
  BY DEF ConnectionBreaks, instance, handshake, receiving, program, history
<1>4. /\ Len(wire') \in Nat /\ Len(wire') <= Len(wire)
      /\ \A k : Follows(wire, k, setup.udp) => Follows(wire', k, setup.udp)
      /\ AllData(wire) => AllData(wire')
  BY <1>2, <1>3, Nothing
<1>5. TypeOK'
  BY DEF ConnectionBreaks, instance, handshake, receiving, program, history, IInv, TypeOK
<1>6. UnloadedIsFresh'
  BY DEF ConnectionBreaks, instance, program, history, IInv, UnloadedIsFresh
<1>7. HandshakeFirst'
  BY DEF ConnectionBreaks, instance, handshake, receiving, program, history, IInv,
         HandshakeFirst
<1>8. InOrder'
  <2>1. Live' = Live /\ InHand' = InHand /\ Taken' = Taken /\ Told' = Told
    BY <1>3 DEF Live, Completed, InHand, Taken, Told, Start
  <2>2. Order => Order'
    BY <1>2, <1>3, <1>4, <2>1 DEF Order
  <2> QED
    BY <1>1, <2>1, <2>2 DEF InOrder
<1>9. ServerKnows'
  BY DEF ConnectionBreaks, instance, handshake, receiving, IInv, ServerKnows
<1>10. OnlyData'
  BY <1>1, <1>3, <1>4 DEF Completed, OnlyData, RestIsData, InHand
<1>11. FunctionIsBack' /\ QuietBeforeRecv' /\ DropIsAnError'
  BY DEF ConnectionBreaks, instance, handshake, receiving, program, history, IInv,
         FunctionIsBack, QuietBeforeRecv, DropIsAnError
<1> QED
  BY <1>5, <1>6, <1>7, <1>8, <1>9, <1>10, <1>11 DEF IInv

\* The timer touches the handshake thread only.
LEMMA TimerExpiresKeeps ==
  ASSUME IInv, TimerExpires
  PROVE  IInv'
<1>1. TypeOK'
  BY DEF TimerExpires, instance, network, receiving, program, history, IInv, TypeOK
<1>2. InOrder'
  <2>1. UNCHANGED <<setup, store, wire, got, server, sent>>
    BY DEF TimerExpires, instance, network, receiving, program, history
  <2>2. Taken' = Taken /\ InHand' = InHand /\ (InHand = 1 => worker.packet' = worker.packet)
    BY DEF TimerExpires, instance, history, Taken, Start, InHand, Idle, Welcome
  <2>3. (Live' => Live) /\ (socket' = "up" => socket = "up")
    BY DEF TimerExpires, network, program, history, HandshakeFirst, Live, Completed
  <2> QED
    BY <2>1, <2>2, <2>3, OrderKept
<1>3. OnlyData'
  <2>1. UNCHANGED <<store, wire, got, server>>
    BY DEF TimerExpires, instance, network, receiving, program, history
  <2>2. InHand' = InHand /\ (InHand = 1 => worker.packet' = worker.packet)
    BY DEF TimerExpires, network, receiving, program, history, InHand, Idle, Welcome
  <2>3. Completed' => Completed
    BY DEF TimerExpires, receiving, program, history, HandshakeFirst, Completed
  <2> QED
    BY <2>1, <2>2, <2>3, DataKept
<1>4. /\ UnloadedIsFresh' /\ HandshakeFirst' /\ FunctionIsBack' /\ QuietBeforeRecv'
      /\ DropIsAnError' /\ ServerKnows'
  BY DEF TimerExpires, instance, network, receiving, program, history, IInv,
         UnloadedIsFresh, HandshakeFirst, FunctionIsBack, QuietBeforeRecv, DropIsAnError,
         ServerKnows
<1> QED
  BY <1>1, <1>2, <1>3, <1>4 DEF IInv

\* Without handshake the server counts the client as joined when it has accepted it.
LEMMA HandshakePollConnectKeeps ==
  ASSUME IInv, HandshakePollConnect
  PROVE  IInv'
<1>1. /\ TypeOK /\ (Live => Order) /\ AllData(got)
      /\ Completed => server = "joined" /\ RestIsData
  BY DEF IInv, InOrder, OnlyData
<1>2. hsPC = "poll" /\ status' = status /\ store' = store
  BY DEF HandshakePollConnect, receiving
<1>3. /\ loaded /\ answer = "none" /\ got = <<>> /\ ~straddled /\ socket # "closed"
      /\ UNCHANGED <<setup, loaded, answer, straddled, dropped, socket, wire, got, server, sent,
                   worker>>
  BY DEF HandshakePollConnect, instance, network, program, history, IInv, HandshakeFirst,
         UnloadedIsFresh
<1>4. \/ hsPC' = "exited" /\ exitCode' \in {"TIMED_OUT", "CONNECTION_ERROR"}
      \/ hsPC' = "recv" /\ setup.handshake /\ UNCHANGED exitCode
      \/ /\ hsPC' = "exited" /\ exitCode' = "CONNECTED" /\ ~setup.handshake
         /\ status = "CONNECTING" /\ socket # "connecting"
  BY DEF HandshakePollConnect, GivesUp, Exit, MayGoOn
<1>5. (Live' => Live) /\ (Taken' = Taken \/ ~Live')
  <2>1. Live' => Live
    BY <1>2, <1>3 DEF Live, Running
  <2>2. CASE hsPC' = "exited" /\ exitCode' \in {"TIMED_OUT", "CONNECTION_ERROR"}
    BY <1>3, <2>2, <2>1 DEF Live, Completed, Running
  <2>3. CASE hsPC' = "recv" /\ setup.handshake /\ UNCHANGED exitCode
    BY <1>2, <1>3, <2>3, <2>1 DEF Taken, Start, Running
  <2>4. CASE /\ hsPC' = "exited" /\ exitCode' = "CONNECTED" /\ ~setup.handshake
             /\ status = "CONNECTING" /\ socket # "connecting"
    BY <1>1, <1>2, <1>3, <2>4, <2>1, Nothing DEF Taken, Start, TypeOK
  <2> QED
    BY <1>4, <2>1, <2>2, <2>3, <2>4
<1>6. TypeOK'
  BY DEF HandshakePollConnect, GivesUp, Exit, instance, network, receiving, program,
         history, IInv, TypeOK, Running, ExitCodes
<1>7. UnloadedIsFresh'
  BY DEF HandshakePollConnect, instance, program, history, IInv, UnloadedIsFresh
<1>8. HandshakeFirst'
  BY DEF HandshakePollConnect, GivesUp, Exit, instance, network, receiving, program,
         history, IInv, HandshakeFirst, Running
<1>9. QuietBeforeRecv'
  BY DEF HandshakePollConnect, instance, receiving, program, IInv, QuietBeforeRecv
<1>10. InOrder'
  <2>1. InHand' = InHand /\ worker.packet' = worker.packet
    BY <1>3 DEF InHand
  <2>2. CASE Taken' = Taken
    BY <1>2, <1>3, <1>5, <2>1, <2>2, OrderKept
  <2>3. CASE ~Live'
    BY <2>3 DEF InOrder
  <2> QED
    BY <1>5, <2>2, <2>3
<1>11. OnlyData'
  <2>1. InHand' = InHand /\ worker.packet' = worker.packet
    BY <1>3 DEF InHand
  <2>2. CASE Completed' => Completed
    BY <1>2, <1>3, <2>1, <2>2, DataKept
  <2>3. CASE Completed' /\ ~Completed
    <3>1. /\ hsPC' = "exited" /\ ~setup.handshake /\ status = "CONNECTING"
          /\ socket \in {"up", "broken"}
      BY <1>1, <1>2, <1>3, <1>4, <2>3 DEF Completed, TypeOK
    <3>2. server = "joined"
      BY <1>1, <3>1 DEF IInv, ServerKnows, TypeOK
    <3>3. Order'
      BY <1>3, <2>3, <3>1, <1>10 DEF InOrder, Live, IInv, DropIsAnError
    <3>4. TypeOK' /\ Taken' \in Nat
      BY <1>6, <1>3, <3>1, Nothing DEF Taken, Running
    <3>5. RestIsData'
      BY <3>3, <3>4, HandshakeOver
    <3> QED
      BY <1>1, <1>3, <3>2, <3>5 DEF OnlyData
  <2> QED
    BY <2>2, <2>3
<1>12. FunctionIsBack' /\ DropIsAnError' /\ ServerKnows'
  BY DEF HandshakePollConnect, GivesUp, Exit, instance, network, receiving, program,
         history, IInv, FunctionIsBack, DropIsAnError, ServerKnows
<1> QED
  BY <1>6, <1>7, <1>8, <1>9, <1>10, <1>11, <1>12 DEF IInv

\* The first receive is started with the function of the user off the socket.
LEMMA HandshakeRecvKeeps ==
  ASSUME IInv, HandshakeRecv
  PROVE  IInv'
<1>1. TypeOK'
  <2>1. hsPC' \in Running \cup {"none", "exited"}
    BY DEF HandshakeRecv, IInv, TypeOK, Running
  <2>2. recvPending' \in BOOLEAN
    BY DEF HandshakeRecv, IInv, TypeOK
  <2>3. status' \in Statuses
    BY DEF HandshakeRecv, ErrorOccurred, AfterError, IInv, TypeOK, Statuses
  <2> QED
    BY <2>1, <2>2, <2>3 DEF HandshakeRecv, instance, network, program, history, IInv, TypeOK
<1>2. UnloadedIsFresh'
  BY DEF HandshakeRecv, instance, network, program, history, IInv, UnloadedIsFresh
<1>3. HandshakeFirst'
  BY DEF HandshakeRecv, instance, network, program, history, IInv, HandshakeFirst, Running
<1>4. FunctionIsBack'
  BY DEF HandshakeRecv, ErrorOccurred, AfterError, instance, program, history, IInv,
         FunctionIsBack
<1>5. QuietBeforeRecv'
  BY DEF HandshakeRecv, instance, IInv, HandshakeFirst, QuietBeforeRecv
<1>6. DropIsAnError'
  BY DEF HandshakeRecv, ErrorOccurred, AfterError, history, IInv, DropIsAnError
<1>7. InOrder'
  <2>1. UNCHANGED <<setup, store, wire, got, server, sent>>
    BY DEF HandshakeRecv, instance, network, program, history
  <2>2. Taken' = Taken /\ InHand' = InHand /\ (InHand = 1 => worker.packet' = worker.packet)
    BY DEF HandshakeRecv, instance, Taken, Start, InHand, Running, Idle, Welcome
  <2>3. (Live' => Live) /\ (socket' = "up" => socket = "up")
    BY DEF HandshakeRecv, network, history, HandshakeFirst, Live, Completed, Running
  <2> QED
    BY <2>1, <2>2, <2>3, OrderKept
<1>8. ServerKnows'
  BY DEF HandshakeRecv, instance, network, IInv, HandshakeFirst, ServerKnows
<1>9. OnlyData'
  <2>1. UNCHANGED <<store, wire, got, server>>
    BY DEF HandshakeRecv, instance, network, program, history
  <2>2. InHand' = InHand /\ (InHand = 1 => worker.packet' = worker.packet)
    BY DEF HandshakeRecv, instance, network, program, history, InHand, Idle, Welcome
  <2>3. Completed' => Completed
    BY DEF HandshakeRecv, network, program, history, HandshakeFirst, Completed
  <2> QED
    BY <2>1, <2>2, <2>3, DataKept
<1> QED
  BY <1>1, <1>2, <1>3, <1>4, <1>5, <1>6, <1>7, <1>8, <1>9 DEF IInv

\* The first packet of the store is that of the handshake; without UDP the handshake
\* is over, and the server knows that.
LEMMA HandshakeWelcomeKeeps ==
  ASSUME IInv, HandshakeWelcome
  PROVE  IInv'
<1>1. /\ TypeOK /\ (Live => Order) /\ AllData(got)
      /\ Completed => server = "joined" /\ RestIsData
  BY DEF IInv, InOrder, OnlyData
<1>2. /\ setup.udp \in BOOLEAN /\ InHand \in {0, 1}
      /\ Start \in Int /\ Told \in Int /\ Taken \in Int
      /\ Len(store) \in Nat /\ Len(wire) \in Nat /\ Len(got) \in Nat
  BY <1>1, Numbers
<1>3. hsPC = "wait" /\ setup.handshake /\ socket # "connecting"
  BY DEF HandshakeWelcome, IInv, HandshakeFirst, ServerKnows
<1>4. /\ loaded /\ answer = "none" /\ got = <<>> /\ ~straddled /\ socket # "closed"
      /\ UNCHANGED <<setup, loaded, answer, straddled, dropped, socket, wire, got, server, sent,
                   worker>>
      /\ status' = status
  BY DEF HandshakeWelcome, instance, network, program, history, IInv, HandshakeFirst,
         UnloadedIsFresh
<1>5. \/ hsPC' = "exited" /\ exitCode' \in {"TIMED_OUT", "CONNECTION_ERROR"} /\ store' = store
      \/ /\ status = "CONNECTING" /\ store # <<>> /\ store' = Tail(store)
         /\ \/ setup.udp /\ hsPC' = "datagram" /\ UNCHANGED exitCode
            \/ ~setup.udp /\ hsPC' = "exited" /\ exitCode' = "CONNECTED"
  BY DEF HandshakeWelcome, GivesUp, Exit, MayGoOn
<1>6. store # <<>> => /\ Tail(store) \in Seq(Packets) /\ Len(Tail(store)) = Len(store) - 1
                      /\ Follows(store, Taken, setup.udp) => Follows(Tail(store), Taken + 1, setup.udp)
  BY <1>1, <1>2, Removed DEF TypeOK
<1>7. InHand' = InHand /\ Told' = Told /\ (Live' => Live)
  BY <1>3, <1>4 DEF InHand, Told, Start, Live, Running
<1>8. Live' => store # <<>> /\ store' = Tail(store) /\ Taken' = Taken + 1
  BY <1>1, <1>3, <1>4, <1>5, Nothing DEF Live, Completed, Taken, Start, Running
<1>9. TypeOK'
  <2>1. hsPC' \in Running \cup {"none", "exited"}
    BY DEF HandshakeWelcome, GivesUp, Exit, MayGoOn, IInv, Running
  <2>2. exitCode' \in ExitCodes
    BY DEF HandshakeWelcome, GivesUp, Exit, MayGoOn, IInv, TypeOK, ExitCodes
  <2>3. store' \in Seq(Packets)
    BY <1>1, <1>2, <1>3, <1>4, <1>5, <1>6, <1>7, <1>8 DEF HandshakeWelcome, TypeOK
  <2> QED
    BY <2>1, <2>2, <2>3 DEF HandshakeWelcome, instance, network, program, history, IInv,
                            TypeOK
<1>10. UnloadedIsFresh'
  BY DEF HandshakeWelcome, instance, program, history, IInv, UnloadedIsFresh
<1>11. HandshakeFirst'
  BY DEF HandshakeWelcome, GivesUp, Exit, instance, network, program, history, IInv,
         HandshakeFirst, Running
<1>12. FunctionIsBack'
  BY DEF HandshakeWelcome, MayGoOn, instance, program, history, IInv, FunctionIsBack
<1>13. QuietBeforeRecv'
  BY DEF HandshakeWelcome, Exit, MayGoOn, instance, program, IInv, QuietBeforeRecv
<1>14. InOrder'
  <2> SUFFICES ASSUME Live' PROVE Order'
    BY DEF InOrder
  <2>1. Order /\ store # <<>> /\ store' = Tail(store) /\ Taken' = Taken + 1
    BY <1>1, <1>7, <1>8
  <2>2. Follows(store', Taken', setup'.udp) /\ Len(store') = Len(store) - 1
    BY <1>4, <1>6, <2>1 DEF Order
  <2>3. Taken' + Len(store') = Taken + Len(store)
    BY <1>2, <2>1, <2>2
  <2>4. Taken' + Len(store') + InHand' = Taken + Len(store) + InHand
    BY <1>7, <2>3
  <2> QED
    BY <1>4, <1>7, <2>1, <2>2, <2>3, <2>4 DEF Order
<1>15. ServerKnows'
  BY DEF HandshakeWelcome, Exit, MayGoOn, instance, network, IInv, ServerKnows
<1>16. OnlyData'
  <2>1. CASE ~Completed'
    BY <1>1, <1>4, <2>1 DEF OnlyData
  <2>2. CASE Completed'
    <3>1. hsPC' = "exited" /\ ~setup.udp /\ status = "CONNECTING"
      BY <1>4, <1>5, <2>2 DEF Completed
    <3>2. Live' /\ Live
      BY <1>4, <1>7, <2>2, <3>1 DEF Live, IInv, DropIsAnError
    <3>3. Order' /\ Order /\ Taken' = Taken + 1 /\ store # <<>>
      BY <1>1, <1>8, <3>2, <1>14 DEF InOrder
    <3>4. TypeOK' /\ Taken' = 0
      BY <1>9, <1>4, <3>1, Nothing DEF Taken, Running
    <3>5. RestIsData'
      BY <3>3, <3>4, HandshakeOver
    <3>6. Told >= 0
      <4>1. Len(store) >= 1
        BY <1>1, <3>3 DEF TypeOK
      <4> QED
        BY <1>2, <3>3, <3>4, <4>1 DEF Order
    <3>7. server = "joined"
      BY <1>1, <1>3, <3>1, <3>6 DEF Told, Start, IInv, ServerKnows
    <3> QED
      BY <1>1, <1>4, <3>5, <3>7 DEF OnlyData
  <2> QED
    BY <2>1, <2>2
<1>17. DropIsAnError'
  BY DEF HandshakeWelcome, history, IInv, DropIsAnError
<1> QED
  BY <1>9, <1>10, <1>11, <1>12, <1>13, <1>14, <1>15, <1>16, <1>17 DEF IInv

\* With UDP it is over when the empty packet was taken.
LEMMA HandshakeConfirmKeeps ==
  ASSUME IInv, HandshakeConfirm
  PROVE  IInv'
<1>1. /\ TypeOK /\ (Live => Order) /\ AllData(got)
      /\ Completed => server = "joined" /\ RestIsData
  BY DEF IInv, InOrder, OnlyData
<1>2. /\ setup.udp \in BOOLEAN /\ InHand \in {0, 1}
      /\ Start \in Int /\ Told \in Int /\ Taken \in Int
      /\ Len(store) \in Nat /\ Len(wire) \in Nat /\ Len(got) \in Nat
  BY <1>1, Numbers
<1>3. hsPC = "datagram" /\ setup.udp /\ setup.handshake /\ socket # "connecting"
  BY DEF HandshakeConfirm, IInv, HandshakeFirst, ServerKnows
<1>4. /\ loaded /\ answer = "none" /\ got = <<>> /\ ~straddled /\ socket # "closed"
      /\ UNCHANGED <<setup, loaded, answer, straddled, dropped, socket, wire, got, server, sent,
                   worker>>
  BY DEF HandshakeConfirm, instance, network, program, history, IInv, HandshakeFirst,
         UnloadedIsFresh
<1>5. \/ hsPC' = "exited" /\ exitCode' \in {"TIMED_OUT", "CONNECTION_ERROR"}
      \/ /\ status = "CONNECTING" /\ status' = status /\ store # <<>> /\ store' = Tail(store)
         /\ hsPC' = "exited" /\ exitCode' = "CONNECTED"
      \/ UNCHANGED <<hsPC, exitCode, store>>
  BY DEF HandshakeConfirm, GivesUp, Exit, MayGoOn
<1>6. store # <<>> => /\ Tail(store) \in Seq(Packets) /\ Len(Tail(store)) = Len(store) - 1
                      /\ Follows(store, Taken, setup.udp) => Follows(Tail(store), Taken + 1, setup.udp)
  BY <1>1, <1>2, Removed DEF TypeOK
<1>7. InHand' = InHand /\ Told' = Told /\ (Live' => Live)
  BY <1>3, <1>4 DEF InHand, Told, Start, Live, Running
<1>8. Live' => \/ store # <<>> /\ store' = Tail(store) /\ Taken' = Taken + 1
               \/ store' = store /\ Taken' = Taken
  BY <1>1, <1>3, <1>4, <1>5, Nothing DEF Live, Completed, Taken, Start, Running
<1>9. TypeOK'
  <2>1. exitCode' \in ExitCodes
    BY DEF HandshakeConfirm, GivesUp, Exit, MayGoOn, IInv, TypeOK, ExitCodes
  <2>2. store' \in Seq(Packets)
    BY <1>1, <1>2, <1>3, <1>4, <1>5, <1>6, <1>7, <1>8 DEF HandshakeConfirm, TypeOK
  <2>3. datagram' \in BOOLEAN
    BY DEF HandshakeConfirm, IInv, TypeOK
  <2>4. status' \in Statuses
    BY DEF HandshakeConfirm, ErrorOccurred, AfterError, IInv, TypeOK, Statuses
  <2> QED
    BY <2>1, <2>2, <2>3, <2>4 DEF HandshakeConfirm, GivesUp, Exit, instance, network,
                                  program, history, IInv, TypeOK
<1>10. UnloadedIsFresh'
  BY DEF HandshakeConfirm, instance, program, history, IInv, UnloadedIsFresh
<1>11. HandshakeFirst'
  BY DEF HandshakeConfirm, GivesUp, Exit, instance, network, program, history, IInv,
         HandshakeFirst, Running
<1>12. FunctionIsBack'
  BY DEF HandshakeConfirm, ErrorOccurred, AfterError, instance, program, history, IInv,
         FunctionIsBack
<1>13. QuietBeforeRecv'
  BY DEF HandshakeConfirm, Exit, MayGoOn, instance, program, IInv, QuietBeforeRecv
<1>14. DropIsAnError'
  BY DEF HandshakeConfirm, ErrorOccurred, AfterError, history, IInv, DropIsAnError
<1>15. InOrder'
  <2>1. CASE Live' /\ store # <<>> /\ store' = Tail(store) /\ Taken' = Taken + 1
    <3>1. Follows(store', Taken', setup'.udp) /\ Len(store') = Len(store) - 1
      BY <1>1, <1>4, <1>6, <1>7, <2>1 DEF Order
    <3>2. Taken' + Len(store') = Taken + Len(store)
      BY <1>2, <2>1, <3>1
    <3>3. Taken' + Len(store') + InHand' = Taken + Len(store) + InHand
      BY <1>7, <3>2
    <3> QED
      BY <1>1, <1>4, <1>7, <2>1, <3>1, <3>2, <3>3 DEF Order, InOrder
  <2>2. CASE Live' /\ store' = store /\ Taken' = Taken
    BY <1>4, <1>7, <2>2, OrderKept
  <2> QED
    BY <1>8, <2>1, <2>2 DEF InOrder
<1>16. ServerKnows'
  BY DEF HandshakeConfirm, Exit, MayGoOn, instance, network, IInv, ServerKnows
<1>17. OnlyData'
  <2>1. CASE ~Completed'
    BY <1>1, <1>4, <2>1 DEF OnlyData
  <2>2. CASE Completed'
    <3>1. /\ hsPC' = "exited" /\ status = "CONNECTING" /\ exitCode' = "CONNECTED"
          /\ store # <<>> /\ store' = Tail(store)
      BY <1>3, <1>4, <1>5, <2>2 DEF Completed, HandshakeFirst
    <3>2. Live' /\ Live
      BY <1>4, <1>7, <2>2, <3>1 DEF Live, IInv, DropIsAnError
    <3>3. Order' /\ Order /\ Taken' = Taken + 1
      BY <1>1, <1>3, <1>4, <3>1, <3>2, <1>15 DEF InOrder, Taken, Start, Running
    <3>4. TypeOK' /\ Taken' = 0
      BY <1>9, <1>4, <3>1, Nothing DEF Taken, Running
    <3>5. RestIsData'
      BY <3>3, <3>4, HandshakeOver
    <3>6. Told >= 0
      <4>1. Len(store) >= 1
        BY <1>1, <3>1 DEF TypeOK
      <4> QED
        BY <1>2, <3>3, <3>4, <4>1 DEF Order
    <3>7. server = "joined"
      BY <1>1, <1>3, <3>1, <3>6 DEF Told, Start, ServerKnows
    <3> QED
      BY <1>1, <1>4, <3>5, <3>7 DEF OnlyData
  <2> QED
    BY <2>1, <2>2
<1> QED
  BY <1>9, <1>10, <1>11, <1>12, <1>13, <1>14, <1>15, <1>16, <1>17 DEF IInv

\* After an exception nobody will be told CONNECTED.
LEMMA HandshakeThrowsKeeps ==
  ASSUME IInv, HandshakeThrows
  PROVE  IInv'
<1>1. TypeOK'
  BY DEF HandshakeThrows, Exit, instance, network, receiving, program, history, IInv,
         TypeOK, ExitCodes
<1>2. UnloadedIsFresh'
  BY DEF HandshakeThrows, instance, program, history, IInv, UnloadedIsFresh
<1>3. HandshakeFirst'
  BY DEF HandshakeThrows, Exit, network, receiving, program, history, IInv,
         HandshakeFirst, Running
<1>4. QuietBeforeRecv'
  BY DEF HandshakeThrows, Exit, instance, receiving, program, IInv, QuietBeforeRecv
<1>5. InOrder'
  <2>1. hsPC' = "exited" /\ exitCode' = "CONNECTION_ERROR" /\ answer' = "none"
    BY DEF HandshakeThrows, Exit, receiving, program, history, IInv, HandshakeFirst
  <2> QED
    BY <2>1 DEF InOrder, Live, Completed, Running
<1>6. OnlyData'
  <2>1. UNCHANGED <<store, wire, got, server>>
    BY DEF HandshakeThrows, instance, network, receiving, program, history
  <2>2. InHand' = InHand /\ (InHand = 1 => worker.packet' = worker.packet)
    BY DEF HandshakeThrows, receiving, program, history, InHand, Idle, Welcome
  <2>3. Completed' => Completed
    BY DEF HandshakeThrows, Exit, program, history, IInv, HandshakeFirst, Completed
  <2> QED
    BY <2>1, <2>2, <2>3, DataKept
<1>7. FunctionIsBack' /\ DropIsAnError' /\ ServerKnows'
  BY DEF HandshakeThrows, Exit, instance, network, receiving, program, history, IInv,
         FunctionIsBack, DropIsAnError, ServerKnows
<1> QED
  BY <1>1, <1>2, <1>3, <1>4, <1>5, <1>6, <1>7 DEF IInv

\* A worker takes the next packet in hand.
LEMMA WorkerTakesPacketKeeps ==
  ASSUME IInv, WorkerTakesPacket
  PROVE  IInv'
<1>1. /\ TypeOK /\ (Live => Order) /\ AllData(got)
      /\ Completed => server = "joined" /\ RestIsData
  BY DEF IInv, InOrder, OnlyData
<1>2. /\ setup.udp \in BOOLEAN /\ InHand \in {0, 1}
      /\ Start \in Int /\ Told \in Int /\ Taken \in Int
      /\ Len(store) \in Nat /\ Len(wire) \in Nat /\ Len(got) \in Nat
  BY <1>1, Numbers
<1>3. /\ worker' = [pc |-> "taken", packet |-> Head(wire), direct |-> FALSE]
      /\ wire # <<>> /\ wire' = Tail(wire) /\ InHand = 0 /\ InHand' = 1
  BY DEF WorkerTakesPacket, Idle, InHand
<1>4. /\ UNCHANGED <<setup, hsPC, exitCode, answer, dropped, straddled, store, got, server, sent, socket>>
  BY DEF WorkerTakesPacket, instance, handshake, program, history
<1>5. /\ Head(wire) \in Packets /\ Tail(wire) \in Seq(Packets)
      /\ Len(Tail(wire)) = Len(wire) - 1
      /\ Follows(wire, Taken + Len(store), setup.udp) =>
            /\ Rank(Head(wire), setup.udp) = Taken + Len(store) + 1
            /\ Follows(Tail(wire), Taken + Len(store) + 1, setup.udp)
      /\ AllData(wire) => Head(wire).what = "data" /\ AllData(Tail(wire))
  <2>1. wire \in Seq(Packets) /\ Taken + Len(store) \in Int
    BY <1>1, <1>2 DEF TypeOK
  <2> QED
    BY <1>2, <1>3, <2>1, Removed
<1>6. TypeOK'
  <2>1. worker' \in [pc : WorkerPlaces, packet : Packets, direct : BOOLEAN]
    BY <1>3, <1>5 DEF WorkerPlaces
  <2>2. recvPending' \in BOOLEAN
    BY DEF WorkerTakesPacket
  <2> QED
    BY <2>1, <2>2 DEF WorkerTakesPacket, instance, handshake, program, history, IInv, TypeOK
<1>7. UnloadedIsFresh'
  BY DEF WorkerTakesPacket, instance, program, history, IInv, UnloadedIsFresh
<1>8. HandshakeFirst'
  BY DEF WorkerTakesPacket, instance, handshake, program, history, IInv, HandshakeFirst
<1>9. FunctionIsBack'
  BY DEF WorkerTakesPacket, instance, program, history, IInv, FunctionIsBack
<1>10. QuietBeforeRecv'
  BY DEF WorkerTakesPacket, instance, handshake, program, IInv, QuietBeforeRecv
<1>11. InOrder'
  <2> SUFFICES ASSUME Live' PROVE Order'
    BY DEF InOrder
  <2>1. Live /\ Taken' = Taken /\ Told' = Told
    BY <1>4 DEF Live, Completed, Taken, Told, Start
  <2>2. /\ Follows(store, Taken, setup.udp) /\ Follows(wire, Taken + Len(store), setup.udp)
        /\ Follows(got, 0, setup.udp)
        /\ Taken + Len(store) + Len(wire) <= Told
        /\ socket = "up" => Taken + Len(store) + Len(wire) = Told
    BY <1>1, <1>2, <1>3, <2>1 DEF Order
  <2>3. Taken + Len(store) + 1 + (Len(wire) - 1) = Taken + Len(store) + Len(wire)
    BY <1>2
  <2>4. /\ Follows(wire', Taken' + Len(store') + InHand', setup'.udp)
        /\ Rank(worker'.packet, setup'.udp) = Taken' + Len(store') + 1
        /\ Taken' + Len(store') + InHand' + Len(wire') = Taken + Len(store) + Len(wire)
    BY <1>3, <1>4, <1>5, <2>1, <2>2, <2>3
  <2> QED
    BY <1>4, <2>1, <2>2, <2>4 DEF Order
<1>12. ServerKnows'
  BY DEF WorkerTakesPacket, instance, handshake, IInv, ServerKnows
<1>13. OnlyData'
  BY <1>1, <1>3, <1>4, <1>5 DEF OnlyData, RestIsData, Completed
<1>14. DropIsAnError'
  BY DEF WorkerTakesPacket, history, IInv, DropIsAnError
<1> QED
  BY <1>6, <1>7, <1>8, <1>9, <1>10, <1>11, <1>12, <1>13, <1>14 DEF IInv

\* It takes an error when there are no packets left.
LEMMA WorkerTakesErrorKeeps ==
  ASSUME IInv, WorkerTakesError
  PROVE  IInv'
<1>1. TypeOK'
  <2>1. worker' \in [pc : WorkerPlaces, packet : Packets, direct : BOOLEAN]
    BY DEF WorkerTakesError, Idle, WorkerPlaces, Packets
  <2>2. recvPending' \in BOOLEAN
    BY DEF WorkerTakesError, IInv, TypeOK
  <2> QED
    BY <2>1, <2>2 DEF WorkerTakesError, instance, handshake, network, program, history,
                      IInv, TypeOK
<1>2. UnloadedIsFresh'
  BY DEF WorkerTakesError, instance, program, history, IInv, UnloadedIsFresh
<1>3. HandshakeFirst'
  BY DEF WorkerTakesError, instance, handshake, network, program, history, IInv,
         HandshakeFirst
<1>4. FunctionIsBack'
  BY DEF WorkerTakesError, instance, program, history, IInv, FunctionIsBack
<1>5. QuietBeforeRecv'
  BY DEF WorkerTakesError, instance, handshake, program, IInv, QuietBeforeRecv
<1>6. InOrder'
  <2>1. UNCHANGED <<setup, store, wire, got, server, sent>>
    BY DEF WorkerTakesError, instance, handshake, network, program, history
  <2>2. Taken' = Taken /\ InHand' = InHand /\ (InHand = 1 => worker.packet' = worker.packet)
    BY DEF WorkerTakesError, instance, handshake, history, Taken, Start, InHand
  <2>3. (Live' => Live) /\ (socket' = "up" => socket = "up")
    BY DEF WorkerTakesError, handshake, network, program, history, Live, Completed
  <2> QED
    BY <2>1, <2>2, <2>3, OrderKept
<1>7. ServerKnows'
  BY DEF WorkerTakesError, instance, handshake, network, IInv, ServerKnows
<1>8. OnlyData'
  <2>1. UNCHANGED <<store, wire, got, server>>
    BY DEF WorkerTakesError, instance, handshake, network, program, history
  <2>2. InHand' = InHand /\ (InHand = 1 => worker.packet' = worker.packet)
    BY DEF WorkerTakesError, network, program, history, InHand, Idle, Welcome
  <2>3. Completed' => Completed
    BY DEF WorkerTakesError, handshake, program, history, HandshakeFirst, Completed
  <2> QED
    BY <2>1, <2>2, <2>3, DataKept
<1>9. DropIsAnError'
  BY DEF WorkerTakesError, history, IInv, DropIsAnError
<1> QED
  BY <1>1, <1>2, <1>3, <1>4, <1>5, <1>6, <1>7, <1>8, <1>9 DEF IInv

\* The function of the user is asked for before the data is dealt with.
LEMMA GetRecvFunctionKeeps ==
  ASSUME IInv, GetRecvFunction
  PROVE  IInv'
<1>1. TypeOK'
  <2>1. worker' \in [pc : WorkerPlaces, packet : Packets, direct : BOOLEAN]
    <3>1. (setup.func /\ ~funcRemoved) \in BOOLEAN
      OBVIOUS
    <3>2. worker' = [worker EXCEPT !.pc = "deal", !.direct = setup.func /\ ~funcRemoved]
      BY DEF GetRecvFunction
    <3> QED
      BY <3>1, <3>2 DEF IInv, TypeOK, WorkerPlaces
  <2> QED
    BY <2>1 DEF GetRecvFunction, instance, handshake, network, receiving, program,
                history, IInv, TypeOK
<1>2. UnloadedIsFresh'
  BY DEF GetRecvFunction, instance, program, history, IInv, UnloadedIsFresh
<1>3. FunctionIsBack'
  BY DEF GetRecvFunction, instance, receiving, program, history, IInv, TypeOK,
         FunctionIsBack
<1>4. QuietBeforeRecv'
  BY DEF GetRecvFunction, instance, handshake, program, IInv, QuietBeforeRecv
<1>5. InOrder'
  <2>1. UNCHANGED <<setup, store, wire, got, server, sent>>
    BY DEF GetRecvFunction, instance, network, receiving, program, history
  <2>2. Taken' = Taken /\ InHand' = InHand /\ (InHand = 1 => worker.packet' = worker.packet)
    BY DEF GetRecvFunction, instance, handshake, history, Taken, Start, InHand
  <2>3. (Live' => Live) /\ (socket' = "up" => socket = "up")
    BY DEF GetRecvFunction, handshake, network, program, history, Live, Completed
  <2> QED
    BY <2>1, <2>2, <2>3, OrderKept
<1>6. ServerKnows'
  BY DEF GetRecvFunction, instance, handshake, network, receiving, IInv, ServerKnows
<1>7. OnlyData'
  <2>1. UNCHANGED <<store, wire, got, server>>
    BY DEF GetRecvFunction, handshake, network, receiving, program, history
  <2>2. InHand' = InHand /\ (InHand = 1 => worker.packet' = worker.packet)
    BY DEF GetRecvFunction, receiving, program, history, InHand, Idle, Welcome
  <2>3. Completed' => Completed
    BY DEF GetRecvFunction, handshake, program, history, HandshakeFirst, Completed
  <2> QED
    BY <2>1, <2>2, <2>3, DataKept
<1>8. HandshakeFirst' /\ DropIsAnError'
  BY DEF GetRecvFunction, instance, handshake, network, receiving, program, history, IInv,
         HandshakeFirst, DropIsAnError
<1> QED
  BY <1>1, <1>2, <1>3, <1>4, <1>5, <1>6, <1>7, <1>8 DEF IInv

\* The packet goes to the user only if nothing before it waits in the store, to the
\* store otherwise; or it is dropped, and that is an error.
LEMMA DealWithDataKeeps ==
  ASSUME IInv, DealWithData
  PROVE  IInv'
<1>1. /\ TypeOK /\ (Live => Order) /\ AllData(got)
      /\ Completed => server = "joined" /\ RestIsData
  BY DEF IInv, InOrder, OnlyData
<1>2. /\ setup.udp \in BOOLEAN /\ InHand \in {0, 1}
      /\ Start \in Int /\ Told \in Int /\ Taken \in Int
      /\ Len(store) \in Nat /\ Len(wire) \in Nat /\ Len(got) \in Nat
  BY <1>1, Numbers
<1>3. /\ worker.pc = "deal" /\ worker'.pc = "next" /\ InHand = 1 /\ InHand' = 0
      /\ loaded /\ worker.packet \in Packets
  BY DEF DealWithData, IInv, UnloadedIsFresh, InHand, TypeOK
<1>4. UNCHANGED <<setup, hsPC, exitCode, answer, loaded, wire, server, sent, socket, mainPC,
                 funcRemoved>>
  BY DEF DealWithData, instance, handshake, network, program
<1>5. \/ /\ worker.direct
         /\ got' = Append(got, worker.packet)
         /\ straddled' = (straddled \/ mainPC = "drain")
         /\ UNCHANGED <<store, status, dropped>>
      \/ /\ ~worker.direct
         /\ store' = Append(store, worker.packet)
         /\ UNCHANGED <<got, status, dropped, straddled>>
      \/ /\ status' = AfterError(status)
         /\ dropped' = TRUE
         /\ UNCHANGED <<got, store, straddled>>
  BY DEF DealWithData, ErrorOccurred
<1>6. worker.direct =>
        /\ ~funcRemoved /\ setup.func /\ answer = "CONNECTED" /\ hsPC = "none"
        /\ mainPC # "connected"
        /\ ~straddled /\ mainPC # "drain" => store = <<>>
  BY <1>1, <1>3 DEF IInv, FunctionIsBack, HandshakeFirst
<1>7. /\ Append(store, worker.packet) \in Seq(Packets)
      /\ Append(got, worker.packet) \in Seq(Packets)
      /\ Len(Append(store, worker.packet)) = Len(store) + 1
      /\ Len(Append(got, worker.packet)) = Len(got) + 1
      /\ Follows(store, Taken, setup.udp) /\ Rank(worker.packet, setup.udp) = Taken + Len(store) + 1 =>
            Follows(Append(store, worker.packet), Taken, setup.udp)
      /\ Follows(got, 0, setup.udp) /\ Rank(worker.packet, setup.udp) = 0 + Len(got) + 1 =>
            Follows(Append(got, worker.packet), 0, setup.udp)
      /\ AllData(store) /\ worker.packet.what = "data" => AllData(Append(store, worker.packet))
      /\ AllData(got) /\ worker.packet.what = "data" => AllData(Append(got, worker.packet))
  <2>1. store \in Seq(Packets) /\ got \in Seq(Packets) /\ 0 \in Int
    BY <1>1 DEF TypeOK
  <2> QED
    BY <1>2, <1>3, <2>1, Appended
<1>8. TypeOK'
  <2>1. worker' \in [pc : WorkerPlaces, packet : Packets, direct : BOOLEAN]
    BY DEF DealWithData, IInv, TypeOK, WorkerPlaces
  <2>2. got' \in Seq(Packets)
    BY <1>1, <1>5, <1>7 DEF TypeOK
  <2>3. store' \in Seq(Packets)
    BY <1>1, <1>5, <1>7 DEF TypeOK
  <2>4. status' \in Statuses
    BY <1>1, <1>5 DEF TypeOK, AfterError, Statuses
  <2>5. dropped' \in BOOLEAN
    BY <1>1, <1>5 DEF TypeOK
  <2> QED
    BY <2>1, <2>2, <2>3, <2>4, <2>5 DEF DealWithData, instance, handshake, network,
                                        program, IInv, TypeOK
<1>9. UnloadedIsFresh'
  BY DEF DealWithData, instance, handshake, network, program, IInv, UnloadedIsFresh
<1>10. HandshakeFirst'
  <2>1. answer # "CONNECTED" => UNCHANGED <<got, straddled>>
    BY <1>5, <1>6
  <2>2. setup' = setup /\ recvPending' = recvPending
    BY DEF DealWithData, instance
  <2> QED
    BY <1>4, <2>1, <2>2 DEF IInv, HandshakeFirst, Running
<1>11. FunctionIsBack'
  <2>1. mainPC' = "connected" => got' = <<>> /\ ~straddled'
    BY <1>4, <1>5, <1>6 DEF IInv, FunctionIsBack
  <2>2. status' = "CONNECTED" => status = "CONNECTED"
    BY <1>5 DEF AfterError
  <2>3. setup.func /\ ~funcRemoved /\ ~straddled' /\ mainPC # "drain" => store' = <<>>
    BY <1>3, <1>5, <1>6 DEF IInv, FunctionIsBack
  <2> QED
    BY <1>3, <1>4, <2>1, <2>2, <2>3 DEF IInv, FunctionIsBack
<1>12. QuietBeforeRecv'
  BY DEF DealWithData, instance, handshake, program, IInv, QuietBeforeRecv
<1>13. DropIsAnError'
  BY DEF DealWithData, ErrorOccurred, AfterError, IInv, DropIsAnError
<1>14. InOrder'
  <2> SUFFICES ASSUME Live' PROVE Order'
    BY DEF InOrder
  <2>1. Live /\ Told' = Told /\ ~dropped' /\ ~straddled'
    <3>1. ~dropped' /\ ~straddled'
      BY DEF Live
    <3>2. straddled' = straddled \/ straddled' = (straddled \/ mainPC = "drain")
      BY <1>5
    <3>3. ~straddled
      BY <3>1, <3>2
    <3>4. ~dropped
      BY <1>5, <3>1
    <3> QED
      BY <1>4, <3>1, <3>3, <3>4 DEF Live, Completed, Told, Start
  <2>2. /\ Follows(store, Taken, setup.udp) /\ Follows(got, 0, setup.udp)
        /\ Rank(worker.packet, setup.udp) = Taken + Len(store) + 1
        /\ Follows(wire, Taken + Len(store) + 1, setup.udp)
        /\ Taken + Len(store) + 1 + Len(wire) <= Told
        /\ socket = "up" => Taken + Len(store) + 1 + Len(wire) = Told
    BY <1>1, <1>3, <2>1 DEF Order
  <2>3. CASE worker.direct /\ got' = Append(got, worker.packet) /\ store' = store
    <3>1. store = <<>> /\ hsPC = "none"
      BY <1>5, <1>6, <2>1, <2>3
    <3>2. Taken = Len(got) /\ Taken' = Len(got') /\ Len(store) = 0
      BY <1>4, <3>1, Nothing DEF Taken, Running
    <3>3. Follows(got', 0, setup.udp) /\ Taken' = Taken + Len(store) + 1
      BY <1>2, <1>7, <2>2, <2>3, <3>2
    <3>4. Follows(store', Taken', setup.udp) /\ Len(store') = 0
      BY <2>3, <3>1, Nothing
    <3>5. Taken' + Len(store') + InHand' = Taken + Len(store) + 1
      BY <1>2, <1>3, <3>3, <3>4
    <3> QED
      BY <1>3, <1>4, <2>1, <2>2, <3>3, <3>4, <3>5 DEF Order
  <2>4. CASE store' = Append(store, worker.packet) /\ got' = got
    <3>1. Taken' = Taken
      BY <1>4, <2>4 DEF Taken, Start
    <3>2. Follows(store', Taken, setup.udp) /\ Len(store') = Len(store) + 1
      BY <1>7, <2>2, <2>4
    <3>3. Taken' + Len(store') + InHand' = Taken + Len(store) + 1
      BY <1>2, <1>3, <3>1, <3>2
    <3> QED
      BY <1>3, <1>4, <2>1, <2>2, <2>4, <3>1, <3>2, <3>3 DEF Order
  <2> QED
    BY <1>5, <2>1, <2>3, <2>4
<1>15. ServerKnows'
  BY DEF DealWithData, instance, handshake, network, IInv, ServerKnows
<1>16. OnlyData'
  <2>1. Completed' => Completed /\ InHand' = 0
    BY <1>3, <1>4 DEF Completed
  <2>2. worker.direct => Completed
    BY <1>6 DEF Completed
  <2>3. /\ Completed' => AllData(store') /\ AllData(wire')
        /\ AllData(got')
    BY <1>1, <1>3, <1>4, <1>5, <1>7, <2>1, <2>2 DEF RestIsData
  <2> QED
    BY <1>1, <1>3, <1>4, <2>1, <2>3 DEF OnlyData, RestIsData
<1> QED
  BY <1>8, <1>9, <1>10, <1>11, <1>12, <1>13, <1>14, <1>15, <1>16 DEF IInv

\* The next receive starts when the packet was dealt with.
LEMMA WorkerRecvKeeps ==
  ASSUME IInv, WorkerRecv
  PROVE  IInv'
<1>1. TypeOK'
  <2>1. worker' \in [pc : WorkerPlaces, packet : Packets, direct : BOOLEAN]
    BY DEF WorkerRecv, Idle, WorkerPlaces, Packets
  <2>2. recvPending' \in BOOLEAN
    BY DEF WorkerRecv, IInv, TypeOK
  <2>3. status' \in Statuses
    BY DEF WorkerRecv, ErrorOccurred, AfterError, IInv, TypeOK, Statuses
  <2> QED
    BY <2>1, <2>2, <2>3 DEF WorkerRecv, instance, handshake, network, program, history,
                            IInv, TypeOK
<1>2. UnloadedIsFresh'
  BY DEF WorkerRecv, instance, network, program, history, IInv, UnloadedIsFresh
<1>3. HandshakeFirst'
  BY DEF WorkerRecv, instance, handshake, network, program, history, IInv, HandshakeFirst
<1>4. FunctionIsBack'
  BY DEF WorkerRecv, ErrorOccurred, AfterError, instance, program, history, IInv,
         FunctionIsBack, Idle
<1>5. QuietBeforeRecv'
  BY DEF WorkerRecv, instance, handshake, program, IInv, QuietBeforeRecv
<1>6. DropIsAnError'
  BY DEF WorkerRecv, ErrorOccurred, AfterError, history, IInv, DropIsAnError
<1>7. InOrder'
  <2>1. UNCHANGED <<setup, store, wire, got, server, sent>>
    BY DEF WorkerRecv, instance, handshake, network, program, history
  <2>2. Taken' = Taken /\ InHand' = InHand /\ (InHand = 1 => worker.packet' = worker.packet)
    BY DEF WorkerRecv, instance, handshake, history, Taken, Start, InHand, Idle
  <2>3. (Live' => Live) /\ (socket' = "up" => socket = "up")
    BY DEF WorkerRecv, handshake, network, program, history, Live, Completed
  <2> QED
    BY <2>1, <2>2, <2>3, OrderKept
<1>8. ServerKnows'
  BY DEF WorkerRecv, instance, handshake, network, IInv, ServerKnows
<1>9. OnlyData'
  <2>1. UNCHANGED <<store, wire, got, server>>
    BY DEF WorkerRecv, instance, handshake, network, program, history
  <2>2. InHand' = InHand /\ (InHand = 1 => worker.packet' = worker.packet)
    BY DEF WorkerRecv, handshake, network, program, history, InHand, Idle, Welcome
  <2>3. Completed' => Completed
    BY DEF WorkerRecv, handshake, program, history, HandshakeFirst, Completed
  <2> QED
    BY <2>1, <2>2, <2>3, DataKept
<1> QED
  BY <1>1, <1>2, <1>3, <1>4, <1>5, <1>6, <1>7, <1>8, <1>9 DEF IInv

\* Deciding what an error means changes nothing yet,
LEMMA CompletionErrorKeeps ==
  ASSUME IInv, CompletionError
  PROVE  IInv'
<1>1. TypeOK'
  <2>1. worker' \in [pc : WorkerPlaces, packet : Packets, direct : BOOLEAN]
    BY DEF CompletionError, IInv, TypeOK, WorkerPlaces
  <2> QED
    BY <2>1 DEF CompletionError, instance, handshake, network, receiving, program,
                history, IInv, TypeOK
<1>2. UnloadedIsFresh'
  BY DEF CompletionError, instance, program, history, IInv, UnloadedIsFresh
<1>3. FunctionIsBack'
  BY DEF CompletionError, instance, receiving, program, history, IInv, FunctionIsBack
<1>4. QuietBeforeRecv'
  BY DEF CompletionError, instance, handshake, program, IInv, QuietBeforeRecv
<1>5. InOrder'
  <2>1. UNCHANGED <<setup, store, wire, got, server, sent>>
    BY DEF CompletionError, instance, network, receiving, program, history
  <2>2. Taken' = Taken /\ InHand' = InHand /\ (InHand = 1 => worker.packet' = worker.packet)
    BY DEF CompletionError, instance, handshake, history, Taken, Start, InHand
  <2>3. (Live' => Live) /\ (socket' = "up" => socket = "up")
    BY DEF CompletionError, handshake, network, program, history, Live, Completed
  <2> QED
    BY <2>1, <2>2, <2>3, OrderKept
<1>6. ServerKnows'
  BY DEF CompletionError, instance, handshake, network, receiving, IInv, ServerKnows
<1>7. OnlyData'
  <2>1. UNCHANGED <<store, wire, got, server>>
    BY DEF CompletionError, handshake, network, receiving, program, history
  <2>2. InHand' = InHand /\ (InHand = 1 => worker.packet' = worker.packet)
    BY DEF CompletionError, receiving, program, history, InHand, Idle, Welcome
  <2>3. Completed' => Completed
    BY DEF CompletionError, handshake, program, history, HandshakeFirst, Completed
  <2> QED
    BY <2>1, <2>2, <2>3, DataKept
<1>8. HandshakeFirst' /\ DropIsAnError'
  BY DEF CompletionError, instance, handshake, network, receiving, program, history, IInv,
         HandshakeFirst, DropIsAnError
<1> QED
  BY <1>1, <1>2, <1>3, <1>4, <1>5, <1>6, <1>7, <1>8 DEF IInv

\* nor does reporting it bring a client back to CONNECTING,
LEMMA ReportRefusedKeeps ==
  ASSUME IInv, ReportRefused
  PROVE  IInv'
<1>1. TypeOK'
  <2>1. status' \in Statuses
    BY DEF ReportRefused, IInv, TypeOK, Statuses
  <2>2. worker' \in [pc : WorkerPlaces, packet : Packets, direct : BOOLEAN]
    BY DEF ReportRefused, Idle, WorkerPlaces, Packets
  <2> QED
    BY <2>1, <2>2 DEF ReportRefused, instance, handshake, network, receiving, program,
                      history, IInv, TypeOK
<1>2. UnloadedIsFresh'
  BY DEF ReportRefused, instance, receiving, program, history, IInv, UnloadedIsFresh
<1>3. FunctionIsBack'
  BY DEF ReportRefused, instance, receiving, program, history, IInv, FunctionIsBack, Idle
<1>4. QuietBeforeRecv'
  BY DEF ReportRefused, instance, handshake, program, IInv, QuietBeforeRecv
<1>5. DropIsAnError'
  BY DEF ReportRefused, history, IInv, TypeOK, DropIsAnError
<1>6. InOrder'
  <2>1. UNCHANGED <<setup, store, wire, got, server, sent>>
    BY DEF ReportRefused, instance, handshake, network, receiving, program, history
  <2>2. Taken' = Taken /\ InHand' = InHand /\ (InHand = 1 => worker.packet' = worker.packet)
    BY DEF ReportRefused, instance, handshake, history, Taken, Start, InHand, Idle
  <2>3. (Live' => Live) /\ (socket' = "up" => socket = "up")
    BY DEF ReportRefused, handshake, network, program, history, Live, Completed
  <2> QED
    BY <2>1, <2>2, <2>3, OrderKept
<1>7. ServerKnows'
  BY DEF ReportRefused, instance, handshake, network, receiving, IInv, ServerKnows
<1>8. OnlyData'
  <2>1. UNCHANGED <<store, wire, got, server>>
    BY DEF ReportRefused, instance, handshake, network, receiving, program, history
  <2>2. InHand' = InHand /\ (InHand = 1 => worker.packet' = worker.packet)
    BY DEF ReportRefused, receiving, program, history, InHand, Idle, Welcome
  <2>3. Completed' => Completed
    BY DEF ReportRefused, handshake, program, history, HandshakeFirst, Completed
  <2> QED
    BY <2>1, <2>2, <2>3, DataKept
<1>9. HandshakeFirst'
  BY DEF ReportRefused, instance, handshake, network, receiving, program, history, IInv,
         HandshakeFirst
<1> QED
  BY <1>1, <1>2, <1>3, <1>4, <1>5, <1>6, <1>7, <1>8, <1>9 DEF IInv

\* whichever error it is,
LEMMA ReportErrorKeeps ==
  ASSUME IInv, ReportError
  PROVE  IInv'
<1>1. TypeOK'
  <2>1. status' \in Statuses
    BY DEF ReportError, ErrorOccurred, AfterError, Statuses
  <2>2. worker' \in [pc : WorkerPlaces, packet : Packets, direct : BOOLEAN]
    BY DEF ReportError, Idle, WorkerPlaces, Packets
  <2> QED
    BY <2>1, <2>2 DEF ReportError, instance, handshake, network, receiving, program,
                      history, IInv, TypeOK
<1>2. UnloadedIsFresh'
  BY DEF ReportError, instance, receiving, program, history, IInv, UnloadedIsFresh
<1>3. FunctionIsBack'
  BY DEF ReportError, ErrorOccurred, AfterError, instance, receiving, program, history,
         IInv, FunctionIsBack, Idle
<1>4. QuietBeforeRecv'
  BY DEF ReportError, instance, handshake, receiving, program, IInv, QuietBeforeRecv
<1>5. DropIsAnError'
  BY DEF ReportError, ErrorOccurred, AfterError, history, DropIsAnError
<1>6. InOrder'
  <2>1. UNCHANGED <<setup, store, wire, got, server, sent>>
    BY DEF ReportError, instance, handshake, network, receiving, program, history
  <2>2. Taken' = Taken /\ InHand' = InHand /\ (InHand = 1 => worker.packet' = worker.packet)
    BY DEF ReportError, instance, handshake, history, Taken, Start, InHand, Idle
  <2>3. (Live' => Live) /\ (socket' = "up" => socket = "up")
    BY DEF ReportError, handshake, network, program, history, Live, Completed
  <2> QED
    BY <2>1, <2>2, <2>3, OrderKept
<1>7. ServerKnows'
  BY DEF ReportError, instance, handshake, network, receiving, IInv, ServerKnows
<1>8. OnlyData'
  <2>1. UNCHANGED <<store, wire, got, server>>
    BY DEF ReportError, instance, handshake, network, receiving, program, history
  <2>2. InHand' = InHand /\ (InHand = 1 => worker.packet' = worker.packet)
    BY DEF ReportError, network, receiving, program, history, InHand, Idle, Welcome
  <2>3. Completed' => Completed
    BY DEF ReportError, handshake, program, history, HandshakeFirst, Completed
  <2> QED
    BY <2>1, <2>2, <2>3, DataKept
<1>9. HandshakeFirst'
  BY DEF ReportError, instance, handshake, network, receiving, program, history, IInv,
         HandshakeFirst
<1> QED
  BY <1>1, <1>2, <1>3, <1>4, <1>5, <1>6, <1>7, <1>8, <1>9 DEF IInv

\* and whoever reports it.
LEMMA OtherErrorKeeps ==
  ASSUME IInv, OtherError
  PROVE  IInv'
<1>1. TypeOK'
  BY DEF OtherError, ErrorOccurred, AfterError, instance, handshake, network, receiving,
         program, history, IInv, TypeOK, Statuses
<1>2. UnloadedIsFresh'
  BY DEF OtherError, instance, network, receiving, program, history, UnloadedIsFresh
<1>3. FunctionIsBack'
  BY DEF OtherError, ErrorOccurred, AfterError, instance, receiving, program, history,
         IInv, FunctionIsBack
<1>4. DropIsAnError'
  BY DEF OtherError, ErrorOccurred, AfterError, history, DropIsAnError
<1>5. InOrder'
  <2>1. UNCHANGED <<setup, store, wire, got, server, sent>>
    BY DEF OtherError, instance, handshake, network, receiving, program, history
  <2>2. Taken' = Taken /\ InHand' = InHand /\ (InHand = 1 => worker.packet' = worker.packet)
    BY DEF OtherError, instance, handshake, history, Taken, Start, InHand, Welcome
  <2>3. (Live' => Live) /\ (socket' = "up" => socket = "up")
    BY DEF OtherError, handshake, network, program, history, Live, Completed
  <2> QED
    BY <2>1, <2>2, <2>3, OrderKept
<1>6. OnlyData'
  <2>1. UNCHANGED <<store, wire, got, server>>
    BY DEF OtherError, instance, handshake, network, receiving, program, history
  <2>2. InHand' = InHand /\ (InHand = 1 => worker.packet' = worker.packet)
    BY DEF OtherError, network, receiving, program, history, InHand, Idle, Welcome
  <2>3. Completed' => Completed
    BY DEF OtherError, handshake, program, history, HandshakeFirst, Completed
  <2> QED
    BY <2>1, <2>2, <2>3, DataKept
<1>7. HandshakeFirst' /\ QuietBeforeRecv' /\ ServerKnows'
  BY DEF OtherError, instance, handshake, network, receiving, program, history, IInv,
         HandshakeFirst, QuietBeforeRecv, ServerKnows
<1> QED
  BY <1>1, <1>2, <1>3, <1>4, <1>5, <1>6, <1>7 DEF IInv

\* A new instance finds nothing of the last one.
LEMMA ConnectKeeps ==
  ASSUME IInv, Connect
  PROVE  IInv'
<1>1. TypeOK /\ setup.udp \in BOOLEAN /\ Start \in Int
  BY Numbers DEF IInv
<1>2. /\ hsPC = "none" /\ exitCode = "STILL_ACTIVE" /\ mainPC = "idle"
      /\ socket = "closed" /\ server = "none" /\ sent = 0 /\ wire = <<>>
      /\ ~recvPending /\ store = <<>> /\ worker.pc = "idle"
      /\ got = <<>> /\ ~dropped /\ ~straddled
  BY DEF Connect, IInv, UnloadedIsFresh
<1>3. /\ loaded' /\ status' = "CONNECTING" /\ funcRemoved' /\ answer' = "none"
      /\ \/ hsPC' = "poll" /\ socket' = "connecting"
         \/ UNCHANGED <<hsPC, socket>>
      /\ UNCHANGED <<setup, exitCode, wire, server, sent, recvPending, store, worker, mainPC,
                     got, dropped, straddled>>
  BY DEF Connect, history
<1>4. TypeOK'
  BY DEF Connect, history, IInv, TypeOK, Statuses, Running, Answers
<1>5. UnloadedIsFresh'
  BY <1>2, <1>3 DEF UnloadedIsFresh
<1>6. HandshakeFirst'
  BY <1>2, <1>3 DEF HandshakeFirst, Running
<1>7. FunctionIsBack'
  BY <1>2, <1>3 DEF FunctionIsBack
<1>8. QuietBeforeRecv'
  BY <1>2, <1>3 DEF QuietBeforeRecv
<1>9. DropIsAnError'
  BY <1>2, <1>3 DEF DropIsAnError
<1>10. InOrder'
  <2>1. InHand' = 0 /\ Told' = Start
    BY <1>2, <1>3 DEF InHand, Told, Start
  <2>2. Live' => Taken' = Start
    BY <1>2, <1>3 DEF Live, Completed, Taken, Start, Running
  <2> QED
    BY <1>1, <1>2, <1>3, <2>1, <2>2, Nothing DEF InOrder, Order
<1>11. ServerKnows'
  BY <1>2, <1>3 DEF ServerKnows, InHand
<1>12. OnlyData'
  BY <1>2, <1>3, Nothing DEF OnlyData, Completed
<1> QED
  BY <1>4, <1>5, <1>6, <1>7, <1>8, <1>9, <1>10, <1>11, <1>12 DEF IInv

\* PollConnect answers what the handshake thread has found, and deletes the thread.
LEMMA PollConnectKeeps ==
  ASSUME IInv, PollConnect
  PROVE  IInv'
<1>1. /\ hsPC = "exited" /\ funcRemoved /\ answer = "none" /\ got = <<>> /\ ~straddled
      /\ mainPC = "idle"
  BY DEF PollConnect, IInv, HandshakeFirst
<1>2. /\ hsPC' = "none" /\ loaded /\ answer' \in Answers \ {"none"}
      /\ \/ status' = "CONNECTED" /\ mainPC' = "connected" /\ answer' = "CONNECTED"
         \/ UNCHANGED <<status, mainPC>>
      /\ UNCHANGED <<setup, loaded, funcRemoved, got, straddled, dropped, worker, store,
                     socket, recvPending, exitCode>>
  BY DEF PollConnect, network, receiving, history, Answers
<1>3. TypeOK'
  <2>1. destroy' \in BOOLEAN
    <3>1. (destroy \/ ~hsThrew) \in BOOLEAN
      OBVIOUS
    <3> QED
      BY <3>1 DEF PollConnect, IInv, TypeOK
  <2>2. answer' \in Answers
    BY <1>2
  <2>3. status' \in Statuses
    BY <1>1, <1>2 DEF PollConnect, IInv, TypeOK, Statuses
  <2> QED
    BY <2>1, <2>2, <2>3 DEF PollConnect, network, receiving, history, IInv, TypeOK
<1>4. UnloadedIsFresh'
  BY DEF PollConnect, network, receiving, history, UnloadedIsFresh
<1>5. HandshakeFirst'
  BY <1>1, <1>2 DEF IInv, HandshakeFirst, Running
<1>6. FunctionIsBack'
  BY <1>1, <1>2 DEF IInv, FunctionIsBack
<1>7. QuietBeforeRecv'
  BY DEF PollConnect, receiving, IInv, QuietBeforeRecv
<1>8. DropIsAnError'
  BY DEF PollConnect, history, IInv, DropIsAnError
<1>9. InOrder'
  <2>1. UNCHANGED <<setup, store, wire, got, server, sent>>
    BY DEF PollConnect, network, receiving, history
  <2>2. Taken' = Taken /\ InHand' = InHand /\ (InHand = 1 => worker.packet' = worker.packet)
    BY DEF PollConnect, history, Taken, Start, InHand, Running, Idle, Welcome
  <2>3. (Live' => Live) /\ (socket' = "up" => socket = "up")
    BY DEF PollConnect, network, history, HandshakeFirst, Live, Completed, Running
  <2> QED
    BY <2>1, <2>2, <2>3, OrderKept
<1>10. OnlyData'
  <2>1. UNCHANGED <<store, wire, got, server>>
    BY DEF PollConnect, network, receiving, history
  <2>2. InHand' = InHand /\ (InHand = 1 => worker.packet' = worker.packet)
    BY DEF PollConnect, network, receiving, history, InHand, Idle, Welcome
  <2>3. Completed' => Completed
    BY DEF PollConnect, network, receiving, history, HandshakeFirst, Completed
  <2> QED
    BY <2>1, <2>2, <2>3, DataKept
<1>11. ServerKnows'
  BY DEF PollConnect, network, receiving, IInv, ServerKnows
<1> QED
  BY <1>3, <1>4, <1>5, <1>6, <1>7, <1>8, <1>9, <1>10, <1>11 DEF IInv

\* When the function is put back, the store is empty or will be emptied, unless a
\* worker is dealing with a packet.
LEMMA RestoreRecvFunctionKeeps ==
  ASSUME IInv, RestoreRecvFunction
  PROVE  IInv'
<1>1. mainPC = "connected" /\ answer = "CONNECTED" /\ hsPC = "none"
  BY DEF RestoreRecvFunction, IInv, FunctionIsBack, HandshakeFirst
<1>2. /\ ~funcRemoved' /\ (straddled' <=> straddled \/ worker.pc = "deal")
      /\ \/ ~setup.handshake /\ mainPC' = "recv"
         \/ setup.func /\ mainPC' = "drain"
         \/ setup.handshake /\ ~setup.func /\ mainPC' = "idle"
      /\ UNCHANGED <<setup, loaded, status, worker, answer, store, got>>
  BY DEF RestoreRecvFunction, instance
<1>3. TypeOK'
  <2>1. funcRemoved' \in BOOLEAN
    BY DEF RestoreRecvFunction
  <2> QED
    BY <2>1 DEF RestoreRecvFunction, instance, handshake, network, IInv, TypeOK
<1>4. UnloadedIsFresh'
  BY DEF RestoreRecvFunction, instance, handshake, network, IInv, UnloadedIsFresh
<1>5. HandshakeFirst'
  BY DEF RestoreRecvFunction, instance, handshake, network, IInv, HandshakeFirst
<1>6. FunctionIsBack'
  BY <1>1, <1>2 DEF IInv, FunctionIsBack, QuietBeforeRecv
<1>7. QuietBeforeRecv'
  BY DEF RestoreRecvFunction, instance, handshake, IInv, QuietBeforeRecv
<1>8. InOrder'
  <2>1. UNCHANGED <<setup, store, wire, got, server, sent>>
    BY DEF RestoreRecvFunction, instance, handshake, network
  <2>2. Taken' = Taken /\ InHand' = InHand /\ (InHand = 1 => worker.packet' = worker.packet)
    BY DEF RestoreRecvFunction, instance, handshake, Taken, Start, InHand, Welcome
  <2>3. (Live' => Live) /\ (socket' = "up" => socket = "up")
    BY DEF RestoreRecvFunction, handshake, network, HandshakeFirst, Live, Completed
  <2> QED
    BY <2>1, <2>2, <2>3, OrderKept
<1>9. DropIsAnError' /\ ServerKnows' /\ OnlyData'
  BY DEF RestoreRecvFunction, instance, handshake, network, IInv, DropIsAnError,
         ServerKnows, InHand, OnlyData, RestIsData, Completed
<1> QED
  BY <1>3, <1>4, <1>5, <1>6, <1>7, <1>8, <1>9 DEF IInv

\* What came during the handshake goes to the user in its order.
LEMMA PassOnKeeps ==
  ASSUME IInv, PassOn
  PROVE  IInv'
<1>1. /\ TypeOK /\ (Live => Order) /\ AllData(got)
      /\ Completed => server = "joined" /\ RestIsData
  BY DEF IInv, InOrder, OnlyData
<1>2. /\ setup.udp \in BOOLEAN /\ InHand \in {0, 1}
      /\ Start \in Int /\ Told \in Int /\ Taken \in Int
      /\ Len(store) \in Nat /\ Len(wire) \in Nat /\ Len(got) \in Nat
  BY <1>1, Numbers
<1>3. hsPC = "none" /\ answer = "CONNECTED"
  BY DEF PassOn, IInv, HandshakeFirst, FunctionIsBack
<1>4. UNCHANGED <<setup, hsPC, exitCode, answer, dropped, straddled, wire, server, sent, socket,
                  worker, funcRemoved, status, loaded, recvPending>>
  BY DEF PassOn, instance, handshake, network
<1>5. store # <<>> =>
        /\ Tail(store) \in Seq(Packets) /\ Len(Tail(store)) = Len(store) - 1
        /\ Append(got, Head(store)) \in Seq(Packets)
        /\ Len(Append(got, Head(store))) = Len(got) + 1
        /\ Follows(store, Len(got), setup.udp) /\ Follows(got, 0, setup.udp) =>
              /\ Follows(Tail(store), Len(got) + 1, setup.udp)
              /\ Follows(Append(got, Head(store)), 0, setup.udp)
        /\ AllData(store) /\ AllData(got) =>
              AllData(Tail(store)) /\ AllData(Append(got, Head(store)))
  BY <1>1, Handed
<1>6. TypeOK'
  <2>1. got' \in Seq(Packets)
    BY <1>1, <1>5 DEF PassOn, TypeOK
  <2>2. store' \in Seq(Packets)
    BY <1>1, <1>5 DEF PassOn, TypeOK
  <2>3. mainPC' \in {"idle", "connected", "recv", "drain", "stop", "kill", "close"}
    BY <1>1, <1>2, <1>3, <1>4, <1>5 DEF PassOn, IInv, TypeOK
  <2> QED
    BY <2>1, <2>2, <2>3 DEF PassOn, instance, handshake, network, IInv, TypeOK
<1>7. UnloadedIsFresh'
  BY DEF PassOn, instance, handshake, network, IInv, UnloadedIsFresh
<1>8. HandshakeFirst'
  BY <1>3, <1>4 DEF PassOn, instance, IInv, HandshakeFirst
<1>9. FunctionIsBack'
  BY DEF PassOn, instance, IInv, FunctionIsBack
<1>10. QuietBeforeRecv'
  BY DEF PassOn, instance, handshake, IInv, QuietBeforeRecv
<1>11. InOrder'
  <2>1. CASE UNCHANGED <<got, store>>
    <3>1. Taken' = Taken /\ InHand' = InHand /\ Live' = Live
      BY <1>4, <2>1 DEF Taken, InHand, Live, Completed, Start
    <3> QED
      BY <1>4, <2>1, <3>1, OrderKept
  <2>2. CASE got' = Append(got, Head(store)) /\ store' = Tail(store) /\ store # <<>>
    <3> SUFFICES ASSUME Live' PROVE Order'
      BY DEF InOrder
    <3>1. /\ Order /\ Taken = Len(got) /\ Taken' = Len(got') /\ Told' = Told
          /\ InHand' = InHand
      BY <1>1, <1>3, <1>4 DEF Taken, Running, Told, Start, InHand, Live, Completed
    <3>2. /\ Follows(store', Taken', setup.udp) /\ Follows(got', 0, setup.udp)
          /\ Taken' = Taken + 1
      BY <1>2, <1>5, <2>2, <3>1 DEF Order
    <3>3. Taken' + Len(store') = Taken + Len(store)
      BY <1>2, <1>5, <2>2, <3>2
    <3>4. Taken' + Len(store') + InHand' = Taken + Len(store) + InHand
      BY <3>1, <3>3
    <3> QED
      BY <1>4, <3>1, <3>2, <3>3, <3>4 DEF Order
  <2> QED
    BY <2>1, <2>2 DEF PassOn
<1>12. ServerKnows'
  BY DEF PassOn, instance, handshake, network, IInv, ServerKnows
<1>13. OnlyData'
  BY <1>1, <1>3, <1>4, <1>5 DEF PassOn, OnlyData, RestIsData, Completed, InHand
<1>14. DropIsAnError'
  BY DEF PassOn, IInv, DropIsAnError
<1> QED
  BY <1>6, <1>7, <1>8, <1>9, <1>10, <1>11, <1>12, <1>13, <1>14 DEF IInv

\* Without handshake nothing was received before.
LEMMA FirstRecvKeeps ==
  ASSUME IInv, FirstRecv
  PROVE  IInv'
<1>1. TypeOK'
  <2>1. recvPending' \in BOOLEAN
    BY DEF FirstRecv, IInv, TypeOK
  <2>2. status' \in Statuses
    BY DEF FirstRecv, ErrorOccurred, AfterError, IInv, TypeOK, Statuses
  <2> QED
    BY <2>1, <2>2 DEF FirstRecv, instance, handshake, network, history, IInv, TypeOK
<1>2. UnloadedIsFresh'
  BY DEF FirstRecv, instance, handshake, network, history, IInv, UnloadedIsFresh
<1>3. HandshakeFirst'
  BY DEF FirstRecv, instance, handshake, network, history, IInv, HandshakeFirst
<1>4. FunctionIsBack'
  BY DEF FirstRecv, ErrorOccurred, AfterError, instance, history, IInv, FunctionIsBack
<1>5. QuietBeforeRecv'
  BY DEF FirstRecv, instance, handshake, IInv, HandshakeFirst, QuietBeforeRecv
<1>6. DropIsAnError'
  BY DEF FirstRecv, ErrorOccurred, AfterError, history, IInv, DropIsAnError
<1>7. ServerKnows'
  <2>1. answer = "CONNECTED"
    BY DEF FirstRecv, IInv, FunctionIsBack
  <2>2. server = "joined"
    BY <2>1 DEF IInv, OnlyData, Completed
  <2> QED
    BY <2>2 DEF FirstRecv, handshake, network, IInv, ServerKnows
<1>8. InOrder' /\ OnlyData'
  BY DEF FirstRecv, instance, handshake, network, history, IInv, InOrder, Order, Live,
         Completed, Taken, Told, Start, InHand, OnlyData, RestIsData
<1> QED
  BY <1>1, <1>2, <1>3, <1>4, <1>5, <1>6, <1>7, <1>8 DEF IInv

\* The program takes the oldest packet of the store.
LEMMA RecvTCPKeeps ==
  ASSUME IInv, RecvTCP
  PROVE  IInv'
<1>1. /\ TypeOK /\ (Live => Order) /\ AllData(got)
      /\ Completed => server = "joined" /\ RestIsData
  BY DEF IInv, InOrder, OnlyData
<1>2. /\ setup.udp \in BOOLEAN /\ InHand \in {0, 1}
      /\ Start \in Int /\ Told \in Int /\ Taken \in Int
      /\ Len(store) \in Nat /\ Len(wire) \in Nat /\ Len(got) \in Nat
  BY <1>1, Numbers
<1>3. hsPC = "none" /\ answer = "CONNECTED"
  BY DEF RecvTCP, IInv, HandshakeFirst, FunctionIsBack
<1>4. UNCHANGED <<setup, hsPC, exitCode, answer, dropped, straddled, wire, server, sent, socket,
                  worker, funcRemoved, status, loaded, recvPending>>
  BY DEF RecvTCP, instance, handshake, network, program
<1>5. store # <<>> =>
        /\ Tail(store) \in Seq(Packets) /\ Len(Tail(store)) = Len(store) - 1
        /\ Append(got, Head(store)) \in Seq(Packets)
        /\ Len(Append(got, Head(store))) = Len(got) + 1
        /\ Follows(store, Len(got), setup.udp) /\ Follows(got, 0, setup.udp) =>
              /\ Follows(Tail(store), Len(got) + 1, setup.udp)
              /\ Follows(Append(got, Head(store)), 0, setup.udp)
        /\ AllData(store) /\ AllData(got) =>
              AllData(Tail(store)) /\ AllData(Append(got, Head(store)))
  BY <1>1, Handed
<1>6. TypeOK'
  BY DEF RecvTCP, instance, handshake, network, program, IInv, TypeOK
<1>7. UnloadedIsFresh'
  BY DEF RecvTCP, instance, handshake, network, program, UnloadedIsFresh
<1>8. HandshakeFirst'
  BY DEF RecvTCP, instance, handshake, network, program, IInv, HandshakeFirst
<1>9. FunctionIsBack'
  BY DEF RecvTCP, instance, program, IInv, FunctionIsBack
<1>10. QuietBeforeRecv'
  BY DEF RecvTCP, instance, handshake, program, IInv, QuietBeforeRecv
<1>11. InOrder'
  <2> SUFFICES ASSUME Live', got' = Append(got, Head(store)), store' = Tail(store), store # <<>>
               PROVE  Order'
    BY DEF InOrder, RecvTCP
  <2>1. Order /\ Taken = Len(got) /\ Taken' = Len(got') /\ Told' = Told /\ InHand' = InHand
    BY <1>1, <1>3, <1>4 DEF Taken, Running, Told, Start, InHand, Live, Completed
  <2>2. /\ Follows(store', Taken', setup.udp) /\ Follows(got', 0, setup.udp)
        /\ Taken' = Taken + 1
    BY <1>2, <1>5, <2>1 DEF Order
  <2>3. Taken' + Len(store') = Taken + Len(store)
    BY <1>2, <1>5, <2>2
  <2>4. Taken' + Len(store') + InHand' = Taken + Len(store) + InHand
    BY <2>1, <2>3
  <2> QED
    BY <1>4, <2>1, <2>2, <2>3, <2>4 DEF Order
<1>12. ServerKnows'
  BY DEF RecvTCP, instance, handshake, network, IInv, ServerKnows
<1>13. OnlyData'
  BY <1>1, <1>3, <1>4, <1>5 DEF RecvTCP, OnlyData, RestIsData, Completed, InHand
<1>14. DropIsAnError'
  BY DEF RecvTCP, IInv, DropIsAnError
<1> QED
  BY <1>6, <1>7, <1>8, <1>9, <1>10, <1>11, <1>12, <1>13, <1>14 DEF IInv

\* Polling the connection,
LEMMA ClientConnectedKeeps ==
  ASSUME IInv, ClientConnected
  PROVE  IInv'
<1>1. TypeOK'
  BY DEF ClientConnected, handshake, network, receiving, history, IInv, TypeOK
<1>2. UnloadedIsFresh'
  BY DEF ClientConnected, handshake, network, receiving, history, UnloadedIsFresh
<1>3. HandshakeFirst'
  BY DEF ClientConnected, handshake, network, receiving, history, IInv, HandshakeFirst
<1>4. FunctionIsBack'
  BY DEF ClientConnected, receiving, history, IInv, FunctionIsBack
<1>5. QuietBeforeRecv'
  BY DEF ClientConnected, handshake, receiving, IInv, QuietBeforeRecv
<1>6. DropIsAnError' /\ InOrder' /\ ServerKnows' /\ OnlyData'
  BY DEF ClientConnected, handshake, network, receiving, history, IInv, DropIsAnError,
         InOrder, Order, Live, Completed, Taken, Told, Start, InHand, ServerKnows,
         OnlyData, RestIsData
<1> QED
  BY <1>1, <1>2, <1>3, <1>4, <1>5, <1>6 DEF IInv

\* giving it up
LEMMA StopConnectKeeps ==
  ASSUME IInv, StopConnect
  PROVE  IInv'
<1>1. TypeOK'
  BY DEF StopConnect, instance, handshake, network, receiving, history, IInv, TypeOK
<1>2. UnloadedIsFresh'
  BY DEF StopConnect, instance, network, receiving, history, UnloadedIsFresh
<1>3. HandshakeFirst'
  BY DEF StopConnect, instance, handshake, network, receiving, history, IInv, HandshakeFirst
<1>4. FunctionIsBack'
  BY DEF StopConnect, instance, receiving, history, IInv, FunctionIsBack
<1>5. QuietBeforeRecv'
  BY DEF StopConnect, instance, handshake, receiving, IInv, QuietBeforeRecv
<1>6. DropIsAnError' /\ InOrder' /\ ServerKnows' /\ OnlyData'
  BY DEF StopConnect, instance, handshake, network, receiving, history, IInv,
         DropIsAnError, InOrder, Order, Live, Completed, Taken, Told, Start, InHand,
         ServerKnows, OnlyData, RestIsData
<1> QED
  BY <1>1, <1>2, <1>3, <1>4, <1>5, <1>6 DEF IInv

\* and asking the handshake thread to end move no packet.
LEMMA TerminateThreadKeeps ==
  ASSUME IInv, TerminateThread
  PROVE  IInv'
<1>1. TypeOK'
  BY DEF TerminateThread, instance, network, receiving, program, history, IInv, TypeOK
<1>2. InOrder'
  <2>1. UNCHANGED <<setup, store, wire, got, server, sent>>
    BY DEF TerminateThread, instance, network, receiving, program, history
  <2>2. Taken' = Taken /\ InHand' = InHand /\ (InHand = 1 => worker.packet' = worker.packet)
    BY DEF TerminateThread, instance, history, Taken, Start, InHand, Idle, Welcome
  <2>3. (Live' => Live) /\ (socket' = "up" => socket = "up")
    BY DEF TerminateThread, network, program, history, Live, Completed
  <2> QED
    BY <2>1, <2>2, <2>3, OrderKept
<1>3. OnlyData'
  <2>1. UNCHANGED <<store, wire, got, server>>
    BY DEF TerminateThread, instance, network, receiving, program, history
  <2>2. InHand' = InHand /\ (InHand = 1 => worker.packet' = worker.packet)
    BY DEF TerminateThread, receiving, program, history, InHand, Idle, Welcome
  <2>3. Completed' => Completed
    BY DEF TerminateThread, receiving, program, history, HandshakeFirst, Completed
  <2> QED
    BY <2>1, <2>2, <2>3, DataKept
<1>4. /\ UnloadedIsFresh' /\ HandshakeFirst' /\ FunctionIsBack' /\ QuietBeforeRecv'
      /\ DropIsAnError' /\ ServerKnows'
  BY DEF TerminateThread, instance, network, receiving, program, history, IInv,
         UnloadedIsFresh, HandshakeFirst, FunctionIsBack, QuietBeforeRecv, DropIsAnError,
         ServerKnows
<1> QED
  BY <1>1, <1>2, <1>3, <1>4 DEF IInv

\* Once the thread is gone, nobody else takes packets of the handshake.
LEMMA DeleteThreadKeeps ==
  ASSUME IInv, DeleteThread
  PROVE  IInv'
<1>1. TypeOK'
  <2>1. hsPC' \in Running \cup {"none", "exited"}
    BY DEF DeleteThread, IInv, TypeOK, Running
  <2>2. mainPC' \in {"idle", "connected", "recv", "drain", "stop", "kill", "close"}
    BY DEF DeleteThread, IInv, TypeOK
  <2>3. destroy' \in BOOLEAN
    BY DEF DeleteThread, IInv, TypeOK
  <2>4. socket' \in {"closed", "connecting", "up", "broken"}
    BY DEF DeleteThread, IInv, TypeOK
  <2>5. recvPending' \in BOOLEAN
    BY DEF DeleteThread, IInv, TypeOK
  <2> QED
    BY <2>1, <2>2, <2>3, <2>4, <2>5 DEF DeleteThread, history, IInv, TypeOK
<1>2. UnloadedIsFresh'
  BY DEF DeleteThread, history, IInv, UnloadedIsFresh
<1>3. HandshakeFirst'
  BY DEF DeleteThread, history, IInv, HandshakeFirst, Running
<1>4. FunctionIsBack'
  BY DEF DeleteThread, history, IInv, TypeOK, FunctionIsBack
<1>5. QuietBeforeRecv'
  BY DEF DeleteThread, IInv, TypeOK, QuietBeforeRecv
<1>6. InOrder'
  <2>1. UNCHANGED <<setup, store, wire, got, server, sent>>
    BY DEF DeleteThread, history
  <2>2. Taken' = Taken /\ InHand' = InHand /\ (InHand = 1 => worker.packet' = worker.packet)
    BY DEF DeleteThread, history, Taken, Start, InHand, Running, Idle, Welcome
  <2>3. (Live' => Live) /\ (socket' = "up" => socket = "up")
    BY DEF DeleteThread, history, HandshakeFirst, Live, Completed, Running
  <2> QED
    BY <2>1, <2>2, <2>3, OrderKept
<1>7. ServerKnows'
  BY DEF DeleteThread, IInv, TypeOK, ServerKnows, InHand
<1>8. OnlyData'
  <2>1. UNCHANGED <<store, wire, got, server>>
    BY DEF DeleteThread, history
  <2>2. InHand' = InHand /\ (InHand = 1 => worker.packet' = worker.packet)
    BY DEF DeleteThread, history, InHand, Idle, Welcome
  <2>3. Completed' => Completed
    BY DEF DeleteThread, history, HandshakeFirst, Completed
  <2> QED
    BY <2>1, <2>2, <2>3, DataKept
<1>9. DropIsAnError'
  BY DEF DeleteThread, history, IInv, DropIsAnError
<1> QED
  BY <1>1, <1>2, <1>3, <1>4, <1>5, <1>6, <1>7, <1>8, <1>9 DEF IInv

\* An instance that was deleted leaves nothing behind.
LEMMA DeleteInstanceKeeps ==
  ASSUME IInv, DeleteInstance
  PROVE  IInv'
<1>1. hsPC = "none" /\ ~recvPending /\ socket = "closed"
  BY DEF DeleteInstance, IInv, HandshakeFirst, TypeOK
<1>2. /\ ~loaded' /\ hsPC' = "none" /\ exitCode' = "STILL_ACTIVE" /\ mainPC' = "idle"
      /\ answer' = "none" /\ status' = "NOT_CONNECTED"
      /\ socket' = "closed" /\ server' = "none" /\ sent' = 0 /\ wire' = <<>>
      /\ ~recvPending' /\ store' = <<>> /\ worker' = Idle /\ ~funcRemoved'
      /\ got' = <<>> /\ ~dropped' /\ ~straddled' /\ setup' = setup
  BY <1>1 DEF DeleteInstance
<1>3. TypeOK'
  <2>1. status' \in Statuses
    BY DEF DeleteInstance, Statuses, ExitCodes, Answers, WorkerPlaces, Packets
  <2>2. exitCode' \in ExitCodes
    BY DEF DeleteInstance, Statuses, ExitCodes, Answers, WorkerPlaces, Packets
  <2>3. worker' \in [pc : WorkerPlaces, packet : Packets, direct : BOOLEAN]
    BY DEF DeleteInstance, Statuses, ExitCodes, Answers, Idle, WorkerPlaces, Packets
  <2>4. answer' \in Answers
    BY DEF DeleteInstance, Statuses, ExitCodes, Answers, WorkerPlaces, Packets
  <2>5. got' \in Seq(Packets)
    BY DEF DeleteInstance, Statuses, ExitCodes, Answers, WorkerPlaces, Packets
  <2>6. mainPC' \in {"idle", "connected", "recv", "drain", "stop", "kill", "close"}
    BY DEF DeleteInstance, Statuses, ExitCodes, Answers, WorkerPlaces, Packets
  <2> QED
    BY <2>1, <2>2, <2>3, <2>4, <2>5, <2>6 DEF DeleteInstance, IInv, TypeOK
<1>4. UnloadedIsFresh'
  BY <1>2 DEF UnloadedIsFresh, Idle
<1>5. HandshakeFirst'
  BY <1>2 DEF HandshakeFirst, Running
<1>6. FunctionIsBack'
  BY <1>2 DEF FunctionIsBack, Idle
<1>7. QuietBeforeRecv'
  BY <1>2 DEF QuietBeforeRecv, Idle
<1>8. DropIsAnError'
  BY <1>2 DEF DropIsAnError
<1>9. InOrder'
  BY <1>2 DEF InOrder, Live, Completed, Running
<1>10. ServerKnows'
  BY <1>2 DEF ServerKnows, InHand, Idle
<1>11. OnlyData'
  BY <1>2, Nothing DEF OnlyData, Completed
<1> QED
  BY <1>3, <1>4, <1>5, <1>6, <1>7, <1>8, <1>9, <1>10, <1>11 DEF IInv

-------------------------------------------------------------------------------
(* The invariant, and what follows from it *)

\* A program that has not connected yet has no instance.
LEMMA InitIInv == Init => IInv
<1> SUFFICES ASSUME Init PROVE IInv
  OBVIOUS
<1>1. /\ setup \in [handshake : BOOLEAN, udp : BOOLEAN, func : BOOLEAN, graceful : BOOLEAN]
      /\ setup.udp => setup.handshake
  BY ClientAssumption DEF Init
<1>2. Idle \in [pc : WorkerPlaces, packet : Packets, direct : BOOLEAN] /\ Idle.pc = "idle"
  BY DEF Idle, WorkerPlaces, Packets
<1>3. TypeOK
  <2>1. /\ wire \in Seq(Packets) /\ store \in Seq(Packets) /\ got \in Seq(Packets)
        /\ sent \in Nat /\ connects \in Nat
    BY DEF Init
  <2>2. /\ status \in Statuses /\ exitCode \in ExitCodes /\ answer \in Answers
        /\ hsPC \in Running \cup {"none", "exited"}
    BY DEF Init, Statuses, ExitCodes, Answers
  <2>3. /\ loaded \in BOOLEAN /\ destroy \in BOOLEAN /\ hsThrew \in BOOLEAN
        /\ terminate \in BOOLEAN /\ expired \in BOOLEAN /\ datagram \in BOOLEAN
        /\ reset \in BOOLEAN /\ recvPending \in BOOLEAN /\ funcRemoved \in BOOLEAN
        /\ dropped \in BOOLEAN /\ straddled \in BOOLEAN
    BY DEF Init
  <2>4. worker \in [pc : WorkerPlaces, packet : Packets, direct : BOOLEAN]
    BY <1>2 DEF Init
  <2>5. /\ socket \in {"closed", "connecting", "up", "broken"}
        /\ server \in {"none", "accepted", "told", "joined"}
        /\ mainPC \in {"idle", "connected", "recv", "drain", "stop", "kill", "close"}
    BY DEF Init
  <2> QED
    BY <1>1, <2>1, <2>2, <2>3, <2>4, <2>5 DEF TypeOK
<1>4. /\ UnloadedIsFresh /\ HandshakeFirst /\ FunctionIsBack /\ QuietBeforeRecv
      /\ DropIsAnError
  BY <1>2 DEF Init, UnloadedIsFresh, HandshakeFirst, FunctionIsBack, QuietBeforeRecv,
              DropIsAnError, Running
<1>5. InOrder /\ ServerKnows
  BY DEF Init, InOrder, Live, Completed, Running, ServerKnows
<1>6. OnlyData
  BY Nothing DEF Init, OnlyData, Completed
<1> QED
  BY <1>3, <1>4, <1>5, <1>6 DEF IInv

\* A step that changes nothing keeps it.
LEMMA StutterKeeps ==
  ASSUME IInv, UNCHANGED vars
  PROVE  IInv'
<1>1. UNCHANGED <<instance, status, handshake, network, receiving, worker, program, history>>
  BY DEF vars
<1>2. TypeOK' /\ UnloadedIsFresh' /\ HandshakeFirst'
  BY <1>1 DEF instance, handshake, network, receiving, program, history, IInv, TypeOK,
              UnloadedIsFresh, HandshakeFirst
<1>3. FunctionIsBack' /\ QuietBeforeRecv' /\ DropIsAnError' /\ ServerKnows'
  BY <1>1 DEF instance, handshake, network, receiving, program, history, IInv,
              FunctionIsBack, QuietBeforeRecv, DropIsAnError, ServerKnows, InHand
<1>4. UNCHANGED <<setup, store, wire, got, server, sent, worker, socket>>
  BY <1>1 DEF instance, network, receiving, history
<1>5. UNCHANGED <<hsPC, exitCode, answer, dropped, straddled>>
  BY <1>1 DEF handshake, program, history
<1>6. UNCHANGED <<Taken, InHand, Live, Completed>>
  BY <1>4, <1>5 DEF Taken, Start, InHand, Live, Completed
<1>7. InOrder' /\ OnlyData'
  BY <1>4, <1>6, OrderKept, DataKept
<1> QED
  BY <1>2, <1>3, <1>7 DEF IInv

\* The inductive invariant, for any profiles and any amount of data.
THEOREM Inductive == Spec => []IInv
<1>1. IInv /\ [Next]_vars => IInv'
  <2> SUFFICES ASSUME IInv, [Next]_vars PROVE IInv'
    OBVIOUS
  <2>1. CASE UNCHANGED vars
    BY <2>1, StutterKeeps
  <2>2. CASE Server
    BY <2>2, ServerAcceptsKeeps, ServerTellsKeeps, ServerConfirmsKeeps, ServerSendsKeeps,
       ConnectionBreaksKeeps
       DEF Server
  <2>3. CASE TimerExpires \/ HandshakeRuns \/ HandshakeThrows
    BY <2>3, TimerExpiresKeeps, HandshakePollConnectKeeps, HandshakeRecvKeeps,
       HandshakeWelcomeKeeps, HandshakeConfirmKeeps, HandshakeThrowsKeeps
       DEF HandshakeRuns
  <2>4. CASE Worker \/ OtherError
    BY <2>4, WorkerTakesPacketKeeps, WorkerTakesErrorKeeps, GetRecvFunctionKeeps,
       DealWithDataKeeps, WorkerRecvKeeps, CompletionErrorKeeps, ReportRefusedKeeps,
       ReportErrorKeeps, OtherErrorKeeps
       DEF Worker
  <2>5. CASE Program
    BY <2>5, ConnectKeeps, PollConnectKeeps, ClientConnectedKeeps, RestoreRecvFunctionKeeps,
       PassOnKeeps, FirstRecvKeeps, TerminateThreadKeeps, DeleteThreadKeeps,
       DeleteInstanceKeeps, RecvTCPKeeps, StopConnectKeeps
       DEF Program, Polling, InCall
  <2> QED
    BY <2>1, <2>2, <2>3, <2>4, <2>5 DEF Next
<1> QED
  BY InitIInv, <1>1, PTL DEF Spec

\* Every variable keeps its type.
THEOREM TypeCorrect == Spec => []TypeOK
<1>1. IInv => TypeOK
  BY DEF IInv
<1> QED
  BY <1>1, Inductive, PTL

\* The user is given data only, all of it and in order, unless a worker dealt with a
\* packet while PollConnect gave the function back or a packet was dropped; and nothing
\* stays in the store of a client with a function (RemoveRecvFunction, PollConnect).
THEOREM UserGetsTheDataHolds == Spec => []UserGetsTheData
<1>1. ASSUME IInv PROVE UserGetsTheData
  <2>1. AllData(got) /\ got \in Seq(Packets) /\ DOMAIN got = 1 .. Len(got)
    BY <1>1 DEF IInv, OnlyData, TypeOK
  <2>2. ASSUME ~straddled, ~dropped, NEW k \in DOMAIN got
        PROVE  got[k].n = k
    <3>1. got[k].what = "data" /\ got # <<>> /\ k \in Int
      BY <2>1, <2>2 DEF AllData
    <3>2. Live
      BY <1>1, <2>2, <3>1 DEF IInv, HandshakeFirst, Live, Completed
    <3>3. Rank(got[k], setup.udp) = 0 + k
      BY <1>1, <2>1, <3>2 DEF IInv, InOrder, Order, Follows
    <3> QED
      BY <3>1, <3>3 DEF Rank
  <2>3. setup.func /\ ~straddled /\ status = "CONNECTED" /\ mainPC = "idle" => store = <<>>
    BY <1>1 DEF IInv, FunctionIsBack
  <2> QED
    BY <2>1, <2>2, <2>3 DEF UserGetsTheData, AllData
<1> QED
  BY <1>1, Inductive, PTL

\* PollConnect answers CONNECTED only if the server counts the client as joined
\* (ThreadHandshakeRoutine).
THEOREM ConnectedIsMutualHolds == Spec => []ConnectedIsMutual
<1>1. IInv => ConnectedIsMutual
  BY DEF IInv, OnlyData, Completed, ConnectedIsMutual
<1> QED
  BY <1>1, Inductive, PTL
=============================================================================
