------------------------------- MODULE NetClient -------------------------------
(***************************************************************************)
(* A NetInstanceClient in its NetInstanceContainer, from mn::Connect to    *)
(* its destruction, and again.  Its connectionStatus is shared by          *)
(*   - the program thread, which polls the connection attempt, polls the   *)
(*     connection, receives, gives up and destroys the instance;           *)
(*   - the handshake thread, which runs ThreadHandshakeRoutine;            *)
(*   - the worker threads of the completion port: the one that has the     *)
(*     TCP receive operation in hand, and any other that reports an error; *)
(*   - the server (external), which tells the client its codes, confirms   *)
(*     its datagram, sends data and may close or reset the connection.     *)
(* Until the handshake is over TCP packets must reach the handshake thread *)
(* and not the function of the user, which is taken off the socket.        *)
(*                                                                         *)
(* One receive completes with one packet: NetModeTcp is TcpFraming.        *)
(***************************************************************************)
EXTENDS Naturals, Sequences

CONSTANTS
  Setups,       \* [handshake, udp, func, graceful : BOOLEAN] of a profile
  MaxData,      \* bound: packets of data the server sends
  MaxConnects   \* bound: connection attempts

ASSUME ClientAssumption ==
  /\ Setups \subseteq [handshake : BOOLEAN, udp : BOOLEAN, func : BOOLEAN, graceful : BOOLEAN]
  /\ \A s \in Setups : s.udp => s.handshake
  /\ MaxData \in Nat /\ MaxConnects \in Nat

VARIABLES
  setup,        \* the profile of the instance
  loaded,       \* NetInstanceContainer::IsInstanceLoaded
  destroy,      \* NetInstance::shouldBeDestroyed
  status,       \* NetInstanceClient::connectionStatus
  hsPC,         \* the handshake thread; "none" if handshakeThread is NULL
  exitCode,     \* of the handshake thread
  hsThrew,      \* handshakeErrorOccurred
  terminate,    \* the handshake thread was asked to terminate
  expired,      \* its timer has expired
  datagram,     \* it has sent a datagram to the server
  socket,       \* the TCP connection, as the client's socket sees it
  reset,        \* it was broken with a reset, not closed
  wire,         \* packets on their way to the client
  recvPending,  \* a receive operation of the TCP socket is pending
  funcRemoved,  \* RemoveRecvFunction took the user's function off the socket
  store,        \* packets in the store of the TCP socket
  worker,       \* the worker thread that has the receive operation in hand
  server,       \* how far the server has come with this client
  sent,         \* number of packets of data it has sent
  mainPC,       \* where the program thread is
  answer,       \* what PollConnect last answered
  got,          \* history: data given to the user, in order
  dropped,      \* history: a packet was dropped with an exception
  straddled,    \* history: data was dealt with across the return of the function
  connects      \* counter for the bound MaxConnects

instance  == <<setup, loaded, destroy>>
handshake == <<hsPC, exitCode, hsThrew, terminate, expired, datagram>>
network   == <<socket, reset, wire, server, sent>>
receiving == <<recvPending, funcRemoved, store>>
program   == <<mainPC, answer, connects>>
history   == <<got, dropped, straddled>>
vars == <<instance, status, handshake, network, receiving, worker, program, history>>

Welcome == [what |-> "welcome"]   \* maximum of clients, client ID and codes
Confirm == [what |-> "confirm"]   \* the empty packet
Data(n) == [what |-> "data", n |-> n]

Idle == [pc |-> "idle", packet |-> Welcome, direct |-> FALSE]

Init ==
  /\ setup \in Setups
  /\ loaded = FALSE /\ destroy = FALSE /\ status = "NOT_CONNECTED"
  /\ hsPC = "none" /\ exitCode = "STILL_ACTIVE" /\ hsThrew = FALSE
  /\ terminate = FALSE /\ expired = FALSE /\ datagram = FALSE
  /\ socket = "closed" /\ reset = FALSE /\ wire = <<>> /\ server = "none" /\ sent = 0
  /\ recvPending = FALSE /\ funcRemoved = FALSE /\ store = <<>>
  /\ worker = Idle
  /\ mainPC = "idle" /\ answer = "none" /\ connects = 0
  /\ got = <<>> /\ dropped = FALSE /\ straddled = FALSE

\* Mutated form of AfterError: only a connection attempt can fail.
AfterErrorConnectedKept(s) == IF s = "CONNECTING" THEN "DISCONNECTING" ELSE s

\* ErrorOccurred, under the lock of connectionStatus.
AfterError(s) == IF s = "NOT_CONNECTED" THEN s ELSE "DISCONNECTING"
ErrorOccurred == status' = AfterError(status)

(***************************************************************************)
(* The server and the network (external).                                  *)
(***************************************************************************)
ServerAccepts ==
  /\ socket = "connecting"
  /\ socket' = "up"
  /\ server' = IF setup.handshake THEN "accepted" ELSE "joined"
  /\ UNCHANGED <<instance, status, handshake, reset, wire, sent, receiving, worker,
                 program, history>>

Transmit(packet) == socket = "up" /\ wire' = Append(wire, packet)

ServerTells ==
  /\ server = "accepted"
  /\ Transmit(Welcome)
  /\ server' = IF setup.udp THEN "told" ELSE "joined"
  /\ UNCHANGED <<instance, status, handshake, socket, reset, sent, receiving, worker,
                 program, history>>

ServerConfirms ==
  /\ server = "told" /\ datagram
  /\ Transmit(Confirm)
  /\ server' = "joined"
  /\ UNCHANGED <<instance, status, handshake, socket, reset, sent, receiving, worker,
                 program, history>>

ServerSends ==
  /\ server = "joined" /\ sent < MaxData
  /\ Transmit(Data(sent + 1))
  /\ sent' = sent + 1
  /\ UNCHANGED <<instance, status, handshake, socket, reset, server, receiving, worker,
                 program, history>>

\* A reset also discards what was on its way.
ConnectionBreaks ==
  /\ socket = "up"
  /\ socket' = "broken"
  /\ reset' \in BOOLEAN
  /\ wire' = IF reset' THEN <<>> ELSE wire
  /\ UNCHANGED <<instance, status, handshake, server, sent, receiving, worker, program,
                 history>>

(***************************************************************************)
(* The handshake thread: ThreadHandshakeRoutine.                           *)
(***************************************************************************)
Exit(code) == hsPC' = "exited" /\ exitCode' = code

\* Mutated form of GivesUp: the timer of the handshake is not looked at.
GivesUpUntimed ==
  \/ /\ terminate
     /\ Exit("TIMED_OUT")
  \/ /\ ~terminate /\ status # "CONNECTING"
     /\ Exit("CONNECTION_ERROR")

\* HelperHandshakeStatus: why the thread must give up, if it must.
GivesUp ==
  \/ /\ expired \/ terminate
     /\ Exit("TIMED_OUT")
  \/ /\ ~expired /\ ~terminate
     /\ status # "CONNECTING"
     /\ Exit("CONNECTION_ERROR")

MayGoOn == ~expired /\ ~terminate /\ status = "CONNECTING"

TimerExpires ==
  /\ hsPC \notin {"none", "exited"} /\ ~expired
  /\ expired' = TRUE
  /\ UNCHANGED <<instance, status, hsPC, exitCode, hsThrew, terminate, datagram, network,
                 receiving, worker, program, history>>

\* Waits for the TCP connection.  One that is refused is never writable.
HandshakePollConnect ==
  /\ hsPC = "poll"
  /\ \/ GivesUp
     \/ /\ MayGoOn /\ socket # "connecting"
        /\ IF setup.handshake
           THEN hsPC' = "recv" /\ UNCHANGED exitCode
           ELSE Exit("CONNECTED")
  /\ UNCHANGED <<instance, status, hsThrew, terminate, expired, datagram, network,
                 receiving, worker, program, history>>

\* DoRecv(socketTCP): the operation is started, or that fails.
HandshakeRecv ==
  /\ hsPC = "recv"
  /\ hsPC' = "wait"
  /\ \/ recvPending' = TRUE /\ UNCHANGED status
     \/ ErrorOccurred /\ UNCHANGED recvPending
  /\ UNCHANGED <<instance, exitCode, hsThrew, terminate, expired, datagram, network,
                 funcRemoved, store, worker, program, history>>

\* Mutated form of HandshakeWelcome: the handshake of UDP is left out.
HandshakeWelcomeOnly ==
  /\ hsPC = "wait"
  /\ \/ GivesUp /\ UNCHANGED store
     \/ /\ MayGoOn /\ store # <<>>
        /\ store' = Tail(store)
        /\ Exit("CONNECTED")
  /\ UNCHANGED <<instance, status, hsThrew, terminate, expired, datagram, network,
                 recvPending, funcRemoved, worker, program, history>>

\* Takes the packet with the codes from the store.
HandshakeWelcome ==
  /\ hsPC = "wait"
  /\ \/ GivesUp /\ UNCHANGED store
     \/ /\ MayGoOn /\ store # <<>>
        /\ store' = Tail(store)
        /\ IF setup.udp
           THEN hsPC' = "datagram" /\ UNCHANGED exitCode
           ELSE Exit("CONNECTED")
  /\ UNCHANGED <<instance, status, hsThrew, terminate, expired, datagram, network,
                 recvPending, funcRemoved, worker, program, history>>

\* Sends its datagram again and again until an empty packet confirms it.
HandshakeConfirm ==
  /\ hsPC = "datagram"
  /\ \/ GivesUp /\ UNCHANGED <<store, datagram, status>>
     \/ /\ MayGoOn /\ store # <<>>
        /\ store' = Tail(store)
        /\ Exit(IF Head(store) = Confirm THEN "CONNECTED" ELSE "CONNECTION_ERROR")
        /\ UNCHANGED <<datagram, status>>
     \/ /\ MayGoOn /\ store = <<>>
        /\ \/ datagram' = TRUE /\ UNCHANGED status
           \/ ErrorOccurred /\ UNCHANGED datagram
        /\ UNCHANGED <<hsPC, exitCode, store>>
  /\ UNCHANGED <<instance, hsThrew, terminate, expired, network, recvPending,
                 funcRemoved, worker, program, history>>

\* Any call of the routine may throw: the error is kept for PollConnect.
HandshakeThrows ==
  /\ hsPC \in {"poll", "wait", "datagram"}
  /\ hsThrew' = TRUE
  /\ Exit("CONNECTION_ERROR")
  /\ UNCHANGED <<instance, status, terminate, expired, datagram, network, receiving,
                 worker, program, history>>

(***************************************************************************)
(* The worker threads: NetManageCompletionPort for an instance.            *)
(***************************************************************************)
WorkerTakesPacket ==
  /\ worker.pc = "idle" /\ recvPending /\ wire # <<>>
  /\ worker' = [Idle EXCEPT !.pc = "taken", !.packet = Head(wire)]
  /\ wire' = Tail(wire)
  /\ recvPending' = FALSE
  /\ UNCHANGED <<instance, status, handshake, socket, reset, server, sent, funcRemoved,
                 store, program, history>>

WorkerTakesError ==
  /\ worker.pc = "idle" /\ recvPending /\ wire = <<>> /\ socket = "broken"
  /\ worker' = [Idle EXCEPT !.pc = "error"]
  /\ recvPending' = FALSE
  /\ UNCHANGED <<instance, status, handshake, network, funcRemoved, store, program,
                 history>>

\* DealCompletion asks the socket for its receive function first.
GetRecvFunction ==
  /\ worker.pc = "taken"
  /\ worker' = [worker EXCEPT !.pc = "deal", !.direct = setup.func /\ ~funcRemoved]
  /\ UNCHANGED <<instance, status, handshake, network, receiving, program, history>>

\* DealWithData and PacketDone; an exception counts as an error of the client.
DealWithData ==
  /\ worker.pc = "deal"
  /\ worker' = [worker EXCEPT !.pc = "next"]
  /\ \/ /\ worker.direct
        /\ got' = Append(got, worker.packet)
        /\ straddled' = (straddled \/ mainPC = "drain")
        /\ UNCHANGED <<store, status, dropped>>
     \/ /\ ~worker.direct
        /\ store' = Append(store, worker.packet)
        /\ UNCHANGED <<got, status, dropped, straddled>>
     \/ /\ ErrorOccurred
        /\ dropped' = TRUE
        /\ UNCHANGED <<got, store, straddled>>
  /\ UNCHANGED <<instance, handshake, network, recvPending, funcRemoved, program>>

\* DoRecv.
WorkerRecv ==
  /\ worker.pc = "next"
  /\ worker' = Idle
  /\ \/ /\ socket # "closed"
        /\ recvPending' = TRUE
        /\ UNCHANGED status
     \/ ErrorOccurred /\ UNCHANGED recvPending
  /\ UNCHANGED <<instance, handshake, network, funcRemoved, store, program, history>>

\* CompletionError decides first what has happened, and reports it afterwards.
CompletionError ==
  /\ worker.pc = "error"
  /\ worker' = [worker EXCEPT !.pc =
       IF status = "CONNECTING" /\ reset THEN "refused"
       ELSE IF ~setup.graceful \/ status # "CONNECTED" THEN "failed"
       ELSE "idle"]
  /\ UNCHANGED <<instance, status, handshake, network, receiving, program, history>>

ReportRefused ==
  /\ worker.pc = "refused"
  /\ status' = "REFUSED"
  /\ worker' = Idle
  /\ UNCHANGED <<instance, handshake, network, receiving, program, history>>

ReportError ==
  /\ worker.pc = "failed"
  /\ ErrorOccurred
  /\ worker' = Idle
  /\ UNCHANGED <<instance, handshake, network, receiving, program, history>>

\* Sends that fail and the UDP socket's receives end in ErrorOccurred, too.
OtherError ==
  /\ loaded /\ mainPC # "close"
  /\ ErrorOccurred
  /\ UNCHANGED <<instance, handshake, network, receiving, worker, program, history>>

(***************************************************************************)
(* The program thread.                                                     *)
(***************************************************************************)

\* Mutated form of Connect: the user's function stays on the socket.
ConnectFuncKept ==
  /\ mainPC = "idle" /\ ~loaded /\ connects < MaxConnects
  /\ loaded' = TRUE
  /\ status' = "CONNECTING"
  /\ funcRemoved' = FALSE
  /\ connects' = connects + 1
  /\ answer' = "none"
  /\ \/ hsPC' = "poll" /\ socket' = "connecting"
     \/ UNCHANGED <<hsPC, socket>>
  /\ UNCHANGED <<setup, destroy, exitCode, hsThrew, terminate, expired, datagram, reset,
                 wire, server, sent, recvPending, store, worker, mainPC, history>>

\* mn::Connect into a container without instance.  If the socket cannot even
\* begin to connect that throws, and the instance stays.
Connect ==
  /\ mainPC = "idle" /\ ~loaded /\ connects < MaxConnects
  /\ loaded' = TRUE
  /\ status' = "CONNECTING"
  /\ funcRemoved' = TRUE
  /\ connects' = connects + 1
  /\ answer' = "none"
  /\ \/ hsPC' = "poll" /\ socket' = "connecting"
     \/ UNCHANGED <<hsPC, socket>>
  /\ UNCHANGED <<setup, destroy, exitCode, hsThrew, terminate, expired, datagram, reset,
                 wire, server, sent, recvPending, store, worker, mainPC, history>>

\* PollConnect with the thread still running changes nothing; without thread it
\* throws.  After an exception in the thread it throws as well, and does not
\* request that the instance be destroyed.
PollConnect ==
  /\ mainPC = "idle" /\ loaded /\ hsPC = "exited"
  /\ hsPC' = "none"
  /\ \/ /\ exitCode = "TIMED_OUT"
        /\ destroy' = TRUE /\ answer' = "TIMED_OUT"
        /\ UNCHANGED <<status, mainPC>>
     \/ /\ exitCode = "CONNECTED"
        /\ answer' = "CONNECTED"
        /\ IF status = "CONNECTING"
           THEN status' = "CONNECTED" /\ mainPC' = "connected"
           ELSE UNCHANGED <<status, mainPC>>
        /\ UNCHANGED destroy
     \/ /\ exitCode = "CONNECTION_ERROR"
        /\ destroy' = (destroy \/ ~hsThrew)
        /\ answer' = IF status = "REFUSED" /\ ~hsThrew THEN "REFUSED"
                     ELSE "CONNECTION_ERROR"
        /\ UNCHANGED <<status, mainPC>>
  /\ UNCHANGED <<setup, loaded, exitCode, hsThrew, terminate, expired, datagram, network,
                 receiving, worker, connects, history>>

\* UndoRemoveRecvFunction, after the first receive of the UDP socket.
RestoreRecvFunction ==
  /\ mainPC = "connected"
  /\ funcRemoved' = FALSE
  /\ straddled' = (straddled \/ worker.pc = "deal")
  /\ mainPC' = IF ~setup.handshake THEN "recv" ELSE IF setup.func THEN "drain" ELSE "idle"
  /\ UNCHANGED <<instance, status, handshake, network, recvPending, store, worker, answer,
                 connects, got, dropped>>

\* Packets that came during the handshake are passed to the user's function.
PassOn ==
  /\ mainPC = "drain"
  /\ \/ /\ store # <<>>
        /\ got' = Append(got, Head(store))
        /\ store' = Tail(store)
        /\ UNCHANGED mainPC
     \/ /\ store = <<>>
        /\ mainPC' = "idle"
        /\ UNCHANGED <<got, store>>
  /\ UNCHANGED <<instance, status, handshake, network, recvPending, funcRemoved, worker,
                 answer, connects, dropped, straddled>>

\* Without handshake this is the first receive of the TCP socket.
FirstRecv ==
  /\ mainPC = "recv"
  /\ mainPC' = "idle"
  /\ \/ recvPending' = TRUE /\ UNCHANGED status
     \/ ErrorOccurred /\ UNCHANGED recvPending
  /\ UNCHANGED <<instance, handshake, network, funcRemoved, store, worker, answer,
                 connects, history>>

\* The program receives, once PollConnect has said that it is connected.
RecvTCP ==
  /\ mainPC = "idle" /\ loaded /\ answer = "CONNECTED" /\ store # <<>>
  /\ got' = Append(got, Head(store))
  /\ store' = Tail(store)
  /\ UNCHANGED <<instance, status, handshake, network, recvPending, funcRemoved, worker,
                 program, dropped, straddled>>

\* mn::ClientConnected: ClientConnected, then DealWithDestroyRequest.
ClientConnected ==
  /\ mainPC = "idle" /\ loaded
  /\ destroy \/ status = "DISCONNECTING"
  /\ destroy' = TRUE
  /\ mainPC' = "kill"
  /\ UNCHANGED <<setup, loaded, status, handshake, network, receiving, worker, answer,
                 connects, history>>

\* StopConnect, which deletes the handshake thread and leaves the rest to
\* ClientConnected, and Finish or DisconnectClient, which kill the instance.
StopConnect ==
  /\ mainPC = "idle" /\ loaded
  /\ mainPC' \in {"stop", "kill"}
  /\ UNCHANGED <<instance, status, handshake, network, receiving, worker, answer,
                 connects, history>>

\* delete handshakeThread: TerminateFriendly asks it to exit and waits for that.
TerminateThread ==
  /\ mainPC \in {"stop", "kill"} /\ hsPC \notin {"none", "exited"} /\ ~terminate
  /\ terminate' = TRUE
  /\ UNCHANGED <<instance, status, hsPC, exitCode, hsThrew, expired, datagram, network,
                 receiving, worker, program, history>>

DeleteThread ==
  /\ mainPC \in {"stop", "kill"} /\ hsPC \in {"none", "exited"}
  /\ hsPC' = "none"
  /\ \/ /\ mainPC = "stop"
        /\ mainPC' = "idle" /\ destroy' = TRUE
        /\ UNCHANGED <<socket, recvPending>>
     \/ /\ mainPC = "kill"
        /\ mainPC' = "close"
        /\ socket' = "closed" /\ recvPending' = FALSE
        /\ UNCHANGED destroy
  /\ UNCHANGED <<setup, loaded, status, exitCode, hsThrew, terminate, expired, datagram,
                 reset, wire, server, sent, funcRemoved, store, worker, answer, connects,
                 history>>

\* Close has waited for the worker that deals with data or an error; the
\* instance is deleted.  (A worker about to call DoRecv then uses freed memory,
\* as StartRecv of NetSocket shows; here it simply stops.)
DeleteInstance ==
  /\ mainPC = "close" /\ worker.pc \in {"idle", "next"}
  /\ mainPC' = "idle"
  /\ loaded' = FALSE /\ destroy' = FALSE /\ status' = "NOT_CONNECTED"
  /\ exitCode' = "STILL_ACTIVE" /\ hsThrew' = FALSE
  /\ terminate' = FALSE /\ expired' = FALSE /\ datagram' = FALSE
  /\ reset' = FALSE /\ wire' = <<>> /\ server' = "none" /\ sent' = 0
  /\ store' = <<>> /\ funcRemoved' = FALSE
  /\ worker' = Idle
  /\ answer' = "none"
  /\ got' = <<>> /\ dropped' = FALSE /\ straddled' = FALSE
  /\ UNCHANGED <<setup, hsPC, socket, recvPending, connects>>

-----------------------------------------------------------------------------
Server == ServerAccepts \/ ServerTells \/ ServerConfirms \/ ServerSends \/ ConnectionBreaks

HandshakeRuns ==
  HandshakePollConnect \/ HandshakeRecv \/ HandshakeWelcome \/ HandshakeConfirm

Worker ==
  \/ WorkerTakesPacket \/ WorkerTakesError \/ GetRecvFunction \/ DealWithData
  \/ WorkerRecv \/ CompletionError \/ ReportRefused \/ ReportError

\* What the program thread goes on with by itself, and the polling that a
\* program must do.
Polling == PollConnect \/ ClientConnected
InCall  == RestoreRecvFunction \/ PassOn \/ FirstRecv \/ TerminateThread \/ DeleteThread
           \/ DeleteInstance

Program == Connect \/ Polling \/ InCall \/ RecvTCP \/ StopConnect

Next == Server \/ TimerExpires \/ HandshakeRuns \/ HandshakeThrows \/ Worker \/ OtherError \/ Program

\* Threads that can run do, but nothing ever has to throw, and the program polls,
\* whatever else it calls in between: hence SF for ClientConnected.
Fairness ==
  /\ WF_vars(TimerExpires)
  /\ WF_vars(HandshakeRuns)
  /\ WF_vars(Worker)
  /\ WF_vars(InCall)
  /\ WF_vars(PollConnect) /\ SF_vars(ClientConnected)

Spec == Init /\ [][Next]_vars /\ Fairness

-----------------------------------------------------------------------------
(***************************************************************************)
(* Properties.                                                             *)
(***************************************************************************)

\* What the user is given is data, never a packet of the handshake.  It is all
\* the data in the order it was sent, and nothing is left in the store of a
\* client with a receive function, unless a worker dealt with a packet while
\* PollConnect gave the function back (RemoveRecvFunction, PollConnect).
UserGetsTheData ==
  /\ \A k \in DOMAIN got : got[k].what = "data"
  /\ (~straddled /\ ~dropped) => \A k \in DOMAIN got : got[k].n = k
  /\ (setup.func /\ ~straddled /\ status = "CONNECTED" /\ mainPC = "idle") => store = <<>>

\* PollConnect answers CONNECTED only if the server counts the client as joined:
\* both ends agree on how the handshake ended (ThreadHandshakeRoutine).
ConnectedIsMutual == answer = "CONNECTED" => server = "joined"

\* A connection attempt comes to an end, whatever the server and the workers do
\* (HelperHandshakeStatus in every loop of ThreadHandshakeRoutine).
AttemptEnds == (hsPC # "none") ~> (hsPC = "none")

\* When the connection of a client that was told CONNECTED breaks, the instance is
\* destroyed, provided that the program polls it; a client that PollConnect
\* called connected and a worker then called refused is not
\* (CompletionError, ErrorOccurred, ClientConnected).
LostIsDestroyed ==
  (answer = "CONNECTED" /\ socket = "broken" /\ ~setup.graceful)
    ~> (~loaded \/ status = "REFUSED")
=============================================================================
