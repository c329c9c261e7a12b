------------------------------- MODULE NetSocket -------------------------------
(***************************************************************************)
(* The life of one connected stand-alone socket (NetSocket, as NetSocketTCP*)
(* or NetSocketUDP), shared by                                             *)
(*   - the program thread that owns it: it starts the first receive, polls *)
(*     for a close request and closes the socket;                          *)
(*   - program threads that send on it, blocking or not;                   *)
(*   - the worker threads of the completion port                           *)
(*     (NetManageCompletionPort), which clean up sends and deal with       *)
(*     received data;                                                      *)
(*   - winsock (external), which completes overlapped operations, signals  *)
(*     their events and queues completion packets.                         *)
(* The owner closes the socket only while no thread is inside Send; that is*)
(* the program's side of the bargain.  The bytes are left out.             *)
(***************************************************************************)
EXTENDS Sequences, Naturals, FiniteSets

CONSTANTS
    Workers,      \* threads of the completion port
    Callers,      \* threads that send
    Sends,        \* NetSend objects, each used for one send operation
    TimedSends,   \* those sent with a finite timeout; INFINITE is the default
    Protocols,    \* subset of {"TCP", "UDP"}
    SendMemoryLimit,  \* of sendCleanupSize, every send having size 1
    None,         \* no thread, no send
    RecvOp        \* the receive operation (recvOverlapped)

ASSUME ConstantsAssumption ==
    /\ TimedSends \subseteq Sends
    /\ Protocols \subseteq {"TCP", "UDP"}
    /\ SendMemoryLimit \in Nat
    /\ Workers \cap Callers = {}
    /\ None \notin Workers \cup Callers \cup Sends
    /\ RecvOp \notin Sends

VARIABLES
    protocol,     \* GetProtocol
    handle,       \* winsockSocket: "open" or "closed" (INVALID_SOCKET)
    recvOp,       \* the winsock receive: "none" or "pending"
    recvEvent,    \* recvOverlappedEvent is signaled
    notDealing,   \* notDealingWithData is signaled
    closeRequest, \* completionPortCloseNotification is signaled
    sendOp,       \* the winsock sends: "none", "pending", "ok", "error", "aborted"
    port,         \* the packets queued at the completion port
    sendCleanup,  \* the sends in the send cleanup vector
    sendCleanupSize,  \* memory they use, the blocking ones not counted
    listLock,     \* holder of sendCleanup's critical section
    sendLock,     \* holder of each send's critical section
    life,         \* of each NetSend: "unborn", "live", "freed"
    block,        \* NetSend::block
    result,       \* what Send returned for each send
    callerPC,     \* where each sending thread is
    callerSend,   \* and the send it works on
    workerPC,     \* where each worker is
    packet,       \* and the packet it took
    ownerPC       \* where the owner is

kernelVars == <<recvOp, recvEvent, sendOp, port>>
sendVars == <<sendCleanup, sendCleanupSize, listLock, sendLock, life, block, result>>
callerVars == <<callerPC, callerSend>>
workerVars == <<workerPC, packet>>
vars == <<protocol, handle, notDealing, closeRequest, kernelVars, sendVars,
          callerVars, workerVars, ownerPC>>

\* Completion packets: status is "ok", "error" or "aborted".
NoPacket == [op |-> RecvOp, status |-> "ok"]

\* A connected socket whose first receive has not been started.
Init ==
    /\ protocol \in Protocols
    /\ handle = "open"
    /\ recvOp = "none"
    /\ recvEvent = TRUE
    /\ notDealing = TRUE
    /\ closeRequest = FALSE
    /\ sendOp = [s \in Sends |-> "none"]
    /\ port = <<>>
    /\ sendCleanup = {}
    /\ sendCleanupSize = 0
    /\ listLock = None
    /\ sendLock = [s \in Sends |-> None]
    /\ life = [s \in Sends |-> "unborn"]
    /\ block = [s \in Sends |-> FALSE]
    /\ result = [s \in Sends |-> "none"]
    /\ callerPC = [c \in Callers |-> "idle"]
    /\ callerSend = [c \in Callers |-> None]
    /\ workerPC = [w \in Workers |-> "idle"]
    /\ packet = [w \in Workers |-> NoPacket]
    /\ ownerPC = "setup"

-------------------------------------------------------------------------------
\* Where a thread goes next.  Back at its start it holds no packet and no send.
WorkerGoto(w, pc) ==
    /\ workerPC' = [workerPC EXCEPT ![w] = pc]
    /\ packet' = [packet EXCEPT ![w] = IF pc = "idle" THEN NoPacket ELSE @]

CallerGoto(c, pc) ==
    /\ callerPC' = [callerPC EXCEPT ![c] = pc]
    /\ callerSend' = [callerSend EXCEPT ![c] = IF pc = "idle" THEN None ELSE @]

-------------------------------------------------------------------------------
(* Winsock and the kernel (external) *)

\* A pending operation ends: its event is signaled and a packet is queued.  A
\* closed socket cancels what is pending, unless it ends on its own first.
CompleteRecv ==
    /\ recvOp = "pending"
    /\ \E status \in IF handle = "open" THEN {"ok", "error"} ELSE {"ok", "aborted"} :
           port' = Append(port, [op |-> RecvOp, status |-> status])
    /\ recvOp' = "none"
    /\ recvEvent' = TRUE
    /\ UNCHANGED <<protocol, handle, notDealing, closeRequest, sendOp, sendVars,
                   callerVars, workerVars, ownerPC>>

CompleteSend(s) ==
    /\ sendOp[s] = "pending"
    /\ \E status \in IF handle = "open" THEN {"ok", "error"} ELSE {"ok", "aborted"} :
           /\ port' = Append(port, [op |-> s, status |-> status])
           /\ sendOp' = [sendOp EXCEPT ![s] = status]
    /\ UNCHANGED <<protocol, handle, notDealing, closeRequest, recvOp, recvEvent,
                   sendVars, callerVars, workerVars, ownerPC>>

\* WSARecv: the receive is pending (its event reset), or it could not be
\* started.  On a closed socket it always fails.
WSARecv(started) ==
    /\ started => handle = "open"
    /\ recvOp' = IF started THEN "pending" ELSE recvOp
    /\ recvEvent' = (recvEvent /\ ~started)

-------------------------------------------------------------------------------
(* Cleaning up sends: by a worker, or by a caller whose send failed *)

\* FindSend, under the lock of the vector, which RemoveSend keeps until the send
\* is erased.
FindSend(thread, s) ==
    /\ listLock = None
    /\ listLock' = IF s \in sendCleanup THEN thread ELSE None

\* RemoveSend of an element that was found: wait for the thread that still uses
\* the send object, then erase and deallocate it.
RemoveSend(thread, s) ==
    /\ listLock = thread
    /\ sendLock[s] = None
    /\ sendCleanup' = sendCleanup \ {s}
    /\ sendCleanupSize' = IF block[s] THEN sendCleanupSize ELSE sendCleanupSize - 1
    /\ life' = [life EXCEPT ![s] = "freed"]
    /\ listLock' = None

-------------------------------------------------------------------------------
(* NetSocket::Send, by thread c *)

\* The send object is built and its critical section entered.
BeginSend(c) ==
    /\ callerPC[c] = "idle"
    /\ ownerPC \in {"setup", "open", "polled", "polledTrue"}
    /\ \E s \in Sends, b \in BOOLEAN :
           /\ life[s] = "unborn"
           /\ life' = [life EXCEPT ![s] = "live"]
           /\ block' = [block EXCEPT ![s] = b]
           /\ sendLock' = [sendLock EXCEPT ![s] = c]
           /\ callerSend' = [callerSend EXCEPT ![c] = s]
    /\ callerPC' = [callerPC EXCEPT ![c] = "add"]
    /\ UNCHANGED <<protocol, handle, notDealing, closeRequest, kernelVars,
                   sendCleanup, sendCleanupSize, listLock, result, workerVars,
                   ownerPC>>

MemoryExceeded(s) == ~block[s] /\ sendCleanupSize + 1 > SendMemoryLimit

\* AddSend puts the send in the vector before winsock can complete it ...
AddSend(c) ==
    LET s == callerSend[c] IN
    /\ callerPC[c] = "add"
    /\ ~MemoryExceeded(s)
    /\ listLock = None
    /\ sendCleanup' = sendCleanup \cup {s}
    /\ sendCleanupSize' = IF block[s] THEN sendCleanupSize ELSE sendCleanupSize + 1
    /\ CallerGoto(c, "wsaSend")
    /\ UNCHANGED <<protocol, handle, notDealing, closeRequest, kernelVars,
                   listLock, sendLock, life, block, result, workerVars,
                   ownerPC>>

\* ... or throws when it would use too much memory: the send is deleted.
AddSendThrows(c) ==
    LET s == callerSend[c] IN
    /\ callerPC[c] = "add"
    /\ MemoryExceeded(s)
    /\ sendLock' = [sendLock EXCEPT ![s] = None]
    /\ life' = [life EXCEPT ![s] = "freed"]
    /\ result' = [result EXCEPT ![s] = "memory"]
    /\ CallerGoto(c, "idle")
    /\ UNCHANGED <<protocol, handle, notDealing, closeRequest, kernelVars,
                   sendCleanup, sendCleanupSize, listLock, block, workerVars,
                   ownerPC>>

\* WSASend fails, ends at once (which queues a packet too) or is pending, in
\* which case a blocking send waits.
WSASend(c) ==
    LET s == callerSend[c] IN
    /\ callerPC[c] = "wsaSend"
    /\ \/ /\ result' = [result EXCEPT ![s] = "failed"]
          /\ CallerGoto(c, "leave")
          /\ UNCHANGED <<sendOp, port>>
       \/ /\ result' = [result EXCEPT ![s] = "completed"]
          /\ sendOp' = [sendOp EXCEPT ![s] = "ok"]
          /\ port' = Append(port, [op |-> s, status |-> "ok"])
          /\ CallerGoto(c, "leave")
       \/ /\ result' = [result EXCEPT ![s] = IF block[s] THEN "none" ELSE "inProgress"]
          /\ sendOp' = [sendOp EXCEPT ![s] = "pending"]
          /\ port' = port
          /\ CallerGoto(c, IF block[s] THEN "wait" ELSE "leave")
    /\ UNCHANGED <<protocol, handle, notDealing, closeRequest, recvOp, recvEvent,
                   sendCleanup, sendCleanupSize, listLock, sendLock, life,
                   block, workerVars, ownerPC>>

\* _WaitForCompletion: until the event of the operation is signaled, or the
\* timeout passes first.
WaitForCompletion(c) ==
    LET s == callerSend[c] IN
    /\ callerPC[c] = "wait"
    /\ \/ /\ sendOp[s] # "pending"
          /\ result' = [result EXCEPT ![s] = "completed"]
       \/ /\ sendOp[s] = "pending"
          /\ s \in TimedSends
          /\ result' = [result EXCEPT ![s] = "kill"]
    /\ CallerGoto(c, "leave")
    /\ UNCHANGED <<protocol, handle, notDealing, closeRequest, kernelVars,
                   sendCleanup, sendCleanupSize, listLock, sendLock, life,
                   block, workerVars, ownerPC>>

\* Mutated form of LeaveSend: a send in progress is removed here too.
LeaveSendAnyRemoved(c) ==
    LET s == callerSend[c] IN
    /\ callerPC[c] = "leave"
    /\ sendLock' = [sendLock EXCEPT ![s] = None]
    /\ CallerGoto(c, "findSend")
    /\ UNCHANGED <<protocol, handle, notDealing, closeRequest, kernelVars,
                   sendCleanup, sendCleanupSize, listLock, life, block, result,
                   workerVars, ownerPC>>

\* Leave the send object's critical section.  A send that failed is removed
\* here, any other by the completion port.
LeaveSend(c) ==
    LET s == callerSend[c] IN
    /\ callerPC[c] = "leave"
    /\ sendLock' = [sendLock EXCEPT ![s] = None]
    /\ CallerGoto(c, IF result[s] \in {"failed", "kill"} THEN "findSend" ELSE "idle")
    /\ UNCHANGED <<protocol, handle, notDealing, closeRequest, kernelVars,
                   sendCleanup, sendCleanupSize, listLock, life, block, result,
                   workerVars, ownerPC>>

CallerFindSend(c) ==
    /\ callerPC[c] = "findSend"
    /\ FindSend(c, callerSend[c])
    /\ CallerGoto(c, IF callerSend[c] \in sendCleanup THEN "eraseSend" ELSE "idle")
    /\ UNCHANGED <<protocol, handle, notDealing, closeRequest, kernelVars,
                   sendCleanup, sendCleanupSize, sendLock, life, block, result,
                   workerVars, ownerPC>>

CallerRemoveSend(c) ==
    /\ callerPC[c] = "eraseSend"
    /\ RemoveSend(c, callerSend[c])
    /\ CallerGoto(c, "idle")
    /\ UNCHANGED <<protocol, handle, notDealing, closeRequest, kernelVars,
                   sendLock, block, result, workerVars, ownerPC>>

-------------------------------------------------------------------------------
(* NetManageCompletionPort, the branch of a socket no instance owns *)

\* Mutated form of the worker's loop: the next receive is started before the
\* data of the last one is dealt with.
GetCompletionStatusRecvFirst(w) ==
    /\ workerPC[w] = "idle"
    /\ port # <<>>
    /\ packet' = [packet EXCEPT ![w] = Head(port)]
    /\ port' = Tail(port)
    /\ workerPC' = [workerPC EXCEPT ![w] =
                       IF Head(port).op # RecvOp THEN "findSend"
                       ELSE CASE Head(port).status = "ok" -> "deal"
                              [] Head(port).status = "error" -> "requestClose"
                              [] Head(port).status = "aborted" -> "finish"]
    /\ IF Head(port) = [op |-> RecvOp, status |-> "ok"]
       THEN WSARecv(handle = "open") ELSE UNCHANGED <<recvOp, recvEvent>>
    /\ UNCHANGED <<protocol, handle, notDealing, closeRequest, sendOp, sendVars,
                   callerVars, ownerPC>>

\* Take a packet: data to deal with, a receive that failed or was cancelled by
\* Close (shuttingDown), or the end of a send.
GetCompletionStatus(w) ==
    /\ workerPC[w] = "idle"
    /\ port # <<>>
    /\ packet' = [packet EXCEPT ![w] = Head(port)]
    /\ port' = Tail(port)
    /\ workerPC' = [workerPC EXCEPT ![w] =
                       IF Head(port).op # RecvOp THEN "findSend"
                       ELSE CASE Head(port).status = "ok" -> "deal"
                              [] Head(port).status = "error" -> "requestClose"
                              [] Head(port).status = "aborted" -> "finish"]
    /\ UNCHANGED <<protocol, handle, notDealing, closeRequest, recvOp, recvEvent,
                   sendOp, sendVars, callerVars, ownerPC>>

\* CompletionPortRequestClose
CompletionPortRequestClose(w) ==
    /\ workerPC[w] = "requestClose"
    /\ closeRequest' = TRUE
    /\ WorkerGoto(w, IF packet[w].op = RecvOp /\ packet[w].status = "error"
                     THEN "finish" ELSE "idle")
    /\ UNCHANGED <<protocol, handle, notDealing, kernelVars, sendVars,
                   callerVars, ownerPC>>

\* Mutated form of DealWithData: an exception leaves notDealingWithData unset.
DealWithDataThrowUnsignaled(w) ==
    /\ workerPC[w] = "deal"
    /\ \E next \in {"finish", "requestClose"} :
           /\ WorkerGoto(w, next)
           /\ notDealing' = (notDealing \/ next = "finish")
    /\ UNCHANGED <<protocol, handle, closeRequest, kernelVars, sendVars,
                   callerVars, ownerPC>>

\* DealWithData of the socket: it signals that the data has been dealt with
\* also when the receive function or the protocol threw.
DealWithData(w) ==
    /\ workerPC[w] = "deal"
    /\ notDealing' = TRUE
    /\ \E next \in {"finish", "requestClose"} :
           WorkerGoto(w, next)
    /\ UNCHANGED <<protocol, handle, closeRequest, kernelVars, sendVars,
                   callerVars, ownerPC>>

\* SetCompletionPortFinishRecvNotification
SetFinishRecv(w) ==
    /\ workerPC[w] = "finish"
    /\ notDealing' = TRUE
    /\ WorkerGoto(w, CASE packet[w].status = "ok" -> "recv"
                       [] packet[w].status = "error" -> "protocol"
                       [] packet[w].status = "aborted" -> "idle")
    /\ UNCHANGED <<protocol, handle, closeRequest, kernelVars, sendVars,
                   callerVars, ownerPC>>

\* A failed UDP receive is not the end: receive again.
CheckProtocol(w) ==
    /\ workerPC[w] = "protocol"
    /\ WorkerGoto(w, IF protocol = "UDP" THEN "recv" ELSE "idle")
    /\ UNCHANGED <<protocol, handle, notDealing, closeRequest, kernelVars,
                   sendVars, callerVars, ownerPC>>

\* Recv: clear the overlapped object, announce that data will be dealt with ...
BeginRecv(w) ==
    /\ workerPC[w] = "recv"
    /\ notDealing' = FALSE
    /\ WorkerGoto(w, "wsaRecv")
    /\ UNCHANGED <<protocol, handle, closeRequest, kernelVars, sendVars,
                   callerVars, ownerPC>>

\* ... start the operation; its completion comes through the port ...
StartRecv(w) ==
    /\ workerPC[w] = "wsaRecv"
    /\ WSARecv(TRUE)
    /\ WorkerGoto(w, "idle")
    /\ UNCHANGED <<protocol, handle, notDealing, closeRequest, sendOp, port,
                   sendVars, callerVars, ownerPC>>

\* ... or, as nothing will complete, go on to signal both events by hand.
\* After data was received the caller of Recv asks for the socket to be closed,
\* unless it already is (WSAENOTSOCK).
StartRecvFails(w) ==
    /\ workerPC[w] = "wsaRecv"
    /\ WSARecv(FALSE)
    /\ WorkerGoto(w, IF handle = "open" /\ packet[w].status = "ok"
                     THEN "recvFailed" ELSE "recvRefused")
    /\ UNCHANGED <<protocol, handle, notDealing, closeRequest, sendOp, port,
                   sendVars, callerVars, ownerPC>>

SignalRecvFailed(w) ==
    /\ workerPC[w] \in {"recvFailed", "recvRefused"}
    /\ recvEvent' = TRUE
    /\ notDealing' = TRUE
    /\ WorkerGoto(w, IF workerPC[w] = "recvFailed" THEN "requestClose" ELSE "idle")
    /\ UNCHANGED <<protocol, handle, closeRequest, recvOp, sendOp, port,
                   sendVars, callerVars, ownerPC>>

\* Mutated form of CompletedSendOperation: a send that failed is not removed.
WorkerFindSendOkOnly(w) ==
    /\ workerPC[w] = "findSend"
    /\ FindSend(w, IF packet[w].status = "ok" THEN packet[w].op ELSE None)
    /\ WorkerGoto(w, IF packet[w].status = "ok" /\ packet[w].op \in sendCleanup
                     THEN "eraseSend" ELSE "idle")
    /\ UNCHANGED <<protocol, handle, notDealing, closeRequest, kernelVars,
                   sendCleanup, sendCleanupSize, sendLock, life, block, result,
                   callerVars, ownerPC>>

\* CompletedSendOperation: remove the send; a failure asks for the socket to be
\* closed, unless the packet is a stray or Close cancelled the send.
WorkerFindSend(w) ==
    /\ workerPC[w] = "findSend"
    /\ FindSend(w, packet[w].op)
    /\ WorkerGoto(w, IF packet[w].op \in sendCleanup THEN "eraseSend" ELSE "idle")
    /\ UNCHANGED <<protocol, handle, notDealing, closeRequest, kernelVars,
                   sendCleanup, sendCleanupSize, sendLock, life, block, result,
                   callerVars, ownerPC>>

WorkerRemoveSend(w) ==
    /\ workerPC[w] = "eraseSend"
    /\ RemoveSend(w, packet[w].op)
    /\ WorkerGoto(w, IF packet[w].status = "error" THEN "requestClose" ELSE "idle")
    /\ UNCHANGED <<protocol, handle, notDealing, closeRequest, kernelVars,
                   sendLock, block, result, callerVars, ownerPC>>

-------------------------------------------------------------------------------
(* The owner *)

\* The first receive, started by the owner itself.
FirstRecv ==
    /\ ownerPC = "setup"
    /\ ownerPC' = "open"
    /\ \E started \in BOOLEAN :
           /\ WSARecv(started)
           /\ notDealing' = ~started
    /\ UNCHANGED <<protocol, handle, closeRequest, sendOp, port, sendVars,
                   callerVars, workerVars>>

\* GetCompletionPortCloseRequest: read the notification, then reset it.
ReadCloseRequest ==
    /\ ownerPC = "open"
    /\ ownerPC' = IF closeRequest THEN "polledTrue" ELSE "polled"
    /\ UNCHANGED <<protocol, handle, notDealing, closeRequest, kernelVars,
                   sendVars, callerVars, workerVars>>

ResetCloseRequest ==
    /\ ownerPC \in {"polled", "polledTrue"}
    /\ ownerPC' = "open"
    /\ closeRequest' = FALSE
    /\ UNCHANGED <<protocol, handle, notDealing, kernelVars, sendVars,
                   callerVars, workerVars>>

\* Close: closesocket starts to cancel what is pending ...
CloseSocket ==
    /\ ownerPC = "open"
    /\ \A c \in Callers : callerPC[c] = "idle"
    /\ handle' = "closed"
    /\ ownerPC' = "waitRecv"
    /\ UNCHANGED <<protocol, notDealing, closeRequest, kernelVars, sendVars,
                   callerVars, workerVars>>

\* ... wait for the receive to complete ...
WaitRecvCompleted ==
    /\ ownerPC = "waitRecv"
    /\ recvEvent
    /\ ownerPC' = "waitSends"
    /\ UNCHANGED <<protocol, handle, notDealing, closeRequest, kernelVars,
                   sendVars, callerVars, workerVars>>

\* ... for the sends to be cleaned up ...
WaitSendsCleanedUp ==
    /\ ownerPC = "waitSends"
    /\ listLock = None
    /\ sendCleanup = {}
    /\ ownerPC' = "waitDealt"
    /\ UNCHANGED <<protocol, handle, notDealing, closeRequest, kernelVars,
                   sendVars, callerVars, workerVars>>

\* Mutated form of Close: it does not wait for the data to be dealt with.
WaitDealtSkipped ==
    /\ ownerPC = "waitDealt"
    /\ ownerPC' = "closed"
    /\ closeRequest' = FALSE
    /\ notDealing' = TRUE
    /\ UNCHANGED <<protocol, handle, kernelVars, sendVars, callerVars,
                   workerVars>>

\* ... and for the last data to be dealt with.  DefaultVariables then resets the
\* flags; its ClearSend finds no send left.
WaitDataDealtWith ==
    /\ ownerPC = "waitDealt"
    /\ notDealing
    /\ ownerPC' = "closed"
    /\ closeRequest' = FALSE
    /\ notDealing' = TRUE
    /\ UNCHANGED <<protocol, handle, kernelVars, sendVars, callerVars,
                   workerVars>>

-------------------------------------------------------------------------------
WinsockStep == CompleteRecv \/ \E s \in Sends : CompleteSend(s)

SendSteps(c) ==
    \/ AddSend(c)
    \/ AddSendThrows(c)
    \/ WSASend(c)
    \/ WaitForCompletion(c)
    \/ LeaveSend(c)
    \/ CallerFindSend(c)
    \/ CallerRemoveSend(c)

WorkerSteps(w) ==
    \/ GetCompletionStatus(w)
    \/ CompletionPortRequestClose(w)
    \/ DealWithData(w)
    \/ SetFinishRecv(w)
    \/ CheckProtocol(w)
    \/ BeginRecv(w)
    \/ StartRecv(w)
    \/ StartRecvFails(w)
    \/ SignalRecvFailed(w)
    \/ WorkerFindSend(w)
    \/ WorkerRemoveSend(w)

CloseSteps ==
    \/ WaitRecvCompleted
    \/ WaitSendsCleanedUp
    \/ WaitDataDealtWith

Next ==
    \/ WinsockStep
    \/ \E c \in Callers : BeginSend(c) \/ SendSteps(c)
    \/ \E w \in Workers : WorkerSteps(w)
    \/ FirstRecv
    \/ ReadCloseRequest
    \/ ResetCloseRequest
    \/ CloseSocket
    \/ CloseSteps

Spec == Init /\ [][Next]_vars

\* Every thread is scheduled, a receive function returns, and winsock ends what
\* a closed socket left pending.  Nothing is assumed of operations on an open
\* socket: the peer may never read and never write.
Fairness ==
    /\ \A c \in Callers : WF_vars(SendSteps(c))
    /\ \A w \in Workers : WF_vars(WorkerSteps(w))
    /\ WF_vars(CloseSteps)
    /\ WF_vars(handle = "closed" /\ CompleteRecv)
    /\ \A s \in Sends : WF_vars(handle = "closed" /\ CompleteSend(s))

FairSpec == Spec /\ Fairness

-------------------------------------------------------------------------------
(* Properties *)

\* The receive buffer belongs to one party at a time: while a worker deals with
\* data, no second worker does and winsock cannot write into the buffer ("MUST do
\* before starting new receive operation", NetCompletionPortFunction).
RecvBufferNotShared ==
    \A w \in Workers : workerPC[w] = "deal" =>
        /\ recvOp = "none"
        /\ \A v \in Workers \ {w} : workerPC[v] # "deal"

\* A send object outlives its operation: neither winsock (which writes into the
\* overlapped object) is left with freed memory, for sends with the default,
\* infinite timeout; nor the thread inside Send, whatever timed out.  The memory
\* accounted for is that of the asynchronous sends in the vector, and within the
\* limit.
SendOutlivesOperation ==
    /\ \A s \in Sends \ TimedSends : life[s] = "freed" =>
          /\ sendOp[s] # "pending"
          /\ sendLock[s] = None
    /\ \A c \in Callers : callerPC[c] \in {"add", "wsaSend", "wait", "leave"} =>
          life[callerSend[c]] = "live"
    /\ sendCleanupSize = Cardinality({s \in sendCleanup : ~block[s]})
    /\ sendCleanupSize <= SendMemoryLimit

\* What Close promises: when it returns, no operation of the socket is pending,
\* no packet of it is queued, no send is left and no data is being dealt with.
\* A send that timed out is excepted: the vector has forgotten it.
CloseLeavesNothingBehind ==
    ownerPC = "closed" =>
        /\ recvOp = "none"
        /\ sendCleanup = {}
        /\ \A s \in Sends : sendOp[s] = "pending" => result[s] = "kill"
        /\ \A n \in 1..Len(port) : port[n].op \in Sends /\ result[port[n].op] = "kill"
        /\ \A w \in Workers : workerPC[w] # "deal"

\* Close comes back, whatever it found pending or being dealt with.
CloseCompletes == ownerPC = "waitRecv" ~> ownerPC = "closed"

\* A send whose operation ended is cleaned up, also while its thread waits for it
\* with the send's critical section held, and one that could not be started is
\* cleaned up by the thread that sent it.
EndedSendFreed ==
    \A s \in Sends :
        \/ life[s] = "live" /\ sendOp[s] \notin {"none", "pending"}
        \/ result[s] = "failed"
        ~> life[s] = "freed"
===============================================================================
