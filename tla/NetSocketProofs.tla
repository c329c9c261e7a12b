---------------------------- MODULE NetSocketProofs ----------------------------
(***************************************************************************)
(* Theorems about NetSocket for any number of worker threads, sending      *)
(* threads and sends, its three safety invariants, and about TcpFraming,   *)
(* that packets come out of the stream as they were sent and that the      *)
(* memory they take is counted and limited.                                *)
(*                                                                         *)
(* None is inductive.  Who may use the receive buffer rests on there being *)
(* one packet for each operation, wherever it is; that a send may be       *)
(* deleted rests on its critical section; that Close leaves nothing        *)
(* behind, on what each of its waits excludes from then on; and the        *)
(* framing, on what the unread bytes and those on the way begin with.      *)
(***************************************************************************)
EXTENDS NetSocket, TcpFraming, FiniteSetTheorems, SequenceTheorems, WellFoundedInduction, TLAPS

Operations == Sends \cup {RecvOp}
Statuses == {"ok", "error", "aborted"}
Packet == [op : Operations, status : Statuses]

RecvPlaces == {"deal", "finish", "protocol", "recv", "wsaRecv", "recvFailed", "recvRefused"}
SendPlaces == {"findSend", "eraseSend"}
WorkerPlaces == RecvPlaces \cup SendPlaces \cup {"idle", "requestClose"}
LockedPlaces == {"add", "wsaSend", "wait", "leave"}
CallerPlaces == LockedPlaces \cup {"idle", "findSend", "eraseSend"}
BeforeClose == {"setup", "open", "polled", "polledTrue"}
Closing == {"waitRecv", "waitSends", "waitDealt", "closed"}
Results == {"none", "memory", "failed", "completed", "inProgress", "kill"}

\* The types of the variables.
TypeOK ==
    /\ protocol \in {"TCP", "UDP"}
    /\ handle \in {"open", "closed"}
    /\ recvOp \in {"none", "pending"}
    /\ recvEvent \in BOOLEAN
    /\ notDealing \in BOOLEAN
    /\ closeRequest \in BOOLEAN
    /\ sendOp \in [Sends -> {"none", "pending"} \cup Statuses]
    /\ port \in Seq(Packet)
    /\ sendCleanup \in SUBSET Sends
    /\ sendCleanupSize \in Int
    /\ listLock \in Workers \cup Callers \cup {None}
    /\ sendLock \in [Sends -> Callers \cup {None}]
    /\ life \in [Sends -> {"unborn", "live", "freed"}]
    /\ block \in [Sends -> BOOLEAN]
    /\ result \in [Sends -> Results]
    /\ callerPC \in [Callers -> CallerPlaces]
    /\ callerSend \in [Callers -> Sends \cup {None}]
    /\ workerPC \in [Workers -> WorkerPlaces]
    /\ packet \in [Workers -> Packet]
    /\ ownerPC \in BeforeClose \cup Closing

\* An operation that is under way, or has not begun, has no packet.
NoPacketYet(op) ==
    IF op = RecvOp THEN recvOp = "pending" \/ ownerPC = "setup"
                   ELSE sendOp[op] \in {"none", "pending"}

HasPacket(w) == workerPC[w] # "idle"

\* There is one packet at most for each operation, at the port or in a worker's
\* hand, and none before the operation has ended.
PacketsOnce ==
    /\ \A m, n \in 1..Len(port) : port[m].op = port[n].op => m = n
    /\ \A w \in Workers : HasPacket(w) =>
          \A n \in 1..Len(port) : port[n].op # packet[w].op
    /\ \A v, w \in Workers : HasPacket(v) /\ HasPacket(w) /\ packet[v].op = packet[w].op => v = w
    /\ \A n \in 1..Len(port) : ~NoPacketYet(port[n].op)
    /\ \A w \in Workers : HasPacket(w) => ~NoPacketYet(packet[w].op)

\* What a worker does fits the packet it has.
PacketFits ==
    \A w \in Workers :
        /\ workerPC[w] \in RecvPlaces => packet[w].op = RecvOp
        /\ workerPC[w] \in SendPlaces => packet[w].op \in Sends

\* From the start of a receive until its data has been dealt with, the event that
\* Close waits for last is not signaled; nor is the receive's own event while
\* winsock works on it.
DealingAnnounced ==
    /\ recvOp = "pending" => ~notDealing /\ ~recvEvent
    /\ \A n \in 1..Len(port) : port[n].op = RecvOp => ~notDealing
    /\ \A w \in Workers : workerPC[w] \in {"deal", "wsaRecv"} => ~notDealing

\* A thread inside Send holds the critical section of its send, which is alive and,
\* from AddSend on, in the vector; it has not begun the operation before WSASend, and
\* has no result before it leaves.
SendHeld ==
    /\ \A c \in Callers :
        LET s == callerSend[c] IN
        /\ callerPC[c] # "idle" => s \in Sends
        /\ callerPC[c] \in LockedPlaces => sendLock[s] = c /\ life[s] = "live"
        /\ callerPC[c] = "add" => s \notin sendCleanup
        /\ callerPC[c] \in LockedPlaces \ {"add"} => s \in sendCleanup
        /\ callerPC[c] \in {"add", "wsaSend"} => sendOp[s] = "none"
        /\ callerPC[c] \in {"add", "wsaSend", "wait"} => result[s] = "none"
        /\ callerPC[c] \in {"findSend", "eraseSend"} => result[s] \in {"failed", "kill"}
    /\ \A s \in Sends : life[s] = "unborn" =>
          sendOp[s] = "none" /\ sendLock[s] = None /\ result[s] = "none"

\* What the vector holds is alive, and whoever is about to erase a send holds the
\* vector's critical section.
EraseHeld ==
    /\ \A s \in sendCleanup : life[s] = "live"
    /\ \A w \in Workers : workerPC[w] = "eraseSend" =>
          listLock = w /\ packet[w].op \in sendCleanup
    /\ \A c \in Callers : callerPC[c] = "eraseSend" =>
          listLock = c /\ callerSend[c] \in sendCleanup

\* The memory accounted for is that of the asynchronous sends in the vector.
Counted ==
    /\ IsFiniteSet(sendCleanup)
    /\ sendCleanupSize = Cardinality({s \in sendCleanup : ~block[s]})
    /\ sendCleanupSize <= SendMemoryLimit

\* A send that winsock works on, or whose packet waits, is in the vector unless it
\* timed out, which only those with a timeout do; one that failed was not begun.
SendRemembered ==
    /\ \A s \in Sends : sendOp[s] = "pending" => s \in sendCleanup \/ result[s] = "kill"
    /\ \A n \in 1..Len(port) : port[n].op \in Sends =>
          port[n].op \in sendCleanup \/ result[port[n].op] = "kill"
    /\ \A s \in Sends : result[s] = "kill" => s \in TimedSends
    /\ \A s \in Sends : result[s] = "failed" => sendOp[s] = "none"

\* A deleted send is not in use.
FreedUnused ==
    \A s \in Sends : life[s] = "freed" =>
        /\ sendLock[s] = None
        /\ sendOp[s] = "pending" => s \in TimedSends

\* What each step of Close has seen stays so.
CloseExcludes ==
    /\ handle = "open" <=> ownerPC \in BeforeClose
    /\ ownerPC = "setup" => recvOp = "none"
    /\ ownerPC \in Closing => \A c \in Callers : callerPC[c] = "idle"
    /\ ownerPC \in {"waitSends", "waitDealt", "closed"} => recvOp = "none"
    /\ ownerPC \in {"waitDealt", "closed"} => sendCleanup = {}
    /\ ownerPC = "closed" =>
          /\ \A n \in 1..Len(port) : port[n].op # RecvOp
          /\ \A w \in Workers : workerPC[w] # "deal"

IInv ==
    /\ TypeOK
    /\ PacketsOnce
    /\ PacketFits
    /\ DealingAnnounced
    /\ SendHeld
    /\ EraseHeld
    /\ Counted
    /\ SendRemembered
    /\ FreedUnused
    /\ CloseExcludes

-------------------------------------------------------------------------------
(* Lemmas about the port, the memory count and who has what *)

\* What Append leaves in the port.
LEMMA Queued ==
  ASSUME TypeOK, NEW op \in Operations, NEW status \in Statuses,
         port' = Append(port, [op |-> op, status |-> status])
  PROVE  /\ port' \in Seq(Packet) /\ Len(port') = Len(port) + 1
         /\ \A n \in 1..Len(port') :
               \/ n = Len(port) + 1 /\ port'[n].op = op
               \/ n \in 1..Len(port) /\ port'[n] = port[n]
<1> DEFINE p == [op |-> op, status |-> status]
<1>1. p \in Packet /\ p.op = op
  BY DEF Packet
<1>2. port \in Seq(Packet) /\ port' = Append(port, p)
  BY DEF TypeOK
<1> HIDE DEF p
<1> QED
  BY <1>1, <1>2

\* What is taken from the port, and what stays in it.
LEMMA Dequeued ==
  ASSUME TypeOK, port # <<>>, port' = Tail(port)
  PROVE  /\ 1 \in 1..Len(port) /\ Head(port) = port[1] /\ port[1] \in Packet
         /\ port' \in Seq(Packet)
         /\ \A n \in 1..Len(port') : n + 1 \in 1..Len(port) /\ port'[n] = port[n + 1]
  BY DEF TypeOK

\* AddSend accounts for the memory of one more send.
LEMMA CountedMore ==
  ASSUME TypeOK, Counted, NEW s \in Sends, s \notin sendCleanup, block' = block,
         sendCleanup' = sendCleanup \cup {s}, ~MemoryExceeded(s),
         sendCleanupSize' = IF block[s] THEN sendCleanupSize ELSE sendCleanupSize + 1
  PROVE  Counted'
<1> DEFINE Async == {x \in sendCleanup : ~block[x]}
<1>1. IsFiniteSet(sendCleanup') /\ IsFiniteSet(Async)
  BY FS_AddElement, FS_Subset DEF Counted
<1>2. {x \in sendCleanup' : ~block'[x]} = IF block[s] THEN Async ELSE Async \cup {s}
  OBVIOUS
<1>3. Cardinality(Async \cup {s}) = Cardinality(Async) + 1
  BY <1>1, FS_AddElement
<1>4. Cardinality({x \in sendCleanup' : ~block'[x]})
        = IF block[s] THEN Cardinality(Async) ELSE Cardinality(Async) + 1
  BY <1>2, <1>3
<1>5. sendCleanupSize = Cardinality(Async) /\ sendCleanupSize <= SendMemoryLimit
  BY DEF Counted
<1> HIDE DEF Async
<1> QED
  BY <1>1, <1>4, <1>5, ConstantsAssumption DEF Counted, TypeOK, MemoryExceeded

\* RemoveSend takes that of one send away.
LEMMA CountedLess ==
  ASSUME TypeOK, Counted, NEW s \in sendCleanup, block' = block,
         sendCleanup' = sendCleanup \ {s},
         sendCleanupSize' = IF block[s] THEN sendCleanupSize ELSE sendCleanupSize - 1
  PROVE  Counted'
<1> DEFINE Async == {x \in sendCleanup : ~block[x]}
<1>1. IsFiniteSet(sendCleanup') /\ IsFiniteSet(Async)
  BY FS_RemoveElement, FS_Subset DEF Counted
<1>2. {x \in sendCleanup' : ~block'[x]} = IF block[s] THEN Async ELSE Async \ {s}
  OBVIOUS
<1>3. ~block[s] => Cardinality(Async \ {s}) = Cardinality(Async) - 1
  BY <1>1, FS_RemoveElement
<1>4. Cardinality({x \in sendCleanup' : ~block'[x]})
        = IF block[s] THEN Cardinality(Async) ELSE Cardinality(Async) - 1
  BY <1>2, <1>3
<1>5. sendCleanupSize = Cardinality(Async) /\ sendCleanupSize <= SendMemoryLimit
  BY DEF Counted
<1> HIDE DEF Async
<1> QED
  BY <1>1, <1>4, <1>5, ConstantsAssumption DEF Counted, TypeOK

\* While winsock works on the receive, or before the first one, nobody has data.
LEMMA NobodyReceives ==
  ASSUME IInv, NoPacketYet(RecvOp)
  PROVE  /\ \A n \in 1..Len(port) : port[n].op # RecvOp
         /\ \A w \in Workers : workerPC[w] \notin RecvPlaces
  BY DEF IInv, PacketsOnce, PacketFits, HasPacket, RecvPlaces

\* A worker that has the receive has it alone.
LEMMA OneReceiver ==
  ASSUME IInv, NEW w \in Workers, workerPC[w] \in RecvPlaces
  PROVE  /\ packet[w].op = RecvOp
         /\ recvOp = "none" /\ ownerPC # "setup"
         /\ \A n \in 1..Len(port) : port[n].op # RecvOp
         /\ \A v \in Workers \ {w} : workerPC[v] \notin RecvPlaces
  BY DEF IInv, TypeOK, PacketsOnce, PacketFits, HasPacket, NoPacketYet, RecvPlaces

\* A worker with the packet of a send has the only one, and winsock is done with it.
LEMMA SendEnded ==
  ASSUME IInv, NEW w \in Workers, workerPC[w] \in SendPlaces
  PROVE  /\ packet[w].op \in Sends
         /\ sendOp[packet[w].op] \notin {"none", "pending"}
         /\ \A n \in 1..Len(port) : port[n].op # packet[w].op
  BY ConstantsAssumption DEF IInv, PacketsOnce, PacketFits, HasPacket, NoPacketYet, SendPlaces

\* What a thread inside Send can rely on.
LEMMA SenderHolds ==
  ASSUME IInv, NEW c \in Callers, callerPC[c] # "idle"
  PROVE  /\ callerSend[c] \in Sends
         /\ callerPC[c] \in LockedPlaces =>
               /\ sendLock[callerSend[c]] = c /\ life[callerSend[c]] = "live"
               /\ \A d \in Callers \ {c} :
                     callerPC[d] \in LockedPlaces => callerSend[d] # callerSend[c]
  BY DEF IInv, SendHeld

-------------------------------------------------------------------------------
(* Every action keeps the invariant *)

\* The packet of a receive that ends is the only one.
LEMMA CompleteRecvKeeps ==
  ASSUME IInv, CompleteRecv
  PROVE  IInv'
<1>1. PICK status \in Statuses : port' = Append(port, [op |-> RecvOp, status |-> status])
  BY DEF CompleteRecv, Statuses
<1>2. /\ port' \in Seq(Packet)
      /\ \A n \in 1..Len(port') :
            \/ n = Len(port) + 1 /\ Len(port') = n /\ port'[n].op = RecvOp
            \/ n \in 1..Len(port) /\ port'[n] = port[n]
  BY <1>1, Queued DEF IInv, Operations
<1>3. NoPacketYet(RecvOp) /\ ~NoPacketYet(RecvOp)'
  BY DEF CompleteRecv, NoPacketYet, IInv, CloseExcludes
<1>4. TypeOK'
  BY <1>1, <1>2, <1>3, ConstantsAssumption
  DEF CompleteRecv, sendVars, callerVars, workerVars, IInv, TypeOK
<1>5. PacketsOnce'
  BY <1>1, <1>2, <1>3, ConstantsAssumption
  DEF CompleteRecv, sendVars, callerVars, workerVars, IInv, TypeOK, PacketsOnce,
      NoPacketYet, HasPacket, BeforeClose, Closing
<1>6. DealingAnnounced'
  BY <1>1, <1>2, <1>3, ConstantsAssumption
  DEF CompleteRecv, sendVars, callerVars, workerVars, IInv, TypeOK, DealingAnnounced
<1>7. SendRemembered'
  BY <1>1, <1>2, <1>3, ConstantsAssumption
  DEF CompleteRecv, sendVars, callerVars, workerVars, IInv, TypeOK, SendRemembered
<1>8. CloseExcludes'
  BY <1>1, <1>2, <1>3, ConstantsAssumption
  DEF CompleteRecv, sendVars, callerVars, workerVars, IInv, TypeOK, CloseExcludes
<1>9. PacketFits' /\ SendHeld' /\ EraseHeld' /\ Counted' /\ FreedUnused'
  BY DEF CompleteRecv, sendVars, callerVars, workerVars, IInv, PacketFits, SendHeld,
     EraseHeld, Counted, FreedUnused
<1> QED
  BY <1>4, <1>5, <1>6, <1>7, <1>8, <1>9 DEF IInv

\* So is that of a send, which is in the vector or has timed out.
LEMMA CompleteSendKeeps ==
  ASSUME IInv, NEW s \in Sends, CompleteSend(s)
  PROVE  IInv'
<1>1. PICK status \in Statuses :
        /\ port' = Append(port, [op |-> s, status |-> status])
        /\ sendOp' = [sendOp EXCEPT ![s] = status]
  BY DEF CompleteSend, Statuses
<1>2. /\ port' \in Seq(Packet)
      /\ \A n \in 1..Len(port') :
            \/ n = Len(port) + 1 /\ Len(port') = n /\ port'[n].op = s
            \/ n \in 1..Len(port) /\ port'[n] = port[n]
  BY <1>1, Queued DEF IInv, Operations
<1>3. TypeOK'
  BY <1>1, <1>2, ConstantsAssumption
  DEF CompleteSend, sendVars, callerVars, workerVars, IInv, TypeOK
<1>4. PacketsOnce'
  BY <1>1, <1>2, ConstantsAssumption
  DEF CompleteSend, sendVars, callerVars, workerVars, IInv, TypeOK, PacketsOnce,
      NoPacketYet, HasPacket
<1>5. DealingAnnounced'
  BY <1>1, <1>2, ConstantsAssumption
  DEF CompleteSend, sendVars, callerVars, workerVars, IInv, TypeOK, DealingAnnounced,
      PacketFits
<1>6. SendHeld'
  BY <1>1, <1>2, ConstantsAssumption
  DEF CompleteSend, sendVars, callerVars, workerVars, IInv, TypeOK, SendHeld
<1>7. SendRemembered'
  BY <1>1, <1>2, ConstantsAssumption
  DEF CompleteSend, sendVars, callerVars, workerVars, IInv, TypeOK, SendRemembered
<1>8. FreedUnused'
  BY <1>1, <1>2, ConstantsAssumption
  DEF CompleteSend, sendVars, callerVars, workerVars, IInv, TypeOK, FreedUnused
<1>9. CloseExcludes'
  BY <1>1, <1>2, ConstantsAssumption
  DEF CompleteSend, sendVars, callerVars, workerVars, IInv, TypeOK, CloseExcludes
<1>10. PacketFits' /\ EraseHeld' /\ Counted'
  BY DEF CompleteSend, sendVars, callerVars, workerVars, IInv, PacketFits, EraseHeld,
     Counted
<1> QED
  BY <1>3, <1>4, <1>5, <1>6, <1>7, <1>8, <1>9, <1>10 DEF IInv

\* A new send was not used before, and only its thread has it.
LEMMA BeginSendKeeps ==
  ASSUME IInv, NEW c \in Callers, BeginSend(c)
  PROVE  IInv'
<1>1. PICK s \in Sends, b \in BOOLEAN :
        /\ life[s] = "unborn"
        /\ life' = [life EXCEPT ![s] = "live"]
        /\ block' = [block EXCEPT ![s] = b]
        /\ sendLock' = [sendLock EXCEPT ![s] = c]
        /\ callerSend' = [callerSend EXCEPT ![c] = s]
  BY DEF BeginSend
<1>2. s \notin sendCleanup /\ sendOp[s] = "none" /\ result[s] = "none" /\ sendLock[s] = None
  BY <1>1 DEF IInv, EraseHeld, SendHeld
<1>3. TypeOK'
  BY <1>1, <1>2, ConstantsAssumption
  DEF BeginSend, kernelVars, workerVars, IInv, TypeOK, CallerPlaces, LockedPlaces,
      Results
<1>4. SendHeld'
  BY <1>1, <1>2, ConstantsAssumption
  DEF BeginSend, kernelVars, workerVars, IInv, TypeOK, SendHeld
<1>5. EraseHeld'
  BY <1>1, <1>2, ConstantsAssumption
  DEF BeginSend, kernelVars, workerVars, IInv, TypeOK, EraseHeld
<1>6. Counted'
  BY <1>1, <1>2, {x \in sendCleanup : ~block'[x]} = {x \in sendCleanup : ~block[x]}
  DEF BeginSend, kernelVars, workerVars, IInv, TypeOK, Counted
<1>7. FreedUnused'
  BY <1>1, <1>2, ConstantsAssumption
  DEF BeginSend, kernelVars, workerVars, IInv, TypeOK, FreedUnused
<1>8. CloseExcludes'
  BY <1>1, <1>2, ConstantsAssumption
  DEF BeginSend, kernelVars, workerVars, IInv, TypeOK, CloseExcludes, BeforeClose,
      Closing
<1>9. PacketsOnce' /\ PacketFits' /\ DealingAnnounced' /\ SendRemembered'
  BY DEF BeginSend, kernelVars, workerVars, IInv, PacketsOnce, NoPacketYet, HasPacket,
     PacketFits, DealingAnnounced, SendRemembered
<1> QED
  BY <1>3, <1>4, <1>5, <1>6, <1>7, <1>8, <1>9 DEF IInv

\* AddSend needs the vector to be free: nobody is erasing, and the memory suffices.
LEMMA AddSendKeeps ==
  ASSUME IInv, NEW c \in Callers, AddSend(c)
  PROVE  IInv'
<1>1. /\ callerSend[c] \in Sends
      /\ sendLock[callerSend[c]] = c /\ life[callerSend[c]] = "live"
      /\ \A d \in Callers \ {c} :
            callerPC[d] \in LockedPlaces => callerSend[d] # callerSend[c]
  BY SenderHolds DEF AddSend, LockedPlaces
<1>2. TypeOK'
  BY <1>1, ConstantsAssumption
  DEF AddSend, CallerGoto, MemoryExceeded, kernelVars, workerVars, IInv, TypeOK,
      CallerPlaces, LockedPlaces, Results
<1>3. SendHeld'
  BY <1>1, ConstantsAssumption
  DEF AddSend, CallerGoto, MemoryExceeded, kernelVars, workerVars, IInv, TypeOK,
      SendHeld, LockedPlaces
<1>4. EraseHeld'
  BY <1>1, ConstantsAssumption
  DEF AddSend, CallerGoto, MemoryExceeded, kernelVars, workerVars, IInv, TypeOK,
      EraseHeld, SendHeld
<1>5. Counted'
  BY <1>1, CountedMore DEF AddSend, IInv, SendHeld
<1>6. SendRemembered'
  BY <1>1, ConstantsAssumption
  DEF AddSend, CallerGoto, MemoryExceeded, kernelVars, workerVars, IInv, TypeOK,
      SendRemembered
<1>7. CloseExcludes'
  BY <1>1, ConstantsAssumption
  DEF AddSend, CallerGoto, MemoryExceeded, kernelVars, workerVars, IInv, TypeOK,
      CloseExcludes, BeforeClose, Closing
<1>8. PacketsOnce' /\ PacketFits' /\ DealingAnnounced' /\ FreedUnused'
  BY DEF AddSend, CallerGoto, MemoryExceeded, kernelVars, workerVars, IInv, PacketsOnce,
     NoPacketYet, HasPacket, PacketFits, DealingAnnounced, FreedUnused
<1> QED
  BY <1>2, <1>3, <1>4, <1>5, <1>6, <1>7, <1>8 DEF IInv

\* A send that is refused was never in the vector.
LEMMA AddSendThrowsKeeps ==
  ASSUME IInv, NEW c \in Callers, AddSendThrows(c)
  PROVE  IInv'
<1>1. /\ callerSend[c] \in Sends
      /\ sendLock[callerSend[c]] = c /\ life[callerSend[c]] = "live"
      /\ \A d \in Callers \ {c} :
            callerPC[d] \in LockedPlaces => callerSend[d] # callerSend[c]
  BY SenderHolds DEF AddSendThrows, LockedPlaces
<1>2. TypeOK'
  BY <1>1, ConstantsAssumption
  DEF AddSendThrows, CallerGoto, MemoryExceeded, kernelVars, workerVars, IInv, TypeOK,
      CallerPlaces, LockedPlaces, Results
<1>3. SendHeld'
  BY <1>1, ConstantsAssumption
  DEF AddSendThrows, CallerGoto, MemoryExceeded, kernelVars, workerVars, IInv, TypeOK,
      SendHeld, LockedPlaces
<1>4. EraseHeld'
  BY <1>1, ConstantsAssumption
  DEF AddSendThrows, CallerGoto, MemoryExceeded, kernelVars, workerVars, IInv, TypeOK,
      EraseHeld, SendHeld
<1>5. SendRemembered'
  BY <1>1, ConstantsAssumption
  DEF AddSendThrows, CallerGoto, MemoryExceeded, kernelVars, workerVars, IInv, TypeOK,
      SendRemembered, SendHeld, FreedUnused
<1>6. FreedUnused'
  BY <1>1, ConstantsAssumption
  DEF AddSendThrows, CallerGoto, MemoryExceeded, kernelVars, workerVars, IInv, TypeOK,
      FreedUnused, SendHeld
<1>7. CloseExcludes'
  BY <1>1, ConstantsAssumption
  DEF AddSendThrows, CallerGoto, MemoryExceeded, kernelVars, workerVars, IInv, TypeOK,
      CloseExcludes
<1>8. PacketsOnce' /\ PacketFits' /\ DealingAnnounced' /\ Counted'
  BY DEF AddSendThrows, CallerGoto, MemoryExceeded, kernelVars, workerVars, IInv,
     PacketsOnce, NoPacketYet, HasPacket, PacketFits, DealingAnnounced, Counted
<1> QED
  BY <1>2, <1>3, <1>4, <1>5, <1>6, <1>7, <1>8 DEF IInv

\* WSASend begins an operation that had no packet yet.
LEMMA WSASendKeeps ==
  ASSUME IInv, NEW c \in Callers, WSASend(c)
  PROVE  IInv'
<1>1. /\ callerSend[c] \in Sends
      /\ sendLock[callerSend[c]] = c /\ life[callerSend[c]] = "live"
      /\ \A d \in Callers \ {c} :
            callerPC[d] \in LockedPlaces => callerSend[d] # callerSend[c]
  BY SenderHolds DEF WSASend, LockedPlaces
<1>2. \/ port' = port
      \/ \E status \in Statuses :
            port' = Append(port, [op |-> callerSend[c], status |-> status])
  BY DEF WSASend, Statuses
<1>3. /\ port' \in Seq(Packet)
      /\ \A n \in 1..Len(port') :
            \/ /\ n = Len(port) + 1 /\ port'[n].op = callerSend[c]
               /\ sendOp'[callerSend[c]] = "ok" /\ Len(port') = Len(port) + 1
            \/ n \in 1..Len(port) /\ port'[n] = port[n]
  <2>1. CASE port' = port
    BY <2>1 DEF IInv, TypeOK
  <2>2. CASE port' # port
    <3>1. PICK status \in Statuses :
             port' = Append(port, [op |-> callerSend[c], status |-> status])
      BY <1>2, <2>2
    <3>2. sendOp'[callerSend[c]] = "ok"
      BY <1>1, <2>2 DEF WSASend, IInv, TypeOK
    <3> QED
      BY <1>1, <3>1, <3>2, Queued DEF IInv, Operations
  <2> QED
    BY <2>1, <2>2
<1>4. PICK pc \in {"leave", "wait"}, r \in Results, o \in {"none", "pending", "ok"} :
        /\ callerPC' = [callerPC EXCEPT ![c] = pc] /\ callerSend' = callerSend
        /\ result' = [result EXCEPT ![callerSend[c]] = r] /\ (pc = "wait" => r = "none")
        /\ sendOp' = [sendOp EXCEPT ![callerSend[c]] = o]
  <2>1. sendOp[callerSend[c]] = "none" /\ sendOp = [sendOp EXCEPT ![callerSend[c]] = "none"]
    BY <1>1 DEF WSASend, IInv, TypeOK, SendHeld
  <2>2. callerSend' = callerSend
    BY DEF WSASend, CallerGoto, IInv, TypeOK
  <2> QED
    BY <2>1, <2>2 DEF WSASend, CallerGoto, Results
<1>5. /\ sendOp[callerSend[c]] = "none" /\ result[callerSend[c]] = "none"
      /\ callerPC[c] = "wsaSend"
      /\ \A n \in 1..Len(port) : port[n].op # callerSend[c]
      /\ \A w \in Workers : HasPacket(w) => packet[w].op # callerSend[c]
  BY <1>1, ConstantsAssumption DEF WSASend, IInv, SendHeld, PacketsOnce, NoPacketYet
<1>6. TypeOK'
  BY <1>1, <1>2, <1>3, <1>4, <1>5, ConstantsAssumption
  DEF WSASend, CallerGoto, workerVars, IInv, TypeOK, CallerPlaces, LockedPlaces,
      Statuses, Results
<1>7. PacketsOnce'
  <2>1. \A op : op # callerSend[c] => NoPacketYet(op)' = NoPacketYet(op)
    BY <1>4 DEF WSASend, NoPacketYet, IInv, TypeOK
  <2>2. \A w \in Workers : HasPacket(w)' = HasPacket(w) /\ packet' = packet
    BY DEF WSASend, workerVars, HasPacket
  <2>3. sendOp'[callerSend[c]] = "ok" => ~NoPacketYet(callerSend[c])'
    BY <1>1, <1>4, ConstantsAssumption DEF NoPacketYet
  <2>4. \A m, n \in 1..Len(port') : port'[m].op = port'[n].op => m = n
    BY <1>3, <1>5 DEF IInv, PacketsOnce
  <2>5. \A w \in Workers : HasPacket(w)' => \A n \in 1..Len(port') : port'[n].op # packet'[w].op
    BY <1>3, <1>5, <2>2 DEF IInv, PacketsOnce
  <2>6. \A n \in 1..Len(port') : ~NoPacketYet(port[n].op)'
    BY <1>3, <1>4, <1>5, <2>1, <2>3, ConstantsAssumption DEF IInv, PacketsOnce, NoPacketYet
  <2> QED
    BY <1>5, <2>1, <2>2, <2>4, <2>5, <2>6 DEF IInv, PacketsOnce
<1>8. DealingAnnounced'
  BY <1>1, <1>3, ConstantsAssumption
  DEF WSASend, CallerGoto, workerVars, IInv, TypeOK, DealingAnnounced
<1>9. SendHeld'
  <2>1. /\ sendCleanup' = sendCleanup /\ sendLock' = sendLock /\ life' = life
        /\ \A s \in Sends \ {callerSend[c]} : sendOp'[s] = sendOp[s] /\ result'[s] = result[s]
        /\ \A d \in Callers \ {c} : callerPC'[d] = callerPC[d]
        /\ callerPC'[c] = pc /\ result'[callerSend[c]] = r
    BY <1>1, <1>4 DEF WSASend, IInv, TypeOK
  <2>2. callerSend[c] \in sendCleanup /\ callerPC[c] = "wsaSend"
    BY <1>1 DEF WSASend, IInv, SendHeld, LockedPlaces
  <2>3. \A d \in Callers \ {c} : callerPC[d] \in {"findSend", "eraseSend"} =>
           callerSend[d] # callerSend[c]
    BY <1>5 DEF IInv, SendHeld
  <2>4. ASSUME NEW d \in Callers
        PROVE  LET s == callerSend'[d] IN
               /\ callerPC'[d] # "idle" => s \in Sends
               /\ callerPC'[d] \in LockedPlaces => sendLock'[s] = d /\ life'[s] = "live"
               /\ callerPC'[d] = "add" => s \notin sendCleanup'
               /\ callerPC'[d] \in LockedPlaces \ {"add"} => s \in sendCleanup'
               /\ callerPC'[d] \in {"add", "wsaSend"} => sendOp'[s] = "none"
               /\ callerPC'[d] \in {"add", "wsaSend", "wait"} => result'[s] = "none"
               /\ callerPC'[d] \in {"findSend", "eraseSend"} =>
                     result'[s] \in {"failed", "kill"}
    <3>1. CASE d = c
      BY <1>1, <1>4, <2>1, <2>2, <3>1 DEF LockedPlaces
    <3>2. CASE d # c
      BY <1>1, <1>4, <2>1, <2>3, <3>2 DEF IInv, SendHeld, LockedPlaces
    <3> QED
      BY <3>1, <3>2
  <2>5. \A s \in Sends : life'[s] = "unborn" =>
           sendOp'[s] = "none" /\ sendLock'[s] = None /\ result'[s] = "none"
    BY <1>1, <2>1 DEF IInv, SendHeld
  <2> QED
    BY <2>4, <2>5 DEF SendHeld
<1>10. EraseHeld'
  BY <1>1, <1>2, <1>3, <1>4, <1>5, ConstantsAssumption
  DEF WSASend, CallerGoto, workerVars, IInv, TypeOK, EraseHeld
<1>11. SendRemembered'
  BY <1>1, <1>2, <1>3, <1>4, <1>5, ConstantsAssumption
  DEF WSASend, CallerGoto, workerVars, IInv, TypeOK, SendRemembered, SendHeld,
      LockedPlaces
<1>12. FreedUnused'
  BY <1>1, <1>4
  DEF WSASend, CallerGoto, workerVars, IInv, TypeOK, FreedUnused, SendHeld
<1>13. CloseExcludes'
  BY <1>1, <1>3, <1>4, ConstantsAssumption
  DEF WSASend, CallerGoto, workerVars, IInv, TypeOK, CloseExcludes
<1>14. PacketFits' /\ Counted'
  BY DEF WSASend, CallerGoto, workerVars, IInv, PacketFits, Counted
<1> QED
  BY <1>6, <1>7, <1>8, <1>9, <1>10, <1>11, <1>12, <1>13, <1>14 DEF IInv

\* Only a send with a timeout gives up.
LEMMA WaitForCompletionKeeps ==
  ASSUME IInv, NEW c \in Callers, WaitForCompletion(c)
  PROVE  IInv'
<1>1. /\ callerSend[c] \in Sends
      /\ sendLock[callerSend[c]] = c /\ life[callerSend[c]] = "live"
      /\ \A d \in Callers \ {c} :
            callerPC[d] \in LockedPlaces => callerSend[d] # callerSend[c]
  BY SenderHolds DEF WaitForCompletion, LockedPlaces
<1>2. TypeOK'
  BY <1>1, ConstantsAssumption
  DEF WaitForCompletion, CallerGoto, kernelVars, workerVars, IInv, TypeOK, CallerPlaces,
      LockedPlaces, Results
<1>3. SendHeld'
  BY <1>1, ConstantsAssumption
  DEF WaitForCompletion, CallerGoto, kernelVars, workerVars, IInv, TypeOK, SendHeld,
      LockedPlaces
<1>4. EraseHeld'
  BY <1>1, ConstantsAssumption
  DEF WaitForCompletion, CallerGoto, kernelVars, workerVars, IInv, TypeOK, EraseHeld
<1>5. SendRemembered'
  BY <1>1, ConstantsAssumption
  DEF WaitForCompletion, CallerGoto, kernelVars, workerVars, IInv, TypeOK,
      SendRemembered, SendHeld
<1>6. CloseExcludes'
  BY <1>1, ConstantsAssumption
  DEF WaitForCompletion, CallerGoto, kernelVars, workerVars, IInv, TypeOK, CloseExcludes
<1>7. PacketsOnce' /\ PacketFits' /\ DealingAnnounced' /\ Counted' /\ FreedUnused'
  BY DEF WaitForCompletion, CallerGoto, kernelVars, workerVars, IInv, PacketsOnce,
     NoPacketYet, HasPacket, PacketFits, DealingAnnounced, Counted, FreedUnused
<1> QED
  BY <1>2, <1>3, <1>4, <1>5, <1>6, <1>7 DEF IInv

\* The thread goes on to remove its send only if that failed or timed out.
LEMMA LeaveSendKeeps ==
  ASSUME IInv, NEW c \in Callers, LeaveSend(c)
  PROVE  IInv'
<1>1. /\ callerSend[c] \in Sends
      /\ sendLock[callerSend[c]] = c /\ life[callerSend[c]] = "live"
      /\ \A d \in Callers \ {c} :
            callerPC[d] \in LockedPlaces => callerSend[d] # callerSend[c]
  BY SenderHolds DEF LeaveSend, LockedPlaces
<1>2. TypeOK'
  BY <1>1, ConstantsAssumption
  DEF LeaveSend, CallerGoto, kernelVars, workerVars, IInv, TypeOK, CallerPlaces,
      LockedPlaces, Results
<1>3. SendHeld'
  BY <1>1, ConstantsAssumption
  DEF LeaveSend, CallerGoto, kernelVars, workerVars, IInv, TypeOK, SendHeld,
      LockedPlaces
<1>4. EraseHeld'
  BY <1>1, ConstantsAssumption
  DEF LeaveSend, CallerGoto, kernelVars, workerVars, IInv, TypeOK, EraseHeld
<1>5. FreedUnused'
  BY <1>1, ConstantsAssumption
  DEF LeaveSend, CallerGoto, kernelVars, workerVars, IInv, TypeOK, FreedUnused
<1>6. CloseExcludes'
  BY <1>1, ConstantsAssumption
  DEF LeaveSend, CallerGoto, kernelVars, workerVars, IInv, TypeOK, CloseExcludes
<1>7. PacketsOnce' /\ PacketFits' /\ DealingAnnounced' /\ Counted' /\ SendRemembered'
  BY DEF LeaveSend, CallerGoto, kernelVars, workerVars, IInv, PacketsOnce, NoPacketYet,
     HasPacket, PacketFits, DealingAnnounced, Counted, SendRemembered
<1> QED
  BY <1>2, <1>3, <1>4, <1>5, <1>6, <1>7 DEF IInv

\* Finding a send takes the critical section of the vector.
LEMMA CallerFindSendKeeps ==
  ASSUME IInv, NEW c \in Callers, CallerFindSend(c)
  PROVE  IInv'
<1>1. callerSend[c] \in Sends
  BY SenderHolds DEF CallerFindSend
<1>2. TypeOK'
  BY <1>1, ConstantsAssumption
  DEF CallerFindSend, CallerGoto, FindSend, kernelVars, workerVars, IInv, TypeOK,
      CallerPlaces, LockedPlaces, Results
<1>3. SendHeld'
  BY <1>1, ConstantsAssumption
  DEF CallerFindSend, CallerGoto, FindSend, kernelVars, workerVars, IInv, TypeOK,
      SendHeld, LockedPlaces
<1>4. EraseHeld'
  BY <1>1, ConstantsAssumption
  DEF CallerFindSend, CallerGoto, FindSend, kernelVars, workerVars, IInv, TypeOK,
      EraseHeld
<1>5. CloseExcludes'
  BY <1>1, ConstantsAssumption
  DEF CallerFindSend, CallerGoto, FindSend, kernelVars, workerVars, IInv, TypeOK,
      CloseExcludes
<1>6. PacketsOnce' /\ PacketFits' /\ DealingAnnounced' /\ Counted' /\ SendRemembered'
      /\ FreedUnused'
  BY DEF CallerFindSend, CallerGoto, FindSend, kernelVars, workerVars, IInv, PacketsOnce,
     NoPacketYet, HasPacket, PacketFits, DealingAnnounced, Counted, SendRemembered,
     FreedUnused
<1> QED
  BY <1>2, <1>3, <1>4, <1>5, <1>6 DEF IInv

\* A send that failed has no operation, one that timed out may have.
LEMMA CallerRemoveSendKeeps ==
  ASSUME IInv, NEW c \in Callers, CallerRemoveSend(c)
  PROVE  IInv'
<1>1. callerSend[c] \in Sends
  BY SenderHolds DEF CallerRemoveSend
<1>2. TypeOK'
  BY <1>1, ConstantsAssumption
  DEF CallerRemoveSend, CallerGoto, RemoveSend, kernelVars, workerVars, IInv, TypeOK,
      CallerPlaces, LockedPlaces, Results
<1>3. SendHeld'
  BY <1>1, ConstantsAssumption
  DEF CallerRemoveSend, CallerGoto, RemoveSend, kernelVars, workerVars, IInv, TypeOK,
      SendHeld, LockedPlaces
<1>4. EraseHeld'
  BY <1>1, ConstantsAssumption
  DEF CallerRemoveSend, CallerGoto, RemoveSend, kernelVars, workerVars, IInv, TypeOK,
      EraseHeld
<1>5. Counted'
  BY <1>1, CountedLess DEF CallerRemoveSend, RemoveSend, IInv, EraseHeld
<1>6. SendRemembered'
  BY <1>1, ConstantsAssumption
  DEF CallerRemoveSend, CallerGoto, RemoveSend, kernelVars, workerVars, IInv, TypeOK,
      SendRemembered, SendHeld, EraseHeld, PacketsOnce, NoPacketYet
<1>7. FreedUnused'
  BY <1>1, ConstantsAssumption
  DEF CallerRemoveSend, CallerGoto, RemoveSend, kernelVars, workerVars, IInv, TypeOK,
      FreedUnused, SendHeld, SendRemembered
<1>8. CloseExcludes'
  BY <1>1, ConstantsAssumption
  DEF CallerRemoveSend, CallerGoto, RemoveSend, kernelVars, workerVars, IInv, TypeOK,
      CloseExcludes
<1>9. PacketsOnce' /\ PacketFits' /\ DealingAnnounced'
  BY DEF CallerRemoveSend, CallerGoto, RemoveSend, kernelVars, workerVars, IInv,
     PacketsOnce, NoPacketYet, HasPacket, PacketFits, DealingAnnounced
<1> QED
  BY <1>2, <1>3, <1>4, <1>5, <1>6, <1>7, <1>8, <1>9 DEF IInv

\* A packet goes from the port to one worker.
LEMMA GetCompletionStatusKeeps ==
  ASSUME IInv, NEW w \in Workers, GetCompletionStatus(w)
  PROVE  IInv'
<1>1. /\ 1 \in 1..Len(port) /\ Head(port) = port[1] /\ port[1] \in Packet
      /\ port' \in Seq(Packet)
      /\ \A n \in 1..Len(port') : n + 1 \in 1..Len(port) /\ port'[n] = port[n + 1]
  BY Dequeued DEF GetCompletionStatus, IInv
<1>2. PICK pc \in {"deal", "requestClose", "finish", "findSend"} :
        /\ workerPC' = [workerPC EXCEPT ![w] = pc]
        /\ pc = "findSend" <=> port[1].op # RecvOp
  BY <1>1 DEF GetCompletionStatus, Packet, Statuses
<1>3. workerPC[w] = "idle" /\ packet' = [packet EXCEPT ![w] = port[1]]
  BY <1>1 DEF GetCompletionStatus
<1>4. TypeOK'
  BY <1>1, <1>2, <1>3, ConstantsAssumption
  DEF GetCompletionStatus, sendVars, callerVars, IInv, TypeOK, WorkerPlaces, RecvPlaces,
      SendPlaces, NoPacket, Packet, Operations, Statuses
<1>5. PacketsOnce'
    <2>1. \A op : NoPacketYet(op)' = NoPacketYet(op)
    BY DEF GetCompletionStatus, NoPacketYet
  <2>2. \A v \in Workers : HasPacket(v)' =>
           \/ v = w /\ packet'[v] = port[1]
           \/ v # w /\ HasPacket(v) /\ packet'[v] = packet[v]
    BY <1>2, <1>3 DEF IInv, TypeOK, HasPacket
  <2>3. \A v \in Workers : HasPacket(v)' => ~NoPacketYet(packet[v].op)'
    BY <1>1, <1>2, <1>3, <2>1, <2>2 DEF IInv, PacketsOnce, TypeOK
  <2>4. \A m, n \in 1..Len(port') : port'[m].op = port'[n].op => m = n
    <3>1. \A m, n \in 1..Len(port) : port[m].op = port[n].op => m = n
      BY DEF IInv, PacketsOnce
    <3> SUFFICES ASSUME NEW m \in 1..Len(port'), NEW n \in 1..Len(port'),
                        port'[m].op = port'[n].op
                 PROVE  m = n
      OBVIOUS
    <3>2. m + 1 = n + 1
      BY <1>1, <3>1
    <3> QED
      BY <3>2
  <2>5. \A v \in Workers : HasPacket(v)' => \A n \in 1..Len(port') : port'[n].op # packet'[v].op
    <3>1. \A n \in 1..Len(port') : port'[n].op # port[1].op
      BY <1>1 DEF IInv, PacketsOnce, TypeOK
    <3> QED
      BY <1>1, <2>2, <3>1 DEF IInv, PacketsOnce
  <2>6. \A u, v \in Workers :
           HasPacket(u)' /\ HasPacket(v)' /\ packet'[u].op = packet'[v].op => u = v
    BY <1>1, <2>2 DEF IInv, PacketsOnce
  <2>7. \A n \in 1..Len(port') : ~NoPacketYet(port[n].op)'
    BY <1>1, <2>1 DEF IInv, PacketsOnce
  <2> QED
    BY <1>1, <2>2, <2>3, <2>4, <2>5, <2>6, <2>7 DEF PacketsOnce
<1>6. PacketFits'
  BY <1>1, <1>2, <1>3, ConstantsAssumption
  DEF GetCompletionStatus, sendVars, callerVars, IInv, TypeOK, PacketFits, Packet,
      Operations, Statuses, NoPacket, WorkerPlaces, RecvPlaces, SendPlaces,
      CallerPlaces, LockedPlaces, BeforeClose, Closing, Results
<1>7. DealingAnnounced'
  BY <1>1, <1>2, <1>3, ConstantsAssumption
  DEF GetCompletionStatus, sendVars, callerVars, IInv, TypeOK, DealingAnnounced
<1>8. EraseHeld'
  BY <1>1, <1>2, <1>3, ConstantsAssumption
  DEF GetCompletionStatus, sendVars, callerVars, IInv, TypeOK, EraseHeld, Packet,
      Operations, Statuses, NoPacket, WorkerPlaces, RecvPlaces, SendPlaces,
      CallerPlaces, LockedPlaces, BeforeClose, Closing, Results
<1>9. SendRemembered'
  BY <1>1, <1>2, <1>3, ConstantsAssumption
  DEF GetCompletionStatus, sendVars, callerVars, IInv, TypeOK, SendRemembered
<1>10. CloseExcludes'
  BY <1>1, <1>2, <1>3, ConstantsAssumption
  DEF GetCompletionStatus, sendVars, callerVars, IInv, TypeOK, CloseExcludes, Packet,
      Operations, Statuses, NoPacket, WorkerPlaces, RecvPlaces, SendPlaces,
      CallerPlaces, LockedPlaces, BeforeClose, Closing, Results
<1>11. SendHeld' /\ Counted' /\ FreedUnused'
  BY DEF GetCompletionStatus, sendVars, callerVars, IInv, SendHeld, Counted, FreedUnused
<1> QED
  BY <1>4, <1>5, <1>6, <1>7, <1>8, <1>9, <1>10, <1>11 DEF IInv

\* Asking for the socket to be closed touches nothing else.
LEMMA CompletionPortRequestCloseKeeps ==
  ASSUME IInv, NEW w \in Workers, CompletionPortRequestClose(w)
  PROVE  IInv'
<1>1. TypeOK'
  BY DEF CompletionPortRequestClose, WorkerGoto, kernelVars, sendVars, callerVars, IInv,
     TypeOK, WorkerPlaces, RecvPlaces, SendPlaces, NoPacket, Packet, Operations, Statuses
<1>2. PacketsOnce'
  BY DEF CompletionPortRequestClose, WorkerGoto, kernelVars, sendVars, callerVars, IInv,
     TypeOK, PacketsOnce, NoPacketYet, HasPacket
<1>3. PacketFits'
  BY DEF CompletionPortRequestClose, WorkerGoto, kernelVars, sendVars, callerVars, IInv,
     TypeOK, PacketFits, RecvPlaces, SendPlaces
<1>4. DealingAnnounced'
  BY DEF CompletionPortRequestClose, WorkerGoto, kernelVars, sendVars, callerVars, IInv,
     TypeOK, DealingAnnounced
<1>5. EraseHeld'
  BY DEF CompletionPortRequestClose, WorkerGoto, kernelVars, sendVars, callerVars, IInv,
     TypeOK, EraseHeld
<1>6. CloseExcludes'
  BY DEF CompletionPortRequestClose, WorkerGoto, kernelVars, sendVars, callerVars, IInv,
     TypeOK, CloseExcludes
<1>7. SendHeld' /\ Counted' /\ SendRemembered' /\ FreedUnused'
  BY DEF CompletionPortRequestClose, WorkerGoto, kernelVars, sendVars, callerVars, IInv,
     SendHeld, Counted, SendRemembered, FreedUnused
<1> QED
  BY <1>1, <1>2, <1>3, <1>4, <1>5, <1>6, <1>7 DEF IInv

\* The data is dealt with by the only worker that has the receive,
LEMMA DealWithDataKeeps ==
  ASSUME IInv, NEW w \in Workers, DealWithData(w)
  PROVE  IInv'
<1>1. /\ packet[w].op = RecvOp /\ recvOp = "none" /\ ownerPC # "setup"
      /\ \A n \in 1..Len(port) : port[n].op # RecvOp
      /\ \A v \in Workers \ {w} : workerPC[v] \notin RecvPlaces
  BY OneReceiver DEF DealWithData, RecvPlaces
<1>2. TypeOK'
  BY <1>1, ConstantsAssumption
  DEF DealWithData, WorkerGoto, kernelVars, sendVars, callerVars, IInv, TypeOK,
      WorkerPlaces, RecvPlaces, SendPlaces, NoPacket, Packet, Operations, Statuses
<1>3. PacketsOnce'
  BY <1>1, ConstantsAssumption
  DEF DealWithData, WorkerGoto, kernelVars, sendVars, callerVars, IInv, TypeOK,
      PacketsOnce, NoPacketYet, HasPacket
<1>4. PacketFits'
  BY <1>1, ConstantsAssumption
  DEF DealWithData, WorkerGoto, kernelVars, sendVars, callerVars, IInv, TypeOK,
      PacketFits, SendPlaces
<1>5. DealingAnnounced'
  BY <1>1, ConstantsAssumption
  DEF DealWithData, WorkerGoto, kernelVars, sendVars, callerVars, IInv, TypeOK,
      DealingAnnounced, RecvPlaces
<1>6. EraseHeld'
  BY <1>1, ConstantsAssumption
  DEF DealWithData, WorkerGoto, kernelVars, sendVars, callerVars, IInv, TypeOK,
      EraseHeld
<1>7. CloseExcludes'
  BY <1>1, ConstantsAssumption
  DEF DealWithData, WorkerGoto, kernelVars, sendVars, callerVars, IInv, TypeOK,
      CloseExcludes
<1>8. SendHeld' /\ Counted' /\ SendRemembered' /\ FreedUnused'
  BY DEF DealWithData, WorkerGoto, kernelVars, sendVars, callerVars, IInv, SendHeld,
     Counted, SendRemembered, FreedUnused
<1> QED
  BY <1>2, <1>3, <1>4, <1>5, <1>6, <1>7, <1>8 DEF IInv

\* which alone signals that,
LEMMA SetFinishRecvKeeps ==
  ASSUME IInv, NEW w \in Workers, SetFinishRecv(w)
  PROVE  IInv'
<1>1. /\ packet[w].op = RecvOp /\ recvOp = "none" /\ ownerPC # "setup"
      /\ \A n \in 1..Len(port) : port[n].op # RecvOp
      /\ \A v \in Workers \ {w} : workerPC[v] \notin RecvPlaces
  BY OneReceiver DEF SetFinishRecv, RecvPlaces
<1>2. TypeOK'
  BY <1>1, ConstantsAssumption
  DEF SetFinishRecv, WorkerGoto, kernelVars, sendVars, callerVars, IInv, TypeOK,
      WorkerPlaces, RecvPlaces, SendPlaces, NoPacket, Packet, Operations, Statuses
<1>3. PacketsOnce'
  BY <1>1, ConstantsAssumption
  DEF SetFinishRecv, WorkerGoto, kernelVars, sendVars, callerVars, IInv, TypeOK,
      PacketsOnce, NoPacketYet, HasPacket, Packet, Operations, Statuses, NoPacket,
      WorkerPlaces, RecvPlaces, SendPlaces, CallerPlaces, LockedPlaces, BeforeClose,
      Closing, Results
<1>4. PacketFits'
  BY <1>1, ConstantsAssumption
  DEF SetFinishRecv, WorkerGoto, kernelVars, sendVars, callerVars, IInv, TypeOK,
      PacketFits, Packet, Operations, Statuses, NoPacket, WorkerPlaces, RecvPlaces,
      SendPlaces, CallerPlaces, LockedPlaces, BeforeClose, Closing, Results
<1>5. DealingAnnounced'
  BY <1>1, ConstantsAssumption
  DEF SetFinishRecv, WorkerGoto, kernelVars, sendVars, callerVars, IInv, TypeOK,
      DealingAnnounced, Packet, Operations, Statuses, NoPacket, WorkerPlaces,
      RecvPlaces, SendPlaces, CallerPlaces, LockedPlaces, BeforeClose, Closing, Results
<1>6. EraseHeld'
  BY <1>1, ConstantsAssumption
  DEF SetFinishRecv, WorkerGoto, kernelVars, sendVars, callerVars, IInv, TypeOK,
      EraseHeld, Packet, Operations, Statuses, NoPacket, WorkerPlaces, RecvPlaces,
      SendPlaces, CallerPlaces, LockedPlaces, BeforeClose, Closing, Results
<1>7. CloseExcludes'
  BY <1>1, ConstantsAssumption
  DEF SetFinishRecv, WorkerGoto, kernelVars, sendVars, callerVars, IInv, TypeOK,
      CloseExcludes, Packet, Operations, Statuses, NoPacket, WorkerPlaces, RecvPlaces,
      SendPlaces, CallerPlaces, LockedPlaces, BeforeClose, Closing, Results
<1>8. SendHeld' /\ Counted' /\ SendRemembered' /\ FreedUnused'
  BY DEF SetFinishRecv, WorkerGoto, kernelVars, sendVars, callerVars, IInv, SendHeld,
     Counted, SendRemembered, FreedUnused
<1> QED
  BY <1>2, <1>3, <1>4, <1>5, <1>6, <1>7, <1>8 DEF IInv

\* looks at the protocol,
LEMMA CheckProtocolKeeps ==
  ASSUME IInv, NEW w \in Workers, CheckProtocol(w)
  PROVE  IInv'
<1>1. /\ packet[w].op = RecvOp /\ recvOp = "none" /\ ownerPC # "setup"
      /\ \A n \in 1..Len(port) : port[n].op # RecvOp
      /\ \A v \in Workers \ {w} : workerPC[v] \notin RecvPlaces
  BY OneReceiver DEF CheckProtocol, RecvPlaces
<1>2. TypeOK'
  BY <1>1, ConstantsAssumption
  DEF CheckProtocol, WorkerGoto, kernelVars, sendVars, callerVars, IInv, TypeOK,
      WorkerPlaces, RecvPlaces, SendPlaces, NoPacket, Packet, Operations, Statuses
<1>3. PacketsOnce'
  BY <1>1, ConstantsAssumption
  DEF CheckProtocol, WorkerGoto, kernelVars, sendVars, callerVars, IInv, TypeOK,
      PacketsOnce, NoPacketYet, HasPacket
<1>4. PacketFits'
  BY <1>1, ConstantsAssumption
  DEF CheckProtocol, WorkerGoto, kernelVars, sendVars, callerVars, IInv, TypeOK,
      PacketFits, RecvPlaces, SendPlaces
<1>5. DealingAnnounced'
  BY <1>1, ConstantsAssumption
  DEF CheckProtocol, WorkerGoto, kernelVars, sendVars, callerVars, IInv, TypeOK,
      DealingAnnounced
<1>6. EraseHeld'
  BY <1>1, ConstantsAssumption
  DEF CheckProtocol, WorkerGoto, kernelVars, sendVars, callerVars, IInv, TypeOK,
      EraseHeld
<1>7. CloseExcludes'
  BY <1>1, ConstantsAssumption
  DEF CheckProtocol, WorkerGoto, kernelVars, sendVars, callerVars, IInv, TypeOK,
      CloseExcludes
<1>8. SendHeld' /\ Counted' /\ SendRemembered' /\ FreedUnused'
  BY DEF CheckProtocol, WorkerGoto, kernelVars, sendVars, callerVars, IInv, SendHeld,
     Counted, SendRemembered, FreedUnused
<1> QED
  BY <1>2, <1>3, <1>4, <1>5, <1>6, <1>7, <1>8 DEF IInv

\* announces the next receive,
LEMMA BeginRecvKeeps ==
  ASSUME IInv, NEW w \in Workers, BeginRecv(w)
  PROVE  IInv'
<1>1. /\ packet[w].op = RecvOp /\ recvOp = "none" /\ ownerPC # "setup"
      /\ \A n \in 1..Len(port) : port[n].op # RecvOp
      /\ \A v \in Workers \ {w} : workerPC[v] \notin RecvPlaces
  BY OneReceiver DEF BeginRecv, RecvPlaces
<1>2. TypeOK'
  BY <1>1, ConstantsAssumption
  DEF BeginRecv, WorkerGoto, kernelVars, sendVars, callerVars, IInv, TypeOK,
      WorkerPlaces, RecvPlaces, SendPlaces, NoPacket, Packet, Operations, Statuses
<1>3. PacketsOnce'
  BY <1>1, ConstantsAssumption
  DEF BeginRecv, WorkerGoto, kernelVars, sendVars, callerVars, IInv, TypeOK,
      PacketsOnce, NoPacketYet, HasPacket
<1>4. PacketFits'
  BY <1>1, ConstantsAssumption
  DEF BeginRecv, WorkerGoto, kernelVars, sendVars, callerVars, IInv, TypeOK, PacketFits,
      SendPlaces
<1>5. DealingAnnounced'
  BY <1>1, ConstantsAssumption
  DEF BeginRecv, WorkerGoto, kernelVars, sendVars, callerVars, IInv, TypeOK,
      DealingAnnounced
<1>6. EraseHeld'
  BY <1>1, ConstantsAssumption
  DEF BeginRecv, WorkerGoto, kernelVars, sendVars, callerVars, IInv, TypeOK, EraseHeld
<1>7. CloseExcludes'
  BY <1>1, ConstantsAssumption
  DEF BeginRecv, WorkerGoto, kernelVars, sendVars, callerVars, IInv, TypeOK,
      CloseExcludes
<1>8. SendHeld' /\ Counted' /\ SendRemembered' /\ FreedUnused'
  BY DEF BeginRecv, WorkerGoto, kernelVars, sendVars, callerVars, IInv, SendHeld, Counted,
     SendRemembered, FreedUnused
<1> QED
  BY <1>2, <1>3, <1>4, <1>5, <1>6, <1>7, <1>8 DEF IInv

\* and starts it, which an open socket allows,
LEMMA StartRecvKeeps ==
  ASSUME IInv, NEW w \in Workers, StartRecv(w)
  PROVE  IInv'
<1>1. /\ packet[w].op = RecvOp /\ recvOp = "none" /\ ownerPC # "setup"
      /\ \A n \in 1..Len(port) : port[n].op # RecvOp
      /\ \A v \in Workers \ {w} : workerPC[v] \notin RecvPlaces
  BY OneReceiver DEF StartRecv, RecvPlaces
<1>2. TypeOK'
  BY <1>1, ConstantsAssumption
  DEF StartRecv, WorkerGoto, WSARecv, sendVars, callerVars, IInv, TypeOK, WorkerPlaces,
      RecvPlaces, SendPlaces, NoPacket, Packet, Operations, Statuses
<1>3. PacketsOnce'
  BY <1>1, ConstantsAssumption
  DEF StartRecv, WorkerGoto, WSARecv, sendVars, callerVars, IInv, TypeOK, PacketsOnce,
      NoPacketYet, HasPacket
<1>4. PacketFits'
  BY <1>1, ConstantsAssumption
  DEF StartRecv, WorkerGoto, WSARecv, sendVars, callerVars, IInv, TypeOK, PacketFits,
      RecvPlaces, SendPlaces
<1>5. DealingAnnounced'
  BY <1>1, ConstantsAssumption
  DEF StartRecv, WorkerGoto, WSARecv, sendVars, callerVars, IInv, TypeOK,
      DealingAnnounced
<1>6. EraseHeld'
  BY <1>1, ConstantsAssumption
  DEF StartRecv, WorkerGoto, WSARecv, sendVars, callerVars, IInv, TypeOK, EraseHeld
<1>7. CloseExcludes'
  BY <1>1, ConstantsAssumption
  DEF StartRecv, WorkerGoto, WSARecv, sendVars, callerVars, IInv, TypeOK, CloseExcludes,
      BeforeClose, Closing
<1>8. SendHeld' /\ Counted' /\ SendRemembered' /\ FreedUnused'
  BY DEF StartRecv, WorkerGoto, WSARecv, sendVars, callerVars, IInv, SendHeld, Counted,
     SendRemembered, FreedUnused
<1> QED
  BY <1>2, <1>3, <1>4, <1>5, <1>6, <1>7, <1>8 DEF IInv

\* or fails to,
LEMMA StartRecvFailsKeeps ==
  ASSUME IInv, NEW w \in Workers, StartRecvFails(w)
  PROVE  IInv'
<1>1. /\ packet[w].op = RecvOp /\ recvOp = "none" /\ ownerPC # "setup"
      /\ \A n \in 1..Len(port) : port[n].op # RecvOp
      /\ \A v \in Workers \ {w} : workerPC[v] \notin RecvPlaces
  BY OneReceiver DEF StartRecvFails, RecvPlaces
<1>2. TypeOK'
  BY <1>1, ConstantsAssumption
  DEF StartRecvFails, WorkerGoto, WSARecv, sendVars, callerVars, IInv, TypeOK,
      WorkerPlaces, RecvPlaces, SendPlaces, NoPacket, Packet, Operations, Statuses
<1>3. PacketsOnce'
  BY <1>1, ConstantsAssumption
  DEF StartRecvFails, WorkerGoto, WSARecv, sendVars, callerVars, IInv, TypeOK,
      PacketsOnce, NoPacketYet, HasPacket
<1>4. PacketFits'
  BY <1>1, ConstantsAssumption
  DEF StartRecvFails, WorkerGoto, WSARecv, sendVars, callerVars, IInv, TypeOK,
      PacketFits, SendPlaces
<1>5. DealingAnnounced'
  BY <1>1, ConstantsAssumption
  DEF StartRecvFails, WorkerGoto, WSARecv, sendVars, callerVars, IInv, TypeOK,
      DealingAnnounced
<1>6. EraseHeld'
  BY <1>1, ConstantsAssumption
  DEF StartRecvFails, WorkerGoto, WSARecv, sendVars, callerVars, IInv, TypeOK, EraseHeld
<1>7. CloseExcludes'
  BY <1>1, ConstantsAssumption
  DEF StartRecvFails, WorkerGoto, WSARecv, sendVars, callerVars, IInv, TypeOK,
      CloseExcludes
<1>8. SendHeld' /\ Counted' /\ SendRemembered' /\ FreedUnused'
  BY DEF StartRecvFails, WorkerGoto, WSARecv, sendVars, callerVars, IInv, SendHeld,
     Counted, SendRemembered, FreedUnused
<1> QED
  BY <1>2, <1>3, <1>4, <1>5, <1>6, <1>7, <1>8 DEF IInv

\* and then signals by hand.
LEMMA SignalRecvFailedKeeps ==
  ASSUME IInv, NEW w \in Workers, SignalRecvFailed(w)
  PROVE  IInv'
<1>1. /\ packet[w].op = RecvOp /\ recvOp = "none" /\ ownerPC # "setup"
      /\ \A n \in 1..Len(port) : port[n].op # RecvOp
      /\ \A v \in Workers \ {w} : workerPC[v] \notin RecvPlaces
  BY OneReceiver DEF SignalRecvFailed, RecvPlaces
<1>2. TypeOK'
  BY <1>1, ConstantsAssumption
  DEF SignalRecvFailed, WorkerGoto, sendVars, callerVars, IInv, TypeOK, WorkerPlaces,
      RecvPlaces, SendPlaces, NoPacket, Packet, Operations, Statuses
<1>3. PacketsOnce'
  BY <1>1, ConstantsAssumption
  DEF SignalRecvFailed, WorkerGoto, sendVars, callerVars, IInv, TypeOK, PacketsOnce,
      NoPacketYet, HasPacket
<1>4. PacketFits'
  BY <1>1, ConstantsAssumption
  DEF SignalRecvFailed, WorkerGoto, sendVars, callerVars, IInv, TypeOK, PacketFits,
      RecvPlaces, SendPlaces
<1>5. DealingAnnounced'
  BY <1>1, ConstantsAssumption
  DEF SignalRecvFailed, WorkerGoto, sendVars, callerVars, IInv, TypeOK,
      DealingAnnounced, RecvPlaces
<1>6. EraseHeld'
  BY <1>1, ConstantsAssumption
  DEF SignalRecvFailed, WorkerGoto, sendVars, callerVars, IInv, TypeOK, EraseHeld
<1>7. CloseExcludes'
  BY <1>1, ConstantsAssumption
  DEF SignalRecvFailed, WorkerGoto, sendVars, callerVars, IInv, TypeOK, CloseExcludes
<1>8. SendHeld' /\ Counted' /\ SendRemembered' /\ FreedUnused'
  BY DEF SignalRecvFailed, WorkerGoto, sendVars, callerVars, IInv, SendHeld, Counted,
     SendRemembered, FreedUnused
<1> QED
  BY <1>2, <1>3, <1>4, <1>5, <1>6, <1>7, <1>8 DEF IInv

\* Finding a send takes the critical section of the vector.
LEMMA WorkerFindSendKeeps ==
  ASSUME IInv, NEW w \in Workers, WorkerFindSend(w)
  PROVE  IInv'
<1>1. /\ packet[w].op \in Sends /\ sendOp[packet[w].op] \notin {"none", "pending"}
      /\ \A n \in 1..Len(port) : port[n].op # packet[w].op
  BY SendEnded DEF WorkerFindSend, SendPlaces
<1>2. TypeOK'
  BY <1>1, ConstantsAssumption
  DEF WorkerFindSend, WorkerGoto, FindSend, kernelVars, callerVars, IInv, TypeOK,
      WorkerPlaces, RecvPlaces, SendPlaces, NoPacket, Packet, Operations, Statuses,
      Results
<1>3. PacketsOnce'
  BY <1>1, ConstantsAssumption
  DEF WorkerFindSend, WorkerGoto, FindSend, kernelVars, callerVars, IInv, TypeOK,
      PacketsOnce, NoPacketYet, HasPacket
<1>4. PacketFits'
  BY <1>1, ConstantsAssumption
  DEF WorkerFindSend, WorkerGoto, FindSend, kernelVars, callerVars, IInv, TypeOK,
      PacketFits, RecvPlaces, SendPlaces
<1>5. DealingAnnounced'
  BY <1>1, ConstantsAssumption
  DEF WorkerFindSend, WorkerGoto, FindSend, kernelVars, callerVars, IInv, TypeOK,
      DealingAnnounced
<1>6. EraseHeld'
  BY <1>1, ConstantsAssumption
  DEF WorkerFindSend, WorkerGoto, FindSend, kernelVars, callerVars, IInv, TypeOK,
      EraseHeld
<1>7. CloseExcludes'
  BY <1>1, ConstantsAssumption
  DEF WorkerFindSend, WorkerGoto, FindSend, kernelVars, callerVars, IInv, TypeOK,
      CloseExcludes
<1>8. SendHeld' /\ Counted' /\ SendRemembered' /\ FreedUnused'
  BY DEF WorkerFindSend, WorkerGoto, FindSend, kernelVars, callerVars, IInv, SendHeld,
     Counted, SendRemembered, FreedUnused
<1> QED
  BY <1>2, <1>3, <1>4, <1>5, <1>6, <1>7, <1>8 DEF IInv

\* The send of a packet has ended, and nobody is inside its critical section.
LEMMA WorkerRemoveSendKeeps ==
  ASSUME IInv, NEW w \in Workers, WorkerRemoveSend(w)
  PROVE  IInv'
<1>1. /\ packet[w].op \in Sends /\ sendOp[packet[w].op] \notin {"none", "pending"}
      /\ \A n \in 1..Len(port) : port[n].op # packet[w].op
  BY SendEnded DEF WorkerRemoveSend, SendPlaces
<1>2. TypeOK'
  BY <1>1, ConstantsAssumption
  DEF WorkerRemoveSend, WorkerGoto, RemoveSend, kernelVars, callerVars, IInv, TypeOK,
      WorkerPlaces, RecvPlaces, SendPlaces, NoPacket, Packet, Operations, Statuses,
      Results
<1>3. PacketsOnce'
  BY <1>1, ConstantsAssumption
  DEF WorkerRemoveSend, WorkerGoto, RemoveSend, kernelVars, callerVars, IInv, TypeOK,
      PacketsOnce, NoPacketYet, HasPacket
<1>4. PacketFits'
  BY <1>1, ConstantsAssumption
  DEF WorkerRemoveSend, WorkerGoto, RemoveSend, kernelVars, callerVars, IInv, TypeOK,
      PacketFits, RecvPlaces, SendPlaces
<1>5. DealingAnnounced'
  BY <1>1, ConstantsAssumption
  DEF WorkerRemoveSend, WorkerGoto, RemoveSend, kernelVars, callerVars, IInv, TypeOK,
      DealingAnnounced
<1>6. SendHeld'
  BY <1>1, ConstantsAssumption
  DEF WorkerRemoveSend, WorkerGoto, RemoveSend, kernelVars, callerVars, IInv, TypeOK,
      SendHeld
<1>7. EraseHeld'
  BY <1>1, ConstantsAssumption
  DEF WorkerRemoveSend, WorkerGoto, RemoveSend, kernelVars, callerVars, IInv, TypeOK,
      EraseHeld
<1>8. Counted'
  BY <1>1, CountedLess DEF WorkerRemoveSend, RemoveSend, IInv, EraseHeld
<1>9. SendRemembered'
  BY <1>1, ConstantsAssumption
  DEF WorkerRemoveSend, WorkerGoto, RemoveSend, kernelVars, callerVars, IInv, TypeOK,
      SendRemembered
<1>10. FreedUnused'
  BY <1>1, ConstantsAssumption
  DEF WorkerRemoveSend, WorkerGoto, RemoveSend, kernelVars, callerVars, IInv, TypeOK,
      FreedUnused
<1>11. CloseExcludes'
  BY <1>1, ConstantsAssumption
  DEF WorkerRemoveSend, WorkerGoto, RemoveSend, kernelVars, callerVars, IInv, TypeOK,
      CloseExcludes
<1> QED
  BY <1>2, <1>3, <1>4, <1>5, <1>6, <1>7, <1>8, <1>9, <1>10, <1>11 DEF IInv

\* The first receive finds nothing of an earlier one.
LEMMA FirstRecvKeeps ==
  ASSUME IInv, FirstRecv
  PROVE  IInv'
<1>1. /\ \A n \in 1..Len(port) : port[n].op # RecvOp
      /\ \A w \in Workers : workerPC[w] \notin RecvPlaces
  BY NobodyReceives DEF FirstRecv, NoPacketYet
<1>2. TypeOK'
  BY <1>1, ConstantsAssumption
  DEF FirstRecv, WSARecv, sendVars, callerVars, workerVars, IInv, TypeOK, Statuses,
      BeforeClose, Closing
<1>3. PacketsOnce'
  BY <1>1, ConstantsAssumption
  DEF FirstRecv, WSARecv, sendVars, callerVars, workerVars, IInv, TypeOK, PacketsOnce,
      NoPacketYet, HasPacket
<1>4. DealingAnnounced'
  BY <1>1, ConstantsAssumption
  DEF FirstRecv, WSARecv, sendVars, callerVars, workerVars, IInv, TypeOK,
      DealingAnnounced, CloseExcludes, RecvPlaces
<1>5. CloseExcludes'
  BY <1>1, ConstantsAssumption
  DEF FirstRecv, WSARecv, sendVars, callerVars, workerVars, IInv, TypeOK, CloseExcludes,
      BeforeClose, Closing
<1>6. PacketFits' /\ SendHeld' /\ EraseHeld' /\ Counted' /\ SendRemembered' /\ FreedUnused'
  BY DEF FirstRecv, WSARecv, sendVars, callerVars, workerVars, IInv, PacketFits, SendHeld,
     EraseHeld, Counted, SendRemembered, FreedUnused
<1> QED
  BY <1>2, <1>3, <1>4, <1>5, <1>6 DEF IInv

\* Polling has two steps that change nothing else:
LEMMA ReadCloseRequestKeeps ==
  ASSUME IInv, ReadCloseRequest
  PROVE  IInv'
<1>1. TypeOK'
  BY DEF ReadCloseRequest, kernelVars, sendVars, callerVars, workerVars, IInv, TypeOK,
     BeforeClose, Closing
<1>2. PacketsOnce'
  BY DEF ReadCloseRequest, kernelVars, sendVars, callerVars, workerVars, IInv, TypeOK,
     PacketsOnce, NoPacketYet, HasPacket
<1>3. CloseExcludes'
  BY DEF ReadCloseRequest, kernelVars, sendVars, callerVars, workerVars, IInv, TypeOK,
     CloseExcludes, BeforeClose, Closing
<1>4. PacketFits' /\ DealingAnnounced' /\ SendHeld' /\ EraseHeld' /\ Counted'
      /\ SendRemembered' /\ FreedUnused'
  BY DEF ReadCloseRequest, kernelVars, sendVars, callerVars, workerVars, IInv, PacketFits,
     DealingAnnounced, SendHeld, EraseHeld, Counted, SendRemembered, FreedUnused
<1> QED
  BY <1>1, <1>2, <1>3, <1>4 DEF IInv

\* the second erases the request.
LEMMA ResetCloseRequestKeeps ==
  ASSUME IInv, ResetCloseRequest
  PROVE  IInv'
<1>1. TypeOK'
  BY DEF ResetCloseRequest, kernelVars, sendVars, callerVars, workerVars, IInv, TypeOK,
     BeforeClose, Closing
<1>2. PacketsOnce'
  BY DEF ResetCloseRequest, kernelVars, sendVars, callerVars, workerVars, IInv, TypeOK,
     PacketsOnce, NoPacketYet, HasPacket
<1>3. CloseExcludes'
  BY DEF ResetCloseRequest, kernelVars, sendVars, callerVars, workerVars, IInv, TypeOK,
     CloseExcludes, BeforeClose, Closing
<1>4. PacketFits' /\ DealingAnnounced' /\ SendHeld' /\ EraseHeld' /\ Counted'
      /\ SendRemembered' /\ FreedUnused'
  BY DEF ResetCloseRequest, kernelVars, sendVars, callerVars, workerVars, IInv,
     PacketFits, DealingAnnounced, SendHeld, EraseHeld, Counted, SendRemembered,
     FreedUnused
<1> QED
  BY <1>1, <1>2, <1>3, <1>4 DEF IInv

\* Close begins when no thread is inside Send.
LEMMA CloseSocketKeeps ==
  ASSUME IInv, CloseSocket
  PROVE  IInv'
<1>1. TypeOK'
  BY DEF CloseSocket, kernelVars, sendVars, callerVars, workerVars, IInv, TypeOK,
     BeforeClose, Closing
<1>2. PacketsOnce'
  BY DEF CloseSocket, kernelVars, sendVars, callerVars, workerVars, IInv, TypeOK,
     PacketsOnce, NoPacketYet, HasPacket
<1>3. CloseExcludes'
  BY DEF CloseSocket, kernelVars, sendVars, callerVars, workerVars, IInv, TypeOK,
     CloseExcludes, BeforeClose, Closing
<1>4. PacketFits' /\ DealingAnnounced' /\ SendHeld' /\ EraseHeld' /\ Counted'
      /\ SendRemembered' /\ FreedUnused'
  BY DEF CloseSocket, kernelVars, sendVars, callerVars, workerVars, IInv, PacketFits,
     DealingAnnounced, SendHeld, EraseHeld, Counted, SendRemembered, FreedUnused
<1> QED
  BY <1>1, <1>2, <1>3, <1>4 DEF IInv

\* The event of the receive is signaled: winsock is done with it, for good.
LEMMA WaitRecvCompletedKeeps ==
  ASSUME IInv, WaitRecvCompleted
  PROVE  IInv'
<1>1. TypeOK'
  BY DEF WaitRecvCompleted, kernelVars, sendVars, callerVars, workerVars, IInv, TypeOK,
     BeforeClose, Closing
<1>2. PacketsOnce'
  BY DEF WaitRecvCompleted, kernelVars, sendVars, callerVars, workerVars, IInv, TypeOK,
     PacketsOnce, NoPacketYet, HasPacket
<1>3. CloseExcludes'
  BY DEF WaitRecvCompleted, kernelVars, sendVars, callerVars, workerVars, IInv, TypeOK,
     CloseExcludes, DealingAnnounced, BeforeClose, Closing
<1>4. PacketFits' /\ DealingAnnounced' /\ SendHeld' /\ EraseHeld' /\ Counted'
      /\ SendRemembered' /\ FreedUnused'
  BY DEF WaitRecvCompleted, kernelVars, sendVars, callerVars, workerVars, IInv,
     PacketFits, DealingAnnounced, SendHeld, EraseHeld, Counted, SendRemembered,
     FreedUnused
<1> QED
  BY <1>1, <1>2, <1>3, <1>4 DEF IInv

\* The vector is empty, and nobody is left to add to it.
LEMMA WaitSendsCleanedUpKeeps ==
  ASSUME IInv, WaitSendsCleanedUp
  PROVE  IInv'
<1>1. TypeOK'
  BY DEF WaitSendsCleanedUp, kernelVars, sendVars, callerVars, workerVars, IInv, TypeOK,
     BeforeClose, Closing
<1>2. PacketsOnce'
  BY DEF WaitSendsCleanedUp, kernelVars, sendVars, callerVars, workerVars, IInv, TypeOK,
     PacketsOnce, NoPacketYet, HasPacket
<1>3. CloseExcludes'
  BY DEF WaitSendsCleanedUp, kernelVars, sendVars, callerVars, workerVars, IInv, TypeOK,
     CloseExcludes, BeforeClose, Closing
<1>4. PacketFits' /\ DealingAnnounced' /\ SendHeld' /\ EraseHeld' /\ Counted'
      /\ SendRemembered' /\ FreedUnused'
  BY DEF WaitSendsCleanedUp, kernelVars, sendVars, callerVars, workerVars, IInv,
     PacketFits, DealingAnnounced, SendHeld, EraseHeld, Counted, SendRemembered,
     FreedUnused
<1> QED
  BY <1>1, <1>2, <1>3, <1>4 DEF IInv

\* Nobody has data in hand, and no packet with data is queued.
LEMMA WaitDataDealtWithKeeps ==
  ASSUME IInv, WaitDataDealtWith
  PROVE  IInv'
<1>1. TypeOK'
  BY DEF WaitDataDealtWith, kernelVars, sendVars, callerVars, workerVars, IInv, TypeOK,
     BeforeClose, Closing
<1>2. PacketsOnce'
  BY DEF WaitDataDealtWith, kernelVars, sendVars, callerVars, workerVars, IInv, TypeOK,
     PacketsOnce, NoPacketYet, HasPacket
<1>3. DealingAnnounced'
  BY DEF WaitDataDealtWith, kernelVars, sendVars, callerVars, workerVars, IInv, TypeOK,
     DealingAnnounced
<1>4. CloseExcludes'
  BY DEF WaitDataDealtWith, kernelVars, sendVars, callerVars, workerVars, IInv, TypeOK,
     CloseExcludes, DealingAnnounced, BeforeClose, Closing
<1>5. PacketFits' /\ SendHeld' /\ EraseHeld' /\ Counted' /\ SendRemembered' /\ FreedUnused'
  BY DEF WaitDataDealtWith, kernelVars, sendVars, callerVars, workerVars, IInv,
     PacketFits, SendHeld, EraseHeld, Counted, SendRemembered, FreedUnused
<1> QED
  BY <1>1, <1>2, <1>3, <1>4, <1>5 DEF IInv

-------------------------------------------------------------------------------
(* The invariant, and what follows from it *)

\* A connected socket starts with nothing under way.
LEMMA InitIInv == Init => IInv
<1> SUFFICES ASSUME Init PROVE IInv
  OBVIOUS
<1>1. TypeOK
  <2>1. packet \in [Workers -> Packet] /\ port \in Seq(Packet)
    BY DEF Init, NoPacket, Packet, Operations, Statuses
  <2>2. /\ workerPC \in [Workers -> WorkerPlaces] /\ ownerPC \in BeforeClose \cup Closing
        /\ callerPC \in [Callers -> CallerPlaces] /\ result \in [Sends -> Results]
    BY DEF Init, WorkerPlaces, CallerPlaces, BeforeClose, Results
  <2>3. /\ sendOp \in [Sends -> {"none", "pending"} \cup Statuses]
        /\ sendLock \in [Sends -> Callers \cup {None}]
        /\ life \in [Sends -> {"unborn", "live", "freed"}]
        /\ block \in [Sends -> BOOLEAN]
        /\ callerSend \in [Callers -> Sends \cup {None}]
    BY DEF Init
  <2>4. /\ protocol \in {"TCP", "UDP"} /\ handle \in {"open", "closed"}
        /\ recvOp \in {"none", "pending"}
        /\ sendCleanup \in SUBSET Sends /\ sendCleanupSize \in Int
        /\ listLock \in Workers \cup Callers \cup {None}
    BY ConstantsAssumption DEF Init
  <2>5. recvEvent \in BOOLEAN /\ notDealing \in BOOLEAN /\ closeRequest \in BOOLEAN
    BY DEF Init
  <2> QED
    BY <2>1, <2>2, <2>3, <2>4, <2>5 DEF TypeOK
<1>2. PacketsOnce /\ PacketFits /\ DealingAnnounced
  BY DEF Init, PacketsOnce, PacketFits, DealingAnnounced, HasPacket, RecvPlaces, SendPlaces
<1>3. SendHeld /\ EraseHeld /\ SendRemembered /\ FreedUnused
  BY DEF Init, SendHeld, EraseHeld, SendRemembered, FreedUnused, LockedPlaces
<1>4. Counted
  <2>1. {s \in sendCleanup : ~block[s]} = {}
    BY DEF Init
  <2> QED
    BY <2>1, FS_EmptySet, ConstantsAssumption DEF Init, Counted
<1>5. CloseExcludes
  BY DEF Init, CloseExcludes, BeforeClose, Closing
<1> QED
  BY <1>1, <1>2, <1>3, <1>4, <1>5 DEF IInv

\* A step that changes nothing keeps it.
LEMMA StutterKeeps == IInv /\ UNCHANGED vars => IInv'
  BY DEF IInv, vars, kernelVars, sendVars, callerVars, workerVars, TypeOK, PacketsOnce,
         NoPacketYet, HasPacket, PacketFits, DealingAnnounced, SendHeld, EraseHeld, Counted,
         SendRemembered, FreedUnused, CloseExcludes

\* Every step keeps the invariant.
LEMMA NextIInv == IInv /\ [Next]_vars => IInv'
<1> SUFFICES ASSUME IInv, [Next]_vars PROVE IInv'
  OBVIOUS
<1>1. CASE UNCHANGED vars
  BY <1>1, StutterKeeps
<1>2. CASE WinsockStep
  BY <1>2, CompleteRecvKeeps, CompleteSendKeeps DEF WinsockStep
<1>3. ASSUME NEW c \in Callers, BeginSend(c) \/ SendSteps(c)
      PROVE  IInv'
  BY <1>3, BeginSendKeeps, AddSendKeeps, AddSendThrowsKeeps, WSASendKeeps,
     WaitForCompletionKeeps, LeaveSendKeeps, CallerFindSendKeeps,
     CallerRemoveSendKeeps
     DEF SendSteps
<1>4. ASSUME NEW w \in Workers, WorkerSteps(w)
      PROVE  IInv'
  BY <1>4, GetCompletionStatusKeeps, CompletionPortRequestCloseKeeps, DealWithDataKeeps,
     SetFinishRecvKeeps, CheckProtocolKeeps, BeginRecvKeeps, StartRecvKeeps,
     StartRecvFailsKeeps, SignalRecvFailedKeeps, WorkerFindSendKeeps,
     WorkerRemoveSendKeeps
     DEF WorkerSteps
<1>5. CASE FirstRecv \/ ReadCloseRequest \/ ResetCloseRequest \/ CloseSocket \/ CloseSteps
  BY <1>5, FirstRecvKeeps, ReadCloseRequestKeeps, ResetCloseRequestKeeps, CloseSocketKeeps,
     WaitRecvCompletedKeeps, WaitSendsCleanedUpKeeps, WaitDataDealtWithKeeps
     DEF CloseSteps
<1> QED
  BY <1>1, <1>2, <1>3, <1>4, <1>5 DEF Next

\* The inductive invariant, for any number of workers, callers and sends.
THEOREM Inductive == Spec => []IInv
  BY InitIInv, NextIInv, PTL DEF Spec

\* Every variable keeps its type.
THEOREM TypeCorrect == Spec => []TypeOK
<1>1. IInv => TypeOK
  BY DEF IInv
<1> QED
  BY <1>1, Inductive, PTL

\* While a worker deals with data, no second worker does, and winsock does not write
\* into the buffer (NetCompletionPortFunction).
THEOREM RecvBufferNotSharedHolds == Spec => []RecvBufferNotShared
<1>1. IInv => RecvBufferNotShared
  BY OneReceiver DEF RecvBufferNotShared, RecvPlaces
<1> QED
  BY <1>1, Inductive, PTL

\* Neither winsock nor a thread inside Send is left with a deleted send, unless it was
\* sent with a timeout, and the memory of sends is accounted for and limited
\* (NetSocket::Send, RemoveSend).
THEOREM SendOutlivesOperationHolds == Spec => []SendOutlivesOperation
<1>1. IInv => SendOutlivesOperation
  BY DEF IInv, SendOutlivesOperation, FreedUnused, SendHeld, Counted, LockedPlaces
<1> QED
  BY <1>1, Inductive, PTL

\* When Close returns nothing of the socket is pending, queued or being dealt with,
\* but for sends that timed out (NetSocket::Close).
THEOREM CloseLeavesNothingBehindHolds == Spec => []CloseLeavesNothingBehind
<1>1. ASSUME IInv, ownerPC = "closed"
      PROVE  /\ recvOp = "none" /\ sendCleanup = {}
             /\ \A s \in Sends : sendOp[s] = "pending" => result[s] = "kill"
             /\ \A w \in Workers : workerPC[w] # "deal"
  BY <1>1 DEF IInv, CloseExcludes, SendRemembered
<1>2. ASSUME IInv, ownerPC = "closed", NEW n \in 1..Len(port)
      PROVE  port[n].op \in Sends /\ result[port[n].op] = "kill"
  <2>1. port[n] \in Packet
    BY <1>2 DEF IInv, TypeOK
  <2>2. port[n].op \in Sends
    BY <1>2, <2>1 DEF IInv, CloseExcludes, Packet, Operations
  <2> QED
    BY <1>1, <1>2, <2>2 DEF IInv, SendRemembered
<1>3. IInv => CloseLeavesNothingBehind
  BY <1>1, <1>2 DEF CloseLeavesNothingBehind
<1> QED
  BY <1>3, Inductive, PTL

-----------------------------------------------------------------------------
(***************************************************************************)
(* TcpFraming, for packets, receives and buffers of any size: how a stream *)
(* is cut into packets.                                                    *)
(*                                                                         *)
(* What the stream says is a recursive function of the packets sent        *)
(* (Rest), about which facts are proved by induction over a set of         *)
(* numbers.  The invariant ties the unread bytes and those on the way to   *)
(* that function: at each point of time they begin with the next packet.   *)
(***************************************************************************)
\* A set that holds 0 and with each number the next one holds every number.
LEMMA SetInduction ==
    ASSUME NEW T, 0 \in T, \A n \in Nat : n \in T => n + 1 \in T
    PROVE  \A n \in Nat : n \in T
  <1> DEFINE Without == Nat \ T
             R == OpToRel(<, Nat)
  <1>1. SUFFICES ASSUME Without # {} PROVE FALSE
    OBVIOUS
  <1>2. IsWellFoundedOn(R, Nat)
    BY NatLessThanWellFounded DEF OpToRel
  <1>3. \A x, y \in Nat : <<y, x>> \notin R => ~(y < x)
    BY DEF OpToRel
  <1>4. Without \subseteq Nat
    OBVIOUS
  <1> HIDE DEF R, Without
  <1>5. PICK x \in Without : \A y \in Without : ~(<<y, x>> \in R)
    BY <1>1, <1>2, <1>4, WFMin
  <1>6. x \in Nat /\ x \notin T
    BY <1>5 DEF Without
  <1>7. x # 0 /\ x - 1 \in Nat /\ x = (x - 1) + 1 /\ x - 1 < x
    BY <1>6
  <1>8. x - 1 \in Without
    BY <1>6, <1>7 DEF Without
  <1> QED
    BY <1>3, <1>4, <1>5, <1>6, <1>7, <1>8

\* The function Rest defines exists.
LEMMA RestExists ==
    ASSUME NEW seqs, NEW n \in Nat
    PROVE  \E f : f = [j \in 1..(n + 1) |-> IF j > n THEN <<>> ELSE seqs[j] \o f[j + 1]]
  <1> DEFINE Is(f, k) == f = [j \in k..(n + 1) |-> IF j > n THEN <<>> ELSE seqs[j] \o f[j + 1]]
             T == {k \in Nat : k <= n => \E f : Is(f, n + 1 - k)}
  <1>1. 0 \in T
    <2> DEFINE g == [j \in (n + 1)..(n + 1) |-> <<>>]
    <2>1. \A j \in (n + 1)..(n + 1) : j > n
      OBVIOUS
    <2>2. g = [j \in (n + 1)..(n + 1) |-> IF j > n THEN <<>> ELSE seqs[j] \o g[j + 1]]
      BY <2>1
    <2>3. n + 1 - 0 = n + 1
      OBVIOUS
    <2>4. Is(g, n + 1 - 0)
      BY <2>2, <2>3
    <2> HIDE DEF Is, g
    <2> QED
      BY <2>4
  <1>2. ASSUME NEW k \in Nat, k \in T PROVE k + 1 \in T
    <2>1. SUFFICES ASSUME k + 1 <= n PROVE \E f : Is(f, n + 1 - (k + 1))
      <3> HIDE DEF Is
      <3> QED
        BY <1>2
    <2>2. PICK f : Is(f, n + 1 - k)
      <3> HIDE DEF Is
      <3> QED
        BY <1>2, <2>1
    <2> DEFINE m == n - k
               g == [j \in m..(n + 1) |-> IF j = m THEN seqs[m] \o f[m + 1] ELSE f[j]]
    <2>3. m \in 1..n /\ n + 1 - k = m + 1 /\ n + 1 - (k + 1) = m
      BY <2>1
    <2> HIDE DEF m
    <2>4. f = [j \in (m + 1)..(n + 1) |-> IF j > n THEN <<>> ELSE seqs[j] \o f[j + 1]]
      BY <2>2, <2>3
    <2>5. \A j \in (m + 1)..(n + 1) : f[j] = IF j > n THEN <<>> ELSE seqs[j] \o f[j + 1]
      <3> TAKE j \in (m + 1)..(n + 1)
      <3> HIDE DEF Is
      <3> QED
        BY <2>4
    <2>6. \A j \in m..(n + 1) : g[j] = IF j > n THEN <<>> ELSE seqs[j] \o g[j + 1]
      <3>1. \A j \in m..(n + 1) : j # m => j \in (m + 1)..(n + 1)
        BY <2>3
      <3>2. \A j \in m..n : j + 1 \in (m + 1)..(n + 1) /\ j + 1 # m /\ j + 1 \in m..(n + 1)
        BY <2>3
      <3>3. \A j \in (m + 1)..(n + 1) : g[j] = f[j]
        BY <2>3
      <3>4. m \in m..n /\ ~(m > n) /\ g[m] = seqs[m] \o f[m + 1]
        <4>1. m \in m..n /\ m \in m..(n + 1) /\ ~(m > n)
          BY <2>3
        <4> QED
          BY <4>1
      <3>5. \A j \in m..(n + 1) : ~(j > n) => j \in m..n
        BY <2>3
      <3> HIDE DEF g
      <3> QED
        BY <2>5, <3>1, <3>2, <3>3, <3>4, <3>5
    <2>7. g = [j \in m..(n + 1) |-> IF j > n THEN <<>> ELSE seqs[j] \o g[j + 1]]
      <3>1. g = [j \in m..(n + 1) |-> g[j]]
        OBVIOUS
      <3> HIDE DEF g
      <3> QED
        BY <2>6, <3>1
    <2>8. Is(g, n + 1 - (k + 1))
      BY <2>3, <2>7
    <2> HIDE DEF Is, g
    <2> QED
      BY <2>8
  <1>3. n \in T
    <2> HIDE DEF T
    <2> QED
      BY <1>1, <1>2, SetInduction
  <1>4. n + 1 - n = 1
    OBVIOUS
  <1>5. PICK f : Is(f, n + 1 - n)
    <2> HIDE DEF Is
    <2> QED
      BY <1>3
  <1> QED
    BY <1>4, <1>5

\* So it is what its definition says.
LEMMA RestIs ==
    ASSUME NEW seqs, Len(seqs) \in Nat
    PROVE  /\ Rest(seqs)[Len(seqs) + 1] = <<>>
           /\ \A j \in 1..Len(seqs) : Rest(seqs)[j] = seqs[j] \o Rest(seqs)[j + 1]
  <1> DEFINE Def(f) == f = [j \in 1..(Len(seqs) + 1) |->
                              IF j > Len(seqs) THEN <<>> ELSE seqs[j] \o f[j + 1]]
  <1>1. Rest(seqs) = CHOOSE f : Def(f)
    BY DEF Rest
  <1>2. \E f : Def(f)
    BY RestExists
  <1>3. Def(Rest(seqs))
    <2> HIDE DEF Def
    <2> QED
      BY <1>1, <1>2
  <1>4. \A j \in 1..(Len(seqs) + 1) :
           Rest(seqs)[j] = IF j > Len(seqs) THEN <<>> ELSE seqs[j] \o Rest(seqs)[j + 1]
    BY <1>3
  <1>5. /\ Len(seqs) + 1 \in 1..(Len(seqs) + 1) /\ Len(seqs) + 1 > Len(seqs)
        /\ \A j \in 1..Len(seqs) : j \in 1..(Len(seqs) + 1) /\ ~(j > Len(seqs))
    OBVIOUS
  <1> QED
    BY <1>4, <1>5

\* Every part of the concatenation is a sequence.
LEMMA RestType ==
    ASSUME NEW S, NEW seqs \in Seq(Seq(S))
    PROVE  \A j \in 1..(Len(seqs) + 1) : Rest(seqs)[j] \in Seq(S)
  <1> DEFINE n == Len(seqs)
             T == {k \in Nat : k <= n => Rest(seqs)[n + 1 - k] \in Seq(S)}
  <1>1. n \in Nat /\ \A j \in 1..n : seqs[j] \in Seq(S)
    BY LenProperties, ElementOfSeq
  <1>2. 0 \in T
    <2>1. Rest(seqs)[n + 1] = <<>>
      BY <1>1, RestIs
    <2>2. n + 1 - 0 = n + 1
      BY <1>1
    <2> QED
      BY <2>1, <2>2, EmptySeq
  <1>3. ASSUME NEW k \in Nat, k \in T PROVE k + 1 \in T
    <2>1. SUFFICES ASSUME k + 1 <= n PROVE Rest(seqs)[n - k] \in Seq(S)
      BY <1>1
    <2>2. n - k \in 1..n /\ (n - k) + 1 = n + 1 - k
      BY <1>1, <2>1
    <2>3. Rest(seqs)[n + 1 - k] \in Seq(S)
      BY <1>3, <2>1
    <2>4. Rest(seqs)[n - k] = seqs[n - k] \o Rest(seqs)[n + 1 - k]
      BY <1>1, <2>2, RestIs
    <2> QED
      BY <1>1, <2>2, <2>3, <2>4, ConcatProperties
  <1>4. \A k \in Nat : k \in T
    <2> HIDE DEF T
    <2> QED
      BY <1>2, <1>3, SetInduction
  <1>5. \A j \in 1..(n + 1) : n + 1 - j \in Nat /\ n + 1 - j <= n /\ n + 1 - (n + 1 - j) = j
    BY <1>1
  <1> QED
    BY <1>4, <1>5

\* Three sequences are joined in either order.
LEMMA JoinedInOrder ==
    ASSUME NEW S, NEW x \in Seq(S)
    PROVE  \A a, b \in Seq(S) : (a \o b) \o x = a \o (b \o x)
  <1> TAKE a, b \in Seq(S)
  <1> QED
    BY ConcatAssociative, SMTT(30)

\* A further sequence comes at the end of every part.
LEMMA RestGrows ==
    ASSUME NEW S, NEW seqs \in Seq(Seq(S)), NEW x \in Seq(S)
    PROVE  \A j \in 1..(Len(seqs) + 1) : Rest(Append(seqs, x))[j] = Rest(seqs)[j] \o x
  <1> DEFINE n == Len(seqs)
             all == Append(seqs, x)
             T == {k \in Nat : k <= n => Rest(all)[n + 1 - k] = Rest(seqs)[n + 1 - k] \o x}
  <1>1. /\ n \in Nat /\ \A j \in 1..n : seqs[j] \in Seq(S)
        /\ all \in Seq(Seq(S)) /\ Len(all) = n + 1 /\ all[n + 1] = x
        /\ \A j \in 1..n : all[j] = seqs[j]
    BY LenProperties, ElementOfSeq, AppendProperties
  <1>2. /\ Rest(seqs)[n + 1] = <<>>
        /\ \A j \in 1..n : Rest(seqs)[j] = seqs[j] \o Rest(seqs)[j + 1]
        /\ \A j \in 1..n : Rest(all)[j] = all[j] \o Rest(all)[j + 1]
        /\ Rest(all)[n + 1] = x \o Rest(all)[n + 2] /\ Rest(all)[n + 2] = <<>>
    <2> HIDE DEF all
    <2>1. n + 1 \in 1..Len(all) /\ 1..n \subseteq 1..Len(all) /\ (n + 1) + 1 = n + 2
      BY <1>1
    <2>2. (n + 1) + 1 = Len(all) + 1 /\ Len(seqs) \in Nat /\ Len(all) \in Nat
      BY <1>1
    <2>3. /\ Rest(seqs)[n + 1] = <<>>
          /\ \A j \in 1..n : Rest(seqs)[j] = seqs[j] \o Rest(seqs)[j + 1]
      BY <2>2, RestIs
    <2>4. /\ Rest(all)[n + 2] = <<>>
          /\ \A j \in 1..Len(all) : Rest(all)[j] = all[j] \o Rest(all)[j + 1]
      BY <2>1, <2>2, RestIs
    <2>5. all[n + 1] = x /\ Rest(all)[n + 1] = all[n + 1] \o Rest(all)[n + 2]
      BY <1>1, <2>1, <2>4
    <2>6. \A j \in 1..n : Rest(all)[j] = all[j] \o Rest(all)[j + 1]
      BY <2>1, <2>4
    <2> QED
      BY <2>3, <2>4, <2>5, <2>6
  <1>3. \A j \in 1..(n + 1) : Rest(seqs)[j] \in Seq(S)
    BY RestType
  <1>8. \A a, b \in Seq(S) : (a \o b) \o x = a \o (b \o x)
    BY JoinedInOrder, Zenon
  <1> HIDE DEF all
  <1>4. 0 \in T
    <2>1. n + 1 - 0 = n + 1 /\ x \o <<>> = x /\ <<>> \o x = x
      BY <1>1, ConcatEmptySeq
    <2> QED
      BY <1>1, <1>2, <2>1
  <1>5. ASSUME NEW k \in Nat, k \in T PROVE k + 1 \in T
    <2>8. n + 1 - (k + 1) = n - k
      BY <1>1
    <2>1. SUFFICES ASSUME k + 1 <= n PROVE Rest(all)[n - k] = Rest(seqs)[n - k] \o x
      BY <2>8
    <2>2. n - k \in 1..n /\ (n - k) + 1 = n + 1 - k /\ n + 1 - k \in 1..(n + 1)
      BY <1>1, <2>1
    <2>3. Rest(all)[n + 1 - k] = Rest(seqs)[n + 1 - k] \o x
      BY <1>5, <2>1
    <2>4. Rest(all)[n - k] = seqs[n - k] \o (Rest(seqs)[n + 1 - k] \o x)
      BY <1>1, <1>2, <2>2, <2>3
    <2>5. Rest(seqs)[n - k] = seqs[n - k] \o Rest(seqs)[n + 1 - k]
      BY <1>2, <2>2
    <2>6. seqs[n - k] \in Seq(S) /\ Rest(seqs)[n + 1 - k] \in Seq(S)
      BY <1>1, <1>3, <2>2
    <2>7. (seqs[n - k] \o Rest(seqs)[n + 1 - k]) \o x
            = seqs[n - k] \o (Rest(seqs)[n + 1 - k] \o x)
      BY <1>8, <2>6
    <2> QED
      BY <2>4, <2>5, <2>7
  <1>6. \A k \in Nat : k \in T
    <2> HIDE DEF T
    <2> QED
      BY <1>4, <1>5, SetInduction
  <1>7. \A j \in 1..(n + 1) : n + 1 - j \in Nat /\ n + 1 - j <= n /\ n + 1 - (n + 1 - j) = j
    BY <1>1
  <1> SUFFICES ASSUME NEW j \in 1..(n + 1) PROVE Rest(all)[j] = Rest(seqs)[j] \o x
    BY DEF all
  <1>9. n + 1 - j \in T
    <2> HIDE DEF T
    <2> QED
      BY <1>6, <1>7
  <1> QED
    BY <1>7, <1>9

Byte == [what : {"size", "data", "post"}, pkt : Nat, k : Nat, len : Nat]
Delivered == [n : Nat, data : Seq(Byte)]
StoredPacket == [n : Nat, data : Seq(Byte), mem : Nat]

Work == [pc : {"idle", "grow", "scan", "take", "found"}, threw : BOOLEAN, data : Seq(Byte),
         mem : Nat, limit : Nat]

\* The types of the variables that the framing rests on.
FramingTypes ==
    /\ mode \in {"prefix", "postfix", "raw"}
    /\ partial \in [bytes : Seq(Byte), cursor : Nat, mem : Nat]
    /\ partial.cursor <= Len(partial.bytes)
    /\ packetStore \in Seq(StoredPacket)
    /\ worker \in Work
    /\ mode = "raw" => worker.pc \notin {"grow", "scan"}
    /\ memoryLimit \in Nat
    /\ resize \in Nat
    /\ clearing \in BOOLEAN
    /\ wire \in Seq(Byte)
    /\ sent \in Seq(Nat)
    /\ parsed \in Nat
    /\ got \in Seq(Delivered)
    /\ broken \in BOOLEAN

\* The unread bytes and those on the way begin with the packet after the last one found.
NextBegins ==
    mode # "raw" =>
      /\ parsed <= Len(sent)
      /\ ~clearing => Unread \o Incoming = Stream(parsed + 1)

\* Until the buffer is cleared as well, the new connection has received nothing.
Reconnected ==
    clearing =>
      /\ worker.pc = "idle" /\ parsed = 0 /\ Delivery = <<>>
      /\ mode # "raw" => wire = Stream(1)

\* The packets are the packets that were sent.
Whole ==
    mode # "raw" =>
      \A k \in DOMAIN Delivery : /\ Delivery[k].n \in 1..Len(sent)
                                 /\ Delivery[k].data = Payload(Delivery[k].n)

\* In raw mode, none of the bytes is missing.
AllBytes ==
    (mode = "raw" /\ cleared = {} /\ lost = {}) => Joined(Delivery) \o wire = Stream(1)

InOrder ==
    /\ \A k, l \in DOMAIN Delivery : k < l => Delivery[k].n < Delivery[l].n
    /\ \A k \in DOMAIN Delivery : Delivery[k].n <= parsed

\* A function of the user gets each packet at once.
NothingStored == hasRecvFunc => packetStore = <<>>

Framed ==
    /\ NothingStored
    /\ ~broken => NextBegins /\ Reconnected /\ Whole /\ AllBytes /\ InOrder

-----------------------------------------------------------------------------
\* Cutting a sequence in two.
LEMMA CutInTwo ==
    ASSUME NEW S, NEW w \in Seq(S), NEW n \in 0..Len(w)
    PROVE  /\ SubSeq(w, 1, n) \in Seq(S) /\ Len(SubSeq(w, 1, n)) = n
           /\ SubSeq(w, n + 1, Len(w)) \in Seq(S)
           /\ Len(SubSeq(w, n + 1, Len(w))) = Len(w) - n
           /\ \A k \in 1..n : SubSeq(w, 1, n)[k] = w[k]
           /\ \A k \in 1..(Len(w) - n) : SubSeq(w, n + 1, Len(w))[k] = w[n + k]
           /\ SubSeq(w, 1, n) \o SubSeq(w, n + 1, Len(w)) = w
  <1> DEFINE a == SubSeq(w, 1, n)
             b == SubSeq(w, n + 1, Len(w))
  <1>1. Len(w) \in Nat /\ \A k \in 1..Len(w) : w[k] \in S
    BY LenProperties, ElementOfSeq
  <1>2. /\ a \in Seq(S) /\ Len(a) = n /\ \A k \in 1..n : a[k] = w[k]
    <2>1. \A k \in 1..n : w[k] \in S
      BY <1>1
    <2> QED
      BY <1>1, <2>1, SubSeqProperties
  <1>3. /\ b \in Seq(S) /\ Len(b) = Len(w) - n /\ \A k \in 1..(Len(w) - n) : b[k] = w[n + k]
    <2>1. \A k \in (n + 1)..Len(w) : w[k] \in S
      BY <1>1
    <2>2. /\ b \in Seq(S) /\ Len(b) = IF n + 1 <= Len(w) THEN Len(w) - (n + 1) + 1 ELSE 0
          /\ \A k \in 1..(Len(w) - (n + 1) + 1) : b[k] = w[(n + 1) + k - 1]
      BY <1>1, <2>1, SubSeqProperties
    <2>3. Len(w) - (n + 1) + 1 = Len(w) - n /\ \A k \in 1..(Len(w) - n) : (n + 1) + k - 1 = n + k
      BY <1>1
    <2>4. IF n + 1 <= Len(w) THEN Len(w) - n = Len(w) - (n + 1) + 1 ELSE Len(w) - n = 0
      BY <1>1
    <2> HIDE DEF b
    <2> QED
      BY <2>2, <2>3, <2>4
  <1> HIDE DEF a, b
  <1>4. a \o b = w
    <2>1. /\ a \o b \in Seq(S) /\ Len(a \o b) = Len(w)
          /\ \A k \in 1..Len(w) : (a \o b)[k] = IF k <= n THEN a[k] ELSE b[k - n]
      BY <1>1, <1>2, <1>3, ConcatProperties
    <2>2. ASSUME NEW k \in 1..Len(w) PROVE (a \o b)[k] = w[k]
      <3>1. CASE k <= n
        BY <1>1, <1>2, <2>1, <3>1
      <3>2. CASE ~(k <= n)
        <4>1. k - n \in 1..(Len(w) - n) /\ n + (k - n) = k
          BY <1>1, <3>2
        <4> QED
          BY <1>3, <2>1, <3>2, <4>1
      <3> QED
        BY <3>1, <3>2
    <2> QED
      BY <1>1, <2>1, <2>2, SeqEqual
  <1> QED
    BY <1>2, <1>3, <1>4 DEF a, b

\* What is appended to a sequence is appended to its unread part.
LEMMA UnreadGrows ==
    ASSUME NEW S, NEW b \in Seq(S), NEW x \in Seq(S), NEW c \in 0..Len(b)
    PROVE  /\ b \o x \in Seq(S) /\ Len(b \o x) = Len(b) + Len(x)
           /\ SubSeq(b \o x, c + 1, Len(b \o x)) = SubSeq(b, c + 1, Len(b)) \o x
  <1>1. /\ Len(b) \in Nat /\ Len(x) \in Nat
        /\ b \o x \in Seq(S) /\ Len(b \o x) = Len(b) + Len(x)
        /\ \A k \in 1..(Len(b) + Len(x)) : (b \o x)[k] = IF k <= Len(b) THEN b[k] ELSE x[k - Len(b)]
    BY LenProperties, ConcatProperties
  <1> DEFINE l == SubSeq(b \o x, c + 1, Len(b \o x))
             u == SubSeq(b, c + 1, Len(b))
  <1>2. /\ u \in Seq(S) /\ Len(u) = Len(b) - c /\ \A k \in 1..(Len(b) - c) : u[k] = b[c + k]
    BY CutInTwo
  <1>3. c \in 0..Len(b \o x)
    BY <1>1
  <1>4. /\ l \in Seq(S) /\ Len(l) = Len(b \o x) - c
        /\ \A k \in 1..(Len(b \o x) - c) : l[k] = (b \o x)[c + k]
    BY <1>1, <1>3, CutInTwo
  <1> HIDE DEF l, u
  <1>5. /\ u \o x \in Seq(S) /\ Len(u \o x) = Len(l)
        /\ \A k \in 1..Len(l) : (u \o x)[k] = IF k <= Len(u) THEN u[k] ELSE x[k - Len(u)]
    <2>1. Len(l) = Len(u) + Len(x)
      BY <1>1, <1>2, <1>4
    <2> QED
      BY <1>2, <2>1, ConcatProperties
  <1>6. ASSUME NEW k \in 1..Len(l) PROVE l[k] = (u \o x)[k]
    <2>1. /\ c + k \in 1..(Len(b) + Len(x)) /\ k \in 1..(Len(b \o x) - c)
          /\ (c + k) - Len(b) = k - (Len(b) - c)
          /\ c + k <= Len(b) <=> k <= Len(b) - c
          /\ k <= Len(b) - c => k \in 1..(Len(b) - c)
      BY <1>1, <1>4
    <2>2. l[k] = IF c + k <= Len(b) THEN b[c + k] ELSE x[(c + k) - Len(b)]
      BY <1>1, <1>4, <2>1
    <2> QED
      BY <1>2, <1>5, <2>1, <2>2
  <1>7. l = u \o x
    BY <1>4, <1>5, <1>6, SeqEqual
  <1> QED
    BY <1>1, <1>7 DEF l, u

\* Reading m elements more.
LEMMA UnreadShrinks ==
    ASSUME NEW S, NEW b \in Seq(S), NEW c \in 0..Len(b), NEW m \in 0..(Len(b) - c)
    PROVE  SubSeq(b, c + m + 1, Len(b))
             = SubSeq(SubSeq(b, c + 1, Len(b)), m + 1, Len(SubSeq(b, c + 1, Len(b))))
  <1> DEFINE u == SubSeq(b, c + 1, Len(b))
             l == SubSeq(b, c + m + 1, Len(b))
             r == SubSeq(u, m + 1, Len(u))
  <1>1. Len(b) \in Nat
    BY LenProperties
  <1>2. /\ u \in Seq(S) /\ Len(u) = Len(b) - c /\ \A k \in 1..(Len(b) - c) : u[k] = b[c + k]
    BY CutInTwo
  <1>3. c + m \in 0..Len(b) /\ m \in 0..Len(u)
    BY <1>1, <1>2
  <1>4. /\ l \in Seq(S) /\ Len(l) = Len(b) - (c + m)
        /\ \A k \in 1..(Len(b) - (c + m)) : l[k] = b[(c + m) + k]
    BY <1>3, CutInTwo
  <1> HIDE DEF u
  <1>5. /\ r \in Seq(S) /\ Len(r) = Len(u) - m /\ \A k \in 1..(Len(u) - m) : r[k] = u[m + k]
    BY <1>2, <1>3, CutInTwo
  <1> HIDE DEF l, r
  <1>6. ASSUME NEW k \in 1..Len(l) PROVE l[k] = r[k]
    <2>1. /\ k \in 1..(Len(b) - (c + m)) /\ k \in 1..(Len(u) - m)
          /\ m + k \in 1..(Len(b) - c) /\ c + (m + k) = (c + m) + k
      BY <1>1, <1>2, <1>4
    <2> QED
      BY <1>2, <1>4, <1>5, <2>1
  <1>7. Len(l) = Len(r)
    BY <1>1, <1>2, <1>4, <1>5
  <1> QED
    BY <1>4, <1>5, <1>6, <1>7, SeqEqual DEF l, r, u

\* If what was received is enough, what is left of it continues after the first part of
\* what is there.
LEMMA FirstPart ==
    ASSUME NEW S, NEW u \in Seq(S), NEW w \in Seq(S), NEW e \in Seq(S), NEW r \in Seq(S),
           u \o w = e \o r, Len(e) <= Len(u)
    PROVE  SubSeq(u, Len(e) + 1, Len(u)) \o w = r
  <1> DEFINE b == SubSeq(u, Len(e) + 1, Len(u))
  <1>1. Len(e) \in 0..Len(u) /\ Len(u) \in Nat /\ Len(w) \in Nat /\ Len(r) \in Nat
    BY LenProperties
  <1>2. /\ Len(u) + Len(w) = Len(e) + Len(r)
        /\ \A k \in 1..(Len(e) + Len(r)) :
             (IF k <= Len(u) THEN u[k] ELSE w[k - Len(u)])
               = (IF k <= Len(e) THEN e[k] ELSE r[k - Len(e)])
    <2>1. /\ Len(u \o w) = Len(u) + Len(w)
          /\ \A k \in 1..(Len(u) + Len(w)) : (u \o w)[k] = IF k <= Len(u) THEN u[k] ELSE w[k - Len(u)]
          /\ Len(e \o r) = Len(e) + Len(r)
          /\ \A k \in 1..(Len(e) + Len(r)) : (e \o r)[k] = IF k <= Len(e) THEN e[k] ELSE r[k - Len(e)]
      BY ConcatProperties
    <2> QED
      BY <2>1
  <1>4. /\ b \in Seq(S) /\ Len(b) = Len(u) - Len(e)
        /\ \A k \in 1..(Len(u) - Len(e)) : b[k] = u[Len(e) + k]
    BY <1>1, CutInTwo
  <1> HIDE DEF b
  <1>5. /\ b \o w \in Seq(S) /\ Len(b \o w) = Len(r)
        /\ \A k \in 1..Len(r) : (b \o w)[k] = IF k <= Len(b) THEN b[k] ELSE w[k - Len(b)]
    <2>1. Len(b) + Len(w) = Len(r)
      BY <1>1, <1>2, <1>4
    <2> QED
      BY <1>4, <2>1, ConcatProperties
  <1>6. ASSUME NEW k \in 1..Len(r) PROVE (b \o w)[k] = r[k]
    <2>1. /\ Len(e) + k \in 1..(Len(e) + Len(r)) /\ ~(Len(e) + k <= Len(e))
          /\ (Len(e) + k) - Len(e) = k /\ (Len(e) + k) - Len(u) = k - Len(b)
          /\ Len(e) + k <= Len(u) <=> k <= Len(b)
          /\ k <= Len(b) => k \in 1..(Len(u) - Len(e))
      BY <1>1, <1>4
    <2>2. (IF Len(e) + k <= Len(u) THEN u[Len(e) + k] ELSE w[(Len(e) + k) - Len(u)]) = r[k]
      BY <1>2, <2>1
    <2>3. CASE k <= Len(b)
      BY <1>4, <1>5, <2>1, <2>2, <2>3
    <2>4. CASE ~(k <= Len(b))
      BY <1>5, <2>1, <2>2, <2>4
    <2> QED
      BY <2>3, <2>4
  <1>7. b \o w = r
    BY <1>5, <1>6, SeqEqual
  <1> QED
    BY <1>7 DEF b

-----------------------------------------------------------------------------
\* The unread bytes are those of the buffer behind its cursor.
LEMMA UnreadIs ==
    ASSUME FramingTypes
    PROVE  /\ partial.bytes \in Seq(Byte) /\ partial.cursor \in 0..Len(partial.bytes)
           /\ Used \in Nat /\ Remainder \in Nat
           /\ Unread \in Seq(Byte) /\ Len(Unread) = Remainder
  <1>1. partial.bytes \in Seq(Byte) /\ partial.cursor \in Nat /\ partial.cursor <= Len(partial.bytes)
    BY DEF FramingTypes
  <1>2. Len(partial.bytes) \in Nat /\ partial.cursor \in 0..Len(partial.bytes)
    BY <1>1, LenProperties
  <1> QED
    BY <1>1, <1>2, CutInTwo DEF Used, Remainder, Unread

\* The parts of a concatenation.
LEMMA ConcatParts ==
    ASSUME NEW S, NEW a \in Seq(S), NEW b \in Seq(S)
    PROVE  /\ a \o b \in Seq(S) /\ Len(a \o b) = Len(a) + Len(b)
           /\ \A k \in 1..Len(a) : (a \o b)[k] = a[k]
           /\ \A k \in 1..Len(b) : (a \o b)[Len(a) + k] = b[k]
  <1>1. Len(a) \in Nat /\ Len(b) \in Nat
    BY LenProperties
  <1>2. /\ \A k \in 1..Len(a) : k \in 1..(Len(a) + Len(b)) /\ k <= Len(a)
        /\ \A k \in 1..Len(b) : /\ Len(a) + k \in 1..(Len(a) + Len(b)) /\ ~(Len(a) + k <= Len(a))
                                /\ (Len(a) + k) - Len(a) = k
    BY <1>1
  <1> QED
    BY <1>2, ConcatProperties

\* What the other end makes of a packet.
LEMMA EncodedIs ==
    ASSUME FramingTypes, NEW i \in Nat, NEW len \in Nat
    PROVE  /\ Encoded(i, len) \in Seq(Byte)
           /\ mode = "prefix" =>
                /\ Len(Encoded(i, len)) = PrefixSizeBytes + len
                /\ \A k \in 1..PrefixSizeBytes :
                     Encoded(i, len)[k] = [what |-> "size", pkt |-> i, k |-> k, len |-> len]
                /\ \A k \in 1..len : Encoded(i, len)[PrefixSizeBytes + k]
                                       = [what |-> "data", pkt |-> i, k |-> k, len |-> len]
           /\ mode = "postfix" =>
                /\ Len(Encoded(i, len)) = len + PostfixSize
                /\ \A k \in 1..len :
                     Encoded(i, len)[k] = [what |-> "data", pkt |-> i, k |-> k, len |-> len]
                /\ \A k \in 1..PostfixSize : Encoded(i, len)[len + k]
                                       = [what |-> "post", pkt |-> i, k |-> k, len |-> len]
  <1> DEFINE Run(w, n) == [k \in 1..n |-> [what |-> w, pkt |-> i, k |-> k, len |-> len]]
             e == Encoded(i, len)
  <1>1. PrefixSizeBytes \in Nat /\ PostfixSize \in Nat
    BY FramingAssumption
  <1>2. ASSUME NEW n \in Nat, NEW w \in {"size", "data", "post"}
        PROVE  /\ Run(w, n) \in Seq(Byte) /\ Len(Run(w, n)) = n
               /\ \A k \in 1..n : Run(w, n)[k] = [what |-> w, pkt |-> i, k |-> k, len |-> len]
    <2>1. \A k \in 1..n : [what |-> w, pkt |-> i, k |-> k, len |-> len] \in Byte
      BY DEF Byte
    <2> QED
      BY <2>1
  <1>3. /\ mode = "prefix" => e = Run("size", PrefixSizeBytes) \o Run("data", len)
        /\ mode = "postfix" => e = Run("data", len) \o Run("post", PostfixSize)
        /\ mode = "raw" => e = Run("data", len)
    BY DEF Encoded
  <1>4. mode \in {"prefix", "postfix", "raw"}
    BY DEF FramingTypes
  <1> HIDE DEF Run, e
  <1>6. CASE mode = "prefix"
    <2>1. /\ Run("size", PrefixSizeBytes) \in Seq(Byte)
          /\ Len(Run("size", PrefixSizeBytes)) = PrefixSizeBytes
          /\ \A k \in 1..PrefixSizeBytes : Run("size", PrefixSizeBytes)[k]
                                       = [what |-> "size", pkt |-> i, k |-> k, len |-> len]
          /\ Run("data", len) \in Seq(Byte) /\ Len(Run("data", len)) = len
          /\ \A k \in 1..len : Run("data", len)[k]
                                 = [what |-> "data", pkt |-> i, k |-> k, len |-> len]
      BY <1>1, <1>2
    <2> DEFINE a == Run("size", PrefixSizeBytes)
               b == Run("data", len)
    <2>2. a \in Seq(Byte) /\ b \in Seq(Byte) /\ Len(a) = PrefixSizeBytes /\ Len(b) = len
      BY <2>1
    <2> HIDE DEF a, b
    <2>3. /\ a \o b \in Seq(Byte) /\ Len(a \o b) = PrefixSizeBytes + len
          /\ \A k \in 1..PrefixSizeBytes : (a \o b)[k] = a[k]
          /\ \A k \in 1..len : (a \o b)[PrefixSizeBytes + k] = b[k]
      <3>1. /\ a \o b \in Seq(Byte) /\ Len(a \o b) = Len(a) + Len(b)
            /\ \A k \in 1..Len(a) : (a \o b)[k] = a[k]
            /\ \A k \in 1..Len(b) : (a \o b)[Len(a) + k] = b[k]
        <4>1. a \in Seq(Byte) /\ b \in Seq(Byte)
          BY <2>2
        <4> QED
          BY <4>1, ConcatParts
      <3> QED
        BY <2>2, <3>1
    <2>4. e = a \o b
      BY <1>3, <1>6 DEF a, b
    <2> QED
      BY <1>6, <2>1, <2>3, <2>4 DEF e, a, b
  <1>7. CASE mode = "postfix"
    <2>1. /\ Run("post", PostfixSize) \in Seq(Byte)
          /\ Len(Run("post", PostfixSize)) = PostfixSize
          /\ \A k \in 1..PostfixSize : Run("post", PostfixSize)[k]
                                       = [what |-> "post", pkt |-> i, k |-> k, len |-> len]
          /\ Run("data", len) \in Seq(Byte) /\ Len(Run("data", len)) = len
          /\ \A k \in 1..len : Run("data", len)[k]
                                 = [what |-> "data", pkt |-> i, k |-> k, len |-> len]
      BY <1>1, <1>2
    <2> DEFINE a == Run("data", len)
               b == Run("post", PostfixSize)
    <2>2. a \in Seq(Byte) /\ b \in Seq(Byte) /\ Len(a) = len /\ Len(b) = PostfixSize
      BY <2>1
    <2> HIDE DEF a, b
    <2>3. /\ a \o b \in Seq(Byte) /\ Len(a \o b) = len + PostfixSize
          /\ \A k \in 1..len : (a \o b)[k] = a[k]
          /\ \A k \in 1..PostfixSize : (a \o b)[len + k] = b[k]
      <3>1. /\ a \o b \in Seq(Byte) /\ Len(a \o b) = Len(a) + Len(b)
            /\ \A k \in 1..Len(a) : (a \o b)[k] = a[k]
            /\ \A k \in 1..Len(b) : (a \o b)[Len(a) + k] = b[k]
        <4>1. a \in Seq(Byte) /\ b \in Seq(Byte)
          BY <2>2
        <4> QED
          BY <4>1, ConcatParts
      <3> QED
        BY <2>2, <3>1
    <2>4. e = a \o b
      BY <1>3, <1>7 DEF a, b
    <2> QED
      BY <1>7, <2>1, <2>3, <2>4 DEF e, a, b
  <1>8. CASE mode = "raw"
    BY <1>2, <1>3, <1>8 DEF e
  <1> QED
    BY <1>4, <1>6, <1>7, <1>8

\* The encoding of each packet sent.
LEMMA EncodingsIs ==
    ASSUME FramingTypes
    PROVE  /\ Encodings \in Seq(Seq(Byte)) /\ Len(Encodings) = Len(sent) /\ Len(sent) \in Nat
           /\ \A i \in 1..Len(sent) : Encodings[i] = Encoded(i, sent[i]) /\ sent[i] \in Nat
  <1>1. sent \in Seq(Nat)
    BY DEF FramingTypes
  <1>2. Len(sent) \in Nat /\ DOMAIN sent = 1..Len(sent) /\ \A i \in 1..Len(sent) : sent[i] \in Nat
    BY <1>1, LenProperties, ElementOfSeq
  <1>3. \A i \in 1..Len(sent) : Encoded(i, sent[i]) \in Seq(Byte)
    <2> TAKE i \in 1..Len(sent)
    <2>1. i \in Nat /\ sent[i] \in Nat
      BY <1>2
    <2> QED
      BY <2>1, EncodedIs
  <1>4. Encodings = [i \in 1..Len(sent) |-> Encoded(i, sent[i])]
    BY <1>2 DEF Encodings
  <1>5. Encodings \in Seq(Seq(Byte)) /\ Len(Encodings) = Len(sent)
    BY <1>2, <1>3, <1>4
  <1> QED
    BY <1>2, <1>4, <1>5

\* The stream, packet by packet.
LEMMA StreamIs ==
    ASSUME FramingTypes
    PROVE  /\ \A i \in 1..(Len(sent) + 1) : Stream(i) \in Seq(Byte)
           /\ Stream(Len(sent) + 1) = <<>>
           /\ \A i \in 1..Len(sent) : Stream(i) = Encoded(i, sent[i]) \o Stream(i + 1)
  <1>1. /\ Encodings \in Seq(Seq(Byte)) /\ Len(Encodings) = Len(sent) /\ Len(sent) \in Nat
        /\ \A i \in 1..Len(sent) : Encodings[i] = Encoded(i, sent[i])
    BY EncodingsIs
  <1>2. \A i \in 1..(Len(sent) + 1) : Rest(Encodings)[i] \in Seq(Byte)
    BY <1>1, RestType
  <1>3. /\ Rest(Encodings)[Len(Encodings) + 1] = <<>>
        /\ \A i \in 1..Len(Encodings) : Rest(Encodings)[i] = Encodings[i] \o Rest(Encodings)[i + 1]
    BY <1>1, RestIs
  <1> QED
    BY <1>1, <1>2, <1>3 DEF Stream

\* A packet sent comes at its end.
LEMMA StreamGrows ==
    ASSUME FramingTypes, NEW len \in Nat, sent' = Append(sent, len), mode' = mode
    PROVE  \A i \in 1..(Len(sent) + 1) : Stream(i)' = Stream(i) \o Encoded(Len(sent) + 1, len)
  <1> DEFINE x == Encoded(Len(sent) + 1, len)
  <1>1. /\ Encodings \in Seq(Seq(Byte)) /\ Len(Encodings) = Len(sent) /\ Len(sent) \in Nat
        /\ \A i \in 1..Len(sent) : Encodings[i] = Encoded(i, sent[i])
        /\ sent \in Seq(Nat)
    BY EncodingsIs DEF FramingTypes
  <1>2. x \in Seq(Byte)
    BY <1>1, EncodedIs
  <1>3. /\ Len(sent') = Len(sent) + 1 /\ DOMAIN sent' = 1..(Len(sent) + 1)
        /\ sent'[Len(sent) + 1] = len
        /\ \A i \in 1..Len(sent) : sent'[i] = sent[i]
    BY <1>1
  <1>4. Encodings' = Append(Encodings, x)
    <2>1. \A i, n : Encoded(i, n)' = Encoded(i, n)
      BY DEF Encoded
    <2>2. Encodings' = [i \in 1..(Len(sent) + 1) |-> Encoded(i, sent'[i])]
      BY <1>3, <2>1 DEF Encodings
    <2>3. /\ Append(Encodings, x) \in Seq(Seq(Byte)) /\ Len(Append(Encodings, x)) = Len(sent) + 1
          /\ Append(Encodings, x)[Len(sent) + 1] = x
          /\ \A i \in 1..Len(sent) : Append(Encodings, x)[i] = Encodings[i]
      <3> HIDE DEF x
      <3> QED
        BY <1>1, <1>2, AppendProperties
    <2>4. Append(Encodings, x) \in [1..(Len(sent) + 1) -> Seq(Byte)]
      <3> HIDE DEF x
      <3> QED
        BY <2>3, LenProperties
    <2>5. \A i \in 1..(Len(sent) + 1) : Append(Encodings, x)[i] = Encoded(i, sent'[i])
      <3> TAKE i \in 1..(Len(sent) + 1)
      <3>1. CASE i = Len(sent) + 1
        BY <1>3, <2>3, <3>1
      <3>2. CASE i \in 1..Len(sent)
        BY <1>1, <1>3, <2>3, <3>2
      <3> QED
        BY <1>1, <3>1, <3>2
    <2>6. Append(Encodings, x) = [i \in 1..(Len(sent) + 1) |-> Append(Encodings, x)[i]]
      BY <2>4
    <2> HIDE DEF x
    <2> QED
      BY <2>2, <2>5, <2>6
  <1> HIDE DEF x
  <1>5. \A i \in 1..(Len(sent) + 1) : Rest(Append(Encodings, x))[i] = Rest(Encodings)[i] \o x
    BY <1>1, <1>2, RestGrows
  <1> QED
    BY <1>4, <1>5 DEF Stream, x

\* The stream is the same as long as nothing is sent and the mode stays.
LEMMA StreamSame ==
    ASSUME UNCHANGED <<sent, mode>>
    PROVE  /\ \A i : Stream(i)' = Stream(i)
           /\ \A i : Payload(i)' = Payload(i)
  <1>1. \A i, n : Encoded(i, n)' = Encoded(i, n)
    BY DEF Encoded
  <1>2. Encodings' = Encodings
    BY <1>1 DEF Encodings
  <1> QED
    BY <1>2 DEF Stream, Payload

-----------------------------------------------------------------------------
\* The packets a user gets.
LEMMA DeliveryIs ==
    ASSUME FramingTypes
    PROVE  /\ got \in Seq(Delivered) /\ Stored \in Seq(Delivered) /\ InHand \in Seq(Delivered)
           /\ Len(Stored) = Len(packetStore)
           /\ got \o Stored \in Seq(Delivered)
           /\ Delivery \in Seq(Delivered)
  <1>1. /\ packetStore \in Seq(StoredPacket) /\ got \in Seq(Delivered) /\ parsed \in Nat
        /\ worker.data \in Seq(Byte)
    BY DEF FramingTypes, Work
  <1>2. Stored \in Seq(Delivered) /\ Len(Stored) = Len(packetStore)
    <2>1. /\ Len(packetStore) \in Nat /\ DOMAIN packetStore = 1..Len(packetStore)
          /\ \A k \in 1..Len(packetStore) : packetStore[k] \in StoredPacket
      BY <1>1, LenProperties, ElementOfSeq
    <2>2. \A k \in 1..Len(packetStore) :
             [n |-> packetStore[k].n, data |-> packetStore[k].data] \in Delivered
      BY <2>1 DEF StoredPacket, Delivered
    <2>3. Stored = [k \in 1..Len(packetStore) |->
                      [n |-> packetStore[k].n, data |-> packetStore[k].data]]
      BY <2>1 DEF Stored
    <2> QED
      BY <2>1, <2>2, <2>3
  <1>3. InHand \in Seq(Delivered)
    <2>1. [n |-> parsed, data |-> worker.data] \in Delivered
      BY <1>1 DEF Delivered
    <2> QED
      BY <2>1 DEF InHand
  <1>4. got \o Stored \in Seq(Delivered)
    BY <1>1, <1>2, ConcatProperties
  <1>5. (got \o Stored) \o InHand \in Seq(Delivered)
    BY <1>3, <1>4, ConcatProperties
  <1> QED
    BY <1>1, <1>2, <1>3, <1>4, <1>5 DEF Delivery

\* A packet delivered adds its bytes.
LEMMA JoinedIs ==
    ASSUME NEW ds \in Seq(Delivered), NEW d \in Delivered
    PROVE  /\ Joined(<<>>) = <<>>
           /\ Joined(ds) \in Seq(Byte)
           /\ Joined(Append(ds, d)) = Joined(ds) \o d.data
  <1> DEFINE Datas(s) == [k \in DOMAIN s |-> s[k].data]
  <1>1. Joined(<<>>) = <<>>
    <2>1. Datas(<<>>) = <<>> /\ Len(<<>>) = 0
      OBVIOUS
    <2>2. Rest(<<>>)[Len(<<>>) + 1] = <<>>
      BY <2>1, RestIs
    <2> QED
      BY <2>1, <2>2 DEF Joined
  <1>2. /\ Len(ds) \in Nat /\ DOMAIN ds = 1..Len(ds) /\ \A k \in 1..Len(ds) : ds[k] \in Delivered
        /\ Append(ds, d) \in Seq(Delivered) /\ Len(Append(ds, d)) = Len(ds) + 1
        /\ DOMAIN Append(ds, d) = 1..(Len(ds) + 1)
        /\ \A k \in 1..Len(ds) : Append(ds, d)[k] = ds[k]
        /\ Append(ds, d)[Len(ds) + 1] = d
    BY LenProperties, ElementOfSeq, AppendProperties
  <1>3. Datas(ds) \in Seq(Seq(Byte)) /\ Len(Datas(ds)) = Len(ds) /\ d.data \in Seq(Byte)
    <2>1. \A k \in 1..Len(ds) : ds[k].data \in Seq(Byte)
      BY <1>2 DEF Delivered
    <2>2. Datas(ds) = [k \in 1..Len(ds) |-> ds[k].data]
      BY <1>2
    <2>3. d.data \in Seq(Byte)
      BY DEF Delivered
    <2> HIDE DEF Datas
    <2> QED
      BY <1>2, <2>1, <2>2, <2>3
  <1>4. Datas(Append(ds, d)) = Append(Datas(ds), d.data)
    <2> DEFINE l == Datas(Append(ds, d))
               r == Append(Datas(ds), d.data)
               all == Append(ds, d)
    <2>1. l = [k \in 1..(Len(ds) + 1) |-> all[k].data]
      BY <1>2
    <2>2. /\ r \in [1..(Len(ds) + 1) -> Seq(Byte)]
          /\ \A k \in 1..Len(ds) : r[k] = Datas(ds)[k]
          /\ r[Len(ds) + 1] = d.data
      <3> HIDE DEF Datas
      <3>1. /\ r \in Seq(Seq(Byte)) /\ Len(r) = Len(ds) + 1
            /\ \A k \in 1..Len(ds) : r[k] = Datas(ds)[k]
            /\ r[Len(ds) + 1] = d.data
        BY <1>3, AppendProperties
      <3> HIDE DEF r
      <3> QED
        BY <3>1, LenProperties
    <2>3. r = [k \in 1..(Len(ds) + 1) |-> r[k]]
      <3> HIDE DEF r
      <3> QED
        BY <2>2
    <2>4. \A k \in 1..(Len(ds) + 1) : r[k] = all[k].data
      <3> HIDE DEF r
      <3> TAKE k \in 1..(Len(ds) + 1)
      <3>1. CASE k = Len(ds) + 1
        BY <1>2, <2>2, <3>1
      <3>2. CASE k \in 1..Len(ds)
        <4>1. Datas(ds)[k] = ds[k].data
          BY <1>2, <3>2
        <4> HIDE DEF Datas
        <4> QED
          BY <1>2, <2>2, <3>2, <4>1
      <3> QED
        BY <1>2, <3>1, <3>2
    <2> HIDE DEF l, r
    <2>5. l = r
      BY <2>1, <2>3, <2>4
    <2> QED
      BY <2>5 DEF l, r
  <1> HIDE DEF Datas
  <1>5. 1 \in 1..(Len(Datas(ds)) + 1)
    BY <1>2, <1>3
  <1>6. Rest(Datas(ds))[1] \in Seq(Byte)
    BY <1>3, <1>5, RestType
  <1>7. Rest(Append(Datas(ds), d.data))[1] = Rest(Datas(ds))[1] \o d.data
    BY <1>3, <1>5, RestGrows
  <1> QED
    BY <1>1, <1>4, <1>6, <1>7 DEF Joined, Datas

-----------------------------------------------------------------------------
\* A worker that may grow the buffer is at work on that.
LEMMA GrowForIs ==
    ASSUME FramingTypes, NEW data \in Seq(Byte), NEW n \in Nat, GrowFor(data, n)
    PROVE  /\ worker' \in Work
           /\ worker' = [pc |-> "grow", threw |-> FALSE, data |-> data, mem |-> n, limit |-> memoryLimit]
  <1>1. memoryLimit \in Nat
    BY DEF FramingTypes
  <1>2. worker' = [pc |-> "grow", threw |-> FALSE, data |-> data, mem |-> n, limit |-> memoryLimit]
    BY DEF GrowFor, Idle
  <1> QED
    BY <1>1, <1>2 DEF Work

\* The bytes still to come are bytes, and those on the way unless the buffer grows for some.
LEMMA IncomingIs ==
    ASSUME FramingTypes
    PROVE  /\ Incoming \in Seq(Byte)
           /\ worker.pc # "grow" => Incoming = wire
           /\ worker.pc = "grow" => Incoming = worker.data \o wire
           /\ wire' \in Seq(Byte) /\ worker'.pc # "grow" => Incoming' = wire'
           /\ worker'.pc = "grow" => Incoming' = worker'.data \o wire'
  <1>4. ASSUME wire' \in Seq(Byte), worker'.pc # "grow" PROVE Incoming' = wire'
    BY <1>4, ConcatEmptySeq DEF Incoming
  <1>5. ASSUME worker'.pc = "grow" PROVE Incoming' = worker'.data \o wire'
    BY <1>5 DEF Incoming
  <1>1. wire \in Seq(Byte) /\ worker.data \in Seq(Byte)
    BY DEF FramingTypes, Work
  <1>2. <<>> \o wire = wire
    BY <1>1, ConcatEmptySeq
  <1>3. worker.data \o wire \in Seq(Byte)
    BY <1>1, ConcatProperties
  <1> QED
    BY <1>1, <1>2, <1>3, <1>4, <1>5 DEF Incoming

\* Whatever is taken for a size prefix is a number.
LEMMA PrefixAtIs ==
    ASSUME FramingTypes, Remainder >= PrefixSizeBytes
    PROVE  PrefixAt \subseteq Nat
  <1>1. PrefixSizeBytes \in Nat \ {0} /\ Garbage \subseteq Nat
    BY FramingAssumption
  <1>2. Unread \in Seq(Byte) /\ Len(Unread) >= 1
    BY <1>1, UnreadIs
  <1>3. Unread[1] \in Byte
    BY <1>2
  <1>4. Unread[1].len \in Nat
    BY <1>3 DEF Byte
  <1> QED
    BY <1>1, <1>4 DEF PrefixAt

\* The types after a packet was found.
LEMMA FoundTypes ==
    ASSUME FramingTypes, NEW data \in Seq(Byte), Found(data)
    PROVE  /\ parsed' = parsed + 1 /\ parsed' \in Nat
           /\ worker' \in Work
           /\ worker'.pc \notin {"grow", "scan"}
  <1>1. parsed \in Nat /\ Len(data) \in Nat /\ PacketSize \in Nat /\ memoryLimit \in Nat
    BY FramingAssumption, LenProperties DEF FramingTypes
  <1>2. PacketMemory(Len(data)) \in Nat
    BY <1>1 DEF PacketMemory
  <1>3. <<>> \in Seq(Byte)
    BY EmptySeq
  <1>4. \/ worker' = [pc |-> "idle", threw |-> TRUE, data |-> <<>>, mem |-> 0, limit |-> 0]
        \/ \E pc \in {"take", "found"} :
             worker' = [pc |-> pc, threw |-> FALSE, data |-> data, mem |-> PacketMemory(Len(data)),
                        limit |-> memoryLimit]
    BY DEF Found, Idle
  <1>5. parsed' = parsed + 1
    BY DEF Found
  <1>6. CASE worker' = [pc |-> "idle", threw |-> TRUE, data |-> <<>>, mem |-> 0, limit |-> 0]
    BY <1>1, <1>3, <1>5, <1>6 DEF Work
  <1>7. ASSUME NEW pc \in {"take", "found"},
               worker' = [pc |-> pc, threw |-> FALSE, data |-> data, mem |-> PacketMemory(Len(data)),
                          limit |-> memoryLimit]
        PROVE  worker' \in Work /\ worker'.pc \notin {"grow", "scan"}
    BY <1>1, <1>2, <1>7 DEF Work
  <1>8. worker' \in Work /\ worker'.pc \notin {"grow", "scan"}
    BY <1>4, <1>6, <1>7 DEF Work
  <1> QED
    BY <1>1, <1>5, <1>8

\* The types, action by action.
LEMMA TypesKept ==
    ASSUME FramingTypes, [FramingNext]_framingVars
    PROVE  FramingTypes'
  <1>1. FramingTypes
    OBVIOUS
  <1>2. /\ partial.bytes \in Seq(Byte) /\ partial.cursor \in 0..Len(partial.bytes)
        /\ Used \in Nat /\ Remainder \in Nat
        /\ Unread \in Seq(Byte) /\ Len(Unread) = Remainder
        /\ Used = Len(partial.bytes) /\ Remainder = Used - partial.cursor
    BY UnreadIs DEF Used, Remainder
  <1>3. Idle \in Work
    BY EmptySeq DEF Idle, Work
  <1>4. /\ PrefixSizeBytes \in Nat /\ PostfixSize \in Nat
        /\ Lengths \subseteq Nat /\ ResizeTo \subseteq Nat
    BY FramingAssumption
  <1>5. ASSUME NEW bytes \in Seq(Byte), NEW cursor \in Nat, NEW mem \in Nat, cursor <= Len(bytes),
               partial' = [bytes |-> bytes, cursor |-> cursor, mem |-> mem]
        PROVE  partial' \in [bytes : Seq(Byte), cursor : Nat, mem : Nat]
               /\ partial'.cursor <= Len(partial'.bytes)
    BY <1>5
  <1>6. partial = [bytes |-> partial.bytes, cursor |-> partial.cursor, mem |-> partial.mem]
        /\ partial.mem \in Nat
    BY <1>1 DEF FramingTypes
  <1>10. ASSUME NEW len \in Lengths, Send(len) PROVE FramingTypes'
    <2>1. sent' \in Seq(Nat)
      BY <1>1, <1>4, <1>10 DEF Send, FramingTypes
    <2>2. wire' \in Seq(Byte)
      <3>1. Len(sent) + 1 \in Nat /\ len \in Nat
        BY <1>4, EncodingsIs
      <3>2. Encoded(Len(sent) + 1, len) \in Seq(Byte) /\ wire \in Seq(Byte)
        BY <3>1, EncodedIs DEF FramingTypes
      <3> QED
        BY <1>10, <3>2, ConcatProperties DEF Send
    <2> QED
      BY <1>1, <1>10, <2>1, <2>2 DEF Send, FramingTypes, options, history
  <1>11. ASSUME Arrive PROVE FramingTypes'
    <2>1. PICK n \in 1..RecvBufferSize : n <= Len(wire) /\ Receive(n)
      BY <1>11 DEF Arrive
    <2>2. n \in 0..Len(wire) /\ wire \in Seq(Byte) /\ n \in Nat
      BY <2>1, LenProperties DEF FramingTypes
    <2>3. SubSeq(wire, 1, n) \in Seq(Byte) /\ Len(SubSeq(wire, 1, n)) = n /\ wire' \in Seq(Byte)
      BY <2>1, <2>2, CutInTwo DEF Receive
    <2>4. CASE AppendData(n)
      <3>1. CASE /\ partial' = [partial EXCEPT !.bytes = @ \o SubSeq(wire, 1, n)]
                 /\ worker' = [Idle EXCEPT !.pc = "scan"] /\ broken' = broken
        <4>1. partial' = [bytes |-> partial.bytes \o SubSeq(wire, 1, n), cursor |-> partial.cursor,
                          mem |-> partial.mem]
          BY <1>6, <3>1
        <4>2. /\ partial.bytes \o SubSeq(wire, 1, n) \in Seq(Byte)
              /\ Len(partial.bytes \o SubSeq(wire, 1, n)) = Len(partial.bytes) + n
          BY <1>2, <2>3, ConcatProperties
        <4>3. partial.cursor \in Nat /\ partial.cursor <= Len(partial.bytes) + n
          BY <1>2, <2>2
        <4>4. partial' \in [bytes : Seq(Byte), cursor : Nat, mem : Nat]
              /\ partial'.cursor <= Len(partial'.bytes)
          BY <1>5, <1>6, <4>1, <4>2, <4>3
        <4>5. worker' \in Work
          BY <1>3, <3>1 DEF Work
        <4> QED
          BY <1>1, <2>1, <2>3, <2>4, <3>1, <4>4, <4>5 DEF Receive, AppendData, FramingTypes, options
      <3>2. CASE GrowFor(SubSeq(wire, 1, n), Used + n) /\ UNCHANGED <<partial, broken>>
        <4>1. Used + n \in Nat
          BY <1>2, <2>2
        <4>2. worker' \in Work
          BY <2>3, <3>2, <4>1, GrowForIs
        <4> QED
          BY <1>1, <2>1, <2>3, <2>4, <3>2, <4>2 DEF Receive, AppendData, FramingTypes, options
      <3>3. CASE worker' = [Idle EXCEPT !.threw = TRUE] /\ partial' = partial /\ broken' = TRUE
        <4>1. worker' \in Work
          BY <1>3, <3>3 DEF Work
        <4> QED
          BY <1>1, <2>1, <2>3, <2>4, <3>3, <4>1 DEF Receive, AppendData, FramingTypes, options
      <3> QED
        BY <2>4, <3>1, <3>2, <3>3 DEF AppendData
    <2>5. CASE RawData(n)
      <3>1. /\ parsed' \in Nat /\ worker'.pc \notin {"grow", "scan"}
            /\ worker' \in Work
        BY <2>3, <2>5, FoundTypes DEF RawData
      <3>2. partial' = partial /\ broken' \in BOOLEAN
        BY <2>5 DEF RawData
      <3> QED
        BY <1>1, <2>1, <2>3, <3>1, <3>2 DEF Receive, FramingTypes, options
    <2> QED
      BY <2>1, <2>4, <2>5 DEF Receive
  <1>12. ASSUME EraseDone
         PROVE  /\ partial' \in [bytes : Seq(Byte), cursor : Nat, mem : Nat]
                /\ partial'.cursor <= Len(partial'.bytes)
                /\ worker' = Idle /\ parsed' = parsed
    <2>1. partial' = [bytes |-> Unread, cursor |-> 0, mem |-> partial.mem]
      BY <1>6, <1>12 DEF EraseDone
    <2>2. worker' = Idle /\ parsed' = parsed
      BY <1>12 DEF EraseDone
    <2> QED
      BY <1>2, <1>5, <1>6, <2>1, <2>2
  <1>13. ASSUME Scan PROVE FramingTypes'
    <2>1. ASSUME partial' \in [bytes : Seq(Byte), cursor : Nat, mem : Nat],
                 partial'.cursor <= Len(partial'.bytes),
                 worker' \in Work,
                 mode = "raw" => worker'.pc \notin {"grow", "scan"}, parsed' \in Nat
          PROVE  FramingTypes'
      BY <1>1, <1>13, <2>1 DEF Scan, FramingTypes, options, stream
    <2>2. Idle.pc \notin {"grow", "scan"}
      BY DEF Idle
    <2>3. parsed \in Nat
      BY <1>1 DEF FramingTypes
    <2>4. CASE ScanPrefix
      <3>1. CASE EraseDone
        BY <1>3, <1>12, <2>1, <2>2, <2>3, <3>1
      <3>2. ASSUME Remainder >= PrefixSizeBytes, NEW size \in PrefixAt, mode = "prefix",
                   LET whole == size + PrefixSizeBytes
                   IN  \/ GrowFor(<<>>, whole) /\ UNCHANGED <<partial, parsed>>
                       \/ /\ worker' = [Idle EXCEPT !.threw = TRUE]
                          /\ UNCHANGED <<partial, parsed>>
                       \/ EraseDone
                       \/ /\ whole <= Remainder
                          /\ partial' = [partial EXCEPT !.cursor = @ + whole]
                          /\ Found(SubSeq(Unread, PrefixSizeBytes + 1, whole))
            PROVE  FramingTypes'
        <4> DEFINE whole == size + PrefixSizeBytes
        <4>1. size \in Nat /\ whole \in Nat
          BY <1>4, <3>2, PrefixAtIs
        <4>2. /\ partial \in [bytes : Seq(Byte), cursor : Nat, mem : Nat]
              /\ partial.cursor <= Len(partial.bytes)
          BY <1>1 DEF FramingTypes
        <4>3. CASE worker' = [Idle EXCEPT !.threw = TRUE] /\ partial' = partial /\ parsed' = parsed
          <5>1. worker' \in Work /\ worker'.pc \notin {"grow", "scan"}
            BY <4>3, EmptySeq DEF Idle, Work
          <5> QED
            BY <2>1, <2>3, <4>2, <4>3, <5>1
        <4>4. CASE EraseDone
          BY <1>3, <1>12, <2>1, <2>2, <2>3, <4>4
        <4>6. CASE GrowFor(<<>>, whole) /\ partial' = partial /\ parsed' = parsed
          <5>1. worker' \in Work
            BY <4>1, <4>6, EmptySeq, GrowForIs
          <5> QED
            BY <2>1, <2>3, <3>2, <4>2, <4>6, <5>1
        <4>5. CASE /\ whole <= Remainder
                   /\ partial' = [partial EXCEPT !.cursor = @ + whole]
                   /\ Found(SubSeq(Unread, PrefixSizeBytes + 1, whole))
          <5>1. SubSeq(Unread, PrefixSizeBytes + 1, whole) \in Seq(Byte)
            <6>1. \A k \in (PrefixSizeBytes + 1)..whole : Unread[k] \in Byte
              BY <1>2, <1>4, <4>1, <4>5
            <6> QED
              BY <1>4, <4>1, <6>1, SubSeqProperties
          <5>2. /\ parsed' \in Nat /\ worker'.pc \notin {"grow", "scan"}
                /\ worker' \in Work
            BY <4>5, <5>1, FoundTypes
          <5>3. partial' = [bytes |-> partial.bytes, cursor |-> partial.cursor + whole,
                          mem |-> partial.mem]
            BY <1>6, <4>5
          <5>4. partial.cursor + whole \in Nat /\ partial.cursor + whole <= Len(partial.bytes)
            BY <1>2, <4>1, <4>5
          <5> HIDE DEF whole
          <5>5. /\ partial' \in [bytes : Seq(Byte), cursor : Nat, mem : Nat]
                /\ partial'.cursor <= Len(partial'.bytes)
            BY <1>2, <1>5, <1>6, <5>3, <5>4
          <5> QED
            BY <2>1, <5>2, <5>5
        <4> QED
          BY <3>2, <4>3, <4>4, <4>5, <4>6
      <3> QED
        BY <2>4, <3>1, <3>2 DEF ScanPrefix
    <2>5. CASE ScanPostfix
      <3>1. CASE EraseDone
        BY <1>3, <1>12, <2>1, <2>2, <2>3, <3>1
      <3>2. ASSUME NEW p \in PostfixAt,
                   partial' = [partial EXCEPT !.cursor = @ + p + PostfixSize],
                   Found(SubSeq(Unread, 1, p))
            PROVE  FramingTypes'
        <4>1. p \in Nat /\ p + PostfixSize <= Remainder
          BY <1>2, <1>4, <3>2 DEF PostfixAt
        <4>2. SubSeq(Unread, 1, p) \in Seq(Byte)
          <5>1. \A k \in 1..p : Unread[k] \in Byte
            BY <1>2, <1>4, <4>1
          <5> QED
            BY <4>1, <5>1, SubSeqProperties
        <4>3. /\ parsed' \in Nat /\ worker'.pc \notin {"grow", "scan"}
              /\ worker' \in Work
          BY <3>2, <4>2, FoundTypes
        <4>4. partial' = [bytes |-> partial.bytes, cursor |-> partial.cursor + p + PostfixSize,
                          mem |-> partial.mem]
          BY <1>6, <3>2
        <4>5. /\ partial.cursor + p + PostfixSize \in Nat
              /\ partial.cursor + p + PostfixSize <= Len(partial.bytes)
          BY <1>2, <1>4, <4>1
        <4>6. /\ partial' \in [bytes : Seq(Byte), cursor : Nat, mem : Nat]
              /\ partial'.cursor <= Len(partial'.bytes)
          BY <1>2, <1>5, <1>6, <4>4, <4>5
        <4> QED
          BY <2>1, <4>3, <4>6
      <3> QED
        BY <2>5, <3>1, <3>2 DEF ScanPostfix
    <2> QED
      BY <1>13, <2>4, <2>5 DEF Scan
  <1>14. ASSUME PacketDone PROVE FramingTypes'
    <2>1. /\ got \in Seq(Delivered) /\ packetStore \in Seq(StoredPacket)
          /\ [n |-> parsed, data |-> worker.data] \in Delivered
          /\ [n |-> parsed, data |-> worker.data, mem |-> worker.mem] \in StoredPacket
      BY <1>1 DEF FramingTypes, Delivered, StoredPacket, Work
    <2>2. got' \in Seq(Delivered) /\ packetStore' \in Seq(StoredPacket)
      <3>1. CASE hasRecvFunc
        <4>1. got' = Append(got, [n |-> parsed, data |-> worker.data]) /\ packetStore' = packetStore
          BY <1>14, <3>1 DEF PacketDone
        <4> QED
          BY <2>1, <4>1, AppendProperties
      <3>2. CASE ~hasRecvFunc
        <4>1. /\ got' = got
              /\ packetStore' = Append(packetStore, [n |-> parsed, data |-> worker.data,
                                                     mem |-> worker.mem])
          BY <1>14, <3>2 DEF PacketDone
        <4> QED
          BY <2>1, <4>1, AppendProperties
      <3> QED
        BY <3>1, <3>2
    <2>3. /\ worker' \in Work
          /\ mode = "raw" => worker'.pc \notin {"grow", "scan"}
      BY <1>14, EmptySeq DEF PacketDone, AfterPacket, Idle, Work
    <2> QED
      BY <1>1, <1>14, <2>2, <2>3 DEF PacketDone, FramingTypes, options, stream
  <1>15. ASSUME GetPacketFromStore PROVE FramingTypes'
    <2>1. /\ packetStore \in Seq(StoredPacket) /\ packetStore # <<>> /\ got \in Seq(Delivered)
      BY <1>1, <1>15 DEF GetPacketFromStore, FramingTypes
    <2>2. Head(packetStore) \in StoredPacket /\ Tail(packetStore) \in Seq(StoredPacket)
      BY <2>1, HeadTailProperties
    <2>3. [n |-> Head(packetStore).n, data |-> Head(packetStore).data] \in Delivered
      BY <2>2 DEF StoredPacket, Delivered
    <2>4. got' \in Seq(Delivered) /\ packetStore' \in Seq(StoredPacket)
      BY <1>15, <2>1, <2>2, <2>3, AppendProperties DEF GetPacketFromStore
    <2> QED
      BY <1>1, <1>15, <2>4 DEF GetPacketFromStore, FramingTypes, options, stream
  <1>16. ASSUME ClearPacketStore PROVE FramingTypes'
    BY <1>1, <1>16, EmptySeq DEF ClearPacketStore, EmptyStore, FramingTypes, options, stream
  <1>17. ASSUME NEW size \in ResizeTo, CheckResize(size) PROVE FramingTypes'
    BY <1>1, <1>4, <1>17 DEF CheckResize, FramingTypes, options, stream, history
  <1>18. ASSUME ApplyResize PROVE FramingTypes'
    <2>1. Larger(resize, Used) \in Nat
      BY <1>1, <1>2 DEF Larger, FramingTypes
    <2>2. partial' = [bytes |-> partial.bytes, cursor |-> partial.cursor, mem |-> Larger(resize, Used)]
      BY <1>6, <1>18 DEF ApplyResize
    <2>3. /\ partial' \in [bytes : Seq(Byte), cursor : Nat, mem : Nat]
          /\ partial'.cursor <= Len(partial'.bytes)
      BY <1>2, <1>5, <2>1, <2>2
    <2> QED
      BY <1>1, <1>18, <2>3 DEF ApplyResize, FramingTypes, options, stream, history
  <1>19. ASSUME SetAutoResize \/ \E limit \in MemoryLimits : SetMemoryLimit(limit)
         PROVE  FramingTypes'
    BY <1>1, <1>19, FramingAssumption DEF SetAutoResize, SetMemoryLimit, FramingTypes, options, stream, history
  <1>20. ASSUME Close PROVE FramingTypes'
    BY <1>1, <1>20, EmptySeq DEF Close, EmptyStore, FramingTypes, options
  <1>21. ASSUME ClearPartial PROVE FramingTypes'
    <2>1. partial' = [bytes |-> <<>>, cursor |-> 0, mem |-> partial.mem]
      BY <1>6, <1>21 DEF ClearPartial
    <2>2. /\ partial' \in [bytes : Seq(Byte), cursor : Nat, mem : Nat]
          /\ partial'.cursor <= Len(partial'.bytes)
      BY <1>6, <2>1, EmptySeq
    <2> QED
      BY <1>1, <1>21, <2>2 DEF ClearPartial, FramingTypes, options, stream, history
  <1>22. CASE UNCHANGED framingVars
    BY <1>1, <1>22 DEF framingVars, FramingTypes, options, stream, history
  <1>23. ASSUME Grow PROVE FramingTypes'
    <2>1. /\ worker.data \in Seq(Byte) /\ worker.mem \in Nat /\ mode # "raw"
          /\ Len(worker.data) \in Nat
      BY <1>1, <1>23, LenProperties DEF FramingTypes, Work, Grow
    <2>2. /\ partial.bytes \o worker.data \in Seq(Byte)
          /\ Len(partial.bytes \o worker.data) = Len(partial.bytes) + Len(worker.data)
      BY <1>2, <2>1, ConcatProperties
    <2>3. partial' = [bytes |-> partial.bytes \o worker.data, cursor |-> partial.cursor,
                      mem |-> worker.mem]
      BY <1>6, <1>23 DEF Grow
    <2>4. partial.cursor \in Nat /\ partial.cursor <= Len(partial.bytes) + Len(worker.data)
      <3>1. Len(partial.bytes) \in Nat
        BY <1>2, LenProperties
      <3>2. partial.cursor \in Nat /\ partial.cursor <= Len(partial.bytes)
        BY <1>1 DEF FramingTypes
      <3>3. \A c, l, m \in Nat : c <= l => c <= l + m
        OBVIOUS
      <3> QED
        BY <2>1, <3>1, <3>2, <3>3, Zenon
    <2>5. /\ partial' \in [bytes : Seq(Byte), cursor : Nat, mem : Nat]
          /\ partial'.cursor <= Len(partial'.bytes)
      BY <1>5, <2>1, <2>2, <2>3, <2>4
    <2>6. worker' \in Work
      BY <1>3, <1>23 DEF Grow, Work
    <2> QED
      BY <1>1, <1>23, <2>1, <2>5, <2>6 DEF Grow, FramingTypes, options, stream, history
  <1>24. ASSUME TakeMemory PROVE FramingTypes'
    <2>1. worker' \in Work /\ worker'.pc = "found"
      BY <1>1, <1>24 DEF TakeMemory, FramingTypes, Work
    <2> QED
      BY <1>1, <1>24, <2>1 DEF TakeMemory, FramingTypes, options, stream, history
  <1> QED
    BY <1>23, <1>24, <1>10, <1>11, <1>13, <1>14, <1>15, <1>16, <1>17, <1>18, <1>19, <1>20, <1>21, <1>22
       DEF FramingNext, Deal

-----------------------------------------------------------------------------
\* What follows for the packets if none is added, or one.
LEMMA SameDelivery ==
    ASSUME FramingTypes, FramingTypes', Whole, InOrder, UNCHANGED <<sent, mode>>,
           Delivery' = Delivery, parsed' >= parsed
    PROVE  Whole' /\ InOrder'
  <1>1. \A i : Payload(i)' = Payload(i)
    BY StreamSame
  <1>2. Whole'
    BY <1>1 DEF Whole
  <1>3. parsed \in Nat /\ parsed' \in Nat /\ Delivery \in Seq(Delivered)
    BY DeliveryIs DEF FramingTypes
  <1>4. \A k \in DOMAIN Delivery : Delivery[k].n \in Nat
    <2>1. \A k \in DOMAIN Delivery : Delivery[k] \in Delivered
      BY <1>3, LenProperties, ElementOfSeq
    <2> QED
      BY <2>1 DEF Delivered
  <1>5. InOrder'
    BY <1>3, <1>4 DEF InOrder
  <1> QED
    BY <1>2, <1>5

\* What one more packet changes in what was delivered.
LEMMA OneDelivered ==
    ASSUME FramingTypes, Whole, InOrder, UNCHANGED <<sent, mode>>, NEW d \in Delivered,
           Delivery' = Append(Delivery, d), parsed' = parsed + 1, d.n = parsed + 1,
           mode # "raw" => parsed + 1 <= Len(sent) /\ d.data = Payload(parsed + 1)
    PROVE  Whole' /\ InOrder'
  <1>1. \A i : Payload(i)' = Payload(i)
    BY StreamSame
  <1>2. parsed \in Nat /\ Delivery \in Seq(Delivered) /\ Len(sent) \in Nat
    BY DeliveryIs, EncodingsIs DEF FramingTypes
  <1>3. /\ Len(Delivery) \in Nat /\ DOMAIN Delivery = 1..Len(Delivery)
        /\ DOMAIN Append(Delivery, d) = 1..(Len(Delivery) + 1)
        /\ \A k \in 1..Len(Delivery) : Append(Delivery, d)[k] = Delivery[k]
        /\ Append(Delivery, d)[Len(Delivery) + 1] = d
    BY <1>2, AppendProperties, LenProperties
  <1>4. \A k \in 1..Len(Delivery) : Delivery[k].n \in Nat
    <2>1. \A k \in 1..Len(Delivery) : Delivery[k] \in Delivered
      BY <1>2, ElementOfSeq
    <2> QED
      BY <2>1 DEF Delivered
  <1>5. \A k \in 1..(Len(Delivery) + 1) : k \in 1..Len(Delivery) \/ k = Len(Delivery) + 1
    BY <1>3
  <1>6. Whole'
    <2>1. SUFFICES ASSUME mode # "raw", NEW k \in 1..(Len(Delivery) + 1)
                   PROVE  /\ Append(Delivery, d)[k].n \in 1..Len(sent)
                          /\ Append(Delivery, d)[k].data = Payload(Append(Delivery, d)[k].n)
      BY <1>1, <1>3 DEF Whole
    <2>2. CASE k \in 1..Len(Delivery)
      BY <1>3, <2>1, <2>2 DEF Whole
    <2>3. CASE k = Len(Delivery) + 1
      BY <1>2, <1>3, <2>1, <2>3
    <2> QED
      BY <1>5, <2>2, <2>3
  <1>7. InOrder'
    <2>1. ASSUME NEW k \in 1..(Len(Delivery) + 1)
          PROVE  Append(Delivery, d)[k].n <= parsed + 1
      BY <1>2, <1>3, <1>4, <1>5 DEF InOrder
    <2>2. ASSUME NEW k \in 1..(Len(Delivery) + 1), NEW l \in 1..(Len(Delivery) + 1), k < l
          PROVE  Append(Delivery, d)[k].n < Append(Delivery, d)[l].n
      <3>1. k \in 1..Len(Delivery) /\ Append(Delivery, d)[k] = Delivery[k]
        BY <1>3, <2>2
      <3>2. CASE l \in 1..Len(Delivery)
        BY <1>3, <2>2, <3>1, <3>2 DEF InOrder
      <3>3. CASE l = Len(Delivery) + 1
        BY <1>2, <1>3, <1>4, <3>1, <3>3 DEF InOrder
      <3> QED
        BY <1>5, <3>2, <3>3
    <2> QED
      BY <1>3, <2>1, <2>2 DEF InOrder
  <1> QED
    BY <1>6, <1>7

\* A packet that was found is in hand, unless the memory was refused.
LEMMA FoundDelivers ==
    ASSUME FramingTypes, NEW data \in Seq(Byte), Found(data),
           worker.pc \in {"idle", "scan"}, UNCHANGED <<got, packetStore>>
    PROVE  /\ [n |-> parsed + 1, data |-> data] \in Delivered
           /\ \/ Delivery' = Append(Delivery, [n |-> parsed + 1, data |-> data]) /\ lost' = lost
              \/ Delivery' = Delivery /\ Refused(Len(data)) /\ lost' = lost \cup {parsed + 1}
  <1> DEFINE d == [n |-> parsed + 1, data |-> data]
  <1>1. got \o Stored \in Seq(Delivered) /\ parsed \in Nat /\ d \in Delivered
    BY DeliveryIs DEF FramingTypes, Delivered
  <1>2. Stored' = Stored /\ got' = got
    BY DEF Stored
  <1>3. InHand = <<>>
    BY DEF InHand
  <1>4. Delivery = got \o Stored
    <2>1. Delivery = (got \o Stored) \o <<>>
      BY <1>3 DEF Delivery
    <2> QED
      BY <1>1, <2>1, ConcatEmptySeq
  <1>5. CASE Refused(Len(data))
    <2>1. worker'.pc = "idle" /\ lost' = lost \cup {parsed + 1}
      BY <1>5 DEF Found, Idle, Refused
    <2>2. InHand' = <<>>
      BY <2>1 DEF InHand
    <2>3. Delivery' = Delivery
      BY <1>2, <1>3, <2>2 DEF Delivery
    <2> QED
      BY <1>1, <1>5, <2>1, <2>3
  <1>6. CASE ~Refused(Len(data))
    <2>1. /\ worker'.pc \in {"take", "found"} /\ worker'.data = data
          /\ parsed' = parsed + 1 /\ lost' = lost
      BY <1>6 DEF Found, Idle
    <2>2. InHand' = <<d>>
      BY <2>1 DEF InHand
    <2>3. Delivery' = (got \o Stored) \o <<d>>
      BY <1>2, <2>2 DEF Delivery
    <2>4. Append(got \o Stored, d) = (got \o Stored) \o <<d>>
      BY <1>1, AppendIsConcat
    <2> QED
      BY <1>1, <1>4, <2>1, <2>3, <2>4
  <1> QED
    BY <1>5, <1>6

-----------------------------------------------------------------------------
\* What is there of two sequences that make the same whole is the same.
LEMMA SameFirst ==
    ASSUME NEW S, NEW u \in Seq(S), NEW w \in Seq(S), NEW e \in Seq(S), NEW r \in Seq(S),
           u \o w = e \o r
    PROVE  \A k \in 1..Len(u) : k <= Len(e) => u[k] = e[k]
  <1>1. Len(e) \in Nat /\ Len(u) \in Nat
    BY LenProperties
  <1>2. /\ \A k \in 1..Len(u) : (u \o w)[k] = u[k]
        /\ \A k \in 1..Len(e) : (e \o r)[k] = e[k]
    BY ConcatParts
  <1> QED
    BY <1>1, <1>2

\* While there is something to read there is a packet it belongs to.
LEMMA NextPacket ==
    ASSUME FramingTypes, NextBegins, ~clearing, worker.pc # "grow",
           mode # "raw", Remainder >= 1
    PROVE  LET i == parsed + 1
           IN  /\ i \in 1..Len(sent) /\ i \in Nat /\ sent[i] \in Nat
               /\ Encoded(i, sent[i]) \in Seq(Byte) /\ Stream(i + 1) \in Seq(Byte)
               /\ Unread \o wire = Encoded(i, sent[i]) \o Stream(i + 1)
  <1> DEFINE i == parsed + 1
  <1>1. /\ Unread \in Seq(Byte) /\ Len(Unread) = Remainder /\ Remainder \in Nat
        /\ wire \in Seq(Byte) /\ parsed \in Nat
    BY UnreadIs DEF FramingTypes
  <1>2. /\ parsed <= Len(sent) /\ Len(sent) \in Nat
        /\ Unread \o wire = Stream(i)
    BY EncodingsIs, IncomingIs DEF NextBegins
  <1>3. i \in 1..Len(sent)
    <2>1. SUFFICES ASSUME parsed = Len(sent) PROVE FALSE
      BY <1>1, <1>2
    <2>2. Unread \o wire = <<>>
      BY <1>2, <2>1, StreamIs
    <2>3. Len(Unread \o wire) = Len(Unread) + Len(wire) /\ Len(wire) \in Nat
      BY <1>1, ConcatProperties, LenProperties
    <2> QED
      BY <1>1, <2>2, <2>3
  <1>4. sent[i] \in Nat /\ i \in Nat /\ i + 1 \in 1..(Len(sent) + 1)
    BY <1>1, <1>2, <1>3, EncodingsIs
  <1>5. Encoded(i, sent[i]) \in Seq(Byte)
    BY <1>4, EncodedIs
  <1>6. Stream(i + 1) \in Seq(Byte) /\ Stream(i) = Encoded(i, sent[i]) \o Stream(i + 1)
    BY <1>3, <1>4, StreamIs
  <1> QED
    BY <1>2, <1>3, <1>4, <1>5, <1>6

\* The size prefix is where it is looked for, and says where the packet ends.
LEMMA PrefixPacket ==
    ASSUME FramingTypes, NextBegins, ~clearing, worker.pc # "grow",
           mode = "prefix", Remainder >= PrefixSizeBytes
    PROVE  /\ parsed + 1 <= Len(sent)
           /\ PrefixAt = {sent[parsed + 1]}
           /\ LET whole == sent[parsed + 1] + PrefixSizeBytes
              IN  whole <= Remainder =>
                    /\ whole \in 0..Len(Unread)
                    /\ SubSeq(Unread, PrefixSizeBytes + 1, whole) = Payload(parsed + 1)
                    /\ SubSeq(Unread, whole + 1, Len(Unread)) \o wire = Stream(parsed + 2)
  <1> DEFINE i == parsed + 1
             len == sent[i]
             e == Encoded(i, len)
             r == Stream(i + 1)
             whole == len + PrefixSizeBytes
  <1>1. PrefixSizeBytes \in Nat /\ PrefixSizeBytes >= 1
    BY FramingAssumption
  <1>2. /\ Unread \in Seq(Byte) /\ Len(Unread) = Remainder /\ Remainder \in Nat
        /\ wire \in Seq(Byte) /\ parsed \in Nat
    BY UnreadIs DEF FramingTypes
  <1>3. Remainder >= 1
    BY <1>1, <1>2
  <1>4. /\ i \in 1..Len(sent) /\ i \in Nat /\ len \in Nat
        /\ e \in Seq(Byte) /\ r \in Seq(Byte) /\ Unread \o wire = e \o r
    BY <1>3, NextPacket
  <1>5. /\ Len(e) = PrefixSizeBytes + len
        /\ \A k \in 1..PrefixSizeBytes : e[k] = [what |-> "size", pkt |-> i, k |-> k, len |-> len]
        /\ \A k \in 1..len : e[PrefixSizeBytes + k] = [what |-> "data", pkt |-> i, k |-> k, len |-> len]
    BY <1>4, EncodedIs
  <1>6. parsed + 2 = i + 1 /\ i <= Len(sent) /\ Len(sent) \in Nat
    BY <1>2, <1>4, EncodingsIs
  <1>7. Payload(i) = [k \in 1..len |-> [what |-> "data", pkt |-> i, k |-> k, len |-> len]]
    BY DEF Payload
  <1> HIDE DEF e, r, len
  <1>8. \A k \in 1..PrefixSizeBytes : Unread[k] = [what |-> "size", pkt |-> i, k |-> k, len |-> len]
    <2>1. \A k \in 1..Len(Unread) : k <= Len(e) => Unread[k] = e[k]
      BY <1>2, <1>4, SameFirst
    <2>2. \A k \in 1..PrefixSizeBytes : k \in 1..Len(Unread) /\ k <= Len(e)
      BY <1>1, <1>2, <1>4, <1>5
    <2> QED
      BY <1>5, <2>1, <2>2
  <1>9. PrefixAt = {len}
    <2>1. Unread[1] = [what |-> "size", pkt |-> i, k |-> 1, len |-> len]
      BY <1>1, <1>8
    <2>2. \A k \in 1..PrefixSizeBytes :
            Unread[k] = [what |-> "size", pkt |-> Unread[1].pkt, k |-> k, len |-> Unread[1].len]
      BY <1>8, <2>1
    <2>4. PrefixAt = {Unread[1].len}
      BY <2>2 DEF PrefixAt
    <2>5. Unread[1].len = len
      BY <2>1
    <2> QED
      BY <2>4, <2>5
  <1>11. ASSUME Len(e) <= Len(Unread)
         PROVE  SubSeq(Unread, Len(e) + 1, Len(Unread)) \o wire = r
    <2>1. /\ Unread \in Seq(Byte) /\ wire \in Seq(Byte) /\ e \in Seq(Byte) /\ r \in Seq(Byte)
          /\ Unread \o wire = e \o r
      BY <1>2, <1>4
    <2> QED
      BY <1>11, <2>1, FirstPart, Zenon
  <1>12. \A k \in 1..Len(Unread) : k <= Len(e) => Unread[k] = e[k]
    BY <1>2, <1>4, SameFirst
  <1>10. ASSUME whole <= Remainder
         PROVE  /\ whole \in 0..Len(Unread)
                /\ SubSeq(Unread, PrefixSizeBytes + 1, whole) = Payload(i)
                /\ SubSeq(Unread, whole + 1, Len(Unread)) \o wire = r
    <2>1. Len(e) = whole /\ whole \in 0..Len(Unread)
      BY <1>1, <1>2, <1>4, <1>5, <1>10
    <2>2. /\ \A k \in 1..whole : Unread[k] = e[k]
          /\ SubSeq(Unread, whole + 1, Len(Unread)) \o wire = r
      <3>1. Len(e) <= Len(Unread)
        BY <2>1
      <3>2. SubSeq(Unread, Len(e) + 1, Len(Unread)) \o wire = r
        BY <1>11, <3>1
      <3>3. \A k \in 1..whole : k \in 1..Len(Unread) /\ k <= Len(e)
        BY <1>2, <2>1
      <3> QED
        BY <1>12, <2>1, <3>2, <3>3
    <2> DEFINE data == SubSeq(Unread, PrefixSizeBytes + 1, whole)
    <2>3. /\ data \in Seq(Byte) /\ Len(data) = len
          /\ \A k \in 1..len : data[k] = Unread[PrefixSizeBytes + k]
      <3>1. \A k \in (PrefixSizeBytes + 1)..whole : Unread[k] \in Byte
        BY <1>1, <1>2, <1>4, <2>1
      <3>2. /\ data \in Seq(Byte)
            /\ Len(data) = IF PrefixSizeBytes + 1 <= whole
                           THEN whole - (PrefixSizeBytes + 1) + 1 ELSE 0
            /\ \A k \in 1..(whole - (PrefixSizeBytes + 1) + 1) :
                 data[k] = Unread[(PrefixSizeBytes + 1) + k - 1]
        BY <1>1, <1>4, <3>1, SubSeqProperties
      <3>3. /\ whole - (PrefixSizeBytes + 1) + 1 = len
            /\ IF PrefixSizeBytes + 1 <= whole
               THEN len = whole - (PrefixSizeBytes + 1) + 1 ELSE len = 0
            /\ \A k \in 1..len : (PrefixSizeBytes + 1) + k - 1 = PrefixSizeBytes + k
        BY <1>1, <1>4
      <3> HIDE DEF data
      <3> QED
        BY <3>2, <3>3
    <2>4. \A k \in 1..len : data[k] = [what |-> "data", pkt |-> i, k |-> k, len |-> len]
      <3>1. \A k \in 1..len : PrefixSizeBytes + k \in 1..whole
        BY <1>1, <1>4
      <3> HIDE DEF data
      <3> QED
        BY <1>5, <2>2, <2>3, <3>1
    <2>5. data = Payload(i)
      <3> HIDE DEF data
      <3>1. data = [k \in 1..len |-> data[k]]
        BY <2>3, LenProperties
      <3> QED
        BY <1>7, <2>4, <3>1
    <2> QED
      BY <2>1, <2>2, <2>5
  <1> QED
    BY <1>6, <1>9, <1>10 DEF r, len

\* The first postfix that is seen is that of the next packet.
LEMMA PostfixPacket ==
    ASSUME FramingTypes, NextBegins, ~clearing, worker.pc # "grow", mode = "postfix",
           NEW p \in PostfixAt, \A q \in PostfixAt : p <= q
    PROVE  /\ parsed + 1 <= Len(sent)
           /\ p \in Nat /\ p + PostfixSize \in 0..Len(Unread)
           /\ SubSeq(Unread, 1, p) = Payload(parsed + 1)
           /\ SubSeq(Unread, p + PostfixSize + 1, Len(Unread)) \o wire = Stream(parsed + 2)
  <1> DEFINE i == parsed + 1
             len == sent[i]
             e == Encoded(i, len)
             r == Stream(i + 1)
  <1>1. PostfixSize \in Nat /\ PostfixSize >= 1
    BY FramingAssumption
  <1>2. /\ Unread \in Seq(Byte) /\ Len(Unread) = Remainder /\ Remainder \in Nat
        /\ wire \in Seq(Byte) /\ parsed \in Nat
    BY UnreadIs DEF FramingTypes
  <1>3. /\ p \in Nat /\ p + PostfixSize <= Remainder /\ Remainder >= 1
        /\ Unread[p + 1].what = "post"
    BY <1>1, <1>2 DEF PostfixAt
  <1>4. /\ i \in 1..Len(sent) /\ i \in Nat /\ len \in Nat
        /\ e \in Seq(Byte) /\ r \in Seq(Byte) /\ Unread \o wire = e \o r
    BY <1>3, NextPacket
  <1>5. /\ Len(e) = len + PostfixSize
        /\ \A k \in 1..len : e[k] = [what |-> "data", pkt |-> i, k |-> k, len |-> len]
        /\ \A k \in 1..PostfixSize : e[len + k] = [what |-> "post", pkt |-> i, k |-> k, len |-> len]
    BY <1>4, EncodedIs
  <1>6. parsed + 2 = i + 1 /\ i <= Len(sent) /\ Len(sent) \in Nat
    BY <1>2, <1>4, EncodingsIs
  <1>7. Payload(i) = [k \in 1..len |-> [what |-> "data", pkt |-> i, k |-> k, len |-> len]]
    BY DEF Payload
  <1> HIDE DEF e, r, len
  <1>8. \A k \in 1..Len(Unread) : k <= Len(e) => Unread[k] = e[k]
    BY <1>2, <1>4, SameFirst
  <1>9. p >= len
    <2>1. SUFFICES ASSUME p < len PROVE FALSE
      BY <1>3, <1>4
    <2>2. p + 1 \in 1..Len(Unread) /\ p + 1 \in 1..len /\ p + 1 <= Len(e)
      BY <1>1, <1>2, <1>3, <1>4, <1>5, <2>1
    <2>3. Unread[p + 1] = [what |-> "data", pkt |-> i, k |-> p + 1, len |-> len]
      BY <1>5, <1>8, <2>2
    <2>4. Unread[p + 1].what = "data"
      BY <2>3
    <2> QED
      BY <1>3, <2>4
  <1>10. Len(e) <= Len(Unread) /\ len + PostfixSize <= Remainder
    BY <1>1, <1>2, <1>3, <1>4, <1>5, <1>9
  <1>11. len \in PostfixAt
    <2>1. \A k \in 1..PostfixSize : len + k \in 1..Len(Unread) /\ len + k <= Len(e)
      BY <1>1, <1>2, <1>4, <1>5, <1>10
    <2>2. \A k \in 1..PostfixSize : Unread[len + k].what = "post" /\ Unread[len + k].k = k
      <3> TAKE k \in 1..PostfixSize
      <3>1. Unread[len + k] = [what |-> "post", pkt |-> i, k |-> k, len |-> len]
        BY <1>5, <1>8, <2>1
      <3> QED
        BY <3>1
    <2>3. len \in 0..(Remainder - PostfixSize)
      BY <1>1, <1>2, <1>4, <1>10
    <2> QED
      BY <2>2, <2>3 DEF PostfixAt
  <1>12. p = len
    BY <1>3, <1>4, <1>9, <1>11
  <1>13. SubSeq(Unread, p + PostfixSize + 1, Len(Unread)) \o wire = r
    <2>1. SubSeq(Unread, Len(e) + 1, Len(Unread)) \o wire = r
      <3>1. /\ Unread \in Seq(Byte) /\ wire \in Seq(Byte) /\ e \in Seq(Byte) /\ r \in Seq(Byte)
            /\ Unread \o wire = e \o r
        BY <1>2, <1>4
      <3> QED
        BY <1>10, <3>1, FirstPart, Zenon
    <2> QED
      BY <1>5, <1>12, <2>1
  <1>14. SubSeq(Unread, 1, p) = Payload(i)
    <2> DEFINE data == SubSeq(Unread, 1, p)
    <2>1. p \in 0..Len(Unread)
      BY <1>1, <1>2, <1>3
    <2>2. data \in Seq(Byte) /\ Len(data) = p /\ \A k \in 1..p : data[k] = Unread[k]
      BY <1>2, <2>1, CutInTwo
    <2>3. \A k \in 1..p : k \in 1..Len(Unread) /\ k <= Len(e) /\ k \in 1..len
      BY <1>1, <1>4, <1>5, <1>12, <2>1
    <2> HIDE DEF data
    <2>4. \A k \in 1..len : data[k] = [what |-> "data", pkt |-> i, k |-> k, len |-> len]
      BY <1>5, <1>8, <1>12, <2>2, <2>3
    <2>5. data = [k \in 1..len |-> data[k]]
      BY <1>12, <2>2, LenProperties
    <2>6. data = Payload(i)
      BY <1>7, <2>4, <2>5
    <2> QED
      BY <2>6 DEF data
  <1>15. p + PostfixSize \in 0..Len(Unread)
    BY <1>1, <1>2, <1>3
  <1> QED
    BY <1>3, <1>6, <1>13, <1>14, <1>15 DEF r

-----------------------------------------------------------------------------
\* A step that moves no byte and no packet.
LEMMA FramedUnmoved ==
    ASSUME FramingTypes, FramingTypes', Framed, NothingStored',
           UNCHANGED <<mode, sent, wire, parsed, lost, cleared, broken, clearing>>,
           (Unread \o Incoming)' = Unread \o Incoming, Delivery' = Delivery,
           clearing /\ ~broken => worker'.pc = "idle"
    PROVE  Framed'
  <1>1. SUFFICES ASSUME ~broken PROVE (NextBegins /\ Reconnected /\ Whole /\ AllBytes /\ InOrder)'
    BY DEF Framed
  <1>2. NextBegins /\ Reconnected /\ Whole /\ AllBytes /\ InOrder
    BY <1>1 DEF Framed
  <1>3. \A i : Stream(i)' = Stream(i)
    BY StreamSame
  <1>4. parsed' >= parsed
    BY DEF FramingTypes
  <1>5. Whole' /\ InOrder'
    BY <1>2, <1>4, SameDelivery
  <1>6. NextBegins'
    BY <1>2, <1>3 DEF NextBegins
  <1>7. Reconnected'
    BY <1>1, <1>2, <1>3 DEF Reconnected
  <1>8. AllBytes'
    BY <1>2, <1>3 DEF AllBytes
  <1> QED
    BY <1>5, <1>6, <1>7, <1>8

\* A packet is sent.
LEMMA SendFramed ==
    ASSUME FramingTypes, FramingTypes', Framed, NEW len \in Lengths, Send(len)
    PROVE  Framed'
  <1> DEFINE x == Encoded(Len(sent) + 1, len)
  <1>1. /\ sent' = Append(sent, len) /\ wire' = wire \o x
        /\ UNCHANGED <<mode, hasRecvFunc, partial, packetStore, worker, clearing, parsed, got, lost,
                       cleared, broken>>
    BY DEF Send, options, history
  <1>2. NothingStored'
    BY <1>1 DEF Framed, NothingStored
  <1>3. SUFFICES ASSUME ~broken PROVE (NextBegins /\ Reconnected /\ Whole /\ AllBytes /\ InOrder)'
    BY <1>1, <1>2 DEF Framed
  <1>4. NextBegins /\ Reconnected /\ Whole /\ AllBytes /\ InOrder
    BY <1>3 DEF Framed
  <1>5. /\ len \in Nat /\ Len(sent) \in Nat /\ sent \in Seq(Nat) /\ parsed \in Nat
        /\ wire \in Seq(Byte) /\ Unread \in Seq(Byte) /\ Delivery \in Seq(Delivered)
        /\ Incoming \in Seq(Byte) /\ worker.data \in Seq(Byte)
    BY FramingAssumption, EncodingsIs, UnreadIs, DeliveryIs, IncomingIs DEF FramingTypes, Work
  <1>6. x \in Seq(Byte)
    <2>1. Len(sent) + 1 \in Nat /\ len \in Nat
      BY <1>5
    <2>2. Encoded(Len(sent) + 1, len) \in Seq(Byte)
      BY <2>1, EncodedIs
    <2> QED
      BY <2>2
  <1>7. /\ \A i \in 1..(Len(sent) + 1) : Stream(i)' = Stream(i) \o x
        /\ \A i \in 1..(Len(sent) + 1) : Stream(i) \in Seq(Byte)
    BY <1>1, <1>5, StreamGrows, StreamIs
  <1>8. Len(sent') = Len(sent) + 1 /\ \A i \in 1..Len(sent) : sent'[i] = sent[i]
    BY <1>1, <1>5, AppendProperties
  <1>9. Unread' = Unread /\ Delivery' = Delivery
    BY <1>1 DEF Unread, Used, Delivery, Stored, InHand
  <1> HIDE DEF x
  <1>10. \A a, b \in Seq(Byte) : (a \o b) \o x = a \o (b \o x)
    BY <1>6, JoinedInOrder, Zenon
  <1>17. Incoming' = Incoming \o x
    <2>1. Incoming' = (IF worker.pc = "grow" THEN worker.data ELSE <<>>) \o (wire \o x)
      BY <1>1 DEF Incoming
    <2>2. (IF worker.pc = "grow" THEN worker.data ELSE <<>>) \in Seq(Byte)
      BY <1>5, EmptySeq
    <2> QED
      BY <1>5, <1>10, <2>1, <2>2, Zenon DEF Incoming
  <1>11. NextBegins'
    <2>1. SUFFICES ASSUME mode # "raw"
                   PROVE  /\ parsed <= Len(sent')
                          /\ ~clearing => Unread \o (Incoming \o x) = Stream(parsed + 1)'
      BY <1>1, <1>9, <1>17 DEF NextBegins
    <2>2. parsed <= Len(sent) /\ parsed + 1 \in 1..(Len(sent) + 1)
      BY <1>4, <1>5, <2>1 DEF NextBegins
    <2>3. ASSUME ~clearing PROVE Unread \o (Incoming \o x) = Stream(parsed + 1)'
      <3>1. Unread \o Incoming = Stream(parsed + 1)
        BY <1>4, <2>1, <2>3 DEF NextBegins
      <3>2. Stream(parsed + 1)' = (Unread \o Incoming) \o x
        BY <1>1, <1>7, <2>2, <3>1
      <3>3. (Unread \o Incoming) \o x = Unread \o (Incoming \o x)
        BY <1>5, <1>10
      <3> QED
        BY <3>2, <3>3
    <2> QED
      BY <1>5, <1>8, <2>2, <2>3
  <1>12. 1 \in 1..(Len(sent) + 1)
    BY <1>5
  <1>13. Reconnected'
    BY <1>1, <1>4, <1>7, <1>9, <1>12 DEF Reconnected
  <1>14. Whole'
    <2>1. SUFFICES ASSUME mode # "raw", NEW k \in DOMAIN Delivery
                   PROVE  /\ Delivery[k].n \in 1..Len(sent')
                          /\ Delivery[k].data = Payload(Delivery[k].n)'
      BY <1>1, <1>9 DEF Whole
    <2>2. Delivery[k].n \in 1..Len(sent) /\ Delivery[k].data = Payload(Delivery[k].n)
      BY <1>4, <2>1 DEF Whole
    <2>3. \A i \in 1..Len(sent) : Payload(i)' = Payload(i)
      BY <1>8 DEF Payload
    <2>4. Payload(Delivery[k].n)' = Payload(Delivery[k].n)
      BY <1>9, <2>2, <2>3
    <2>5. Delivery[k].n \in 1..Len(sent')
      BY <1>5, <1>8, <2>2
    <2> QED
      BY <2>2, <2>4, <2>5
  <1>15. AllBytes'
    <2>1. SUFFICES ASSUME mode = "raw", cleared = {}, lost = {}
                   PROVE  Joined(Delivery) \o (wire \o x) = Stream(1)'
      BY <1>1, <1>9 DEF AllBytes
    <2>2. Joined(Delivery) \o wire = Stream(1)
      BY <1>4, <2>1 DEF AllBytes
    <2>3. Joined(Delivery) \in Seq(Byte)
      <3>1. [n |-> parsed, data |-> x] \in Delivered
        BY <1>5, <1>6 DEF Delivered
      <3> QED
        BY <1>5, <3>1, JoinedIs
    <2>4. Stream(1)' = (Joined(Delivery) \o wire) \o x
      BY <1>7, <1>12, <2>2
    <2>5. (Joined(Delivery) \o wire) \o x = Joined(Delivery) \o (wire \o x)
      BY <1>5, <1>10, <2>3
    <2> QED
      BY <2>4, <2>5
  <1>16. InOrder'
    BY <1>1, <1>4, <1>9 DEF InOrder
  <1> QED
    BY <1>11, <1>13, <1>14, <1>15, <1>16

\* Received bytes become unread bytes.
LEMMA AppendFramed ==
    ASSUME FramingTypes, FramingTypes', Framed, NEW n \in Nat, n <= Len(wire), Receive(n), AppendData(n)
    PROVE  Framed'
  <1> DEFINE x == SubSeq(wire, 1, n)
  <1>1. /\ worker.pc = "idle" /\ ~clearing /\ mode # "raw"
        /\ wire' = SubSeq(wire, n + 1, Len(wire))
        /\ UNCHANGED <<mode, hasRecvFunc, packetStore, clearing, sent, parsed, got, lost, cleared>>
    BY DEF Receive, AppendData, options
  <1>2. NothingStored'
    BY <1>1 DEF Framed, NothingStored
  <1>3. CASE /\ partial' = [partial EXCEPT !.bytes = @ \o x]
             /\ worker' = [Idle EXCEPT !.pc = "scan"] /\ broken' = broken
    <2>1. worker'.pc = "scan" /\ partial' = [partial EXCEPT !.bytes = @ \o x] /\ broken' = broken
      BY <1>3 DEF Idle
    <2>2. SUFFICES ASSUME ~broken PROVE (NextBegins /\ Reconnected /\ Whole /\ AllBytes /\ InOrder)'
      BY <1>2, <2>1 DEF Framed
    <2>3. NextBegins /\ Reconnected /\ Whole /\ AllBytes /\ InOrder
      BY <2>2 DEF Framed
    <2>4. /\ wire \in Seq(Byte) /\ n \in 0..Len(wire) /\ parsed \in Nat
          /\ partial.bytes \in Seq(Byte) /\ partial.cursor \in 0..Len(partial.bytes)
          /\ partial \in [bytes : Seq(Byte), cursor : Nat, mem : Nat]
          /\ Unread \in Seq(Byte)
      BY UnreadIs, LenProperties DEF FramingTypes
    <2>5. x \in Seq(Byte) /\ wire' \in Seq(Byte) /\ x \o wire' = wire
      BY <1>1, <2>4, CutInTwo
    <2>6. partial'.bytes = partial.bytes \o x /\ partial'.cursor = partial.cursor
      BY <2>1, <2>4
    <2> HIDE DEF x
    <2>7. Unread' = Unread \o x
      <3>1. SubSeq(partial.bytes \o x, partial.cursor + 1, Len(partial.bytes \o x))
              = SubSeq(partial.bytes, partial.cursor + 1, Len(partial.bytes)) \o x
        <4>1. /\ partial.bytes \in Seq(Byte) /\ x \in Seq(Byte)
              /\ partial.cursor \in 0..Len(partial.bytes)
          BY <2>4, <2>5
        <4> QED
          BY <4>1, UnreadGrows
      <3> QED
        BY <2>6, <3>1 DEF Unread, Used
    <2>8. Delivery' = Delivery
      BY <1>1, <2>1 DEF Delivery, Stored, InHand
    <2>9. \A i : Stream(i)' = Stream(i)
      BY <1>1, StreamSame
    <2>10. NextBegins'
      <3>1. (Unread \o x) \o wire' = Unread \o (x \o wire')
        <4>1. \A a, b, c \in Seq(Byte) : (a \o b) \o c = a \o (b \o c)
          BY ConcatAssociative
        <4> QED
          BY <2>4, <2>5, <4>1, Zenon
      <3>2. Incoming = wire /\ Incoming' = wire'
        BY <1>1, <2>1, <2>5, IncomingIs
      <3> QED
        BY <1>1, <2>3, <2>5, <2>7, <2>9, <3>1, <3>2 DEF NextBegins
    <2>11. Whole' /\ InOrder'
      <3>1. parsed' >= parsed
        BY <1>1, <2>4
      <3> QED
        BY <1>1, <2>3, <2>8, <3>1, SameDelivery
    <2> QED
      BY <1>1, <2>10, <2>11 DEF Reconnected, AllBytes
  <1>4. CASE broken' = TRUE
    BY <1>2, <1>4 DEF Framed
  <1>5. CASE GrowFor(x, Used + n) /\ UNCHANGED <<partial, broken>>
    <2>1. SUFFICES ASSUME ~broken PROVE (NextBegins /\ Reconnected /\ Whole /\ AllBytes /\ InOrder)'
      BY <1>2, <1>5 DEF Framed
    <2>2. NextBegins /\ Reconnected /\ Whole /\ AllBytes /\ InOrder
      BY <2>1 DEF Framed
    <2>3. worker'.pc = "grow" /\ worker'.data = x
      BY <1>5 DEF GrowFor, Idle
    <2>4. wire \in Seq(Byte) /\ n \in 0..Len(wire) /\ parsed \in Nat
      BY LenProperties DEF FramingTypes
    <2>5. x \o wire' = wire
      BY <1>1, <2>4, CutInTwo
    <2> HIDE DEF x
    <2>6. Incoming = wire /\ Incoming' = wire
      BY <1>1, <2>3, <2>5, IncomingIs
    <2>7. Unread' = Unread
      BY <1>5 DEF Unread, Used
    <2>8. Delivery' = Delivery
      BY <1>1, <2>3 DEF Delivery, Stored, InHand
    <2>9. \A i : Stream(i)' = Stream(i)
      BY <1>1, StreamSame
    <2>10. NextBegins'
      BY <1>1, <2>2, <2>6, <2>7, <2>9 DEF NextBegins
    <2>11. parsed' >= parsed
      BY <1>1, <2>4
    <2>12. Whole' /\ InOrder'
      BY <1>1, <2>2, <2>8, <2>11, SameDelivery
    <2> QED
      BY <1>1, <2>10, <2>12 DEF Reconnected, AllBytes
  <1> QED
    BY <1>3, <1>4, <1>5 DEF AppendData

\* In raw mode what a receive returned is a packet.
LEMMA RawFramed ==
    ASSUME FramingTypes, FramingTypes', Framed, NEW n \in Nat, n <= Len(wire), Receive(n), RawData(n)
    PROVE  Framed'
  <1> DEFINE x == SubSeq(wire, 1, n)
             d == [n |-> parsed + 1, data |-> x]
  <1>1. /\ worker.pc = "idle" /\ ~clearing /\ mode = "raw"
        /\ wire' = SubSeq(wire, n + 1, Len(wire))
        /\ UNCHANGED <<mode, hasRecvFunc, packetStore, clearing, sent, got, cleared>>
        /\ broken' = (broken \/ Refused(n)) /\ Found(x)
    BY DEF Receive, RawData, options
  <1>2. NothingStored'
    BY <1>1 DEF Framed, NothingStored
  <1>3. SUFFICES ASSUME ~broken, ~Refused(n)
                 PROVE  (NextBegins /\ Reconnected /\ Whole /\ AllBytes /\ InOrder)'
    BY <1>1, <1>2 DEF Framed
  <1>4. NextBegins /\ Reconnected /\ Whole /\ AllBytes /\ InOrder
    BY <1>3 DEF Framed
  <1>5. wire \in Seq(Byte) /\ n \in 0..Len(wire) /\ Delivery \in Seq(Delivered)
    BY DeliveryIs, LenProperties DEF FramingTypes
  <1>6. x \in Seq(Byte) /\ Len(x) = n /\ wire' \in Seq(Byte) /\ x \o wire' = wire
    BY <1>1, <1>5, CutInTwo
  <1> HIDE DEF x
  <1>7. d \in Delivered /\ Delivery' = Append(Delivery, d) /\ lost' = lost
    BY <1>1, <1>3, <1>6, FoundDelivers
  <1>8. parsed' = parsed + 1 /\ d.n = parsed + 1 /\ d.data = x
    BY <1>1 DEF Found
  <1> HIDE DEF d
  <1>9. Whole' /\ InOrder'
    BY <1>1, <1>4, <1>7, <1>8, OneDelivered
  <1>10. AllBytes'
    <2>1. \A i : Stream(i)' = Stream(i)
      BY <1>1, StreamSame
    <2>2. Joined(Delivery) \in Seq(Byte) /\ Joined(Append(Delivery, d)) = Joined(Delivery) \o x
      BY <1>5, <1>7, <1>8, JoinedIs
    <2>3. (Joined(Delivery) \o x) \o wire' = Joined(Delivery) \o (x \o wire')
      <3>1. \A a, b, c \in Seq(Byte) : (a \o b) \o c = a \o (b \o c)
        BY ConcatAssociative
      <3> QED
        BY <1>6, <2>2, <3>1, Zenon
    <2>4. Joined(Delivery)' = Joined(Append(Delivery, d))
      BY <1>7 DEF Joined
    <2> QED
      BY <1>1, <1>4, <1>6, <1>7, <2>1, <2>2, <2>3, <2>4 DEF AllBytes
  <1> QED
    BY <1>1, <1>9, <1>10 DEF NextBegins, Reconnected

-----------------------------------------------------------------------------
\* A packet found where the next one begins.
LEMMA FoundFramed ==
    ASSUME FramingTypes, FramingTypes', Framed, Scan, mode # "raw",
           NEW data \in Seq(Byte), Found(data),
           ~broken => /\ parsed + 1 <= Len(sent)
                      /\ data = Payload(parsed + 1)
                      /\ Unread' \o wire = Stream(parsed + 2)
    PROVE  Framed'
  <1> DEFINE d == [n |-> parsed + 1, data |-> data]
  <1>1. /\ worker.pc = "scan"
        /\ UNCHANGED <<mode, hasRecvFunc, packetStore, clearing, wire, sent, got, cleared, broken>>
    BY DEF Scan, options, stream
  <1>2. NothingStored'
    BY <1>1 DEF Framed, NothingStored
  <1>3. SUFFICES ASSUME ~broken PROVE (NextBegins /\ Reconnected /\ Whole /\ AllBytes /\ InOrder)'
    BY <1>1, <1>2 DEF Framed
  <1>4. NextBegins /\ Reconnected /\ Whole /\ AllBytes /\ InOrder
    BY <1>3 DEF Framed
  <1>5. /\ parsed + 1 <= Len(sent) /\ data = Payload(parsed + 1)
        /\ Unread' \o wire = Stream(parsed + 2)
        /\ parsed' = parsed + 1 /\ parsed \in Nat
    BY <1>3 DEF Found, FramingTypes
  <1>6. \A i : Stream(i)' = Stream(i)
    BY <1>1, StreamSame
  <1>7. NextBegins'
    <2>1. Stream(parsed + 1)' = Stream(parsed + 2)
      <3>1. parsed' + 1 = parsed + 2
        BY <1>5
      <3> QED
        BY <1>6, <3>1
    <2>2. Incoming' = wire
      <3>1. worker'.pc # "grow" /\ wire' \in Seq(Byte)
        BY FoundTypes DEF FramingTypes
      <3> QED
        BY <1>1, <3>1, IncomingIs
    <2> QED
      BY <1>1, <1>5, <2>1, <2>2 DEF NextBegins
  <1>8. Reconnected' /\ AllBytes'
    BY <1>1, <1>4 DEF Reconnected, AllBytes
  <1>9. d \in Delivered /\ (Delivery' = Append(Delivery, d) \/ Delivery' = Delivery)
    BY <1>1, FoundDelivers
  <1>10. Whole' /\ InOrder'
    <2>1. CASE Delivery' = Append(Delivery, d)
      <3>1. d.n = parsed + 1 /\ d.data = Payload(parsed + 1)
        BY <1>5
      <3> HIDE DEF d
      <3> QED
        BY <1>1, <1>4, <1>5, <1>9, <2>1, <3>1, OneDelivered
    <2>2. CASE Delivery' = Delivery
      <3>1. parsed' >= parsed
        BY <1>5
      <3> QED
        BY <1>1, <1>4, <2>2, <3>1, SameDelivery
    <2> QED
      BY <1>9, <2>1, <2>2
  <1> QED
    BY <1>7, <1>8, <1>10

\* What was dealt with is erased.
LEMMA EraseFramed ==
    ASSUME FramingTypes, FramingTypes', Framed, Scan, EraseDone
    PROVE  Framed'
  <1>1. /\ worker.pc = "scan" /\ worker'.pc = "idle"
        /\ partial' = [partial EXCEPT !.bytes = Unread, !.cursor = 0]
        /\ UNCHANGED <<mode, hasRecvFunc, packetStore, clearing, wire, sent, got, cleared, broken,
                       parsed, lost>>
    BY DEF Scan, EraseDone, options, stream, Idle
  <1>2. Unread' = Unread
    <2>1. Unread \in Seq(Byte)
      BY UnreadIs
    <2>2. Unread' = SubSeq(Unread, 0 + 1, Len(Unread))
      <3>1. partial'.bytes = Unread /\ partial'.cursor = 0
        BY <1>1 DEF FramingTypes
      <3> QED
        BY <3>1 DEF Unread, Used
    <2>3. SubSeq(Unread, 1, Len(Unread)) = Unread
      BY <2>1, SubSeqFull
    <2> QED
      BY <2>2, <2>3
  <1>3. Delivery' = Delivery
    BY <1>1 DEF Delivery, Stored, InHand
  <1>4. NothingStored'
    BY <1>1 DEF Framed, NothingStored
  <1>5. Incoming' = Incoming
    BY <1>1 DEF Incoming
  <1> QED
    BY <1>1, <1>2, <1>3, <1>4, <1>5, FramedUnmoved

\* DealWithData throws.
LEMMA ThrowFramed ==
    ASSUME FramingTypes, FramingTypes', Framed, Scan,
           worker' = [Idle EXCEPT !.threw = TRUE], UNCHANGED <<partial, parsed, lost>>
    PROVE  Framed'
  <1>1. /\ worker.pc = "scan" /\ worker'.pc = "idle"
        /\ UNCHANGED <<mode, hasRecvFunc, packetStore, clearing, wire, sent, got, cleared, broken>>
    BY DEF Scan, options, stream, Idle
  <1>2. Unread' = Unread /\ Delivery' = Delivery
    BY <1>1 DEF Unread, Used, Delivery, Stored, InHand
  <1>3. NothingStored'
    BY <1>1 DEF Framed, NothingStored
  <1>4. Incoming' = Incoming
    BY <1>1 DEF Incoming
  <1> QED
    BY <1>1, <1>2, <1>3, <1>4, FramedUnmoved

\* The buffer may grow for the packet that a size prefix announces.
LEMMA GrowForFramed ==
    ASSUME FramingTypes, FramingTypes', Framed, Scan, NEW n,
           GrowFor(<<>>, n), UNCHANGED <<partial, parsed, lost>>
    PROVE  Framed'
  <1>1. /\ worker.pc = "scan" /\ worker'.pc = "grow" /\ worker'.data = <<>>
        /\ UNCHANGED <<mode, hasRecvFunc, packetStore, clearing, wire, sent, got, cleared, broken>>
    BY DEF Scan, GrowFor, options, stream, Idle
  <1>2. Unread' = Unread /\ Delivery' = Delivery
    BY <1>1 DEF Unread, Used, Delivery, Stored, InHand
  <1>3. NothingStored'
    BY <1>1 DEF Framed, NothingStored
  <1>4. Incoming' = Incoming
    BY <1>1 DEF Incoming
  <1>5. ~broken => ~clearing
    BY <1>1 DEF Framed, Reconnected
  <1> QED
    BY <1>1, <1>2, <1>3, <1>4, <1>5, FramedUnmoved

\* The buffer grows, and the bytes it grew for are unread bytes.
LEMMA GrowFramed ==
    ASSUME FramingTypes, FramingTypes', Framed, Grow
    PROVE  Framed'
  <1> DEFINE x == worker.data
  <1>1. /\ worker.pc = "grow" /\ worker'.pc = "scan"
        /\ partial' = [partial EXCEPT !.bytes = @ \o x, !.mem = worker.mem]
        /\ UNCHANGED <<mode, hasRecvFunc, packetStore, clearing, wire, sent, parsed, got, lost,
                       cleared, broken>>
    BY DEF Grow, Idle, options, stream, history
  <1>2. /\ partial.bytes \in Seq(Byte) /\ partial.cursor \in 0..Len(partial.bytes)
        /\ partial \in [bytes : Seq(Byte), cursor : Nat, mem : Nat]
        /\ Unread \in Seq(Byte) /\ x \in Seq(Byte) /\ wire \in Seq(Byte)
    BY UnreadIs DEF FramingTypes, Work
  <1>3. partial'.bytes = partial.bytes \o x /\ partial'.cursor = partial.cursor
    BY <1>1, <1>2
  <1>4. Incoming = x \o wire /\ Incoming' = wire
    BY <1>1, <1>2, IncomingIs
  <1>5. Delivery' = Delivery
    BY <1>1 DEF Delivery, Stored, InHand
  <1> HIDE DEF x
  <1>6. Unread' = Unread \o x
    BY <1>2, <1>3, UnreadGrows DEF Unread, Used
  <1>7. (Unread \o x) \o wire = Unread \o (x \o wire)
    <2>1. \A a, b, c \in Seq(Byte) : (a \o b) \o c = a \o (b \o c)
      BY ConcatAssociative
    <2> QED
      BY <1>2, <2>1, Zenon
  <1>8. NothingStored'
    BY <1>1 DEF Framed, NothingStored
  <1>9. ~broken => ~clearing
    BY <1>1 DEF Framed, Reconnected
  <1> QED
    BY <1>1, <1>4, <1>5, <1>6, <1>7, <1>8, <1>9, FramedUnmoved

\* The memory for a packet is taken.
LEMMA TakeFramed ==
    ASSUME FramingTypes, FramingTypes', Framed, TakeMemory
    PROVE  Framed'
  <1>1. /\ worker.pc = "take" /\ worker'.pc = "found" /\ worker'.data = worker.data
        /\ UNCHANGED <<mode, hasRecvFunc, partial, packetStore, clearing, wire, sent, parsed, got,
                       lost, cleared, broken>>
    BY DEF TakeMemory, FramingTypes, Work, options, stream, history
  <1>2. Unread' = Unread /\ Delivery' = Delivery /\ Incoming' = Incoming
    BY <1>1 DEF Unread, Used, Delivery, Stored, InHand, Incoming
  <1>3. NothingStored'
    BY <1>1 DEF Framed, NothingStored
  <1>4. ~broken => ~clearing
    BY <1>1 DEF Framed, Reconnected
  <1> QED
    BY <1>1, <1>2, <1>3, <1>4, FramedUnmoved

\* A worker looks for the next packet.
LEMMA ScanFramed ==
    ASSUME FramingTypes, FramingTypes', Framed, Scan
    PROVE  Framed'
  <1>1. worker.pc = "scan" /\ UNCHANGED <<wire, sent, broken, mode>>
    BY DEF Scan, stream, options
  <1>2. ~broken => NextBegins /\ ~clearing
    BY <1>1 DEF Framed, Reconnected
  <1>3. /\ Unread \in Seq(Byte) /\ Len(Unread) = Remainder /\ Remainder \in Nat
        /\ partial.bytes \in Seq(Byte) /\ partial.cursor \in 0..Len(partial.bytes)
        /\ Remainder = Len(partial.bytes) - partial.cursor
        /\ partial \in [bytes : Seq(Byte), cursor : Nat, mem : Nat]
    BY UnreadIs DEF Remainder, Used, FramingTypes
  \* Moving the cursor.
  <1>4. ASSUME NEW m \in 0..Remainder, partial'.bytes = partial.bytes,
               partial'.cursor = partial.cursor + m
        PROVE  Unread' = SubSeq(Unread, m + 1, Len(Unread))
    <2>1. m \in 0..(Len(partial.bytes) - partial.cursor)
      BY <1>3
    <2>2. SubSeq(partial.bytes, partial.cursor + m + 1, Len(partial.bytes))
            = SubSeq(Unread, m + 1, Len(Unread))
      BY <1>3, <2>1, UnreadShrinks DEF Unread, Used
    <2>3. Unread' = SubSeq(partial.bytes, partial.cursor + m + 1, Len(partial.bytes))
      BY <1>4 DEF Unread, Used
    <2> QED
      BY <2>2, <2>3
  <1>5. /\ PrefixSizeBytes \in Nat /\ PostfixSize \in Nat
    BY FramingAssumption
  <1>6. CASE ScanPrefix
    <2>1. mode = "prefix" /\ mode # "raw"
      BY <1>6 DEF ScanPrefix
    <2>2. ASSUME Remainder >= PrefixSizeBytes, NEW size \in PrefixAt,
                 LET whole == size + PrefixSizeBytes
                 IN  \/ GrowFor(<<>>, whole) /\ UNCHANGED <<partial, parsed, lost>>
                     \/ /\ worker' = [Idle EXCEPT !.threw = TRUE]
                        /\ UNCHANGED <<partial, parsed, lost>>
                     \/ EraseDone
                     \/ /\ whole <= Remainder
                        /\ partial' = [partial EXCEPT !.cursor = @ + whole]
                        /\ Found(SubSeq(Unread, PrefixSizeBytes + 1, whole))
          PROVE  Framed'
      <3> DEFINE whole == size + PrefixSizeBytes
                 data == SubSeq(Unread, PrefixSizeBytes + 1, whole)
      <3>1. size \in Nat /\ whole \in Nat
        BY <1>5, <2>2, PrefixAtIs
      <3>2. CASE worker' = [Idle EXCEPT !.threw = TRUE] /\ UNCHANGED <<partial, parsed, lost>>
        BY <3>2, ThrowFramed
      <3>3. CASE EraseDone
        BY <3>3, EraseFramed
      <3>5. CASE GrowFor(<<>>, whole) /\ UNCHANGED <<partial, parsed, lost>>
        BY <3>5, GrowForFramed
      <3>4. CASE /\ whole <= Remainder /\ Found(data)
                 /\ partial' = [partial EXCEPT !.cursor = @ + whole]
        <4>1. data \in Seq(Byte)
          <5>1. \A k \in (PrefixSizeBytes + 1)..whole : Unread[k] \in Byte
            BY <1>3, <1>5, <3>1, <3>4
          <5> QED
            BY <1>5, <3>1, <5>1, SubSeqProperties
        <4>2. Unread' = SubSeq(Unread, whole + 1, Len(Unread))
          <5>1. partial'.bytes = partial.bytes /\ partial'.cursor = partial.cursor + whole
            BY <1>3, <3>4
          <5>2. whole \in 0..Remainder
            BY <1>3, <3>1, <3>4
          <5> HIDE DEF whole
          <5> QED
            BY <1>4, <5>1, <5>2
        <4>3. ASSUME ~broken
              PROVE  /\ parsed + 1 <= Len(sent) /\ data = Payload(parsed + 1)
                     /\ Unread' \o wire = Stream(parsed + 2)
          <5>1. NextBegins /\ ~clearing /\ worker.pc # "grow"
            BY <1>1, <1>2, <4>3
          <5>2. /\ parsed + 1 <= Len(sent) /\ size = sent[parsed + 1]
            BY <2>1, <2>2, <5>1, PrefixPacket
          <5>3. /\ data = Payload(parsed + 1)
                /\ SubSeq(Unread, whole + 1, Len(Unread)) \o wire = Stream(parsed + 2)
            BY <2>1, <2>2, <3>4, <5>1, <5>2, PrefixPacket
          <5> QED
            BY <4>2, <5>2, <5>3
        <4> HIDE DEF data, whole
        <4> QED
          BY <2>1, <3>4, <4>1, <4>3, FoundFramed
      <3> QED
        BY <2>2, <3>2, <3>3, <3>4, <3>5
    <2> QED
      BY <1>6, <2>2, EraseFramed DEF ScanPrefix
  <1>7. CASE ScanPostfix
    <2>1. mode = "postfix" /\ mode # "raw"
      BY <1>7 DEF ScanPostfix
    <2>2. ASSUME NEW p \in PostfixAt, \A q \in PostfixAt : p <= q,
                 partial' = [partial EXCEPT !.cursor = @ + p + PostfixSize],
                 Found(SubSeq(Unread, 1, p))
          PROVE  Framed'
      <3> DEFINE data == SubSeq(Unread, 1, p)
      <3>1. p \in Nat /\ p + PostfixSize \in 0..Remainder /\ p \in 0..Len(Unread)
        BY <1>3, <1>5, <2>2 DEF PostfixAt
      <3>2. data \in Seq(Byte)
        BY <1>3, <3>1, CutInTwo
      <3>3. Unread' = SubSeq(Unread, p + PostfixSize + 1, Len(Unread))
        <4>1. partial'.bytes = partial.bytes /\ partial'.cursor = partial.cursor + (p + PostfixSize)
          <5>1. partial'.bytes = partial.bytes /\ partial'.cursor = partial.cursor + p + PostfixSize
            BY <1>3, <2>2
          <5> QED
            BY <1>3, <1>5, <3>1, <5>1
        <4> QED
          BY <1>4, <3>1, <4>1
      <3>4. ASSUME ~broken
            PROVE  /\ parsed + 1 <= Len(sent) /\ data = Payload(parsed + 1)
                   /\ Unread' \o wire = Stream(parsed + 2)
        <4>1. NextBegins /\ ~clearing /\ worker.pc # "grow"
          BY <1>1, <1>2, <3>4
        <4>2. /\ parsed + 1 <= Len(sent) /\ data = Payload(parsed + 1)
              /\ SubSeq(Unread, p + PostfixSize + 1, Len(Unread)) \o wire = Stream(parsed + 2)
          BY <2>1, <2>2, <4>1, PostfixPacket
        <4> QED
          BY <3>3, <4>2
      <3> HIDE DEF data
      <3>5. Found(data)
        BY <2>2 DEF data
      <3> QED
        BY <2>1, <3>2, <3>4, <3>5, FoundFramed
    <2> QED
      BY <1>7, <2>2, EraseFramed DEF ScanPostfix
  <1> QED
    BY <1>6, <1>7 DEF Scan

-----------------------------------------------------------------------------
\* The first of one sequence becomes the last of another.
LEMMA FirstToLast ==
    ASSUME NEW S, NEW g \in Seq(S), NEW s \in Seq(S), s # <<>>
    PROVE  Append(g, Head(s)) \o Tail(s) = g \o s
  <1> DEFINE a == Append(g, Head(s))
             l == a \o Tail(s)
             r == g \o s
  <1>1. /\ Len(g) \in Nat /\ Len(s) \in Nat
        /\ Head(s) \in S /\ Tail(s) \in Seq(S) /\ Len(Tail(s)) = Len(s) - 1
        /\ \A k \in 1..(Len(s) - 1) : Tail(s)[k] = s[k + 1]
        /\ Head(s) = s[1] /\ Len(s) >= 1
    BY HeadTailProperties, LenProperties, EmptySeq
  <1>2. /\ a \in Seq(S) /\ Len(a) = Len(g) + 1 /\ a[Len(g) + 1] = s[1]
        /\ \A k \in 1..Len(g) : a[k] = g[k]
    BY <1>1, AppendProperties
  <1> HIDE DEF a
  <1>3. /\ l \in Seq(S) /\ Len(l) = Len(a) + Len(Tail(s))
        /\ \A k \in 1..Len(a) : l[k] = a[k]
        /\ \A k \in 1..Len(Tail(s)) : l[Len(a) + k] = Tail(s)[k]
    <2>1. a \in Seq(S) /\ Tail(s) \in Seq(S)
      BY <1>1, <1>2
    <2> HIDE DEF r
    <2> QED
      BY <2>1, ConcatParts
  <1>4. /\ r \in Seq(S) /\ Len(r) = Len(g) + Len(s)
        /\ \A k \in 1..Len(g) : r[k] = g[k]
        /\ \A k \in 1..Len(s) : r[Len(g) + k] = s[k]
    BY ConcatParts
  <1> HIDE DEF l, r
  <1>5. Len(l) = Len(r)
    BY <1>1, <1>2, <1>3, <1>4
  <1>6. ASSUME NEW k \in 1..Len(l) PROVE l[k] = r[k]
    <2>1. CASE k <= Len(g)
      <3>1. k \in 1..Len(g) /\ k \in 1..Len(a)
        BY <1>1, <1>2, <2>1
      <3> QED
        BY <1>2, <1>3, <1>4, <3>1
    <2>2. CASE k = Len(g) + 1
      <3>1. k \in 1..Len(a) /\ 1 \in 1..Len(s)
        BY <1>1, <1>2, <2>2
      <3> QED
        BY <1>2, <1>3, <1>4, <2>2, <3>1
    <2>3. CASE k > Len(g) + 1
      <3> DEFINE j == k - (Len(g) + 1)
      <3>1. /\ j \in 1..(Len(s) - 1) /\ j \in 1..Len(Tail(s)) /\ k = Len(a) + j
            /\ j + 1 \in 1..Len(s) /\ k = Len(g) + (j + 1)
        BY <1>1, <1>2, <1>3, <2>3
      <3>2. l[k] = s[j + 1]
        BY <1>1, <1>3, <3>1
      <3>3. r[k] = s[j + 1]
        BY <1>4, <3>1
      <3> QED
        BY <3>2, <3>3
    <2> QED
      BY <1>1, <2>1, <2>2, <2>3
  <1>7. l = r
    BY <1>3, <1>4, <1>5, <1>6, SeqEqual
  <1> QED
    BY <1>7 DEF l, r, a

\* A worker hands out the packet it found.
LEMMA PacketDoneFramed ==
    ASSUME FramingTypes, FramingTypes', Framed, PacketDone
    PROVE  Framed'
  <1> DEFINE d == [n |-> parsed, data |-> worker.data]
  <1>1. /\ worker.pc = "found" /\ worker'.pc \in {"idle", "scan"}
        /\ UNCHANGED <<mode, hasRecvFunc, partial, clearing, wire, sent, cleared, broken, parsed, lost>>
    BY DEF PacketDone, AfterPacket, Idle, options, stream
  <1>2. Unread' = Unread /\ Incoming' = Incoming
    BY <1>1 DEF Unread, Used, Incoming
  <1>3. ~broken => ~clearing
    BY <1>1 DEF Framed, Reconnected
  <1>4. /\ got \in Seq(Delivered) /\ Stored \in Seq(Delivered) /\ d \in Delivered
        /\ Len(Stored) = Len(packetStore) /\ got \o Stored \in Seq(Delivered)
        /\ packetStore \in Seq(StoredPacket)
    BY DeliveryIs DEF FramingTypes, Delivered, Work
  <1>5. InHand = <<d>> /\ InHand' = <<>>
    BY <1>1 DEF InHand
  <1>6. Delivery = (got \o Stored) \o <<d>>
    BY <1>5 DEF Delivery
  <1>7. Delivery' = (got' \o Stored') \o <<>>
    BY <1>5 DEF Delivery
  <1>8. CASE hasRecvFunc
    <2>1. packetStore = <<>> /\ packetStore' = <<>> /\ got' = Append(got, d)
      BY <1>8 DEF Framed, NothingStored, PacketDone
    <2>2. Stored = <<>> /\ Stored' = <<>>
      BY <2>1 DEF Stored
    <2> HIDE DEF d
    <2>3. Delivery = Append(got, d)
      <3>1. got \o <<>> = got
        BY <1>4, ConcatEmptySeq
      <3>2. Append(got, d) = got \o <<d>>
        BY <1>4, AppendIsConcat
      <3> QED
        BY <1>6, <2>2, <3>1, <3>2
    <2>4. Delivery' = Append(got, d)
      <3>1. Append(got, d) \in Seq(Delivered)
        BY <1>4, AppendProperties
      <3>2. Append(got, d) \o <<>> = Append(got, d)
        BY <3>1, ConcatEmptySeq
      <3> QED
        BY <1>7, <2>1, <2>2, <3>2
    <2>5. NothingStored'
      BY <2>1 DEF NothingStored
    <2> QED
      BY <1>1, <1>2, <1>3, <2>3, <2>4, <2>5, FramedUnmoved
  <1>9. CASE ~hasRecvFunc
    <2> DEFINE p == [n |-> parsed, data |-> worker.data, mem |-> worker.mem]
    <2>1. packetStore' = Append(packetStore, p) /\ got' = got
      BY <1>9 DEF PacketDone
    <2>2. p \in StoredPacket /\ p.n = parsed /\ p.data = worker.data
      BY DEF FramingTypes, StoredPacket, Work
    <2> HIDE DEF p
    <2>3. Stored' = Append(Stored, d)
      <3>1. /\ Len(packetStore) \in Nat /\ DOMAIN packetStore = 1..Len(packetStore)
            /\ DOMAIN packetStore' = 1..(Len(packetStore) + 1)
            /\ \A k \in 1..Len(packetStore) : packetStore'[k] = packetStore[k]
            /\ packetStore'[Len(packetStore) + 1] = p
        BY <1>4, <2>1, <2>2, LenProperties, AppendProperties
      <3>2. Stored' = [k \in 1..(Len(packetStore) + 1) |->
                         [n |-> packetStore'[k].n, data |-> packetStore'[k].data]]
        BY <3>1 DEF Stored
      <3>3. /\ Append(Stored, d) \in [1..(Len(packetStore) + 1) -> Delivered]
            /\ Append(Stored, d)[Len(packetStore) + 1] = d
            /\ \A k \in 1..Len(packetStore) : Append(Stored, d)[k] = Stored[k]
        <4> HIDE DEF d
        <4>1. /\ Append(Stored, d) \in Seq(Delivered) /\ Len(Append(Stored, d)) = Len(packetStore) + 1
              /\ Append(Stored, d)[Len(packetStore) + 1] = d
              /\ \A k \in 1..Len(packetStore) : Append(Stored, d)[k] = Stored[k]
          <5>1. Stored \in Seq(Delivered) /\ d \in Delivered /\ Len(Stored) = Len(packetStore)
            BY <1>4
          <5>2. /\ Append(Stored, d) \in Seq(Delivered) /\ Len(Append(Stored, d)) = Len(Stored) + 1
                /\ Append(Stored, d)[Len(Stored) + 1] = d
                /\ \A k \in 1..Len(Stored) : Append(Stored, d)[k] = Stored[k]
            BY <5>1, AppendProperties
          <5> QED
            BY <5>1, <5>2
        <4> QED
          BY <4>1, LenProperties
      <3>4. \A k \in 1..Len(packetStore) :
               Stored[k] = [n |-> packetStore[k].n, data |-> packetStore[k].data]
        BY <3>1 DEF Stored
      <3>5. \A k \in 1..(Len(packetStore) + 1) :
               Append(Stored, d)[k] = [n |-> packetStore'[k].n, data |-> packetStore'[k].data]
        <4> TAKE k \in 1..(Len(packetStore) + 1)
        <4>1. CASE k \in 1..Len(packetStore)
          BY <3>1, <3>3, <3>4, <4>1
        <4>2. CASE k = Len(packetStore) + 1
          <5>1. [n |-> packetStore'[k].n, data |-> packetStore'[k].data] = d
            BY <2>2, <3>1, <4>2
          <5> HIDE DEF d
          <5> QED
            BY <3>3, <4>2, <5>1
        <4>3. k \in 1..Len(packetStore) \/ k = Len(packetStore) + 1
          BY <3>1
        <4> HIDE DEF d
        <4> QED
          BY <4>1, <4>2, <4>3
      <3>6. Append(Stored, d) = [k \in 1..(Len(packetStore) + 1) |-> Append(Stored, d)[k]]
        <4> HIDE DEF d
        <4> QED
          BY <3>3
      <3> HIDE DEF d
      <3> QED
        BY <3>2, <3>5, <3>6
    <2> HIDE DEF d
    <2>4. Delivery' = Delivery
      <3>1. Append(Stored, d) = Stored \o <<d>> /\ <<d>> \in Seq(Delivered)
        BY <1>4, AppendIsConcat
      <3>2. (got \o Stored) \o <<d>> = got \o (Stored \o <<d>>)
        BY <1>4, <3>1, ConcatAssociative
      <3>3. got \o (Stored \o <<d>>) \in Seq(Delivered)
        BY <1>4, <3>1, ConcatProperties
      <3>4. (got \o (Stored \o <<d>>)) \o <<>> = got \o (Stored \o <<d>>)
        BY <3>3, ConcatEmptySeq
      <3> QED
        BY <1>6, <1>7, <2>1, <2>3, <3>1, <3>2, <3>4
    <2>5. NothingStored'
      BY <1>1, <1>9 DEF NothingStored
    <2> QED
      BY <1>1, <1>2, <1>3, <2>4, <2>5, FramedUnmoved
  <1> QED
    BY <1>8, <1>9

\* The user polls a packet from the store.
LEMMA PolledFramed ==
    ASSUME FramingTypes, FramingTypes', Framed, GetPacketFromStore
    PROVE  Framed'
  <1>1. /\ packetStore # <<>> /\ packetStore' = Tail(packetStore)
        /\ got' = Append(got, [n |-> Head(packetStore).n, data |-> Head(packetStore).data])
        /\ UNCHANGED <<mode, hasRecvFunc, partial, worker, clearing, wire, sent, cleared, broken,
                       parsed, lost>>
    BY DEF GetPacketFromStore, options, stream
  <1>2. Unread' = Unread /\ InHand' = InHand /\ Incoming' = Incoming
    BY <1>1 DEF Unread, Used, InHand, Incoming
  <1>3. /\ got \in Seq(Delivered) /\ Stored \in Seq(Delivered)
        /\ Len(Stored) = Len(packetStore) /\ packetStore \in Seq(StoredPacket)
        /\ Len(packetStore) \in Nat /\ Len(packetStore) >= 1
        /\ DOMAIN packetStore = 1..Len(packetStore)
    BY <1>1, DeliveryIs, LenProperties, EmptySeq DEF FramingTypes
  <1>4. /\ packetStore' \in Seq(StoredPacket) /\ DOMAIN packetStore' = 1..(Len(packetStore) - 1)
        /\ \A k \in 1..(Len(packetStore) - 1) : packetStore'[k] = packetStore[k + 1]
        /\ Head(packetStore) = packetStore[1]
    BY <1>1, <1>3, HeadTailProperties, LenProperties
  <1>5. /\ Stored # <<>> /\ Tail(Stored) \in Seq(Delivered) /\ Len(Tail(Stored)) = Len(packetStore) - 1
        /\ \A k \in 1..(Len(packetStore) - 1) : Tail(Stored)[k] = Stored[k + 1]
        /\ Head(Stored) = Stored[1]
    BY <1>3, HeadTailProperties, EmptySeq
  <1>6. \A k \in 1..Len(packetStore) :
          Stored[k] = [n |-> packetStore[k].n, data |-> packetStore[k].data]
    BY <1>3 DEF Stored
  <1>7. Head(Stored) = [n |-> Head(packetStore).n, data |-> Head(packetStore).data]
    <2>1. 1 \in 1..Len(packetStore)
      BY <1>3
    <2> QED
      BY <1>4, <1>5, <1>6, <2>1
  <1>8. Stored' = Tail(Stored)
    <2>1. Stored' = [k \in 1..(Len(packetStore) - 1) |->
                       [n |-> packetStore'[k].n, data |-> packetStore'[k].data]]
      BY <1>4 DEF Stored
    <2>2. \A k \in 1..(Len(packetStore) - 1) :
             Tail(Stored)[k] = [n |-> packetStore'[k].n, data |-> packetStore'[k].data]
      <3> TAKE k \in 1..(Len(packetStore) - 1)
      <3>1. k + 1 \in 1..Len(packetStore)
        BY <1>3
      <3> QED
        BY <1>4, <1>5, <1>6, <3>1
    <2>3. Tail(Stored) = [k \in 1..(Len(packetStore) - 1) |-> Tail(Stored)[k]]
      BY <1>5, LenProperties
    <2> QED
      BY <2>1, <2>2, <2>3
  <1>9. got' \o Stored' = got \o Stored
    BY <1>1, <1>3, <1>5, <1>7, <1>8, FirstToLast
  <1>10. Delivery' = Delivery
    BY <1>2, <1>9 DEF Delivery
  <1>11. NothingStored'
    BY <1>1 DEF Framed, NothingStored
  <1>12. clearing /\ ~broken => worker'.pc = "idle"
    BY <1>1 DEF Framed, Reconnected
  <1> QED
    BY <1>1, <1>2, <1>10, <1>11, <1>12, FramedUnmoved

\* The elements that are left when the middle of a sequence goes.
LEMMA MiddleDropped ==
    ASSUME NEW S, NEW a \in Seq(S), NEW b \in Seq(S), NEW c \in Seq(S)
    PROVE  /\ a \o c \in Seq(S) /\ Len(a \o c) = Len(a) + Len(c)
           /\ (a \o b) \o c \in Seq(S) /\ Len((a \o b) \o c) = Len(a) + Len(b) + Len(c)
           /\ \A k \in 1..(Len(a) + Len(c)) :
                LET j == IF k <= Len(a) THEN k ELSE k + Len(b)
                IN  j \in 1..(Len(a) + Len(b) + Len(c)) /\ (a \o c)[k] = ((a \o b) \o c)[j]
  <1> DEFINE ab == a \o b
  <1>1. Len(a) \in Nat /\ Len(b) \in Nat /\ Len(c) \in Nat
    BY LenProperties
  <1>2. /\ a \o c \in Seq(S) /\ Len(a \o c) = Len(a) + Len(c)
        /\ \A k \in 1..Len(a) : (a \o c)[k] = a[k]
        /\ \A k \in 1..Len(c) : (a \o c)[Len(a) + k] = c[k]
    BY ConcatParts
  <1>3. /\ ab \in Seq(S) /\ Len(ab) = Len(a) + Len(b)
        /\ \A k \in 1..Len(a) : ab[k] = a[k]
    BY ConcatParts
  <1> HIDE DEF ab
  <1>4. /\ ab \o c \in Seq(S) /\ Len(ab \o c) = Len(ab) + Len(c)
        /\ \A k \in 1..Len(ab) : (ab \o c)[k] = ab[k]
        /\ \A k \in 1..Len(c) : (ab \o c)[Len(ab) + k] = c[k]
    <2>1. ab \in Seq(S)
      BY <1>3
    <2> QED
      BY <2>1, ConcatParts
  <1>5. ASSUME NEW k \in 1..(Len(a) + Len(c))
        PROVE  LET j == IF k <= Len(a) THEN k ELSE k + Len(b)
               IN  j \in 1..(Len(a) + Len(b) + Len(c)) /\ (a \o c)[k] = (ab \o c)[j]
    <2>1. CASE k <= Len(a)
      <3>1. k \in 1..Len(a) /\ k \in 1..Len(ab) /\ k \in 1..(Len(a) + Len(b) + Len(c))
        BY <1>1, <1>3, <2>1
      <3> QED
        BY <1>2, <1>3, <1>4, <2>1, <3>1
    <2>2. CASE ~(k <= Len(a))
      <3> DEFINE m == k - Len(a)
      <3>1. /\ m \in 1..Len(c) /\ k = Len(a) + m /\ k + Len(b) = Len(ab) + m
            /\ k + Len(b) \in 1..(Len(a) + Len(b) + Len(c))
        BY <1>1, <1>3, <2>2
      <3>2. (a \o c)[k] = c[m]
        BY <1>2, <3>1
      <3>3. (ab \o c)[k + Len(b)] = c[m]
        BY <1>4, <3>1
      <3> QED
        BY <2>2, <3>1, <3>2, <3>3
    <2> QED
      BY <2>1, <2>2
  <1>6. Len(ab \o c) = Len(a) + Len(b) + Len(c)
    BY <1>1, <1>3, <1>4
  <1> QED
    BY <1>2, <1>4, <1>5, <1>6 DEF ab

\* The user clears the store.
LEMMA ClearedFramed ==
    ASSUME FramingTypes, FramingTypes', Framed, ClearPacketStore
    PROVE  Framed'
  <1>1. /\ packetStore # <<>> /\ packetStore' = <<>>
        /\ cleared' = cleared \cup Ordinals(packetStore)
        /\ UNCHANGED <<mode, hasRecvFunc, partial, worker, clearing, wire, sent, broken, parsed, got,
                       lost>>
    BY DEF ClearPacketStore, EmptyStore, options, stream
  <1>2. NothingStored'
    BY <1>1 DEF NothingStored
  <1>3. SUFFICES ASSUME ~broken PROVE (NextBegins /\ Reconnected /\ Whole /\ AllBytes /\ InOrder)'
    BY <1>1, <1>2 DEF Framed
  <1>4. NextBegins /\ Reconnected /\ Whole /\ AllBytes /\ InOrder
    BY <1>3 DEF Framed
  <1>5. /\ \A i : Stream(i)' = Stream(i)
        /\ \A i : Payload(i)' = Payload(i)
    BY <1>1, StreamSame
  <1>6. Unread' = Unread /\ InHand' = InHand /\ Stored' = <<>> /\ Incoming' = Incoming
    BY <1>1 DEF Unread, Used, InHand, Stored, Incoming
  <1>7. /\ got \in Seq(Delivered) /\ Stored \in Seq(Delivered) /\ InHand \in Seq(Delivered)
        /\ Len(got) \in Nat /\ Len(Stored) \in Nat /\ Len(InHand) \in Nat
    BY DeliveryIs, LenProperties
  <1>8. Delivery = (got \o Stored) \o InHand /\ Delivery' = got \o InHand
    <2>1. got \o <<>> = got
      BY <1>7, ConcatEmptySeq
    <2> QED
      BY <1>1, <1>6, <2>1 DEF Delivery
  <1> DEFINE f(k) == IF k <= Len(got) THEN k ELSE k + Len(Stored)
             n == Len(got) + Len(InHand)
             m == Len(got) + Len(Stored) + Len(InHand)
  <1>9. /\ Delivery' \in Seq(Delivered) /\ Delivery \in Seq(Delivered)
        /\ Len(Delivery') = n /\ Len(Delivery) = m
        /\ \A k \in 1..n : f(k) \in 1..m /\ Delivery'[k] = Delivery[f(k)]
    BY <1>7, <1>8, MiddleDropped
  <1>10. DOMAIN Delivery' = 1..n /\ DOMAIN Delivery = 1..m
    BY <1>9, LenProperties
  <1>11. \A k, l \in 1..n : k < l => f(k) < f(l)
    BY <1>7
  <1>12. NextBegins'
    BY <1>1, <1>4, <1>5, <1>6 DEF NextBegins
  <1>13. Reconnected'
    <2>1. SUFFICES ASSUME clearing PROVE Delivery' = <<>>
      BY <1>1, <1>4, <1>5 DEF Reconnected
    <2>2. Len(Delivery) = 0
      BY <1>4, <2>1, EmptySeq DEF Reconnected
    <2>3. Len(Delivery') = 0
      BY <1>7, <1>9, <2>2
    <2> QED
      BY <1>9, <2>3, EmptySeq
  <1> HIDE DEF f, n, m
  <1>14. Whole'
    BY <1>1, <1>4, <1>5, <1>9, <1>10 DEF Whole
  <1>15. InOrder'
    BY <1>1, <1>4, <1>9, <1>10, <1>11 DEF InOrder
  <1>16. AllBytes'
    <2>1. 1 \in DOMAIN packetStore
      <3>1. packetStore \in Seq(StoredPacket)
        BY DEF FramingTypes
      <3>2. DOMAIN packetStore = 1..Len(packetStore) /\ Len(packetStore) \in Nat \ {0}
        BY <1>1, <3>1, EmptySeq, LenProperties
      <3> QED
        BY <3>2
    <2>2. packetStore[1].n \in Ordinals(packetStore)
      BY <2>1 DEF Ordinals
    <2>3. cleared' # {}
      BY <1>1, <2>2
    <2> QED
      BY <2>3 DEF AllBytes
  <1> QED
    BY <1>12, <1>13, <1>14, <1>15, <1>16

\* A stream of no packets.
LEMMA EmptyIs ==
    ASSUME FramingTypes
    PROVE  /\ Joined(<<>>) = <<>>
           /\ sent' = <<>> => Stream(1)' = <<>>
  <1>1. Joined(<<>>) = <<>>
    <2>1. [n |-> 0, data |-> <<>>] \in Delivered
      BY EmptySeq DEF Delivered
    <2>2. got \in Seq(Delivered)
      BY DeliveryIs
    <2> QED
      BY <2>1, <2>2, JoinedIs
  <1>2. ASSUME sent' = <<>> PROVE Stream(1)' = <<>>
    <2>1. Encodings' = <<>>
      BY <1>2 DEF Encodings
    <2>2. Len(<<>>) = 0
      OBVIOUS
    <2>3. Rest(<<>>)[Len(<<>>) + 1] = <<>>
      BY <2>2, RestIs
    <2> QED
      BY <2>1, <2>2, <2>3 DEF Stream
  <1> QED
    BY <1>1, <1>2

\* The socket is closed, and connected again.
LEMMA CloseFramed ==
    ASSUME FramingTypes, FramingTypes', Framed, Close
    PROVE  Framed'
  <1>1. /\ packetStore' = <<>> /\ wire' = <<>> /\ sent' = <<>> /\ parsed' = 0 /\ got' = <<>>
        /\ broken' = (worker.pc # "idle") /\ worker' = worker
    BY DEF Close, EmptyStore
  <1>2. NothingStored'
    BY <1>1 DEF NothingStored
  <1>3. SUFFICES ASSUME worker.pc = "idle"
                 PROVE  (NextBegins /\ Reconnected /\ Whole /\ AllBytes /\ InOrder)'
    BY <1>1, <1>2 DEF Framed
  <1>4. Delivery' = <<>>
    <2>1. Stored' = <<>> /\ InHand' = <<>>
      BY <1>1, <1>3 DEF Stored, InHand
    <2>2. Delivery' = (<<>> \o <<>>) \o <<>>
      BY <1>1, <2>1 DEF Delivery
    <2>3. <<>> \in Seq(Delivered)
      BY EmptySeq
    <2>4. <<>> \o <<>> = <<>>
      BY <2>3, ConcatEmptySeq
    <2> QED
      BY <2>2, <2>4
  <1>5. Stream(1)' = <<>> /\ Joined(<<>>) = <<>>
    BY <1>1, EmptyIs
  <1>6. clearing' /\ Len(sent') = 0
    BY <1>1 DEF Close
  <1>7. NextBegins'
    BY <1>1, <1>6 DEF NextBegins
  <1>8. Reconnected'
    BY <1>1, <1>3, <1>4, <1>5 DEF Reconnected
  <1>9. Whole' /\ InOrder'
    BY <1>4 DEF Whole, InOrder
  <1>10. AllBytes'
    <2>1. Joined(Delivery)' = <<>>
      BY <1>4, <1>5 DEF Joined
    <2>2. <<>> \o <<>> = <<>>
      <3>1. <<>> \in Seq(Delivered)
        BY EmptySeq
      <3> QED
        BY <3>1, ConcatEmptySeq
    <2> QED
      BY <1>1, <1>5, <2>1, <2>2 DEF AllBytes
  <1> QED
    BY <1>7, <1>8, <1>9, <1>10

\* The buffer is cleared after the socket was closed.
LEMMA ClearPartialFramed ==
    ASSUME FramingTypes, FramingTypes', Framed, ClearPartial
    PROVE  Framed'
  <1>1. /\ clearing /\ ~clearing'
        /\ partial' = [partial EXCEPT !.bytes = <<>>, !.cursor = 0]
        /\ UNCHANGED <<mode, hasRecvFunc, packetStore, worker, wire, sent, broken, parsed, got, lost,
                       cleared>>
    BY DEF ClearPartial, options, stream, history, FramingTypes
  <1>2. NothingStored'
    BY <1>1 DEF Framed, NothingStored
  <1>3. SUFFICES ASSUME ~broken PROVE (NextBegins /\ Reconnected /\ Whole /\ AllBytes /\ InOrder)'
    BY <1>1, <1>2 DEF Framed
  <1>4. NextBegins /\ Reconnected /\ Whole /\ AllBytes /\ InOrder
    BY <1>3 DEF Framed
  <1>5. \A i : Stream(i)' = Stream(i)
    BY <1>1, StreamSame
  <1>6. Delivery' = Delivery
    BY <1>1 DEF Delivery, Stored, InHand
  <1>7. wire \in Seq(Byte) /\ parsed \in Nat
    BY DEF FramingTypes
  <1>8. Whole' /\ InOrder'
    <2>1. parsed' >= parsed
      BY <1>1, <1>7
    <2> QED
      BY <1>1, <1>4, <1>6, <2>1, SameDelivery
  <1>9. Unread' \o wire = wire
    <2>1. partial'.bytes = <<>> /\ partial'.cursor = 0
      BY <1>1 DEF FramingTypes
    <2>2. SubSeq(<<>>, 0 + 1, Len(<<>>)) = <<>>
      OBVIOUS
    <2>3. Unread' = <<>>
      BY <2>1, <2>2 DEF Unread, Used
    <2> QED
      BY <1>7, <2>3, ConcatEmptySeq
  <1>10. NextBegins'
    <2>1. SUFFICES ASSUME mode # "raw"
                   PROVE  parsed <= Len(sent) /\ wire = Stream(parsed + 1)'
      <3>1. Incoming' = wire
        BY <1>1, <1>4, <1>7, IncomingIs DEF Reconnected
      <3> QED
        BY <1>1, <1>9, <3>1 DEF NextBegins
    <2>2. parsed = 0 /\ wire = Stream(1) /\ parsed <= Len(sent)
      BY <1>1, <1>4, <2>1 DEF Reconnected, NextBegins
    <2> QED
      BY <1>1, <1>5, <2>2
  <1> QED
    BY <1>1, <1>4, <1>5, <1>6, <1>8, <1>10 DEF Reconnected, AllBytes

\* A new socket has received nothing.
LEMMA InitFramed ==
    ASSUME FramingInit
    PROVE  FramingTypes /\ Framed
  <1>1. /\ mode \in {"prefix", "postfix", "raw"}
        /\ PartialSize \in Nat
    BY FramingAssumption DEF FramingInit
  <1>2. /\ partial = [bytes |-> <<>>, cursor |-> 0, mem |-> IF mode = "raw" THEN 0 ELSE PartialSize]
        /\ packetStore = <<>> /\ worker = Idle /\ resize = 0 /\ clearing = FALSE
        /\ wire = <<>> /\ sent = <<>> /\ parsed = 0 /\ got = <<>> /\ lost = {} /\ cleared = {}
        /\ broken = FALSE
    BY DEF FramingInit
  <1>3. FramingTypes
    <2>1. /\ <<>> \in Seq(Byte) /\ <<>> \in Seq(Nat) /\ <<>> \in Seq(StoredPacket)
          /\ <<>> \in Seq(Delivered) /\ Len(<<>>) = 0
      BY EmptySeq
    <2>2. partial \in [bytes : Seq(Byte), cursor : Nat, mem : Nat]
          /\ partial.cursor <= Len(partial.bytes)
      BY <1>1, <1>2, <2>1
    <2>3. worker \in Work /\ worker.pc \notin {"grow", "scan"}
      BY <1>2, <2>1 DEF Idle, Work
    <2>4. memoryLimit \in Nat
      BY FramingAssumption DEF FramingInit
    <2> QED
      BY <1>1, <1>2, <2>1, <2>2, <2>3, <2>4 DEF FramingTypes
  <1>4. Delivery = <<>>
    <2>1. Stored = <<>> /\ InHand = <<>>
      BY <1>2 DEF Stored, InHand, Idle
    <2>2. <<>> \in Seq(Delivered)
      BY EmptySeq
    <2>3. <<>> \o <<>> = <<>>
      BY <2>2, ConcatEmptySeq
    <2> QED
      BY <1>2, <2>1, <2>3 DEF Delivery
  <1>5. Stream(1) = <<>> /\ Joined(<<>>) = <<>> /\ Len(sent) = 0
    <2>1. Len(sent) = 0
      BY <1>2
    <2> QED
      BY <1>3, <2>1, StreamIs, EmptyIs
  <1>6. <<>> \o <<>> = <<>>
    <2>1. <<>> \in Seq(Delivered)
      BY EmptySeq
    <2> QED
      BY <2>1, ConcatEmptySeq
  <1>7. Unread = <<>>
    <2>1. SubSeq(<<>>, 0 + 1, Len(<<>>)) = <<>>
      OBVIOUS
    <2> QED
      BY <1>2, <2>1 DEF Unread, Used
  <1>8. NextBegins
    <2>1. parsed + 1 = 1
      BY <1>2
    <2> QED
      BY <1>2, <1>5, <1>6, <1>7, <2>1 DEF NextBegins, Incoming, Idle
  <1>9. AllBytes
    BY <1>2, <1>4, <1>5, <1>6 DEF AllBytes
  <1> QED
    BY <1>2, <1>3, <1>4, <1>8, <1>9 DEF Framed, NothingStored, Reconnected, Whole, InOrder

\* The framing, action by action.
LEMMA FramedKept ==
    ASSUME FramingTypes, Framed, [FramingNext]_framingVars
    PROVE  Framed'
  <1>1. FramingTypes'
    BY TypesKept
  <1>2. ASSUME UNCHANGED <<mode, hasRecvFunc, sent, wire, parsed, lost, cleared, broken, clearing,
                           packetStore, got, worker>>,
               partial'.bytes = partial.bytes, partial'.cursor = partial.cursor
        PROVE  Framed'
    <2>1. Unread' = Unread /\ Delivery' = Delivery /\ Incoming' = Incoming
      BY <1>2 DEF Unread, Used, Delivery, Stored, InHand, Incoming
    <2>2. NothingStored'
      BY <1>2 DEF Framed, NothingStored
    <2>3. clearing /\ ~broken => worker'.pc = "idle"
      BY <1>2 DEF Framed, Reconnected
    <2> QED
      BY <1>1, <1>2, <2>1, <2>2, <2>3, FramedUnmoved
  <1>3. ASSUME Arrive PROVE Framed'
    <2>1. PICK n \in 1..RecvBufferSize : n <= Len(wire) /\ Receive(n)
      BY <1>3 DEF Arrive
    <2>2. n \in Nat
      BY <2>1
    <2> QED
      BY <1>1, <2>1, <2>2, AppendFramed, RawFramed DEF Receive
  <1>4. ASSUME ApplyResize PROVE Framed'
    <2>1. partial'.bytes = partial.bytes /\ partial'.cursor = partial.cursor
      BY <1>4 DEF ApplyResize, FramingTypes
    <2> QED
      BY <1>2, <1>4, <2>1 DEF ApplyResize, options, stream, history
  <1>5. ASSUME NEW size \in ResizeTo, CheckResize(size) PROVE Framed'
    BY <1>2, <1>5 DEF CheckResize, options, stream, history
  <1>6. ASSUME SetAutoResize \/ \E limit \in MemoryLimits : SetMemoryLimit(limit) PROVE Framed'
    BY <1>2, <1>6 DEF SetAutoResize, SetMemoryLimit, stream, history
  <1>7. CASE UNCHANGED framingVars
    BY <1>2, <1>7 DEF framingVars, options, stream, history
  <1>8. CASE Deal
    BY <1>1, <1>8, GrowFramed, ScanFramed, TakeFramed, PacketDoneFramed DEF Deal
  <1>9. ASSUME NEW len \in Lengths, Send(len) PROVE Framed'
    BY <1>1, <1>9, SendFramed
  <1>10. CASE GetPacketFromStore
    BY <1>1, <1>10, PolledFramed
  <1>11. CASE ClearPacketStore
    BY <1>1, <1>11, ClearedFramed
  <1>12. CASE Close
    BY <1>1, <1>12, CloseFramed
  <1>13. CASE ClearPartial
    BY <1>1, <1>13, ClearPartialFramed
  <1> QED
    BY <1>3, <1>4, <1>5, <1>6, <1>7, <1>8, <1>9, <1>10, <1>11, <1>12, <1>13 DEF FramingNext

\* The framing is inductive: the unread bytes and those on the way begin with the next
\* packet, in every mode, whatever the sizes of packets, receives and buffers
\* (the cursor and Erase in DealWithData).
THEOREM FramingInvariant ==
    FramingSpec => [](FramingTypes /\ Framed)
  <1>1. FramingInit => FramingTypes /\ Framed
    BY InitFramed
  <1>2. FramingTypes /\ Framed /\ [FramingNext]_framingVars => (FramingTypes /\ Framed)'
    BY TypesKept, FramedKept
  <1> QED
    BY <1>1, <1>2, PTL DEF FramingSpec

\* Packets come out of the stream whole, unaltered and in the order they were sent,
\* however it is cut and whatever the other threads do meanwhile.
THEOREM FramingKeptHolds ==
    FramingSpec => []FramingKept
  <1>1. FramingTypes /\ Framed => FramingKept
    BY DEF FramingKept, Framed, NextBegins, Whole, AllBytes, InOrder
  <1> QED
    BY <1>1, FramingInvariant, PTL

-----------------------------------------------------------------------------
(***************************************************************************)
(* TcpFraming, the memory: what the sum of the packets' sizes does when    *)
(* packets are stored, polled and recycled, by induction over a set of     *)
(* numbers as above, and that each step keeps the account.                 *)
(***************************************************************************)
\* The function PartSums defines exists.
LEMMA PartSumsExists ==
    ASSUME NEW numbers, NEW n \in Nat
    PROVE  \E f : f = [k \in 0..n |-> IF k = 0 THEN 0 ELSE f[k - 1] + numbers[k]]
  <1> DEFINE Is(f, m) == f = [k \in 0..m |-> IF k = 0 THEN 0 ELSE f[k - 1] + numbers[k]]
             T == {m \in Nat : \E f : Is(f, m)}
  <1>1. 0 \in T
    <2> DEFINE g == [k \in 0..0 |-> 0]
    <2>1. \A k \in 0..0 : k = 0
      OBVIOUS
    <2>2. Is(g, 0)
      BY <2>1
    <2> HIDE DEF Is, g
    <2> QED
      BY <2>2
  <1>2. ASSUME NEW m \in Nat, m \in T PROVE m + 1 \in T
    <2>1. PICK f : Is(f, m)
      <3> HIDE DEF Is
      <3> QED
        BY <1>2
    <2> DEFINE g == [k \in 0..(m + 1) |-> IF k = m + 1 THEN f[m] + numbers[m + 1] ELSE f[k]]
    <2>2. \A k \in 0..m : /\ k \in 0..(m + 1) /\ k # m + 1
                          /\ g[k] = f[k] /\ f[k] = IF k = 0 THEN 0 ELSE f[k - 1] + numbers[k]
      BY <2>1
    <2>3. ASSUME NEW k \in 0..(m + 1)
          PROVE  g[k] = IF k = 0 THEN 0 ELSE g[k - 1] + numbers[k]
      <3>1. CASE k = m + 1
        <4>1. k # 0 /\ k - 1 = m /\ m \in 0..m
          BY <3>1
        <4>2. g[k] = f[m] + numbers[m + 1]
          BY <3>1
        <4>3. g[m] = f[m]
          BY <2>2, <4>1
        <4> HIDE DEF g
        <4> QED
          BY <3>1, <4>1, <4>2, <4>3
      <3>2. CASE k # m + 1
        <4>1. k \in 0..m
          BY <3>2
        <4>2. k # 0 => k - 1 \in 0..m
          BY <4>1
        <4> HIDE DEF g
        <4> QED
          BY <2>2, <4>1, <4>2
      <3> QED
        BY <3>1, <3>2
    <2>4. g = [k \in 0..(m + 1) |-> g[k]]
      OBVIOUS
    <2>5. Is(g, m + 1)
      <3> HIDE DEF g
      <3> QED
        BY <2>3, <2>4
    <2> HIDE DEF Is, g
    <2> QED
      BY <2>5
  <1> HIDE DEF T
  <1>3. n \in T
    BY <1>1, <1>2, SetInduction
  <1> QED
    BY <1>3 DEF T

\* What PartSums defines.
LEMMA PartSumsIs ==
    ASSUME NEW numbers, Len(numbers) \in Nat
    PROVE  /\ PartSums(numbers)[0] = 0
           /\ \A k \in 1..Len(numbers) : PartSums(numbers)[k] = PartSums(numbers)[k - 1] + numbers[k]
  <1> DEFINE n == Len(numbers)
             Def(f) == f = [k \in 0..n |-> IF k = 0 THEN 0 ELSE f[k - 1] + numbers[k]]
             p == PartSums(numbers)
  <1>1. \E f : Def(f)
    BY PartSumsExists
  <1>2. p = CHOOSE f : Def(f)
    BY DEF PartSums
  <1>3. Def(p)
    <2> HIDE DEF Def, p
    <2> QED
      BY <1>1, <1>2
  <1>4. \A k \in 0..n : p[k] = IF k = 0 THEN 0 ELSE p[k - 1] + numbers[k]
    <2> HIDE DEF p
    <2> QED
      BY <1>3
  <1>5. 0 \in 0..n /\ \A k \in 1..n : k \in 0..n /\ k # 0
    OBVIOUS
  <1> HIDE DEF p
  <1>6. p[0] = 0 /\ \A k \in 1..n : p[k] = p[k - 1] + numbers[k]
    BY <1>4, <1>5
  <1> QED
    BY <1>6 DEF p

\* Sums are numbers.
LEMMA SumTypes ==
    ASSUME NEW numbers \in Seq(Nat)
    PROVE  /\ \A k \in 0..Len(numbers) : PartSums(numbers)[k] \in Nat
           /\ SumOf(numbers) \in Nat
  <1> DEFINE n == Len(numbers)
             p == PartSums(numbers)
             T == {k \in Nat : k <= n => p[k] \in Nat}
  <1>1. n \in Nat /\ \A k \in 1..n : numbers[k] \in Nat
    BY LenProperties, ElementOfSeq
  <1>2. p[0] = 0 /\ \A k \in 1..n : p[k] = p[k - 1] + numbers[k]
    BY <1>1, PartSumsIs
  <1> HIDE DEF p, n
  <1>3. 0 \in T
    BY <1>2
  <1>4. ASSUME NEW k \in Nat, k \in T PROVE k + 1 \in T
    <2>1. SUFFICES ASSUME k + 1 <= n PROVE p[k + 1] \in Nat
      OBVIOUS
    <2>2. k + 1 \in 1..n /\ (k + 1) - 1 = k /\ k <= n
      BY <1>1, <2>1
    <2>3. p[k] \in Nat
      BY <1>4, <2>2
    <2>4. p[k + 1] = p[k] + numbers[k + 1] /\ numbers[k + 1] \in Nat
      BY <1>1, <1>2, <2>2
    <2> QED
      BY <2>3, <2>4
  <1> HIDE DEF T
  <1>5. \A k \in Nat : k \in T
    BY <1>3, <1>4, SetInduction
  <1>6. \A k \in 0..n : p[k] \in Nat
    BY <1>1, <1>5 DEF T
  <1>7. SumOf(numbers) = p[n] /\ n \in 0..n
    BY <1>1 DEF SumOf, p, n
  <1> QED
    BY <1>6, <1>7 DEF p, n

\* Sums of the parts on which two sequences agree.
LEMMA SumsAgree ==
    ASSUME NEW s \in Seq(Nat), NEW t \in Seq(Nat), NEW n \in Nat, n <= Len(s), n <= Len(t),
           \A k \in 1..n : s[k] = t[k]
    PROVE  PartSums(s)[n] = PartSums(t)[n]
  <1> DEFINE p == PartSums(s)
             q == PartSums(t)
             T == {k \in Nat : k <= n => p[k] = q[k]}
  <1>1. Len(s) \in Nat /\ Len(t) \in Nat
    BY LenProperties
  <1>2. /\ p[0] = 0 /\ \A k \in 1..Len(s) : p[k] = p[k - 1] + s[k]
        /\ q[0] = 0 /\ \A k \in 1..Len(t) : q[k] = q[k - 1] + t[k]
    BY <1>1, PartSumsIs
  <1> HIDE DEF p, q
  <1>3. 0 \in T
    BY <1>2
  <1>4. ASSUME NEW k \in Nat, k \in T PROVE k + 1 \in T
    <2>1. SUFFICES ASSUME k + 1 <= n PROVE p[k + 1] = q[k + 1]
      OBVIOUS
    <2>2. k + 1 \in 1..n /\ k + 1 \in 1..Len(s) /\ k + 1 \in 1..Len(t) /\ (k + 1) - 1 = k /\ k <= n
      BY <1>1, <2>1
    <2>3. p[k + 1] = p[k] + s[k + 1] /\ q[k + 1] = q[k] + t[k + 1]
      BY <1>2, <2>2
    <2>4. p[k] = q[k] /\ s[k + 1] = t[k + 1]
      BY <1>4, <2>2
    <2> QED
      BY <2>3, <2>4
  <1> HIDE DEF T
  <1>5. n \in T
    BY <1>3, <1>4, SetInduction
  <1> QED
    BY <1>5 DEF T, p, q

\* The sum with one more number.
LEMMA SumAppend ==
    ASSUME NEW s \in Seq(Nat), NEW x \in Nat
    PROVE  SumOf(Append(s, x)) = SumOf(s) + x
  <1> DEFINE t == Append(s, x)
             n == Len(s)
  <1>1. n \in Nat /\ t \in Seq(Nat) /\ Len(t) = n + 1 /\ t[n + 1] = x /\ \A k \in 1..n : s[k] = t[k]
    BY AppendProperties, LenProperties
  <1> HIDE DEF t, n
  <1>2. PartSums(t)[n + 1] = PartSums(t)[n] + x
    <2>1. n + 1 \in 1..Len(t) /\ (n + 1) - 1 = n
      BY <1>1
    <2> QED
      BY <1>1, <2>1, PartSumsIs
  <1>3. PartSums(t)[n] = PartSums(s)[n]
    <2>1. n <= Len(s) /\ n <= Len(t)
      BY <1>1 DEF n
    <2> QED
      BY <1>1, <2>1, SumsAgree
  <1> QED
    BY <1>1, <1>2, <1>3 DEF SumOf, t, n

\* The sum of no number and of one.
LEMMA SumFew ==
    /\ SumOf(<<>>) = 0
    /\ \A x \in Nat : SumOf(<<x>>) = x
  <1>1. SumOf(<<>>) = 0
    <2>1. Len(<<>>) = 0
      OBVIOUS
    <2> QED
      BY <2>1, PartSumsIs DEF SumOf
  <1>2. ASSUME NEW x \in Nat PROVE SumOf(<<x>>) = x
    <2>1. <<>> \in Seq(Nat) /\ <<x>> = Append(<<>>, x)
      OBVIOUS
    <2>2. SumOf(Append(<<>>, x)) = SumOf(<<>>) + x
      BY <2>1, SumAppend
    <2> QED
      BY <1>1, <2>1, <2>2
  <1> QED
    BY <1>1, <1>2

\* The first number and the sum of the others.
LEMMA SumTail ==
    ASSUME NEW s \in Seq(Nat), s # <<>>
    PROVE  SumOf(s) = s[1] + SumOf(Tail(s))
  <1> DEFINE t == Tail(s)
             n == Len(s)
             T == {k \in Nat : k < n => PartSums(s)[k + 1] = s[1] + PartSums(t)[k]}
  <1>1. /\ n \in Nat /\ n >= 1 /\ t \in Seq(Nat) /\ Len(t) = n - 1
        /\ \A k \in 1..(n - 1) : t[k] = s[k + 1]
    BY LenProperties, EmptySeq, HeadTailProperties
  <1>2. s[1] \in Nat /\ \A k \in 0..(n - 1) : PartSums(t)[k] \in Nat
    <2>1. 1 \in 1..n
      BY <1>1
    <2> QED
      BY <1>1, <2>1, ElementOfSeq, SumTypes
  <1>3. /\ PartSums(s)[0] = 0 /\ \A k \in 1..n : PartSums(s)[k] = PartSums(s)[k - 1] + s[k]
        /\ PartSums(t)[0] = 0 /\ \A k \in 1..(n - 1) : PartSums(t)[k] = PartSums(t)[k - 1] + t[k]
    <2>1. Len(s) = n /\ Len(t) = n - 1 /\ Len(s) \in Nat /\ Len(t) \in Nat
      BY <1>1
    <2> HIDE DEF t, n
    <2>2. /\ PartSums(s)[0] = 0
          /\ \A k \in 1..Len(s) : PartSums(s)[k] = PartSums(s)[k - 1] + s[k]
      BY <2>1, PartSumsIs
    <2>3. /\ PartSums(t)[0] = 0
          /\ \A k \in 1..Len(t) : PartSums(t)[k] = PartSums(t)[k - 1] + t[k]
      BY <2>1, PartSumsIs
    <2> QED
      BY <2>1, <2>2, <2>3
  <1> HIDE DEF t, n
  <1>4. 0 \in T
    <2>1. 1 \in 1..n /\ 1 - 1 = 0 /\ 0 + 1 = 1
      BY <1>1
    <2>2. PartSums(s)[1] = s[1] + PartSums(t)[0]
      BY <1>2, <1>3, <2>1
    <2> QED
      BY <2>1, <2>2
  <1>5. ASSUME NEW k \in Nat, k \in T PROVE k + 1 \in T
    <2>1. SUFFICES ASSUME k + 1 < n PROVE PartSums(s)[k + 1 + 1] = s[1] + PartSums(t)[k + 1]
      OBVIOUS
    <2>2. /\ k + 1 \in 1..(n - 1) /\ k + 1 + 1 \in 1..n /\ (k + 1) - 1 = k /\ (k + 1 + 1) - 1 = k + 1
          /\ k < n /\ k \in 0..(n - 1) /\ k + 1 \in 0..(n - 1)
      BY <1>1, <2>1
    <2>3. PartSums(s)[k + 1 + 1] = PartSums(s)[k + 1] + s[k + 1 + 1]
      BY <1>3, <2>2
    <2>4. PartSums(t)[k + 1] = PartSums(t)[k] + s[k + 1 + 1]
      BY <1>1, <1>3, <2>2
    <2>5. PartSums(s)[k + 1] = s[1] + PartSums(t)[k]
      BY <1>5, <2>2
    <2>6. s[k + 1 + 1] \in Nat
      BY <2>2, ElementOfSeq DEF n
    <2> QED
      BY <1>2, <2>2, <2>3, <2>4, <2>5, <2>6
  <1> HIDE DEF T
  <1>6. \A k \in Nat : k \in T
    BY <1>4, <1>5, SetInduction
  <1>7. PartSums(s)[(n - 1) + 1] = s[1] + PartSums(t)[n - 1]
    BY <1>1, <1>6 DEF T
  <1>8. (n - 1) + 1 = n
    BY <1>1
  <1> QED
    BY <1>1, <1>7, <1>8 DEF SumOf, t, n

\* Some numbers of a sequence are alike: the sum of the others, and of those.
LEMMA SumParted ==
    ASSUME NEW s \in Seq(Nat), NEW kept \in SUBSET DOMAIN s, NEW c \in Nat,
           \A k \in kept : s[k] = c
    PROVE  LET t == [k \in DOMAIN s |-> IF k \in kept THEN 0 ELSE s[k]]
           IN  /\ t \in Seq(Nat)
               /\ Cardinality(kept) \in Nat
               /\ SumOf(s) = SumOf(t) + Cardinality(kept) * c
  <1> DEFINE t == [k \in DOMAIN s |-> IF k \in kept THEN 0 ELSE s[k]]
             n == Len(s)
             Kept(k) == kept \cap (1..k)
             T == {k \in Nat : k <= n =>
                     PartSums(s)[k] = PartSums(t)[k] + Cardinality(Kept(k)) * c}
  <1>1. n \in Nat /\ DOMAIN s = 1..n /\ \A k \in 1..n : s[k] \in Nat
    BY LenProperties, ElementOfSeq
  <1>2. /\ t \in Seq(Nat) /\ Len(t) = n
        /\ \A k \in 1..n : t[k] = IF k \in kept THEN 0 ELSE s[k]
    <2>1. t = [k \in 1..n |-> IF k \in kept THEN 0 ELSE s[k]]
      BY <1>1
    <2>2. \A k \in 1..n : (IF k \in kept THEN 0 ELSE s[k]) \in Nat
      BY <1>1
    <2> HIDE DEF t, n
    <2> QED
      BY <1>1, <2>1, <2>2, LenProperties
  <1>3. /\ PartSums(s)[0] = 0 /\ \A k \in 1..n : PartSums(s)[k] = PartSums(s)[k - 1] + s[k]
        /\ PartSums(t)[0] = 0 /\ \A k \in 1..n : PartSums(t)[k] = PartSums(t)[k - 1] + t[k]
    <2>1. Len(s) = n /\ Len(t) = n /\ Len(s) \in Nat /\ Len(t) \in Nat
      BY <1>1, <1>2
    <2> HIDE DEF t, n
    <2>2. /\ PartSums(s)[0] = 0
          /\ \A k \in 1..Len(s) : PartSums(s)[k] = PartSums(s)[k - 1] + s[k]
      BY <2>1, PartSumsIs
    <2>3. /\ PartSums(t)[0] = 0
          /\ \A k \in 1..Len(t) : PartSums(t)[k] = PartSums(t)[k - 1] + t[k]
      BY <2>1, PartSumsIs
    <2> QED
      BY <2>1, <2>2, <2>3
  <1>4. \A k \in 0..n : PartSums(t)[k] \in Nat
    BY <1>2, SumTypes
  <1>5. \A k \in Nat : IsFiniteSet(Kept(k)) /\ Cardinality(Kept(k)) \in Nat
    <2>1. \A k \in Nat : IsFiniteSet(1..k)
      BY FS_Interval
    <2> QED
      BY <2>1, FS_Intersection, FS_CardinalityType
  <1> HIDE DEF t, n
  <1>6. 0 \in T
    <2>1. Kept(0) = {}
      OBVIOUS
    <2>2. Cardinality(Kept(0)) = 0
      BY <2>1, FS_EmptySet
    <2>3. 0 * c = 0
      OBVIOUS
    <2> HIDE DEF Kept
    <2> QED
      BY <1>3, <2>2, <2>3
  <1>7. ASSUME NEW k \in Nat, k \in T PROVE k + 1 \in T
    <2>1. SUFFICES ASSUME k + 1 <= n
                   PROVE  PartSums(s)[k + 1] = PartSums(t)[k + 1] + Cardinality(Kept(k + 1)) * c
      <3> HIDE DEF Kept
      <3> QED
        OBVIOUS
    <2>2. k + 1 \in 1..n /\ (k + 1) - 1 = k /\ k <= n /\ k \in 0..n
      BY <1>1, <2>1
    <2>3. PartSums(s)[k] = PartSums(t)[k] + Cardinality(Kept(k)) * c
      <3> HIDE DEF Kept
      <3> QED
        BY <1>7, <2>2
    <2>4. /\ PartSums(s)[k + 1] = PartSums(s)[k] + s[k + 1]
          /\ PartSums(t)[k + 1] = PartSums(t)[k] + t[k + 1]
          /\ PartSums(t)[k] \in Nat /\ Cardinality(Kept(k)) \in Nat /\ s[k + 1] \in Nat
      <3> HIDE DEF Kept
      <3> QED
        BY <1>1, <1>3, <1>4, <1>5, <2>2
    <2>5. CASE k + 1 \in kept
      <3>1. Kept(k + 1) = Kept(k) \cup {k + 1} /\ k + 1 \notin Kept(k)
        BY <2>5
      <3>2. Cardinality(Kept(k + 1)) = Cardinality(Kept(k)) + 1
        <4> HIDE DEF Kept
        <4> QED
          BY <1>5, <3>1, FS_AddElement
      <3>3. s[k + 1] = c /\ t[k + 1] = 0
        BY <1>2, <2>2, <2>5
      <3>4. \A m \in Nat : (m + 1) * c = m * c + c
        OBVIOUS
      <3>5. \A m \in Nat : m * c \in Nat
        OBVIOUS
      <3> HIDE DEF Kept
      <3>6. Cardinality(Kept(k + 1)) * c = Cardinality(Kept(k)) * c + c
        BY <2>4, <3>2, <3>4
      <3> QED
        BY <2>3, <2>4, <3>3, <3>5, <3>6
    <2>6. CASE k + 1 \notin kept
      <3>1. Kept(k + 1) = Kept(k)
        BY <2>6
      <3>2. t[k + 1] = s[k + 1]
        BY <1>2, <2>2, <2>6
      <3>3. \A m \in Nat : m * c \in Nat
        OBVIOUS
      <3> HIDE DEF Kept
      <3> QED
        BY <2>3, <2>4, <3>1, <3>2, <3>3
    <2> QED
      BY <2>5, <2>6
  <1> HIDE DEF T
  <1>8. \A k \in Nat : k \in T
    BY <1>6, <1>7, SetInduction
  <1>9. Kept(n) = kept
    BY <1>1
  <1>10. PartSums(s)[n] = PartSums(t)[n] + Cardinality(kept) * c
    <2> HIDE DEF Kept
    <2> QED
      BY <1>1, <1>8, <1>9 DEF T
  <1>11. SumOf(s) = PartSums(s)[n] /\ SumOf(t) = PartSums(t)[n]
    BY <1>2 DEF SumOf, n
  <1>12. Cardinality(kept) \in Nat
    BY <1>1, <1>5, <1>9
  <1> QED
    BY <1>2, <1>10, <1>11, <1>12 DEF t

-----------------------------------------------------------------------------
\* The memory of the packet in the hands of a worker.
InWorker == IF worker.pc = "found" THEN worker.mem ELSE 0

\* What a worker was allowed to take when it checked the limit it may still take: the
\* memory in use has only become less, and the buffer will hold what it grows for.
Checked ==
    /\ worker.pc = "take" => memoryUsage + partial.mem + worker.mem <= worker.limit
    /\ worker.pc = "grow" => /\ memoryUsage + worker.mem <= worker.limit
                             /\ Used + Len(worker.data) <= worker.mem

\* What the memory rests on: it is that of the bin, the store and the worker, and the
\* buffer is as large as what it holds.
Accounted ==
    /\ bin \in Nat
    /\ memoryUsage \in Nat
    /\ memoryLimit \in Nat
    /\ memoryUsage = MemoryInUse
    /\ Used <= partial.mem
    /\ Checked

\* A step takes memory within the limit it was checked with, or resizes the buffer.
WithinLimit == MemorySize' > MemorySize => MemorySize' <= worker.limit \/ resize' # resize

\* Arithmetic with the memory size of a packet of the bin.
LEMMA TimesPacketSize ==
    /\ PacketSize \in Nat
    /\ \A m \in Nat : m * PacketSize \in Nat
    /\ \A m, c \in Nat : (m + c) * PacketSize = m * PacketSize + c * PacketSize
  <1>1. PacketSize \in Nat
    BY FramingAssumption
  <1> QED
    BY <1>1

\* The memory sizes of the packets in the store.
LEMMA MemsIs ==
    ASSUME NEW s \in Seq(StoredPacket)
    PROVE  /\ Mems(s) \in Seq(Nat) /\ SumOf(Mems(s)) \in Nat
           /\ s = <<>> => Mems(s) = <<>>
           /\ \A p \in StoredPacket : Mems(Append(s, p)) = Append(Mems(s), p.mem)
           /\ s # <<>> => /\ Mems(s) # <<>> /\ Mems(s)[1] = Head(s).mem /\ Head(s).mem \in Nat
                          /\ Mems(Tail(s)) = Tail(Mems(s))
  <1>1. /\ Len(s) \in Nat /\ DOMAIN s = 1..Len(s)
        /\ \A k \in 1..Len(s) : s[k] \in StoredPacket /\ s[k].mem \in Nat
    <2>1. \A p \in StoredPacket : p.mem \in Nat
      BY DEF StoredPacket
    <2> QED
      BY <2>1, LenProperties, ElementOfSeq
  <1>2. /\ Mems(s) \in Seq(Nat) /\ Len(Mems(s)) = Len(s)
        /\ \A k \in 1..Len(s) : Mems(s)[k] = s[k].mem
    <2>1. Mems(s) = [k \in 1..Len(s) |-> s[k].mem]
      BY <1>1 DEF Mems
    <2> QED
      BY <1>1, <2>1, LenProperties
  <1>3. SumOf(Mems(s)) \in Nat
    BY <1>2, SumTypes
  <1>4. s = <<>> => Mems(s) = <<>>
    BY <1>2, LenProperties, EmptySeq
  <1>5. ASSUME NEW p \in StoredPacket PROVE Mems(Append(s, p)) = Append(Mems(s), p.mem)
    <2> DEFINE a == Mems(Append(s, p))
               b == Append(Mems(s), p.mem)
    <2>1. p.mem \in Nat
      BY DEF StoredPacket
    <2>2. /\ Append(s, p) \in Seq(StoredPacket) /\ Len(Append(s, p)) = Len(s) + 1
          /\ Append(s, p)[Len(s) + 1] = p /\ \A k \in 1..Len(s) : Append(s, p)[k] = s[k]
          /\ DOMAIN Append(s, p) = 1..(Len(s) + 1)
      BY <1>1, AppendProperties, LenProperties
    <2>3. a = [k \in 1..(Len(s) + 1) |-> Append(s, p)[k].mem]
      BY <2>2 DEF Mems
    <2>4. /\ b \in Seq(Nat) /\ Len(b) = Len(s) + 1 /\ b[Len(s) + 1] = p.mem
          /\ \A k \in 1..Len(s) : b[k] = s[k].mem
      BY <1>1, <1>2, <2>1, AppendProperties
    <2>5. DOMAIN b = 1..(Len(s) + 1) /\ b = [k \in 1..(Len(s) + 1) |-> b[k]]
      BY <2>4, LenProperties
    <2>6. \A k \in 1..(Len(s) + 1) : k # Len(s) + 1 => k \in 1..Len(s)
      BY <1>1
    <2> HIDE DEF a, b
    <2>7. \A k \in 1..(Len(s) + 1) : b[k] = Append(s, p)[k].mem
      BY <2>2, <2>4, <2>6
    <2>8. a = b
      BY <2>3, <2>5, <2>7
    <2> QED
      BY <2>8 DEF a, b
  <1>6. ASSUME s # <<>>
        PROVE  /\ Mems(s) # <<>> /\ Mems(s)[1] = Head(s).mem /\ Head(s).mem \in Nat
               /\ Mems(Tail(s)) = Tail(Mems(s))
    <2> DEFINE a == Mems(Tail(s))
               b == Tail(Mems(s))
    <2>1. /\ Len(s) >= 1 /\ Tail(s) \in Seq(StoredPacket) /\ Len(Tail(s)) = Len(s) - 1
          /\ \A k \in 1..(Len(s) - 1) : Tail(s)[k] = s[k + 1]
          /\ Head(s) = s[1]
      BY <1>1, <1>6, EmptySeq, HeadTailProperties
    <2>2. Mems(s) # <<>>
      BY <1>2, <2>1, EmptySeq
    <2>3. 1 \in 1..Len(s)
      BY <1>1, <2>1
    <2>4. Mems(s)[1] = Head(s).mem /\ Head(s).mem \in Nat
      BY <1>1, <1>2, <2>1, <2>3
    <2>5. DOMAIN Tail(s) = 1..(Len(s) - 1)
      BY <2>1, LenProperties
    <2>6. a = [k \in 1..(Len(s) - 1) |-> Tail(s)[k].mem]
      BY <2>5 DEF Mems
    <2>7. /\ b \in Seq(Nat) /\ Len(b) = Len(s) - 1
          /\ \A k \in 1..(Len(s) - 1) : b[k] = Mems(s)[k + 1]
      BY <1>2, <2>2, HeadTailProperties
    <2>8. DOMAIN b = 1..(Len(s) - 1) /\ b = [k \in 1..(Len(s) - 1) |-> b[k]]
      BY <2>7, LenProperties
    <2>9. \A k \in 1..(Len(s) - 1) : k + 1 \in 1..Len(s)
      BY <1>1
    <2> HIDE DEF a, b
    <2>10. \A k \in 1..(Len(s) - 1) : b[k] = Tail(s)[k].mem
      BY <1>2, <2>1, <2>7, <2>9
    <2>11. a = b
      BY <2>6, <2>8, <2>10
    <2> QED
      BY <2>2, <2>4, <2>11 DEF a, b
  <1> QED
    BY <1>2, <1>3, <1>4, <1>5, <1>6

\* Memory that is given back leaves the bin or the usage, and nothing else does.
LEMMA RecycleGivesBack ==
    ASSUME bin \in Nat, memoryUsage \in Nat, NEW mems \in Seq(Nat), Recycle(mems)
    PROVE  /\ bin' \in Nat
           /\ \E freed \in Nat : /\ memoryUsage' = memoryUsage - freed
                                 /\ bin' * PacketSize + freed = bin * PacketSize + SumOf(mems)
  <1> DEFINE fits(k) == /\ mems[k] = PacketSize
                        /\ bin + Cardinality({j \in 1..k : mems[j] = PacketSize}) <= NumberOfPackets
             kept == {k \in DOMAIN mems : fits(k)}
             t == [k \in DOMAIN mems |-> IF k \in kept THEN 0 ELSE mems[k]]
  <1>1. bin' = bin + Cardinality(kept) /\ memoryUsage' = memoryUsage - SumOf(t)
    BY DEF Recycle
  <1>2. kept \in SUBSET DOMAIN mems /\ \A k \in kept : mems[k] = PacketSize
    OBVIOUS
  <1> HIDE DEF kept
  <1>3. /\ t \in Seq(Nat) /\ Cardinality(kept) \in Nat
        /\ SumOf(mems) = SumOf(t) + Cardinality(kept) * PacketSize
    BY <1>2, SumParted, TimesPacketSize
  <1>4. SumOf(t) \in Nat
    BY <1>3, SumTypes
  <1> HIDE DEF t
  <1>5. (bin + Cardinality(kept)) * PacketSize = bin * PacketSize + Cardinality(kept) * PacketSize
    BY <1>3, TimesPacketSize
  <1>6. bin * PacketSize \in Nat /\ Cardinality(kept) * PacketSize \in Nat
    BY <1>3, TimesPacketSize
  <1>7. bin' * PacketSize + SumOf(t) = bin * PacketSize + SumOf(mems)
    BY <1>1, <1>3, <1>4, <1>5, <1>6
  <1> QED
    BY <1>1, <1>3, <1>4, <1>7

\* A packet that was found is refused, leaves the bin or is to be taken fresh.
LEMMA FoundTakes ==
    ASSUME FramingTypes, Accounted, NEW data \in Seq(Byte), Found(data)
    PROVE  /\ memoryUsage' = memoryUsage
           /\ \/ bin' = bin /\ worker'.pc = "idle"
              \/ /\ bin' \in Nat /\ bin = bin' + 1
                 /\ worker'.pc = "found" /\ worker'.mem = PacketSize
              \/ /\ bin' = bin /\ worker'.pc = "take" /\ worker'.mem \in Nat
                 /\ memoryUsage + partial.mem + worker'.mem <= worker'.limit
  <1> DEFINE n == Len(data)
  <1>1. bin \in Nat /\ memoryUsage \in Nat /\ memoryLimit \in Nat /\ partial.mem \in Nat
    BY DEF Accounted, FramingTypes
  <1>2. n \in Nat /\ PacketSize \in Nat
    BY LenProperties, TimesPacketSize
  <1>3. PacketMemory(n) \in Nat /\ (n <= PacketSize => PacketMemory(n) = PacketSize)
    BY <1>2 DEF PacketMemory
  <1>4. memoryUsage' = memoryUsage
    BY DEF Found
  <1> HIDE DEF n
  <1>5. CASE worker' = [Idle EXCEPT !.threw = TRUE] /\ bin' = bin
    BY <1>4, <1>5 DEF Idle
  <1>6. CASE /\ FromBin(n) /\ bin' = bin - 1
             /\ worker' = [pc |-> "found", threw |-> FALSE, data |-> data, mem |-> PacketMemory(n),
                           limit |-> memoryLimit]
    <2>1. bin > 0 /\ n <= PacketSize
      BY <1>6 DEF FromBin
    <2>2. bin' \in Nat /\ bin = bin' + 1
      BY <1>1, <1>6, <2>1
    <2>3. worker'.pc = "found" /\ worker'.mem = PacketSize
      BY <1>3, <1>6, <2>1
    <2> QED
      BY <1>4, <2>2, <2>3
  <1>7. CASE /\ ~Refused(n) /\ ~FromBin(n) /\ bin' = bin
             /\ worker' = [pc |-> "take", threw |-> FALSE, data |-> data, mem |-> PacketMemory(n),
                           limit |-> memoryLimit]
    <2>1. memoryUsage + partial.mem + PacketMemory(n) <= memoryLimit
      BY <1>1, <1>3, <1>7 DEF Refused, MemorySize
    <2>2. worker'.pc = "take" /\ worker'.mem = PacketMemory(n) /\ worker'.limit = memoryLimit
      BY <1>7
    <2> QED
      BY <1>3, <1>4, <1>7, <2>1, <2>2
  <1> QED
    BY <1>5, <1>6, <1>7 DEF Found, n, Idle

\* The counts stay, and with them all that is accounted but the size of the buffer.
LEMMA NothingTaken ==
    ASSUME FramingTypes, Accounted, UNCHANGED <<bin, memoryUsage, packetStore>>, InWorker' = InWorker,
           memoryLimit' \in Nat, Used' <= partial'.mem, Checked'
    PROVE  Accounted'
  <1>1. SumOf(Mems(packetStore'))  = SumOf(Mems(packetStore))
    OBVIOUS
  <1>2. MemoryInUse' = MemoryInUse
    BY DEF MemoryInUse, InWorker
  <1> QED
    BY <1>2 DEF Accounted

\* Memory that is given back keeps what is accounted.
LEMMA GivenBack ==
    ASSUME FramingTypes, Accounted, NEW mems \in Seq(Nat), Recycle(mems),
           SumOf(Mems(packetStore')) + InWorker' + SumOf(mems) = SumOf(Mems(packetStore)) + InWorker,
           SumOf(Mems(packetStore')) \in Nat, InWorker' \in Nat,
           UNCHANGED <<memoryLimit, partial>>, worker.pc # "take",
           worker' = worker \/ worker'.pc \in {"idle", "scan"}
    PROVE  Accounted' /\ WithinLimit
  <1>1. bin \in Nat /\ memoryUsage \in Nat /\ memoryLimit \in Nat /\ partial.mem \in Nat
    BY DEF Accounted, FramingTypes
  <1>2. bin' \in Nat
    BY <1>1, RecycleGivesBack
  <1>3. PICK freed \in Nat : /\ memoryUsage' = memoryUsage - freed
                             /\ bin' * PacketSize + freed = bin * PacketSize + SumOf(mems)
    BY <1>1, RecycleGivesBack
  <1>4. /\ bin * PacketSize \in Nat /\ bin' * PacketSize \in Nat /\ SumOf(mems) \in Nat
        /\ SumOf(Mems(packetStore)) \in Nat /\ InWorker \in Nat
    <2>1. SumOf(Mems(packetStore)) \in Nat
      BY MemsIs DEF FramingTypes
    <2>2. InWorker \in Nat
      BY DEF FramingTypes, Work, InWorker
    <2> QED
      BY <1>1, <1>2, <2>1, <2>2, TimesPacketSize, SumTypes
  <1>5. memoryUsage = bin * PacketSize + SumOf(Mems(packetStore)) + InWorker
    BY DEF Accounted, MemoryInUse, InWorker
  <1>6. memoryUsage' = bin' * PacketSize + SumOf(Mems(packetStore')) + InWorker'
    <2> DEFINE Left(u, f, b, c, p, q, i, j, m) ==
                 u = b + p + i /\ c + f = b + m /\ q + j + m = p + i => u - f = c + q + j
    <2>1. \A u, f, b, c, p, q, i, j, m \in Nat : Left(u, f, b, c, p, q, i, j, m)
      OBVIOUS
    <2> HIDE DEF Left
    <2>2. Left(memoryUsage, freed, bin * PacketSize, bin' * PacketSize, SumOf(Mems(packetStore)),
               SumOf(Mems(packetStore')), InWorker, InWorker', SumOf(mems))
      BY <1>1, <1>4, <2>1
    <2>3. memoryUsage - freed = bin' * PacketSize + SumOf(Mems(packetStore')) + InWorker'
      BY <1>3, <1>5, <2>2, Zenon DEF Left
    <2> QED
      BY <1>3, <2>3, Zenon
  <1>7. memoryUsage' \in Nat /\ memoryUsage' <= memoryUsage
    <2> DEFINE Less(x, u, f, c, q, j) == x = c + q + j /\ x = u - f => x \in Nat /\ x <= u
    <2>1. \A u, f, c, q, j \in Nat : \A x \in Int : Less(x, u, f, c, q, j)
      OBVIOUS
    <2>2. memoryUsage' \in Int
      BY <1>1, <1>3
    <2> HIDE DEF Less
    <2>3. Less(memoryUsage', memoryUsage, freed, bin' * PacketSize, SumOf(Mems(packetStore')), InWorker')
      BY <1>1, <1>4, <2>1, <2>2, Zenon
    <2> QED
      BY <1>3, <1>6, <2>3, Zenon DEF Less
  <1>8. memoryUsage' = MemoryInUse'
    BY <1>6 DEF MemoryInUse, InWorker
  <1>9. Used' = Used /\ partial'.mem = partial.mem
    BY DEF Used
  <1>12. Checked'
    <2>1. CASE worker' = worker
      <3>1. worker.mem \in Nat /\ worker.limit \in Nat
        BY DEF FramingTypes, Work
      <3>2. worker.pc = "grow" => /\ memoryUsage + worker.mem <= worker.limit
                                 /\ Used + Len(worker.data) <= worker.mem
        BY DEF Accounted, Checked
      <3>3. worker.pc = "grow" => memoryUsage' + worker.mem <= worker.limit
        BY <1>1, <1>7, <3>1, <3>2
      <3> QED
        BY <1>9, <2>1, <3>2, <3>3 DEF Checked
    <2>2. CASE worker'.pc \in {"idle", "scan"}
      BY <2>2 DEF Checked
    <2> QED
      BY <2>1, <2>2
  <1>10. Accounted'
    BY <1>1, <1>2, <1>7, <1>8, <1>9, <1>12 DEF Accounted
  <1>11. ~(MemorySize' > MemorySize)
    BY <1>1, <1>7, <1>9 DEF MemorySize
  <1> QED
    BY <1>10, <1>11 DEF WithinLimit

\* A packet that was found keeps what is accounted.
LEMMA Taken ==
    ASSUME FramingTypes, Accounted, NEW data \in Seq(Byte), Found(data),
           worker.pc \in {"idle", "scan"},
           UNCHANGED <<memoryLimit, packetStore>>, partial'.mem = partial.mem, Used' <= partial'.mem
    PROVE  Accounted' /\ WithinLimit
  <1>1. bin \in Nat /\ memoryUsage \in Nat /\ memoryLimit \in Nat /\ partial.mem \in Nat
        /\ PacketSize \in Nat
    BY TimesPacketSize DEF Accounted, FramingTypes
  <1>2. memoryUsage' = memoryUsage
    BY FoundTakes
  <1>3. WithinLimit
    BY <1>1, <1>2 DEF WithinLimit, MemorySize
  <1>4. InWorker = 0
    BY DEF InWorker
  <1>5. bin * PacketSize \in Nat /\ SumOf(Mems(packetStore)) \in Nat
    BY <1>1, TimesPacketSize, MemsIs DEF FramingTypes
  <1>6. memoryUsage = bin * PacketSize + SumOf(Mems(packetStore)) + InWorker
    BY DEF Accounted, MemoryInUse, InWorker
  <1>7. CASE bin' = bin /\ worker'.pc \in {"idle", "take"}
    <2>1. InWorker' = 0
      BY <1>7 DEF InWorker
    <2>2. Checked'
      BY <1>2, <1>7, FoundTakes DEF Checked
    <2> QED
      BY <1>1, <1>2, <1>3, <1>4, <1>7, <2>1, <2>2, NothingTaken
  <1>8. CASE bin' \in Nat /\ bin = bin' + 1 /\ worker'.pc = "found" /\ worker'.mem = PacketSize
    <2>1. InWorker' = PacketSize
      BY <1>8 DEF InWorker
    <2>2. bin' * PacketSize \in Nat /\ bin * PacketSize = bin' * PacketSize + PacketSize
      <3>1. \A m \in Nat : (m + 1) * PacketSize = m * PacketSize + PacketSize
        BY TimesPacketSize
      <3>2. \A m \in Nat : m * PacketSize \in Nat
        BY TimesPacketSize
      <3> QED
        BY <1>8, <3>1, <3>2
    <2> DEFINE Moved(u, b, c, m, p) == u = b + p + 0 /\ b = c + m => u = c + p + m
    <2>3. \A u, b, c, m, p \in Nat : Moved(u, b, c, m, p)
      OBVIOUS
    <2> HIDE DEF Moved
    <2>4. Moved(memoryUsage, bin * PacketSize, bin' * PacketSize, PacketSize, SumOf(Mems(packetStore)))
      BY <1>1, <1>5, <2>2, <2>3, Zenon
    <2>5. memoryUsage = bin' * PacketSize + SumOf(Mems(packetStore)) + PacketSize
      BY <1>4, <1>6, <2>2, <2>4, Zenon DEF Moved
    <2>6. memoryUsage' = MemoryInUse'
      BY <1>2, <2>1, <2>5 DEF MemoryInUse, InWorker
    <2>7. Checked'
      BY <1>8 DEF Checked
    <2> QED
      BY <1>1, <1>2, <1>3, <1>8, <2>6, <2>7 DEF Accounted
  <1> QED
    BY <1>7, <1>8, FoundTakes

\* The memory a worker was allowed is taken, and keeps what is accounted.
LEMMA TakeAccounted ==
    ASSUME FramingTypes, Accounted, TakeMemory
    PROVE  Accounted' /\ WithinLimit
  <1>1. /\ worker.pc = "take" /\ worker'.pc = "found" /\ worker'.mem = worker.mem
        /\ memoryUsage' = memoryUsage + worker.mem
        /\ UNCHANGED <<memoryLimit, partial, packetStore, bin>>
    BY DEF TakeMemory, FramingTypes, Work, options
  <1>2. /\ memoryUsage \in Nat /\ worker.mem \in Nat /\ worker.limit \in Nat /\ partial.mem \in Nat
        /\ bin \in Nat /\ bin * PacketSize \in Nat /\ SumOf(Mems(packetStore)) \in Nat
    BY TimesPacketSize, MemsIs DEF Accounted, FramingTypes, Work
  <1>3. memoryUsage = bin * PacketSize + SumOf(Mems(packetStore)) + 0
    BY <1>1 DEF Accounted, MemoryInUse
  <1>4. MemoryInUse' = bin * PacketSize + SumOf(Mems(packetStore)) + worker.mem
    BY <1>1 DEF MemoryInUse
  <1> DEFINE Added(u, b, p, m) == u = b + p + 0 => u + m = b + p + m
  <1>5. \A u, b, p, m \in Nat : Added(u, b, p, m)
    OBVIOUS
  <1> HIDE DEF Added
  <1>6. Added(memoryUsage, bin * PacketSize, SumOf(Mems(packetStore)), worker.mem)
    BY <1>2, <1>5, Zenon
  <1>7. memoryUsage' = MemoryInUse'
    BY <1>1, <1>3, <1>4, <1>6, Zenon DEF Added
  <1>8. memoryUsage' \in Nat
    BY <1>1, <1>2
  <1>9. Checked' /\ Used' = Used
    BY <1>1 DEF Checked, Used
  <1>10. Accounted'
    BY <1>1, <1>2, <1>7, <1>8, <1>9 DEF Accounted
  <1>11. MemorySize' <= worker.limit
    <2>1. memoryUsage + partial.mem + worker.mem <= worker.limit
      BY <1>1 DEF Accounted, Checked
    <2> QED
      BY <1>1, <1>2, <2>1 DEF MemorySize
  <1> QED
    BY <1>10, <1>11 DEF WithinLimit

\* Nothing is taken, and the buffer keeps its size.
LEMMA BufferKept ==
    ASSUME FramingTypes, Accounted, UNCHANGED <<bin, memoryUsage, packetStore>>,
           InWorker' = InWorker, memoryLimit' \in Nat, partial'.mem = partial.mem,
           Used' <= partial.mem, Checked'
    PROVE  Accounted' /\ WithinLimit
  <1>1. partial.mem \in Nat /\ memoryUsage \in Nat
    BY DEF Accounted, FramingTypes
  <1>2. Accounted'
    BY NothingTaken
  <1>3. WithinLimit
    BY <1>1 DEF WithinLimit, MemorySize
  <1> QED
    BY <1>2, <1>3

\* The buffer grows as far as the worker was allowed.
LEMMA GrowAccounted ==
    ASSUME FramingTypes, Accounted, Grow
    PROVE  Accounted' /\ WithinLimit
  <1>1. /\ worker.pc = "grow" /\ worker'.pc = "scan"
        /\ partial' = [partial EXCEPT !.bytes = @ \o worker.data, !.mem = worker.mem]
        /\ UNCHANGED <<memoryLimit, packetStore, bin, memoryUsage>>
    BY DEF Grow, Idle, options
  <1>2. /\ partial.bytes \in Seq(Byte) /\ Used = Len(partial.bytes) /\ worker.data \in Seq(Byte)
        /\ partial \in [bytes : Seq(Byte), cursor : Nat, mem : Nat]
        /\ worker.mem \in Nat /\ worker.limit \in Nat /\ memoryUsage \in Nat
    BY UnreadIs DEF Accounted, FramingTypes, Work, Used
  <1>3. partial'.bytes = partial.bytes \o worker.data /\ partial'.mem = worker.mem
    BY <1>1, <1>2
  <1>4. Used' = Used + Len(worker.data)
    BY <1>2, <1>3, ConcatParts DEF Used
  <1>5. memoryUsage + worker.mem <= worker.limit /\ Used + Len(worker.data) <= worker.mem
    BY <1>1 DEF Accounted, Checked
  <1>6. InWorker' = InWorker /\ Checked'
    BY <1>1 DEF InWorker, Checked
  <1>7. memoryLimit' \in Nat
    BY <1>1 DEF FramingTypes
  <1>8. Accounted'
    BY <1>1, <1>3, <1>4, <1>5, <1>6, <1>7, NothingTaken
  <1>9. MemorySize' <= worker.limit
    BY <1>1, <1>2, <1>3, <1>5 DEF MemorySize
  <1> QED
    BY <1>8, <1>9 DEF WithinLimit

\* A worker appends what it received, or takes it for a packet.
LEMMA ArriveAccounted ==
    ASSUME FramingTypes, Accounted, NEW n \in Nat, n <= Len(wire), Receive(n)
    PROVE  Accounted' /\ WithinLimit
  <1>1. /\ worker.pc = "idle" /\ UNCHANGED <<memoryLimit, packetStore, resize>>
    BY DEF Receive, options
  <1>2. InWorker = 0
    BY <1>1 DEF InWorker
  <1>3. /\ wire \in Seq(Byte) /\ Len(wire) \in Nat
        /\ SubSeq(wire, 1, n) \in Seq(Byte) /\ Len(SubSeq(wire, 1, n)) = n
    <2>1. wire \in Seq(Byte) /\ Len(wire) \in Nat
      BY LenProperties DEF FramingTypes
    <2>2. n \in 0..Len(wire)
      BY <2>1
    <2> QED
      BY <2>1, <2>2, CutInTwo
  <1>4. partial.bytes \in Seq(Byte) /\ Used \in Nat /\ partial.mem \in Nat /\ Used <= partial.mem
    BY UnreadIs DEF Accounted, FramingTypes
  <1>7. memoryLimit' \in Nat
    BY <1>1 DEF FramingTypes
  <1>5. CASE AppendData(n)
    <2>1. CASE /\ Used + n <= partial.mem
               /\ partial' = [partial EXCEPT !.bytes = @ \o SubSeq(wire, 1, n)]
               /\ worker' = [Idle EXCEPT !.pc = "scan"]
      <3>1. partial \in [bytes : Seq(Byte), cursor : Nat, mem : Nat]
        BY DEF FramingTypes
      <3>2. partial'.bytes = partial.bytes \o SubSeq(wire, 1, n) /\ partial'.mem = partial.mem
        BY <2>1, <3>1
      <3>3. Used' = Used + n
        <4>1. Len(partial.bytes \o SubSeq(wire, 1, n)) = Len(partial.bytes) + Len(SubSeq(wire, 1, n))
          BY <1>3, <1>4, ConcatParts
        <4> QED
          BY <1>3, <3>2, <4>1 DEF Used
      <3>4. InWorker' = 0 /\ Checked'
        BY <2>1 DEF InWorker, Checked, Idle
      <3>5. UNCHANGED <<bin, memoryUsage>>
        BY <1>5 DEF AppendData
      <3> QED
        BY <1>1, <1>2, <1>7, <2>1, <3>2, <3>3, <3>4, <3>5, BufferKept
    <2>2. CASE /\ GrowFor(SubSeq(wire, 1, n), Used + n) /\ MayGrow(Used + n) /\ UNCHANGED partial
      <3>1. /\ worker'.pc = "grow" /\ worker'.mem = Used + n /\ worker'.data = SubSeq(wire, 1, n)
            /\ worker'.limit = memoryLimit
        BY <2>2 DEF GrowFor, Idle
      <3>2. Used' = Used /\ partial'.mem = partial.mem
        BY <2>2 DEF Used
      <3>3. UNCHANGED <<bin, memoryUsage>>
        BY <1>5 DEF AppendData
      <3>4. memoryUsage + (Used + n) <= memoryLimit
        BY <2>2 DEF MayGrow
      <3>5. Used + n <= Used + n
        BY <1>4
      <3>6. InWorker' = 0 /\ Checked'
        BY <1>3, <3>1, <3>2, <3>3, <3>4, <3>5 DEF InWorker, Checked
      <3> QED
        BY <1>1, <1>2, <1>4, <1>7, <3>2, <3>3, <3>6, BufferKept
    <2>3. CASE worker' = [Idle EXCEPT !.threw = TRUE] /\ UNCHANGED partial
      <3>1. InWorker' = 0 /\ Checked'
        BY <2>3 DEF InWorker, Checked, Idle
      <3>2. Used' = Used /\ partial'.mem = partial.mem
        BY <2>3 DEF Used
      <3>3. UNCHANGED <<bin, memoryUsage>>
        BY <1>5 DEF AppendData
      <3> QED
        BY <1>1, <1>2, <1>4, <1>7, <3>1, <3>2, <3>3, BufferKept
    <2> QED
      BY <1>5, <2>1, <2>2, <2>3 DEF AppendData
  <1>6. CASE RawData(n)
    <2>1. Found(SubSeq(wire, 1, n)) /\ UNCHANGED partial
      BY <1>6 DEF RawData
    <2>2. Used' = Used /\ partial'.mem = partial.mem
      BY <2>1 DEF Used
    <2> QED
      BY <1>1, <1>3, <1>4, <2>1, <2>2, Taken
  <1> QED
    BY <1>5, <1>6 DEF Receive

\* A worker looks for the next packet.
LEMMA ScanAccounted ==
    ASSUME FramingTypes, Accounted, Scan
    PROVE  Accounted' /\ WithinLimit
  <1>1. worker.pc = "scan" /\ UNCHANGED <<memoryLimit, packetStore, resize>>
    BY DEF Scan, options
  <1>2. InWorker = 0 /\ memoryLimit' \in Nat
    BY <1>1 DEF InWorker, FramingTypes
  <1>3. /\ partial.bytes \in Seq(Byte) /\ Used = Len(partial.bytes) /\ Used \in Nat
        /\ partial.mem \in Nat /\ Used <= partial.mem
        /\ Unread \in Seq(Byte) /\ Len(Unread) = Remainder /\ Remainder \in Nat
        /\ partial.cursor \in Nat /\ partial.cursor <= Used
        /\ partial \in [bytes : Seq(Byte), cursor : Nat, mem : Nat]
    BY UnreadIs DEF Accounted, FramingTypes, Used
  <1>4. Remainder <= Used
    BY <1>3 DEF Remainder
  <1>5. ASSUME EraseDone
        PROVE  Accounted' /\ WithinLimit
    <2>1. /\ partial' = [partial EXCEPT !.bytes = Unread, !.cursor = 0]
          /\ worker' = Idle /\ UNCHANGED <<bin, memoryUsage>>
      BY <1>5 DEF EraseDone
    <2>2. partial'.mem = partial.mem /\ partial'.bytes = Unread
      BY <1>3, <2>1
    <2>3. InWorker' = InWorker /\ Checked'
      BY <1>2, <2>1 DEF InWorker, Checked, Idle
    <2>4. Used' <= partial.mem
      BY <1>3, <1>4, <2>2 DEF Used
    <2> QED
      BY <1>1, <1>2, <2>1, <2>2, <2>3, <2>4, BufferKept
  <1>6. ASSUME NEW data \in Seq(Byte), Found(data), NEW c,
               partial' = [partial EXCEPT !.cursor = c]
        PROVE  Accounted' /\ WithinLimit
    <2>1. partial'.mem = partial.mem /\ partial'.bytes = partial.bytes
      BY <1>3, <1>6
    <2>2. Used' <= partial'.mem
      BY <1>3, <2>1 DEF Used
    <2> QED
      BY <1>1, <1>2, <1>6, <2>1, <2>2, Taken
  <1>7. CASE ScanPrefix
    <2>1. CASE EraseDone
      BY <1>5, <2>1
    <2>2. ASSUME Remainder >= PrefixSizeBytes, NEW size \in PrefixAt,
                 LET whole == size + PrefixSizeBytes
                 IN  \/ /\ MayGrow(whole) /\ whole > partial.mem /\ GrowFor(<<>>, whole)
                        /\ UNCHANGED <<partial, bin, memoryUsage>>
                     \/ /\ worker' = [Idle EXCEPT !.threw = TRUE]
                        /\ UNCHANGED <<partial, bin, memoryUsage>>
                     \/ EraseDone
                     \/ /\ whole <= Remainder
                        /\ partial' = [partial EXCEPT !.cursor = @ + whole]
                        /\ Found(SubSeq(Unread, PrefixSizeBytes + 1, whole))
          PROVE  Accounted' /\ WithinLimit
      <3>2. size \in Nat /\ PrefixSizeBytes \in Nat
        BY <2>2, PrefixAtIs, FramingAssumption
      <3> DEFINE whole == size + PrefixSizeBytes
      <3>3. whole \in Nat
        BY <3>2
      <3>4. CASE /\ MayGrow(whole) /\ whole > partial.mem /\ GrowFor(<<>>, whole)
                 /\ UNCHANGED <<partial, bin, memoryUsage>>
        <4>1. /\ worker'.pc = "grow" /\ worker'.mem = whole /\ worker'.data = <<>>
              /\ worker'.limit = memoryLimit
          BY <3>4 DEF GrowFor, Idle
        <4>2. Used' = Used /\ partial'.mem = partial.mem
          BY <3>4 DEF Used
        <4>3. memoryUsage + whole <= memoryLimit
          BY <3>4 DEF MayGrow
        <4>4. Used + Len(<<>>) <= whole
          <5>1. Len(<<>>) = 0
            OBVIOUS
          <5> QED
            BY <1>3, <3>3, <3>4, <5>1
        <4> HIDE DEF whole
        <4>5. InWorker' = 0 /\ Checked'
          BY <3>4, <4>1, <4>2, <4>3, <4>4 DEF InWorker, Checked
        <4> QED
          BY <1>1, <1>2, <1>3, <3>4, <4>2, <4>5, BufferKept
      <3>5. CASE worker' = [Idle EXCEPT !.threw = TRUE] /\ UNCHANGED <<partial, bin, memoryUsage>>
        <4>1. InWorker' = 0 /\ Checked'
          BY <3>5 DEF InWorker, Checked, Idle
        <4>2. Used' = Used /\ partial'.mem = partial.mem
          BY <3>5 DEF Used
        <4> QED
          BY <1>1, <1>2, <1>3, <3>5, <4>1, <4>2, BufferKept
      <3>6. CASE EraseDone
        BY <1>5, <3>6
      <3>7. CASE /\ whole <= Remainder
                 /\ partial' = [partial EXCEPT !.cursor = @ + whole]
                 /\ Found(SubSeq(Unread, PrefixSizeBytes + 1, whole))
        <4>3. SubSeq(Unread, PrefixSizeBytes + 1, whole) \in Seq(Byte)
          <5>1. \A k \in (PrefixSizeBytes + 1)..whole : k \in 1..Len(Unread)
            BY <1>3, <3>2, <3>3, <3>7
          <5>2. \A k \in (PrefixSizeBytes + 1)..whole : Unread[k] \in Byte
            BY <1>3, <5>1, ElementOfSeq
          <5> HIDE DEF whole
          <5> QED
            BY <1>3, <3>2, <3>3, <5>2, SubSeqProperties
        <4>4. partial' = [partial EXCEPT !.cursor = partial.cursor + whole]
          BY <3>7
        <4> HIDE DEF whole
        <4> QED
          BY <1>6, <3>7, <4>3, <4>4
      <3> QED
        BY <2>2, <3>4, <3>5, <3>6, <3>7
    <2> QED
      BY <1>7, <2>1, <2>2 DEF ScanPrefix
  <1>8. CASE ScanPostfix
    <2>1. CASE EraseDone
      BY <1>5, <2>1
    <2>2. ASSUME NEW p \in PostfixAt, Found(SubSeq(Unread, 1, p)),
                 partial' = [partial EXCEPT !.cursor = @ + p + PostfixSize]
          PROVE  Accounted' /\ WithinLimit
      <3>1. p \in Nat /\ p <= Len(Unread) /\ PostfixSize \in Nat \ {0}
        <4>1. PostfixSize \in Nat \ {0}
          BY FramingAssumption
        <4>2. p \in 0..(Remainder - PostfixSize)
          BY <2>2 DEF PostfixAt
        <4> QED
          BY <1>3, <4>1, <4>2
      <3>2. SubSeq(Unread, 1, p) \in Seq(Byte)
        BY <1>3, <3>1, CutInTwo
      <3>3. partial' = [partial EXCEPT !.cursor = partial.cursor + p + PostfixSize]
        BY <2>2
      <3> QED
        BY <1>6, <2>2, <3>2, <3>3
    <2> QED
      BY <1>8, <2>1, <2>2 DEF ScanPostfix
  <1> QED
    BY <1>7, <1>8 DEF Scan

\* A worker hands out the packet it found.
LEMMA PacketDoneAccounted ==
    ASSUME FramingTypes, Accounted, PacketDone
    PROVE  Accounted' /\ WithinLimit
  <1>1. /\ worker.pc = "found" /\ worker'.pc \in {"idle", "scan"}
        /\ UNCHANGED <<memoryLimit, partial, resize>>
    BY DEF PacketDone, AfterPacket, Idle, options
  <1>2. InWorker = worker.mem /\ worker.mem \in Nat /\ InWorker' = 0
    BY <1>1 DEF InWorker, FramingTypes, Work
  <1>3. packetStore \in Seq(StoredPacket) /\ SumOf(Mems(packetStore)) \in Nat
    BY MemsIs DEF FramingTypes
  <1>4. CASE hasRecvFunc
    <2>1. Recycle(<<worker.mem>>) /\ UNCHANGED packetStore
      BY <1>4 DEF PacketDone
    <2>2. <<worker.mem>> \in Seq(Nat) /\ SumOf(<<worker.mem>>) = worker.mem
      BY <1>2, SumFew
    <2>3. SumOf(Mems(packetStore')) = SumOf(Mems(packetStore))
      BY <2>1
    <2>4. SumOf(Mems(packetStore')) + InWorker' + SumOf(<<worker.mem>>)
            = SumOf(Mems(packetStore)) + InWorker
      BY <1>2, <1>3, <2>2, <2>3
    <2> QED
      BY <1>1, <1>2, <1>3, <2>1, <2>2, <2>3, <2>4, GivenBack
  <1>5. CASE ~hasRecvFunc
    <2> DEFINE p == [n |-> parsed, data |-> worker.data, mem |-> worker.mem]
    <2>1. packetStore' = Append(packetStore, p) /\ UNCHANGED <<bin, memoryUsage>>
      BY <1>5 DEF PacketDone
    <2>2. p \in StoredPacket /\ p.mem = worker.mem
      BY DEF FramingTypes, StoredPacket, Work
    <2> HIDE DEF p
    <2>3. Mems(packetStore') = Append(Mems(packetStore), worker.mem) /\ Mems(packetStore) \in Seq(Nat)
      BY <1>3, <2>1, <2>2, MemsIs
    <2>4. SumOf(Mems(packetStore')) = SumOf(Mems(packetStore)) + worker.mem
      BY <1>2, <2>3, SumAppend
    <2>5. bin \in Nat /\ bin * PacketSize \in Nat
      BY TimesPacketSize DEF Accounted
    <2>6. MemoryInUse' = bin' * PacketSize + SumOf(Mems(packetStore')) + InWorker'
      BY DEF MemoryInUse, InWorker
    <2>7. MemoryInUse = bin * PacketSize + SumOf(Mems(packetStore)) + InWorker
      BY DEF MemoryInUse, InWorker
    <2>8. bin' * PacketSize = bin * PacketSize
      BY <2>1
    <2>9. MemoryInUse' = MemoryInUse
      BY <1>2, <1>3, <2>4, <2>5, <2>6, <2>7, <2>8
    <2>10. Used' = Used /\ partial'.mem = partial.mem /\ Checked'
      BY <1>1 DEF Used, Checked
    <2>11. Accounted'
      BY <1>1, <2>1, <2>9, <2>10 DEF Accounted
    <2>12. MemorySize' = MemorySize /\ MemorySize \in Nat
      BY <1>1, <2>1 DEF MemorySize, Accounted, FramingTypes
    <2> QED
      BY <2>11, <2>12 DEF WithinLimit
  <1> QED
    BY <1>4, <1>5

\* The user polls a packet from the store.
LEMMA PolledAccounted ==
    ASSUME FramingTypes, Accounted, GetPacketFromStore
    PROVE  Accounted' /\ WithinLimit
  <1>1. /\ packetStore # <<>> /\ packetStore' = Tail(packetStore)
        /\ Recycle(<<Head(packetStore).mem>>)
        /\ UNCHANGED <<memoryLimit, partial, worker>> /\ worker.pc # "take"
    BY DEF GetPacketFromStore, BinFree, options
  <1>2. packetStore \in Seq(StoredPacket)
    BY DEF FramingTypes
  <1>3. /\ Mems(packetStore) \in Seq(Nat) /\ Mems(packetStore) # <<>>
        /\ Mems(packetStore)[1] = Head(packetStore).mem /\ Head(packetStore).mem \in Nat
        /\ Mems(packetStore') = Tail(Mems(packetStore))
    BY <1>1, <1>2, MemsIs
  <1>4. Tail(Mems(packetStore)) \in Seq(Nat) /\ SumOf(Tail(Mems(packetStore))) \in Nat
    BY <1>3, HeadTailProperties, SumTypes
  <1>5. SumOf(Mems(packetStore)) = Head(packetStore).mem + SumOf(Mems(packetStore'))
    BY <1>3, SumTail
  <1>6. InWorker' = InWorker /\ InWorker \in Nat
    BY <1>1 DEF InWorker, FramingTypes, Work
  <1>7. /\ <<Head(packetStore).mem>> \in Seq(Nat)
        /\ SumOf(<<Head(packetStore).mem>>) = Head(packetStore).mem
    BY <1>3, SumFew
  <1>8. SumOf(Mems(packetStore')) \in Nat
    BY <1>3, <1>4
  <1>9. SumOf(Mems(packetStore')) + InWorker' + SumOf(<<Head(packetStore).mem>>)
          = SumOf(Mems(packetStore)) + InWorker
    BY <1>3, <1>5, <1>6, <1>7, <1>8
  <1> QED
    BY <1>1, <1>6, <1>7, <1>8, <1>9, GivenBack

\* The store is emptied, by its user or by Close.
LEMMA EmptyStoreAccounted ==
    ASSUME FramingTypes, Accounted, EmptyStore, UNCHANGED <<memoryLimit, partial, worker>>
    PROVE  Accounted' /\ WithinLimit
  <1>1. packetStore' = <<>> /\ Recycle(Mems(packetStore)) /\ worker.pc # "take"
    BY DEF EmptyStore, BinFree
  <1>2. Mems(packetStore) \in Seq(Nat) /\ SumOf(Mems(packetStore)) \in Nat
    BY MemsIs DEF FramingTypes
  <1>3. Mems(packetStore') = <<>>
    <2>1. packetStore' \in Seq(StoredPacket)
      BY <1>1
    <2> QED
      BY <1>1, <2>1, MemsIs
  <1>4. SumOf(Mems(packetStore')) = 0
    BY <1>3, SumFew
  <1>5. InWorker' = InWorker /\ InWorker \in Nat
    BY DEF InWorker, FramingTypes, Work
  <1> QED
    BY <1>1, <1>2, <1>4, <1>5, GivenBack

\* At first there are the packets of the bin.
LEMMA InitAccounted ==
    ASSUME FramingInit
    PROVE  Accounted
  <1>1. /\ bin = NumberOfPackets /\ memoryUsage = NumberOfPackets * PacketSize
        /\ memoryLimit \in MemoryLimits /\ packetStore = <<>> /\ worker = Idle
        /\ partial.bytes = <<>> /\ partial.mem \in Nat
    BY FramingAssumption DEF FramingInit
  <1>2. bin \in Nat /\ memoryLimit \in Nat /\ memoryUsage \in Nat
    <2>1. NumberOfPackets \in Nat /\ MemoryLimits \subseteq Nat
      BY FramingAssumption
    <2> QED
      BY <1>1, <2>1, TimesPacketSize
  <1>3. SumOf(Mems(packetStore)) = 0
    <2>1. packetStore \in Seq(StoredPacket)
      BY <1>1
    <2> QED
      BY <1>1, <2>1, MemsIs, SumFew
  <1>4. worker.pc = "idle"
    BY <1>1 DEF Idle
  <1>5. memoryUsage = MemoryInUse
    BY <1>1, <1>2, <1>3, <1>4 DEF MemoryInUse
  <1>6. Used = 0
    BY <1>1 DEF Used
  <1> QED
    BY <1>1, <1>2, <1>4, <1>5, <1>6 DEF Accounted, Checked

\* Every step keeps the account and stays within the limit.
LEMMA AccountedKept ==
    ASSUME FramingTypes, FramingTypes', Accounted, [FramingNext]_framingVars
    PROVE  Accounted' /\ WithinLimit
  <1>1. /\ partial.bytes \in Seq(Byte) /\ Used \in Nat
        /\ partial.mem \in Nat /\ partial'.mem \in Nat /\ Used <= partial.mem /\ memoryLimit \in Nat
        /\ memoryUsage \in Nat /\ worker.mem \in Nat /\ Len(worker.data) \in Nat
    BY UnreadIs, LenProperties DEF Accounted, FramingTypes, Work
  <1>2. ASSUME UNCHANGED <<bin, memoryUsage, packetStore, worker>>, memoryLimit' \in Nat,
               partial'.bytes = partial.bytes \/ partial'.bytes = <<>>,
               partial'.mem = partial.mem
        PROVE  Accounted' /\ WithinLimit
    <2>1. Used' = Used \/ Used' = 0
      BY <1>2 DEF Used
    <2>2. InWorker' = InWorker
      BY <1>2 DEF InWorker
    <2>3. Checked'
      <3>1. Used + Len(worker.data) <= worker.mem => Used' + Len(worker.data) <= worker.mem
        BY <1>1, <2>1
      <3> QED
        BY <1>2, <3>1 DEF Accounted, Checked
    <2> QED
      BY <1>1, <1>2, <2>1, <2>2, <2>3, BufferKept
  <1>3. CASE Arrive
    <2>1. PICK n \in 1..RecvBufferSize : n <= Len(wire) /\ Receive(n)
      BY <1>3 DEF Arrive
    <2>2. n \in Nat
      BY FramingAssumption
    <2> QED
      BY <2>1, <2>2, ArriveAccounted
  <1>4. CASE Deal
    BY <1>4, GrowAccounted, ScanAccounted, TakeAccounted, PacketDoneAccounted DEF Deal
  <1>5. CASE GetPacketFromStore
    BY <1>5, PolledAccounted
  <1>6. CASE ClearPacketStore
    BY <1>6, EmptyStoreAccounted DEF ClearPacketStore, options
  <1>7. CASE Close
    BY <1>7, EmptyStoreAccounted DEF Close, options
  <1>8. CASE ApplyResize
    <2>1. /\ resize > 0 /\ resize' = 0 /\ worker.pc = "idle" /\ partial' = [partial EXCEPT !.mem = Larger(resize, Used)]
          /\ UNCHANGED <<memoryLimit, packetStore, bin, memoryUsage, worker>>
      BY <1>8 DEF ApplyResize, options
    <2>2. partial \in [bytes : Seq(Byte), cursor : Nat, mem : Nat] /\ resize \in Nat
      BY DEF FramingTypes
    <2>3. partial'.bytes = partial.bytes /\ partial'.mem = Larger(resize, Used)
      BY <2>1, <2>2
    <2>4. Used' = Used /\ Used <= Larger(resize, Used)
      BY <1>1, <2>2, <2>3 DEF Used, Larger
    <2>5. InWorker' = InWorker /\ Checked'
      BY <2>1 DEF InWorker, Checked
    <2>6. Accounted'
      BY <1>1, <2>1, <2>3, <2>4, <2>5, NothingTaken
    <2>7. resize' # resize
      BY <2>1, <2>2
    <2> QED
      BY <2>6, <2>7 DEF WithinLimit
  <1>9. CASE \E limit \in MemoryLimits : SetMemoryLimit(limit)
    <2>1. memoryLimit' \in Nat
      BY <1>9, FramingAssumption DEF SetMemoryLimit
    <2> QED
      BY <1>2, <1>9, <2>1 DEF SetMemoryLimit
  <1>10. CASE \E len \in Lengths : Send(len)
    BY <1>1, <1>2, <1>10 DEF Send, options
  <1>11. CASE \E size \in ResizeTo : CheckResize(size)
    BY <1>1, <1>2, <1>11 DEF CheckResize, options
  <1>12. CASE SetAutoResize
    BY <1>1, <1>2, <1>12 DEF SetAutoResize
  <1>13. CASE ClearPartial
    <2>1. /\ partial' = [partial EXCEPT !.bytes = <<>>, !.cursor = 0]
          /\ UNCHANGED <<memoryLimit, packetStore, bin, memoryUsage, worker>>
      BY <1>13 DEF ClearPartial, options
    <2>2. partial'.bytes = <<>> /\ partial'.mem = partial.mem
      BY <2>1 DEF FramingTypes
    <2> QED
      BY <1>1, <1>2, <2>1, <2>2
  <1>14. CASE UNCHANGED framingVars
    BY <1>1, <1>2, <1>14 DEF framingVars, options
  <1> QED
    BY <1>3, <1>4, <1>5, <1>6, <1>7, <1>8, <1>9, <1>10, <1>11, <1>12, <1>13, <1>14 DEF FramingNext

\* What is accounted is inductive: the usage is the memory of the bin, of the store and in
\* the hands of the worker, and the buffer is as large as what it holds.
THEOREM MemoryInvariant ==
    FramingSpec => [](FramingTypes /\ Accounted)
  <1>1. FramingInit => FramingTypes /\ Accounted
    BY InitFramed, InitAccounted
  <1>2. FramingTypes /\ Accounted /\ [FramingNext]_framingVars => (FramingTypes /\ Accounted)'
    BY TypesKept, AccountedKept
  <1> QED
    BY <1>1, <1>2, PTL DEF FramingSpec

\* The memory the limit is compared with is the memory in use, and no step but a user's
\* resize takes memory beyond the limit its worker was checked with, whatever the other
\* threads recycle and whichever limit they set between the check and the step.
THEOREM MemoryAccountedHolds ==
    FramingSpec => MemoryAccounted
  <1>1. Accounted => memoryUsage = MemoryInUse
    BY DEF Accounted
  <1>2. FramingTypes /\ FramingTypes' /\ Accounted /\ [FramingNext]_framingVars
          => [MemorySize' > MemorySize => MemorySize' <= worker.limit \/ resize' # resize]_framingVars
    BY AccountedKept DEF WithinLimit
  <1> QED
    BY <1>1, <1>2, MemoryInvariant, PTL DEF MemoryAccounted, FramingSpec
===============================================================================
