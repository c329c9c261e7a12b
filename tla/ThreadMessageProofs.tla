-------------------------- MODULE ThreadMessageProofs --------------------------
(***************************************************************************)
(* Theorems about ThreadMessage and Nat for any number of messages: type   *)
(* correctness, the safety invariants of both modules, and that the        *)
(* message thread implements MessageOwnership.                             *)
(*                                                                         *)
(* None of the safety properties is inductive: that a message may be       *)
(* deleted depends on where it can still be reached from.  IInv says what  *)
(* the two use flags stand for - a queue slot or the running action, and   *)
(* the lastMessage pointer - and where each thread may be meanwhile.       *)
(* NatIInv adds what is in the messages: that those pointing to a port map *)
(* come before every message that deletes some, and how the copy of the    *)
(* port maps follows the router.                                           *)
(***************************************************************************)
EXTENDS Nat, FiniteSetTheorems, SequenceTheorems, WellFoundedInduction, TLAPS

\* The sender is working on a message it has not handed over yet.
Preparing == senderPC \in {"decide", "delete", "send"}

\* The thread uses exactly the queued items and the one it acts on, and no item
\* is queued twice.
ThreadUse ==
    /\ \A i \in Items :
           inUseByThread[i] <=>
               \/ i \in QueuedItems
               \/ threadPC \in {"act", "decide"} /\ threadItem = i
    /\ \A m, n \in 1..Len(queue) : queue[m] = queue[n] => m = n
    /\ threadPC \in {"act", "decide"} => threadItem \notin QueuedItems
    /\ threadPC \in {"act", "decide", "delete"} => threadItem \in Items

\* The sender uses exactly the last message, until it has given it up.
SenderUse ==
    /\ \A i \in Items :
           inUseBySender[i] <=>
               /\ lastMessage = i
               /\ senderPC \notin {"delete", "send", "unwind", "done"}
    /\ senderPC \in {"decide", "delete", "waitLast", "waitExit", "unwind"} =>
           lastMessage # None
    /\ senderPC \in {"construct", "waitReady"} => lastMessage = None

\* What is in use is alive, and nothing has been deleted twice.
Alive ==
    \A i \in Items :
        /\ life[i] # "corrupt"
        /\ inUseByThread[i] \/ inUseBySender[i] => life[i] = "live"

\* The side that is about to delete a message is the only one that can.
DeletesAlone ==
    /\ threadPC = "delete" =>
           /\ life[threadItem] = "live"
           /\ ~inUseByThread[threadItem]
           /\ ~inUseBySender[threadItem]
           /\ threadItem # Shutdown
           /\ senderPC = "delete" => threadItem # lastMessage
    /\ senderPC = "delete" =>
           /\ life[lastMessage] = "live"
           /\ ~inUseByThread[lastMessage]
           /\ ~inUseBySender[lastMessage]

\* The message being posted is known to the sender alone.
Posting ==
    Preparing =>
        /\ posting \in Items
        /\ life[posting] = "live"
        /\ ~inUseByThread[posting]
        /\ ~inUseBySender[posting]
        /\ posting # lastMessage
        /\ threadPC = "delete" => threadItem # posting

\* The thread starts before it is ready and stops after the stop request, which
\* is the last item and outlives its use by the thread.
Stopping ==
    /\ senderPC \in {"waitExit", "unwind"} =>
           /\ posting = Shutdown
           /\ lastMessage = Shutdown
    /\ senderPC = "unwind" =>
           /\ life[Shutdown] = "live"
           /\ ~inUseByThread[Shutdown]
    /\ senderPC \in {"unwind", "done"} => threadPC = "exited"
    /\ threadPC \in {"suspended", "start", "exited"} => ~control
    /\ inUseByThread[Shutdown] => senderPC = "waitExit"
    /\ ~running => senderPC \in {"waitExit", "unwind", "done"}
    /\ ~ready => queue = <<>>
    /\ senderPC = "construct" => threadPC = "suspended"
    /\ threadPC \in {"suspended", "start"} => ~ready
    /\ threadPC \in {"exit", "exited"} => queue = <<>> /\ (~ready \/ ~running)
    /\ threadPC = "exit" => ~running

\* What is no longer used by the thread has been acted on.
Acted ==
    /\ \A i \in Items :
           /\ life[i] # "unborn"
           /\ ~inUseByThread[i]
           /\ ~(Preparing /\ posting = i)
           => i \in acted
    /\ threadPC = "decide" => threadItem \in acted

\* A live message can still be deleted by someone.
Reachable ==
    \A i \in Items :
        life[i] = "live" =>
            \/ inUseByThread[i] \/ inUseBySender[i]
            \/ threadPC = "delete" /\ threadItem = i
            \/ senderPC = "delete" /\ lastMessage = i
            \/ Preparing /\ posting = i
            \/ senderPC = "unwind" /\ i = Shutdown

\* The last message is the last one the thread will get to.
Order ==
    /\ \A n \in 1..Len(posted) : life[posted[n]] # "unborn"
    /\ lastMessage # None =>
           /\ queue # <<>> => queue[Len(queue)] = lastMessage
           /\ queue = <<>> /\ threadPC \in {"act", "decide"} =>
                  threadItem = lastMessage

IInv ==
    /\ TypeOK
    /\ ThreadUse
    /\ SenderUse
    /\ Alive
    /\ DeletesAlone
    /\ Posting
    /\ Stopping
    /\ Acted
    /\ Reachable
    /\ Order

-------------------------------------------------------------------------------
\* The object starts with nothing posted and the thread not running yet.
LEMMA InitIInv == Init => IInv
  <1> SUFFICES ASSUME Init PROVE IInv
    OBVIOUS
  <1> USE ItemsAssumption DEF Init, Items
  <1>1. TypeOK
    <2>1. <<>> \in Seq(Items)
      OBVIOUS
    <2> QED BY <2>1 DEF TypeOK, SenderPCs, ThreadPCs
  <1>2. QueuedItems = {}
    BY DEF QueuedItems
  <1>3. ThreadUse
    BY <1>2 DEF ThreadUse
  <1>4. /\ SenderUse /\ Alive /\ DeletesAlone /\ Posting
        /\ Stopping /\ Acted /\ Reachable /\ Order
    BY DEF SenderUse, Alive, DeletesAlone, Posting, Preparing, Stopping, Acted,
           Reachable, Order
  <1> QED BY <1>1, <1>3, <1>4 DEF IInv

\* Every step of either thread preserves the inductive invariant.  In each case
\* the conjuncts that the action leaves alone share one leaf.
LEMMA NextIInv == IInv /\ [Next]_vars => IInv'
  <1> SUFFICES ASSUME TypeOK, ThreadUse, SenderUse, Alive, DeletesAlone, Posting,
                      Stopping, Acted, Reachable, Order, [Next]_vars
               PROVE  IInv'
    BY DEF IInv
  <1> USE ItemsAssumption DEF itemVars, senderVars, threadVars
  <1>1. CASE \E i \in Items : BeginPost(i)
    <2>1. TypeOK'
      BY <1>1 DEF BeginPost, TypeOK, SenderPCs
    <2>2. Posting'
      BY <1>1 DEF BeginPost, Posting, TypeOK, SenderUse, Alive, DeletesAlone
    <2>3. Order'
      BY <1>1 DEF BeginPost, Order, TypeOK
    <2>4. (/\ ThreadUse /\ SenderUse /\ Alive /\ DeletesAlone
           /\ Stopping /\ Acted /\ Reachable)'
      BY <1>1
         DEF BeginPost, ThreadUse, QueuedItems, SenderUse, Items, Alive,
             DeletesAlone, Stopping, Acted, Preparing, Reachable
    <2> QED BY <2>1, <2>2, <2>3, <2>4 DEF IInv
  <1>2. CASE Construct
    <2>1. TypeOK'
      BY <1>2 DEF Construct, TypeOK, SenderPCs, ThreadPCs
    <2>2. ThreadUse'
      BY <1>2 DEF Construct, ThreadUse, Stopping, QueuedItems
    <2>3. Reachable'
      BY <1>2 DEF Construct, Reachable, Stopping, Preparing
    <2>4. (/\ SenderUse /\ Alive /\ DeletesAlone /\ Posting
           /\ Stopping /\ Acted /\ Order)'
      BY <1>2
         DEF Construct, SenderUse, Alive, DeletesAlone, Posting, Preparing,
             Stopping, Acted, Order
    <2> QED BY <2>1, <2>2, <2>3, <2>4 DEF IInv
  <1>3. CASE WaitForThreadToBeReady
    <2>1. TypeOK'
      BY <1>3 DEF WaitForThreadToBeReady, TypeOK, SenderPCs
    <2>2. (/\ ThreadUse /\ SenderUse /\ Alive /\ DeletesAlone /\ Posting
           /\ Stopping /\ Acted /\ Reachable /\ Order)'
      BY <1>3
         DEF WaitForThreadToBeReady, ThreadUse, QueuedItems, SenderUse, Alive,
             DeletesAlone, Posting, Preparing, Stopping, Acted, Reachable, Order
    <2> QED BY <2>1, <2>2 DEF IInv
  <1>4. CASE CleanupLastMessage
    <2>1. TypeOK'
      BY <1>4
         DEF CleanupLastMessage, ShouldSenderCleanup, TypeOK, SenderUse,
             SenderPCs
    <2>2. SenderUse'
      BY <1>4 DEF CleanupLastMessage, ShouldSenderCleanup, SenderUse, TypeOK
    <2>3. DeletesAlone'
      BY <1>4
         DEF CleanupLastMessage, ShouldSenderCleanup, DeletesAlone, TypeOK,
             SenderUse, Alive
    <2>4. (/\ ThreadUse /\ Alive /\ Posting /\ Stopping
           /\ Acted /\ Reachable /\ Order)'
      BY <1>4
         DEF CleanupLastMessage, ShouldSenderCleanup, ThreadUse, QueuedItems,
             Alive, Posting, Preparing, Stopping, Acted, Reachable, Order
    <2> QED BY <2>1, <2>2, <2>3, <2>4 DEF IInv
  <1>5. CASE DeleteLastMessage
    <2>1. TypeOK'
      BY <1>5 DEF DeleteLastMessage, Delete, TypeOK, SenderUse, SenderPCs
    <2>2. Alive'
      BY <1>5 DEF DeleteLastMessage, Delete, Alive, DeletesAlone
    <2>3. Acted'
      BY <1>5 DEF DeleteLastMessage, Delete, Acted, DeletesAlone, Preparing
    <2>4. Reachable'
      BY <1>5 DEF DeleteLastMessage, Delete, Reachable, TypeOK, Preparing
    <2>5. (/\ ThreadUse /\ SenderUse /\ DeletesAlone
           /\ Posting /\ Stopping /\ Order)'
      BY <1>5
         DEF DeleteLastMessage, Delete, ThreadUse, QueuedItems, SenderUse,
             DeletesAlone, Posting, Preparing, Items, Stopping, Order
    <2> QED BY <2>1, <2>2, <2>3, <2>4, <2>5 DEF IInv
  <1>6. CASE SendMessage
    <2>1. TypeOK'
      BY <1>6 DEF SendMessage, TypeOK, Posting, Preparing, SenderPCs
    <2>2. ThreadUse'
      <3>1. /\ posting \in Items
            /\ posting \notin QueuedItems
            /\ threadPC \in {"act", "decide"} => threadItem # posting
        BY <1>6 DEF SendMessage, Posting, Preparing, ThreadUse
      <3>2. /\ Len(queue) \in Nat
            /\ Len(queue') = Len(queue) + 1
            /\ \A n \in 1..Len(queue) : queue'[n] = queue[n]
            /\ queue'[Len(queue) + 1] = posting
        BY <1>6, <3>1 DEF SendMessage, TypeOK
      <3>3. QueuedItems' = QueuedItems \cup {posting}
        <4>1. \A n \in 1..Len(queue') :
                  n \in 1..Len(queue) \/ n = Len(queue) + 1
          BY <3>2
        <4>2. QueuedItems' \subseteq QueuedItems \cup {posting}
          BY <3>2, <4>1 DEF QueuedItems
        <4>3. /\ 1..Len(queue) \subseteq 1..Len(queue')
              /\ Len(queue) + 1 \in 1..Len(queue')
          BY <3>2
        <4>4. QueuedItems \cup {posting} \subseteq QueuedItems'
          BY <3>2, <4>3 DEF QueuedItems
        <4> QED BY <4>2, <4>4
      <3>4. \A m, n \in 1..Len(queue') : queue'[m] = queue'[n] => m = n
        BY <3>1, <3>2 DEF ThreadUse, QueuedItems
      <3>5. \A i \in Items :
                inUseByThread'[i] <=> inUseByThread[i] \/ i = posting
        BY <1>6, <3>1 DEF SendMessage, TypeOK
      <3> QED BY <1>6, <3>1, <3>3, <3>4, <3>5 DEF SendMessage, ThreadUse
    <2>3. SenderUse'
      BY <1>6 DEF SendMessage, SenderUse, TypeOK
    <2>4. Alive'
      BY <1>6 DEF SendMessage, Alive, Posting, Preparing
    <2>5. DeletesAlone'
      BY <1>6 DEF SendMessage, DeletesAlone, Posting, Preparing
    <2>6. Acted'
      BY <1>6 DEF SendMessage, Acted, TypeOK
    <2>7. Reachable'
      BY <1>6 DEF SendMessage, Reachable, TypeOK
    <2>8. Order'
      BY <1>6 DEF SendMessage, Order, Posting, Preparing, TypeOK
    <2>9. (Posting /\ Stopping)'
      BY <1>6 DEF SendMessage, Posting, Preparing, Stopping
    <2> QED BY <2>1, <2>2, <2>3, <2>4, <2>5, <2>6, <2>7, <2>8, <2>9 DEF IInv
  <1>7. CASE EndWaitLast
    <2>1. TypeOK'
      BY <1>7 DEF EndWaitLast, TypeOK, SenderPCs
    <2>2. (/\ ThreadUse /\ SenderUse /\ Alive /\ DeletesAlone /\ Posting
           /\ Stopping /\ Acted /\ Reachable /\ Order)'
      BY <1>7
         DEF EndWaitLast, ThreadUse, QueuedItems, SenderUse, Alive, DeletesAlone,
             Posting, Preparing, Stopping, Acted, Reachable, Order
    <2> QED BY <2>1, <2>2 DEF IInv
  <1>8. CASE WaitForThreadToExit
    <2>1. TypeOK'
      BY <1>8 DEF WaitForThreadToExit, TypeOK, SenderPCs, Items
    <2>2. ThreadUse'
      BY <1>8 DEF WaitForThreadToExit, ThreadUse, Stopping, QueuedItems
    <2>3. SenderUse'
      BY <1>8 DEF WaitForThreadToExit, SenderUse, TypeOK, Stopping
    <2>4. Stopping'
      BY <1>8
         DEF WaitForThreadToExit, Stopping, ThreadUse, SenderUse, Alive,
             QueuedItems, Items
    <2>5. Acted'
      BY <1>8
         DEF WaitForThreadToExit, Acted, ThreadUse, Stopping, Preparing,
             QueuedItems
    <2>6. (Alive /\ DeletesAlone /\ Posting /\ Reachable /\ Order)'
      BY <1>8
         DEF WaitForThreadToExit, Alive, DeletesAlone, Posting, Preparing,
             Reachable, Order
    <2> QED BY <2>1, <2>2, <2>3, <2>4, <2>5, <2>6 DEF IInv
  <1>9. CASE FinishTerminate
    <2>1. TypeOK'
      BY <1>9 DEF FinishTerminate, Delete, TypeOK, SenderPCs, Items
    <2>2. Alive'
      BY <1>9 DEF FinishTerminate, Delete, Alive, Stopping
    <2>3. Acted'
      BY <1>9 DEF FinishTerminate, Delete, Acted, Stopping, Preparing
    <2>4. Reachable'
      BY <1>9 DEF FinishTerminate, Delete, Reachable, TypeOK, Preparing
    <2>5. (/\ ThreadUse /\ SenderUse /\ DeletesAlone
           /\ Posting /\ Stopping /\ Order)'
      BY <1>9
         DEF FinishTerminate, Delete, ThreadUse, QueuedItems, SenderUse,
             DeletesAlone, Posting, Preparing, Stopping, Order
    <2> QED BY <2>1, <2>2, <2>3, <2>4, <2>5 DEF IInv
  <1>10. CASE BeginWaitLast
    <2>1. TypeOK'
      BY <1>10 DEF BeginWaitLast, TypeOK, SenderPCs
    <2>2. (/\ ThreadUse /\ SenderUse /\ Alive /\ DeletesAlone /\ Posting
           /\ Stopping /\ Acted /\ Reachable /\ Order)'
      BY <1>10
         DEF BeginWaitLast, ThreadUse, QueuedItems, SenderUse, Alive, DeletesAlone,
             Posting, Preparing, Stopping, Acted, Reachable, Order
    <2> QED BY <2>1, <2>2 DEF IInv
  <1>11. CASE ThreadStart
    <2>1. TypeOK'
      BY <1>11 DEF ThreadStart, TypeOK, ThreadPCs
    <2>2. (/\ ThreadUse /\ SenderUse /\ Alive /\ DeletesAlone /\ Posting
           /\ Stopping /\ Acted /\ Reachable /\ Order)'
      BY <1>11
         DEF ThreadStart, ThreadUse, QueuedItems, SenderUse, Alive, DeletesAlone,
             Posting, Preparing, Stopping, Acted, Reachable, Order
    <2> QED BY <2>1, <2>2 DEF IInv
  <1>12. CASE ThreadStartFails
    <2>1. TypeOK'
      BY <1>12 DEF ThreadStartFails, TypeOK, ThreadPCs
    <2>2. (/\ ThreadUse /\ SenderUse /\ Alive /\ DeletesAlone /\ Posting
           /\ Stopping /\ Acted /\ Reachable /\ Order)'
      BY <1>12
         DEF ThreadStartFails, ThreadUse, QueuedItems, SenderUse, Alive,
             DeletesAlone, Posting, Preparing, Stopping, Acted, Reachable, Order
    <2> QED BY <2>1, <2>2 DEF IInv
  <1>13. CASE CheckTerminate
    <2>1. TypeOK'
      BY <1>13 DEF CheckTerminate, GetTerminateRequest, TypeOK, ThreadPCs
    <2>2. (/\ ThreadUse /\ SenderUse /\ Alive /\ DeletesAlone /\ Posting
           /\ Stopping /\ Acted /\ Reachable /\ Order)'
      BY <1>13
         DEF CheckTerminate, GetTerminateRequest, ThreadUse, QueuedItems,
             SenderUse, Alive, DeletesAlone, Posting, Preparing, Stopping, Acted,
             Reachable, Order
    <2> QED BY <2>1, <2>2 DEF IInv
  <1>14. CASE SetReady
    <2>1. TypeOK'
      BY <1>14 DEF SetReady, TypeOK, ThreadPCs
    <2>2. (/\ ThreadUse /\ SenderUse /\ Alive /\ DeletesAlone /\ Posting
           /\ Stopping /\ Acted /\ Reachable /\ Order)'
      BY <1>14
         DEF SetReady, ThreadUse, QueuedItems, SenderUse, Alive, DeletesAlone,
             Posting, Preparing, Stopping, Acted, Reachable, Order
    <2> QED BY <2>1, <2>2 DEF IInv
  <1>15. CASE GetMessageItem
    <2>1. TypeOK'
      BY <1>15 DEF GetMessageItem, TypeOK, ThreadPCs
    <2>2. ThreadUse'
      <3>1. /\ threadItem' = queue[1]
            /\ threadItem' \in Items
            /\ Len(queue') = Len(queue) - 1
            /\ Len(queue) \in Nat \ {0}
            /\ \A n \in 1..Len(queue') : queue'[n] = queue[n + 1]
        BY <1>15 DEF GetMessageItem, TypeOK
      <3>2. QueuedItems = QueuedItems' \cup {threadItem'}
        <4>1. \A n \in 1..Len(queue) :
                  n # 1 => n - 1 \in 1..Len(queue') /\ queue[n] = queue'[n - 1]
          BY <3>1
        <4>2. QueuedItems \subseteq QueuedItems' \cup {threadItem'}
          BY <3>1, <4>1 DEF QueuedItems
        <4>3. /\ 1 \in 1..Len(queue)
              /\ \A n \in 1..Len(queue') : n + 1 \in 1..Len(queue)
          BY <3>1
        <4>4. QueuedItems' \cup {threadItem'} \subseteq QueuedItems
          BY <3>1, <4>3 DEF QueuedItems
        <4> QED BY <4>2, <4>4
      <3>3. threadItem' \notin QueuedItems'
        BY <3>1 DEF QueuedItems, ThreadUse
      <3>4. \A m, n \in 1..Len(queue') : queue'[m] = queue'[n] => m = n
        BY <3>1 DEF ThreadUse
      <3> QED BY <1>15, <3>1, <3>2, <3>3, <3>4 DEF GetMessageItem, ThreadUse
    <2>3. Order'
      <3>1. /\ Len(queue) \in Nat \ {0}
            /\ threadItem' = queue[1]
            /\ queue' \in Seq(Items)
            /\ Len(queue') = Len(queue) - 1
            /\ \A n \in 1..Len(queue') : queue'[n] = queue[n + 1]
        BY <1>15 DEF GetMessageItem, TypeOK
      <3>2. CASE queue' = <<>>
        <4>1. Len(queue) = 1
          BY <3>1, <3>2
        <4> QED BY <1>15, <3>1, <3>2, <4>1 DEF GetMessageItem, Order
      <3>3. CASE queue' # <<>>
        <4>1. Len(queue') \in 1..Len(queue')
          BY <3>1, <3>3
        <4>2. queue'[Len(queue')] = queue[Len(queue)]
          BY <3>1, <4>1
        <4> QED BY <1>15, <3>3, <4>2 DEF GetMessageItem, Order
      <3> QED BY <3>2, <3>3
    <2>4. (/\ SenderUse /\ Alive /\ DeletesAlone /\ Posting
           /\ Stopping /\ Acted /\ Reachable)'
      BY <1>15
         DEF GetMessageItem, SenderUse, Alive, DeletesAlone, Posting, Preparing,
             Stopping, Acted, Reachable
    <2> QED BY <2>1, <2>2, <2>3, <2>4 DEF IInv
  <1>16. CASE TakeAction
    <2>1. TypeOK'
      BY <1>16 DEF TakeAction, TypeOK, ThreadUse, ThreadPCs
    <2>2. Stopping'
      BY <1>16 DEF TakeAction, Stopping, TypeOK, ThreadUse
    <2>3. (/\ ThreadUse /\ SenderUse /\ Alive /\ DeletesAlone
           /\ Posting /\ Acted /\ Reachable /\ Order)'
      BY <1>16
         DEF TakeAction, ThreadUse, QueuedItems, SenderUse, Alive, DeletesAlone,
             Posting, Preparing, Acted, Reachable, Order
    <2> QED BY <2>1, <2>2, <2>3 DEF IInv
  <1>17. CASE ThreadDecide
    <2>1. TypeOK'
      BY <1>17 DEF ThreadDecide, ShouldThreadCleanup, TypeOK, Acted, ThreadPCs
    <2>2. ThreadUse'
      BY <1>17
         DEF ThreadDecide, ShouldThreadCleanup, ThreadUse, TypeOK, QueuedItems
    <2>3. DeletesAlone'
      BY <1>17
         DEF ThreadDecide, ShouldThreadCleanup, DeletesAlone, TypeOK, ThreadUse,
             SenderUse, Alive, Stopping
    <2>4. Posting'
      BY <1>17
         DEF ThreadDecide, ShouldThreadCleanup, Posting, ThreadUse, Preparing
    <2>5. (SenderUse /\ Alive /\ Stopping /\ Acted /\ Reachable /\ Order)'
      BY <1>17
         DEF ThreadDecide, ShouldThreadCleanup, SenderUse, Alive, Stopping,
             Acted, Preparing, Reachable, Order
    <2> QED BY <2>1, <2>2, <2>3, <2>4, <2>5 DEF IInv
  <1>18. CASE ThreadDelete
    <2>1. TypeOK'
      BY <1>18 DEF ThreadDelete, Delete, TypeOK, ThreadUse, ThreadPCs
    <2>2. Alive'
      BY <1>18 DEF ThreadDelete, Delete, Alive, DeletesAlone
    <2>3. Acted'
      BY <1>18 DEF ThreadDelete, Delete, Acted, DeletesAlone, Preparing
    <2>4. Reachable'
      BY <1>18 DEF ThreadDelete, Delete, Reachable, TypeOK, Preparing
    <2>5. (/\ ThreadUse /\ SenderUse /\ DeletesAlone
           /\ Posting /\ Stopping /\ Order)'
      BY <1>18
         DEF ThreadDelete, Delete, ThreadUse, QueuedItems, SenderUse, DeletesAlone,
             Posting, Preparing, Stopping, Order
    <2> QED BY <2>1, <2>2, <2>3, <2>4, <2>5 DEF IInv
  <1>19. CASE ThreadExit
    <2>1. TypeOK'
      BY <1>19 DEF ThreadExit, TypeOK, ThreadPCs
    <2>2. (/\ ThreadUse /\ SenderUse /\ Alive /\ DeletesAlone /\ Posting
           /\ Stopping /\ Acted /\ Reachable /\ Order)'
      BY <1>19
         DEF ThreadExit, ThreadUse, QueuedItems, SenderUse, Alive, DeletesAlone,
             Posting, Preparing, Stopping, Acted, Reachable, Order
    <2> QED BY <2>1, <2>2 DEF IInv
  <1>20. CASE UNCHANGED vars
    BY <1>20 DEF vars, IInv, TypeOK, ThreadUse, SenderUse, Alive, DeletesAlone,
       Posting, Preparing, Stopping, Acted, Reachable, Order, QueuedItems
  <1> QED
    BY <1>1, <1>2, <1>3, <1>4, <1>5, <1>6, <1>7, <1>8, <1>9, <1>10, <1>11,
       <1>12, <1>13, <1>14, <1>15, <1>16, <1>17, <1>18, <1>19, <1>20
       DEF Next, SenderSteps, ThreadSteps, PostAction, TerminateFriendly, Items

\* IInv is an invariant.
THEOREM Inductive == Spec => []IInv
  <1>1. Init => IInv
    BY InitIInv
  <1>2. IInv /\ [Next]_vars => IInv'
    BY NextIInv
  <1> QED BY <1>1, <1>2, PTL DEF Spec

-------------------------------------------------------------------------------
\* Every variable of the message thread and its sender keeps a value of its type
\* (ThreadSingleMessageKeepLast, ThreadMessageItem, UpnpNatActionThread).
THEOREM TypeCorrect == Spec => []TypeOK
  <1>1. IInv => TypeOK
    BY DEF IInv
  <1> QED BY <1>1, Inductive, PTL

\* Whichever side deletes a message, it is deleted once, and no queue slot,
\* running action or lastMessage pointer leads to it afterwards
\* (ShouldThreadCleanup, ShouldSenderCleanup, CleanupLastMessage).
THEOREM NoUseAfterFreeHolds == Spec => []NoUseAfterFree
  <1>1. IInv => NoUseAfterFree
    <2> SUFFICES ASSUME TypeOK, ThreadUse, SenderUse, Alive, DeletesAlone, Posting,
                        Stopping
                 PROVE  NoUseAfterFree
      BY DEF IInv
    <2>1. \A i \in QueuedItems : i \in Items /\ life[i] = "live"
      BY DEF QueuedItems, TypeOK, ThreadUse, Alive
    <2>2. threadPC \in {"act", "decide", "delete"} => life[threadItem] = "live"
      BY DEF ThreadUse, Alive, DeletesAlone
    <2>3. /\ senderPC \in {"idle", "decide", "delete", "waitLast"}
          /\ lastMessage # None
          => life[lastMessage] = "live"
      BY DEF TypeOK, SenderUse, Alive, DeletesAlone
    <2>4. senderPC \in {"send", "waitExit", "unwind"} => life[posting] = "live"
      BY ItemsAssumption DEF Posting, Preparing, Stopping, SenderUse, Alive,
                             Items
    <2>5. \A i \in ItemsInUse : life[i] = "live"
      BY <2>1, <2>2, <2>3, <2>4 DEF ItemsInUse
    <2>6. threadPC = "delete" => threadItem # Shutdown
      BY DEF DeletesAlone
    <2> QED BY <2>5, <2>6 DEF NoUseAfterFree, Alive
  <1> QED BY <1>1, Inductive, PTL

\* A message is deleted only after its action has run, also when the thread was
\* asked to stop while the message was still queued (GetTerminateRequest).
THEOREM NothingDeletedUnactedHolds == Spec => []NothingDeletedUnacted
  <1>1. IInv => NothingDeletedUnacted
    BY DEF IInv, Acted, Alive, Posting, NothingDeletedUnacted
  <1> QED BY <1>1, Inductive, PTL

\* When the destructor is done every message is deleted, whichever side had to
\* do it, and the thread has let go of the NAT object (FinishTerminate,
\* UpnpNatActionThread's loop).
THEOREM NoLeakHolds == Spec => []NoLeakAfterTermination
  <1>1. IInv => NoLeakAfterTermination
    <2> SUFFICES ASSUME IInv, senderPC = "done"
                 PROVE  /\ \A i \in Items : life[i] \in {"unborn", "freed"}
                        /\ ~control
      BY DEF NoLeakAfterTermination
    <2>1. threadPC = "exited" /\ queue = <<>> /\ ~control
      BY DEF IInv, Stopping
    <2>2. \A i \in Items : ~inUseByThread[i]
      BY <2>1 DEF IInv, ThreadUse, QueuedItems
    <2>3. \A i \in Items : ~inUseBySender[i]
      BY DEF IInv, SenderUse
    <2>4. \A i \in Items : life[i] # "live"
      BY <2>1, <2>2, <2>3 DEF IInv, Reachable, Preparing
    <2> QED BY <2>1, <2>4 DEF IInv, TypeOK, Alive
  <1> QED BY <1>1, Inductive, PTL

\* Once the thread has finished with the last message, every message posted
\* before it has been acted on (the queue is served in order).
THEOREM LastDoneHolds == Spec => []LastDoneMeansAllDone
  <1>1. IInv => LastDoneMeansAllDone
    <2> SUFFICES ASSUME IInv, lastMessage # None, senderPC = "idle",
                        ~inUseByThread[lastMessage],
                        NEW n \in 1..Len(posted)
                 PROVE  posted[n] \in acted
      BY DEF LastDoneMeansAllDone
    <2>1. lastMessage \in Items
      BY DEF IInv, TypeOK
    <2>2. lastMessage \notin QueuedItems
      BY <2>1 DEF IInv, ThreadUse
    <2>3. queue = <<>>
      <3>1. queue # <<>> => Len(queue) \in 1..Len(queue)
        BY DEF IInv, TypeOK
      <3> QED BY <2>2, <3>1 DEF IInv, Order, QueuedItems
    <2>4. threadPC \notin {"act", "decide"}
      BY <2>1, <2>3 DEF IInv, Order, ThreadUse
    <2>5. posted[n] \in Items /\ life[posted[n]] # "unborn"
      BY DEF IInv, TypeOK, Order
    <2>6. ~inUseByThread[posted[n]]
      BY <2>3, <2>4, <2>5 DEF IInv, ThreadUse, QueuedItems
    <2> QED BY <2>5, <2>6 DEF IInv, Acted, Preparing
  <1> QED BY <1>1, Inductive, PTL

-------------------------------------------------------------------------------
\* The object starts with no message, and so does MessageOwnership.
LEMMA InitRefines == Init => Ownership!Init
  BY DEF Init, Ownership!Init

\* A step of the implementation is one step of MessageOwnership for the item it
\* works on, or changes neither owners nor life.
LEMMA NextRefines ==
    ASSUME IInv, [Next]_vars
    PROVE  [Ownership!Next]_(Ownership!vars)
  <1> USE ItemsAssumption DEF senderVars, threadVars
  <1>0. /\ TypeOK /\ ThreadUse /\ SenderUse /\ Alive
        /\ DeletesAlone /\ Posting /\ Stopping
    BY DEF IInv
  <1>1. ASSUME NEW i \in Items, BeginPost(i)
        PROVE  Ownership!Next
    <2>1. Ownership!Create(i)
      BY <1>1 DEF BeginPost, Ownership!Create
    <2> QED BY <2>1 DEF Ownership!Next
  <1>2. ASSUME SendMessage
        PROVE  Ownership!Next
    <2>1. PICK i \in Items : i = posting
      BY <1>0, <1>2 DEF SendMessage, Posting, Preparing
    <2>2. Ownership!Share(i)
      BY <1>0, <1>2, <2>1 DEF SendMessage, TypeOK, Posting, Preparing,
                              Ownership!Share, Ownership!Sides
    <2> QED BY <2>2 DEF Ownership!Next
  <1>3. ASSUME CleanupLastMessage
        PROVE  Ownership!Next
    <2>1. PICK i \in Items : i = lastMessage
      BY <1>0, <1>3 DEF CleanupLastMessage, TypeOK, SenderUse
    <2>2. Ownership!Release(i, "sender")
      BY <1>0, <1>3, <2>1 DEF CleanupLastMessage, ShouldSenderCleanup, TypeOK,
                              SenderUse, Alive, Ownership!Release
    <2> QED BY <2>2 DEF Ownership!Next, Ownership!Sides
  <1>4. ASSUME ThreadDecide
        PROVE  Ownership!Next
    <2>1. PICK i \in Items : i = threadItem
      BY <1>0, <1>4 DEF ThreadDecide, ThreadUse
    <2>2. inUseByThread[i] /\ life[i] = "live"
      BY <1>0, <1>4, <2>1 DEF ThreadDecide, ThreadUse, Alive
    <2>3. Ownership!Release(i, "thread")
      BY <1>0, <1>4, <2>1, <2>2 DEF ThreadDecide, ShouldThreadCleanup, TypeOK,
                                    Ownership!Release
    <2> QED BY <2>3 DEF Ownership!Next, Ownership!Sides
  <1>5. ASSUME DeleteLastMessage
        PROVE  Ownership!Next
    <2>1. PICK i \in Items : i = lastMessage
      BY <1>0, <1>5 DEF DeleteLastMessage, TypeOK, SenderUse
    <2>2. Ownership!Destroy(i)
      BY <1>0, <1>5, <2>1 DEF DeleteLastMessage, Delete, TypeOK, DeletesAlone,
                              Ownership!Destroy
    <2> QED BY <2>2 DEF Ownership!Next
  <1>6. ASSUME ThreadDelete
        PROVE  Ownership!Next
    <2>1. PICK i \in Items : i = threadItem
      BY <1>0, <1>6 DEF ThreadDelete, ThreadUse
    <2>2. Ownership!Destroy(i)
      BY <1>0, <1>6, <2>1 DEF ThreadDelete, Delete, TypeOK, DeletesAlone,
                              Ownership!Destroy
    <2> QED BY <2>2 DEF Ownership!Next
  <1>7. Shutdown \in Items
    BY DEF Items
  <1>8. ASSUME WaitForThreadToExit
        PROVE  Ownership!Next
    <2>1. ~inUseByThread[Shutdown] /\ inUseBySender[Shutdown]
      BY <1>0, <1>7, <1>8 DEF WaitForThreadToExit, Stopping, ThreadUse,
                              SenderUse, QueuedItems
    <2>2. Ownership!Release(Shutdown, "sender")
      BY <1>0, <1>7, <1>8, <2>1 DEF WaitForThreadToExit, TypeOK, Alive,
                                    Ownership!Release
    <2> QED BY <1>7, <2>2 DEF Ownership!Next, Ownership!Sides
  <1>9. ASSUME FinishTerminate
        PROVE  Ownership!Next
    <2>1. Ownership!Destroy(Shutdown)
      BY <1>0, <1>7, <1>9 DEF FinishTerminate, Delete, TypeOK, Stopping,
                              Ownership!Destroy
    <2> QED BY <1>7, <2>1 DEF Ownership!Next
  <1>10. ASSUME \/ Construct \/ WaitForThreadToBeReady \/ EndWaitLast
                \/ BeginWaitLast \/ ThreadStart \/ ThreadStartFails
                \/ CheckTerminate \/ SetReady \/ GetMessageItem \/ TakeAction
                \/ ThreadExit \/ UNCHANGED vars
         PROVE  UNCHANGED Ownership!vars
    <2>1. UNCHANGED <<inUseByThread, inUseBySender, life>>
      BY <1>10 DEF Construct, WaitForThreadToBeReady, EndWaitLast,
                   BeginWaitLast, ThreadStart, ThreadStartFails,
                   CheckTerminate, SetReady, GetMessageItem, TakeAction,
                   ThreadExit, vars, itemVars
    <2> QED BY <2>1 DEF Ownership!vars
  <1> QED
    BY <1>1, <1>2, <1>3, <1>4, <1>5, <1>6, <1>8, <1>9, <1>10
       DEF Next, SenderSteps, ThreadSteps, PostAction, TerminateFriendly, Items

\* The message thread and its sender implement MessageOwnership: a message is
\* shared by both sides, given up by each, and destroyed once, afterwards.
THEOREM Implements == Spec => ImplementsOwnership
  <1>1. Init => Ownership!Init
    BY InitRefines
  <1>2. IInv /\ [Next]_vars => [Ownership!Next]_(Ownership!vars)
    BY NextRefines
  <1> QED BY <1>1, <1>2, Inductive, PTL
          DEF Spec, ImplementsOwnership, Ownership!Spec
-------------------------------------------------------------------------------
(***************************************************************************)
(* NAT traversal: what the messages do.                                    *)
(***************************************************************************)
Held == Values \cup UNION {{r[k] : k \in Keys} : r \in Routers}
Entries == [key : Keys, value : Held, obj : Nat]
Pointers ==
    [kind : {"map"}, obj : Nat, key : Keys \cup {None}, n : Nat]
      \cup [kind : {"error"}, obj : Nat]

NatTypes ==
    /\ job \in [Items -> Jobs \cup {None}]
    /\ blocking \in BOOLEAN /\ excused \in BOOLEAN /\ fault \in BOOLEAN
    /\ pointer \in Pointers \cup {None}

\* The library's copy, and the router; a copy that was not fetched is empty.
MapsKnown ==
    /\ collection \in BOOLEAN /\ stale \in BOOLEAN
    /\ portMaps \in Seq(Entries)
    /\ made \in Nat /\ errors \in Nat
    /\ DOMAIN router = Keys /\ \A k \in Keys : router[k] \in Held \cup {None}
    /\ ~collection => portMaps = <<>>

\* The messages that were not acted on: the one being acted on, those in the queue, and
\* the one being posted.
InHand(i) == threadPC = "act" /\ threadItem = i
Coming(i) == Preparing /\ posting = i

\* A message that was posted has its job until it is acted on.
JobsKnown ==
    /\ job[Shutdown] = None
    /\ \A i \in Messages : job[i] # None <=> InHand(i) \/ i \in QueuedItems \/ Coming(i)
    /\ posted # <<>> => ready

Has(i, ops) == job[i] # None /\ job[i].op \in ops
DeletingOps == {"update", "deleteA", "deleteB"}

\* Message d is acted on after message i.
After(d, i) ==
    \/ Coming(d) /\ d # i
    \/ d \in QueuedItems /\ InHand(i)
    \/ \E m, n \in 1..Len(queue) : m < n /\ queue[m] = i /\ queue[n] = d

\* The port map that a message points to is there, and nothing that is acted on before
\* it deletes port maps.
SetsAlive ==
    excused \/ \A i \in Items : Has(i, {"set"}) =>
        /\ job[i].obj \in Objects
        /\ \A d \in Items : Has(d, DeletingOps) => After(d, i)

\* What a command has fetched is there until it is used: no message is posted meanwhile,
\* and none that was deletes it.
PointerAlive ==
    /\ pointer # None => senderPC = "idle" /\ posted # <<>> /\ ~blocking
    /\ pointer # None /\ pointer.kind = "map" /\ ~excused =>
           ~Deleting /\ pointer.obj \in Objects
    /\ pointer # None /\ pointer.kind = "error" /\ ~excused =>
           (\A i \in Items : job[i] = None) /\ pointer.obj = errors

\* The copy has each port map of the router once, with its value.
Copied ==
    /\ \A m, n \in 1..Len(portMaps) : portMaps[m].key = portMaps[n].key => m = n
    /\ \A n \in 1..Len(portMaps) :
         portMaps[n].key \in Mapped /\ portMaps[n].value = router[portMaps[n].key]
    /\ \A k \in Mapped : \E n \in 1..Len(portMaps) : portMaps[n].key = k

NatIInv ==
    /\ NatTypes /\ MapsKnown /\ JobsKnown /\ SetsAlive /\ PointerAlive
    /\ stale \/ threadPC = "exited" \/ Copied
    /\ fault => excused
-------------------------------------------------------------------------------
\* A finite set, written as a sequence, is enumerated once.
LEMMA SetToSeqFacts ==
    ASSUME NEW S, IsFiniteSet(S)
    PROVE  /\ Cardinality(S) \in Nat
           /\ SetToSeq(S) \in [1..Cardinality(S) -> S]
           /\ \A m, n \in 1..Cardinality(S) : SetToSeq(S)[m] = SetToSeq(S)[n] => m = n
           /\ \A e \in S : \E n \in 1..Cardinality(S) : SetToSeq(S)[n] = e
  <1>1. Cardinality(S) \in Nat /\ ExistsBijection(1..Cardinality(S), S)
    BY FS_CardinalityType
  <1> DEFINE f == SetToSeq(S)
             size == Cardinality(S)
  <1>2. \E g \in [1..size -> S] : IsInjective(g)
    BY <1>1 DEF ExistsBijection, Bijection, Injection, IsInjective
  <1>3. f \in [1..size -> S] /\ IsInjective(f)
    BY <1>2 DEF SetToSeq
  <1>4. \A m, n \in 1..size : f[m] = f[n] => m = n
    BY <1>3 DEF IsInjective
  <1>5. f \in Injection(1..size, S)
    BY <1>3 DEF Injection
  <1>6. Cardinality(1..size) = size
    BY <1>1, FS_Interval
  <1>7. f \in Surjection(1..size, S)
    BY <1>5, <1>6, FS_Injection
  <1>8. \A e \in S : \E n \in 1..size : f[n] = e
    BY <1>7 DEF Surjection
  <1> QED
    BY <1>1, <1>3, <1>4, <1>8

\* The router's port maps, as they are asked for one by one.
LEMMA EnumeratedFacts ==
    ASSUME MapsKnown, NEW size \in Nat, size = Cardinality(Mapped), NEW n \in 0..size
    PROVE  /\ Enumerated(n) \in Seq(Entries) /\ Len(Enumerated(n)) = n
           /\ \A x \in 1..n : /\ Enumerated(n)[x].key \in Mapped
                              /\ Enumerated(n)[x].value = router[Enumerated(n)[x].key]
           /\ \A x, y \in 1..n : Enumerated(n)[x].key = Enumerated(n)[y].key => x = y
           /\ n = size => \A k \in Mapped : \E x \in 1..n : Enumerated(n)[x].key = k
  <1>1. IsFiniteSet(Mapped) /\ Mapped \subseteq Keys
    BY NatAssumption, FS_Subset DEF Mapped
  <1> DEFINE f == SetToSeq(Mapped)
  <1>2. /\ f \in [1..size -> Mapped]
        /\ \A x, y \in 1..size : f[x] = f[y] => x = y
        /\ \A k \in Mapped : \E x \in 1..size : f[x] = k
    BY <1>1, SetToSeqFacts
  <1>3. 1..n \subseteq 1..size
    OBVIOUS
  <1>4. \A x \in 1..n : /\ f[x] \in Mapped
                        /\ [key |-> f[x], value |-> router[f[x]], obj |-> made + x] \in Entries
    <2> SUFFICES ASSUME NEW x \in 1..n
                 PROVE  /\ f[x] \in Mapped
                        /\ [key |-> f[x], value |-> router[f[x]], obj |-> made + x] \in Entries
      OBVIOUS
    <2>1. f[x] \in Mapped
      BY <1>2, <1>3
    <2>2. f[x] \in Keys /\ router[f[x]] \in Held
      BY <2>1 DEF Mapped, MapsKnown
    <2>3. made + x \in Nat
      BY DEF MapsKnown
    <2> QED
      BY <2>1, <2>2, <2>3 DEF Entries
  <1>5. Enumerated(n) = [x \in 1..n |-> [key |-> f[x], value |-> router[f[x]], obj |-> made + x]]
    BY DEF Enumerated, PortMap
  <1> HIDE DEF f
  <1>6. Enumerated(n) \in Seq(Entries) /\ Len(Enumerated(n)) = n
    BY <1>4, <1>5
  <1>7. \A x \in 1..n : Enumerated(n)[x].key = f[x] /\ Enumerated(n)[x].value = router[f[x]]
    BY <1>5
  <1> QED
    BY <1>2, <1>3, <1>4, <1>6, <1>7

\* A copy made of all the router has is one; of less, it is known not to be.
LEMMA UpdateInfoKeeps ==
    ASSUME MapsKnown, UpdateInfo
    PROVE  MapsKnown' /\ (stale' \/ Copied')
  <1>1. IsFiniteSet(Mapped) /\ Cardinality(Mapped) \in Nat
    <2>1. Mapped \in SUBSET Keys
      BY DEF Mapped
    <2> QED
      BY <2>1, NatAssumption, FS_Subset, FS_CardinalityType
  <1>2. PICK size \in Nat : size = Cardinality(Mapped)
    BY <1>1
  <1>3. ASSUME NEW n \in 0..size,
               portMaps' = Enumerated(n), collection' = TRUE, made' = made + n,
               stale' = (n < size), Succeeds \/ Fails, UNCHANGED router
        PROVE  MapsKnown' /\ (stale' \/ Copied')
    <2>1. /\ Enumerated(n) \in Seq(Entries) /\ Len(Enumerated(n)) = n
          /\ \A x \in 1..n : /\ Enumerated(n)[x].key \in Mapped
                             /\ Enumerated(n)[x].value = router[Enumerated(n)[x].key]
          /\ \A x, y \in 1..n : Enumerated(n)[x].key = Enumerated(n)[y].key => x = y
          /\ n = size => \A k \in Mapped : \E x \in 1..n : Enumerated(n)[x].key = k
      BY <1>2, EnumeratedFacts
    <2>2. MapsKnown'
      BY <1>3, <2>1 DEF MapsKnown, Succeeds, Fails
    <2>3. Mapped' = Mapped
      BY <1>3 DEF Mapped
    <2>4. CASE n = size
      <3>1. /\ Len(portMaps') = n
            /\ \A x \in 1..n : portMaps'[x].key \in Mapped' /\ portMaps'[x].value = router'[portMaps'[x].key]
            /\ \A x, y \in 1..n : portMaps'[x].key = portMaps'[y].key => x = y
            /\ \A k \in Mapped' : \E x \in 1..n : portMaps'[x].key = k
        BY <1>3, <2>1, <2>3, <2>4
      <3> QED
        BY <2>2, <3>1 DEF Copied
    <2>5. CASE n # size
      <3>1. n < size
        BY <2>5
      <3> QED
        BY <1>3, <2>2, <3>1
    <2> QED
      BY <2>4, <2>5
  <1>4. ASSUME portMaps' = <<>>, collection' = FALSE, stale' = TRUE, Fails, UNCHANGED <<made, router>>
        PROVE  MapsKnown' /\ (stale' \/ Copied')
    <2>1. <<>> \in Seq(Entries)
      OBVIOUS
    <2>2. portMaps' \in Seq(Entries) /\ made' = made /\ router' = router /\ stale' = TRUE
      BY <1>4, <2>1
    <2>3. errors' \in Nat
      BY <1>4 DEF Fails, MapsKnown
    <2> QED
      BY <1>4, <2>2, <2>3 DEF MapsKnown
  <1> QED
    BY <1>2, <1>3, <1>4 DEF UpdateInfo

\* What is added to the router is added to the copy.
LEMMA AddKeeps ==
    ASSUME MapsKnown, stale \/ Copied, NEW key \in Keys, NEW value \in Values, collection,
           AddToCollection(key, value)
    PROVE  MapsKnown' /\ (stale' \/ Copied') /\ Objects \subseteq Objects'
  <1>1. value \in Held /\ value # None
    BY NatAssumption DEF Held
  <1>2. ASSUME router' = [router EXCEPT ![key] = value],
               portMaps' = Append(portMaps, PortMap(key, value, made + 1)), made' = made + 1,
               stale' = (stale \/ \E e \in ToSet(portMaps) : e.key = key),
               Succeeds, UNCHANGED collection
        PROVE  MapsKnown' /\ (stale' \/ Copied') /\ Objects \subseteq Objects'
    <2> DEFINE new == PortMap(key, value, made + 1)
    <2>1. new \in Entries /\ new.key = key /\ new.value = value
      BY <1>1 DEF PortMap, Entries, MapsKnown
    <2>2. PICK size \in Nat : size = Len(portMaps)
      BY DEF MapsKnown
    <2> HIDE DEF new
    <2>3. /\ portMaps' \in Seq(Entries) /\ Len(portMaps') = size + 1
          /\ \A n \in 1..size : portMaps'[n] = portMaps[n]
          /\ portMaps'[size + 1] = new
      BY <1>2, <2>1, <2>2 DEF MapsKnown, new
    <2>4. /\ DOMAIN router' = Keys /\ router'[key] = value
          /\ \A k \in Keys : k # key => router'[k] = router[k]
      BY <1>2 DEF MapsKnown
    <2>5. MapsKnown'
      BY <1>1, <1>2, <2>3, <2>4 DEF MapsKnown, Succeeds
    <2>6. Objects \subseteq Objects'
      BY <2>2, <2>3 DEF Objects
    <2>7. ASSUME ~stale'
          PROVE  Copied'
      <3>1. Copied /\ \A n \in 1..size : portMaps[n].key # key
        <4>1. ~stale /\ \A e \in ToSet(portMaps) : e.key # key
          BY <1>2, <2>7
        <4>2. \A n \in 1..size : portMaps[n] \in ToSet(portMaps)
          BY <2>2 DEF ToSet, MapsKnown
        <4> QED
          BY <4>1, <4>2
      <3>2. Mapped' = Mapped \cup {key}
        BY <1>1, <2>4 DEF Mapped
      <3>3. \A n \in 1..size + 1 : n \in 1..size \/ n = size + 1
        OBVIOUS
      <3>4. \A n \in 1..size : portMaps[n].key \in Mapped /\ portMaps[n].value = router[portMaps[n].key]
        BY <2>2, <3>1 DEF Copied
      <3>5. \A n \in 1..size + 1 :
              portMaps'[n].key \in Mapped' /\ portMaps'[n].value = router'[portMaps'[n].key]
        <4>1. \A n \in 1..size : portMaps[n].key \in Keys /\ portMaps[n].key # key
          BY <3>1, <3>4 DEF Mapped
        <4> QED
          BY <2>1, <2>3, <2>4, <3>2, <3>3, <3>4, <4>1
      <3>6. \A m, n \in 1..size + 1 : portMaps'[m].key = portMaps'[n].key => m = n
        <4>1. \A m, n \in 1..size : portMaps[m].key = portMaps[n].key => m = n
          BY <2>2, <3>1 DEF Copied
        <4> QED
          BY <2>1, <2>3, <3>1, <3>3, <4>1
      <3>7. \A k \in Mapped' : \E n \in 1..size + 1 : portMaps'[n].key = k
        <4>1. \A k \in Mapped : \E n \in 1..size : portMaps[n].key = k
          BY <2>2, <3>1 DEF Copied
        <4>2. 1..size \subseteq 1..size + 1 /\ size + 1 \in 1..size + 1
          OBVIOUS
        <4> QED
          BY <2>1, <2>3, <3>2, <4>1, <4>2
      <3> QED
        BY <2>3, <3>5, <3>6, <3>7 DEF Copied
    <2> QED
      BY <2>5, <2>6, <2>7 DEF MapsKnown
  <1>3. ASSUME router' = [router EXCEPT ![key] = value], stale' = TRUE, Fails,
               UNCHANGED <<portMaps, collection, made>>
        PROVE  MapsKnown' /\ (stale' \/ Copied') /\ Objects \subseteq Objects'
    BY <1>1, <1>3 DEF MapsKnown, Fails, Objects
  <1>4. ASSUME Fails, UNCHANGED copyVars
        PROVE  MapsKnown' /\ (stale' \/ Copied') /\ Objects \subseteq Objects'
    BY <1>4 DEF MapsKnown, Fails, Objects, Copied, copyVars, Mapped
  <1> QED
    BY <1>2, <1>3, <1>4 DEF AddToCollection

\* Removing a port map leaves the others, in their order.
LEMMA RemoveAtFacts ==
    ASSUME NEW S, NEW s \in Seq(S), NEW n \in 1..Len(s)
    PROVE  /\ RemoveAt(s, n) \in Seq(S) /\ Len(RemoveAt(s, n)) = Len(s) - 1
           /\ \A m \in 1..Len(s) - 1 : RemoveAt(s, n)[m] = IF m < n THEN s[m] ELSE s[m + 1]
  <1>1. PICK size \in Nat : size = Len(s)
    OBVIOUS
  <1>2. n \in 1..size
    BY <1>1
  <1>3. PICK a : a = SubSeq(s, 1, n - 1)
    OBVIOUS
  <1>4. PICK b : b = SubSeq(s, n + 1, size)
    OBVIOUS
  <1>5. a \in Seq(S) /\ Len(a) = n - 1 /\ \A m \in 1..n - 1 : a[m] = s[m]
    BY <1>1, <1>2, <1>3
  <1>6. b \in Seq(S) /\ Len(b) = size - n /\ \A m \in 1..size - n : b[m] = s[n + m]
    <2>1. b \in Seq(S) /\ Len(b) = size - n
      BY <1>1, <1>2, <1>4
    <2>2. \A m \in 1..size - n : b[m] = s[(n + 1) + m - 1]
      BY <1>1, <1>2, <1>4
    <2>3. \A m \in 1..size - n : (n + 1) + m - 1 = n + m
      BY <1>2
    <2> QED
      BY <2>1, <2>2, <2>3
  <1>7. RemoveAt(s, n) = a \o b
    BY <1>1, <1>3, <1>4 DEF RemoveAt
  <1>8. /\ a \o b \in Seq(S) /\ Len(a \o b) = size - 1
        /\ \A m \in 1..size - 1 : (a \o b)[m] = IF m <= n - 1 THEN a[m] ELSE b[m - (n - 1)]
    <2>1. a \in Seq(S) /\ Len(a) = n - 1 /\ b \in Seq(S) /\ Len(b) = size - n
      BY <1>5, <1>6
    <2>2. a \o b \in Seq(S) /\ Len(a \o b) = Len(a) + Len(b)
      BY <2>1, ConcatProperties
    <2>3. \A m \in 1..Len(a) + Len(b) : (a \o b)[m] = IF m <= Len(a) THEN a[m] ELSE b[m - Len(a)]
      BY <2>1, ConcatProperties
    <2>4. (n - 1) + (size - n) = size - 1
      BY <1>2
    <2> QED
      BY <2>1, <2>2, <2>3, <2>4
  <1>9. ASSUME NEW m \in 1..size - 1
        PROVE  (a \o b)[m] = IF m < n THEN s[m] ELSE s[m + 1]
    <2>1. CASE m < n
      <3>1. m <= n - 1 /\ m \in 1..n - 1
        BY <1>2, <2>1
      <3> QED
        BY <1>5, <1>8, <2>1, <3>1
    <2>2. CASE ~(m < n)
      <3>1. m - (n - 1) \in 1..size - n /\ ~(m <= n - 1) /\ n + (m - (n - 1)) = m + 1
        BY <1>2, <2>2
      <3> QED
        BY <1>6, <1>8, <2>2, <3>1
    <2> QED
      BY <2>1, <2>2
  <1> QED
    BY <1>1, <1>7, <1>8, <1>9

\* The first port map for a key.
LEMMA FoundFacts ==
    ASSUME NEW s \in Seq(Entries), NEW key,
           NEW n, n = LET I == {i \in 1..Len(s) : s[i].key = key}
                      IN  IF I # {} THEN Min(I) ELSE 0
    PROVE  \/ n \in 1..Len(s) /\ s[n].key = key
           \/ n = 0 /\ \A m \in 1..Len(s) : s[m].key # key
  <1> DEFINE I == {i \in 1..Len(s) : s[i].key = key}
  <1>1. n = IF I # {} THEN Min(I) ELSE 0
    OBVIOUS
  <1>2. CASE I = {}
    BY <1>1, <1>2
  <1>3. CASE I # {}
    <2>1. \E x \in I : \A y \in I : x <= y
      <3>1. I \subseteq Nat
        OBVIOUS
      <3> HIDE DEF I
      <3> DEFINE R == OpToRel(<, Nat)
      <3>2. IsWellFoundedOn(R, Nat)
        BY NatLessThanWellFounded DEF OpToRel
      <3>3. \A x, y \in Nat : <<y, x>> \notin R => x <= y
        BY DEF OpToRel
      <3> HIDE DEF R
      <3>4. \E x \in I : \A y \in I : ~ (<<y, x>> \in R)
        BY <1>3, <3>1, <3>2, WFMin
      <3> QED
        BY <3>1, <3>3, <3>4
    <2>2. Min(I) \in I
      BY <2>1 DEF Min
    <2> QED
      BY <1>1, <1>3, <2>2
  <1> QED
    BY <1>2, <1>3

\* A port map that the router removes is erased from the copy, if it is there.
LEMMA RemoveKeeps ==
    ASSUME MapsKnown, stale \/ Copied, NEW key, NEW n \in Nat,
           \/ n \in 1..Len(portMaps) /\ portMaps[n].key = key
           \/ n = 0 /\ \A m \in 1..Len(portMaps) : portMaps[m].key # key,
           collection, key \in Keys,
           RemoveFromCollection(key, n)
    PROVE  MapsKnown' /\ (stale' \/ Copied')
  <1>1. PICK size \in Nat : size = Len(portMaps)
    BY DEF MapsKnown
  <1>2. ASSUME router[key] # None, router' = [router EXCEPT ![key] = None],
               portMaps' = IF n = 0 THEN portMaps ELSE RemoveAt(portMaps, n),
               Succeeds, UNCHANGED <<collection, made, stale>>
        PROVE  MapsKnown' /\ (stale' \/ Copied')
    <2>1. /\ DOMAIN router' = Keys /\ router'[key] = None
          /\ \A k \in Keys : k # key => router'[k] = router[k]
      BY <1>2 DEF MapsKnown
    <2>2. Mapped' = Mapped \ {key} /\ key \in Mapped
      BY <1>2, <2>1 DEF Mapped
    <2>3. ASSUME portMaps' \in Seq(Entries)
          PROVE  MapsKnown'
      BY <1>2, <2>1, <2>3 DEF MapsKnown, Succeeds
    <2>4. CASE n = 0
      <3>1. portMaps' = portMaps
        BY <1>2, <2>4
      <3>2. MapsKnown'
        BY <2>3, <3>1 DEF MapsKnown
      <3>3. ~Copied
        BY <2>2, <2>4 DEF Copied
      <3> QED
        BY <1>2, <3>2, <3>3
    <2>5. CASE n # 0
      <3>1. n \in 1..size /\ portMaps[n].key = key
        BY <1>1, <2>5
      <3>2. /\ portMaps' \in Seq(Entries) /\ Len(portMaps') = size - 1
            /\ \A m \in 1..size - 1 : portMaps'[m] = IF m < n THEN portMaps[m] ELSE portMaps[m + 1]
        <4>1. portMaps \in Seq(Entries) /\ n \in 1..Len(portMaps)
          BY <1>1, <3>1 DEF MapsKnown
        <4>2. /\ RemoveAt(portMaps, n) \in Seq(Entries)
              /\ Len(RemoveAt(portMaps, n)) = Len(portMaps) - 1
              /\ \A m \in 1..Len(portMaps) - 1 :
                   RemoveAt(portMaps, n)[m] = IF m < n THEN portMaps[m] ELSE portMaps[m + 1]
          BY <4>1, RemoveAtFacts
        <4> QED
          BY <1>1, <1>2, <2>5, <4>2
      <3>3. MapsKnown'
        BY <2>3, <3>2
      <3>4. ASSUME Copied
            PROVE  Copied'
        <4>1. /\ \A m, x \in 1..size : portMaps[m].key = portMaps[x].key => m = x
              /\ \A m \in 1..size :
                   portMaps[m].key \in Mapped /\ portMaps[m].value = router[portMaps[m].key]
              /\ \A k \in Mapped : \E m \in 1..size : portMaps[m].key = k
          BY <1>1, <3>4 DEF Copied
        <4>2. ASSUME NEW m \in 1..size - 1
              PROVE  /\ portMaps'[m].key \in Mapped' /\ portMaps'[m].value = router'[portMaps'[m].key]
          <5>1. PICK x \in 1..size : x # n /\ portMaps'[m] = portMaps[x]
            <6>1. CASE m < n
              BY <3>2, <6>1
            <6>2. CASE ~(m < n)
              <7>1. m + 1 \in 1..size /\ m + 1 # n /\ portMaps'[m] = portMaps[m + 1]
                BY <3>1, <3>2, <6>2
              <7> QED
                BY <7>1
            <6> QED
              BY <6>1, <6>2
          <5>2. portMaps[x].key # key /\ portMaps[x].key \in Keys
            BY <3>1, <4>1, <5>1 DEF Mapped
          <5> QED
            BY <2>1, <2>2, <4>1, <5>1, <5>2
        <4>3. ASSUME NEW m \in 1..size - 1, NEW x \in 1..size - 1, portMaps'[m].key = portMaps'[x].key
              PROVE  m = x
          <5>1. CASE m < n /\ x < n
            BY <3>2, <4>1, <4>3, <5>1
          <5>2. CASE m < n /\ ~(x < n)
            <6>1. x + 1 \in 1..size /\ m \in 1..size /\ m # x + 1
              BY <3>1, <5>2
            <6>2. portMaps[m].key = portMaps[x + 1].key
              BY <3>2, <4>3, <5>2
            <6> QED
              BY <4>1, <6>1, <6>2
          <5>3. CASE ~(m < n) /\ x < n
            <6>1. m + 1 \in 1..size /\ x \in 1..size /\ m + 1 # x
              BY <3>1, <5>3
            <6>2. portMaps[m + 1].key = portMaps[x].key
              BY <3>2, <4>3, <5>3
            <6> QED
              BY <4>1, <6>1, <6>2
          <5>4. CASE ~(m < n) /\ ~(x < n)
            <6>1. portMaps'[m] = portMaps[m + 1] /\ portMaps'[x] = portMaps[x + 1]
              BY <3>2, <5>4
            <6>2. m + 1 \in 1..size /\ x + 1 \in 1..size
              OBVIOUS
            <6>3. m + 1 = x + 1
              BY <4>1, <4>3, <6>1, <6>2
            <6> QED
              BY <6>3
          <5> QED
            BY <5>1, <5>2, <5>3, <5>4
        <4>4. ASSUME NEW k \in Mapped'
              PROVE  \E m \in 1..size - 1 : portMaps'[m].key = k
          <5>1. k \in Mapped /\ k # key
            BY <2>2
          <5>2. PICK x \in 1..size : portMaps[x].key = k
            BY <4>1, <5>1
          <5>3. x # n
            BY <3>1, <5>1, <5>2
          <5>4. CASE x < n
            <6>1. x \in 1..size - 1 /\ portMaps'[x] = portMaps[x]
              BY <3>1, <3>2, <5>4
            <6> QED
              BY <5>2, <6>1
          <5>5. CASE x > n
            <6>1. x - 1 \in 1..size - 1 /\ ~(x - 1 < n) /\ (x - 1) + 1 = x
              BY <3>1, <5>5
            <6>2. portMaps'[x - 1] = portMaps[x]
              BY <3>2, <6>1
            <6> QED
              BY <5>2, <6>1, <6>2
          <5> QED
            BY <3>1, <5>3, <5>4, <5>5
        <4> QED
          BY <3>2, <4>2, <4>3, <4>4 DEF Copied
      <3> QED
        BY <1>2, <3>3, <3>4
    <2> QED
      BY <2>4, <2>5
  <1>3. ASSUME Fails, UNCHANGED copyVars
        PROVE  MapsKnown' /\ (stale' \/ Copied')
    BY <1>3 DEF MapsKnown, Fails, Copied, copyVars, Mapped
  <1> QED
    BY <1>2, <1>3 DEF RemoveFromCollection

\* A port map is deleted by its place, or by its key.
LEMMA DeleteByIDKeeps ==
    ASSUME MapsKnown, stale \/ Copied, collection, NEW id \in Nat, DeleteByID(id)
    PROVE  MapsKnown' /\ (stale' \/ Copied')
  <1>1. CASE id < Len(portMaps)
    <2>1. PICK size \in Nat : size = Len(portMaps)
      BY DEF MapsKnown
    <2>2. PICK n \in Nat : n = id + 1
      OBVIOUS
    <2>3. n \in 1..Len(portMaps)
      BY <1>1, <2>1, <2>2
    <2>4. PICK key : key = portMaps[n].key
      OBVIOUS
    <2>5. key \in Keys
      <3>1. portMaps[n] \in Entries
        BY <2>3 DEF MapsKnown
      <3> QED
        BY <2>4, <3>1 DEF Entries
    <2>6. RemoveFromCollection(key, n)
      BY <1>1, <2>2, <2>4 DEF DeleteByID
    <2> QED
      BY <2>3, <2>4, <2>5, <2>6, RemoveKeeps
  <1>2. CASE ~(id < Len(portMaps))
    BY <1>2 DEF DeleteByID, MapsKnown, Fails, Copied, copyVars, Mapped
  <1> QED
    BY <1>1, <1>2

\* The first port map with the key is taken out, if there is one.
LEMMA DeleteByKeyKeeps ==
    ASSUME MapsKnown, stale \/ Copied, collection, NEW key \in Keys, DeleteByKey(key)
    PROVE  MapsKnown' /\ (stale' \/ Copied')
  <1>1. PICK n : n = LET I == {i \in 1..Len(portMaps) : portMaps[i].key = key}
                     IN  IF I # {} THEN Min(I) ELSE 0
    OBVIOUS
  <1>2. PICK s \in Seq(Entries) : s = portMaps
    BY DEF MapsKnown
  <1>3. \/ n \in 1..Len(portMaps) /\ portMaps[n].key = key
        \/ n = 0 /\ \A m \in 1..Len(portMaps) : portMaps[m].key # key
    BY <1>1, <1>2, FoundFacts
  <1>4. n \in Nat
    BY <1>3
  <1>5. RemoveFromCollection(key, n)
    BY <1>1 DEF DeleteByKey, SelectInSeq
  <1> QED
    BY <1>3, <1>4, <1>5, RemoveKeeps

\* What is set in the router is set in the copy; its objects stay.
LEMMA SetKeeps ==
    ASSUME MapsKnown, stale \/ Copied, NEW obj, NEW value \in Values, SetInRouter(obj, value)
    PROVE  MapsKnown' /\ (stale' \/ Copied') /\ Objects \subseteq Objects'
  <1>1. value \in Held /\ value # None
    BY NatAssumption DEF Held
  <1>2. PICK size \in Nat : size = Len(portMaps)
    BY DEF MapsKnown
  <1>3. PICK n \in 1..size :
          \/ /\ router[portMaps[n].key] # None
             /\ router' = [router EXCEPT ![portMaps[n].key] = value]
             /\ portMaps' = [portMaps EXCEPT ![n].value = value]
             /\ Succeeds
             /\ UNCHANGED <<collection, made, stale>>
          \/ Fails /\ UNCHANGED copyVars
    BY <1>2 DEF SetInRouter
  <1>4. PICK key \in Keys : key = portMaps[n].key
    <2>1. portMaps[n] \in Entries
      BY <1>2 DEF MapsKnown
    <2> QED
      BY <2>1 DEF Entries
  <1>5. ASSUME router[key] # None, router' = [router EXCEPT ![key] = value],
               portMaps' = [portMaps EXCEPT ![n].value = value], Succeeds,
               UNCHANGED <<collection, made, stale>>
        PROVE  MapsKnown' /\ (stale' \/ Copied') /\ Objects \subseteq Objects'
    <2>1. /\ DOMAIN router' = Keys /\ router'[key] = value
          /\ \A k \in Keys : k # key => router'[k] = router[k]
      BY <1>5 DEF MapsKnown
    <2>2. Mapped' = Mapped
      BY <1>1, <1>5, <2>1 DEF Mapped
    <2>3. portMaps[n] \in Entries
      BY <1>2 DEF MapsKnown
    <2>4. /\ portMaps' \in Seq(Entries) /\ Len(portMaps') = size
          /\ \A m \in 1..size : m # n => portMaps'[m] = portMaps[m]
          /\ portMaps'[n].key = key /\ portMaps'[n].value = value /\ portMaps'[n].obj = portMaps[n].obj
      <3>1. PICK new : new = [portMaps[n] EXCEPT !.value = value]
        OBVIOUS
      <3>2. new \in Entries /\ new.key = key /\ new.value = value /\ new.obj = portMaps[n].obj
        BY <1>1, <1>4, <2>3, <3>1 DEF Entries
      <3>3. portMaps' = [portMaps EXCEPT ![n] = new]
        BY <1>5, <3>1
      <3> QED
        BY <1>2, <3>2, <3>3 DEF MapsKnown
    <2>5. MapsKnown'
      <3>1. portMaps # <<>>
        BY <1>2
      <3> QED
        BY <1>1, <1>5, <2>1, <2>4, <3>1 DEF MapsKnown, Succeeds
    <2>6. \A m \in 1..size : portMaps'[m].obj = portMaps[m].obj
      BY <2>4
    <2>7. Objects \subseteq Objects'
      BY <1>2, <2>4, <2>6 DEF Objects
    <2>8. ASSUME Copied
          PROVE  Copied'
      <3>1. \A m \in 1..size : portMaps'[m].key = portMaps[m].key
        BY <1>4, <2>4
      <3>2. /\ \A m, x \in 1..size : portMaps[m].key = portMaps[x].key => m = x
            /\ \A m \in 1..size :
                 portMaps[m].key \in Mapped /\ portMaps[m].value = router[portMaps[m].key]
            /\ \A k \in Mapped : \E m \in 1..size : portMaps[m].key = k
        BY <1>2, <2>8 DEF Copied
      <3>3. ASSUME NEW m \in 1..size
            PROVE  portMaps'[m].value = router'[portMaps'[m].key]
        <4>1. CASE m = n
          BY <2>1, <2>4, <4>1
        <4>2. CASE m # n
          <5>1. portMaps[m].key # key /\ portMaps[m].key \in Keys
            BY <1>4, <3>2, <4>2 DEF Mapped
          <5> QED
            BY <2>1, <2>4, <3>1, <3>2, <4>2, <5>1
        <4> QED
          BY <4>1, <4>2
      <3> QED
        BY <2>2, <2>4, <3>1, <3>2, <3>3 DEF Copied
    <2> QED
      BY <1>5, <2>5, <2>7, <2>8
  <1>6. ASSUME Fails, UNCHANGED copyVars
        PROVE  MapsKnown' /\ (stale' \/ Copied') /\ Objects \subseteq Objects'
    BY <1>6 DEF MapsKnown, Fails, Copied, copyVars, Mapped, Objects
  <1> QED
    BY <1>3, <1>4, <1>5, <1>6

-------------------------------------------------------------------------------
\* A step of the message thread or of its sender that takes no message off the queue,
\* posts none and touches no port map keeps what is said of jobs.
LEMMA LineKept ==
    ASSUME IInv, IInv', NatIInv,
           UNCHANGED <<job, copyVars, errors, pointer, excused, fault>>, blocking' \in BOOLEAN,
           \A i \in Items : /\ InHand(i)' <=> InHand(i)
                            /\ Coming(i)' <=> Coming(i),
           UNCHANGED <<queue, posted>>, ready => ready',
           threadPC = "exited" => threadPC' = "exited",
           pointer # None => senderPC' = "idle" /\ ~blocking'
    PROVE  NatIInv'
  <1>1. UNCHANGED <<portMaps, collection, made, router, stale>>
    BY DEF copyVars
  <1>2. NatTypes' /\ MapsKnown'
    BY <1>1 DEF NatIInv, NatTypes, MapsKnown
  <1>3. QueuedItems' = QueuedItems /\ Objects' = Objects
    BY <1>1 DEF QueuedItems, Objects
  <1>4. JobsKnown'
    <2>1. JobsKnown
      BY DEF NatIInv
    <2>2. \A i \in Messages : i \in Items
      BY DEF Items
    <2> QED
      BY <1>3, <2>1, <2>2 DEF JobsKnown
  <1>5. \A d, i \in Items : After(d, i) => After(d, i)'
    BY <1>3 DEF After
  <1>6. SetsAlive'
    <2>1. SetsAlive
      BY DEF NatIInv
    <2> QED
      BY <1>3, <1>5, <2>1 DEF SetsAlive, Has
  <1>7. PointerAlive'
    <2>1. PointerAlive
      BY DEF NatIInv
    <2>2. Deleting' <=> Deleting
      BY DEF Deleting
    <2> QED
      BY <1>3, <2>1, <2>2 DEF PointerAlive
  <1>8. stale' \/ threadPC' = "exited" \/ Copied'
    <2>1. Copied => Copied'
      BY <1>1 DEF Copied, Mapped
    <2> QED
      BY <1>1, <2>1 DEF NatIInv
  <1>9. fault' => excused'
    BY DEF NatIInv
  <1> QED
    BY <1>2, <1>4, <1>6, <1>7, <1>8, <1>9 DEF NatIInv

\* What the queue holds after a message was posted.
LEMMA SendFacts ==
    ASSUME IInv, SendMessage
    PROVE  /\ posting \in Items /\ Coming(posting) /\ ready
           /\ QueuedItems' = QueuedItems \cup {posting}
           /\ Len(queue) \in Nat /\ Len(queue') = Len(queue) + 1
           /\ \A n \in 1..Len(queue) : queue'[n] = queue[n]
           /\ queue'[Len(queue) + 1] = posting
           /\ \A i \in Items : (InHand(i)' <=> InHand(i)) /\ ~Coming(i)'
  <1>1. /\ senderPC = "send" /\ ready /\ queue' = Append(queue, posting)
        /\ senderPC' \in {"waitExit", "idle"} /\ UNCHANGED <<threadPC, threadItem>>
    BY DEF SendMessage, threadVars
  <1>2. Preparing /\ posting \in Items
    BY <1>1 DEF IInv, Posting, Preparing
  <1>3. queue \in Seq(Items)
    BY DEF IInv, TypeOK
  <1>4. PICK size \in Nat : size = Len(queue)
    BY <1>3
  <1>5. /\ Len(queue') = size + 1
        /\ \A n \in 1..size : queue'[n] = queue[n]
        /\ queue'[size + 1] = posting
    BY <1>1, <1>2, <1>3, <1>4
  <1>6. QueuedItems' = QueuedItems \cup {posting}
    <2>1. \A n \in 1..size + 1 : n \in 1..size \/ n = size + 1
      OBVIOUS
    <2>2. 1..size \subseteq 1..size + 1 /\ size + 1 \in 1..size + 1
      OBVIOUS
    <2>3. QueuedItems' \subseteq QueuedItems \cup {posting}
      BY <1>4, <1>5, <2>1 DEF QueuedItems
    <2>4. QueuedItems \cup {posting} \subseteq QueuedItems'
      BY <1>4, <1>5, <2>2 DEF QueuedItems
    <2> QED
      BY <2>3, <2>4
  <1>7. \A i \in Items : (InHand(i)' <=> InHand(i)) /\ ~Coming(i)'
    BY <1>1 DEF InHand, Coming, Preparing
  <1> QED
    BY <1>1, <1>2, <1>4, <1>5, <1>6, <1>7 DEF Coming

\* The message that was being posted is the last in the queue.
LEMMA SendKeeps ==
    ASSUME IInv, NatIInv, SendMessage, blocking' \in BOOLEAN,
           UNCHANGED <<job, copyVars, errors, pointer, excused, fault>>
    PROVE  NatIInv'
  <1>1. UNCHANGED <<portMaps, collection, made, router, stale, threadPC>>
    BY DEF copyVars, SendMessage, threadVars
  <1>2. NatTypes' /\ MapsKnown'
    BY <1>1 DEF NatIInv, NatTypes, MapsKnown
  <1>3. /\ posting \in Items /\ Coming(posting) /\ ready
        /\ QueuedItems' = QueuedItems \cup {posting}
        /\ \A i \in Items : (InHand(i)' <=> InHand(i)) /\ ~Coming(i)'
    BY SendFacts
  <1>4. PICK size \in Nat : /\ size = Len(queue) /\ Len(queue') = size + 1
                            /\ \A n \in 1..size : queue'[n] = queue[n]
                            /\ queue'[size + 1] = posting
    BY SendFacts
  <1>5. \A i \in Items : Coming(i) <=> i = posting
    BY <1>3 DEF Coming
  <1>6. JobsKnown'
    <2>1. JobsKnown /\ ready'
      BY <1>3 DEF NatIInv, SendMessage, threadVars
    <2>2. \A i \in Messages : i \in Items
      BY DEF Items
    <2> QED
      BY <1>3, <1>5, <2>1, <2>2 DEF JobsKnown
  <1>7. ASSUME NEW d \in Items, NEW i \in Items, job[i] # None, After(d, i)
        PROVE  After(d, i)'
    <2>1. i \in Messages
      BY <1>7 DEF NatIInv, JobsKnown, Items
    <2>2. InHand(i) \/ i \in QueuedItems \/ Coming(i)
      BY <1>7, <2>1 DEF NatIInv, JobsKnown
    <2>3. CASE Coming(d) /\ d # i
      <3>1. d = posting /\ d \in QueuedItems'
        BY <1>3, <1>5, <2>3
      <3>2. CASE InHand(i)
        BY <1>3, <3>1, <3>2 DEF After
      <3>3. CASE i \in QueuedItems
        <4>1. PICK m \in 1..size : queue[m] = i
          BY <1>4, <3>3 DEF QueuedItems
        <4>2. m \in 1..size + 1 /\ size + 1 \in 1..size + 1 /\ m < size + 1
          OBVIOUS
        <4> QED
          BY <1>4, <3>1, <4>1, <4>2 DEF After
      <3> QED
        BY <1>5, <2>2, <2>3, <3>1, <3>2, <3>3
    <2>4. CASE d \in QueuedItems /\ InHand(i)
      BY <1>3, <2>4 DEF After
    <2>5. CASE \E m, n \in 1..Len(queue) : m < n /\ queue[m] = i /\ queue[n] = d
      <3>1. PICK m \in 1..size, n \in 1..size : m < n /\ queue[m] = i /\ queue[n] = d
        BY <1>4, <2>5
      <3>2. m \in 1..size + 1 /\ n \in 1..size + 1
        OBVIOUS
      <3> QED
        BY <1>4, <3>1, <3>2 DEF After
    <2> QED
      BY <1>7, <2>3, <2>4, <2>5 DEF After
  <1>8. SetsAlive'
    <2>1. SetsAlive /\ Objects' = Objects
      BY <1>1 DEF NatIInv, Objects
    <2> QED
      BY <1>7, <2>1 DEF SetsAlive, Has
  <1>9. PointerAlive'
    <2>1. pointer = None
      BY DEF NatIInv, PointerAlive, SendMessage
    <2> QED
      BY <2>1 DEF PointerAlive
  <1>10. stale' \/ threadPC' = "exited" \/ Copied'
    <2>1. Copied => Copied'
      BY <1>1 DEF Copied, Mapped
    <2> QED
      BY <1>1, <2>1 DEF NatIInv
  <1>11. fault' => excused'
    BY DEF NatIInv
  <1> QED
    BY <1>2, <1>6, <1>8, <1>9, <1>10, <1>11 DEF NatIInv

\* The sender goes on with what it posts, or waits, or uses what it has fetched.
LEMMA SenderKeeps ==
    ASSUME IInv, IInv', NatIInv, SenderSteps, blocking' = (blocking /\ senderPC # "waitLast"),
           UNCHANGED <<job, copyVars, errors, pointer, excused, fault>>
    PROVE  NatIInv'
  <1> USE DEF itemVars, senderVars, threadVars
  <1>1. blocking' \in BOOLEAN
    BY DEF NatIInv, NatTypes
  <1>2. pointer = None
    <2>1. senderPC # "idle"
      BY DEF SenderSteps, Construct, WaitForThreadToBeReady, CleanupLastMessage,
             DeleteLastMessage, SendMessage, EndWaitLast, WaitForThreadToExit, FinishTerminate
    <2> QED
      BY <2>1 DEF NatIInv, PointerAlive
  <1>3. CASE SendMessage
    BY <1>1, <1>3, SendKeeps
  <1>4. CASE ~SendMessage
    <2>1. UNCHANGED <<queue, posted, ready, threadItem>>
      BY <1>4 DEF SenderSteps, Construct, WaitForThreadToBeReady, CleanupLastMessage,
             DeleteLastMessage, EndWaitLast, WaitForThreadToExit, FinishTerminate
    <2>2. \/ UNCHANGED threadPC
          \/ threadPC = "suspended" /\ threadPC' = "start"
      BY <1>4 DEF SenderSteps, Construct, WaitForThreadToBeReady, CleanupLastMessage,
             DeleteLastMessage, EndWaitLast, WaitForThreadToExit, FinishTerminate,
             IInv, Stopping
    <2>3. posting' = posting /\ (Preparing' <=> Preparing)
      BY <1>4 DEF SenderSteps, Construct, WaitForThreadToBeReady, CleanupLastMessage,
             DeleteLastMessage, EndWaitLast, WaitForThreadToExit, FinishTerminate,
             ShouldSenderCleanup, Preparing
    <2>4. \A i \in Items : (InHand(i)' <=> InHand(i)) /\ (Coming(i)' <=> Coming(i))
      BY <2>1, <2>2, <2>3 DEF InHand, Coming
    <2>5. threadPC = "exited" => threadPC' = "exited"
      BY <2>2
    <2> QED
      BY <1>1, <1>2, <2>1, <2>4, <2>5, LineKept
  <1> QED
    BY <1>3, <1>4

\* The sender begins to wait, or to end the thread.
LEMMA WaitKeeps ==
    ASSUME IInv, IInv', NatIInv, pointer = None, UNCHANGED natVars,
           BeginWaitLast \/ BeginPost(Shutdown)
    PROVE  NatIInv'
  <1> USE DEF senderVars, threadVars
  <1>1. UNCHANGED <<job, blocking, copyVars, errors, pointer, excused, fault>>
    BY DEF natVars, copyVars
  <1>2. blocking' \in BOOLEAN
    BY <1>1 DEF NatIInv, NatTypes
  <1>3. UNCHANGED <<queue, posted, ready, threadPC, threadItem>>
    BY DEF BeginWaitLast, BeginPost
  <1>4. CASE BeginWaitLast
    <2>1. \A i \in Items : (InHand(i)' <=> InHand(i)) /\ (Coming(i)' <=> Coming(i))
      BY <1>3, <1>4 DEF InHand, Coming, Preparing, BeginWaitLast
    <2> QED
      BY <1>1, <1>2, <1>3, <2>1, LineKept
  <1>5. CASE BeginPost(Shutdown)
    <2>1. NatTypes' /\ MapsKnown'
      BY <1>1 DEF NatIInv, NatTypes, MapsKnown, copyVars
    <2>2. QueuedItems' = QueuedItems /\ Objects' = Objects
      BY <1>1, <1>3 DEF QueuedItems, Objects, copyVars
    <2>3. \A i \in Messages : i \in Items /\ i # Shutdown
      BY ItemsAssumption DEF Items
    <2>4. \A i \in Items : (InHand(i)' <=> InHand(i)) /\ ~Coming(i)
      BY <1>3, <1>5 DEF InHand, Coming, Preparing, BeginPost
    <2>5. \A i \in Messages : ~Coming(i)'
      BY <1>5, <2>3 DEF Coming, BeginPost
    <2>6. JobsKnown'
      BY <1>1, <1>3, <2>2, <2>3, <2>4, <2>5 DEF NatIInv, JobsKnown
    <2>7. \A d, i \in Items : After(d, i) => After(d, i)'
      BY <1>3, <2>2, <2>4 DEF After
    <2>8. SetsAlive'
      <3>1. SetsAlive
        BY DEF NatIInv
      <3> QED
        BY <1>1, <2>2, <2>7, <3>1 DEF SetsAlive, Has
    <2>9. PointerAlive'
      BY <1>1 DEF PointerAlive
    <2>10. stale' \/ threadPC' = "exited" \/ Copied'
      BY <1>1, <1>3 DEF NatIInv, Copied, Mapped, copyVars
    <2>11. fault' => excused'
      BY <1>1 DEF NatIInv
    <2> QED
      BY <2>1, <2>6, <2>8, <2>9, <2>10, <2>11 DEF NatIInv
  <1> QED
    BY <1>4, <1>5

\* The message that the thread takes was the first in the queue.
LEMMA TakeFacts ==
    ASSUME IInv, IInv', GetMessageItem
    PROVE  /\ threadItem' \in Items /\ InHand(threadItem)' /\ threadItem' = queue[1]
           /\ Len(queue) \in Nat \ {0} /\ Len(queue') = Len(queue) - 1
           /\ \A n \in 1..Len(queue') : queue'[n] = queue[n + 1]
           /\ QueuedItems = QueuedItems' \cup {threadItem'}
           /\ \A i \in Items : ~InHand(i) /\ (Coming(i)' <=> Coming(i))
  <1> USE DEF senderVars
  <1>1. /\ threadItem' = queue[1] /\ threadItem' \in Items
        /\ Len(queue') = Len(queue) - 1 /\ Len(queue) \in Nat \ {0}
        /\ \A n \in 1..Len(queue') : queue'[n] = queue[n + 1]
    BY DEF GetMessageItem, IInv, TypeOK
  <1>2. PICK size \in Nat \ {0} : size = Len(queue)
    BY <1>1
  <1>3. \A n \in 1..size : n # 1 => n - 1 \in 1..size - 1 /\ queue[n] = queue'[n - 1]
    BY <1>1, <1>2
  <1>4. QueuedItems \subseteq QueuedItems' \cup {threadItem'}
    BY <1>1, <1>2, <1>3 DEF QueuedItems
  <1>5. 1 \in 1..size /\ \A n \in 1..size - 1 : n + 1 \in 1..size
    OBVIOUS
  <1>6. QueuedItems' \cup {threadItem'} \subseteq QueuedItems
    BY <1>1, <1>2, <1>5 DEF QueuedItems
  <1>7. \A i \in Items : ~InHand(i) /\ (Coming(i)' <=> Coming(i))
    BY DEF GetMessageItem, InHand, Coming, Preparing
  <1>8. InHand(threadItem)'
    BY DEF GetMessageItem, InHand
  <1> QED
    BY <1>1, <1>4, <1>6, <1>7, <1>8

\* It is acted on before all that stay in the queue.
LEMMA TakeKeeps ==
    ASSUME IInv, IInv', NatIInv, GetMessageItem, UNCHANGED natVars
    PROVE  NatIInv'
  <1> USE DEF senderVars
  <1>1. /\ UNCHANGED <<job, blocking, errors, pointer, excused, fault>>
        /\ UNCHANGED <<portMaps, collection, made, router, stale>>
    BY DEF natVars
  <1>2. NatTypes' /\ MapsKnown'
    BY <1>1 DEF NatIInv, NatTypes, MapsKnown
  <1>3. /\ threadItem' \in Items /\ InHand(threadItem)'
        /\ QueuedItems = QueuedItems' \cup {threadItem'}
        /\ \A i \in Items : ~InHand(i) /\ (Coming(i)' <=> Coming(i))
    BY TakeFacts
  <1>4. PICK size \in Nat : /\ size = Len(queue') /\ Len(queue) = size + 1
                            /\ \A n \in 1..size : queue'[n] = queue[n + 1]
                            /\ threadItem' = queue[1]
    <2>1. Len(queue) - 1 \in Nat /\ Len(queue') = Len(queue) - 1 /\ Len(queue) = (Len(queue) - 1) + 1
      BY TakeFacts
    <2> QED
      BY <2>1, TakeFacts
  <1>5. \A i \in Items : InHand(i)' <=> i = threadItem'
    BY <1>3 DEF InHand
  <1>6. \A i \in Messages : i \in Items
    BY DEF Items
  <1>7. JobsKnown'
    <2>1. JobsKnown /\ posted' = posted /\ ready' = ready
      BY DEF NatIInv, GetMessageItem
    <2> QED
      BY <1>1, <1>3, <1>5, <1>6, <2>1 DEF JobsKnown
  <1>8. ASSUME NEW d \in Items, NEW i \in Items, After(d, i)
        PROVE  After(d, i)'
    <2>1. CASE Coming(d) /\ d # i
      BY <1>3, <2>1 DEF After
    <2>2. CASE \E m, n \in 1..Len(queue) : m < n /\ queue[m] = i /\ queue[n] = d
      <3>1. PICK m \in 1..size + 1, n \in 1..size + 1 : m < n /\ queue[m] = i /\ queue[n] = d
        BY <1>4, <2>2
      <3>2. n - 1 \in 1..size /\ (n - 1) + 1 = n
        BY <3>1
      <3>3. queue'[n - 1] = d
        BY <1>4, <3>1, <3>2
      <3>4. CASE m = 1
        <4>1. d \in QueuedItems'
          BY <1>4, <3>2, <3>3 DEF QueuedItems
        <4>2. InHand(i)'
          BY <1>4, <1>5, <3>1, <3>4
        <4> QED
          BY <4>1, <4>2 DEF After
      <3>5. CASE m # 1
        <4>1. m - 1 \in 1..size /\ (m - 1) + 1 = m /\ m - 1 < n - 1
          BY <3>1, <3>5
        <4>2. queue'[m - 1] = i
          BY <1>4, <3>1, <4>1
        <4> QED
          BY <1>4, <3>2, <3>3, <4>1, <4>2 DEF After
      <3> QED
        BY <3>4, <3>5
    <2> QED
      BY <1>3, <1>8, <2>1, <2>2 DEF After
  <1>9. SetsAlive'
    <2>1. SetsAlive /\ Objects' = Objects
      BY <1>1 DEF NatIInv, Objects
    <2> QED
      BY <1>1, <1>8, <2>1 DEF SetsAlive, Has
  <1>10. PointerAlive'
    <2>1. PointerAlive /\ Objects' = Objects /\ (Deleting' <=> Deleting)
      BY <1>1 DEF NatIInv, Objects, Deleting
    <2>2. UNCHANGED <<posted, senderPC>>
      BY DEF GetMessageItem
    <2> QED
      BY <1>1, <2>1, <2>2 DEF PointerAlive
  <1>11. stale' \/ threadPC' = "exited" \/ Copied'
    <2>1. Copied => Copied'
      BY <1>1 DEF Copied, Mapped
    <2>2. threadPC # "exited"
      BY DEF GetMessageItem
    <2> QED
      BY <1>1, <2>1, <2>2 DEF NatIInv
  <1>12. fault' => excused'
    BY <1>1 DEF NatIInv
  <1> QED
    BY <1>2, <1>7, <1>9, <1>10, <1>11, <1>12 DEF NatIInv

\* The other steps of the thread that do nothing to port maps.
LEMMA ThreadKeeps ==
    ASSUME IInv, IInv', NatIInv, ThreadSteps, threadPC \notin {"act", "exit"}, UNCHANGED natVars
    PROVE  NatIInv'
  <1> USE DEF itemVars, senderVars
  <1>1. CASE GetMessageItem
    BY <1>1, TakeKeeps
  <1>2. CASE ~GetMessageItem
    <2>1. UNCHANGED <<job, blocking, copyVars, errors, pointer, excused, fault>>
      BY DEF natVars, copyVars
    <2>2. /\ UNCHANGED <<queue, posted, threadItem, senderPC, posting>>
          /\ ready => ready'
          /\ threadPC # "exited" /\ threadPC' # "act"
      BY <1>2 DEF ThreadSteps, ThreadStart, ThreadStartFails, CheckTerminate, SetReady,
             TakeAction, ThreadDecide, ThreadDelete, ThreadExit, ShouldThreadCleanup
    <2>3. \A i \in Items : (InHand(i)' <=> InHand(i)) /\ (Coming(i)' <=> Coming(i))
      BY <2>2 DEF InHand, Coming, Preparing
    <2>4. blocking' \in BOOLEAN /\ (pointer # None => senderPC' = "idle" /\ ~blocking')
      BY <2>1, <2>2 DEF NatIInv, NatTypes, PointerAlive
    <2> QED
      BY <2>1, <2>2, <2>3, <2>4, LineKept
  <1> QED
    BY <1>1, <1>2

-------------------------------------------------------------------------------
\* A step that changes only what a command has fetched.
LEMMA ReadingKeeps ==
    ASSUME NatIInv, UNCHANGED <<vars, job, blocking, copyVars, errors>>,
           excused' \in BOOLEAN, fault' \in BOOLEAN, excused => excused',
           pointer' \in Pointers \cup {None}, PointerAlive', fault' => excused'
    PROVE  NatIInv'
  <1>1. /\ UNCHANGED <<portMaps, collection, made, router, stale>>
        /\ UNCHANGED <<queue, posted, ready, threadPC, threadItem, senderPC, posting>>
    BY DEF copyVars, vars, senderVars, threadVars
  <1>2. NatTypes' /\ MapsKnown'
    BY <1>1 DEF NatIInv, NatTypes, MapsKnown
  <1>3. /\ QueuedItems' = QueuedItems /\ Objects' = Objects
        /\ \A i \in Items : (InHand(i)' <=> InHand(i)) /\ (Coming(i)' <=> Coming(i))
    BY <1>1 DEF QueuedItems, Objects, InHand, Coming, Preparing
  <1>4. JobsKnown'
    <2>1. \A i \in Messages : i \in Items
      BY DEF Items
    <2> QED
      BY <1>1, <1>3, <2>1 DEF NatIInv, JobsKnown
  <1>5. SetsAlive'
    <2>1. \A d, i \in Items : After(d, i) => After(d, i)'
      BY <1>1, <1>3 DEF After
    <2>2. SetsAlive
      BY DEF NatIInv
    <2> QED
      BY <1>3, <2>1, <2>2 DEF SetsAlive, Has
  <1>6. stale' \/ threadPC' = "exited" \/ Copied'
    BY <1>1 DEF NatIInv, Copied, Mapped
  <1> QED
    BY <1>2, <1>4, <1>5, <1>6 DEF NatIInv

\* What is fetched is one of the thread's port maps.
LEMMA FetchFacts ==
    ASSUME MapsKnown, NEW key \in Keys \cup {None}, NEW n \in Nat,
           NEW p, p = Fetch(key, n)
    PROVE  \/ p = None
           \/ p \in Pointers /\ p.kind = "map" /\ p.obj \in Objects
  <1>1. PICK size \in Nat : size = Len(portMaps)
    BY DEF MapsKnown
  <1>2. CASE n < size
    <2>1. n + 1 \in 1..size
      BY <1>2
    <2>2. portMaps[n + 1] \in Entries
      BY <1>1, <2>1 DEF MapsKnown
    <2>3. portMaps[n + 1].obj \in Nat /\ portMaps[n + 1].obj \in Objects
      BY <1>1, <2>1, <2>2 DEF Entries, Objects
    <2>4. p = [kind |-> "map", obj |-> portMaps[n + 1].obj, key |-> key, n |-> n]
      BY <1>1, <1>2 DEF Fetch
    <2> QED
      BY <2>3, <2>4 DEF Pointers
  <1>3. CASE ~(n < size)
    BY <1>1, <1>3 DEF Fetch
  <1> QED
    BY <1>2, <1>3

\* A port map that was fetched is used, and the next one is, in a search.
LEMMA UsePortMapKeeps ==
    ASSUME NatIInv, UsePortMap
    PROVE  NatIInv'
  <1>1. PICK p : p = pointer
    OBVIOUS
  <1>2. p \in Pointers /\ p # None /\ p.kind = "map"
    BY <1>1 DEF NatIInv, NatTypes, UsePortMap
  <1>3. p.key \in Keys \cup {None} /\ p.n \in Nat
    BY <1>2 DEF Pointers
  <1>4. PICK key \in Keys \cup {None}, n \in Nat : key = p.key /\ n = p.n + 1
    BY <1>3
  <1>5. pointer' = None \/ pointer' = Fetch(key, n)
    BY <1>1, <1>4 DEF UsePortMap
  <1>6. PICK q : q = Fetch(key, n)
    OBVIOUS
  <1>7. q = None \/ (q \in Pointers /\ q.kind = "map" /\ q.obj \in Objects)
    BY <1>6, FetchFacts DEF NatIInv
  <1>8. UNCHANGED <<vars, job, blocking, copyVars, errors, excused>>
    BY DEF UsePortMap
  <1>9. ASSUME ~excused
        PROVE  p.obj \in Objects /\ ~Deleting
    BY <1>1, <1>2, <1>9 DEF NatIInv, PointerAlive
  <1>10. fault' \in BOOLEAN /\ (fault' => excused)
    <2> DEFINE found == {e \in ToSet(portMaps) : e.obj = p.obj}
    <2>1. fault' = (fault \/ found = {})
      BY <1>1 DEF UsePortMap
    <2>2. ASSUME p.obj \in Objects
          PROVE  found # {}
      <3>1. PICK m \in 1..Len(portMaps) : portMaps[m].obj = p.obj
        BY <2>2 DEF Objects
      <3>2. portMaps[m] \in ToSet(portMaps)
        BY <3>1 DEF ToSet, NatIInv, MapsKnown
      <3> QED
        BY <3>1, <3>2
    <2> HIDE DEF found
    <2>3. fault \in BOOLEAN
      BY DEF NatIInv, NatTypes
    <2>4. CASE excused
      BY <2>1, <2>3, <2>4
    <2>5. CASE ~excused
      BY <1>9, <2>1, <2>2, <2>3, <2>5 DEF NatIInv
    <2> QED
      BY <2>4, <2>5
  <1>11. PointerAlive'
    <2>1. pointer # None => senderPC = "idle" /\ posted # <<>> /\ ~blocking
      BY DEF NatIInv, PointerAlive
    <2>2. /\ senderPC' = "idle" /\ posted' # <<>> /\ ~blocking'
          /\ Objects' = Objects /\ (Deleting' <=> Deleting) /\ (excused' <=> excused)
      BY <1>1, <1>2, <1>8, <2>1 DEF vars, senderVars, copyVars, Objects, Deleting
    <2>3. CASE pointer' = None
      BY <2>3 DEF PointerAlive
    <2>4. CASE pointer' # None
      <3>1. pointer'.kind = "map" /\ pointer'.obj \in Objects
        BY <1>5, <1>6, <1>7, <2>4
      <3>2. pointer'.kind # "error"
        BY <3>1
      <3> QED
        BY <1>9, <2>2, <3>1, <3>2 DEF PointerAlive
    <2> QED
      BY <2>3, <2>4
  <1>12. pointer' \in Pointers \cup {None}
    BY <1>5, <1>6, <1>7
  <1>13. excused' \in BOOLEAN
    BY <1>8 DEF NatIInv, NatTypes
  <1> QED
    BY <1>8, <1>10, <1>11, <1>12, <1>13, ReadingKeeps

\* The error that PollNAT has fetched is still the one that is stored.
LEMMA RethrowErrorKeeps ==
    ASSUME NatIInv, RethrowError
    PROVE  NatIInv'
  <1>1. UNCHANGED <<vars, job, blocking, copyVars, errors, excused>> /\ pointer' = None
    BY DEF RethrowError
  <1>2. PointerAlive'
    BY <1>1 DEF PointerAlive
  <1>3. fault' = (fault \/ pointer.obj # errors) /\ fault \in BOOLEAN /\ excused \in BOOLEAN
    BY DEF RethrowError, NatIInv, NatTypes
  <1>4. excused \/ pointer.obj = errors
    BY DEF NatIInv, PointerAlive, RethrowError
  <1>5. fault => excused
    BY DEF NatIInv
  <1>6. fault' \in BOOLEAN /\ (fault' => excused')
    BY <1>1, <1>3, <1>4, <1>5
  <1> QED
    BY <1>1, <1>2, <1>3, <1>6, ReadingKeeps

\* A command fetches a port map or an error; if the thread may delete it meanwhile, that
\* excuses what follows.
LEMMA ReadKeeps ==
    ASSUME NatIInv, NEW p, Read(p), NEW when \in BOOLEAN, excused' = (excused \/ when),
           \/ p = None
           \/ p \in Pointers /\ p.kind = "map" /\ p.obj \in Objects /\ (Deleting => when)
           \/ p \in Pointers /\ p.kind = "error" /\ p.obj = errors
                /\ ((\E i \in Items : job[i] # None) => when)
    PROVE  NatIInv'
  <1>1. /\ UNCHANGED <<vars, job, blocking, copyVars, errors, fault>> /\ pointer' = p
        /\ senderPC = "idle" /\ posted # <<>> /\ ~blocking
    BY DEF Read, Outside
  <1>2. excused \in BOOLEAN /\ fault \in BOOLEAN /\ (fault => excused)
    BY DEF NatIInv, NatTypes
  <1>3. excused' \in BOOLEAN /\ fault' \in BOOLEAN /\ (excused => excused') /\ (fault' => excused')
    BY <1>1, <1>2
  <1>4. /\ senderPC' = "idle" /\ posted' # <<>> /\ ~blocking'
        /\ Objects' = Objects /\ (Deleting' <=> Deleting) /\ job' = job /\ errors' = errors
    BY <1>1 DEF vars, senderVars, copyVars, Objects, Deleting
  <1>5. ASSUME p # None, ~excused', p.kind = "map"
        PROVE  ~Deleting /\ p.obj \in Objects
    BY <1>5
  <1>6. ASSUME p # None, ~excused', p.kind = "error"
        PROVE  (\A i \in Items : job[i] = None) /\ p.obj = errors
    BY <1>6
  <1>7. PointerAlive'
    BY <1>1, <1>4, <1>5, <1>6 DEF PointerAlive
  <1>8. pointer' \in Pointers \cup {None}
    BY <1>1
  <1> QED
    BY <1>1, <1>3, <1>7, <1>8, ReadingKeeps

-------------------------------------------------------------------------------
\* A command makes a message and begins to post it: it is acted on after all that were
\* posted before.
LEMMA PostKeeps ==
    ASSUME IInv, NatIInv, NEW j \in Jobs, NEW block \in BOOLEAN, NEW when \in BOOLEAN,
           Post(j, block), excused' = (excused \/ when),
           j.op = "set" => j.obj \in Objects /\ (Deleting => when)
    PROVE  NatIInv'
  <1>1. PICK i : i = CHOOSE m \in Messages : life[m] = "unborn"
    OBVIOUS
  <1>2. /\ pointer = None
        /\ \E m \in Messages : life[m] = "unborn"
        /\ BeginPost(i)
        /\ job' = [job EXCEPT ![i] = j]
        /\ blocking' = block
        /\ UNCHANGED <<copyVars, errors, pointer, fault>>
    BY <1>1 DEF Post
  <1>3. i \in Messages /\ i \in Items /\ i # Shutdown /\ life[i] = "unborn"
    BY <1>1, <1>2, ItemsAssumption DEF Items
  <1>4. /\ senderPC = "idle" /\ senderPC' \in {"send", "decide"} /\ posting' = i
        /\ UNCHANGED <<queue, posted, ready, threadPC, threadItem>>
    BY <1>2 DEF BeginPost, threadVars
  <1>5. UNCHANGED <<portMaps, collection, made, router, stale, errors, pointer, fault>>
    BY <1>2 DEF copyVars
  <1>6. j # None /\ job \in [Items -> Jobs \cup {None}]
    BY NatAssumption DEF NatIInv, NatTypes
  <1>7. /\ job' \in [Items -> Jobs \cup {None}] /\ job'[i] = j
        /\ \A d \in Items : d # i => job'[d] = job[d]
    BY <1>2, <1>3, <1>6
  <1>8. ~InHand(i) /\ i \notin QueuedItems
    <2>1. ~inUseByThread[i]
      BY <1>3 DEF IInv, Alive
    <2> QED
      BY <1>3, <2>1 DEF IInv, ThreadUse, InHand
  <1>9. /\ QueuedItems' = QueuedItems /\ Objects' = Objects
        /\ \A d \in Items : InHand(d)' <=> InHand(d)
        /\ \A d \in Items : ~Coming(d) /\ (Coming(d)' <=> d = i)
    BY <1>4, <1>5 DEF QueuedItems, Objects, InHand, Coming, Preparing
  <1>10. NatTypes' /\ MapsKnown'
    BY <1>2, <1>5, <1>7 DEF NatIInv, NatTypes, MapsKnown
  <1>11. JobsKnown'
    <2>1. JobsKnown /\ Shutdown \in Items /\ \A m \in Messages : m \in Items
      BY DEF NatIInv, Items
    <2>2. job'[Shutdown] = None
      BY <1>3, <1>7, <2>1 DEF JobsKnown
    <2>3. ASSUME NEW m \in Messages
          PROVE  job'[m] # None <=> InHand(m)' \/ m \in QueuedItems' \/ Coming(m)'
      <3>1. CASE m = i
        BY <1>3, <1>6, <1>7, <1>9, <3>1
      <3>2. CASE m # i
        BY <1>7, <1>9, <2>1, <3>2 DEF JobsKnown
      <3> QED
        BY <3>1, <3>2
    <2> QED
      BY <1>4, <2>1, <2>2, <2>3 DEF JobsKnown
  <1>12. \A d, m \in Items : After(d, m) => After(d, m)'
    BY <1>4, <1>9 DEF After
  <1>13. SetsAlive'
    <2> SUFFICES ASSUME ~excused', NEW m \in Items, Has(m, {"set"})'
                 PROVE  /\ job'[m].obj \in Objects
                        /\ \A d \in Items : Has(d, DeletingOps)' => After(d, m)'
      BY <1>9 DEF SetsAlive
    <2>1. ~excused /\ ~when
      <3>1. excused \in BOOLEAN
        BY DEF NatIInv, NatTypes
      <3> QED
        BY <3>1
    <2>2. \A d \in Items : d # i => (Has(d, DeletingOps)' <=> Has(d, DeletingOps))
                                      /\ (Has(d, {"set"})' <=> Has(d, {"set"}))
      BY <1>7 DEF Has
    <2>3. CASE m = i
      <3>1. j.op = "set"
        BY <1>7, <2>3 DEF Has
      <3>2. j.obj \in Objects /\ ~Deleting
        BY <2>1, <3>1
      <3>3. ASSUME NEW d \in Items
            PROVE  ~Has(d, DeletingOps)'
        <4>1. CASE d = i
          BY <1>7, <3>1, <4>1 DEF Has, DeletingOps
        <4>2. CASE d # i
          BY <2>2, <3>2, <4>2 DEF Has, DeletingOps, Deleting
        <4> QED
          BY <4>1, <4>2
      <3> QED
        BY <1>7, <2>3, <3>2, <3>3
    <2>4. CASE m # i
      <3>1. /\ job[m].obj \in Objects
            /\ \A d \in Items : Has(d, DeletingOps) => After(d, m)
        BY <2>1, <2>2, <2>4 DEF NatIInv, SetsAlive
      <3>2. After(i, m)'
        BY <1>3, <1>9, <2>4 DEF After
      <3> QED
        BY <1>7, <1>12, <2>2, <2>4, <3>1, <3>2
    <2> QED
      BY <2>3, <2>4
  <1>14. PointerAlive'
    BY <1>2, <1>5 DEF PointerAlive
  <1>15. stale' \/ threadPC' = "exited" \/ Copied'
    <2>1. Copied => Copied'
      BY <1>5 DEF Copied, Mapped
    <2> QED
      BY <1>4, <1>5, <2>1 DEF NatIInv
  <1>16. fault' => excused'
    BY <1>5 DEF NatIInv
  <1> QED
    BY <1>10, <1>11, <1>13, <1>14, <1>15, <1>16 DEF NatIInv

\* The port map that a set command points to is one of the thread's.
LEMMA SetPortMapKeeps ==
    ASSUME IInv, NatIInv, NEW id \in Nat, NEW value \in Values, NEW block \in BOOLEAN,
           SetPortMap(id, value, block)
    PROVE  NatIInv'
  <1>1. PICK size \in Nat : size = Len(portMaps)
    BY DEF NatIInv, MapsKnown
  <1>2. id + 1 \in 1..Len(portMaps)
    BY <1>1 DEF SetPortMap
  <1>3. portMaps[id + 1] \in Entries
    BY <1>2 DEF NatIInv, MapsKnown
  <1>4. PICK obj \in Nat : obj = portMaps[id + 1].obj
    BY <1>3 DEF Entries
  <1>5. obj \in Objects
    BY <1>2, <1>4 DEF Objects
  <1>6. PICK j : j = [op |-> "set", obj |-> obj, value |-> value]
    OBVIOUS
  <1>7. j \in Jobs /\ j.op = "set" /\ j.obj = obj
    BY <1>6 DEF Jobs
  <1>8. PICK when \in BOOLEAN : when <=> Deleting
    <2>1. Deleting \in BOOLEAN
      BY DEF Deleting
    <2> QED
      BY <2>1
  <1>9. Post(j, block) /\ excused' = (excused \/ when)
    BY <1>4, <1>6, <1>8 DEF SetPortMap, Excuse
  <1> QED
    BY <1>5, <1>7, <1>8, <1>9, PostKeeps

\* The commands of the program.
LEMMA CommandsKeep ==
    ASSUME IInv, IInv', NatIInv, Commands
    PROVE  NatIInv'
  <1>1. excused \in BOOLEAN
    BY DEF NatIInv, NatTypes
  <1>2. ASSUME NEW j \in Jobs, NEW block \in BOOLEAN, Post(j, block), UNCHANGED excused,
               j.op # "set"
        PROVE  NatIInv'
    <2>1. PICK when \in BOOLEAN : when = FALSE
      OBVIOUS
    <2>2. excused' = (excused \/ when)
      BY <1>1, <1>2, <2>1
    <2>3. j.op = "set" => j.obj \in Objects /\ (Deleting => when)
      BY <1>2
    <2>4. Post(j, block)
      BY <1>2
    <2> QED
      BY <2>2, <2>3, <2>4, PostKeeps
  <1>3. ASSUME NEW block \in BOOLEAN, StartNAT(block) \/ UpdateNAT(block)
        PROVE  NatIInv'
    <2>1. PICK j : j = [op |-> "update"]
      OBVIOUS
    <2>2. j \in Jobs /\ j.op # "set"
      BY <2>1 DEF Jobs
    <2>3. Post(j, block) /\ UNCHANGED excused
      BY <1>3, <2>1 DEF StartNAT, UpdateNAT
    <2> QED
      BY <1>2, <2>2, <2>3
  <1>4. ASSUME NEW block \in BOOLEAN, NEW key \in Keys, NEW value \in Values,
               AddPortMap(key, value, block)
        PROVE  NatIInv'
    <2>1. PICK j : j = [op |-> "add", key |-> key, value |-> value]
      OBVIOUS
    <2>2. j \in Jobs /\ j.op # "set"
      BY <2>1 DEF Jobs
    <2>3. Post(j, block) /\ UNCHANGED excused
      BY <1>4, <2>1 DEF AddPortMap
    <2> QED
      BY <1>2, <2>2, <2>3
  <1>5. ASSUME NEW block \in BOOLEAN, NEW id \in IDs, DeletePortMapA(id, block)
        PROVE  NatIInv'
    <2>1. PICK j : j = [op |-> "deleteA", id |-> id]
      OBVIOUS
    <2>2. j \in Jobs /\ j.op # "set"
      BY <2>1 DEF Jobs
    <2>3. PICK when \in BOOLEAN : when <=> Deleting
      <3>1. Deleting \in BOOLEAN
        BY DEF Deleting
      <3> QED
        BY <3>1
    <2>4. Post(j, block) /\ excused' = (excused \/ when)
      BY <1>5, <2>1, <2>3 DEF DeletePortMapA, Excuse
    <2> QED
      BY <2>2, <2>4, PostKeeps
  <1>6. ASSUME NEW block \in BOOLEAN, NEW key \in Keys, DeletePortMapB(key, block)
        PROVE  NatIInv'
    <2>1. PICK j : j = [op |-> "deleteB", key |-> key]
      OBVIOUS
    <2>2. j \in Jobs /\ j.op # "set"
      BY <2>1 DEF Jobs
    <2>3. Post(j, block) /\ UNCHANGED excused
      BY <1>6, <2>1 DEF DeletePortMapB
    <2> QED
      BY <1>2, <2>2, <2>3
  <1>7. ASSUME NEW block \in BOOLEAN, NEW id \in IDs, NEW value \in Values,
               SetPortMap(id, value, block)
        PROVE  NatIInv'
    BY <1>7, SetPortMapKeeps, NatAssumption
  <1>8. ASSUME NEW block \in BOOLEAN, NEW value \in Values, SetPortMapInternalIP(value, block)
        PROVE  NatIInv'
    <2>1. PICK id \in Nat : id = IF block THEN 1 ELSE 0
      OBVIOUS
    <2>2. SetPortMap(id, value, block)
      BY <1>8, <2>1 DEF SetPortMapInternalIP
    <2> QED
      BY <2>2, SetPortMapKeeps
  <1>9. ASSUME NEW key \in Keys \cup {None}, NEW n \in Nat, Read(Fetch(key, n)), Excuse(Deleting)
        PROVE  NatIInv'
    <2>1. PICK p : p = Fetch(key, n)
      OBVIOUS
    <2>2. p = None \/ (p \in Pointers /\ p.kind = "map" /\ p.obj \in Objects)
      BY <2>1, FetchFacts DEF NatIInv
    <2>3. PICK when \in BOOLEAN : when <=> Deleting
      <3>1. Deleting \in BOOLEAN
        BY DEF Deleting
      <3> QED
        BY <3>1
    <2>4. Read(p) /\ excused' = (excused \/ when)
      BY <1>9, <2>1, <2>3 DEF Excuse
    <2> QED
      BY <2>2, <2>3, <2>4, ReadKeeps
  <1>10. CASE \E id \in IDs : GetPortMap(id)
    <2>1. PICK id \in IDs : GetPortMap(id)
      BY <1>10
    <2>2. Read(Fetch(None, id)) /\ Excuse(Deleting) /\ id \in Nat
      BY <2>1, NatAssumption DEF GetPortMap
    <2>3. None \in Keys \cup {None}
      OBVIOUS
    <2> QED
      BY <1>9, <2>2, <2>3
  <1>11. CASE \E key \in Keys : FindPortMap(key)
    <2>1. PICK key \in Keys : FindPortMap(key)
      BY <1>11
    <2>2. Read(Fetch(key, 0)) /\ Excuse(Deleting) /\ 0 \in Nat /\ key \in Keys \cup {None}
      BY <2>1 DEF FindPortMap
    <2> QED
      BY <1>9, <2>2
  <1>12. CASE PollNAT
    <2>1. PICK n \in Nat : n = errors
      BY DEF NatIInv, MapsKnown
    <2>2. PICK p : p = [kind |-> "error", obj |-> n]
      OBVIOUS
    <2>3. p \in Pointers /\ p.kind = "error" /\ p.obj = errors
      BY <2>1, <2>2 DEF Pointers
    <2>4. PICK when \in BOOLEAN : when <=> \E i \in Items : job[i] # None
      <3>1. (\E i \in Items : job[i] # None) \in BOOLEAN
        OBVIOUS
      <3> QED
        BY <3>1
    <2>5. Read(p) /\ excused' = (excused \/ when)
      BY <1>12, <2>1, <2>2, <2>4 DEF PollNAT, Excuse
    <2> QED
      BY <2>3, <2>4, <2>5, ReadKeeps
  <1>13. CASE WaitUntilLastActionFinished
    BY <1>13, WaitKeeps DEF WaitUntilLastActionFinished, Outside
  <1>14. CASE FinishNAT
    <2>1. pointer = None
      BY <1>14 DEF FinishNAT, Outside, NatIInv, PointerAlive
    <2> QED
      BY <1>14, <2>1, WaitKeeps DEF FinishNAT, TerminateFriendly
  <1>15. CASE \E block \in BOOLEAN :
         \/ StartNAT(block)
         \/ UpdateNAT(block)
         \/ \E key \in Keys, value \in Values : AddPortMap(key, value, block)
         \/ \E id \in IDs : DeletePortMapA(id, block)
         \/ \E key \in Keys : DeletePortMapB(key, block)
         \/ \E id \in IDs, value \in Values : SetPortMap(id, value, block)
         \/ \E value \in Values : SetPortMapInternalIP(value, block)
    BY <1>3, <1>4, <1>5, <1>6, <1>7, <1>8, <1>15
  <1> QED
    BY <1>10, <1>11, <1>12, <1>13, <1>14, <1>15 DEF Commands

-------------------------------------------------------------------------------
\* The end of an action, whatever it did to the port maps: an action that deletes some is
\* before every message that sets one, so it is not in hand while such a message waits.
LEMMA EndKeeps ==
    ASSUME IInv, NatIInv, Ends, UNCHANGED readVars,
           MapsKnown', stale' \/ Copied', fault' \in BOOLEAN, fault' => excused,
           Has(threadItem, DeletingOps) \/ Objects \subseteq Objects',
           job[threadItem] = None => errors' = errors
    PROVE  NatIInv'
  <1>1. /\ threadPC = "act" /\ threadPC' = "decide"
        /\ UNCHANGED <<queue, posted, ready, senderPC, posting, threadItem>>
        /\ UNCHANGED <<blocking, pointer, excused>>
    BY DEF Ends, TakeAction, senderVars, readVars
  <1>2. PICK t \in Items : t = threadItem
    BY <1>1 DEF IInv, ThreadUse
  <1>3. job' = [job EXCEPT ![t] = None] /\ job \in [Items -> Jobs \cup {None}]
    BY <1>2 DEF Ends, NatIInv, NatTypes
  <1>4. /\ job'[t] = None
        /\ \A i \in Items : i # t => job'[i] = job[i]
    BY <1>3
  <1>5. t \notin QueuedItems /\ ~Coming(t)
    BY <1>1, <1>2 DEF IInv, ThreadUse, Posting, Coming
  <1>6. /\ QueuedItems' = QueuedItems
        /\ \A i \in Items : (InHand(i) <=> i = t) /\ ~InHand(i)' /\ (Coming(i)' <=> Coming(i))
    BY <1>1, <1>2 DEF QueuedItems, InHand, Coming, Preparing
  <1>7. NatTypes'
    BY <1>1, <1>3 DEF NatIInv, NatTypes
  <1>8. JobsKnown'
    <2>1. JobsKnown /\ Shutdown \in Items /\ \A m \in Messages : m \in Items
      BY DEF NatIInv, Items
    <2>2. job'[Shutdown] = None
      BY <1>4, <2>1 DEF JobsKnown
    <2>3. ASSUME NEW m \in Messages
          PROVE  job'[m] # None <=> InHand(m)' \/ m \in QueuedItems' \/ Coming(m)'
      BY <1>4, <1>5, <1>6, <2>1 DEF JobsKnown
    <2> QED
      BY <1>1, <2>1, <2>2, <2>3 DEF JobsKnown
  <1>9. \A d, i \in Items : i # t /\ After(d, i) => After(d, i)'
    BY <1>1, <1>6 DEF After
  <1>10. \A i \in Items : i # t => ~After(t, i)
    <2>1. \A n \in 1..Len(queue) : queue[n] # t
      BY <1>5 DEF QueuedItems
    <2> QED
      BY <1>5, <2>1 DEF After
  <1>11. SetsAlive'
    <2> SUFFICES ASSUME ~excused', NEW i \in Items, Has(i, {"set"})'
                 PROVE  /\ job'[i].obj \in Objects'
                        /\ \A d \in Items : Has(d, DeletingOps)' => After(d, i)'
      BY DEF SetsAlive
    <2>1. i # t /\ job'[i] = job[i] /\ Has(i, {"set"})
      BY <1>4 DEF Has
    <2>2. /\ job[i].obj \in Objects
          /\ \A d \in Items : Has(d, DeletingOps) => After(d, i)
      BY <1>1, <2>1 DEF NatIInv, SetsAlive
    <2>3. Objects \subseteq Objects'
      BY <1>2, <1>10, <2>1, <2>2
    <2>4. \A d \in Items : Has(d, DeletingOps)' => Has(d, DeletingOps)
      BY <1>4 DEF Has
    <2> QED
      BY <1>9, <2>1, <2>2, <2>3, <2>4
  <1>12. PointerAlive'
    <2>1. PointerAlive
      BY DEF NatIInv
    <2>2. Deleting' => Deleting
      BY <1>4 DEF Deleting
    <2>3. ASSUME pointer # None, pointer.kind = "map", ~excused
          PROVE  ~Deleting' /\ pointer.obj \in Objects'
      <3>1. ~Deleting /\ pointer.obj \in Objects
        BY <2>1, <2>3 DEF PointerAlive
      <3>2. ~Has(t, DeletingOps)
        BY <3>1 DEF Has, DeletingOps, Deleting
      <3> QED
        BY <1>2, <2>2, <3>1, <3>2
    <2>4. ASSUME pointer # None, pointer.kind = "error", ~excused
          PROVE  (\A i \in Items : job'[i] = None) /\ pointer.obj = errors'
      BY <1>2, <1>4, <2>1, <2>4 DEF PointerAlive
    <2> QED
      BY <1>1, <2>1, <2>3, <2>4 DEF PointerAlive
  <1>13. fault' => excused'
    BY <1>1
  <1> QED
    BY <1>7, <1>8, <1>11, <1>12, <1>13 DEF NatIInv

\* The message that the thread acts on has its job.
LEMMA NatTakeActionKeeps ==
    ASSUME IInv, NatIInv, NatTakeAction
    PROVE  NatIInv'
  <1>1. Ends /\ UNCHANGED readVars /\ threadPC = "act"
    BY DEF NatTakeAction, Ends, TakeAction
  <1>2. PICK t \in Items : t = threadItem
    BY <1>1 DEF IInv, ThreadUse
  <1>3. MapsKnown /\ (stale \/ Copied) /\ fault \in BOOLEAN /\ excused \in BOOLEAN /\ (fault => excused)
    BY <1>1 DEF NatIInv, NatTypes
  <1>4. CASE threadItem = Shutdown
    <2>1. UNCHANGED <<portMaps, collection, made, router, stale, errors, fault>>
      BY <1>4 DEF NatTakeAction, copyVars
    <2>2. MapsKnown' /\ Objects' = Objects /\ (stale' \/ Copied')
      BY <1>3, <2>1 DEF MapsKnown, Objects, Copied, Mapped
    <2> QED
      BY <1>1, <1>3, <2>1, <2>2, EndKeeps
  <1>5. CASE threadItem # Shutdown
    <2>1. PICK j : j = job[t]
      OBVIOUS
    <2>2. t \in Messages /\ InHand(t)
      BY <1>1, <1>2, <1>5 DEF Items, InHand
    <2>3. j # None /\ j \in Jobs
      BY <1>2, <2>1, <2>2 DEF NatIInv, NatTypes, JobsKnown
    <2>4. ActOn(j) /\ (NeedsCollection(j) => collection)
      BY <1>2, <1>5, <2>1 DEF NatTakeAction
    <2>5. job[threadItem] # None /\ (j.op \in DeletingOps => Has(threadItem, DeletingOps))
      BY <1>2, <2>1, <2>3 DEF Has
    <2>6. ASSUME UNCHANGED fault, MapsKnown', stale' \/ Copied',
                 j.op \in DeletingOps \/ Objects \subseteq Objects'
          PROVE  NatIInv'
      BY <1>1, <1>3, <2>5, <2>6, EndKeeps
    <2>7. CASE j.op = "update" /\ UpdateInfo /\ UNCHANGED fault
      BY <1>3, <2>6, <2>7, UpdateInfoKeeps DEF DeletingOps
    <2>8. CASE j.op = "add" /\ AddToCollection(j.key, j.value) /\ UNCHANGED fault
      <3>1. j.key \in Keys /\ j.value \in Values
        BY <2>3, <2>8 DEF Jobs
      <3>2. PICK key \in Keys, value \in Values : key = j.key /\ value = j.value
        BY <3>1
      <3>3. collection
        BY <2>3, <2>4, <2>8 DEF NeedsCollection
      <3>4. AddToCollection(key, value)
        BY <2>8, <3>2
      <3>5. MapsKnown' /\ (stale' \/ Copied') /\ Objects \subseteq Objects'
        BY <1>3, <3>3, <3>4, AddKeeps
      <3> QED
        BY <2>6, <2>8, <3>5
    <2>9. CASE j.op = "deleteA" /\ DeleteByID(j.id) /\ UNCHANGED fault
      <3>1. j.id \in Nat
        BY <2>3, <2>9, NatAssumption DEF Jobs
      <3>2. PICK id \in Nat : id = j.id
        BY <3>1
      <3>3. collection
        BY <2>3, <2>4, <2>9 DEF NeedsCollection
      <3>4. DeleteByID(id)
        BY <2>9, <3>2
      <3>5. MapsKnown' /\ (stale' \/ Copied')
        BY <1>3, <3>3, <3>4, DeleteByIDKeeps
      <3> QED
        BY <2>6, <2>9, <3>5 DEF DeletingOps
    <2>10. CASE j.op = "deleteB" /\ TakeDeleteB(j.key) /\ UNCHANGED fault
      <3>1. j.key \in Keys
        BY <2>3, <2>10 DEF Jobs
      <3>2. PICK key \in Keys : key = j.key
        BY <3>1
      <3>3. collection
        BY <2>3, <2>4, <2>10 DEF NeedsCollection
      <3>4. TakeDeleteB(key)
        BY <2>10, <3>2
      <3>5. CASE DeleteByKey(key)
        <4>1. MapsKnown' /\ (stale' \/ Copied')
          BY <1>3, <3>3, <3>5, DeleteByKeyKeeps
        <4> QED
          BY <2>6, <2>10, <4>1 DEF DeletingOps
      <3>6. CASE \E id \in 0..Len(portMaps) : DeleteByID(id)
        <4>1. PICK size \in Nat : size = Len(portMaps)
          BY <1>3 DEF MapsKnown
        <4>2. PICK id \in 0..size : DeleteByID(id)
          BY <3>6, <4>1
        <4>3. id \in Nat
          BY <4>2
        <4>4. MapsKnown' /\ (stale' \/ Copied')
          BY <1>3, <3>3, <4>2, <4>3, DeleteByIDKeeps
        <4> QED
          BY <2>6, <2>10, <4>4 DEF DeletingOps
      <3> QED
        BY <3>4, <3>5, <3>6 DEF TakeDeleteB
    <2>11. CASE j.op = "set" /\ SetInRouter(j.obj, j.value) /\ UNCHANGED fault
      <3>1. j.value \in Values
        BY <2>3, <2>11 DEF Jobs
      <3>2. PICK value \in Values : value = j.value
        BY <3>1
      <3>3. PICK obj : obj = j.obj
        OBVIOUS
      <3>4. SetInRouter(obj, value)
        BY <2>11, <3>2, <3>3
      <3>5. MapsKnown' /\ (stale' \/ Copied') /\ Objects \subseteq Objects'
        BY <1>3, <3>4, SetKeeps
      <3> QED
        BY <2>6, <2>11, <3>5
    <2>12. CASE /\ j.op = "set" /\ j.obj \notin Objects
                /\ fault' = TRUE
                /\ UNCHANGED <<copyVars, errors>>
      <3>1. UNCHANGED <<portMaps, collection, made, router, stale, errors>>
        BY <2>12 DEF copyVars
      <3>2. MapsKnown' /\ Objects' = Objects /\ (stale' \/ Copied')
        BY <1>3, <3>1 DEF MapsKnown, Objects, Copied, Mapped
      <3>3. Has(t, {"set"}) /\ job[t].obj \notin Objects
        BY <2>1, <2>3, <2>12 DEF Has
      <3>4. excused
        BY <3>3 DEF NatIInv, SetsAlive
      <3>5. fault' \in BOOLEAN /\ (fault' => excused)
        BY <2>12, <3>4
      <3> QED
        BY <1>1, <2>5, <3>2, <3>5, EndKeeps
    <2> QED
      BY <2>4, <2>7, <2>8, <2>9, <2>10, <2>11, <2>12 DEF ActOn
  <1> QED
    BY <1>4, <1>5

\* Where there is no collection there is no port map to be lost by fetching one.
LEMMA ValidatePortMapCollectionKeeps ==
    ASSUME IInv, NatIInv, ValidatePortMapCollection
    PROVE  NatIInv'
  <1>1. /\ threadPC = "act" /\ ~collection /\ UpdateInfo
        /\ UNCHANGED <<blocking, pointer, excused, fault>>
        /\ UNCHANGED readVars /\ job[threadItem] # None
    BY DEF ValidatePortMapCollection, readVars, NeedsCollection
  <1>2. MapsKnown' /\ (stale' \/ Copied')
    BY <1>1, UpdateInfoKeeps DEF NatIInv
  <1>3. Objects = {}
    <2>1. portMaps = <<>>
      BY <1>1 DEF NatIInv, MapsKnown
    <2>2. Len(portMaps) = 0
      BY <2>1
    <2> QED
      BY <2>2 DEF Objects
  <1>4. fault \in BOOLEAN /\ (fault => excused)
    BY DEF NatIInv, NatTypes
  <1>5. CASE Ends
    BY <1>1, <1>2, <1>3, <1>4, <1>5, EndKeeps
  <1>6. CASE UNCHANGED <<vars, job>>
    <2>1. /\ UNCHANGED <<queue, posted, ready, threadPC, threadItem, senderPC, posting>>
          /\ job' = job
      BY <1>6 DEF vars, senderVars, threadVars
    <2>2. /\ QueuedItems' = QueuedItems
          /\ \A i \in Items : (InHand(i)' <=> InHand(i)) /\ (Coming(i)' <=> Coming(i))
      BY <2>1 DEF QueuedItems, InHand, Coming, Preparing
    <2>3. NatTypes'
      BY <1>1, <2>1 DEF NatIInv, NatTypes
    <2>4. JobsKnown'
      <3>1. \A m \in Messages : m \in Items
        BY DEF Items
      <3> QED
        BY <2>1, <2>2, <3>1 DEF NatIInv, JobsKnown
    <2>5. SetsAlive'
      <3>1. \A d, i \in Items : After(d, i) => After(d, i)'
        BY <2>1, <2>2 DEF After
      <3>2. SetsAlive
        BY DEF NatIInv
      <3> QED
        BY <1>1, <1>3, <2>1, <3>1, <3>2 DEF SetsAlive, Has
    <2>6. PointerAlive'
      <3>1. PointerAlive
        BY DEF NatIInv
      <3>2. threadItem \in Items
        BY <1>1 DEF IInv, ThreadUse
      <3>3. pointer # None /\ ~excused => pointer.kind # "map" /\ pointer.kind # "error"
        BY <1>1, <1>3, <3>1, <3>2 DEF PointerAlive
      <3> QED
        BY <1>1, <2>1, <3>1, <3>3 DEF PointerAlive
    <2>7. fault' => excused'
      BY <1>1, <1>4
    <2> QED
      BY <1>2, <2>3, <2>4, <2>5, <2>6, <2>7 DEF NatIInv
  <1> QED
    BY <1>5, <1>6 DEF ValidatePortMapCollection

\* When the thread ends nothing is left to be done, and no command can read.
LEMMA NatThreadExitKeeps ==
    ASSUME IInv, NatIInv, NatThreadExit
    PROVE  NatIInv'
  <1>1. /\ threadPC = "exit" /\ threadPC' = "exited"
        /\ UNCHANGED <<queue, posted, ready, senderPC, posting, threadItem>>
        /\ UNCHANGED <<job, made, router, errors, stale, blocking, pointer, excused, fault>>
        /\ portMaps' = <<>> /\ collection' = FALSE
    BY DEF NatThreadExit, ThreadExit, senderVars, readVars
  <1>2. queue = <<>> /\ senderPC \in {"waitExit", "unwind", "done"}
    BY <1>1 DEF IInv, Stopping
  <1>3. pointer = None
    BY <1>2 DEF NatIInv, PointerAlive
  <1>4. QueuedItems = {} /\ QueuedItems' = {}
    BY <1>1, <1>2 DEF QueuedItems
  <1>5. \A i \in Items : ~InHand(i) /\ ~InHand(i)' /\ ~Coming(i) /\ ~Coming(i)'
    BY <1>1, <1>2 DEF InHand, Coming, Preparing
  <1>6. \A i \in Items : job[i] = None
    <2>1. JobsKnown
      BY DEF NatIInv
    <2> QED
      BY <1>4, <1>5, <2>1 DEF JobsKnown, Items
  <1>7. NatTypes'
    BY <1>1 DEF NatIInv, NatTypes
  <1>8. MapsKnown'
    <2>1. <<>> \in Seq(Entries)
      OBVIOUS
    <2> QED
      BY <1>1, <2>1 DEF NatIInv, MapsKnown
  <1>9. JobsKnown'
    <2>1. Shutdown \in Items /\ \A m \in Messages : m \in Items
      BY DEF Items
    <2>2. JobsKnown
      BY DEF NatIInv
    <2> QED
      BY <1>1, <1>4, <1>5, <1>6, <2>1, <2>2 DEF JobsKnown
  <1>10. SetsAlive'
    BY <1>1, <1>6 DEF SetsAlive, Has
  <1>11. PointerAlive'
    BY <1>1, <1>3 DEF PointerAlive
  <1>12. fault' => excused'
    BY <1>1 DEF NatIInv
  <1> QED
    BY <1>1, <1>7, <1>8, <1>9, <1>10, <1>11, <1>12 DEF NatIInv

-------------------------------------------------------------------------------
\* Whatever the messages do, the threads only take steps of ThreadMessage.
LEMMA NatSteps == [NatNext]_allVars => [Next]_vars
  <1>1. ASSUME NEW j, NEW block, Post(j, block)
        PROVE  Next
    <2>1. PICK i : i = CHOOSE m \in Messages : life[m] = "unborn"
      OBVIOUS
    <2>2. BeginPost(i) /\ i \in Messages
      BY <1>1, <2>1 DEF Post
    <2> QED
      BY <2>2 DEF Next, PostAction
  <1>2. CASE NatSender
    BY <1>2 DEF NatSender, UsePortMap, RethrowError, Next
  <1>3. CASE Commands
    <2>1. \/ \E block \in BOOLEAN : StartNAT(block) \/ UpdateNAT(block)
          \/ \E block \in BOOLEAN, key \in Keys, value \in Values : AddPortMap(key, value, block)
          \/ \E block \in BOOLEAN, id \in IDs : DeletePortMapA(id, block)
          \/ \E block \in BOOLEAN, key \in Keys : DeletePortMapB(key, block)
          => Next
      BY <1>1 DEF StartNAT, UpdateNAT, AddPortMap, DeletePortMapA, DeletePortMapB
    <2>2. \A id, value, block : SetPortMap(id, value, block) => Next
      BY <1>1 DEF SetPortMap
    <2>3. \A value, block : SetPortMapInternalIP(value, block) => Next
      BY <2>2 DEF SetPortMapInternalIP
    <2>4. \/ \E id \in IDs : GetPortMap(id)
          \/ \E key \in Keys : FindPortMap(key)
          \/ PollNAT
          => UNCHANGED vars
      BY DEF GetPortMap, FindPortMap, PollNAT, Read
    <2>5. WaitUntilLastActionFinished \/ FinishNAT => Next
      BY DEF WaitUntilLastActionFinished, FinishNAT, Next
    <2> QED
      BY <1>3, <2>1, <2>2, <2>3, <2>4, <2>5 DEF Commands
  <1>4. CASE NatThread
    <2>1. Ends => Next
      BY DEF Ends, Next, ThreadSteps
    <2>2. ValidatePortMapCollection => UNCHANGED vars \/ Ends
      BY DEF ValidatePortMapCollection
    <2>3. NatTakeAction => Ends
      BY DEF NatTakeAction
    <2>4. NatThreadExit => Next
      BY DEF NatThreadExit, Next, ThreadSteps
    <2> QED
      BY <1>4, <2>1, <2>2, <2>3, <2>4 DEF NatThread, Next
  <1>5. CASE UNCHANGED allVars
    BY <1>5 DEF allVars
  <1> QED
    BY <1>2, <1>3, <1>4, <1>5 DEF NatNext

\* NAT starts with no message, no copy, and some port maps in the router.
LEMMA NatInitIInv == NatInit => IInv /\ NatIInv
  <1> SUFFICES ASSUME NatInit
               PROVE  IInv /\ NatIInv
    OBVIOUS
  <1>1. Init /\ IInv
    BY InitIInv DEF NatInit
  <1>2. NatTypes
    BY DEF NatInit, NatTypes
  <1>3. MapsKnown
    <2>1. DOMAIN router = Keys /\ \A k \in Keys : router[k] \in Held
      BY NatAssumption DEF NatInit, Held
    <2>2. <<>> \in Seq(Entries)
      OBVIOUS
    <2> QED
      BY <2>1, <2>2 DEF NatInit, MapsKnown
  <1>4. /\ QueuedItems = {} /\ posted = <<>> /\ ~Preparing
        /\ \A i \in Items : job[i] = None /\ ~InHand(i) /\ ~Coming(i)
    BY <1>1 DEF NatInit, Init, QueuedItems, Preparing, InHand, Coming
  <1>5. JobsKnown
    BY <1>4 DEF JobsKnown, Items
  <1>6. SetsAlive
    BY <1>4 DEF SetsAlive, Has
  <1>7. PointerAlive
    BY DEF NatInit, PointerAlive
  <1> QED
    BY <1>1, <1>2, <1>3, <1>5, <1>6, <1>7 DEF NatIInv, NatInit

\* Every step of the program, of the thread and of the commands keeps it.
LEMMA NatNextIInv == IInv /\ NatIInv /\ [NatNext]_allVars => IInv' /\ NatIInv'
  <1> SUFFICES ASSUME IInv, NatIInv, [NatNext]_allVars
               PROVE  IInv' /\ NatIInv'
    OBVIOUS
  <1>1. IInv'
    BY NatSteps, NextIInv
  <1>2. CASE NatSender
    <2>1. CASE /\ SenderSteps
               /\ blocking' = (blocking /\ senderPC # "waitLast")
               /\ UNCHANGED <<job, copyVars, errors, pointer, excused, fault>>
      BY <1>1, <2>1, SenderKeeps
    <2>2. CASE blocking /\ BeginWaitLast /\ UNCHANGED natVars
      <3>1. pointer = None
        BY <2>2 DEF NatIInv, PointerAlive
      <3> QED
        BY <1>1, <2>2, <3>1, WaitKeeps
    <2>3. CASE UsePortMap
      BY <1>1, <2>3, UsePortMapKeeps
    <2>4. CASE RethrowError
      BY <1>1, <2>4, RethrowErrorKeeps
    <2> QED
      BY <1>2, <2>1, <2>2, <2>3, <2>4 DEF NatSender
  <1>3. CASE NatThread
    BY <1>1, <1>3, ThreadKeeps, NatTakeActionKeeps, ValidatePortMapCollectionKeeps,
       NatThreadExitKeeps
       DEF NatThread
  <1>4. CASE UNCHANGED allVars
    <2>1. UNCHANGED <<job, blocking, copyVars, errors, pointer, excused, fault>>
      BY <1>4 DEF allVars, natVars, copyVars
    <2>2. UNCHANGED <<queue, posted, ready, threadPC, threadItem, senderPC, posting>>
      BY <1>4 DEF allVars, vars, senderVars, threadVars
    <2>3. \A i \in Items : (InHand(i)' <=> InHand(i)) /\ (Coming(i)' <=> Coming(i))
      BY <2>2 DEF InHand, Coming, Preparing
    <2>4. blocking' \in BOOLEAN /\ (pointer # None => senderPC' = "idle" /\ ~blocking')
      BY <2>1, <2>2 DEF NatIInv, NatTypes, PointerAlive
    <2> QED
      BY <1>1, <2>1, <2>2, <2>3, <2>4, LineKept
  <1> QED
    BY <1>1, <1>2, <1>3, <1>4, CommandsKeep DEF NatNext

\* The inductive invariant of NAT traversal: that of its message thread, and what the
\* messages, the copy of the port maps and the pointers of the commands are.
THEOREM NatInductive == NatSafe => [](IInv /\ NatIInv)
  <1>1. NatInit => IInv /\ NatIInv
    BY NatInitIInv
  <1>2. (IInv /\ NatIInv) /\ [NatNext]_allVars => (IInv /\ NatIInv)'
    BY NatNextIInv
  <1> QED
    BY <1>1, <1>2, PTL DEF NatSafe

\* The safety of the message thread holds whatever the messages do to port maps.
THEOREM NatUsesThreadMessage == NatSafe => Spec
  <1>1. NatInit => Init
    BY DEF NatInit
  <1>2. [NatNext]_allVars => [Next]_vars
    BY NatSteps
  <1> QED
    BY <1>1, <1>2, PTL DEF NatSafe, Spec

-------------------------------------------------------------------------------
\* A copy that has each port map of the router once is as long as they are many.
LEMMA CopiedFacts ==
    ASSUME MapsKnown, Copied
    PROVE  /\ Len(portMaps) = Cardinality(Mapped)
           /\ \A k \in Mapped : \E e \in ToSet(portMaps) : e.key = k /\ e.value = router[k]
  <1>1. PICK size \in Nat : size = Len(portMaps)
    BY DEF MapsKnown
  <1>2. PICK f : f = [n \in 1..size |-> portMaps[n].key]
    OBVIOUS
  <1>3. Cardinality(1..size) = size /\ IsFiniteSet(1..size)
    <2>1. 1 \in Int /\ size \in Int /\ (IF 1 > size THEN 0 ELSE size - 1 + 1) = size
      OBVIOUS
    <2> QED
      BY <2>1, FS_Interval
  <1>4. f \in Bijection(1..size, Mapped)
    <2>1. f \in [1..size -> Mapped]
      BY <1>1, <1>2 DEF Copied
    <2>2. \A m, n \in 1..size : f[m] = f[n] => m = n
      BY <1>1, <1>2 DEF Copied
    <2>3. \A k \in Mapped : \E n \in 1..size : f[n] = k
      BY <1>1, <1>2 DEF Copied
    <2> QED
      BY <2>1, <2>2, <2>3 DEF Bijection, Injection, Surjection, IsInjective
  <1>5. Cardinality(Mapped) = size
    <2>1. ExistsBijection(1..size, Mapped)
      BY <1>4 DEF ExistsBijection
    <2> QED
      BY <1>3, <2>1, FS_Bijection
  <1>6. ASSUME NEW k \in Mapped
        PROVE  \E e \in ToSet(portMaps) : e.key = k /\ e.value = router[k]
    <2>1. PICK n \in 1..size : portMaps[n].key = k
      BY <1>1 DEF Copied
    <2>2. portMaps[n].value = router[k] /\ portMaps[n] \in ToSet(portMaps)
      BY <1>1, <2>1 DEF Copied, ToSet
    <2> QED
      BY <2>1, <2>2
  <1> QED
    BY <1>1, <1>5, <1>6

\* For any number of messages, keys and values: nothing is used after the thread has
\* deleted it unless a command read it while the thread might, and the program reads
\* what the router has.
THEOREM CopyHolds == NatSafe => []CopyIsOfTheRouter
  <1>1. IInv /\ NatIInv => CopyIsOfTheRouter
    <2> SUFFICES ASSUME NatIInv
                 PROVE  CopyIsOfTheRouter
      OBVIOUS
    <2>1. fault => excused
      BY DEF NatIInv
    <2>2. ~stale /\ threadPC = "wait" => Copied
      BY DEF NatIInv
    <2>3. MapsKnown
      BY DEF NatIInv
    <2> QED
      BY <2>1, <2>2, <2>3, CopiedFacts DEF CopyIsOfTheRouter
  <1> QED
    BY <1>1, NatInductive, PTL
===============================================================================
