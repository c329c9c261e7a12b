----------------------------- MODULE ThreadMessage -----------------------------
(***************************************************************************)
(* A message thread and the one object that posts to it:                   *)
(* ThreadSingleMessageKeepLast (with ThreadSingleMessage and ThreadSingle  *)
(* below it) as UpnpNatCommunication uses it, ThreadMessageItem, and the   *)
(* loop of UpnpNatActionThread.                                            *)
(*                                                                         *)
(* A message item is a heap object that both threads touch.  Two events    *)
(* guarded by one critical section say which side still uses it, and the   *)
(* side that leaves last deletes it.  The item that asks the thread to     *)
(* stop lives on the sender's stack and goes through the same queue.       *)
(*                                                                         *)
(* The sender is the thread that owns the UpnpNatCommunication object.     *)
(* Here an action is an item whose TakeAction ran or did not; what the     *)
(* actions do is in module Nat.                                            *)
(***************************************************************************)
EXTENDS Sequences, Naturals

CONSTANTS
    Messages,  \* heap-allocated items, each posted at most once
    Shutdown,  \* terminateMessage, on the stack of TerminateFriendly
    None       \* the NULL pointer

ASSUME ItemsAssumption ==
    /\ Shutdown \notin Messages
    /\ None \notin Messages
    /\ None # Shutdown

Items == Messages \cup {Shutdown}

VARIABLES
    inUseByThread,  \* ~messageNotInUseByThread, per item
    inUseBySender,  \* ~messageNotInUseBySender, per item
    life,           \* "unborn", "live", "freed", "corrupt" (deleted again)
    lastMessage,    \* ThreadSingleMessageKeepLast::lastMessage
    queue,          \* the thread's message queue
    ready,          \* ThreadSingleMessage::threadReady
    running,        \* ThreadSingle::running
    control,        \* the UpnpNatAction object that natControls points to
    acted,          \* items whose TakeAction has run
    posted,         \* items that were put in the queue, in order
    senderPC,       \* where the sender is
    posting,        \* the item PostMessageItem is working on
    threadPC,       \* where the message thread is
    threadItem      \* the item the thread took from the queue

itemVars == <<inUseByThread, inUseBySender, life>>
senderVars == <<senderPC, posting, lastMessage>>
threadVars == <<threadPC, threadItem, ready, running, control, acted>>
vars == <<itemVars, senderVars, threadVars, queue, posted>>

SenderPCs == {"construct", "waitReady", "idle", "decide", "delete", "send",
              "waitLast", "waitExit", "unwind", "done"}
ThreadPCs == {"suspended", "start", "check", "get", "wait", "act", "decide",
              "delete", "exit", "exited"}

Init ==
    /\ inUseByThread = [i \in Items |-> FALSE]
    /\ inUseBySender = [i \in Items |-> FALSE]
    /\ life = [i \in Items |-> "unborn"]
    /\ lastMessage = None
    /\ queue = <<>>
    /\ ready = FALSE
    /\ running = TRUE
    /\ control = FALSE
    /\ acted = {}
    /\ posted = <<>>
    /\ senderPC = "construct"
    /\ posting = None
    /\ threadPC = "suspended"
    /\ threadItem = None

-------------------------------------------------------------------------------
(* ThreadMessageItem *)

\* delete, or the end of the scope of a stack item.  The destructor waits for
\* both events before the storage goes away.
Delete(i) ==
    /\ ~inUseByThread[i]
    /\ ~inUseBySender[i]
    /\ life' = [life EXCEPT ![i] = IF @ = "live" THEN "freed" ELSE "corrupt"]

\* Mutated forms of the decision: the thread always deletes, the thread never
\* deletes, the sender does not look whether the thread has finished.
ShouldThreadCleanupAlways(i) ==
    /\ threadPC' = "delete"
    /\ inUseByThread' = [inUseByThread EXCEPT ![i] = FALSE]

ShouldThreadCleanupNever(i) ==
    /\ threadPC' = "check"
    /\ inUseByThread' = [inUseByThread EXCEPT ![i] = FALSE]

ShouldSenderCleanupUnchecked(i) ==
    /\ senderPC' = "delete"
    /\ inUseBySender' = [inUseBySender EXCEPT ![i] = FALSE]

\* The two sides' decision, each under mtEventObjects: look at the other side's
\* event, then signal your own.
ShouldThreadCleanup(i) ==
    /\ threadPC' = IF inUseBySender[i] THEN "check" ELSE "delete"
    /\ inUseByThread' = [inUseByThread EXCEPT ![i] = FALSE]

ShouldSenderCleanup(i) ==
    /\ senderPC' = IF inUseByThread[i] THEN "send" ELSE "delete"
    /\ inUseBySender' = [inUseBySender EXCEPT ![i] = FALSE]

-------------------------------------------------------------------------------
(* The sender: UpnpNatCommunication and ThreadSingleMessageKeepLast *)

\* The constructor resumes the thread and waits until it can take messages.
Construct ==
    /\ senderPC = "construct"
    /\ senderPC' = "waitReady"
    /\ threadPC' = "start"
    /\ UNCHANGED <<itemVars, posting, lastMessage, threadItem, ready, running,
                   control, acted, queue, posted>>

WaitForThreadToBeReady ==
    /\ senderPC = "waitReady"
    /\ ready
    /\ senderPC' = "idle"
    /\ UNCHANGED <<itemVars, posting, lastMessage, threadVars, queue, posted>>

\* The first step of PostMessageItem, for a new item: only a previous message
\* has to be given up before the new one takes its place.
BeginPost(i) ==
    /\ senderPC = "idle"
    /\ life[i] = "unborn"
    /\ life' = [life EXCEPT ![i] = "live"]
    /\ posting' = i
    /\ senderPC' = IF lastMessage = None THEN "send" ELSE "decide"
    /\ UNCHANGED <<inUseByThread, inUseBySender, lastMessage, threadVars, queue,
                   posted>>

\* AddPortMap, DeletePortMap, SetEnabled, SetDescription, UpdateInfo, ...
PostAction == \E m \in Messages : BeginPost(m)

\* CleanupLastMessage: release the previous message ...
CleanupLastMessage ==
    /\ senderPC = "decide"
    /\ ShouldSenderCleanup(lastMessage)
    /\ UNCHANGED <<inUseByThread, life, posting, lastMessage, threadVars, queue,
                   posted>>

\* ... and delete it when the thread has finished with it.
DeleteLastMessage ==
    /\ senderPC = "delete"
    /\ Delete(lastMessage)
    /\ lastMessage' = None
    /\ senderPC' = "send"
    /\ UNCHANGED <<inUseByThread, inUseBySender, posting, threadVars, queue,
                   posted>>

SendMessageThreadNotMarked ==
    /\ senderPC = "send"
    /\ ready
    /\ lastMessage' = posting
    /\ inUseBySender' = [inUseBySender EXCEPT ![posting] = TRUE]
    /\ queue' = Append(queue, posting)
    /\ posted' = Append(posted, posting)
    /\ senderPC' = IF posting = Shutdown THEN "waitExit" ELSE "idle"
    /\ UNCHANGED <<inUseByThread, life, posting, threadVars>>

\* Remember the new message as the last one, mark it used by both sides and
\* hand it to the thread.
SendMessage ==
    /\ senderPC = "send"
    /\ ready
    /\ lastMessage' = posting
    /\ inUseByThread' = [inUseByThread EXCEPT ![posting] = TRUE]
    /\ inUseBySender' = [inUseBySender EXCEPT ![posting] = TRUE]
    /\ queue' = Append(queue, posting)
    /\ posted' = Append(posted, posting)
    /\ senderPC' = IF posting = Shutdown THEN "waitExit" ELSE "idle"
    /\ UNCHANGED <<life, posting, threadVars>>

\* WaitUntilLastActionFinished
BeginWaitLast ==
    /\ senderPC = "idle"
    /\ lastMessage # None
    /\ senderPC' = "waitLast"
    /\ UNCHANGED <<itemVars, posting, lastMessage, threadVars, queue, posted>>

EndWaitLast ==
    /\ senderPC = "waitLast"
    /\ ~inUseByThread[lastMessage]
    /\ senderPC' = "idle"
    /\ UNCHANGED <<itemVars, posting, lastMessage, threadVars, queue, posted>>

\* TerminateFriendly, called by the destructor: post the stack item, wait for
\* the thread to exit, take the item back ...
TerminateFriendly == BeginPost(Shutdown)

WaitForThreadToExit ==
    /\ senderPC = "waitExit"
    /\ threadPC = "exited"
    /\ inUseByThread' = [inUseByThread EXCEPT ![Shutdown] = FALSE]
    /\ inUseBySender' = [inUseBySender EXCEPT ![Shutdown] = FALSE]
    /\ running' = FALSE
    /\ senderPC' = "unwind"
    /\ UNCHANGED <<life, posting, lastMessage, threadPC, threadItem, ready,
                   control, acted, queue, posted>>

\* ... and leave its scope.
FinishTerminate ==
    /\ senderPC = "unwind"
    /\ Delete(Shutdown)
    /\ lastMessage' = None
    /\ senderPC' = "done"
    /\ UNCHANGED <<inUseByThread, inUseBySender, posting, threadVars, queue,
                   posted>>

-------------------------------------------------------------------------------
(* The message thread: UpnpNatActionThread *)

\* The thread builds the UpnpNatAction object before it looks at its queue.
ThreadStart ==
    /\ threadPC = "start"
    /\ threadPC' = "check"
    /\ control' = TRUE
    /\ UNCHANGED <<itemVars, senderVars, threadItem, ready, running, acted, queue,
                   posted>>

\* The constructor of UpnpNatAction threw: the thread ends, and nobody is ever
\* told that it will not become ready.
ThreadStartFails ==
    /\ threadPC = "start"
    /\ threadPC' = "exited"
    /\ UNCHANGED <<itemVars, senderVars, threadItem, ready, running, control,
                   acted, queue, posted>>

\* GetTerminateRequest: no message left and asked to stop.
GetTerminateRequest == queue = <<>> /\ ~running

CheckTerminate ==
    /\ threadPC = "check"
    /\ threadPC' = IF GetTerminateRequest THEN "exit" ELSE "get"
    /\ UNCHANGED <<itemVars, senderVars, threadItem, ready, running, control,
                   acted, queue, posted>>

\* GetMessageItem creates the queue on its first call, then blocks.
SetReady ==
    /\ threadPC = "get"
    /\ threadPC' = "wait"
    /\ ready' = TRUE
    /\ UNCHANGED <<itemVars, senderVars, threadItem, running, control, acted,
                   queue, posted>>

\* Mutated form of GetMessageItem: the newest message is served first.
GetMessageItemNewest ==
    /\ threadPC = "wait"
    /\ queue # <<>>
    /\ threadItem' = queue[Len(queue)]
    /\ queue' = SubSeq(queue, 1, Len(queue) - 1)
    /\ threadPC' = "act"
    /\ UNCHANGED <<itemVars, senderVars, ready, running, control, acted, posted>>

GetMessageItem ==
    /\ threadPC = "wait"
    /\ queue # <<>>
    /\ threadItem' = Head(queue)
    /\ queue' = Tail(queue)
    /\ threadPC' = "act"
    /\ UNCHANGED <<itemVars, senderVars, ready, running, control, acted, posted>>

\* Mutated forms of TakeAction: the stop request is not recorded, an action that
\* throws ends the thread.
TakeActionNoStop ==
    /\ threadPC = "act"
    /\ threadPC' = "decide"
    /\ acted' = acted \cup {threadItem}
    /\ UNCHANGED <<itemVars, senderVars, threadItem, ready, running, control,
                   queue, posted>>

TakeActionThrowEndsThread ==
    /\ threadPC = "act"
    /\ threadPC' \in {"decide", "exited"}
    /\ acted' = acted \cup {threadItem}
    /\ running' = (running /\ threadItem # Shutdown)
    /\ UNCHANGED <<itemVars, senderVars, threadItem, ready, control, queue, posted>>

\* TakeAction of an action, whether it threw or not (the error is stored and the
\* loop goes on), or of ThreadMessageItemShutdown, which asks the thread to stop.
TakeAction ==
    /\ threadPC = "act"
    /\ threadPC' = "decide"
    /\ acted' = acted \cup {threadItem}
    /\ running' = (running /\ threadItem # Shutdown)
    /\ UNCHANGED <<itemVars, senderVars, threadItem, ready, control, queue, posted>>

ThreadDecide ==
    /\ threadPC = "decide"
    /\ ShouldThreadCleanup(threadItem)
    /\ UNCHANGED <<inUseBySender, life, senderVars, threadItem, ready, running,
                   control, acted, queue, posted>>

ThreadDelete ==
    /\ threadPC = "delete"
    /\ Delete(threadItem)
    /\ threadPC' = "check"
    /\ UNCHANGED <<inUseByThread, inUseBySender, senderVars, threadItem, ready,
                   running, control, acted, queue, posted>>

\* Out of the loop: delete the UpnpNatAction object and return.
ThreadExit ==
    /\ threadPC = "exit"
    /\ threadPC' = "exited"
    /\ control' = FALSE
    /\ UNCHANGED <<itemVars, senderVars, threadItem, ready, running, acted, queue,
                   posted>>

-------------------------------------------------------------------------------
SenderSteps ==
    \/ Construct
    \/ WaitForThreadToBeReady
    \/ CleanupLastMessage
    \/ DeleteLastMessage
    \/ SendMessage
    \/ EndWaitLast
    \/ WaitForThreadToExit
    \/ FinishTerminate

ThreadSteps ==
    \/ ThreadStart
    \/ ThreadStartFails
    \/ CheckTerminate
    \/ SetReady
    \/ GetMessageItem
    \/ TakeAction
    \/ ThreadDecide
    \/ ThreadDelete
    \/ ThreadExit

Next ==
    \/ SenderSteps
    \/ PostAction
    \/ BeginWaitLast
    \/ TerminateFriendly
    \/ ThreadSteps

\* Both threads are scheduled, so a step that stays possible is taken.  What the
\* program decides to call (PostAction, BeginWaitLast, TerminateFriendly) is not
\* forced.
Fairness == WF_vars(SenderSteps) /\ WF_vars(ThreadSteps)

Spec == Init /\ [][Next]_vars

FairSpec == Spec /\ Fairness

-------------------------------------------------------------------------------
(* Properties *)

\* Every variable holds a value of its type.
TypeOK ==
    /\ inUseByThread \in [Items -> BOOLEAN]
    /\ inUseBySender \in [Items -> BOOLEAN]
    /\ life \in [Items -> {"unborn", "live", "freed", "corrupt"}]
    /\ lastMessage \in Items \cup {None}
    /\ queue \in Seq(Items)
    /\ posted \in Seq(Items)
    /\ ready \in BOOLEAN
    /\ running \in BOOLEAN
    /\ control \in BOOLEAN
    /\ acted \subseteq Items
    /\ senderPC \in SenderPCs
    /\ posting \in Items \cup {None}
    /\ threadPC \in ThreadPCs
    /\ threadItem \in Items \cup {None}

QueuedItems == {queue[n] : n \in 1..Len(queue)}

\* Items a thread's next steps dereference.
ItemsInUse ==
    QueuedItems
      \cup (IF threadPC \in {"act", "decide", "delete"} THEN {threadItem} ELSE {})
      \cup (IF senderPC \in {"idle", "decide", "delete", "waitLast"}
               THEN {lastMessage} \ {None} ELSE {})
      \cup (IF senderPC \in {"send", "waitExit", "unwind"} THEN {posting} ELSE {})

\* No message is deleted twice, and neither thread can reach one that has been
\* deleted: not through the queue, not while it runs the action, not through
\* lastMessage, on which the sender may poll between two calls
\* (ShouldThreadCleanup, ShouldSenderCleanup, CleanupLastMessage).  The stop
\* request is on TerminateFriendly's stack: the thread must not delete it ("it
\* will be seen as in use by the sender").
NoUseAfterFree ==
    /\ \A i \in Items : life[i] # "corrupt"
    /\ \A i \in ItemsInUse : life[i] = "live"
    /\ threadPC = "delete" => threadItem # Shutdown

\* No action is lost: an item is deleted only after its TakeAction has run, also
\* when the thread was asked to stop while it was queued.
NothingDeletedUnacted ==
    \A i \in Items : life[i] = "freed" => i \in acted

\* When the destructor is done every message is deleted, whichever side had to
\* do it, and the thread has let go of the NAT object.
NoLeakAfterTermination ==
    senderPC = "done" =>
        /\ \A i \in Items : life[i] \in {"unborn", "freed"}
        /\ ~control

\* "by waiting for the last message to complete, you are also waiting for any
\* previous messages to complete" (ThreadSingleMessageKeepLast::lastMessage).
LastDoneMeansAllDone ==
    lastMessage # None /\ senderPC = "idle" /\ ~inUseByThread[lastMessage]
        => \A n \in 1..Len(posted) : posted[n] \in acted

\* The destructor comes back: TerminateFriendly waits for the thread without
\* being left alone by it.
TerminationCompletes == senderPC = "waitExit" ~> senderPC = "done"

\* A message that was posted is acted on.
PostedIsActedOn ==
    \A i \in Items : i \in QueuedItems ~> i \in acted

-------------------------------------------------------------------------------
(* The abstract promise *)

Ownership == INSTANCE MessageOwnership WITH
    owners <- [i \in Items |->
                  (IF inUseByThread[i] THEN {"thread"} ELSE {})
                    \cup (IF inUseBySender[i] THEN {"sender"} ELSE {})],
    life <- life

ImplementsOwnership == Ownership!Spec
===============================================================================
