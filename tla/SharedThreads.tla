----------------------------- MODULE SharedThreads -----------------------------
(***************************************************************************)
(* ThreadSingleMessageKeepLastUser: the message threads that all objects   *)
(* of a class share.  The first object to need them starts them, each      *)
(* object that does is counted, and the last one to be destroyed ends      *)
(* them.  An object posts items to the threads and keeps, per thread, the  *)
(* item it posted last.                                                    *)
(*                                                                         *)
(* This module holds the calls on the shared threads and the part of the   *)
(* threads that does not depend on the item.  Encryption and Sound say     *)
(* which objects there are, when they are set up and destroyed and what    *)
(* their items do.  How one item is handed over is the subject of          *)
(* ThreadMessage; here an item is in use by its thread until the thread    *)
(* has decided about it, and whoever looks last deletes it.                *)
(***************************************************************************)
EXTENDS Naturals, Sequences, FiniteSets

CONSTANTS
  Objects,     \* packets and sound instances
  ClassOf,     \* [Objects -> Classes]
  NumThreads,  \* [Classes -> how many threads are started]
  Callers,     \* threads of the program that use the objects
  Scenes,      \* sets of objects that one program uses
  None         \* nobody

Classes == {"packet", "sound"}

ASSUME SharedThreadsAssumption ==
  /\ IsFiniteSet(Objects) /\ ClassOf \in [Objects -> Classes]
  /\ NumThreads \in [Classes -> Nat]
  /\ Scenes \subseteq SUBSET Objects
  /\ None \notin Objects \union Callers

Threads == UNION {{c} \X (0 .. NumThreads[c] - 1) : c \in Classes}

VARIABLES
  scene,       \* the objects that this program uses
  usage,       \* threadsUsageCount
  pool,        \* [Classes -> whether the vector of threads is filled]
  queue,       \* [Threads -> items posted, the one being handled first]
  stage,       \* [Threads -> what the thread is about to do]
  dead,        \* threads that an exception ended
  last,        \* lastMessage: [Objects -> [thread IDs -> state of the item]]
  using,       \* usingThreads
  threadsLock, \* who is in the critical section of ::threads
  classLock,   \* who is in that of one class's vector
  call,        \* [Callers -> the call in progress]
  overlapped,  \* history: a setup and a cleanup of one class ran side by side
  rash,        \* history: objects destroyed when not known to be idle, beside other users
  fault        \* memory was deleted twice or used after that: nothing holds any more

lockVars == <<threadsLock, classLock>>
itemVars == <<queue, stage, dead, last>>
historyVars == <<overlapped, rash, fault>>
poolVars == <<usage, pool, itemVars, using, lockVars, call, historyVars>>

Idle == [at |-> "idle", obj |-> None, n |-> 0, block |-> FALSE]

Init ==
  /\ scene \in Scenes
  /\ usage = [c \in Classes |-> 0] /\ pool = [c \in Classes |-> FALSE]
  /\ queue = [t \in Threads |-> <<>>] /\ stage = [t \in Threads |-> "get"] /\ dead = {}
  /\ last = [o \in Objects |-> [n \in 0 .. NumThreads[ClassOf[o]] - 1 |-> "none"]]
  /\ using = [o \in Objects |-> FALSE]
  /\ threadsLock = None /\ classLock = [c \in Classes |-> None]
  /\ call = [k \in Callers |-> Idle]
  /\ overlapped = FALSE /\ rash = {} /\ fault = FALSE

At(k, place) == ~fault /\ call[k].at = place
Class(k) == ClassOf[call[k].obj]
Goto(k, place) == call' = [call EXCEPT ![k].at = place]

SettingUp(c)  == \E k \in Callers : call[k].at \in {"create", "count"} /\ Class(k) = c
CleaningUp(c) == \E k \in Callers : call[k].at \in {"release", "clear", "leave"} /\ Class(k) = c

\* The objects that are counted: the count is given back before usingThreads is reset.
Users(c) ==
  {o \in Objects : /\ ClassOf[o] = c /\ using[o]
                   /\ ~\E k \in Callers : call[k].obj = o /\ call[k].at \in {"clear", "leave"}}

\* IsLastThreadOperationFinished.
Finished(o) == \A n \in DOMAIN last[o] : last[o][n] # "thread"

(***************************************************************************)
(* SetupThreadsLocal of an object that does not use threads yet.  The      *)
(* count is tested and changed in the critical section of ::threads, but   *)
(* CleanupThreads changes it in that of the class.                         *)
(***************************************************************************)
SetupThreads(k) ==
  /\ At(k, "setup") /\ threadsLock = None
  /\ threadsLock' = k
  /\ LET seen == usage[Class(k)]
     IN  call' = [call EXCEPT ![k].at = IF seen = 0 THEN "create" ELSE "count", ![k].n = seen]
  /\ overlapped' = (overlapped \/ CleaningUp(Class(k)))
  /\ UNCHANGED <<usage, pool, itemVars, using, classLock, rash, fault>>

\* usingThreads is set, lastMessage gets an entry per thread, ::threads is left.
EndSetup(k) ==
  /\ using' = [using EXCEPT ![call[k].obj] = TRUE]
  /\ call' = [call EXCEPT ![k].at = "ready", ![k].n = 0]
  /\ threadsLock' = None

CreateThreads(k) ==
  /\ At(k, "create") /\ classLock[Class(k)] = None
  /\ pool' = [pool EXCEPT ![Class(k)] = TRUE]
  /\ usage' = [usage EXCEPT ![Class(k)] = 1]
  /\ EndSetup(k)
  /\ UNCHANGED <<itemVars, classLock, historyVars>>

\* threadsUsageCount++, which may lose a change made in between.
CountUser(k) ==
  /\ At(k, "count")
  /\ \E old \in {call[k].n, usage[Class(k)]} : usage' = [usage EXCEPT ![Class(k)] = old + 1]
  /\ EndSetup(k)
  /\ UNCHANGED <<pool, itemVars, classLock, historyVars>>

(***************************************************************************)
(* CleanupThreadsLocal of an object that uses threads.  For these calls    *)
(* block says that the object is not known to have finished.               *)
(***************************************************************************)
CleanupThreads(k) ==
  /\ At(k, "cleanup") /\ threadsLock = None /\ classLock[Class(k)] = None
  /\ classLock' = [classLock EXCEPT ![Class(k)] = k]
  /\ LET seen == usage[Class(k)]
     IN  call' = [call EXCEPT ![k].at = IF seen > 0 THEN "release" ELSE "leave", ![k].n = seen]
  /\ overlapped' = (overlapped \/ SettingUp(Class(k)))
  /\ rash' = IF call[k].block /\ Users(Class(k)) # {call[k].obj} THEN rash \union {call[k].obj} ELSE rash
  /\ UNCHANGED <<usage, pool, itemVars, using, threadsLock, fault>>

\* Mutated form of ReleaseThreads: the threads end when one user is left.
ReleaseThreadsEarly(k) ==
  /\ At(k, "release")
  /\ \E old \in {call[k].n, usage[Class(k)]} :
       /\ usage' = [usage EXCEPT ![Class(k)] = old - 1]
       /\ Goto(k, IF old <= 2 THEN "clear" ELSE "leave")
  /\ UNCHANGED <<pool, itemVars, using, lockVars, historyVars>>

ReleaseThreads(k) ==
  /\ At(k, "release")
  /\ \E old \in {call[k].n, usage[Class(k)]} :
       /\ usage' = [usage EXCEPT ![Class(k)] = old - 1]
       /\ Goto(k, IF old = 1 THEN "clear" ELSE "leave")
  /\ UNCHANGED <<pool, itemVars, using, lockVars, historyVars>>

\* Mutated form of HasEnded: threads are not waited for.
NeedNotEnd(t) == TRUE

\* A thread ends after what was posted before the request to end, unless it has
\* ended already.
HasEnded(t) == t \in dead \/ queue[t] = <<>>

ThreadsOf(c) == {t \in Threads : t[1] = c}

\* threads[classIndex] is looked up in ::threads again.
ClearThreads(k) ==
  /\ At(k, "clear") /\ threadsLock = None
  /\ \A t \in ThreadsOf(Class(k)) : HasEnded(t)
  /\ pool' = [pool EXCEPT ![Class(k)] = FALSE]
  /\ queue' = [t \in Threads |-> IF t \in ThreadsOf(Class(k)) THEN <<>> ELSE queue[t]]
  /\ stage' = [t \in Threads |-> IF t \in ThreadsOf(Class(k)) THEN "get" ELSE stage[t]]
  /\ Goto(k, "leave")
  /\ UNCHANGED <<usage, dead, last, using, lockVars, historyVars>>

\* threads[classIndex] once more, then the last item of each thread: one that the
\* thread is done with is deleted; of the others the sender's share is given up and
\* the vector's destructor deletes them all the same, after the thread did so.  The
\* destructor waits for ever for an item whose thread is dead.
LeaveThreads(k) ==
  LET o == call[k].obj
      held == {n \in DOMAIN last[o] : last[o][n] = "thread"}
  IN
  /\ At(k, "leave") /\ threadsLock = None
  /\ \A n \in held : <<ClassOf[o], n>> \notin dead
  /\ classLock' = [classLock EXCEPT ![ClassOf[o]] = None]
  /\ fault' = (held # {})
  /\ last' = [last EXCEPT ![o] = [n \in DOMAIN @ |-> "none"]]
  /\ using' = [using EXCEPT ![o] = FALSE]
  /\ dead' = IF pool[ClassOf[o]] THEN dead ELSE dead \ ThreadsOf(ClassOf[o])
  /\ Goto(k, "free")
  /\ UNCHANGED <<usage, pool, queue, stage, threadsLock, overlapped, rash>>

(***************************************************************************)
(* Posting and handling items.                                             *)
(***************************************************************************)
\* threads[classIndex][threadID].PostMessageItem(message, lastMessage.GetPtr(threadID)).
\* The previous item is deleted if its thread is done with it and by its thread
\* otherwise.  Posting to a dead thread fails after the item was noted.
PostMessageItem(o, n, arg) ==
  LET t == <<ClassOf[o], n>>
  IN
  /\ threadsLock = None /\ classLock[ClassOf[o]] = None
  /\ queue' = IF t \in dead THEN queue
              ELSE [queue EXCEPT ![t] = Append(@, [obj |-> o, arg |-> arg])]
  /\ last' = [last EXCEPT ![o][n] = "thread"]

\* The thread takes the next item off its queue and calls TakeAction.
Takes(t) == ~fault /\ t \notin dead /\ stage[t] = "get" /\ queue[t] # <<>>
Item(t)  == Head(queue[t])

\* No later item of the object is in the queue, so its lastMessage is this one.
Newest(t) == \A i \in 2 .. Len(queue[t]) : queue[t][i].obj # Item(t).obj

\* ShouldThreadCleanup, and the deletion of an item the sender has given up.
ThreadDecides(t) ==
  /\ ~fault /\ t \notin dead /\ stage[t] = "decide"
  /\ last' = IF Newest(t) THEN [last EXCEPT ![Item(t).obj][t[2]] = "sender"] ELSE last
  /\ queue' = [queue EXCEPT ![t] = Tail(@)]
  /\ stage' = [stage EXCEPT ![t] = "get"]
  /\ UNCHANGED <<usage, pool, dead, using, lockVars, call, historyVars>>

CallerStep(k) ==
  \/ SetupThreads(k)   \/ CreateThreads(k)  \/ CountUser(k)
  \/ CleanupThreads(k) \/ ReleaseThreads(k) \/ ClearThreads(k) \/ LeaveThreads(k)

PoolNext ==
  \/ \E k \in Callers : CallerStep(k)
  \/ \E t \in Threads : ThreadDecides(t)

(***************************************************************************)
(* Properties.                                                             *)
(***************************************************************************)
\* Unless a setup ran beside a cleanup, which the two critical sections allow
\* (ThreadSingleMessageKeepLastUser.cpp:61, 132), the count is that of the objects that
\* use the threads of a class, and the threads run as long as there is one.
UsersHaveThreads ==
  overlapped \/ fault \/
  \A c \in Classes :
    /\ usage[c] = Cardinality(Users(c))
    /\ Users(c) # {} => pool[c]
================================================================================
