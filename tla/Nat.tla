---------------------------------- MODULE Nat ----------------------------------
(***************************************************************************)
(* NAT traversal: what the messages of ThreadMessage do.  The program      *)
(* calls the mnNAT commands; those that change something post a message,   *)
(* those that read look at the UpnpNatAction object of the message thread  *)
(* directly.  UpnpNatAction keeps a copy of the router's port maps, in     *)
(* objects that the thread makes and deletes.                              *)
(*                                                                         *)
(* A port map is its key (protocol and external port) and one value, which *)
(* stands for what can be set: enabled, description, internal port and IP. *)
(* The router is external; nobody else changes its port maps.              *)
(***************************************************************************)
EXTENDS ThreadMessage, SequencesExt

CONSTANTS
    Keys,     \* protocol and external port
    Values,   \* what a port map can be set to
    Routers,  \* the port maps that the router may have at first
    IDs       \* the port map IDs that the program uses

\* What the messages of the commands do.
Jobs ==
    [op : {"update"}]
      \cup [op : {"add"}, key : Keys, value : Values]
      \cup [op : {"deleteA"}, id : IDs]
      \cup [op : {"deleteB"}, key : Keys]
      \cup [op : {"set"}, obj : Nat, value : Values]

ASSUME NatAssumption ==
    /\ None \notin Keys \cup Values \cup Jobs
    /\ IsFiniteSet(Keys)
    /\ \A r \in Routers : DOMAIN r = Keys
    /\ IDs \subseteq Nat

VARIABLES
    job,         \* what a message that was not acted on yet will do
    blocking,    \* the command waits for the message it has posted
    portMaps,    \* UpnpNatAction::portMaps
    collection,  \* portMapCollection # NULL
    made,        \* how many port map objects were ever made
    router,      \* the port maps of the router
    errors,      \* how many errors were stored, 0 if none is (error = NULL)
    pointer,     \* what a command has fetched from the thread and will use
    stale,       \* an action failed half way, or stored a port map twice
    excused,     \* the program has read what the thread might delete meanwhile
    fault        \* something was used after it was deleted

natVars == <<job, blocking, portMaps, collection, made, router, errors, pointer,
             stale, excused, fault>>
copyVars == <<portMaps, collection, made, router, stale>>
readVars == <<blocking, pointer, excused>>

NatInit ==
    /\ Init
    /\ job = [i \in Items |-> None]
    /\ blocking = FALSE
    /\ portMaps = <<>>
    /\ collection = FALSE
    /\ made = 0
    /\ router \in Routers
    /\ errors = 0
    /\ pointer = None
    /\ stale = TRUE
    /\ excused = FALSE
    /\ fault = FALSE

Mapped == {k \in Keys : router[k] # None}
Objects == {portMaps[n].obj : n \in 1..Len(portMaps)}

-------------------------------------------------------------------------------
(* The program's commands *)

\* NAT was started and the program is not inside a command.
Outside == senderPC = "idle" /\ posted # <<>> /\ ~blocking /\ pointer = None

\* A message that deletes port map objects is posted and may still be acted on.
Deleting == \E i \in Items : job[i] # None /\ job[i].op \in {"update", "deleteA", "deleteB"}

Excuse(when) == excused' = (excused \/ when)

\* Which message object is used makes no difference: they are used in order.
Post(j, block) ==
    LET i == CHOOSE m \in Messages : life[m] = "unborn"
    IN  /\ pointer = None
        /\ \E m \in Messages : life[m] = "unborn"
        /\ BeginPost(i)
        /\ job' = [job EXCEPT ![i] = j]
        /\ blocking' = block
        /\ UNCHANGED <<copyVars, errors, pointer, fault>>

\* StartNAT makes the thread and posts the first message.
StartNAT(block) ==
    posted = <<>> /\ Post([op |-> "update"], block) /\ UNCHANGED excused

UpdateNAT(block) ==
    Outside /\ Post([op |-> "update"], block) /\ UNCHANGED excused

AddPortMap(key, value, block) ==
    /\ Outside
    /\ Post([op |-> "add", key |-> key, value |-> value], block)
    /\ UNCHANGED excused

\* The ID is looked up when the message is acted on.
DeletePortMapA(id, block) ==
    /\ Outside
    /\ Post([op |-> "deleteA", id |-> id], block)
    /\ Excuse(Deleting)

DeletePortMapB(key, block) ==
    /\ Outside
    /\ Post([op |-> "deleteB", key |-> key], block)
    /\ UNCHANGED excused

\* UpnpNatCommunication::SetEnabled and its like look the ID up at once and give
\* the message the address of the port map; an ID that is too large throws.
SetPortMap(id, value, block) ==
    /\ Outside
    /\ id < Len(portMaps)
    /\ Post([op |-> "set", obj |-> portMaps[id + 1].obj, value |-> value], block)
    /\ Excuse(Deleting)

\* The command passes "block" where the ID belongs.
SetPortMapInternalIP(value, block) ==
    SetPortMap(IF block THEN 1 ELSE 0, value, block)

\* Fetching the address of a port map; not in range: an exception, or not found.
Fetch(key, n) ==
    IF n < Len(portMaps)
        THEN [kind |-> "map", obj |-> portMaps[n + 1].obj, key |-> key, n |-> n]
        ELSE None

Read(p) ==
    /\ Outside
    /\ control
    /\ pointer' = p
    /\ UNCHANGED <<vars, job, blocking, copyVars, errors, fault>>

GetPortMap(id) == Read(Fetch(None, id)) /\ Excuse(Deleting)

FindPortMap(key) == Read(Fetch(key, 0)) /\ Excuse(Deleting)

\* The value of the port map is read, or its key is compared; the search goes on
\* until the key is found.
UsePortMap ==
    /\ pointer # None /\ pointer.kind = "map"
    /\ LET found == {e \in ToSet(portMaps) : e.obj = pointer.obj}
       IN  /\ fault' = (fault \/ found = {})
           /\ pointer' = IF \/ found = {}
                            \/ \E e \in found : pointer.key \in {None, e.key}
                            THEN None
                            ELSE Fetch(pointer.key, pointer.n + 1)
    /\ UNCHANGED <<vars, job, blocking, copyVars, errors, excused>>

\* PollNAT looks whether the last message is in use, and rethrows a stored error
\* through the pointer that GetError returned.
PollNAT ==
    /\ lastMessage # None
    /\ errors > 0
    /\ Read([kind |-> "error", obj |-> errors])
    /\ Excuse(\E i \in Items : job[i] # None)

RethrowError ==
    /\ pointer # None /\ pointer.kind = "error"
    /\ fault' = (fault \/ pointer.obj # errors)
    /\ pointer' = None
    /\ UNCHANGED <<vars, job, blocking, copyVars, errors, excused>>

WaitUntilLastActionFinished ==
    /\ Outside
    /\ BeginWaitLast
    /\ UNCHANGED natVars

\* Also when StartNAT could not make its message.
FinishNAT ==
    /\ Outside \/ posted = <<>>
    /\ TerminateFriendly
    /\ UNCHANGED natVars

-------------------------------------------------------------------------------
(* UpnpNatAction, on the message thread *)

\* UpnpNatPortMapAction: everything is asked of the router when it is made.
PortMap(key, value, n) == [key |-> key, value |-> value, obj |-> n]

\* The first n port maps of the router.
Enumerated(n) ==
    [x \in 1..n |-> LET k == SetToSeq(Mapped)[x] IN PortMap(k, router[k], made + x)]

\* An exception is stored in the thread; the one stored before is deleted.
Fails == errors' = errors + 1
Succeeds == UNCHANGED errors

\* Mutated form: the old port maps stay in the vector.
UpdateInfoUncleaned ==
    \E n \in 0..Cardinality(Mapped) :
        /\ portMaps' = portMaps \o Enumerated(n)
        /\ collection' = TRUE
        /\ made' = made + n
        /\ stale' = (n < Cardinality(Mapped))
        /\ Fails \/ Succeeds
        /\ UNCHANGED router

\* UpdateInfo deletes the objects (CleanPortMaps), asks the router for its port
\* maps again and makes an object for each.  When the enumeration fails, or ends
\* early, nobody is told; when an object cannot be made, an error is stored.
UpdateInfo ==
    \/ \E n \in 0..Cardinality(Mapped) :
        /\ portMaps' = Enumerated(n)
        /\ collection' = TRUE
        /\ made' = made + n
        /\ stale' = (n < Cardinality(Mapped))
        /\ Succeeds \/ (n < Cardinality(Mapped) /\ Fails)
        /\ UNCHANGED router
    \/ /\ portMaps' = <<>>
       /\ collection' = FALSE
       /\ stale' = TRUE
       /\ Fails
       /\ UNCHANGED <<made, router>>

\* The router adds a port map, or changes the one it has for that key.  The
\* object for it may not be made after the router has added it.
AddToCollection(key, value) ==
    \/ /\ router' = [router EXCEPT ![key] = value]
       /\ portMaps' = Append(portMaps, PortMap(key, value, made + 1))
       /\ made' = made + 1
       /\ stale' = (stale \/ \E e \in ToSet(portMaps) : e.key = key)
       /\ Succeeds
       /\ UNCHANGED collection
    \/ /\ router' = [router EXCEPT ![key] = value]
       /\ stale' = TRUE
       /\ Fails
       /\ UNCHANGED <<portMaps, collection, made>>
    \/ Fails /\ UNCHANGED copyVars

\* The router removes a port map, then the first object for that key, if there is
\* one, is erased.
RemoveFromCollection(key, n) ==
    \/ /\ router[key] # None
       /\ router' = [router EXCEPT ![key] = None]
       /\ portMaps' = IF n = 0 THEN portMaps ELSE RemoveAt(portMaps, n)
       /\ Succeeds
       /\ UNCHANGED <<collection, made, stale>>
    \/ Fails /\ UNCHANGED copyVars

\* DeletePortMap by ID: an ID that is not in the vector throws.
DeleteByID(id) ==
    IF id < Len(portMaps)
        THEN RemoveFromCollection(portMaps[id + 1].key, id + 1)
        ELSE Fails /\ UNCHANGED copyVars

DeleteByKey(key) ==
    RemoveFromCollection(key, SelectInSeq(portMaps, LAMBDA e : e.key = key))

\* ThreadMessageItemDeletePortMap made from a key does not set byIdOnly nor the
\* ID: whether TakeAction deletes by key or by some ID depends on the memory.
TakeDeleteB(key) ==
    \/ DeleteByKey(key)
    \/ \E id \in 0..Len(portMaps) : DeleteByID(id)

\* SetEnabled and its like: the router first, then the copy.
SetInRouter(obj, value) ==
    \E n \in 1..Len(portMaps) :
        /\ portMaps[n].obj = obj
        /\ \/ /\ router[portMaps[n].key] # None
              /\ router' = [router EXCEPT ![portMaps[n].key] = value]
              /\ portMaps' = [portMaps EXCEPT ![n].value = value]
              /\ Succeeds
              /\ UNCHANGED <<collection, made, stale>>
           \/ Fails /\ UNCHANGED copyVars

\* The action of the message that the thread works on.
ActOn(j) ==
    \/ j.op = "update" /\ UpdateInfo /\ UNCHANGED fault
    \/ j.op = "add" /\ AddToCollection(j.key, j.value) /\ UNCHANGED fault
    \/ j.op = "deleteA" /\ DeleteByID(j.id) /\ UNCHANGED fault
    \/ j.op = "deleteB" /\ TakeDeleteB(j.key) /\ UNCHANGED fault
    \/ j.op = "set" /\ SetInRouter(j.obj, j.value) /\ UNCHANGED fault
    \/ /\ j.op = "set" /\ j.obj \notin Objects
       /\ fault' = TRUE
       /\ UNCHANGED <<copyVars, errors>>

Ends == TakeAction /\ job' = [job EXCEPT ![threadItem] = None]

NeedsCollection(j) == j # None /\ j.op \in {"add", "deleteA", "deleteB"}

NatTakeAction ==
    /\ Ends
    /\ NeedsCollection(job[threadItem]) => collection
    /\ IF threadItem = Shutdown
         THEN UNCHANGED <<copyVars, errors, fault>>
         ELSE ActOn(job[threadItem])
    /\ UNCHANGED readVars

\* Without a collection the port maps are fetched first: then the action goes on,
\* or it ends with the error.
ValidatePortMapCollection ==
    /\ threadPC = "act"
    /\ NeedsCollection(job[threadItem]) /\ ~collection
    /\ UpdateInfo
    /\ IF errors' = errors THEN UNCHANGED <<vars, job>> ELSE Ends
    /\ UNCHANGED <<readVars, fault>>

\* The UpnpNatAction object is deleted, and its port maps with it.
NatThreadExit ==
    /\ ThreadExit
    /\ portMaps' = <<>>
    /\ collection' = FALSE
    /\ UNCHANGED <<job, made, router, errors, stale, readVars, fault>>

-------------------------------------------------------------------------------
Commands ==
    \/ \E block \in BOOLEAN :
         \/ StartNAT(block)
         \/ UpdateNAT(block)
         \/ \E key \in Keys, value \in Values : AddPortMap(key, value, block)
         \/ \E id \in IDs : DeletePortMapA(id, block)
         \/ \E key \in Keys : DeletePortMapB(key, block)
         \/ \E id \in IDs, value \in Values : SetPortMap(id, value, block)
         \/ \E value \in Values : SetPortMapInternalIP(value, block)
    \/ \E id \in IDs : GetPortMap(id)
    \/ \E key \in Keys : FindPortMap(key)
    \/ PollNAT
    \/ WaitUntilLastActionFinished
    \/ FinishNAT

\* Inside a command the program goes on; one that blocks waits for its message.
NatSender ==
    \/ /\ SenderSteps
       /\ blocking' = (blocking /\ senderPC # "waitLast")
       /\ UNCHANGED <<job, copyVars, errors, pointer, excused, fault>>
    \/ blocking /\ BeginWaitLast /\ UNCHANGED natVars
    \/ UsePortMap
    \/ RethrowError

NatThread ==
    \/ ThreadSteps /\ threadPC \notin {"act", "exit"} /\ UNCHANGED natVars
    \/ NatTakeAction
    \/ ValidatePortMapCollection
    \/ NatThreadExit

NatNext == NatSender \/ Commands \/ NatThread

allVars == <<vars, natVars>>

NatSafe == NatInit /\ [][NatNext]_allVars

NatSpec ==
    /\ NatInit /\ [][NatNext]_allVars
    /\ WF_allVars(NatSender) /\ WF_allVars(NatThread)

-------------------------------------------------------------------------------
(* Properties *)

\* A port map object or a stored error is used after the thread has deleted it only
\* when a command was called that reads it while the thread may delete it; and when
\* the thread is idle, the program reads what the router has: no port map is missing,
\* none is there twice, and each has the value the router has, unless an action
\* failed half way since the last update (UpdateInfo, AddPortMap, DeletePortMap,
\* SetEnabled, ...).
CopyIsOfTheRouter ==
    /\ fault => excused
    /\ ~stale /\ control /\ threadPC = "wait" /\ queue = <<>> =>
         /\ Len(portMaps) = Cardinality(Mapped)
         /\ \A k \in Mapped : \E e \in ToSet(portMaps) : e.key = k /\ e.value = router[k]
===============================================================================
