------------------------------- MODULE Commands -------------------------------
(***************************************************************************)
(* The module as the program starts, restarts and finishes it, and the     *)
(* instances it loads into the slots of the instance group: mn::Start,     *)
(* mn::Finish, the commands that start and end instances, and how every    *)
(* other command gets at its instance.  What a command then does with the  *)
(* instance is the subject of the modules NetServer, NetClient, NetSocket, *)
(* TcpFraming and UdpStores.                                               *)
(*                                                                         *)
(* The program has one thread of its own.  Completion port threads run the *)
(* receive functions of instances, which get the ID of their instance and  *)
(* may use commands with it, or with any other ID.  Commands of the main   *)
(* thread do not overlap with each other, so only the lookups of the other *)
(* threads take two steps.  Functions are assumed not to make instances,   *)
(* and not to start or finish the whole module, which would wait for the   *)
(* function itself.                                                        *)
(***************************************************************************)
EXTENDS Naturals, FiniteSets

CONSTANTS
  Slots,      \* indices of the instance group
  IDs,        \* instance IDs the program uses, those without a slot included
  Objects,    \* instance objects; each is created at most once
  Workers,    \* threads of a completion port
  Ports,      \* completion ports; each is created at most once: bounds restarts
  None        \* no object, or no port

ASSUME CommandsAssumption ==
  /\ Slots \subseteq IDs
  /\ None \notin Objects \union Ports
  /\ IsFiniteSet(Workers)

Threads == Ports \X Workers
Types   == {"server", "client", "broadcast"}
TCP     == {"server", "client"}
UDP     == Types

VARIABLES
  localInfo,  \* localInfoLoaded
  port,       \* completionPort
  portState,  \* [Ports -> "unused", "running" or "gone"]
  tls,        \* threadLocalStorageAllocated
  known,      \* threads whose entry in the present thread local storage is set
  group,      \* whether instanceGroup is loaded
  slot,       \* [Slots -> object or None]: the containers of the group
  state,      \* [Objects -> "unused", "live", "closing" or "deleted"]
  object,     \* [Objects -> type, completion port and instance ID]
  destroy,    \* clients whose destruction a thread requested
  main,       \* what the program's thread is doing, and the slots still to empty
  dealing,    \* [Threads -> the object whose function the thread runs]
  using,      \* [Threads -> the object a command of that function works on]
  waiting,    \* threads whose command waits for the section of the group's vector
  workerKill, \* a completion port thread deleted an instance: nothing holds any more
  lost,       \* history: objects that never got into their slot
  misused     \* history: the module was finished when it was not active

vars == <<localInfo, port, portState, tls, known, group, slot, state, object, destroy,
          main, dealing, using, waiting, workerKill, lost, misused>>
moduleVars == <<localInfo, port, portState, tls, known>>
objectVars == <<state, object, destroy>>
threadVars == <<dealing, using, waiting, workerKill>>
historyVars == <<lost, misused>>

Idle   == [op |-> "idle", left |-> {}]
IsIdle == main = Idle /\ ~workerKill
Loaded == {s \in Slots : slot[s] # None}

Init ==
  /\ localInfo = FALSE
  /\ port = None /\ portState = [p \in Ports |-> "unused"] /\ tls = 0 /\ known = {}
  /\ group = FALSE /\ slot = [s \in Slots |-> None]
  /\ state = [o \in Objects |-> "unused"] /\ destroy = {}
  /\ object = [o \in Objects |-> [type |-> None, port |-> None, id |-> None]]
  /\ main = Idle
  /\ dealing = [t \in Threads |-> None] /\ using = [t \in Threads |-> None]
  /\ waiting = {} /\ workerKill = FALSE /\ lost = {} /\ misused = FALSE

(***************************************************************************)
(* mn::Start.                                                              *)
(***************************************************************************)
\* Winsock starts, but the host name or the addresses cannot be had (LoadLocalInfo
\* unloads first): the rest stays as it was.
StartFails ==
  /\ IsIdle
  /\ localInfo' = FALSE
  /\ UNCHANGED <<port, portState, tls, known, group, slot, objectVars, main, threadVars, historyVars>>

\* SetupCompletionPort forgets the port there is, if any, and its threads run on.
\* Thread local storage is counted once for the setup and once for each thread.
SetupCompletionPort(p) ==
  /\ portState[p] = "unused"
  /\ port' = p
  /\ portState' = [portState EXCEPT ![p] = "running"]
  /\ tls' = tls + 1 + Cardinality(Workers)
  /\ known' = known \union ({p} \X Workers)

\* LoadEverything up to the deletion of the last group's instances.  New ports are
\* alike: which of them it is makes no difference.
Start ==
  /\ IsIdle
  /\ \E p \in Ports : portState[p] = "unused"
  /\ SetupCompletionPort(CHOOSE p \in Ports : portState[p] = "unused")
  /\ localInfo' = TRUE
  /\ main' = [op |-> "start", left |-> Loaded]
  /\ UNCHANGED <<group, slot, objectVars, threadVars, historyVars>>

CreateInstanceGroup ==
  /\ main = [op |-> "start", left |-> {}] /\ ~workerKill
  /\ group' = TRUE
  /\ main' = Idle
  /\ UNCHANGED <<moduleVars, slot, objectVars, threadVars, historyVars>>

(***************************************************************************)
(* Deleting instances, one after the other.  The destructor closes the     *)
(* sockets, and Close waits for the threads that run functions of that     *)
(* instance; then its memory is freed, and then the container forgets it.  *)
(***************************************************************************)
\* Mutated form of InFunction: Close does not wait for functions.
NotInFunction(o) == FALSE

InFunction(o) == \E t \in Threads : dealing[t] = o

BeginKill(s) ==
  /\ s \in main.left /\ ~workerKill
  /\ \A r \in main.left : state[slot[r]] = "live"
  /\ state' = [state EXCEPT ![slot[s]] = "closing"]
  /\ UNCHANGED <<moduleVars, group, slot, object, destroy, main, threadVars, historyVars>>

EndKill(s) ==
  /\ s \in main.left /\ ~workerKill
  /\ state[slot[s]] = "closing" /\ ~InFunction(slot[s])
  /\ state' = [state EXCEPT ![slot[s]] = "deleted"]
  /\ UNCHANGED <<moduleVars, group, slot, object, destroy, main, threadVars, historyVars>>

Forget(s) ==
  /\ s \in main.left /\ ~workerKill
  /\ state[slot[s]] = "deleted"
  /\ slot' = [slot EXCEPT ![s] = None]
  /\ main' = IF main = [op |-> "kill", left |-> {s}] THEN Idle ELSE [main EXCEPT !.left = @ \ {s}]
  /\ UNCHANGED <<moduleVars, group, objectVars, threadVars, historyVars>>

\* KillInstance by the main thread, for which there is no entry in the thread local
\* storage.
KillInstance(s) ==
  /\ main' = [op |-> "kill", left |-> {s}]
  /\ UNCHANGED <<moduleVars, group, slot, objectVars, threadVars, historyVars>>

\* Mutated form of MayKill: the thread is not looked at.
MayAlwaysKill(t) == TRUE

\* By a completion port thread it does nothing, as long as the thread is known to be one.
MayKill(t) == tls = 0 \/ t \notin known

(***************************************************************************)
(* mn::Finish.                                                             *)
(***************************************************************************)
FinishInstance(s) == IsIdle /\ s \in Loaded /\ KillInstance(s)

\* UnloadEverything up to the deletion of the instances.
FinishModule ==
  /\ IsIdle
  /\ localInfo' = FALSE
  /\ main' = [op |-> "finish", left |-> Loaded]
  /\ misused' = (misused \/ port = None)
  /\ UNCHANGED <<port, portState, tls, known, group, slot, objectVars, threadVars, lost>>

\* DestroyInstanceGroup, FinishWinsock and DestroyCompletionPort: the threads of the
\* port end once they have left the functions they are in.
DestroyCompletionPort ==
  LET mine   == {t \in Threads : t[1] = port}
      counts == 1 + Cardinality(mine)
  IN  /\ main = [op |-> "finish", left |-> {}] /\ ~workerKill
      /\ \A t \in mine : dealing[t] = None
      /\ group' = FALSE
      /\ port' = None
      /\ portState' = [p \in Ports |-> IF p = port THEN "gone" ELSE portState[p]]
      /\ tls' = IF tls > counts THEN tls - counts ELSE 0
      /\ known' = IF tls > counts THEN known \ mine ELSE {}
      /\ main' = Idle
  /\ UNCHANGED <<localInfo, slot, objectVars, threadVars, historyVars>>

(***************************************************************************)
(* Commands that make an instance.  The object is made first; if its slot  *)
(* is taken or does not exist the command fails and nobody deletes it.     *)
(***************************************************************************)
\* Mutated form of AddInstance: a slot that is taken is overwritten.
AddInstanceOver(o, id) ==
  IF id \in Slots
  THEN slot' = [slot EXCEPT ![id] = o] /\ lost' = lost
  ELSE slot' = slot /\ lost' = lost \union {o}

AddInstance(o, id) ==
  IF id \in Slots /\ slot[id] = None
  THEN slot' = [slot EXCEPT ![id] = o] /\ lost' = lost
  ELSE slot' = slot /\ lost' = lost \union {o}

NewInstance(id, type) ==
  /\ IsIdle /\ port # None /\ group
  /\ \E o \in Objects :
       /\ state[o] = "unused"
       /\ state' = [state EXCEPT ![o] = "live"]
       /\ object' = [object EXCEPT ![o] = [type |-> type, port |-> port, id |-> id]]
       /\ AddInstance(o, id)
  /\ UNCHANGED <<moduleVars, group, destroy, main, threadVars, misused>>

Connect(id)        == NewInstance(id, "client")
StartServer(id)    == NewInstance(id, "server")
StartBroadcast(id) == NewInstance(id, "broadcast")

(***************************************************************************)
(* Commands of the main thread that may end an instance.                   *)
(***************************************************************************)
\* A server disconnects the client, for others the instance ends.
DisconnectClient(s) ==
  /\ IsIdle /\ s \in Loaded
  /\ object[slot[s]].type # "server"
  /\ KillInstance(s)

\* ClientConnected of a client whose destruction a thread requested.
ClientConnected(s) ==
  /\ IsIdle /\ s \in Loaded
  /\ object[slot[s]].type = "client" /\ slot[s] \in destroy
  /\ KillInstance(s)

(***************************************************************************)
(* Completion port threads.                                                *)
(***************************************************************************)
\* A completion of an instance is dealt with by a thread of the instance's port.  A
\* lost client never connects and a lost server never accepts anybody, but a lost
\* broadcast instance has received since it was made.
BeginFunction(t, o) ==
  /\ portState[t[1]] = "running" /\ dealing[t] = None /\ ~workerKill
  /\ state[o] \in {"live", "closing"} /\ object[o].port = t[1]
  /\ o \in lost => object[o].type = "broadcast"
  /\ dealing' = [dealing EXCEPT ![t] = o]
  /\ UNCHANGED <<moduleVars, group, slot, objectVars, main, using, waiting, workerKill, historyVars>>

\* The function of t is at work and in no command.
InFunctionCode(t) ==
  dealing[t] # None /\ using[t] = None /\ t \notin waiting /\ ~workerKill

EndFunction(t) ==
  /\ InFunctionCode(t)
  /\ dealing' = [dealing EXCEPT ![t] = None]
  /\ UNCHANGED <<moduleVars, group, slot, objectVars, main, using, waiting, workerKill, historyVars>>

\* The connection of a client ends: the thread requests the instance's destruction.
RequestDestroy(t) ==
  /\ InFunctionCode(t)
  /\ object[dealing[t]].type = "client"
  /\ destroy' = destroy \union {dealing[t]}
  /\ UNCHANGED <<moduleVars, group, slot, state, object, main, threadVars, historyVars>>

\* The group's vector is in its section while it is cleared, until the last instance is
\* deleted.  Every command enters it to find the container of its instance; where that
\* instance's deletion waits for the command's function, neither goes on.
GroupLocked == main.op \in {"start", "finish"}

EnterGroup(t) ==
  /\ InFunctionCode(t) /\ group /\ GroupLocked
  /\ waiting' = waiting \union {t}
  /\ UNCHANGED <<moduleVars, group, slot, objectVars, main, dealing, using, workerKill, historyVars>>

EnteredGroup(t) ==
  /\ t \in waiting /\ ~GroupLocked /\ ~workerKill
  /\ waiting' = waiting \ {t}
  /\ UNCHANGED <<moduleVars, group, slot, objectVars, main, dealing, using, workerKill, historyVars>>

\* A function may give its commands the ID of any instance.
InFunctionWithSlot(t, s) ==
  /\ InFunctionCode(t)
  /\ group /\ ~GroupLocked /\ s \in Loaded

\* Commands of a function that would end an instance (Finish, DisconnectClient,
\* ClientConnected of a client that is to be destroyed).
FunctionKills(t) ==
  /\ \E s \in Slots : InFunctionWithSlot(t, s)
  /\ MayKill(t)
  /\ workerKill' = TRUE
  /\ UNCHANGED <<moduleVars, group, slot, objectVars, main, dealing, using, waiting, historyVars>>

\* All other commands get the instance from its container and check its type, with no
\* lock on either, and then use it.  The commands below differ in the types they are for.
Access(t, types) ==
  \E s \in Slots :
    /\ InFunctionWithSlot(t, s)
    /\ object[slot[s]].type \in types
    /\ using' = [using EXCEPT ![t] = slot[s]]
    /\ UNCHANGED <<moduleVars, group, slot, objectVars, main, dealing, waiting, workerKill, historyVars>>

ServerTimeout(t)          == Access(t, {"server"})
ClientJoinedOrLeft(t)     == Access(t, {"server"})
ClientAddress(t)          == Access(t, {"server"})
ShutdownClient(t)         == Access(t, TCP)
FlushRecvTCP(t)           == Access(t, TCP)
FlushRecvUDP(t)           == Access(t, UDP)
ChangeBufferTCP(t)        == Access(t, TCP)
ConnectAddress(t)         == Access(t, {"client"})
PollOrStopConnect(t)      == Access(t, {"client"})
GetClientID(t)            == Access(t, {"client"})
GetMaxClients(t)          == Access(t, {"server", "client"})
OperationsAndSizeUDP(t)   == Access(t, UDP)
GetState(t)               == Access(t, Types)
ModeAndEnabledUDP(t)      == Access(t, UDP)
ModeAndProgressTCP(t)     == Access(t, TCP)
GetSendTimeout(t)         == Access(t, Types)
StoreAmounts(t)           == \/ Access(t, TCP)
                             \/ Access(t, UDP)
OptionsTCP(t)             == Access(t, TCP)
RecvTCP(t)                == Access(t, TCP)
RecvUDP(t)                == Access(t, UDP)
SendUDP(t)                == Access(t, UDP)
SendTCP(t)                == Access(t, TCP)
SendAll(t)                == Access(t, {"server"})
LocalAddressTCP(t)        == Access(t, TCP)
LocalAddressUDP(t)        == Access(t, UDP)
MemoryLimitsUDP(t)        == Access(t, UDP)
MemoryLimitsTCP(t)        == Access(t, TCP)

InstanceCommand(t) ==
  \/ ServerTimeout(t) \/ ClientJoinedOrLeft(t) \/ ClientAddress(t) \/ ShutdownClient(t)
  \/ FlushRecvTCP(t) \/ FlushRecvUDP(t) \/ ChangeBufferTCP(t)
  \/ ConnectAddress(t) \/ PollOrStopConnect(t) \/ GetClientID(t) \/ GetMaxClients(t)
  \/ OperationsAndSizeUDP(t) \/ GetState(t) \/ ModeAndEnabledUDP(t) \/ ModeAndProgressTCP(t)
  \/ GetSendTimeout(t) \/ StoreAmounts(t) \/ OptionsTCP(t)
  \/ RecvTCP(t) \/ RecvUDP(t) \/ SendUDP(t) \/ SendTCP(t) \/ SendAll(t)
  \/ LocalAddressTCP(t) \/ LocalAddressUDP(t) \/ MemoryLimitsUDP(t) \/ MemoryLimitsTCP(t)

EndCommand(t) ==
  /\ using[t] # None /\ ~workerKill
  /\ using' = [using EXCEPT ![t] = None]
  /\ UNCHANGED <<moduleVars, group, slot, objectVars, main, dealing, waiting, workerKill, historyVars>>

Next ==
  \/ StartFails \/ Start \/ CreateInstanceGroup
  \/ FinishModule \/ DestroyCompletionPort
  \/ \E s \in Slots : FinishInstance(s) \/ DisconnectClient(s) \/ ClientConnected(s)
  \/ \E s \in Slots : BeginKill(s) \/ EndKill(s) \/ Forget(s)
  \/ \E id \in IDs : Connect(id) \/ StartServer(id) \/ StartBroadcast(id)
  \/ \E t \in Threads :
       \/ \E o \in Objects : BeginFunction(t, o)
       \/ EndFunction(t) \/ RequestDestroy(t)
       \/ EnterGroup(t) \/ EnteredGroup(t) \/ FunctionKills(t)
       \/ InstanceCommand(t) \/ EndCommand(t)

Spec == Init /\ [][Next]_vars

(***************************************************************************)
(* Properties.                                                             *)
(***************************************************************************)
Destroyed(o) == state[o] = "deleted"

\* A receive function may use commands with the ID of its own instance at any time,
\* whatever the main thread finishes or restarts meanwhile: the instance exists, and its
\* container holds it, until the function ends, for which the destructor waits.  The
\* same does not go for any other ID: a command looks an instance up and uses it with
\* control of nothing, and the destructor waits for functions of its own instance only
\* (NetInstanceContainer.h calls that safe).  And it goes for no command of a function
\* whose instance was lost: its ID is that of another instance.
CommandsUseLiveInstances ==
  \A t \in Threads :
    dealing[t] # None =>
      /\ ~Destroyed(dealing[t])
      /\ dealing[t] \notin lost => group /\ slot[object[dealing[t]].id] = dealing[t]

\* The commands that load an instance promise that one that is already loaded into the
\* ID is deactivated and overwritten.  LoadInstance throws, and it is the new instance
\* that is lost.
LoadingReplaces == \A o \in lost : object[o].id \notin Slots

\* Only the main thread deletes instances, through every sequence of Start and Finish
\* commands, unless the module was finished when it was not active: that takes thread
\* local storage away from the threads of an older completion port, and with it the
\* way to tell them from the main thread.
OnlyMainDeletes == workerKill => misused

\* While no command is at work on the module: every instance is in the slot of its ID,
\* or was lost when its Start command failed (which is not what the documentation says
\* of a slot that is taken, see LoadingReplaces), and the threads of its port run, so
\* that what it receives is dealt with and closing it can end.
InstancesAreServed ==
  main = Idle =>
    \A o \in Objects : state[o] \notin {"unused", "deleted"} =>
      \/ o \in lost
      \/ /\ group /\ port # None
         /\ object[o].id \in Slots /\ slot[object[o].id] = o
         /\ portState[object[o].port] = "running"
         /\ \A w \in Workers : <<object[o].port, w>> \in known
================================================================================
