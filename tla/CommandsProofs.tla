---------------------------- MODULE CommandsProofs ----------------------------
(***************************************************************************)
(* Theorems about the commands of mnCommands.cpp.                          *)
(*                                                                         *)
(* About those on instances (Commands), for any number of slots,           *)
(* instances, threads and restarts: its three invariants.  None is         *)
(* inductive.  That a function finds its own instance, and alive, rests on *)
(* the slots and the instances naming each other, and that only the main   *)
(* thread deletes rests on the count of thread local storage being that    *)
(* of the completion ports that run.                                       *)
(*                                                                         *)
(* About those on packets (Packet), for any packets, sizes, numbers and    *)
(* threads: no command leaves the memory of its packet but in the two      *)
(* ways that are known, and packets are texts with a cursor (PacketText).  *)
(* Each method is a function of a packet, and a lemma says what it makes   *)
(* of the block and of the data in it; then each command is one of the     *)
(* text's.                                                                 *)
(***************************************************************************)
EXTENDS Commands, Packet, TLAPS, FiniteSetTheorems, SequenceTheorems

Exists(o) == state[o] \in {"live", "closing"}

\* Types of the variables.
Record == [type : Types \union {None}, port : Ports \union {None}, id : IDs \union {None}]

Typed ==
  /\ port \in Ports \union {None}
  /\ portState \in [Ports -> {"unused", "running", "gone"}]
  /\ tls \in Nat
  /\ known \subseteq Threads
  /\ slot \in [Slots -> Objects \union {None}]
  /\ state \in [Objects -> {"unused", "live", "closing", "deleted"}]
  /\ object \in [Objects -> Record]
  /\ main \in [op : {"idle", "start", "finish", "kill"}, left : SUBSET Slots]
  /\ dealing \in [Threads -> Objects \union {None}]
  /\ using \in [Threads -> Objects \union {None}]
  /\ lost \subseteq Objects

\* A slot and the instance in it name each other, an instance that is in no slot was
\* lost, and the instance of a slot exists but between its deletion and the moment it is
\* forgotten.
Slotted ==
  /\ \A s \in Slots : slot[s] # None =>
       /\ object[slot[s]].id = s /\ slot[s] \notin lost
       /\ Exists(slot[s]) \/ (s \in main.left /\ Destroyed(slot[s]))
  /\ \A o \in Objects \ lost : Exists(o) =>
       object[o].id \in Slots /\ slot[object[o].id] = o
  /\ \A o \in lost : state[o] # "unused"
  /\ \A s \in main.left : slot[s] # None

\* The instance of a function exists.
Functions == \A t \in Threads : dealing[t] # None => Exists(dealing[t])

\* Instances are of the present completion port, and of none while the module
\* starts or finishes, when all of them are about to be deleted.  The group is there as
\* long as one of them is.
Served ==
  /\ \A s \in Slots : slot[s] # None => group
  /\ port # None => portState[port] = "running" /\ {port} \X Workers \subseteq known
  /\ main.op \in {"start", "finish"} => \A s \in Slots : slot[s] # None => s \in main.left
  /\ main.op \in {"idle", "kill"} => \A s \in Slots : slot[s] # None =>
       port # None /\ object[slot[s]].port = port

\* Every thread that runs functions is known, and the count of thread local storage
\* is that of the ports that run, as long as the module was not finished twice.
Running == {p \in Ports : portState[p] = "running"}

Counted ==
  /\ IsFiniteSet(Running)
  /\ \A t \in Threads : dealing[t] # None => portState[t[1]] = "running"
  /\ ~misused =>
       /\ tls = Cardinality(Running) * (1 + Cardinality(Workers))
       /\ \A t \in Threads : portState[t[1]] = "running" => t \in known
       /\ main.op = "finish" => port # None
  /\ workerKill => misused

IInv == Typed /\ Slotted /\ Functions /\ Served /\ Counted

-----------------------------------------------------------------------------
\* The commands of a function differ in the types of instances they accept; all of
\* them only remember which instance they work on (Access).
LEMMA InstanceCommandUses ==
  ASSUME NEW t \in Threads, InstanceCommand(t)
  PROVE  /\ \E s \in Slots : /\ InFunctionWithSlot(t, s)
                             /\ using' = [using EXCEPT ![t] = slot[s]]
         /\ UNCHANGED <<moduleVars, group, slot, objectVars, main, dealing, workerKill, historyVars>>
BY DEF InstanceCommand, Access, ServerTimeout, ClientJoinedOrLeft, ClientAddress,
       ShutdownClient, FlushRecvTCP, FlushRecvUDP, ChangeBufferTCP, ConnectAddress,
       PollOrStopConnect, GetClientID, GetMaxClients, OperationsAndSizeUDP, GetState,
       ModeAndEnabledUDP, ModeAndProgressTCP, GetSendTimeout, StoreAmounts, OptionsTCP,
       RecvTCP, RecvUDP, SendUDP, SendTCP, SendAll, LocalAddressTCP, LocalAddressUDP,
       MemoryLimitsUDP, MemoryLimitsTCP

\* Starting with nothing.
LEMMA InitIInv == Init => IInv
<1> SUFFICES ASSUME Init PROVE IInv
  OBVIOUS
<1> USE CommandsAssumption DEF Init
<1>1. Typed
  BY DEF Typed, Record, Idle
<1>2. Slotted /\ Functions /\ Served
  BY DEF Slotted, Functions, Served, Exists, Idle
<1>3. Counted
  <2>1. Running = {}
    BY DEF Running
  <2>2. IsFiniteSet(Running) /\ Cardinality(Running) = 0
    BY <2>1, FS_EmptySet
  <2>3. Cardinality(Workers) \in Nat
    BY FS_CardinalityType
  <2>4. 0 = 0 * (1 + Cardinality(Workers))
    BY <2>3
  <2>5. \A t \in Threads : dealing[t] = None /\ portState[t[1]] # "running"
    BY DEF Threads
  <2> QED
    BY <2>2, <2>4, <2>5 DEF Counted, Idle
<1> QED
  BY <1>1, <1>2, <1>3 DEF IInv

\* The variables keep their types.
LEMMA NextTyped ==
  ASSUME Typed, [Next]_vars
  PROVE  Typed'
<1> USE CommandsAssumption DEF Typed
<1>1. CASE StartFails
  BY <1>1 DEF StartFails, objectVars, threadVars, historyVars
<1>2. CASE Start
  <2>1. Cardinality(Workers) \in Nat
    BY FS_CardinalityType
  <2> QED
    BY <1>2, <2>1 DEF Start, SetupCompletionPort, Loaded, Threads, objectVars, threadVars, historyVars
<1>3. CASE CreateInstanceGroup
  BY <1>3 DEF CreateInstanceGroup, Idle, moduleVars, objectVars, threadVars, historyVars
<1>4. CASE FinishModule
  BY <1>4 DEF FinishModule, Loaded, objectVars, threadVars
<1>5. CASE DestroyCompletionPort
  <2> DEFINE mine == {t \in Threads : t[1] = port}
             counts == 1 + Cardinality(mine)
  <2>1. IsFiniteSet(mine)
    <3> DEFINE f == [w \in Workers |-> <<port, w>>]
    <3>1. mine \subseteq {f[w] : w \in Workers}
      BY DEF Threads
    <3>2. f \in Surjection(Workers, {f[w] : w \in Workers})
      BY DEF Surjection
    <3>3. IsFiniteSet({f[w] : w \in Workers})
      BY <3>2, FS_Surjection
    <3> QED
      BY <3>1, <3>3, FS_Subset
  <2>2. counts \in Nat
    BY <2>1, FS_CardinalityType
  <2>3. tls' = (IF tls > counts THEN tls - counts ELSE 0)
    BY <1>5 DEF DestroyCompletionPort
  <2>4. tls' \in Nat
    <3> HIDE DEF counts
    <3> QED
      BY <2>2, <2>3
  <2>5. known' \subseteq Threads
    BY <1>5 DEF DestroyCompletionPort
  <2>6. UNCHANGED <<slot, state, object, dealing, using, lost>> /\ main' = Idle /\ port' = None
    BY <1>5 DEF DestroyCompletionPort, objectVars, threadVars, historyVars
  <2>7. portState' \in [Ports -> {"unused", "running", "gone"}]
    BY <1>5 DEF DestroyCompletionPort
  <2> QED
    BY <2>4, <2>5, <2>6, <2>7 DEF Idle
<1>6. CASE \E s \in Slots : FinishInstance(s) \/ DisconnectClient(s) \/ ClientConnected(s)
  BY <1>6 DEF FinishInstance, DisconnectClient, ClientConnected, KillInstance,
              moduleVars, objectVars, threadVars, historyVars
<1>7. CASE \E s \in Slots : BeginKill(s)
  <2> PICK s \in Slots : BeginKill(s)
    BY <1>7
  <2> QED
    BY DEF BeginKill, moduleVars, objectVars, threadVars, historyVars
<1>15. CASE \E s \in Slots : EndKill(s)
  <2> PICK s \in Slots : EndKill(s)
    BY <1>15
  <2> QED
    BY DEF EndKill, moduleVars, objectVars, threadVars, historyVars
<1>8. CASE \E s \in Slots : Forget(s)
  <2> PICK s \in Slots : Forget(s)
    BY <1>8
  <2>1. main' \in [op : {"idle", "start", "finish", "kill"}, left : SUBSET Slots]
    BY DEF Forget, Idle
  <2> QED
    BY <2>1 DEF Forget, moduleVars, objectVars, threadVars, historyVars
<1>9. CASE \E id \in IDs : Connect(id) \/ StartServer(id) \/ StartBroadcast(id)
  BY <1>9 DEF Connect, StartServer, StartBroadcast, NewInstance, AddInstance, Types,
              moduleVars, threadVars, Record
<1>10. CASE \E t \in Threads, o \in Objects : BeginFunction(t, o)
  BY <1>10 DEF BeginFunction, moduleVars, objectVars, historyVars
<1>11. CASE \E t \in Threads : \/ EndFunction(t) \/ EndCommand(t) \/ FunctionKills(t)
                              \/ EnterGroup(t) \/ EnteredGroup(t)
  BY <1>11 DEF EndFunction, EndCommand, FunctionKills, EnterGroup, EnteredGroup, moduleVars, objectVars, historyVars
<1>12. CASE \E t \in Threads : RequestDestroy(t)
  <2> PICK t \in Threads : RequestDestroy(t)
    BY <1>12
  <2> QED
    BY DEF RequestDestroy, moduleVars, objectVars, threadVars, historyVars
<1>13. CASE \E t \in Threads : InstanceCommand(t)
  <2> PICK t \in Threads : InstanceCommand(t)
    BY <1>13
  <2> QED
    BY InstanceCommandUses DEF InFunctionWithSlot, Loaded, moduleVars, objectVars, historyVars
<1>14. CASE UNCHANGED vars
  BY <1>14 DEF vars, moduleVars, objectVars, threadVars, historyVars
<1> QED
  BY <1>1, <1>2, <1>3, <1>4, <1>5, <1>6, <1>7, <1>8, <1>9, <1>10, <1>11, <1>12, <1>13, <1>14, <1>15
     DEF Next

\* The slots and the instances keep naming each other.
LEMMA NextSlotted ==
  ASSUME Typed, Slotted, [Next]_vars
  PROVE  Slotted'
<1> USE CommandsAssumption DEF Slotted, Exists, Destroyed
<1>1. CASE StartFails \/ CreateInstanceGroup \/ UNCHANGED vars
  BY <1>1 DEF StartFails, CreateInstanceGroup, Idle, objectVars, historyVars, vars
<1>2. CASE Start \/ FinishModule
  BY <1>2 DEF Start, FinishModule, Loaded, objectVars, historyVars
<1>3. CASE DestroyCompletionPort
  BY <1>3 DEF DestroyCompletionPort, Idle, objectVars, historyVars
<1>4. CASE \E s \in Slots : FinishInstance(s) \/ DisconnectClient(s) \/ ClientConnected(s)
  BY <1>4 DEF FinishInstance, DisconnectClient, ClientConnected, KillInstance, Loaded, IsIdle, Idle,
              objectVars, historyVars
<1>5. CASE \E s \in Slots : BeginKill(s)
  BY <1>5 DEF BeginKill, Typed, historyVars
<1>6. CASE \E s \in Slots : EndKill(s)
  <2> PICK s \in Slots : EndKill(s)
    BY <1>6
  <2> DEFINE o == slot[s]
  <2>1. /\ o \in Objects /\ s \in main.left
        /\ state' = [state EXCEPT ![o] = "deleted"]
        /\ UNCHANGED <<slot, object, lost, main>>
    BY DEF EndKill, Typed, historyVars
  <2>2. \A x \in Slots \ {s} : slot[x] # None => slot[x] # o
    BY <2>1
  <2>3. state'[o] = "deleted" /\ \A x \in Objects \ {o} : state'[x] = state[x]
    BY <2>1 DEF Typed
  <2>4. \A x \in Slots : slot[x] # None => slot[x] \in Objects
    BY DEF Typed
  <2>5. \A x \in Slots : slot'[x] # None =>
          /\ object'[slot'[x]].id = x /\ slot'[x] \notin lost'
          /\ Exists(slot[x])' \/ (x \in main'.left /\ Destroyed(slot[x])')
    BY <2>1, <2>2, <2>3, <2>4
  <2>6. \A x \in Objects \ lost' : Exists(x)' =>
          object'[x].id \in Slots /\ slot'[object'[x].id] = x
    BY <2>1, <2>3
  <2>7. \A x \in lost' : state'[x] # "unused"
    BY <2>1, <2>3 DEF Typed
  <2> QED
    BY <2>1, <2>5, <2>6, <2>7
<1>10. CASE \E s \in Slots : Forget(s)
  <2> PICK s \in Slots : Forget(s)
    BY <1>10
  <2>1. /\ slot[s] \in Objects /\ s \in main.left /\ state[slot[s]] = "deleted"
        /\ slot' = [slot EXCEPT ![s] = None]
        /\ UNCHANGED <<state, object, lost>>
    BY DEF Forget, Typed, objectVars, historyVars
  <2>2. main'.left = main.left \ {s}
    BY DEF Forget, Idle, Typed
  <2>3. slot'[s] = None /\ \A x \in Slots \ {s} : slot'[x] = slot[x]
    BY <2>1 DEF Typed
  <2>4. \A x \in Objects \ lost' : Exists(x)' =>
          object'[x].id \in Slots /\ slot'[object'[x].id] = x
    BY <2>1, <2>3
  <2> QED
    BY <2>1, <2>2, <2>3, <2>4
<1>7. CASE \E id \in IDs : Connect(id) \/ StartServer(id) \/ StartBroadcast(id)
  <2>1. PICK id \in IDs, type \in Types, o \in Objects :
          /\ state[o] = "unused"
          /\ state' = [state EXCEPT ![o] = "live"]
          /\ object' = [object EXCEPT ![o] = [type |-> type, port |-> port, id |-> id]]
          /\ AddInstance(o, id)
          /\ UNCHANGED main
    BY <1>7 DEF Connect, StartServer, StartBroadcast, NewInstance, Types
  <2>2. o \notin lost /\ \A x \in Slots : slot[x] # o
    BY <2>1 DEF Typed
  <2>3. object'[o].id = id
    BY <2>1 DEF Typed
  <2>4. \A x \in Objects \ {o} : object'[x] = object[x] /\ state'[x] = state[x]
    BY <2>1 DEF Typed
  <2>5. CASE id \in Slots /\ slot[id] = None
    BY <2>1, <2>2, <2>3, <2>4, <2>5 DEF AddInstance, Typed
  <2>6. CASE ~(id \in Slots /\ slot[id] = None)
    BY <2>1, <2>2, <2>3, <2>4, <2>6 DEF AddInstance, Typed
  <2> QED
    BY <2>5, <2>6
<1>8. CASE \E t \in Threads : \/ \E o \in Objects : BeginFunction(t, o)
                              \/ EndFunction(t) \/ RequestDestroy(t) \/ FunctionKills(t)
                              \/ EndCommand(t) \/ EnterGroup(t) \/ EnteredGroup(t)
  BY <1>8 DEF BeginFunction, EndFunction, RequestDestroy, FunctionKills, EndCommand,
              EnterGroup, EnteredGroup, objectVars, historyVars
<1>9. CASE \E t \in Threads : InstanceCommand(t)
  BY <1>9, InstanceCommandUses DEF objectVars, historyVars
<1> QED
  BY <1>1, <1>2, <1>3, <1>4, <1>5, <1>6, <1>7, <1>8, <1>9, <1>10 DEF Next

\* Functions keep an instance that exists: the destructor waits for them.
LEMMA NextFunctions ==
  ASSUME Typed, Slotted, Functions, [Next]_vars
  PROVE  Functions'
<1> USE CommandsAssumption DEF Functions, Exists
<1>1. CASE StartFails \/ Start \/ CreateInstanceGroup \/ FinishModule \/ UNCHANGED vars
  BY <1>1 DEF StartFails, Start, CreateInstanceGroup, FinishModule, objectVars, threadVars,
              historyVars, vars
<1>2. CASE DestroyCompletionPort
  BY <1>2 DEF DestroyCompletionPort, objectVars, threadVars, historyVars
<1>3. CASE \E s \in Slots : FinishInstance(s) \/ DisconnectClient(s) \/ ClientConnected(s)
  BY <1>3 DEF FinishInstance, DisconnectClient, ClientConnected, KillInstance,
              objectVars, threadVars, historyVars
<1>4. CASE \E s \in Slots : BeginKill(s)
  BY <1>4 DEF BeginKill, Typed, threadVars, historyVars
<1>5. CASE \E s \in Slots : EndKill(s) \/ Forget(s)
  BY <1>5 DEF EndKill, Forget, InFunction, Typed, objectVars, threadVars, historyVars
<1>6. CASE \E id \in IDs : Connect(id) \/ StartServer(id) \/ StartBroadcast(id)
  <2>1. PICK o \in Objects :
          /\ state[o] = "unused"
          /\ state' = [state EXCEPT ![o] = "live"]
          /\ lost' \in {lost, lost \union {o}}
          /\ UNCHANGED <<dealing, using>>
    BY <1>6 DEF Connect, StartServer, StartBroadcast, NewInstance, AddInstance, threadVars
  <2> QED
    BY <2>1 DEF Typed
<1>7. CASE \E t \in Threads : \E o \in Objects : BeginFunction(t, o)
  BY <1>7 DEF BeginFunction, Typed, objectVars, historyVars
<1>8. CASE \E t \in Threads : \/ EndFunction(t) \/ RequestDestroy(t)
                              \/ FunctionKills(t) \/ EndCommand(t)
                              \/ EnterGroup(t) \/ EnteredGroup(t)
  BY <1>8 DEF EndFunction, RequestDestroy, FunctionKills, EndCommand, EnterGroup,
              EnteredGroup, Typed, objectVars, threadVars, historyVars
<1>9. CASE \E t \in Threads : InstanceCommand(t)
  BY <1>9, InstanceCommandUses DEF objectVars, historyVars
<1> QED
  BY <1>1, <1>2, <1>3, <1>4, <1>5, <1>6, <1>7, <1>8, <1>9 DEF Next

\* Instances stay those of the completion port that runs.
LEMMA NextServed ==
  ASSUME Typed, Slotted, Served, [Next]_vars
  PROVE  Served'
<1> USE CommandsAssumption DEF Served
<1>1. CASE StartFails \/ UNCHANGED vars
  BY <1>1 DEF StartFails, objectVars, vars
<1>2. CASE Start
  BY <1>2 DEF Start, SetupCompletionPort, Loaded, Typed, objectVars
<1>3. CASE CreateInstanceGroup
  BY <1>3 DEF CreateInstanceGroup, Idle, moduleVars, objectVars
<1>4. CASE FinishModule
  BY <1>4 DEF FinishModule, Loaded, objectVars
<1>5. CASE DestroyCompletionPort
  BY <1>5 DEF DestroyCompletionPort, Idle, objectVars
<1>6. CASE \E s \in Slots : FinishInstance(s) \/ DisconnectClient(s) \/ ClientConnected(s)
  BY <1>6 DEF FinishInstance, DisconnectClient, ClientConnected, KillInstance, IsIdle, Idle,
              moduleVars, objectVars
<1>7. CASE \E s \in Slots : BeginKill(s)
  BY <1>7 DEF BeginKill, moduleVars
<1>8. CASE \E s \in Slots : EndKill(s)
  BY <1>8 DEF EndKill, moduleVars
<1>12. CASE \E s \in Slots : Forget(s)
  BY <1>12 DEF Forget, Idle, Typed, moduleVars, objectVars
<1>9. CASE \E id \in IDs : Connect(id) \/ StartServer(id) \/ StartBroadcast(id)
  <2>1. PICK id \in IDs, type \in Types, o \in Objects :
          /\ main = Idle /\ port # None /\ group
          /\ state[o] = "unused"
          /\ object' = [object EXCEPT ![o] = [type |-> type, port |-> port, id |-> id]]
          /\ AddInstance(o, id)
          /\ UNCHANGED <<port, portState, known, group, main>>
    BY <1>9 DEF Connect, StartServer, StartBroadcast, NewInstance, IsIdle, Types, moduleVars
  <2>2. object'[o].port = port
    BY <2>1 DEF Typed
  <2>3. \A x \in Slots : slot'[x] # None => slot'[x] = o \/ (slot'[x] = slot[x] /\ slot[x] # o)
    BY <2>1 DEF AddInstance, Slotted, Exists, Typed
  <2>4. \A x \in Slots : slot'[x] # None => object'[slot'[x]].port = port
    BY <2>1, <2>2, <2>3 DEF Idle, Typed
  <2> QED
    BY <2>1, <2>4 DEF Idle
<1>10. CASE \E t \in Threads : \/ \E o \in Objects : BeginFunction(t, o)
                               \/ EndFunction(t) \/ RequestDestroy(t) \/ FunctionKills(t)
                               \/ EndCommand(t) \/ EnterGroup(t) \/ EnteredGroup(t)
  BY <1>10 DEF BeginFunction, EndFunction, RequestDestroy, FunctionKills, EndCommand,
               EnterGroup, EnteredGroup, moduleVars, objectVars
<1>11. CASE \E t \in Threads : InstanceCommand(t)
  BY <1>11, InstanceCommandUses DEF moduleVars, objectVars
<1> QED
  BY <1>1, <1>2, <1>3, <1>4, <1>5, <1>6, <1>7, <1>8, <1>9, <1>10, <1>11, <1>12 DEF Next

\* One completion port more or less.
LEMMA CountedOnce ==
  ASSUME NEW n \in Nat, NEW k \in Nat
  PROVE  /\ n * (1 + k) + 1 + k = (n + 1) * (1 + k)
         /\ n = 0 => ~ (n * (1 + k) > 1 + k)
         /\ n # 0 => n * (1 + k) # 0
         /\ n # 0 => /\ n - 1 \in Nat
                     /\ n * (1 + k) - (1 + k) = (n - 1) * (1 + k)
                     /\ n * (1 + k) > 1 + k <=> n # 1
<1>1. n * (1 + k) + 1 + k = (n + 1) * (1 + k) /\ (n = 0 => ~ (n * (1 + k) > 1 + k))
  OBVIOUS
<1>2. n # 0 => n - 1 \in Nat /\ n * (1 + k) - (1 + k) = (n - 1) * (1 + k)
  OBVIOUS
<1>3. ASSUME NEW m \in Nat PROVE m * (1 + k) \in Nat /\ (m # 0 <=> m * (1 + k) > 0)
  OBVIOUS
<1>4. n # 0 => (n * (1 + k) # 0 /\ (n * (1 + k) > 1 + k <=> n # 1))
  BY <1>2, <1>3
<1> QED
  BY <1>1, <1>2, <1>4

\* A completion port has as many threads as there are workers.
LEMMA ThreadsOfPort ==
  ASSUME NEW p \in Ports
  PROVE  Cardinality({t \in Threads : t[1] = p}) = Cardinality(Workers)
<1> DEFINE mine == {t \in Threads : t[1] = p}
           f == [w \in Workers |-> <<p, w>>]
<1>1. f \in [Workers -> mine]
  BY DEF Threads
<1>2. IsInjective(f)
  BY DEF IsInjective
<1>3. \A t \in mine : \E w \in Workers : f[w] = t
  BY DEF Threads
<1> HIDE DEF f, mine
<1>4. ExistsBijection(Workers, mine)
  BY <1>1, <1>2, <1>3 DEF ExistsBijection, Bijection, Injection, Surjection
<1>5. Cardinality(mine) = Cardinality(Workers)
  BY <1>4, CommandsAssumption, FS_Bijection
<1> QED
  BY <1>5 DEF mine

\* The count stays that of the completion ports that run.
LEMMA NextCounted ==
  ASSUME Typed, Served, Functions, Counted, [Next]_vars
  PROVE  Counted'
<1> USE CommandsAssumption DEF Counted
<1> DEFINE k == Cardinality(Workers)
           n == Cardinality(Running)
<1>k. k \in Nat /\ n \in Nat
  BY FS_CardinalityType
<1>1. CASE StartFails \/ UNCHANGED vars
  BY <1>1 DEF StartFails, Running, threadVars, historyVars, vars
<1>2. CASE Start
  <2>1. PICK p \in Ports : SetupCompletionPort(p)
    BY <1>2 DEF Start
  <2>2. Running' = Running \union {p} /\ p \notin Running
    BY <2>1 DEF SetupCompletionPort, Running, Typed
  <2>3. IsFiniteSet(Running') /\ Cardinality(Running') = n + 1
    BY <2>2, FS_AddElement
  <2>4. /\ main'.op = "start" /\ UNCHANGED <<dealing, workerKill, misused>>
        /\ tls' = tls + 1 + k
        /\ known' = known \union ({p} \X Workers)
        /\ \A t \in Threads : portState'[t[1]] = "running" <=> portState[t[1]] = "running" \/ t[1] = p
    BY <1>2, <2>1 DEF Start, SetupCompletionPort, Threads, threadVars, historyVars, Typed
  <2>5. ~misused => tls' = Cardinality(Running') * (1 + k)
    <3> HIDE DEF k, n
    <3>1. ~misused => tls = n * (1 + k)
      BY DEF k, n
    <3> QED
      BY <1>k, <2>3, <2>4, <3>1, CountedOnce
  <2>6. \A t \in Threads : t[1] = p => t \in known'
    BY <2>4 DEF Threads
  <2> QED
    BY <2>3, <2>4, <2>5, <2>6 DEF Threads
<1>3. CASE CreateInstanceGroup
  BY <1>3 DEF CreateInstanceGroup, Idle, Running, moduleVars, threadVars, historyVars
<1>4. CASE FinishModule
  BY <1>4 DEF FinishModule, Running, threadVars
<1>5. CASE DestroyCompletionPort
  <2> DEFINE mine == {t \in Threads : t[1] = port}
  <2>1. /\ main.op = "finish" /\ main' = Idle
        /\ portState' = [p \in Ports |-> IF p = port THEN "gone" ELSE portState[p]]
        /\ \A t \in mine : dealing[t] = None
        /\ UNCHANGED <<dealing, workerKill, misused>>
    BY <1>5 DEF DestroyCompletionPort, threadVars, historyVars
  <2>2. Running' = Running \ {port}
    BY <2>1 DEF Running
  <2>3. IsFiniteSet(Running')
    BY <2>2, FS_Subset
  <2>4. \A t \in Threads : portState'[t[1]] = "running" => portState[t[1]] = "running" /\ t \notin mine
    BY <2>1 DEF Threads
  <2>5. ASSUME ~misused
        PROVE  /\ tls' = Cardinality(Running') * (1 + k)
               /\ \A t \in Threads : portState'[t[1]] = "running" => t \in known'
    <3>1. port \in Running
      BY <2>1, <2>5 DEF Served, Running, Typed
    <3>2. Cardinality(Running') = n - 1
      BY <2>2, <3>1, FS_RemoveElement
    <3>3. n # 0
      BY <3>1, FS_EmptySet
    <3>4. Cardinality(mine) = k
      BY <3>1, ThreadsOfPort DEF Running
    <3>5. /\ tls' = IF tls > 1 + Cardinality(mine) THEN tls - (1 + Cardinality(mine)) ELSE 0
          /\ known' = IF tls > 1 + Cardinality(mine) THEN known \ mine ELSE {}
      BY <1>5 DEF DestroyCompletionPort
    <3>6. /\ tls' = IF tls > 1 + k THEN tls - (1 + k) ELSE 0
          /\ known' = IF tls > 1 + k THEN known \ mine ELSE {}
      BY <3>4, <3>5
    <3>7. tls = n * (1 + k)
      BY <2>5
    <3>8. \A t \in Threads : portState[t[1]] = "running" => t \in known
      BY <2>5
    <3>9. CASE n # 1
      <4>1. tls > 1 + k /\ tls - (1 + k) = (n - 1) * (1 + k)
        <5> HIDE DEF k, n
        <5> QED
          BY <1>k, <3>3, <3>7, <3>9, CountedOnce
      <4> QED
        BY <2>4, <3>2, <3>6, <3>8, <4>1
    <3>10. CASE n = 1
      <4>1. ~(tls > 1 + k) /\ (n - 1) * (1 + k) = 0
        <5> HIDE DEF k, n
        <5> QED
          BY <1>k, <3>7, <3>10, CountedOnce
      <4>2. Running' = {}
        BY <2>3, <3>2, <3>10, FS_EmptySet
      <4>3. \A t \in Threads : portState'[t[1]] # "running"
        BY <4>2 DEF Running, Threads
      <4> QED
        BY <3>2, <3>6, <4>1, <4>3
    <3> QED
      BY <3>9, <3>10
  <2>6. \A t \in Threads : dealing'[t] # None => portState'[t[1]] = "running"
    BY <2>1 DEF Threads
  <2> QED
    BY <2>1, <2>3, <2>5, <2>6 DEF Idle
<1>6. ASSUME UNCHANGED <<port, portState, tls, known, dealing, workerKill, misused>>,
             main'.op = "finish" => main.op = "finish"
      PROVE  Counted'
  <2>1. Running' = Running
    BY <1>6 DEF Running
  <2>2. Cardinality(Running)' = Cardinality(Running) /\ Cardinality(Workers)' = Cardinality(Workers)
    BY <2>1
  <2> QED
    BY <1>6, <2>1, <2>2
<1>7. CASE \E s \in Slots : \/ FinishInstance(s) \/ DisconnectClient(s) \/ ClientConnected(s)
                            \/ BeginKill(s) \/ EndKill(s) \/ Forget(s)
  <2>1. main'.op = "finish" => main.op = "finish"
    BY <1>7 DEF FinishInstance, DisconnectClient, ClientConnected, KillInstance, BeginKill,
                EndKill, Forget, Idle, Typed
  <2>2. UNCHANGED <<port, portState, tls, known, dealing, workerKill, misused>>
    BY <1>7 DEF FinishInstance, DisconnectClient, ClientConnected, KillInstance, BeginKill,
                EndKill, Forget, moduleVars, threadVars, historyVars
  <2> QED
    BY <1>6, <2>1, <2>2
<1>8. CASE \E id \in IDs : Connect(id) \/ StartServer(id) \/ StartBroadcast(id)
  <2>1. UNCHANGED <<port, portState, tls, known, main, dealing, workerKill, misused>>
    BY <1>8 DEF Connect, StartServer, StartBroadcast, NewInstance, moduleVars, threadVars
  <2> QED
    BY <1>6, <2>1
<1>9. CASE \E t \in Threads : \/ \E o \in Objects : BeginFunction(t, o)
                              \/ EndFunction(t)
  <2>1. UNCHANGED <<port, portState, tls, known, main, workerKill, misused>>
    BY <1>9 DEF BeginFunction, EndFunction, moduleVars, historyVars
  <2>2. Cardinality(Running)' = Cardinality(Running) /\ Running' = Running
    BY <2>1 DEF Running
  <2>3. \A t \in Threads : dealing'[t] # None => portState'[t[1]] = "running"
    BY <1>9, <2>1 DEF BeginFunction, EndFunction, Typed
  <2> QED
    BY <2>1, <2>2, <2>3
<1>10. CASE \E t \in Threads : \/ RequestDestroy(t) \/ EndCommand(t)
                               \/ EnterGroup(t) \/ EnteredGroup(t)
  <2>1. UNCHANGED <<port, portState, tls, known, main, dealing, workerKill, misused>>
    BY <1>10 DEF RequestDestroy, EndCommand, EnterGroup, EnteredGroup, moduleVars,
                 threadVars, historyVars
  <2> QED
    BY <1>6, <2>1
<1>11. CASE \E t \in Threads : FunctionKills(t)
  <2> PICK t \in Threads : FunctionKills(t)
    BY <1>11
  <2>1. dealing[t] # None /\ portState[t[1]] = "running" /\ (tls = 0 \/ t \notin known)
    BY DEF FunctionKills, InFunctionWithSlot, InFunctionCode, MayKill
  <2>2. n # 0
    <3>1. t[1] \in Running
      BY <2>1 DEF Running, Threads
    <3> QED
      BY <3>1, FS_EmptySet
  <2>3. misused
    <3>1. ~misused => tls # 0
      <4> HIDE DEF k, n
      <4>1. ~misused => tls = n * (1 + k)
        BY DEF k, n
      <4> QED
        BY <1>k, <2>2, <4>1, CountedOnce
    <3> QED
      BY <2>1, <3>1
  <2> QED
    BY <2>3 DEF FunctionKills, Running, moduleVars, historyVars
<1>12. CASE \E t \in Threads : InstanceCommand(t)
  BY <1>12, InstanceCommandUses DEF Running, moduleVars, historyVars
<1> QED
  BY <1>1, <1>2, <1>3, <1>4, <1>5, <1>6, <1>7, <1>8, <1>9, <1>10, <1>11, <1>12 DEF Next

-----------------------------------------------------------------------------
\* The types, the slots, the functions, the completion ports and the count of thread
\* local storage stay as the module's commands leave them.
THEOREM Inductive == Spec => []IInv
<1>1. IInv /\ [Next]_vars => IInv'
  BY NextTyped, NextSlotted, NextFunctions, NextServed, NextCounted DEF IInv
<1> QED
  BY <1>1, InitIInv, PTL DEF Spec

\* However the main thread starts, finishes and restarts the module and its instances,
\* a receive function finds its own instance, and finds it alive, with each command it
\* gives that ID to: KillInstance waits for the functions of the instance, and nothing
\* else is put into its slot, unless the instance was lost.
THEOREM CommandsUseLiveInstancesHolds == Spec => []CommandsUseLiveInstances
<1>1. IInv => CommandsUseLiveInstances
  <2> SUFFICES ASSUME IInv, NEW t \in Threads, dealing[t] # None
               PROVE  /\ ~Destroyed(dealing[t])
                      /\ dealing[t] \notin lost => group /\ slot[object[dealing[t]].id] = dealing[t]
    BY DEF CommandsUseLiveInstances
  <2>1. Exists(dealing[t]) /\ dealing[t] \in Objects
    BY DEF IInv, Functions, Typed
  <2>2. dealing[t] \notin lost =>
          object[dealing[t]].id \in Slots /\ slot[object[dealing[t]].id] = dealing[t]
    BY <2>1 DEF IInv, Slotted
  <2> QED
    BY <2>1, <2>2 DEF IInv, Served, Exists, Destroyed
<1> QED
  BY <1>1, Inductive, PTL

\* As long as mn::Finish is not called when the module is not active, no completion
\* port thread passes for the main thread: KillInstance by it does nothing.
THEOREM OnlyMainDeletesHolds == Spec => []OnlyMainDeletes
<1>1. IInv => OnlyMainDeletes
  BY DEF IInv, Counted, OnlyMainDeletes
<1> QED
  BY <1>1, Inductive, PTL

\* While the main thread is in no command of the module, an instance that was not lost
\* is in the slot of its ID, and the threads of its completion port run and are known
\* as such: Start deletes the instances of an earlier port before it returns.
THEOREM InstancesAreServedHolds == Spec => []InstancesAreServed
<1>1. IInv => InstancesAreServed
  <2> SUFFICES ASSUME IInv, main = Idle, NEW o \in Objects \ lost,
                      state[o] \notin {"unused", "deleted"}
               PROVE  /\ group /\ port # None
                      /\ object[o].id \in Slots /\ slot[object[o].id] = o
                      /\ portState[object[o].port] = "running"
                      /\ \A w \in Workers : <<object[o].port, w>> \in known
    BY DEF InstancesAreServed
  <2>1. object[o].id \in Slots /\ slot[object[o].id] = o /\ o # None
    BY CommandsAssumption DEF IInv, Typed, Slotted, Exists
  <2>2. group /\ port # None /\ object[o].port = port
    BY <2>1 DEF IInv, Served, Idle
  <2> QED
    BY <2>1, <2>2 DEF IInv, Served
<1> QED
  BY <1>1, Inductive, PTL

-----------------------------------------------------------------------------
(***************************************************************************)
(* Packets: what a block of memory is, at any size.                        *)
(***************************************************************************)
Blocks == [memory : Seq(Bytes), memSize : Nat, used : Nat, cursor : Nat, head : {0, 1}]

\* The block is as large as the packet knows, unless it was given away; what is in use
\* is in it, and the cursor in what is in use.
Fits(pk, max) ==
  /\ pk \in Blocks
  /\ Len(pk.memory) \in {0, pk.memSize}
  /\ pk.used <= pk.memSize /\ pk.memSize <= max /\ pk.cursor <= pk.used

\* What is written is in the block, and the rest of it is as it was.
LEMMA OverwriteFacts ==
  ASSUME NEW memory \in Seq(Bytes), NEW at \in Nat, NEW bytes \in Seq(Bytes)
  PROVE  /\ Overwrite(memory, at, bytes) \in Seq(Bytes)
         /\ Len(Overwrite(memory, at, bytes)) = Len(memory)
         /\ \A i \in 1..Len(memory) :
              Overwrite(memory, at, bytes)[i] =
                IF i > at /\ i <= at + Len(bytes) THEN bytes[i - at] ELSE memory[i]
BY DEF Overwrite

\* New memory.
LEMMA NewMemory ==
  ASSUME NEW n \in Nat
  PROVE  /\ [i \in 1..n |-> Junk] \in Seq(Bytes)
         /\ Len([i \in 1..n |-> Junk]) = n
BY DEF Bytes

\* A new packet.
LEMMA NewFacts ==
  ASSUME NEW max \in Nat
  PROVE  /\ Fits(New, max) /\ ~Dangling(New)
         /\ New.memory = <<>> /\ New.memSize = 0 /\ New.used = 0 /\ New.cursor = 0
BY DEF Fits, New, Blocks, Dangling

\* Clear keeps the block.
LEMMA ClearedFacts ==
  ASSUME NEW pk \in Blocks
  PROVE  /\ Cleared(pk) \in Blocks
         /\ Cleared(pk).memory = pk.memory /\ Cleared(pk).memSize = pk.memSize
         /\ Cleared(pk).used = 0 /\ Cleared(pk).cursor = 0 /\ Cleared(pk).head = 0
BY DEF Cleared, Blocks

\* SetMemorySize drops the data, and makes a new block if the size is another one.
LEMMA WithMemoryFacts ==
  ASSUME NEW pk \in Blocks, NEW n \in Nat
  PROVE  /\ WithMemory(pk, n) \in Blocks
         /\ WithMemory(pk, n).memSize = n
         /\ n = pk.memSize => WithMemory(pk, n).memory = pk.memory
         /\ n # pk.memSize => Len(WithMemory(pk, n).memory) = n
         /\ WithMemory(pk, n).used = 0 /\ WithMemory(pk, n).cursor = 0
         /\ WithMemory(pk, n).head = 0
<1>1. PICK c \in Blocks : c = Cleared(pk)
  BY ClearedFacts
<1>2. /\ c.memory = pk.memory /\ c.memSize = pk.memSize
      /\ c.used = 0 /\ c.cursor = 0 /\ c.head = 0
  BY <1>1, ClearedFacts
<1>3. WithMemory(pk, n) =
        [c EXCEPT !.memSize = n, !.memory = IF n = pk.memSize THEN @ ELSE [i \in 1..n |-> Junk]]
  BY <1>1 DEF WithMemory
<1>4. [i \in 1..n |-> Junk] \in Seq(Bytes) /\ Len([i \in 1..n |-> Junk]) = n
  BY NewMemory
<1> HIDE DEF WithMemory
<1> QED
  BY <1>2, <1>3, <1>4 DEF Blocks

\* The data of a packet: a sequence of bytes, if it is all there.
LEMMA DataFacts ==
  ASSUME NEW pk \in Blocks, ~Outside(pk, 0, pk.used)
  PROVE  /\ Data(pk) \in Seq(Bytes) /\ Len(Data(pk)) = pk.used
         /\ \A i \in 1..pk.used : Data(pk)[i] = pk.memory[i]
         /\ pk.used <= Len(pk.memory)
BY DEF Data, Outside, Blocks

\* Copy: the block is large enough, and begins with the data.
LEMMA CopiedFacts ==
  ASSUME NEW pk \in Blocks, Len(pk.memory) \in {0, pk.memSize},
         NEW from \in Blocks, from.cursor <= from.used, ~Outside(from, 0, from.used),
         pk.memSize < from.used \/ from.used <= Len(pk.memory)
  PROVE  /\ Copied(pk, from) \in Blocks
         /\ Copied(pk, from).memSize = (IF from.used > pk.memSize THEN from.used ELSE pk.memSize)
         /\ from.used > pk.memSize => Len(Copied(pk, from).memory) = from.used
         /\ from.used <= pk.memSize => Len(Copied(pk, from).memory) = Len(pk.memory)
         /\ Copied(pk, from).used = from.used /\ Copied(pk, from).cursor = from.cursor
         /\ Copied(pk, from).head = from.head
         /\ \A i \in 1..from.used : Copied(pk, from).memory[i] = from.memory[i]
<1>1. from.used \in Nat /\ pk.memSize \in Nat /\ pk.memory \in Seq(Bytes) /\ Len(pk.memory) \in Nat
  BY DEF Blocks
<1>2. PICK room \in Blocks : room = IF from.used > pk.memSize THEN WithMemory(pk, from.used) ELSE pk
  BY <1>1, WithMemoryFacts
<1>3. /\ from.used > pk.memSize => room.memSize = from.used /\ Len(room.memory) = from.used
      /\ from.used <= pk.memSize => room.memSize = pk.memSize /\ room.memory = pk.memory
  <2>1. CASE from.used > pk.memSize
    <3>1. from.used # pk.memSize /\ ~(from.used <= pk.memSize)
      BY <1>1, <2>1
    <3>2. room = WithMemory(pk, from.used)
      BY <1>2, <2>1
    <3>3. /\ WithMemory(pk, from.used).memSize = from.used
          /\ Len(WithMemory(pk, from.used).memory) = from.used
      BY <1>1, <3>1, WithMemoryFacts
    <3> QED
      BY <3>1, <3>2, <3>3
  <2>2. CASE from.used <= pk.memSize
    BY <1>1, <1>2, <2>2
  <2> QED
    BY <1>1, <2>1, <2>2
<1>4. /\ Data(from) \in Seq(Bytes) /\ Len(Data(from)) = from.used
      /\ \A i \in 1..from.used : Data(from)[i] = from.memory[i]
  BY DataFacts
<1>5. PICK memory \in Seq(Bytes) : memory = Overwrite(room.memory, 0, Data(from))
  BY <1>4, OverwriteFacts DEF Blocks
<1>6. room.memory \in Seq(Bytes) /\ Len(room.memory) \in Nat
  BY DEF Blocks
<1>7. Len(memory) = Len(room.memory)
  BY <1>4, <1>5, <1>6, OverwriteFacts
<1>8. from.used <= Len(memory)
  BY <1>1, <1>3, <1>7
<1>9. ASSUME NEW i \in 1..from.used
      PROVE  memory[i] = from.memory[i]
  <2>1. i \in 1..Len(room.memory) /\ i > 0 /\ i <= 0 + Len(Data(from)) /\ i - 0 = i
    BY <1>1, <1>4, <1>6, <1>7, <1>8
  <2>2. memory[i] = Data(from)[i - 0]
    BY <1>4, <1>5, <1>6, <2>1, OverwriteFacts
  <2> QED
    BY <1>4, <2>1, <2>2
<1>10. Copied(pk, from) = [from EXCEPT !.memSize = room.memSize, !.memory = memory]
  BY <1>2, <1>5 DEF Copied
<1> HIDE DEF Copied
<1>11. /\ Copied(pk, from).memory = memory /\ Copied(pk, from).memSize = room.memSize
       /\ Copied(pk, from).used = from.used /\ Copied(pk, from).cursor = from.cursor
       /\ Copied(pk, from).head = from.head
       /\ Copied(pk, from) \in Blocks
  BY <1>10 DEF Blocks
<1> QED
  BY <1>1, <1>3, <1>7, <1>9, <1>11

\* ChangeMemorySize keeps the data, the cursor and the head, unless the size is 0.
LEMMA ResizedFacts ==
  ASSUME NEW max \in Nat, NEW pk, Fits(pk, max), NEW n \in 1..max, n # pk.memSize,
         ~Outside(pk, 0, pk.used)
  PROVE  /\ Fits(Resized(pk, n), max) /\ ~Dangling(Resized(pk, n))
         /\ Resized(pk, n).memSize >= n /\ Resized(pk, n).memSize >= pk.used
         /\ Resized(pk, n).used = pk.used /\ Resized(pk, n).cursor = pk.cursor
         /\ Resized(pk, n).head = pk.head
         /\ \A i \in 1..pk.used : Resized(pk, n).memory[i] = pk.memory[i]
<1>1. PICK room \in Blocks : room = WithMemory(pk, n)
  BY WithMemoryFacts DEF Fits
<1>2. room.memSize = n /\ Len(room.memory) = n
  <2>1. /\ WithMemory(pk, n).memSize = n
        /\ Len(WithMemory(pk, n).memory) = n
    BY WithMemoryFacts DEF Fits
  <2> QED
    BY <1>1, <2>1
<1>3. Resized(pk, n) = Copied(room, pk)
  BY <1>1 DEF Resized
<1>4. /\ pk \in Blocks /\ pk.used \in Nat /\ pk.memSize \in Nat /\ pk.cursor \in Nat
      /\ pk.cursor <= pk.used /\ pk.used <= max
  BY DEF Fits, Blocks
<1>5. PICK new \in Blocks : new = Copied(room, pk)
  BY <1>2, <1>4, CopiedFacts
<1>6. /\ new.memSize = IF pk.used > n THEN pk.used ELSE n
      /\ Len(new.memory) = new.memSize
      /\ new.used = pk.used /\ new.cursor = pk.cursor /\ new.head = pk.head
      /\ \A i \in 1..pk.used : new.memory[i] = pk.memory[i]
  BY <1>2, <1>4, <1>5, CopiedFacts
<1>7. new.memSize \in Nat /\ new.memSize >= n /\ new.memSize >= pk.used /\ new.memSize <= max
  BY <1>4, <1>6
<1> QED
  BY <1>3, <1>4, <1>5, <1>6, <1>7 DEF Fits, Dangling, Blocks

-----------------------------------------------------------------------------
(***************************************************************************)
(* What each method makes of a packet, and of its data.                    *)
(***************************************************************************)
\* What a method makes of a packet fits, and is as whole as the packet was.
Keeps(pk, new, max) == Fits(new, max) /\ (~Dangling(pk) => ~Dangling(new))

\* What is in use of a whole block is there.
LEMMA WholeFacts ==
  ASSUME NEW max \in Nat, NEW pk, Fits(pk, max), ~Dangling(pk)
  PROVE  /\ pk \in Blocks /\ pk.memory \in Seq(Bytes) /\ pk.used \in 0..max /\ pk.cursor \in 0..pk.used
         /\ Len(pk.memory) = pk.memSize /\ pk.memSize \in Nat /\ pk.used <= Len(pk.memory)
         /\ ~Outside(pk, 0, pk.used)
         /\ \A end : ~GrowFaults(pk, end)
         /\ Data(pk) \in Seq(Bytes) /\ Len(Data(pk)) = pk.used
         /\ \A i \in 1..pk.used : Data(pk)[i] = pk.memory[i]
<1>1. /\ pk \in Blocks /\ pk.memory \in Seq(Bytes) /\ pk.used \in 0..max /\ pk.cursor \in 0..pk.used
      /\ Len(pk.memory) = pk.memSize /\ pk.memSize \in Nat /\ pk.used <= Len(pk.memory)
  BY DEF Fits, Blocks, Dangling
<1>2. ~Outside(pk, 0, pk.used)
  BY <1>1 DEF Outside
<1> QED
  BY <1>1, <1>2, DataFacts DEF GrowFaults

\* The data of a whole block is what its bytes are.
LEMMA DataIs ==
  ASSUME NEW max \in Nat, NEW pk, Fits(pk, max), ~Dangling(pk),
         NEW s \in Seq(Bytes), Len(s) = pk.used,
         \A i \in 1..Len(s) : pk.memory[i] = s[i]
  PROVE  Data(pk) = s
<1>1. Data(pk) \in Seq(Bytes) /\ Len(Data(pk)) = Len(s)
  BY WholeFacts
<1>2. \A i \in 1..Len(s) : Data(pk)[i] = s[i]
  BY WholeFacts
<1> QED
  BY <1>1, <1>2, SeqEqual

\* SetUsedSize keeps the data as far as the new size.
LEMMA WithUsedFacts ==
  ASSUME NEW max \in Nat, NEW pk, Fits(pk, max), NEW n \in 0..max, ~GrowFaults(pk, n)
  PROVE  /\ Keeps(pk, WithUsed(pk, n), max)
         /\ WithUsed(pk, n).used = n /\ WithUsed(pk, n).cursor = Lesser(pk.cursor, n)
         /\ \A i \in 1..n : i <= pk.used => WithUsed(pk, n).memory[i] = pk.memory[i]
<1>1. /\ pk \in Blocks /\ pk.used \in Nat /\ pk.memSize \in Nat /\ pk.cursor \in Nat
      /\ pk.cursor <= pk.used /\ pk.used <= pk.memSize /\ pk.memSize <= max
      /\ n \in Nat
  BY DEF Fits, Blocks
<1>2. PICK room : room = IF n > pk.memSize THEN Resized(pk, n) ELSE pk
  OBVIOUS
<1>3. /\ Fits(room, max) /\ (~Dangling(pk) => ~Dangling(room)) /\ n <= room.memSize
      /\ room.cursor = pk.cursor
      /\ \A i \in 1..n : i <= pk.used => room.memory[i] = pk.memory[i]
  <2>1. CASE n > pk.memSize
    <3>1. n \in 1..max /\ n # pk.memSize /\ ~Outside(pk, 0, pk.used) /\ room = Resized(pk, n)
      BY <1>1, <1>2, <2>1 DEF GrowFaults
    <3> QED
      BY <1>1, <3>1, ResizedFacts
  <2>2. CASE ~(n > pk.memSize)
    BY <1>1, <1>2, <2>2
  <2> QED
    BY <2>1, <2>2
<1>4. WithUsed(pk, n) = [room EXCEPT !.used = n, !.cursor = Lesser(@, n)]
  BY <1>2 DEF WithUsed
<1>5. PICK cursor \in Nat : cursor = Lesser(pk.cursor, n) /\ cursor <= n
  BY <1>1 DEF Lesser
<1> HIDE DEF WithUsed, Lesser
<1>6. WithUsed(pk, n) = [room EXCEPT !.used = n, !.cursor = cursor] /\ room \in Blocks
  BY <1>3, <1>4, <1>5 DEF Fits, Blocks
<1>7. /\ WithUsed(pk, n) \in Blocks /\ WithUsed(pk, n).used = n
      /\ WithUsed(pk, n).cursor = cursor
      /\ WithUsed(pk, n).memory = room.memory /\ WithUsed(pk, n).memSize = room.memSize
  BY <1>1, <1>6 DEF Blocks
<1> QED
  BY <1>3, <1>5, <1>7 DEF Fits, Dangling, Keeps

\* The greater of two numbers.
Greater(a, b) == IF a > b THEN a ELSE b

\* Room for data up to a position leaves the data and the cursor.
LEMMA RoomFacts ==
  ASSUME NEW max \in Nat, NEW pk, Fits(pk, max), NEW end \in 0..max, ~GrowFaults(pk, end)
  PROVE  /\ Keeps(pk, Room(pk, end), max)
         /\ Room(pk, end).used = Greater(pk.used, end) /\ Room(pk, end).cursor = pk.cursor
         /\ \A i \in 1..pk.used : Room(pk, end).memory[i] = pk.memory[i]
<1>1. /\ pk.used \in Nat /\ pk.cursor \in Nat /\ pk.cursor <= pk.used
  BY DEF Fits, Blocks
<1>2. CASE end > pk.used
  <2>1. Room(pk, end) = WithUsed(pk, end) /\ Lesser(pk.cursor, end) = pk.cursor
    BY <1>1, <1>2 DEF Room, Lesser
  <2> QED
    BY <1>1, <1>2, <2>1, WithUsedFacts DEF Greater
<1>3. CASE ~(end > pk.used)
  BY <1>1, <1>3 DEF Room, Greater, Keeps
<1> QED
  BY <1>2, <1>3

\* Bytes written at a position, with the cursor at another.
WrittenAt(pk, at, bytes, cursor) ==
  [pk EXCEPT !.memory = Overwrite(@, at, bytes), !.cursor = cursor]

\* Memory that differs from other memory in the bytes written at a position.
IsOverwritten(new, memory, at, bytes) ==
  \A i \in 1..Len(memory) :
    new[i] = IF i > at /\ i <= at + Len(bytes) THEN bytes[i - at] ELSE memory[i]

\* Bytes that are written into a block that fits, below the end of the data.
LEMMA OverwrittenFacts ==
  ASSUME NEW max \in Nat, NEW pk, Fits(pk, max), NEW at \in Nat, NEW bytes \in Seq(Bytes),
         NEW cursor \in 0..pk.used
  PROVE  /\ Keeps(pk, WrittenAt(pk, at, bytes, cursor), max)
         /\ WrittenAt(pk, at, bytes, cursor).used = pk.used
         /\ WrittenAt(pk, at, bytes, cursor).cursor = cursor
         /\ IsOverwritten(WrittenAt(pk, at, bytes, cursor).memory, pk.memory, at, bytes)
<1>1. pk \in Blocks /\ pk.memory \in Seq(Bytes) /\ pk.used \in Nat /\ cursor \in Nat /\ cursor <= pk.used
  BY DEF Fits, Blocks
<1>2. PICK memory \in Seq(Bytes) : memory = Overwrite(pk.memory, at, bytes)
  BY <1>1, OverwriteFacts
<1>3. /\ Len(memory) = Len(pk.memory)
      /\ \A i \in 1..Len(pk.memory) :
           memory[i] = IF i > at /\ i <= at + Len(bytes) THEN bytes[i - at] ELSE pk.memory[i]
  BY <1>1, <1>2, OverwriteFacts
<1>4. PICK new : new = WrittenAt(pk, at, bytes, cursor)
  OBVIOUS
<1>5. new = [pk EXCEPT !.memory = memory, !.cursor = cursor]
  BY <1>2, <1>4 DEF WrittenAt
<1>6. /\ new \in Blocks /\ new.memory = memory /\ new.memSize = pk.memSize
      /\ new.used = pk.used /\ new.cursor = cursor
  BY <1>1, <1>5 DEF Blocks
<1>7. Keeps(pk, new, max)
  BY <1>1, <1>3, <1>6 DEF Fits, Dangling, Keeps
<1> QED
  BY <1>3, <1>4, <1>6, <1>7 DEF IsOverwritten

\* A text with bytes written over another from a position on.
IsOver(d, s, at, bytes) ==
  /\ d \in Seq(Bytes) /\ Len(d) = Greater(Len(s), at + Len(bytes))
  /\ \A i \in 1..Len(d) : d[i] = IF i > at /\ i <= at + Len(bytes) THEN bytes[i - at] ELSE s[i]

\* Bytes written over a sequence, and beyond its end.
LEMMA OverFacts ==
  ASSUME NEW s \in Seq(Bytes), NEW at \in 0..Len(s), NEW bytes \in Seq(Bytes)
  PROVE  IsOver(Text!Over(s, at, bytes), s, at, bytes)
<1>1. at \in Nat /\ Len(s) \in Nat /\ Len(bytes) \in Nat /\ at <= Len(s)
  OBVIOUS
<1>2. PICK a \in Seq(Bytes) : a = SubSeq(s, 1, at)
  <2>1. SubSeq(s, 1, at) \in Seq(Bytes)
    OBVIOUS
  <2> QED
    BY <2>1, Zenon
<1>3. PICK b \in Seq(Bytes) : b = SubSeq(s, at + Len(bytes) + 1, Len(s))
  <2>1. SubSeq(s, at + Len(bytes) + 1, Len(s)) \in Seq(Bytes)
    OBVIOUS
  <2> QED
    BY <2>1, Zenon
<1> DEFINE end == at + Len(bytes)
<1>4. /\ Len(a) = at /\ \A i \in 1..at : a[i] = s[i]
  BY <1>1, <1>2
<1>5. /\ Len(b) \in Nat
      /\ end >= Len(s) => Len(b) = 0
      /\ end < Len(s) => Len(b) = Len(s) - end
  BY <1>1, <1>3
<1>6. \A i \in 1..Len(b) : b[i] = s[end + i]
  BY <1>1, <1>3
<1>7. PICK c \in Seq(Bytes) : c = a \o bytes
  BY ConcatProperties
<1>8. Len(c) = end /\ end \in Nat
  <2>1. Len(c) = Len(a) + Len(bytes)
    BY <1>7, ConcatProperties
  <2> QED
    BY <1>1, <1>4, <2>1
<1>9. \A i \in 1..Len(c) : c[i] = IF i <= at THEN s[i] ELSE bytes[i - at]
  BY <1>4, <1>7, ConcatProperties
<1>10. PICK d \in Seq(Bytes) : d = c \o b
  BY ConcatProperties
<1>11. Len(d) = end + Len(b)
  BY <1>8, <1>10, ConcatProperties
<1>12. \A i \in 1..Len(d) : d[i] = IF i <= Len(c) THEN c[i] ELSE b[i - Len(c)]
  BY <1>10, ConcatProperties
<1>13. Text!Over(s, at, bytes) = d
  BY <1>2, <1>3, <1>7, <1>10 DEF Text!Over
<1> HIDE DEF end
<1>14. Len(d) = Greater(Len(s), end)
  <2>1. CASE end >= Len(s)
    BY <1>1, <1>5, <1>8, <1>11, <2>1 DEF Greater
  <2>2. CASE end < Len(s)
    BY <1>1, <1>5, <1>8, <1>11, <2>2 DEF Greater
  <2> QED
    BY <1>1, <1>8, <2>1, <2>2
<1>15. ASSUME NEW i \in 1..Len(d)
       PROVE  d[i] = IF i > at /\ i <= end THEN bytes[i - at] ELSE s[i]
  <2>1. CASE i <= end
    <3>1. i \in 1..Len(c) /\ i \in Nat
      BY <1>8, <2>1
    <3>2. d[i] = IF i <= at THEN s[i] ELSE bytes[i - at]
      BY <1>8, <1>9, <1>12, <2>1, <3>1
    <3> QED
      BY <1>1, <2>1, <3>1, <3>2
  <2>2. CASE ~(i <= end)
    <3>1. i \in Nat /\ i <= end + Len(b) /\ i > end
      BY <1>5, <1>8, <1>11, <2>2
    <3>2. i - end \in 1..Len(b) /\ end + (i - end) = i
      BY <1>5, <1>8, <3>1
    <3>3. d[i] = b[i - end]
      BY <1>8, <1>12, <2>2
    <3> QED
      BY <1>6, <2>2, <3>2, <3>3
  <2> QED
    BY <2>1, <2>2
<1> QED
  BY <1>13, <1>14, <1>15 DEF end, IsOver

\* Bytes that are written at the cursor show there in the data, and nowhere else.
LEMMA WrittenFacts ==
  ASSUME NEW max \in Nat, NEW pk, Fits(pk, max), NEW bytes \in Seq(Bytes),
         pk.cursor + Len(bytes) <= max, ~GrowFaults(pk, pk.cursor + Len(bytes))
  PROVE  /\ Keeps(pk, Written(pk, bytes), max)
         /\ Written(pk, bytes).cursor = pk.cursor + Len(bytes)
         /\ Written(pk, bytes).used = Greater(pk.used, pk.cursor + Len(bytes))
         /\ ~Dangling(pk) =>
              Data(Written(pk, bytes)) = Text!Over(Data(pk), pk.cursor, bytes)
<1>1. PICK end \in 0..max : end = pk.cursor + Len(bytes)
  BY DEF Fits, Blocks
<1>2. /\ pk.cursor \in Nat /\ pk.used \in Nat /\ pk.cursor <= pk.used /\ Len(bytes) \in Nat
  BY DEF Fits, Blocks
<1>3. PICK room : room = Room(pk, end)
  OBVIOUS
<1>4. /\ Fits(room, max) /\ (~Dangling(pk) => ~Dangling(room))
      /\ room.used = Greater(pk.used, end) /\ room.cursor = pk.cursor
      /\ \A i \in 1..pk.used : room.memory[i] = pk.memory[i]
  BY <1>1, <1>3, RoomFacts DEF Keeps
<1>5. end \in 0..room.used
  BY <1>1, <1>2, <1>4 DEF Greater
<1>6. Written(pk, bytes) = WrittenAt(room, pk.cursor, bytes, end)
  BY <1>1, <1>3 DEF Written, WrittenAt
<1>7. /\ Keeps(room, Written(pk, bytes), max)
      /\ Written(pk, bytes).used = room.used /\ Written(pk, bytes).cursor = end
      /\ IsOverwritten(Written(pk, bytes).memory, room.memory, pk.cursor, bytes)
  BY <1>2, <1>4, <1>5, <1>6, OverwrittenFacts
<1>8. ASSUME ~Dangling(pk)
      PROVE  Data(Written(pk, bytes)) = Text!Over(Data(pk), pk.cursor, bytes)
  <2>1. /\ Data(pk) \in Seq(Bytes) /\ Len(Data(pk)) = pk.used
        /\ \A i \in 1..pk.used : Data(pk)[i] = pk.memory[i]
    BY <1>8, WholeFacts
  <2>2. PICK s : s = Text!Over(Data(pk), pk.cursor, bytes)
    OBVIOUS
  <2>3. /\ s \in Seq(Bytes) /\ Len(s) = Greater(pk.used, end)
        /\ \A i \in 1..Len(s) :
             s[i] = IF i > pk.cursor /\ i <= pk.cursor + Len(bytes) THEN bytes[i - pk.cursor]
                    ELSE Data(pk)[i]
    <3>1. pk.cursor \in 0..Len(Data(pk))
      BY <1>2, <2>1
    <3>2. IsOver(s, Data(pk), pk.cursor, bytes)
      BY <2>1, <2>2, <3>1, OverFacts
    <3> QED
      BY <1>1, <2>1, <3>2 DEF IsOver
  <2>4. /\ Len(room.memory) >= room.used /\ Len(room.memory) \in Nat /\ room.used \in Nat
    BY <1>4, <1>8, WholeFacts
  <2>5. ASSUME NEW i \in 1..Len(s)
        PROVE  Written(pk, bytes).memory[i] = s[i]
    <3>1. i \in 1..Len(room.memory)
      BY <1>4, <2>3, <2>4
    <3>2. Written(pk, bytes).memory[i] =
            IF i > pk.cursor /\ i <= pk.cursor + Len(bytes) THEN bytes[i - pk.cursor]
            ELSE room.memory[i]
      BY <1>7, <3>1 DEF IsOverwritten
    <3>3. (i > pk.cursor /\ i <= pk.cursor + Len(bytes)) \/ i \in 1..pk.used
      BY <1>1, <1>2, <2>3 DEF Greater
    <3> QED
      BY <1>4, <2>1, <2>3, <3>2, <3>3
  <2> QED
    BY <1>4, <1>7, <1>8, <2>2, <2>3, <2>5, DataIs DEF Keeps
<1> QED
  BY <1>1, <1>4, <1>7, <1>8 DEF Keeps

\* A packet with other memory, size and cursor.
Remade(pk, memory, used, cursor) ==
  [pk EXCEPT !.memory = memory, !.used = used, !.cursor = cursor]

\* A block of the same size with other bytes in it.
LEMMA RemadeFacts ==
  ASSUME NEW max \in Nat, NEW pk, Fits(pk, max), NEW memory \in Seq(Bytes),
         Len(memory) = Len(pk.memory), NEW used \in 0..pk.memSize, NEW cursor \in 0..used
  PROVE  /\ Keeps(pk, Remade(pk, memory, used, cursor), max)
         /\ Remade(pk, memory, used, cursor).memory = memory
         /\ Remade(pk, memory, used, cursor).memSize = pk.memSize
         /\ Remade(pk, memory, used, cursor).used = used
         /\ Remade(pk, memory, used, cursor).cursor = cursor
<1>1. /\ pk \in Blocks /\ pk.memory \in Seq(Bytes) /\ pk.memSize \in Nat
      /\ used \in Nat /\ used <= pk.memSize /\ cursor \in Nat /\ cursor <= used
  BY DEF Fits, Blocks
<1>2. PICK new : new = Remade(pk, memory, used, cursor)
  OBVIOUS
<1>3. /\ new \in Blocks /\ new.memory = memory /\ new.memSize = pk.memSize
      /\ new.used = used /\ new.cursor = cursor
  BY <1>1, <1>2 DEF Remade, Blocks
<1>4. Keeps(pk, new, max)
  BY <1>1, <1>3 DEF Fits, Dangling, Keeps
<1> QED
  BY <1>2, <1>3, <1>4

\* Two sequences, one behind the other.
LEMMA BehindFacts ==
  ASSUME NEW a \in Seq(Bytes), NEW b \in Seq(Bytes), NEW c \in Seq(Bytes),
         Len(c) = Len(a) + Len(b),
         \A i \in 1..Len(a) : c[i] = a[i],
         \A i \in 1..Len(b) : c[Len(a) + i] = b[i]
  PROVE  c = a \o b
<1>1. PICK d \in Seq(Bytes) : d = a \o b
  BY ConcatProperties
<1>2. Len(d) = Len(c) /\ Len(a) \in Nat /\ Len(b) \in Nat
  BY <1>1, ConcatProperties
<1>3. \A i \in 1..Len(d) : d[i] = IF i <= Len(a) THEN a[i] ELSE b[i - Len(a)]
  BY <1>1, ConcatProperties
<1>4. ASSUME NEW i \in 1..Len(c)
      PROVE  c[i] = d[i]
  <2>1. CASE i <= Len(a)
    BY <1>2, <1>3, <2>1
  <2>2. CASE ~(i <= Len(a))
    <3>1. i - Len(a) \in 1..Len(b) /\ Len(a) + (i - Len(a)) = i
      BY <1>2, <2>2
    <3> QED
      BY <1>2, <1>3, <2>2, <3>1
  <2> QED
    BY <2>1, <2>2
<1> QED
  BY <1>1, <1>2, <1>4, SeqEqual

\* Bytes that are appended show behind the data.
LEMMA AppendedFacts ==
  ASSUME NEW max \in Nat, NEW pk, Fits(pk, max), NEW bytes \in Seq(Bytes),
         pk.used + Len(bytes) <= max, ~GrowFaults(pk, pk.used + Len(bytes))
  PROVE  /\ Keeps(pk, Appended(pk, bytes), max)
         /\ Appended(pk, bytes).cursor = pk.cursor
         /\ ~Dangling(pk) => Data(Appended(pk, bytes)) = Data(pk) \o bytes
<1>1. /\ pk \in Blocks /\ pk.used \in Nat /\ pk.memSize \in Nat /\ pk.cursor \in Nat
      /\ pk.cursor <= pk.used /\ Len(bytes) \in Nat
  BY DEF Fits, Blocks
<1>2. PICK end \in 0..max : end = pk.used + Len(bytes) /\ end \in Nat /\ pk.cursor <= end
  BY <1>1
<1>3. PICK room : room = IF end > pk.memSize THEN Resized(pk, end) ELSE pk
  OBVIOUS
<1>4. /\ Fits(room, max) /\ (~Dangling(pk) => ~Dangling(room)) /\ end <= room.memSize
      /\ room.cursor = pk.cursor
      /\ \A i \in 1..pk.used : room.memory[i] = pk.memory[i]
  <2>1. CASE end > pk.memSize
    <3>1. end \in 1..max /\ end # pk.memSize /\ ~Outside(pk, 0, pk.used) /\ room = Resized(pk, end)
      BY <1>1, <1>2, <1>3, <2>1 DEF GrowFaults
    <3> QED
      BY <1>1, <3>1, ResizedFacts
  <2>2. CASE ~(end > pk.memSize)
    BY <1>1, <1>2, <1>3, <2>2
  <2> QED
    BY <2>1, <2>2
<1>5. room.memory \in Seq(Bytes) /\ room.memSize \in Nat
  BY <1>4 DEF Fits, Blocks
<1>6. PICK memory \in Seq(Bytes) : memory = Overwrite(room.memory, pk.used, bytes)
  BY <1>1, <1>5, OverwriteFacts
<1>7. /\ Len(memory) = Len(room.memory)
      /\ \A i \in 1..Len(room.memory) :
           memory[i] = IF i > pk.used /\ i <= pk.used + Len(bytes) THEN bytes[i - pk.used]
                       ELSE room.memory[i]
  BY <1>1, <1>5, <1>6, OverwriteFacts
<1>8. Appended(pk, bytes) = Remade(room, memory, end, pk.cursor)
  <2>1. Appended(pk, bytes) = [room EXCEPT !.memory = memory, !.used = end]
    BY <1>2, <1>3, <1>6 DEF Appended
  <2>2. room \in Blocks /\ room.cursor = pk.cursor
    BY <1>4 DEF Fits
  <2> QED
    BY <2>1, <2>2 DEF Remade, Blocks
<1>9. PICK new : new = Appended(pk, bytes)
  OBVIOUS
<1>10. Keeps(room, new, max) /\ new.memory = memory /\ new.used = end /\ new.cursor = pk.cursor
  BY <1>1, <1>2, <1>4, <1>5, <1>7, <1>8, <1>9, RemadeFacts
<1>11. Keeps(pk, new, max)
  BY <1>4, <1>10 DEF Keeps
<1>12. ASSUME ~Dangling(pk)
       PROVE  Data(new) = Data(pk) \o bytes
  <2>1. PICK s \in Seq(Bytes) : s = Data(pk)
    BY <1>12, WholeFacts
  <2>2. Len(s) = pk.used /\ \A i \in 1..pk.used : s[i] = pk.memory[i]
    BY <1>12, <2>1, WholeFacts
  <2>3. /\ Fits(new, max) /\ ~Dangling(new)
    BY <1>11, <1>12 DEF Keeps
  <2>4. PICK d \in Seq(Bytes) : d = Data(new)
    BY <2>3, WholeFacts
  <2>5. /\ Len(d) = end /\ \A i \in 1..end : d[i] = memory[i]
    BY <1>10, <2>3, <2>4, WholeFacts
  <2>6. Len(room.memory) \in Nat /\ Len(room.memory) >= end
    BY <1>4, <1>12, WholeFacts
  <2>7. \A i \in 1..Len(s) : d[i] = s[i]
    BY <1>1, <1>2, <1>4, <1>7, <2>2, <2>5, <2>6
  <2>8. ASSUME NEW i \in 1..Len(bytes)
        PROVE  d[Len(s) + i] = bytes[i]
    <3>1. PICK k \in Nat : k = pk.used + i
      BY <1>1
    <3>2. i \in Nat /\ i >= 1 /\ i <= Len(bytes)
      BY <1>1
    <3>3. k > pk.used /\ k <= end /\ k - pk.used = i /\ k = Len(s) + i
      BY <1>1, <1>2, <2>2, <3>1, <3>2
    <3>4. k \in 1..end /\ k \in 1..Len(room.memory)
      <4>1. k >= 1
        BY <1>1, <3>3
      <4>2. k \in 1..end
        BY <1>2, <3>3, <4>1
      <4>3. \A n \in Nat : n >= end => k \in 1..n
        BY <1>2, <3>3, <4>1
      <4> QED
        BY <2>6, <4>2, <4>3
    <3>5. d[k] = memory[k]
      BY <2>5, <3>4
    <3>6. memory[k] = bytes[k - pk.used]
      BY <1>1, <1>2, <1>7, <3>3, <3>4
    <3> QED
      BY <3>3, <3>5, <3>6
  <2>9. Len(d) = Len(s) + Len(bytes)
    BY <1>2, <2>2, <2>5
  <2>10. d = s \o bytes
    BY <2>7, <2>8, <2>9, BehindFacts
  <2> QED
    BY <2>1, <2>4, <2>10
<1> QED
  BY <1>9, <1>10, <1>11, <1>12

\* The numbers of a packet that fits.
LEMMA FitsFacts ==
  ASSUME NEW max \in Nat, NEW pk, Fits(pk, max)
  PROVE  /\ pk \in Blocks /\ pk.memory \in Seq(Bytes) /\ Len(pk.memory) \in Nat
         /\ pk.used \in Nat /\ pk.memSize \in Nat /\ pk.cursor \in Nat
         /\ pk.cursor <= pk.used /\ pk.used <= pk.memSize /\ pk.memSize <= max
BY DEF Fits, Blocks

\* GetNullTerminated: a byte behind the data; the cursor stays.
Terminated(pk) == [Written([pk EXCEPT !.cursor = pk.used], <<0>>) EXCEPT !.cursor = pk.cursor]

\* A null terminator shows behind the data.
LEMMA TerminatedFacts ==
  ASSUME NEW max \in Nat, NEW pk, Fits(pk, max), pk.used + 1 <= max, ~GrowFaults(pk, pk.used + 1)
  PROVE  /\ Keeps(pk, Terminated(pk), max)
         /\ Terminated(pk).cursor = pk.cursor
         /\ ~Dangling(pk) => Data(Terminated(pk)) = Data(pk) \o <<0>>
<1>1. PICK used \in Nat, cursor \in Nat : used = pk.used /\ cursor = pk.cursor /\ cursor <= used
  BY FitsFacts
<1>2. PICK at : at = [pk EXCEPT !.cursor = used]
  OBVIOUS
<1>3. /\ Fits(at, max) /\ at.memory = pk.memory /\ at.memSize = pk.memSize /\ at.used = used
      /\ at.cursor = used
  BY <1>1, <1>2 DEF Fits, Blocks
<1>4. PICK zero \in Seq(Bytes) : zero = <<0>> /\ Len(zero) = 1 /\ zero[1] = 0
  <2>1. 0 \in Bytes
    BY PacketAssumption DEF Bytes
  <2>2. <<0>> \in Seq(Bytes) /\ Len(<<0>>) = 1 /\ <<0>>[1] = 0
    BY <2>1
  <2> QED
    BY <2>2, Zenon
<1>5. used + Len(zero) <= max /\ ~GrowFaults(at, used + Len(zero))
  BY <1>1, <1>3, <1>4 DEF GrowFaults, Outside
<1>6. PICK new : new = Written(at, zero)
  OBVIOUS
<1>7. /\ Keeps(at, new, max) /\ new.used = Greater(used, used + Len(zero))
      /\ ~Dangling(at) => Data(new) = Text!Over(Data(at), used, zero)
  BY <1>3, <1>5, <1>6, WrittenFacts
<1>8. Terminated(pk) = [new EXCEPT !.cursor = cursor]
  BY <1>1, <1>2, <1>4, <1>6 DEF Terminated
<1>9. PICK last1 : last1 = Terminated(pk)
  OBVIOUS
<1>10. Fits(new, max) /\ new.used = used + 1
  BY <1>1, <1>4, <1>7 DEF Keeps, Greater
<1>11. /\ Fits(last1, max) /\ last1.cursor = cursor /\ last1.used = new.used
       /\ last1.memory = new.memory /\ last1.memSize = new.memSize
  BY <1>1, <1>8, <1>9, <1>10 DEF Fits, Blocks
<1>12. Data(last1) = Data(new) /\ Data(at) = Data(pk)
  BY <1>1, <1>3, <1>11 DEF Data
<1>13. Keeps(pk, last1, max)
  BY <1>3, <1>7, <1>11 DEF Keeps, Dangling
<1>14. ASSUME ~Dangling(pk)
       PROVE  Data(last1) = Data(pk) \o <<0>>
  <2>1. PICK s \in Seq(Bytes) : s = Data(pk) /\ Len(s) = used
    BY <1>1, <1>14, WholeFacts
  <2>2. ~Dangling(at) /\ Data(last1) = Text!Over(s, used, zero)
    BY <1>3, <1>7, <1>12, <1>14, <2>1 DEF Dangling
  <2>3. used \in 0..Len(s)
    BY <2>1
  <2>4. /\ Text!Over(s, used, zero) \in Seq(Bytes)
        /\ Len(Text!Over(s, used, zero)) = Greater(used, used + 1)
        /\ \A i \in 1..Len(Text!Over(s, used, zero)) :
             Text!Over(s, used, zero)[i] = IF i > used /\ i <= used + 1 THEN zero[i - used] ELSE s[i]
    <3>1. IsOver(Text!Over(s, used, zero), s, used, zero)
      BY <2>3, OverFacts
    <3>2. Len(s) = used /\ Len(zero) = 1
      BY <1>4, <2>1
    <3> QED
      BY <3>1, <3>2, Zenon DEF IsOver
  <2>5. PICK d \in Seq(Bytes) : d = Text!Over(s, used, zero)
    BY <2>4
  <2>6. Len(d) = used + 1
    BY <2>4, <2>5 DEF Greater
  <2>7. \A i \in 1..(used + 1) : d[i] = IF i > used /\ i <= used + 1 THEN zero[i - used] ELSE s[i]
    BY <2>4, <2>5, <2>6
  <2>8. Len(d) = Len(s) + Len(zero)
    BY <1>4, <2>1, <2>6
  <2>9. \A i \in 1..Len(s) : d[i] = s[i]
    BY <2>1, <2>7
  <2>10. \A i \in 1..Len(zero) : d[Len(s) + i] = zero[i]
    BY <1>4, <2>1, <2>7
  <2>11. d = s \o zero
    BY <2>8, <2>9, <2>10, BehindFacts
  <2> QED
    BY <1>4, <2>1, <2>2, <2>5, <2>11
<1> QED
  BY <1>1, <1>9, <1>11, <1>13, <1>14

\* SetUsedSize cuts the text, or goes on with what is in the block.
LEMMA WithUsedText ==
  ASSUME NEW max \in Nat, NEW pk, Fits(pk, max), ~Dangling(pk), NEW n \in 0..max
  PROVE  /\ n <= pk.used => Data(WithUsed(pk, n)) = SubSeq(Data(pk), 1, n)
         /\ n > pk.used => \E rest \in Seq(Bytes) :
                             Len(rest) <= max /\ Data(WithUsed(pk, n)) = Data(pk) \o rest
<1>1. PICK used \in Nat : used = pk.used
  BY FitsFacts
<1>2. PICK new : new = WithUsed(pk, n)
  OBVIOUS
<1>3. PICK s \in Seq(Bytes) : s = Data(pk) /\ Len(s) = used /\ \A i \in 1..used : s[i] = pk.memory[i]
  BY <1>1, WholeFacts
<1>4. /\ Fits(new, max) /\ ~Dangling(new) /\ new.used = n
      /\ \A i \in 1..n : i <= used => new.memory[i] = pk.memory[i]
  BY <1>1, <1>2, WholeFacts, WithUsedFacts DEF Keeps
<1>5. PICK d \in Seq(Bytes) : d = Data(new) /\ Len(d) = n /\ \A i \in 1..n : d[i] = new.memory[i]
  BY <1>4, WholeFacts
<1>6. CASE n <= used
  <2>1. /\ SubSeq(s, 1, n) \in Seq(Bytes) /\ Len(SubSeq(s, 1, n)) = n
        /\ \A i \in 1..n : SubSeq(s, 1, n)[i] = s[i]
    BY <1>3, <1>6
  <2>2. \A i \in 1..n : d[i] = s[i]
    BY <1>3, <1>4, <1>5, <1>6
  <2>3. d = SubSeq(s, 1, n)
    BY <1>5, <2>1, <2>2, SeqEqual
  <2> QED
    BY <1>1, <1>2, <1>3, <1>5, <1>6, <2>3
<1>7. CASE n > used
  <2>1. PICK rest : rest = SubSeq(d, used + 1, n)
    OBVIOUS
  <2>2. /\ rest \in Seq(Bytes) /\ Len(rest) = n - used
        /\ \A i \in 1..(n - used) : rest[i] = d[used + i]
    BY <1>5, <1>7, <2>1
  <2>3. Len(d) = Len(s) + Len(rest) /\ Len(rest) <= max
    BY <1>3, <1>5, <1>7, <2>2
  <2>4. \A i \in 1..Len(s) : d[i] = s[i]
    BY <1>3, <1>4, <1>5, <1>7
  <2>5. \A i \in 1..Len(rest) : d[Len(s) + i] = rest[i]
    BY <1>3, <2>2
  <2>6. d = s \o rest
    BY <2>2, <2>3, <2>4, <2>5, BehindFacts
  <2>7. rest \in Seq(Bytes) /\ Len(rest) <= max /\ Data(WithUsed(pk, n)) = Data(pk) \o rest
    BY <1>2, <1>3, <1>5, <2>2, <2>3, <2>6, Zenon
  <2> QED
    <3>1. ~(n <= pk.used)
      BY <1>1, <1>7
    <3> QED
      BY <2>7, <3>1, Zenon
<1> QED
  BY <1>1, <1>6, <1>7

Part(s, from, n) == SubSeq(s, from + 1, from + n)

\* n elements of a sequence, from a position on.
LEMMA PartIs ==
  ASSUME NEW s \in Seq(Bytes), NEW from \in Nat, NEW n \in Nat, from + n <= Len(s)
  PROVE  /\ Part(s, from, n) \in Seq(Bytes) /\ Len(Part(s, from, n)) = n
         /\ \A i \in 1..n : Part(s, from, n)[i] = s[from + i]
<1>1. SubSeq(s, from + 1, from + n) \in Seq(Bytes)
  OBVIOUS
<1>2. Len(SubSeq(s, from + 1, from + n)) = n
  OBVIOUS
<1>3. \A i \in 1..n : SubSeq(s, from + 1, from + n)[i] = s[from + i]
  OBVIOUS
<1> QED
  BY <1>1, <1>2, <1>3, Zenon DEF Part

\* The sequence has those elements.
Within(s, from, n) == from + n <= Len(s)

\* Two sequences agree in n elements from two positions on.
Agree(s, a, t, b, n) == Within(s, a, n) /\ Within(t, b, n) /\ \A i \in 1..n : s[a + i] = t[b + i]

\* Parts of two sequences that have the same elements.
LEMMA PartsEqual ==
  ASSUME NEW s \in Seq(Bytes), NEW t \in Seq(Bytes), NEW a \in Nat, NEW b \in Nat, NEW n \in Nat,
         Agree(s, a, t, b, n)
  PROVE  Part(s, a, n) = Part(t, b, n)
<1>1. /\ Part(s, a, n) \in Seq(Bytes) /\ Len(Part(s, a, n)) = n
      /\ \A i \in 1..n : Part(s, a, n)[i] = s[a + i]
  BY PartIs DEF Agree, Within
<1>2. /\ Part(t, b, n) \in Seq(Bytes) /\ Len(Part(t, b, n)) = n
      /\ \A i \in 1..n : Part(t, b, n)[i] = t[b + i]
  BY PartIs DEF Agree, Within
<1>3. \A i \in 1..Len(Part(s, a, n)) : Part(s, a, n)[i] = Part(t, b, n)[i]
  BY <1>1, <1>2 DEF Agree
<1> QED
  BY <1>1, <1>2, <1>3, SeqEqual

\* A sequence is its beginning and the rest.
LEMMA Split ==
  ASSUME NEW s \in Seq(Bytes), NEW k \in Nat, NEW n \in Nat, Len(s) = k + n
  PROVE  s = Part(s, 0, k) \o Part(s, k, n)
<1>1. PICK a \in Seq(Bytes) : a = Part(s, 0, k) /\ Len(a) = k /\ \A i \in 1..k : a[i] = s[0 + i]
  BY PartIs
<1>2. PICK b \in Seq(Bytes) : b = Part(s, k, n) /\ Len(b) = n /\ \A i \in 1..n : b[i] = s[k + i]
  BY PartIs
<1>3. Len(s) = Len(a) + Len(b)
  BY <1>1, <1>2
<1>4. \A i \in 1..Len(a) : s[i] = a[i]
  BY <1>1
<1>5. \A i \in 1..Len(b) : s[Len(a) + i] = b[i]
  BY <1>1, <1>2
<1>6. s = a \o b
  BY <1>3, <1>4, <1>5, BehindFacts
<1> QED
  BY <1>1, <1>2, <1>6

\* The first elements of the beginning of a sequence.
LEMMA PartOfPart ==
  ASSUME NEW s \in Seq(Bytes), NEW k \in Nat, k <= Len(s), NEW a \in Nat, NEW n \in Nat, a + n <= k
  PROVE  Part(Part(s, 0, k), a, n) = Part(s, a, n)
<1>1. PICK b \in Seq(Bytes) : b = Part(s, 0, k) /\ Len(b) = k /\ \A i \in 1..k : b[i] = s[0 + i]
  BY PartIs
<1>2. \A i \in 1..n : b[a + i] = s[a + i]
  BY <1>1
<1>3. a + n <= Len(s) /\ a + n <= Len(b)
  <2>1. PICK size \in Nat : size = Len(s)
    OBVIOUS
  <2>2. a + n <= size
    BY <2>1
  <2> QED
    BY <1>1, <2>1, <2>2
<1>4. Part(b, a, n) = Part(s, a, n)
  <2>1. Agree(b, a, s, a, n)
    BY <1>2, <1>3 DEF Agree, Within
  <2> QED
    BY <2>1, PartsEqual
<1> QED
  BY <1>1, <1>4

\* Memory in which n bytes were moved from one position to another.
Moved(new, memory, from, to, n) ==
  /\ new \in Seq(Bytes) /\ Len(new) = Len(memory)
  /\ \A i \in 1..n : new[to + i] = memory[from + i]
  /\ \A i \in 1..Len(memory) : i <= to => new[i] = memory[i]

\* A part of a block, written at another position of it.
LEMMA MovedFacts ==
  ASSUME NEW memory \in Seq(Bytes), NEW from \in Nat, NEW to \in Nat, NEW n \in Nat,
         Within(memory, from, n), Within(memory, to, n)
  PROVE  Moved(Overwrite(memory, to, Part(memory, from, n)), memory, from, to, n)
<1>1. PICK part \in Seq(Bytes) :
        part = Part(memory, from, n) /\ Len(part) = n /\ \A i \in 1..n : part[i] = memory[from + i]
  BY PartIs DEF Within
<1>2. PICK new \in Seq(Bytes) : new = Overwrite(memory, to, part)
  BY OverwriteFacts
<1>3. /\ Len(new) = Len(memory)
      /\ \A i \in 1..Len(memory) :
           new[i] = IF i > to /\ i <= to + Len(part) THEN part[i - to] ELSE memory[i]
  BY <1>2, OverwriteFacts
<1>4. PICK size \in Nat : size = Len(memory)
  OBVIOUS
<1>5. ASSUME NEW i \in 1..n
      PROVE  new[to + i] = memory[from + i]
  <2>1. PICK k \in 1..size : k = to + i
    BY <1>4 DEF Within
  <2>2. k - to = i /\ k > to /\ k <= to + n
    BY <2>1
  <2>3. new[k] = part[k - to]
    BY <1>1, <1>3, <1>4, <2>2
  <2> QED
    BY <1>1, <2>1, <2>3, <2>2
<1>6. \A i \in 1..Len(memory) : i <= to => new[i] = memory[i]
  BY <1>3
<1> QED
  BY <1>1, <1>2, <1>3, <1>5, <1>6, Zenon DEF Moved

\* The bytes in use of a whole block, as a sequence.
LEMMA InUse ==
  ASSUME NEW max \in Nat, NEW pk, Fits(pk, max), ~Dangling(pk)
  PROVE  \E s \in Seq(Bytes), memory \in Seq(Bytes), used \in 0..max, size \in 0..max :
           /\ s = Data(pk) /\ memory = pk.memory /\ used = pk.used /\ size = Len(memory)
           /\ Len(s) = used /\ used <= size /\ size = pk.memSize
           /\ \A i \in 1..used : s[i] = memory[i]
<1>1. /\ Data(pk) \in Seq(Bytes) /\ pk.memory \in Seq(Bytes) /\ pk.used \in 0..max
      /\ Len(pk.memory) = pk.memSize /\ pk.memSize \in 0..max
      /\ Len(Data(pk)) = pk.used /\ pk.used <= Len(pk.memory)
      /\ \A i \in 1..pk.used : Data(pk)[i] = pk.memory[i]
  BY WholeFacts, FitsFacts
<1> QED
  BY <1>1, Zenon

\* The text of a packet from which n bytes at a position were taken.
IsErased(new, pk, from, n) ==
  /\ new.cursor = IF n >= pk.cursor THEN 0 ELSE pk.cursor - n
  /\ ~Dangling(pk) =>
       Data(new) = Part(Data(pk), 0, from) \o Part(Data(pk), from + n, pk.used - (from + n))

\* Erase takes n bytes out at a position.
LEMMA ErasedFacts ==
  ASSUME NEW max \in Nat, NEW pk, Fits(pk, max), NEW from \in Nat, NEW n \in Nat \ {0},
         from + n <= pk.used
  PROVE  /\ Keeps(pk, Erased(pk, from, n), max)
         /\ IsErased(Erased(pk, from, n), pk, from, n)
<1>1. PICK used \in Nat, cursor \in Nat, size \in Nat :
        /\ used = pk.used /\ cursor = pk.cursor /\ size = pk.memSize
        /\ cursor <= used /\ used <= size
  BY FitsFacts
<1>2. PICK rest \in Nat : used = from + n + rest
  <2>1. used - (from + n) \in Nat /\ used = from + n + (used - (from + n))
    BY <1>1
  <2> QED
    BY <2>1
<1>3. pk \in Blocks /\ pk.memory \in Seq(Bytes)
  BY FitsFacts
<1>4. PICK left \in Nat : left = from + rest /\ used - n = left /\ left <= size
  BY <1>1, <1>2
<1>5. PICK c \in 0..left : c = IF n >= cursor THEN 0 ELSE cursor - n
  BY <1>1, <1>2, <1>4
<1>6. PICK base \in Nat : base = from + n /\ base + rest = used /\ used - base = rest
  BY <1>2
<1>7. PICK memory \in Seq(Bytes) :
        memory = Overwrite(pk.memory, from, Part(pk.memory, base, rest)) /\ Len(memory) = Len(pk.memory)
  <2>1. CASE Dangling(pk)
    <3>1. pk.memory = <<>>
      BY <1>3, <2>1 DEF Fits, Dangling
    <3>2. Overwrite(pk.memory, from, Part(pk.memory, base, rest)) = <<>>
      BY <3>1 DEF Overwrite
    <3>3. <<>> \in Seq(Bytes)
      OBVIOUS
    <3> QED
      BY <3>1, <3>2, <3>3, Zenon
  <2>2. CASE ~Dangling(pk)
    <3>1. used <= Len(pk.memory) /\ Len(pk.memory) \in Nat
      BY <1>1, <2>2 DEF Fits, Dangling, Blocks
    <3>2. Within(pk.memory, base, rest) /\ Within(pk.memory, from, rest)
      BY <1>4, <1>6, <3>1 DEF Within
    <3>3. Moved(Overwrite(pk.memory, from, Part(pk.memory, base, rest)), pk.memory, base, from, rest)
      BY <1>3, <3>2, MovedFacts
    <3> QED
      BY <3>3, Zenon DEF Moved
  <2> QED
    BY <2>1, <2>2
<1>8. Erased(pk, from, n) = Remade(pk, memory, left, c)
  <2>1. SubSeq(pk.memory, from + n + 1, pk.used) = Part(pk.memory, base, rest)
    BY <1>1, <1>6, Zenon DEF Part
  <2>2. Erased(pk, from, n) =
          [pk EXCEPT !.memory = memory, !.used = left, !.cursor = c]
    BY <1>1, <1>3, <1>4, <1>5, <1>7, <2>1 DEF Erased, Blocks
  <2> QED
    BY <2>2 DEF Remade
<1>9. PICK new : new = Erased(pk, from, n)
  OBVIOUS
<1>10. /\ Keeps(pk, new, max) /\ new.memory = memory /\ new.used = left /\ new.cursor = c
  <2>1. left \in 0..pk.memSize
    BY <1>1, <1>4
  <2> QED
    BY <1>5, <1>7, <1>8, <1>9, <2>1, RemadeFacts
<1>11. ASSUME ~Dangling(pk)
       PROVE  Data(new) = Part(Data(pk), 0, from) \o Part(Data(pk), base, rest)
  <2>1. PICK s \in Seq(Bytes), m \in Seq(Bytes), k \in Nat :
          /\ s = Data(pk) /\ m = pk.memory /\ k = Len(m)
          /\ Len(s) = used /\ used <= k
          /\ \A i \in 1..used : s[i] = m[i]
    BY <1>1, <1>11, InUse
  <2>2. /\ \A i \in 1..rest : memory[from + i] = m[base + i]
        /\ \A i \in 1..k : i <= from => memory[i] = m[i]
    <3>1. Within(m, base, rest) /\ Within(m, from, rest)
      <4>1. used <= Len(m) /\ Len(m) \in Nat
        BY <2>1
      <4> QED
        BY <1>4, <1>6, <4>1 DEF Within
    <3>2. Moved(Overwrite(m, from, Part(m, base, rest)), m, base, from, rest)
      BY <3>1, MovedFacts
    <3>3. Moved(memory, m, base, from, rest)
      BY <1>7, <2>1, <3>2
    <3> QED
      BY <2>1, <3>3 DEF Moved
  <2>3. Fits(new, max) /\ ~Dangling(new)
    BY <1>10, <1>11 DEF Keeps
  <2>4. PICK d \in Seq(Bytes) : d = Data(new) /\ Len(d) = left /\ \A i \in 1..left : d[i] = memory[i]
    BY <1>10, <2>3, WholeFacts
  <2>5. d = Part(d, 0, from) \o Part(d, from, rest)
    <3>1. Len(d) = from + rest
      BY <1>4, <2>4
    <3> QED
      BY <3>1, Split
  <2>6. Part(d, 0, from) = Part(s, 0, from)
    <3>1. ASSUME NEW i \in 1..from
          PROVE  d[0 + i] = s[0 + i]
      <4>1. i \in 1..left /\ i \in 1..used
        BY <1>2, <1>4
      <4>2. i \in 1..k /\ i <= from /\ 0 + i = i
        BY <2>1, <4>1
      <4> QED
        BY <2>1, <2>2, <2>4, <4>1, <4>2
    <3>2. 0 + from <= Len(d) /\ 0 + from <= Len(s)
      BY <1>2, <1>4, <2>1, <2>4
    <3>3. Agree(d, 0, s, 0, from)
      BY <3>1, <3>2 DEF Agree, Within
    <3> QED
      BY <3>3, PartsEqual
  <2>7. Part(d, from, rest) = Part(s, base, rest)
    <3>1. ASSUME NEW i \in 1..rest
          PROVE  d[from + i] = s[base + i]
      <4>1. from + i \in 1..left /\ base + i \in 1..used
        BY <1>4, <1>6
      <4> QED
        BY <2>1, <2>2, <2>4, <4>1
    <3>2. from + rest <= Len(d) /\ base + rest <= Len(s)
      <4>1. Len(d) = left /\ Len(s) = used
        BY <2>1, <2>4
      <4> QED
        BY <1>4, <1>6, <4>1
    <3>3. Agree(d, from, s, base, rest)
      BY <3>1, <3>2 DEF Agree, Within
    <3> QED
      BY <3>3, PartsEqual
  <2> QED
    BY <2>1, <2>4, <2>5, <2>6, <2>7
<1>12. rest = pk.used - (from + n)
  BY <1>1, <1>6
<1>13. /\ Keeps(pk, Erased(pk, from, n), max)
       /\ Erased(pk, from, n).cursor = (IF n >= pk.cursor THEN 0 ELSE pk.cursor - n)
       /\ ~Dangling(pk) =>
            Data(Erased(pk, from, n)) =
              Part(Data(pk), 0, from) \o Part(Data(pk), from + n, pk.used - (from + n))
  BY <1>1, <1>5, <1>6, <1>9, <1>10, <1>11, <1>12
<1> QED
  BY <1>13 DEF IsErased

\* The text of a packet with a hole at its cursor.
IsInserted(new, pk, max) ==
  /\ new.cursor = pk.cursor
  /\ ~Dangling(pk) =>
       \E hole \in Seq(Bytes) :
         /\ Len(hole) <= max
         /\ Data(new) =
              Part(Data(pk), 0, pk.cursor) \o hole \o Part(Data(pk), pk.cursor, pk.used - pk.cursor)

\* Insert opens a hole of n bytes at the cursor.
LEMMA InsertedFacts ==
  ASSUME NEW max \in Nat, NEW pk, Fits(pk, max), NEW n \in Nat \ {0},
         pk.used + n <= max, ~GrowFaults(pk, pk.used + n)
  PROVE  /\ Keeps(pk, Inserted(pk, n), max)
         /\ IsInserted(Inserted(pk, n), pk, max)
<1>1. PICK used \in Nat, cursor \in Nat :
        used = pk.used /\ cursor = pk.cursor /\ cursor <= used
  BY FitsFacts
<1>2. PICK end \in 0..max : end = used + n /\ end \in Nat /\ cursor <= end /\ ~GrowFaults(pk, end)
  BY <1>1
<1>3. PICK rest \in Nat : used = cursor + rest /\ rest = used - cursor
  BY <1>1
<1>4. PICK to \in Nat : to = cursor + n /\ end = to + rest
  BY <1>2, <1>3
<1>5. PICK room : room = WithUsed(pk, end)
  OBVIOUS
<1>6. /\ Keeps(pk, room, max) /\ room.used = end /\ room.cursor = cursor
      /\ \A i \in 1..end : i <= used => room.memory[i] = pk.memory[i]
  <2>1. Lesser(cursor, end) = cursor
    BY <1>2 DEF Lesser
  <2> QED
    BY <1>1, <1>2, <1>5, <2>1, WithUsedFacts
<1>7. Fits(room, max) /\ room \in Blocks /\ end <= room.memSize /\ room.memSize \in Nat
  BY <1>6, FitsFacts DEF Keeps
<1>8. PICK r \in Seq(Bytes) : r = room.memory
  BY <1>7, FitsFacts
<1>9. PICK memory \in Seq(Bytes) :
        memory = Overwrite(r, to, Part(r, cursor, rest)) /\ Len(memory) = Len(r)
  <2>1. CASE Dangling(room)
    <3>1. r = <<>>
      BY <1>7, <1>8, <2>1 DEF Fits, Dangling, Blocks
    <3>2. Overwrite(r, to, Part(r, cursor, rest)) = <<>>
      BY <3>1 DEF Overwrite
    <3>3. <<>> \in Seq(Bytes)
      OBVIOUS
    <3> QED
      BY <3>1, <3>2, <3>3, Zenon
  <2>2. CASE ~Dangling(room)
    <3>1. end <= Len(r) /\ Len(r) \in Nat
      BY <1>7, <1>8, <2>2 DEF Fits, Dangling, Blocks
    <3>2. Within(r, cursor, rest) /\ Within(r, to, rest)
      BY <1>3, <1>4, <3>1 DEF Within
    <3>3. Moved(Overwrite(r, to, Part(r, cursor, rest)), r, cursor, to, rest)
      BY <3>2, MovedFacts
    <3> QED
      BY <3>3, Zenon DEF Moved
  <2> QED
    BY <2>1, <2>2
<1>10. Inserted(pk, n) = Remade(room, memory, end, cursor)
  <2>1. SubSeq(r, cursor + 1, used) = Part(r, cursor, rest)
    BY <1>3, Zenon DEF Part
  <2>2. Inserted(pk, n) = [room EXCEPT !.memory = memory]
    BY <1>1, <1>2, <1>4, <1>5, <1>8, <1>9, <2>1 DEF Inserted
  <2> QED
    BY <1>6, <1>7, <2>2 DEF Remade, Blocks
<1>11. PICK new : new = Inserted(pk, n)
  OBVIOUS
<1>12. Keeps(room, new, max) /\ new.memory = memory /\ new.used = end /\ new.cursor = cursor
  <2>1. end \in 0..room.memSize /\ cursor \in 0..end
    BY <1>2, <1>7
  <2> QED
    BY <1>7, <1>8, <1>9, <1>10, <1>11, <2>1, RemadeFacts
<1>13. Keeps(pk, new, max)
  BY <1>6, <1>12 DEF Keeps
<1>14. ASSUME ~Dangling(pk)
       PROVE  \E hole \in Seq(Bytes) :
                /\ Len(hole) <= max
                /\ Data(new) = Part(Data(pk), 0, cursor) \o hole \o Part(Data(pk), cursor, rest)
  <2>1. PICK s \in Seq(Bytes) : s = Data(pk) /\ Len(s) = used /\ \A i \in 1..used : s[i] = pk.memory[i]
    BY <1>1, <1>14, WholeFacts
  <2>2. PICK k \in Nat : k = Len(r) /\ end <= k
    BY <1>6, <1>7, <1>8, <1>14 DEF Keeps, Fits, Dangling, Blocks
  <2>3. Moved(memory, r, cursor, to, rest)
    <3>1. Within(r, cursor, rest) /\ Within(r, to, rest)
      BY <1>3, <1>4, <2>2 DEF Within
    <3>2. Moved(Overwrite(r, to, Part(r, cursor, rest)), r, cursor, to, rest)
      BY <3>1, MovedFacts
    <3> QED
      BY <1>9, <3>2
  <2>4. Fits(new, max) /\ ~Dangling(new)
    BY <1>13, <1>14 DEF Keeps
  <2>5. PICK d \in Seq(Bytes) : d = Data(new) /\ Len(d) = end /\ \A i \in 1..end : d[i] = memory[i]
    BY <1>12, <2>4, WholeFacts
  <2>6. PICK a \in Seq(Bytes) : a = Part(d, 0, to) /\ Len(a) = to
    <3>1. 0 + to <= Len(d)
      BY <1>4, <2>5
    <3>2. Part(d, 0, to) \in Seq(Bytes) /\ Len(Part(d, 0, to)) = to
      BY <3>1, PartIs
    <3> QED
      BY <3>2, Zenon
  <2>7. d = a \o Part(d, to, rest)
    <3>1. Len(d) = to + rest
      BY <1>4, <2>5
    <3> QED
      BY <2>6, <3>1, Split
  <2>8. a = Part(a, 0, cursor) \o Part(a, cursor, n)
    <3>1. Len(a) = cursor + n
      BY <1>4, <2>6
    <3> QED
      BY <3>1, Split
  <2>9. Part(a, cursor, n) \in Seq(Bytes) /\ Len(Part(a, cursor, n)) = n
    <3>1. cursor + n <= Len(a)
      BY <1>4, <2>6
    <3> QED
      BY <3>1, PartIs
  <2>10. Part(a, 0, cursor) = Part(s, 0, cursor)
    <3>1. Part(a, 0, cursor) = Part(d, 0, cursor)
      <4>1. to <= Len(d) /\ 0 + cursor <= to
        BY <1>4, <2>5
      <4> QED
        BY <2>6, <4>1, PartOfPart
    <3>2. ASSUME NEW i \in 1..cursor
          PROVE  d[0 + i] = s[0 + i]
      <4>1. cursor <= used /\ cursor <= end /\ cursor <= to
        BY <1>1, <1>2, <1>4
      <4>2. i \in 1..end /\ i \in 1..used /\ i <= to /\ i <= used
        BY <1>2, <4>1
      <4>3. i \in 1..Len(r) /\ 0 + i = i
        BY <2>2, <4>2
      <4>4. memory[i] = r[i]
        BY <2>3, <4>2, <4>3 DEF Moved
      <4> QED
        BY <1>6, <1>8, <2>1, <2>5, <4>2, <4>3, <4>4
    <3>3. Agree(d, 0, s, 0, cursor)
      <4>1. 0 + cursor <= Len(d) /\ 0 + cursor <= Len(s)
        BY <1>1, <1>2, <2>1, <2>5
      <4> QED
        BY <3>2, <4>1 DEF Agree, Within
    <3> QED
      BY <3>1, <3>3, PartsEqual
  <2>11. Part(d, to, rest) = Part(s, cursor, rest)
    <3>1. ASSUME NEW i \in 1..rest
          PROVE  d[to + i] = s[cursor + i]
      <4>1. to + i \in 1..end /\ cursor + i \in 1..used /\ cursor + i \in 1..end /\ cursor + i <= used
        BY <1>2, <1>3, <1>4
      <4>2. memory[to + i] = r[cursor + i]
        BY <2>3 DEF Moved
      <4> QED
        BY <1>6, <1>8, <2>1, <2>5, <4>1, <4>2
    <3>2. Agree(d, to, s, cursor, rest)
      <4>1. to + rest <= Len(d) /\ cursor + rest <= Len(s)
        BY <1>3, <1>4, <2>1, <2>5
      <4> QED
        BY <3>1, <4>1 DEF Agree, Within
    <3> QED
      BY <3>2, PartsEqual
  <2>12. Len(Part(a, cursor, n)) <= max
    BY <1>1, <1>2, <2>9
  <2>13. d = Part(s, 0, cursor) \o Part(a, cursor, n) \o Part(s, cursor, rest)
    BY <2>7, <2>8, <2>10, <2>11, Zenon
  <2> QED
    BY <2>1, <2>5, <2>9, <2>12, <2>13, Zenon
<1>15. /\ Keeps(pk, Inserted(pk, n), max)
       /\ Inserted(pk, n).cursor = pk.cursor
       /\ ~Dangling(pk) =>
            \E hole \in Seq(Bytes) :
              /\ Len(hole) <= max
              /\ Data(Inserted(pk, n)) =
                   Part(Data(pk), 0, pk.cursor) \o hole \o Part(Data(pk), pk.cursor, pk.used - pk.cursor)
  BY <1>1, <1>3, <1>11, <1>12, <1>13, <1>14
<1> QED
  BY <1>15 DEF IsInserted

\* A block that begins with the bytes in use.
LEMMA LoadedFacts ==
  ASSUME NEW max \in Nat, NEW pk, Fits(pk, max), NEW bytes \in Seq(Bytes), Len(bytes) <= pk.memSize,
         NEW cursor \in 0..Len(bytes)
  PROVE  /\ Keeps(pk, Remade(pk, Overwrite(pk.memory, 0, bytes), Len(bytes), cursor), max)
         /\ Remade(pk, Overwrite(pk.memory, 0, bytes), Len(bytes), cursor).cursor = cursor
         /\ ~Dangling(pk) => Data(Remade(pk, Overwrite(pk.memory, 0, bytes), Len(bytes), cursor)) = bytes
<1>1. PICK m \in Seq(Bytes) : m = pk.memory
  BY FitsFacts
<1>2. PICK memory \in Seq(Bytes) : memory = Overwrite(m, 0, bytes) /\ Len(memory) = Len(m)
  BY OverwriteFacts
<1>3. PICK n \in 0..pk.memSize : n = Len(bytes)
  BY FitsFacts
<1>4. PICK new : new = Remade(pk, memory, n, cursor)
  OBVIOUS
<1>5. Keeps(pk, new, max) /\ new.memory = memory /\ new.used = n /\ new.cursor = cursor
  BY <1>1, <1>2, <1>3, <1>4, RemadeFacts
<1>6. ASSUME ~Dangling(pk)
      PROVE  Data(new) = bytes
  <2>1. Fits(new, max) /\ ~Dangling(new)
    BY <1>5, <1>6 DEF Keeps
  <2>2. n \in Nat /\ Len(m) \in Nat /\ n <= Len(m)
    BY <1>1, <1>3, <1>6, FitsFacts DEF Fits, Dangling
  <2>3. ASSUME NEW i \in 1..Len(bytes)
        PROVE  new.memory[i] = bytes[i]
    <3>1. i \in 1..Len(m) /\ i > 0 /\ i <= 0 + Len(bytes) /\ i - 0 = i
      BY <1>3, <2>2
    <3>2. memory[i] = bytes[i - 0]
      BY <1>2, <3>1, OverwriteFacts
    <3> QED
      BY <1>5, <3>1, <3>2
  <2> QED
    BY <1>3, <1>5, <2>1, <2>3, DataIs
<1> QED
  BY <1>1, <1>2, <1>3, <1>4, <1>5, <1>6

\* Clear drops the data.
LEMMA ClearedText ==
  ASSUME NEW max \in Nat, NEW pk, Fits(pk, max)
  PROVE  /\ Keeps(pk, Cleared(pk), max) /\ Cleared(pk).cursor = 0 /\ Data(Cleared(pk)) = <<>>
<1>1. PICK new : new = Cleared(pk)
  OBVIOUS
<1>2. /\ new \in Blocks /\ new.memory = pk.memory /\ new.memSize = pk.memSize
      /\ new.used = 0 /\ new.cursor = 0
  BY <1>1, ClearedFacts DEF Fits
<1>3. Keeps(pk, new, max)
  BY <1>2 DEF Keeps, Fits, Dangling, Blocks
<1>4. Data(new) = <<>>
  BY <1>2 DEF Data
<1> QED
  BY <1>1, <1>2, <1>3, <1>4

\* SetMemorySize drops the data; a block of another size is a new one.
LEMMA WithMemoryText ==
  ASSUME NEW max \in Nat, NEW pk, Fits(pk, max), NEW n \in 0..max
  PROVE  /\ Keeps(pk, WithMemory(pk, n), max)
         /\ n # pk.memSize => ~Dangling(WithMemory(pk, n))
         /\ WithMemory(pk, n).memSize = n
         /\ WithMemory(pk, n).used = 0 /\ WithMemory(pk, n).cursor = 0
         /\ Data(WithMemory(pk, n)) = <<>>
<1>1. PICK new : new = WithMemory(pk, n)
  OBVIOUS
<1>2. /\ new \in Blocks /\ new.memSize = n /\ new.used = 0 /\ new.cursor = 0
      /\ n = pk.memSize => new.memory = pk.memory
      /\ n # pk.memSize => Len(new.memory) = n
  <2>1. pk \in Blocks /\ n \in Nat
    BY FitsFacts
  <2> QED
    BY <1>1, <2>1, WithMemoryFacts
<1>3. Keeps(pk, new, max) /\ (n # pk.memSize => ~Dangling(new))
  BY <1>2 DEF Keeps, Fits, Dangling, Blocks
<1>4. Data(new) = <<>>
  BY <1>2 DEF Data
<1> QED
  BY <1>1, <1>2, <1>3, <1>4

\* A string in a new packet.
LEMMA WithStringFacts ==
  ASSUME NEW max \in Nat, NEW string \in Seq(Bytes), Len(string) <= max
  PROVE  /\ Fits(WithString(New, string), max) /\ ~Dangling(WithString(New, string))
         /\ WithString(New, string).cursor = Len(string)
         /\ Data(WithString(New, string)) = string
<1>1. PICK n \in 0..max : n = Len(string)
  OBVIOUS
<1>2. PICK room : room = IF n > 0 THEN WithMemory(New, n) ELSE New
  OBVIOUS
<1>3. Fits(New, max) /\ ~Dangling(New) /\ New.memSize = 0
  BY NewFacts
<1>4. Fits(room, max) /\ ~Dangling(room) /\ n <= room.memSize
  <2>1. CASE n > 0
    <3>1. n # New.memSize /\ room = WithMemory(New, n)
      BY <1>2, <1>3, <2>1
    <3>2. /\ Keeps(New, WithMemory(New, n), max) /\ ~Dangling(WithMemory(New, n))
          /\ WithMemory(New, n).memSize = n
      BY <1>3, <3>1, WithMemoryText
    <3> QED
      BY <3>1, <3>2 DEF Keeps
  <2>2. CASE ~(n > 0)
    BY <1>2, <1>3, <2>2
  <2> QED
    BY <2>1, <2>2
<1>5. WithString(New, string) = Remade(room, Overwrite(room.memory, 0, string), Len(string), Len(string))
  BY <1>1, <1>2, <1>3 DEF WithString, Remade
<1>6. PICK new : new = Remade(room, Overwrite(room.memory, 0, string), Len(string), Len(string))
  OBVIOUS
<1>7. Keeps(room, new, max) /\ new.cursor = Len(string) /\ Data(new) = string
  BY <1>1, <1>4, <1>6, LoadedFacts
<1> QED
  BY <1>4, <1>5, <1>6, <1>7 DEF Keeps

\* A buffer that replaces the data.
LEMMA WithBufferFacts ==
  ASSUME NEW max \in Nat, NEW pk, Fits(pk, max), NEW bytes \in Seq(Bytes), Len(bytes) <= max
  PROVE  /\ Keeps(pk, WithBuffer(pk, bytes), max)
         /\ WithBuffer(pk, bytes).cursor = 0
         /\ ~Dangling(pk) => Data(WithBuffer(pk, bytes)) = bytes
<1>1. PICK n \in 0..max : n = Len(bytes)
  OBVIOUS
<1>2. PICK room : room = IF n > pk.memSize THEN WithMemory(pk, n) ELSE Cleared(pk)
  OBVIOUS
<1>3. /\ Keeps(pk, room, max) /\ n <= room.memSize /\ room.cursor = 0
  <2>1. CASE n > pk.memSize
    BY <1>2, <2>1, WithMemoryText
  <2>2. CASE ~(n > pk.memSize)
    <3>1. Cleared(pk).memSize = pk.memSize
      BY FitsFacts, ClearedFacts
    <3> QED
      BY <1>2, <2>2, <3>1, FitsFacts, ClearedText
  <2> QED
    BY <2>1, <2>2
<1>4. PICK full : full = Remade(room, Overwrite(room.memory, 0, bytes), Len(bytes), 0)
  OBVIOUS
<1>5. Fits(room, max) /\ room \in Blocks
  BY <1>3 DEF Keeps, Fits
<1>6. Keeps(room, full, max) /\ full.cursor = 0 /\ (~Dangling(room) => Data(full) = bytes)
  BY <1>1, <1>3, <1>4, <1>5, LoadedFacts
<1>7. PICK new : new = WithBuffer(pk, bytes)
  OBVIOUS
<1>8. full \in Blocks
  BY <1>6 DEF Keeps, Fits
<1>9. new = [full EXCEPT !.head = 1]
  <2>1. new = [room EXCEPT !.memory = Overwrite(room.memory, 0, bytes), !.used = n, !.head = 1]
    BY <1>1, <1>2, <1>7 DEF WithBuffer
  <2>2. full = [room EXCEPT !.memory = Overwrite(room.memory, 0, bytes), !.used = n, !.cursor = 0]
    BY <1>1, <1>4 DEF Remade
  <2> QED
    BY <1>3, <1>5, <2>1, <2>2 DEF Blocks
<1>10. /\ new \in Blocks /\ new.memory = full.memory /\ new.memSize = full.memSize
       /\ new.used = full.used /\ new.cursor = full.cursor
  BY <1>8, <1>9 DEF Blocks
<1>11. Data(new) = Data(full) /\ (Dangling(new) <=> Dangling(full)) /\ Fits(new, max)
  BY <1>6, <1>10 DEF Data, Dangling, Keeps, Fits
<1> QED
  BY <1>3, <1>6, <1>7, <1>10, <1>11 DEF Keeps

\* The memory of a packet is given away.
LEMMA EmptiedFacts ==
  ASSUME NEW max \in Nat, NEW pk, Fits(pk, max), pk.memSize # 0
  PROVE  /\ Fits(Resized(pk, 0), max) /\ Dangling(Resized(pk, 0)) /\ Resized(pk, 0).cursor = pk.cursor
<1>1. PICK new : new = Resized(pk, 0)
  OBVIOUS
<1>2. new = [pk EXCEPT !.memory = <<>>]
  BY <1>1 DEF Resized
<1>3. /\ new \in Blocks /\ new.memory = <<>> /\ new.memSize = pk.memSize
      /\ new.used = pk.used /\ new.cursor = pk.cursor
  <2>1. pk \in Blocks /\ <<>> \in Seq(Bytes)
    BY FitsFacts
  <2> QED
    BY <1>2, <2>1 DEF Blocks
<1>4. PICK size \in Nat : size = pk.memSize /\ size # 0
  BY FitsFacts
<1>5. Len(new.memory) = 0
  BY <1>3
<1>6. Dangling(new)
  BY <1>3, <1>4, <1>5 DEF Dangling
<1>7. Fits(new, max)
  BY <1>3, <1>5, FitsFacts DEF Fits
<1> QED
  BY <1>1, <1>3, <1>6, <1>7

\* Memory of another size keeps the text.
LEMMA ResizedText ==
  ASSUME NEW max \in Nat, NEW pk, Fits(pk, max), ~Dangling(pk), NEW n \in 1..max
  PROVE  /\ Fits(Resized(pk, n), max) /\ ~Dangling(Resized(pk, n))
         /\ Resized(pk, n).cursor = pk.cursor /\ Data(Resized(pk, n)) = Data(pk)
<1>1. CASE n = pk.memSize
  BY <1>1 DEF Resized
<1>2. CASE n # pk.memSize
  <2>1. PICK s \in Seq(Bytes) : s = Data(pk) /\ Len(s) = pk.used /\ \A i \in 1..pk.used : s[i] = pk.memory[i]
    BY WholeFacts
  <2>2. PICK new : new = Resized(pk, n)
    OBVIOUS
  <2>3. /\ Fits(new, max) /\ ~Dangling(new) /\ new.cursor = pk.cursor /\ new.used = pk.used
        /\ \A i \in 1..pk.used : new.memory[i] = pk.memory[i]
    BY <1>2, <2>2, WholeFacts, ResizedFacts
  <2>4. Data(new) = s
    BY <2>1, <2>3, DataIs
  <2> QED
    BY <2>1, <2>2, <2>3, <2>4
<1> QED
  BY <1>1, <1>2

\* A packet that is copied: its text, or none if its memory was given away.
LEMMA CopiedText ==
  ASSUME NEW max \in Nat, NEW pk, Fits(pk, max), NEW other \in Nat, NEW from, Fits(from, other),
         from.used <= max, ~Outside(from, 0, from.used),
         pk.memSize < from.used \/ from.used <= Len(pk.memory)
  PROVE  /\ Keeps(pk, Copied(pk, from), max)
         /\ Copied(pk, from).cursor = from.cursor
         /\ ~Dangling(pk) => Data(Copied(pk, from)) = Data(from)
         /\ Dangling(from) => Data(from) = <<>> /\ from.cursor = 0
<1>1. PICK used \in Nat, size \in Nat : used = from.used /\ size = pk.memSize /\ size <= max
  BY FitsFacts
<1>2. pk \in Blocks /\ from \in Blocks /\ Len(pk.memory) \in {0, pk.memSize} /\ from.cursor <= from.used
  BY DEF Fits
<1>3. PICK new : new = Copied(pk, from)
  OBVIOUS
<1>4. /\ new \in Blocks
      /\ new.memSize = (IF used > size THEN used ELSE size)
      /\ used > size => Len(new.memory) = used
      /\ used <= size => Len(new.memory) = Len(pk.memory)
      /\ new.used = used /\ new.cursor = from.cursor
  BY <1>1, <1>2, <1>3, CopiedFacts
<1>5. \A i \in 1..used : new.memory[i] = from.memory[i]
  BY <1>1, <1>2, <1>3, CopiedFacts
<1>6. PICK s \in Seq(Bytes) : s = Data(from) /\ Len(s) = used /\ \A i \in 1..used : s[i] = from.memory[i]
  BY <1>1, <1>2, DataFacts
<1>7. Keeps(pk, new, max)
  <2>1. CASE used > size
    BY <1>1, <1>2, <1>4, <2>1 DEF Keeps, Fits, Dangling
  <2>2. CASE ~(used > size)
    BY <1>1, <1>2, <1>4, <2>2 DEF Keeps, Fits, Dangling
  <2> QED
    BY <2>1, <2>2
<1>8. ASSUME ~Dangling(pk)
      PROVE  Data(new) = s
  <2>1. Fits(new, max) /\ ~Dangling(new)
    BY <1>7, <1>8 DEF Keeps
  <2>2. \A i \in 1..Len(s) : new.memory[i] = s[i]
    BY <1>5, <1>6
  <2> QED
    BY <1>4, <1>6, <2>1, <2>2, DataIs
<1>9. ASSUME Dangling(from)
      PROVE  Data(from) = <<>> /\ from.cursor = 0
  <2>1. from.used = 0 /\ from.cursor = 0
    BY <1>9, FitsFacts DEF Fits, Dangling, Outside
  <2> QED
    BY <2>1 DEF Data
<1> QED
  BY <1>3, <1>4, <1>6, <1>7, <1>8, <1>9

\* AddPacket: what is written at the cursor begins with the data that is added; if that is
\* longer, the rest lies behind what is in use.
LEMMA AddedFacts ==
  ASSUME NEW max \in Nat, NEW pk, Fits(pk, max), NEW added \in Seq(Bytes), NEW copy \in Seq(Bytes),
         NEW to, to = pk.cursor + Len(added), to <= max, ~GrowFaults(pk, to),
         Len(added) <= Len(copy), \A i \in 1..Len(added) : copy[i] = added[i],
         Len(added) < Len(copy) => pk.used <= to
  PROVE  /\ Keeps(pk, WrittenAt(Room(pk, to), pk.cursor, copy, to), max)
         /\ WrittenAt(Room(pk, to), pk.cursor, copy, to).cursor = to
         /\ ~Dangling(pk) =>
              Data(WrittenAt(Room(pk, to), pk.cursor, copy, to)) = Text!Over(Data(pk), pk.cursor, added)
<1>1. PICK n \in Nat, l \in Nat : n = Len(added) /\ l = Len(copy) /\ n <= l
  OBVIOUS
<1>2. PICK used \in Nat, cursor \in Nat : used = pk.used /\ cursor = pk.cursor /\ cursor <= used
  BY FitsFacts
<1>3. /\ used = pk.used /\ cursor = pk.cursor /\ cursor <= used
      /\ n = Len(added) /\ l = Len(copy) /\ n <= l
  BY <1>1, <1>2
<1>4. PICK end \in 0..max : end = to /\ end = cursor + n /\ end \in Nat /\ (n < l => used <= end)
  BY <1>3
<1>5. PICK room : room = Room(pk, end)
  OBVIOUS
<1>6. PICK all \in Nat : all = Greater(used, end) /\ used <= all /\ end <= all /\ (n < l => all = end)
                         /\ all \in {used, end}
  BY <1>3, <1>4 DEF Greater
<1>7. /\ Keeps(pk, room, max) /\ room.used = all /\ room.cursor = cursor
      /\ \A i \in 1..used : room.memory[i] = pk.memory[i]
  BY <1>3, <1>4, <1>5, <1>6, RoomFacts
<1>8. Fits(room, max) /\ end \in 0..room.used
  BY <1>4, <1>6, <1>7 DEF Keeps
<1>9. PICK r \in Seq(Bytes) : r = room.memory
  BY <1>8, FitsFacts
<1>10. PICK new : new = WrittenAt(room, cursor, copy, end)
  OBVIOUS
<1>11. /\ Keeps(room, new, max) /\ new.used = all /\ new.cursor = end
  BY <1>7, <1>8, <1>10, OverwrittenFacts
<1>12. \A i \in 1..Len(r) : new.memory[i] = IF i > cursor /\ i <= cursor + l THEN copy[i - cursor] ELSE r[i]
  <2>1. IsOverwritten(WrittenAt(room, cursor, copy, end).memory, room.memory, cursor, copy)
    BY <1>8, OverwrittenFacts
  <2> QED
    BY <1>3, <1>9, <1>10, <2>1, Zenon DEF IsOverwritten
<1>13. Keeps(pk, new, max)
  BY <1>7, <1>11 DEF Keeps
<1>14. ASSUME ~Dangling(pk)
       PROVE  Data(new) = Text!Over(Data(pk), cursor, added)
  <2>1. PICK s \in Seq(Bytes) : s = Data(pk) /\ Len(s) = used /\ \A i \in 1..used : s[i] = pk.memory[i]
    BY <1>3, <1>14, WholeFacts
  <2>2. PICK d \in Seq(Bytes) :
          /\ d = Text!Over(s, cursor, added) /\ Len(d) = all
          /\ \A i \in 1..all : d[i] = IF i > cursor /\ i <= end THEN added[i - cursor] ELSE s[i]
    <3>1. cursor \in 0..Len(s)
      BY <1>3, <2>1
    <3>2. IsOver(Text!Over(s, cursor, added), s, cursor, added)
      BY <3>1, OverFacts
    <3>3. cursor + Len(added) = end /\ Len(s) = used /\ Greater(used, end) = all
      BY <1>3, <1>4, <1>6, <2>1
    <3>4. PICK e \in Seq(Bytes) : e = Text!Over(s, cursor, added) /\ IsOver(e, s, cursor, added)
      BY <3>2 DEF IsOver
    <3>5. Len(e) = all
      BY <3>3, <3>4 DEF IsOver
    <3>6. \A i \in 1..all : e[i] = IF i > cursor /\ i <= end THEN added[i - cursor] ELSE s[i]
      BY <3>3, <3>4, <3>5, Zenon DEF IsOver
    <3> QED
      BY <3>4, <3>5, <3>6, Zenon
  <2>3. Fits(new, max) /\ ~Dangling(new)
    BY <1>13, <1>14 DEF Keeps
  <2>4. PICK k \in Nat : k = Len(r) /\ all <= k
    <3>1. Fits(room, max) /\ ~Dangling(room) /\ room.used = all
      BY <1>7, <1>8, <1>14 DEF Keeps
    <3>2. room.used <= Len(room.memory)
      BY <3>1, WholeFacts
    <3>3. Len(r) \in Nat
      OBVIOUS
    <3> QED
      BY <1>9, <3>1, <3>2, <3>3, Zenon
  <2>5. ASSUME NEW i \in 1..Len(d)
        PROVE  new.memory[i] = d[i]
    <3>1. i \in 1..all /\ i \in 1..Len(r) /\ i \in Nat
      BY <2>2, <2>4
    <3>2. CASE i > cursor /\ i <= end
      <4>1. i <= cursor + l /\ i - cursor \in 1..n
        <5>1. i <= cursor + n /\ i - cursor >= 1 /\ i - cursor \in Nat
          BY <1>3, <1>4, <3>1, <3>2, SMTT(30)
        <5> QED
          BY <1>3, <3>1, <5>1, SMTT(30)
      <4>2. new.memory[i] = copy[i - cursor]
        BY <1>12, <3>1, <3>2, <4>1
      <4>3. copy[i - cursor] = added[i - cursor]
        BY <1>3, <4>1
      <4> QED
        BY <2>2, <3>1, <3>2, <4>2, <4>3
    <3>3. CASE ~(i > cursor /\ i <= end)
      <4>1. ~(i > cursor /\ i <= cursor + l) /\ i \in 1..used
        BY <1>3, <1>4, <1>6, <3>1, <3>3, SMTT(30)
      <4>2. new.memory[i] = r[i] /\ r[i] = pk.memory[i] /\ s[i] = pk.memory[i]
        BY <1>7, <1>9, <1>12, <2>1, <3>1, <4>1
      <4> QED
        BY <2>2, <3>1, <3>3, <4>2
    <3> QED
      BY <3>2, <3>3
  <2>6. Data(new) = d
    BY <1>11, <2>2, <2>3, <2>5, DataIs
  <2> QED
    BY <2>1, <2>2, <2>6
<1> QED
  BY <1>3, <1>4, <1>5, <1>10, <1>11, <1>13, <1>14

-----------------------------------------------------------------------------
(***************************************************************************)
(* What one command on a packet does to it and to its text.                *)
(***************************************************************************)
Fitting == packet \in [Packets -> Blocks] /\ \A p \in Packets : Fits(packet[p], MaxSize[p])

\* What a command is given or tells.
Told(p, bytes) == bytes \in Text!Bytes(p) \union [{1} -> 0..MaxSize[p]]

\* The step is one of the text's, by a command on p.
Shown(p) ==
  /\ last' \in [what : Text!Commands, packet : {p}, other : Packets \union {Nothing},
                bytes : Text!Bytes(p) \union [{1} -> 0..MaxSize[p]]]
  /\ \/ Text!Assign(p) \/ Text!String(p) \/ Text!Load(p) \/ Text!Empty(p)
     \/ ~Dangling(packet[p]) /\ Text!Kept(p)
     \/ Dangling(packet[p]) /\ Text!WhileLost(p)

\* A command works, and what it does shows in the text, or it faults on a block that
\* was given away.
Serves(p) ==
  \/ Fault /\ Dangling(packet[p])
  \/ Fitting' /\ fault' = fault /\ Shown(p)

\* The command makes pk of the packet.
Effect(p, pk, what, other, bytes) ==
  /\ packet' = [packet EXCEPT ![p] = pk]
  /\ last' = [what |-> what, packet |-> p, other |-> other, bytes |-> bytes]

\* Data that is there is no lost text.
LEMMA TextOfPacket ==
  ASSUME Fitting, NEW p \in Packets, ~Dangling(packet[p])
  PROVE  Data(packet[p]) # Lost
<1>1. Data(packet[p]) \in Seq(Bytes)
  BY PacketAssumption, WholeFacts DEF Fitting
<1> QED
  BY <1>1, PacketAssumption DEF Bytes

\* A packet that fits, in place of another one.
LEMMA FittingKept ==
  ASSUME Fitting, NEW p \in Packets, NEW pk, Fits(pk, MaxSize[p]), packet' = [packet EXCEPT ![p] = pk]
  PROVE  Fitting'
BY DEF Fitting, Fits

\* The text of the packet that takes the place of another.
LEMMA Edited ==
  ASSUME Fitting, NEW p \in Packets, NEW pk, packet' = [packet EXCEPT ![p] = pk], ~Dangling(pk)
  PROVE  Text!Edit(p, Data(pk), pk.cursor)
BY DEF Fitting, Text!Edit

\* Nothing is promised while the text is lost.
LEMMA LostIs ==
  ASSUME Fitting, NEW p \in Packets, NEW pk, packet' = [packet EXCEPT ![p] = pk]
  PROVE  Text!WhileLost(p)
BY DEF Fitting, Text!WhileLost

\* Sequences of bytes that the text's commands may name.
LEMMA ToldFacts ==
  ASSUME NEW p \in Packets, NEW bytes \in Seq(Bytes), Len(bytes) <= MaxSize[p]
  PROVE  bytes \in Text!Bytes(p) /\ Told(p, bytes)
<1>1. PICK n \in 0..MaxSize[p] : n = Len(bytes)
  BY PacketAssumption
<1>2. bytes \in [1..n -> Byte \union {Junk}]
  BY <1>1 DEF Bytes
<1> QED
  BY <1>2 DEF Text!Bytes, Told

\* A command that works shows as one of the text's.
LEMMA EffectShows ==
  ASSUME Fitting, NEW p \in Packets, NEW pk, NEW what \in Text!Commands,
         NEW other \in Packets \union {Nothing}, NEW bytes, Told(p, bytes),
         Effect(p, pk, what, other, bytes), fault' = fault, Fits(pk, MaxSize[p]),
         ~Dangling(packet[p]) =>
           Text!Assign(p) \/ Text!String(p) \/ Text!Load(p) \/ Text!Empty(p) \/ Text!Kept(p)
  PROVE  Fitting' /\ fault' = fault /\ Shown(p)
<1>1. Fitting'
  BY FittingKept DEF Effect
<1>2. last' \in [what : Text!Commands, packet : {p}, other : Packets \union {Nothing},
                 bytes : Text!Bytes(p) \union [{1} -> 0..MaxSize[p]]]
  BY DEF Effect, Told
<1>3. Dangling(packet[p]) => Text!WhileLost(p)
  BY LostIs DEF Effect
<1> QED
  BY <1>1, <1>2, <1>3 DEF Shown

\* The same of a command on one packet.
LEMMA DoServes ==
  ASSUME Fitting, NEW p \in Packets, NEW faults, NEW pk, NEW what \in Text!Commands, NEW bytes,
         Do(p, faults, pk, what, bytes), faults => Dangling(packet[p]),
         ~faults => Told(p, bytes) /\ Fits(pk, MaxSize[p]),
         ~faults /\ ~Dangling(packet[p]) /\ Effect(p, pk, what, Nothing, bytes) =>
           Text!Assign(p) \/ Text!String(p) \/ Text!Load(p) \/ Text!Empty(p) \/ Text!Kept(p)
  PROVE  Serves(p) /\ UNCHANGED <<live, op>>
<1>1. CASE faults
  BY <1>1 DEF Do, Fault, Serves
<1>2. CASE ~faults
  <2>1. Effect(p, pk, what, Nothing, bytes) /\ fault' = fault /\ UNCHANGED <<live, op>>
    BY <1>2 DEF Do, Done, Effect
  <2> QED
    BY <1>2, <2>1, EffectShows DEF Serves
<1> QED
  BY <1>1, <1>2

\* Bytes written at the cursor are those of the text.
LEMMA PutServes ==
  ASSUME Fitting, NEW p \in Packets, NEW bytes \in Seq(Bytes),
         packet[p].cursor + Len(bytes) <= MaxSize[p], Put(p, bytes)
  PROVE  Serves(p) /\ UNCHANGED <<live, op>>
<1>1. PICK max \in Nat : max = MaxSize[p]
  BY PacketAssumption
<1>2. PICK pk \in Blocks : pk = packet[p] /\ Fits(pk, max)
  BY <1>1 DEF Fitting
<1>3. PICK cursor \in Nat, n \in Nat : cursor = pk.cursor /\ n = Len(bytes)
  BY <1>2, FitsFacts
<1>4. PICK end \in 0..max : end = cursor + n
  BY <1>1, <1>2, <1>3
<1> DEFINE faults == GrowFaults(pk, end) \/ Outside(Room(pk, end), cursor, n)
<1>5. Do(p, faults, Written(pk, bytes), "put", bytes)
  BY <1>2, <1>3, <1>4 DEF Put
<1>6. faults => Dangling(pk)
  <2> SUFFICES ASSUME ~Dangling(pk)
               PROVE  ~Outside(Room(pk, end), cursor, n) /\ ~GrowFaults(pk, end)
    OBVIOUS
  <2>1. ~GrowFaults(pk, end)
    BY <1>2, WholeFacts
  <2>2. PICK room : room = Room(pk, end)
    OBVIOUS
  <2>3. Fits(room, max) /\ ~Dangling(room) /\ room.used = Greater(pk.used, end)
    BY <1>2, <2>1, <2>2, RoomFacts DEF Keeps
  <2>4. end <= room.used
    BY <1>2, <2>3, FitsFacts DEF Greater
  <2>5. room.used <= Len(room.memory) /\ Len(room.memory) \in Nat /\ room.used \in Nat
    BY <2>3, WholeFacts
  <2>6. ~Outside(room, cursor, n)
    BY <1>3, <1>4, <2>4, <2>5 DEF Outside
  <2> QED
    BY <2>1, <2>2, <2>6
<1>7. PICK new : new = Written(pk, bytes)
  OBVIOUS
<1>8. ~faults => /\ Keeps(pk, new, max) /\ new.cursor = cursor + n
                 /\ ~Dangling(pk) => Data(new) = Text!Over(Data(pk), cursor, bytes)
  BY <1>2, <1>3, <1>4, <1>7, WrittenFacts
<1>9. Told(p, bytes)
  BY <1>1, <1>3, <1>4, ToldFacts
<1>10. ASSUME ~faults, ~Dangling(pk), Effect(p, new, "put", Nothing, bytes)
       PROVE  Text!Kept(p)
  <2>1. Text!Edit(p, Data(new), new.cursor)
    BY <1>8, <1>10, Edited DEF Effect, Keeps
  <2>2. last'.bytes = bytes /\ last'.what = "put"
    BY <1>10 DEF Effect
  <2>3. Text!Edit(p, Text!Over(Data(pk), cursor, bytes), cursor + Len(bytes))
    BY <1>3, <1>8, <1>10, <2>1
  <2>4. Text!Put(p)
    <3>1. [q \in Packets |-> IF Dangling(packet[q]) THEN Lost ELSE Data(packet[q])][p] = Data(pk)
      BY <1>2, <1>10
    <3>2. [q \in Packets |-> packet[q].cursor][p] = cursor
      BY <1>2, <1>3
    <3> QED
      BY <2>2, <2>3, <3>1, <3>2, Zenon DEF Text!Put, Text!Is, Text!Given, Text!Edit
  <2> QED
    BY <2>4 DEF Text!Kept
<1> HIDE DEF faults
<1>11. "put" \in Text!Commands
  BY DEF Text!Commands
<1> QED
  BY <1>1, <1>2, <1>5, <1>6, <1>7, <1>8, <1>9, <1>10, <1>11, DoServes DEF Keeps

\* The text and the cursor that the abstract packet p has.
TextAt(p, s, c) ==
  /\ [q \in Packets |-> IF Dangling(packet[q]) THEN Lost ELSE Data(packet[q])][p] = s
  /\ [q \in Packets |-> packet[q].cursor][p] = c

\* A whole block has its data as text.
LEMMA TextAtFacts ==
  ASSUME Fitting, NEW p \in Packets, ~Dangling(packet[p])
  PROVE  TextAt(p, Data(packet[p]), packet[p].cursor)
BY DEF TextAt, Fitting

\* A packet with its cursor elsewhere.
At(pk, c) == [pk EXCEPT !.cursor = c]

\* A packet with its cursor at another position.
LEMMA AtFacts ==
  ASSUME NEW max \in Nat, NEW pk, Fits(pk, max), NEW c \in 0..pk.used
  PROVE  /\ Fits(At(pk, c), max) /\ (Dangling(At(pk, c)) <=> Dangling(pk))
         /\ At(pk, c).cursor = c /\ Data(At(pk, c)) = Data(pk) /\ At(pk, pk.cursor) = pk
<1>1. pk \in Blocks /\ c \in Nat /\ c <= pk.used
  BY FitsFacts
<1>2. PICK new : new = At(pk, c)
  OBVIOUS
<1>3. /\ new \in Blocks /\ new.memory = pk.memory /\ new.memSize = pk.memSize
      /\ new.used = pk.used /\ new.cursor = c
  BY <1>1, <1>2 DEF At, Blocks
<1>4. Fits(new, max) /\ (Dangling(new) <=> Dangling(pk)) /\ Data(new) = Data(pk)
  BY <1>1, <1>3 DEF Fits, Dangling, Data
<1>5. At(pk, pk.cursor) = pk
  BY <1>1 DEF At, Blocks
<1> QED
  BY <1>2, <1>3, <1>4, <1>5

\* What commands that leave the text alone tell of it, and where they leave the cursor.
Reads(s, from, c, what, bytes) ==
  \/ /\ what = "take"
     /\ \E skip \in {0, Prefix} :
          /\ c = from + skip + Len(bytes) /\ c <= Len(s)
          /\ bytes = SubSeq(s, from + skip + 1, c)
  \/ what = "fail" /\ c \in from..Len(s)
  \/ what = "move" /\ c \in 0..Len(s)
  \/ /\ c = from
     /\ \/ what = "look"
        \/ what = "size" /\ bytes = <<Len(s)>>
        \/ what = "cursor" /\ bytes = <<from>>
        \/ what = "remainder" /\ bytes = <<Len(s) - from>>
        \/ what = "copy" /\ bytes = s
        \/ what = "is" /\ s \in {bytes, bytes \o <<0>>}

\* Those commands are the text's.
LEMMA ReadsKept ==
  ASSUME NEW p \in Packets, NEW s, NEW from, NEW c, NEW what, NEW bytes, Reads(s, from, c, what, bytes),
         TextAt(p, s, from), Text!Edit(p, s, c), last'.what = what, last'.bytes = bytes,
         c = from => UNCHANGED <<[q \in Packets |-> IF Dangling(packet[q]) THEN Lost ELSE Data(packet[q])],
                                 [q \in Packets |-> packet[q].cursor]>>
  PROVE  Text!Kept(p)
<1>1. CASE /\ what = "take"
           /\ \E skip \in {0, Prefix} :
                /\ c = from + skip + Len(bytes) /\ c <= Len(s)
                /\ bytes = SubSeq(s, from + skip + 1, c)
  <2>1. Text!Take(p)
    BY <1>1, Zenon DEF Text!Take, Text!Is, Text!Given, Text!Edit, Text!Size, TextAt
  <2> QED
    BY <2>1 DEF Text!Kept
<1>2. CASE what = "fail" /\ c \in from..Len(s)
  <2>1. Text!Fail(p)
    BY <1>2, Zenon DEF Text!Fail, Text!Is, Text!Edit, Text!Size, TextAt
  <2> QED
    BY <2>1 DEF Text!Kept
<1>3. CASE what = "move" /\ c \in 0..Len(s)
  <2>1. Text!Move(p)
    BY <1>3, Zenon DEF Text!Move, Text!Is, Text!Edit, Text!Size, TextAt
  <2> QED
    BY <2>1 DEF Text!Kept
<1>4. CASE c = from /\ what = "look"
  <2>1. Text!Look
    BY <1>4, Zenon DEF Text!Look, Text!Is
  <2> QED
    BY <2>1 DEF Text!Kept
<1>5. CASE /\ c = from
           /\ \/ what = "size" /\ bytes = <<Len(s)>>
              \/ what = "cursor" /\ bytes = <<from>>
              \/ what = "remainder" /\ bytes = <<Len(s) - from>>
              \/ what = "copy" /\ bytes = s
              \/ what = "is" /\ s \in {bytes, bytes \o <<0>>}
  <2>1. Text!Tells(p)
    BY <1>5, Zenon DEF Text!Tells, Text!Is, Text!Given, Text!Size, TextAt
  <2> QED
    BY <2>1 DEF Text!Kept
<1> QED
  BY <1>1, <1>2, <1>3, <1>4, <1>5 DEF Reads

\* A command that leaves the text alone.
LEMMA ReadServes ==
  ASSUME Fitting, NEW p \in Packets, NEW faults, NEW c \in 0..packet[p].used,
         NEW what \in Text!Commands, NEW bytes, Do(p, faults, At(packet[p], c), what, bytes),
         faults => Dangling(packet[p]), ~faults => Told(p, bytes),
         ~faults /\ ~Dangling(packet[p]) => Reads(Data(packet[p]), packet[p].cursor, c, what, bytes)
  PROVE  Serves(p) /\ UNCHANGED <<live, op>>
<1>1. PICK max \in Nat : max = MaxSize[p]
  BY PacketAssumption
<1>2. PICK pk : pk = packet[p] /\ Fits(pk, max)
  BY <1>1 DEF Fitting
<1>3. PICK new : new = At(packet[p], c)
  OBVIOUS
<1>4. /\ Fits(new, max) /\ (Dangling(new) <=> Dangling(pk))
      /\ new.cursor = c /\ Data(new) = Data(pk) /\ At(pk, pk.cursor) = pk
  BY <1>2, <1>3, AtFacts
<1>5. ASSUME ~faults, ~Dangling(packet[p]), Effect(p, new, what, Nothing, bytes)
      PROVE  Text!Kept(p)
  <2>1. Text!Edit(p, Data(pk), c)
    BY <1>2, <1>4, <1>5, Edited DEF Effect
  <2>2. TextAt(p, Data(pk), pk.cursor)
    BY <1>2, <1>5, TextAtFacts
  <2>3. last'.what = what /\ last'.bytes = bytes
    BY <1>5 DEF Effect
  <2>4. ASSUME c = pk.cursor
        PROVE  UNCHANGED <<[q \in Packets |-> IF Dangling(packet[q]) THEN Lost ELSE Data(packet[q])],
                           [q \in Packets |-> packet[q].cursor]>>
    <3>1. packet' = packet
      BY <1>2, <1>3, <1>4, <1>5, <2>4 DEF Effect, Fitting
    <3> QED
      BY <3>1
  <2>5. Reads(Data(pk), pk.cursor, c, what, bytes)
    BY <1>2, <1>5
  <2> QED
    BY <2>1, <2>2, <2>3, <2>4, <2>5, ReadsKept
<1> QED
  BY <1>1, <1>2, <1>3, <1>4, <1>5, DoServes

\* A command that leaves the packet alone.
LEMMA LookServes ==
  ASSUME Fitting, NEW p \in Packets, NEW faults,
         NEW what \in Text!Commands, NEW bytes, Do(p, faults, packet[p], what, bytes),
         faults => Dangling(packet[p]), ~faults => Told(p, bytes),
         ~faults /\ ~Dangling(packet[p]) =>
           Reads(Data(packet[p]), packet[p].cursor, packet[p].cursor, what, bytes)
  PROVE  Serves(p) /\ UNCHANGED <<live, op>>
<1>1. PICK c \in 0..packet[p].used : c = packet[p].cursor
  BY PacketAssumption, FitsFacts DEF Fitting
<1>2. At(packet[p], c) = packet[p]
  BY <1>1, PacketAssumption, AtFacts DEF Fitting
<1> QED
  BY <1>1, <1>2, ReadServes

\* Bytes that are read where the block has them.
LEMMA ReadBytes ==
  ASSUME Fitting, NEW p \in Packets, NEW from \in Nat, NEW n \in Nat, from + n <= packet[p].used
  PROVE  /\ Outside(packet[p], from, n) => Dangling(packet[p])
         /\ ~Outside(packet[p], from, n) => Told(p, SubSeq(packet[p].memory, from + 1, from + n))
         /\ ~Dangling(packet[p]) =>
              /\ Len(SubSeq(packet[p].memory, from + 1, from + n)) = n
              /\ SubSeq(packet[p].memory, from + 1, from + n) = SubSeq(Data(packet[p]), from + 1, from + n)
              /\ Len(Data(packet[p])) = packet[p].used
<1>1. PICK max \in Nat : max = MaxSize[p]
  BY PacketAssumption
<1>2. PICK pk \in Blocks : pk = packet[p] /\ Fits(pk, max)
  BY <1>1 DEF Fitting
<1>3. PICK m \in Seq(Bytes), used \in Nat, k \in Nat : m = pk.memory /\ used = pk.used /\ k = Len(m)
  BY <1>2, FitsFacts
<1>4. from + n <= used /\ used <= max
  BY <1>2, <1>3, FitsFacts
<1>5. ASSUME ~Dangling(pk)
      PROVE  /\ ~Outside(pk, from, n)
             /\ Len(Part(m, from, n)) = n
             /\ Part(m, from, n) = Part(Data(pk), from, n)
             /\ Len(Data(pk)) = used
  <2>1. PICK s \in Seq(Bytes) : s = Data(pk) /\ Len(s) = used /\ \A i \in 1..used : s[i] = m[i]
    BY <1>2, <1>3, <1>5, WholeFacts
  <2>2. used <= k
    BY <1>2, <1>3, <1>5, WholeFacts
  <2>3. from + n <= k
    BY <1>4, <2>2
  <2>4. ~Outside(pk, from, n)
    BY <1>3, <2>3 DEF Outside
  <2>5. Agree(m, from, s, from, n)
    <3>1. \A i \in 1..n : from + i \in 1..used
      BY <1>4
    <3> QED
      BY <1>3, <1>4, <2>1, <2>3, <3>1 DEF Agree, Within
  <2>6. Part(m, from, n) = Part(s, from, n)
    BY <2>5, PartsEqual
  <2>7. Len(Part(m, from, n)) = n
    BY <1>3, <2>3, PartIs
  <2> QED
    BY <2>1, <2>4, <2>6, <2>7
<1>6. ASSUME ~Outside(pk, from, n)
      PROVE  Told(p, Part(m, from, n))
  <2>1. CASE n = 0
    <3>1. Part(m, from, n) = <<>>
      BY <2>1 DEF Part
    <3>2. <<>> \in Seq(Bytes) /\ Len(<<>>) <= MaxSize[p]
      BY <1>1
    <3> QED
      BY <3>1, <3>2, ToldFacts
  <2>2. CASE n # 0
    <3>1. from + n <= Len(m)
      BY <1>3, <1>6, <2>2 DEF Outside
    <3>2. Part(m, from, n) \in Seq(Bytes) /\ Len(Part(m, from, n)) = n
      BY <3>1, PartIs
    <3>3. n <= MaxSize[p]
      BY <1>1, <1>4
    <3> QED
      BY <3>2, <3>3, ToldFacts
  <2> QED
    BY <2>1, <2>2
<1> QED
  BY <1>2, <1>3, <1>5, <1>6, Zenon DEF Part

\* The command of a packet that is locked does what the text's does.
Works(p) == Serves(p) /\ UNCHANGED <<live, op>>

\* Nothing is told.
LEMMA NothingTold ==
  ASSUME NEW p \in Packets
  PROVE  Told(p, <<>>)
<1>1. <<>> \in Seq(Bytes) /\ Len(<<>>) <= MaxSize[p]
  BY PacketAssumption
<1> QED
  BY <1>1, ToldFacts

\* A command that throws leaves the packet alone.
LEMMA ThrowWorks ==
  ASSUME Fitting, NEW p \in Packets, Throw(p)
  PROVE  Works(p)
<1>1. Do(p, FALSE, packet[p], "fail", <<>>)
  BY DEF Throw
<1>2. ~Dangling(packet[p]) => Reads(Data(packet[p]), packet[p].cursor, packet[p].cursor, "fail", <<>>)
  BY PacketAssumption, FitsFacts, WholeFacts DEF Reads, Fitting
<1>3. "fail" \in Text!Commands
  BY DEF Text!Commands
<1> QED
  BY <1>1, <1>2, <1>3, NothingTold, LookServes DEF Works

\* A number is taken at the cursor, if the packet has it.
LEMMA GetWorks ==
  ASSUME Fitting, NEW t, NEW p \in Packets, NEW type \in NumberTypes, Get(t, p, type)
  PROVE  Works(p)
<1>1. PICK n \in Nat : n = SizeOf[type]
  BY PacketAssumption
<1>2. PICK cursor \in Nat, used \in Nat : cursor = packet[p].cursor /\ used = packet[p].used
  BY PacketAssumption, FitsFacts DEF Fitting
<1>3. PICK end \in Nat : end = cursor + n
  OBVIOUS
<1>4. CASE end > used
  BY <1>1, <1>2, <1>3, <1>4, ThrowWorks DEF Get
<1>5. CASE ~(end > used)
  <2> DEFINE faults == Outside(packet[p], cursor, n)
             bytes  == SubSeq(packet[p].memory, cursor + 1, cursor + n)
  <2>1. Do(p, faults, At(packet[p], end), "take", bytes)
    BY <1>1, <1>2, <1>3, <1>5 DEF Get, At, AtCursor
  <2>2. cursor + n <= packet[p].used /\ end \in 0..packet[p].used
    BY <1>2, <1>3, <1>5
  <2>3. /\ faults => Dangling(packet[p])
        /\ ~faults => Told(p, bytes)
        /\ ~Dangling(packet[p]) => /\ Len(bytes) = n /\ Len(Data(packet[p])) = packet[p].used
                                   /\ bytes = SubSeq(Data(packet[p]), cursor + 1, cursor + n)
    BY <2>2, ReadBytes
  <2>4. ~Dangling(packet[p]) => Reads(Data(packet[p]), cursor, end, "take", bytes)
    <3> HIDE DEF bytes, faults
    <3>1. cursor + 0 + n = end /\ cursor + 0 + 1 = cursor + 1 /\ 0 \in {0, Prefix}
      BY <1>3
    <3> QED
      BY <1>3, <2>2, <2>3, <3>1 DEF Reads
  <2>5. "take" \in Text!Commands
    BY DEF Text!Commands
  <2> HIDE DEF bytes, faults
  <2> QED
    BY <1>2, <2>1, <2>2, <2>3, <2>4, <2>5, ReadServes DEF Works
<1> QED
  BY <1>4, <1>5

\* What is read of a number with padding, and where that leaves the cursor.
LEMMA ReadSizeTFacts ==
  ASSUME Fitting, NEW p \in Packets, NEW at \in 0..packet[p].used
  PROVE  /\ ReadSizeT(packet[p], at).cursor \in at..packet[p].used
         /\ ~ReadSizeT(packet[p], at).threw =>
              ReadSizeT(packet[p], at).cursor = at + Prefix /\ at + Prefix <= packet[p].used
         /\ ReadSizeT(packet[p], at).values \subseteq Nat
         /\ ReadSizeT(packet[p], at).values # {} => ~ReadSizeT(packet[p], at).threw
         /\ SizeTFaults(packet[p], at) => Dangling(packet[p])
<1>1. PICK used \in Nat : used = packet[p].used
  BY PacketAssumption, FitsFacts DEF Fitting
<1>2. Prefix \in Nat /\ Prefix >= 1 /\ at \in Nat /\ at <= used
  BY <1>1, PacketAssumption
<1>3. /\ ReadSizeT(packet[p], at).cursor \in at..used
      /\ ~ReadSizeT(packet[p], at).threw =>
           ReadSizeT(packet[p], at).cursor = at + Prefix /\ at + Prefix <= used
  <2>1. /\ ReadSizeT(packet[p], at).cursor = IF at + Prefix <= used THEN at + Prefix
                                             ELSE IF at + 1 <= used THEN at + 1 ELSE at
    BY <1>1 DEF ReadSizeT
  <2>2. ReadSizeT(packet[p], at).threw <=> ~(at + Prefix <= used)
    BY <1>1 DEF ReadSizeT
  <2>3. CASE at + Prefix <= used
    BY <1>1, <1>2, <2>1, <2>2, <2>3
  <2>4. CASE ~(at + Prefix <= used)
    <3>1. ReadSizeT(packet[p], at).cursor \in at..used
      BY <1>1, <1>2, <2>1, <2>4
    <3> QED
      BY <2>2, <2>4, <3>1
  <2> QED
    BY <2>3, <2>4
<1>4. ReadSizeT(packet[p], at).values # {} => ~ReadSizeT(packet[p], at).threw
  BY DEF ReadSizeT
<1>5. ASSUME NEW n \in ReadSizeT(packet[p], at).values
      PROVE  n \in Nat
  <2>1. n \in Byte \/ (/\ at + 1 <= used /\ ~SizeTFaults(packet[p], at)
                      /\ packet[p].memory[at + 1] # Junk /\ n = packet[p].memory[at + 1])
    BY <1>1, <1>2 DEF ReadSizeT
  <2>2. packet[p].memory \in Seq(Bytes)
    BY PacketAssumption, FitsFacts DEF Fitting
  <2>3. ASSUME at + 1 <= used, ~SizeTFaults(packet[p], at), packet[p].memory[at + 1] # Junk
        PROVE  packet[p].memory[at + 1] \in Byte
    <3>1. at + 1 \in 1..Len(packet[p].memory)
      BY <1>1, <1>2, <2>2, <2>3 DEF SizeTFaults, Outside
    <3>2. packet[p].memory[at + 1] \in Bytes
      BY <2>2, <3>1
    <3> QED
      BY <2>3, <3>2 DEF Bytes
  <2> QED
    BY <2>1, <2>3, PacketAssumption
<1>6. SizeTFaults(packet[p], at) => Dangling(packet[p])
  <2> SUFFICES ASSUME SizeTFaults(packet[p], at)
               PROVE  Dangling(packet[p])
    OBVIOUS
  <2>1. at + 1 <= packet[p].used /\ Outside(packet[p], at, 1)
    BY <1>1, <1>2 DEF SizeTFaults
  <2> QED
    BY <1>2, <2>1, ReadBytes
<1> QED
  BY <1>1, <1>3, <1>4, <1>6, <1>5

\* The numbers of a packet.
LEMMA PacketNumbers ==
  ASSUME Fitting, NEW p \in Packets
  PROVE  \E used \in Nat, cursor \in Nat : used = packet[p].used /\ cursor = packet[p].cursor /\ cursor <= used
BY PacketAssumption, FitsFacts DEF Fitting

\* A number with padding that is there is in the block.
LEMMA PaddedThere ==
  ASSUME Fitting, NEW p \in Packets, NEW at \in 0..packet[p].used, at + Prefix <= packet[p].used,
         ~SizeTFaults(packet[p], at)
  PROVE  ~Dangling(packet[p]) /\ ~Outside(packet[p], at, Prefix)
<1>1. PICK used \in Nat : used = packet[p].used
  BY PacketNumbers
<1>2. Prefix \in Nat /\ Prefix >= 1 /\ at \in Nat /\ at + Prefix <= used
  BY <1>1, PacketAssumption
<1>3. PICK k \in Nat : k = Len(packet[p].memory)
  BY PacketAssumption, FitsFacts DEF Fitting
<1>4. at + 1 <= k
  BY <1>1, <1>2, <1>3 DEF SizeTFaults, Outside
<1>5. ~Dangling(packet[p])
  BY <1>2, <1>3, <1>4, PacketAssumption DEF Fitting, Fits, Dangling
<1> QED
  BY <1>2, <1>5, ReadBytes

\* Bytes are taken at the cursor, or behind a prefix there.
LEMMA TakenWorks ==
  ASSUME Fitting, NEW p \in Packets, NEW skip \in {0, Prefix}, NEW n \in Nat,
         packet[p].cursor + skip + n <= packet[p].used,
         NEW faults, faults => Dangling(packet[p]),
         ~faults => ~Outside(packet[p], packet[p].cursor + skip, n),
         Do(p, faults, At(packet[p], packet[p].cursor + skip + n), "take",
            SubSeq(packet[p].memory, packet[p].cursor + skip + 1, packet[p].cursor + skip + n))
  PROVE  Works(p)
<1>1. PICK cursor \in Nat, used \in Nat : cursor = packet[p].cursor /\ used = packet[p].used
  BY PacketNumbers
<1>2. PICK from \in Nat : from = cursor + skip
  BY PacketAssumption
<1>3. PICK end \in Nat : end = from + n /\ end <= used /\ end \in 0..used
  BY <1>1, <1>2
<1>4. PICK bytes : bytes = SubSeq(packet[p].memory, from + 1, end)
  OBVIOUS
<1>5. Do(p, faults, At(packet[p], end), "take", bytes)
  BY <1>1, <1>2, <1>3, <1>4
<1>6. /\ ~Outside(packet[p], from, n) => Told(p, bytes)
      /\ ~Dangling(packet[p]) => /\ Len(bytes) = n /\ Len(Data(packet[p])) = packet[p].used
                                 /\ bytes = SubSeq(Data(packet[p]), from + 1, end)
  BY <1>1, <1>3, <1>4, ReadBytes
<1>7. ~Dangling(packet[p]) => Reads(Data(packet[p]), cursor, end, "take", bytes)
  BY <1>1, <1>2, <1>3, <1>6 DEF Reads
<1>8. "take" \in Text!Commands
  BY DEF Text!Commands
<1> QED
  BY <1>1, <1>2, <1>3, <1>5, <1>6, <1>7, <1>8, ReadServes DEF Works

\* A command that throws may have moved the cursor.
LEMMA FailWorks ==
  ASSUME Fitting, NEW p \in Packets, NEW c \in packet[p].cursor..packet[p].used,
         NEW faults, faults => Dangling(packet[p]), Do(p, faults, At(packet[p], c), "fail", <<>>)
  PROVE  Works(p)
<1>1. PICK cursor \in Nat, used \in Nat : cursor = packet[p].cursor /\ used = packet[p].used
  BY PacketNumbers
<1>2. c \in 0..used
  BY <1>1
<1>3. ~Dangling(packet[p]) => Reads(Data(packet[p]), cursor, c, "fail", <<>>)
  BY <1>1, PacketAssumption, WholeFacts DEF Reads, Fitting
<1>4. "fail" \in Text!Commands
  BY DEF Text!Commands
<1> QED
  BY <1>1, <1>2, <1>3, <1>4, NothingTold, ReadServes DEF Works

\* A command that moves the cursor.
LEMMA MoveWorks ==
  ASSUME Fitting, NEW p \in Packets, NEW c \in 0..packet[p].used,
         NEW faults, faults => Dangling(packet[p]), Do(p, faults, At(packet[p], c), "move", <<>>)
  PROVE  Works(p)
<1>1. PICK cursor \in Nat, used \in Nat : cursor = packet[p].cursor /\ used = packet[p].used
  BY PacketNumbers
<1>2. ~Dangling(packet[p]) => Reads(Data(packet[p]), cursor, c, "move", <<>>)
  BY <1>1, PacketAssumption, WholeFacts DEF Reads, Fitting
<1>3. "move" \in Text!Commands
  BY DEF Text!Commands
<1> QED
  BY <1>1, <1>2, <1>3, NothingTold, ReadServes DEF Works

\* A command that only looks, and tells nothing of the text.
LEMMA LookWorks ==
  ASSUME Fitting, NEW p \in Packets, NEW faults, faults => Dangling(packet[p]),
         NEW bytes, ~faults => Told(p, bytes), Do(p, faults, packet[p], "look", bytes)
  PROVE  Works(p)
<1>1. Reads(Data(packet[p]), packet[p].cursor, packet[p].cursor, "look", bytes)
  BY DEF Reads
<1>2. "look" \in Text!Commands
  BY DEF Text!Commands
<1> QED
  BY <1>1, <1>2, LookServes DEF Works

\* GetSizeT and GetClockT.
LEMMA TakeSizeTWorks ==
  ASSUME Fitting, NEW t, NEW p \in Packets, TakeSizeT(t, p)
  PROVE  Works(p)
<1>1. PICK cursor \in Nat, used \in Nat : cursor = packet[p].cursor /\ used = packet[p].used /\ cursor <= used
  BY PacketNumbers
<1>2. PICK r : r = ReadSizeT(packet[p], cursor)
  OBVIOUS
<1>3. /\ r.cursor \in cursor..used
      /\ ~r.threw => r.cursor = cursor + Prefix /\ cursor + Prefix <= used
      /\ SizeTFaults(packet[p], cursor) => Dangling(packet[p])
  BY <1>1, <1>2, ReadSizeTFacts
<1>4. CASE r.threw
  <2>1. Do(p, SizeTFaults(packet[p], cursor), At(packet[p], r.cursor), "fail", <<>>)
    BY <1>1, <1>2, <1>4 DEF TakeSizeT, At
  <2> QED
    BY <1>1, <1>3, <2>1, FailWorks
<1>5. CASE ~r.threw
  <2>1. Do(p, SizeTFaults(packet[p], cursor), At(packet[p], cursor + Prefix), "take",
           SubSeq(packet[p].memory, cursor + 1, cursor + Prefix))
    BY <1>1, <1>2, <1>3, <1>5 DEF TakeSizeT, At, AtCursor
  <2>2. Prefix \in Nat /\ cursor + 0 = cursor /\ 0 \in {0, Prefix} /\ cursor \in 0..used
    BY <1>1, PacketAssumption
  <2>3. ~SizeTFaults(packet[p], cursor) => ~Outside(packet[p], cursor, Prefix)
    BY <1>1, <1>3, <1>5, <2>2, PaddedThere
  <2>4. cursor + 0 + Prefix = cursor + Prefix /\ cursor + 0 + 1 = cursor + 1
    BY <2>2
  <2>5. Do(p, SizeTFaults(packet[p], cursor), At(packet[p], packet[p].cursor + 0 + Prefix), "take",
           SubSeq(packet[p].memory, packet[p].cursor + 0 + 1, packet[p].cursor + 0 + Prefix))
    BY <1>1, <2>1, <2>4
  <2>6. packet[p].cursor + 0 + Prefix <= packet[p].used
    BY <1>1, <1>3, <1>5, <2>4
  <2>7. ~SizeTFaults(packet[p], cursor) => ~Outside(packet[p], packet[p].cursor + 0, Prefix)
    BY <1>1, <2>2, <2>3
  <2> QED
    BY <1>3, <2>2, <2>5, <2>6, <2>7, TakenWorks
<1> QED
  BY <1>4, <1>5

\* GetStringSize.
LEMMA LookAtSizeTWorks ==
  ASSUME Fitting, NEW t, NEW p \in Packets, LookAtSizeT(t, p)
  PROVE  Works(p)
<1>1. PICK cursor \in Nat, used \in Nat : cursor = packet[p].cursor /\ used = packet[p].used /\ cursor <= used
  BY PacketNumbers
<1>2. PICK r : r = ReadSizeT(packet[p], cursor)
  OBVIOUS
<1>3. /\ r.cursor \in cursor..used
      /\ SizeTFaults(packet[p], cursor) => Dangling(packet[p])
  BY <1>1, <1>2, ReadSizeTFacts
<1>4. CASE r.threw
  <2>1. Do(p, SizeTFaults(packet[p], cursor), At(packet[p], r.cursor), "fail", <<>>)
    BY <1>1, <1>2, <1>4 DEF LookAtSizeT, At
  <2> QED
    BY <1>1, <1>3, <2>1, FailWorks
<1>5. CASE ~r.threw
  <2>1. Do(p, SizeTFaults(packet[p], cursor), At(packet[p], packet[p].cursor), "look", <<>>)
    BY <1>1, <1>2, <1>5 DEF LookAtSizeT, At
  <2>2. cursor \in 0..packet[p].used
    BY <1>1
  <2>3. At(packet[p], packet[p].cursor) = packet[p]
    BY <2>2, PacketAssumption, AtFacts DEF Fitting
  <2> QED
    BY <1>3, <2>1, <2>3, NothingTold, LookWorks
<1> QED
  BY <1>4, <1>5

\* A string is taken at the cursor or behind its prefix, or the cursor stays behind the
\* prefix if there is less than that.
LEMMA TakeStringWorks ==
  ASSUME Fitting, NEW t, NEW p \in Packets, TakeString(t, p)
  PROVE  Works(p)
<1>1. PICK cursor \in Nat, used \in Nat : cursor = packet[p].cursor /\ used = packet[p].used /\ cursor <= used
  BY PacketNumbers
<1>2. PICK r : r = ReadSizeT(packet[p], cursor)
  OBVIOUS
<1>3. /\ r.cursor \in cursor..used
      /\ ~r.threw => r.cursor = cursor + Prefix /\ cursor + Prefix <= used
      /\ SizeTFaults(packet[p], cursor) => Dangling(packet[p])
  BY <1>1, <1>2, ReadSizeTFacts
<1>4. r.values \subseteq Nat /\ (r.values # {} => ~r.threw)
  <2>1. cursor \in 0..packet[p].used
    BY <1>1
  <2> QED
    BY <1>2, <2>1, ReadSizeTFacts, Zenon
<1> DEFINE Taken(from, n) ==
             IF n > used - from
             THEN Do(p, FALSE, At(packet[p], from), "fail", <<>>)
             ELSE Do(p, Outside(packet[p], from, n), At(packet[p], from + n), "take",
                     SubSeq(packet[p].memory, from + 1, from + n))
<1>5. ASSUME NEW skip \in {0, Prefix}, NEW n \in Nat, cursor + skip <= used, Taken(cursor + skip, n)
      PROVE  Works(p)
  <2>1. PICK from \in Nat : from = cursor + skip
    BY PacketAssumption
  <2>2. CASE n > used - from
    <3>1. Do(p, FALSE, At(packet[p], from), "fail", <<>>)
      BY <1>5, <2>1, <2>2
    <3>2. from \in packet[p].cursor..packet[p].used
      BY <1>1, <1>5, <2>1, PacketAssumption
    <3> QED
      BY <3>1, <3>2, FailWorks
  <2>3. CASE ~(n > used - from)
    <3>1. Do(p, Outside(packet[p], from, n), At(packet[p], from + n), "take",
             SubSeq(packet[p].memory, from + 1, from + n))
      BY <1>5, <2>1, <2>3, SMTT(30)
    <3>2. from + n <= packet[p].used
      BY <1>1, <1>5, <2>1, <2>3, SMTT(30)
    <3>3. Outside(packet[p], from, n) => Dangling(packet[p])
      BY <3>2, ReadBytes
    <3>4. PICK faults : faults <=> Outside(packet[p], from, n)
      OBVIOUS
    <3>5. Do(p, faults, At(packet[p], packet[p].cursor + skip + n), "take",
             SubSeq(packet[p].memory, packet[p].cursor + skip + 1, packet[p].cursor + skip + n))
      BY <1>1, <2>1, <3>1, <3>4 DEF Do
    <3>6. ~faults => ~Outside(packet[p], packet[p].cursor + skip, n)
      BY <1>1, <2>1, <3>4
    <3>7. packet[p].cursor + skip + n <= packet[p].used
      BY <1>1, <2>1, <3>2
    <3> QED
      BY <3>3, <3>4, <3>5, <3>6, <3>7, TakenWorks
  <2> QED
    BY <2>2, <2>3
<1>6. \/ \E n \in 1..MaxSize[p] : Taken(cursor, n)
      \/ r.threw /\ Do(p, SizeTFaults(packet[p], cursor), At(packet[p], r.cursor), "fail", <<>>)
      \/ ~r.threw /\ SizeTFaults(packet[p], cursor) /\ Fault
      \/ \E n \in r.values : Taken(r.cursor, n)
  BY <1>1, <1>2 DEF TakeString, At
<1>7. CASE \E n \in 1..MaxSize[p] : Taken(cursor, n)
  <2>1. PICK n \in 1..MaxSize[p] : Taken(cursor, n)
    BY <1>7
  <2>2. n \in Nat /\ cursor + 0 = cursor /\ 0 \in {0, Prefix}
    BY PacketAssumption
  <2> HIDE DEF Taken
  <2> QED
    BY <1>1, <1>5, <2>1, <2>2
<1>8. CASE r.threw /\ Do(p, SizeTFaults(packet[p], cursor), At(packet[p], r.cursor), "fail", <<>>)
  BY <1>1, <1>3, <1>8, FailWorks
<1>9. CASE ~r.threw /\ SizeTFaults(packet[p], cursor) /\ Fault
  BY <1>3, <1>9 DEF Works, Serves, Fault
<1>10. CASE \E n \in r.values : Taken(r.cursor, n)
  <2>1. PICK n \in r.values : Taken(r.cursor, n)
    BY <1>10
  <2>2. n \in Nat /\ r.cursor = cursor + Prefix /\ cursor + Prefix <= used
    BY <1>3, <1>4, <2>1
  <2> HIDE DEF Taken
  <2> QED
    BY <1>5, <2>1, <2>2
<1> QED
  BY <1>6, <1>7, <1>8, <1>9, <1>10

\* GetPrefix: the cursor stays where the number does not fit.
LEMMA GetPrefixWorks ==
  ASSUME Fitting, NEW t, NEW p \in Packets, NEW type \in NumberTypes, GetPrefix(t, p, type)
  PROVE  Works(p)
<1>1. PICK cursor \in Nat, used \in Nat : cursor = packet[p].cursor /\ used = packet[p].used /\ cursor <= used
  BY PacketNumbers
<1>2. PICK n \in Nat : n = SizeOf[type]
  BY PacketAssumption
<1>3. PICK at \in 0..MaxSize[p] :
        IF at > used THEN Throw(p)
        ELSE IF at + n > used THEN Do(p, FALSE, At(packet[p], at), "move", <<>>)
        ELSE Do(p, Outside(packet[p], at, n), packet[p], "look", <<>>)
  BY <1>1, <1>2 DEF GetPrefix, At
<1>4. at \in Nat
  BY PacketAssumption
<1>5. CASE at > used
  BY <1>3, <1>5, ThrowWorks
<1>6. CASE at <= used /\ at + n > used
  <2>1. ~(at > used)
    BY <1>1, <1>4, <1>6
  <2>2. Do(p, FALSE, At(packet[p], at), "move", <<>>)
    BY <1>3, <1>6, <2>1, Zenon
  <2>3. at \in 0..packet[p].used
    BY <1>1, <1>4, <1>6
  <2> QED
    BY <2>2, <2>3, MoveWorks
<1>7. CASE at <= used /\ at + n <= used
  <2>1. ~(at > used) /\ ~(at + n > used)
    BY <1>1, <1>2, <1>4, <1>7
  <2>2. Do(p, Outside(packet[p], at, n), packet[p], "look", <<>>)
    BY <1>3, <2>1, Zenon
  <2>3. Outside(packet[p], at, n) => Dangling(packet[p])
    BY <1>1, <1>4, <1>7, ReadBytes
  <2> QED
    BY <2>2, <2>3, NothingTold, LookWorks
<1> QED
  BY <1>1, <1>4, <1>5, <1>6, <1>7

\* GetPrefixSizeT: the cursor is left where it was, or where the number does not fit.
LEMMA GetPrefixSizeTWorks ==
  ASSUME Fitting, NEW t, NEW p \in Packets, GetPrefixSizeT(t, p)
  PROVE  Works(p)
<1>1. PICK cursor \in Nat, used \in Nat : cursor = packet[p].cursor /\ used = packet[p].used /\ cursor <= used
  BY PacketNumbers
<1>2. PICK at \in 0..MaxSize[p] :
        IF at > used THEN Throw(p)
        ELSE Do(p, SizeTFaults(packet[p], at),
                [packet[p] EXCEPT !.cursor = IF ReadSizeT(packet[p], at).threw
                                             THEN ReadSizeT(packet[p], at).cursor ELSE @],
                IF ReadSizeT(packet[p], at).threw THEN "move" ELSE "look", <<>>)
  BY <1>1 DEF GetPrefixSizeT
<1>3. at \in Nat
  BY PacketAssumption
<1>4. CASE at > used
  BY <1>2, <1>4, ThrowWorks
<1>5. CASE at <= used
  <2>1. PICK r : r = ReadSizeT(packet[p], at)
    OBVIOUS
  <2>2. r.cursor \in at..used /\ (SizeTFaults(packet[p], at) => Dangling(packet[p]))
    BY <1>1, <1>3, <1>5, <2>1, ReadSizeTFacts
  <2>3. CASE r.threw
    <3>1. Do(p, SizeTFaults(packet[p], at), At(packet[p], r.cursor), "move", <<>>)
      BY <1>1, <1>2, <1>3, <1>5, <2>1, <2>3 DEF At
    <3>2. r.cursor \in 0..packet[p].used
      BY <1>1, <1>3, <2>2
    <3> QED
      BY <2>2, <3>1, <3>2, MoveWorks
  <2>4. CASE ~r.threw
    <3>1. Do(p, SizeTFaults(packet[p], at), At(packet[p], packet[p].cursor), "look", <<>>)
      BY <1>1, <1>2, <1>3, <1>5, <2>1, <2>4 DEF At
    <3>2. cursor \in 0..packet[p].used
      BY <1>1
    <3>3. At(packet[p], packet[p].cursor) = packet[p]
      BY <3>2, PacketAssumption, AtFacts DEF Fitting
    <3> QED
      BY <2>2, <3>1, <3>3, NothingTold, LookWorks
  <2> QED
    BY <2>3, <2>4
<1> QED
  BY <1>1, <1>3, <1>4, <1>5

\* GetHex reads where there is data.
LEMMA GetHexWorks ==
  ASSUME Fitting, NEW t, NEW p \in Packets, GetHex(t, p)
  PROVE  Works(p)
<1>1. PICK used \in Nat : used = packet[p].used
  BY PacketNumbers
<1>2. PICK at \in 0..MaxSize[p], n \in 0..MaxSize[p] :
        IF at + n > used THEN Throw(p) ELSE Do(p, Outside(packet[p], at, n), packet[p], "look", <<>>)
  BY <1>1 DEF GetHex
<1>3. at \in Nat /\ n \in Nat
  BY PacketAssumption
<1>4. CASE at + n > used
  BY <1>2, <1>4, ThrowWorks
<1>5. CASE ~(at + n > used)
  <2>1. Do(p, Outside(packet[p], at, n), packet[p], "look", <<>>)
    BY <1>2, <1>5
  <2>2. at + n <= packet[p].used
    BY <1>1, <1>3, <1>5
  <2>3. Outside(packet[p], at, n) => Dangling(packet[p])
    BY <1>3, <2>2, ReadBytes
  <2> QED
    BY <2>1, <2>3, NothingTold, LookWorks
<1> QED
  BY <1>4, <1>5

\* What is copied out of a packet is its text.
LEMMA CopyWorks ==
  ASSUME Fitting, NEW t, NEW p \in Packets, CopyIntoWSABUF(t, p)
  PROVE  Works(p)
<1>1. PICK used \in Nat : used = packet[p].used
  BY PacketNumbers
<1>2. Do(p, Outside(packet[p], 0, used), packet[p], "copy", Data(packet[p]))
  BY <1>1 DEF CopyIntoWSABUF
<1>3. /\ Outside(packet[p], 0, used) => Dangling(packet[p])
      /\ ~Outside(packet[p], 0, used) => Told(p, SubSeq(packet[p].memory, 0 + 1, 0 + used))
  BY <1>1, ReadBytes
<1>4. SubSeq(packet[p].memory, 0 + 1, 0 + used) = Data(packet[p])
  BY <1>1 DEF Data
<1>5. Reads(Data(packet[p]), packet[p].cursor, packet[p].cursor, "copy", Data(packet[p]))
  BY DEF Reads
<1>6. "copy" \in Text!Commands
  BY DEF Text!Commands
<1> QED
  BY <1>2, <1>3, <1>4, <1>5, <1>6, LookServes DEF Works

\* A number that a packet is asked for.
LEMMA TellWorks ==
  ASSUME Fitting, NEW t, NEW p \in Packets, NEW what \in Text!Commands, NEW n \in 0..MaxSize[p],
         Tell(t, p, what, n),
         ~Dangling(packet[p]) =>
           Reads(Data(packet[p]), packet[p].cursor, packet[p].cursor, what, <<n>>)
  PROVE  Works(p)
<1>1. Told(p, <<n>>)
  BY DEF Told
<1>2. Do(p, FALSE, packet[p], what, <<n>>)
  BY DEF Tell
<1> QED
  BY <1>1, <1>2, LookServes DEF Works

\* GetUsedSize, GetCursor, GetPacketRemainder, GetMemorySize, GetHead.
LEMMA TellsWork ==
  ASSUME Fitting, NEW t, NEW p \in Packets,
         \/ GetUsedSize(t, p) \/ GetCursor(t, p) \/ GetPacketRemainder(t, p) \/ GetMemorySize(t, p)
         \/ GetHead(t, p)
  PROVE  Works(p)
<1>1. PICK max \in Nat \ {0} : max = MaxSize[p]
  BY PacketAssumption
<1>2. Fits(packet[p], max)
  BY <1>1 DEF Fitting
<1>3. PICK used \in 0..max, cursor \in 0..max, size \in 0..max, head \in 0..max :
        /\ used = packet[p].used /\ cursor = packet[p].cursor /\ size = packet[p].memSize
        /\ head = packet[p].head /\ cursor <= used
  <2>1. packet[p].head \in {0, 1} /\ {0, 1} \subseteq 0..max
    BY <1>1, <1>2 DEF Fits, Blocks
  <2> QED
    BY <1>2, <2>1, FitsFacts
<1>4. used - cursor \in 0..max /\ cursor \in 0..max
  BY <1>3
<1>5. ~Dangling(packet[p]) => Len(Data(packet[p])) = used
  BY <1>2, <1>3, WholeFacts
<1>6. /\ "size" \in Text!Commands /\ "cursor" \in Text!Commands /\ "remainder" \in Text!Commands
      /\ "look" \in Text!Commands
  BY DEF Text!Commands
<1>7. CASE GetUsedSize(t, p)
  BY <1>1, <1>3, <1>5, <1>6, <1>7, TellWorks DEF GetUsedSize, Reads
<1>8. CASE GetCursor(t, p)
  BY <1>1, <1>3, <1>4, <1>6, <1>8, TellWorks DEF GetCursor, Reads
<1>9. CASE GetPacketRemainder(t, p)
  BY <1>1, <1>3, <1>4, <1>5, <1>6, <1>9, TellWorks DEF GetPacketRemainder, Reads
<1>10. CASE GetMemorySize(t, p)
  BY <1>1, <1>3, <1>6, <1>10, TellWorks DEF GetMemorySize, Reads
<1>11. CASE GetHead(t, p)
  BY <1>1, <1>3, <1>6, <1>11, TellWorks DEF GetHead, Reads
<1> QED
  BY <1>7, <1>8, <1>9, <1>10, <1>11

\* What a packet keeps beside its data is no part of its text.
LEMMA SetHeadWorks ==
  ASSUME Fitting, NEW t, NEW p \in Packets, SetHead(t, p)
  PROVE  Works(p)
<1>1. PICK max \in Nat : max = MaxSize[p]
  BY PacketAssumption
<1>2. Fits(packet[p], max) /\ packet[p] \in Blocks
  BY <1>1 DEF Fitting
<1>3. PICK new : new = [packet[p] EXCEPT !.head = 1]
  OBVIOUS
<1>4. /\ new \in Blocks /\ new.memory = packet[p].memory /\ new.memSize = packet[p].memSize
      /\ new.used = packet[p].used /\ new.cursor = packet[p].cursor
  BY <1>2, <1>3 DEF Blocks
<1>5. Fits(new, max) /\ (Dangling(new) <=> Dangling(packet[p])) /\ Data(new) = Data(packet[p])
  BY <1>2, <1>4 DEF Fits, Dangling, Data
<1>6. Do(p, FALSE, new, "look", <<>>)
  BY <1>3 DEF SetHead
<1>7. ASSUME ~Dangling(packet[p]), Effect(p, new, "look", Nothing, <<>>)
      PROVE  Text!Kept(p)
  <2>1. /\ [q \in Packets |-> IF Dangling(packet[q]) THEN Lost ELSE Data(packet[q])]' =
             [q \in Packets |-> IF Dangling(packet[q]) THEN Lost ELSE Data(packet[q])]
        /\ [q \in Packets |-> packet[q].cursor]' = [q \in Packets |-> packet[q].cursor]
    BY <1>4, <1>5, <1>7 DEF Effect, Fitting
  <2>2. last'.what = "look"
    BY <1>7 DEF Effect
  <2>3. Text!Look
    BY <2>1, <2>2, Zenon DEF Text!Look, Text!Is
  <2> QED
    BY <2>3 DEF Text!Kept
<1>8. "look" \in Text!Commands
  BY DEF Text!Commands
<1> QED
  BY <1>1, <1>5, <1>6, <1>7, <1>8, NothingTold, DoServes DEF Works

\* A number of the program is a sequence of bytes.
LEMMA AddWorks ==
  ASSUME Fitting, NEW t, NEW p \in Packets, NEW type \in NumberTypes, Add(t, p, type)
  PROVE  Works(p)
<1>1. PICK n \in Nat : n = SizeOf[type]
  BY PacketAssumption
<1>2. PICK bytes \in [1..n -> Byte] : Put(p, bytes)
  BY <1>1 DEF Add
<1>3. bytes \in Seq(Bytes) /\ Len(bytes) = n
  <2>1. bytes \in [1..n -> Bytes]
    BY DEF Bytes
  <2> QED
    BY <2>1
<1>4. packet[p].cursor + Len(bytes) <= MaxSize[p]
  BY <1>1, <1>3 DEF Add
<1> QED
  BY <1>2, <1>3, <1>4, PutServes DEF Works

\* A number with padding.
LEMMA SizeTFacts ==
  ASSUME NEW n \in Byte
  PROVE  SizeT(n) \in Seq(Bytes) /\ Len(SizeT(n)) = Prefix
<1>1. PICK prefix \in Nat : prefix = Prefix
  BY PacketAssumption
<1>2. SizeT(n) \in [1..prefix -> Bytes]
  BY <1>1, PacketAssumption DEF SizeT, Bytes
<1> QED
  BY <1>1, <1>2

\* AddSizeT and AddClockT.
LEMMA PutSizeTWorks ==
  ASSUME Fitting, NEW t, NEW p \in Packets, PutSizeT(t, p)
  PROVE  Works(p)
<1>1. PICK n \in Byte : Put(p, SizeT(n))
  BY DEF PutSizeT
<1>2. packet[p].cursor + Len(SizeT(n)) <= MaxSize[p]
  BY SizeTFacts DEF PutSizeT
<1> QED
  BY <1>1, <1>2, SizeTFacts, PutServes DEF Works

\* The program's strings and buffers are sequences of bytes.
LEMMA GivenFacts ==
  ASSUME NEW p \in Packets, NEW bytes \in Strings(p) \union Buffers(p)
  PROVE  /\ bytes \in Seq(Bytes) /\ Len(bytes) <= MaxSize[p] /\ Len(bytes) \in Nat
         /\ Told(p, bytes)
<1>1. PICK n \in 0..MaxSize[p] : bytes \in [1..n -> Byte]
  BY DEF Strings, Buffers
<1>2. n \in Nat /\ n <= MaxSize[p]
  BY PacketAssumption
<1>3. bytes \in [1..n -> Bytes]
  BY <1>1 DEF Bytes
<1>4. bytes \in Seq(Bytes) /\ Len(bytes) = n
  BY <1>2, <1>3
<1> QED
  BY <1>2, <1>4, ToldFacts

\* AddStringC: the string, behind its length or not.
LEMMA PutStringWorks ==
  ASSUME Fitting, NEW t, NEW p \in Packets, PutString(t, p)
  PROVE  Works(p)
<1>1. PICK string \in Strings(p), prefix \in BOOLEAN :
        /\ packet[p].cursor + Len(IF prefix THEN SizeT(Len(string)) \o string ELSE string) <= MaxSize[p]
        /\ prefix => Len(string) \in Byte
        /\ Put(p, IF prefix THEN SizeT(Len(string)) \o string ELSE string)
  BY DEF PutString
<1>2. string \in Seq(Bytes)
  BY GivenFacts
<1>3. PICK bytes : bytes = IF prefix THEN SizeT(Len(string)) \o string ELSE string
  OBVIOUS
<1>4. bytes \in Seq(Bytes)
  <2>1. CASE prefix
    <3>1. SizeT(Len(string)) \in Seq(Bytes)
      BY <1>1, <2>1, SizeTFacts
    <3>2. SizeT(Len(string)) \o string \in Seq(Bytes)
      BY <1>2, <3>1, ConcatProperties
    <3> QED
      BY <1>3, <2>1, <3>2
  <2>2. CASE ~prefix
    BY <1>2, <1>3, <2>2
  <2> QED
    BY <2>1, <2>2
<1> QED
  BY <1>1, <1>3, <1>4, PutServes DEF Works

\* AddHex.
LEMMA AddHexWorks ==
  ASSUME Fitting, NEW t, NEW p \in Packets, AddHex(t, p)
  PROVE  Works(p)
<1>1. PICK bytes \in Buffers(p) : packet[p].cursor + Len(bytes) <= MaxSize[p] /\ Put(p, bytes)
  BY DEF AddHex
<1>2. bytes \in Seq(Bytes)
  BY GivenFacts
<1> QED
  BY <1>1, <1>2, PutServes DEF Works

\* What the text's commands see of a command that changes a packet.
LEMMA EffectIs ==
  ASSUME Fitting, NEW p \in Packets, NEW pk, NEW what, NEW other, NEW bytes,
         Effect(p, pk, what, other, bytes), ~Dangling(packet[p])
  PROVE  /\ TextAt(p, Data(packet[p]), packet[p].cursor)
         /\ last'.what = what /\ last'.other = other /\ last'.bytes = bytes
         /\ ~Dangling(pk) => Text!Edit(p, Data(pk), pk.cursor)
BY TextAtFacts, Edited DEF Effect

\* AddBuffer: bytes behind the data.
LEMMA AddBufferWorks ==
  ASSUME Fitting, NEW t, NEW p \in Packets, AddBuffer(t, p)
  PROVE  Works(p)
<1>1. PICK max \in Nat : max = MaxSize[p]
  BY PacketAssumption
<1>2. PICK pk \in Blocks : pk = packet[p] /\ Fits(pk, max)
  BY <1>1 DEF Fitting
<1>3. PICK bytes \in Buffers(p) :
        /\ pk.used + Len(bytes) <= max
        /\ Do(p, GrowFaults(pk, pk.used + Len(bytes)) \/ Outside(Appended(pk, bytes), pk.used, Len(bytes)),
              Appended(pk, bytes), "append", bytes)
  BY <1>1, <1>2 DEF AddBuffer
<1>4. bytes \in Seq(Bytes) /\ Len(bytes) \in Nat /\ Told(p, bytes)
  BY GivenFacts
<1>5. PICK new : new = Appended(pk, bytes)
  OBVIOUS
<1>6. PICK used \in Nat, n \in Nat : used = pk.used /\ n = Len(bytes)
  BY <1>2, <1>4, FitsFacts
<1>7. PICK faults : faults <=> GrowFaults(pk, used + n) \/ Outside(new, used, n)
  OBVIOUS
<1>8. Do(p, faults, new, "append", bytes)
  BY <1>3, <1>5, <1>6, <1>7 DEF Do
<1>9. ~GrowFaults(pk, used + n) =>
        /\ Keeps(pk, new, max) /\ new.cursor = pk.cursor
        /\ ~Dangling(pk) => Data(new) = Data(pk) \o bytes
  BY <1>2, <1>3, <1>4, <1>5, <1>6, AppendedFacts
<1>10. ASSUME ~Dangling(pk)
       PROVE  ~faults
  <2>1. ~GrowFaults(pk, used + n)
    BY <1>2, <1>10, WholeFacts
  <2>2. Fits(new, max) /\ ~Dangling(new)
    BY <1>9, <1>10, <2>1 DEF Keeps
  <2>3. PICK s \in Seq(Bytes) : s = Data(pk) /\ Len(s) = used
    BY <1>2, <1>6, <1>10, WholeFacts
  <2>4. Len(s \o bytes) = used + n
    BY <1>4, <1>6, <2>3, ConcatProperties
  <2>5. Len(Data(new)) = new.used /\ new.used <= Len(new.memory) /\ Len(new.memory) \in Nat
    BY <2>2, WholeFacts
  <2>6. used + n <= Len(new.memory)
    BY <1>9, <1>10, <2>1, <2>3, <2>4, <2>5
  <2>7. ~Outside(new, used, n)
    BY <1>6, <2>5, <2>6 DEF Outside
  <2> QED
    BY <1>7, <2>1, <2>7
<1>11. ~faults => Fits(new, max) /\ new.cursor = pk.cursor
  BY <1>7, <1>9 DEF Keeps
<1>12. ~faults /\ ~Dangling(pk) => ~Dangling(new) /\ Data(new) = Data(pk) \o bytes
  BY <1>7, <1>9 DEF Keeps
<1>13. ASSUME ~faults, ~Dangling(packet[p]), Effect(p, new, "append", Nothing, bytes)
       PROVE  Text!Kept(p)
  <2>1. /\ TextAt(p, Data(pk), pk.cursor) /\ last'.what = "append" /\ last'.bytes = bytes
        /\ Text!Edit(p, Data(new), new.cursor)
    BY <1>2, <1>12, <1>13, EffectIs
  <2>2. Text!Edit(p, Data(pk) \o bytes, pk.cursor)
    BY <1>2, <1>11, <1>12, <1>13, <2>1
  <2>3. Text!AppendEnd(p)
    BY <2>1, <2>2, Zenon DEF Text!AppendEnd, Text!Is, Text!Given, Text!Edit, TextAt
  <2> QED
    BY <2>3 DEF Text!Kept
<1>14. "append" \in Text!Commands
  BY DEF Text!Commands
<1> QED
  BY <1>1, <1>2, <1>4, <1>8, <1>10, <1>11, <1>13, <1>14, DoServes DEF Works

\* GetNullTerminated: a null terminator behind the data.
LEMMA TerminateWorks ==
  ASSUME Fitting, NEW t, NEW p \in Packets, GetNullTerminated(t, p)
  PROVE  Works(p)
<1>1. PICK max \in Nat : max = MaxSize[p]
  BY PacketAssumption
<1>2. PICK pk \in Blocks : pk = packet[p] /\ Fits(pk, max)
  BY <1>1 DEF Fitting
<1>3. PICK used \in Nat : used = pk.used
  BY <1>2, FitsFacts
<1>4. \/ Do(p, Outside(pk, 0, used), pk, "look", <<>>)
      \/ /\ used + 1 <= max
         /\ Do(p, GrowFaults(pk, used + 1) \/ Outside(Room(pk, used + 1), used, 1),
               Terminated(pk), "append", <<0>>)
  BY <1>1, <1>2, <1>3 DEF GetNullTerminated, Terminated
<1>5. CASE Do(p, Outside(pk, 0, used), pk, "look", <<>>)
  <2>1. Outside(pk, 0, used) => Dangling(pk)
    BY <1>2, <1>3, WholeFacts
  <2> QED
    BY <1>2, <1>5, <2>1, NothingTold, LookWorks
<1>6. CASE /\ used + 1 <= max
           /\ Do(p, GrowFaults(pk, used + 1) \/ Outside(Room(pk, used + 1), used, 1),
                 Terminated(pk), "append", <<0>>)
  <2>1. PICK new : new = Terminated(pk)
    OBVIOUS
  <2>2. PICK bytes : bytes = <<0>>
    OBVIOUS
  <2>3. bytes \in Seq(Bytes) /\ Len(bytes) = 1
    BY <2>2, PacketAssumption DEF Bytes
  <2>4. Told(p, bytes)
    <3>1. Len(bytes) <= MaxSize[p]
      BY <1>1, <1>3, <1>6, <2>3
    <3> QED
      BY <2>3, <3>1, ToldFacts
  <2>5. PICK faults : faults <=> GrowFaults(pk, used + 1) \/ Outside(Room(pk, used + 1), used, 1)
    OBVIOUS
  <2>6. Do(p, faults, new, "append", bytes)
    BY <1>6, <2>1, <2>2, <2>5 DEF Do
  <2>7. ~GrowFaults(pk, used + 1) =>
          /\ Keeps(pk, new, max) /\ new.cursor = pk.cursor
          /\ ~Dangling(pk) => Data(new) = Data(pk) \o bytes
    BY <1>2, <1>3, <1>6, <2>1, <2>2, TerminatedFacts
  <2>8. ASSUME ~Dangling(pk)
        PROVE  ~faults
    <3>1. ~GrowFaults(pk, used + 1)
      BY <1>2, <2>8, WholeFacts
    <3>2. PICK room : room = Room(pk, used + 1)
      OBVIOUS
    <3>3. used + 1 \in 0..max
      BY <1>1, <1>3, <1>6
    <3>4. Fits(room, max) /\ ~Dangling(room) /\ room.used = Greater(used, used + 1)
      BY <1>2, <1>3, <2>8, <3>1, <3>2, <3>3, RoomFacts DEF Keeps
    <3>5. room.used <= Len(room.memory) /\ Len(room.memory) \in Nat
      BY <3>4, WholeFacts
    <3>6. ~Outside(room, used, 1)
      BY <1>3, <3>4, <3>5 DEF Outside, Greater
    <3> QED
      BY <2>5, <3>1, <3>2, <3>6
  <2>9. ~faults => Fits(new, max) /\ new.cursor = pk.cursor
    BY <2>5, <2>7 DEF Keeps
  <2>10. ~faults /\ ~Dangling(pk) => ~Dangling(new) /\ Data(new) = Data(pk) \o bytes
    BY <2>5, <2>7 DEF Keeps
  <2>11. ASSUME ~faults, ~Dangling(packet[p]), Effect(p, new, "append", Nothing, bytes)
         PROVE  Text!Kept(p)
    <3>1. /\ TextAt(p, Data(pk), pk.cursor) /\ last'.what = "append" /\ last'.bytes = bytes
          /\ Text!Edit(p, Data(new), new.cursor)
      BY <1>2, <2>10, <2>11, EffectIs
    <3>2. Text!Edit(p, Data(pk) \o bytes, pk.cursor)
      BY <1>2, <2>9, <2>10, <2>11, <3>1
    <3>3. Text!AppendEnd(p)
      BY <3>1, <3>2, Zenon DEF Text!AppendEnd, Text!Is, Text!Given, Text!Edit, TextAt
    <3> QED
      BY <3>3 DEF Text!Kept
  <2>12. "append" \in Text!Commands
    BY DEF Text!Commands
  <2> QED
    BY <1>1, <1>2, <2>4, <2>6, <2>8, <2>9, <2>11, <2>12, DoServes DEF Works
<1> QED
  BY <1>4, <1>5, <1>6

\* A command after which the packet has no text.
LEMMA EmptyWorks ==
  ASSUME Fitting, NEW p \in Packets, NEW pk, Keeps(packet[p], pk, MaxSize[p]),
         pk.cursor = 0, Data(pk) = <<>>, Do(p, FALSE, pk, "empty", <<>>)
  PROVE  Works(p)
<1>1. Fits(pk, MaxSize[p]) /\ (~Dangling(packet[p]) => ~Dangling(pk))
  BY DEF Keeps
<1>2. ASSUME ~Dangling(packet[p]), Effect(p, pk, "empty", Nothing, <<>>)
      PROVE  Text!Empty(p)
  <2>1. last'.what = "empty" /\ Text!Edit(p, <<>>, 0)
    BY <1>1, <1>2, EffectIs
  <2> QED
    BY <2>1, Zenon DEF Text!Empty, Text!Is
<1>3. "empty" \in Text!Commands
  BY DEF Text!Commands
<1> QED
  BY <1>1, <1>2, <1>3, NothingTold, DoServes DEF Works

\* Clear.
LEMMA ClearWorks ==
  ASSUME Fitting, NEW t, NEW p \in Packets, Clear(t, p)
  PROVE  Works(p)
<1>1. Fits(packet[p], MaxSize[p]) /\ MaxSize[p] \in Nat
  BY PacketAssumption DEF Fitting
<1>2. Do(p, FALSE, Cleared(packet[p]), "empty", <<>>)
  BY DEF Clear
<1> QED
  BY <1>1, <1>2, ClearedText, EmptyWorks

\* SetMemorySize.
LEMMA SetMemorySizeWorks ==
  ASSUME Fitting, NEW t, NEW p \in Packets, SetMemorySize(t, p)
  PROVE  Works(p)
<1>1. Fits(packet[p], MaxSize[p]) /\ MaxSize[p] \in Nat
  BY PacketAssumption DEF Fitting
<1>2. PICK n \in 0..MaxSize[p] : Do(p, FALSE, WithMemory(packet[p], n), "empty", <<>>)
  BY DEF SetMemorySize
<1> QED
  BY <1>1, <1>2, WithMemoryText, EmptyWorks, ZenonT(40)

\* The text of a packet whose block was given away.
LEMMA EditedLost ==
  ASSUME Fitting, NEW p \in Packets, NEW pk, packet' = [packet EXCEPT ![p] = pk], Dangling(pk)
  PROVE  Text!Edit(p, Lost, pk.cursor)
BY DEF Fitting, Text!Edit

\* ChangeMemorySize keeps the text, or gives the block away.
LEMMA ChangeMemorySizeWorks ==
  ASSUME Fitting, NEW t, NEW p \in Packets, ChangeMemorySize(t, p)
  PROVE  Works(p)
<1>1. PICK max \in Nat : max = MaxSize[p]
  BY PacketAssumption
<1>2. PICK pk \in Blocks : pk = packet[p] /\ Fits(pk, max)
  BY <1>1 DEF Fitting
<1>3. PICK n \in 0..max :
        Do(p, n \notin {0, pk.memSize} /\ Outside(pk, 0, pk.used), Resized(pk, n), "memory", <<>>)
  BY <1>1, <1>2 DEF ChangeMemorySize
<1>4. PICK new : new = Resized(pk, n)
  OBVIOUS
<1>5. PICK faults : faults <=> n \notin {0, pk.memSize} /\ Outside(pk, 0, pk.used)
  OBVIOUS
<1>6. Do(p, faults, new, "memory", <<>>)
  BY <1>3, <1>4, <1>5 DEF Do
<1>7. faults => Dangling(pk)
  BY <1>2, <1>5, WholeFacts
<1>8. CASE n = pk.memSize
  <2>1. new = pk
    BY <1>4, <1>8 DEF Resized
  <2>2. ASSUME ~Dangling(packet[p]), Effect(p, new, "memory", Nothing, <<>>)
        PROVE  Text!Kept(p)
    <3>1. /\ TextAt(p, Data(pk), pk.cursor) /\ last'.what = "memory"
          /\ Text!Edit(p, Data(pk), pk.cursor)
      BY <1>2, <2>1, <2>2, EffectIs
    <3>2. Text!Remember(p)
      BY <3>1, Zenon DEF Text!Remember, Text!Is, Text!Edit, TextAt
    <3> QED
      BY <3>2 DEF Text!Kept
  <2>3. Fits(new, MaxSize[p])
    BY <1>1, <1>2, <2>1
  <2>4. "memory" \in Text!Commands
    BY DEF Text!Commands
  <2> QED
    BY <1>2, <1>6, <1>7, <2>2, <2>3, <2>4, NothingTold, DoServes DEF Works
<1>9. CASE n # pk.memSize /\ n = 0
  <2>1. Fits(new, max) /\ Dangling(new) /\ new.cursor = pk.cursor
    BY <1>2, <1>4, <1>9, EmptiedFacts
  <2>2. ASSUME ~Dangling(packet[p]), Effect(p, new, "memory", Nothing, <<>>)
        PROVE  Text!Kept(p)
    <3>1. TextAt(p, Data(pk), pk.cursor) /\ last'.what = "memory"
      BY <1>2, <2>2, EffectIs
    <3>2. Text!Edit(p, Lost, pk.cursor)
      BY <2>1, <2>2, EditedLost DEF Effect
    <3>3. Text!Remember(p)
      BY <3>1, <3>2, Zenon DEF Text!Remember, Text!Is, Text!Edit, TextAt
    <3> QED
      BY <3>3 DEF Text!Kept
  <2>3. "memory" \in Text!Commands
    BY DEF Text!Commands
  <2> QED
    BY <1>1, <1>2, <1>6, <1>7, <2>1, <2>2, <2>3, NothingTold, DoServes DEF Works
<1>10. CASE n # pk.memSize /\ n # 0
  <2>1. n \in 1..max
    BY <1>1, <1>10
  <2>2. ~faults => Fits(new, max)
    BY <1>2, <1>4, <1>5, <1>10, <2>1, ResizedFacts
  <2>3. ~Dangling(pk) => ~Dangling(new) /\ new.cursor = pk.cursor /\ Data(new) = Data(pk)
    BY <1>2, <1>4, <2>1, ResizedText
  <2>4. ASSUME ~Dangling(packet[p]), Effect(p, new, "memory", Nothing, <<>>)
        PROVE  Text!Kept(p)
    <3>1. /\ TextAt(p, Data(pk), pk.cursor) /\ last'.what = "memory"
          /\ Text!Edit(p, Data(pk), pk.cursor)
      BY <1>2, <2>3, <2>4, EffectIs
    <3>2. Text!Remember(p)
      BY <3>1, Zenon DEF Text!Remember, Text!Is, Text!Edit, TextAt
    <3> QED
      BY <3>2 DEF Text!Kept
  <2>5. "memory" \in Text!Commands
    BY DEF Text!Commands
  <2> QED
    BY <1>1, <1>2, <1>6, <1>7, <2>2, <2>4, <2>5, NothingTold, DoServes DEF Works
<1> QED
  BY <1>8, <1>9, <1>10

\* SetUsedSize cuts the text, or lets it go on with anything.
LEMMA SetUsedSizeWorks ==
  ASSUME Fitting, NEW t, NEW p \in Packets, SetUsedSize(t, p)
  PROVE  Works(p)
<1>1. PICK max \in Nat : max = MaxSize[p]
  BY PacketAssumption
<1>2. PICK pk \in Blocks : pk = packet[p] /\ Fits(pk, max)
  BY <1>1 DEF Fitting
<1>3. PICK n \in 0..max : Do(p, GrowFaults(pk, n), WithUsed(pk, n), "resize", <<>>)
  BY <1>1, <1>2 DEF SetUsedSize
<1>4. PICK new : new = WithUsed(pk, n)
  OBVIOUS
<1>5. PICK faults : faults <=> GrowFaults(pk, n)
  OBVIOUS
<1>6. Do(p, faults, new, "resize", <<>>)
  BY <1>3, <1>4, <1>5 DEF Do
<1>7. faults => Dangling(pk)
  BY <1>2, <1>5, WholeFacts
<1>8. ~faults => Fits(new, max) /\ new.cursor = Lesser(pk.cursor, n) /\ (~Dangling(pk) => ~Dangling(new))
  BY <1>2, <1>4, <1>5, WithUsedFacts DEF Keeps
<1>9. PICK used \in Nat, cursor \in Nat : used = pk.used /\ cursor = pk.cursor /\ cursor <= used
  BY <1>2, FitsFacts
<1>10. ASSUME ~faults, ~Dangling(packet[p]), Effect(p, new, "resize", Nothing, <<>>)
       PROVE  Text!Kept(p)
  <2>1. /\ TextAt(p, Data(pk), cursor) /\ last'.what = "resize"
        /\ Text!Edit(p, Data(new), Lesser(cursor, n))
    BY <1>2, <1>8, <1>9, <1>10, EffectIs
  <2>2. CASE n <= used
    <3>1. Data(new) = SubSeq(Data(pk), 1, n)
      BY <1>2, <1>4, <1>9, <1>10, <2>2, WithUsedText
    <3>2. n \in 0..Len(Data(pk))
      BY <1>2, <1>9, <1>10, <2>2, WholeFacts
    <3>3. Lesser(cursor, n) = IF cursor > n THEN n ELSE cursor
      BY <1>9 DEF Lesser
    <3>4. Text!Resize(p)
      BY <2>1, <3>1, <3>2, <3>3, Zenon DEF Text!Resize, Text!Is, Text!Size, Text!Edit, TextAt
    <3> QED
      BY <3>4 DEF Text!Kept
  <2>3. CASE n > used
    <3>1. PICK rest \in Seq(Bytes) : Len(rest) <= max /\ Data(new) = Data(pk) \o rest
      <4>1. n > pk.used /\ ~Dangling(pk)
        BY <1>2, <1>9, <1>10, <2>3
      <4> QED
        BY <1>2, <1>4, <4>1, WithUsedText, Zenon
    <3>2. rest \in Text!Bytes(p)
      BY <1>1, <3>1, ToldFacts
    <3>3. Lesser(cursor, n) = cursor
      BY <1>9, <2>3 DEF Lesser
    <3>4. Text!Resize(p)
      BY <2>1, <3>1, <3>2, <3>3, Zenon DEF Text!Resize, Text!Is, Text!Edit, TextAt
    <3> QED
      BY <3>4 DEF Text!Kept
  <2> QED
    BY <1>9, <2>2, <2>3
<1>11. "resize" \in Text!Commands
  BY DEF Text!Commands
<1> QED
  BY <1>1, <1>2, <1>6, <1>7, <1>8, <1>10, <1>11, NothingTold, DoServes DEF Works

\* SetCursor.
LEMMA SetCursorWorks ==
  ASSUME Fitting, NEW t, NEW p \in Packets, SetCursor(t, p)
  PROVE  Works(p)
<1>1. PICK used \in Nat : used = packet[p].used
  BY PacketNumbers
<1>2. PICK c \in 0..MaxSize[p] : IF c > used THEN Throw(p) ELSE Do(p, FALSE, At(packet[p], c), "move", <<>>)
  BY <1>1 DEF SetCursor, At
<1>3. CASE c > used
  BY <1>2, <1>3, ThrowWorks
<1>4. CASE ~(c > used)
  <2>1. c \in 0..packet[p].used
    BY <1>1, <1>4, PacketAssumption
  <2>2. Do(p, FALSE, At(packet[p], c), "move", <<>>)
    BY <1>2, <1>4
  <2> QED
    BY <2>1, <2>2, MoveWorks
<1> QED
  BY <1>3, <1>4

\* Erase takes a part of the text out.
LEMMA EraseWorks ==
  ASSUME Fitting, NEW t, NEW p \in Packets, Erase(t, p)
  PROVE  Works(p)
<1>1. PICK max \in Nat : max = MaxSize[p]
  BY PacketAssumption
<1>2. PICK pk \in Blocks : pk = packet[p] /\ Fits(pk, max)
  BY <1>1 DEF Fitting
<1>3. PICK used \in Nat, cursor \in Nat : used = pk.used /\ cursor = pk.cursor /\ cursor <= used
  BY <1>2, FitsFacts
<1>4. PICK from \in 0..max, n \in 1..max :
        IF from + n > used THEN Throw(p)
        ELSE Do(p, Outside(pk, from + n, used - (from + n)), Erased(pk, from, n), "cut", <<>>)
  BY <1>1, <1>2, <1>3 DEF Erase
<1>5. CASE from + n > used
  BY <1>4, <1>5, ThrowWorks
<1>6. CASE ~(from + n > used)
  <2>1. PICK new : new = Erased(pk, from, n)
    OBVIOUS
  <2>2. PICK faults : faults <=> Outside(pk, from + n, used - (from + n))
    OBVIOUS
  <2>3. Do(p, faults, new, "cut", <<>>)
    BY <1>4, <1>6, <2>1, <2>2 DEF Do
  <2>4. PICK rest \in Nat : rest = used - (from + n)
    BY <1>3, <1>6
  <2>5. from \in Nat /\ n \in Nat \ {0} /\ from + n <= used /\ from + n \in Nat /\ from + n + rest = used
    BY <1>3, <1>6, <2>4
  <2>6. faults => Dangling(pk)
    <3>1. from + n + rest <= packet[p].used
      BY <1>2, <1>3, <2>5
    <3> QED
      BY <1>2, <2>2, <2>4, <2>5, <3>1, ReadBytes
  <2>7. /\ Fits(new, max) /\ new.cursor = (IF n >= cursor THEN 0 ELSE cursor - n)
        /\ ~Dangling(pk) => /\ ~Dangling(new)
                            /\ Data(new) = Part(Data(pk), 0, from) \o Part(Data(pk), from + n, rest)
    <3>1. from + n <= pk.used /\ rest = pk.used - (from + n)
      BY <1>3, <2>4, <2>5
    <3>2. Keeps(pk, new, max) /\ IsErased(new, pk, from, n)
      BY <1>2, <2>1, <2>5, <3>1, ErasedFacts
    <3> QED
      BY <1>3, <3>1, <3>2 DEF Keeps, IsErased
  <2>8. ASSUME ~faults, ~Dangling(packet[p]), Effect(p, new, "cut", Nothing, <<>>)
        PROVE  Text!Kept(p)
    <3>1. PICK size \in Nat : size = Len(Data(pk)) /\ size = used
      BY <1>2, <1>3, <2>8, WholeFacts
    <3>2. Data(new) = SubSeq(Data(pk), 1, from) \o SubSeq(Data(pk), from + n + 1, size)
      <4>1. from + n + rest = size /\ 0 + 1 = 1 /\ 0 + from = from
        BY <2>5, <3>1
      <4> QED
        BY <1>2, <2>7, <2>8, <4>1 DEF Part
    <3>3. /\ TextAt(p, Data(pk), cursor) /\ last'.what = "cut"
          /\ Text!Edit(p, SubSeq(Data(pk), 1, from) \o SubSeq(Data(pk), from + n + 1, size),
                       IF n >= cursor THEN 0 ELSE cursor - n)
      BY <1>2, <1>3, <2>7, <2>8, <3>2, EffectIs
    <3>4. from \in 0..Len(Data(pk)) /\ n \in 1..Len(Data(pk)) /\ from + n <= Len(Data(pk))
      BY <2>5, <3>1
    <3>5. Text!Edit(p, SubSeq(Data(pk), 1, from) \o SubSeq(Data(pk), from + n + 1, Len(Data(pk))),
                       IF n >= cursor THEN 0 ELSE cursor - n)
      BY <3>1, <3>3
    <3>6. PICK c : c = IF n >= cursor THEN 0 ELSE cursor - n
      OBVIOUS
    <3>7. (IF n >= [q \in Packets |-> packet[q].cursor][p] THEN 0
           ELSE [q \in Packets |-> packet[q].cursor][p] - n) = c
      BY <1>2, <1>3, <3>6
    <3>8. Text!Edit(p, SubSeq(Data(pk), 1, from) \o SubSeq(Data(pk), from + n + 1, Len(Data(pk))), c)
      BY <3>5, <3>6
    <3>9. Text!Cut(p)
      BY <3>3, <3>4, <3>7, <3>8, ZenonT(40) DEF Text!Cut, Text!Is, Text!Size, Text!Edit, TextAt
    <3> QED
      BY <3>9, Zenon DEF Text!Kept
  <2>9. "cut" \in Text!Commands
    BY DEF Text!Commands
  <2> QED
    BY <1>1, <1>2, <2>3, <2>6, <2>7, <2>8, <2>9, NothingTold, DoServes DEF Works
<1> QED
  BY <1>5, <1>6

\* Insert makes room at the cursor.
LEMMA InsertWorks ==
  ASSUME Fitting, NEW t, NEW p \in Packets, Insert(t, p)
  PROVE  Works(p)
<1>1. PICK max \in Nat : max = MaxSize[p]
  BY PacketAssumption
<1>2. PICK pk \in Blocks : pk = packet[p] /\ Fits(pk, max)
  BY <1>1 DEF Fitting
<1>3. PICK used \in Nat, cursor \in Nat : used = pk.used /\ cursor = pk.cursor /\ cursor <= used
  BY <1>2, FitsFacts
<1>4. PICK n \in 1..(max - used) :
        Do(p, GrowFaults(pk, used + n) \/ Outside(WithUsed(pk, used + n), cursor + n, used - cursor),
           Inserted(pk, n), "gap", <<>>)
  BY <1>1, <1>2, <1>3 DEF Insert
<1>5. n \in Nat \ {0} /\ used + n <= max /\ used + n \in 0..max
  BY <1>1, <1>3
<1>6. PICK new : new = Inserted(pk, n)
  OBVIOUS
<1>7. PICK faults :
        faults <=> GrowFaults(pk, used + n) \/ Outside(WithUsed(pk, used + n), cursor + n, used - cursor)
  OBVIOUS
<1>8. Do(p, faults, new, "gap", <<>>)
  BY <1>4, <1>6, <1>7 DEF Do
<1>9. ASSUME ~Dangling(pk)
      PROVE  ~faults
  <2>1. ~GrowFaults(pk, used + n)
    BY <1>2, <1>9, WholeFacts
  <2>2. PICK room : room = WithUsed(pk, used + n)
    OBVIOUS
  <2>3. Fits(room, max) /\ ~Dangling(room) /\ room.used = used + n
    <3>1. Keeps(pk, room, max) /\ room.used = used + n
      BY <1>2, <1>5, <2>1, <2>2, WithUsedFacts
    <3> QED
      BY <1>9, <3>1 DEF Keeps
  <2>4. PICK k \in Nat : k = Len(room.memory) /\ used + n <= k
    BY <2>3, WholeFacts
  <2>5. ~Outside(room, cursor + n, used - cursor)
    <3>1. cursor + n + (used - cursor) = used + n
      BY <1>3, <1>5
    <3> QED
      BY <1>5, <2>4, <3>1 DEF Outside
  <2> QED
    BY <1>7, <2>1, <2>2, <2>5
<1>10. ~faults => /\ Fits(new, max) /\ new.cursor = cursor
                  /\ ~Dangling(pk) =>
                       /\ ~Dangling(new)
                       /\ \E hole \in Seq(Bytes) :
                            /\ Len(hole) <= max
                            /\ Data(new) = Part(Data(pk), 0, cursor) \o hole \o Part(Data(pk), cursor, used - cursor)
  <2>1. pk.used + n <= max /\ (~faults => ~GrowFaults(pk, pk.used + n))
    BY <1>3, <1>5, <1>7
  <2>2. ~faults => Keeps(pk, new, max) /\ IsInserted(new, pk, max)
    BY <1>2, <1>5, <1>6, <2>1, InsertedFacts
  <2> QED
    BY <1>3, <2>2, Zenon DEF Keeps, IsInserted
<1>11. ASSUME ~faults, ~Dangling(packet[p]), Effect(p, new, "gap", Nothing, <<>>)
       PROVE  Text!Kept(p)
  <2>1. PICK size \in Nat : size = Len(Data(pk)) /\ size = used
    BY <1>2, <1>3, <1>11, WholeFacts
  <2>2. PICK hole \in Seq(Bytes) :
          /\ Len(hole) <= max
          /\ Data(new) = Part(Data(pk), 0, cursor) \o hole \o Part(Data(pk), cursor, used - cursor)
    BY <1>2, <1>10, <1>11
  <2>3. Data(new) = SubSeq(Data(pk), 1, cursor) \o hole \o SubSeq(Data(pk), cursor + 1, size)
    <3>1. cursor + (used - cursor) = size /\ 0 + 1 = 1 /\ 0 + cursor = cursor
      BY <1>3, <2>1
    <3> QED
      BY <2>2, <3>1 DEF Part
  <2>4. hole \in Text!Bytes(p)
    BY <1>1, <2>2, ToldFacts
  <2>5. /\ TextAt(p, Data(pk), cursor) /\ last'.what = "gap"
        /\ Text!Edit(p, SubSeq(Data(pk), 1, cursor) \o hole \o SubSeq(Data(pk), cursor + 1, size), cursor)
    BY <1>2, <1>3, <1>10, <1>11, <2>3, EffectIs
  <2>6. Text!Gap(p)
    BY <2>1, <2>4, <2>5, Zenon DEF Text!Gap, Text!Is, Text!Size, Text!Edit, TextAt
  <2> QED
    BY <2>6 DEF Text!Kept
<1>12. "gap" \in Text!Commands
  BY DEF Text!Commands
<1> QED
  BY <1>1, <1>2, <1>8, <1>9, <1>10, <1>11, <1>12, NothingTold, DoServes DEF Works

\* A packet that gets a string as its text.
LEMMA StringIs ==
  ASSUME Fitting, NEW p \in Packets, NEW string \in Strings(p),
         Effect(p, WithString(New, string), "string", Nothing, string), ~Dangling(packet[p])
  PROVE  Text!String(p)
<1>1. PICK max \in Nat : max = MaxSize[p]
  BY PacketAssumption
<1>2. string \in Seq(Bytes) /\ Len(string) <= max
  BY <1>1, GivenFacts
<1>3. PICK pk : pk = WithString(New, string)
  OBVIOUS
<1>4. ~Dangling(pk) /\ pk.cursor = Len(string) /\ Data(pk) = string
  BY <1>2, <1>3, WithStringFacts
<1>5. last'.what = "string" /\ last'.bytes = string /\ Text!Edit(p, string, Len(string))
  BY <1>3, <1>4, EffectIs
<1> QED
  BY <1>5, Zenon DEF Text!String, Text!Is, Text!Given, Text!Edit

\* AssignString.
LEMMA AssignStringWorks ==
  ASSUME Fitting, NEW t, NEW p \in Packets, AssignString(t, p)
  PROVE  Works(p)
<1>1. PICK string \in Strings(p) : Do(p, FALSE, WithString(New, string), "string", string)
  BY DEF AssignString
<1>2. string \in Seq(Bytes) /\ Len(string) <= MaxSize[p] /\ Told(p, string) /\ MaxSize[p] \in Nat
  BY GivenFacts, PacketAssumption
<1>3. Fits(WithString(New, string), MaxSize[p])
  BY <1>2, WithStringFacts
<1>4. "string" \in Text!Commands
  BY DEF Text!Commands
<1> QED
  BY <1>1, <1>2, <1>3, <1>4, StringIs, DoServes DEF Works

\* A packet that gets a buffer as its text.
LEMMA LoadIs ==
  ASSUME Fitting, NEW p \in Packets, NEW bytes \in Buffers(p), NEW old, Fits(old, MaxSize[p]), ~Dangling(old),
         Effect(p, WithBuffer(old, bytes), "load", Nothing, bytes), ~Dangling(packet[p])
  PROVE  Text!Load(p)
<1>1. PICK max \in Nat : max = MaxSize[p]
  BY PacketAssumption
<1>2. bytes \in Seq(Bytes) /\ Len(bytes) <= max
  BY <1>1, GivenFacts
<1>3. PICK pk : pk = WithBuffer(old, bytes)
  OBVIOUS
<1>4. ~Dangling(pk) /\ pk.cursor = 0 /\ Data(pk) = bytes
  BY <1>1, <1>2, <1>3, WithBufferFacts DEF Keeps
<1>5. last'.what = "load" /\ last'.bytes = bytes /\ Text!Edit(p, bytes, 0)
  BY <1>3, <1>4, EffectIs
<1> QED
  BY <1>5, Zenon DEF Text!Load, Text!Is, Text!Given, Text!Edit

\* LoadFull.
LEMMA LoadFullWorks ==
  ASSUME Fitting, NEW t, NEW p \in Packets, LoadFull(t, p)
  PROVE  Works(p)
<1>1. PICK max \in Nat : max = MaxSize[p]
  BY PacketAssumption
<1>2. PICK pk \in Blocks : pk = packet[p] /\ Fits(pk, max)
  BY <1>1 DEF Fitting
<1>3. PICK bytes \in Buffers(p) :
        Do(p, Outside(WithBuffer(pk, bytes), 0, Len(bytes)), WithBuffer(pk, bytes), "load", bytes)
  BY <1>2 DEF LoadFull
<1>4. bytes \in Seq(Bytes) /\ Len(bytes) <= max /\ Told(p, bytes)
  BY <1>1, GivenFacts
<1>5. PICK new : new = WithBuffer(pk, bytes)
  OBVIOUS
<1>6. PICK faults : faults <=> Outside(new, 0, Len(bytes))
  OBVIOUS
<1>7. Do(p, faults, new, "load", bytes)
  BY <1>3, <1>5, <1>6 DEF Do
<1>8. Fits(new, max) /\ (~Dangling(pk) => ~Dangling(new) /\ Data(new) = bytes)
  BY <1>2, <1>4, <1>5, WithBufferFacts DEF Keeps
<1>9. ASSUME ~Dangling(pk)
      PROVE  ~faults
  <2>1. Len(bytes) = new.used /\ ~Outside(new, 0, new.used)
    BY <1>8, <1>9, WholeFacts
  <2> QED
    BY <1>6, <2>1
<1>10. ASSUME ~Dangling(packet[p]), Effect(p, new, "load", Nothing, bytes)
       PROVE  Text!Load(p)
  BY <1>1, <1>2, <1>5, <1>10, LoadIs
<1>11. "load" \in Text!Commands
  BY DEF Text!Commands
<1> QED
  BY <1>1, <1>2, <1>4, <1>7, <1>8, <1>9, <1>10, <1>11, DoServes DEF Works

\* A packet that is created, or deleted, has the text of the command.
LEMMA CreatedServes ==
  ASSUME Fitting, NEW p \in Packets, NEW pk, NEW what, NEW bytes,
         Effect(p, pk, what, Nothing, bytes), fault' = fault,
         \/ pk = New /\ what = "empty" /\ bytes = <<>>
         \/ \E string \in Strings(p) : pk = WithString(New, string) /\ what = "string" /\ bytes = string
         \/ \E buffer \in Buffers(p) : pk = WithBuffer(New, buffer) /\ what = "load" /\ bytes = buffer
  PROVE  Serves(p)
<1>1. PICK max \in Nat : max = MaxSize[p]
  BY PacketAssumption
<1>2. Fits(New, max) /\ ~Dangling(New) /\ New.cursor = 0 /\ Data(New) = <<>>
  <2>1. Fits(New, max) /\ ~Dangling(New) /\ New.cursor = 0 /\ New.used = 0
    BY NewFacts
  <2>2. Len(Data(New)) = 0 /\ Data(New) \in Seq(Bytes)
    BY <2>1, WholeFacts
  <2>3. Data(New) = <<>>
    BY <2>2, EmptySeq
  <2> QED
    BY <2>1, <2>3
<1>3. CASE pk = New /\ what = "empty" /\ bytes = <<>>
  <2>1. ASSUME ~Dangling(packet[p])
        PROVE  Text!Empty(p)
    <3>1. last'.what = "empty" /\ Text!Edit(p, <<>>, 0)
      BY <1>2, <1>3, <2>1, EffectIs
    <3> QED
      BY <3>1, Zenon DEF Text!Empty, Text!Is
  <2>2. "empty" \in Text!Commands
    BY DEF Text!Commands
  <2> QED
    BY <1>1, <1>2, <1>3, <2>1, <2>2, NothingTold, EffectShows DEF Serves
<1>4. CASE \E string \in Strings(p) : pk = WithString(New, string) /\ what = "string" /\ bytes = string
  <2>1. PICK string \in Strings(p) : pk = WithString(New, string) /\ what = "string" /\ bytes = string
    BY <1>4
  <2>2. string \in Seq(Bytes) /\ Len(string) <= max /\ Told(p, string)
    BY <1>1, GivenFacts
  <2>3. Fits(pk, MaxSize[p])
    BY <1>1, <2>1, <2>2, WithStringFacts
  <2>4. ~Dangling(packet[p]) => Text!String(p)
    BY <2>1, StringIs
  <2>5. "string" \in Text!Commands
    BY DEF Text!Commands
  <2> QED
    BY <2>1, <2>2, <2>3, <2>4, <2>5, EffectShows DEF Serves
<1>5. CASE \E buffer \in Buffers(p) : pk = WithBuffer(New, buffer) /\ what = "load" /\ bytes = buffer
  <2>1. PICK buffer \in Buffers(p) : pk = WithBuffer(New, buffer) /\ what = "load" /\ bytes = buffer
    BY <1>5
  <2>2. buffer \in Seq(Bytes) /\ Len(buffer) <= max /\ Told(p, buffer)
    BY <1>1, GivenFacts
  <2>3. Fits(pk, MaxSize[p])
    BY <1>1, <1>2, <2>1, <2>2, WithBufferFacts DEF Keeps
  <2>4. ~Dangling(packet[p]) => Text!Load(p)
    BY <1>1, <1>2, <2>1, LoadIs
  <2>5. "load" \in Text!Commands
    BY DEF Text!Commands
  <2> QED
    BY <2>1, <2>2, <2>3, <2>4, <2>5, EffectShows DEF Serves
<1> QED
  BY <1>3, <1>4, <1>5

\* ComparePacketString: a string is equal only to its text.
LEMMA CompareStringWorks ==
  ASSUME Fitting, NEW t, NEW p \in Packets, ComparePacketString(t, p)
  PROVE  Works(p)
<1>1. PICK max \in Nat : max = MaxSize[p]
  BY PacketAssumption
<1>2. PICK pk \in Blocks : pk = packet[p] /\ Fits(pk, max)
  BY <1>1 DEF Fitting
<1>3. PICK string \in Strings(p) :
        Do(p, SameSize(pk, string) /\ Outside(pk, 0, pk.used), pk,
           IF SameString(pk, string) THEN "is" ELSE "look", string)
  BY <1>2 DEF ComparePacketString
<1>4. string \in Seq(Bytes) /\ Told(p, string)
  BY GivenFacts
<1>5. PICK faults : faults <=> SameSize(pk, string) /\ Outside(pk, 0, pk.used)
  OBVIOUS
<1>6. faults => Dangling(pk)
  BY <1>2, <1>5, WholeFacts
<1>7. CASE ~SameString(pk, string)
  <2>1. Do(p, faults, packet[p], "look", string)
    BY <1>2, <1>3, <1>5, <1>7 DEF Do
  <2> QED
    BY <1>2, <1>4, <1>6, <2>1, LookWorks
<1>8. CASE SameString(pk, string)
  <2>1. Do(p, faults, packet[p], "is", string)
    BY <1>2, <1>3, <1>5, <1>8 DEF Do
  <2>2. ASSUME ~Dangling(pk)
        PROVE  Data(pk) \in {string, string \o <<0>>}
    <3>1. PICK s \in Seq(Bytes), used \in Nat, n \in Nat :
            s = Data(pk) /\ used = pk.used /\ Len(s) = used /\ n = Len(string)
      BY <1>2, <1>4, <2>2, WholeFacts, FitsFacts
    <3>2. used \in {n, n + 1} /\ (used = 0 \/ s = SubSeq(string \o <<0>>, 1, used))
      BY <1>8, <3>1 DEF SameString, SameSize
    <3>3. <<0>> \in Seq(Bytes) /\ Len(<<0>>) = 1
      BY PacketAssumption DEF Bytes
    <3>4. PICK both \in Seq(Bytes) : both = string \o <<0>> /\ Len(both) = n + 1
      <4>1. PICK zero \in Seq(Bytes) : zero = <<0>> /\ Len(zero) = 1
        BY <3>3, Zenon
      <4>2. string \o zero \in Seq(Bytes) /\ Len(string \o zero) = n + 1
        BY <1>4, <3>1, <4>1, ConcatProperties
      <4> QED
        BY <4>1, <4>2, Zenon
    <3>5. CASE used = 0
      <4>1. n = 0
        BY <3>1, <3>2, <3>5
      <4>2. s = string
        BY <1>4, <3>1, <3>5, <4>1, EmptySeq
      <4> QED
        BY <3>1, <4>2
    <3>6. CASE used # 0 /\ used = n + 1
      <4>1. SubSeq(both, 1, n + 1) = both
        BY <3>4, SubSeqFull
      <4> QED
        BY <3>1, <3>2, <3>4, <3>6, <4>1
    <3>7. CASE used # 0 /\ used = n
      <4>1. \A i \in 1..n : both[i] = string[i]
        BY <1>4, <3>1, <3>3, <3>4, ConcatProperties
      <4>2. PICK part : part = Part(both, 0, n)
        OBVIOUS
      <4>3. part = s
        BY <3>1, <3>2, <3>4, <3>7, <4>2 DEF Part
      <4>4. \A i \in 1..n : part[i] = both[i]
        <5>1. 0 + n <= Len(both)
          BY <3>4
        <5>2. \A i \in 1..n : Part(both, 0, n)[i] = both[0 + i]
          BY <5>1, PartIs
        <5> QED
          BY <4>2, <5>2
      <4>5. s = string
        BY <1>4, <3>1, <3>7, <4>1, <4>3, <4>4, SeqEqual
      <4> QED
        BY <3>1, <4>5
    <3> QED
      BY <3>2, <3>5, <3>6, <3>7
  <2>3. ~Dangling(pk) => Reads(Data(pk), pk.cursor, pk.cursor, "is", string)
    BY <2>2 DEF Reads
  <2>4. "is" \in Text!Commands
    BY DEF Text!Commands
  <2> QED
    BY <1>2, <1>4, <1>6, <2>1, <2>3, <2>4, LookServes DEF Works
<1> QED
  BY <1>7, <1>8

-----------------------------------------------------------------------------
(***************************************************************************)
(* What one command on two packets does.                                   *)
(***************************************************************************)

\* The second half of the command works, and what it does shows in the text of one of
\* the packets; or it faults on a block that was given away, or on its own packet.
Ends(t) ==
  \/ /\ Fault
     /\ \/ Dangling(packet[op[t].first])
        \/ op[t].what # "create" /\ Dangling(packet[op[t].second])
        \/ op[t].what = "add" /\ op[t].first = op[t].second
  \/ /\ Fitting' /\ fault' = fault /\ \E p \in Packets : Shown(p)
     /\ op' = [op EXCEPT ![t] = NoCommand]
     /\ \/ live' = live
        \/ op[t].what = "create" /\ live' = live \union {op[t].second}

\* Finish is what the command does.
LEMMA FinishEnds ==
  ASSUME Fitting, NEW t, NEW faults, NEW p \in Packets, NEW q \in Packets, NEW pk,
         NEW what \in Text!Commands, Finish(t, faults, p, q, pk, what),
         faults => \/ Dangling(packet[op[t].first])
                   \/ op[t].what # "create" /\ Dangling(packet[op[t].second]),
         ~faults => Fits(pk, MaxSize[p]),
         ~faults /\ ~Dangling(packet[p]) /\ Effect(p, pk, what, q, <<>>) => Text!Assign(p) \/ Text!Kept(p)
  PROVE  Ends(t)
<1>1. CASE faults
  BY <1>1 DEF Finish, Ends
<1>2. CASE ~faults
  <2>1. /\ Effect(p, pk, what, q, <<>>) /\ fault' = fault /\ live' = live
        /\ op' = [op EXCEPT ![t] = NoCommand]
    BY <1>2 DEF Finish, Effect
  <2>2. Fitting' /\ Shown(p)
    BY <1>2, <2>1, NothingTold, EffectShows
  <2> QED
    BY <2>1, <2>2 DEF Ends
<1> QED
  BY <1>1, <1>2

\* A packet that another one becomes a copy of.
LEMMA AssignIs ==
  ASSUME Fitting, NEW p \in Packets, NEW q \in Packets, NEW pk, ~Dangling(pk),
         ~Dangling(packet[p]), Effect(p, pk, "assign", q, <<>>),
         Data(pk) = Data(packet[q]), pk.cursor = packet[q].cursor,
         Dangling(packet[q]) => Data(packet[q]) = <<>> /\ packet[q].cursor = 0
  PROVE  Text!Assign(p)
<1>1. PICK s, c : s = Data(packet[q]) /\ c = packet[q].cursor
  OBVIOUS
<1>2. /\ last'.what = "assign" /\ last'.other = q
      /\ Text!Edit(p, s, c)
  <2>1. last'.what = "assign" /\ last'.other = q /\ Text!Edit(p, Data(pk), pk.cursor)
    BY EffectIs
  <2> QED
    BY <1>1, <2>1
<1>3. CASE Dangling(packet[q])
  <2>1. [r \in Packets |-> IF Dangling(packet[r]) THEN Lost ELSE Data(packet[r])][q] = Lost
    BY <1>3
  <2>2. Text!Edit(p, <<>>, 0)
    BY <1>2, <1>3, <1>1
  <2> QED
    BY <1>2, <2>1, <2>2, Zenon DEF Text!Assign, Text!Is, Text!Edit
<1>4. CASE ~Dangling(packet[q])
  <2>1. TextAt(q, s, c)
    BY <1>4, <1>1, TextAtFacts
  <2>2. s # Lost
    BY <1>4, <1>1, TextOfPacket
  <2> QED
    BY <1>2, <2>1, <2>2, Zenon DEF Text!Assign, Text!Is, Text!Edit, TextAt
<1> QED
  BY <1>3, <1>4

\* One packet becomes a copy of the other.
LEMMA AssignEnds ==
  ASSUME Fitting, NEW t, op[t].first \in Packets, op[t].second \in Packets, EndAssign(t)
  PROVE  Ends(t)
<1>1. PICK p \in Packets, q \in Packets : p = op[t].second /\ q = op[t].first
  OBVIOUS
<1>2. PICK max \in Nat, other \in Nat : max = MaxSize[p] /\ other = MaxSize[q]
  BY PacketAssumption
<1>3. PICK into \in Blocks, from \in Blocks :
        into = packet[p] /\ from = packet[q] /\ Fits(into, max) /\ Fits(from, other)
  BY <1>2 DEF Fitting
<1>4. /\ from.used <= max /\ op[t].what = "assign"
      /\ Finish(t, Outside(from, 0, from.used) \/ Outside(Copied(into, from), 0, from.used),
                p, q, Copied(into, from), "assign")
  BY <1>1, <1>2, <1>3 DEF EndAssign, Second
<1>5. PICK new : new = Copied(into, from)
  OBVIOUS
<1>6. PICK faults : faults <=> Outside(from, 0, from.used) \/ Outside(new, 0, from.used)
  OBVIOUS
<1>7. Finish(t, faults, p, q, new, "assign")
  BY <1>4, <1>5, <1>6 DEF Finish
<1>8. ASSUME ~Outside(from, 0, from.used), into.memSize < from.used \/ from.used <= Len(into.memory)
      PROVE  /\ Fits(new, max) /\ new.cursor = from.cursor
             /\ ~Dangling(into) => ~Dangling(new) /\ Data(new) = Data(from)
             /\ Dangling(from) => Data(from) = <<>> /\ from.cursor = 0
  BY <1>3, <1>4, <1>5, <1>8, CopiedText DEF Keeps
<1>9. ASSUME ~faults
      PROVE  into.memSize < from.used \/ from.used <= Len(into.memory)
  <2>1. PICK used \in Nat, size \in Nat, k \in Nat :
          used = from.used /\ size = into.memSize /\ k = Len(into.memory)
    BY <1>3, FitsFacts
  <2> SUFFICES ASSUME ~(size < used), used # 0
               PROVE  used <= k
    BY <2>1
  <2>2. ~(from.used > into.memSize)
    BY <2>1
  <2>3. new.memory = Overwrite(into.memory, 0, Data(from))
    BY <1>3, <1>5, <2>2 DEF Copied, Blocks
  <2>4. Data(from) \in Seq(Bytes)
    BY <1>3, <1>6, <1>9, DataFacts
  <2>5. Len(new.memory) = k
    BY <1>3, <2>1, <2>3, <2>4, FitsFacts, OverwriteFacts
  <2> QED
    BY <1>6, <1>9, <2>1, <2>5 DEF Outside
<1>10. ASSUME faults
       PROVE  Dangling(packet[p]) \/ Dangling(packet[q])
  <2> SUFFICES ASSUME ~Dangling(into), ~Dangling(from)
               PROVE  FALSE
    BY <1>3
  <2>1. ~Outside(from, 0, from.used)
    BY <1>3, WholeFacts
  <2>2. into.memSize < from.used \/ from.used <= Len(into.memory)
    BY <1>3, WholeFacts, FitsFacts
  <2>3. Fits(new, max) /\ ~Dangling(new) /\ Data(new) = Data(from)
    BY <1>8, <2>1, <2>2
  <2>4. Len(Data(new)) = new.used /\ Len(Data(from)) = from.used /\ ~Outside(new, 0, new.used)
    BY <1>3, <2>3, WholeFacts
  <2> QED
    BY <1>6, <1>10, <2>1, <2>3, <2>4
<1>11. ~faults => /\ Fits(new, max) /\ new.cursor = from.cursor
                  /\ ~Dangling(into) => ~Dangling(new) /\ Data(new) = Data(from)
                  /\ Dangling(from) => Data(from) = <<>> /\ from.cursor = 0
  BY <1>6, <1>8, <1>9
<1>12. ASSUME ~faults, ~Dangling(packet[p]), Effect(p, new, "assign", q, <<>>)
       PROVE  Text!Assign(p)
  BY <1>3, <1>11, <1>12, AssignIs
<1>13. faults => Dangling(packet[op[t].first]) \/ (op[t].what # "create" /\ Dangling(packet[op[t].second]))
  BY <1>1, <1>4, <1>10
<1>14. "assign" \in Text!Commands
  BY DEF Text!Commands
<1> QED
  BY <1>2, <1>7, <1>11, <1>12, <1>13, <1>14, FinishEnds

\* A command on two packets that leaves the first alone.
LEMMA ReadsIs ==
  ASSUME Fitting, NEW p \in Packets, NEW what, NEW other, NEW bytes, ~Dangling(packet[p]),
         Effect(p, packet[p], what, other, bytes),
         Reads(Data(packet[p]), packet[p].cursor, packet[p].cursor, what, bytes)
  PROVE  Text!Kept(p)
<1>1. PICK pk : pk = packet[p]
  OBVIOUS
<1>2. /\ TextAt(p, Data(pk), pk.cursor)
      /\ last'.what = what /\ last'.bytes = bytes
      /\ Text!Edit(p, Data(pk), pk.cursor)
  BY <1>1, EffectIs
<1>3. packet' = packet
  BY DEF Effect, Fitting
<1>4. UNCHANGED <<[q \in Packets |-> IF Dangling(packet[q]) THEN Lost ELSE Data(packet[q])],
                  [q \in Packets |-> packet[q].cursor]>>
  BY <1>3
<1> QED
  BY <1>2, <1>4, <1>1, ReadsKept

\* Two packets are equal only if their texts are.
LEMMA CompareEnds ==
  ASSUME Fitting, NEW t, op[t].first \in Packets, op[t].second \in Packets, EndCompare(t)
  PROVE  Ends(t)
<1>1. PICK p \in Packets, q \in Packets : p = op[t].first /\ q = op[t].second
  OBVIOUS
<1>2. PICK max \in Nat, other \in Nat : max = MaxSize[p] /\ other = MaxSize[q]
  BY PacketAssumption
<1>3. PICK a \in Blocks, b \in Blocks :
        a = packet[p] /\ b = packet[q] /\ Fits(a, max) /\ Fits(b, other)
  BY <1>2 DEF Fitting
<1>4. /\ op[t].what = "compare"
      /\ Finish(t, a.used = b.used /\ (Outside(a, 0, a.used) \/ Outside(b, 0, b.used)), p, q, a,
                IF Same(a, b) THEN "equal" ELSE "look")
  BY <1>1, <1>3 DEF EndCompare, Second
<1>5. PICK faults : faults <=> a.used = b.used /\ (Outside(a, 0, a.used) \/ Outside(b, 0, b.used))
  OBVIOUS
<1>6. faults => Dangling(packet[op[t].first]) \/ (op[t].what # "create" /\ Dangling(packet[op[t].second]))
  BY <1>1, <1>3, <1>4, <1>5, WholeFacts
<1>7. CASE ~Same(a, b)
  <2>1. Finish(t, faults, p, q, a, "look")
    BY <1>4, <1>5, <1>7 DEF Finish
  <2>2. Reads(Data(a), a.cursor, a.cursor, "look", <<>>)
    BY DEF Reads
  <2>3. ~Dangling(packet[p]) /\ Effect(p, a, "look", q, <<>>) => Text!Kept(p)
    BY <1>3, <2>2, ReadsIs
  <2>4. "look" \in Text!Commands
    BY DEF Text!Commands
  <2> QED
    BY <1>2, <1>3, <1>6, <2>1, <2>3, <2>4, FinishEnds
<1>8. CASE Same(a, b)
  <2>1. Finish(t, faults, p, q, a, "equal")
    BY <1>4, <1>5, <1>8 DEF Finish
  <2>2. ASSUME ~faults, ~Dangling(a)
        PROVE  IF Dangling(b) THEN Data(a) = <<>> ELSE Data(a) = Data(b)
    <3>1. a.used = b.used /\ (a.used = 0 \/ Data(a) = Data(b)) /\ ~Outside(b, 0, b.used)
      BY <1>5, <1>8, <2>2 DEF Same
    <3>2. /\ Data(a) \in Seq(Bytes) /\ Len(Data(a)) = a.used
          /\ Data(b) \in Seq(Bytes) /\ Len(Data(b)) = b.used
      BY <1>3, <2>2, <3>1, WholeFacts, DataFacts
    <3>3. a.used = 0 => Data(a) = <<>> /\ Data(b) = <<>>
      BY <3>1, <3>2, EmptySeq
    <3>4. Dangling(b) => b.used = 0
      BY <1>3, <3>1 DEF Dangling, Outside, Fits, Blocks
    <3> QED
      BY <3>1, <3>3, <3>4
  <2>3. ASSUME ~faults, ~Dangling(packet[p]), Effect(p, a, "equal", q, <<>>)
        PROVE  Text!Kept(p)
    <3>1. TextAt(p, Data(a), a.cursor) /\ last'.what = "equal" /\ last'.other = q
      BY <1>3, <2>3, EffectIs
    <3>2. packet' = packet
      BY <1>3, <2>3 DEF Effect, Fitting
    <3>3. UNCHANGED <<[r \in Packets |-> IF Dangling(packet[r]) THEN Lost ELSE Data(packet[r])],
                      [r \in Packets |-> packet[r].cursor]>>
      BY <3>2
    <3>4. CASE Dangling(b)
      <4>1. [r \in Packets |-> IF Dangling(packet[r]) THEN Lost ELSE Data(packet[r])][q] = Lost
        BY <1>3, <3>4
      <4>2. Data(a) = <<>>
        BY <1>3, <2>2, <2>3, <3>4
      <4>3. Text!Equal(p)
        BY <3>1, <3>3, <4>1, <4>2, Zenon DEF Text!Equal, Text!Is, TextAt
      <4> QED
        BY <4>3 DEF Text!Kept
    <3>5. CASE ~Dangling(b)
      <4>1. TextAt(q, Data(b), b.cursor) /\ Data(b) # Lost
        BY <1>3, <3>5, TextAtFacts, TextOfPacket
      <4>2. Data(a) = Data(b)
        BY <1>3, <2>2, <2>3, <3>5
      <4>3. Text!Equal(p)
        BY <3>1, <3>3, <4>1, <4>2, Zenon DEF Text!Equal, Text!Is, TextAt
      <4> QED
        BY <4>3 DEF Text!Kept
    <3> QED
      BY <3>4, <3>5
  <2>4. "equal" \in Text!Commands
    BY DEF Text!Commands
  <2> QED
    BY <1>2, <1>3, <1>6, <2>1, <2>3, <2>4, FinishEnds
<1> QED
  BY <1>7, <1>8

\* Find leaves the packets alone.
LEMMA FindEnds ==
  ASSUME Fitting, NEW t, op[t].first \in Packets, op[t].second \in Packets, EndFind(t)
  PROVE  Ends(t)
<1>1. PICK p \in Packets, q \in Packets : p = op[t].first /\ q = op[t].second
  OBVIOUS
<1>2. PICK max \in Nat, other \in Nat : max = MaxSize[p] /\ other = MaxSize[q]
  BY PacketAssumption
<1>3. PICK a \in Blocks, b \in Blocks :
        a = packet[p] /\ b = packet[q] /\ Fits(a, max) /\ Fits(b, other)
  BY <1>2 DEF Fitting
<1> DEFINE faults == /\ b.used > 0 /\ a.used > 0
                     /\ Outside(a, 0, a.used) \/ Outside(b, 0, b.used)
<1>4. op[t].what = "find" /\ Finish(t, faults, p, q, a, IF a.used = 0 THEN "fail" ELSE "look")
  BY <1>1, <1>3 DEF EndFind, Second
<1>5. faults => Dangling(packet[op[t].first]) \/ (op[t].what # "create" /\ Dangling(packet[op[t].second]))
  BY <1>1, <1>3, <1>4, WholeFacts
<1>6. PICK what : what = IF a.used = 0 THEN "fail" ELSE "look"
  OBVIOUS
<1>7. what \in Text!Commands
  BY <1>6 DEF Text!Commands
<1>8. ASSUME ~Dangling(a)
      PROVE  Reads(Data(a), a.cursor, a.cursor, what, <<>>)
  <2>1. a.cursor \in a.cursor..Len(Data(a))
    BY <1>3, <1>8, WholeFacts
  <2> QED
    BY <1>6, <2>1 DEF Reads
<1>9. ~Dangling(packet[p]) /\ Effect(p, a, what, q, <<>>) => Text!Kept(p)
  BY <1>3, <1>8, ReadsIs
<1> HIDE DEF faults
<1> QED
  BY <1>2, <1>3, <1>4, <1>5, <1>6, <1>7, <1>9, FinishEnds

\* The new packet becomes a copy of the other.
LEMMA CreateEnds ==
  ASSUME Fitting, NEW t, op[t].first \in Packets, op[t].second \in Packets, EndCreate(t)
  PROVE  Ends(t)
<1>1. PICK p \in Packets, q \in Packets : p = op[t].second /\ q = op[t].first
  OBVIOUS
<1>2. PICK max \in Nat, other \in Nat : max = MaxSize[p] /\ other = MaxSize[q]
  BY PacketAssumption
<1>3. PICK from \in Blocks : from = packet[q] /\ Fits(from, other)
  BY <1>2 DEF Fitting
<1>4. PICK new : new = Copied(New, from)
  OBVIOUS
<1>5. /\ op[t].what = "create"
      /\ IF Outside(from, 0, from.used) THEN Fault
         ELSE /\ from.used <= max
              /\ live' = live \union {p}
              /\ Effect(p, new, "assign", q, <<>>)
              /\ op' = [op EXCEPT ![t] = NoCommand]
              /\ fault' = fault
  BY <1>1, <1>2, <1>3, <1>4 DEF EndCreate, Second, Effect
<1>6. CASE Outside(from, 0, from.used)
  <2>1. Dangling(packet[op[t].first])
    BY <1>1, <1>3, <1>6, WholeFacts
  <2> QED
    BY <1>5, <1>6, <2>1 DEF Ends
<1>7. CASE ~Outside(from, 0, from.used)
  <2>1. Fits(New, max) /\ ~Dangling(New)
    BY NewFacts
  <2>2. New.memSize < from.used \/ from.used <= Len(New.memory)
    BY <1>3, <2>1, WholeFacts, FitsFacts
  <2>3. from.used <= max
    BY <1>5, <1>7
  <2>4. /\ Fits(new, max) /\ ~Dangling(new) /\ new.cursor = from.cursor /\ Data(new) = Data(from)
        /\ Dangling(from) => Data(from) = <<>> /\ from.cursor = 0
    <3>1. PICK none : none = New
      OBVIOUS
    <3>2. /\ Fits(none, max) /\ ~Dangling(none)
          /\ none.memSize < from.used \/ from.used <= Len(none.memory)
      BY <2>1, <2>2, <3>1
    <3>3. /\ Keeps(none, new, max) /\ new.cursor = from.cursor /\ Data(new) = Data(from)
          /\ Dangling(from) => Data(from) = <<>> /\ from.cursor = 0
      BY <1>3, <1>4, <1>7, <2>3, <3>1, <3>2, CopiedText
    <3> QED
      BY <3>2, <3>3 DEF Keeps
  <2>5. ~Dangling(packet[p]) => Text!Assign(p)
    BY <1>3, <1>5, <1>7, <2>4, AssignIs
  <2>6. "assign" \in Text!Commands
    BY DEF Text!Commands
  <2>7. Fitting' /\ Shown(p)
    BY <1>2, <1>5, <1>7, <2>4, <2>5, <2>6, NothingTold, EffectShows
  <2> QED
    BY <1>1, <1>5, <1>7, <2>7 DEF Ends
<1> QED
  BY <1>6, <1>7

\* A packet that is added to itself has its own data behind the room that was made.
LEMMA RoomData ==
  ASSUME NEW max \in Nat, NEW pk, Fits(pk, max), NEW to, to = pk.cursor + pk.used, to <= max,
         ~Outside(pk, 0, pk.used), ~GrowFaults(pk, to)
  PROVE  /\ Data(Room(pk, to)) \in Seq(Bytes)
         /\ pk.used <= Len(Data(Room(pk, to)))
         /\ \A i \in 1..pk.used : Data(Room(pk, to))[i] = Data(pk)[i]
         /\ pk.used < Len(Data(Room(pk, to))) => pk.used <= to
<1>1. PICK used \in Nat, cursor \in Nat : used = pk.used /\ cursor = pk.cursor /\ cursor <= used
  BY FitsFacts
<1>2. PICK end \in 0..max : end = to /\ end = cursor + used /\ end \in Nat
  BY <1>1
<1>3. PICK room : room = Room(pk, end)
  OBVIOUS
<1>4. PICK all \in Nat : all = Greater(used, end) /\ used <= all /\ (used < all => used <= end)
  BY <1>1, <1>2 DEF Greater
<1>5. /\ Fits(room, max) /\ (~Dangling(pk) => ~Dangling(room)) /\ room.used = all
      /\ \A i \in 1..used : room.memory[i] = pk.memory[i]
  BY <1>1, <1>2, <1>3, <1>4, RoomFacts DEF Keeps
<1>6. ~Outside(room, 0, all)
  <2>1. CASE ~Dangling(pk)
    BY <1>5, <2>1, WholeFacts
  <2>2. CASE Dangling(pk)
    <3>1. used = 0
      BY <1>1, <2>2 DEF Dangling, Outside, Fits, Blocks
    <3>2. all = 0
      BY <1>1, <1>2, <1>4, <3>1 DEF Greater
    <3> QED
      BY <3>2 DEF Outside
  <2> QED
    BY <2>1, <2>2
<1>7. PICK s \in Seq(Bytes) : s = Data(room) /\ Len(s) = all /\ \A i \in 1..all : s[i] = room.memory[i]
  <2>1. room \in Blocks
    BY <1>5, FitsFacts
  <2> QED
    BY <1>5, <1>6, <2>1, DataFacts
<1>8. \A i \in 1..used : Data(pk)[i] = pk.memory[i]
  BY <1>1, FitsFacts, DataFacts
<1>9. \A i \in 1..used : s[i] = Data(pk)[i]
  <2> SUFFICES ASSUME NEW i \in 1..used
               PROVE  s[i] = Data(pk)[i]
    OBVIOUS
  <2>1. i \in 1..all
    BY <1>4
  <2> QED
    BY <1>5, <1>7, <1>8, <2>1
<1> QED
  BY <1>1, <1>2, <1>3, <1>4, <1>7, <1>9

\* The data of the other packet is written at the cursor.
LEMMA AddEnds ==
  ASSUME Fitting, NEW t, op[t].first \in Packets, op[t].second \in Packets, EndAdd(t)
  PROVE  Ends(t)
<1>1. PICK p \in Packets, q \in Packets : p = op[t].first /\ q = op[t].second
  OBVIOUS
<1>2. PICK max \in Nat, other \in Nat : max = MaxSize[p] /\ other = MaxSize[q]
  BY PacketAssumption
<1>3. PICK pk \in Blocks, from \in Blocks :
        pk = packet[p] /\ from = packet[q] /\ Fits(pk, max) /\ Fits(from, other)
  BY <1>2 DEF Fitting
<1>4. PICK cursor \in Nat, used \in Nat, n \in Nat :
        cursor = pk.cursor /\ used = pk.used /\ n = from.used /\ cursor <= used
  BY <1>3, FitsFacts
<1>5. PICK to \in Nat : to = cursor + n
  OBVIOUS
<1>6. PICK added : added = Data(from)
  OBVIOUS
<1>7. PICK room : room = Room(pk, to)
  OBVIOUS
<1>8. PICK copy : copy = IF q = p THEN Data(room) ELSE added
  OBVIOUS
<1>9. PICK new : new = WrittenAt(room, cursor, copy, to)
  OBVIOUS
<1>10. PICK faults : faults <=> Outside(from, 0, n) \/ GrowFaults(pk, to) \/ Outside(room, cursor, Len(copy))
  OBVIOUS
<1>11. /\ op[t].what = "add" /\ to <= max
       /\ IF faults THEN Fault
          ELSE /\ Effect(p, new, "put", Nothing, added) /\ fault' = fault /\ live' = live
               /\ op' = [op EXCEPT ![t] = NoCommand]
  BY <1>1, <1>2, <1>3, <1>4, <1>5, <1>6, <1>7, <1>8, <1>9, <1>10
     DEF EndAdd, Second, Done, Effect, WrittenAt
<1>12. CASE faults
  <2>1. Dangling(from) \/ Dangling(pk) \/ q = p
    <3> SUFFICES ASSUME ~Dangling(from), ~Dangling(pk), q # p
                 PROVE  FALSE
      OBVIOUS
    <3>1. ~Outside(from, 0, n) /\ Len(Data(from)) = n /\ ~GrowFaults(pk, to)
      BY <1>3, <1>4, WholeFacts
    <3>2. Len(copy) = n
      BY <1>6, <1>8, <3>1
    <3>3. to \in 0..max
      BY <1>5, <1>11
    <3>4. Fits(room, max) /\ ~Dangling(room) /\ room.used = Greater(used, to)
      BY <1>3, <1>4, <1>7, <3>1, <3>3, RoomFacts DEF Keeps
    <3>5. PICK k \in Nat : k = Len(room.memory) /\ Greater(used, to) <= k
      BY <3>4, WholeFacts
    <3>6. to <= k
      BY <1>4, <1>5, <3>5 DEF Greater
    <3>7. ~Outside(room, cursor, n)
      BY <1>4, <1>5, <3>5, <3>6 DEF Outside
    <3> QED
      BY <1>10, <1>12, <3>1, <3>2, <3>7
  <2> QED
    BY <1>1, <1>3, <1>11, <1>12, <2>1 DEF Ends
<1>13. CASE ~faults
  <2>1. ~Outside(from, 0, from.used) /\ ~GrowFaults(pk, to)
    BY <1>4, <1>10, <1>13
  <2>2. added \in Seq(Bytes) /\ Len(added) = n
    BY <1>3, <1>4, <1>6, <2>1, DataFacts
  <2>3. /\ copy \in Seq(Bytes) /\ Len(added) <= Len(copy) /\ \A i \in 1..Len(added) : copy[i] = added[i]
        /\ Len(added) < Len(copy) => used <= to
    <3>1. CASE q # p
      BY <1>8, <2>2, <3>1
    <3>2. CASE q = p
      <4>1. from = pk /\ n = used
        BY <1>3, <1>4, <3>2
      <4>2. /\ Data(room) \in Seq(Bytes) /\ used <= Len(Data(room))
            /\ \A i \in 1..used : Data(room)[i] = Data(pk)[i]
            /\ used < Len(Data(room)) => used <= to
        BY <1>3, <1>4, <1>5, <1>7, <1>11, <2>1, <4>1, RoomData
      <4> QED
        BY <1>6, <1>8, <2>2, <3>2, <4>1, <4>2
    <3> QED
      BY <3>1, <3>2
  <2>4. /\ Fits(new, max) /\ new.cursor = to
        /\ ~Dangling(pk) => ~Dangling(new) /\ Data(new) = Text!Over(Data(pk), cursor, added)
    <3>1. to = pk.cursor + Len(added) /\ (Len(added) < Len(copy) => pk.used <= to)
      BY <1>4, <1>5, <2>2, <2>3
    <3>2. /\ Keeps(pk, WrittenAt(Room(pk, to), pk.cursor, copy, to), max)
          /\ WrittenAt(Room(pk, to), pk.cursor, copy, to).cursor = to
          /\ ~Dangling(pk) =>
               Data(WrittenAt(Room(pk, to), pk.cursor, copy, to)) = Text!Over(Data(pk), pk.cursor, added)
      BY <1>3, <1>11, <2>1, <2>2, <2>3, <3>1, AddedFacts
    <3> QED
      BY <1>4, <1>7, <1>9, <3>2 DEF Keeps
  <2>5. ASSUME ~Dangling(packet[p]), Effect(p, new, "put", Nothing, added)
        PROVE  Text!Kept(p)
    <3>1. /\ TextAt(p, Data(pk), cursor) /\ last'.what = "put" /\ last'.bytes = added
          /\ Text!Edit(p, Data(new), new.cursor)
      BY <1>3, <1>4, <2>4, <2>5, EffectIs
    <3>2. Text!Edit(p, Text!Over(Data(pk), cursor, added), cursor + Len(added))
      BY <1>3, <1>5, <2>2, <2>4, <2>5, <3>1
    <3>3. Text!Put(p)
      BY <3>1, <3>2, Zenon DEF Text!Put, Text!Is, Text!Given, Text!Edit, TextAt
    <3> QED
      BY <3>3 DEF Text!Kept
  <2>6. Told(p, added)
    BY <1>2, <1>4, <1>5, <1>11, <2>2, ToldFacts
  <2>7. "put" \in Text!Commands
    BY DEF Text!Commands
  <2>8. Fitting' /\ Shown(p)
    BY <1>2, <1>11, <1>13, <2>4, <2>5, <2>6, <2>7, EffectShows
  <2> QED
    BY <1>11, <1>13, <2>8 DEF Ends
<1> QED
  BY <1>12, <1>13

-----------------------------------------------------------------------------
(***************************************************************************)
(* All commands.                                                           *)
(***************************************************************************)

\* What adds to a packet works.
LEMMA AddsWork ==
  ASSUME Fitting, NEW t, NEW p \in Packets, Adds(t, p)
  PROVE  Ready(t, p) /\ Works(p)
<1>1. {"int", "longlong", "float", "byte", "double", "short"} \subseteq NumberTypes
  BY DEF NumberTypes
<1>2. ASSUME NEW type \in NumberTypes, Add(t, p, type)
      PROVE  Ready(t, p) /\ Works(p)
  BY <1>2, AddWorks DEF Add
<1>3. CASE \/ AddInt(t, p) \/ AddLongLong(t, p) \/ AddFloat(t, p) \/ AddByte(t, p) \/ AddDouble(t, p)
           \/ AddShort(t, p) \/ AddLong(t, p)
  BY <1>1, <1>2, <1>3 DEF AddInt, AddLongLong, AddFloat, AddByte, AddDouble, AddShort, AddLong
<1>4. CASE AddSizeT(t, p) \/ AddClockT(t, p)
  <2>1. PutSizeT(t, p)
    BY <1>4 DEF AddSizeT, AddClockT
  <2> QED
    BY <2>1, PutSizeTWorks DEF PutSizeT
<1>5. CASE AddStringC(t, p)
  <2>1. PutString(t, p)
    BY <1>5 DEF AddStringC
  <2> QED
    BY <2>1, PutStringWorks DEF PutString
<1>6. CASE AddHex(t, p)
  BY <1>6, AddHexWorks DEF AddHex
<1>7. CASE AddBuffer(t, p)
  BY <1>7, AddBufferWorks DEF AddBuffer
<1>8. CASE GetNullTerminated(t, p)
  BY <1>8, TerminateWorks DEF GetNullTerminated
<1> QED
  BY <1>3, <1>4, <1>5, <1>6, <1>7, <1>8 DEF Adds

\* What gets from a packet works.
LEMMA GetsWork ==
  ASSUME Fitting, NEW t, NEW p \in Packets, Gets(t, p)
  PROVE  Ready(t, p) /\ Works(p)
<1>1. {"int", "longlong", "float", "byte", "double", "short"} \subseteq NumberTypes
  BY DEF NumberTypes
<1>2. ASSUME NEW type \in NumberTypes, Get(t, p, type)
      PROVE  Ready(t, p) /\ Works(p)
  BY <1>2, GetWorks DEF Get
<1>3. CASE \/ GetInt(t, p) \/ GetLongLong(t, p) \/ GetFloat(t, p) \/ GetByte(t, p) \/ GetDouble(t, p)
           \/ GetShort(t, p) \/ GetLong(t, p)
  BY <1>1, <1>2, <1>3 DEF GetInt, GetLongLong, GetFloat, GetByte, GetDouble, GetShort, GetLong
<1>4. CASE GetSizeT(t, p) \/ GetClockT(t, p)
  <2>1. TakeSizeT(t, p)
    BY <1>4 DEF GetSizeT, GetClockT
  <2> QED
    BY <2>1, TakeSizeTWorks DEF TakeSizeT
<1>5. CASE GetStringSize(t, p)
  <2>1. LookAtSizeT(t, p)
    BY <1>5 DEF GetStringSize
  <2> QED
    BY <2>1, LookAtSizeTWorks DEF LookAtSizeT
<1>6. CASE GetStringC(t, p)
  <2>1. TakeString(t, p)
    BY <1>6 DEF GetStringC
  <2> QED
    BY <2>1, TakeStringWorks DEF TakeString
<1>7. CASE GetPrefixSizeT(t, p)
  BY <1>7, GetPrefixSizeTWorks DEF GetPrefixSizeT
<1>8. CASE \E type \in NumberTypes : GetPrefix(t, p, type)
  BY <1>8, GetPrefixWorks DEF GetPrefix
<1>9. CASE GetHex(t, p)
  BY <1>9, GetHexWorks DEF GetHex
<1>10. CASE CopyIntoWSABUF(t, p)
  BY <1>10, CopyWorks DEF CopyIntoWSABUF
<1> QED
  BY <1>3, <1>4, <1>5, <1>6, <1>7, <1>8, <1>9, <1>10 DEF Gets

\* What changes or tells sizes works.
LEMMA SizesWork ==
  ASSUME Fitting, NEW t, NEW p \in Packets, Sizes(t, p)
  PROVE  Ready(t, p) /\ Works(p)
<1>1. CASE Clear(t, p)
  BY <1>1, ClearWorks DEF Clear
<1>2. CASE SetMemorySize(t, p)
  BY <1>2, SetMemorySizeWorks DEF SetMemorySize
<1>3. CASE ChangeMemorySize(t, p)
  BY <1>3, ChangeMemorySizeWorks DEF ChangeMemorySize
<1>4. CASE SetUsedSize(t, p)
  BY <1>4, SetUsedSizeWorks DEF SetUsedSize
<1>5. CASE SetCursor(t, p)
  BY <1>5, SetCursorWorks DEF SetCursor
<1>6. CASE Erase(t, p)
  BY <1>6, EraseWorks DEF Erase
<1>7. CASE Insert(t, p)
  BY <1>7, InsertWorks DEF Insert
<1>8. CASE \/ GetUsedSize(t, p) \/ GetCursor(t, p) \/ GetPacketRemainder(t, p) \/ GetMemorySize(t, p)
           \/ GetHead(t, p)
  <2>1. Ready(t, p)
    BY <1>8 DEF GetUsedSize, GetCursor, GetPacketRemainder, GetMemorySize, GetHead, Tell
  <2> QED
    BY <1>8, <2>1, TellsWork
<1>9. CASE SetHead(t, p)
  BY <1>9, SetHeadWorks DEF SetHead
<1> QED
  BY <1>1, <1>2, <1>3, <1>4, <1>5, <1>6, <1>7, <1>8, <1>9 DEF Sizes

\* What deals with strings and buffers as a whole, or creates or deletes a packet.
LEMMA WholesServe ==
  ASSUME Fitting, NEW t, NEW p \in Packets, Wholes(t, p)
  PROVE  \/ Ready(t, p) /\ Works(p)
         \/ /\ ~fault /\ fault' = fault /\ Serves(p) /\ op' = op
            /\ \/ live' = live \union {p}
               \/ /\ live' = live \ {p}
                  /\ \A u \in Callers : p \notin {op[u].first, op[u].second}
<1>1. CASE AssignString(t, p)
  BY <1>1, AssignStringWorks DEF AssignString
<1>2. CASE LoadFull(t, p)
  BY <1>2, LoadFullWorks DEF LoadFull
<1>3. CASE ComparePacketString(t, p)
  BY <1>3, CompareStringWorks DEF ComparePacketString
<1>4. CASE CreatePacket(t, p) \/ CreatePacketFromString(t, p) \/ CreatePacketLoaded(t, p)
  <2>1. PICK pk, what, bytes :
          /\ Create(t, p, pk, what, bytes)
          /\ \/ pk = New /\ what = "empty" /\ bytes = <<>>
             \/ \E string \in Strings(p) : pk = WithString(New, string) /\ what = "string" /\ bytes = string
             \/ \E buffer \in Buffers(p) : pk = WithBuffer(New, buffer) /\ what = "load" /\ bytes = buffer
    <3>1. CASE CreatePacket(t, p)
      BY <3>1 DEF CreatePacket
    <3>2. CASE CreatePacketFromString(t, p)
      BY <3>2 DEF CreatePacketFromString
    <3>3. CASE CreatePacketLoaded(t, p)
      BY <3>3 DEF CreatePacketLoaded
    <3> QED
      BY <1>4, <3>1, <3>2, <3>3
  <2>2. Effect(p, pk, what, Nothing, bytes) /\ ~fault /\ fault' = fault /\ op' = op /\ live' = live \union {p}
    BY <2>1 DEF Create, Effect
  <2>3. Serves(p)
    BY <2>1, <2>2, CreatedServes
  <2> QED
    BY <2>2, <2>3
<1>5. CASE DeletePacket(t, p)
  <2>1. /\ Effect(p, New, "empty", Nothing, <<>>) /\ ~fault /\ fault' = fault /\ op' = op
        /\ live' = live \ {p} /\ \A u \in Callers : p \notin {op[u].first, op[u].second}
    BY <1>5 DEF DeletePacket, Effect, Ready
  <2>2. PICK pk : pk = New
    OBVIOUS
  <2>3. Serves(p)
    BY <2>1, <2>2, CreatedServes
  <2> QED
    BY <2>1, <2>3
<1> QED
  BY <1>1, <1>2, <1>3, <1>4, <1>5 DEF Wholes

\* The packets of a command on two packets exist.
InHand ==
  /\ live \subseteq Packets
  /\ op \in [Callers -> [what : {Nothing, "assign", "compare", "add", "find", "create"},
                         first : Packets \union {Nothing}, second : Packets \union {Nothing}]]
  /\ \A t \in Callers : op[t].what # Nothing =>
       /\ op[t].first \in live /\ op[t].second \in Packets
       /\ op[t].what # "create" => op[t].second \in live

PacketIInv == Fitting /\ InHand /\ FaultsAreKnown

\* Nothing of the texts changes, or one of their commands does it.
Shows == UNCHANGED <<packet, last>> \/ \E p \in Packets : Shown(p)

\* No packet has been created at the start.
LEMMA PacketInitIInv == PacketInit => PacketIInv
<1> SUFFICES ASSUME PacketInit
             PROVE  PacketIInv
  OBVIOUS
<1>1. Fitting
  <2>1. PICK none : none = New
    OBVIOUS
  <2>2. \A p \in Packets : Fits(none, MaxSize[p])
    BY <2>1, PacketAssumption, NewFacts
  <2>3. none \in Blocks
    BY <2>1 DEF Blocks, New
  <2> QED
    BY <2>1, <2>2, <2>3 DEF PacketInit, Fitting
<1>2. InHand
  BY DEF PacketInit, InHand, NoCommand, Nothing
<1>3. FaultsAreKnown
  BY DEF PacketInit, FaultsAreKnown
<1> QED
  BY <1>1, <1>2, <1>3 DEF PacketIInv

\* A command on one packet.
LEMMA ServesKeeps ==
  ASSUME PacketIInv, NEW t \in Callers, NEW p \in Packets, ~fault, Serves(p), op' = op,
         \/ p \in live /\ live' = live
         \/ ~Fault /\ live' = live \union {p}
         \/ /\ ~Fault /\ live' = live \ {p}
            /\ \A u \in Callers : p \notin {op[u].first, op[u].second}
  PROVE  PacketIInv' /\ Shows
<1>1. CASE Fault /\ Dangling(packet[p])
  <2>1. p \in live
    BY <1>1
  <2>2. Fitting' /\ InHand'
    BY <1>1 DEF PacketIInv, Fault, Fitting, InHand
  <2>3. FaultsAreKnown'
    BY <1>1, <2>1 DEF Fault, FaultsAreKnown
  <2> QED
    BY <1>1, <2>2, <2>3 DEF PacketIInv, Shows, Fault
<1>2. CASE Fitting' /\ fault' = fault /\ Shown(p)
  <2>1. FaultsAreKnown'
    BY <1>2 DEF FaultsAreKnown
  <2>2. InHand'
    BY DEF PacketIInv, InHand
  <2> QED
    BY <1>2, <2>1, <2>2 DEF PacketIInv, Shows
<1> QED
  BY <1>1, <1>2 DEF Serves

\* The second half of a command on two packets.
LEMMA EndsKeeps ==
  ASSUME PacketIInv, NEW t \in Callers, ~fault, op[t].what # Nothing, Ends(t)
  PROVE  PacketIInv' /\ Shows
<1>1. op[t].first \in live /\ op[t].second \in Packets /\ (op[t].what # "create" => op[t].second \in live)
  BY DEF PacketIInv, InHand
<1>2. CASE /\ Fault
           /\ \/ Dangling(packet[op[t].first])
              \/ op[t].what # "create" /\ Dangling(packet[op[t].second])
              \/ op[t].what = "add" /\ op[t].first = op[t].second
  <2>1. Fitting' /\ InHand'
    BY <1>2 DEF PacketIInv, Fault, Fitting, InHand
  <2>2. FaultsAreKnown'
    BY <1>1, <1>2 DEF Fault, FaultsAreKnown
  <2> QED
    BY <1>2, <2>1, <2>2 DEF PacketIInv, Shows, Fault
<1>3. CASE /\ Fitting' /\ fault' = fault /\ \E p \in Packets : Shown(p)
           /\ op' = [op EXCEPT ![t] = NoCommand]
           /\ \/ live' = live
              \/ op[t].what = "create" /\ live' = live \union {op[t].second}
  <2>1. FaultsAreKnown'
    BY <1>3 DEF FaultsAreKnown
  <2>2. InHand'
    BY <1>1, <1>3 DEF PacketIInv, InHand, NoCommand, Nothing
  <2> QED
    BY <1>3, <2>1, <2>2 DEF PacketIInv, Shows
<1> QED
  BY <1>2, <1>3 DEF Ends

\* The first half of a command on two packets.
LEMMA BeginKeeps ==
  ASSUME PacketIInv, NEW t \in Callers, NEW p \in Packets, NEW q \in Packets,
         NEW what \in {"assign", "compare", "add", "find", "create"},
         Begin(t, what, p, q), what # "create" => q \in live
  PROVE  PacketIInv' /\ Shows
<1>1. /\ p \in live /\ ~fault /\ UNCHANGED <<live, packet, last, fault>>
      /\ op' = [op EXCEPT ![t] = [what |-> what, first |-> p, second |-> q]]
  BY DEF Begin, Ready
<1>2. Fitting'
  BY <1>1 DEF PacketIInv, Fitting
<1>3. InHand'
  BY <1>1 DEF PacketIInv, InHand, Nothing
<1>4. FaultsAreKnown'
  BY <1>1 DEF FaultsAreKnown
<1> QED
  BY <1>1, <1>2, <1>3, <1>4 DEF PacketIInv, Shows

\* Commands on two packets.
LEMMA PairsKeep ==
  ASSUME PacketIInv, NEW t \in Callers, Pairs(t)
  PROVE  PacketIInv' /\ Shows
<1>1. CASE \E p, q \in Packets : BeginAssign(t, p, q) \/ BeginCompare(t, p, q) \/ BeginAdd(t, p, q)
                                 \/ BeginFind(t, p, q) \/ BeginCreate(t, p, q)
  <2>1. PICK p \in Packets, q \in Packets, what \in {"assign", "compare", "add", "find", "create"} :
          Begin(t, what, p, q) /\ (what # "create" => q \in live)
    BY <1>1 DEF BeginAssign, BeginCompare, BeginAdd, BeginFind, BeginCreate
  <2> QED
    BY <2>1, BeginKeeps
<1>2. CASE EndAssign(t) \/ EndCompare(t) \/ EndAdd(t) \/ EndFind(t) \/ EndCreate(t)
  <2>1. ~fault /\ op[t].what # Nothing
    BY <1>2 DEF EndAssign, EndCompare, EndAdd, EndFind, EndCreate, Second, Nothing
  <2>2. Fitting /\ op[t].first \in Packets /\ op[t].second \in Packets
    BY <2>1 DEF PacketIInv, InHand
  <2>3. Ends(t)
    BY <1>2, <2>2, AssignEnds, CompareEnds, AddEnds, FindEnds, CreateEnds
  <2> QED
    BY <2>1, <2>3, EndsKeeps
<1> QED
  BY <1>1, <1>2 DEF Pairs

\* Every command keeps the blocks, and shows in the texts.
LEMMA PacketNextIInv ==
  ASSUME PacketIInv, PacketNext
  PROVE  PacketIInv' /\ Shows
<1>1. PICK t \in Callers : \/ \E p \in Packets : Adds(t, p) \/ Gets(t, p) \/ Sizes(t, p) \/ Wholes(t, p)
                           \/ Pairs(t)
  BY DEF PacketNext
<1>2. CASE \E p \in Packets : Adds(t, p) \/ Gets(t, p) \/ Sizes(t, p) \/ Wholes(t, p)
  <2>1. PICK p \in Packets : Adds(t, p) \/ Gets(t, p) \/ Sizes(t, p) \/ Wholes(t, p)
    BY <1>2
  <2>2. Fitting
    BY DEF PacketIInv
  <2>3. CASE Ready(t, p) /\ Works(p)
    BY <2>3, ServesKeeps DEF Ready, Works
  <2>4. CASE /\ ~fault /\ fault' = fault /\ Serves(p) /\ op' = op
             /\ \/ live' = live \union {p}
                \/ /\ live' = live \ {p}
                   /\ \A u \in Callers : p \notin {op[u].first, op[u].second}
    BY <2>4, ServesKeeps DEF Fault
  <2> QED
    BY <2>1, <2>2, <2>3, <2>4, AddsWork, GetsWork, SizesWork, WholesServe
<1>3. CASE Pairs(t)
  BY <1>3, PairsKeep
<1> QED
  BY <1>1, <1>2, <1>3

\* The blocks of all packets stay as described.
THEOREM PacketInductive == PacketSpec => []PacketIInv
<1>1. PacketIInv /\ [PacketNext]_packetVars => PacketIInv'
  <2> SUFFICES ASSUME PacketIInv, [PacketNext]_packetVars
               PROVE  PacketIInv'
    OBVIOUS
  <2>1. CASE UNCHANGED packetVars
    BY <2>1 DEF packetVars, PacketIInv, Fitting, InHand, FaultsAreKnown
  <2> QED
    BY <2>1, PacketNextIInv
<1> QED
  BY <1>1, PacketInitIInv, PTL DEF PacketSpec

\* No command reads or writes outside the block of its packet, whatever the sizes, unless
\* the block was given away or the packet is added to itself.
THEOREM OutsideOnlyKnown == PacketSpec => []FaultsAreKnown
<1>1. PacketIInv => FaultsAreKnown
  BY DEF PacketIInv
<1> QED
  BY <1>1, PacketInductive, PTL

\* What shows is a step of the texts.
LEMMA ShowsText ==
  ASSUME Fitting, Shows
  PROVE  [Text!Next]_Text!vars
<1>1. CASE UNCHANGED <<packet, last>>
  BY <1>1 DEF Text!vars
<1>2. CASE \E p \in Packets : Shown(p)
  <2>1. PICK p \in Packets : Shown(p)
    BY <1>2
  <2>2. last' \in [what : Text!Commands, packet : {p}, other : Packets \union {Text!Nothing},
                   bytes : Text!Bytes(p) \union [{1} -> 0..MaxSize[p]]]
    BY <2>1 DEF Shown, Nothing, Text!Nothing
  <2>3. CASE Text!Assign(p) \/ Text!String(p) \/ Text!Load(p) \/ Text!Empty(p)
    <3>1. Text!Next
      BY <2>2, <2>3, Zenon DEF Text!Next
    <3> QED
      BY <3>1
  <2>4. CASE ~Dangling(packet[p]) /\ Text!Kept(p)
    <3>1. [q \in Packets |-> IF Dangling(packet[q]) THEN Lost ELSE Data(packet[q])][p] # Lost
      BY <2>4, TextOfPacket
    <3>2. Text!Next
      BY <2>2, <2>4, <3>1, Zenon DEF Text!Next
    <3> QED
      BY <3>2
  <2>5. CASE Dangling(packet[p]) /\ Text!WhileLost(p)
    <3>1. [q \in Packets |-> IF Dangling(packet[q]) THEN Lost ELSE Data(packet[q])][p] = Lost
      BY <2>5
    <3>2. Text!Next
      BY <2>2, <2>5, <3>1, Zenon DEF Text!Next
    <3> QED
      BY <3>2
  <2> QED
    BY <2>1, <2>3, <2>4, <2>5 DEF Shown
<1> QED
  BY <1>1, <1>2 DEF Shows

\* Packets are texts with a cursor (Packet.h:13-45), whatever the sizes, the numbers, the
\* packets and the threads: no command tells how much memory there is.
THEOREM PacketsAreTexts == PacketSpec => ImplementsText
<1>1. PacketInit => Text!Init
  <2> SUFFICES ASSUME PacketInit
               PROVE  Text!Init
    OBVIOUS
  <2>1. \A p \in Packets : packet[p] = New
    BY DEF PacketInit
  <2>2. ~Dangling(New) /\ New.cursor = 0
    BY NewFacts
  <2>3. Data(New) = <<>>
    <3>1. Fits(New, 0) /\ New.used = 0
      BY NewFacts
    <3>2. Data(New) \in Seq(Bytes) /\ Len(Data(New)) = 0
      BY <2>2, <3>1, WholeFacts
    <3> QED
      BY <3>2, EmptySeq
  <2> QED
    BY <2>1, <2>2, <2>3 DEF PacketInit, Text!Init, Text!Nothing, Nothing
<1>2. PacketIInv /\ [PacketNext]_packetVars => [Text!Next]_Text!vars
  <2> SUFFICES ASSUME PacketIInv, [PacketNext]_packetVars
               PROVE  [Text!Next]_Text!vars
    OBVIOUS
  <2>1. Fitting
    BY DEF PacketIInv
  <2>2. CASE UNCHANGED packetVars
    <3>1. Shows
      BY <2>2 DEF packetVars, Shows
    <3> QED
      BY <2>1, <3>1, ShowsText
  <2>3. CASE PacketNext
    BY <2>1, <2>3, PacketNextIInv, ShowsText
  <2> QED
    BY <2>2, <2>3
<1> QED
  BY <1>1, <1>2, PacketInductive, PTL DEF PacketSpec, ImplementsText, Text!Spec
===============================================================================
