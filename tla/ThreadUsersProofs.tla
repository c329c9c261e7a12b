-------------------------- MODULE ThreadUsersProofs ---------------------------
(***************************************************************************)
(* Unless a setup ran beside a cleanup, the usage count of shared threads  *)
(* counts the objects that use them, and the threads run as long as there  *)
(* is one: for any number of objects, threads of the program, slots and    *)
(* buffers.                                                                *)
(*                                                                         *)
(* The count is read in one section and written in another, by calls that  *)
(* are at many places at once, so the invariant says who holds which       *)
(* section at which place (Locked), that an object is in one call at a     *)
(* time (OneCallEach) and uses threads from the end of its setup to the    *)
(* end of its cleanup (UsingKnown), and what a call inside a section knows *)
(* of the count (CountKnown).  That the calls of sound fit in needs what   *)
(* slots and the main thread say of an instance (InstancesUse, MainWorks,  *)
(* SlotsKnown).                                                            *)
(*                                                                         *)
(* From that invariant a second one follows, FInv: as long as nothing      *)
(* happened that excuses it, nothing was deleted twice or used after it    *)
(* was deleted.  It says that an object's items are in the queues its      *)
(* lastMessage says (LastKnown), that bufferInUseCount counts the buffers  *)
(* the device and the callback thread have (BuffersCounted), and what each *)
(* place of a call has waited for (CallsFit).                              *)
(*                                                                         *)
(* A third one, OrderInv, says that what each chunk of a packet has seen,  *)
(* what the queues still hold for it and what a call has yet to post are   *)
(* together the operations asked of the packet, in that order (Following); *)
(* it needs to know which call owes what (CallsAsked), that what is in a   *)
(* queue was noted by its object (QueuesKnown), and that the size of a     *)
(* packet is the same for all its items (SizesKnown).                      *)
(***************************************************************************)
EXTENDS ThreadUsers, FiniteSetTheorems, SequenceTheorems, TLAPS

-----------------------------------------------------------------------------
(***************************************************************************)
(* The inductive invariant.                                                *)
(***************************************************************************)
\* Places of a call on the threads of a class, and others in which its object does not
\* use threads yet, or uses them.
SetupPlaces   == {"create", "count"}
CleanupPlaces == {"release", "clear", "leave"}
SharedPlaces  == {"setup", "create", "count", "ready", "cleanup", "release", "clear", "leave", "free"}
SoundPlaces   == {"install", "destroy", "reset", "waitBuffers"}
PausePlaces   == {"destroy", "reset", "waitBuffers"}
Places == SharedPlaces \cup SoundPlaces \cup {"idle", "wait", "finish"}
NotYetUsing == {"setup", "create", "count"}
StillUsing  == SoundPlaces \cup CleanupPlaces \cup {"ready", "wait", "cleanup"}

Calls   == [at : Places, obj : Objects \cup {None}, n : Int, block : BOOLEAN]
Targets == [id : Slots \cup {None}, kind : Kinds \cup {None}, new : Instances \cup {None}, all : BOOLEAN]
Ages    == {"absent", "unused", "live", "closing", "deleted"}

TypeOK ==
  /\ usage \in [Classes -> Int] /\ pool \in [Classes -> BOOLEAN]
  /\ using \in [Objects -> BOOLEAN] /\ overlapped \in BOOLEAN
  /\ threadsLock \in Callers \cup {None} /\ classLock \in [Classes -> Callers \cup {None}]
  /\ call \in [Callers -> Calls]
  /\ instance \in [Instances -> Ages]
  /\ slot \in [Kinds -> [Slots -> Instances \cup {None}]]
  /\ target \in Targets

\* An object is in one call at a time, a sound instance in one of Main.
PlaceFits(k, r) ==
  /\ r.at \in {"idle", "finish"} <=> r.obj = None
  /\ r.at = "finish" => k = Main
  /\ r.obj \in Instances => k = Main /\ r.at # "wait"
  /\ r.obj \in Packets => r.at \in SharedPlaces \cup {"wait"}

OneCallEach ==
  /\ \A k \in Callers : PlaceFits(k, call[k])
  /\ \A k, j \in Callers : (k # j /\ call[k].obj # None) => call[k].obj # call[j].obj

\* Both sections are held at the places inside of them.
Locked ==
  \A k \in Callers :
    /\ threadsLock = k <=> call[k].at \in SetupPlaces
    /\ \A c \in Classes : classLock[c] = k <=> call[k].at \in CleanupPlaces /\ Class(k) = c

\* An object uses threads from its setup to its cleanup.
UsingFits(r) ==
  /\ r.at \in NotYetUsing \cup {"free"} => ~using[r.obj]
  /\ r.at \in StillUsing => using[r.obj]

UsingKnown == \A k \in Callers : UsingFits(call[k])

\* A sound instance uses threads from its constructor to its destructor.
InstancesUse ==
  \A o \in Instances :
    /\ instance[o] \in {"absent", "unused", "deleted"} => ~using[o] /\ call[Main].obj # o
    /\ instance[o] = "live" => using[o] \/ (call[Main].obj = o /\ call[Main].at \in NotYetUsing)
    /\ instance[o] = "closing" => call[Main].obj = o

\* What is destroyed is closing, and what is being constructed is live.
MainWorks ==
  LET o == call[Main].obj
      place == call[Main].at
  IN  o \in Instances =>
        /\ place \in NotYetUsing \cup {"ready", "install"} <=> instance[o] = "live" /\ target.new = o
        /\ place \in CleanupPlaces \cup {"cleanup", "free"} => instance[o] = "closing"
        /\ o \in Outputs /\ place \in PausePlaces => instance[o] = "closing"

\* A slot holds a live instance, or the one being destroyed for it; no two slots hold
\* the same one, and none holds the new one.
SlotsKnown ==
  /\ \A d \in Kinds, id \in Slots :
       slot[d][id] # None =>
         \/ instance[slot[d][id]] = "live"
         \/ instance[slot[d][id]] = "closing" /\ target.kind = d /\ target.id = id
  /\ \A d, e \in Kinds, id, jd \in Slots :
       (slot[d][id] # None /\ slot[d][id] = slot[e][jd]) => d = e /\ id = jd
  /\ \A d \in Kinds, id \in Slots : target.new # None => slot[d][id] # target.new
  /\ target.new # None => instance[target.new] = "live" /\ target.kind # None
  /\ target.kind # None <=> target.id # None
  /\ \/ call[Main].at = "idle"
     \/ call[Main].obj \in Packets
     \/ call[Main].at \in PausePlaces /\ instance[call[Main].obj] # "closing"
     => target = NoTarget
  /\ call[Main].at = "finish" => target.new = None /\ target.kind = None

\* What calls inside the sections know of the count, unless a setup overlapped a
\* cleanup.
CountKnown ==
  /\ \A k \in Callers :
       /\ call[k].at \in SetupPlaces \cup {"release"} => call[k].n = usage[Class(k)]
       /\ call[k].at = "create" => call[k].n = 0
       /\ call[k].at \in {"count", "release"} => call[k].n > 0
       /\ call[k].at = "clear" => Users(Class(k)) = {}
  /\ \A c \in Classes : ~(SettingUp(c) /\ CleaningUp(c))
  /\ \A c \in Classes :
       /\ usage[c] = Cardinality(Users(c))
       /\ Users(c) # {} => pool[c]

CountInv == overlapped \/ CountKnown

IInv ==
  /\ TypeOK /\ OneCallEach /\ Locked /\ UsingKnown
  /\ InstancesUse /\ MainWorks /\ SlotsKnown
  /\ CountInv

-----------------------------------------------------------------------------
(***************************************************************************)
(* Lemmas.                                                                 *)
(***************************************************************************)
\* Objects are packets or sound instances, and NULL is neither.
LEMMA ObjectFacts ==
  /\ None \notin Callers /\ None \notin Objects /\ None \notin Packets /\ None \notin Instances
  /\ \A o \in Objects : ClassOf[o] \in Classes
  /\ \A o \in Packets : o \in Objects /\ ClassOf[o] = "packet" /\ o \notin Instances
  /\ \A o \in Instances : o \in Objects /\ ClassOf[o] = "sound" /\ o \notin Packets
  /\ \A o \in Objects : o \in Packets \/ o \in Instances
  /\ Inputs \subseteq Instances /\ Outputs \subseteq Instances
  /\ \A o \in Inputs : o \notin Outputs
  /\ Main \in Callers
BY SharedThreadsAssumption, EncryptionAssumption, SoundAssumption DEF Classes, Instances

\* What the types say of a call.
LEMMA CallFacts ==
  ASSUME TypeOK, NEW k \in Callers
  PROVE  /\ call[k] \in Calls /\ call[k].at \in Places /\ call[k].obj \in Objects \cup {None}
         /\ call[k].n \in Int /\ call[k].block \in BOOLEAN
         /\ call \in [Callers -> Calls]
BY DEF TypeOK, Calls

\* A call between the sections names an object.
LEMMA CallHasObject ==
  ASSUME TypeOK, OneCallEach, NEW k \in Callers, call[k].at \notin {"idle", "finish"}
  PROVE  call[k].obj \in Objects /\ Class(k) \in Classes
BY CallFacts, ObjectFacts DEF OneCallEach, PlaceFits, Class

\* The users of a class are finitely many.
LEMMA UsersFinite ==
  ASSUME NEW c
  PROVE  IsFiniteSet(Users(c))
<1>1. Users(c) \subseteq Objects
  BY DEF Users
<1> QED
  BY <1>1, FS_Subset, SharedThreadsAssumption

\* A call that goes from a place outside the sections to another changes nothing for
\* those inside.
LEMMA OutsideKeeps ==
  ASSUME TypeOK, Locked, CountInv, NEW k \in Callers, NEW r \in Calls,
         call' = [call EXCEPT ![k] = r],
         call[k].at \notin SetupPlaces \cup CleanupPlaces, r.at \notin SetupPlaces \cup CleanupPlaces,
         UNCHANGED <<usage, pool, using, lockVars, overlapped>>
  PROVE  Locked' /\ CountInv'
<1>1. call'[k] = r /\ \A j \in Callers : j # k => call'[j] = call[j]
  BY CallFacts
<1>2. UNCHANGED <<usage, pool, using, threadsLock, classLock, overlapped>>
  BY DEF lockVars
<1>3. \A j \in Callers : call'[j].at \in SetupPlaces \cup CleanupPlaces =>
        j # k /\ call'[j] = call[j]
  BY <1>1
<1>4. \A j \in Callers : call[j].at \in SetupPlaces \cup CleanupPlaces =>
        j # k /\ call'[j] = call[j]
  BY <1>1
<1>5. Locked'
  <2>1. ASSUME NEW j \in Callers, j # k
        PROVE  /\ threadsLock' = j <=> call'[j].at \in SetupPlaces
               /\ \A c \in Classes : classLock'[c] = j <=> call'[j].at \in CleanupPlaces /\ Class(j)' = c
    BY <1>1, <1>2, <2>1 DEF Locked, Class
  <2>2. /\ threadsLock' = k <=> call'[k].at \in SetupPlaces
        /\ \A c \in Classes : classLock'[c] = k <=> call'[k].at \in CleanupPlaces /\ Class(k)' = c
    BY <1>1, <1>2 DEF Locked, Class
  <2> QED
    BY <2>1, <2>2 DEF Locked
<1>6. CASE overlapped
  BY <1>2, <1>5, <1>6 DEF CountInv
<1>7. CASE ~overlapped
  <2>1. CountKnown
    BY <1>7 DEF CountInv
  <2>2. \A c : Users(c)' = Users(c)
    <3> SUFFICES ASSUME NEW c, NEW o \in Objects
                 PROVE  (\E j \in Callers : call'[j].obj = o /\ call'[j].at \in {"clear", "leave"}) <=>
                        (\E j \in Callers : call[j].obj = o /\ call[j].at \in {"clear", "leave"})
      BY <1>2 DEF Users
    <3> QED
      BY <1>3, <1>4 DEF CleanupPlaces
  <2>3. \A c \in Classes : SettingUp(c)' => SettingUp(c)
    BY <1>3 DEF SettingUp, Class, SetupPlaces
  <2>4. \A c \in Classes : CleaningUp(c)' => CleaningUp(c)
    BY <1>3 DEF CleaningUp, Class, CleanupPlaces
  <2>5. \A c \in Classes : ~(SettingUp(c)' /\ CleaningUp(c)')
    BY <2>1, <2>3, <2>4 DEF CountKnown
  <2>6. \A c \in Classes : /\ usage'[c] = Cardinality(Users(c)')
                           /\ Users(c)' # {} => pool'[c]
    BY <1>2, <2>1, <2>2 DEF CountKnown
  <2>7. ASSUME NEW j \in Callers
        PROVE  /\ call'[j].at \in SetupPlaces \cup {"release"} => call'[j].n = usage'[Class(j)']
               /\ call'[j].at = "create" => call'[j].n = 0
               /\ call'[j].at \in {"count", "release"} => call'[j].n > 0
               /\ call'[j].at = "clear" => Users(Class(j))' = {}
    <3>1. CASE call'[j].at \notin SetupPlaces \cup CleanupPlaces
      BY <3>1 DEF SetupPlaces, CleanupPlaces
    <3>2. CASE call'[j].at \in SetupPlaces \cup CleanupPlaces
      <4>1. call'[j] = call[j] /\ Class(j)' = Class(j)
        BY <1>3, <3>2 DEF Class
      <4> QED
        BY <1>2, <2>1, <2>2, <4>1 DEF CountKnown
    <3> QED
      BY <3>1, <3>2
  <2> QED
    BY <1>5, <2>5, <2>6, <2>7 DEF CountInv, CountKnown
<1> QED
  BY <1>6, <1>7

\* Such a step keeps all that is said of calls, if it does so of the one it changes.
LEMMA MoveKeeps ==
  ASSUME IInv, NEW k \in Callers, NEW r \in Calls,
         call' = [call EXCEPT ![k] = r],
         call[k].at \notin SetupPlaces \cup CleanupPlaces, r.at \notin SetupPlaces \cup CleanupPlaces,
         UNCHANGED <<usage, pool, using, lockVars, overlapped>>,
         PlaceFits(k, r), UsingFits(r),
         r.obj # None => \A j \in Callers : j # k => call[j].obj # r.obj
  PROVE  /\ call' \in [Callers -> Calls] /\ call'[k] = r
         /\ \A j \in Callers : j # k => call'[j] = call[j]
         /\ OneCallEach' /\ Locked' /\ UsingKnown' /\ CountInv'
<1>1. /\ call' \in [Callers -> Calls] /\ call'[k] = r
      /\ \A j \in Callers : j # k => call'[j] = call[j]
  BY CallFacts DEF IInv
<1>2. Locked' /\ CountInv'
  BY OutsideKeeps DEF IInv
<1>3. OneCallEach'
  <2>1. \A j \in Callers : PlaceFits(j, call'[j])
    BY <1>1 DEF IInv, OneCallEach
  <2>2. \A i, j \in Callers : (i # j /\ call'[i].obj # None) => call'[i].obj # call'[j].obj
    BY <1>1 DEF IInv, OneCallEach
  <2> QED
    BY <2>1, <2>2 DEF OneCallEach, PlaceFits
<1>4. UsingKnown'
  <2>1. \A j \in Callers : UsingFits(call'[j])
    BY <1>1 DEF IInv, UsingKnown
  <2> QED
    BY <2>1 DEF UsingKnown, UsingFits
<1> QED
  BY <1>1, <1>2, <1>3, <1>4

\* A step of a call inside a setup or a cleanup, which may change whether its object
\* uses threads: what it keeps, and whom the class counts after it.
LEMMA SharedStep ==
  ASSUME IInv, NEW k \in Callers, NEW r \in Calls, NEW u \in BOOLEAN,
         call' = [call EXCEPT ![k] = r], r.obj = call[k].obj,
         call[k].at \in SharedPlaces, r.at \in SharedPlaces,
         using' = [using EXCEPT ![call[k].obj] = u],
         r.at \in NotYetUsing \cup {"free"} => ~u, r.at \in StillUsing => u,
         call[k].at \in NotYetUsing \cup {"ready"} <=> r.at \in NotYetUsing \cup {"ready"},
         UNCHANGED <<instance, slot, target>>
  PROVE  /\ call' \in [Callers -> Calls] /\ using' \in [Objects -> BOOLEAN]
         /\ call'[k] = r /\ \A j \in Callers : j # k => call'[j] = call[j]
         /\ OneCallEach' /\ UsingKnown' /\ InstancesUse' /\ MainWorks' /\ SlotsKnown'
         /\ \A c : \A o \in Objects : o # call[k].obj => (o \in Users(c)' <=> o \in Users(c))
         /\ \A c : call[k].obj \in Users(c) <=>
              c = Class(k) /\ using[call[k].obj] /\ call[k].at \notin {"clear", "leave"}
         /\ \A c : call[k].obj \in Users(c)' <=> c = Class(k) /\ u /\ r.at \notin {"clear", "leave"}
<1> DEFINE o == call[k].obj
<1>1. /\ call' \in [Callers -> Calls] /\ call'[k] = r
      /\ \A j \in Callers : j # k => call'[j] = call[j]
  BY CallFacts DEF IInv
<1>2. o \in Objects /\ o # None /\ Class(k) = ClassOf[o] /\ Class(k) \in Classes
  <2>1. call[k].at \notin {"idle", "finish"}
    BY DEF SharedPlaces
  <2> QED
    BY <2>1, CallHasObject, ObjectFacts DEF IInv, Class
<1>3. /\ using \in [Objects -> BOOLEAN] /\ using' \in [Objects -> BOOLEAN] /\ using'[o] = u
      /\ \A x \in Objects : x # o => using'[x] = using[x]
  BY <1>2 DEF IInv, TypeOK
<1>4. \A j \in Callers : j # k => call[j].obj # o
  BY <1>2 DEF IInv, OneCallEach
<1>5. OneCallEach'
  <2>1. PlaceFits(k, r)
    <3>1. PlaceFits(k, call[k])
      BY DEF IInv, OneCallEach
    <3> QED
      BY <1>2, <3>1 DEF PlaceFits, SharedPlaces
  <2>2. \A j \in Callers : PlaceFits(j, call'[j])
    BY <1>1, <2>1 DEF IInv, OneCallEach
  <2>3. \A i, j \in Callers : (i # j /\ call'[i].obj # None) => call'[i].obj # call'[j].obj
    BY <1>1 DEF IInv, OneCallEach
  <2> QED
    BY <2>2, <2>3 DEF OneCallEach, PlaceFits
<1>6. UsingKnown'
  <2>1. ASSUME NEW j \in Callers, j # k
        PROVE  /\ call'[j].at \in NotYetUsing \cup {"free"} => ~using'[call'[j].obj]
               /\ call'[j].at \in StillUsing => using'[call'[j].obj]
    <3>1. call'[j] = call[j] /\ call[j].obj # o
      BY <1>1, <1>4, <2>1
    <3>2. CASE call[j].at \in {"idle", "finish"}
      BY <3>1, <3>2 DEF NotYetUsing, StillUsing, SoundPlaces, CleanupPlaces
    <3>3. CASE call[j].at \notin {"idle", "finish"}
      <4>1. call[j].obj \in Objects /\ UsingFits(call[j])
        BY <3>3, CallHasObject DEF IInv, UsingKnown
      <4> QED
        BY <1>3, <3>1, <4>1 DEF UsingFits
    <3> QED
      BY <3>2, <3>3
  <2>2. /\ call'[k].at \in NotYetUsing \cup {"free"} => ~using'[call'[k].obj]
        /\ call'[k].at \in StillUsing => using'[call'[k].obj]
    BY <1>1, <1>3
  <2> QED
    BY <2>1, <2>2 DEF UsingKnown, UsingFits
<1>7. o \in Instances => k = Main
  BY DEF IInv, OneCallEach, PlaceFits
<1>8. call'[Main].obj = call[Main].obj
  BY <1>1, ObjectFacts
<1>9. MainWorks'
  <2>1. CASE k = Main
    <3>1. /\ call'[Main] = r /\ r.obj = call[Main].obj
          /\ r.at \in NotYetUsing \cup {"ready", "install"} <=>
               call[Main].at \in NotYetUsing \cup {"ready", "install"}
          /\ r.at \in CleanupPlaces \cup {"cleanup", "free"} =>
               call[Main].at \in CleanupPlaces \cup {"cleanup", "free"}
          /\ r.at \notin PausePlaces
      BY <1>1, <2>1 DEF SharedPlaces, PausePlaces, NotYetUsing, CleanupPlaces
    <3> QED
      BY <3>1 DEF IInv, MainWorks
  <2>2. CASE k # Main
    BY <1>1, <2>2, ObjectFacts DEF IInv, MainWorks
  <2> QED
    BY <2>1, <2>2
<1>10. InstancesUse'
  <2> SUFFICES ASSUME NEW x \in Instances
               PROVE  /\ instance[x] \in {"absent", "unused", "deleted"} =>
                           ~using'[x] /\ call[Main].obj # x
                      /\ instance[x] = "live" =>
                           using'[x] \/ (call[Main].obj = x /\ call'[Main].at \in NotYetUsing)
                      /\ instance[x] = "closing" => call[Main].obj = x
    BY <1>8 DEF InstancesUse
  <2>1. CASE x # o
    <3>1. using'[x] = using[x]
      BY <1>3, <2>1, ObjectFacts
    <3>2. call[Main].obj = x => call'[Main] = call[Main]
      BY <1>1, <2>1, ObjectFacts
    <3> QED
      BY <3>1, <3>2 DEF IInv, InstancesUse
  <2>2. CASE x = o
    <3>1. k = Main /\ call'[Main] = r /\ call[Main].obj = x
      BY <1>1, <1>7, <2>2
    <3>2. instance[x] \notin {"absent", "unused", "deleted"}
      BY <3>1 DEF IInv, InstancesUse
    <3>3. instance[x] = "live" => r.at \in NotYetUsing \cup {"ready"}
      BY <2>2, <3>1 DEF IInv, MainWorks, SharedPlaces, NotYetUsing, CleanupPlaces
    <3>4. instance[x] = "live" => r.at \in NotYetUsing \/ u
      BY <3>3 DEF StillUsing
    <3> QED
      BY <1>3, <2>2, <3>1, <3>2, <3>4
  <2> QED
    BY <2>1, <2>2
<1>11. SlotsKnown'
  <2>1. call'[Main].at \in {"idle", "finish"} \cup PausePlaces => call'[Main].at = call[Main].at
    BY <1>1, ObjectFacts DEF SharedPlaces, PausePlaces
  <2> QED
    BY <1>8, <2>1 DEF IInv, SlotsKnown
<1>12. ASSUME NEW c, NEW x \in Objects, x # o
       PROVE  x \in Users(c)' <=> x \in Users(c)
  <2>1. (\E j \in Callers : call'[j].obj = x /\ call'[j].at \in {"clear", "leave"}) <=>
        (\E j \in Callers : call[j].obj = x /\ call[j].at \in {"clear", "leave"})
    BY <1>1, <1>12
  <2> QED
    BY <1>3, <1>12, <2>1 DEF Users
<1>13. \A c : o \in Users(c) <=> c = Class(k) /\ using[o] /\ call[k].at \notin {"clear", "leave"}
  BY <1>2, <1>4 DEF Users
<1>14. \A c : o \in Users(c)' <=> c = Class(k) /\ u /\ r.at \notin {"clear", "leave"}
  <2>1. \A j \in Callers : call'[j].obj = o <=> j = k
    BY <1>1, <1>4
  <2> QED
    BY <1>1, <1>2, <1>3, <2>1 DEF Users
<1> QED
  BY <1>1, <1>3, <1>5, <1>6, <1>9, <1>10, <1>11, <1>12, <1>13, <1>14

\* The call k goes to a place and knows of a count there, and the record it becomes.
Learns(k, place, m)  == call' = [call EXCEPT ![k].at = place, ![k].n = m]
Changed(k, place, m) == [at |-> place, obj |-> call[k].obj, n |-> m, block |-> call[k].block]

\* Such a step changes one call, to another call.
LEMMA CallChanged ==
  ASSUME TypeOK, NEW k \in Callers, NEW place \in Places, NEW m \in Int
  PROVE  /\ Changed(k, place, m) \in Calls
         /\ Learns(k, place, m) => call' = [call EXCEPT ![k] = Changed(k, place, m)]
         /\ Goto(k, place) => call' = [call EXCEPT ![k] = Changed(k, place, call[k].n)]
<1> DEFINE r == Changed(k, place, m)
           s == Changed(k, place, call[k].n)
<1>1. call[k] \in Calls /\ call \in [Callers -> Calls]
  BY CallFacts
<1>2. /\ [call[k] EXCEPT !.at = place] = s
      /\ [call[k] EXCEPT !.at = place, !.n = m] = r
      /\ r \in Calls
  <2>1. PICK p \in Places, o \in Objects \cup {None}, i \in Int, b \in BOOLEAN :
          call[k] = [at |-> p, obj |-> o, n |-> i, block |-> b]
    BY <1>1 DEF Calls
  <2>2. call[k].obj = o /\ call[k].n = i /\ call[k].block = b
    BY <2>1
  <2>3. [at |-> place, obj |-> o, n |-> m, block |-> b] \in Calls
    BY DEF Calls
  <2>4. [call[k] EXCEPT !.at = place] = [at |-> place, obj |-> o, n |-> i, block |-> b]
    BY <2>1
  <2>5. [[at |-> place, obj |-> o, n |-> i, block |-> b] EXCEPT !.n = m] =
        [at |-> place, obj |-> o, n |-> m, block |-> b]
    OBVIOUS
  <2>6. [call[k] EXCEPT !.at = place, !.n = m] = [[call[k] EXCEPT !.at = place] EXCEPT !.n = m]
    OBVIOUS
  <2> QED
    BY <2>2, <2>3, <2>4, <2>5, <2>6 DEF Changed
<1>3. /\ [call EXCEPT ![k].at = place] = [call EXCEPT ![k] = [call[k] EXCEPT !.at = place]]
      /\ [call EXCEPT ![k].at = place, ![k].n = m] =
           [call EXCEPT ![k] = [call[k] EXCEPT !.at = place, !.n = m]]
  BY <1>1
<1>4. /\ [call EXCEPT ![k].at = place] = [call EXCEPT ![k] = s]
      /\ [call EXCEPT ![k].at = place, ![k].n = m] = [call EXCEPT ![k] = r]
  BY <1>2, <1>3
<1> QED
  BY <1>2, <1>4 DEF Learns, Goto

\* Whoever is inside a setup or a cleanup is alone there with its class.
LEMMA Alone ==
  ASSUME IInv, ~overlapped, NEW k \in Callers, call[k].at \in SetupPlaces \cup CleanupPlaces,
         NEW j \in Callers, j # k, call[j].at \in SetupPlaces \cup CleanupPlaces
  PROVE  Class(j) # Class(k)
<1>1. CountKnown /\ Locked
  BY DEF IInv, CountInv
<1>2. Class(k) \in Classes /\ Class(j) \in Classes
  BY CallHasObject DEF IInv, SetupPlaces, CleanupPlaces
<1>3. CASE call[k].at \in SetupPlaces /\ call[j].at \in SetupPlaces
  BY <1>1, <1>3 DEF Locked
<1>4. CASE call[k].at \in CleanupPlaces /\ call[j].at \in CleanupPlaces
  BY <1>1, <1>2, <1>4 DEF Locked
<1>5. CASE call[k].at \in SetupPlaces /\ call[j].at \in CleanupPlaces
  BY <1>1, <1>2, <1>5 DEF CountKnown, SettingUp, CleaningUp, SetupPlaces, CleanupPlaces
<1>6. CASE call[k].at \in CleanupPlaces /\ call[j].at \in SetupPlaces
  BY <1>1, <1>2, <1>6 DEF CountKnown, SettingUp, CleaningUp, SetupPlaces, CleanupPlaces
<1> QED
  BY <1>3, <1>4, <1>5, <1>6

\* So what it changes of its class matters to nobody else.
LEMMA CountStep ==
  ASSUME IInv, ~overlapped, NEW k \in Callers, NEW r \in Calls,
         call[k].at \in SetupPlaces \cup CleanupPlaces,
         call'[k] = r, r.obj = call[k].obj, \A j \in Callers : j # k => call'[j] = call[j],
         r.at \in CleanupPlaces => call[k].at \in CleanupPlaces,
         r.at \notin SetupPlaces \cup {"release"},
         r.at = "clear" => Users(Class(k))' = {},
         \A c \in Classes : c # Class(k) =>
           usage'[c] = usage[c] /\ pool'[c] = pool[c] /\ Users(c)' = Users(c),
         usage'[Class(k)] = Cardinality(Users(Class(k))'),
         Users(Class(k))' # {} => pool'[Class(k)]
  PROVE  CountKnown'
<1>1. CountKnown
  BY DEF IInv, CountInv
<1>2. Class(k)' = Class(k) /\ \A j \in Callers : j # k => Class(j)' = Class(j)
  BY DEF Class
<1>3. \A j \in Callers : j # k /\ call[j].at \in SetupPlaces \cup CleanupPlaces => Class(j) # Class(k)
  BY Alone
<1>4. ASSUME NEW j \in Callers
      PROVE  /\ call'[j].at \in SetupPlaces \cup {"release"} => call'[j].n = usage'[Class(j)']
             /\ call'[j].at = "create" => call'[j].n = 0
             /\ call'[j].at \in {"count", "release"} => call'[j].n > 0
             /\ call'[j].at = "clear" => Users(Class(j))' = {}
  <2>1. CASE j = k
    BY <1>2, <2>1 DEF SetupPlaces
  <2>2. CASE j # k /\ call[j].at \notin SetupPlaces \cup CleanupPlaces
    BY <2>2 DEF SetupPlaces, CleanupPlaces
  <2>3. CASE j # k /\ call[j].at \in SetupPlaces \cup CleanupPlaces
    <3>1. Class(j) \in Classes /\ Class(j) # Class(k) /\ call'[j] = call[j] /\ Class(j)' = Class(j)
      BY <1>2, <1>3, <2>3, CallHasObject DEF IInv, SetupPlaces, CleanupPlaces
    <3>2. Users(Class(j))' = Users(Class(j)) /\ usage'[Class(j)] = usage[Class(j)]
      BY <3>1
    <3> QED
      BY <1>1, <3>1, <3>2 DEF CountKnown
  <2> QED
    BY <2>1, <2>2, <2>3
<1>5. \A c \in Classes : SettingUp(c)' => SettingUp(c)
  BY <1>2 DEF SettingUp, SetupPlaces
<1>6. \A c \in Classes : CleaningUp(c)' => CleaningUp(c)
  <2> SUFFICES ASSUME NEW c \in Classes, NEW j \in Callers, call'[j].at \in CleanupPlaces, Class(j)' = c
               PROVE  call[j].at \in CleanupPlaces /\ Class(j) = c
    BY DEF CleaningUp, CleanupPlaces
  <2> QED
    BY <1>2
<1>7. \A c \in Classes : ~(SettingUp(c)' /\ CleaningUp(c)')
  BY <1>1, <1>5, <1>6 DEF CountKnown
<1>8. \A c \in Classes : /\ usage'[c] = Cardinality(Users(c)')
                         /\ Users(c)' # {} => pool'[c]
  <2> SUFFICES ASSUME NEW c \in Classes
               PROVE  usage'[c] = Cardinality(Users(c)') /\ (Users(c)' # {} => pool'[c])
    OBVIOUS
  <2>1. CASE c = Class(k)
    BY <1>2, <2>1
  <2>2. CASE c # Class(k)
    BY <1>1, <2>2 DEF CountKnown
  <2> QED
    BY <2>1, <2>2
<1> QED
  BY <1>4, <1>7, <1>8 DEF CountKnown

-----------------------------------------------------------------------------
(***************************************************************************)
(* The steps of setups and cleanups.                                       *)
(***************************************************************************)
\* The object of such a call, and what it says of using threads.
LEMMA CallUses ==
  ASSUME IInv, NEW k \in Callers, call[k].at \in SharedPlaces
  PROVE  /\ call[k].obj \in Objects /\ Class(k) \in Classes /\ Class(k) = ClassOf[call[k].obj]
         /\ using[call[k].obj] \in BOOLEAN
         /\ using = [using EXCEPT ![call[k].obj] = using[call[k].obj]]
         /\ call[k].at \in NotYetUsing \cup {"free"} => ~using[call[k].obj]
         /\ call[k].at \in StillUsing => using[call[k].obj]
<1>1. call[k].obj \in Objects /\ Class(k) \in Classes
  BY CallHasObject DEF IInv, SharedPlaces
<1>2. UsingFits(call[k]) /\ using \in [Objects -> BOOLEAN]
  BY DEF IInv, UsingKnown, TypeOK
<1> QED
  BY <1>1, <1>2 DEF UsingFits, Class

\* The sections as single steps change them.
LEMMA LocksSet ==
  ASSUME TypeOK, NEW k \in Callers, NEW c \in Classes
  PROVE  /\ [classLock EXCEPT ![c] = k] \in [Classes -> Callers \cup {None}]
         /\ [classLock EXCEPT ![c] = None] \in [Classes -> Callers \cup {None}]
         /\ [classLock EXCEPT ![c] = k][c] = k /\ [classLock EXCEPT ![c] = None][c] = None
         /\ \A d \in Classes : d # c => /\ [classLock EXCEPT ![c] = k][d] = classLock[d]
                                        /\ [classLock EXCEPT ![c] = None][d] = classLock[d]
BY DEF TypeOK

\* A setup begins: it knows the count, and a cleanup of the class beside it is recorded.
LEMMA SetupThreadsKeeps ==
  ASSUME IInv, NEW k \in Callers, SetupThreads(k), UNCHANGED soundVars
  PROVE  IInv'
<1> DEFINE c == Class(k)
           r == [at |-> IF usage[c] = 0 THEN "create" ELSE "count", obj |-> call[k].obj,
                 n |-> usage[c], block |-> call[k].block]
<1>1. /\ call[k].at = "setup" /\ threadsLock = None /\ threadsLock' = k
      /\ UNCHANGED <<usage, pool, using, classLock, instance, slot, target>>
      /\ overlapped' = (overlapped \/ CleaningUp(c))
  BY DEF SetupThreads, At, soundVars, slotVars
<1>2. TypeOK /\ call[k].at \in SharedPlaces
  BY <1>1 DEF IInv, SharedPlaces
<1>3. c \in Classes /\ usage[c] \in Int
  BY <1>2, CallUses DEF TypeOK
<1>4. r \in Calls /\ call' = [call EXCEPT ![k] = r]
  <2>1. PICK place \in Places : place = IF usage[c] = 0 THEN "create" ELSE "count"
    BY DEF Places, SharedPlaces
  <2>2. Learns(k, place, usage[c])
    BY <2>1 DEF SetupThreads, Learns
  <2>3. r = Changed(k, place, usage[c])
    BY <2>1 DEF Changed
  <2> HIDE DEF r
  <2> QED
    BY <1>2, <1>3, <2>2, <2>3, CallChanged
<1>5. r.obj = call[k].obj /\ r.n = usage[c] /\ r.at = IF usage[c] = 0 THEN "create" ELSE "count"
  OBVIOUS
<1> HIDE DEF r
<1>6. /\ call' \in [Callers -> Calls] /\ using' \in [Objects -> BOOLEAN]
      /\ call'[k] = r /\ \A j \in Callers : j # k => call'[j] = call[j]
      /\ OneCallEach' /\ UsingKnown' /\ InstancesUse' /\ MainWorks' /\ SlotsKnown'
      /\ \A d : \A o \in Objects : o # call[k].obj => (o \in Users(d)' <=> o \in Users(d))
      /\ \A d : call[k].obj \notin Users(d) /\ call[k].obj \notin Users(d)'
  <2>1. r.at \in SharedPlaces /\ r.at \in NotYetUsing /\ r.at \notin StillUsing
    BY <1>5 DEF SharedPlaces, NotYetUsing, StillUsing, SoundPlaces, CleanupPlaces
  <2>2. call[k].at \in NotYetUsing /\ ~using[call[k].obj] /\ using' = [using EXCEPT ![call[k].obj] = FALSE]
    BY <1>1, <1>2, CallUses DEF NotYetUsing
  <2> QED
    BY <1>1, <1>2, <1>4, <1>5, <2>1, <2>2, SharedStep
<1>7. \A d : Users(d)' = Users(d)
  <2>1. \A d : Users(d) \subseteq Objects /\ Users(d)' \subseteq Objects
    BY DEF Users
  <2>2. \A d : \A o \in Objects : o \in Users(d)' <=> o \in Users(d)
    BY <1>6
  <2> QED
    BY <2>1, <2>2
<1>8. TypeOK'
  BY <1>1, <1>2, <1>6 DEF TypeOK
<1>9. Locked'
  <2>1. \A j \in Callers : call[j].at \notin SetupPlaces
    BY <1>1, ObjectFacts DEF IInv, Locked
  <2>2. \A j \in Callers : call'[j].at \in SetupPlaces <=> j = k
    BY <1>5, <1>6, <2>1 DEF SetupPlaces
  <2>3. \A j \in Callers : \A d \in Classes :
          (call'[j].at \in CleanupPlaces /\ Class(j)' = d) <=> (call[j].at \in CleanupPlaces /\ Class(j) = d)
    BY <1>1, <1>5, <1>6 DEF CleanupPlaces, Class
  <2> QED
    BY <1>1, <2>2, <2>3 DEF IInv, Locked
<1>10. ASSUME ~overlapped'
       PROVE  CountKnown'
  <2>1. CountKnown /\ ~overlapped /\ ~CleaningUp(c)
    BY <1>1, <1>10 DEF IInv, CountInv
  <2>2. Class(k)' = c /\ \A j \in Callers : j # k => Class(j)' = Class(j)
    BY <1>5, <1>6 DEF Class
  <2>3. usage[c] = 0 \/ usage[c] > 0
    BY <1>3, <2>1, UsersFinite, FS_CardinalityType DEF CountKnown
  <2>4. ASSUME NEW j \in Callers
        PROVE  /\ call'[j].at \in SetupPlaces \cup {"release"} => call'[j].n = usage'[Class(j)']
               /\ call'[j].at = "create" => call'[j].n = 0
               /\ call'[j].at \in {"count", "release"} => call'[j].n > 0
               /\ call'[j].at = "clear" => Users(Class(j))' = {}
    <3>1. CASE j = k
      BY <1>1, <1>5, <1>6, <2>2, <2>3, <3>1
    <3>2. CASE j # k
      BY <1>1, <1>6, <1>7, <2>1, <2>2, <3>2 DEF CountKnown
    <3> QED
      BY <3>1, <3>2
  <2>5. \A d \in Classes : CleaningUp(d)' => CleaningUp(d)
    BY <1>5, <1>6, <2>2 DEF CleaningUp
  <2>6. \A d \in Classes : SettingUp(d)' => SettingUp(d) \/ d = c
    BY <1>5, <1>6, <2>2 DEF SettingUp
  <2>7. \A d \in Classes : ~(SettingUp(d)' /\ CleaningUp(d)')
    BY <2>1, <2>5, <2>6 DEF CountKnown
  <2>8. \A d \in Classes : /\ usage'[d] = Cardinality(Users(d)')
                           /\ Users(d)' # {} => pool'[d]
    BY <1>1, <1>7, <2>1 DEF CountKnown
  <2> QED
    BY <2>4, <2>7, <2>8 DEF CountKnown
<1> QED
  BY <1>6, <1>8, <1>9, <1>10 DEF IInv, CountInv

\* A setup ends with its call ready.
LEMMA EndSetupCall ==
  ASSUME TypeOK, NEW k \in Callers, EndSetup(k)
  PROVE  LET r == [at |-> "ready", obj |-> call[k].obj, n |-> 0, block |-> call[k].block]
         IN  r \in Calls /\ call' = [call EXCEPT ![k] = r]
<1> DEFINE r == [at |-> "ready", obj |-> call[k].obj, n |-> 0, block |-> call[k].block]
<1>1. PICK place \in Places, zero \in Int : place = "ready" /\ zero = 0
  BY DEF Places, SharedPlaces
<1>2. Learns(k, place, zero)
  BY <1>1 DEF EndSetup, Learns
<1>3. r = Changed(k, place, zero)
  BY <1>1 DEF Changed
<1> HIDE DEF r
<1>4. r \in Calls /\ call' = [call EXCEPT ![k] = r]
  BY <1>2, <1>3, CallChanged
<1> QED
  BY <1>4 DEF r

\* A setup ends: the object is counted, and whoever knew of the count is out of the section.
LEMMA EndSetupKeeps ==
  ASSUME IInv, NEW k \in Callers, call[k].at \in {"create", "count"}, EndSetup(k),
         usage' \in [Classes -> Int], pool' \in [Classes -> BOOLEAN],
         \A d \in Classes : d # Class(k) => usage'[d] = usage[d] /\ pool'[d] = pool[d],
         ~overlapped => usage'[Class(k)] = usage[Class(k)] + 1 /\ pool'[Class(k)],
         UNCHANGED <<classLock, overlapped, instance, slot, target>>
  PROVE  IInv'
<1> DEFINE o == call[k].obj
           r == [at |-> "ready", obj |-> call[k].obj, n |-> 0, block |-> call[k].block]
<1>1. TypeOK /\ call[k].at \in SharedPlaces /\ call[k].at \in SetupPlaces /\ call[k].at \in NotYetUsing
  BY DEF IInv, SharedPlaces, SetupPlaces, NotYetUsing
<1>2. PICK c \in Classes : c = Class(k)
  BY <1>1, CallUses
<1>3. o \in Objects /\ c = ClassOf[o] /\ using[o] = FALSE
  BY <1>2, <1>1, CallUses
<1>4. r \in Calls /\ call' = [call EXCEPT ![k] = r]
  BY <1>1, EndSetupCall
<1>5. r.obj = o /\ r.at = "ready"
  OBVIOUS
<1>6. /\ call' \in [Callers -> Calls] /\ using' \in [Objects -> BOOLEAN]
      /\ call'[k] = r /\ \A j \in Callers : j # k => call'[j] = call[j]
      /\ OneCallEach' /\ UsingKnown' /\ InstancesUse' /\ MainWorks' /\ SlotsKnown'
      /\ \A d : \A x \in Objects : x # o => (x \in Users(d)' <=> x \in Users(d))
      /\ \A d : o \notin Users(d)
      /\ \A d : o \in Users(d)' <=> d = c
  <2>1. r.at \in SharedPlaces /\ r.at \notin NotYetUsing \cup {"free"} /\ r.at \notin {"clear", "leave"}
    BY <1>5 DEF SharedPlaces, NotYetUsing
  <2>2. using' = [using EXCEPT ![o] = TRUE]
    BY DEF EndSetup
  <2>3. call[k].at \in NotYetUsing \cup {"ready"} <=> r.at \in NotYetUsing \cup {"ready"}
    BY <1>1, <1>5
  <2> HIDE DEF r
  <2> QED
    BY <1>2, <1>1, <1>3, <1>4, <1>5, <2>1, <2>2, <2>3, SharedStep
<1> HIDE DEF r, o
<1>7. \A d : Users(d) \subseteq Objects /\ Users(d)' \subseteq Objects
  BY DEF Users
<1>8. /\ \A d \in Classes : d # c => Users(d)' = Users(d)
      /\ Users(c)' = Users(c) \cup {o}
  <2>1. \A d \in Classes : d # c => \A x \in Objects : x \in Users(d)' <=> x \in Users(d)
    BY <1>6
  <2>2. ASSUME NEW x \in Objects
        PROVE  x \in Users(c)' <=> x \in Users(c) \cup {o}
    <3>1. CASE x = o
      BY <1>6, <3>1
    <3>2. CASE x # o
      BY <1>6, <3>2
    <3> QED
      BY <3>1, <3>2
  <2>3. \A d \in Classes : d # c => Users(d)' = Users(d)
    BY <1>7, <2>1
  <2>4. Users(c)' = Users(c) \cup {o}
    BY <1>3, <1>7, <2>2
  <2> QED
    BY <2>3, <2>4
<1>9. threadsLock' = None
  BY DEF EndSetup
<1>10. TypeOK'
  BY <1>1, <1>6, <1>9 DEF TypeOK
<1>11. Locked'
  <2>1. \A j \in Callers : j # k => call[j].at \notin SetupPlaces
    BY <1>1 DEF IInv, Locked
  <2>2. \A j \in Callers : call'[j].at \notin SetupPlaces
    BY <1>5, <1>6, <2>1 DEF SetupPlaces
  <2>3. \A j \in Callers : \A d \in Classes :
          (call'[j].at \in CleanupPlaces /\ Class(j)' = d) <=> (call[j].at \in CleanupPlaces /\ Class(j) = d)
    BY <1>1, <1>5, <1>6 DEF CleanupPlaces, SetupPlaces, Class
  <2> QED
    BY <1>9, <2>2, <2>3, ObjectFacts DEF IInv, Locked
<1>12. ASSUME ~overlapped
       PROVE  CountKnown'
  <2>1. usage[c] = Cardinality(Users(c))
    BY <1>3, <1>12 DEF IInv, CountInv, CountKnown
  <2>2. Cardinality(Users(c)') = usage[c] + 1
    <3>1. IsFiniteSet(Users(c)) /\ o \notin Users(c)
      BY <1>6, UsersFinite
    <3>2. Cardinality(Users(c) \cup {o}) = Cardinality(Users(c)) + 1
      BY <3>1, FS_AddElement
    <3> QED
      BY <1>8, <2>1, <3>2
  <2>3. usage'[c] = Cardinality(Users(c)') /\ pool'[c]
    BY <1>2, <1>12, <2>2
  <2>4. \A d \in Classes : d # c =>
          usage'[d] = usage[d] /\ pool'[d] = pool[d] /\ Users(d)' = Users(d)
    BY <1>2, <1>8
  <2>5. r.at \notin SetupPlaces \cup {"release"} /\ r.at # "clear" /\ r.at \notin CleanupPlaces
    BY <1>5 DEF SetupPlaces, CleanupPlaces
  <2>6. Class(k)' = c
    BY <1>2, <1>5, <1>6 DEF Class, o
  <2> QED
    BY <1>2, <1>1, <1>4, <1>5, <1>6, <1>12, <2>3, <2>4, <2>5, <2>6, CountStep DEF o
<1> QED
  BY <1>6, <1>10, <1>11, <1>12 DEF IInv, CountInv

\* The first user of the threads of a class starts them.
LEMMA CreateThreadsKeeps ==
  ASSUME IInv, NEW k \in Callers, CreateThreads(k), UNCHANGED soundVars
  PROVE  IInv'
<1>1. /\ call[k].at \in {"create", "count"} /\ call[k].at = "create" /\ EndSetup(k)
      /\ UNCHANGED <<classLock, overlapped, instance, slot, target>>
      /\ pool' = [pool EXCEPT ![Class(k)] = TRUE] /\ usage' = [usage EXCEPT ![Class(k)] = 1]
  BY DEF CreateThreads, At, soundVars, slotVars, historyVars
<1>2. Class(k) \in Classes /\ pool \in [Classes -> BOOLEAN] /\ usage \in [Classes -> Int]
  BY <1>1, CallHasObject DEF IInv, TypeOK
<1>3. /\ pool' \in [Classes -> BOOLEAN] /\ pool'[Class(k)]
      /\ usage' \in [Classes -> Int] /\ usage'[Class(k)] = 1
      /\ \A d \in Classes : d # Class(k) => usage'[d] = usage[d] /\ pool'[d] = pool[d]
  BY <1>1, <1>2
<1>4. ~overlapped => usage'[Class(k)] = usage[Class(k)] + 1 /\ pool'[Class(k)]
  <2>1. ~overlapped => usage[Class(k)] = 0
    BY <1>1 DEF IInv, CountInv, CountKnown, SetupPlaces
  <2> QED
    BY <1>3, <2>1
<1> QED
  BY <1>1, <1>3, <1>4, EndSetupKeeps

\* Another user is counted.
LEMMA CountUserKeeps ==
  ASSUME IInv, NEW k \in Callers, CountUser(k), UNCHANGED soundVars
  PROVE  IInv'
<1>1. /\ call[k].at \in {"create", "count"} /\ call[k].at = "count" /\ EndSetup(k)
      /\ UNCHANGED <<pool, classLock, overlapped, instance, slot, target>>
  BY DEF CountUser, At, soundVars, slotVars, historyVars
<1>2. Class(k) \in Classes /\ pool \in [Classes -> BOOLEAN] /\ usage \in [Classes -> Int]
  BY <1>1, CallHasObject DEF IInv, TypeOK
<1>3. PICK m \in {call[k].n, usage[Class(k)]} : usage' = [usage EXCEPT ![Class(k)] = m + 1]
  BY DEF CountUser
<1>4. m \in Int
  BY <1>2, <1>3, CallFacts DEF IInv
<1>5. ASSUME ~overlapped
      PROVE  m = usage[Class(k)] /\ pool[Class(k)]
  <2>1. CountKnown
    BY <1>5 DEF IInv, CountInv
  <2>2. call[k].n = usage[Class(k)] /\ usage[Class(k)] > 0
    BY <1>1, <2>1 DEF CountKnown, SetupPlaces
  <2>3. usage[Class(k)] = Cardinality(Users(Class(k))) /\ (Users(Class(k)) # {} => pool[Class(k)])
    BY <1>2, <2>1 DEF CountKnown
  <2>4. Users(Class(k)) # {}
    BY <2>2, <2>3, FS_EmptySet
  <2> QED
    BY <1>3, <2>2, <2>3, <2>4
<1>6. /\ usage' \in [Classes -> Int] /\ usage'[Class(k)] = m + 1
      /\ \A d \in Classes : d # Class(k) => usage'[d] = usage[d]
  BY <1>2, <1>3, <1>4
<1> QED
  BY <1>1, <1>2, <1>5, <1>6, EndSetupKeeps

\* A cleanup begins: it is counted as a user, so it knows of at least one, unless a setup
\* of the class beside it is recorded.
LEMMA CleanupThreadsKeeps ==
  ASSUME IInv, NEW k \in Callers, CleanupThreads(k), UNCHANGED soundVars
  PROVE  IInv'
<1> DEFINE o == call[k].obj
<1>1. /\ call[k].at = "cleanup" /\ threadsLock = None /\ classLock[Class(k)] = None
      /\ classLock' = [classLock EXCEPT ![Class(k)] = k]
      /\ UNCHANGED <<usage, pool, using, threadsLock, instance, slot, target>>
      /\ overlapped' = (overlapped \/ SettingUp(Class(k)))
  BY DEF CleanupThreads, At, soundVars, slotVars
<1>2. TypeOK /\ call[k].at \in SharedPlaces
  BY <1>1 DEF IInv, SharedPlaces
<1>3. PICK c \in Classes : c = Class(k)
  BY <1>2, CallUses
<1>4. o \in Objects /\ using[o] = TRUE
  BY <1>1, <1>2, CallUses DEF StillUsing
<1>5. usage[c] \in Int
  BY <1>2 DEF TypeOK
<1>6. PICK place \in Places : place = IF usage[c] > 0 THEN "release" ELSE "leave"
  BY DEF Places, SharedPlaces
<1> DEFINE r == [at |-> place, obj |-> call[k].obj, n |-> usage[c], block |-> call[k].block]
<1>7. r.obj = o /\ r.n = usage[c] /\ r.at = place
  OBVIOUS
<1> HIDE DEF r
<1>8. r \in Calls /\ call' = [call EXCEPT ![k] = r]
  <2>1. Learns(k, place, usage[c])
    BY <1>3, <1>6 DEF CleanupThreads, Learns
  <2>2. r = Changed(k, place, usage[c])
    BY DEF r, Changed
  <2> QED
    BY <1>2, <1>5, <2>1, <2>2, CallChanged
<1>9. /\ call' \in [Callers -> Calls] /\ using' \in [Objects -> BOOLEAN]
      /\ call'[k] = r /\ \A j \in Callers : j # k => call'[j] = call[j]
      /\ OneCallEach' /\ UsingKnown' /\ InstancesUse' /\ MainWorks' /\ SlotsKnown'
      /\ \A d : \A x \in Objects : x # o => (x \in Users(d)' <=> x \in Users(d))
      /\ \A d : o \in Users(d) <=> d = c
      /\ \A d : o \in Users(d)' <=> d = c /\ place # "leave"
  <2>1. /\ r.at \in SharedPlaces /\ r.at \notin NotYetUsing \cup {"ready", "free", "clear"}
        /\ call[k].at \notin NotYetUsing \cup {"ready", "clear", "leave"}
    BY <1>1, <1>6, <1>7 DEF SharedPlaces, NotYetUsing
  <2>2. using' = [using EXCEPT ![o] = TRUE]
    BY <1>1, <1>2, <1>4, CallUses
  <2> QED
    BY <1>1, <1>2, <1>3, <1>4, <1>7, <1>8, <2>1, <2>2, SharedStep, ZenonT(40)
<1>10. TypeOK'
  <2>1. classLock' \in [Classes -> Callers \cup {None}]
    BY <1>1, <1>2, <1>3, LocksSet
  <2> QED
    BY <1>1, <1>2, <1>9, <2>1 DEF TypeOK
<1>11. Class(k)' = c /\ \A j \in Callers : j # k => Class(j)' = Class(j)
  BY <1>3, <1>7, <1>9 DEF Class
<1>12. Locked'
  <2>1. \A j \in Callers : call'[j].at \in SetupPlaces <=> call[j].at \in SetupPlaces
    BY <1>1, <1>6, <1>7, <1>9 DEF SetupPlaces
  <2>2. call'[k].at \in CleanupPlaces /\ Class(k)' = c /\ classLock'[c] = k
    BY <1>1, <1>2, <1>3, <1>6, <1>7, <1>9, <1>11, LocksSet DEF CleanupPlaces
  <2>3. \A d \in Classes : d # c => classLock'[d] = classLock[d]
    BY <1>1, <1>2, <1>3, LocksSet
  <2>4. ASSUME NEW j \in Callers, NEW d \in Classes
        PROVE  classLock'[d] = j <=> call'[j].at \in CleanupPlaces /\ Class(j)' = d
    <3>1. CASE j = k
      <4>1. classLock[d] # k
        BY <1>1, ObjectFacts DEF IInv, Locked, CleanupPlaces
      <4> QED
        BY <2>2, <2>3, <3>1, <4>1
    <3>2. CASE j # k
      <4>1. classLock[d] = j <=> call'[j].at \in CleanupPlaces /\ Class(j)' = d
        BY <1>9, <1>11, <3>2 DEF IInv, Locked
      <4>2. d = c => classLock[d] # j /\ classLock'[d] # j
        BY <1>1, <1>3, <2>2, <3>2, ObjectFacts
      <4> QED
        BY <2>3, <4>1, <4>2
    <3> QED
      BY <3>1, <3>2
  <2> QED
    BY <1>1, <2>1, <2>4 DEF IInv, Locked
<1>13. ASSUME ~overlapped'
       PROVE  CountKnown'
  <2>1. CountKnown /\ ~overlapped /\ ~SettingUp(c)
    BY <1>1, <1>3, <1>13 DEF IInv, CountInv
  <2>2. place = "release" /\ usage[c] > 0
    <3>1. usage[c] = Cardinality(Users(c)) /\ o \in Users(c)
      BY <1>9, <2>1 DEF CountKnown
    <3>2. Cardinality(Users(c)) # 0 /\ Cardinality(Users(c)) \in Nat
      BY <3>1, UsersFinite, FS_EmptySet, FS_CardinalityType
    <3> QED
      BY <1>6, <3>1, <3>2
  <2>3. \A d : Users(d)' = Users(d)
    <3>1. \A d : Users(d) \subseteq Objects /\ Users(d)' \subseteq Objects
      BY DEF Users
    <3>2. ASSUME NEW d, NEW x \in Objects
          PROVE  x \in Users(d)' <=> x \in Users(d)
      <4>1. CASE x = o
        BY <1>9, <2>2, <4>1
      <4>2. CASE x # o
        BY <1>9, <4>2
      <4> QED
        BY <4>1, <4>2
    <3> QED
      BY <3>1, <3>2
  <2>4. ASSUME NEW j \in Callers
        PROVE  /\ call'[j].at \in SetupPlaces \cup {"release"} => call'[j].n = usage'[Class(j)']
               /\ call'[j].at = "create" => call'[j].n = 0
               /\ call'[j].at \in {"count", "release"} => call'[j].n > 0
               /\ call'[j].at = "clear" => Users(Class(j))' = {}
    <3>1. CASE j = k
      <4>1. call'[k].at = "release" /\ call'[k].n = usage[c] /\ usage' = usage
        BY <1>1, <1>7, <1>9, <2>2
      <4> QED
        BY <1>11, <2>2, <3>1, <4>1 DEF SetupPlaces
    <3>2. CASE j # k
      <4>1. call'[j] = call[j] /\ Class(j)' = Class(j) /\ usage' = usage
        BY <1>1, <1>9, <1>11, <3>2
      <4> QED
        BY <2>1, <2>3, <4>1 DEF CountKnown
    <3> QED
      BY <3>1, <3>2
  <2>5. \A d \in Classes : SettingUp(d)' => SettingUp(d)
    BY <1>6, <1>7, <1>9, <1>11 DEF SettingUp
  <2>6. \A d \in Classes : CleaningUp(d)' => CleaningUp(d) \/ d = c
    BY <1>7, <1>9, <1>11 DEF CleaningUp
  <2>7. \A d \in Classes : ~(SettingUp(d)' /\ CleaningUp(d)')
    BY <2>1, <2>5, <2>6 DEF CountKnown
  <2>8. \A d \in Classes : /\ usage'[d] = Cardinality(Users(d)')
                           /\ Users(d)' # {} => pool'[d]
    BY <1>1, <2>1, <2>3 DEF CountKnown
  <2> QED
    BY <2>4, <2>7, <2>8 DEF CountKnown
<1> QED
  BY <1>9, <1>10, <1>12, <1>13 DEF IInv, CountInv

\* What a cleanup makes of its object, and of the count of the others.
Gives(k, place) == using' = [using EXCEPT ![call[k].obj] = (place # "free")]
LeavesCount(k, place) ==
  LET others == Users(Class(k)) \ {call[k].obj}
  IN  /\ place = "clear" => others = {}
      /\ usage'[Class(k)] = Cardinality(others)
      /\ others # {} => pool'[Class(k)]

\* A step inside a cleanup after which the object is not counted.
LEMMA InsideKeeps ==
  ASSUME IInv, NEW k \in Callers, NEW place \in {"clear", "leave", "free"}, Goto(k, place),
         call[k].at \in CleanupPlaces,
         Gives(k, place),
         usage' \in [Classes -> Int], pool' \in [Classes -> BOOLEAN],
         classLock' \in [Classes -> Callers \cup {None}],
         \A d \in Classes : d # Class(k) =>
           usage'[d] = usage[d] /\ pool'[d] = pool[d] /\ classLock'[d] = classLock[d],
         place = "free" => classLock'[Class(k)] = None,
         place # "free" => classLock'[Class(k)] = classLock[Class(k)],
         UNCHANGED <<threadsLock, overlapped, instance, slot, target>>,
         ~overlapped => LeavesCount(k, place)
  PROVE  IInv'
<1> DEFINE o == call[k].obj
           r == [at |-> place, obj |-> call[k].obj, n |-> call[k].n, block |-> call[k].block]
<1>1. TypeOK /\ call[k].at \in SharedPlaces
  BY DEF IInv, SharedPlaces, CleanupPlaces
<1>2. PICK c \in Classes : c = Class(k)
  BY <1>1, CallUses
<1>3. o \in Objects
  BY <1>1, CallUses
<1>4. r.obj = o /\ r.at = place
  OBVIOUS
<1> HIDE DEF r
<1>5. r \in Calls /\ call' = [call EXCEPT ![k] = r]
  <2>1. place \in Places /\ call[k].n \in Int
    BY <1>1, CallFacts DEF Places, SharedPlaces
  <2>2. r = Changed(k, place, call[k].n)
    BY DEF r, Changed
  <2> QED
    BY <1>1, <2>1, <2>2, CallChanged
<1>6. /\ call' \in [Callers -> Calls] /\ using' \in [Objects -> BOOLEAN]
      /\ call'[k] = r /\ \A j \in Callers : j # k => call'[j] = call[j]
      /\ OneCallEach' /\ UsingKnown' /\ InstancesUse' /\ MainWorks' /\ SlotsKnown'
      /\ \A d : \A x \in Objects : x # o => (x \in Users(d)' <=> x \in Users(d))
      /\ \A d : d # c => o \notin Users(d)
      /\ \A d : o \notin Users(d)'
  <2>1. PICK u \in BOOLEAN : u = (place # "free")
    OBVIOUS
  <2>2. /\ r.at \in SharedPlaces /\ r.at \notin NotYetUsing \cup {"ready"}
        /\ call[k].at \notin NotYetUsing \cup {"ready"}
        /\ r.at \in NotYetUsing \cup {"free"} => ~u
        /\ r.at \in StillUsing => u
        /\ u => r.at \in {"clear", "leave"}
    BY <1>4, <2>1 DEF SharedPlaces, NotYetUsing, CleanupPlaces, StillUsing, SoundPlaces
  <2>3. using' = [using EXCEPT ![o] = u]
    BY <2>1 DEF Gives
  <2> QED
    BY <1>1, <1>2, <1>4, <1>5, <2>2, <2>3, SharedStep, ZenonT(40)
<1>7. Class(k)' = c /\ \A j \in Callers : j # k => Class(j)' = Class(j)
  BY <1>2, <1>4, <1>6 DEF Class
<1>8. TypeOK'
  BY <1>1, <1>6 DEF TypeOK
<1>9. Locked'
  <2>1. call[k].at \notin SetupPlaces /\ \A d \in Classes : classLock[d] = k <=> d = c
    BY <1>2 DEF IInv, Locked, CleanupPlaces, SetupPlaces
  <2>2. \A j \in Callers : call'[j].at \in SetupPlaces <=> call[j].at \in SetupPlaces
    BY <1>4, <1>6, <2>1 DEF SetupPlaces
  <2>3. ASSUME NEW j \in Callers, NEW d \in Classes
        PROVE  classLock'[d] = j <=> call'[j].at \in CleanupPlaces /\ Class(j)' = d
    <3>1. CASE j = k
      <4>1. CASE place = "free"
        BY <1>2, <1>4, <1>6, <2>1, <3>1, <4>1, ObjectFacts DEF CleanupPlaces
      <4>2. CASE place # "free"
        BY <1>2, <1>4, <1>6, <1>7, <2>1, <3>1, <4>2 DEF CleanupPlaces
      <4> QED
        BY <4>1, <4>2
    <3>2. CASE j # k
      <4>1. classLock[d] = j <=> call'[j].at \in CleanupPlaces /\ Class(j)' = d
        BY <1>6, <1>7, <3>2 DEF IInv, Locked
      <4>2. d = c => classLock[d] # j /\ classLock'[d] # j
        BY <1>2, <2>1, <3>2, ObjectFacts
      <4> QED
        BY <1>2, <4>1, <4>2
    <3> QED
      BY <3>1, <3>2
  <2> QED
    BY <2>2, <2>3 DEF IInv, Locked
<1>10. ASSUME ~overlapped
       PROVE  CountKnown'
  <2>1. \A d : Users(d) \subseteq Objects /\ Users(d)' \subseteq Objects
    BY DEF Users
  <2>2. \A d : \A x \in Objects : x \in Users(d)' <=> x \in Users(d) \ {o}
    BY <1>6
  <2>3. \A d : Users(d)' = Users(d) \ {o}
    BY <2>1, <2>2
  <2>4. ASSUME NEW d \in Classes, d # c
        PROVE  Users(d)' = Users(d)
    <3>1. Users(d) \ {o} = Users(d)
      BY <1>6, <2>4
    <3> QED
      BY <2>3, <3>1
  <2>5. /\ r.at = "clear" => Users(c)' = {}
        /\ usage'[c] = Cardinality(Users(c)')
        /\ Users(c)' # {} => pool'[c]
    BY <1>2, <1>4, <1>10, <2>3 DEF LeavesCount
  <2>6. r.at \notin SetupPlaces \cup {"release"}
    BY <1>4 DEF SetupPlaces
  <2>7. Users(Class(k))' = Users(c)'
    BY <1>7
  <2> HIDE DEF o
  <2> QED
    BY <1>2, <1>4, <1>5, <1>6, <1>7, <1>10, <2>4, <2>5, <2>6, <2>7, CountStep DEF o
<1> QED
  BY <1>6, <1>8, <1>9, <1>10 DEF IInv, CountInv

\* What a call inside a cleanup has of its class.
LEMMA InsideFacts ==
  ASSUME IInv, NEW k \in Callers, call[k].at \in CleanupPlaces
  PROVE  /\ Class(k) \in Classes /\ Class(k) = ClassOf[call[k].obj] /\ call[k].obj \in Objects
         /\ using = [using EXCEPT ![call[k].obj] = TRUE]
         /\ usage \in [Classes -> Int] /\ pool \in [Classes -> BOOLEAN]
         /\ classLock \in [Classes -> Callers \cup {None}] /\ call[k].n \in Int
         /\ IsFiniteSet(Users(Class(k)))
         /\ call[k].obj \in Users(Class(k)) <=> call[k].at = "release"
<1>1. call[k].at \in SharedPlaces /\ call[k].at \in StillUsing
  BY DEF SharedPlaces, CleanupPlaces, StillUsing
<1>2. /\ call[k].obj \in Objects /\ Class(k) \in Classes /\ Class(k) = ClassOf[call[k].obj]
      /\ using[call[k].obj] = TRUE /\ using = [using EXCEPT ![call[k].obj] = using[call[k].obj]]
  BY <1>1, CallUses
<1>3. call[k].obj \in Users(Class(k)) <=> call[k].at = "release"
  <2>1. \A j \in Callers : call[j].obj = call[k].obj <=> j = k
    BY <1>2, ObjectFacts DEF IInv, OneCallEach
  <2> QED
    BY <1>2, <2>1 DEF Users, CleanupPlaces
<1> QED
  BY <1>2, <1>3, CallFacts, UsersFinite DEF IInv, TypeOK

\* A user gives its count back; the last one is the last by the count.
LEMMA ReleaseThreadsKeeps ==
  ASSUME IInv, NEW k \in Callers, ReleaseThreads(k), UNCHANGED soundVars
  PROVE  IInv'
<1>1. /\ call[k].at = "release" /\ call[k].at \in CleanupPlaces
      /\ UNCHANGED <<pool, using, threadsLock, classLock, overlapped, instance, slot, target>>
  BY DEF ReleaseThreads, At, soundVars, slotVars, historyVars, lockVars, CleanupPlaces
<1>2. PICK c \in Classes : c = Class(k)
  BY <1>1, InsideFacts
<1>3. PICK m \in {call[k].n, usage[c]} :
        usage' = [usage EXCEPT ![c] = m - 1] /\ Goto(k, IF m = 1 THEN "clear" ELSE "leave")
  BY <1>2 DEF ReleaseThreads
<1>4. PICK place \in {"clear", "leave", "free"} : place = IF m = 1 THEN "clear" ELSE "leave"
  OBVIOUS
<1>5. Goto(k, place) /\ Gives(k, place)
  <2>1. (place # "free") = TRUE
    BY <1>4
  <2> QED
    BY <1>1, <1>3, <1>4, <2>1, InsideFacts DEF Gives
<1>6. /\ m \in Int /\ usage' \in [Classes -> Int] /\ usage'[c] = m - 1
      /\ \A d \in Classes : d # c => usage'[d] = usage[d]
  <2>1. m \in Int
    BY <1>1, <1>2, <1>3, InsideFacts
  <2> QED
    BY <1>1, <1>3, <2>1, InsideFacts
<1>7. ASSUME ~overlapped
      PROVE  LeavesCount(k, place)
  <2>1. PICK others : others = Users(c) \ {call[k].obj}
    OBVIOUS
  <2>2. CountKnown
    BY <1>7 DEF IInv, CountInv
  <2>3. m = usage[c] /\ usage[c] = Cardinality(Users(c)) /\ (Users(c) # {} => pool[c])
    BY <1>1, <1>2, <1>3, <2>2 DEF CountKnown
  <2>4. IsFiniteSet(Users(c)) /\ call[k].obj \in Users(c)
    BY <1>1, <1>2, InsideFacts
  <2>5. IsFiniteSet(others) /\ Cardinality(others) = Cardinality(Users(c)) - 1
    BY <2>1, <2>4, FS_RemoveElement
  <2>6. Cardinality(others) = 0 => others = {}
    BY <2>5, FS_EmptySet
  <2>7. place = "clear" => m = 1
    BY <1>4
  <2>8. m - 1 = Cardinality(others)
    BY <2>3, <2>5
  <2>9. place = "clear" => Cardinality(others) = 0
    BY <2>7, <2>8
  <2> QED
    BY <1>1, <1>2, <1>6, <2>1, <2>3, <2>4, <2>6, <2>8, <2>9 DEF LeavesCount
<1>8. /\ classLock' \in [Classes -> Callers \cup {None}] /\ pool' \in [Classes -> BOOLEAN]
      /\ place # "free"
  BY <1>1, <1>4, InsideFacts
<1> QED
  BY <1>1, <1>2, <1>5, <1>6, <1>7, <1>8, InsideKeeps

\* The threads end when nobody is counted.
LEMMA ClearThreadsKeeps ==
  ASSUME IInv, NEW k \in Callers, ClearThreads(k), UNCHANGED soundVars
  PROVE  IInv'
<1>1. /\ call[k].at = "clear" /\ call[k].at \in CleanupPlaces /\ Goto(k, "leave")
      /\ pool' = [pool EXCEPT ![Class(k)] = FALSE]
      /\ UNCHANGED <<usage, using, threadsLock, classLock, overlapped, instance, slot, target>>
  BY DEF ClearThreads, At, soundVars, slotVars, historyVars, lockVars, CleanupPlaces
<1>2. /\ pool' \in [Classes -> BOOLEAN]
      /\ \A d \in Classes : d # Class(k) => pool'[d] = pool[d]
  BY <1>1, InsideFacts
<1>3. PICK place \in {"clear", "leave", "free"} : place = "leave"
  OBVIOUS
<1>4. Goto(k, place) /\ Gives(k, place)
  <2>1. (place # "free") = TRUE
    BY <1>3
  <2> QED
    BY <1>1, <1>3, <2>1, InsideFacts DEF Gives
<1>5. ASSUME ~overlapped
      PROVE  LeavesCount(k, place)
  <2>1. CountKnown
    BY <1>5 DEF IInv, CountInv
  <2>2. Users(Class(k)) = {} /\ usage[Class(k)] = Cardinality(Users(Class(k)))
    BY <1>1, <2>1, InsideFacts DEF CountKnown
  <2>3. Users(Class(k)) \ {call[k].obj} = {}
    BY <2>2
  <2> QED
    BY <1>1, <2>2, <2>3 DEF LeavesCount
<1> QED
  BY <1>1, <1>2, <1>3, <1>4, <1>5, InsideKeeps, InsideFacts

\* The cleanup ends with an object that uses no threads.
LEMMA LeaveThreadsKeeps ==
  ASSUME IInv, NEW k \in Callers, LeaveThreads(k), UNCHANGED soundVars
  PROVE  IInv'
<1>1. /\ call[k].at = "leave" /\ call[k].at \in CleanupPlaces /\ Goto(k, "free")
      /\ using' = [using EXCEPT ![call[k].obj] = FALSE]
      /\ classLock' = [classLock EXCEPT ![ClassOf[call[k].obj]] = None]
      /\ UNCHANGED <<usage, pool, threadsLock, overlapped, instance, slot, target>>
  BY DEF LeaveThreads, At, soundVars, slotVars, historyVars, lockVars, CleanupPlaces
<1>2. Class(k) \in Classes /\ classLock' = [classLock EXCEPT ![Class(k)] = None] /\ TypeOK
  BY <1>1, InsideFacts DEF IInv
<1>3. PICK place \in {"clear", "leave", "free"} : place = "free"
  OBVIOUS
<1>4. Goto(k, place) /\ Gives(k, place)
  <2>1. (place # "free") = FALSE
    BY <1>3
  <2> QED
    BY <1>1, <1>3, <2>1 DEF Gives
<1>5. /\ classLock' \in [Classes -> Callers \cup {None}] /\ classLock'[Class(k)] = None
      /\ \A d \in Classes : d # Class(k) => classLock'[d] = classLock[d]
  BY <1>2, LocksSet
<1>6. ASSUME ~overlapped
      PROVE  LeavesCount(k, place)
  <2>1. CountKnown
    BY <1>6 DEF IInv, CountInv
  <2>2. call[k].obj \notin Users(Class(k))
    BY <1>1, InsideFacts
  <2>3. Users(Class(k)) \ {call[k].obj} = Users(Class(k))
    BY <2>2
  <2>4. usage[Class(k)] = Cardinality(Users(Class(k))) /\ (Users(Class(k)) # {} => pool[Class(k)])
    BY <1>2, <2>1 DEF CountKnown
  <2> QED
    BY <1>1, <1>3, <2>3, <2>4 DEF LeavesCount
<1> QED
  BY <1>1, <1>2, <1>3, <1>4, <1>5, <1>6, InsideKeeps, InsideFacts

-----------------------------------------------------------------------------
(***************************************************************************)
(* The steps of packets, and those that only threads and devices see.      *)
(***************************************************************************)
\* What nothing of the invariant is about may change.
LEMMA OthersKeep ==
  ASSUME IInv, UNCHANGED <<usage, pool, using, lockVars, call, overlapped, instance, slot, target>>
  PROVE  IInv'
<1>1. UNCHANGED <<usage, pool, using, threadsLock, classLock, call, overlapped, instance, slot, target>>
  BY DEF lockVars
<1>2. TypeOK' /\ OneCallEach' /\ UsingKnown'
  BY <1>1 DEF IInv, TypeOK, OneCallEach, PlaceFits, UsingKnown, UsingFits
<1>3. Locked'
  BY <1>1 DEF IInv, Locked, Class
<1>4. InstancesUse' /\ MainWorks' /\ SlotsKnown'
  BY <1>1 DEF IInv, InstancesUse, MainWorks, SlotsKnown
<1>5. CountInv'
  <2>1. \A d : Users(d)' = Users(d) /\ SettingUp(d)' = SettingUp(d) /\ CleaningUp(d)' = CleaningUp(d)
    BY <1>1 DEF Users, SettingUp, CleaningUp, Class
  <2>2. \A k \in Callers : Class(k)' = Class(k)
    BY <1>1 DEF Class
  <2> QED
    BY <1>1, <2>1, <2>2 DEF IInv, CountInv, CountKnown
<1> QED
  BY <1>2, <1>3, <1>4, <1>5 DEF IInv

\* A call that is, and remains, about no sound instance goes from one place outside the
\* sections to another.
LEMMA PacketMoveKeeps ==
  ASSUME IInv, NEW k \in Callers, NEW r \in Calls,
         call' = [call EXCEPT ![k] = r],
         call[k].at \notin SetupPlaces \cup CleanupPlaces \cup {"finish"},
         r.at \notin SetupPlaces \cup CleanupPlaces \cup {"finish"},
         call[k].obj \notin Instances, r.obj \notin Instances,
         PlaceFits(k, r), UsingFits(r),
         r.obj # None => \A j \in Callers : j # k => call[j].obj # r.obj,
         UNCHANGED <<usage, pool, using, lockVars, overlapped, instance, slot, target>>
  PROVE  IInv'
<1>1. /\ call' \in [Callers -> Calls] /\ call'[k] = r
      /\ \A j \in Callers : j # k => call'[j] = call[j]
      /\ OneCallEach' /\ Locked' /\ UsingKnown' /\ CountInv'
  BY MoveKeeps
<1>2. UNCHANGED <<usage, pool, using, threadsLock, classLock, overlapped, instance, slot, target>>
  BY DEF lockVars
<1>3. TypeOK'
  BY <1>1, <1>2 DEF IInv, TypeOK
<1>4. InstancesUse' /\ MainWorks' /\ SlotsKnown'
  <2>1. CASE k # Main
    <3>1. call'[Main] = call[Main]
      BY <1>1, <2>1, ObjectFacts
    <3> QED
      BY <1>2, <3>1 DEF IInv, InstancesUse, MainWorks, SlotsKnown
  <2>2. CASE k = Main
    <3>1. call'[Main] = r
      BY <1>1, <2>2
    <3>2. InstancesUse'
      BY <1>2, <2>2, <3>1 DEF IInv, InstancesUse
    <3>3. MainWorks'
      BY <3>1, <1>2 DEF MainWorks
    <3>4. call[Main].at = "idle" \/ call[Main].obj \in Packets
      BY <2>2, CallFacts, ObjectFacts DEF IInv, OneCallEach, PlaceFits
    <3>5. SlotsKnown'
      BY <1>2, <2>2, <3>1, <3>4 DEF IInv, SlotsKnown
    <3> QED
      BY <3>2, <3>3, <3>5
  <2> QED
    BY <2>1, <2>2
<1> QED
  BY <1>1, <1>3, <1>4 DEF IInv

\* A call begins on a packet that no call uses.
LEMMA PacketBeginKeeps ==
  ASSUME IInv, NEW k \in Callers, NEW p \in Packets, NEW place \in {"ready", "setup", "cleanup", "free"},
         NEW block \in BOOLEAN, call[k].at = "idle", \A j \in Callers : call[j].obj # p,
         place \in {"ready", "cleanup"} <=> using[p],
         call' = [call EXCEPT ![k] = [at |-> place, obj |-> p, n |-> 0, block |-> block]],
         UNCHANGED <<usage, pool, using, lockVars, overlapped, instance, slot, target>>
  PROVE  IInv'
<1> DEFINE r == [at |-> place, obj |-> p, n |-> 0, block |-> block]
<1>1. r \in Calls
  BY ObjectFacts DEF Calls, Places, SharedPlaces
<1>2. r.at = place /\ r.obj = p
  OBVIOUS
<1>3. call' = [call EXCEPT ![k] = r]
  OBVIOUS
<1> HIDE DEF r
<1>4. p \in Objects /\ p \notin Instances /\ p # None
  BY ObjectFacts
<1>5. PlaceFits(k, r) /\ UsingFits(r)
  BY <1>2, <1>4 DEF PlaceFits, UsingFits, SharedPlaces, NotYetUsing, StillUsing, SoundPlaces, CleanupPlaces
<1>6. call[k].obj \notin Instances
  BY ObjectFacts DEF IInv, OneCallEach, PlaceFits
<1> QED
  BY <1>1, <1>2, <1>3, <1>4, <1>5, <1>6, PacketMoveKeeps DEF SetupPlaces, CleanupPlaces

\* A call on a packet ends.
LEMMA PacketEndKeeps ==
  ASSUME IInv, NEW k \in Callers, call[k].at \in {"ready", "wait", "free"}, call[k].obj \notin Instances,
         call' = [call EXCEPT ![k] = Idle],
         UNCHANGED <<usage, pool, using, lockVars, overlapped, instance, slot, target>>
  PROVE  IInv'
<1>1. Idle \in Calls /\ Idle.at = "idle" /\ Idle.obj = None
  BY DEF Idle, Calls, Places
<1>2. PlaceFits(k, Idle) /\ UsingFits(Idle)
  BY <1>1, ObjectFacts DEF PlaceFits, UsingFits, NotYetUsing, StillUsing, SoundPlaces, CleanupPlaces
<1> QED
  BY <1>1, <1>2, ObjectFacts, PacketMoveKeeps DEF SetupPlaces, CleanupPlaces

\* A call of the class of packets is on a packet.
LEMMA PacketCall ==
  ASSUME IInv, NEW k \in Callers, call[k].at \in {"ready", "free"}, Class(k) = "packet"
  PROVE  call[k].obj \in Packets /\ call[k].obj \notin Instances
<1>1. call[k].obj \in Objects
  BY CallHasObject DEF IInv
<1> QED
  BY <1>1, ObjectFacts DEF Class

\* What mn::Encrypt, Decrypt and DeletePacket begin.
LEMMA PacketCallsKeep ==
  ASSUME IInv, EncryptionCalls, UNCHANGED soundVars
  PROVE  IInv'
<1>1. UNCHANGED <<instance, slot, target>>
  BY DEF soundVars, slotVars
<1>2. ASSUME NEW k \in Callers, NEW p \in Packets, NEW op \in Operations, NEW block \in BOOLEAN,
             BeginOperation(k, p, op, block)
      PROVE  IInv'
  <2>1. PICK place \in {"ready", "setup", "cleanup", "free"} : place = IF using[p] THEN "ready" ELSE "setup"
    OBVIOUS
  <2>2. using[p] \in BOOLEAN
    BY ObjectFacts DEF IInv, TypeOK
  <2>3. call' = [call EXCEPT ![k] = [at |-> place, obj |-> p, n |-> 0, block |-> block]]
    BY <1>2, <2>1 DEF BeginOperation
  <2>4. /\ call[k].at = "idle" /\ \A j \in Callers : call[j].obj # p
        /\ UNCHANGED <<usage, pool, using, lockVars, overlapped>>
    BY <1>2 DEF BeginOperation, At, Unused, historyVars
  <2>5. place \in {"ready", "cleanup"} <=> using[p]
    BY <2>1, <2>2
  <2> QED
    BY <1>1, <2>3, <2>4, <2>5, PacketBeginKeeps
<1>3. ASSUME NEW k \in Callers, NEW p \in Packets, DestroyPacket(k, p)
      PROVE  IInv'
  <2>1. PICK place \in {"ready", "setup", "cleanup", "free"} : place = IF using[p] THEN "cleanup" ELSE "free"
    OBVIOUS
  <2>2. using[p] \in BOOLEAN
    BY ObjectFacts DEF IInv, TypeOK
  <2>3. PICK block \in BOOLEAN : block = (p \notin settled)
    OBVIOUS
  <2>4. call' = [call EXCEPT ![k] = [at |-> place, obj |-> p, n |-> 0, block |-> block]]
    BY <1>3, <2>1, <2>3 DEF DestroyPacket
  <2>5. /\ call[k].at = "idle" /\ \A j \in Callers : call[j].obj # p
        /\ UNCHANGED <<usage, pool, using, lockVars, overlapped>>
    BY <1>3 DEF DestroyPacket, At, Unused, historyVars
  <2>6. place \in {"ready", "cleanup"} <=> using[p]
    BY <2>1, <2>2
  <2> QED
    BY <1>1, <2>4, <2>5, <2>6, PacketBeginKeeps
<1>4. ASSUME NEW k \in Callers, NEW p \in Packets, PollFinished(k, p)
      PROVE  IInv'
  BY <1>1, <1>4, OthersKeep DEF PollFinished, poolVars, historyVars
<1>5. ASSUME NEW k \in Callers, DeleteKey(k)
      PROVE  IInv'
  BY <1>1, <1>5, OthersKeep DEF DeleteKey, poolVars, historyVars
<1> QED
  BY <1>2, <1>3, <1>4, <1>5 DEF EncryptionCalls

\* One turn of the loop that posts an item to every thread.
LEMMA PostItemKeeps ==
  ASSUME IInv, NEW k \in Callers, PostItem(k), UNCHANGED soundVars
  PROVE  IInv'
<1>1. /\ call[k].at = "ready" /\ Class(k) = "packet"
      /\ call' = [call EXCEPT ![k].n = call[k].n + 1]
      /\ UNCHANGED <<usage, pool, using, lockVars, overlapped, instance, slot, target>>
  BY DEF PostItem, At, historyVars, soundVars, slotVars
<1>2. call[k].obj \in Packets /\ call[k].obj \notin Instances
  BY <1>1, PacketCall
<1>3. call[k] \in Calls /\ call \in [Callers -> Calls]
  BY CallFacts DEF IInv
<1>4. PICK m \in Int : m = call[k].n + 1
  BY <1>3 DEF Calls
<1>5. PICK r : r = [call[k] EXCEPT !.n = m]
  OBVIOUS
<1>6. r \in Calls /\ r.at = call[k].at /\ r.obj = call[k].obj
  <2>1. PICK p \in Places, o \in Objects \cup {None}, i \in Int, b \in BOOLEAN :
          call[k] = [at |-> p, obj |-> o, n |-> i, block |-> b]
    BY <1>3 DEF Calls
  <2>2. r = [at |-> p, obj |-> o, n |-> m, block |-> b]
    BY <1>5, <2>1
  <2> QED
    BY <2>1, <2>2 DEF Calls
<1>7. call' = [call EXCEPT ![k] = r]
  BY <1>1, <1>3, <1>4, <1>5
<1>8. PlaceFits(k, r) /\ UsingFits(r)
  BY <1>6 DEF IInv, OneCallEach, UsingKnown, PlaceFits, UsingFits
<1>9. \A j \in Callers : j # k => call[j].obj # r.obj
  BY <1>2, <1>6, ObjectFacts DEF IInv, OneCallEach
<1>10. call[k].at \notin SetupPlaces \cup CleanupPlaces \cup {"finish"}
  BY <1>1 DEF SetupPlaces, CleanupPlaces
<1>11. UNCHANGED <<usage, pool, using, lockVars, overlapped, instance, slot, target>>
  BY <1>1
<1> QED
  BY <1>2, <1>6, <1>7, <1>8, <1>9, <1>10, <1>11, PacketMoveKeeps

\* The loop ends, and the program waits if it asked to.
LEMMA EndLoopKeeps ==
  ASSUME IInv, NEW k \in Callers, EndLoop(k), UNCHANGED soundVars
  PROVE  IInv'
<1>1. /\ call[k].at = "ready" /\ Class(k) = "packet"
      /\ UNCHANGED <<usage, pool, using, lockVars, overlapped, instance, slot, target>>
  BY DEF EndLoop, At, historyVars, soundVars, slotVars
<1>2. call[k].obj \in Packets /\ call[k].obj \notin Instances
  BY <1>1, PacketCall
<1>3. call[k] \in Calls /\ call \in [Callers -> Calls]
  BY CallFacts DEF IInv
<1>4. CASE ~call[k].block
  <2>1. call' = [call EXCEPT ![k] = Idle]
    BY <1>3, <1>4 DEF EndLoop
  <2> QED
    BY <1>1, <1>2, <2>1, PacketEndKeeps
<1>5. CASE call[k].block
  <2>1. call' = [call EXCEPT ![k] = [call[k] EXCEPT !.at = "wait"]]
    BY <1>3, <1>5 DEF EndLoop
  <2>2. PICK r : r = [call[k] EXCEPT !.at = "wait"]
    OBVIOUS
  <2>3. r \in Calls /\ r.at = "wait" /\ r.obj = call[k].obj
    <3>1. PICK p \in Places, o \in Objects \cup {None}, i \in Int, b \in BOOLEAN :
            call[k] = [at |-> p, obj |-> o, n |-> i, block |-> b]
      BY <1>3 DEF Calls
    <3>2. r = [at |-> "wait", obj |-> o, n |-> i, block |-> b]
      BY <2>2, <3>1
    <3> QED
      BY <3>1, <3>2 DEF Calls, Places
  <2>4. call' = [call EXCEPT ![k] = r]
    BY <2>1, <2>2
  <2>5. PlaceFits(k, r) /\ UsingFits(r)
    BY <1>1, <1>2, <2>3, ObjectFacts
    DEF IInv, UsingKnown, PlaceFits, UsingFits, NotYetUsing, StillUsing, SoundPlaces, CleanupPlaces
  <2>6. \A j \in Callers : j # k => call[j].obj # r.obj
    BY <1>2, <2>3, ObjectFacts DEF IInv, OneCallEach
  <2>7. /\ call[k].at \notin SetupPlaces \cup CleanupPlaces \cup {"finish"}
        /\ r.at \notin SetupPlaces \cup CleanupPlaces \cup {"finish"}
    BY <1>1, <2>3 DEF SetupPlaces, CleanupPlaces
  <2> QED
    BY <1>1, <1>2, <2>3, <2>4, <2>5, <2>6, <2>7, PacketMoveKeeps
<1> QED
  BY <1>4, <1>5

\* What packets and their threads do with an operation, and a destructor's end.
LEMMA EncryptionGoesOnKeeps ==
  ASSUME IInv, EncryptionGoesOn, UNCHANGED soundVars
  PROVE  IInv'
<1>1. UNCHANGED <<instance, slot, target>>
  BY DEF soundVars, slotVars
<1>2. ASSUME NEW k \in Callers, PostItem(k)
      PROVE  IInv'
  BY <1>2, PostItemKeeps
<1>3. ASSUME NEW k \in Callers, EndLoop(k)
      PROVE  IInv'
  BY <1>3, EndLoopKeeps
<1>4. ASSUME NEW k \in Callers, WaitUntilFinished(k)
      PROVE  IInv'
  <2>1. /\ call[k].at = "wait" /\ call' = [call EXCEPT ![k] = Idle]
        /\ UNCHANGED <<usage, pool, using, lockVars, overlapped>>
    BY <1>4 DEF WaitUntilFinished, At, historyVars
  <2>2. call[k].obj \notin Instances
    BY <2>1 DEF IInv, OneCallEach, PlaceFits
  <2> QED
    BY <1>1, <2>1, <2>2, PacketEndKeeps
<1>5. ASSUME NEW k \in Callers, FreePacket(k)
      PROVE  IInv'
  <2>1. /\ call[k].at = "free" /\ Class(k) = "packet" /\ call' = [call EXCEPT ![k] = Idle]
        /\ UNCHANGED <<usage, pool, using, lockVars, overlapped>>
    BY <1>5 DEF FreePacket, At, historyVars
  <2>2. call[k].obj \notin Instances
    BY <2>1, PacketCall
  <2> QED
    BY <1>1, <2>1, <2>2, PacketEndKeeps
<1>6. ASSUME NEW t \in Threads, EncryptChunks(t)
      PROVE  IInv'
  BY <1>1, <1>6, OthersKeep DEF EncryptChunks
<1> QED
  BY <1>2, <1>3, <1>4, <1>5, <1>6 DEF EncryptionGoesOn

\* The shared threads themselves.
LEMMA PoolKeeps ==
  ASSUME IInv, PoolNext, UNCHANGED soundVars
  PROVE  IInv'
<1>1. ASSUME NEW k \in Callers, CallerStep(k)
      PROVE  IInv'
  BY <1>1, SetupThreadsKeeps, CreateThreadsKeeps, CountUserKeeps, CleanupThreadsKeeps,
     ReleaseThreadsKeeps, ClearThreadsKeeps, LeaveThreadsKeeps DEF CallerStep
<1>2. ASSUME NEW t \in Threads, ThreadDecides(t)
      PROVE  IInv'
  <2>1. UNCHANGED <<usage, pool, using, lockVars, call, overlapped, instance, slot, target>>
    BY <1>2 DEF ThreadDecides, historyVars, soundVars, slotVars
  <2> QED
    BY <2>1, OthersKeep
<1> QED
  BY <1>1, <1>2 DEF PoolNext

-----------------------------------------------------------------------------
(***************************************************************************)
(* The steps of Main with a sound instance.                                *)
(***************************************************************************)
\* Main goes from a place outside the sections to another with a sound instance, or
\* with nothing.
LEMMA MainMoveKeeps ==
  ASSUME IInv, NEW r \in Calls, call' = [call EXCEPT ![Main] = r],
         call[Main].at \notin SetupPlaces \cup CleanupPlaces, r.at \notin SetupPlaces \cup CleanupPlaces,
         \/ r.at \notin {"wait", "idle", "finish"} /\ r.obj \in Instances
         \/ r.at \in {"idle", "finish"} /\ r.obj = None,
         UsingFits(r),
         UNCHANGED <<usage, pool, using, lockVars, overlapped>>,
         instance' \in [Instances -> Ages], slot' \in [Kinds -> [Slots -> Instances \cup {None}]],
         target' \in Targets,
         InstancesUse', MainWorks', SlotsKnown'
  PROVE  IInv'
<1>1. PlaceFits(Main, r)
  BY ObjectFacts DEF PlaceFits
<1>2. \A j \in Callers : j # Main => call[j].obj \notin Instances
  BY DEF IInv, OneCallEach, PlaceFits
<1>3. /\ call' \in [Callers -> Calls]
      /\ OneCallEach' /\ Locked' /\ UsingKnown' /\ CountInv'
  BY <1>1, <1>2, ObjectFacts, MoveKeeps
<1>4. UNCHANGED <<usage, pool, using, threadsLock, classLock, overlapped>>
  BY DEF lockVars
<1>5. TypeOK'
  BY <1>3, <1>4 DEF IInv, TypeOK
<1> QED
  BY <1>3, <1>5 DEF IInv

\* What the call of Main becomes.
LEMMA MainBecomes ==
  ASSUME IInv, NEW r, call' = [call EXCEPT ![Main] = r]
  PROVE  call'[Main] = r
BY ObjectFacts, CallFacts DEF IInv

\* Main goes on with a sound instance it uses, pauses or destroys.
LEMMA MainGoesOnKeeps ==
  ASSUME IInv, NEW r \in Calls, call' = [call EXCEPT ![Main] = r],
         r.obj = call[Main].obj, call[Main].obj \in Instances,
         \/ call[Main].at = "ready" /\ r.at = "install"
         \/ call[Main].at \in PausePlaces /\ r.at \in PausePlaces
         \/ call[Main].at \in PausePlaces /\ r.at = "cleanup" /\ instance[call[Main].obj] = "closing",
         UNCHANGED <<usage, pool, using, lockVars, overlapped, instance, slot, target>>
  PROVE  IInv'
<1>1. call'[Main] = r
  BY MainBecomes
<1>2. PICK o \in Instances : o = call[Main].obj
  OBVIOUS
<1>3. /\ call[Main].at \notin SetupPlaces \cup CleanupPlaces
      /\ r.at \notin SetupPlaces \cup CleanupPlaces \cup {"wait", "idle", "finish"}
      /\ call[Main].at \in StillUsing /\ r.at \in StillUsing
      /\ call[Main].at \notin NotYetUsing \cup {"idle", "finish"} /\ r.at \notin NotYetUsing \cup {"free"}
  BY DEF SetupPlaces, CleanupPlaces, PausePlaces, StillUsing, SoundPlaces, NotYetUsing
<1>4. using[o]
  BY <1>2, <1>3, ObjectFacts DEF IInv, UsingKnown, UsingFits
<1>5. UsingFits(r)
  BY <1>2, <1>3, <1>4 DEF UsingFits
<1>6. InstancesUse'
  BY <1>1, <1>3 DEF IInv, InstancesUse
<1>7. MainWorks'
  BY <1>1, <1>3 DEF IInv, MainWorks, PausePlaces, NotYetUsing, CleanupPlaces
<1>8. SlotsKnown'
  <2>1. o \notin Packets
    BY <1>2, ObjectFacts
  <2>2. r.at \in PausePlaces => call[Main].at \in PausePlaces
    BY DEF PausePlaces
  <2> QED
    BY <1>2, <1>1, <1>3, <2>1, <2>2 DEF IInv, SlotsKnown
<1>9. /\ instance' \in [Instances -> Ages] /\ slot' \in [Kinds -> [Slots -> Instances \cup {None}]]
      /\ target' \in Targets
  BY DEF IInv, TypeOK
<1> QED
  BY <1>3, <1>5, <1>6, <1>7, <1>8, <1>9, MainMoveKeeps

\* A call at another place is a call.
LEMMA CallExcept ==
  ASSUME NEW c \in Calls, NEW place \in Places
  PROVE  LET r == [c EXCEPT !.at = place]
         IN  r \in Calls /\ r.at = place /\ r.obj = c.obj
<1>1. PICK p \in Places, x \in Objects \cup {None}, i \in Int, b \in BOOLEAN :
        c = [at |-> p, obj |-> x, n |-> i, block |-> b]
  BY DEF Calls
<1>2. [c EXCEPT !.at = place] = [at |-> place, obj |-> x, n |-> i, block |-> b]
  BY <1>1
<1>3. [at |-> place, obj |-> x, n |-> i, block |-> b] \in Calls /\ c.obj = x
  BY <1>1 DEF Calls
<1> QED
  BY <1>2, <1>3

\* Main's calls and targets as its commands write them.
Begun(place, o) == [Idle EXCEPT !.at = place, !.obj = o]
FinishBegun     == [Idle EXCEPT !.at = "finish"]
Aimed(t, s, d)  == [t EXCEPT !.id = s, !.kind = d]
New(s, d, o)    == [NoTarget EXCEPT !.id = s, !.kind = d, !.new = o]
ForAll          == [NoTarget EXCEPT !.all = TRUE]

\* A call with nothing, and Main's call that begins at a place.
LEMMA IdleFacts ==
  /\ Idle \in Calls /\ Idle.at = "idle" /\ Idle.obj = None /\ UsingFits(Idle)
  /\ FinishBegun \in Calls /\ FinishBegun.at = "finish" /\ FinishBegun.obj = None
  /\ UsingFits(FinishBegun)
  /\ \A place \in Places, o \in Instances :
       Begun(place, o) \in Calls /\ Begun(place, o).at = place /\ Begun(place, o).obj = o
<1>1. Idle = [at |-> "idle", obj |-> None, n |-> 0, block |-> FALSE]
  BY DEF Idle
<1>2. Idle \in Calls /\ Idle.at = "idle" /\ Idle.obj = None
  BY <1>1 DEF Calls, Places
<1>3. UsingFits(Idle)
  BY <1>2 DEF UsingFits, NotYetUsing, StillUsing, SoundPlaces, CleanupPlaces
<1>4. PICK r : r = FinishBegun
  OBVIOUS
<1>5. r \in Calls /\ r.at = "finish" /\ r.obj = None /\ UsingFits(r)
  <2>1. "finish" \in Places
    BY DEF Places
  <2>2. r \in Calls /\ r.at = "finish" /\ r.obj = None
    BY <1>2, <1>4, <2>1, CallExcept DEF FinishBegun
  <2> QED
    BY <2>2 DEF UsingFits, NotYetUsing, StillUsing, SoundPlaces, CleanupPlaces
<1>6. ASSUME NEW place \in Places, NEW o \in Instances
      PROVE  Begun(place, o) \in Calls /\ Begun(place, o).at = place /\ Begun(place, o).obj = o
  <2>1. PICK c \in Calls : c = Idle
    BY <1>2
  <2>2. PICK p \in Places, x \in Objects \cup {None}, i \in Int, b \in BOOLEAN :
          c = [at |-> p, obj |-> x, n |-> i, block |-> b]
    BY DEF Calls
  <2>3. [c EXCEPT !.at = place] = [at |-> place, obj |-> x, n |-> i, block |-> b]
    BY <2>2
  <2>4. [[at |-> place, obj |-> x, n |-> i, block |-> b] EXCEPT !.obj = o] =
        [at |-> place, obj |-> o, n |-> i, block |-> b]
    OBVIOUS
  <2>5. [c EXCEPT !.at = place, !.obj = o] = [[c EXCEPT !.at = place] EXCEPT !.obj = o]
    OBVIOUS
  <2>6. Begun(place, o) = [at |-> place, obj |-> o, n |-> i, block |-> b]
    BY <2>1, <2>3, <2>4, <2>5 DEF Begun
  <2>7. [at |-> place, obj |-> o, n |-> i, block |-> b] \in Calls
    BY ObjectFacts DEF Calls
  <2> QED
    BY <2>6, <2>7
<1> QED
  BY <1>2, <1>3, <1>4, <1>6, <1>5

\* What targets there are.
LEMMA TargetFacts ==
  /\ None \notin Kinds /\ None \notin Slots
  /\ NoTarget \in Targets /\ NoTarget.id = None /\ NoTarget.kind = None /\ NoTarget.new = None
  /\ ForAll \in Targets /\ ForAll.id = None /\ ForAll.kind = None /\ ForAll.new = None
  /\ \A t \in Targets, s \in Slots, d \in Kinds :
       /\ Aimed(t, s, d) \in Targets
       /\ Aimed(t, s, d).id = s /\ Aimed(t, s, d).kind = d /\ Aimed(t, s, d).new = t.new
  /\ \A s \in Slots, d \in Kinds, o \in Instances :
       /\ New(s, d, o) \in Targets
       /\ New(s, d, o).id = s /\ New(s, d, o).kind = d /\ New(s, d, o).new = o
<1>1. NoTarget = [id |-> None, kind |-> None, new |-> None, all |-> FALSE]
  BY DEF NoTarget
<1>2. [id |-> None, kind |-> None, new |-> None, all |-> FALSE] \in Targets
  BY DEF Targets
<1>3. NoTarget \in Targets /\ NoTarget.id = None /\ NoTarget.kind = None /\ NoTarget.new = None
  BY <1>1, <1>2
<1>4. ForAll \in Targets /\ ForAll.id = None /\ ForAll.kind = None /\ ForAll.new = None
  <2>1. PICK a \in BOOLEAN, b \in BOOLEAN, c \in Targets : a = FALSE /\ b = TRUE /\ c = NoTarget
    BY <1>3
  <2>2. c = [id |-> None, kind |-> None, new |-> None, all |-> a]
    BY <1>1, <2>1
  <2>3. [c EXCEPT !.all = b] = [id |-> None, kind |-> None, new |-> None, all |-> b]
    BY <2>2
  <2>4. ForAll = [id |-> None, kind |-> None, new |-> None, all |-> b]
    BY <2>1, <2>3 DEF ForAll
  <2>5. [id |-> None, kind |-> None, new |-> None, all |-> b] \in Targets
    BY DEF Targets
  <2> QED
    BY <2>4, <2>5
<1>5. ASSUME NEW c \in Targets, NEW s \in Slots, NEW d \in Kinds
      PROVE  /\ Aimed(c, s, d) \in Targets
             /\ Aimed(c, s, d).id = s /\ Aimed(c, s, d).kind = d /\ Aimed(c, s, d).new = c.new
             /\ \A o \in Instances :
                  LET t == [Aimed(c, s, d) EXCEPT !.new = o]
                  IN  t \in Targets /\ t.id = s /\ t.kind = d /\ t.new = o
  <2>1. PICK i \in Slots \cup {None}, e \in Kinds \cup {None}, x \in Instances \cup {None}, a \in BOOLEAN :
          c = [id |-> i, kind |-> e, new |-> x, all |-> a]
    BY DEF Targets
  <2>2. [c EXCEPT !.id = s] = [id |-> s, kind |-> e, new |-> x, all |-> a]
    BY <2>1
  <2>3. [[id |-> s, kind |-> e, new |-> x, all |-> a] EXCEPT !.kind = d] =
        [id |-> s, kind |-> d, new |-> x, all |-> a]
    OBVIOUS
  <2>4. [c EXCEPT !.id = s, !.kind = d] = [[c EXCEPT !.id = s] EXCEPT !.kind = d]
    OBVIOUS
  <2>5. Aimed(c, s, d) = [id |-> s, kind |-> d, new |-> x, all |-> a]
    BY <2>2, <2>3, <2>4 DEF Aimed
  <2>6. [id |-> s, kind |-> d, new |-> x, all |-> a] \in Targets /\ c.new = x
    BY <2>1 DEF Targets
  <2>7. ASSUME NEW o \in Instances
        PROVE  LET t == [Aimed(c, s, d) EXCEPT !.new = o]
               IN  t \in Targets /\ t.id = s /\ t.kind = d /\ t.new = o
    <3>1. [[id |-> s, kind |-> d, new |-> x, all |-> a] EXCEPT !.new = o] =
          [id |-> s, kind |-> d, new |-> o, all |-> a]
      OBVIOUS
    <3>2. [id |-> s, kind |-> d, new |-> o, all |-> a] \in Targets
      BY DEF Targets
    <3> QED
      BY <2>5, <3>1, <3>2
  <2> QED
    BY <2>5, <2>6, <2>7
<1>6. ASSUME NEW s \in Slots, NEW d \in Kinds, NEW o \in Instances
      PROVE  /\ New(s, d, o) \in Targets
             /\ New(s, d, o).id = s /\ New(s, d, o).kind = d /\ New(s, d, o).new = o
  <2>1. [NoTarget EXCEPT !.id = s, !.kind = d, !.new = o] =
          [[NoTarget EXCEPT !.id = s, !.kind = d] EXCEPT !.new = o]
    OBVIOUS
  <2>2. New(s, d, o) = [Aimed(NoTarget, s, d) EXCEPT !.new = o]
    BY <2>1 DEF New, Aimed
  <2> QED
    BY <1>3, <1>5, <2>2
<1> QED
  BY <1>3, <1>4, <1>5, <1>6, SoundAssumption DEF Kinds

\* Between calls, between the destructors of FinishSound, and before an instance is put
\* into its slot, none is being destroyed.
LEMMA NoneClosing ==
  ASSUME IInv, call[Main].at \in {"idle", "finish", "install"}
  PROVE  /\ \A x \in Instances : instance[x] # "closing" /\ (instance[x] = "live" => using[x])
         /\ \A x \in Instances : instance[x] \in {"absent", "unused", "deleted"} => ~using[x]
         /\ \A d \in Kinds, s \in Slots :
              slot[d][s] # None => slot[d][s] \in Instances /\ instance[slot[d][s]] = "live"
         /\ call[Main].at # "install" => call[Main].obj = None /\ target.new = None
<1>1. call[Main].at \in {"idle", "finish"} <=> call[Main].obj = None
  BY ObjectFacts DEF IInv, OneCallEach, PlaceFits
<1>2. ASSUME NEW x \in Instances
      PROVE  instance[x] # "closing" /\ (instance[x] = "live" => using[x])
  <2>1. instance[x] = "closing" => call[Main].obj = x
    BY DEF IInv, InstancesUse
  <2>2. call[Main].obj = x => instance[x] = "live"
    <3>1. x # None
      BY ObjectFacts
    <3> QED
      BY <1>1, <3>1 DEF IInv, MainWorks
  <2> QED
    BY <2>1, <2>2 DEF IInv, InstancesUse, NotYetUsing
<1>3. ASSUME NEW d \in Kinds, NEW s \in Slots, slot[d][s] # None
      PROVE  slot[d][s] \in Instances /\ instance[slot[d][s]] = "live"
  <2>1. slot[d][s] \in Instances
    BY <1>3 DEF IInv, TypeOK
  <2> QED
    BY <1>2, <1>3, <2>1 DEF IInv, SlotsKnown
<1>4. call[Main].at # "install" => target.new = None
  BY TargetFacts DEF IInv, SlotsKnown
<1>5. \A x \in Instances : instance[x] \in {"absent", "unused", "deleted"} => ~using[x]
  BY DEF IInv, InstancesUse
<1> QED
  BY <1>1, <1>2, <1>3, <1>4, <1>5

\* The instance of a slot begins to be destroyed.
LEMMA DestroyKeeps ==
  ASSUME IInv, call[Main].at \in {"idle", "finish", "install"},
         NEW d \in Kinds, NEW s \in Slots, slot[d][s] # None, Destroy(slot[d][s]),
         target' \in Targets, target'.kind = d, target'.id = s, target'.new = target.new,
         UNCHANGED <<usage, pool, using, lockVars, overlapped, slot>>
  PROVE  IInv'
<1>1. PICK o \in Instances : o = slot[d][s] /\ instance[o] = "live" /\ using[o]
  BY NoneClosing
<1>2. PICK r \in Calls : r = Begun("destroy", o) /\ r.at = "destroy" /\ r.obj = o
  BY IdleFacts DEF Places, SoundPlaces
<1>3. call' = [call EXCEPT ![Main] = r] /\ instance' = [instance EXCEPT ![o] = "closing"]
  BY <1>1, <1>2 DEF Destroy, Begun
<1>4. call'[Main] = r
  BY <1>3, MainBecomes
<1>5. /\ instance \in [Instances -> Ages] /\ instance' \in [Instances -> Ages]
      /\ instance'[o] = "closing" /\ \A x \in Instances : x # o => instance'[x] = instance[x]
      /\ slot \in [Kinds -> [Slots -> Instances \cup {None}]] /\ target \in Targets
  BY <1>3 DEF IInv, TypeOK, Ages
<1>6. InstancesUse'
  <2>1. ASSUME NEW x \in Instances
        PROVE  /\ instance'[x] \in {"absent", "unused", "deleted"} => ~using[x] /\ r.obj # x
               /\ instance'[x] = "live" => using[x] \/ (r.obj = x /\ r.at \in NotYetUsing)
               /\ instance'[x] = "closing" => r.obj = x
    BY <1>2, <1>5, NoneClosing
  <2> QED
    BY <1>4, <2>1 DEF InstancesUse
<1>7. MainWorks'
  BY <1>2, <1>4, <1>5 DEF MainWorks, NotYetUsing, CleanupPlaces
<1>8. SlotsKnown'
  <2>1. target.new # o
    BY <1>1, ObjectFacts DEF IInv, SlotsKnown
  <2>2. ASSUME NEW e \in Kinds, NEW t \in Slots, slot[e][t] # None
        PROVE  \/ instance'[slot[e][t]] = "live"
               \/ instance'[slot[e][t]] = "closing" /\ d = e /\ s = t
    <3>1. slot[e][t] \in Instances /\ instance[slot[e][t]] = "live"
      BY <2>2, NoneClosing
    <3>2. slot[e][t] = o => d = e /\ s = t
      BY <1>1, <2>2 DEF IInv, SlotsKnown
    <3> QED
      BY <1>5, <3>1, <3>2
  <2>3. target.new # None => target.new \in Instances /\ instance'[target.new] = "live"
    <3>1. target.new \in Instances \cup {None}
      BY <1>5 DEF Targets
    <3> QED
      BY <1>5, <2>1, <3>1 DEF IInv, SlotsKnown
  <2>4. o \notin Packets /\ d # None /\ s # None
    BY ObjectFacts, TargetFacts
  <2> QED
    BY <1>2, <1>4, <1>5, <2>2, <2>3, <2>4 DEF IInv, SlotsKnown
<1>9. /\ call[Main].at \notin SetupPlaces \cup CleanupPlaces
      /\ r.at \notin SetupPlaces \cup CleanupPlaces \cup {"wait", "idle", "finish"}
      /\ UsingFits(r)
  BY <1>1, <1>2 DEF SetupPlaces, CleanupPlaces, UsingFits, NotYetUsing
<1> QED
  BY <1>2, <1>3, <1>5, <1>6, <1>7, <1>8, <1>9, MainMoveKeeps

\* Main has nothing to do with an instance any more, none is being destroyed, and the
\* slots hold live ones.
LEMMA MainLeavesKeeps ==
  ASSUME IInv, NEW r \in {Idle, FinishBegun}, call' = [call EXCEPT ![Main] = r],
         call[Main].at \notin SetupPlaces \cup CleanupPlaces,
         r = Idle => target' = NoTarget, r = FinishBegun => target' = ForAll,
         UNCHANGED <<usage, pool, using, lockVars, overlapped>>,
         instance' \in [Instances -> Ages], slot' \in [Kinds -> [Slots -> Instances \cup {None}]],
         \A x \in Instances : /\ instance'[x] # "closing"
                              /\ using[x] <=> instance'[x] = "live",
         \A d \in Kinds, s \in Slots : slot'[d][s] # None => instance'[slot'[d][s]] = "live",
         \A d, e \in Kinds, s, t \in Slots :
           (slot'[d][s] # None /\ slot'[d][s] = slot'[e][t]) => d = e /\ s = t
  PROVE  IInv'
<1>1. /\ r \in Calls /\ UsingFits(r) /\ r.at \in {"idle", "finish"} /\ r.obj = None
      /\ r.at = "idle" <=> r = Idle
  BY IdleFacts
<1>2. call'[Main] = r
  BY MainBecomes
<1>3. /\ target' \in Targets /\ target'.id = None /\ target'.kind = None /\ target'.new = None
      /\ r.at = "idle" => target' = NoTarget
  BY <1>1, TargetFacts
<1>4. None \notin Instances /\ None \notin Packets
  BY ObjectFacts
<1>5. InstancesUse'
  BY <1>1, <1>2, <1>4 DEF InstancesUse
<1>6. MainWorks'
  BY <1>1, <1>2, <1>4 DEF MainWorks
<1>7. SlotsKnown'
  BY <1>1, <1>2, <1>3, <1>4 DEF SlotsKnown, PausePlaces
<1>8. r.at \notin SetupPlaces \cup CleanupPlaces
  BY <1>1 DEF SetupPlaces, CleanupPlaces
<1> QED
  BY <1>1, <1>3, <1>5, <1>6, <1>7, <1>8, MainMoveKeeps

\* A constructor begins with that of the base class, which sets the threads up.
LEMMA StartInstanceKeeps ==
  ASSUME IInv, NEW d \in Kinds, NEW s \in Slots, NEW o \in Instances, StartInstance(d, s, o)
  PROVE  IInv'
<1>1. /\ call[Main].at = "idle" /\ instance[o] = "unused"
      /\ instance' = [instance EXCEPT ![o] = "live"] /\ target' = New(s, d, o)
      /\ UNCHANGED <<usage, pool, using, lockVars, overlapped, slot>>
  BY DEF StartInstance, At, New, sharedVars, historyVars
<1>2. PICK r \in Calls : r = Begun("setup", o) /\ r.at = "setup" /\ r.obj = o
  BY IdleFacts DEF Places, SharedPlaces
<1>3. call' = [call EXCEPT ![Main] = r]
  BY <1>2 DEF StartInstance, Begun
<1>4. call'[Main] = r
  BY <1>3, MainBecomes
<1>5. /\ instance \in [Instances -> Ages] /\ instance' \in [Instances -> Ages]
      /\ instance'[o] = "live" /\ \A x \in Instances : x # o => instance'[x] = instance[x]
  BY <1>1 DEF IInv, TypeOK, Ages
<1>6. target' \in Targets /\ target'.id = s /\ target'.kind = d /\ target'.new = o
  BY <1>1, TargetFacts
<1>7. ~using[o]
  BY <1>1 DEF IInv, InstancesUse
<1>8. o # None /\ o \notin Packets /\ d # None /\ s # None
  BY ObjectFacts, TargetFacts
<1>9. InstancesUse'
  <2>1. ASSUME NEW x \in Instances
        PROVE  /\ instance'[x] \in {"absent", "unused", "deleted"} => ~using[x] /\ r.obj # x
               /\ instance'[x] = "live" => using[x] \/ (r.obj = x /\ r.at \in NotYetUsing)
               /\ instance'[x] = "closing" => r.obj = x
    BY <1>1, <1>2, <1>5, NoneClosing DEF NotYetUsing
  <2>2. using' = using
    BY <1>1
  <2> QED
    BY <1>4, <2>1, <2>2 DEF InstancesUse
<1>10. MainWorks'
  BY <1>2, <1>4, <1>5, <1>6 DEF MainWorks, NotYetUsing, CleanupPlaces, PausePlaces
<1>11. SlotsKnown'
  <2>1. ASSUME NEW e \in Kinds, NEW t \in Slots, slot[e][t] # None
        PROVE  instance'[slot[e][t]] = "live" /\ slot[e][t] # o
    <3>1. slot[e][t] \in Instances /\ instance[slot[e][t]] = "live"
      BY <1>1, <2>1, NoneClosing
    <3> QED
      BY <1>1, <1>5, <3>1
  <2>2. slot' = slot
    BY <1>1
  <2>3. \A e, f \in Kinds, t, u \in Slots : (slot[e][t] # None /\ slot[e][t] = slot[f][u]) => e = f /\ t = u
    BY DEF IInv, SlotsKnown
  <2> QED
    BY <1>2, <1>4, <1>5, <1>6, <1>8, <2>1, <2>2, <2>3 DEF SlotsKnown, PausePlaces
<1>12. /\ call[Main].at \notin SetupPlaces \cup CleanupPlaces
       /\ UNCHANGED <<usage, pool, using, lockVars, overlapped>>
       /\ slot' \in [Kinds -> [Slots -> Instances \cup {None}]]
  BY <1>1 DEF IInv, TypeOK, SetupPlaces, CleanupPlaces
<1>13. r.at \notin SetupPlaces \cup CleanupPlaces \cup {"wait", "idle", "finish"} /\ UsingFits(r)
  BY <1>2, <1>7 DEF SetupPlaces, CleanupPlaces, UsingFits, NotYetUsing, StillUsing, SoundPlaces
<1> QED
  BY <1>2, <1>3, <1>5, <1>6, <1>9, <1>10, <1>11, <1>12, <1>13, MainMoveKeeps

\* What the call of Main becomes when it only goes to another place.
LEMMA MainGoes ==
  ASSUME IInv, NEW place \in Places, Goto(Main, place)
  PROVE  \E r \in Calls : r.at = place /\ r.obj = call[Main].obj /\ call' = [call EXCEPT ![Main] = r]
<1>1. TypeOK /\ Main \in Callers /\ call[Main].n \in Int
  BY ObjectFacts, CallFacts DEF IInv
<1>2. PICK r : r = Changed(Main, place, call[Main].n)
  OBVIOUS
<1>3. r \in Calls /\ call' = [call EXCEPT ![Main] = r]
  BY <1>1, <1>2, CallChanged
<1>4. r.at = place /\ r.obj = call[Main].obj
  BY <1>2 DEF Changed
<1> QED
  BY <1>3, <1>4

\* The same for the step to the destructor of the base class.
LEMMA MainEnds ==
  ASSUME IInv, NEW o, EndDestructor(o)
  PROVE  \E r \in Calls : r.at = "cleanup" /\ r.obj = call[Main].obj /\ call' = [call EXCEPT ![Main] = r]
<1>1. call \in [Callers -> Calls] /\ Main \in Callers /\ call[Main] \in Calls
  BY ObjectFacts, CallFacts DEF IInv
<1>2. PICK p \in Places, x \in Objects \cup {None}, i \in Int, b \in BOOLEAN :
        call[Main] = [at |-> p, obj |-> x, n |-> i, block |-> b]
  BY <1>1 DEF Calls
<1>3. PICK place \in Places, a \in BOOLEAN : place = "cleanup" /\ a = ~Finished(o)
  BY DEF Places, SharedPlaces
<1>4. call' = [call EXCEPT ![Main].at = place, ![Main].block = a]
  BY <1>3 DEF EndDestructor
<1>5. PICK c : c = call[Main]
  OBVIOUS
<1>6. [c EXCEPT !.at = place] = [at |-> place, obj |-> x, n |-> i, block |-> b]
  BY <1>2, <1>5
<1>7. [[at |-> place, obj |-> x, n |-> i, block |-> b] EXCEPT !.block = a] =
      [at |-> place, obj |-> x, n |-> i, block |-> a]
  OBVIOUS
<1>8. [c EXCEPT !.at = place, !.block = a] = [[c EXCEPT !.at = place] EXCEPT !.block = a]
  OBVIOUS
<1>9. PICK r : r = [c EXCEPT !.at = place, !.block = a]
  OBVIOUS
<1>10. r = [at |-> place, obj |-> x, n |-> i, block |-> a]
  BY <1>6, <1>7, <1>8, <1>9
<1>11. r \in Calls /\ r.at = "cleanup" /\ r.obj = call[Main].obj
  BY <1>2, <1>3, <1>10 DEF Calls
<1>12. [call EXCEPT ![Main].at = place, ![Main].block = a] =
         [call EXCEPT ![Main] = [call[Main] EXCEPT !.at = place, !.block = a]]
  BY <1>1
<1>13. call' = [call EXCEPT ![Main] = r]
  BY <1>4, <1>5, <1>9, <1>12
<1> QED
  BY <1>11, <1>13

\* The constructor ends.
LEMMA OpenDeviceKeeps ==
  ASSUME IInv, NEW o \in Instances, OpenDevice(o)
  PROVE  IInv'
<1>1. /\ call[Main].at = "ready" /\ call[Main].obj = o /\ Goto(Main, "install")
      /\ UNCHANGED <<usage, pool, using, lockVars, overlapped, instance, slot, target>>
  BY DEF OpenDevice, InCall, At, sharedVars, historyVars, slotVars
<1>2. PICK r \in Calls : r.at = "install" /\ r.obj = o /\ call' = [call EXCEPT ![Main] = r]
  BY <1>1, MainGoes DEF Places, SoundPlaces
<1> QED
  BY <1>1, <1>2, MainGoesOnKeeps

\* The constructor throws.
LEMMA OpenDeviceFailsKeeps ==
  ASSUME IInv, NEW o \in Instances, OpenDeviceFails(o)
  PROVE  IInv'
<1>1. /\ call[Main].at = "ready" /\ call[Main].obj = o /\ Goto(Main, "cleanup")
      /\ instance' = [instance EXCEPT ![o] = "closing"] /\ target' = NoTarget
      /\ UNCHANGED <<usage, pool, using, lockVars, overlapped, slot>>
  BY DEF OpenDeviceFails, InCall, At, sharedVars, historyVars
<1>2. PICK r \in Calls : r.at = "cleanup" /\ r.obj = o /\ call' = [call EXCEPT ![Main] = r]
  BY <1>1, MainGoes DEF Places, SharedPlaces
<1>3. call'[Main] = r
  BY <1>2, MainBecomes
<1>4. /\ instance \in [Instances -> Ages] /\ instance' \in [Instances -> Ages]
      /\ instance'[o] = "closing" /\ \A x \in Instances : x # o => instance'[x] = instance[x]
  BY <1>1 DEF IInv, TypeOK, Ages
<1>5. instance[o] = "live" /\ target.new = o /\ using[o] /\ o \in Objects /\ o \notin Packets /\ o # None
  <2>1. using[o]
    BY <1>1, ObjectFacts DEF IInv, UsingKnown, UsingFits, StillUsing
  <2> QED
    BY <1>1, <2>1, ObjectFacts DEF IInv, MainWorks
<1>6. InstancesUse'
  <2>1. ASSUME NEW x \in Instances
        PROVE  /\ instance'[x] \in {"absent", "unused", "deleted"} => ~using[x] /\ r.obj # x
               /\ instance'[x] = "live" => using[x]
               /\ instance'[x] = "closing" => r.obj = x
    BY <1>1, <1>2, <1>4, <1>5 DEF IInv, InstancesUse, NotYetUsing
  <2>2. using' = using
    BY <1>1
  <2> QED
    BY <1>3, <2>1, <2>2 DEF InstancesUse
<1>7. MainWorks'
  BY <1>2, <1>3, <1>4 DEF MainWorks, NotYetUsing, CleanupPlaces, PausePlaces
<1>8. SlotsKnown'
  <2>1. ASSUME NEW d \in Kinds, NEW s \in Slots, slot[d][s] # None
        PROVE  instance'[slot[d][s]] = "live"
    <3>1. slot[d][s] \in Instances /\ slot[d][s] # o
      BY <1>5, <2>1 DEF IInv, TypeOK, SlotsKnown
    <3>2. instance[slot[d][s]] # "closing"
      BY <1>1, <3>1 DEF IInv, InstancesUse
    <3> QED
      BY <1>4, <2>1, <3>1, <3>2 DEF IInv, SlotsKnown
  <2>2. \A d, e \in Kinds, s, t \in Slots : (slot[d][s] # None /\ slot[d][s] = slot[e][t]) => d = e /\ s = t
    BY DEF IInv, SlotsKnown
  <2>3. slot' = slot /\ target' = NoTarget
    BY <1>1
  <2> QED
    BY <1>2, <1>3, <2>1, <2>2, <2>3, TargetFacts DEF SlotsKnown
<1>9. /\ call[Main].at \notin SetupPlaces \cup CleanupPlaces
      /\ UNCHANGED <<usage, pool, using, lockVars, overlapped>>
      /\ slot' \in [Kinds -> [Slots -> Instances \cup {None}]] /\ target' \in Targets
  BY <1>1, TargetFacts DEF IInv, TypeOK, SetupPlaces, CleanupPlaces
<1>10. r.at \notin SetupPlaces \cup CleanupPlaces \cup {"wait", "idle", "finish"} /\ UsingFits(r)
  BY <1>2, <1>5 DEF SetupPlaces, CleanupPlaces, UsingFits, NotYetUsing
<1> QED
  BY <1>2, <1>4, <1>6, <1>7, <1>8, <1>9, <1>10, MainMoveKeeps

\* A new instance is put into its slot, or the one in there is destroyed first.
LEMMA InstallKeeps ==
  ASSUME IInv, NEW o \in Instances, Install(o)
  PROVE  IInv'
<1> DEFINE old == slot[target.kind][target.id]
           valid == target.id \in loaded[target.kind]
<1>1. /\ call[Main].at = "install" /\ call[Main].obj = o
      /\ UNCHANGED <<usage, pool, using, lockVars, overlapped>>
  BY DEF Install, InCall, At, sharedVars, historyVars
<1>2. instance[o] = "live" /\ target.new = o /\ o # None
  BY <1>1, ObjectFacts DEF IInv, MainWorks
<1>3. target \in Targets /\ target.kind \in Kinds /\ target.id \in Slots
  <2>1. target \in Targets
    BY DEF IInv, TypeOK
  <2>2. target.kind # None /\ target.id # None
    BY <1>2 DEF IInv, SlotsKnown
  <2> QED
    BY <2>1, <2>2 DEF Targets
<1>4. CASE valid /\ old # None
  <2>1. Destroy(old) /\ UNCHANGED <<slot, target>>
    BY <1>4 DEF Install
  <2> QED
    BY <1>1, <1>3, <1>4, <2>1, DestroyKeeps
<1>5. CASE ~(valid /\ old # None)
  <2>1. /\ call' = [call EXCEPT ![Main] = Idle] /\ target' = NoTarget /\ instance' = instance
        /\ slot' = IF valid THEN [slot EXCEPT ![target.kind][target.id] = o] ELSE slot
    BY <1>5 DEF Install
  <2>2. PICK d \in Kinds, s \in Slots : d = target.kind /\ s = target.id
    BY <1>3
  <2>3. /\ slot \in [Kinds -> [Slots -> Instances \cup {None}]]
        /\ instance \in [Instances -> Ages]
    BY DEF IInv, TypeOK
  <2>4. /\ slot' \in [Kinds -> [Slots -> Instances \cup {None}]]
        /\ \A e \in Kinds, t \in Slots : slot'[e][t] = slot[e][t] \/ (slot'[e][t] = o /\ e = d /\ t = s)
    <3>1. CASE valid
      <4>1. slot' = [slot EXCEPT ![d] = [slot[d] EXCEPT ![s] = o]]
        BY <2>1, <2>2, <2>3, <3>1
      <4> QED
        BY <2>3, <4>1
    <3>2. CASE ~valid
      BY <2>1, <2>3, <3>2
    <3> QED
      BY <3>1, <3>2
  <2>5. /\ \A x \in Instances : instance[x] # "closing" /\ (using[x] <=> instance[x] = "live")
        /\ \A e \in Kinds, t \in Slots :
             /\ slot[e][t] # None => instance[slot[e][t]] = "live"
             /\ slot[e][t] # o
    <3>1. \A x \in Instances : instance[x] \in Ages
      BY <2>3
    <3> QED
      BY <1>1, <1>2, <3>1, NoneClosing DEF IInv, SlotsKnown, Ages
  <2>6. \A e \in Kinds, t \in Slots : slot'[e][t] # None => instance[slot'[e][t]] = "live"
    BY <1>2, <2>4, <2>5
  <2>7. \A e, f \in Kinds, t, u \in Slots :
          (slot'[e][t] # None /\ slot'[e][t] = slot'[f][u]) => e = f /\ t = u
    <3>1. \A e, f \in Kinds, t, u \in Slots :
            (slot[e][t] # None /\ slot[e][t] = slot[f][u]) => e = f /\ t = u
      BY DEF IInv, SlotsKnown
    <3> SUFFICES ASSUME NEW e \in Kinds, NEW f \in Kinds, NEW t \in Slots, NEW u \in Slots,
                        slot'[e][t] # None, slot'[e][t] = slot'[f][u]
                 PROVE  e = f /\ t = u
      OBVIOUS
    <3>2. /\ slot'[e][t] = slot[e][t] \/ (slot'[e][t] = o /\ e = d /\ t = s)
          /\ slot'[f][u] = slot[f][u] \/ (slot'[f][u] = o /\ f = d /\ u = s)
          /\ slot[e][t] # o /\ slot[f][u] # o
      BY <2>4, <2>5
    <3> QED
      BY <3>1, <3>2
  <2>8. PICK r \in {Idle, FinishBegun} : r = Idle
    OBVIOUS
  <2>9. call' = [call EXCEPT ![Main] = r] /\ Idle # FinishBegun
    BY <2>1, <2>8, IdleFacts
  <2>10. call[Main].at \notin SetupPlaces \cup CleanupPlaces /\ instance' \in [Instances -> Ages]
    BY <1>1, <2>1, <2>3 DEF SetupPlaces, CleanupPlaces
  <2> QED
    BY <1>1, <2>1, <2>4, <2>5, <2>6, <2>7, <2>8, <2>9, <2>10, MainLeavesKeeps
<1> QED
  BY <1>4, <1>5

\* FinishInput and FinishOutput.
LEMMA FinishInstanceKeeps ==
  ASSUME IInv, NEW d \in Kinds, NEW s \in Slots, NEW o \in Instances, FinishInstance(d, s, o)
  PROVE  IInv'
<1>1. /\ call[Main].at = "idle" /\ o = slot[d][s] /\ o # None /\ Destroy(o)
      /\ target' = Aimed(NoTarget, s, d)
      /\ UNCHANGED <<usage, pool, using, lockVars, overlapped, slot>>
  BY DEF FinishInstance, Commands, At, Aimed, sharedVars, historyVars
<1>2. target.new = None
  BY <1>1, NoneClosing
<1>3. target' \in Targets /\ target'.kind = d /\ target'.id = s /\ target'.new = target.new
  BY <1>1, <1>2, TargetFacts
<1> QED
  BY <1>1, <1>3, DestroyKeeps

\* StartSound, and FinishSound, begin.
LEMMA StartSoundKeeps ==
  ASSUME IInv, NEW ids, StartSound(ids)
  PROVE  IInv'
<1>1. /\ call[Main].at = "idle" /\ target' = ForAll
      /\ call' = [call EXCEPT ![Main] = FinishBegun]
      /\ UNCHANGED <<usage, pool, using, lockVars, overlapped, slot, instance>>
  BY DEF StartSound, At, ForAll, FinishBegun, sharedVars, historyVars
<1>2. PICK r \in {Idle, FinishBegun} : r = FinishBegun
  OBVIOUS
<1>3. call' = [call EXCEPT ![Main] = r] /\ Idle # FinishBegun
  BY <1>1, <1>2, IdleFacts
<1>4. /\ instance \in [Instances -> Ages] /\ slot \in [Kinds -> [Slots -> Instances \cup {None}]]
      /\ \A d, e \in Kinds, s, t \in Slots : (slot[d][s] # None /\ slot[d][s] = slot[e][t]) => d = e /\ s = t
  BY DEF IInv, TypeOK, SlotsKnown
<1>5. /\ \A x \in Instances : instance[x] # "closing" /\ (using[x] <=> instance[x] = "live")
      /\ \A d \in Kinds, s \in Slots : slot[d][s] # None => instance[slot[d][s]] = "live"
  <2>1. \A x \in Instances : instance[x] \in Ages
    BY <1>4
  <2> QED
    BY <1>1, <2>1, NoneClosing DEF Ages
<1>6. call[Main].at \notin SetupPlaces \cup CleanupPlaces /\ slot' = slot /\ instance' = instance
  BY <1>1 DEF SetupPlaces, CleanupPlaces
<1> QED
  BY <1>1, <1>2, <1>3, <1>4, <1>5, <1>6, MainLeavesKeeps

\* The next slot is emptied, or nothing is left to finish.
LEMMA FinishNextKeeps ==
  ASSUME IInv, FinishNext
  PROVE  IInv'
<1>1. call[Main].at = "finish" /\ UNCHANGED <<usage, pool, using, lockVars, overlapped, slot>>
  BY DEF FinishNext, At, sharedVars, historyVars
<1>2. CASE call' = [call EXCEPT ![Main] = Idle] /\ target' = NoTarget /\ UNCHANGED instance
  <2>1. PICK r \in {Idle, FinishBegun} : r = Idle
    OBVIOUS
  <2>2. call' = [call EXCEPT ![Main] = r] /\ Idle # FinishBegun
    BY <1>2, <2>1, IdleFacts
  <2>3. /\ instance \in [Instances -> Ages] /\ slot \in [Kinds -> [Slots -> Instances \cup {None}]]
        /\ \A d, e \in Kinds, s, t \in Slots : (slot[d][s] # None /\ slot[d][s] = slot[e][t]) => d = e /\ s = t
    BY DEF IInv, TypeOK, SlotsKnown
  <2>4. /\ \A x \in Instances : instance[x] # "closing" /\ (using[x] <=> instance[x] = "live")
        /\ \A d \in Kinds, s \in Slots : slot[d][s] # None => instance[slot[d][s]] = "live"
    <3>1. \A x \in Instances : instance[x] \in Ages
      BY <2>3
    <3> QED
      BY <1>1, <3>1, NoneClosing DEF Ages
  <2>5. call[Main].at \notin SetupPlaces \cup CleanupPlaces /\ slot' = slot /\ instance' = instance
    BY <1>1, <1>2 DEF SetupPlaces, CleanupPlaces
  <2> QED
    BY <1>1, <1>2, <2>1, <2>2, <2>3, <2>4, <2>5, MainLeavesKeeps
<1>3. ASSUME NEW d \in Kinds, NEW s \in Slots, s \in Full(d), Destroy(slot[d][s]),
             target' = Aimed(target, s, d)
      PROVE  IInv'
  <2>1. slot[d][s] # None
    BY <1>3 DEF Full
  <2>2. target \in Targets
    BY DEF IInv, TypeOK
  <2>3. target' \in Targets /\ target'.kind = d /\ target'.id = s /\ target'.new = target.new
    BY <1>3, <2>2, TargetFacts
  <2> QED
    BY <1>1, <1>3, <2>1, <2>3, DestroyKeeps
<1> QED
  BY <1>2, <1>3 DEF FinishNext, Aimed

\* The destructors have ended: the slot gets the new instance, or NULL.
LEMMA FreeInstanceKeeps ==
  ASSUME IInv, NEW o \in Instances, FreeInstance(o)
  PROVE  IInv'
<1>1. /\ call[Main].at = "free" /\ call[Main].obj = o /\ instance' = [instance EXCEPT ![o] = "deleted"]
      /\ UNCHANGED <<usage, pool, using, lockVars, overlapped>>
  BY DEF FreeInstance, InCall, At, sharedVars, historyVars
<1>2. PICK r \in {Idle, FinishBegun} : r = IF target.all THEN FinishBegun ELSE Idle
  OBVIOUS
<1>3. call' = [call EXCEPT ![Main] = r]
  BY <1>2 DEF FreeInstance, FinishBegun
<1>4. (r = Idle => target' = NoTarget) /\ (r = FinishBegun => target' = ForAll)
  <2>1. target' = IF target.all THEN ForAll ELSE NoTarget
    BY DEF FreeInstance, ForAll
  <2>2. Idle # FinishBegun
    BY IdleFacts
  <2> QED
    BY <1>2, <2>1, <2>2
<1>5. instance[o] = "closing" /\ ~using[o] /\ o # None
  <2>1. instance[o] = "closing"
    BY <1>1 DEF IInv, MainWorks, CleanupPlaces
  <2> QED
    BY <1>1, <2>1, ObjectFacts DEF IInv, UsingKnown, UsingFits
<1>6. /\ instance \in [Instances -> Ages] /\ instance' \in [Instances -> Ages]
      /\ instance'[o] = "deleted" /\ \A x \in Instances : x # o => instance'[x] = instance[x]
      /\ slot \in [Kinds -> [Slots -> Instances \cup {None}]] /\ target \in Targets
  BY <1>1 DEF IInv, TypeOK, Ages
<1>7. ASSUME NEW x \in Instances
      PROVE  /\ instance'[x] # "closing"
             /\ using[x] <=> instance'[x] = "live"
  <2>1. CASE x = o
    BY <1>5, <1>6, <2>1
  <2>2. CASE x # o
    <3>1. instance[x] # "closing" /\ (instance[x] = "live" => using[x])
      BY <1>1, <2>2 DEF IInv, InstancesUse, NotYetUsing
    <3>2. instance[x] \in {"absent", "unused", "deleted"} => ~using[x]
      BY DEF IInv, InstancesUse
    <3> QED
      BY <1>6, <2>2, <3>1, <3>2 DEF Ages
  <2> QED
    BY <2>1, <2>2
<1>8. target.new # None => target.new \in Instances /\ target.new # o /\ instance'[target.new] = "live"
  <2>1. target.new \in Instances \cup {None}
    BY <1>6 DEF Targets
  <2> QED
    BY <1>5, <1>6, <2>1 DEF IInv, SlotsKnown
<1>9. ASSUME NEW d \in Kinds, NEW s \in Slots, slot[d][s] # None
      PROVE  /\ instance'[slot[d][s]] = "live" \/ (target.kind = d /\ target.id = s)
             /\ slot[d][s] # target.new
  <2>1. slot[d][s] \in Instances
    BY <1>6, <1>9
  <2>2. slot[d][s] = o => target.kind = d /\ target.id = s
    BY <1>5, <1>9 DEF IInv, SlotsKnown
  <2>3. slot[d][s] # o => instance[slot[d][s]] # "closing"
    BY <1>7, <1>6, <2>1
  <2> QED
    BY <1>6, <1>9, <2>1, <2>2, <2>3 DEF IInv, SlotsKnown
<1>10. /\ slot' \in [Kinds -> [Slots -> Instances \cup {None}]]
       /\ \A d \in Kinds, s \in Slots :
            IF target.kind = d /\ target.id = s THEN slot'[d][s] = target.new ELSE slot'[d][s] = slot[d][s]
  <2>1. CASE target.kind = None
    BY <1>6, <2>1, TargetFacts DEF FreeInstance
  <2>2. CASE target.kind # None
    <3>1. PICK e \in Kinds, t \in Slots : e = target.kind /\ t = target.id
      BY <1>6, <2>2 DEF IInv, SlotsKnown, Targets
    <3>2. PICK x \in Instances \cup {None} : x = target.new
      BY <1>6 DEF Targets
    <3>3. slot' = [slot EXCEPT ![e] = [slot[e] EXCEPT ![t] = x]]
      BY <1>6, <2>2, <3>1, <3>2 DEF FreeInstance
    <3>4. /\ slot' \in [Kinds -> [Slots -> Instances \cup {None}]]
          /\ slot'[e][t] = x
          /\ \A d \in Kinds, s \in Slots : ~(e = d /\ t = s) => slot'[d][s] = slot[d][s]
      BY <1>6, <3>3
    <3> QED
      BY <3>1, <3>2, <3>4
  <2> QED
    BY <2>1, <2>2
<1>11. \A d \in Kinds, s \in Slots : slot'[d][s] # None => instance'[slot'[d][s]] = "live"
  BY <1>8, <1>9, <1>10
<1>12. \A d, e \in Kinds, s, t \in Slots :
         (slot'[d][s] # None /\ slot'[d][s] = slot'[e][t]) => d = e /\ s = t
  <2>1. \A d, e \in Kinds, s, t \in Slots : (slot[d][s] # None /\ slot[d][s] = slot[e][t]) => d = e /\ s = t
    BY DEF IInv, SlotsKnown
  <2> QED
    BY <1>9, <1>10, <2>1
<1>13. call[Main].at \notin SetupPlaces \cup CleanupPlaces
  BY <1>1 DEF SetupPlaces, CleanupPlaces
<1> QED
  BY <1>1, <1>3, <1>4, <1>6, <1>7, <1>10, <1>11, <1>12, <1>13, MainLeavesKeeps

\* An input is paused that is not destroyed.
LEMMA PauseInputKeeps ==
  ASSUME IInv, NEW s \in Slots, NEW o \in Inputs, PauseInput(s, o)
  PROVE  IInv'
<1>1. /\ call[Main].at = "idle" /\ o = slot["in"][s] /\ o # None
      /\ UNCHANGED <<usage, pool, using, lockVars, overlapped, instance, slot, target>>
  BY DEF PauseInput, Commands, At, sharedVars, historyVars, soundVars, slotVars
<1>2. o \in Instances /\ o \notin Outputs /\ o \notin Packets /\ instance[o] = "live" /\ using[o]
  <2>1. "in" \in Kinds
    BY DEF Kinds
  <2> QED
    BY <1>1, <2>1, NoneClosing, ObjectFacts
<1>3. PICK r \in Calls : r = Begun("destroy", o) /\ r.at = "destroy" /\ r.obj = o
  BY <1>2, IdleFacts DEF Places, SoundPlaces
<1>4. call' = [call EXCEPT ![Main] = r]
  BY <1>3 DEF PauseInput, Begun
<1>5. call'[Main] = r
  BY <1>4, MainBecomes
<1>6. InstancesUse'
  <2>1. ASSUME NEW x \in Instances
        PROVE  /\ instance[x] \in {"absent", "unused", "deleted"} => ~using[x] /\ r.obj # x
               /\ instance[x] = "live" => using[x]
               /\ instance[x] # "closing"
    BY <1>1, <1>2, <1>3, NoneClosing
  <2>2. using' = using /\ instance' = instance
    BY <1>1
  <2> QED
    BY <1>5, <2>1, <2>2 DEF InstancesUse
<1>7. target = NoTarget /\ target' = target
  BY <1>1 DEF IInv, SlotsKnown
<1>8. MainWorks'
  BY <1>1, <1>2, <1>3, <1>5, <1>7, TargetFacts DEF MainWorks, NotYetUsing, CleanupPlaces
<1>9. SlotsKnown'
  <2>1. slot' = slot /\ instance' = instance
    BY <1>1
  <2> QED
    BY <1>3, <1>5, <1>7, <2>1 DEF IInv, SlotsKnown
<1>10. /\ call[Main].at \notin SetupPlaces \cup CleanupPlaces
       /\ UNCHANGED <<usage, pool, using, lockVars, overlapped>>
       /\ instance' \in [Instances -> Ages]
       /\ slot' \in [Kinds -> [Slots -> Instances \cup {None}]] /\ target' \in Targets
  BY <1>1 DEF IInv, TypeOK, SetupPlaces, CleanupPlaces
<1>11. r.at \notin SetupPlaces \cup CleanupPlaces \cup {"wait", "idle", "finish"} /\ UsingFits(r)
  BY <1>2, <1>3 DEF SetupPlaces, CleanupPlaces, UsingFits, NotYetUsing
<1> QED
  BY <1>2, <1>3, <1>4, <1>6, <1>8, <1>9, <1>10, <1>11, MainMoveKeeps

\* A pause ends, with an exception or without.
LEMMA PauseEndsKeeps ==
  ASSUME IInv, call[Main].at \in PausePlaces, call[Main].obj \in Instances,
         instance[call[Main].obj] # "closing", call' = [call EXCEPT ![Main] = Idle],
         UNCHANGED <<usage, pool, using, lockVars, overlapped, instance, slot, target>>
  PROVE  IInv'
<1>1. PICK r \in {Idle, FinishBegun} : r = Idle
  OBVIOUS
<1>2. call' = [call EXCEPT ![Main] = r] /\ r # FinishBegun
  BY <1>1, IdleFacts
<1>3. target = NoTarget
  BY DEF IInv, SlotsKnown
<1>4. /\ instance \in [Instances -> Ages] /\ slot \in [Kinds -> [Slots -> Instances \cup {None}]]
      /\ \A d, e \in Kinds, s, t \in Slots : (slot[d][s] # None /\ slot[d][s] = slot[e][t]) => d = e /\ s = t
  BY DEF IInv, TypeOK, SlotsKnown
<1>5. ASSUME NEW x \in Instances
      PROVE  instance[x] # "closing" /\ (using[x] <=> instance[x] = "live")
  <2>1. instance[x] # "closing" /\ (instance[x] = "live" => using[x])
    BY DEF IInv, InstancesUse, PausePlaces, NotYetUsing
  <2>2. instance[x] \in {"absent", "unused", "deleted"} => ~using[x]
    BY DEF IInv, InstancesUse
  <2> QED
    BY <1>4, <2>1, <2>2 DEF Ages
<1>6. \A d \in Kinds, s \in Slots : slot[d][s] # None => instance[slot[d][s]] = "live"
  <2>1. \A d \in Kinds, s \in Slots : slot[d][s] \in Instances \cup {None}
    BY <1>4
  <2> QED
    BY <1>5, <2>1 DEF IInv, SlotsKnown
<1>7. call[Main].at \notin SetupPlaces \cup CleanupPlaces /\ slot' = slot /\ instance' = instance
  BY DEF PausePlaces, SetupPlaces, CleanupPlaces
<1> QED
  BY <1>1, <1>2, <1>3, <1>4, <1>5, <1>6, <1>7, MainLeavesKeeps

\* An input stops handing buffers out, resets its device and waits for the buffers.
LEMMA InputSteps ==
  ASSUME IInv, NEW o \in Inputs,
         StopHandingOut(o) \/ ResetInput(o) \/ ResetInputFails(o) \/ InputStopped(o)
  PROVE  IInv'
<1>1. /\ call[Main].at \in PausePlaces /\ call[Main].obj = o /\ o \in Instances
      /\ UNCHANGED <<usage, pool, using, lockVars, overlapped, instance, slot, target>>
  BY DEF StopHandingOut, ResetInput, ResetInputFails, InputStopped, InCall, At, PausePlaces,
         sharedVars, historyVars, soundVars, slotVars
<1>2. ASSUME NEW place \in PausePlaces, Goto(Main, place)
      PROVE  IInv'
  <2>1. PICK r \in Calls : r.at = place /\ r.obj = o /\ call' = [call EXCEPT ![Main] = r]
    BY <1>1, <1>2, MainGoes DEF Places, SoundPlaces, PausePlaces
  <2> QED
    BY <1>1, <1>2, <2>1, MainGoesOnKeeps
<1>3. ASSUME IF instance[o] = "closing" THEN EndDestructor(o) ELSE call' = [call EXCEPT ![Main] = Idle]
      PROVE  IInv'
  <2>1. CASE instance[o] = "closing"
    <3>1. PICK r \in Calls : r.at = "cleanup" /\ r.obj = o /\ call' = [call EXCEPT ![Main] = r]
      BY <1>1, <1>3, <2>1, MainEnds
    <3> QED
      BY <1>1, <2>1, <3>1, MainGoesOnKeeps
  <2>2. CASE instance[o] # "closing"
    BY <1>1, <1>3, <2>2, PauseEndsKeeps
  <2> QED
    BY <2>1, <2>2
<1>4. CASE StopHandingOut(o)
  <2>1. Goto(Main, "reset") /\ "reset" \in PausePlaces
    BY <1>4 DEF StopHandingOut, PausePlaces
  <2> QED
    BY <1>2, <2>1
<1>5. CASE ResetInput(o)
  <2>1. Goto(Main, "waitBuffers") /\ "waitBuffers" \in PausePlaces
    BY <1>5 DEF ResetInput, PausePlaces
  <2> QED
    BY <1>2, <2>1
<1>6. CASE ResetInputFails(o)
  BY <1>3, <1>6 DEF ResetInputFails
<1>7. CASE InputStopped(o)
  BY <1>3, <1>7 DEF InputStopped
<1> QED
  BY <1>4, <1>5, <1>6, <1>7

\* An output drops what it stored, resets its device and waits for the buffers.
LEMMA OutputSteps ==
  ASSUME IInv, NEW o \in Outputs, ClearOutput(o) \/ ResetOutput(o) \/ Unlist(o)
  PROVE  IInv'
<1>1. /\ call[Main].at \in PausePlaces /\ call[Main].obj = o /\ o \in Instances
      /\ UNCHANGED <<usage, pool, using, lockVars, overlapped, instance, slot, target>>
  BY DEF ClearOutput, ResetOutput, Unlist, InCall, At, PausePlaces,
         sharedVars, historyVars, soundVars, slotVars
<1>2. instance[o] = "closing"
  BY <1>1 DEF IInv, MainWorks
<1>3. ASSUME NEW place \in PausePlaces, Goto(Main, place)
      PROVE  IInv'
  <2>1. PICK r \in Calls : r.at = place /\ r.obj = o /\ call' = [call EXCEPT ![Main] = r]
    BY <1>1, <1>3, MainGoes DEF Places, SoundPlaces, PausePlaces
  <2> QED
    BY <1>1, <1>3, <2>1, MainGoesOnKeeps
<1>4. ASSUME EndDestructor(o)
      PROVE  IInv'
  <2>1. PICK r \in Calls : r.at = "cleanup" /\ r.obj = o /\ call' = [call EXCEPT ![Main] = r]
    BY <1>1, <1>4, MainEnds
  <2> QED
    BY <1>1, <1>2, <2>1, MainGoesOnKeeps
<1>5. CASE ClearOutput(o)
  <2>1. Goto(Main, "reset") /\ "reset" \in PausePlaces
    BY <1>5 DEF ClearOutput, PausePlaces
  <2> QED
    BY <1>3, <2>1
<1>6. CASE ResetOutput(o)
  <2>1. Goto(Main, "waitBuffers") \/ EndDestructor(o)
    BY <1>6 DEF ResetOutput
  <2>2. "waitBuffers" \in PausePlaces
    BY DEF PausePlaces
  <2> QED
    BY <1>3, <1>4, <2>1, <2>2
<1>7. CASE Unlist(o)
  BY <1>4, <1>7 DEF Unlist
<1> QED
  BY <1>5, <1>6, <1>7

\* Commands that only use an instance.
LEMMA UseKeeps ==
  ASSUME IInv, NEW s \in Slots, NEW o \in Instances, NEW n,
         \/ UnpauseInput(s, o) \/ GetInputData(s, o)
         \/ PlayData(s, o, n) \/ SetSmoothValues(s, o, n)
  PROVE  IInv'
<1>1. UNCHANGED <<usage, pool, using, lockVars, call, overlapped, instance, slot, target>>
  BY DEF UnpauseInput, GetInputData, PlayData, SetSmoothValues, poolVars, historyVars, slotVars
<1> QED
  BY <1>1, OthersKeep

\* The manager thread, the callback thread and the devices.
LEMMA DevicesKeep ==
  ASSUME IInv, NEW o \in Instances,
         \/ DecideWhetherToOutput(o) \/ DecideFails(o) \/ StoreData(o) \/ HandOut(o)
         \/ BufferDone(o) \/ ReleaseBuffer(o) \/ CallbackFails(o)
  PROVE  IInv'
<1>1. UNCHANGED <<usage, pool, using, lockVars, call, overlapped, instance, slot, target>>
  <2>1. CASE DecideWhetherToOutput(o) \/ DecideFails(o)
    BY <2>1 DEF DecideWhetherToOutput, DecideFails, poolVars, historyVars, slotVars
  <2>2. CASE BufferDone(o)
    BY <2>2 DEF BufferDone, slotVars
  <2>3. CASE StoreData(o) \/ HandOut(o) \/ ReleaseBuffer(o) \/ CallbackFails(o)
    BY <2>3 DEF StoreData, HandOut, ReleaseBuffer, CallbackFails, handlingUnchanged, slotVars
  <2> QED
    BY <2>1, <2>2, <2>3
<1> QED
  BY <1>1, OthersKeep

\* mnSound's commands.
LEMMA SoundCallsKeep ==
  ASSUME IInv, SoundCalls
  PROVE  IInv'
<1>1. ASSUME NEW d \in Kinds, NEW s \in Slots, NEW o \in Instances,
             StartInstance(d, s, o) \/ FinishInstance(d, s, o)
      PROVE  IInv'
  BY <1>1, StartInstanceKeeps, FinishInstanceKeeps
<1>2. ASSUME NEW ids, StartSound(ids)
      PROVE  IInv'
  BY <1>2, StartSoundKeeps
<1>3. ASSUME NEW s \in Slots, NEW o \in Inputs,
             UnpauseInput(s, o) \/ PauseInput(s, o) \/ GetInputData(s, o)
      PROVE  IInv'
  BY <1>3, PauseInputKeeps, UseKeeps, ObjectFacts
<1>4. ASSUME NEW s \in Slots, NEW o \in Outputs, NEW n, PlayData(s, o, n) \/ SetSmoothValues(s, o, n)
      PROVE  IInv'
  BY <1>4, UseKeeps, ObjectFacts
<1> QED
  BY <1>1, <1>2, <1>3, <1>4 DEF SoundCalls

\* What instances, devices and their threads do after that.
LEMMA SoundGoesOnKeeps ==
  ASSUME IInv, SoundGoesOn
  PROVE  IInv'
<1>1. ASSUME NEW o \in Outputs,
             \/ ClearOutput(o) \/ ResetOutput(o) \/ Unlist(o)
             \/ DecideWhetherToOutput(o) \/ DecideFails(o)
      PROVE  IInv'
  BY <1>1, OutputSteps, DevicesKeep, ObjectFacts
<1>2. ASSUME NEW o \in Inputs,
             \/ StopHandingOut(o) \/ ResetInput(o) \/ ResetInputFails(o) \/ InputStopped(o)
             \/ StoreData(o) \/ HandOut(o)
      PROVE  IInv'
  BY <1>2, InputSteps, DevicesKeep, ObjectFacts
<1>3. ASSUME NEW o \in Instances,
             \/ OpenDevice(o) \/ OpenDeviceFails(o) \/ Install(o) \/ FreeInstance(o)
             \/ BufferDone(o) \/ ReleaseBuffer(o) \/ CallbackFails(o)
      PROVE  IInv'
  BY <1>3, OpenDeviceKeeps, OpenDeviceFailsKeeps, InstallKeeps, FreeInstanceKeeps, DevicesKeep
<1> QED
  BY <1>1, <1>2, <1>3, FinishNextKeeps DEF SoundGoesOn

-----------------------------------------------------------------------------
(***************************************************************************)
(* The theorem.                                                            *)
(***************************************************************************)
\* The invariant holds in the beginning: nobody uses threads, and nobody is in a call.
LEMMA InvInit == UsersInit => IInv
<1> SUFFICES ASSUME Init, SoundInit
             PROVE  IInv
  BY DEF UsersInit
<1>1. /\ usage = [c \in Classes |-> 0] /\ pool = [c \in Classes |-> FALSE]
      /\ using = [o \in Objects |-> FALSE] /\ overlapped = FALSE
      /\ threadsLock = None /\ classLock = [c \in Classes |-> None]
      /\ call = [k \in Callers |-> Idle]
      /\ slot = [d \in Kinds |-> [s \in Slots |-> None]]
      /\ instance = [o \in Instances |-> IF o \in scene THEN "unused" ELSE "absent"]
      /\ target = NoTarget
  BY DEF Init, SoundInit
<1>2. /\ \A k \in Callers : call[k] = Idle /\ call[k].at = "idle" /\ call[k].obj = None
      /\ call \in [Callers -> Calls]
  BY <1>1, IdleFacts
<1>3. TypeOK
  <2>1. usage \in [Classes -> Int] /\ classLock \in [Classes -> Callers \cup {None}]
    BY <1>1
  <2>2. pool \in [Classes -> BOOLEAN] /\ using \in [Objects -> BOOLEAN] /\ overlapped \in BOOLEAN
    BY <1>1
  <2>3. instance \in [Instances -> Ages]
    BY <1>1 DEF Ages
  <2>4. slot \in [Kinds -> [Slots -> Instances \cup {None}]]
    BY <1>1
  <2> QED
    BY <1>1, <1>2, <2>1, <2>2, <2>3, <2>4, TargetFacts DEF TypeOK
<1>4. OneCallEach
  BY <1>2, ObjectFacts DEF OneCallEach, PlaceFits
<1>5. Locked
  BY <1>1, <1>2, ObjectFacts DEF Locked, SetupPlaces, CleanupPlaces
<1>6. UsingKnown
  BY <1>2, IdleFacts DEF UsingKnown
<1>7. InstancesUse
  BY <1>1, <1>2, ObjectFacts DEF InstancesUse
<1>8. MainWorks
  BY <1>2, ObjectFacts DEF MainWorks
<1>9. SlotsKnown
  BY <1>1, <1>2, ObjectFacts, TargetFacts DEF SlotsKnown
<1>10. CountKnown
  <2>1. \A c : Users(c) = {} /\ ~SettingUp(c) /\ ~CleaningUp(c)
    BY <1>1, <1>2 DEF Users, SettingUp, CleaningUp
  <2> QED
    BY <1>1, <1>2, <2>1, FS_EmptySet DEF CountKnown, SetupPlaces
<1> QED
  BY <1>3, <1>4, <1>5, <1>6, <1>7, <1>8, <1>9, <1>10 DEF IInv, CountInv

\* Every step keeps it.
LEMMA InvNext == IInv /\ [UsersNext]_userVars => IInv'
<1> SUFFICES ASSUME IInv, [UsersNext]_userVars
             PROVE  IInv'
  OBVIOUS
<1>1. CASE Proceed
  <2>1. CASE PoolNext /\ UNCHANGED <<encryptionVars, soundVars>>
    BY <2>1, PoolKeeps
  <2>2. CASE EncryptionGoesOn /\ UNCHANGED soundVars
    BY <2>2, EncryptionGoesOnKeeps
  <2>3. CASE SoundGoesOn
    BY <2>3, SoundGoesOnKeeps
  <2> QED
    BY <1>1, <2>1, <2>2, <2>3 DEF Proceed
<1>2. CASE EncryptionCalls /\ UNCHANGED soundVars
  BY <1>2, PacketCallsKeep
<1>3. CASE SoundCalls
  BY <1>3, SoundCallsKeep
<1>4. CASE UNCHANGED userVars
  BY <1>4, OthersKeep DEF userVars, poolVars, historyVars, soundVars, slotVars
<1> QED
  BY <1>1, <1>2, <1>3, <1>4 DEF UsersNext

\* The sections, the calls and the slots fit together, whatever objects and threads of
\* the program there are, and the counts do unless a setup ran beside a cleanup.
THEOREM UsersInvariant == UsersSpec => []IInv
<1>1. UsersInit => IInv
  BY InvInit
<1>2. IInv /\ [UsersNext]_userVars => IInv'
  BY InvNext
<1> QED
  BY <1>1, <1>2, PTL DEF UsersSpec

\* Unless a setup ran beside a cleanup, usageCount counts the objects that use the threads
\* of a class, and the threads run as long as there is one.
THEOREM UsersHaveThreadsHolds == UsersSpec => []UsersHaveThreads
<1>1. IInv => UsersHaveThreads
  BY DEF IInv, CountInv, CountKnown, UsersHaveThreads
<1> QED
  BY <1>1, UsersInvariant, PTL

-----------------------------------------------------------------------------
(***************************************************************************)
(* What is unused when an object has finished.                             *)
(***************************************************************************)
\* Nothing has happened that excuses a fault.
Calm == rash = {} /\ ~careless /\ ~overlapped /\ fails = 0

\* Sequences, whatever they are of.
Contents(s) == {s[i] : i \in 1 .. Len(s)}
IsSeq(s) == s \in Seq(Contents(s))

\* The places of o's items in a queue, and whether o has any.
ItemsIn(q, o) == {i \in 1 .. Len(q) : q[i].obj = o}
Busy(o) == \E t \in Threads : ItemsIn(queue[t], o) # {}

\* Items are those of objects of the thread's class; the thread works on the first.
QueuesFit ==
  /\ queue = [t \in Threads |-> queue[t]] /\ stage = [t \in Threads |-> stage[t]]
  /\ \A t \in Threads :
       /\ IsSeq(queue[t])
       /\ \A i \in 1 .. Len(queue[t]) : queue[t][i].obj \in Objects /\ ClassOf[queue[t][i].obj] = t[1]
       /\ stage[t] # "get" => queue[t] # <<>>

\* What an object has noted as being with a thread is in its queue.
LastKnown ==
  /\ DOMAIN last = Objects
  /\ \A o \in Objects :
       /\ DOMAIN last[o] = 0 .. NumThreads[ClassOf[o]] - 1
       /\ \A n \in DOMAIN last[o] :
            last[o][n] = "thread" <=> ItemsIn(queue[<<ClassOf[o], n>>], o) # {}

\* The callback thread has released the buffer of the item it decides about.
Released(o) == stage[SoundThread] = "decide" /\ queue[SoundThread][1].obj = o

\* bufferInUseCount counts the buffers that the device or the callback thread has.
Counted(o) ==
  inUse[o] = Len(device[o]) + Cardinality(ItemsIn(queue[SoundThread], o)) - (IF Released(o) THEN 1 ELSE 0)

BuffersCounted ==
  /\ DOMAIN inUse = Instances /\ DOMAIN device = Instances /\ DOMAIN output = Outputs
  /\ \A o \in Outputs : IsSeq(output[o])
  /\ \A o \in Instances : IsSeq(device[o]) /\ Counted(o)

\* Nothing of an instance is left that the devices or threads could use.
Empty(o)   == o \in Outputs => output[o] = <<>>
Drained(o) == inUse[o] = 0 /\ Empty(o)

\* An object that does not use threads has no items and no buffers.
UnusedIsIdle ==
  \A o \in Objects : ~using[o] => ~Busy(o) /\ (o \in Instances => Drained(o))

\* The packets that threads work on exist, and so does the key.
BusyPacketsLive == \A p \in Packets : Busy(p) => p \in exists /\ p \notin settled /\ keyLives

\* What the place of a call says of its packet, and of its instance.
PacketFits(r) ==
  r.obj \in Packets =>
    /\ r.obj \in exists
    /\ r.at \in NotYetUsing \cup {"ready", "wait"} => r.obj \notin settled /\ keyLives

SoundFits(r) ==
  r.obj \in Instances =>
    /\ r.at \in CleanupPlaces \cup {"cleanup", "free"} => Drained(r.obj)
    /\ r.at \in {"reset", "waitBuffers"} => Empty(r.obj)

\* A destructor that need not wait for the threads, or has done so.
MustBeIdle(r) ==
  \/ r.at \in CleanupPlaces \cup {"cleanup"} /\ ~r.block
  \/ r.at \in {"leave", "free"}
IdleFits(r) == MustBeIdle(r) => ~Busy(r.obj)

\* One that has to wait is that of the last user.
LastFits(r) == r.at = "release" /\ r.block => usage[ClassOf[r.obj]] = 1

CallFits(r) ==
  /\ r.at = "ready" => r.n \in Nat
  /\ PacketFits(r) /\ SoundFits(r) /\ IdleFits(r) /\ LastFits(r)

CallsFit == \A k \in Callers : CallFits(call[k])

Finishing ==
  /\ ~fault /\ dead = {}
  /\ QueuesFit /\ LastKnown /\ BuffersCounted /\ UnusedIsIdle /\ BusyPacketsLive /\ CallsFit

FInv ==
  /\ fails \in Nat
  /\ keyLives => ~careless
  /\ Calm => Finishing

-----------------------------------------------------------------------------
(***************************************************************************)
(* Lemmas about queues.                                                    *)
(***************************************************************************)
\* A sequence of anything is a sequence of what it contains.
LEMMA SomeSeq ==
  ASSUME NEW S, NEW s \in Seq(S)
  PROVE  IsSeq(s)
<1>1. Len(s) \in Nat /\ s \in [1 .. Len(s) -> S]
  BY LenProperties
<1>2. s \in [1 .. Len(s) -> Contents(s)]
  BY <1>1 DEF Contents
<1> QED
  BY <1>1, <1>2, SeqDef DEF IsSeq

\* An element is appended.
LEMMA Appended ==
  ASSUME NEW s, IsSeq(s), NEW x
  PROVE  /\ Len(s) \in Nat /\ IsSeq(Append(s, x)) /\ Len(Append(s, x)) = Len(s) + 1
         /\ Append(s, x) # <<>>
         /\ \A i \in 1 .. Len(s) : Append(s, x)[i] = s[i]
         /\ Append(s, x)[Len(s) + 1] = x
<1>1. PICK S : s \in Seq(S) /\ x \in S
  <2>1. s \in Seq(Contents(s) \cup {x})
    BY SeqMonotonic DEF IsSeq
  <2> QED
    BY <2>1
<1>2. /\ Append(s, x) \in Seq(S) /\ Len(s) \in Nat /\ Len(Append(s, x)) = Len(s) + 1
      /\ \A i \in 1 .. Len(s) : Append(s, x)[i] = s[i]
      /\ Append(s, x)[Len(s) + 1] = x
  BY <1>1
<1>3. Append(s, x) # <<>>
  BY <1>2, EmptySeq
<1> QED
  BY <1>2, <1>3, SomeSeq

\* The first element is taken.
LEMMA Taken ==
  ASSUME NEW s, IsSeq(s), s # <<>>
  PROVE  /\ Len(s) \in Nat /\ Len(s) > 0 /\ IsSeq(Tail(s)) /\ Len(Tail(s)) = Len(s) - 1
         /\ Head(s) = s[1] /\ \A i \in 1 .. Len(s) - 1 : Tail(s)[i] = s[i + 1]
<1>1. PICK S : s \in Seq(S)
  BY DEF IsSeq
<1>2. /\ Tail(s) \in Seq(S) /\ Len(Tail(s)) = Len(s) - 1
      /\ \A i \in 1 .. Len(Tail(s)) : Tail(s)[i] = s[i + 1]
  BY <1>1, HeadTailProperties
<1>3. Len(s) \in Nat /\ Len(s) > 0
  BY <1>1, EmptySeq, LenProperties
<1>4. Head(s) = s[1]
  BY <1>1
<1>5. IsSeq(Tail(s))
  BY <1>2, SomeSeq
<1> QED
  BY <1>2, <1>3, <1>4, <1>5

\* Sequences are joined.
LEMMA Joined ==
  ASSUME NEW s, IsSeq(s), NEW t, IsSeq(t)
  PROVE  IsSeq(s \o t) /\ Len(s \o t) = Len(s) + Len(t) /\ Len(s) \in Nat /\ Len(t) \in Nat
<1>1. PICK S : s \in Seq(S) /\ t \in Seq(S)
  <2>1. s \in Seq(Contents(s) \cup Contents(t)) /\ t \in Seq(Contents(s) \cup Contents(t))
    BY SeqMonotonic DEF IsSeq
  <2> QED
    BY <2>1
<1>2. s \o t \in Seq(S) /\ Len(s \o t) = Len(s) + Len(t)
  BY <1>1, ConcatProperties
<1> QED
  BY <1>1, <1>2, SomeSeq, LenProperties

\* The length of a sequence is a number, that of an empty one only is zero.
LEMMA Lengths ==
  ASSUME NEW s, IsSeq(s)
  PROVE  Len(s) \in Nat /\ (Len(s) = 0 <=> s = <<>>)
<1>1. PICK S : s \in Seq(S)
  BY DEF IsSeq
<1> QED
  BY <1>1, EmptySeq, LenProperties

\* The empty sequence is one.
LEMMA EmptyIsSeq == IsSeq(<<>>) /\ Len(<<>>) = 0
<1>1. <<>> \in Seq({}) /\ Len(<<>>) = 0
  BY EmptySeq
<1> QED
  BY <1>1, SomeSeq

\* Items of an object are finitely many, and none are in an empty queue.
LEMMA ItemsFinite ==
  ASSUME NEW q, IsSeq(q), NEW o
  PROVE  /\ IsFiniteSet(ItemsIn(q, o)) /\ Cardinality(ItemsIn(q, o)) \in Nat
         /\ Cardinality(ItemsIn(q, o)) = 0 <=> ItemsIn(q, o) = {}
         /\ q = <<>> => ItemsIn(q, o) = {}
<1>1. Len(q) \in Nat
  BY Lengths
<1>2. IsFiniteSet(1 .. Len(q))
  BY <1>1, FS_Interval
<1>3. IsFiniteSet(ItemsIn(q, o))
  BY <1>2, FS_Subset DEF ItemsIn
<1>4. q = <<>> => ItemsIn(q, o) = {}
  BY EmptyIsSeq DEF ItemsIn
<1> QED
  BY <1>3, <1>4, FS_EmptySet, FS_CardinalityType

\* An item is posted.
LEMMA ItemPosted ==
  ASSUME NEW q, IsSeq(q), NEW x, NEW o
  PROVE  /\ x.obj # o => ItemsIn(Append(q, x), o) = ItemsIn(q, o)
         /\ x.obj = o => /\ ItemsIn(Append(q, x), o) # {}
                         /\ Cardinality(ItemsIn(Append(q, x), o)) = Cardinality(ItemsIn(q, o)) + 1
<1> DEFINE new == Append(q, x)
<1>1. /\ Len(q) \in Nat /\ Len(new) = Len(q) + 1 /\ new[Len(q) + 1] = x
      /\ \A i \in 1 .. Len(q) : new[i] = q[i]
  BY Appended
<1> HIDE DEF new
<1>2. \A i \in 1 .. Len(new) : i \in 1 .. Len(q) \/ i = Len(q) + 1
  BY <1>1
<1>3. \A i \in 1 .. Len(q) : i \in 1 .. Len(new) /\ i # Len(q) + 1
  BY <1>1
<1>4. CASE x.obj # o
  <2>1. ItemsIn(new, o) = ItemsIn(q, o)
    BY <1>1, <1>2, <1>3, <1>4 DEF ItemsIn
  <2> QED
    BY <1>4, <2>1 DEF new
<1>5. CASE x.obj = o
  <2>1. Len(q) + 1 \in 1 .. Len(new)
    BY <1>1
  <2>2. ItemsIn(new, o) = ItemsIn(q, o) \cup {Len(q) + 1}
    BY <1>1, <1>2, <1>3, <1>5, <2>1 DEF ItemsIn
  <2>3. Len(q) + 1 \notin ItemsIn(q, o)
    BY <1>3 DEF ItemsIn
  <2>4. Cardinality(ItemsIn(q, o) \cup {Len(q) + 1}) = Cardinality(ItemsIn(q, o)) + 1
    BY <2>3, FS_AddElement, ItemsFinite
  <2> QED
    BY <1>5, <2>2, <2>4 DEF new
<1> QED
  BY <1>4, <1>5

\* The first item is done with.
LEMMA ItemDone ==
  ASSUME NEW q, IsSeq(q), q # <<>>, NEW o
  PROVE  /\ Cardinality(ItemsIn(Tail(q), o)) =
              Cardinality(ItemsIn(q, o)) - (IF q[1].obj = o THEN 1 ELSE 0)
         /\ ItemsIn(Tail(q), o) = {} <=> \A i \in 2 .. Len(q) : q[i].obj # o
         /\ q[1].obj # o => (ItemsIn(Tail(q), o) = {} <=> ItemsIn(q, o) = {})
         /\ q[1].obj = o => ItemsIn(q, o) # {}
         /\ ItemsIn(Tail(q), o) # {} => ItemsIn(q, o) # {}
<1> DEFINE rest == Tail(q)
           later == {i \in 2 .. Len(q) : q[i].obj = o}
<1>1. /\ Len(q) \in Nat /\ Len(q) > 0 /\ IsSeq(rest) /\ Len(rest) = Len(q) - 1
      /\ \A i \in 1 .. Len(q) - 1 : rest[i] = q[i + 1]
  BY Taken
<1> HIDE DEF rest
<1>2. \A i \in ItemsIn(rest, o) : i + 1 \in later
  BY <1>1 DEF ItemsIn
<1>3. \A i \in later : i - 1 \in ItemsIn(rest, o) /\ (i - 1) + 1 = i
  <2> SUFFICES ASSUME NEW i \in later
               PROVE  i - 1 \in ItemsIn(rest, o) /\ (i - 1) + 1 = i
    OBVIOUS
  <2>1. PICK j \in 1 .. Len(q) - 1 : j = i - 1 /\ j + 1 = i
    BY <1>1
  <2>2. rest[j] = q[i] /\ j \in 1 .. Len(rest)
    BY <1>1, <2>1
  <2> QED
    BY <2>1, <2>2 DEF ItemsIn
<1>4. ItemsIn(rest, o) \subseteq Int /\ IsFiniteSet(ItemsIn(rest, o))
  <2>1. IsFiniteSet(ItemsIn(rest, o))
    BY <1>1, ItemsFinite
  <2> QED
    BY <1>1, <2>1 DEF ItemsIn
<1>5. IsFiniteSet(later) /\ Cardinality(later) = Cardinality(ItemsIn(rest, o))
  <2> DEFINE f == [i \in ItemsIn(rest, o) |-> i + 1]
  <2>1. f \in [ItemsIn(rest, o) -> later]
    BY <1>2
  <2>2. \A i, j \in ItemsIn(rest, o) : f[i] = f[j] => i = j
    BY <1>4
  <2>3. \A i \in later : \E j \in ItemsIn(rest, o) : f[j] = i
    BY <1>3
  <2> HIDE DEF f, later
  <2>4. f \in Bijection(ItemsIn(rest, o), later)
    BY <2>1, <2>2, <2>3 DEF Bijection, Injection, Surjection, IsInjective
  <2>5. IsFiniteSet(ItemsIn(rest, o))
    BY <1>4
  <2> QED
    BY <2>4, <2>5, FS_Bijection DEF ExistsBijection
<1>6. ItemsIn(rest, o) = {} <=> later = {}
  BY <1>2, <1>3
<1>7. ItemsIn(rest, o) = {} <=> \A i \in 2 .. Len(q) : q[i].obj # o
  BY <1>6
<1>8. 1 \in 1 .. Len(q) /\ \A i \in 1 .. Len(q) : i = 1 \/ i \in 2 .. Len(q)
  BY <1>1
<1>9. \A i \in 2 .. Len(q) : i \in 1 .. Len(q) /\ i # 1
  BY <1>1
<1>10. CASE q[1].obj # o
  <2>1. ItemsIn(q, o) = later
    BY <1>8, <1>9, <1>10 DEF ItemsIn
  <2> QED
    <3>1. Cardinality(ItemsIn(rest, o)) = Cardinality(ItemsIn(q, o)) /\ Cardinality(ItemsIn(q, o)) \in Nat
      BY <1>4, <1>5, <2>1, FS_CardinalityType
    <3> QED
      BY <1>6, <1>7, <1>10, <2>1, <3>1 DEF rest
<1>11. CASE q[1].obj = o
  <2>1. ItemsIn(q, o) = later \cup {1}
    BY <1>8, <1>9, <1>11 DEF ItemsIn
  <2>2. 1 \notin later
    BY <1>9
  <2>3. Cardinality(ItemsIn(q, o)) = Cardinality(later) + 1
    BY <1>5, <2>1, <2>2, FS_AddElement
  <2>4. Cardinality(ItemsIn(rest, o)) \in Nat
    BY <1>4, FS_CardinalityType
  <2>5. Cardinality(ItemsIn(rest, o)) = Cardinality(ItemsIn(q, o)) - 1
    BY <1>5, <2>3, <2>4
  <2> QED
    BY <1>7, <1>11, <2>1, <2>5 DEF rest
<1> QED
  BY <1>10, <1>11

-----------------------------------------------------------------------------
(***************************************************************************)
(* Lemmas about steps.                                                     *)
(***************************************************************************)
\* A thread is one of its class, and there is one thread of the sound class.
LEMMA ThreadFacts ==
  /\ \A t \in Threads : t = <<t[1], t[2]>> /\ t[1] \in Classes /\ t[2] \in 0 .. NumThreads[t[1]] - 1
  /\ \A c \in Classes : \A n \in 0 .. NumThreads[c] - 1 : <<c, n>> \in Threads
  /\ SoundThread \in Threads /\ SoundThread[1] = "sound" /\ SoundThread[2] = 0
  /\ \A t \in Threads : t[1] = "sound" <=> t = SoundThread
  /\ 0 .. NumThreads["sound"] - 1 = {0}
<1>1. \A c \in Classes : \A n \in 0 .. NumThreads[c] - 1 : <<c, n>> \in Threads
  BY DEF Threads
<1>2. \A t \in Threads : t = <<t[1], t[2]>> /\ t[1] \in Classes /\ t[2] \in 0 .. NumThreads[t[1]] - 1
  BY DEF Threads
<1>3. 0 .. NumThreads["sound"] - 1 = {0}
  BY SoundAssumption
<1>4. "sound" \in Classes
  BY DEF Classes
<1>5. SoundThread \in Threads /\ SoundThread[1] = "sound" /\ SoundThread[2] = 0
  BY <1>1, <1>3, <1>4 DEF SoundThread
<1>6. ASSUME NEW t \in Threads, t[1] = "sound"
      PROVE  t = SoundThread
  BY <1>2, <1>3, <1>6 DEF SoundThread
<1> QED
  BY <1>1, <1>2, <1>3, <1>5, <1>6

\* An item in a queue is one of its object and its class.
LEMMA ItemFacts ==
  ASSUME QueuesFit, NEW t \in Threads, queue[t] # <<>>
  PROVE  /\ Item(t) = queue[t][1] /\ Item(t).obj \in Objects /\ ClassOf[Item(t).obj] = t[1]
         /\ Busy(Item(t).obj) /\ ItemsIn(queue[t], Item(t).obj) # {}
<1>1. IsSeq(queue[t])
  BY DEF QueuesFit
<1>2. Len(queue[t]) \in Nat /\ Len(queue[t]) > 0 /\ Head(queue[t]) = queue[t][1]
  BY <1>1, Taken
<1>3. 1 \in 1 .. Len(queue[t])
  BY <1>2
<1>4. 1 \in ItemsIn(queue[t], queue[t][1].obj)
  BY <1>3 DEF ItemsIn
<1> QED
  BY <1>2, <1>3, <1>4 DEF QueuesFit, Item, Busy

\* An object whose items have all been decided about has none left.
LEMMA FinishedIdle ==
  ASSUME QueuesFit, LastKnown, NEW o \in Objects, Finished(o)
  PROVE  ~Busy(o)
<1> SUFFICES ASSUME NEW t \in Threads, ItemsIn(queue[t], o) # {}
             PROVE  FALSE
  BY DEF Busy
<1>1. ClassOf[o] = t[1]
  BY DEF QueuesFit, ItemsIn
<1>2. t = <<ClassOf[o], t[2]>> /\ t[2] \in DOMAIN last[o]
  BY <1>1, ThreadFacts DEF LastKnown
<1>3. last[o][t[2]] = "thread"
  BY <1>2 DEF LastKnown
<1> QED
  BY <1>2, <1>3 DEF Finished

\* What a step does to the queues or buffers of an object disturbs nobody: it uses
\* threads, and no call that stays where it is takes it for idle or drained.
Opens(o) ==
  /\ using'[o]
  /\ \A j \in Callers : call'[j] = call[j] /\ call[j].obj = o =>
       ~MustBeIdle(call[j]) /\ call[j].at \notin CleanupPlaces \cup {"cleanup", "free"}

\* What a step has to keep.
LEMMA StepFits ==
  ASSUME IInv, Finishing, ~fault', dead' = {}, QueuesFit', LastKnown', BuffersCounted',
         \A o \in Objects : ~using'[o] => ~using[o] \/ (~Busy(o) /\ (o \in Instances => Drained(o))),
         \A o \in Objects : Busy(o)' => Busy(o) \/ Opens(o),
         \A o \in Instances : Drained(o) => Drained(o)' \/ Opens(o),
         \A o \in Instances : Empty(o) => Empty(o)' \/ (using'[o] /\ call[Main].obj # o),
         \A p \in Packets : Busy(p)' => p \in exists' /\ p \notin settled' /\ keyLives',
         \A j \in Callers : \/ call'[j] = call[j] /\ PacketFits(call[j])' /\ LastFits(call[j])'
                            \/ CallFits(call[j])'
  PROVE  Finishing'
<1>1. UnusedIsIdle'
  <2> SUFFICES ASSUME NEW o \in Objects, ~using'[o]
               PROVE  ~Busy(o)' /\ (o \in Instances => Drained(o)')
    BY DEF UnusedIsIdle
  <2>1. ~Busy(o) /\ (o \in Instances => Drained(o))
    BY DEF Finishing, UnusedIsIdle
  <2>2. ~Opens(o)
    BY DEF Opens
  <2> QED
    BY <2>1, <2>2
<1>2. BusyPacketsLive'
  BY DEF BusyPacketsLive
<1>3. ASSUME NEW j \in Callers
      PROVE  CallFits(call[j])'
  <2>1. CASE CallFits(call[j])'
    BY <2>1
  <2>2. CASE call'[j] = call[j] /\ PacketFits(call[j])' /\ LastFits(call[j])'
    <3>1. CallFits(call[j])
      BY DEF Finishing, CallsFit
    <3>2. call[j].at = "ready" => call[j].n \in Nat
      BY <3>1 DEF CallFits
    <3>3. SoundFits(call[j])'
      <4>1. SoundFits(call[j])
        BY <3>1 DEF CallFits
      <4>2. ASSUME call[j].obj \in Instances, call[j].at \in CleanupPlaces \cup {"cleanup", "free"}
            PROVE  Drained(call[j].obj)'
        <5>1. ~Opens(call[j].obj)
          BY <2>2, <4>2 DEF Opens
        <5>2. PICK o \in Instances : o = call[j].obj
          BY <4>2
        <5>3. Drained(o) /\ ~Opens(o)
          BY <4>1, <4>2, <5>1, <5>2 DEF SoundFits
        <5>4. Drained(o)'
          BY <5>3
        <5>5. call'[j].obj = o
          BY <2>2, <5>2
        <5> QED
          BY <5>4, <5>5 DEF Drained, Empty
      <4>3. ASSUME call[j].obj \in Instances, call[j].at \in {"reset", "waitBuffers"}
            PROVE  Empty(call[j].obj)'
        <5>1. j = Main
          BY <4>3 DEF IInv, OneCallEach, PlaceFits
        <5>2. PICK o \in Instances : o = call[j].obj
          BY <4>3
        <5>3. Empty(o) /\ call[Main].obj = o
          BY <4>1, <4>3, <5>1, <5>2 DEF SoundFits
        <5>4. Empty(o)'
          BY <5>3
        <5>5. call'[j].obj = o
          BY <2>2, <5>2
        <5> QED
          BY <5>4, <5>5 DEF Empty
      <4> QED
        BY <2>2, <4>2, <4>3 DEF SoundFits
    <3>4. IdleFits(call[j])'
      <4> SUFFICES ASSUME MustBeIdle(call[j])
                   PROVE  ~Busy(call[j].obj)'
        BY <2>2 DEF IdleFits, MustBeIdle
      <4>1. ~Busy(call[j].obj)
        BY <3>1 DEF CallFits, IdleFits
      <4>2. ~Opens(call[j].obj)
        BY <2>2 DEF Opens
      <4>3. PICK o \in Objects : o = call[j].obj
        <5>1. call[j].at \notin {"idle", "finish"}
          BY DEF MustBeIdle, CleanupPlaces
        <5> QED
          BY <5>1, CallHasObject DEF IInv
      <4>4. ~Busy(o)'
        BY <4>1, <4>2, <4>3
      <4>5. call'[j].obj = o
        BY <2>2, <4>3
      <4> QED
        BY <4>4, <4>5 DEF Busy
    <3> QED
      BY <2>2, <3>2, <3>3, <3>4 DEF CallFits
  <2> QED
    BY <2>1, <2>2
<1>4. CallsFit'
  BY <1>3 DEF CallsFit
<1> QED
  BY <1>1, <1>2, <1>4 DEF Finishing

\* A step that leaves queues and buffers alone.
LEMMA SameItems ==
  ASSUME UNCHANGED <<queue, stage, device, inUse, output>>
  PROVE  /\ (QueuesFit => QueuesFit') /\ (BuffersCounted => BuffersCounted')
         /\ \A o : (Busy(o)' <=> Busy(o)) /\ (Empty(o)' <=> Empty(o)) /\ (Drained(o)' <=> Drained(o))
<1>1. QueuesFit => QueuesFit'
  BY DEF QueuesFit
<1>2. BuffersCounted => BuffersCounted'
  BY DEF BuffersCounted, Counted, Released
<1>3. \A o : (Busy(o)' <=> Busy(o)) /\ (Empty(o)' <=> Empty(o)) /\ (Drained(o)' <=> Drained(o))
  BY DEF Busy, Empty, Drained
<1> QED
  BY <1>1, <1>2, <1>3

\* Such a step moves one call.
LEMMA CallMoves ==
  ASSUME IInv, Finishing, NEW k \in Callers, NEW r,
         call' = [call EXCEPT ![k] = r], CallFits(r)',
         UNCHANGED <<queue, stage, dead, last, device, inUse, output>>, ~fault',
         \A o \in Objects : ~using'[o] => ~using[o] \/ (~Busy(o) /\ (o \in Instances => Drained(o))),
         \A p \in Packets : Busy(p) => p \in exists' /\ p \notin settled' /\ keyLives',
         \A j \in Callers : j # k => PacketFits(call[j])' /\ LastFits(call[j])'
  PROVE  Finishing'
<1>1. call'[k] = r /\ \A j \in Callers : j # k => call'[j] = call[j]
  BY CallFacts DEF IInv
<1>2. QueuesFit' /\ BuffersCounted'
  <2>1. QueuesFit /\ BuffersCounted /\ UNCHANGED <<queue, stage, device, inUse, output>>
    BY DEF Finishing
  <2> QED
    BY <2>1, SameItems
<1>3. LastKnown' /\ dead' = {}
  BY DEF Finishing, LastKnown
<1>4. \A o : (Busy(o)' <=> Busy(o)) /\ (Empty(o)' <=> Empty(o)) /\ (Drained(o)' <=> Drained(o))
  BY SameItems
<1>5. CallFits(call[k])'
  BY <1>1 DEF CallFits, PacketFits, SoundFits, IdleFits, LastFits, MustBeIdle, Drained, Empty, Busy
<1>6. ASSUME NEW j \in Callers
      PROVE  \/ call'[j] = call[j] /\ PacketFits(call[j])' /\ LastFits(call[j])'
             \/ CallFits(call[j])'
  <2>1. CASE j = k
    BY <1>5, <2>1
  <2>2. CASE j # k
    BY <1>1, <2>2
  <2> QED
    BY <2>1, <2>2
<1>7. \A p \in Packets : Busy(p)' => p \in exists' /\ p \notin settled' /\ keyLives'
  BY <1>4
<1>8. \A o \in Objects : Busy(o)' => Busy(o) \/ Opens(o)
  BY <1>4
<1>9. \A o \in Instances : (Drained(o) => Drained(o)') /\ (Empty(o) => Empty(o)')
  BY <1>4
<1> QED
  BY <1>2, <1>3, <1>6, <1>7, <1>8, <1>9, StepFits

\* A call moves, and nothing else does that matters here.
LEMMA MoveFits ==
  ASSUME IInv, Finishing, NEW k \in Callers, NEW r,
         call' = [call EXCEPT ![k] = r], CallFits(r),
         UNCHANGED <<queue, stage, dead, last, device, inUse, output, fault,
                     using, usage, exists, settled, keyLives>>
  PROVE  Finishing'
<1>1. call'[k] = r /\ \A j \in Callers : j # k => call'[j] = call[j]
  BY CallFacts DEF IInv
<1>2. CallFits(r)'
  <2>1. \A o : (Busy(o)' <=> Busy(o)) /\ (Empty(o)' <=> Empty(o)) /\ (Drained(o)' <=> Drained(o))
    BY SameItems
  <2> QED
    BY <2>1 DEF CallFits, PacketFits, SoundFits, IdleFits, LastFits, MustBeIdle
<1>3. \A o \in Objects : ~using'[o] => ~using[o] \/ (~Busy(o) /\ (o \in Instances => Drained(o)))
  OBVIOUS
<1>4. \A p \in Packets : Busy(p) => p \in exists' /\ p \notin settled' /\ keyLives'
  BY DEF Finishing, BusyPacketsLive
<1>5. ASSUME NEW j \in Callers, j # k
      PROVE  PacketFits(call[j])' /\ LastFits(call[j])'
  <2>1. CallFits(call[j]) /\ call'[j] = call[j]
    BY <1>1, <1>5 DEF Finishing, CallsFit
  <2> QED
    BY <2>1 DEF CallFits, PacketFits, LastFits
<1>6. ~fault'
  BY DEF Finishing
<1> QED
  BY <1>2, <1>3, <1>4, <1>5, <1>6, CallMoves

\* Nothing changes that matters here.
LEMMA NothingMoves ==
  ASSUME IInv, Finishing,
         UNCHANGED <<queue, stage, dead, last, device, inUse, output, fault, call,
                     using, usage, exists, settled, keyLives>>
  PROVE  Finishing'
<1>1. QueuesFit' /\ BuffersCounted' /\ LastKnown'
  <2>1. QueuesFit /\ BuffersCounted /\ UNCHANGED <<queue, stage, device, inUse, output>>
    BY DEF Finishing
  <2>2. LastKnown'
    BY DEF Finishing, LastKnown
  <2> QED
    BY <2>1, <2>2, SameItems
<1>2. \A o : (Busy(o)' <=> Busy(o)) /\ (Empty(o)' <=> Empty(o)) /\ (Drained(o)' <=> Drained(o))
  BY SameItems
<1>3. UnusedIsIdle' /\ BusyPacketsLive'
  BY <1>2 DEF Finishing, UnusedIsIdle, BusyPacketsLive
<1>4. CallsFit'
  BY <1>2 DEF Finishing, CallsFit, CallFits, PacketFits, SoundFits, IdleFits, LastFits, MustBeIdle
<1> QED
  BY <1>1, <1>3, <1>4 DEF Finishing

\* A record of a call with another place.
LEMMA PlaceChanged ==
  ASSUME NEW c \in Calls, NEW place
  PROVE  /\ [c EXCEPT !.at = place].at = place /\ [c EXCEPT !.at = place].obj = c.obj
         /\ [c EXCEPT !.at = place].n = c.n /\ [c EXCEPT !.at = place].block = c.block
BY DEF Calls

-----------------------------------------------------------------------------
(***************************************************************************)
(* The steps of setups and cleanups, again.                                *)
(***************************************************************************)
\* The call a step makes of one, as a record that does not depend on the state.
LEMMA CallGoes ==
  ASSUME IInv, NEW k \in Callers, NEW place \in Places, NEW m \in Int,
         Learns(k, place, m) \/ (Goto(k, place) /\ m = call[k].n)
  PROVE  \E r \in Calls : /\ call' = [call EXCEPT ![k] = r]
                          /\ r.at = place /\ r.obj = call[k].obj /\ r.n = m /\ r.block = call[k].block
<1>1. /\ Changed(k, place, m) \in Calls
      /\ Learns(k, place, m) => call' = [call EXCEPT ![k] = Changed(k, place, m)]
      /\ Goto(k, place) => call' = [call EXCEPT ![k] = Changed(k, place, call[k].n)]
  BY CallChanged DEF IInv
<1>2. PICK r \in Calls : r = Changed(k, place, m)
  BY <1>1
<1>3. r.at = place /\ r.obj = call[k].obj /\ r.n = m /\ r.block = call[k].block
  BY <1>2 DEF Changed
<1>4. call' = [call EXCEPT ![k] = r]
  BY <1>1, <1>2
<1> QED
  BY <1>3, <1>4

\* What Finishing says of one call.
LEMMA FitsNow ==
  ASSUME Finishing, NEW k \in Callers
  PROVE  /\ call[k].at = "ready" => call[k].n \in Nat
         /\ PacketFits(call[k]) /\ SoundFits(call[k]) /\ IdleFits(call[k]) /\ LastFits(call[k])
BY DEF Finishing, CallsFit, CallFits

\* A setup begins.
LEMMA SetupThreadsFits ==
  ASSUME IInv, Finishing, NEW k \in Callers, SetupThreads(k),
         UNCHANGED <<encryptionVars, soundVars>>
  PROVE  Finishing'
<1>1. /\ call[k].at = "setup"
      /\ UNCHANGED <<queue, stage, dead, last, device, inUse, output, fault, using, usage, exists, settled, keyLives>>
  BY DEF SetupThreads, At, itemVars, encryptionVars, soundVars, bufferVars, outputVars
<1>2. usage[Class(k)] \in Int
  BY <1>1, CallUses DEF IInv, TypeOK, SharedPlaces
<1>3. PICK place \in {"create", "count"} : place = IF usage[Class(k)] = 0 THEN "create" ELSE "count"
  OBVIOUS
<1>4. place \in Places
  BY DEF Places, SharedPlaces
<1>5. PICK m \in Int : m = usage[Class(k)]
  BY <1>2
<1>6. Learns(k, place, m)
  BY <1>3, <1>5 DEF SetupThreads, Learns
<1>7. PICK r \in Calls : /\ call' = [call EXCEPT ![k] = r]
                         /\ r.at = place /\ r.obj = call[k].obj
  BY <1>4, <1>6, CallGoes
<1>8. CallFits(r)
  <2>1. PacketFits(r)
    BY <1>1, <1>7, FitsNow DEF PacketFits, NotYetUsing
  <2> QED
    BY <1>7, <2>1 DEF CallFits, SoundFits, IdleFits, LastFits, MustBeIdle, CleanupPlaces
<1> QED
  BY <1>1, <1>7, <1>8, MoveFits

\* A setup ends.
LEMMA EndSetupFits ==
  ASSUME IInv, Finishing, ~overlapped, NEW k \in Callers, call[k].at \in SetupPlaces, EndSetup(k),
         \A c \in Classes : c # Class(k) => usage'[c] = usage[c],
         UNCHANGED <<queue, stage, dead, last, device, inUse, output, fault, exists, settled, keyLives>>
  PROVE  Finishing'
<1>1. call[k].at \in SharedPlaces /\ call[k].at \in NotYetUsing
  BY DEF SetupPlaces, SharedPlaces, NotYetUsing
<1>2. PICK r \in Calls : /\ call' = [call EXCEPT ![k] = r]
                         /\ r.at = "ready" /\ r.obj = call[k].obj /\ r.n = 0
  <2>1. PICK place \in Places, m \in Int : place = "ready" /\ m = 0
    BY DEF Places, SharedPlaces
  <2>2. Learns(k, place, m)
    BY <2>1 DEF EndSetup, Learns
  <2> QED
    BY <2>1, <2>2, CallGoes
<1>3. \A o \in Objects : using[o] => using'[o]
  BY <1>1, CallUses DEF EndSetup, IInv, TypeOK
<1>4. CallFits(r)'
  <2>1. PacketFits(r)
    BY <1>1, <1>2, FitsNow DEF PacketFits
  <2>2. PacketFits(r)'
    BY <2>1 DEF PacketFits
  <2> QED
    BY <1>2, <2>2 DEF CallFits, SoundFits, IdleFits, LastFits, MustBeIdle, CleanupPlaces
<1>5. ASSUME NEW j \in Callers, j # k
      PROVE  PacketFits(call[j])' /\ LastFits(call[j])'
  <2>1. call'[j] = call[j]
    BY <1>2, <1>5, CallFacts DEF IInv
  <2>2. PacketFits(call[j])'
    BY <2>1, FitsNow DEF PacketFits
  <2>3. ASSUME call[j].at = "release", call[j].block
        PROVE  usage'[ClassOf[call[j].obj]] = 1
    <3>1. Class(j) \in Classes /\ Class(j) = ClassOf[call[j].obj] /\ Class(k) \in Classes
      BY <1>1, <2>3, CallUses DEF SharedPlaces
    <3>2. CountKnown
      BY DEF IInv, CountInv
    <3>3. SettingUp(Class(k)) /\ CleaningUp(Class(j))
      BY <2>3 DEF SettingUp, CleaningUp, SetupPlaces
    <3>4. Class(j) # Class(k)
      BY <3>1, <3>2, <3>3 DEF CountKnown
    <3>5. usage[Class(j)] = 1
      BY <2>3, <3>1, FitsNow DEF LastFits
    <3> QED
      BY <3>1, <3>4, <3>5
  <2> QED
    BY <2>1, <2>2, <2>3 DEF LastFits
<1>6. \A p \in Packets : Busy(p) => p \in exists' /\ p \notin settled' /\ keyLives'
  BY DEF Finishing, BusyPacketsLive
<1>7. ~fault'
  BY DEF Finishing
<1> QED
  BY <1>2, <1>3, <1>4, <1>5, <1>6, <1>7, CallMoves

\* The first user starts the threads.
LEMMA CreateThreadsFits ==
  ASSUME IInv, Finishing, ~overlapped, NEW k \in Callers, CreateThreads(k),
         UNCHANGED <<encryptionVars, soundVars>>
  PROVE  Finishing'
<1>1. /\ call[k].at \in SetupPlaces /\ EndSetup(k)
      /\ usage' = [usage EXCEPT ![Class(k)] = 1]
      /\ UNCHANGED <<queue, stage, dead, last, device, inUse, output, fault, exists, settled, keyLives>>
  BY DEF CreateThreads, At, itemVars, historyVars, encryptionVars, soundVars, bufferVars, outputVars, SetupPlaces
<1>2. \A c \in Classes : c # Class(k) => usage'[c] = usage[c]
  BY <1>1 DEF IInv, TypeOK
<1> QED
  BY <1>1, <1>2, EndSetupFits

\* Another user is counted.
LEMMA CountUserFits ==
  ASSUME IInv, Finishing, ~overlapped, NEW k \in Callers, CountUser(k),
         UNCHANGED <<encryptionVars, soundVars>>
  PROVE  Finishing'
<1>1. /\ call[k].at \in SetupPlaces /\ EndSetup(k)
      /\ \E old : usage' = [usage EXCEPT ![Class(k)] = old + 1]
      /\ UNCHANGED <<queue, stage, dead, last, device, inUse, output, fault, exists, settled, keyLives>>
  BY DEF CountUser, At, itemVars, historyVars, encryptionVars, soundVars, bufferVars, outputVars, SetupPlaces
<1>2. \A c \in Classes : c # Class(k) => usage'[c] = usage[c]
  BY <1>1 DEF IInv, TypeOK
<1> QED
  BY <1>1, <1>2, EndSetupFits

\* A cleanup begins: one whose object is not known to be idle is that of the last user.
LEMMA CleanupThreadsFits ==
  ASSUME IInv, Finishing, ~overlapped, rash' = {}, NEW k \in Callers, CleanupThreads(k),
         UNCHANGED <<encryptionVars, soundVars>>
  PROVE  Finishing'
<1>1. /\ call[k].at = "cleanup"
      /\ UNCHANGED <<queue, stage, dead, last, device, inUse, output, fault, using, usage, exists, settled, keyLives>>
  BY DEF CleanupThreads, At, itemVars, encryptionVars, soundVars, bufferVars, outputVars
<1>2. /\ call[k].obj \in Objects /\ Class(k) \in Classes /\ Class(k) = ClassOf[call[k].obj]
      /\ using[call[k].obj] /\ usage[Class(k)] \in Int
  BY <1>1, CallUses DEF SharedPlaces, StillUsing, IInv, TypeOK
<1>3. PICK m \in Int : m = usage[Class(k)]
  BY <1>2
<1>4. PICK place \in {"release", "leave"} : place = IF m > 0 THEN "release" ELSE "leave"
  OBVIOUS
<1>5. place \in Places
  BY DEF Places, SharedPlaces
<1>6. Learns(k, place, m)
  BY <1>3, <1>4 DEF CleanupThreads, Learns
<1>7. PICK r \in Calls : /\ call' = [call EXCEPT ![k] = r]
                         /\ r.at = place /\ r.obj = call[k].obj /\ r.block = call[k].block
  BY <1>5, <1>6, CallGoes
<1>8. call[k].obj \in Users(Class(k))
  <2>1. \A j \in Callers : call[j].obj = call[k].obj => j = k
    BY <1>2, ObjectFacts DEF IInv, OneCallEach
  <2> QED
    BY <1>1, <1>2, <2>1 DEF Users
<1>9. m = Cardinality(Users(Class(k)))
  BY <1>2, <1>3 DEF IInv, CountInv, CountKnown
<1>10. m > 0
  <2>1. m # 0
    BY <1>8, <1>9, UsersFinite, FS_EmptySet
  <2>2. m \in Nat
    BY <1>9, UsersFinite, FS_CardinalityType
  <2> QED
    BY <2>1, <2>2
<1>11. call[k].block => m = 1
  <2> SUFFICES ASSUME call[k].block
               PROVE  m = 1
    OBVIOUS
  <2>1. Users(Class(k)) = {call[k].obj}
    BY DEF CleanupThreads
  <2> QED
    BY <1>9, <2>1, FS_Singleton
<1>12. place = "release"
  BY <1>4, <1>10
<1>13. CallFits(r)
  <2>1. PacketFits(r) /\ SoundFits(r)
    BY <1>1, <1>7, <1>12, FitsNow DEF PacketFits, SoundFits, NotYetUsing, CleanupPlaces
  <2>2. IdleFits(r)
    BY <1>1, <1>7, <1>12, FitsNow DEF IdleFits, MustBeIdle
  <2>3. LastFits(r)
    BY <1>2, <1>3, <1>7, <1>11 DEF LastFits
  <2> QED
    BY <1>7, <1>12, <2>1, <2>2, <2>3 DEF CallFits
<1> QED
  BY <1>1, <1>7, <1>13, MoveFits

\* A cleanup has read the count and gives its share back: the last user by the count
\* goes on to end the threads.
LEMMA ReleaseThreadsFits ==
  ASSUME IInv, Finishing, ~overlapped, NEW k \in Callers, ReleaseThreads(k),
         UNCHANGED <<encryptionVars, soundVars>>
  PROVE  Finishing'
<1>1. /\ call[k].at = "release" /\ call[k].at \in CleanupPlaces
      /\ UNCHANGED <<queue, stage, dead, last, device, inUse, output, fault, using, exists, settled, keyLives>>
  BY DEF ReleaseThreads, At, itemVars, historyVars, encryptionVars, soundVars, bufferVars, outputVars,
         CleanupPlaces
<1>2. /\ Class(k) \in Classes /\ Class(k) = ClassOf[call[k].obj] /\ usage[Class(k)] \in Int
      /\ usage \in [Classes -> Int] /\ call[k].n \in Int
  BY <1>1, InsideFacts
<1>3. call[k].n = usage[Class(k)]
  BY <1>1 DEF IInv, CountInv, CountKnown
<1>4. PICK m \in Int : m = usage[Class(k)]
  BY <1>2
<1>5. usage' = [usage EXCEPT ![Class(k)] = m - 1] /\ Goto(k, IF m = 1 THEN "clear" ELSE "leave")
  BY <1>3, <1>4 DEF ReleaseThreads
<1>6. PICK place \in {"clear", "leave"} : place = IF m = 1 THEN "clear" ELSE "leave"
  OBVIOUS
<1>7. place \in Places
  BY DEF Places, SharedPlaces
<1>8. PICK r \in Calls : /\ call' = [call EXCEPT ![k] = r]
                         /\ r.at = place /\ r.obj = call[k].obj /\ r.block = call[k].block
  <2>1. PICK n \in Int : n = call[k].n
    BY <1>2
  <2>2. Goto(k, place)
    BY <1>5, <1>6
  <2> QED
    BY <1>7, <2>1, <2>2, CallGoes
<1>9. call[k].block => m = 1
  BY <1>1, <1>2, <1>4, FitsNow DEF LastFits
<1>10. CallFits(r)
  <2>1. PacketFits(r) /\ SoundFits(r)
    BY <1>1, <1>8, FitsNow DEF PacketFits, SoundFits, NotYetUsing, CleanupPlaces
  <2>2. IdleFits(r)
    <3>1. MustBeIdle(r) => ~call[k].block
      BY <1>6, <1>8, <1>9 DEF MustBeIdle
    <3>2. ~call[k].block => ~Busy(call[k].obj)
      BY <1>1, FitsNow DEF IdleFits, MustBeIdle
    <3> QED
      BY <1>8, <3>1, <3>2 DEF IdleFits
  <2> QED
    BY <1>8, <2>1, <2>2 DEF CallFits, LastFits
<1>11. CallFits(r)'
  <2>1. \A o : (Busy(o)' <=> Busy(o)) /\ (Empty(o)' <=> Empty(o)) /\ (Drained(o)' <=> Drained(o))
    BY <1>1, SameItems
  <2> QED
    BY <1>1, <1>8, <1>10, <2>1 DEF CallFits, PacketFits, SoundFits, IdleFits, LastFits, MustBeIdle
<1>12. ASSUME NEW j \in Callers, j # k
       PROVE  PacketFits(call[j])' /\ LastFits(call[j])'
  <2>1. call'[j] = call[j]
    BY <1>8, <1>12, CallFacts DEF IInv
  <2>2. PacketFits(call[j])'
    BY <1>1, <2>1, FitsNow DEF PacketFits
  <2>3. ASSUME call[j].at = "release", call[j].block
        PROVE  usage'[ClassOf[call[j].obj]] = 1
    <3>1. call[j].at \in CleanupPlaces
      BY <2>3 DEF CleanupPlaces
    <3>2. Class(j) \in Classes /\ Class(j) = ClassOf[call[j].obj]
      BY <3>1, InsideFacts
    <3>3. Class(j) # Class(k)
      BY <1>1, <1>2, <1>12, <3>1, <3>2 DEF IInv, Locked
    <3>4. usage[Class(j)] = 1
      BY <2>3, <3>2, FitsNow DEF LastFits
    <3> QED
      BY <1>2, <1>5, <3>2, <3>3, <3>4
  <2> QED
    BY <2>1, <2>2, <2>3 DEF LastFits
<1>13. \A p \in Packets : Busy(p) => p \in exists' /\ p \notin settled' /\ keyLives'
  BY <1>1 DEF Finishing, BusyPacketsLive
<1>14. ~fault' /\ \A o \in Objects : ~using'[o] => ~using[o] \/ (~Busy(o) /\ (o \in Instances => Drained(o)))
  BY <1>1 DEF Finishing
<1> QED
  BY <1>1, <1>8, <1>11, <1>12, <1>13, <1>14, CallMoves

\* The threads have ended: nothing was left for them.
LEMMA ClearThreadsFits ==
  ASSUME IInv, Finishing, NEW k \in Callers, ClearThreads(k),
         UNCHANGED <<encryptionVars, soundVars>>
  PROVE  Finishing'
<1>1. /\ call[k].at = "clear" /\ call[k].at \in CleanupPlaces /\ Goto(k, "leave")
      /\ UNCHANGED <<dead, last, device, inUse, output, fault, using, usage, exists, settled, keyLives>>
  BY DEF ClearThreads, At, historyVars, encryptionVars, soundVars, bufferVars, outputVars, CleanupPlaces
<1>2. /\ Class(k) \in Classes /\ Class(k) = ClassOf[call[k].obj] /\ call[k].obj \in Objects
      /\ call[k].n \in Int
  BY <1>1, InsideFacts
<1>3. \A t \in Threads : t \in ThreadsOf(Class(k)) => queue[t] = <<>> /\ stage[t] = "get"
  BY DEF ClearThreads, HasEnded, ThreadsOf, Finishing, QueuesFit
<1>4. queue' = queue /\ stage' = stage
  <2>1. queue' = [t \in Threads |-> queue[t]]
    BY <1>3 DEF ClearThreads
  <2>2. stage' = [t \in Threads |-> stage[t]]
    BY <1>3 DEF ClearThreads
  <2> QED
    BY <2>1, <2>2 DEF Finishing, QueuesFit
<1>5. ~Busy(call[k].obj)
  <2> SUFFICES ASSUME NEW t \in Threads, ItemsIn(queue[t], call[k].obj) # {}
               PROVE  FALSE
    BY DEF Busy
  <2>1. ClassOf[call[k].obj] = t[1]
    BY DEF Finishing, QueuesFit, ItemsIn
  <2>2. queue[t] = <<>>
    BY <1>2, <1>3, <2>1 DEF ThreadsOf
  <2> QED
    BY <2>2, EmptyIsSeq, ItemsFinite
<1>6. PICK r \in Calls : /\ call' = [call EXCEPT ![k] = r]
                         /\ r.at = "leave" /\ r.obj = call[k].obj
  <2>1. PICK place \in Places, n \in Int : place = "leave" /\ n = call[k].n
    BY <1>2 DEF Places, SharedPlaces
  <2>2. Goto(k, place)
    BY <1>1, <2>1
  <2> QED
    BY <2>1, <2>2, CallGoes
<1>7. CallFits(r)
  <2>1. PacketFits(r) /\ SoundFits(r)
    BY <1>1, <1>6, FitsNow DEF PacketFits, SoundFits, NotYetUsing, CleanupPlaces
  <2>2. IdleFits(r) /\ LastFits(r)
    BY <1>5, <1>6 DEF IdleFits, LastFits
  <2> QED
    BY <1>6, <2>1, <2>2 DEF CallFits
<1> QED
  BY <1>1, <1>4, <1>6, <1>7, MoveFits

\* The cleanup ends: no item of the object is with a thread.
LEMMA LeaveThreadsFits ==
  ASSUME IInv, Finishing, NEW k \in Callers, LeaveThreads(k),
         UNCHANGED <<encryptionVars, soundVars>>
  PROVE  Finishing'
<1>1. /\ call[k].at = "leave" /\ call[k].at \in CleanupPlaces /\ Goto(k, "free")
      /\ using' = [using EXCEPT ![call[k].obj] = FALSE]
      /\ UNCHANGED <<queue, stage, device, inUse, output, usage, exists, settled, keyLives>>
  BY DEF LeaveThreads, At, historyVars, encryptionVars, soundVars, bufferVars, outputVars, CleanupPlaces
<1>2. PICK o \in Objects : o = call[k].obj
  BY <1>1, InsideFacts
<1>3. call[k].n \in Int /\ using \in [Objects -> BOOLEAN]
  BY <1>1, InsideFacts DEF IInv, TypeOK
<1>4. ~Busy(o) /\ (o \in Instances => Drained(o))
  BY <1>1, <1>2, FitsNow DEF IdleFits, SoundFits, MustBeIdle
<1>5. /\ DOMAIN last[o] = 0 .. NumThreads[ClassOf[o]] - 1 /\ DOMAIN last = Objects
      /\ \A n \in DOMAIN last[o] : last[o][n] # "thread" /\ ItemsIn(queue[<<ClassOf[o], n>>], o) = {}
  <2>1. DOMAIN last[o] = 0 .. NumThreads[ClassOf[o]] - 1 /\ DOMAIN last = Objects
    BY DEF Finishing, LastKnown
  <2>2. ASSUME NEW n \in DOMAIN last[o]
        PROVE  last[o][n] # "thread" /\ ItemsIn(queue[<<ClassOf[o], n>>], o) = {}
    <3>1. <<ClassOf[o], n>> \in Threads
      BY <2>1, ThreadFacts, ObjectFacts
    <3>2. ItemsIn(queue[<<ClassOf[o], n>>], o) = {}
      BY <1>4, <3>1 DEF Busy
    <3> QED
      BY <3>2 DEF Finishing, LastKnown
  <2> QED
    BY <2>1, <2>2
<1>6. ~fault' /\ dead' = {}
  <2>1. dead' = {}
    BY DEF LeaveThreads, Finishing
  <2>2. {n \in DOMAIN last[o] : last[o][n] = "thread"} = {}
    BY <1>5
  <2> QED
    BY <1>2, <2>1, <2>2 DEF LeaveThreads
<1>7. QueuesFit' /\ BuffersCounted'
  <2>1. QueuesFit /\ BuffersCounted /\ UNCHANGED <<queue, stage, device, inUse, output>>
    BY <1>1 DEF Finishing
  <2> QED
    BY <2>1, SameItems
<1>8. LastKnown'
  <2>1. last' = [last EXCEPT ![o] = [n \in DOMAIN last[o] |-> "none"]]
    BY <1>2, <1>5 DEF LeaveThreads
  <2>2. DOMAIN last' = Objects /\ \A x \in Objects : x # o => last'[x] = last[x]
    BY <1>5, <2>1
  <2>3. last'[o] = [n \in DOMAIN last[o] |-> "none"]
    BY <1>5, <2>1
  <2>4. DOMAIN last'[o] = DOMAIN last[o] /\ \A n \in DOMAIN last[o] : last'[o][n] # "thread"
    BY <2>3
  <2>5. ASSUME NEW x \in Objects
        PROVE  /\ DOMAIN last'[x] = 0 .. NumThreads[ClassOf[x]] - 1
               /\ \A n \in DOMAIN last'[x] :
                    last'[x][n] = "thread" <=> ItemsIn(queue'[<<ClassOf[x], n>>], x) # {}
    <3>1. CASE x = o
      BY <1>1, <1>5, <2>4, <3>1
    <3>2. CASE x # o
      BY <1>1, <2>2, <3>2 DEF Finishing, LastKnown
    <3> QED
      BY <3>1, <3>2
  <2> QED
    BY <2>2, <2>5 DEF LastKnown
<1>9. \A x : (Busy(x)' <=> Busy(x)) /\ (Empty(x)' <=> Empty(x)) /\ (Drained(x)' <=> Drained(x))
  BY <1>1, SameItems
<1>10. \A x \in Objects : ~using'[x] => ~using[x] \/ (~Busy(x) /\ (x \in Instances => Drained(x)))
  BY <1>1, <1>2, <1>3, <1>4
<1>11. PICK r \in Calls : /\ call' = [call EXCEPT ![k] = r]
                          /\ r.at = "free" /\ r.obj = o
  <2>1. PICK place \in Places, n \in Int : place = "free" /\ n = call[k].n
    BY <1>3 DEF Places, SharedPlaces
  <2>2. Goto(k, place)
    BY <1>1, <2>1
  <2> QED
    BY <1>2, <2>1, <2>2, CallGoes
<1>12. call'[k] = r /\ \A j \in Callers : j # k => call'[j] = call[j]
  BY <1>11, CallFacts DEF IInv
<1>13. CallFits(call[k])'
  <2>1. PacketFits(r)'
    BY <1>1, <1>2, <1>11, FitsNow DEF PacketFits, NotYetUsing
  <2>2. SoundFits(r)' /\ IdleFits(r)'
    BY <1>4, <1>9, <1>11 DEF SoundFits, IdleFits
  <2>3. CallFits(r)'
    BY <1>11, <2>1, <2>2 DEF CallFits, LastFits
  <2> QED
    BY <1>12, <2>3 DEF CallFits, PacketFits, SoundFits, IdleFits, LastFits, MustBeIdle, Drained, Empty, Busy
<1>14. ASSUME NEW j \in Callers
       PROVE  \/ call'[j] = call[j] /\ PacketFits(call[j])' /\ LastFits(call[j])'
              \/ CallFits(call[j])'
  <2>1. CASE j = k
    BY <1>13, <2>1
  <2>2. CASE j # k
    <3>1. call'[j] = call[j]
      BY <1>12, <2>2
    <3> QED
      BY <1>1, <3>1, FitsNow DEF PacketFits, LastFits
  <2> QED
    BY <2>1, <2>2
<1>15. \A p \in Packets : Busy(p)' => p \in exists' /\ p \notin settled' /\ keyLives'
  BY <1>1, <1>9 DEF Finishing, BusyPacketsLive
<1>16. \A x \in Objects : Busy(x)' => Busy(x) \/ Opens(x)
  BY <1>9
<1>17. \A x \in Instances : (Drained(x) => Drained(x)') /\ (Empty(x) => Empty(x)')
  BY <1>9
<1> QED
  BY <1>6, <1>7, <1>8, <1>10, <1>14, <1>15, <1>16, <1>17, StepFits

-----------------------------------------------------------------------------
(***************************************************************************)
(* Items are posted and decided about.                                     *)
(***************************************************************************)
\* What is posted is in the queue of one thread, and noted.
LEMMA PostFits ==
  ASSUME Finishing, NEW o \in Objects, NEW n \in 0 .. NumThreads[ClassOf[o]] - 1, NEW arg,
         PostMessageItem(o, n, arg), UNCHANGED <<stage, dead>>
  PROVE  /\ QueuesFit' /\ LastKnown'
         /\ \A x : x # o => (Busy(x)' <=> Busy(x))
         /\ \A x \in Instances :
              /\ Cardinality(ItemsIn(queue'[SoundThread], x)) =
                   Cardinality(ItemsIn(queue[SoundThread], x)) + (IF x = o THEN 1 ELSE 0)
              /\ Released(x)' <=> Released(x)
<1>1. PICK t \in Threads : t = <<ClassOf[o], n>>
  BY ThreadFacts, ObjectFacts
<1>2. PICK item : item = [obj |-> o, arg |-> arg]
  OBVIOUS
<1>3. item.obj = o
  BY <1>2
<1>4. /\ queue' = [queue EXCEPT ![t] = Append(queue[t], item)]
      /\ last' = [last EXCEPT ![o][n] = "thread"]
  BY <1>1, <1>2 DEF PostMessageItem, Finishing
<1>5. QueuesFit /\ LastKnown
  BY DEF Finishing
<1>6. queue'[t] = Append(queue[t], item) /\ \A u \in Threads : u # t => queue'[u] = queue[u]
  BY <1>4, <1>5 DEF QueuesFit
<1>7. IsSeq(queue[t])
  BY <1>5 DEF QueuesFit
<1>8. /\ Len(queue[t]) \in Nat /\ IsSeq(queue'[t]) /\ Len(queue'[t]) = Len(queue[t]) + 1
      /\ queue'[t] # <<>>
      /\ \A i \in 1 .. Len(queue[t]) : queue'[t][i] = queue[t][i]
      /\ queue'[t][Len(queue[t]) + 1] = item
  BY <1>6, <1>7, Appended
<1>9. /\ \A x : x # o => ItemsIn(queue'[t], x) = ItemsIn(queue[t], x)
      /\ ItemsIn(queue'[t], o) # {}
      /\ Cardinality(ItemsIn(queue'[t], o)) = Cardinality(ItemsIn(queue[t], o)) + 1
  BY <1>3, <1>6, <1>7, ItemPosted
<1>10. QueuesFit'
  <2>1. queue' = [u \in Threads |-> queue'[u]] /\ stage' = [u \in Threads |-> stage'[u]]
    BY <1>4, <1>5 DEF QueuesFit
  <2>2. ASSUME NEW i \in 1 .. Len(queue'[t])
        PROVE  queue'[t][i].obj \in Objects /\ ClassOf[queue'[t][i].obj] = t[1]
    <3>1. CASE i \in 1 .. Len(queue[t])
      BY <1>5, <1>8, <3>1 DEF QueuesFit
    <3>2. CASE i = Len(queue[t]) + 1
      BY <1>1, <1>3, <1>8, <3>2
    <3> QED
      BY <1>8, <3>1, <3>2
  <2>3. ASSUME NEW u \in Threads
        PROVE  /\ IsSeq(queue'[u])
               /\ \A i \in 1 .. Len(queue'[u]) :
                    queue'[u][i].obj \in Objects /\ ClassOf[queue'[u][i].obj] = u[1]
               /\ stage'[u] # "get" => queue'[u] # <<>>
    <3>1. CASE u = t
      BY <1>8, <2>2, <3>1
    <3>2. CASE u # t
      <4>1. queue'[u] = queue[u] /\ stage'[u] = stage[u]
        BY <1>6, <3>2
      <4> QED
        BY <1>5, <4>1 DEF QueuesFit
    <3> QED
      BY <3>1, <3>2
  <2> QED
    BY <2>1, <2>3 DEF QueuesFit
<1>11. LastKnown'
  <2>1. /\ DOMAIN last' = Objects /\ \A x \in Objects : x # o => last'[x] = last[x]
        /\ DOMAIN last'[o] = DOMAIN last[o] /\ DOMAIN last[o] = 0 .. NumThreads[ClassOf[o]] - 1
        /\ last'[o][n] = "thread" /\ \A m \in DOMAIN last[o] : m # n => last'[o][m] = last[o][m]
    BY <1>4, <1>5 DEF LastKnown
  <2>2. ASSUME NEW x \in Objects, NEW m \in 0 .. NumThreads[ClassOf[x]] - 1
        PROVE  last'[x][m] = "thread" <=> ItemsIn(queue'[<<ClassOf[x], m>>], x) # {}
    <3>1. PICK u \in Threads : u = <<ClassOf[x], m>>
      BY ThreadFacts, ObjectFacts
    <3>2. last[x][m] = "thread" <=> ItemsIn(queue[u], x) # {}
      BY <1>5, <3>1 DEF LastKnown
    <3>3. CASE x = o /\ m = n
      BY <1>1, <1>9, <2>1, <3>3
    <3>4. CASE x = o /\ m # n
      <4>1. u # t
        BY <1>1, <3>1, <3>4
      <4> QED
        BY <1>6, <2>1, <3>1, <3>2, <3>4, <4>1
    <3>5. CASE x # o
      <4>1. ItemsIn(queue'[u], x) = ItemsIn(queue[u], x)
        BY <1>6, <1>9, <3>5
      <4> QED
        BY <2>1, <3>1, <3>2, <3>5, <4>1
    <3> QED
      BY <3>3, <3>4, <3>5
  <2>3. \A x \in Objects : DOMAIN last'[x] = 0 .. NumThreads[ClassOf[x]] - 1
    BY <1>5, <2>1 DEF LastKnown
  <2> QED
    BY <2>1, <2>2, <2>3 DEF LastKnown
<1>12. ASSUME NEW x, x # o
       PROVE  Busy(x)' <=> Busy(x)
  <2>1. \A u \in Threads : ItemsIn(queue'[u], x) = ItemsIn(queue[u], x)
    BY <1>6, <1>9, <1>12
  <2> QED
    BY <2>1 DEF Busy
<1>13. ASSUME NEW x \in Instances
       PROVE  /\ Cardinality(ItemsIn(queue'[SoundThread], x)) =
                   Cardinality(ItemsIn(queue[SoundThread], x)) + (IF x = o THEN 1 ELSE 0)
              /\ Released(x)' <=> Released(x)
  <2>1. /\ IsSeq(queue[SoundThread]) /\ stage'[SoundThread] = stage[SoundThread]
        /\ stage[SoundThread] # "get" => queue[SoundThread] # <<>>
    BY <1>5, ThreadFacts DEF QueuesFit
  <2>2. Cardinality(ItemsIn(queue[SoundThread], x)) \in Nat
    BY <2>1, ItemsFinite
  <2>3. Released(x)' <=> Released(x)
    <3>1. CASE stage[SoundThread] = "decide"
      <4>1. Len(queue[SoundThread]) \in Nat /\ Len(queue[SoundThread]) > 0
        BY <2>1, <3>1, Taken
      <4>2. 1 \in 1 .. Len(queue[SoundThread])
        BY <4>1
      <4>3. queue'[SoundThread][1] = queue[SoundThread][1]
        BY <1>6, <1>8, <4>2, ThreadFacts
      <4> QED
        BY <2>1, <4>3 DEF Released
    <3>2. CASE stage[SoundThread] # "decide"
      BY <2>1, <3>2 DEF Released
    <3> QED
      BY <3>1, <3>2
  <2>4. CASE x = o
    <3>1. t = SoundThread
      BY <1>1, <2>4, ObjectFacts, ThreadFacts
    <3> QED
      BY <1>9, <2>3, <2>4, <3>1
  <2>5. CASE x # o
    <3>1. ItemsIn(queue'[SoundThread], x) = ItemsIn(queue[SoundThread], x)
      BY <1>6, <1>9, <2>5, ThreadFacts
    <3> QED
      BY <2>2, <2>3, <2>5, <3>1
  <2> QED
    BY <2>4, <2>5
<1> QED
  BY <1>10, <1>11, <1>12, <1>13

\* A thread is done with an item.
LEMMA ThreadDecidesFits ==
  ASSUME IInv, Finishing, NEW t \in Threads, ThreadDecides(t),
         UNCHANGED <<encryptionVars, soundVars>>
  PROVE  Finishing'
<1>1. /\ stage[t] = "decide" /\ stage' = [stage EXCEPT ![t] = "get"]
      /\ queue' = [queue EXCEPT ![t] = Tail(queue[t])]
      /\ UNCHANGED <<dead, device, inUse, output, fault, call, using, usage, exists, settled, keyLives>>
  BY DEF ThreadDecides, historyVars, encryptionVars, soundVars, bufferVars, outputVars, Finishing, QueuesFit
<1>2. QueuesFit /\ LastKnown /\ BuffersCounted
  BY DEF Finishing
<1>3. queue[t] # <<>> /\ IsSeq(queue[t])
  BY <1>1, <1>2 DEF QueuesFit
<1>4. PICK o \in Objects : /\ o = Item(t).obj /\ ClassOf[o] = t[1] /\ queue[t][1].obj = o
                           /\ ItemsIn(queue[t], o) # {}
  BY <1>2, <1>3, ItemFacts
<1>5. /\ queue'[t] = Tail(queue[t]) /\ stage'[t] = "get"
      /\ \A u \in Threads : u # t => queue'[u] = queue[u] /\ stage'[u] = stage[u]
      /\ queue' = [u \in Threads |-> queue'[u]] /\ stage' = [u \in Threads |-> stage'[u]]
  BY <1>1, <1>2 DEF QueuesFit
<1>6. /\ Len(queue[t]) \in Nat /\ Len(queue[t]) > 0
      /\ IsSeq(queue'[t]) /\ Len(queue'[t]) = Len(queue[t]) - 1
      /\ \A i \in 1 .. Len(queue[t]) - 1 : queue'[t][i] = queue[t][i + 1]
  BY <1>3, <1>5, Taken
<1>7. \A x : /\ Cardinality(ItemsIn(queue'[t], x)) =
                  Cardinality(ItemsIn(queue[t], x)) - (IF o = x THEN 1 ELSE 0)
             /\ ItemsIn(queue'[t], x) = {} <=> \A i \in 2 .. Len(queue[t]) : queue[t][i].obj # x
             /\ o # x => (ItemsIn(queue'[t], x) = {} <=> ItemsIn(queue[t], x) = {})
             /\ ItemsIn(queue'[t], x) # {} => ItemsIn(queue[t], x) # {}
  <2>1. PICK q : q = queue[t]
    OBVIOUS
  <2>2. IsSeq(q) /\ q # <<>> /\ q[1].obj = o /\ queue'[t] = Tail(q)
    BY <1>3, <1>4, <1>5, <2>1
  <2>3. ASSUME NEW x
        PROVE  /\ Cardinality(ItemsIn(Tail(q), x)) =
                    Cardinality(ItemsIn(q, x)) - (IF o = x THEN 1 ELSE 0)
               /\ ItemsIn(Tail(q), x) = {} <=> \A i \in 2 .. Len(q) : q[i].obj # x
               /\ o # x => (ItemsIn(Tail(q), x) = {} <=> ItemsIn(q, x) = {})
               /\ ItemsIn(Tail(q), x) # {} => ItemsIn(q, x) # {}
    BY <2>2, ItemDone
  <2> QED
    BY <2>1, <2>2, <2>3
<1>8. QueuesFit'
  <2>1. ASSUME NEW i \in 1 .. Len(queue'[t])
        PROVE  queue'[t][i].obj \in Objects /\ ClassOf[queue'[t][i].obj] = t[1]
    <3>1. i + 1 \in 1 .. Len(queue[t]) /\ queue'[t][i] = queue[t][i + 1]
      BY <1>6
    <3> QED
      BY <1>2, <3>1 DEF QueuesFit
  <2>2. ASSUME NEW u \in Threads
        PROVE  /\ IsSeq(queue'[u])
               /\ \A i \in 1 .. Len(queue'[u]) :
                    queue'[u][i].obj \in Objects /\ ClassOf[queue'[u][i].obj] = u[1]
               /\ stage'[u] # "get" => queue'[u] # <<>>
    <3>1. CASE u = t
      BY <1>5, <1>6, <2>1, <3>1
    <3>2. CASE u # t
      <4>1. queue'[u] = queue[u] /\ stage'[u] = stage[u]
        BY <1>5, <3>2
      <4> QED
        BY <1>2, <4>1 DEF QueuesFit
    <3> QED
      BY <3>1, <3>2
  <2> QED
    BY <1>5, <2>2 DEF QueuesFit
<1>9. LastKnown'
  <2>1. PICK n \in 0 .. NumThreads[ClassOf[o]] - 1 : t = <<ClassOf[o], n>> /\ n = t[2]
    BY <1>4, ThreadFacts
  <2>2. Newest(t) <=> ItemsIn(queue'[t], o) = {}
    BY <1>4, <1>7 DEF Newest
  <2>3. last' = IF Newest(t) THEN [last EXCEPT ![o][n] = "sender"] ELSE last
    BY <1>4, <2>1 DEF ThreadDecides
  <2>4. last[o][n] = "thread"
    BY <1>2, <1>4, <2>1 DEF LastKnown
  <2>5. /\ DOMAIN last' = Objects /\ \A x \in Objects : x # o => last'[x] = last[x]
        /\ DOMAIN last'[o] = DOMAIN last[o] /\ DOMAIN last[o] = 0 .. NumThreads[ClassOf[o]] - 1
        /\ \A m \in DOMAIN last[o] : m # n => last'[o][m] = last[o][m]
        /\ last'[o][n] = IF Newest(t) THEN "sender" ELSE "thread"
    BY <1>2, <2>3, <2>4 DEF LastKnown
  <2>6. ASSUME NEW x \in Objects, NEW m \in 0 .. NumThreads[ClassOf[x]] - 1
        PROVE  last'[x][m] = "thread" <=> ItemsIn(queue'[<<ClassOf[x], m>>], x) # {}
    <3>1. PICK u \in Threads : u = <<ClassOf[x], m>>
      BY ThreadFacts, ObjectFacts
    <3>2. last[x][m] = "thread" <=> ItemsIn(queue[u], x) # {}
      BY <1>2, <3>1 DEF LastKnown
    <3>3. CASE x = o /\ m = n
      BY <2>1, <2>2, <2>5, <3>3
    <3>4. CASE x = o /\ m # n
      <4>1. u # t
        BY <2>1, <3>1, <3>4
      <4> QED
        BY <1>5, <2>5, <3>1, <3>2, <3>4, <4>1
    <3>5. CASE x # o
      <4>1. ItemsIn(queue'[u], x) # {} <=> ItemsIn(queue[u], x) # {}
        BY <1>5, <1>7, <3>5
      <4> QED
        BY <2>5, <3>1, <3>2, <3>5, <4>1
    <3> QED
      BY <3>3, <3>4, <3>5
  <2>7. \A x \in Objects : DOMAIN last'[x] = 0 .. NumThreads[ClassOf[x]] - 1
    BY <1>2, <2>5 DEF LastKnown
  <2> QED
    BY <2>5, <2>6, <2>7 DEF LastKnown
<1>10. ASSUME NEW x, Busy(x)'
       PROVE  Busy(x)
  <2>1. \A u \in Threads : ItemsIn(queue'[u], x) # {} => ItemsIn(queue[u], x) # {}
    BY <1>5, <1>7
  <2> QED
    BY <1>10, <2>1 DEF Busy
<1>11. BuffersCounted'
  <2>1. ASSUME NEW x \in Instances
        PROVE  Counted(x)'
    <3>1. Counted(x) /\ IsSeq(queue[SoundThread]) /\ Cardinality(ItemsIn(queue[SoundThread], x)) \in Nat
      BY <1>2, ItemsFinite, ThreadFacts DEF BuffersCounted, QueuesFit
    <3>2. CASE t = SoundThread
      <4>1. ~Released(x)' /\ (Released(x) <=> o = x)
        BY <1>1, <1>4, <1>5, <3>2 DEF Released
      <4> QED
        BY <1>1, <1>7, <3>1, <3>2, <4>1 DEF Counted
    <3>3. CASE t # SoundThread
      <4>1. queue'[SoundThread] = queue[SoundThread] /\ stage'[SoundThread] = stage[SoundThread]
        BY <1>5, <3>3, ThreadFacts
      <4> QED
        BY <1>1, <3>1, <4>1 DEF Counted, Released
    <3> QED
      BY <3>2, <3>3
  <2> QED
    BY <1>1, <1>2, <2>1 DEF BuffersCounted
<1>12. \A x : (Empty(x)' <=> Empty(x)) /\ (Drained(x)' <=> Drained(x))
  BY <1>1 DEF Empty, Drained
<1>13. \A j \in Callers : call'[j] = call[j] /\ PacketFits(call[j])' /\ LastFits(call[j])'
  BY <1>1, FitsNow DEF PacketFits, LastFits
<1>14. \A p \in Packets : Busy(p)' => p \in exists' /\ p \notin settled' /\ keyLives'
  BY <1>1, <1>10 DEF Finishing, BusyPacketsLive
<1>15. ~fault' /\ dead' = {}
  BY <1>1 DEF Finishing
<1>16. \A x \in Objects : ~using'[x] => ~using[x] \/ (~Busy(x) /\ (x \in Instances => Drained(x)))
  BY <1>1
<1> QED
  BY <1>8, <1>9, <1>10, <1>11, <1>12, <1>13, <1>14, <1>15, <1>16, StepFits

-----------------------------------------------------------------------------
(***************************************************************************)
(* The steps of packets, again.                                            *)
(***************************************************************************)
\* An idle call knows nothing.
LEMMA IdleFitsAll == Idle \in Calls /\ CallFits(Idle) /\ CallFits(Idle)'
<1>1. Idle \in Calls /\ Idle.at = "idle" /\ Idle.obj = None
  BY IdleFacts
<1> QED
  BY <1>1, ObjectFacts
  DEF CallFits, PacketFits, SoundFits, IdleFits, LastFits, MustBeIdle, CleanupPlaces

\* An operation begins: its packet is not known to be finished any more.
LEMMA BeginOperationFits ==
  ASSUME IInv, Finishing, NEW k \in Callers, NEW p \in Packets, NEW op \in Operations,
         NEW block \in BOOLEAN, BeginOperation(k, p, op, block), UNCHANGED soundVars
  PROVE  Finishing'
<1>1. /\ p \in exists /\ keyLives /\ settled' = settled \ {p}
      /\ UNCHANGED <<queue, stage, dead, last, device, inUse, output, fault, using, usage, exists, keyLives>>
  BY DEF BeginOperation, Unused, itemVars, historyVars, soundVars, bufferVars, outputVars
<1>2. PICK place \in {"ready", "setup"} : place = IF using[p] THEN "ready" ELSE "setup"
  OBVIOUS
<1>3. PICK r : r = [at |-> place, obj |-> p, n |-> 0, block |-> block]
  OBVIOUS
<1>4. r.at = place /\ r.obj = p /\ r.n = 0
  BY <1>3
<1>5. call' = [call EXCEPT ![k] = r]
  BY <1>2, <1>3 DEF BeginOperation
<1>6. CallFits(r)'
  BY <1>1, <1>4, ObjectFacts
  DEF CallFits, PacketFits, SoundFits, IdleFits, LastFits, MustBeIdle, CleanupPlaces
<1>7. ASSUME NEW j \in Callers, j # k
      PROVE  PacketFits(call[j])' /\ LastFits(call[j])'
  <2>1. call'[j] = call[j]
    BY <1>5, <1>7, CallFacts DEF IInv
  <2> QED
    BY <1>1, <2>1, FitsNow DEF PacketFits, LastFits
<1>8. \A x \in Packets : Busy(x) => x \in exists' /\ x \notin settled' /\ keyLives'
  BY <1>1 DEF Finishing, BusyPacketsLive
<1>9. ~fault' /\ \A o \in Objects : ~using'[o] => ~using[o] \/ (~Busy(o) /\ (o \in Instances => Drained(o)))
  BY <1>1 DEF Finishing
<1> QED
  BY <1>1, <1>5, <1>6, <1>7, <1>8, <1>9, CallMoves

\* An item is posted to the next thread.
LEMMA PostItemFits ==
  ASSUME IInv, Finishing, NEW k \in Callers, PostItem(k), UNCHANGED soundVars
  PROVE  Finishing'
<1>1. /\ call[k].at = "ready" /\ Class(k) = "packet" /\ call[k].n < GetNumThreads("packet")
      /\ call' = [call EXCEPT ![k].n = call[k].n + 1]
      /\ UNCHANGED <<stage, dead, device, inUse, output, fault, using, usage, exists, settled, keyLives>>
  BY DEF PostItem, At, historyVars, encryptionVars, soundVars, bufferVars, outputVars
<1>2. PICK p \in Packets : p = call[k].obj /\ p \in Objects /\ p \notin Instances /\ ClassOf[p] = "packet"
  BY <1>1, PacketCall, ObjectFacts
<1>3. PICK n \in Nat : n = call[k].n
  BY <1>1, FitsNow
<1>4. n \in 0 .. NumThreads[ClassOf[p]] - 1
  <2>1. NumThreads["packet"] \in Nat
    BY SharedThreadsAssumption DEF Classes
  <2>2. n < NumThreads["packet"]
    <3>1. CASE pool["packet"]
      BY <1>1, <1>3, <3>1 DEF GetNumThreads
    <3>2. CASE ~pool["packet"]
      BY <1>1, <1>3, <3>2 DEF GetNumThreads
    <3> QED
      BY <3>1, <3>2
  <2> QED
    BY <1>2, <2>1, <2>2
<1>5. PICK arg : PostMessageItem(p, n, arg)
  BY <1>2, <1>3 DEF PostItem
<1>6. /\ QueuesFit' /\ LastKnown'
      /\ \A x : x # p => (Busy(x)' <=> Busy(x))
      /\ \A x \in Instances :
           /\ Cardinality(ItemsIn(queue'[SoundThread], x)) =
                Cardinality(ItemsIn(queue[SoundThread], x)) + (IF x = p THEN 1 ELSE 0)
           /\ Released(x)' <=> Released(x)
  BY <1>1, <1>2, <1>4, <1>5, PostFits
<1>7. BuffersCounted'
  <2>1. ASSUME NEW x \in Instances
        PROVE  Counted(x)'
    <3>1. Cardinality(ItemsIn(queue[SoundThread], x)) \in Nat
      BY ItemsFinite, ThreadFacts DEF Finishing, QueuesFit
    <3>2. Cardinality(ItemsIn(queue'[SoundThread], x)) = Cardinality(ItemsIn(queue[SoundThread], x))
      BY <1>2, <1>6, <3>1
    <3> QED
      BY <1>1, <1>6, <3>2 DEF Finishing, BuffersCounted, Counted
  <2> QED
    BY <1>1, <2>1 DEF Finishing, BuffersCounted
<1>8. call[k] \in Calls /\ call \in [Callers -> Calls]
  BY CallFacts DEF IInv
<1>9. /\ call'[k] = [call[k] EXCEPT !.n = n + 1]
      /\ \A j \in Callers : j # k => call'[j] = call[j] /\ call[j].obj # p
  BY <1>1, <1>2, <1>3, <1>8, ObjectFacts DEF IInv, OneCallEach
<1>10. /\ call'[k].at = call[k].at /\ call'[k].obj = p /\ call'[k].n = n + 1
  BY <1>2, <1>8, <1>9 DEF Calls
<1>11. PacketFits(call[k])
  BY FitsNow
<1>12. CallFits(call[k])'
  <2>1. PacketFits(call[k])'
    BY <1>1, <1>2, <1>10, <1>11 DEF PacketFits
  <2> QED
    BY <1>1, <1>2, <1>10, <2>1
    DEF CallFits, SoundFits, IdleFits, LastFits, MustBeIdle, CleanupPlaces
<1>13. ASSUME NEW j \in Callers
       PROVE  \/ call'[j] = call[j] /\ PacketFits(call[j])' /\ LastFits(call[j])'
              \/ CallFits(call[j])'
  <2>1. CASE j = k
    BY <1>12, <2>1
  <2>2. CASE j # k
    <3>1. call'[j] = call[j]
      BY <1>9, <2>2
    <3> QED
      BY <1>1, <3>1, FitsNow DEF PacketFits, LastFits
  <2> QED
    BY <2>1, <2>2
<1>14. Opens(p)
  <2>1. using[p]
    BY <1>1, <1>2 DEF IInv, UsingKnown, UsingFits, StillUsing
  <2>2. ASSUME NEW j \in Callers, call[j].obj = p
        PROVE  ~MustBeIdle(call[j]) /\ call[j].at \notin CleanupPlaces \cup {"cleanup", "free"}
    <3>1. j = k
      BY <1>9, <2>2
    <3> QED
      BY <1>1, <3>1 DEF MustBeIdle, CleanupPlaces
  <2> QED
    BY <1>1, <2>1, <2>2 DEF Opens
<1>15. \A x \in Objects : Busy(x)' => Busy(x) \/ Opens(x)
  BY <1>6, <1>14
<1>16. \A x \in Packets : Busy(x)' => x \in exists' /\ x \notin settled' /\ keyLives'
  <2>1. p \in exists /\ p \notin settled /\ keyLives
    BY <1>1, <1>2, <1>11 DEF PacketFits
  <2>2. \A x \in Packets : Busy(x) => x \in exists /\ x \notin settled /\ keyLives
    BY DEF Finishing, BusyPacketsLive
  <2> QED
    BY <1>1, <1>6, <2>1, <2>2
<1>17. \A x : (Empty(x)' <=> Empty(x)) /\ (Drained(x)' <=> Drained(x))
  BY <1>1 DEF Empty, Drained
<1>18. /\ ~fault' /\ dead' = {}
       /\ \A x \in Objects : ~using'[x] => ~using[x] \/ (~Busy(x) /\ (x \in Instances => Drained(x)))
  BY <1>1 DEF Finishing
<1> QED
  BY <1>6, <1>7, <1>13, <1>15, <1>16, <1>17, <1>18, StepFits

\* The loop ends.
LEMMA EndLoopFits ==
  ASSUME IInv, Finishing, NEW k \in Callers, EndLoop(k), UNCHANGED soundVars
  PROVE  Finishing'
<1>1. /\ call[k].at = "ready" /\ Class(k) = "packet"
      /\ UNCHANGED <<queue, stage, dead, last, device, inUse, output, fault, using, usage, exists, settled, keyLives>>
  BY DEF EndLoop, At, itemVars, historyVars, encryptionVars, soundVars, bufferVars, outputVars
<1>2. PICK p \in Packets : p = call[k].obj /\ p \notin Instances
  BY <1>1, PacketCall
<1>3. call[k] \in Calls /\ call \in [Callers -> Calls]
  BY CallFacts DEF IInv
<1>4. CASE ~call[k].block
  <2>1. PICK r : r = Idle
    OBVIOUS
  <2>2. call' = [call EXCEPT ![k] = r]
    BY <1>3, <1>4, <2>1 DEF EndLoop
  <2>3. CallFits(r)
    BY <2>1, IdleFitsAll
  <2> QED
    BY <1>1, <2>2, <2>3, MoveFits
<1>5. CASE call[k].block
  <2>1. PICK r : r = [call[k] EXCEPT !.at = "wait"]
    OBVIOUS
  <2>2. r.at = "wait" /\ r.obj = p
    BY <1>2, <1>3, <2>1, PlaceChanged
  <2>3. call' = [call EXCEPT ![k] = r]
    BY <1>3, <1>5, <2>1 DEF EndLoop
  <2>4. PacketFits(r)
    BY <1>1, <1>2, <2>2, FitsNow DEF PacketFits
  <2>5. CallFits(r)
    BY <1>2, <2>2, <2>4
    DEF CallFits, SoundFits, IdleFits, LastFits, MustBeIdle, CleanupPlaces
  <2> QED
    BY <1>1, <2>3, <2>5, MoveFits
<1> QED
  BY <1>4, <1>5

\* A packet without items is known to have finished.
LEMMA SettledFits ==
  ASSUME IInv, Finishing, NEW k \in Callers, NEW p, NEW r,
         call' = [call EXCEPT ![k] = r], r = Idle \/ (r = call[k] /\ r.obj # p),
         \A j \in Callers : j # k => call[j].obj # p,
         p \in Objects => ~Busy(p), settled' = settled \cup {p},
         UNCHANGED <<queue, stage, dead, last, device, inUse, output, fault, using, usage, exists, keyLives>>
  PROVE  Finishing'
<1>1. call'[k] = r /\ \A j \in Callers : j # k => call'[j] = call[j]
  BY CallFacts DEF IInv
<1>2. \A x : (Busy(x)' <=> Busy(x)) /\ (Empty(x)' <=> Empty(x)) /\ (Drained(x)' <=> Drained(x))
  BY SameItems
<1>3. CallFits(r)'
  <2>1. CASE r = Idle
    BY <2>1, IdleFitsAll DEF CallFits, PacketFits, SoundFits, IdleFits, LastFits, MustBeIdle, Drained, Empty, Busy
  <2>2. CASE r = call[k] /\ r.obj # p
    <3>1. CallFits(r)
      BY <2>2 DEF Finishing, CallsFit
    <3> QED
      BY <1>2, <2>2, <3>1 DEF CallFits, PacketFits, SoundFits, IdleFits, LastFits, MustBeIdle
  <2> QED
    BY <2>1, <2>2
<1>4. ASSUME NEW j \in Callers, j # k
      PROVE  PacketFits(call[j])' /\ LastFits(call[j])'
  BY <1>1, <1>4, FitsNow DEF PacketFits, LastFits
<1>5. \A x \in Packets : Busy(x) => x \in exists' /\ x \notin settled' /\ keyLives'
  BY ObjectFacts DEF Finishing, BusyPacketsLive
<1>6. ~fault' /\ \A o \in Objects : ~using'[o] => ~using[o] \/ (~Busy(o) /\ (o \in Instances => Drained(o)))
  BY DEF Finishing
<1> QED
  BY <1>3, <1>4, <1>5, <1>6, CallMoves

\* The program has waited for a packet.
LEMMA WaitUntilFinishedFits ==
  ASSUME IInv, Finishing, NEW k \in Callers, WaitUntilFinished(k), UNCHANGED soundVars
  PROVE  Finishing'
<1>1. /\ call[k].at = "wait" /\ Finished(call[k].obj) /\ settled' = settled \cup {call[k].obj}
      /\ UNCHANGED <<queue, stage, dead, last, device, inUse, output, fault, using, usage, exists, keyLives>>
  BY DEF WaitUntilFinished, At, itemVars, historyVars, encryptionVars, soundVars, bufferVars, outputVars
<1>2. PICK p \in Objects : p = call[k].obj
  BY <1>1, CallHasObject DEF IInv
<1>3. ~Busy(p)
  BY <1>1, <1>2, FinishedIdle DEF Finishing
<1>4. PICK r : r = Idle
  OBVIOUS
<1>5. call' = [call EXCEPT ![k] = r]
  BY <1>4 DEF WaitUntilFinished
<1>6. \A j \in Callers : j # k => call[j].obj # p
  BY <1>2, ObjectFacts DEF IInv, OneCallEach
<1>7. /\ settled' = settled \cup {p} /\ (p \in Objects => ~Busy(p))
      /\ r = Idle \/ (r = call[k] /\ r.obj # p)
      /\ UNCHANGED <<queue, stage, dead, last, device, inUse, output, fault, using, usage, exists, keyLives>>
  BY <1>1, <1>2, <1>3, <1>4
<1> QED
  BY <1>5, <1>6, <1>7, SettledFits

\* The program has asked a packet.
LEMMA PollFinishedFits ==
  ASSUME IInv, Finishing, NEW k \in Callers, NEW p \in Packets, PollFinished(k, p), UNCHANGED soundVars
  PROVE  Finishing'
<1>1. /\ Unused(p) /\ Finished(p) /\ settled' = settled \cup {p}
      /\ UNCHANGED <<queue, stage, dead, last, device, inUse, output, fault, using, usage, exists, keyLives, call>>
  BY DEF PollFinished, poolVars, itemVars, historyVars, encryptionVars, soundVars, bufferVars, outputVars
<1>2. ~Busy(p)
  BY <1>1, FinishedIdle, ObjectFacts DEF Finishing
<1>3. PICK r : r = call[k]
  OBVIOUS
<1>4. call' = [call EXCEPT ![k] = r]
  BY <1>1, <1>3, CallFacts DEF IInv
<1>5. \A j \in Callers : call[j].obj # p
  BY <1>1 DEF Unused
<1>6. r = call[k] /\ r.obj # p
  BY <1>3, <1>5
<1>7. \A j \in Callers : j # k => call[j].obj # p
  BY <1>5
<1> QED
  BY <1>1, <1>2, <1>4, <1>6, <1>7, SettledFits

\* A thread works on the chunks of a packet, which exists.
LEMMA EncryptChunksFits ==
  ASSUME IInv, Finishing, NEW t \in Threads, EncryptChunks(t), UNCHANGED soundVars
  PROVE  Finishing'
<1>1. /\ queue[t] # <<>> /\ Item(t).obj \in Packets /\ stage' = [stage EXCEPT ![t] = "decide"]
      /\ fault' = (~keyLives \/ Item(t).obj \notin exists)
      /\ UNCHANGED <<queue, dead, last, device, inUse, output, call, using, usage, exists, settled, keyLives>>
  BY DEF EncryptChunks, Takes, encryptionVars, soundVars, bufferVars, outputVars
<1>2. QueuesFit /\ LastKnown /\ BuffersCounted
  BY DEF Finishing
<1>3. Busy(Item(t).obj) /\ ClassOf[Item(t).obj] = t[1]
  BY <1>1, <1>2, ItemFacts
<1>4. ~fault' /\ dead' = {}
  BY <1>1, <1>3 DEF Finishing, BusyPacketsLive
<1>5. t # SoundThread
  BY <1>1, <1>3, ObjectFacts, ThreadFacts
<1>6. /\ stage'[t] = "decide" /\ \A u \in Threads : u # t => stage'[u] = stage[u]
      /\ stage' = [u \in Threads |-> stage'[u]]
  BY <1>1, <1>2 DEF QueuesFit
<1>7. QueuesFit'
  BY <1>1, <1>2, <1>6 DEF QueuesFit
<1>8. LastKnown'
  BY <1>1, <1>2 DEF LastKnown
<1>9. BuffersCounted'
  <2>1. stage'[SoundThread] = stage[SoundThread]
    BY <1>5, <1>6, ThreadFacts
  <2> QED
    BY <1>1, <1>2, <2>1 DEF BuffersCounted, Counted, Released
<1>10. \A x : (Busy(x)' <=> Busy(x)) /\ (Empty(x)' <=> Empty(x)) /\ (Drained(x)' <=> Drained(x))
  BY <1>1 DEF Busy, Empty, Drained
<1>11. \A j \in Callers : call'[j] = call[j] /\ PacketFits(call[j])' /\ LastFits(call[j])'
  BY <1>1, FitsNow DEF PacketFits, LastFits
<1>12. \A p \in Packets : Busy(p)' => p \in exists' /\ p \notin settled' /\ keyLives'
  BY <1>1, <1>10 DEF Finishing, BusyPacketsLive
<1>13. \A x \in Objects : ~using'[x] => ~using[x] \/ (~Busy(x) /\ (x \in Instances => Drained(x)))
  BY <1>1
<1> QED
  BY <1>4, <1>7, <1>8, <1>9, <1>10, <1>11, <1>12, <1>13, StepFits

\* The destructor of a packet begins.
LEMMA DestroyPacketFits ==
  ASSUME IInv, Finishing, NEW k \in Callers, NEW p \in Packets, DestroyPacket(k, p), UNCHANGED soundVars
  PROVE  Finishing'
<1>1. /\ p \in exists
      /\ UNCHANGED <<queue, stage, dead, last, device, inUse, output, fault, using, usage, exists, settled, keyLives>>
  BY DEF DestroyPacket, Unused, itemVars, historyVars, encryptionVars, soundVars, bufferVars, outputVars
<1>2. PICK place \in {"cleanup", "free"} : place = IF using[p] THEN "cleanup" ELSE "free"
  OBVIOUS
<1>3. PICK block \in BOOLEAN : block = (p \notin settled)
  OBVIOUS
<1>4. PICK r : r = [at |-> place, obj |-> p, n |-> 0, block |-> block]
  OBVIOUS
<1>5. r.at = place /\ r.obj = p /\ r.block = block
  BY <1>4
<1>6. call' = [call EXCEPT ![k] = r]
  BY <1>2, <1>3, <1>4 DEF DestroyPacket
<1>7. p \in Objects /\ p \notin Instances
  BY ObjectFacts
<1>8. MustBeIdle(r) => ~Busy(p)
  <2>1. CASE ~using[p]
    BY <1>7, <2>1 DEF Finishing, UnusedIsIdle
  <2>2. CASE using[p]
    BY <1>2, <1>3, <1>5, <2>2 DEF MustBeIdle, Finishing, BusyPacketsLive
  <2> QED
    BY <2>1, <2>2
<1>9. CallFits(r)
  BY <1>1, <1>5, <1>7, <1>8
  DEF CallFits, PacketFits, SoundFits, IdleFits, LastFits, NotYetUsing
<1> QED
  BY <1>1, <1>6, <1>9, MoveFits

\* A packet is gone: no thread works on it.
LEMMA FreePacketFits ==
  ASSUME IInv, Finishing, NEW k \in Callers, FreePacket(k), UNCHANGED soundVars
  PROVE  Finishing'
<1>1. /\ call[k].at = "free" /\ Class(k) = "packet" /\ exists' = exists \ {call[k].obj}
      /\ UNCHANGED <<queue, stage, dead, last, device, inUse, output, fault, using, usage, settled, keyLives>>
  BY DEF FreePacket, At, itemVars, historyVars, encryptionVars, soundVars, bufferVars, outputVars
<1>2. PICK p \in Packets : p = call[k].obj
  BY <1>1, PacketCall
<1>3. ~Busy(p)
  BY <1>1, <1>2, FitsNow DEF IdleFits, MustBeIdle
<1>4. PICK r : r = Idle
  OBVIOUS
<1>5. call' = [call EXCEPT ![k] = r]
  BY <1>4 DEF FreePacket
<1>6. CallFits(r)'
  BY <1>4, IdleFitsAll DEF CallFits, PacketFits, SoundFits, IdleFits, LastFits, MustBeIdle, Drained, Empty, Busy
<1>7. ASSUME NEW j \in Callers, j # k
      PROVE  PacketFits(call[j])' /\ LastFits(call[j])'
  <2>1. call'[j] = call[j]
    BY <1>5, <1>7, CallFacts DEF IInv
  <2>2. call[j].obj # p
    BY <1>2, <1>7, ObjectFacts DEF IInv, OneCallEach
  <2> QED
    BY <1>1, <1>2, <2>1, <2>2, FitsNow DEF PacketFits, LastFits
<1>8. \A x \in Packets : Busy(x) => x \in exists' /\ x \notin settled' /\ keyLives'
  BY <1>1, <1>2, <1>3 DEF Finishing, BusyPacketsLive
<1>9. ~fault' /\ \A o \in Objects : ~using'[o] => ~using[o] \/ (~Busy(o) /\ (o \in Instances => Drained(o)))
  BY <1>1 DEF Finishing
<1> QED
  BY <1>1, <1>5, <1>6, <1>7, <1>8, <1>9, CallMoves

\* The key is deleted when every packet is known to have finished.
LEMMA DeleteKeyFits ==
  ASSUME IInv, Finishing, NEW k \in Callers, DeleteKey(k), ~careless', UNCHANGED soundVars
  PROVE  Finishing'
<1>1. /\ exists \ settled = {}
      /\ \A j \in Callers : call[j].at \in {"idle", "cleanup", "release", "clear", "leave", "free"}
      /\ UNCHANGED <<queue, stage, dead, last, device, inUse, output, fault, using, usage, exists, settled, call>>
  BY DEF DeleteKey, poolVars, itemVars, historyVars, encryptionVars, soundVars, bufferVars, outputVars
<1>2. \A p \in Packets : ~Busy(p)
  BY <1>1 DEF Finishing, BusyPacketsLive
<1>3. PICK r : r = call[k]
  OBVIOUS
<1>4. call' = [call EXCEPT ![k] = r]
  BY <1>1, <1>3, CallFacts DEF IInv
<1>5. \A x : (Busy(x)' <=> Busy(x)) /\ (Empty(x)' <=> Empty(x)) /\ (Drained(x)' <=> Drained(x))
  BY <1>1, SameItems
<1>6. ASSUME NEW j \in Callers
      PROVE  PacketFits(call[j])' /\ LastFits(call[j])'
  <2>1. call[j].at \notin NotYetUsing \cup {"ready", "wait"}
    BY <1>1 DEF NotYetUsing
  <2> QED
    BY <1>1, <2>1, FitsNow DEF PacketFits, LastFits
<1>7. CallFits(r)'
  <2>1. CallFits(call[k]) /\ PacketFits(r)'
    <3>1. PacketFits(call[k])'
      BY <1>6
    <3> QED
      BY <1>1, <1>3, <3>1 DEF PacketFits, Finishing, CallsFit
  <2>2. CallFits(r)
    BY <1>3, <2>1
  <2> QED
    BY <1>1, <1>5, <2>1, <2>2 DEF CallFits, SoundFits, IdleFits, LastFits, MustBeIdle
<1>8. ~fault' /\ \A o \in Objects : ~using'[o] => ~using[o] \/ (~Busy(o) /\ (o \in Instances => Drained(o)))
  BY <1>1 DEF Finishing
<1> QED
  BY <1>1, <1>2, <1>4, <1>6, <1>7, <1>8, CallMoves

\* What packets begin.
LEMMA EncryptionCallsFit ==
  ASSUME IInv, Finishing, ~careless', EncryptionCalls, UNCHANGED soundVars
  PROVE  Finishing'
<1>1. ASSUME NEW k \in Callers, NEW p \in Packets, NEW op \in Operations, NEW block \in BOOLEAN,
             BeginOperation(k, p, op, block)
      PROVE  Finishing'
  BY <1>1, BeginOperationFits
<1>2. ASSUME NEW k \in Callers, NEW p \in Packets, PollFinished(k, p)
      PROVE  Finishing'
  BY <1>2, PollFinishedFits
<1>3. ASSUME NEW k \in Callers, NEW p \in Packets, DestroyPacket(k, p)
      PROVE  Finishing'
  BY <1>3, DestroyPacketFits
<1>4. ASSUME NEW k \in Callers, DeleteKey(k)
      PROVE  Finishing'
  BY <1>4, DeleteKeyFits
<1> QED
  BY <1>1, <1>2, <1>3, <1>4 DEF EncryptionCalls

\* What goes on with them.
LEMMA EncryptionGoesOnFits ==
  ASSUME IInv, Finishing, EncryptionGoesOn, UNCHANGED soundVars
  PROVE  Finishing'
<1>1. ASSUME NEW k \in Callers, PostItem(k) \/ EndLoop(k) \/ WaitUntilFinished(k) \/ FreePacket(k)
      PROVE  Finishing'
  BY <1>1, PostItemFits, EndLoopFits, WaitUntilFinishedFits, FreePacketFits
<1>2. ASSUME NEW t \in Threads, EncryptChunks(t)
      PROVE  Finishing'
  BY <1>2, EncryptChunksFits
<1> QED
  BY <1>1, <1>2 DEF EncryptionGoesOn

\* What the shared threads do.
LEMMA PoolFits ==
  ASSUME IInv, Finishing, ~overlapped, rash' = {}, PoolNext, UNCHANGED <<encryptionVars, soundVars>>
  PROVE  Finishing'
<1>1. ASSUME NEW k \in Callers, CallerStep(k)
      PROVE  Finishing'
  BY <1>1, SetupThreadsFits, CreateThreadsFits, CountUserFits, CleanupThreadsFits, ReleaseThreadsFits,
     ClearThreadsFits, LeaveThreadsFits DEF CallerStep
<1>2. ASSUME NEW t \in Threads, ThreadDecides(t)
      PROVE  Finishing'
  BY <1>2, ThreadDecidesFits
<1> QED
  BY <1>1, <1>2 DEF PoolNext

-----------------------------------------------------------------------------
(***************************************************************************)
(* The steps of Main, again.                                               *)
(***************************************************************************)
\* Nothing changes that matters here but a call.
Quiet == UNCHANGED <<queue, stage, dead, last, device, inUse, output, fault,
                     using, usage, exists, settled, keyLives>>

\* Main's call is about nothing, or about an instance, of which the place of the call
\* is true.
LEMMA MainFits ==
  ASSUME IInv, Finishing, NEW r, call' = [call EXCEPT ![Main] = r], Quiet,
         \/ r = Idle \/ r = FinishBegun
         \/ r.obj \in Instances /\ r.at \in {"setup", "install", "destroy"}
         \/ r.obj \in Instances /\ r.at \in {"reset", "waitBuffers"} /\ Empty(r.obj)
         \/ r.obj \in Instances /\ r.at = "cleanup" /\ Drained(r.obj) /\ (~r.block => ~Busy(r.obj))
  PROVE  Finishing'
<1>1. CallFits(r)
  <2>1. CASE r = Idle
    BY <2>1, IdleFitsAll
  <2>2. CASE r = FinishBegun
    BY <2>2, IdleFacts, ObjectFacts
    DEF CallFits, PacketFits, SoundFits, IdleFits, LastFits, MustBeIdle, CleanupPlaces
  <2>3. CASE r.obj \in Instances /\ r.at \in {"setup", "install", "destroy"}
    BY <2>3, ObjectFacts
    DEF CallFits, PacketFits, SoundFits, IdleFits, LastFits, MustBeIdle, CleanupPlaces
  <2>4. CASE r.obj \in Instances /\ r.at \in {"reset", "waitBuffers"} /\ Empty(r.obj)
    BY <2>4, ObjectFacts
    DEF CallFits, PacketFits, SoundFits, IdleFits, LastFits, MustBeIdle, CleanupPlaces
  <2>5. CASE r.obj \in Instances /\ r.at = "cleanup" /\ Drained(r.obj) /\ (~r.block => ~Busy(r.obj))
    BY <2>5, ObjectFacts
    DEF CallFits, PacketFits, SoundFits, IdleFits, LastFits, MustBeIdle, CleanupPlaces
  <2> QED
    BY <2>1, <2>2, <2>3, <2>4, <2>5
<1>2. Main \in Callers
  BY ObjectFacts
<1> QED
  BY <1>1, <1>2, MoveFits DEF Quiet

\* A command begins a call about an instance.
LEMMA BegunFits ==
  ASSUME IInv, Finishing, NEW o \in Instances, NEW place \in {"setup", "destroy"},
         call' = [call EXCEPT ![Main] = Begun(place, o)], Quiet
  PROVE  Finishing'
<1>1. place \in Places
  BY DEF Places, SharedPlaces, SoundPlaces
<1>2. PICK r : r = Begun(place, o)
  OBVIOUS
<1>3. r.at = place /\ r.obj = o
  BY <1>1, <1>2, IdleFacts
<1>4. call' = [call EXCEPT ![Main] = r]
  BY <1>2
<1>5. r.obj \in Instances /\ r.at \in {"setup", "install", "destroy"}
  BY <1>3
<1> QED
  BY <1>4, <1>5, MainFits

\* Main's call ends, or goes on to the next slot.
LEMMA LeftFits ==
  ASSUME IInv, Finishing, NEW r \in {Idle, FinishBegun}, call' = [call EXCEPT ![Main] = r], Quiet
  PROVE  Finishing'
<1>1. PICK c : c = r
  OBVIOUS
<1>2. call' = [call EXCEPT ![Main] = c] /\ (c = Idle \/ c = FinishBegun)
  BY <1>1
<1> QED
  BY <1>2, MainFits

\* Main goes from one place to the next.
LEMMA GoneFits ==
  ASSUME IInv, Finishing, NEW o \in Instances, call[Main].obj = o,
         NEW place \in {"install", "reset", "waitBuffers"}, Goto(Main, place), Quiet,
         place # "install" => Empty(o)
  PROVE  Finishing'
<1>1. call[Main] \in Calls /\ call \in [Callers -> Calls] /\ Main \in Callers
  BY CallFacts, ObjectFacts DEF IInv
<1>2. PICK r : r = [call[Main] EXCEPT !.at = place]
  OBVIOUS
<1>3. r.at = place /\ r.obj = o
  BY <1>1, <1>2, PlaceChanged
<1>4. call' = [call EXCEPT ![Main] = r]
  BY <1>1, <1>2 DEF Goto
<1>5. \/ r.obj \in Instances /\ r.at \in {"setup", "install", "destroy"}
      \/ r.obj \in Instances /\ r.at \in {"reset", "waitBuffers"} /\ Empty(r.obj)
  BY <1>3
<1> QED
  BY <1>4, <1>5, MainFits

\* A destructor goes on to give up the threads: the object is idle if it has finished.
LEMMA EndsFits ==
  ASSUME IInv, Finishing, NEW o \in Instances, call[Main].obj = o, EndDestructor(o), Quiet, Drained(o)
  PROVE  Finishing'
<1>1. call[Main] \in Calls /\ call \in [Callers -> Calls] /\ Main \in Callers
  BY CallFacts, ObjectFacts DEF IInv
<1>2. PICK block \in BOOLEAN : block = ~Finished(o)
  OBVIOUS
<1>3. PICK r : r = [call[Main] EXCEPT !.at = "cleanup", !.block = block]
  OBVIOUS
<1>4. r.at = "cleanup" /\ r.obj = o /\ r.block = block
  BY <1>1, <1>3 DEF Calls
<1>5. call' = [call EXCEPT ![Main] = r]
  BY <1>1, <1>2, <1>3 DEF EndDestructor
<1>6. ~block => ~Busy(o)
  BY <1>2, FinishedIdle, ObjectFacts DEF Finishing
<1>7. r.obj \in Instances /\ r.at = "cleanup" /\ Drained(r.obj) /\ (~r.block => ~Busy(r.obj))
  BY <1>4, <1>6
<1> QED
  BY <1>5, <1>7, MainFits

\* An instance is constructed, or begins to be destroyed.
LEMMA StartInstanceFits ==
  ASSUME IInv, Finishing, NEW d \in Kinds, NEW s \in Slots, NEW o \in Instances,
         StartInstance(d, s, o) \/ FinishInstance(d, s, o), UNCHANGED encryptionVars
  PROVE  Finishing'
<1>1. Quiet
  BY DEF StartInstance, FinishInstance, Quiet, sharedVars, itemVars, historyVars, bufferVars, outputVars,
         encryptionVars
<1>2. CASE StartInstance(d, s, o)
  <2>1. call' = [call EXCEPT ![Main] = Begun("setup", o)]
    BY <1>2 DEF StartInstance, Begun
  <2> QED
    BY <1>1, <2>1, BegunFits
<1>3. CASE FinishInstance(d, s, o)
  <2>1. call' = [call EXCEPT ![Main] = Begun("destroy", o)]
    BY <1>3 DEF FinishInstance, Destroy, Begun
  <2> QED
    BY <1>1, <2>1, BegunFits
<1> QED
  BY <1>2, <1>3

\* The rest of the constructor, and the slot that gets the instance.
LEMMA InstallFits ==
  ASSUME IInv, Finishing, NEW o \in Instances, fails = fails',
         OpenDevice(o) \/ Install(o) \/ FreeInstance(o), UNCHANGED encryptionVars
  PROVE  Finishing'
<1>1. Quiet
  BY DEF OpenDevice, Install, FreeInstance, Quiet, sharedVars, itemVars, historyVars, bufferVars, outputVars,
         encryptionVars
<1>2. CASE OpenDevice(o)
  <2>1. Goto(Main, "install") /\ call[Main].obj = o
    BY <1>2 DEF OpenDevice, InCall
  <2> QED
    BY <1>1, <2>1, GoneFits
<1>3. CASE FreeInstance(o)
  <2>1. PICK r \in {Idle, FinishBegun} : r = IF target.all THEN FinishBegun ELSE Idle
    OBVIOUS
  <2>2. call' = [call EXCEPT ![Main] = r]
    BY <1>3, <2>1 DEF FreeInstance, FinishBegun
  <2> QED
    BY <1>1, <2>2, LeftFits
<1>4. CASE Install(o)
  <2>1. call[Main].at = "install" /\ call[Main].obj = o
    BY <1>4 DEF Install, InCall, At
  <2>2. target.kind \in Kinds /\ target.id \in Slots
    <3>1. target \in Targets
      BY DEF IInv, TypeOK
    <3>2. o # None /\ target.new = o
      BY <2>1, ObjectFacts DEF IInv, MainWorks
    <3>3. target.kind # None /\ target.id # None
      BY <3>2 DEF IInv, SlotsKnown
    <3> QED
      BY <3>1, <3>3 DEF Targets
  <2>3. CASE call' = [call EXCEPT ![Main] = Idle]
    <3>1. PICK r \in {Idle, FinishBegun} : r = Idle
      OBVIOUS
    <3> QED
      BY <1>1, <2>3, <3>1, LeftFits
  <2>4. CASE slot[target.kind][target.id] # None /\ Destroy(slot[target.kind][target.id])
    <3>1. PICK old \in Instances : old = slot[target.kind][target.id]
      BY <2>1, <2>2, <2>4, NoneClosing
    <3>2. call' = [call EXCEPT ![Main] = Begun("destroy", old)]
      BY <2>4, <3>1 DEF Destroy, Begun
    <3> QED
      BY <1>1, <3>2, BegunFits
  <2> QED
    BY <1>4, <2>3, <2>4 DEF Install
<1> QED
  BY <1>2, <1>3, <1>4

\* StartSound and FinishSound.
LEMMA StartSoundFits ==
  ASSUME IInv, Finishing, NEW ids, StartSound(ids), UNCHANGED encryptionVars
  PROVE  Finishing'
<1>1. Quiet
  BY DEF StartSound, Quiet, sharedVars, itemVars, historyVars, bufferVars, outputVars, encryptionVars
<1>2. PICK r \in {Idle, FinishBegun} : r = FinishBegun
  OBVIOUS
<1>3. call' = [call EXCEPT ![Main] = r]
  BY <1>2 DEF StartSound, FinishBegun
<1> QED
  BY <1>1, <1>3, LeftFits

\* Their loop: the next slot is emptied, or nothing is left to finish.
LEMMA FinishNextTurns ==
  ASSUME FinishNext
  PROVE  /\ call[Main].at = "finish"
         /\ UNCHANGED <<usage, queue, stage, dead, last, using, fault, device, inUse, output>>
         /\ \/ call' = [call EXCEPT ![Main] = Idle]
            \/ \E d \in Kinds, s \in Slots : slot[d][s] # None /\ Destroy(slot[d][s])
<1>1. call[Main].at = "finish" /\ UNCHANGED <<usage, using, fault>>
  BY DEF FinishNext, At, sharedVars, historyVars
<1>2. UNCHANGED <<queue, stage, dead, last, device, inUse, output>>
  BY DEF FinishNext, sharedVars, itemVars, bufferVars, outputVars
<1>3. \/ call' = [call EXCEPT ![Main] = Idle]
      \/ \E d \in Kinds, s \in Slots : slot[d][s] # None /\ Destroy(slot[d][s])
  BY DEF FinishNext, Full
<1> QED
  BY <1>1, <1>2, <1>3

\* So an instance begins to be destroyed, or the call ends.
LEMMA FinishNextFits ==
  ASSUME IInv, Finishing, FinishNext, UNCHANGED encryptionVars
  PROVE  Finishing'
<1>1. Quiet
  <2>1. UNCHANGED <<exists, settled, keyLives>>
    BY DEF encryptionVars
  <2> QED
    BY <2>1, FinishNextTurns DEF Quiet
<1>2. CASE call' = [call EXCEPT ![Main] = Idle]
  <2>1. PICK r \in {Idle, FinishBegun} : r = Idle
    OBVIOUS
  <2> QED
    BY <1>1, <1>2, <2>1, LeftFits
<1>3. ASSUME NEW d \in Kinds, NEW s \in Slots, slot[d][s] # None, Destroy(slot[d][s])
      PROVE  Finishing'
  <2>1. PICK o \in Instances : o = slot[d][s]
    BY <1>3, FinishNextTurns, NoneClosing
  <2>2. call' = [call EXCEPT ![Main] = Begun("destroy", o)]
    BY <1>3, <2>1 DEF Destroy, Begun
  <2> QED
    BY <1>1, <2>2, BegunFits
<1> QED
  BY <1>2, <1>3, FinishNextTurns

\* An input is paused: Main waits for its buffers.
LEMMA PauseFits ==
  ASSUME IInv, Finishing, NEW o \in Inputs, fails' = fails,
         \/ \E s \in Slots : PauseInput(s, o)
         \/ StopHandingOut(o) \/ ResetInput(o) \/ ResetInputFails(o) \/ InputStopped(o),
         ~Fails, UNCHANGED encryptionVars
  PROVE  Finishing'
<1>1. o \in Instances /\ o \notin Outputs /\ Empty(o)
  BY ObjectFacts DEF Empty
<1>2. ~ResetInputFails(o)
  BY DEF ResetInputFails
<1>3. CASE \E s \in Slots : PauseInput(s, o)
  <2>1. Quiet
    BY <1>3 DEF PauseInput, Quiet, sharedVars, itemVars, historyVars, soundVars, bufferVars, outputVars,
           encryptionVars
  <2>2. call' = [call EXCEPT ![Main] = Begun("destroy", o)]
    BY <1>3 DEF PauseInput, Begun
  <2> QED
    BY <1>1, <2>1, <2>2, BegunFits
<1>4. CASE StopHandingOut(o)
  <2>1. Quiet
    BY <1>4 DEF StopHandingOut, Quiet, sharedVars, itemVars, historyVars, bufferVars, outputVars, encryptionVars
  <2>2. call[Main].obj = o /\ Goto(Main, "reset")
    BY <1>4 DEF StopHandingOut, InCall
  <2> QED
    BY <1>1, <2>1, <2>2, GoneFits
<1>5. CASE ResetInput(o)
  <2>1. Quiet
    BY <1>5 DEF ResetInput, Quiet, sharedVars, itemVars, historyVars, outputVars, encryptionVars
  <2>2. call[Main].obj = o /\ Goto(Main, "waitBuffers")
    BY <1>5 DEF ResetInput, InCall
  <2> QED
    BY <1>1, <2>1, <2>2, GoneFits
<1>6. CASE InputStopped(o)
  <2>1. Quiet
    BY <1>6 DEF InputStopped, Quiet, sharedVars, itemVars, historyVars, soundVars, bufferVars, outputVars,
           encryptionVars
  <2>2. call[Main].obj = o /\ Drained(o)
    BY <1>1, <1>6 DEF InputStopped, InCall, NoBuffersInUse, Drained
  <2>3. CASE EndDestructor(o)
    BY <1>1, <2>1, <2>2, <2>3, EndsFits
  <2>4. CASE call' = [call EXCEPT ![Main] = Idle]
    <3>1. PICK r \in {Idle, FinishBegun} : r = Idle
      OBVIOUS
    <3> QED
      BY <2>1, <2>4, <3>1, LeftFits
  <2> QED
    BY <1>6, <2>3, <2>4 DEF InputStopped
<1> QED
  BY <1>2, <1>3, <1>4, <1>5, <1>6

-----------------------------------------------------------------------------
(***************************************************************************)
(* The devices and their threads.                                          *)
(***************************************************************************)
\* The first so many of a sequence are taken, and what is left of it.
LEMMA TakenMany ==
  ASSUME NEW s, IsSeq(s), NEW n \in 0 .. Len(s)
  PROVE  /\ IsSeq(SubSeq(s, n + 1, Len(s)))
         /\ IsSeq(Data(SubSeq(s, 1, n))) /\ Len(Data(SubSeq(s, 1, n))) = n
<1>1. PICK S : s \in Seq(S)
  BY DEF IsSeq
<1>2. Len(s) \in Nat /\ n \in Nat /\ n <= Len(s) /\ \A i \in 1 .. Len(s) : s[i] \in S
  BY <1>1, ElementOfSeq, LenProperties
<1>3. SubSeq(s, n + 1, Len(s)) \in Seq(S)
  BY <1>2, SubSeqProperties
<1>4. SubSeq(s, 1, n) \in Seq(S) /\ Len(SubSeq(s, 1, n)) = n
  BY <1>2, SubSeqProperties
<1>5. DOMAIN SubSeq(s, 1, n) = 1 .. n
  BY <1>4, LenProperties
<1>6. PICK d : d = Data(SubSeq(s, 1, n))
  OBVIOUS
<1>7. d = [i \in 1 .. n |-> SubSeq(s, 1, n)[i].data]
  BY <1>5, <1>6 DEF Data
<1>8. d \in [1 .. n -> {d[i] : i \in 1 .. n}]
  BY <1>7
<1>9. d \in Seq({d[i] : i \in 1 .. n}) /\ Len(d) = n
  BY <1>2, <1>8, SeqDef, LenProperties
<1> QED
  BY <1>3, <1>6, <1>9, SomeSeq

\* As many copies of one thing.
LEMMA CopiesIsSeq ==
  ASSUME NEW n \in Nat, NEW x
  PROVE  IsSeq([b \in 1 .. n |-> x]) /\ Len([b \in 1 .. n |-> x]) = n
<1>1. PICK g : g = [b \in 1 .. n |-> x]
  OBVIOUS
<1>2. g \in [1 .. n -> {x}]
  BY <1>1
<1>3. g \in Seq({x}) /\ Len(g) = n
  BY <1>2, SeqDef, LenProperties
<1> QED
  BY <1>1, <1>3, SomeSeq

\* An instance has buffers, or items, only while it uses threads, and then it exists.
LEMMA BuffersUsed ==
  ASSUME IInv, Finishing, NEW o \in Instances
  PROVE  /\ Len(device[o]) \in Nat /\ inUse[o] \in Int
         /\ Cardinality(ItemsIn(queue[SoundThread], o)) \in Nat
         /\ device[o] # <<>> \/ (ItemsIn(queue[SoundThread], o) # {} /\ ~Released(o)) => ~Drained(o)
         /\ ~Drained(o) \/ Busy(o) => using[o] /\ instance[o] # "deleted"
         /\ ~Drained(o) => \A j \in Callers : call[j].obj = o =>
              ~MustBeIdle(call[j]) /\ call[j].at \notin CleanupPlaces \cup {"cleanup", "free"}
<1>1. /\ IsSeq(queue[SoundThread]) /\ (stage[SoundThread] # "get" => queue[SoundThread] # <<>>)
      /\ IsSeq(device[o]) /\ Counted(o)
  BY ThreadFacts DEF Finishing, QueuesFit, BuffersCounted
<1>2. /\ Len(device[o]) \in Nat /\ (Len(device[o]) = 0 <=> device[o] = <<>>)
      /\ Cardinality(ItemsIn(queue[SoundThread], o)) \in Nat
      /\ (Cardinality(ItemsIn(queue[SoundThread], o)) = 0 <=> ItemsIn(queue[SoundThread], o) = {})
  BY <1>1, Lengths, ItemsFinite
<1>3. Released(o) => ItemsIn(queue[SoundThread], o) # {}
  <2> SUFFICES ASSUME Released(o)
               PROVE  1 \in ItemsIn(queue[SoundThread], o)
    OBVIOUS
  <2>1. queue[SoundThread] # <<>> /\ queue[SoundThread][1].obj = o
    BY <1>1 DEF Released
  <2>2. Len(queue[SoundThread]) \in Nat /\ Len(queue[SoundThread]) > 0
    BY <1>1, <2>1, Taken
  <2> QED
    BY <2>1, <2>2 DEF ItemsIn
<1>4. /\ inUse[o] \in Int
      /\ device[o] # <<>> \/ (ItemsIn(queue[SoundThread], o) # {} /\ ~Released(o)) => inUse[o] # 0
  <2>1. CASE Released(o)
    BY <1>1, <1>2, <1>3, <2>1 DEF Counted
  <2>2. CASE ~Released(o)
    BY <1>1, <1>2, <2>2 DEF Counted
  <2> QED
    BY <2>1, <2>2
<1>5. ~Drained(o) \/ Busy(o) => using[o]
  BY ObjectFacts DEF Finishing, UnusedIsIdle
<1>6. using[o] => instance[o] # "deleted"
  BY DEF IInv, InstancesUse
<1>7. ASSUME ~Drained(o), NEW j \in Callers, call[j].obj = o
      PROVE  ~MustBeIdle(call[j]) /\ call[j].at \notin CleanupPlaces \cup {"cleanup", "free"}
  <2>1. call[j].at \notin CleanupPlaces \cup {"cleanup", "free"}
    BY <1>7, FitsNow DEF SoundFits
  <2> QED
    BY <2>1 DEF MustBeIdle, CleanupPlaces
<1> QED
  BY <1>2, <1>4, <1>5, <1>6, <1>7 DEF Drained

\* A step about the items and buffers of one instance.
LEMMA DeviceFits ==
  ASSUME IInv, Finishing, NEW o \in Instances,
         UNCHANGED <<dead, call, using, usage, exists, settled, keyLives>>,
         ~fault', QueuesFit', LastKnown', BuffersCounted',
         \A x \in Objects : x # o => (Busy(x)' <=> Busy(x)),
         \A x \in Instances : x # o => inUse'[x] = inUse[x] /\ (x \in Outputs => output'[x] = output[x]),
         Busy(o)' => Busy(o) \/ Opens(o), Drained(o) => Drained(o)' \/ Opens(o),
         Empty(o) => Empty(o)' \/ (using'[o] /\ call[Main].obj # o)
  PROVE  Finishing'
<1>1. \A x \in Objects : Busy(x)' => Busy(x) \/ Opens(x)
  OBVIOUS
<1>2. \A x \in Instances : x # o => (Empty(x)' <=> Empty(x)) /\ (Drained(x)' <=> Drained(x))
  BY DEF Empty, Drained
<1>3. \A x \in Instances : Drained(x) => Drained(x)' \/ Opens(x)
  BY <1>2
<1>4. \A x \in Instances : Empty(x) => Empty(x)' \/ (using'[x] /\ call[Main].obj # x)
  BY <1>2
<1>5. \A p \in Packets : Busy(p)' => p \in exists' /\ p \notin settled' /\ keyLives'
  <2>1. \A p \in Packets : Busy(p)' => Busy(p)
    BY ObjectFacts
  <2> QED
    BY <2>1 DEF Finishing, BusyPacketsLive
<1>6. ASSUME NEW j \in Callers
      PROVE  call'[j] = call[j] /\ PacketFits(call[j])' /\ LastFits(call[j])'
  BY FitsNow DEF PacketFits, LastFits
<1>7. dead' = {} /\ \A x \in Objects : ~using'[x] => ~using[x] \/ (~Busy(x) /\ (x \in Instances => Drained(x)))
  BY DEF Finishing
<1> QED
  BY <1>1, <1>3, <1>4, <1>5, <1>6, <1>7, StepFits

\* The program unpauses an input.
LEMMA UnpauseInputFits ==
  ASSUME IInv, Finishing, NEW s \in Slots, NEW o \in Inputs, UnpauseInput(s, o), fails' = fails, ~Fails,
         UNCHANGED encryptionVars
  PROVE  Finishing'
<1>1. /\ Give(o, NumBuffers) /\ Count(o, NumBuffers) /\ Commands("in", s, o)
      /\ UNCHANGED <<queue, stage, dead, last, output, fault, call, using, usage, exists, settled, keyLives>>
  BY DEF UnpauseInput, poolVars, itemVars, historyVars, outputVars, encryptionVars
<1>2. o \in Instances /\ using[o] /\ call[Main].obj = None /\ o # None
  <2>1. call[Main].at = "idle" /\ o = slot["in"][s] /\ o # None /\ "in" \in Kinds
    BY <1>1 DEF Commands, At, Kinds
  <2> QED
    BY <2>1, NoneClosing
<1>3. PICK g : g = [b \in 1 .. NumBuffers |-> 0]
  OBVIOUS
<1>4. IsSeq(g) /\ Len(g) = NumBuffers /\ NumBuffers \in Nat
  BY <1>3, CopiesIsSeq, SoundAssumption
<1>5. /\ device' = [device EXCEPT ![o] = device[o] \o g]
      /\ inUse' = [inUse EXCEPT ![o] = inUse[o] + NumBuffers]
  BY <1>1, <1>3 DEF Give, Count
<1>6. /\ DOMAIN inUse = Instances /\ DOMAIN device = Instances /\ DOMAIN output = Outputs
      /\ \A x \in Outputs : IsSeq(output[x])
      /\ \A x \in Instances : IsSeq(device[x]) /\ Counted(x)
  BY DEF Finishing, BuffersCounted
<1>7. /\ DOMAIN inUse' = Instances /\ DOMAIN device' = Instances
      /\ device'[o] = device[o] \o g /\ inUse'[o] = inUse[o] + NumBuffers
      /\ \A x \in Instances : x # o => device'[x] = device[x] /\ inUse'[x] = inUse[x]
  BY <1>2, <1>5, <1>6
<1>8. IsSeq(device'[o]) /\ Len(device'[o]) = Len(device[o]) + NumBuffers /\ Len(device[o]) \in Nat
  BY <1>2, <1>4, <1>6, <1>7, Joined
<1>9. BuffersCounted'
  <2>1. Cardinality(ItemsIn(queue[SoundThread], o)) \in Nat
    BY <1>2, BuffersUsed
  <2>2. Counted(o)'
    BY <1>1, <1>2, <1>4, <1>6, <1>7, <1>8, <2>1 DEF Counted, Released
  <2>3. \A x \in Instances : x # o => Counted(x)'
    BY <1>1, <1>6, <1>7 DEF Counted, Released
  <2>4. \A x \in Instances : IsSeq(device'[x])
    BY <1>6, <1>7, <1>8
  <2> QED
    BY <1>1, <1>6, <1>7, <2>2, <2>3, <2>4 DEF BuffersCounted
<1>10. QueuesFit' /\ LastKnown' /\ ~fault'
  BY <1>1 DEF Finishing, QueuesFit, LastKnown
<1>11. Opens(o)
  <2>1. \A j \in Callers : call[j].obj # o
    BY <1>2 DEF IInv, OneCallEach, PlaceFits
  <2> QED
    BY <1>1, <1>2, <2>1 DEF Opens
<1>12. \A x : Busy(x)' <=> Busy(x)
  BY <1>1 DEF Busy
<1>13. Empty(o)' <=> Empty(o)
  BY <1>1 DEF Empty
<1> QED
  BY <1>1, <1>2, <1>7, <1>9, <1>10, <1>11, <1>12, <1>13, DeviceFits

\* The program plays data, or takes what was recorded.
LEMMA PlayDataFits ==
  ASSUME IInv, Finishing, NEW s \in Slots, NEW o \in Instances, NEW n,
         GetInputData(s, o) \/ (o \in Outputs /\ (PlayData(s, o, n) \/ SetSmoothValues(s, o, n))),
         UNCHANGED encryptionVars
  PROVE  Finishing'
<1>1. UNCHANGED <<queue, stage, dead, last, device, inUse, fault, call, using, usage, exists, settled, keyLives>>
  BY DEF GetInputData, PlayData, SetSmoothValues, poolVars, itemVars, historyVars, bufferVars, encryptionVars
<1>2. CASE GetInputData(s, o) \/ SetSmoothValues(s, o, n)
  <2>1. output' = output
    BY <1>2 DEF GetInputData, SetSmoothValues, outputVars
  <2> QED
    BY <1>1, <2>1, NothingMoves
<1>3. CASE o \in Outputs /\ PlayData(s, o, n)
  <2>1. PICK packet : output' = [output EXCEPT ![o] = Append(output[o], packet)]
    BY <1>3 DEF PlayData
  <2>2. using[o] /\ call[Main].obj = None /\ o # None
    <3>1. call[Main].at = "idle" /\ o = slot["out"][s] /\ o # None /\ "out" \in Kinds
      BY <1>3 DEF PlayData, Commands, At, Kinds
    <3> QED
      BY <3>1, NoneClosing
  <2>3. /\ DOMAIN inUse = Instances /\ DOMAIN device = Instances /\ DOMAIN output = Outputs
        /\ \A x \in Outputs : IsSeq(output[x])
        /\ \A x \in Instances : IsSeq(device[x]) /\ Counted(x)
    BY DEF Finishing, BuffersCounted
  <2>4. /\ DOMAIN output' = Outputs /\ output'[o] = Append(output[o], packet)
        /\ \A x \in Outputs : x # o => output'[x] = output[x]
    BY <1>3, <2>1, <2>3
  <2>5. \A x \in Outputs : IsSeq(output'[x])
    <3>1. IsSeq(output[o])
      BY <1>3, <2>3
    <3>2. IsSeq(output'[o])
      BY <2>4, <3>1, Appended
    <3> QED
      BY <2>3, <2>4, <3>2
  <2>6. BuffersCounted'
    BY <1>1, <2>3, <2>4, <2>5 DEF BuffersCounted, Counted, Released
  <2>7. QueuesFit' /\ LastKnown' /\ ~fault'
    BY <1>1 DEF Finishing, QueuesFit, LastKnown
  <2>8. Opens(o)
    <3>1. \A j \in Callers : call[j].obj # o
      BY <2>2 DEF IInv, OneCallEach, PlaceFits
    <3> QED
      BY <1>1, <2>2, <3>1 DEF Opens
  <2>9. \A x : Busy(x)' <=> Busy(x)
    BY <1>1 DEF Busy
  <2>10. using'[o] /\ call[Main].obj # o
    BY <1>1, <2>2
  <2>11. \A x \in Instances : x # o => inUse'[x] = inUse[x] /\ (x \in Outputs => output'[x] = output[x])
    BY <1>1, <2>4
  <2> QED
    BY <1>1, <2>6, <2>7, <2>8, <2>9, <2>10, <2>11, DeviceFits
<1> QED
  BY <1>2, <1>3

\* The manager thread gives packets to the device.
LEMMA DecideFits ==
  ASSUME IInv, Finishing, NEW o \in Outputs, DecideWhetherToOutput(o), UNCHANGED encryptionVars
  PROVE  Finishing'
<1>1. /\ output[o] # <<>>
      /\ UNCHANGED <<queue, stage, dead, last, fault, call, using, usage, exists, settled, keyLives>>
  BY DEF DecideWhetherToOutput, Deciding, poolVars, itemVars, historyVars, encryptionVars
<1>2. /\ DOMAIN inUse = Instances /\ DOMAIN device = Instances /\ DOMAIN output = Outputs
      /\ \A x \in Outputs : IsSeq(output[x]) /\ x \in Instances
      /\ \A x \in Instances : IsSeq(device[x]) /\ Counted(x)
  BY ObjectFacts DEF Finishing, BuffersCounted
<1>3. PICK n \in ToPlay(o) :
        /\ output' = [output EXCEPT ![o] = SubSeq(output[o], n + 1, Len(output[o]))]
        /\ inUse' = [inUse EXCEPT ![o] = inUse[o] + n]
        /\ device' = [device EXCEPT ![o] = device[o] \o Data(SubSeq(output[o], 1, n))]
  BY DEF DecideWhetherToOutput, Dequeue
<1>4. n \in 0 .. Len(output[o]) /\ n \in Nat
  <2>1. Len(output[o]) \in Nat
    BY <1>2, Lengths
  <2>2. n \in 1 .. Len(output[o]) \/ n = Len(output[o])
    BY DEF ToPlay
  <2> QED
    BY <2>1, <2>2
<1>5. PICK d : d = Data(SubSeq(output[o], 1, n))
  OBVIOUS
<1>6. IsSeq(d) /\ Len(d) = n /\ IsSeq(SubSeq(output[o], n + 1, Len(output[o])))
  BY <1>2, <1>4, <1>5, TakenMany
<1>7. /\ DOMAIN inUse' = Instances /\ DOMAIN device' = Instances /\ DOMAIN output' = Outputs
      /\ device'[o] = device[o] \o d /\ inUse'[o] = inUse[o] + n
      /\ output'[o] = SubSeq(output[o], n + 1, Len(output[o]))
      /\ \A x \in Instances : x # o => device'[x] = device[x] /\ inUse'[x] = inUse[x]
      /\ \A x \in Outputs : x # o => output'[x] = output[x]
  BY <1>2, <1>3, <1>5
<1>8. IsSeq(device'[o]) /\ Len(device'[o]) = Len(device[o]) + n /\ Len(device[o]) \in Nat
  BY <1>2, <1>6, <1>7, Joined
<1>9. BuffersCounted'
  <2>1. Cardinality(ItemsIn(queue[SoundThread], o)) \in Nat
    BY <1>2, BuffersUsed
  <2>2. Counted(o)'
    <3>1. Counted(o) /\ (Released(o)' <=> Released(o))
      BY <1>1, <1>2 DEF Released
    <3>2. inUse'[o] = inUse[o] + n /\ Len(device'[o]) = Len(device[o]) + n
      BY <1>7, <1>8
    <3> QED
      BY <1>1, <1>4, <1>8, <2>1, <3>1, <3>2 DEF Counted
  <2>3. \A x \in Instances : x # o => Counted(x)'
    BY <1>1, <1>2, <1>7 DEF Counted, Released
  <2>4. /\ \A x \in Instances : IsSeq(device'[x])
        /\ \A x \in Outputs : IsSeq(output'[x])
    BY <1>2, <1>6, <1>7, <1>8
  <2> QED
    BY <1>7, <2>2, <2>3, <2>4 DEF BuffersCounted
<1>10. QueuesFit' /\ LastKnown' /\ ~fault'
  BY <1>1 DEF Finishing, QueuesFit, LastKnown
<1>11. \A x : Busy(x)' <=> Busy(x)
  BY <1>1 DEF Busy
<1>12. ~Empty(o) /\ ~Drained(o)
  BY <1>1 DEF Empty, Drained
<1> QED
  BY <1>1, <1>2, <1>7, <1>9, <1>10, <1>11, <1>12, DeviceFits

\* An output drops what it has stored.
LEMMA ClearOutputFits ==
  ASSUME IInv, Finishing, NEW o \in Outputs, ClearOutput(o), UNCHANGED encryptionVars
  PROVE  Finishing'
<1>1. /\ call[Main].at = "destroy" /\ call[Main].obj = o /\ o \in Instances
      /\ output' = [output EXCEPT ![o] = <<>>] /\ Goto(Main, "reset")
      /\ UNCHANGED <<queue, stage, dead, last, device, inUse, fault, using, usage, exists, settled, keyLives>>
  BY DEF ClearOutput, InCall, At, sharedVars, itemVars, historyVars, bufferVars, encryptionVars
<1>2. call[Main] \in Calls /\ call \in [Callers -> Calls] /\ Main \in Callers
  BY CallFacts, ObjectFacts DEF IInv
<1>3. PICK r : r = [call[Main] EXCEPT !.at = "reset"]
  OBVIOUS
<1>4. r.at = "reset" /\ r.obj = o /\ call' = [call EXCEPT ![Main] = r]
  BY <1>1, <1>2, <1>3, PlaceChanged DEF Goto
<1>5. call'[Main] = r /\ \A j \in Callers : j # Main => call'[j] = call[j]
  BY <1>2, <1>4
<1>6. /\ DOMAIN inUse = Instances /\ DOMAIN device = Instances /\ DOMAIN output = Outputs
      /\ \A x \in Outputs : IsSeq(output[x])
      /\ \A x \in Instances : IsSeq(device[x]) /\ Counted(x)
  BY DEF Finishing, BuffersCounted
<1>7. /\ DOMAIN output' = Outputs /\ output'[o] = <<>>
      /\ \A x \in Outputs : x # o => output'[x] = output[x]
  BY <1>1, <1>6
<1>8. BuffersCounted'
  <2>1. \A x \in Outputs : IsSeq(output'[x])
    BY <1>6, <1>7, EmptyIsSeq
  <2> QED
    BY <1>1, <1>6, <1>7, <2>1 DEF BuffersCounted, Counted, Released
<1>9. QueuesFit' /\ LastKnown' /\ ~fault' /\ dead' = {}
  BY <1>1 DEF Finishing, QueuesFit, LastKnown
<1>10. \A x : Busy(x)' <=> Busy(x)
  BY <1>1 DEF Busy
<1>11. \A x \in Instances : (Empty(x) => Empty(x)') /\ (Drained(x) => Drained(x)')
  BY <1>1, <1>7 DEF Empty, Drained
<1>12. CallFits(call[Main])'
  <2>1. Empty(o)'
    BY <1>7 DEF Empty
  <2>2. SoundFits(call[Main])'
    BY <1>4, <1>5, <2>1 DEF SoundFits, CleanupPlaces, Empty
  <2> QED
    BY <1>1, <1>4, <1>5, <2>2, ObjectFacts
    DEF CallFits, PacketFits, IdleFits, LastFits, MustBeIdle, CleanupPlaces
<1>13. ASSUME NEW j \in Callers
       PROVE  \/ call'[j] = call[j] /\ PacketFits(call[j])' /\ LastFits(call[j])'
              \/ CallFits(call[j])'
  <2>1. CASE j = Main
    BY <1>12, <2>1
  <2>2. CASE j # Main
    <3>1. call'[j] = call[j]
      BY <1>5, <2>2
    <3> QED
      BY <1>1, <3>1, FitsNow DEF PacketFits, LastFits
  <2> QED
    BY <2>1, <2>2
<1>14. \A p \in Packets : Busy(p)' => p \in exists' /\ p \notin settled' /\ keyLives'
  BY <1>1, <1>10 DEF Finishing, BusyPacketsLive
<1>15. \A x \in Objects : ~using'[x] => ~using[x] \/ (~Busy(x) /\ (x \in Instances => Drained(x)))
  BY <1>1
<1> QED
  BY <1>8, <1>9, <1>10, <1>11, <1>13, <1>14, <1>15, StepFits

\* Its device gives everything back, and then it ends.
LEMMA ResetOutputFits ==
  ASSUME IInv, Finishing, NEW o \in Outputs, ResetOutput(o) \/ Unlist(o), ~Fails, UNCHANGED encryptionVars
  PROVE  Finishing'
<1>1. /\ call[Main].at \in {"reset", "waitBuffers"} /\ call[Main].obj = o /\ o \in Instances
  BY DEF ResetOutput, Unlist, InCall, At
<1>2. Empty(o)
  BY <1>1, FitsNow, ObjectFacts DEF SoundFits
<1>3. CASE ResetOutput(o)
  <2>1. Quiet /\ Goto(Main, "waitBuffers")
    BY <1>3 DEF ResetOutput, Quiet, sharedVars, itemVars, historyVars, outputVars, encryptionVars
  <2> QED
    BY <1>1, <1>2, <2>1, GoneFits
<1>4. CASE Unlist(o)
  <2>1. Quiet
    BY <1>4 DEF Unlist, Quiet, sharedVars, itemVars, historyVars, bufferVars, encryptionVars
  <2>2. EndDestructor(o) /\ Drained(o)
    BY <1>2, <1>4 DEF Unlist, NoBuffersInUse, Drained
  <2> QED
    BY <1>1, <2>1, <2>2, EndsFits
<1> QED
  BY <1>3, <1>4

\* The device is done with a buffer, and posts it to the callback thread.
LEMMA BufferDoneFits ==
  ASSUME IInv, Finishing, NEW o \in Instances, BufferDone(o), UNCHANGED encryptionVars
  PROVE  Finishing'
<1>1. /\ device[o] # <<>> /\ device' = [device EXCEPT ![o] = Tail(device[o])]
      /\ fault' = (instance[o] = "deleted")
      /\ UNCHANGED <<stage, dead, inUse, output, call, using, usage, exists, settled, keyLives>>
  BY DEF BufferDone, outputVars, encryptionVars
<1>2. PICK data : PostMessageItem(o, 0, data)
  BY DEF BufferDone
<1>3. /\ Len(device[o]) \in Nat /\ inUse[o] \in Int
      /\ Cardinality(ItemsIn(queue[SoundThread], o)) \in Nat
      /\ ~Drained(o) /\ using[o] /\ instance[o] # "deleted"
      /\ \A j \in Callers : call[j].obj = o =>
           ~MustBeIdle(call[j]) /\ call[j].at \notin CleanupPlaces \cup {"cleanup", "free"}
  BY <1>1, BuffersUsed
<1>4. o \in Objects /\ 0 \in 0 .. NumThreads[ClassOf[o]] - 1
  BY ObjectFacts, ThreadFacts
<1>5. /\ QueuesFit' /\ LastKnown'
      /\ \A x : x # o => (Busy(x)' <=> Busy(x))
      /\ \A x \in Instances :
           /\ Cardinality(ItemsIn(queue'[SoundThread], x)) =
                Cardinality(ItemsIn(queue[SoundThread], x)) + (IF x = o THEN 1 ELSE 0)
           /\ Released(x)' <=> Released(x)
  BY <1>1, <1>2, <1>4, PostFits
<1>6. /\ DOMAIN inUse = Instances /\ DOMAIN device = Instances /\ DOMAIN output = Outputs
      /\ \A x \in Outputs : IsSeq(output[x])
      /\ \A x \in Instances : IsSeq(device[x]) /\ Counted(x)
  BY DEF Finishing, BuffersCounted
<1>7. /\ DOMAIN device' = Instances /\ device'[o] = Tail(device[o])
      /\ \A x \in Instances : x # o => device'[x] = device[x]
  BY <1>1, <1>6
<1>8. IsSeq(device'[o]) /\ Len(device'[o]) = Len(device[o]) - 1
  <2>1. IsSeq(device[o])
    BY <1>6
  <2> QED
    BY <1>1, <1>7, <2>1, Taken
<1>9. BuffersCounted'
  <2>1. Counted(o)'
    <3>1. Counted(o) /\ (Released(o)' <=> Released(o)) /\ inUse'[o] = inUse[o]
      BY <1>1, <1>5, <1>6
    <3>2. Cardinality(ItemsIn(queue'[SoundThread], o)) = Cardinality(ItemsIn(queue[SoundThread], o)) + 1
      BY <1>5
    <3> QED
      BY <1>3, <1>8, <3>1, <3>2 DEF Counted
  <2>2. ASSUME NEW x \in Instances, x # o
        PROVE  Counted(x)'
    <3>1. /\ Counted(x) /\ (Released(x)' <=> Released(x)) /\ inUse'[x] = inUse[x]
          /\ device'[x] = device[x] /\ Cardinality(ItemsIn(queue[SoundThread], x)) \in Nat
      BY <1>1, <1>5, <1>6, <1>7, <2>2, BuffersUsed
    <3>2. Cardinality(ItemsIn(queue'[SoundThread], x)) = Cardinality(ItemsIn(queue[SoundThread], x))
      BY <1>5, <2>2, <3>1
    <3> QED
      BY <3>1, <3>2 DEF Counted
  <2>3. \A x \in Instances : IsSeq(device'[x])
    BY <1>6, <1>7, <1>8
  <2> QED
    BY <1>1, <1>6, <1>7, <2>1, <2>2, <2>3 DEF BuffersCounted
<1>10. Opens(o) /\ ~fault'
  BY <1>1, <1>3 DEF Opens
<1>11. Empty(o)' <=> Empty(o)
  BY <1>1 DEF Empty
<1> QED
  BY <1>1, <1>5, <1>9, <1>10, <1>11, DeviceFits

\* The callback thread goes on with the item of an instance, which exists.
LEMMA CallbackFits ==
  ASSUME IInv, Finishing, NEW o \in Instances, NEW place \in {"handOut", "release", "decide"}, NEW m \in {0, 1},
         NEW k \in Int, k = IF place = "decide" THEN m - 1 ELSE m,
         queue[SoundThread] # <<>>, o = Item(SoundThread).obj, stage[SoundThread] # "decide",
         stage' = [stage EXCEPT ![SoundThread] = place],
         fault' = (instance[o] = "deleted"),
         DOMAIN inUse' = Instances, DOMAIN device' = Instances,
         inUse'[o] = inUse[o] + k, device'[o] = IF m = 0 THEN device[o] ELSE Append(device[o], 0),
         \A x \in Instances : x # o => device'[x] = device[x] /\ inUse'[x] = inUse[x],
         UNCHANGED <<queue, last, dead, output, call, using, usage, exists, settled, keyLives>>
  PROVE  Finishing'
<1>1. /\ queue[SoundThread][1].obj = o /\ Busy(o) /\ ItemsIn(queue[SoundThread], o) # {}
      /\ SoundThread \in Threads
  BY ItemFacts, ThreadFacts DEF Finishing
<1>2. ~Released(o)
  BY DEF Released
<1>3. /\ Len(device[o]) \in Nat /\ inUse[o] \in Int
      /\ Cardinality(ItemsIn(queue[SoundThread], o)) \in Nat
      /\ ~Drained(o) /\ using[o] /\ instance[o] # "deleted"
  BY <1>1, <1>2, BuffersUsed
<1>4. /\ DOMAIN inUse = Instances /\ DOMAIN device = Instances /\ DOMAIN output = Outputs
      /\ \A x \in Outputs : IsSeq(output[x])
      /\ \A x \in Instances : IsSeq(device[x]) /\ Counted(x)
  BY DEF Finishing, BuffersCounted
<1>5. stage = [t \in Threads |-> stage[t]] /\ queue = [t \in Threads |-> queue[t]]
  BY DEF Finishing, QueuesFit
<1>6. /\ stage'[SoundThread] = place /\ stage' = [t \in Threads |-> stage'[t]]
      /\ \A t \in Threads : t # SoundThread => stage'[t] = stage[t]
  BY <1>1, <1>5
<1>7. QueuesFit'
  <2>1. \A t \in Threads : stage'[t] # "get" => queue[t] # <<>>
    BY <1>6 DEF Finishing, QueuesFit
  <2>2. queue' = queue /\ queue' = [t \in Threads |-> queue'[t]]
    BY <1>5
  <2> QED
    BY <1>6, <2>1, <2>2 DEF Finishing, QueuesFit
<1>8. LastKnown' /\ ~fault'
  BY <1>3 DEF Finishing, LastKnown
<1>9. IsSeq(device'[o]) /\ Len(device'[o]) = Len(device[o]) + m
  <2>1. IsSeq(device[o])
    BY <1>4
  <2>2. CASE m = 0
    BY <1>3, <2>1, <2>2
  <2>3. CASE m = 1
    <3>1. device'[o] = Append(device[o], 0)
      BY <2>3
    <3> QED
      BY <2>1, <2>3, <3>1, Appended
  <2> QED
    BY <2>2, <2>3
<1>10. Released(o)' <=> place = "decide"
  BY <1>1, <1>6 DEF Released
<1>11. \A x \in Instances : x # o => ~Released(x)' /\ ~Released(x)
  BY <1>1 DEF Released
<1>12. BuffersCounted'
  <2>1. Counted(o)'
    <3>1. inUse[o] = Len(device[o]) + Cardinality(ItemsIn(queue[SoundThread], o))
      BY <1>2, <1>3, <1>4 DEF Counted
    <3>2. CASE place = "decide"
      <4>1. inUse'[o] = inUse[o] + m - 1
        BY <1>3, <3>2
      <4>2. PICK a, c \in Nat : a = Len(device[o]) /\ c = Cardinality(ItemsIn(queue[SoundThread], o))
        BY <1>3
      <4>3. inUse'[o] = a + c + m - 1 /\ Len(device'[o]) = a + m
        BY <1>9, <3>1, <4>1, <4>2
      <4>4. c = Cardinality(ItemsIn(queue'[SoundThread], o)) /\ Released(o)'
        BY <1>10, <3>2, <4>2
      <4>5. a + c + m - 1 = (a + m) + c - 1
        OBVIOUS
      <4>6. inUse'[o] = Len(device'[o]) + c - 1
        BY <4>3, <4>5
      <4> QED
        BY <4>4, <4>6 DEF Counted
    <3>3. CASE place # "decide"
      <4>1. inUse'[o] = inUse[o] + m
        BY <3>3
      <4> QED
        BY <1>3, <1>9, <1>10, <3>1, <3>3, <4>1 DEF Counted
    <3> QED
      BY <3>2, <3>3
  <2>2. \A x \in Instances : x # o => Counted(x)'
    BY <1>4, <1>11 DEF Counted
  <2>3. \A x \in Instances : IsSeq(device'[x])
    BY <1>4, <1>9
  <2> QED
    BY <1>4, <2>1, <2>2, <2>3 DEF BuffersCounted
<1>13. \A x : Busy(x)' <=> Busy(x)
  BY DEF Busy
<1>14. Empty(o)' <=> Empty(o)
  BY DEF Empty
<1> QED
  BY <1>3, <1>7, <1>8, <1>12, <1>13, <1>14, DeviceFits

\* Its places.
LEMMA HandlingFits ==
  ASSUME IInv, Finishing, NEW o \in Instances, UNCHANGED encryptionVars,
         (o \in Inputs /\ (StoreData(o) \/ HandOut(o))) \/ ReleaseBuffer(o)
  PROVE  Finishing'
<1>1. /\ queue[SoundThread] # <<>> /\ o = Item(SoundThread).obj /\ stage[SoundThread] # "decide"
      /\ fault' = (instance[o] = "deleted")
      /\ UNCHANGED <<queue, last, dead, output, call, using, usage, exists, settled, keyLives>>
  BY DEF StoreData, HandOut, ReleaseBuffer, Handling, handlingUnchanged, lockVars, outputVars, encryptionVars
<1>2. inUse[o] \in Int /\ DOMAIN inUse = Instances /\ DOMAIN device = Instances
  BY BuffersUsed DEF Finishing, BuffersCounted
<1>3. CASE StoreData(o)
  <2>1. stage' = [stage EXCEPT ![SoundThread] = "handOut"] /\ UNCHANGED <<inUse, device>>
    BY <1>3 DEF StoreData, GotoStage, bufferVars
  <2>2. PICK m \in {0, 1} : m = 0
    OBVIOUS
  <2>3. PICK place \in {"handOut", "release", "decide"} : place = "handOut"
    OBVIOUS
  <2>4. stage' = [stage EXCEPT ![SoundThread] = place]
    BY <2>1, <2>3
  <2>5. /\ DOMAIN inUse' = Instances /\ DOMAIN device' = Instances /\ inUse'[o] = inUse[o] + m
        /\ device'[o] = IF m = 0 THEN device[o] ELSE Append(device[o], 0)
        /\ \A x \in Instances : x # o => device'[x] = device[x] /\ inUse'[x] = inUse[x]
    BY <1>2, <2>1, <2>2
  <2>6. m \in Int /\ m = IF place = "decide" THEN m - 1 ELSE m
    BY <2>3
  <2> QED
    BY <1>1, <2>4, <2>5, <2>6, CallbackFits
<1>4. CASE HandOut(o)
  <2>1. PICK m \in {0, 1} : m = IF unpaused[o] THEN 1 ELSE 0
    OBVIOUS
  <2>2. PICK place \in {"handOut", "release", "decide"} : place = "release"
    OBVIOUS
  <2>3. stage' = [stage EXCEPT ![SoundThread] = place]
    BY <1>4, <2>2 DEF HandOut, GotoStage
  <2>4. /\ DOMAIN inUse' = Instances /\ DOMAIN device' = Instances /\ inUse'[o] = inUse[o] + m
        /\ device'[o] = IF m = 0 THEN device[o] ELSE Append(device[o], 0)
        /\ \A x \in Instances : x # o => device'[x] = device[x] /\ inUse'[x] = inUse[x]
    <3>1. CASE unpaused[o]
      BY <1>2, <1>4, <2>1, <3>1 DEF HandOut
    <3>2. CASE ~unpaused[o]
      BY <1>2, <1>4, <2>1, <3>2 DEF HandOut
    <3> QED
      BY <3>1, <3>2
  <2>5. m \in Int /\ m = IF place = "decide" THEN m - 1 ELSE m
    BY <2>2
  <2> QED
    BY <1>1, <2>3, <2>4, <2>5, CallbackFits
<1>5. CASE ReleaseBuffer(o)
  <2>1. /\ stage' = [stage EXCEPT ![SoundThread] = "decide"] /\ device' = device
        /\ inUse' = [inUse EXCEPT ![o] = inUse[o] - 1]
    BY <1>5 DEF ReleaseBuffer, GotoStage
  <2>2. PICK m \in {0, 1} : m = 0
    OBVIOUS
  <2>3. PICK place \in {"handOut", "release", "decide"} : place = "decide"
    OBVIOUS
  <2>4. PICK k \in Int : k = -1
    OBVIOUS
  <2>5. stage' = [stage EXCEPT ![SoundThread] = place]
    BY <2>1, <2>3
  <2>6. /\ DOMAIN inUse' = Instances /\ DOMAIN device' = Instances /\ inUse'[o] = inUse[o] + k
        /\ device'[o] = IF m = 0 THEN device[o] ELSE Append(device[o], 0)
        /\ \A x \in Instances : x # o => device'[x] = device[x] /\ inUse'[x] = inUse[x]
    BY <1>2, <2>1, <2>2, <2>4
  <2>7. k = IF place = "decide" THEN m - 1 ELSE m
    BY <2>2, <2>3, <2>4
  <2> QED
    BY <1>1, <2>5, <2>6, <2>7, CallbackFits
<1> QED
  BY <1>3, <1>4, <1>5

-----------------------------------------------------------------------------
(***************************************************************************)
(* The theorem.                                                            *)
(***************************************************************************)
\* The program's calls about sound, if no device fails.
LEMMA SoundCallsFit ==
  ASSUME IInv, Finishing, SoundCalls, fails' = fails, ~Fails, UNCHANGED encryptionVars
  PROVE  Finishing'
<1>1. ASSUME NEW d \in Kinds, NEW s \in Slots, NEW o \in Instances,
             StartInstance(d, s, o) \/ FinishInstance(d, s, o)
      PROVE  Finishing'
  BY <1>1, StartInstanceFits
<1>2. ASSUME NEW ids, StartSound(ids)
      PROVE  Finishing'
  BY <1>2, StartSoundFits
<1>3. ASSUME NEW s \in Slots, NEW o \in Inputs, UnpauseInput(s, o)
      PROVE  Finishing'
  BY <1>3, UnpauseInputFits
<1>4. ASSUME NEW s \in Slots, NEW o \in Inputs, PauseInput(s, o)
      PROVE  Finishing'
  BY <1>4, PauseFits
<1>5. ASSUME NEW s \in Slots, NEW o \in Inputs, GetInputData(s, o)
      PROVE  Finishing'
  BY <1>5, PlayDataFits, ObjectFacts
<1>6. ASSUME NEW s \in Slots, NEW o \in Outputs, NEW n, PlayData(s, o, n) \/ SetSmoothValues(s, o, n)
      PROVE  Finishing'
  BY <1>6, PlayDataFits, ObjectFacts
<1> QED
  BY <1>1, <1>2, <1>3, <1>4, <1>5, <1>6 DEF SoundCalls

\* What goes on after them.
LEMMA SoundGoesOnFits ==
  ASSUME IInv, Finishing, SoundGoesOn, fails' = fails, ~Fails, UNCHANGED encryptionVars
  PROVE  Finishing'
<1>1. ASSUME NEW o \in Outputs, ClearOutput(o) \/ ResetOutput(o) \/ Unlist(o) \/ DecideWhetherToOutput(o)
      PROVE  Finishing'
  BY <1>1, ClearOutputFits, ResetOutputFits, DecideFits
<1>2. ASSUME NEW o \in Inputs,
             StopHandingOut(o) \/ ResetInput(o) \/ ResetInputFails(o) \/ InputStopped(o)
      PROVE  Finishing'
  BY <1>2, PauseFits
<1>3. ASSUME NEW o \in Inputs, StoreData(o) \/ HandOut(o)
      PROVE  Finishing'
  BY <1>3, HandlingFits, ObjectFacts
<1>4. ASSUME NEW o \in Instances, OpenDevice(o) \/ Install(o) \/ FreeInstance(o)
      PROVE  Finishing'
  BY <1>4, InstallFits
<1>5. ASSUME NEW o \in Instances, BufferDone(o) \/ ReleaseBuffer(o)
      PROVE  Finishing'
  BY <1>5, BufferDoneFits, HandlingFits
<1>6. \A o : ~DecideFails(o) /\ ~OpenDeviceFails(o) /\ ~CallbackFails(o)
  BY DEF DecideFails, OpenDeviceFails, CallbackFails
<1>7. CASE FinishNext
  BY <1>7, FinishNextFits
<1> QED
  BY <1>1, <1>2, <1>3, <1>4, <1>5, <1>6, <1>7 DEF SoundGoesOn

\* What sound leaves alone.
LEMMA SoundApart ==
  ASSUME SoundCalls \/ SoundGoesOn, fails \in Nat
  PROVE  /\ UNCHANGED <<overlapped, rash>>
         /\ fails' = fails \/ (Fails /\ fails' = fails + 1)
<1>1. UNCHANGED <<overlapped, rash>>
  <2>1. ASSUME NEW d \in Kinds, NEW s \in Slots, NEW o \in Instances,
               StartInstance(d, s, o) \/ FinishInstance(d, s, o)
        PROVE  UNCHANGED <<overlapped, rash>>
    BY <2>1 DEF StartInstance, FinishInstance, sharedVars, historyVars
  <2>2. ASSUME NEW ids, StartSound(ids)
        PROVE  UNCHANGED <<overlapped, rash>>
    BY <2>2 DEF StartSound, sharedVars, historyVars
  <2>3. ASSUME NEW s \in Slots, NEW o, NEW n,
               \/ UnpauseInput(s, o) \/ PauseInput(s, o) \/ GetInputData(s, o)
               \/ PlayData(s, o, n) \/ SetSmoothValues(s, o, n)
        PROVE  UNCHANGED <<overlapped, rash>>
    BY <2>3 DEF UnpauseInput, PauseInput, GetInputData, PlayData, SetSmoothValues, sharedVars, poolVars,
                historyVars
  <2>4. ASSUME NEW o,
               \/ ClearOutput(o) \/ ResetOutput(o) \/ Unlist(o) \/ DecideWhetherToOutput(o) \/ DecideFails(o)
               \/ StopHandingOut(o) \/ ResetInput(o) \/ ResetInputFails(o) \/ InputStopped(o)
        PROVE  UNCHANGED <<overlapped, rash>>
    BY <2>4 DEF ClearOutput, ResetOutput, Unlist, DecideWhetherToOutput, DecideFails, StopHandingOut,
                ResetInput, ResetInputFails, InputStopped, sharedVars, poolVars, historyVars
  <2>5. ASSUME NEW o,
               \/ StoreData(o) \/ HandOut(o) \/ BufferDone(o) \/ ReleaseBuffer(o) \/ CallbackFails(o)
               \/ OpenDevice(o) \/ OpenDeviceFails(o) \/ Install(o) \/ FreeInstance(o)
        PROVE  UNCHANGED <<overlapped, rash>>
    BY <2>5 DEF StoreData, HandOut, BufferDone, ReleaseBuffer, CallbackFails, OpenDevice, OpenDeviceFails,
                Install, FreeInstance, handlingUnchanged, sharedVars, historyVars
  <2>6. CASE FinishNext
    BY <2>6 DEF FinishNext, sharedVars, historyVars
  <2>7. CASE SoundCalls
    BY <2>1, <2>2, <2>3, <2>7 DEF SoundCalls
  <2>8. CASE SoundGoesOn
    BY <2>4, <2>5, <2>6, <2>8 DEF SoundGoesOn
  <2> QED
    BY <2>7, <2>8
<1>2. fails' = fails \/ (Fails /\ fails' = fails + 1)
  <2>1. ASSUME NEW d \in Kinds, NEW s \in Slots, NEW o \in Instances,
               StartInstance(d, s, o) \/ FinishInstance(d, s, o)
        PROVE  fails' = fails
    BY <2>1 DEF StartInstance, FinishInstance
  <2>2. ASSUME NEW ids, StartSound(ids)
        PROVE  fails' = fails
    BY <2>2 DEF StartSound
  <2>3. ASSUME NEW s \in Slots, NEW o, NEW n,
               \/ UnpauseInput(s, o) \/ PauseInput(s, o) \/ GetInputData(s, o)
               \/ PlayData(s, o, n) \/ SetSmoothValues(s, o, n)
        PROVE  fails' = fails \/ (Fails /\ fails' = fails + 1)
    BY <2>3 DEF UnpauseInput, PauseInput, GetInputData, PlayData, SetSmoothValues, soundVars, Works, Fails
  <2>4. ASSUME NEW o,
               \/ ClearOutput(o) \/ ResetOutput(o) \/ Unlist(o) \/ DecideWhetherToOutput(o) \/ DecideFails(o)
               \/ StopHandingOut(o) \/ ResetInput(o) \/ ResetInputFails(o) \/ InputStopped(o)
        PROVE  fails' = fails \/ (Fails /\ fails' = fails + 1)
    BY <2>4 DEF ClearOutput, ResetOutput, Unlist, DecideWhetherToOutput, DecideFails, StopHandingOut,
                ResetInput, ResetInputFails, InputStopped, soundVars, Works, Fails
  <2>5. ASSUME NEW o,
               \/ StoreData(o) \/ HandOut(o) \/ BufferDone(o) \/ ReleaseBuffer(o) \/ CallbackFails(o)
               \/ OpenDevice(o) \/ OpenDeviceFails(o) \/ Install(o) \/ FreeInstance(o)
        PROVE  fails' = fails \/ (Fails /\ fails' = fails + 1)
    BY <2>5 DEF StoreData, HandOut, BufferDone, ReleaseBuffer, CallbackFails, OpenDevice, OpenDeviceFails,
                Install, FreeInstance, Works, Fails
  <2>6. CASE FinishNext
    BY <2>6 DEF FinishNext
  <2>7. CASE SoundCalls
    BY <2>1, <2>2, <2>3, <2>7 DEF SoundCalls
  <2>8. CASE SoundGoesOn
    BY <2>4, <2>5, <2>6, <2>8 DEF SoundGoesOn
  <2> QED
    BY <2>7, <2>8
<1> QED
  BY <1>1, <1>2

\* What happened once has happened ever after.
LEMMA Calmer ==
  ASSUME fails \in Nat, keyLives => ~careless, [UsersNext]_userVars
  PROVE  fails' \in Nat /\ (keyLives' => ~careless') /\ (Calm' => Calm) /\ (overlapped => overlapped')
<1>1. CASE PoolNext /\ UNCHANGED <<encryptionVars, soundVars>>
  <2>1. UNCHANGED <<keyLives, careless, fails>>
    BY <1>1 DEF encryptionVars, soundVars
  <2>2. ASSUME NEW k \in Callers, CallerStep(k)
        PROVE  (overlapped => overlapped') /\ rash \subseteq rash'
    <3>1. CASE SetupThreads(k)
      <4>1. rash' = rash /\ overlapped' = (overlapped \/ CleaningUp(Class(k)))
        BY <3>1 DEF SetupThreads
      <4> QED
        BY <4>1
    <3>2. CASE CreateThreads(k) \/ CountUser(k)
      BY <3>2 DEF CreateThreads, CountUser, historyVars
    <3>3. CASE CleanupThreads(k)
      BY <3>3 DEF CleanupThreads
    <3>4. CASE ReleaseThreads(k) \/ ClearThreads(k) \/ LeaveThreads(k)
      BY <3>4 DEF ReleaseThreads, ClearThreads, LeaveThreads, historyVars
    <3> QED
      BY <2>2, <3>1, <3>2, <3>3, <3>4 DEF CallerStep
  <2>3. ASSUME NEW t \in Threads, ThreadDecides(t)
        PROVE  (overlapped => overlapped') /\ rash \subseteq rash'
    BY <2>3 DEF ThreadDecides, historyVars
  <2>4. (overlapped => overlapped') /\ rash \subseteq rash'
    BY <1>1, <2>2, <2>3 DEF PoolNext
  <2> QED
    BY <2>1, <2>4 DEF Calm
<1>2. CASE (EncryptionCalls \/ EncryptionGoesOn) /\ UNCHANGED soundVars
  <2>1. fails' = fails
    BY <1>2 DEF soundVars
  <2>2. ASSUME NEW k \in Callers, NEW p \in Packets,
               \/ \E op \in Operations, block \in BOOLEAN : BeginOperation(k, p, op, block)
               \/ PollFinished(k, p) \/ DestroyPacket(k, p)
        PROVE  UNCHANGED <<overlapped, rash, keyLives, careless>>
    BY <2>2 DEF BeginOperation, PollFinished, DestroyPacket, poolVars, historyVars, encryptionVars
  <2>3. ASSUME NEW k \in Callers, PostItem(k) \/ EndLoop(k) \/ WaitUntilFinished(k) \/ FreePacket(k)
        PROVE  UNCHANGED <<overlapped, rash, keyLives, careless>>
    BY <2>3 DEF PostItem, EndLoop, WaitUntilFinished, FreePacket, historyVars, encryptionVars
  <2>4. ASSUME NEW t \in Threads, EncryptChunks(t)
        PROVE  UNCHANGED <<overlapped, rash, keyLives, careless>>
    BY <2>4 DEF EncryptChunks
  <2>5. ASSUME NEW k \in Callers, DeleteKey(k)
        PROVE  UNCHANGED <<overlapped, rash>> /\ keyLives /\ ~keyLives'
    BY <2>5 DEF DeleteKey, poolVars, historyVars
  <2>6. \/ UNCHANGED <<overlapped, rash, keyLives, careless>>
        \/ UNCHANGED <<overlapped, rash>> /\ keyLives /\ ~keyLives'
    BY <1>2, <2>2, <2>3, <2>4, <2>5 DEF EncryptionCalls, EncryptionGoesOn
  <2> QED
    BY <2>1, <2>6 DEF Calm
<1>3. CASE (SoundCalls \/ SoundGoesOn) /\ UNCHANGED encryptionVars
  <2>1. UNCHANGED <<keyLives, careless>>
    BY <1>3 DEF encryptionVars
  <2>2. UNCHANGED <<overlapped, rash>> /\ (fails' = fails \/ fails' = fails + 1)
    BY <1>3, SoundApart
  <2> QED
    BY <2>1, <2>2 DEF Calm
<1>4. CASE UNCHANGED userVars
  BY <1>4 DEF userVars, poolVars, historyVars, encryptionVars, soundVars, Calm
<1> QED
  BY <1>1, <1>2, <1>3, <1>4 DEF UsersNext, Proceed

\* In the beginning nobody has anything to do.
LEMMA FinishingInit == UsersInit => FInv
<1> SUFFICES ASSUME Init, EncryptionInit, SoundInit
             PROVE  FInv
  BY DEF UsersInit
<1>1. /\ queue = [t \in Threads |-> <<>>] /\ stage = [t \in Threads |-> "get"] /\ dead = {}
      /\ last = [o \in Objects |-> [n \in 0 .. NumThreads[ClassOf[o]] - 1 |-> "none"]]
      /\ call = [k \in Callers |-> Idle] /\ ~fault
      /\ device = [o \in Instances |-> <<>>] /\ inUse = [o \in Instances |-> 0]
      /\ output = [o \in Outputs |-> <<>>]
      /\ fails = 0 /\ ~careless
  BY DEF Init, EncryptionInit, SoundInit
<1>2. \A t \in Threads : queue[t] = <<>> /\ stage[t] = "get" /\ \A o : ItemsIn(queue[t], o) = {}
  <2>1. \A o : ItemsIn(<<>>, o) = {}
    BY EmptyIsSeq, ItemsFinite
  <2> QED
    BY <1>1, <2>1
<1>3. QueuesFit
  BY <1>1, <1>2, EmptyIsSeq DEF QueuesFit
<1>4. LastKnown
  <2>1. ASSUME NEW o \in Objects
        PROVE  /\ DOMAIN last[o] = 0 .. NumThreads[ClassOf[o]] - 1
               /\ \A n \in DOMAIN last[o] :
                    last[o][n] = "thread" <=> ItemsIn(queue[<<ClassOf[o], n>>], o) # {}
    BY <1>1, <1>2, ThreadFacts, ObjectFacts
  <2> QED
    BY <1>1, <2>1 DEF LastKnown
<1>5. BuffersCounted
  <2>1. ASSUME NEW o \in Instances
        PROVE  IsSeq(device[o]) /\ Counted(o)
    <3>1. device[o] = <<>> /\ inUse[o] = 0 /\ Cardinality(ItemsIn(queue[SoundThread], o)) = 0 /\ ~Released(o)
      BY <1>1, <1>2, ThreadFacts, FS_EmptySet DEF Released
    <3> QED
      BY <3>1, EmptyIsSeq DEF Counted
  <2> QED
    BY <1>1, <2>1, EmptyIsSeq DEF BuffersCounted
<1>6. UnusedIsIdle /\ BusyPacketsLive
  <2>1. \A o : ~Busy(o)
    BY <1>2 DEF Busy
  <2>2. \A o \in Instances : Drained(o)
    BY <1>1 DEF Drained, Empty
  <2> QED
    BY <2>1, <2>2 DEF UnusedIsIdle, BusyPacketsLive
<1>7. CallsFit
  BY <1>1, IdleFitsAll DEF CallsFit
<1> QED
  BY <1>1, <1>3, <1>4, <1>5, <1>6, <1>7 DEF FInv, Finishing

\* Every step keeps it.
LEMMA FinishingNext == IInv /\ FInv /\ [UsersNext]_userVars => FInv'
<1> SUFFICES ASSUME IInv, FInv, [UsersNext]_userVars
             PROVE  FInv'
  OBVIOUS
<1>1. fails' \in Nat /\ (keyLives' => ~careless') /\ (Calm' => Calm)
  BY Calmer DEF FInv
<1> SUFFICES ASSUME Calm'
             PROVE  Finishing'
  BY <1>1 DEF FInv
<1>2. /\ Calm /\ Finishing /\ ~overlapped /\ rash' = {} /\ ~careless'
      /\ fails' = fails /\ ~Fails
  BY <1>1 DEF FInv, Calm, Fails
<1>3. CASE Proceed
  <2>1. CASE PoolNext /\ UNCHANGED <<encryptionVars, soundVars>>
    BY <1>2, <2>1, PoolFits
  <2>2. CASE EncryptionGoesOn /\ UNCHANGED soundVars
    BY <1>2, <2>2, EncryptionGoesOnFits
  <2>3. CASE SoundGoesOn /\ UNCHANGED encryptionVars
    BY <1>2, <2>3, SoundGoesOnFits
  <2> QED
    BY <1>3, <2>1, <2>2, <2>3 DEF Proceed
<1>4. CASE EncryptionCalls /\ UNCHANGED soundVars
  BY <1>2, <1>4, EncryptionCallsFit
<1>5. CASE SoundCalls /\ UNCHANGED encryptionVars
  BY <1>2, <1>5, SoundCallsFit
<1>6. CASE UNCHANGED userVars
  <2>1. UNCHANGED <<queue, stage, dead, last, device, inUse, output, fault, call,
                    using, usage, exists, settled, keyLives>>
    BY <1>6 DEF userVars, poolVars, itemVars, historyVars, encryptionVars, soundVars, bufferVars, outputVars
  <2> QED
    BY <1>2, <2>1, NothingMoves
<1> QED
  BY <1>3, <1>4, <1>5, <1>6 DEF UsersNext

\* As long as nothing happened that excuses a fault, there was none, and what items,
\* buffers, calls and counts say of each other is true: however many packets, instances,
\* threads of the program and buffers there are.
THEOREM FinishingInvariant == UsersSpec => []FInv
<1>1. UsersInit => FInv
  BY FinishingInit
<1>2. IInv /\ FInv /\ [UsersNext]_userVars => FInv'
  BY FinishingNext
<1> QED
  BY <1>1, <1>2, UsersInvariant, PTL DEF UsersSpec

\* What an object that is destroyed still has in use is used until it has ended, unless it
\* was destroyed without being known to be idle beside other users, the key was deleted too
\* early, a setup ran beside a cleanup, or a device failed.
THEOREM FinishedMeansUnusedHolds == UsersSpec => []FinishedMeansUnused
<1>1. FInv => FinishedMeansUnused
  BY DEF FInv, Calm, Finishing, FinishedMeansUnused
<1> QED
  BY <1>1, FinishingInvariant, PTL

-----------------------------------------------------------------------------
(***************************************************************************)
(* What the chunks of a packet have seen.                                  *)
(***************************************************************************)
\* The threads that encrypt, and the chunks each of them works on.
Encryptors == 0 .. NumThreads["packet"] - 1
Encryptor(n) == <<"packet", n>>
ChunksOf(p, n) == {c \in Chunks(p) : c % NumThreads["packet"] = n}

\* A call that has not posted the last operation of p to thread n yet, and the number of
\* operations that have been posted.
Unposted(r, p, n) == r.obj = p /\ (r.at \in NotYetUsing \/ (r.at = "ready" /\ r.n <= n))
Owed(p, n) == \E k \in Callers : Unposted(call[k], p, n)
Assigned(p, n) == Len(asked[p]) - (IF Owed(p, n) THEN 1 ELSE 0)

\* The items of p from place i on, and whether thread n is done with its first item but
\* for the decision about it.
ItemsFrom(q, p, i) == {j \in i .. Len(q) : q[j].obj = p}
Handled(p, n) == stage[Encryptor(n)] = "decide" /\ queue[Encryptor(n)][1].obj = p

\* The items of p are the last operations asked of it, in order.
Ordinal(p, n, i) == Assigned(p, n) + 1 - Cardinality(ItemsFrom(queue[Encryptor(n)], p, i))
ItemsFollow(p, n) ==
  \A i \in ItemsIn(queue[Encryptor(n)], p) :
    /\ Ordinal(p, n, i) \in 1 .. Len(asked[p])
    /\ queue[Encryptor(n)][i].arg =
         [op |-> asked[p][Ordinal(p, n, i)], size |-> used[p], of |-> NumThreads["packet"]]

\* The chunks of thread n have seen the operations before these.
Seen(p, n) ==
  Assigned(p, n) - Cardinality(ItemsIn(queue[Encryptor(n)], p)) + (IF Handled(p, n) THEN 1 ELSE 0)
ChunksSeen(p, n) ==
  \A c \in ChunksOf(p, n) :
    /\ Len(applied[p][c]) = Seen(p, n)
    /\ \A j \in 1 .. Len(applied[p][c]) : applied[p][c][j] = asked[p][j]

Following == \A p \in exists : \A n \in Encryptors : ItemsFollow(p, n) /\ ChunksSeen(p, n)

\* The size of a packet is changed once, when it is filled up.
SizesKnown ==
  /\ exists \subseteq Packets
  /\ used \in [Packets -> Nat] /\ asked \in [Packets -> Seq(Operations)]
  /\ applied = [p \in Packets |-> applied[p]]
  /\ \A p \in Packets :
       /\ used[p] \in {Sizes[p], Padded(Sizes[p])}
       /\ asked[p] # <<>> => used[p] = Padded(Sizes[p])
       /\ applied[p] \in [Chunks(p) -> Seq(Operations)]

\* A call that is to post an operation has been asked to.
Posting(r) == r.obj \in Packets /\ r.at \in NotYetUsing \cup {"ready"}
PostingFits(r) == Posting(r) => asked[r.obj] # <<>> /\ (r.at = "ready" => r.n \in Nat)
CallsAsked == \A k \in Callers : PostingFits(call[k])

\* What is in a queue has been noted by its object, and no thread that encrypts is dead.
LastCovers ==
  /\ DOMAIN last = Objects
  /\ \A o \in Objects :
       /\ DOMAIN last[o] = 0 .. NumThreads[ClassOf[o]] - 1
       /\ \A n \in DOMAIN last[o] :
            ItemsIn(queue[<<ClassOf[o], n>>], o) # {} => last[o][n] = "thread"

QueuesKnown == QueuesFit /\ dead \subseteq {SoundThread} /\ LastCovers

Ordered  == SizesKnown /\ CallsAsked /\ QueuesKnown /\ Following
OrderInv == fault \/ overlapped \/ Ordered

\* A number of bytes that was filled up is not filled up again.
LEMMA FilledUp ==
  ASSUME NEW s \in Nat
  PROVE  /\ Padded(s) \in Nat /\ Padded(Padded(s)) = Padded(s)
         /\ Padded(s) \div Chunk \in Nat
<1>1. Chunk \in Nat /\ Chunk > 0
  BY EncryptionAssumption
<1>2. \A m, c \in Nat : c > 0 => /\ m * c \in Nat /\ (m * c + c - 1) \div c = m
                                 /\ (m + c - 1) \div c \in Nat /\ m \div c \in Nat
  <2> TAKE m, c \in Nat
  <2> HAVE c > 0
  <2>1. m * c \in Nat
    OBVIOUS
  <2>2. (m * c + c - 1) \div c = m
    OBVIOUS
  <2>3. (m + c - 1) \div c \in Nat /\ m \div c \in Nat
    OBVIOUS
  <2> QED
    BY <2>1, <2>2, <2>3
<1>3. PICK m \in Nat : m = (s + Chunk - 1) \div Chunk
  BY <1>1, <1>2
<1>4. Padded(s) = m * Chunk /\ Padded(s) \in Nat
  BY <1>1, <1>2, <1>3 DEF Padded
<1>5. Padded(Padded(s)) = ((m * Chunk + Chunk - 1) \div Chunk) * Chunk
  BY <1>4 DEF Padded
<1>6. (m * Chunk + Chunk - 1) \div Chunk = m
  BY <1>1, <1>2
<1>7. Padded(s) \div Chunk \in Nat
  BY <1>1, <1>2, <1>4
<1> QED
  BY <1>4, <1>5, <1>6, <1>7

\* The threads that encrypt are not the one of sound.
LEMMA EncryptorFacts ==
  /\ NumThreads["packet"] \in Nat /\ NumThreads["packet"] > 0
  /\ \A n \in Encryptors : n \in Nat /\ n < NumThreads["packet"] /\ Encryptor(n) \in Threads
  /\ \A n \in Encryptors : Encryptor(n) # SoundThread /\ Encryptor(n)[1] = "packet" /\ Encryptor(n)[2] = n
  /\ \A n, m \in Encryptors : n # m => Encryptor(n) # Encryptor(m)
  /\ \A t \in Threads : t # SoundThread => t[2] \in Encryptors /\ t = Encryptor(t[2])
<1>1. NumThreads["packet"] \in Nat /\ NumThreads["packet"] > 0
  BY EncryptionAssumption, SharedThreadsAssumption DEF Classes
<1>2. \A n \in Encryptors : n \in Nat /\ n < NumThreads["packet"]
  BY <1>1 DEF Encryptors
<1>3. \A n \in Encryptors : Encryptor(n) \in Threads
  BY ThreadFacts DEF Encryptors, Encryptor, Classes
<1>4. \A n \in Encryptors : Encryptor(n)[1] = "packet" /\ Encryptor(n)[2] = n
  BY DEF Encryptor
<1>5. SoundThread[1] = "sound"
  BY ThreadFacts
<1>6. ASSUME NEW t \in Threads, t # SoundThread
      PROVE  t[2] \in Encryptors /\ t = Encryptor(t[2])
  <2>1. t = <<t[1], t[2]>> /\ t[1] = "packet" /\ t[2] \in 0 .. NumThreads[t[1]] - 1
    BY <1>6, ThreadFacts DEF Classes
  <2> QED
    BY <2>1 DEF Encryptors, Encryptor
<1> QED
  BY <1>1, <1>2, <1>3, <1>4, <1>5, <1>6

\* Every chunk is that of one thread.
LEMMA ChunkFacts ==
  ASSUME NEW p \in Packets
  PROVE  \A c \in Chunks(p) : /\ c % NumThreads["packet"] \in Encryptors
                               /\ c \in ChunksOf(p, c % NumThreads["packet"])
<1>1. NumThreads["packet"] \in Nat /\ NumThreads["packet"] > 0
  BY EncryptorFacts
<1>2. \A c, m \in Nat : m > 0 => c % m \in 0 .. m - 1
  OBVIOUS
<1>3. \A c \in Chunks(p) : c \in Nat
  <2>1. Padded(Sizes[p]) \div Chunk \in Nat
    BY FilledUp, EncryptionAssumption
  <2> QED
    BY <2>1 DEF Chunks
<1>4. \A c \in Chunks(p) : c % NumThreads["packet"] \in Encryptors
  BY <1>1, <1>2, <1>3 DEF Encryptors
<1> QED
  BY <1>4 DEF ChunksOf

\* The items from a place on are finitely many; the first of them is there.
LEMMA FromFinite ==
  ASSUME NEW q, IsSeq(q), NEW p, NEW i \in Nat
  PROVE  /\ IsFiniteSet(ItemsFrom(q, p, i)) /\ Cardinality(ItemsFrom(q, p, i)) \in Nat
         /\ ItemsFrom(q, p, 1) = ItemsIn(q, p)
         /\ \A j \in ItemsIn(q, p) : Cardinality(ItemsFrom(q, p, j)) >= 1
<1>1. Len(q) \in Nat
  BY Lengths
<1>2. \A j \in Nat : IsFiniteSet(ItemsFrom(q, p, j)) /\ Cardinality(ItemsFrom(q, p, j)) \in Nat
  <2> TAKE j \in Nat
  <2>1. IsFiniteSet(j .. Len(q))
    BY <1>1, FS_Interval
  <2>2. ItemsFrom(q, p, j) \subseteq j .. Len(q)
    BY DEF ItemsFrom
  <2> QED
    BY <2>1, <2>2, FS_Subset, FS_CardinalityType
<1>3. \A j \in ItemsIn(q, p) : Cardinality(ItemsFrom(q, p, j)) >= 1
  <2> TAKE j \in ItemsIn(q, p)
  <2>1. j \in Nat /\ j \in ItemsFrom(q, p, j)
    BY <1>1 DEF ItemsIn, ItemsFrom
  <2>2. Cardinality(ItemsFrom(q, p, j)) # 0
    BY <1>2, <2>1, FS_EmptySet
  <2> QED
    BY <1>2, <2>1, <2>2
<1>4. ItemsFrom(q, p, 1) = ItemsIn(q, p)
  BY DEF ItemsFrom, ItemsIn
<1> QED
  BY <1>2, <1>3, <1>4

\* An item that is posted is the last of its object.
LEMMA FromPosted ==
  ASSUME NEW q, IsSeq(q), NEW x, NEW p
  PROVE  /\ \A i \in 1 .. Len(q) :
              /\ x.obj # p => Cardinality(ItemsFrom(Append(q, x), p, i)) = Cardinality(ItemsFrom(q, p, i))
              /\ x.obj = p => Cardinality(ItemsFrom(Append(q, x), p, i)) = Cardinality(ItemsFrom(q, p, i)) + 1
         /\ x.obj = p => Cardinality(ItemsFrom(Append(q, x), p, Len(q) + 1)) = 1
         /\ \A i \in ItemsIn(Append(q, x), p) : i \in ItemsIn(q, p) \/ (i = Len(q) + 1 /\ x.obj = p)
<1> DEFINE new == Append(q, x)
<1>1. /\ Len(q) \in Nat /\ Len(new) = Len(q) + 1 /\ new[Len(q) + 1] = x
      /\ \A i \in 1 .. Len(q) : new[i] = q[i]
  BY Appended
<1> HIDE DEF new
<1>2. ASSUME NEW i \in 1 .. Len(q)
      PROVE  /\ x.obj # p => Cardinality(ItemsFrom(new, p, i)) = Cardinality(ItemsFrom(q, p, i))
             /\ x.obj = p => Cardinality(ItemsFrom(new, p, i)) = Cardinality(ItemsFrom(q, p, i)) + 1
  <2>1. \A j \in i .. Len(new) : j \in i .. Len(q) \/ j = Len(q) + 1
    BY <1>1
  <2>2. \A j \in i .. Len(q) : j \in i .. Len(new) /\ j \in 1 .. Len(q) /\ j # Len(q) + 1
    BY <1>1
  <2>3. IsFiniteSet(ItemsFrom(q, p, i)) /\ Cardinality(ItemsFrom(q, p, i)) \in Nat
    BY FromFinite
  <2>4. CASE x.obj # p
    <3>1. ItemsFrom(new, p, i) = ItemsFrom(q, p, i)
      BY <1>1, <2>1, <2>2, <2>4 DEF ItemsFrom
    <3> QED
      BY <2>3, <2>4, <3>1
  <2>5. CASE x.obj = p
    <3>1. Len(q) + 1 \in i .. Len(new)
      BY <1>1
    <3>2. ItemsFrom(new, p, i) = ItemsFrom(q, p, i) \cup {Len(q) + 1}
      BY <1>1, <2>1, <2>2, <2>5, <3>1 DEF ItemsFrom
    <3>3. Len(q) + 1 \notin ItemsFrom(q, p, i)
      BY <2>2 DEF ItemsFrom
    <3>4. Cardinality(ItemsFrom(q, p, i) \cup {Len(q) + 1}) = Cardinality(ItemsFrom(q, p, i)) + 1
      BY <2>3, <3>3, FS_AddElement
    <3> QED
      BY <2>5, <3>2, <3>4
  <2> QED
    BY <2>4, <2>5
<1>3. ASSUME x.obj = p
      PROVE  Cardinality(ItemsFrom(new, p, Len(q) + 1)) = 1
  <2>1. \A j : j \in (Len(q) + 1) .. Len(new) <=> j = Len(q) + 1
    BY <1>1
  <2>2. ItemsFrom(new, p, Len(q) + 1) = {Len(q) + 1}
    BY <1>1, <1>3, <2>1 DEF ItemsFrom
  <2> QED
    BY <2>2, FS_Singleton
<1>4. ASSUME NEW i \in ItemsIn(new, p)
      PROVE  i \in ItemsIn(q, p) \/ (i = Len(q) + 1 /\ x.obj = p)
  <2>1. i \in 1 .. Len(q) \/ i = Len(q) + 1
    BY <1>1 DEF ItemsIn
  <2>2. new[i].obj = p
    BY DEF ItemsIn
  <2> QED
    BY <1>1, <2>1, <2>2 DEF ItemsIn
<1> QED
  BY <1>2, <1>3, <1>4 DEF new

\* One of another object changes nothing.
LEMMA FromOther ==
  ASSUME NEW q, IsSeq(q), NEW x, NEW p, x.obj # p
  PROVE  \A i \in 1 .. Len(q) : ItemsFrom(Append(q, x), p, i) = ItemsFrom(q, p, i)
<1> DEFINE new == Append(q, x)
<1>1. /\ Len(q) \in Nat /\ Len(new) = Len(q) + 1 /\ new[Len(q) + 1] = x
      /\ \A i \in 1 .. Len(q) : new[i] = q[i]
  BY Appended
<1> HIDE DEF new
<1> SUFFICES ASSUME NEW i \in 1 .. Len(q)
             PROVE  ItemsFrom(new, p, i) = ItemsFrom(q, p, i)
  BY DEF new
<1>2. \A j \in i .. Len(new) : j \in i .. Len(q) \/ j = Len(q) + 1
  BY <1>1
<1>3. \A j \in i .. Len(q) : j \in i .. Len(new) /\ j \in 1 .. Len(q)
  BY <1>1
<1> QED
  BY <1>1, <1>2, <1>3 DEF ItemsFrom

\* When the first item is done with the others move up.
LEMMA FromDone ==
  ASSUME NEW q, IsSeq(q), q # <<>>, NEW p
  PROVE  \A i \in ItemsIn(Tail(q), p) :
           /\ i + 1 \in ItemsIn(q, p) /\ Tail(q)[i] = q[i + 1]
           /\ Cardinality(ItemsFrom(Tail(q), p, i)) = Cardinality(ItemsFrom(q, p, i + 1))
<1> DEFINE rest == Tail(q)
<1>1. /\ Len(q) \in Nat /\ Len(q) > 0 /\ IsSeq(rest) /\ Len(rest) = Len(q) - 1
      /\ \A i \in 1 .. Len(q) - 1 : rest[i] = q[i + 1]
  BY Taken
<1> HIDE DEF rest
<1>2. SUFFICES ASSUME NEW i \in ItemsIn(rest, p)
               PROVE  /\ i + 1 \in ItemsIn(q, p) /\ rest[i] = q[i + 1]
                      /\ Cardinality(ItemsFrom(rest, p, i)) = Cardinality(ItemsFrom(q, p, i + 1))
  BY DEF rest
<1>3. i \in Nat /\ i \in 1 .. Len(q) - 1 /\ i + 1 \in 1 .. Len(q) /\ rest[i].obj = p /\ rest[i] = q[i + 1]
  BY <1>1 DEF ItemsIn
<1> DEFINE some == ItemsFrom(rest, p, i)
           more == ItemsFrom(q, p, i + 1)
           f == [j \in some |-> j + 1]
<1>4. \A j \in some : j \in Nat /\ j + 1 \in more
  <2> TAKE j \in some
  <2>1. j \in i .. Len(rest) /\ rest[j].obj = p
    BY DEF ItemsFrom
  <2>2. j \in 1 .. Len(q) - 1 /\ j \in Nat /\ j + 1 \in (i + 1) .. Len(q)
    BY <1>1, <1>3, <2>1
  <2> QED
    BY <1>1, <2>1, <2>2 DEF ItemsFrom
<1>5. \A j \in more : j - 1 \in some /\ (j - 1) + 1 = j
  <2> TAKE j \in more
  <2>1. j \in (i + 1) .. Len(q) /\ q[j].obj = p
    BY DEF ItemsFrom
  <2>2. PICK k \in 1 .. Len(q) - 1 : k = j - 1 /\ k + 1 = j /\ k \in i .. Len(rest)
    BY <1>1, <1>3, <2>1
  <2>3. rest[k] = q[j]
    BY <1>1, <2>2
  <2> QED
    BY <2>1, <2>2, <2>3 DEF ItemsFrom
<1>6. IsFiniteSet(some)
  BY <1>1, <1>3, FromFinite
<1> HIDE DEF some, more
<1>7. f \in [some -> more]
  BY <1>4
<1>8. \A j, k \in some : f[j] = f[k] => j = k
  BY <1>4
<1>9. \A j \in more : \E k \in some : f[k] = j
  BY <1>5
<1> HIDE DEF f
<1>10. f \in Bijection(some, more)
  BY <1>7, <1>8, <1>9 DEF Bijection, Injection, Surjection, IsInjective
<1>11. Cardinality(some) = Cardinality(more)
  BY <1>6, <1>10, FS_Bijection DEF ExistsBijection
<1> QED
  BY <1>3, <1>11 DEF ItemsIn, some, more

\* What is asked of a packet and what its items and chunks say stays as it is.
LEMMA FollowingKept ==
  ASSUME NEW p, NEW n, ItemsFollow(p, n), ChunksSeen(p, n),
         asked'[p] = asked[p], used'[p] = used[p],
         \A c \in ChunksOf(p, n) : applied'[p][c] = applied[p][c],
         queue'[Encryptor(n)] = queue[Encryptor(n)], Handled(p, n)' <=> Handled(p, n),
         Owed(p, n)' <=> Owed(p, n)
  PROVE  ItemsFollow(p, n)' /\ ChunksSeen(p, n)'
<1>1. Assigned(p, n)' = Assigned(p, n)
  BY DEF Assigned
<1>2. Seen(p, n)' = Seen(p, n)
  BY <1>1 DEF Seen
<1>3. \A i : Ordinal(p, n, i)' = Ordinal(p, n, i)
  BY <1>1 DEF Ordinal
<1>4. ItemsFollow(p, n)'
  BY <1>3 DEF ItemsFollow
<1>5. ChunksSeen(p, n)'
  <2>1. ChunksOf(p, n)' = ChunksOf(p, n)
    BY DEF ChunksOf, Chunks, Padded
  <2> QED
    BY <1>2, <2>1 DEF ChunksSeen
<1> QED
  BY <1>4, <1>5

\* The numbers in what follows.
LEMMA OrderTypes ==
  ASSUME QueuesFit, SizesKnown, NEW p \in Packets, NEW n \in Encryptors
  PROVE  /\ IsSeq(queue[Encryptor(n)]) /\ Len(queue[Encryptor(n)]) \in Nat
         /\ asked[p] \in Seq(Operations) /\ Len(asked[p]) \in Nat
         /\ Assigned(p, n) \in Int /\ Assigned(p, n) <= Len(asked[p])
         /\ Cardinality(ItemsIn(queue[Encryptor(n)], p)) \in Nat
         /\ Handled(p, n) => /\ 1 \in ItemsIn(queue[Encryptor(n)], p)
                             /\ Cardinality(ItemsIn(queue[Encryptor(n)], p)) >= 1
         /\ Seen(p, n) \in Int /\ Seen(p, n) <= Len(asked[p])
         /\ \A c \in ChunksOf(p, n) : applied[p][c] \in Seq(Operations) /\ Len(applied[p][c]) \in Nat
         /\ \A i \in Nat : Cardinality(ItemsFrom(queue[Encryptor(n)], p, i)) \in Nat
         /\ \A i \in ItemsIn(queue[Encryptor(n)], p) : i \in Nat /\ Ordinal(p, n, i) \in Int
<1> DEFINE q == queue[Encryptor(n)]
<1>1. Encryptor(n) \in Threads
  BY EncryptorFacts
<1>2. IsSeq(q) /\ (stage[Encryptor(n)] # "get" => q # <<>>)
  BY <1>1 DEF QueuesFit
<1>3. Len(q) \in Nat /\ (Len(q) = 0 <=> q = <<>>)
  BY <1>2, Lengths
<1>4. /\ Cardinality(ItemsIn(q, p)) \in Nat
      /\ Cardinality(ItemsIn(q, p)) = 0 <=> ItemsIn(q, p) = {}
  BY <1>2, ItemsFinite
<1>5. Handled(p, n) => 1 \in ItemsIn(q, p) /\ Cardinality(ItemsIn(q, p)) >= 1
  <2> HAVE Handled(p, n)
  <2>1. 1 \in ItemsIn(q, p)
    BY <1>2, <1>3 DEF Handled, ItemsIn
  <2> QED
    BY <1>4, <2>1
<1>6. asked[p] \in Seq(Operations) /\ Len(asked[p]) \in Nat
  BY LenProperties DEF SizesKnown
<1>7. Assigned(p, n) \in Int /\ Assigned(p, n) <= Len(asked[p])
  <2>1. PICK h \in {0, 1} : h = IF Owed(p, n) THEN 1 ELSE 0
    OBVIOUS
  <2>2. Assigned(p, n) = Len(asked[p]) - h
    BY <2>1 DEF Assigned
  <2> QED
    BY <1>6, <2>2
<1>8. \A c \in ChunksOf(p, n) : applied[p][c] \in Seq(Operations) /\ Len(applied[p][c]) \in Nat
  BY LenProperties DEF SizesKnown, ChunksOf
<1>9. \A i \in Nat : Cardinality(ItemsFrom(q, p, i)) \in Nat
  BY <1>2, FromFinite
<1>10. \A i \in ItemsIn(q, p) : i \in Nat
  BY <1>3 DEF ItemsIn
<1>11. \A i \in ItemsIn(q, p) : Ordinal(p, n, i) \in Int
  BY <1>7, <1>9, <1>10 DEF Ordinal
<1>12. Seen(p, n) \in Int /\ Seen(p, n) <= Len(asked[p])
  <2>1. PICK h \in {0, 1} : h = IF Handled(p, n) THEN 1 ELSE 0
    OBVIOUS
  <2>2. h = 1 => Cardinality(ItemsIn(q, p)) >= 1
    BY <1>5, <2>1
  <2>3. Seen(p, n) = Assigned(p, n) - Cardinality(ItemsIn(q, p)) + h
    BY <2>1 DEF Seen
  <2>4. \A a, l \in Int, m \in Nat : a <= l /\ (h = 1 => m >= 1) => a - m + h \in Int /\ a - m + h <= l
    BY <2>1
  <2> QED
    BY <1>4, <1>6, <1>7, <2>2, <2>3, <2>4
<1> QED
  BY <1>2, <1>3, <1>4, <1>5, <1>6, <1>7, <1>8, <1>9, <1>10, <1>11, <1>12

\* An operation is asked for: no thread has been given it.
LEMMA AskedFollows ==
  ASSUME QueuesFit, SizesKnown, NEW p \in Packets, NEW n \in Encryptors,
         ItemsFollow(p, n), ChunksSeen(p, n), NEW op \in Operations,
         asked'[p] = Append(asked[p], op), used'[p] = Padded(used[p]), applied'[p] = applied[p],
         queue'[Encryptor(n)] = queue[Encryptor(n)], stage'[Encryptor(n)] = stage[Encryptor(n)],
         ~Owed(p, n), Owed(p, n)'
  PROVE  ItemsFollow(p, n)' /\ ChunksSeen(p, n)'
<1>1. /\ Len(asked[p]) \in Nat /\ Len(asked'[p]) = Len(asked[p]) + 1
      /\ \A j \in 1 .. Len(asked[p]) : asked'[p][j] = asked[p][j]
  BY OrderTypes, AppendProperties
<1>2. Assigned(p, n)' = Assigned(p, n)
  BY <1>1 DEF Assigned
<1>3. Seen(p, n)' = Seen(p, n)
  BY <1>2 DEF Seen, Handled
<1>4. \A i : Ordinal(p, n, i)' = Ordinal(p, n, i)
  BY <1>2 DEF Ordinal
<1>5. asked[p] # <<>> => used'[p] = used[p]
  <2> HAVE asked[p] # <<>>
  <2>1. used[p] = Padded(Sizes[p]) /\ Sizes[p] \in Nat
    BY EncryptionAssumption DEF SizesKnown
  <2> QED
    BY <2>1, FilledUp
<1>6. ItemsFollow(p, n)'
  <2> SUFFICES ASSUME NEW i \in ItemsIn(queue[Encryptor(n)], p)
               PROVE  /\ Ordinal(p, n, i) \in 1 .. Len(asked'[p])
                      /\ queue[Encryptor(n)][i].arg =
                           [op |-> asked'[p][Ordinal(p, n, i)], size |-> used'[p], of |-> NumThreads["packet"]]
    BY <1>4 DEF ItemsFollow
  <2>1. /\ Ordinal(p, n, i) \in 1 .. Len(asked[p])
        /\ queue[Encryptor(n)][i].arg =
             [op |-> asked[p][Ordinal(p, n, i)], size |-> used[p], of |-> NumThreads["packet"]]
    BY DEF ItemsFollow
  <2>2. asked[p] # <<>>
    BY <1>1, <2>1, EmptySeq
  <2> QED
    BY <1>1, <1>5, <2>1, <2>2
<1>7. ChunksSeen(p, n)'
  <2> SUFFICES ASSUME NEW c \in ChunksOf(p, n)
               PROVE  /\ Len(applied[p][c]) = Seen(p, n)
                      /\ \A j \in 1 .. Len(applied[p][c]) : applied[p][c][j] = asked'[p][j]
    BY <1>3 DEF ChunksSeen
  <2>1. /\ Len(applied[p][c]) = Seen(p, n)
        /\ \A j \in 1 .. Len(applied[p][c]) : applied[p][c][j] = asked[p][j]
    BY DEF ChunksSeen
  <2>2. Seen(p, n) \in Int /\ Seen(p, n) <= Len(asked[p])
    BY OrderTypes
  <2>3. \A j \in 1 .. Seen(p, n) : j \in 1 .. Len(asked[p])
    BY <1>1, <2>2
  <2>4. \A j \in 1 .. Len(applied[p][c]) : j \in 1 .. Len(asked[p])
    BY <2>1, <2>3
  <2> QED
    BY <1>1, <2>1, <2>4
<1> QED
  BY <1>6, <1>7

\* The first item is handled already if the thread decides about it: appending to the
\* queue makes no other first.
LEMMA HandledKept ==
  ASSUME QueuesFit, NEW n \in Encryptors, NEW p, NEW x,
         queue'[Encryptor(n)] = Append(queue[Encryptor(n)], x),
         stage'[Encryptor(n)] = stage[Encryptor(n)]
  PROVE  Handled(p, n)' <=> Handled(p, n)
<1> DEFINE q == queue[Encryptor(n)]
<1>1. Encryptor(n) \in Threads
  BY EncryptorFacts
<1>2. IsSeq(q) /\ (stage[Encryptor(n)] # "get" => q # <<>>)
  BY <1>1 DEF QueuesFit
<1>3. stage[Encryptor(n)] # "get" => 1 \in 1 .. Len(q)
  BY <1>2, Lengths
<1>4. \A i \in 1 .. Len(q) : Append(q, x)[i] = q[i]
  BY <1>2, Appended
<1> QED
  BY <1>3, <1>4 DEF Handled

\* The last operation of p is posted to thread n.
LEMMA PostedFollows ==
  ASSUME QueuesFit, SizesKnown, NEW p \in Packets, NEW n \in Encryptors,
         ItemsFollow(p, n), ChunksSeen(p, n), asked[p] # <<>>,
         UNCHANGED <<asked, used, applied>>,
         queue'[Encryptor(n)] = Append(queue[Encryptor(n)],
           [obj |-> p, arg |-> [op |-> Last(asked[p]), size |-> used[p], of |-> NumThreads["packet"]]]),
         stage'[Encryptor(n)] = stage[Encryptor(n)],
         Owed(p, n), ~Owed(p, n)'
  PROVE  ItemsFollow(p, n)' /\ ChunksSeen(p, n)'
<1> DEFINE q == queue[Encryptor(n)]
           a == [op |-> Last(asked[p]), size |-> used[p], of |-> NumThreads["packet"]]
           x == [obj |-> p, arg |-> a]
<1>1. IsSeq(q) /\ Len(q) \in Nat /\ Len(asked[p]) \in Nat
  BY OrderTypes
<1>2. Len(asked[p]) >= 1 /\ Last(asked[p]) = asked[p][Len(asked[p])]
  <2>1. asked[p] \in Seq(Operations)
    BY OrderTypes
  <2>2. Len(asked[p]) # 0
    BY <2>1, EmptySeq
  <2> QED
    BY <1>1, <2>2 DEF Last
<1>3. Assigned(p, n) = Len(asked[p]) - 1 /\ Assigned(p, n)' = Len(asked[p])
  BY <1>1 DEF Assigned
<1>4. x.obj = p /\ x.arg = a
  OBVIOUS
<1>5. queue'[Encryptor(n)] = Append(q, x)
  OBVIOUS
<1> HIDE DEF x, a
<1>6. Handled(p, n)' <=> Handled(p, n)
  BY <1>5, HandledKept
<1>7. Cardinality(ItemsIn(Append(q, x), p)) = Cardinality(ItemsIn(q, p)) + 1
  BY <1>1, <1>4, ItemPosted
<1>8. Seen(p, n)' = Seen(p, n)
  <2>1. Cardinality(ItemsIn(q, p)) \in Nat
    BY OrderTypes
  <2>2. PICK h \in {0, 1} : h = IF Handled(p, n) THEN 1 ELSE 0
    OBVIOUS
  <2>3. Seen(p, n) = Len(asked[p]) - 1 - Cardinality(ItemsIn(q, p)) + h
    BY <1>3, <2>2 DEF Seen
  <2>4. Seen(p, n)' = Len(asked[p]) - (Cardinality(ItemsIn(q, p)) + 1) + h
    BY <1>3, <1>5, <1>6, <1>7, <2>2 DEF Seen
  <2> QED
    BY <1>1, <2>1, <2>3, <2>4
<1>9. ChunksSeen(p, n)'
  BY <1>8 DEF ChunksSeen
<1>10. /\ \A i \in 1 .. Len(q) : Cardinality(ItemsFrom(Append(q, x), p, i)) = Cardinality(ItemsFrom(q, p, i)) + 1
       /\ Cardinality(ItemsFrom(Append(q, x), p, Len(q) + 1)) = 1
       /\ \A i \in ItemsIn(Append(q, x), p) : i \in ItemsIn(q, p) \/ i = Len(q) + 1
  <2>1. ASSUME NEW s, IsSeq(s), NEW y, y.obj = p
        PROVE  /\ \A i \in 1 .. Len(s) : Cardinality(ItemsFrom(Append(s, y), p, i)) = Cardinality(ItemsFrom(s, p, i)) + 1
               /\ Cardinality(ItemsFrom(Append(s, y), p, Len(s) + 1)) = 1
               /\ \A i \in ItemsIn(Append(s, y), p) : i \in ItemsIn(s, p) \/ i = Len(s) + 1
    BY <2>1, FromPosted
  <2> QED
    BY <1>1, <1>4, <2>1
<1>11. /\ \A i \in 1 .. Len(q) : Append(q, x)[i] = q[i]
       /\ Append(q, x)[Len(q) + 1] = x
  BY <1>1, Appended
<1>12. ASSUME NEW i \in ItemsIn(Append(q, x), p)
       PROVE  /\ Ordinal(p, n, i)' \in 1 .. Len(asked[p])
              /\ Append(q, x)[i].arg =
                   [op |-> asked[p][Ordinal(p, n, i)'], size |-> used[p], of |-> NumThreads["packet"]]
  <2>1. Ordinal(p, n, i)' = Len(asked[p]) + 1 - Cardinality(ItemsFrom(Append(q, x), p, i))
    BY <1>3, <1>5 DEF Ordinal
  <2>2. CASE i \in ItemsIn(q, p)
    <3>1. i \in 1 .. Len(q) /\ i \in Nat
      BY <1>1, <2>2 DEF ItemsIn
    <3>2. Cardinality(ItemsFrom(q, p, i)) \in Nat
      BY <1>1, <3>1, FromFinite
    <3>3. Ordinal(p, n, i) = Len(asked[p]) - 1 + 1 - Cardinality(ItemsFrom(q, p, i))
      BY <1>3 DEF Ordinal
    <3>4. Ordinal(p, n, i)' = Len(asked[p]) + 1 - (Cardinality(ItemsFrom(q, p, i)) + 1)
      BY <1>10, <2>1, <3>1
    <3>5. Ordinal(p, n, i)' = Ordinal(p, n, i)
      BY <1>1, <3>2, <3>3, <3>4
    <3> QED
      BY <1>11, <2>2, <3>1, <3>5 DEF ItemsFollow
  <2>3. CASE i = Len(q) + 1
    <3>1. Ordinal(p, n, i)' = Len(asked[p])
      BY <1>1, <1>10, <2>1, <2>3
    <3>2. Append(q, x)[i].arg = a
      BY <1>4, <1>11, <2>3
    <3> QED
      BY <1>1, <1>2, <3>1, <3>2 DEF a
  <2> QED
    BY <1>10, <2>2, <2>3
<1>13. ItemsFollow(p, n)'
  BY <1>5, <1>12 DEF ItemsFollow
<1> QED
  BY <1>9, <1>13

\* An item of another packet is posted to thread n.
LEMMA OtherPosted ==
  ASSUME QueuesFit, SizesKnown, NEW p \in Packets, NEW n \in Encryptors,
         ItemsFollow(p, n), ChunksSeen(p, n),
         asked'[p] = asked[p], used'[p] = used[p], applied'[p] = applied[p],
         NEW x, x.obj # p, queue'[Encryptor(n)] = Append(queue[Encryptor(n)], x),
         stage'[Encryptor(n)] = stage[Encryptor(n)], Owed(p, n)' <=> Owed(p, n)
  PROVE  ItemsFollow(p, n)' /\ ChunksSeen(p, n)'
<1> DEFINE q == queue[Encryptor(n)]
<1>1. IsSeq(q) /\ Len(q) \in Nat
  BY OrderTypes
<1>2. Assigned(p, n)' = Assigned(p, n) /\ queue'[Encryptor(n)] = Append(q, x)
  BY DEF Assigned
<1>3. Handled(p, n)' <=> Handled(p, n)
  BY HandledKept
<1>4. ItemsIn(Append(q, x), p) = ItemsIn(q, p)
  BY <1>1, ItemPosted
<1>5. Seen(p, n)' = Seen(p, n)
  <2>1. Cardinality(ItemsIn(queue[Encryptor(n)], p))' = Cardinality(ItemsIn(queue[Encryptor(n)], p))
    BY <1>2, <1>4
  <2>2. PICK h : h = IF Handled(p, n) THEN 1 ELSE 0
    OBVIOUS
  <2>3. h = IF Handled(p, n)' THEN 1 ELSE 0
    BY <1>3, <2>2
  <2> QED
    BY <1>2, <2>1, <2>2, <2>3 DEF Seen
<1>6. ChunksSeen(p, n)'
  BY <1>5 DEF ChunksSeen
<1>7. ASSUME NEW i \in ItemsIn(q, p)
      PROVE  Ordinal(p, n, i)' = Ordinal(p, n, i) /\ Append(q, x)[i] = q[i]
  <2>1. i \in 1 .. Len(q) /\ i \in Nat
    BY <1>1 DEF ItemsIn
  <2>2. Cardinality(ItemsFrom(q, p, i)) \in Nat
    BY <1>1, <2>1, FromFinite
  <2>3. Cardinality(ItemsFrom(Append(q, x), p, i)) = Cardinality(ItemsFrom(q, p, i))
    BY <1>1, <2>1, FromOther
  <2>4. Append(q, x)[i] = q[i]
    BY <1>1, <2>1, Appended
  <2>5. Ordinal(p, n, i)' = Assigned(p, n) + 1 - Cardinality(ItemsFrom(Append(q, x), p, i))
    BY <1>2 DEF Ordinal
  <2>6. Ordinal(p, n, i) = Assigned(p, n) + 1 - Cardinality(ItemsFrom(q, p, i))
    BY DEF Ordinal
  <2> QED
    BY <2>3, <2>4, <2>5, <2>6
<1>8. ItemsFollow(p, n)'
  <2> SUFFICES ASSUME NEW i \in ItemsIn(q, p)
               PROVE  /\ Ordinal(p, n, i)' \in 1 .. Len(asked'[p])
                      /\ Append(q, x)[i].arg =
                           [op |-> asked'[p][Ordinal(p, n, i)'], size |-> used'[p], of |-> NumThreads["packet"]]
    BY <1>2, <1>4 DEF ItemsFollow
  <2>1. Ordinal(p, n, i)' = Ordinal(p, n, i) /\ Append(q, x)[i] = q[i]
    BY <1>7
  <2>2. /\ Ordinal(p, n, i) \in 1 .. Len(asked[p])
        /\ q[i].arg = [op |-> asked[p][Ordinal(p, n, i)], size |-> used[p], of |-> NumThreads["packet"]]
    BY DEF ItemsFollow
  <2> QED
    BY <2>1, <2>2
<1> QED
  BY <1>6, <1>8

\* The thread works on the chunks of the first item, which is one of p.
LEMMA EncryptedFollows ==
  ASSUME QueuesFit, SizesKnown, NEW p \in Packets, NEW n \in Encryptors,
         ItemsFollow(p, n), ChunksSeen(p, n),
         asked'[p] = asked[p], used'[p] = used[p],
         queue[Encryptor(n)] # <<>>, queue[Encryptor(n)][1].obj = p,
         queue'[Encryptor(n)] = queue[Encryptor(n)],
         stage[Encryptor(n)] = "get", stage'[Encryptor(n)] = "decide",
         \A c \in ChunksOf(p, n) :
           applied'[p][c] = Append(applied[p][c], queue[Encryptor(n)][1].arg.op),
         Owed(p, n)' <=> Owed(p, n)
  PROVE  ItemsFollow(p, n)' /\ ChunksSeen(p, n)'
<1> DEFINE q == queue[Encryptor(n)]
<1>1. /\ IsSeq(q) /\ Len(q) \in Nat /\ asked[p] \in Seq(Operations) /\ Len(asked[p]) \in Nat
      /\ Assigned(p, n) \in Int /\ Seen(p, n) \in Int /\ Cardinality(ItemsIn(q, p)) \in Nat
      /\ \A c \in ChunksOf(p, n) : applied[p][c] \in Seq(Operations) /\ Len(applied[p][c]) \in Nat
  BY OrderTypes
<1>2. Assigned(p, n)' = Assigned(p, n)
  BY DEF Assigned
<1>3. ~Handled(p, n) /\ Handled(p, n)'
  BY DEF Handled
<1>4. Seen(p, n) = Assigned(p, n) - Cardinality(ItemsIn(q, p)) + 0
  BY <1>3 DEF Seen
<1>5. Seen(p, n)' = Assigned(p, n) - Cardinality(ItemsIn(q, p)) + 1
  BY <1>2, <1>3 DEF Seen
<1>6. Seen(p, n)' = Seen(p, n) + 1
  BY <1>1, <1>4, <1>5
<1>7. 1 \in ItemsIn(q, p)
  <2>1. Len(q) > 0
    BY <1>1, Lengths
  <2> QED
    BY <1>1, <2>1 DEF ItemsIn
<1>8. Ordinal(p, n, 1) = Seen(p, n) + 1
  <2>1. ItemsFrom(q, p, 1) = ItemsIn(q, p)
    BY <1>1, FromFinite
  <2>2. Ordinal(p, n, 1) = Assigned(p, n) + 1 - Cardinality(ItemsIn(q, p))
    BY <2>1 DEF Ordinal
  <2> QED
    BY <1>1, <1>4, <2>2
<1>9. Seen(p, n) + 1 \in 1 .. Len(asked[p]) /\ q[1].arg.op = asked[p][Seen(p, n) + 1]
  <2>1. /\ Ordinal(p, n, 1) \in 1 .. Len(asked[p])
        /\ q[1].arg = [op |-> asked[p][Ordinal(p, n, 1)], size |-> used[p], of |-> NumThreads["packet"]]
    BY <1>7 DEF ItemsFollow
  <2> QED
    BY <1>8, <2>1
<1>10. ItemsFollow(p, n)'
  <2>1. \A i : Ordinal(p, n, i)' = Ordinal(p, n, i)
    BY <1>2 DEF Ordinal
  <2> QED
    BY <2>1 DEF ItemsFollow
<1>11. ChunksOf(p, n)' = ChunksOf(p, n)
  BY DEF ChunksOf, Chunks, Padded
<1>12. ASSUME NEW c \in ChunksOf(p, n)
       PROVE  /\ Len(applied'[p][c]) = Seen(p, n)'
              /\ \A j \in 1 .. Len(applied'[p][c]) : applied'[p][c][j] = asked'[p][j]
  <2> DEFINE s == applied[p][c]
             op == q[1].arg.op
  <2>1. /\ s \in Seq(Operations) /\ Len(s) \in Nat
        /\ Len(s) = Seen(p, n) /\ \A j \in 1 .. Len(s) : s[j] = asked[p][j]
    BY <1>1 DEF ChunksSeen
  <2>2. op \in Operations
    BY <1>1, <1>9, ElementOfSeq
  <2>3. applied'[p][c] = Append(s, op)
    OBVIOUS
  <2> HIDE DEF s, op
  <2>4. /\ Len(Append(s, op)) = Len(s) + 1 /\ Append(s, op)[Len(s) + 1] = op
        /\ \A j \in 1 .. Len(s) : Append(s, op)[j] = s[j]
    BY <2>1, <2>2, AppendProperties
  <2>5. op = asked[p][Len(s) + 1]
    BY <1>9, <2>1 DEF op
  <2>6. \A j \in 1 .. Len(s) + 1 : j \in 1 .. Len(s) \/ j = Len(s) + 1
    BY <2>1
  <2>7. \A j \in 1 .. Len(s) + 1 : Append(s, op)[j] = asked[p][j]
    BY <2>1, <2>4, <2>5, <2>6
  <2> QED
    BY <1>6, <2>1, <2>3, <2>4, <2>7
<1>13. ChunksSeen(p, n)'
  BY <1>11, <1>12 DEF ChunksSeen
<1> QED
  BY <1>10, <1>13

\* The thread is done with its first item, whose ever it was.
LEMMA DecidedFollows ==
  ASSUME QueuesFit, SizesKnown, NEW p \in Packets, NEW n \in Encryptors,
         ItemsFollow(p, n), ChunksSeen(p, n),
         asked'[p] = asked[p], used'[p] = used[p], applied'[p] = applied[p],
         queue[Encryptor(n)] # <<>>, queue'[Encryptor(n)] = Tail(queue[Encryptor(n)]),
         stage[Encryptor(n)] = "decide", stage'[Encryptor(n)] = "get",
         Owed(p, n)' <=> Owed(p, n)
  PROVE  ItemsFollow(p, n)' /\ ChunksSeen(p, n)'
<1> DEFINE q == queue[Encryptor(n)]
           rest == Tail(q)
<1>1. /\ IsSeq(q) /\ Len(q) \in Nat
      /\ Assigned(p, n) \in Int /\ Seen(p, n) \in Int /\ Cardinality(ItemsIn(q, p)) \in Nat
  BY OrderTypes
<1>2. Assigned(p, n)' = Assigned(p, n)
  BY DEF Assigned
<1>3. (Handled(p, n) <=> q[1].obj = p) /\ ~Handled(p, n)'
  BY DEF Handled
<1>4. Seen(p, n)' = Seen(p, n)
  <2>1. PICK h \in {0, 1} : h = IF q[1].obj = p THEN 1 ELSE 0
    OBVIOUS
  <2>2. Cardinality(ItemsIn(rest, p)) = Cardinality(ItemsIn(q, p)) - h
    BY <1>1, <2>1, ItemDone
  <2>3. Seen(p, n) = Assigned(p, n) - Cardinality(ItemsIn(q, p)) + h
    BY <1>3, <2>1 DEF Seen
  <2>4. Seen(p, n)' = Assigned(p, n) - (Cardinality(ItemsIn(q, p)) - h) + 0
    BY <1>2, <1>3, <2>2 DEF Seen
  <2> QED
    BY <1>1, <2>1, <2>3, <2>4
<1>5. ChunksSeen(p, n)'
  <2>1. ChunksOf(p, n)' = ChunksOf(p, n)
    BY DEF ChunksOf, Chunks, Padded
  <2> QED
    BY <1>4, <2>1 DEF ChunksSeen
<1>6. ASSUME NEW i \in ItemsIn(rest, p)
      PROVE  /\ Ordinal(p, n, i)' \in 1 .. Len(asked[p])
             /\ rest[i].arg = [op |-> asked[p][Ordinal(p, n, i)'], size |-> used[p], of |-> NumThreads["packet"]]
  <2>1. /\ i + 1 \in ItemsIn(q, p) /\ rest[i] = q[i + 1]
        /\ Cardinality(ItemsFrom(rest, p, i)) = Cardinality(ItemsFrom(q, p, i + 1))
    BY <1>1, FromDone
  <2>2. Ordinal(p, n, i)' = Ordinal(p, n, i + 1)
    BY <1>2, <2>1 DEF Ordinal
  <2>3. /\ Ordinal(p, n, i + 1) \in 1 .. Len(asked[p])
        /\ q[i + 1].arg = [op |-> asked[p][Ordinal(p, n, i + 1)], size |-> used[p], of |-> NumThreads["packet"]]
    BY <2>1 DEF ItemsFollow
  <2> QED
    BY <2>1, <2>2, <2>3
<1>7. ItemsFollow(p, n)'
  BY <1>6 DEF ItemsFollow
<1> QED
  BY <1>5, <1>7

-----------------------------------------------------------------------------
(***************************************************************************)
(* What is known of queues, whatever happened before.                      *)
(***************************************************************************)
\* The queues stay.
LEMMA SameKnown ==
  ASSUME QueuesKnown, UNCHANGED <<queue, stage, last>>, dead' \subseteq {SoundThread}
  PROVE  QueuesKnown'
BY DEF QueuesKnown, QueuesFit, LastCovers

\* A thread goes on with its first item.
LEMMA StageKnown ==
  ASSUME QueuesKnown, NEW t \in Threads, NEW x, queue[t] # <<>>,
         stage' = [stage EXCEPT ![t] = x], UNCHANGED <<queue, last>>, dead' \subseteq {SoundThread}
  PROVE  QueuesKnown'
<1>1. QueuesFit'
  <2>1. stage' = [u \in Threads |-> stage'[u]] /\ \A u \in Threads : u # t => stage'[u] = stage[u]
    BY DEF QueuesKnown, QueuesFit
  <2> QED
    BY <2>1 DEF QueuesKnown, QueuesFit
<1>2. LastCovers'
  BY DEF QueuesKnown, LastCovers
<1> QED
  BY <1>1, <1>2 DEF QueuesKnown

\* An item is posted, to a thread that may be dead.
LEMMA PostKnown ==
  ASSUME QueuesKnown, NEW o \in Objects, NEW n \in 0 .. NumThreads[ClassOf[o]] - 1, NEW arg,
         PostMessageItem(o, n, arg), UNCHANGED <<stage, dead>>
  PROVE  QueuesKnown'
<1>1. PICK t \in Threads : t = <<ClassOf[o], n>>
  BY ThreadFacts, ObjectFacts
<1>2. PICK item : item = [obj |-> o, arg |-> arg]
  OBVIOUS
<1>3. item.obj = o
  BY <1>2
<1>4. QueuesFit /\ LastCovers /\ dead' \subseteq {SoundThread}
  BY DEF QueuesKnown
<1>5. last' = [last EXCEPT ![o][n] = "thread"]
  BY DEF PostMessageItem
<1>6. \/ queue' = queue
      \/ queue' = [queue EXCEPT ![t] = Append(queue[t], item)]
  BY <1>1, <1>2 DEF PostMessageItem
<1>7. \A u \in Threads : u # t => queue'[u] = queue[u]
  BY <1>4, <1>6 DEF QueuesFit
<1>8. queue'[t] = queue[t] \/ queue'[t] = Append(queue[t], item)
  BY <1>4, <1>6 DEF QueuesFit
<1>9. IsSeq(queue[t])
  BY <1>4 DEF QueuesFit
<1>10. queue'[t] # queue[t] =>
         /\ Len(queue[t]) \in Nat /\ IsSeq(queue'[t]) /\ Len(queue'[t]) = Len(queue[t]) + 1
         /\ queue'[t] # <<>>
         /\ \A i \in 1 .. Len(queue[t]) : queue'[t][i] = queue[t][i]
         /\ queue'[t][Len(queue[t]) + 1] = item
  <2> HAVE queue'[t] # queue[t]
  <2>1. PICK q : q = queue[t]
    OBVIOUS
  <2>2. IsSeq(q) /\ queue'[t] = Append(q, item)
    BY <1>8, <1>9, <2>1
  <2>3. /\ Len(q) \in Nat /\ IsSeq(Append(q, item)) /\ Len(Append(q, item)) = Len(q) + 1
        /\ Append(q, item) # <<>>
        /\ \A i \in 1 .. Len(q) : Append(q, item)[i] = q[i]
        /\ Append(q, item)[Len(q) + 1] = item
    BY <2>2, Appended
  <2> QED
    BY <2>1, <2>2, <2>3
<1>11. \A x : x # o => ItemsIn(queue'[t], x) = ItemsIn(queue[t], x)
  <2>1. PICK q : q = queue[t]
    OBVIOUS
  <2>2. ASSUME NEW x, x # o
        PROVE  ItemsIn(Append(q, item), x) = ItemsIn(q, x)
    BY <1>3, <1>9, <2>1, <2>2, ItemPosted
  <2> QED
    BY <1>8, <2>1, <2>2
<1>12. QueuesFit'
  <2>1. queue' = [u \in Threads |-> queue'[u]] /\ stage' = [u \in Threads |-> stage'[u]]
    BY <1>4, <1>6 DEF QueuesFit
  <2>2. ASSUME NEW i \in 1 .. Len(queue'[t])
        PROVE  queue'[t][i].obj \in Objects /\ ClassOf[queue'[t][i].obj] = t[1]
    <3>1. CASE queue'[t] = queue[t]
      BY <1>4, <3>1 DEF QueuesFit
    <3>2. CASE queue'[t] # queue[t] /\ i \in 1 .. Len(queue[t])
      BY <1>4, <1>10, <3>2 DEF QueuesFit
    <3>3. CASE queue'[t] # queue[t] /\ i = Len(queue[t]) + 1
      BY <1>1, <1>3, <1>10, <3>3
    <3> QED
      BY <1>10, <3>1, <3>2, <3>3
  <2>3. ASSUME NEW u \in Threads
        PROVE  /\ IsSeq(queue'[u])
               /\ \A i \in 1 .. Len(queue'[u]) :
                    queue'[u][i].obj \in Objects /\ ClassOf[queue'[u][i].obj] = u[1]
               /\ stage'[u] # "get" => queue'[u] # <<>>
    <3>1. CASE queue'[u] = queue[u]
      BY <1>4, <3>1 DEF QueuesFit
    <3>2. CASE queue'[u] # queue[u]
      <4>1. u = t
        BY <1>7, <3>2
      <4> QED
        BY <1>10, <2>2, <3>2, <4>1
    <3> QED
      BY <3>1, <3>2
  <2> QED
    BY <2>1, <2>3 DEF QueuesFit
<1>13. LastCovers'
  <2>1. /\ DOMAIN last' = Objects /\ \A x \in Objects : x # o => last'[x] = last[x]
        /\ DOMAIN last'[o] = DOMAIN last[o] /\ DOMAIN last[o] = 0 .. NumThreads[ClassOf[o]] - 1
        /\ last'[o][n] = "thread" /\ \A m \in DOMAIN last[o] : m # n => last'[o][m] = last[o][m]
    BY <1>4, <1>5 DEF LastCovers
  <2>2. ASSUME NEW x \in Objects, NEW m \in 0 .. NumThreads[ClassOf[x]] - 1,
               ItemsIn(queue'[<<ClassOf[x], m>>], x) # {}
        PROVE  last'[x][m] = "thread"
    <3>1. PICK u \in Threads : u = <<ClassOf[x], m>>
      BY ThreadFacts, ObjectFacts
    <3>2. ItemsIn(queue[u], x) # {} => last[x][m] = "thread"
      BY <1>4, <3>1 DEF LastCovers
    <3>3. CASE x = o /\ m = n
      BY <2>1, <3>3
    <3>4. CASE x = o /\ m # n
      <4>1. u # t
        BY <1>1, <3>1, <3>4
      <4> QED
        BY <1>7, <2>1, <2>2, <3>1, <3>2, <3>4, <4>1
    <3>5. CASE x # o
      <4>1. ItemsIn(queue'[u], x) = ItemsIn(queue[u], x)
        BY <1>7, <1>11, <3>5
      <4> QED
        BY <2>1, <2>2, <3>1, <3>2, <3>5, <4>1
    <3> QED
      BY <3>3, <3>4, <3>5
  <2>3. \A x \in Objects : DOMAIN last'[x] = 0 .. NumThreads[ClassOf[x]] - 1
    BY <1>4, <2>1 DEF LastCovers
  <2> QED
    BY <2>1, <2>2, <2>3 DEF LastCovers
<1> QED
  BY <1>4, <1>12, <1>13 DEF QueuesKnown

\* A thread is done with its first item.
LEMMA DecidesKnown ==
  ASSUME QueuesKnown, NEW t \in Threads, ThreadDecides(t)
  PROVE  QueuesKnown'
<1>1. /\ stage[t] = "decide" /\ stage' = [stage EXCEPT ![t] = "get"]
      /\ queue' = [queue EXCEPT ![t] = Tail(queue[t])] /\ dead' = dead
  BY DEF ThreadDecides, QueuesKnown, QueuesFit
<1>2. QueuesFit /\ LastCovers
  BY DEF QueuesKnown
<1>3. queue[t] # <<>> /\ IsSeq(queue[t])
  BY <1>1, <1>2 DEF QueuesFit
<1>4. PICK o \in Objects : o = Item(t).obj /\ ClassOf[o] = t[1] /\ queue[t][1].obj = o
  BY <1>2, <1>3, ItemFacts
<1>5. /\ queue'[t] = Tail(queue[t]) /\ stage'[t] = "get"
      /\ \A u \in Threads : u # t => queue'[u] = queue[u] /\ stage'[u] = stage[u]
      /\ queue' = [u \in Threads |-> queue'[u]] /\ stage' = [u \in Threads |-> stage'[u]]
  BY <1>1, <1>2 DEF QueuesFit
<1>6. /\ Len(queue[t]) \in Nat /\ Len(queue[t]) > 0
      /\ IsSeq(queue'[t]) /\ Len(queue'[t]) = Len(queue[t]) - 1
      /\ \A i \in 1 .. Len(queue[t]) - 1 : queue'[t][i] = queue[t][i + 1]
  BY <1>3, <1>5, Taken
<1>7. /\ ItemsIn(queue'[t], o) = {} <=> Newest(t)
      /\ \A x : ItemsIn(queue'[t], x) # {} => ItemsIn(queue[t], x) # {}
  <2>1. PICK q : q = queue[t]
    OBVIOUS
  <2>2. IsSeq(q) /\ q # <<>> /\ queue'[t] = Tail(q)
    BY <1>3, <1>5, <2>1
  <2>3. ASSUME NEW x
        PROVE  /\ ItemsIn(Tail(q), x) = {} <=> \A i \in 2 .. Len(q) : q[i].obj # x
               /\ ItemsIn(Tail(q), x) # {} => ItemsIn(q, x) # {}
    BY <2>2, ItemDone
  <2> QED
    BY <1>4, <2>1, <2>2, <2>3 DEF Newest
<1>8. QueuesFit'
  <2>1. ASSUME NEW i \in 1 .. Len(queue'[t])
        PROVE  queue'[t][i].obj \in Objects /\ ClassOf[queue'[t][i].obj] = t[1]
    <3>1. i + 1 \in 1 .. Len(queue[t]) /\ queue'[t][i] = queue[t][i + 1]
      BY <1>6
    <3> QED
      BY <1>2, <3>1 DEF QueuesFit
  <2>2. ASSUME NEW u \in Threads
        PROVE  /\ IsSeq(queue'[u])
               /\ \A i \in 1 .. Len(queue'[u]) :
                    queue'[u][i].obj \in Objects /\ ClassOf[queue'[u][i].obj] = u[1]
               /\ stage'[u] # "get" => queue'[u] # <<>>
    <3>1. CASE u = t
      BY <1>5, <1>6, <2>1, <3>1
    <3>2. CASE u # t
      <4>1. queue'[u] = queue[u] /\ stage'[u] = stage[u]
        BY <1>5, <3>2
      <4> QED
        BY <1>2, <4>1 DEF QueuesFit
    <3> QED
      BY <3>1, <3>2
  <2> QED
    BY <1>5, <2>2 DEF QueuesFit
<1>9. LastCovers'
  <2>1. PICK n \in 0 .. NumThreads[ClassOf[o]] - 1 : t = <<ClassOf[o], n>> /\ n = t[2]
    BY <1>4, ThreadFacts
  <2>2. last' = IF Newest(t) THEN [last EXCEPT ![o][n] = "sender"] ELSE last
    BY <1>4, <2>1 DEF ThreadDecides
  <2>3. /\ DOMAIN last' = Objects /\ \A x \in Objects : x # o => last'[x] = last[x]
        /\ DOMAIN last'[o] = DOMAIN last[o] /\ DOMAIN last[o] = 0 .. NumThreads[ClassOf[o]] - 1
        /\ \A m \in DOMAIN last[o] : m # n => last'[o][m] = last[o][m]
        /\ ~Newest(t) => last'[o][n] = last[o][n]
    BY <1>2, <2>2 DEF LastCovers
  <2>4. ASSUME NEW x \in Objects, NEW m \in 0 .. NumThreads[ClassOf[x]] - 1,
               ItemsIn(queue'[<<ClassOf[x], m>>], x) # {}
        PROVE  last'[x][m] = "thread"
    <3>1. PICK u \in Threads : u = <<ClassOf[x], m>>
      BY ThreadFacts, ObjectFacts
    <3>2. ItemsIn(queue[u], x) # {}
      BY <1>5, <1>7, <2>4, <3>1
    <3>3. last[x][m] = "thread"
      BY <1>2, <3>1, <3>2 DEF LastCovers
    <3>4. CASE x = o /\ m = n
      BY <1>7, <2>1, <2>3, <2>4, <3>3, <3>4
    <3>5. CASE x # o \/ m # n
      BY <2>3, <3>3, <3>5
    <3> QED
      BY <3>4, <3>5
  <2>5. \A x \in Objects : DOMAIN last'[x] = 0 .. NumThreads[ClassOf[x]] - 1
    BY <1>2, <2>3 DEF LastCovers
  <2> QED
    BY <2>3, <2>4, <2>5 DEF LastCovers
<1> QED
  BY <1>1, <1>8, <1>9 DEF QueuesKnown

\* The threads of a class end.
LEMMA ClearKnown ==
  ASSUME QueuesKnown, NEW k \in Callers, ClearThreads(k)
  PROVE  QueuesKnown' /\ \A n \in Encryptors : /\ queue'[Encryptor(n)] = queue[Encryptor(n)]
                                                /\ stage'[Encryptor(n)] = stage[Encryptor(n)]
<1>1. /\ dead' = dead /\ last' = last
      /\ queue' = [t \in Threads |-> IF t \in ThreadsOf(Class(k)) THEN <<>> ELSE queue[t]]
      /\ stage' = [t \in Threads |-> IF t \in ThreadsOf(Class(k)) THEN "get" ELSE stage[t]]
      /\ \A t \in ThreadsOf(Class(k)) : HasEnded(t)
  BY DEF ClearThreads
<1>2. QueuesFit /\ LastCovers
  BY DEF QueuesKnown
<1>3. ASSUME NEW t \in Threads
      PROVE  \/ queue'[t] = queue[t] /\ stage'[t] = stage[t]
             \/ t = SoundThread /\ queue'[t] = <<>> /\ stage'[t] = "get"
  <2>1. CASE t \notin ThreadsOf(Class(k))
    BY <1>1, <2>1
  <2>2. CASE t \in ThreadsOf(Class(k)) /\ t # SoundThread
    <3>1. queue[t] = <<>>
      BY <1>1, <2>2 DEF HasEnded, QueuesKnown
    <3>2. stage[t] = "get"
      BY <1>2, <3>1 DEF QueuesFit
    <3> QED
      BY <1>1, <2>2, <3>1, <3>2
  <2>3. CASE t \in ThreadsOf(Class(k)) /\ t = SoundThread
    BY <1>1, <2>3
  <2> QED
    BY <2>1, <2>2, <2>3
<1>4. QueuesFit'
  <2>1. queue' = [t \in Threads |-> queue'[t]] /\ stage' = [t \in Threads |-> stage'[t]]
    BY <1>1
  <2>2. ASSUME NEW t \in Threads
        PROVE  /\ IsSeq(queue'[t])
               /\ \A i \in 1 .. Len(queue'[t]) :
                    queue'[t][i].obj \in Objects /\ ClassOf[queue'[t][i].obj] = t[1]
               /\ stage'[t] # "get" => queue'[t] # <<>>
    <3>1. CASE queue'[t] = queue[t] /\ stage'[t] = stage[t]
      BY <1>2, <3>1 DEF QueuesFit
    <3>2. CASE queue'[t] = <<>> /\ stage'[t] = "get"
      BY <3>2, EmptyIsSeq
    <3> QED
      BY <1>3, <3>1, <3>2
  <2> QED
    BY <2>1, <2>2 DEF QueuesFit
<1>5. LastCovers'
  <2>1. ASSUME NEW o \in Objects, NEW n \in DOMAIN last[o], ItemsIn(queue'[<<ClassOf[o], n>>], o) # {}
        PROVE  last[o][n] = "thread"
    <3>1. <<ClassOf[o], n>> \in Threads
      <4>1. ClassOf[o] \in Classes /\ n \in 0 .. NumThreads[ClassOf[o]] - 1
        BY <1>2, ObjectFacts DEF LastCovers
      <4> QED
        BY <4>1, ThreadFacts
    <3>2. queue'[<<ClassOf[o], n>>] # <<>>
      BY <2>1, EmptyIsSeq, ItemsFinite
    <3>3. queue'[<<ClassOf[o], n>>] = queue[<<ClassOf[o], n>>]
      BY <1>3, <3>1, <3>2
    <3> QED
      BY <1>2, <2>1, <3>3 DEF LastCovers
  <2> QED
    BY <1>1, <1>2, <2>1 DEF LastCovers
<1> QED
  BY <1>1, <1>3, <1>4, <1>5, EncryptorFacts DEF QueuesKnown

\* A cleanup ends with no item in use.
LEMMA LeaveKnown ==
  ASSUME QueuesKnown, TypeOK, OneCallEach, NEW k \in Callers, LeaveThreads(k), ~fault'
  PROVE  QueuesKnown'
<1>1. call[k].at = "leave" /\ queue' = queue /\ stage' = stage
  BY DEF LeaveThreads, At
<1>2. PICK o \in Objects : o = call[k].obj
  BY <1>1, CallHasObject
<1>3. QueuesFit /\ LastCovers /\ dead' \subseteq {SoundThread}
  BY DEF QueuesKnown, LeaveThreads
<1>4. \A n \in DOMAIN last[o] : last[o][n] # "thread"
  BY <1>2 DEF LeaveThreads
<1>5. last' = [last EXCEPT ![o] = [n \in DOMAIN last[o] |-> "none"]]
  BY <1>2, <1>3 DEF LeaveThreads, LastCovers
<1>6. /\ DOMAIN last' = Objects /\ \A x \in Objects : x # o => last'[x] = last[x]
      /\ DOMAIN last'[o] = DOMAIN last[o]
  BY <1>3, <1>5 DEF LastCovers
<1>7. \A n \in DOMAIN last[o] : ItemsIn(queue[<<ClassOf[o], n>>], o) = {}
  BY <1>3, <1>4 DEF LastCovers
<1>8. ASSUME NEW x \in Objects
      PROVE  /\ DOMAIN last'[x] = 0 .. NumThreads[ClassOf[x]] - 1
             /\ \A n \in DOMAIN last'[x] :
                  ItemsIn(queue'[<<ClassOf[x], n>>], x) # {} => last'[x][n] = "thread"
  <2>1. CASE x = o
    BY <1>1, <1>3, <1>6, <1>7, <2>1 DEF LastCovers
  <2>2. CASE x # o
    BY <1>1, <1>3, <1>6, <2>2 DEF LastCovers
  <2> QED
    BY <2>1, <2>2
<1>9. QueuesFit'
  BY <1>1, <1>3 DEF QueuesFit
<1> QED
  BY <1>3, <1>6, <1>8, <1>9 DEF QueuesKnown, LastCovers

-----------------------------------------------------------------------------
(***************************************************************************)
(* What sound does to packets: nothing.                                    *)
(***************************************************************************)
\* No call that is to post an operation comes, goes or changes.
CallsApart == \A k \in Callers : call'[k] = call[k] \/ (~Posting(call[k]) /\ ~Posting(call'[k]))
ItemsStay  == UNCHANGED <<queue, stage, last, dead>>
EncryptorsStay ==
  \A n \in Encryptors : /\ queue'[Encryptor(n)] = queue[Encryptor(n)]
                        /\ stage'[Encryptor(n)] = stage[Encryptor(n)]

\* Main's call was about no packet and is about none.
LEMMA MainApart ==
  ASSUME IInv, call[Main].obj \notin Packets, NEW r, r.obj \notin Packets,
         call' = [call EXCEPT ![Main] = r]
  PROVE  CallsApart
<1>1. call'[Main] = r /\ \A k \in Callers : k # Main => call'[k] = call[k]
  BY CallFacts, ObjectFacts DEF IInv
<1> QED
  BY <1>1 DEF CallsApart, Posting

\* Main begins a call about an instance, ends one, or goes on in one.
LEMMA BegunApart ==
  ASSUME IInv, call[Main].obj \notin Packets, NEW o \in Instances, NEW place \in Places,
         call' = [call EXCEPT ![Main] = Begun(place, o)]
  PROVE  CallsApart
<1>1. PICK r : r = Begun(place, o) /\ r.obj = o
  BY IdleFacts
<1>2. call' = [call EXCEPT ![Main] = r] /\ r.obj \notin Packets
  BY <1>1, ObjectFacts
<1> QED
  BY <1>2, MainApart

\* Main's call about sound ends, or one that finishes sound begins.
LEMMA LeftApart ==
  ASSUME IInv, call[Main].obj \notin Packets,
         call' = [call EXCEPT ![Main] = Idle] \/ call' = [call EXCEPT ![Main] = FinishBegun]
  PROVE  CallsApart
<1>1. PICK r : call' = [call EXCEPT ![Main] = r] /\ r.obj \notin Packets
  BY IdleFacts, ObjectFacts
<1> QED
  BY <1>1, MainApart

\* Main's call about an instance goes on.
LEMMA GoneApart ==
  ASSUME IInv, call[Main].obj \in Instances,
         (\E place \in Places : Goto(Main, place)) \/ \E o : EndDestructor(o)
  PROVE  CallsApart
<1>1. PICK r : call' = [call EXCEPT ![Main] = r] /\ r.obj = call[Main].obj
  BY MainGoes, MainEnds
<1>2. r.obj \notin Packets /\ call[Main].obj \notin Packets
  BY <1>1, ObjectFacts
<1> QED
  BY <1>1, <1>2, MainApart

\* The program's calls about sound.
LEMMA SoundCallsApart ==
  ASSUME IInv, SoundCalls
  PROVE  CallsApart /\ ItemsStay
<1>1. call[Main].at = "idle" => call[Main].obj \notin Packets
  BY ObjectFacts DEF IInv, OneCallEach, PlaceFits
<1>2. "setup" \in Places /\ "destroy" \in Places
  BY DEF Places, SharedPlaces, SoundPlaces
<1>3. ASSUME NEW d \in Kinds, NEW s \in Slots, NEW o \in Instances, StartInstance(d, s, o)
      PROVE  CallsApart /\ ItemsStay
  <2>1. call[Main].at = "idle" /\ call' = [call EXCEPT ![Main] = Begun("setup", o)] /\ ItemsStay
    BY <1>3 DEF StartInstance, At, Begun, ItemsStay, sharedVars, itemVars
  <2> QED
    BY <1>1, <1>2, <2>1, BegunApart
<1>4. ASSUME NEW d \in Kinds, NEW s \in Slots, NEW o \in Instances, FinishInstance(d, s, o)
      PROVE  CallsApart /\ ItemsStay
  <2>1. call[Main].at = "idle" /\ call' = [call EXCEPT ![Main] = Begun("destroy", o)] /\ ItemsStay
    BY <1>4 DEF FinishInstance, Commands, Destroy, At, Begun, ItemsStay, sharedVars, itemVars
  <2> QED
    BY <1>1, <1>2, <2>1, BegunApart
<1>5. ASSUME NEW ids, StartSound(ids)
      PROVE  CallsApart /\ ItemsStay
  <2>1. call[Main].at = "idle" /\ call' = [call EXCEPT ![Main] = FinishBegun] /\ ItemsStay
    BY <1>5 DEF StartSound, At, FinishBegun, ItemsStay, sharedVars, itemVars
  <2> QED
    BY <1>1, <2>1, LeftApart
<1>6. ASSUME NEW s \in Slots, NEW o \in Inputs, PauseInput(s, o)
      PROVE  CallsApart /\ ItemsStay
  <2>1. call[Main].at = "idle" /\ call' = [call EXCEPT ![Main] = Begun("destroy", o)] /\ ItemsStay
    BY <1>6 DEF PauseInput, Commands, At, Begun, ItemsStay, sharedVars, itemVars
  <2> QED
    BY <1>1, <1>2, <2>1, BegunApart, ObjectFacts
<1>7. ASSUME NEW s \in Slots, NEW o, NEW n,
             UnpauseInput(s, o) \/ GetInputData(s, o) \/ PlayData(s, o, n) \/ SetSmoothValues(s, o, n)
      PROVE  CallsApart /\ ItemsStay
  BY <1>7 DEF UnpauseInput, GetInputData, PlayData, SetSmoothValues, poolVars, itemVars, CallsApart, ItemsStay
<1> QED
  BY <1>3, <1>4, <1>5, <1>6, <1>7 DEF SoundCalls

\* The steps of a call of Main's about sound.
LEMMA SoundStepsApart ==
  ASSUME IInv, NEW o \in Instances,
         \/ OpenDevice(o) \/ OpenDeviceFails(o) \/ Install(o) \/ FreeInstance(o)
         \/ ClearOutput(o) \/ ResetOutput(o) \/ Unlist(o)
         \/ StopHandingOut(o) \/ ResetInput(o) \/ ResetInputFails(o) \/ InputStopped(o)
  PROVE  CallsApart /\ ItemsStay
<1>1. call[Main].obj = o /\ call[Main].obj \in Instances
  BY DEF OpenDevice, OpenDeviceFails, Install, FreeInstance, ClearOutput, ResetOutput, Unlist,
         StopHandingOut, ResetInput, ResetInputFails, InputStopped, InCall
<1>2. call[Main].obj \notin Packets
  BY <1>1, ObjectFacts
<1>3. ItemsStay
  <2>1. CASE OpenDevice(o) \/ OpenDeviceFails(o) \/ Install(o) \/ FreeInstance(o)
    BY <2>1 DEF OpenDevice, OpenDeviceFails, Install, FreeInstance, ItemsStay, sharedVars, itemVars
  <2>2. CASE ClearOutput(o) \/ ResetOutput(o) \/ Unlist(o)
    BY <2>2 DEF ClearOutput, ResetOutput, Unlist, ItemsStay, sharedVars, itemVars
  <2>3. CASE StopHandingOut(o) \/ ResetInput(o) \/ ResetInputFails(o) \/ InputStopped(o)
    BY <2>3 DEF StopHandingOut, ResetInput, ResetInputFails, InputStopped, ItemsStay, sharedVars, itemVars
  <2> QED
    BY <2>1, <2>2, <2>3
<1>4. /\ "install" \in Places /\ "cleanup" \in Places /\ "reset" \in Places /\ "waitBuffers" \in Places
      /\ "destroy" \in Places
  BY DEF Places, SharedPlaces, SoundPlaces
<1>5. CASE (\E place \in Places : Goto(Main, place)) \/ EndDestructor(o)
  BY <1>1, <1>3, <1>5, GoneApart
<1>6. CASE call' = [call EXCEPT ![Main] = Idle]
  BY <1>2, <1>3, <1>6, LeftApart
<1>7. CASE OpenDevice(o) \/ OpenDeviceFails(o) \/ ClearOutput(o) \/ StopHandingOut(o) \/ ResetInput(o)
  <2>1. \E place \in Places : Goto(Main, place)
    BY <1>4, <1>7 DEF OpenDevice, OpenDeviceFails, ClearOutput, StopHandingOut, ResetInput
  <2> QED
    BY <1>5, <2>1
<1>8. CASE ResetOutput(o) \/ Unlist(o)
  <2>1. Goto(Main, "waitBuffers") \/ EndDestructor(o)
    BY <1>8 DEF ResetOutput, Unlist
  <2> QED
    BY <1>4, <1>5, <2>1
<1>9. CASE ResetInputFails(o) \/ InputStopped(o)
  <2>1. EndDestructor(o) \/ call' = [call EXCEPT ![Main] = Idle]
    BY <1>9 DEF ResetInputFails, InputStopped
  <2> QED
    BY <1>5, <1>6, <2>1
<1>10. CASE FreeInstance(o)
  <2>1. call' = [call EXCEPT ![Main] = Idle] \/ call' = [call EXCEPT ![Main] = FinishBegun]
    BY <1>10 DEF FreeInstance, FinishBegun
  <2> QED
    BY <1>2, <1>3, <2>1, LeftApart
<1>11. CASE Install(o)
  <2>1. call[Main].at = "install"
    BY <1>11 DEF Install, InCall, At
  <2>2. target.kind \in Kinds /\ target.id \in Slots
    <3>1. target \in Targets
      BY DEF IInv, TypeOK
    <3>2. o # None /\ target.new = o
      BY <1>1, <2>1, ObjectFacts DEF IInv, MainWorks
    <3>3. target.kind # None /\ target.id # None
      BY <3>2 DEF IInv, SlotsKnown
    <3> QED
      BY <3>1, <3>3 DEF Targets
  <2>3. CASE slot[target.kind][target.id] # None /\ Destroy(slot[target.kind][target.id])
    <3>1. PICK old \in Instances : old = slot[target.kind][target.id]
      BY <2>1, <2>2, <2>3, NoneClosing
    <3>2. call' = [call EXCEPT ![Main] = Begun("destroy", old)]
      BY <2>3, <3>1 DEF Destroy, Begun
    <3> QED
      BY <1>2, <1>3, <1>4, <3>2, BegunApart
  <2> QED
    BY <1>6, <1>11, <2>3 DEF Install
<1> QED
  BY <1>7, <1>8, <1>9, <1>10, <1>11

\* FinishSound's loop.
LEMMA FinishNextApart ==
  ASSUME IInv, FinishNext
  PROVE  CallsApart /\ ItemsStay
<1>1. call[Main].at = "finish" /\ ItemsStay
  BY FinishNextTurns DEF ItemsStay
<1>2. call[Main].obj \notin Packets
  BY <1>1, ObjectFacts DEF IInv, OneCallEach, PlaceFits
<1>3. CASE call' = [call EXCEPT ![Main] = Idle]
  BY <1>1, <1>2, <1>3, LeftApart
<1>4. ASSUME NEW d \in Kinds, NEW s \in Slots, slot[d][s] # None, Destroy(slot[d][s])
      PROVE  CallsApart
  <2>1. PICK o \in Instances : o = slot[d][s]
    BY <1>1, <1>4, NoneClosing
  <2>2. call' = [call EXCEPT ![Main] = Begun("destroy", o)]
    BY <1>4, <2>1 DEF Destroy, Begun
  <2>3. "destroy" \in Places
    BY DEF Places, SoundPlaces
  <2> QED
    BY <1>2, <2>2, <2>3, BegunApart
<1> QED
  BY <1>1, <1>3, <1>4, FinishNextTurns

\* The devices and the threads of sound.
LEMMA DevicesApart ==
  ASSUME QueuesKnown, NEW o \in Instances,
         \/ DecideWhetherToOutput(o) \/ DecideFails(o)
         \/ StoreData(o) \/ HandOut(o) \/ ReleaseBuffer(o) \/ CallbackFails(o) \/ BufferDone(o)
  PROVE  CallsApart /\ QueuesKnown' /\ EncryptorsStay
<1>1. call' = call
  BY DEF DecideWhetherToOutput, DecideFails, StoreData, HandOut, ReleaseBuffer, CallbackFails, BufferDone,
         handlingUnchanged, poolVars
<1>2. CallsApart
  BY <1>1 DEF CallsApart
<1>3. CASE DecideWhetherToOutput(o) \/ DecideFails(o)
  <2>1. UNCHANGED <<queue, stage, last>> /\ dead' \subseteq {SoundThread}
    BY <1>3 DEF DecideWhetherToOutput, DecideFails, poolVars, itemVars, QueuesKnown
  <2> QED
    BY <1>2, <2>1, SameKnown DEF EncryptorsStay
<1>4. CASE StoreData(o) \/ HandOut(o) \/ ReleaseBuffer(o)
  <2>1. PICK place : stage' = [stage EXCEPT ![SoundThread] = place]
    BY <1>4 DEF StoreData, HandOut, ReleaseBuffer, GotoStage
  <2>2. UNCHANGED <<queue, last>> /\ dead' \subseteq {SoundThread} /\ queue[SoundThread] # <<>>
    BY <1>4 DEF StoreData, HandOut, ReleaseBuffer, Handling, handlingUnchanged, QueuesKnown
  <2>3. EncryptorsStay
    BY <2>1, <2>2, EncryptorFacts DEF EncryptorsStay, QueuesKnown, QueuesFit
  <2>4. QueuesKnown'
    BY <2>1, <2>2, StageKnown, ThreadFacts
  <2> QED
    BY <1>2, <2>3, <2>4
<1>5. CASE CallbackFails(o)
  <2>1. UNCHANGED <<queue, stage, last>> /\ dead' \subseteq {SoundThread}
    BY <1>5 DEF CallbackFails, handlingUnchanged, QueuesKnown
  <2> QED
    BY <1>2, <2>1, SameKnown DEF EncryptorsStay
<1>6. CASE BufferDone(o)
  <2>1. o \in Objects /\ ClassOf[o] = "sound" /\ 0 \in 0 .. NumThreads[ClassOf[o]] - 1
    BY ObjectFacts, ThreadFacts
  <2>2. PICK data : PostMessageItem(o, 0, data)
    BY <1>6 DEF BufferDone
  <2>3. UNCHANGED <<stage, dead>>
    BY <1>6 DEF BufferDone
  <2>4. QueuesKnown'
    BY <2>1, <2>2, <2>3, PostKnown
  <2>5. PICK item : queue' = queue \/ queue' = [queue EXCEPT ![SoundThread] = Append(queue[SoundThread], item)]
    BY <2>1, <2>2 DEF PostMessageItem, SoundThread, QueuesKnown, QueuesFit
  <2>6. EncryptorsStay
    BY <2>3, <2>5, EncryptorFacts DEF EncryptorsStay, QueuesKnown, QueuesFit
  <2> QED
    BY <1>2, <2>4, <2>6
<1> QED
  BY <1>3, <1>4, <1>5, <1>6

\* Together.
LEMMA SoundGoesOnApart ==
  ASSUME IInv, QueuesKnown, SoundCalls \/ SoundGoesOn
  PROVE  CallsApart /\ QueuesKnown' /\ EncryptorsStay
<1>1. ASSUME CallsApart /\ ItemsStay
      PROVE  CallsApart /\ QueuesKnown' /\ EncryptorsStay
  <2>1. dead' \subseteq {SoundThread}
    BY <1>1 DEF ItemsStay, QueuesKnown
  <2> QED
    BY <1>1, <2>1, SameKnown DEF ItemsStay, EncryptorsStay
<1>2. CASE SoundCalls
  BY <1>1, <1>2, SoundCallsApart
<1>3. ASSUME NEW o \in Outputs,
             \/ ClearOutput(o) \/ ResetOutput(o) \/ Unlist(o)
             \/ DecideWhetherToOutput(o) \/ DecideFails(o)
      PROVE  CallsApart /\ QueuesKnown' /\ EncryptorsStay
  <2>1. o \in Instances
    BY ObjectFacts
  <2> QED
    BY <1>1, <1>3, <2>1, SoundStepsApart, DevicesApart
<1>4. ASSUME NEW o \in Inputs,
             \/ StopHandingOut(o) \/ ResetInput(o) \/ ResetInputFails(o) \/ InputStopped(o)
             \/ StoreData(o) \/ HandOut(o)
      PROVE  CallsApart /\ QueuesKnown' /\ EncryptorsStay
  <2>1. o \in Instances
    BY ObjectFacts
  <2> QED
    BY <1>1, <1>4, <2>1, SoundStepsApart, DevicesApart
<1>5. ASSUME NEW o \in Instances,
             \/ OpenDevice(o) \/ OpenDeviceFails(o) \/ Install(o) \/ FreeInstance(o)
             \/ BufferDone(o) \/ ReleaseBuffer(o) \/ CallbackFails(o)
      PROVE  CallsApart /\ QueuesKnown' /\ EncryptorsStay
  BY <1>1, <1>5, SoundStepsApart, DevicesApart
<1>6. CASE FinishNext
  BY <1>1, <1>6, FinishNextApart
<1> QED
  BY <1>2, <1>3, <1>4, <1>5, <1>6 DEF SoundGoesOn

-----------------------------------------------------------------------------
(***************************************************************************)
(* Steps that post nothing and work on nothing.                            *)
(***************************************************************************)
\* A call goes on, or ends, without having posted anything, and owes what it owed.
QuietCall(r, s) ==
  r = s \/
    /\ Posting(s) => Posting(r) /\ s.obj = r.obj /\ (s.at = "ready" => s.n \in Nat)
    /\ \A p \in Packets, n \in Encryptors : Unposted(s, p, n) <=> Unposted(r, p, n)
CallsQuiet == \A k \in Callers : QuietCall(call[k], call'[k])

\* What is owed depends on the calls that post.
LEMMA OwedKept ==
  ASSUME CallsQuiet, NEW p \in Packets, NEW n \in Encryptors
  PROVE  Owed(p, n)' <=> Owed(p, n)
<1>1. \A k \in Callers : Unposted(call'[k], p, n) <=> Unposted(call[k], p, n)
  BY DEF CallsQuiet, QuietCall
<1>2. Owed(p, n)' <=> \E k \in Callers : Unposted(call'[k], p, n)
  BY DEF Owed, Unposted
<1> QED
  BY <1>1, <1>2 DEF Owed

\* A quiet call has been asked to do what it does.
LEMMA AskedKept ==
  ASSUME CallsAsked, CallsQuiet, \A p \in Packets : asked[p] # <<>> => asked'[p] # <<>>
  PROVE  CallsAsked'
<1> SUFFICES ASSUME NEW k \in Callers, Posting(call'[k])
             PROVE  /\ asked'[call'[k].obj] # <<>>
                    /\ call'[k].at = "ready" => call'[k].n \in Nat
  BY DEF CallsAsked, PostingFits, Posting
<1>1. QuietCall(call[k], call'[k]) /\ PostingFits(call[k])
  BY DEF CallsQuiet, CallsAsked
<1>2. Posting(call[k]) /\ call'[k].obj = call[k].obj /\ (call'[k].at = "ready" => call'[k].n \in Nat)
  BY <1>1 DEF QuietCall, PostingFits
<1> QED
  BY <1>1, <1>2 DEF PostingFits, Posting

\* One call changes.
LEMMA OneQuiet ==
  ASSUME TypeOK, NEW k \in Callers, NEW r, QuietCall(call[k], r), call' = [call EXCEPT ![k] = r]
  PROVE  CallsQuiet
<1>1. call'[k] = r /\ \A j \in Callers : j # k => call'[j] = call[j]
  BY CallFacts
<1>2. \A j \in Callers : QuietCall(call[j], call[j])
  BY DEF QuietCall
<1> QED
  BY <1>1, <1>2 DEF CallsQuiet

\* A call that posts nothing does not become one that does.
LEMMA ApartQuiet ==
  ASSUME CallsApart
  PROVE  CallsQuiet
<1>1. \A r : \A p \in Packets, n \in Encryptors : Unposted(r, p, n) => Posting(r)
  BY DEF Unposted, Posting
<1> QED
  BY <1>1 DEF CallsApart, CallsQuiet, QuietCall

\* Nothing that matters here happens; a packet may be destroyed.
LEMMA QuietOrdered ==
  ASSUME Ordered, CallsQuiet, QueuesKnown', EncryptorsStay,
         UNCHANGED <<used, asked, applied>>, exists' \subseteq exists
  PROVE  Ordered'
<1>1. SizesKnown'
  BY DEF Ordered, SizesKnown, Padded, Chunks
<1>2. CallsAsked'
  BY AskedKept DEF Ordered
<1>3. ASSUME NEW p \in exists', NEW n \in Encryptors
      PROVE  ItemsFollow(p, n)' /\ ChunksSeen(p, n)'
  <2>1. p \in exists /\ p \in Packets
    BY <1>3 DEF Ordered, SizesKnown
  <2>2. ItemsFollow(p, n) /\ ChunksSeen(p, n)
    BY <2>1 DEF Ordered, Following
  <2>3. Owed(p, n)' <=> Owed(p, n)
    BY <2>1, OwedKept
  <2>4. queue'[Encryptor(n)] = queue[Encryptor(n)] /\ (Handled(p, n)' <=> Handled(p, n))
    BY DEF EncryptorsStay, Handled
  <2> QED
    BY <2>2, <2>3, <2>4, FollowingKept
<1>4. Following'
  BY <1>3 DEF Following, Encryptors
<1> QED
  BY <1>1, <1>2, <1>4 DEF Ordered

\* The items stay where they are.
LEMMA StillOrdered ==
  ASSUME Ordered, CallsQuiet, ItemsStay, UNCHANGED <<used, asked, applied>>, exists' \subseteq exists
  PROVE  Ordered'
<1>1. QueuesKnown
  BY DEF Ordered
<1>2. dead' \subseteq {SoundThread}
  BY <1>1 DEF ItemsStay, QueuesKnown
<1>3. QueuesKnown'
  BY <1>1, <1>2, SameKnown DEF ItemsStay
<1>4. EncryptorsStay
  BY DEF ItemsStay, EncryptorsStay
<1> QED
  BY <1>3, <1>4, QuietOrdered

-----------------------------------------------------------------------------
(***************************************************************************)
(* Setups, cleanups and decisions.                                         *)
(***************************************************************************)
\* A setup goes on: everything is still to be posted.
LEMMA SetupQuiet ==
  ASSUME NEW r, NEW s, s.obj = r.obj, r.at \in NotYetUsing,
         s.at \in NotYetUsing \/ (s.at = "ready" /\ s.n = 0)
  PROVE  QuietCall(r, s)
<1>1. \A n \in Encryptors : 0 <= n
  BY EncryptorFacts
<1>2. "ready" \notin NotYetUsing /\ s.at \in NotYetUsing \cup {"ready"}
  BY DEF NotYetUsing
<1>3. \A p \in Packets, n \in Encryptors : Unposted(s, p, n) <=> Unposted(r, p, n)
  BY <1>1, <1>2 DEF Unposted
<1> QED
  BY <1>2, <1>3 DEF QuietCall, Posting

\* Other calls post nothing.
LEMMA GoneQuiet ==
  ASSUME NEW r, NEW s, ~Posting(r), ~Posting(s)
  PROVE  QuietCall(r, s)
BY DEF QuietCall, Posting, Unposted

\* A cleanup goes on.
LEMMA CleanupQuiet ==
  ASSUME IInv, NEW k \in Callers, call[k].at \in CleanupPlaces \cup {"cleanup"},
         NEW place \in CleanupPlaces \cup {"free"},
         Goto(k, place) \/ \E m \in Int : Learns(k, place, m)
  PROVE  CallsQuiet
<1>1. place \in Places /\ call[k].n \in Int
  BY CallFacts DEF CleanupPlaces, Places, SharedPlaces, IInv
<1>2. PICK m \in Int : Learns(k, place, m) \/ (Goto(k, place) /\ m = call[k].n)
  BY <1>1
<1>3. PICK r \in Calls : call' = [call EXCEPT ![k] = r] /\ r.at = place
  BY <1>1, <1>2, CallGoes
<1>4. ~Posting(call[k]) /\ ~Posting(r)
  BY <1>3 DEF Posting, CleanupPlaces, NotYetUsing
<1> QED
  BY <1>3, <1>4, GoneQuiet, OneQuiet DEF IInv

\* The steps of setups and cleanups, together.
LEMMA CallerStepOrdered ==
  ASSUME IInv, Ordered, NEW k \in Callers, CallerStep(k), ~fault', UNCHANGED encryptionVars
  PROVE  Ordered'
<1>1. UNCHANGED <<used, asked, applied, exists>>
  BY DEF encryptionVars
<1>2. ASSUME CallsQuiet, ItemsStay
      PROVE  Ordered'
  BY <1>1, <1>2, StillOrdered
<1>3. CASE SetupThreads(k)
  <2>1. call[k].at = "setup" /\ ItemsStay
    BY <1>3 DEF SetupThreads, At, itemVars, ItemsStay
  <2>2. usage[Class(k)] \in Int
    BY <2>1, CallUses DEF IInv, TypeOK, SharedPlaces
  <2>3. PICK place \in {"create", "count"} : place = IF usage[Class(k)] = 0 THEN "create" ELSE "count"
    OBVIOUS
  <2>4. PICK m \in Int : m = usage[Class(k)]
    BY <2>2
  <2>5. place \in Places /\ Learns(k, place, m)
    BY <1>3, <2>3, <2>4 DEF SetupThreads, Learns, Places, SharedPlaces
  <2>6. PICK r \in Calls : call' = [call EXCEPT ![k] = r] /\ r.at = place /\ r.obj = call[k].obj
    BY <2>5, CallGoes
  <2>7. QuietCall(call[k], r)
    BY <2>1, <2>3, <2>6, SetupQuiet DEF NotYetUsing
  <2> QED
    BY <1>2, <2>1, <2>6, <2>7, OneQuiet DEF IInv
<1>4. CASE CreateThreads(k) \/ CountUser(k)
  <2>1. call[k].at \in NotYetUsing /\ EndSetup(k) /\ ItemsStay
    BY <1>4 DEF CreateThreads, CountUser, At, itemVars, ItemsStay, NotYetUsing
  <2>2. PICK r : r = [at |-> "ready", obj |-> call[k].obj, n |-> 0, block |-> call[k].block]
    OBVIOUS
  <2>3. call' = [call EXCEPT ![k] = r]
    BY <2>1, <2>2, EndSetupCall DEF IInv
  <2>4. r.at = "ready" /\ r.n = 0 /\ r.obj = call[k].obj
    BY <2>2
  <2>5. QuietCall(call[k], r)
    BY <2>1, <2>4, SetupQuiet
  <2> QED
    BY <1>2, <2>1, <2>3, <2>5, OneQuiet DEF IInv
<1>5. CASE CleanupThreads(k)
  <2>1. call[k].at = "cleanup" /\ ItemsStay
    BY <1>5 DEF CleanupThreads, At, itemVars, ItemsStay
  <2>2. usage[Class(k)] \in Int
    BY <2>1, CallUses DEF IInv, TypeOK, SharedPlaces
  <2>3. PICK place \in {"release", "leave"} : place = IF usage[Class(k)] > 0 THEN "release" ELSE "leave"
    OBVIOUS
  <2>4. PICK m \in Int : m = usage[Class(k)]
    BY <2>2
  <2>5. Learns(k, place, m) /\ place \in CleanupPlaces
    BY <1>5, <2>3, <2>4 DEF CleanupThreads, Learns, CleanupPlaces
  <2>6. CallsQuiet
    BY <2>1, <2>5, CleanupQuiet
  <2> QED
    BY <1>2, <2>1, <2>6
<1>6. CASE ReleaseThreads(k)
  <2>1. call[k].at = "release" /\ ItemsStay /\ \E place \in {"clear", "leave"} : Goto(k, place)
    BY <1>6 DEF ReleaseThreads, At, itemVars, ItemsStay
  <2>2. CallsQuiet
    BY <2>1, CleanupQuiet DEF CleanupPlaces
  <2> QED
    BY <1>2, <2>1, <2>2
<1>7. CASE ClearThreads(k)
  <2>1. call[k].at = "clear" /\ Goto(k, "leave")
    BY <1>7 DEF ClearThreads, At
  <2>2. CallsQuiet
    BY <2>1, CleanupQuiet DEF CleanupPlaces
  <2>3. QueuesKnown' /\ EncryptorsStay
    BY <1>7, ClearKnown DEF Ordered, EncryptorsStay
  <2> QED
    BY <1>1, <2>2, <2>3, QuietOrdered
<1>8. CASE LeaveThreads(k)
  <2>1. call[k].at = "leave" /\ Goto(k, "free") /\ UNCHANGED <<queue, stage>>
    BY <1>8 DEF LeaveThreads, At
  <2>2. CallsQuiet
    BY <2>1, CleanupQuiet DEF CleanupPlaces
  <2>3. QueuesKnown' /\ EncryptorsStay
    BY <1>8, <2>1, LeaveKnown DEF Ordered, EncryptorsStay, IInv
  <2> QED
    BY <1>1, <2>2, <2>3, QuietOrdered
<1> QED
  BY <1>3, <1>4, <1>5, <1>6, <1>7, <1>8 DEF CallerStep

\* A thread decides about the item it has handled.
LEMMA DecidesOrdered ==
  ASSUME IInv, Ordered, NEW t \in Threads, ThreadDecides(t), UNCHANGED encryptionVars
  PROVE  Ordered'
<1>1. /\ UNCHANGED <<used, asked, applied, exists, call>>
      /\ stage[t] = "decide" /\ stage' = [stage EXCEPT ![t] = "get"]
      /\ queue' = [queue EXCEPT ![t] = Tail(queue[t])]
  BY DEF ThreadDecides, encryptionVars, Ordered, QueuesKnown, QueuesFit
<1>2. QueuesFit /\ SizesKnown /\ QueuesKnown
  BY DEF Ordered, QueuesKnown
<1>3. queue[t] # <<>>
  BY <1>1, <1>2 DEF QueuesFit
<1>4. /\ queue'[t] = Tail(queue[t]) /\ stage'[t] = "get"
      /\ \A u \in Threads : u # t => queue'[u] = queue[u] /\ stage'[u] = stage[u]
  BY <1>1, <1>2 DEF QueuesFit
<1>5. CallsQuiet
  BY <1>1 DEF CallsQuiet, QuietCall
<1>6. QueuesKnown'
  BY <1>2, DecidesKnown
<1>7. CASE t = SoundThread
  <2>1. EncryptorsStay
    BY <1>4, <1>7, EncryptorFacts DEF EncryptorsStay
  <2> QED
    BY <1>1, <1>5, <1>6, <2>1, QuietOrdered
<1>8. CASE t # SoundThread
  <2>1. PICK m \in Encryptors : t = Encryptor(m)
    BY <1>8, EncryptorFacts
  <2>2. ASSUME NEW p \in exists, NEW n \in Encryptors
        PROVE  ItemsFollow(p, n)' /\ ChunksSeen(p, n)'
    <3>1. p \in Packets /\ ItemsFollow(p, n) /\ ChunksSeen(p, n)
      BY <1>2 DEF SizesKnown, Ordered, Following
    <3>2. Owed(p, n)' <=> Owed(p, n)
      BY <1>5, <3>1, OwedKept
    <3>3. CASE n = m
      BY <1>1, <1>2, <1>3, <1>4, <2>1, <3>1, <3>2, <3>3, DecidedFollows
    <3>4. CASE n # m
      <4>1. queue'[Encryptor(n)] = queue[Encryptor(n)] /\ stage'[Encryptor(n)] = stage[Encryptor(n)]
        BY <1>4, <2>1, <3>4, EncryptorFacts
      <4>2. Handled(p, n)' <=> Handled(p, n)
        BY <4>1 DEF Handled
      <4> QED
        BY <1>1, <3>1, <3>2, <4>1, <4>2, FollowingKept
    <3> QED
      BY <3>3, <3>4
  <2>3. Following'
    BY <1>1, <2>2 DEF Following, Encryptors
  <2>4. SizesKnown'
    BY <1>1, <1>2 DEF SizesKnown, Padded, Chunks
  <2>5. CallsAsked'
    BY <1>1 DEF Ordered, CallsAsked, PostingFits, Posting
  <2> QED
    BY <1>6, <2>3, <2>4, <2>5 DEF Ordered
<1> QED
  BY <1>7, <1>8

-----------------------------------------------------------------------------
(***************************************************************************)
(* The steps of an operation.                                              *)
(***************************************************************************)
\* An operation begins: everything is to be posted, and nothing was.
LEMMA BeginOperationOrdered ==
  ASSUME IInv, Ordered, NEW k \in Callers, NEW p \in Packets, NEW op \in Operations,
         NEW block \in BOOLEAN, BeginOperation(k, p, op, block)
  PROVE  Ordered'
<1>1. /\ call[k].at = "idle" /\ Unused(p)
      /\ used' = [used EXCEPT ![p] = Padded(used[p])]
      /\ asked' = [asked EXCEPT ![p] = Append(asked[p], op)]
      /\ UNCHANGED <<queue, stage, last, dead, exists, applied>>
  BY DEF BeginOperation, At, itemVars, Ordered, SizesKnown
<1>2. SizesKnown /\ CallsAsked /\ QueuesKnown /\ Following
  BY DEF Ordered
<1>3. PICK place \in {"ready", "setup"} : place = IF using[p] THEN "ready" ELSE "setup"
  OBVIOUS
<1>4. PICK r : r = [at |-> place, obj |-> p, n |-> 0, block |-> block]
  OBVIOUS
<1>5. r.at = place /\ r.obj = p /\ r.n = 0
  BY <1>4
<1>6. call'[k] = r /\ \A j \in Callers : j # k => call'[j] = call[j]
  <2>1. call' = [call EXCEPT ![k] = r]
    BY <1>3, <1>4 DEF BeginOperation
  <2> QED
    BY <2>1, CallFacts DEF IInv
<1>7. call[k].obj = None /\ \A j \in Callers : call[j].obj # p
  BY <1>1 DEF IInv, OneCallEach, PlaceFits, Unused
<1>8. /\ used'[p] = Padded(used[p]) /\ asked'[p] = Append(asked[p], op)
      /\ \A x \in Packets : x # p => used'[x] = used[x] /\ asked'[x] = asked[x]
      /\ DOMAIN used' = Packets /\ DOMAIN asked' = Packets
      /\ used' = [x \in Packets |-> used'[x]] /\ asked' = [x \in Packets |-> asked'[x]]
  BY <1>1, <1>2 DEF SizesKnown
<1>9. /\ used[p] \in {Sizes[p], Padded(Sizes[p])} /\ Sizes[p] \in Nat /\ used[p] \in Nat
      /\ asked[p] \in Seq(Operations)
  BY <1>2, EncryptionAssumption DEF SizesKnown
<1>10. used'[p] = Padded(Sizes[p]) /\ used'[p] \in Nat
  BY <1>8, <1>9, FilledUp
<1>11. asked'[p] \in Seq(Operations) /\ asked'[p] # <<>>
  BY <1>8, <1>9, AppendProperties
<1>12. SizesKnown'
  <2>1. \A x \in Packets : /\ used'[x] \in Nat /\ asked'[x] \in Seq(Operations)
                           /\ used'[x] \in {Sizes[x], Padded(Sizes[x])}
                           /\ asked'[x] # <<>> => used'[x] = Padded(Sizes[x])
    BY <1>2, <1>8, <1>10, <1>11 DEF SizesKnown
  <2>2. used' \in [Packets -> Nat] /\ asked' \in [Packets -> Seq(Operations)]
    BY <1>8, <2>1
  <2> QED
    BY <1>1, <1>2, <2>1, <2>2 DEF SizesKnown, Padded, Chunks
<1>13. CallsAsked'
  <2> SUFFICES ASSUME NEW j \in Callers, Posting(call'[j])
               PROVE  /\ asked'[call'[j].obj] # <<>>
                      /\ call'[j].at = "ready" => call'[j].n \in Nat
    BY DEF CallsAsked, PostingFits, Posting
  <2>1. CASE j = k
    BY <1>5, <1>6, <1>11, <2>1
  <2>2. CASE j # k
    <3>1. call'[j] = call[j] /\ call[j].obj # p
      BY <1>6, <1>7, <2>2
    <3>2. PostingFits(call[j]) /\ Posting(call[j])
      BY <1>2, <3>1 DEF CallsAsked, Posting
    <3>3. call[j].obj \in Packets
      BY <3>2 DEF Posting
    <3> QED
      BY <1>8, <3>1, <3>2, <3>3 DEF PostingFits
  <2> QED
    BY <2>1, <2>2
<1>14. QueuesKnown'
  <2>1. dead' \subseteq {SoundThread}
    BY <1>1, <1>2 DEF QueuesKnown
  <2> QED
    BY <1>1, <1>2, <2>1, SameKnown
<1>15. ASSUME NEW n \in Encryptors
       PROVE  /\ ~Owed(p, n) /\ Owed(p, n)'
              /\ \A x \in Packets : x # p => (Owed(x, n)' <=> Owed(x, n))
  <2>1. ~Owed(p, n)
    BY <1>7 DEF Owed, Unposted
  <2>2. Owed(p, n)'
    <3>1. 0 <= n
      BY EncryptorFacts
    <3>2. Unposted(call'[k], p, n)
      BY <1>3, <1>5, <1>6, <3>1 DEF Unposted, NotYetUsing
    <3> QED
      BY <3>2 DEF Owed, Unposted
  <2>3. ASSUME NEW x \in Packets, x # p
        PROVE  Owed(x, n)' <=> Owed(x, n)
    <3>1. ~Unposted(call'[k], x, n) /\ ~Unposted(call[k], x, n)
      BY <1>5, <1>6, <1>7, <2>3, ObjectFacts DEF Unposted
    <3>2. Owed(x, n)' <=> \E j \in Callers : Unposted(call'[j], x, n)
      BY DEF Owed, Unposted
    <3>3. \A j \in Callers : Unposted(call'[j], x, n) <=> Unposted(call[j], x, n)
      BY <1>6, <3>1
    <3> QED
      BY <3>2, <3>3 DEF Owed
  <2> QED
    BY <2>1, <2>2, <2>3
<1>16. ASSUME NEW x \in exists, NEW n \in Encryptors
       PROVE  ItemsFollow(x, n)' /\ ChunksSeen(x, n)'
  <2>1. x \in Packets /\ ItemsFollow(x, n) /\ ChunksSeen(x, n)
    BY <1>2 DEF SizesKnown, Following
  <2>2. CASE x = p
    <3>1. QueuesFit /\ queue'[Encryptor(n)] = queue[Encryptor(n)] /\ stage'[Encryptor(n)] = stage[Encryptor(n)]
      BY <1>1, <1>2 DEF QueuesKnown
    <3>2. applied'[p] = applied[p] /\ ~Owed(p, n) /\ Owed(p, n)'
      BY <1>1, <1>15
    <3>3. ItemsFollow(p, n)' /\ ChunksSeen(p, n)'
      BY <1>2, <1>8, <2>1, <2>2, <3>1, <3>2, AskedFollows
    <3> QED
      BY <2>2, <3>3
  <2>3. CASE x # p
    <3>1. /\ asked'[x] = asked[x] /\ used'[x] = used[x] /\ queue'[Encryptor(n)] = queue[Encryptor(n)]
          /\ \A c \in ChunksOf(x, n) : applied'[x][c] = applied[x][c]
          /\ Handled(x, n)' <=> Handled(x, n)
      BY <1>1, <1>8, <2>1, <2>3 DEF Handled
    <3>2. Owed(x, n)' <=> Owed(x, n)
      BY <1>15, <2>1, <2>3
    <3> QED
      BY <2>1, <3>1, <3>2, FollowingKept
  <2> QED
    BY <2>2, <2>3
<1>17. Following'
  BY <1>1, <1>16 DEF Following, Encryptors
<1> QED
  BY <1>12, <1>13, <1>14, <1>17 DEF Ordered

\* An operation is posted to one more thread.
LEMMA PostItemOrdered ==
  ASSUME IInv, Ordered, NEW k \in Callers, PostItem(k)
  PROVE  Ordered'
<1>1. /\ call[k].at = "ready" /\ Class(k) = "packet" /\ call[k].n < GetNumThreads("packet")
      /\ call' = [call EXCEPT ![k].n = call[k].n + 1]
      /\ UNCHANGED <<stage, dead, exists, used, asked, applied>>
  BY DEF PostItem, At, encryptionVars
<1>2. SizesKnown /\ CallsAsked /\ QueuesKnown /\ Following /\ QueuesFit /\ dead \subseteq {SoundThread}
  BY DEF Ordered, QueuesKnown
<1>3. PICK p \in Packets : p = call[k].obj /\ p \in Objects /\ ClassOf[p] = "packet"
  BY <1>1, PacketCall, ObjectFacts
<1>4. Posting(call[k])
  BY <1>1, <1>3 DEF Posting
<1>5. asked[p] # <<>> /\ call[k].n \in Nat
  BY <1>1, <1>2, <1>3, <1>4 DEF CallsAsked, PostingFits
<1>6. PICK n \in Nat : n = call[k].n
  BY <1>5
<1>7. n \in Encryptors /\ GetNumThreads("packet") = NumThreads["packet"]
  <2>1. CASE pool["packet"]
    BY <1>1, <1>6, <2>1, EncryptorFacts DEF GetNumThreads, Encryptors
  <2>2. CASE ~pool["packet"]
    BY <1>1, <1>6, <2>2 DEF GetNumThreads
  <2> QED
    BY <2>1, <2>2
<1>8. PICK arg : arg = [op |-> Last(asked[p]), size |-> used[p], of |-> NumThreads["packet"]]
  OBVIOUS
<1>9. PostMessageItem(p, n, arg)
  BY <1>3, <1>6, <1>7, <1>8 DEF PostItem
<1>10. QueuesKnown'
  <2>1. n \in 0 .. NumThreads[ClassOf[p]] - 1
    BY <1>3, <1>7 DEF Encryptors
  <2> QED
    BY <1>1, <1>2, <1>3, <1>9, <2>1, PostKnown
<1>11. PICK x : x = [obj |-> p, arg |-> arg] /\ x.obj = p
  <2>1. [obj |-> p, arg |-> arg].obj = p
    OBVIOUS
  <2> QED
    BY <2>1, Zenon
<1>12. /\ queue'[Encryptor(n)] = Append(queue[Encryptor(n)], x)
       /\ \A m \in Encryptors : m # n => queue'[Encryptor(m)] = queue[Encryptor(m)]
  <2>1. Encryptor(n) \in Threads /\ Encryptor(n) # SoundThread /\ Encryptor(n) = <<ClassOf[p], n>>
    BY <1>3, <1>7, EncryptorFacts DEF Encryptor
  <2>2. queue' = [queue EXCEPT ![Encryptor(n)] = Append(queue[Encryptor(n)], x)]
    BY <1>2, <1>9, <1>11, <2>1 DEF PostMessageItem, QueuesFit
  <2> QED
    BY <1>2, <1>7, <2>1, <2>2, EncryptorFacts DEF QueuesFit
<1>13. PICK r : r = [call[k] EXCEPT !.n = n + 1]
  OBVIOUS
<1>14. /\ call'[k] = r /\ \A j \in Callers : j # k => call'[j] = call[j] /\ call[j].obj # p
       /\ r.at = "ready" /\ r.obj = p /\ r.n = n + 1
  <2>1. call[k] \in Calls /\ call \in [Callers -> Calls]
    BY CallFacts DEF IInv
  <2>2. call'[k] = r /\ \A j \in Callers : j # k => call'[j] = call[j]
    BY <1>1, <1>6, <1>13, <2>1
  <2>3. \A j \in Callers : j # k => call[j].obj # p
    BY <1>3, ObjectFacts DEF IInv, OneCallEach
  <2> QED
    BY <1>1, <1>3, <1>13, <2>1, <2>2, <2>3 DEF Calls
<1>15. ASSUME NEW y \in Packets, NEW m \in Encryptors
       PROVE  IF y = p /\ m = n THEN Owed(y, m) /\ ~Owed(y, m)' ELSE Owed(y, m)' <=> Owed(y, m)
  <2>1. Owed(y, m)' <=> \E j \in Callers : Unposted(call'[j], y, m)
    BY DEF Owed, Unposted
  <2>2. m \in Nat
    BY EncryptorFacts
  <2>3. Unposted(call[k], y, m) <=> y = p /\ n <= m
    BY <1>1, <1>3, <1>6 DEF Unposted, NotYetUsing
  <2>4. Unposted(call'[k], y, m) <=> y = p /\ n + 1 <= m
    BY <1>14 DEF Unposted, NotYetUsing
  <2>5. CASE y # p \/ m # n
    <3>1. Unposted(call'[k], y, m) <=> Unposted(call[k], y, m)
      BY <2>2, <2>3, <2>4, <2>5
    <3> QED
      BY <1>14, <2>1, <2>5, <3>1 DEF Owed
  <2>6. CASE y = p /\ m = n
    <3>1. Unposted(call[k], y, m) /\ ~Unposted(call'[k], y, m)
      BY <2>2, <2>3, <2>4, <2>6
    <3>2. \A j \in Callers : j # k => ~Unposted(call'[j], y, m)
      BY <1>14, <2>6 DEF Unposted
    <3> QED
      BY <2>1, <2>6, <3>1, <3>2 DEF Owed
  <2> QED
    BY <2>5, <2>6
<1>16. ASSUME NEW y \in exists, NEW m \in Encryptors
       PROVE  ItemsFollow(y, m)' /\ ChunksSeen(y, m)'
  <2>1. y \in Packets /\ ItemsFollow(y, m) /\ ChunksSeen(y, m)
    BY <1>2 DEF SizesKnown, Following
  <2>2. CASE m # n
    <3>1. queue'[Encryptor(m)] = queue[Encryptor(m)]
      BY <1>12, <2>2
    <3>2. Owed(y, m)' <=> Owed(y, m)
      BY <1>15, <2>1, <2>2
    <3>3. Handled(y, m)' <=> Handled(y, m)
      BY <1>1, <3>1 DEF Handled
    <3> QED
      BY <1>1, <2>1, <3>1, <3>2, <3>3, FollowingKept
  <2>3. CASE m = n /\ y = p
    <3>1. Owed(p, n) /\ ~Owed(p, n)'
      BY <1>7, <1>15
    <3>2. ItemsFollow(p, n) /\ ChunksSeen(p, n) /\ stage'[Encryptor(n)] = stage[Encryptor(n)]
      BY <1>1, <2>1, <2>3
    <3>3. queue'[Encryptor(n)] = Append(queue[Encryptor(n)],
            [obj |-> p, arg |-> [op |-> Last(asked[p]), size |-> used[p], of |-> NumThreads["packet"]]])
      BY <1>8, <1>11, <1>12
    <3>4. UNCHANGED <<asked, used, applied>>
      BY <1>1
    <3>5. ItemsFollow(p, n)' /\ ChunksSeen(p, n)'
      BY <1>2, <1>5, <1>7, <3>1, <3>2, <3>3, <3>4, PostedFollows
    <3> QED
      BY <2>3, <3>5
  <2>4. CASE m = n /\ y # p
    <3>1. Owed(y, n)' <=> Owed(y, n)
      BY <1>7, <1>15, <2>1, <2>4
    <3>2. ItemsFollow(y, n) /\ ChunksSeen(y, n) /\ stage'[Encryptor(n)] = stage[Encryptor(n)]
      BY <1>1, <2>1, <2>4
    <3>3. asked'[y] = asked[y] /\ used'[y] = used[y] /\ applied'[y] = applied[y] /\ x.obj # y
      BY <1>1, <1>11, <2>4
    <3>4. ItemsFollow(y, n)' /\ ChunksSeen(y, n)'
      BY <1>2, <1>7, <1>12, <2>1, <3>1, <3>2, <3>3, OtherPosted
    <3> QED
      BY <2>4, <3>4
  <2> QED
    BY <2>2, <2>3, <2>4
<1>17. Following'
  BY <1>1, <1>16 DEF Following, Encryptors
<1>18. SizesKnown'
  BY <1>1, <1>2 DEF SizesKnown, Padded, Chunks
<1>19. CallsAsked'
  <2> SUFFICES ASSUME NEW j \in Callers
               PROVE  PostingFits(call'[j])
    BY <1>1 DEF CallsAsked, PostingFits, Posting
  <2>1. CASE j = k
    BY <1>5, <1>14, <2>1 DEF PostingFits
  <2>2. CASE j # k
    BY <1>2, <1>14, <2>2 DEF CallsAsked
  <2> QED
    BY <2>1, <2>2
<1> QED
  BY <1>10, <1>17, <1>18, <1>19 DEF Ordered

\* Everything has been posted: as long as the packet is counted its class has threads.
LEMMA EndLoopOrdered ==
  ASSUME IInv, Ordered, ~overlapped, NEW k \in Callers, EndLoop(k)
  PROVE  Ordered'
<1>1. /\ call[k].at = "ready" /\ Class(k) = "packet" /\ call[k].n >= GetNumThreads("packet")
      /\ ItemsStay /\ UNCHANGED <<exists, used, asked, applied>>
  BY DEF EndLoop, At, itemVars, encryptionVars, ItemsStay
<1>2. PICK p \in Packets : p = call[k].obj /\ p \in Objects /\ ClassOf[p] = "packet"
  BY <1>1, PacketCall, ObjectFacts
<1>3. Posting(call[k]) /\ call[k].n \in Nat
  <2>1. Posting(call[k])
    BY <1>1, <1>2 DEF Posting
  <2> QED
    BY <1>1, <2>1 DEF Ordered, CallsAsked, PostingFits
<1>4. pool["packet"]
  <2>1. using[p] /\ \A j \in Callers : call[j].obj = p => j = k
    BY <1>1, <1>2, ObjectFacts DEF IInv, UsingKnown, UsingFits, StillUsing, OneCallEach
  <2>2. p \in Users("packet")
    BY <1>1, <1>2, <2>1 DEF Users
  <2> QED
    BY <2>2 DEF IInv, CountInv, CountKnown, Classes
<1>5. \A m \in Encryptors : ~(call[k].n <= m)
  BY <1>1, <1>3, <1>4, EncryptorFacts DEF GetNumThreads
<1>6. \A y \in Packets, m \in Encryptors : ~Unposted(call[k], y, m)
  BY <1>1, <1>5 DEF Unposted, NotYetUsing
<1>7. PICK r : call' = [call EXCEPT ![k] = r] /\ r.at \in {"idle", "wait"}
  <2>1. call[k] \in Calls /\ call \in [Callers -> Calls]
    BY CallFacts DEF IInv
  <2>2. CASE ~call[k].block
    BY <2>1, <2>2, IdleFacts DEF EndLoop
  <2>3. CASE call[k].block
    <3>1. PICK r : r = [call[k] EXCEPT !.at = "wait"]
      OBVIOUS
    <3>2. r.at = "wait" /\ call' = [call EXCEPT ![k] = r]
      BY <2>1, <2>3, <3>1, PlaceChanged DEF EndLoop
    <3> QED
      BY <3>2
  <2> QED
    BY <2>2, <2>3
<1>8. ~Posting(r) /\ \A y \in Packets, m \in Encryptors : ~Unposted(r, y, m)
  BY <1>7 DEF Posting, Unposted, NotYetUsing
<1>9. QuietCall(call[k], r)
  BY <1>6, <1>8 DEF QuietCall
<1> QED
  BY <1>1, <1>7, <1>9, OneQuiet, StillOrdered DEF IInv

\* What else the program does with packets.
LEMMA OtherCallsOrdered ==
  ASSUME IInv, Ordered, NEW k \in Callers, NEW p,
         \/ WaitUntilFinished(k) \/ FreePacket(k) \/ PollFinished(k, p) \/ DestroyPacket(k, p)
         \/ DeleteKey(k)
  PROVE  Ordered'
<1>1. ItemsStay /\ UNCHANGED <<used, asked, applied>> /\ exists' \subseteq exists
  BY DEF WaitUntilFinished, FreePacket, PollFinished, DestroyPacket, DeleteKey, ItemsStay, poolVars, itemVars,
         encryptionVars
<1>2. CallsQuiet
  <2>1. CASE WaitUntilFinished(k) \/ FreePacket(k)
    <3>1. PICK r : r = Idle
      OBVIOUS
    <3>2. call' = [call EXCEPT ![k] = r] /\ call[k].at \in {"wait", "free"}
      BY <2>1, <3>1 DEF WaitUntilFinished, FreePacket, At
    <3>3. r.at = "idle"
      BY <3>1, IdleFacts
    <3>4. ~Posting(call[k]) /\ ~Posting(r)
      BY <3>2, <3>3 DEF Posting, NotYetUsing
    <3> QED
      BY <3>2, <3>4, GoneQuiet, OneQuiet DEF IInv
  <2>2. CASE DestroyPacket(k, p)
    <3>1. PICK place \in {"cleanup", "free"}, block \in BOOLEAN :
            call' = [call EXCEPT ![k] = [at |-> place, obj |-> p, n |-> 0, block |-> block]]
      <4>1. PICK place \in {"cleanup", "free"} : place = IF using[p] THEN "cleanup" ELSE "free"
        OBVIOUS
      <4>2. PICK block \in BOOLEAN : block = (p \notin settled)
        OBVIOUS
      <4> QED
        BY <2>2, <4>1, <4>2 DEF DestroyPacket
    <3>2. PICK r : r = [at |-> place, obj |-> p, n |-> 0, block |-> block]
      OBVIOUS
    <3>3. call' = [call EXCEPT ![k] = r] /\ r.at \in {"cleanup", "free"} /\ call[k].at = "idle"
      BY <2>2, <3>1, <3>2 DEF DestroyPacket, At
    <3>4. ~Posting(call[k]) /\ ~Posting(r)
      BY <3>3 DEF Posting, NotYetUsing
    <3> QED
      BY <3>3, <3>4, GoneQuiet, OneQuiet DEF IInv
  <2>3. CASE PollFinished(k, p) \/ DeleteKey(k)
    BY <2>3 DEF PollFinished, DeleteKey, poolVars, CallsQuiet, QuietCall
  <2> QED
    BY <2>1, <2>2, <2>3
<1> QED
  BY <1>1, <1>2, StillOrdered

\* A thread works on its chunks of a packet that exists.
LEMMA EncryptChunksOrdered ==
  ASSUME IInv, Ordered, NEW t \in Threads, EncryptChunks(t), ~fault'
  PROVE  Ordered'
<1>1. SizesKnown /\ CallsAsked /\ QueuesKnown /\ Following /\ QueuesFit
  BY DEF Ordered, QueuesKnown
<1>2. /\ queue[t] # <<>> /\ stage[t] = "get" /\ Item(t).obj \in Packets
      /\ stage' = [stage EXCEPT ![t] = "decide"]
      /\ fault' = (~keyLives \/ Item(t).obj \notin exists)
      /\ UNCHANGED <<queue, dead, last, call, exists, used, asked>>
  BY DEF EncryptChunks, Takes
<1>3. PICK p \in exists : p = Item(t).obj /\ p = queue[t][1].obj /\ p \in Packets
  BY <1>1, <1>2, ItemFacts
<1>4. PICK m \in Encryptors : t = Encryptor(m) /\ t[2] = m
  <2>1. t[1] = "packet"
    BY <1>1, <1>2, <1>3, ItemFacts, ObjectFacts
  <2> QED
    BY <2>1, EncryptorFacts, ThreadFacts
<1>5. PICK arg : arg = Item(t).arg /\ arg = queue[t][1].arg
  BY <1>1, <1>2, ItemFacts
<1>6. ItemsFollow(p, m) /\ ChunksSeen(p, m)
  BY <1>1, <1>3 DEF Following
<1>7. 1 \in ItemsIn(queue[t], p)
  <2>1. IsSeq(queue[t])
    BY <1>1 DEF QueuesFit
  <2>2. Len(queue[t]) \in Nat /\ Len(queue[t]) > 0
    BY <1>2, <2>1, Lengths
  <2> QED
    BY <1>3, <2>2 DEF ItemsIn
<1>8. PICK i \in 1 .. Len(asked[p]) : arg = [op |-> asked[p][i], size |-> used[p], of |-> NumThreads["packet"]]
  <2>1. /\ Ordinal(p, m, 1) \in 1 .. Len(asked[p])
        /\ queue[t][1].arg = [op |-> asked[p][Ordinal(p, m, 1)], size |-> used[p], of |-> NumThreads["packet"]]
    BY <1>4, <1>6, <1>7 DEF ItemsFollow
  <2> QED
    BY <1>5, <2>1
<1>9. arg.op = asked[p][i] /\ arg.size = used[p] /\ arg.of = NumThreads["packet"]
  BY <1>8
<1>10. asked[p] \in Seq(Operations) /\ asked[p] # <<>> /\ arg.op \in Operations
  <2>1. asked[p] \in Seq(Operations)
    BY <1>1, <1>3 DEF SizesKnown
  <2>2. Len(asked[p]) \in Nat /\ Len(asked[p]) # 0
    BY <1>8, <2>1, LenProperties
  <2>3. asked[p] # <<>>
    BY <2>1, <2>2, EmptySeq
  <2> QED
    BY <1>8, <1>9, <2>1, <2>3, ElementOfSeq
<1>11. Share(t[2], arg.of, arg.size \div Chunk) = ChunksOf(p, m)
  <2>1. used[p] = Padded(Sizes[p])
    BY <1>1, <1>3, <1>10 DEF SizesKnown
  <2> QED
    BY <1>4, <1>9, <2>1 DEF Share, ChunksOf, Chunks
<1>12. applied[p] \in [Chunks(p) -> Seq(Operations)] /\ DOMAIN applied[p] = Chunks(p)
  BY <1>1, <1>3 DEF SizesKnown
<1>13. applied' = [applied EXCEPT ![p] =
         [c \in Chunks(p) |-> IF c \in ChunksOf(p, m) THEN Append(applied[p][c], arg.op) ELSE applied[p][c]]]
  <2>1. applied' = [applied EXCEPT ![p] =
          [c \in DOMAIN applied[p] |-> IF c \in Share(t[2], arg.of, arg.size \div Chunk)
                                       THEN Append(applied[p][c], arg.op) ELSE applied[p][c]]]
    BY <1>1, <1>3, <1>5 DEF EncryptChunks, SizesKnown
  <2> QED
    BY <1>11, <1>12, <2>1, ZenonT(20)
<1>14. /\ \A y \in Packets : y # p => applied'[y] = applied[y]
       /\ applied'[p] =
            [c \in Chunks(p) |-> IF c \in ChunksOf(p, m) THEN Append(applied[p][c], arg.op) ELSE applied[p][c]]
       /\ applied' = [y \in Packets |-> applied'[y]]
  <2>1. PICK f : f = [c \in Chunks(p) |->
                        IF c \in ChunksOf(p, m) THEN Append(applied[p][c], arg.op) ELSE applied[p][c]]
    OBVIOUS
  <2>2. applied' = [applied EXCEPT ![p] = f] /\ applied = [y \in Packets |-> applied[y]]
    BY <1>1, <1>13, <2>1, ZenonT(20) DEF SizesKnown
  <2>3. /\ \A y \in Packets : y # p => applied'[y] = applied[y]
        /\ applied'[p] = f /\ applied' = [y \in Packets |-> applied'[y]]
    BY <1>3, <2>2
  <2> QED
    BY <2>1, <2>3, ZenonT(20)
<1>15. /\ \A c \in ChunksOf(p, m) : applied'[p][c] = Append(applied[p][c], arg.op)
       /\ \A n \in Encryptors : n # m => \A c \in ChunksOf(p, n) : applied'[p][c] = applied[p][c]
  BY <1>14 DEF ChunksOf
<1>16. SizesKnown'
  <2>1. applied'[p] \in [Chunks(p) -> Seq(Operations)]
    <3>1. \A c \in Chunks(p) : Append(applied[p][c], arg.op) \in Seq(Operations)
      BY <1>10, <1>12, AppendProperties
    <3> QED
      BY <1>12, <1>14, <3>1
  <2> QED
    BY <1>1, <1>2, <1>14, <2>1 DEF SizesKnown, Padded, Chunks
<1>17. CallsAsked' /\ CallsQuiet
  BY <1>1, <1>2 DEF CallsAsked, PostingFits, Posting, CallsQuiet, QuietCall
<1>18. QueuesKnown'
  <2>1. dead' \subseteq {SoundThread}
    BY <1>1, <1>2 DEF QueuesKnown
  <2> QED
    BY <1>1, <1>2, <2>1, StageKnown
<1>19. stage'[t] = "decide" /\ \A u \in Threads : u # t => stage'[u] = stage[u]
  BY <1>1, <1>2 DEF QueuesFit
<1>20. ASSUME NEW y \in exists, NEW n \in Encryptors
       PROVE  ItemsFollow(y, n)' /\ ChunksSeen(y, n)'
  <2>1. y \in Packets /\ ItemsFollow(y, n) /\ ChunksSeen(y, n)
    BY <1>1 DEF SizesKnown, Following
  <2>2. /\ Owed(y, n)' <=> Owed(y, n)
        /\ asked'[y] = asked[y] /\ used'[y] = used[y] /\ queue'[Encryptor(n)] = queue[Encryptor(n)]
    BY <1>2, <1>17, <2>1, OwedKept
  <2>3. CASE n # m
    <3>1. stage'[Encryptor(n)] = stage[Encryptor(n)]
      BY <1>4, <1>19, <2>3, EncryptorFacts
    <3>2. Handled(y, n)' <=> Handled(y, n)
      BY <2>2, <3>1 DEF Handled
    <3>3. \A c \in ChunksOf(y, n) : applied'[y][c] = applied[y][c]
      BY <1>14, <1>15, <2>1, <2>3
    <3> QED
      BY <2>1, <2>2, <3>2, <3>3, FollowingKept
  <2>4. CASE n = m /\ y = p
    <3>1. /\ ItemsFollow(p, m) /\ ChunksSeen(p, m) /\ asked'[p] = asked[p] /\ used'[p] = used[p]
          /\ queue'[Encryptor(m)] = queue[Encryptor(m)] /\ (Owed(p, m)' <=> Owed(p, m))
      BY <2>1, <2>2, <2>4
    <3>2. /\ queue[Encryptor(m)] # <<>> /\ queue[Encryptor(m)][1].obj = p
          /\ stage[Encryptor(m)] = "get" /\ stage'[Encryptor(m)] = "decide"
      BY <1>2, <1>3, <1>4, <1>19
    <3>3. \A c \in ChunksOf(p, m) : applied'[p][c] = Append(applied[p][c], queue[Encryptor(m)][1].arg.op)
      BY <1>4, <1>5, <1>15
    <3>4. QueuesFit /\ SizesKnown /\ p \in Packets
      BY <1>1, <1>3
    <3>5. ItemsFollow(p, m)' /\ ChunksSeen(p, m)'
      BY <3>1, <3>2, <3>3, <3>4, EncryptedFollows
    <3> QED
      BY <2>4, <3>5
  <2>5. CASE n = m /\ y # p
    <3>1. ~Handled(y, n) /\ ~Handled(y, n)'
      BY <1>2, <1>3, <1>4, <2>5 DEF Handled
    <3>2. \A c \in ChunksOf(y, n) : applied'[y][c] = applied[y][c]
      BY <1>14, <2>1, <2>5
    <3> QED
      BY <2>1, <2>2, <3>1, <3>2, FollowingKept
  <2> QED
    BY <2>3, <2>4, <2>5
<1>21. Following'
  BY <1>2, <1>20 DEF Following, Encryptors
<1> QED
  BY <1>16, <1>17, <1>18, <1>21 DEF Ordered

-----------------------------------------------------------------------------
(***************************************************************************)
(* Together.                                                               *)
(***************************************************************************)
\* Nothing is done after a fault.
LEMMA FaultIsLast ==
  ASSUME UsersNext
  PROVE  ~fault
<1>1. ASSUME NEW k \in Callers, CallerStep(k)
      PROVE  ~fault
  BY <1>1 DEF CallerStep, SetupThreads, CreateThreads, CountUser, CleanupThreads, ReleaseThreads,
              ClearThreads, LeaveThreads, At
<1>2. ASSUME NEW t \in Threads, ThreadDecides(t) \/ EncryptChunks(t)
      PROVE  ~fault
  BY <1>2 DEF ThreadDecides, EncryptChunks, Takes
<1>3. ASSUME NEW k \in Callers, NEW p, NEW op, NEW block,
             \/ BeginOperation(k, p, op, block) \/ PollFinished(k, p) \/ DestroyPacket(k, p) \/ DeleteKey(k)
             \/ PostItem(k) \/ EndLoop(k) \/ WaitUntilFinished(k) \/ FreePacket(k)
      PROVE  ~fault
  BY <1>3 DEF BeginOperation, PollFinished, DestroyPacket, DeleteKey, PostItem, EndLoop,
              WaitUntilFinished, FreePacket, At
<1>4. ASSUME NEW d, NEW s, NEW o, NEW n,
             \/ StartInstance(d, s, o) \/ FinishInstance(d, s, o) \/ StartSound(n)
             \/ UnpauseInput(s, o) \/ PauseInput(s, o) \/ GetInputData(s, o)
             \/ PlayData(s, o, n) \/ SetSmoothValues(s, o, n)
      PROVE  ~fault
  BY <1>4 DEF StartInstance, FinishInstance, StartSound, UnpauseInput, PauseInput, GetInputData,
              PlayData, SetSmoothValues, Commands, At
<1>5. ASSUME NEW o,
             \/ ClearOutput(o) \/ ResetOutput(o) \/ Unlist(o) \/ DecideWhetherToOutput(o) \/ DecideFails(o)
             \/ StopHandingOut(o) \/ ResetInput(o) \/ ResetInputFails(o) \/ InputStopped(o)
             \/ OpenDevice(o) \/ OpenDeviceFails(o) \/ Install(o) \/ FreeInstance(o)
      PROVE  ~fault
  BY <1>5 DEF ClearOutput, ResetOutput, Unlist, DecideWhetherToOutput, DecideFails, StopHandingOut,
              ResetInput, ResetInputFails, InputStopped, OpenDevice, OpenDeviceFails, Install, FreeInstance,
              Deciding, InCall, At
<1>6. ASSUME NEW o, StoreData(o) \/ HandOut(o) \/ BufferDone(o) \/ ReleaseBuffer(o) \/ CallbackFails(o)
      PROVE  ~fault
  BY <1>6 DEF StoreData, HandOut, BufferDone, ReleaseBuffer, CallbackFails, Handling
<1>7. FinishNext => ~fault
  BY DEF FinishNext, At
<1>8. CASE PoolNext
  BY <1>1, <1>2, <1>8 DEF PoolNext
<1>9. CASE EncryptionCalls \/ EncryptionGoesOn
  BY <1>2, <1>3, <1>9 DEF EncryptionCalls, EncryptionGoesOn
<1>10. CASE SoundCalls
  BY <1>4, <1>10 DEF SoundCalls
<1>11. CASE SoundGoesOn
  BY <1>5, <1>6, <1>7, <1>11 DEF SoundGoesOn
<1> QED
  BY <1>8, <1>9, <1>10, <1>11 DEF UsersNext, Proceed

\* In the beginning nothing has been asked.
LEMMA OrderInit == UsersInit => OrderInv
<1> SUFFICES ASSUME Init, EncryptionInit
             PROVE  Ordered
  BY DEF UsersInit, OrderInv
<1>1. /\ queue = [t \in Threads |-> <<>>] /\ stage = [t \in Threads |-> "get"] /\ dead = {}
      /\ last = [o \in Objects |-> [n \in 0 .. NumThreads[ClassOf[o]] - 1 |-> "none"]]
      /\ call = [k \in Callers |-> Idle]
      /\ exists = Packets \intersect scene /\ used = Sizes
      /\ applied = [p \in Packets |-> [c \in Chunks(p) |-> <<>>]]
      /\ asked = [p \in Packets |-> <<>>]
  BY DEF Init, EncryptionInit
<1>2. \A t \in Threads : queue[t] = <<>> /\ stage[t] = "get" /\ \A o : ItemsIn(queue[t], o) = {}
  <2>1. \A o : ItemsIn(<<>>, o) = {}
    BY EmptyIsSeq, ItemsFinite
  <2> QED
    BY <1>1, <2>1
<1>3. <<>> \in Seq(Operations) /\ Len(<<>>) = 0
  BY EmptySeq
<1>4. SizesKnown
  BY <1>1, <1>3, EncryptionAssumption DEF SizesKnown
<1>5. \A k \in Callers : call[k].at = "idle" /\ call[k].obj = None
  BY <1>1, IdleFacts
<1>6. CallsAsked
  BY <1>5 DEF CallsAsked, PostingFits, Posting, NotYetUsing
<1>7. QueuesKnown
  <2>1. QueuesFit
    BY <1>1, <1>2, EmptyIsSeq DEF QueuesFit
  <2>2. ASSUME NEW o \in Objects
        PROVE  /\ DOMAIN last[o] = 0 .. NumThreads[ClassOf[o]] - 1
               /\ \A n \in DOMAIN last[o] : ItemsIn(queue[<<ClassOf[o], n>>], o) = {}
    BY <1>1, <1>2, ThreadFacts, ObjectFacts
  <2>3. LastCovers
    BY <1>1, <2>2 DEF LastCovers
  <2> QED
    BY <1>1, <2>1, <2>3 DEF QueuesKnown
<1>8. ASSUME NEW p \in exists, NEW n \in Encryptors
      PROVE  ItemsFollow(p, n) /\ ChunksSeen(p, n)
  <2>1. p \in Packets /\ Encryptor(n) \in Threads
    BY <1>1, EncryptorFacts
  <2>2. /\ ItemsIn(queue[Encryptor(n)], p) = {} /\ Cardinality(ItemsIn(queue[Encryptor(n)], p)) = 0
        /\ ~Handled(p, n) /\ ~Owed(p, n) /\ Len(asked[p]) = 0
    BY <1>1, <1>2, <1>3, <1>5, <2>1, FS_EmptySet DEF Handled, Owed, Unposted, NotYetUsing
  <2>3. Seen(p, n) = 0
    BY <2>2 DEF Seen, Assigned
  <2>4. \A c \in ChunksOf(p, n) : applied[p][c] = <<>>
    BY <1>1, <2>1 DEF ChunksOf
  <2>5. ChunksSeen(p, n)
    BY <1>3, <2>3, <2>4 DEF ChunksSeen
  <2> QED
    BY <2>2, <2>5 DEF ItemsFollow
<1>9. Following
  BY <1>8 DEF Following
<1> QED
  BY <1>4, <1>6, <1>7, <1>9 DEF Ordered

\* Every step keeps it.
LEMMA OrderNext ==
  ASSUME IInv, OrderInv, fails \in Nat, keyLives => ~careless, [UsersNext]_userVars
  PROVE  OrderInv'
<1> SUFFICES ASSUME ~fault', ~overlapped'
             PROVE  Ordered'
  BY DEF OrderInv
<1>1. ~overlapped
  BY Calmer
<1>2. CASE UNCHANGED userVars
  <2>1. ItemsStay /\ UNCHANGED <<call, fault, exists, used, asked, applied>>
    BY <1>2 DEF userVars, poolVars, itemVars, historyVars, encryptionVars, ItemsStay
  <2>2. Ordered
    BY <1>1, <2>1 DEF OrderInv
  <2>3. CallsQuiet
    BY <2>1 DEF CallsQuiet, QuietCall
  <2> QED
    BY <2>1, <2>2, <2>3, StillOrdered
<1>3. CASE UsersNext
  <2>1. Ordered
    BY <1>1, <1>3, FaultIsLast DEF OrderInv
  <2>2. CASE PoolNext /\ UNCHANGED <<encryptionVars, soundVars>>
    BY <2>1, <2>2, CallerStepOrdered, DecidesOrdered DEF PoolNext
  <2>3. CASE EncryptionCalls
    BY <2>1, <2>3, BeginOperationOrdered, OtherCallsOrdered DEF EncryptionCalls
  <2>4. CASE EncryptionGoesOn
    BY <1>1, <2>1, <2>4, PostItemOrdered, EndLoopOrdered, OtherCallsOrdered, EncryptChunksOrdered
    DEF EncryptionGoesOn
  <2>5. CASE (SoundCalls \/ SoundGoesOn) /\ UNCHANGED encryptionVars
    <3>1. CallsApart /\ QueuesKnown' /\ EncryptorsStay
      BY <2>1, <2>5, SoundGoesOnApart DEF Ordered
    <3>2. UNCHANGED <<used, asked, applied, exists>>
      BY <2>5 DEF encryptionVars
    <3> QED
      BY <2>1, <3>1, <3>2, ApartQuiet, QuietOrdered
  <2> QED
    BY <1>3, <2>2, <2>3, <2>4, <2>5 DEF UsersNext, Proceed
<1> QED
  BY <1>2, <1>3

\* What every chunk has seen, what is in the queues of the threads and what is still to
\* be posted are together the operations asked of the packet, in order: however many
\* packets, threads, chunks and threads of the program there are, whatever sound does, and
\* whether a device fails, as long as no setup runs beside a cleanup (Packet.cpp:711,
\* ThreadMessageItemEncrypt.cpp:38).
THEOREM OrderInvariant == UsersSpec => []OrderInv
<1>1. UsersInit => OrderInv
  BY OrderInit
<1>2. IInv /\ FInv /\ OrderInv /\ [UsersNext]_userVars => OrderInv'
  BY OrderNext DEF FInv
<1> QED
  BY <1>1, <1>2, UsersInvariant, FinishingInvariant, PTL DEF UsersSpec

\* A packet that is not in use and says that it has finished is in no queue, and owes
\* nothing.
LEMMA AllSeen ==
  ASSUME Ordered, NEW p \in exists, NEW n \in Encryptors, Unused(p), Finished(p)
  PROVE  Seen(p, n) = Len(asked[p])
<1>1. /\ p \in Packets /\ p \in Objects /\ ClassOf[p] = "packet" /\ asked[p] \in Seq(Operations)
      /\ QueuesKnown /\ QueuesFit
  BY ObjectFacts DEF Ordered, SizesKnown, QueuesKnown
<1>2. ~Owed(p, n)
  BY DEF Unused, Owed, Unposted
<1>3. ItemsIn(queue[Encryptor(n)], p) = {}
  <2>1. n \in DOMAIN last[p] /\ <<ClassOf[p], n>> = Encryptor(n)
    BY <1>1 DEF QueuesKnown, LastCovers, Encryptors, Encryptor
  <2>2. last[p][n] # "thread"
    BY <2>1 DEF Finished
  <2> QED
    BY <1>1, <2>1, <2>2 DEF QueuesKnown, LastCovers
<1>4. ~Handled(p, n)
  BY <1>1, <1>3, OrderTypes DEF Ordered
<1>5. Len(asked[p]) \in Nat /\ Cardinality(ItemsIn(queue[Encryptor(n)], p)) = 0
  BY <1>1, <1>3, LenProperties, FS_EmptySet
<1> QED
  BY <1>2, <1>4, <1>5 DEF Seen, Assigned

\* A sequence that agrees with a longer one is its beginning.
LEMMA PrefixOf ==
  ASSUME NEW S, NEW r \in Seq(S), NEW s \in Seq(S), Len(r) <= Len(s),
         \A j \in 1 .. Len(r) : r[j] = s[j]
  PROVE  IsPrefix(r, s)
<1>1. PICK m \in Nat : m = Len(r)
  BY LenProperties
<1>2. m <= Len(s) /\ Len(s) \in Nat
  BY <1>1, LenProperties
<1>3. \A i \in 1 .. m : i \in 1 .. Len(s) /\ s[i] \in S /\ r[i] = s[i]
  BY <1>1, <1>2, ElementOfSeq
<1>4. /\ SubSeq(s, 1, m) \in Seq(S) /\ Len(SubSeq(s, 1, m)) = m
      /\ \A i \in 1 .. m : SubSeq(s, 1, m)[i] = s[i]
  <2>1. \A i \in 1 .. m : s[i] \in S
    BY <1>3
  <2>2. /\ SubSeq(s, 1, m) \in Seq(S) /\ Len(SubSeq(s, 1, m)) = IF 1 <= m THEN m - 1 + 1 ELSE 0
        /\ \A i \in 1 .. m - 1 + 1 : SubSeq(s, 1, m)[i] = s[1 + i - 1]
    BY <2>1, SubSeqProperties
  <2> QED
    BY <2>2
<1>5. SubSeq(s, 1, m) = r
  BY <1>1, <1>3, <1>4, SeqEqual
<1>6. SubSeq(r, 1, m) = r
  BY <1>1, SubSeqFull
<1> QED
  BY <1>1, <1>2, <1>5, <1>6 DEF IsPrefix

\* Every chunk of a packet sees the operations in the order they were asked for, and all of
\* them once the packet says that it has finished.
THEOREM ChunksFollowHolds == UsersSpec => []ChunksFollow
<1>1. OrderInv => ChunksFollow
  <2> SUFFICES ASSUME Ordered, NEW p \in exists, NEW c \in 0 .. (Padded(used[p]) \div Chunk) - 1
               PROVE  /\ IsPrefix(applied[p][c], asked[p])
                      /\ Unused(p) /\ Finished(p) => applied[p][c] = asked[p]
    BY DEF OrderInv, ChunksFollow
  <2>1. SizesKnown /\ p \in Packets /\ Following /\ QueuesFit
    BY DEF Ordered, SizesKnown, QueuesKnown
  <2>2. c \in Chunks(p)
    <3>1. used[p] \in {Sizes[p], Padded(Sizes[p])} /\ Sizes[p] \in Nat
      BY <2>1, EncryptionAssumption DEF SizesKnown
    <3>2. Padded(used[p]) = Padded(Sizes[p])
      BY <3>1, FilledUp
    <3> QED
      BY <3>2 DEF Chunks
  <2>3. PICK n \in Encryptors : c \in ChunksOf(p, n)
    BY <2>1, <2>2, ChunkFacts
  <2>4. PICK s \in Seq(Operations) : s = asked[p]
    BY <2>1 DEF SizesKnown
  <2>5. PICK r \in Seq(Operations) : r = applied[p][c]
    BY <2>1, <2>2 DEF SizesKnown
  <2>6. Len(r) \in Nat /\ Len(s) \in Nat
    BY LenProperties
  <2>7. Len(r) = Seen(p, n) /\ \A j \in 1 .. Len(r) : r[j] = s[j]
    BY <2>1, <2>3, <2>4, <2>5 DEF Following, ChunksSeen
  <2>8. Len(r) <= Len(s)
    BY <2>1, <2>4, <2>7, OrderTypes
  <2>9. IsPrefix(r, s)
    BY <2>7, <2>8, PrefixOf
  <2>10. ASSUME Unused(p), Finished(p)
         PROVE  r = s
    <3>1. Len(r) = Len(s)
      BY <2>4, <2>7, <2>10, AllSeen
    <3> QED
      BY <2>7, <3>1, SeqEqual
  <2> QED
    BY <2>4, <2>5, <2>9, <2>10
<1> QED
  BY <1>1, OrderInvariant, PTL
================================================================================
