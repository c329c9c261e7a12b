--------------------------------- MODULE Sound ---------------------------------
(***************************************************************************)
(* Sound instances (SoundInstanceInput, SoundInstanceOutput), the slots    *)
(* of SoundUtility they are kept in, and the commands of mnSound.cpp that  *)
(* start, use and finish them.                                             *)
(*                                                                         *)
(* An input instance hands its buffers to the device; the device gives     *)
(* each back, filled or not, in a callback that posts it to the sound      *)
(* callback thread, which stores the data and hands the buffer out again   *)
(* unless input is paused.  An output instance stores packets until its    *)
(* manager thread, shared by all of them, decides to play them; the device *)
(* gives played buffers back in the same way.  bufferInUseCount is what    *)
(* the destructors wait for.                                               *)
(*                                                                         *)
(* One thread of the program, Main, uses sound.  It unpauses only what is  *)
(* paused.  Data are numbered in the order the device records them or the  *)
(* program plays them; a packet is MaxPacket bytes at most.  A call of the *)
(* device may fail.  A callback and the post in it are one step, since the *)
(* device keeps the order of callbacks.                                    *)
(***************************************************************************)
EXTENDS SharedThreads, SequencesExt

CONSTANTS
  Inputs, Outputs,  \* the objects that are sound instances
  Main,             \* the caller that uses sound
  Slots,            \* instance IDs the program uses
  NumBuffers,       \* buffers of an input instance
  PacketSizes,      \* sizes of packets the program plays
  Caps,             \* values of outputDataTotalBytesCap
  MaxData,          \* bound: [Instances -> pieces of data it records or plays]
  MaxPauses,        \* bound: times that input is unpaused
  MaxFails          \* bound: calls of the device that fail

Instances == Inputs \union Outputs

ASSUME SoundAssumption ==
  /\ Instances = {o \in Objects : ClassOf[o] = "sound"}
  /\ Inputs \intersect Outputs = {}
  /\ Main \in Callers
  /\ NumThreads["sound"] = 1 /\ NumBuffers \in Nat
  /\ Slots \subseteq Nat /\ None \notin Slots /\ None \notin {"in", "out"}

SoundThread == <<"sound", 0>>

VARIABLES
  loaded,      \* [{"in", "out"} -> IDs that StartSound made slots for]
  slot,        \* [{"in", "out"} -> [Slots -> instance or None]]
  instance,    \* [Instances -> "absent", "unused", "live", "closing" or "deleted"]
  target,      \* what Main's call is for besides its object
  device,      \* [Instances -> buffers the device has, in order]
  recording,   \* inputs whose device was started
  resetting,   \* instances whose device gives all its buffers back
  inUse,       \* bufferInUseCount
  lock,        \* [Instances -> whether the section of unpaused, or outputData, is taken]
  unpaused,    \* [Inputs -> BOOLEAN]
  retrieved,   \* [Inputs -> data stored for the program]
  output,      \* [Outputs -> packets stored: outputData]
  total,       \* outputDataTotalBytes
  cap,         \* outputDataTotalBytesCap
  listed,      \* instanceOutputList
  manager,     \* the manager thread: "none", "runs" or "dead"
  done,        \* history: [Instances -> data the program got, or the device played]
  count,       \* history: [Instances -> data recorded, or given to be played]
  pauses,      \* counter for the bound MaxPauses
  fails        \* calls of the device that failed, bounded by MaxFails

slotVars == <<loaded, slot, instance, target>>
bufferVars == <<device, recording, resetting, inUse>>
inputVars == <<unpaused, retrieved, pauses>>
outputVars == <<output, total, cap, listed, manager>>
dataVars == <<done, count>>
soundVars == <<slotVars, bufferVars, lock, inputVars, outputVars, dataVars, fails>>
sharedVars == <<usage, pool, itemVars, using, lockVars, historyVars>>

Kinds == {"in", "out"}
NoTarget == [id |-> None, kind |-> None, new |-> None, all |-> FALSE]

SoundInit ==
  /\ loaded = [d \in Kinds |-> {}] /\ slot = [d \in Kinds |-> [s \in Slots |-> None]]
  /\ instance = [o \in Instances |-> IF o \in scene THEN "unused" ELSE "absent"]
  /\ target = NoTarget
  /\ device = [o \in Instances |-> <<>>] /\ recording = {} /\ resetting = {}
  /\ inUse = [o \in Instances |-> 0] /\ lock = [o \in Instances |-> "free"]
  /\ unpaused = [o \in Inputs |-> FALSE] /\ retrieved = [o \in Inputs |-> <<>>] /\ pauses = 0
  /\ output = [o \in Outputs |-> <<>>] /\ total = [o \in Outputs |-> 0]
  /\ cap = [o \in Outputs |-> Min(Caps)] /\ listed = {} /\ manager = "none"
  /\ done = [o \in Instances |-> <<>>] /\ count = [o \in Instances |-> 0]
  /\ fails = 0

OfKind(d) == IF d = "in" THEN Inputs ELSE Outputs
Fails == fails < MaxFails /\ fails' = fails + 1
Works == fails' = fails

\* Main is in a call about the sound instance o.
InCall(place, o) == At(Main, place) /\ o = call[Main].obj /\ o \in Instances

\* Main is between calls, and the slot id holds o (GetInputInstance, GetOutputInstance).
Commands(d, id, o) == At(Main, "idle") /\ id \in loaded[d] /\ o = slot[d][id] /\ o # None

(***************************************************************************)
(* Starting and finishing.                                                 *)
(***************************************************************************)
\* mnSound::StartInput and StartOutput: the constructor of the instance begins with
\* that of SoundInstance, which sets the callback thread up.
StartInstance(d, id, o) ==
  /\ At(Main, "idle") /\ o \in OfKind(d) /\ instance[o] = "unused"
  /\ instance' = [instance EXCEPT ![o] = "live"]
  /\ target' = [NoTarget EXCEPT !.id = id, !.kind = d, !.new = o]
  /\ call' = [call EXCEPT ![Main] = [Idle EXCEPT !.at = "setup", !.obj = o]]
  /\ UNCHANGED <<sharedVars, loaded, slot, bufferVars, lock, inputVars, outputVars, dataVars, fails>>

\* The rest of the constructor.  The manager thread comes with the first output.
OpenDevice(o) ==
  /\ InCall("ready", o) /\ Works
  /\ Goto(Main, "install")
  /\ IF o \in Outputs
     THEN /\ listed' = listed \union {o}
          /\ manager' = IF listed = {} THEN "runs" ELSE manager
     ELSE UNCHANGED <<listed, manager>>
  /\ UNCHANGED <<sharedVars, slotVars, bufferVars, lock, inputVars, output, total, cap, dataVars>>

\* The constructor throws: only the base class is destroyed, and no slot changes.
OpenDeviceFails(o) ==
  /\ InCall("ready", o) /\ Fails
  /\ Goto(Main, "cleanup")
  /\ instance' = [instance EXCEPT ![o] = "closing"]
  /\ target' = NoTarget
  /\ UNCHANGED <<sharedVars, loaded, slot, bufferVars, lock, inputVars, outputVars, dataVars>>

\* delete of an instance, or of what may be NULL.
Destroy(o) ==
  /\ call' = [call EXCEPT ![Main] = [Idle EXCEPT !.at = "destroy", !.obj = o]]
  /\ instance' = [instance EXCEPT ![o] = "closing"]

\* AddInputInstance and AddOutputInstance.  An ID without a slot throws, and nobody
\* deletes the instance.  The instance that is in the slot is deleted first.
Install(o) ==
  LET old == slot[target.kind][target.id]
      valid == target.id \in loaded[target.kind]
  IN
  /\ InCall("install", o)
  /\ IF valid /\ old # None
     THEN /\ Destroy(old)
          /\ UNCHANGED <<slot, target>>
     ELSE /\ call' = [call EXCEPT ![Main] = Idle]
          /\ slot' = IF valid THEN [slot EXCEPT ![target.kind][target.id] = o] ELSE slot
          /\ target' = NoTarget
          /\ UNCHANGED instance
  /\ UNCHANGED <<sharedVars, loaded, bufferVars, lock, inputVars, outputVars, dataVars, fails>>

\* mnSound::FinishInput and FinishOutput.
FinishInstance(d, id, o) ==
  /\ Commands(d, id, o)
  /\ Destroy(o)
  /\ target' = [NoTarget EXCEPT !.id = id, !.kind = d]
  /\ UNCHANGED <<sharedVars, loaded, slot, bufferVars, lock, inputVars, outputVars, dataVars, fails>>

\* mnSound::StartSound, with new sizes, and FinishSound, with the old ones, begin alike.
StartSound(ids) ==
  /\ At(Main, "idle")
  /\ ids = loaded \/ loaded = [d \in Kinds |-> {}]
  /\ \E d \in Kinds, id \in Slots : slot[d][id] # None \/ ids # loaded
  /\ loaded' = ids
  /\ target' = [NoTarget EXCEPT !.all = TRUE]
  /\ call' = [call EXCEPT ![Main] = [Idle EXCEPT !.at = "finish"]]
  /\ UNCHANGED <<sharedVars, slot, instance, bufferVars, lock, inputVars, outputVars, dataVars, fails>>

\* SoundUtility::Finish deletes the inputs, then the outputs.
Full(d) == {id \in Slots : slot[d][id] # None}

FinishNext ==
  /\ At(Main, "finish")
  /\ \/ /\ Full("in") = {} /\ Full("out") = {}
        /\ call' = [call EXCEPT ![Main] = Idle]
        /\ target' = NoTarget
        /\ UNCHANGED instance
     \/ \E d \in Kinds, id \in Slots :
          /\ id \in Full(d) /\ \A other \in Full(d) : id <= other
          /\ d = "out" => Full("in") = {}
          /\ Destroy(slot[d][id])
          /\ target' = [target EXCEPT !.id = id, !.kind = d]
  /\ UNCHANGED <<sharedVars, loaded, slot, bufferVars, lock, inputVars, outputVars, dataVars, fails>>

\* After the destructors: the slot gets the new instance, or NULL.
FreeInstance(o) ==
  /\ InCall("free", o)
  /\ instance' = [instance EXCEPT ![o] = "deleted"]
  /\ slot' = IF target.kind = None THEN slot ELSE [slot EXCEPT ![target.kind][target.id] = target.new]
  /\ target' = IF target.all THEN [NoTarget EXCEPT !.all = TRUE] ELSE NoTarget
  /\ call' = [call EXCEPT ![Main] = IF target.all THEN [Idle EXCEPT !.at = "finish"] ELSE Idle]
  /\ UNCHANGED <<sharedVars, loaded, bufferVars, lock, inputVars, outputVars, dataVars, fails>>

\* The destructor of the base class, which the derived ones end in, whatever happens.
EndDestructor(o) ==
  call' = [call EXCEPT ![Main].at = "cleanup", ![Main].block = ~Finished(o)]

(***************************************************************************)
(* Input.                                                                  *)
(***************************************************************************)
Count(o, n) == inUse' = [inUse EXCEPT ![o] = @ + n]
Give(o, n)  == /\ device' = [device EXCEPT ![o] = @ \o [b \in 1 .. n |-> 0]]
               /\ unpaused' = [unpaused EXCEPT ![o] = TRUE]

\* UnpauseInput: every buffer is counted and given to the device, which is then started.
\* What was counted stays counted if the device fails.
UnpauseInput(id, o) ==
  /\ Commands("in", id, o) /\ lock[o] \in {"free", "lost"}
  /\ ~unpaused[o] /\ pauses < MaxPauses
  /\ pauses' = pauses + 1
  /\ \/ Works /\ Give(o, NumBuffers) /\ Count(o, NumBuffers) /\ recording' = recording \union {o}
     \/ /\ Fails /\ UNCHANGED recording
        /\ \/ Give(o, NumBuffers) /\ Count(o, NumBuffers)
           \/ \E n \in 1 .. NumBuffers : Give(o, n - 1) /\ Count(o, n)
  /\ UNCHANGED <<poolVars, slotVars, resetting, lock, retrieved, outputVars, dataVars>>

PauseInput(id, o) ==
  /\ Commands("in", id, o) /\ unpaused[o]
  /\ call' = [call EXCEPT ![Main] = [Idle EXCEPT !.at = "destroy", !.obj = o]]
  /\ UNCHANGED <<sharedVars, soundVars>>

\* PauseInput and ~SoundInstanceInput, which calls it: no buffer is handed out after
\* this.
StopHandingOut(o) ==
  /\ InCall("destroy", o) /\ o \in Inputs /\ lock[o] \in {"free", "lost"}
  /\ lock' = [lock EXCEPT ![o] = IF @ = "free" THEN "main" ELSE @]
  /\ unpaused' = [unpaused EXCEPT ![o] = FALSE]
  /\ Goto(Main, "reset")
  /\ UNCHANGED <<sharedVars, slotVars, bufferVars, retrieved, pauses, outputVars, dataVars, fails>>

GivesAll(o) ==
  /\ resetting' = IF device[o] = <<>> THEN resetting ELSE resetting \union {o}
  /\ recording' = recording \ {o}

\* waveInReset and waveInStop.
ResetInput(o) ==
  /\ InCall("reset", o) /\ o \in Inputs /\ Works
  /\ GivesAll(o)
  /\ lock' = [lock EXCEPT ![o] = IF @ = "main" THEN "free" ELSE @]
  /\ Goto(Main, "waitBuffers")
  /\ UNCHANGED <<sharedVars, slotVars, device, inUse, inputVars, outputVars, dataVars>>

\* The exception leaves PauseInput inside the section; a destructor goes on without it.
ResetInputFails(o) ==
  /\ InCall("reset", o) /\ o \in Inputs /\ Fails
  /\ GivesAll(o) \/ UNCHANGED <<resetting, recording>>
  /\ lock' = [lock EXCEPT ![o] = "lost"]
  /\ IF instance[o] = "closing" THEN EndDestructor(o) ELSE call' = [call EXCEPT ![Main] = Idle]
  /\ UNCHANGED <<sharedVars, slotVars, device, inUse, inputVars, outputVars, dataVars>>

NoBuffersInUse(o) == inUse[o] = 0

InputStopped(o) ==
  /\ InCall("waitBuffers", o) /\ o \in Inputs /\ NoBuffersInUse(o)
  /\ IF instance[o] = "closing" THEN EndDestructor(o) ELSE call' = [call EXCEPT ![Main] = Idle]
  /\ UNCHANGED <<sharedVars, soundVars>>

\* mnSound::GetInputData, when there are data.
GetInputData(id, o) ==
  /\ Commands("in", id, o) /\ retrieved[o] # <<>>
  /\ done' = [done EXCEPT ![o] = Append(@, Head(retrieved[o]))]
  /\ retrieved' = [retrieved EXCEPT ![o] = Tail(@)]
  /\ UNCHANGED <<poolVars, slotVars, bufferVars, lock, unpaused, pauses, outputVars, count, fails>>

(***************************************************************************)
(* Output.                                                                 *)
(***************************************************************************)
\* mnSound::PlayData: QueuePacket.
PlayData(id, o, size) ==
  /\ Commands("out", id, o) /\ lock[o] = "free" /\ count[o] < MaxData[o]
  /\ count' = [count EXCEPT ![o] = @ + 1]
  /\ output' = [output EXCEPT ![o] = Append(@, [data |-> count'[o], size |-> size])]
  /\ total' = [total EXCEPT ![o] = @ + size]
  /\ UNCHANGED <<poolVars, slotVars, bufferVars, lock, inputVars, cap, listed, manager, done, fails>>

\* mnSound::SetOutputSmoothValues.
SetSmoothValues(id, o, bytes) ==
  /\ Commands("out", id, o) /\ lock[o] = "free" /\ cap[o] # bytes
  /\ cap' = [cap EXCEPT ![o] = bytes]
  /\ UNCHANGED <<poolVars, slotVars, bufferVars, lock, inputVars, output, total, listed, manager,
                 dataVars, fails>>

Bytes(packets) == FoldSeq(LAMBDA packet, sum : packet.size + sum, 0, packets)
Data(packets)  == [i \in DOMAIN packets |-> packets[i].data]

\* Packets that DecideWhetherToOutput takes from the store: over the cap as many as
\* bring the total down to it, else all of them if nothing was added for a while.
ToPlay(o) ==
  LET enough == {n \in 1 .. Len(output[o]) : total[o] - Bytes(SubSeq(output[o], 1, n)) <= cap[o]}
  IN  IF total[o] > cap[o]
      THEN {n \in enough : \A m \in enough : n <= m}
      ELSE {Len(output[o])}

\* Mutated form of Dequeue: outputDataTotalBytes is not brought up to date.
DequeueUncounted(o, n) ==
  /\ output' = [output EXCEPT ![o] = SubSeq(@, n + 1, Len(@))]
  /\ inUse' = [inUse EXCEPT ![o] = @ + n]
  /\ UNCHANGED total

\* DequeuePacket, n times.
Dequeue(o, n) ==
  /\ output' = [output EXCEPT ![o] = SubSeq(@, n + 1, Len(@))]
  /\ inUse' = [inUse EXCEPT ![o] = @ + n]
  /\ total' = [total EXCEPT ![o] = @ - Bytes(SubSeq(output[o], 1, n))]

Deciding(o) == ~fault /\ manager = "runs" /\ o \in listed /\ lock[o] = "free" /\ output[o] # <<>>

\* The manager thread's pass over an instance.
DecideWhetherToOutput(o) ==
  /\ Deciding(o) /\ Works
  /\ \E n \in ToPlay(o) :
       /\ Dequeue(o, n)
       /\ device' = [device EXCEPT ![o] = @ \o Data(SubSeq(output[o], 1, n))]
  /\ UNCHANGED <<poolVars, slotVars, recording, resetting, lock, inputVars, cap, listed, manager, dataVars>>

\* The device does not take a packet: the thread ends inside the section of outputData.
DecideFails(o) ==
  /\ Deciding(o) /\ Fails
  /\ \E most \in ToPlay(o) : \E n \in 1 .. most :
       /\ Dequeue(o, n)
       /\ device' = [device EXCEPT ![o] = @ \o Data(SubSeq(output[o], 1, n - 1))]
  /\ lock' = [lock EXCEPT ![o] = "lost"]
  /\ manager' = "dead"
  /\ UNCHANGED <<poolVars, slotVars, recording, resetting, inputVars, cap, listed, dataVars>>

\* ~SoundInstanceOutput: what is stored is dropped, but not its total.
ClearOutput(o) ==
  /\ InCall("destroy", o) /\ o \in Outputs /\ lock[o] = "free"
  /\ output' = [output EXCEPT ![o] = <<>>]
  /\ Goto(Main, "reset")
  /\ UNCHANGED <<sharedVars, slotVars, bufferVars, lock, inputVars, total, cap, listed, manager,
                 dataVars, fails>>

\* waveOutReset.  If it fails the instance stays in the list.
ResetOutput(o) ==
  /\ InCall("reset", o) /\ o \in Outputs
  /\ \/ Works /\ GivesAll(o) /\ Goto(Main, "waitBuffers")
     \/ Fails /\ UNCHANGED <<resetting, recording>> /\ EndDestructor(o)
  /\ UNCHANGED <<sharedVars, slotVars, device, inUse, lock, inputVars, outputVars, dataVars>>

\* The last output takes the manager thread with it.
Unlist(o) ==
  /\ InCall("waitBuffers", o) /\ o \in Outputs /\ NoBuffersInUse(o)
  /\ listed' = listed \ {o}
  /\ manager' = IF listed' = {} THEN "none" ELSE manager
  /\ EndDestructor(o)
  /\ UNCHANGED <<sharedVars, slotVars, bufferVars, lock, inputVars, output, total, cap, dataVars, fails>>

(***************************************************************************)
(* The device and the callback thread.                                     *)
(***************************************************************************)
\* A buffer is done: recorded into, played, or given back by a reset, perhaps with what
\* was recorded so far, and waveInProc or waveOutProc posts it.
BufferDone(o) ==
  \E data \in {0, count[o] + 1} :
  LET reset == o \in resetting
  IN
  /\ ~fault /\ device[o] # <<>>
  /\ data # 0 => o \in Inputs /\ count[o] < MaxData[o]
  /\ o \in Inputs /\ ~reset => o \in recording /\ data # 0
  /\ PostMessageItem(o, 0, data)
  /\ device' = [device EXCEPT ![o] = Tail(@)]
  /\ resetting' = IF Len(device[o]) = 1 THEN resetting \ {o} ELSE resetting
  /\ count' = IF data = 0 THEN count ELSE [count EXCEPT ![o] = data]
  /\ done' = IF o \in Outputs /\ ~reset THEN [done EXCEPT ![o] = Append(@, Head(device[o]))] ELSE done
  /\ fault' = (instance[o] = "deleted")
  /\ UNCHANGED <<usage, pool, stage, dead, using, lockVars, call, overlapped, rash,
                 slotVars, recording, inUse, lock, inputVars, outputVars, fails>>

\* The callback thread works on the item of o, of which it may find nothing left.
Handling(place, o) ==
  /\ ~fault /\ SoundThread \notin dead /\ queue[SoundThread] # <<>> /\ o = Item(SoundThread).obj
  /\ stage[SoundThread] = place
  /\ fault' = (instance[o] = "deleted")
GotoStage(place) == stage' = [stage EXCEPT ![SoundThread] = place]
handlingUnchanged == <<usage, pool, queue, last, using, lockVars, call, overlapped, rash>>

\* SoundInstanceInput::DealWithData up to the section of unpaused.
StoreData(o) ==
  /\ o \in Inputs /\ Handling("get", o) /\ Works
  /\ LET data == Item(SoundThread).arg
     IN  retrieved' = IF data = 0 THEN retrieved ELSE [retrieved EXCEPT ![o] = Append(@, data)]
  /\ GotoStage("handOut")
  /\ UNCHANGED <<handlingUnchanged, dead, slotVars, bufferVars, lock, unpaused, pauses, outputVars, dataVars>>

\* Mutated form of HandOut: whether input is paused is not looked at.
HandOutAlways(o) ==
  /\ o \in Inputs /\ Handling("handOut", o) /\ lock[o] = "free" /\ Works
  /\ device' = [device EXCEPT ![o] = Append(@, 0)]
  /\ inUse' = [inUse EXCEPT ![o] = @ + 1]
  /\ GotoStage("release")
  /\ UNCHANGED <<handlingUnchanged, dead, slotVars, recording, resetting, lock, inputVars, outputVars, dataVars>>

\* The buffer is counted again before it stops being counted.
HandOut(o) ==
  /\ o \in Inputs /\ Handling("handOut", o) /\ lock[o] = "free" /\ Works
  /\ IF unpaused[o]
     THEN /\ device' = [device EXCEPT ![o] = Append(@, 0)]
          /\ inUse' = [inUse EXCEPT ![o] = @ + 1]
     ELSE UNCHANGED <<device, inUse>>
  /\ GotoStage("release")
  /\ UNCHANGED <<handlingUnchanged, dead, slotVars, recording, resetting, lock, inputVars, outputVars, dataVars>>

\* SoundInstanceOutput::DealWithData, and the end of SoundInstanceInput's.
ReleaseBuffer(o) ==
  /\ IF o \in Inputs THEN Handling("release", o) ELSE Handling("get", o)
  /\ Works
  /\ inUse' = [inUse EXCEPT ![o] = @ - 1]
  /\ GotoStage("decide")
  /\ UNCHANGED <<handlingUnchanged, dead, slotVars, device, recording, resetting, lock, inputVars,
                 outputVars, dataVars>>

\* The buffer cannot be unprepared, or not be given to the device again, which ends the
\* thread inside the section of unpaused.
CallbackFails(o) ==
  /\ Fails
  /\ \/ Handling("get", o) /\ UNCHANGED <<inUse, lock>>
     \/ /\ o \in Inputs /\ Handling("handOut", o) /\ lock[o] = "free" /\ unpaused[o]
        /\ inUse' = [inUse EXCEPT ![o] = @ + 1]
        /\ lock' = [lock EXCEPT ![o] = "dead"]
  /\ dead' = dead \union {SoundThread}
  /\ UNCHANGED <<handlingUnchanged, stage, slotVars, device, recording, resetting, inputVars,
                 outputVars, dataVars>>

SoundCalls ==
  \/ \E d \in Kinds, id \in Slots, o \in Instances :
       StartInstance(d, id, o) \/ FinishInstance(d, id, o)
  \/ \E ids \in [Kinds -> {Slots, {}}] : StartSound(ids)
  \/ \E id \in Slots, o \in Inputs : UnpauseInput(id, o) \/ PauseInput(id, o) \/ GetInputData(id, o)
  \/ \E id \in Slots, o \in Outputs :
       \/ \E size \in PacketSizes : PlayData(id, o, size)
       \/ \E bytes \in Caps : SetSmoothValues(id, o, bytes)

SoundGoesOn ==
  \/ FinishNext
  \/ \E o \in Outputs :
       \/ ClearOutput(o) \/ ResetOutput(o) \/ Unlist(o)
       \/ DecideWhetherToOutput(o) \/ DecideFails(o)
  \/ \E o \in Inputs :
       \/ StopHandingOut(o) \/ ResetInput(o) \/ ResetInputFails(o) \/ InputStopped(o)
       \/ StoreData(o) \/ HandOut(o)
  \/ \E o \in Instances :
       \/ OpenDevice(o) \/ OpenDeviceFails(o) \/ Install(o) \/ FreeInstance(o)
       \/ BufferDone(o) \/ ReleaseBuffer(o) \/ CallbackFails(o)

(***************************************************************************)
(* Properties.                                                             *)
(***************************************************************************)
\* Data that were posted for o and not stored yet.
Posted(o) ==
  LET items == queue[SoundThread]
      waiting == IF stage[SoundThread] = "get" THEN items ELSE Tail(items)
      isData(item) == item.obj = o /\ item.arg # 0
      posted == SelectSeq(waiting, isData)
  IN  [i \in DOMAIN posted |-> posted[i].arg]

UpTo(n) == [i \in 1 .. n |-> i]

\* As long as the callback thread runs, the program gets what an input records in the
\* order it was recorded and nothing is missing, pauses or not.
InputInOrder ==
  \A o \in Inputs :
    ~fault /\ SoundThread \notin dead => done[o] \o retrieved[o] \o Posted(o) = UpTo(count[o])

\* Packets are played in the order they were given to an output, none is skipped, and
\* the total that decides when to play them is that of the packets in the store.
OutputInOrder ==
  \A o \in Outputs :
    ~fault /\ instance[o] = "live" /\ manager # "dead" =>
      /\ done[o] \o device[o] \o Data(output[o]) = UpTo(count[o])
      /\ total[o] = Bytes(output[o])

\* Neither direction loses, repeats or swaps data.
SoundInOrder == InputInOrder /\ OutputInOrder
================================================================================
