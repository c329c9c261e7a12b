--------------------------- MODULE ConcurrencyControl ---------------------------
(***************************************************************************)
(* ConcurrencyControl: each thread has a critical section of its own, at   *)
(* the index that is its ID.  To read a thread enters its own section, to  *)
(* write it enters all of them in order.  Critical sections can be entered *)
(* several times by the thread that is in them.                            *)
(*                                                                         *)
(* The threads call the four operations as they like, but leave only what  *)
(* they entered; the checks of the debug build find nothing else.          *)
(***************************************************************************)
EXTENDS Integers

CONSTANTS
  NumThreads,   \* threads the object is made for
  NoThread,     \* owner of a section nobody is in
  MaxLevels     \* bound: levels of read control, and of write control, of a thread

Threads == 0..(NumThreads - 1)

ASSUME ControlAssumption ==
  /\ NumThreads \in Nat \ {0}
  /\ NoThread \notin Threads
  /\ MaxLevels \in Nat

VARIABLES
  owner,        \* [Threads -> the thread in the section of that index]
  depth,        \* [Threads -> how many times it entered that section]
  accessRead,   \* [Threads -> levels of read control]
  accessWrite,  \* [Threads -> levels of write control]
  doing,        \* [Threads -> where the thread is]
  old,          \* [Threads -> OLD_ACCESS_Read, the levels to take back]
  at            \* [Threads -> the index the loop over the sections is at]

controlVars == <<owner, depth, accessRead, accessWrite, doing, old, at>>

Places == {"idle", "entering", "dropping", "taking", "retaking", "leaving"}

ControlInit ==
  /\ owner = [s \in Threads |-> NoThread]
  /\ depth = [s \in Threads |-> 0]
  /\ accessRead = [t \in Threads |-> 0]
  /\ accessWrite = [t \in Threads |-> 0]
  /\ doing = [t \in Threads |-> "idle"]
  /\ old = [t \in Threads |-> 0]
  /\ at = [t \in Threads |-> 0]

Goes(t, place) == doing' = [doing EXCEPT ![t] = place]

(***************************************************************************)
(* CriticalSection.                                                        *)
(***************************************************************************)
Enter(t, s) ==
  /\ owner[s] \in {NoThread, t}
  /\ owner' = [owner EXCEPT ![s] = t]
  /\ depth' = [depth EXCEPT ![s] = depth[s] + 1]

Leave(s) ==
  /\ owner' = [owner EXCEPT ![s] = IF depth[s] = 1 THEN NoThread ELSE owner[s]]
  /\ depth' = [depth EXCEPT ![s] = depth[s] - 1]

(***************************************************************************)
(* EnterRead and LeaveRead.                                                *)
(***************************************************************************)
BeginEnterRead(t) ==
  /\ doing[t] = "idle" /\ accessRead[t] < MaxLevels
  /\ Goes(t, "entering")
  /\ UNCHANGED <<owner, depth, accessRead, accessWrite, old, at>>

EnterRead(t) ==
  /\ doing[t] = "entering"
  /\ Enter(t, t)
  /\ accessRead' = [accessRead EXCEPT ![t] = accessRead[t] + 1]
  /\ Goes(t, "idle")
  /\ UNCHANGED <<accessWrite, old, at>>

LeaveRead(t) ==
  /\ doing[t] = "idle" /\ accessRead[t] > 0
  /\ accessRead' = [accessRead EXCEPT ![t] = accessRead[t] - 1]
  /\ Leave(t)
  /\ UNCHANGED <<accessWrite, doing, old, at>>

(***************************************************************************)
(* EnterWrite: release read control, enter every section, retake it.       *)
(***************************************************************************)
BeginEnterWrite(t) ==
  /\ doing[t] = "idle" /\ accessWrite[t] < MaxLevels
  /\ old' = [old EXCEPT ![t] = accessRead[t]]
  /\ Goes(t, "dropping")
  /\ UNCHANGED <<owner, depth, accessRead, accessWrite, at>>

DropRead(t) ==
  /\ doing[t] = "dropping" /\ accessRead[t] > 0
  /\ accessRead' = [accessRead EXCEPT ![t] = accessRead[t] - 1]
  /\ Leave(t)
  /\ UNCHANGED <<accessWrite, doing, old, at>>

Dropped(t) ==
  /\ doing[t] = "dropping" /\ accessRead[t] = 0
  /\ at' = [at EXCEPT ![t] = 0]
  /\ Goes(t, "taking")
  /\ UNCHANGED <<owner, depth, accessRead, accessWrite, old>>

\* Mutated form of TakeSection: it leaves out the thread's own section.
TakeSectionOfOthers(t) ==
  /\ doing[t] = "taking" /\ at[t] < NumThreads
  /\ IF at[t] = t THEN UNCHANGED <<owner, depth>> ELSE Enter(t, at[t])
  /\ at' = [at EXCEPT ![t] = at[t] + 1]
  /\ UNCHANGED <<accessRead, accessWrite, doing, old>>

TakeSection(t) ==
  /\ doing[t] = "taking" /\ at[t] < NumThreads
  /\ Enter(t, at[t])
  /\ at' = [at EXCEPT ![t] = at[t] + 1]
  /\ UNCHANGED <<accessRead, accessWrite, doing, old>>

Taken(t) ==
  /\ doing[t] = "taking" /\ at[t] = NumThreads
  /\ accessWrite' = [accessWrite EXCEPT ![t] = accessWrite[t] + 1]
  /\ Goes(t, "retaking")
  /\ UNCHANGED <<owner, depth, accessRead, old, at>>

RetakeRead(t) ==
  /\ doing[t] = "retaking" /\ accessRead[t] < old[t]
  /\ Enter(t, t)
  /\ accessRead' = [accessRead EXCEPT ![t] = accessRead[t] + 1]
  /\ UNCHANGED <<accessWrite, doing, old, at>>

Retaken(t) ==
  /\ doing[t] = "retaking" /\ accessRead[t] = old[t]
  /\ Goes(t, "idle")
  /\ UNCHANGED <<owner, depth, accessRead, accessWrite, old, at>>

(***************************************************************************)
(* LeaveWrite.                                                             *)
(***************************************************************************)
LeaveWrite(t) ==
  /\ doing[t] = "idle" /\ accessWrite[t] > 0
  /\ accessWrite' = [accessWrite EXCEPT ![t] = accessWrite[t] - 1]
  /\ at' = [at EXCEPT ![t] = 0]
  /\ Goes(t, "leaving")
  /\ UNCHANGED <<owner, depth, accessRead, old>>

LeaveSection(t) ==
  /\ doing[t] = "leaving" /\ at[t] < NumThreads
  /\ Leave(at[t])
  /\ at' = [at EXCEPT ![t] = at[t] + 1]
  /\ UNCHANGED <<accessRead, accessWrite, doing, old>>

Left(t) ==
  /\ doing[t] = "leaving" /\ at[t] = NumThreads
  /\ Goes(t, "idle")
  /\ UNCHANGED <<owner, depth, accessRead, accessWrite, old, at>>

ControlNext == \E t \in Threads :
  \/ BeginEnterRead(t) \/ EnterRead(t) \/ LeaveRead(t)
  \/ BeginEnterWrite(t) \/ DropRead(t) \/ Dropped(t)
  \/ TakeSection(t) \/ Taken(t) \/ RetakeRead(t) \/ Retaken(t)
  \/ LeaveWrite(t) \/ LeaveSection(t) \/ Left(t)

ControlSpec == ControlInit /\ [][ControlNext]_controlVars

(***************************************************************************)
(* Properties.                                                             *)
(***************************************************************************)
\* The levels of read control EnterWrite has put aside.
ControlAside == [t \in Threads |->
  IF doing[t] \in {"dropping", "taking", "retaking"} THEN old[t] - accessRead[t] ELSE 0]

\* Read and write control of the threads are those of ReadersWriters: whoever writes
\* is alone, and EnterWrite gives back the read control it put aside, once the thread
\* can write.
Control == INSTANCE ReadersWriters
             WITH reads <- accessRead, writes <- accessWrite, aside <- ControlAside
ControlExcludes == Control!Spec

\* How often thread t is in section s.
Levels(t, s) ==
  accessWrite[t]
    + (IF s = t THEN accessRead[t] ELSE 0)
    + (IF (doing[t] = "taking" /\ s < at[t]) \/ (doing[t] = "leaving" /\ at[t] <= s) THEN 1 ELSE 0)

\* The inductive invariant: every section is entered by the thread whose levels add
\* up, and by no other, and what an upgrade put aside is known.
ControlTypeOK ==
  /\ owner \in [Threads -> Threads \union {NoThread}]
  /\ depth \in [Threads -> Nat]
  /\ accessRead \in [Threads -> Nat]
  /\ accessWrite \in [Threads -> Nat]
  /\ doing \in [Threads -> Places]
  /\ old \in [Threads -> Nat]
  /\ at \in [Threads -> 0..NumThreads]

SectionsAddUp ==
  /\ \A t, s \in Threads : Levels(t, s) > 0 => owner[s] = t
  /\ \A t, s \in Threads : owner[s] = t => depth[s] = Levels(t, s) /\ depth[s] > 0
  /\ \A s \in Threads : owner[s] = NoThread => depth[s] = 0

AsideAddsUp == \A t \in Threads :
  /\ doing[t] \in {"dropping", "retaking"} => accessRead[t] <= old[t]
  /\ doing[t] = "taking" => accessRead[t] = 0
  /\ doing[t] = "retaking" => accessWrite[t] > 0

ControlInv == ControlTypeOK /\ SectionsAddUp /\ AsideAddsUp
================================================================================
