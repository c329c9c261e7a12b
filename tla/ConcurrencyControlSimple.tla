------------------------ MODULE ConcurrencyControlSimple ------------------------
(***************************************************************************)
(* ConcurrencyControlSimple keeps the same promise without thread IDs: one *)
(* count of the levels of read control there are, and one critical section *)
(* "writing" that a writer is in, and a reader while it is counted.  Each  *)
(* thread counts its own levels and tells EnterWrite, which is correct     *)
(* only if the count is.  Whatever runs inside mtControl is one step.      *)
(***************************************************************************)
EXTENDS Naturals

CONSTANTS
  Readers,        \* threads that use the object
  Nobody,         \* writer when nobody is in the section "writing"
  MaxReadCount,   \* bound: levels of read control of a thread
  MaxWriteCount   \* bound: levels of write control of a thread

ASSUME SimpleAssumption ==
  /\ Nobody \notin Readers
  /\ MaxReadCount \in Nat /\ MaxWriteCount \in Nat

VARIABLES
  writing,            \* [by, levels]: the section of writers
  numReading,         \* levels of read control, of all threads
  readCount,          \* [Readers -> its own levels, as it counts them]
  writeCount,         \* [Readers -> levels of write control it has]
  stage,              \* [Readers -> where it is]
  originalReadCount   \* [Readers -> levels for EnterWrite to retake]

simpleVars == <<writing, numReading, readCount, writeCount, stage, originalReadCount>>

SimpleInit ==
  /\ writing = [by |-> Nobody, levels |-> 0]
  /\ numReading = 0
  /\ readCount = [r \in Readers |-> 0]
  /\ writeCount = [r \in Readers |-> 0]
  /\ stage = [r \in Readers |-> "idle"]
  /\ originalReadCount = [r \in Readers |-> 0]

Reaches(r, s) == stage' = [stage EXCEPT ![r] = s]

WritingIsFree(r) == writing.by \in {Nobody, r}
EnterWriting(r)  == WritingIsFree(r) /\ writing' = [by |-> r, levels |-> writing.levels + 1]
LeaveWriting     == writing' = IF writing.levels = 1 THEN [by |-> Nobody, levels |-> 0]
                               ELSE [writing EXCEPT !.levels = @ - 1]

\* EnterRead is counted inside "writing", which is free afterwards if it was before.
BeginReading(r) ==
  /\ stage[r] = "idle" /\ readCount[r] < MaxReadCount
  /\ Reaches(r, "entering")
  /\ UNCHANGED <<writing, numReading, readCount, writeCount, originalReadCount>>

Count(r) ==
  /\ numReading' = numReading + 1
  /\ readCount' = [readCount EXCEPT ![r] = @ + 1]

Uncount(r) ==
  /\ numReading' = numReading - 1
  /\ readCount' = [readCount EXCEPT ![r] = @ - 1]

StartReading(r) ==
  /\ stage[r] = "entering" /\ WritingIsFree(r)
  /\ Count(r)
  /\ Reaches(r, "idle")
  /\ UNCHANGED <<writing, writeCount, originalReadCount>>

StopReading(r) ==
  /\ stage[r] = "idle" /\ readCount[r] > 0
  /\ Uncount(r)
  /\ UNCHANGED <<writing, writeCount, stage, originalReadCount>>

\* EnterWrite releases read control, waits until nobody reads, enters "writing",
\* and waits again if somebody began to read in between.
BeginWriting(r) ==
  /\ stage[r] = "idle" /\ writeCount[r] < MaxWriteCount
  /\ originalReadCount' = [originalReadCount EXCEPT ![r] = readCount[r]]
  /\ Reaches(r, "releasing")
  /\ UNCHANGED <<writing, numReading, readCount, writeCount>>

ReleaseRead(r) ==
  /\ stage[r] = "releasing" /\ readCount[r] > 0
  /\ Uncount(r)
  /\ UNCHANGED <<writing, writeCount, stage, originalReadCount>>

Released(r) ==
  /\ stage[r] = "releasing" /\ readCount[r] = 0
  /\ Reaches(r, "waiting")
  /\ UNCHANGED <<writing, numReading, readCount, writeCount, originalReadCount>>

IsAnyoneElseReading(r) == numReading # readCount[r]

SeeNobodyReading(r) ==
  /\ stage[r] = "waiting" /\ ~IsAnyoneElseReading(r)
  /\ Reaches(r, "proceeding")
  /\ UNCHANGED <<writing, numReading, readCount, writeCount, originalReadCount>>

EnterToWrite(r) ==
  /\ stage[r] = "proceeding"
  /\ EnterWriting(r)
  /\ Reaches(r, "checking")
  /\ UNCHANGED <<numReading, readCount, writeCount, originalReadCount>>

TryAgain(r) ==
  /\ stage[r] = "checking" /\ IsAnyoneElseReading(r)
  /\ LeaveWriting
  /\ Reaches(r, "waiting")
  /\ UNCHANGED <<numReading, readCount, writeCount, originalReadCount>>

\* Mutated form of StartWriting: the check before the section is trusted.
StartWritingUnchecked(r) ==
  /\ stage[r] = "checking"
  /\ writeCount' = [writeCount EXCEPT ![r] = @ + 1]
  /\ Reaches(r, "retaking")
  /\ UNCHANGED <<writing, numReading, readCount, originalReadCount>>

StartWriting(r) ==
  /\ stage[r] = "checking" /\ ~IsAnyoneElseReading(r)
  /\ writeCount' = [writeCount EXCEPT ![r] = @ + 1]
  /\ Reaches(r, "retaking")
  /\ UNCHANGED <<writing, numReading, readCount, originalReadCount>>

ReadAgain(r) ==
  /\ stage[r] = "retaking" /\ readCount[r] < originalReadCount[r]
  /\ Count(r)
  /\ UNCHANGED <<writing, writeCount, stage, originalReadCount>>

EndEnterWrite(r) ==
  /\ stage[r] = "retaking" /\ readCount[r] = originalReadCount[r]
  /\ Reaches(r, "idle")
  /\ UNCHANGED <<writing, numReading, readCount, writeCount, originalReadCount>>

\* LeaveWrite.
StopWriting(r) ==
  /\ stage[r] = "idle" /\ writeCount[r] > 0
  /\ LeaveWriting
  /\ writeCount' = [writeCount EXCEPT ![r] = @ - 1]
  /\ UNCHANGED <<numReading, readCount, stage, originalReadCount>>

SimpleNext == \E r \in Readers :
  \/ BeginReading(r) \/ StartReading(r) \/ StopReading(r)
  \/ BeginWriting(r) \/ ReleaseRead(r) \/ Released(r) \/ SeeNobodyReading(r)
  \/ EnterToWrite(r) \/ TryAgain(r) \/ StartWriting(r) \/ ReadAgain(r)
  \/ EndEnterWrite(r) \/ StopWriting(r)

SimpleSpec == SimpleInit /\ [][SimpleNext]_simpleVars

(***************************************************************************)
(* Properties.                                                             *)
(***************************************************************************)
SimpleAside == [r \in Readers |->
  IF stage[r] \in {"idle", "entering"} THEN 0 ELSE originalReadCount[r] - readCount[r]]

\* The same promise as that of ConcurrencyControl: whoever writes is alone, although
\* the wait for readers and the entry into the section are not one step.
Simple == INSTANCE ReadersWriters
            WITH Threads <- Readers, reads <- readCount, writes <- writeCount, aside <- SimpleAside
SimpleExcludes == Simple!Spec
================================================================================
