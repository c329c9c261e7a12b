-------------------------- MODULE FoundationsProofs ---------------------------
(***************************************************************************)
(* Both reader/writer locks exclude, for any number of threads and levels, *)
(* and profiles read as they were set, with keys that are freed once, for  *)
(* any number of profiles and keys, whatever else happens beside them.     *)
(*                                                                         *)
(* ConcurrencyControl has a section for each thread: every section is      *)
(* entered exactly by the thread whose levels add up, as often as they     *)
(* say. ConcurrencyControlSimple counts its readers in one number for all  *)
(* threads.  The invariant says which number: that of the pairs of a       *)
(* thread and a level of read control (ReadLevels), so that 0 means that   *)
(* nobody reads.                                                           *)
(*                                                                         *)
(* Of profiles the invariant says that an option is what the program       *)
(* means, but for the known exceptions (AsMeant), and that a key has one   *)
(* owner until the program gives it a second (OneOwner).                   *)
(***************************************************************************)
EXTENDS Foundations, FiniteSetTheorems, TLAPS

-----------------------------------------------------------------------------
(***************************************************************************)
(* The lock with a section for each thread.                                *)
(***************************************************************************)
\* What Enter leaves: the section is the thread's, one level deeper, the others are as
\* they were.
LEMMA EnterLevels ==
  ASSUME ControlTypeOK, NEW t \in Threads, NEW s \in Threads, Enter(t, s)
  PROVE  /\ owner' \in [Threads -> Threads \union {NoThread}]
         /\ depth' \in [Threads -> Nat]
         /\ owner[s] \in {NoThread, t} /\ owner'[s] = t /\ depth'[s] = depth[s] + 1
         /\ \A x \in Threads \ {s} : owner'[x] = owner[x] /\ depth'[x] = depth[x]
  BY DEF ControlTypeOK, Enter

\* What Leave leaves: the section is one level shallower, and free if that was the
\* last one; the others are as they were.
LEMMA LeaveLevels ==
  ASSUME ControlTypeOK, NEW s \in Threads, Leave(s), depth[s] > 0
  PROVE  /\ owner' \in [Threads -> Threads \union {NoThread}]
         /\ depth' \in [Threads -> Nat]
         /\ owner'[s] = IF depth[s] = 1 THEN NoThread ELSE owner[s]
         /\ depth'[s] = depth[s] - 1
         /\ \A x \in Threads \ {s} : owner'[x] = owner[x] /\ depth'[x] = depth[x]
  BY DEF ControlTypeOK, Leave

\* The indices of the loop over the sections.
LEMMA Indices ==
  /\ \A x \in Threads : x \in Int /\ 0 <= x /\ x < NumThreads
  /\ \A x \in 0..NumThreads : x < NumThreads => x \in Threads /\ x + 1 \in 0..NumThreads
  BY ControlAssumption DEF Threads

\* The number of levels is a natural number.
LEMMA LevelsType ==
  ASSUME ControlTypeOK, NEW t \in Threads, NEW s \in Threads
  PROVE  Levels(t, s) \in Nat
  BY DEF ControlTypeOK, Levels

\* A thread that entered all sections is the only one with any control.
LEMMA HoldsAllIsAlone ==
  ASSUME ControlInv, NEW t \in Threads, \A s \in Threads : Levels(t, s) > 0
  PROVE  \A u \in Threads \ {t} : accessRead[u] = 0 /\ accessWrite[u] = 0
<1> SUFFICES ASSUME NEW u \in Threads \ {t}, accessRead[u] # 0 \/ accessWrite[u] # 0
             PROVE  FALSE
  OBVIOUS
<1>1. Levels(u, u) > 0
  BY DEF ControlInv, ControlTypeOK, Levels
<1>2. owner[u] = u /\ owner[u] = t
  BY <1>1 DEF ControlInv, SectionsAddUp
<1> QED
  BY <1>2

\* The invariant holds at first.
LEMMA ControlInvInit == ControlInit => ControlInv
  BY ControlAssumption
  DEF ControlInit, ControlInv, ControlTypeOK, SectionsAddUp, AsideAddsUp, Levels, Places, Threads

\* Sections stay as they are, and nobody's levels change: nothing to show.
LEMMA SameLevels ==
  ASSUME SectionsAddUp, owner' = owner, depth' = depth,
         \A t, s \in Threads : Levels(t, s)' = Levels(t, s)
  PROVE  SectionsAddUp'
  BY DEF SectionsAddUp

\* Thread t enters section s, and its levels for that section go up by one.
LEMMA OneLevelMore ==
  ASSUME ControlInv, NEW t \in Threads, NEW s \in Threads, Enter(t, s),
         Levels(t, s)' = Levels(t, s) + 1,
         \A u, x \in Threads : u # t \/ x # s => Levels(u, x)' = Levels(u, x)
  PROVE  SectionsAddUp'
<1>1. ControlTypeOK /\ SectionsAddUp
  BY DEF ControlInv
<1>2. /\ owner[s] \in {NoThread, t} /\ owner'[s] = t /\ depth'[s] = depth[s] + 1
      /\ \A x \in Threads \ {s} : owner'[x] = owner[x] /\ depth'[x] = depth[x]
  BY <1>1, EnterLevels
<1>3. \A u, x \in Threads : Levels(u, x) \in Nat
  BY <1>1, LevelsType
<1>4. depth[s] = Levels(t, s)
  <2>1. CASE owner[s] = t
    BY <1>1, <2>1 DEF SectionsAddUp
  <2>2. CASE owner[s] = NoThread
    BY <1>1, <1>3, <2>2, ControlAssumption DEF SectionsAddUp, ControlTypeOK
  <2> QED
    BY <1>2, <2>1, <2>2
<1>5. \A u \in Threads \ {t} : Levels(u, s) = 0
  BY <1>1, <1>2, <1>3, ControlAssumption DEF SectionsAddUp
<1> QED
  BY <1>1, <1>2, <1>3, <1>4, <1>5 DEF SectionsAddUp

\* Thread t leaves section s, and its levels for that section go down by one.
LEMMA OneLevelLess ==
  ASSUME ControlInv, NEW t \in Threads, NEW s \in Threads, Leave(s), Levels(t, s) > 0,
         Levels(t, s)' = Levels(t, s) - 1,
         \A u, x \in Threads : u # t \/ x # s => Levels(u, x)' = Levels(u, x)
  PROVE  SectionsAddUp'
<1>1. ControlTypeOK /\ SectionsAddUp
  BY DEF ControlInv
<1>2. owner[s] = t /\ depth[s] = Levels(t, s)
  BY <1>1 DEF SectionsAddUp
<1>3. /\ owner'[s] = IF depth[s] = 1 THEN NoThread ELSE owner[s]
      /\ depth'[s] = depth[s] - 1
      /\ \A x \in Threads \ {s} : owner'[x] = owner[x] /\ depth'[x] = depth[x]
  BY <1>1, <1>2, LeaveLevels
<1>4. \A u, x \in Threads : Levels(u, x) \in Nat
  BY <1>1, LevelsType
<1>5. \A u \in Threads \ {t} : Levels(u, s) = 0
  BY <1>1, <1>2, <1>4 DEF SectionsAddUp
<1> QED
  BY <1>1, <1>2, <1>3, <1>4, <1>5, ControlAssumption DEF SectionsAddUp

\* A section that is entered or left without end keeps the rest of the state typed.
LEMMA ControlInvStep ==
  ASSUME ControlInv, [ControlNext]_controlVars
  PROVE  ControlInv'
<1> USE DEF ControlInv
<1>1. CASE UNCHANGED controlVars
  BY <1>1 DEF controlVars, ControlTypeOK, SectionsAddUp, AsideAddsUp, Levels
<1>2. ASSUME NEW t \in Threads, BeginEnterRead(t)
      PROVE  ControlInv'
  <2>1. ControlTypeOK' /\ AsideAddsUp'
    BY <1>2 DEF BeginEnterRead, Goes, ControlTypeOK, AsideAddsUp, Places
  <2>2. \A u, s \in Threads : Levels(u, s)' = Levels(u, s)
    BY <1>2 DEF BeginEnterRead, Goes, ControlTypeOK, Levels
  <2> QED
    BY <1>2, <2>1, <2>2, SameLevels DEF BeginEnterRead
<1>3. ASSUME NEW t \in Threads, EnterRead(t)
      PROVE  ControlInv'
  <2>1. ControlTypeOK' /\ AsideAddsUp'
    BY <1>3, EnterLevels DEF EnterRead, Goes, ControlTypeOK, AsideAddsUp, Places
  <2>2. /\ Levels(t, t)' = Levels(t, t) + 1
        /\ \A u, x \in Threads : u # t \/ x # t => Levels(u, x)' = Levels(u, x)
    BY <1>3 DEF EnterRead, Goes, ControlTypeOK, Levels
  <2> QED
    BY <1>3, <2>1, <2>2, OneLevelMore DEF EnterRead
<1>4. ASSUME NEW t \in Threads, LeaveRead(t)
      PROVE  ControlInv'
  <2>1. Levels(t, t) > 0
    BY <1>4 DEF LeaveRead, ControlTypeOK, Levels
  <2>2. ControlTypeOK' /\ AsideAddsUp'
    BY <1>4, <2>1, LeaveLevels DEF LeaveRead, ControlTypeOK, SectionsAddUp, AsideAddsUp, Places
  <2>3. /\ Levels(t, t)' = Levels(t, t) - 1
        /\ \A u, x \in Threads : u # t \/ x # t => Levels(u, x)' = Levels(u, x)
    BY <1>4 DEF LeaveRead, ControlTypeOK, Levels
  <2> QED
    BY <1>4, <2>1, <2>2, <2>3, OneLevelLess DEF LeaveRead
<1>5. ASSUME NEW t \in Threads, BeginEnterWrite(t)
      PROVE  ControlInv'
  <2>1. ControlTypeOK' /\ AsideAddsUp'
    BY <1>5 DEF BeginEnterWrite, Goes, ControlTypeOK, AsideAddsUp, Places
  <2>2. \A u, s \in Threads : Levels(u, s)' = Levels(u, s)
    BY <1>5 DEF BeginEnterWrite, Goes, ControlTypeOK, Levels
  <2> QED
    BY <1>5, <2>1, <2>2, SameLevels DEF BeginEnterWrite
<1>6. ASSUME NEW t \in Threads, DropRead(t)
      PROVE  ControlInv'
  <2>1. Levels(t, t) > 0
    BY <1>6 DEF DropRead, ControlTypeOK, Levels
  <2>2. ControlTypeOK' /\ AsideAddsUp'
    BY <1>6, <2>1, LeaveLevels DEF DropRead, ControlTypeOK, SectionsAddUp, AsideAddsUp, Places
  <2>3. /\ Levels(t, t)' = Levels(t, t) - 1
        /\ \A u, x \in Threads : u # t \/ x # t => Levels(u, x)' = Levels(u, x)
    BY <1>6 DEF DropRead, ControlTypeOK, Levels
  <2> QED
    BY <1>6, <2>1, <2>2, <2>3, OneLevelLess DEF DropRead
<1>7. ASSUME NEW t \in Threads, Dropped(t)
      PROVE  ControlInv'
  <2>1. ControlTypeOK' /\ AsideAddsUp'
    BY <1>7, ControlAssumption DEF Dropped, Goes, ControlTypeOK, AsideAddsUp, Places
  <2>2. \A u, s \in Threads : Levels(u, s)' = Levels(u, s)
    BY <1>7 DEF Dropped, Goes, ControlTypeOK, Levels, Threads
  <2> QED
    BY <1>7, <2>1, <2>2, SameLevels DEF Dropped
<1>8. ASSUME NEW t \in Threads, TakeSection(t)
      PROVE  ControlInv'
  <2>1. PICK x \in Threads : x = at[t] /\ x + 1 \in 0..NumThreads
    BY <1>8, Indices DEF TakeSection, ControlTypeOK
  <2>2. ControlTypeOK' /\ AsideAddsUp'
    BY <1>8, <2>1, EnterLevels DEF TakeSection, ControlTypeOK, AsideAddsUp
  <2>3. /\ Levels(t, x)' = Levels(t, x) + 1
        /\ \A u, s \in Threads : u # t \/ s # x => Levels(u, s)' = Levels(u, s)
    BY <1>8, <2>1, Indices DEF TakeSection, ControlTypeOK, Levels
  <2> QED
    BY <1>8, <2>1, <2>2, <2>3, OneLevelMore DEF TakeSection
<1>9. ASSUME NEW t \in Threads, Taken(t)
      PROVE  ControlInv'
  <2>1. ControlTypeOK' /\ AsideAddsUp'
    BY <1>9 DEF Taken, Goes, ControlTypeOK, AsideAddsUp, Places
  <2>2. \A u, s \in Threads : Levels(u, s)' = Levels(u, s)
    BY <1>9, Indices DEF Taken, Goes, ControlTypeOK, Levels
  <2> QED
    BY <1>9, <2>1, <2>2, SameLevels DEF Taken
<1>10. ASSUME NEW t \in Threads, RetakeRead(t)
       PROVE  ControlInv'
  <2>1. ControlTypeOK' /\ AsideAddsUp'
    BY <1>10, EnterLevels DEF RetakeRead, ControlTypeOK, AsideAddsUp
  <2>2. /\ Levels(t, t)' = Levels(t, t) + 1
        /\ \A u, x \in Threads : u # t \/ x # t => Levels(u, x)' = Levels(u, x)
    BY <1>10 DEF RetakeRead, ControlTypeOK, Levels
  <2> QED
    BY <1>10, <2>1, <2>2, OneLevelMore DEF RetakeRead
<1>11. ASSUME NEW t \in Threads, Retaken(t)
       PROVE  ControlInv'
  <2>1. ControlTypeOK' /\ AsideAddsUp'
    BY <1>11 DEF Retaken, Goes, ControlTypeOK, AsideAddsUp, Places
  <2>2. \A u, s \in Threads : Levels(u, s)' = Levels(u, s)
    BY <1>11 DEF Retaken, Goes, ControlTypeOK, Levels
  <2> QED
    BY <1>11, <2>1, <2>2, SameLevels DEF Retaken
<1>12. ASSUME NEW t \in Threads, LeaveWrite(t)
       PROVE  ControlInv'
  <2>1. ControlTypeOK' /\ AsideAddsUp'
    BY <1>12, ControlAssumption DEF LeaveWrite, Goes, ControlTypeOK, AsideAddsUp, Places
  <2>2. \A u, s \in Threads : Levels(u, s)' = Levels(u, s)
    BY <1>12 DEF LeaveWrite, Goes, ControlTypeOK, Levels, Threads
  <2> QED
    BY <1>12, <2>1, <2>2, SameLevels DEF LeaveWrite
<1>13. ASSUME NEW t \in Threads, LeaveSection(t)
       PROVE  ControlInv'
  <2>1. PICK x \in Threads : x = at[t] /\ x + 1 \in 0..NumThreads
    BY <1>13, Indices DEF LeaveSection, ControlTypeOK
  <2>2. Levels(t, x) > 0
    BY <1>13, <2>1, Indices DEF LeaveSection, ControlTypeOK, Levels
  <2>3. ControlTypeOK' /\ AsideAddsUp'
    BY <1>13, <2>1, <2>2, LeaveLevels DEF LeaveSection, ControlTypeOK, SectionsAddUp, AsideAddsUp
  <2>4. /\ Levels(t, x)' = Levels(t, x) - 1
        /\ \A u, s \in Threads : u # t \/ s # x => Levels(u, s)' = Levels(u, s)
    BY <1>13, <2>1, Indices DEF LeaveSection, ControlTypeOK, Levels
  <2> QED
    BY <1>13, <2>1, <2>2, <2>3, <2>4, OneLevelLess DEF LeaveSection
<1>14. ASSUME NEW t \in Threads, Left(t)
       PROVE  ControlInv'
  <2>1. ControlTypeOK' /\ AsideAddsUp'
    BY <1>14 DEF Left, Goes, ControlTypeOK, AsideAddsUp, Places
  <2>2. \A u, s \in Threads : Levels(u, s)' = Levels(u, s)
    BY <1>14, Indices DEF Left, Goes, ControlTypeOK, Levels
  <2> QED
    BY <1>14, <2>1, <2>2, SameLevels DEF Left
<1> QED
  BY <1>1, <1>2, <1>3, <1>4, <1>5, <1>6, <1>7, <1>8, <1>9, <1>10, <1>11, <1>12, <1>13, <1>14
  DEF ControlNext

\* The inductive invariant holds of every behaviour, for any number of threads.
THEOREM ControlInvariant == ControlSpec => []ControlInv
<1>1. ControlInit => ControlInv
  BY ControlInvInit
<1>2. ControlInv /\ [ControlNext]_controlVars => ControlInv'
  BY ControlInvStep
<1> QED
  BY <1>1, <1>2, PTL DEF ControlSpec

\* A thread with write control has entered every section: it is alone with the object.
THEOREM ControlAlone == ControlSpec => []Control!WritersAreAlone
<1>1. ControlInv => Control!WritersAreAlone
  <2> SUFFICES ASSUME ControlInv, NEW t \in Threads, NEW u \in Threads, t # u, accessWrite[t] > 0
               PROVE  accessRead[u] = 0 /\ accessWrite[u] = 0
    BY DEF Control!WritersAreAlone
  <2>1. \A s \in Threads : Levels(t, s) > 0
    BY DEF ControlInv, ControlTypeOK, Levels
  <2> QED
    BY <2>1, HoldsAllIsAlone
<1> QED
  BY <1>1, ControlInvariant, PTL

\* Each step of ConcurrencyControl is one of ReadersWriters, or none there.
LEMMA ControlStepSimulation ==
  ASSUME ControlInv, [ControlNext]_controlVars
  PROVE  [Control!Next]_(Control!vars)
<1> DEFINE Same == ControlAside' = ControlAside
<1> SUFFICES ASSUME ~UNCHANGED <<accessRead, accessWrite, ControlAside>>
             PROVE  Control!Next
  BY DEF Control!vars
<1>1. CASE UNCHANGED controlVars
  BY <1>1 DEF controlVars, ControlAside
<1>2. ASSUME NEW t \in Threads, BeginEnterRead(t) \/ Dropped(t) \/ TakeSection(t) \/ LeaveSection(t) \/ Left(t)
      PROVE  FALSE
  BY <1>2
  DEF BeginEnterRead, Dropped, TakeSection, LeaveSection, Left, Goes, ControlAside, ControlInv, ControlTypeOK
<1>3. ASSUME NEW t \in Threads, BeginEnterWrite(t) \/ Retaken(t)
      PROVE  FALSE
  BY <1>3 DEF BeginEnterWrite, Retaken, Goes, ControlAside, ControlInv, ControlTypeOK
<1>4. ASSUME NEW t \in Threads, EnterRead(t)
      PROVE  Control!TakeRead(t)
  <2>1. Same
    BY <1>4 DEF EnterRead, Goes, ControlAside, ControlInv, ControlTypeOK
  <2>2. \A u \in Threads \ {t} : accessWrite[u] = 0
    <3> SUFFICES ASSUME NEW u \in Threads \ {t}, accessWrite[u] # 0
                 PROVE  FALSE
      OBVIOUS
    <3>1. Levels(u, t) > 0
      BY DEF ControlInv, ControlTypeOK, Levels
    <3>2. owner[t] = u
      BY <3>1 DEF ControlInv, SectionsAddUp
    <3> QED
      BY <1>4, <3>2, ControlAssumption DEF EnterRead, Enter
  <2> QED
    BY <1>4, <2>1, <2>2 DEF EnterRead, Control!TakeRead, Control!Up, ControlAside
<1>5. ASSUME NEW t \in Threads, LeaveRead(t)
      PROVE  Control!DropRead(t)
  <2>1. Same
    BY <1>5 DEF LeaveRead, ControlAside, ControlInv, ControlTypeOK
  <2> QED
    BY <1>5, <2>1 DEF LeaveRead, Control!DropRead, Control!Down, ControlAside
<1>6. ASSUME NEW t \in Threads, DropRead(t)
      PROVE  Control!PutAside(t)
  <2>1. ControlAside' = [ControlAside EXCEPT ![t] = ControlAside[t] + 1]
    <3>1. ControlAside \in [Threads -> Int] /\ ControlAside' \in [Threads -> Int]
      BY <1>6 DEF DropRead, ControlAside, ControlInv, ControlTypeOK
    <3>2. ControlAside'[t] = ControlAside[t] + 1
      BY <1>6 DEF DropRead, ControlAside, ControlInv, ControlTypeOK
    <3>3. \A u \in Threads \ {t} : ControlAside'[u] = ControlAside[u]
      BY <1>6 DEF DropRead, ControlAside, ControlInv, ControlTypeOK
    <3> QED
      BY <3>1, <3>2, <3>3
  <2> QED
    BY <1>6, <2>1 DEF DropRead, Control!PutAside, Control!Up, Control!Down
<1>7. ASSUME NEW t \in Threads, Taken(t)
      PROVE  Control!TakeWrite(t)
  <2>1. Same
    BY <1>7 DEF Taken, Goes, ControlAside, ControlInv, ControlTypeOK
  <2>2. \A s \in Threads : Levels(t, s) > 0
    BY <1>7, Indices DEF Taken, ControlInv, ControlTypeOK, Levels
  <2>3. \A u \in Threads \ {t} : accessRead[u] = 0 /\ accessWrite[u] = 0
    BY <2>2, HoldsAllIsAlone
  <2> QED
    BY <1>7, <2>1, <2>3 DEF Taken, Control!TakeWrite, Control!Up, ControlInv, AsideAddsUp
<1>8. ASSUME NEW t \in Threads, RetakeRead(t)
      PROVE  Control!TakeBack(t)
  <2>1. ControlAside' = [ControlAside EXCEPT ![t] = ControlAside[t] - 1]
    <3>1. ControlAside \in [Threads -> Int] /\ ControlAside' \in [Threads -> Int]
      BY <1>8 DEF RetakeRead, ControlAside, ControlInv, ControlTypeOK
    <3>2. ControlAside'[t] = ControlAside[t] - 1
      BY <1>8 DEF RetakeRead, ControlAside, ControlInv, ControlTypeOK
    <3>3. \A u \in Threads \ {t} : ControlAside'[u] = ControlAside[u]
      BY <1>8 DEF RetakeRead, ControlAside, ControlInv, ControlTypeOK
    <3> QED
      BY <3>1, <3>2, <3>3
  <2>2. ControlAside[t] > 0 /\ accessWrite[t] > 0
    BY <1>8 DEF RetakeRead, ControlAside, ControlInv, ControlTypeOK, AsideAddsUp
  <2> QED
    BY <1>8, <2>1, <2>2 DEF RetakeRead, Control!TakeBack, Control!Up, Control!Down
<1>9. ASSUME NEW t \in Threads, LeaveWrite(t)
      PROVE  Control!DropWrite(t)
  <2>1. Same
    BY <1>9 DEF LeaveWrite, Goes, ControlAside, ControlInv, ControlTypeOK
  <2> QED
    BY <1>9, <2>1 DEF LeaveWrite, Control!DropWrite, Control!Down, ControlAside
<1> QED
  BY <1>1, <1>2, <1>3, <1>4, <1>5, <1>6, <1>7, <1>8, <1>9 DEF ControlNext, Control!Next

\* ConcurrencyControl keeps the promise of ReadersWriters, for any number of threads.
THEOREM ControlImplements == ControlSpec => ControlExcludes
<1>1. ControlInit => Control!Init
  BY DEF ControlInit, Control!Init, ControlAside
<1>2. ControlInv /\ [ControlNext]_controlVars => [Control!Next]_(Control!vars)
  BY ControlStepSimulation
<1> QED
  BY <1>1, <1>2, ControlInvariant, PTL DEF ControlSpec, ControlExcludes, Control!Spec

-----------------------------------------------------------------------------
(***************************************************************************)
(* The simple lock.                                                        *)
(***************************************************************************)
Stages == {"idle", "entering", "releasing", "waiting", "proceeding", "checking", "retaking"}

\* The levels of read control of all threads, one pair for each.
ReadLevels == {l \in Readers \X Nat : l[2] < readCount[l[1]]}

\* How often thread r is in the section "writing".
Inside(r) == writeCount[r] + (IF stage[r] = "checking" THEN 1 ELSE 0)

SimpleTypeOK ==
  /\ writing \in [by : Readers \cup {Nobody}, levels : Nat]
  /\ numReading \in Nat
  /\ readCount \in [Readers -> Nat] /\ writeCount \in [Readers -> Nat]
  /\ stage \in [Readers -> Stages] /\ originalReadCount \in [Readers -> Nat]

\* The count of readers is that of the levels the threads know of.
ReadersCounted == IsFiniteSet(ReadLevels) /\ numReading = Cardinality(ReadLevels)

\* The section is entered by the thread that writes or checks, as often as it does.
WritingAddsUp ==
  /\ \A r \in Readers : Inside(r) > 0 => writing.by = r
  /\ \A r \in Readers : writing.by = r => writing.levels = Inside(r) /\ Inside(r) > 0
  /\ writing.by = Nobody => writing.levels = 0

\* Whoever writes is alone.
WriterReadsAlone ==
  \A r, u \in Readers : (r # u /\ writeCount[r] > 0) => readCount[u] = 0

\* What an upgrade has put aside is known, and it waits without any read control.
UpgradeKnown == \A r \in Readers :
  /\ stage[r] \in {"releasing", "retaking"} => readCount[r] <= originalReadCount[r]
  /\ stage[r] \in {"waiting", "proceeding", "checking"} => readCount[r] = 0
  /\ stage[r] = "retaking" => writeCount[r] > 0

SimpleInv ==
  /\ SimpleTypeOK /\ ReadersCounted
  /\ WritingAddsUp /\ WriterReadsAlone /\ UpgradeKnown

\* One level of read control more is one pair more.
LEMMA OneReaderMore ==
  ASSUME SimpleTypeOK, ReadersCounted, NEW r \in Readers, Count(r)
  PROVE  /\ ReadersCounted' /\ numReading' \in Nat
         /\ readCount' \in [Readers -> Nat] /\ readCount'[r] = readCount[r] + 1
         /\ \A u \in Readers : u # r => readCount'[u] = readCount[u]
<1>1. /\ readCount \in [Readers -> Nat] /\ readCount[r] \in Nat /\ numReading \in Nat
      /\ numReading' = numReading + 1
      /\ readCount' = [readCount EXCEPT ![r] = @ + 1]
  BY DEF SimpleTypeOK, Count
<1>2. /\ readCount' \in [Readers -> Nat] /\ readCount'[r] = readCount[r] + 1
      /\ \A u \in Readers : u # r => readCount'[u] = readCount[u]
  BY <1>1
<1>3. ReadLevels' = ReadLevels \cup {<<r, readCount[r]>>}
  <2>1. ASSUME NEW u \in Readers, NEW k \in Nat
        PROVE  k < readCount'[u] <=> (k < readCount[u] \/ <<u, k>> = <<r, readCount[r]>>)
    <3>1. CASE u = r
      BY <1>1, <1>2, <3>1
    <3>2. CASE u # r
      BY <1>1, <1>2, <3>2
    <3> QED
      BY <3>1, <3>2
  <2> QED
    BY <1>1, <2>1 DEF ReadLevels
<1>4. <<r, readCount[r]>> \notin ReadLevels
  BY <1>1 DEF ReadLevels
<1>5. /\ IsFiniteSet(ReadLevels')
      /\ Cardinality(ReadLevels') = Cardinality(ReadLevels) + 1
  BY <1>3, <1>4, FS_AddElement DEF ReadersCounted
<1>6. ReadersCounted'
  BY <1>1, <1>5 DEF ReadersCounted
<1> QED
  BY <1>1, <1>2, <1>6

\* One level less is one pair less.
LEMMA OneReaderLess ==
  ASSUME SimpleTypeOK, ReadersCounted, NEW r \in Readers, readCount[r] > 0, Uncount(r)
  PROVE  /\ ReadersCounted' /\ numReading' \in Nat
         /\ readCount' \in [Readers -> Nat] /\ readCount'[r] = readCount[r] - 1
         /\ \A u \in Readers : u # r => readCount'[u] = readCount[u]
<1>1. /\ readCount \in [Readers -> Nat] /\ readCount[r] \in Nat /\ numReading \in Nat
      /\ numReading' = numReading - 1
      /\ readCount' = [readCount EXCEPT ![r] = @ - 1]
  BY DEF SimpleTypeOK, Uncount
<1>2. readCount[r] - 1 \in Nat
  BY <1>1
<1>3. /\ readCount' \in [Readers -> Nat] /\ readCount'[r] = readCount[r] - 1
      /\ \A u \in Readers : u # r => readCount'[u] = readCount[u]
  BY <1>1, <1>2
<1>4. ReadLevels' = ReadLevels \ {<<r, readCount[r] - 1>>}
  <2>1. ASSUME NEW u \in Readers, NEW k \in Nat
        PROVE  k < readCount'[u] <=> (k < readCount[u] /\ <<u, k>> # <<r, readCount[r] - 1>>)
    <3>1. CASE u = r
      BY <1>1, <1>3, <3>1
    <3>2. CASE u # r
      BY <1>1, <1>3, <3>2
    <3> QED
      BY <3>1, <3>2
  <2> QED
    BY <1>1, <2>1 DEF ReadLevels
<1>5. <<r, readCount[r] - 1>> \in ReadLevels
  BY <1>1, <1>2 DEF ReadLevels
<1>6. /\ IsFiniteSet(ReadLevels')
      /\ Cardinality(ReadLevels') = Cardinality(ReadLevels) - 1
  BY <1>4, <1>5, FS_RemoveElement DEF ReadersCounted
<1>7. Cardinality(ReadLevels') \in Nat
  BY <1>6, FS_CardinalityType
<1>8. ReadersCounted' /\ numReading' \in Nat
  BY <1>1, <1>6, <1>7 DEF ReadersCounted
<1> QED
  BY <1>3, <1>8

\* When nobody is counted, nobody reads.
LEMMA NobodyReads ==
  ASSUME SimpleTypeOK, ReadersCounted, numReading = 0
  PROVE  \A u \in Readers : readCount[u] = 0
<1>1. ReadLevels = {}
  BY FS_EmptySet DEF ReadersCounted
<1> SUFFICES ASSUME NEW u \in Readers, readCount[u] # 0
             PROVE  FALSE
  OBVIOUS
<1>2. readCount[u] \in Nat
  BY DEF SimpleTypeOK
<1>3. <<u, 0>> \in ReadLevels
  BY <1>2 DEF ReadLevels
<1> QED
  BY <1>1, <1>3

\* The section is entered once more, by a thread that finds it free.
LEMMA WritingEntered ==
  ASSUME SimpleTypeOK, NEW r \in Readers, EnterWriting(r)
  PROVE  /\ writing' \in [by : Readers \cup {Nobody}, levels : Nat]
         /\ writing.by \in {Nobody, r}
         /\ writing'.by = r /\ writing'.levels = writing.levels + 1
BY DEF SimpleTypeOK, EnterWriting, WritingIsFree

\* It is left once.
LEMMA WritingLeft ==
  ASSUME SimpleTypeOK, LeaveWriting, writing.levels > 0
  PROVE  /\ writing' \in [by : Readers \cup {Nobody}, levels : Nat]
         /\ writing'.by = IF writing.levels = 1 THEN Nobody ELSE writing.by
         /\ writing'.levels = writing.levels - 1
<1>1. writing.levels \in Nat /\ writing.by \in Readers \cup {Nobody}
  BY DEF SimpleTypeOK
<1>2. CASE writing.levels = 1
  BY <1>1, <1>2 DEF LeaveWriting
<1>3. CASE writing.levels # 1
  <2>1. writing.levels - 1 \in Nat
    BY <1>1
  <2>2. writing' = [writing EXCEPT !.levels = writing.levels - 1]
    BY <1>3 DEF LeaveWriting
  <2> QED
    BY <1>1, <1>3, <2>1, <2>2 DEF SimpleTypeOK
<1> QED
  BY <1>2, <1>3

\* A thread that goes from one stage to the next.
LEMMA StageReached ==
  ASSUME SimpleTypeOK, NEW r \in Readers, NEW s \in Stages, Reaches(r, s)
  PROVE  /\ stage' \in [Readers -> Stages] /\ stage'[r] = s
         /\ \A u \in Readers : u # r => stage'[u] = stage[u]
BY DEF SimpleTypeOK, Reaches

\* Nobody enters or leaves the section, and no counts change.
LEMMA SameSection ==
  ASSUME SimpleInv, UNCHANGED <<writing, numReading, readCount, writeCount>>,
         \A r \in Readers : stage'[r] = "checking" <=> stage[r] = "checking"
  PROVE  ReadersCounted' /\ WritingAddsUp' /\ WriterReadsAlone'
<1>1. ReadersCounted'
  BY DEF SimpleInv, ReadersCounted, ReadLevels
<1>2. \A r \in Readers : Inside(r)' = Inside(r)
  BY DEF Inside
<1>3. WritingAddsUp'
  BY <1>2 DEF SimpleInv, WritingAddsUp
<1>4. WriterReadsAlone'
  BY DEF SimpleInv, WriterReadsAlone
<1> QED
  BY <1>1, <1>3, <1>4

\* A step of BeginReading, EnterRead with its release, or EnterWrite that counts nothing.
LEMMA StagesKeep ==
  ASSUME SimpleInv, NEW r \in Readers,
         \/ BeginReading(r) \/ BeginWriting(r) \/ Released(r)
         \/ SeeNobodyReading(r) \/ EndEnterWrite(r)
  PROVE  SimpleInv'
<1> USE DEF BeginReading, BeginWriting, Released, SeeNobodyReading, EndEnterWrite
<1>1. /\ UNCHANGED <<writing, numReading, readCount, writeCount>>
      /\ readCount[r] \in Nat /\ originalReadCount \in [Readers -> Nat]
  BY DEF SimpleInv, SimpleTypeOK
<1>2. PICK s \in Stages : Reaches(r, s) /\ s # "checking"
  BY DEF Stages
<1>3. /\ stage' \in [Readers -> Stages] /\ stage'[r] = s
      /\ \A u \in Readers : u # r => stage'[u] = stage[u]
  BY <1>2, StageReached DEF SimpleInv
<1>4. stage[r] # "checking"
  OBVIOUS
<1>5. ReadersCounted' /\ WritingAddsUp' /\ WriterReadsAlone'
  BY <1>1, <1>2, <1>3, <1>4, SameSection
<1>6. /\ originalReadCount' \in [Readers -> Nat]
      /\ \A u \in Readers : u # r => originalReadCount'[u] = originalReadCount[u]
  BY <1>1
<1>7. SimpleTypeOK'
  BY <1>1, <1>3, <1>6 DEF SimpleInv, SimpleTypeOK
<1>8. UpgradeKnown'
  <2> SUFFICES ASSUME NEW u \in Readers
               PROVE  /\ stage'[u] \in {"releasing", "retaking"} =>
                           readCount[u] <= originalReadCount'[u]
                      /\ stage'[u] \in {"waiting", "proceeding", "checking"} => readCount[u] = 0
                      /\ stage'[u] = "retaking" => writeCount[u] > 0
    BY <1>1 DEF UpgradeKnown
  <2>1. CASE u # r
    BY <1>3, <1>6, <2>1 DEF SimpleInv, UpgradeKnown
  <2>2. CASE u = r
    <3>1. CASE BeginReading(r) \/ EndEnterWrite(r)
      <4>1. stage'[r] \in {"entering", "idle"}
        BY <3>1 DEF Reaches, SimpleInv, SimpleTypeOK
      <4> QED
        BY <2>2, <4>1
    <3>2. CASE BeginWriting(r)
      <4>1. stage'[r] = "releasing" /\ originalReadCount'[r] = readCount[r]
        BY <3>2 DEF Reaches, SimpleInv, SimpleTypeOK
      <4> QED
        BY <1>1, <2>2, <4>1
    <3>3. CASE Released(r) \/ SeeNobodyReading(r)
      <4>1. stage'[r] \in {"waiting", "proceeding"} /\ readCount[r] = 0
        BY <3>3 DEF Reaches, SimpleInv, SimpleTypeOK, UpgradeKnown
      <4> QED
        BY <2>2, <4>1
    <3> QED
      BY <3>1, <3>2, <3>3
  <2> QED
    BY <2>1, <2>2
<1> QED
  BY <1>5, <1>7, <1>8 DEF SimpleInv

\* A thread that takes a level of read control finds nobody else in the section, or
\* writes itself; one that drops a level disturbs nobody.
LEMMA CountingKeeps ==
  ASSUME SimpleInv, NEW r \in Readers,
         StartReading(r) \/ StopReading(r) \/ ReleaseRead(r) \/ ReadAgain(r)
  PROVE  SimpleInv'
<1> USE DEF StartReading, StopReading, ReleaseRead, ReadAgain
<1>1. /\ UNCHANGED <<writing, writeCount, originalReadCount>>
      /\ readCount[r] \in Nat /\ originalReadCount[r] \in Nat
      /\ \A u \in Readers : writeCount[u] \in Nat
  BY DEF SimpleInv, SimpleTypeOK
<1>2. Count(r) \/ (Uncount(r) /\ readCount[r] > 0)
  OBVIOUS
<1>3. /\ ReadersCounted' /\ numReading' \in Nat /\ readCount' \in [Readers -> Nat]
      /\ \A u \in Readers : u # r => readCount'[u] = readCount[u]
  BY <1>2, OneReaderMore, OneReaderLess DEF SimpleInv
<1>4. /\ stage' \in [Readers -> Stages]
      /\ \A u \in Readers : u # r => stage'[u] = stage[u]
      /\ stage'[r] # "checking" /\ stage[r] # "checking"
      /\ StartReading(r) => stage'[r] = "idle"
      /\ ~StartReading(r) => stage'[r] = stage[r]
  BY DEF Reaches, SimpleInv, SimpleTypeOK, Stages
<1>5. SimpleTypeOK'
  BY <1>1, <1>3, <1>4 DEF SimpleInv, SimpleTypeOK
<1>6. WritingAddsUp'
  <2>1. \A u \in Readers : Inside(u)' = Inside(u)
    BY <1>1, <1>4 DEF Inside
  <2> QED
    BY <1>1, <2>1 DEF SimpleInv, WritingAddsUp
<1>7. WriterReadsAlone'
  <2> SUFFICES ASSUME NEW t \in Readers, NEW u \in Readers, t # u, writeCount[t] > 0
               PROVE  readCount'[u] = 0
    BY <1>1 DEF WriterReadsAlone
  <2>1. readCount[u] = 0
    BY DEF SimpleInv, WriterReadsAlone
  <2>2. CASE u # r
    BY <1>3, <2>1, <2>2
  <2>3. CASE u = r
    <3>1. writing.by = t
      BY <1>1 DEF SimpleInv, WritingAddsUp, Inside
    <3>2. ~StartReading(r)
      BY <2>3, <3>1, SimpleAssumption DEF WritingIsFree
    <3>3. ~ReadAgain(r)
      <4>1. stage[r] = "retaking" => writing.by = r
        BY <1>1 DEF SimpleInv, UpgradeKnown, WritingAddsUp, Inside
      <4> QED
        BY <2>3, <3>1, <4>1
    <3> QED
      BY <1>1, <2>1, <2>3, <3>2, <3>3
  <2> QED
    BY <2>2, <2>3
<1>8. UpgradeKnown'
  <2> SUFFICES ASSUME NEW u \in Readers
               PROVE  /\ stage'[u] \in {"releasing", "retaking"} =>
                           readCount'[u] <= originalReadCount[u]
                      /\ stage'[u] \in {"waiting", "proceeding", "checking"} => readCount'[u] = 0
                      /\ stage'[u] = "retaking" => writeCount[u] > 0
    BY <1>1 DEF UpgradeKnown
  <2>1. CASE u # r
    BY <1>3, <1>4, <2>1 DEF SimpleInv, UpgradeKnown
  <2>2. CASE u = r
    <3>1. /\ Count(r) => readCount'[r] = readCount[r] + 1
          /\ (Uncount(r) /\ readCount[r] > 0) => readCount'[r] = readCount[r] - 1
      BY OneReaderMore, OneReaderLess DEF SimpleInv
    <3>2. CASE StartReading(r) \/ StopReading(r)
      <4>1. stage'[r] = "idle"
        BY <1>4, <3>2
      <4> QED
        BY <2>2, <4>1
    <3>3. CASE ReleaseRead(r)
      <4>1. stage'[r] = "releasing" /\ readCount[r] <= originalReadCount[r]
        BY <1>4, <3>3 DEF SimpleInv, UpgradeKnown
      <4> QED
        BY <1>1, <2>2, <3>1, <3>3, <4>1
    <3>4. CASE ReadAgain(r)
      <4>1. stage'[r] = "retaking" /\ writeCount[r] > 0
        BY <1>4, <3>4 DEF SimpleInv, UpgradeKnown
      <4> QED
        BY <1>1, <2>2, <3>1, <3>4, <4>1
    <3> QED
      BY <3>2, <3>3, <3>4
  <2> QED
    BY <2>1, <2>2
<1> QED
  BY <1>3, <1>5, <1>6, <1>7, <1>8 DEF SimpleInv

\* The thread in the section enters or leaves it: what it is in is what it counts.
LEMMA SectionChanges ==
  ASSUME SimpleInv, NEW r \in Readers, writing.by \in {Nobody, r},
         \A u \in Readers : u # r => Inside(u)' = Inside(u),
         Inside(r) \in Nat, Inside(r)' \in Nat,
         writing'.levels = Inside(r)',
         writing'.by = IF Inside(r)' = 0 THEN Nobody ELSE r
  PROVE  WritingAddsUp'
<1>1. \A u \in Readers : u # r => ~(Inside(u) > 0)
  BY SimpleAssumption DEF SimpleInv, WritingAddsUp
<1>2. \A u \in Readers : Inside(u)' > 0 => writing'.by = u
  BY <1>1
<1>3. \A u \in Readers : writing'.by = u => writing'.levels = Inside(u)' /\ Inside(u)' > 0
  BY SimpleAssumption
<1>4. writing'.by = Nobody => writing'.levels = 0
  BY SimpleAssumption
<1> QED
  BY <1>2, <1>3, <1>4 DEF WritingAddsUp

\* What a thread is in, while the section is its own.
LEMMA InsideFacts ==
  ASSUME SimpleInv, NEW r \in Readers
  PROVE  /\ Inside(r) \in Nat /\ writeCount[r] \in Nat /\ writing.levels \in Nat
         /\ Inside(r) > 0 => writing.by = r
         /\ writing.by \in {Nobody, r} => writing.levels = Inside(r)
<1>1. Inside(r) \in Nat /\ writeCount[r] \in Nat /\ writing.levels \in Nat
  BY DEF SimpleInv, SimpleTypeOK, Inside
<1>2. Inside(r) > 0 => writing.by = r
  BY DEF SimpleInv, WritingAddsUp
<1>3. writing.by \in {Nobody, r} => writing.levels = Inside(r)
  BY <1>1, <1>2, SimpleAssumption DEF SimpleInv, WritingAddsUp
<1> QED
  BY <1>1, <1>2, <1>3

\* A thread enters the section to check for readers, leaves it again because there are
\* some, stays to write because there are none, or leaves it after writing.
LEMMA WritingKeeps ==
  ASSUME SimpleInv, NEW r \in Readers,
         EnterToWrite(r) \/ TryAgain(r) \/ StartWriting(r) \/ StopWriting(r)
  PROVE  SimpleInv'
<1> USE DEF EnterToWrite, TryAgain, StartWriting, StopWriting
<1>1. /\ UNCHANGED <<numReading, readCount, originalReadCount>>
      /\ writeCount \in [Readers -> Nat] /\ writeCount[r] \in Nat
      /\ stage \in [Readers -> Stages] /\ SimpleTypeOK
  BY DEF SimpleInv, SimpleTypeOK
<1>2. /\ stage' \in [Readers -> Stages]
      /\ \A u \in Readers : u # r => stage'[u] = stage[u]
      /\ EnterToWrite(r) => stage[r] = "proceeding" /\ stage'[r] = "checking"
      /\ TryAgain(r) => stage[r] = "checking" /\ stage'[r] = "waiting"
      /\ StartWriting(r) => stage[r] = "checking" /\ stage'[r] = "retaking"
      /\ StopWriting(r) => stage[r] = "idle" /\ stage'[r] = "idle"
  BY <1>1 DEF Reaches, Stages
<1>3. /\ writeCount' \in [Readers -> Nat]
      /\ \A u \in Readers : u # r => writeCount'[u] = writeCount[u]
      /\ EnterToWrite(r) \/ TryAgain(r) => writeCount' = writeCount
      /\ StartWriting(r) => writeCount'[r] = writeCount[r] + 1
      /\ StopWriting(r) => writeCount[r] > 0 /\ writeCount'[r] = writeCount[r] - 1
  BY <1>1
<1>4. /\ EnterToWrite(r) => Inside(r)' = Inside(r) + 1
      /\ TryAgain(r) \/ StopWriting(r) => Inside(r) > 0 /\ Inside(r)' = Inside(r) - 1
      /\ StartWriting(r) => Inside(r) > 0 /\ Inside(r)' = Inside(r)
      /\ \A u \in Readers : u # r => Inside(u)' = Inside(u)
      /\ Inside(r) \in Nat /\ Inside(r)' \in Nat
  BY <1>1, <1>2, <1>3 DEF Inside
<1>5. /\ writing' \in [by : Readers \cup {Nobody}, levels : Nat]
      /\ writing.by \in {Nobody, r}
      /\ writing'.levels = Inside(r)'
      /\ writing'.by = IF Inside(r)' = 0 THEN Nobody ELSE r
  <2>1. CASE EnterToWrite(r)
    <3>1. /\ writing' \in [by : Readers \cup {Nobody}, levels : Nat]
          /\ writing.by \in {Nobody, r}
          /\ writing'.by = r /\ writing'.levels = writing.levels + 1
      BY <1>1, <2>1, WritingEntered
    <3> QED
      BY <1>4, <2>1, <3>1, InsideFacts
  <2>2. CASE TryAgain(r) \/ StopWriting(r)
    <3>1. Inside(r) > 0 /\ LeaveWriting
      BY <1>4, <2>2
    <3>2. writing.by = r /\ writing.levels = Inside(r)
      BY <3>1, InsideFacts
    <3>3. /\ writing' \in [by : Readers \cup {Nobody}, levels : Nat]
          /\ writing'.by = IF writing.levels = 1 THEN Nobody ELSE writing.by
          /\ writing'.levels = writing.levels - 1
      BY <1>1, <3>1, <3>2, WritingLeft
    <3> QED
      BY <1>4, <2>2, <3>2, <3>3
  <2>3. CASE StartWriting(r)
    <3>1. Inside(r) > 0 /\ Inside(r)' = Inside(r) /\ writing' = writing
      BY <1>4, <2>3
    <3>2. writing.by = r /\ writing.levels = Inside(r)
      BY <3>1, InsideFacts
    <3> QED
      BY <1>1, <3>1, <3>2 DEF SimpleTypeOK
  <2> QED
    BY <2>1, <2>2, <2>3
<1>6. SimpleTypeOK'
  BY <1>1, <1>2, <1>3, <1>5 DEF SimpleTypeOK
<1>7. ReadersCounted'
  BY <1>1 DEF SimpleInv, ReadersCounted, ReadLevels
<1>8. WritingAddsUp'
  BY <1>4, <1>5, SectionChanges
<1>9. stage[r] \in {"proceeding", "checking"} => readCount[r] = 0
  BY DEF SimpleInv, UpgradeKnown
<1>10. WriterReadsAlone'
  <2> SUFFICES ASSUME NEW t \in Readers, NEW u \in Readers, t # u, writeCount'[t] > 0
               PROVE  readCount[u] = 0
    BY <1>1 DEF WriterReadsAlone
  <2>1. CASE writeCount[t] > 0
    BY <2>1 DEF SimpleInv, WriterReadsAlone
  <2>2. CASE ~(writeCount[t] > 0)
    <3>1. t = r /\ StartWriting(r)
      BY <1>1, <1>3, <2>2
    <3>2. numReading = 0
      BY <1>2, <1>9, <3>1 DEF IsAnyoneElseReading
    <3> QED
      BY <1>1, <3>2, NobodyReads DEF SimpleInv
  <2> QED
    BY <2>1, <2>2
<1>11. UpgradeKnown'
  <2> SUFFICES ASSUME NEW u \in Readers
               PROVE  /\ stage'[u] \in {"releasing", "retaking"} =>
                           readCount[u] <= originalReadCount[u]
                      /\ stage'[u] \in {"waiting", "proceeding", "checking"} => readCount[u] = 0
                      /\ stage'[u] = "retaking" => writeCount'[u] > 0
    BY <1>1 DEF UpgradeKnown
  <2>1. CASE u # r
    BY <1>2, <1>3, <2>1 DEF SimpleInv, UpgradeKnown
  <2>2. CASE u = r
    <3>1. originalReadCount[r] \in Nat
      BY <1>1 DEF SimpleTypeOK
    <3>2. StartWriting(r) => readCount[r] = 0 /\ writeCount'[r] > 0
      BY <1>1, <1>2, <1>3, <1>9
    <3>3. EnterToWrite(r) \/ TryAgain(r) => readCount[r] = 0
      BY <1>2, <1>9
    <3> QED
      BY <1>2, <2>2, <3>1, <3>2, <3>3
  <2> QED
    BY <2>1, <2>2
<1> QED
  BY <1>6, <1>7, <1>8, <1>10, <1>11 DEF SimpleInv

\* The invariant of the simple lock is inductive.
LEMMA SimpleInvHolds ==
  /\ SimpleInit => SimpleInv
  /\ SimpleInv /\ [SimpleNext]_simpleVars => SimpleInv'
<1>1. SimpleInit => SimpleInv
  <2> SUFFICES ASSUME SimpleInit
               PROVE  SimpleInv
    OBVIOUS
  <2> USE DEF SimpleInit
  <2>1. SimpleTypeOK
    BY DEF SimpleTypeOK, Stages
  <2>2. ReadersCounted
    <3>1. ReadLevels = {}
      BY DEF ReadLevels
    <3> QED
      BY <3>1, FS_EmptySet DEF ReadersCounted
  <2>3. WritingAddsUp
    BY SimpleAssumption DEF WritingAddsUp, Inside
  <2>4. WriterReadsAlone /\ UpgradeKnown
    BY DEF WriterReadsAlone, UpgradeKnown
  <2> QED
    BY <2>1, <2>2, <2>3, <2>4 DEF SimpleInv
<1>2. SimpleInv /\ [SimpleNext]_simpleVars => SimpleInv'
  <2> SUFFICES ASSUME SimpleInv, [SimpleNext]_simpleVars
               PROVE  SimpleInv'
    OBVIOUS
  <2>1. CASE SimpleNext
    BY <2>1, StagesKeep, CountingKeeps, WritingKeeps DEF SimpleNext
  <2>2. CASE UNCHANGED simpleVars
    <3>1. ReadersCounted' /\ WritingAddsUp' /\ WriterReadsAlone'
      BY <2>2, SameSection DEF simpleVars
    <3>2. SimpleTypeOK' /\ UpgradeKnown'
      BY <2>2 DEF simpleVars, SimpleInv, SimpleTypeOK, UpgradeKnown
    <3> QED
      BY <3>1, <3>2 DEF SimpleInv
  <2> QED
    BY <2>1, <2>2
<1> QED
  BY <1>1, <1>2

\* Each step of ConcurrencyControlSimple is one of ReadersWriters, or none there.
LEMMA SimpleStepSimulation ==
  ASSUME SimpleInv, [SimpleNext]_simpleVars
  PROVE  [Simple!Next]_(Simple!vars)
<1> DEFINE Same == SimpleAside' = SimpleAside
<1> SUFFICES ASSUME ~UNCHANGED <<readCount, writeCount, SimpleAside>>
             PROVE  Simple!Next
  BY DEF Simple!vars
<1>1. CASE UNCHANGED simpleVars
  BY <1>1 DEF simpleVars, SimpleAside
<1>2. /\ readCount \in [Readers -> Nat] /\ writeCount \in [Readers -> Nat]
      /\ originalReadCount \in [Readers -> Nat] /\ stage \in [Readers -> Stages]
      /\ SimpleAside \in [Readers -> Int]
  BY DEF SimpleInv, SimpleTypeOK, SimpleAside
<1>3. ASSUME NEW r \in Readers,
             \/ BeginReading(r) \/ BeginWriting(r) \/ Released(r) \/ SeeNobodyReading(r)
             \/ EnterToWrite(r) \/ TryAgain(r) \/ EndEnterWrite(r)
      PROVE  FALSE
  BY <1>2, <1>3
  DEF BeginReading, BeginWriting, Released, SeeNobodyReading, EnterToWrite, TryAgain,
      EndEnterWrite, Reaches, SimpleAside
<1>4. ASSUME NEW r \in Readers, StartReading(r)
      PROVE  Simple!TakeRead(r)
  <2>1. Same /\ SimpleAside[r] = 0
    BY <1>2, <1>4 DEF StartReading, Count, Reaches, SimpleAside
  <2>2. \A u \in Readers \ {r} : writeCount[u] = 0
    <3> SUFFICES ASSUME NEW u \in Readers \ {r}, writeCount[u] # 0
                 PROVE  FALSE
      OBVIOUS
    <3>1. Inside(u) > 0
      BY <1>2 DEF Inside
    <3> QED
      BY <1>4, <3>1, InsideFacts, SimpleAssumption DEF StartReading, WritingIsFree
  <2> QED
    BY <1>4, <2>1, <2>2 DEF StartReading, Count, Simple!TakeRead, Simple!Up
<1>5. ASSUME NEW r \in Readers, StopReading(r)
      PROVE  Simple!DropRead(r)
  <2>1. Same /\ SimpleAside[r] = 0
    BY <1>2, <1>5 DEF StopReading, Uncount, SimpleAside
  <2> QED
    BY <1>5, <2>1 DEF StopReading, Uncount, Simple!DropRead, Simple!Down
<1>6. ASSUME NEW r \in Readers, ReleaseRead(r)
      PROVE  Simple!PutAside(r)
  <2>1. SimpleAside' = [SimpleAside EXCEPT ![r] = SimpleAside[r] + 1]
    <3>1. SimpleAside' \in [Readers -> Int]
      BY <1>2, <1>6 DEF ReleaseRead, Uncount, SimpleAside
    <3>2. ASSUME NEW u \in Readers
          PROVE  SimpleAside'[u] = IF u = r THEN SimpleAside[r] + 1 ELSE SimpleAside[u]
      BY <1>2, <1>6 DEF ReleaseRead, Uncount, SimpleAside
    <3> QED
      BY <1>2, <3>1, <3>2
  <2> QED
    BY <1>6, <2>1 DEF ReleaseRead, Uncount, Simple!PutAside, Simple!Down, Simple!Up
<1>7. ASSUME NEW r \in Readers, StartWriting(r)
      PROVE  Simple!TakeWrite(r)
  <2>1. readCount[r] = 0 /\ numReading = 0
    BY <1>7 DEF StartWriting, IsAnyoneElseReading, SimpleInv, UpgradeKnown
  <2>2. \A u \in Readers : readCount[u] = 0
    BY <2>1, NobodyReads DEF SimpleInv
  <2>3. Same
    BY <1>2, <1>7 DEF StartWriting, Reaches, SimpleAside
  <2>4. \A u \in Readers \ {r} : writeCount[u] = 0
    <3> SUFFICES ASSUME NEW u \in Readers \ {r}, writeCount[u] # 0
                 PROVE  FALSE
      OBVIOUS
    <3>1. Inside(u) > 0 /\ Inside(r) > 0
      BY <1>2, <1>7 DEF Inside, StartWriting
    <3> QED
      BY <3>1, InsideFacts
  <2> QED
    BY <1>7, <2>2, <2>3, <2>4 DEF StartWriting, Simple!TakeWrite, Simple!Up
<1>8. ASSUME NEW r \in Readers, ReadAgain(r)
      PROVE  Simple!TakeBack(r)
  <2>1. SimpleAside' = [SimpleAside EXCEPT ![r] = SimpleAside[r] - 1] /\ SimpleAside[r] > 0
    <3>1. SimpleAside' \in [Readers -> Int]
      BY <1>2, <1>8 DEF ReadAgain, Count, SimpleAside
    <3>2. ASSUME NEW u \in Readers
          PROVE  SimpleAside'[u] = IF u = r THEN SimpleAside[r] - 1 ELSE SimpleAside[u]
      BY <1>2, <1>8 DEF ReadAgain, Count, SimpleAside
    <3>3. SimpleAside[r] > 0
      BY <1>2, <1>8 DEF ReadAgain, SimpleAside
    <3> QED
      BY <1>2, <3>1, <3>2, <3>3
  <2>2. writeCount[r] > 0
    BY <1>8 DEF ReadAgain, SimpleInv, UpgradeKnown
  <2> QED
    BY <1>8, <2>1, <2>2 DEF ReadAgain, Count, Simple!TakeBack, Simple!Down, Simple!Up
<1>9. ASSUME NEW r \in Readers, StopWriting(r)
      PROVE  Simple!DropWrite(r)
  <2>1. Same /\ SimpleAside[r] = 0
    BY <1>2, <1>9 DEF StopWriting, SimpleAside
  <2> QED
    BY <1>9, <2>1 DEF StopWriting, Simple!DropWrite, Simple!Down
<1> QED
  BY <1>1, <1>3, <1>4, <1>5, <1>6, <1>7, <1>8, <1>9 DEF SimpleNext, Simple!Next

\* ConcurrencyControlSimple keeps the promise of ReadersWriters too.
THEOREM SimpleImplements == SimpleSpec => SimpleExcludes
<1>1. SimpleInit => Simple!Init
  BY DEF SimpleInit, Simple!Init, SimpleAside
<1>2. SimpleInv /\ [SimpleNext]_simpleVars => [Simple!Next]_(Simple!vars)
  BY SimpleStepSimulation
<1> QED
  BY <1>1, <1>2, SimpleInvHolds, PTL DEF SimpleSpec, SimpleExcludes, Simple!Spec

\* Both locks keep it in Foundations: whoever writes is alone, and a thread that
\* upgrades gets its read control back only once it can write (ConcurrencyControl,
\* ConcurrencyControlSimple).
THEOREM LocksExcludeHolds == FoundationsSpec => LocksExclude
<1>1. FoundationsInit => Control!Init /\ Simple!Init /\ ControlInv /\ SimpleInv
  BY ControlInvInit, SimpleInvHolds
  DEF FoundationsInit, ControlInit, Control!Init, ControlAside, SimpleInit, Simple!Init, SimpleAside
<1>2. [FoundationsNext]_foundationVars => [ControlNext]_controlVars /\ [SimpleNext]_simpleVars
  BY DEF FoundationsNext, ProfilesNext, ControlsNext, SimplesNext, CollectionsNext, CellsNext,
         foundationVars
<1>3. ControlInv /\ SimpleInv /\ [FoundationsNext]_foundationVars => ControlInv' /\ SimpleInv'
  BY <1>2, ControlInvStep, SimpleInvHolds
<1>4. ControlInv /\ SimpleInv /\ [FoundationsNext]_foundationVars =>
        [/\ subject = "control" => [Control!Next]_(Control!vars)
         /\ subject = "simple" => [Simple!Next]_(Simple!vars)]_foundationVars
  BY <1>2, ControlStepSimulation, SimpleStepSimulation
<1> QED
  BY <1>1, <1>3, <1>4, PTL DEF FoundationsSpec, LocksExclude

-----------------------------------------------------------------------------
(***************************************************************************)
(* Profiles and keys.                                                      *)
(***************************************************************************)
AllDefault == [o \in Options |-> "default"]

ProfileTypeOK ==
  /\ profile \in [Profiles -> Objects \cup {Null}]
  /\ key \in [Keys -> Blocks \cup {Null}]
  /\ heap \in [Blocks -> {"unused", "key", "freed"}]
  /\ fault \in BOOLEAN /\ careless \in BOOLEAN
  /\ wanted \in [Profiles -> Settings]

\* While no key was given a second owner, that of a profile is alive and no other
\* profile's, and a variable of the program points to memory that was a key once.
KeyOfProfileAlive ==
  \A p \in Profiles : (profile[p] # Null /\ profile[p].key # Null) => heap[profile[p].key] = "key"
KeysOwnedOnce ==
  \A p, q \in Profiles :
    (p # q /\ profile[p] # Null /\ profile[q] # Null /\ profile[p].key # Null) =>
      profile[p].key # profile[q].key
KeysWereMade == \A k \in Keys : key[k] # Null => heap[key[k]] # "unused"

OneOwner ==
  ~careless => ~fault /\ KeyOfProfileAlive /\ KeysOwnedOnce /\ KeysWereMade

\* An option is what the program means it to be, but for the known exceptions.
AsMeant(p, o) ==
  \/ profile[p].option[o] = wanted[p][o]
  \/ o \in Limits /\ p \in copies
  \/ o \in Sizes /\ profile[p].option[o] = "swapped"

OptionsMeant == \A p \in Profiles :
  /\ profile[p] = Null => wanted[p] = AllDefault
  /\ profile[p] # Null => \A o \in Options : AsMeant(p, o)

ProfileInv == ProfileTypeOK /\ OneOwner /\ OptionsMeant

\* What the types say of a profile that exists.
LEMMA ProfileFacts ==
  ASSUME ProfileTypeOK, NEW p \in Profiles, profile[p] # Null
  PROVE  /\ profile[p] \in Objects
         /\ profile[p].option \in Settings /\ profile[p].key \in Blocks \cup {Null}
BY DEF ProfileTypeOK, Objects

\* An object is none of the values of a NULL pointer.
LEMMA ObjectIsNotNull ==
  ASSUME NEW f \in Settings, NEW k \in Blocks \cup {Null}
  PROVE  /\ [option |-> f, key |-> k] \in Objects /\ [option |-> f, key |-> k] # Null
         /\ [option |-> f, key |-> k].option = f /\ [option |-> f, key |-> k].key = k
BY NullIsNoProfile DEF Objects

\* The heap after a key was deleted.
LEMMA DeletedFacts ==
  ASSUME ProfileTypeOK, NEW b \in Blocks \cup {Null}
  PROVE  /\ Deleted(b) \in [Blocks -> {"unused", "key", "freed"}]
         /\ \A c \in Blocks : c # b => Deleted(b)[c] = heap[c]
         /\ b # Null => Deleted(b)[b] = "freed"
BY ProfileAssumption DEF ProfileTypeOK, Deleted

\* A program that makes a key gets memory that no profile points to.
LEMMA CreateKeyKeeps ==
  ASSUME ProfileInv, NEW k \in Keys, CreateKey(k)
  PROVE  ProfileInv'
<1>1. UNCHANGED <<profile, fault, wanted, copies, careless>>
  BY DEF CreateKey
<1>2. PICK b \in Blocks :
        /\ heap[b] = "unused"
        /\ heap' = [heap EXCEPT ![b] = "key"] /\ key' = [key EXCEPT ![k] = b]
  BY DEF CreateKey
<1>3. /\ heap' \in [Blocks -> {"unused", "key", "freed"}] /\ key' \in [Keys -> Blocks \cup {Null}]
      /\ heap'[b] = "key" /\ \A c \in Blocks : c # b => heap'[c] = heap[c]
      /\ key'[k] = b /\ \A l \in Keys : l # k => key'[l] = key[l]
  BY <1>2 DEF ProfileInv, ProfileTypeOK
<1>4. ProfileTypeOK'
  BY <1>1, <1>3 DEF ProfileInv, ProfileTypeOK
<1>5. OneOwner'
  <2> SUFFICES ASSUME ~careless
               PROVE  KeyOfProfileAlive' /\ KeysWereMade'
    BY <1>1 DEF OneOwner, ProfileInv, KeysOwnedOnce
  <2>1. KeyOfProfileAlive /\ KeysWereMade
    BY DEF OneOwner, ProfileInv
  <2>2. KeyOfProfileAlive'
    <3> SUFFICES ASSUME NEW p \in Profiles, profile[p] # Null, profile[p].key # Null
                 PROVE  heap'[profile[p].key] = "key"
      BY <1>1 DEF KeyOfProfileAlive
    <3>1. profile[p].key \in Blocks /\ heap[profile[p].key] = "key"
      BY <2>1, ProfileFacts DEF KeyOfProfileAlive, ProfileInv
    <3> QED
      BY <1>3, <3>1
  <2>3. KeysWereMade'
    <3> SUFFICES ASSUME NEW l \in Keys, key'[l] # Null
                 PROVE  heap'[key'[l]] # "unused"
      BY DEF KeysWereMade
    <3>1. CASE l = k
      BY <1>3, <3>1
    <3>2. CASE l # k
      <4>1. key[l] \in Blocks /\ key'[l] = key[l] /\ heap[key[l]] # "unused"
        BY <1>3, <2>1, <3>2 DEF KeysWereMade, ProfileInv, ProfileTypeOK
      <4> QED
        BY <1>3, <4>1
    <3> QED
      BY <3>1, <3>2
  <2> QED
    BY <2>2, <2>3
<1>6. OptionsMeant'
  BY <1>1 DEF ProfileInv, OptionsMeant, AsMeant
<1> QED
  BY <1>4, <1>5, <1>6 DEF ProfileInv

\* A program that deletes a key of no profile disturbs none.
LEMMA DeleteKeyKeeps ==
  ASSUME ProfileInv, NEW k \in Keys, DeleteKey(k)
  PROVE  ProfileInv'
<1> DEFINE b == key[k]
<1>1. /\ UNCHANGED <<profile, wanted, copies>>
      /\ heap' = Deleted(b) /\ fault' = Freed(b)
      /\ careless' = (careless \/ Owned(b) \/ Freed(b))
      /\ key' = [key EXCEPT ![k] = Null] /\ b # Null
  BY DEF DeleteKey
<1>2. b \in Blocks /\ ProfileTypeOK
  BY <1>1 DEF ProfileInv, ProfileTypeOK
<1>3. /\ heap' \in [Blocks -> {"unused", "key", "freed"}]
      /\ heap'[b] = "freed" /\ \A c \in Blocks : c # b => heap'[c] = heap[c]
  BY <1>1, <1>2, DeletedFacts
<1>4. /\ key' \in [Keys -> Blocks \cup {Null}]
      /\ \A l \in Keys : key'[l] # Null => key'[l] = key[l] /\ key[l] \in Blocks
  BY <1>1 DEF ProfileInv, ProfileTypeOK
<1>5. fault' \in BOOLEAN /\ careless' \in BOOLEAN
  BY <1>1 DEF Freed
<1>6. ProfileTypeOK'
  BY <1>1, <1>3, <1>4, <1>5 DEF ProfileInv, ProfileTypeOK
<1>7. OneOwner'
  <2> SUFFICES ASSUME ~careless'
               PROVE  ~fault' /\ KeyOfProfileAlive' /\ KeysOwnedOnce' /\ KeysWereMade'
    BY DEF OneOwner
  <2>1. ~careless /\ ~Owned(b) /\ ~Freed(b)
    BY <1>1
  <2>2. KeyOfProfileAlive /\ KeysOwnedOnce /\ KeysWereMade
    BY <2>1 DEF OneOwner, ProfileInv
  <2>3. ~fault' /\ KeysOwnedOnce'
    BY <1>1, <2>1, <2>2 DEF KeysOwnedOnce
  <2>4. KeyOfProfileAlive'
    <3> SUFFICES ASSUME NEW p \in Profiles, profile[p] # Null, profile[p].key # Null
                 PROVE  heap'[profile[p].key] = "key"
      BY <1>1 DEF KeyOfProfileAlive
    <3>1. profile[p].key \in Blocks /\ heap[profile[p].key] = "key"
      BY <1>2, <2>2, ProfileFacts DEF KeyOfProfileAlive
    <3>2. profile[p].key # b
      BY <1>1, <2>1 DEF Owned
    <3> QED
      BY <1>3, <3>1, <3>2
  <2>5. KeysWereMade'
    BY <1>2, <1>3, <1>4, <2>2 DEF KeysWereMade
  <2> QED
    BY <2>3, <2>4, <2>5
<1>8. OptionsMeant'
  BY <1>1 DEF ProfileInv, OptionsMeant, AsMeant
<1> QED
  BY <1>6, <1>7, <1>8 DEF ProfileInv

\* A variable forgets its key, or takes that of a profile.
LEMMA KeyVariableKeeps ==
  ASSUME ProfileInv, NEW k \in Keys,
         ForgetKey(k) \/ \E p \in Profiles : GetProfileDecryptKeyUDP(p, k)
  PROVE  ProfileInv'
<1>1. UNCHANGED <<profile, heap, fault, wanted, copies, careless>>
  BY DEF ForgetKey, GetProfileDecryptKeyUDP
<1>2. PICK b \in Blocks \cup {Null} :
        /\ key' = [key EXCEPT ![k] = b]
        /\ b # Null => \E p \in Profiles : profile[p] # Null /\ profile[p].key = b
  <2>1. CASE ForgetKey(k)
    BY <2>1 DEF ForgetKey
  <2>2. CASE \E p \in Profiles : GetProfileDecryptKeyUDP(p, k)
    BY <2>2, ProfileFacts DEF GetProfileDecryptKeyUDP, Exists, ProfileInv
  <2> QED
    BY <2>1, <2>2
<1>3. /\ key' \in [Keys -> Blocks \cup {Null}] /\ key'[k] = b
      /\ \A l \in Keys : l # k => key'[l] = key[l]
  BY <1>2 DEF ProfileInv, ProfileTypeOK
<1>4. ProfileTypeOK'
  BY <1>1, <1>3 DEF ProfileInv, ProfileTypeOK
<1>5. OneOwner'
  <2> SUFFICES ASSUME ~careless, NEW l \in Keys, key'[l] # Null
               PROVE  heap[key'[l]] # "unused"
    BY <1>1 DEF ProfileInv, OneOwner, KeyOfProfileAlive, KeysOwnedOnce, KeysWereMade
  <2>1. KeyOfProfileAlive /\ KeysWereMade
    BY DEF ProfileInv, OneOwner
  <2> QED
    BY <1>2, <1>3, <2>1 DEF KeyOfProfileAlive, KeysWereMade
<1>6. OptionsMeant'
  BY <1>1 DEF ProfileInv, OptionsMeant, AsMeant
<1> QED
  BY <1>4, <1>5, <1>6 DEF ProfileInv

\* A profile deletes its key for a new one, which is nobody's and alive.
LEMMA SetDecryptKeyKeeps ==
  ASSUME ProfileInv, NEW p \in Profiles, NEW k \in Keys, SetProfileDecryptKeyUDP(p, k)
  PROVE  ProfileInv'
<1> DEFINE oldKey == profile[p].key
           new == key[k]
<1>1. /\ profile[p] # Null /\ UNCHANGED <<key, wanted, copies>>
      /\ heap' = Deleted(oldKey)
      /\ fault' = (Freed(oldKey) \/ (new # Null /\ heap'[new] = "freed"))
      /\ profile' = [profile EXCEPT ![p].key = new]
      /\ careless' = (careless \/ Owned(new) \/ Freed(new))
  BY DEF SetProfileDecryptKeyUDP, SetDecryptKeyUDP, Exists
<1>2. /\ profile[p] \in Objects /\ oldKey \in Blocks \cup {Null} /\ new \in Blocks \cup {Null}
      /\ ProfileTypeOK
  BY <1>1, ProfileFacts DEF ProfileInv, ProfileTypeOK
<1>3. /\ heap' \in [Blocks -> {"unused", "key", "freed"}]
      /\ \A c \in Blocks : c # oldKey => heap'[c] = heap[c]
  BY <1>1, <1>2, DeletedFacts
<1>4. /\ profile'[p] \in Objects /\ profile'[p] # Null
      /\ profile'[p].key = new /\ profile'[p].option = profile[p].option
      /\ \A q \in Profiles : q # p => profile'[q] = profile[q]
  <2>1. [profile[p] EXCEPT !.key = new] = [option |-> profile[p].option, key |-> new]
    BY <1>2 DEF Objects
  <2>2. /\ profile'[p] = [profile[p] EXCEPT !.key = new]
        /\ \A q \in Profiles : q # p => profile'[q] = profile[q]
    BY <1>1 DEF ProfileInv, ProfileTypeOK
  <2>3. profile[p].option \in Settings
    BY <1>2 DEF Objects
  <2> QED
    BY <1>2, <2>1, <2>2, <2>3, ObjectIsNotNull
<1>5. profile' \in [Profiles -> Objects \cup {Null}]
  <2>1. \A q \in Profiles : profile'[q] \in Objects \cup {Null}
    BY <1>4 DEF ProfileInv, ProfileTypeOK
  <2>2. profile' = [q \in Profiles |-> profile'[q]]
    BY <1>1 DEF ProfileInv, ProfileTypeOK
  <2> QED
    BY <2>1, <2>2
<1>6. fault' \in BOOLEAN /\ careless' \in BOOLEAN
  BY <1>1 DEF Freed
<1>7. ProfileTypeOK'
  BY <1>1, <1>3, <1>5, <1>6 DEF ProfileInv, ProfileTypeOK
<1>8. OneOwner'
  <2> SUFFICES ASSUME ~careless'
               PROVE  ~fault' /\ KeyOfProfileAlive' /\ KeysOwnedOnce' /\ KeysWereMade'
    BY DEF OneOwner
  <2>1. ~careless /\ ~Owned(new) /\ ~Freed(new)
    BY <1>1
  <2>2. KeyOfProfileAlive /\ KeysOwnedOnce /\ KeysWereMade
    BY <2>1 DEF OneOwner, ProfileInv
  <2>3. new # Null => /\ new # oldKey /\ heap'[new] = heap[new] /\ heap[new] = "key"
                      /\ \A q \in Profiles : profile[q] # Null => profile[q].key # new
    <3> SUFFICES ASSUME new # Null
                 PROVE  /\ new # oldKey /\ heap'[new] = heap[new] /\ heap[new] = "key"
                        /\ \A q \in Profiles : profile[q] # Null => profile[q].key # new
      OBVIOUS
    <3>1. \A q \in Profiles : profile[q] # Null => profile[q].key # new
      BY <2>1 DEF Owned
    <3>2. new \in Blocks /\ new # oldKey
      BY <1>1, <1>2, <3>1
    <3>3. heap[new] # "unused" /\ heap[new] # "freed"
      BY <2>1, <2>2 DEF KeysWereMade, Freed
    <3> QED
      BY <1>2, <1>3, <3>1, <3>2, <3>3 DEF ProfileTypeOK
  <2>4. ~fault'
    <3>1. ~Freed(oldKey)
      BY <1>1, <2>2 DEF Freed, KeyOfProfileAlive
    <3> QED
      BY <1>1, <2>3, <3>1
  <2>5. KeysOwnedOnce'
    <3> SUFFICES ASSUME NEW r \in Profiles, NEW q \in Profiles, r # q,
                        profile'[r] # Null, profile'[q] # Null, profile'[r].key # Null
                 PROVE  profile'[r].key # profile'[q].key
      BY DEF KeysOwnedOnce
    <3>1. CASE r = p
      BY <1>4, <2>3, <3>1
    <3>2. CASE q = p
      BY <1>4, <2>3, <3>2
    <3>3. CASE r # p /\ q # p
      BY <1>4, <2>2, <3>3 DEF KeysOwnedOnce
    <3> QED
      BY <3>1, <3>2, <3>3
  <2>6. KeyOfProfileAlive'
    <3> SUFFICES ASSUME NEW q \in Profiles, profile'[q] # Null, profile'[q].key # Null
                 PROVE  heap'[profile'[q].key] = "key"
      BY DEF KeyOfProfileAlive
    <3>1. CASE q = p
      BY <1>4, <2>3, <3>1
    <3>2. CASE q # p
      <4>1. /\ profile'[q] = profile[q] /\ profile[q].key \in Blocks
            /\ heap[profile[q].key] = "key" /\ profile[q].key # oldKey
        BY <1>1, <1>2, <1>4, <2>2, <3>2, ProfileFacts DEF KeyOfProfileAlive, KeysOwnedOnce
      <4> QED
        BY <1>3, <4>1
    <3> QED
      BY <3>1, <3>2
  <2>7. KeysWereMade'
    <3> SUFFICES ASSUME NEW l \in Keys, key[l] # Null
                 PROVE  heap'[key[l]] # "unused"
      BY <1>1 DEF KeysWereMade
    <3>1. key[l] \in Blocks /\ heap[key[l]] # "unused"
      BY <2>2 DEF KeysWereMade, ProfileInv, ProfileTypeOK
    <3>2. CASE key[l] = oldKey
      BY <1>1, <1>2, <3>1, <3>2, DeletedFacts
    <3>3. CASE key[l] # oldKey
      BY <1>3, <3>1, <3>3
    <3> QED
      BY <3>2, <3>3
  <2> QED
    BY <2>4, <2>5, <2>6, <2>7
<1>9. OptionsMeant'
  BY <1>1, <1>4 DEF ProfileInv, OptionsMeant, AsMeant
<1> QED
  BY <1>7, <1>8, <1>9 DEF ProfileInv

-----------------------------------------------------------------------------
(***************************************************************************)
(* Options.                                                                *)
(***************************************************************************)
Typed(f) == \A o \in DOMAIN f : f[o] \in OptionContents

\* What options may hold.
LEMMA OptionContentsFacts ==
  /\ "default" \in OptionContents /\ "swapped" \in OptionContents /\ "junk" \in OptionContents
  /\ \A v \in Values : v \in OptionContents
  /\ \A v \in Values \cup {"zero"} : v \in OptionContents
BY DEF OptionContents, Values

\* All options at their defaults.
LEMMA DefaultIsSetting == AllDefault \in Settings
BY OptionContentsFacts DEF AllDefault, Settings

\* The limits are options.
LEMMA LimitsAreOptions == \A o \in Limits : o \in Options
BY DEF Options

\* Overriding options gives options.
LEMMA OverrideFacts ==
  ASSUME NEW r \in Settings, NEW f, Typed(f)
  PROVE  /\ Override(r, f) \in Settings
         /\ \A o \in Options : Override(r, f)[o] = IF o \in DOMAIN f THEN f[o] ELSE r[o]
<1> DEFINE c == [o \in Options |-> IF o \in DOMAIN f THEN f[o] ELSE r[o]]
<1>1. \A o \in Options : r[o] \in OptionContents
  BY DEF Settings
<1>2. \A o \in Options : c[o] \in OptionContents
  <2> SUFFICES ASSUME NEW o \in Options
               PROVE  c[o] \in OptionContents
    OBVIOUS
  <2>1. CASE o \in DOMAIN f
    BY <2>1 DEF Typed
  <2>2. CASE o \notin DOMAIN f
    BY <1>1, <2>2
  <2> QED
    BY <2>1, <2>2
<1>3. c \in [Options -> OptionContents]
  BY <1>2
<1> QED
  BY <1>3 DEF Settings, Override

\* The program changes options and the command stores what it means, or swapped sizes.
LEMMA StoreKeeps ==
  ASSUME ProfileInv, NEW p \in Profiles, NEW stored, NEW meant, Store(p, stored, meant),
         Typed(stored), Typed(meant), DOMAIN stored = DOMAIN meant,
         \A o \in DOMAIN stored : stored[o] = meant[o] \/ (o \in Sizes /\ stored[o] = "swapped")
  PROVE  ProfileInv'
<1>1. /\ profile[p] # Null /\ UNCHANGED <<key, heap, fault, copies, careless>>
      /\ profile' = [profile EXCEPT ![p].option = Override(profile[p].option, stored)]
      /\ wanted' = [wanted EXCEPT ![p] = Override(wanted[p], meant)]
  BY DEF Store, Exists
<1>2. /\ profile[p] \in Objects /\ profile[p].option \in Settings
      /\ profile[p].key \in Blocks \cup {Null} /\ wanted[p] \in Settings
      /\ profile \in [Profiles -> Objects \cup {Null}] /\ wanted \in [Profiles -> Settings]
  BY <1>1, ProfileFacts DEF ProfileInv, ProfileTypeOK
<1>3. PICK c \in Settings :
        /\ c = Override(profile[p].option, stored)
        /\ \A o \in Options : c[o] = IF o \in DOMAIN stored THEN stored[o] ELSE profile[p].option[o]
  BY <1>2, OverrideFacts
<1>4. PICK w \in Settings :
        /\ w = Override(wanted[p], meant)
        /\ \A o \in Options : w[o] = IF o \in DOMAIN meant THEN meant[o] ELSE wanted[p][o]
  BY <1>2, OverrideFacts
<1>5. /\ profile'[p] \in Objects /\ profile'[p] # Null
      /\ profile'[p].key = profile[p].key /\ profile'[p].option = c
      /\ \A q \in Profiles : q # p => profile'[q] = profile[q]
  <2>1. [profile[p] EXCEPT !.option = c] = [option |-> c, key |-> profile[p].key]
    BY <1>2 DEF Objects
  <2>2. /\ profile'[p] = [profile[p] EXCEPT !.option = c]
        /\ \A q \in Profiles : q # p => profile'[q] = profile[q]
    BY <1>1, <1>2, <1>3
  <2> QED
    BY <1>2, <2>1, <2>2, ObjectIsNotNull
<1>6. profile' \in [Profiles -> Objects \cup {Null}]
  <2>1. \A q \in Profiles : profile'[q] \in Objects \cup {Null}
    BY <1>2, <1>5
  <2>2. profile' = [q \in Profiles |-> profile'[q]]
    BY <1>1, <1>2
  <2> QED
    BY <2>1, <2>2
<1>7. /\ wanted' \in [Profiles -> Settings] /\ wanted'[p] = w
      /\ \A q \in Profiles : q # p => wanted'[q] = wanted[q]
  BY <1>1, <1>2, <1>4
<1>8. ProfileTypeOK'
  BY <1>1, <1>6, <1>7 DEF ProfileInv, ProfileTypeOK
<1>9. OneOwner'
  <2>1. \A q \in Profiles :
          /\ profile'[q] # Null <=> profile[q] # Null
          /\ profile[q] # Null => profile'[q].key = profile[q].key
    BY <1>1, <1>5
  <2>2. KeyOfProfileAlive => KeyOfProfileAlive'
    BY <1>1, <2>1 DEF KeyOfProfileAlive
  <2>3. KeysOwnedOnce => KeysOwnedOnce'
    BY <2>1 DEF KeysOwnedOnce
  <2> QED
    BY <1>1, <2>2, <2>3 DEF ProfileInv, OneOwner, KeysWereMade
<1>10. OptionsMeant'
  <2> SUFFICES ASSUME NEW q \in Profiles
               PROVE  /\ profile'[q] = Null => wanted'[q] = AllDefault
                      /\ profile'[q] # Null => \A o \in Options : AsMeant(q, o)'
    BY DEF OptionsMeant, AllDefault
  <2>1. CASE q # p
    BY <1>1, <1>5, <1>7, <2>1 DEF ProfileInv, OptionsMeant, AsMeant
  <2>2. CASE q = p
    <3> SUFFICES ASSUME NEW o \in Options
                 PROVE  AsMeant(p, o)'
      BY <1>5, <2>2
    <3>1. AsMeant(p, o)
      BY <1>1 DEF ProfileInv, OptionsMeant
    <3>2. CASE o \in DOMAIN stored
      <4>1. c[o] = stored[o] /\ w[o] = meant[o]
        BY <1>3, <1>4, <3>2
      <4> QED
        BY <1>5, <1>7, <3>2, <4>1 DEF AsMeant
    <3>3. CASE o \notin DOMAIN stored
      <4>1. c[o] = profile[p].option[o] /\ w[o] = wanted[p][o]
        BY <1>3, <1>4, <3>3
      <4> QED
        BY <1>1, <1>5, <1>7, <3>1, <4>1 DEF AsMeant
    <3> QED
      BY <3>2, <3>3
  <2> QED
    BY <2>1, <2>2
<1> QED
  BY <1>8, <1>9, <1>10 DEF ProfileInv

\* Most commands store one value.
LEMMA SetKeeps ==
  ASSUME ProfileInv, NEW p \in Profiles, NEW o, NEW v \in Values, Set(p, o, v)
  PROVE  ProfileInv'
<1>1. DOMAIN One(o, v) = {o} /\ One(o, v)[o] = v
  BY DEF One
<1>2. Typed(One(o, v))
  BY <1>1, OptionContentsFacts DEF Typed
<1>3. Store(p, One(o, v), One(o, v))
  BY DEF Set
<1> QED
  BY <1>2, <1>3, StoreKeeps

\* The others store several.
LEMMA SetCommandKeeps ==
  ASSUME ProfileInv, NEW p \in Profiles, SetCommand(p)
  PROVE  ProfileInv'
<1>1. ASSUME NEW v \in Values, SetProfileHandshakeEnabled(p, v)
      PROVE  ProfileInv'
  <2>1. PICK f : /\ Store(p, f, f)
                 /\ f = IF v = "other" THEN [o \in {"handshakeEnabled", "enabledUDP"} |-> v]
                                       ELSE One("handshakeEnabled", v)
    BY <1>1 DEF SetProfileHandshakeEnabled
  <2>2. Typed(f)
    BY <2>1, OptionContentsFacts DEF Typed, One
  <2> QED
    BY <2>1, <2>2, StoreKeeps
<1>2. ASSUME NEW v \in [{"localAddrTCP", "localAddrUDP"} -> Values], SetProfileLocal(p, v)
      PROVE  ProfileInv'
  <2>1. Typed(v)
    BY OptionContentsFacts DEF Typed
  <2> QED
    BY <1>2, <2>1, StoreKeeps DEF SetProfileLocal
<1>6. ASSUME NEW v \in [Recycle -> Values], SetProfileMemoryRecycleUDP(p, v)
      PROVE  ProfileInv'
  <2>1. Typed(v)
    BY OptionContentsFacts DEF Typed
  <2> QED
    BY <1>6, <2>1, StoreKeeps DEF SetProfileMemoryRecycleUDP
<1>3. ASSUME NEW v \in [Sizes -> Values], NEW references \in BOOLEAN,
             SetProfileBufferSizes(p, v, references)
      PROVE  ProfileInv'
  <2> DEFINE swapped == [o \in Sizes |-> "swapped"]
  <2>1. Typed(v) /\ DOMAIN v = Sizes
    BY OptionContentsFacts DEF Typed
  <2>2. Typed(swapped) /\ DOMAIN swapped = Sizes /\ \A o \in Sizes : swapped[o] = "swapped"
    BY OptionContentsFacts DEF Typed
  <2>3. CASE references
    <3>1. Store(p, v, v)
      BY <1>3, <2>3 DEF SetProfileBufferSizes
    <3> QED
      BY <2>1, <3>1, StoreKeeps
  <2>4. CASE ~references
    <3>1. Store(p, swapped, v)
      BY <1>3, <2>4 DEF SetProfileBufferSizes
    <3> HIDE DEF swapped
    <3> QED
      BY <2>1, <2>2, <3>1, StoreKeeps
  <2> QED
    BY <2>3, <2>4
<1>4. ASSUME NEW D, NEW v \in [D -> Values \cup {"zero"}], Store(p, NewLimits(v), NewLimits(v))
      PROVE  ProfileInv'
  <2>1. Typed(NewLimits(v))
    BY OptionContentsFacts DEF Typed, NewLimits
  <2> QED
    BY <1>4, <2>1, StoreKeeps
<1>5. ASSUME NEW v \in Values, NEW o, Set(p, o, v)
      PROVE  ProfileInv'
  BY <1>5, SetKeeps
<1> QED
  BY <1>1, <1>2, <1>3, <1>4, <1>5, <1>6
  DEF SetCommand, SetProfileServerTimeout, SetProfileEnabledUDP, SetProfileAutoResizeTCP,
      SetProfileGracefulDisconnectEnabled, SetProfileSendTimeout, SetProfilePostfixTCP,
      SetProfileNagleEnabledTCP, SetProfileLocalTCP, SetProfileLocalUDP,
      SetProfileReusableUDP, SetProfileNumOperationsUDP, SetProfileMemoryRecycleTCP,
      SetProfileModeTCP, SetProfileModeUDP,
      SetProfileSendMemoryLimit, SetProfileRecvMemoryLimit

-----------------------------------------------------------------------------
(***************************************************************************)
(* Profiles as a whole, and instances.                                     *)
(***************************************************************************)
\* A new profile has the default options, as its program means it to.
LEMMA CreateInstanceProfileKeeps ==
  ASSUME ProfileInv, NEW p \in Profiles, CreateInstanceProfile(p)
  PROVE  ProfileInv'
<1>1. /\ profile[p] = Null /\ UNCHANGED <<key, heap, fault, wanted, copies, careless>>
      /\ profile' = [profile EXCEPT ![p] = Defaults]
  BY DEF CreateInstanceProfile
<1>2. Defaults \in Objects /\ Defaults # Null /\ Defaults.option = AllDefault /\ Defaults.key = Null
  <2>1. AllDefault \in Settings
    BY DefaultIsSetting
  <2> QED
    BY <2>1, ObjectIsNotNull DEF Defaults, AllDefault
<1>3. /\ profile' \in [Profiles -> Objects \cup {Null}] /\ profile'[p] = Defaults
      /\ \A q \in Profiles : q # p => profile'[q] = profile[q]
  BY <1>1, <1>2 DEF ProfileInv, ProfileTypeOK
<1>4. ProfileTypeOK'
  BY <1>1, <1>3 DEF ProfileInv, ProfileTypeOK
<1>5. OneOwner'
  <2>1. KeyOfProfileAlive => KeyOfProfileAlive'
    BY <1>1, <1>2, <1>3 DEF KeyOfProfileAlive
  <2>2. KeysOwnedOnce => KeysOwnedOnce'
    <3> SUFFICES ASSUME KeysOwnedOnce, NEW r \in Profiles, NEW q \in Profiles, r # q,
                        profile'[r] # Null, profile'[q] # Null, profile'[r].key # Null
                 PROVE  profile'[r].key # profile'[q].key
      BY DEF KeysOwnedOnce
    <3>1. CASE r = p \/ q = p
      BY <1>2, <1>3, <3>1
    <3>2. CASE r # p /\ q # p
      BY <1>3, <3>2 DEF KeysOwnedOnce
    <3> QED
      BY <3>1, <3>2
  <2> QED
    BY <1>1, <2>1, <2>2 DEF ProfileInv, OneOwner, KeysWereMade
<1>6. OptionsMeant'
  <2> SUFFICES ASSUME NEW q \in Profiles
               PROVE  /\ profile'[q] = Null => wanted'[q] = AllDefault
                      /\ profile'[q] # Null => \A o \in Options : AsMeant(q, o)'
    BY DEF OptionsMeant, AllDefault
  <2>1. CASE q # p
    BY <1>1, <1>3, <2>1 DEF ProfileInv, OptionsMeant, AsMeant
  <2>2. CASE q = p
    <3>1. wanted'[p] = AllDefault
      BY <1>1 DEF ProfileInv, OptionsMeant
    <3> QED
      BY <1>2, <1>3, <2>2, <3>1 DEF AsMeant
  <2> QED
    BY <2>1, <2>2
<1> QED
  BY <1>4, <1>5, <1>6 DEF ProfileInv

\* The destructor deletes a key that is its own.
LEMMA DeleteInstanceProfileKeeps ==
  ASSUME ProfileInv, NEW p \in Profiles, DeleteInstanceProfile(p)
  PROVE  ProfileInv'
<1> DEFINE oldKey == profile[p].key
<1>1. /\ profile[p] # Null /\ UNCHANGED <<key, careless>>
      /\ heap' = Deleted(oldKey) /\ fault' = Freed(oldKey)
      /\ profile' = [profile EXCEPT ![p] = Null]
      /\ wanted' = [wanted EXCEPT ![p] = AllDefault]
      /\ copies' = copies \ {p}
  BY DEF DeleteInstanceProfile, Exists, AllDefault
<1>2. oldKey \in Blocks \cup {Null} /\ ProfileTypeOK
  BY <1>1, ProfileFacts DEF ProfileInv
<1>3. /\ heap' \in [Blocks -> {"unused", "key", "freed"}]
      /\ \A c \in Blocks : c # oldKey => heap'[c] = heap[c]
  BY <1>1, <1>2, DeletedFacts
<1>4. /\ profile' \in [Profiles -> Objects \cup {Null}] /\ profile'[p] = Null
      /\ \A q \in Profiles : q # p => profile'[q] = profile[q]
  BY <1>1 DEF ProfileInv, ProfileTypeOK
<1>5. /\ wanted' \in [Profiles -> Settings] /\ wanted'[p] = AllDefault
      /\ \A q \in Profiles : q # p => wanted'[q] = wanted[q]
  <2>1. AllDefault \in Settings
    BY DefaultIsSetting
  <2> QED
    BY <1>1, <2>1 DEF ProfileInv, ProfileTypeOK
<1>6. fault' \in BOOLEAN
  BY <1>1 DEF Freed
<1>7. ProfileTypeOK'
  BY <1>1, <1>3, <1>4, <1>5, <1>6 DEF ProfileInv, ProfileTypeOK
<1>8. OneOwner'
  <2> SUFFICES ASSUME ~careless
               PROVE  ~fault' /\ KeyOfProfileAlive' /\ KeysOwnedOnce' /\ KeysWereMade'
    BY <1>1 DEF OneOwner
  <2>1. KeyOfProfileAlive /\ KeysOwnedOnce /\ KeysWereMade
    BY DEF OneOwner, ProfileInv
  <2>2. ~fault'
    BY <1>1, <2>1 DEF Freed, KeyOfProfileAlive
  <2>3. KeysOwnedOnce'
    BY <1>4, <2>1 DEF KeysOwnedOnce
  <2>4. KeyOfProfileAlive'
    <3> SUFFICES ASSUME NEW q \in Profiles, profile'[q] # Null, profile'[q].key # Null
                 PROVE  heap'[profile'[q].key] = "key"
      BY DEF KeyOfProfileAlive
    <3>1. /\ q # p /\ profile'[q] = profile[q] /\ profile[q].key \in Blocks
          /\ heap[profile[q].key] = "key"
      BY <1>2, <1>4, <2>1, ProfileFacts DEF KeyOfProfileAlive
    <3>2. profile[q].key # oldKey
      BY <1>1, <2>1, <3>1 DEF KeysOwnedOnce
    <3> QED
      BY <1>3, <3>1, <3>2
  <2>5. KeysWereMade'
    <3> SUFFICES ASSUME NEW l \in Keys, key[l] # Null
                 PROVE  heap'[key[l]] # "unused"
      BY <1>1 DEF KeysWereMade
    <3>1. key[l] \in Blocks /\ heap[key[l]] # "unused"
      BY <2>1 DEF KeysWereMade, ProfileInv, ProfileTypeOK
    <3>2. CASE key[l] = oldKey
      BY <1>1, <1>2, <3>1, <3>2, DeletedFacts
    <3>3. CASE key[l] # oldKey
      BY <1>3, <3>1, <3>3
    <3> QED
      BY <3>2, <3>3
  <2> QED
    BY <2>2, <2>3, <2>4, <2>5
<1>9. OptionsMeant'
  <2> SUFFICES ASSUME NEW q \in Profiles
               PROVE  /\ profile'[q] = Null => wanted'[q] = AllDefault
                      /\ profile'[q] # Null => \A o \in Options : AsMeant(q, o)'
    BY DEF OptionsMeant, AllDefault
  <2>1. CASE q # p
    BY <1>1, <1>4, <1>5, <2>1 DEF ProfileInv, OptionsMeant, AsMeant
  <2>2. CASE q = p
    BY <1>4, <1>5, <2>2
  <2> QED
    BY <2>1, <2>2
<1> QED
  BY <1>7, <1>8, <1>9 DEF ProfileInv

\* A copy has the options of the original but for the limits, and its key: as long as
\* no key has two owners there is none.
LEMMA CopyKeeps ==
  ASSUME ProfileInv, NEW p \in Profiles, NEW q \in Profiles, p # q, profile[q] # Null, Copy(p, q)
  PROVE  ProfileInv'
<1>1. PICK kept :
        /\ kept = IF profile[p] = Null THEN [o \in Limits |-> "junk"]
                                       ELSE [o \in Limits |-> profile[p].option[o]]
        /\ profile' = [profile EXCEPT ![p] =
                         [option |-> Override(profile[q].option, kept), key |-> profile[q].key]]
  BY DEF Copy
<1>2. /\ UNCHANGED <<key, heap, fault>>
      /\ wanted' = [wanted EXCEPT ![p] = wanted[q]]
      /\ copies' = copies \cup {p}
      /\ careless' = (careless \/ profile[q].key # Null)
  BY DEF Copy
<1>3. DOMAIN kept = Limits /\ Typed(kept)
  <2>1. CASE profile[p] = Null
    BY <1>1, <2>1, OptionContentsFacts DEF Typed
  <2>2. CASE profile[p] # Null
    <3>1. profile[p].option \in Settings
      BY <2>2, ProfileFacts DEF ProfileInv
    <3>2. \A o \in Limits : profile[p].option[o] \in OptionContents
      BY <3>1, LimitsAreOptions DEF Settings
    <3> QED
      BY <1>1, <2>2, <3>2 DEF Typed
  <2> QED
    BY <2>1, <2>2
<1>4. profile[q].option \in Settings /\ profile[q].key \in Blocks \cup {Null}
  BY ProfileFacts DEF ProfileInv
<1>5. PICK c \in Settings :
        /\ c = Override(profile[q].option, kept)
        /\ \A o \in Options \ Limits : c[o] = profile[q].option[o]
  BY <1>3, <1>4, OverrideFacts
<1>6. /\ [option |-> c, key |-> profile[q].key] \in Objects
      /\ [option |-> c, key |-> profile[q].key] # Null
      /\ [option |-> c, key |-> profile[q].key].option = c
      /\ [option |-> c, key |-> profile[q].key].key = profile[q].key
  BY <1>4, ObjectIsNotNull
<1>7. /\ profile' \in [Profiles -> Objects \cup {Null}]
      /\ profile'[p] # Null /\ profile'[p].option = c /\ profile'[p].key = profile[q].key
      /\ \A r \in Profiles : r # p => profile'[r] = profile[r]
  BY <1>1, <1>5, <1>6 DEF ProfileInv, ProfileTypeOK
<1>8. /\ wanted' \in [Profiles -> Settings] /\ wanted'[p] = wanted[q]
      /\ \A r \in Profiles : r # p => wanted'[r] = wanted[r]
  BY <1>2 DEF ProfileInv, ProfileTypeOK
<1>9. careless' \in BOOLEAN
  BY <1>2 DEF ProfileInv, ProfileTypeOK
<1>10. ProfileTypeOK'
  BY <1>2, <1>7, <1>8, <1>9 DEF ProfileInv, ProfileTypeOK
<1>11. OneOwner'
  <2> SUFFICES ASSUME ~careless'
               PROVE  ~fault' /\ KeyOfProfileAlive' /\ KeysOwnedOnce' /\ KeysWereMade'
    BY DEF OneOwner
  <2>1. ~careless /\ profile'[p].key = Null
    BY <1>2, <1>7
  <2>2. ~fault /\ KeyOfProfileAlive /\ KeysOwnedOnce /\ KeysWereMade
    BY <2>1 DEF OneOwner, ProfileInv
  <2>3. KeyOfProfileAlive'
    BY <1>2, <1>7, <2>1, <2>2 DEF KeyOfProfileAlive
  <2>4. KeysOwnedOnce'
    <3> SUFFICES ASSUME NEW r \in Profiles, NEW s \in Profiles, r # s,
                        profile'[r] # Null, profile'[s] # Null, profile'[r].key # Null
                 PROVE  profile'[r].key # profile'[s].key
      BY DEF KeysOwnedOnce
    <3>1. CASE r = p \/ s = p
      BY <2>1, <3>1
    <3>2. CASE r # p /\ s # p
      BY <1>7, <2>2, <3>2 DEF KeysOwnedOnce
    <3> QED
      BY <3>1, <3>2
  <2> QED
    BY <1>2, <2>2, <2>3, <2>4 DEF KeysWereMade
<1>12. OptionsMeant'
  <2> SUFFICES ASSUME NEW r \in Profiles
               PROVE  /\ profile'[r] = Null => wanted'[r] = AllDefault
                      /\ profile'[r] # Null => \A o \in Options : AsMeant(r, o)'
    BY DEF OptionsMeant, AllDefault
  <2>1. CASE r # p
    BY <1>2, <1>7, <1>8, <2>1 DEF ProfileInv, OptionsMeant, AsMeant
  <2>2. CASE r = p
    <3> SUFFICES ASSUME NEW o \in Options \ Limits
                 PROVE  AsMeant(p, o)'
      BY <1>2, <1>7, <2>2 DEF AsMeant
    <3>1. AsMeant(q, o)
      BY DEF ProfileInv, OptionsMeant
    <3>2. c[o] = profile[q].option[o]
      BY <1>5
    <3> QED
      BY <1>7, <1>8, <3>1, <3>2 DEF AsMeant
  <2> QED
    BY <2>1, <2>2
<1> QED
  BY <1>10, <1>11, <1>12 DEF ProfileInv

\* An instance copies the key, which is alive if it has one owner.
LEMMA StartKeeps ==
  ASSUME ProfileInv, NEW p \in Profiles, StartServer(p) \/ StartClient(p)
  PROVE  ProfileInv'
<1>1. /\ profile[p] # Null /\ UNCHANGED <<profile, key, heap, wanted, copies, careless>>
      /\ fault' \in BOOLEAN /\ (fault' => Freed(profile[p].key))
  BY DEF StartServer, StartClient, Exists, Freed
<1>2. ProfileTypeOK'
  BY <1>1 DEF ProfileInv, ProfileTypeOK
<1>3. OneOwner'
  <2> SUFFICES ASSUME ~careless
               PROVE  ~fault'
    BY <1>1 DEF ProfileInv, OneOwner, KeyOfProfileAlive, KeysOwnedOnce, KeysWereMade
  <2> QED
    BY <1>1 DEF ProfileInv, OneOwner, KeyOfProfileAlive, Freed
<1>4. OptionsMeant'
  BY <1>1 DEF ProfileInv, OptionsMeant, AsMeant
<1> QED
  BY <1>2, <1>3, <1>4 DEF ProfileInv

\* The invariant of profiles and keys is inductive.
LEMMA ProfileInvHolds ==
  /\ Init => ProfileInv
  /\ ProfileInv /\ [Next]_vars => ProfileInv'
<1>1. Init => ProfileInv
  <2> SUFFICES ASSUME Init
               PROVE  ProfileInv
    OBVIOUS
  <2>1. AllDefault \in Settings
    BY DefaultIsSetting
  <2>5. wanted = [p \in Profiles |-> AllDefault]
    BY DEF Init, AllDefault
  <2>2. ProfileTypeOK
    BY <2>1, <2>5 DEF Init, ProfileTypeOK
  <2>3. OneOwner
    BY DEF Init, OneOwner, KeyOfProfileAlive, KeysOwnedOnce, KeysWereMade
  <2>4. OptionsMeant
    BY DEF Init, OptionsMeant, AllDefault
  <2> QED
    BY <2>2, <2>3, <2>4 DEF ProfileInv
<1>2. ProfileInv /\ [Next]_vars => ProfileInv'
  <2> SUFFICES ASSUME ProfileInv, [Next]_vars
               PROVE  ProfileInv'
    OBVIOUS
  <2>1. CASE KeyCommand
    BY <2>1, CreateKeyKeeps, DeleteKeyKeeps, KeyVariableKeeps, SetDecryptKeyKeeps DEF KeyCommand
  <2>2. CASE \E p \in Profiles : SetCommand(p)
    BY <2>2, SetCommandKeeps
  <2>3. CASE ProfileCommand
    <3>1. ASSUME NEW p \in Profiles, NEW q \in Profiles,
                 CreateInstanceProfileFrom(p, q) \/ AssignInstanceProfile(p, q)
          PROVE  ProfileInv'
      BY <3>1, CopyKeeps DEF CreateInstanceProfileFrom, AssignInstanceProfile, Exists
    <3> QED
      BY <2>3, <3>1, CreateInstanceProfileKeeps, DeleteInstanceProfileKeeps DEF ProfileCommand
  <2>4. CASE \E p \in Profiles : StartServer(p) \/ StartClient(p)
    BY <2>4, StartKeeps
  <2>5. CASE UNCHANGED vars
    BY <2>5
    DEF vars, ProfileInv, ProfileTypeOK, OneOwner, KeyOfProfileAlive, KeysOwnedOnce,
        KeysWereMade, OptionsMeant, AsMeant
  <2> QED
    BY <2>1, <2>2, <2>3, <2>4, <2>5 DEF Next
<1> QED
  BY <1>1, <1>2

\* It holds in Foundations, whatever else happens there.
THEOREM ProfileInvariant == FoundationsSpec => []ProfileInv
<1>1. FoundationsInit => Init
  BY DEF FoundationsInit
<1>2. [FoundationsNext]_foundationVars => [Next]_vars
  BY DEF FoundationsNext, ProfilesNext, ControlsNext, SimplesNext, CollectionsNext, CellsNext,
         foundationVars
<1> QED
  BY <1>1, <1>2, ProfileInvHolds, PTL DEF FoundationsSpec

\* As long as no key is given two owners, none is freed twice or read after it was
\* freed (SetDecryptKeyUDP, the destructor of NetInstanceProfile).
THEOREM KeysSafeHolds == FoundationsSpec => []KeysSafeIfOneOwner
<1>1. ProfileInv => KeysSafeIfOneOwner
  BY DEF ProfileInv, OneOwner, KeysSafeIfOneOwner
<1> QED
  BY <1>1, ProfileInvariant, PTL

\* The Get commands answer with the options of the profile.
LEMMA AnswersAreOptions ==
  ASSUME NEW p, NEW o \in Options
  PROVE  Answers(p)[o] = profile[p].option[o]
BY DEF Options, Limits, Sizes, Recycle, Answers, GetProfileLocalAddressTCP, GetProfileLocalAddressUDP,
       GetProfileBufferSizeTCP, GetProfileBufferSizeUDP, GetProfileEnabledUDP,
       GetProfileAutoResizeTCP, GetProfileHandshakeEnabled, GetProfileModeTCP,
       GetProfileModeUDP, GetProfileGracefulDisconnect, GetProfileSendTimeout,
       GetProfilePostfixTCP, GetProfileNagleEnabledTCP, GetProfileServerTimeout,
       GetProfileSendMemoryLimitTCP, GetProfileRecvMemoryLimitTCP,
       GetProfileSendMemoryLimitUDP, GetProfileRecvMemoryLimitUDP,
       GetProfileMemoryRecycleTCP, GetProfileMemoryRecycleUDP, GetProfileReusableUDP,
       GetProfileNumOperationsUDP

\* Each Get command answers what the program meant the option to be, instances use it,
\* and profiles that are meant to be alike compare as equal, but for the known
\* exceptions (NetInstanceProfile, Copy, the operator ==).
THEOREM ReadsWhatWasSetHolds == FoundationsSpec => []ReadsWhatWasSet
<1>1. ProfileInv => ReadsWhatWasSet
  <2> SUFFICES ASSUME ProfileInv
               PROVE  ReadsWhatWasSet
    OBVIOUS
  <2>1. ASSUME NEW p \in Profiles, Exists(p), NEW o \in Options
        PROVE  /\ AsMeant(p, o) /\ profile[p].option \in Settings
               /\ Answers(p)[o] = profile[p].option[o]
    BY <2>1, AnswersAreOptions, ProfileFacts DEF ProfileInv, OptionsMeant, Exists
  <2>2. ASSUME NEW p \in Profiles, NEW q \in Profiles, Exists(p), Exists(q),
               wanted[p] = wanted[q], profile[p].key = profile[q].key,
               \A o \in Sizes : "swapped" \notin {Answers(p)[o], Answers(q)[o]}
        PROVE  CompareInstanceProfile(p, q)
    <3>1. ASSUME NEW o \in Options \ Limits
          PROVE  profile[p].option[o] = profile[q].option[o]
      <4>1. AsMeant(p, o) /\ AsMeant(q, o)
        BY <2>1, <2>2
      <4>2. o \in Sizes => profile[p].option[o] # "swapped" /\ profile[q].option[o] # "swapped"
        BY <2>1, <2>2
      <4> QED
        BY <2>2, <4>1, <4>2 DEF AsMeant
    <3>2. Recycle \subseteq Options \ Limits
      BY DEF Options, Limits, Recycle
    <3>3. RecycleMemorySize(p) = RecycleMemorySize(q)
      BY <3>1, <3>2 DEF RecycleMemorySize, Recycle
    <3> QED
      BY <2>2, <3>1, <3>3 DEF CompareInstanceProfile
  <2>3. ASSUME NEW p \in Profiles, Exists(p), NEW o \in Options
        PROVE  \/ /\ Answers(p)[o] = wanted[p][o]
                  /\ ServerOptions(p)[o] = wanted[p][o]
                  /\ o # "sendLimitUDP" => ClientOptions(p)[o] = wanted[p][o]
               \/ o \in Limits /\ p \in copies
               \/ o \in Sizes /\ Answers(p)[o] = "swapped"
    <3>1. o # "sendLimitUDP" => ClientOptions(p)[o] = profile[p].option[o]
      BY <2>1, <2>3 DEF ClientOptions, Settings
    <3> QED
      BY <2>1, <2>3, <3>1 DEF AsMeant, ServerOptions
  <2> QED
    BY <2>2, <2>3 DEF ReadsWhatWasSet
<1> QED
  BY <1>1, ProfileInvariant, PTL
===============================================================================
