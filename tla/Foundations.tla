------------------------------ MODULE Foundations ------------------------------
(***************************************************************************)
(* The parts of the library that use no state of each other: the profiles  *)
(* (Profile), the two reader/writer locks (ConcurrencyControl,             *)
(* ConcurrencyControlSimple), the stores (Stores) and the objects with a   *)
(* critical section (ConcurrentObject).  What happens in one of them says  *)
(* nothing of the others, so each behaviour is about one subject, and the  *)
(* rest stays as it began.                                                 *)
(***************************************************************************)
EXTENDS Profile, ConcurrencyControl, ConcurrencyControlSimple, Stores, ConcurrentObject

VARIABLE subject

foundationVars == <<vars, controlVars, simpleVars, storeVars, cellVars, subject>>

AnyTest   == CHOOSE s \in StoreScenes : s.script # "free"
AnyValues == CHOOSE v \in [Cells -> CellValues] : TRUE

FoundationsInit ==
  /\ subject \in {"profile", "control", "simple", "stores", "cells"}
  /\ Init /\ ControlInit /\ SimpleInit /\ StoresInit /\ CellInit
  /\ subject = "stores" \/ storeScene = AnyTest
  /\ subject = "cells" \/ cell = AnyValues

ProfilesNext ==
  /\ subject = "profile" /\ Next
  /\ UNCHANGED <<controlVars, simpleVars, storeVars, cellVars, subject>>

ControlsNext ==
  /\ subject = "control" /\ ControlNext
  /\ UNCHANGED <<vars, simpleVars, storeVars, cellVars, subject>>

SimplesNext ==
  /\ subject = "simple" /\ SimpleNext
  /\ UNCHANGED <<vars, controlVars, storeVars, cellVars, subject>>

CollectionsNext ==
  /\ subject = "stores" /\ StoresNext
  /\ UNCHANGED <<vars, controlVars, simpleVars, cellVars, subject>>

CellsNext ==
  /\ subject = "cells" /\ CellNext
  /\ UNCHANGED <<vars, controlVars, simpleVars, storeVars, subject>>

FoundationsNext == ProfilesNext \/ ControlsNext \/ SimplesNext \/ CollectionsNext \/ CellsNext

FoundationsSpec == FoundationsInit /\ [][FoundationsNext]_foundationVars

\* Both locks keep the promise of ReadersWriters: through any interleaving of threads
\* that take and leave read and write control, nested as they like, whoever writes is
\* alone, and a thread that upgrades gets its read control back only once it can write.
LocksExclude ==
  /\ Control!Init /\ Simple!Init
  /\ [][/\ subject = "control" => [Control!Next]_(Control!vars)
        /\ subject = "simple" => [Simple!Next]_(Simple!vars)]_foundationVars

\* Stores and objects with a section keep what is in them through any interleaving
\* (StoresOwn and CellsAsTested say what that is, and when it is not so).
CollectionsKeep == StoresOwn /\ CellsAsTested
================================================================================
