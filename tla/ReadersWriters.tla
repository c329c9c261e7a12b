---------------------------- MODULE ReadersWriters ----------------------------
(***************************************************************************)
(* What ConcurrencyControl and ConcurrencyControlSimple promise: threads   *)
(* take read and write control of an object, each as many times as they    *)
(* like, and whoever writes is alone with the object.  A thread that takes *)
(* write control first puts its read control aside, so that two readers    *)
(* who both want to write do not wait for each other, and takes it back    *)
(* when it can write: what it read before may have changed meanwhile.      *)
(***************************************************************************)
EXTENDS Naturals

CONSTANT Threads

VARIABLES
  reads,   \* [Threads -> levels of read control]
  writes,  \* [Threads -> levels of write control]
  aside    \* [Threads -> levels of read control put aside for a while]

vars == <<reads, writes, aside>>

Init ==
  /\ reads = [t \in Threads |-> 0]
  /\ writes = [t \in Threads |-> 0]
  /\ aside = [t \in Threads |-> 0]

Up(f, t)   == [f EXCEPT ![t] = f[t] + 1]
Down(f, t) == [f EXCEPT ![t] = f[t] - 1]

TakeRead(t) ==
  /\ aside[t] = 0
  /\ \A u \in Threads \ {t} : writes[u] = 0
  /\ reads' = Up(reads, t)
  /\ UNCHANGED <<writes, aside>>

DropRead(t) ==
  /\ aside[t] = 0 /\ reads[t] > 0
  /\ reads' = Down(reads, t)
  /\ UNCHANGED <<writes, aside>>

PutAside(t) ==
  /\ reads[t] > 0
  /\ reads' = Down(reads, t)
  /\ aside' = Up(aside, t)
  /\ UNCHANGED writes

TakeWrite(t) ==
  /\ reads[t] = 0
  /\ \A u \in Threads \ {t} : reads[u] = 0 /\ writes[u] = 0
  /\ writes' = Up(writes, t)
  /\ UNCHANGED <<reads, aside>>

TakeBack(t) ==
  /\ aside[t] > 0 /\ writes[t] > 0
  /\ reads' = Up(reads, t)
  /\ aside' = Down(aside, t)
  /\ UNCHANGED writes

DropWrite(t) ==
  /\ aside[t] = 0 /\ writes[t] > 0
  /\ writes' = Down(writes, t)
  /\ UNCHANGED <<reads, aside>>

Next == \E t \in Threads :
  \/ TakeRead(t) \/ DropRead(t) \/ PutAside(t)
  \/ TakeWrite(t) \/ TakeBack(t) \/ DropWrite(t)

Spec == Init /\ [][Next]_vars

\* Whoever writes is alone with the object.
WritersAreAlone ==
  \A t, u \in Threads : t # u /\ writes[t] > 0 => reads[u] = 0 /\ writes[u] = 0
================================================================================
