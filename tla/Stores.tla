--------------------------------- MODULE Stores ---------------------------------
(***************************************************************************)
(* StoreVector and StoreQueue: collections of pointers to objects that the *)
(* store owns, each behind a critical section of its own.  A vector can    *)
(* also be linked with another one: it has the same pointers and may not   *)
(* delete them.  Operations with one store are one step; those with two    *)
(* take the two sections in order, and those that read objects outside of  *)
(* the section copy the pointers first: another thread may come in between.*)
(*                                                                         *)
(* Objects are numbered as they are allocated.  "excused" says that the    *)
(* program did what a store does not survive: it gives the reasons at each *)
(* place.                                                                  *)
(***************************************************************************)
EXTENDS Naturals, Sequences, SequencesExt, FiniteSets

CONSTANTS
  Stores,       \* stores the program has variables for
  StoreScenes,  \* what it does: [kind: vector or queue, of: its stores, script: a test or "free"]
  Callers,      \* threads that are in an operation of more than one step
  MaxObjects,   \* bound: objects allocated by a program without script
  MaxSize,      \* bound: size of a vector, likewise
  TestVector, CopyMade, Assigned   \* the three stores of the tests

ASSUME StoresAssumption ==
  /\ {TestVector, CopyMade, Assigned} \subseteq Stores
  /\ \A s \in StoreScenes : s.kind \in {"vector", "queue"} /\ s.of \subseteq Stores
  /\ MaxObjects \in Nat /\ MaxSize \in Nat

VARIABLES
  storeScene,   \* the member of StoreScenes that is played
  memory,       \* [live: objects there are, value: of each one ever made, 0 once deleted,
                \*  fault: an object that was deleted was used]
  data,         \* [Stores -> the pointers of the store]
  linked,       \* [Stores -> doNotDeallocate]
  alive,        \* stores that exist
  calls,        \* [Callers -> the operation of more than one step the thread is in, or NoCall]
  held,         \* objects that belong to the program
  excused,      \* history: what the program did
  step          \* the last step of the script

storeVars == <<storeScene, memory, data, linked, alive, calls, held, excused, step>>

NULL   == 0
NoCall == [op |-> "none"]
Vector == storeScene.kind = "vector"
Queue  == storeScene.kind = "queue"

StoresInit ==
  /\ storeScene \in StoreScenes
  /\ memory = [live |-> {}, value |-> <<>>, fault |-> FALSE]
  /\ data = [s \in Stores |-> <<>>]
  /\ linked = [s \in Stores |-> FALSE]
  /\ alive = {}
  /\ calls = [c \in Callers |-> NoCall]
  /\ held = {} /\ excused = FALSE /\ step = 0

(***************************************************************************)
(* Memory.                                                                 *)
(***************************************************************************)
Newest(m)    == Len(m.value)
New(m, v)    == [m EXCEPT !.live = @ \union {Len(m.value) + 1}, !.value = Append(@, v)]
Read(m, b)   == [m EXCEPT !.fault = @ \/ b \notin m.live]
Delete(m, b) == IF b = NULL THEN m ELSE [Read(m, b) EXCEPT !.live = @ \ {b}, !.value[b] = 0]
CopyOf(m, b) == New(Read(m, b), IF b = NULL THEN 0 ELSE m.value[b])

\* What an operation works on; an exception ends it where it is.
Begin(s) == [memory |-> memory, data |-> data[s], threw |-> FALSE]
Over(x, S, Op(_, _)) == FoldLeft(LAMBDA y, n : IF y.threw THEN y ELSE Op(y, n), x, S)

(***************************************************************************)
(* Elements of a vector.  The operations on them fail on a linked vector   *)
(* that has something there, except that Erase just removes it.            *)
(***************************************************************************)
Deallocated(x, lnk, n) ==
  IF lnk /\ x.data[n] # NULL THEN [x EXCEPT !.threw = TRUE]
  ELSE [x EXCEPT !.memory = Delete(@, x.data[n]), !.data[n] = NULL]

Allocated(x, lnk, n, b) ==
  LET y == Deallocated(x, lnk, n) IN IF y.threw THEN y ELSE [y EXCEPT !.data[n] = b]

AllocatedNew(x, lnk, n, v) ==
  LET y == Deallocated(x, lnk, n) IN
  IF y.threw THEN y
  ELSE [y EXCEPT !.memory = New(@, v), !.data[n] = Newest(y.memory) + 1]

\* What is there is deleted before the other object is copied.
AllocatedCopy(x, lnk, n, b) ==
  LET y == Deallocated(x, lnk, n) IN
  IF y.threw THEN y
  ELSE [y EXCEPT !.memory = CopyOf(@, b), !.data[n] = Newest(y.memory) + 1]

\* Mutated form of Erased: the object is not deleted.
ErasedOnly(x, lnk, n) == [x EXCEPT !.data = RemoveAt(@, n)]

Erased(x, lnk, n) ==
  LET y == IF lnk THEN x ELSE Deallocated(x, lnk, n) IN [y EXCEPT !.data = RemoveAt(@, n)]

Cleared(x, lnk) == Over(x, x.data, LAMBDA y, b : Erased(y, lnk, 1))

\* Resize drops what is beyond the new size.
Resized(x, size) ==
  [x EXCEPT !.data = [n \in 1..size |-> IF n <= Len(@) THEN @[n] ELSE NULL]]

Grown(x, lnk, size, v) ==
  Over([x EXCEPT !.data = Resized(x, size).data],
       [n \in 1..(IF size > Len(x.data) THEN size - Len(x.data) ELSE 0) |-> Len(x.data) + n],
       LAMBDA y, n : AllocatedNew(y, lnk, n, v))

(***************************************************************************)
(* Operations with one store, by any thread.                               *)
(***************************************************************************)
\* Once something went wrong nothing is said any more.
Safe == ~memory.fault /\ ~excused

LockedBy(s, c) == calls[c].op \in {"assign", "link"} /\ calls[c].first = s
Free(s) == \A c \in Callers : ~LockedBy(s, c)

\* Threads that copy a queue have the pointers of it and no section.
Copying(s) == \E c \in Callers : calls[c].op = "copyQueue" /\ calls[c].from = s

Does(s, x) ==
  /\ s \in alive /\ Free(s) /\ Safe
  /\ memory' = x.memory
  /\ data' = [data EXCEPT ![s] = x.data]
  /\ UNCHANGED <<storeScene, linked, alive, calls>>

Excuse(reason) == excused' = (excused \/ reason)

\* Two of the reasons: to delete from a queue that is being copied, and to use a linked
\* vector when the other one has deleted what is in it.
Stale(s) == linked[s] /\ ~(ToSet(data[s]) \subseteq memory.live \union {NULL})
Removes(s, x) == Does(s, x) /\ Excuse(Copying(s) \/ Stale(s)) /\ UNCHANGED held

\* Objects given to a linked vector, or made by it, stay the program's: it will not
\* delete them.
Receives(s, x) ==
  /\ Does(s, x)
  /\ held' = IF linked[s] THEN held \union (x.memory.live \ memory.live) ELSE held

Involved(s) == \E c \in Callers : calls[c].op # "none" /\ s \in {calls[c].first, calls[c].from}

Construct(s) ==
  /\ s \notin alive /\ ~Involved(s) /\ Safe
  /\ alive' = alive \union {s}
  /\ UNCHANGED <<storeScene, memory, data, linked, calls, held, excused>>

\* StoreVector(bool) links the vector, whatever it is asked for: what is added to one
\* that was asked to delete its objects is lost.
ConstructWith(s, doNotDeallocate) ==
  /\ Vector /\ s \notin alive /\ ~Involved(s) /\ Safe
  /\ alive' = alive \union {s}
  /\ linked' = [linked EXCEPT ![s] = TRUE]
  /\ Excuse(~doNotDeallocate)
  /\ UNCHANGED <<storeScene, memory, data, calls, held>>

Destroy(s) ==
  /\ s \in alive /\ ~Involved(s) /\ Safe
  /\ memory' = Cleared(Begin(s), linked[s]).memory
  /\ data' = [data EXCEPT ![s] = <<>>]
  /\ linked' = [linked EXCEPT ![s] = FALSE]
  /\ alive' = alive \ {s}
  /\ UNCHANGED <<storeScene, calls, held, excused>>

Clear(s) == data[s] # <<>> /\ Removes(s, Cleared(Begin(s), linked[s]))

\* Get copies the first object for the caller and erases it.  It may be NULL.
Get(s) ==
  /\ data[s] # <<>>
  /\ LET x == Begin(s) IN
     Does(s, Erased([x EXCEPT !.memory = Read(@, x.data[1])], linked[s], 1))
  /\ Excuse(Copying(s) \/ Stale(s) \/ data[s][1] = NULL)
  /\ UNCHANGED held

Add(s, v) ==
  /\ Receives(s, [Begin(s) EXCEPT !.memory = New(@, v), !.data = Append(@, Newest(memory) + 1)])
  /\ UNCHANGED excused

\* The program gives an object it has: it should not be used elsewhere.
AddHeld(s, b) ==
  /\ b \in held /\ Does(s, [Begin(s) EXCEPT !.data = Append(@, b)])
  /\ held' = IF linked[s] THEN held ELSE held \ {b}
  /\ UNCHANGED excused

Erase(s, n) == n \in DOMAIN data[s] /\ Removes(s, Erased(Begin(s), linked[s], n))

\* A queue loses and gives the object at its front only.
RemoveFront(s) == Queue /\ Erase(s, 1)

\* An object that is extracted from a linked vector still belongs to whom it did.
Extract(s, n) ==
  /\ n \in DOMAIN data[s]
  /\ Does(s, [Begin(s) EXCEPT !.data = RemoveAt(@, n)])
  /\ held' = IF linked[s] \/ data[s][n] = NULL THEN held ELSE held \union {data[s][n]}
  /\ Excuse(Copying(s))

ExtractFront(s) == Queue /\ Extract(s, 1)

Deallocate(s, n) == n \in DOMAIN data[s] /\ Removes(s, Deallocated(Begin(s), linked[s], n))

Allocate(s, n, v) ==
  /\ n \in DOMAIN data[s]
  /\ Receives(s, AllocatedNew(Begin(s), linked[s], n, v))
  /\ UNCHANGED excused

\* The object to copy may be an element of the vector, even the one it replaces.
AllocateFrom(s, n, m) ==
  /\ {n, m} \subseteq DOMAIN data[s] /\ data[s][m] # NULL
  /\ Receives(s, AllocatedCopy(Begin(s), linked[s], n, data[s][m]))
  /\ Excuse(Stale(s) \/ n = m)

AllocateHeld(s, n, b) ==
  LET x == Allocated(Begin(s), linked[s], n, b) IN
  /\ n \in DOMAIN data[s] /\ b \in held
  /\ Does(s, x)
  /\ held' = IF linked[s] \/ x.threw THEN held ELSE held \ {b}
  /\ UNCHANGED excused

Drops(s, size) == ~linked[s] /\ \E n \in DOMAIN data[s] : n > size /\ data[s][n] # NULL

Resize(s, size) ==
  Does(s, Resized(Begin(s), size)) /\ Excuse(Drops(s, size)) /\ UNCHANGED held

ResizeAllocate(s, size, v) ==
  /\ Receives(s, Grown(Begin(s), linked[s], size, v))
  /\ Excuse(Drops(s, size))

Swap(s, i, j) ==
  /\ {i, j} \subseteq DOMAIN data[s]
  /\ Removes(s, [Begin(s) EXCEPT !.data[i] = data[s][j], !.data[j] = data[s][i]])

\* Sort, and Find and Exists if they are to sort.  NULL comes first.
Weight(b) == IF b = NULL THEN 0 ELSE memory.value[b]
Sorted(pointers) == SortSeq(pointers, LAMBDA p, q : Weight(p) < Weight(q))
Sort(s) == Removes(s, [Begin(s) EXCEPT !.data = Sorted(@)])

\* The program makes an object of its own, and deletes one.
NewHeld(v) ==
  /\ Safe
  /\ memory' = New(memory, v)
  /\ held' = held \union {Newest(memory) + 1}
  /\ UNCHANGED <<storeScene, data, linked, alive, calls, excused>>

DeleteHeld(b) ==
  /\ b \in held /\ Safe
  /\ memory' = Delete(memory, b)
  /\ held' = held \ {b}
  /\ UNCHANGED <<storeScene, data, linked, alive, calls, excused>>

(***************************************************************************)
(* Operations with two stores: "first" is the section that is taken first, *)
(* "from" the store they read.                                             *)
(***************************************************************************)
Calls(c, call) ==
  /\ calls[c] = NoCall /\ Safe
  /\ calls' = [calls EXCEPT ![c] = call]

StartAssign(c, s, t) ==
  /\ {s, t} \subseteq alive /\ Free(s)
  /\ Calls(c, [op |-> "assign", first |-> s, from |-> t])
  /\ UNCHANGED <<storeScene, memory, data, linked, alive, held, excused>>

StartLink(c, s, t) ==
  /\ Vector /\ {s, t} \subseteq alive /\ Free(s)
  /\ Calls(c, [op |-> "link", first |-> s, from |-> t])
  /\ UNCHANGED <<storeScene, memory, data, linked, alive, held, excused>>

\* Copying queue t into the new queue s: the pointers are copied in the section of t.
StartCopyQueue(c, s, t) ==
  /\ Queue /\ s \notin alive /\ ~Involved(s) /\ t \in alive /\ Free(t)
  /\ Calls(c, [op |-> "copyQueue", first |-> s, from |-> t, aux |-> data[t]])
  /\ UNCHANGED <<storeScene, memory, data, linked, alive, held, excused>>

\* c may go on: the second section is free, or its own.
GoesOn(c, op) ==
  /\ calls[c].op = op /\ Safe
  /\ \A d \in Callers \ {c} : ~LockedBy(calls[c].from, d)
  /\ calls' = [calls EXCEPT ![c] = NoCall]
  /\ UNCHANGED <<storeScene, held>>

Copied(x, pointers) ==
  Over(x, pointers,
       LAMBDA y, b : [y EXCEPT !.memory = CopyOf(@, b), !.data = Append(@, Newest(y.memory) + 1)])

\* Assigned element by element.  A vector that assigns itself has no link any more
\* when it reads whether the other one is linked, and copies what it just deleted.
AssignVector(c) ==
  LET s == calls[c].first  t == calls[c].from
      lnk == s # t /\ linked[t]
      x == Over(Resized(Begin(s), Len(data[t])), [n \in DOMAIN data[t] |-> n],
                LAMBDA y, n : IF data[t][n] = NULL THEN Deallocated(y, lnk, n)
                              ELSE AllocatedCopy(y, lnk, n, data[t][n]))
  IN  /\ Vector /\ GoesOn(c, "assign")
      /\ memory' = x.memory
      /\ data' = [data EXCEPT ![s] = x.data]
      /\ linked' = [linked EXCEPT ![s] = lnk]
      /\ Excuse(s = t \/ linked[s] \/ linked[t] \/ Drops(s, Len(data[t])))
      /\ UNCHANGED alive

\* A queue is cleared first, so one that assigns itself is empty afterwards.
AssignQueue(c) ==
  LET s == calls[c].first  t == calls[c].from
      x == Cleared(Begin(s), FALSE)
      y == Copied(x, IF s = t THEN <<>> ELSE data[t])
  IN  /\ Queue /\ GoesOn(c, "assign")
      /\ memory' = y.memory
      /\ data' = [data EXCEPT ![s] = y.data]
      /\ Excuse(Copying(s))
      /\ UNCHANGED <<linked, alive>>

Link(c) ==
  LET s == calls[c].first  t == calls[c].from
  IN  /\ GoesOn(c, "link")
      /\ data' = [data EXCEPT ![s] = data[t]]
      /\ linked' = [linked EXCEPT ![s] = TRUE]
      /\ Excuse(Drops(s, 0))
      /\ UNCHANGED <<memory, alive>>

\* The objects are copied after the section is left.
CopyQueue(c) ==
  LET s == calls[c].first
      x == Copied(Begin(s), calls[c].aux)
  IN  /\ calls[c].op = "copyQueue" /\ Safe
      /\ memory' = x.memory
      /\ data' = [data EXCEPT ![s] = x.data]
      /\ alive' = alive \union {s}
      /\ calls' = [calls EXCEPT ![c] = NoCall]
      /\ UNCHANGED <<storeScene, linked, held, excused>>

\* Copying vector t into the new vector s stays in the section of t.  A copy of a linked
\* vector does not delete its objects either, though they are its own.
CopyVector(s, t) ==
  LET x == Over(Resized(Begin(s), Len(data[t])), [n \in DOMAIN data[t] |-> n],
                LAMBDA y, n : IF data[t][n] = NULL THEN y ELSE AllocatedCopy(y, FALSE, n, data[t][n]))
  IN  /\ Vector /\ s \notin alive /\ t \in alive /\ Free(t) /\ Safe
      /\ memory' = x.memory
      /\ data' = [data EXCEPT ![s] = x.data]
      /\ linked' = [linked EXCEPT ![s] = linked[t]]
      /\ alive' = alive \union {s}
      /\ Excuse(linked[t])
      /\ UNCHANGED <<storeScene, calls, held>>

\* Exists of a vector that may not change: it copies the pointers in the section, and
\* sorts and searches them, which reads the objects, after it has left it.  One of them
\* may be gone by then.
StartExists(c, s) ==
  /\ Vector /\ s \in alive /\ Free(s)
  /\ Calls(c, [op |-> "exists", first |-> s, from |-> s, aux |-> data[s]])
  /\ UNCHANGED <<storeScene, memory, data, linked, alive, held, excused>>

VectorExists(c) ==
  /\ calls[c].op = "exists" /\ Safe
  /\ memory' = FoldLeft(Read, memory, SelectSeq(calls[c].aux, LAMBDA b : b # NULL))
  /\ calls' = [calls EXCEPT ![c] = NoCall]
  /\ Excuse(memory'.fault)
  /\ UNCHANGED <<storeScene, data, linked, alive, held>>

(***************************************************************************)
(* A program without script.                                               *)
(***************************************************************************)
Use == storeScene.of
Bounded ==
  /\ Len(memory'.value) <= MaxObjects
  /\ \A s \in Use : Len(data'[s]) <= MaxSize

ForOneStore(s) ==
  \/ Construct(s) \/ Destroy(s) \/ Clear(s) \/ Get(s)
  \/ Add(s, 1)
  \/ \E b \in held : AddHeld(s, b)
  \/ RemoveFront(s) \/ ExtractFront(s)

ForOneVector(s) ==
  \/ \E d \in BOOLEAN : ConstructWith(s, d)
  \/ Sort(s) \/ Swap(s, 1, 2)
  \/ \E n \in DOMAIN data[s] :
       \/ Erase(s, n) \/ Extract(s, n) \/ Deallocate(s, n) \/ Allocate(s, n, 1)
       \/ \E m \in DOMAIN data[s] : AllocateFrom(s, n, m)
       \/ \E b \in held : AllocateHeld(s, n, b)
  \/ \E size \in 0..MaxSize : Resize(s, size) \/ ResizeAllocate(s, size, 1)

InSteps(c) ==
  \/ \E s, t \in Use : StartAssign(c, s, t) \/ StartLink(c, s, t) \/ StartCopyQueue(c, s, t)
  \/ AssignVector(c) \/ AssignQueue(c) \/ Link(c) \/ CopyQueue(c)
  \/ \E s \in Use : data[s] # <<>> /\ StartExists(c, s)
  \/ VectorExists(c)

FreeProgram ==
  /\ storeScene.script = "free"
  /\ \/ \E s \in Use : ForOneStore(s) \/ (Vector /\ ForOneVector(s))
     \/ \E b \in held : DeleteHeld(b)
     \/ \E s, t \in Use : CopyVector(s, t)
     \/ \E c \in Callers : InSteps(c)
  /\ Bounded
  /\ UNCHANGED step

(***************************************************************************)
(* What can be asked of a store.                                           *)
(***************************************************************************)
Size(s)           == Len(data[s])
IsEmpty(s)        == data[s] = <<>>
IsAllocated(s, n) == data[s][n] # NULL
ElementOf(s, n)   == IF IsAllocated(s, n) THEN memory.value[data[s][n]] ELSE NULL
FrontOf(s)        == ElementOf(s, 1)
BackOf(s)         == ElementOf(s, Size(s))
Contents(s)       == [n \in DOMAIN data[s] |-> ElementOf(s, n)]

\* What the searches of the C++ library find among sorted pointers: whether one of them
\* has weight v, and the first place where it may stand.
BinarySearch(pointers, v) == \E n \in DOMAIN pointers : Weight(pointers[n]) = v
LowerBound(pointers, v)   == Cardinality({n \in DOMAIN pointers : Weight(pointers[n]) < v}) + 1

\* What Exists finds: it sorts a copy.  Find may sort the vector itself (Sort).
ExistsIn(s, v) == BinarySearch(Sorted(data[s]), v)
FindIn(s, v)   == LowerBound(data[s], v)

(***************************************************************************)
(* The tests of the two classes as programs, and what they expect.         *)
(***************************************************************************)
At(k) == step = k - 1 /\ step' = k
InTurn(S, first, Op(_)) ==
  /\ step + 1 - first \in 0..(Len(S) - 1) /\ step' = step + 1
  /\ Op(S[step + 2 - first])
Nothing == [n \in 1..5 |-> NULL]

VectorTest(v) ==
  \/ At(1) /\ Construct(v)
  \/ At(2) /\ Resize(v, 5)
  \/ At(3) /\ Allocate(v, 1, 0)
  \/ At(4) /\ Allocate(v, 2, 4000)
  \/ At(5) /\ NewHeld(4000)
  \/ At(6) /\ \E b \in held : AllocateHeld(v, 3, b)
  \/ At(7) /\ Deallocate(v, 3)
  \/ At(8) /\ Clear(v)
  \/ InTurn(<<10, 20>>, 9, LAMBDA x : Add(v, x))
  \/ At(11) /\ Get(v)
  \/ At(12) /\ Clear(v)

CopyTest(v, w, u) ==
  \/ At(13) /\ Resize(v, 5)
  \/ At(14) /\ ResizeAllocate(v, 10, 100)
  \/ At(15) /\ CopyVector(w, v)
  \/ At(16) /\ Construct(u)
  \/ At(17) /\ \E c \in Callers : StartAssign(c, u, v)
  \/ At(18) /\ \E c \in Callers : AssignVector(c)
  \/ InTurn(<<u, w, v>>, 19, Destroy)

VectorTestExpects(v, w, u) ==
  /\ step = 2 => Size(v) = 5 /\ \A n \in 1..5 : ~IsAllocated(v, n)
  /\ step = 3 => IsAllocated(v, 1)
  /\ step = 4 => ElementOf(v, 2) = 4000
  /\ step = 6 => ElementOf(v, 3) = 4000
  /\ step = 7 => ~IsAllocated(v, 3)
  /\ step \in {8, 12} => Size(v) = 0
  /\ step = 10 => Contents(v) = <<10, 20>> /\ FrontOf(v) = 10 /\ BackOf(v) = 20
  /\ step = 11 => Contents(v) = <<20>>
  /\ step = 14 => Contents(v) = Nothing \o [n \in 1..5 |-> 100]
  /\ step = 15 => Contents(w) = Contents(v)
  /\ step = 18 => Contents(u) = Contents(v)
  /\ step = 21 => memory.live = {}

\* The random numbers of the test are some numbers here.
RandomNumbers == <<5, 3, 8, 1, 7, 2, 5, 4>>

SortTest(v) ==
  \/ At(1) /\ Construct(v)
  \/ InTurn(RandomNumbers, 2, LAMBDA x : Add(v, IF step = 6 THEN ElementOf(v, 1) ELSE x))
  \/ At(10) /\ Sort(v)
  \/ At(11) /\ Destroy(v)

FindTest(v) ==
  \/ At(1) /\ Construct(v)
  \/ InTurn(RandomNumbers, 2, LAMBDA x : Add(v, x))
  \/ InTurn(<<4, 2>>, 10, LAMBDA n : Deallocate(v, n))
  \/ At(12) /\ Sort(v)
  \/ At(13) /\ Destroy(v)

SortTestExpects(v) == step = 10 => \A n \in 2..Size(v) : ElementOf(v, n) >= ElementOf(v, n - 1)

FindTestExpects(v) ==
  /\ step = 12 =>
       /\ ~IsAllocated(v, 1) /\ ~IsAllocated(v, 2)
       /\ \A n \in 1..Size(v) :
            LET x == ElementOf(v, n) IN ExistsIn(v, x) /\ ElementOf(v, FindIn(v, x)) = x
  /\ step = 13 => memory.live = {}

QueueTest(q, w, u) ==
  \/ At(1) /\ Construct(q)
  \/ InTurn(<<50, 40>>, 2, LAMBDA x : Add(q, x))
  \/ At(4) /\ Clear(q)
  \/ InTurn(<<10, 20>>, 5, LAMBDA x : Add(q, x))
  \/ InTurn(<<q, q>>, 7, Get)
  \/ InTurn(<<1, 100, 5121, 32, 64, 1337>>, 9, LAMBDA x : Add(q, x))
  \/ At(15) /\ \E c \in Callers : StartCopyQueue(c, w, q)
  \/ At(16) /\ \E c \in Callers : CopyQueue(c)
  \/ InTurn([n \in 1..6 |-> w], 17, Get)
  \/ At(23) /\ Construct(u)
  \/ InTurn(<<10, 20>>, 24, LAMBDA x : Add(q, x))
  \/ At(26) /\ \E c \in Callers : StartAssign(c, u, q)
  \/ At(27) /\ \E c \in Callers : AssignQueue(c)
  \/ InTurn([n \in 1..6 |-> u], 28, Get)
  \/ InTurn(<<u, w, q>>, 34, Destroy)

QueueTestExpects(q, w, u) ==
  /\ step \in {4, 8} => Size(q) = 0
  /\ step = 6 => FrontOf(q) = 10 /\ BackOf(q) = 20 /\ Size(q) = 2
  /\ step = 7 => FrontOf(q) = 20 /\ Size(q) = 1
  /\ step \in 16..22 => Contents(w) = SubSeq(<<1, 100, 5121, 32, 64, 1337>>, step - 15, 6)
  /\ step = 22 => IsEmpty(w)
  /\ step \in 27..33 => Contents(u) = SubSeq(Contents(q), step - 26, 8)
  /\ step = 36 => memory.live = {}

Tests ==
  \/ /\ storeScene.script = "vector"
     /\ VectorTest(TestVector) \/ CopyTest(TestVector, CopyMade, Assigned)
  \/ storeScene.script = "sort" /\ SortTest(TestVector)
  \/ storeScene.script = "find" /\ FindTest(TestVector)
  \/ storeScene.script = "queue" /\ QueueTest(TestVector, CopyMade, Assigned)

TestsExpect ==
  /\ storeScene.script = "vector" => VectorTestExpects(TestVector, CopyMade, Assigned)
  /\ storeScene.script = "sort" => SortTestExpects(TestVector)
  /\ storeScene.script = "find" => FindTestExpects(TestVector)
  /\ storeScene.script = "queue" => QueueTestExpects(TestVector, CopyMade, Assigned)

StoresNext == FreeProgram \/ Tests

(***************************************************************************)
(* Properties.                                                             *)
(***************************************************************************)
Owners(b) == {s \in alive : ~linked[s] /\ b \in ToSet(data[s])}
PlacesOf(b, s) == {n \in DOMAIN data[s] : data[s][n] = b}

\* Through any operations of any threads, each object there is belongs to the program or
\* is at exactly one place of exactly one store that may delete it, and stores that may
\* delete point to nothing that is gone: so nothing is lost, deleted twice or used
\* afterwards.  The exceptions: a vector that assigns itself or replaces an element by a
\* copy of itself, assignments and copies of linked vectors, a vector that shrinks, a
\* linked one whose other vector deleted something, Get of a NULL element, a queue that
\* is emptied while it is copied, an object deleted while Exists looks at it,
\* outside of the section, and a vector that links itself though the program asked for
\* one that deletes, as the constructor does whatever it is asked.  The tests of the two classes pass.
StoresOwn ==
  \/ excused
  \/ /\ ~memory.fault /\ TestsExpect
     /\ \A b \in memory.live :
          IF b \in held THEN Owners(b) = {}
          ELSE \E s \in Stores : Owners(b) = {s} /\ Cardinality(PlacesOf(b, s)) = 1
     /\ \A s \in alive : ~linked[s] => ToSet(data[s]) \subseteq memory.live \union {NULL}
================================================================================
