---------------------------- MODULE ConcurrentObject ----------------------------
(***************************************************************************)
(* ConcurrentObject: a value behind a critical section, which a thread can *)
(* also enter for several operations.  The model is the test of the class: *)
(* threads that read the object, set it, and set it to NULL for a while in *)
(* the section; when they have ended, the operations on numbers.  The      *)
(* threads also use the operations with two objects, which the library has *)
(* and the test leaves out.                                                *)
(***************************************************************************)
EXTENDS Naturals

CONSTANTS
  Cells,     \* objects of the threads; Shared is the one of the test
  Shared,
  Workers,   \* threads of the test
  NoWorker,  \* who is in a section nobody is in
  NullPointer,   \* NULL
  CellValues,   \* values of the objects that are not NULL
  SizeOf     \* bytes of a number, each of 8 bits

ASSUME CellAssumption ==
  /\ Shared \in Cells /\ NoWorker \notin Workers
  /\ NullPointer \notin CellValues /\ CellValues # {}
  /\ SizeOf \in Nat \ {0}

VARIABLES
  cell,      \* [Cells -> value of the object]
  section,   \* [Cells -> [by, levels]: its critical section]
  worker,    \* [Workers -> where the thread is, and the cells of its operation]
  temp,      \* [Workers -> the value Get returned]
  copy,      \* [Workers -> the value a new object of the thread was made with]
  number,    \* the object of the second part of the test
  turn       \* its last step

cellVars == <<cell, section, worker, temp, copy, number, turn>>

AtStart == [at |-> "get"]

CellInit ==
  /\ cell \in [Cells -> CellValues]
  /\ section = [c \in Cells |-> [by |-> NoWorker, levels |-> 0]]
  /\ worker = [w \in Workers |-> AtStart]
  /\ temp = [w \in Workers |-> NullPointer]
  /\ copy = [w \in Workers |-> [from |-> "none", value |-> NullPointer]]
  /\ number = 0 /\ turn = 0

Enterable(c, w) == section[c].by \in {NoWorker, w}
Entered(c, w)   == [section EXCEPT ![c] = [by |-> w, levels |-> @.levels + 1]]
LeftCell(c)     == [section EXCEPT ![c] = IF @.levels = 1 THEN [by |-> NoWorker, levels |-> 0]
                                          ELSE [@ EXCEPT !.levels = @ - 1]]

IsAt(w, place)  == worker[w].at = place
Moves(w, place) == worker' = [worker EXCEPT ![w] = [at |-> place]]

(***************************************************************************)
(* The thread of the test.                                                 *)
(***************************************************************************)
GetObject(w) ==
  /\ IsAt(w, "get") /\ Enterable(Shared, w)
  /\ temp' = [temp EXCEPT ![w] = cell[Shared]]
  /\ Moves(w, "set")
  /\ UNCHANGED <<cell, section, copy, number, turn>>

\* SetObject (Set) enters the section once more if the thread is in it.
SetObject(w, place, value, next) ==
  /\ IsAt(w, place) /\ Enterable(Shared, w)
  /\ cell' = [cell EXCEPT ![Shared] = value]
  /\ Moves(w, next)
  /\ UNCHANGED <<section, temp, copy, number, turn>>

EnterCell(w) ==
  /\ IsAt(w, "enter") /\ Enterable(Shared, w)
  /\ section' = Entered(Shared, w)
  /\ Moves(w, "setNull")
  /\ UNCHANGED <<cell, temp, copy, number, turn>>

LeaveCell(w) ==
  /\ IsAt(w, "leave")
  /\ section' = LeftCell(Shared)
  /\ Moves(w, "get")
  /\ UNCHANGED <<cell, temp, copy, number, turn>>

\* The thread ends when it has run for a second.
End(w) == IsAt(w, "get") /\ Moves(w, "ended") /\ UNCHANGED <<cell, section, temp, copy, number, turn>>

TestFunction(w) ==
  \/ GetObject(w) \/ End(w)
  \/ \E v \in CellValues : SetObject(w, "set", v, "enter")
  \/ EnterCell(w)
  \/ SetObject(w, "setNull", NullPointer, "setTemp")
  \/ SetObject(w, "setTemp", temp[w], "leave")
  \/ LeaveCell(w)

(***************************************************************************)
(* Operations with two objects.                                            *)
(***************************************************************************)
\* Both enter one section and then the other: an assignment first that of the object
\* it copies, a comparison first that of its left side.
StartTwo(w, op, first, second) ==
  /\ IsAt(w, "get") /\ Enterable(first, w)
  /\ section' = Entered(first, w)
  /\ worker' = [worker EXCEPT ![w] = [at |-> op, first |-> first, second |-> second]]
  /\ UNCHANGED <<cell, temp, copy, number, turn>>

Assign(w) ==
  /\ IsAt(w, "assign") /\ Enterable(worker[w].second, w)
  /\ cell' = [cell EXCEPT ![worker[w].second] = cell[worker[w].first]]
  /\ section' = LeftCell(worker[w].first)
  /\ Moves(w, "get")
  /\ UNCHANGED <<temp, copy, number, turn>>

\* What the comparison says is not used.
Compare(w) ==
  /\ IsAt(w, "compare") /\ Enterable(worker[w].second, w)
  /\ section' = LeftCell(worker[w].first)
  /\ Moves(w, "get")
  /\ UNCHANGED <<cell, temp, copy, number, turn>>

\* The copy constructor does not enter the section of the object; Clone does, around it.
CopyConstruct(w, c) ==
  /\ IsAt(w, "get")
  /\ copy' = [copy EXCEPT ![w] = [from |-> "constructor", value |-> cell[c]]]
  /\ UNCHANGED <<cell, section, worker, temp, number, turn>>

Clone(w, c) ==
  /\ IsAt(w, "get") /\ Enterable(c, w)
  /\ copy' = [copy EXCEPT ![w] = [from |-> "clone", value |-> cell[c]]]
  /\ UNCHANGED <<cell, section, worker, temp, number, turn>>

TwoCells(w) ==
  \/ \E c, d \in Cells : StartTwo(w, "assign", c, d) \/ StartTwo(w, "compare", c, d)
  \/ Assign(w) \/ Compare(w)
  \/ \E c \in Cells : CopyConstruct(w, c) \/ Clone(w, c)

(***************************************************************************)
(* Operations on a number, in the order of the test.                       *)
(***************************************************************************)
Limit         == 2 ^ (8 * SizeOf)
Increase(n)   == (number + n) % Limit
Decrease(n)   == (number + Limit - n) % Limit
BitGet(bit)   == (number \div 2 ^ bit) % 2 = 1
BitOn(bit)    == IF BitGet(bit) THEN number ELSE number + 2 ^ bit
BitOff(bit)   == IF BitGet(bit) THEN number - 2 ^ bit ELSE number
BitToggle(bit) == IF BitGet(bit) THEN BitOff(bit) ELSE BitOn(bit)

\* The number of the bit is compared with the number of bytes.
IsBit(bit) == bit <= SizeOf

Turn(k, value) ==
  /\ turn = k - 1 /\ turn' = k
  /\ number' = value
  /\ UNCHANGED <<cell, section, worker, temp, copy>>

NumberTest ==
  /\ \A w \in Workers : IsAt(w, "ended")
  /\ \/ Turn(1, 0) \/ Turn(2, Increase(10)) \/ Turn(3, Decrease(5)) \/ Turn(4, 0)
     \/ IsBit(2) /\ (Turn(5, BitOn(2)) \/ Turn(6, BitOff(2)) \/ Turn(7, BitToggle(2)) \/ Turn(8, BitToggle(2)))

CellNext == (\E w \in Workers : TestFunction(w) \/ TwoCells(w)) \/ NumberTest

(***************************************************************************)
(* Properties.                                                             *)
(***************************************************************************)
\* A thread sees the NULL that another one put into the object for a while in no way
\* but through the copy constructor: not with Get, in an object it assigned, or in a
\* clone.  The numbers of the test are the expected ones.
CellsAsTested ==
  /\ \A w \in Workers : ~IsAt(w, "get") /\ ~IsAt(w, "ended") /\ worker[w].at \notin {"assign", "compare"}
                        => temp[w] # NullPointer
  /\ \A w \in Workers : copy[w].from = "clone" => copy[w].value # NullPointer
  /\ \A c \in Cells \ {Shared} : cell[c] # NullPointer
  /\ turn = 2 => number = 10
  /\ turn = 3 => number = 5
  /\ turn \in {5, 7} => BitGet(2)
  /\ turn \in {6, 8} => ~BitGet(2)
================================================================================
