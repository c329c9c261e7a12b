-------------------------------- MODULE Packet --------------------------------
(***************************************************************************)
(* Packets as the program uses them through the packet commands of         *)
(* mnCommands.cpp and the class itself: a block of memory, of which the    *)
(* first usedSize bytes are in use, and a cursor.  Memory is allocated as  *)
(* data is added, kept when data is taken away, and copied when it grows.  *)
(*                                                                         *)
(* Every method holds the lock of its packet, so a command on one packet   *)
(* is one step.  A command on two packets takes their locks one after the  *)
(* other and does its work when it has both.                               *)
(*                                                                         *)
(* Encryption is left out; what a packet keeps beside its data (client,    *)
(* operation, instance, age) is one value, head.                           *)
(***************************************************************************)
EXTENDS Naturals, Sequences

CONSTANTS
  Packets,    \* packets the program has variables for
  Callers,    \* threads of the program
  Byte,       \* values of a byte; 0 is the null terminator
  Junk,       \* what a byte holds that was never written
  Lost,       \* see PacketText
  SizeOf,     \* [NumberTypes -> Nat]: bytes of a number
  Prefix,     \* LargestSupportedBytesInt
  MaxSize     \* bound: [Packets -> Nat \ {0}], bytes of a packet

NumberTypes == {"int", "longlong", "float", "byte", "double", "short", "size_t"}

\* A size_t is one byte here; on a 32 bit build the prefix pads it.
ASSUME PacketAssumption ==
  /\ Byte \subseteq Nat /\ 0 \in Byte /\ Junk \notin Nat
  /\ SizeOf \in [NumberTypes -> Nat \ {0}] /\ SizeOf["size_t"] = 1
  /\ Prefix \in Nat /\ Prefix >= SizeOf["size_t"]
  /\ MaxSize \in [Packets -> Nat \ {0}]
  /\ Lost \notin Seq(Byte \union {Junk})

VARIABLES
  live,       \* packets that have been created
  packet,     \* [Packets -> memory, memSize, used, cursor, head]
  op,         \* [Callers -> the command on two packets it is in]
  last,       \* history: the last command, for PacketText
  fault       \* memory was used that is not the packet's: nothing holds any more

packetVars == <<live, packet, op, last, fault>>

Bytes      == Byte \union {Junk}
Strings(p) == UNION {[1..n -> Byte \ {0}] : n \in 0..MaxSize[p]}
Buffers(p) == UNION {[1..n -> Byte] : n \in 0..MaxSize[p]}

Nothing == "none"
NoCommand == [what |-> Nothing, first |-> Nothing, second |-> Nothing]

New == [memory |-> <<>>, memSize |-> 0, used |-> 0, cursor |-> 0, head |-> 0]

PacketInit ==
  /\ live = {}
  /\ packet = [p \in Packets |-> New]
  /\ op = [t \in Callers |-> NoCommand]
  /\ last = [what |-> Nothing, packet |-> Nothing, other |-> Nothing, bytes |-> <<>>]
  /\ fault = FALSE

(***************************************************************************)
(* The methods that manage memory, as functions of a packet.               *)
(***************************************************************************)

\* ChangeMemorySize(0) frees the data and leaves memSize as it was.
Dangling(pk) == Len(pk.memory) < pk.memSize

Overwrite(memory, at, bytes) ==
  [i \in DOMAIN memory |->
     IF i > at /\ i <= at + Len(bytes) THEN bytes[i - at] ELSE memory[i]]

Data(pk) == SubSeq(pk.memory, 1, pk.used)

\* DefaultVariables(false).
Cleared(pk) == [pk EXCEPT !.used = 0, !.cursor = 0, !.head = 0]

\* SetMemorySize: data is lost; the block is a new one if its size changes.
WithMemory(pk, n) ==
  [Cleared(pk) EXCEPT !.memSize = n,
                      !.memory = IF n = pk.memSize THEN @ ELSE [i \in 1..n |-> Junk]]

\* Copy(const Packet &).
Copied(pk, from) ==
  LET room == IF from.used > pk.memSize THEN WithMemory(pk, from.used) ELSE pk
  IN  [from EXCEPT !.memSize = room.memSize,
                   !.memory = Overwrite(room.memory, 0, Data(from))]

\* Mutated form of Resized: the data is not copied.
ResizedEmpty(pk, n) ==
  IF n = pk.memSize THEN pk
  ELSE IF n = 0 THEN [pk EXCEPT !.memory = <<>>]
  ELSE WithMemory(pk, n)

\* ChangeMemorySize: data survives in a copy, so memory cannot shrink below it.
Resized(pk, n) ==
  IF n = pk.memSize THEN pk
  ELSE IF n = 0 THEN [pk EXCEPT !.memory = <<>>]
  ELSE Copied(WithMemory(pk, n), pk)

Lesser(a, b) == IF a < b THEN a ELSE b

\* Mutated form of WithUsed: one byte too many is thought to fit.
WithUsedOneMore(pk, n) ==
  [(IF n > pk.memSize + 1 THEN Resized(pk, n) ELSE pk)
     EXCEPT !.used = n, !.cursor = Lesser(@, n)]

\* SetUsedSize.
WithUsed(pk, n) ==
  [(IF n > pk.memSize THEN Resized(pk, n) ELSE pk)
     EXCEPT !.used = n, !.cursor = Lesser(@, n)]

\* Room for the data up to a position.
Room(pk, end) == IF end > pk.used THEN WithUsed(pk, end) ELSE pk

\* Bytes written at the cursor (Add, AddStringC, _AddPacket).
Written(pk, bytes) ==
  LET end == pk.cursor + Len(bytes)
  IN  [Room(pk, end) EXCEPT !.memory = Overwrite(@, pk.cursor, bytes), !.cursor = end]

\* Bytes written behind the data (_AddWSABUF).
Appended(pk, bytes) ==
  LET end  == pk.used + Len(bytes)
      room == IF end > pk.memSize THEN Resized(pk, end) ELSE pk
  IN  [room EXCEPT !.memory = Overwrite(@, pk.used, bytes), !.used = end]

\* Reading or writing n bytes at a position would leave the block, as far as there
\* is one.
Outside(pk, at, n) == n > 0 /\ at + n > Len(pk.memory)

\* Memory that grows copies the data there is.
GrowFaults(pk, end) == end > pk.memSize /\ Outside(pk, 0, pk.used)

(***************************************************************************)
(* The shape of a command.                                                 *)
(***************************************************************************)
HasLock(t, p) == op[t].first = p

\* p exists, and no other thread has it locked.
Ready(t, p) ==
  /\ ~fault /\ op[t] = NoCommand /\ p \in live
  /\ \A u \in Callers \ {t} : ~HasLock(u, p)

Done(p, pk, what, bytes) ==
  /\ packet' = [packet EXCEPT ![p] = pk]
  /\ last' = [what |-> what, packet |-> p, other |-> Nothing, bytes |-> bytes]
  /\ UNCHANGED <<live, fault>>

Fault == fault' = TRUE /\ UNCHANGED <<live, packet, op, last>>

\* A command on one packet.
Do(p, faults, pk, what, bytes) ==
  IF faults THEN Fault
  ELSE Done(p, pk, what, bytes) /\ UNCHANGED op

Throw(p) == Do(p, FALSE, packet[p], "fail", <<>>)

\* A command that only tells something of the packet.
Tell(t, p, what, n) == Ready(t, p) /\ Do(p, FALSE, packet[p], what, <<n>>)

(***************************************************************************)
(* Adding.                                                                 *)
(***************************************************************************)
Put(p, bytes) ==
  LET pk  == packet[p]
      end == pk.cursor + Len(bytes)
  IN  Do(p, GrowFaults(pk, end) \/ Outside(Room(pk, end), pk.cursor, Len(bytes)),
         Written(pk, bytes), "put", bytes)

Add(t, p, type) ==
  /\ Ready(t, p)
  /\ packet[p].cursor + SizeOf[type] <= MaxSize[p]
  /\ \E bytes \in [1..SizeOf[type] -> Byte] :
       Put(p, bytes)

AddInt(t, p)       == Add(t, p, "int")
AddLongLong(t, p)  == Add(t, p, "longlong")
AddFloat(t, p)     == Add(t, p, "float")
AddByte(t, p)      == Add(t, p, "byte")
AddDouble(t, p)    == Add(t, p, "double")
AddShort(t, p)     == Add(t, p, "short")
AddLong(t, p)      == Add(t, p, "int")

\* Packet::AddSizeT pads with zeros to the size of the prefix.
SizeT(n) == [i \in 1..Prefix |-> IF i = 1 THEN n ELSE 0]

PutSizeT(t, p) ==
  /\ Ready(t, p)
  /\ packet[p].cursor + Prefix <= MaxSize[p]
  /\ \E n \in Byte : Put(p, SizeT(n))

AddSizeT(t, p)  == PutSizeT(t, p)
AddClockT(t, p) == PutSizeT(t, p)

PutString(t, p) ==
  /\ Ready(t, p)
  /\ \E string \in Strings(p), prefix \in BOOLEAN :
       LET bytes == IF prefix THEN SizeT(Len(string)) \o string ELSE string
       IN  /\ packet[p].cursor + Len(bytes) <= MaxSize[p]
           /\ prefix => Len(string) \in Byte
           /\ Put(p, bytes)

AddStringC(t, p) == PutString(t, p)

\* AddHex adds the bytes one by one.
AddHex(t, p) ==
  /\ Ready(t, p)
  /\ \E bytes \in Buffers(p) :
       packet[p].cursor + Len(bytes) <= MaxSize[p] /\ Put(p, bytes)

AddBuffer(t, p) ==
  /\ Ready(t, p)
  /\ \E bytes \in Buffers(p) :
       LET pk  == packet[p]
           end == pk.used + Len(bytes)
       IN  /\ end <= MaxSize[p]
           /\ Do(p, GrowFaults(pk, end) \/ Outside(Appended(pk, bytes), pk.used, Len(bytes)),
                 Appended(pk, bytes), "append", bytes)

\* GetNullTerminated: a null terminator behind the data, if there is none.
GetNullTerminated(t, p) ==
  /\ Ready(t, p)
  /\ LET pk   == packet[p]
         end  == pk.used + 1
         ending == IF pk.used = 0 THEN 1
                  ELSE IF Outside(pk, 0, pk.used) THEN 0 ELSE pk.memory[pk.used]
     IN  \/ /\ ending \in {0, Junk}
            /\ Do(p, Outside(pk, 0, pk.used), pk, "look", <<>>)
         \/ /\ ending # 0 /\ end <= MaxSize[p]
            /\ Do(p, GrowFaults(pk, end) \/ Outside(Room(pk, end), pk.used, 1),
                  [Written([pk EXCEPT !.cursor = pk.used], <<0>>) EXCEPT !.cursor = pk.cursor],
                  "append", <<0>>)

(***************************************************************************)
(* Getting.                                                                *)
(***************************************************************************)
AtCursor(pk, n) == SubSeq(pk.memory, pk.cursor + 1, pk.cursor + n)

Get(t, p, type) ==
  /\ Ready(t, p)
  /\ LET pk  == packet[p]
         end == pk.cursor + SizeOf[type]
     IN  IF end > pk.used THEN Throw(p)
         ELSE Do(p, Outside(pk, pk.cursor, SizeOf[type]), [pk EXCEPT !.cursor = end], "take",
                 AtCursor(pk, SizeOf[type]))

GetInt(t, p)      == Get(t, p, "int")
GetLongLong(t, p) == Get(t, p, "longlong")
GetFloat(t, p)    == Get(t, p, "float")
GetByte(t, p)     == Get(t, p, "byte")
GetDouble(t, p)   == Get(t, p, "double")
GetShort(t, p)    == Get(t, p, "short")
GetLong(t, p)     == Get(t, p, "int")

\* The number at a position is not in the block.
SizeTFaults(pk, at) == at < pk.used /\ Outside(pk, at, 1)

\* Packet::GetSizeT from a position: the cursor it leaves, whether it threw, and
\* the values it may have read.  If the padding is missing the number is gone.
ReadSizeT(pk, at) ==
  LET read == at + 1 <= pk.used
      pads == at + Prefix <= pk.used
  IN  [cursor |-> IF pads THEN at + Prefix ELSE IF read THEN at + 1 ELSE at,
       threw  |-> ~pads,
       values |-> IF ~pads \/ SizeTFaults(pk, at) THEN {}
                  ELSE IF pk.memory[at + 1] = Junk THEN Byte ELSE {pk.memory[at + 1]}]

TakeSizeT(t, p) ==
  /\ Ready(t, p)
  /\ LET pk == packet[p]
         r  == ReadSizeT(pk, pk.cursor)
     IN  Do(p, SizeTFaults(pk, pk.cursor), [pk EXCEPT !.cursor = r.cursor],
            IF r.threw THEN "fail" ELSE "take",
            IF r.threw THEN <<>> ELSE AtCursor(pk, Prefix))

GetSizeT(t, p)  == TakeSizeT(t, p)
GetClockT(t, p) == TakeSizeT(t, p)

\* Puts the cursor back, unless that throws.
LookAtSizeT(t, p) ==
  /\ Ready(t, p)
  /\ LET pk == packet[p]
         r  == ReadSizeT(pk, pk.cursor)
     IN  Do(p, SizeTFaults(pk, pk.cursor),
            [pk EXCEPT !.cursor = IF r.threw THEN r.cursor ELSE @],
            IF r.threw THEN "fail" ELSE "look", <<>>)

GetStringSize(t, p) == LookAtSizeT(t, p)

\* A length, or 0 for the length in a prefix.  If that is more than there is, the
\* prefix has been taken all the same.
TakeString(t, p) ==
  /\ Ready(t, p)
  /\ LET pk == packet[p]
         r  == ReadSizeT(pk, pk.cursor)
         Taken(from, n) ==
           IF n > pk.used - from
           THEN Do(p, FALSE, [pk EXCEPT !.cursor = from], "fail", <<>>)
           ELSE Do(p, Outside(pk, from, n), [pk EXCEPT !.cursor = from + n], "take",
                   SubSeq(pk.memory, from + 1, from + n))
     IN  \/ \E n \in 1..MaxSize[p] : Taken(pk.cursor, n)
         \/ /\ r.threw
            /\ Do(p, SizeTFaults(pk, pk.cursor), [pk EXCEPT !.cursor = r.cursor], "fail", <<>>)
         \/ ~r.threw /\ SizeTFaults(pk, pk.cursor) /\ Fault
         \/ \E n \in r.values : Taken(r.cursor, n)

\* Into new memory, into memory that the command keeps until its next call, or
\* into memory of the program.
GetStringC(t, p) == TakeString(t, p)

\* GetPrefix: a number at another position.  If it does not fit the cursor stays
\* there.
GetPrefix(t, p, type) ==
  /\ Ready(t, p)
  /\ \E at \in 0..MaxSize[p] :
       LET pk == packet[p]
       IN  IF at > pk.used THEN Throw(p)
           ELSE IF at + SizeOf[type] > pk.used
           THEN Do(p, FALSE, [pk EXCEPT !.cursor = at], "move", <<>>)
           ELSE Do(p, Outside(pk, at, SizeOf[type]), pk, "look", <<>>)

\* GetPrefixSizeT: like GetStringSize, at another position.
GetPrefixSizeT(t, p) ==
  /\ Ready(t, p)
  /\ \E at \in 0..MaxSize[p] :
       LET pk == packet[p]
           r  == ReadSizeT(pk, at)
       IN  IF at > pk.used THEN Throw(p)
           ELSE Do(p, SizeTFaults(pk, at),
                   [pk EXCEPT !.cursor = IF r.threw THEN r.cursor ELSE @],
                   IF r.threw THEN "move" ELSE "look", <<>>)

\* GetHex: bytes from anywhere.
GetHex(t, p) ==
  /\ Ready(t, p)
  /\ \E at \in 0..MaxSize[p], n \in 0..MaxSize[p] :
       IF at + n > packet[p].used THEN Throw(p)
       ELSE Do(p, Outside(packet[p], at, n), packet[p], "look", <<>>)

\* GetDataPtrCopy, CopyIntoWSABUF, and PtrIntoWSABUF followed by a use of the data.
CopyIntoWSABUF(t, p) ==
  Ready(t, p) /\ Do(p, Outside(packet[p], 0, packet[p].used), packet[p], "copy", Data(packet[p]))

GetUsedSize(t, p)        == Tell(t, p, "size", packet[p].used)
GetCursor(t, p)          == Tell(t, p, "cursor", packet[p].cursor)
GetPacketRemainder(t, p) == Tell(t, p, "remainder", packet[p].used - packet[p].cursor)
GetMemorySize(t, p)      == Tell(t, p, "look", packet[p].memSize)

\* GetAge, GetOperation, GetInstance.
GetHead(t, p) == Tell(t, p, "look", packet[p].head)

\* SetAge, SetClientFrom, SetOperation, SetInstance.
SetHead(t, p) == Ready(t, p) /\ Do(p, FALSE, [packet[p] EXCEPT !.head = 1], "look", <<>>)

(***************************************************************************)
(* Sizes and the cursor.                                                   *)
(***************************************************************************)
Clear(t, p) == Ready(t, p) /\ Do(p, FALSE, Cleared(packet[p]), "empty", <<>>)

SetMemorySize(t, p) ==
  Ready(t, p) /\ \E n \in 0..MaxSize[p] : Do(p, FALSE, WithMemory(packet[p], n), "empty", <<>>)

\* Data that is not there cannot be copied.
ChangeMemorySize(t, p) ==
  /\ Ready(t, p)
  /\ \E n \in 0..MaxSize[p] :
       Do(p, n \notin {0, packet[p].memSize} /\ Outside(packet[p], 0, packet[p].used),
          Resized(packet[p], n), "memory", <<>>)

SetUsedSize(t, p) ==
  /\ Ready(t, p)
  /\ \E n \in 0..MaxSize[p] :
       Do(p, GrowFaults(packet[p], n), WithUsed(packet[p], n), "resize", <<>>)

SetCursor(t, p) ==
  /\ Ready(t, p)
  /\ \E c \in 0..MaxSize[p] :
       IF c > packet[p].used THEN Throw(p)
       ELSE Do(p, FALSE, [packet[p] EXCEPT !.cursor = c], "move", <<>>)

\* Erase: data behind the hole moves down; the cursor goes back by the amount,
\* wherever it was.
Erased(pk, from, n) ==
  [pk EXCEPT !.memory = Overwrite(@, from, SubSeq(@, from + n + 1, pk.used)),
             !.used = @ - n,
             !.cursor = IF n >= @ THEN 0 ELSE @ - n]

Erase(t, p) ==
  /\ Ready(t, p)
  /\ \E from \in 0..MaxSize[p], n \in 1..MaxSize[p] :
       LET pk == packet[p]
       IN  IF from + n > pk.used THEN Throw(p)
           ELSE Do(p, Outside(pk, from + n, pk.used - (from + n)), Erased(pk, from, n),
                   "cut", <<>>)

\* Insert: data behind the cursor moves up; what was there stays in the hole.
Inserted(pk, n) ==
  LET room == WithUsed(pk, pk.used + n)
  IN  [room EXCEPT !.memory =
         Overwrite(@, pk.cursor + n, SubSeq(@, pk.cursor + 1, pk.used))]

Insert(t, p) ==
  /\ Ready(t, p)
  /\ \E n \in 1..(MaxSize[p] - packet[p].used) :
       LET pk == packet[p]
       IN  Do(p, \/ GrowFaults(pk, pk.used + n)
                 \/ Outside(WithUsed(pk, pk.used + n), pk.cursor + n, pk.used - pk.cursor),
              Inserted(pk, n), "gap", <<>>)

(***************************************************************************)
(* Strings and buffers as a whole, creation and deletion.                  *)
(***************************************************************************)

\* Copy(const char *).
WithString(pk, string) ==
  LET room == IF Len(string) > pk.memSize THEN WithMemory(pk, Len(string)) ELSE pk
  IN  [room EXCEPT !.memory = Overwrite(@, 0, string),
                   !.used = Len(string), !.cursor = Len(string)]

\* operator=(const char *) forgets its block first: the block leaks.
AssignString(t, p) ==
  /\ Ready(t, p)
  /\ \E string \in Strings(p) : Do(p, FALSE, WithString(New, string), "string", string)

\* LoadFull with equalWSABUF.
WithBuffer(pk, bytes) ==
  LET room == IF Len(bytes) > pk.memSize THEN WithMemory(pk, Len(bytes)) ELSE Cleared(pk)
  IN  [room EXCEPT !.memory = Overwrite(@, 0, bytes), !.used = Len(bytes), !.head = 1]

\* The string may end with the packet, or at a null terminator at its end.
SameSize(pk, string)   == pk.used \in {Len(string), Len(string) + 1}
SameString(pk, string) ==
  /\ SameSize(pk, string)
  /\ pk.used = 0 \/ Data(pk) = SubSeq(string \o <<0>>, 1, pk.used)

ComparePacketString(t, p) ==
  /\ Ready(t, p)
  /\ \E string \in Strings(p) :
       Do(p, SameSize(packet[p], string) /\ Outside(packet[p], 0, packet[p].used), packet[p],
          IF SameString(packet[p], string) THEN "is" ELSE "look", string)

LoadFull(t, p) ==
  /\ Ready(t, p)
  /\ \E bytes \in Buffers(p) :
       Do(p, Outside(WithBuffer(packet[p], bytes), 0, Len(bytes)), WithBuffer(packet[p], bytes), "load", bytes)

Create(t, p, pk, what, bytes) ==
  /\ ~fault /\ op[t] = NoCommand /\ p \notin live
  /\ live' = live \union {p}
  /\ packet' = [packet EXCEPT ![p] = pk]
  /\ last' = [what |-> what, packet |-> p, other |-> Nothing, bytes |-> bytes]
  /\ UNCHANGED <<op, fault>>

CreatePacket(t, p) == Create(t, p, New, "empty", <<>>)

CreatePacketFromString(t, p) ==
  \E string \in Strings(p) : Create(t, p, WithString(New, string), "string", string)

CreatePacketLoaded(t, p) ==
  \E bytes \in Buffers(p) : Create(t, p, WithBuffer(New, bytes), "load", bytes)

\* The program deletes no packet that one of its threads uses.
DeletePacket(t, p) ==
  /\ Ready(t, p)
  /\ \A u \in Callers : p \notin {op[u].first, op[u].second}
  /\ live' = live \ {p}
  /\ packet' = [packet EXCEPT ![p] = New]
  /\ last' = [what |-> "empty", packet |-> p, other |-> Nothing, bytes |-> <<>>]
  /\ UNCHANGED <<op, fault>>

(***************************************************************************)
(* Commands on two packets: each method takes one lock, then the other.    *)
(***************************************************************************)
Begin(t, what, first, second) ==
  /\ Ready(t, first)
  /\ op' = [op EXCEPT ![t] = [what |-> what, first |-> first, second |-> second]]
  /\ UNCHANGED <<live, packet, last, fault>>

\* Copy locks the source first, operator== its parameter, _AddPacket the
\* destination, Find the packet that is searched.
BeginAssign(t, p, q)  == q \in live /\ Begin(t, "assign", p, q)
BeginCompare(t, p, q) == q \in live /\ Begin(t, "compare", p, q)
BeginAdd(t, p, q)     == q \in live /\ Begin(t, "add", p, q)
BeginFind(t, p, q)    == q \in live /\ Begin(t, "find", p, q)
BeginCreate(t, p, q)  == q \notin live /\ Begin(t, "create", p, q)

\* The second lock is free, or the thread's own: locks are recursive.
Second(t, what) ==
  /\ ~fault /\ op[t].what = what
  /\ \A u \in Callers \ {t} : ~HasLock(u, op[t].second)

Finish(t, faults, p, q, pk, what) ==
  IF faults THEN Fault
  ELSE /\ packet' = [packet EXCEPT ![p] = pk]
       /\ last' = [what |-> what, packet |-> p, other |-> q, bytes |-> <<>>]
       /\ op' = [op EXCEPT ![t] = NoCommand]
       /\ UNCHANGED <<live, fault>>

EndAssign(t) ==
  /\ Second(t, "assign")
  /\ LET q    == op[t].first
         p    == op[t].second
         from == packet[q]
         into == packet[p]
     IN  /\ from.used <= MaxSize[p]
         /\ Finish(t, Outside(from, 0, from.used) \/ Outside(Copied(into, from), 0, from.used),
                   p, q, Copied(into, from), "assign")

\* operator==: what the packets keep beside data, then byte by byte.
Same(a, b) == a.head = b.head /\ a.used = b.used /\ (a.used = 0 \/ Data(a) = Data(b))

EndCompare(t) ==
  /\ Second(t, "compare")
  /\ LET a == packet[op[t].first]
         b == packet[op[t].second]
     IN  Finish(t, a.used = b.used /\ (Outside(a, 0, a.used) \/ Outside(b, 0, b.used)),
                op[t].first, op[t].second, a, IF Same(a, b) THEN "equal" ELSE "look")

\* A packet added to itself has grown by the time its data is copied: what is
\* copied is longer than the room that was made for it.
EndAdd(t) ==
  /\ Second(t, "add")
  /\ LET p     == op[t].first
         pk    == packet[p]
         added == Data(packet[op[t].second])
         end   == pk.cursor + packet[op[t].second].used
         room  == Room(pk, end)
         copy  == IF op[t].second = p THEN Data(room) ELSE added
     IN  /\ end <= MaxSize[p]
         /\ IF \/ Outside(packet[op[t].second], 0, packet[op[t].second].used)
               \/ GrowFaults(pk, end)
               \/ Outside(room, pk.cursor, Len(copy))
            THEN Fault
            ELSE /\ Done(p, [room EXCEPT !.memory = Overwrite(@, pk.cursor, copy),
                                         !.cursor = end], "put", added)
                 /\ op' = [op EXCEPT ![t] = NoCommand]

EndFind(t) ==
  /\ Second(t, "find")
  /\ LET pk == packet[op[t].first]
         what == packet[op[t].second]
     IN  Finish(t, /\ what.used > 0 /\ pk.used > 0
                   /\ Outside(pk, 0, pk.used) \/ Outside(what, 0, what.used),
                op[t].first, op[t].second, pk, IF pk.used = 0 THEN "fail" ELSE "look")

\* The new packet is nobody else's yet: its lock is free.
EndCreate(t) ==
  /\ Second(t, "create")
  /\ LET from == packet[op[t].first]
         p == op[t].second
     IN  IF Outside(from, 0, from.used) THEN Fault
         ELSE /\ p \notin live /\ from.used <= MaxSize[p]
              /\ live' = live \union {p}
              /\ packet' = [packet EXCEPT ![p] = Copied(New, from)]
              /\ last' = [what |-> "assign", packet |-> p, other |-> op[t].first, bytes |-> <<>>]
              /\ op' = [op EXCEPT ![t] = NoCommand]
              /\ UNCHANGED fault

-----------------------------------------------------------------------------
Adds(t, p) ==
  \/ AddInt(t, p) \/ AddLongLong(t, p) \/ AddFloat(t, p) \/ AddByte(t, p) \/ AddDouble(t, p)
  \/ AddShort(t, p) \/ AddLong(t, p) \/ AddSizeT(t, p) \/ AddClockT(t, p)
  \/ AddStringC(t, p) \/ AddHex(t, p) \/ AddBuffer(t, p) \/ GetNullTerminated(t, p)

Gets(t, p) ==
  \/ GetInt(t, p) \/ GetLongLong(t, p) \/ GetFloat(t, p) \/ GetByte(t, p) \/ GetDouble(t, p)
  \/ GetShort(t, p) \/ GetLong(t, p) \/ GetSizeT(t, p) \/ GetClockT(t, p)
  \/ GetStringSize(t, p) \/ GetStringC(t, p) \/ GetPrefixSizeT(t, p)
  \/ \E type \in NumberTypes : GetPrefix(t, p, type)
  \/ GetHex(t, p) \/ CopyIntoWSABUF(t, p)

Sizes(t, p) ==
  \/ Clear(t, p) \/ SetMemorySize(t, p) \/ ChangeMemorySize(t, p) \/ SetUsedSize(t, p)
  \/ SetCursor(t, p) \/ Erase(t, p) \/ Insert(t, p)
  \/ GetUsedSize(t, p) \/ GetCursor(t, p) \/ GetPacketRemainder(t, p) \/ GetMemorySize(t, p)
  \/ GetHead(t, p) \/ SetHead(t, p)

Wholes(t, p) ==
  \/ AssignString(t, p) \/ LoadFull(t, p) \/ CreatePacket(t, p) \/ CreatePacketFromString(t, p)
  \/ CreatePacketLoaded(t, p) \/ ComparePacketString(t, p) \/ DeletePacket(t, p)

Pairs(t) ==
  \/ \E p, q \in Packets : BeginAssign(t, p, q) \/ BeginCompare(t, p, q) \/ BeginAdd(t, p, q)
                           \/ BeginFind(t, p, q) \/ BeginCreate(t, p, q)
  \/ EndAssign(t) \/ EndCompare(t) \/ EndAdd(t) \/ EndFind(t) \/ EndCreate(t)

PacketNext ==
  \E t \in Callers :
    \/ \E p \in Packets : Adds(t, p) \/ Gets(t, p) \/ Sizes(t, p) \/ Wholes(t, p)
    \/ Pairs(t)

PacketSpec == PacketInit /\ [][PacketNext]_packetVars

-----------------------------------------------------------------------------
(***************************************************************************)
(* Properties.                                                             *)
(***************************************************************************)

\* No command reads or writes outside the block of its packet, unless the block
\* was given away with ChangeMemorySize(0) or a packet is added to itself.
FaultsAreKnown ==
  fault => \/ \E p \in live : Dangling(packet[p])
           \/ \E t \in Callers : op[t].what = "add" /\ op[t].first = op[t].second

\* Packets are texts with a cursor: no reallocation, copy or shift of memory, in
\* any sequence of commands, shows in what is read (Packet.h:13-45).
Text == INSTANCE PacketText WITH
  text <- [p \in Packets |-> IF Dangling(packet[p]) THEN Lost ELSE Data(packet[p])],
  pos  <- [p \in Packets |-> packet[p].cursor]

ImplementsText == Text!Spec

=============================================================================
