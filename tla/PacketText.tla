------------------------------ MODULE PacketText ------------------------------
(***************************************************************************)
(* What a Packet promises to those who use it (Packet.h:13-45): a text     *)
(* with a cursor, as in a word processor.  There is no memory here: how    *)
(* much of it is allocated, and when, must make no difference.             *)
(***************************************************************************)
EXTENDS Naturals, Sequences

CONSTANTS
  Packets,    \* packets
  Byte,       \* values of a byte
  Junk,       \* what a byte holds that was never written
  Lost,       \* the text of a packet whose memory was given away
  Prefix,     \* bytes in front of a string that give its size
  MaxSize     \* bound: [Packets -> Nat], bytes of a packet

VARIABLES
  text,       \* [Packets -> Seq(Byte \union {Junk}) \union {Lost}]
  pos,        \* [Packets -> Nat]
  last        \* the last command: what, its packets, the bytes given or taken

Nothing == "none"
vars == <<text, pos, last>>

Bytes(p) == UNION {[1..n -> Byte \union {Junk}] : n \in 0..MaxSize[p]}
Size(p)  == Len(text[p])

\* Bytes written over a text from a position on, and beyond its end.
Over(s, at, bytes) ==
  SubSeq(s, 1, at) \o bytes \o SubSeq(s, at + Len(bytes) + 1, Len(s))

Init ==
  /\ text = [p \in Packets |-> <<>>]
  /\ pos = [p \in Packets |-> 0]
  /\ last = [what |-> Nothing, packet |-> Nothing, other |-> Nothing, bytes |-> <<>>]

\* Every step is a command, and last' says which.
Is(what) == last'.what = what
Given    == last'.bytes

Edit(p, s, c) == text' = [text EXCEPT ![p] = s] /\ pos' = [pos EXCEPT ![p] = c]

\* Add, AddStringC, AddPacket: at the cursor, which moves behind the bytes.
Put(p) == Is("put") /\ Edit(p, Over(text[p], pos[p], Given), pos[p] + Len(Given))

\* Get and GetStringC: what is at the cursor, or behind a prefix there.
Take(p) ==
  /\ Is("take")
  /\ \E skip \in {0, Prefix} :
       LET end == pos[p] + skip + Len(Given)
       IN  /\ end <= Size(p)
           /\ Given = SubSeq(text[p], pos[p] + skip + 1, end)
           /\ Edit(p, text[p], end)

\* A command that throws changes no text, but may have moved the cursor.
Fail(p) == Is("fail") /\ \E c \in pos[p]..Size(p) : Edit(p, text[p], c)
Move(p) == Is("move") /\ \E c \in 0..Size(p) : Edit(p, text[p], c)

\* SetUsedSize: the text is cut, or goes on with anything.
Resize(p) ==
  /\ Is("resize")
  /\ \/ \E n \in 0..Size(p) :
          Edit(p, SubSeq(text[p], 1, n), IF pos[p] > n THEN n ELSE pos[p])
     \/ \E rest \in Bytes(p) : Edit(p, text[p] \o rest, pos[p])

\* Bytes at the end of the text; the cursor stays.
AppendEnd(p) == Is("append") /\ Edit(p, text[p] \o Given, pos[p])

\* Erase takes n bytes out, and the cursor back by as many.
Cut(p) ==
  /\ Is("cut")
  /\ \E from \in 0..Size(p), n \in 1..Size(p) :
       /\ from + n <= Size(p)
       /\ Edit(p, SubSeq(text[p], 1, from) \o SubSeq(text[p], from + n + 1, Size(p)),
               IF n >= pos[p] THEN 0 ELSE pos[p] - n)

\* Insert makes room at the cursor, which stays.
Gap(p) ==
  /\ Is("gap")
  /\ \E room \in Bytes(p) :
       Edit(p, SubSeq(text[p], 1, pos[p]) \o room \o SubSeq(text[p], pos[p] + 1, Size(p)),
            pos[p])

\* The text of another packet, of a string, of a buffer, or none.
Assign(p) ==
  /\ Is("assign")
  /\ IF text[last'.other] = Lost THEN Edit(p, <<>>, 0)
     ELSE Edit(p, text[last'.other], pos[last'.other])

String(p) == Is("string") /\ Edit(p, Given, Len(Given))
Load(p)   == Is("load") /\ Edit(p, Given, 0)
Empty(p)  == Is("empty") /\ Edit(p, <<>>, 0)

\* Commands that only look.  Two packets are equal only if their texts are.
Look  == Is("look") /\ UNCHANGED <<text, pos>>
Equal(p) ==
  /\ Is("equal")
  /\ text[p] = IF text[last'.other] = Lost THEN <<>> ELSE text[last'.other]
  /\ UNCHANGED <<text, pos>>

\* What the program is told, and what it gets a copy of.  A string is equal to the
\* text also without a null terminator at the text's end.
Tells(p) ==
  /\ \/ Is("size") /\ Given = <<Size(p)>>
     \/ Is("cursor") /\ Given = <<pos[p]>>
     \/ Is("remainder") /\ Given = <<Size(p) - pos[p]>>
     \/ Is("copy") /\ Given = text[p]
     \/ Is("is") /\ text[p] \in {Given, Given \o <<0>>}
  /\ UNCHANGED <<text, pos>>

\* ChangeMemorySize keeps the text.  But the size 0 gives the memory away,
\* and until the packet gets a new text nothing is promised of it.
Remember(p)  == Is("memory") /\ (Edit(p, text[p], pos[p]) \/ Edit(p, Lost, pos[p]))
WhileLost(p) == \A q \in Packets \ {p} : text'[q] = text[q] /\ pos'[q] = pos[q]

Kept(p) ==
  \/ Put(p) \/ Take(p) \/ Fail(p) \/ Move(p) \/ Resize(p) \/ AppendEnd(p) \/ Cut(p)
  \/ Gap(p) \/ Look \/ Tells(p) \/ Equal(p) \/ Remember(p)

Commands ==
  {"put", "take", "fail", "move", "resize", "append", "cut", "gap", "look", "equal",
   "memory", "assign", "string", "load", "empty", "size", "cursor", "remainder", "copy", "is"}

Next ==
  \E p \in Packets :
    /\ last' \in [what : Commands, packet : {p},
                 other : Packets \union {Nothing}, bytes : Bytes(p) \union [{1} -> 0..MaxSize[p]]]
    /\ \/ Assign(p) \/ String(p) \/ Load(p) \/ Empty(p)
       \/ text[p] # Lost /\ Kept(p)
       \/ text[p] = Lost /\ WhileLost(p)

Spec == Init /\ [][Next]_vars
=============================================================================
