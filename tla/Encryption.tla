------------------------------- MODULE Encryption -------------------------------
(***************************************************************************)
(* Packet::Encrypt and Decrypt: the shared threads each work on every      *)
(* NumThreads-th chunk of a packet, while the program waits or goes on.    *)
(* The items hold pointers to the packet's data and to the program's key.  *)
(* What is done to one chunk is the subject of Aes; here a chunk remembers *)
(* the operations applied to it.                                           *)
(*                                                                         *)
(* The program does not read or write a packet while an operation is in    *)
(* progress, as the commands' documentation asks, but it may start the     *)
(* next operation, destroy the packet or delete the key.                   *)
(***************************************************************************)
EXTENDS SharedThreads, SequencesExt

CONSTANTS
  Packets,      \* the objects that are packets
  Sizes,        \* [Packets -> used size of its data in the beginning]
  Chunk,        \* ENCRYPTION_CHUNK_SIZE
  MaxOperations \* bound: [Packets -> operations asked of the packet]

ASSUME EncryptionAssumption ==
  /\ Packets = {o \in Objects : ClassOf[o] = "packet"}
  /\ Sizes \in [Packets -> Nat] /\ Chunk \in Nat \ {0}
  /\ NumThreads["packet"] # 0

VARIABLES
  exists,       \* packets that have not been destroyed
  used,         \* [Packets -> usedSize]
  applied,      \* [Packets -> [chunks -> operations done to the chunk]]
  keyLives,     \* the program's key has not been deleted
  asked,        \* history: [Packets -> operations accepted]
  settled,      \* history: packets whose operations the program knows to have finished
  careless      \* history: the key was deleted while a packet was not settled

encryptionVars == <<exists, used, applied, keyLives, asked, settled, careless>>

Operations == {"encrypt", "decrypt"}

\* Packet::Encrypt fills the last chunk up, Decrypt wants whole chunks.
Padded(size) == ((size + Chunk - 1) \div Chunk) * Chunk
Accepts(op, size) == IF op = "encrypt" THEN size # 0 ELSE size >= Chunk /\ size % Chunk = 0

\* The chunks that threads work on.
Chunks(p) == 0 .. (Padded(Sizes[p]) \div Chunk) - 1

EncryptionInit ==
  /\ exists = Packets \intersect scene /\ used = Sizes
  /\ applied = [p \in Packets |-> [c \in Chunks(p) |-> <<>>]]
  /\ keyLives = TRUE /\ careless = FALSE
  /\ asked = [p \in Packets |-> <<>>] /\ settled = Packets

\* No caller has a call in progress on p.
Unused(p) == p \in exists /\ \A k \in Callers : call[k].obj # p

\* mn::Encrypt and Decrypt, up to SetupThreadsLocal.
BeginOperation(k, p, op, block) ==
  /\ At(k, "idle") /\ Unused(p) /\ keyLives
  /\ Accepts(op, used[p]) /\ Len(asked[p]) < MaxOperations[p]
  /\ used' = [used EXCEPT ![p] = Padded(@)]
  /\ asked' = [asked EXCEPT ![p] = Append(@, op)]
  /\ call' = [call EXCEPT ![k] = [at |-> IF using[p] THEN "ready" ELSE "setup",
                                  obj |-> p, n |-> 0, block |-> block]]
  /\ settled' = settled \ {p}
  /\ UNCHANGED <<usage, pool, itemVars, using, lockVars, historyVars,
                 exists, applied, keyLives, careless>>

\* GetNumThreads: the size of the vector of threads.
GetNumThreads(c) == IF pool[c] THEN NumThreads[c] ELSE 0

\* One turn of DoEncryptionOperation's loop.
PostItem(k) ==
  LET p == call[k].obj
      n == call[k].n
      of == GetNumThreads("packet")
  IN
  /\ At(k, "ready") /\ Class(k) = "packet" /\ n < of
  /\ PostMessageItem(p, n, [op |-> Last(asked[p]), size |-> used[p], of |-> of])
  /\ call' = [call EXCEPT ![k].n = n + 1]
  /\ UNCHANGED <<usage, pool, stage, dead, using, lockVars, historyVars, encryptionVars>>

EndLoop(k) ==
  /\ At(k, "ready") /\ Class(k) = "packet" /\ call[k].n >= GetNumThreads("packet")
  /\ threadsLock = None /\ classLock["packet"] = None
  /\ call' = [call EXCEPT ![k] = IF @.block THEN [@ EXCEPT !.at = "wait"] ELSE Idle]
  /\ UNCHANGED <<usage, pool, itemVars, using, lockVars, historyVars, encryptionVars>>

\* WaitUntilLastThreadOperationFinished.
WaitUntilFinished(k) ==
  /\ At(k, "wait") /\ Finished(call[k].obj)
  /\ settled' = settled \union {call[k].obj}
  /\ call' = [call EXCEPT ![k] = Idle]
  /\ UNCHANGED <<usage, pool, itemVars, using, lockVars, historyVars,
                 exists, used, applied, keyLives, asked, careless>>

\* mn::GetLastEncryptionOperationFinished, when the answer is yes.
PollFinished(k, p) ==
  /\ At(k, "idle") /\ Unused(p) /\ p \notin settled /\ Finished(p)
  /\ settled' = settled \union {p}
  /\ UNCHANGED <<poolVars, exists, used, applied, keyLives, asked, careless>>

\* Mutated form of Share: the first chunk is left out.
ShareFromOne(n, of, chunks) == {c \in 1 .. chunks - 1 : c % of = n}

\* The chunks of a packet that thread n of all works on.
Share(n, of, chunks) == {c \in 0 .. chunks - 1 : c % of = n}

\* ThreadMessageItemEncrypt::TakeAction.
EncryptChunks(t) ==
  LET p == Item(t).obj
      arg == Item(t).arg
  IN
  /\ Takes(t) /\ p \in Packets
  /\ applied' = [applied EXCEPT ![p] =
       [c \in DOMAIN @ |-> IF c \in Share(t[2], arg.of, arg.size \div Chunk)
                           THEN Append(@[c], arg.op) ELSE @[c]]]
  /\ fault' = (~keyLives \/ p \notin exists)
  /\ stage' = [stage EXCEPT ![t] = "decide"]
  /\ UNCHANGED <<usage, pool, queue, dead, last, using, lockVars, call, overlapped, rash,
                 exists, used, keyLives, asked, settled, careless>>

\* mn::DeletePacket: ~Packet.
DestroyPacket(k, p) ==
  /\ At(k, "idle") /\ Unused(p)
  /\ call' = [call EXCEPT ![k] = [at |-> IF using[p] THEN "cleanup" ELSE "free",
                                  obj |-> p, n |-> 0, block |-> p \notin settled]]
  /\ UNCHANGED <<usage, pool, itemVars, using, lockVars, historyVars, encryptionVars>>

\* The destructor deletes the data.
FreePacket(k) ==
  /\ At(k, "free") /\ Class(k) = "packet"
  /\ exists' = exists \ {call[k].obj}
  /\ call' = [call EXCEPT ![k] = Idle]
  /\ UNCHANGED <<usage, pool, itemVars, using, lockVars, historyVars,
                 used, applied, keyLives, asked, settled, careless>>

\* mn::DeleteKey, by a thread that is not using it in a call.
DeleteKey(k) ==
  /\ At(k, "idle") /\ keyLives
  /\ \A other \in Callers : call[other].at \in {"idle", "cleanup", "release", "clear", "leave", "free"}
  /\ keyLives' = FALSE
  /\ careless' = (exists \ settled # {})
  /\ UNCHANGED <<poolVars, exists, used, applied, asked, settled>>

EncryptionCalls ==
  \E k \in Callers :
    \/ \E p \in Packets :
         \/ \E op \in Operations, block \in BOOLEAN : BeginOperation(k, p, op, block)
         \/ PollFinished(k, p)
         \/ DestroyPacket(k, p)
    \/ DeleteKey(k)

EncryptionGoesOn ==
  \/ \E k \in Callers : PostItem(k) \/ EndLoop(k) \/ WaitUntilFinished(k) \/ FreePacket(k)
  \/ \E t \in Threads : EncryptChunks(t)

(***************************************************************************)
(* Properties.                                                             *)
(***************************************************************************)
\* Every chunk of a packet sees the operations in the order they were asked for, whoever
\* works on it, and all of them once the packet says that the last one has finished.  A
\* race of setup and cleanup can leave a packet without threads: Encrypt then succeeds
\* and does nothing (Packet.cpp:716).
ChunksFollow ==
  overlapped \/ fault \/
  \A p \in exists : \A c \in 0 .. (Padded(used[p]) \div Chunk) - 1 :
    /\ IsPrefix(applied[p][c], asked[p])
    /\ Unused(p) /\ Finished(p) => applied[p][c] = asked[p]
================================================================================
