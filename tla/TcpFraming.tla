------------------------------ MODULE TcpFraming ------------------------------
(***************************************************************************)
(* How a TCP socket turns the stream of bytes it receives into packets:    *)
(* NetModeTcp and its three modes NetModeTcpPrefixSize (a length precedes  *)
(* each packet), NetModeTcpPostfix (a terminator follows it) and           *)
(* NetModeTcpRaw (whatever one receive returned is a packet), with the     *)
(* memory they take from MemoryRecyclePacket and the limit that            *)
(* MemoryUsageRestricted puts on it.                                       *)
(*                                                                         *)
(* TCP may cut the stream anywhere, so a worker thread of the completion   *)
(* port appends what it received to partialPacket, hands out the complete  *)
(* packets and erases them.  Meanwhile other threads poll the packet       *)
(* store, clear it, resize the buffer, change the options and close the    *)
(* socket.                                                                 *)
(*                                                                         *)
(* A byte is modelled by what it is: a byte of the size prefix, of the     *)
(* data or of the postfix of a packet.                                     *)
(***************************************************************************)
EXTENDS Naturals, Sequences, FiniteSets

CONSTANTS
  Modes,            \* the modes the socket may be created with
  Lengths,          \* lengths of the packets that are sent
  MaxSent,          \* bound: packets sent on one connection
  PrefixSizeBytes,  \* Packet::prefixSizeBytes
  PostfixSize,      \* size of the postfix in bytes
  RecvBufferSize,   \* most bytes one receive returns
  PartialSize,      \* memory size of partialPacket at the start
  ResizeTo,         \* sizes a user asks ChangePartialPacketMemorySize for
  PacketSize,       \* memory size of a recycled packet
  NumberOfPackets,  \* packets the recycle bin holds
  MemoryLimits,     \* limits a user sets
  Garbage,          \* what a misread size prefix may say
  MaxChange         \* bound: options changed, stores cleared and sockets closed

ASSUME FramingAssumption ==
  /\ Modes \subseteq {"prefix", "postfix", "raw"}
  /\ Lengths \subseteq Nat /\ Garbage \subseteq Nat /\ Garbage # {}
  /\ ResizeTo \subseteq Nat \ {0} /\ MemoryLimits \subseteq Nat
  /\ {PrefixSizeBytes, PostfixSize, RecvBufferSize, PartialSize} \subseteq Nat \ {0}
  /\ {MaxSent, PacketSize, NumberOfPackets, MaxChange} \subseteq Nat

VARIABLES
  mode,         \* the class of the socket's NetModeTcp object
  hasRecvFunc,  \* packets go to a function of the user, not to the store
  autoResize,   \* NetModeTcp::autoResize
  memoryLimit,  \* MemoryUsageRestricted::memoryUsageLimit
  partial,      \* NetModeTcp::partialPacket
  packetStore,  \* NetModeTcp::packetStore
  bin,          \* packets in MemoryRecyclePacket::recycleBin
  memoryUsage,  \* MemoryUsageLog::memoryUsage of the recycle object
  worker,       \* the thread that deals with received data
  resize,       \* size a user thread asked for and has had checked, or 0
  clearing,     \* Close cleared the store and is about to clear the buffer
  wire,         \* bytes sent and not yet received
  sent,         \* history: lengths of the packets sent on this connection
  parsed,       \* history: packets found in the stream so far
  got,          \* history: packets the user was given, in order
  lost,         \* history: packets dropped with an exception
  cleared,      \* history: packets dropped by ClearPacketStore
  broken,       \* history: received bytes were dropped, or belong to an
                \* earlier connection
  changes       \* counter for the bound MaxChange

options == <<mode, hasRecvFunc, autoResize, memoryLimit>>
stream  == <<wire, sent>>
history == <<parsed, got, lost, cleared, broken>>
framingVars == <<options, partial, packetStore, bin, memoryUsage, worker, resize,
          clearing, stream, history, changes>>

Larger(a, b) == IF a >= b THEN a ELSE b

\* The bytes that NetSendPrefix, NetSendPostfix and NetSendRaw put on the wire
\* for the i-th packet, whose length is len.
Encoded(i, len) ==
  LET Run(w, n) == [k \in 1..n |-> [what |-> w, pkt |-> i, k |-> k, len |-> len]]
  IN  CASE mode = "prefix"  -> Run("size", PrefixSizeBytes) \o Run("data", len)
        [] mode = "postfix" -> Run("data", len) \o Run("post", PostfixSize)
        [] mode = "raw"     -> Run("data", len)

Payload(i) == [k \in 1..sent[i] |->
                 [what |-> "data", pkt |-> i, k |-> k, len |-> sent[i]]]

\* A worker that deals with nothing.  Between a check of the limit and what it
\* was for, a worker keeps the bytes, the memory and the limit it was checked with.
Idle == [pc |-> "idle", threw |-> FALSE, data |-> <<>>, mem |-> 0, limit |-> 0]

(***************************************************************************)
(* partialPacket: bytes, cursor and memory size.                           *)
(***************************************************************************)
Used      == Len(partial.bytes)
Remainder == Used - partial.cursor
Unread    == SubSeq(partial.bytes, partial.cursor + 1, Used)

\* The values Packet::GetPrefixSizeT may return at the cursor: the length that
\* was sent, unless the cursor does not stand on a size prefix.
PrefixAt ==
  LET head == Unread[1]
  IN  IF \A k \in 1..PrefixSizeBytes :
           Unread[k] = [what |-> "size", pkt |-> head.pkt, k |-> k, len |-> head.len]
      THEN {head.len}
      ELSE Garbage

\* Positions at which Packet::Find sees the postfix in the unread bytes.
PostfixAt ==
  {p \in 0..(Remainder - PostfixSize) :
     \A k \in 1..PostfixSize : Unread[p + k].what = "post" /\ Unread[p + k].k = k}

(***************************************************************************)
(* Memory: MemoryRecyclePacket and the limit of the NetModeTcp object.     *)
(***************************************************************************)
MemorySize == memoryUsage + partial.mem

\* Memory that GetPacket takes for a packet of n bytes.
PacketMemory(n) == IF n <= PacketSize THEN PacketSize ELSE n

FromBin(n) == n <= PacketSize /\ bin > 0

\* EnforceMemoryLimitIncrease refuses fresh memory beyond the limit.
Refused(n) == ~FromBin(n) /\ MemorySize + PacketMemory(n) > memoryLimit

\* The lock of recycleBin, which GetPacket holds from its check of the limit to
\* the increase of memoryUsage, and RecyclePacket needs.
BinFree == worker.pc # "take"

\* Mutated form of Recycle: the memory of freed packets is not given back.
RecycleUncounted(mems) ==
  /\ bin' = IF bin < NumberOfPackets /\ Len(mems) > 0 THEN bin + 1 ELSE bin
  /\ UNCHANGED memoryUsage

\* The sums of the first 0, 1, ... numbers of a sequence, and of all of them.
PartSums(numbers) ==
  LET upTo[k \in 0..Len(numbers)] == IF k = 0 THEN 0 ELSE upTo[k - 1] + numbers[k]
  IN  upTo

SumOf(numbers) == PartSums(numbers)[Len(numbers)]

\* RecyclePacket of a whole set of packets, given by their memory sizes in the
\* order they are recycled: those that fit into the bin stay, the rest is freed.
Recycle(mems) ==
  LET fits(k) == /\ mems[k] = PacketSize
                 /\ bin + Cardinality({j \in 1..k : mems[j] = PacketSize}) <= NumberOfPackets
      kept == {k \in DOMAIN mems : fits(k)}
  IN  /\ bin' = bin + Cardinality(kept)
      /\ memoryUsage' = memoryUsage - SumOf([k \in DOMAIN mems |-> IF k \in kept THEN 0 ELSE mems[k]])

Mems(store) == [k \in DOMAIN store |-> store[k].mem]
Ordinals(packets) == {packets[k].n : k \in DOMAIN packets}

-----------------------------------------------------------------------------
FramingInit ==
  /\ mode \in Modes
  /\ hasRecvFunc \in BOOLEAN
  /\ autoResize \in BOOLEAN
  /\ partial = [bytes |-> <<>>, cursor |-> 0,
                mem |-> IF mode = "raw" THEN 0 ELSE PartialSize]
  /\ packetStore = <<>>
  /\ bin = NumberOfPackets
  /\ memoryUsage = NumberOfPackets * PacketSize
  /\ memoryLimit \in {l \in MemoryLimits : l >= memoryUsage + partial.mem}
  /\ worker = Idle
  /\ resize = 0
  /\ clearing = FALSE
  /\ wire = <<>> /\ sent = <<>>
  /\ parsed = 0 /\ got = <<>> /\ lost = {} /\ cleared = {} /\ broken = FALSE
  /\ changes = 0

\* The other end sends a packet: GetSendObject adds the prefix or the postfix.
Send(len) ==
  /\ Len(sent) < MaxSent
  /\ mode = "raw" => len > 0
  /\ sent' = Append(sent, len)
  /\ wire' = wire \o Encoded(Len(sent) + 1, len)
  /\ UNCHANGED <<options, partial, packetStore, bin, memoryUsage, worker,
                 resize, clearing, history, changes>>

(***************************************************************************)
(* DealWithData of the prefix and the postfix mode.  The lock of           *)
(* partialPacket is held from the first step to the last.                  *)
(***************************************************************************)

\* autoResize and the limit of ChangePartialPacketMemorySize allow a partialPacket
\* of size bytes.
MayGrow(size) == autoResize /\ memoryUsage + size <= memoryLimit

\* The worker is allowed to grow partialPacket to size bytes, for these bytes.
GrowFor(data, size) ==
  worker' = [Idle EXCEPT !.pc = "grow", !.data = data, !.mem = size, !.limit = memoryLimit]

\* A receive completed with n bytes.  If they do not fit an exception is thrown
\* before they are appended: the bytes are gone.
AppendData(n) ==
  LET data == SubSeq(wire, 1, n)
      size == Used + n
  IN  /\ mode # "raw"
      /\ \/ /\ size <= partial.mem
            /\ partial' = [partial EXCEPT !.bytes = @ \o data]
            /\ worker' = [Idle EXCEPT !.pc = "scan"]
            /\ UNCHANGED broken
         \/ /\ size > partial.mem /\ MayGrow(size)
            /\ GrowFor(data, size)
            /\ UNCHANGED <<partial, broken>>
         \/ /\ size > partial.mem /\ ~MayGrow(size)
            /\ worker' = [Idle EXCEPT !.threw = TRUE]
            /\ broken' = TRUE
            /\ UNCHANGED partial
      /\ UNCHANGED <<bin, memoryUsage, parsed, lost>>

\* ChangeMemorySize, after the limit was checked: other threads may have recycled
\* packets and set another limit since.  The worker then looks for a packet,
\* after a growth for a size prefix with the size it has read before.
Grow ==
  /\ worker.pc = "grow"
  /\ partial' = [partial EXCEPT !.bytes = @ \o worker.data, !.mem = worker.mem]
  /\ worker' = [Idle EXCEPT !.pc = "scan"]
  /\ UNCHANGED <<options, packetStore, bin, memoryUsage, resize, clearing, stream,
                 history, changes>>

\* A packet of these bytes was found.  The cursor has moved past it already
\* when GetPacket refuses the memory for it.  Memory out of the bin is not checked.
Found(data) ==
  LET taken == [Idle EXCEPT !.data = data, !.mem = PacketMemory(Len(data)), !.limit = memoryLimit]
  IN  /\ parsed' = parsed + 1
      /\ UNCHANGED memoryUsage
      /\ \/ /\ Refused(Len(data))
            /\ worker' = [Idle EXCEPT !.threw = TRUE]
            /\ lost' = lost \union {parsed + 1}
            /\ UNCHANGED bin
         \/ /\ FromBin(Len(data))
            /\ worker' = [taken EXCEPT !.pc = "found"]
            /\ bin' = bin - 1
            /\ UNCHANGED lost
         \/ /\ ~Refused(Len(data)) /\ ~FromBin(Len(data))
            /\ worker' = [taken EXCEPT !.pc = "take"]
            /\ UNCHANGED <<bin, lost>>

\* The rest of GetPacket for fresh memory: the limit may be another one by now.
TakeMemory ==
  /\ worker.pc = "take"
  /\ memoryUsage' = memoryUsage + worker.mem
  /\ worker' = [worker EXCEPT !.pc = "found"]
  /\ UNCHANGED <<options, partial, packetStore, bin, resize, clearing, stream,
                 history, changes>>

\* Mutated form of EraseDone: the cursor stays where it was.
EraseDoneCursorKept ==
  /\ partial' = [partial EXCEPT !.bytes = Unread]
  /\ worker' = Idle
  /\ UNCHANGED <<bin, memoryUsage, parsed, lost>>

\* No complete packet is left: erase what was dealt with and release the lock.
EraseDone ==
  /\ partial' = [partial EXCEPT !.bytes = Unread, !.cursor = 0]
  /\ worker' = Idle
  /\ UNCHANGED <<bin, memoryUsage, parsed, lost>>

\* ReCheck of NetModeTcpPrefixSize::DealWithData.
ScanPrefix ==
  /\ mode = "prefix"
  /\ \/ /\ Remainder < PrefixSizeBytes
        /\ EraseDone
     \/ /\ Remainder >= PrefixSizeBytes
        /\ \E size \in PrefixAt :
             LET whole == size + PrefixSizeBytes
             IN  \/ /\ whole > partial.mem /\ MayGrow(whole)
                    /\ GrowFor(<<>>, whole)
                    /\ UNCHANGED <<partial, bin, memoryUsage, parsed, lost>>
                 \/ /\ whole > partial.mem /\ ~MayGrow(whole)
                    /\ worker' = [Idle EXCEPT !.threw = TRUE]
                    /\ UNCHANGED <<partial, bin, memoryUsage, parsed, lost>>
                 \/ /\ whole <= partial.mem /\ whole > Remainder
                    /\ EraseDone
                 \/ /\ whole <= partial.mem /\ whole <= Remainder
                    /\ partial' = [partial EXCEPT !.cursor = @ + whole]
                    /\ Found(SubSeq(Unread, PrefixSizeBytes + 1, whole))

\* ReCheck of NetModeTcpPostfix::DealWithData.
ScanPostfix ==
  /\ mode = "postfix"
  /\ \/ /\ PostfixAt = {}
        /\ EraseDone
     \/ \E p \in PostfixAt :
          /\ \A q \in PostfixAt : p <= q
          /\ partial' = [partial EXCEPT !.cursor = @ + p + PostfixSize]
          /\ Found(SubSeq(Unread, 1, p))

Scan ==
  /\ worker.pc = "scan"
  /\ ScanPrefix \/ ScanPostfix
  /\ UNCHANGED <<options, packetStore, resize, clearing, stream, got, cleared,
                 broken, changes>>

\* NetModeTcpRaw::DealWithData: the received bytes are the packet.
RawData(n) ==
  /\ mode = "raw"
  /\ Found(SubSeq(wire, 1, n))
  /\ broken' = (broken \/ Refused(n))
  /\ UNCHANGED partial

\* The completion port gives a worker n received bytes.
Receive(n) ==
  /\ worker.pc = "idle" /\ ~clearing
  /\ wire' = SubSeq(wire, n + 1, Len(wire))
  /\ AppendData(n) \/ RawData(n)
  /\ UNCHANGED <<options, packetStore, resize, clearing, sent, got, cleared, changes>>

\* Mutated form of AfterPacket: one packet is taken per receive.
AfterPacketOnce == Idle

\* After a packet the prefix and postfix modes look for the next one.
AfterPacket == [Idle EXCEPT !.pc = IF mode = "raw" THEN "idle" ELSE "scan"]

\* PacketDone: the packet goes to the store, or to the function of the user
\* and then back to the recycle bin.
PacketDone ==
  /\ worker.pc = "found"
  /\ worker' = AfterPacket
  /\ LET packet == [n |-> parsed, data |-> worker.data]
     IN  IF hasRecvFunc
         THEN /\ got' = Append(got, packet)
              /\ Recycle(<<worker.mem>>)
              /\ UNCHANGED packetStore
         ELSE /\ packetStore' = Append(packetStore,
                   [n |-> parsed, data |-> worker.data, mem |-> worker.mem])
              /\ UNCHANGED <<got, bin, memoryUsage>>
  /\ UNCHANGED <<options, partial, resize, clearing, stream, parsed, lost,
                 cleared, broken, changes>>

(***************************************************************************)
(* The other threads.                                                      *)
(***************************************************************************)
GetPacketFromStore ==
  /\ packetStore # <<>> /\ BinFree
  /\ got' = Append(got, [n |-> Head(packetStore).n, data |-> Head(packetStore).data])
  /\ packetStore' = Tail(packetStore)
  /\ Recycle(<<Head(packetStore).mem>>)
  /\ UNCHANGED <<options, partial, worker, resize, clearing, stream, parsed,
                 lost, cleared, broken, changes>>

\* The packets of the store are recycled one by one under its lock.
EmptyStore ==
  /\ BinFree
  /\ packetStore' = <<>>
  /\ Recycle(Mems(packetStore))

ClearPacketStore ==
  /\ changes < MaxChange /\ packetStore # <<>>
  /\ EmptyStore
  /\ cleared' = cleared \union Ordinals(packetStore)
  /\ changes' = changes + 1
  /\ UNCHANGED <<options, partial, worker, resize, clearing, stream, parsed,
                 got, lost, broken>>

\* ChangePartialPacketMemorySize checks the limit before it has the lock of
\* partialPacket; a size below what is used shrinks no further than that.
CheckResize(size) ==
  /\ changes < MaxChange /\ resize = 0 /\ mode # "raw"
  /\ memoryUsage + size <= memoryLimit
  /\ resize' = size
  /\ changes' = changes + 1
  /\ UNCHANGED <<options, partial, packetStore, bin, memoryUsage, worker,
                 clearing, stream, history>>

ApplyResize ==
  /\ resize > 0 /\ worker.pc = "idle"
  /\ partial' = [partial EXCEPT !.mem = Larger(resize, Used)]
  /\ resize' = 0
  /\ UNCHANGED <<options, packetStore, bin, memoryUsage, worker, clearing,
                 stream, history, changes>>

SetAutoResize ==
  /\ changes < MaxChange
  /\ autoResize' = ~autoResize
  /\ changes' = changes + 1
  /\ UNCHANGED <<mode, hasRecvFunc, memoryLimit, partial, packetStore, bin,
                 memoryUsage, worker, resize, clearing, stream, history>>

\* SetMemoryLimit keeps the new limit even if it throws because more memory is
\* in use already.
SetMemoryLimit(limit) ==
  /\ changes < MaxChange /\ limit # memoryLimit
  /\ memoryLimit' = limit
  /\ changes' = changes + 1
  /\ UNCHANGED <<mode, hasRecvFunc, autoResize, partial, packetStore, bin,
                 memoryUsage, worker, resize, clearing, stream, history>>

(***************************************************************************)
(* NetSocketTCP::Close ends with ClearData, which clears the store and then*)
(* the buffer, and the socket is connected again.  NetSocket::Close does   *)
(* not always wait for a worker that still deals with data.                *)
(***************************************************************************)
Close ==
  /\ changes < MaxChange /\ ~clearing
  /\ EmptyStore
  /\ clearing' = TRUE
  /\ changes' = changes + 1
  /\ wire' = <<>> /\ sent' = <<>>
  /\ parsed' = 0 /\ got' = <<>> /\ lost' = {} /\ cleared' = {}
  /\ broken' = (worker.pc # "idle")
  /\ UNCHANGED <<options, partial, worker, resize>>

\* Clear needs the lock of partialPacket.
ClearPartial ==
  /\ clearing /\ (mode = "raw" \/ worker.pc = "idle")
  /\ partial' = [partial EXCEPT !.bytes = <<>>, !.cursor = 0]
  /\ clearing' = FALSE
  /\ UNCHANGED <<options, packetStore, bin, memoryUsage, worker, resize,
                 stream, history, changes>>

-----------------------------------------------------------------------------
Deal == Grow \/ Scan \/ TakeMemory \/ PacketDone
Arrive == \E n \in 1..RecvBufferSize : n <= Len(wire) /\ Receive(n)

FramingNext ==
  \/ \E len \in Lengths : Send(len)
  \/ Arrive
  \/ Deal
  \/ GetPacketFromStore
  \/ ClearPacketStore
  \/ \E size \in ResizeTo : CheckResize(size)
  \/ ApplyResize
  \/ SetAutoResize
  \/ \E limit \in MemoryLimits : SetMemoryLimit(limit)
  \/ Close
  \/ ClearPartial

\* The network delivers, a worker goes on with its data, and a close and a
\* resize get the lock they wait for.
FramingFairness == WF_framingVars(Arrive) /\ WF_framingVars(Deal) /\ WF_framingVars(ClearPartial \/ ApplyResize)

FramingSpec == FramingInit /\ [][FramingNext]_framingVars /\ FramingFairness

-----------------------------------------------------------------------------
(***************************************************************************)
(* Properties.                                                             *)
(***************************************************************************)
\* The packet a worker has taken out of the stream and not yet passed on.
InHand == IF worker.pc \in {"take", "found"} THEN <<[n |-> parsed, data |-> worker.data]>> ELSE <<>>

Stored == [k \in DOMAIN packetStore |-> [n |-> packetStore[k].n, data |-> packetStore[k].data]]

\* Bytes received and not yet in partialPacket, and the bytes still on the way.
Incoming == (IF worker.pc = "grow" THEN worker.data ELSE <<>>) \o wire

\* Everything that was taken out of the stream and not dropped, in the order in
\* which the user gets it.
Delivery == got \o Stored \o InHand

\* The concatenation of the sequences from the j-th to the last, for each j.
Rest(seqs) ==
  LET from[j \in 1..(Len(seqs) + 1)] ==
        IF j > Len(seqs) THEN <<>> ELSE seqs[j] \o from[j + 1]
  IN  from

Encodings == [i \in DOMAIN sent |-> Encoded(i, sent[i])]

\* The bytes of the packets from the i-th to the last.
Stream(i) == Rest(Encodings)[i]

Joined(packets) == Rest([k \in DOMAIN packets |-> packets[k].data])[1]

\* However the stream is cut, the unread bytes of partialPacket and the bytes
\* still on the way begin with the packet after the last one found: no receive,
\* no exception of the memory limit, no resize of the buffer moves the point
\* where the next size prefix is read or the next postfix is looked for
\* (the cursor and Erase in DealWithData).  So what the user is given are the
\* packets that were sent, whole, unaltered and in the order they were sent; in
\* raw mode, the bytes that were sent.
FramingKept ==
  ~broken =>
    /\ (mode # "raw" /\ ~clearing) => Unread \o Incoming = Stream(parsed + 1)
    /\ mode # "raw" => \A k \in DOMAIN Delivery : Delivery[k].data = Payload(Delivery[k].n)
    /\ (mode = "raw" /\ cleared = {} /\ lost = {}) =>
          Joined(Delivery) \o wire = Stream(1)
    /\ \A k, l \in DOMAIN Delivery : k < l => Delivery[k].n < Delivery[l].n

\* The memory the limit is compared with is the memory in use: the packets in
\* the bin, in the store and in the hands of a worker (GetPacket, RecyclePacket).
\* Whatever is polled, recycled and reconfigured between a worker's check of the
\* limit and its increase, the memory does not grow beyond the limit it was checked
\* with.  Only ChangePartialPacketMemorySize called by a user may, whose check and
\* whose change can have a worker between them.  (The limit of that moment may be
\* exceeded: SetMemoryLimit needs none of the locks held in between, and
\* IncreaseMemorySize compares nothing, though MemoryUsageRestricted.h says it would.)
MemoryInUse == bin * PacketSize + SumOf(Mems(packetStore))
                 + (IF worker.pc = "found" THEN worker.mem ELSE 0)

MemoryAccounted ==
  /\ [](memoryUsage = MemoryInUse)
  /\ [][MemorySize' > MemorySize => MemorySize' <= worker.limit \/ resize' # resize]_framingVars

\* Every packet that was sent is found in the stream, unless an exception or a
\* close intervenes.
EveryPacketFound ==
  (mode # "raw" /\ parsed < Len(sent)) ~> (parsed = Len(sent) \/ worker.threw \/ broken)
=============================================================================
