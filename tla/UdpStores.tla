------------------------------- MODULE UdpStores -------------------------------
(***************************************************************************)
(* The stores behind a UDP socket.  NetModeUdpPerClient keeps the newest   *)
(* datagram of each client (and operation), NetModeUdpCatchAll queues all  *)
(* of them, and NetModeUdpCatchAllNo queues those that are not out of      *)
(* order.  A prefix tells the age of a datagram: the sender's clock, which *)
(* is signed, or a counter, which is not.  Either is a word of W values    *)
(* that wraps, and a receiver guesses from the difference whether it did.  *)
(*                                                                         *)
(* The network loses, duplicates and reorders datagrams.  One worker deals *)
(* with what arrives; meanwhile other threads poll the stores, flush them, *)
(* and disconnect clients, whose slot the next client takes.               *)
(***************************************************************************)
EXTENDS Integers, Sequences

CONSTANTS
  Modes,      \* the UDP modes a socket may be created with
  Slots,      \* client IDs (with their operations) that have a store
  Threads,    \* threads of a remote program that send
  W,          \* number of values of a word: of the counter and of the clock
  First,      \* value a sender's clock may have when its client connects, and a
              \* sender's counter: that of datagrams sent before which were all lost
  MaxSent,    \* bound: datagrams sent by one client
  MaxTick,    \* bound: how far the clock of a sender goes
  MaxStored,  \* bound: datagrams in a queue
  MaxReset    \* bound: flushes and disconnections

ASSUME StoresAssumption ==
  /\ Modes \subseteq {"perClient", "catchAll", "catchAllNo"}
  /\ W \in Nat \ {0} /\ W % 2 = 0 /\ First \subseteq Nat \ {0} /\ First # {}
  /\ {MaxSent, MaxTick, MaxStored, MaxReset} \subseteq Nat

VARIABLES
  mode,         \* the class of the socket's NetModeUdp object
  hasRecvFunc,  \* datagrams go to a function of the user, not to a store
  clock,        \* per slot: clock of its client's program
  sendCounter,  \* per slot: sendCounter of its client's program
  sending,      \* per slot and thread: counter read by GetSendObject, or None
  net,          \* datagrams sent: each may arrive late, twice or never
  store,        \* packetStore: the datagrams a slot holds
  counter,      \* recvCounter, or the age of the packet in packetStore
  worker,       \* the thread that deals with a datagram
  poll,         \* per slot: GetPacketFromStore between its two steps
  reset,        \* per slot: Reset between its two steps
  client,       \* per slot: which of its successive clients it has
  numSent,      \* history: datagrams sent by that client
  last,         \* history: the last datagram accepted from that client, or None
  adrift,       \* history: the counter may not be the age of the last datagram:
                \* the slot was reset under a worker that used it, or its
                \* client set its own counter back, or a wrap was taken for
                \* granted and its datagram then refused
  resets        \* counter for the bound MaxReset

remote  == <<clock, sendCounter, sending>>
store_  == <<store, counter>>
history == <<numSent, last, adrift>>
vars == <<mode, hasRecvFunc, remote, net, store_, worker, poll, reset, client,
          history, resets>>

None == [none |-> TRUE]
Free == [pc |-> "idle", threw |-> FALSE, d |-> None]

INITIAL_COUNTER_VALUE == 1

\* Where a clock or counter starts, if the mode uses it.
FirstIn(m) == IF mode = m THEN First ELSE {INITIAL_COUNTER_VALUE}

\* The value of the counter before anything was received: SetAge(0) and
\* INITIAL_COUNTER_VALUE.
Cleared == IF mode = "perClient" THEN 0 ELSE INITIAL_COUNTER_VALUE

\* A clock is read as a clock_t, so that the upper half of the words is negative;
\* a counter as a size_t.
Prefix(d) ==
  LET word == d.time % W
  IN  IF mode = "perClient" /\ word >= W \div 2 THEN word - W ELSE word

\* Division by two rounds towards zero.
HalfOf(age) == IF age >= 0 THEN age \div 2 ELSE -((-age) \div 2)

\* Mutated form of LooksWrapped: any older clock is taken for one after a wrap.
WrappedIfOlder(age, prefix) == prefix # age

\* The guess that it has wrapped: the difference is more than half of the age.
LooksWrapped(age, prefix) ==
  IF mode = "perClient" THEN age - prefix > HalfOf(age)
                        ELSE (age - prefix) % W > HalfOf(age)

\* The difference of two clocks is more than a clock_t holds.  Overflow of a signed
\* subtraction is undefined: where the difference wraps around it is negative, and
\* the datagram is refused; where the compiler rearranges the test, accepted.
Overflows(age, prefix) == mode = "perClient" /\ age - prefix >= W \div 2

\* The two modes differ in whether the same age again is old.
IsNew(age, prefix) == IF mode = "perClient" THEN prefix > age ELSE prefix >= age

-----------------------------------------------------------------------------
Init ==
  /\ mode \in Modes
  /\ hasRecvFunc \in BOOLEAN
  /\ clock \in [Slots -> FirstIn("perClient")]
  /\ sendCounter \in [Slots -> FirstIn("catchAllNo")]
  /\ sending = [s \in Slots |-> [t \in Threads |-> 0]]
  /\ net = {}
  /\ store = [s \in Slots |-> <<>>]
  /\ counter = [s \in Slots |-> Cleared]
  /\ worker = Free
  /\ poll = [s \in Slots |-> FALSE]
  /\ reset = [s \in Slots |-> FALSE]
  /\ client = [s \in Slots |-> 1]
  /\ numSent = [s \in Slots |-> 0]
  /\ last = [s \in Slots |-> None]
  /\ adrift = [s \in Slots |-> FALSE]
  /\ resets = 0

(***************************************************************************)
(* A client's program.  GetSendObject of NetModeUdpPerClient writes        *)
(* clock(); that of NetModeUdpCatchAllNo reads its counter and increases   *)
(* it later, so that two threads may send the same one.                    *)
(***************************************************************************)
Tick(s) ==
  /\ mode = "perClient" /\ clock[s] < MaxTick
  /\ clock' = [clock EXCEPT ![s] = @ + 1]
  /\ UNCHANGED <<mode, hasRecvFunc, sendCounter, sending, net, store_, worker,
                 poll, reset, client, history, resets>>

Transmit(s, time) ==
  /\ net' = net \union {[slot |-> s, client |-> client[s], time |-> time]}
  /\ numSent' = [numSent EXCEPT ![s] = @ + 1]

GetSendObject(s, t) ==
  /\ numSent[s] < MaxSent
  /\ \/ /\ mode # "catchAllNo"
        /\ Transmit(s, clock[s])
        /\ UNCHANGED <<sendCounter, sending>>
     \/ /\ mode = "catchAllNo" /\ sending[s][t] = 0
        /\ sending' = [sending EXCEPT ![s][t] = sendCounter[s]]
        /\ UNCHANGED <<net, numSent, sendCounter>>
     \/ /\ mode = "catchAllNo" /\ sending[s][t] > 0
        /\ Transmit(s, sending[s][t])
        /\ sendCounter' = [sendCounter EXCEPT ![s] = @ + 1]
        /\ sending' = [sending EXCEPT ![s][t] = 0]
  /\ UNCHANGED <<mode, hasRecvFunc, clock, store_, worker, poll, reset, client,
                 last, adrift, resets>>

\* The program flushes what it has received: Reset also sets the counter of
\* its own datagrams back.
FlushAtClient(s) ==
  /\ mode = "catchAllNo" /\ resets < MaxReset
  /\ sendCounter' = [sendCounter EXCEPT ![s] = INITIAL_COUNTER_VALUE]
  /\ adrift' = [adrift EXCEPT ![s] = TRUE]
  /\ resets' = resets + 1
  /\ UNCHANGED <<mode, hasRecvFunc, clock, sending, net, store_, worker, poll,
                 reset, client, numSent, last>>

(***************************************************************************)
(* The worker: DealWithData and PacketDone of the three modes.             *)
(***************************************************************************)

\* A datagram arrives.  The slot is found by the address
\* it came from, under a lock that is released before the data is dealt with.
Receive(d) ==
  /\ worker.pc = "idle"
  /\ client[d.slot] = d.client
  /\ Len(store[d.slot]) < MaxStored
  /\ worker' = [Free EXCEPT !.d = d,
                  !.pc = IF mode = "catchAll" THEN "done" ELSE "compare"]
  /\ UNCHANGED <<mode, hasRecvFunc, remote, net, store_, poll, reset, client,
                 history, resets>>

\* A prefix of 0 marks a connection packet, which is ignored here, even when
\* the counter of the sender has just wrapped to it.
IgnoreConnectionPacket ==
  /\ worker.pc = "compare" /\ Prefix(worker.d) = 0
  /\ worker' = Free
  /\ UNCHANGED <<mode, hasRecvFunc, remote, net, store_, poll, reset, client,
                 history, resets>>

\* The age test.
Compare ==
  LET s == worker.d.slot
      p == Prefix(worker.d)
  IN  /\ worker.pc = "compare" /\ p # 0
      /\ \/ /\ IsNew(counter[s], p)
            /\ worker' = [worker EXCEPT !.pc = IF mode = "perClient" THEN "done" ELSE "count"]
            /\ UNCHANGED adrift
         \/ /\ ~IsNew(counter[s], p)
            /\ worker' = [worker EXCEPT !.pc = "guess"]
            /\ UNCHANGED adrift
         \/ \* GetPacket refuses the memory for the copy.
            /\ mode = "catchAllNo" /\ IsNew(counter[s], p)
            /\ worker' = [Free EXCEPT !.threw = TRUE]
            /\ adrift' = [adrift EXCEPT ![s] = @ \/ counter[s] = Cleared]
      /\ UNCHANGED <<mode, hasRecvFunc, remote, net, store_, poll, reset, client,
                     numSent, last, resets>>

\* An old age: has it wrapped?  The counter is read again, and may have been
\* reset since.  The numbered mode then tries the datagram once more.
GuessWrap ==
  LET s == worker.d.slot
      p == Prefix(worker.d)
  IN  /\ worker.pc = "guess"
      /\ \/ /\ LooksWrapped(counter[s], p)
            /\ counter' = [counter EXCEPT ![s] = Cleared]
            /\ worker' = [worker EXCEPT !.pc =
                            IF mode = "perClient" THEN "done" ELSE "compare"]
         \/ /\ ~LooksWrapped(counter[s], p) \/ Overflows(counter[s], p)
            /\ worker' = Free
            /\ UNCHANGED counter
      /\ UNCHANGED <<mode, hasRecvFunc, remote, net, store, poll, reset, client,
                     history, resets>>

SetRecvCounter ==
  /\ worker.pc = "count"
  /\ counter' = [counter EXCEPT ![worker.d.slot] = Prefix(worker.d)]
  /\ worker' = [worker EXCEPT !.pc = "done"]
  /\ UNCHANGED <<mode, hasRecvFunc, remote, net, store, poll, reset, client,
                 history, resets>>

\* PacketDone.  Only storing the packet records its age in per client mode.
PacketDone ==
  LET s == worker.d.slot
      d == worker.d
  IN  /\ worker.pc = "done"
      /\ IF hasRecvFunc
         THEN UNCHANGED store_
         ELSE /\ store' = [store EXCEPT ![s] =
                             IF mode = "perClient" THEN <<d>> ELSE Append(@, d)]
              /\ counter' = IF mode = "perClient"
                            THEN [counter EXCEPT ![s] = Prefix(d)] ELSE counter
      /\ last' = [last EXCEPT ![s] = d]
      /\ worker' = Free
      /\ UNCHANGED <<mode, hasRecvFunc, remote, net, poll, reset, client, numSent,
                     adrift, resets>>

(***************************************************************************)
(* The user of the socket.                                                 *)
(***************************************************************************)

\* GetPacketFromStore sees that there is a packet; in per client mode it also
\* copies it.
BeginGet(s) ==
  /\ store[s] # <<>> /\ ~poll[s]
  /\ mode # "perClient" => \A r \in Slots : ~poll[r]
  /\ poll' = [poll EXCEPT ![s] = TRUE]
  /\ UNCHANGED <<mode, hasRecvFunc, remote, net, store_, worker, reset, client,
                 history, resets>>

\* In per client mode SetUsedSize(0) marks the store as empty, whatever it
\* holds by now.  The queues give what is in front by now, or throw.
EndGet(s) ==
  /\ poll[s]
  /\ poll' = [poll EXCEPT ![s] = FALSE]
  /\ \/ /\ mode = "perClient"
        /\ store' = [store EXCEPT ![s] = <<>>]
     \/ /\ mode # "perClient" /\ store[s] # <<>>
        /\ store' = [store EXCEPT ![s] = Tail(@)]
     \/ /\ mode # "perClient" /\ store[s] = <<>>
        /\ UNCHANGED store
  /\ UNCHANGED <<mode, hasRecvFunc, remote, net, counter, worker, reset, client,
                 history, resets>>

\* The worker has a datagram of the slot in hand.
Uses(s) == worker.pc # "idle" /\ worker.d.slot = s

\* Mutated form of Reset: the packet is emptied but keeps its age.
ResetKeepsAge(s) ==
  /\ store' = [store EXCEPT ![s] = <<>>]
  /\ counter' = counter
  /\ reset' = [reset EXCEPT ![s] = (mode = "catchAllNo")]
  /\ last' = [last EXCEPT ![s] = None]
  /\ resets' = resets + 1

\* Reset(clientID).  Per client mode clears the packet with its age; the
\* numbered mode empties its queue first and sets its counter back afterwards.
Reset(s) ==
  /\ store' = [store EXCEPT ![s] = <<>>]
  /\ counter' = IF mode = "perClient" THEN [counter EXCEPT ![s] = 0] ELSE counter
  /\ reset' = [reset EXCEPT ![s] = (mode = "catchAllNo")]
  /\ last' = [last EXCEPT ![s] = None]
  /\ resets' = resets + 1

\* FlushRecvUDP, by the user.
FlushRecvUDP(s) ==
  /\ resets < MaxReset /\ ~reset[s]
  /\ Reset(s)
  /\ adrift' = [adrift EXCEPT ![s] = Uses(s) \/ (mode = "catchAllNo" /\ @)]
  /\ UNCHANGED <<mode, hasRecvFunc, remote, net, worker, poll, client, numSent>>

\* DisconnectClient: the address is forgotten, the slot is reset, and the next
\* client takes it, with a program of its own and from another address: what is
\* on the way from the old one finds no client.
DisconnectClient(s) ==
  /\ resets < MaxReset /\ ~reset[s]
  /\ Reset(s)
  /\ client' = [client EXCEPT ![s] = @ + 1]
  /\ \E c \in FirstIn("perClient"), n \in FirstIn("catchAllNo") :
       /\ clock' = [clock EXCEPT ![s] = c]
       /\ sendCounter' = [sendCounter EXCEPT ![s] = n]
  /\ net' = {d \in net : d.slot # s}
  /\ sending' = [sending EXCEPT ![s] = [t \in Threads |-> 0]]
  /\ numSent' = [numSent EXCEPT ![s] = 0]
  /\ adrift' = [adrift EXCEPT ![s] = Uses(s)]
  /\ UNCHANGED <<mode, hasRecvFunc, worker, poll>>

EndReset(s) ==
  /\ reset[s]
  /\ counter' = [counter EXCEPT ![s] = INITIAL_COUNTER_VALUE]
  /\ adrift' = [adrift EXCEPT ![s] = @ \/ Uses(s) \/ last[s] # None]
  /\ reset' = [reset EXCEPT ![s] = FALSE]
  /\ UNCHANGED <<mode, hasRecvFunc, remote, net, store, worker, poll, client,
                 numSent, last, resets>>

-----------------------------------------------------------------------------
Next ==
  \/ \E s \in Slots :
       \/ Tick(s) \/ FlushAtClient(s)
       \/ \E t \in Threads : GetSendObject(s, t)
       \/ BeginGet(s) \/ EndGet(s)
       \/ FlushRecvUDP(s) \/ DisconnectClient(s) \/ EndReset(s)
  \/ \E d \in net : Receive(d)
  \/ IgnoreConnectionPacket
  \/ Compare
  \/ GuessWrap
  \/ SetRecvCounter
  \/ PacketDone

Spec == Init /\ [][Next]_vars

-----------------------------------------------------------------------------
(***************************************************************************)
(* Properties.                                                             *)
(***************************************************************************)
\* Modes that keep the age of the last datagram.  NetModeUdpCatchAll has none;
\* NetModeUdpPerClient keeps it with the packet it stores, so not for a user
\* function.
KeepsAge == mode # "catchAll" /\ ~(mode = "perClient" /\ hasRecvFunc)

Settled(s) == ~adrift[s] /\ ~reset[s]

\* The counter of a slot is the age of the last datagram that was accepted from
\* the client that has the slot now, and cleared if there was none, and the newest
\* datagram stored is that one: whatever is polled, flushed, disconnected and
\* refused meanwhile, no datagram is judged by the age of another client
\* (Reset, SetAge, recvCounter, PacketDone).
CounterIsOfLast ==
  \A s \in Slots : (KeepsAge /\ Settled(s) /\ ~Uses(s)) =>
    /\ counter[s] = IF last[s] = None THEN Cleared ELSE Prefix(last[s])
    /\ last[s] # None => last[s].client = client[s]
    /\ store[s] # <<>> => store[s][Len(store[s])] = last[s]

\* The age a datagram for the slot is compared with.
AgeOfLast(s) == IF KeepsAge /\ last[s] # None THEN Prefix(last[s]) ELSE Cleared

\* The worker refuses its datagram for the slot, for its age.
Refuses(s) == Uses(s) /\ worker.pc = "guess" /\ worker'.pc = "idle"

\* No datagram that is newer than the last one accepted is refused for its age,
\* across any number of wraps, unless half of the range lies between them, or a
\* clock passed its top and the difference is more than a clock_t holds.  And
\* datagrams are accepted in the order they were sent, except that one which is
\* older by more than half the current age (any, when the clock is negative) is
\* taken for one after a wrap (the comparisons in DealWithData).
AgeDecides ==
  /\ [][\A s \in Slots :
          (Refuses(s) /\ Settled(s)) =>
            \/ mode = "perClient" /\ AgeOfLast(s) - Prefix(worker.d) >= W \div 2
            \/ /\ KeepsAge /\ last[s] # None
               /\ \/ worker.d.time <= last[s].time
                  \/ worker.d.time - last[s].time > W \div 2]_vars
  /\ [][\A s \in Slots :
          (KeepsAge /\ Settled(s) /\ last'[s] # last[s] /\ last[s] # None /\ last'[s] # None) =>
            \/ last'[s].time >= last[s].time
            \/ last[s].time - last'[s].time > HalfOf(Prefix(last[s]))]_vars

=============================================================================
