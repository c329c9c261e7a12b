--------------------------- MODULE UdpStoresProofs ----------------------------
(***************************************************************************)
(* The counter of a UDP store is the age of the last datagram accepted,    *)
(* and the age decides as it should, for any slots, threads and numbers of *)
(* datagrams, and any number W of values of a word.                        *)
(*                                                                         *)
(* The counter is not that age while the worker deals with a datagram: it  *)
(* is cleared for a guess, and set before the datagram is stored.  The     *)
(* invariant says what it is at each place of the worker (AgeAt), and that *)
(* the slot is marked as adrift when that cannot be said.  What a guess    *)
(* means is arithmetic: datagrams are as far apart as their ages tell, or  *)
(* by a round of W more, whether ages are signed or not (AgesApart).       *)
(***************************************************************************)
EXTENDS UdpStores, TLAPS

-----------------------------------------------------------------------------
(***************************************************************************)
(* The inductive invariant.                                                *)
(***************************************************************************)
\* A datagram as it is sent: its age is the part of its time that fits the wire.
Datagrams == [slot : Slots, client : Nat, time : Nat]

Places == {"idle", "compare", "guess", "count", "done"}

WorkerStates == [pc : Places, threw : BOOLEAN, d : Datagrams \cup {None}]

TypeOK ==
  /\ mode \in {"perClient", "catchAll", "catchAllNo"} /\ hasRecvFunc \in BOOLEAN
  /\ clock \in [Slots -> Nat] /\ sendCounter \in [Slots -> Nat]
  /\ sending \in [Slots -> [Threads -> Nat]]
  /\ net \subseteq Datagrams
  /\ store \in [Slots -> Seq(Datagrams)] /\ counter \in [Slots -> Int]
  /\ worker \in WorkerStates
  /\ worker.pc # "idle" => worker.d \in Datagrams
  /\ poll \in [Slots -> BOOLEAN] /\ reset \in [Slots -> BOOLEAN]
  /\ client \in [Slots -> Nat] /\ numSent \in [Slots -> Nat]
  /\ last \in [Slots -> Datagrams \cup {None}] /\ adrift \in [Slots -> BOOLEAN]
  /\ resets \in Nat

\* The newest datagram in a store is the last one accepted; with a function of
\* the user nothing is stored.
NewestStored ==
  \A s \in Slots :
    /\ hasRecvFunc => store[s] = <<>>
    /\ store[s] # <<>> => last[s] = store[s][Len(store[s])]

\* Unless the slot was reset under the worker, it and the store know datagrams of
\* the present client only.
OfThisClient ==
  \A s \in Slots : ~adrift[s] =>
    /\ last[s] # None => last[s].client = client[s]
    /\ Uses(s) => worker.d.client = client[s]

\* Only the numbered mode resets in two steps.
ResetInSteps == \A s \in Slots : reset[s] => mode = "catchAllNo"

\* Which mode takes a datagram where.  What is guessed about or counted is no
\* connection packet.
PlacesOfModes ==
  /\ worker.pc \in {"compare", "guess", "count"} => mode # "catchAll"
  /\ worker.pc = "count" => mode = "catchAllNo"
  /\ worker.pc \in {"guess", "count"} => Prefix(worker.d) # 0

\* Nobody records an age in per client mode with a function of the user.
NoAge ==
  (mode = "perClient" /\ hasRecvFunc) =>
    /\ \A s \in Slots : counter[s] = 0
    /\ worker.pc = "guess" => Prefix(worker.d) < 0

\* The counter that CounterIsOfLast speaks of.
Expected(s) == IF last[s] = None THEN Cleared ELSE Prefix(last[s])

\* Datagram d may be accepted after e.
Follows(d, e) ==
  e # None => d.time >= e.time \/ e.time - d.time > HalfOf(Prefix(e))

\* The counter at each place of the worker.  After a guess the numbered mode compares
\* again with the counter cleared, and accepts.
AgeAt(s) ==
  /\ ~Uses(s) => counter[s] = Expected(s)
  /\ (Uses(s) /\ worker.pc = "compare") =>
       \/ counter[s] = Expected(s)
       \/ /\ mode = "catchAllNo" /\ counter[s] = Cleared
          /\ Prefix(worker.d) # 0 /\ Follows(worker.d, last[s])
  /\ (Uses(s) /\ worker.pc = "guess") =>
       counter[s] = Expected(s) /\ ~IsNew(counter[s], Prefix(worker.d))
  /\ (Uses(s) /\ worker.pc \in {"count", "done"}) => Follows(worker.d, last[s])
  /\ (Uses(s) /\ worker.pc = "done" /\ mode = "catchAllNo") =>
       counter[s] = Prefix(worker.d)

AgeKept == \A s \in Slots : (KeepsAge /\ Settled(s)) => AgeAt(s)

IInv ==
  /\ TypeOK
  /\ NewestStored /\ OfThisClient /\ ResetInSteps
  /\ PlacesOfModes /\ NoAge /\ AgeKept

-----------------------------------------------------------------------------
(***************************************************************************)
(* Words: remainders modulo any W.                                         *)
(***************************************************************************)
Round(t) == t \div W
Rem(t) == t % W

\* Division with remainder.
LEMMA Division ==
  ASSUME NEW t \in Nat, NEW q \in Nat, q = Round(t), NEW r \in Nat, r = Rem(t)
  PROVE  t = W * q + r
  BY StoresAssumption, SMT DEF Round, Rem

LEMMA RoundAndRem ==
  ASSUME NEW t \in Nat
  PROVE  /\ Round(t) \in Nat
         /\ Rem(t) \in Nat /\ Rem(t) < W
         /\ t = W * Round(t) + Rem(t)
<1>1. Round(t) \in Nat /\ Rem(t) \in Nat /\ Rem(t) < W
  BY StoresAssumption DEF Round, Rem
<1>2. t = W * Round(t) + Rem(t)
  BY <1>1, Division
<1> QED
  BY <1>1, <1>2

\* Rounds apart are at least W apart.
LEMMA RoundsApart ==
  ASSUME NEW a \in Nat, NEW b \in Nat, a < b
  PROVE  W * a + W <= W * b /\ W * a \in Nat /\ W * b \in Nat
<1>1. W \in Nat
  BY StoresAssumption
<1>2. PICK c \in Nat : b = a + 1 + c
  <2>1. b - a - 1 \in Nat
    OBVIOUS
  <2> QED
    BY <2>1
<1>3. W * b = W * a + W + W * c
  BY <1>1, <1>2
<1>4. W * c \in Nat /\ W * a \in Nat
  BY <1>1, <1>2
<1> QED
  BY <1>1, <1>2, <1>3, <1>4

\* The age of a datagram is the time it was sent, less a number of rounds, and lies in
\* a range of W values.
LEMMA AgeOfTime ==
  ASSUME NEW d \in Datagrams
  PROVE  /\ Prefix(d) \in Int /\ Prefix(d) < W
         /\ mode = "perClient" => -(W \div 2) <= Prefix(d) /\ Prefix(d) < W \div 2
         /\ mode # "perClient" => Prefix(d) \in Nat
         /\ \E n \in Nat : d.time = W * n + Prefix(d)
<1>1. d.time \in Nat /\ W \in Nat
  BY StoresAssumption DEF Datagrams
<1>2. PICK q \in Nat : q = Round(d.time)
  BY <1>1, RoundAndRem
<1>3. PICK r \in Nat : r = Rem(d.time) /\ r < W /\ d.time = W * q + r
  BY <1>1, <1>2, RoundAndRem
<1>4. PICK k \in Nat : k = W \div 2 /\ W = 2 * k
  BY StoresAssumption
<1>5. PICK w \in Nat : w = W
  BY <1>1
<1>6. PICK p \in Int : p = Prefix(d) /\ p = IF mode = "perClient" /\ r >= k THEN r - w ELSE r
  BY <1>3, <1>4, <1>5 DEF Prefix, Rem
<1>7. \E n \in Nat : d.time = W * n + p
  <2>1. CASE p = r
    BY <1>3, <2>1
  <2>2. CASE p = r - w
    <3>1. PICK x \in Nat : x = W * q
      BY <1>1, <1>2
    <3>2. d.time = x + r
      BY <1>3, <3>1
    <3>3. W * (q + 1) = x + w
      BY <1>1, <1>2, <1>5, <3>1
    <3>4. x + r = (x + w) + p
      BY <2>2
    <3>5. q + 1 \in Nat /\ d.time = W * (q + 1) + p
      BY <1>2, <3>2, <3>3, <3>4
    <3> QED
      BY <3>5
  <2> QED
    BY <1>6, <2>1, <2>2
<1>8. /\ p < w
      /\ mode = "perClient" => -k <= p /\ p < k
      /\ mode # "perClient" => p \in Nat
  <2>1. r < w /\ w = 2 * k
    BY <1>3, <1>4, <1>5
  <2>2. CASE mode = "perClient" /\ r >= k
    BY <1>6, <2>1, <2>2
  <2>3. CASE ~(mode = "perClient" /\ r >= k)
    <3>1. p = r /\ (mode = "perClient" => r < k)
      BY <1>6, <2>3
    <3> QED
      BY <2>1, <3>1
  <2> QED
    BY <2>2, <2>3
<1> QED
  BY <1>4, <1>5, <1>6, <1>7, <1>8

\* A datagram is no empty entry of the history, and its age is a number.
LEMMA DatagramFacts ==
  ASSUME NEW d \in Datagrams
  PROVE  /\ d # None
         /\ d.time \in Nat /\ d.slot \in Slots /\ d.client \in Nat
         /\ Prefix(d) \in Int /\ Prefix(d) < W
<1>1. d # None
  <2>1. DOMAIN d = {"slot", "client", "time"} /\ DOMAIN None = {"none"}
    BY DEF Datagrams, None
  <2>2. "slot" \in DOMAIN d /\ "slot" \notin DOMAIN None
    BY <2>1
  <2> QED
    BY <2>2
<1>2. d.time \in Nat /\ d.slot \in Slots /\ d.client \in Nat
  BY DEF Datagrams
<1> QED
  BY <1>1, <1>2, AgeOfTime

\* Two datagrams are as far apart as their ages tell, or by a round more at least.
LEMMA AgesApart ==
  ASSUME NEW d \in Datagrams, NEW e \in Datagrams, d.time < e.time
  PROVE  \/ e.time - d.time = Prefix(e) - Prefix(d)
         \/ e.time - d.time >= W + Prefix(e) - Prefix(d)
<1>1. PICK t \in Nat, u \in Nat : t = d.time /\ u = e.time /\ t < u
  BY DatagramFacts
<1>2. PICK p \in Int, q \in Int : p = Prefix(d) /\ q = Prefix(e)
  BY DatagramFacts
<1>3. W \in Nat
  BY StoresAssumption
<1>4. q - p < W
  <2>1. PICK k \in Nat : k = W \div 2 /\ W = 2 * k
    BY StoresAssumption
  <2>2. CASE mode = "perClient"
    <3>1. -k <= p /\ q < k
      BY <1>2, <2>1, <2>2, AgeOfTime
    <3> QED
      BY <1>2, <2>1, <3>1
  <2>3. CASE mode # "perClient"
    <3>1. p \in Nat /\ q < W
      BY <1>2, <2>3, AgeOfTime
    <3> QED
      BY <1>2, <1>3, <3>1
  <2> QED
    BY <2>2, <2>3
<1>5. PICK m \in Nat : t = W * m + p
  BY <1>1, <1>2, AgeOfTime
<1>6. PICK n \in Nat : u = W * n + q
  BY <1>1, <1>2, AgeOfTime
<1> SUFFICES \/ u - t = q - p
             \/ u - t >= W + q - p
  BY <1>1, <1>2
<1>7. CASE m = n
  <2>1. W * m \in Nat
    BY <1>3, <1>5
  <2> QED
    BY <1>1, <1>2, <1>5, <1>6, <1>7, <2>1
<1>8. CASE m < n
  <2>1. W * m + W <= W * n /\ W * m \in Nat /\ W * n \in Nat
    BY <1>5, <1>6, <1>8, RoundsApart
  <2> QED
    BY <1>1, <1>2, <1>3, <1>5, <1>6, <2>1
<1>9. CASE n < m
  <2>1. W * n + W <= W * m /\ W * m \in Nat /\ W * n \in Nat
    BY <1>5, <1>6, <1>9, RoundsApart
  <2> QED
    BY <1>1, <1>2, <1>3, <1>4, <1>5, <1>6, <2>1
<1>10. m = n \/ m < n \/ n < m
  BY <1>5, <1>6
<1> QED
  BY <1>7, <1>8, <1>9, <1>10

\* Half of an age is closer to zero.
LEMMA HalfFacts ==
  ASSUME NEW a \in Int
  PROVE  /\ HalfOf(a) \in Int
         /\ a >= 0 => HalfOf(a) >= 0 /\ 2 * HalfOf(a) <= a
         /\ a < 0 => HalfOf(a) <= 0
<1>1. CASE a >= 0
  <2>1. PICK n \in Nat : n = a
    BY <1>1
  <2>2. n \div 2 \in Nat /\ 2 * (n \div 2) <= n
    BY <2>1
  <2>3. HalfOf(a) = n \div 2
    BY <1>1, <2>1 DEF HalfOf
  <2> QED
    BY <1>1, <2>1, <2>2, <2>3
<1>2. CASE a < 0
  <2>1. PICK n \in Nat : n = -a
    BY <1>2
  <2>2. PICK h \in Nat : h = n \div 2
    BY <2>1
  <2>3. HalfOf(a) = -h
    BY <1>2, <2>1, <2>2 DEF HalfOf
  <2> QED
    BY <1>2, <2>2, <2>3
<1> QED
  BY <1>1, <1>2

\* A greater age, or the same, is that of a datagram that may be accepted.
LEMMA NewFollows ==
  ASSUME NEW d \in Datagrams, NEW e \in Datagrams, Prefix(d) >= Prefix(e)
  PROVE  Follows(d, e)
<1>1. /\ d.time \in Nat /\ e.time \in Nat /\ W \in Nat
      /\ Prefix(d) \in Int /\ Prefix(e) \in Int /\ Prefix(d) < W
  BY DatagramFacts, StoresAssumption
<1>2. CASE d.time >= e.time
  BY <1>2 DEF Follows
<1>3. CASE d.time < e.time
  <2>1. \/ e.time - d.time = Prefix(e) - Prefix(d)
        \/ e.time - d.time >= W + Prefix(e) - Prefix(d)
    BY <1>3, AgesApart
  <2>2. e.time - d.time > Prefix(e) /\ e.time - d.time > 0
    BY <1>1, <1>3, <2>1
  <2>3. PICK h \in Int : /\ h = HalfOf(Prefix(e))
                         /\ Prefix(e) >= 0 => h >= 0 /\ 2 * h <= Prefix(e)
                         /\ Prefix(e) < 0 => h <= 0
    BY <1>1, HalfFacts
  <2>4. e.time - d.time > h
    BY <1>1, <2>2, <2>3
  <2> QED
    BY <2>3, <2>4 DEF Follows
<1> QED
  BY <1>1, <1>2, <1>3

\* So is one that is taken for a wrap, and one that is not, though it is old, is no
\* newer than e, unless by half a round.
LEMMA WrappedFollows ==
  ASSUME NEW d \in Datagrams, NEW e \in Datagrams, Prefix(d) <= Prefix(e)
  PROVE  /\ LooksWrapped(Prefix(e), Prefix(d)) => Follows(d, e)
         /\ ~LooksWrapped(Prefix(e), Prefix(d)) =>
              d.time <= e.time \/ d.time - e.time > W \div 2
<1>1. PICK p \in Int, q \in Int : p = Prefix(d) /\ q = Prefix(e) /\ p <= q /\ q < W
  BY DatagramFacts
<1>2. d.time \in Nat /\ e.time \in Nat /\ W \in Nat
  BY DatagramFacts, StoresAssumption
<1>3. PICK h \in Int : /\ h = HalfOf(q)
                       /\ q >= 0 => h >= 0 /\ 2 * h <= q
                       /\ q < 0 => h <= 0
  BY <1>1, HalfFacts
<1>4. LooksWrapped(q, p) <=> q - p > h
  <2>1. CASE mode = "perClient"
    BY <1>3, <2>1 DEF LooksWrapped
  <2>2. CASE mode # "perClient"
    <3>1. PICK x \in Nat : x = q - p
      BY <1>1
    <3>2. p \in Nat
      BY <1>1, <2>2, AgeOfTime
    <3>3. x < W
      BY <1>1, <1>2, <3>1, <3>2
    <3>4. x % W = x
      BY <1>2, <3>1, <3>3
    <3>5. (q - p) % W = q - p
      BY <3>1, <3>4
    <3> QED
      BY <1>3, <2>2, <3>5 DEF LooksWrapped
  <2> QED
    BY <2>1, <2>2
<1>5. PICK k \in Nat : k = W \div 2 /\ W = 2 * k
  BY StoresAssumption
<1>6. ASSUME q - p > h, d.time < e.time
      PROVE  e.time - d.time > h
  <2>1. e.time - d.time = q - p \/ e.time - d.time >= W + q - p
    BY <1>1, <1>6, AgesApart
  <2> QED
    BY <1>1, <1>2, <1>3, <1>6, <2>1
<1>7. ASSUME ~(q - p > h), e.time < d.time
      PROVE  d.time - e.time > k
  <2>1. d.time - e.time = p - q \/ d.time - e.time >= W + p - q
    BY <1>1, <1>7, AgesApart
  <2>2. d.time - e.time >= W - h
    BY <1>1, <1>2, <1>3, <1>7, <2>1
  <2>3. h < k
    BY <1>1, <1>3, <1>5, StoresAssumption
  <2> QED
    BY <1>2, <1>3, <1>5, <2>2, <2>3
<1>8. LooksWrapped(q, p) => Follows(d, e)
  BY <1>1, <1>2, <1>3, <1>4, <1>6 DEF Follows
<1>9. ~LooksWrapped(q, p) => d.time <= e.time \/ d.time - e.time > W \div 2
  BY <1>2, <1>3, <1>4, <1>5, <1>7
<1> QED
  BY <1>1, <1>8, <1>9

-----------------------------------------------------------------------------
(***************************************************************************)
(* The worker and the slots.                                               *)
(***************************************************************************)
\* The worker goes on with its datagram.
LEMMA GoesOn ==
  ASSUME NEW w \in WorkerStates, NEW p \in Places, NEW v, v = [w EXCEPT !.pc = p]
  PROVE  v \in WorkerStates /\ v.pc = p /\ v.d = w.d
BY DEF WorkerStates

\* The worker is done with it, or throws.
LEMMA LetsGo ==
  ASSUME NEW v, v = Free \/ v = [Free EXCEPT !.threw = TRUE]
  PROVE  v \in WorkerStates /\ v.pc = "idle"
<1>1. Free \in WorkerStates /\ Free.pc = "idle"
  BY DEF WorkerStates, Free, Places
<1>2. ASSUME NEW w \in WorkerStates
      PROVE  /\ [w EXCEPT !.threw = TRUE] \in WorkerStates
             /\ [w EXCEPT !.threw = TRUE].pc = w.pc
  BY DEF WorkerStates
<1> QED
  BY <1>1, <1>2

\* What the type invariant says of the worker and a slot.
LEMMA WorkerFacts ==
  ASSUME TypeOK
  PROVE  /\ worker \in WorkerStates /\ worker.pc \in Places
         /\ worker.pc # "idle" => worker.d \in Datagrams
         /\ Cleared \in Nat
         /\ \A s \in Slots :
              /\ counter[s] \in Int /\ store[s] \in Seq(Datagrams) /\ client[s] \in Nat
              /\ last[s] \in Datagrams \cup {None}
              /\ Expected(s) \in Int
<1>1. /\ worker \in WorkerStates
      /\ worker.pc # "idle" => worker.d \in Datagrams
  BY DEF TypeOK
<1>2. worker.pc \in Places
  BY <1>1 DEF WorkerStates
<1>3. Cleared \in Nat
  BY DEF Cleared, INITIAL_COUNTER_VALUE
<1>4. ASSUME NEW s \in Slots
      PROVE  /\ counter[s] \in Int /\ store[s] \in Seq(Datagrams) /\ client[s] \in Nat
             /\ last[s] \in Datagrams \cup {None}
  BY DEF TypeOK
<1>5. ASSUME NEW s \in Slots
      PROVE  Expected(s) \in Int
  BY <1>3, <1>4, DatagramFacts DEF Expected
<1> QED
  BY <1>1, <1>2, <1>3, <1>4, <1>5

\* A slot that a step leaves alone keeps its age, if its worker does nothing either,
\* or has another slot, or takes a datagram of it to compare.
LEMMA SlotKept ==
  ASSUME TypeOK, AgeKept, NEW s \in Slots,
         UNCHANGED <<mode, hasRecvFunc>>, counter'[s] = counter[s], last'[s] = last[s],
         reset'[s] = reset[s], adrift[s] => adrift'[s],
         worker' = worker \/ (~Uses(s) /\ (Uses(s)' => worker'.pc = "compare"))
  PROVE  (KeepsAge /\ Settled(s))' => AgeAt(s)'
<1> SUFFICES ASSUME (KeepsAge /\ Settled(s))'
             PROVE  AgeAt(s)'
  OBVIOUS
<1>1. KeepsAge /\ Settled(s)
  BY DEF KeepsAge, Settled
<1>2. AgeAt(s)
  BY <1>1 DEF AgeKept
<1>3. Expected(s)' = Expected(s) /\ Cleared' = Cleared
  BY DEF Expected, Cleared, Prefix
<1>4. CASE worker' = worker
  <2>1. Prefix(worker.d)' = Prefix(worker.d)
    BY <1>4 DEF Prefix
  <2>2. Follows(worker.d, last[s])' <=> Follows(worker.d, last[s])
    BY <1>4 DEF Follows, Prefix
  <2> QED
    BY <1>2, <1>3, <1>4, <2>1, <2>2 DEF AgeAt, Uses, IsNew
<1>5. CASE ~Uses(s) /\ (Uses(s)' => worker'.pc = "compare")
  <2>1. counter'[s] = Expected(s)'
    BY <1>2, <1>3, <1>5 DEF AgeAt
  <2>2. worker'.pc \in {"guess", "count", "done"} => ~Uses(s)'
    BY <1>5
  <2> QED
    BY <2>1, <2>2 DEF AgeAt
<1> QED
  BY <1>4, <1>5

\* So do all slots in a step that changes nothing of them.
LEMMA NothingHappens ==
  ASSUME IInv, TypeOK',
         UNCHANGED <<mode, hasRecvFunc, store, counter, worker, reset, client, last>>,
         \A s \in Slots : adrift[s] => adrift'[s]
  PROVE  IInv'
<1>1. NewestStored'
  BY DEF IInv, NewestStored
<1>2. OfThisClient'
  BY DEF IInv, OfThisClient, Uses
<1>3. ResetInSteps' /\ PlacesOfModes' /\ NoAge'
  BY DEF IInv, ResetInSteps, PlacesOfModes, NoAge, Prefix
<1>4. AgeKept'
  <2> SUFFICES ASSUME NEW s \in Slots
               PROVE  (KeepsAge /\ Settled(s))' => AgeAt(s)'
    BY DEF AgeKept
  <2> QED
    BY SlotKept DEF IInv
<1> QED
  BY <1>1, <1>2, <1>3, <1>4 DEF IInv

-----------------------------------------------------------------------------
(***************************************************************************)
(* A client's program, and polling.                                        *)
(***************************************************************************)
\* The clock of a client's program is nothing to the store.
LEMMA TickKeeps ==
  ASSUME IInv, NEW s \in Slots, Tick(s)
  PROVE  IInv'
<1>1. TypeOK'
  BY DEF IInv, TypeOK, Tick, store_, history
<1> QED
  BY <1>1, NothingHappens DEF Tick, store_, history

\* A datagram that is sent names the present client of its slot.
LEMMA GetSendObjectKeeps ==
  ASSUME IInv, NEW s \in Slots, NEW t \in Threads, GetSendObject(s, t)
  PROVE  IInv'
<1> USE DEF GetSendObject, store_
<1>1. \A time \in Nat : Transmit(s, time) => net' \subseteq Datagrams /\ numSent' \in [Slots -> Nat]
  BY DEF Transmit, IInv, TypeOK, Datagrams
<1>2. /\ clock[s] \in Nat /\ sending[s][t] \in Nat /\ sendCounter[s] \in Nat
      /\ net \subseteq Datagrams /\ numSent \in [Slots -> Nat]
      /\ sending \in [Slots -> [Threads -> Nat]]
  BY DEF IInv, TypeOK
<1>3. net' \subseteq Datagrams /\ numSent' \in [Slots -> Nat]
  BY <1>1, <1>2
<1>4. sendCounter' \in [Slots -> Nat]
  BY DEF IInv, TypeOK
<1>5. sending' \in [Slots -> [Threads -> Nat]]
  BY <1>2
<1>6. TypeOK'
  BY <1>3, <1>4, <1>5 DEF IInv, TypeOK
<1> QED
  BY <1>6, NothingHappens

\* After its client has flushed, nothing is said of the slot.
LEMMA FlushAtClientKeeps ==
  ASSUME IInv, NEW s \in Slots, FlushAtClient(s)
  PROVE  IInv'
<1>1. TypeOK'
  BY DEF IInv, TypeOK, FlushAtClient, store_, INITIAL_COUNTER_VALUE
<1>2. \A r \in Slots : adrift[r] => adrift'[r]
  BY DEF IInv, TypeOK, FlushAtClient
<1> QED
  BY <1>1, <1>2, NothingHappens DEF FlushAtClient, store_

\* Looking for a packet changes no store.
LEMMA BeginGetKeeps ==
  ASSUME IInv, NEW s \in Slots, BeginGet(s)
  PROVE  IInv'
<1>1. TypeOK'
  BY DEF IInv, TypeOK, BeginGet, store_, remote, history
<1> QED
  BY <1>1, NothingHappens DEF BeginGet, store_, history

\* The oldest packet of a queue is taken, or all there is in per client mode: if
\* something is left, the newest is still there.
LEMMA EndGetKeeps ==
  ASSUME IInv, NEW s \in Slots, EndGet(s)
  PROVE  IInv'
<1> USE DEF EndGet, remote, history
<1>1. store'[s] \in Seq(Datagrams) /\ \A r \in Slots : r # s => store'[r] = store[r]
  <2>1. store[s] \in Seq(Datagrams) /\ store \in [Slots -> Seq(Datagrams)]
    BY DEF IInv, TypeOK
  <2>2. <<>> \in Seq(Datagrams)
    OBVIOUS
  <2>3. store[s] # <<>> => Tail(store[s]) \in Seq(Datagrams)
    BY <2>1
  <2> QED
    BY <2>1, <2>2, <2>3
<1>2. store' = [store EXCEPT ![s] = store'[s]]
  BY DEF IInv, TypeOK
<1>3. TypeOK'
  BY <1>1, <1>2 DEF IInv, TypeOK
<1>4. NewestStored'
  <2> SUFFICES ASSUME NEW r \in Slots
               PROVE  /\ hasRecvFunc' => store'[r] = <<>>
                      /\ store'[r] # <<>> => last'[r] = store'[r][Len(store'[r])]
    BY DEF NewestStored
  <2>1. /\ hasRecvFunc => store[r] = <<>>
        /\ store[r] # <<>> => last[r] = store[r][Len(store[r])]
        /\ store[r] \in Seq(Datagrams)
    BY WorkerFacts DEF IInv, NewestStored
  <2>2. CASE store'[r] = store[r] \/ store'[r] = <<>>
    BY <2>1, <2>2
  <2>3. CASE store[r] # <<>> /\ store'[r] = Tail(store[r])
    <3>1. Tail(store[r]) # <<>> =>
            Tail(store[r])[Len(Tail(store[r]))] = store[r][Len(store[r])]
      BY <2>1, <2>3
    <3> QED
      BY <2>1, <2>3, <3>1
  <2>4. \/ store'[r] = store[r] \/ store'[r] = <<>>
        \/ store[r] # <<>> /\ store'[r] = Tail(store[r])
    BY DEF IInv, TypeOK
  <2> QED
    BY <2>2, <2>3, <2>4
<1>5. OfThisClient' /\ ResetInSteps' /\ PlacesOfModes' /\ NoAge'
  BY DEF IInv, OfThisClient, ResetInSteps, PlacesOfModes, NoAge, Prefix, Uses
<1>6. AgeKept'
  <2> SUFFICES ASSUME NEW r \in Slots
               PROVE  (KeepsAge /\ Settled(r))' => AgeAt(r)'
    BY DEF AgeKept
  <2> QED
    BY SlotKept DEF IInv
<1> QED
  BY <1>3, <1>4, <1>5, <1>6 DEF IInv

-----------------------------------------------------------------------------
(***************************************************************************)
(* The worker.                                                             *)
(***************************************************************************)
\* A datagram is taken by its slot only if it is of the present client.
LEMMA ReceiveKeeps ==
  ASSUME IInv, NEW d \in net, Receive(d)
  PROVE  IInv'
<1>1. d \in Datagrams
  BY DEF IInv, TypeOK
<1>2. PICK p \in Places :
        /\ worker' = [Free EXCEPT !.d = d, !.pc = p]
        /\ p = (IF mode = "catchAll" THEN "done" ELSE "compare")
  <2>1. (IF mode = "catchAll" THEN "done" ELSE "compare") \in Places
    BY DEF Places
  <2> QED
    BY <2>1 DEF Receive
<1>3. worker' \in WorkerStates /\ worker'.pc = p /\ worker'.d = d
  BY <1>1, <1>2 DEF WorkerStates, Free
<1> USE DEF Receive, remote, store_, history
<1>4. TypeOK'
  BY <1>1, <1>3 DEF IInv, TypeOK
<1>5. NewestStored' /\ ResetInSteps'
  BY DEF IInv, NewestStored, ResetInSteps
<1>6. OfThisClient'
  BY <1>3 DEF IInv, OfThisClient, Uses
<1>7. PlacesOfModes' /\ NoAge'
  BY <1>2, <1>3 DEF IInv, PlacesOfModes, NoAge
<1>8. AgeKept'
  <2> SUFFICES ASSUME NEW s \in Slots, KeepsAge
               PROVE  (KeepsAge /\ Settled(s))' => AgeAt(s)'
    BY DEF AgeKept, KeepsAge
  <2>1. ~Uses(s) /\ (Uses(s)' => worker'.pc = "compare")
    BY <1>2, <1>3 DEF Uses, KeepsAge
  <2> QED
    BY <2>1, SlotKept DEF IInv
<1> QED
  BY <1>4, <1>5, <1>6, <1>7, <1>8 DEF IInv

\* A connection packet is ignored: had the counter been cleared for the datagram,
\* it would not be one.
LEMMA IgnoreConnectionPacketKeeps ==
  ASSUME IInv, IgnoreConnectionPacket
  PROVE  IInv'
<1> USE DEF IgnoreConnectionPacket, remote, store_, history
<1>1. worker' \in WorkerStates /\ worker'.pc = "idle"
  BY LetsGo
<1>2. TypeOK'
  BY <1>1 DEF IInv, TypeOK
<1>3. NewestStored' /\ ResetInSteps'
  BY DEF IInv, NewestStored, ResetInSteps
<1>4. OfThisClient'
  BY <1>1 DEF IInv, OfThisClient, Uses
<1>5. PlacesOfModes' /\ NoAge'
  BY <1>1 DEF IInv, PlacesOfModes, NoAge
<1>6. AgeKept'
  <2> SUFFICES ASSUME NEW s \in Slots, KeepsAge, Settled(s)
               PROVE  AgeAt(s)'
    BY DEF AgeKept, KeepsAge, Settled
  <2>1. counter[s] = Expected(s)
    BY DEF IInv, AgeKept, AgeAt
  <2>2. Expected(s)' = Expected(s)
    BY DEF Expected, Cleared, Prefix
  <2>3. ~Uses(s)'
    BY <1>1 DEF Uses
  <2> QED
    BY <2>1, <2>2, <2>3 DEF AgeAt
<1> QED
  BY <1>2, <1>3, <1>4, <1>5, <1>6 DEF IInv

\* What is new by the counter may follow the last datagram.  A cleared counter finds
\* everything new, so that one which is found old has the age of the last datagram.
\* When no memory is left the counter is right, unless it was cleared for this datagram.
LEMMA CompareKeeps ==
  ASSUME IInv, Compare
  PROVE  IInv'
<1> DEFINE s == worker.d.slot
           new == IsNew(counter[s], Prefix(worker.d))
<1> USE DEF Compare, remote, store_, history
<1>1. /\ worker \in WorkerStates /\ worker.pc = "compare" /\ worker.d \in Datagrams
      /\ s \in Slots /\ Prefix(worker.d) \in Int /\ Prefix(worker.d) # 0
      /\ counter[s] \in Int /\ last[s] \in Datagrams \cup {None}
  BY WorkerFacts, DatagramFacts DEF IInv
<1>2. \/ /\ new
         /\ worker' = [worker EXCEPT !.pc = IF mode = "perClient" THEN "done" ELSE "count"]
         /\ adrift' = adrift
      \/ /\ ~new
         /\ worker' = [worker EXCEPT !.pc = "guess"]
         /\ adrift' = adrift
      \/ /\ mode = "catchAllNo" /\ new
         /\ worker' = [Free EXCEPT !.threw = TRUE]
         /\ adrift' = [adrift EXCEPT ![s] = @ \/ counter[s] = Cleared]
  OBVIOUS
<1>3. mode # "catchAll" /\ mode \in {"perClient", "catchAll", "catchAllNo"}
  BY <1>1 DEF IInv, TypeOK, PlacesOfModes
<1>4. \/ /\ new /\ adrift' = adrift
         /\ worker' \in WorkerStates /\ worker'.d = worker.d
         /\ worker'.pc = IF mode = "perClient" THEN "done" ELSE "count"
      \/ /\ ~new /\ adrift' = adrift
         /\ worker' \in WorkerStates /\ worker'.d = worker.d /\ worker'.pc = "guess"
      \/ /\ mode = "catchAllNo"
         /\ worker' \in WorkerStates /\ worker'.pc = "idle"
         /\ adrift' = [adrift EXCEPT ![s] = @ \/ counter[s] = Cleared]
  BY <1>1, <1>2, GoesOn, LetsGo DEF Places
<1>5. /\ worker' \in WorkerStates
      /\ worker'.pc # "idle" => worker'.d = worker.d
      /\ worker'.pc \in {"guess", "count", "done", "idle"}
      /\ worker'.pc = "count" => mode = "catchAllNo"
      /\ worker'.pc = "guess" => ~new
  BY <1>3, <1>4
<1>6. adrift' \in [Slots -> BOOLEAN] /\ \A r \in Slots : adrift[r] => adrift'[r]
  BY <1>4 DEF IInv, TypeOK
<1> HIDE DEF new
<1>7. TypeOK'
  BY <1>1, <1>5, <1>6 DEF IInv, TypeOK
<1>8. NewestStored' /\ ResetInSteps'
  BY DEF IInv, NewestStored, ResetInSteps
<1>9. OfThisClient'
  BY <1>1, <1>5, <1>6 DEF IInv, OfThisClient, Uses
<1>10. PlacesOfModes'
  BY <1>1, <1>3, <1>5 DEF PlacesOfModes, Prefix
<1>11. NoAge'
  <2> SUFFICES ASSUME mode = "perClient", hasRecvFunc
               PROVE  /\ \A r \in Slots : counter[r] = 0
                      /\ worker'.pc = "guess" => Prefix(worker'.d) < 0
    BY DEF NoAge, Prefix
  <2>1. \A r \in Slots : counter[r] = 0
    BY DEF IInv, NoAge
  <2>2. ~new => Prefix(worker.d) < 0
    BY <1>1, <2>1 DEF new, IsNew
  <2>3. worker'.pc = "guess" => worker'.d = worker.d
    BY <1>5
  <2> QED
    BY <1>5, <2>1, <2>2, <2>3
<1>12. AgeKept'
  <2> SUFFICES ASSUME NEW r \in Slots, (KeepsAge /\ Settled(r))'
               PROVE  AgeAt(r)'
    BY DEF AgeKept
  <2>1. KeepsAge /\ Settled(r) /\ AgeAt(r)
    BY <1>6 DEF KeepsAge, Settled, IInv, AgeKept
  <2>2. Expected(r)' = Expected(r) /\ Expected(r) \in Int
    BY WorkerFacts DEF Expected, Cleared, Prefix, IInv
  <2>3. CASE r # s
    <3>1. ~Uses(r) /\ ~Uses(r)'
      BY <1>5, <2>3 DEF Uses
    <3> QED
      BY <1>6, <3>1, SlotKept DEF IInv
  <2>4. CASE r = s
    <3>1. Uses(r)
      BY <1>1, <2>4 DEF Uses
    <3>2. \/ counter[r] = Expected(r)
          \/ /\ mode = "catchAllNo" /\ counter[r] = Cleared
             /\ Follows(worker.d, last[r])
      BY <1>1, <2>1, <3>1 DEF AgeAt
    <3>3. new => Follows(worker.d, last[r])
      <4> SUFFICES ASSUME new, counter[r] = Expected(r), last[r] # None
                   PROVE  Follows(worker.d, last[r])
        BY <3>2 DEF Follows
      <4>1. last[r] \in Datagrams /\ Prefix(last[r]) \in Int
        BY <1>1, <2>4, DatagramFacts
      <4>2. Prefix(worker.d) >= Prefix(last[r])
        BY <1>1, <2>4, <4>1 DEF new, IsNew, Expected
      <4> QED
        BY <1>1, <4>1, <4>2, NewFollows
    <3>4. ~new => counter[r] = Expected(r)
      <4> SUFFICES ASSUME mode = "catchAllNo", counter[r] = Cleared
                   PROVE  new
        BY <3>2
      <4>1. Prefix(worker.d) \in Nat
        BY <1>1, AgeOfTime
      <4> QED
        BY <1>1, <2>4, <4>1 DEF new, IsNew, Cleared, INITIAL_COUNTER_VALUE
    <3>5. CASE new /\ worker'.d = worker.d
               /\ worker'.pc = (IF mode = "perClient" THEN "done" ELSE "count")
      <4>1. worker'.pc \in {"count", "done"} /\ (worker'.pc = "done" => mode # "catchAllNo")
        BY <3>5
      <4>2. Follows(worker'.d, last'[r])
        BY <3>3, <3>5 DEF Follows, Prefix
      <4> QED
        BY <2>4, <3>5, <4>1, <4>2 DEF AgeAt, Uses, Follows, Prefix
    <3>6. CASE ~new /\ worker'.d = worker.d /\ worker'.pc = "guess"
      <4>1. ~IsNew(counter[r], Prefix(worker.d))'
        BY <2>4, <3>6 DEF new, IsNew, Prefix
      <4>2. counter'[r] = Expected(r)'
        BY <2>2, <3>4, <3>6
      <4> QED
        BY <2>4, <3>6, <4>1, <4>2 DEF AgeAt, Uses
    <3>7. CASE worker'.pc = "idle" /\ adrift' = [adrift EXCEPT ![s] = @ \/ counter[s] = Cleared]
      <4>1. counter[r] # Cleared
        BY <1>1, <2>4, <3>7 DEF Settled, IInv, TypeOK
      <4>2. counter'[r] = Expected(r)' /\ ~Uses(r)'
        BY <2>2, <3>2, <3>7, <4>1 DEF Uses
      <4> QED
        BY <4>2 DEF AgeAt
    <3> QED
      BY <1>4, <3>5, <3>6, <3>7
  <2> QED
    BY <2>3, <2>4
<1> QED
  BY <1>7, <1>8, <1>9, <1>10, <1>11, <1>12 DEF IInv

\* An old datagram is taken for one after a wrap, with the counter cleared, or is
\* refused, with the counter as it was.
LEMMA GuessWrapKeeps ==
  ASSUME IInv, GuessWrap
  PROVE  IInv'
<1> DEFINE s == worker.d.slot
<1> USE DEF GuessWrap, remote, history
<1>1. /\ worker \in WorkerStates /\ worker.pc = "guess" /\ worker.d \in Datagrams
      /\ s \in Slots /\ Prefix(worker.d) \in Int /\ Prefix(worker.d) # 0
      /\ counter[s] \in Int /\ last[s] \in Datagrams \cup {None}
      /\ mode \in {"perClient", "catchAllNo"} /\ Cleared \in Nat
  BY WorkerFacts, DatagramFacts DEF IInv, TypeOK, PlacesOfModes
<1>2. counter \in [Slots -> Int]
  BY DEF IInv, TypeOK
<1>3. \/ /\ LooksWrapped(counter[s], Prefix(worker.d))
         /\ counter' = [counter EXCEPT ![s] = Cleared]
         /\ worker' \in WorkerStates /\ worker'.d = worker.d
         /\ worker'.pc = IF mode = "perClient" THEN "done" ELSE "compare"
      \/ /\ counter' = counter
         /\ worker' \in WorkerStates /\ worker'.pc = "idle"
  BY <1>1, GoesOn, LetsGo DEF Places
<1>4. /\ worker' \in WorkerStates /\ worker'.pc \in {"compare", "done", "idle"}
      /\ worker'.pc # "idle" => worker'.d = worker.d
  BY <1>3
<1>5. counter' \in [Slots -> Int] /\ \A r \in Slots : r # s => counter'[r] = counter[r]
  BY <1>1, <1>2, <1>3
<1>6. TypeOK'
  BY <1>1, <1>4, <1>5 DEF IInv, TypeOK
<1>7. NewestStored' /\ ResetInSteps'
  BY DEF IInv, NewestStored, ResetInSteps
<1>8. OfThisClient'
  BY <1>1, <1>4 DEF IInv, OfThisClient, Uses
<1>9. PlacesOfModes'
  BY <1>1, <1>4 DEF PlacesOfModes
<1>11. NoAge'
  <2> SUFFICES ASSUME mode = "perClient", hasRecvFunc, NEW r \in Slots
               PROVE  counter'[r] = 0
    BY <1>4 DEF NoAge
  <2>1. counter[r] = 0
    BY DEF IInv, NoAge
  <2>2. counter' = counter \/ counter' = [counter EXCEPT ![s] = 0]
    BY <1>3 DEF Cleared
  <2> QED
    BY <1>1, <1>2, <2>1, <2>2
<1>10. AgeKept'
  <2> SUFFICES ASSUME NEW r \in Slots, (KeepsAge /\ Settled(r))'
               PROVE  AgeAt(r)'
    BY DEF AgeKept
  <2>1. KeepsAge /\ Settled(r) /\ AgeAt(r)
    BY DEF KeepsAge, Settled, IInv, AgeKept
  <2>2. Expected(r)' = Expected(r) /\ Cleared' = Cleared
    BY DEF Expected, Cleared, Prefix
  <2>3. CASE r # s
    <3>1. ~Uses(r) /\ ~Uses(r)'
      BY <1>4, <2>3 DEF Uses
    <3> QED
      BY <1>5, <2>3, <3>1, SlotKept DEF IInv
  <2>4. CASE r = s
    <3>1. counter[r] = Expected(r) /\ ~IsNew(counter[r], Prefix(worker.d))
      BY <1>1, <2>1, <2>4 DEF AgeAt, Uses
    <3>5. CASE worker'.pc = "idle" /\ counter' = counter
      BY <2>2, <3>1, <3>5 DEF AgeAt, Uses
    <3>6. CASE /\ LooksWrapped(counter[s], Prefix(worker.d))
               /\ counter' = [counter EXCEPT ![s] = Cleared]
               /\ worker'.d = worker.d
               /\ worker'.pc = IF mode = "perClient" THEN "done" ELSE "compare"
      <4>1. Follows(worker.d, last[r])
        <5> SUFFICES ASSUME last[r] # None
                     PROVE  Follows(worker.d, last[r])
          BY DEF Follows
        <5>1. last[r] \in Datagrams /\ counter[r] = Prefix(last[r]) /\ Prefix(last[r]) \in Int
          BY <1>1, <2>4, <3>1, DatagramFacts DEF Expected
        <5>2. Prefix(worker.d) <= Prefix(last[r])
          BY <1>1, <3>1, <5>1 DEF IsNew
        <5> QED
          BY <1>1, <2>4, <3>6, <5>1, <5>2, WrappedFollows
      <4>2. Follows(worker'.d, last'[r]) /\ Prefix(worker'.d) # 0
        BY <1>1, <3>6, <4>1 DEF Follows, Prefix
      <4>3. counter'[r] = Cleared'
        <5>1. counter'[s] = Cleared
          BY <1>1, <1>2, <3>6
        <5> QED
          BY <2>2, <2>4, <5>1
      <4>4. \/ worker'.pc = "compare" /\ mode' = "catchAllNo"
            \/ worker'.pc = "done" /\ mode' # "catchAllNo"
        BY <1>1, <3>6
      <4>5. Uses(r)'
        BY <2>4, <3>6, <4>4 DEF Uses
      <4> QED
        BY <4>2, <4>3, <4>4, <4>5 DEF AgeAt, Follows, Prefix
    <3> QED
      BY <1>3, <3>5, <3>6
  <2> QED
    BY <2>3, <2>4
<1> QED
  BY <1>6, <1>7, <1>8, <1>9, <1>10, <1>11 DEF IInv

\* The age is recorded.
LEMMA SetRecvCounterKeeps ==
  ASSUME IInv, SetRecvCounter
  PROVE  IInv'
<1> DEFINE s == worker.d.slot
<1> USE DEF SetRecvCounter, remote, history
<1>1. /\ worker \in WorkerStates /\ worker.pc = "count" /\ worker.d \in Datagrams
      /\ s \in Slots /\ Prefix(worker.d) \in Int /\ mode = "catchAllNo"
      /\ counter \in [Slots -> Int]
  BY WorkerFacts, DatagramFacts DEF IInv, TypeOK, PlacesOfModes
<1>2. worker' \in WorkerStates /\ worker'.pc = "done" /\ worker'.d = worker.d
  BY <1>1, GoesOn DEF Places
<1>3. /\ counter' \in [Slots -> Int] /\ counter'[s] = Prefix(worker.d)
      /\ \A r \in Slots : r # s => counter'[r] = counter[r]
  BY <1>1
<1>4. TypeOK'
  BY <1>1, <1>2, <1>3 DEF IInv, TypeOK
<1>5. NewestStored' /\ ResetInSteps'
  BY DEF IInv, NewestStored, ResetInSteps
<1>6. OfThisClient'
  BY <1>1, <1>2 DEF IInv, OfThisClient, Uses
<1>7. PlacesOfModes' /\ NoAge'
  BY <1>1, <1>2 DEF PlacesOfModes, NoAge
<1>8. AgeKept'
  <2> SUFFICES ASSUME NEW r \in Slots, (KeepsAge /\ Settled(r))'
               PROVE  AgeAt(r)'
    BY DEF AgeKept
  <2>1. CASE r # s
    <3>1. ~Uses(r) /\ ~Uses(r)'
      BY <1>2, <2>1 DEF Uses
    <3> QED
      BY <1>3, <2>1, <3>1, SlotKept DEF IInv
  <2>2. CASE r = s
    <3>1. KeepsAge /\ Settled(r) /\ Uses(r)
      BY <1>1, <2>2 DEF KeepsAge, Settled, Uses
    <3>2. Follows(worker.d, last[r])
      BY <1>1, <3>1 DEF IInv, AgeKept, AgeAt
    <3>3. Follows(worker'.d, last'[r])
      BY <1>2, <3>2 DEF Follows, Prefix
    <3>4. Uses(r)' /\ counter'[r] = Prefix(worker'.d)
      BY <1>2, <1>3, <2>2 DEF Uses, Prefix
    <3> QED
      BY <1>2, <3>3, <3>4 DEF AgeAt, Follows, Prefix
  <2> QED
    BY <2>1, <2>2
<1> QED
  BY <1>4, <1>5, <1>6, <1>7, <1>8 DEF IInv

\* The datagram is the last one of the slot's client, and the counter is its age.
LEMMA PacketDoneKeeps ==
  ASSUME IInv, PacketDone
  PROVE  IInv'
<1> DEFINE s == worker.d.slot
           d == worker.d
<1>1. /\ worker.pc = "done" /\ d \in Datagrams /\ d # None
      /\ s \in Slots /\ Prefix(d) \in Int
      /\ counter \in [Slots -> Int] /\ store \in [Slots -> Seq(Datagrams)]
      /\ last \in [Slots -> Datagrams \cup {None}]
  BY WorkerFacts, DatagramFacts DEF IInv, TypeOK, PacketDone
<1>2. worker' \in WorkerStates /\ worker'.pc = "idle"
  BY LetsGo DEF PacketDone
<1>3. last' = [last EXCEPT ![s] = d]
  BY DEF PacketDone
<1>4. /\ last' \in [Slots -> Datagrams \cup {None}] /\ last'[s] = d
      /\ \A r \in Slots : r # s => last'[r] = last[r]
  BY <1>1, <1>3
<1>5. /\ store' \in [Slots -> Seq(Datagrams)]
      /\ hasRecvFunc => store' = store
      /\ ~hasRecvFunc => store'[s] # <<>> /\ store'[s][Len(store'[s])] = d
      /\ \A r \in Slots : r # s => store'[r] = store[r]
  <2>1. CASE hasRecvFunc
    BY <1>1, <2>1 DEF PacketDone, store_
  <2>2. CASE ~hasRecvFunc /\ mode = "perClient"
    <3>1. store' = [store EXCEPT ![s] = <<d>>]
      BY <2>2 DEF PacketDone
    <3>2. <<d>> \in Seq(Datagrams) /\ <<d>> # <<>> /\ <<d>>[Len(<<d>>)] = d
      BY <1>1
    <3> QED
      BY <1>1, <2>2, <3>1, <3>2
  <2>3. CASE ~hasRecvFunc /\ mode # "perClient"
    <3>1. store' = [store EXCEPT ![s] = Append(@, d)]
      BY <2>3 DEF PacketDone
    <3>2. /\ Append(store[s], d) \in Seq(Datagrams) /\ Append(store[s], d) # <<>>
          /\ Append(store[s], d)[Len(Append(store[s], d))] = d
      BY <1>1
    <3> QED
      BY <1>1, <2>3, <3>1, <3>2
  <2> QED
    BY <2>1, <2>2, <2>3
<1>6. /\ counter' \in [Slots -> Int]
      /\ (~hasRecvFunc /\ mode = "perClient") => counter'[s] = Prefix(d)
      /\ (hasRecvFunc \/ mode # "perClient") => counter' = counter
      /\ \A r \in Slots : r # s => counter'[r] = counter[r]
  BY <1>1 DEF PacketDone, store_
<1>7. UNCHANGED <<mode, hasRecvFunc, remote, net, poll, reset, client, numSent, adrift, resets>>
  BY DEF PacketDone
<1> USE DEF remote
<1>8. TypeOK'
  BY <1>2, <1>4, <1>5, <1>6, <1>7 DEF IInv, TypeOK
<1>9. NewestStored'
  <2> SUFFICES ASSUME NEW r \in Slots
               PROVE  /\ hasRecvFunc' => store'[r] = <<>>
                      /\ store'[r] # <<>> => last'[r] = store'[r][Len(store'[r])]
    BY DEF NewestStored
  <2>1. /\ hasRecvFunc => store[r] = <<>>
        /\ store[r] # <<>> => last[r] = store[r][Len(store[r])]
    BY DEF IInv, NewestStored
  <2>2. CASE r = s
    BY <1>4, <1>5, <1>7, <2>1, <2>2
  <2>3. CASE r # s
    BY <1>4, <1>5, <1>7, <2>1, <2>3
  <2> QED
    BY <2>2, <2>3
<1>10. OfThisClient'
  <2> SUFFICES ASSUME NEW r \in Slots, ~adrift[r]
               PROVE  last'[r] # None => last'[r].client = client[r]
    BY <1>2, <1>7 DEF OfThisClient, Uses
  <2>1. /\ last[r] # None => last[r].client = client[r]
        /\ Uses(r) => d.client = client[r]
    BY DEF IInv, OfThisClient
  <2>2. CASE r = s
    BY <1>1, <1>4, <2>1, <2>2 DEF Uses
  <2>3. CASE r # s
    BY <1>4, <2>1, <2>3
  <2> QED
    BY <2>2, <2>3
<1>11. ResetInSteps' /\ PlacesOfModes'
  BY <1>2, <1>7 DEF IInv, ResetInSteps, PlacesOfModes
<1>12. NoAge'
  BY <1>2, <1>6, <1>7 DEF IInv, NoAge
<1>13. AgeKept'
  <2> SUFFICES ASSUME NEW r \in Slots, (KeepsAge /\ Settled(r))'
               PROVE  AgeAt(r)'
    BY DEF AgeKept
  <2>1. KeepsAge /\ Settled(r)
    BY <1>7 DEF KeepsAge, Settled
  <2>2. ~Uses(r)'
    BY <1>2 DEF Uses
  <2>3. CASE r # s
    <3>1. ~Uses(r)
      BY <2>3 DEF Uses
    <3> QED
      BY <1>4, <1>6, <1>7, <2>2, <2>3, <3>1, SlotKept DEF IInv
  <2>4. CASE r = s
    <3>1. mode = "catchAllNo" => counter[r] = Prefix(d)
      BY <1>1, <2>1, <2>4 DEF IInv, AgeKept, AgeAt, Uses
    <3>2. counter'[r] = Prefix(d)
      BY <1>6, <2>1, <2>4, <3>1 DEF KeepsAge, IInv, TypeOK
    <3>3. Expected(r)' = Prefix(d)
      <4>1. last'[r] = d /\ d # None /\ mode' = mode
        BY <1>1, <1>4, <1>7, <2>4, DatagramFacts
      <4> QED
        BY <4>1 DEF Expected, Prefix
    <3> QED
      BY <2>2, <3>2, <3>3 DEF AgeAt
  <2> QED
    BY <2>3, <2>4
<1> QED
  BY <1>8, <1>9, <1>10, <1>11, <1>12, <1>13 DEF IInv

-----------------------------------------------------------------------------
(***************************************************************************)
(* The user of the socket.                                                 *)
(***************************************************************************)
\* What a reset does to the slot and to others.
LEMMA ResetFacts ==
  ASSUME TypeOK, NEW s \in Slots, Reset(s), UNCHANGED mode
  PROVE  /\ store' \in [Slots -> Seq(Datagrams)] /\ counter' \in [Slots -> Int]
         /\ last' \in [Slots -> Datagrams \cup {None}] /\ reset' \in [Slots -> BOOLEAN]
         /\ resets' \in Nat
         /\ store'[s] = <<>> /\ last'[s] = None
         /\ reset'[s] <=> mode = "catchAllNo"
         /\ mode = "perClient" => counter'[s] = 0
         /\ mode # "perClient" => counter' = counter
         /\ \A r \in Slots : r # s =>
              /\ store'[r] = store[r] /\ last'[r] = last[r]
              /\ reset'[r] = reset[r] /\ counter'[r] = counter[r]
<1>1. /\ store \in [Slots -> Seq(Datagrams)] /\ counter \in [Slots -> Int]
      /\ last \in [Slots -> Datagrams \cup {None}] /\ reset \in [Slots -> BOOLEAN]
      /\ resets \in Nat
  BY DEF TypeOK
<1>2. store' \in [Slots -> Seq(Datagrams)] /\ store'[s] = <<>>
  BY <1>1 DEF Reset
<1>3. /\ counter' \in [Slots -> Int]
      /\ mode = "perClient" => counter'[s] = 0
      /\ mode # "perClient" => counter' = counter
  BY <1>1 DEF Reset
<1>4. last' \in [Slots -> Datagrams \cup {None}] /\ last'[s] = None
  BY <1>1 DEF Reset
<1>5. (mode = "catchAllNo") \in BOOLEAN
  OBVIOUS
<1>6. reset' \in [Slots -> BOOLEAN] /\ (reset'[s] <=> mode = "catchAllNo")
  BY <1>1, <1>5 DEF Reset
<1>7. resets' \in Nat
  BY <1>1 DEF Reset
<1>8. \A r \in Slots : r # s =>
        /\ store'[r] = store[r] /\ last'[r] = last[r]
        /\ reset'[r] = reset[r] /\ counter'[r] = counter[r]
  BY <1>1 DEF Reset
<1> QED
  BY <1>2, <1>3, <1>4, <1>6, <1>7, <1>8

\* A slot that was reset expects a cleared counter, and has one, now or when the
\* numbered mode ends the reset, unless a worker uses it.
LEMMA ResetKeeps ==
  ASSUME IInv, TypeOK', NEW s \in Slots, Reset(s),
         UNCHANGED <<mode, hasRecvFunc, worker>>,
         \A r \in Slots : r # s => client'[r] = client[r] /\ adrift'[r] = adrift[r],
         Uses(s) => adrift'[s]
  PROVE  IInv'
<1>1. /\ store'[s] = <<>> /\ last'[s] = None
      /\ reset'[s] <=> mode = "catchAllNo"
      /\ mode = "perClient" => counter'[s] = 0
      /\ mode # "perClient" => counter' = counter
      /\ \A r \in Slots : r # s =>
           /\ store'[r] = store[r] /\ last'[r] = last[r]
           /\ reset'[r] = reset[r] /\ counter'[r] = counter[r]
  BY ResetFacts DEF IInv
<1>2. NewestStored'
  BY <1>1 DEF IInv, NewestStored
<1>3. \A r \in Slots : Uses(r)' = Uses(r)
  BY DEF Uses
<1>4. OfThisClient'
  <2> SUFFICES ASSUME NEW r \in Slots, ~adrift'[r]
               PROVE  /\ last'[r] # None => last'[r].client = client'[r]
                      /\ Uses(r)' => worker'.d.client = client'[r]
    BY DEF OfThisClient
  <2>1. CASE r = s
    BY <1>1, <1>3, <2>1
  <2>2. CASE r # s
    BY <1>1, <1>3, <2>2 DEF IInv, OfThisClient
  <2> QED
    BY <2>1, <2>2
<1>5. ResetInSteps' /\ PlacesOfModes'
  BY <1>1 DEF IInv, ResetInSteps, PlacesOfModes, Prefix
<1>6. NoAge'
  BY <1>1 DEF IInv, NoAge, Prefix
<1>7. AgeKept'
  <2> SUFFICES ASSUME NEW r \in Slots, (KeepsAge /\ Settled(r))'
               PROVE  AgeAt(r)'
    BY DEF AgeKept
  <2>1. CASE r # s
    BY <1>1, <2>1, SlotKept DEF IInv
  <2>2. CASE r = s
    <3>1. ~adrift'[r] /\ ~reset'[r] /\ KeepsAge
      BY DEF Settled, KeepsAge
    <3>2. mode = "perClient"
      BY <1>1, <2>2, <3>1 DEF KeepsAge, IInv, TypeOK
    <3>3. counter'[r] = Expected(r)'
      BY <1>1, <2>2, <3>2 DEF Expected, Cleared
    <3>4. ~Uses(r)'
      BY <1>3, <2>2, <3>1
    <3> QED
      BY <3>3, <3>4 DEF AgeAt
  <2> QED
    BY <2>1, <2>2
<1> QED
  BY <1>2, <1>4, <1>5, <1>6, <1>7 DEF IInv

\* The user flushes a slot.
LEMMA FlushRecvUDPKeeps ==
  ASSUME IInv, NEW s \in Slots, FlushRecvUDP(s)
  PROVE  IInv'
<1> USE DEF remote
<1>1. /\ Reset(s)
      /\ UNCHANGED <<mode, hasRecvFunc, remote, net, worker, poll, client, numSent>>
  BY DEF FlushRecvUDP
<1>2. PICK b \in BOOLEAN : adrift' = [adrift EXCEPT ![s] = b] /\ (Uses(s) => b)
  <2>1. (Uses(s) \/ (mode = "catchAllNo" /\ adrift[s])) \in BOOLEAN
    OBVIOUS
  <2> QED
    BY <2>1 DEF FlushRecvUDP
<1>3. /\ adrift' \in [Slots -> BOOLEAN] /\ (Uses(s) => adrift'[s])
      /\ \A r \in Slots : r # s => adrift'[r] = adrift[r]
  BY <1>2 DEF IInv, TypeOK
<1>4. TypeOK'
  BY <1>1, <1>3, ResetFacts DEF IInv, TypeOK
<1> QED
  BY <1>1, <1>3, <1>4, ResetKeeps

\* Clocks and counters start somewhere.
LEMMA FirstIsNat == \A m \in {"perClient", "catchAllNo"} : FirstIn(m) \subseteq Nat
BY StoresAssumption DEF FirstIn, INITIAL_COUNTER_VALUE

\* The next client of a slot finds it reset, and a worker with a datagram of the last
\* one has it adrift.
LEMMA DisconnectClientKeeps ==
  ASSUME IInv, NEW s \in Slots, DisconnectClient(s)
  PROVE  IInv'
<1>1. Reset(s) /\ UNCHANGED <<mode, hasRecvFunc, worker, poll>>
  BY DEF DisconnectClient
<1>2. PICK b \in BOOLEAN : adrift' = [adrift EXCEPT ![s] = b] /\ (Uses(s) => b)
  <2>1. Uses(s) \in BOOLEAN
    BY DEF Uses
  <2> QED
    BY <2>1 DEF DisconnectClient
<1>3. /\ adrift' \in [Slots -> BOOLEAN] /\ (Uses(s) => adrift'[s])
      /\ \A r \in Slots : r # s => adrift'[r] = adrift[r]
  BY <1>2 DEF IInv, TypeOK
<1>4. /\ client' \in [Slots -> Nat]
      /\ \A r \in Slots : r # s => client'[r] = client[r]
  BY DEF DisconnectClient, IInv, TypeOK
<1>5. clock' \in [Slots -> Nat] /\ sendCounter' \in [Slots -> Nat]
  <2>1. PICK c \in FirstIn("perClient"), n \in FirstIn("catchAllNo") :
          clock' = [clock EXCEPT ![s] = c] /\ sendCounter' = [sendCounter EXCEPT ![s] = n]
    BY DEF DisconnectClient
  <2>2. c \in Nat /\ n \in Nat
    BY FirstIsNat
  <2> QED
    BY <2>1, <2>2 DEF IInv, TypeOK
<1>6. net' \subseteq Datagrams /\ numSent' \in [Slots -> Nat]
  BY DEF DisconnectClient, IInv, TypeOK
<1>7. sending' \in [Slots -> [Threads -> Nat]]
  <2>1. [t \in Threads |-> 0] \in [Threads -> Nat]
    OBVIOUS
  <2> QED
    BY <2>1 DEF DisconnectClient, IInv, TypeOK
<1>8. TypeOK'
  BY <1>1, <1>3, <1>4, <1>5, <1>6, <1>7, ResetFacts DEF IInv, TypeOK
<1> QED
  BY <1>1, <1>3, <1>4, <1>8, ResetKeeps

\* The numbered mode clears the counter, and nothing was accepted or is being dealt
\* with since the queue was emptied, or the slot is adrift.
LEMMA EndResetKeeps ==
  ASSUME IInv, NEW s \in Slots, EndReset(s)
  PROVE  IInv'
<1>1. /\ reset[s] /\ mode = "catchAllNo"
      /\ counter \in [Slots -> Int] /\ adrift \in [Slots -> BOOLEAN]
      /\ reset \in [Slots -> BOOLEAN]
  BY DEF EndReset, IInv, TypeOK, ResetInSteps
<1>2. UNCHANGED <<mode, hasRecvFunc, remote, net, store, worker, poll, client, numSent,
                  last, resets>>
  BY DEF EndReset
<1>3. /\ counter' \in [Slots -> Int] /\ counter'[s] = INITIAL_COUNTER_VALUE
      /\ \A r \in Slots : r # s => counter'[r] = counter[r]
  BY <1>1 DEF EndReset, INITIAL_COUNTER_VALUE
<1>4. PICK b \in BOOLEAN :
        /\ adrift' = [adrift EXCEPT ![s] = b]
        /\ (adrift[s] \/ Uses(s) \/ last[s] # None) => b
  <2>1. (adrift[s] \/ Uses(s) \/ last[s] # None) \in BOOLEAN
    OBVIOUS
  <2> QED
    BY <2>1 DEF EndReset
<1>5. /\ adrift' \in [Slots -> BOOLEAN]
      /\ (adrift[s] \/ Uses(s) \/ last[s] # None) => adrift'[s]
      /\ \A r \in Slots : r # s => adrift'[r] = adrift[r]
  BY <1>1, <1>4
<1>6. /\ reset' \in [Slots -> BOOLEAN] /\ ~reset'[s]
      /\ \A r \in Slots : r # s => reset'[r] = reset[r]
  BY <1>1 DEF EndReset
<1>7. TypeOK'
  BY <1>2, <1>3, <1>5, <1>6 DEF IInv, TypeOK, remote
<1>8. NewestStored' /\ ResetInSteps'
  BY <1>1, <1>2 DEF IInv, NewestStored, ResetInSteps
<1>9. OfThisClient'
  BY <1>2, <1>5 DEF IInv, OfThisClient, Uses
<1>10. PlacesOfModes' /\ NoAge'
  BY <1>1, <1>2 DEF IInv, PlacesOfModes, NoAge, Prefix
<1>11. AgeKept'
  <2> SUFFICES ASSUME NEW r \in Slots, (KeepsAge /\ Settled(r))'
               PROVE  AgeAt(r)'
    BY DEF AgeKept
  <2>1. CASE r # s
    BY <1>2, <1>3, <1>5, <1>6, <2>1, SlotKept DEF IInv
  <2>2. CASE r = s
    <3>1. ~Uses(r) /\ last[r] = None
      BY <1>5, <2>2 DEF Settled
    <3>2. counter'[r] = Expected(r)'
      BY <1>1, <1>2, <1>3, <2>2, <3>1 DEF Expected, Cleared
    <3>3. ~Uses(r)'
      BY <1>2, <3>1 DEF Uses
    <3> QED
      BY <3>2, <3>3 DEF AgeAt
  <2> QED
    BY <2>1, <2>2
<1> QED
  BY <1>7, <1>8, <1>9, <1>10, <1>11 DEF IInv

-----------------------------------------------------------------------------
(***************************************************************************)
(* The invariant, and what follows from it.                                *)
(***************************************************************************)
\* A new socket has received nothing.
LEMMA InitIInv == Init => IInv
<1> SUFFICES ASSUME Init
             PROVE  IInv
  OBVIOUS
<1> USE DEF Init
<1>1. worker \in WorkerStates /\ worker.pc = "idle"
  BY LetsGo
<1>2. Cleared \in Nat
  BY DEF Cleared, INITIAL_COUNTER_VALUE
<1>3. /\ mode \in {"perClient", "catchAll", "catchAllNo"}
      /\ clock \in [Slots -> Nat] /\ sendCounter \in [Slots -> Nat]
  BY StoresAssumption, FirstIsNat
<1>4. /\ store \in [Slots -> Seq(Datagrams)] /\ counter \in [Slots -> Int]
      /\ last \in [Slots -> Datagrams \cup {None}]
      /\ sending \in [Slots -> [Threads -> Nat]]
  BY <1>2
<1>5. TypeOK
  BY <1>1, <1>3, <1>4 DEF TypeOK
<1>6. NewestStored /\ OfThisClient /\ ResetInSteps
  BY <1>1 DEF NewestStored, OfThisClient, ResetInSteps, Uses
<1>7. PlacesOfModes /\ NoAge
  BY <1>1 DEF PlacesOfModes, NoAge, Cleared
<1>8. AgeKept
  BY <1>1 DEF AgeKept, AgeAt, Uses, Expected
<1> QED
  BY <1>5, <1>6, <1>7, <1>8 DEF IInv

\* Every step of the programs, the worker and the user keeps it.
LEMMA NextIInv == IInv /\ [Next]_vars => IInv'
<1> SUFFICES ASSUME IInv, [Next]_vars
             PROVE  IInv'
  OBVIOUS
<1>1. ASSUME NEW s \in Slots,
             \/ Tick(s) \/ FlushAtClient(s)
             \/ \E t \in Threads : GetSendObject(s, t)
             \/ BeginGet(s) \/ EndGet(s)
             \/ FlushRecvUDP(s) \/ DisconnectClient(s) \/ EndReset(s)
      PROVE  IInv'
  BY <1>1, TickKeeps, FlushAtClientKeeps, GetSendObjectKeeps, BeginGetKeeps, EndGetKeeps,
     FlushRecvUDPKeeps, DisconnectClientKeeps, EndResetKeeps
<1>2. CASE \E d \in net : Receive(d)
  BY <1>2, ReceiveKeeps
<1>3. CASE IgnoreConnectionPacket \/ Compare \/ GuessWrap \/ SetRecvCounter \/ PacketDone
  BY <1>3, IgnoreConnectionPacketKeeps, CompareKeeps, GuessWrapKeeps, SetRecvCounterKeeps,
     PacketDoneKeeps
<1>4. CASE UNCHANGED vars
  <2>1. TypeOK'
    BY <1>4 DEF vars, remote, store_, history, IInv, TypeOK
  <2> QED
    BY <1>4, <2>1, NothingHappens DEF vars, store_, history
<1> QED
  BY <1>1, <1>2, <1>3, <1>4 DEF Next

\* The invariant holds for any number of clients, threads and datagrams and for every
\* modulus.
THEOREM Inductive == Spec => []IInv
BY InitIInv, NextIInv, PTL DEF Spec

\* Every variable keeps its type.
THEOREM TypeCorrect == Spec => []TypeOK
<1>1. IInv => TypeOK
  BY DEF IInv
<1> QED
  BY <1>1, Inductive, PTL

\* The counter of a slot is the age of the last datagram accepted from the client that
\* has the slot now, or cleared, and the newest datagram stored is that one (Reset,
\* SetAge, recvCounter, PacketDone).
THEOREM CounterIsOfLastHolds == Spec => []CounterIsOfLast
<1>1. IInv => CounterIsOfLast
  <2> SUFFICES ASSUME IInv, NEW s \in Slots, KeepsAge, Settled(s), ~Uses(s)
               PROVE  /\ counter[s] = IF last[s] = None THEN Cleared ELSE Prefix(last[s])
                      /\ last[s] # None => last[s].client = client[s]
                      /\ store[s] # <<>> => store[s][Len(store[s])] = last[s]
    BY DEF CounterIsOfLast
  <2>1. counter[s] = IF last[s] = None THEN Cleared ELSE Prefix(last[s])
    BY DEF IInv, AgeKept, AgeAt, Expected
  <2>2. last[s] # None => last[s].client = client[s]
    BY DEF IInv, OfThisClient, Settled
  <2>3. store[s] # <<>> => store[s][Len(store[s])] = last[s]
    BY DEF IInv, NewestStored
  <2> QED
    BY <2>1, <2>2, <2>3
<1> QED
  BY <1>1, Inductive, PTL

\* Only a guess refuses a datagram for its age, and only the end of dealing with one
\* makes it the last.
LEMMA WhoDecides ==
  ASSUME IInv, [Next]_vars
  PROVE  /\ worker.pc = "guess" /\ worker'.pc = "idle" => GuessWrap
         /\ \A s \in Slots : last'[s] # last[s] /\ last'[s] # None => PacketDone
<1> USE DEF remote, store_, history
<1>1. ASSUME NEW s \in Slots,
             \/ Tick(s) \/ FlushAtClient(s)
             \/ \E t \in Threads : GetSendObject(s, t)
             \/ BeginGet(s) \/ EndGet(s) \/ EndReset(s)
      PROVE  worker' = worker /\ last' = last
  BY <1>1 DEF Tick, FlushAtClient, GetSendObject, BeginGet, EndGet, EndReset
<1>2. ASSUME NEW s \in Slots, FlushRecvUDP(s) \/ DisconnectClient(s)
      PROVE  /\ worker' = worker
             /\ \A r \in Slots : last'[r] = last[r] \/ last'[r] = None
  <2>1. worker' = worker /\ mode' = mode /\ Reset(s)
    BY <1>2 DEF FlushRecvUDP, DisconnectClient
  <2> QED
    BY <2>1, ResetFacts DEF IInv
<1>3. ASSUME NEW d \in net, Receive(d)
      PROVE  worker.pc = "idle" /\ last' = last
  BY <1>3 DEF Receive
<1>4. CASE IgnoreConnectionPacket \/ Compare \/ SetRecvCounter
  BY <1>4 DEF IgnoreConnectionPacket, Compare, SetRecvCounter
<1>5. CASE GuessWrap
  BY <1>5 DEF GuessWrap
<1>6. CASE PacketDone
  BY <1>6 DEF PacketDone
<1>7. CASE UNCHANGED vars
  BY <1>7 DEF vars
<1> QED
  BY <1>1, <1>2, <1>3, <1>4, <1>5, <1>6, <1>7 DEF Next

\* A datagram that is refused for its age is not newer, but by half of the range, or its
\* clock is farther from the last than a clock_t holds.
LEMMA RefusedIsOld ==
  ASSUME IInv, GuessWrap, worker'.pc = "idle", NEW s \in Slots, Uses(s), Settled(s)
  PROVE  \/ mode = "perClient" /\ AgeOfLast(s) - Prefix(worker.d) >= W \div 2
         \/ /\ KeepsAge /\ last[s] # None
            /\ \/ worker.d.time <= last[s].time
               \/ worker.d.time - last[s].time > W \div 2
<1>1. /\ worker.pc = "guess" /\ worker.d \in Datagrams /\ s = worker.d.slot
      /\ Prefix(worker.d) \in Int /\ Prefix(worker.d) # 0
      /\ counter[s] \in Int /\ last[s] \in Datagrams \cup {None}
      /\ mode \in {"perClient", "catchAllNo"} /\ worker \in WorkerStates
  BY WorkerFacts, DatagramFacts DEF IInv, TypeOK, PlacesOfModes, GuessWrap, Uses
<1>2. KeepsAge => counter[s] = Expected(s) /\ ~IsNew(counter[s], Prefix(worker.d))
  BY <1>1 DEF IInv, AgeKept, AgeAt
<1>3. counter[s] = AgeOfLast(s)
  <2>1. CASE KeepsAge
    BY <1>2, <2>1 DEF AgeOfLast, Expected
  <2>2. CASE ~KeepsAge
    <3>1. mode = "perClient" /\ hasRecvFunc
      BY <1>1, <2>2 DEF KeepsAge
    <3> QED
      BY <2>2, <3>1 DEF IInv, NoAge, AgeOfLast, Cleared
  <2> QED
    BY <2>1, <2>2
<1>4. ~LooksWrapped(counter[s], Prefix(worker.d)) \/ Overflows(counter[s], Prefix(worker.d))
  <2> SUFFICES ASSUME ~(~LooksWrapped(counter[s], Prefix(worker.d))
                          \/ Overflows(counter[s], Prefix(worker.d)))
               PROVE  FALSE
    OBVIOUS
  <2>1. PICK p \in Places : worker' = [worker EXCEPT !.pc = p] /\ p # "idle"
    <3>1. worker' = [worker EXCEPT !.pc = IF mode = "perClient" THEN "done" ELSE "compare"]
      BY <1>1 DEF GuessWrap
    <3> QED
      BY <3>1 DEF Places
  <2> QED
    BY <1>1, <2>1, GoesOn
<1>5. CASE Overflows(counter[s], Prefix(worker.d))
  BY <1>3, <1>5 DEF Overflows
<1>6. CASE ~LooksWrapped(counter[s], Prefix(worker.d))
  <2>1. ASSUME mode = "perClient", counter[s] = 0, Prefix(worker.d) < 0
        PROVE  FALSE
    <3>1. HalfOf(0) = 0
      BY DEF HalfOf
    <3>2. ~(0 - Prefix(worker.d) > 0)
      BY <1>6, <2>1, <3>1 DEF LooksWrapped
    <3> QED
      BY <1>1, <2>1, <3>2
  <2>2. KeepsAge
    <3> SUFFICES ASSUME ~KeepsAge
                 PROVE  FALSE
      OBVIOUS
    <3>1. mode = "perClient" /\ hasRecvFunc
      BY <1>1 DEF KeepsAge
    <3> QED
      BY <1>1, <2>1, <3>1 DEF IInv, NoAge
  <2>3. last[s] # None
    <3> SUFFICES ASSUME last[s] = None
                 PROVE  FALSE
      OBVIOUS
    <3>1. counter[s] = Cleared /\ ~IsNew(Cleared, Prefix(worker.d))
      BY <1>2, <2>2 DEF Expected
    <3>2. CASE mode = "perClient"
      BY <1>1, <2>1, <3>1, <3>2 DEF Cleared, IsNew
    <3>3. CASE mode = "catchAllNo"
      <4>1. Prefix(worker.d) \in Nat
        BY <1>1, <3>3, AgeOfTime
      <4> QED
        BY <1>1, <3>1, <3>3, <4>1 DEF Cleared, IsNew, INITIAL_COUNTER_VALUE
    <3> QED
      BY <1>1, <3>2, <3>3
  <2>4. last[s] \in Datagrams /\ counter[s] = Prefix(last[s]) /\ Prefix(last[s]) \in Int
    BY <1>1, <1>2, <2>2, <2>3, DatagramFacts DEF Expected
  <2>5. Prefix(worker.d) <= Prefix(last[s])
    BY <1>1, <1>2, <2>2, <2>4 DEF IsNew
  <2>6. \/ worker.d.time <= last[s].time
        \/ worker.d.time - last[s].time > W \div 2
    BY <1>1, <1>6, <2>4, <2>5, WrappedFollows
  <2> QED
    BY <2>2, <2>3, <2>6
<1> QED
  BY <1>4, <1>5, <1>6

\* No datagram that is newer than the last one accepted is refused for its age, unless
\* half of the range lies between them or a clock passed its top and the difference is
\* more than a clock_t holds, and datagrams are accepted in order, except for one that
\* is taken for one after a wrap (the comparisons in DealWithData).
THEOREM AgeDecidesHolds == Spec => AgeDecides
<1>1. IInv /\ [Next]_vars =>
        [\A s \in Slots :
          (Refuses(s) /\ Settled(s)) =>
            \/ mode = "perClient" /\ AgeOfLast(s) - Prefix(worker.d) >= W \div 2
            \/ /\ KeepsAge /\ last[s] # None
               /\ \/ worker.d.time <= last[s].time
                  \/ worker.d.time - last[s].time > W \div 2]_vars
  BY WhoDecides, RefusedIsOld DEF Refuses
<1>2. IInv /\ [Next]_vars =>
        [\A s \in Slots :
          (KeepsAge /\ Settled(s) /\ last'[s] # last[s] /\ last[s] # None /\ last'[s] # None) =>
            \/ last'[s].time >= last[s].time
            \/ last[s].time - last'[s].time > HalfOf(Prefix(last[s]))]_vars
  <2> SUFFICES ASSUME IInv, [Next]_vars, NEW s \in Slots, KeepsAge, Settled(s),
                      last'[s] # last[s], last[s] # None, last'[s] # None
               PROVE  \/ last'[s].time >= last[s].time
                      \/ last[s].time - last'[s].time > HalfOf(Prefix(last[s]))
    OBVIOUS
  <2>1. PacketDone
    BY WhoDecides
  <2>2. s = worker.d.slot /\ last'[s] = worker.d
    BY <2>1 DEF PacketDone, IInv, TypeOK
  <2>3. Follows(worker.d, last[s])
    BY <2>1, <2>2 DEF PacketDone, IInv, AgeKept, AgeAt, Uses
  <2> QED
    BY <2>2, <2>3 DEF Follows
<1> QED
  BY <1>1, <1>2, Inductive, PTL DEF Spec, AgeDecides

===============================================================================
