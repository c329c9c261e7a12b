# TLA+ models of MikeNet

MikeNet is a C++ networking library for Windows: overlapped winsock operations whose
completions are dealt with by the worker threads of one completion port, a server and a
client that shake hands over TCP and UDP, packets and how they are framed and ordered, and
worker threads for NAT traversal, encryption and sound. This directory models the library,
checks the models with TLC, and proves theorems about them with TLAPS.

File names without a directory are those of `src/MikeNet`.

## 1. Inventory

| Component | State it keeps | Operations | Interacts with |
|---|---|---|---|
| Message threads: `ThreadMessageItem`, `ThreadSingleMessage(KeepLast)`, `UpnpNatCommunication`, `UpnpNatActionThread` | two events per message, message queue, ready and running flags, last message | post, wait for last, poll last, terminate; thread: get, act, clean up | the message object is shared by sender and thread and deleted by whoever leaves last |
| NAT traversal: `UpnpNatAction`, `UpnpNatPortMapAction`, `mnNAT` | copy of the router's port maps | start, update, add, change, delete, read, poll, finish | a message thread; router (external) |
| Socket life cycle: `NetSocket`, `NetSocketTCP/UDP/Simple`, `NetSend`, `NetManageCompletionPort` | winsock handle, receive buffer and event, send cleanup vector and its size, flags `notDealingWithData`, `completionPortCloseNotification` | Recv, Send, RemoveSend, DealWithData, GetCompletionPortCloseRequest, Close | winsock completes, workers clean up, owner closes |
| Server: `NetInstanceServer`, `NetServerClient`, `NetSocketListening` | per client ID: connection state, codes, UDP address, socket; vector sorted by address; disconnect list | ClientJoined, ClientLeft, DisconnectClient, SendTCP, DealCompletion, CompletionError, DoRecv | program thread, workers, remote programs |
| Client: `NetInstanceClient` | connection status, handshake thread, timeout, receive function | Connect, PollConnect, StopConnect, ThreadHandshakeRoutine, ErrorOccurred, RecvTCP | its server, workers, a thread of its own |
| Profiles and other instances: `NetInstanceProfile`, `NetInstanceTCP/UDP/Broadcast` | options, pointer to a key, one socket | set, get, copy, compare options; start instances | instances read options and copy the key |
| Containers: `NetInstanceContainer`, `NetInstanceGroup`, `NetUtility` | instance slots, destroy requests, whether the module is active | Start, Finish, load, look up, kill | workers request, the program's thread destroys |
| Shared worker threads: `ThreadSingleMessageKeepLastUser`, `ThreadSingleGroup` | usage count, threads per class, last messages per object | SetupThreads, CleanupThreads, post to all | objects of one class on any thread |
| Packets: `Packet` | block of memory, cursor, used size | add, get, erase, insert, copy, find | program threads |
| Encryption: `EncryptionThread`, `ThreadMessageItemEncrypt`, `EncryptKey` | last messages, round keys | Encrypt, Decrypt, wait, poll | shared worker threads |
| TCP framing: `NetModeTcp*` | partial packet, queue of complete ones | DealWithData, GetPacketFromStore, resize, close | socket, user function |
| UDP packet stores: `NetModeUdp*` | packets by client and operation, their ages | DealWithData, GetPacketFromStore, Reset | socket, server |
| Packet memory: `MemoryRecyclePacket*`, `MemoryUsage*` | recycled packets, sizes and limits | GetPacket, RecyclePacket | framing, stores |
| Sound: `SoundInstance*`, `SoundUtility`, `mnSound` | buffers in use, stored packets, slots | start, pause, play, get data, finish | shared threads, devices (external) |
| Completion port: `CompletionPort`, `CompletionKey` | the port, its threads | post, dequeue, TerminateFriendly | everything above |
| Locks: `ConcurrencyControl(Simple)`, `CriticalSection`, `ConcurrentObject` | readers, writers, sections | enter, leave | everything above |
| Collections: `StoreVector`, `StoreQueue` | owned pointers, links | allocate, erase, sort, copy, find | everything above |
| Counters, timers, wrappers (`mn*`, `mnCLRWrapper`, `mnDBPWrapper`) | little | argument checks | |

What is hard, and where: the hand-over of an object's deletion between two threads; the
order of the completion port's calls against `Close`; work that a worker still has in hand
when the object or the client ID it belongs to has a new life; locks held while waiting for
other threads, and pairs of locks taken in either order; datagrams that arrive late, twice
or never, with ages that wrap; streams cut anywhere; exceptions half way through an
operation; a send that times out while winsock still works on it; objects with two owners.
`PROJECT.json` lists each of these at its line under `hazards`, with the properties that
cover it or the reason why none does.

What makes the components correct: nothing is used after it was deleted and nothing leaks;
winsock's buffers and overlapped objects outlive their operations; `Close` leaves nothing
behind and comes back; a client ID is free exactly when its last client is gone; joins and
leaves alternate; packets come out whole and in order; what is refused as old is old; who
writes is alone; every call returns.

## 2. Modules

| Module | Models | Checked through |
|---|---|---|
| `MessageOwnership` | what a message item promises (abstract) | `ThreadMessage` |
| `ThreadMessage` | one message thread and its sender | `Nat` |
| `Nat`, `NatMC`, `ThreadMessageProofs` | what the messages do: NAT traversal, with `ThreadMessage`'s actions | run `nat` |
| `NetSocket`, `NetSocketMC`, `NetSocketProofs` | one stand-alone socket with its workers, senders and owner | `net_socket`, `net_socket_live` |
| `NetServer`, `NetServerMC`, `NetServerProofs` | a server, its client IDs, its workers and remote programs | `net_server`, `net_server_live` |
| `NetClient`, `NetClientMC`, `NetClientProofs` | a client instance, its handshake thread, workers and server | `net_client` |
| `TcpFraming` | the three TCP modes of one socket and their memory | `tcp_framing` |
| `UdpStores`, `UdpStoresProofs` | the three UDP stores of one client and operation | `udp_stores` |
| `PacketText` | what a packet promises: a text with a cursor (abstract) | `Packet` |
| `Packet`, `CommandsProofs` | packets in memory under every command | `commands` |
| `Commands`, `CommandsMC`, `CommandsProofs` | module, instance slots, completion ports over restarts | `commands`, `commands_load` |
| `SharedThreads`, `Encryption`, `Sound`, `Aes` | the shared threads and their users; the cipher | `Helpers` |
| `ThreadUsers`, `ThreadUsersProofs` | the shared threads with packets and sound as their users | `Helpers` |
| `Helpers`, `HelpersMC` | `ThreadUsers` and the cipher side by side | `helpers` |
| `Profile` | profiles and decryption keys | `Foundations` |
| `ReadersWriters` | what a reader/writer lock promises (abstract) | the two locks |
| `ConcurrencyControl`, `ConcurrencyControlSimple` | the two reader/writer locks | `Foundations` |
| `Stores`, `ConcurrentObject` | collections; objects with a section | `Foundations` |
| `Foundations`, `FoundationsMC`, `FoundationsProofs` | the parts that use no state of each other, side by side | `foundations` |

The `MC` modules only add constant values, symmetry and views for TLC; `CommandsMC` also puts the
commands on instances and those on packets side by side, as `Foundations` does (section 2). Each module ends with
its properties; an operator named in a comment as a *mutated form* is a plausible bug, used
to see that a property notices it, and not part of the specification.

### ThreadMessage and Nat

The sender is the thread that owns a `UpnpNatCommunication` object; the thread runs
`UpnpNatActionThread`. `life` is the heap (an item is unborn, live, freed, or corrupt when it
was deleted twice), `inUseByThread` and `inUseBySender` are the negated events of
`ThreadMessageItem`, `queue` is the thread's message queue. `senderPC` and `threadPC` cut the
code at the points where the other side can come in between: every critical section is one
step, and so are the two halves of "decide who cleans up, then delete". `ThreadStartFails` is
the NAT object that cannot be built: the thread ends, and the sender waits for it to be ready
for ever. That is why deadlock is not checked: the code does stop.

`Nat` gives the messages their actions. The commands that change something post a message
(`StartNAT`, `UpdateNAT`, `AddPortMap`, `SetPortMap`, ...), those that read look at the port
maps directly, beside the thread that may delete them (`Fetch`, `Read`, `UsePortMap`). Each
call of an action to the router may fail and leave the copy stale; the calls of `UpdateInfo`
are one step, since nobody else calls the router. A port map is its key and one value that stands for all that can be
set. `ExtractLastMessage`, which nothing calls, is left out.

### NetSocket

Winsock is external: `CompleteRecv` and `CompleteSend` end an operation with success, an error
or, once the handle is closed, an abort, signal its event and queue a packet. A worker takes a
packet (`GetCompletionStatus`) and goes through the branch of `NetManageCompletionPort` for
stand-alone sockets, one step for each call that another thread can observe. A sending thread
goes through `Send` and holds the send's own critical section from `AddSend` on, as the code
does; `RemoveSend` waits for it inside the vector's critical section (`WorkerFindSend`,
`WorkerRemoveSend`, `CallerFindSend`, `CallerRemoveSend`). The owner starts the first receive,
polls for close requests in two steps, and goes through the three waits of `Close`.

Assumed of the program: the owner calls `Close` only while no thread is inside `Send`, and
does not use the socket from a worker thread. Assumed of the environment: a new send is not
placed at the address of one deleted earlier, and the completion port is set up. Left out:
the bytes, socket options, copies, graceful disconnection.

### NetServer

Each client ID is a slot that client after client uses; the model follows it through
`NOT_CONNECTED`, `CONNECTING`, `CONNECTED_AC`, `CONNECTED` and `DISCONNECTING`.

| Actions | Code |
|---|---|
| `StartClientJoined`, `ScanClient`, `NotifyCompletion`, `Announce`, `AcceptNone/Refuses/Throws/Connection`, `FirstRecv`, `FirstRecvFailed`, `SendHandshakingPacket` | `ClientJoined`, cut at every call that a worker can race |
| `DisconnectClient`, `Disconnect`, `Closed` | `DisconnectClient`, and the disconnection after a failed handshake; between the last two the lock of the sorted vector is held |
| `RecvFailed`, `DealWithDataTCP`, `WorkerErrorOccurred`, `DoRecv`, `CompletedSendOperation` | a worker with a packet of a client's TCP socket |
| `TakeDatagram`, `FindClient`, `DealWithDataUDP`, `DealHandshake`, `WorkerErrorOccurredUDP` | a worker with a packet of the UDP socket |
| `Connect`, `PeerLeaves`, `CompleteRecvUDP` | what the server sees of `NetInstanceClient::ThreadHandshakeRoutine` |

`reported` counts, for each ID, the joins that `ClientJoined` returned less the leaves put on
the disconnect list. `lastAborted` is the worker's last winsock error, which decides whether a
receive of no bytes counts as a shutdown. `Close`, `Recv` and `CompletedSendOperation`, which
`NetSocket` models in steps, are one step each. Codes are represented by the peer they were
generated for. Left out: graceful disconnection, the mode without handshake, broadcast,
destruction of the server.

### NetClient

From `mn::Connect` to the destruction of the instance, and again. `connectionStatus` is shared
by the program, the handshake thread (`HandshakePollConnect`, `HandshakeRecv`,
`HandshakeWelcome`, `HandshakeConfirm`, each of which may throw) and the workers
(`WorkerTakesPacket`, `GetRecvFunction`, `DealWithData`, `WorkerRecv`, `CompletionError`).
During the handshake the user's receive function is taken off the socket;
`PollConnect`, `RestoreRecvFunction`, `PassOn` and `FirstRecv` give it back and pass on what
came meanwhile. One receive completes with one packet: framing is `TcpFraming`'s subject.

### TcpFraming and UdpStores

A byte of the stream is what it is: part of a size prefix, of data or of a postfix. A worker
appends what a receive returned (`AppendData`), finds packets (`ScanPrefix`, `ScanPostfix`,
`RawData`), stores them (`PacketDone`) and erases them (`EraseDone`); other threads poll,
clear, resize, reconfigure and close. `MemorySize` and the bin of recycled packets are those
of `MemoryRecyclePacket`. Whatever takes memory compares it with the limit in one step and
takes it in another (`Found` and `TakeMemory`, `GrowFor` and `Grow`, `CheckResize` and
`ApplyResize`), because `SetMemoryLimit` needs none of the locks held in between; `BinFree` is the
lock of the bin, which recycling does need.

A datagram's age is a word of `W` values that wraps: an unsigned counter, or a clock, which is of
the signed type `clock_t`, so that it is negative after its top (`Prefix`). `Compare` and `GuessWrap`
are the code's comparison and its guess whether the number wrapped. Where the difference of two
clocks overflows, which C++ leaves undefined, both outcomes are possible (`Overflows`).
`DisconnectClient` gives the slot to the
next client while a datagram of the last one is in a worker's hands.

### Packet and PacketText

`PacketText` is the promise of Packet.h:13-45, a text with a cursor, as in a word processor.
`Packet` has memory: blocks that grow, are kept, shrunk, given away and copied. A command on
one packet holds its lock and is one step; one on two packets takes their locks in two steps.
The model is checked with one thread: two threads that copy and add between two packets in
opposite directions can wait for each other (a hazard listed without a property). The head of
a packet (client, operation, instance, age) is one value.

### Commands

The module is started, restarted and finished; instances live in slots and have completion
ports whose threads run receive functions, which use commands themselves, with the ID of any
instance (`Access`); the lookup takes no lock of the instance, but the section of the group's
vector (`EnterGroup`), which the main thread holds while it deletes all instances. An instance
is deleted in three steps: its destructor closes sockets and waits for its own functions
(`BeginKill`, `EndKill`), and its slot is emptied (`Forget`). A worker is told from the main thread by its
thread-local storage (`MayKill`). Functions are assumed not to make instances, and not to start
or finish the whole module. The typed lookups of `mnCommands.cpp` are one action each, and
what a command then does is the subject of the other modules.

### Helpers: SharedThreads, Encryption, Sound, ThreadUsers, Aes

`SharedThreads` has the two critical sections of `ThreadSingleMessageKeepLastUser`, the one of
the class and the one of the threads, taken in opposite order by `SetupThreads` and
`CleanupThreads`; an item is in use by its thread until it is decided about, and whoever looks
last deletes it, as `ThreadMessage` models in detail. `Encryption` posts one item per thread,
each of which works on every n-th chunk; `Sound` has buffers that go from the instance to the
device, come back in a callback and are handed out again; `ThreadUsers` composes the three, and
is what the proofs are about; `Aes` is what happens to one chunk,
round by round, with the S-boxes and the key expansion of the source. `careless`, `rash`,
`overlapped` and `fails` record that a program or a device did what the code does not survive;
the properties name them, so what can go wrong and why is visible.

### Foundations: Profile, locks, Stores, ConcurrentObject

`Profile` knows of each option whether it has its default, another value, the one meant for a
different option, or what was in memory; the commands are one action each, with the swaps and
omissions of the source. `ReadersWriters` is implemented by both locks. `Stores` has vectors
and queues that own, link and copy pointers; `excused` gives at each place what a store does
not survive. Operations that leave a section half way take two steps: those with two stores,
and `Exists` of a constant vector, which reads the objects after it left the section
(`StartExists`, `VectorExists`). In free programs all objects have one value; sorting different
values is part of the classes' tests. Some behaviours of `Stores` and `ConcurrentObject` are the classes' own tests.
`InsertAllocate` and `Insert` of `StoreVector` (586-632) name an undeclared member and cannot be
instantiated, so there is nothing to model. Destroying a lock is left out.

`Foundations` gives each behaviour one `subject`. The parts share no variable, so the view
`OfSubject` may forget the others, which stay as they began; the two stores of a free program
are interchangeable, and so are the two profiles, so `Alike` is a symmetry.

## 3. Runs

| Run | Question | Bounds |
|---|---|---|
| `nat` | is every message deleted once, after it was acted on, by someone; does termination come back; is `MessageOwnership` implemented; is the copy of the port maps the router's | 3 messages, 2 keys, 1 value to set, IDs 0 and 1, with and without a router |
| `net_socket` | buffers, send objects, `Close`, memory accounting | 2 workers, 2 senders, 2 sends, one with a timeout, TCP and UDP, memory for one send |
| `net_socket_live` | does `Close` return, are sends cleaned up | 1 worker, 1 sender, 2 sends, UDP |
| `net_server` | are client IDs reused cleanly, do joins and leaves alternate, is the vector sorted | 2 remote programs, 1 worker, 1 send per client, 2 packets at the port; 1 ID with UDP or 2 without |
| `net_server_live` | do `ClientJoined` and `DisconnectClient` return | 1 ID with UDP, 1 remote program, 2 workers |
| `net_client` | do attempts end, do answers agree with the server, does data arrive in order, are lost instances destroyed | every combination of UDP, graceful disconnection, receive function and server; 2 packets, 2 connects |
| `tcp_framing` | are packets found whole and in order, is memory counted and kept to the limit it was checked with | 2 packets of 0, 1 or 3 bytes, 3 modes, 4 bytes per receive, buffer of 3, 4 or 6, limit 8 or none |
| `udp_stores` | is the counter the age of the last datagram, is what is refused old | 3 modes, 1 slot, 2 threads, 4 datagrams for each client, 2 resets; words of 8 values; counters and signed clocks start at 1 and at 6, clocks go to 9 |
| `commands` | does a function find its own instance, does only the main thread delete, is every instance served; is a packet a text with a cursor, does no command leave its block | 2 slots and 1 ID without a slot, 2 objects, 1 worker for each of 3 ports; 2 packets of at most 3 and 1 bytes, one thread |
| `commands_load` | does loading replace what is in a slot (it does not) | as `commands` |
| `helpers` | usage counts, use after destruction, order of chunks and sound data, hangs, cipher | 2 packets, 2 inputs, 2 outputs or one of each; 2 packet threads, 1 sound thread, 2 callers, 2 buffers, 2 pauses, 1 failure |
| `foundations` | options, keys, locks, collections | 2 profiles, 1 key; 3 threads with 2 levels of read and of write control; 2 stores of 3 objects; 2 cells, 2 workers |

The run `commands_load` violates the property it checks, `LoadingReplaces`, which is a
statement of the repository that the code does not keep; `PROJECT.json` quotes it under
`findings`. All others pass, and the mutants in `PROJECT.json` show for each of their properties a
plausible bug that breaks it.

Why these bounds are enough for the cases that matter. Three messages give a previous, a
current and a next one in every phase of the thread, next to the stop request. Two workers
and two senders let a cleanup of one send meet the other send, and a second receive start
while the first one's data is dealt with; one send blocks and times out while the other fills
the memory limit. Two remote programs for one ID make it be reused; two IDs make a call of
`ClientJoined` pass a client to announce and one to accept, and skip one that waits. The
completion port holds at most two packets in `net_server` (`MaxPort`): a completion that
would be a third one comes later, which winsock may always do. A counter
modulo 8 that starts at 6, because the datagrams before were lost, wraps over the 0 that is ignored
and goes on; a clock of as many values that starts at 1 passes its top at 4, and one that
starts at 6 is negative and comes back to zero. Datagrams can be late by less and by more than
half the range.
Two slots let the function of one instance use the other, or meet it while it is deleted. A receive of four
bytes is shorter than a packet with its prefix and longer than two small ones. Three threads
with two levels each are what an upgrade needs to meet a reader and a second upgrade. Two
pauses let a second one come while buffers of the first are on their way.

In `commands` the view `WithoutLast` leaves out the name of the last command on packets, which no
guard reads. Deadlock is not checked in any run, because each of the systems may come to rest: the
sender is done, the socket is closed, the thread never started, no program connects. That
nothing hangs is therefore stated: `NothingHangs` says that while a call is under way some
step of `Proceed` can be taken, and each of those brings a call nearer to its end, so none
waits for ever unless a named exception holds.

### What the models show of the code

These are disagreements with the documentation, or weaknesses, that the models have as the
code has them. The properties except them by name where they matter.

* `PollNAT` returns that the action is *in use* where the documentation says *finished*
  (mnNAT.cpp:553), and mnNAT.cpp:219 passes `block` where an ID is meant.
* A worker uses the socket after `Close` returned (NetCompletionPortFunction.cpp:156 against
  the comment at NetSocket.cpp:215); a blocking send that times out is deleted with its
  overlapped operation pending; a send's event is signaled for failure too.
* `DisconnectClient` holds the lock of the address vector while `Close` waits for workers; with
  a single worker, which waits for that lock, both wait for ever. `ClientJoined` may mark a
  client connected and then throw: only its leave is reported. The codes of the last client
  are valid until the new ones are stored.
* A client may be CONNECTED for its program though REFUSED (NetInstanceClient.cpp:459-478); a
  failed `mn::Connect` leaves its instance behind.
* The memory limit is compared before memory is taken: one that was lowered in between is exceeded
  without an exception, where MemoryUsageRestricted.h:16 says "IncreaseMemorySize and
  DecreaseMemorySize will throw an exception if this is exceeded". `MemoryAccounted` speaks of the
  limit it was compared with.
* After the top of a sender's clock `NetModeUdpPerClient` refuses what is newer, for up to half of
  the range, where the comment says that a clock that "looped back round" is recognised
  (NetModeUdpPerClient.cpp:260-263; the overflow in `AgeDecides`); and with a negative age stored it accepts any older datagram.
* A receive function may use an instance that the main thread deletes, unless it is its own
  (`CommandsUseLiveInstances`), where NetInstanceContainer.h:4-10 promises "safe shutdown of instance" and
  methods to take control of it that the class does not have; loading an instance into a slot that is taken
  throws and leaks, where five commands promise that one already loaded "will be deactivated and
  overwritten" (run `commands_load` against mnCommands.cpp:70, 118, 162, 223, 280); finishing or restarting the module while a receive function
  uses a command may never end, as the vector of the group is in its section while it is cleared
  (StoreVector.h:743), where NetInstanceGroup.h:8 says "This class is thread safe".
* Datagrams of equal age are accepted by `NetModeUdpCatchAllNo` (`>=`) against its comment;
  the connection packet is leaked by `NetModeUdpPerClient`.
* A packet's cursor moves although the read fails; `ComparePacketString` accepts a trailing
  null; memory given away is still pointed to.
* Profiles: `SetProfileBufferSizes` swaps its arguments; copies of profiles share a key and
  free it twice; limits of a profile that was copied into are those of other options; profiles
  that differ in limits, or in the packet size of a recycle that keeps none, compare as equal, where
  NetInstanceProfile.cpp:86-87 says "return false if a is different in any way to this object".
* Shared threads: setup and cleanup take two sections in opposite order and race on the
  count; an object destroyed before its last item ended is used after it is gone; `Encrypt`
  without threads succeeds and does nothing; `RotateWordLeft` reads a byte too many.
* Stores: assignment to a linked vector deletes the original's objects; copies of linked
  vectors are never freed. `Exists` of a constant vector reads the objects after it left the section
  (StoreVector.h:427), so one that another thread has deleted meanwhile is read, though "the vector
  itself is thread safe" (:12). `StoreVector(bool)` links the vector whatever it is
  asked for (:47), where :42 says "if true items added to this vector will not be deallocated", so that what is added to one made with
  false leaks, against `Add`'s comment (:801); the one use in the library (SoundInstanceOutput.cpp:5)
  passes false and relies on the vector not deleting. Writers of the reader/writer locks may starve.

## 4. Fairness

Safety is checked under specifications without fairness, except in `Nat`, `NetClient` and
`TcpFraming`, whose one run checks both kinds. Liveness assumes

* that the threads of the program, of the port and of the library keep running (weak fairness
  of each thread's steps): Windows schedules every ready thread, critical sections are held
  for a bounded time, and the loops have no other exit;
* that winsock ends the operations of a socket *that was closed*. Nothing is assumed of an
  open socket: a silent peer never completes a receive, and a send may stay pending. The one
  exception is the blocking send that announces a client to the others (NetInstanceServer.cpp:585),
  one step of `NetServer` (`NotifyCompletion`) that ends: it has no timeout (NetServerClient.h:42), so
  that a peer which does not read could hold up `ClientJoined` for as long as it likes;
* in `NetServer`, that the program calls `ClientJoined` again and again, "best ... continuously
  in a loop" (NetInstanceServer.cpp, comment of `ClientJoined`). It need not disconnect anyone,
  no peer need connect or leave, and no datagram need arrive;
* in `NetClient`, that the timer of an attempt expires, that the handshake thread runs (its
  throws are not forced: `HandshakeRuns`), and that the program goes on polling. `SF` of
  `ClientConnected` is a program that polls its connection again and again, whatever it does in
  between;
* in `TcpFraming`, that what was sent arrives, cut in any way.

## 5. Proofs

Theorems hold for every value of the constants under the named assumptions of the modules.
Each module of proofs has the same layout: an inductive invariant `IInv`, a conjunction of
named parts; `InitIInv` and `NextIInv`, with one step per action and, under it, one per part
the action can disturb; `Inductive`, that it is an invariant; and the theorems, which follow
from it. `FoundationsProofs` and `ThreadUsersProofs` name these after their parts (`ProfileInvariant`,
`UsersInvariant`, ...).

### ThreadMessageProofs

For every set `Messages`, from `ItemsAssumption` alone (the stop request is not one of the heap
messages, NULL is neither):

| Theorem | States |
|---|---|
| `TypeCorrect` | `Spec => []TypeOK` |
| `NoUseAfterFreeHolds` | nothing in use is freed, nothing is freed twice |
| `NothingDeletedUnactedHolds` | what is deleted has been acted on |
| `NoLeakHolds` | nothing is left when the destructor is done |
| `LastDoneHolds` | waiting for the last message waits for all |
| `Implements` | `Spec => Ownership!Spec` |

None of these properties is inductive. That a message may be deleted depends on who can still
reach it, so `IInv` says, next to the types, what the two flags stand for: the thread uses
exactly the queued items and the one it acts on (`ThreadUse`), the sender exactly the last
message (`SenderUse`); what is in use is alive (`Alive`); a side about to delete is the only
one that can (`DeletesAlone`); the message being posted is known to the sender alone
(`Posting`); the thread stops only after the stop request (`Stopping`); what the thread has
let go of has been acted on (`Acted`); a live message can still be deleted by someone
(`Reachable`); the last message is the last one in the queue (`Order`). `InitRefines` and
`NextRefines` map the initial states and each action to `MessageOwnership`, where `owners` is
the set of sides whose flag is up.

The second half is about `Nat`, for any messages, keys, values and first port maps of the
router, from `NatAssumption` (NULL is no key, value or job; the keys are finitely many, which
the port numbers are; a router has a value or none for each key):

| Theorem | States |
|---|---|
| `NatUsesThreadMessage` | `NatSafe => Spec`: the theorems above hold of `Nat` |
| `CopyHolds` | `NatSafe => []CopyIsOfTheRouter` |
| `NatInductive` | `NatSafe => [](IInv /\ NatIInv)` |

`NatIInv` says which messages still have a job (`JobsKnown`: the one in hand, the queued ones,
the one being posted); that, unless a command was excused, a message that points to a port
map points to one that is there, and every message that deletes some is acted on `After` it
(`SetsAlive`); that what a command has fetched is there until it is used, since nothing is
posted meanwhile (`PointerAlive`); and that a copy that is not stale has each port map of the
router once (`Copied`). Being first in a queue without repetitions, which is in `IInv`, is what
makes the order of messages the order of actions. One lemma per action of `UpnpNatAction`
(`UpdateInfoKeeps`, `AddKeeps`, `RemoveKeeps`, `SetKeeps`, ...) says what it does to the copy and
to the objects; `EndKeeps` what the end of an action leaves of the invariant.

### CommandsProofs

For any number of slots, instances, threads, ports and restarts:
`CommandsUseLiveInstancesHolds`, `OnlyMainDeletesHolds`, `InstancesAreServedHolds`. That a function
finds its own instance in its slot, and alive, rests on slots and instances naming each other but
for an instance that was just deleted (`Slotted`), and on destructors waiting for functions
(`Functions`); of other instances nothing of the kind holds (section 3); that only the main thread deletes rests on
the count of thread-local storage being that of the ports that run (`Counted`); that
instances are served on both (`Served`).

The second half is about `Packet`, for any packets, sizes, numbers and threads
(`PacketAssumption`: a size in bytes for every type of number, at least one byte of room, and
values that are none of the bytes for what is undefined and what is lost):

| Theorem | States |
|---|---|
| `PacketsAreTexts` | `PacketSpec => ImplementsText`, the refinement of `PacketText` |
| `OutsideOnlyKnown` | no command leaves its block but in the two known cases |
| `PacketInductive` | `PacketIInv` |

A method is a function of a packet, so most of the argument is about functions: one lemma per
method says that it keeps the packet `Fits` (used size and cursor in the block, and the block
as large as the packet knows, or given away) and what it makes of the data (`OverwriteFacts`
to `AddedFacts`): growing and shrinking copy what is in use, erasing and inserting shift what
is behind, and a write is the data before it, what is written, and the data behind it.
Then each command is one of the text's, or leaves the text alone (`...Works`, `...Ends`), with
memory that was given away as a text of its own, `Lost`. `PacketIInv` is all that has to be known
between commands: every packet fits (`Fitting`), and the packets of a command that
holds one lock and waits for the other still exist (`InHand`).

### NetSocketProofs

For any number of workers, callers and sends, from `ConstantsAssumption` alone:
`RecvBufferNotSharedHolds`, `SendOutlivesOperationHolds`, `CloseLeavesNothingBehindHolds`.

That two workers never write into the receive buffer rests on there being one receive packet,
at winsock, in the port or in a worker's hands (`PacketsOnce`, `PacketFits`), and on a worker
announcing that it deals with data before the next receive starts (`DealingAnnounced`). That a
send outlives its operation rests on the critical section of the vector of sends, whose
holder may be inside `Send` or inside `CompletedSendOperation` (`SendHeld`, `EraseHeld`), on
the vector remembering every send that winsock still works on, except those that timed out
(`SendRemembered`, `FreedUnused`), and on the memory of sends being the cardinality of the
non-blocking ones in the vector (`Counted`). That `Close` leaves nothing behind is an
argument about its order: what each of its waits has seen stays so during the next ones
(`CloseExcludes`).

The second half is about `TcpFraming`, for any modes, lengths, sizes of receives, buffers and
packets, limits and bounds that `FramingAssumption` admits:

| Theorem | States |
|---|---|
| `FramingKeptHolds` | `FramingSpec => []FramingKept` |
| `FramingInvariant` | `FramingSpec => [](FramingTypes /\ Framed)` |
| `MemoryAccountedHolds` | `FramingSpec => MemoryAccounted` |
| `MemoryInvariant` | `FramingSpec => [](FramingTypes /\ Accounted)` |

What was handed out says nothing about what will be: a cursor left behind by one byte spoils
the next packet only. So `Framed` speaks of the bytes not read yet: those in the buffer behind
the cursor and those on the way are together the encodings of all packets after the last one
found (`NextBegins`), so that the prefix at the cursor is the size of that packet, and the first
postfix ends it. In raw mode what was handed out and what is on the way are together what was sent
(`AllBytes`). Packets handed out are whole (`Whole`) and ascend (`InOrder`); between `Close` and
clearing the buffer nothing of the new connection has been read (`Reconnected`); nothing waits
in the store of a socket with a function (`NothingStored`). All of it is said as long as the socket
was not closed under a worker (`broken`), the case the property excepts as well.

The stream is the concatenation of a sequence of sequences, a recursive function (`Rest`). What
it does when a packet is appended or its first one taken is proved by induction over a set
of numbers (`SetInduction`, from the library's `WFMin` and the well-foundedness of `<`), for which no
theorem with an operator as a parameter is needed. `RestExists` shows that the function is defined.

The memory is a sum over the store (`SumOf`), about which the same induction shows what storing,
polling and recycling do; `SumParted` is the step of `RecyclePacket`, which keeps some of the packets
in the bin and frees the others. A worker compares the limit in one step and takes the memory in
another, and other threads recycle packets, resize the buffer and set the limit in between. So what
is proved is about the limit it was compared with, which the worker keeps: what it was allowed to
take it may still take (`Checked`), since memory is only given back meanwhile, and the buffer it
deals with is its own. The limit of that moment may be exceeded (section 3).

### NetServerProofs

For any number of clients, remote programs and workers, and any bounds, from
`ConstantsAssumption`: `SlotsConsistentHolds` and `JoinsAlternateHolds`.

A client ID is reused while workers still have packets that name it. That the next client finds
nothing of the last one rests on three things: a socket that is closed and a client ID that is
free are the same but while `Close` waits (`FreeIsClosed`); every send object in the vector is
matched by an operation of winsock or by a packet at the port, counted by the cardinality of
the set of its places in the queue (`SendsCounted`, with the lemmas `Queued` and `Dequeued` on
what appending and taking a packet do to it); and what the program thread knows of the client
it works on stays true although workers change that client's state meanwhile (`MainKnows`,
`UnusedFree`). That joins and leaves alternate rests on the flag of a fully connected client
being set in one place only (`NotYetFully`) and on the client that `ClientJoined` will return
having been passed by its scan (`ReturnedOnce`).

### NetClientProofs

For any set of profiles that `ClientAssumption` admits, any amount of data and any number of
connection attempts: `UserGetsTheDataHolds` and `ConnectedIsMutualHolds`.

Both follow from where every packet is that the server has sent. `Order` says that what the
user got, the store, the packet in a worker's hands and the wire together are a run of
consecutive packets, from the first one on and, while the connection is up, to the last one
sent; the packets of the handshake have the places before the data. It holds as long as the
attempt can still end well (`Live`). From the number of packets taken follows that at the
end of the handshake the server counts the client as joined, and that all that is left is
data (`HandshakeOver`, `OnlyData`). The other parts say which thread may be where: there is
no handshake thread once the program has gone on (`HandshakeFirst`), the user's function is
back on the socket, and the store empty, from then on (`FunctionIsBack`), nothing is received
before the first receive (`QuietBeforeRecv`), and an instance that was deleted leaves nothing
to the next (`UnloadedIsFresh`).

### UdpStoresProofs

For any slots, threads and numbers of datagrams, and words of any even number `W` of values, from
`StoresAssumption`: `CounterIsOfLastHolds`, and `AgeDecidesHolds`, which is a property of steps.

The counter is not the age of the last datagram while the worker deals with one: the numbered
mode clears it after a guess, compares again, and sets it before the datagram is stored. So the
invariant says what the counter is at each place of the worker (`AgeAt`), and that the worker
and the slot are of the same client unless the slot was reset meanwhile (`OfThisClient`). That
the guess is right is arithmetic, for a clock in numbers from `-W/2` to `W/2 - 1` and with a half that
is rounded towards zero (`AgeOfTime`, `HalfFacts`): two datagrams are as far apart as their ages tell, or by a
round of `W` more at least (`AgesApart`, from division with remainder), so that an old age
that is accepted is half the current age back (`NewFollows`, `WrappedFollows`), and one that is
refused is not newer, unless by half the range, or the clock passed its top and the difference is
more than a clock holds.

### FoundationsProofs

For any number of threads and levels: `LocksExcludeHolds`, the whole of `LocksExclude`, from
`ControlImplements` and `SimpleImplements`. In `ConcurrencyControl`, every section is entered
exactly by the thread whose levels add up, as often as they say (`ControlInvariant`); from this
follow that a writer is alone (`ControlAlone`) and the refinement of `ReadersWriters`, with
`readers`, `writer` and the levels read off the sections. The simple lock counts its readers in one number,
so the invariant says which number that is: the cardinality of the set of pairs of a thread and
a level of its read control (`ReadersCounted`; `OneReaderMore`, `OneReaderLess` and `NobodyReads`
are what follows for the steps). The section of the writer is entered by the thread that writes or
checks, as often as it does (`WritingAddsUp`), whoever writes is alone (`WriterReadsAlone`), and
what an upgrade put aside is known at each of its stages (`UpgradeKnown`).

For any number of profiles, keys and commands: `KeysSafeHolds` and `ReadsWhatWasSetHolds`, from
the assumption that NULL is not the address of a profile (`NullIsNoProfile`). Until the program
gives a key a second owner, keys of profiles are alive and no two profiles have the same
(`OneOwner`); an option holds what the program meant, or is one of the known exceptions
(`AsMeant`). The other half of the second theorem is that the Get commands, the instances and
the operator `==` look at the options they are named for (`AnswersAreOptions`).

### ThreadUsersProofs

For any finite set of objects, any threads of the program, slots, buffers and chunks, from the
assumptions of `SharedThreads`, `Encryption` and `Sound`: `UsersHaveThreadsHolds`,
`FinishedMeansUnusedHolds` and `ChunksFollowHolds`. The assumptions say that an
object belongs to one class, packets to that of encryption and sound instances to that of sound,
that an instance is an input or an output, that there is one callback thread, that NULL is
none of them, that a chunk is not empty, and that there is a thread for each of at least one logical
core (`GetNumLogicalCores`, which `Packet.cpp:715` asks).

`SetupThreads` reads the usage count under the section of the threads and writes it later;
`CleanupThreads` does so under both sections, the other one first. Between the two steps the
count is not that of the users, and what makes it so again is a local variable of the call. So
the invariant says who holds which section at which place (`Locked`), what a call knows of the
count there (`CountKnown`), and that the count is the cardinality of the set of objects that
use threads, without those that a cleanup has just uncounted. That a call counts an
object once rests on the object being in no other call (`OneCallEach`) and on its flag being set
exactly from the end of its setup to the end of its cleanup (`UsingKnown`). Sound enters and
leaves in the constructor and destructor of instances, so the invariant follows each of
them through its slot and the calls of the main thread (`InstancesUse`, `MainWorks`, `SlotsKnown`):
an instance is destroyed once, by the call that took it out. The exception in the
property, a setup beside a cleanup, is kept as it is: the two sections do not exclude them.

`FInv` stands on that. Its first parts say that what excuses a fault stays (`Calmer`): the
histories only grow, and a key that lives was not deleted carelessly. The rest, `Finishing`,
holds while nothing is excused, and says

- that an object has noted an item as being with a thread exactly when one of its items is in
  that thread's queue (`LastKnown`): so `IsLastThreadOperationFinished` means that none is;
- that `bufferInUseCount` is the buffers the device has, plus the items in the callback thread's
  queue, less the one whose buffer is already released (`BuffersCounted`): so zero means that neither
  the device nor the callback thread comes back to the instance;
- that an object that does not use threads has neither items nor buffers (`UnusedIsIdle`), and
  that a packet a thread works on exists and is not known to have finished (`BusyPacketsLive`);
- what each place of a call has waited for (`CallsFit`): an output's store is empty after its destructor
  cleared it, an instance is drained after the wait for its buffers, a destructor that does not
  block has no items, and one that blocks is that of the last user, whose threads run
  empty before they end.

`StepFits` reduces a step to what it does to queues, buffers and the call it moves. No step
adds to an object that a call takes for idle (`Opens`): this is where it matters that the
device's callback comes only while it has a buffer, which is counted, and that the manager thread
plays only what is stored, which a destructor clears first.

`OrderInv` stands on the first invariant alone, so it holds with devices that fail too. Each
thread handles its items in the order they were posted, but a call posts an operation to one
thread after the other, and the next call may begin before the threads have come to
anything. So the operations asked of a packet are cut in three, at another place for each thread:
what its chunks have seen, what is in its queue, and what is `Owed` to it, by the call that has
not come to its number yet. `Following` says that the second part is numbered without a gap
behind the first (`Ordinal`, `Seen`), with the item in hand on either side of the cut
according to whether it was `Handled`. A call that leaves its loop owes nothing, because as long as
its packet is counted the class has threads, and that is the first invariant; it is where a setup beside a
cleanup breaks the property. That every item covers the same chunks, though `Encrypt` fills the packet
up, is in `SizesKnown`, and every chunk is that of one thread (`ChunkFacts`). When the packet says
that it has finished, its queues are empty (`LastCovers`) and, with no call about it, nothing is owed
(`AllSeen`).

### Model-checked only

All liveness properties and `NothingHangs`: the prover has no rules for fairness and ENABLED.
`CiphersAsTested`, and the sorting and searching of `Stores`,
are about what computations over data return for given inputs, and stay with TLC. Of the
safety invariants, `SoundInOrder`, which adds up the sizes in a store with a fold, and
`CollectionsKeep` of `Stores` are checked and not proved: their induction theorems have an operator as
a parameter, which none of the provers can instantiate, and the induction over sets that
`NetSocketProofs` uses instead was carried out for `TcpFraming` only.

## 6. Not modelled

Counters and timers are small sequential helpers; where they matter (retries of UDP
receives, the timeout of an attempt) the models have a free choice. Device, COM and file I/O
(opening sound devices, router calls, key files, error logs) is external. Left out in modelled
components: failures of Windows itself where the code does not recover (`PostThreadMessage` failing
after an item was marked as in use, ThreadSingleMessage.cpp:54, which leaks the item; vectors or
threads that cannot be made in `SetupThreads`, ThreadSingleMessageKeepLastUser.cpp:65-91, which leaves its
section entered; UDP's `Connect` throwing after the TCP socket is connected, NetInstanceClient.cpp:612);
a send that is counted and cannot be put into the cleanup vector (NetSocket.cpp:393-395 are one
step); a receive of no bytes taken for an aborted one on the socket of `NetSocket`, which `NetServer`
has (NetCompletionPortFunction.cpp:42-46); refusals of a connection by other errors than a reset
(NetInstanceClient.cpp:834); socket options and graceful disconnection of a server's clients; the mode without
handshake and broadcast sends; the destruction of a server; decryption in the UDP stores and
encryption of framed packets; changing the size of a bin in use; volume and formats of sound;
`Insert` and `InsertAllocate` of `StoreVector`. The CLR and DBP wrappers repeat the commands one
for one, and the rest of the utilities is addresses, error texts, documentation pages and the
test driver. `PROJECT.json` gives the reason for each component under `components`.

## 7. Plan
Every component that has behaviour over time has a module, each has a run, and each invariant
over states is proved, except those of section 5 ("Model-checked only"), which are
only model-checked. What could follow is more of the model: graceful disconnection, the
destruction of a server, and the six hazards without a property in `PROJECT.json`.
