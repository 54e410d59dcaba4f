# Formal specifications of Isabel

TLA+ models of the parts of Isabel whose correctness depends on the order in
which threads, messages and failures meet, checked with TLC and, where that
is possible, proved with TLAPS. Paths are relative to the repository, which is
`src/` here; Java packages are named without their common prefix.

* [The system](#the-system)
* [What is modelled, and how](#what-is-modelled-and-how)
* [The runs](#the-runs)
* [What the runs found](#what-the-runs-found)
* [The proofs](#the-proofs)
* [What is not modelled](#what-is-not-modelled)
* [Plan](#plan)

## The system

Isabel is a videoconference platform. A *session* is a tree of sites; at each
site runs a set of programs (audio, video, whiteboard, chat, the Tcl kernel that
directs them), which agree on the state of the session by messages to groups.
Three layers carry that agreement, and media routers (*irouters*), one per site
too, carry audio and video between the sites:

| part | code | state | operations |
|---|---|---|---|
| reliable datagrams | `lib/javacommon/isabel/lib/reliableudp` | per socket: connection state, last number sent and read, `unackMap`, `rcvdMap`, the number of a RST, the tasks of the retransmission executor | `connect`, `accept`, `sendData`, `receive`, `closeOut`, `close`, `packetReceived`, a timer per packet |
| session control (SeCo) | `components/seco/app5/isabel/seco/server` and `.../access` | per node: `State` (routes `cliPPT`, `myLocalClients`, child nodes `secoPPSet`, `groupCodes`, `groupMembers`, `history`), one `PacketProcessor` with a sender list per connection | hello, login, join, leave, get identifier, three kinds of group message, disconnection, `synchronizeNewSeCo` |
| dispatchers, task scheduler | `seco/network`, `seco/dispatcher`, `lib/javacommon` | name tables, a timer queue | remote calls over groups, timed tasks |
| links between routers | `components/irouter/app/linkProtocol.cc` | leader: `remotesByAddress` (a task per leaf), `linkBinder`; leaf: `flowServerTgt`, `mcastServerTgt`; both: `multicastSources` | requests every 2 s, answers, a task every 8 s per leaf, joins and leaves of multicast sources, `ir7_delete_link` |
| parity protection | `lib/RTP/src/RTPFec.cc`, `components/irouter/app/RTPFecHolder.cc` | sender: `k`, `SQArray`, `mask`, parity; receiver: `active`, 24 slots, `nData` | `sendPacket`, `recvPacket`, `setFecParams`, `delRTPFec` |
| frame reassembly | `lib/RTP/src/defragmenter.cc`, `lib/vUtils/src/rtp2image.cc` | a list of buffers, one per frame, with 500 slots each; the room for a picture | `addPkt`, `process`, `insert`, `getImage` |

How they interact. A client program opens a `SeCoAccess` to the node of its
site; nodes other than the root open an `UpDataLink` to their parent. Every
connection of a node that comes from below is served by a `DownDataLink` thread.
These threads share the node's `State`, whose monitor (a `synchronized` object)
some handlers hold from beginning to end and others only inside single calls of
`State`. What they send goes into the list of a `PPSender` thread. Each
connection is a reliable stream (TCP or RUDP). A RUDP socket in turn has the
program's writer and reader, the shared `RUDPReceiver` thread and an executor.

A router is one thread (ICF2's scheduler): handlers of datagrams and tasks run one
after the other. A leaf asks its leader for a link every two seconds; while it
does, the leader keeps a link for it and, with source-specific multicast, its
address in the list of sources that every answer carries. Over a link, `target_t`
sends each packet and after k of them their parity; `targetMgr_t` delivers what
arrives and what it rebuilds. In the program that shows a video, `rtp2image_t`
puts the packets of a frame together.

The rest of the router and the MCU, the media components, gateways, user
interfaces, scripts and vendored libraries are listed in `PROJECT.json`.

What is hard in it, and what a correct implementation promises:

* **RUDP**: loss, reordering, duplication; numbers that wrap at 0xFFFF; the
  receiver thread and the reader looking at `lastSeqRcvd` at different moments;
  a RST that overtakes data; a connect that times out while packets arrive.
  *Promises*: what the reader gets is what was written, in order and once; the
  end is reported after everything else; an acknowledged packet has arrived;
  what is sent gets through; a blocked writer goes on.
* **SeCo**: flooding by several threads of several nodes; joins and
  synchronisations that copy a history while it changes; packets already queued
  that a later `SYNC_MSG` or a disconnection makes *deprecated*; clients and
  nodes that end in the middle of any of it. *Promises*: a member has the whole
  history of its group, each sender's messages in order; all nodes keep the
  same histories; a client that has gone leaves nothing behind; its end is
  announced, and nothing of it comes afterwards.
* **Links**: soft state on both sides, refreshed by datagrams that get lost; two
  timers with their own phases; crashes and restarts; lists that arrive late.
  *Promises*: a leaf that asks stays, one that is silent goes; nothing outlives the
  task it belongs to; joined sources are listed ones; in the end all routers list
  the same.
* **Parity**: losses before the sender, so that groups have gaps; a k that changes
  within a group; numbers that wrap; parity that arrives when its packets have
  not, or no longer are in the buffer. *Promises*: a parity packet names what it
  protects; what is rebuilt was sent; a single loss is rebuilt; nothing comes twice.
* **Frames**: packets that overtake, repeat and come after their frame was closed; a
  buffer that shifts; a picture that does not fit. *Promises*: a picture has no
  holes, pictures are in order, a frame that arrived is shown.
* **Login, packet processors, client threads** (planned): identifiers
  handed out along the tree with answers matched by position; the `NoBlocking`
  watchdog; waiting loops of `SeCoAccess` that only its own reader ends.

`PROJECT.json` lists the hazards one by one, with line and properties.

## What is modelled, and how

| module | models | lines |
|---|---|---|
| `FifoChannel` | what one direction of a connection promises: a FIFO stream with an end | abstract |
| `RUDP` | one connection, both sockets, both receiver threads and executors, the server socket, the network | `RUDPSocket`, `RUDPServerSocket`, `RUDPReceiver`, `RUDPSender`, `RUDPPacket` |
| `RUDPProof` | theorems about `RUDP`; the step simulation of `FifoChannel` | |
| `SeCo` | the tree of nodes with its clients | `DownDataLink`, `UpDataLink`, `State`, `PacketProcessor`, the packets of `SeCoAccess` |
| `SeCoProof`, `SeCoEndProof`, `SeCoGoneProof`, `SeCoOrderProof` | theorems about `SeCo`: types; nothing after the end of a client; nothing left of it; order, what members hold, what neighbours keep | |
| `IrouterLinks` | a leader and its leaves, the network, the clock | `linkProtocol.cc`, parts of `ctrlProtocol.cc`, `transApp.cc` |
| `IrouterProof` | theorems about `IrouterLinks` | |
| `RTPFec` | one source between two routers, with parity | `RTPFec.cc`, `RTPFecHolder.cc`, `deliver` and `IOReady` of `output.cc` |
| `RTPFecProof` | theorems about `RTPFec`: the sender and what is rebuilt; what is rebuilt in order | |
| `FrameBuffer` | the packets of a video source on their way to pictures | `defragmenter.cc`, `rtp2image.cc`, `fragmenter.cc` |
| `FrameBufferProof` | theorems about `FrameBuffer` | |
| `MCRUDP`, `MCSeCo`, `MCIrouterLinks`, `MCRTPFec`, `MCFrameBuffer` | instances: trees, requests, bounds for TLC | |

`RUDP` implements `FifoChannel` in each direction (`StreamsAreFifo`), and the
links of `SeCo` are queues that behave as such a channel does (TCP or RUDP): that is
all `SeCo` assumes of them, until an end closes.

### RUDP

A socket's variables keep the names of the fields of `RUDPSocket`. `sent`,
`delivered` and `eof` are history: what was numbered, what `receive()` returned,
whether it returned null. A packet carries its number (`seq`) and its ordinal
(`n`); the ordinal stands for the payload and no action reads it.

| in the code | in the model |
|---|---|
| constructor and `connect` (`RUDPSocket:391`) | `Init` (SYN scheduled and sent), `ConnectReturn`, `ConnectTimeout` |
| `accept` and `processPacket` (`RUDPServerSocket:129`, `:154`) | `AcceptCall`, `ArriveFirstSyn`, `AcceptReturn`; in between the server's receiver thread waits (`Takes`) |
| `sendData`, `closeOut`, `close` | `SendData`, `CloseOut`, `Close` |
| `receive` | `Receive`, `ReceiveNull` |
| `packetReceived` (`RUDPSocket:439`), one branch each | `ArriveAck`, `ArriveData` then `StoreData`, `ArriveOutside`, `ArriveRst`, `ArriveSyn`; `ArriveNowhere` when nobody is registered |
| `RetransmissionTask` | `Retransmit` |
| the network | `net`, a set of datagrams per receiver, `Lose`, `RestOf` |

* `net` is a set: arrival in any order; a copy sent again may be lost or arrive
  after its original; `Duplicates` lets the network keep what it has delivered.
* The DAT branch is two steps because it reads `lastSeqRcvd` twice (`inRange`,
  then `isDuplicated`) while the reader moves it.
* `sendData` takes the number, schedules, registers in `unackMap` and sends as
  one step: the calls on the datagram socket come last and the packet is in
  `unackMap` before an ACK for it can exist. The `switch` of `closeOut` on
  `state` is taken with it, though a RST may in the code change `state` in
  between; that race is left for later.
* The server's and the client's last number both start at the SYN's, as in
  `connect` and in the constructor used by `accept`.
* One connection; linger times, statistics and sizes are left out.

### SeCo

State is named after `State`'s tables; each table is indexed by node.

| in the code | in the model |
|---|---|
| `DownDataLink.run`, one `case` each | `RootJoin`, `KnownJoin`, `DownReply`, `DownForward`, `leaveGroup`, `routeToGroup`, `IgnoreMessage`, `synchronizeNewSeCo`, `DownGone`; its `finally` is `ClientGone` and `NodeGone` |
| `joinGroup` without the monitor (`DownDataLink:861`) | `KnownJoin`, `JoinReply`, `JoinHistory`, then `JoinSend` once per packet |
| `UpDataLink.run` | `RouteToGroup`, `UpGone`, `UpLookup` then `UpReply`, `UpForward` or `UpNoRoute` |
| `finally` of `UpDataLink.run`, `System.exit(0)` | `Ended` |
| `cleanupClient`, `destroyMsgs` | `CleanupTables`, `Bury` |
| `sendGroup` in its two forms | `DownTargets`, `UpTargets` |
| `PPSender` list, `deprecated` | `queue`, `Skipped`, `Deprecations` |
| `SeCoAccess` | `Request`, `Send`, `ClientReceive`, `Disconnect` |

* A handler that holds the monitor is one action. One that does not is split at
  every call that takes it; `UpLookup` is separate because `processJoinGroup`
  reads the route before it enters the monitor (`UpDataLink:156`).
* A link's queue stands for the sender list and the wire. Packets marked
  deprecated are skipped in the list and not on the wire, so `Deprecations`
  chooses, for each queue, how much had been written.
* The history of a group is kept by sender. `getMsgs` walks a map of senders,
  whose order the code does not fix: the model fixes one order, and no property
  compares messages of two senders.
* A group's identifier is its name: the root allocates one identifier per name
  under its monitor and nothing changes it afterwards; `known` says which nodes
  hold the pair.
* Login is one step (`Connect`) until the login is modelled: it registers the
  client on its way to the root. Nodes that failed do not come back.
* `secoPPSet` and `myClients` are never pruned, because the code never does
  (`delLocalSeCoPP` has no caller). What is sent to a dead child is dropped by
  `Sent`, as by a closed `PacketProcessor`. When a child ends, all clients that
  ever came through it are reported gone, those that had left once more.

### IrouterLinks

| in the code | in the model |
|---|---|
| `linkHarbinger_t`, `mcastLinkHarbinger_t` (`heartBeat`) | `heartBeat`, once per `Tick` of two seconds for each request in `Harbingers` |
| `processConnectionRequest`, `processMcastConnectionRequest` (`linkProtocol.cc:463`, `:738`) | the actions of the same names; both create or rejuvenate the task (`Accept`) |
| `linkOnDemandTask_t::heartBeat` and destructor | `Survive`, `Drop` |
| `processConnectionAnswer`, `processMcastConnectionAnswer` | the actions of the same names |
| `refreshMulticastSources`, `deleteMulticastSources` | operators of the same names |
| `ir7_delete_link` | `DeleteLink` |
| end and start of a process, loss of a datagram | `RestartLeader`, `Crash`, `Start`, `Lose` |

* `Tick` is the clock. It waits until every request is sent and every due task has run,
  as the scheduler does long before two seconds are over; a datagram still in flight
  is late, which counts as a fault. Within a step of time everything interleaves, so the
  phases of the timers are free to one step. `Period`, the requests in a
  period of the task, is 4 in the code (8 s and 2 s; the header's comment on
  `LM_TIMEOUT` says 10 s).
* The code looks for a source in the list it has received with `strstr`; `Inside` names
  the pairs of addresses of which one is a part of the other's text.
* Bandwidth, echo, n and k, versions, unknown senders and `acceptConnections` are left out: the
  first four are copied, the others are decided before anything changes.

### RTPFec

| in the code | in the model |
|---|---|
| `target_t::deliver`, `RTPFecSender_t::fecPktToSend` | `Deliver` with `Started`, `InReach`, `Protect`, `FecPacket` |
| `setFecParams`, `setK`; `delRTPFec` | `SetFecParams`, `setK`; `DelRTPFec` |
| `targetMgr_t::IOReady` with a data packet, `RTPContainer_t::insert` | `ArriveData`, `Insert` |
| `IOReady` with a parity packet, `RTPFecHolder_t::recvPacket`, `fecPktToRecv` | `ArriveFirst` while there is no active receiver, `ArriveFec` with `GiveUp` or `Search` |

* The exclusive or is the symmetric difference of sets of terms, which is exact:
  a field is what it should be when its set is the packet's own.
* The fields are four: body and length (`parity`); what shares a word with SNBase (`flags`:
  padding, extension, CSRC count and marker); the payload type and the timestamp, which
  come out wrong (below). A parity packet is made in place: `AfterFec` leaves SNBase where
  the flags were, and when k is raised after the send (no `resetTX`) the next packet is
  XORed onto it.
* The search calls `getData` once more than it needs (`RTPFec.cc:335`). `ReadsPast`: when the last packet
  it meets is in the last slot that call reads behind the array and empties the whole buffer.
  What it reads is not used. `RunsOut`: when a packet of the group lies before `nData` the
  search goes on with what it reads there; this is undefined, and the model stops (`overrun`).
* `path` is chosen at the start. "ordered" is what most properties need; "reordering"
  is where only `RecoveredIsWhole`, `ParityCoversGroup`, `SearchMeetsGroup` and the types
  are promised.
* `NoReuse` (fewer packets than the modulus) is an antecedent of what needs numbers to
  tell packets apart: a group that is open when k becomes 0 stays open, and after
  a whole turn may take in a second packet with a number it has.

### FrameBuffer

| in the code | in the model |
|---|---|
| `setFrame`, `getFragment` | `Packet`, `Send` |
| `rtp2image_t::addPkt`, `defragmenter_t::process` | `AddPkt` when no frame is due, `AddPktAndShow` when one is |
| `RTPBuffer_t::insert` | `insert` with `Known`, `Refused`, `Moved`, `Put` |
| `getImage`, up to the payload formats | `Complete`, `getImage`, `totalSize` |
| destructor | `DeletesTwice` |

* Two statements write past the array: the move (`defragmenter.cc:275`), one slot too far, and the
  store (`:283`), as a distance of 500 is let through (`:257`). What they reach depends on the build:
  `numPkts`, and with pointers of 64 bits the timestamp too, which is no frame's then
  (`WithPointer`, timestamp 0). `build` is chosen at the start. The pointer that is read as a count is any of
  `Pointers`, NULL is 0.
* A frame may be longer than the buffer. A buffer with all slots in a row and no mark passes the
  code's loop, so `LastSlot` is the mark's or the last one.
* `totalSize` counts packets, as a size is their number.
* After a double delete the program's behaviour is undefined: the model stops.

## The runs

All runs finish in under five minutes with two workers. Deadlock is checked in
`IrouterLinks` only: elsewhere programs may send nothing, peers may be closed and
clients gone, and the bounds end what is left.

| run | question | instance | states |
|---|---|---|---|
| `RUDPSafety` | Are both directions ordered, complete, truthfully acknowledged, FIFO? | 2 packets one way (one may be a RST), 1 the other; modulus 8, numbers wrap after the first packet; window 3, queue 2; the network duplicates | 730,808 |
| `RUDPLive` | Does what is sent arrive, does the window reopen, does a close reach the reader? | 2 packets (one may be a RST) numbered 0 and 1 after a SYN of 7: the wrap lies before the data, and a RST that is 1 follows data that is 0 or overtakes it; queue 2 | 9,172 |
| `SeCoHistory` | Members, histories and clean-up while a member joins late, the other sends, synchronises and leaves | root, one child, a client at each, 2+1 messages, a watcher of `Disconnections`, node failure | 152,261 |
| `SeCoDeep` | Order and agreement through an intermediate node without clients | chain of three nodes, a client at each end, all three message kinds, rejoin, node failure | 461,305 |
| `SeCoLive` | Do messages and news of the end reach the members? | root, one child, a client at each, fair threads, node failure | 4,924 |
| `FecRecovery` | Are groups, parity and recovery right under loss, overtaking, gaps and changes of k? | 9 packets, numbers modulo 16 that wrap, 4 slots, k of 0, 2, 3, one change, 2 in flight | 4,513,910 |
| `FramePath` | Are pictures without holes, in order, and shown when they arrived? | frames of 3, 6, 1 packets, 4 slots, numbers modulo 12 that wrap within the second frame, one frame kept, 3 in flight, one copy, two sizes of room | 1,474,877 |
| `IrouterLinks` | Do memberships, tasks and lists stay right, and agree in the end? | 2 leaves, one with both requests, one address inside the other, period 2, one fault | 122,706 |
| `SeCoJoinOrder`, `SeCoLeaver`, `FecRaise`, `RUDPZero` | one disagreement each, see below | | |

Why the bounds are enough to be interesting. The windows of the code (64 and
640 of 65535) become 2 and 3 of 8: a queue can be full, a packet can be
ahead of the reader, stale, a duplicate, and beyond the window, and the numbers
pass the wrap; `WindowAssumption`, which the code's numbers satisfy by far, keeps
the proportions. With two packets one can overtake the other. In `SeCo` two
messages of one sender are what ordering, synchronisation and deprecation need;
an intermediate node without clients is where routes, floods and replies pass
through; a client that joins twice is what separates an answer from the one
before. Properties are stated for any number of nodes and clients; larger trees
repeat the same links.

In `RTPFec` the 24 slots become 4, more than the largest group, with a distance limit
of 5 and 16 numbers; nine packets make three groups or more, so that a group is met
with the buffer full of another, and a step of 3 in the source brings packets out of
the reach of the mask. In `FrameBuffer` the 500 slots become 4, and a late packet may
be 2 places before the first instead of 10. The frame of 3 fits and can be moved by one and by two slots.
The frame of 6 does not: packets are stored at the distance of 4, the move pushes others past the
end, a wide build loses the timestamp and begins a second buffer, the count becomes negative
or 1 (a pointer, `PointersLow`, or NULL), copies stay behind and are deleted twice, and pictures end with the buffer.
It lies across the wrap. The instance also passes with a pointer that makes the count too large
(`PointersBoth`, 1,653,258 states), and `NoHoles` and `PicturesInOrder` with 3 slots and frames of 6, 1, 1. Packets of
frames that do not fit are kept out of the histories `arrived` and `refused`, which nothing
else reads. In `IrouterLinks` one fault is enough to reach every action; the
same instance passes with two faults, and with periods of 3 and 4, which
take longer.

**Fairness.** `RUDP!Fairness`: threads run, the executor fires a task it still
holds again and again (its tasks are periodic), and a datagram that is sent again
and again arrives (strong fairness of `Arrive`): a network that loses without
end refutes nothing. Writers and closers are not obliged to act, nor is the
connect's timeout. Liveness of data is not checked under `Duplicates`: a network that
repeats one datagram without end can keep the receiver thread busy for ever.
`SeCo!Fairness`: threads of a node and reading clients go on; clients
need not ask or send, and nodes may fail at any time.
`IrouterLinks!FairSpec`: a router's scheduler handles what has arrived, sends
what is due and runs tasks that are due, and time passes. Nothing obliges a
leaf that is down to start; faults are finitely many, so `Agreement` says what
happens after the last one.

**Properties and what would break them.** `InOrder` and `StreamsAreFifo` relate what a
reader got to what the peer wrote. `AckedIsReceived` fails if the duplicate test
throws away what it should store. `EofIsComplete` fails if a RST that overtakes
data ends the stream. `MembersHoldHistory` joins three tables and a queue: what was kept before the
join must come with the copy and what is kept after it by routing, with no gap
between the two. `NeighboursAgree` compares the histories of two nodes whenever
nothing that changes one is under way. `GoneLeavesNoTrace` looks for residues of a
client in every running node once its packets have drained. `NothingAfterTheEnd` is
about copies still being sent to a joining client when the sender ends.
`ParityCoversGroup` ties the list of numbers, the mask and the parity of a sender,
which three statements keep in step. `NothingTwice` and `SingleLossIsRecovered` bound
recovery from both sides: not what was dropped, and everything that can be.
`ParityCoversGroup` and `RecoveredIsWhole` say of the flags exactly what is left of them
in a group that was opened again: nothing. `SearchMeetsGroup` follows `nData` through a history of
parity packets; it does not say that nothing is read behind the array, which is not so, but
that nothing read there is used. `ResetEndsStream` leaves out the number 0, which is the finding of
`RUDPZero`. `ArrivedIsShown` holds through the
shifts and the retry, where the buffer's count is overwritten. `JoinedIsListed`
pairs two lists that different handlers change; `OnlyTheSilentAreDropped` and
`SilentIsDropped` bound two timers against each other; `Agreement` needs all of them.
`PROJECT.json` gives for every property a plausible bug of the code (a variant
kept beside the definition) that it rejects.

## What the runs found

Disagreements between the program and what its comments say of it. The first four
are the counterexamples of runs.

1. `SeCoJoinOrder`. A join at an intermediate node that knows the group is not
   atomic: a newer message can reach the client before older ones of the same
   sender, which follow from the copy of the history. At the root it cannot
   (`RootClientsInOrder`).
2. `SeCoLeaver`. A client that ends while the answer to its request comes down is
   taken for "a client of another node"; there is no route, and the exception
   ends the process of the node with all its clients.
3. `FecRaise`. "If k packets were processed, a FEC pkt was sent, so I need to be
   reseted" (`RTPFec.cc:512`): not when k is raised in between. The full group is taken for
   one still to be filled, and its packets are protected a second time. With group
   sizes 1 and 2 this makes the other router deliver a packet twice (`NothingTwice`).
4. `RUDPZero`. "Will return null if the other half of the connection is closed"
   (`RUDPSocket:224`): `receive` compares `lastSeqRcvd` with `resetSeqNumber - 1`
   (`:230`, `:239`), which is -1 for a RST whose number is 0 after the wrap. The trace reads a packet with
   number 7, gets and acknowledges the RST, and its reader waits for ever. It needs
   about 65535 packets in the code, and then hits one closing in 65535.

TLC showed the next five in instances that are not kept as runs; the definitions
still are in the modules.

5. `EverySentIsAcked` (`RUDP`, `Packets20`, first number 1, `FairSpec`). "Send ACK anyway" (`RUDPSocket:468`) stands inside the
   branch for the receive window. If the ACK of a packet is lost and the reader passes the
   packet, retransmissions are outside the window, and are never answered: it
   stays in `unackMap` and is sent again until the socket closes. `WindowReopens` still holds:
   the same loss cannot fill the whole queue of a sender whose last
   packet is one the reader has just read, as that number is still in the window.
6. `InOrder` without `NoReuse` (`RUDP`, modulus 4, window 2, queue 1, `Packets50`, `Duplicates`). `isDuplicated` uses `>`, so a copy of the packet last read is stored
   again under its number. If the numbers come round while it is there, it is
   delivered in place of a new packet, and the new one is lost. In the code this
   needs 65535 packets.
7. `PeerCloseIsSeen` (`RUDP`, `Packets01`, `Resets01`, `FairSpec`). A RST that arrives before the client's `connect` has returned
   is acknowledged in state `DISCONNECTED` and then overwritten by `CONNECTED`: the
   reader waits for ever.
8. `LeaversAreOut` (`SeCo`, `Leaver`). A leave sent while the join goes up to the root is ignored, and the
   answer then makes the client a member.
9. `ShownIsWhole` (`FrameBuffer`, `Lengths211`, 8 slots, modulus 20, first number 1). "This code checks if frame is complete" (`defragmenter.cc:770`): it
   checks from the first packet that arrived. A frame that lost its beginning goes to
   the decoder as a frame. `NoHoles` is what does hold.

`sendData` after `closeOut` still numbers and sends, though a
comment (`RUDPSocket:321`) says that it throws, and what it sends is never
delivered; `EverySentIsDelivered` is about what comes before.

About the routers and the video path, seen in the models or read beside them:

* Parity: the timestamp of a rebuilt packet is wrong, since `secondWord` is written
  over the bytes that `TSRecovery` is read from (`RTPFec.cc:610`), and its payload type is
  that of the wrong packet when a group mixes types. In a group that was opened again (3 above) SNBase of
  the first parity packet lies over the flags of the second (`RTPFec.cc:608`), so that a packet rebuilt
  from it has a wrong marker, CSRC count, padding and extension. The last `getData` of a search reads one behind
  the array when the last packet it met is in slot 23, and empties the buffer. A group across the wrap of the numbers, or
  after a gap of 24, stops the sender until the numbers come round. The first two parity
  packets of a source only start the receiver (a variable hides another, `RTPFecHolder.cc:109`). A
  late original is delivered beside its rebuilt copy. `setFecParams` allows
  groups of one packet, with which the search can leave the buffer and, when k is raised,
  packets come twice: `SearchMeetsGroup` and `NothingTwice` leave them out by `NoSingles`.
* Frames: a frame with the numbers 0xfffe and 0xffff in a row, or 0xffff and 0, is
  taken for incomplete (`defragmenter.cc:780`). A late packet shifts one slot too many and writes
  past the array (`:274`); pointers left behind by the shift can be deleted twice (`freedTwice`). The
  frame that makes the room grow is lost, since it was deleted before the retry
  (`rtp2image.cc:74`). A late packet of a closed frame opens a new buffer for it. The packet 500 numbers
  behind the first of a frame is written over the count (`:257`, `:283`). On a narrow build the
  pointer then decides whether further packets are refused; on a wide one the rest of the frame
  goes to a second buffer. On a path that keeps the order at most the second of the two is shown: the
  write needs a free slot, since a full count refuses the packet first, and a buffer with a free
  slot and no mark is not complete. A frame of which 500 packets are there in a row goes to the
  decoder without its end.
* Links: an address whose text is part of another's is never left by a leaf
  (`linkProtocol.cc:680`). A link deleted by `ir7_delete_link` is not made again while its leaf
  goes on asking. A leaf keeps the link to its leader for ever. A leaf that runs both
  harbingers gets a NORMAL or a CONTROL link by whichever message comes first, and the two
  ends may differ. The list of sources has 512 bytes and no check. A leaf seen under another
  address than it reports stays listed.

In SeCo and RUDP, read in the code: `rcvdMap` can outgrow
`MAX_RCVD_QUEUE` by stale copies;
`NoBlocking` removes from the map it iterates over; `addMsg` with a maximum length
of 0 removes from an empty vector; `sendGroup` of `SeCoAccess` waits actively for its own
reader thread; packets still listed when a client quits are dropped.

## The proofs

### RUDPProof

It proves, with no assumption on the network beyond the model (loss,
reordering, `Duplicates` or not), for every modulus, window, queue and number of packets:

| theorem | statement |
|---|---|
| `TypeCorrect` | `Spec => []TypeOK` |
| `DeliveryInOrder` | `NoReuse => (Spec => []InOrder)` |
| `EndOfStreamIsComplete` | `NoReuse => (Spec => []EofIsComplete)` |
| `AcknowledgedIsReceived` | `NoReuse => (Spec => []AckedIsReceived)` |
| `StreamsImplementFifo` | `NoReuse => (Spec => StreamsAreFifo)` |

Assumptions: `ConstantsAssumption` (the ranges of the constants),
`WindowAssumption` (the window and twice the duplicate range fit into the modulus: 640 + 128 of 65535)
and `NoReuse` (a connection numbers fewer packets than the modulus). `NoReuse` is
needed: without it TLC finds `InOrder` violated (6 above).

The argument. None of the properties is inductive, as each speaks of what has
left the system. What carries them is that every copy of a packet, wherever it
is (executor, `unackMap`, wire, the hands of the receiver thread, `rcvdMap`), is genuine: it has
the number of its ordinal and its sender did make it (`Genuine`), and that the
counters are numbers of ordinals too (`Counted`). With `NoReuse` numbers
determine ordinals (`SeqOfInjective`), so the packet with the next number is the
next packet: `OrderInv`. `EndInv` adds that `resetSeqNumber` is 0 or the number of a
RST of the peer (`ResetGenuine`), and that a program which holds a socket does not
find it `DISCONNECTED` (`Connected`), so that a null comes from reading everything before that RST.
`AckInv` adds that every ACK in flight is of a packet received or is no DAT's
(`AckGenuine`), and that a packet found in the window stays below its upper end while the receiver
thread holds it (`InWindow`): if `isDuplicated` then rejects it, it has been delivered.
Most steps neither number nor deliver; `StepKinds` sorts all actions into those
that number, deliver, or only move packets (`Moves`), and each part of an invariant is proved
once per kind.

For `StreamsImplementFifo` the refinement mapping `Stream(r, w)` sends what a program wrote before its first RST to the
channel's `written`, what the reader got to `read`, and whether it has read a null to `ended`. The initial
states map to the channel's, and each step is shown to write at the end, shut, read the
next, read the end, or stutter. Reading in order and only a prefix is `OrderInv`; reading the end
after all the rest is `EndInv`. One more invariant is needed: a
history with a RST in it has a first one (`ShutsOnce`), so that what is written after
`closeOut` does not move the point where the stream was shut.

### SeCoProof

For every tree of nodes, every finite set of clients and groups, whatever the clients ask for
and send, with or without failures, from `TreeAssumption`:

| theorem | statement |
|---|---|
| `TypeCorrect` | `Spec => []TypeOK` |

The assumption says that the sets are finite, that clients, nodes and the two marks
of `lookup` are different things, and that the parents make a tree (`depth`). That they do is
the code's: a node is started with the address of a parent that runs already, so
the order of starting is a depth. `Chain`, the way from an end to the
root, is the least set of ends that holds the end and with each of them its parent.

`TypeOK` is more than a declaration in two places: a history holds only messages of the
sender and group it is kept under, and UpDataLink's looked-up way is an end. The second needs
`RoutesOK`: a node has a route to a client only if the client's chain goes through it, so
that `Toward` chooses an end that exists. `TypeInv` is both, with the links by what they carry
(`Cargo`: hellos go up from child nodes only). Each action has a lemma that says that the types are kept and
also what the step sends, as `Flows(links, pkts)`: every queue keeps a part of its packets, in
their order, and the links named get the packets behind them. That is all that the other invariants need to know
of a step. It rests on what the library operators compute: that `FlattenSeq`,
of which the histories and `Purged` are made, gives the elements of its parts and no others is proved by least
counterexample (`FlattenHolds`, `PurgedSifts`).

### SeCoEndProof

| theorem | statement |
|---|---|
| `EndsAreLast` | `Spec => []NothingAfterTheEnd` |

What carries it is a set of nodes for every client, the nodes that have been told of its end (`Ending`). They hold no
history of it; no message of it is on a link into one of them (`NothingKept`); the neighbour of each
towards the client is in the set or dead, the client itself gone (`NobodyBehind`); every announcement comes
from a node in the set, and no message of the client follows it in a link or at a client
(`LastInLinks`, `LastReceived`). A node that buries a client joins the set: it clears its tables, deprecates the
rest, and what it has not read of the link it learnt from is none of that client's. A
node that still routes a message has read it from a link, so it is outside the set, and the links it sends on are
clear of announcements and lead outside the set (`NodeClear`).

This needs to know which way packets go, and four more invariants say so. `Outward`: messages and announcements of a
client lead away from it, up on its chain and down beside it, so that each node has one link on which they can come
(`OneLinkAway`). `HelloFirst` and `Placed`: a node says hello before a client can connect through it, so the histories
that a new node gets are of clients elsewhere. `RestKept`: what a `joinGroup` has still to send is in its node's
history, so that deprecating the history of a client catches it. `LookupOK`: the way that
`UpDataLink` has looked up before it takes the monitor still leads to the client of its next packet, a client
that may have left. `StepsAreKinds` sorts all actions into eight kinds by what they do to histories and queues,
and each invariant is proved once per kind. TLC checked all of them on the trees of the runs first.

### SeCoGoneProof

| theorem | statement |
|---|---|
| `GoneLeaveNothing` | `Spec => []GoneLeavesNoTrace` |

The property speaks of settled states alone and says nothing of how they are reached. What carries it
(`GoneInv`) speaks of neighbours, in every state. A node is `Marked` by a client when it has a route to it or some of
its history. `Above`: when a node that has not ended is marked by a client below it, or is about to be (`Coming`), the next one towards the
client is marked as well, or has the news of the end on their way up to the node (`EndIn`), or has ended and that has not been noticed;
next to the client itself, the client is still there. `Beside`: when a node that has not ended and that the client has not come
through is marked, or about to be, so is its parent, or the news are on their way down, or the parent has ended. In a settled
state the last alternatives are gone. So no node above the client is marked, from the client up to the root
by the definition of `Chain` as a least set (`ChainLeast`), and then no other running node is, whose marks would
lead up to the root.

`OtherKinds` of steps bury nobody: histories stay, new ones come from a neighbour over the one link that leads
away from the client (`HistoryGrows`, `ComingGrows`), and the news stay, unless the node at one end of their link ends, and
then only in the links that its process takes with it (`Steady`: what it had written to its parent may still be read). Each of the
four burials is a `Funeral`: the node clears all its tables of the clients, nothing of them comes to it any
more (this is `Ending`), every neighbour away from them that runs is told, and no news for another node are lost. Where `NodeGone` empties the link of a child
node with news of a client in it, that client is among the `myClients` that are buried, as it had come through that child (`Listed`).
Two more conjuncts make sure that there is a neighbour to tell: `Fresh`, a node that has
not said hello has no history, and `RootOn`. `Home` and `Quit` are about the tables of the client's own node. Here the order matters in
which a thread reads: `Quit` says that nothing is read from a client whose end has been noticed, so that no join of its
own comes after it. TLC checked these conjuncts too before they were proved.

### SeCoOrderProof

| theorem | statement |
|---|---|
| `RootServesInOrder` | `Spec => []RootClientsInOrder` |
| `MembersHold` | `Spec => []MembersHoldHistory` |
| `NeighboursSettle` | `Spec => []NeighboursAgree` |

All three need the order of a sender's messages along the tree, and for every sender and group a mark at each node says how
far they have come (`Passing`): a node keeps messages up to its mark, what is under way to it lies above its own mark and not above
that of the node it comes from, and the marks fall away from the sender. The marks are not in the program, they
exist in every state; the node that routes a message gets its number as its mark (`MarkingRoutesOne`).
With them, links into nodes and histories are in order (`InLine`, `KeptInOrder`), and so is what `getMsgs` and `getAllMsgs` make of
the histories (`GetAllMsgsOrdered`): every sender's messages, in a sequence that mixes senders.
Skipping is not thinning here, as it matters that nothing else is lost: `Spares` says that
`PPSender.run` leaves out packets marked deprecated and no others.

The first two theorems are about one client, and `ClientSteps` sorts all actions into eight kinds by
what they do to its stream, that is, what it has received and what is on its way. `RootServes`: of every two messages in the stream of a client of the
root that are not in order there is an answer to a join of their group between them, and the root's join is never
half done. An answer brings the history with it, which begins anew; a routed message has the
highest number that the root has passed on. `Holds`: for each member that is connected, every message of
its node's history is in its stream after the last answer to a join, or is among what its thread has
still to send (`Pending`), or its thread has answered and has not copied the history yet. The last two alternatives are the join
that takes the monitor call by call: what `cleanMsgs` drops in between is
taken out of the copy and out of the history alike, and what is routed in between comes on its own, as the
client is a member before it is answered. That a client which is connected is in `local` of its node, so that it gets what is routed, is `OnIsLocal`.

`NeighboursAgree` speaks of quiet links alone, and holds because of what is true when they are not (`FollowInv`).
`Holding` is what a node will keep when it has read a link to the end: what it keeps now and what comes, without what
a SYNC_MSG or the news of an end on the link will clear. `Follows`: between two nodes
that run and have greeted each other, and for every client, the node nearer to the client keeps exactly what the other one will hold
(`Agree`). A message that is routed is added on both sides at once, at the sender of the link to what it
keeps, at its receiver to what it will hold; reading moves it from the link to the table and changes nothing. The
difficult steps are those that skip: a SYNC_MSG or a burial marks packets deprecated
that may already be written, and either way what follows them in the link clears them (`AgreeRoutes`, `AgreeBuries`).
A new node has heard nothing (`Fresh`, `Unsent`) and is sent all histories in order; that no SYNC_MSG in
them clears what was sent before it needs that a history has one in its first place at most
(`HistoryForm`). `Greets`: a node that its parent does not count in has its hello on the way, so that a quiet link means
that they have greeted. Two histories in order with the same messages are the same (`HistoriesSame`). TLC checked these conjuncts on the
trees of `SeCoHistory` and `SeCoDeep` before they were proved.

### IrouterProof

For every set of leaves, period and number of faults, from `LinksAssumption` (ranges;
`NULL` is no task):

| theorem | statement |
|---|---|
| `TypeCorrect` | `Spec => []TypeOK` |
| `NothingIsLeftBehind` | `Spec => []NothingOutlivesItsTask` |
| `MembershipsFollowTheList` | `Spec => []JoinedIsListed` |
| `SilentLeavesAreDropped` | `Spec => []SilentIsDropped` |
| `OnlyAfterSilence` | `Spec => OnlyTheSilentAreDropped` |

That the leader lists no leaf without a task needs that a request carries its
sender's own address (`OwnAddress`), which with the types is `TypeInv`. The two timer properties follow from `Ages`: an active task
was asked for since its period began, an inactive one was not, and has at most the
rest of a second period (`AgeOf`). `MembershipsFollowTheList` is proved from a lemma
about `refreshMulticastSources` alone, for any router and any list (`RefreshJoined`).

### RTPFecProof

For every modulus, mask width, set of group sizes, path and bound, from `FecAssumption`:

| theorem | statement |
|---|---|
| `FecTypeCorrect` | `Spec => []TypeOK` |
| `ParityIsOfItsGroup` | `Spec => []ParityCoversGroup` |
| `RebuiltWasSent` | `Spec => []RecoveredIsWhole` |
| `SearchesMeetTheirGroup` | `Spec => []SearchMeetsGroup` |

`ParityCoversGroup` is about packets that have left the sender; the
invariant that carries it, `SenderInv`, says of the sender itself that its mask
and its first number name exactly the packets of its parity (`Covers`), through
resets, changes of k and packets out of reach. Its flags are those of the same packets, or a part of them has
been sent (`SentBefore`): a group goes on after `AfterFec` only with all its
packets in it.

All four hold on every path. `FlightInv`: what is in flight or in the buffer was sent. A
rebuilt field is the exclusive or of the parity and the packets of the group that are
held; when one is missing that is the packet's own term (`XorIsTheRest`,
`RebuiltIsTheMissing`). The exclusive or is a symmetric difference, defined by
membership, so no induction over the group is needed. `SearchInv`: `nData`, the slot a search goes on
from, is 0 whenever groups have two packets or more (`Plural`), as each complete or lost
group ends the search. So no packet of a group lies before it. Whether the search then empties
the buffer (`ReadsPast`) changes nothing for these four, and nothing
for the two below either, since on a path that keeps the order no packet behind the group is held when its
parity comes.

The second part of the module adds, about a path that keeps the order:

| theorem | statement |
|---|---|
| `RebuiltNeverArrives` | `Spec => []NothingTwice` |
| `LostIsRebuilt` | `Spec => []SingleLossIsRecovered` |

Both properties speak of a path that keeps the order, and bound recovery from either side.
The invariants build on one another. `LineInv`: packets are in flight in the order of the
source, each group's parity behind its packets, and what has been received comes before what
is in flight. `KeptInv`: as long as the parity packet of a group may still come
(`Pending`), an active receiver holds every packet of it that has arrived, each in the
slot of its distance from the first (`Placed`), so neither `insert` nor the freeing after
another group throws one out. The exception was found by trying to prove it
without: a group that is opened again (k becomes 0 and then not) holds packets that
an earlier parity packet has ended (`Reopened`), and is left out of `SingleLossIsRecovered` by
`ProtectedOnce`. `DoneInv`: what was rebuilt is neither held, received nor in flight (`OnlyRebuilt`), and
a group that has been used has got back its single loss (`Settled`).

Assumptions: `FecAssumption` (ranges, and twice the buffer fits into
the modulus) and `NullAssumption` (an empty slot is no packet).

### FrameBufferProof

For every list of frame lengths, longer than the buffer or not, first number, modulus, buffer size, number of
frames kept, path, build and value of a pointer:

| theorem | statement |
|---|---|
| `TypeCorrect` | `Spec => []TypeOK` |
| `PicturesHaveNoHoles` | `Spec => []NoHoles` |
| `PicturesFollow` | `Spec => []PicturesInOrder` |
| `ArrivedAreShown` | `Spec => []ArrivedIsShown` |

Assumptions: `FrameAssumption` (ranges; the buffer, 500, is no longer than `MaxDiff` and a packet may come
at most a buffer before the first; a pointer is an integer) and `NullAssumption`. Two conditions on a frame stand in the
properties, frame by frame, and no assumption makes them true: `Fits`, a buffer has a slot for each of its packets,
in what the count and `ArrivedIsShown` promise; and `Numbered`, the frame and a buffer
together are no longer than a turn of the numbers (65536), in what `NoHoles` promises. A longer one has two
packets with one number.

`BuffersInv` carries the first two theorems. `Filled`: the slots of a buffer hold packets of one frame,
and if it is `Numbered` each is in the slot of its place or, where `insert` has moved packets on and not
cleared the slots they left, a copy two or more places before its own (`InPlace`). That is
one too many for the completeness check: a copy next to a packet that belongs there never has
the number before it (`NothingLeftBehind`), so a buffer that passes the check holds a row of
places up to the mark or to its end (`ImageIsRow`), which is `NoHoles`. The distance `insert` computes from
wrapping numbers is the difference of the places, or too far to be accepted (`DistanceIsPlace`). If the frame
`Fits` nothing is written at the distance of 500, and each packet taken is in its slot with the
count between 1 and 500 (`Kept`).

The other two need the buffers told apart. `OwnBuffer`: each frame has one buffer, found by its timestamp, in a
narrow build, and in a wide one when the path keeps the order and the frame fits (`Own`). `InLine`, on a path that
keeps the order: what was shown comes before what is buffered, the buffers are in the order of their frames, and
everything held comes before everything in flight. Two buffers may be of one frame only if the
timestamp of the first has been overwritten (`FramesInLine`), and such a buffer has a hole and no mark
(`CountsInLine`), as the packet that overwrote it was taken, so the count was below 500, and in
a buffer still found the count is not below the number of packets. It is never shown, and a
frame has one picture at most. `ArrivedIsHeld`: a packet that came before its frame was closed is in
a buffer of it, unless the frame had a packet refused. When a frame that fits is closed its one
buffer therefore holds all of it, and is complete (`AllHeldIsWhole`).

### Only model-checked

Liveness (`EverySentIsDelivered` and the like, `Agreement`), which is out of the prover's
reach. Every invariant and action property of the runs that pass is proved.

## What is not modelled

* *Streams over RUDP, packet layouts*: data without control of their own.
* *Login, permissions, local groups, client-to-client messages, maximum history
  length, `NoBlocking`, threads of `SeCoAccess`*: planned, next section.
* *Switching, targets, mixing and transcoding in the router*: tables changed by one
  thread, and media data.
* *RTP statistics, ICF2's scheduler*: planned. `IrouterLinks` relies on what the
  scheduler promises.
* *Payload formats, H.26x and JPEG headers, codecs, audio, video, MCU mixing*: signal
  processing and layouts.
* *User interfaces, launchers, gateways over external stacks*: no protocol
  state of this repository.
* *Vendored code*: most of the C and C++ of the repository is not Isabel's (copies of
  ffmpeg, codecs, VNC and others). It is not modelled, so that the share of all lines
  that a model covers stays small however much of Isabel's own code is.

## Plan

Done: `FifoChannel`, `RUDP`, `SeCo`, `IrouterLinks`, `RTPFec`, `FrameBuffer`, and
proofs about all of these.

1. `SeCoLogin`: hello, login and permissions along the tree; identifiers unique and
   routed, answers matched to their requests. Abstract specification: an allocator
   that gives each client one fresh identifier. It then replaces `Connect`.
2. `SeCo` completed: local groups, client-to-client messages, maximum length of
   histories, `END_SESSION`.
3. `PacketProcessor` with `NoBlocking`: sender list, close, the watchdog.
   Abstract specification: a queue that is closed if its reader does not read.
4. `SeCoAccess`: reader thread, listeners, waiting loops; who waits for whom.
5. ICF2's scheduler (`sched.cc`: deadlines, removal of a task by itself, nested
   dispatch) and what `IrouterLinks` assumes of it as its abstract specification; RTP
   statistics as functions over wrapping numbers.
6. Proofs about the modules above, as they come; `SeCo` completed needs `HistoryForm` and
   `Agree` again for histories of bounded length, where neighbours may drop at different times.
7. Runs stay few: new questions are added to existing runs or take the place of a
   weaker one.
