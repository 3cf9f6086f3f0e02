# MIP protocol: models, checks and proofs

TLA+ specifications of the MIP daemon, its routing daemon and the ping programs
(`src/src/*.c`), the TLC runs that check them on small instances, and TLAPS
proofs about them. `PROJECT.json` lists components, runs, mutants, the source
lines of each definition, findings, hazards and theorems.

## 1. The system

One node runs one `mipd`, one `routingd`, and ping clients or a ping server.
They talk over UNIX `SOCK_SEQPACKET` connections to `mipd`; daemons of
different nodes talk in Ethernet frames over one raw socket.

| component | state | operations | talks to |
|---|---|---|---|
| `mipd` loop (`mipd.c`) | `app_fd`, `route_fd`, raw and listening descriptor, `mip_return`, `queue_forward`, the epoll set | accept; frame: forward, ping, pong, ARP request and reply, route; application: ping, pong; routing daemon: hello, update, response | all |
| ARP cache (`arp.c`) | 10 entries, `arp_count` | `arp_lookup`, `arp_lookup_interface`, `arp_insert` | called by the loop |
| ARP queue (`pdu.c` 302-363) | 8 slots of packet, next hop, occupied | `enqueue_arp`, `remove_packet_by_mac` | called by the loop |
| forward queue (`pdu.c` 380-444) | linked list of packets | `enqueue_forward`, `dequeue_forward` | called by the loop |
| PDU codec (`pdu.c` 30-288, `utils.c`) | none, but for the stack of `handle_mip_packet` | `fill_pdu`, `mip_serialize_pdu`, `mip_deserialize_pdu`, string, word and ARP conversions | called by the loop |
| handlers (`utils.c`) | raw socket in `ifs` | `handle_mip_packet`, `handle_app_message`, `handle_route_message`, `send_PDU`, `sendRequestToApp`, `find_matching_sockaddr` | called by the loop |
| routing daemon (`routingd.c`, `route.c`) | `routingTable`, `neighborTable`, `neighborStatus`, `routingTableHasChanged`, shared by two threads without a lock | send thread: hello, timeout check, update; receive thread: hello, update, request | `mipd` |
| ping client, ping server | one connection | connect, write, wait 5 s; read and answer for ever | `mipd` |
| IPC, interfaces, command line, scripts | set up once | | |

The path of a packet: an application message or a frame for another node
becomes a PDU in the forward queue and a request to the routing daemon; the
response is matched with the first packet of the queue; the next hop is looked
up in the ARP cache; if it is unknown the packet goes to the ARP queue and a
request is to be broadcast.

What is hard about it:

* two threads store the same table entries, two stores per change, no lock, and
  in opposite orders;
* `read_buf` of the routing daemon survives an end of file, so that a message is
  handled again, and `rcv_buf` of `mipd` is uninitialised, so that the part of a
  message that was not sent is read from what older frames left on the stack;
* a response names no packet, so one lost request shifts all later ones;
* descriptor numbers are closed and used on, and handed out again by `accept`;
* PDUs are freed by `send_PDU` while a queue may still hold them;
* list nodes are freed and handed out again by `malloc`;
* the cache and the queue have limits, and every ARP message counts against one;
* a client's timeout races its pong, and there is one place for all programs;
* one event is handled per turn, from a level-triggered set.

What makes each component correct:

* routing daemon: routes only to nodes that spoke and through nodes that
  spoke; an entry has a next hop and a distance or neither; distances grow only
  when a route is given up; handlers end; silent neighbours are dropped;
* forward queue and loop: a FIFO queue; each queued packet is live and queued once; a
  response meets its packet; nothing is freed that is still queued;
* ARP cache and queue: bindings are stable and bounded; a packet that waits for
  a reply can be reached by one;
* codec: what was put into a header and an SDU is what is taken out, and a
  message is taken for what it is;
* ping session: programs are served one at a time, and nobody takes the place of
  another; a pong reaches the program that asked; programs end; no blocking call
  blocks for ever;
* event loop: what is ready is served.

## 2. Modules

| module | about | composed with |
|---|---|---|
| `RouteTable` | abstract: a table that is read one field of an entry at a time | |
| `RoutingDaemon` | both threads of the routing daemon | `mipd` as its environment; implements `RouteTable` |
| `Mipd` | the daemon, one action per turn of its loop | forward queue as a sequence, ARP cache and queue, handlers, descriptors; routing daemon, programs and network as environment |
| `ForwardQueue` | abstract: a FIFO queue whose enqueue may fail | |
| `LinkedQueue` | the list of `pdu.c` with its nodes | implements `ForwardQueue` (`INSTANCE`) |
| `MipLink` | a message from one node's routing daemon or program to the handler of another | sender, frame, receive buffer |
| `Place` | abstract: one place for all programs; nobody takes it from another | |
| `PingSession` | ping clients, ping server and `mipd` over one application place | network as environment; implements `Place` |
| `EventLoop` | whose event a turn handles | kernel's ready list as environment |

`MCRoutingDaemon`, `MCMipd`, `MCLinkedQueue`, `MCMipLink`, `MCPingSession`
instantiate them for TLC; `...Proofs` hold the theorems. A definition that starts
with the comment "Mutant:" is the definition it is named after with one change that
must break a property (a dropped guard, a missing store, a swapped order); only the
mutants of `PROJECT.json` use it.

### RoutingDaemon

One action is one access to shared memory; a test and its store are one action
only where the other thread cannot make the test false in between (the header
says why). `spc`, `si`, `sj`, `shop`, `smsg` are the place and the locals of the
send thread; `rpc`, `rcv`, `k`, `dest`, `hop` those of the receive thread. `rcv` is
`read_buf` and survives a read at end of file. `mipd` may go at any time. Either it has
not read all that the daemon sent, and the next `read` fails with `ECONNRESET`; or the
`unread` messages that `mipd` had written (at most `MaxUnread`) are still read, and from
then on `read` returns 0.

| code | actions |
|---|---|
| `sendHelloFromApp`, flag test | `SendHello` |
| `checkForNeighborTimeouts` | `CheckNeighbor`, `DropHop`, `DropDist` |
| `sendUpdateFromApp` | `CollectHop`, `CollectDist`, `SendUpdate` |
| `sleep` | `FallAsleep`, `WakeUp` |
| `handleIncomingMessages` | `ReadHello`, `ReadUpdate`, `ReadRequest`, `ReadJunk`, `ReadError`, `ReadEndOfFile` |
| `handleHelloMessage` | `MarkNeighbor`, `GreetHop`, `GreetDist` |
| `handleUpdateMessage` | `Triple`, `Via`, `TripleFault` |
| `handleRequestMessage`, `getNextHopMIP` | `LookupHop`, `SendResponse` with `Answer` |
| exit of `mipd` | `MipdExit` |

The initial tables are zero: `initializeRoutingTable` and `updateRoutingTable`
are never called. An update is read from index 4 of a message whose header has
5 bytes, so the first destination is the `D` of the header (`TagByte`) and the
other fields are any bytes; the same goes for the sender's address of a Hello,
which is one of the bytes that are not sent (`MipLink`): it may be any of `Peers`.
Destinations from 52 to 231 index zeros and ones of other globals, where
no store happens; from 232 on (`FaultFrom`) the default build leaves the mapped
page. The history variables record what the properties speak of and
guard nothing: `spoke` the nodes a message was read of, `cleared` the entries dropped so
far, `fresh` the neighbours whose Hello was handled since the send thread last fell
asleep.

`RouteTable` is what the two threads are to somebody who reads one field at a time:
next hops and distances are two functions, a store is a step, and there are no threads.
An entry is given up before anything else happens to it (`GiveUp`; by `route.c:157` a new
neighbour's Hello would come first, see the zeros of `routingd.c:26` below), then its next hop is
one that spoke (`Adopt`) and its distance falls (`Shorten`), becomes 1 (`Greet`) or
`Infinity` (`Withdraw`). The refinement maps `next_hop`, `distance`, `spoke` and
`cleared`. That it has one step per field and not one per entry is needed: with both
fields in one step the code does not implement it, as `lost_route` shows.

### Mipd

One action is one turn of the epoll loop, with all its handler does. Descriptors
are numbers in `fdTable`, so that `app_fd`, `route_fd` and `raw_fd` keep their value
when the number is closed and given to another connection. PDUs are chunks of
`heap`, so that a queue may point to one that was freed. `queue_arp` has
`QueueSize` slots, `arp_cache` is the sequence of entries in use. `requests` is
what is on its way to and from the routing daemon, in order, named by the packets
they are about; `lost` records that a request or a response was lost; `pings` lists
whom a pong is owed to. A peer may close a connection in any state (`PeerClose`),
after which the loop meets end of file or a failing write.

| code | actions |
|---|---|
| `accept`, identifier (known, unknown or missing), address; its exits | `Accept`, `AcceptFails` |
| frame for another node | `ForwardPacket` |
| ping, pong | `ReceivePing`, `ReceivePong`, `WriteFails` |
| ARP request, reply | `ReceiveArpRequest`, `ReceiveArpReply`, `ArpReplyFault`, `ReceiveOther` |
| route, unknown | `ReceiveOther` |
| `recvfrom` returns 0 | `ReceiveEmpty` (guard `RawEndOfFile`): `DropEmpty` on node 0, `ForwardEmpty` on any other |
| application | `AppPing`, `AppPong`, `AppFault` |
| routing daemon | `RouteBroadcast`, `RouteKnown`, `RouteUnknown` |

`send_PDU("unicast")` fails because `find_matching_sockaddr` is given the
neighbour's MAC address where it looks for one of the node's own interfaces; the
raw socket is then closed. So at this commit the only frames that leave a node are
Hellos and updates. Frames a correct MIP node may send are enabled all the same:
the handlers for them are part of the program. `RouteKnown`, `RouteUnknown` and
`ReceiveArpRequest` therefore close the socket; what follows (the number
given to the next connection) is part of the model.

That responses come in order and only to requests of this node is what `Mipd`
assumes of its environment. The first is the single receive thread of
`RoutingDaemon`; the second needs that no frame of a neighbour reads as a request,
which is part of `MipLink`'s `KindSurvives`: a Hello reads as one or as invalid, an
update as an update.

### ForwardQueue and LinkedQueue

`LinkedQueue` has one action per call (`enqueue_forward` with and without memory,
`dequeue_forward` with and without a packet). `node` is the heap: a freed node
keeps its fields, `malloc` may return any free one, and its content before is
arbitrary. `chain` is a history variable, the nodes in the order they were linked;
the refinement maps the abstract queue to the packets along it. `Mipd` ignores the
result of `enqueue_forward` as the code does and assumes that it has memory.

### MipLink

A byte of `rcv_buf` is known by the message it came with and its place in that
message's array, so that a fresh byte can be told from a stale one; `Junk` is a byte
that no message wrote. `Receive(m)` is the whole way of a message:

| code | definitions |
|---|---|
| `sendHelloFromApp`, `sendUpdateFromApp`, `create_sdu_miparp`, texts | `Header`, `Content` |
| `uint8ArrayToUint32Array`, `stringToUint32Array` | `Words`, `Packed` |
| `fill_pdu` with the bit fields of `mip_hdr` | `fill_pdu` |
| `mip_serialize_pdu`, `mip_deserialize_pdu` | the same names |
| `recvfrom` into an uninitialised array | `Overwrite`, `UseStack` |
| `uint32_to_uint8`, `decode_sdu_miparp` | `Unpacked`, `decode_sdu_miparp` |
| `handle_mip_packet`, types in `handleIncomingMessages` | `Types`, `PingTypes`, `RouteType` |

`sdu_len` counts words where it is computed and bytes where the SDU is attached
(`pdu.c:167`), so that a frame carries a quarter of the message. Words are kept in
host order on the wire; both hosts are little-endian, so that of each cut word the
last bytes arrive first. Between two frames any bytes of the stack may become any others
(`UseStack`): the constant `Scribbles` is the set of what may be written, as functions
from places to bytes. All kinds of messages are enabled, also those whose sending
fails today (see `Mipd`).

### PingSession

An action of a program is one of its system calls. `mipd`'s turn is one action but
for two places where another process sees it halfway: after `accept`, where the read
of the identifier blocks, and between the write of a pong and the `close`.

| code | actions |
|---|---|
| `ping_client.c`: connect, identifier, ping, answer, timeout | `Connect`, `Identify`, `Ping`, `ReadAnswer`, `Timeout` |
| `ping_server.c`: connect, identifier, address byte, loop | `Connect`, `Identify`, `ReadAddress`, `Serve` |
| the end of a program by a signal | `Stop` |
| `mipd.c`: accept, identifier | `Accept`, `ReadIdentifier` |
| `handle_app_message`: ping, unknown, end of file | `TakePing`, `TakeJunk`, `EndOfFile` |
| ping and pong of another node | `ForeignPing`, `Pong`, `ClosePong` |

A message whose tag is not at index 2 is `"junk"`: a ping with destination or TTL 0
(`strcat` appends at the first zero) and every answer of the server. What is left
unread when a socket is closed resets the connection, as `AF_UNIX` does.
The routing daemon and the network are external: a ping that was taken is answered
at most once.

`Place` is what `app_fd` is to the programs: `"none"` or the program that has it. It is
taken from nobody, only who has it is served, and it is given up. The refinement maps it
to the program that holds the number `app_fd` while that number is in the epoll set, and to
`"none"` before, after the number was closed and while a pong is being followed by the
`close`; `served` is the history `taken`. Whether a place that was given up is given to the
next program is left open by `Place`; that the code does not is `free_place`.

### EventLoop

`epoll_wait` returns up to ten events and `mipd` looks at `events[0]` only. The
kernel's list of ready descriptors is external: it is in the order in which
descriptors became ready, and with level triggering what is still ready goes back in
the order it was found. The list is kept as what it is, an order: the set `readyList` of
pairs, a descriptor with itself and with those behind it. `Joined` puts one at the end,
`Kept` takes some out and leaves the others in their order, `IsFirst` is `events[0]`.
A handler may close the raw socket, the application's or
none, or end `mipd`; which one is `Mipd`'s matter and is left open here.

## 3. Runs

| run | instance | shows |
|---|---|---|
| `routing` | 2 entries, bytes 0..3, senders 1 and 3, updates of 2 triples | `TypeOK`, `HopsSpoke`, `NoHoplessRoute`, `RoutesGetShorter`, `ImplementsTable`, `HandlersRunDown`, `HandlersReturn`, `SilentAreDropped` |
| `mipd` | 3 packets, 2 MIP and 2 MAC addresses, cache and ARP queue of 2, descriptors 4..7 | `TypeOK`, `ForwardQueueSound`, `ResponsePairing`, `FirstBindingWins`, `RequestsLeak` |
| `forward_queue` | 4 nodes, 2 packets, any initial heap | `TypeOK`, `ListSound`, `ImplementsFifo` |
| `mip_link` | 2 neighbours, texts of 14, 255 and 286 letters, TTL 17, 9 table entries, 32 bytes of the buffer | `TypeOK`, `HeaderSurvives`, `BytesInPlace`, `KindSurvives`, `ArpTargetSurvives`, `TextFits`, `HelloNeedsJunk` |
| `ping_session` | 2 clients, the server, 2 foreign pings | `TypeOK`, `PongsAreOwn`, `ImplementsPlace`, `ClientsEnd`, `AcceptReturns` |
| `event_loop` | descriptors 4..8, 6 messages or connections | `TypeOK`, `NothingForgotten`, `WaitingIsServed` |
| `lost_route` | 1 entry | violated: `LostRouteHasBoth` |
| `fresh_neighbor` | 1 entry | violated: `FreshNeighborsStay` |
| `pong_address`, `response_packet` | as `mipd` | violated: `PongReturnsToPinger`, `ResponseMatchesPacket` |
| `hello_lost` | as `mip_link` | violated: `HelloIsUnderstood` |
| `free_place` | as `ping_session` | violated: `FreePlaceIsGiven` |

What the passing runs say about the code:

* `HopsSpoke`: no interleaving advertises, stores or answers a next hop that never
  spoke. It says no more than that: a next hop of -1 that is answered as the byte 255
  counts as no route, and a triple may join the next hop of one route to the distance
  of another.
* `NoHoplessRoute`: the race of an update with the timeout check cannot leave a
  learnt distance without a next hop, thanks to the opposite orders of the stores;
  the remaining case, distance 1, is the race with a Hello.
* `RoutesGetShorter`: a distance grows only in `DropDist` or when a Hello meets the
  entry half cleared.
* `ImplementsTable`: the last two in one: every store of either thread is a step of
  `RouteTable`.
* `HandlersRunDown`: no step of either thread gives a running handler more to do.
* `HandlersReturn`: no message wedges the receive thread. `SilentAreDropped`: a neighbour
  of whom no Hello is handled any more is dropped, and no later store marks it again.
* `ForwardQueueSound`: through every use of a stale descriptor or pointer, the
  forward queue owns exactly the live packets.
* `ResponsePairing`: `dequeue_forward` never meets an empty queue, so that
  `mipd.c:550` never passes NULL on, and without a loss each response meets its packet.
* `FirstBindingWins`: what `arp_lookup` returns for an address never changes,
  whatever is inserted and when the cache is full.
* `RequestsLeak`: an ARP request that was made, and not sent, stays allocated: no later
  turn frees it.
* `ListSound`, `ImplementsFifo`: however nodes are reused, the list is one chain from
  `front` to `rear` and behaves as a FIFO queue.
* `HeaderSurvives`, `BytesInPlace`: the mismatched masks (`& 0xff` into 4 bits, `& 0xf` out
  of 3) never make a field run into its neighbour, and the length arrives modulo 64; a byte
  is read at its own place or not at all, never at another's.
* `KindSurvives`: ARP messages, updates and texts of 8 to 63 words (25 to 248 letters) are
  taken for what they are whatever the stack holds; a Hello is at worst invalid. Shorter
  texts leave their tag behind, and longer ones have their length cut to 6 bits: either may
  be taken for something else.
* `ArpTargetSurvives`: the two confusions of `sdu_len` cancel for ARP: one word,
  called four, four bytes sent.
* `TextFits`: a receiver that gets the length of a text, of up to 63 words, finds all its
  letters inside the SDU.
* `HelloNeedsJunk`: no message of the protocol leaves an `L` where a Hello lacks it: a
  Hello works only by memory that other code wrote.
* `PongsAreOwn`: a pong that comes late is given to nobody who did not ask, although
  numbers are used again.
* `ImplementsPlace`: numbers that are closed and handed out again, clients that end or time
  out and late pongs make of `app_fd` one place that nobody takes from another.
* `ClientsEnd`, `AcceptReturns`: each client ends, and the blocking read after `accept`
  returns, as both programs write before they wait.
* `NothingForgotten`: although a turn takes one event, and of that descriptor one message,
  what is left ready stays in the list.
* `WaitingIsServed`: what is ready first stays first until it is ready no more, so that one
  event per turn serves all as long as traffic pauses at times, until `mipd` ends or the
  first event is the end of the routing daemon. That descriptor is never closed and stays
  ready; whether others are served after that depends on the order in which Linux reports
  events, which the code does not fix and the property leaves out.

Violated statements (`findings`):

* `lost_route` (`route.c:103`): an entry at rest is half lost, after the stores of the two
  threads met.
* `fresh_neighbor` (`route.c:99`): a neighbour whose Hello has just been handled is dropped
  by the timeout check; `lastHelloReceived` is never written, so every check drops every
  marked neighbour.
* `pong_address` (`mipd.c:225`): a pong goes to another node than its ping came from.
* `response_packet` (`mipd.c:549`): a response sends another packet than was asked about.
* `hello_lost` (`route.c:290`): a Hello arrives without address and last letter and ends
  the daemon that reads it.
* `free_place` (`he1-mn-script.py:113`): a client that comes when the one before has had its
  answer does not get the place, as `app_fd` keeps the number it closed (`mipd.c:248`).

Other disagreements between code and documents are single steps of the models: an action
does what the code does, and a property could only repeat it. They have no run:

| code | what it does | what is said | in the model |
|---|---|---|---|
| `routingd.c:26` | tables start as zeros, `initializeRoutingTable` is never called: a new neighbour finds next hop 0, no -1, and keeps distance 0 | a new neighbour gets a direct route of cost 1 (`route.c:157`) | `InitialTable`, `IsNewNeighbor` |
| `routingd.c:27` | the change flag is never set | "Global flag for routing table change" | no action sets it |
| `route.c:253` | at end of file the message in `read_buf` is handled again, which marks a silent neighbour for ever | a neighbour without Hellos is dropped (`route.c:99`) | `ReadEndOfFile`; `SilentAreDropped` speaks of Hellos that are handled, not sent |
| `route.c:187` | reads from index 4 | "Start reading after the header", which has 5 bytes | `TagByte` in `Triple` |
| `routingd.c` request | a node without a route is answered with next hop 0 | | `Answer` |
| `pdu.c:322` | a packet is stored in every free slot | "finds the first unoccupied slot" (`pdu.c:315`) | `enqueue_arp` |
| `mipd.c:593` | the packet that waits is sent and freed in place of the ARP request | "Send ARP request to all interfaces" (`mipd.c:576`) | `RouteUnknown` |
| `mipd.c:292` | the reply to an ARP request is not sent | | `ReceiveArpRequest` |
| `pdu.c:211` | the length is cut to 6 bits | 9 bits (`mip.h:21`) | `mip_deserialize_pdu` |
| `ping_server.c:58` | the first ping is read as the server's address | "Read a single byte for the MIP address" | `ReadAddress` |
| `utils.c:222` | the tag of the server's answer is put where `mipd` does not look, which ends it | `mipd.c:422` handles the answer | `Serve`, `TakeJunk` |
| `utils.c:359` | the end of a client without an answer ends `mipd` | a client of the same node pings again after a timeout (`he1-mn-script.py:106-119`) | `EndOfFile` |

Deadlock is checked in `forward_queue` and `mip_link`. In the others all processes
may end, in all the ways the code has.

### Bounds

* `MaxNodes`: entries interact only through the update under construction and the
  index of the timeout check; with 2 the two threads meet on one entry while
  the other is left alone or advertised. `MaxByte` 3 leaves bytes that are no index,
  the byte 255 and the tag; `Infinity = 7` has that byte as its low byte, as `INT_MAX`
  has 255. `Triples`: 2 has a first triple, whose destination is the tag, and another.
  `MaxUnread = 1`: a message left by `mipd` is read after it closed, then comes the end
  of file.
* `Chunks`: 3 lets two packets wait while an ARP request is made.
  `MaxFd = 7`: one application and one routing daemon, or a client that is never
  served; `accept` fails when they are used up. `CacheSize = 2`, `QueueSize = 2` reach
  the limits; two MAC addresses for one node give rival bindings. `MaxPings` bounds the
  history of unanswered pings. Chunks and MAC addresses are interchangeable (symmetry);
  no property of that run is a liveness property. `LocalMip` is 1; that node 0 drops the
  empty frame others forward (`ReceiveEmpty`) is covered by the theorems, which hold for
  every local address.
* `Nodes` of the list: 4 has a first, a last and inner nodes, and reuse. Packets and
  nodes are interchangeable; `ImplementsFifo` has no fairness.
* `Texts`: 14 letters are 5 words, so that the tag is not in the frame; 255 is the
  longest with its length in a byte and has 65 words, which is 1 in 6 bits; 286 wraps to 30,
  9 words. `Ttls`: 17 does not fit 4 bits. `MaxNodes = 9` is 8 words, enough for the whole
  header of an update. `Size` is a multiple of a word and longer than what any handler looks
  at. `Scribbles` (`FewScribbles`): zeros or `L` everywhere, `L` from byte 6 on, `P` in bytes
  4 to 6, a zero in byte 7: all, a tail, a middle and a single byte. The theorems have no
  such limit.
* Two clients and the server reach a program that is served, one that is refused and
  one in the backlog. `MaxForeign = 2`: the ping the server loses and one it answers.
* `Budget = 6`: both places are taken, a third connection is refused, and three
  messages compete.

### Fairness

* `RoutingDaemon`: weak fairness of the send thread and of a handler that has
  begun: both are POSIX threads that never wait for each other, and `sleep` ends.
  Reading is not fair: nobody has to send a message.
* `PingSession`: weak fairness of each program, whose 5 s timeout is an action of its own,
  and of the read of the identifier that follows an `accept`: it is a blocking call whose
  message is there. `mipd`'s loop is not fair (`event_loop` shows when it may starve a
  descriptor), nor are signals and the network.
* `EventLoop`: weak fairness of a turn. Traffic is finite by `Budget`; that stands for
  pauses in it.
* `Mipd`, `LinkedQueue`, `MipLink` state safety only and need none.

## 4. Proofs

Each theorem holds for all values of the constants that meet the named assumptions of
its module; TLC evaluates them for the values of the runs.

| theorem | statement | argument |
|---|---|---|
| `RoutingDaemonProofs` | | |
| `TypeCorrect` | `[]TypeOK` | `TypeInv` adds to `TypeOK` the range of each index where it is used (`Places`) |
| `OnlyHeardHops` | `[]HopsSpoke` | `HopInv`: the next hops on their way (in `shop`, `smsg`, `hop`, and the sender of the message in `rcv`) have spoken too; needs `StrangerInv`: a thread that stores to an entry found it cleared |
| `RoutesHaveHops` | `[]NoHoplessRoute` | `PairInv`: an entry without next hop has distance 1 or `Infinity`, unless one of the threads is between its two stores |
| `RoutesOnlyShorten` | `RoutesGetShorter` | step by step from `TypeInv` |
| `HandlersOnlyRunDown` | `HandlersRunDown` | `AccessesLeft` is two per triple, or what the other handlers have; each access of the receive thread lowers it, no other step touches it |
| `DaemonImplementsTable` | `ImplementsTable` | a store to a field is a store to one of the two functions (`StoreToHops`, `StoreToDists`); `StrangerInv` gives that the entry was dropped, `HopInv` that the new hop spoke; all else leaves the table alone (`TableStores`) |
| `MipdProofs` | | |
| `DaemonTypeCorrect` | `[]TypeOK` | with `DescriptorsOK`: numbers in the epoll set are open |
| `ForwardQueueIsSound` | `[]ForwardQueueSound` | a chunk that is freed or allocated is not queued: packets leave the queue in the turn they are freed in |
| `ResponsesArePaired` | `[]ResponsePairing` | requests are the queue, or shorter once one was lost |
| `FirstBindingStays` | `FirstBindingWins` | `arp_insert` appends, `arp_lookup` takes the first |
| `RequestsAreNeverFreed` | `RequestsLeak` | what is destroyed is the head of the forward queue (`HeapStep`), which by `ForwardQueueSound` is no request |
| `LinkedQueueProofs` | | |
| `ListIsSound`, `ListTypeCorrect` | `[]ListSound`, `[]TypeOK` | inductive together: the size is a number as it is the length of the chain |
| `ListImplementsFifo` | `ImplementsFifo` | each action maps to the abstract one; writing a node outside the chain changes no packet of it |
| `MipLinkProofs` | | |
| `LinkTypeCorrect` | `[]TypeOK` | part of `LinkInv` |
| `HeaderArrives` | `[]HeaderSurvives` | arithmetic of quotients and remainders (`ArrivedFields`), and `Latest`: header and buffer are those of `frame` |
| `BytesKeepTheirPlace` | `[]BytesInPlace` | `Written`: what a message wrote lies at its packed place; packing twice is the identity |
| `KindsSurvive`, `ArpTargetArrives`, `TextsFit`, `HellosNeedJunk` | their namesakes | each letter that is looked at is fresh, or stale from the same place of an older message |
| `PingSessionProofs` | | |
| `SessionTypeCorrect` | `[]TypeOK` | with `NumbersInv`: programs in the backlog have no number, numbers are held once, only `app_fd` is watched |
| `PongsReachTheirAsker` | `[]PongsAreOwn` | `AnswerInv`: unless mipd is down, whoever waits for a pong holds the number `app_fd` |
| `SessionImplementsPlace` | `ImplementsPlace` | `NumbersInv` makes the holder of `app_fd` unique, so that the `CHOOSE` in the mapping is that program (`PlaceHolder`); each step takes the place, serves its holder, gives it up or leaves it |
| `EventLoopProofs` | | |
| `LoopTypeCorrect` | `[]TypeOK` | `LoopInv`: with `pending` and `left` within the budget, and that the fixed descriptors and the two places are all that is watched; `Joined` and `Kept` keep an order an order |
| `NothingIsForgotten` | `[]NothingForgotten` | part of `LoopInv`: what becomes ready joins the list, and only what is not ready or closed leaves it |

The properties are seldom inductive because they do not see what a thread carries in
its locals, what a queue still holds or where a stale number points; each
invariant adds just that. The assumptions are: addresses, limits and sizes are numbers in the
ranges the code gives them; `Infinity` is longer than any learnt distance; a
table has at least eight entries and the followed part of the buffer is whole words
(`LinkAssumption`); names of programs are not names of states (`SessionAssumption`).

Only model-checked: liveness (`HandlersReturn`, `SilentAreDropped`, `ClientsEnd`,
`AcceptReturns`, `WaitingIsServed`), which is beyond the prover, as is `ENABLED` (of
`HandlersReturn`, `HandlersRunDown` is the part that does not rest on the scheduler, of
`WaitingIsServed` it is `NothingForgotten`); and the violated statements, whose
counterexamples are TLC's. Every invariant, action property and refinement of the
passing runs is a theorem.

## 5. Not modelled

* More than one interface. With two the first Hello is freed by the first `send_PDU`
  and used again for the second interface (`mipd.c:493-506`).
* A network of routing daemons. What one reads of another's update is the first quarter
  of it, one byte off, and then remains of the stack (`BytesInPlace`), and of a Hello not even the sender (`HelloIsUnderstood`); `RoutingDaemon`
  therefore reads any bytes, and a composition over the wire would add nothing to that.
  For the same reason loops of routes and distances that wrap (`route.c:341`) have no property.
* Memory that runs out, but for `enqueue_forward` in `LinkedQueue`; memory that is never
  freed (`mipd.c:580`).
* Store buffering: steps of the two threads are sequentially consistent.
* Contents of texts, Ethernet headers (copied as they are), big-endian hosts.
* Start-up (`create_raw_socket`, `get_mac_from_ifaces`, `create_unix_sock`): one call
  after the other, each of which ends the program if it fails; the state after it is
  `Init`. Command lines, printing, Mininet scripts, `Makefile`.
* Functions nothing calls: `initializeRoutingTable`, `updateRoutingTable`,
  `decode_fill_ping_buf`, `clear_ping_data`.

## 6. Plan

Done: the modules above and their proofs. What could still be added:

1. interfaces as a constant of `Mipd`, with the use of a freed PDU that two of them bring;
2. the response of the routing daemon and the pairing of `Mipd` in one module, with both
   sides of the connection and its end.
