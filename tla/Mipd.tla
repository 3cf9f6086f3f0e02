-------------------------------- MODULE Mipd --------------------------------
(***************************************************************************)
(* The MIP daemon, mipd.c: one thread, one epoll loop.  An action is one   *)
(* turn of the loop: the event taken first, and all its handler does.      *)
(* Descriptors are numbers, so that a number closed and handed out again   *)
(* keeps the meaning the old variables gave it; PDUs are heap chunks, so   *)
(* that a pointer outlives what it points to.  One Ethernet interface;     *)
(* which of the ready events comes first is left open.                     *)
(***************************************************************************)
EXTENDS Integers, Sequences, FiniteSets

CONSTANTS
    LocalMip,       \* local_mip_addr
    Mips,           \* MIP addresses in use, LocalMip among them
    Macs,           \* MAC addresses of the neighbours
    Chunks,         \* heap chunks a PDU may occupy: a bound on live PDUs
    MaxFd,          \* last descriptor number: a bound on open descriptors
    CacheSize,      \* ARP_CACHE_SIZE (10)
    QueueSize,      \* MAX_QUEUE_SIZE (8)
    MaxPings        \* bound on the pings without an answer

Broadcast == 255                \* BROADCAST_MIP_ADDR
Free == -1                      \* an unallocated chunk
None == 0                       \* a slot without a packet
raw_fd == 4                     \* epoll_fd is 3
listening_fd == 5
Fd == raw_fd .. MaxFd

ASSUME MipdAssumption ==
    /\ LocalMip \in Mips /\ Mips \subseteq 0 .. 254
    /\ None \notin Chunks /\ Chunks # {}
    /\ MaxFd \in Nat /\ MaxFd > listening_fd
    /\ CacheSize \in Nat \ {0} /\ QueueSize \in Nat \ {0}
    /\ MaxPings \in Nat \ {0}

VARIABLES
    running,
    fdTable,        \* what each descriptor number refers to
    epoll,          \* the numbers registered with epoll
    app_fd, route_fd,
    heap,           \* chunk |-> miphdr.dst of the PDU in it, or Free
    queue_forward,  \* packets that wait for a routing response
    queue_arp,      \* packets that wait for an ARP reply
    arp_cache,
    mip_return,     \* where the next pong goes
    requests,       \* packets of the requests without a response taken yet
    lost,           \* history: a request or a response got lost
    pings           \* history: sources of the pings without a pong

descriptors == <<fdTable, epoll, app_fd, route_fd>>
routing == <<requests, lost>>
vars == <<running, descriptors, heap, queue_forward, queue_arp, arp_cache,
          mip_return, routing, pings>>

\* A connection whose peer has closed it is "...Gone".
Open == {"app", "route", "unknown"}
Gone == {"appGone", "routeGone", "unknownGone"}
WhenGone == [app |-> "appGone", route |-> "routeGone", unknown |-> "unknownGone"]

\* A frame for this node or for all.
Frame == [type : {"ping", "pong", "arpRequest", "arpReply", "route", "other"},
          src : Mips \ {LocalMip}, mac : Macs, target : Mips]

TypeOK ==
    /\ running \in BOOLEAN
    /\ fdTable \in [Fd -> {"free", "raw", "listen"} \cup Open \cup Gone]
    /\ epoll \subseteq {fd \in Fd : fdTable[fd] # "free"}
    /\ app_fd \in Fd \cup {-1} /\ route_fd \in Fd \cup {-1}
    /\ heap \in [Chunks -> Mips \cup {Free, None, Broadcast}]
    /\ queue_forward \in Seq(Chunks)
    /\ queue_arp \in [1 .. QueueSize -> [packet : Chunks \cup {None},
                                         next_hop : Nat]]
    /\ arp_cache \in Seq([mip : Mips, mac : Macs])
    /\ Len(arp_cache) <= CacheSize
    /\ mip_return \in Mips \cup {0}
    /\ requests \in Seq(Chunks)
    /\ lost \in BOOLEAN
    /\ pings \in Seq(Mips)

Init ==
    /\ running = TRUE
    /\ fdTable = [fd \in Fd |-> CASE fd = raw_fd -> "raw"
                                  [] fd = listening_fd -> "listen"
                                  [] OTHER -> "free"]
    /\ epoll = {raw_fd, listening_fd}
    /\ app_fd = -1 /\ route_fd = -1
    /\ heap = [c \in Chunks |-> Free]
    /\ queue_forward = <<>>
    /\ queue_arp = [i \in 1 .. QueueSize |-> [packet |-> None, next_hop |-> 0]]
    /\ arp_cache = <<>>
    /\ mip_return = 0
    /\ requests = <<>> /\ lost = FALSE /\ pings = <<>>

Exit ==
    /\ running' = FALSE
    /\ UNCHANGED <<descriptors, heap, queue_forward, queue_arp, arp_cache,
                   mip_return, routing, pings>>

(***************************************************************************)
(* The ARP cache, arp.c.                                                   *)
(***************************************************************************)

\* The entries are searched from the oldest one.
Bound(m) == {i \in 1 .. Len(arp_cache) : arp_cache[i].mip = m}
Known(m) == Bound(m) # {}

\* Mutant: searched from the newest one.
arp_lookupNewest(m) == arp_cache[CHOOSE i \in Bound(m) : \A j \in Bound(m) : i >= j].mac

arp_lookup(m) == arp_cache[CHOOSE i \in Bound(m) : \A j \in Bound(m) : i <= j].mac

\* Mutant: the cache has no limit.
arp_insertUnbounded(m, mac) ==
    arp_cache' = Append(arp_cache, [mip |-> m, mac |-> mac])

\* An entry is appended, even for an address the cache has, unless it is full.
arp_insert(m, mac) ==
    arp_cache' = IF Len(arp_cache) < CacheSize
                 THEN Append(arp_cache, [mip |-> m, mac |-> mac])
                 ELSE arp_cache

(***************************************************************************)
(* Descriptors.                                                            *)
(***************************************************************************)

Close(fd) ==
    /\ fdTable' = [fdTable EXCEPT ![fd] = "free"]
    /\ epoll' = epoll \ {fd}
    /\ UNCHANGED <<app_fd, route_fd>>

\* What was on its way through the descriptor is lost with it.
LoseRequests(fd) ==
    /\ requests' = IF fd = route_fd THEN <<>> ELSE requests
    /\ lost' = (lost \/ (fd = route_fd /\ requests # <<>>))

\* send_PDU: sendto on rsock with the interface found by MAC address, none
\* of which is a neighbour's, or with the interface itself in a broadcast.
\* Without an interface the raw socket refuses; a connection that got the
\* number of the raw socket takes whatever is sent.  A failure closes rsock.
SendFails(kind) ==
    \/ fdTable[raw_fd] = "raw" /\ kind = "unicast"
    \/ fdTable[raw_fd] \in Gone

send_PDU(kind) ==
    IF SendFails(kind) THEN Close(raw_fd) ELSE UNCHANGED descriptors

\* Mutant: the newest packet goes to the front of the queue.
EnqueueAtFront(packet, dst) ==
    /\ heap' = [heap EXCEPT ![packet] = dst]
    /\ queue_forward' = <<packet>> \o queue_forward
    /\ IF route_fd # -1 /\ fdTable[route_fd] = "route"
       THEN requests' = Append(requests, packet) /\ UNCHANGED lost
       ELSE lost' = TRUE /\ UNCHANGED requests

\* enqueue_forward, then sendRequestToApp: the packet stays in the queue even
\* if the request cannot be sent.
EnqueueAndRequest(packet, dst) ==
    /\ heap' = [heap EXCEPT ![packet] = dst]
    /\ queue_forward' = Append(queue_forward, packet)
    /\ IF route_fd # -1 /\ fdTable[route_fd] = "route"
       THEN requests' = Append(requests, packet) /\ UNCHANGED lost
       ELSE lost' = TRUE /\ UNCHANGED requests

(***************************************************************************)
(* The listening socket.                                                   *)
(***************************************************************************)

FreeFd == {fd \in Fd : fdTable[fd] = "free"}
LowestFree == CHOOSE fd \in FreeFd : \A other \in FreeFd : fd <= other

\* The connection and its identifier; a second of its kind, and one whose
\* identifier means nothing, stays open, but is neither stored nor registered.
\* Without an identifier, any may be found in its place.
Accept(kind) ==
    /\ running /\ FreeFd # {}
    /\ fdTable' = [fdTable EXCEPT ![LowestFree] = kind]
    /\ IF kind = "app" /\ app_fd = -1
       THEN app_fd' = LowestFree /\ epoll' = epoll \cup {LowestFree}
                                 /\ UNCHANGED route_fd
       ELSE IF kind = "route" /\ route_fd = -1
       THEN route_fd' = LowestFree /\ epoll' = epoll \cup {LowestFree}
                                   /\ UNCHANGED app_fd
       ELSE UNCHANGED <<epoll, app_fd, route_fd>>
    /\ UNCHANGED <<running, heap, queue_forward, queue_arp, arp_cache,
                   mip_return, routing, pings>>

\* The numbers have run out, or the peer is gone before its identifier is read
\* or the local address is written.
AcceptFails == running /\ Exit

\* A peer closes its end.  Of the requests it was sent, the routing daemon
\* has answered the first n.
PeerClose(fd) ==
    /\ running /\ fdTable[fd] \in Open
    /\ fdTable' = [fdTable EXCEPT ![fd] = WhenGone[fdTable[fd]]]
    /\ IF fd = route_fd
       THEN \E n \in 0 .. Len(requests) :
               /\ requests' = SubSeq(requests, 1, n)
               /\ lost' = (lost \/ n < Len(requests))
       ELSE UNCHANGED routing
    /\ UNCHANGED <<running, epoll, app_fd, route_fd, heap, queue_forward,
                   queue_arp, arp_cache, mip_return, pings>>

(***************************************************************************)
(* Incoming MIP traffic: whatever is read from the number raw_fd is taken  *)
(* for a frame.                                                            *)
(***************************************************************************)

RawReady == running /\ raw_fd \in epoll /\ fdTable[raw_fd] \in Open \cup {"raw"}

\* A packet for another node.
ForwardPacket(dst, pdu) ==
    /\ RawReady /\ dst # LocalMip
    /\ heap[pdu] = Free
    /\ EnqueueAndRequest(pdu, dst)
    /\ UNCHANGED <<running, descriptors, queue_arp, arp_cache, mip_return, pings>>

CanWrite(fd) == fd # -1 /\ fdTable[fd] \in Open

ReceivePing(f) ==
    /\ RawReady /\ f.type = "ping" /\ CanWrite(app_fd)
    /\ Len(pings) < MaxPings
    /\ mip_return' = f.src
    /\ pings' = Append(pings, f.src)
    /\ UNCHANGED <<running, descriptors, heap, queue_forward, queue_arp,
                   arp_cache, routing>>

\* app_fd keeps the number.
ReceivePong(f) ==
    /\ RawReady /\ f.type = "pong" /\ CanWrite(app_fd)
    /\ Close(app_fd) /\ LoseRequests(app_fd)
    /\ UNCHANGED <<running, heap, queue_forward, queue_arp, arp_cache,
                   mip_return, pings>>

WriteFails(f) ==
    RawReady /\ f.type \in {"ping", "pong"} /\ ~CanWrite(app_fd) /\ Exit

ReceiveArpRequest(f) ==
    /\ RawReady /\ f.type = "arpRequest" /\ f.target = LocalMip
    /\ arp_insert(f.src, f.mac)
    /\ send_PDU("unicast")
    /\ UNCHANGED <<running, heap, queue_forward, queue_arp, mip_return,
                   routing, pings>>

\* Mutant: the reply is for whatever waits, which is sent and destroyed.
ReceiveArpReplyToAll(f) ==
    /\ RawReady /\ f.type = "arpReply"
    /\ arp_insert(f.src, f.mac)
    /\ heap' = [c \in Chunks |->
                   IF \E i \in 1 .. QueueSize : queue_arp[i].packet = c THEN Free
                                                                     ELSE heap[c]]
    /\ queue_arp' = [i \in 1 .. QueueSize |-> [queue_arp[i] EXCEPT !.packet = None]]
    /\ UNCHANGED <<running, descriptors, queue_forward, mip_return, routing, pings>>

\* remove_packet_by_mac compares the destination MAC of every packet that
\* waits.  Those still allocated have the address of this node, the
\* broadcast address or none, never a neighbour's; in a freed one anything
\* is found, and what follows frees it again.
ReceiveArpReply(f) ==
    /\ RawReady /\ f.type = "arpReply"
    /\ arp_insert(f.src, f.mac)
    /\ UNCHANGED <<running, descriptors, heap, queue_forward, queue_arp,
                   mip_return, routing, pings>>

Dangling(i) == queue_arp[i].packet # None /\ heap[queue_arp[i].packet] = Free

ArpReplyFault(f) ==
    /\ RawReady /\ f.type = "arpReply"
    /\ \E i \in 1 .. QueueSize : Dangling(i)
    /\ Exit

\* A routing message goes to route_fd, whether or not that succeeds; an ARP
\* request for another node and an unknown type are thrown away.
ReceiveOther(f) ==
    /\ RawReady
    /\ \/ f.type \in {"route", "other"}
       \/ f.type = "arpRequest" /\ f.target # LocalMip
    /\ UNCHANGED <<running, descriptors, heap, queue_forward, queue_arp,
                   arp_cache, mip_return, routing, pings>>

\* The peer of a connection that got the number raw_fd has gone: recvfrom
\* returns 0, rsock is closed, and the empty header is for MIP address 0.
RawEndOfFile == running /\ raw_fd \in epoll /\ fdTable[raw_fd] \in Gone

\* Node 0 destroys it as a packet of an unknown type, ...
DropEmpty ==
    /\ RawEndOfFile
    /\ Close(raw_fd) /\ LoseRequests(raw_fd)
    /\ UNCHANGED <<running, heap, queue_forward, queue_arp, arp_cache,
                   mip_return, pings>>

\* ... any other forwards it.
ForwardEmpty(pdu) ==
    /\ RawEndOfFile /\ heap[pdu] = Free
    /\ Close(raw_fd)
    /\ heap' = [heap EXCEPT ![pdu] = 0]
    /\ queue_forward' = Append(queue_forward, pdu)
    /\ IF route_fd \notin {-1, raw_fd} /\ fdTable[route_fd] = "route"
       THEN requests' = Append(requests, pdu) /\ UNCHANGED lost
       ELSE /\ requests' = IF route_fd = raw_fd THEN <<>> ELSE requests
            /\ lost' = TRUE
    /\ UNCHANGED <<running, queue_arp, arp_cache, mip_return, pings>>

ReceiveEmpty(pdu) == IF LocalMip = 0 THEN DropEmpty ELSE ForwardEmpty(pdu)

MipTraffic ==
    \/ \E dst \in Mips, pdu \in Chunks : ForwardPacket(dst, pdu)
    \/ \E f \in Frame :
          \/ ReceivePing(f) \/ ReceivePong(f) \/ WriteFails(f)
          \/ ReceiveArpRequest(f)
          \/ ReceiveArpReply(f) \/ ArpReplyFault(f) \/ ReceiveOther(f)
    \/ \E pdu \in Chunks : ReceiveEmpty(pdu)

(***************************************************************************)
(* Application traffic.                                                    *)
(***************************************************************************)

AppReady(kinds) ==
    running /\ app_fd \in epoll \ {raw_fd} /\ fdTable[app_fd] \in kinds

AppPing(dst, pdu) ==
    /\ AppReady({"app"}) /\ heap[pdu] = Free
    /\ EnqueueAndRequest(pdu, dst)
    /\ UNCHANGED <<running, descriptors, queue_arp, arp_cache, mip_return, pings>>

\* The answer of an application that puts its "PONG:" where it is looked for.
AppPong(pdu) ==
    /\ AppReady({"app"}) /\ heap[pdu] = Free
    /\ EnqueueAndRequest(pdu, mip_return)
    /\ mip_return' = 0
    /\ pings' = IF pings = <<>> THEN pings ELSE Tail(pings)
    /\ UNCHANGED <<running, descriptors, queue_arp, arp_cache>>

\* End of file, or a message that is neither a ping nor a pong.
AppFault == AppReady(Open \cup Gone) /\ Exit

AppTraffic ==
    \/ \E dst \in Mips, pdu \in Chunks : AppPing(dst, pdu)
    \/ \E pdu \in Chunks : AppPong(pdu)
    \/ AppFault

(***************************************************************************)
(* Routing daemon traffic.                                                 *)
(***************************************************************************)

RouteReady(kinds) ==
    /\ running /\ route_fd \in epoll \ {raw_fd, app_fd}
    /\ fdTable[route_fd] \in kinds

\* A Hello or an update is broadcast.
RouteBroadcast ==
    /\ RouteReady({"route"})
    /\ send_PDU("broadcast")
    /\ UNCHANGED <<running, heap, queue_forward, queue_arp, arp_cache,
                   mip_return, routing, pings>>

\* Mutant: the packet is looked at, not removed.
TakeResponsePeeks ==
    /\ RouteReady({"route", "routeGone"}) /\ requests # <<>>
    /\ queue_forward # <<>>
    /\ requests' = Tail(requests)
    /\ UNCHANGED <<queue_forward, lost>>

\* The response names the next hop of the first packet in the queue.
TakeResponse ==
    /\ RouteReady({"route", "routeGone"}) /\ requests # <<>>
    /\ queue_forward # <<>>
    /\ queue_forward' = Tail(queue_forward)
    /\ requests' = Tail(requests)
    /\ UNCHANGED lost

RouteKnown(next_hop) ==
    /\ TakeResponse /\ Known(next_hop)
    /\ send_PDU("unicast")
    /\ heap' = [heap EXCEPT ![Head(queue_forward)] = Free]
    /\ UNCHANGED <<running, queue_arp, arp_cache, mip_return, pings>>

\* enqueue_arp stores the packet in every free slot.  The ARP request is
\* made, but what is sent, and so destroyed, is the packet.
RouteUnknown(next_hop, pdu) ==
    /\ TakeResponse /\ ~Known(next_hop)
    /\ heap[pdu] = Free
    /\ send_PDU("unicast")
    /\ queue_arp' = [i \in 1 .. QueueSize |->
                        IF queue_arp[i].packet = None
                        THEN [packet   |-> Head(queue_forward),
                              next_hop |-> next_hop]
                        ELSE queue_arp[i]]
    /\ heap' = [heap EXCEPT ![pdu] = Broadcast, ![Head(queue_forward)] = Free]
    /\ UNCHANGED <<running, arp_cache, mip_return, pings>>

RouteTraffic ==
    \/ RouteBroadcast
    \/ \E next_hop \in Mips \cup {0, Broadcast} :
          \/ RouteKnown(next_hop)
          \/ \E pdu \in Chunks : RouteUnknown(next_hop, pdu)

Next ==
    \/ \E kind \in Open : Accept(kind)
    \/ AcceptFails
    \/ \E fd \in Fd : PeerClose(fd)
    \/ MipTraffic
    \/ AppTraffic
    \/ RouteTraffic

Spec == Init /\ [][Next]_vars

(***************************************************************************)
(* Properties.                                                             *)
(***************************************************************************)

\* Every packet that waits for a response is allocated and waits once, and
\* no other packet is allocated but the ARP requests that are never sent:
\* nothing is freed that is still queued, nothing is forgotten that is not
\* (pdu.c:400-444, mipd.c:386).
ForwardQueueSound ==
    /\ \A i, j \in 1 .. Len(queue_forward) :
          queue_forward[i] = queue_forward[j] => i = j
    /\ {queue_forward[i] : i \in 1 .. Len(queue_forward)}
          = {c \in Chunks : heap[c] \notin {Free, Broadcast}}

\* A response always finds a packet in the queue and, as long as no request
\* and no response was lost, the packet it was asked for (mipd.c:549-550:
\* dequeue_forward is never called on an empty queue).
ResponsePairing ==
    /\ Len(requests) <= Len(queue_forward)
    /\ ~lost => requests = queue_forward

\* The first MAC address learnt for a MIP address is the one used for ever,
\* whatever later requests and replies say (arp.c:49, 90).
FirstBindingWins ==
    [][\A m \in Mips : Known(m) => arp_lookup(m)' = arp_lookup(m)]_vars

\* An ARP request that was made is never destroyed: the packet is sent in its
\* place, and no later turn has a pointer to it, as no turn destroys a packet
\* that does not wait (mipd.c:593, pdu.c:400-444).
RequestsLeak ==
    [][\A c \in Chunks : heap[c] = Broadcast => heap'[c] = Broadcast]_vars

(***************************************************************************)
(* What the comments say and the code does not do.                         *)
(***************************************************************************)

\* mipd.c:225: the address of a ping is stored for its return packet.
PongReturnsToPinger == pings # <<>> => mip_return = Head(pings)

\* mipd.c:549, "Get PDU from queue_forward": the packet that a response sends
\* is the one whose next hop was asked for.
ResponseMatchesPacket ==
    requests # <<>> /\ queue_forward # <<>> => Head(requests) = Head(queue_forward)

=============================================================================
