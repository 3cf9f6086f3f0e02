----------------------------- MODULE MipdProofs -----------------------------
(***************************************************************************)
(* The invariants of the event loop, for any set of addresses and chunks   *)
(* and any limits.  TypeOK is inductive; each other invariant is inductive *)
(* together with it.                                                       *)
(***************************************************************************)
EXTENDS Mipd, SequenceTheorems, NaturalsInduction, WellFoundedInduction, TLAPS

\* A set of natural numbers has a least element: LowestFree and arp_lookup
\* choose one.
LEMMA Least ==
    ASSUME NEW T, T \subseteq Nat, T # {}
    PROVE  \E x \in T : \A y \in T : x <= y
  <1> DEFINE R == {ss \in Nat \X Nat : ss[1] < ss[2]}
  <1>1. IsWellFoundedOn(R, Nat)
    BY NatLessThanWellFounded DEF OpToRel
  <1>2. PICK x \in T : \A y \in T : ~(<<y, x>> \in R)
    BY <1>1, WFMin, Zenon
  <1>3. \A y \in T : ~(y < x)
    BY <1>2
  <1> QED
    BY <1>3

\* The numbers of the fixed descriptors.
LEMMA FixedFds == Fd \subseteq Nat /\ raw_fd \in Fd /\ listening_fd \in Fd
                  /\ -1 \notin Fd /\ raw_fd # listening_fd
  BY MipdAssumption DEF Fd, raw_fd, listening_fd

\* accept returns a free number.
LEMMA LowestIsFree ==
    ASSUME FreeFd # {}
    PROVE  LowestFree \in FreeFd
  <1>1. FreeFd \subseteq Nat
    BY FixedFds DEF FreeFd
  <1>2. \E fd \in FreeFd : \A other \in FreeFd : fd <= other
    BY <1>1, Least, Zenon
  <1> QED
    BY <1>2 DEF LowestFree

(***************************************************************************)
(* Type correctness.                                                       *)
(***************************************************************************)

\* The conjuncts of TypeOK about descriptors.
DescriptorsOK ==
    /\ fdTable \in [Fd -> {"free", "raw", "listen"} \cup Open \cup Gone]
    /\ epoll \subseteq {fd \in Fd : fdTable[fd] # "free"}
    /\ app_fd \in Fd \cup {-1} /\ route_fd \in Fd \cup {-1}

\* Closing a number keeps the descriptors in order.
LEMMA CloseDescriptors ==
    ASSUME DescriptorsOK, NEW fd \in Fd, Close(fd)
    PROVE  DescriptorsOK'
  BY DEF DescriptorsOK, Close

\* So does a PDU that is sent, whether or not sendto fails.
LEMMA SendDescriptors ==
    ASSUME DescriptorsOK, NEW kind, send_PDU(kind)
    PROVE  DescriptorsOK'
  <1>1. CASE SendFails(kind)
    BY <1>1, FixedFds, CloseDescriptors DEF send_PDU
  <1>2. CASE ~SendFails(kind)
    BY <1>2 DEF send_PDU, descriptors, DescriptorsOK
  <1> QED
    BY <1>1, <1>2

\* A cache entry more, or none.
LEMMA InsertType ==
    ASSUME TypeOK, NEW m \in Mips, NEW mac \in Macs, arp_insert(m, mac)
    PROVE  arp_cache' \in Seq([mip : Mips, mac : Macs]) /\ Len(arp_cache') <= CacheSize
  <1> DEFINE e == [mip |-> m, mac |-> mac]
  <1>1. e \in [mip : Mips, mac : Macs]
    OBVIOUS
  <1>2. arp_cache \in Seq([mip : Mips, mac : Macs]) /\ Len(arp_cache) <= CacheSize
        /\ CacheSize \in Nat
    BY MipdAssumption DEF TypeOK
  <1>3. CASE Len(arp_cache) < CacheSize
    <2>1. arp_cache' = Append(arp_cache, e)
      BY <1>3 DEF arp_insert
    <2> HIDE DEF e
    <2> QED
      BY <1>1, <1>2, <1>3, <2>1, AppendProperties
  <1>4. CASE ~(Len(arp_cache) < CacheSize)
    BY <1>2, <1>4 DEF arp_insert
  <1> QED
    BY <1>3, <1>4

\* The types of what a queued packet and its request change.
LEMMA EnqueueType ==
    ASSUME TypeOK, NEW packet \in Chunks, NEW dst \in Mips \cup {0},
           EnqueueAndRequest(packet, dst)
    PROVE  /\ heap' \in [Chunks -> Mips \cup {Free, None, Broadcast}]
           /\ queue_forward' \in Seq(Chunks) /\ requests' \in Seq(Chunks)
           /\ lost' \in BOOLEAN
  <1>1. heap' \in [Chunks -> Mips \cup {Free, None, Broadcast}]
    BY DEF TypeOK, EnqueueAndRequest, None
  <1>2. queue_forward' \in Seq(Chunks)
    BY AppendProperties DEF TypeOK, EnqueueAndRequest
  <1>3. requests' \in Seq(Chunks)
    <2>1. requests' = requests \/ requests' = Append(requests, packet)
      BY Zenon DEF EnqueueAndRequest
    <2>2. Append(requests, packet) \in Seq(Chunks) /\ requests \in Seq(Chunks)
      BY AppendProperties DEF TypeOK
    <2> QED
      BY <2>1, <2>2, Zenon
  <1>4. lost' \in BOOLEAN
    BY Zenon DEF TypeOK, EnqueueAndRequest
  <1> QED
    BY <1>1, <1>2, <1>3, <1>4

\* A prefix of the requests.
LEMMA PrefixType ==
    ASSUME NEW s \in Seq(Chunks), NEW n \in 0 .. Len(s)
    PROVE  /\ SubSeq(s, 1, n) \in Seq(Chunks) /\ Len(SubSeq(s, 1, n)) = n
           /\ (n = Len(s) => SubSeq(s, 1, n) = s)
  OBVIOUS

\* The types of the requests when a number is closed.
LEMMA LoseType ==
    ASSUME TypeOK, NEW fd, LoseRequests(fd)
    PROVE  requests' \in Seq(Chunks) /\ lost' \in BOOLEAN
  <1>1. requests' \in Seq(Chunks)
    BY DEF TypeOK, LoseRequests
  <1>2. lost' \in BOOLEAN
    BY Zenon DEF TypeOK, LoseRequests
  <1> QED
    BY <1>1, <1>2

\* The initial state is of the right type.
LEMMA TypeInit == Init => TypeOK
  <1> SUFFICES ASSUME Init PROVE TypeOK
    OBVIOUS
  <1>1. DescriptorsOK
    BY FixedFds DEF Init, DescriptorsOK, Open, Gone
  <1>2. heap \in [Chunks -> Mips \cup {Free, None, Broadcast}]
        /\ queue_arp \in [1 .. QueueSize -> [packet : Chunks \cup {None}, next_hop : Nat]]
    BY DEF Init
  <1>3. Len(arp_cache) <= CacheSize
    BY MipdAssumption DEF Init
  <1>4. /\ arp_cache \in Seq([mip : Mips, mac : Macs])
        /\ queue_forward \in Seq(Chunks) /\ requests \in Seq(Chunks)
        /\ pings \in Seq(Mips) /\ mip_return \in Mips \cup {0}
    BY EmptySeq DEF Init
  <1>5. running \in BOOLEAN /\ lost \in BOOLEAN
    BY Zenon DEF Init
  <1> QED
    BY <1>1, <1>2, <1>3, <1>4, <1>5 DEF TypeOK, DescriptorsOK

\* accept puts a connection where nothing was.
LEMMA AcceptType ==
    ASSUME TypeOK, NEW kind \in Open, Accept(kind)
    PROVE  TypeOK'
  <1>1. LowestFree \in Fd /\ fdTable[LowestFree] = "free"
    BY LowestIsFree DEF Accept, FreeFd
  <1>2. DescriptorsOK'
    <2>1. kind # "free"
      BY DEF Open
    <2> QED
      BY <1>1, <2>1 DEF TypeOK, DescriptorsOK, Accept
  <1> QED
    BY <1>2 DEF TypeOK, DescriptorsOK, Accept, routing

\* A peer that goes leaves a prefix of its requests.
LEMMA PeerCloseType ==
    ASSUME TypeOK, NEW fd \in Fd, PeerClose(fd)
    PROVE  TypeOK'
  <1>1. DescriptorsOK'
    BY DEF TypeOK, DescriptorsOK, PeerClose, Open, Gone, WhenGone
  <1>2. requests' \in Seq(Chunks)
    BY PrefixType DEF TypeOK, PeerClose, routing
  <1>3. lost' \in BOOLEAN
    BY Zenon DEF TypeOK, PeerClose, routing
  <1> QED
    BY <1>1, <1>2, <1>3 DEF TypeOK, DescriptorsOK, PeerClose

\* MIP traffic, one action at a time.
LEMMA MipTrafficType == TypeOK /\ MipTraffic => TypeOK'
  <1> SUFFICES ASSUME TypeOK, MipTraffic PROVE TypeOK'
    OBVIOUS
  <1> USE DEF descriptors, routing
  <1>1. ASSUME NEW dst \in Mips, NEW pdu \in Chunks, ForwardPacket(dst, pdu)
        PROVE  TypeOK'
    BY <1>1, EnqueueType DEF ForwardPacket, TypeOK
  <1>2. ASSUME NEW f \in Frame, ReceivePing(f) PROVE TypeOK'
    <2>1. f.src \in Mips
      BY DEF Frame
    <2>2. pings' \in Seq(Mips)
      BY <1>2, <2>1, AppendProperties DEF ReceivePing, TypeOK
    <2> QED
      BY <1>2, <2>1, <2>2 DEF ReceivePing, TypeOK
  <1>3. ASSUME NEW f \in Frame, ReceivePong(f) PROVE TypeOK'
    <2>1. app_fd \in Fd /\ Close(app_fd) /\ LoseRequests(app_fd)
      BY <1>3 DEF ReceivePong, CanWrite, TypeOK
    <2>2. DescriptorsOK'
      BY <2>1, CloseDescriptors DEF TypeOK, DescriptorsOK
    <2> QED
      BY <1>3, <2>1, <2>2, LoseType DEF ReceivePong, TypeOK, DescriptorsOK
  <1>4. ASSUME NEW f \in Frame, WriteFails(f) PROVE TypeOK'
    BY <1>4 DEF WriteFails, Exit, TypeOK
  <1>5. ASSUME NEW f \in Frame, ReceiveArpRequest(f) PROVE TypeOK'
    <2>1. f.src \in Mips /\ f.mac \in Macs
      BY DEF Frame
    <2>2. arp_cache' \in Seq([mip : Mips, mac : Macs]) /\ Len(arp_cache') <= CacheSize
      BY <1>5, <2>1, InsertType DEF ReceiveArpRequest
    <2>3. DescriptorsOK'
      BY <1>5, SendDescriptors DEF ReceiveArpRequest, TypeOK, DescriptorsOK
    <2> QED
      BY <1>5, <2>2, <2>3 DEF ReceiveArpRequest, TypeOK, DescriptorsOK
  <1>6. ASSUME NEW f \in Frame, ReceiveArpReply(f) PROVE TypeOK'
    <2>1. f.src \in Mips /\ f.mac \in Macs
      BY DEF Frame
    <2>2. arp_cache' \in Seq([mip : Mips, mac : Macs]) /\ Len(arp_cache') <= CacheSize
      BY <1>6, <2>1, InsertType DEF ReceiveArpReply
    <2> QED
      BY <1>6, <2>2 DEF ReceiveArpReply, TypeOK
  <1>7. ASSUME NEW f \in Frame, ArpReplyFault(f) PROVE TypeOK'
    BY <1>7 DEF ArpReplyFault, Exit, TypeOK
  <1>8. ASSUME NEW f \in Frame, ReceiveOther(f) PROVE TypeOK'
    BY <1>8 DEF ReceiveOther, TypeOK
  <1>9. ASSUME NEW pdu \in Chunks, ForwardEmpty(pdu) PROVE TypeOK'
    <2>1. DescriptorsOK'
      BY <1>9, FixedFds, CloseDescriptors DEF ForwardEmpty, TypeOK, DescriptorsOK
    <2>2. heap' \in [Chunks -> Mips \cup {Free, None, Broadcast}]
      BY <1>9 DEF ForwardEmpty, TypeOK, None
    <2>3. queue_forward' \in Seq(Chunks)
      BY <1>9, AppendProperties DEF ForwardEmpty, TypeOK
    <2>4. requests' \in Seq(Chunks)
      <3>1. requests' \in {requests, <<>>, Append(requests, pdu)}
        BY <1>9, Zenon DEF ForwardEmpty
      <3>2. {requests, <<>>, Append(requests, pdu)} \subseteq Seq(Chunks)
        BY AppendProperties, EmptySeq DEF TypeOK
      <3> QED
        BY <3>1, <3>2, Zenon
    <2>5. lost' \in BOOLEAN
      BY <1>9, Zenon DEF ForwardEmpty, TypeOK
    <2> QED
      BY <1>9, <2>1, <2>2, <2>3, <2>4, <2>5 DEF ForwardEmpty, TypeOK, DescriptorsOK
  <1>10. CASE DropEmpty
    <2>1. DescriptorsOK'
      BY <1>10, FixedFds, CloseDescriptors DEF DropEmpty, TypeOK, DescriptorsOK
    <2> QED
      BY <1>10, <2>1, LoseType DEF DropEmpty, TypeOK, DescriptorsOK
  <1> QED
    BY <1>1, <1>2, <1>3, <1>4, <1>5, <1>6, <1>7, <1>8, <1>9, <1>10
    DEF MipTraffic, ReceiveEmpty

\* Application traffic.
LEMMA AppTrafficType == TypeOK /\ AppTraffic => TypeOK'
  <1> SUFFICES ASSUME TypeOK, AppTraffic PROVE TypeOK'
    OBVIOUS
  <1> USE DEF descriptors, routing
  <1>1. ASSUME NEW dst \in Mips, NEW pdu \in Chunks, AppPing(dst, pdu)
        PROVE  TypeOK'
    BY <1>1, EnqueueType DEF AppPing, TypeOK
  <1>2. ASSUME NEW pdu \in Chunks, AppPong(pdu) PROVE TypeOK'
    <2>1. pings' \in Seq(Mips)
      BY <1>2, HeadTailProperties DEF AppPong, TypeOK
    <2>2. mip_return \in Mips \cup {0}
      BY DEF TypeOK
    <2> QED
      BY <1>2, <2>1, <2>2, EnqueueType DEF AppPong, TypeOK
  <1>3. CASE AppFault
    BY <1>3 DEF AppFault, Exit, TypeOK
  <1> QED
    BY <1>1, <1>2, <1>3 DEF AppTraffic

\* The packet a response is for.
LEMMA ResponseType ==
    ASSUME TypeOK, TakeResponse
    PROVE  /\ Head(queue_forward) \in Chunks
           /\ queue_forward' \in Seq(Chunks) /\ requests' \in Seq(Chunks)
           /\ lost' \in BOOLEAN
  BY HeadTailProperties DEF TypeOK, TakeResponse

\* Routing daemon traffic.
LEMMA RouteTrafficType == TypeOK /\ RouteTraffic => TypeOK'
  <1> SUFFICES ASSUME TypeOK, RouteTraffic PROVE TypeOK'
    OBVIOUS
  <1>1. CASE RouteBroadcast
    <2>1. DescriptorsOK'
      BY <1>1, SendDescriptors DEF RouteBroadcast, TypeOK, DescriptorsOK
    <2> QED
      BY <1>1, <2>1 DEF RouteBroadcast, routing, TypeOK, DescriptorsOK
  <1>2. ASSUME NEW next_hop, RouteKnown(next_hop) PROVE TypeOK'
    <2>1. DescriptorsOK'
      BY <1>2, SendDescriptors DEF RouteKnown, TypeOK, DescriptorsOK
    <2>2. heap' \in [Chunks -> Mips \cup {Free, None, Broadcast}]
      BY <1>2, ResponseType DEF RouteKnown, TypeOK
    <2> QED
      BY <1>2, <2>1, <2>2, ResponseType DEF RouteKnown, TypeOK, DescriptorsOK
  <1>3. ASSUME NEW next_hop \in Mips \cup {0, Broadcast}, NEW pdu \in Chunks,
               RouteUnknown(next_hop, pdu)
        PROVE  TypeOK'
    <2>1. DescriptorsOK'
      BY <1>3, SendDescriptors DEF RouteUnknown, TypeOK, DescriptorsOK
    <2>2. Head(queue_forward) \in Chunks
      BY <1>3, ResponseType DEF RouteUnknown
    <2>3. heap' \in [Chunks -> Mips \cup {Free, None, Broadcast}]
      BY <1>3, <2>2 DEF RouteUnknown, TypeOK
    <2>4. next_hop \in Nat
      BY MipdAssumption DEF Broadcast
    <2>5. queue_arp' \in [1 .. QueueSize -> [packet : Chunks \cup {None}, next_hop : Nat]]
      BY <1>3, <2>2, <2>4 DEF RouteUnknown, TypeOK
    <2> QED
      BY <1>3, <2>1, <2>3, <2>5, ResponseType DEF RouteUnknown, TypeOK, DescriptorsOK
  <1> QED
    BY <1>1, <1>2, <1>3 DEF RouteTraffic

\* Every turn keeps the types.
LEMMA TypeStep == TypeOK /\ [Next]_vars => TypeOK'
  <1> SUFFICES ASSUME TypeOK, [Next]_vars PROVE TypeOK'
    OBVIOUS
  <1>1. CASE AcceptFails
    BY <1>1 DEF AcceptFails, Exit, descriptors, routing, TypeOK
  <1>2. CASE UNCHANGED vars
    BY <1>2 DEF vars, descriptors, routing, TypeOK
  <1> QED
    BY <1>1, <1>2, AcceptType, PeerCloseType, MipTrafficType, AppTrafficType,
       RouteTrafficType DEF Next

\* Every variable of the daemon keeps its type: the cache stays within its
\* limit and only open descriptors are registered (arp.c:91, mipd.c:140).
THEOREM DaemonTypeCorrect == Spec => []TypeOK
  <1> QED
    BY TypeInit, TypeStep, PTL DEF Spec

(***************************************************************************)
(* The forward queue and the responses.                                    *)
(***************************************************************************)

Queued == {queue_forward[i] : i \in 1 .. Len(queue_forward)}
Live == {c \in Chunks : heap[c] \notin {Free, Broadcast}}

\* A new chunk at the end of the queue keeps it sound.
LEMMA AppendSound ==
    ASSUME TypeOK, ForwardQueueSound,
           NEW pdu \in Chunks, heap[pdu] = Free, NEW dst \in Mips \cup {0},
           heap' = [heap EXCEPT ![pdu] = dst],
           queue_forward' = Append(queue_forward, pdu)
    PROVE  ForwardQueueSound'
  <1> DEFINE n == Len(queue_forward)
  <1>1. /\ n \in Nat /\ Len(queue_forward') = n + 1
        /\ \A i \in 1 .. n : queue_forward'[i] = queue_forward[i]
        /\ queue_forward'[n + 1] = pdu
    BY AppendProperties, LenProperties DEF TypeOK
  <1>2. Queued' = Queued \cup {pdu}
    BY <1>1 DEF Queued
  <1>3. Live' = Live \cup {pdu}
    BY MipdAssumption DEF TypeOK, Live, Free, Broadcast
  <1>4. Queued = Live /\ pdu \notin Live
    BY DEF ForwardQueueSound, Queued, Live
  <1>5. \A i \in 1 .. n : queue_forward[i] # pdu
    BY <1>4 DEF Queued
  <1>6. \A i, j \in 1 .. n + 1 : queue_forward'[i] = queue_forward'[j] => i = j
    BY <1>1, <1>5 DEF ForwardQueueSound
  <1> QED
    BY <1>1, <1>2, <1>3, <1>4, <1>6 DEF ForwardQueueSound, Queued, Live

\* So does the head, if it is freed when it leaves the queue, whatever chunk
\* is used for an ARP request.
LEMMA TailSound ==
    ASSUME TypeOK, ForwardQueueSound, queue_forward # <<>>,
           queue_forward' = Tail(queue_forward),
           heap' \in [Chunks -> Mips \cup {Free, None, Broadcast}],
           heap'[Head(queue_forward)] = Free,
           \A c \in Chunks \ {Head(queue_forward)} :
              heap'[c] = heap[c] \/ (heap[c] = Free /\ heap'[c] = Broadcast)
    PROVE  ForwardQueueSound'
  <1> DEFINE n == Len(queue_forward)
             h == Head(queue_forward)
  <1>1. /\ n \in Nat /\ n >= 1 /\ Len(queue_forward') = n - 1
        /\ \A i \in 1 .. n - 1 : queue_forward'[i] = queue_forward[i + 1]
        /\ h = queue_forward[1] /\ h \in Chunks
    BY HeadTailProperties, LenProperties, EmptySeq DEF TypeOK
  <1>2. Queued = Live
    BY DEF ForwardQueueSound, Queued, Live
  <1>3. \A i \in 2 .. n : queue_forward[i] # h
    BY <1>1 DEF ForwardQueueSound
  <1>4. Queued' = Queued \ {h}
    <2>1. ASSUME NEW c \in Queued' PROVE c \in Queued \ {h}
      <3>1. PICK i \in 1 .. n - 1 : c = queue_forward'[i]
        BY <1>1 DEF Queued
      <3>2. i + 1 \in 2 .. n /\ c = queue_forward[i + 1]
        BY <1>1, <3>1
      <3> QED
        BY <3>2, <1>1, <1>3 DEF Queued
    <2>2. ASSUME NEW c \in Queued, c # h PROVE c \in Queued'
      <3>1. PICK i \in 1 .. n : c = queue_forward[i]
        BY DEF Queued
      <3>2. i - 1 \in 1 .. n - 1 /\ queue_forward'[i - 1] = c
        BY <1>1, <2>2, <3>1
      <3> QED
        BY <3>2, <1>1 DEF Queued
    <2> QED
      BY <2>1, <2>2
  <1>5. Live' = Live \ {h}
    BY <1>1 DEF Live, Free, Broadcast
  <1>6. \A i, j \in 1 .. n - 1 : queue_forward'[i] = queue_forward'[j] => i = j
    BY <1>1 DEF ForwardQueueSound
  <1> QED
    BY <1>1, <1>2, <1>4, <1>5, <1>6 DEF ForwardQueueSound, Queued, Live

\* Every turn keeps the forward queue sound.
LEMMA SoundStep ==
    TypeOK /\ ForwardQueueSound /\ [Next]_vars => ForwardQueueSound'
  <1> SUFFICES ASSUME TypeOK, ForwardQueueSound, [Next]_vars
               PROVE  ForwardQueueSound'
    OBVIOUS
  <1>1. ASSUME NEW dst \in Mips \cup {0}, NEW pdu \in Chunks, heap[pdu] = Free,
               EnqueueAndRequest(pdu, dst)
        PROVE  ForwardQueueSound'
    BY <1>1, AppendSound DEF EnqueueAndRequest
  <1>2. ASSUME NEW pdu \in Chunks, ForwardEmpty(pdu) PROVE ForwardQueueSound'
    BY <1>2, AppendSound DEF ForwardEmpty
  <1>3. ASSUME NEW next_hop, RouteKnown(next_hop) PROVE ForwardQueueSound'
    <2>1. Head(queue_forward) \in Chunks
      BY <1>3, ResponseType DEF RouteKnown
    <2>2. /\ heap'[Head(queue_forward)] = Free
          /\ \A c \in Chunks \ {Head(queue_forward)} : heap'[c] = heap[c]
          /\ heap' \in [Chunks -> Mips \cup {Free, None, Broadcast}]
      BY <1>3, <2>1 DEF RouteKnown, TypeOK
    <2>3. queue_forward # <<>> /\ queue_forward' = Tail(queue_forward)
      BY <1>3 DEF RouteKnown, TakeResponse
    <2> QED
      BY <2>2, <2>3, TailSound
  <1>4. ASSUME NEW next_hop, NEW pdu \in Chunks, RouteUnknown(next_hop, pdu)
        PROVE  ForwardQueueSound'
    <2>1. Head(queue_forward) \in Chunks /\ heap[pdu] = Free
      BY <1>4, ResponseType DEF RouteUnknown
    <2>2. /\ heap'[Head(queue_forward)] = Free
          /\ \A c \in Chunks \ {Head(queue_forward)} :
                heap'[c] = heap[c] \/ (heap[c] = Free /\ heap'[c] = Broadcast)
          /\ heap' \in [Chunks -> Mips \cup {Free, None, Broadcast}]
      BY <1>4, <2>1 DEF RouteUnknown, TypeOK
    <2>3. queue_forward # <<>> /\ queue_forward' = Tail(queue_forward)
      BY <1>4 DEF RouteUnknown, TakeResponse
    <2> QED
      BY <2>2, <2>3, TailSound
  <1>5. CASE UNCHANGED <<heap, queue_forward>>
    BY <1>5 DEF ForwardQueueSound
  <1>6. ASSUME NEW kind \in Open, Accept(kind)
        PROVE  UNCHANGED <<heap, queue_forward>>
    BY <1>6 DEF Accept
  <1>7. ASSUME NEW fd \in Fd, PeerClose(fd) PROVE UNCHANGED <<heap, queue_forward>>
    BY <1>7 DEF PeerClose
  <1>8. CASE MipTraffic
    <2>1. ASSUME NEW f \in Frame,
                 \/ ReceivePing(f) \/ ReceivePong(f) \/ WriteFails(f)
                 \/ ReceiveArpRequest(f)
                 \/ ReceiveArpReply(f) \/ ArpReplyFault(f) \/ ReceiveOther(f)
          PROVE  UNCHANGED <<heap, queue_forward>>
      BY <2>1 DEF ReceivePing, ReceivePong, WriteFails, ReceiveArpRequest,
                  ReceiveArpReply, ArpReplyFault, ReceiveOther, Exit
    <2>2. ASSUME NEW dst \in Mips, NEW pdu \in Chunks, ForwardPacket(dst, pdu)
          PROVE  ForwardQueueSound'
      BY <2>2, <1>1 DEF ForwardPacket
    <2>3. CASE DropEmpty
      BY <2>3, <1>5 DEF DropEmpty
    <2> QED
      BY <1>2, <1>5, <1>8, <2>1, <2>2, <2>3 DEF MipTraffic, ReceiveEmpty
  <1>9. CASE AppTraffic
    <2>1. ASSUME NEW dst \in Mips, NEW pdu \in Chunks, AppPing(dst, pdu)
          PROVE  ForwardQueueSound'
      BY <2>1, <1>1 DEF AppPing
    <2>2. ASSUME NEW pdu \in Chunks, AppPong(pdu) PROVE ForwardQueueSound'
      BY <2>2, <1>1 DEF AppPong, TypeOK
    <2>3. CASE AppFault
      BY <2>3, <1>5 DEF AppFault, Exit
    <2> QED
      BY <1>9, <2>1, <2>2, <2>3 DEF AppTraffic
  <1>10. CASE RouteTraffic
    <2>1. CASE RouteBroadcast
      BY <2>1, <1>5 DEF RouteBroadcast
    <2> QED
      BY <1>10, <1>3, <1>4, <2>1 DEF RouteTraffic
  <1>11. CASE AcceptFails \/ UNCHANGED vars
    BY <1>11, <1>5 DEF AcceptFails, Exit, vars
  <1> QED
    BY <1>5, <1>6, <1>7, <1>8, <1>9, <1>10, <1>11 DEF Next

\* Through every use of a stale descriptor or pointer, the forward queue owns
\* exactly the live packets, each once (pdu.c:400-444, mipd.c:386).
THEOREM ForwardQueueIsSound == Spec => []ForwardQueueSound
  <1>1. Init => ForwardQueueSound
    BY DEF Init, ForwardQueueSound
  <1> QED
    BY <1>1, SoundStep, TypeInit, TypeStep, PTL DEF Spec

\* A turn leaves the heap alone, fills a free chunk with a packet, or destroys
\* the packet at the head of the forward queue.
LEMMA HeapStep ==
    ASSUME Next
    PROVE  \/ UNCHANGED heap
           \/ \E pdu \in Chunks, dst \in Mips \cup {0, mip_return} :
                 heap[pdu] = Free /\ heap' = [heap EXCEPT ![pdu] = dst]
           \/ /\ queue_forward # <<>>
              /\ \/ heap' = [heap EXCEPT ![Head(queue_forward)] = Free]
                 \/ \E pdu \in Chunks :
                       /\ heap[pdu] = Free
                       /\ heap' = [heap EXCEPT ![pdu] = Broadcast,
                                               ![Head(queue_forward)] = Free]
  <1>1. CASE MipTraffic
    BY <1>1 DEF MipTraffic, ForwardPacket, EnqueueAndRequest, ReceivePing,
                ReceivePong, WriteFails, ReceiveArpRequest, ReceiveArpReply,
                ArpReplyFault, ReceiveOther, ReceiveEmpty, DropEmpty,
                ForwardEmpty, Exit
  <1>2. CASE AppTraffic
    BY <1>2 DEF AppTraffic, AppPing, AppPong, AppFault, EnqueueAndRequest, Exit
  <1>3. CASE RouteTraffic
    BY <1>3 DEF RouteTraffic, RouteBroadcast, RouteKnown, RouteUnknown, TakeResponse
  <1>4. CASE \/ \E kind \in Open : Accept(kind)
             \/ \E fd \in Fd : PeerClose(fd)
             \/ AcceptFails
    BY <1>4 DEF Accept, PeerClose, AcceptFails, Exit
  <1> QED
    BY <1>1, <1>2, <1>3, <1>4 DEF Next

\* An ARP request that was made stays allocated for ever: what is destroyed waited
\* in the forward queue, and that holds no request (mipd.c:593, pdu.c:400-444).
THEOREM RequestsAreNeverFreed == Spec => RequestsLeak
  <1>1. ASSUME TypeOK, ForwardQueueSound, [Next]_vars,
               NEW c \in Chunks, heap[c] = Broadcast
        PROVE  heap'[c] = Broadcast
    <2>1. c # Head(queue_forward) \/ queue_forward = <<>>
      <3>1. ASSUME queue_forward # <<>>
            PROVE  Head(queue_forward) = queue_forward[1] /\ 1 \in 1 .. Len(queue_forward)
        BY <3>1 DEF TypeOK
      <3> QED
        BY <1>1, <3>1 DEF ForwardQueueSound
    <2>2. heap[c] # Free
      BY <1>1 DEF Free, Broadcast
    <2>3. CASE UNCHANGED vars
      BY <1>1, <2>3 DEF vars
    <2> QED
      BY <1>1, <2>1, <2>2, <2>3, HeapStep DEF TypeOK
  <1>2. TypeOK /\ ForwardQueueSound /\ [Next]_vars
           => [\A c \in Chunks : heap[c] = Broadcast => heap'[c] = Broadcast]_vars
    BY <1>1
  <1> QED
    BY <1>2, DaemonTypeCorrect, ForwardQueueIsSound, PTL DEF Spec, RequestsLeak

\* A packet and its request are appended together, or the request is lost.
LEMMA PairEnqueue ==
    ASSUME TypeOK, ResponsePairing, NEW packet \in Chunks, NEW dst,
           EnqueueAndRequest(packet, dst)
    PROVE  ResponsePairing'
  <1>1. /\ Len(queue_forward') = Len(queue_forward) + 1
        /\ Len(Append(requests, packet)) = Len(requests) + 1
        /\ Len(queue_forward) \in Nat /\ Len(requests) \in Nat
    BY AppendProperties, LenProperties DEF EnqueueAndRequest, TypeOK
  <1>2. \/ requests' = Append(requests, packet) /\ lost' = lost
        \/ requests' = requests /\ lost' = TRUE
    BY Zenon DEF EnqueueAndRequest
  <1>3. Len(requests') <= Len(queue_forward')
    BY <1>1, <1>2 DEF ResponsePairing
  <1>4. ~lost' => requests' = queue_forward'
    BY <1>2, Zenon DEF ResponsePairing, EnqueueAndRequest
  <1> QED
    BY <1>3, <1>4, Zenon DEF ResponsePairing

\* A response takes the first of both.
LEMMA PairResponse ==
    ASSUME TypeOK, ResponsePairing, TakeResponse
    PROVE  ResponsePairing'
  <1>1. /\ Len(queue_forward') = Len(queue_forward) - 1
        /\ Len(requests') = Len(requests) - 1
        /\ Len(queue_forward) \in Nat /\ Len(requests) \in Nat
    BY HeadTailProperties, LenProperties DEF TakeResponse, TypeOK
  <1>2. Len(requests') <= Len(queue_forward')
    BY <1>1 DEF ResponsePairing
  <1>3. ~lost' => requests' = queue_forward'
    BY Zenon DEF ResponsePairing, TakeResponse
  <1> QED
    BY <1>2, <1>3, Zenon DEF ResponsePairing

\* A loss never leaves more requests than before, and is recorded.
LEMMA PairLoss ==
    ASSUME TypeOK, ResponsePairing, UNCHANGED queue_forward,
           Len(requests') \in Nat, Len(requests') <= Len(requests),
           lost' \/ (UNCHANGED requests /\ UNCHANGED lost)
    PROVE  ResponsePairing'
  <1>1. Len(queue_forward) \in Nat /\ Len(requests) \in Nat
    BY LenProperties DEF TypeOK
  <1>2. Len(requests') <= Len(queue_forward')
    BY <1>1 DEF ResponsePairing
  <1>3. ~lost' => requests' = queue_forward'
    BY Zenon DEF ResponsePairing
  <1> QED
    BY <1>2, <1>3, Zenon DEF ResponsePairing

\* So does a number that is closed.
LEMMA PairClose ==
    ASSUME TypeOK, ResponsePairing, UNCHANGED queue_forward,
           NEW fd, LoseRequests(fd)
    PROVE  ResponsePairing'
  <1>1. Len(requests) \in Nat /\ Len(<<>>) = 0
    BY LenProperties, EmptySeq DEF TypeOK
  <1>2. Len(requests') \in Nat /\ Len(requests') <= Len(requests)
    BY <1>1 DEF LoseRequests
  <1>3. lost' \/ (UNCHANGED requests /\ UNCHANGED lost)
    BY Zenon DEF LoseRequests, TypeOK
  <1> QED
    BY <1>2, <1>3, PairLoss

\* Every turn keeps responses and packets in step.
LEMMA PairStep == TypeOK /\ ResponsePairing /\ [Next]_vars => ResponsePairing'
  <1> SUFFICES ASSUME TypeOK, ResponsePairing, [Next]_vars
               PROVE  ResponsePairing'
    OBVIOUS
  <1>1. CASE UNCHANGED <<queue_forward, requests, lost>>
    BY <1>1, Zenon DEF ResponsePairing
  <1>2. Len(requests) \in Nat /\ Len(queue_forward) \in Nat /\ Len(<<>>) = 0
    BY LenProperties, EmptySeq DEF TypeOK
  <1>3. ASSUME NEW kind \in Open, Accept(kind)
        PROVE  UNCHANGED <<queue_forward, requests, lost>>
    BY <1>3 DEF Accept, routing
  <1>4. ASSUME NEW fd \in Fd, PeerClose(fd) PROVE ResponsePairing'
    <2>1. UNCHANGED queue_forward
      BY <1>4 DEF PeerClose
    <2>2. CASE fd = route_fd
      <3>1. PICK n \in 0 .. Len(requests) :
                /\ requests' = SubSeq(requests, 1, n)
                /\ lost' = (lost \/ n < Len(requests))
        BY <1>4, <2>2 DEF PeerClose
      <3>2. Len(requests') = n /\ (n = Len(requests) => requests' = requests)
        BY <3>1, PrefixType DEF TypeOK
      <3>3. n < Len(requests) \/ n = Len(requests)
        BY <1>2
      <3>4. lost' \/ (UNCHANGED requests /\ (lost' <=> lost))
        BY <3>1, <3>2, <3>3, Zenon
      <3>5. lost' \/ (UNCHANGED requests /\ UNCHANGED lost)
        BY <3>1, <3>2, <3>3, Zenon DEF TypeOK
      <3> QED
        BY <2>1, <3>2, <3>5, <1>2, PairLoss
    <2>3. CASE fd # route_fd
      BY <1>4, <2>1, <2>3, <1>1 DEF PeerClose, routing
    <2> QED
      BY <2>2, <2>3
  <1>5. CASE MipTraffic
    <2>1. ASSUME NEW dst \in Mips, NEW pdu \in Chunks, ForwardPacket(dst, pdu)
          PROVE  ResponsePairing'
      BY <2>1, PairEnqueue DEF ForwardPacket
    <2>2. ASSUME NEW f \in Frame,
                 \/ ReceivePing(f) \/ WriteFails(f)
                 \/ ReceiveArpRequest(f)
                 \/ ReceiveArpReply(f) \/ ArpReplyFault(f) \/ ReceiveOther(f)
          PROVE  UNCHANGED <<queue_forward, requests, lost>>
      BY <2>2 DEF ReceivePing, WriteFails, ReceiveArpRequest,
                  ReceiveArpReply, ArpReplyFault, ReceiveOther, Exit, routing
    <2>3. ASSUME NEW f \in Frame, ReceivePong(f) PROVE ResponsePairing'
      BY <2>3, PairClose DEF ReceivePong
    <2>4. ASSUME NEW pdu \in Chunks, ForwardEmpty(pdu) PROVE ResponsePairing'
      <3>1. /\ Len(queue_forward') = Len(queue_forward) + 1
            /\ Len(Append(requests, pdu)) = Len(requests) + 1
        BY <2>4, AppendProperties DEF ForwardEmpty, TypeOK
      <3>2. \/ requests' = Append(requests, pdu) /\ lost' = lost
            \/ requests' \in {<<>>, requests} /\ lost' = TRUE
        BY <2>4, Zenon DEF ForwardEmpty
      <3>3. Len(requests') <= Len(queue_forward')
        BY <3>1, <3>2, <1>2 DEF ResponsePairing
      <3>4. ~lost' => requests' = queue_forward'
        BY <2>4, <3>2, Zenon DEF ResponsePairing, ForwardEmpty
      <3> QED
        BY <3>3, <3>4, Zenon DEF ResponsePairing
    <2>5. CASE DropEmpty
      BY <2>5, PairClose DEF DropEmpty
    <2> QED
      BY <1>1, <1>5, <2>1, <2>2, <2>3, <2>4, <2>5
      DEF MipTraffic, ReceiveEmpty
  <1>6. CASE AppTraffic
    <2>1. CASE AppFault
      BY <2>1, <1>1 DEF AppFault, Exit, routing
    <2> QED
      BY <1>6, <2>1, PairEnqueue DEF AppTraffic, AppPing, AppPong
  <1>7. CASE RouteTraffic
    <2>1. CASE RouteBroadcast
      BY <2>1, <1>1 DEF RouteBroadcast, routing
    <2> QED
      BY <1>7, <2>1, PairResponse DEF RouteTraffic, RouteKnown, RouteUnknown
  <1>8. CASE AcceptFails \/ UNCHANGED vars
    BY <1>8, <1>1 DEF AcceptFails, Exit, vars, routing
  <1> QED
    BY <1>1, <1>3, <1>4, <1>5, <1>6, <1>7, <1>8 DEF Next

\* dequeue_forward is never called on an empty queue, and without a loss each
\* response meets the packet it was asked for (mipd.c:549-550).
THEOREM ResponsesArePaired == Spec => []ResponsePairing
  <1>1. Init => ResponsePairing
    <2>1. Init => Len(requests) <= Len(queue_forward)
      BY EmptySeq DEF Init
    <2>2. Init => requests = queue_forward
      BY DEF Init
    <2> QED
      BY <2>1, <2>2, Zenon DEF ResponsePairing
  <1> QED
    BY <1>1, PairStep, TypeInit, TypeStep, PTL DEF Spec

(***************************************************************************)
(* The ARP cache.                                                          *)
(***************************************************************************)

\* A lookup finds the oldest entry of an address.
LEMMA LookupOldest ==
    ASSUME TypeOK, NEW m, Known(m)
    PROVE  \E i \in Bound(m) : /\ \A j \in Bound(m) : i <= j
                               /\ arp_lookup(m) = arp_cache[i].mac
  <1>1. Bound(m) \subseteq Nat /\ Bound(m) # {}
    BY LenProperties DEF Bound, Known, TypeOK
  <1>2. \E i \in Bound(m) : \A j \in Bound(m) : i <= j
    BY <1>1, Least, Zenon
  <1>3. PICK i \in Bound(m) : /\ \A j \in Bound(m) : i <= j
                              /\ i = CHOOSE x \in Bound(m) : \A j \in Bound(m) : x <= j
    BY <1>2, Zenon
  <1> QED
    BY <1>3, Zenon DEF arp_lookup

\* What is appended comes after what is there.
LEMMA InsertKeepsLookup ==
    ASSUME TypeOK, TypeOK', NEW m, NEW n \in Mips, NEW mac \in Macs,
           arp_insert(n, mac), Known(m)
    PROVE  arp_lookup(m)' = arp_lookup(m)
  <1>1. PICK i \in Bound(m) : /\ \A j \in Bound(m) : i <= j
                              /\ arp_lookup(m) = arp_cache[i].mac
    BY LookupOldest
  <1>2. /\ Len(arp_cache) \in Nat /\ Len(arp_cache') \in Nat
        /\ Len(arp_cache') >= Len(arp_cache)
        /\ \A j \in 1 .. Len(arp_cache) : arp_cache'[j] = arp_cache[j]
    BY LenProperties, AppendProperties DEF arp_insert, TypeOK
  <1>3. i \in Bound(m)' /\ arp_cache'[i] = arp_cache[i]
    BY <1>1, <1>2 DEF Bound
  <1>4. PICK k \in Bound(m)' : /\ \A j \in Bound(m)' : k <= j
                               /\ arp_lookup(m)' = arp_cache'[k].mac
    <2>1. Bound(m)' \subseteq Nat /\ Bound(m)' # {}
      BY <1>2, <1>3 DEF Bound
    <2>2. \E x \in Bound(m)' : \A j \in Bound(m)' : x <= j
      BY <2>1, Least, Zenon
    <2>3. PICK k \in Bound(m)' :
              /\ \A j \in Bound(m)' : k <= j
              /\ k = CHOOSE x \in Bound(m)' : \A j \in Bound(m)' : x <= j
      BY <2>2, Zenon
    <2> QED
      BY <2>3, Zenon DEF arp_lookup
  <1>5. k = i
    <2>1. i \in 1 .. Len(arp_cache) /\ k \in 1 .. Len(arp_cache') /\ k <= i
      BY <1>1, <1>3, <1>4 DEF Bound
    <2>2. k \in 1 .. Len(arp_cache) /\ arp_cache'[k] = arp_cache[k]
      BY <1>2, <2>1
    <2>3. k \in Bound(m)
      BY <1>4, <2>2 DEF Bound
    <2> QED
      BY <1>1, <1>2, <2>1, <2>3
  <1> QED
    BY <1>1, <1>3, <1>4, <1>5

\* Only an ARP request or reply touches the cache, and only by an insertion.
LEMMA CacheStep == [Next]_vars => \/ UNCHANGED arp_cache
                                  \/ \E n \in Mips, mac \in Macs : arp_insert(n, mac)
  <1> SUFFICES ASSUME [Next]_vars
               PROVE  \/ UNCHANGED arp_cache
                      \/ \E n \in Mips, mac \in Macs : arp_insert(n, mac)
    OBVIOUS
  <1>1. CASE MipTraffic
    <2>1. ASSUME NEW dst \in Mips, NEW pdu \in Chunks, ForwardPacket(dst, pdu)
          PROVE  UNCHANGED arp_cache
      BY <2>1 DEF ForwardPacket
    <2>2. ASSUME NEW f \in Frame,
                 \/ ReceivePing(f) \/ WriteFails(f) \/ ReceivePong(f)
                 \/ ArpReplyFault(f) \/ ReceiveOther(f)
          PROVE  UNCHANGED arp_cache
      BY <2>2 DEF ReceivePing, WriteFails, ReceivePong, ArpReplyFault,
                  ReceiveOther, Exit
    <2>3. ASSUME NEW f \in Frame, ReceiveArpReply(f) \/ ReceiveArpRequest(f)
          PROVE  \E n \in Mips, mac \in Macs : arp_insert(n, mac)
      <3>1. f.src \in Mips /\ f.mac \in Macs
        BY DEF Frame
      <3>2. arp_insert(f.src, f.mac)
        BY <2>3 DEF ReceiveArpReply, ReceiveArpRequest
      <3> QED
        BY <3>1, <3>2, Zenon
    <2>4. ASSUME DropEmpty \/ \E pdu \in Chunks : ForwardEmpty(pdu)
          PROVE  UNCHANGED arp_cache
      BY <2>4 DEF DropEmpty, ForwardEmpty
    <2> QED
      BY <1>1, <2>1, <2>2, <2>3, <2>4 DEF MipTraffic, ReceiveEmpty
  <1>2. CASE AppTraffic
    BY <1>2 DEF AppTraffic, AppPing, AppPong, AppFault, Exit
  <1>3. CASE RouteTraffic
    BY <1>3 DEF RouteTraffic, RouteBroadcast, RouteKnown, RouteUnknown
  <1>4. CASE \/ \E kind \in Open : Accept(kind)
             \/ \E fd \in Fd : PeerClose(fd)
             \/ AcceptFails
             \/ UNCHANGED vars
    BY <1>4 DEF Accept, PeerClose, AcceptFails, Exit, vars
  <1> QED
    BY <1>1, <1>2, <1>3, <1>4 DEF Next

\* Once an address is known, no turn changes what arp_lookup returns for it
\* (arp.c:49, 90).
THEOREM FirstBindingStays == Spec => FirstBindingWins
  <1>1. ASSUME TypeOK, TypeOK', [Next]_vars
        PROVE  [\A m \in Mips : Known(m) => arp_lookup(m)' = arp_lookup(m)]_vars
    <2>1. ASSUME UNCHANGED arp_cache, NEW m \in Mips
          PROVE  arp_lookup(m)' = arp_lookup(m)
      BY <2>1 DEF arp_lookup, Bound
    <2> QED
      BY <1>1, <2>1, CacheStep, InsertKeepsLookup
  <1> QED
    BY <1>1, DaemonTypeCorrect, PTL DEF Spec, FirstBindingWins

=============================================================================
