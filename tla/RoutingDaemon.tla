--------------------------- MODULE RoutingDaemon ---------------------------
(***************************************************************************)
(* The routing daemon, routingd.c and route.c: two POSIX threads that      *)
(* share routingTable, neighborTable and routingTableHasChanged without a  *)
(* lock.  The send thread greets, drops timed-out neighbours and           *)
(* advertises the table; the receive thread handles what mipd relays.      *)
(*                                                                         *)
(* One action is one access to shared memory.  A test and the write it     *)
(* guards are one action where the other thread cannot make the test false *)
(* in between: only the send thread stores -1, INFINITY or 0, only the     *)
(* receive thread stores anything else.  Steps are sequentially            *)
(* consistent.  Locals that went out of scope are reset to 0.              *)
(***************************************************************************)
EXTENDS Integers, Sequences

CONSTANTS
    MaxNodes,          \* MAX_NODES, length of the tables (52)
    MaxByte,           \* largest uint8_t (255)
    Infinity,          \* INFINITY, the int that means "no path" (INT_MAX)
    LocalMip,          \* localMIP
    Peers,             \* addresses of the nodes whose messages mipd relays
    TagByte,           \* 'D', the byte read as the first destination (68)
    FaultFrom,         \* first index at which routingTable[index] faults
    Triples,           \* triples read from one update (53)
    MaxUnread,         \* bound: messages mipd leaves unread in the socket
    Now,               \* time(NULL)
    TimeoutInterval    \* TIMEOUT_INTERVAL (30)

Node == 0 .. MaxNodes - 1
Byte == 0 .. MaxByte

ASSUME NodesAssumption ==
    /\ MaxNodes \in Nat \ {0}
    /\ MaxByte \in Nat
    /\ TagByte \in MaxNodes .. FaultFrom - 1
    /\ FaultFrom \in MaxNodes .. MaxByte
    /\ Triples \in Nat \ {0}
    /\ MaxUnread \in Nat

ASSUME AddressAssumption ==
    /\ LocalMip \in Byte
    /\ Peers \subseteq Byte

\* INT_MAX is beyond any learnt distance and its low byte is 255.
ASSUME InfinityAssumption ==
    /\ Infinity \in Nat
    /\ Infinity > MaxByte + 1
    /\ Infinity % (MaxByte + 1) = MaxByte

ASSUME TimeAssumption ==
    /\ Now \in Nat
    /\ TimeoutInterval \in Nat
    /\ Now > TimeoutInterval

VARIABLES
    alive,                  \* the process runs
    mipd,                   \* "up", "closed", or "reset": closed, and the
                            \* next call on the socket fails with ECONNRESET
    unread,                 \* messages mipd left in the socket it closed
    routingTable,
    neighborTable,
    routingTableHasChanged,
    spc, si, sj, shop, smsg,       \* send thread; si = -1 in the flagged update
    rpc, rcv, k, dest, hop,    \* receive thread; rcv is read_buf
    fresh, spoke, cleared          \* histories, see below

shared == <<routingTable, neighborTable, routingTableHasChanged>>
sender == <<spc, si, sj, shop, smsg>>
receiver == <<rpc, rcv, k, dest, hop>>
history == <<fresh, spoke, cleared>>
vars == <<alive, mipd, unread, shared, sender, receiver, history>>

\* Storing an int into a uint8_t.
AsByte(i) == i % (MaxByte + 1)

Entry == [destination : {0}, next_hop : Byte \cup {-1},
          distance : 0 .. MaxByte + 1 \cup {Infinity}]
Advert == [destination : Byte, next_hop : Byte, distance : Byte]
Message == [kind : {"junk", "hello", "update", "request"}, byte : Byte]

TypeOK ==
    /\ alive \in BOOLEAN
    /\ mipd \in {"up", "closed", "reset"}
    /\ unread \in 0 .. MaxUnread
    /\ routingTable \in [Node -> Entry]
    /\ neighborTable \in [Node -> {0, 1}]
    /\ routingTableHasChanged \in {0, 1}
    /\ spc \in {"hello", "check", "dropHop", "dropDist", "collect",
                "collectDist", "sleep"}
    /\ si \in -1 .. MaxNodes
    /\ sj \in 0 .. MaxNodes
    /\ shop \in Byte
    /\ smsg \in Seq(Advert)
    /\ rpc \in {"read", "mark", "test", "dist", "triple", "via", "lookup",
                "reply"}
    /\ rcv \in Message
    /\ k \in 0 .. Triples
    /\ dest \in Byte
    /\ hop \in Byte \cup {-1}
    /\ fresh \subseteq Node
    /\ spoke \subseteq Peers
    /\ cleared \subseteq Node

\* Mutant: only destination is filled in.
InitialTableNamed == [n \in Node |->
                        [destination |-> n, next_hop |-> 0, distance |-> 0]]

\* The tables are zero-initialised globals: initializeRoutingTable, which
\* would fill them with <<i, -1, INFINITY>>, is never called.
InitialTable == [n \in Node |->
                    [destination |-> 0, next_hop |-> 0, distance |-> 0]]

Init ==
    /\ alive = TRUE
    /\ mipd = "up" /\ unread = 0
    /\ routingTable = InitialTable
    /\ neighborTable = [n \in Node |-> 0]
    /\ routingTableHasChanged = 0
    /\ spc = "hello" /\ si = 0 /\ sj = 0 /\ shop = 0 /\ smsg = <<>>
    /\ rpc = "read" /\ rcv = [kind |-> "junk", byte |-> 0]
    /\ k = 0 /\ dest = 0 /\ hop = 0
    /\ fresh = {} /\ spoke = {} /\ cleared = {}

(***************************************************************************)
(* The send thread.                                                        *)
(***************************************************************************)

\* neighborStatus[n].lastHelloReceived is never assigned.
lastHelloReceived == [n \in Node |-> 0]

\* Mutant: the operands are swapped.
TimedOutSwapped(n) == lastHelloReceived[n] - Now > TimeoutInterval

TimedOut(n) == Now - lastHelloReceived[n] > TimeoutInterval

Sends(pc) == alive /\ spc = pc

\* A failed send is only reported; it takes the pending error with it.
Sent ==
    /\ mipd' = IF mipd = "reset" THEN "closed" ELSE mipd
    /\ UNCHANGED unread

\* sendHelloFromApp, then the test of the change flag.
SendHello ==
    /\ Sends("hello")
    /\ Sent
    /\ IF routingTableHasChanged = 1
       THEN spc' = "collect" /\ si' = -1
       ELSE spc' = "check" /\ si' = 0
    /\ UNCHANGED <<alive, shared, sj, shop, smsg, receiver, history>>

\* One iteration of checkForNeighborTimeouts, up to the neighborTable store.
CheckNeighbor ==
    /\ Sends("check") /\ si < MaxNodes
    /\ IF neighborTable[si] = 1 /\ TimedOut(si)
       THEN /\ neighborTable' = [neighborTable EXCEPT ![si] = 0]
            /\ spc' = "dropHop"
            /\ UNCHANGED si
       ELSE /\ si' = si + 1
            /\ UNCHANGED <<neighborTable, spc>>
    /\ UNCHANGED <<alive, mipd, unread, routingTable, routingTableHasChanged,
                   sj, shop, smsg, receiver, history>>

DropHop ==
    /\ Sends("dropHop")
    /\ routingTable' = [routingTable EXCEPT ![si].next_hop = -1]
    /\ cleared' = cleared \cup {si}
    /\ spc' = "dropDist"
    /\ UNCHANGED <<alive, mipd, unread, neighborTable, routingTableHasChanged,
                   si, sj, shop, smsg, receiver, fresh, spoke>>

\* Mutant: the distance is left alone.
DropDistMissing ==
    /\ Sends("dropDist")
    /\ spc' = "collect"
    /\ UNCHANGED <<alive, mipd, unread, shared, si, sj, shop, smsg, receiver, history>>

DropDist ==
    /\ Sends("dropDist")
    /\ routingTable' = [routingTable EXCEPT ![si].distance = Infinity]
    /\ spc' = "collect"
    /\ UNCHANGED <<alive, mipd, unread, neighborTable, routingTableHasChanged,
                   si, sj, shop, smsg, receiver, history>>

\* Mutant: tests the other field.
HasHopByDistance(n) == routingTable[n].distance # Infinity

HasHop(n) == routingTable[n].next_hop # -1

\* sendUpdateFromApp: the two reads of one entry ...
CollectHop ==
    /\ Sends("collect") /\ sj < MaxNodes
    /\ IF HasHop(sj)
       THEN /\ shop' = AsByte(routingTable[sj].next_hop)
            /\ spc' = "collectDist"
            /\ UNCHANGED sj
       ELSE /\ sj' = sj + 1
            /\ UNCHANGED <<shop, spc>>
    /\ UNCHANGED <<alive, mipd, unread, shared, si, smsg, receiver, history>>

CollectDist ==
    /\ Sends("collectDist")
    /\ smsg' = Append(smsg,
                      [destination |-> AsByte(routingTable[sj].destination),
                       next_hop    |-> shop,
                       distance    |-> AsByte(routingTable[sj].distance)])
    /\ sj' = sj + 1 /\ shop' = 0 /\ spc' = "collect"
    /\ UNCHANGED <<alive, mipd, unread, shared, si, receiver, history>>

\* ... and the send; the flagged update then clears the flag.
SendUpdate ==
    /\ Sends("collect") /\ sj = MaxNodes
    /\ Sent
    /\ routingTableHasChanged' = IF si = -1 THEN 0 ELSE routingTableHasChanged
    /\ si' = si + 1 /\ sj' = 0 /\ smsg' = <<>> /\ spc' = "check"
    /\ UNCHANGED <<alive, routingTable, neighborTable, shop, receiver, history>>

\* The loop is over: sleep(HELLO_INTERVAL) begins.
FallAsleep ==
    /\ Sends("check") /\ si = MaxNodes
    /\ spc' = "sleep" /\ si' = 0
    /\ fresh' = {}
    /\ UNCHANGED <<alive, mipd, unread, shared, sj, shop, smsg, receiver,
                   spoke, cleared>>

WakeUp ==
    /\ Sends("sleep")
    /\ spc' = "hello"
    /\ UNCHANGED <<alive, mipd, unread, shared, si, sj, shop, smsg, receiver, history>>

Sender ==
    \/ SendHello \/ CheckNeighbor \/ DropHop \/ DropDist
    \/ CollectHop \/ CollectDist \/ SendUpdate \/ FallAsleep \/ WakeUp

(***************************************************************************)
(* The receive thread.                                                     *)
(***************************************************************************)

Receives(pc) == alive /\ rpc = pc

Exit == alive' = FALSE /\ UNCHANGED <<mipd, unread, shared, sender, receiver, history>>

\* There is a message to read: after mipd has closed, only what it left.
HasMessage == mipd = "up" \/ (mipd = "closed" /\ unread > 0)

\* handleIncomingMessages reads a whole message: a Hello or an update of a
\* neighbour (long enough: mipd pads an update to MAX_NODES entries), or a
\* request of mipd.
Read(kind, byte) ==
    /\ Receives("read") /\ HasMessage
    /\ rcv' = [kind |-> kind, byte |-> byte]
    /\ unread' = IF mipd = "up" THEN unread ELSE unread - 1
    /\ UNCHANGED <<alive, mipd, shared, sender, dest, hop, fresh, cleared>>

ReadHello(greeter) ==
    /\ Read("hello", greeter)
    /\ rpc' = IF greeter \in Node THEN "mark" ELSE "read"
    /\ spoke' = spoke \cup {greeter}
    /\ UNCHANGED k

ReadUpdate(senderMIP) ==
    /\ Read("update", senderMIP)
    /\ rpc' = "triple" /\ k' = Triples
    /\ spoke' = spoke \cup {senderMIP}

ReadRequest(destination) ==
    /\ Read("request", destination)
    /\ rpc' = "lookup"
    /\ UNCHANGED <<k, spoke>>

\* A message of an unknown type ends the process.
ReadJunk == Receives("read") /\ HasMessage /\ Exit

\* The read fails with ECONNRESET.
ReadError == Receives("read") /\ mipd = "reset" /\ Exit

\* The read returns 0 and read_buf still holds the previous message: a Hello
\* is handled again, the others fail the length test, and a buffer that was
\* never filled is of no known type.
ReadEndOfFile ==
    /\ Receives("read") /\ mipd = "closed" /\ unread = 0
    /\ \/ rcv.kind = "junk" /\ Exit
       \/ /\ rcv.kind = "hello" /\ rcv.byte \in Node
          /\ rpc' = "mark"
          /\ UNCHANGED <<alive, mipd, unread, shared, sender, rcv, k, dest,
                         hop, history>>

\* handleHelloMessage: neighborTable, then next_hop, then distance.
MarkNeighbor ==
    /\ Receives("mark")
    /\ neighborTable' = [neighborTable EXCEPT ![rcv.byte] = 1]
    /\ fresh' = fresh \cup {rcv.byte}
    /\ rpc' = "test"
    /\ UNCHANGED <<alive, mipd, unread, routingTable, routingTableHasChanged, sender,
                   rcv, k, dest, hop, spoke, cleared>>

IsNewNeighbor(n) == routingTable[n].next_hop = -1

GreetHop ==
    /\ Receives("test")
    /\ IF IsNewNeighbor(rcv.byte)
       THEN /\ routingTable' = [routingTable EXCEPT ![rcv.byte].next_hop = rcv.byte]
            /\ rpc' = "dist"
       ELSE /\ rpc' = "read"
            /\ UNCHANGED routingTable
    /\ UNCHANGED <<alive, mipd, unread, neighborTable, routingTableHasChanged, sender,
                   rcv, k, dest, hop, history>>

GreetDist ==
    /\ Receives("dist")
    /\ routingTable' = [routingTable EXCEPT ![rcv.byte].distance = 1]
    /\ rpc' = "read"
    /\ UNCHANGED <<alive, mipd, unread, neighborTable, routingTableHasChanged, sender,
                   rcv, k, dest, hop, history>>

\* Mutant: the index is not advanced.
NextTripleSame == k' = k /\ rpc' = "triple"

\* Mutant: the index is a byte, and comes round before the length is reached.
NextTripleWraps == k' = (IF k = 1 THEN Triples ELSE k - 1) /\ rpc' = "triple"

NextTriple == k' = k - 1 /\ rpc' = IF k = 1 THEN "read" ELSE "triple"

\* Mutant: believes whatever the current next hop says.
ShorterOrSameHop(d, distance) ==
    /\ d \in Node
    /\ \/ distance + 1 < routingTable[d].distance
       \/ routingTable[d].next_hop = rcv.byte

Shorter(d, distance) == d \in Node /\ distance + 1 < routingTable[d].distance

\* Mutant: the way to the sender is not counted.
CostUncounted(distance) == distance

Cost(distance) == distance + 1

\* handleUpdateMessage, one triple <<d, h, distance>>: the test and the
\* distance store, then the next_hop store.  Reading starts at index 4, so
\* that the first destination is the 'D' of the header and the others are
\* any bytes.  Past the table there are only zeros and ones, never longer
\* than distance + 1, up to the end of the mapped page.
Triple(d, h, distance) ==
    /\ Receives("triple")
    /\ k = Triples => d = TagByte
    /\ h = LocalMip \/ d < FaultFrom
    /\ IF h # LocalMip /\ Shorter(d, distance)
       THEN /\ dest' = d
            /\ routingTable' = [routingTable EXCEPT ![d].distance = Cost(distance)]
            /\ rpc' = "via"
            /\ UNCHANGED k
       ELSE /\ NextTriple
            /\ UNCHANGED <<routingTable, dest>>
    /\ UNCHANGED <<alive, mipd, unread, neighborTable, routingTableHasChanged, sender,
                   rcv, hop, history>>

Via ==
    /\ Receives("via")
    /\ routingTable' = [routingTable EXCEPT ![dest].next_hop = rcv.byte]
    /\ NextTriple
    /\ dest' = 0
    /\ UNCHANGED <<alive, mipd, unread, neighborTable, routingTableHasChanged, sender,
                   rcv, hop, history>>

\* A destination beyond the mapped page: the process is killed.
TripleFault ==
    /\ Receives("triple") /\ k < Triples
    /\ Exit

\* handleRequestMessage: getNextHopMIP copies the entry, next_hop before
\* distance, and the answer is a byte.
LookupHop ==
    /\ Receives("lookup")
    /\ hop' = IF rcv.byte \in Node THEN routingTable[rcv.byte].next_hop ELSE -1
    /\ rpc' = "reply"
    /\ UNCHANGED <<alive, mipd, unread, shared, sender, rcv, k, dest,
                   history>>

Answer == IF rcv.byte \in Node /\ routingTable[rcv.byte].distance # Infinity
          THEN AsByte(hop)
          ELSE MaxByte

SendResponse ==
    /\ Receives("reply")
    /\ Sent
    /\ hop' = 0 /\ rpc' = "read"
    /\ UNCHANGED <<alive, shared, sender, rcv, k, dest, history>>

Handler ==
    \/ MarkNeighbor \/ GreetHop \/ GreetDist
    \/ \E d, h, distance \in Byte : Triple(d, h, distance)
    \/ TripleFault \/ Via \/ LookupHop \/ SendResponse

Receiver ==
    \/ \E p \in Peers : ReadHello(p) \/ ReadUpdate(p)
    \/ \E d \in Byte : ReadRequest(d)
    \/ ReadJunk \/ ReadError \/ ReadEndOfFile
    \/ Handler

(***************************************************************************)
(* mipd exits; "reset" if it had not read all that was sent to it.  What   *)
(* it had written to the socket can still be read.                         *)
(***************************************************************************)
MipdExit ==
    /\ alive /\ mipd = "up"
    /\ mipd' \in {"closed", "reset"}
    /\ unread' \in 0 .. MaxUnread
    /\ UNCHANGED <<alive, shared, sender, receiver, history>>

Next == Sender \/ Receiver \/ MipdExit

\* Both threads are scheduled; a handler runs to its end.
Fairness == WF_vars(Sender) /\ WF_vars(Handler)

Spec == Init /\ [][Next]_vars /\ Fairness

(***************************************************************************)
(* Histories.  fresh: a Hello of the node was handled since the send       *)
(* thread last fell asleep.  spoke: a Hello or an update of it was read.   *)
(* cleared: the timeout check has dropped it.                              *)
(***************************************************************************)

\* Neither thread is inside a handler or a timeout check.
Quiescent == rpc = "read" /\ spc = "sleep"

\* Whatever the threads interleave, a next hop that is stored, advertised or
\* answered is the zero of the initial table or a node whose message was
\* read; -1 is stored only for a dropped node (route.c:115, 172, 202).
HopsSpoke ==
    /\ \A d \in Node :
          \/ routingTable[d].next_hop \in spoke \cup {0}
          \/ routingTable[d].next_hop = -1 /\ d \in cleared
    /\ \A i \in 1 .. Len(smsg) : smsg[i].next_hop \in spoke \cup {0}
    /\ rpc = "reply" => Answer \in spoke \cup {0, MaxByte}

\* An update stores distance before next_hop and the timeout check next_hop
\* before distance, so that their race never leaves a learnt distance
\* without a next hop: between handlers an entry without one is at INFINITY
\* or at the 1 of a Hello (route.c:115-116, 172-173, 201-202).
NoHoplessRoute ==
    Quiescent => \A d \in Node : routingTable[d].next_hop = -1
                                    => routingTable[d].distance \in {1, Infinity}

\* A route gets longer only when the timeout check gives it up, or when a
\* Hello gives a cost of 1 to the entry the check is just clearing.
RoutesGetShorter ==
    [][\A d \in Node :
          routingTable'[d].distance > routingTable[d].distance
             => \/ spc = "dropDist" /\ si = d
                \/ rpc = "dist" /\ rcv.byte = d /\ routingTable'[d].distance = 1]_vars

\* The table, as those see it that read one field of an entry at a time.
Table == INSTANCE RouteTable WITH
    hop <- [d \in Node |-> routingTable[d].next_hop],
    dist <- [d \in Node |-> routingTable[d].distance],
    dropped <- cleared

\* Two threads that store without a lock, in opposite orders, are to a reader
\* one table whose entries are given up, adopted and shortened (route.c:115,
\* 172, 201).
ImplementsTable == Table!Spec

\* The accesses to shared memory that a handler still may make.
AccessesLeft ==
    CASE rpc = "read" -> 0
      [] rpc \in {"dist", "reply"} -> 1
      [] rpc \in {"test", "lookup"} -> 2
      [] rpc = "mark" -> 3
      [] rpc = "triple" -> 2 * k
      [] rpc = "via" -> 2 * k - 1

\* Whatever the send thread does to the table meanwhile, a handler that runs
\* never has more left to do than before: that of an update ends after two
\* accesses per triple (route.c:188).
HandlersRunDown ==
    [][rpc # "read" => UNCHANGED receiver \/ AccessesLeft' < AccessesLeft]_vars

\* No message wedges the receive thread: every handler returns, or the
\* process ends (route.c:188, the loop over an update).
HandlersReturn == rpc # "read" ~> (rpc = "read" \/ ~alive)

\* A node whose Hellos stop is dropped and stays so, whatever the updates of
\* others and the handlers do to its entry meanwhile (route.c:109-122).
SilentAreDropped ==
    \A n \in Node :
        <>[]~(rpc = "mark" /\ rcv.byte = n)
            => <>[](neighborTable[n] = 0 \/ ~alive)

(***************************************************************************)
(* What the comments say and the code does not do.                         *)
(***************************************************************************)

\* route.c:103-104: the loss of a route is next_hop -1 and distance INFINITY,
\* one never without the other between two handlers.
LostRouteHasBoth ==
    Quiescent => \A d \in Node : routingTable[d].next_hop = -1
                                    <=> routingTable[d].distance = Infinity

\* route.c:99-102: only a neighbour that exceeded TIMEOUT_INTERVAL without a
\* Hello is dropped; one whose Hello was handled since the send thread fell
\* asleep, HELLO_INTERVAL ago, has not.
FreshNeighborsStay ==
    [][\A n \in fresh : neighborTable[n] = 1 => neighborTable'[n] = 1]_vars

=============================================================================
