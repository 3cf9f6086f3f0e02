----------------------------- MODULE LinkedQueue -----------------------------
(***************************************************************************)
(* The forward queue as pdu.c keeps it: a singly linked list of heap nodes *)
(* with front and rear pointers.  A freed node keeps its fields and may be *)
(* handed out again by the next malloc.  One action is one call; mipd has  *)
(* one thread.                                                             *)
(***************************************************************************)
EXTENDS Integers, Sequences

CONSTANTS
    Packets,        \* what is queued
    Nodes,          \* addresses malloc may return: a bound on the queue
    NULL

ASSUME NodesAssumption ==
    /\ NULL \notin Nodes
    /\ Packets \cap {"ok", "failed", "null"} = {}

VARIABLES
    front, rear, size,
    node,           \* what is stored at each address
    allocated,      \* the nodes that are not free
    returned,       \* the result of the last call, as in ForwardQueue
    chain           \* history: the nodes in the order they were linked

vars == <<front, rear, size, node, allocated, returned, chain>>

TypeOK ==
    /\ front \in Nodes \cup {NULL} /\ rear \in Nodes \cup {NULL}
    /\ size \in Nat
    /\ node \in [Nodes -> [packet : Packets, next : Nodes \cup {NULL}]]
    /\ allocated \subseteq Nodes
    /\ returned \in Packets \cup {"ok", "failed", "null"}
    /\ chain \in Seq(Nodes)

\* initialize_queue_forward; the heap may hold anything.
Init ==
    /\ front = NULL /\ rear = NULL /\ size = 0
    /\ node \in [Nodes -> [packet : Packets, next : Nodes \cup {NULL}]]
    /\ allocated = {}
    /\ returned = "ok"
    /\ chain = <<>>

\* Mutant: linked before the front instead of behind the rear.
LinkInFront(n, packet) ==
    /\ front' = n
    /\ rear' = IF rear = NULL THEN n ELSE rear
    /\ node' = [node EXCEPT ![n] = [packet |-> packet, next |-> front]]

Link(n, packet) ==
    /\ rear' = n
    /\ IF rear = NULL
       THEN /\ front' = n
            /\ node' = [node EXCEPT ![n] = [packet |-> packet, next |-> NULL]]
       ELSE /\ UNCHANGED front
            /\ node' = [node EXCEPT ![n] = [packet |-> packet, next |-> NULL],
                                    ![rear].next = n]

Enqueue(packet) ==
    \E n \in Nodes \ allocated :
        /\ Link(n, packet)
        /\ allocated' = allocated \cup {n}
        /\ size' = size + 1
        /\ returned' = "ok"
        /\ chain' = Append(chain, n)

\* malloc returns NULL.
EnqueueFails ==
    /\ returned' = "failed"
    /\ UNCHANGED <<front, rear, size, node, allocated, chain>>

\* Mutant: rear is left to point to the node that is freed.
UnlinkKeepsRear == front' = node[front].next /\ UNCHANGED rear

Unlink ==
    /\ front' = node[front].next
    /\ rear' = IF node[front].next = NULL THEN NULL ELSE rear

Dequeue ==
    /\ front # NULL
    /\ returned' = node[front].packet
    /\ Unlink
    /\ allocated' = allocated \ {front}
    /\ size' = size - 1
    /\ chain' = Tail(chain)
    /\ UNCHANGED node

\* Mutant: an empty queue is counted down as well.
DequeueEmptyCounts ==
    /\ front = NULL
    /\ returned' = "null" /\ size' = size - 1
    /\ UNCHANGED <<front, rear, node, allocated, chain>>

DequeueEmpty ==
    /\ front = NULL
    /\ returned' = "null"
    /\ UNCHANGED <<front, rear, size, node, allocated, chain>>

Next ==
    \/ \E packet \in Packets : Enqueue(packet)
    \/ EnqueueFails \/ Dequeue \/ DequeueEmpty

Spec == Init /\ [][Next]_vars

(***************************************************************************)
(* Properties.                                                             *)
(***************************************************************************)

\* From front the next pointers lead through every allocated node once, in
\* the order of the calls, and end at rear with NULL: no node is lost, freed
\* while it is reachable or reachable after it was freed, whatever malloc
\* reuses (pdu.c:400-443).
ListSound ==
    /\ size = Len(chain)
    /\ \A i, j \in 1 .. Len(chain) : chain[i] = chain[j] => i = j
    /\ allocated = {chain[i] : i \in 1 .. Len(chain)}
    /\ front = IF chain = <<>> THEN NULL ELSE chain[1]
    /\ rear = IF chain = <<>> THEN NULL ELSE chain[Len(chain)]
    /\ \A i \in 1 .. Len(chain) :
          node[chain[i]].next = IF i = Len(chain) THEN NULL ELSE chain[i + 1]

\* The packets along the list are the abstract queue.
Fifo == INSTANCE ForwardQueue WITH
            queue <- [i \in 1 .. Len(chain) |-> node[chain[i]].packet]

\* The list behaves as the FIFO queue of its comments, failed allocations
\* included (pdu.c:386-428).
ImplementsFifo == Fifo!Spec

=============================================================================
