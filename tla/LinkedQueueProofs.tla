-------------------------- MODULE LinkedQueueProofs --------------------------
(***************************************************************************)
(* The linked list keeps its shape and implements the FIFO queue, for any  *)
(* set of packets and any set of addresses.  ListSound is inductive        *)
(* together with TypeOK.                                                   *)
(***************************************************************************)
EXTENDS LinkedQueue, SequenceTheorems, TLAPS

ListInv == TypeOK /\ ListSound

\* What Append and Tail do to a sequence, element by element.
LEMMA AppendElements ==
    ASSUME NEW S, NEW s \in Seq(S), NEW e \in S
    PROVE  /\ Append(s, e) \in Seq(S)
           /\ Len(Append(s, e)) = Len(s) + 1
           /\ \A i \in 1 .. Len(s) : Append(s, e)[i] = s[i]
           /\ Append(s, e)[Len(s) + 1] = e
           /\ Append(s, e) # <<>>
    OBVIOUS

LEMMA TailElements ==
    ASSUME NEW S, NEW s \in Seq(S), s # <<>>
    PROVE  /\ Tail(s) \in Seq(S)
           /\ Len(Tail(s)) = Len(s) - 1
           /\ \A i \in 1 .. Len(s) - 1 : Tail(s)[i] = s[i + 1]
           /\ (Tail(s) = <<>> <=> Len(s) = 1)
  <1>1. /\ Tail(s) \in Seq(S)
        /\ Len(Tail(s)) = Len(s) - 1
        /\ \A i \in 1 .. Len(s) - 1 : Tail(s)[i] = s[i + 1]
    OBVIOUS
  <1>2. Tail(s) = <<>> <=> Len(Tail(s)) = 0
    BY <1>1, EmptySeq
  <1> QED
    BY <1>1, <1>2, LenProperties

\* The empty list of initialize_queue_forward is sound.
LEMMA ListInit == Init => ListInv
  BY NodesAssumption DEF Init, ListInv, TypeOK, ListSound

\* enqueue_forward keeps the list sound: the node is new, and the only old
\* one it changes is the rear.
LEMMA ListEnqueue ==
    ASSUME ListInv, NEW packet \in Packets, Enqueue(packet)
    PROVE  ListInv'
  <1> USE NodesAssumption
  <1>1. PICK n \in Nodes \ allocated :
            /\ Link(n, packet)
            /\ allocated' = allocated \cup {n}
            /\ size' = size + 1
            /\ returned' = "ok"
            /\ chain' = Append(chain, n)
    BY DEF Enqueue
  <1>2. /\ chain \in Seq(Nodes) /\ chain' \in Seq(Nodes)
        /\ Len(chain') = Len(chain) + 1 /\ Len(chain) \in Nat
        /\ \A i \in 1 .. Len(chain) : chain'[i] = chain[i]
        /\ chain'[Len(chain) + 1] = n
        /\ chain' # <<>>
    BY <1>1, AppendElements DEF ListInv, TypeOK
  <1>3. \A i \in 1 .. Len(chain) : chain[i] \in Nodes /\ chain[i] # n
    BY <1>1, <1>2 DEF ListInv, ListSound
  <1>4. chain = <<>> <=> rear = NULL
    BY <1>2 DEF ListInv, ListSound, TypeOK
  <1>5. TypeOK'
    <2>1. front' \in Nodes \cup {NULL} /\ rear' \in Nodes \cup {NULL}
      BY <1>1 DEF ListInv, TypeOK, Link
    <2>2. node' \in [Nodes -> [packet : Packets, next : Nodes \cup {NULL}]]
      BY <1>1 DEF ListInv, TypeOK, Link
    <2> QED
      BY <1>1, <1>2, <2>1, <2>2 DEF ListInv, TypeOK
  <1>6. ListSound'
    <2>1. size' = Len(chain')
      BY <1>1, <1>2 DEF ListInv, ListSound
    <2>2. \A i, j \in 1 .. Len(chain') : chain'[i] = chain'[j] => i = j
      BY <1>2, <1>3 DEF ListInv, ListSound
    <2>3. allocated' = {chain'[i] : i \in 1 .. Len(chain')}
      BY <1>1, <1>2 DEF ListInv, ListSound
    <2>4. front' = IF chain' = <<>> THEN NULL ELSE chain'[1]
      BY <1>1, <1>2, <1>4 DEF ListInv, ListSound, Link
    <2>5. rear' = IF chain' = <<>> THEN NULL ELSE chain'[Len(chain')]
      BY <1>1, <1>2 DEF Link
    <2>6. ASSUME NEW i \in 1 .. Len(chain')
          PROVE  node'[chain'[i]].next = IF i = Len(chain') THEN NULL ELSE chain'[i + 1]
      <3>1. CASE chain = <<>>
        BY <3>1, <1>1, <1>2, <1>4 DEF ListInv, TypeOK, Link
      <3>2. CASE chain # <<>>
        <4>1. /\ rear = chain[Len(chain)] /\ rear \in Nodes /\ rear # n
              /\ Len(chain) \in 1 .. Len(chain)
          BY <3>2, <1>2, <1>3 DEF ListInv, ListSound
        <4>2. node' = [node EXCEPT ![n] = [packet |-> packet, next |-> NULL],
                                   ![rear].next = n]
          BY <3>2, <1>1, <1>4 DEF Link
        <4>3. \A m \in Nodes : node'[m].next = IF m = n THEN NULL
                                               ELSE IF m = rear THEN n
                                               ELSE node[m].next
          BY <4>1, <4>2 DEF ListInv, TypeOK
        <4>4. CASE i = Len(chain')
          BY <4>4, <4>3, <1>2
        <4>5. CASE i = Len(chain)
          BY <4>5, <4>1, <4>3, <1>2
        <4>6. CASE i < Len(chain)
          <5>1. chain'[i] = chain[i] /\ chain'[i + 1] = chain[i + 1]
                /\ i \in 1 .. Len(chain) /\ chain[i] \in Nodes /\ chain[i] # n
            BY <4>6, <1>2, <1>3
          <5>2. chain[i] # rear
            BY <4>6, <5>1, <4>1 DEF ListInv, ListSound
          <5> QED
            BY <4>6, <5>1, <5>2, <4>3, <1>2 DEF ListInv, ListSound
        <4> QED
          BY <4>4, <4>5, <4>6, <1>2
      <3> QED
        BY <3>1, <3>2
    <2> QED
      BY <2>1, <2>2, <2>3, <2>4, <2>5, <2>6 DEF ListSound
  <1> QED
    BY <1>5, <1>6 DEF ListInv

\* dequeue_forward keeps the list sound: the second node becomes the front,
\* and with the last node rear goes as well.
LEMMA ListDequeue ==
    ASSUME ListInv, Dequeue
    PROVE  ListInv'
  <1> USE NodesAssumption
  <1>1. chain \in Seq(Nodes) /\ chain # <<>> /\ front = chain[1]
        /\ Len(chain) \in Nat /\ Len(chain) >= 1
    BY DEF ListInv, ListSound, TypeOK, Dequeue
  <1>2. /\ chain' \in Seq(Nodes) /\ Len(chain') = Len(chain) - 1
        /\ \A i \in 1 .. Len(chain) - 1 : chain'[i] = chain[i + 1]
        /\ (chain' = <<>> <=> Len(chain) = 1)
    BY <1>1, TailElements DEF Dequeue
  <1>3. \A i \in 1 .. Len(chain) : chain[i] \in Nodes
    BY <1>1
  <1>4. node[front].next = IF Len(chain) = 1 THEN NULL ELSE chain[2]
    BY <1>1 DEF ListInv, ListSound
  <1>5. TypeOK'
    BY <1>1, <1>2, <1>3 DEF ListInv, TypeOK, ListSound, Dequeue, Unlink
  <1>6. ListSound'
    <2>1. size' = Len(chain')
      BY <1>2 DEF ListInv, ListSound, Dequeue
    <2>2. \A i, j \in 1 .. Len(chain') : chain'[i] = chain'[j] => i = j
      BY <1>1, <1>2 DEF ListInv, ListSound
    <2>3. allocated' = {chain'[i] : i \in 1 .. Len(chain')}
      <3>1. \A i \in 2 .. Len(chain) : chain[i] # front
        BY <1>1 DEF ListInv, ListSound
      <3>2. \A m \in allocated : m # front => \E i \in 1 .. Len(chain') : m = chain'[i]
        <4>1. TAKE m \in allocated
        <4>2. HAVE m # front
        <4>3. PICK j \in 1 .. Len(chain) : m = chain[j]
          BY DEF ListInv, ListSound
        <4>4. j - 1 \in 1 .. Len(chain') /\ chain'[j - 1] = m
          BY <1>1, <1>2, <4>2, <4>3
        <4> QED
          BY <4>4
      <3>3. \A i \in 1 .. Len(chain') : chain'[i] \in allocated /\ chain'[i] # front
        BY <1>1, <1>2, <3>1 DEF ListInv, ListSound
      <3> QED
        BY <3>2, <3>3 DEF Dequeue
    <2>4. front' = IF chain' = <<>> THEN NULL ELSE chain'[1]
      BY <1>1, <1>2, <1>4 DEF Dequeue, Unlink
    <2>5. rear' = IF chain' = <<>> THEN NULL ELSE chain'[Len(chain')]
      BY <1>1, <1>2, <1>3, <1>4 DEF ListInv, ListSound, Dequeue, Unlink
    <2>6. \A i \in 1 .. Len(chain') :
             node'[chain'[i]].next = IF i = Len(chain') THEN NULL ELSE chain'[i + 1]
      BY <1>1, <1>2 DEF ListInv, ListSound, Dequeue
    <2> QED
      BY <2>1, <2>2, <2>3, <2>4, <2>5, <2>6 DEF ListSound
  <1> QED
    BY <1>5, <1>6 DEF ListInv

\* Every step keeps the list sound.
LEMMA ListStep == ListInv /\ [Next]_vars => ListInv'
  <1> SUFFICES ASSUME ListInv, [Next]_vars PROVE ListInv'
    OBVIOUS
  <1>1. ASSUME NEW packet \in Packets, Enqueue(packet) PROVE ListInv'
    BY <1>1, ListEnqueue
  <1>2. CASE EnqueueFails
    BY <1>2 DEF EnqueueFails, ListInv, TypeOK, ListSound
  <1>3. CASE Dequeue
    BY <1>3, ListDequeue
  <1>4. CASE DequeueEmpty
    BY <1>4 DEF DequeueEmpty, ListInv, TypeOK, ListSound
  <1>5. CASE UNCHANGED vars
    BY <1>5 DEF vars, ListInv, TypeOK, ListSound
  <1> QED
    BY <1>1, <1>2, <1>3, <1>4, <1>5 DEF Next

\* No node is lost, freed twice or reached after it was freed, whichever
\* addresses malloc hands out and however often it fails (pdu.c:400-443).
THEOREM ListIsSound == Spec => []ListSound
  <1>1. ListInv => ListSound
    BY DEF ListInv
  <1> QED
    BY <1>1, ListInit, ListStep, PTL DEF Spec

\* Every variable of the list keeps its type.
THEOREM ListTypeCorrect == Spec => []TypeOK
  <1>1. ListInv => TypeOK
    BY DEF ListInv
  <1> QED
    BY <1>1, ListInit, ListStep, PTL DEF Spec

\* The packets along the list, as the abstract queue sees them.
Contents == [i \in 1 .. Len(chain) |-> node[chain[i]].packet]

\* A list without nodes is the empty queue.
LEMMA FifoInit == Init => Fifo!Init
  <1> SUFFICES ASSUME Init PROVE Fifo!Init
    OBVIOUS
  <1>1. [i \in 1 .. 0 |-> node[chain[i]].packet] = <<>>
    OBVIOUS
  <1> QED
    BY <1>1 DEF Init, Fifo!Init

\* Linking a node behind the rear appends its packet to the queue.
LEMMA FifoEnqueue ==
    ASSUME ListInv, ListInv', NEW packet \in Packets, Enqueue(packet)
    PROVE  Fifo!Enqueue(packet)
  <1> USE NodesAssumption
  <1>1. PICK n \in Nodes \ allocated :
            Link(n, packet) /\ returned' = "ok" /\ chain' = Append(chain, n)
    BY DEF Enqueue
  <1>2. /\ chain \in Seq(Nodes) /\ Len(chain) \in Nat
        /\ Len(chain') = Len(chain) + 1
        /\ \A i \in 1 .. Len(chain) : chain'[i] = chain[i]
        /\ chain'[Len(chain) + 1] = n
    BY <1>1, AppendElements DEF ListInv, TypeOK
  <1>3. \A i \in 1 .. Len(chain) : chain[i] \in Nodes \ {n}
    BY <1>1, <1>2 DEF ListInv, ListSound
  <1>4. \A m \in Nodes : node'[m].packet = IF m = n THEN packet ELSE node[m].packet
    BY <1>1 DEF ListInv, TypeOK, Link
  <1>5. Contents \in Seq(Packets)
    BY <1>2, <1>3 DEF Contents, ListInv, TypeOK
  <1>6. Contents' = Append(Contents, packet)
    <2>1. Len(Contents) = Len(chain)
      BY <1>2, <1>5 DEF Contents
    <2>2. Len(Append(Contents, packet)) = Len(chain) + 1
          /\ Append(Contents, packet) \in Seq(Packets)
      BY <2>1, <1>5, AppendElements
    <2>3. \A i \in 1 .. Len(chain) + 1 :
             Append(Contents, packet)[i] = node'[chain'[i]].packet
      BY <1>2, <1>3, <1>4, <1>5, <2>1, AppendElements DEF Contents
    <2> QED
      BY <1>2, <2>2, <2>3 DEF Contents
  <1> QED
    BY <1>1, <1>6 DEF Fifo!Enqueue, Contents

\* Unlinking the front returns and removes the head of the queue.
LEMMA FifoDequeue ==
    ASSUME ListInv, Dequeue
    PROVE  Fifo!Dequeue
  <1>1. chain \in Seq(Nodes) /\ chain # <<>> /\ front = chain[1]
        /\ Len(chain) \in Nat /\ Len(chain) >= 1
    BY NodesAssumption DEF ListInv, ListSound, TypeOK, Dequeue
  <1>2. /\ Len(chain') = Len(chain) - 1
        /\ \A i \in 1 .. Len(chain) - 1 : chain'[i] = chain[i + 1]
    BY <1>1, TailElements DEF Dequeue
  <1>3. Contents \in Seq(Packets) /\ Len(Contents) = Len(chain) /\ Contents # <<>>
    BY <1>1 DEF Contents, ListInv, TypeOK
  <1>4. Head(Contents) = node[front].packet
    BY <1>1, <1>3 DEF Contents
  <1>5. Contents' = Tail(Contents)
    BY <1>1, <1>2, <1>3, TailElements DEF Contents, Dequeue
  <1> QED
    BY <1>3, <1>4, <1>5 DEF Fifo!Dequeue, Contents, Dequeue

\* Every step of the list is a step of the queue, or none.
LEMMA FifoStep == ListInv /\ ListInv' /\ [Next]_vars => [Fifo!Next]_Fifo!vars
  <1> SUFFICES ASSUME ListInv, ListInv', [Next]_vars
               PROVE  [Fifo!Next]_Fifo!vars
    OBVIOUS
  <1>1. ASSUME NEW packet \in Packets, Enqueue(packet) PROVE Fifo!Next
    BY <1>1, FifoEnqueue DEF Fifo!Next
  <1>2. CASE EnqueueFails
    BY <1>2 DEF EnqueueFails, Fifo!Next, Fifo!EnqueueFails
  <1>3. CASE Dequeue
    BY <1>3, FifoDequeue DEF Fifo!Next
  <1>4. CASE DequeueEmpty
    <2>1. chain = <<>>
      BY <1>4, NodesAssumption DEF DequeueEmpty, ListInv, ListSound, TypeOK
    <2>2. [i \in 1 .. Len(chain) |-> node[chain[i]].packet] = <<>>
      BY <2>1
    <2> QED
      BY <1>4, <2>2 DEF DequeueEmpty, Fifo!Next, Fifo!DequeueEmpty
  <1>5. CASE UNCHANGED vars
    BY <1>5 DEF vars, Fifo!vars
  <1> QED
    BY <1>1, <1>2, <1>3, <1>4, <1>5 DEF Next

\* The linked list implements the FIFO queue its comments promise, whatever
\* malloc returns (pdu.c:386-428).
THEOREM ListImplementsFifo == Spec => ImplementsFifo
  <1> QED
    BY ListInit, ListStep, FifoInit, FifoStep, PTL DEF Spec, ImplementsFifo, Fifo!Spec
=============================================================================
