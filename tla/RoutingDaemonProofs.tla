------------------------ MODULE RoutingDaemonProofs ------------------------
(***************************************************************************)
(* Safety of RoutingDaemon for every table size, byte width, set of peers  *)
(* and message.                                                            *)
(***************************************************************************)
EXTENDS RoutingDaemon, TLAPS

(***************************************************************************)
(* Conversion to a byte.                                                   *)
(***************************************************************************)

\* A byte keeps its value in a uint8_t and -1 becomes the largest byte.
LEMMA AsByteFacts ==
    ASSUME NEW i \in Int
    PROVE  /\ AsByte(i) \in Byte
           /\ i \in Byte => AsByte(i) = i
           /\ AsByte(-1) = MaxByte
BY NodesAssumption DEF AsByte, Byte

\* The fields of an entry are integers.
LEMMA EntryFields ==
    ASSUME NEW e \in Entry
    PROVE  /\ e.destination \in Int
           /\ e.next_hop \in Int
           /\ e.distance \in Int
<1>1. e.destination = 0 /\ e.next_hop \in Byte \cup {-1}
    BY DEF Entry
<1>2. e.distance \in 0 .. MaxByte + 1 \/ e.distance = Infinity
    BY DEF Entry
<1> QED BY <1>1, <1>2, InfinityAssumption DEF Byte

\* A store to one field of one entry leaves a table.
LEMMA StoreHop ==
    ASSUME routingTable \in [Node -> Entry], NEW d \in Node,
           NEW h \in Byte \cup {-1},
           routingTable' = [routingTable EXCEPT ![d].next_hop = h]
    PROVE  routingTable' \in [Node -> Entry]
BY DEF Entry

\* The same for a store to distance.
LEMMA StoreDistance ==
    ASSUME routingTable \in [Node -> Entry], NEW d \in Node,
           NEW x \in 0 .. MaxByte + 1 \cup {Infinity},
           routingTable' = [routingTable EXCEPT ![d].distance = x]
    PROVE  routingTable' \in [Node -> Entry]
BY DEF Entry

(***************************************************************************)
(* Types, with the range of each index at the places that use it.          *)
(***************************************************************************)

Places ==
    /\ spc \in {"dropHop", "dropDist"} => si \in Node
    /\ spc = "check" => si >= 0
    /\ spc \in {"collect", "collectDist"} => si < MaxNodes
    /\ spc = "collectDist" => sj \in Node
    /\ rpc \in {"mark", "test", "dist"} => rcv.kind = "hello" /\ rcv.byte \in Node
    /\ rpc \in {"triple", "via"} => rcv.kind = "update" /\ k >= 1
    /\ rpc = "via" => dest \in Node

TypeInv == TypeOK /\ Places

\* The zeroed globals have their types and both threads start at their first
\* access.
LEMMA TypeInit == Init => TypeInv
BY NodesAssumption
   DEF Init, InitialTable, TypeInv, TypeOK, Places, Entry, Advert, Message,
       Node, Byte

\* A read takes one of the messages that are there.
LEMMA ReadLeaves ==
    ASSUME TypeOK, NEW kind, NEW byte, Read(kind, byte)
    PROVE  unread' \in 0 .. MaxUnread
BY NodesAssumption DEF TypeOK, Read, HasMessage

\* No access of either thread stores a value of another type, nor moves a
\* thread to an access whose locals are not set.
LEMMA TypeStep == TypeInv /\ [Next]_vars => TypeInv'
<1> SUFFICES ASSUME TypeInv, [Next]_vars PROVE TypeInv'
    OBVIOUS
<1> USE DEF TypeInv, TypeOK, Places
<1>1. CASE SendHello
    BY <1>1, NodesAssumption DEF SendHello, Sends, Sent, shared, receiver, history
<1>2. CASE CheckNeighbor
    BY <1>2, NodesAssumption DEF CheckNeighbor, Sends, receiver, history, Node
<1>3. CASE DropHop
    BY <1>3, NodesAssumption DEF DropHop, Sends, receiver, Node, Entry
<1>4. CASE DropDist
  <2>1. routingTable' \in [Node -> Entry]
      BY <1>4, StoreDistance DEF DropDist, Sends
  <2> QED BY <1>4, <2>1, NodesAssumption
      DEF DropDist, Sends, receiver, history, Node
<1>5. CASE CollectHop
  <2>1. sj \in Node => routingTable[sj].next_hop \in Int
      BY DEF Entry, Byte
  <2>2. sj \in Node => AsByte(routingTable[sj].next_hop) \in Byte
      BY <2>1, AsByteFacts
  <2> QED BY <1>5, <2>2, NodesAssumption
      DEF CollectHop, HasHop, Sends, shared, receiver, history, Node
<1>6. CASE CollectDist
  <2>1. /\ routingTable[sj].destination \in Int
        /\ routingTable[sj].distance \in Int
    <3>1. routingTable[sj] \in Entry
        BY <1>6 DEF CollectDist, Sends
    <3> QED BY <3>1, EntryFields
  <2>2. /\ AsByte(routingTable[sj].destination) \in Byte
        /\ AsByte(routingTable[sj].distance) \in Byte
      BY <2>1, AsByteFacts
  <2>3. smsg' \in Seq(Advert)
      BY <1>6, <2>2 DEF CollectDist, Sends, Advert
  <2> QED BY <1>6, <2>3, NodesAssumption
      DEF CollectDist, Sends, shared, receiver, history, Node, Byte
<1>7. CASE SendUpdate
    BY <1>7, NodesAssumption DEF SendUpdate, Sends, Sent, receiver, history
<1>8. CASE FallAsleep
    BY <1>8, NodesAssumption DEF FallAsleep, Sends, shared, receiver, history
<1>9. CASE WakeUp
    BY <1>9, NodesAssumption DEF WakeUp, Sends, shared, receiver, history
<1>10. ASSUME NEW p \in Peers, ReadHello(p) \/ ReadUpdate(p)
       PROVE  TypeInv'
    BY <1>10, ReadLeaves, NodesAssumption, AddressAssumption
    DEF ReadHello, ReadUpdate, Read, Receives, shared, sender, Message
<1>10a. ASSUME NEW d \in Byte, ReadRequest(d)
        PROVE  TypeInv'
    BY <1>10a, ReadLeaves DEF ReadRequest, Read, Receives, shared, sender, Message
<1>11. CASE Exit
  <2>1. /\ alive' \in BOOLEAN
        /\ UNCHANGED <<mipd, unread, shared, sender, receiver, history>>
      BY <1>11 DEF Exit
  <2> QED BY <2>1 DEF shared, sender, receiver, history
<1>12. CASE ReadEndOfFile
    BY <1>12, <1>11 DEF ReadEndOfFile, Receives, shared, sender, receiver, history
<1>13. CASE MarkNeighbor
    BY <1>13 DEF MarkNeighbor, Receives, sender
<1>14. CASE GreetHop
  <2>1. routingTable' \in [Node -> Entry]
    <3>1. rcv.byte \in Node /\ rcv.byte \in Byte
        BY <1>14 DEF GreetHop, IsNewNeighbor, Receives, Message
    <3> QED BY <1>14, <3>1, StoreHop DEF GreetHop, IsNewNeighbor
  <2> QED BY <1>14, <2>1 DEF GreetHop, IsNewNeighbor, Receives, sender, history
<1>15. CASE GreetDist
  <2>1. routingTable' \in [Node -> Entry]
    <3>1. rcv.byte \in Node /\ 1 \in 0 .. MaxByte + 1
        BY <1>15, NodesAssumption DEF GreetDist, Receives
    <3> QED BY <1>15, <3>1, StoreDistance DEF GreetDist
  <2> QED BY <1>15, <2>1 DEF GreetDist, Receives, sender, history
<1>16. ASSUME NEW d \in Byte, NEW h \in Byte, NEW distance \in Byte,
              Triple(d, h, distance)
       PROVE  TypeInv'
  <2>1. distance + 1 \in 0 .. MaxByte + 1
      BY NodesAssumption DEF Byte
  <2>2. routingTable' \in [Node -> Entry]
    <3>1. CASE h # LocalMip /\ Shorter(d, distance)
        BY <1>16, <2>1, <3>1, StoreDistance DEF Triple, Cost, Shorter
    <3>2. CASE ~(h # LocalMip /\ Shorter(d, distance))
        BY <1>16, <3>2 DEF Triple
    <3> QED BY <3>1, <3>2
  <2>3. k' \in 0 .. Triples /\ (rpc' \in {"triple", "via"} => k' >= 1)
      BY <1>16, NodesAssumption DEF Triple, Cost, Shorter, NextTriple, Receives
  <2>4. /\ rpc' \in {"read", "triple", "via"} /\ dest' \in Byte
        /\ rpc' = "via" => dest' \in Node
        /\ rcv.kind = "update"
      BY <1>16 DEF Triple, Shorter, NextTriple, Receives
  <2>5. UNCHANGED <<alive, mipd, unread, neighborTable, routingTableHasChanged,
                    sender, rcv, hop, history>>
      BY <1>16 DEF Triple
  <2> QED BY <2>2, <2>3, <2>4, <2>5 DEF sender, history
<1>17. CASE Via
  <2>1. routingTable' \in [Node -> Entry]
      BY <1>17 DEF Via, Receives, Entry, Message
  <2>2. k' \in 0 .. Triples /\ (rpc' \in {"triple", "via"} => k' >= 1)
      BY <1>17, NodesAssumption DEF Via, NextTriple, Receives
  <2>3. /\ rpc' \in {"read", "triple"}
        /\ dest' = 0 /\ 0 \in Byte
        /\ UNCHANGED <<alive, mipd, unread, neighborTable, routingTableHasChanged,
                       sender, rcv, hop, history>>
        /\ rcv.kind = "update"
      BY <1>17, NodesAssumption DEF Via, NextTriple, Receives, Byte
  <2> QED BY <2>1, <2>2, <2>3 DEF sender, history
<1>18. CASE LookupHop
    BY <1>18 DEF LookupHop, Receives, shared, sender, history, Entry
<1>19. CASE SendResponse
    BY <1>19, NodesAssumption DEF SendResponse, Receives, Sent, shared, sender, history, Byte
<1>20. CASE MipdExit
    BY <1>20 DEF MipdExit, shared, sender, receiver, history
<1>21. CASE UNCHANGED vars
    BY <1>21 DEF vars, shared, sender, receiver, history
<1> QED
    BY <1>1, <1>2, <1>3, <1>4, <1>5, <1>6, <1>7, <1>8, <1>9, <1>10, <1>10a, <1>11,
       <1>12, <1>13, <1>14, <1>15, <1>16, <1>17, <1>18, <1>19, <1>20, <1>21
    DEF Next, Sender, Receiver, Handler, ReadJunk, ReadError, TripleFault

\* Every variable keeps its type.
THEOREM TypeCorrect == Spec => []TypeOK
<1>1. TypeInv => TypeOK
    BY DEF TypeInv
<1> QED BY TypeInit, TypeStep, <1>1, PTL DEF Spec

\* The inductive form of TypeCorrect, for the invariants below.
LEMMA TypeInvariant == Spec => []TypeInv
BY TypeInit, TypeStep, PTL DEF Spec

(***************************************************************************)
(* A node that was never dropped keeps the zeros of the initial table.     *)
(***************************************************************************)

\* The places between a test that let a thread through and its last store.
StrangerInv ==
    /\ \A d \in Node \ cleared :
          routingTable[d].next_hop = 0 /\ routingTable[d].distance = 0
    /\ spc = "dropDist" => si \in cleared
    /\ rpc = "dist" => rcv.byte \in cleared
    /\ rpc = "via" => dest \in cleared

\* Every node is a stranger with its zeros at the start.
LEMMA StrangerInit == Init => StrangerInv
BY DEF Init, InitialTable, StrangerInv

\* The stores of both threads meet dropped entries alone.
LEMMA StrangerStep == TypeInv /\ StrangerInv /\ [Next]_vars => StrangerInv'
<1> SUFFICES ASSUME TypeInv, StrangerInv, [Next]_vars PROVE StrangerInv'
    OBVIOUS
<1> USE DEF StrangerInv
<1>1. CASE SendHello
    BY <1>1 DEF SendHello, Sends, shared, receiver, history
<1>2. CASE CheckNeighbor
  <2>1. si \in Node
      BY <1>2, NodesAssumption DEF CheckNeighbor, Sends, TypeInv, TypeOK, Places, Node
  <2> QED BY <1>2, <2>1 DEF CheckNeighbor, Sends, receiver, history, TypeInv, TypeOK
<1>3. CASE DropHop
  <2>1. si \in Node
      BY <1>3 DEF DropHop, Sends, TypeInv, Places
  <2>2. \A d \in Node \ {si} : routingTable'[d] = routingTable[d]
      BY <1>3 DEF DropHop, TypeInv, TypeOK
  <2> QED BY <1>3, <2>1, <2>2 DEF DropHop, Sends, receiver, TypeInv, TypeOK
<1>4. CASE DropDist
  <2>1. si \in Node /\ si \in cleared
      BY <1>4 DEF DropDist, Sends, TypeInv, Places
  <2>2. \A d \in Node \ {si} : routingTable'[d] = routingTable[d]
      BY <1>4 DEF DropDist, TypeInv, TypeOK
  <2> QED BY <1>4, <2>1, <2>2 DEF DropDist, Sends, receiver, history
<1>5. CASE CollectHop
    BY <1>5 DEF CollectHop, HasHop, Sends, shared, receiver, history
<1>6. CASE CollectDist
    BY <1>6 DEF CollectDist, Sends, shared, receiver, history
<1>7. CASE SendUpdate
    BY <1>7 DEF SendUpdate, Sends, receiver, history
<1>8. CASE FallAsleep \/ WakeUp
    BY <1>8 DEF FallAsleep, WakeUp, Sends, shared, receiver, history
<1>9. ASSUME NEW p \in Peers, ReadHello(p) \/ ReadUpdate(p)
      PROVE  StrangerInv'
    BY <1>9 DEF ReadHello, ReadUpdate, Read, Receives, shared, sender
<1>10. ASSUME NEW d \in Byte, ReadRequest(d)
       PROVE  StrangerInv'
    BY <1>10 DEF ReadRequest, Read, Receives, shared, sender
<1>11. CASE Exit
  <2>1. UNCHANGED <<shared, sender, receiver, history>>
      BY <1>11 DEF Exit
  <2> QED BY <2>1 DEF shared, sender, receiver, history
<1>12. CASE ReadEndOfFile
  <2>1. ReadEndOfFile => Exit \/ (rpc' = "mark" /\ UNCHANGED <<shared, sender, rcv, dest, history>>)
      BY DEF ReadEndOfFile
  <2> QED BY <1>12, <1>11, <2>1 DEF shared, sender, history
<1>13. CASE MarkNeighbor
    BY <1>13 DEF MarkNeighbor, Receives, sender, TypeInv, TypeOK
<1>14. CASE GreetHop
  <2>1. rcv.byte \in Node
      BY <1>14 DEF GreetHop, IsNewNeighbor, Receives, TypeInv, Places
  <2>2. CASE routingTable[rcv.byte].next_hop = -1
    <3>1. rcv.byte \in cleared
        BY <2>1, <2>2
    <3>2. \A d \in Node \ {rcv.byte} : routingTable'[d] = routingTable[d]
        BY <1>14, <2>2 DEF GreetHop, IsNewNeighbor, TypeInv, TypeOK
    <3> QED BY <1>14, <2>2, <3>1, <3>2 DEF GreetHop, IsNewNeighbor, sender, history
  <2>3. CASE routingTable[rcv.byte].next_hop # -1
      BY <1>14, <2>3 DEF GreetHop, IsNewNeighbor, sender, history
  <2> QED BY <2>2, <2>3
<1>15. CASE GreetDist
  <2>1. rcv.byte \in cleared
      BY <1>15 DEF GreetDist, Receives
  <2>2. \A d \in Node \ {rcv.byte} : routingTable'[d] = routingTable[d]
      BY <1>15 DEF GreetDist, TypeInv, TypeOK
  <2> QED BY <1>15, <2>1, <2>2 DEF GreetDist, sender, history
<1>16. ASSUME NEW d \in Byte, NEW h \in Byte, NEW distance \in Byte,
              Triple(d, h, distance)
       PROVE  StrangerInv'
  <2>1. CASE h # LocalMip /\ Shorter(d, distance)
    <3>1. d \in cleared
        BY <2>1 DEF Shorter, Byte
    <3>2. \A n \in Node \ {d} : routingTable'[n] = routingTable[n]
        BY <1>16, <2>1 DEF Triple, Cost, Shorter, TypeInv, TypeOK
    <3> QED BY <1>16, <2>1, <3>1, <3>2 DEF Triple, Cost, Shorter, sender, history
  <2>2. CASE ~(h # LocalMip /\ Shorter(d, distance))
      BY <1>16, <2>2 DEF Triple, Cost, Shorter, NextTriple, sender, history
  <2> QED BY <2>1, <2>2
<1>17. CASE Via
  <2>1. dest \in cleared
      BY <1>17 DEF Via, Receives
  <2>2. \A n \in Node \ {dest} : routingTable'[n] = routingTable[n]
      BY <1>17 DEF Via, TypeInv, TypeOK
  <2> QED BY <1>17, <2>1, <2>2 DEF Via, NextTriple, sender, history
<1>18. CASE LookupHop
    BY <1>18 DEF LookupHop, shared, sender, history
<1>19. CASE SendResponse
    BY <1>19 DEF SendResponse, shared, sender, history
<1>20. CASE MipdExit
    BY <1>20 DEF MipdExit, shared, sender, receiver, history
<1>21. CASE UNCHANGED vars
    BY <1>21 DEF vars, shared, sender, receiver, history
<1> QED
    BY <1>1, <1>2, <1>3, <1>4, <1>5, <1>6, <1>7, <1>8, <1>9, <1>10, <1>11,
       <1>12, <1>13, <1>14, <1>15, <1>16, <1>17, <1>18, <1>19, <1>20, <1>21
    DEF Next, Sender, Receiver, Handler, ReadJunk, ReadError, TripleFault

(***************************************************************************)
(* Next hops are nodes whose messages were read.                           *)
(***************************************************************************)

\* The copies of a next hop on their way through the two threads.
HopInv ==
    /\ rcv.kind \in {"hello", "update"} => rcv.byte \in spoke
    /\ \A d \in Node :
          \/ routingTable[d].next_hop \in spoke \cup {0}
          \/ routingTable[d].next_hop = -1 /\ d \in cleared
    /\ shop \in spoke \cup {0}
    /\ \A i \in 1 .. Len(smsg) : smsg[i].next_hop \in spoke \cup {0}
    /\ rpc = "reply" => hop \in spoke \cup {0, -1}

\* The initial next hops are zero and nothing is under way.
LEMMA HopInit == Init => HopInv
BY DEF Init, InitialTable, HopInv

\* A next hop moves from a message that was read to the table, from the table
\* to an update or an answer, and nowhere else.
LEMMA HopStep == TypeInv /\ StrangerInv /\ HopInv /\ [Next]_vars => HopInv'
<1> SUFFICES ASSUME TypeInv, StrangerInv, HopInv, [Next]_vars PROVE HopInv'
    OBVIOUS
<1> USE DEF HopInv
<1>1. CASE SendHello
    BY <1>1 DEF SendHello, shared, receiver, history
<1>2. CASE CheckNeighbor
    BY <1>2 DEF CheckNeighbor, receiver, history
<1>3. CASE DropHop
  <2>1. si \in Node
      BY <1>3 DEF DropHop, Sends, TypeInv, Places
  <2>2. /\ \A d \in Node \ {si} : routingTable'[d] = routingTable[d]
        /\ routingTable'[si].next_hop = -1
      BY <1>3, <2>1 DEF DropHop, TypeInv, TypeOK, Entry
  <2> QED BY <1>3, <2>1, <2>2 DEF DropHop, receiver
<1>4. CASE DropDist
  <2>1. \A d \in Node : routingTable'[d].next_hop = routingTable[d].next_hop
      BY <1>4 DEF DropDist, TypeInv, TypeOK, Entry
  <2> QED BY <1>4, <2>1 DEF DropDist, receiver, history
<1>5. CASE CollectHop
  <2>1. CASE routingTable[sj].next_hop # -1
    <3>0. sj \in Node
        BY <1>5, NodesAssumption DEF CollectHop, HasHop, TypeInv, TypeOK, Node
    <3>1. routingTable[sj].next_hop \in Byte
      <4>1. routingTable[sj] \in Entry
          BY <3>0 DEF TypeInv, TypeOK
      <4> QED BY <4>1, <2>1 DEF Entry
    <3>2. shop' = routingTable[sj].next_hop
        BY <1>5, <2>1, <3>1, AsByteFacts DEF CollectHop, HasHop, Byte
    <3> QED BY <1>5, <2>1, <3>0, <3>2 DEF CollectHop, HasHop, shared, receiver, history
  <2>2. CASE routingTable[sj].next_hop = -1
      BY <1>5, <2>2 DEF CollectHop, HasHop, shared, receiver, history
  <2> QED BY <2>1, <2>2
<1>6. CASE CollectDist
  <2> DEFINE a == [destination |-> AsByte(routingTable[sj].destination),
                   next_hop    |-> shop,
                   distance    |-> AsByte(routingTable[sj].distance)]
  <2>1. smsg' = Append(smsg, a) /\ a.next_hop = shop /\ smsg \in Seq(Advert)
      BY <1>6 DEF CollectDist, TypeInv, TypeOK
  <2> HIDE DEF a
  <2>2. \A i \in 1 .. Len(smsg') : smsg'[i] = a \/ (i \in 1 .. Len(smsg) /\ smsg'[i] = smsg[i])
      BY <2>1
  <2>3. \A i \in 1 .. Len(smsg') : smsg'[i].next_hop \in spoke \cup {0}
      BY <2>1, <2>2
  <2> QED BY <1>6, <2>3 DEF CollectDist, shared, receiver, history
<1>7. CASE SendUpdate
    BY <1>7 DEF SendUpdate, receiver, history
<1>8. CASE FallAsleep \/ WakeUp
    BY <1>8 DEF FallAsleep, WakeUp, shared, receiver, history
<1>9. ASSUME NEW p \in Peers, ReadHello(p) \/ ReadUpdate(p)
      PROVE  HopInv'
    BY <1>9 DEF ReadHello, ReadUpdate, Read, Receives, shared, sender
<1>10. ASSUME NEW d \in Byte, ReadRequest(d)
       PROVE  HopInv'
    BY <1>10 DEF ReadRequest, Read, Receives, shared, sender
<1>11. CASE Exit
  <2>1. UNCHANGED <<shared, sender, receiver, history>>
      BY <1>11 DEF Exit
  <2> QED BY <2>1 DEF shared, sender, receiver, history
<1>12. CASE ReadEndOfFile
  <2>1. ReadEndOfFile => Exit \/ (rpc' = "mark" /\ UNCHANGED <<shared, sender, rcv, history>>)
      BY DEF ReadEndOfFile
  <2> QED BY <1>12, <1>11, <2>1 DEF shared, sender, history
<1>13. CASE MarkNeighbor
    BY <1>13 DEF MarkNeighbor, sender
<1>14. CASE GreetHop
  <2>1. rcv.byte \in Node /\ rcv.byte \in spoke
      BY <1>14 DEF GreetHop, IsNewNeighbor, Receives, TypeInv, Places
  <2>2. CASE routingTable[rcv.byte].next_hop = -1
    <3>1. /\ \A d \in Node \ {rcv.byte} : routingTable'[d] = routingTable[d]
          /\ routingTable'[rcv.byte].next_hop = rcv.byte
        BY <1>14, <2>1, <2>2 DEF GreetHop, IsNewNeighbor, TypeInv, TypeOK, Entry
    <3> QED BY <1>14, <2>1, <2>2, <3>1 DEF GreetHop, IsNewNeighbor, sender, history
  <2>3. CASE routingTable[rcv.byte].next_hop # -1
      BY <1>14, <2>3 DEF GreetHop, IsNewNeighbor, sender, history
  <2> QED BY <2>2, <2>3
<1>15. CASE GreetDist
  <2>1. \A d \in Node : routingTable'[d].next_hop = routingTable[d].next_hop
      BY <1>15 DEF GreetDist, TypeInv, TypeOK, Entry
  <2> QED BY <1>15, <2>1 DEF GreetDist, sender, history
<1>16. ASSUME NEW d \in Byte, NEW h \in Byte, NEW distance \in Byte,
              Triple(d, h, distance)
       PROVE  HopInv'
  <2>1. \A n \in Node : routingTable'[n].next_hop = routingTable[n].next_hop
      BY <1>16 DEF Triple, Cost, Shorter, TypeInv, TypeOK, Entry
  <2>2. rpc' \in {"via", "read", "triple"}
      BY <1>16 DEF Triple, Cost, Shorter, NextTriple
  <2>3. UNCHANGED <<sender, rcv, hop, history>>
      BY <1>16 DEF Triple, Cost
  <2> QED BY <2>1, <2>2, <2>3 DEF sender, history
<1>17. CASE Via
  <2>1. dest \in Node /\ rcv.byte \in spoke
      BY <1>17 DEF Via, Receives, TypeInv, Places
  <2>2. /\ \A n \in Node \ {dest} : routingTable'[n] = routingTable[n]
        /\ routingTable'[dest].next_hop = rcv.byte
      BY <1>17, <2>1 DEF Via, TypeInv, TypeOK, Entry
  <2> QED BY <1>17, <2>1, <2>2 DEF Via, NextTriple, sender, history
<1>18. CASE LookupHop
  <2>1. hop' \in spoke \cup {0, -1}
      BY <1>18 DEF LookupHop
  <2> QED BY <1>18, <2>1 DEF LookupHop, shared, sender, history
<1>19. CASE SendResponse
    BY <1>19 DEF SendResponse, shared, sender, history
<1>20. CASE MipdExit
    BY <1>20 DEF MipdExit, shared, sender, receiver, history
<1>21. CASE UNCHANGED vars
    BY <1>21 DEF vars, shared, sender, receiver, history
<1> QED
    BY <1>1, <1>2, <1>3, <1>4, <1>5, <1>6, <1>7, <1>8, <1>9, <1>10, <1>11,
       <1>12, <1>13, <1>14, <1>15, <1>16, <1>17, <1>18, <1>19, <1>20, <1>21
    DEF Next, Sender, Receiver, Handler, ReadJunk, ReadError, TripleFault

\* The conversion of an answer to a byte makes no new address of it.
LEMMA AnswerSpoke == TypeInv /\ HopInv => HopsSpoke
<1> SUFFICES ASSUME TypeInv, HopInv PROVE HopsSpoke
    OBVIOUS
<1>1. rpc = "reply" => Answer \in spoke \cup {0, MaxByte}
  <2>1. CASE hop = -1
      BY <2>1, AsByteFacts DEF Answer, HopInv
  <2>2. CASE hop # -1
    <3>1. hop \in Byte
        BY <2>2 DEF TypeInv, TypeOK
    <3>2. AsByte(hop) = hop
        BY <3>1, AsByteFacts DEF Byte
    <3> QED BY <2>2, <3>2 DEF Answer, HopInv
  <2> QED BY <2>1, <2>2
<1> QED BY <1>1 DEF HopsSpoke, HopInv

\* Every next hop that is stored, advertised or answered is a node whose
\* message was read, or one of the values that stand for none.
THEOREM OnlyHeardHops == Spec => []HopsSpoke
BY StrangerInit, StrangerStep, HopInit, HopStep, AnswerSpoke, TypeInvariant,
   PTL DEF Spec

(***************************************************************************)
(* The race of an update with the timeout check.                           *)
(***************************************************************************)

\* An entry without a next hop is at INFINITY or 1, or one of the threads is
\* between its two stores to that entry.
PairInv ==
    \A d \in Node :
        routingTable[d].next_hop = -1
            => \/ routingTable[d].distance \in {1, Infinity}
               \/ spc = "dropDist" /\ si = d
               \/ rpc = "via" /\ dest = d

\* No entry lacks a next hop at the start.
LEMMA PairInit == Init => PairInv
BY DEF Init, InitialTable, PairInv

\* Each thread restores, before its handler ends, what its first store broke.
LEMMA PairStep == TypeInv /\ PairInv /\ [Next]_vars => PairInv'
<1> SUFFICES ASSUME TypeInv, PairInv, [Next]_vars PROVE PairInv'
    OBVIOUS
<1> USE DEF PairInv
<1>1. CASE SendHello
    BY <1>1 DEF SendHello, Sends, shared, receiver
<1>2. CASE CheckNeighbor
    BY <1>2 DEF CheckNeighbor, Sends, receiver
<1>3. CASE DropHop
  <2>1. \A d \in Node \ {si} : routingTable'[d] = routingTable[d]
      BY <1>3 DEF DropHop, TypeInv, TypeOK
  <2> QED BY <1>3, <2>1 DEF DropHop, Sends, receiver
<1>4. CASE DropDist
  <2>1. /\ \A d \in Node \ {si} : routingTable'[d] = routingTable[d]
        /\ si \in Node => routingTable'[si].distance = Infinity
      BY <1>4 DEF DropDist, TypeInv, TypeOK, Entry
  <2> QED BY <1>4, <2>1 DEF DropDist, receiver
<1>5. CASE CollectHop
    BY <1>5 DEF CollectHop, HasHop, Sends, shared, receiver
<1>6. CASE CollectDist
    BY <1>6 DEF CollectDist, Sends, shared, receiver
<1>7. CASE SendUpdate
    BY <1>7 DEF SendUpdate, Sends, receiver
<1>8. CASE FallAsleep \/ WakeUp
    BY <1>8 DEF FallAsleep, WakeUp, Sends, shared, receiver
<1>9. ASSUME NEW p \in Peers, ReadHello(p) \/ ReadUpdate(p)
      PROVE  PairInv'
    BY <1>9 DEF ReadHello, ReadUpdate, Read, Receives, shared, sender
<1>10. ASSUME NEW d \in Byte, ReadRequest(d)
       PROVE  PairInv'
    BY <1>10 DEF ReadRequest, Read, Receives, shared, sender
<1>11. CASE Exit
  <2>1. UNCHANGED <<shared, sender, receiver>>
      BY <1>11 DEF Exit
  <2> QED BY <2>1 DEF shared, sender, receiver
<1>12. CASE ReadEndOfFile
  <2>1. ReadEndOfFile => Exit \/ (rpc # "via" /\ UNCHANGED <<shared, sender>>)
      BY DEF ReadEndOfFile, Receives
  <2> QED BY <1>12, <1>11, <2>1 DEF shared, sender
<1>13. CASE MarkNeighbor
    BY <1>13 DEF MarkNeighbor, Receives, sender
<1>14. CASE GreetHop
  <2>1. rcv.byte \in Node /\ rcv.byte # -1
      BY <1>14 DEF GreetHop, IsNewNeighbor, Receives, TypeInv, Places, Node
  <2>2. CASE routingTable[rcv.byte].next_hop = -1
    <3>1. /\ \A d \in Node \ {rcv.byte} : routingTable'[d] = routingTable[d]
          /\ routingTable'[rcv.byte].next_hop # -1
        BY <1>14, <2>1, <2>2 DEF GreetHop, IsNewNeighbor, TypeInv, TypeOK, Entry
    <3> QED BY <1>14, <2>1, <2>2, <3>1 DEF GreetHop, IsNewNeighbor, Receives, sender
  <2>3. CASE routingTable[rcv.byte].next_hop # -1
      BY <1>14, <2>3 DEF GreetHop, IsNewNeighbor, Receives, sender
  <2> QED BY <2>2, <2>3
<1>15. CASE GreetDist
  <2>1. /\ \A d \in Node \ {rcv.byte} : routingTable'[d] = routingTable[d]
        /\ rcv.byte \in Node => routingTable'[rcv.byte].distance = 1
      BY <1>15 DEF GreetDist, TypeInv, TypeOK, Entry
  <2> QED BY <1>15, <2>1 DEF GreetDist, Receives, sender
<1>16. ASSUME NEW d \in Byte, NEW h \in Byte, NEW distance \in Byte,
              Triple(d, h, distance)
       PROVE  PairInv'
  <2>1. CASE h # LocalMip /\ Shorter(d, distance)
    <3>1. \A n \in Node \ {d} : routingTable'[n] = routingTable[n]
        BY <1>16, <2>1 DEF Triple, Cost, Shorter, TypeInv, TypeOK
    <3> QED BY <1>16, <2>1, <3>1 DEF Triple, Cost, Shorter, Receives, sender
  <2>2. CASE ~(h # LocalMip /\ Shorter(d, distance))
      BY <1>16, <2>2 DEF Triple, Cost, Shorter, NextTriple, Receives, sender
  <2> QED BY <2>1, <2>2
<1>17. CASE Via
  <2>1. dest \in Node /\ rcv.byte # -1
      BY <1>17, NodesAssumption DEF Via, Receives, TypeInv, TypeOK, Places, Message, Byte
  <2>2. /\ \A n \in Node \ {dest} : routingTable'[n] = routingTable[n]
        /\ routingTable'[dest].next_hop = rcv.byte
      BY <1>17, <2>1 DEF Via, TypeInv, TypeOK, Entry
  <2> QED BY <1>17, <2>1, <2>2 DEF Via, sender
<1>18. CASE LookupHop
    BY <1>18 DEF LookupHop, Receives, shared, sender
<1>19. CASE SendResponse
    BY <1>19 DEF SendResponse, Receives, shared, sender
<1>20. CASE MipdExit
    BY <1>20 DEF MipdExit, shared, sender, receiver
<1>21. CASE UNCHANGED vars
    BY <1>21 DEF vars, shared, sender, receiver
<1> QED
    BY <1>1, <1>2, <1>3, <1>4, <1>5, <1>6, <1>7, <1>8, <1>9, <1>10, <1>11,
       <1>12, <1>13, <1>14, <1>15, <1>16, <1>17, <1>18, <1>19, <1>20, <1>21
    DEF Next, Sender, Receiver, Handler, ReadJunk, ReadError, TripleFault

\* The opposite store orders of the two threads keep a learnt distance from
\* losing its next hop: no such entry survives the handlers.
THEOREM RoutesHaveHops == Spec => []NoHoplessRoute
<1>1. PairInv => NoHoplessRoute
    BY DEF PairInv, NoHoplessRoute, Quiescent
<1> QED BY PairInit, PairStep, TypeInvariant, <1>1, PTL DEF Spec

\* What a store to one entry leaves alone, as far as distances go.
LEMMA DistanceElsewhere ==
    ASSUME TypeInv, NEW n \in Node, NEW v
    PROVE  LET t == [routingTable EXCEPT ![n].distance = v]
               h == [routingTable EXCEPT ![n].next_hop = v]
           IN  /\ t[n].distance = v
               /\ \A d \in Node \ {n} : t[d].distance = routingTable[d].distance
               /\ \A d \in Node : h[d].distance = routingTable[d].distance
BY DEF TypeInv, TypeOK, Entry

\* Six accesses store to the table, and a read that hears a peer does not.
LEMMA TableStores ==
    ASSUME Next
    PROVE  \/ DropHop \/ DropDist \/ GreetHop \/ GreetDist \/ Via
           \/ \E e, h, distance \in Byte : Triple(e, h, distance)
           \/ UNCHANGED <<routingTable, spoke, cleared>>
           \/ /\ \E p \in Peers : spoke' = spoke \cup {p}
              /\ UNCHANGED <<routingTable, cleared>>
<1>1. CASE Sender
    BY <1>1 DEF Sender, SendHello, CheckNeighbor, CollectHop, CollectDist,
                SendUpdate, FallAsleep, WakeUp, shared, history
<1>2. CASE Handler
    BY <1>2 DEF Handler, MarkNeighbor, TripleFault, Exit, LookupHop,
                SendResponse, shared, history
<1>3. ASSUME NEW p \in Peers, ReadHello(p) \/ ReadUpdate(p)
      PROVE  spoke' = spoke \cup {p} /\ UNCHANGED <<routingTable, cleared>>
    BY <1>3 DEF ReadHello, ReadUpdate, Read, shared
<1>4. CASE (\E e \in Byte : ReadRequest(e)) \/ ReadJunk \/ ReadError \/ ReadEndOfFile
    BY <1>4 DEF ReadRequest, Read, ReadJunk, ReadError, ReadEndOfFile, Exit,
                shared, history
<1>5. CASE MipdExit
    BY <1>5 DEF MipdExit, shared, history
<1> QED BY <1>1, <1>2, <1>3, <1>4, <1>5 DEF Next, Receiver

\* A distance grows only when the timeout check gives the route up, or when a
\* Hello gives a cost of 1 to the entry it is clearing (route.c:116, 173, 201).
THEOREM RoutesOnlyShorten == Spec => RoutesGetShorter
<1> DEFINE Grown(d) == routingTable'[d].distance > routingTable[d].distance
           Allowed(d) == \/ spc = "dropDist" /\ si = d
                         \/ rpc = "dist" /\ rcv.byte = d
                                         /\ routingTable'[d].distance = 1
<1>1. ASSUME TypeInv, NEW d \in Node, Next, Grown(d) PROVE Allowed(d)
  <2>0. routingTable[d].distance \in Int
      BY <1>1, EntryFields DEF TypeInv, TypeOK
  <2>1. ~ UNCHANGED routingTable
      BY <1>1, <2>0
  <2>2. CASE DropHop
      BY <1>1, <2>0, <2>2, DistanceElsewhere
      DEF DropHop, Sends, TypeInv, Places
  <2>3. CASE DropDist
      BY <1>1, <2>0, <2>3, DistanceElsewhere
      DEF DropDist, Sends, TypeInv, Places
  <2>4. CASE GreetHop
    <3>1. rcv.byte \in Node
        BY <1>1, <2>4 DEF GreetHop, Receives, TypeInv, Places
    <3>2. routingTable' = [routingTable EXCEPT ![rcv.byte].next_hop = rcv.byte]
        BY <2>1, <2>4 DEF GreetHop
    <3> QED BY <1>1, <2>0, <3>1, <3>2, DistanceElsewhere
  <2>5. CASE GreetDist
    <3>1. rcv.byte \in Node
        BY <1>1, <2>5 DEF GreetDist, Receives, TypeInv, Places
    <3> QED BY <1>1, <2>0, <2>5, <3>1, DistanceElsewhere DEF GreetDist, Receives
  <2>6. ASSUME NEW e \in Byte, NEW h \in Byte, NEW distance \in Byte,
               Triple(e, h, distance)
        PROVE  Allowed(d)
    <3>1. /\ Shorter(e, distance)
          /\ routingTable' = [routingTable EXCEPT ![e].distance = Cost(distance)]
        BY <2>1, <2>6 DEF Triple, Cost
    <3>2. e \in Node /\ distance + 1 < routingTable[e].distance
        BY <3>1 DEF Shorter
    <3>3. routingTable'[e].distance = distance + 1
          /\ (d # e => routingTable'[d].distance = routingTable[d].distance)
        BY <1>1, <3>1, <3>2, DistanceElsewhere DEF Cost
    <3>4. distance \in Int
        BY NodesAssumption DEF Byte
    <3> QED BY <1>1, <2>0, <3>2, <3>3, <3>4
  <2>7. CASE Via
    <3>1. dest \in Node
        BY <1>1, <2>7 DEF Via, Receives, TypeInv, Places
    <3> QED BY <1>1, <2>0, <2>7, <3>1, DistanceElsewhere DEF Via
  <2> QED BY <1>1, <2>1, <2>2, <2>3, <2>4, <2>5, <2>6, <2>7, TableStores
<1>2. TypeInv /\ [Next]_vars => [\A d \in Node : Grown(d) => Allowed(d)]_vars
    BY <1>1
<1> QED BY <1>2, TypeInvariant, PTL DEF Spec, RoutesGetShorter

(***************************************************************************)
(* The run of a handler.                                                   *)
(***************************************************************************)

\* Only the receive thread moves through a handler.
LEMMA OthersLeaveReceiver == Sender \/ MipdExit \/ UNCHANGED vars => UNCHANGED receiver
BY DEF Sender, SendHello, CheckNeighbor, DropHop, DropDist, CollectHop, CollectDist,
       SendUpdate, FallAsleep, WakeUp, MipdExit, vars

\* While it is in a handler it reads no message.
LEMMA HandlerOnly ==
    rpc # "read" /\ Receiver => Handler
BY DEF Receiver, ReadHello, ReadUpdate, ReadRequest, Read, ReadJunk, ReadError,
       ReadEndOfFile, Receives

\* Each access leaves fewer to make.
LEMMA RunDownStep ==
    TypeInv /\ [Next]_vars /\ rpc # "read"
        => UNCHANGED receiver \/ AccessesLeft' < AccessesLeft
<1> SUFFICES ASSUME TypeInv, Handler
             PROVE  UNCHANGED receiver \/ AccessesLeft' < AccessesLeft
    BY OthersLeaveReceiver, HandlerOnly DEF Next
<1>0. k \in Int /\ (rpc \in {"triple", "via"} => k >= 1)
    BY NodesAssumption DEF TypeInv, TypeOK, Places
<1>1. CASE MarkNeighbor
    BY <1>1 DEF MarkNeighbor, Receives, AccessesLeft
<1>2. CASE GreetHop
    BY <1>2 DEF GreetHop, Receives, AccessesLeft
<1>3. CASE GreetDist
    BY <1>3 DEF GreetDist, Receives, AccessesLeft
<1>4. ASSUME NEW d \in Byte, NEW h \in Byte, NEW distance \in Byte,
             Triple(d, h, distance)
      PROVE  AccessesLeft' < AccessesLeft
  <2>1. rpc = "triple" /\ AccessesLeft = 2 * k
      BY <1>4 DEF Triple, Receives, AccessesLeft
  <2>2. (rpc' = "via" /\ k' = k) \/ NextTriple
      BY <1>4 DEF Triple
  <2>3. CASE rpc' = "via" /\ k' = k
      BY <1>0, <2>1, <2>3 DEF AccessesLeft
  <2>4. CASE NextTriple
      BY <1>0, <2>1, <2>4 DEF NextTriple, AccessesLeft
  <2> QED BY <2>2, <2>3, <2>4
<1>5. CASE Via
  <2>1. rpc = "via" /\ AccessesLeft = 2 * k - 1 /\ NextTriple
      BY <1>5 DEF Via, Receives, AccessesLeft
  <2> QED BY <1>0, <2>1 DEF NextTriple, AccessesLeft
<1>6. CASE TripleFault
    BY <1>6 DEF TripleFault, Exit
<1>7. CASE LookupHop
    BY <1>7 DEF LookupHop, Receives, AccessesLeft
<1>8. CASE SendResponse
    BY <1>8 DEF SendResponse, Receives, AccessesLeft
<1> QED BY <1>1, <1>2, <1>3, <1>4, <1>5, <1>6, <1>7, <1>8 DEF Handler

\* What is left to a handler only shrinks: the part of HandlersReturn that does
\* not rest on the scheduler (route.c:188).
THEOREM HandlersOnlyRunDown == Spec => HandlersRunDown
<1>1. TypeInv /\ [Next]_vars
         => [rpc # "read" => UNCHANGED receiver \/ AccessesLeft' < AccessesLeft]_vars
    BY RunDownStep
<1> QED BY <1>1, TypeInvariant, PTL DEF Spec, HandlersRunDown

(***************************************************************************)
(* The table without its threads.                                          *)
(***************************************************************************)

Hops == [d \in Node |-> routingTable[d].next_hop]
Dists == [d \in Node |-> routingTable[d].distance]

\* A store to one field is a store to one of the two functions.
LEMMA StoreToHops ==
    ASSUME TypeInv, NEW n \in Node, NEW v,
           routingTable' = [routingTable EXCEPT ![n].next_hop = v]
    PROVE  Hops' = [Hops EXCEPT ![n] = v] /\ Dists' = Dists
BY DEF TypeInv, TypeOK, Entry, Hops, Dists

\* The same for a store to distance.
LEMMA StoreToDists ==
    ASSUME TypeInv, NEW n \in Node, NEW v,
           routingTable' = [routingTable EXCEPT ![n].distance = v]
    PROVE  Dists' = [Dists EXCEPT ![n] = v] /\ Hops' = Hops
BY DEF TypeInv, TypeOK, Entry, Hops, Dists

\* The zeroed globals are the first table.
LEMMA TableInit == Init => Table!Init
BY DEF Init, InitialTable, Table!Init

\* Each access of either thread is a step of the table or none.
LEMMA TableStep ==
    TypeInv /\ StrangerInv /\ HopInv /\ [Next]_vars => [Table!Next]_Table!vars
<1> SUFFICES ASSUME TypeInv, StrangerInv, HopInv, [Next]_vars
             PROVE  [Table!Next]_Table!vars
    OBVIOUS
<1>1. ASSUME UNCHANGED <<routingTable, cleared>>
      PROVE  UNCHANGED <<Hops, Dists, cleared>>
    BY <1>1 DEF Hops, Dists
<1>2. CASE UNCHANGED <<routingTable, spoke, cleared>>
    BY <1>1, <1>2 DEF Table!vars, Hops, Dists
<1>3. ASSUME NEW p \in Peers, spoke' = spoke \cup {p},
             UNCHANGED <<routingTable, cleared>>
      PROVE  Table!Next
    BY <1>1, <1>3 DEF Table!Next, Table!Hear, Hops, Dists
<1>4. CASE DropHop
  <2>1. si \in Node /\ cleared' = cleared \cup {si} /\ spoke' = spoke
        /\ routingTable' = [routingTable EXCEPT ![si].next_hop = -1]
      BY <1>4 DEF DropHop, Sends, TypeInv, Places
  <2>2. Hops' = [Hops EXCEPT ![si] = -1] /\ Dists' = Dists
      BY <2>1, StoreToHops
  <2> QED BY <2>1, <2>2 DEF Table!Next, Table!GiveUp, Hops, Dists
<1>5. CASE DropDist
  <2>1. /\ si \in Node /\ si \in cleared
        /\ UNCHANGED <<spoke, cleared>>
        /\ routingTable' = [routingTable EXCEPT ![si].distance = Infinity]
      BY <1>5 DEF DropDist, Sends, TypeInv, Places, StrangerInv, history
  <2>2. Dists' = [Dists EXCEPT ![si] = Infinity] /\ Hops' = Hops
      BY <2>1, StoreToDists
  <2> QED BY <2>1, <2>2 DEF Table!Next, Table!Withdraw, Hops, Dists
<1>6. CASE GreetHop
  <2>1. rcv.byte \in Node /\ rcv.byte \in spoke /\ UNCHANGED <<spoke, cleared>>
      BY <1>6 DEF GreetHop, Receives, TypeInv, Places, HopInv, history
  <2>2. CASE routingTable[rcv.byte].next_hop = -1
    <3>1. rcv.byte \in cleared
        BY <2>1, <2>2 DEF StrangerInv
    <3>2. Hops' = [Hops EXCEPT ![rcv.byte] = rcv.byte] /\ Dists' = Dists
        BY <1>6, <2>1, <2>2, StoreToHops DEF GreetHop, IsNewNeighbor
    <3>3. rcv.byte \in Peers
        BY <2>1 DEF TypeInv, TypeOK
    <3> QED BY <2>1, <3>1, <3>2, <3>3 DEF Table!Next, Table!Adopt, Hops, Dists
  <2>3. CASE routingTable[rcv.byte].next_hop # -1
      BY <1>2, <1>6, <2>1, <2>3 DEF GreetHop, IsNewNeighbor
  <2> QED BY <2>2, <2>3
<1>7. CASE GreetDist
  <2>1. /\ rcv.byte \in Node /\ rcv.byte \in spoke /\ rcv.byte \in cleared
        /\ UNCHANGED <<spoke, cleared>>
        /\ routingTable' = [routingTable EXCEPT ![rcv.byte].distance = 1]
      BY <1>7 DEF GreetDist, Receives, TypeInv, Places, HopInv, StrangerInv, history
  <2>2. Dists' = [Dists EXCEPT ![rcv.byte] = 1] /\ Hops' = Hops
      BY <2>1, StoreToDists
  <2> QED BY <2>1, <2>2 DEF Table!Next, Table!Greet, Hops, Dists
<1>8. ASSUME NEW e \in Byte, NEW h \in Byte, NEW distance \in Byte,
             Triple(e, h, distance)
      PROVE  [Table!Next]_Table!vars
  <2>1. UNCHANGED <<spoke, cleared>>
      BY <1>8 DEF Triple, history
  <2>2. CASE h # LocalMip /\ Shorter(e, distance)
    <3>1. /\ e \in Node /\ distance + 1 < routingTable[e].distance
          /\ distance \in Nat /\ routingTable[e].distance \in Int
        BY <2>2, EntryFields, NodesAssumption DEF Shorter, TypeInv, TypeOK, Byte
    <3>2. e \in cleared
        BY <3>1 DEF StrangerInv
    <3>3. Dists' = [Dists EXCEPT ![e] = distance + 1] /\ Hops' = Hops
        BY <1>8, <2>2, <3>1, StoreToDists DEF Triple, Cost
    <3>4. distance + 1 \in 1 .. Dists[e] - 1
        BY <3>1 DEF Dists
    <3> QED BY <2>1, <3>1, <3>2, <3>3, <3>4 DEF Table!Next, Table!Shorten, Hops, Dists
  <2>3. CASE ~(h # LocalMip /\ Shorter(e, distance))
      BY <1>2, <1>8, <2>1, <2>3 DEF Triple
  <2> QED BY <2>2, <2>3
<1>9. CASE Via
  <2>1. /\ dest \in Node /\ dest \in cleared /\ rcv.byte \in spoke
        /\ UNCHANGED <<spoke, cleared>>
        /\ routingTable' = [routingTable EXCEPT ![dest].next_hop = rcv.byte]
      BY <1>9 DEF Via, Receives, TypeInv, Places, HopInv, StrangerInv, history
  <2>2. Hops' = [Hops EXCEPT ![dest] = rcv.byte] /\ Dists' = Dists
      BY <2>1, StoreToHops
  <2>3. rcv.byte \in Peers
      BY <2>1 DEF TypeInv, TypeOK
  <2> QED BY <2>1, <2>2, <2>3 DEF Table!Next, Table!Adopt, Hops, Dists
<1>10. CASE UNCHANGED vars
    BY <1>2, <1>10 DEF vars, shared, history
<1> QED
    BY <1>2, <1>3, <1>4, <1>5, <1>6, <1>7, <1>8, <1>9, <1>10, TableStores

\* The two threads together are one table whose entries stay as they are until
\* they are given up, and then follow nodes that spoke (route.c:115, 172, 201).
THEOREM DaemonImplementsTable == Spec => ImplementsTable
BY TypeInvariant, StrangerInit, StrangerStep, HopInit, HopStep, TableInit, TableStep,
   PTL DEF Spec, ImplementsTable, Table!Spec
=============================================================================
