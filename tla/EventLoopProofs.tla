-------------------------- MODULE EventLoopProofs --------------------------
(***************************************************************************)
(* Safety of EventLoop for any number of descriptors and any traffic.  The *)
(* kernel's list is treated by two lemmas, on joining it and on keeping a  *)
(* part of it; the rest follows handler by handler.                        *)
(***************************************************************************)
EXTENDS EventLoop, NaturalsInduction, WellFoundedInduction, TLAPS

\* The numbers of the fixed descriptors.
LEMMA FixedNumbers == Fd \subseteq Nat /\ raw_fd \in Fd /\ listening_fd \in Fd
                      /\ -1 \notin Fd /\ raw_fd # listening_fd
  BY LoopAssumption DEF Fd, raw_fd, listening_fd

\* A set of natural numbers has a least element.
LEMMA LeastOf ==
    ASSUME NEW T, T \subseteq Nat, T # {}
    PROVE  \E x \in T : \A y \in T : x <= y
  <1> DEFINE R == {ss \in Nat \X Nat : ss[1] < ss[2]}
  <1>1. IsWellFoundedOn(R, Nat)
    BY NatLessThanWellFounded DEF OpToRel
  <1>2. PICK x \in T : \A y \in T : ~(<<y, x>> \in R)
    BY <1>1, WFMin, Zenon
  <1>3. \A y \in T : ~(y < x)
    BY <1>2
  <1> QED
    BY <1>3

\* accept returns a number that is not in use.
LEMMA LowestIsNotOpen ==
    ASSUME Fd \ open # {}
    PROVE  LowestFree \in Fd \ open
  <1>1. \E fd \in Fd \ open : \A other \in Fd \ open : fd <= other
    BY FixedNumbers, LeastOf
  <1> QED
    BY <1>1 DEF LowestFree

(***************************************************************************)
(* The kernel's list.                                                      *)
(***************************************************************************)

\* What joins a list leaves the others in their order.
LEMMA JoinedList ==
    ASSUME NEW list, IsList(list), NEW fd \in Fd
    PROVE  /\ IsList(Joined(list, fd))
           /\ Listed(Joined(list, fd)) = Listed(list) \cup {fd}
           /\ \A a, b \in Listed(list) :
                 <<a, b>> \in Joined(list, fd) <=> <<a, b>> \in list
  <1>1. CASE fd \in Listed(list)
    <2>1. Joined(list, fd) = list
      BY <1>1 DEF Joined
    <2> QED
      BY <1>1, <2>1
  <1>2. CASE fd \notin Listed(list)
    <2> DEFINE joined == list \cup ((Listed(list) \cup {fd}) \X {fd})
    <2>0. Joined(list, fd) = joined
      BY <1>2 DEF Joined
    <2>1. \A a, b : <<a, b>> \in joined
                      <=> <<a, b>> \in list \/ (a \in Listed(list) \cup {fd} /\ b = fd)
      OBVIOUS
    <2> HIDE DEF joined
    <2>2. Listed(joined) = Listed(list) \cup {fd}
      BY <2>1 DEF Listed
    <2>3. \A a, b : <<a, b>> \in list => a \in Listed(list) /\ b \in Listed(list)
      BY DEF IsList
    <2>4. \A a, b, c \in Fd :
             <<a, b>> \in joined /\ <<b, c>> \in joined => <<a, c>> \in joined
      BY <1>2, <2>1, <2>3 DEF IsList
    <2>5. \A a, b \in Fd : <<a, b>> \in joined /\ <<b, a>> \in joined => a = b
      BY <1>2, <2>1, <2>3 DEF IsList
    <2>6. \A a, b \in Listed(joined) : <<a, b>> \in joined \/ <<b, a>> \in joined
      BY <2>1, <2>2 DEF IsList
    <2>7. joined \subseteq Listed(joined) \X Listed(joined)
      <3>1. joined \subseteq (Listed(list) \cup {fd}) \X (Listed(list) \cup {fd})
        BY DEF joined, IsList
      <3> QED
        BY <2>2, <3>1
    <2>8. IsList(joined)
      BY <2>4, <2>5, <2>6, <2>7 DEF IsList
    <2> QED
      BY <1>2, <2>0, <2>1, <2>2, <2>8
  <1> QED
    BY <1>1, <1>2

\* What is kept of a list is a list, in the same order.
LEMMA KeptList ==
    ASSUME NEW list, IsList(list), NEW fds
    PROVE  /\ IsList(Kept(list, fds))
           /\ Listed(Kept(list, fds)) = Listed(list) \cap fds
           /\ \A a, b : <<a, b>> \in Kept(list, fds)
                          <=> <<a, b>> \in list /\ a \in fds /\ b \in fds
  <1>1. \A a, b : <<a, b>> \in Kept(list, fds)
                    <=> <<a, b>> \in list /\ a \in fds /\ b \in fds
    BY DEF Kept
  <1>2. Listed(Kept(list, fds)) = Listed(list) \cap fds
    BY <1>1 DEF Listed
  <1>3. Kept(list, fds) \subseteq (Listed(list) \cap fds) \X (Listed(list) \cap fds)
    BY DEF Kept, IsList
  <1>4. IsList(Kept(list, fds))
    BY <1>1, <1>2, <1>3 DEF IsList
  <1> QED
    BY <1>1, <1>2, <1>4

(***************************************************************************)
(* The invariant.  Budget bounds what waits because each arrival takes of  *)
(* what is left.                                                           *)
(***************************************************************************)

LoopInv ==
    /\ TypeOK /\ NothingForgotten
    /\ watched \subseteq {raw_fd, listening_fd, app_fd, route_fd}
    /\ listening_fd \in open \ gone
    /\ app_fd # listening_fd /\ route_fd # listening_fd
    /\ \A fd \in Fd : pending[fd] + left <= Budget

\* mipd starts with its two sockets and an empty list.
LEMMA LoopInit == Init => LoopInv
  BY FixedNumbers, LoopAssumption
     DEF Init, LoopInv, TypeOK, NothingForgotten, IsList, Listed, IsReady

\* What epoll_wait puts back.
LEMMA EventsList ==
    ASSUME LoopInv
    PROVE  /\ IsList(Events)
           /\ Listed(Events) = {fd \in Listed(readyList) : IsReady(fd)}
  <1>1. Listed(readyList) \subseteq Fd
    BY DEF Listed
  <1> QED
    BY <1>1, KeptList DEF LoopInv, TypeOK, Events

\* A message arrives.
LEMMA ArriveLoop ==
    ASSUME LoopInv, NEW fd \in Fd, Arrive(fd)
    PROVE  LoopInv'
  <1>1. /\ readyList' = Joined(readyList, fd)
        /\ IsList(readyList') /\ Listed(readyList') = Listed(readyList) \cup {fd}
    BY JoinedList DEF LoopInv, TypeOK, Arrive
  <1>2. /\ pending' \in [Fd -> 0 .. Budget] /\ left' \in 0 .. Budget
        /\ \A x \in Fd : pending'[x] + left' <= Budget
    BY LoopAssumption DEF LoopInv, TypeOK, Arrive
  <1>3. NothingForgotten'
    <2> SUFFICES ASSUME NEW x \in watched, IsReady(x)' PROVE x \in Listed(readyList')
      BY DEF NothingForgotten, Arrive
    <2>1. x \in Fd
      BY DEF LoopInv, TypeOK
    <2>2. CASE x = fd
      BY <1>1, <2>2
    <2>3. CASE x # fd
      BY <1>1, <2>1, <2>3 DEF LoopInv, TypeOK, NothingForgotten, IsReady, Arrive
    <2> QED
      BY <2>2, <2>3
  <1> QED
    BY <1>1, <1>2, <1>3 DEF LoopInv, TypeOK, Arrive

\* A peer closes.
LEMMA PeerGoesLoop ==
    ASSUME LoopInv, NEW fd \in Fd, PeerGoes(fd)
    PROVE  LoopInv'
  <1>1. /\ IsList(readyList') /\ Listed(readyList') = Listed(readyList) \cup {fd}
    BY JoinedList DEF LoopInv, TypeOK, PeerGoes
  <1>2. NothingForgotten'
    BY <1>1 DEF LoopInv, NothingForgotten, IsReady, PeerGoes
  <1> QED
    BY <1>1, <1>2 DEF LoopInv, TypeOK, PeerGoes

\* A handler that reads a message, and closes what it closes.
LEMMA ReadLoop ==
    ASSUME LoopInv, NEW from \in Fd, NEW closed \in SUBSET Fd, listening_fd \notin closed,
           Close(closed), Read(from, closed), running' \in BOOLEAN,
           UNCHANGED <<app_fd, route_fd, left>>
    PROVE  LoopInv'
  <1>1. /\ IsList(readyList')
        /\ Listed(readyList') = {fd \in Listed(readyList) : IsReady(fd)} \ closed
    <2>1. Listed(readyList) \subseteq Fd
      BY DEF Listed
    <2> QED
      BY <2>1, EventsList, KeptList DEF Close
  <1>2. /\ pending' \in [Fd -> 0 .. Budget]
        /\ \A fd \in Fd : pending'[fd] <= pending[fd]
    BY LoopAssumption DEF LoopInv, TypeOK, Read
  <1>3. NothingForgotten'
    <2> SUFFICES ASSUME NEW fd \in watched \ closed, IsReady(fd)'
                 PROVE  fd \in Listed(readyList')
      BY DEF NothingForgotten, Close
    <2>1. fd \in Fd /\ IsReady(fd)
      BY <1>2, LoopAssumption DEF LoopInv, TypeOK, IsReady, Close
    <2> QED
      BY <1>1, <2>1 DEF LoopInv, NothingForgotten
  <1>4. \A fd \in Fd : pending'[fd] + left' <= Budget
    BY <1>2, LoopAssumption DEF LoopInv, TypeOK
  <1>5. Listed(readyList') \subseteq watched'
    BY <1>1 DEF LoopInv, TypeOK, Close
  <1> QED
    BY <1>1, <1>2, <1>3, <1>4, <1>5 DEF LoopInv, TypeOK, Close

\* A connection is accepted.
LEMMA AcceptLoop ==
    ASSUME LoopInv, First("accept"), Accept
    PROVE  LoopInv'
  <1> USE FixedNumbers, LoopAssumption
  <1>0. pending[listening_fd] > 0
    BY DEF First, IsFirst, IsReady, LoopInv
  <1>1. CASE Fd \subseteq open
    <2>1. UNCHANGED <<app_fd, route_fd, open, gone, watched, readyList, pending, left>>
          /\ running' = FALSE
      BY <1>1 DEF Accept
    <2> QED
      BY <2>1 DEF LoopInv, TypeOK, NothingForgotten, IsReady
  <1>2. CASE Fd \ open # {}
    <2> DEFINE fd == LowestFree
    <2>1. fd \in Fd \ open
      BY <1>2, LowestIsNotOpen
    <2> HIDE DEF fd
    <2>2. PICK waiting \in {0, 1} :
             /\ waiting <= left /\ left' = left - waiting
             /\ open' = open \cup {fd} /\ UNCHANGED <<running, gone>>
             /\ pending' = [pending EXCEPT ![listening_fd] = @ - 1, ![fd] = waiting]
             /\ \/ app_fd = -1 /\ app_fd' = fd /\ UNCHANGED route_fd
                   /\ Watch(fd, waiting)
                \/ route_fd = -1 /\ route_fd' = fd /\ UNCHANGED app_fd
                   /\ Watch(fd, waiting)
                \/ readyList' = Events /\ UNCHANGED <<app_fd, route_fd, watched>>
      BY <1>2 DEF Accept, fd
    <2>3. fd # listening_fd /\ fd \notin watched /\ fd \notin gone
      BY <2>1 DEF LoopInv, TypeOK
    <2>4. /\ pending' \in [Fd -> 0 .. Budget] /\ left' \in 0 .. Budget
          /\ \A x \in Fd : pending'[x] + left' <= Budget
          /\ pending'[fd] = waiting
          /\ \A x \in Fd \ {fd} : pending'[x] <= pending[x]
      BY <1>0, <2>1, <2>2, <2>3 DEF LoopInv, TypeOK
    <2>5. IsList(Events) /\ Listed(Events) = {x \in Listed(readyList) : IsReady(x)}
      BY EventsList
    <2>6. \A x \in watched : IsReady(x)' => x \in Listed(Events)
      BY <2>2, <2>3, <2>4, <2>5 DEF LoopInv, TypeOK, NothingForgotten, IsReady
    <2>7. /\ app_fd' \in Fd \cup {-1} /\ route_fd' \in Fd \cup {-1}
          /\ app_fd' # listening_fd /\ route_fd' # listening_fd
      BY <2>1, <2>2, <2>3 DEF LoopInv, TypeOK
    <2>8. CASE readyList' = Events /\ UNCHANGED <<app_fd, route_fd, watched>>
      <3>1. /\ NothingForgotten'
            /\ IsList(readyList') /\ Listed(readyList') \subseteq watched'
        BY <2>5, <2>6, <2>8 DEF LoopInv, TypeOK, NothingForgotten
      <3>2. listening_fd \in open' \ gone'
            /\ open' \subseteq Fd /\ gone' \subseteq open' /\ watched' \subseteq open'
        BY <2>1, <2>2, <2>8 DEF LoopInv, TypeOK
      <3>3. running' \in BOOLEAN
            /\ watched' \subseteq {raw_fd, listening_fd, app_fd', route_fd'}
        BY <2>2, <2>8 DEF LoopInv, TypeOK
      <3> QED
        BY <2>4, <2>7, <3>1, <3>2, <3>3 DEF LoopInv, TypeOK
    <2>9. CASE Watch(fd, waiting) /\ fd \in {app_fd', route_fd'}
               /\ {app_fd, route_fd} \ {-1} \subseteq {app_fd', route_fd'}
      <3>1. /\ IsList(readyList')
            /\ Listed(readyList') = Listed(Events) \cup (IF waiting > 0 THEN {fd} ELSE {})
        BY <2>1, <2>5, <2>9, JoinedList DEF Watch
      <3>2. watched' = watched \cup {fd}
        BY <2>9 DEF Watch
      <3>3. NothingForgotten'
        BY <2>2, <2>3, <2>4, <2>6, <3>1, <3>2 DEF NothingForgotten, IsReady
      <3>4. /\ Listed(readyList') \subseteq watched'
            /\ watched' \subseteq {raw_fd, listening_fd, app_fd', route_fd'}
        BY <2>5, <2>9, <3>1, <3>2 DEF LoopInv, TypeOK
      <3> QED
        BY <2>1, <2>2, <2>4, <2>7, <3>1, <3>2, <3>3, <3>4 DEF LoopInv, TypeOK
    <2> QED
      BY <2>2, <2>8, <2>9
  <1> QED
    BY <1>1, <1>2

\* Where the first event is read, and what its handler may close.
LEMMA TurnReads ==
    ASSUME LoopInv,
           \/ First("frame") /\ ReadFrame
           \/ First("app") /\ ReadApp
           \/ First("route") /\ ReadRoute
    PROVE  /\ running' \in BOOLEAN /\ UNCHANGED <<app_fd, route_fd, left>>
           /\ \E from \in Fd : \E closed \in SUBSET (Fd \ {listening_fd}) :
                 Close(closed) /\ Read(from, closed)
  <1> USE FixedNumbers
  <1>0. \A fd \in Listed(readyList) :
           fd \notin {listening_fd, raw_fd} => fd \in {app_fd, route_fd}
    BY DEF LoopInv, TypeOK
  <1>1. CASE First("frame") /\ ReadFrame
    <2>1. PICK closed \in IF pending[raw_fd] = 0 THEN {{raw_fd}}
                          ELSE {{}, {raw_fd}, {app_fd} \cap (open \ gone)} :
             Close(closed) /\ Read(raw_fd, closed)
      BY <1>1 DEF ReadFrame
    <2>2. closed \in SUBSET (Fd \ {listening_fd})
      BY DEF LoopInv, TypeOK
    <2>3. running' \in BOOLEAN /\ UNCHANGED <<app_fd, route_fd, left>>
      <3>1. running' = TRUE \/ running' = (app_fd \in open \ gone)
        BY <1>1 DEF ReadFrame
      <3>2. (app_fd \in open \ gone) \in BOOLEAN
        OBVIOUS
      <3> QED
        BY <1>1, <3>1, <3>2 DEF ReadFrame
    <2> QED
      BY <2>1, <2>2, <2>3
  <1>2. CASE First("app") /\ ReadApp
    <2>1. app_fd \in Fd
      BY <1>2 DEF First
    <2>2. Close({}) /\ Read(app_fd, {}) /\ UNCHANGED <<app_fd, route_fd, left>>
      BY <1>2 DEF ReadApp
    <2>3. running' \in BOOLEAN
      <3>1. running' = (pending[app_fd] > 0) \/ running' = FALSE
        BY <1>2 DEF ReadApp
      <3>2. (pending[app_fd] > 0) \in BOOLEAN
        OBVIOUS
      <3> QED
        BY <3>1, <3>2
    <2> QED
      BY <2>1, <2>2, <2>3
  <1>3. CASE First("route") /\ ReadRoute
    <2>1. route_fd \in Fd
      BY <1>0, <1>3 DEF First, IsFirst
    <2>2. PICK closed \in IF pending[route_fd] = 0 THEN {{}} ELSE {{}, {raw_fd}} :
             Close(closed) /\ Read(route_fd, closed)
      BY <1>3 DEF ReadRoute
    <2>3. closed \in SUBSET (Fd \ {listening_fd})
      OBVIOUS
    <2> QED
      BY <1>3, <2>1, <2>2, <2>3 DEF ReadRoute, LoopInv, TypeOK
  <1> QED
    BY <1>1, <1>2, <1>3

\* Every step preserves the invariant.
LEMMA LoopStep == LoopInv /\ [Next]_vars => LoopInv'
  <1> SUFFICES ASSUME LoopInv, [Next]_vars PROVE LoopInv'
    OBVIOUS
  <1>1. ASSUME NEW fd \in Fd, Arrive(fd) \/ PeerGoes(fd) PROVE LoopInv'
    BY <1>1, ArriveLoop, PeerGoesLoop
  <1>2. CASE First("accept") /\ Accept
    BY <1>2, AcceptLoop
  <1>3. CASE \/ First("frame") /\ ReadFrame
             \/ First("app") /\ ReadApp
             \/ First("route") /\ ReadRoute
    <2>1. PICK from \in Fd, closed \in SUBSET (Fd \ {listening_fd}) :
             Close(closed) /\ Read(from, closed)
      BY <1>3, TurnReads
    <2> QED
      BY <1>3, <2>1, TurnReads, ReadLoop
  <1>4. CASE UNCHANGED vars
    BY <1>4 DEF vars, LoopInv, TypeOK, NothingForgotten, IsReady
  <1> QED
    BY <1>1, <1>2, <1>3, <1>4 DEF Next, Turn

\* Every variable keeps its type: what the kernel lists is an order of watched
\* descriptors, and descriptors are closed before they are given again.
THEOREM LoopTypeCorrect == Spec => []TypeOK
  <1>1. LoopInv => TypeOK
    BY DEF LoopInv
  <1> QED
    BY <1>1, LoopInit, LoopStep, PTL DEF Spec

\* No event is lost although a turn looks at one of them (mipd.c:112-119).
THEOREM NothingIsForgotten == Spec => []NothingForgotten
  <1>1. LoopInv => NothingForgotten
    BY DEF LoopInv
  <1> QED
    BY <1>1, LoopInit, LoopStep, PTL DEF Spec
=============================================================================
