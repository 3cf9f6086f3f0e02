------------------------------ MODULE EventLoop ------------------------------
(***************************************************************************)
(* Whom the loop of mipd serves.  epoll_wait returns up to MAX_EVENTS      *)
(* events, and mipd looks at the first.  The set is level-triggered: Linux *)
(* keeps what is ready in a list, in the order in which it became ready;   *)
(* epoll_wait drops what is ready no more and puts the others back in the  *)
(* order it found them.  That list is external, and kept as the order it    *)
(* is: a set of pairs.  What the messages say is left to Mipd; descriptors *)
(* are numbers, as there.                                                  *)
(***************************************************************************)
EXTENDS Integers

CONSTANTS
    MaxFd,          \* last descriptor number
    Budget          \* messages and connections that come in all: a bound

raw_fd == 4
listening_fd == 5
Fd == raw_fd .. MaxFd

ASSUME LoopAssumption == MaxFd \in Nat /\ MaxFd > listening_fd /\ Budget \in Nat

VARIABLES
    running,
    app_fd, route_fd,
    open,           \* descriptors in use
    gone,           \* those whose peer has closed
    watched,        \* the epoll set
    readyList,      \* the kernel's list: <<a, b>> if a is b or before b
    pending,        \* messages or connections that wait
    left            \* of Budget

vars == <<running, app_fd, route_fd, open, gone, watched, readyList, pending, left>>

\* What is listed is paired with itself.
Listed(list) == {fd \in Fd : <<fd, fd>> \in list}

\* A list has an order, and each entry once.
IsList(list) ==
    /\ list \subseteq Listed(list) \X Listed(list)
    /\ \A a, b \in Listed(list) : <<a, b>> \in list \/ <<b, a>> \in list
    /\ \A a, b \in Fd : <<a, b>> \in list /\ <<b, a>> \in list => a = b
    /\ \A a, b, c \in Fd :
          <<a, b>> \in list /\ <<b, c>> \in list => <<a, c>> \in list

TypeOK ==
    /\ running \in BOOLEAN
    /\ app_fd \in Fd \cup {-1} /\ route_fd \in Fd \cup {-1}
    /\ open \subseteq Fd /\ gone \subseteq open /\ watched \subseteq open
    /\ IsList(readyList) /\ Listed(readyList) \subseteq watched
    /\ pending \in [Fd -> 0 .. Budget]
    /\ left \in 0 .. Budget

Init ==
    /\ running = TRUE
    /\ app_fd = -1 /\ route_fd = -1
    /\ open = {raw_fd, listening_fd} /\ gone = {}
    /\ watched = {raw_fd, listening_fd}
    /\ readyList = {}
    /\ pending = [fd \in Fd |-> 0]
    /\ left = Budget

(***************************************************************************)
(* The kernel.                                                             *)
(***************************************************************************)

\* What becomes ready joins the end of the list unless it is in it.
Joined(list, fd) ==
    IF fd \in Listed(list) THEN list
                          ELSE list \cup ((Listed(list) \cup {fd}) \X {fd})

\* Those of a list that are in a set, in their order.
Kept(list, fds) == list \cap (fds \X fds)

IsReady(fd) == pending[fd] > 0 \/ fd \in gone

\* No other that is ready is listed before it.
IsFirst(fd) ==
    /\ fd \in Listed(readyList) /\ IsReady(fd)
    /\ \A other \in Fd \ {fd} : IsReady(other) => <<other, fd>> \notin readyList

\* Mutant: edge-triggered, what was reported is not put back.
EventsOnce == Kept(readyList, {fd \in Fd : IsReady(fd) /\ ~IsFirst(fd)})

Events == Kept(readyList, {fd \in Fd : IsReady(fd)})

Arrive(fd) ==
    /\ running /\ left > 0 /\ fd \in watched \ gone
    /\ pending' = [pending EXCEPT ![fd] = @ + 1]
    /\ readyList' = Joined(readyList, fd)
    /\ left' = left - 1
    /\ UNCHANGED <<running, app_fd, route_fd, open, gone, watched>>

\* A peer closes; on the number of the raw socket only one that came later.
PeerGoes(fd) ==
    /\ running /\ fd \in (watched \cap {app_fd, route_fd}) \ gone
    /\ gone' = gone \cup {fd}
    /\ readyList' = Joined(readyList, fd)
    /\ UNCHANGED <<running, app_fd, route_fd, open, watched, pending, left>>

\* Mutant: the number is closed, the list still has it.
CloseListed(closed) ==
    /\ open' = open \ closed /\ gone' = gone \ closed
    /\ watched' = watched \ closed
    /\ readyList' = Events

\* What a handler closes leaves the set and the list.
Close(closed) ==
    /\ open' = open \ closed /\ gone' = gone \ closed
    /\ watched' = watched \ closed
    /\ readyList' = Kept(Events, Fd \ closed)

\* One message is read, and dropped is what waits on a closed descriptor.
Read(from, closed) ==
    pending' = [fd \in Fd |-> IF fd \in closed THEN 0
                             ELSE IF fd = from /\ pending[fd] > 0 THEN pending[fd] - 1
                             ELSE pending[fd]]

(***************************************************************************)
(* A turn of the loop, by the descriptor of the first event.               *)
(***************************************************************************)

LowestFree == CHOOSE fd \in Fd \ open : \A other \in Fd \ open : fd <= other

\* add_to_epoll_table: a message that already waits makes it ready at once.
Watch(fd, waiting) ==
    /\ watched' = watched \cup {fd}
    /\ readyList' = IF waiting > 0 THEN Joined(Events, fd) ELSE Events

\* Mutant: without a free place the connection is left in the backlog.
AcceptIfFree ==
    /\ Fd \ open # {} /\ -1 \in {app_fd, route_fd}
    /\ \E waiting \in {0, 1} :
          /\ waiting <= left /\ left' = left - waiting
          /\ open' = open \cup {LowestFree}
          /\ Watch(LowestFree, waiting)
          /\ pending' = [pending EXCEPT ![listening_fd] = @ - 1, ![LowestFree] = waiting]
          /\ IF app_fd = -1 THEN app_fd' = LowestFree /\ UNCHANGED route_fd
                            ELSE route_fd' = LowestFree /\ UNCHANGED app_fd
    /\ UNCHANGED <<running, gone>>

\* Each kind of program gets its place once; who comes second, or without a
\* known identifier, stays open but is not watched.  The rest of what it sent
\* may be there already.
Accept ==
    \/ /\ Fd \ open # {}
       /\ open' = open \cup {LowestFree}
       /\ \E waiting \in {0, 1} :
             /\ waiting <= left /\ left' = left - waiting
             /\ pending' = [pending EXCEPT ![listening_fd] = @ - 1,
                                           ![LowestFree] = waiting]
             /\ \/ app_fd = -1 /\ app_fd' = LowestFree /\ UNCHANGED route_fd
                   /\ Watch(LowestFree, waiting)
                \/ route_fd = -1 /\ route_fd' = LowestFree /\ UNCHANGED app_fd
                   /\ Watch(LowestFree, waiting)
                \/ readyList' = Events /\ UNCHANGED <<app_fd, route_fd, watched>>
       /\ UNCHANGED <<running, gone>>
    \/ /\ Fd \subseteq open
       /\ running' = FALSE
       /\ UNCHANGED <<app_fd, route_fd, open, gone, watched, readyList, pending, left>>

\* A frame: a pong closes app_fd, a failed answer the raw socket; a write to
\* an application that has gone ends mipd.  At end of file the number of the
\* raw socket is closed.
ReadFrame ==
    /\ \E closed \in IF pending[raw_fd] = 0 THEN {{raw_fd}}
                     ELSE {{}, {raw_fd}, {app_fd} \cap (open \ gone)} :
          Close(closed) /\ Read(raw_fd, closed)
    /\ running' \in {TRUE, (app_fd \in open \ gone)}
    /\ UNCHANGED <<app_fd, route_fd, left>>

\* A ping, or what ends mipd.
ReadApp ==
    /\ Close({}) /\ Read(app_fd, {})
    /\ running' \in {(pending[app_fd] > 0), FALSE}
    /\ UNCHANGED <<app_fd, route_fd, left>>

\* A message, which may close the raw socket if it cannot be sent; end of file
\* is taken for a message of no known type.
ReadRoute ==
    /\ \E closed \in IF pending[route_fd] = 0 THEN {{}} ELSE {{}, {raw_fd}} :
          Close(closed) /\ Read(route_fd, closed)
    /\ UNCHANGED <<running, app_fd, route_fd, left>>

\* Whose handler reads the first event; numbers may be the same.
First(handler) ==
    /\ running
    /\ \E fd \in Fd :
          /\ IsFirst(fd)
          /\ handler = IF fd = listening_fd THEN "accept"
                       ELSE IF fd = raw_fd THEN "frame"
                       ELSE IF fd = app_fd THEN "app" ELSE "route"

Turn ==
    \/ First("accept") /\ Accept
    \/ First("frame") /\ ReadFrame
    \/ First("app") /\ ReadApp
    \/ First("route") /\ ReadRoute

Next == Turn \/ \E fd \in Fd : Arrive(fd) \/ PeerGoes(fd)

\* mipd is scheduled.
Spec == Init /\ [][Next]_vars /\ WF_vars(Turn)

(***************************************************************************)
(* Properties.                                                             *)
(***************************************************************************)

\* What is ready is in the list, so that a later turn takes it, although a turn
\* takes one event and leaves the others and the rest of its own messages
\* behind (mipd.c:112-119).
NothingForgotten == \A fd \in watched : IsReady(fd) => fd \in Listed(readyList)

\* The routing daemon has gone, all it sent was read, and nothing is listed
\* before its descriptor.
RouteEndFirst ==
    /\ First("route") /\ pending[route_fd] = 0
    /\ \A other \in Listed(readyList) : <<route_fd, other>> \in readyList

\* When the traffic pauses at times, what waits is handled, although only one
\* of the events is looked at in a turn (mipd.c:112-119).  Two things are left
\* out.  mipd may end.  And once the end of the routing daemon is the first
\* event, which is never taken out of the set (utils.c:421), it depends on the
\* order in which Linux reports events whether another is looked at again.
WaitingIsServed ==
    \A fd \in Fd : fd \in watched /\ pending[fd] > 0
        ~> pending[fd] = 0 \/ fd \notin watched \/ ~running \/ RouteEndFirst

=============================================================================
