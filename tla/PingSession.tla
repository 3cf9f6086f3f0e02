----------------------------- MODULE PingSession -----------------------------
(***************************************************************************)
(* The programs of one node that talk to mipd through its application      *)
(* socket: any number of ping clients and one ping server, against the one *)
(* place mipd has for them (app_fd).  An action of a program is one of its *)
(* system calls; mipd reads the identifier after it accepts, and writes a  *)
(* pong before it closes, so these are two steps each.  The routing daemon *)
(* and what lies between the nodes are external: a ping that mipd took is  *)
(* answered by a pong at most once, and pings of other nodes arrive.       *)
(***************************************************************************)
EXTENDS Integers, Sequences, FiniteSets

CONSTANTS
    Clients,        \* runs of ping_client
    Server,         \* the run of ping_server
    MaxForeign      \* pings of other nodes: a bound

Apps == Clients \cup {Server}

ASSUME SessionAssumption ==
    /\ Server \notin Clients /\ IsFiniteSet(Clients) /\ MaxForeign \in Nat
    /\ Apps \cap {"loop", "close", "down", "ping", "none"} = {}

VARIABLES
    pc,             \* where a program is
    mipd,           \* "loop", "down"; within a turn the program it accepted,
                    \* or "close" after a pong
    backlog,        \* connections that wait for accept
    number,         \* descriptor number of a connection, 0 if mipd has none
    app_fd,         \* a number, or -1
    watched,        \* the numbers in the epoll set
    toMipd, toApp,  \* what is sent and not yet read on a connection
    reset,          \* programs whose next call fails with ECONNRESET
    asked,          \* programs whose ping was taken and not answered yet
    taken,          \* history: programs mipd took a ping from
    foreign         \* pings of other nodes so far

connections == <<backlog, number, app_fd, watched>>
queues == <<toMipd, toApp, reset>>
network == <<asked, taken, foreign>>
vars == <<pc, mipd, connections, queues, network>>

ended == {"answered", "pinged", "empty", "timedOut", "failed", "stopped"}
Ended(a) == pc[a] \in ended

\* The process that has the number: none if it is closed.
Holder(fd) == {a \in Apps : number[a] = fd /\ fd # 0}

Numbers == 1 .. Cardinality(Apps)

TypeOK ==
    /\ pc \in [Apps -> {"start", "connected", "identified", "waiting", "serving"}
                       \cup ended]
    /\ mipd \in {"loop", "close", "down"} \cup Apps
    /\ backlog \in Seq(Apps)
    /\ number \in [Apps -> Numbers \cup {0}]
    /\ app_fd \in Numbers \cup {-1}
    /\ watched \subseteq {number[a] : a \in Apps} \ {0}
    /\ toMipd \in [Apps -> Seq({"id", "ping", "junk"})]
    /\ toApp \in [Apps -> Seq({"ping"} \cup Apps)]
    /\ reset \subseteq Apps /\ asked \subseteq Apps /\ taken \subseteq Apps
    /\ foreign \in 0 .. MaxForeign

Init ==
    /\ pc = [a \in Apps |-> "start"]
    /\ mipd = "loop"
    /\ backlog = <<>> /\ number = [a \in Apps |-> 0]
    /\ app_fd = -1 /\ watched = {}
    /\ toMipd = [a \in Apps |-> <<>>] /\ toApp = [a \in Apps |-> <<>>]
    /\ reset = {} /\ asked = {} /\ taken = {}
    /\ foreign = 0

(***************************************************************************)
(* The programs.                                                           *)
(***************************************************************************)

\* The connection is made, accepted or not, until mipd closes it.
Queued(a) == \E i \in 1 .. Len(backlog) : backlog[i] = a
Linked(a) == mipd # "down" /\ (Queued(a) \/ number[a] # 0)

Goto(a, place) == pc' = [pc EXCEPT ![a] = place]

Connect(a) ==
    /\ pc[a] = "start"
    /\ IF mipd = "down"
       THEN Goto(a, "failed") /\ UNCHANGED backlog
       ELSE Goto(a, "connected") /\ backlog' = Append(backlog, a)
    /\ UNCHANGED <<mipd, number, app_fd, watched, queues, network>>

\* A write of a program; without a peer it fails and the program ends.
Write(a, message, place) ==
    IF Linked(a)
    THEN Goto(a, place) /\ toMipd' = [toMipd EXCEPT ![a] = Append(@, message)]
    ELSE Goto(a, "failed") /\ UNCHANGED toMipd

\* epoll_wait returns for data and for the end of the connection.
Ready(a) == toApp[a] # <<>> \/ ~Linked(a)

\* Mutant: the server waits for its address first.
IdentifyLate(a) ==
    /\ pc[a] = "connected" /\ (a = Server => Ready(a))
    /\ Write(a, "id", "identified")
    /\ UNCHANGED <<mipd, connections, toApp, reset, network>>

Identify(a) ==
    /\ pc[a] = "connected"
    /\ Write(a, "id", "identified")
    /\ UNCHANGED <<mipd, connections, toApp, reset, network>>

\* fill_ping_buf: behind a destination and a TTL that are not 0 the tag is where
\* mipd looks for it, otherwise before.
Ping(c) ==
    /\ c \in Clients /\ pc[c] = "identified"
    /\ \E message \in {"ping", "junk"} : Write(c, message, "waiting")
    /\ UNCHANGED <<mipd, connections, toApp, reset, network>>

\* The client takes what it reads for its answer, also a read of 0 bytes.
ReadAnswer(c) ==
    /\ c \in Clients /\ pc[c] = "waiting" /\ Ready(c)
    /\ Goto(c, IF c \in reset THEN "failed"
               ELSE IF toApp[c] = <<>> THEN "empty"
               ELSE IF Head(toApp[c]) = "ping" THEN "pinged" ELSE "answered")
    /\ toApp' = [toApp EXCEPT ![c] = IF @ = <<>> \/ c \in reset THEN @ ELSE Tail(@)]
    /\ UNCHANGED <<mipd, connections, toMipd, reset, network>>

\* Mutant: epoll_wait has no timeout.
TimeoutNever(c) == FALSE /\ UNCHANGED vars

\* 5000 ms without an event.
Timeout(c) ==
    /\ c \in Clients /\ pc[c] = "waiting" /\ ~Ready(c)
    /\ Goto(c, "timedOut")
    /\ UNCHANGED <<mipd, connections, queues, network>>

\* One byte is read, and with it the whole message is gone.
ReadAddress ==
    /\ pc[Server] = "identified" /\ Ready(Server)
    /\ IF Server \in reset \/ toApp[Server] = <<>>
       THEN Goto(Server, "failed") /\ UNCHANGED toApp
       ELSE /\ Goto(Server, "serving")
            /\ toApp' = [toApp EXCEPT ![Server] = Tail(@)]
    /\ UNCHANGED <<mipd, connections, toMipd, reset, network>>

\* A read of 0 bytes is not told from a ping; the write that follows fails.
\* fill_pong_buf puts its tag before the place where mipd looks for it.
Serve ==
    /\ pc[Server] = "serving" /\ Ready(Server)
    /\ IF Server \in reset
       THEN Goto(Server, "failed") /\ UNCHANGED <<toApp, toMipd>>
       ELSE /\ toApp' = [toApp EXCEPT ![Server] = IF @ = <<>> THEN @ ELSE Tail(@)]
            /\ Write(Server, "junk", "serving")
    /\ UNCHANGED <<mipd, connections, reset, network>>

\* A signal from the terminal.
Stop(a) ==
    /\ ~Ended(a) /\ pc[a] # "start"
    /\ Goto(a, "stopped")
    /\ UNCHANGED <<mipd, connections, queues, network>>

Run(a) == Connect(a) \/ Identify(a) \/ Ping(a) \/ ReadAnswer(a) \/ Timeout(a)

RunServer == Connect(Server) \/ Identify(Server) \/ ReadAddress \/ Serve

(***************************************************************************)
(* mipd.                                                                   *)
(***************************************************************************)

\* All connections are closed; where something was left unread, or the
\* connection was never accepted, the other end is told.
Exit ==
    /\ mipd' = "down"
    /\ reset' = reset \cup {a \in Apps : Queued(a) \/ (number[a] # 0 /\ toMipd[a] # <<>>)}
    /\ backlog' = <<>>
    /\ number' = [a \in Apps |-> 0]
    /\ watched' = {}
    /\ UNCHANGED <<pc, app_fd, toMipd, toApp, taken>>

FreeNumbers == {n \in Numbers : Holder(n) = {}}
LowestFree == CHOOSE n \in FreeNumbers : \A m \in FreeNumbers : n <= m

\* accept; the read of the identifier follows at once and may block.  There are
\* as many numbers as programs.
Accept ==
    /\ mipd = "loop" /\ backlog # <<>> /\ FreeNumbers # {}
    /\ number' = [number EXCEPT ![Head(backlog)] = LowestFree]
    /\ backlog' = Tail(backlog)
    /\ mipd' = Head(backlog)
    /\ UNCHANGED <<pc, app_fd, watched, queues, network>>

\* Mutant: every application gets the place.
ReadIdentifierAnew(a) ==
    /\ mipd = a
    /\ toMipd[a] # <<>> \/ Ended(a)
    /\ mipd' = "loop"
    /\ toMipd' = [toMipd EXCEPT ![a] = IF @ = <<>> THEN @ ELSE Tail(@)]
    /\ app_fd' = number[a] /\ watched' = watched \cup {number[a]}
    /\ UNCHANGED <<pc, backlog, number, toApp, reset, network>>

\* The first application gets the place.  Without an identifier the variable
\* has any value.
ReadIdentifier(a) ==
    /\ mipd = a
    /\ toMipd[a] # <<>> \/ Ended(a)
    /\ mipd' = "loop"
    /\ toMipd' = [toMipd EXCEPT ![a] = IF @ = <<>> THEN @ ELSE Tail(@)]
    /\ \/ /\ app_fd = -1
          /\ app_fd' = number[a] /\ watched' = watched \cup {number[a]}
       \/ /\ app_fd # -1 \/ toMipd[a] = <<>>
          /\ UNCHANGED <<app_fd, watched>>
    /\ UNCHANGED <<pc, backlog, number, toApp, reset, network>>

\* The program with the place, if its events are looked at.
Turn(a) == mipd = "loop" /\ number[a] = app_fd /\ app_fd \in watched

\* An end that leaves something unread is an error at once.
Readable(a) == toMipd[a] # <<>> /\ ~(Ended(a) /\ toApp[a] # <<>>)

TakePing(a) ==
    /\ Turn(a) /\ Readable(a) /\ Head(toMipd[a]) = "ping"
    /\ toMipd' = [toMipd EXCEPT ![a] = Tail(@)]
    /\ asked' = asked \cup {a} /\ taken' = taken \cup {a}
    /\ UNCHANGED <<pc, mipd, connections, toApp, reset, foreign>>

TakeJunk(a) ==
    /\ Turn(a) /\ Readable(a) /\ Head(toMipd[a]) = "junk"
    /\ Exit /\ UNCHANGED <<asked, foreign>>

\* Mutant: the number stays in the epoll set.
CloseAppWatched(a) ==
    /\ number' = [number EXCEPT ![a] = 0]
    /\ UNCHANGED watched
    /\ reset' = IF toMipd[a] = <<>> THEN reset ELSE reset \cup {a}

\* close, which also takes the number out of the epoll set.
CloseApp(a) ==
    /\ number' = [number EXCEPT ![a] = 0]
    /\ watched' = watched \ {number[a]}
    /\ reset' = IF toMipd[a] = <<>> THEN reset ELSE reset \cup {a}

\* Mutant: the end of a program frees the place for the next one.
EndOfFileFrees(a) ==
    /\ Turn(a) /\ Ended(a) /\ ~Readable(a)
    /\ CloseApp(a) /\ app_fd' = -1
    /\ UNCHANGED <<pc, mipd, backlog, toMipd, toApp, network>>

\* The end of the program with the place is the end of mipd.
EndOfFile(a) ==
    /\ Turn(a) /\ Ended(a) /\ ~Readable(a)
    /\ Exit /\ UNCHANGED <<asked, foreign>>

\* A write to app_fd reaches whoever has the number; without a reader mipd ends.
WriteToApp(message) ==
    LET alive == {a \in Holder(app_fd) : ~Ended(a)} IN
    IF alive = {}
    THEN Exit
    ELSE /\ toApp' = [a \in Apps |-> IF a \in alive THEN Append(toApp[a], message)
                                                    ELSE toApp[a]]
         /\ mipd' = IF message = "ping" THEN "loop" ELSE "close"
         /\ UNCHANGED <<pc, connections, toMipd, reset, taken>>

\* A ping of another node.
ForeignPing ==
    /\ mipd = "loop" /\ foreign < MaxForeign
    /\ foreign' = foreign + 1
    /\ WriteToApp("ping")
    /\ UNCHANGED asked

Pong(a) ==
    /\ mipd = "loop" /\ a \in asked
    /\ WriteToApp(a)
    /\ asked' = asked \ {a}
    /\ UNCHANGED foreign

\* After a pong the connection is closed; app_fd keeps the number.
ClosePong ==
    /\ mipd = "close" /\ mipd' = "loop"
    /\ \E a \in Holder(app_fd) : CloseApp(a)
    /\ UNCHANGED <<pc, backlog, app_fd, toMipd, toApp, network>>

Mipd ==
    \/ Accept \/ ClosePong
    \/ \E a \in Apps : \/ ReadIdentifier(a) \/ TakePing(a) \/ TakeJunk(a)
                       \/ EndOfFile(a)

Network == ForeignPing \/ \E a \in Apps : Pong(a)

Next ==
    \/ \E a \in Clients : Run(a)
    \/ RunServer
    \/ \E a \in Apps : Stop(a)
    \/ Mipd
    \/ Network

\* Programs are scheduled and the clock of a client runs.  Of mipd only the
\* read that follows accept is promised to return, once there is something to
\* read or the other end is closed: whether the loop comes to an event of an
\* application is not for this module to say.
Fairness ==
    /\ \A a \in Clients : WF_vars(Run(a))
    /\ WF_vars(RunServer)
    /\ WF_vars(\E a \in Apps : ReadIdentifier(a))

Spec == Init /\ [][Next]_vars /\ Fairness

(***************************************************************************)
(* Properties.                                                             *)
(***************************************************************************)

\* A pong that comes late, for a client that has timed out, is not given to
\* the one that has its number now (mipd.c:240, 248, utils.c:359).
PongsAreOwn ==
    \A a \in Apps : \A i \in 1 .. Len(toApp[a]) : toApp[a][i] \in {"ping", a}

\* The place, as the programs see it.
OnePlace == INSTANCE Place WITH
    served <- taken,
    place <- IF mipd \in {"close", "down"} \/ app_fd \notin watched THEN "none"
             ELSE CHOOSE a \in Apps : number[a] = app_fd

\* Numbers that are closed and handed out again, clients that end or time out
\* and pongs that come late make of app_fd one place: who comes while another
\* has it does not get it, and only who has it is served (mipd.c:137, 248,
\* utils.c:359).
ImplementsPlace == OnePlace!Spec

\* Whatever becomes of mipd and of the other programs, a client ends
\* (ping_client.c:115).
ClientsEnd == \A c \in Clients : pc[c] = "connected" ~> Ended(c)

\* The blocking read after accept returns: each program that connects writes
\* its identifier, or ends, without waiting for mipd (mipd.c:130).
AcceptReturns == \A a \in Apps : mipd = a ~> mipd # a

(***************************************************************************)
(* What scripts and comments of the repository say, and the code does not  *)
(* do: each is violated in a run of its own.                               *)
(***************************************************************************)

\* he1-mn-script.py:113-119: a client that comes when the one before has had
\* its answer gets the place (mipd.c:137, 248).
FreePlaceIsGiven ==
    [][\A c \in Clients : mipd = c /\ toMipd[c] # <<>> /\ watched = {} /\ mipd' = "loop"
                          => number[c] \in watched']_vars

=============================================================================
