-------------------------- MODULE PingSessionProofs --------------------------
(***************************************************************************)
(* PingSession for any clients and any number of foreign pings.  The       *)
(* invariants are proved one after the other, each with those before it.   *)
(***************************************************************************)
EXTENDS PingSession, NaturalsInduction, WellFoundedInduction, TLAPS

\* No two open connections have a number, mipd watches at most the place, and
\* what waits for accept has no number yet and waits once.
NumbersInv ==
    /\ \A a, b \in Apps : number[a] = number[b] /\ number[a] # 0 => a = b
    /\ watched \subseteq {app_fd}
    /\ mipd \in Apps => number[mipd] # 0
    /\ \A a \in Apps : pc[a] = "start" => number[a] = 0
    /\ \A i \in 1 .. Len(backlog) : /\ pc[backlog[i]] # "start"
                                    /\ number[backlog[i]] = 0
    /\ \A i, j \in 1 .. Len(backlog) : backlog[i] = backlog[j] => i = j

\* Whoever had a ping taken has the place, as long as it is watched.
ServedInv ==
    /\ taken # {} => app_fd # -1
    /\ app_fd \in watched => \A c \in taken : number[c] = app_fd
    /\ \A c, d \in taken : c = d

\* Who waits for a pong has the number it will be written to.
AnswerInv ==
    /\ asked \subseteq taken
    /\ mipd = "close" => asked = {}
    /\ mipd # "down" => \A c \in asked : number[c] = app_fd
    /\ PongsAreOwn

SessionInv == TypeOK /\ NumbersInv /\ ServedInv /\ AnswerInv

(***************************************************************************)
(* Steps of programs and of mipd, by what they leave alone.                *)
(***************************************************************************)

Places == {"start", "connected", "identified", "waiting", "serving"} \cup ended
Kept == <<mipd, number, app_fd, watched, reset, asked, taken, foreign>>

\* A system call of program a.
Program(a) ==
    \/ Connect(a) \/ Identify(a) \/ Ping(a) \/ ReadAnswer(a) \/ Timeout(a)
    \/ a = Server /\ (ReadAddress \/ Serve)
    \/ Stop(a)

MipdStep ==
    \/ Accept \/ ClosePong \/ ForeignPing
    \/ \E a \in Apps : \/ ReadIdentifier(a) \/ TakePing(a)
                       \/ TakeJunk(a) \/ EndOfFile(a)
    \/ \E a \in Apps : Pong(a)

\* Every step is one of a program or of mipd.
LEMMA NextCases == Next => MipdStep \/ \E a \in Apps : Program(a)
  BY DEF Next, Run, RunServer, Mipd, Network, MipdStep, Program, Apps

\* What a write does.
LEMMA WriteType ==
    ASSUME TypeOK, NEW a \in Apps, NEW message \in {"id", "ping", "junk"},
           NEW place \in Places \ {"start"}, Write(a, message, place)
    PROVE  /\ pc' \in [Apps -> Places]
           /\ toMipd' \in [Apps -> Seq({"id", "ping", "junk"})]
           /\ \A b \in Apps : pc'[b] = pc[b] \/ pc'[b] # "start"
<1>1. pc \in [Apps -> Places] /\ toMipd \in [Apps -> Seq({"id", "ping", "junk"})]
  BY DEF TypeOK, Places
<1>2. CASE Linked(a)
  <2>1. pc' = [pc EXCEPT ![a] = place] /\ toMipd' = [toMipd EXCEPT ![a] = Append(@, message)]
    BY <1>2 DEF Write, Goto
  <2>2. Append(toMipd[a], message) \in Seq({"id", "ping", "junk"})
    BY <1>1
  <2> QED BY <1>1, <2>1, <2>2
<1>3. CASE ~Linked(a)
  <2>1. pc' = [pc EXCEPT ![a] = "failed"] /\ toMipd' = toMipd
    BY <1>3 DEF Write, Goto
  <2> QED BY <1>1, <2>1 DEF Places, ended
<1> QED BY <1>2, <1>3

\* A program changes its place, what it sent and what it read, nothing else.
LEMMA ProgramStep ==
    ASSUME TypeOK, NEW a \in Apps, Program(a)
    PROVE  /\ UNCHANGED Kept
           /\ pc' \in [Apps -> Places]
           /\ toMipd' \in [Apps -> Seq({"id", "ping", "junk"})]
           /\ \A b \in Apps : pc'[b] = pc[b] \/ pc'[b] # "start"
           /\ \/ UNCHANGED backlog
              \/ pc[a] = "start" /\ pc'[a] # "start" /\ backlog' = Append(backlog, a)
<1> USE DEF Kept, connections, queues, network
<1>0. /\ pc \in [Apps -> Places]
      /\ toMipd \in [Apps -> Seq({"id", "ping", "junk"})]
  BY DEF TypeOK, Places
<1>1. CASE Connect(a)
  BY <1>0, <1>1 DEF Connect, Goto, Places, ended
<1>2. CASE Identify(a)
  <2>1. Write(a, "id", "identified")
    BY <1>2 DEF Identify
  <2> QED BY <1>2, <2>1, WriteType DEF Identify, Places
<1>3. CASE Ping(a)
  <2>1. PICK message \in {"ping", "junk"} : Write(a, message, "waiting")
    BY <1>3 DEF Ping
  <2> QED BY <1>3, <2>1, WriteType DEF Ping, Places
<1>4. CASE ReadAnswer(a)
  <2>1. PICK place \in ended : Goto(a, place)
    BY <1>4 DEF ReadAnswer, ended
  <2> QED BY <1>0, <1>4, <2>1 DEF ReadAnswer, Goto, Places, ended
<1>5. CASE Timeout(a)
  BY <1>0, <1>5 DEF Timeout, Goto, Places, ended
<1>6. CASE a = Server /\ ReadAddress
  BY <1>0, <1>6 DEF ReadAddress, Goto, Places, ended
<1>7. CASE a = Server /\ Serve
  <2>1. CASE Server \in reset
    BY <1>0, <1>7, <2>1 DEF Serve, Goto, Places, ended
  <2>2. CASE Server \notin reset
    <3>1. Write(Server, "junk", "serving")
      BY <1>7, <2>2 DEF Serve
    <3> QED BY <1>7, <3>1, WriteType DEF Serve, Places
  <2> QED BY <2>1, <2>2
<1>8. CASE Stop(a)
  BY <1>0, <1>8 DEF Stop, Goto, Places, ended
<1> QED BY <1>1, <1>2, <1>3, <1>4, <1>5, <1>6, <1>7, <1>8 DEF Program

ReadsOnly ==
    \A b \in Apps : \/ toApp'[b] = toApp[b]
                    \/ toApp[b] # <<>> /\ toApp'[b] = Tail(toApp[b])

\* What a program reads is gone from its connection.
LEMMA ProgramReads ==
    ASSUME TypeOK, NEW a \in Apps, Program(a)
    PROVE  /\ toApp' \in [Apps -> Seq({"ping"} \cup Apps)]
           /\ ReadsOnly
<1> USE DEF queues
<1>0. toApp \in [Apps -> Seq({"ping"} \cup Apps)]
  BY DEF TypeOK
<1>1. CASE UNCHANGED toApp
  <2>1. ReadsOnly
    BY <1>1 DEF ReadsOnly
  <2> QED BY <1>0, <1>1, <2>1
<1>2. CASE toApp[a] # <<>> /\ toApp' = [toApp EXCEPT ![a] = Tail(@)]
  <2>1. Tail(toApp[a]) \in Seq({"ping"} \cup Apps)
    BY <1>0, <1>2
  <2>2. ReadsOnly
    BY <1>0, <1>2 DEF ReadsOnly
  <2>3. toApp' \in [Apps -> Seq({"ping"} \cup Apps)]
    BY <1>0, <1>2, <2>1
  <2> QED BY <2>2, <2>3
<1>3. CASE Connect(a) \/ Identify(a) \/ Ping(a) \/ Timeout(a) \/ Stop(a)
  BY <1>1, <1>3 DEF Connect, Identify, Ping, Timeout, Stop
<1>4. CASE ReadAnswer(a)
  <2>1. toApp' = [toApp EXCEPT ![a] = IF @ = <<>> \/ a \in reset THEN @ ELSE Tail(@)]
    BY <1>4 DEF ReadAnswer
  <2>2. CASE toApp[a] = <<>> \/ a \in reset
    BY <1>0, <1>1, <2>1, <2>2
  <2>3. CASE ~(toApp[a] = <<>> \/ a \in reset)
    BY <1>0, <1>2, <2>1, <2>3
  <2> QED BY <2>2, <2>3
<1>5. CASE a = Server /\ ReadAddress
  BY <1>1, <1>2, <1>5 DEF ReadAddress
<1>6. CASE a = Server /\ Serve
  <2>1. CASE Server \in reset \/ toApp[Server] = <<>>
    BY <1>0, <1>1, <1>6, <2>1 DEF Serve
  <2>2. CASE ~(Server \in reset \/ toApp[Server] = <<>>)
    BY <1>0, <1>2, <1>6, <2>2 DEF Serve
  <2> QED BY <2>1, <2>2
<1> QED BY <1>3, <1>4, <1>5, <1>6 DEF Program

\* Descriptor numbers are positive.
LEMMA NumbersPositive == Numbers \subseteq Nat \ {0} /\ -1 \notin Numbers
  BY DEF Numbers

\* A set of natural numbers has a least element.
LEMMA LeastNumber ==
    ASSUME NEW T, T \subseteq Nat, T # {}
    PROVE  \E x \in T : \A y \in T : x <= y
<1> DEFINE R == {ss \in Nat \X Nat : ss[1] < ss[2]}
<1>1. IsWellFoundedOn(R, Nat)
  BY NatLessThanWellFounded DEF OpToRel
<1>2. PICK x \in T : \A y \in T : ~(<<y, x>> \in R)
  BY <1>1, WFMin, Zenon
<1>3. \A y \in T : ~(y < x)
  BY <1>2
<1> QED BY <1>3

\* accept gives a number nobody has.
LEMMA LowestIsFree ==
    ASSUME FreeNumbers # {}
    PROVE  LowestFree \in Numbers /\ \A a \in Apps : number[a] # LowestFree
<1>1. FreeNumbers \subseteq Nat \ {0}
  BY NumbersPositive DEF FreeNumbers
<1>2. \E n \in FreeNumbers : \A m \in FreeNumbers : n <= m
  BY <1>1, LeastNumber
<1>3. LowestFree \in FreeNumbers
  BY <1>2 DEF LowestFree
<1> QED BY <1>1, <1>3 DEF FreeNumbers, Holder

(***************************************************************************)
(* Types and numbers.                                                      *)
(***************************************************************************)

TypeNumbers == TypeOK /\ NumbersInv

\* The parts of TypeOK that are not about pc, toMipd and toApp.
MipdOK ==
    /\ mipd \in {"loop", "close", "down"} \cup Apps
    /\ backlog \in Seq(Apps)
    /\ number \in [Apps -> Numbers \cup {0}]
    /\ app_fd \in Numbers \cup {-1}
    /\ watched \subseteq {number[a] : a \in Apps} \ {0}
    /\ reset \subseteq Apps /\ asked \subseteq Apps /\ taken \subseteq Apps
    /\ foreign \in 0 .. MaxForeign

QueuesOK ==
    /\ pc \in [Apps -> Places]
    /\ toMipd \in [Apps -> Seq({"id", "ping", "junk"})]
    /\ toApp \in [Apps -> Seq({"ping"} \cup Apps)]

\* Both make up TypeOK.
LEMMA TypeSplit == TypeOK <=> MipdOK /\ QueuesOK
  BY DEF TypeOK, MipdOK, QueuesOK, Places

\* A program keeps the types, and puts itself into the backlog only when it
\* has no number and is not in it.
LEMMA ProgramNumbers ==
    ASSUME TypeNumbers, NEW a \in Apps, Program(a)
    PROVE  TypeNumbers'
<1>0. TypeOK /\ NumbersInv
  BY DEF TypeNumbers
<1>1. /\ UNCHANGED Kept
      /\ pc' \in [Apps -> Places]
      /\ toMipd' \in [Apps -> Seq({"id", "ping", "junk"})]
      /\ \A b \in Apps : pc'[b] = pc[b] \/ pc'[b] # "start"
      /\ \/ UNCHANGED backlog
         \/ pc[a] = "start" /\ pc'[a] # "start" /\ backlog' = Append(backlog, a)
  BY <1>0, ProgramStep
<1>2. backlog \in Seq(Apps)
  BY <1>0 DEF TypeOK
<1>3. MipdOK'
  <2>1. backlog' \in Seq(Apps)
    <3>1. Append(backlog, a) \in Seq(Apps)
      BY <1>2
    <3> QED BY <1>1, <1>2, <3>1
  <2>2. MipdOK
    BY <1>0, TypeSplit
  <2> QED BY <1>1, <2>1, <2>2 DEF MipdOK, Kept
<1>4. QueuesOK'
  BY <1>0, <1>1, ProgramReads DEF QueuesOK
<1>5. CASE UNCHANGED backlog
  <2>1. NumbersInv'
    <3>1. \A i \in 1 .. Len(backlog) : backlog[i] \in Apps
      BY <1>2
    <3> QED BY <1>0, <1>1, <1>5, <3>1 DEF NumbersInv, Kept
  <2> QED BY <1>3, <1>4, <2>1, TypeSplit DEF TypeNumbers, TypeOK, MipdOK, QueuesOK, Places
<1>6. CASE pc[a] = "start" /\ pc'[a] # "start" /\ backlog' = Append(backlog, a)
  <2>1. /\ Len(backlog) \in Nat /\ Len(backlog') = Len(backlog) + 1
        /\ \A i \in 1 .. Len(backlog) : backlog'[i] = backlog[i] /\ backlog[i] \in Apps
        /\ backlog'[Len(backlog) + 1] = a
    BY <1>2, <1>6
  <2>2. \A i \in 1 .. Len(backlog) : backlog[i] # a /\ pc'[backlog[i]] # "start"
    BY <1>0, <1>1, <1>6, <2>1 DEF NumbersInv
  <2>3. number[a] = 0
    BY <1>0, <1>6 DEF NumbersInv
  <2>4. \A i \in 1 .. Len(backlog') : pc'[backlog'[i]] # "start" /\ number'[backlog'[i]] = 0
    BY <1>0, <1>1, <1>6, <2>1, <2>2, <2>3 DEF NumbersInv, Kept
  <2>5. \A i, j \in 1 .. Len(backlog') : backlog'[i] = backlog'[j] => i = j
    BY <1>0, <2>1, <2>2 DEF NumbersInv
  <2>6. NumbersInv'
    BY <1>0, <1>1, <2>4, <2>5 DEF NumbersInv, Kept
  <2> QED BY <1>3, <1>4, <2>6, TypeSplit DEF TypeNumbers, TypeOK, MipdOK, QueuesOK, Places
<1> QED BY <1>1, <1>5, <1>6

\* What mipd leaves to the histories.
Histories ==
    asked' \subseteq asked /\ foreign' \in 0 .. MaxForeign

\* After Exit nothing is open.
LEMMA ExitNumbers ==
    ASSUME TypeNumbers, Exit, Histories
    PROVE  TypeNumbers'
<1>1. MipdOK'
  BY DEF TypeNumbers, TypeOK, MipdOK, Exit, Histories
<1>2. QueuesOK'
  BY DEF TypeNumbers, TypeOK, QueuesOK, Exit, Places
<1>3. "down" \notin Apps
  BY SessionAssumption
<1>4. NumbersInv'
  <2>1. backlog' = <<>> /\ Len(backlog') = 0
    BY DEF Exit
  <2> QED BY <1>3, <2>1 DEF NumbersInv, Exit
<1> QED BY <1>1, <1>2, <1>4 DEF TypeNumbers, TypeOK, MipdOK, QueuesOK, Places

\* A connection is closed.
LEMMA CloseNumbers ==
    ASSUME TypeNumbers, NEW a \in Apps, CloseApp(a), mipd' = "loop",
           UNCHANGED <<pc, backlog, app_fd, toMipd, toApp, network>>
    PROVE  TypeNumbers'
<1>1. MipdOK'
  <2>1. watched' \subseteq {number'[b] : b \in Apps} \ {0}
    BY DEF TypeNumbers, TypeOK, CloseApp
  <2>2. reset' \subseteq Apps
    BY DEF TypeNumbers, TypeOK, CloseApp
  <2> QED BY <2>1, <2>2 DEF TypeNumbers, TypeOK, MipdOK, CloseApp, network
<1>2. QueuesOK'
  BY DEF TypeNumbers, TypeOK, QueuesOK, Places
<1>3. "loop" \notin Apps
  BY SessionAssumption
<1>4. NumbersInv'
  <2>1. \A i \in 1 .. Len(backlog) : backlog[i] \in Apps
    BY DEF TypeNumbers, TypeOK
  <2>2. number' = [number EXCEPT ![a] = 0] /\ watched' \subseteq watched
    BY DEF CloseApp
  <2> QED BY <1>3, <2>1, <2>2 DEF NumbersInv, TypeNumbers, TypeOK
<1> QED BY <1>1, <1>2, <1>4 DEF TypeNumbers, TypeOK, MipdOK, QueuesOK, Places

\* The first of the backlog gets a number.
LEMMA AcceptNumbers ==
    ASSUME TypeNumbers, Accept
    PROVE  TypeNumbers'
<1> DEFINE a == Head(backlog)
<1>1. backlog \in Seq(Apps) /\ backlog # <<>>
  BY DEF TypeNumbers, TypeOK, Accept
<1>2. /\ a \in Apps /\ a = backlog[1] /\ backlog' \in Seq(Apps)
      /\ Len(backlog) \in Nat /\ Len(backlog) >= 1 /\ Len(backlog') = Len(backlog) - 1
      /\ \A i \in 1 .. Len(backlog') : backlog'[i] = backlog[i + 1] /\ backlog'[i] \in Apps
  <2>1. backlog' = Tail(backlog)
    BY DEF Accept
  <2> QED BY <1>1, <2>1
<1>3. LowestFree \in Numbers /\ LowestFree # 0 /\ \A b \in Apps : number[b] # LowestFree
  BY LowestIsFree, NumbersPositive DEF Accept
<1>4. number[a] = 0 /\ pc[a] # "start"
  BY <1>2 DEF TypeNumbers, NumbersInv
<1>5. number' = [number EXCEPT ![a] = LowestFree] /\ number \in [Apps -> Numbers \cup {0}]
      /\ mipd' = a
  BY DEF Accept, TypeNumbers, TypeOK
<1> HIDE DEF a
<1>6. MipdOK'
  <2>1. watched' \subseteq {number'[b] : b \in Apps} \ {0}
    BY <1>2, <1>4, <1>5 DEF TypeNumbers, TypeOK, Accept
  <2> QED BY <1>2, <1>3, <1>5, <2>1 DEF TypeNumbers, TypeOK, MipdOK, Accept, queues, network
<1>7. QueuesOK'
  BY DEF TypeNumbers, TypeOK, QueuesOK, Places, Accept, queues
<1>8. NumbersInv'
  <2>1. \A b, c \in Apps : number'[b] = number'[c] /\ number'[b] # 0 => b = c
    BY <1>2, <1>3, <1>5 DEF TypeNumbers, NumbersInv
  <2>2. \A b \in Apps : pc'[b] = "start" => number'[b] = 0
    BY <1>2, <1>4, <1>5 DEF TypeNumbers, NumbersInv, Accept
  <2>3. \A i \in 1 .. Len(backlog') :
           backlog'[i] # a /\ pc[backlog'[i]] # "start" /\ number[backlog'[i]] = 0
    BY <1>2 DEF TypeNumbers, NumbersInv
  <2>4. \A i \in 1 .. Len(backlog') : pc'[backlog'[i]] # "start" /\ number'[backlog'[i]] = 0
    BY <1>2, <1>5, <2>3 DEF Accept
  <2>5. ASSUME NEW i \in 1 .. Len(backlog'), NEW j \in 1 .. Len(backlog'),
               backlog'[i] = backlog'[j]
        PROVE  i = j
    <3>1. /\ i + 1 \in 1 .. Len(backlog) /\ j + 1 \in 1 .. Len(backlog)
          /\ backlog[i + 1] = backlog[j + 1]
      BY <1>2, <2>5
    <3>2. i + 1 = j + 1
      BY <3>1 DEF TypeNumbers, NumbersInv
    <3> QED BY <3>2
  <2>6. number'[mipd'] # 0 /\ watched' \subseteq {app_fd'}
    BY <1>2, <1>3, <1>5 DEF TypeNumbers, NumbersInv, Accept
  <2> QED BY <2>1, <2>2, <2>4, <2>5, <2>6 DEF NumbersInv
<1> QED BY <1>6, <1>7, <1>8 DEF TypeNumbers, TypeOK, MipdOK, QueuesOK, Places

\* The place is taken by the program that was accepted, or by nobody.
LEMMA IdentifierNumbers ==
    ASSUME TypeNumbers, NEW a \in Apps, ReadIdentifier(a)
    PROVE  TypeNumbers'
<1>1. /\ number[a] \in Numbers /\ mipd' = "loop" /\ "loop" \notin Apps
      /\ UNCHANGED <<pc, backlog, number, toApp, reset, network>>
  BY SessionAssumption DEF TypeNumbers, TypeOK, NumbersInv, ReadIdentifier
<1>2. toMipd' \in [Apps -> Seq({"id", "ping", "junk"})]
  <2>1. toMipd[a] # <<>> => Tail(toMipd[a]) \in Seq({"id", "ping", "junk"})
    BY DEF TypeNumbers, TypeOK
  <2> QED BY <2>1 DEF TypeNumbers, TypeOK, ReadIdentifier
<1>3. \/ app_fd = -1 /\ app_fd' = number[a] /\ watched' = watched \cup {number[a]}
      \/ UNCHANGED <<app_fd, watched>>
  BY DEF ReadIdentifier
<1>4. number[a] # 0 /\ number[a] # -1
  BY <1>1, NumbersPositive
<1>5. MipdOK'
  BY <1>1, <1>3, <1>4 DEF TypeNumbers, TypeOK, MipdOK, network
<1>6. QueuesOK'
  BY <1>1, <1>2 DEF TypeNumbers, TypeOK, QueuesOK, Places
<1>7. watched' \subseteq {app_fd'}
  <2>1. -1 \notin watched
    BY NumbersPositive DEF TypeNumbers, TypeOK
  <2> QED BY <1>3, <2>1 DEF TypeNumbers, NumbersInv
<1>8. NumbersInv'
  BY <1>1, <1>7 DEF TypeNumbers, NumbersInv
<1> QED BY <1>5, <1>6, <1>8 DEF TypeNumbers, TypeOK, MipdOK, QueuesOK, Places

\* A ping is taken.
LEMMA TakePingNumbers ==
    ASSUME TypeNumbers, NEW a \in Apps, TakePing(a)
    PROVE  TypeNumbers'
<1>1. toMipd' \in [Apps -> Seq({"id", "ping", "junk"})]
  <2>1. Tail(toMipd[a]) \in Seq({"id", "ping", "junk"})
    BY DEF TypeNumbers, TypeOK, TakePing, Readable
  <2> QED BY <2>1 DEF TypeNumbers, TypeOK, TakePing
<1>3. MipdOK'
  BY DEF TypeNumbers, TypeOK, MipdOK, TakePing, connections
<1>4. QueuesOK'
  BY <1>1 DEF TypeNumbers, TypeOK, QueuesOK, Places, TakePing
<1>5. NumbersInv'
  BY DEF TypeNumbers, NumbersInv, TakePing, connections
<1> QED BY <1>3, <1>4, <1>5 DEF TypeNumbers, TypeOK, MipdOK, QueuesOK, Places

\* A message is written to whoever has the number, or mipd ends.
LEMMA WriteNumbers ==
    ASSUME TypeNumbers, NEW message \in {"ping"} \cup Apps, WriteToApp(message),
           Histories
    PROVE  TypeNumbers'
<1> DEFINE alive == {a \in Holder(app_fd) : ~Ended(a)}
<1>1. CASE alive = {}
  BY <1>1, ExitNumbers DEF WriteToApp
<1>2. CASE alive # {}
  <2>1. /\ toApp' = [a \in Apps |-> IF a \in alive THEN Append(toApp[a], message)
                                                     ELSE toApp[a]]
        /\ mipd' \in {"loop", "close"}
        /\ UNCHANGED <<pc, connections, toMipd, reset, taken>>
    BY <1>2 DEF WriteToApp
  <2> HIDE DEF alive
  <2>2. \A a \in Apps : toApp[a] \in Seq({"ping"} \cup Apps)
    BY DEF TypeNumbers, TypeOK
  <2>3. \A a \in Apps : Append(toApp[a], message) \in Seq({"ping"} \cup Apps)
    BY <2>2
  <2>4. toApp' \in [Apps -> Seq({"ping"} \cup Apps)]
    BY <2>1, <2>2, <2>3
  <2>5. MipdOK'
    BY <2>1 DEF TypeNumbers, TypeOK, MipdOK, connections, Histories
  <2>6. QueuesOK'
    BY <2>1, <2>4 DEF TypeNumbers, TypeOK, QueuesOK, Places
  <2>7. mipd' \notin Apps
    BY <2>1, SessionAssumption
  <2>8. NumbersInv'
    BY <2>1, <2>7 DEF TypeNumbers, NumbersInv, connections
  <2> QED BY <2>5, <2>6, <2>8 DEF TypeNumbers, TypeOK, MipdOK, QueuesOK, Places
<1> QED BY <1>1, <1>2

\* A step of mipd keeps the types and the numbers.
LEMMA MipdNumbers ==
    ASSUME TypeNumbers, MipdStep
    PROVE  TypeNumbers'
<1>0. /\ foreign \in 0 .. MaxForeign /\ MaxForeign \in Nat
  BY SessionAssumption DEF TypeNumbers, TypeOK
<1>1. CASE Accept
  BY <1>1, AcceptNumbers
<1>2. CASE ClosePong
  <2>1. PICK a \in Apps : CloseApp(a)
    BY <1>2 DEF ClosePong, Holder
  <2> QED BY <1>2, <2>1, CloseNumbers DEF ClosePong
<1>3. CASE ForeignPing
  <2>1. Histories
    BY <1>0, <1>3 DEF ForeignPing, Histories
  <2> QED BY <1>3, <2>1, WriteNumbers DEF ForeignPing
<1>4. ASSUME NEW a \in Apps, ReadIdentifier(a) \/ TakePing(a)
      PROVE  TypeNumbers'
  BY <1>4, IdentifierNumbers, TakePingNumbers
<1>5. ASSUME NEW a \in Apps, TakeJunk(a) \/ EndOfFile(a)
      PROVE  TypeNumbers'
  <2>1. Exit /\ Histories
    BY <1>0, <1>5 DEF TakeJunk, EndOfFile, Histories
  <2> QED BY <2>1, ExitNumbers
<1>6. ASSUME NEW a \in Apps, Pong(a)
      PROVE  TypeNumbers'
  <2>1. Histories
    BY <1>0, <1>6 DEF Pong, Histories
  <2> QED BY <1>6, <2>1, WriteNumbers DEF Pong
<1> QED BY <1>1, <1>2, <1>3, <1>4, <1>5, <1>6 DEF MipdStep

(***************************************************************************)
(* Who is served, and who gets which pong.                                 *)
(***************************************************************************)

ServedAnswered == TypeNumbers /\ ServedInv /\ AnswerInv

\* What an application has not read yet is for it.
LEMMA TailOwn ==
    ASSUME TypeOK, PongsAreOwn, NEW a \in Apps, toApp[a] # <<>>
    PROVE  \A i \in 1 .. Len(Tail(toApp[a])) : Tail(toApp[a])[i] \in {"ping", a}
<1>1. toApp[a] \in Seq({"ping"} \cup Apps)
  BY DEF TypeOK
<1>2. /\ Len(toApp[a]) \in Nat /\ Len(Tail(toApp[a])) = Len(toApp[a]) - 1
      /\ \A i \in 1 .. Len(Tail(toApp[a])) : Tail(toApp[a])[i] = toApp[a][i + 1]
  BY <1>1
<1>3. \A i \in 1 .. Len(toApp[a]) : toApp[a][i] \in {"ping", a}
  BY DEF PongsAreOwn
<1> QED BY <1>2, <1>3

\* A program changes only what it reads itself.
LEMMA ProgramServed ==
    ASSUME ServedAnswered, NEW a \in Apps, Program(a)
    PROVE  ServedInv' /\ AnswerInv'
<1>1. TypeOK /\ PongsAreOwn /\ ServedInv /\ AnswerInv
  BY DEF ServedAnswered, TypeNumbers, AnswerInv
<1>2. UNCHANGED Kept
  BY <1>1, ProgramStep
<1>3. ReadsOnly
  BY <1>1, ProgramReads
<1>4. PongsAreOwn'
  <2>1. ASSUME NEW b \in Apps
        PROVE  \A i \in 1 .. Len(toApp'[b]) : toApp'[b][i] \in {"ping", b}
    <3>1. CASE toApp'[b] = toApp[b]
      BY <1>1, <3>1 DEF PongsAreOwn
    <3>2. CASE toApp[b] # <<>> /\ toApp'[b] = Tail(toApp[b])
      BY <1>1, <3>2, TailOwn
    <3> QED BY <1>3, <3>1, <3>2 DEF ReadsOnly
  <2> QED BY <2>1 DEF PongsAreOwn
<1> QED BY <1>1, <1>2, <1>4 DEF ServedInv, AnswerInv, Kept

\* After Exit nobody is served.
LEMMA ExitServed ==
    ASSUME ServedAnswered, Exit, Histories
    PROVE  ServedInv' /\ AnswerInv'
<1>1. ServedInv'
  BY DEF ServedAnswered, ServedInv, Exit
<1>2. AnswerInv'
  BY DEF ServedAnswered, AnswerInv, PongsAreOwn, Exit, Histories
<1> QED BY <1>1, <1>2

\* A pong is written to the program that asked, a ping to any.
LEMMA WriteServed ==
    ASSUME ServedAnswered, NEW message \in {"ping"} \cup Apps, WriteToApp(message),
           Histories, mipd = "loop",
           message # "ping" => message \in asked /\ asked' = asked \ {message}
    PROVE  ServedInv' /\ AnswerInv'
<1> DEFINE alive == {a \in Holder(app_fd) : ~Ended(a)}
<1>1. CASE alive = {}
  BY <1>1, ExitServed DEF WriteToApp
<1>2. CASE alive # {}
  <2>1. /\ toApp' = [a \in Apps |-> IF a \in alive THEN Append(toApp[a], message)
                                                     ELSE toApp[a]]
        /\ mipd' = IF message = "ping" THEN "loop" ELSE "close"
        /\ UNCHANGED <<pc, connections, toMipd, reset, taken>>
    BY <1>2 DEF WriteToApp
  <2>2. \A a \in alive : a \in Apps /\ number[a] = app_fd /\ app_fd # 0
    BY DEF Holder
  <2> HIDE DEF alive
  <2>3. ServedInv'
    BY <2>1 DEF ServedAnswered, ServedInv, connections
  <2>4. \A a \in alive : message \in {"ping", a}
    BY <2>2 DEF ServedAnswered, TypeNumbers, TypeOK, NumbersInv, AnswerInv
  <2>5. ASSUME NEW a \in Apps
        PROVE  \A i \in 1 .. Len(toApp'[a]) : toApp'[a][i] \in {"ping", a}
    <3>1. /\ toApp[a] \in Seq({"ping"} \cup Apps)
          /\ \A i \in 1 .. Len(toApp[a]) : toApp[a][i] \in {"ping", a}
      BY DEF ServedAnswered, TypeNumbers, TypeOK, AnswerInv, PongsAreOwn
    <3>2. CASE a \in alive
      <4>1. toApp'[a] = Append(toApp[a], message) /\ message \in {"ping", a}
        BY <2>1, <2>4, <3>2
      <4> QED BY <3>1, <4>1
    <3>3. CASE a \notin alive
      BY <2>1, <3>1, <3>3
    <3> QED BY <3>2, <3>3
  <2>6. mipd' = "close" => asked' = {}
    <3>1. CASE message = "ping"
      BY <2>1, <3>1
    <3>2. CASE message # "ping"
      BY <3>2 DEF ServedAnswered, ServedInv, AnswerInv
    <3> QED BY <3>1, <3>2
  <2>7. AnswerInv'
    BY <2>1, <2>5, <2>6 DEF ServedAnswered, AnswerInv, PongsAreOwn, Histories, connections
  <2> QED BY <2>3, <2>7
<1> QED BY <1>1, <1>2

\* A step of mipd.
LEMMA MipdServed ==
    ASSUME ServedAnswered, MipdStep
    PROVE  ServedInv' /\ AnswerInv'
<1>0. /\ foreign \in 0 .. MaxForeign /\ MaxForeign \in Nat
      /\ app_fd # 0 /\ "close" \notin Apps /\ "down" \notin Apps
  BY SessionAssumption, NumbersPositive DEF ServedAnswered, TypeNumbers, TypeOK
<1>1. CASE Accept
  <2> DEFINE a == Head(backlog)
  <2>1. a \in Apps /\ number[a] = 0
    <3>1. a = backlog[1] /\ 1 \in 1 .. Len(backlog) /\ a \in Apps
      BY <1>1 DEF ServedAnswered, TypeNumbers, TypeOK, Accept
    <3> QED BY <3>1 DEF ServedAnswered, TypeNumbers, NumbersInv
  <2>2. /\ mipd = "loop" /\ mipd' = a /\ number' = [number EXCEPT ![a] = LowestFree]
        /\ UNCHANGED <<pc, app_fd, watched, queues, network>>
    BY <1>1 DEF Accept
  <2> HIDE DEF a
  <2>3. ServedInv'
    BY <1>0, <2>1, <2>2 DEF ServedAnswered, ServedInv, TypeNumbers, TypeOK, network
  <2>4. AnswerInv'
    BY <1>0, <2>1, <2>2
    DEF ServedAnswered, AnswerInv, PongsAreOwn, TypeNumbers, TypeOK, network, queues
  <2> QED BY <2>3, <2>4
<1>2. CASE ClosePong
  <2>1. PICK a \in Apps : CloseApp(a) /\ number[a] = app_fd
    BY <1>2 DEF ClosePong, Holder
  <2>2. watched' = {}
    BY <2>1 DEF CloseApp, ServedAnswered, TypeNumbers, NumbersInv
  <2>3. /\ mipd = "close" /\ mipd' = "loop"
        /\ UNCHANGED <<pc, backlog, app_fd, toMipd, toApp, network>>
    BY <1>2 DEF ClosePong
  <2>4. ServedInv'
    BY <2>2, <2>3 DEF ServedAnswered, ServedInv, network
  <2>5. AnswerInv'
    BY <2>3 DEF ServedAnswered, AnswerInv, PongsAreOwn, network
  <2> QED BY <2>4, <2>5
<1>3. CASE ForeignPing
  <2>1. Histories /\ WriteToApp("ping") /\ mipd = "loop"
    BY <1>0, <1>3 DEF ForeignPing, Histories
  <2> QED BY <2>1, WriteServed
<1>4. ASSUME NEW a \in Apps, ReadIdentifier(a)
      PROVE  ServedInv' /\ AnswerInv'
  <2>1. /\ mipd = a /\ mipd' = "loop"
        /\ UNCHANGED <<pc, backlog, number, toApp, reset, network>>
        /\ \/ app_fd = -1
           \/ UNCHANGED <<app_fd, watched>>
    BY <1>4 DEF ReadIdentifier
  <2>2. app_fd = -1 => taken = {} /\ asked = {}
    BY DEF ServedAnswered, ServedInv, AnswerInv
  <2>3. ServedInv'
    BY <2>1, <2>2 DEF ServedAnswered, ServedInv, network
  <2>4. AnswerInv'
    BY <1>0, <2>1, <2>2 DEF ServedAnswered, AnswerInv, PongsAreOwn, network
  <2> QED BY <2>3, <2>4
<1>5. ASSUME NEW a \in Apps, TakePing(a)
      PROVE  ServedInv' /\ AnswerInv'
  <2>1. /\ mipd = "loop" /\ number[a] = app_fd /\ app_fd \in watched
        /\ taken' = taken \cup {a} /\ asked' = asked \cup {a}
        /\ UNCHANGED <<mipd, number, app_fd, watched, toApp>>
    BY <1>5 DEF TakePing, Turn, connections
  <2>2. \A c \in taken : c = a
    BY <1>0, <2>1 DEF ServedAnswered, ServedInv, TypeNumbers, TypeOK, NumbersInv
  <2>3. app_fd # -1
    BY <2>1, NumbersPositive DEF ServedAnswered, TypeNumbers, TypeOK
  <2>4. ServedInv'
    BY <2>1, <2>2, <2>3 DEF ServedAnswered, ServedInv
  <2>5. AnswerInv'
    BY <2>1 DEF ServedAnswered, AnswerInv, PongsAreOwn
  <2> QED BY <2>4, <2>5
<1>6. ASSUME NEW a \in Apps, TakeJunk(a) \/ EndOfFile(a)
      PROVE  ServedInv' /\ AnswerInv'
  <2>1. Exit /\ Histories
    BY <1>0, <1>6 DEF TakeJunk, EndOfFile, Histories
  <2> QED BY <2>1, ExitServed
<1>7. ASSUME NEW a \in Apps, Pong(a)
      PROVE  ServedInv' /\ AnswerInv'
  <2>1. /\ Histories /\ WriteToApp(a) /\ mipd = "loop"
        /\ a \in asked /\ asked' = asked \ {a}
    BY <1>0, <1>7 DEF Pong, Histories
  <2> QED BY <2>1, WriteServed
<1> QED BY <1>1, <1>2, <1>3, <1>4, <1>5, <1>6, <1>7 DEF MipdStep

(***************************************************************************)
(* The invariant.                                                          *)
(***************************************************************************)

\* All programs are about to start.
LEMMA SessionInit == Init => SessionInv
<1> SUFFICES ASSUME Init PROVE SessionInv
  OBVIOUS
<1>1. TypeOK
  BY SessionAssumption DEF Init, TypeOK, ended
<1>2. "loop" \notin Apps /\ Server \in Apps
  BY SessionAssumption DEF Apps
<1>3. NumbersInv /\ ServedInv
  BY <1>2 DEF Init, NumbersInv, ServedInv
<1>4. AnswerInv
  BY DEF Init, AnswerInv, PongsAreOwn
<1> QED BY <1>1, <1>3, <1>4 DEF SessionInv

\* SessionInv is inductive.
LEMMA SessionStep == SessionInv /\ [Next]_vars => SessionInv'
<1> SUFFICES ASSUME SessionInv, [Next]_vars PROVE SessionInv'
  OBVIOUS
<1>1. TypeNumbers /\ ServedAnswered
  BY DEF SessionInv, TypeNumbers, ServedAnswered
<1>2. ASSUME NEW a \in Apps, Program(a)
      PROVE  SessionInv'
  <2>1. TypeNumbers' /\ ServedInv' /\ AnswerInv'
    BY <1>1, <1>2, ProgramNumbers, ProgramServed
  <2> QED BY <2>1 DEF SessionInv, TypeNumbers
<1>3. CASE MipdStep
  <2>1. TypeNumbers' /\ ServedInv' /\ AnswerInv'
    BY <1>1, <1>3, MipdNumbers, MipdServed
  <2> QED BY <2>1 DEF SessionInv, TypeNumbers
<1>4. CASE UNCHANGED vars
  BY <1>4 DEF SessionInv, TypeOK, NumbersInv, ServedInv, AnswerInv, PongsAreOwn,
              vars, connections, queues, network
<1> QED BY <1>2, <1>3, <1>4, NextCases

\* SessionInv holds in every state.
LEMMA SessionInvariant == Spec => []SessionInv
  BY SessionInit, SessionStep, PTL DEF Spec

\* The state always has its type.
THEOREM SessionTypeCorrect == Spec => []TypeOK
  BY SessionInvariant, PTL DEF SessionInv

\* A late pong is not given to the next program (mipd.c:240, 248).
THEOREM PongsReachTheirAsker == Spec => []PongsAreOwn
<1>1. SessionInv => PongsAreOwn
  BY DEF SessionInv, AnswerInv
<1> QED BY <1>1, SessionInvariant, PTL

(***************************************************************************)
(* The place.                                                              *)
(***************************************************************************)

\* As the mapping of OnePlace has it.
PlaceOf == IF mipd \in {"close", "down"} \/ app_fd \notin watched THEN "none"
           ELSE CHOOSE a \in Apps : number[a] = app_fd

\* A number that is watched is the place of one program.
LEMMA PlaceHolder ==
    ASSUME SessionInv, mipd \notin {"close", "down"}, app_fd \in watched,
           NEW a \in Apps, number[a] = app_fd
    PROVE  PlaceOf = a
<1>1. app_fd # 0 /\ app_fd # -1
  BY NumbersPositive DEF SessionInv, TypeOK
<1>2. \A b \in Apps : number[b] = app_fd => b = a
  BY <1>1 DEF SessionInv, NumbersInv
<1>3. (CHOOSE b \in Apps : number[b] = app_fd) = a
  BY <1>2
<1> QED BY <1>1, <1>3 DEF PlaceOf

\* The same after a step.
LEMMA PlaceHolderNext ==
    ASSUME SessionInv', mipd' \notin {"close", "down"}, app_fd' \in watched',
           NEW a \in Apps, number'[a] = app_fd'
    PROVE  PlaceOf' = a
<1>1. app_fd' # 0 /\ app_fd' # -1
  BY NumbersPositive DEF SessionInv, TypeOK
<1>2. \A b \in Apps : number'[b] = app_fd' => b = a
  BY <1>1 DEF SessionInv, NumbersInv
<1>3. (CHOOSE b \in Apps : number'[b] = app_fd') = a
  BY <1>2
<1> QED BY <1>1, <1>3 DEF PlaceOf

\* Whoever has a watched number has the place.
LEMMA PlaceHeld ==
    ASSUME SessionInv, app_fd \in watched
    PROVE  \E a \in Apps : number[a] = app_fd
BY DEF SessionInv, TypeOK

\* Neither what programs do nor that mipd accepts or writes a ping moves it.
LEMMA PlaceStays ==
    ASSUME SessionInv, SessionInv', UNCHANGED <<app_fd, watched>>,
           mipd \in {"close", "down"} <=> mipd' \in {"close", "down"},
           \A a \in Apps : app_fd \in watched /\ number[a] = app_fd => number'[a] = app_fd
    PROVE  PlaceOf' = PlaceOf
<1>1. CASE mipd \notin {"close", "down"} /\ app_fd \in watched
  <2>1. PICK a \in Apps : number[a] = app_fd
    BY <1>1, PlaceHeld
  <2>2. PlaceOf = a
    BY <1>1, <2>1, PlaceHolder
  <2>3. PlaceOf' = a
    BY <1>1, <2>1, PlaceHolderNext
  <2> QED BY <2>2, <2>3
<1>2. CASE mipd \in {"close", "down"} \/ app_fd \notin watched
  BY <1>2 DEF PlaceOf
<1> QED BY <1>1, <1>2

\* The place is given up, or was free before.
LEMMA PlaceGivenUp ==
    ASSUME PlaceOf' = "none", taken' = taken
    PROVE  [OnePlace!Next]_OnePlace!vars
<1>1. CASE PlaceOf = "none"
  BY <1>1 DEF PlaceOf, OnePlace!vars
<1>2. CASE PlaceOf # "none"
  BY <1>2 DEF PlaceOf, OnePlace!Next, OnePlace!GiveUp
<1> QED BY <1>1, <1>2

\* No program has the place before the first comes.
LEMMA PlaceInit == Init => OnePlace!Init
BY NumbersPositive DEF Init, OnePlace!Init

\* Every step takes the place, serves who has it, gives it up or leaves it.
LEMMA PlaceStep == SessionInv /\ SessionInv' /\ [Next]_vars => [OnePlace!Next]_OnePlace!vars
<1> SUFFICES ASSUME SessionInv, SessionInv', [Next]_vars
             PROVE  [OnePlace!Next]_OnePlace!vars
  OBVIOUS
<1>0. /\ {"loop", "close", "down"} \cap Apps = {} /\ TypeOK /\ NumbersInv
      /\ app_fd # 0 /\ -1 \notin watched
  BY SessionAssumption, NumbersPositive DEF SessionInv, TypeOK
<1>1. ASSUME PlaceOf' = PlaceOf, taken' = taken
      PROVE  [OnePlace!Next]_OnePlace!vars
  BY <1>1 DEF PlaceOf, OnePlace!vars
<1>2. ASSUME Exit PROVE [OnePlace!Next]_OnePlace!vars
  BY <1>2, PlaceGivenUp DEF Exit, PlaceOf
<1>3. ASSUME NEW a \in Apps, Program(a) PROVE [OnePlace!Next]_OnePlace!vars
  BY <1>0, <1>1, <1>3, ProgramStep, PlaceStays DEF Kept
<1>4. CASE Accept
  <2>1. Head(backlog) \in Apps /\ number[Head(backlog)] = 0
    <3>1. Head(backlog) = backlog[1] /\ 1 \in 1 .. Len(backlog) /\ Head(backlog) \in Apps
      BY <1>0, <1>4 DEF TypeOK, Accept
    <3> QED BY <1>0, <3>1 DEF NumbersInv
  <2>2. /\ number' = [number EXCEPT ![Head(backlog)] = LowestFree] /\ mipd = "loop"
        /\ mipd' = Head(backlog)
        /\ UNCHANGED <<app_fd, watched, taken>>
    BY <1>4 DEF Accept, network
  <2>3. mipd' \notin {"close", "down"}
    BY <1>0, <2>1, <2>2
  <2>4. \A a \in Apps : number[a] = app_fd => number'[a] = app_fd
    BY <1>0, <2>1, <2>2 DEF TypeOK
  <2> QED BY <1>1, <2>2, <2>3, <2>4, PlaceStays
<1>5. CASE ClosePong
  <2>1. PICK a \in Apps : CloseApp(a) /\ number[a] = app_fd
    BY <1>5 DEF ClosePong, Holder
  <2>2. app_fd' = app_fd /\ taken' = taken /\ mipd' = "loop"
    BY <1>5 DEF ClosePong, network
  <2>3. app_fd # -1
    BY <1>0, <2>1, NumbersPositive DEF TypeOK
  <2>4. watched' = watched \ {app_fd}
    BY <2>1 DEF CloseApp
  <2>5. PlaceOf' = "none"
    BY <2>2, <2>3, <2>4 DEF PlaceOf
  <2> QED BY <2>2, <2>5, PlaceGivenUp
<1>6. ASSUME NEW message \in {"ping"} \cup Apps, WriteToApp(message), mipd = "loop"
      PROVE  [OnePlace!Next]_OnePlace!vars
  <2>1. CASE /\ mipd' = IF message = "ping" THEN "loop" ELSE "close"
             /\ UNCHANGED <<connections, taken>>
    <3>1. CASE message = "ping"
      <4>1. mipd' = mipd /\ taken' = taken /\ UNCHANGED <<number, app_fd, watched>>
        BY <1>6, <2>1, <3>1 DEF connections
      <4>2. PlaceOf' = PlaceOf
        BY <4>1, PlaceStays
      <4> QED BY <1>1, <4>1, <4>2
    <3>2. CASE message # "ping"
      <4>1. PlaceOf' = "none"
        BY <2>1, <3>2 DEF PlaceOf
      <4> QED BY <2>1, <4>1, PlaceGivenUp
    <3> QED BY <3>1, <3>2
  <2>2. Exit \/ ( /\ mipd' = IF message = "ping" THEN "loop" ELSE "close"
                 /\ UNCHANGED <<connections, taken>> )
    BY <1>6 DEF WriteToApp
  <2> QED BY <1>2, <2>1, <2>2
<1>7. CASE ForeignPing \/ \E a \in Apps : Pong(a)
  BY <1>6, <1>7 DEF ForeignPing, Pong
<1>8. ASSUME NEW a \in Apps, TakeJunk(a) \/ EndOfFile(a)
      PROVE  [OnePlace!Next]_OnePlace!vars
  BY <1>2, <1>8 DEF TakeJunk, EndOfFile
<1>9. ASSUME NEW a \in Apps, TakePing(a) PROVE [OnePlace!Next]_OnePlace!vars
  <2>1. /\ mipd = "loop" /\ number[a] = app_fd /\ app_fd \in watched
        /\ UNCHANGED <<mipd, number, app_fd, watched>> /\ taken' = taken \cup {a}
    BY <1>9 DEF TakePing, Turn, connections
  <2>2. PlaceOf = a
    BY <2>1, PlaceHolder
  <2>3. PlaceOf' = PlaceOf
    BY <2>1, PlaceStays
  <2> QED BY <2>1, <2>2, <2>3 DEF PlaceOf, OnePlace!Next, OnePlace!Serve
<1>10. ASSUME NEW a \in Apps, ReadIdentifier(a) PROVE [OnePlace!Next]_OnePlace!vars
  <2>1. mipd = a /\ mipd' = "loop" /\ number' = number /\ taken' = taken
    BY <1>10 DEF ReadIdentifier, network
  <2>2. CASE app_fd = -1 /\ app_fd' = number[a] /\ watched' = watched \cup {number[a]}
    <3>1. PlaceOf = "none"
      BY <1>0, <2>1, <2>2 DEF PlaceOf
    <3>2. PlaceOf' = a
      BY <2>1, <2>2, PlaceHolderNext
    <3> QED BY <2>1, <3>1, <3>2 DEF PlaceOf, OnePlace!Next, OnePlace!Take
  <2>3. CASE UNCHANGED <<app_fd, watched>>
    BY <1>0, <1>1, <2>1, <2>3, PlaceStays
  <2> QED BY <1>10, <2>2, <2>3 DEF ReadIdentifier
<1>11. CASE UNCHANGED vars
  BY <1>1, <1>11 DEF vars, connections, network, PlaceOf
<1> QED
  BY <1>3, <1>4, <1>5, <1>7, <1>8, <1>9, <1>10, <1>11, NextCases DEF MipdStep

\* app_fd is one place for all programs that ever connect (mipd.c:137, 248).
THEOREM SessionImplementsPlace == Spec => ImplementsPlace
BY SessionInvariant, PlaceInit, PlaceStep, PTL DEF Spec, ImplementsPlace, OnePlace!Spec
=============================================================================
