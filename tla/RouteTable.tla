----------------------------- MODULE RouteTable -----------------------------
(***************************************************************************)
(* What the routing table promises to those that read it: hop and dist of  *)
(* an entry are stored one at a time and may belong to different routes,   *)
(* but an entry stays as it is until it is first given up, from then on    *)
(* its next hop is a node that spoke, and its distance grows only where a  *)
(* route is given up or a neighbour greets.  There are no threads here.    *)
(***************************************************************************)
EXTENDS Integers

CONSTANTS Node, Peers, Infinity

VARIABLES hop, dist, spoke, dropped

vars == <<hop, dist, spoke, dropped>>

Init ==
    /\ hop = [d \in Node |-> 0] /\ dist = [d \in Node |-> 0]
    /\ spoke = {} /\ dropped = {}

\* A Hello or an update is read; its sender may become a next hop.
Hear(p) == spoke' = spoke \cup {p} /\ UNCHANGED <<hop, dist, dropped>>

\* The two stores of the timeout check.
GiveUp(d) ==
    /\ hop' = [hop EXCEPT ![d] = -1] /\ dropped' = dropped \cup {d}
    /\ UNCHANGED <<dist, spoke>>

Withdraw(d) ==
    /\ d \in dropped
    /\ dist' = [dist EXCEPT ![d] = Infinity]
    /\ UNCHANGED <<hop, spoke, dropped>>

\* The stores of an update or of a Hello.
Adopt(d, p) ==
    /\ d \in dropped /\ p \in spoke
    /\ hop' = [hop EXCEPT ![d] = p]
    /\ UNCHANGED <<dist, spoke, dropped>>

Shorten(d) ==
    /\ d \in dropped
    /\ \E x \in 1 .. dist[d] - 1 : dist' = [dist EXCEPT ![d] = x]
    /\ UNCHANGED <<hop, spoke, dropped>>

Greet(d) ==
    /\ d \in dropped \cap spoke
    /\ dist' = [dist EXCEPT ![d] = 1]
    /\ UNCHANGED <<hop, spoke, dropped>>

Next ==
    \/ \E p \in Peers : Hear(p)
    \/ \E d \in Node : \/ GiveUp(d) \/ Withdraw(d) \/ Shorten(d) \/ Greet(d)
                       \/ \E p \in Peers : Adopt(d, p)

Spec == Init /\ [][Next]_vars
=============================================================================
