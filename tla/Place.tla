-------------------------------- MODULE Place --------------------------------
(***************************************************************************)
(* What app_fd is to the programs of a node (mipd.c:137, 248): one place.  *)
(* Who has it is served; nobody takes it from another.                     *)
(***************************************************************************)
CONSTANT Apps   \* "none" is no program

VARIABLES place, served

vars == <<place, served>>

Init == place = "none" /\ served = {}

Take(a) == place = "none" /\ place' = a /\ UNCHANGED served

Serve == place \in Apps /\ served' = served \cup {place} /\ UNCHANGED place

\* After a pong, or at the end of mipd.
GiveUp == place # "none" /\ place' = "none" /\ UNCHANGED served

Next == (\E a \in Apps : Take(a)) \/ Serve \/ GiveUp

Spec == Init /\ [][Next]_vars
=============================================================================
