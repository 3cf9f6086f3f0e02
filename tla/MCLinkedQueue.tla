---------------------------- MODULE MCLinkedQueue ----------------------------
(* LinkedQueue with interchangeable packets and addresses. *)
EXTENDS LinkedQueue, TLC

Interchangeable == Permutations(Nodes) \cup Permutations(Packets)
=============================================================================
