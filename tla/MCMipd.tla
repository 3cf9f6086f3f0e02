------------------------------- MODULE MCMipd -------------------------------
(* Mipd with interchangeable chunks and MAC addresses: see the .cfg files. *)
EXTENDS Mipd, TLC

Interchangeable == Permutations(Chunks) \cup Permutations(Macs)
=============================================================================
