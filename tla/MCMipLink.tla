----------------------------- MODULE MCMipLink -----------------------------
(* MipLink on the instances of its .cfg files: the stack is all zeros, all *)
(* 'L', or overwritten in its tail, in the middle or in one byte only.     *)
EXTENDS MipLink, TLC

FewScribbles ==
    {[o \in 0 .. Size - 1 |-> 0], [o \in 0 .. Size - 1 |-> 76],
     [o \in 6 .. Size - 1 |-> 76], [o \in 4 .. 6 |-> 80], [o \in {7} |-> 0]}
=============================================================================
