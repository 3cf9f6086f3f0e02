---------------------------- MODULE ForwardQueue ----------------------------
(***************************************************************************)
(* What enqueue_forward and dequeue_forward promise their callers          *)
(* (pdu.c:400-444): a FIFO queue.  An enqueue may fail for lack of memory, *)
(* and a failed one changes nothing.  returned is the result of the last   *)
(* call: "ok" is 0, "failed" -1, "null" NULL.                              *)
(***************************************************************************)
EXTENDS Sequences

CONSTANT Packets

VARIABLES queue, returned

vars == <<queue, returned>>

Init == queue = <<>> /\ returned = "ok"

Enqueue(packet) == queue' = Append(queue, packet) /\ returned' = "ok"

EnqueueFails == returned' = "failed" /\ UNCHANGED queue

Dequeue ==
    /\ queue # <<>>
    /\ returned' = Head(queue)
    /\ queue' = Tail(queue)

DequeueEmpty == queue = <<>> /\ returned' = "null" /\ UNCHANGED queue

Next ==
    \/ \E packet \in Packets : Enqueue(packet)
    \/ EnqueueFails \/ Dequeue \/ DequeueEmpty

Spec == Init /\ [][Next]_vars
=============================================================================
