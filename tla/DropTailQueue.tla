--------------------------- MODULE DropTailQueue ---------------------------
(***************************************************************************)
(* What the device driver promises of each of its two packet queues: first *)
(* in, first out, at most Capacity packets, and a packet is lost only when *)
(* it comes to a full queue.  Packets are known by their arrival number.   *)
(***************************************************************************)
EXTENDS Naturals, Sequences

CONSTANT Capacity

VARIABLES
    queue,    \* the packets that wait
    offered   \* the number of the last packet that came

Init == queue = <<>> /\ offered = 0

Keep ==
    /\ Len(queue) < Capacity
    /\ queue' = Append(queue, offered + 1)
    /\ offered' = offered + 1

Lose ==
    /\ Len(queue) = Capacity
    /\ offered' = offered + 1
    /\ UNCHANGED queue

Get ==
    /\ queue # <<>>
    /\ queue' = Tail(queue)
    /\ UNCHANGED offered

Next == Keep \/ Lose \/ Get

Spec == Init /\ [][Next]_<<queue, offered>>
=============================================================================
