----------------------------- MODULE LossyFifo -----------------------------
(***************************************************************************)
(* A channel that may lose a packet but neither reorders nor repeats any.  *)
(* Packets are numbered 1, 2, ... as they enter.                           *)
(***************************************************************************)
EXTENDS Naturals

VARIABLES
    offered,  \* how many packets have entered
    inside,   \* the numbers of those inside
    left      \* the numbers of those that have left

Init == offered = 0 /\ inside = {} /\ left = {}

Offer ==
    /\ offered' = offered + 1
    /\ inside' = inside \cup {offered + 1}
    /\ UNCHANGED left

\* The oldest one leaves, and it is in one place only.
Leave ==
    \E n \in inside :
      /\ \A m \in inside : n <= m
      /\ inside' = inside \ {n}
      /\ left' = left \cup {n}
      /\ UNCHANGED offered

Lose ==
    \E n \in inside : inside' = inside \ {n} /\ UNCHANGED <<offered, left>>

Next == Offer \/ Leave \/ Lose

Spec == Init /\ [][Next]_<<offered, inside, left>>
=============================================================================
