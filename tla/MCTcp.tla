-------------------------------- MODULE MCTcp --------------------------------
(***************************************************************************)
(* The TCP module with one listening port, one peer and numbers of two     *)
(* bits.                                                                   *)
(***************************************************************************)
EXTENDS TcpProps

\* The passive open of port 1.
MCLocals ==
    {[src |-> MyIPAddr, srcport |-> 1, dest |-> IP_ADDRESS_ANY, destport |-> 0,
      protocol |-> "tcp"]}

\* Segments of a peer come to port 1 and to another.
MCEnds ==
    MCLocals \cup
      {[src |-> MyIPAddr, srcport |-> p, dest |-> "peer", destport |-> 2,
        protocol |-> "tcp"] : p \in {1, 2}}
=============================================================================
