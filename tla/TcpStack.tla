------------------------------ MODULE TcpStack ------------------------------
(***************************************************************************)
(* The TCP module of the repository with its neighbours: ip_mux below and  *)
(* the socket module above, each writing to it and reading from it at any  *)
(* time.                                                                   *)
(***************************************************************************)
EXTENDS TcpModule

CONSTANTS
    Locals,        \* the connections requests name
    MAX_REQUESTS   \* bound: how many requests the socket module makes

ASSUME RequestAssumption == Locals \subseteq Ends /\ MAX_REQUESTS \in Nat

VARIABLE asked   \* how many requests it has made

vars == <<fifo, out, clist, lookup, tcpUp, asked>>

TcpFifo == {"ipmux2tcp", "tcp2ipmux", "sock2tcp", "tcp2sock"}

Init ==
    /\ TcpInit
    /\ fifo = [f \in TcpFifo |-> <<>>]
    /\ out = [m \in {"tcp"} |-> <<>>]
    /\ asked = 0

Writes(f, msg) ==
    /\ Len(fifo[f]) < PIPE_CAP
    /\ fifo' = [fifo EXCEPT ![f] = Append(@, msg)]

\* ip_mux passes a segment up.  What is read of it is chosen when it is read.
MuxWrites ==
    /\ Writes("ipmux2tcp", "segment")
    /\ UNCHANGED <<out, tcpVars, asked>>

SockAsks ==
    /\ asked < MAX_REQUESTS
    /\ asked' = asked + 1
    /\ \E type \in srrType, c \in Locals :
         Writes("sock2tcp", [type |-> type, connection |-> c])
    /\ UNCHANGED <<out, tcpVars>>

\* ip_mux and the socket module read what the TCP module sends.
NeighbourReads ==
    \E f \in {"tcp2ipmux", "tcp2sock"} :
      /\ fifo[f] # <<>>
      /\ fifo' = [fifo EXCEPT ![f] = Tail(@)]
      /\ UNCHANGED <<out, tcpVars, asked>>

TcpSteps == TcpNext /\ UNCHANGED asked

Next == TcpSteps \/ MuxWrites \/ SockAsks \/ NeighbourReads

Spec == Init /\ [][Next]_vars
=============================================================================
