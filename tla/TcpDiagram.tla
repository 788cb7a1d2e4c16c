----------------------------- MODULE TcpDiagram -----------------------------
(***************************************************************************)
(* What a list of TCP connections may do, by the connection state diagram  *)
(* of RFC 793 that the comments of src/core/tcp_module.cc follow page by   *)
(* page: a connection appears in any state and then moves along the edges  *)
(* of the diagram that a segment of the peer can cause, or is reset.       *)
(***************************************************************************)
EXTENDS Naturals, Sequences

CONSTANT States   \* the states a connection may be in

VARIABLE conns    \* the state of each connection

\* A segment of the peer takes a connection from the first state to the second.
\* A FIN with the acknowledgment of our FIN takes FIN_WAIT1 to TIME_WAIT at once.
Edge ==
    {<<"LISTEN", "SYN_RCVD">>, <<"SYN_SENT", "SYN_RCVD">>,
     <<"SYN_SENT", "ESTABLISHED">>, <<"SYN_RCVD", "ESTABLISHED">>,
     <<"SYN_RCVD", "CLOSE_WAIT">>, <<"ESTABLISHED", "CLOSE_WAIT">>,
     <<"FIN_WAIT1", "FIN_WAIT2">>, <<"FIN_WAIT1", "CLOSING">>,
     <<"FIN_WAIT1", "TIME_WAIT">>, <<"FIN_WAIT2", "TIME_WAIT">>,
     <<"CLOSING", "TIME_WAIT">>, <<"LAST_ACK", "CLOSED">>}

\* The states a reset closes.
Resettable == States \ {"CLOSED", "LISTEN", "unknown"}

Init == conns = <<>>

Opens == \E st \in States : conns' = Append(conns, st)

Moves ==
    \E i \in DOMAIN conns, st \in States :
      /\ <<conns[i], st>> \in Edge
      /\ conns' = [conns EXCEPT ![i] = st]

IsReset ==
    \E i \in DOMAIN conns :
      /\ conns[i] \in Resettable
      /\ conns' = [conns EXCEPT ![i] = "CLOSED"]

Next == Opens \/ Moves \/ IsReset

Spec == Init /\ [][Next]_conns
=============================================================================
