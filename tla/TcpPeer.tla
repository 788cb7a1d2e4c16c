------------------------------ MODULE TcpPeer ------------------------------
(***************************************************************************)
(* The environment the socket module sees below its TCP handle: some TCP   *)
(* module together with the hosts it talks to.  The repository leaves the  *)
(* TCP module to be written (src/core/tcp_module.cc is one attempt at it), *)
(* so this is no translation of it but the most general module the code of *)
(* sock_module.cc is written for: it answers every request by one STATUS,  *)
(* in order, with any outcome, and reports connections and data in WRITEs. *)
(***************************************************************************)
EXTENDS Minet, SockInt

CONSTANTS
    TcpData,         \* the sizes of the data it reports
    PeerPorts,       \* the ports remote hosts connect from
    MAX_TCP_WRITES   \* bound: how many WRITEs it sends

ASSUME PeerAssumption ==
    /\ TcpData \subseteq Nat
    /\ PeerPorts \subseteq Port \ {PORT_ANY}
    /\ MAX_TCP_WRITES \in Nat

VARIABLES
    opening,       \* the connections of unfinished active opens
    listening,     \* the local ends of passive opens
    established,   \* the connections that carry data
    tcpWrites      \* how many WRITEs it has sent

peerVars == <<opening, listening, established, tcpWrites>>

PeerInit ==
    /\ opening = {} /\ listening = {} /\ established = {}
    /\ tcpWrites = 0

PeerRequest == Head(fifo["sock2tcp"])

\* A request is accepted or refused, and answered.  An ACCEPT for a local end that
\* is already listening is not refused.
PeerAnswers ==
    LET r == PeerRequest
        c == r.connection
    IN
    /\ fifo["sock2tcp"] # <<>> /\ r.type # "STATUS"
    /\ Len(fifo["tcp2sock"]) < PIPE_CAP
    /\ \E err \in {"EOK", "ECONN_FAILED"} :
         /\ (r.type = "ACCEPT" /\ c \in listening) => err = "EOK"
         /\ opening' = IF r.type = "CONNECT" /\ err = "EOK" THEN opening \cup {c}
                                                            ELSE opening \ {c}
         /\ listening' = CASE r.type = "ACCEPT" /\ err = "EOK" -> listening \cup {c}
                           [] r.type = "CLOSE" -> listening \ {c}
                           [] OTHER -> listening
         /\ established' = IF r.type = "CLOSE" THEN established \ {c} ELSE established
         /\ fifo' = [fifo EXCEPT !["sock2tcp"] = Tail(@),
                       !["tcp2sock"] = Append(@,
                          [type |-> "STATUS", connection |-> c, data |-> 0,
                           bytes |-> r.data, error |-> err, req |-> r.req])]
    /\ UNCHANGED <<tcpWrites, out>>

\* The socket module's STATUS for a WRITE.
PeerIgnoresStatus ==
    /\ fifo["sock2tcp"] # <<>> /\ PeerRequest.type = "STATUS"
    /\ fifo' = [fifo EXCEPT !["sock2tcp"] = Tail(@)]
    /\ UNCHANGED <<peerVars, out>>

PeerSends(c, data, err) ==
    /\ tcpWrites < MAX_TCP_WRITES
    /\ Len(fifo["tcp2sock"]) < PIPE_CAP
    /\ tcpWrites' = tcpWrites + 1
    /\ fifo' = [fifo EXCEPT !["tcp2sock"] = Append(@,
                  [type |-> "WRITE", connection |-> c, data |-> data,
                   bytes |-> data, error |-> err, req |-> 0])]
    /\ UNCHANGED out

\* An active open ends, well or badly.
PeerFinishesOpen ==
    \E c \in opening, err \in {"EOK", "ECONN_FAILED"} :
      /\ PeerSends(c, 0, err)
      /\ opening' = opening \ {c}
      /\ established' = IF err = "EOK" THEN established \cup {c} ELSE established
      /\ UNCHANGED listening

\* A remote host connects, or a passive open fails.
PeerAccepts ==
    \E l \in listening, ip \in Remotes, port \in PeerPorts, err \in {"EOK", "ECONN_FAILED"} :
      LET c == [l EXCEPT !.dest = ip, !.destport = port] IN
      /\ c \notin established
      /\ PeerSends(c, 0, err)
      /\ established' = IF err = "EOK" THEN established \cup {c} ELSE established
      /\ UNCHANGED <<opening, listening>>

\* Data arrives.
PeerReceives ==
    \E c \in established, data \in TcpData :
      PeerSends(c, data, "EOK") /\ UNCHANGED <<opening, listening, established>>

PeerNext ==
    \/ PeerAnswers \/ PeerIgnoresStatus
    \/ PeerFinishesOpen \/ PeerAccepts \/ PeerReceives
=============================================================================
