----------------------------- MODULE SockStack -----------------------------
(***************************************************************************)
(* The upper half of the stack: an application on the socket library, the  *)
(* socket module, the UDP module with the network below it, and a TCP      *)
(* module, each a process, joined by pipes.                                *)
(***************************************************************************)
EXTENDS SockModule, UdpModule, SockLib, TcpPeer

CONSTANT MAX_DATAGRAMS   \* bound: how many datagrams arrive from the network

ASSUME NetAssumption == MAX_DATAGRAMS \in Nat

VARIABLE arrived   \* how many have arrived

vars == <<fifo, out, socks, ports, reqq, asked, clist, waiting, calls,
          opening, listening, established, tcpWrites, arrived>>

Fifo == {"app2sock", "sock2app", "sock2udp", "udp2sock", "sock2tcp", "tcp2sock",
         "ipmux2udp", "udp2ipmux"}

Init ==
    /\ fifo = [f \in Fifo |-> <<>>]
    /\ out  = [m \in {"sock", "udp"} |-> <<>>]
    /\ SockInit /\ UdpInit /\ LibInit /\ PeerInit
    /\ arrived = 0

----------------------------------------------------------------------------
(* ip_mux and the network, as the UDP module sees them *)

NetDelivers ==
    /\ arrived < MAX_DATAGRAMS
    /\ Len(fifo["ipmux2udp"]) < PIPE_CAP
    /\ \E ip \in Remotes, port \in RemotePorts, to \in Port \ {PORT_ANY},
          len \in DataSizes :
         fifo' = [fifo EXCEPT !["ipmux2udp"] =
                    Append(@, [from |-> ip, fromport |-> port, toport |-> to,
                               data |-> len])]
    /\ arrived' = arrived + 1
    /\ UNCHANGED out

NetTakes ==
    /\ fifo["udp2ipmux"] # <<>>
    /\ fifo' = [fifo EXCEPT !["udp2ipmux"] = Tail(@)]
    /\ UNCHANGED <<arrived, out>>

----------------------------------------------------------------------------
App ==
    /\ LibCall \/ LibReturn
    /\ UNCHANGED <<sockVars, clist, peerVars, arrived>>

SockProcess ==
    /\ SockNext \/ (Send("sock") /\ UNCHANGED sockVars)
    /\ UNCHANGED <<clist, libVars, peerVars, arrived>>

UdpProcess ==
    /\ UdpNext \/ (Send("udp") /\ UNCHANGED clist)
    /\ UNCHANGED <<sockVars, libVars, peerVars, arrived>>

TcpProcess == PeerNext /\ UNCHANGED <<sockVars, clist, libVars, arrived>>

Network ==
    /\ NetDelivers \/ NetTakes
    /\ UNCHANGED <<sockVars, clist, libVars, peerVars>>

Next == App \/ SockProcess \/ UdpProcess \/ TcpProcess \/ Network

Spec == Init /\ [][Next]_vars

\* The module processes run for ever and ip_mux reads its pipe; an application
\* in a call does nothing but wait for the answer.  Nothing makes the application
\* call, a datagram arrive or a remote host connect.
Fairness ==
    /\ WF_vars(SockProcess)
    /\ WF_vars(UdpProcess)
    /\ WF_vars(LibReturn /\ UNCHANGED <<sockVars, clist, peerVars, arrived>>)
    /\ WF_vars(PeerAnswers /\ UNCHANGED <<sockVars, clist, libVars, arrived>>)
    /\ WF_vars(PeerIgnoresStatus /\ UNCHANGED <<sockVars, clist, libVars, arrived>>)
    /\ WF_vars(NetTakes /\ UNCHANGED <<sockVars, clist, libVars, peerVars>>)

FairSpec == Spec /\ Fairness
=============================================================================
