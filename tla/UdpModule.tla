----------------------------- MODULE UdpModule -----------------------------
(***************************************************************************)
(* The UDP module, src/core/udp_module.cc: it keeps the list of forwards   *)
(* the socket module asked for, passes matching datagrams up and answers   *)
(* every request of the socket module with one STATUS.                     *)
(***************************************************************************)
EXTENDS Minet, SockInt, SequencesExt

CONSTANT UDP_MAX_DATA   \* udp.h: the most data one datagram carries

ASSUME UdpAssumption == UDP_MAX_DATA \in Nat /\ UDP_MAX_DATA > 0

VARIABLE clist   \* the connections of the ConnectionList, in order

\* Fault: the socket module's requests come first.
UdpHandlesSockFirst == <<"sock2udp", "ipmux2udp">>

\* MinetConnect(MINET_IP_MUX) comes before MinetAccept(MINET_SOCK_MODULE).
UdpHandles == <<"ipmux2udp", "sock2udp">>

\* A datagram on its way up, by the fields the module reads from its headers.
Datagram == [from : IPAddress, fromport : Port, toport : Port, data : Nat]

\* What goes down to ip_mux: a UDP packet or an ICMP error about a datagram.
Outgoing == [kind : {"udp", "icmp"}, connection : Connection, data : Nat]

UdpInit == clist = <<>>

ToSock(m) == [to |-> "udp2sock", msg |-> m]
ToMux(m)  == [to |-> "udp2ipmux", msg |-> m]

----------------------------------------------------------------------------
(* Datagrams from the network *)

\* The connection of the datagram at the head of the pipe, seen from this host.
Arrival ==
    LET d == Head(fifo["ipmux2udp"]) IN
      [src |-> MyIPAddr, srcport |-> d.toport, dest |-> d.from,
       destport |-> d.fromport, protocol |-> "udp"]

\* A datagram with a forward goes up under the connection of the forward.
UdpForwards ==
    /\ GetNextEvent("udp", UdpHandles, "ipmux2udp")
    /\ \E i \in DOMAIN clist :
         LET len == Head(fifo["ipmux2udp"]).data IN
         /\ FindMatching(clist, Arrival, i)
         /\ Receive("udp", "ipmux2udp",
              <<ToSock([type |-> "WRITE", connection |-> clist[i], data |-> len,
                        bytes |-> len, error |-> "EOK", req |-> 0])>>)
    /\ UNCHANGED clist

\* Without one it is answered by an ICMP port-unreachable message.
UdpUnreachable ==
    /\ GetNextEvent("udp", UdpHandles, "ipmux2udp")
    /\ NoMatching(clist, Arrival)
    /\ Receive("udp", "ipmux2udp",
         <<ToMux([kind |-> "icmp", connection |-> Arrival,
                  data |-> Head(fifo["ipmux2udp"]).data])>>)
    /\ UNCHANGED clist

----------------------------------------------------------------------------
(* Requests of the socket module *)

SockRequest == Head(fifo["sock2udp"])

UdpAsked(type) ==
    /\ GetNextEvent("udp", UdpHandles, "sock2udp")
    /\ SockRequest.type = type

\* The STATUS of the request at the head of the pipe.
UdpStatus(bytes, err) ==
    ToSock([type |-> "STATUS", connection |-> SockRequest.connection, data |-> 0,
            bytes |-> bytes, error |-> err, req |-> SockRequest.req])

\* The socket module's STATUS for a WRITE needs no answer.
UdpIgnoresStatus ==
    /\ UdpAsked("STATUS")
    /\ Receive("udp", "sock2udp", <<>>)
    /\ UNCHANGED clist

\* One WRITE is one datagram; what exceeds its size is cut off.
UdpWrites ==
    LET bytes == IF SockRequest.data < UDP_MAX_DATA THEN SockRequest.data
                                                    ELSE UDP_MAX_DATA
    IN
    /\ UdpAsked("WRITE")
    /\ Receive("udp", "sock2udp",
         <<ToMux([kind |-> "udp", connection |-> SockRequest.connection,
                  data |-> bytes]),
           UdpStatus(bytes, "EOK")>>)
    /\ UNCHANGED clist

\* Fault: a forward is added to those that match it.
UdpKeepsForwards ==
    /\ UdpAsked("FORWARD")
    /\ clist' = Append(clist, SockRequest.connection)
    /\ Receive("udp", "sock2udp", <<UdpStatus(0, "EOK")>>)

\* Fault: a forward that replaces another one is not answered.
UdpReplacesSilently ==
    LET c == SockRequest.connection IN
    /\ UdpAsked("FORWARD")
    /\ \/ /\ NoMatching(clist, c)
          /\ clist' = Append(clist, c)
          /\ Receive("udp", "sock2udp", <<UdpStatus(0, "EOK")>>)
       \/ \E i \in DOMAIN clist :
            /\ FindMatching(clist, c, i)
            /\ clist' = Append(RemoveAt(clist, i), c)
            /\ Receive("udp", "sock2udp", <<>>)

UdpAddsForward ==
    LET c == SockRequest.connection IN
    /\ UdpAsked("FORWARD")
    /\ IF NoMatching(clist, c)
         THEN clist' = Append(clist, c)
         ELSE \E i \in DOMAIN clist :
                /\ FindMatching(clist, c, i)
                /\ clist' = Append(RemoveAt(clist, i), c)
    /\ Receive("udp", "sock2udp", <<UdpStatus(0, "EOK")>>)

\* Fault: a CLOSE that matches nothing is not answered.
UdpClosesSilently ==
    LET c == SockRequest.connection IN
    /\ UdpAsked("CLOSE")
    /\ \/ /\ NoMatching(clist, c)
          /\ UNCHANGED clist
          /\ Receive("udp", "sock2udp", <<>>)
       \/ \E i \in DOMAIN clist :
            /\ FindMatching(clist, c, i)
            /\ clist' = RemoveAt(clist, i)
            /\ Receive("udp", "sock2udp", <<UdpStatus(0, "EOK")>>)

\* The reply's byte count is never set: it is whatever the memory held.
UdpCloses ==
    LET c == SockRequest.connection IN
    /\ UdpAsked("CLOSE")
    /\ \E bytes \in {0, UDP_MAX_DATA} :
         \/ /\ NoMatching(clist, c)
            /\ UNCHANGED clist
            /\ Receive("udp", "sock2udp", <<UdpStatus(bytes, "ENOMATCH")>>)
         \/ \E i \in DOMAIN clist :
              /\ FindMatching(clist, c, i)
              /\ clist' = RemoveAt(clist, i)
              /\ Receive("udp", "sock2udp", <<UdpStatus(bytes, "EOK")>>)

UdpNext ==
    \/ UdpForwards \/ UdpUnreachable
    \/ UdpIgnoresStatus \/ UdpWrites \/ UdpAddsForward \/ UdpCloses
=============================================================================
