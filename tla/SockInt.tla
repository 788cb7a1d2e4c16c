------------------------------ MODULE SockInt ------------------------------
(***************************************************************************)
(* The data exchanged between the socket module, the transport modules and *)
(* the socket library: src/libminet/sockint.h and sockint.cc, with the     *)
(* list search of src/libminet/constate.h.  A Buffer is modelled by its    *)
(* size, an address by a constant.                                         *)
(***************************************************************************)
EXTENDS Naturals, Sequences

CONSTANTS
    IP_ADDRESS_ANY,  \* the wildcard address 0.0.0.0 (ip.h)
    MyIPAddr,        \* the address of this host (ip.h, set from MINET_IPADDR)
    Remotes,         \* addresses of other hosts
    NUM_PORTS,       \* sock.h: ports are 0 .. NUM_PORTS-1, port 0 is the wildcard
    NUM_SOCKS        \* sock.h: usable sockets are 1 .. NUM_SOCKS-1

ASSUME AddressAssumption ==
    /\ IP_ADDRESS_ANY # MyIPAddr
    /\ IP_ADDRESS_ANY \notin Remotes
    /\ MyIPAddr \notin Remotes

ASSUME SizeAssumption ==
    /\ NUM_PORTS \in Nat /\ NUM_PORTS > 1
    /\ NUM_SOCKS \in Nat /\ NUM_SOCKS > 1

PORT_ANY == 0

IPAddress == {IP_ADDRESS_ANY, MyIPAddr} \cup Remotes
Port      == 0 .. NUM_PORTS - 1
Sock      == 1 .. NUM_SOCKS - 1
Transport == {"tcp", "udp"}

----------------------------------------------------------------------------
(* Connections *)

Connection ==
    [src : IPAddress, dest : IPAddress, srcport : Port, destport : Port,
     protocol : Transport \cup {"none"}]

\* The default constructor: every field zero.
NoConnection ==
    [src |-> IP_ADDRESS_ANY, dest |-> IP_ADDRESS_ANY,
     srcport |-> PORT_ANY, destport |-> PORT_ANY, protocol |-> "none"]

AddressMatches(a, b) == IP_ADDRESS_ANY \in {a, b} \/ a = b
PortMatches(p, q)    == PORT_ANY \in {p, q} \/ p = q

MatchesSource(c, d) ==
    AddressMatches(c.src, d.src) /\ PortMatches(c.srcport, d.srcport)

MatchesDest(c, d) ==
    AddressMatches(c.dest, d.dest) /\ PortMatches(c.destport, d.destport)

\* Connection::Matches: equality up to wildcards on either side.
Matches(c, d) ==
    MatchesSource(c, d) /\ MatchesDest(c, d) /\ c.protocol = d.protocol

\* ConnectionList::FindMatching returns the i-th mapping of list.
FindMatching(list, c, i) ==
    /\ Matches(list[i], c)
    /\ \A j \in 1 .. i - 1 : ~ Matches(list[j], c)

\* ConnectionList::FindMatching returns end().
NoMatching(list, c) == \A i \in DOMAIN list : ~ Matches(list[i], c)

----------------------------------------------------------------------------
(* Messages *)

srrType == {"CONNECT", "ACCEPT", "WRITE", "FORWARD", "CLOSE", "STATUS"}

\* The library calls of minet_socket.cc that this module answers without doing
\* anything (default case of ProcessAppRequest) are represented by "mOTHER".
slrrType == {"mSOCKET", "mBIND", "mLISTEN", "mACCEPT", "mCONNECT", "mREAD",
             "mWRITE", "mCLOSE", "mOTHER", "mSTATUS"}

Error == {"EOK", "ENOMATCH", "EBUF_SPACE", "ERESOURCE_UNAVAIL", "EINVALID_OP",
          "ENOT_SUPPORTED", "ECONN_FAILED"}

\* SockRequestResponse.  data is the size of the buffer.  req is auxiliary: the
\* number of the request, or of the request a STATUS answers; the code has no
\* such field (docs/sockint.semantics, "Request/Response Ordering") and no
\* guard reads it.  It is 0 where it means nothing.
SockRequestResponse ==
    [type : srrType, connection : Connection, data : Nat, bytes : Nat,
     error : Error, req : Nat]

\* SockLibRequestResponse, without the fd_sets of select and poll, which the
\* socket module never reads.
SockLibRequestResponse ==
    [type : slrrType, connection : Connection, sockfd : Sock \cup {0},
     data : Nat, bytes : Nat, error : Error]
=============================================================================
