---------------------------- MODULE SockForwards ----------------------------
(***************************************************************************)
(* The inductive invariant of the UDP module's forwards: whose a forward   *)
(* is, and what a request on its way says of the forwards there are.       *)
(***************************************************************************)
EXTENDS SockCalls

Forwards == ToSet(clist)

\* A forward is that of a datagram connection, and its port is taken.
ForwardOK(x) ==
    /\ x.src = MyIPAddr /\ x.protocol = "udp"
    /\ x.srcport # PORT_ANY /\ ports[x.srcport] # 0

\* A forward has a socket, or the request that replaces or removes it is on its way.
Held(x) ==
    \/ \E s \in Sock : socks[s].connection = x
    \/ \E m \in Down("udp") :
         \/ m.type = "FORWARD" /\ m.connection.srcport = x.srcport
         \/ m.type = "CLOSE" /\ m.connection = x

\* A datagram socket gets its remote end when it is connected; from its port on it
\* waits for its forward until it is bound or connected.
HasPort(s) == socks[s].connection.protocol = "udp" /\ socks[s].connection.srcport # PORT_ANY

DatagramOK(s) ==
    LET c == socks[s].connection IN
    /\ c.protocol = "udp" /\ socks[s].status \in {"UNBOUND", "BOUND"} => c = RemoteOpen(c)
    /\ HasPort(s) =>
         /\ c.src = MyIPAddr
         /\ c = RemoteOpen(c) \/ HasPeer(s)
         /\ socks[s].status = "UNBOUND" =>
              \E r \in Waits("udp") : r.type = "FORWARD" /\ r.sock = s

\* A FORWARD is the last request made, and replaces the only forward of its port; a
\* CLOSE is for a port no socket has.
DownOK(m) ==
    LET c == m.connection IN
    /\ c.protocol = "udp"
    /\ c.srcport # PORT_ANY => ports[c.srcport] # 0
    /\ m.type = "FORWARD" =>
         /\ m.req = asked["udp"] /\ c.src = MyIPAddr /\ c.srcport # PORT_ANY
         /\ \A x \in Forwards : x.srcport = c.srcport => x = RemoteOpen(c)
    /\ m.type = "CLOSE" /\ c.srcport # PORT_ANY =>
         \A s \in Sock : socks[s].connection.srcport # c.srcport

\* The record of a request says what it is.
SameRequest(m, r) ==
    r.req = m.req => /\ r.type = m.type
                     /\ r.type = "FORWARD" => socks[r.sock].connection = m.connection

\* Only a CLOSE is refused.
RefusesClose(a, r) == (r.req = a.req /\ a.error # "EOK") => r.type = "CLOSE"

ForwardInv ==
    /\ OneForwardPerPort
    /\ \A x \in Forwards : ForwardOK(x) /\ Held(x)
    /\ \A s \in Sock : DatagramOK(s)
    /\ \A m \in Down("udp") : DownOK(m)
    /\ \A m \in Down("udp"), r \in Waits("udp") : SameRequest(m, r)
    /\ \A a \in Replies("udp"), r \in Waits("udp") : RefusesClose(a, r)
=============================================================================
