--------------------------- MODULE SockStackProps ---------------------------
(***************************************************************************)
(* What the composition of application, socket module, UDP module and TCP  *)
(* module should do, whatever the order in which the processes run.        *)
(***************************************************************************)
EXTENDS SockStack

----------------------------------------------------------------------------
(* Types *)

\* What each pipe carries.  The application names an open or closed socket in every
\* call but mSOCKET; the connections in the TCP pipes have a transport.
MessageOf(f) ==
    CASE f = "app2sock" ->
           {m \in SockLibRequestResponse :
              IF m.type = "mSOCKET" THEN m.connection.protocol \in Transport
                                    ELSE m.type # "mSTATUS" /\ m.sockfd \in Sock}
      [] f = "sock2app"  -> SockLibRequestResponse
      [] f = "ipmux2udp" -> Datagram
      [] f = "udp2ipmux" -> Outgoing
      [] f \in {"sock2tcp", "tcp2sock"} ->
           {m \in SockRequestResponse : m.connection.protocol \in Transport}
      [] OTHER -> SockRequestResponse

\* What a module writes, and where.
SendTo(f) == [to : {f}, msg : MessageOf(f)]

Sends(m) ==
    IF m = "sock" THEN SendTo("sock2app") \cup SendTo("sock2udp") \cup SendTo("sock2tcp")
                  ELSE SendTo("udp2sock") \cup SendTo("udp2ipmux")

PipesOK ==
    /\ DOMAIN fifo = Fifo
    /\ \A f \in Fifo : fifo[f] \in Seq(MessageOf(f))
    /\ DOMAIN out = {"sock", "udp"}
    /\ \A m \in {"sock", "udp"} : out[m] \in Seq(Sends(m))

\* A record an application owns has a transport, and no input buffer outgrows
\* BIN_SIZE (sock_module.cc:80 and 299).
GoodRecord ==
    {r \in SockRecord :
       /\ r.bin <= BIN_SIZE
       /\ r.toApp => r.connection.protocol \in Transport}

SockTypeOK ==
    /\ socks \in [Sock -> GoodRecord]
    /\ ports \in [Port -> Sock \cup {0}]
    /\ reqq \in [Transport -> Seq(RequestRecord)]
    /\ asked \in [Transport -> Nat]

PeerTypeOK ==
    /\ opening \subseteq Connection /\ listening \subseteq Connection
    /\ established \subseteq Connection
    /\ \A c \in opening \cup listening \cup established : c.protocol \in Transport
    /\ tcpWrites \in Nat

\* Every variable has the type its declaration gives it, and the array accesses of
\* the handlers, which test no index, stay within the tables.
TypeOK ==
    /\ PipesOK
    /\ SockTypeOK
    /\ clist \in Seq(Connection)
    /\ waiting \in BOOLEAN /\ calls \in Nat
    /\ PeerTypeOK
    /\ arrived \in Nat

----------------------------------------------------------------------------
(* What is on its way *)

\* The messages for f among those a module has to write.
SentTo(sends, f) == {e.msg : e \in {e \in ToSet(sends) : e.to = f}}

\* The requests on their way to the transport module p.
Down(p) == {m \in ToSet(fifo[LowerPipe[p]]) \cup SentTo(out["sock"], LowerPipe[p]) :
              m.type # "STATUS"}

\* The answers on their way from it.
Replies(p) == {m \in ToSet(fifo[UpperPipe[p]]) \cup SentTo(out["udp"], UpperPipe[p]) :
                 m.type = "STATUS"}

\* The requests the socket module waits for.
Waits(p) == ToSet(reqq[p])

----------------------------------------------------------------------------
(* Requests and their answers *)

\* A STATUS that reaches the socket module finds a request in the queue, and it is
\* the one it answers: HandleTCPStatus and HandleUDPStatus dereference the head of
\* the queue untested and believe it (sock_module.cc:200 and 344), because a STATUS
\* does not say which request it is for.
StatusFindsRequest ==
    \A p \in Transport :
      LET pipe == fifo[UpperPipe[p]] IN
      (pipe # <<>> /\ Head(pipe).type = "STATUS") =>
         reqq[p] # <<>> /\ Head(reqq[p]).req = Head(pipe).req

\* The number of the STATUS, and of the request, in each message of q: a set of one,
\* or empty for a message of the other kind.
Statuses(q) == [i \in DOMAIN q |-> IF q[i].type = "STATUS" THEN {q[i].req} ELSE {}]
Requests(q) == [i \in DOMAIN q |-> IF q[i].type # "STATUS" THEN {q[i].req} ELSE {}]

\* The same for what a module still has to write to the pipes of p.
StatusesTo(p, sends) ==
    [i \in DOMAIN sends |->
       IF sends[i].to = UpperPipe[p] /\ sends[i].msg.type = "STATUS"
         THEN {sends[i].msg.req} ELSE {}]

RequestsTo(p, sends) ==
    [i \in DOMAIN sends |->
       IF sends[i].to = LowerPipe[p] /\ sends[i].msg.type # "STATUS"
         THEN {sends[i].msg.req} ELSE {}]

\* The numbers in q are l+1, l+2, ... h, in this order.
InTurn(q, l, h) ==
    /\ l <= h
    /\ \A i \in DOMAIN q : \A n \in q[i] : l < n /\ n <= h
    /\ \A i, j \in DOMAIN q : i < j => \A m \in q[i], n \in q[j] : m < n
    /\ \A n \in l + 1 .. h : \E i \in DOMAIN q : n \in q[i]

\* The queue of a transport module holds its last requests, and each of them is in
\* one place, as a request or as the STATUS for it, and in order: the answers on
\* their way up are for the oldest, the requests on their way down are the newest.
\* HandleTCPStatus and HandleUDPStatus rely on it (sock_module.cc:200 and 344).
InOrder(p) ==
    LET oldest == asked[p] - Len(reqq[p]) IN
    /\ Len(reqq[p]) <= asked[p]
    /\ \A i \in DOMAIN reqq[p] : reqq[p][i].req = oldest + i
    /\ \E x, y, z \in 0 .. asked[p] :
         /\ InTurn(Statuses(fifo[UpperPipe[p]]), oldest, x)
         /\ InTurn(StatusesTo(p, out["udp"]), x, y)
         /\ InTurn(Requests(fifo[LowerPipe[p]]), y, z)
         /\ InTurn(RequestsTo(p, out["sock"]), z, asked[p])

RequestsInOrder == \A p \in Transport : InOrder(p)

\* Everything that will yet answer a call of the application, one by one: the call
\* itself while it is in the pipe, an answer on its way, a request whose STATUS
\* answers, a socket whose next WRITE answers.
Answering(p) == IF p = "udp" THEN {"FORWARD", "WRITE"} ELSE {"WRITE"}

Count(seq, P(_)) == Cardinality({i \in DOMAIN seq : P(seq[i])})

Owed ==
    Len(fifo["app2sock"]) + Len(fifo["sock2app"])
    + Count(out["sock"], LAMBDA e : e.to = "sock2app")
    + Count(reqq["udp"], LAMBDA r : r.type \in Answering("udp"))
    + Count(reqq["tcp"], LAMBDA r : r.type \in Answering("tcp"))
    + Cardinality({s \in Sock : socks[s].status \in
                      {"READ_PENDING", "ACCEPT_PENDING", "CONNECT_PENDING"}})

\* No call is answered twice, and no answer reaches an application that is not
\* waiting: the library would take it for the answer to its next call.
NoStrayAnswer == Owed <= IF waiting THEN 1 ELSE 0

\* A waiting application is owed an answer by somebody: its call, an answer, a
\* queued request or a socket's status stands for it (minet_socket.cc:989-1170, a
\* call blocks until its event comes).
NoLostCall == waiting => Owed > 0

\* The application's call can be dropped only while the socket table is full: an
\* accepted connection that finds no free record answers nobody
\* (sock_module.cc:127-152).
CallLostOnlyWhenFull == (waiting /\ Owed = 0) => NoFreeSock

----------------------------------------------------------------------------
(* Ports, connections and forwards *)

\* An accepted connection has its listener's port without having reserved it.
Accepted(s) ==
    LET c == socks[s].connection IN
    c.protocol = "tcp" /\ c.dest # IP_ADDRESS_ANY /\ ports[c.srcport] # s

\* A listener has reserved its port.
Listens(s) ==
    /\ socks[s].status \in {"LISTENING", "ACCEPT_PENDING"}
    /\ ports[socks[s].connection.srcport] = s

\* Two sockets never get the same source port: ResolveSrcPort reserves it, for as
\* long as the process runs.  Only accepted connections share one, with their
\* listener and with each other.
PortsNotShared ==
    \A s, t \in Sock :
      LET port == socks[s].connection.srcport IN
      (s # t /\ port # PORT_ANY /\ port = socks[t].connection.srcport) =>
          /\ Accepted(s) \/ Accepted(t)
          /\ Accepted(s) \/ Listens(s)
          /\ Accepted(t) \/ Listens(t)

\* A connection identifies one socket (docs/sockint.semantics, "Connection
\* Matching"): no two sockets have the same connected connection.
ConnectionsDistinct ==
    \A s, t \in Sock :
      (s # t /\ HasPeer(s)) => socks[s].connection # socks[t].connection

\* The UDP module never forwards for a connection nobody has: a forward is that of
\* a socket, or the request that will remove it is on its way.
NoOrphanForward ==
    \A i \in DOMAIN clist :
      \/ \E s \in Sock : socks[s].connection = clist[i]
      \/ \E m \in Down("udp") : /\ m.type \in {"CLOSE", "FORWARD"}
                               /\ MatchesSource(m.connection, clist[i])

\* One port has at most one forward, so a datagram's receiver does not depend on
\* the order of the list.
OneForwardPerPort ==
    \A i, j \in DOMAIN clist :
      i # j => clist[i].srcport # clist[j].srcport

\* A datagram socket that is bound or connected has its forward, or a request for
\* it is on its way ("Received matching packets will be forwarded to the SOCK
\* module", docs/sockint.semantics).
ForwardKept ==
    \A s \in Sock :
      (/\ socks[s].connection.protocol = "udp"
       /\ socks[s].status \in {"BOUND", "CONNECTED", "READ_PENDING", "WRITE_PENDING"})
      => \/ \E i \in DOMAIN clist : clist[i] = socks[s].connection
         \/ \E m \in Down("udp") : /\ m.type = "FORWARD"
                                  /\ m.connection = socks[s].connection

----------------------------------------------------------------------------
(* Steps *)

\* When the answer to a WRITE, the last message of a step, is EOK, the bytes it reports
\* are in one input buffer or were told to the application.
AckTrue ==
    \A p \in Transport :
      LET sends == out'["sock"]
          ack   == sends[Len(sends)]
          told  == IF Len(sends) = 2 THEN sends[1].msg.data ELSE 0
      IN
      (/\ out["sock"] = <<>> /\ sends # <<>> /\ ack.to = LowerPipe[p]
       /\ ack.msg.type = "STATUS" /\ ack.msg.error = "EOK")
      => \E s \in Sock :
           /\ socks[s].bin + ack.msg.bytes = socks'[s].bin + told
           /\ \A t \in Sock \ {s} : socks'[t].bin = socks[t].bin

\* The socket module never acknowledges data it dropped: when its answer to a
\* WRITE is EOK, the bytes it reports went to one input buffer or to the
\* application, and to no other (sock_module.cc:79-105 and 298-327).
AckedDataKept == [][AckTrue]_vars

\* Two processes writing to each other's full pipe stop for good.
NoStandoff == ~ (BlockedOn("sock", "sock2udp") /\ BlockedOn("udp", "udp2sock"))

----------------------------------------------------------------------------
(* Liveness *)

Reading == \E s \in Sock : socks[s].status = "READ_PENDING"

\* A call on a datagram socket returns, unless it is a read that finds no data.
CallsReturn == waiting ~> (~ waiting \/ Reading)

\* A read that waits returns when a datagram arrives that has a forward of its
\* socket: whatever else is in the pipes, nothing takes the datagram away.
ReadsReturn ==
    (\E s \in Sock, i \in DOMAIN fifo["ipmux2udp"] :
       LET d == fifo["ipmux2udp"][i]
           c == [src |-> MyIPAddr, srcport |-> d.toport, dest |-> d.from,
                 destport |-> d.fromport, protocol |-> "udp"]
       IN /\ socks[s].status = "READ_PENDING"
          /\ Matches(socks[s].connection, c)
          /\ \E j \in DOMAIN clist : clist[j] = socks[s].connection)
    ~> ~ waiting

----------------------------------------------------------------------------
(* The composition implements RequestChannel, for each transport module *)

NumbersIn(S) == {m.req : m \in S}

UdpChannel == INSTANCE RequestChannel WITH
    made    <- asked["udp"],
    pending <- NumbersIn(Waits("udp")),
    todo    <- NumbersIn(Down("udp")),
    done    <- NumbersIn(Replies("udp"))

\* The UDP module answers each request of the socket module once and in order, and
\* the socket module applies the answers to the right requests.
UdpKeepsOrder == UdpChannel!Spec

\* It answers all of them.
UdpAnswersAll == UdpChannel!FairSpec
=============================================================================
