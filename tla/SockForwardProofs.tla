-------------------------- MODULE SockForwardProofs --------------------------
(***************************************************************************)
(* Whose the forwards of the UDP module are, for every value of the        *)
(* constants.  The inductive invariant is ForwardInv of SockForwards.      *)
(***************************************************************************)
EXTENDS SockForwards, SockCallProofs

----------------------------------------------------------------------------
(* What the steps that ask nothing of the UDP module keep *)

\* What a step may do to socket s: a datagram socket keeps its connection, and a
\* port comes from the free ones or from another socket.
KeptBy(s) ==
    LET c == socks[s].connection
        d == socks'[s].connection
    IN
    /\ HasPort(s) => d = c
    /\ d.protocol = "udp" /\ socks'[s].status \in {"UNBOUND", "BOUND"} => d = RemoteOpen(d)
    /\ HasPort(s)' =>
         /\ HasPort(s)
         /\ socks'[s].status = "UNBOUND" =>
              \E r \in Waits("udp")' : r.type = "FORWARD" /\ r.sock = s
    /\ d.srcport # PORT_ANY => \/ ports[d.srcport] = 0
                               \/ \E t \in Sock : socks[t].connection.srcport = d.srcport

PortsKept == \A port \in Port : ports[port] # 0 => ports'[port] # 0

LEMMA ForwardIsTyped ==
    ASSUME clist \in Seq(Connection)
    PROVE  \A x \in Forwards : x \in Connection /\ x.srcport \in Port
<1>1. \A x \in Forwards : x \in Connection
  BY ToSetIn DEF Forwards
<1> QED BY <1>1 DEF Connection

LEMMA DownPort ==
    ASSUME PipesOK, NEW p \in Transport
    PROVE  \A m \in Down(p) : m.connection \in Connection /\ m.connection.srcport \in Port
  BY DownIs DEF SockRequestResponse, Connection

LEMMA ForwardsKept ==
    ASSUME PipesOK, SockTypeOK, clist \in Seq(Connection), ForwardInv, clist' = clist,
           Down("udp")' = Down("udp"), Waits("udp")' \subseteq Waits("udp"),
           Replies("udp")' \subseteq Replies("udp"), asked'["udp"] = asked["udp"],
           PortsKept, \A s \in Sock : KeptBy(s)
    PROVE  ForwardInv'
<1>1. /\ \A x \in Forwards : x.srcport \in Port /\ ForwardOK(x) /\ Held(x)
      /\ Forwards' = Forwards
  BY ForwardIsTyped DEF ForwardInv, Forwards
<1>2. /\ "udp" \in Transport
      /\ \A m \in Down("udp") : m.connection.srcport \in Port /\ DownOK(m)
  BY DownPort DEF ForwardInv, Transport
<1>3. OneForwardPerPort'
  BY DEF ForwardInv, OneForwardPerPort
<1>4. ASSUME NEW x \in Forwards
      PROVE  ForwardOK(x)' /\ Held(x)'
  <2>1. ForwardOK(x)'
    BY <1>1 DEF ForwardOK, PortsKept
  <2>2. \A s \in Sock : socks[s].connection = x => socks'[s].connection = x
    BY <1>1 DEF ForwardOK, KeptBy, HasPort
  <2>3. Held(x)'
    BY <1>1, <2>2 DEF Held
  <2> QED BY <2>1, <2>3
<1>5. ASSUME NEW s \in Sock
      PROVE  DatagramOK(s)'
  <2>0. CASE ~ HasPort(s)'
    BY <2>0 DEF DatagramOK, KeptBy
  <2> SUFFICES ASSUME HasPort(s)'
               PROVE  DatagramOK(s)'
    BY <2>0
  <2>1. /\ HasPort(s) /\ socks'[s].connection = socks[s].connection /\ DatagramOK(s)
        /\ socks'[s].status \in {"UNBOUND", "BOUND"} =>
             socks'[s].connection = RemoteOpen(socks'[s].connection)
        /\ socks'[s].status = "UNBOUND" =>
             \E r \in Waits("udp")' : r.type = "FORWARD" /\ r.sock = s
    BY DEF KeptBy, ForwardInv, HasPort
  <2>2. HasPeer(s)' <=> HasPeer(s)
    BY <2>1 DEF HasPeer
  <2> QED BY <2>1, <2>2 DEF DatagramOK
<1>6. ASSUME NEW m \in Down("udp")
      PROVE  DownOK(m)'
  <2> DEFINE port == m.connection.srcport
  <2>1. DownOK(m) /\ port \in Port
    BY <1>2
  <2>2. port # PORT_ANY => ports[port] # 0 /\ ports'[port] # 0
    BY <2>1 DEF DownOK, PortsKept
  <2>3. ASSUME m.type = "CLOSE", port # PORT_ANY, NEW s \in Sock,
               socks'[s].connection.srcport = port
        PROVE  FALSE
    <3>1. \A t \in Sock : socks[t].connection.srcport # port
      BY <2>1, <2>3 DEF DownOK
    <3> QED BY <2>2, <2>3, <3>1 DEF KeptBy
  <2> QED BY <1>1, <2>1, <2>2, <2>3 DEF DownOK
<1>7. ASSUME NEW m \in Down("udp"), NEW r \in Waits("udp"), r.req = m.req
      PROVE  SameRequest(m, r)'
  <2>1. SameRequest(m, r) /\ DownOK(m) /\ r.sock \in Sock
    BY <1>2, WaitsTypes DEF ForwardInv
  <2>2. ASSUME r.type = "FORWARD"
        PROVE  socks'[r.sock].connection = m.connection
    <3>1. socks[r.sock].connection = m.connection /\ m.type = "FORWARD"
      BY <1>7, <2>1, <2>2 DEF SameRequest
    <3>2. HasPort(r.sock)
      BY <2>1, <3>1 DEF DownOK, HasPort
    <3> QED BY <2>1, <3>1, <3>2 DEF KeptBy
  <2> QED BY <2>1, <2>2 DEF SameRequest
<1>8. \A m \in Down("udp"), r \in Waits("udp") : SameRequest(m, r)'
  BY <1>7 DEF SameRequest
<1>9. \A a \in Replies("udp")', r \in Waits("udp")' : RefusesClose(a, r)'
  BY DEF ForwardInv, RefusesClose
<1>10. /\ \A x \in Forwards' : ForwardOK(x)' /\ Held(x)'
       /\ \A m \in Down("udp")' : DownOK(m)'
       /\ \A m \in Down("udp")', r \in Waits("udp")' : SameRequest(m, r)'
  BY <1>1, <1>4, <1>6, <1>8
<1> QED BY <1>3, <1>5, <1>9, <1>10 DEF ForwardInv

\* A socket the step does not change.
LEMMA SameKept ==
    ASSUME ForwardInv, NEW s \in Sock, socks'[s] = socks[s],
           \A r \in Waits("udp") : r.type = "FORWARD" /\ r.sock = s => r \in Waits("udp")'
    PROVE  KeptBy(s)
<1>1. HasPort(s)' <=> HasPort(s)
  BY DEF HasPort
<1>2. DatagramOK(s)
  BY DEF ForwardInv
<1> QED BY <1>1, <1>2 DEF KeptBy, DatagramOK

\* A socket that is no datagram socket before the step, nor after it.
LEMMA OtherKept ==
    ASSUME NEW s \in Sock, ~ HasPort(s), socks'[s].connection.protocol # "udp",
           \/ socks'[s].connection.srcport = PORT_ANY
           \/ ports[socks'[s].connection.srcport] = 0
           \/ \E t \in Sock : socks[t].connection.srcport = socks'[s].connection.srcport
    PROVE  KeptBy(s)
  BY DEF KeptBy, HasPort

----------------------------------------------------------------------------
(* What a step does to the answers of the UDP module *)

LEMMA RepliesSame ==
    ASSUME fifo'["udp2sock"] = fifo["udp2sock"], out'["udp"] = out["udp"]
    PROVE  Replies("udp")' = Replies("udp")
  BY DEF Replies, UpperPipe

LEMMA SockHeardReplies ==
    ASSUME PipesOK, NEW f \in {"app2sock", "tcp2sock", "udp2sock"}, fifo[f] # <<>>,
           NEW sends, Receive("sock", f, sends)
    PROVE  Replies("udp")' \subseteq Replies("udp")
<1>1. /\ out'["udp"] = out["udp"] /\ fifo'[f] = Tail(fifo[f])
      /\ \A g \in Fifo : g # f => fifo'[g] = fifo[g]
  BY SockReads
<1>2. CASE f = "udp2sock"
  <2>1. fifo["udp2sock"] \in Seq(SockRequestResponse) /\ UpperPipe["udp"] = "udp2sock"
    BY StreamTypes DEF Transport, UpperPipe
  <2>2. ToSet(Tail(fifo["udp2sock"])) \subseteq ToSet(fifo["udp2sock"])
    BY <1>2, <2>1, ToSetTail
  <2>3. fifo'["udp2sock"] = Tail(fifo["udp2sock"])
    BY <1>1, <1>2
  <2> QED BY <1>1, <2>1, <2>2, <2>3 DEF Replies
<1>3. CASE f # "udp2sock"
  <2>1. fifo'["udp2sock"] = fifo["udp2sock"]
    BY <1>1, <1>3 DEF Fifo
  <2> QED BY <1>1, <2>1, RepliesSame
<1> QED BY <1>2, <1>3

LEMMA SendKeepsReplies ==
    ASSUME PipesOK, NEW m \in {"sock", "udp"}, Send(m)
    PROVE  Replies("udp")' \subseteq Replies("udp")
<1> DEFINE q == out["udp"]
           e == Head(out[m])
           f == "udp2sock"
<1>1. /\ out[m] # <<>> /\ e.msg \in MessageOf(e.to)
      /\ m = "sock" => e.to # f
      /\ fifo'[e.to] = Append(fifo[e.to], e.msg)
      /\ \A g \in Fifo : g # e.to => fifo'[g] = fifo[g]
      /\ out'[m] = Tail(out[m])
      /\ \A k \in {"sock", "udp"} : k # m => out'[k] = out[k]
  BY Sent
<1>2. /\ f \in Fifo /\ fifo[f] \in Seq(MessageOf(f)) /\ q \in Seq(Sends("udp"))
      /\ UpperPipe["udp"] = f
  BY DEF PipesOK, Fifo, UpperPipe
<1>3. CASE m = "sock"
  <2>1. fifo'[f] = fifo[f] /\ out'["udp"] = out["udp"]
    BY <1>1, <1>2, <1>3
  <2> QED BY <2>1, RepliesSame
<1>4. CASE m = "udp"
  <2>1. Replies("udp") = {x \in ToSet(fifo[f]) \cup SentTo(q, f) : x.type = "STATUS"}
    BY <1>2 DEF Replies
  <2>2. Replies("udp")' = {x \in ToSet(fifo'[f]) \cup SentTo(Tail(q), f) : x.type = "STATUS"}
    BY <1>1, <1>2, <1>4 DEF Replies
  <2>3. e = Head(q) /\ q # <<>>
    BY <1>1, <1>4
  <2> HIDE DEF f, q, e
  <2>4. SentTo(q, f) = SentTo(Tail(q), f) \cup (IF e.to = f THEN {e.msg} ELSE {})
    BY <1>2, <2>3, SentToTail
  <2>5. ToSet(fifo'[f]) = ToSet(fifo[f]) \cup (IF e.to = f THEN {e.msg} ELSE {})
    <3>1. CASE e.to = f
      <4>1. e.msg \in MessageOf(f) /\ fifo'[f] = Append(fifo[f], e.msg)
        BY <1>1, <3>1
      <4>2. ToSet(Append(fifo[f], e.msg)) = ToSet(fifo[f]) \cup {e.msg}
        BY <1>2, <4>1, ToSetAppend
      <4> QED BY <3>1, <4>1, <4>2
    <3>2. CASE e.to # f
      BY <1>1, <1>2, <3>2
    <3> QED BY <3>1, <3>2
  <2> QED BY <2>1, <2>2, <2>4, <2>5
<1> QED BY <1>3, <1>4

----------------------------------------------------------------------------
(* The application's calls that ask nothing of the UDP module *)

\* What the lemmas on steps assume of the state.
Good == TypeOK /\ RequestsInOrder /\ CallInv /\ ForwardInv

LEMMA GoodParts ==
    ASSUME Good
    PROVE  /\ PipesOK /\ SockTypeOK /\ clist \in Seq(Connection) /\ CallInv /\ ForwardInv
           /\ InOrder("udp") /\ InOrder("tcp") /\ "udp" \in Transport /\ "tcp" \in Transport
  BY DEF Good, TypeOK, RequestsInOrder, Transport

LEMMA AppQuiet ==
    ASSUME Good, clist' = clist, NEW type, AppCalls(type), NEW sends,
           Receive("sock", "app2sock", sends), Down("udp")' = Down("udp"),
           Waits("udp")' = Waits("udp"), asked'["udp"] = asked["udp"], PortsKept,
           NEW s \in Sock, \A t \in Sock : t # s => socks'[t] = socks[t],
           socks'[s] = socks[s] \/ KeptBy(s)
    PROVE  ForwardInv'
<1>1. fifo["app2sock"] # <<>>
  BY DEF AppCalls, GetNextEvent
<1>2. Replies("udp")' \subseteq Replies("udp")
  BY <1>1, GoodParts, SockHeardReplies
<1>3. \A t \in Sock : KeptBy(t)
  BY GoodParts, SameKept
<1> QED BY <1>2, <1>3, GoodParts, ForwardsKept

\* The call is answered, or waits at its socket.
LEMMA AppTold ==
    ASSUME Good, clist' = clist, NEW type, AppCalls(type), UNCHANGED <<reqq, asked>>, PortsKept,
           NEW sends, Receive("sock", "app2sock", sends),
           sends = <<>> \/ \E a : sends = <<a>> /\ a.to = "sock2app",
           NEW s \in Sock, \A t \in Sock : t # s => socks'[t] = socks[t],
           socks'[s] = socks[s] \/ KeptBy(s)
    PROVE  ForwardInv'
<1>1. out["sock"] = <<>>
  BY DEF AppCalls, GetNextEvent
<1>2. \A i \in DOMAIN sends : sends[i].to = "sock2app" \/ sends[i].msg.type = "STATUS"
  OBVIOUS
<1>3. Down("udp")' = Down("udp")
  BY <1>1, <1>2, GoodParts, NothingAsked
<1>4. Waits("udp")' = Waits("udp")
  BY DEF Waits
<1> QED BY <1>3, <1>4, AppQuiet

LEMMA AppRejectedForwards ==
    ASSUME Good, clist' = clist, NEW type, AppCalls(type), NEW err, Reject(err)
    PROVE  ForwardInv'
<1> DEFINE a == Response(AppRequest.sockfd, err)
<1>1. a.to = "sock2app" /\ Receive("sock", "app2sock", <<a>>) /\ UNCHANGED sockVars
  BY DEF Reject, Response, ToApp
<1> HIDE DEF a
<1>2. 1 \in Sock /\ PortsKept /\ UNCHANGED <<reqq, asked>> /\ \A t \in Sock : socks'[t] = socks[t]
  BY <1>1, SizeAssumption DEF Sock, PortsKept, sockVars
<1> QED BY <1>1, <1>2, AppTold

\* A request is made of the TCP module.
LEMMA AppAskedTcp ==
    ASSUME Good, clist' = clist, NEW call, AppCalls(call), PortsKept,
           NEW type, NEW s \in Sock, Record("tcp", type, s), type \in srrType \ {"STATUS"},
           NEW c, NEW data, NEW sends, Receive("sock", "app2sock", sends),
           \/ sends = <<Request("tcp", type, c, data)>>
           \/ \E a : sends = <<Request("tcp", type, c, data), a>> /\ a.to = "sock2app",
           \A t \in Sock : t # s => socks'[t] = socks[t], KeptBy(s)
    PROVE  ForwardInv'
<1>1. out["sock"] = <<>>
  BY DEF AppCalls, GetNextEvent
<1> DEFINE k == Request("tcp", type, c, data)
<1>2. k.to = LowerPipe["tcp"] /\ k.msg.type # "STATUS"
  BY DEF Request, ToLower
<1> HIDE DEF k
<1>3. /\ 1 \in DOMAIN sends /\ sends[1] = k
      /\ \A i \in DOMAIN sends : i # 1 => sends[i].to = "sock2app"
  BY DEF k
<1>4. Down("udp")' = Down("udp")
  <2>1. /\ PipesOK /\ "udp" \in Transport /\ "tcp" \in Transport
        /\ 1 \in DOMAIN sends /\ sends[1].to = LowerPipe["tcp"]
        /\ sends[1].msg.type # "STATUS"
    BY <1>2, <1>3, GoodParts
  <2>2. \A i \in DOMAIN sends : i # 1 => sends[i].to = "sock2app"
    BY <1>3
  <2>3. \A p \in Transport :
          Down(p)' = Down(p) \cup (IF p = "tcp" THEN {sends[1].msg} ELSE {})
    BY <1>1, <2>1, <2>2, OneAsked
  <2> QED BY <2>1, <2>3
<1>5. Waits("udp")' = Waits("udp") /\ asked'["udp"] = asked["udp"]
  BY GoodParts, RequestMade
<1> QED BY <1>4, <1>5, AppQuiet

\* The socket keeps its connection, and does not become a bound or an unbound one.
LEMMA StatusKept ==
    ASSUME SockTypeOK, NEW s \in Sock, NEW stat, stat \notin {"BOUND", "UNBOUND"},
           socks' = SetStatus(s, stat)
    PROVE  KeptBy(s) /\ \A t \in Sock : t # s => socks'[t] = socks[t]
<1>1. /\ socks'[s].status = stat /\ socks'[s].connection = socks[s].connection
      /\ \A t \in Sock : t # s => socks'[t] = socks[t]
  BY StatusIs DEF SockTypeOK
<1> QED BY <1>1 DEF KeptBy, HasPort

LEMMA FreedKept ==
    ASSUME SockTypeOK, NEW s \in Sock, ~ HasPort(s), socks' = CloseSocket(s)
    PROVE  KeptBy(s) /\ \A t \in Sock : t # s => socks'[t] = socks[t]
<1>1. socks'[s] = FreeRecord /\ \A t \in Sock : t # s => socks'[t] = socks[t]
  BY DEF CloseSocket, SockTypeOK
<1>2. /\ socks'[s].connection.srcport = PORT_ANY
      /\ socks'[s].connection.protocol = "none"
  BY <1>1 DEF FreeRecord, NoConnection
<1> QED BY <1>1, <1>2 DEF KeptBy, HasPort

LEMMA SockSocketForwards ==
    ASSUME Good, clist' = clist, SockSocket
    PROVE  ForwardInv'
<1>1. AppCalls("mSOCKET")
  BY Zenon DEF SockSocket
<1>2. CASE Reject("ERESOURCE_UNAVAIL")
  BY <1>1, <1>2, AppRejectedForwards
<1>3. ASSUME NEW s \in Sock, NEW c,
             c = [socks[s].connection EXCEPT !.protocol = AppRequest.connection.protocol],
             FindFreeSock(s),
             socks' = [socks EXCEPT ![s] = [@ EXCEPT !.status = "UNBOUND",
                                                   !.connection = c, !.toApp = TRUE]],
             Receive("sock", "app2sock", <<Response(s, "EOK")>>),
             UNCHANGED <<ports, reqq, asked>>
      PROVE  ForwardInv'
  <2>1. /\ socks \in [Sock -> GoodRecord] /\ socks[s] = FreeRecord
    BY <1>3, GoodParts DEF SockTypeOK, FindFreeSock, CallInv, Records, RecordOK
  <2>2. socks'[s].connection = c /\ \A t \in Sock : t # s => socks'[t] = socks[t]
    BY <1>3, <2>1 DEF GoodRecord, SockRecord
  <2>3. socks[s].connection.srcport = PORT_ANY /\ c.srcport = PORT_ANY
    BY <1>3, <2>1 DEF FreeRecord, NoConnection
  <2>4. c = RemoteOpen(c)
    <3>1. socks[s].connection = NoConnection /\ AppRequest.connection.protocol \in Transport
      BY <1>1, <2>1, GoodParts, AppRequestType DEF FreeRecord
    <3>0. c = [NoConnection EXCEPT !.protocol = AppRequest.connection.protocol]
      BY <1>3, <3>1, Zenon
    <3>2. c \in Connection /\ c.dest = IP_ADDRESS_ANY /\ c.destport = PORT_ANY
      BY <3>0, <3>1, ConnectionTypes DEF NoConnection
    <3> QED BY <3>2 DEF RemoteOpen, Connection
  <2>6. KeptBy(s)
    BY <2>2, <2>3, <2>4 DEF KeptBy, HasPort
  <2>7. Response(s, "EOK").to = "sock2app" /\ PortsKept
    BY <1>3 DEF Response, ToApp, PortsKept
  <2> QED BY <1>1, <1>3, <2>2, <2>6, <2>7, AppTold
<1> QED BY <1>2, <1>3 DEF SockSocket

LEMMA SockListenForwards ==
    ASSUME Good, clist' = clist, SockListen
    PROVE  ForwardInv'
<1> SUFFICES ASSUME NEW s, s = AppRequest.sockfd
             PROVE  ForwardInv'
  OBVIOUS
<1>1. AppCalls("mLISTEN")
  BY Zenon DEF SockListen
<1>2. s \in Sock /\ socks \in [Sock -> GoodRecord] /\ socks[s].connection \in Connection
  BY <1>1, GoodParts, Named
<1>3. CASE Reject("EINVALID_OP")
  BY <1>1, <1>3, AppRejectedForwards
<1>4. \A fd, err : Response(fd, err).to = "sock2app"
  BY DEF Response, ToApp
<1>5. CASE Receive("sock", "app2sock", <<Response(0, "ENOT_SUPPORTED")>>) /\ UNCHANGED sockVars
  <2>1. PortsKept /\ UNCHANGED <<reqq, asked>> /\ \A t \in Sock : socks'[t] = socks[t]
    BY <1>5 DEF PortsKept, sockVars
  <2> QED BY <1>1, <1>2, <1>4, <1>5, <2>1, AppTold
<1>6. CASE /\ socks[s].connection.protocol # "udp"
           /\ socks' = [socks EXCEPT ![s] =
                          [@ EXCEPT !.status = "LISTENING",
                                    !.connection = RemoteOpen(socks[s].connection)]]
           /\ Receive("sock", "app2sock", <<Response(s, "EOK")>>)
           /\ UNCHANGED <<ports, reqq, asked>>
  <2>1. /\ socks'[s].connection = RemoteOpen(socks[s].connection)
        /\ \A t \in Sock : t # s => socks'[t] = socks[t]
    BY <1>2, <1>6 DEF GoodRecord, SockRecord
  <2>2. /\ socks'[s].connection.srcport = socks[s].connection.srcport
        /\ socks'[s].connection.protocol = socks[s].connection.protocol
    BY <1>2, <2>1 DEF RemoteOpen, Connection
  <2>3. KeptBy(s)
    BY <1>2, <1>6, <2>2, OtherKept DEF HasPort
  <2>4. PortsKept
    BY <1>6 DEF PortsKept
  <2> QED BY <1>1, <1>2, <1>4, <1>6, <2>1, <2>3, <2>4, AppTold
<1> QED BY <1>3, <1>5, <1>6 DEF SockListen

LEMMA SockAcceptForwards ==
    ASSUME Good, clist' = clist, SockAccept
    PROVE  ForwardInv'
<1> SUFFICES ASSUME NEW s, s = AppRequest.sockfd
             PROVE  ForwardInv'
  OBVIOUS
<1>1. AppCalls("mACCEPT")
  BY Zenon DEF SockAccept
<1>2. s \in Sock
  BY <1>1, GoodParts, Named
<1>3. CASE Reject("EINVALID_OP")
  BY <1>1, <1>3, AppRejectedForwards
<1>4. CASE /\ socks' = SetStatus(s, "ACCEPT_PENDING")
           /\ Record("tcp", "ACCEPT", s)
           /\ Receive("sock", "app2sock",
                      <<Request("tcp", "ACCEPT", socks[s].connection, 0)>>)
           /\ UNCHANGED ports
  <2>1. KeptBy(s) /\ \A t \in Sock : t # s => socks'[t] = socks[t]
    BY <1>2, <1>4, GoodParts, StatusKept
  <2>2. PortsKept /\ "ACCEPT" \in srrType \ {"STATUS"}
    BY <1>4 DEF PortsKept, srrType
  <2> QED BY <1>1, <1>2, <1>4, <2>1, <2>2, AppAskedTcp
<1> QED BY <1>3, <1>4 DEF SockAccept

LEMMA SockReadForwards ==
    ASSUME Good, clist' = clist, SockRead
    PROVE  ForwardInv'
<1> SUFFICES ASSUME NEW s, s = AppRequest.sockfd
             PROVE  ForwardInv'
  OBVIOUS
<1>1. AppCalls("mREAD")
  BY Zenon DEF SockRead
<1>2. s \in Sock
  BY <1>1, GoodParts, Named
<1>3. ASSUME NEW a, Receive("sock", "app2sock", <<ToApp(a)>>), UNCHANGED sockVars
      PROVE  ForwardInv'
  <2>1. PortsKept /\ UNCHANGED <<reqq, asked>> /\ \A t \in Sock : socks'[t] = socks[t]
    BY <1>3 DEF PortsKept, sockVars
  <2>2. ToApp(a).to = "sock2app"
    BY DEF ToApp
  <2> QED BY <1>1, <1>2, <1>3, <2>1, <2>2, AppTold
<1>4. CASE /\ socks' = SetStatus(s, "READ_PENDING")
           /\ Receive("sock", "app2sock", <<>>)
           /\ UNCHANGED <<ports, reqq, asked>>
  <2>1. KeptBy(s) /\ \A t \in Sock : t # s => socks'[t] = socks[t]
    BY <1>2, <1>4, GoodParts, StatusKept
  <2>2. PortsKept
    BY <1>4 DEF PortsKept
  <2> QED BY <1>1, <1>2, <1>4, <2>1, <2>2, AppTold
<1> QED BY <1>3, <1>4 DEF SockRead
----------------------------------------------------------------------------
(* The application's calls that make a request of the UDP module *)

LEMMA NumbersOfRequests ==
    ASSUME Good
    PROVE  /\ asked["udp"] \in Nat
           /\ \A m \in Down("udp") \cup Waits("udp") \cup Replies("udp") :
                m.req \in Nat /\ m.req <= asked["udp"]
           /\ \A m \in Down("udp") : \E r \in Waits("udp") : r.req = m.req
           /\ \A a \in Replies("udp"), m \in Down("udp") : a.req # m.req
<1>1. PICK y \in Nat : DividedAt("udp", y)
  BY DividedWhenInOrder DEF Good, Divided
<1> DEFINE h == asked["udp"]
           o == OldestOf("udp")
<1>2. /\ h \in Nat /\ o \in Nat /\ o <= y /\ y <= h
      /\ NumbersIn(Waits("udp")) = o + 1 .. h
      /\ NumbersIn(Down("udp")) = y + 1 .. h
      /\ NumbersIn(Replies("udp")) = o + 1 .. y
  BY <1>1 DEF DividedAt
<1> HIDE DEF h, o
<1>3. /\ \A m \in Waits("udp") : m.req \in o + 1 .. h
      /\ \A m \in Down("udp") : m.req \in y + 1 .. h
      /\ \A m \in Replies("udp") : m.req \in o + 1 .. y
  BY <1>2 DEF NumbersIn
<1>4. \A m \in Down("udp") : m.req \in NumbersIn(Waits("udp"))
  BY <1>2, <1>3
<1>5. \A m \in Down("udp") : \E r \in Waits("udp") : r.req = m.req
  BY <1>4 DEF NumbersIn
<1>6. \A m \in Down("udp") \cup Waits("udp") \cup Replies("udp") :
        m.req \in Nat /\ m.req <= h
  BY <1>2, <1>3
<1>7. \A a \in Replies("udp"), m \in Down("udp") : a.req # m.req
  BY <1>2, <1>3
<1> QED BY <1>2, <1>5, <1>6, <1>7 DEF h

\* While no call waits for the answer to a request, no FORWARD is on its way.
LEMMA NoForwardDown ==
    ASSUME Good, NoRequest
    PROVE  /\ \A m \in Down("udp") : m.type # "FORWARD"
           /\ \A r \in Waits("udp") : r.type # "FORWARD"
<1>1. \A r \in Waits("udp") : r.type # "FORWARD"
  BY GoodParts DEF NoRequest, Answering
<1>2. ASSUME NEW m \in Down("udp"), m.type = "FORWARD"
      PROVE  FALSE
  <2>1. PICK r \in Waits("udp") : r.req = m.req
    BY NumbersOfRequests
  <2>2. SameRequest(m, r)
    BY DEF Good, ForwardInv
  <2> QED BY <1>1, <1>2, <2>1, <2>2 DEF SameRequest
<1> QED BY <1>1, <1>2

LEMMA ForwardsAsked ==
    ASSUME Good, clist' = clist, NoRequest, PortsKept,
           NEW m, NEW r, r.sock \in Sock,
           m.req = asked["udp"] + 1, r.req = m.req, r.type = m.type,
           Down("udp")' = Down("udp") \cup {m}, Waits("udp")' = Waits("udp") \cup {r},
           asked'["udp"] = asked["udp"] + 1, Replies("udp")' \subseteq Replies("udp"),
           NEW s, s = r.sock, \A t \in Sock : t # s => socks'[t] = socks[t],
           NEW c, c = socks[s].connection, NEW d, d = socks'[s].connection,
           m.connection.protocol = "udp",
           m.connection.srcport # PORT_ANY => ports'[m.connection.srcport] # 0,
           m.type = "FORWARD" =>
              /\ m.connection = d /\ d.src = MyIPAddr /\ d.srcport # PORT_ANY
              /\ \A x \in Forwards : x.srcport = d.srcport => x = RemoteOpen(d),
           m.type = "CLOSE" /\ m.connection.srcport # PORT_ANY =>
              \A t \in Sock : socks'[t].connection.srcport # m.connection.srcport,
           DatagramOK(s)',
           HasPort(s) => \/ d = c
                         \/ m.type = "FORWARD" /\ d.srcport = c.srcport
                         \/ m.type = "CLOSE" /\ m.connection = c,
           d.srcport # PORT_ANY => d.srcport = c.srcport \/ ports[d.srcport] = 0
    PROVE  ForwardInv'
<1>1. /\ \A x \in Forwards : x.srcport \in Port /\ ForwardOK(x) /\ Held(x)
      /\ Forwards' = Forwards
  BY ForwardIsTyped, GoodParts DEF ForwardInv, Forwards
<1>2. /\ asked["udp"] \in Nat
      /\ \A o \in Down("udp") \cup Waits("udp") \cup Replies("udp") :
           o.req \in Nat /\ o.req <= asked["udp"]
  BY NumbersOfRequests
<1>3. /\ \A o \in Down("udp") : o.type # "FORWARD" /\ DownOK(o) /\ o.connection.srcport \in Port
      /\ \A o \in Waits("udp") : o.type # "FORWARD"
  BY NoForwardDown, GoodParts, DownPort DEF ForwardInv
<1>4. OneForwardPerPort'
  BY GoodParts DEF ForwardInv, OneForwardPerPort
<1>5. ASSUME NEW x \in Forwards
      PROVE  ForwardOK(x)' /\ Held(x)'
  <2>1. ForwardOK(x)'
    BY <1>1 DEF ForwardOK, PortsKept
  <2>2. m \in Down("udp")' /\ Down("udp") \subseteq Down("udp")'
    OBVIOUS
  <2>3. CASE \E o \in Down("udp") : o.type = "CLOSE" /\ o.connection = x
    BY <2>1, <2>2, <2>3 DEF Held
  <2>4. ASSUME NEW t \in Sock, socks[t].connection = x
        PROVE  Held(x)'
    <3>1. CASE t # s
      BY <2>4, <3>1 DEF Held
    <3>2. CASE t = s
      <4>1. HasPort(s) /\ c = x
        BY <1>1, <2>4, <3>2 DEF HasPort, ForwardOK
      <4>2. CASE d = c
        BY <2>4, <3>2, <4>1, <4>2 DEF Held
      <4>3. CASE m.type = "FORWARD" /\ d.srcport = c.srcport
        BY <2>2, <4>1, <4>3 DEF Held
      <4>4. CASE m.type = "CLOSE" /\ m.connection = c
        BY <2>2, <4>1, <4>4 DEF Held
      <4> QED BY <4>1, <4>2, <4>3, <4>4
    <3> QED BY <3>1, <3>2
  <2> QED BY <1>1, <1>3, <2>1, <2>3, <2>4 DEF Held
<1>6. ASSUME NEW t \in Sock
      PROVE  DatagramOK(t)'
  <2>1. CASE t = s
    BY <2>1
  <2>2. CASE t # s
    <3>1. DatagramOK(t) /\ socks'[t] = socks[t]
      BY <2>2, GoodParts DEF ForwardInv
    <3>2. (HasPort(t)' <=> HasPort(t)) /\ (HasPeer(t)' <=> HasPeer(t))
      BY <3>1 DEF HasPort, HasPeer
    <3> QED BY <1>3, <3>1, <3>2 DEF DatagramOK
  <2> QED BY <2>1, <2>2
<1>7. ASSUME NEW o \in Down("udp")
      PROVE  DownOK(o)'
  <2> DEFINE port == o.connection.srcport
  <2>1. DownOK(o) /\ port \in Port /\ o.type # "FORWARD"
    BY <1>3
  <2>2. port # PORT_ANY => ports[port] # 0 /\ ports'[port] # 0
    BY <2>1 DEF DownOK, PortsKept
  <2>3. ASSUME o.type = "CLOSE", port # PORT_ANY, NEW t \in Sock,
               socks'[t].connection.srcport = port
        PROVE  FALSE
    <3>1. \A u \in Sock : socks[u].connection.srcport # port
      BY <2>1, <2>3 DEF DownOK
    <3> QED BY <2>2, <2>3, <3>1
  <2> QED BY <2>1, <2>2, <2>3 DEF DownOK
<1>8. DownOK(m)'
  BY <1>1 DEF DownOK
<1>9. ASSUME NEW o \in Down("udp") \cup {m}, NEW q \in Waits("udp") \cup {r}
      PROVE  SameRequest(o, q)'
  <2> SUFFICES ASSUME q.req = o.req
               PROVE  SameRequest(o, q)'
    BY DEF SameRequest
  <2>1. CASE o = m /\ q = r
    BY <2>1 DEF SameRequest
  <2>2. CASE o \in Down("udp") /\ q \in Waits("udp")
    <3>1. SameRequest(o, q)
      BY <2>2, GoodParts DEF ForwardInv
    <3> QED BY <1>3, <2>2, <3>1 DEF SameRequest
  <2>3. o.req # m.req \/ o \notin Down("udp")
    BY <1>2
  <2>4. q.req # m.req \/ q \notin Waits("udp")
    BY <1>2
  <2> QED BY <2>1, <2>2, <2>3, <2>4
<1>10. ASSUME NEW a \in Replies("udp"), NEW q \in Waits("udp") \cup {r}
       PROVE  RefusesClose(a, q)'
  <2>1. CASE q \in Waits("udp")
    BY <2>1, GoodParts DEF ForwardInv, RefusesClose
  <2>2. CASE q = r
    BY <1>2, <2>2 DEF RefusesClose
  <2> QED BY <2>1, <2>2
<1>11. /\ \A x \in Forwards' : ForwardOK(x)' /\ Held(x)'
       /\ \A o \in Down("udp")' : DownOK(o)'
       /\ \A o \in Down("udp")', q \in Waits("udp")' : SameRequest(o, q)'
       /\ \A a \in Replies("udp")', q \in Waits("udp")' : RefusesClose(a, q)'
  BY <1>1, <1>5, <1>7, <1>8, <1>9, <1>10
<1> QED BY <1>4, <1>6, <1>11 DEF ForwardInv

\* A call that is read is the only one, and nobody else owes an answer.
LEMMA Calling ==
    ASSUME Good, NEW type, AppCalls(type)
    PROVE  NoRequest /\ NoPending /\ out["sock"] = <<>> /\ fifo["app2sock"] # <<>>
<1>1. ~ NoCall /\ out["sock"] = <<>>
  BY DEF AppCalls, GetNextEvent, NoCall
<1>2. Called
  BY <1>1, GoodParts DEF CallInv, OneCall, Idle, Answered, AtLower, AtSocket, Lost
<1> QED BY <1>1, <1>2 DEF Called, NoCall

\* What a request of this type for connection k, made for socket s, says.
Asks(type, s, k) ==
    LET c == socks[s].connection
        d == socks'[s].connection
    IN
    /\ k.protocol = "udp" /\ (k.srcport # PORT_ANY => ports'[k.srcport] # 0)
    /\ type = "FORWARD" =>
         /\ k = d /\ d.src = MyIPAddr /\ d.srcport # PORT_ANY
         /\ \A x \in Forwards : x.srcport = d.srcport => x = RemoteOpen(d)
    /\ type = "CLOSE" /\ k.srcport # PORT_ANY =>
         \A t \in Sock : socks'[t].connection.srcport # k.srcport
    /\ [type |-> type, sock |-> s, req |-> asked["udp"] + 1] \in Waits("udp")'
         => DatagramOK(s)'
    /\ HasPort(s) => \/ d = c
                     \/ type = "FORWARD" /\ d.srcport = c.srcport
                     \/ type = "CLOSE" /\ k = c
    /\ d.srcport # PORT_ANY => d.srcport = c.srcport \/ ports[d.srcport] = 0

LEMMA AppAskedUdp ==
    ASSUME Good, clist' = clist, NEW call, AppCalls(call), PortsKept,
           NEW type \in srrType \ {"STATUS"}, NEW s \in Sock, Record("udp", type, s),
           NEW k, NEW data, NEW sends, Receive("sock", "app2sock", sends),
           \/ sends = <<Request("udp", type, k, data)>>
           \/ \E a : sends = <<Request("udp", type, k, data), a>> /\ a.to = "sock2app",
           \A t \in Sock : t # s => socks'[t] = socks[t], Asks(type, s, k)
    PROVE  ForwardInv'
<1>1. NoRequest /\ out["sock"] = <<>> /\ fifo["app2sock"] # <<>>
  BY Calling
<1> DEFINE e == Request("udp", type, k, data)
           m == e.msg
           r == [type |-> type, sock |-> s, req |-> asked["udp"] + 1]
<1>2. /\ e.to = LowerPipe["udp"] /\ m.type = type /\ m.connection = k
      /\ m.req = asked["udp"] + 1 /\ m.type # "STATUS"
  BY DEF Request, ToLower
<1>3. r.sock = s /\ r.req = m.req /\ r.type = m.type
  BY <1>2
<1>4. Waits("udp")' = Waits("udp") \cup {r} /\ asked'["udp"] = asked["udp"] + 1
  BY GoodParts, RequestMade
<1> HIDE DEF e
<1>5. /\ 1 \in DOMAIN sends /\ sends[1] = e
      /\ \A i \in DOMAIN sends : i # 1 => sends[i].to = "sock2app"
  BY DEF e
<1>6. Down("udp")' = Down("udp") \cup {m}
  <2>1. /\ PipesOK /\ "udp" \in Transport /\ 1 \in DOMAIN sends
        /\ sends[1].to = LowerPipe["udp"] /\ sends[1].msg.type # "STATUS"
    BY <1>2, <1>5, GoodParts
  <2>2. \A i \in DOMAIN sends : i # 1 => sends[i].to = "sock2app"
    BY <1>5
  <2>3. \A p \in Transport :
          Down(p)' = Down(p) \cup (IF p = "udp" THEN {sends[1].msg} ELSE {})
    BY <1>1, <2>1, <2>2, OneAsked
  <2> QED BY <1>5, <2>1, <2>3
<1>7. Replies("udp")' \subseteq Replies("udp")
  BY <1>1, GoodParts, SockHeardReplies
<1> HIDE DEF m
<1>8. DatagramOK(s)'
  BY <1>4 DEF Asks
<1> HIDE DEF r
<1> SUFFICES ASSUME NEW c, c = socks[s].connection, NEW d, d = socks'[s].connection
             PROVE  ForwardInv'
  OBVIOUS
<1>9. /\ m.connection.protocol = "udp"
      /\ m.connection.srcport # PORT_ANY => ports'[m.connection.srcport] # 0
      /\ m.type = "FORWARD" =>
           /\ m.connection = d /\ d.src = MyIPAddr /\ d.srcport # PORT_ANY
           /\ \A x \in Forwards : x.srcport = d.srcport => x = RemoteOpen(d)
      /\ m.type = "CLOSE" /\ m.connection.srcport # PORT_ANY =>
           \A t \in Sock : socks'[t].connection.srcport # m.connection.srcport
      /\ HasPort(s) => \/ d = c
                       \/ m.type = "FORWARD" /\ d.srcport = c.srcport
                       \/ m.type = "CLOSE" /\ m.connection = c
      /\ d.srcport # PORT_ANY => d.srcport = c.srcport \/ ports[d.srcport] = 0
  BY <1>2 DEF Asks
<1> QED BY <1>1, <1>2, <1>3, <1>4, <1>6, <1>7, <1>8, <1>9, ForwardsAsked

LEMMA SockBindForwards ==
    ASSUME Good, clist' = clist, SockBind
    PROVE  ForwardInv'
<1> SUFFICES ASSUME NEW s, s = AppRequest.sockfd
             PROVE  ForwardInv'
  OBVIOUS
<1> DEFINE bound(p) == LocalEnd(socks[s].connection, p)
<1>1. AppCalls("mBIND")
  BY Zenon DEF SockBind
<1>2. /\ s \in Sock /\ socks[s] \in GoodRecord /\ socks \in [Sock -> GoodRecord]
      /\ socks[s].connection \in Connection
  BY <1>1, GoodParts, Named
<1>3. CASE Reject("EINVALID_OP") \/ Reject("ERESOURCE_UNAVAIL")
  BY <1>1, <1>3, AppRejectedForwards
<1>4. NoRequest /\ DatagramOK(s)
  BY <1>1, <1>2, Calling, GoodParts DEF ForwardInv
<1>5. ASSUME socks[s].status = "UNBOUND"
      PROVE  ~ HasPort(s)
  BY <1>4, <1>5, NoForwardDown DEF DatagramOK
<1>6. ASSUME NEW p \in Port, ResolveSrcPort(AppRequest.connection, p),
             ports' = AssignPort(p, s), NEW d, d = bound(p)
      PROVE  /\ p # PORT_ANY /\ ports[p] = 0 /\ ports'[p] # 0 /\ PortsKept
             /\ d.srcport = p /\ d.src = MyIPAddr
             /\ d.protocol = socks[s].connection.protocol
             /\ d.dest = socks[s].connection.dest /\ d.destport = socks[s].connection.destport
  <2>1. /\ p # PORT_ANY /\ ports[p] = 0 /\ ports'[p] = s
        /\ \A port \in Port : ports[port] # 0 => ports'[port] = ports[port]
    BY <1>2, <1>6, GoodParts, ResolvedPort
  <2> QED BY <1>2, <1>6, <2>1 DEF LocalEnd, Connection, PortsKept, Sock
<1>7. ASSUME socks[s].status = "UNBOUND", NEW p \in Port,
             ResolveSrcPort(AppRequest.connection, p), ports' = AssignPort(p, s),
             NEW d, d = bound(p), d.protocol = "udp",
             socks' = [socks EXCEPT ![s] = [@ EXCEPT !.connection = d]],
             Record("udp", "FORWARD", s),
             Receive("sock", "app2sock", <<Request("udp", "FORWARD", d, 0)>>)
      PROVE  ForwardInv'
  <2>1. /\ p # PORT_ANY /\ ports[p] = 0 /\ ports'[p] # 0 /\ PortsKept
        /\ d.srcport = p /\ d.src = MyIPAddr
    BY <1>6, <1>7
  <2>2. /\ socks'[s].connection = d /\ socks'[s].status = "UNBOUND"
        /\ \A t \in Sock : t # s => socks'[t] = socks[t]
    BY <1>2, <1>7 DEF GoodRecord, SockRecord
  <2>3. \A x \in Forwards : x.srcport # p
    BY <2>1, GoodParts DEF ForwardInv, ForwardOK
  <2>4. "FORWARD" \in srrType \ {"STATUS"}
    BY DEF srrType
  <2>5. ~ HasPort(s)
    BY <1>5, <1>7
  <2>6. d = RemoteOpen(d)
    <3>1. d.protocol = socks[s].connection.protocol
      BY <1>6, <1>7
    <3>2. socks[s].connection = RemoteOpen(socks[s].connection)
      BY <1>4, <1>7, <3>1 DEF DatagramOK
    <3> QED BY <1>2, <1>7, <3>2 DEF RemoteOpen, LocalEnd, Connection
  <2>7. DatagramOK(s)' <=>
          \E r \in Waits("udp")' : r.type = "FORWARD" /\ r.sock = s
    BY <1>7, <2>1, <2>2, <2>6 DEF DatagramOK, HasPort
  <2>8. [type |-> "FORWARD", sock |-> s, req |-> asked["udp"] + 1] \in Waits("udp")'
          => DatagramOK(s)'
    BY <2>7
  <2>9. Asks("FORWARD", s, d)
    BY <1>7, <2>1, <2>2, <2>3, <2>5, <2>8 DEF Asks
  <2> QED BY <1>1, <1>2, <1>7, <2>1, <2>2, <2>4, <2>9, AppAskedUdp
<1>8. ASSUME socks[s].status = "UNBOUND", NEW p \in Port,
             ResolveSrcPort(AppRequest.connection, p), ports' = AssignPort(p, s),
             NEW d, d = bound(p), d.protocol # "udp",
             socks' = [socks EXCEPT ![s] = [@ EXCEPT !.status = "BOUND", !.connection = d]],
             NEW a, Receive("sock", "app2sock", <<ToApp(a)>>), UNCHANGED <<reqq, asked>>
      PROVE  ForwardInv'
  <2>1. ports[p] = 0 /\ PortsKept /\ d.srcport = p
    BY <1>6, <1>8
  <2>2. socks'[s].connection = d /\ \A t \in Sock : t # s => socks'[t] = socks[t]
    BY <1>2, <1>8 DEF GoodRecord, SockRecord
  <2>3. ~ HasPort(s) /\ socks'[s].connection.protocol # "udp"
    BY <1>5, <1>8, <2>2
  <2>4. KeptBy(s)
    BY <1>2, <2>1, <2>2, <2>3, OtherKept
  <2>5. ToApp(a).to = "sock2app"
    BY DEF ToApp
  <2> QED BY <1>1, <1>2, <1>8, <2>1, <2>2, <2>4, <2>5, AppTold
<1> QED BY <1>3, <1>7, <1>8 DEF SockBind

\* A bound datagram socket has the only forward of its port.
LEMMA BoundForward ==
    ASSUME Good, NoRequest, NEW s \in Sock, socks[s].connection.protocol = "udp",
           socks[s].status = "BOUND", NEW x \in Forwards,
           x.srcport = socks[s].connection.srcport
    PROVE  x = socks[s].connection
<1>1. /\ Held(x) /\ ForwardOK(x) /\ RecordOK(s) /\ PortAlone(s)
  BY GoodParts DEF ForwardInv, CallInv, Records
<1>2. ASSUME NEW t \in Sock, socks[t].connection = x
      PROVE  x = socks[s].connection
  <2>1. Owned(s) /\ ~ Listener(s)
    BY <1>1 DEF RecordOK, Listener
  <2>2. t = s
    BY <1>1, <1>2, <2>1 DEF PortAlone
  <2> QED BY <1>2, <2>2
<1>3. ASSUME NEW m \in Down("udp"), m.type = "CLOSE", m.connection = x
      PROVE  FALSE
  <2>1. DownOK(m)
    BY GoodParts DEF ForwardInv
  <2> QED BY <1>1, <1>3, <2>1 DEF DownOK, ForwardOK
<1> QED BY <1>1, <1>2, <1>3, NoForwardDown DEF Held

LEMMA SockConnectForwards ==
    ASSUME Good, clist' = clist, SockConnect
    PROVE  ForwardInv'
<1> SUFFICES ASSUME NEW s, s = AppRequest.sockfd, NEW c, c = socks[s].connection,
                    NEW proto, proto = c.protocol
             PROVE  ForwardInv'
  OBVIOUS
<1> DEFINE q == AppRequest.connection
           src == IF socks[s].status = "BOUND" THEN c.src ELSE MyIPAddr
           full(p) == [src |-> src, srcport |-> p, dest |-> q.dest,
                       destport |-> q.destport, protocol |-> proto]
           stat == IF proto = "udp" THEN "CONNECTED" ELSE "CONNECT_PENDING"
           type == IF proto = "udp" THEN "FORWARD" ELSE "CONNECT"
<1>1. AppCalls("mCONNECT")
  BY Zenon DEF SockConnect
<1>2. /\ s \in Sock /\ socks[s] \in GoodRecord /\ socks \in [Sock -> GoodRecord]
      /\ RecordOK(s) /\ c \in Connection
      /\ (socks[s].toApp => proto \in Transport) /\ q \in Connection
  BY <1>1, GoodParts, Named
<1>3. CASE Reject("EINVALID_OP") \/ Reject("ERESOURCE_UNAVAIL")
  BY <1>1, <1>3, AppRejectedForwards
<1>4. NoRequest /\ DatagramOK(s) /\ fifo["app2sock"] # <<>>
  BY <1>1, <1>2, Calling, GoodParts DEF ForwardInv
<1>5. ASSUME socks[s].status \in {"UNBOUND", "BOUND"}, socks[s].toApp,
             NEW p \in Port, SourcePort(s, q, p), NEW d, d = full(p),
             socks' = [socks EXCEPT ![s] = [@ EXCEPT !.status = stat, !.connection = d]],
             Record(proto, type, s),
             Receive("sock", "app2sock", <<Request(proto, type, d, 0)>>)
      PROVE  ForwardInv'
  <2>1. proto \in Transport /\ (proto = "udp" \/ proto = "tcp")
    BY <1>2, <1>5 DEF Transport
  <2>2. /\ d.protocol = proto /\ d.srcport = p /\ d.src = src
        /\ d.dest = q.dest /\ d.destport = q.destport
    BY <1>5
  <2>3. q.dest # IP_ADDRESS_ANY /\ q.destport # PORT_ANY
    <3>1. AppRequest \in ToSet(fifo["app2sock"]) /\ AppRequest.type = "mCONNECT"
      <4>1. fifo["app2sock"] \in Seq(MessageOf("app2sock"))
        BY GoodParts DEF PipesOK, Fifo
      <4>2. Head(fifo["app2sock"]) \in ToSet(fifo["app2sock"])
        BY <1>4, <4>1, ToSetTail
      <4> QED BY <1>1, <4>2 DEF AppRequest, AppCalls
    <3> QED BY <3>1, GoodParts DEF CallInv, AppCallOK
  <2>4. /\ socks'[s].status = stat /\ socks'[s].connection = d
        /\ \A t \in Sock : t # s => socks'[t] = socks[t]
    BY <1>2, <1>5 DEF GoodRecord, SockRecord
  <2>5. /\ proto = "udp" => stat = "CONNECTED" /\ type = "FORWARD"
        /\ proto # "udp" => type = "CONNECT"
        /\ type \in srrType \ {"STATUS"}
    BY DEF srrType
  \* The port is free, or it is that of the bound socket.
  <2>6. ASSUME socks[s].status = "UNBOUND"
        PROVE  /\ p # PORT_ANY /\ ports[p] = 0 /\ ports'[p] # 0 /\ PortsKept
               /\ src = MyIPAddr /\ ~ HasPort(s)
    <3>1. ResolveSrcPort(q, p) /\ ports' = AssignPort(p, s)
      BY <1>5, <2>6 DEF SourcePort
    <3>2. /\ p # PORT_ANY /\ ports[p] = 0 /\ ports'[p] = s
          /\ \A port \in Port : ports[port] # 0 => ports'[port] = ports[port]
      BY <1>2, <3>1, GoodParts, ResolvedPort
    <3>3. ~ HasPort(s)
      BY <1>4, <2>6, NoForwardDown DEF DatagramOK
    <3> QED BY <1>2, <2>6, <3>2, <3>3 DEF PortsKept, Sock
  <2>7. ASSUME socks[s].status = "BOUND"
        PROVE  /\ p = c.srcport /\ p # PORT_ANY /\ ports'[p] # 0 /\ PortsKept
               /\ src = c.src
    <3>1. p = c.srcport /\ ports' = ports
      BY <1>5, <2>7 DEF SourcePort
    <3>2. p # PORT_ANY /\ ports[p] # 0
      BY <1>2, <2>7, <3>1 DEF RecordOK
    <3> QED BY <2>7, <3>1, <3>2 DEF PortsKept
  <2> HIDE DEF full, src, stat, type, q
  <2>8. CASE proto = "tcp"
    <3>1. ~ HasPort(s) /\ socks'[s].connection.protocol # "udp" /\ PortsKept
      BY <1>5, <2>2, <2>4, <2>6, <2>7, <2>8 DEF HasPort
    <3>2. KeptBy(s)
      BY <1>2, <1>5, <2>2, <2>4, <2>6, <2>7, <3>1, OtherKept
    <3>3. "CONNECT" \in srrType \ {"STATUS"} /\ type = "CONNECT"
      BY <2>5, <2>8
    <3> QED BY <1>1, <1>2, <1>5, <2>4, <2>8, <3>1, <3>2, <3>3, AppAskedTcp
  <2>9. CASE proto = "udp"
    <3>1. /\ d.src = MyIPAddr /\ p # PORT_ANY /\ ports'[p] # 0 /\ PortsKept
          /\ p = c.srcport \/ ports[p] = 0
          /\ HasPort(s) => p = c.srcport
      <4>1. socks[s].status = "BOUND" => HasPort(s)
        BY <2>7, <2>9 DEF HasPort
      <4>2. socks[s].status = "BOUND" => c.src = MyIPAddr
        BY <1>4, <4>1 DEF DatagramOK
      <4> QED BY <1>5, <2>2, <2>6, <2>7, <4>2
    <3>2. ASSUME NEW x \in Forwards, x.srcport = p
          PROVE  x = RemoteOpen(d)
      <4>1. ports[p] # 0
        BY <3>2, GoodParts DEF ForwardInv, ForwardOK
      <4>2. socks[s].status = "BOUND"
        BY <1>5, <2>6, <4>1
      <4>3. x = c
        BY <1>2, <1>4, <2>7, <2>9, <3>2, <4>2, BoundForward
      <4>4. c = RemoteOpen(c)
        BY <1>4, <2>9, <4>2 DEF DatagramOK
      <4>5. d.src = c.src /\ d.srcport = c.srcport /\ d.protocol = c.protocol
        BY <2>2, <2>7, <4>2
      <4>6. RemoteOpen(d) = RemoteOpen(c)
        <5>1. d \in Connection
          BY <1>2, <1>5, <2>1 DEF full, src, q, Connection, IPAddress
        <5> QED BY <1>2, <4>5, <5>1 DEF RemoteOpen, Connection
      <4> QED BY <4>3, <4>4, <4>6
    <3>3. DatagramOK(s)'
      BY <2>2, <2>3, <2>4, <2>5, <2>9, <3>1 DEF DatagramOK, HasPeer
    <3>4. /\ Record("udp", "FORWARD", s) /\ "FORWARD" \in srrType \ {"STATUS"}
          /\ Receive("sock", "app2sock", <<Request("udp", "FORWARD", d, 0)>>)
      BY <1>5, <2>5, <2>9
    <3>5. /\ d.protocol = "udp" /\ d.srcport # PORT_ANY /\ ports'[d.srcport] # 0
          /\ \A x \in Forwards : x.srcport = d.srcport => x = RemoteOpen(d)
          /\ HasPort(s) => d.srcport = c.srcport
          /\ d.srcport = c.srcport \/ ports[d.srcport] = 0
      BY <2>2, <2>9, <3>1, <3>2
    <3>6. c = socks[s].connection /\ d = socks'[s].connection
      BY <2>4
    <3>7. /\ AppCalls("mCONNECT") /\ PortsKept /\ s \in Sock
          /\ \A t \in Sock : t # s => socks'[t] = socks[t]
      BY <1>1, <1>2, <2>4, <3>1
    <3>8. Asks("FORWARD", s, d)
      BY <3>1, <3>3, <3>5, <3>6 DEF Asks
    <3> QED BY <3>1, <3>4, <3>7, <3>8, AppAskedUdp
  <2> QED BY <2>1, <2>8, <2>9
<1> QED BY <1>3, <1>5 DEF SockConnect

LEMMA SockWriteForwards ==
    ASSUME Good, clist' = clist, SockWrite
    PROVE  ForwardInv'
<1> SUFFICES ASSUME NEW s, s = AppRequest.sockfd, NEW c, c = socks[s].connection,
                    NEW proto, proto = c.protocol, NEW data, data = AppRequest.data
             PROVE  ForwardInv'
  OBVIOUS
<1>1. AppCalls("mWRITE")
  BY Zenon DEF SockWrite
<1>2. /\ s \in Sock /\ socks[s] \in GoodRecord /\ socks \in [Sock -> GoodRecord]
      /\ RecordOK(s) /\ c \in Connection
      /\ (socks[s].toApp => proto \in Transport)
  BY <1>1, GoodParts, Named
<1>3. CASE Reject("EINVALID_OP")
  BY <1>1, <1>3, AppRejectedForwards
<1>4. ASSUME socks[s].toApp, socks' = SetStatus(s, "WRITE_PENDING"),
             Record(proto, "WRITE", s), UNCHANGED ports,
             Receive("sock", "app2sock", <<Request(proto, "WRITE", c, data)>>)
      PROVE  ForwardInv'
  <2>1. proto = "udp" \/ proto = "tcp"
    BY <1>2, <1>4 DEF Transport
  <2>2. PortsKept /\ "WRITE" \in srrType \ {"STATUS"}
    BY <1>4 DEF PortsKept, srrType
  <2>3. /\ KeptBy(s) /\ \A t \in Sock : t # s => socks'[t] = socks[t]
        /\ socks'[s].status = "WRITE_PENDING" /\ socks'[s].connection = c
    BY <1>2, <1>4, GoodParts, StatusKept, StatusIs
  <2>4. CASE proto = "tcp"
    <3>1. /\ Record("tcp", "WRITE", s)
          /\ Receive("sock", "app2sock", <<Request("tcp", "WRITE", c, data)>>)
      BY <1>4, <2>4
    <3> QED BY <1>1, <1>2, <2>2, <2>3, <3>1, AppAskedTcp
  <2>5. CASE proto = "udp"
    <3>1. /\ Record("udp", "WRITE", s)
          /\ Receive("sock", "app2sock", <<Request("udp", "WRITE", c, data)>>)
      BY <1>4, <2>5
    <3>2. DatagramOK(s)'
      <4>1. DatagramOK(s)
        BY <1>2, GoodParts DEF ForwardInv
      <4> QED BY <2>3, <4>1 DEF DatagramOK, HasPort, HasPeer
    <3>3. c.srcport # PORT_ANY => ports'[c.srcport] # 0
      BY <1>2, <1>4 DEF RecordOK
    <3>4. Asks("WRITE", s, c)
      BY <2>3, <2>5, <3>2, <3>3 DEF Asks
    <3> QED BY <1>1, <1>2, <2>2, <2>3, <3>1, <3>4, AppAskedUdp
  <2> QED BY <2>1, <2>4, <2>5
<1> QED BY <1>3, <1>4 DEF SockWrite

LEMMA SockCloseForwards ==
    ASSUME Good, clist' = clist, SockClose
    PROVE  ForwardInv'
<1> SUFFICES ASSUME NEW s, s = AppRequest.sockfd, NEW c, c = socks[s].connection,
                    NEW proto, proto = c.protocol, NEW data, data = AppRequest.data
             PROVE  ForwardInv'
  OBVIOUS
<1> DEFINE a == Response(s, "EOK")
<1>1. AppCalls("mCLOSE") /\ a.to = "sock2app"
  BY Zenon DEF SockClose, Response, ToApp
<1>2. /\ s \in Sock /\ socks[s] \in GoodRecord /\ socks \in [Sock -> GoodRecord]
      /\ RecordOK(s) /\ c \in Connection
      /\ (socks[s].toApp => proto \in Transport)
  BY <1>1, GoodParts, Named
<1>3. CASE Reject("EINVALID_OP")
  BY <1>1, <1>3, AppRejectedForwards
<1>4. ASSUME socks[s].toApp, socks' = CloseSocket(s),
             Record(proto, "CLOSE", s), UNCHANGED ports,
             Receive("sock", "app2sock", <<Request(proto, "CLOSE", c, data), a>>)
      PROVE  ForwardInv'
  <2> HIDE DEF a
  <2>1. proto = "udp" \/ proto = "tcp"
    BY <1>2, <1>4 DEF Transport
  <2>2. PortsKept /\ "CLOSE" \in srrType \ {"STATUS"}
    BY <1>4 DEF PortsKept, srrType
  <2>3. /\ \A t \in Sock : t # s => socks'[t] = socks[t]
        /\ socks'[s].connection.srcport = PORT_ANY /\ socks'[s].connection.protocol = "none"
    BY <1>2, <1>4 DEF CloseSocket, FreeRecord, NoConnection
  <2>4. CASE proto = "tcp"
    <3>1. /\ Record("tcp", "CLOSE", s)
          /\ Receive("sock", "app2sock", <<Request("tcp", "CLOSE", c, data), a>>)
      BY <1>4, <2>4
    <3>2. KeptBy(s)
      <4>1. ~ HasPort(s)
        BY <2>4 DEF HasPort
      <4> QED BY <1>2, <1>4, <4>1, GoodParts, FreedKept
    <3> QED BY <1>1, <1>2, <2>2, <2>3, <3>1, <3>2, AppAskedTcp
  <2>5. CASE proto = "udp"
    <3>1. /\ Record("udp", "CLOSE", s)
          /\ Receive("sock", "app2sock", <<Request("udp", "CLOSE", c, data), a>>)
      BY <1>4, <2>5
    <3>2. DatagramOK(s)'
      BY <2>3 DEF DatagramOK, HasPort
    <3>3. c.srcport # PORT_ANY => ports'[c.srcport] # 0
      BY <1>2, <1>4 DEF RecordOK
    <3>4. ASSUME c.srcport # PORT_ANY, NEW t \in Sock
          PROVE  socks'[t].connection.srcport # c.srcport
      <4>1. PortAlone(s)
        BY <1>2, GoodParts DEF CallInv, Records
      <4>2. Owned(s) /\ ~ Listener(s)
        BY <1>2, <2>5, <3>4 DEF RecordOK, Listener
      <4> QED BY <2>3, <3>4, <4>1, <4>2 DEF PortAlone
    <3>5. Asks("CLOSE", s, c)
      BY <2>3, <2>5, <3>2, <3>3, <3>4 DEF Asks
    <3> QED BY <1>1, <1>2, <2>2, <2>3, <3>1, <3>5, AppAskedUdp
  <2> QED BY <2>1, <2>4, <2>5
<1> QED BY <1>3, <1>4 DEF SockClose

LEMMA SockServesAppForwards ==
    ASSUME Good, clist' = clist, SockServesApp
    PROVE  ForwardInv'
<1>1. CASE SockOther
  BY <1>1, AppRejectedForwards DEF SockOther
<1> QED BY <1>1, SockSocketForwards, SockBindForwards, SockListenForwards,
           SockAcceptForwards, SockConnectForwards, SockReadForwards, SockWriteForwards,
           SockCloseForwards DEF SockServesApp

----------------------------------------------------------------------------
(* The messages of the transport modules *)

\* A message of a transport module is read, and nothing is asked.
LEMMA HeardForwards ==
    ASSUME Good, clist' = clist, NEW p \in Transport, NEW type, LowerSends(p, type),
           NEW sends, Receive("sock", UpperPipe[p], sends),
           \A i \in DOMAIN sends : sends[i].to = "sock2app" \/ sends[i].msg.type = "STATUS",
           ports' = ports, asked' = asked, Waits("udp")' \subseteq Waits("udp"),
           \A s \in Sock : KeptBy(s)
    PROVE  ForwardInv'
<1>1. Down("udp")' = Down("udp")
  BY GoodParts, Heard
<1>2. Replies("udp")' \subseteq Replies("udp")
  <2>1. UpperPipe[p] \in {"app2sock", "tcp2sock", "udp2sock"} /\ fifo[UpperPipe[p]] # <<>>
    BY DEF Transport, UpperPipe, LowerSends, GetNextEvent
  <2> QED BY <2>1, GoodParts, SockHeardReplies
<1>3. PortsKept
  BY DEF PortsKept
<1> QED BY <1>1, <1>2, <1>3, GoodParts, ForwardsKept

\* A WRITE of a transport module is answered.
LEMMA WriteForwards ==
    ASSUME Good, clist' = clist, NEW p \in Transport, LowerSends(p, "WRITE"),
           NEW sends, Receive("sock", UpperPipe[p], sends),
           \/ \E data, bytes, err : sends = <<Ack(p, data, bytes, err)>>
           \/ \E fd, data, bytes, err : sends = <<AppMessage(p, fd), Ack(p, data, bytes, err)>>,
           UNCHANGED <<ports, reqq, asked>>,
           \A s \in Sock : KeptBy(s) \/ socks'[s] = socks[s]
    PROVE  ForwardInv'
<1>1. /\ \A data, bytes, err : Ack(p, data, bytes, err).msg.type = "STATUS"
      /\ \A fd : AppMessage(p, fd).to = "sock2app"
  <2>1. Message(p) \in SockRequestResponse
    BY GoodParts, MessageType
  <2> QED BY <2>1 DEF Ack, AppMessage, ToLower, ToApp, SockRequestResponse
<1>2. \A i \in DOMAIN sends : sends[i].to = "sock2app" \/ sends[i].msg.type = "STATUS"
  <2>1. ASSUME NEW a, a.msg.type = "STATUS", sends = <<a>>
        PROVE  \A i \in DOMAIN sends : sends[i].to = "sock2app" \/ sends[i].msg.type = "STATUS"
    BY <2>1
  <2>2. ASSUME NEW b, b.to = "sock2app", NEW a, a.msg.type = "STATUS", sends = <<b, a>>
        PROVE  \A i \in DOMAIN sends : sends[i].to = "sock2app" \/ sends[i].msg.type = "STATUS"
    BY <2>2
  <2> QED BY <1>1, <2>1, <2>2
<1>3. Waits("udp")' = Waits("udp")
  BY DEF Waits
<1>4. \A s \in Sock : KeptBy(s)
  BY <1>3, GoodParts, SameKept
<1> QED BY <1>2, <1>3, <1>4, HeardForwards

LEMMA WritesForwards ==
    ASSUME Good, clist' = clist, NEW p \in Transport,
           WriteNoMatch(p) \/ WriteRefused(p) \/ WriteBuffered(p) \/ WriteRead(p)
    PROVE  ForwardInv'
<1>1. ASSUME LowerSends(p, "WRITE"), NEW data, NEW bytes, NEW err,
             Receive("sock", UpperPipe[p], <<Ack(p, data, bytes, err)>>), UNCHANGED sockVars
      PROVE  ForwardInv'
  <2>1. UNCHANGED <<ports, reqq, asked>> /\ \A t \in Sock : socks'[t] = socks[t]
    BY <1>1 DEF sockVars
  <2> QED BY <1>1, <2>1, WriteForwards
<1>2. CASE WriteBuffered(p)
  <2>1. PICK s \in Sock :
          /\ WriteFor(p, s, "CONNECTED")
          /\ socks' = [socks EXCEPT ![s] = [@ EXCEPT !.bin = socks[s].bin + Taken(p, s)]]
          /\ Receive("sock", UpperPipe[p],
               <<Ack(p, 0, Taken(p, s), IF Taken(p, s) > 0 THEN "EOK" ELSE "EBUF_SPACE")>>)
          /\ UNCHANGED <<ports, reqq, asked>>
    BY <1>2, Zenon DEF WriteBuffered
  <2>2. LowerSends(p, "WRITE") /\ socks[s].status = "CONNECTED"
    BY <2>1 DEF WriteFor
  <2>3. /\ socks'[s].connection = socks[s].connection /\ socks'[s].status = "CONNECTED"
        /\ \A t \in Sock : t # s => socks'[t] = socks[t]
    BY <2>1, <2>2, GoodParts DEF SockTypeOK, GoodRecord, SockRecord
  <2>4. KeptBy(s)
    BY <2>3 DEF KeptBy, HasPort
  <2> QED BY <2>1, <2>2, <2>3, <2>4, WriteForwards
<1>3. CASE WriteRead(p)
  <2>1. PICK s \in Sock :
          /\ WriteFor(p, s, "READ_PENDING")
          /\ socks' = SetStatus(s, "CONNECTED")
          /\ Receive("sock", UpperPipe[p],
               <<AppMessage(p, s), Ack(p, 0, Message(p).data, "EOK")>>)
          /\ UNCHANGED <<ports, reqq, asked>>
    BY <1>3, Zenon DEF WriteRead
  <2>2. LowerSends(p, "WRITE")
    BY <2>1 DEF WriteFor
  <2>3. KeptBy(s) /\ \A t \in Sock : t # s => socks'[t] = socks[t]
    BY <2>1, GoodParts, StatusKept
  <2> QED BY <2>1, <2>2, <2>3, WriteForwards
<1> QED BY <1>1, <1>2, <1>3 DEF WriteNoMatch, WriteRefused

LEMMA TcpWritesForwards ==
    ASSUME Good, clist' = clist,
           WriteAcceptFailed \/ WriteAccepted \/ WriteAcceptNoSock \/ WriteConnected
    PROVE  ForwardInv'
<1> SUFFICES ASSUME NEW c, c = Message("tcp").connection
             PROVE  ForwardInv'
  OBVIOUS
<1>1. CASE WriteAcceptFailed \/ WriteAcceptNoSock
  <2>1. PICK s \in Sock :
          /\ LowerSends("tcp", "WRITE")
          /\ socks' = SetStatus(s, "LISTENING")
          /\ \E sends :
               /\ Receive("sock", UpperPipe["tcp"], sends)
               /\ \/ \E data, bytes, err : sends = <<Ack("tcp", data, bytes, err)>>
                  \/ \E fd, data, bytes, err :
                       sends = <<AppMessage("tcp", fd), Ack("tcp", data, bytes, err)>>
          /\ UNCHANGED <<ports, reqq, asked>>
    <3>1. CASE WriteAcceptFailed
      BY <3>1 DEF WriteAcceptFailed, WriteFor
    <3>2. CASE WriteAcceptNoSock
      BY <3>2 DEF WriteAcceptNoSock, WriteFor
    <3> QED BY <1>1, <3>1, <3>2
  <2>2. KeptBy(s) /\ \A t \in Sock : t # s => socks'[t] = socks[t]
    BY <2>1, GoodParts, StatusKept
  <2> QED BY <2>1, <2>2, GoodParts, WriteForwards
<1>2. CASE WriteAccepted
  <2>1. PICK s \in Sock, new \in Sock :
          /\ WriteFor("tcp", s, "ACCEPT_PENDING")
          /\ FindFreeSock(new)
          /\ socks' = [SetStatus(s, "LISTENING") EXCEPT ![new] =
                         [@ EXCEPT !.status = "CONNECTED", !.toApp = TRUE, !.connection = c]]
          /\ Receive("sock", UpperPipe["tcp"],
               <<AppMessage("tcp", new),
                 Ack("tcp", Message("tcp").data, Message("tcp").bytes, "EOK")>>)
          /\ UNCHANGED <<ports, reqq, asked>>
    BY <1>2, Zenon DEF WriteAccepted
  <2>2. /\ LowerSends("tcp", "WRITE") /\ socks[s].status = "ACCEPT_PENDING"
        /\ socks \in [Sock -> GoodRecord] /\ c.protocol = "tcp"
        /\ c.srcport = socks[s].connection.srcport
    BY <2>1, GoodParts, WriteForParts
  <2>3. socks[new] = FreeRecord /\ new # s
    BY <2>1, <2>2, GoodParts DEF FindFreeSock, CallInv, Records, RecordOK
  <2>4. /\ socks'[s].status = "LISTENING" /\ socks'[s].connection = socks[s].connection
        /\ socks'[new].connection = c
        /\ \A t \in Sock : t # s /\ t # new => socks'[t] = socks[t]
    BY <2>1, <2>2, <2>3 DEF SetStatus, GoodRecord, SockRecord
  <2>5. KeptBy(s)
    BY <2>4 DEF KeptBy, HasPort
  <2>6. KeptBy(new)
    <3>1. ~ HasPort(new)
      BY <2>3 DEF HasPort, FreeRecord, NoConnection
    <3> QED BY <2>2, <2>4, <3>1, OtherKept
  <2> QED BY <2>1, <2>2, <2>4, <2>5, <2>6, GoodParts, WriteForwards
<1>3. CASE WriteConnected
  <2>1. PICK s \in Sock :
          /\ WriteFor("tcp", s, "CONNECT_PENDING")
          /\ socks' = IF Message("tcp").error # "EOK"
                        THEN CloseSocket(s)
                        ELSE [socks EXCEPT ![s] =
                                [@ EXCEPT !.status = "CONNECTED", !.connection = c]]
          /\ Receive("sock", UpperPipe["tcp"],
               <<AppMessage("tcp", s),
                 Ack("tcp", Message("tcp").data, Message("tcp").bytes, "EOK")>>)
          /\ UNCHANGED <<ports, reqq, asked>>
    BY <1>3, Zenon DEF WriteConnected
  <2>2. /\ LowerSends("tcp", "WRITE") /\ socks[s].status = "CONNECT_PENDING"
        /\ RecordOK(s) /\ socks \in [Sock -> GoodRecord] /\ socks[s].connection = c
    BY <2>1, GoodParts, WriteForParts
  <2>3. ~ HasPort(s)
    BY <2>2 DEF RecordOK, HasPort
  <2>4. KeptBy(s) /\ \A t \in Sock : t # s => socks'[t] = socks[t]
    <3>1. CASE socks' = CloseSocket(s)
      BY <2>3, <3>1, GoodParts, FreedKept
    <3>2. CASE socks' = [socks EXCEPT ![s] =
                           [@ EXCEPT !.status = "CONNECTED", !.connection = c]]
      <4>1. /\ socks'[s].status = "CONNECTED" /\ socks'[s].connection = c
            /\ \A t \in Sock : t # s => socks'[t] = socks[t]
        BY <2>2, <3>2 DEF GoodRecord, SockRecord
      <4> QED BY <2>2, <4>1 DEF KeptBy, HasPort
    <3> QED BY <2>1, <3>1, <3>2
  <2> QED BY <2>1, <2>2, <2>4, GoodParts, WriteForwards
<1> QED BY <1>1, <1>2, <1>3

\* A STATUS of a transport module is read.
LEMMA StatusForwards ==
    ASSUME Good, clist' = clist, NEW p \in Transport, NEW type, StatusFor(p, type),
           NEW sends, Receive("sock", UpperPipe[p], sends),
           sends = <<>> \/ \E fd : sends = <<AppMessage(p, fd)>>,
           NEW h, h = Head(reqq[p]),
           KeptBy(h.sock) \/ (socks'[h.sock] = socks[h.sock] /\ type # "FORWARD"),
           \A t \in Sock : t # h.sock => socks'[t] = socks[t]
    PROVE  ForwardInv'
<1>1. LowerSends(p, "STATUS") /\ ports' = ports /\ asked' = asked
  BY DEF StatusFor
<1>2. /\ h \in Waits(p) /\ h.type = type /\ Waits(p) = Waits(p)' \cup {h}
      /\ \A q \in Transport : q # p => Waits(q)' = Waits(q)
  <2>1. InOrder(p)
    BY DEF Good, RequestsInOrder
  <2> QED BY <2>1, GoodParts, OldestHeard
<1>3. \A i \in DOMAIN sends : sends[i].to = "sock2app" \/ sends[i].msg.type = "STATUS"
  BY DEF AppMessage, ToApp
<1>4. /\ Waits("udp")' \subseteq Waits("udp")
      /\ \A r \in Waits("udp") : r \in Waits("udp")' \/ (p = "udp" /\ r = h)
  BY <1>2, GoodParts
<1>5. ASSUME NEW t \in Sock
      PROVE  KeptBy(t)
  <2>1. CASE socks'[t] = socks[t] /\ (t = h.sock => type # "FORWARD")
    BY <1>2, <1>4, <2>1, GoodParts, SameKept
  <2> QED BY <2>1
<1> QED BY <1>1, <1>3, <1>4, <1>5, HeardForwards

LEMMA UDPStatusForwards ==
    ASSUME Good, clist' = clist, UDPStatusAnswers \/ UDPStatusIgnored
    PROVE  ForwardInv'
<1> SUFFICES ASSUME NEW h, h = Head(reqq["udp"]), NEW s, s = h.sock
             PROVE  ForwardInv'
  OBVIOUS
<1>1. CASE UDPStatusIgnored
  BY <1>1, GoodParts, StatusForwards DEF UDPStatusIgnored
<1>2. CASE UDPStatusAnswers
  <2> DEFINE stat == IF HasPeer(s) THEN "CONNECTED" ELSE "BOUND"
  <2>1. PICK type \in {"FORWARD", "WRITE"} :
          /\ StatusFor("udp", type)
          /\ socks' = IF type = "FORWARD" /\ Message("udp").error # "EOK"
                        THEN CloseSocket(s) ELSE SetStatus(s, stat)
          /\ Receive("sock", UpperPipe["udp"], <<AppMessage("udp", s)>>)
    BY <1>2, Zenon DEF UDPStatusAnswers
  <2>2. /\ h \in Waits("udp") /\ h.type = type /\ h.req = Message("udp").req /\ s \in Sock
    BY <2>1, GoodParts, OldestHeard
  \* Only a CLOSE is refused.
  <2>3. Message("udp").error = "EOK"
    <3>1. LowerSends("udp", "STATUS")
      BY <2>1 DEF StatusFor
    <3>2. fifo["udp2sock"] \in Seq(SockRequestResponse) /\ UpperPipe["udp"] = "udp2sock"
      BY GoodParts, StreamTypes DEF UpperPipe
    <3>3. fifo["udp2sock"] # <<>> /\ Message("udp") = Head(fifo["udp2sock"])
      BY <3>1, <3>2 DEF LowerSends, GetNextEvent, Message
    <3>4. Message("udp") \in ToSet(fifo["udp2sock"])
      BY <3>2, <3>3, ToSetTail
    <3>5. Message("udp") \in Replies("udp")
      BY <3>1, <3>2, <3>4 DEF Replies, LowerSends
    <3>6. RefusesClose(Message("udp"), h)
      BY <2>2, <3>5 DEF Good, ForwardInv
    <3> QED BY <2>1, <2>2, <3>6 DEF RefusesClose
  <2>4. /\ socks'[s].status = stat /\ socks'[s].connection = socks[s].connection
        /\ \A t \in Sock : t # s => socks'[t] = socks[t]
    BY <2>1, <2>2, <2>3, GoodParts, StatusIs DEF SockTypeOK
  <2>5. HasPort(s) /\ DatagramOK(s)
    <3>1. RequestOK("udp", h)
      BY <2>2, GoodParts DEF CallInv, Requested
    <3> QED BY <2>1, <2>2, <3>1, GoodParts
            DEF RequestOK, Answering, HasPort, ForwardInv
  <2>6. KeptBy(s)
    BY <2>2, <2>4, <2>5 DEF KeptBy, HasPort, DatagramOK
  <2> QED BY <2>1, <2>4, <2>6, GoodParts, StatusForwards
<1> QED BY <1>1, <1>2

LEMMA TCPStatusForwards ==
    ASSUME Good, clist' = clist, TCPStatusAnswers \/ TCPStatusIgnored
    PROVE  ForwardInv'
<1> SUFFICES ASSUME NEW h, h = Head(reqq["tcp"]), NEW s, s = h.sock
             PROVE  ForwardInv'
  OBVIOUS
<1>1. CASE TCPStatusIgnored
  <2>1. PICK type \in {"CONNECT", "ACCEPT", "CLOSE"} :
          /\ StatusFor("tcp", type) /\ socks' = socks
          /\ Receive("sock", UpperPipe["tcp"], <<>>)
    BY <1>1 DEF TCPStatusIgnored
  <2> QED BY <2>1, GoodParts, StatusForwards
<1>2. CASE TCPStatusAnswers
  <2>1. PICK type \in {"CONNECT", "ACCEPT", "WRITE"} :
          /\ StatusFor("tcp", type)
          /\ type # "WRITE" => Message("tcp").error # "EOK"
          /\ socks' = CASE type = "CONNECT" -> CloseSocket(s)
                         [] type = "ACCEPT"  -> SetStatus(s, "LISTENING")
                         [] type = "WRITE"   -> SetStatus(s, "CONNECTED")
          /\ Receive("sock", UpperPipe["tcp"], <<AppMessage("tcp", s)>>)
    BY <1>2, Zenon DEF TCPStatusAnswers
  <2>2. s \in Sock
    BY <2>1, GoodParts, OldestHeard
  <2>3. KeptBy(s) /\ \A t \in Sock : t # s => socks'[t] = socks[t]
    <3>1. CASE type = "CONNECT"
      <4>1. socks[s].status = "CONNECT_PENDING"
        BY <2>1, <3>1, GoodParts, RefusedWaits DEF PendingOf
      <4>2. ~ HasPort(s)
        BY <2>2, <4>1, GoodParts DEF CallInv, Records, RecordOK, HasPort
      <4> QED BY <2>1, <2>2, <3>1, <4>2, GoodParts, FreedKept
    <3>2. CASE type # "CONNECT"
      <4>1. socks' = SetStatus(s, "LISTENING") \/ socks' = SetStatus(s, "CONNECTED")
        BY <2>1, <3>2
      <4> QED BY <2>2, <4>1, GoodParts, StatusKept
    <3> QED BY <3>1, <3>2
  <2> QED BY <2>1, <2>3, GoodParts, StatusForwards
<1> QED BY <1>1, <1>2

LEMMA SockNextForwards ==
    ASSUME Good, clist' = clist, SockNext
    PROVE  ForwardInv'
<1>1. CASE SockServesUDP
  BY <1>1, GoodParts, WritesForwards, UDPStatusForwards DEF SockServesUDP
<1>2. CASE SockServesTCP
  BY <1>2, GoodParts, WritesForwards, TcpWritesForwards, TCPStatusForwards DEF SockServesTCP
<1> QED BY <1>1, <1>2, SockServesAppForwards DEF SockNext

\* The tables of the socket module and the list of the UDP module stay as they are.
LEMMA NothingForwards ==
    ASSUME Good, clist' = clist, UNCHANGED sockVars,
           Down("udp")' = Down("udp"), Replies("udp")' \subseteq Replies("udp")
    PROVE  ForwardInv'
<1>1. /\ Waits("udp")' = Waits("udp") /\ asked'["udp"] = asked["udp"] /\ PortsKept
      /\ \A s \in Sock : socks'[s] = socks[s]
  BY DEF sockVars, Waits, PortsKept
<1>2. \A s \in Sock : KeptBy(s)
  BY <1>1, GoodParts, SameKept
<1> QED BY <1>1, <1>2, GoodParts, ForwardsKept

LEMMA SockProcessForwards ==
    ASSUME Good, SockProcess
    PROVE  ForwardInv'
<1>1. CASE SockNext
  BY <1>1, SockNextForwards DEF SockProcess
<1>2. CASE Send("sock") /\ UNCHANGED sockVars
  BY <1>2, GoodParts, SendKeepsDown, SendKeepsReplies, NothingForwards DEF SockProcess
<1> QED BY <1>1, <1>2 DEF SockProcess

----------------------------------------------------------------------------
(* The UDP module *)

LEMMA Removed ==
    ASSUME NEW S, NEW q \in Seq(S), NEW i \in DOMAIN q, NEW r, r = RemoveAt(q, i)
    PROVE  /\ r \in Seq(S) /\ Len(q) \in Nat /\ Len(r) = Len(q) - 1
           /\ \A j \in 1 .. Len(r) : r[j] = q[IF j < i THEN j ELSE j + 1]
<1>1. Len(q) \in Nat /\ i \in 1 .. Len(q) /\ r \in Seq(S)
  BY RemoveAtType
<1> DEFINE a == SubSeq(q, 1, i - 1)
           b == SubSeq(q, i + 1, Len(q))
<1>2. a \in Seq(S) /\ Len(a) = i - 1 /\ \A j \in 1 .. i - 1 : a[j] = q[j]
  BY <1>1, SubSeqProperties
<1>3. b \in Seq(S) /\ Len(b) = Len(q) - i /\ \A j \in 1 .. Len(q) - i : b[j] = q[j + i]
  BY <1>1, SubSeqProperties
<1> HIDE DEF a, b
<1>4. r = a \o b
  BY DEF RemoveAt, a, b
<1>5. /\ Len(r) = Len(a) + Len(b)
      /\ \A j \in 1 .. Len(a) + Len(b) :
           r[j] = IF j <= Len(a) THEN a[j] ELSE b[j - Len(a)]
  <2>1. a \in Seq(S) /\ b \in Seq(S)
    BY <1>2, <1>3
  <2>2. /\ Len(a \o b) = Len(a) + Len(b)
        /\ \A j \in 1 .. Len(a) + Len(b) :
             (a \o b)[j] = IF j <= Len(a) THEN a[j] ELSE b[j - Len(a)]
    BY <2>1, ConcatProperties, Zenon
  <2> QED BY <1>4, <2>2, Zenon
<1>6. Len(r) = Len(q) - 1
  BY <1>1, <1>2, <1>3, <1>5
<1>7. ASSUME NEW j \in 1 .. Len(r)
      PROVE  r[j] = q[IF j < i THEN j ELSE j + 1]
  <2>1. CASE j < i
    BY <1>1, <1>2, <1>5, <1>6, <2>1
  <2>2. CASE ~ (j < i)
    <3>1. j - (i - 1) \in 1 .. Len(q) - i /\ (j - (i - 1)) + i = j + 1
      BY <1>1, <1>6, <2>2
    <3>2. r[j] = b[j - (i - 1)]
      BY <1>1, <1>2, <1>3, <1>5, <1>6, <2>2
    <3> QED BY <1>3, <2>2, <3>1, <3>2
  <2> QED BY <2>1, <2>2
<1> QED BY <1>1, <1>6, <1>7

\* No two connections of a list have the same port.
PortsDistinct(q) == \A j, k \in DOMAIN q : j # k => q[j].srcport # q[k].srcport

\* The ports of the forwards are distinct, so removing one leaves those of others.
LEMMA ForwardRemoved ==
    ASSUME clist \in Seq(Connection), OneForwardPerPort, NEW i \in DOMAIN clist,
           NEW r, r = RemoveAt(clist, i)
    PROVE  /\ r \in Seq(Connection)
           /\ \A x \in ToSet(r) : x \in Forwards /\ x.srcport # clist[i].srcport
           /\ PortsDistinct(r)
<1>1. /\ r \in Seq(Connection) /\ Len(clist) \in Nat /\ Len(r) = Len(clist) - 1
      /\ \A j \in 1 .. Len(r) : r[j] = clist[IF j < i THEN j ELSE j + 1]
  BY Removed
<1>2. DOMAIN clist = 1 .. Len(clist) /\ DOMAIN r = 1 .. Len(r)
  BY <1>1
<1>3. \A j \in DOMAIN r : \E k \in DOMAIN clist : k # i /\ r[j] = clist[k]
  <2> SUFFICES ASSUME NEW j \in DOMAIN r
               PROVE  \E k \in DOMAIN clist : k # i /\ r[j] = clist[k]
    OBVIOUS
  <2>1. CASE j < i
    BY <1>1, <1>2, <2>1
  <2>2. CASE ~ (j < i)
    <3>1. j + 1 \in DOMAIN clist /\ j + 1 # i /\ r[j] = clist[j + 1]
      BY <1>1, <1>2, <2>2
    <3> QED BY <3>1
  <2> QED BY <2>1, <2>2
<1>4. ASSUME NEW x \in ToSet(r)
      PROVE  x \in Forwards /\ x.srcport # clist[i].srcport
  <2>1. PICK j \in DOMAIN r : x = r[j]
    BY DEF ToSet
  <2>2. PICK k \in DOMAIN clist : k # i /\ x = clist[k]
    BY <1>3, <2>1
  <2> QED BY <2>2 DEF Forwards, ToSet, OneForwardPerPort
<1>5. ASSUME NEW j \in DOMAIN r, NEW k \in DOMAIN r, j # k
      PROVE  r[j].srcport # r[k].srcport
  <2> DEFINE m == IF j < i THEN j ELSE j + 1
             n == IF k < i THEN k ELSE k + 1
  <2>1. m \in DOMAIN clist /\ n \in DOMAIN clist /\ m # n
    BY <1>1, <1>2, <1>5
  <2>2. r[j] = clist[m] /\ r[k] = clist[n]
    BY <1>1, <1>2
  <2> HIDE DEF m, n
  <2> QED BY <2>1, <2>2 DEF OneForwardPerPort
<1>6. PortsDistinct(r)
  BY <1>5 DEF PortsDistinct
<1> QED BY <1>1, <1>4, <1>6

LEMMA ForwardAdded ==
    ASSUME NEW q \in Seq(Connection), NEW c \in Connection,
           PortsDistinct(q), \A x \in ToSet(q) : x.srcport # c.srcport,
           NEW r, r = Append(q, c)
    PROVE  ToSet(r) = ToSet(q) \cup {c} /\ PortsDistinct(r)
<1>1. ToSet(r) = ToSet(q) \cup {c}
  BY ToSetAppend
<1>2. /\ Len(q) \in Nat /\ DOMAIN q = 1 .. Len(q) /\ DOMAIN r = 1 .. Len(q) + 1
      /\ r[Len(q) + 1] = c /\ \A j \in 1 .. Len(q) : r[j] = q[j]
  OBVIOUS
<1>3. \A j \in DOMAIN q : q[j].srcport # c.srcport
  BY DEF ToSet
<1>4. ASSUME NEW j \in DOMAIN r, NEW k \in DOMAIN r, j # k
      PROVE  r[j].srcport # r[k].srcport
  <2>1. CASE j \in DOMAIN q /\ k \in DOMAIN q
    BY <1>2, <1>4, <2>1 DEF PortsDistinct
  <2>2. CASE j \notin DOMAIN q
    <3>1. j = Len(q) + 1 /\ k \in DOMAIN q
      BY <1>2, <1>4, <2>2
    <3> QED BY <1>2, <1>3, <3>1
  <2>3. CASE k \notin DOMAIN q
    <3>1. k = Len(q) + 1 /\ j \in DOMAIN q
      BY <1>2, <1>4, <2>3
    <3> QED BY <1>2, <1>3, <3>1
  <2> QED BY <2>1, <2>2, <2>3
<1>5. PortsDistinct(r)
  BY <1>4 DEF PortsDistinct
<1> QED BY <1>1, <1>5

\* What the module's handlers do to its pipes.
LEMMA UdpReadsFrom ==
    ASSUME PipesOK, NEW f \in {"ipmux2udp", "sock2udp"}, NEW sends, Receive("udp", f, sends)
    PROVE  /\ out'["sock"] = out["sock"] /\ fifo'[f] = Tail(fifo[f])
           /\ f # "sock2udp" => Down("udp")' = Down("udp")
           /\ \A a \in Replies("udp")' : a \in Replies("udp") \/
                \E i \in DOMAIN sends : /\ sends[i].to = "udp2sock" /\ sends[i].msg = a
                                        /\ a.type = "STATUS"
<1>1. /\ out'["sock"] = out["sock"] /\ out'["udp"] = sends /\ fifo'[f] = Tail(fifo[f])
      /\ fifo'["udp2sock"] = fifo["udp2sock"]
      /\ f # "sock2udp" => fifo'["sock2udp"] = fifo["sock2udp"]
  BY DEF Receive, PipesOK, Fifo
<1>2. LowerPipe["udp"] = "sock2udp" /\ UpperPipe["udp"] = "udp2sock"
  BY DEF LowerPipe, UpperPipe
<1>3. f # "sock2udp" => Down("udp")' = Down("udp")
  BY <1>1, <1>2, DownSame
<1>4. ASSUME NEW a \in Replies("udp")', a \notin Replies("udp")
      PROVE  \E i \in DOMAIN sends : /\ sends[i].to = "udp2sock" /\ sends[i].msg = a
                                     /\ a.type = "STATUS"
  <2>1. a.type = "STATUS" /\ a \in ToSet(fifo["udp2sock"]) \cup SentTo(sends, "udp2sock")
    BY <1>1, <1>2 DEF Replies
  <2>2. a \in SentTo(sends, "udp2sock")
    BY <1>2, <1>4, <2>1 DEF Replies
  <2> QED BY <2>1, <2>2 DEF SentTo, ToSet
<1> QED BY <1>1, <1>3, <1>4

\* A request is taken: m is the oldest on its way.
LEMMA UdpTakes ==
    ASSUME Good, NEW type, type # "STATUS", UdpAsked(type), NEW sends,
           Receive("udp", "sock2udp", sends), NEW m, m = SockRequest
    PROVE  /\ m \in Down("udp") /\ m.type = type /\ DownOK(m)
           /\ m.connection \in Connection /\ m.req \in Nat
           /\ Down("udp") = Down("udp")' \cup {m} /\ \A o \in Down("udp")' : m.req < o.req
           /\ \E r \in Waits("udp") : r.req = m.req
<1>1. m.type = type /\ fifo["sock2udp"] # <<>> /\ LowerPipe["udp"] = "sock2udp"
  BY DEF UdpAsked, GetNextEvent, LowerPipe
<1>2. out'["sock"] = out["sock"] /\ fifo'["sock2udp"] = Tail(fifo["sock2udp"])
  BY GoodParts, UdpReadsFrom
<1>3. Down("udp") = Down("udp")' \cup {m} /\ \A o \in Down("udp")' : m.req < o.req
  BY <1>1, <1>2, GoodParts, DownTaken DEF SockRequest
<1>4. m \in Down("udp")
  BY <1>3
<1>5. DownOK(m) /\ m.connection \in Connection /\ m.req \in Nat
  BY <1>4, GoodParts, DownPort, DownIs DEF ForwardInv
<1>6. \E r \in Waits("udp") : r.req = m.req
  BY <1>4, NumbersOfRequests
<1> QED BY <1>1, <1>3, <1>4, <1>5, <1>6

LEMMA UdpServes ==
    ASSUME Good, UNCHANGED sockVars, NEW type, type # "STATUS", UdpAsked(type), NEW sends,
           Receive("udp", "sock2udp", sends), NEW m, m = SockRequest,
           \A i \in DOMAIN sends : sends[i].to = "udp2sock" =>
              /\ sends[i].msg.req = m.req
              /\ type # "CLOSE" => sends[i].msg.error = "EOK",
           OneForwardPerPort',
           \A x \in Forwards' : ForwardOK(x) /\ Held(x)',
           \A x \in Forwards' : x \in Forwards \/ type = "FORWARD"
    PROVE  ForwardInv'
<1>1. /\ m \in Down("udp") /\ m.type = type /\ DownOK(m)
      /\ Down("udp") = Down("udp")' \cup {m} /\ \A o \in Down("udp")' : m.req < o.req
  BY UdpTakes
<1>2. /\ socks' = socks /\ ports' = ports /\ Waits("udp")' = Waits("udp")
      /\ asked'["udp"] = asked["udp"]
  BY DEF sockVars, Waits
<1>3. \A x \in Forwards' : ForwardOK(x)' /\ Held(x)'
  BY <1>2 DEF ForwardOK
<1>4. \A s \in Sock : DatagramOK(s)'
  <2> SUFFICES ASSUME NEW s \in Sock
               PROVE  DatagramOK(s)'
    OBVIOUS
  <2>1. DatagramOK(s) /\ (HasPort(s)' <=> HasPort(s)) /\ (HasPeer(s)' <=> HasPeer(s))
    BY <1>2, GoodParts DEF ForwardInv, HasPort, HasPeer
  <2> QED BY <1>2, <2>1 DEF DatagramOK
<1>5. ASSUME NEW o \in Down("udp")'
      PROVE  DownOK(o)'
  <2>1. o \in Down("udp") /\ m.req < o.req
    BY <1>1
  <2>2. DownOK(o) /\ o.req <= asked["udp"] /\ m.req \in Nat /\ o.req \in Nat
    BY <1>1, <2>1, NumbersOfRequests, GoodParts DEF ForwardInv
  <2>3. type # "FORWARD"
    BY <1>1, <2>1, <2>2, NumbersOfRequests DEF DownOK
  <2>4. \A x \in Forwards' : x \in Forwards
    BY <2>3
  <2> QED BY <1>2, <2>2, <2>4 DEF DownOK
<1>6. \A o \in Down("udp")', r \in Waits("udp")' : SameRequest(o, r)'
  <2> SUFFICES ASSUME NEW o \in Down("udp")', NEW r \in Waits("udp")
               PROVE  SameRequest(o, r)'
    BY <1>2
  <2>1. SameRequest(o, r)
    BY <1>1, GoodParts DEF ForwardInv
  <2> QED BY <1>2, <2>1 DEF SameRequest
<1>7. \A a \in Replies("udp")', r \in Waits("udp")' : RefusesClose(a, r)'
  <2> SUFFICES ASSUME NEW a \in Replies("udp")', NEW r \in Waits("udp"),
                      r.req = a.req, a.error # "EOK"
               PROVE  r.type = "CLOSE"
    BY <1>2 DEF RefusesClose
  <2>1. CASE a \in Replies("udp")
    BY <2>1, GoodParts DEF ForwardInv, RefusesClose
  <2>2. ASSUME NEW i \in DOMAIN sends, sends[i].to = "udp2sock", sends[i].msg = a
        PROVE  r.type = "CLOSE"
    <3>1. SameRequest(m, r)
      BY <1>1, GoodParts DEF ForwardInv
    <3>2. a.req = m.req /\ type = "CLOSE"
      BY <2>2
    <3> QED BY <1>1, <3>1, <3>2 DEF SameRequest
  <2> QED BY <2>1, <2>2, GoodParts, UdpReadsFrom
<1> QED BY <1>3, <1>4, <1>5, <1>6, <1>7 DEF ForwardInv

\* A datagram's forward is found by its port alone.
LEMMA MatchesPort ==
    ASSUME Good, NEW c \in Connection, c.src = MyIPAddr, c.protocol = "udp",
           c.srcport # PORT_ANY, NEW x \in Forwards,
           x.srcport = c.srcport => x = RemoteOpen(c)
    PROVE  Matches(x, c) <=> x.srcport = c.srcport
<1>1. ForwardOK(x) /\ x \in Connection
  BY GoodParts, ForwardIsTyped DEF ForwardInv
<1>2. Matches(x, c) => x.srcport = c.srcport
  BY <1>1 DEF Matches, MatchesSource, PortMatches, ForwardOK
<1>3. x.srcport = c.srcport => x.dest = IP_ADDRESS_ANY /\ x.destport = PORT_ANY
  BY DEF RemoteOpen, Connection
<1>4. x.srcport = c.srcport => Matches(x, c)
  BY <1>1, <1>3
     DEF Matches, MatchesSource, MatchesDest, PortMatches, AddressMatches, ForwardOK
<1> QED BY <1>2, <1>4

LEMMA UdpAddsForwards ==
    ASSUME Good, UNCHANGED sockVars, UdpAddsForward
    PROVE  ForwardInv'
<1> SUFFICES ASSUME NEW m, m = SockRequest, NEW c, c = m.connection
             PROVE  ForwardInv'
  OBVIOUS
<1> DEFINE k == UdpStatus(0, "EOK")
<1>1. UdpAsked("FORWARD") /\ Receive("udp", "sock2udp", <<k>>)
  BY DEF UdpAddsForward
<1>2. k.msg.req = m.req /\ k.msg.error = "EOK"
  BY DEF UdpStatus, ToSock
<1> HIDE DEF k
<1>3. \A i \in DOMAIN <<k>> : <<k>>[i] = k
  OBVIOUS
<1>4. /\ m \in Down("udp") /\ m.type = "FORWARD" /\ DownOK(m) /\ c \in Connection
      /\ \E r \in Waits("udp") : r.req = m.req
  BY <1>1, UdpTakes
<1>5. /\ c.protocol = "udp" /\ c.src = MyIPAddr /\ c.srcport # PORT_ANY
      /\ ports[c.srcport] # 0
      /\ \A x \in Forwards : x.srcport = c.srcport => x = RemoteOpen(c)
  BY <1>4 DEF DownOK
<1>6. PICK q \in Seq(Connection) :
        /\ \A x \in ToSet(q) : x \in Forwards /\ x.srcport # c.srcport
        /\ PortsDistinct(q)
        /\ clist' = Append(q, c)
  <2>1. CASE NoMatching(clist, c) /\ clist' = Append(clist, c)
    <3>1. \A x \in Forwards : x.srcport # c.srcport
      <4>1. \A x \in Forwards : ~ Matches(x, c)
        BY <2>1 DEF NoMatching, Forwards, ToSet
      <4> QED BY <1>4, <1>5, <4>1, MatchesPort
    <3> QED BY <2>1, <3>1, GoodParts
            DEF ForwardInv, OneForwardPerPort, PortsDistinct, Forwards
  <2>2. ASSUME NEW i \in DOMAIN clist, FindMatching(clist, c, i),
               clist' = Append(RemoveAt(clist, i), c)
        PROVE  \E q \in Seq(Connection) :
                 /\ \A x \in ToSet(q) : x \in Forwards /\ x.srcport # c.srcport
                 /\ PortsDistinct(q)
                 /\ clist' = Append(q, c)
    <3>1. clist[i] \in Forwards /\ Matches(clist[i], c)
      BY <2>2 DEF FindMatching, Forwards, ToSet
    <3>2. clist[i].srcport = c.srcport
      BY <1>4, <1>5, <3>1, MatchesPort
    <3>3. /\ RemoveAt(clist, i) \in Seq(Connection)
          /\ \A x \in ToSet(RemoveAt(clist, i)) :
               x \in Forwards /\ x.srcport # clist[i].srcport
          /\ PortsDistinct(RemoveAt(clist, i))
      BY <2>2, GoodParts, ForwardRemoved DEF ForwardInv
    <3> QED BY <2>2, <3>2, <3>3
  <2> QED BY <2>1, <2>2 DEF UdpAddsForward
<1>7. Forwards' = ToSet(q) \cup {c} /\ OneForwardPerPort'
  <2>1. \A x \in ToSet(q) : x.srcport # c.srcport
    BY <1>6
  <2>2. ToSet(clist') = ToSet(q) \cup {c} /\ PortsDistinct(clist')
    BY <1>4, <1>6, <2>1, ForwardAdded
  <2> QED BY <2>2 DEF Forwards, OneForwardPerPort, PortsDistinct
<1>8. ASSUME NEW x \in Forwards'
      PROVE  ForwardOK(x) /\ Held(x)'
  <2>1. CASE x = c
    <3>1. ForwardOK(x)
      BY <1>5, <2>1 DEF ForwardOK
    <3>2. PICK r \in Waits("udp") : r.req = m.req
      BY <1>4
    <3>3. SameRequest(m, r) /\ r.sock \in Sock
      BY <1>4, GoodParts, WaitsTypes DEF ForwardInv
    <3>4. socks'[r.sock].connection = c
      BY <1>4, <3>2, <3>3 DEF SameRequest, sockVars
    <3> QED BY <2>1, <3>1, <3>3, <3>4 DEF Held
  <2>2. CASE x # c
    <3>1. x \in Forwards /\ x.srcport # c.srcport
      BY <1>6, <1>7, <2>2
    <3>2. ForwardOK(x) /\ Held(x)
      BY <3>1, GoodParts DEF ForwardInv
    <3>3. \A o \in Down("udp") : o = m \/ o \in Down("udp")'
      BY <1>1, UdpTakes
    <3>4. \A o \in Down("udp") : o = m =>
            ~ (o.type = "FORWARD" /\ o.connection.srcport = x.srcport) /\ o.type # "CLOSE"
      BY <1>4, <3>1
    <3> QED BY <3>2, <3>3, <3>4 DEF Held, sockVars
  <2> QED BY <2>1, <2>2
<1> QED BY <1>1, <1>2, <1>3, <1>7, <1>8, UdpServes

\* What m held, when m is not its CLOSE, is still held.
LEMMA StillHeld ==
    ASSUME Good, UNCHANGED sockVars, NEW type \in {"WRITE", "CLOSE"}, UdpAsked(type),
           NEW sends, Receive("udp", "sock2udp", sends), NEW m, m = SockRequest,
           NEW x \in Forwards, type = "CLOSE" => m.connection # x
    PROVE  ForwardOK(x) /\ Held(x)'
<1>1. ForwardOK(x) /\ Held(x)
  BY GoodParts DEF ForwardInv
<1>2. /\ \A o \in Down("udp") : o = m \/ o \in Down("udp")'
      /\ m.type = type
  BY UdpTakes
<1>3. ~ (m.type = "FORWARD" /\ m.connection.srcport = x.srcport)
      /\ ~ (m.type = "CLOSE" /\ m.connection = x)
  BY <1>2
<1> QED BY <1>1, <1>2, <1>3 DEF Held, sockVars

LEMMA UdpClosesForwards ==
    ASSUME Good, UNCHANGED sockVars, UdpCloses
    PROVE  ForwardInv'
<1> SUFFICES ASSUME NEW m, m = SockRequest, NEW c, c = m.connection
             PROVE  ForwardInv'
  OBVIOUS
<1>1. PICK bytes, err :
        /\ Receive("udp", "sock2udp", <<UdpStatus(bytes, err)>>)
        /\ \/ NoMatching(clist, c) /\ UNCHANGED clist
           \/ \E i \in DOMAIN clist :
                FindMatching(clist, c, i) /\ clist' = RemoveAt(clist, i)
  BY DEF UdpCloses
<1> DEFINE k == UdpStatus(bytes, err)
<1>2. k.msg.req = m.req /\ UdpAsked("CLOSE") /\ Receive("udp", "sock2udp", <<k>>)
  BY <1>1 DEF UdpStatus, ToSock, UdpCloses
<1> HIDE DEF k
<1>3. \A i \in DOMAIN <<k>> : <<k>>[i] = k
  OBVIOUS
<1>4. ASSUME OneForwardPerPort', \A x \in Forwards' : x \in Forwards /\ c # x
      PROVE  ForwardInv'
  <2>1. \A x \in Forwards' : ForwardOK(x) /\ Held(x)'
    BY <1>2, <1>4, StillHeld
  <2> QED BY <1>2, <1>3, <1>4, <2>1, UdpServes
<1>5. \A x \in Forwards : ForwardOK(x) /\ x \in Connection /\ Matches(x, x)
  BY GoodParts, ForwardIsTyped
     DEF ForwardInv, Matches, MatchesSource, MatchesDest, PortMatches, AddressMatches
<1>6. CASE NoMatching(clist, c) /\ UNCHANGED clist
  <2>1. \A x \in Forwards : c # x
    BY <1>5, <1>6 DEF NoMatching, Forwards, ToSet
  <2>2. OneForwardPerPort' /\ Forwards' = Forwards
    BY <1>6, GoodParts DEF ForwardInv, OneForwardPerPort, Forwards
  <2> QED BY <1>4, <2>1, <2>2
<1>7. ASSUME NEW i \in DOMAIN clist, FindMatching(clist, c, i), clist' = RemoveAt(clist, i)
      PROVE  ForwardInv'
  <2>1. /\ \A x \in Forwards' : x \in Forwards /\ x.srcport # clist[i].srcport
        /\ OneForwardPerPort'
    <3>1. /\ \A x \in ToSet(clist') : x \in Forwards /\ x.srcport # clist[i].srcport
          /\ PortsDistinct(clist')
      BY <1>7, GoodParts, ForwardRemoved DEF ForwardInv
    <3> QED BY <3>1 DEF Forwards, OneForwardPerPort, PortsDistinct
  <2>2. ASSUME NEW x \in Forwards', c = x
        PROVE  FALSE
    <3>1. clist[i] \in Forwards /\ Matches(clist[i], c)
      BY <1>7 DEF FindMatching, Forwards, ToSet
    <3>2. x \in Forwards /\ ForwardOK(x) /\ ForwardOK(clist[i])
      BY <1>5, <2>1, <3>1
    <3>3. clist[i].srcport = x.srcport
      BY <2>2, <3>1, <3>2 DEF Matches, MatchesSource, PortMatches, ForwardOK
    <3> QED BY <2>1, <3>3
  <2> QED BY <1>4, <2>1, <2>2
<1> QED BY <1>1, <1>6, <1>7

LEMMA UdpWritesForwards ==
    ASSUME Good, UNCHANGED sockVars, UdpWrites
    PROVE  ForwardInv'
<1> SUFFICES ASSUME NEW m, m = SockRequest
             PROVE  ForwardInv'
  OBVIOUS
<1>1. PICK r, bytes : /\ UdpAsked("WRITE") /\ clist' = clist
                      /\ Receive("udp", "sock2udp", <<ToMux(r), UdpStatus(bytes, "EOK")>>)
  BY DEF UdpWrites
<1> DEFINE a == ToMux(r)
           k == UdpStatus(bytes, "EOK")
<1>2. a.to = "udp2ipmux" /\ k.msg.req = m.req /\ k.msg.error = "EOK"
  BY DEF UdpStatus, ToSock, ToMux
<1>3. Receive("udp", "sock2udp", <<a, k>>)
  BY <1>1
<1> HIDE DEF a, k
<1>4. \A i \in DOMAIN <<a, k>> : <<a, k>>[i] = a \/ <<a, k>>[i] = k
  OBVIOUS
<1>5. OneForwardPerPort' /\ Forwards' = Forwards
  BY <1>1, GoodParts DEF ForwardInv, OneForwardPerPort, Forwards
<1>6. \A x \in Forwards : ForwardOK(x) /\ Held(x)'
  BY <1>1, <1>3, StillHeld
<1>7. \A i \in DOMAIN <<a, k>> : <<a, k>>[i].to = "udp2sock" =>
        <<a, k>>[i].msg.req = m.req /\ <<a, k>>[i].msg.error = "EOK"
  BY <1>2, <1>4
<1> QED BY <1>1, <1>3, <1>5, <1>6, <1>7, UdpServes

LEMMA UdpQuietForwards ==
    ASSUME Good, UNCHANGED sockVars, UdpForwards \/ UdpUnreachable \/ UdpIgnoresStatus
    PROVE  ForwardInv'
<1>1. CASE UdpForwards \/ UdpUnreachable
  <2>1. PICK a : /\ a.to = "udp2ipmux" \/ a.msg.type # "STATUS"
                 /\ Receive("udp", "ipmux2udp", <<a>>) /\ clist' = clist
    <3>1. CASE UdpForwards
      <4>1. PICK r : /\ r.type = "WRITE" /\ Receive("udp", "ipmux2udp", <<ToSock(r)>>)
                     /\ clist' = clist
        BY <3>1 DEF UdpForwards
      <4>2. ToSock(r).msg.type # "STATUS"
        BY <4>1 DEF ToSock
      <4> QED BY <4>1, <4>2
    <3>2. CASE UdpUnreachable
      <4>1. PICK r : Receive("udp", "ipmux2udp", <<ToMux(r)>>) /\ clist' = clist
        BY <3>2 DEF UdpUnreachable
      <4>2. ToMux(r).to = "udp2ipmux"
        BY DEF ToMux
      <4> QED BY <4>1, <4>2
    <3> QED BY <1>1, <3>1, <3>2
  <2>2. \A i \in DOMAIN <<a>> : <<a>>[i] = a
    OBVIOUS
  <2>3. Down("udp")' = Down("udp") /\ Replies("udp")' \subseteq Replies("udp")
    BY <2>1, <2>2, GoodParts, UdpReadsFrom
  <2> QED BY <2>1, <2>3, NothingForwards
<1>2. CASE UdpIgnoresStatus
  <2>1. UdpAsked("STATUS") /\ Receive("udp", "sock2udp", <<>>) /\ clist' = clist
    BY <1>2 DEF UdpIgnoresStatus
  <2>2. /\ out'["sock"] = out["sock"] /\ fifo'["sock2udp"] = Tail(fifo["sock2udp"])
        /\ Replies("udp")' \subseteq Replies("udp")
    BY <2>1, GoodParts, UdpReadsFrom
  <2>3. /\ fifo["sock2udp"] # <<>> /\ Head(fifo["sock2udp"]).type = "STATUS"
        /\ LowerPipe["udp"] = "sock2udp"
    BY <2>1 DEF UdpAsked, GetNextEvent, SockRequest, LowerPipe
  <2>4. Down("udp")' = Down("udp")
    BY <2>2, <2>3, GoodParts, DownTaken
  <2> QED BY <2>1, <2>2, <2>4, NothingForwards
<1> QED BY <1>1, <1>2

LEMMA UdpProcessForwards ==
    ASSUME Good, UdpProcess
    PROVE  ForwardInv'
<1>1. CASE UdpNext
  BY <1>1, UdpQuietForwards, UdpWritesForwards, UdpAddsForwards, UdpClosesForwards
     DEF UdpNext, UdpProcess
<1>2. CASE Send("udp") /\ UNCHANGED clist
  <2>1. Down("udp")' = Down("udp")
    <3>1. /\ out'["sock"] = out["sock"] /\ Head(out["udp"]).to \in {"udp2sock", "udp2ipmux"}
          /\ \A f \in Fifo : f # Head(out["udp"]).to => fifo'[f] = fifo[f]
      BY <1>2, GoodParts, Sent
    <3>2. fifo'["sock2udp"] = fifo["sock2udp"] /\ LowerPipe["udp"] = "sock2udp"
      BY <3>1 DEF Fifo, LowerPipe
    <3> QED BY <3>1, <3>2, DownSame
  <2> QED BY <1>2, <2>1, GoodParts, SendKeepsReplies, NothingForwards DEF UdpProcess
<1> QED BY <1>1, <1>2 DEF UdpProcess

----------------------------------------------------------------------------
(* The processes that do not touch the pipes of the UDP module's requests *)

LEMMA OthersForwards ==
    ASSUME Good, App \/ TcpProcess \/ Network \/ UNCHANGED vars
    PROVE  ForwardInv'
<1>1. /\ UNCHANGED sockVars /\ clist' = clist /\ out' = out
      /\ \A f \in {"sock2udp", "udp2sock"} : fifo'[f] = fifo[f]
  <2>1. ASSUME NEW g \in Fifo \ {"sock2udp", "udp2sock"}, NEW q,
               fifo' = [fifo EXCEPT ![g] = q]
        PROVE  \A f \in {"sock2udp", "udp2sock"} : fifo'[f] = fifo[f]
    BY <2>1, GoodParts DEF PipesOK, Fifo
  <2>2. CASE App
    <3>1. CASE LibReturn
      BY <2>1, <2>2, <3>1 DEF LibReturn, App, Fifo
    <3>2. CASE LibCall
      <4>1. ASSUME NEW type, NEW fd, NEW c, NEW data, Call(type, fd, c, data)
            PROVE  out' = out /\ \A f \in {"sock2udp", "udp2sock"} : fifo'[f] = fifo[f]
        BY <2>1, <4>1 DEF Call, Fifo
      <4>2. out' = out /\ \A f \in {"sock2udp", "udp2sock"} : fifo'[f] = fifo[f]
        BY <3>2, <4>1 DEF LibCall, minet_socket, minet_bind, minet_listen, minet_accept,
              minet_connect, minet_read, minet_write, minet_close, minet_other
      <4> QED BY <2>2, <4>2 DEF App
    <3> QED BY <2>2, <3>1, <3>2 DEF App
  <2>3. CASE TcpProcess
    <3>1. ASSUME NEW c, NEW data, NEW err, PeerSends(c, data, err)
          PROVE  out' = out /\ \A f \in {"sock2udp", "udp2sock"} : fifo'[f] = fifo[f]
      BY <2>1, <3>1 DEF PeerSends, Fifo
    <3>2. CASE PeerAnswers
      BY <2>3, <3>2, GoodParts DEF PeerAnswers, PipesOK, Fifo, TcpProcess
    <3>3. CASE PeerIgnoresStatus
      BY <2>1, <2>3, <3>3 DEF PeerIgnoresStatus, Fifo, TcpProcess
    <3> QED BY <2>3, <3>1, <3>2, <3>3
            DEF TcpProcess, PeerNext, PeerFinishesOpen, PeerAccepts, PeerReceives
  <2>4. CASE Network
    <3>1. CASE NetTakes
      BY <2>1, <2>4, <3>1 DEF NetTakes, Network, Fifo
    <3>2. CASE NetDelivers
      <4>1. out' = out /\ \E d : fifo' = [fifo EXCEPT !["ipmux2udp"] = Append(@, d)]
        BY <3>2 DEF NetDelivers
      <4> QED BY <2>1, <2>4, <4>1 DEF Network, Fifo
    <3> QED BY <2>4, <3>1, <3>2 DEF Network
  <2>5. CASE UNCHANGED vars
    BY <2>5 DEF vars, sockVars
  <2> QED BY <2>2, <2>3, <2>4, <2>5
<1>2. LowerPipe["udp"] = "sock2udp" /\ UpperPipe["udp"] = "udp2sock"
  BY DEF LowerPipe, UpperPipe
<1>3. Down("udp")' = Down("udp")
  BY <1>1, <1>2, DownSame
<1>4. Replies("udp")' = Replies("udp")
  BY <1>1, RepliesSame
<1> QED BY <1>1, <1>3, <1>4, NothingForwards

----------------------------------------------------------------------------
(* The invariant *)

LEMMA InitForwards == Init => ForwardInv
<1> SUFFICES ASSUME Init PROVE ForwardInv
  OBVIOUS
<1>1. /\ \A f \in Fifo : fifo[f] = <<>>
      /\ out["sock"] = <<>> /\ out["udp"] = <<>> /\ clist = <<>>
      /\ socks = [s \in Sock |-> FreeRecord] /\ \A p \in Transport : reqq[p] = <<>>
  BY DEF Init, SockInit, SockStatusInit, UdpInit
<1>2. /\ "udp" \in Transport /\ LowerPipe["udp"] \in Fifo /\ UpperPipe["udp"] \in Fifo
  BY DEF Transport, LowerPipe, UpperPipe, Fifo
<1>3. Down("udp") = {} /\ Replies("udp") = {} /\ Waits("udp") = {} /\ Forwards = {}
  BY <1>1, <1>2, ToSetEmpty, SentToEmpty DEF Down, Replies, Waits, Forwards
<1>4. OneForwardPerPort
  BY <1>1 DEF OneForwardPerPort
<1>5. \A s \in Sock : DatagramOK(s)
  <2> SUFFICES ASSUME NEW s \in Sock
               PROVE  DatagramOK(s)
    OBVIOUS
  <2>1. socks[s].connection.protocol = "none"
    BY <1>1 DEF FreeRecord, NoConnection
  <2> QED BY <2>1 DEF DatagramOK, HasPort
<1> QED BY <1>3, <1>4, <1>5 DEF ForwardInv

LEMMA NextForwards ==
    TypeOK /\ RequestsInOrder /\ CallInv /\ ForwardInv /\ [Next]_vars => ForwardInv'
<1> SUFFICES ASSUME Good, [Next]_vars
             PROVE  ForwardInv'
  BY DEF Good
<1> QED BY SockProcessForwards, UdpProcessForwards, OthersForwards DEF Next

\* In every state the forwards are those of sockets, or of requests on their way that
\* replace or remove them.
THEOREM ForwardsCorrect == Spec => []ForwardInv
<1>1. Init => ForwardInv
  BY InitForwards
<1>2. TypeOK /\ RequestsInOrder /\ CallInv /\ ForwardInv /\ [Next]_vars => ForwardInv'
  BY NextForwards
<1> QED BY <1>1, <1>2, TypeCorrect, RequestsCorrect, CallsCorrect, PTL DEF Spec

\* No two forwards of the UDP module have the same port.
THEOREM OneForwardPerPortCorrect == Spec => []OneForwardPerPort
<1>1. ForwardInv => OneForwardPerPort
  BY DEF ForwardInv
<1> QED BY <1>1, ForwardsCorrect, PTL

LEMMA ForwardsMeanNoOrphan == TypeOK /\ ForwardInv => NoOrphanForward
<1> SUFFICES ASSUME TypeOK, ForwardInv, NEW i \in DOMAIN clist
             PROVE  \/ \E s \in Sock : socks[s].connection = clist[i]
                    \/ \E m \in Down("udp") : /\ m.type \in {"CLOSE", "FORWARD"}
                                             /\ MatchesSource(m.connection, clist[i])
  BY DEF NoOrphanForward
<1> DEFINE x == clist[i]
<1>1. x \in Forwards
  BY DEF Forwards, ToSet
<1> HIDE DEF x
<1>2. ForwardOK(x) /\ Held(x)
  BY <1>1 DEF ForwardInv
<1>3. ASSUME NEW m \in Down("udp"), m.type = "FORWARD", m.connection.srcport = x.srcport
      PROVE  MatchesSource(m.connection, x)
  <2>1. DownOK(m)
    BY DEF ForwardInv
  <2> QED BY <1>2, <1>3, <2>1
          DEF MatchesSource, AddressMatches, PortMatches, ForwardOK, DownOK
<1>4. MatchesSource(x, x)
  BY DEF MatchesSource, AddressMatches, PortMatches
<1>5. \/ \E s \in Sock : socks[s].connection = x
      \/ \E m \in Down("udp") : /\ m.type \in {"CLOSE", "FORWARD"}
                               /\ MatchesSource(m.connection, x)
  BY <1>2, <1>3, <1>4 DEF Held
<1> QED BY <1>5 DEF x

\* The UDP module forwards for no connection nobody has, unless the request that
\* removes or replaces its forward is on its way.
THEOREM NoOrphanForwardCorrect == Spec => []NoOrphanForward
<1>1. TypeOK /\ ForwardInv => NoOrphanForward
  BY ForwardsMeanNoOrphan
<1> QED BY <1>1, TypeCorrect, ForwardsCorrect, PTL
=============================================================================
