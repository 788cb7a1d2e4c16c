--------------------------- MODULE SockCallProofs ---------------------------
(***************************************************************************)
(* A call of the application is answered once, and what the sockets, their *)
(* ports and the TCP module know of each other, for every value of the     *)
(* constants.  The inductive invariant is CallInv of SockCalls.            *)
(***************************************************************************)
EXTENDS SockCalls, SockStackProofs, FiniteSetTheorems

----------------------------------------------------------------------------
(* The numbers of requests and answers *)

\* The requests the socket module waits for have different numbers.
LEMMA OneRecord ==
    ASSUME SockTypeOK, NEW p \in Transport, InOrder(p)
    PROVE  /\ \A r \in Waits(p) : r.req <= asked[p]
           /\ \A r, o \in Waits(p) : r.req = o.req => r = o
           /\ \A n \in Nat : asked[p] - Len(reqq[p]) < n /\ n <= asked[p] =>
                \E r \in Waits(p) : r.req = n
<1> DEFINE q == reqq[p]
           oldest == asked[p] - Len(q)
<1>1. /\ asked[p] \in Nat /\ Len(q) \in Nat /\ oldest \in Nat /\ DOMAIN q = 1 .. Len(q)
      /\ oldest + Len(q) = asked[p] /\ \A i \in DOMAIN q : q[i].req = oldest + i
  BY OrderParts
<1>2. \A r \in Waits(p) : \E i \in DOMAIN q : q[i] = r
  BY InToSet DEF Waits
<1>3. \A i \in DOMAIN q : q[i] \in Waits(p)
  BY InToSet DEF Waits
<1> HIDE DEF q, oldest
<1>4. \A r \in Waits(p) : r.req <= asked[p]
  BY <1>1, <1>2
<1>5. ASSUME NEW r \in Waits(p), NEW o \in Waits(p), r.req = o.req
      PROVE  r = o
  <2>1. PICK i \in DOMAIN q, j \in DOMAIN q : q[i] = r /\ q[j] = o
    BY <1>2
  <2>2. i = j
    BY <1>1, <1>5, <2>1
  <2> QED BY <2>1, <2>2
<1>6. ASSUME NEW n \in Nat, oldest < n, n <= asked[p]
      PROVE  \E r \in Waits(p) : r.req = n
  <2>1. n - oldest \in DOMAIN q /\ oldest + (n - oldest) = n
    BY <1>1, <1>6
  <2>2. q[n - oldest].req = n
    BY <1>1, <2>1
  <2> QED BY <1>3, <2>1, <2>2
<1> QED BY <1>4, <1>5, <1>6 DEF q, oldest

\* The types of what is on its way.
LEMMA DownTypes ==
    ASSUME PipesOK, NEW p \in Transport
    PROVE  /\ \A m \in Down(p) : m \in SockRequestResponse /\ m.req \in Nat
                                 /\ m.type # "STATUS"
           /\ \A m \in Answers(p) \cup Reports(p) :
                m \in SockRequestResponse /\ m.req \in Nat
<1>1. \A m \in SockRequestResponse : m.req \in Nat
  BY DEF SockRequestResponse
<1>2. \A m \in ToSet(fifo[LowerPipe[p]]) \cup ToSet(fifo[UpperPipe[p]]) :
        m \in SockRequestResponse
  BY StreamTypes, ToSetIn
<1>3. \A m \in SentTo(out["sock"], LowerPipe[p]) : m \in SockRequestResponse
  <2> TAKE m \in SentTo(out["sock"], LowerPipe[p])
  <2>1. PICK e \in ToSet(out["sock"]) : e.to = LowerPipe[p] /\ e.msg = m
    BY DEF SentTo
  <2>2. e \in Sends("sock")
    BY StreamTypes, ToSetIn
  <2> QED BY <2>1, <2>2 DEF Sends, SendTo, MessageOf, LowerPipe, Transport
<1> QED BY <1>1, <1>2, <1>3 DEF Down, Answers, Reports

\* A request on its way has been recorded, and is newer than any that is answered.
LEMMA DownNumbers ==
    ASSUME PipesOK, SockTypeOK, NEW p \in Transport, InOrder(p)
    PROVE  /\ \A m \in Down(p) : /\ m.req <= asked[p]
                                 /\ \E r \in Waits(p) : r.req = m.req
           /\ \A a \in Answers(p) : /\ a.req <= asked[p]
                                    /\ \E r \in Waits(p) : r.req = a.req
           /\ \A a \in Answers(p), m \in Down(p) : a.req < m.req
<1> DEFINE oldest == asked[p] - Len(reqq[p])
<1>1. asked[p] \in Nat /\ oldest \in Nat
  BY OrderParts
<1>2. PICK x, y, z \in 0 .. asked[p] :
                /\ x \in Nat /\ y \in Nat /\ z \in Nat
                /\ InTurn(Statuses(fifo[UpperPipe[p]]), oldest, x)
                /\ InTurn(StatusesTo(p, out["udp"]), x, y)
                /\ InTurn(Requests(fifo[LowerPipe[p]]), y, z)
                /\ InTurn(RequestsTo(p, out["sock"]), z, asked[p])
  BY OrderParts
<1>3. oldest <= x /\ x <= y /\ y <= z /\ z <= asked[p]
  BY <1>2 DEF InTurn
<1>4. \A n \in Nat : oldest < n /\ n <= asked[p] => \E r \in Waits(p) : r.req = n
  BY OneRecord
<1> HIDE DEF oldest
<1>5. ASSUME NEW m \in Down(p)
      PROVE  m.req \in Nat /\ y < m.req /\ m.req <= asked[p]
  <2>1. m.req \in Nat /\ m.type # "STATUS"
    BY DownTypes
  <2>2. CASE m \in ToSet(fifo[LowerPipe[p]])
    <3>1. y < m.req /\ m.req <= z
      BY <1>2, <2>1, <2>2, InRequests DEF InTurn
    <3> QED BY <1>1, <1>3, <2>1, <3>1
  <2>3. CASE m \in SentTo(out["sock"], LowerPipe[p])
    <3>1. z < m.req /\ m.req <= asked[p]
      BY <1>2, <2>1, <2>3, InRequestsTo DEF InTurn
    <3> QED BY <1>1, <1>3, <2>1, <3>1
  <2> QED BY <2>2, <2>3 DEF Down
<1>6. ASSUME NEW a \in Answers(p)
      PROVE  a.req \in Nat /\ oldest < a.req /\ a.req <= x
  <2>1. a.req \in Nat /\ a \in ToSet(fifo[UpperPipe[p]]) /\ a.type = "STATUS"
    BY DownTypes DEF Answers
  <2> QED BY <1>2, <2>1, InStatuses DEF InTurn
<1>7. \A m \in Down(p) : m.req <= asked[p] /\ \E r \in Waits(p) : r.req = m.req
  BY <1>1, <1>2, <1>3, <1>4, <1>5
<1>8. \A a \in Answers(p) : a.req <= asked[p] /\ \E r \in Waits(p) : r.req = a.req
  BY <1>1, <1>2, <1>3, <1>4, <1>6
<1>9. \A a \in Answers(p), m \in Down(p) : a.req < m.req
  BY <1>2, <1>3, <1>5, <1>6
<1> QED BY <1>7, <1>8, <1>9
----------------------------------------------------------------------------
(* What a step does to what is on its way *)

\* The socket module reads a message of the transport module p.
LEMMA UpTaken ==
    ASSUME PipesOK, NEW p \in Transport, NEW type, LowerSends(p, type),
           fifo'[UpperPipe[p]] = Tail(fifo[UpperPipe[p]])
    PROVE  /\ Reports(p)' \subseteq Reports(p) /\ Answers(p)' \subseteq Answers(p)
           /\ type # "STATUS" => Answers(p)' = Answers(p) /\ Message(p) \in Reports(p)
           /\ type = "STATUS" => Reports(p)' = Reports(p) /\ Message(p) \in Answers(p)
<1> DEFINE q == fifo[UpperPipe[p]]
<1>1. q \in Seq(SockRequestResponse) /\ q # <<>> /\ Message(p) = Head(q)
      /\ Message(p).type = type
  BY StreamTypes, MessageType DEF Message
<1>2. ToSet(q) = ToSet(Tail(q)) \cup {Message(p)}
  BY <1>1, ToSetTail
<1>3. /\ Reports(p) = {m \in ToSet(q) : m.type # "STATUS"}
      /\ Answers(p) = {m \in ToSet(q) : m.type = "STATUS"}
      /\ Reports(p)' = {m \in ToSet(Tail(q)) : m.type # "STATUS"}
      /\ Answers(p)' = {m \in ToSet(Tail(q)) : m.type = "STATUS"}
  BY DEF Reports, Answers
<1> HIDE DEF q
<1> QED BY <1>1, <1>2, <1>3

\* It hears of the oldest of its requests.
LEMMA OldestHeard ==
    ASSUME PipesOK, SockTypeOK, NEW p \in Transport, InOrder(p), NEW type, StatusFor(p, type),
           NEW h, h = Head(reqq[p])
    PROVE  /\ h \in Waits(p) /\ h.type = type /\ h.req = Message(p).req /\ h.sock \in Sock
           /\ Waits(p) = Waits(p)' \cup {h} /\ \A r \in Waits(p)' : h.req < r.req
           /\ \A q \in Transport : q # p => Waits(q)' = Waits(q)
           /\ asked' = asked
<1> DEFINE q == reqq[p]
           oldest == asked[p] - Len(q)
<1>1. /\ q \in Seq(RequestRecord) /\ q # <<>> /\ h = Head(q) /\ h.type = type
      /\ asked' = asked /\ reqq'[p] = Tail(q) /\ \A u \in Transport : u # p => reqq'[u] = reqq[u]
  BY DEF StatusFor, SockTypeOK
<1>2. h.req = Message(p).req
  BY StatusIsForOldest DEF StatusFor, LowerSends, GetNextEvent, Message
<1>3. ToSet(q) = ToSet(Tail(q)) \cup {h}
  BY <1>1, ToSetTail
<1>4. Waits(p) = ToSet(q) /\ Waits(p)' = ToSet(Tail(q))
  BY <1>1 DEF Waits
<1>5. /\ oldest \in Nat /\ \A i \in DOMAIN q : q[i].req = oldest + i
  BY OrderParts
<1>6. h.sock \in Sock /\ h \in Waits(p)
  BY <1>3, <1>4, WaitsTypes
<1>7. \A u \in Transport : u # p => Waits(u)' = Waits(u)
  BY <1>1 DEF Waits
<1> HIDE DEF q, oldest
<1>8. /\ \A i \in DOMAIN Tail(q) : Tail(q)[i].req = (oldest + 1) + i /\ i > 0 /\ i \in Nat
      /\ h.req = oldest + 1
  <2>1. h = q[1] /\ 1 \in DOMAIN q /\ Tail(q) \in Seq(RequestRecord)
    BY <1>1, TailIs
  <2>2. \A i \in DOMAIN Tail(q) : i > 0 /\ i \in Nat
    BY <2>1
  <2>3. \A i \in DOMAIN Tail(q) : Tail(q)[i].req = (oldest + 1) + i
    BY <1>1, <1>5, QueueTail
  <2> QED BY <1>5, <2>1, <2>2, <2>3
<1>9. ASSUME NEW r \in ToSet(Tail(q))
      PROVE  h.req < r.req
  <2>1. PICK i \in DOMAIN Tail(q) : Tail(q)[i] = r
    BY InToSet
  <2> QED BY <1>5, <1>8, <2>1
<1> QED BY <1>1, <1>2, <1>3, <1>4, <1>6, <1>7, <1>9

----------------------------------------------------------------------------
(* The place of the call *)

LEMMA ToldByFew ==
    /\ ToldBy(<<>>) = {}
    /\ \A a : ToldBy(<<a>>) = IF a.to = "sock2app" THEN {1} ELSE {}
    /\ \A a, b : ToldBy(<<a, b>>) = (IF a.to = "sock2app" THEN {1} ELSE {})
                                    \cup (IF b.to = "sock2app" THEN {2} ELSE {})
<1>1. \A a, b : /\ DOMAIN <<a, b>> = {1, 2} /\ <<a, b>>[1] = a /\ <<a, b>>[2] = b
                /\ DOMAIN <<a>> = {1} /\ <<a>>[1] = a
  OBVIOUS
<1>2. \A a : ToldBy(<<a>>) = IF a.to = "sock2app" THEN {1} ELSE {}
  BY <1>1 DEF ToldBy
<1>3. \A a, b : ToldBy(<<a, b>>) = (IF a.to = "sock2app" THEN {1} ELSE {})
                                    \cup (IF b.to = "sock2app" THEN {2} ELSE {})
  BY <1>1 DEF ToldBy
<1> QED BY <1>2, <1>3 DEF ToldBy

\* A step that moves neither the call nor what stands for it.
LEMMA CallKept ==
    ASSUME OneCall, waiting' = waiting, fifo'["app2sock"] = fifo["app2sock"],
           fifo'["sock2app"] = fifo["sock2app"],
           ToldBy(out'["sock"]) = ToldBy(out["sock"]),
           \A p \in Transport : \A r :
              r.type \in Answering(p) => (r \in Waits(p)' <=> r \in Waits(p)),
           \A s \in Sock : socks'[s].status \in Pending <=> socks[s].status \in Pending,
           NoFreeSock => NoFreeSock'
    PROVE  OneCall'
<1>1. /\ NoCall' <=> NoCall
      /\ NoReply' <=> NoReply
      /\ NoRequest' <=> NoRequest
      /\ NoPending' <=> NoPending
  BY DEF NoCall, NoReply, NoRequest, NoPending
<1>2. OneReply => OneReply'
  <2>1. \A i : ToldBy(out'["sock"]) = {i} => i \in DOMAIN out'["sock"]
    BY DEF ToldBy
  <2> QED BY <2>1 DEF OneReply
<1>3. OneRequest => OneRequest'
  BY DEF OneRequest
<1>4. OnePending => OnePending'
  BY DEF OnePending
<1> QED BY <1>1, <1>2, <1>3, <1>4
        DEF OneCall, Idle, Called, Answered, AtLower, AtSocket, Lost

\* The application is told.
LEMMA Told ==
    ASSUME NEW k, ToldBy(out'["sock"]) = {k}, fifo'["sock2app"] = <<>>
    PROVE  OneReply'
<1>1. k \in DOMAIN out'["sock"]
  BY DEF ToldBy
<1> QED BY <1>1 DEF OneReply
----------------------------------------------------------------------------
(* What the TCP module can know *)

LEMMA LessTouched ==
    ASSUME Reports("tcp")' \subseteq Reports("tcp"), UNCHANGED peerVars, NEW port
    PROVE  Touched(port)' => Touched(port)
  BY DEF Touched, peerVars

\* The records of listeners and bound sockets after a step of the socket module: a
\* listener was one, or was bound; a bound socket was, or its port is fresh.
ListenerFrom(s) ==
    LET c == socks[s].connection
        d == socks'[s].connection
    IN
    /\ Listener(s)' => \/ Listener(s) /\ d = c
                       \/ /\ socks[s].status = "BOUND" /\ c.protocol = "tcp"
                          /\ d.srcport = c.srcport
    /\ socks'[s].status = "BOUND" /\ d.protocol = "tcp" =>
         \/ socks[s].status = "BOUND" /\ d = c
         \/ d.srcport \in Port \ {PORT_ANY} /\ ports[d.srcport] = 0

ListenersFrom == \A s \in Sock : ListenerFrom(s)

LEMMA ListenersKept ==
    ASSUME Listeners, KnownPorts, ListenersFrom, UNCHANGED peerVars,
           Reports("tcp")' \subseteq Reports("tcp"),
           NEW s \in Sock, NEW c, c = socks'[s].connection
    PROVE  /\ Listener(s)' =>
                /\ ~ Touched(c.srcport)' \/ c \in listening'
                /\ \A m \in Down("tcp") : m.type = "CLOSE" => m.connection # c
           /\ socks'[s].status = "BOUND" /\ c.protocol = "tcp" =>
                /\ ~ Touched(c.srcport)'
                /\ \A m \in Down("tcp") : m.type = "CLOSE" => m.connection.srcport # c.srcport
<1> DEFINE b == socks[s].connection
<1>1. listening' = listening /\ \A port : Touched(port)' => Touched(port)
  BY LessTouched DEF peerVars
<1>2. /\ Listener(s)' => \/ Listener(s) /\ c = b
                         \/ /\ socks[s].status = "BOUND" /\ b.protocol = "tcp"
                            /\ c.srcport = b.srcport
      /\ socks'[s].status = "BOUND" /\ c.protocol = "tcp" =>
           \/ socks[s].status = "BOUND" /\ c = b
           \/ c.srcport \in Port \ {PORT_ANY} /\ ports[c.srcport] = 0
  BY DEF ListenersFrom, ListenerFrom
<1>3. /\ Listener(s) =>
           /\ ~ Touched(b.srcport) \/ b \in listening
           /\ \A m \in Down("tcp") : m.type = "CLOSE" => m.connection # b
      /\ socks[s].status = "BOUND" /\ b.protocol = "tcp" =>
           /\ ~ Touched(b.srcport)
           /\ \A m \in Down("tcp") : m.type = "CLOSE" => m.connection.srcport # b.srcport
  BY DEF Listeners
<1>4. CASE Listener(s)'
  BY <1>1, <1>2, <1>3, <1>4 DEF Listener
<1>5. CASE socks'[s].status = "BOUND" /\ c.protocol = "tcp"
  <2>1. CASE c.srcport \in Port \ {PORT_ANY} /\ ports[c.srcport] = 0
    <3>1. ~ Touched(c.srcport)
      BY <2>1 DEF KnownPorts
    <3>2. \A m \in Down("tcp") : m.connection.srcport # c.srcport
      BY <2>1 DEF KnownPorts
    <3>3. ~ Listener(s)'
      BY <1>5 DEF Listener
    <3> QED BY <1>1, <3>1, <3>2, <3>3
  <2>2. CASE socks[s].status = "BOUND" /\ c = b
    <3>1. ~ Listener(s)'
      BY <1>5 DEF Listener
    <3> QED BY <1>1, <1>3, <1>5, <2>2, <3>1
  <2> QED BY <1>2, <1>5, <2>1, <2>2
<1> QED BY <1>4, <1>5

\* A step of the socket module that asks the TCP module nothing.
LEMMA TcpKept ==
    ASSUME TcpInv, UNCHANGED peerVars,
           Down("tcp")' = Down("tcp"), Waits("tcp")' \subseteq Waits("tcp"),
           asked'["tcp"] = asked["tcp"],
           Reports("tcp")' \subseteq Reports("tcp"), Answers("tcp")' \subseteq Answers("tcp"),
           \A port \in Port : ports[port] # 0 => ports'[port] # 0,
           \A m \in Down("tcp") : m.connection.srcport \in Port,
           ListenersFrom,
           \A r \in Waits("tcp")' : r.type \in {"CONNECT", "ACCEPT"} /\ Refusable(r.req) =>
              /\ socks'[r.sock].status = socks[r.sock].status
              /\ socks'[r.sock].connection = socks[r.sock].connection
    PROVE  TcpInv'
<1> USE DEF TcpInv
<1>1. /\ opening' = opening /\ listening' = listening /\ established' = established
      /\ \A port : Touched(port)' => Touched(port)
  BY LessTouched DEF peerVars
<1>2. \A m : Undecided(m)' <=> Undecided(m)
  BY <1>1 DEF Undecided
<1>3. \A n : Refusable(n)' => Refusable(n)
  BY <1>2 DEF Refusable
<1>4. Refusals'
  BY <1>1, <1>3 DEF Refusals
<1>5. Linked'
  <2> SUFFICES ASSUME NEW m \in Down("tcp"), NEW r \in Waits("tcp")', r.req = m.req
               PROVE  /\ r.type = m.type
                      /\ Undecided(m) => socks'[r.sock].connection = m.connection
    BY <1>2 DEF Linked
  <2>1. r.type = m.type /\ (Undecided(m) => socks[r.sock].connection = m.connection)
    BY DEF Linked
  <2>2. Undecided(m) => r.type \in {"CONNECT", "ACCEPT"} /\ Refusable(r.req)
    BY <2>1 DEF Undecided, Refusable
  <2> QED BY <2>1, <2>2
<1>6. TcpConnections'
  BY <1>1 DEF TcpConnections
<1>7. KnownPorts'
  BY <1>1 DEF KnownPorts
<1>8. Listeners'
  BY ListenersKept DEF Listeners
<1>9. ClosedLast'
  BY DEF ClosedLast
<1> QED BY <1>4, <1>5, <1>6, <1>7, <1>8, <1>9
\* The socket module makes a request of the TCP module, while no call waits for a
\* connection.
LEMMA AskedOfTcp ==
    ASSUME PipesOK, SockTypeOK, InOrder("tcp"), TcpInv, NoPending, UNCHANGED peerVars,
           NEW m \in SockRequestResponse, NEW r \in RequestRecord,
           m.req = asked["tcp"] + 1, r.req = m.req, r.type = m.type,
           Down("tcp")' = Down("tcp") \cup {m}, Waits("tcp")' = Waits("tcp") \cup {r},
           asked'["tcp"] = asked["tcp"] + 1,
           Reports("tcp")' = Reports("tcp"), Answers("tcp")' = Answers("tcp"),
           \A port \in Port : ports[port] # 0 => ports'[port] # 0,
           m.connection.srcport # PORT_ANY => ports'[m.connection.srcport] # 0,
           ListenersFrom,
           m.type \in {"CONNECT", "ACCEPT"} =>
              /\ m.connection.protocol = "tcp"
              /\ socks'[r.sock].status = PendingOf[r.type]
              /\ socks'[r.sock].connection = m.connection,
           Undecided(m) => ~ Touched(m.connection.srcport),
           m.type = "CONNECT" => m.connection.dest # IP_ADDRESS_ANY,
           m.type = "ACCEPT" =>
              \A o \in Down("tcp") : o.type = "CLOSE" => o.connection # m.connection,
           m.type = "CLOSE" =>
              \A s \in Sock :
                /\ Listener(s)' => m.connection # socks'[s].connection
                /\ socks'[s].status = "BOUND" /\ socks'[s].connection.protocol = "tcp" =>
                     m.connection.srcport # socks'[s].connection.srcport
    PROVE  TcpInv'
<1> USE DEF TcpInv
<1> DEFINE p == "tcp"
<1>1. p \in Transport
  BY DEF Transport
<1>2. /\ \A o \in Down(p) : o.req \in Nat /\ o.req <= asked[p] /\ \E q \in Waits(p) : q.req = o.req
      /\ \A a \in Answers(p) : a.req \in Nat /\ a.req <= asked[p]
                               /\ \E q \in Waits(p) : q.req = a.req
      /\ \A q \in Waits(p) : q.req \in Nat /\ q.req <= asked[p] /\ q.sock \in Sock
      /\ asked[p] \in Nat
  <2>1. InOrder(p) /\ asked[p] \in Nat
    BY <1>1 DEF SockTypeOK
  <2> HIDE DEF p
  <2>2. \A o \in Down(p) : o.req \in Nat /\ o.req <= asked[p] /\ \E q \in Waits(p) : q.req = o.req
    BY <1>1, <2>1, DownNumbers, DownTypes
  <2>3. \A a \in Answers(p) : a.req \in Nat /\ a.req <= asked[p]
                               /\ \E q \in Waits(p) : q.req = a.req
    BY <1>1, <2>1, DownNumbers, DownTypes
  <2>4. \A q \in Waits(p) : q.req \in Nat /\ q.req <= asked[p] /\ q.sock \in Sock
    BY <1>1, <2>1, OneRecord, WaitsTypes
  <2> QED BY <2>1, <2>2, <2>3, <2>4
<1>3. /\ opening' = opening /\ listening' = listening /\ established' = established
      /\ \A port : Touched(port)' <=> Touched(port)
  BY DEF peerVars, Touched
<1>4. \A o : Undecided(o)' <=> Undecided(o)
  BY <1>3 DEF Undecided
\* Nothing older can be refused.
<1>5. \A q \in Waits(p) : q.type \in {"CONNECT", "ACCEPT"} => ~ Refusable(q.req)
  <2> TAKE q \in Waits(p)
  <2>1. socks[q.sock].status \notin {"CONNECT_PENDING", "ACCEPT_PENDING"}
    BY <1>2 DEF NoPending, Pending
  <2>2. PendingOf["CONNECT"] = "CONNECT_PENDING" /\ PendingOf["ACCEPT"] = "ACCEPT_PENDING"
    BY DEF PendingOf
  <2> QED BY <2>1, <2>2 DEF Refusals
<1>6. \A q \in Waits(p) : Refusable(q.req)' => Refusable(q.req)
  BY <1>2, <1>4 DEF Refusable
<1>7. Refusals'
  <2> SUFFICES ASSUME NEW q \in Waits(p)', q.type \in {"CONNECT", "ACCEPT"}, Refusable(q.req)'
               PROVE  /\ q.req = asked'[p]
                      /\ socks'[q.sock].status = PendingOf[q.type]
                      /\ ~ Touched(socks'[q.sock].connection.srcport)
    BY <1>3 DEF Refusals
  <2>1. q = r
    BY <1>5, <1>6
  <2>2. Undecided(m)
    <3>1. \A a \in Answers(p) : a.req # r.req
      BY <1>2
    <3>2. \A o \in Down(p) : o.req # r.req
      BY <1>2
    <3> QED BY <2>1, <3>1, <3>2, <1>4 DEF Refusable
  <2> QED BY <2>1, <2>2
<1>8. Linked'
  <2> SUFFICES ASSUME NEW o \in Down(p)', NEW q \in Waits(p)', q.req = o.req
               PROVE  /\ q.type = o.type
                      /\ Undecided(o) => socks'[q.sock].connection = o.connection
    BY <1>4 DEF Linked
  <2>1. CASE o \in Down(p)
    <3>1. q \in Waits(p)
      BY <1>2, <2>1
    <3>2. q.type = o.type
      BY <2>1, <3>1 DEF Linked
    <3>3. ~ Undecided(o)
      <4>1. Undecided(o) => q.type \in {"CONNECT", "ACCEPT"} /\ Refusable(q.req)
        BY <2>1, <3>2 DEF Undecided, Refusable
      <4> QED BY <1>5, <3>1, <4>1
    <3> QED BY <3>2, <3>3
  <2>2. CASE o = m
    <3>1. q = r
      BY <1>2, <2>2
    <3>2. Undecided(m) => m.type \in {"CONNECT", "ACCEPT"}
      BY DEF Undecided
    <3> QED BY <2>2, <3>1, <3>2
  <2> QED BY <2>1, <2>2
<1>9. TcpConnections'
  BY <1>3 DEF TcpConnections
<1>10. KnownPorts'
  <2>1. \A o \in Down(p) : o.connection.srcport \in Port
    BY <1>1, DownTypes DEF SockRequestResponse, Connection
  <2> QED BY <1>3, <2>1 DEF KnownPorts
<1>11. Listeners'
  BY ListenersKept DEF Listeners
<1>12. ClosedLast'
  <2> SUFFICES ASSUME NEW a \in Down(p)', NEW o \in Down(p)', a.type = "ACCEPT",
                      o.type = "CLOSE", a.connection = o.connection
               PROVE  a.req < o.req
    BY DEF ClosedLast
  <2>1. CASE a \in Down(p) /\ o \in Down(p)
    BY <2>1 DEF ClosedLast
  <2>2. CASE a \in Down(p) /\ o = m
    BY <1>2, <2>2
  <2>3. a = m => o \in Down(p)
    OBVIOUS
  <2> QED BY <2>1, <2>2, <2>3
<1> QED BY <1>7, <1>8, <1>9, <1>10, <1>11, <1>12
\* The TCP module answers a request.
LEMMA PeerAnswersTcp ==
    ASSUME PipesOK, SockTypeOK, InOrder("tcp"), Records, TcpInv, PeerAnswers,
           UNCHANGED sockVars
    PROVE  TcpInv'
<1> USE DEF TcpInv
<1> DEFINE r == PeerRequest
           c == r.connection
           D == Down("tcp")
           W == Waits("tcp")
           A == Answers("tcp")
<1>1. /\ fifo["sock2tcp"] # <<>> /\ r = Head(fifo["sock2tcp"]) /\ r.type # "STATUS"
      /\ out' = out /\ socks' = socks /\ ports' = ports /\ reqq' = reqq /\ asked' = asked
  BY DEF PeerAnswers, PeerRequest, sockVars
<1>2. PICK err \in {"EOK", "ECONN_FAILED"} :
         /\ (r.type = "ACCEPT" /\ c \in listening) => err = "EOK"
         /\ opening' = IF r.type = "CONNECT" /\ err = "EOK" THEN opening \cup {c}
                                                            ELSE opening \ {c}
         /\ listening' = CASE r.type = "ACCEPT" /\ err = "EOK" -> listening \cup {c}
                           [] r.type = "CLOSE" -> listening \ {c}
                           [] OTHER -> listening
         /\ established' = IF r.type = "CLOSE" THEN established \ {c} ELSE established
         /\ fifo' = [fifo EXCEPT !["sock2tcp"] = Tail(@),
                       !["tcp2sock"] = Append(@,
                          [type |-> "STATUS", connection |-> c, data |-> 0,
                           bytes |-> r.data, error |-> err, req |-> r.req])]
  BY <1>1, Zenon DEF PeerAnswers
<1> DEFINE a == [type |-> "STATUS", connection |-> c, data |-> 0,
                 bytes |-> r.data, error |-> err, req |-> r.req]
<1>3. /\ fifo'["sock2tcp"] = Tail(fifo["sock2tcp"])
      /\ fifo'["tcp2sock"] = Append(fifo["tcp2sock"], a)
  BY <1>2 DEF PipesOK, Fifo
<1>4. "tcp" \in Transport /\ LowerPipe["tcp"] = "sock2tcp" /\ UpperPipe["tcp"] = "tcp2sock"
  BY DEF Transport, LowerPipe, UpperPipe
<1>5. D = D' \cup {r} /\ \A m \in D' : r.req < m.req
  <2> HIDE DEF r
  <2> QED BY <1>1, <1>3, <1>4, DownTaken
<1>6. W' = W
  BY <1>1 DEF Waits
<1>7. a \in SockRequestResponse
  BY <1>4, <1>5, DownTypes DEF SockRequestResponse, srrType, Error
<1>8. ToSet(fifo'["tcp2sock"]) = ToSet(fifo["tcp2sock"]) \cup {a}
  <2>1. fifo["tcp2sock"] \in Seq(SockRequestResponse)
    BY <1>4, StreamTypes
  <2> HIDE DEF a
  <2> QED BY <1>3, <1>7, <2>1, ToSetAppend
<1>9. A' = A \cup {a} /\ Reports("tcp")' = Reports("tcp")
  BY <1>4, <1>8 DEF Answers, Reports
<1>10. a.req = r.req /\ a.error = err
  OBVIOUS
<1> HIDE DEF a, r, D, W, A
<1>11. /\ \A m \in D : m.req \in Nat
       /\ \A b \in A : b.req \in Nat
       /\ \A b \in A, m \in D : b.req < m.req
  BY <1>4, DownTypes, DownNumbers DEF D, A
<1>12. PICK q \in W : q.req = r.req
  BY <1>4, <1>5, DownNumbers DEF D, W
<1>13. q.type = r.type /\ (Undecided(r) => socks[q.sock].connection = c)
  BY <1>5, <1>12 DEF Linked, D, W
<1>14. \A o \in W : o.req = r.req => o = q
  BY <1>4, <1>12, OneRecord DEF W
<1> DEFINE granted == Undecided(r) /\ err = "EOK"
\* What is decided stays decided, unless a CLOSE of it came later.
<1>15. \A m \in D' : Undecided(m)' => Undecided(m)
  <2> SUFFICES ASSUME NEW m \in D', m.type = "ACCEPT", m.connection \notin listening',
                      m.connection \in listening
               PROVE  FALSE
    BY DEF Undecided
  <2>1. r.type = "CLOSE" /\ m.connection = c
    BY <1>2
  <2>2. m.req < r.req
    BY <1>5, <2>1 DEF ClosedLast, D
  <2> QED BY <1>5, <1>11, <2>2
<1>16. \A o \in W : o.type \in {"CONNECT", "ACCEPT"} /\ Refusable(o.req)'
                      => Refusable(o.req)
  <2> SUFFICES ASSUME NEW o \in W, o.type \in {"CONNECT", "ACCEPT"}, o.req = r.req,
                      err # "EOK"
               PROVE  Refusable(o.req)
    <3>1. \A n : Refusable(n)' => \/ \E m \in D' : m.req = n /\ Undecided(m)'
                                  \/ \E b \in A' : b.req = n /\ b.error # "EOK"
      BY DEF Refusable, D, A
    <3>2. \A n : \/ \E m \in D : m.req = n /\ Undecided(m)
                 \/ \E b \in A : b.req = n /\ b.error # "EOK"
                 => Refusable(n)
      BY DEF Refusable, D, A
    <3> QED BY <1>5, <1>9, <1>10, <1>15, <3>1, <3>2
  <2>1. r.type \in {"CONNECT", "ACCEPT"} /\ (r.type = "ACCEPT" => c \notin listening)
    BY <1>2, <1>13, <1>14
  <2>2. Undecided(r)
    BY <2>1 DEF Undecided
  <2> QED BY <1>5, <2>2 DEF Refusable, D
<1>17. Undecided(r) => /\ q.req = asked["tcp"] /\ q.type \in {"CONNECT", "ACCEPT"}
                       /\ socks[q.sock].status = PendingOf[q.type]
  <2>1. Undecided(r) => r.type \in {"CONNECT", "ACCEPT"} /\ Refusable(r.req)
    BY <1>5 DEF Undecided, Refusable, D
  <2> QED BY <1>12, <1>13, <2>1 DEF Refusals, W
<1>18. granted => \A o \in W : o.type \in {"CONNECT", "ACCEPT"} => ~ Refusable(o.req)'
  <2> SUFFICES ASSUME granted, NEW o \in W, o.type \in {"CONNECT", "ACCEPT"},
                      Refusable(o.req)'
               PROVE  FALSE
    OBVIOUS
  <2>1. o.req = asked["tcp"]
    BY <1>16 DEF Refusals, W
  <2>2. o.req = r.req
    BY <1>12, <1>17, <2>1
  <2>3. \/ \E m \in D' : m.req = r.req
        \/ \E b \in A : b.req = r.req
    BY <1>9, <1>10, <2>2 DEF Refusable, D, A
  <2> QED BY <1>5, <1>11, <2>3
<1>19. \A port : Touched(port)' => Touched(port) \/ (granted /\ port = c.srcport)
  <2>1. opening' \cup listening' \cup established'
          \subseteq opening \cup listening \cup established
                    \cup (IF granted THEN {c} ELSE {})
    BY <1>2 DEF Undecided
  <2> HIDE DEF granted
  <2> QED BY <1>9, <2>1 DEF Touched
\* A granted request is that of the owner of its port.
<1>20. granted => /\ c.srcport # PORT_ANY /\ ports[c.srcport] = q.sock /\ q.sock \in Sock
                  /\ socks[q.sock].connection = c
                  /\ socks[q.sock].status = PendingOf[r.type]
  <2>1. q.sock \in Sock
    BY <1>4, WaitsTypes DEF W
  <2>2. PendingOf["CONNECT"] = "CONNECT_PENDING" /\ PendingOf["ACCEPT"] = "ACCEPT_PENDING"
    BY DEF PendingOf
  <2>3. granted => socks[q.sock].status \in {"ACCEPT_PENDING", "CONNECT_PENDING"}
    BY <1>17, <2>2
  <2>4. granted => Owned(q.sock)
    BY <2>1, <2>3 DEF Records, RecordOK
  <2> QED BY <1>13, <1>17, <2>1, <2>4 DEF Owned
<1>21. Refusals'
  <2> SUFFICES ASSUME NEW o \in W, o.type \in {"CONNECT", "ACCEPT"}, Refusable(o.req)',
                      NEW port, port = socks[o.sock].connection.srcport
               PROVE  /\ o.req = asked["tcp"]
                      /\ socks[o.sock].status = PendingOf[o.type]
                      /\ ~ Touched(port)'
    BY <1>1, <1>6 DEF Refusals, W
  <2>1. /\ o.req = asked["tcp"]
        /\ socks[o.sock].status = PendingOf[o.type]
        /\ ~ Touched(socks[o.sock].connection.srcport)
    BY <1>16 DEF Refusals, W
  <2>2. ~ granted
    BY <1>18
  <2> HIDE DEF granted
  <2> QED BY <1>19, <2>1, <2>2
<1>22. Linked'
  BY <1>1, <1>5, <1>6, <1>15 DEF Linked, D, W
<1>23. TcpConnections'
  <2>1. /\ r.type = "CONNECT" => c.dest # IP_ADDRESS_ANY
        /\ r.type \in {"CONNECT", "ACCEPT"} => c.protocol = "tcp"
    BY <1>5 DEF TcpConnections, D
  <2>2. opening' \cup established' \subseteq
          opening \cup established \cup (IF r.type = "CONNECT" THEN {c} ELSE {})
    BY <1>2
  <2>3. listening' \subseteq listening \cup (IF r.type = "ACCEPT" THEN {c} ELSE {})
    BY <1>2
  <2> QED BY <1>5, <1>9, <2>1, <2>2, <2>3 DEF TcpConnections, D
<1>24. KnownPorts'
  <2>1. granted => ports[c.srcport] # 0
    BY <1>20 DEF Sock
  <2> HIDE DEF granted
  <2> QED BY <1>1, <1>5, <1>19, <2>1 DEF KnownPorts, D
<1>25. Listeners'
  <2> SUFFICES ASSUME NEW s \in Sock, NEW b, b = socks[s].connection
               PROVE  /\ Listener(s) =>
                           /\ ~ Touched(b.srcport)' \/ b \in listening'
                           /\ \A m \in D' : m.type = "CLOSE" => m.connection # b
                      /\ socks[s].status = "BOUND" /\ b.protocol = "tcp" =>
                           /\ ~ Touched(b.srcport)'
                           /\ \A m \in D' : m.type = "CLOSE" => m.connection.srcport # b.srcport
    BY <1>1 DEF Listeners, Listener, D
  <2>1. /\ Listener(s) =>
           /\ ~ Touched(b.srcport) \/ b \in listening
           /\ \A m \in D : m.type = "CLOSE" => m.connection # b
        /\ socks[s].status = "BOUND" /\ b.protocol = "tcp" =>
           /\ ~ Touched(b.srcport)
           /\ \A m \in D : m.type = "CLOSE" => m.connection.srcport # b.srcport
    BY DEF Listeners, D
  <2>2. Listener(s) \/ socks[s].status = "BOUND" => Owned(s)
    BY DEF Records, RecordOK, Listener
  <2>3. granted /\ c.srcport = b.srcport /\ Owned(s) => s = q.sock
    BY <1>20 DEF Owned
  <2>4. PendingOf["CONNECT"] = "CONNECT_PENDING" /\ PendingOf["ACCEPT"] = "ACCEPT_PENDING"
    BY DEF PendingOf
  <2>5. ASSUME Listener(s)
        PROVE  /\ ~ Touched(b.srcport)' \/ b \in listening'
               /\ \A m \in D' : m.type = "CLOSE" => m.connection # b
    <3>1. CASE granted /\ c.srcport = b.srcport
      <4>1. r.type = "ACCEPT" /\ c = b
        <5>1. socks[s].connection = c /\ socks[s].status = PendingOf[r.type]
          BY <1>20, <2>2, <2>3, <2>5, <3>1
        <5>2. r.type \in {"CONNECT", "ACCEPT"}
          BY <3>1 DEF Undecided
        <5> QED BY <2>4, <2>5, <5>1, <5>2 DEF Listener
      <4>2. b \in listening'
        BY <1>2, <3>1, <4>1
      <4> QED BY <1>5, <2>1, <2>5, <4>2
    <3>2. CASE ~ (granted /\ c.srcport = b.srcport)
      <4>1. Touched(b.srcport)' => Touched(b.srcport)
        BY <1>19, <3>2
      <4>2. b \in listening => b \in listening'
        <5>1. r.type = "CLOSE" => c # b
          BY <1>5, <2>1, <2>5
        <5> QED BY <1>2, <5>1
      <4> QED BY <1>5, <2>1, <2>5, <4>1, <4>2
    <3> QED BY <3>1, <3>2
  <2>6. ASSUME socks[s].status = "BOUND", b.protocol = "tcp"
        PROVE  /\ ~ Touched(b.srcport)'
               /\ \A m \in D' : m.type = "CLOSE" => m.connection.srcport # b.srcport
    <3>1. ~ (granted /\ c.srcport = b.srcport)
      <4> SUFFICES ASSUME granted, c.srcport = b.srcport
                   PROVE  FALSE
        OBVIOUS
      <4>1. socks[s].status = PendingOf[r.type]
        BY <1>20, <2>2, <2>3, <2>6
      <4>2. r.type \in {"CONNECT", "ACCEPT"}
        BY DEF Undecided
      <4> QED BY <2>4, <2>6, <4>1, <4>2
    <3>2. Touched(b.srcport)' => Touched(b.srcport)
      BY <1>19, <3>1
    <3> QED BY <1>5, <2>1, <2>6, <3>2
  <2> QED BY <2>5, <2>6
<1>26. ClosedLast'
  BY <1>5 DEF ClosedLast, D
<1> QED BY <1>21, <1>22, <1>23, <1>24, <1>25, <1>26
\* A step that leaves all this alone.
LEMMA TcpSame ==
    ASSUME PipesOK, TcpInv, UNCHANGED <<sockVars, peerVars>>, Down("tcp")' = Down("tcp"),
           fifo'[UpperPipe["tcp"]] = fifo[UpperPipe["tcp"]]
    PROVE  TcpInv'
<1>1. /\ Waits("tcp")' = Waits("tcp") /\ asked' = asked
      /\ Reports("tcp")' = Reports("tcp") /\ Answers("tcp")' = Answers("tcp")
      /\ socks' = socks /\ ports' = ports
  BY DEF Waits, Reports, Answers, sockVars
<1>2. ListenersFrom
  BY <1>1 DEF ListenersFrom, ListenerFrom, Listener
<1>3. \A m \in Down("tcp") : m.connection.srcport \in Port
  <2>1. "tcp" \in Transport
    BY DEF Transport
  <2> QED BY <2>1, DownTypes DEF SockRequestResponse, Connection
<1> QED BY <1>1, <1>2, <1>3, TcpKept
\* The TCP module reports something of a port it knows.
LEMMA PeerReportsTcp ==
    ASSUME PipesOK, TcpInv, UNCHANGED <<sockVars, out>>, NEW w \in SockRequestResponse,
           fifo' = [fifo EXCEPT !["tcp2sock"] = Append(@, w)],
           opening' \subseteq opening, listening' = listening,
           established' \subseteq established \cup {w.connection},
           Touched(w.connection.srcport), w.connection.dest # IP_ADDRESS_ANY,
           w.connection.protocol = "tcp", w.type = "WRITE", w.bytes = w.data
    PROVE  TcpInv'
<1> USE DEF TcpInv
<1>1. /\ fifo["tcp2sock"] \in Seq(SockRequestResponse)
      /\ fifo'["tcp2sock"] = Append(fifo["tcp2sock"], w)
      /\ fifo'["sock2tcp"] = fifo["sock2tcp"] /\ out' = out
      /\ socks' = socks /\ ports' = ports /\ reqq' = reqq /\ asked' = asked
  <2>1. UpperPipe["tcp"] = "tcp2sock" /\ "tcp" \in Transport
    BY DEF UpperPipe, Transport
  <2> QED BY <2>1, StreamTypes DEF PipesOK, Fifo, sockVars
<1>2. ToSet(fifo'["tcp2sock"]) = ToSet(fifo["tcp2sock"]) \cup {w}
  BY <1>1, ToSetAppend
<1>3. /\ Down("tcp")' = Down("tcp") /\ Waits("tcp")' = Waits("tcp")
      /\ Answers("tcp")' = Answers("tcp")
      /\ Reports("tcp")' = Reports("tcp") \cup {w}
  BY <1>1, <1>2 DEF Down, Waits, Answers, Reports, LowerPipe, UpperPipe
<1>4. \A port : Touched(port)' => Touched(port)
  <2> SUFFICES ASSUME NEW port, Touched(port)'
               PROVE  Touched(port)
    OBVIOUS
  <2>1. CASE port = w.connection.srcport
    BY <2>1
  <2>2. CASE port # w.connection.srcport
    BY <1>3, <2>2 DEF Touched
  <2> QED BY <2>1, <2>2
<1>5. \A m : Undecided(m)' <=> Undecided(m)
  BY DEF Undecided
<1>6. \A n : Refusable(n)' <=> Refusable(n)
  BY <1>3, <1>5 DEF Refusable
<1>7. Refusals'
  <2> SUFFICES ASSUME NEW r \in Waits("tcp"), r.type \in {"CONNECT", "ACCEPT"},
                      Refusable(r.req), NEW port, port = socks[r.sock].connection.srcport
               PROVE  /\ r.req = asked["tcp"] /\ socks[r.sock].status = PendingOf[r.type]
                      /\ ~ Touched(port)'
    BY <1>1, <1>3, <1>6 DEF Refusals
  <2> QED BY <1>4 DEF Refusals
<1>8. Linked'
  BY <1>1, <1>3, <1>5 DEF Linked
<1>9. TcpConnections'
  BY <1>3 DEF TcpConnections
<1>10. KnownPorts'
  BY <1>1, <1>3, <1>4 DEF KnownPorts
<1>11. Listeners'
  <2> SUFFICES ASSUME NEW s \in Sock, NEW b, b = socks[s].connection
               PROVE  /\ Listener(s) =>
                           /\ ~ Touched(b.srcport)' \/ b \in listening
                           /\ \A m \in Down("tcp") : m.type = "CLOSE" => m.connection # b
                      /\ socks[s].status = "BOUND" /\ b.protocol = "tcp" =>
                           /\ ~ Touched(b.srcport)'
                           /\ \A m \in Down("tcp") :
                                m.type = "CLOSE" => m.connection.srcport # b.srcport
    BY <1>1, <1>3 DEF Listeners, Listener
  <2> QED BY <1>4 DEF Listeners
<1>12. ClosedLast'
  BY <1>3 DEF ClosedLast
<1> QED BY <1>7, <1>8, <1>9, <1>10, <1>11, <1>12

LEMMA PeerNextTcp ==
    ASSUME PipesOK, SockTypeOK, PeerTypeOK, InOrder("tcp"), Records, TcpInv, PeerNext,
           UNCHANGED sockVars
    PROVE  TcpInv'
<1>1. ASSUME NEW c \in Connection, NEW data \in Nat, NEW err \in {"EOK", "ECONN_FAILED"},
             PeerSends(c, data, err), opening' \subseteq opening, listening' = listening,
             established' \subseteq established \cup {c}, Touched(c.srcport),
             c.dest # IP_ADDRESS_ANY, c.protocol = "tcp"
      PROVE  TcpInv'
  <2> DEFINE w == [type |-> "WRITE", connection |-> c, data |-> data,
                   bytes |-> data, error |-> err, req |-> 0]
  <2>1. /\ w \in SockRequestResponse /\ w.type = "WRITE" /\ w.connection = c
        /\ w.bytes = w.data
    BY DEF SockRequestResponse, srrType, Error
  <2>2. fifo' = [fifo EXCEPT !["tcp2sock"] = Append(@, w)] /\ out' = out
    BY <1>1 DEF PeerSends
  <2> HIDE DEF w
  <2> QED BY <1>1, <2>1, <2>2, PeerReportsTcp
<1>2. /\ \A c \in opening \cup listening \cup established :
           Touched(c.srcport) /\ c \in Connection /\ c.protocol = "tcp"
      /\ \A c \in opening \cup established : c.dest # IP_ADDRESS_ANY
  BY DEF Touched, PeerTypeOK, TcpInv, TcpConnections
<1>3. CASE PeerFinishesOpen
  <2>1. PICK c \in opening, err \in {"EOK", "ECONN_FAILED"} :
          /\ PeerSends(c, 0, err)
          /\ opening' = opening \ {c}
          /\ established' = IF err = "EOK" THEN established \cup {c} ELSE established
          /\ UNCHANGED listening
    BY <1>3 DEF PeerFinishesOpen
  <2> QED BY <1>1, <1>2, <2>1
<1>4. CASE PeerAccepts
  <2>1. PICK l \in listening, ip \in Remotes, port \in PeerPorts,
             err \in {"EOK", "ECONN_FAILED"} :
          /\ PeerSends([l EXCEPT !.dest = ip, !.destport = port], 0, err)
          /\ established' = IF err = "EOK"
                            THEN established \cup {[l EXCEPT !.dest = ip, !.destport = port]}
                            ELSE established
          /\ UNCHANGED <<opening, listening>>
    BY <1>4 DEF PeerAccepts
  <2> DEFINE c == [l EXCEPT !.dest = ip, !.destport = port]
  <2>2. /\ c \in Connection /\ c.srcport = l.srcport /\ c.dest = ip
        /\ c.protocol = l.protocol
    <3>1. l \in Connection /\ ip \in IPAddress /\ port \in Port
      BY <1>2, PeerAssumption DEF IPAddress
    <3> QED BY <3>1 DEF Connection
  <2>3. PeerSends(c, 0, err) /\ established' \subseteq established \cup {c}
    BY <2>1
  <2> HIDE DEF c
  <2> QED BY <1>1, <1>2, <2>1, <2>2, <2>3, AddressAssumption
<1>5. CASE PeerReceives
  <2>1. PICK c \in established, data \in TcpData :
          PeerSends(c, data, "EOK") /\ UNCHANGED <<opening, listening, established>>
    BY <1>5 DEF PeerReceives
  <2> QED BY <1>1, <1>2, <2>1, PeerAssumption
<1>6. CASE PeerIgnoresStatus
  <2>1. /\ fifo["sock2tcp"] # <<>> /\ Head(fifo["sock2tcp"]).type = "STATUS"
        /\ fifo'["sock2tcp"] = Tail(fifo["sock2tcp"]) /\ fifo'["tcp2sock"] = fifo["tcp2sock"]
        /\ out' = out /\ UNCHANGED peerVars
    BY <1>6 DEF PeerIgnoresStatus, PeerRequest, PipesOK, Fifo
  <2>2. /\ "tcp" \in Transport /\ LowerPipe["tcp"] = "sock2tcp"
        /\ UpperPipe["tcp"] = "tcp2sock"
    BY DEF Transport, LowerPipe, UpperPipe
  <2>3. Down("tcp")' = Down("tcp")
    BY <2>1, <2>2, DownTaken
  <2> QED BY <2>1, <2>2, <2>3, TcpSame
<1> QED BY <1>3, <1>4, <1>5, <1>6, PeerAnswersTcp DEF PeerNext
----------------------------------------------------------------------------
(* A handler that changes the record of one socket *)

\* Where the port of s comes from: it is the one s had, listening or not, or a free one.
PortFrom(s) ==
    LET c == socks[s].connection
        d == socks'[s].connection
    IN
    \/ d.srcport = PORT_ANY
    \/ d.srcport = c.srcport /\ (Listener(s) => Listener(s)')
    \/ d.srcport \in Port \ {PORT_ANY} /\ ports[d.srcport] = 0

Changes(s) ==
    /\ \A t \in Sock : t # s => socks'[t] = socks[t]
    /\ \A port \in Port : ports[port] # 0 => ports'[port] = ports[port]
    /\ RecordOK(s)' /\ PortFrom(s) /\ ListenerFrom(s)

\* The port of a socket is not free.
LEMMA PortTaken ==
    ASSUME SockTypeOK, Records, NEW t \in Sock
    PROVE  /\ socks[t].connection.srcport \in Port
           /\ socks[t].connection.srcport # PORT_ANY => ports[socks[t].connection.srcport] # 0
  BY DEF SockTypeOK, GoodRecord, SockRecord, Connection, Records, RecordOK

LEMMA OthersKept ==
    ASSUME SockTypeOK, Records, NEW t \in Sock, socks'[t] = socks[t],
           \A port \in Port : ports[port] # 0 => ports'[port] = ports[port]
    PROVE  RecordOK(t)'
<1> DEFINE c == socks[t].connection
<1>1. c.srcport # PORT_ANY => ports'[c.srcport] = ports[c.srcport] /\ ports[c.srcport] # 0
  BY PortTaken
<1>2. Owned(t)' <=> Owned(t)
  BY <1>1 DEF Owned
<1>3. RecordOK(t)
  BY DEF Records
<1> QED BY <1>1, <1>2, <1>3 DEF RecordOK, Listener

LEMMA RecordsChange ==
    ASSUME SockTypeOK, Records, NEW s \in Sock, Changes(s)
    PROVE  Records' /\ ListenersFrom
<1>1. /\ \A t \in Sock : t # s => socks'[t] = socks[t]
      /\ \A port \in Port : ports[port] # 0 => ports'[port] = ports[port]
      /\ RecordOK(s)' /\ PortFrom(s) /\ ListenerFrom(s)
  BY DEF Changes
<1>2. \A t \in Sock : RecordOK(t)'
  BY <1>1, OthersKept
\* The port of s is one that nobody else has, or it was its port before.
<1>3. ASSUME NEW t \in Sock, t # s,
             socks'[s].connection.srcport # PORT_ANY,
             socks'[t].connection.srcport = socks'[s].connection.srcport
      PROVE  /\ socks[s].connection.srcport = socks[t].connection.srcport
             /\ socks[s].connection.srcport # PORT_ANY
             /\ Listener(s) => Listener(s)'
  <2>1. socks'[t] = socks[t]
    BY <1>1, <1>3
  <2>2. ports[socks'[s].connection.srcport] # 0
    BY <1>3, <2>1, PortTaken
  <2> QED BY <1>1, <1>3, <2>1, <2>2 DEF PortFrom
<1>4. ASSUME NEW t \in Sock
      PROVE  PortAlone(t)'
  <2> SUFFICES ASSUME Owned(t)', ~ Listener(t)', NEW u \in Sock, u # t,
                      socks'[u].connection.srcport = socks'[t].connection.srcport
               PROVE  FALSE
    BY DEF PortAlone
  <2>1. socks'[t].connection.srcport # PORT_ANY
    BY DEF Owned
  <2>2. \A x, y \in Sock :
          Owned(x) /\ ~ Listener(x) /\ y # x =>
            socks[y].connection.srcport # socks[x].connection.srcport
    BY DEF Records, PortAlone
  <2>3. \A x \in Sock :
          /\ socks[x].connection.srcport # PORT_ANY
          /\ socks'[x].connection.srcport = socks[x].connection.srcport
          => (Owned(x)' <=> Owned(x))
    BY <1>1, PortTaken DEF Owned
  <2>4. CASE t = s
    <3>1. /\ socks[u].connection.srcport = socks[t].connection.srcport
          /\ socks[t].connection.srcport # PORT_ANY
          /\ Listener(t) => Listener(t)'
      BY <1>3, <2>1, <2>4
    <3>2. socks'[u] = socks[u]
      BY <1>1, <2>4
    <3> QED BY <2>2, <2>3, <3>1, <3>2
  <2>5. CASE t # s
    <3>1. socks'[t] = socks[t] /\ (Listener(t)' <=> Listener(t))
      BY <1>1, <2>5 DEF Listener
    <3>2. Owned(t)
      BY <2>1, <2>3, <3>1
    <3>3. socks[u].connection.srcport = socks[t].connection.srcport
      BY <1>1, <1>3, <2>1, <2>5, <3>1
    <3> QED BY <2>2, <3>1, <3>2, <3>3
  <2> QED BY <2>4, <2>5
<1>5. ASSUME NEW t \in Sock
      PROVE  ListenerFrom(t)
  <2>1. CASE t = s
    BY <1>1, <2>1
  <2>2. CASE t # s
    BY <1>1, <2>2 DEF ListenerFrom, Listener
  <2> QED BY <2>1, <2>2
<1> QED BY <1>2, <1>4, <1>5 DEF Records, ListenersFrom

LEMMA NothingChanges ==
    ASSUME SockTypeOK, Records, UNCHANGED <<socks, ports>>, NEW s \in Sock
    PROVE  Changes(s)
<1>1. RecordOK(s)'
  BY OthersKept
<1>2. PortFrom(s) /\ ListenerFrom(s)
  BY DEF PortFrom, ListenerFrom, Listener
<1> QED BY <1>1, <1>2 DEF Changes

\* The requests that wait keep the records they wait for.
LEMMA RequestedKept ==
    ASSUME Requested,
           \A p \in Transport : Waits(p)' \subseteq Waits(p),
           \A p \in Transport : \A r \in Waits(p) : r.type \in Answering(p) =>
              /\ socks'[r.sock].status = socks[r.sock].status
              /\ socks'[r.sock].connection = socks[r.sock].connection
    PROVE  Requested'
<1> SUFFICES ASSUME NEW p \in Transport, NEW r \in Waits(p)', r.type \in Answering(p)
             PROVE  RequestOK(p, r)'
  BY DEF Requested, RequestOK
<1>1. r \in Waits(p) /\ RequestOK(p, r)
  BY DEF Requested
<1> QED BY <1>1 DEF RequestOK

LEMMA NothingRequested ==
    ASSUME NoRequest' PROVE Requested'
  BY DEF NoRequest, Requested, RequestOK
----------------------------------------------------------------------------
(* The application's calls *)

\* A call is read: nothing else stands for it.
LEMMA CallTaken ==
    ASSUME PipesOK, OneCall, NEW type, AppCalls(type), NEW sends,
           Receive("sock", "app2sock", sends), UNCHANGED libVars
    PROVE  /\ waiting /\ waiting' = waiting /\ NoReply /\ NoRequest /\ NoPending
           /\ AppRequest \in ToSet(fifo["app2sock"]) /\ AppRequest.type = type
           /\ AppRequest \in SockLibRequestResponse
           /\ fifo'["app2sock"] = <<>> /\ fifo'["sock2app"] = <<>> /\ NoCall'
           /\ out["sock"] = <<>> /\ out'["sock"] = sends
           /\ fifo'["tcp2sock"] = fifo["tcp2sock"]
<1>1. fifo["app2sock"] # <<>> /\ out["sock"] = <<>> /\ AppRequest.type = type
  BY DEF AppCalls, GetNextEvent
<1>2. Called
  BY <1>1 DEF OneCall, Idle, Answered, AtLower, AtSocket, Lost, NoCall
<1>3. /\ fifo["app2sock"] \in Seq(MessageOf("app2sock")) /\ Len(fifo["app2sock"]) = 1
      /\ MessageOf("app2sock") \subseteq SockLibRequestResponse
  BY <1>2 DEF Called, PipesOK, Fifo, MessageOf
<1>4. /\ AppRequest \in ToSet(fifo["app2sock"]) /\ AppRequest \in MessageOf("app2sock")
      /\ Tail(fifo["app2sock"]) = <<>>
  <2>1. AppRequest = Head(fifo["app2sock"])
    BY DEF AppRequest
  <2>2. AppRequest \in ToSet(fifo["app2sock"]) /\ AppRequest \in MessageOf("app2sock")
    BY <1>1, <1>3, <2>1, ToSetTail
  <2>3. Tail(fifo["app2sock"]) = <<>>
    BY <1>3, TailOfOne
  <2> QED BY <2>2, <2>3
<1>5. /\ fifo'["app2sock"] = <<>> /\ fifo'["sock2app"] = fifo["sock2app"]
      /\ out'["sock"] = sends /\ fifo'["tcp2sock"] = fifo["tcp2sock"]
  BY <1>4, SockReads DEF Fifo
<1>6. waiting' = waiting
  BY DEF libVars
<1> QED BY <1>1, <1>2, <1>3, <1>4, <1>5, <1>6 DEF Called, NoReply, NoCall

\* No request can be refused while no socket waits for a connection.
LEMMA NothingRefused ==
    ASSUME SockTypeOK, TcpInv, NoPending
    PROVE  \A r \in Waits("tcp") : r.type \in {"CONNECT", "ACCEPT"} => ~ Refusable(r.req)
<1> TAKE r \in Waits("tcp")
<1>1. "tcp" \in Transport
  BY DEF Transport
<1>2. r.sock \in Sock
  BY <1>1, WaitsTypes
<1>3. socks[r.sock].status \notin {"CONNECT_PENDING", "ACCEPT_PENDING"}
  BY <1>2 DEF NoPending, Pending
<1>4. PendingOf["CONNECT"] = "CONNECT_PENDING" /\ PendingOf["ACCEPT"] = "ACCEPT_PENDING"
  BY DEF PendingOf
<1> QED BY <1>3, <1>4 DEF TcpInv, Refusals

LEMMA TcpReportsSame ==
    ASSUME fifo'["tcp2sock"] = fifo["tcp2sock"]
    PROVE  Reports("tcp")' = Reports("tcp") /\ Answers("tcp")' = Answers("tcp")
  BY DEF Reports, Answers, UpperPipe

\* A call that asks the TCP module nothing.
LEMMA TcpNotAsked ==
    ASSUME PipesOK, SockTypeOK, Records, TcpInv, NoPending, UNCHANGED peerVars,
           NEW s \in Sock, Changes(s), fifo'["tcp2sock"] = fifo["tcp2sock"],
           Down("tcp")' = Down("tcp"), Waits("tcp")' = Waits("tcp"),
           asked'["tcp"] = asked["tcp"]
    PROVE  TcpInv'
<1>1. ListenersFrom
  BY RecordsChange
<1>2. \A port \in Port : ports[port] # 0 => ports'[port] # 0
  BY DEF Changes
<1>3. \A m \in Down("tcp") : m.connection.srcport \in Port
  <2>1. "tcp" \in Transport
    BY DEF Transport
  <2> QED BY <2>1, DownTypes DEF SockRequestResponse, Connection
<1>4. \A r \in Waits("tcp") : r.type \in {"CONNECT", "ACCEPT"} => ~ Refusable(r.req)
  BY NothingRefused
<1>5. Reports("tcp")' = Reports("tcp") /\ Answers("tcp")' = Answers("tcp")
  BY TcpReportsSame
<1> QED BY <1>1, <1>2, <1>3, <1>4, <1>5, TcpKept

\* A call is answered, or left to the next WRITE for its socket.
LEMMA AppHandled ==
    ASSUME PipesOK, SockTypeOK, CallInv, NEW type, AppCalls(type),
           UNCHANGED <<libVars, peerVars, reqq, asked>>,
           NEW s \in Sock, Changes(s), NEW sends, Receive("sock", "app2sock", sends),
           \/ /\ \E a : sends = <<a>> /\ a.to = "sock2app"
              /\ socks'[s].status \notin Pending
           \/ sends = <<>> /\ socks'[s].status \in Pending
    PROVE  CallInv'
<1> USE DEF CallInv
<1>1. /\ waiting /\ waiting' = waiting /\ NoReply /\ NoRequest /\ NoPending
      /\ fifo'["app2sock"] = <<>> /\ fifo'["sock2app"] = <<>> /\ NoCall'
      /\ out["sock"] = <<>> /\ out'["sock"] = sends
      /\ fifo'["tcp2sock"] = fifo["tcp2sock"]
  BY CallTaken
<1>2. \A p \in Transport : Waits(p)' = Waits(p) /\ asked'[p] = asked[p]
  BY DEF Waits
<1>3. NoRequest'
  BY <1>1, <1>2 DEF NoRequest
<1>4. \A t \in Sock : t # s => socks'[t].status \notin Pending
  BY <1>1 DEF Changes, NoPending
<1>5. OneCall'
  <2>1. CASE sends = <<>> /\ socks'[s].status \in Pending
    <3>1. ToldBy(out'["sock"]) = {}
      BY <1>1, <2>1, ToldByFew
    <3>2. NoReply'
      BY <1>1, <3>1 DEF NoReply
    <3>3. OnePending'
      BY <1>4, <2>1 DEF OnePending
    <3> QED BY <1>1, <1>3, <3>2, <3>3 DEF OneCall, AtSocket
  <2>2. ASSUME NEW a, sends = <<a>>, a.to = "sock2app", socks'[s].status \notin Pending
        PROVE  OneCall'
    <3>1. ToldBy(out'["sock"]) = {1}
      BY <1>1, <2>2, ToldByFew
    <3>2. OneReply'
      BY <1>1, <3>1, Told
    <3>3. NoPending'
      BY <1>4, <2>2 DEF NoPending
    <3> QED BY <1>1, <1>3, <3>2, <3>3 DEF OneCall, Answered
  <2> QED BY <2>1, <2>2
<1>6. AppCallOK'
  BY <1>1, ToSetEmpty DEF AppCallOK
<1>7. Records'
  BY RecordsChange
<1>8. Requested'
  BY <1>3, NothingRequested
<1>9. TcpInv'
  <2>1. "tcp" \in Transport
    BY DEF Transport
  <2>2. \A i \in DOMAIN sends : sends[i].to = "sock2app"
    OBVIOUS
  <2>3. Down("tcp")' = Down("tcp")
    BY <1>1, <2>1, <2>2, NothingAsked
  <2> QED BY <1>1, <1>2, <2>1, <2>3, TcpNotAsked
<1> QED BY <1>5, <1>6, <1>7, <1>8, <1>9
\* A call that is passed on to a transport module.
LEMMA AppAsking ==
    ASSUME PipesOK, SockTypeOK, CallInv, NEW call, AppCalls(call),
           UNCHANGED <<libVars, peerVars>>,
           NEW p \in Transport, NEW type \in srrType \ {"STATUS"}, NEW c \in Connection,
           NEW data \in Nat, NEW s \in Sock, Changes(s), Record(p, type, s),
           NEW sends, Receive("sock", "app2sock", sends),
           \/ /\ sends = <<Request(p, type, c, data)>>
              /\ IF type \in Answering(p)
                   THEN /\ socks'[s].status \notin Pending
                        /\ socks'[s].connection.protocol = p
                        /\ socks'[s].connection.srcport # PORT_ANY
                        /\ IF type = "WRITE"
                             THEN socks'[s].status = "WRITE_PENDING"
                             ELSE socks'[s].status \in {"UNBOUND", "CONNECTED"}
                   ELSE socks'[s].status \in Pending
           \/ /\ type = "CLOSE" /\ socks'[s].status \notin Pending
              /\ \E a : sends = <<Request(p, type, c, data), a>> /\ a.to = "sock2app",
           p = "udp" \/ TcpInv'
    PROVE  CallInv'
<1> USE DEF CallInv
<1> SUFFICES ASSUME NEW r, r = [type |-> type, sock |-> s, req |-> asked[p] + 1]
             PROVE  CallInv'
  OBVIOUS
<1> DEFINE m == Request(p, type, c, data)
<1>1. /\ waiting /\ waiting' = waiting /\ NoReply /\ NoRequest /\ NoPending
      /\ fifo'["app2sock"] = <<>> /\ fifo'["sock2app"] = <<>> /\ NoCall'
      /\ out["sock"] = <<>> /\ out'["sock"] = sends
      /\ fifo'["tcp2sock"] = fifo["tcp2sock"]
  BY CallTaken
<1>2. /\ Waits(p)' = Waits(p) \cup {r}
      /\ \A q \in Transport : q # p => Waits(q)' = Waits(q) /\ asked'[q] = asked[q]
  BY RequestMade
<1>3. \A t \in Sock : t # s => socks'[t].status \notin Pending
  BY <1>1 DEF Changes, NoPending
<1>4. m.to # "sock2app" /\ m.to = LowerPipe[p] /\ m.msg.type = type
  BY DEF Request, ToLower, LowerPipe, Transport
<1>5. r.type = type /\ r.sock = s
  OBVIOUS
<1> HIDE DEF m
<1>6. \A q \in Transport : \A o \in Waits(q)' : o.type \in Answering(q) => q = p /\ o = r
  BY <1>1, <1>2 DEF NoRequest
<1>7. r \in Waits(p)'
  BY <1>2
<1>8. AppCallOK'
  BY <1>1, ToSetEmpty DEF AppCallOK
<1>9. Records'
  BY RecordsChange
<1>10. "CLOSE" \notin Answering(p)
  BY DEF Answering
<1>11. ASSUME sends = <<m>>, type \in Answering(p), socks'[s].status \notin Pending,
              socks'[s].connection.protocol = p, socks'[s].connection.srcport # PORT_ANY,
              IF type = "WRITE" THEN socks'[s].status = "WRITE_PENDING"
                                ELSE socks'[s].status \in {"UNBOUND", "CONNECTED"}
       PROVE  OneCall' /\ Requested'
  <2>1. ToldBy(out'["sock"]) = {}
    BY <1>1, <1>4, <1>11, ToldByFew
  <2>2. OneRequest'
    BY <1>5, <1>6, <1>7, <1>11 DEF OneRequest
  <2>3. NoPending' /\ NoReply'
    BY <1>1, <1>3, <1>11, <2>1 DEF NoPending, NoReply
  <2>4. OneCall'
    BY <1>1, <2>2, <2>3 DEF OneCall, AtLower
  <2>5. RequestOK(p, r)'
    BY <1>5, <1>11 DEF RequestOK
  <2>6. Requested'
    BY <1>6, <2>5 DEF Requested, RequestOK
  <2> QED BY <2>4, <2>6
<1>12. ASSUME sends = <<m>>, type \notin Answering(p), socks'[s].status \in Pending
       PROVE  OneCall' /\ Requested'
  <2>1. ToldBy(out'["sock"]) = {}
    BY <1>1, <1>4, <1>12, ToldByFew
  <2>2. NoRequest'
    BY <1>5, <1>6, <1>12 DEF NoRequest
  <2>3. OnePending' /\ NoReply'
    BY <1>1, <1>3, <1>12, <2>1 DEF OnePending, NoReply
  <2>4. OneCall'
    BY <1>1, <2>2, <2>3 DEF OneCall, AtSocket
  <2> QED BY <2>2, <2>4, NothingRequested
<1>13. ASSUME type = "CLOSE", socks'[s].status \notin Pending,
              NEW a, sends = <<m, a>>, a.to = "sock2app"
       PROVE  OneCall' /\ Requested'
  <2>1. ToldBy(out'["sock"]) = {2}
    BY <1>1, <1>4, <1>13, ToldByFew
  <2>2. OneReply'
    BY <1>1, <2>1, Told
  <2>3. NoRequest'
    BY <1>5, <1>6, <1>10, <1>13 DEF NoRequest
  <2>4. NoPending'
    BY <1>3, <1>13 DEF NoPending
  <2>5. OneCall'
    BY <1>1, <2>2, <2>3, <2>4 DEF OneCall, Answered
  <2> QED BY <2>3, <2>5, NothingRequested
<1>14. OneCall' /\ Requested'
  BY <1>11, <1>12, <1>13 DEF m
<1>15. TcpInv'
  <2>1. ASSUME p = "udp"
        PROVE  TcpInv'
    <3>1. "tcp" \in Transport /\ "tcp" # p
      BY <2>1 DEF Transport
    <3>2. Down("tcp")' = Down("tcp")
      <4>1. sends[1] = m /\ 1 \in DOMAIN sends /\ \A i \in DOMAIN sends : i # 1 => sends[i].to = "sock2app"
        BY DEF m
      <4>2. sends[1].to = LowerPipe[p] /\ sends[1].msg.type # "STATUS"
        BY <1>4, <4>1
      <4>3. Down("tcp")' = Down("tcp") \cup (IF "tcp" = p THEN {sends[1].msg} ELSE {})
        BY <1>1, <3>1, <4>1, <4>2, OneAsked
      <4> QED BY <3>1, <4>3
    <3>3. Waits("tcp")' = Waits("tcp") /\ asked'["tcp"] = asked["tcp"]
      BY <1>2, <3>1
    <3> QED BY <1>1, <3>2, <3>3, TcpNotAsked
  <2> QED BY <2>1
<1> QED BY <1>8, <1>9, <1>14, <1>15

\* What the socket module asks of the TCP module.
LEMMA AppAsksTcp ==
    ASSUME PipesOK, SockTypeOK, InOrder("tcp"), CallInv, NEW call, AppCalls(call),
           UNCHANGED <<libVars, peerVars>>,
           NEW type \in srrType \ {"STATUS"}, NEW c \in Connection,
           NEW data \in Nat, NEW s \in Sock, Changes(s), Record("tcp", type, s),
           NEW sends, Receive("sock", "app2sock", sends),
           \/ sends = <<Request("tcp", type, c, data)>>
           \/ \E a : sends = <<Request("tcp", type, c, data), a>> /\ a.to = "sock2app",
           c.srcport # PORT_ANY => ports'[c.srcport] # 0,
           type \in {"CONNECT", "ACCEPT"} =>
              /\ c.protocol = "tcp"
              /\ socks'[s].status = PendingOf[type]
              /\ socks'[s].connection = c,
           (type = "CONNECT" \/ (type = "ACCEPT" /\ c \notin listening)) =>
              ~ Touched(c.srcport),
           type = "CONNECT" => c.dest # IP_ADDRESS_ANY,
           type = "ACCEPT" => \A o \in Down("tcp") : o.type = "CLOSE" => o.connection # c,
           type = "CLOSE" =>
              \A t \in Sock :
                /\ Listener(t)' => c # socks'[t].connection
                /\ socks'[t].status = "BOUND" /\ socks'[t].connection.protocol = "tcp" =>
                     c.srcport # socks'[t].connection.srcport
    PROVE  TcpInv'
<1> USE DEF CallInv
<1> DEFINE e == Request("tcp", type, c, data)
           m == e.msg
           r == [type |-> type, sock |-> s, req |-> asked["tcp"] + 1]
<1>1. /\ NoPending /\ out["sock"] = <<>> /\ fifo'["tcp2sock"] = fifo["tcp2sock"]
  BY CallTaken
<1>2. "tcp" \in Transport /\ asked["tcp"] \in Nat
  BY DEF Transport, SockTypeOK
<1>3. /\ Waits("tcp")' = Waits("tcp") \cup {r} /\ asked'["tcp"] = asked["tcp"] + 1
  BY <1>2, RequestMade
<1>4. e.to = LowerPipe["tcp"]
  BY DEF Request, ToLower
<1>5. m = [type |-> type, connection |-> c, data |-> data, bytes |-> 0,
           error |-> "EOK", req |-> asked["tcp"] + 1]
  BY DEF Request, ToLower
<1>6. /\ m \in SockRequestResponse /\ m.type = type /\ m.connection = c
      /\ m.req = asked["tcp"] + 1
  BY <1>2, <1>5 DEF SockRequestResponse, Error
<1>7. r \in RequestRecord /\ r.type = type /\ r.sock = s /\ r.req = asked["tcp"] + 1
  BY <1>2 DEF RequestRecord
<1>8. Down("tcp")' = Down("tcp") \cup {m}
  <2>1. sends[1] = e /\ 1 \in DOMAIN sends /\ \A i \in DOMAIN sends : i # 1 => sends[i].to = "sock2app"
    BY DEF e
  <2>2. m.type # "STATUS"
    BY <1>6
  <2> HIDE DEF e
  <2> QED BY <1>1, <1>2, <1>4, <2>1, <2>2, OneAsked
<1> HIDE DEF e, m, r
<1>9. ListenersFrom
  BY RecordsChange
<1>10. \A port \in Port : ports[port] # 0 => ports'[port] # 0
  BY DEF Changes
<1>11. Reports("tcp")' = Reports("tcp") /\ Answers("tcp")' = Answers("tcp")
  BY <1>1, TcpReportsSame
<1>12. Undecided(m) <=> type = "CONNECT" \/ (type = "ACCEPT" /\ c \notin listening)
  BY <1>6 DEF Undecided
<1>13. TcpInv
  OBVIOUS
<1>14. Undecided(m) => ~ Touched(m.connection.srcport)
  BY <1>6, <1>12
<1>15. m.type \in {"CONNECT", "ACCEPT"} =>
         /\ m.connection.protocol = "tcp"
         /\ socks'[r.sock].status = PendingOf[r.type]
         /\ socks'[r.sock].connection = m.connection
  BY <1>6, <1>7
<1> QED BY <1>1, <1>3, <1>6, <1>7, <1>8, <1>9, <1>10, <1>11, <1>13, <1>14, <1>15, AskedOfTcp
LEMMA AppRefused ==
    ASSUME PipesOK, SockTypeOK, CallInv, NEW type, AppCalls(type),
           UNCHANGED <<libVars, peerVars, sockVars>>, NEW a, a.to = "sock2app",
           Receive("sock", "app2sock", <<a>>)
    PROVE  CallInv'
<1>1. 1 \in Sock
  BY SizeAssumption DEF Sock
<1>2. socks' = socks /\ ports' = ports /\ reqq' = reqq /\ asked' = asked
  BY DEF sockVars
<1>3. Changes(1)
  BY <1>1, <1>2, NothingChanges DEF CallInv
<1>4. socks'[1].status \notin Pending
  BY <1>1, <1>2, CallTaken DEF CallInv, NoPending
<1> QED BY <1>1, <1>2, <1>3, <1>4, AppHandled

LEMMA AppRejected ==
    ASSUME PipesOK, SockTypeOK, CallInv, NEW type, AppCalls(type),
           UNCHANGED <<libVars, peerVars>>, NEW err, Reject(err)
    PROVE  CallInv'
<1> DEFINE a == Response(AppRequest.sockfd, err)
<1>1. a.to = "sock2app" /\ Receive("sock", "app2sock", <<a>>) /\ UNCHANGED sockVars
  BY DEF Response, ToApp, Reject
<1> HIDE DEF a
<1> QED BY <1>1, AppRefused

LEMMA SockSocketCall ==
    ASSUME PipesOK, SockTypeOK, CallInv, UNCHANGED <<libVars, peerVars>>, SockSocket
    PROVE  CallInv'
<1>1. AppCalls("mSOCKET")
  BY DEF SockSocket
<1>2. CASE Reject("ERESOURCE_UNAVAIL")
  BY <1>1, <1>2, AppRejected
<1>3. ASSUME NEW s \in Sock, FindFreeSock(s), NEW c,
             c = [socks[s].connection EXCEPT !.protocol = AppRequest.connection.protocol],
             socks' = [socks EXCEPT ![s] = [@ EXCEPT !.status = "UNBOUND",
                                                     !.connection = c, !.toApp = TRUE]],
             Receive("sock", "app2sock", <<Response(s, "EOK")>>),
             UNCHANGED <<ports, reqq, asked>>
      PROVE  CallInv'
  <2>1. socks[s] = FreeRecord /\ socks[s] \in GoodRecord /\ socks \in [Sock -> GoodRecord]
    BY <1>3 DEF FindFreeSock, CallInv, Records, RecordOK, SockTypeOK
  <2>2. c.srcport = PORT_ANY
    BY <1>3, <2>1 DEF FreeRecord, NoConnection
  <2>3. /\ socks'[s].status = "UNBOUND" /\ socks'[s].connection = c /\ socks'[s].toApp
        /\ socks'[s].bin = 0 /\ \A t \in Sock : t # s => socks'[t] = socks[t]
    BY <1>3, <2>1 DEF FreeRecord
  <2>4. RecordOK(s)'
    BY <2>2, <2>3 DEF RecordOK, Listener
  <2>5. Changes(s)
    BY <1>3, <2>2, <2>3, <2>4 DEF Changes, PortFrom, ListenerFrom, Listener
  <2>6. socks'[s].status \notin Pending
    BY <2>3 DEF Pending
  <2>7. Response(s, "EOK").to = "sock2app"
    BY DEF Response, ToApp
  <2> QED BY <1>1, <1>3, <2>5, <2>6, <2>7, AppHandled
<1> QED BY <1>2, <1>3 DEF SockSocket

\* A port that is reserved was free.
LEMMA ResolvedPort ==
    ASSUME SockTypeOK, NEW c, NEW p \in Port, ResolveSrcPort(c, p), NEW s \in Sock,
           ports' = AssignPort(p, s)
    PROVE  /\ p # PORT_ANY /\ ports[p] = 0 /\ ports'[p] = s
           /\ \A port \in Port : ports[port] # 0 => ports'[port] = ports[port]
  BY DEF ResolveSrcPort, FindFreePort, AssignPort, SockTypeOK

\* A socket gets a port.
LEMMA PortGiven ==
    ASSUME SockTypeOK, Records, NEW s \in Sock, NEW p \in Port, p # PORT_ANY, ports[p] = 0,
           ports'[p] = s, \A port \in Port : ports[port] # 0 => ports'[port] = ports[port],
           \A t \in Sock : t # s => socks'[t] = socks[t],
           socks'[s].connection.srcport = p, socks'[s].toApp, socks'[s].bin = 0,
           socks'[s].status \in {"UNBOUND", "BOUND", "CONNECTED", "CONNECT_PENDING"},
           socks'[s].status = "CONNECT_PENDING" => socks'[s].connection.protocol = "tcp"
    PROVE  Changes(s)
<1>1. Owned(s)' /\ s # 0
  BY DEF Owned, Sock
<1>2. RecordOK(s)'
  BY <1>1 DEF RecordOK, Listener
<1>3. PortFrom(s) /\ ListenerFrom(s)
  BY DEF PortFrom, ListenerFrom, Listener
<1> QED BY <1>2, <1>3 DEF Changes

LEMMA SockBindCall ==
    ASSUME PipesOK, SockTypeOK, CallInv, UNCHANGED <<libVars, peerVars>>, SockBind
    PROVE  CallInv'
<1> SUFFICES ASSUME NEW s, s = AppRequest.sockfd
             PROVE  CallInv'
  OBVIOUS
<1> DEFINE bound(p) == LocalEnd(socks[s].connection, p)
           a(p) == ToApp([AppRequest EXCEPT !.type = "mSTATUS",
                            !.connection = LocalEnd(AppRequest.connection, p),
                            !.error = "EOK"])
<1>1. AppCalls("mBIND")
  BY Zenon DEF SockBind
<1>2. /\ s \in Sock /\ socks[s] \in GoodRecord /\ socks \in [Sock -> GoodRecord]
  BY <1>1, AppRequestType DEF SockTypeOK
<1>3. CASE Reject("EINVALID_OP") \/ Reject("ERESOURCE_UNAVAIL")
  BY <1>1, <1>3, AppRejected
<1>4. ASSUME NEW p \in Port
      PROVE  /\ bound(p) \in Connection /\ bound(p).protocol = socks[s].connection.protocol
             /\ bound(p).srcport = p
  <2>1. socks[s].connection \in Connection
    BY <1>2, GoodRecordFields
  <2>2. bound(p) \in Connection /\ bound(p).protocol = socks[s].connection.protocol
    BY <2>1, LocalEndType
  <2> QED BY <2>1, <2>2 DEF LocalEnd, Connection
<1>5. ASSUME socks[s].status = "UNBOUND", socks[s].toApp, NEW p \in Port,
             ResolveSrcPort(AppRequest.connection, p), ports' = AssignPort(p, s),
             NEW rec, socks' = [socks EXCEPT ![s] = rec],
             rec.connection = bound(p), rec.toApp, rec.bin = socks[s].bin,
             rec.status \in {"UNBOUND", "BOUND"}
      PROVE  Changes(s) /\ socks'[s] = rec /\ p # PORT_ANY
  <2>1. /\ p # PORT_ANY /\ ports[p] = 0 /\ ports'[p] = s
        /\ \A port \in Port : ports[port] # 0 => ports'[port] = ports[port]
    BY <1>2, <1>5, ResolvedPort
  <2>2. socks'[s] = rec /\ \A t \in Sock : t # s => socks'[t] = socks[t]
    BY <1>2, <1>5
  <2>3. socks[s].bin = 0 /\ Records
    BY <1>2, <1>5 DEF CallInv, Records, RecordOK
  <2> HIDE DEF bound
  <2>4. Changes(s)
    BY <1>2, <1>4, <1>5, <2>1, <2>2, <2>3, PortGiven
  <2> QED BY <2>1, <2>2, <2>4
<1>6. ASSUME socks[s].status = "UNBOUND", socks[s].toApp, NEW p \in Port,
             ResolveSrcPort(AppRequest.connection, p), ports' = AssignPort(p, s),
             socks' = [socks EXCEPT ![s] = [@ EXCEPT !.connection = bound(p)]],
             bound(p).protocol = "udp", Record("udp", "FORWARD", s),
             Receive("sock", "app2sock", <<Request("udp", "FORWARD", bound(p), 0)>>)
      PROVE  CallInv'
  <2> DEFINE rec == [socks[s] EXCEPT !.connection = bound(p)]
  <2>1. /\ rec.connection = bound(p) /\ rec.toApp /\ rec.bin = socks[s].bin
        /\ rec.status = "UNBOUND"
    BY <1>2, <1>6 DEF GoodRecord, SockRecord
  <2>2. socks' = [socks EXCEPT ![s] = rec]
    BY <1>6
  <2> HIDE DEF bound, rec
  <2>3. Changes(s) /\ socks'[s] = rec /\ p # PORT_ANY
    BY <1>5, <1>6, <2>1, <2>2
  <2>4. /\ socks'[s].status = "UNBOUND" /\ socks'[s].status \notin Pending
        /\ socks'[s].connection.protocol = "udp" /\ socks'[s].connection.srcport # PORT_ANY
    BY <1>4, <1>6, <2>1, <2>3 DEF Pending
  <2>5. "udp" \in Transport /\ "FORWARD" \in srrType \ {"STATUS"}
        /\ "FORWARD" \in Answering("udp")
    BY DEF Transport, srrType, Answering
  <2> QED BY <1>1, <1>2, <1>4, <1>6, <2>3, <2>4, <2>5, AppAsking
<1>7. ASSUME socks[s].status = "UNBOUND", socks[s].toApp, NEW p \in Port,
             ResolveSrcPort(AppRequest.connection, p), ports' = AssignPort(p, s),
             socks' = [socks EXCEPT ![s] = [@ EXCEPT !.status = "BOUND",
                                                   !.connection = bound(p)]],
             Receive("sock", "app2sock", <<a(p)>>), UNCHANGED <<reqq, asked>>
      PROVE  CallInv'
  <2> DEFINE rec == [socks[s] EXCEPT !.status = "BOUND", !.connection = bound(p)]
  <2>1. /\ rec.connection = bound(p) /\ rec.toApp /\ rec.bin = socks[s].bin
        /\ rec.status = "BOUND"
    BY <1>2, <1>7 DEF GoodRecord, SockRecord
  <2>2. socks' = [socks EXCEPT ![s] = rec]
    BY <1>7
  <2>3. a(p).to = "sock2app"
    BY DEF ToApp
  <2> HIDE DEF bound, rec, a
  <2>4. Changes(s) /\ socks'[s] = rec
    BY <1>5, <1>7, <2>1, <2>2
  <2>5. socks'[s].status \notin Pending
    BY <2>1, <2>4 DEF Pending
  <2> QED BY <1>1, <1>2, <1>7, <2>3, <2>4, <2>5, AppHandled
<1> QED BY <1>3, <1>6, <1>7 DEF SockBind
LEMMA RemoteOpenTwice ==
    ASSUME NEW c \in Connection
    PROVE  /\ RemoteOpen(RemoteOpen(c)) = RemoteOpen(c)
           /\ RemoteOpen(c).srcport = c.srcport /\ RemoteOpen(c).dest = IP_ADDRESS_ANY
  BY DEF RemoteOpen, Connection

\* The socket a call names, and its record.
LEMMA Named ==
    ASSUME PipesOK, SockTypeOK, CallInv, NEW type, type # "mSOCKET", AppCalls(type),
           NEW s, s = AppRequest.sockfd
    PROVE  /\ s \in Sock /\ socks[s] \in GoodRecord /\ socks \in [Sock -> GoodRecord]
           /\ RecordOK(s) /\ socks[s].connection \in Connection
           /\ socks[s].toApp => socks[s].connection.protocol \in Transport
           /\ AppRequest.data \in Nat /\ AppRequest.connection \in Connection
<1>1. /\ s \in Sock /\ AppRequest \in SockLibRequestResponse
  BY AppRequestType
<1>2. socks[s] \in GoodRecord /\ socks \in [Sock -> GoodRecord]
  BY <1>1 DEF SockTypeOK
<1>3. RecordOK(s)
  BY <1>1 DEF CallInv, Records
<1> QED BY <1>1, <1>2, <1>3, GoodRecordFields, SlrrFields

\* A new status and no other change.
LEMMA StatusIs ==
    ASSUME NEW s \in Sock, socks \in [Sock -> GoodRecord], NEW stat, socks' = SetStatus(s, stat)
    PROVE  /\ socks'[s].status = stat /\ socks'[s].connection = socks[s].connection
           /\ socks'[s].bin = socks[s].bin /\ socks'[s].toApp = socks[s].toApp
           /\ \A t \in Sock : t # s => socks'[t] = socks[t]
  BY DEF SetStatus, GoodRecord, SockRecord

LEMMA SockListenCall ==
    ASSUME PipesOK, SockTypeOK, CallInv, UNCHANGED <<libVars, peerVars>>, SockListen
    PROVE  CallInv'
<1> SUFFICES ASSUME NEW s, s = AppRequest.sockfd
             PROVE  CallInv'
  OBVIOUS
<1> DEFINE c == socks[s].connection
<1>1. AppCalls("mLISTEN")
  BY Zenon DEF SockListen
<1>2. /\ s \in Sock /\ socks[s] \in GoodRecord /\ socks \in [Sock -> GoodRecord]
      /\ RecordOK(s) /\ c \in Connection /\ (socks[s].toApp => c.protocol \in Transport)
  BY <1>1, Named
<1>3. CASE Reject("EINVALID_OP")
  BY <1>1, <1>3, AppRejected
<1>4. CASE Receive("sock", "app2sock", <<Response(0, "ENOT_SUPPORTED")>>) /\ UNCHANGED sockVars
  <2>1. Response(0, "ENOT_SUPPORTED").to = "sock2app"
    BY DEF Response, ToApp
  <2> QED BY <1>1, <1>4, <2>1, AppRefused
<1>5. ASSUME socks[s].status = "BOUND", socks[s].toApp, c.protocol # "udp",
             socks' = [socks EXCEPT ![s] = [@ EXCEPT !.status = "LISTENING",
                                                     !.connection = RemoteOpen(c)]],
             Receive("sock", "app2sock", <<Response(s, "EOK")>>),
             UNCHANGED <<ports, reqq, asked>>
      PROVE  CallInv'
  <2> DEFINE d == RemoteOpen(c)
  <2>1. c.protocol = "tcp"
    BY <1>2, <1>5 DEF Transport
  <2>2. d = RemoteOpen(d) /\ d.srcport = c.srcport /\ d.protocol = "tcp"
    BY <1>2, <2>1, RemoteOpenTwice, RemoteOpenType
  <2>3. /\ socks'[s].status = "LISTENING" /\ socks'[s].connection = d /\ socks'[s].toApp
        /\ \A t \in Sock : t # s => socks'[t] = socks[t]
    BY <1>2, <1>5 DEF GoodRecord, SockRecord
  <2>4. Response(s, "EOK").to = "sock2app"
    BY DEF Response, ToApp
  <2> HIDE DEF c, d
  <2>5. c.srcport # PORT_ANY /\ ports[c.srcport] = s /\ s # 0
    BY <1>2, <1>5 DEF RecordOK, Owned, c, Sock
  <2>6. Owned(s)'
    BY <1>5, <2>2, <2>3, <2>5 DEF Owned
  <2>7. RecordOK(s)'
    BY <1>5, <2>2, <2>3, <2>5, <2>6 DEF RecordOK, Listener
  <2>8. PortFrom(s)
    BY <1>5, <2>2, <2>3 DEF PortFrom, c, Listener
  <2>9. ListenerFrom(s)
    BY <1>5, <2>1, <2>2, <2>3 DEF ListenerFrom, Listener, c
  <2>10. Changes(s)
    BY <1>5, <2>3, <2>7, <2>8, <2>9 DEF Changes
  <2>11. socks'[s].status \notin Pending
    BY <2>3 DEF Pending
  <2> QED BY <1>1, <1>2, <1>5, <2>4, <2>10, <2>11, AppHandled
<1> QED BY <1>3, <1>4, <1>5 DEF SockListen

LEMMA SockAcceptCall ==
    ASSUME PipesOK, SockTypeOK, InOrder("tcp"), CallInv, UNCHANGED <<libVars, peerVars>>,
           SockAccept
    PROVE  CallInv'
<1> SUFFICES ASSUME NEW s, s = AppRequest.sockfd
             PROVE  CallInv'
  OBVIOUS
<1> DEFINE c == socks[s].connection
<1>1. AppCalls("mACCEPT")
  BY Zenon DEF SockAccept
<1>2. /\ s \in Sock /\ socks[s] \in GoodRecord /\ socks \in [Sock -> GoodRecord]
      /\ RecordOK(s) /\ c \in Connection
  BY <1>1, Named
<1>3. CASE Reject("EINVALID_OP")
  BY <1>1, <1>3, AppRejected
<1>4. ASSUME socks[s].status = "LISTENING", socks[s].toApp,
             socks' = SetStatus(s, "ACCEPT_PENDING"), Record("tcp", "ACCEPT", s),
             Receive("sock", "app2sock", <<Request("tcp", "ACCEPT", c, 0)>>),
             UNCHANGED ports
      PROVE  CallInv'
  <2>1. /\ socks'[s].status = "ACCEPT_PENDING" /\ socks'[s].connection = c
        /\ socks'[s].bin = socks[s].bin /\ socks'[s].toApp
        /\ \A t \in Sock : t # s => socks'[t] = socks[t]
    BY <1>2, <1>4, StatusIs
  <2>2. Listener(s) /\ Listener(s)'
    BY <1>4, <2>1 DEF Listener
  <2>3. /\ c.srcport # PORT_ANY /\ c.protocol = "tcp" /\ c = RemoteOpen(c)
        /\ ports[c.srcport] # 0 /\ Owned(s)
    BY <1>2, <1>4, <2>2 DEF RecordOK
  <2>4. Owned(s)'
    BY <1>4, <2>1, <2>3 DEF Owned
  <2>5. "mACCEPT" \in AppCallTypes
    <3>1. AppRequest \in ToSet(fifo["app2sock"]) /\ AppRequest.type = "mACCEPT"
      BY <1>1, <1>4, CallTaken DEF CallInv
    <3> QED BY <3>1 DEF CallInv, AppCallOK
  <2> HIDE DEF c
  <2>6. RecordOK(s)'
    BY <1>4, <2>1, <2>3, <2>4, <2>5 DEF RecordOK, Listener
  <2>7. PortFrom(s)
    BY <1>4, <2>1, <2>3 DEF PortFrom, c, Listener
  <2>8. ListenerFrom(s)
    BY <2>1, <2>2 DEF ListenerFrom, c
  <2>9. Changes(s)
    BY <1>4, <2>1, <2>6, <2>7, <2>8 DEF Changes
  <2>10. /\ "ACCEPT" \in srrType \ {"STATUS"} /\ "ACCEPT" \notin Answering("tcp")
         /\ "tcp" \in Transport /\ PendingOf["ACCEPT"] = "ACCEPT_PENDING"
         /\ "ACCEPT_PENDING" \in Pending
    BY DEF srrType, Answering, Transport, PendingOf, Pending
  <2>11. /\ c \in listening \/ ~ Touched(c.srcport)
         /\ \A o \in Down("tcp") : o.type = "CLOSE" => o.connection # c
    BY <1>2, <2>2 DEF CallInv, TcpInv, Listeners, c
  <2>12. TcpInv'
    <3>1. ports'[c.srcport] # 0
      BY <1>4, <2>3
    <3> QED BY <1>1, <1>2, <1>4, <2>1, <2>3, <2>9, <2>10, <2>11, <3>1, AppAsksTcp
  <2> QED BY <1>1, <1>2, <1>4, <2>1, <2>9, <2>10, <2>12, AppAsking
<1> QED BY <1>3, <1>4 DEF SockAccept

LEMMA SockReadCall ==
    ASSUME PipesOK, SockTypeOK, CallInv, UNCHANGED <<libVars, peerVars>>, SockRead
    PROVE  CallInv'
<1> SUFFICES ASSUME NEW s, s = AppRequest.sockfd
             PROVE  CallInv'
  OBVIOUS
<1> DEFINE c == socks[s].connection
           a(data, err) == ToApp([AppRequest EXCEPT !.type = "mSTATUS", !.data = data,
                                                    !.error = err])
<1>1. AppCalls("mREAD")
  BY Zenon DEF SockRead
<1>2. /\ s \in Sock /\ socks[s] \in GoodRecord /\ socks \in [Sock -> GoodRecord]
      /\ RecordOK(s) /\ c \in Connection
  BY <1>1, Named
<1>3. ASSUME NEW data, NEW err, Receive("sock", "app2sock", <<a(data, err)>>),
             UNCHANGED sockVars
      PROVE  CallInv'
  <2>1. a(data, err).to = "sock2app"
    BY DEF ToApp
  <2> HIDE DEF a
  <2> QED BY <1>1, <1>3, <2>1, AppRefused
<1>4. ASSUME socks[s].status \in {"CONNECTED", "BOUND"}, socks[s].toApp,
             socks' = SetStatus(s, "READ_PENDING"),
             Receive("sock", "app2sock", <<>>), UNCHANGED <<ports, reqq, asked>>
      PROVE  CallInv'
  <2>1. /\ socks'[s].status = "READ_PENDING" /\ socks'[s].connection = c
        /\ socks'[s].bin = socks[s].bin /\ socks'[s].toApp
        /\ \A t \in Sock : t # s => socks'[t] = socks[t]
    BY <1>2, <1>4, StatusIs
  <2>2. Owned(s)' <=> Owned(s)
    BY <1>4, <2>1 DEF Owned
  <2>3. RecordOK(s)'
    BY <1>2, <1>4, <2>1, <2>2 DEF RecordOK, Listener
  <2>4. PortFrom(s) /\ ListenerFrom(s)
    BY <1>4, <2>1 DEF PortFrom, ListenerFrom, Listener
  <2>5. Changes(s)
    BY <1>4, <2>1, <2>3, <2>4 DEF Changes
  <2>6. socks'[s].status \in Pending
    BY <2>1 DEF Pending
  <2> QED BY <1>1, <1>2, <1>4, <2>5, <2>6, AppHandled
<1> QED BY <1>3, <1>4 DEF SockRead

LEMMA SockWriteCall ==
    ASSUME PipesOK, SockTypeOK, InOrder("tcp"), CallInv, UNCHANGED <<libVars, peerVars>>,
           SockWrite
    PROVE  CallInv'
<1> SUFFICES ASSUME NEW s, s = AppRequest.sockfd
             PROVE  CallInv'
  OBVIOUS
<1> DEFINE c == socks[s].connection
           p == c.protocol
<1>1. AppCalls("mWRITE")
  BY Zenon DEF SockWrite
<1>2. /\ s \in Sock /\ socks[s] \in GoodRecord /\ socks \in [Sock -> GoodRecord]
      /\ RecordOK(s) /\ c \in Connection /\ (socks[s].toApp => p \in Transport)
      /\ AppRequest.data \in Nat
  BY <1>1, Named
<1>3. CASE Reject("EINVALID_OP")
  BY <1>1, <1>3, AppRejected
<1>4. ASSUME socks[s].status = "CONNECTED", socks[s].toApp,
             socks' = SetStatus(s, "WRITE_PENDING"), Record(p, "WRITE", s),
             Receive("sock", "app2sock", <<Request(p, "WRITE", c, AppRequest.data)>>),
             UNCHANGED ports
      PROVE  CallInv'
  <2>1. /\ socks'[s].status = "WRITE_PENDING" /\ socks'[s].connection = c
        /\ socks'[s].bin = socks[s].bin /\ socks'[s].toApp
        /\ \A t \in Sock : t # s => socks'[t] = socks[t]
    BY <1>2, <1>4, StatusIs
  <2>2. Owned(s)' <=> Owned(s)
    BY <1>4, <2>1 DEF Owned
  <2>3. RecordOK(s)'
    BY <1>2, <1>4, <2>1, <2>2 DEF RecordOK, Listener
  <2>4. PortFrom(s) /\ ListenerFrom(s)
    BY <1>4, <2>1 DEF PortFrom, ListenerFrom, Listener
  <2>5. Changes(s)
    BY <1>4, <2>1, <2>3, <2>4 DEF Changes
  <2>6. socks'[s].status \notin Pending
    BY <2>1 DEF Pending
  <2>7. c.srcport # PORT_ANY /\ ports[c.srcport] # 0
    BY <1>2, <1>4 DEF RecordOK
  <2>8. p \in Transport /\ "WRITE" \in srrType \ {"STATUS"} /\ "WRITE" \in Answering(p)
    BY <1>2, <1>4 DEF srrType, Answering
  <2>9. socks'[s].connection.protocol = p
    BY <2>1
  <2> HIDE DEF c
  <2>10. ASSUME p = "tcp"
         PROVE  TcpInv'
    <3>1. ports'[c.srcport] # 0
      BY <1>4, <2>7
    <3> QED BY <1>1, <1>2, <1>4, <2>5, <2>8, <2>10, <3>1, AppAsksTcp
  <2>11. p = "udp" \/ TcpInv'
    BY <2>8, <2>10 DEF Transport
  <2> HIDE DEF p
  <2> QED BY <1>1, <1>2, <1>4, <2>1, <2>5, <2>6, <2>7, <2>8, <2>9, <2>11, AppAsking
<1> QED BY <1>3, <1>4 DEF SockWrite
LEMMA SockConnectCall ==
    ASSUME PipesOK, SockTypeOK, InOrder("tcp"), CallInv, UNCHANGED <<libVars, peerVars>>,
           SockConnect
    PROVE  CallInv'
<1> SUFFICES ASSUME NEW s, s = AppRequest.sockfd,
                    NEW proto, proto = socks[s].connection.protocol
             PROVE  CallInv'
  OBVIOUS
<1> DEFINE c == AppRequest.connection
           src == IF socks[s].status = "BOUND" THEN socks[s].connection.src ELSE MyIPAddr
           full(p) == [src |-> src, srcport |-> p, dest |-> c.dest,
                       destport |-> c.destport, protocol |-> proto]
           stat == IF proto = "udp" THEN "CONNECTED" ELSE "CONNECT_PENDING"
           type == IF proto = "udp" THEN "FORWARD" ELSE "CONNECT"
<1>1. AppCalls("mCONNECT")
  BY Zenon DEF SockConnect
<1>2. /\ s \in Sock /\ socks[s] \in GoodRecord /\ socks \in [Sock -> GoodRecord]
      /\ RecordOK(s) /\ socks[s].connection \in Connection
      /\ (socks[s].toApp => proto \in Transport) /\ c \in Connection
  BY <1>1, Named
<1>3. CASE Reject("EINVALID_OP") \/ Reject("ERESOURCE_UNAVAIL")
  BY <1>1, <1>3, AppRejected
<1>4. ASSUME socks[s].status \in {"UNBOUND", "BOUND"}, socks[s].toApp,
             NEW p \in Port, SourcePort(s, c, p), NEW d, d = full(p),
             socks' = [socks EXCEPT ![s] = [@ EXCEPT !.status = stat, !.connection = d]],
             Record(proto, type, s),
             Receive("sock", "app2sock", <<Request(proto, type, d, 0)>>)
      PROVE  CallInv'
  <2>1. proto \in Transport
    BY <1>2, <1>4
  <2>2. /\ d \in Connection /\ d.protocol = proto /\ d.srcport = p /\ d.dest = c.dest
    BY <1>2, <1>4, <2>1 DEF Connection, IPAddress
  <2>3. c.dest # IP_ADDRESS_ANY
    <3>1. AppRequest \in ToSet(fifo["app2sock"]) /\ AppRequest.type = "mCONNECT"
      BY <1>1, <1>4, CallTaken DEF CallInv
    <3> QED BY <3>1 DEF CallInv, AppCallOK
  <2>4. /\ socks'[s].status = stat /\ socks'[s].connection = d /\ socks'[s].toApp
        /\ socks'[s].bin = socks[s].bin
        /\ \A t \in Sock : t # s => socks'[t] = socks[t]
    BY <1>2, <1>4 DEF GoodRecord, SockRecord
  <2>5. /\ proto = "udp" => stat = "CONNECTED" /\ type = "FORWARD"
        /\ proto = "tcp" => stat = "CONNECT_PENDING" /\ type = "CONNECT"
        /\ type \in srrType \ {"STATUS"} /\ "udp" \in Transport /\ "tcp" \in Transport
        /\ proto \in {"tcp", "udp"}
    BY <2>1 DEF srrType, Transport
  <2> HIDE DEF full, stat, type, c
  <2>6. proto = "tcp" => socks[s].bin = 0
    BY <1>2, <1>4 DEF RecordOK
  \* The port is free, or it is that of the bound socket.
  <2>7. ASSUME socks[s].status = "UNBOUND"
        PROVE  Changes(s) /\ ~ Touched(p) /\ p # PORT_ANY /\ ports'[p] # 0
    <3>1. ResolveSrcPort(c, p) /\ ports' = AssignPort(p, s)
      BY <1>4, <2>7 DEF SourcePort
    <3>2. /\ p # PORT_ANY /\ ports[p] = 0 /\ ports'[p] = s
          /\ \A port \in Port : ports[port] # 0 => ports'[port] = ports[port]
      BY <1>2, <3>1, ResolvedPort
    <3>3. socks[s].bin = 0 /\ Records
      BY <1>2, <2>7 DEF CallInv, RecordOK
    <3>4. Changes(s)
      BY <1>2, <2>2, <2>4, <2>5, <3>2, <3>3, PortGiven
    <3>5. ~ Touched(p)
      BY <3>2 DEF CallInv, TcpInv, KnownPorts
    <3>6. ports'[p] # 0
      BY <1>2, <3>2 DEF Sock
    <3> QED BY <3>2, <3>4, <3>5, <3>6
  <2>8. ASSUME socks[s].status = "BOUND"
        PROVE  /\ Changes(s) /\ (proto = "tcp" => ~ Touched(p))
               /\ p # PORT_ANY /\ ports'[p] # 0
    <3>1. p = socks[s].connection.srcport /\ ports' = ports
      BY <2>8, <1>4 DEF SourcePort
    <3>2. p # PORT_ANY /\ ports[p] = s /\ ports[p] # 0
      BY <1>2, <2>8, <3>1 DEF RecordOK, Owned
    <3>3. Owned(s)'
      BY <2>2, <2>4, <3>1, <3>2 DEF Owned
    <3>4. RecordOK(s)'
      BY <2>2, <2>4, <2>5, <2>6, <3>1, <3>2, <3>3 DEF RecordOK, Listener
    <3>5. PortFrom(s)
      BY <2>2, <2>4, <2>8, <3>1 DEF PortFrom, Listener
    <3>6. ListenerFrom(s)
      BY <2>4, <2>5 DEF ListenerFrom, Listener
    <3>7. Changes(s)
      BY <2>4, <3>1, <3>4, <3>5, <3>6 DEF Changes
    <3>8. proto = "tcp" => ~ Touched(p)
      BY <1>2, <2>8, <3>1 DEF CallInv, TcpInv, Listeners
    <3> QED BY <3>1, <3>2, <3>7, <3>8
  <2>9. /\ Changes(s) /\ (proto = "tcp" => ~ Touched(p)) /\ p # PORT_ANY /\ ports'[p] # 0
    BY <1>4, <2>7, <2>8
  <2>10. ASSUME proto = "udp"
         PROVE  CallInv'
    <3>1. /\ socks'[s].status = "CONNECTED" /\ socks'[s].status \notin Pending
          /\ "FORWARD" \in Answering("udp") /\ "FORWARD" \in srrType \ {"STATUS"}
      BY <2>4, <2>5, <2>10 DEF Pending, Answering
    <3>2. /\ Record("udp", "FORWARD", s)
          /\ Receive("sock", "app2sock", <<Request("udp", "FORWARD", d, 0)>>)
          /\ socks'[s].connection.protocol = "udp" /\ socks'[s].connection.srcport # PORT_ANY
      BY <1>4, <2>2, <2>4, <2>5, <2>9, <2>10
    <3> QED BY <1>1, <1>2, <2>2, <2>5, <2>9, <3>1, <3>2, AppAsking
  <2>11. ASSUME proto = "tcp"
         PROVE  CallInv'
    <3>1. /\ socks'[s].status = "CONNECT_PENDING" /\ socks'[s].status \in Pending
          /\ "CONNECT" \notin Answering("tcp") /\ "CONNECT" \in srrType \ {"STATUS"}
          /\ PendingOf["CONNECT"] = "CONNECT_PENDING"
      BY <2>4, <2>5, <2>11 DEF Pending, Answering, PendingOf
    <3>2. /\ Record("tcp", "CONNECT", s)
          /\ Receive("sock", "app2sock", <<Request("tcp", "CONNECT", d, 0)>>)
      BY <1>4, <2>5, <2>11
    <3>3. TcpInv'
      BY <1>1, <1>2, <2>2, <2>3, <2>4, <2>9, <2>11, <3>1, <3>2, AppAsksTcp
    <3> QED BY <1>1, <1>2, <2>2, <2>5, <2>9, <3>1, <3>2, <3>3, AppAsking
  <2> QED BY <2>5, <2>10, <2>11
<1> QED BY <1>3, <1>4 DEF SockConnect

LEMMA SockCloseCall ==
    ASSUME PipesOK, SockTypeOK, InOrder("tcp"), CallInv, UNCHANGED <<libVars, peerVars>>,
           SockClose
    PROVE  CallInv'
<1> SUFFICES ASSUME NEW s, s = AppRequest.sockfd, NEW c, c = socks[s].connection,
                    NEW p, p = c.protocol
             PROVE  CallInv'
  OBVIOUS
<1>1. AppCalls("mCLOSE")
  BY Zenon DEF SockClose
<1>2. /\ s \in Sock /\ socks[s] \in GoodRecord /\ socks \in [Sock -> GoodRecord]
      /\ RecordOK(s) /\ c \in Connection /\ (socks[s].toApp => p \in Transport)
      /\ AppRequest.data \in Nat
  BY <1>1, Named
<1>3. CASE Reject("EINVALID_OP")
  BY <1>1, <1>3, AppRejected
<1>4. ASSUME socks[s].toApp, socks' = CloseSocket(s), Record(p, "CLOSE", s),
             NEW sends, sends = <<Request(p, "CLOSE", c, AppRequest.data), Response(s, "EOK")>>,
             Receive("sock", "app2sock", sends), UNCHANGED ports
      PROVE  CallInv'
  <2>1. /\ socks'[s] = FreeRecord /\ \A t \in Sock : t # s => socks'[t] = socks[t]
    BY <1>2, <1>4 DEF CloseSocket
  <2>2. /\ socks'[s].status = "FREE" /\ socks'[s].connection.srcport = PORT_ANY
    BY <2>1 DEF FreeRecord, NoConnection
  <2>3. RecordOK(s)'
    BY <2>1, <2>2 DEF RecordOK, Listener
  <2>4. PortFrom(s) /\ ListenerFrom(s)
    BY <2>2 DEF PortFrom, ListenerFrom, Listener
  <2>5. Changes(s)
    BY <1>4, <2>1, <2>3, <2>4 DEF Changes
  <2>6. socks'[s].status \notin Pending
    BY <2>2 DEF Pending
  <2>7. p \in Transport /\ "CLOSE" \in srrType \ {"STATUS"}
    BY <1>2, <1>4 DEF srrType
  <2>8. \E a : sends = <<Request(p, "CLOSE", c, AppRequest.data), a>> /\ a.to = "sock2app"
    <3>1. Response(s, "EOK").to = "sock2app"
      BY DEF Response, ToApp
    <3> QED BY <1>4, <3>1
  <2>9. ASSUME p = "tcp"
        PROVE  TcpInv'
    <3>1. c.srcport # PORT_ANY => ports'[c.srcport] # 0
      BY <1>2, <1>4 DEF RecordOK
    \* The connection is neither that of a listener nor has it a bound socket's port.
    <3>2. ASSUME NEW t \in Sock
          PROVE  /\ Listener(t)' => c # socks'[t].connection
                 /\ socks'[t].status = "BOUND" /\ socks'[t].connection.protocol = "tcp" =>
                      c.srcport # socks'[t].connection.srcport
      <4>1. CASE t = s
        BY <2>2, <4>1 DEF Listener
      <4>2. CASE t # s
        <5>1. socks'[t] = socks[t] /\ RecordOK(t) /\ PortAlone(t)
          BY <2>1, <4>2 DEF CallInv, Records
        <5>2. ASSUME Listener(t), c = socks[t].connection
              PROVE  FALSE
          <6>1. /\ c.srcport # PORT_ANY /\ ports[c.srcport] = t /\ c = RemoteOpen(c)
            BY <5>1, <5>2 DEF RecordOK, Owned, Listener
          <6>2. c.dest = IP_ADDRESS_ANY
            BY <1>2, <6>1, RemoteOpenTwice
          <6>3. ~ Owned(s)
            BY <4>2, <6>1 DEF Owned
          <6> QED BY <1>2, <6>1, <6>2, <6>3 DEF RecordOK
        <5>3. socks[t].status = "BOUND" => c.srcport # socks[t].connection.srcport
          <6>1. socks[t].status = "BOUND" => Owned(t) /\ ~ Listener(t)
            BY <5>1 DEF RecordOK, Listener
          <6> QED BY <1>2, <4>2, <5>1, <6>1 DEF PortAlone
        <5>4. Listener(t)' <=> Listener(t)
          BY <5>1 DEF Listener
        <5> QED BY <5>1, <5>2, <5>3, <5>4
      <4> QED BY <4>1, <4>2
    <3>3. "tcp" \in Transport /\ Record("tcp", "CLOSE", s)
      BY <1>4, <2>7, <2>9
    <3>4. \E a : sends = <<Request("tcp", "CLOSE", c, AppRequest.data), a>> /\ a.to = "sock2app"
      BY <2>8, <2>9
    <3> QED BY <1>1, <1>2, <1>4, <2>5, <2>7, <3>1, <3>2, <3>3, <3>4, AppAsksTcp
  <2>10. p = "udp" \/ TcpInv'
    BY <2>7, <2>9 DEF Transport
  <2> QED BY <1>1, <1>2, <1>4, <2>5, <2>6, <2>7, <2>8, <2>10, AppAsking
<1> QED BY <1>3, <1>4 DEF SockClose

LEMMA SockServesAppCall ==
    ASSUME PipesOK, SockTypeOK, InOrder("tcp"), CallInv, UNCHANGED <<libVars, peerVars>>,
           SockServesApp
    PROVE  CallInv'
<1>1. CASE SockOther
  BY <1>1, AppRejected DEF SockOther
<1> QED BY <1>1, SockSocketCall, SockBindCall, SockListenCall, SockAcceptCall,
           SockConnectCall, SockReadCall, SockWriteCall, SockCloseCall DEF SockServesApp
----------------------------------------------------------------------------
(* The messages of a transport module *)

LEMMA Heard ==
    ASSUME PipesOK, NEW p \in Transport, NEW type, LowerSends(p, type), NEW sends,
           Receive("sock", UpperPipe[p], sends),
           \A i \in DOMAIN sends : sends[i].to = "sock2app" \/ sends[i].msg.type = "STATUS"
    PROVE  /\ out["sock"] = <<>> /\ out'["sock"] = sends
           /\ fifo'["app2sock"] = fifo["app2sock"] /\ fifo'["sock2app"] = fifo["sock2app"]
           /\ \A q \in Transport : Down(q)' = Down(q)
           /\ Reports("tcp")' \subseteq Reports("tcp")
           /\ Answers("tcp")' \subseteq Answers("tcp")
<1>1. out["sock"] = <<>>
  BY DEF LowerSends, GetNextEvent
<1>2. /\ UpperPipe[p] \in {"app2sock", "tcp2sock", "udp2sock"} /\ UpperPipe[p] # "app2sock"
      /\ p # "tcp" => UpperPipe[p] # UpperPipe["tcp"]
      /\ "app2sock" \in Fifo /\ "sock2app" \in Fifo /\ UpperPipe["tcp"] \in Fifo
  BY DEF UpperPipe, Transport, Fifo
<1>3. /\ out'["sock"] = sends /\ fifo'[UpperPipe[p]] = Tail(fifo[UpperPipe[p]])
      /\ \A g \in Fifo : g # UpperPipe[p] => fifo'[g] = fifo[g]
      /\ fifo'["sock2app"] = fifo["sock2app"]
  BY <1>2, SockReads
<1>4. \A q \in Transport : Down(q)' = Down(q)
  BY <1>1, <1>2, NothingAsked
<1>5. Reports("tcp")' \subseteq Reports("tcp") /\ Answers("tcp")' \subseteq Answers("tcp")
  <2>1. CASE p = "tcp"
    BY <1>3, <2>1, UpTaken
  <2>2. CASE p # "tcp"
    BY <1>2, <1>3, <2>2 DEF Reports, Answers
  <2> QED BY <2>1, <2>2
<1> QED BY <1>1, <1>2, <1>3, <1>4, <1>5

\* A message has been dealt with; what is left to show is the place of the call and
\* what the requests say of the records.
LEMMA Served ==
    ASSUME PipesOK, SockTypeOK, CallInv, UNCHANGED <<libVars, peerVars, ports, asked>>,
           NEW p \in Transport, NEW type, LowerSends(p, type), NEW sends,
           Receive("sock", UpperPipe[p], sends),
           \A i \in DOMAIN sends : sends[i].to = "sock2app" \/ sends[i].msg.type = "STATUS",
           Records', ListenersFrom, Waits("tcp")' \subseteq Waits("tcp"),
           \A r \in Waits("tcp")' : r.type \in {"CONNECT", "ACCEPT"} /\ Refusable(r.req) =>
              socks'[r.sock] = socks[r.sock],
           OneCall', Requested'
    PROVE  CallInv'
<1> USE DEF CallInv
<1>1. /\ fifo'["app2sock"] = fifo["app2sock"] /\ Down("tcp")' = Down("tcp")
      /\ Reports("tcp")' \subseteq Reports("tcp") /\ Answers("tcp")' \subseteq Answers("tcp")
  <2>1. "tcp" \in Transport
    BY DEF Transport
  <2> QED BY <2>1, Heard
<1>2. AppCallOK'
  BY <1>1 DEF AppCallOK
<1>3. \A m \in Down("tcp") : m.connection.srcport \in Port
  <2>1. "tcp" \in Transport
    BY DEF Transport
  <2> QED BY <2>1, DownTypes DEF SockRequestResponse, Connection
<1>4. TcpInv'
  <2>1. asked'["tcp"] = asked["tcp"] /\ \A port \in Port : ports[port] # 0 => ports'[port] # 0
    OBVIOUS
  <2> QED BY <1>1, <1>3, <2>1, TcpKept
<1> QED BY <1>2, <1>4

\* It answers no call, and lets none wait.
LEMMA CallStays ==
    ASSUME PipesOK, OneCall, UNCHANGED libVars, NEW p \in Transport, NEW type,
           LowerSends(p, type), NEW sends, Receive("sock", UpperPipe[p], sends),
           \A i \in DOMAIN sends : sends[i].to # "sock2app" /\ sends[i].msg.type = "STATUS",
           \A q \in Transport : \A r :
              r.type \in Answering(q) => (r \in Waits(q)' <=> r \in Waits(q)),
           \A s \in Sock : socks'[s].status = socks[s].status
    PROVE  OneCall'
<1>1. /\ out["sock"] = <<>> /\ out'["sock"] = sends
      /\ fifo'["app2sock"] = fifo["app2sock"] /\ fifo'["sock2app"] = fifo["sock2app"]
  BY Heard
<1>2. ToldBy(out'["sock"]) = {} /\ ToldBy(out["sock"]) = {}
  BY <1>1, ToldByFew DEF ToldBy
<1>3. NoFreeSock => NoFreeSock'
  BY DEF NoFreeSock
<1> QED BY <1>1, <1>2, <1>3, CallKept DEF libVars

\* It answers the call that waited.
LEMMA CallAnswered ==
    ASSUME PipesOK, UNCHANGED libVars, waiting, NoCall, NoReply,
           NEW p \in Transport, NEW type, LowerSends(p, type), NEW sends,
           Receive("sock", UpperPipe[p], sends),
           \A i \in DOMAIN sends : sends[i].to = "sock2app" \/ sends[i].msg.type = "STATUS",
           ToldBy(sends) = {1}, NoRequest', NoPending'
    PROVE  OneCall'
<1>1. /\ out'["sock"] = sends
      /\ fifo'["app2sock"] = fifo["app2sock"] /\ fifo'["sock2app"] = fifo["sock2app"]
  BY Heard
<1>2. OneReply'
  BY <1>1, Told DEF NoReply
<1>3. NoCall' /\ waiting'
  BY <1>1 DEF NoCall, libVars
<1> QED BY <1>2, <1>3 DEF OneCall, Answered

\* While a socket waits, nothing else stands for the call.
LEMMA SocketWaits ==
    ASSUME OneCall, NEW s \in Sock, socks[s].status \in Pending
    PROVE  /\ waiting /\ NoCall /\ NoReply /\ NoRequest
           /\ \A t \in Sock : t # s => socks[t].status \notin Pending
<1>1. ~ NoPending
  BY DEF NoPending
<1>2. AtSocket
  BY <1>1 DEF OneCall, Idle, Called, Answered, AtLower, Lost
<1> QED BY <1>2 DEF AtSocket, OnePending

\* The port of the socket a WRITE is for is known to the TCP module.
LEMMA WrittenNotRefusable ==
    ASSUME PipesOK, SockTypeOK, TcpInv, NEW p \in Transport, NEW s \in Sock, NEW stat,
           WriteFor(p, s, stat),
           p = "udp" => stat \in {"CONNECTED", "READ_PENDING"}
    PROVE  \A r \in Waits("tcp") :
              r.type \in {"CONNECT", "ACCEPT"} /\ Refusable(r.req) => r.sock # s
<1> SUFFICES ASSUME NEW r \in Waits("tcp"), r.type \in {"CONNECT", "ACCEPT"},
                    Refusable(r.req), r.sock = s
             PROVE  FALSE
  OBVIOUS
<1>1. socks[s].status = PendingOf[r.type] /\ ~ Touched(socks[s].connection.srcport)
  BY DEF TcpInv, Refusals
<1>2. LowerSends(p, "WRITE") /\ HasConnection(s, Message(p).connection)
      /\ socks[s].status = stat
  BY DEF WriteFor, FindConnection
<1>3. PendingOf["CONNECT"] = "CONNECT_PENDING" /\ PendingOf["ACCEPT"] = "ACCEPT_PENDING"
  BY DEF PendingOf
<1>4. p = "tcp"
  BY <1>1, <1>2, <1>3 DEF Transport
<1>5. Message(p).connection \in Connection
  BY <1>2, MessageSends
<1>6. socks[s].connection.srcport = Message(p).connection.srcport
  BY <1>2, <1>5, RemoteOpenTwice DEF HasConnection
<1>7. Message(p) \in Reports("tcp")
  <2>1. /\ fifo[UpperPipe["tcp"]] \in Seq(SockRequestResponse) /\ fifo[UpperPipe["tcp"]] # <<>>
        /\ Message(p) = Head(fifo[UpperPipe["tcp"]]) /\ Message(p).type = "WRITE"
    BY <1>2, <1>4, StreamTypes, MessageType DEF Message
  <2>2. Message(p) \in ToSet(fifo[UpperPipe["tcp"]])
    BY <2>1, ToSetTail
  <2> QED BY <2>1, <2>2 DEF Reports
<1> QED BY <1>1, <1>6, <1>7 DEF Touched
LEMMA AckIs ==
    ASSUME PipesOK, NEW p \in Transport, LowerSends(p, "WRITE"),
           NEW data, NEW bytes, NEW err, NEW fd
    PROVE  /\ Ack(p, data, bytes, err).to # "sock2app"
           /\ Ack(p, data, bytes, err).msg.type = "STATUS"
           /\ AppMessage(p, fd).to = "sock2app"
<1>1. Message(p) \in SockRequestResponse
  BY MessageType
<1>2. LowerPipe[p] # "sock2app"
  BY DEF LowerPipe, Transport
<1> QED BY <1>1, <1>2 DEF AppMessage, ToApp, Ack, ToLower, SockRequestResponse

\* A WRITE that changes nothing.
LEMMA WriteTurnedAway ==
    ASSUME PipesOK, SockTypeOK, CallInv, UNCHANGED <<libVars, peerVars, sockVars>>,
           NEW p \in Transport, LowerSends(p, "WRITE"), NEW k, k.to # "sock2app",
           k.msg.type = "STATUS", Receive("sock", UpperPipe[p], <<k>>)
    PROVE  CallInv'
<1>1. /\ socks' = socks /\ ports' = ports /\ reqq' = reqq /\ asked' = asked
      /\ \A q \in Transport : Waits(q)' = Waits(q)
  BY DEF sockVars, Waits
<1>2. 1 \in Sock
  BY SizeAssumption DEF Sock
<1>3. Records' /\ ListenersFrom
  BY <1>1, <1>2, NothingChanges, RecordsChange DEF CallInv
<1>4. \A i \in DOMAIN <<k>> : <<k>>[i].to # "sock2app" /\ <<k>>[i].msg.type = "STATUS"
  OBVIOUS
<1>5. OneCall'
  BY <1>1, <1>4, CallStays DEF CallInv
<1>6. Requested'
  BY <1>1, RequestedKept DEF CallInv
<1>7. Waits("tcp")' \subseteq Waits("tcp")
  BY <1>1 DEF Transport
<1> QED BY <1>1, <1>3, <1>4, <1>5, <1>6, <1>7, Served

\* A WRITE that changes the record of its socket only.
LEMMA SocketServed ==
    ASSUME PipesOK, SockTypeOK, CallInv, UNCHANGED <<libVars, peerVars, ports, reqq, asked>>,
           NEW p \in Transport, NEW s \in Sock, NEW stat, WriteFor(p, s, stat),
           p = "udp" => stat \in {"CONNECTED", "READ_PENDING"},
           Changes(s), NEW sends, Receive("sock", UpperPipe[p], sends),
           NEW k, k.to # "sock2app", k.msg.type = "STATUS",
           \/ /\ sends = <<k>> /\ socks'[s].status = socks[s].status
              /\ socks'[s].connection = socks[s].connection
           \/ /\ \E a : sends = <<a, k>> /\ a.to = "sock2app"
              /\ stat \in Pending /\ socks'[s].status \notin Pending
    PROVE  CallInv'
<1>1. /\ LowerSends(p, "WRITE") /\ socks[s].status = stat
      /\ \A q \in Transport : Waits(q)' = Waits(q)
      /\ \A t \in Sock : t # s => socks'[t] = socks[t]
  BY DEF WriteFor, Waits, Changes
<1>2. Records' /\ ListenersFrom
  BY RecordsChange DEF CallInv
<1>3. \A i \in DOMAIN sends : sends[i].to = "sock2app" \/ sends[i].msg.type = "STATUS"
  OBVIOUS
<1>4. \A r \in Waits("tcp") : r.type \in {"CONNECT", "ACCEPT"} /\ Refusable(r.req) =>
         socks'[r.sock] = socks[r.sock]
  <2>1. "tcp" \in Transport
    BY DEF Transport
  <2>2. \A r \in Waits("tcp") : r.sock \in Sock
    BY <2>1, WaitsTypes
  <2> QED BY <1>1, <2>2, WrittenNotRefusable DEF CallInv
<1>5. Waits("tcp")' = Waits("tcp")
  BY <1>1 DEF Transport
<1>6. CASE /\ sends = <<k>> /\ socks'[s].status = socks[s].status
           /\ socks'[s].connection = socks[s].connection
  <2>1. \A i \in DOMAIN sends : sends[i].to # "sock2app" /\ sends[i].msg.type = "STATUS"
    BY <1>6
  <2>2. /\ \A t \in Sock : socks'[t].status = socks[t].status
        /\ \A t \in Sock : socks'[t].connection = socks[t].connection
    BY <1>1, <1>6
  <2>3. OneCall'
    BY <1>1, <2>1, <2>2, CallStays DEF CallInv
  <2>4. Requested'
    <3>1. \A q \in Transport : \A r \in Waits(q) : r.sock \in Sock
      BY WaitsTypes
    <3> QED BY <1>1, <2>2, <3>1, RequestedKept DEF CallInv
  <2> QED BY <1>1, <1>2, <1>3, <1>4, <1>5, <2>3, <2>4, Served
<1>7. ASSUME NEW a, sends = <<a, k>>, a.to = "sock2app",
             stat \in Pending, socks'[s].status \notin Pending
      PROVE  CallInv'
  <2>1. ToldBy(sends) = {1}
    BY <1>7, ToldByFew
  <2>2. /\ waiting /\ NoCall /\ NoReply /\ NoRequest
        /\ \A t \in Sock : t # s => socks[t].status \notin Pending
    BY <1>1, <1>7, SocketWaits DEF CallInv
  <2>3. NoRequest' /\ NoPending'
    BY <1>1, <1>7, <2>2 DEF NoRequest, NoPending
  <2>4. OneCall'
    BY <1>1, <1>3, <2>1, <2>2, <2>3, CallAnswered
  <2>5. Requested'
    BY <2>3, NothingRequested
  <2> QED BY <1>1, <1>2, <1>3, <1>4, <1>5, <2>4, <2>5, Served
<1> QED BY <1>6, <1>7

LEMMA WriteForParts ==
    ASSUME PipesOK, SockTypeOK, CallInv, NEW p \in Transport, NEW s \in Sock, NEW stat,
           WriteFor(p, s, stat), NEW c, c = Message(p).connection
    PROVE  /\ LowerSends(p, "WRITE") /\ socks[s].status = stat /\ RecordOK(s)
           /\ socks[s] \in GoodRecord /\ socks \in [Sock -> GoodRecord]
           /\ c \in Connection /\ c.srcport = socks[s].connection.srcport
           /\ stat # "ACCEPT_PENDING" => socks[s].connection = c
           /\ p = "tcp" => c.dest # IP_ADDRESS_ANY /\ c.protocol = "tcp"
<1>1. /\ LowerSends(p, "WRITE") /\ socks[s].status = stat /\ HasConnection(s, c)
  BY DEF WriteFor, FindConnection
<1>2. c \in Connection
  BY <1>1, MessageSends
<1>3. RecordOK(s) /\ socks[s] \in GoodRecord /\ socks \in [Sock -> GoodRecord]
  BY DEF CallInv, Records, SockTypeOK
<1>4. c.srcport = socks[s].connection.srcport /\ (stat # "ACCEPT_PENDING" => socks[s].connection = c)
  BY <1>1, <1>2, RemoteOpenTwice DEF HasConnection
<1>5. p = "tcp" => c.dest # IP_ADDRESS_ANY /\ c.protocol = "tcp"
  <2> SUFFICES ASSUME p = "tcp"
               PROVE  Message(p) \in Reports("tcp")
    BY DEF CallInv, TcpInv, TcpConnections
  <2>1. /\ fifo[UpperPipe["tcp"]] \in Seq(SockRequestResponse) /\ fifo[UpperPipe["tcp"]] # <<>>
        /\ Message(p) = Head(fifo[UpperPipe["tcp"]]) /\ Message(p).type = "WRITE"
    BY <1>1, StreamTypes, MessageType DEF Message
  <2>2. Message(p) \in ToSet(fifo[UpperPipe["tcp"]])
    BY <2>1, ToSetTail
  <2> QED BY <2>1, <2>2 DEF Reports
<1> QED BY <1>1, <1>2, <1>3, <1>4, <1>5

LEMMA WriteBufferedCall ==
    ASSUME PipesOK, SockTypeOK, CallInv, UNCHANGED <<libVars, peerVars>>,
           NEW p \in Transport, WriteBuffered(p)
    PROVE  CallInv'
<1>1. PICK s \in Sock :
        /\ WriteFor(p, s, "CONNECTED")
        /\ socks' = [socks EXCEPT ![s] = [@ EXCEPT !.bin = socks[s].bin + Taken(p, s)]]
        /\ Receive("sock", UpperPipe[p],
             <<Ack(p, 0, Taken(p, s), IF Taken(p, s) > 0 THEN "EOK" ELSE "EBUF_SPACE")>>)
        /\ UNCHANGED <<ports, reqq, asked>>
  BY DEF WriteBuffered
<1>2. /\ LowerSends(p, "WRITE") /\ socks[s].status = "CONNECTED" /\ RecordOK(s)
      /\ socks[s] \in GoodRecord /\ socks \in [Sock -> GoodRecord]
  BY <1>1, WriteForParts
<1>3. /\ socks'[s].status = "CONNECTED" /\ socks'[s].connection = socks[s].connection
      /\ socks'[s].toApp = socks[s].toApp /\ \A t \in Sock : t # s => socks'[t] = socks[t]
  BY <1>1, <1>2 DEF GoodRecord, SockRecord
<1>4. Owned(s)' <=> Owned(s)
  BY <1>1, <1>3 DEF Owned
<1>5. RecordOK(s)'
  BY <1>1, <1>2, <1>3, <1>4 DEF RecordOK, Listener
<1>6. PortFrom(s) /\ ListenerFrom(s)
  BY <1>2, <1>3 DEF PortFrom, ListenerFrom, Listener
<1>7. Changes(s)
  BY <1>1, <1>3, <1>5, <1>6 DEF Changes
<1> DEFINE k == Ack(p, 0, Taken(p, s), IF Taken(p, s) > 0 THEN "EOK" ELSE "EBUF_SPACE")
<1>8. k.to # "sock2app" /\ k.msg.type = "STATUS"
  BY <1>2, AckIs
<1> HIDE DEF k
<1>9. Receive("sock", UpperPipe[p], <<k>>)
  BY <1>1 DEF k
<1> QED BY <1>1, <1>2, <1>3, <1>7, <1>8, <1>9, SocketServed

LEMMA WriteReadCall ==
    ASSUME PipesOK, SockTypeOK, CallInv, UNCHANGED <<libVars, peerVars>>,
           NEW p \in Transport, WriteRead(p)
    PROVE  CallInv'
<1>1. PICK s \in Sock :
        /\ WriteFor(p, s, "READ_PENDING")
        /\ socks' = SetStatus(s, "CONNECTED")
        /\ Receive("sock", UpperPipe[p],
             <<AppMessage(p, s), Ack(p, 0, Message(p).data, "EOK")>>)
        /\ UNCHANGED <<ports, reqq, asked>>
  BY DEF WriteRead
<1>2. /\ LowerSends(p, "WRITE") /\ socks[s].status = "READ_PENDING" /\ RecordOK(s)
      /\ socks[s] \in GoodRecord /\ socks \in [Sock -> GoodRecord]
  BY <1>1, WriteForParts
<1>3. /\ socks'[s].status = "CONNECTED" /\ socks'[s].connection = socks[s].connection
      /\ socks'[s].toApp = socks[s].toApp /\ \A t \in Sock : t # s => socks'[t] = socks[t]
  BY <1>1, <1>2, StatusIs
<1>4. Owned(s)' <=> Owned(s)
  BY <1>1, <1>3 DEF Owned
<1>5. RecordOK(s)'
  BY <1>1, <1>2, <1>3, <1>4 DEF RecordOK, Listener
<1>6. PortFrom(s) /\ ListenerFrom(s)
  BY <1>2, <1>3 DEF PortFrom, ListenerFrom, Listener
<1>7. Changes(s)
  BY <1>1, <1>3, <1>5, <1>6 DEF Changes
<1> DEFINE a == AppMessage(p, s)
           k == Ack(p, 0, Message(p).data, "EOK")
<1>8. k.to # "sock2app" /\ k.msg.type = "STATUS" /\ a.to = "sock2app"
  BY <1>2, AckIs
<1> HIDE DEF a, k
<1>9. Receive("sock", UpperPipe[p], <<a, k>>)
  BY <1>1 DEF a, k
<1>10. "READ_PENDING" \in Pending /\ socks'[s].status \notin Pending
  BY <1>3 DEF Pending
<1>11. \E b : <<a, k>> = <<b, k>> /\ b.to = "sock2app"
  BY <1>8
<1> QED BY <1>1, <1>2, <1>7, <1>8, <1>9, <1>10, <1>11, SocketServed
\* A socket is freed; an accept ends.
LEMMA ClosedRecord ==
    ASSUME NEW s \in Sock, socks \in [Sock -> GoodRecord], socks' = CloseSocket(s),
           ports' = ports
    PROVE  /\ Changes(s) /\ socks'[s].status = "FREE"
           /\ \A t \in Sock : t # s => socks'[t] = socks[t]
<1>1. /\ socks'[s] = FreeRecord /\ \A t \in Sock : t # s => socks'[t] = socks[t]
  BY DEF CloseSocket
<1>2. /\ socks'[s].status = "FREE" /\ socks'[s].connection.srcport = PORT_ANY
  BY <1>1 DEF FreeRecord, NoConnection
<1>3. RecordOK(s)'
  BY <1>1, <1>2 DEF RecordOK, Listener
<1>4. PortFrom(s) /\ ListenerFrom(s)
  BY <1>2 DEF PortFrom, ListenerFrom, Listener
<1> QED BY <1>1, <1>2, <1>3, <1>4 DEF Changes

LEMMA AcceptEnds ==
    ASSUME NEW s \in Sock, socks \in [Sock -> GoodRecord], RecordOK(s),
           socks[s].status = "ACCEPT_PENDING", socks' = SetStatus(s, "LISTENING"),
           ports' = ports
    PROVE  Changes(s) /\ socks'[s].status = "LISTENING"
<1>1. /\ socks'[s].status = "LISTENING" /\ socks'[s].connection = socks[s].connection
      /\ socks'[s].toApp = socks[s].toApp /\ \A t \in Sock : t # s => socks'[t] = socks[t]
  BY StatusIs
<1>2. Owned(s)' <=> Owned(s)
  BY <1>1 DEF Owned
<1>3. RecordOK(s)'
  BY <1>1, <1>2 DEF RecordOK, Listener
<1>4. PortFrom(s)
  BY <1>1 DEF PortFrom, Listener
<1>5. ListenerFrom(s)
  BY <1>1 DEF ListenerFrom, Listener
<1> QED BY <1>1, <1>3, <1>4, <1>5 DEF Changes

LEMMA WriteAcceptFailedCall ==
    ASSUME PipesOK, SockTypeOK, CallInv, UNCHANGED <<libVars, peerVars>>, WriteAcceptFailed
    PROVE  CallInv'
<1> DEFINE k == Ack("tcp", Message("tcp").data, Message("tcp").bytes, "EOK")
<1>1. PICK s \in Sock :
        /\ WriteFor("tcp", s, "ACCEPT_PENDING")
        /\ socks' = SetStatus(s, "LISTENING")
        /\ Receive("sock", UpperPipe["tcp"], <<AppMessage("tcp", s), k>>)
        /\ UNCHANGED <<ports, reqq, asked>>
  BY DEF WriteAcceptFailed
<1>2. "tcp" \in Transport
  BY DEF Transport
<1>3. /\ LowerSends("tcp", "WRITE") /\ socks[s].status = "ACCEPT_PENDING" /\ RecordOK(s)
      /\ socks[s] \in GoodRecord /\ socks \in [Sock -> GoodRecord]
  BY <1>1, <1>2, WriteForParts
<1>4. Changes(s) /\ socks'[s].status = "LISTENING"
  BY <1>1, <1>3, AcceptEnds
<1> DEFINE a == AppMessage("tcp", s)
<1>5. k.to # "sock2app" /\ k.msg.type = "STATUS" /\ a.to = "sock2app"
  BY <1>2, <1>3, AckIs
<1> HIDE DEF a, k
<1>6. Receive("sock", UpperPipe["tcp"], <<a, k>>)
  BY <1>1 DEF a
<1>7. "ACCEPT_PENDING" \in Pending /\ socks'[s].status \notin Pending /\ "tcp" # "udp"
  BY <1>4 DEF Pending
<1>8. \E b : <<a, k>> = <<b, k>> /\ b.to = "sock2app"
  BY <1>5
<1> QED BY <1>1, <1>2, <1>4, <1>5, <1>6, <1>7, <1>8, SocketServed

\* The call is lost.
LEMMA WriteAcceptNoSockCall ==
    ASSUME PipesOK, SockTypeOK, CallInv, UNCHANGED <<libVars, peerVars>>, WriteAcceptNoSock
    PROVE  CallInv'
<1> DEFINE k == Ack("tcp", Message("tcp").data, Message("tcp").bytes, "ERESOURCE_UNAVAIL")
<1>1. PICK s \in Sock :
        /\ WriteFor("tcp", s, "ACCEPT_PENDING")
        /\ NoFreeSock
        /\ socks' = SetStatus(s, "LISTENING")
        /\ Receive("sock", UpperPipe["tcp"], <<k>>)
        /\ UNCHANGED <<ports, reqq, asked>>
  BY DEF WriteAcceptNoSock
<1>2. "tcp" \in Transport
  BY DEF Transport
<1>3. /\ LowerSends("tcp", "WRITE") /\ socks[s].status = "ACCEPT_PENDING" /\ RecordOK(s)
      /\ socks[s] \in GoodRecord /\ socks \in [Sock -> GoodRecord]
  BY <1>1, <1>2, WriteForParts
<1>4. /\ Changes(s) /\ socks'[s].status = "LISTENING"
      /\ \A t \in Sock : t # s => socks'[t] = socks[t]
  BY <1>1, <1>3, AcceptEnds DEF Changes
<1>5. k.to # "sock2app" /\ k.msg.type = "STATUS"
  BY <1>2, <1>3, AckIs
<1> HIDE DEF k
<1>6. \A i \in DOMAIN <<k>> : <<k>>[i].to = "sock2app" \/ <<k>>[i].msg.type = "STATUS"
  BY <1>5
<1>7. /\ waiting /\ NoCall /\ NoReply /\ NoRequest
      /\ \A t \in Sock : t # s => socks[t].status \notin Pending
  BY <1>3, SocketWaits DEF CallInv, Pending
<1>8. \A q \in Transport : Waits(q)' = Waits(q)
  BY <1>1 DEF Waits
<1>9. NoRequest' /\ NoPending' /\ NoFreeSock'
  BY <1>1, <1>4, <1>7, <1>8 DEF NoRequest, NoPending, NoFreeSock, Pending
<1>10. /\ out'["sock"] = <<k>>
       /\ fifo'["app2sock"] = fifo["app2sock"] /\ fifo'["sock2app"] = fifo["sock2app"]
  BY <1>1, <1>2, <1>3, <1>6, Heard
<1>11. NoCall' /\ NoReply' /\ waiting'
  BY <1>5, <1>7, <1>10, ToldByFew DEF NoCall, NoReply, libVars
<1>12. "mACCEPT" \in AppCallTypes
  BY <1>3 DEF RecordOK
<1>13. OneCall'
  BY <1>9, <1>11, <1>12 DEF OneCall, Lost
<1>14. Records' /\ ListenersFrom
  BY <1>4, RecordsChange DEF CallInv
<1>15. \A r \in Waits("tcp") : r.type \in {"CONNECT", "ACCEPT"} /\ Refusable(r.req) =>
          socks'[r.sock] = socks[r.sock]
  <2>1. \A r \in Waits("tcp") : r.sock \in Sock
    BY <1>2, WaitsTypes
  <2>2. \A r \in Waits("tcp") :
           r.type \in {"CONNECT", "ACCEPT"} /\ Refusable(r.req) => r.sock # s
    BY <1>1, <1>2, WrittenNotRefusable DEF CallInv
  <2> QED BY <1>4, <2>1, <2>2
<1>16. Requested'
  BY <1>9, NothingRequested
<1> QED BY <1>1, <1>2, <1>3, <1>6, <1>8, <1>13, <1>14, <1>15, <1>16, Served

LEMMA WriteConnectedCall ==
    ASSUME PipesOK, SockTypeOK, CallInv, UNCHANGED <<libVars, peerVars>>, WriteConnected
    PROVE  CallInv'
<1> DEFINE k == Ack("tcp", Message("tcp").data, Message("tcp").bytes, "EOK")
           c == Message("tcp").connection
<1>1. PICK s \in Sock :
        /\ WriteFor("tcp", s, "CONNECT_PENDING")
        /\ socks' = IF Message("tcp").error # "EOK"
                      THEN CloseSocket(s)
                      ELSE [socks EXCEPT ![s] =
                              [@ EXCEPT !.status = "CONNECTED", !.connection = c]]
        /\ Receive("sock", UpperPipe["tcp"], <<AppMessage("tcp", s), k>>)
        /\ UNCHANGED <<ports, reqq, asked>>
  BY DEF WriteConnected
<1>2. "tcp" \in Transport
  BY DEF Transport
<1>3. /\ LowerSends("tcp", "WRITE") /\ socks[s].status = "CONNECT_PENDING" /\ RecordOK(s)
      /\ socks[s] \in GoodRecord /\ socks \in [Sock -> GoodRecord]
      /\ socks[s].connection = c
  BY <1>1, <1>2, WriteForParts
<1>4. \/ socks' = CloseSocket(s)
      \/ /\ socks'[s].status = "CONNECTED" /\ socks'[s].connection = socks[s].connection
         /\ socks'[s].toApp = socks[s].toApp /\ \A t \in Sock : t # s => socks'[t] = socks[t]
  BY <1>1, <1>3 DEF GoodRecord, SockRecord
<1>5. Changes(s) /\ socks'[s].status \in {"FREE", "CONNECTED"}
  <2>1. CASE socks' = CloseSocket(s)
    BY <1>1, <1>3, <2>1, ClosedRecord
  <2>2. CASE /\ socks'[s].status = "CONNECTED" /\ socks'[s].connection = socks[s].connection
             /\ socks'[s].toApp = socks[s].toApp
             /\ \A t \in Sock : t # s => socks'[t] = socks[t]
    <3>1. Owned(s)' <=> Owned(s)
      BY <1>1, <2>2 DEF Owned
    <3>2. RecordOK(s)'
      BY <1>1, <1>3, <2>2, <3>1 DEF RecordOK, Listener
    <3>3. PortFrom(s) /\ ListenerFrom(s)
      BY <1>1, <1>3, <2>2 DEF PortFrom, ListenerFrom, Listener
    <3> QED BY <1>1, <2>2, <3>2, <3>3 DEF Changes
  <2> QED BY <1>4, <2>1, <2>2
<1> DEFINE a == AppMessage("tcp", s)
<1>6. k.to # "sock2app" /\ k.msg.type = "STATUS" /\ a.to = "sock2app"
  BY <1>2, <1>3, AckIs
<1> HIDE DEF a, k
<1>7. Receive("sock", UpperPipe["tcp"], <<a, k>>)
  BY <1>1 DEF a
<1>8. "CONNECT_PENDING" \in Pending /\ socks'[s].status \notin Pending /\ "tcp" # "udp"
  BY <1>5 DEF Pending
<1>9. \E b : <<a, k>> = <<b, k>> /\ b.to = "sock2app"
  BY <1>6
<1> QED BY <1>1, <1>2, <1>5, <1>6, <1>7, <1>8, <1>9, SocketServed

\* A WRITE for nobody, or for a socket that cannot take it.
LEMMA WriteTurnedAwayCall ==
    ASSUME PipesOK, SockTypeOK, CallInv, UNCHANGED <<libVars, peerVars>>,
           NEW p \in Transport, WriteNoMatch(p) \/ WriteRefused(p)
    PROVE  CallInv'
<1>1. ASSUME NEW err, NEW data, NEW bytes, LowerSends(p, "WRITE"), UNCHANGED sockVars,
             Receive("sock", UpperPipe[p], <<Ack(p, data, bytes, err)>>)
      PROVE  CallInv'
  <2> DEFINE k == Ack(p, data, bytes, err)
  <2>1. k.to # "sock2app" /\ k.msg.type = "STATUS"
    BY <1>1, AckIs
  <2>2. Receive("sock", UpperPipe[p], <<k>>)
    BY <1>1
  <2> HIDE DEF k
  <2> QED BY <1>1, <2>1, <2>2, WriteTurnedAway
<1> QED BY <1>1 DEF WriteNoMatch, WriteRefused

\* A connection is accepted: its socket shares the port of the listener.
LEMMA WriteAcceptedCall ==
    ASSUME PipesOK, SockTypeOK, CallInv, UNCHANGED <<libVars, peerVars>>, WriteAccepted
    PROVE  CallInv'
<1> SUFFICES ASSUME NEW c, c = Message("tcp").connection
             PROVE  CallInv'
  OBVIOUS
<1> DEFINE k == Ack("tcp", Message("tcp").data, Message("tcp").bytes, "EOK")
<1>1. PICK s \in Sock, new \in Sock :
        /\ WriteFor("tcp", s, "ACCEPT_PENDING")
        /\ FindFreeSock(new)
        /\ socks' = [SetStatus(s, "LISTENING") EXCEPT ![new] =
                       [@ EXCEPT !.status = "CONNECTED", !.toApp = TRUE, !.connection = c]]
        /\ Receive("sock", UpperPipe["tcp"], <<AppMessage("tcp", new), k>>)
        /\ UNCHANGED <<ports, reqq, asked>>
  BY DEF WriteAccepted
<1>2. "tcp" \in Transport
  BY DEF Transport
<1>3. /\ LowerSends("tcp", "WRITE") /\ socks[s].status = "ACCEPT_PENDING" /\ RecordOK(s)
      /\ socks \in [Sock -> GoodRecord] /\ c.srcport = socks[s].connection.srcport
      /\ c \in Connection /\ c.dest # IP_ADDRESS_ANY /\ c.protocol = "tcp"
  BY <1>1, <1>2, WriteForParts
<1>4. socks[new].status = "FREE" /\ new # s
  BY <1>1, <1>3 DEF FindFreeSock
<1>5. /\ socks'[s].status = "LISTENING" /\ socks'[s].connection = socks[s].connection
      /\ socks'[s].toApp = socks[s].toApp
      /\ socks'[new].status = "CONNECTED" /\ socks'[new].connection = c /\ socks'[new].toApp
      /\ \A t \in Sock : t # s /\ t # new => socks'[t] = socks[t]
  <2>1. /\ socks[s] \in GoodRecord /\ socks[new] \in GoodRecord
    BY <1>3
  <2> QED BY <1>1, <1>3, <1>4, <2>1 DEF SetStatus, GoodRecord, SockRecord
<1> HIDE DEF k
<1>6. c.srcport \in Port /\ c.srcport # PORT_ANY /\ ports[c.srcport] # 0
  BY <1>3 DEF RecordOK, Connection
<1>7. ASSUME NEW t \in Sock
      PROVE  RecordOK(t)'
  <2>1. CASE t = s
    <3>1. Owned(s)' <=> Owned(s)
      BY <1>1, <1>5 DEF Owned
    <3>2. RecordOK(s)'
      BY <1>1, <1>3, <1>5, <3>1 DEF RecordOK, Listener
    <3> QED BY <2>1, <3>2
  <2>2. CASE t = new
    <3>1. RecordOK(new)'
      BY <1>1, <1>3, <1>5, <1>6 DEF RecordOK, Listener
    <3> QED BY <2>2, <3>1
  <2>3. CASE t # s /\ t # new
    BY <1>1, <1>5, <2>3, OthersKept DEF CallInv
  <2> QED BY <2>1, <2>2, <2>3
<1>8. ASSUME NEW t \in Sock
      PROVE  PortAlone(t)'
  <2> SUFFICES ASSUME Owned(t)', ~ Listener(t)', NEW u \in Sock, u # t,
                      socks'[u].connection.srcport = socks'[t].connection.srcport
               PROVE  FALSE
    BY DEF PortAlone
  <2>1. Owned(s) /\ Listener(s)
    BY <1>3 DEF RecordOK, Listener
  <2>2. t # s /\ t # new
    BY <1>1, <1>3, <1>4, <1>5, <2>1 DEF Owned, Listener
  <2>3. socks'[t] = socks[t] /\ Owned(t) /\ ~ Listener(t)
    BY <1>1, <1>5, <2>2 DEF Owned, Listener
  <2>4. \A v \in Sock : v # t => socks[v].connection.srcport # socks[t].connection.srcport
    BY <2>3 DEF CallInv, Records, PortAlone
  <2> QED BY <1>3, <1>5, <2>2, <2>3, <2>4
<1>9. Records'
  BY <1>7, <1>8 DEF Records
<1>10. ListenersFrom
  BY <1>3, <1>4, <1>5 DEF ListenersFrom, ListenerFrom, Listener
<1> DEFINE a == AppMessage("tcp", new)
<1>11. k.to # "sock2app" /\ k.msg.type = "STATUS" /\ a.to = "sock2app"
  BY <1>2, <1>3, AckIs DEF k
<1> HIDE DEF a
<1>12. Receive("sock", UpperPipe["tcp"], <<a, k>>)
  BY <1>1 DEF a
<1>13. /\ waiting /\ NoCall /\ NoReply /\ NoRequest
       /\ \A t \in Sock : t # s => socks[t].status \notin Pending
  BY <1>3, SocketWaits DEF CallInv, Pending
<1>14. \A q \in Transport : Waits(q)' = Waits(q)
  BY <1>1 DEF Waits
<1>15. NoRequest' /\ NoPending'
  BY <1>5, <1>13, <1>14 DEF NoRequest, NoPending, Pending
<1>16. \A i \in DOMAIN <<a, k>> :
          <<a, k>>[i].to = "sock2app" \/ <<a, k>>[i].msg.type = "STATUS"
  BY <1>11
<1>17. ToldBy(<<a, k>>) = {1}
  BY <1>11, ToldByFew
<1>18. OneCall'
  BY <1>2, <1>3, <1>12, <1>13, <1>15, <1>16, <1>17, CallAnswered
<1>19. \A r \in Waits("tcp") : r.type \in {"CONNECT", "ACCEPT"} /\ Refusable(r.req) =>
          socks'[r.sock] = socks[r.sock]
  <2> SUFFICES ASSUME NEW r \in Waits("tcp"), r.type \in {"CONNECT", "ACCEPT"},
                      Refusable(r.req)
               PROVE  socks'[r.sock] = socks[r.sock]
    OBVIOUS
  <2>1. r.sock \in Sock /\ socks[r.sock].status = PendingOf[r.type]
    BY <1>2, WaitsTypes DEF CallInv, TcpInv, Refusals
  <2>2. r.sock # new
    BY <1>4, <2>1 DEF PendingOf
  <2>3. r.sock # s
    BY <1>1, <1>2, WrittenNotRefusable DEF CallInv
  <2> QED BY <1>5, <2>1, <2>2, <2>3
<1>20. Requested'
  BY <1>15, NothingRequested
<1>21. Waits("tcp")' \subseteq Waits("tcp")
  BY <1>2, <1>14
<1> QED BY <1>1, <1>2, <1>3, <1>9, <1>10, <1>12, <1>16, <1>18, <1>19, <1>20, <1>21, Served
----------------------------------------------------------------------------
(* The answer of a transport module *)

\* It answers the call that waited for it.
LEMMA StatusServed ==
    ASSUME PipesOK, SockTypeOK, CallInv, UNCHANGED <<libVars, peerVars>>,
           NEW p \in Transport, InOrder(p), InOrder("tcp"), NEW type, StatusFor(p, type),
           NEW h, h = Head(reqq[p]), NEW a, a.to = "sock2app",
           Receive("sock", UpperPipe[p], <<a>>),
           Changes(h.sock), socks'[h.sock].status \notin Pending,
           \/ type \in Answering(p)
           \/ p = "tcp" /\ socks[h.sock].status \in Pending /\ h.req = asked["tcp"]
    PROVE  CallInv'
<1>1. /\ LowerSends(p, "STATUS") /\ ports' = ports /\ asked' = asked
  BY DEF StatusFor
<1>2. /\ h \in Waits(p) /\ h.type = type /\ h.sock \in Sock
      /\ Waits(p) = Waits(p)' \cup {h} /\ \A r \in Waits(p)' : h.req < r.req
      /\ \A q \in Transport : q # p => Waits(q)' = Waits(q)
  BY OldestHeard
<1>3. /\ Waits("tcp")' \subseteq Waits("tcp")
      /\ \A q \in Transport : Waits(q)' \subseteq Waits(q)
  BY <1>2 DEF Transport
<1>4. Records' /\ ListenersFrom
  BY <1>2, RecordsChange DEF CallInv
<1>5. \A i \in DOMAIN <<a>> : <<a>>[i].to = "sock2app" \/ <<a>>[i].msg.type = "STATUS"
  OBVIOUS
<1>6. ToldBy(<<a>>) = {1}
  BY ToldByFew
<1>7. \A t \in Sock : t # h.sock => socks'[t] = socks[t]
  BY DEF Changes
<1>8. /\ waiting /\ NoCall /\ NoReply /\ NoRequest' /\ NoPending'
      /\ \A r \in Waits("tcp")' : r.type \in {"CONNECT", "ACCEPT"} => ~ Refusable(r.req)
  <2>1. CASE type \in Answering(p)
    <3>1. ~ NoRequest
      BY <1>2, <2>1 DEF NoRequest
    <3>2. AtLower
      BY <3>1 DEF CallInv, OneCall, Idle, Called, Answered, AtSocket, Lost
    <3>3. waiting /\ NoCall /\ NoReply /\ NoPending /\ OneRequest
      BY <3>2 DEF AtLower
    <3>4. ASSUME NEW q \in Transport, NEW r \in Waits(q)', r.type \in Answering(q)
          PROVE  FALSE
      <4>1. r \in Waits(q)
        BY <1>3
      <4>2. q = p /\ r = h
        BY <1>2, <2>1, <3>3, <3>4, <4>1 DEF OneRequest
      <4>3. h \in RequestRecord /\ h.req \in Nat
        BY <1>2, WaitsTypes
      <4>4. h.req < h.req
        BY <1>2, <3>4, <4>2
      <4> QED BY <4>3, <4>4
    <3>5. NoPending'
      BY <1>7, <3>3 DEF NoPending
    <3>6. \A r \in Waits("tcp") : r.type \in {"CONNECT", "ACCEPT"} => ~ Refusable(r.req)
      BY <3>3, NothingRefused DEF CallInv
    <3> QED BY <1>3, <3>3, <3>4, <3>5, <3>6 DEF NoRequest
  <2>2. CASE p = "tcp" /\ socks[h.sock].status \in Pending /\ h.req = asked["tcp"]
    <3>1. /\ waiting /\ NoCall /\ NoReply /\ NoRequest
          /\ \A t \in Sock : t # h.sock => socks[t].status \notin Pending
      BY <1>2, <2>2, SocketWaits DEF CallInv
    <3>2. NoRequest' /\ NoPending'
      BY <1>3, <1>7, <3>1 DEF NoRequest, NoPending
    <3>3. ASSUME NEW r \in Waits("tcp")', r.type \in {"CONNECT", "ACCEPT"}, Refusable(r.req)
          PROVE  FALSE
      <4>1. r \in Waits("tcp") /\ h.req < r.req
        BY <1>2, <1>3, <2>2
      <4>2. r.req = asked["tcp"] /\ r.req \in Nat
        BY <2>2, <3>3, <4>1, WaitsTypes DEF CallInv, TcpInv, Refusals
      <4> QED BY <2>2, <4>1, <4>2
    <3> QED BY <3>1, <3>2, <3>3
  <2> QED BY <2>1, <2>2
<1>9. OneCall'
  BY <1>1, <1>5, <1>6, <1>8, CallAnswered
<1>10. Requested'
  BY <1>8, NothingRequested
<1> QED BY <1>1, <1>3, <1>4, <1>5, <1>8, <1>9, <1>10, Served

LEMMA UDPStatusAnswersCall ==
    ASSUME PipesOK, SockTypeOK, InOrder("udp"), InOrder("tcp"), CallInv,
           UNCHANGED <<libVars, peerVars>>, UDPStatusAnswers
    PROVE  CallInv'
<1> SUFFICES ASSUME NEW h, h = Head(reqq["udp"]), NEW s, s = h.sock
             PROVE  CallInv'
  OBVIOUS
<1>1. PICK type \in {"FORWARD", "WRITE"} :
        /\ StatusFor("udp", type)
        /\ socks' = IF type = "FORWARD" /\ Message("udp").error # "EOK"
                      THEN CloseSocket(s)
                      ELSE SetStatus(s, IF HasPeer(s) THEN "CONNECTED" ELSE "BOUND")
        /\ Receive("sock", UpperPipe["udp"], <<AppMessage("udp", s)>>)
  BY DEF UDPStatusAnswers
<1>2. "udp" \in Transport /\ type \in Answering("udp")
  BY DEF Transport, Answering
<1>3. h \in Waits("udp") /\ h.type = type /\ s \in Sock /\ ports' = ports
  BY <1>1, <1>2, OldestHeard DEF StatusFor
<1>4. /\ socks[s].connection.protocol = "udp" /\ socks[s].connection.srcport # PORT_ANY
      /\ socks[s].status \in {"WRITE_PENDING", "UNBOUND", "CONNECTED"}
      /\ RecordOK(s) /\ socks \in [Sock -> GoodRecord]
  BY <1>2, <1>3 DEF CallInv, Requested, RequestOK, Records, SockTypeOK
<1>5. Changes(s) /\ socks'[s].status \notin Pending
  <2>1. CASE socks' = CloseSocket(s)
    BY <1>3, <1>4, <2>1, ClosedRecord DEF Pending
  <2>2. ASSUME NEW stat \in {"CONNECTED", "BOUND"}, socks' = SetStatus(s, stat)
        PROVE  Changes(s) /\ socks'[s].status \notin Pending
    <3>1. /\ socks'[s].status = stat /\ socks'[s].connection = socks[s].connection
          /\ socks'[s].toApp = socks[s].toApp /\ \A t \in Sock : t # s => socks'[t] = socks[t]
      BY <1>3, <1>4, <2>2, StatusIs
    <3>2. Owned(s) /\ (Owned(s)' <=> Owned(s))
      BY <1>3, <1>4, <3>1 DEF Owned, RecordOK
    <3>3. RecordOK(s)'
      BY <1>3, <1>4, <2>2, <3>1, <3>2 DEF RecordOK, Listener
    <3>4. PortFrom(s)
      BY <1>3, <1>4, <3>1 DEF PortFrom, Listener
    <3>5. ListenerFrom(s)
      BY <1>4, <2>2, <3>1 DEF ListenerFrom, Listener
    <3> QED BY <1>3, <2>2, <3>1, <3>3, <3>4, <3>5 DEF Changes, Pending
  <2>3. \/ socks' = CloseSocket(s)
        \/ \E stat \in {"CONNECTED", "BOUND"} : socks' = SetStatus(s, stat)
    BY <1>1
  <2> QED BY <2>1, <2>2, <2>3
<1> DEFINE a == AppMessage("udp", s)
<1>6. a.to = "sock2app" /\ Receive("sock", UpperPipe["udp"], <<a>>)
  BY <1>1 DEF AppMessage, ToApp
<1> HIDE DEF a
<1> QED BY <1>1, <1>2, <1>5, <1>6, StatusServed

\* The failure of a CONNECT or an ACCEPT is told while its socket still waits.
LEMMA RefusedWaits ==
    ASSUME PipesOK, SockTypeOK, InOrder("tcp"), CallInv,
           NEW type \in {"CONNECT", "ACCEPT"}, StatusFor("tcp", type),
           Message("tcp").error # "EOK", NEW sends,
           Receive("sock", UpperPipe["tcp"], sends),
           NEW h, h = Head(reqq["tcp"])
    PROVE  /\ socks[h.sock].status = PendingOf[type] /\ socks[h.sock].status \in Pending
           /\ h.req = asked["tcp"]
<1>1. "tcp" \in Transport /\ LowerSends("tcp", "STATUS")
      /\ UpperPipe["tcp"] \in {"app2sock", "tcp2sock", "udp2sock"}
  BY DEF StatusFor, Transport, UpperPipe
<1>2. h \in Waits("tcp") /\ h.type = type /\ h.req = Message("tcp").req
  BY <1>1, OldestHeard
<1>3. fifo'[UpperPipe["tcp"]] = Tail(fifo[UpperPipe["tcp"]])
  BY <1>1, SockReads
<1>4. Message("tcp") \in Answers("tcp")
  BY <1>1, <1>3, UpTaken
<1>5. Refusable(h.req)
  BY <1>2, <1>4 DEF Refusable
<1> QED BY <1>2, <1>5 DEF CallInv, TcpInv, Refusals, PendingOf, Pending

LEMMA TCPStatusAnswersCall ==
    ASSUME PipesOK, SockTypeOK, InOrder("tcp"), CallInv,
           UNCHANGED <<libVars, peerVars>>, TCPStatusAnswers
    PROVE  CallInv'
<1> SUFFICES ASSUME NEW h, h = Head(reqq["tcp"]), NEW s, s = h.sock
             PROVE  CallInv'
  OBVIOUS
<1>1. PICK type \in {"CONNECT", "ACCEPT", "WRITE"} :
        /\ StatusFor("tcp", type)
        /\ type # "WRITE" => Message("tcp").error # "EOK"
        /\ socks' = CASE type = "CONNECT" -> CloseSocket(s)
                       [] type = "ACCEPT"  -> SetStatus(s, "LISTENING")
                       [] type = "WRITE"   -> SetStatus(s, "CONNECTED")
        /\ Receive("sock", UpperPipe["tcp"], <<AppMessage("tcp", s)>>)
  BY DEF TCPStatusAnswers
<1>2. "tcp" \in Transport
  BY DEF Transport
<1>3. h \in Waits("tcp") /\ h.type = type /\ s \in Sock /\ ports' = ports
  BY <1>1, <1>2, OldestHeard DEF StatusFor
<1>4. RecordOK(s) /\ socks \in [Sock -> GoodRecord]
  BY <1>3 DEF CallInv, Records, SockTypeOK
<1> DEFINE a == AppMessage("tcp", s)
<1>5. a.to = "sock2app" /\ Receive("sock", UpperPipe["tcp"], <<a>>)
  BY <1>1 DEF AppMessage, ToApp
<1> HIDE DEF a
<1>6. CASE type = "WRITE"
  <2>1. socks[s].status = "WRITE_PENDING" /\ type \in Answering("tcp")
    BY <1>2, <1>3, <1>6 DEF CallInv, Requested, RequestOK, Answering
  <2>2. socks' = SetStatus(s, "CONNECTED")
    BY <1>1, <1>6
  <2>3. /\ socks'[s].status = "CONNECTED" /\ socks'[s].connection = socks[s].connection
        /\ socks'[s].toApp = socks[s].toApp /\ \A t \in Sock : t # s => socks'[t] = socks[t]
    BY <1>3, <1>4, <2>2, StatusIs
  <2>4. Owned(s)' <=> Owned(s)
    BY <1>3, <2>3 DEF Owned
  <2>5. RecordOK(s)'
    BY <1>3, <1>4, <2>1, <2>3, <2>4 DEF RecordOK, Listener
  <2>6. PortFrom(s) /\ ListenerFrom(s)
    BY <1>3, <1>4, <2>1, <2>3 DEF PortFrom, ListenerFrom, Listener
  <2>7. Changes(s) /\ socks'[s].status \notin Pending
    BY <1>3, <2>3, <2>5, <2>6 DEF Changes, Pending
  <2> QED BY <1>1, <1>2, <1>5, <2>1, <2>7, StatusServed
<1>7. CASE type \in {"CONNECT", "ACCEPT"}
  <2>1. /\ socks[s].status = PendingOf[type] /\ socks[s].status \in Pending
        /\ h.req = asked["tcp"]
    BY <1>1, <1>5, <1>7, RefusedWaits
  <2>2. Changes(s) /\ socks'[s].status \notin Pending
    <3>1. CASE type = "CONNECT"
      <4>1. socks' = CloseSocket(s)
        BY <1>1, <3>1
      <4> QED BY <1>3, <1>4, <4>1, ClosedRecord DEF Pending
    <3>2. CASE type = "ACCEPT"
      <4>1. socks' = SetStatus(s, "LISTENING") /\ socks[s].status = "ACCEPT_PENDING"
        BY <1>1, <2>1, <3>2 DEF PendingOf
      <4> QED BY <1>3, <1>4, <4>1, AcceptEnds DEF Pending
    <3> QED BY <1>7, <3>1, <3>2
  <2> QED BY <1>1, <1>2, <1>5, <2>1, <2>2, StatusServed
<1> QED BY <1>6, <1>7

\* The other answers change nothing but the queue.
LEMMA StatusIgnoredCall ==
    ASSUME PipesOK, SockTypeOK, CallInv, UNCHANGED <<libVars, peerVars, socks>>,
           NEW p \in Transport, InOrder(p), NEW type, StatusFor(p, type),
           type \notin Answering(p), Receive("sock", UpperPipe[p], <<>>)
    PROVE  CallInv'
<1>1. /\ LowerSends(p, "STATUS") /\ ports' = ports /\ asked' = asked
  BY DEF StatusFor
<1> DEFINE h == Head(reqq[p])
<1>2. /\ h.type = type /\ Waits(p) = Waits(p)' \cup {h}
      /\ \A q \in Transport : q # p => Waits(q)' = Waits(q)
  BY OldestHeard
<1> HIDE DEF h
<1>3. /\ Waits("tcp")' \subseteq Waits("tcp")
      /\ \A q \in Transport : Waits(q)' \subseteq Waits(q)
      /\ \A q \in Transport : \A r :
            r.type \in Answering(q) => (r \in Waits(q)' <=> r \in Waits(q))
  BY <1>2 DEF Transport
<1>4. 1 \in Sock
  BY SizeAssumption DEF Sock
<1>5. Records' /\ ListenersFrom
  BY <1>1, <1>4, NothingChanges, RecordsChange DEF CallInv
<1>6. \A i \in DOMAIN <<>> : <<>>[i].to # "sock2app" /\ <<>>[i].msg.type = "STATUS"
  OBVIOUS
<1>7. OneCall'
  BY <1>1, <1>3, <1>6, CallStays DEF CallInv
<1>8. Requested'
  BY <1>3, RequestedKept DEF CallInv
<1> QED BY <1>1, <1>3, <1>5, <1>6, <1>7, <1>8, Served

LEMMA SockNextCall ==
    ASSUME PipesOK, SockTypeOK, RequestsInOrder, CallInv, UNCHANGED <<libVars, peerVars>>,
           SockNext
    PROVE  CallInv'
<1>1. "udp" \in Transport /\ "tcp" \in Transport /\ InOrder("udp") /\ InOrder("tcp")
  BY DEF Transport, RequestsInOrder
<1>2. CASE SockServesApp
  BY <1>1, <1>2, SockServesAppCall
<1>3. CASE UDPStatusIgnored
  BY <1>1, <1>3, StatusIgnoredCall DEF UDPStatusIgnored, Answering
<1>4. CASE TCPStatusIgnored
  BY <1>1, <1>4, StatusIgnoredCall DEF TCPStatusIgnored, Answering
<1>5. CASE SockServesUDP
  BY <1>1, <1>3, <1>5, WriteTurnedAwayCall, WriteBufferedCall, WriteReadCall,
     UDPStatusAnswersCall DEF SockServesUDP
<1>6. CASE SockServesTCP
  BY <1>1, <1>4, <1>6, WriteTurnedAwayCall, WriteBufferedCall, WriteReadCall,
     WriteAcceptFailedCall, WriteAcceptedCall, WriteAcceptNoSockCall, WriteConnectedCall,
     TCPStatusAnswersCall DEF SockServesTCP
<1> QED BY <1>2, <1>5, <1>6 DEF SockNext
----------------------------------------------------------------------------
(* The other processes *)

LEMMA TablesSame ==
    ASSUME PipesOK, SockTypeOK, CallInv, UNCHANGED sockVars
    PROVE  /\ Records' /\ Requested'
           /\ \A p \in Transport : Waits(p)' = Waits(p)
<1>1. /\ socks' = socks /\ ports' = ports /\ reqq' = reqq
      /\ \A p \in Transport : Waits(p)' = Waits(p)
  BY DEF sockVars, Waits
<1>2. 1 \in Sock
  BY SizeAssumption DEF Sock
<1>3. Records'
  BY <1>1, <1>2, NothingChanges, RecordsChange DEF CallInv
<1>4. Requested'
  BY <1>1, RequestedKept DEF CallInv
<1> QED BY <1>1, <1>3, <1>4

\* A step that leaves the pipes of the application and what it is told alone.
LEMMA CallSame ==
    ASSUME PipesOK, SockTypeOK, CallInv, UNCHANGED <<sockVars, libVars>>,
           fifo'["app2sock"] = fifo["app2sock"], fifo'["sock2app"] = fifo["sock2app"],
           out'["sock"] = out["sock"], TcpInv'
    PROVE  CallInv'
<1>1. /\ Records' /\ Requested' /\ \A p \in Transport : Waits(p)' = Waits(p)
      /\ socks' = socks
  BY TablesSame DEF sockVars
<1>2. OneCall'
  <2>1. waiting' = waiting
    BY DEF libVars
  <2>2. NoFreeSock' <=> NoFreeSock
    BY <1>1 DEF NoFreeSock
  <2> QED BY <1>1, <2>1, <2>2, CallKept DEF CallInv
<1>3. AppCallOK'
  BY DEF CallInv, AppCallOK
<1> QED BY <1>1, <1>2, <1>3 DEF CallInv

LEMMA TcpUntouched ==
    ASSUME PipesOK, CallInv, UNCHANGED <<sockVars, peerVars>>,
           fifo'["tcp2sock"] = fifo["tcp2sock"], fifo'["sock2tcp"] = fifo["sock2tcp"],
           out'["sock"] = out["sock"]
    PROVE  TcpInv'
<1>1. UpperPipe["tcp"] = "tcp2sock" /\ LowerPipe["tcp"] = "sock2tcp"
  BY DEF UpperPipe, LowerPipe
<1>2. Down("tcp")' = Down("tcp")
  BY <1>1 DEF Down
<1> QED BY <1>1, <1>2, TcpSame DEF CallInv

LEMMA UdpProcessCall ==
    ASSUME PipesOK, SockTypeOK, CallInv, UdpProcess
    PROVE  CallInv'
<1>1. ASSUME NEW f \in {"ipmux2udp", "sock2udp"}, NEW sends, Receive("udp", f, sends)
      PROVE  /\ out'["sock"] = out["sock"]
             /\ \A g \in {"app2sock", "sock2app", "tcp2sock", "sock2tcp"} :
                   fifo'[g] = fifo[g]
  BY <1>1 DEF Receive, PipesOK, Fifo
<1>2. /\ out'["sock"] = out["sock"]
      /\ \A g \in {"app2sock", "sock2app", "tcp2sock", "sock2tcp"} : fifo'[g] = fifo[g]
  <2>1. CASE UdpNext
    <3>1. PICK f \in {"ipmux2udp", "sock2udp"} : \E sends : Receive("udp", f, sends)
      BY <2>1 DEF UdpNext, UdpForwards, UdpUnreachable, UdpIgnoresStatus, UdpWrites,
                  UdpAddsForward, UdpCloses
    <3> QED BY <1>1, <3>1
  <2>2. CASE Send("udp")
    <3> DEFINE e == Head(out["udp"])
    <3>1. /\ e.to \in {"udp2sock", "udp2ipmux"} /\ out'["sock"] = out["sock"]
          /\ \A g \in Fifo : g # e.to => fifo'[g] = fifo[g]
      BY <2>2, Sent
    <3> QED BY <3>1 DEF Fifo
  <2> QED BY <2>1, <2>2 DEF UdpProcess
<1>3. TcpInv'
  BY <1>2, TcpUntouched DEF UdpProcess
<1> QED BY <1>2, <1>3, CallSame DEF UdpProcess

LEMMA NetworkCall ==
    ASSUME PipesOK, SockTypeOK, CallInv, Network
    PROVE  CallInv'
<1>1. /\ out'["sock"] = out["sock"]
      /\ \A g \in {"app2sock", "sock2app", "tcp2sock", "sock2tcp"} : fifo'[g] = fifo[g]
  <2>1. CASE NetTakes
    BY <2>1 DEF NetTakes, PipesOK, Fifo
  <2>2. CASE NetDelivers
    <3>1. out' = out /\ \E d : fifo' = [fifo EXCEPT !["ipmux2udp"] = Append(@, d)]
      BY <2>2 DEF NetDelivers
    <3> QED BY <3>1 DEF PipesOK, Fifo
  <2> QED BY <2>1, <2>2 DEF Network
<1>2. TcpInv'
  BY <1>1, TcpUntouched DEF Network
<1> QED BY <1>1, <1>2, CallSame DEF Network

LEMMA TcpProcessCall ==
    ASSUME PipesOK, SockTypeOK, PeerTypeOK, InOrder("tcp"), CallInv, TcpProcess
    PROVE  CallInv'
<1>1. /\ out' = out
      /\ \A g \in {"app2sock", "sock2app"} : fifo'[g] = fifo[g]
  <2>1. ASSUME NEW c, NEW data, NEW err, PeerSends(c, data, err)
        PROVE  out' = out /\ \A g \in {"app2sock", "sock2app"} : fifo'[g] = fifo[g]
    BY <2>1 DEF PeerSends, PipesOK, Fifo
  <2>2. CASE PeerAnswers
    BY <2>2 DEF PeerAnswers, PipesOK, Fifo
  <2>3. CASE PeerIgnoresStatus
    BY <2>3 DEF PeerIgnoresStatus, PipesOK, Fifo
  <2> QED BY <2>1, <2>2, <2>3
          DEF TcpProcess, PeerNext, PeerFinishesOpen, PeerAccepts, PeerReceives
<1>2. TcpInv'
  BY PeerNextTcp DEF CallInv, TcpProcess
<1> QED BY <1>1, <1>2, CallSame DEF TcpProcess

\* The module writes what it is to write next.
LEMMA ToldByTail ==
    ASSUME NEW S, NEW q \in Seq(S), q # <<>>
    PROVE  /\ 1 \in ToldBy(q) <=> Head(q).to = "sock2app"
           /\ \A j \in Nat : j \in ToldBy(Tail(q)) <=> j # 0 /\ j + 1 \in ToldBy(q)
           /\ ToldBy(Tail(q)) \subseteq Nat /\ ToldBy(q) \subseteq Nat \ {0}
<1> DEFINE t == Tail(q)
<1>1. /\ Len(q) \in Nat /\ Len(q) > 0 /\ DOMAIN q = 1 .. Len(q)
      /\ DOMAIN t = 1 .. Len(q) - 1 /\ Head(q) = q[1]
      /\ \A i \in 1 .. Len(q) - 1 : t[i] = q[i + 1]
  BY HeadTailProperties, EmptySeq
<1> HIDE DEF t
<1>2. ToldBy(t) = {i \in 1 .. Len(q) - 1 : t[i].to = "sock2app"}
  BY <1>1 DEF ToldBy
<1>3. ToldBy(q) = {i \in 1 .. Len(q) : q[i].to = "sock2app"}
  BY <1>1 DEF ToldBy
<1>4. \A j \in Nat : j \in ToldBy(t) <=> j # 0 /\ j + 1 \in ToldBy(q)
  BY <1>1, <1>2, <1>3
<1>5. 1 \in ToldBy(q) <=> Head(q).to = "sock2app"
  BY <1>1, <1>3
<1>6. ToldBy(t) \subseteq Nat /\ ToldBy(q) \subseteq Nat \ {0}
  BY <1>1, <1>2, <1>3
<1> QED BY <1>4, <1>5, <1>6 DEF t

LEMMA SockSendsCall ==
    ASSUME PipesOK, SockTypeOK, CallInv, UNCHANGED <<sockVars, libVars, peerVars>>, Send("sock")
    PROVE  CallInv'
<1> DEFINE q == out["sock"]
           e == Head(q)
<1>1. /\ q # <<>> /\ e.to \in {"sock2app", "sock2udp", "sock2tcp"}
      /\ fifo'[e.to] = Append(fifo[e.to], e.msg)
      /\ \A g \in Fifo : g # e.to => fifo'[g] = fifo[g]
      /\ out'["sock"] = Tail(q) /\ q \in Seq(Sends("sock"))
  <2>1. q \in Seq(Sends("sock"))
    BY DEF PipesOK
  <2> QED BY <2>1, Sent
<1>2. fifo'["app2sock"] = fifo["app2sock"] /\ fifo'["tcp2sock"] = fifo["tcp2sock"]
  BY <1>1 DEF Fifo
<1>3. /\ Records' /\ Requested' /\ \A p \in Transport : Waits(p)' = Waits(p)
      /\ socks' = socks /\ waiting' = waiting
  BY TablesSame DEF sockVars, libVars
<1>4. AppCallOK'
  BY <1>2 DEF CallInv, AppCallOK
<1>5. TcpInv'
  <2>1. "tcp" \in Transport /\ UpperPipe["tcp"] = "tcp2sock"
    BY DEF Transport, UpperPipe
  <2>2. Down("tcp")' = Down("tcp")
    BY <2>1, SendKeepsDown
  <2> QED BY <1>2, <2>1, <2>2, TcpSame DEF CallInv
<1>6. /\ 1 \in ToldBy(q) <=> e.to = "sock2app"
      /\ \A j \in Nat : j \in ToldBy(Tail(q)) <=> j # 0 /\ j + 1 \in ToldBy(q)
      /\ ToldBy(Tail(q)) \subseteq Nat /\ ToldBy(q) \subseteq Nat \ {0}
  BY <1>1, ToldByTail
<1> HIDE DEF q, e
<1>7. /\ NoCall' <=> NoCall
      /\ NoRequest' <=> NoRequest
      /\ NoPending' <=> NoPending
      /\ OneRequest' <=> OneRequest
      /\ OnePending' <=> OnePending
      /\ NoFreeSock' <=> NoFreeSock
  BY <1>2, <1>3 DEF NoCall, NoRequest, NoPending, OneRequest, OnePending, NoFreeSock
<1>8. NoReply => NoReply'
  <2> SUFFICES ASSUME fifo["sock2app"] = <<>>, ToldBy(q) = {}
               PROVE  NoReply'
    BY DEF NoReply, q
  <2>1. e.to # "sock2app" /\ "sock2app" \in Fifo
    BY <1>6 DEF Fifo
  <2>2. ToldBy(Tail(q)) = {}
    BY <1>6
  <2> QED BY <1>1, <2>1, <2>2 DEF NoReply
<1>9. OneReply => OneReply'
  <2> SUFFICES ASSUME OneReply
               PROVE  OneReply'
    OBVIOUS
  <2>1. CASE Len(fifo["sock2app"]) = 1 /\ ToldBy(q) = {}
    <3>1. e.to # "sock2app" /\ "sock2app" \in Fifo /\ ToldBy(Tail(q)) = {}
      BY <1>6, <2>1 DEF Fifo
    <3> QED BY <1>1, <2>1, <3>1 DEF OneReply
  <2>2. ASSUME NEW i \in DOMAIN q, fifo["sock2app"] = <<>>, ToldBy(q) = {i}
        PROVE  OneReply'
    <3>1. CASE e.to = "sock2app"
      <4>1. ToldBy(q) = {1}
        BY <1>6, <2>2, <3>1
      <4>2. ToldBy(Tail(q)) = {}
        BY <1>6, <4>1
      <4>3. fifo'["sock2app"] = Append(<<>>, e.msg)
        BY <1>1, <2>2, <3>1
      <4>4. Len(fifo'["sock2app"]) = 1
        BY <4>3
      <4> QED BY <1>1, <4>2, <4>4 DEF OneReply
    <3>2. CASE e.to # "sock2app"
      <4>1. i \in Nat /\ i # 0 /\ i # 1
        BY <1>6, <2>2, <3>2
      <4>2. \A j : j \in ToldBy(Tail(q)) <=> j = i - 1
        <5>1. \A j \in Nat : j \in ToldBy(Tail(q)) <=> j # 0 /\ j + 1 = i
          BY <1>6, <2>2
        <5> QED BY <1>6, <4>1, <5>1
      <4>3. ToldBy(Tail(q)) = {i - 1}
        BY <4>2
      <4>4. fifo'["sock2app"] = <<>>
        BY <1>1, <2>2, <3>2 DEF Fifo
      <4> QED BY <1>1, <4>3, <4>4, Told
    <3> QED BY <3>1, <3>2
  <2> QED BY <2>1, <2>2 DEF OneReply, q
<1>10. OneCall'
  <2>1. Len(fifo'["app2sock"]) = Len(fifo["app2sock"])
    BY <1>2
  <2>2. OneCall
    BY DEF CallInv
  <2>3. (Idle => Idle') /\ (Called => Called') /\ (Answered => Answered')
    BY <1>3, <1>7, <1>8, <1>9, <2>1 DEF Idle, Called, Answered
  <2>4. (AtLower => AtLower') /\ (AtSocket => AtSocket') /\ (Lost => Lost')
    BY <1>3, <1>7, <1>8 DEF AtLower, AtSocket, Lost
  <2> QED BY <2>2, <2>3, <2>4 DEF OneCall
<1> QED BY <1>3, <1>4, <1>5, <1>10 DEF CallInv

LEMMA AppCall ==
    ASSUME PipesOK, SockTypeOK, CallInv, App
    PROVE  CallInv'
<1>1. ASSUME NEW g \in {"app2sock", "sock2app"}, NEW q, fifo' = [fifo EXCEPT ![g] = q],
             out' = out
      PROVE  /\ fifo'[g] = q
             /\ \A f \in {"app2sock", "sock2app"} : f # g => fifo'[f] = fifo[f]
             /\ Records' /\ Requested' /\ TcpInv'
             /\ NoRequest => NoRequest'
             /\ NoPending => NoPending'
  <2>1. /\ fifo'["tcp2sock"] = fifo["tcp2sock"] /\ fifo'["sock2tcp"] = fifo["sock2tcp"]
        /\ fifo'[g] = q
        /\ \A f \in {"app2sock", "sock2app"} : f # g => fifo'[f] = fifo[f]
    BY <1>1 DEF PipesOK, Fifo
  <2>2. TcpInv'
    BY <1>1, <2>1, TcpUntouched DEF App
  <2>3. /\ Records' /\ Requested' /\ \A p \in Transport : Waits(p)' = Waits(p)
        /\ socks' = socks
    BY TablesSame DEF App, sockVars
  <2> QED BY <2>1, <2>2, <2>3 DEF NoRequest, NoPending
<1>2. OneCall /\ AppCallOK
  BY DEF CallInv
<1>3. ASSUME NEW m, ~ waiting, waiting',
             fifo' = [fifo EXCEPT !["app2sock"] = Append(@, m)], out' = out,
             m.type \in AppCallTypes,
             m.type = "mCONNECT" => /\ m.connection.dest # IP_ADDRESS_ANY
                                    /\ m.connection.destport # PORT_ANY
      PROVE  CallInv'
  <2> DEFINE q == Append(fifo["app2sock"], m)
  <2>1. Idle
    BY <1>2, <1>3 DEF OneCall, Called, Answered, AtLower, AtSocket, Lost
  <2>2. q = <<m>> /\ fifo' = [fifo EXCEPT !["app2sock"] = q]
    BY <1>3, <2>1 DEF Idle, NoCall
  <2> HIDE DEF q
  <2>3. /\ fifo'["app2sock"] = <<m>> /\ fifo'["sock2app"] = fifo["sock2app"]
        /\ Records' /\ Requested' /\ TcpInv' /\ NoRequest' /\ NoPending'
    BY <1>1, <1>3, <2>1, <2>2 DEF Idle
  <2>4. Called'
    BY <1>3, <2>1, <2>3 DEF Idle, Called, NoReply
  <2>5. AppCallOK'
    <3>1. ToSet(<<m>>) = {m}
      BY ToSetFew
    <3> QED BY <1>3, <2>3, <3>1 DEF AppCallOK
  <2> QED BY <2>3, <2>4, <2>5 DEF CallInv, OneCall
<1>4. CASE LibReturn
  <2> DEFINE q == Tail(fifo["sock2app"])
  <2>1. /\ waiting /\ ~ waiting' /\ fifo["sock2app"] # <<>> /\ out' = out
        /\ fifo' = [fifo EXCEPT !["sock2app"] = q]
    BY <1>4 DEF LibReturn
  <2>2. Answered
    BY <1>2, <2>1 DEF OneCall, Idle, Called, AtLower, AtSocket, Lost, NoReply
  <2>3. Len(fifo["sock2app"]) = 1 /\ ToldBy(out["sock"]) = {}
    BY <2>1, <2>2 DEF Answered, OneReply
  <2>4. q = <<>>
    <3>1. fifo["sock2app"] \in Seq(MessageOf("sock2app"))
      BY DEF PipesOK, Fifo
    <3> QED BY <2>3, <3>1, TailOfOne
  <2> HIDE DEF q
  <2>5. /\ fifo'["sock2app"] = <<>> /\ fifo'["app2sock"] = fifo["app2sock"]
        /\ Records' /\ Requested' /\ TcpInv' /\ NoRequest' /\ NoPending'
    BY <1>1, <2>1, <2>2, <2>4 DEF Answered
  <2>6. Idle'
    BY <2>1, <2>2, <2>3, <2>5 DEF Answered, Idle, NoCall, NoReply
  <2>7. AppCallOK'
    BY <1>2, <2>5 DEF AppCallOK
  <2> QED BY <2>5, <2>6, <2>7 DEF CallInv, OneCall
<1>5. CASE LibCall
  <2>1. ASSUME NEW type, NEW fd, NEW c, NEW data, Call(type, fd, c, data),
               type = "mCONNECT" => c.dest # IP_ADDRESS_ANY /\ c.destport # PORT_ANY
        PROVE  CallInv'
    <3> DEFINE m == [type |-> type, connection |-> c, sockfd |-> fd,
                     data |-> data, bytes |-> 0, error |-> "EOK"]
    <3>1. /\ ~ waiting /\ waiting' /\ out' = out /\ m.type \in AppCallTypes
          /\ fifo' = [fifo EXCEPT !["app2sock"] = Append(@, m)]
          /\ m.type = "mCONNECT" => /\ m.connection.dest # IP_ADDRESS_ANY
                                    /\ m.connection.destport # PORT_ANY
      BY <2>1 DEF Call
    <3> HIDE DEF m
    <3> QED BY <1>3, <3>1
  <2>2. CASE minet_connect
    <3>1. PICK fd \in Sock, ip \in Remotes, port \in RemotePorts :
            Call("mCONNECT", fd, [NoConnection EXCEPT !.dest = ip, !.destport = port], 0)
      BY <2>2 DEF minet_connect
    <3> DEFINE c == [NoConnection EXCEPT !.dest = ip, !.destport = port]
    <3>2. c.dest = ip /\ c.destport = port
      BY DEF NoConnection
    <3>3. ip # IP_ADDRESS_ANY /\ port # PORT_ANY
      BY AddressAssumption, LibAssumption
    <3> HIDE DEF c
    <3>4. Call("mCONNECT", fd, c, 0)
      BY <3>1 DEF c
    <3> QED BY <2>1, <3>2, <3>3, <3>4
  <2>3. CASE minet_socket
    BY <2>1, <2>3 DEF minet_socket
  <2>4. CASE minet_bind
    BY <2>1, <2>4 DEF minet_bind
  <2>5. CASE minet_write \/ minet_read \/ minet_listen
    BY <2>1, <2>5 DEF minet_write, minet_read, minet_listen
  <2>6. CASE minet_accept \/ minet_close \/ minet_other
    BY <2>1, <2>6 DEF minet_accept, minet_close, minet_other
  <2> QED BY <1>5, <2>2, <2>3, <2>4, <2>5, <2>6 DEF LibCall
<1> QED BY <1>4, <1>5 DEF App

----------------------------------------------------------------------------
(* The invariant *)

LEMMA InitCalls == Init => CallInv
<1> SUFFICES ASSUME Init PROVE CallInv
  OBVIOUS
<1>1. /\ \A f \in Fifo : fifo[f] = <<>>
      /\ out["sock"] = <<>> /\ socks = [s \in Sock |-> FreeRecord]
      /\ \A p \in Transport : reqq[p] = <<>>
      /\ ~ waiting /\ opening = {} /\ listening = {} /\ established = {}
  BY DEF Init, SockInit, SockStatusInit, LibInit, PeerInit
<1>2. "tcp" \in Transport /\ \A p \in Transport : LowerPipe[p] \in Fifo /\ UpperPipe[p] \in Fifo
  BY DEF Transport, LowerPipe, UpperPipe, Fifo
<1>3. \A p \in Transport : Down(p) = {} /\ Reports(p) = {} /\ Answers(p) = {} /\ Waits(p) = {}
  BY <1>1, <1>2, ToSetEmpty, SentToEmpty DEF Down, Reports, Answers, Waits
<1>4. /\ fifo["app2sock"] = <<>> /\ fifo["sock2app"] = <<>>
      /\ \A s \in Sock : socks[s] = FreeRecord
  BY <1>1 DEF Fifo
<1>5. Idle
  <2>1. NoRequest /\ NoPending /\ NoCall
    BY <1>3, <1>4 DEF NoRequest, NoPending, NoCall, Pending, FreeRecord
  <2>2. NoReply
    BY <1>1, <1>4, ToldByFew DEF NoReply
  <2> QED BY <1>1, <2>1, <2>2 DEF Idle
<1>6. AppCallOK
  BY <1>4, ToSetEmpty DEF AppCallOK
<1>7. Records
  <2> SUFFICES ASSUME NEW s \in Sock
               PROVE  RecordOK(s) /\ PortAlone(s)
    BY DEF Records
  <2>1. socks[s] = FreeRecord
    BY <1>4
  <2>2. socks[s].status = "FREE" /\ socks[s].connection.srcport = PORT_ANY
    BY <2>1 DEF FreeRecord, NoConnection
  <2>3. RecordOK(s)
    BY <2>1, <2>2 DEF RecordOK, Listener
  <2> QED BY <2>2, <2>3 DEF PortAlone, Owned
<1>8. Requested
  BY <1>3 DEF Requested
<1>9. TcpInv
  <2>1. \A port : ~ Touched(port)
    BY <1>1, <1>2, <1>3 DEF Touched
  <2>2. Listeners
    BY <1>2, <1>3, <1>4, <2>1 DEF Listeners, Listener, FreeRecord
  <2>3. Refusals /\ Linked /\ ClosedLast
    BY <1>2, <1>3 DEF Refusals, Linked, ClosedLast
  <2>4. TcpConnections /\ KnownPorts
    BY <1>1, <1>2, <1>3, <2>1 DEF TcpConnections, KnownPorts
  <2> QED BY <2>2, <2>3, <2>4 DEF TcpInv
<1> QED BY <1>5, <1>6, <1>7, <1>8, <1>9 DEF CallInv, OneCall

LEMMA NextCalls == TypeOK /\ RequestsInOrder /\ CallInv /\ [Next]_vars => CallInv'
<1> SUFFICES ASSUME TypeOK, RequestsInOrder, CallInv, [Next]_vars
             PROVE  CallInv'
  OBVIOUS
<1>1. PipesOK /\ SockTypeOK /\ PeerTypeOK /\ InOrder("tcp")
  BY DEF TypeOK, RequestsInOrder, Transport
<1>2. CASE App
  BY <1>1, <1>2, AppCall
<1>3. CASE SockProcess
  BY <1>1, <1>3, SockNextCall, SockSendsCall DEF SockProcess
<1>4. CASE UdpProcess
  BY <1>1, <1>4, UdpProcessCall
<1>5. CASE TcpProcess
  BY <1>1, <1>5, TcpProcessCall
<1>6. CASE Network
  BY <1>1, <1>6, NetworkCall
<1>7. CASE UNCHANGED vars
  <2>1. TcpInv'
    BY <1>1, <1>7, TcpUntouched DEF vars, sockVars, peerVars
  <2> QED BY <1>1, <1>7, <2>1, CallSame DEF vars, sockVars, libVars
<1> QED BY <1>2, <1>3, <1>4, <1>5, <1>6, <1>7 DEF Next

\* In every state the application's call is in one place and the records, the
\* requests and the TCP module agree on the ports.
THEOREM CallsCorrect == Spec => []CallInv
<1>1. Init /\ [][Next]_vars => []TypeOK
  BY TypeCorrect DEF Spec
<1>2. Init /\ [][Next]_vars => []RequestsInOrder
  BY RequestsCorrect DEF Spec
<1> QED BY <1>1, <1>2, InitCalls, NextCalls, PTL DEF Spec
----------------------------------------------------------------------------
(* How many answers are owed *)

\* The queued requests whose STATUS answers a call, and the sockets that wait.
AskedBy(p) == {i \in DOMAIN reqq[p] : reqq[p][i].type \in Answering(p)}
PendingSocks == {s \in Sock : socks[s].status \in Pending}

LEMMA OwedParts ==
    Owed = Len(fifo["app2sock"]) + Len(fifo["sock2app"])
           + Cardinality(ToldBy(out["sock"]))
           + Cardinality(AskedBy("udp")) + Cardinality(AskedBy("tcp"))
           + Cardinality(PendingSocks)
  BY DEF Owed, Count, ToldBy, AskedBy, PendingSocks, Pending

LEMMA OneOrNone ==
    /\ Cardinality({}) = 0
    /\ \A x : Cardinality({x}) = 1
  BY FS_EmptySet, FS_Singleton

LEMMA NoneOwed ==
    /\ NoCall => Len(fifo["app2sock"]) = 0
    /\ NoReply => Len(fifo["sock2app"]) = 0 /\ Cardinality(ToldBy(out["sock"])) = 0
    /\ NoRequest => Cardinality(AskedBy("udp")) = 0 /\ Cardinality(AskedBy("tcp")) = 0
    /\ NoPending => Cardinality(PendingSocks) = 0
<1>1. NoRequest => AskedBy("udp") = {} /\ AskedBy("tcp") = {}
  <2> SUFFICES ASSUME NoRequest, NEW p \in Transport
               PROVE  AskedBy(p) = {}
    BY DEF Transport
  <2>1. \A i \in DOMAIN reqq[p] : reqq[p][i] \in Waits(p)
    BY InToSet DEF Waits
  <2> QED BY <2>1 DEF AskedBy, NoRequest
<1>2. NoPending => PendingSocks = {}
  BY DEF NoPending, PendingSocks
<1> QED BY <1>1, <1>2, OneOrNone DEF NoCall, NoReply

\* One request is queued for the call.
LEMMA OneAskedFor ==
    ASSUME SockTypeOK, RequestsInOrder, OneRequest
    PROVE  \/ Cardinality(AskedBy("udp")) = 1 /\ Cardinality(AskedBy("tcp")) = 0
           \/ Cardinality(AskedBy("udp")) = 0 /\ Cardinality(AskedBy("tcp")) = 1
<1>1. PICK p \in Transport : \E r \in Waits(p) :
        /\ r.type \in Answering(p)
        /\ \A q \in Transport : \A o \in Waits(q) : o.type \in Answering(q) => q = p /\ o = r
  BY DEF OneRequest
<1>2. PICK r \in Waits(p) :
        /\ r.type \in Answering(p)
        /\ \A q \in Transport : \A o \in Waits(q) : o.type \in Answering(q) => q = p /\ o = r
  BY <1>1
<1>3. \A q \in Transport : \A i \in DOMAIN reqq[q] : reqq[q][i] \in Waits(q)
  BY InToSet DEF Waits
<1>4. \A q \in Transport : q # p => AskedBy(q) = {}
  BY <1>2, <1>3 DEF AskedBy
<1>5. PICK i \in DOMAIN reqq[p] : reqq[p][i] = r
  BY InToSet DEF Waits
<1>6. \A j \in AskedBy(p) : j = i
  <2> TAKE j \in AskedBy(p)
  <2> DEFINE oldest == asked[p] - Len(reqq[p])
  <2>1. /\ oldest \in Nat /\ Len(reqq[p]) \in Nat /\ DOMAIN reqq[p] = 1 .. Len(reqq[p])
        /\ \A k \in DOMAIN reqq[p] : reqq[p][k].req = oldest + k
    BY OrderParts DEF RequestsInOrder
  <2>2. j \in DOMAIN reqq[p] /\ reqq[p][j] = r
    BY <1>2, <1>3 DEF AskedBy
  <2> HIDE DEF oldest
  <2>3. oldest + j = oldest + i
    BY <1>5, <2>1, <2>2
  <2> QED BY <2>1, <2>2, <2>3
<1>7. AskedBy(p) = {i}
  BY <1>2, <1>5, <1>6 DEF AskedBy
<1> QED BY <1>4, <1>7, OneOrNone DEF Transport

LEMMA OwedIs ==
    ASSUME SockTypeOK, RequestsInOrder, OneCall
    PROVE  /\ ~ waiting => Owed = 0
           /\ Owed = 0 \/ Owed = 1
           /\ Lost \/ (waiting => Owed = 1)
<1>1. Owed = Len(fifo["app2sock"]) + Len(fifo["sock2app"])
             + Cardinality(ToldBy(out["sock"]))
             + Cardinality(AskedBy("udp")) + Cardinality(AskedBy("tcp"))
             + Cardinality(PendingSocks)
  BY OwedParts
<1> DEFINE asking == Len(fifo["app2sock"])
           replies == Len(fifo["sock2app"])
           told == Cardinality(ToldBy(out["sock"]))
           udp == Cardinality(AskedBy("udp"))
           tcp == Cardinality(AskedBy("tcp"))
           socket == Cardinality(PendingSocks)
<1>2. Owed = asking + replies + told + udp + tcp + socket
  BY <1>1
<1>3. /\ NoCall => asking = 0
      /\ NoReply => replies = 0 /\ told = 0
      /\ NoRequest => udp = 0 /\ tcp = 0
      /\ NoPending => socket = 0
  BY NoneOwed
<1>4. OneReply => (replies = 1 /\ told = 0) \/ (replies = 0 /\ told = 1)
  BY OneOrNone DEF OneReply
<1>5. OneRequest => (udp = 1 /\ tcp = 0) \/ (udp = 0 /\ tcp = 1)
  BY OneAskedFor
<1>6. OnePending => socket = 1
  <2>1. OnePending => \E s : PendingSocks = {s}
    BY DEF OnePending, PendingSocks
  <2> QED BY <2>1, OneOrNone
<1>7. Called => asking = 1
  BY DEF Called
<1> HIDE DEF asking, replies, told, udp, tcp, socket
<1>8. (Idle => Owed = 0 /\ ~ waiting) /\ (Lost => Owed = 0 /\ waiting)
  BY <1>2, <1>3 DEF Idle, Lost
<1>9. (Called => Owed = 1 /\ waiting)
  BY <1>2, <1>3, <1>7 DEF Called
<1>10. (Answered => Owed = 1 /\ waiting)
  BY <1>2, <1>3, <1>4 DEF Answered
<1>11. (AtLower => Owed = 1 /\ waiting)
  BY <1>2, <1>3, <1>5 DEF AtLower
<1>12. (AtSocket => Owed = 1 /\ waiting)
  BY <1>2, <1>3, <1>6 DEF AtSocket
<1> QED BY <1>8, <1>9, <1>10, <1>11, <1>12 DEF OneCall

----------------------------------------------------------------------------
(* The properties *)

LEMMA CallsMeanAnswers ==
    TypeOK /\ RequestsInOrder /\ CallInv => NoStrayAnswer /\ CallLostOnlyWhenFull
<1> SUFFICES ASSUME TypeOK, RequestsInOrder, CallInv
             PROVE  NoStrayAnswer /\ CallLostOnlyWhenFull
  OBVIOUS
<1>1. /\ ~ waiting => Owed = 0
      /\ Owed = 0 \/ Owed = 1
      /\ Lost \/ (waiting => Owed = 1)
  BY OwedIs DEF TypeOK, CallInv
<1>2. Lost => NoFreeSock
  BY DEF Lost
<1> HIDE DEF Owed
<1> QED BY <1>1, <1>2 DEF NoStrayAnswer, CallLostOnlyWhenFull

\* No call is answered twice and no answer reaches an application that does not wait
\* (minet_socket.cc:989-1170: the library takes what comes for its call's answer).
THEOREM NoStrayAnswerCorrect == Spec => []NoStrayAnswer
  BY TypeCorrect, RequestsCorrect, CallsCorrect, CallsMeanAnswers, PTL

\* A call can be lost only while no record of the socket table is free
\* (sock_module.cc:127-152).
THEOREM CallLostOnlyWhenFullCorrect == Spec => []CallLostOnlyWhenFull
  BY TypeCorrect, RequestsCorrect, CallsCorrect, CallsMeanAnswers, PTL

LEMMA CallsMeanNoneLost ==
    ASSUME "mACCEPT" \notin AppCallTypes
    PROVE  TypeOK /\ RequestsInOrder /\ CallInv => NoLostCall
<1> SUFFICES ASSUME TypeOK, RequestsInOrder, CallInv
             PROVE  NoLostCall
  OBVIOUS
<1>1. waiting => Owed = 1
  BY OwedIs DEF TypeOK, CallInv, Lost
<1> HIDE DEF Owed
<1> QED BY <1>1 DEF NoLostCall

\* The call of an application that accepts no connections is never lost: something
\* stands for it until it is answered.
THEOREM NoLostCallCorrect ==
    ASSUME "mACCEPT" \notin AppCallTypes
    PROVE  Spec => []NoLostCall
  BY TypeCorrect, RequestsCorrect, CallsCorrect, CallsMeanNoneLost, PTL

\* A socket that shares its port is an accepted connection or listens.
LEMMA SharesOnlyAccepted ==
    ASSUME Records, NEW s \in Sock, NEW t \in Sock, s # t,
           socks[s].connection.srcport # PORT_ANY,
           socks[s].connection.srcport = socks[t].connection.srcport
    PROVE  IF Owned(s) THEN Listens(s) ELSE Accepted(s)
<1>1. RecordOK(s) /\ PortAlone(s)
  BY DEF Records
<1>2. CASE Owned(s)
  BY <1>1, <1>2 DEF PortAlone, Listener, Listens, Owned
<1>3. CASE ~ Owned(s)
  BY <1>1, <1>3 DEF RecordOK, Accepted, Owned
<1> QED BY <1>2, <1>3

LEMMA RecordsMeanPorts == TypeOK /\ CallInv => PortsNotShared
<1> SUFFICES ASSUME Records, NEW s \in Sock, NEW t \in Sock, s # t,
                    socks[s].connection.srcport # PORT_ANY,
                    socks[s].connection.srcport = socks[t].connection.srcport
             PROVE  /\ Accepted(s) \/ Accepted(t)
                    /\ Accepted(s) \/ Listens(s)
                    /\ Accepted(t) \/ Listens(t)
  BY DEF PortsNotShared, CallInv
<1>1. /\ IF Owned(s) THEN Listens(s) ELSE Accepted(s)
      /\ IF Owned(t) THEN Listens(t) ELSE Accepted(t)
  BY SharesOnlyAccepted
<1>2. ~ Owned(s) \/ ~ Owned(t)
  BY DEF Owned
<1> QED BY <1>1, <1>2

\* Of two sockets with one port, one is an accepted connection, and the other is its
\* listener or another one: no bind or connect is given a port that is in use
\* (sock_mod_structs.cc, PortStatus; sock_module.cc, ResolveSrcPort).
THEOREM PortsNotSharedCorrect == Spec => []PortsNotShared
  BY TypeCorrect, CallsCorrect, RecordsMeanPorts, PTL
----------------------------------------------------------------------------
(* What is acknowledged *)

\* Not an answer to a WRITE that reports data as taken.
NotAck(e) == e.to = "sock2app" \/ e.msg.type # "STATUS" \/ e.msg.error # "EOK"

LEMMA NothingAcked ==
    ASSUME \/ out'["sock"] = <<>>
           \/ \E a : out'["sock"] = <<a>> /\ NotAck(a)
           \/ \E a, b : out'["sock"] = <<a, b>> /\ NotAck(b)
    PROVE  AckTrue
<1>1. \A p \in Transport : LowerPipe[p] # "sock2app"
  BY DEF Transport, LowerPipe
<1>2. CASE out'["sock"] = <<>>
  BY <1>2 DEF AckTrue
<1>3. ASSUME NEW a, out'["sock"] = <<a>>, NotAck(a)
      PROVE  AckTrue
  <2>1. Len(out'["sock"]) = 1 /\ out'["sock"][1] = a
    BY <1>3
  <2> QED BY <1>1, <1>3, <2>1 DEF AckTrue, NotAck
<1>4. ASSUME NEW a, NEW b, out'["sock"] = <<a, b>>, NotAck(b)
      PROVE  AckTrue
  <2>1. Len(out'["sock"]) = 2 /\ out'["sock"][2] = b
    BY <1>4
  <2> QED BY <1>1, <1>4, <2>1 DEF AckTrue, NotAck
<1> QED BY <1>2, <1>3, <1>4

\* The bytes of an answer are in one buffer, or the application was told.
LEMMA AckedTrue ==
    ASSUME NEW k, NEW s \in Sock,
           \A t \in Sock : t # s => socks'[t].bin = socks[t].bin,
           \/ /\ out'["sock"] = <<k>>
              /\ socks[s].bin + k.msg.bytes = socks'[s].bin + 0
           \/ \E a : /\ out'["sock"] = <<a, k>>
                     /\ socks[s].bin + k.msg.bytes = socks'[s].bin + a.msg.data
    PROVE  AckTrue
<1>1. CASE /\ out'["sock"] = <<k>>
           /\ socks[s].bin + k.msg.bytes = socks'[s].bin + 0
  <2>1. Len(out'["sock"]) = 1 /\ out'["sock"][1] = k
    BY <1>1
  <2> QED BY <1>1, <2>1 DEF AckTrue
<1>2. ASSUME NEW a, out'["sock"] = <<a, k>>,
             socks[s].bin + k.msg.bytes = socks'[s].bin + a.msg.data
      PROVE  AckTrue
  <2>1. Len(out'["sock"]) = 2 /\ out'["sock"][2] = k /\ out'["sock"][1] = a
    BY <1>2
  <2> QED BY <1>2, <2>1 DEF AckTrue
<1> QED BY <1>1, <1>2

\* The answer to a call is no answer to a WRITE.
LEMMA AppAcksNothing ==
    ASSUME PipesOK, SockServesApp
    PROVE  AckTrue
<1>1. ASSUME NEW f \in {"app2sock"}, NEW sends, Receive("sock", f, sends)
      PROVE  out'["sock"] = sends
  BY <1>1 DEF Receive, PipesOK
<1>2. /\ \A m : NotAck(ToApp(m))
      /\ \A fd, err : NotAck(Response(fd, err))
      /\ \A p, type, c, data : type # "STATUS" => NotAck(Request(p, type, c, data))
  BY DEF NotAck, ToApp, Response, Request, ToLower
<1>3. ASSUME NEW a, NotAck(a), Receive("sock", "app2sock", <<a>>)
      PROVE  AckTrue
  BY <1>1, <1>3, NothingAcked
<1>4. ASSUME NEW err, Reject(err)
      PROVE  AckTrue
  BY <1>2, <1>3, <1>4 DEF Reject
<1>5. CASE SockSocket \/ SockListen \/ SockOther
  BY <1>2, <1>3, <1>4, <1>5 DEF SockSocket, SockListen, SockOther
<1>6. CASE SockBind
  BY <1>2, <1>3, <1>4, <1>6 DEF SockBind
<1>7. CASE SockAccept \/ SockWrite
  BY <1>2, <1>3, <1>4, <1>7 DEF SockAccept, SockWrite
<1>8. CASE SockConnect
  <2>1. ASSUME NEW p, NEW c, NEW proto,
               Receive("sock", "app2sock",
                 <<Request(proto, IF proto = "udp" THEN "FORWARD" ELSE "CONNECT", c, 0)>>)
        PROVE  AckTrue
    BY <1>2, <1>3, <2>1
  <2> QED BY <1>4, <1>8, <2>1 DEF SockConnect
<1>9. CASE SockRead
  <2>1. Receive("sock", "app2sock", <<>>) => AckTrue
    BY <1>1, NothingAcked
  <2> QED BY <1>2, <1>3, <1>9, <2>1 DEF SockRead
<1>10. CASE SockClose
  <2>1. ASSUME NEW a, NEW fd, NEW err,
               Receive("sock", "app2sock", <<a, Response(fd, err)>>)
        PROVE  AckTrue
    BY <1>1, <1>2, <2>1, NothingAcked
  <2> QED BY <1>4, <1>10, <2>1 DEF SockClose
<1> QED BY <1>5, <1>6, <1>7, <1>8, <1>9, <1>10 DEF SockServesApp

LEMMA AckFields ==
    ASSUME PipesOK, NEW p \in Transport, LowerSends(p, "WRITE"),
           NEW data, NEW bytes, NEW err, NEW fd
    PROVE  /\ Ack(p, data, bytes, err).msg.bytes = bytes
           /\ Ack(p, data, bytes, err).msg.error = err
           /\ AppMessage(p, fd).msg.data = Message(p).data
           /\ Message(p).data \in Nat
<1>1. Message(p) \in SockRequestResponse
  BY MessageType
<1> QED BY <1>1 DEF AppMessage, ToApp, Ack, ToLower, SockRequestResponse

\* The input buffers after a handler sends.
LEMMA SockSent ==
    ASSUME PipesOK, NEW p \in Transport, NEW sends, Receive("sock", UpperPipe[p], sends)
    PROVE  out'["sock"] = sends
  BY DEF Receive, PipesOK

LEMMA WriteBufferedAcks ==
    ASSUME PipesOK, SockTypeOK, CallInv, NEW p \in Transport, WriteBuffered(p)
    PROVE  AckTrue
<1>1. PICK s \in Sock :
        /\ WriteFor(p, s, "CONNECTED")
        /\ socks' = [socks EXCEPT ![s] = [@ EXCEPT !.bin = socks[s].bin + Taken(p, s)]]
        /\ Receive("sock", UpperPipe[p],
             <<Ack(p, 0, Taken(p, s), IF Taken(p, s) > 0 THEN "EOK" ELSE "EBUF_SPACE")>>)
  BY DEF WriteBuffered
<1>2. LowerSends(p, "WRITE") /\ socks[s] \in GoodRecord /\ socks \in [Sock -> GoodRecord]
  BY <1>1, WriteForParts
<1> DEFINE k == Ack(p, 0, Taken(p, s), IF Taken(p, s) > 0 THEN "EOK" ELSE "EBUF_SPACE")
<1>3. k.msg.bytes = Taken(p, s) /\ Message(p).data \in Nat
  BY <1>2, AckFields
<1>4. out'["sock"] = <<k>>
  BY <1>1, SockSent
<1> HIDE DEF k
<1>5. /\ socks'[s].bin = socks[s].bin + Taken(p, s)
      /\ \A t \in Sock : t # s => socks'[t].bin = socks[t].bin
  BY <1>1, <1>2 DEF GoodRecord, SockRecord
<1>6. socks[s].bin \in Nat /\ Taken(p, s) \in Int
  BY <1>2, <1>3, BinAssumption DEF Taken, Smaller, GoodRecord, SockRecord
<1>7. socks[s].bin + k.msg.bytes = socks'[s].bin + 0
  BY <1>3, <1>5, <1>6
<1> QED BY <1>4, <1>5, <1>7, AckedTrue

\* The application is told, and the buffers stay as they are.
LEMMA ToldAcks ==
    ASSUME PipesOK, NEW p \in Transport, LowerSends(p, "WRITE"), NEW bytes, NEW err,
           NEW data, NEW fd,
           Receive("sock", UpperPipe[p], <<AppMessage(p, fd), Ack(p, data, bytes, err)>>),
           bytes = Message(p).data, \A t \in Sock : socks'[t].bin = socks[t].bin
    PROVE  AckTrue
<1> DEFINE a == AppMessage(p, fd)
           k == Ack(p, data, bytes, err)
<1>1. a.msg.data = k.msg.bytes
  BY AckFields
<1>2. out'["sock"] = <<a, k>>
  BY SockSent
<1> HIDE DEF a, k
<1>3. 1 \in Sock
  BY SizeAssumption DEF Sock
<1>4. \E b : out'["sock"] = <<b, k>> /\ socks[1].bin + k.msg.bytes = socks'[1].bin + b.msg.data
  BY <1>1, <1>2, <1>3
<1> QED BY <1>3, <1>4, AckedTrue

LEMMA WriteReadAcks ==
    ASSUME PipesOK, SockTypeOK, CallInv, NEW p \in Transport, WriteRead(p)
    PROVE  AckTrue
<1>1. PICK s \in Sock :
        /\ WriteFor(p, s, "READ_PENDING")
        /\ socks' = SetStatus(s, "CONNECTED")
        /\ Receive("sock", UpperPipe[p],
             <<AppMessage(p, s), Ack(p, 0, Message(p).data, "EOK")>>)
  BY DEF WriteRead
<1>2. LowerSends(p, "WRITE") /\ socks \in [Sock -> GoodRecord]
  BY <1>1, WriteForParts
<1>3. \A t \in Sock : socks'[t].bin = socks[t].bin
  BY <1>1, <1>2, StatusIs
<1> QED BY <1>1, <1>2, <1>3, ToldAcks

LEMMA WriteAcceptAcks ==
    ASSUME PipesOK, SockTypeOK, CallInv,
           WriteAcceptFailed \/ WriteAccepted \/ WriteAcceptNoSock \/ WriteConnected
    PROVE  AckTrue
<1>1. "tcp" \in Transport
  BY DEF Transport
\* The TCP module says how many bytes it reports.
<1>2. ASSUME NEW s \in Sock, NEW stat, WriteFor("tcp", s, stat)
      PROVE  /\ LowerSends("tcp", "WRITE") /\ Message("tcp").bytes = Message("tcp").data
             /\ RecordOK(s) /\ socks[s].status = stat /\ socks \in [Sock -> GoodRecord]
             /\ socks[s] \in GoodRecord
  <2>1. LowerSends("tcp", "WRITE")
    BY <1>2 DEF WriteFor
  <2>2. /\ fifo[UpperPipe["tcp"]] \in Seq(SockRequestResponse)
        /\ fifo[UpperPipe["tcp"]] # <<>> /\ Message("tcp").type = "WRITE"
        /\ Message("tcp") = Head(fifo[UpperPipe["tcp"]])
    BY <1>1, <2>1, StreamTypes, MessageType DEF Message
  <2>3. Message("tcp") \in ToSet(fifo[UpperPipe["tcp"]])
    BY <2>2, ToSetTail
  <2>4. Message("tcp") \in Reports("tcp")
    BY <2>2, <2>3 DEF Reports
  <2> QED BY <1>1, <1>2, <2>1, <2>4, WriteForParts DEF CallInv, TcpInv, TcpConnections
<1>3. CASE WriteAcceptFailed
  <2>1. PICK s \in Sock :
          /\ WriteFor("tcp", s, "ACCEPT_PENDING") /\ socks' = SetStatus(s, "LISTENING")
          /\ Receive("sock", UpperPipe["tcp"],
               <<AppMessage("tcp", s),
                 Ack("tcp", Message("tcp").data, Message("tcp").bytes, "EOK")>>)
    BY <1>3 DEF WriteAcceptFailed
  <2>2. \A t \in Sock : socks'[t].bin = socks[t].bin
    BY <1>2, <2>1, StatusIs
  <2> QED BY <1>1, <1>2, <2>1, <2>2, ToldAcks
<1>4. CASE WriteAccepted
  <2>1. PICK s \in Sock, new \in Sock :
          /\ WriteFor("tcp", s, "ACCEPT_PENDING")
          /\ socks' = [SetStatus(s, "LISTENING") EXCEPT ![new] =
                         [@ EXCEPT !.status = "CONNECTED", !.toApp = TRUE,
                                   !.connection = Message("tcp").connection]]
          /\ Receive("sock", UpperPipe["tcp"],
               <<AppMessage("tcp", new),
                 Ack("tcp", Message("tcp").data, Message("tcp").bytes, "EOK")>>)
    BY <1>4 DEF WriteAccepted
  <2>2. \A t \in Sock : socks'[t].bin = socks[t].bin
    <3> TAKE t \in Sock
    <3> DEFINE other == SetStatus(s, "LISTENING")
    <3>1. other \in [Sock -> SockRecord] /\ \A u \in Sock : other[u].bin = socks[u].bin
      BY <1>2, <2>1 DEF SetStatus, GoodRecord, SockRecord, Status
    <3> HIDE DEF other
    <3>2. socks' = [other EXCEPT ![new] =
                      [@ EXCEPT !.status = "CONNECTED", !.toApp = TRUE,
                                !.connection = Message("tcp").connection]]
      BY <2>1 DEF other
    <3> QED BY <3>1, <3>2 DEF SockRecord
  <2> QED BY <1>1, <1>2, <2>1, <2>2, ToldAcks
<1>5. CASE WriteAcceptNoSock
  <2> DEFINE k == Ack("tcp", Message("tcp").data, Message("tcp").bytes, "ERESOURCE_UNAVAIL")
  <2>1. PICK s \in Sock :
          WriteFor("tcp", s, "ACCEPT_PENDING") /\ Receive("sock", UpperPipe["tcp"], <<k>>)
    BY <1>5 DEF WriteAcceptNoSock
  <2>2. k.msg.error = "ERESOURCE_UNAVAIL"
    BY <1>1, <1>2, <2>1, AckFields
  <2>3. out'["sock"] = <<k>>
    BY <1>1, <2>1, SockSent
  <2> HIDE DEF k
  <2> QED BY <2>2, <2>3, NothingAcked DEF NotAck
\* A socket that waits for its connection has nothing in its buffer.
<1>6. CASE WriteConnected
  <2>1. PICK s \in Sock :
          /\ WriteFor("tcp", s, "CONNECT_PENDING")
          /\ socks' = IF Message("tcp").error # "EOK"
                        THEN CloseSocket(s)
                        ELSE [socks EXCEPT ![s] =
                                [@ EXCEPT !.status = "CONNECTED",
                                          !.connection = Message("tcp").connection]]
          /\ Receive("sock", UpperPipe["tcp"],
               <<AppMessage("tcp", s),
                 Ack("tcp", Message("tcp").data, Message("tcp").bytes, "EOK")>>)
    BY <1>6 DEF WriteConnected
  <2>2. socks[s].bin = 0
    BY <1>2, <2>1 DEF RecordOK
  <2>3. \A t \in Sock : socks'[t].bin = socks[t].bin
    BY <1>2, <2>1, <2>2 DEF CloseSocket, FreeRecord, GoodRecord, SockRecord
  <2> QED BY <1>1, <1>2, <2>1, <2>3, ToldAcks
<1> QED BY <1>3, <1>4, <1>5, <1>6

LEMMA SockAcks ==
    ASSUME PipesOK, SockTypeOK, CallInv, SockNext
    PROVE  AckTrue
<1>1. ASSUME NEW p \in Transport, WriteNoMatch(p) \/ WriteRefused(p)
      PROVE  AckTrue
  <2>1. ASSUME NEW data, NEW bytes, NEW err, err # "EOK", LowerSends(p, "WRITE"),
               Receive("sock", UpperPipe[p], <<Ack(p, data, bytes, err)>>)
        PROVE  AckTrue
    <3> DEFINE k == Ack(p, data, bytes, err)
    <3>1. k.msg.error = err
      BY <2>1, AckFields
    <3>2. out'["sock"] = <<k>>
      BY <2>1, SockSent
    <3> HIDE DEF k
    <3> QED BY <2>1, <3>1, <3>2, NothingAcked DEF NotAck
  <2> QED BY <1>1, <2>1 DEF WriteNoMatch, WriteRefused
<1>2. ASSUME NEW p \in Transport, NEW s,
             Receive("sock", UpperPipe[p], <<>>)
             \/ Receive("sock", UpperPipe[p], <<AppMessage(p, s)>>)
      PROVE  AckTrue
  <2>1. NotAck(AppMessage(p, s))
    BY DEF NotAck, AppMessage, ToApp
  <2> QED BY <1>2, <2>1, SockSent, NothingAcked
<1>3. "udp" \in Transport /\ "tcp" \in Transport
  BY DEF Transport
<1>4. CASE UDPStatusAnswers \/ UDPStatusIgnored
  BY <1>2, <1>3, <1>4 DEF UDPStatusAnswers, UDPStatusIgnored
<1>5. CASE TCPStatusAnswers \/ TCPStatusIgnored
  BY <1>2, <1>3, <1>5 DEF TCPStatusAnswers, TCPStatusIgnored
<1>6. CASE SockServesUDP
  BY <1>1, <1>3, <1>4, <1>6, WriteBufferedAcks, WriteReadAcks DEF SockServesUDP
<1>7. CASE SockServesTCP
  BY <1>1, <1>3, <1>5, <1>7, WriteBufferedAcks, WriteReadAcks, WriteAcceptAcks
  DEF SockServesTCP
<1> QED BY <1>6, <1>7, AppAcksNothing DEF SockNext

LEMMA NextAcks == TypeOK /\ CallInv /\ [Next]_vars => [AckTrue]_vars
<1> SUFFICES ASSUME TypeOK, CallInv, Next
             PROVE  AckTrue
  OBVIOUS
<1>1. PipesOK /\ SockTypeOK
  BY DEF TypeOK
<1>2. out'["sock"] = out["sock"] \/ out["sock"] # <<>> => AckTrue
  BY DEF AckTrue
<1>3. CASE App
  <2>1. ASSUME NEW type, NEW fd, NEW c, NEW data, Call(type, fd, c, data)
        PROVE  out' = out
    BY <2>1 DEF Call
  <2>2. CASE LibReturn
    BY <1>2, <2>2 DEF LibReturn
  <2>3. CASE LibCall
    BY <1>2, <2>1, <2>3
    DEF LibCall, minet_socket, minet_bind, minet_listen, minet_accept, minet_connect,
        minet_read, minet_write, minet_close, minet_other
  <2> QED BY <1>3, <2>2, <2>3 DEF App
<1>4. CASE SockProcess
  BY <1>1, <1>2, <1>4, SockAcks DEF SockProcess, CallInv, Send
<1>5. CASE UdpProcess
  <2>1. ASSUME NEW f, NEW sends, Receive("udp", f, sends)
        PROVE  out'["sock"] = out["sock"]
    BY <1>1, <2>1 DEF Receive, PipesOK
  <2>2. CASE UdpNext
    <3>1. \E f, sends : Receive("udp", f, sends)
      BY <2>2 DEF UdpNext, UdpForwards, UdpUnreachable, UdpIgnoresStatus, UdpWrites,
                  UdpAddsForward, UdpCloses
    <3> QED BY <1>2, <2>1, <3>1
  <2>3. CASE Send("udp")
    BY <1>1, <1>2, <2>3, Sent
  <2> QED BY <1>5, <2>2, <2>3 DEF UdpProcess
<1>6. CASE TcpProcess
  <2>1. ASSUME NEW c, NEW data, NEW err, PeerSends(c, data, err)
        PROVE  out' = out
    BY <2>1 DEF PeerSends
  <2> QED BY <1>2, <1>6, <2>1 DEF TcpProcess, PeerNext, PeerAnswers, PeerIgnoresStatus,
                                PeerFinishesOpen, PeerAccepts, PeerReceives
<1>7. CASE Network
  BY <1>2, <1>7 DEF Network, NetDelivers, NetTakes
<1> QED BY <1>3, <1>4, <1>5, <1>6, <1>7 DEF Next

\* No step of the socket module acknowledges data it dropped (sock_module.cc:79-105
\* and 298-327).
THEOREM AckedDataKeptCorrect == Spec => AckedDataKept
<1>1. Init /\ [][Next]_vars => []TypeOK
  BY TypeCorrect DEF Spec
<1>2. Init /\ [][Next]_vars => []CallInv
  BY CallsCorrect DEF Spec
<1> QED BY <1>1, <1>2, NextAcks, PTL DEF Spec, AckedDataKept
=============================================================================
