----------------------------- MODULE SockCalls -----------------------------
(***************************************************************************)
(* The inductive invariant of the application's calls and of what they     *)
(* reserve: who owes the answer to a call, what the records of the socket  *)
(* module and its requests say of each other, and what the TCP module can  *)
(* know of a port.                                                         *)
(***************************************************************************)
EXTENDS SockStackProps

----------------------------------------------------------------------------
(* What is on its way *)

\* What a transport module wrote: its reports and its answers.
Reports(p) == {m \in ToSet(fifo[UpperPipe[p]]) : m.type # "STATUS"}
Answers(p) == {m \in ToSet(fifo[UpperPipe[p]]) : m.type = "STATUS"}

----------------------------------------------------------------------------
(* The call of the application is in one place *)

Pending == {"READ_PENDING", "ACCEPT_PENDING", "CONNECT_PENDING"}

ToldBy(sends) == {i \in DOMAIN sends : sends[i].to = "sock2app"}

NoCall    == fifo["app2sock"] = <<>>
NoReply   == fifo["sock2app"] = <<>> /\ ToldBy(out["sock"]) = {}
NoRequest == \A p \in Transport : \A r \in Waits(p) : r.type \notin Answering(p)
NoPending == \A s \in Sock : socks[s].status \notin Pending

OneReply ==
    \/ Len(fifo["sock2app"]) = 1 /\ ToldBy(out["sock"]) = {}
    \/ fifo["sock2app"] = <<>> /\ \E i \in DOMAIN out["sock"] : ToldBy(out["sock"]) = {i}

OneRequest ==
    \E p \in Transport : \E r \in Waits(p) :
        /\ r.type \in Answering(p)
        /\ \A q \in Transport : \A o \in Waits(q) :
              o.type \in Answering(q) => q = p /\ o = r

OnePending ==
    \E s \in Sock :
        /\ socks[s].status \in Pending
        /\ \A t \in Sock : socks[t].status \in Pending => t = s

\* No call; a call the socket module has not read; an answer on its way; a request
\* whose STATUS answers; a socket whose next WRITE answers; nobody.
Idle     == ~ waiting /\ NoCall /\ NoReply /\ NoRequest /\ NoPending
Called   == waiting /\ Len(fifo["app2sock"]) = 1 /\ NoReply /\ NoRequest /\ NoPending
Answered == waiting /\ NoCall /\ OneReply /\ NoRequest /\ NoPending
AtLower  == waiting /\ NoCall /\ NoReply /\ OneRequest /\ NoPending
AtSocket == waiting /\ NoCall /\ NoReply /\ NoRequest /\ OnePending
Lost     == /\ waiting /\ NoCall /\ NoReply /\ NoRequest /\ NoPending
            /\ NoFreeSock /\ "mACCEPT" \in AppCallTypes

OneCall == Idle \/ Called \/ Answered \/ AtLower \/ AtSocket \/ Lost

\* What the application asks for in a call that is not yet read.
AppCallOK ==
    \A m \in ToSet(fifo["app2sock"]) :
      /\ m.type \in AppCallTypes
      /\ m.type = "mCONNECT" => /\ m.connection.dest # IP_ADDRESS_ANY
                                /\ m.connection.destport # PORT_ANY

----------------------------------------------------------------------------
(* The records and the ports *)

Owned(s) == /\ socks[s].connection.srcport # PORT_ANY
            /\ ports[socks[s].connection.srcport] = s

Listener(s) == socks[s].status \in {"LISTENING", "ACCEPT_PENDING"}

\* A socket that has a port owns it, unless it is that of an accepted connection.
RecordOK(s) ==
    LET c == socks[s].connection
        stat == socks[s].status
    IN
    /\ stat = "FREE" => socks[s] = FreeRecord
    /\ stat # "FREE" => socks[s].toApp
    /\ stat \notin {"FREE", "UNBOUND"} => c.srcport # PORT_ANY
    /\ stat \in {"BOUND", "LISTENING", "ACCEPT_PENDING", "CONNECT_PENDING"} => Owned(s)
    /\ stat \in {"LISTENING", "ACCEPT_PENDING", "CONNECT_PENDING"} => c.protocol = "tcp"
    /\ stat = "ACCEPT_PENDING" => "mACCEPT" \in AppCallTypes
    /\ Listener(s) => c = RemoteOpen(c)
    /\ stat \in {"UNBOUND", "CONNECT_PENDING"} => socks[s].bin = 0
    /\ stat = "BOUND" /\ c.protocol = "tcp" => socks[s].bin = 0
    /\ c.srcport # PORT_ANY => ports[c.srcport] # 0
    /\ c.srcport # PORT_ANY /\ ~ Owned(s) =>
          c.protocol = "tcp" /\ c.dest # IP_ADDRESS_ANY

\* The port of a socket that has reserved it is nobody else's, unless it listens.
PortAlone(s) ==
    Owned(s) /\ ~ Listener(s) =>
        \A t \in Sock : t # s =>
            socks[t].connection.srcport # socks[s].connection.srcport

Records == \A s \in Sock : RecordOK(s) /\ PortAlone(s)

\* The record a request is made for waits for its answer.
RequestOK(p, r) ==
    LET s == socks[r.sock] IN
    r.type \in Answering(p) =>
      /\ s.connection.protocol = p /\ s.connection.srcport # PORT_ANY
      /\ IF r.type = "WRITE" THEN s.status = "WRITE_PENDING"
                             ELSE s.status \in {"UNBOUND", "CONNECTED"}

Requested == \A p \in Transport : \A r \in Waits(p) : RequestOK(p, r)

----------------------------------------------------------------------------
(* The TCP module *)

\* A port it knows a connection of.
Touched(port) ==
    \/ \E c \in opening \cup listening \cup established : c.srcport = port
    \/ \E m \in Reports("tcp") : m.connection.srcport = port

\* A request it may refuse, and the requests that are or can be refused.
Undecided(m) == \/ m.type = "CONNECT"
                \/ m.type = "ACCEPT" /\ m.connection \notin listening

Refusable(n) ==
    \/ \E m \in Down("tcp") : m.req = n /\ Undecided(m)
    \/ \E m \in Answers("tcp") : m.req = n /\ m.error # "EOK"

PendingOf == [CONNECT |-> "CONNECT_PENDING", ACCEPT |-> "ACCEPT_PENDING"]

\* A CONNECT or an ACCEPT that can fail is the last request made, its socket still
\* waits, and nothing has been heard of its port.
Refusals ==
    \A r \in Waits("tcp") :
      (r.type \in {"CONNECT", "ACCEPT"} /\ Refusable(r.req)) =>
        /\ r.req = asked["tcp"]
        /\ socks[r.sock].status = PendingOf[r.type]
        /\ ~ Touched(socks[r.sock].connection.srcport)

\* A request on its way is the one the socket module recorded.
Linked ==
    \A m \in Down("tcp") : \A r \in Waits("tcp") :
      r.req = m.req =>
        /\ r.type = m.type
        /\ Undecided(m) => socks[r.sock].connection = m.connection

TcpConnections ==
    /\ \A c \in opening \cup established : c.dest # IP_ADDRESS_ANY
    /\ \A c \in opening \cup established \cup listening : c.protocol = "tcp"
    /\ \A m \in Reports("tcp") : /\ m.connection.dest # IP_ADDRESS_ANY
                                 /\ m.connection.protocol = "tcp"
                                 /\ m.type = "WRITE" /\ m.bytes = m.data
    /\ \A m \in Down("tcp") :
          /\ m.type = "CONNECT" => m.connection.dest # IP_ADDRESS_ANY
          /\ m.type \in {"CONNECT", "ACCEPT"} => m.connection.protocol = "tcp"

\* It knows no port that is free.
KnownPorts ==
    /\ \A port \in Port : Touched(port) => ports[port] # 0
    /\ \A m \in Down("tcp") :
         m.connection.srcport # PORT_ANY => ports[m.connection.srcport] # 0

\* What it knows of a listener's port is that it is listening; it knows nothing of
\* the port of a bound socket, and will not be told to close either.
Listeners ==
    \A s \in Sock :
      LET c == socks[s].connection IN
      /\ Listener(s) =>
           /\ ~ Touched(c.srcport) \/ c \in listening
           /\ \A m \in Down("tcp") : m.type = "CLOSE" => m.connection # c
      /\ socks[s].status = "BOUND" /\ c.protocol = "tcp" =>
           /\ ~ Touched(c.srcport)
           /\ \A m \in Down("tcp") : m.type = "CLOSE" => m.connection.srcport # c.srcport

ClosedLast ==
    \A m, o \in Down("tcp") :
      (m.type = "ACCEPT" /\ o.type = "CLOSE" /\ m.connection = o.connection)
         => m.req < o.req

TcpInv == /\ Refusals /\ Linked /\ TcpConnections /\ KnownPorts
          /\ Listeners /\ ClosedLast

CallInv == OneCall /\ AppCallOK /\ Records /\ Requested /\ TcpInv
=============================================================================
