----------------------------- MODULE SockModule -----------------------------
(***************************************************************************)
(* The socket module, src/core/sock_module.cc: it serves the calls of one  *)
(* application and talks to the TCP and UDP modules with requests (CONNECT, *)
(* ACCEPT, WRITE, FORWARD, CLOSE) that each is answered by one STATUS, in  *)
(* order.  One action per request the module can take from a pipe.         *)
(***************************************************************************)
EXTENDS Minet, SockStructs

CONSTANT BIN_SIZE   \* sock.h: the capacity of a socket's input buffer

ASSUME BinAssumption == BIN_SIZE \in Nat /\ BIN_SIZE > 0

VARIABLES
    reqq,   \* reqq.tcp and reqq.udp: the queues tcpq and udpq
    asked   \* auxiliary: asked[p], how many requests were sent to p

sockVars == <<socks, ports, reqq, asked>>

\* RequestRecord: the request's type and the socket it was made for.
RequestRecord == [type : srrType \ {"STATUS"}, sock : Sock, req : Nat]

\* The pipes to and from each transport module, and the order of the handles.
LowerPipe == [tcp |-> "sock2tcp", udp |-> "sock2udp"]
UpperPipe == [tcp |-> "tcp2sock", udp |-> "udp2sock"]
SockHandles == <<"tcp2sock", "udp2sock", "app2sock">>

SockInit ==
    /\ SockStatusInit
    /\ PortStatusInit
    /\ reqq  = [p \in Transport |-> <<>>]
    /\ asked = [p \in Transport |-> 0]

ToApp(m)      == [to |-> "sock2app", msg |-> m]
ToLower(p, m) == [to |-> LowerPipe[p], msg |-> m]

\* Fault: the input buffer takes whatever comes.
SmallerUnbounded(a, b) == a

Smaller(a, b) == IF a < b THEN a ELSE b

----------------------------------------------------------------------------
(* Requests to a transport module *)

\* The message of SendTCPRequest and SendUDPRequest.
Request(p, type, c, data) ==
    ToLower(p, [type |-> type, connection |-> c, data |-> data, bytes |-> 0,
                error |-> "EOK", req |-> asked[p] + 1])

\* Fault: a request goes to the front of its queue.
RecordInFront(p, type, s) ==
    /\ reqq'  = [reqq EXCEPT ![p] =
                   <<[type |-> type, sock |-> s, req |-> asked[p] + 1]>> \o @]
    /\ asked' = [asked EXCEPT ![p] = @ + 1]

\* tcpq.Insert and udpq.Insert of a request made for socket s.
Record(p, type, s) ==
    /\ reqq'  = [reqq EXCEPT ![p] =
                   Append(@, [type |-> type, sock |-> s, req |-> asked[p] + 1])]
    /\ asked' = [asked EXCEPT ![p] = @ + 1]

----------------------------------------------------------------------------
(* Calls of the application: ProcessAppRequest *)

AppRequest == Head(fifo["app2sock"])

\* The event loop hands ProcessAppRequest a call of this type.
AppCalls(type) ==
    /\ GetNextEvent("sock", SockHandles, "app2sock")
    /\ AppRequest.type = type

\* respond = 1: the request is sent back as the mSTATUS, with fd and error set.
Response(fd, err) ==
    ToApp([AppRequest EXCEPT !.type = "mSTATUS", !.sockfd = fd, !.error = err])

Reject(err) ==
    /\ Receive("sock", "app2sock", <<Response(AppRequest.sockfd, err)>>)
    /\ UNCHANGED sockVars

\* Fault: a port that is asked for is given without a look at its owner.
ResolveAnyPort(c, p) ==
    /\ c.src = IP_ADDRESS_ANY
    /\ IF c.srcport = PORT_ANY THEN FindFreePort(p) ELSE p = c.srcport

\* ResolveSrcPort(_, c) reserves p: any free port when c leaves it open, the port
\* itself when nobody owns it, and nothing for an address that is not a wildcard.
ResolveSrcPort(c, p) ==
    /\ c.src = IP_ADDRESS_ANY
    /\ IF c.srcport = PORT_ANY
         THEN FindFreePort(p)
         ELSE p = c.srcport /\ ports[p] = 0

Unresolvable(c) == \A p \in Port : ~ ResolveSrcPort(c, p)

SockSocket ==
    /\ AppCalls("mSOCKET")
    /\ \/ \E s \in Sock :
            LET c == [socks[s].connection EXCEPT
                        !.protocol = AppRequest.connection.protocol] IN
            /\ FindFreeSock(s)
            /\ socks' = [socks EXCEPT ![s] = [@ EXCEPT !.status = "UNBOUND",
                                                      !.connection = c, !.toApp = TRUE]]
            /\ Receive("sock", "app2sock", <<Response(s, "EOK")>>)
            /\ UNCHANGED <<ports, reqq, asked>>
       \/ NoFreeSock /\ Reject("ERESOURCE_UNAVAIL")

\* c with its local end bound to port p.
LocalEnd(c, p) == [c EXCEPT !.src = MyIPAddr, !.srcport = p]

\* A datagram socket's bind is finished by the STATUS of its FORWARD request.
SockBind ==
    LET s == AppRequest.sockfd
        c == AppRequest.connection
        Allowed == socks[s].status = "UNBOUND" /\ socks[s].toApp
    IN
    /\ AppCalls("mBIND")
    /\ \/ ~ Allowed /\ Reject("EINVALID_OP")
       \/ Allowed /\ Unresolvable(c) /\ Reject("ERESOURCE_UNAVAIL")
       \/ /\ Allowed
          /\ \E p \in Port :
               LET bound == LocalEnd(socks[s].connection, p) IN
               /\ ResolveSrcPort(c, p)
               /\ ports' = AssignPort(p, s)
               /\ IF bound.protocol = "udp"
                    THEN /\ socks' = [socks EXCEPT ![s] = [@ EXCEPT !.connection = bound]]
                         /\ Record("udp", "FORWARD", s)
                         /\ Receive("sock", "app2sock",
                                    <<Request("udp", "FORWARD", bound, 0)>>)
                    ELSE /\ socks' = [socks EXCEPT ![s] = [@ EXCEPT !.status = "BOUND",
                                                             !.connection = bound]]
                         /\ Receive("sock", "app2sock",
                              <<ToApp([AppRequest EXCEPT !.type = "mSTATUS",
                                         !.connection = LocalEnd(c, p),
                                         !.error = "EOK"])>>)
                         /\ UNCHANGED <<reqq, asked>>

SockListen ==
    LET s == AppRequest.sockfd
        Allowed == socks[s].status = "BOUND" /\ socks[s].toApp
        Datagram == socks[s].connection.protocol = "udp"
    IN
    /\ AppCalls("mLISTEN")
    /\ \/ ~ Allowed /\ Reject("EINVALID_OP")
       \/ /\ Allowed /\ Datagram
          /\ Receive("sock", "app2sock", <<Response(0, "ENOT_SUPPORTED")>>)
          /\ UNCHANGED sockVars
       \/ /\ Allowed /\ ~ Datagram
          /\ socks' = [socks EXCEPT ![s] =
                         [@ EXCEPT !.status = "LISTENING",
                                   !.connection = RemoteOpen(socks[s].connection)]]
          /\ Receive("sock", "app2sock", <<Response(s, "EOK")>>)
          /\ UNCHANGED <<ports, reqq, asked>>

\* Only a stream socket can be LISTENING, so the datagram branch of the code is
\* never reached.  The answer comes with the WRITE of the new connection.
SockAccept ==
    LET s == AppRequest.sockfd
        Allowed == socks[s].status = "LISTENING" /\ socks[s].toApp
    IN
    /\ AppCalls("mACCEPT")
    /\ \/ ~ Allowed /\ Reject("EINVALID_OP")
       \/ /\ Allowed
          /\ socks' = SetStatus(s, "ACCEPT_PENDING")
          /\ Record("tcp", "ACCEPT", s)
          /\ Receive("sock", "app2sock",
                     <<Request("tcp", "ACCEPT", socks[s].connection, 0)>>)
          /\ UNCHANGED ports

\* p is the source port: a bound socket keeps its own, another one reserves it.
SourcePort(s, c, p) ==
    IF socks[s].status = "BOUND"
      THEN p = socks[s].connection.srcport /\ UNCHANGED ports
      ELSE ResolveSrcPort(c, p) /\ ports' = AssignPort(p, s)

\* A datagram socket is CONNECTED at once and answered by its FORWARD's STATUS; a
\* stream socket waits for the WRITE that reports the connection.
SockConnect ==
    LET s == AppRequest.sockfd
        c == AppRequest.connection
        proto == socks[s].connection.protocol
        Allowed == socks[s].status \in {"UNBOUND", "BOUND"} /\ socks[s].toApp
    IN
    /\ AppCalls("mCONNECT")
    /\ \/ ~ Allowed /\ Reject("EINVALID_OP")
       \/ /\ Allowed /\ socks[s].status = "UNBOUND" /\ Unresolvable(c)
          /\ Reject("ERESOURCE_UNAVAIL")
       \/ /\ Allowed
          /\ \E p \in Port :
               LET src  == IF socks[s].status = "BOUND" THEN socks[s].connection.src
                                                        ELSE MyIPAddr
                   full == [src |-> src, srcport |-> p, dest |-> c.dest,
                            destport |-> c.destport, protocol |-> proto]
                   type == IF proto = "udp" THEN "FORWARD" ELSE "CONNECT"
               IN
               /\ SourcePort(s, c, p)
               /\ socks' = [socks EXCEPT ![s] =
                              [@ EXCEPT !.status = IF proto = "udp" THEN "CONNECTED"
                                                                    ELSE "CONNECT_PENDING",
                                        !.connection = full]]
               /\ Record(proto, type, s)
               /\ Receive("sock", "app2sock", <<Request(proto, type, full, 0)>>)

\* Buffered data is returned at once, and stays in the buffer; otherwise the
\* answer comes with the next WRITE for this socket.
SockRead ==
    LET s == AppRequest.sockfd
        Allowed == /\ \/ socks[s].status = "CONNECTED"
                      \/ /\ socks[s].status = "BOUND"
                         /\ socks[s].connection.protocol = "udp"
                   /\ socks[s].toApp
    IN
    /\ AppCalls("mREAD")
    /\ \/ /\ ~ Allowed
          /\ Receive("sock", "app2sock",
               <<ToApp([AppRequest EXCEPT !.type = "mSTATUS", !.data = 0,
                                          !.error = "EINVALID_OP"])>>)
          /\ UNCHANGED sockVars
       \/ /\ Allowed /\ socks[s].bin > 0
          /\ Receive("sock", "app2sock",
               <<ToApp([AppRequest EXCEPT !.type = "mSTATUS", !.data = socks[s].bin,
                                          !.error = "EOK"])>>)
          /\ UNCHANGED sockVars
       \/ /\ Allowed /\ socks[s].bin = 0
          /\ socks' = SetStatus(s, "READ_PENDING")
          /\ Receive("sock", "app2sock", <<>>)
          /\ UNCHANGED <<ports, reqq, asked>>

SockWrite ==
    LET s == AppRequest.sockfd
        proto == socks[s].connection.protocol
        Allowed == socks[s].status = "CONNECTED" /\ socks[s].toApp
    IN
    /\ AppCalls("mWRITE")
    /\ \/ ~ Allowed /\ Reject("EINVALID_OP")
       \/ /\ Allowed
          /\ socks' = SetStatus(s, "WRITE_PENDING")
          /\ Record(proto, "WRITE", s)
          /\ Receive("sock", "app2sock",
               <<Request(proto, "WRITE", socks[s].connection, AppRequest.data)>>)
          /\ UNCHANGED ports

\* Fault: the record is cleared before its connection is read.
SockCloseClearsFirst ==
    LET s == AppRequest.sockfd
        proto == socks[s].connection.protocol
    IN
    /\ AppCalls("mCLOSE")
    /\ \/ ~ socks[s].toApp /\ Reject("EINVALID_OP")
       \/ /\ socks[s].toApp
          /\ socks' = CloseSocket(s)
          /\ Record(proto, "CLOSE", s)
          /\ Receive("sock", "app2sock",
               <<Request(proto, "CLOSE", FreeRecord.connection, AppRequest.data),
                 Response(s, "EOK")>>)
          /\ UNCHANGED ports

\* The socket is freed and the call answered before the transport module has seen
\* the CLOSE.  The port stays reserved.
SockClose ==
    LET s == AppRequest.sockfd
        proto == socks[s].connection.protocol
    IN
    /\ AppCalls("mCLOSE")
    /\ \/ ~ socks[s].toApp /\ Reject("EINVALID_OP")
       \/ /\ socks[s].toApp
          /\ socks' = CloseSocket(s)
          /\ Record(proto, "CLOSE", s)
          /\ Receive("sock", "app2sock",
               <<Request(proto, "CLOSE", socks[s].connection, AppRequest.data),
                 Response(s, "EOK")>>)
          /\ UNCHANGED ports

\* The default case: mRECVFROM, mSENDTO, mSET_BLOCKING, mSET_NONBLOCKING,
\* mCAN_READ_NOW and mCAN_WRITE_NOW are sent back unchanged, error still EOK.
SockOther == AppCalls("mOTHER") /\ Reject("EOK")

----------------------------------------------------------------------------
(* Messages of a transport module: ProcessTCPMessage, ProcessUDPMessage *)

Message(p) == Head(fifo[UpperPipe[p]])

LowerSends(p, type) ==
    /\ GetNextEvent("sock", SockHandles, UpperPipe[p])
    /\ Message(p).type = type

\* Fault: every byte is acknowledged.
AckAll(p, data, bytes, err) ==
    ToLower(p, [Message(p) EXCEPT !.type = "STATUS", !.data = data,
                                  !.bytes = Message(p).data, !.error = err])

\* respond = 1: the message is sent back as a STATUS.
Ack(p, data, bytes, err) ==
    ToLower(p, [Message(p) EXCEPT !.type = "STATUS", !.data = data,
                                  !.bytes = bytes, !.error = err])

\* SendAppMessage(s, fd): the transport module's message, passed on as mSTATUS.
AppMessage(p, fd) ==
    ToApp([type |-> "mSTATUS", connection |-> Message(p).connection, sockfd |-> fd,
           data |-> Message(p).data, bytes |-> Message(p).bytes,
           error |-> Message(p).error])

\* The socket a WRITE of p is for has this status.
WriteFor(p, s, stat) ==
    /\ LowerSends(p, "WRITE")
    /\ FindConnection(s, Message(p).connection)
    /\ socks[s].status = stat

WriteNoMatch(p) ==
    /\ LowerSends(p, "WRITE")
    /\ NoSuchConnection(Message(p).connection)
    /\ Receive("sock", UpperPipe[p], <<Ack(p, Message(p).data, 0, "ENOMATCH")>>)
    /\ UNCHANGED sockVars

\* What fits in the input buffer of s.
Taken(p, s) == Smaller(Message(p).data, BIN_SIZE - socks[s].bin)

\* Nobody reads: as much as fits is kept.
WriteBuffered(p) ==
    \E s \in Sock :
      /\ WriteFor(p, s, "CONNECTED")
      /\ socks' = [socks EXCEPT ![s] = [@ EXCEPT !.bin = socks[s].bin + Taken(p, s)]]
      /\ Receive("sock", UpperPipe[p],
           <<Ack(p, 0, Taken(p, s), IF Taken(p, s) > 0 THEN "EOK" ELSE "EBUF_SPACE")>>)
      /\ UNCHANGED <<ports, reqq, asked>>

\* Fault: the application is not told.
WriteReadSilent(p) ==
    \E s \in Sock :
      /\ WriteFor(p, s, "READ_PENDING")
      /\ socks' = SetStatus(s, "CONNECTED")
      /\ Receive("sock", UpperPipe[p], <<Ack(p, 0, Message(p).data, "EOK")>>)
      /\ UNCHANGED <<ports, reqq, asked>>

\* The application waits in a read: it is given the data.
WriteRead(p) ==
    \E s \in Sock :
      /\ WriteFor(p, s, "READ_PENDING")
      /\ socks' = SetStatus(s, "CONNECTED")
      /\ Receive("sock", UpperPipe[p],
           <<AppMessage(p, s), Ack(p, 0, Message(p).data, "EOK")>>)
      /\ UNCHANGED <<ports, reqq, asked>>

\* The application waits in an accept.
WriteAcceptFailed ==
    \E s \in Sock :
      /\ WriteFor("tcp", s, "ACCEPT_PENDING")
      /\ Message("tcp").error # "EOK"
      /\ socks' = SetStatus(s, "LISTENING")
      /\ Receive("sock", UpperPipe["tcp"],
           <<AppMessage("tcp", s),
             Ack("tcp", Message("tcp").data, Message("tcp").bytes, "EOK")>>)
      /\ UNCHANGED <<ports, reqq, asked>>

\* Fault: the accepted connection is made the owner of its listener's port.
WriteAcceptedOwns ==
    \E s, new \in Sock :
      /\ WriteFor("tcp", s, "ACCEPT_PENDING")
      /\ Message("tcp").error = "EOK"
      /\ FindFreeSock(new)
      /\ socks' = [SetStatus(s, "LISTENING") EXCEPT ![new] =
                     [@ EXCEPT !.status = "CONNECTED", !.toApp = TRUE,
                               !.connection = Message("tcp").connection]]
      /\ Receive("sock", UpperPipe["tcp"],
           <<AppMessage("tcp", new),
             Ack("tcp", Message("tcp").data, Message("tcp").bytes, "EOK")>>)
      /\ ports' = AssignPort(Message("tcp").connection.srcport, new)
      /\ UNCHANGED <<reqq, asked>>

WriteAccepted ==
    \E s, new \in Sock :
      /\ WriteFor("tcp", s, "ACCEPT_PENDING")
      /\ Message("tcp").error = "EOK"
      /\ FindFreeSock(new)
      /\ socks' = [SetStatus(s, "LISTENING") EXCEPT ![new] =
                     [@ EXCEPT !.status = "CONNECTED", !.toApp = TRUE,
                               !.connection = Message("tcp").connection]]
      /\ Receive("sock", UpperPipe["tcp"],
           <<AppMessage("tcp", new),
             Ack("tcp", Message("tcp").data, Message("tcp").bytes, "EOK")>>)
      /\ UNCHANGED <<ports, reqq, asked>>

\* No socket is left: the transport module is told, the application is not.
WriteAcceptNoSock ==
    \E s \in Sock :
      /\ WriteFor("tcp", s, "ACCEPT_PENDING")
      /\ Message("tcp").error = "EOK"
      /\ NoFreeSock
      /\ socks' = SetStatus(s, "LISTENING")
      /\ Receive("sock", UpperPipe["tcp"],
           <<Ack("tcp", Message("tcp").data, Message("tcp").bytes, "ERESOURCE_UNAVAIL")>>)
      /\ UNCHANGED <<ports, reqq, asked>>

\* The application waits in a connect.
WriteConnected ==
    \E s \in Sock :
      LET err == Message("tcp").error IN
      /\ WriteFor("tcp", s, "CONNECT_PENDING")
      /\ socks' = IF err # "EOK"
                    THEN CloseSocket(s)
                    ELSE [socks EXCEPT ![s] =
                            [@ EXCEPT !.status = "CONNECTED",
                                      !.connection = Message("tcp").connection]]
      /\ Receive("sock", UpperPipe["tcp"],
           <<AppMessage("tcp", s),
             Ack("tcp", Message("tcp").data, Message("tcp").bytes, "EOK")>>)
      /\ UNCHANGED <<ports, reqq, asked>>

\* The statuses in which HandleTCPWrite and HandleUDPWrite take a WRITE.
WriteStatuses(p) ==
    {"CONNECTED", "READ_PENDING"} \cup
    (IF p = "tcp" THEN {"ACCEPT_PENDING", "CONNECT_PENDING"} ELSE {})

\* Any other status: the data is refused, the byte count left as it came.
WriteRefused(p) ==
    /\ LowerSends(p, "WRITE")
    /\ \E s \in Sock : FindConnection(s, Message(p).connection)
                       /\ socks[s].status \notin WriteStatuses(p)
    /\ Receive("sock", UpperPipe[p],
         <<Ack(p, Message(p).data, Message(p).bytes, "EINVALID_OP")>>)
    /\ UNCHANGED sockVars

\* A STATUS answers the oldest request in the queue.  The code does not test for
\* an empty queue; StatusFindsRequest says there is no need to.
StatusFor(p, type) ==
    /\ LowerSends(p, "STATUS")
    /\ reqq[p] # <<>>
    /\ Head(reqq[p]).type = type
    /\ reqq' = [reqq EXCEPT ![p] = Tail(@)]
    /\ UNCHANGED <<ports, asked>>

\* dest and destport are both given.
HasPeer(s) == /\ socks[s].connection.dest # IP_ADDRESS_ANY
              /\ socks[s].connection.destport # PORT_ANY

\* HandleUDPStatus for FORWARD and WRITE: the waiting call is answered.
UDPStatusAnswers ==
    \E type \in {"FORWARD", "WRITE"} :
      LET s == Head(reqq["udp"]).sock IN
      /\ StatusFor("udp", type)
      /\ socks' = IF type = "FORWARD" /\ Message("udp").error # "EOK"
                    THEN CloseSocket(s)
                    ELSE SetStatus(s, IF HasPeer(s) THEN "CONNECTED" ELSE "BOUND")
      /\ Receive("sock", UpperPipe["udp"], <<AppMessage("udp", s)>>)

\* Fault: the STATUS of a CLOSE is passed on, although the call has returned.
UDPStatusPassedOn ==
    /\ StatusFor("udp", "CLOSE")
    /\ Receive("sock", UpperPipe["udp"], <<AppMessage("udp", Head(reqq["udp"]).sock)>>)
    /\ UNCHANGED socks

UDPStatusIgnored ==
    /\ StatusFor("udp", "CLOSE")
    /\ Receive("sock", UpperPipe["udp"], <<>>)
    /\ UNCHANGED socks

\* Fault: the STATUS of every ACCEPT and CONNECT answers the call.
TCPStatusAnswersAll ==
    \E type \in {"CONNECT", "ACCEPT", "WRITE"} :
      LET s == Head(reqq["tcp"]).sock IN
      /\ StatusFor("tcp", type)
      /\ socks' = CASE type = "CONNECT" -> CloseSocket(s)
                     [] type = "ACCEPT"  -> SetStatus(s, "LISTENING")
                     [] type = "WRITE"   -> SetStatus(s, "CONNECTED")
      /\ Receive("sock", UpperPipe["tcp"], <<AppMessage("tcp", s)>>)

\* HandleTCPStatus: the answer to a WRITE, and the failure of CONNECT and ACCEPT,
\* answer the waiting call.
TCPStatusAnswers ==
    \E type \in {"CONNECT", "ACCEPT", "WRITE"} :
      LET s == Head(reqq["tcp"]).sock IN
      /\ StatusFor("tcp", type)
      /\ type # "WRITE" => Message("tcp").error # "EOK"
      /\ socks' = CASE type = "CONNECT" -> CloseSocket(s)
                     [] type = "ACCEPT"  -> SetStatus(s, "LISTENING")
                     [] type = "WRITE"   -> SetStatus(s, "CONNECTED")
      /\ Receive("sock", UpperPipe["tcp"], <<AppMessage("tcp", s)>>)

TCPStatusIgnored ==
    /\ \/ \E type \in {"CONNECT", "ACCEPT"} :
             StatusFor("tcp", type) /\ Message("tcp").error = "EOK"
       \/ StatusFor("tcp", "CLOSE")
    /\ Receive("sock", UpperPipe["tcp"], <<>>)
    /\ UNCHANGED socks

----------------------------------------------------------------------------
SockServesApp ==
    \/ SockSocket \/ SockBind \/ SockListen \/ SockAccept \/ SockConnect
    \/ SockRead \/ SockWrite \/ SockClose \/ SockOther

SockServesUDP ==
    \/ WriteNoMatch("udp") \/ WriteBuffered("udp") \/ WriteRead("udp")
    \/ WriteRefused("udp") \/ UDPStatusAnswers \/ UDPStatusIgnored

SockServesTCP ==
    \/ WriteNoMatch("tcp") \/ WriteBuffered("tcp") \/ WriteRead("tcp")
    \/ WriteRefused("tcp") \/ WriteAcceptFailed \/ WriteAccepted
    \/ WriteAcceptNoSock \/ WriteConnected
    \/ TCPStatusAnswers \/ TCPStatusIgnored

SockNext == SockServesApp \/ SockServesUDP \/ SockServesTCP
=============================================================================
