-------------------------- MODULE SockStackProofs --------------------------
(***************************************************************************)
(* Proofs about the socket stack, for every value of the constants: types, *)
(* that every STATUS answers the oldest request of its queue, and that the *)
(* UDP module keeps the promise of RequestChannel.                         *)
(***************************************************************************)
EXTENDS SockStackProps, SequenceTheorems, TLAPS

USE DEF PORT_ANY

----------------------------------------------------------------------------
(* The pipes *)

\* A handler that sends what its module may send keeps the pipes well typed.
LEMMA ReceiveType ==
    ASSUME PipesOK, NEW m \in {"sock", "udp"}, NEW f \in Fifo, fifo[f] # <<>>,
           NEW sends, sends \in Seq(Sends(m)), Receive(m, f, sends)
    PROVE  PipesOK'
<1>1. Tail(fifo[f]) \in Seq(MessageOf(f))
  BY HeadTailProperties DEF PipesOK
<1> QED BY <1>1 DEF PipesOK, Receive

LEMMA AppendType ==
    ASSUME PipesOK, NEW f \in Fifo, NEW msg \in MessageOf(f),
           fifo' = [fifo EXCEPT ![f] = Append(@, msg)], out' = out
    PROVE  PipesOK'
<1>1. Append(fifo[f], msg) \in Seq(MessageOf(f))
  BY AppendProperties DEF PipesOK
<1> QED BY <1>1 DEF PipesOK

LEMMA TakeType ==
    ASSUME PipesOK, NEW f \in Fifo, fifo[f] # <<>>,
           fifo' = [fifo EXCEPT ![f] = Tail(@)], out' = out
    PROVE  PipesOK'
<1>1. Tail(fifo[f]) \in Seq(MessageOf(f))
  BY HeadTailProperties DEF PipesOK
<1> QED BY <1>1 DEF PipesOK

LEMMA SendType ==
    ASSUME PipesOK, NEW m \in {"sock", "udp"}, Send(m)
    PROVE  PipesOK'
<1> DEFINE e == Head(out[m])
<1>1. e \in Sends(m) /\ Tail(out[m]) \in Seq(Sends(m))
  BY HeadTailProperties DEF PipesOK, Send
<1>2. e.to \in Fifo /\ e.msg \in MessageOf(e.to)
  BY <1>1 DEF Sends, SendTo, Fifo
<1>3. Append(fifo[e.to], e.msg) \in Seq(MessageOf(e.to))
  BY <1>2, AppendProperties DEF PipesOK
<1> QED BY <1>1, <1>2, <1>3 DEF PipesOK, Send

----------------------------------------------------------------------------
(* What the handlers of the socket module read and send *)

LEMMA SlrrFields ==
    ASSUME NEW r \in SockLibRequestResponse
    PROVE  /\ r.type \in slrrType /\ r.connection \in Connection
           /\ r.sockfd \in Sock \cup {0} /\ r.data \in Nat /\ r.bytes \in Nat
           /\ r.error \in Error
           /\ DOMAIN r = {"type", "connection", "sockfd", "data", "bytes", "error"}
  BY DEF SockLibRequestResponse

LEMMA AppRequestType ==
    ASSUME PipesOK, NEW type, AppCalls(type)
    PROVE  /\ fifo["app2sock"] # <<>>
           /\ AppRequest \in SockLibRequestResponse
           /\ AppRequest.type = type
           /\ type = "mSOCKET" => AppRequest.connection.protocol \in Transport
           /\ type # "mSOCKET" => AppRequest.sockfd \in Sock
<1>1. fifo["app2sock"] # <<>> /\ AppRequest.type = type
  BY DEF AppCalls, GetNextEvent
<1>2. fifo["app2sock"] \in Seq(MessageOf("app2sock"))
  BY DEF PipesOK, Fifo
<1>3. AppRequest \in MessageOf("app2sock")
  BY <1>1, <1>2, HeadTailProperties DEF AppRequest
<1> QED BY <1>1, <1>3 DEF MessageOf

LEMMA ToAppSends ==
    ASSUME NEW r \in SockLibRequestResponse
    PROVE  ToApp(r) \in Sends("sock")
  BY DEF ToApp, Sends, SendTo, MessageOf

LEMMA ResponseSends ==
    ASSUME AppRequest \in SockLibRequestResponse,
           NEW fd \in Sock \cup {0}, NEW err \in Error
    PROVE  Response(fd, err) \in Sends("sock")
<1> DEFINE r == [AppRequest EXCEPT !.type = "mSTATUS", !.sockfd = fd, !.error = err]
<1>1. r \in SockLibRequestResponse
  BY DEF SockLibRequestResponse, slrrType
<1> QED BY <1>1, ToAppSends DEF Response

LEMMA RequestSends ==
    ASSUME SockTypeOK, NEW p \in Transport, NEW type \in srrType,
           NEW c \in Connection, p = "tcp" => c.protocol \in Transport, NEW data \in Nat
    PROVE  Request(p, type, c, data) \in Sends("sock")
<1> DEFINE r == [type |-> type, connection |-> c, data |-> data, bytes |-> 0,
                 error |-> "EOK", req |-> asked[p] + 1]
<1>1. r \in SockRequestResponse
  BY DEF SockRequestResponse, Error, SockTypeOK
<1>2. CASE p = "udp"
  BY <1>1, <1>2 DEF Request, ToLower, LowerPipe, Sends, SendTo, MessageOf
<1>3. CASE p = "tcp"
  BY <1>1, <1>3 DEF Request, ToLower, LowerPipe, Sends, SendTo, MessageOf
<1> QED BY <1>2, <1>3 DEF Transport

LEMMA MessageType ==
    ASSUME PipesOK, NEW p \in Transport, NEW type, LowerSends(p, type)
    PROVE  /\ UpperPipe[p] \in Fifo /\ fifo[UpperPipe[p]] # <<>>
           /\ Message(p) \in SockRequestResponse
           /\ p = "tcp" => Message(p).connection.protocol \in Transport
           /\ Message(p).type = type
<1> DEFINE f == UpperPipe[p]
<1>1. f \in Fifo /\ f = IF p = "tcp" THEN "tcp2sock" ELSE "udp2sock"
  BY DEF UpperPipe, Fifo, Transport
<1>2. fifo[f] # <<>> /\ Message(p).type = type
  BY DEF LowerSends, GetNextEvent, Message
<1>3. Message(p) \in MessageOf(f)
  BY <1>1, <1>2, HeadTailProperties DEF Message, PipesOK
<1> QED BY <1>1, <1>2, <1>3 DEF MessageOf, Transport

LEMMA AckSends ==
    ASSUME NEW p \in Transport, Message(p) \in SockRequestResponse,
           p = "tcp" => Message(p).connection.protocol \in Transport,
           NEW data \in Nat, NEW bytes \in Nat, NEW err \in Error
    PROVE  Ack(p, data, bytes, err) \in Sends("sock")
<1> DEFINE r == [Message(p) EXCEPT !.type = "STATUS", !.data = data,
                                   !.bytes = bytes, !.error = err]
<1>1. r \in SockRequestResponse /\ r.connection = Message(p).connection
  BY DEF SockRequestResponse, srrType
<1>2. CASE p = "udp"
  BY <1>1, <1>2 DEF Ack, ToLower, LowerPipe, Sends, SendTo, MessageOf
<1>3. CASE p = "tcp"
  BY <1>1, <1>3 DEF Ack, ToLower, LowerPipe, Sends, SendTo, MessageOf
<1> QED BY <1>2, <1>3 DEF Transport

LEMMA AppMessageSends ==
    ASSUME NEW p \in Transport, Message(p) \in SockRequestResponse, NEW fd \in Sock
    PROVE  AppMessage(p, fd) \in Sends("sock")
<1> DEFINE m == Message(p)
           r == [type |-> "mSTATUS", connection |-> m.connection, sockfd |-> fd,
                 data |-> m.data, bytes |-> m.bytes, error |-> m.error]
<1>1. r \in SockLibRequestResponse
  BY DEF SockRequestResponse, SockLibRequestResponse, slrrType
<1> QED BY <1>1, ToAppSends DEF AppMessage

LEMMA RecordType ==
    ASSUME SockTypeOK, NEW p \in Transport, NEW type \in srrType \ {"STATUS"},
           NEW s \in Sock, Record(p, type, s)
    PROVE  reqq' \in [Transport -> Seq(RequestRecord)] /\ asked' \in [Transport -> Nat]
<1> DEFINE r == [type |-> type, sock |-> s, req |-> asked[p] + 1]
<1>1. r \in RequestRecord
  BY DEF RequestRecord, SockTypeOK
<1>2. Append(reqq[p], r) \in Seq(RequestRecord)
  BY <1>1, AppendProperties DEF SockTypeOK
<1> QED BY <1>2 DEF Record, SockTypeOK

----------------------------------------------------------------------------
(* The calls of the application *)

LEMMA OneSend ==
    ASSUME NEW m, NEW a \in Sends(m)
    PROVE  <<a>> \in Seq(Sends(m))
  OBVIOUS

LEMMA TwoSends ==
    ASSUME NEW m, NEW a \in Sends(m), NEW b \in Sends(m)
    PROVE  <<a, b>> \in Seq(Sends(m))
  OBVIOUS

LEMMA GoodRecordType ==
    ASSUME NEW status \in Status, NEW c \in Connection, NEW bin \in Nat, bin <= BIN_SIZE,
           NEW toApp \in BOOLEAN, toApp => c.protocol \in Transport
    PROVE  [status |-> status, connection |-> c, bin |-> bin, toApp |-> toApp] \in GoodRecord
  BY DEF GoodRecord, SockRecord

LEMMA GoodRecordFields ==
    ASSUME NEW r \in GoodRecord
    PROVE  /\ r = [status |-> r.status, connection |-> r.connection, bin |-> r.bin,
                   toApp |-> r.toApp]
           /\ r.status \in Status /\ r.connection \in Connection
           /\ r.bin \in Nat /\ r.bin <= BIN_SIZE /\ r.toApp \in BOOLEAN
           /\ r.toApp => r.connection.protocol \in Transport
  BY DEF GoodRecord, SockRecord

\* The updates of a record that the handlers make.
LEMMA StatusUpdate ==
    ASSUME NEW r \in GoodRecord, NEW stat \in Status
    PROVE  [r EXCEPT !.status = stat] \in GoodRecord
  BY DEF GoodRecord, SockRecord

LEMMA ConnectionUpdate ==
    ASSUME NEW r \in GoodRecord, NEW stat \in Status, NEW c \in Connection,
           r.toApp => c.protocol \in Transport
    PROVE  [r EXCEPT !.status = stat, !.connection = c] \in GoodRecord
  BY DEF GoodRecord, SockRecord

LEMMA OwnerUpdate ==
    ASSUME NEW r \in GoodRecord, NEW stat \in Status,
           NEW c \in Connection, c.protocol \in Transport
    PROVE  [r EXCEPT !.status = stat, !.connection = c, !.toApp = TRUE] \in GoodRecord
  BY DEF GoodRecord, SockRecord

LEMMA BinUpdate ==
    ASSUME NEW r \in GoodRecord, NEW n \in Nat, r.bin + n <= BIN_SIZE
    PROVE  [r EXCEPT !.bin = r.bin + n] \in GoodRecord
  BY DEF GoodRecord, SockRecord

LEMMA FreeRecordType == FreeRecord \in GoodRecord
  BY BinAssumption, SizeAssumption
  DEF FreeRecord, NoConnection, GoodRecord, SockRecord, Status, Connection, IPAddress, Port

\* The updates of a connection.
LEMMA ProtocolType ==
    ASSUME NEW c \in Connection, NEW q \in Transport
    PROVE  /\ [c EXCEPT !.protocol = q] \in Connection
           /\ [c EXCEPT !.protocol = q].protocol = q
  BY DEF Connection

LEMMA LocalEndType ==
    ASSUME NEW c \in Connection, NEW p \in Port
    PROVE  LocalEnd(c, p) \in Connection /\ LocalEnd(c, p).protocol = c.protocol
  BY DEF LocalEnd, Connection, IPAddress

LEMMA RemoteOpenType ==
    ASSUME NEW c \in Connection
    PROVE  RemoteOpen(c) \in Connection /\ RemoteOpen(c).protocol = c.protocol
<1>1. PORT_ANY \in Port /\ IP_ADDRESS_ANY \in IPAddress
  BY SizeAssumption DEF Port, IPAddress
<1> QED BY <1>1 DEF RemoteOpen, Connection

LEMMA SetStatusType ==
    ASSUME SockTypeOK, NEW s \in Sock, NEW stat \in Status
    PROVE  SetStatus(s, stat) \in [Sock -> GoodRecord]
  BY StatusUpdate DEF SetStatus, SockTypeOK

LEMMA CloseSocketType ==
    ASSUME SockTypeOK, NEW s \in Sock
    PROVE  CloseSocket(s) \in [Sock -> GoodRecord]
  BY FreeRecordType DEF CloseSocket, SockTypeOK

LEMMA SockTypeUnchanged ==
    ASSUME SockTypeOK, UNCHANGED sockVars
    PROVE  SockTypeOK'
  BY DEF SockTypeOK, sockVars

LEMMA RejectType ==
    ASSUME PipesOK, SockTypeOK, NEW type, AppCalls(type), NEW err \in Error, Reject(err)
    PROVE  PipesOK' /\ SockTypeOK'
<1>1. AppRequest \in SockLibRequestResponse /\ fifo["app2sock"] # <<>>
  BY AppRequestType
<1>2. Response(AppRequest.sockfd, err) \in Sends("sock")
  BY <1>1, ResponseSends DEF SockLibRequestResponse
<1>3. <<Response(AppRequest.sockfd, err)>> \in Seq(Sends("sock"))
  BY <1>2
<1>4. PipesOK'
  BY <1>1, <1>3, ReceiveType DEF Reject, Fifo
<1> QED BY <1>4, SockTypeUnchanged DEF Reject

\* A call that is answered by sends and leaves the tables well typed.
LEMMA AppStep ==
    ASSUME PipesOK, SockTypeOK, NEW type, AppCalls(type),
           socks' \in [Sock -> GoodRecord], ports' \in [Port -> Sock \cup {0}],
           reqq' \in [Transport -> Seq(RequestRecord)], asked' \in [Transport -> Nat],
           NEW sends, sends \in Seq(Sends("sock")), Receive("sock", "app2sock", sends)
    PROVE  PipesOK' /\ SockTypeOK'
<1>1. PipesOK'
  BY AppRequestType, ReceiveType DEF Fifo
<1>2. SockTypeOK'
  BY DEF SockTypeOK
<1> QED BY <1>1, <1>2

LEMMA SockSocketType ==
    ASSUME PipesOK, SockTypeOK, SockSocket
    PROVE  PipesOK' /\ SockTypeOK'
<1> DEFINE q == AppRequest.connection.protocol
<1>1. /\ AppCalls("mSOCKET") /\ AppRequest \in SockLibRequestResponse /\ q \in Transport
  BY AppRequestType DEF SockSocket
<1>2. CASE Reject("ERESOURCE_UNAVAIL")
  BY <1>1, <1>2, RejectType DEF Error
<1>3. ASSUME NEW s \in Sock,
             socks' = [socks EXCEPT ![s] =
                         [@ EXCEPT !.status = "UNBOUND",
                                   !.connection = [socks[s].connection EXCEPT !.protocol = q],
                                   !.toApp = TRUE]],
             Receive("sock", "app2sock", <<Response(s, "EOK")>>),
             UNCHANGED <<ports, reqq, asked>>
      PROVE  PipesOK' /\ SockTypeOK'
  <2> DEFINE c == [socks[s].connection EXCEPT !.protocol = q]
  <2>1. socks[s] \in GoodRecord
    BY DEF SockTypeOK
  <2>2. c \in Connection /\ c.protocol \in Transport
    BY <1>1, <2>1, GoodRecordFields, ProtocolType
  <2> HIDE DEF c
  <2>3. [socks[s] EXCEPT !.status = "UNBOUND", !.connection = c, !.toApp = TRUE] \in GoodRecord
    BY <2>1, <2>2, OwnerUpdate DEF Status
  <2>4. socks' \in [Sock -> GoodRecord]
    BY <1>3, <2>3 DEF SockTypeOK, c
  <2>5. <<Response(s, "EOK")>> \in Seq(Sends("sock"))
    BY <1>1, ResponseSends, OneSend DEF Error
  <2> QED BY <1>1, <1>3, <2>4, <2>5, AppStep DEF SockTypeOK
<1> QED BY <1>2, <1>3 DEF SockSocket

LEMMA AssignPortType ==
    ASSUME SockTypeOK, NEW p \in Port, NEW s \in Sock
    PROVE  AssignPort(p, s) \in [Port -> Sock \cup {0}]
  BY DEF AssignPort, SockTypeOK

LEMMA SockBindType ==
    ASSUME PipesOK, SockTypeOK, SockBind
    PROVE  PipesOK' /\ SockTypeOK'
<1> DEFINE s == AppRequest.sockfd
           bound(p) == LocalEnd(socks[s].connection, p)
<1>0. AppCalls("mBIND")
  BY Zenon DEF SockBind
<1>1. /\ AppCalls("mBIND") /\ AppRequest \in SockLibRequestResponse /\ s \in Sock
  BY <1>0, AppRequestType
<1>2. socks[s] \in GoodRecord
  BY <1>1 DEF SockTypeOK
<1>3. ASSUME NEW p \in Port
      PROVE  bound(p) \in Connection /\ bound(p).protocol = socks[s].connection.protocol
  BY <1>2, GoodRecordFields, LocalEndType
<1>4. CASE Reject("EINVALID_OP") \/ Reject("ERESOURCE_UNAVAIL")
  BY <1>1, <1>4, RejectType DEF Error
<1>5. ASSUME NEW p \in Port, socks[s].status = "UNBOUND", ports' = AssignPort(p, s),
             socks' = [socks EXCEPT ![s] = [@ EXCEPT !.connection = bound(p)]],
             bound(p).protocol = "udp", Record("udp", "FORWARD", s),
             Receive("sock", "app2sock", <<Request("udp", "FORWARD", bound(p), 0)>>)
      PROVE  PipesOK' /\ SockTypeOK'
  <2> HIDE DEF bound, s
  <2>1. [socks[s] EXCEPT !.connection = bound(p)] \in GoodRecord
    BY <1>2, <1>3, <1>5 DEF GoodRecord, SockRecord
  <2>2. socks' \in [Sock -> GoodRecord]
    BY <1>1, <1>5, <2>1 DEF SockTypeOK
  <2>3. <<Request("udp", "FORWARD", bound(p), 0)>> \in Seq(Sends("sock"))
    BY <1>3, RequestSends, OneSend DEF srrType, Transport
  <2>4. ports' \in [Port -> Sock \cup {0}]
    BY <1>1, <1>5, AssignPortType
  <2>5. reqq' \in [Transport -> Seq(RequestRecord)] /\ asked' \in [Transport -> Nat]
    BY <1>1, <1>5, RecordType DEF srrType, Transport
  <2> QED BY <1>1, <1>5, <2>2, <2>3, <2>4, <2>5, AppStep
<1>6. ASSUME NEW p \in Port, ports' = AssignPort(p, s),
             socks' = [socks EXCEPT ![s] = [@ EXCEPT !.status = "BOUND",
                                                   !.connection = bound(p)]],
             Receive("sock", "app2sock",
               <<ToApp([AppRequest EXCEPT !.type = "mSTATUS",
                          !.connection = LocalEnd(AppRequest.connection, p),
                          !.error = "EOK"])>>),
             UNCHANGED <<reqq, asked>>
      PROVE  PipesOK' /\ SockTypeOK'
  <2> DEFINE lc == LocalEnd(AppRequest.connection, p)
             r == [AppRequest EXCEPT !.type = "mSTATUS", !.connection = lc, !.error = "EOK"]
  <2>1. lc \in Connection
    BY <1>1, SlrrFields, LocalEndType
  <2>2. r \in SockLibRequestResponse
    BY <1>1, <2>1 DEF SockLibRequestResponse, slrrType, Error
  <2>3. <<ToApp(r)>> \in Seq(Sends("sock"))
    BY <2>2, ToAppSends, OneSend
  <2> HIDE DEF bound, s, r
  <2>4. [socks[s] EXCEPT !.status = "BOUND", !.connection = bound(p)] \in GoodRecord
    BY <1>2, <1>3, ConnectionUpdate, GoodRecordFields DEF Status
  <2>5. socks' \in [Sock -> GoodRecord]
    BY <1>1, <1>6, <2>4 DEF SockTypeOK
  <2>6. ports' \in [Port -> Sock \cup {0}]
    BY <1>1, <1>6, AssignPortType
  <2> QED BY <1>1, <1>6, <2>3, <2>5, <2>6, AppStep DEF SockTypeOK, r
<1> QED BY <1>4, <1>5, <1>6 DEF SockBind

LEMMA SockListenType ==
    ASSUME PipesOK, SockTypeOK, SockListen
    PROVE  PipesOK' /\ SockTypeOK'
<1> DEFINE s == AppRequest.sockfd
           c == RemoteOpen(socks[s].connection)
<1>1. AppCalls("mLISTEN")
  BY Zenon DEF SockListen
<1>2. /\ AppRequest \in SockLibRequestResponse /\ fifo["app2sock"] # <<>>
      /\ s \in Sock /\ socks[s] \in GoodRecord
  BY <1>1, AppRequestType DEF SockTypeOK
<1>3. c \in Connection /\ c.protocol = socks[s].connection.protocol
  BY <1>2, GoodRecordFields, RemoteOpenType
<1>4. CASE Reject("EINVALID_OP")
  BY <1>1, <1>4, RejectType DEF Error
<1>5. CASE /\ Receive("sock", "app2sock", <<Response(0, "ENOT_SUPPORTED")>>)
           /\ UNCHANGED sockVars
  <2>1. <<Response(0, "ENOT_SUPPORTED")>> \in Seq(Sends("sock"))
    BY <1>2, ResponseSends, OneSend DEF Error
  <2> QED BY <1>2, <1>5, <2>1, ReceiveType, SockTypeUnchanged DEF Fifo
<1>6. CASE /\ socks[s].toApp
           /\ socks' = [socks EXCEPT ![s] = [@ EXCEPT !.status = "LISTENING",
                                                     !.connection = c]]
           /\ Receive("sock", "app2sock", <<Response(s, "EOK")>>)
           /\ UNCHANGED <<ports, reqq, asked>>
  <2> HIDE DEF c, s
  <2>1. socks[s].connection.protocol \in Transport
    BY <1>2, <1>6, GoodRecordFields
  <2>2. [socks[s] EXCEPT !.status = "LISTENING", !.connection = c] \in GoodRecord
    BY <1>2, <1>3, <2>1, ConnectionUpdate DEF Status, Transport
  <2>3. socks' \in [Sock -> GoodRecord]
    BY <1>6, <2>2 DEF SockTypeOK
  <2>4. <<Response(s, "EOK")>> \in Seq(Sends("sock"))
    BY <1>2, ResponseSends, OneSend DEF Error
  <2> QED BY <1>1, <1>6, <2>3, <2>4, AppStep DEF SockTypeOK
<1> QED BY <1>4, <1>5, <1>6 DEF SockListen

LEMMA SockAcceptType ==
    ASSUME PipesOK, SockTypeOK, SockAccept
    PROVE  PipesOK' /\ SockTypeOK'
<1> DEFINE s == AppRequest.sockfd
<1>1. AppCalls("mACCEPT")
  BY Zenon DEF SockAccept
<1>2. s \in Sock /\ socks[s] \in GoodRecord
  BY <1>1, AppRequestType DEF SockTypeOK
<1>3. CASE Reject("EINVALID_OP")
  BY <1>1, <1>3, RejectType DEF Error
<1>4. CASE /\ socks[s].toApp
           /\ socks' = SetStatus(s, "ACCEPT_PENDING")
           /\ Record("tcp", "ACCEPT", s)
           /\ Receive("sock", "app2sock",
                      <<Request("tcp", "ACCEPT", socks[s].connection, 0)>>)
           /\ UNCHANGED ports
  <2>1. socks[s].connection \in Connection /\ socks[s].connection.protocol \in Transport
    BY <1>2, <1>4, GoodRecordFields
  <2>2. <<Request("tcp", "ACCEPT", socks[s].connection, 0)>> \in Seq(Sends("sock"))
    BY <2>1, RequestSends, OneSend DEF srrType, Transport
  <2>3. socks' \in [Sock -> GoodRecord]
    BY <1>2, <1>4, <2>1, SetStatusType DEF Status
  <2>4. reqq' \in [Transport -> Seq(RequestRecord)] /\ asked' \in [Transport -> Nat]
    BY <1>2, <1>4, RecordType DEF srrType, Transport
  <2> QED BY <1>1, <1>4, <2>2, <2>3, <2>4, AppStep DEF SockTypeOK
<1> QED BY <1>3, <1>4 DEF SockAccept

LEMMA SockConnectType ==
    ASSUME PipesOK, SockTypeOK, SockConnect
    PROVE  PipesOK' /\ SockTypeOK'
<1> DEFINE s == AppRequest.sockfd
           c == AppRequest.connection
           proto == socks[s].connection.protocol
           src == IF socks[s].status = "BOUND" THEN socks[s].connection.src ELSE MyIPAddr
           full(p) == [src |-> src, srcport |-> p, dest |-> c.dest,
                       destport |-> c.destport, protocol |-> proto]
           stat == IF proto = "udp" THEN "CONNECTED" ELSE "CONNECT_PENDING"
           type == IF proto = "udp" THEN "FORWARD" ELSE "CONNECT"
<1>1. AppCalls("mCONNECT")
  BY Zenon DEF SockConnect
<1>2. /\ s \in Sock /\ socks[s] \in GoodRecord
      /\ AppRequest \in SockLibRequestResponse
  BY <1>1, AppRequestType DEF SockTypeOK
<1>3. CASE Reject("EINVALID_OP") \/ Reject("ERESOURCE_UNAVAIL")
  BY <1>1, <1>3, RejectType DEF Error
<1>4. ASSUME socks[s].toApp, NEW p \in Port, SourcePort(s, c, p),
             socks' = [socks EXCEPT ![s] = [@ EXCEPT !.status = stat, !.connection = full(p)]],
             Record(proto, type, s),
             Receive("sock", "app2sock", <<Request(proto, type, full(p), 0)>>)
      PROVE  PipesOK' /\ SockTypeOK'
  <2>1. proto \in Transport
    BY <1>2, <1>4, GoodRecordFields
  <2>2. full(p) \in Connection /\ full(p).protocol = proto
    BY <1>2, <2>1, GoodRecordFields, SlrrFields DEF Connection, IPAddress
  <2>3. /\ stat \in Status
        /\ type \in srrType \ {"STATUS"}
    BY DEF Status, srrType
  <2>4. ports' \in [Port -> Sock \cup {0}]
    BY <1>2, <1>4, AssignPortType DEF SourcePort, SockTypeOK
  <2>5. reqq' \in [Transport -> Seq(RequestRecord)] /\ asked' \in [Transport -> Nat]
    BY <1>2, <1>4, <2>1, <2>3, RecordType
  <2>6. <<Request(proto, type, full(p), 0)>> \in Seq(Sends("sock"))
    BY <2>1, <2>2, <2>3, RequestSends, OneSend
  <2> HIDE DEF full, stat, proto, s
  <2>7. [socks[s] EXCEPT !.status = stat, !.connection = full(p)] \in GoodRecord
    BY <1>2, <2>1, <2>2, <2>3, ConnectionUpdate
  <2>8. socks' \in [Sock -> GoodRecord]
    BY <1>2, <1>4, <2>7 DEF SockTypeOK
  <2> QED BY <1>1, <1>4, <2>4, <2>5, <2>6, <2>8, AppStep
<1> QED BY <1>3, <1>4 DEF SockConnect

LEMMA SockReadType ==
    ASSUME PipesOK, SockTypeOK, SockRead
    PROVE  PipesOK' /\ SockTypeOK'
<1> DEFINE s == AppRequest.sockfd
           Answer(n, err) == [AppRequest EXCEPT !.type = "mSTATUS", !.data = n, !.error = err]
<1>1. AppCalls("mREAD")
  BY Zenon DEF SockRead
<1>2. /\ s \in Sock /\ socks[s] \in GoodRecord /\ fifo["app2sock"] # <<>>
      /\ AppRequest \in SockLibRequestResponse
  BY <1>1, AppRequestType DEF SockTypeOK
<1>3. ASSUME NEW n \in Nat, NEW err \in Error
      PROVE  <<ToApp(Answer(n, err))>> \in Seq(Sends("sock"))
  <2>1. Answer(n, err) \in SockLibRequestResponse
    BY <1>2 DEF SockLibRequestResponse, slrrType
  <2> QED BY <2>1, ToAppSends, OneSend
<1>4. ASSUME NEW n \in Nat, NEW err \in Error, UNCHANGED sockVars,
             Receive("sock", "app2sock", <<ToApp(Answer(n, err))>>)
      PROVE  PipesOK' /\ SockTypeOK'
  BY <1>2, <1>3, <1>4, ReceiveType, SockTypeUnchanged DEF Fifo
<1>5. CASE /\ socks' = SetStatus(s, "READ_PENDING")
           /\ Receive("sock", "app2sock", <<>>)
           /\ UNCHANGED <<ports, reqq, asked>>
  <2>1. socks' \in [Sock -> GoodRecord]
    BY <1>2, <1>5, SetStatusType DEF Status
  <2>2. <<>> \in Seq(Sends("sock"))
    OBVIOUS
  <2> QED BY <1>1, <1>5, <2>1, <2>2, AppStep DEF SockTypeOK
<1>6. 0 \in Nat /\ socks[s].bin \in Nat /\ {"EOK", "EINVALID_OP"} \subseteq Error
  BY <1>2, GoodRecordFields DEF Error
<1> QED BY <1>4, <1>5, <1>6 DEF SockRead

LEMMA SockWriteType ==
    ASSUME PipesOK, SockTypeOK, SockWrite
    PROVE  PipesOK' /\ SockTypeOK'
<1> DEFINE s == AppRequest.sockfd
           c == socks[s].connection
<1>1. AppCalls("mWRITE")
  BY Zenon DEF SockWrite
<1>2. /\ s \in Sock /\ socks[s] \in GoodRecord
      /\ AppRequest \in SockLibRequestResponse
  BY <1>1, AppRequestType DEF SockTypeOK
<1>3. CASE Reject("EINVALID_OP")
  BY <1>1, <1>3, RejectType DEF Error
<1>4. CASE /\ socks[s].toApp
           /\ socks' = SetStatus(s, "WRITE_PENDING")
           /\ Record(c.protocol, "WRITE", s)
           /\ Receive("sock", "app2sock",
                      <<Request(c.protocol, "WRITE", c, AppRequest.data)>>)
           /\ UNCHANGED ports
  <2>1. c \in Connection /\ c.protocol \in Transport /\ AppRequest.data \in Nat
    BY <1>2, <1>4, GoodRecordFields, SlrrFields
  <2>2. <<Request(c.protocol, "WRITE", c, AppRequest.data)>> \in Seq(Sends("sock"))
    BY <2>1, RequestSends, OneSend DEF srrType
  <2>3. socks' \in [Sock -> GoodRecord]
    BY <1>2, <1>4, SetStatusType DEF Status
  <2>4. reqq' \in [Transport -> Seq(RequestRecord)] /\ asked' \in [Transport -> Nat]
    BY <1>2, <1>4, <2>1, RecordType DEF srrType
  <2> QED BY <1>1, <1>4, <2>2, <2>3, <2>4, AppStep DEF SockTypeOK
<1> QED BY <1>3, <1>4 DEF SockWrite

LEMMA SockCloseType ==
    ASSUME PipesOK, SockTypeOK, SockClose
    PROVE  PipesOK' /\ SockTypeOK'
<1> DEFINE s == AppRequest.sockfd
           c == socks[s].connection
           sends == <<Request(c.protocol, "CLOSE", c, AppRequest.data), Response(s, "EOK")>>
<1>1. AppCalls("mCLOSE")
  BY Zenon DEF SockClose
<1>2. /\ s \in Sock /\ socks[s] \in GoodRecord
      /\ AppRequest \in SockLibRequestResponse
  BY <1>1, AppRequestType DEF SockTypeOK
<1>3. CASE Reject("EINVALID_OP")
  BY <1>1, <1>3, RejectType DEF Error
<1>4. CASE /\ socks[s].toApp
           /\ socks' = CloseSocket(s)
           /\ Record(c.protocol, "CLOSE", s)
           /\ Receive("sock", "app2sock", sends)
           /\ UNCHANGED ports
  <2>1. c \in Connection /\ c.protocol \in Transport /\ AppRequest.data \in Nat
    BY <1>2, <1>4, GoodRecordFields, SlrrFields
  <2>2. Request(c.protocol, "CLOSE", c, AppRequest.data) \in Sends("sock")
    BY <2>1, RequestSends DEF srrType
  <2>3. Response(s, "EOK") \in Sends("sock")
    BY <1>2, ResponseSends DEF Error
  <2>4. sends \in Seq(Sends("sock"))
    BY <2>2, <2>3, TwoSends
  <2>5. socks' \in [Sock -> GoodRecord]
    BY <1>2, <1>4, CloseSocketType
  <2>6. reqq' \in [Transport -> Seq(RequestRecord)] /\ asked' \in [Transport -> Nat]
    BY <1>2, <1>4, <2>1, RecordType DEF srrType
  <2> HIDE DEF sends
  <2> QED BY <1>1, <1>4, <2>4, <2>5, <2>6, AppStep DEF SockTypeOK
<1> QED BY <1>3, <1>4 DEF SockClose

LEMMA SockServesAppType ==
    ASSUME PipesOK, SockTypeOK, SockServesApp
    PROVE  PipesOK' /\ SockTypeOK'
<1>1. CASE SockOther
  BY <1>1, RejectType DEF SockOther, Error
<1> QED BY <1>1, SockSocketType, SockBindType, SockListenType, SockAcceptType,
           SockConnectType, SockReadType, SockWriteType, SockCloseType
        DEF SockServesApp

----------------------------------------------------------------------------
(* The messages of the transport modules *)

\* A message that is answered by sends and changes at most the records.
LEMMA MessageStep ==
    ASSUME PipesOK, SockTypeOK, NEW p \in Transport, NEW type, LowerSends(p, type),
           socks' \in [Sock -> GoodRecord], ports' = ports, asked' = asked,
           reqq' \in [Transport -> Seq(RequestRecord)],
           NEW sends, sends \in Seq(Sends("sock")), Receive("sock", UpperPipe[p], sends)
    PROVE  PipesOK' /\ SockTypeOK'
<1>1. PipesOK'
  BY MessageType, ReceiveType
<1>2. SockTypeOK'
  BY DEF SockTypeOK
<1> QED BY <1>1, <1>2

\* The fields of the message, and what it can be answered with.
LEMMA MessageSends ==
    ASSUME PipesOK, NEW p \in Transport, NEW type, LowerSends(p, type)
    PROVE  /\ Message(p).connection \in Connection
           /\ Message(p).data \in Nat /\ Message(p).bytes \in Nat
           /\ \A data, bytes \in Nat, err \in Error : Ack(p, data, bytes, err) \in Sends("sock")
           /\ \A fd \in Sock : AppMessage(p, fd) \in Sends("sock")
<1>1. /\ Message(p) \in SockRequestResponse
      /\ p = "tcp" => Message(p).connection.protocol \in Transport
  BY MessageType
<1>2. /\ Message(p).connection \in Connection
      /\ Message(p).data \in Nat /\ Message(p).bytes \in Nat
  BY <1>1 DEF SockRequestResponse
<1> QED BY <1>1, <1>2, AckSends, AppMessageSends

LEMMA WriteNoMatchType ==
    ASSUME PipesOK, SockTypeOK, NEW p \in Transport, WriteNoMatch(p)
    PROVE  PipesOK' /\ SockTypeOK'
<1>1. LowerSends(p, "WRITE")
  BY DEF WriteNoMatch
<1>2. <<Ack(p, Message(p).data, 0, "ENOMATCH")>> \in Seq(Sends("sock"))
  BY <1>1, MessageSends, OneSend DEF Error
<1> QED BY <1>1, <1>2, MessageStep DEF WriteNoMatch, sockVars, SockTypeOK

LEMMA WriteRefusedType ==
    ASSUME PipesOK, SockTypeOK, NEW p \in Transport, WriteRefused(p)
    PROVE  PipesOK' /\ SockTypeOK'
<1>1. LowerSends(p, "WRITE")
  BY DEF WriteRefused
<1>2. <<Ack(p, Message(p).data, Message(p).bytes, "EINVALID_OP")>> \in Seq(Sends("sock"))
  BY <1>1, MessageSends, OneSend DEF Error
<1> QED BY <1>1, <1>2, MessageStep DEF WriteRefused, sockVars, SockTypeOK

LEMMA WriteBufferedType ==
    ASSUME PipesOK, SockTypeOK, NEW p \in Transport, WriteBuffered(p)
    PROVE  PipesOK' /\ SockTypeOK'
<1> DEFINE err(s) == IF Taken(p, s) > 0 THEN "EOK" ELSE "EBUF_SPACE"
<1>1. PICK s \in Sock :
        /\ WriteFor(p, s, "CONNECTED")
        /\ socks' = [socks EXCEPT ![s] = [@ EXCEPT !.bin = socks[s].bin + Taken(p, s)]]
        /\ Receive("sock", UpperPipe[p], <<Ack(p, 0, Taken(p, s), err(s))>>)
        /\ UNCHANGED <<ports, reqq, asked>>
  BY DEF WriteBuffered
<1>2. LowerSends(p, "WRITE")
  BY <1>1 DEF WriteFor
<1>3. socks[s] \in GoodRecord
  BY DEF SockTypeOK
<1>4. Taken(p, s) \in Nat /\ socks[s].bin + Taken(p, s) <= BIN_SIZE
  BY <1>2, <1>3, MessageSends, GoodRecordFields, BinAssumption DEF Smaller, Taken
<1>5. err(s) \in Error
  BY DEF Error
<1> HIDE DEF err
<1>6. <<Ack(p, 0, Taken(p, s), err(s))>> \in Seq(Sends("sock"))
  BY <1>2, <1>4, <1>5, MessageSends, OneSend
<1>7. [socks[s] EXCEPT !.bin = socks[s].bin + Taken(p, s)] \in GoodRecord
  BY <1>3, <1>4, BinUpdate
<1>8. socks' \in [Sock -> GoodRecord]
  BY <1>1, <1>7 DEF SockTypeOK
<1> QED BY <1>1, <1>2, <1>6, <1>8, MessageStep DEF SockTypeOK

LEMMA WriteReadType ==
    ASSUME PipesOK, SockTypeOK, NEW p \in Transport, WriteRead(p)
    PROVE  PipesOK' /\ SockTypeOK'
<1>1. PICK s \in Sock :
        /\ WriteFor(p, s, "READ_PENDING")
        /\ socks' = SetStatus(s, "CONNECTED")
        /\ Receive("sock", UpperPipe[p],
             <<AppMessage(p, s), Ack(p, 0, Message(p).data, "EOK")>>)
        /\ UNCHANGED <<ports, reqq, asked>>
  BY DEF WriteRead
<1>2. LowerSends(p, "WRITE")
  BY <1>1 DEF WriteFor
<1>3. <<AppMessage(p, s), Ack(p, 0, Message(p).data, "EOK")>> \in Seq(Sends("sock"))
  BY <1>2, MessageSends, TwoSends DEF Error
<1>4. socks' \in [Sock -> GoodRecord]
  BY <1>1, SetStatusType DEF Status
<1> QED BY <1>1, <1>2, <1>3, <1>4, MessageStep DEF SockTypeOK

\* The messages that the application and the TCP module are sent together.
LEMMA AppAndAck ==
    ASSUME PipesOK, LowerSends("tcp", "WRITE"), NEW fd \in Sock
    PROVE  <<AppMessage("tcp", fd),
             Ack("tcp", Message("tcp").data, Message("tcp").bytes, "EOK")>>
           \in Seq(Sends("sock"))
  BY MessageSends, TwoSends DEF Error, Transport

LEMMA AcceptPending ==
    ASSUME SockTypeOK, NEW s \in Sock, WriteFor("tcp", s, "ACCEPT_PENDING")
    PROVE  /\ LowerSends("tcp", "WRITE")
           /\ SetStatus(s, "LISTENING") \in [Sock -> GoodRecord]
  BY SetStatusType DEF WriteFor, Status

LEMMA WriteAcceptFailedType ==
    ASSUME PipesOK, SockTypeOK, WriteAcceptFailed
    PROVE  PipesOK' /\ SockTypeOK'
<1>1. PICK s \in Sock :
        /\ WriteFor("tcp", s, "ACCEPT_PENDING")
        /\ socks' = SetStatus(s, "LISTENING")
        /\ Receive("sock", UpperPipe["tcp"],
             <<AppMessage("tcp", s),
               Ack("tcp", Message("tcp").data, Message("tcp").bytes, "EOK")>>)
        /\ UNCHANGED <<ports, reqq, asked>>
  BY DEF WriteAcceptFailed
<1>2. LowerSends("tcp", "WRITE") /\ socks' \in [Sock -> GoodRecord]
  BY <1>1, AcceptPending
<1> QED BY <1>1, <1>2, AppAndAck, MessageStep DEF SockTypeOK, Transport

LEMMA WriteAcceptedType ==
    ASSUME PipesOK, SockTypeOK, WriteAccepted
    PROVE  PipesOK' /\ SockTypeOK'
<1> DEFINE c == Message("tcp").connection
<1>1. PICK s, new \in Sock :
        /\ WriteFor("tcp", s, "ACCEPT_PENDING")
        /\ socks' = [SetStatus(s, "LISTENING") EXCEPT ![new] =
                       [@ EXCEPT !.status = "CONNECTED", !.toApp = TRUE, !.connection = c]]
        /\ Receive("sock", UpperPipe["tcp"],
             <<AppMessage("tcp", new),
               Ack("tcp", Message("tcp").data, Message("tcp").bytes, "EOK")>>)
        /\ UNCHANGED <<ports, reqq, asked>>
  BY DEF WriteAccepted
<1> DEFINE listens == SetStatus(s, "LISTENING")
<1>2. LowerSends("tcp", "WRITE") /\ listens \in [Sock -> GoodRecord]
  BY <1>1, AcceptPending
<1>3. c \in Connection /\ c.protocol \in Transport
  BY <1>2, MessageSends, MessageType DEF Transport
<1> HIDE DEF c, listens
<1>4. [listens[new] EXCEPT !.status = "CONNECTED", !.toApp = TRUE, !.connection = c]
      = [listens[new] EXCEPT !.status = "CONNECTED", !.connection = c, !.toApp = TRUE]
  BY <1>2, GoodRecordFields
<1>5. [listens[new] EXCEPT !.status = "CONNECTED", !.connection = c, !.toApp = TRUE]
      \in GoodRecord
  BY <1>2, <1>3, OwnerUpdate DEF Status
<1>6. socks' = [listens EXCEPT ![new] =
                 [@ EXCEPT !.status = "CONNECTED", !.toApp = TRUE, !.connection = c]]
  BY <1>1 DEF listens
<1>7. socks' \in [Sock -> GoodRecord]
  BY <1>2, <1>4, <1>5, <1>6
<1> QED BY <1>1, <1>2, <1>7, AppAndAck, MessageStep DEF SockTypeOK, Transport

LEMMA WriteAcceptNoSockType ==
    ASSUME PipesOK, SockTypeOK, WriteAcceptNoSock
    PROVE  PipesOK' /\ SockTypeOK'
<1> DEFINE ack == Ack("tcp", Message("tcp").data, Message("tcp").bytes, "ERESOURCE_UNAVAIL")
<1>1. PICK s \in Sock :
        /\ WriteFor("tcp", s, "ACCEPT_PENDING")
        /\ socks' = SetStatus(s, "LISTENING")
        /\ Receive("sock", UpperPipe["tcp"], <<ack>>)
        /\ UNCHANGED <<ports, reqq, asked>>
  BY DEF WriteAcceptNoSock
<1>2. LowerSends("tcp", "WRITE") /\ socks' \in [Sock -> GoodRecord]
  BY <1>1, AcceptPending
<1>3. <<ack>> \in Seq(Sends("sock"))
  BY <1>2, MessageSends, OneSend DEF Error, Transport
<1> QED BY <1>1, <1>2, <1>3, MessageStep DEF SockTypeOK, Transport

LEMMA WriteConnectedType ==
    ASSUME PipesOK, SockTypeOK, WriteConnected
    PROVE  PipesOK' /\ SockTypeOK'
<1> DEFINE c == Message("tcp").connection
           connected(s) == [socks EXCEPT ![s] = [@ EXCEPT !.status = "CONNECTED",
                                                         !.connection = c]]
<1>1. PICK s \in Sock :
        /\ WriteFor("tcp", s, "CONNECT_PENDING")
        /\ socks' = IF Message("tcp").error # "EOK" THEN CloseSocket(s) ELSE connected(s)
        /\ Receive("sock", UpperPipe["tcp"],
             <<AppMessage("tcp", s),
               Ack("tcp", Message("tcp").data, Message("tcp").bytes, "EOK")>>)
        /\ UNCHANGED <<ports, reqq, asked>>
  BY DEF WriteConnected
<1>2. LowerSends("tcp", "WRITE")
  BY <1>1 DEF WriteFor
<1>3. c \in Connection /\ c.protocol \in Transport
  BY <1>2, MessageSends, MessageType DEF Transport
<1> HIDE DEF c
<1>4. [socks[s] EXCEPT !.status = "CONNECTED", !.connection = c] \in GoodRecord
  BY <1>3, ConnectionUpdate DEF SockTypeOK, Status
<1>5. connected(s) \in [Sock -> GoodRecord] /\ CloseSocket(s) \in [Sock -> GoodRecord]
  BY <1>4, CloseSocketType DEF SockTypeOK
<1>6. socks' \in [Sock -> GoodRecord]
  BY <1>1, <1>5
<1> QED BY <1>1, <1>2, <1>6, AppAndAck, MessageStep DEF SockTypeOK, Transport

\* A STATUS takes the head of its queue.
LEMMA StatusForType ==
    ASSUME SockTypeOK, NEW p \in Transport, NEW type, StatusFor(p, type)
    PROVE  /\ LowerSends(p, "STATUS")
           /\ Head(reqq[p]).sock \in Sock
           /\ reqq' \in [Transport -> Seq(RequestRecord)]
           /\ ports' = ports /\ asked' = asked
<1>1. reqq[p] \in Seq(RequestRecord) /\ reqq[p] # <<>>
  BY DEF SockTypeOK, StatusFor
<1>2. Head(reqq[p]) \in RequestRecord /\ Tail(reqq[p]) \in Seq(RequestRecord)
  BY <1>1, HeadTailProperties
<1> QED BY <1>2 DEF StatusFor, SockTypeOK, RequestRecord

LEMMA UDPStatusAnswersType ==
    ASSUME PipesOK, SockTypeOK, UDPStatusAnswers
    PROVE  PipesOK' /\ SockTypeOK'
<1> DEFINE s == Head(reqq["udp"]).sock
           stat == IF HasPeer(s) THEN "CONNECTED" ELSE "BOUND"
<1>1. PICK type \in {"FORWARD", "WRITE"} :
        /\ StatusFor("udp", type)
        /\ socks' = IF type = "FORWARD" /\ Message("udp").error # "EOK"
                      THEN CloseSocket(s) ELSE SetStatus(s, stat)
        /\ Receive("sock", UpperPipe["udp"], <<AppMessage("udp", s)>>)
  BY DEF UDPStatusAnswers
<1>2. /\ LowerSends("udp", "STATUS") /\ s \in Sock
      /\ reqq' \in [Transport -> Seq(RequestRecord)] /\ ports' = ports /\ asked' = asked
  BY <1>1, StatusForType DEF Transport
<1>3. CloseSocket(s) \in [Sock -> GoodRecord] /\ SetStatus(s, stat) \in [Sock -> GoodRecord]
  BY <1>2, CloseSocketType, SetStatusType DEF Status
<1>4. <<AppMessage("udp", s)>> \in Seq(Sends("sock"))
  BY <1>2, MessageSends, OneSend DEF Transport
<1>5. socks' \in [Sock -> GoodRecord]
  BY <1>1, <1>3
<1> QED BY <1>1, <1>2, <1>4, <1>5, MessageStep DEF Transport

LEMMA TCPStatusAnswersType ==
    ASSUME PipesOK, SockTypeOK, TCPStatusAnswers
    PROVE  PipesOK' /\ SockTypeOK'
<1> DEFINE s == Head(reqq["tcp"]).sock
<1>1. PICK type \in {"CONNECT", "ACCEPT", "WRITE"} :
        /\ StatusFor("tcp", type)
        /\ socks' = CASE type = "CONNECT" -> CloseSocket(s)
                       [] type = "ACCEPT"  -> SetStatus(s, "LISTENING")
                       [] type = "WRITE"   -> SetStatus(s, "CONNECTED")
        /\ Receive("sock", UpperPipe["tcp"], <<AppMessage("tcp", s)>>)
  BY DEF TCPStatusAnswers
<1>2. /\ LowerSends("tcp", "STATUS") /\ s \in Sock
      /\ reqq' \in [Transport -> Seq(RequestRecord)] /\ ports' = ports /\ asked' = asked
  BY <1>1, StatusForType DEF Transport
<1>4. socks' \in [Sock -> GoodRecord]
  BY <1>1, <1>2, CloseSocketType, SetStatusType DEF Status
<1>5. <<AppMessage("tcp", s)>> \in Seq(Sends("sock"))
  BY <1>2, MessageSends, OneSend DEF Transport
<1> QED BY <1>1, <1>2, <1>4, <1>5, MessageStep DEF Transport

LEMMA StatusIgnoredType ==
    ASSUME PipesOK, SockTypeOK, NEW p \in Transport, NEW type, StatusFor(p, type),
           Receive("sock", UpperPipe[p], <<>>), socks' = socks
    PROVE  PipesOK' /\ SockTypeOK'
<1>1. /\ LowerSends(p, "STATUS") /\ ports' = ports /\ asked' = asked
      /\ reqq' \in [Transport -> Seq(RequestRecord)]
  BY StatusForType
<1>2. <<>> \in Seq(Sends("sock"))
  OBVIOUS
<1> QED BY <1>1, <1>2, MessageStep DEF SockTypeOK

LEMMA SockNextType ==
    ASSUME PipesOK, SockTypeOK, SockNext
    PROVE  PipesOK' /\ SockTypeOK'
<1>1. CASE SockServesApp
  BY <1>1, SockServesAppType
<1>2. CASE SockServesUDP
  <2>1. CASE UDPStatusIgnored
    BY <2>1, StatusIgnoredType DEF UDPStatusIgnored, Transport
  <2> QED BY <1>2, <2>1, WriteNoMatchType, WriteBufferedType, WriteReadType,
             WriteRefusedType, UDPStatusAnswersType
          DEF SockServesUDP, Transport
<1>3. CASE SockServesTCP
  <2>1. CASE TCPStatusIgnored
    BY <2>1, StatusIgnoredType DEF TCPStatusIgnored, Transport
  <2> QED BY <1>3, <2>1, WriteNoMatchType, WriteBufferedType, WriteReadType,
             WriteRefusedType, WriteAcceptFailedType, WriteAcceptedType,
             WriteAcceptNoSockType, WriteConnectedType, TCPStatusAnswersType
          DEF SockServesTCP, Transport
<1> QED BY <1>1, <1>2, <1>3 DEF SockNext

----------------------------------------------------------------------------
(* The UDP module *)

UdpTypeOK == PipesOK /\ clist \in Seq(Connection)

LEMMA ArrivalType ==
    ASSUME PipesOK, GetNextEvent("udp", UdpHandles, "ipmux2udp")
    PROVE  /\ fifo["ipmux2udp"] # <<>> /\ Arrival \in Connection
           /\ Head(fifo["ipmux2udp"]).data \in Nat
<1>1. fifo["ipmux2udp"] # <<>>
  BY DEF GetNextEvent
<1>2. Head(fifo["ipmux2udp"]) \in MessageOf("ipmux2udp")
  BY <1>1, HeadTailProperties DEF PipesOK, Fifo
<1>3. Head(fifo["ipmux2udp"]) \in Datagram
  BY <1>2 DEF MessageOf
<1> QED BY <1>1, <1>3 DEF Datagram, Arrival, Connection, IPAddress, Transport

LEMMA SockRequestType ==
    ASSUME PipesOK, NEW type, UdpAsked(type)
    PROVE  /\ fifo["sock2udp"] # <<>> /\ SockRequest \in SockRequestResponse
           /\ SockRequest.connection \in Connection
           /\ SockRequest.data \in Nat /\ SockRequest.req \in Nat
<1>1. fifo["sock2udp"] # <<>>
  BY DEF UdpAsked, GetNextEvent
<1>2. SockRequest \in MessageOf("sock2udp")
  BY <1>1, HeadTailProperties DEF PipesOK, Fifo, SockRequest
<1>3. SockRequest \in SockRequestResponse
  BY <1>2 DEF MessageOf
<1> QED BY <1>1, <1>3 DEF SockRequestResponse

LEMMA ToMuxSends ==
    ASSUME NEW kind \in {"udp", "icmp"}, NEW c \in Connection, NEW n \in Nat
    PROVE  ToMux([kind |-> kind, connection |-> c, data |-> n]) \in Sends("udp")
  BY DEF ToMux, Sends, SendTo, MessageOf, Outgoing

LEMMA ToSockSends ==
    ASSUME NEW r \in SockRequestResponse
    PROVE  ToSock(r) \in Sends("udp")
  BY DEF ToSock, Sends, SendTo, MessageOf

LEMMA UdpStatusSends ==
    ASSUME PipesOK, NEW type, UdpAsked(type), NEW bytes \in Nat, NEW err \in Error
    PROVE  UdpStatus(bytes, err) \in Sends("udp")
<1> DEFINE r == [type |-> "STATUS", connection |-> SockRequest.connection, data |-> 0,
                 bytes |-> bytes, error |-> err, req |-> SockRequest.req]
<1>1. r \in SockRequestResponse
  BY SockRequestType DEF SockRequestResponse, srrType
<1> QED BY <1>1, ToSockSends DEF UdpStatus

LEMMA RemoveAtType ==
    ASSUME NEW S, NEW seq \in Seq(S), NEW i \in DOMAIN seq
    PROVE  RemoveAt(seq, i) \in Seq(S)
<1>1. DOMAIN seq = 1 .. Len(seq) /\ Len(seq) \in Nat /\ \A j \in 1 .. Len(seq) : seq[j] \in S
  BY LenProperties, ElementOfSeq
<1>2. SubSeq(seq, 1, i - 1) \in Seq(S)
  BY <1>1, SubSeqProperties
<1>3. SubSeq(seq, i + 1, Len(seq)) \in Seq(S)
  BY <1>1, SubSeqProperties
<1> QED BY <1>2, <1>3, ConcatProperties DEF RemoveAt

LEMMA UdpStep ==
    ASSUME UdpTypeOK, NEW f \in {"ipmux2udp", "sock2udp"}, fifo[f] # <<>>,
           clist' \in Seq(Connection),
           NEW sends, sends \in Seq(Sends("udp")), Receive("udp", f, sends)
    PROVE  UdpTypeOK'
  BY ReceiveType DEF UdpTypeOK, Fifo

LEMMA UdpForwardsType ==
    ASSUME UdpTypeOK, UdpForwards
    PROVE  UdpTypeOK'
<1> DEFINE len == Head(fifo["ipmux2udp"]).data
           r(i) == [type |-> "WRITE", connection |-> clist[i], data |-> len,
                    bytes |-> len, error |-> "EOK", req |-> 0]
<1>1. PICK i \in DOMAIN clist : Receive("udp", "ipmux2udp", <<ToSock(r(i))>>)
  BY DEF UdpForwards
<1>2. fifo["ipmux2udp"] # <<>> /\ len \in Nat
  BY ArrivalType DEF UdpTypeOK, UdpForwards
<1>3. clist[i] \in Connection
  BY DEF UdpTypeOK
<1>4. r(i) \in SockRequestResponse
  BY <1>2, <1>3 DEF SockRequestResponse, srrType, Error
<1>5. <<ToSock(r(i))>> \in Seq(Sends("udp"))
  BY <1>4, ToSockSends, OneSend
<1> QED BY <1>1, <1>2, <1>5, UdpStep DEF UdpForwards, UdpTypeOK

LEMMA UdpUnreachableType ==
    ASSUME UdpTypeOK, UdpUnreachable
    PROVE  UdpTypeOK'
<1> DEFINE r == [kind |-> "icmp", connection |-> Arrival, data |-> Head(fifo["ipmux2udp"]).data]
<1>1. /\ fifo["ipmux2udp"] # <<>> /\ Arrival \in Connection
      /\ Head(fifo["ipmux2udp"]).data \in Nat
  BY ArrivalType DEF UdpTypeOK, UdpUnreachable
<1>2. <<ToMux(r)>> \in Seq(Sends("udp"))
  BY <1>1, ToMuxSends, OneSend
<1> QED BY <1>1, <1>2, UdpStep DEF UdpUnreachable, UdpTypeOK

LEMMA UdpWritesType ==
    ASSUME UdpTypeOK, UdpWrites
    PROVE  UdpTypeOK'
<1> DEFINE bytes == IF SockRequest.data < UDP_MAX_DATA THEN SockRequest.data ELSE UDP_MAX_DATA
           r == [kind |-> "udp", connection |-> SockRequest.connection, data |-> bytes]
<1>1. UdpAsked("WRITE") /\ UNCHANGED clist
      /\ Receive("udp", "sock2udp", <<ToMux(r), UdpStatus(bytes, "EOK")>>)
  BY DEF UdpWrites
<1>2. fifo["sock2udp"] # <<>> /\ SockRequest.connection \in Connection /\ bytes \in Nat
  BY <1>1, SockRequestType, UdpAssumption DEF UdpTypeOK
<1> HIDE DEF bytes
<1>3. ToMux(r) \in Sends("udp") /\ UdpStatus(bytes, "EOK") \in Sends("udp")
  BY <1>1, <1>2, ToMuxSends, UdpStatusSends DEF UdpTypeOK, Error
<1>4. <<ToMux(r), UdpStatus(bytes, "EOK")>> \in Seq(Sends("udp"))
  BY <1>3, TwoSends
<1> QED BY <1>1, <1>2, <1>4, UdpStep DEF UdpTypeOK

LEMMA UdpAddsForwardType ==
    ASSUME UdpTypeOK, UdpAddsForward
    PROVE  UdpTypeOK'
<1> DEFINE c == SockRequest.connection
<1>1. /\ UdpAsked("FORWARD") /\ Receive("udp", "sock2udp", <<UdpStatus(0, "EOK")>>)
      /\ \/ clist' = Append(clist, c)
         \/ \E i \in DOMAIN clist : clist' = Append(RemoveAt(clist, i), c)
  BY DEF UdpAddsForward
<1>2. fifo["sock2udp"] # <<>> /\ c \in Connection
  BY <1>1, SockRequestType DEF UdpTypeOK
<1>3. <<UdpStatus(0, "EOK")>> \in Seq(Sends("udp"))
  BY <1>1, UdpStatusSends, OneSend DEF UdpTypeOK, Error
<1>4. clist' \in Seq(Connection)
  <2> HIDE DEF c
  <2>1. ASSUME NEW seq \in Seq(Connection), clist' = Append(seq, c)
        PROVE  clist' \in Seq(Connection)
    BY <1>2, <2>1
  <2>2. \A i \in DOMAIN clist : RemoveAt(clist, i) \in Seq(Connection)
    BY RemoveAtType DEF UdpTypeOK
  <2> QED BY <1>1, <2>1, <2>2 DEF UdpTypeOK
<1> QED BY <1>1, <1>2, <1>3, <1>4, UdpStep

LEMMA UdpClosesType ==
    ASSUME UdpTypeOK, UdpCloses
    PROVE  UdpTypeOK'
<1>1. PICK bytes \in {0, UDP_MAX_DATA}, err \in {"EOK", "ENOMATCH"} :
        /\ UdpAsked("CLOSE") /\ Receive("udp", "sock2udp", <<UdpStatus(bytes, err)>>)
        /\ clist' = clist \/ \E i \in DOMAIN clist : clist' = RemoveAt(clist, i)
  BY DEF UdpCloses
<1>2. fifo["sock2udp"] # <<>>
  BY <1>1, SockRequestType DEF UdpTypeOK
<1>3. <<UdpStatus(bytes, err)>> \in Seq(Sends("udp"))
  BY <1>1, UdpStatusSends, UdpAssumption, OneSend DEF UdpTypeOK, Error
<1>4. clist' \in Seq(Connection)
  BY <1>1, RemoveAtType DEF UdpTypeOK
<1> QED BY <1>1, <1>2, <1>3, <1>4, UdpStep

LEMMA UdpNextType ==
    ASSUME UdpTypeOK, UdpNext
    PROVE  UdpTypeOK'
<1>1. CASE UdpIgnoresStatus
  <2>1. fifo["sock2udp"] # <<>> /\ <<>> \in Seq(Sends("udp"))
    BY <1>1, SockRequestType DEF UdpTypeOK, UdpIgnoresStatus
  <2> QED BY <1>1, <2>1, UdpStep DEF UdpIgnoresStatus, UdpTypeOK
<1> QED BY <1>1, UdpForwardsType, UdpUnreachableType, UdpWritesType,
           UdpAddsForwardType, UdpClosesType
        DEF UdpNext

----------------------------------------------------------------------------
(* The application, the TCP module and the network *)

LEMMA CallType ==
    ASSUME PipesOK, NEW type, NEW fd \in Sock \cup {0}, NEW c \in Connection,
           NEW data \in Nat, calls \in Nat, Call(type, fd, c, data),
           IF type = "mSOCKET" THEN c.protocol \in Transport ELSE fd \in Sock
    PROVE  PipesOK' /\ waiting' \in BOOLEAN /\ calls' \in Nat
<1> DEFINE r == [type |-> type, connection |-> c, sockfd |-> fd,
                 data |-> data, bytes |-> 0, error |-> "EOK"]
<1>1. type \in slrrType \ {"mSTATUS"}
  BY LibAssumption DEF Call
<1>2. r \in MessageOf("app2sock")
  BY <1>1 DEF MessageOf, SockLibRequestResponse, Error
<1>3. fifo' = [fifo EXCEPT !["app2sock"] = Append(@, r)] /\ out' = out
  BY DEF Call
<1> HIDE DEF r
<1>4. PipesOK'
  BY <1>2, <1>3, AppendType DEF Fifo
<1> QED BY <1>4 DEF Call

LEMMA ConnectionTypes ==
    /\ NoConnection \in Connection
    /\ \A p \in Transport :
         /\ [NoConnection EXCEPT !.protocol = p] \in Connection
         /\ [NoConnection EXCEPT !.protocol = p].protocol = p
    /\ \A ip \in IPAddress, port \in Port :
         /\ [NoConnection EXCEPT !.src = ip, !.srcport = port] \in Connection
         /\ [NoConnection EXCEPT !.dest = ip, !.destport = port] \in Connection
<1>1. PORT_ANY \in Port /\ IP_ADDRESS_ANY \in IPAddress
  BY SizeAssumption DEF Port, IPAddress
<1> QED BY <1>1 DEF NoConnection, Connection

LEMMA LibCallType ==
    ASSUME PipesOK, calls \in Nat, LibCall
    PROVE  PipesOK' /\ waiting' \in BOOLEAN /\ calls' \in Nat
<1>1. CASE minet_socket
  <2>1. PICK p \in AppTransports : Call("mSOCKET", 0, [NoConnection EXCEPT !.protocol = p], 0)
    BY <1>1 DEF minet_socket
  <2> QED BY <2>1, LibAssumption, ConnectionTypes, CallType
<1>2. CASE minet_bind
  <2>1. PICK fd \in Sock, ip \in {IP_ADDRESS_ANY, MyIPAddr}, port \in Port :
          Call("mBIND", fd, [NoConnection EXCEPT !.src = ip, !.srcport = port], 0)
    BY <1>2 DEF minet_bind
  <2> DEFINE c == [NoConnection EXCEPT !.src = ip, !.srcport = port]
  <2>2. c \in Connection
    BY ConnectionTypes DEF IPAddress
  <2> HIDE DEF c
  <2>3. Call("mBIND", fd, c, 0)
    BY <2>1 DEF c
  <2> QED BY <2>2, <2>3, CallType
<1>3. CASE minet_connect
  <2>1. PICK fd \in Sock, ip \in Remotes, port \in RemotePorts :
          Call("mCONNECT", fd, [NoConnection EXCEPT !.dest = ip, !.destport = port], 0)
    BY <1>3 DEF minet_connect
  <2> DEFINE c == [NoConnection EXCEPT !.dest = ip, !.destport = port]
  <2>2. c \in Connection
    BY ConnectionTypes, LibAssumption DEF IPAddress
  <2> HIDE DEF c
  <2>3. Call("mCONNECT", fd, c, 0)
    BY <2>1 DEF c
  <2> QED BY <2>2, <2>3, CallType
<1>4. CASE minet_write
  <2>1. PICK fd \in Sock, len \in DataSizes : Call("mWRITE", fd, NoConnection, len)
    BY <1>4 DEF minet_write
  <2>2. len \in Nat
    BY LibAssumption
  <2> QED BY <2>1, <2>2, ConnectionTypes, CallType
<1>5. CASE \/ minet_read \/ minet_listen \/ minet_accept \/ minet_close \/ minet_other
  <2>1. PICK fd \in Sock, type \in {"mREAD", "mLISTEN", "mACCEPT", "mCLOSE", "mOTHER"} :
          Call(type, fd, NoConnection, 0)
    BY <1>5 DEF minet_read, minet_listen, minet_accept, minet_close, minet_other
  <2> QED BY <2>1, ConnectionTypes, CallType
<1> QED BY <1>1, <1>2, <1>3, <1>4, <1>5 DEF LibCall

LEMMA LibReturnType ==
    ASSUME PipesOK, calls \in Nat, LibReturn
    PROVE  PipesOK' /\ waiting' \in BOOLEAN /\ calls' \in Nat
  BY TakeType DEF LibReturn, Fifo

LEMMA PeerAnswersType ==
    ASSUME PipesOK, PeerTypeOK, PeerAnswers
    PROVE  PipesOK' /\ PeerTypeOK'
<1> DEFINE c == PeerRequest.connection
           status(err) == [type |-> "STATUS", connection |-> c, data |-> 0,
                           bytes |-> PeerRequest.data, error |-> err,
                           req |-> PeerRequest.req]
<1>1. PICK err \in {"EOK", "ECONN_FAILED"} :
        /\ opening' = opening \cup {c} \/ opening' = opening \ {c}
        /\ listening' = listening \cup {c} \/ listening' = listening \ {c}
           \/ listening' = listening
        /\ established' = established \ {c} \/ established' = established
        /\ fifo' = [fifo EXCEPT !["sock2tcp"] = Tail(@),
                               !["tcp2sock"] = Append(@, status(err))]
        /\ UNCHANGED <<tcpWrites, out>> /\ fifo["sock2tcp"] # <<>>
  BY DEF PeerAnswers
<1>2. PeerRequest \in MessageOf("sock2tcp") /\ Tail(fifo["sock2tcp"]) \in Seq(MessageOf("sock2tcp"))
  BY <1>1, HeadTailProperties DEF PipesOK, Fifo, PeerRequest
<1>3. PeerRequest \in SockRequestResponse /\ c.protocol \in Transport
  BY <1>2 DEF MessageOf
<1>4. c \in Connection /\ status(err) \in SockRequestResponse
  BY <1>3 DEF SockRequestResponse, srrType, Error
<1>5. status(err) \in MessageOf("tcp2sock")
  BY <1>3, <1>4 DEF MessageOf
<1> HIDE DEF c, status
<1>6. Append(fifo["tcp2sock"], status(err)) \in Seq(MessageOf("tcp2sock"))
  BY <1>5, AppendProperties DEF PipesOK, Fifo
<1>7. PipesOK'
  BY <1>1, <1>2, <1>6 DEF PipesOK, Fifo
<1>8. PeerTypeOK'
  BY <1>1, <1>3, <1>4 DEF PeerTypeOK, c
<1> QED BY <1>7, <1>8

LEMMA PeerSendsType ==
    ASSUME PipesOK, PeerTypeOK, NEW c \in Connection, c.protocol \in Transport,
           NEW data \in Nat, NEW err \in {"EOK", "ECONN_FAILED"}, PeerSends(c, data, err)
    PROVE  PipesOK' /\ tcpWrites' \in Nat
<1> DEFINE r == [type |-> "WRITE", connection |-> c, data |-> data,
                 bytes |-> data, error |-> err, req |-> 0]
<1>1. r \in MessageOf("tcp2sock")
  BY DEF MessageOf, SockRequestResponse, srrType, Error
<1> HIDE DEF r
<1>2. fifo' = [fifo EXCEPT !["tcp2sock"] = Append(@, r)] /\ out' = out
  BY DEF PeerSends, r
<1>3. PipesOK'
  BY <1>1, <1>2, AppendType DEF Fifo
<1> QED BY <1>3 DEF PeerSends, PeerTypeOK

LEMMA PeerNextType ==
    ASSUME PipesOK, PeerTypeOK, PeerNext
    PROVE  PipesOK' /\ PeerTypeOK'
<1>1. CASE PeerAnswers
  BY <1>1, PeerAnswersType
<1>2. CASE PeerIgnoresStatus
  BY <1>2, TakeType DEF PeerIgnoresStatus, peerVars, PeerTypeOK, Fifo
<1>3. CASE PeerFinishesOpen
  <2>1. PICK c \in opening, err \in {"EOK", "ECONN_FAILED"} :
          /\ PeerSends(c, 0, err)
          /\ opening' = opening \ {c}
          /\ established' = established \cup {c} \/ established' = established
          /\ UNCHANGED listening
    BY <1>3 DEF PeerFinishesOpen
  <2>2. c \in Connection /\ c.protocol \in Transport
    BY DEF PeerTypeOK
  <2>3. PipesOK' /\ tcpWrites' \in Nat
    BY <2>1, <2>2, PeerSendsType
  <2> QED BY <2>1, <2>2, <2>3 DEF PeerTypeOK
<1>4. CASE PeerAccepts
  <2>1. PICK l \in listening, ip \in Remotes, port \in PeerPorts,
             err \in {"EOK", "ECONN_FAILED"} :
          LET c == [l EXCEPT !.dest = ip, !.destport = port] IN
          /\ PeerSends(c, 0, err)
          /\ established' = established \cup {c} \/ established' = established
          /\ UNCHANGED <<opening, listening>>
    BY <1>4 DEF PeerAccepts
  <2> DEFINE c == [l EXCEPT !.dest = ip, !.destport = port]
  <2>2. l \in Connection /\ l.protocol \in Transport /\ ip \in IPAddress /\ port \in Port
    BY PeerAssumption DEF PeerTypeOK, IPAddress
  <2>3. c \in Connection /\ c.protocol \in Transport
    BY <2>2 DEF Connection
  <2> HIDE DEF c
  <2>4. /\ PeerSends(c, 0, err) /\ UNCHANGED <<opening, listening>>
        /\ established' = established \cup {c} \/ established' = established
    BY <2>1 DEF c
  <2>5. PipesOK' /\ tcpWrites' \in Nat
    BY <2>3, <2>4, PeerSendsType
  <2> QED BY <2>3, <2>4, <2>5 DEF PeerTypeOK
<1>5. CASE PeerReceives
  <2>1. PICK c \in established, data \in TcpData :
          PeerSends(c, data, "EOK") /\ UNCHANGED <<opening, listening, established>>
    BY <1>5 DEF PeerReceives
  <2>2. c \in Connection /\ c.protocol \in Transport /\ data \in Nat
    BY PeerAssumption DEF PeerTypeOK
  <2>3. PipesOK' /\ tcpWrites' \in Nat
    BY <2>1, <2>2, PeerSendsType
  <2> QED BY <2>1, <2>3 DEF PeerTypeOK
<1> QED BY <1>1, <1>2, <1>3, <1>4, <1>5 DEF PeerNext

LEMMA NetworkType ==
    ASSUME PipesOK, arrived \in Nat, NetDelivers \/ NetTakes
    PROVE  PipesOK' /\ arrived' \in Nat
<1>1. CASE NetTakes
  BY <1>1, TakeType DEF NetTakes, Fifo
<1>2. CASE NetDelivers
  <2>1. PICK ip \in Remotes, port \in RemotePorts, to \in Port \ {PORT_ANY}, len \in DataSizes :
          fifo' = [fifo EXCEPT !["ipmux2udp"] =
                    Append(@, [from |-> ip, fromport |-> port, toport |-> to, data |-> len])]
    BY <1>2 DEF NetDelivers
  <2> DEFINE d == [from |-> ip, fromport |-> port, toport |-> to, data |-> len]
  <2>2. d \in MessageOf("ipmux2udp")
    BY LibAssumption DEF MessageOf, Datagram, IPAddress
  <2> HIDE DEF d
  <2>3. fifo' = [fifo EXCEPT !["ipmux2udp"] = Append(@, d)] /\ out' = out
    BY <1>2, <2>1 DEF NetDelivers, d
  <2>4. PipesOK'
    BY <2>2, <2>3, AppendType DEF Fifo
  <2> QED BY <1>2, <2>4 DEF NetDelivers
<1> QED BY <1>1, <1>2

----------------------------------------------------------------------------
(* Type correctness *)

LEMMA InitType == Init => TypeOK
<1> SUFFICES ASSUME Init PROVE TypeOK
  OBVIOUS
<1>1. PipesOK
  BY DEF Init, PipesOK
<1>2. SockTypeOK
  BY FreeRecordType DEF Init, SockInit, SockStatusInit, PortStatusInit, SockTypeOK
<1>3. clist \in Seq(Connection)
  BY DEF Init, UdpInit
<1>4. PeerTypeOK
  BY DEF Init, PeerInit, PeerTypeOK
<1>5. waiting \in BOOLEAN /\ calls \in Nat /\ arrived \in Nat
  BY DEF Init, LibInit
<1> QED BY <1>1, <1>2, <1>3, <1>4, <1>5 DEF TypeOK

LEMMA NextType == TypeOK /\ [Next]_vars => TypeOK'
<1> SUFFICES ASSUME TypeOK, [Next]_vars PROVE TypeOK'
  OBVIOUS
<1>1. /\ PipesOK /\ SockTypeOK /\ PeerTypeOK /\ clist \in Seq(Connection)
      /\ waiting \in BOOLEAN /\ calls \in Nat /\ arrived \in Nat
  BY DEF TypeOK
<1>2. CASE App
  BY <1>1, <1>2, LibCallType, LibReturnType, SockTypeUnchanged
  DEF App, TypeOK, peerVars, PeerTypeOK
<1>3. CASE SockProcess
  <2>1. PipesOK' /\ SockTypeOK'
    BY <1>1, <1>3, SockNextType, SendType, SockTypeUnchanged DEF SockProcess
  <2> QED BY <1>1, <1>3, <2>1 DEF SockProcess, TypeOK, libVars, peerVars, PeerTypeOK
<1>4. CASE UdpProcess
  <2>1. PipesOK' /\ clist' \in Seq(Connection)
    BY <1>1, <1>4, UdpNextType, SendType DEF UdpProcess, UdpTypeOK
  <2> QED BY <1>1, <1>4, <2>1, SockTypeUnchanged
          DEF UdpProcess, TypeOK, libVars, peerVars, PeerTypeOK
<1>5. CASE TcpProcess
  BY <1>1, <1>5, PeerNextType, SockTypeUnchanged DEF TcpProcess, TypeOK, libVars
<1>6. CASE Network
  BY <1>1, <1>6, NetworkType, SockTypeUnchanged
  DEF Network, TypeOK, libVars, peerVars, PeerTypeOK
<1>7. CASE UNCHANGED vars
  BY <1>1, <1>7 DEF vars, TypeOK, PipesOK, SockTypeOK, PeerTypeOK
<1> QED BY <1>2, <1>3, <1>4, <1>5, <1>6, <1>7 DEF Next

\* In every state of the stack the tables, pipes and queues hold what their
\* declarations say, the input buffers are within BIN_SIZE and the handlers index
\* the socket table with sockets only.
THEOREM TypeCorrect == Spec => []TypeOK
  BY InitType, NextType, PTL DEF Spec

----------------------------------------------------------------------------
(* Numbers in turn: every q[i] is empty or holds one number *)

Cells == {{}} \cup {{n} : n \in Nat}

\* t is q, of length n, without its first element; t is q with one more.
Shorter(t, q, n) ==
    /\ DOMAIN q = 1 .. n /\ DOMAIN t = 1 .. n - 1
    /\ \A i \in 1 .. n - 1 : t[i] = q[i + 1]

Longer(t, q, n) ==
    /\ DOMAIN q = 1 .. n /\ DOMAIN t = 1 .. n + 1
    /\ \A i \in 1 .. n : t[i] = q[i]

LEMMA TailInTurn ==
    ASSUME NEW n \in Nat, n > 0, NEW q \in [1 .. n -> Cells], NEW t, Shorter(t, q, n),
           NEW l \in Nat, NEW h \in Nat, InTurn(q, l, h)
    PROVE  \/ q[1] = {} /\ InTurn(t, l, h)
           \/ q[1] = {l + 1} /\ l < h /\ InTurn(t, l + 1, h)
<1> /\ 1 \in DOMAIN q /\ DOMAIN q = 1 .. n /\ DOMAIN t = 1 .. n - 1
    /\ \A i \in 1 .. n - 1 : t[i] = q[i + 1]
  BY DEF Shorter
<1>1. CASE q[1] = {}
  <2>1. \A m \in l + 1 .. h : \E i \in DOMAIN t : m \in t[i]
    <3> TAKE m \in l + 1 .. h
    <3>1. PICK i \in 1 .. n : m \in q[i]
      BY DEF InTurn
    <3>2. i # 1 /\ i - 1 \in 1 .. n - 1 /\ t[i - 1] = q[i]
      BY <1>1, <3>1
    <3> QED BY <3>1, <3>2
  <2>2. \A i \in DOMAIN t : \A m \in t[i] : l < m /\ m <= h
    BY DEF InTurn
  <2>3. \A i, j \in DOMAIN t : i < j => \A a \in t[i], b \in t[j] : a < b
    BY DEF InTurn
  <2> QED BY <1>1, <2>1, <2>2, <2>3 DEF InTurn
<1>2. ASSUME NEW k \in Nat, q[1] = {k}
      PROVE  q[1] = {l + 1} /\ l < h /\ InTurn(t, l + 1, h)
  <2> k \in q[1]
    BY <1>2
  <2>1. l < k /\ k <= h
    BY DEF InTurn
  <2>2. k = l + 1
    <3>1. l + 1 \in l + 1 .. h
      BY <2>1
    <3>2. PICK i \in 1 .. n : l + 1 \in q[i]
      BY <3>1 DEF InTurn
    <3>3. CASE i = 1
      BY <1>2, <3>2, <3>3
    <3>4. CASE i # 1
      <4>1. 1 < i /\ i \in DOMAIN q
        BY <3>4
      <4>2. k < l + 1
        BY <3>2, <4>1 DEF InTurn
      <4> QED BY <2>1, <4>2
    <3> QED BY <3>3, <3>4
  <2>3. \A m \in l + 2 .. h : \E i \in DOMAIN t : m \in t[i]
    <3> TAKE m \in l + 2 .. h
    <3> m \in l + 1 .. h
      OBVIOUS
    <3>1. PICK i \in 1 .. n : m \in q[i]
      BY DEF InTurn
    <3>2. i # 1 /\ i - 1 \in 1 .. n - 1 /\ t[i - 1] = q[i]
      BY <1>2, <2>2, <3>1
    <3> QED BY <3>1, <3>2
  <2>4. \A i \in DOMAIN t : \A m \in t[i] : l + 1 < m /\ m <= h
    <3> TAKE i \in DOMAIN t
    <3> TAKE m \in t[i]
    <3>1. i + 1 \in DOMAIN q /\ m \in q[i + 1] /\ 1 < i + 1
      OBVIOUS
    <3>2. k < m /\ m <= h
      BY <3>1 DEF InTurn
    <3> QED BY <2>2, <3>2
  <2>5. \A i, j \in DOMAIN t : i < j => \A a \in t[i], b \in t[j] : a < b
    <3> TAKE i, j \in DOMAIN t
    <3> HAVE i < j
    <3>1. i + 1 \in DOMAIN q /\ j + 1 \in DOMAIN q /\ i + 1 < j + 1
      OBVIOUS
    <3>2. t[i] = q[i + 1] /\ t[j] = q[j + 1]
      OBVIOUS
    <3> QED BY <3>1, <3>2 DEF InTurn
  <2>6. (l + 1) + 1 = l + 2 /\ l + 1 <= h
    BY <2>1, <2>2
  <2> QED BY <1>2, <2>1, <2>2, <2>3, <2>4, <2>5, <2>6 DEF InTurn
<1>3. q[1] \in Cells
  OBVIOUS
<1>4. q[1] = {} \/ \E k \in Nat : q[1] = {k}
  BY <1>3 DEF Cells
<1> QED BY <1>1, <1>2, <1>4

LEMMA AppendInTurn ==
    ASSUME NEW n \in Nat, NEW q \in [1 .. n -> Cells], NEW t, Longer(t, q, n),
           NEW l \in Nat, NEW h \in Nat, InTurn(q, l, h)
    PROVE  /\ t[n + 1] = {} => InTurn(t, l, h)
           /\ t[n + 1] = {h + 1} => InTurn(t, l, h + 1)
<1> DOMAIN q = 1 .. n /\ DOMAIN t = 1 .. n + 1 /\ \A i \in 1 .. n : t[i] = q[i]
  BY DEF Longer
<1>1. CASE t[n + 1] = {}
  <2>1. \A m \in l + 1 .. h : \E i \in DOMAIN t : m \in t[i]
    BY DEF InTurn
  <2>2. \A i \in DOMAIN t : \A m \in t[i] : l < m /\ m <= h
    BY <1>1 DEF InTurn
  <2>3. \A i, j \in DOMAIN t : i < j => \A a \in t[i], b \in t[j] : a < b
    <3> TAKE i, j \in DOMAIN t
    <3> HAVE i < j
    <3>1. i \in 1 .. n /\ (j \in 1 .. n \/ j = n + 1)
      OBVIOUS
    <3> QED BY <1>1, <3>1 DEF InTurn
  <2> QED BY <1>1, <2>1, <2>2, <2>3 DEF InTurn
<1>2. CASE t[n + 1] = {h + 1}
  <2>1. \A m \in l + 1 .. h + 1 : \E i \in DOMAIN t : m \in t[i]
    <3> TAKE m \in l + 1 .. h + 1
    <3>1. CASE m = h + 1
      BY <1>2, <3>1
    <3>2. CASE m # h + 1
      <4>1. m \in l + 1 .. h
        BY <3>2
      <4> QED BY <4>1 DEF InTurn
    <3> QED BY <3>1, <3>2
  <2>2. \A i \in DOMAIN t : \A m \in t[i] : l < m /\ m <= h + 1
    <3> TAKE i \in DOMAIN t
    <3> TAKE m \in t[i]
    <3>1. CASE i = n + 1
      BY <1>2, <3>1 DEF InTurn
    <3>2. CASE i # n + 1
      <4>1. i \in 1 .. n /\ m \in q[i] /\ q[i] \in Cells
        BY <3>2
      <4>2. l < m /\ m <= h /\ m \in Nat
        BY <4>1 DEF InTurn, Cells
      <4> QED BY <4>2
    <3> QED BY <3>1, <3>2
  <2>3. \A i, j \in DOMAIN t : i < j => \A a \in t[i], b \in t[j] : a < b
    <3> TAKE i, j \in DOMAIN t
    <3> HAVE i < j
    <3> TAKE a \in t[i], b \in t[j]
    <3>1. i \in 1 .. n /\ a \in q[i] /\ q[i] \in Cells
      OBVIOUS
    <3>2. a <= h /\ a \in Nat
      BY <3>1 DEF InTurn, Cells
    <3>3. CASE j = n + 1
      BY <1>2, <3>2, <3>3
    <3>4. CASE j # n + 1
      BY <3>1, <3>4 DEF InTurn
    <3> QED BY <3>3, <3>4
  <2> QED BY <1>2, <2>1, <2>2, <2>3 DEF InTurn
<1> QED BY <1>1, <1>2

\* Without numbers nothing is missing.
LEMMA EmptyInTurn ==
    ASSUME NEW q, \A i \in DOMAIN q : q[i] = {}, NEW l \in Nat, NEW h \in Nat
    PROVE  InTurn(q, l, h) <=> l = h
<1>1. ASSUME InTurn(q, l, h), l < h
      PROVE  FALSE
  <2>1. l + 1 \in l + 1 .. h
    BY <1>1
  <2> QED BY <1>1, <2>1 DEF InTurn
<1> QED BY <1>1 DEF InTurn

\* A single number is in turn.
LEMMA OneInTurn ==
    ASSUME NEW q, NEW l \in Nat, NEW k \in DOMAIN q, q[k] = {l + 1},
           \A i \in DOMAIN q : i # k => q[i] = {},
           \A i \in DOMAIN q : i \in Nat
    PROVE  InTurn(q, l, l + 1)
<1>1. \A m \in l + 1 .. l + 1 : m \in q[k]
  OBVIOUS
<1>2. \A i, j \in DOMAIN q : i < j => q[i] = {} \/ q[j] = {}
  OBVIOUS
<1>3. \A i \in DOMAIN q : \A m \in q[i] : l < m /\ m <= l + 1
  OBVIOUS
<1> QED BY <1>1, <1>2, <1>3 DEF InTurn

----------------------------------------------------------------------------
(* The streams of a transport module's requests *)

\* What is in turn in q is in turn in t.
Keeps(q, t) == \A l, h \in Nat : InTurn(q, l, h) => InTurn(t, l, h)

LEMMA KeepsTail ==
    ASSUME NEW n \in Nat, n > 0, NEW q \in [1 .. n -> Cells], q[1] = {}, NEW t,
           Shorter(t, q, n)
    PROVE  Keeps(q, t)
<1> SUFFICES ASSUME NEW l \in Nat, NEW h \in Nat, InTurn(q, l, h)
             PROVE  InTurn(t, l, h)
  BY DEF Keeps
<1>1. \/ q[1] = {} /\ InTurn(t, l, h)
      \/ q[1] = {l + 1} /\ l < h /\ InTurn(t, l + 1, h)
  BY TailInTurn
<1> QED BY <1>1

LEMMA KeepsAppend ==
    ASSUME NEW n \in Nat, NEW q \in [1 .. n -> Cells], NEW t,
           Longer(t, q, n), t[n + 1] = {}
    PROVE  Keeps(q, t)
  BY AppendInTurn DEF Keeps

LEMMA KeepsEmpty ==
    ASSUME NEW q, \A i \in DOMAIN q : q[i] = {}, NEW t, \A i \in DOMAIN t : t[i] = {}
    PROVE  Keeps(q, t)
  BY EmptyInTurn DEF Keeps

LEMMA TailIs ==
    ASSUME NEW S, NEW q \in Seq(S), q # <<>>
    PROVE  /\ Len(q) \in Nat /\ Len(q) > 0 /\ DOMAIN q = 1 .. Len(q)
           /\ Head(q) = q[1] /\ Head(q) \in S /\ 1 \in DOMAIN q
           /\ Tail(q) \in Seq(S) /\ Shorter(Tail(q), q, Len(q))
  BY DEF Shorter

LEMMA AppendIs ==
    ASSUME NEW S, NEW q \in Seq(S), NEW m \in S
    PROVE  /\ Len(q) \in Nat
           /\ Append(q, m) \in Seq(S) /\ Longer(Append(q, m), q, Len(q))
           /\ Len(q) + 1 \in DOMAIN Append(q, m) /\ Append(q, m)[Len(q) + 1] = m
  BY DEF Longer

LEMMA StreamCells ==
    ASSUME NEW q \in Seq(SockRequestResponse)
    PROVE  /\ Statuses(q) \in [1 .. Len(q) -> Cells]
           /\ Requests(q) \in [1 .. Len(q) -> Cells]
<1>1. DOMAIN q = 1 .. Len(q) /\ \A i \in 1 .. Len(q) : q[i] \in SockRequestResponse
  OBVIOUS
<1>2. \A r \in SockRequestResponse : r.req \in Nat
  BY DEF SockRequestResponse
<1> QED BY <1>1, <1>2 DEF Statuses, Requests, Cells

LEMMA SentCells ==
    ASSUME NEW p \in Transport, NEW m \in {"sock", "udp"}, NEW q \in Seq(Sends(m))
    PROVE  /\ m = "udp" => StatusesTo(p, q) \in [1 .. Len(q) -> Cells]
           /\ m = "sock" => RequestsTo(p, q) \in [1 .. Len(q) -> Cells]
<1>1. DOMAIN q = 1 .. Len(q) /\ \A i \in 1 .. Len(q) : q[i] \in Sends(m)
  OBVIOUS
<1>2. \A e \in Sends(m) : e.to \in {UpperPipe[p], LowerPipe[p]} => e.msg.req \in Nat
  BY DEF Sends, SendTo, MessageOf, SockRequestResponse, Transport, UpperPipe, LowerPipe
<1> QED BY <1>1, <1>2 DEF StatusesTo, RequestsTo, Cells

\* The numbers of a sequence without its first message, and with one more.
LEMMA NumbersOfTail ==
    ASSUME NEW n \in Nat, NEW q, NEW t, Shorter(t, q, n)
    PROVE  /\ Shorter(Statuses(t), Statuses(q), n)
           /\ Shorter(Requests(t), Requests(q), n)
<1>1. \A i \in 1 .. n - 1 : i \in DOMAIN t /\ i + 1 \in DOMAIN q /\ t[i] = q[i + 1]
  BY DEF Shorter
<1> QED BY <1>1 DEF Statuses, Requests, Shorter

LEMMA NumbersOfSentTail ==
    ASSUME NEW p \in Transport, NEW n \in Nat, NEW q, NEW t, Shorter(t, q, n)
    PROVE  /\ Shorter(StatusesTo(p, t), StatusesTo(p, q), n)
           /\ Shorter(RequestsTo(p, t), RequestsTo(p, q), n)
<1>1. \A i \in 1 .. n - 1 : i \in DOMAIN t /\ i + 1 \in DOMAIN q /\ t[i] = q[i + 1]
  BY DEF Shorter
<1> QED BY <1>1 DEF StatusesTo, RequestsTo, Shorter

LEMMA NumbersOfAppend ==
    ASSUME NEW n \in Nat, NEW q, NEW t, Longer(t, q, n)
    PROVE  /\ Longer(Statuses(t), Statuses(q), n)
           /\ Longer(Requests(t), Requests(q), n)
<1>1. \A i \in 1 .. n : i \in DOMAIN t /\ i \in DOMAIN q /\ t[i] = q[i]
  BY DEF Longer
<1> QED BY <1>1 DEF Statuses, Requests, Longer

LEMMA NumberAt ==
    ASSUME NEW q, NEW i \in DOMAIN q
    PROVE  /\ Statuses(q)[i] = IF q[i].type = "STATUS" THEN {q[i].req} ELSE {}
           /\ Requests(q)[i] = IF q[i].type # "STATUS" THEN {q[i].req} ELSE {}
  BY DEF Statuses, Requests

LEMMA NumberSentAt ==
    ASSUME NEW p, NEW q, NEW i \in DOMAIN q
    PROVE  /\ StatusesTo(p, q)[i] = IF q[i].to = UpperPipe[p] /\ q[i].msg.type = "STATUS"
                                      THEN {q[i].msg.req} ELSE {}
           /\ RequestsTo(p, q)[i] = IF q[i].to = LowerPipe[p] /\ q[i].msg.type # "STATUS"
                                      THEN {q[i].msg.req} ELSE {}
  BY DEF StatusesTo, RequestsTo

\* A message of the other kind comes and goes unnoticed.
LEMMA StreamTail ==
    ASSUME NEW q \in Seq(SockRequestResponse), q # <<>>
    PROVE  /\ Head(q).type # "STATUS" => Keeps(Statuses(q), Statuses(Tail(q)))
           /\ Head(q).type = "STATUS" => Keeps(Requests(q), Requests(Tail(q)))
<1> DEFINE n == Len(q)
           t == Tail(q)
<1>1. /\ n \in Nat /\ n > 0 /\ Head(q) = q[1] /\ 1 \in DOMAIN q
      /\ Shorter(t, q, n)
  BY TailIs
<1>2. Statuses(q) \in [1 .. n -> Cells] /\ Requests(q) \in [1 .. n -> Cells]
  BY StreamCells
<1> HIDE DEF n, t
<1>3. Shorter(Statuses(t), Statuses(q), n) /\ Shorter(Requests(t), Requests(q), n)
  BY <1>1, NumbersOfTail
<1>4. ASSUME q[1].type # "STATUS"
      PROVE  Keeps(Statuses(q), Statuses(t))
  <2>1. Statuses(q)[1] = {}
    BY <1>1, <1>4, NumberAt
  <2> QED BY <1>1, <1>2, <1>3, <2>1, KeepsTail
<1>5. ASSUME q[1].type = "STATUS"
      PROVE  Keeps(Requests(q), Requests(t))
  <2>1. Requests(q)[1] = {}
    BY <1>1, <1>5, NumberAt
  <2> QED BY <1>1, <1>2, <1>3, <2>1, KeepsTail
<1> QED BY <1>1, <1>4, <1>5 DEF t

LEMMA StreamAppend ==
    ASSUME NEW q \in Seq(SockRequestResponse), NEW m \in SockRequestResponse
    PROVE  /\ m.type # "STATUS" => Keeps(Statuses(q), Statuses(Append(q, m)))
           /\ m.type = "STATUS" => Keeps(Requests(q), Requests(Append(q, m)))
<1> DEFINE n == Len(q)
           t == Append(q, m)
<1>1. /\ n \in Nat /\ Longer(t, q, n) /\ n + 1 \in DOMAIN t /\ t[n + 1] = m
  BY AppendIs
<1>2. Statuses(q) \in [1 .. n -> Cells] /\ Requests(q) \in [1 .. n -> Cells]
  BY StreamCells
<1> HIDE DEF n, t
<1>3. Longer(Statuses(t), Statuses(q), n) /\ Longer(Requests(t), Requests(q), n)
  BY <1>1, NumbersOfAppend
<1>4. ASSUME m.type # "STATUS"
      PROVE  Keeps(Statuses(q), Statuses(t))
  <2>1. Statuses(t)[n + 1] = {}
    BY <1>1, <1>4, NumberAt
  <2> QED BY <1>1, <1>2, <1>3, <2>1, KeepsAppend
<1>5. ASSUME m.type = "STATUS"
      PROVE  Keeps(Requests(q), Requests(t))
  <2>1. Requests(t)[n + 1] = {}
    BY <1>1, <1>5, NumberAt
  <2> QED BY <1>1, <1>2, <1>3, <2>1, KeepsAppend
<1> QED BY <1>4, <1>5 DEF t

\* A write to another pipe, or of another kind, goes unnoticed.
LEMMA SentTail ==
    ASSUME NEW p \in Transport, NEW m \in {"sock", "udp"}, NEW q \in Seq(Sends(m)),
           q # <<>>
    PROVE  /\ (m = "udp" /\ ~ (Head(q).to = UpperPipe[p] /\ Head(q).msg.type = "STATUS"))
              => Keeps(StatusesTo(p, q), StatusesTo(p, Tail(q)))
           /\ (m = "sock" /\ ~ (Head(q).to = LowerPipe[p] /\ Head(q).msg.type # "STATUS"))
              => Keeps(RequestsTo(p, q), RequestsTo(p, Tail(q)))
<1> DEFINE n == Len(q)
           t == Tail(q)
<1>1. /\ n \in Nat /\ n > 0 /\ Head(q) = q[1] /\ 1 \in DOMAIN q
      /\ Shorter(t, q, n)
  BY TailIs
<1>2. /\ m = "udp" => StatusesTo(p, q) \in [1 .. n -> Cells]
      /\ m = "sock" => RequestsTo(p, q) \in [1 .. n -> Cells]
  BY SentCells
<1> HIDE DEF n, t
<1>3. /\ Shorter(StatusesTo(p, t), StatusesTo(p, q), n)
      /\ Shorter(RequestsTo(p, t), RequestsTo(p, q), n)
  BY <1>1, NumbersOfSentTail
<1>4. ASSUME m = "udp", ~ (q[1].to = UpperPipe[p] /\ q[1].msg.type = "STATUS")
      PROVE  Keeps(StatusesTo(p, q), StatusesTo(p, t))
  <2>1. StatusesTo(p, q)[1] = {}
    BY <1>1, <1>4, NumberSentAt
  <2> QED BY <1>1, <1>2, <1>3, <1>4, <2>1, KeepsTail
<1>5. ASSUME m = "sock", ~ (q[1].to = LowerPipe[p] /\ q[1].msg.type # "STATUS")
      PROVE  Keeps(RequestsTo(p, q), RequestsTo(p, t))
  <2>1. RequestsTo(p, q)[1] = {}
    BY <1>1, <1>5, NumberSentAt
  <2> QED BY <1>1, <1>2, <1>3, <1>5, <2>1, KeepsTail
<1> QED BY <1>1, <1>4, <1>5 DEF t

\* A STATUS, or a request, goes from the module that writes it to the pipe.
LEMMA StatusSent ==
    ASSUME NEW p \in Transport, NEW q \in Seq(Sends("udp")), q # <<>>,
           Head(q).to = UpperPipe[p], Head(q).msg.type = "STATUS",
           NEW f \in Seq(SockRequestResponse), Head(q).msg \in SockRequestResponse,
           NEW l \in Nat, NEW x \in Nat, NEW h \in Nat,
           InTurn(Statuses(f), l, x), InTurn(StatusesTo(p, q), x, h)
    PROVE  \E y \in 0 .. h : /\ InTurn(Statuses(Append(f, Head(q).msg)), l, y)
                             /\ InTurn(StatusesTo(p, Tail(q)), y, h)
<1> DEFINE n == Len(q)
           k == Len(f)
           e == Head(q)
           u == Tail(q)
           t == Append(f, e.msg)
<1>1. /\ n \in Nat /\ n > 0 /\ e = q[1] /\ 1 \in DOMAIN q /\ Shorter(u, q, n)
  BY TailIs
<1>2. k \in Nat /\ Longer(t, f, k) /\ k + 1 \in DOMAIN t /\ t[k + 1] = e.msg
  BY AppendIs
<1>3. Statuses(f) \in [1 .. k -> Cells] /\ StatusesTo(p, q) \in [1 .. n -> Cells]
  BY StreamCells, SentCells
<1>4. e.to = UpperPipe[p] /\ e.msg.type = "STATUS"
  OBVIOUS
<1> HIDE DEF n, k, e, u, t
<1>5. Shorter(StatusesTo(p, u), StatusesTo(p, q), n)
  BY <1>1, NumbersOfSentTail
<1>6. Longer(Statuses(t), Statuses(f), k)
  BY <1>2, NumbersOfAppend
<1>7. Statuses(t)[k + 1] = {e.msg.req}
  BY <1>2, <1>4 DEF Statuses
<1>8. StatusesTo(p, q)[1] = {e.msg.req}
  BY <1>1, <1>4, NumberSentAt
<1>9. /\ StatusesTo(p, q)[1] = {x + 1} /\ x < h
      /\ InTurn(StatusesTo(p, u), x + 1, h)
  <2>1. \/ StatusesTo(p, q)[1] = {}
        \/ /\ StatusesTo(p, q)[1] = {x + 1} /\ x < h
           /\ InTurn(StatusesTo(p, u), x + 1, h)
    BY <1>1, <1>3, <1>5, TailInTurn
  <2> QED BY <1>8, <2>1
<1>10. InTurn(Statuses(t), l, x + 1)
  BY <1>2, <1>3, <1>6, <1>7, <1>8, <1>9, AppendInTurn
<1> QED BY <1>9, <1>10 DEF t, u, e

LEMMA RequestSent ==
    ASSUME NEW p \in Transport, NEW q \in Seq(Sends("sock")), q # <<>>,
           Head(q).to = LowerPipe[p], Head(q).msg.type # "STATUS",
           NEW f \in Seq(SockRequestResponse), Head(q).msg \in SockRequestResponse,
           NEW l \in Nat, NEW x \in Nat, NEW h \in Nat,
           InTurn(Requests(f), l, x), InTurn(RequestsTo(p, q), x, h)
    PROVE  \E y \in 0 .. h : /\ InTurn(Requests(Append(f, Head(q).msg)), l, y)
                             /\ InTurn(RequestsTo(p, Tail(q)), y, h)
<1> DEFINE n == Len(q)
           k == Len(f)
           e == Head(q)
           u == Tail(q)
           t == Append(f, e.msg)
<1>1. /\ n \in Nat /\ n > 0 /\ e = q[1] /\ 1 \in DOMAIN q /\ Shorter(u, q, n)
  BY TailIs
<1>2. k \in Nat /\ Longer(t, f, k) /\ k + 1 \in DOMAIN t /\ t[k + 1] = e.msg
  BY AppendIs
<1>3. Requests(f) \in [1 .. k -> Cells] /\ RequestsTo(p, q) \in [1 .. n -> Cells]
  BY StreamCells, SentCells
<1>4. e.to = LowerPipe[p] /\ e.msg.type # "STATUS"
  OBVIOUS
<1> HIDE DEF n, k, e, u, t
<1>5. Shorter(RequestsTo(p, u), RequestsTo(p, q), n)
  BY <1>1, NumbersOfSentTail
<1>6. Longer(Requests(t), Requests(f), k)
  BY <1>2, NumbersOfAppend
<1>7. Requests(t)[k + 1] = {e.msg.req}
  BY <1>2, <1>4 DEF Requests
<1>8. RequestsTo(p, q)[1] = {e.msg.req}
  BY <1>1, <1>4, NumberSentAt
<1>9. /\ RequestsTo(p, q)[1] = {x + 1} /\ x < h
      /\ InTurn(RequestsTo(p, u), x + 1, h)
  <2>1. \/ RequestsTo(p, q)[1] = {}
        \/ /\ RequestsTo(p, q)[1] = {x + 1} /\ x < h
           /\ InTurn(RequestsTo(p, u), x + 1, h)
    BY <1>1, <1>3, <1>5, TailInTurn
  <2> QED BY <1>8, <2>1
<1>10. InTurn(Requests(t), l, x + 1)
  BY <1>2, <1>3, <1>6, <1>7, <1>8, <1>9, AppendInTurn
<1> QED BY <1>9, <1>10 DEF t, u, e

----------------------------------------------------------------------------
(* The elements of a sequence, and what is on its way *)

LEMMA InToSet ==
    ASSUME NEW q, NEW x
    PROVE  x \in ToSet(q) <=> \E i \in DOMAIN q : q[i] = x
  BY DEF ToSet

LEMMA ToSetEmpty == ToSet(<<>>) = {}
  BY DEF ToSet

LEMMA ToSetAppend ==
    ASSUME NEW S, NEW q \in Seq(S), NEW e \in S
    PROVE  ToSet(Append(q, e)) = ToSet(q) \cup {e}
<1> DEFINE t == Append(q, e)
<1>1. /\ Len(q) \in Nat /\ DOMAIN q = 1 .. Len(q) /\ DOMAIN t = 1 .. Len(q) + 1
      /\ t[Len(q) + 1] = e /\ \A i \in 1 .. Len(q) : t[i] = q[i]
  BY AppendProperties
<1> HIDE DEF t
<1>2. \A x : (\E i \in DOMAIN t : t[i] = x) <=> x = e \/ \E i \in DOMAIN q : q[i] = x
  <2> TAKE x
  <2>1. ASSUME NEW i \in DOMAIN t, t[i] = x
        PROVE  x = e \/ \E j \in DOMAIN q : q[j] = x
    <3>1. i = Len(q) + 1 \/ i \in 1 .. Len(q)
      BY <1>1
    <3> QED BY <1>1, <2>1, <3>1
  <2>2. ASSUME x = e \/ \E j \in DOMAIN q : q[j] = x
        PROVE  \E i \in DOMAIN t : t[i] = x
    <3>1. Len(q) + 1 \in DOMAIN t /\ \A j \in DOMAIN q : j \in DOMAIN t
      BY <1>1
    <3> QED BY <1>1, <2>2, <3>1
  <2> QED BY <2>1, <2>2
<1>3. \A x : x \in ToSet(t) <=> x \in ToSet(q) \cup {e}
  BY <1>2, InToSet
<1> QED BY <1>3 DEF t

LEMMA ToSetTail ==
    ASSUME NEW S, NEW q \in Seq(S), q # <<>>
    PROVE  ToSet(q) = ToSet(Tail(q)) \cup {Head(q)} /\ Head(q) \in S
<1> DEFINE t == Tail(q)
<1>1. /\ Len(q) \in Nat /\ Len(q) > 0 /\ DOMAIN q = 1 .. Len(q)
      /\ DOMAIN t = 1 .. Len(q) - 1 /\ Head(q) = q[1] /\ q[1] \in S
      /\ \A i \in 1 .. Len(q) - 1 : t[i] = q[i + 1]
  BY HeadTailProperties, EmptySeq
<1> HIDE DEF t
<1>2. \A x : (\E i \in DOMAIN q : q[i] = x) <=> x = q[1] \/ \E i \in DOMAIN t : t[i] = x
  <2> TAKE x
  <2>1. ASSUME NEW i \in DOMAIN q, q[i] = x
        PROVE  x = q[1] \/ \E j \in DOMAIN t : t[j] = x
    <3>1. CASE i = 1
      BY <2>1, <3>1
    <3>2. CASE i # 1
      <4>1. i - 1 \in DOMAIN t /\ (i - 1) + 1 = i
        BY <1>1, <3>2
      <4>2. t[i - 1] = x
        BY <1>1, <2>1, <4>1
      <4> QED BY <4>1, <4>2
    <3> QED BY <3>1, <3>2
  <2>2. ASSUME x = q[1] \/ \E j \in DOMAIN t : t[j] = x
        PROVE  \E i \in DOMAIN q : q[i] = x
    <3>1. 1 \in DOMAIN q /\ \A j \in DOMAIN t : j + 1 \in DOMAIN q /\ t[j] = q[j + 1]
      BY <1>1
    <3> QED BY <2>2, <3>1
  <2> QED BY <2>1, <2>2
<1>3. \A x : x \in ToSet(q) <=> x \in ToSet(t) \cup {q[1]}
  BY <1>2, InToSet
<1> QED BY <1>1, <1>3 DEF t

LEMMA TailOfOne ==
    ASSUME NEW S, NEW q \in Seq(S), Len(q) = 1
    PROVE  Tail(q) = <<>>
<1>1. Tail(q) \in Seq(S) /\ Len(Tail(q)) = 0
  BY EmptySeq, HeadTailProperties
<1> QED BY <1>1, EmptySeq

LEMMA ToSetFew ==
    ASSUME NEW a, NEW b
    PROVE  ToSet(<<a>>) = {a} /\ ToSet(<<a, b>>) = {a, b}
<1>1. \A x : x \in ToSet(<<a>>) <=> x = a
  BY InToSet
<1>2. \A x : x \in ToSet(<<a, b>>) <=> x = a \/ x = b
  <2>1. /\ DOMAIN <<a, b>> = {1, 2} /\ <<a, b>>[1] = a /\ <<a, b>>[2] = b
    OBVIOUS
  <2> QED BY <2>1, InToSet
<1> QED BY <1>1, <1>2

LEMMA ToSetIn ==
    ASSUME NEW S, NEW q \in Seq(S), NEW x \in ToSet(q)
    PROVE  x \in S
<1>1. \A i \in DOMAIN q : q[i] \in S
  OBVIOUS
<1> QED BY <1>1, InToSet

\* What a module writes next goes to the pipe it is for.
LEMMA SentToTail ==
    ASSUME NEW S, NEW q \in Seq(S), q # <<>>, NEW f, NEW e, e = Head(q)
    PROVE  SentTo(q, f) = SentTo(Tail(q), f) \cup (IF e.to = f THEN {e.msg} ELSE {})
<1>1. ToSet(q) = ToSet(Tail(q)) \cup {e}
  BY ToSetTail
<1> QED BY <1>1 DEF SentTo

LEMMA SentToEmpty == \A f : SentTo(<<>>, f) = {}
  BY ToSetEmpty DEF SentTo

LEMMA InRequests ==
    ASSUME NEW q, NEW m \in ToSet(q), m.type # "STATUS"
    PROVE  \E i \in DOMAIN Requests(q) : m.req \in Requests(q)[i]
<1>1. PICK i \in DOMAIN q : q[i] = m
  BY InToSet
<1> QED BY <1>1 DEF Requests

LEMMA InRequestsTo ==
    ASSUME NEW p, NEW q, NEW m \in SentTo(q, LowerPipe[p]), m.type # "STATUS"
    PROVE  \E i \in DOMAIN RequestsTo(p, q) : m.req \in RequestsTo(p, q)[i]
<1>1. PICK e \in ToSet(q) : e.to = LowerPipe[p] /\ e.msg = m
  BY DEF SentTo
<1>2. PICK i \in DOMAIN q : q[i] = e
  BY InToSet
<1> QED BY <1>1, <1>2 DEF RequestsTo

LEMMA InStatuses ==
    ASSUME NEW q, NEW m \in ToSet(q), m.type = "STATUS"
    PROVE  \E i \in DOMAIN Statuses(q) : m.req \in Statuses(q)[i]
<1>1. PICK i \in DOMAIN q : q[i] = m
  BY InToSet
<1> QED BY <1>1 DEF Statuses


----------------------------------------------------------------------------
(* The steps that make no request and answer none *)

LEMMA KeepsSame == ASSUME NEW q PROVE Keeps(q, q)
  BY DEF Keeps

LEMMA StreamTypes ==
    ASSUME PipesOK, NEW p \in Transport
    PROVE  /\ UpperPipe[p] \in Fifo /\ LowerPipe[p] \in Fifo
           /\ fifo[UpperPipe[p]] \in Seq(SockRequestResponse)
           /\ fifo[LowerPipe[p]] \in Seq(SockRequestResponse)
           /\ out["udp"] \in Seq(Sends("udp")) /\ out["sock"] \in Seq(Sends("sock"))
<1>1. /\ UpperPipe[p] \in Fifo /\ LowerPipe[p] \in Fifo
      /\ MessageOf(UpperPipe[p]) \subseteq SockRequestResponse
      /\ MessageOf(LowerPipe[p]) \subseteq SockRequestResponse
  BY DEF Transport, UpperPipe, LowerPipe, Fifo, MessageOf
<1>2. \A S : S \subseteq SockRequestResponse => Seq(S) \subseteq Seq(SockRequestResponse)
  OBVIOUS
<1> QED BY <1>1, <1>2 DEF PipesOK

LEMMA DownIs ==
    ASSUME PipesOK, NEW p \in Transport
    PROVE  \A m \in Down(p) : m \in SockRequestResponse /\ m.req \in Nat /\ m.type # "STATUS"
<1>1. \A m \in SockRequestResponse : m.req \in Nat
  BY DEF SockRequestResponse
<1>2. \A m \in ToSet(fifo[LowerPipe[p]]) : m \in SockRequestResponse
  BY StreamTypes, ToSetIn
<1>3. \A m \in SentTo(out["sock"], LowerPipe[p]) : m \in SockRequestResponse
  <2> TAKE m \in SentTo(out["sock"], LowerPipe[p])
  <2>1. PICK e \in ToSet(out["sock"]) : e.to = LowerPipe[p] /\ e.msg = m
    BY DEF SentTo
  <2>2. e \in Sends("sock")
    BY StreamTypes, ToSetIn
  <2> QED BY <2>1, <2>2 DEF Sends, SendTo, MessageOf, LowerPipe, Transport
<1> QED BY <1>1, <1>2, <1>3 DEF Down

LEMMA DownSame ==
    ASSUME NEW p, fifo'[LowerPipe[p]] = fifo[LowerPipe[p]], out'["sock"] = out["sock"]
    PROVE  Down(p)' = Down(p)
  BY DEF Down

\* What a step does to the requests of a transport module: it leaves them alone, makes
\* one, answers the oldest on its way down, or hears of one.
Moves(p) ==
    \/ asked'[p] = asked[p] /\ reqq'[p] = reqq[p] /\ Down(p)' = Down(p)
    \/ /\ asked'[p] = asked[p] + 1 /\ Len(reqq'[p]) = Len(reqq[p]) + 1
       /\ \E m : m.req = asked[p] + 1 /\ Down(p)' = Down(p) \cup {m}
    \/ /\ asked'[p] = asked[p] /\ reqq'[p] = reqq[p]
       /\ \E r : Down(p) = Down(p)' \cup {r} /\ \A m \in Down(p)' : r.req < m.req
    \/ /\ asked'[p] = asked[p] /\ Len(reqq'[p]) = Len(reqq[p]) - 1
       /\ Down(p)' = Down(p)

InStep == RequestsInOrder' /\ \A p \in Transport : Moves(p)


\* A handler of the socket module reads one message and leaves its sends.
LEMMA SockReads ==
    ASSUME PipesOK, NEW f \in {"app2sock", "tcp2sock", "udp2sock"}, NEW sends,
           Receive("sock", f, sends)
    PROVE  /\ out'["sock"] = sends /\ out'["udp"] = out["udp"] /\ f \in Fifo
           /\ fifo'[f] = Tail(fifo[f]) /\ \A g \in Fifo : g # f => fifo'[g] = fifo[g]
           /\ fifo'["sock2app"] = fifo["sock2app"]
  BY DEF Receive, PipesOK, Fifo

LEMMA NothingAsked ==
    ASSUME PipesOK, NEW f \in {"app2sock", "tcp2sock", "udp2sock"}, NEW sends,
           Receive("sock", f, sends), out["sock"] = <<>>,
           \A i \in DOMAIN sends : sends[i].to = "sock2app" \/ sends[i].msg.type = "STATUS",
           NEW p \in Transport
    PROVE  Down(p)' = Down(p)
<1> DEFINE g == LowerPipe[p]
<1>1. g # f /\ g \in Fifo /\ g # "sock2app"
  BY DEF LowerPipe, Transport, Fifo
<1>2. out'["sock"] = sends /\ fifo'[g] = fifo[g]
  BY <1>1, SockReads
<1>3. \A m \in SentTo(sends, g) : m.type = "STATUS"
  <2> TAKE m \in SentTo(sends, g)
  <2>1. PICK e \in ToSet(sends) : e.to = g /\ e.msg = m
    BY DEF SentTo
  <2>2. PICK i \in DOMAIN sends : sends[i] = e
    BY InToSet
  <2> QED BY <1>1, <2>1, <2>2
<1>4. SentTo(<<>>, g) = {}
  BY SentToEmpty
<1>5. /\ Down(p) = {m \in ToSet(fifo[g]) \cup SentTo(out["sock"], g) : m.type # "STATUS"}
      /\ Down(p)' = {m \in ToSet(fifo'[g]) \cup SentTo(out'["sock"], g) : m.type # "STATUS"}
  BY DEF Down
<1> HIDE DEF g
<1> QED BY <1>2, <1>3, <1>4, <1>5

LEMMA OneAsked ==
    ASSUME PipesOK, NEW sends, Receive("sock", "app2sock", sends), out["sock"] = <<>>,
           NEW u \in Transport, NEW k \in DOMAIN sends, sends[k].to = LowerPipe[u],
           sends[k].msg.type # "STATUS",
           \A i \in DOMAIN sends : i # k => sends[i].to = "sock2app",
           NEW p \in Transport
    PROVE  Down(p)' = Down(p) \cup (IF p = u THEN {sends[k].msg} ELSE {})
<1> DEFINE g == LowerPipe[p]
<1>1. g # "app2sock" /\ g \in Fifo /\ g # "sock2app" /\ (g = LowerPipe[u] <=> p = u)
  BY DEF LowerPipe, Transport, Fifo
<1>2. out'["sock"] = sends /\ fifo'[g] = fifo[g]
  BY <1>1, SockReads
<1> HIDE DEF g
<1>3. SentTo(sends, g) = IF p = u THEN {sends[k].msg} ELSE {}
  <2>1. \A e \in ToSet(sends) : e.to = g => e = sends[k] /\ p = u
    <3> TAKE e \in ToSet(sends)
    <3>1. PICK i \in DOMAIN sends : sends[i] = e
      BY InToSet
    <3> QED BY <1>1, <3>1
  <2>2. sends[k] \in ToSet(sends)
    BY InToSet
  <2>3. p = u => sends[k].to = g
    BY <1>1
  <2> HIDE DEF LowerPipe
  <2> QED BY <2>1, <2>2, <2>3 DEF SentTo
<1>4. SentTo(<<>>, g) = {}
  BY SentToEmpty
<1>5. /\ Down(p) = {m \in ToSet(fifo[g]) \cup SentTo(out["sock"], g) : m.type # "STATUS"}
      /\ Down(p)' = {m \in ToSet(fifo'[g]) \cup SentTo(out'["sock"], g) : m.type # "STATUS"}
  BY DEF Down, g
<1> QED BY <1>2, <1>3, <1>4, <1>5

LEMMA WaitsTypes ==
    ASSUME SockTypeOK, NEW p \in Transport, NEW r \in Waits(p)
    PROVE  r \in RequestRecord /\ r.req \in Nat /\ r.sock \in Sock
<1>1. reqq[p] \in Seq(RequestRecord)
  BY DEF SockTypeOK
<1>2. r \in RequestRecord
  BY <1>1, ToSetIn DEF Waits
<1> QED BY <1>2 DEF RequestRecord

\* It makes a request.
LEMMA RequestMade ==
    ASSUME PipesOK, SockTypeOK, NEW p \in Transport, NEW type, NEW s, Record(p, type, s),
           type \in srrType \ {"STATUS"}, s \in Sock,
           NEW r, r = [type |-> type, sock |-> s, req |-> asked[p] + 1]
    PROVE  /\ Waits(p)' = Waits(p) \cup {r} /\ asked'[p] = asked[p] + 1
           /\ \A q \in Transport : q # p => Waits(q)' = Waits(q) /\ asked'[q] = asked[q]
<1>1. /\ reqq'[p] = Append(reqq[p], r) /\ asked'[p] = asked[p] + 1
      /\ \A q \in Transport : q # p => reqq'[q] = reqq[q] /\ asked'[q] = asked[q]
      /\ reqq[p] \in Seq(RequestRecord)
  BY DEF Record, SockTypeOK
<1>2. r \in RequestRecord
  BY DEF RequestRecord, SockTypeOK
<1> HIDE DEF Record
<1>3. ToSet(Append(reqq[p], r)) = ToSet(reqq[p]) \cup {r}
  BY <1>1, <1>2, ToSetAppend
<1> QED BY <1>1, <1>3 DEF Waits

LEMMA Quiet ==
    ASSUME NEW p \in Transport, SockTypeOK, InOrder(p),
           reqq'[p] = reqq[p], asked'[p] = asked[p],
           Keeps(Statuses(fifo[UpperPipe[p]]), Statuses(fifo'[UpperPipe[p]])),
           Keeps(StatusesTo(p, out["udp"]), StatusesTo(p, out'["udp"])),
           Keeps(Requests(fifo[LowerPipe[p]]), Requests(fifo'[LowerPipe[p]])),
           Keeps(RequestsTo(p, out["sock"]), RequestsTo(p, out'["sock"]))
    PROVE  InOrder(p)'
<1> DEFINE oldest == asked[p] - Len(reqq[p])
<1>1. asked[p] \in Nat /\ Len(reqq[p]) \in Nat
  BY DEF SockTypeOK
<1>2. /\ Len(reqq[p]) <= asked[p]
      /\ \A i \in DOMAIN reqq[p] : reqq[p][i].req = oldest + i
  BY DEF InOrder
<1>3. PICK x, y, z \in 0 .. asked[p] :
         /\ InTurn(Statuses(fifo[UpperPipe[p]]), oldest, x)
         /\ InTurn(StatusesTo(p, out["udp"]), x, y)
         /\ InTurn(Requests(fifo[LowerPipe[p]]), y, z)
         /\ InTurn(RequestsTo(p, out["sock"]), z, asked[p])
  BY Zenon DEF InOrder
<1>4. oldest \in Nat /\ x \in Nat /\ y \in Nat /\ z \in Nat
  BY <1>1, <1>2
<1>5. /\ InTurn(Statuses(fifo'[UpperPipe[p]]), oldest, x)
      /\ InTurn(StatusesTo(p, out'["udp"]), x, y)
      /\ InTurn(Requests(fifo'[LowerPipe[p]]), y, z)
      /\ InTurn(RequestsTo(p, out'["sock"]), z, asked[p])
  BY <1>1, <1>3, <1>4, Zenon DEF Keeps
<1> QED BY <1>2, <1>5, Zenon DEF InOrder

\* The socket module takes a call or a WRITE, and asks nothing.
LEMMA SockQuiet ==
    ASSUME PipesOK, SockTypeOK, RequestsInOrder,
           NEW f \in {"app2sock", "tcp2sock", "udp2sock"}, fifo[f] # <<>>,
           f # "app2sock" => Head(fifo[f]).type # "STATUS",
           out["sock"] = <<>>, reqq' = reqq, asked' = asked,
           NEW sends, Receive("sock", f, sends),
           \A i \in DOMAIN sends : sends[i].to = "sock2app" \/ sends[i].msg.type = "STATUS"
    PROVE  InStep
<1> SUFFICES ASSUME NEW p \in Transport
             PROVE  InOrder(p)' /\ Moves(p)
  BY DEF InStep, RequestsInOrder
<1>1. InOrder(p)
  BY DEF RequestsInOrder
<1>2. /\ fifo'[UpperPipe[p]] = IF f = UpperPipe[p] THEN Tail(fifo[f])
                                                   ELSE fifo[UpperPipe[p]]
      /\ fifo'[LowerPipe[p]] = fifo[LowerPipe[p]]
      /\ out'["sock"] = sends /\ out'["udp"] = out["udp"]
  BY StreamTypes DEF Receive, PipesOK, Transport, UpperPipe, LowerPipe, Fifo
<1>0. Moves(p)
  <2>1. Down(p)' = Down(p)
    BY NothingAsked
  <2> QED BY <2>1 DEF Moves
<1> SUFFICES InOrder(p)'
  BY <1>0
<1>3. Keeps(Statuses(fifo[UpperPipe[p]]), Statuses(fifo'[UpperPipe[p]]))
  <2>1. CASE f = UpperPipe[p]
    <3>1. f # "app2sock"
      BY <2>1 DEF Transport, UpperPipe
    <3> QED BY <1>2, <2>1, <3>1, StreamTypes, StreamTail
  <2> QED BY <1>2, <2>1, KeepsSame
<1>4. Keeps(RequestsTo(p, out["sock"]), RequestsTo(p, out'["sock"]))
  <2>1. \A i \in DOMAIN sends : RequestsTo(p, sends)[i] = {}
    BY DEF RequestsTo, Transport, LowerPipe
  <2>2. DOMAIN RequestsTo(p, <<>>) = {} /\ DOMAIN RequestsTo(p, sends) = DOMAIN sends
    BY DEF RequestsTo
  <2> QED BY <1>2, <2>1, <2>2, KeepsEmpty
<1> QED BY <1>1, <1>2, <1>3, <1>4, KeepsSame, Quiet

----------------------------------------------------------------------------
(* The steps that make a request, or hear the answer to one *)

\* The parts of InOrder, with oldest for the number before the first in the queue.
LEMMA OrderParts ==
    ASSUME NEW p \in Transport, SockTypeOK, InOrder(p), NEW oldest,
           oldest = asked[p] - Len(reqq[p])
    PROVE  /\ asked[p] \in Nat /\ Len(reqq[p]) \in Nat /\ oldest \in Nat
           /\ reqq[p] \in Seq(RequestRecord) /\ oldest + Len(reqq[p]) = asked[p]
           /\ \A i \in DOMAIN reqq[p] : reqq[p][i].req = oldest + i
           /\ \E x, y, z \in 0 .. asked[p] :
                /\ x \in Nat /\ y \in Nat /\ z \in Nat
                /\ InTurn(Statuses(fifo[UpperPipe[p]]), oldest, x)
                /\ InTurn(StatusesTo(p, out["udp"]), x, y)
                /\ InTurn(Requests(fifo[LowerPipe[p]]), y, z)
                /\ InTurn(RequestsTo(p, out["sock"]), z, asked[p])
<1>1. asked[p] \in Nat /\ Len(reqq[p]) \in Nat /\ reqq[p] \in Seq(RequestRecord)
  BY DEF SockTypeOK
<1>2. /\ Len(reqq[p]) <= asked[p]
      /\ \A i \in DOMAIN reqq[p] : reqq[p][i].req = oldest + i
  BY DEF InOrder
<1>3. \E x, y, z \in 0 .. asked[p] :
         /\ InTurn(Statuses(fifo[UpperPipe[p]]), oldest, x)
         /\ InTurn(StatusesTo(p, out["udp"]), x, y)
         /\ InTurn(Requests(fifo[LowerPipe[p]]), y, z)
         /\ InTurn(RequestsTo(p, out["sock"]), z, asked[p])
  BY Zenon DEF InOrder
<1>4. \A n \in 0 .. asked[p] : n \in Nat
  BY <1>1
<1>5. oldest \in Nat /\ oldest + Len(reqq[p]) = asked[p]
  BY <1>1, <1>2
<1> QED BY <1>1, <1>2, <1>3, <1>4, <1>5, Zenon

\* And back.
LEMMA OrderWhole ==
    ASSUME NEW p \in Transport, NEW oldest \in Nat, reqq'[p] \in Seq(RequestRecord),
           asked'[p] = oldest + Len(reqq'[p]),
           \A i \in DOMAIN reqq'[p] : reqq'[p][i].req = oldest + i,
           NEW x \in Nat, NEW y \in Nat, NEW z \in Nat,
           InTurn(Statuses(fifo'[UpperPipe[p]]), oldest, x),
           InTurn(StatusesTo(p, out'["udp"]), x, y),
           InTurn(Requests(fifo'[LowerPipe[p]]), y, z),
           InTurn(RequestsTo(p, out'["sock"]), z, asked'[p])
    PROVE  InOrder(p)'
<1>1. Len(reqq'[p]) \in Nat
  OBVIOUS
<1>2. /\ Len(reqq'[p]) <= asked'[p] /\ oldest = asked'[p] - Len(reqq'[p])
      /\ asked'[p] \in Nat
  BY <1>1
<1>3. x <= y /\ y <= z /\ z <= asked'[p]
  BY DEF InTurn
<1>4. x \in 0 .. asked'[p] /\ y \in 0 .. asked'[p] /\ z \in 0 .. asked'[p]
  BY <1>2, <1>3
<1>5. \E a, b, c \in 0 .. asked'[p] :
         /\ InTurn(Statuses(fifo'[UpperPipe[p]]), oldest, a)
         /\ InTurn(StatusesTo(p, out'["udp"]), a, b)
         /\ InTurn(Requests(fifo'[LowerPipe[p]]), b, c)
         /\ InTurn(RequestsTo(p, out'["sock"]), c, asked'[p])
  BY <1>4
<1> QED BY <1>2, <1>5, Zenon DEF InOrder

\* A queue whose requests are numbered from oldest + 1, with one more, and one less.
LEMMA QueueAppend ==
    ASSUME NEW q \in Seq(RequestRecord), NEW r \in RequestRecord, NEW oldest \in Nat,
           \A i \in DOMAIN q : q[i].req = oldest + i, r.req = oldest + Len(q) + 1
    PROVE  /\ Append(q, r) \in Seq(RequestRecord) /\ Len(Append(q, r)) = Len(q) + 1
           /\ \A i \in DOMAIN Append(q, r) : Append(q, r)[i].req = oldest + i
<1>1. \A i \in DOMAIN Append(q, r) : Append(q, r)[i].req = oldest + i
  <2> TAKE i \in DOMAIN Append(q, r)
  <2>1. CASE i = Len(q) + 1
    <3>1. Append(q, r)[i] = r
      BY <2>1
    <3> QED BY <2>1, <3>1
  <2>2. CASE i # Len(q) + 1
    <3>1. i \in DOMAIN q /\ Append(q, r)[i] = q[i]
      BY <2>2
    <3> QED BY <3>1
  <2> QED BY <2>1, <2>2
<1> QED BY <1>1

LEMMA QueueTail ==
    ASSUME NEW q \in Seq(RequestRecord), q # <<>>, NEW oldest \in Nat,
           \A i \in DOMAIN q : q[i].req = oldest + i
    PROVE  /\ Tail(q) \in Seq(RequestRecord) /\ Len(Tail(q)) = Len(q) - 1
           /\ \A i \in DOMAIN Tail(q) : Tail(q)[i].req = (oldest + 1) + i
<1>1. \A i \in DOMAIN Tail(q) : Tail(q)[i].req = (oldest + 1) + i
  <2> TAKE i \in DOMAIN Tail(q)
  <2>1. i \in Nat /\ i + 1 \in DOMAIN q /\ Tail(q)[i] = q[i + 1]
    OBVIOUS
  <2>2. q[i + 1].req = oldest + (i + 1)
    BY <2>1
  <2> QED BY <2>1, <2>2
<1> QED BY <1>1

\* Where nothing is written, nothing is missing.
LEMMA NothingSent ==
    ASSUME NEW p, NEW sends, NEW l \in Nat, NEW h \in Nat
    PROVE  /\ (/\ \A i \in DOMAIN sends : ~ (/\ sends[i].to = UpperPipe[p]
                                            /\ sends[i].msg.type = "STATUS")
               /\ InTurn(StatusesTo(p, sends), l, h)) => l = h
           /\ (/\ \A i \in DOMAIN sends : ~ (/\ sends[i].to = LowerPipe[p]
                                            /\ sends[i].msg.type # "STATUS")
               /\ InTurn(RequestsTo(p, sends), l, h)) => l = h
<1>1. ASSUME \A i \in DOMAIN sends : ~ (/\ sends[i].to = UpperPipe[p]
                                       /\ sends[i].msg.type = "STATUS")
      PROVE  \A i \in DOMAIN StatusesTo(p, sends) : StatusesTo(p, sends)[i] = {}
  BY <1>1 DEF StatusesTo
<1>2. ASSUME \A i \in DOMAIN sends : ~ (/\ sends[i].to = LowerPipe[p]
                                       /\ sends[i].msg.type # "STATUS")
      PROVE  \A i \in DOMAIN RequestsTo(p, sends) : RequestsTo(p, sends)[i] = {}
  BY <1>2 DEF RequestsTo
<1> QED BY <1>1, <1>2, EmptyInTurn

\* The socket module makes a request.
LEMMA SockAsks ==
    ASSUME PipesOK, SockTypeOK, RequestsInOrder, fifo["app2sock"] # <<>>, out["sock"] = <<>>,
           NEW u \in Transport, NEW type \in srrType \ {"STATUS"}, NEW s \in Sock,
           Record(u, type, s),
           NEW sends, Receive("sock", "app2sock", sends), 1 \in DOMAIN sends,
           sends[1].to = LowerPipe[u], sends[1].msg.type # "STATUS",
           sends[1].msg.req = asked[u] + 1,
           \A i \in DOMAIN sends : i \in Nat /\ (i # 1 => sends[i].to = "sock2app")
    PROVE  InStep
<1> SUFFICES ASSUME NEW p \in Transport
             PROVE  InOrder(p)' /\ Moves(p)
  BY DEF InStep, RequestsInOrder
<1>1. InOrder(p)
  BY DEF RequestsInOrder
<1>2. /\ fifo'[UpperPipe[p]] = fifo[UpperPipe[p]]
      /\ fifo'[LowerPipe[p]] = fifo[LowerPipe[p]]
      /\ out'["sock"] = sends /\ out'["udp"] = out["udp"]
  BY DEF Receive, PipesOK, Transport, UpperPipe, LowerPipe, Fifo
<1>0. Moves(p)
  <2>1. Down(p)' = Down(p) \cup (IF p = u THEN {sends[1].msg} ELSE {})
    BY OneAsked
  <2>2. CASE p = u
    <3>1. asked'[p] = asked[p] + 1 /\ Len(reqq'[p]) = Len(reqq[p]) + 1
      BY <2>2 DEF Record, SockTypeOK
    <3> QED BY <2>1, <2>2, <3>1 DEF Moves
  <2>3. CASE p # u
    <3>1. asked'[p] = asked[p] /\ reqq'[p] = reqq[p]
      BY <2>3 DEF Record, SockTypeOK
    <3> QED BY <2>1, <2>3, <3>1 DEF Moves
  <2> QED BY <2>2, <2>3
<1> SUFFICES InOrder(p)'
  BY <1>0
<1>3. \A i \in DOMAIN out["sock"] : FALSE
  OBVIOUS
<1>4. CASE p # u
  <2>1. reqq'[p] = reqq[p] /\ asked'[p] = asked[p]
    BY <1>4 DEF Record, SockTypeOK
  <2>2. \A i \in DOMAIN sends : sends[i].to # LowerPipe[p]
    BY <1>4 DEF Transport, LowerPipe
  <2>3. /\ \A i \in DOMAIN RequestsTo(p, sends) : RequestsTo(p, sends)[i] = {}
        /\ \A i \in DOMAIN RequestsTo(p, out["sock"]) : RequestsTo(p, out["sock"])[i] = {}
    BY <1>3, <2>2 DEF RequestsTo
  <2>4. Keeps(RequestsTo(p, out["sock"]), RequestsTo(p, out'["sock"]))
    BY <1>2, <2>3, KeepsEmpty
  <2> QED BY <1>1, <1>2, <2>1, <2>4, KeepsSame, Quiet
<1>5. CASE p = u
  <2> DEFINE oldest == asked[p] - Len(reqq[p])
             r == [type |-> type, sock |-> s, req |-> asked[p] + 1]
  <2>1. /\ asked[p] \in Nat /\ Len(reqq[p]) \in Nat /\ oldest \in Nat
        /\ reqq[p] \in Seq(RequestRecord) /\ oldest + Len(reqq[p]) = asked[p]
        /\ \A i \in DOMAIN reqq[p] : reqq[p][i].req = oldest + i
    BY <1>1, OrderParts
  <2>2. PICK x, y, z \in 0 .. asked[p] :
                /\ x \in Nat /\ y \in Nat /\ z \in Nat
                /\ InTurn(Statuses(fifo[UpperPipe[p]]), oldest, x)
                /\ InTurn(StatusesTo(p, out["udp"]), x, y)
                /\ InTurn(Requests(fifo[LowerPipe[p]]), y, z)
                /\ InTurn(RequestsTo(p, out["sock"]), z, asked[p])
    BY <1>1, OrderParts
  <2>3. r \in RequestRecord
    BY <2>1 DEF RequestRecord
  <2>4. reqq'[p] = Append(reqq[p], r) /\ asked'[p] = asked[p] + 1
    BY <1>5 DEF Record, SockTypeOK
  <2>5. /\ reqq'[p] \in Seq(RequestRecord) /\ Len(reqq'[p]) = Len(reqq[p]) + 1
        /\ \A i \in DOMAIN reqq'[p] : reqq'[p][i].req = oldest + i
    <3>1. r.req = oldest + Len(reqq[p]) + 1
      BY <2>1
    <3> DEFINE q == reqq[p]
    <3>2. /\ q \in Seq(RequestRecord) /\ oldest \in Nat
          /\ \A i \in DOMAIN q : q[i].req = oldest + i
          /\ r.req = oldest + Len(q) + 1
      BY <2>1, <3>1
    <3> HIDE DEF q, r, oldest
    <3>3. /\ Append(q, r) \in Seq(RequestRecord) /\ Len(Append(q, r)) = Len(q) + 1
          /\ \A i \in DOMAIN Append(q, r) : Append(q, r)[i].req = oldest + i
      BY <2>3, <3>2, QueueAppend
    <3> QED BY <2>4, <3>3 DEF q
  <2>6. z = asked[p]
    BY <1>3, <2>1, <2>2, NothingSent
  <2>7. InTurn(RequestsTo(p, sends), asked[p], asked[p] + 1)
    <3>1. /\ DOMAIN RequestsTo(p, sends) = DOMAIN sends
          /\ RequestsTo(p, sends)[1] = {asked[p] + 1}
      BY <1>5 DEF RequestsTo
    <3>2. \A i \in DOMAIN sends : i # 1 => RequestsTo(p, sends)[i] = {}
      BY DEF RequestsTo, Transport, LowerPipe
    <3> QED BY <2>1, <3>1, <3>2, OneInTurn
  <2>8. /\ asked'[p] = oldest + Len(reqq'[p])
        /\ InTurn(RequestsTo(p, out'["sock"]), z, asked'[p])
    BY <1>2, <2>1, <2>4, <2>5, <2>6, <2>7
  <2> HIDE DEF oldest
  <2> QED BY <1>2, <2>1, <2>2, <2>5, <2>8, OrderWhole
<1> QED BY <1>4, <1>5

\* A STATUS that comes up is for the oldest request.
LEMMA StatusIsForOldest ==
    ASSUME PipesOK, SockTypeOK, NEW p \in Transport, InOrder(p),
           fifo[UpperPipe[p]] # <<>>, Head(fifo[UpperPipe[p]]).type = "STATUS"
    PROVE  /\ reqq[p] # <<>>
           /\ Head(reqq[p]).req = Head(fifo[UpperPipe[p]]).req
           /\ \A l, x \in Nat :
                InTurn(Statuses(fifo[UpperPipe[p]]), l, x)
                   => InTurn(Statuses(Tail(fifo[UpperPipe[p]])), l + 1, x)
<1> DEFINE q == fifo[UpperPipe[p]]
           t == Tail(q)
           n == Len(q)
           oldest == asked[p] - Len(reqq[p])
<1>1. /\ n \in Nat /\ n > 0 /\ Head(q) = q[1] /\ 1 \in DOMAIN q /\ Shorter(t, q, n)
      /\ Statuses(q) \in [1 .. n -> Cells]
  BY StreamTypes, TailIs, StreamCells
<1>2. /\ asked[p] \in Nat /\ Len(reqq[p]) \in Nat /\ oldest \in Nat
      /\ reqq[p] \in Seq(RequestRecord) /\ oldest + Len(reqq[p]) = asked[p]
      /\ \A i \in DOMAIN reqq[p] : reqq[p][i].req = oldest + i
  BY OrderParts
<1>3. PICK x \in 0 .. asked[p] : x \in Nat /\ InTurn(Statuses(q), oldest, x)
  BY OrderParts
<1> q[1].type = "STATUS"
  BY <1>1
<1> HIDE DEF q, t, n, oldest
<1>4. Statuses(q)[1] = {q[1].req}
  BY <1>1, NumberAt
<1>5. Shorter(Statuses(t), Statuses(q), n)
  BY <1>1, NumbersOfTail
<1>6. ASSUME NEW l \in Nat, NEW h \in Nat, InTurn(Statuses(q), l, h)
      PROVE  Statuses(q)[1] = {l + 1} /\ l < h /\ InTurn(Statuses(t), l + 1, h)
  <2>1. \/ Statuses(q)[1] = {}
        \/ Statuses(q)[1] = {l + 1} /\ l < h /\ InTurn(Statuses(t), l + 1, h)
    BY <1>1, <1>5, <1>6, TailInTurn
  <2> QED BY <1>4, <2>1
<1>7. q[1].req = oldest + 1 /\ oldest < x
  BY <1>2, <1>3, <1>4, <1>6
<1>8. Len(reqq[p]) > 0
  BY <1>2, <1>3, <1>7
<1>9. reqq[p] # <<>> /\ Head(reqq[p]) = reqq[p][1] /\ 1 \in DOMAIN reqq[p]
  BY <1>2, <1>8
<1>10. Head(reqq[p]).req = oldest + 1
  BY <1>2, <1>9
<1> QED BY <1>1, <1>6, <1>7, <1>9, <1>10 DEF q, t

\* The socket module hears it, and tells at most the application.
LEMMA SockHears ==
    ASSUME PipesOK, SockTypeOK, RequestsInOrder, out["sock"] = <<>>,
           NEW u \in Transport, NEW type, StatusFor(u, type),
           NEW sends, Receive("sock", UpperPipe[u], sends),
           \A i \in DOMAIN sends : sends[i].to = "sock2app"
    PROVE  InStep
<1> SUFFICES ASSUME NEW p \in Transport
             PROVE  InOrder(p)' /\ Moves(p)
  BY DEF InStep, RequestsInOrder
<1>1. InOrder(p)
  BY DEF RequestsInOrder
<1>2. /\ fifo'[UpperPipe[p]] = IF p = u THEN Tail(fifo[UpperPipe[p]])
                                        ELSE fifo[UpperPipe[p]]
      /\ fifo'[LowerPipe[p]] = fifo[LowerPipe[p]]
      /\ out'["sock"] = sends /\ out'["udp"] = out["udp"]
  BY DEF Receive, PipesOK, Transport, UpperPipe, LowerPipe, Fifo
<1>0. Moves(p)
  <2>1. UpperPipe[u] \in {"app2sock", "tcp2sock", "udp2sock"}
    BY DEF Transport, UpperPipe
  <2>2. Down(p)' = Down(p)
    BY <2>1, NothingAsked
  <2>3. /\ asked'[p] = asked[p]
        /\ reqq'[p] = reqq[p] \/ Len(reqq'[p]) = Len(reqq[p]) - 1
    BY DEF StatusFor, SockTypeOK
  <2> QED BY <2>2, <2>3 DEF Moves
<1> SUFFICES InOrder(p)'
  BY <1>0
<1>3. Keeps(RequestsTo(p, out["sock"]), RequestsTo(p, out'["sock"]))
  <2>1. \A i \in DOMAIN sends : sends[i].to # LowerPipe[p]
    BY DEF Transport, LowerPipe
  <2>2. /\ \A i \in DOMAIN RequestsTo(p, sends) : RequestsTo(p, sends)[i] = {}
        /\ \A i \in DOMAIN RequestsTo(p, out["sock"]) : RequestsTo(p, out["sock"])[i] = {}
    BY <2>1 DEF RequestsTo
  <2> QED BY <1>2, <2>2, KeepsEmpty
<1>4. CASE p # u
  <2>1. reqq'[p] = reqq[p] /\ asked'[p] = asked[p]
    BY <1>4 DEF StatusFor, SockTypeOK
  <2> QED BY <1>1, <1>2, <1>3, <1>4, <2>1, KeepsSame, Quiet
<1>5. CASE p = u
  <2> DEFINE oldest == asked[p] - Len(reqq[p])
  <2>1. /\ asked[p] \in Nat /\ Len(reqq[p]) \in Nat /\ oldest \in Nat
        /\ reqq[p] \in Seq(RequestRecord) /\ oldest + Len(reqq[p]) = asked[p]
        /\ \A i \in DOMAIN reqq[p] : reqq[p][i].req = oldest + i
    BY <1>1, OrderParts
  <2>2. PICK x, y, z \in 0 .. asked[p] :
                /\ x \in Nat /\ y \in Nat /\ z \in Nat
                /\ InTurn(Statuses(fifo[UpperPipe[p]]), oldest, x)
                /\ InTurn(StatusesTo(p, out["udp"]), x, y)
                /\ InTurn(Requests(fifo[LowerPipe[p]]), y, z)
                /\ InTurn(RequestsTo(p, out["sock"]), z, asked[p])
    BY <1>1, OrderParts
  <2>3. /\ fifo[UpperPipe[p]] # <<>> /\ Head(fifo[UpperPipe[p]]).type = "STATUS"
        /\ reqq[p] # <<>> /\ reqq'[p] = Tail(reqq[p]) /\ asked'[p] = asked[p]
    BY <1>5 DEF StatusFor, LowerSends, GetNextEvent, Message, SockTypeOK
  <2>4. InTurn(Statuses(fifo'[UpperPipe[p]]), oldest + 1, x)
    BY <1>1, <1>2, <1>5, <2>1, <2>2, <2>3, StatusIsForOldest
  <2>5. /\ reqq'[p] \in Seq(RequestRecord) /\ Len(reqq'[p]) = Len(reqq[p]) - 1
        /\ \A i \in DOMAIN reqq'[p] : reqq'[p][i].req = (oldest + 1) + i
    <3> DEFINE q == reqq[p]
    <3>1. /\ q \in Seq(RequestRecord) /\ q # <<>> /\ oldest \in Nat
          /\ \A i \in DOMAIN q : q[i].req = oldest + i
      BY <2>1, <2>3
    <3> HIDE DEF q, oldest
    <3>2. /\ Tail(q) \in Seq(RequestRecord) /\ Len(Tail(q)) = Len(q) - 1
          /\ \A i \in DOMAIN Tail(q) : Tail(q)[i].req = (oldest + 1) + i
      BY <3>1, QueueTail
    <3> QED BY <2>3, <3>2 DEF q
  <2>6. asked'[p] = (oldest + 1) + Len(reqq'[p]) /\ oldest + 1 \in Nat
    BY <2>1, <2>3, <2>5
  <2>7. InTurn(RequestsTo(p, out'["sock"]), z, asked'[p])
    BY <1>3, <2>1, <2>2, <2>3 DEF Keeps
  <2> HIDE DEF oldest
  <2> QED BY <1>2, <2>2, <2>4, <2>5, <2>6, <2>7, OrderWhole
<1> QED BY <1>4, <1>5

----------------------------------------------------------------------------
(* The writes of the two modules *)

LEMMA Sent ==
    ASSUME PipesOK, NEW m \in {"sock", "udp"}, Send(m), NEW e, e = Head(out[m])
    PROVE  /\ e.to \in Fifo /\ e.msg \in MessageOf(e.to) /\ out[m] # <<>>
           /\ m = "sock" => e.to \in {"sock2app", "sock2udp", "sock2tcp"}
           /\ m = "udp" => e.to \in {"udp2sock", "udp2ipmux"}
           /\ fifo'[e.to] = Append(fifo[e.to], e.msg)
           /\ \A f \in Fifo : f # e.to => fifo'[f] = fifo[f]
           /\ out'[m] = Tail(out[m])
           /\ \A k \in {"sock", "udp"} : k # m => out'[k] = out[k]
<1>1. out[m] \in Seq(Sends(m)) /\ out[m] # <<>>
  BY DEF PipesOK, Send
<1>2. e \in Sends(m)
  BY <1>1, TailIs
<1>3. /\ e.to \in Fifo /\ e.msg \in MessageOf(e.to)
      /\ m = "sock" => e.to \in {"sock2app", "sock2udp", "sock2tcp"}
      /\ m = "udp" => e.to \in {"udp2sock", "udp2ipmux"}
  BY <1>2 DEF Sends, SendTo, Fifo
<1> QED BY <1>1, <1>3 DEF Send, PipesOK

\* What it writes was on its way before.
LEMMA SendKeepsDown ==
    ASSUME PipesOK, Send("sock"), NEW p \in Transport
    PROVE  Down(p)' = Down(p)
<1> DEFINE q == out["sock"]
           e == Head(q)
           f == LowerPipe[p]
<1>1. /\ q # <<>> /\ e.msg \in MessageOf(e.to)
      /\ fifo'[e.to] = Append(fifo[e.to], e.msg)
      /\ \A g \in Fifo : g # e.to => fifo'[g] = fifo[g]
      /\ out'["sock"] = Tail(q)
  BY Sent
<1>2. f \in Fifo /\ fifo[f] \in Seq(MessageOf(f)) /\ q \in Seq(Sends("sock"))
  BY StreamTypes DEF PipesOK
<1>3. Down(p) = {m \in ToSet(fifo[f]) \cup SentTo(q, f) : m.type # "STATUS"}
  BY DEF Down
<1>4. Down(p)' = {m \in ToSet(fifo'[f]) \cup SentTo(Tail(q), f) : m.type # "STATUS"}
  BY <1>1 DEF Down
<1>5. SentTo(q, f) = SentTo(Tail(q), f) \cup (IF e.to = f THEN {e.msg} ELSE {})
  <2> HIDE DEF f, q
  <2> QED BY <1>1, <1>2, SentToTail
<1> HIDE DEF f, q, e
<1>6. ToSet(fifo'[f]) = ToSet(fifo[f]) \cup (IF e.to = f THEN {e.msg} ELSE {})
  <2>1. CASE e.to = f
    <3>1. e.msg \in MessageOf(f) /\ fifo'[f] = Append(fifo[f], e.msg)
      BY <1>1, <2>1
    <3>2. ToSet(Append(fifo[f], e.msg)) = ToSet(fifo[f]) \cup {e.msg}
      BY <1>2, <3>1, ToSetAppend
    <3> QED BY <2>1, <3>1, <3>2
  <2>2. CASE e.to # f
    BY <1>1, <1>2, <2>2
  <2> QED BY <2>1, <2>2
<1> QED BY <1>3, <1>4, <1>5, <1>6

LEMMA SockSends ==
    ASSUME PipesOK, SockTypeOK, RequestsInOrder, Send("sock"), UNCHANGED sockVars
    PROVE  InStep
<1> DEFINE e == Head(out["sock"])
<1> SUFFICES ASSUME NEW p \in Transport
             PROVE  InOrder(p)' /\ Moves(p)
  BY DEF InStep, RequestsInOrder
<1>1. InOrder(p) /\ reqq' = reqq /\ asked' = asked
  BY DEF RequestsInOrder, sockVars
<1>2. /\ e.to \in Fifo /\ e.msg \in MessageOf(e.to) /\ out["sock"] # <<>>
      /\ e.to \in {"sock2app", "sock2udp", "sock2tcp"}
      /\ fifo'[e.to] = Append(fifo[e.to], e.msg)
      /\ \A f \in Fifo : f # e.to => fifo'[f] = fifo[f]
      /\ out'["sock"] = Tail(out["sock"]) /\ out'["udp"] = out["udp"]
  BY Sent
<1>0. Moves(p)
  BY <1>1, SendKeepsDown DEF Moves
<1> SUFFICES InOrder(p)'
  BY <1>0
<1>3. UpperPipe[p] \in Fifo /\ UpperPipe[p] # e.to
  BY <1>2, StreamTypes DEF Transport, UpperPipe
<1>4. fifo'[UpperPipe[p]] = fifo[UpperPipe[p]]
  BY <1>2, <1>3
<1>5. e.to = LowerPipe[p] => e.msg \in SockRequestResponse
  BY <1>2 DEF MessageOf, Transport, LowerPipe
<1>6. CASE e.to = LowerPipe[p] /\ e.msg.type # "STATUS"
  <2> DEFINE oldest == asked[p] - Len(reqq[p])
  <2>1. /\ asked[p] \in Nat /\ Len(reqq[p]) \in Nat /\ oldest \in Nat
        /\ reqq[p] \in Seq(RequestRecord) /\ oldest + Len(reqq[p]) = asked[p]
        /\ \A i \in DOMAIN reqq[p] : reqq[p][i].req = oldest + i
    BY <1>1, OrderParts
  <2>2. PICK x, y, z \in 0 .. asked[p] :
                /\ x \in Nat /\ y \in Nat /\ z \in Nat
                /\ InTurn(Statuses(fifo[UpperPipe[p]]), oldest, x)
                /\ InTurn(StatusesTo(p, out["udp"]), x, y)
                /\ InTurn(Requests(fifo[LowerPipe[p]]), y, z)
                /\ InTurn(RequestsTo(p, out["sock"]), z, asked[p])
    BY <1>1, OrderParts
  <2>3. PICK w \in 0 .. asked[p] :
                /\ InTurn(Requests(Append(fifo[LowerPipe[p]], e.msg)), y, w)
                /\ InTurn(RequestsTo(p, Tail(out["sock"])), w, asked[p])
    BY <1>2, <1>5, <1>6, <2>1, <2>2, StreamTypes, RequestSent
  <2>4. w \in Nat
    BY <2>1
  <2>5. fifo'[LowerPipe[p]] = Append(fifo[LowerPipe[p]], e.msg)
    BY <1>2, <1>6
  <2> HIDE DEF oldest, e
  <2> QED BY <1>1, <1>2, <1>4, <2>1, <2>2, <2>3, <2>4, <2>5, OrderWhole
<1>7. CASE ~ (e.to = LowerPipe[p] /\ e.msg.type # "STATUS")
  <2>1. Keeps(RequestsTo(p, out["sock"]), RequestsTo(p, out'["sock"]))
    BY <1>2, <1>7, StreamTypes, SentTail
  <2>2. Keeps(Requests(fifo[LowerPipe[p]]), Requests(fifo'[LowerPipe[p]]))
    <3>1. CASE e.to = LowerPipe[p]
      BY <1>2, <1>5, <1>7, <3>1, StreamTypes, StreamAppend
    <3>2. CASE e.to # LowerPipe[p]
      BY <1>2, <3>2, StreamTypes, KeepsSame
    <3> QED BY <3>1, <3>2
  <2> HIDE DEF e
  <2> QED BY <1>1, <1>2, <1>4, <2>1, <2>2, KeepsSame, Quiet
<1> QED BY <1>6, <1>7

LEMMA UdpSends ==
    ASSUME PipesOK, SockTypeOK, RequestsInOrder, Send("udp"), UNCHANGED sockVars
    PROVE  InStep
<1> DEFINE e == Head(out["udp"])
<1> SUFFICES ASSUME NEW p \in Transport
             PROVE  InOrder(p)' /\ Moves(p)
  BY DEF InStep, RequestsInOrder
<1>1. InOrder(p) /\ reqq' = reqq /\ asked' = asked
  BY DEF RequestsInOrder, sockVars
<1>2. /\ e.to \in Fifo /\ e.msg \in MessageOf(e.to) /\ out["udp"] # <<>>
      /\ e.to \in {"udp2sock", "udp2ipmux"}
      /\ fifo'[e.to] = Append(fifo[e.to], e.msg)
      /\ \A f \in Fifo : f # e.to => fifo'[f] = fifo[f]
      /\ out'["udp"] = Tail(out["udp"]) /\ out'["sock"] = out["sock"]
  BY Sent
<1>3. LowerPipe[p] \in Fifo /\ LowerPipe[p] # e.to
  BY <1>2, StreamTypes DEF Transport, LowerPipe
<1>4. fifo'[LowerPipe[p]] = fifo[LowerPipe[p]]
  BY <1>2, <1>3
<1>0. Moves(p)
  BY <1>1, <1>2, <1>4, DownSame DEF Moves
<1> SUFFICES InOrder(p)'
  BY <1>0
<1>5. e.to = UpperPipe[p] => e.msg \in SockRequestResponse
  BY <1>2 DEF MessageOf, Transport, UpperPipe
<1>6. CASE e.to = UpperPipe[p] /\ e.msg.type = "STATUS"
  <2> DEFINE oldest == asked[p] - Len(reqq[p])
  <2>1. /\ asked[p] \in Nat /\ Len(reqq[p]) \in Nat /\ oldest \in Nat
        /\ reqq[p] \in Seq(RequestRecord) /\ oldest + Len(reqq[p]) = asked[p]
        /\ \A i \in DOMAIN reqq[p] : reqq[p][i].req = oldest + i
    BY <1>1, OrderParts
  <2>2. PICK x, y, z \in 0 .. asked[p] :
                /\ x \in Nat /\ y \in Nat /\ z \in Nat
                /\ InTurn(Statuses(fifo[UpperPipe[p]]), oldest, x)
                /\ InTurn(StatusesTo(p, out["udp"]), x, y)
                /\ InTurn(Requests(fifo[LowerPipe[p]]), y, z)
                /\ InTurn(RequestsTo(p, out["sock"]), z, asked[p])
    BY <1>1, OrderParts
  <2>3. PICK w \in 0 .. y :
                /\ InTurn(Statuses(Append(fifo[UpperPipe[p]], e.msg)), oldest, w)
                /\ InTurn(StatusesTo(p, Tail(out["udp"])), w, y)
    BY <1>2, <1>5, <1>6, <2>1, <2>2, StreamTypes, StatusSent
  <2>4. w \in Nat
    BY <2>2
  <2>5. fifo'[UpperPipe[p]] = Append(fifo[UpperPipe[p]], e.msg)
    BY <1>2, <1>6
  <2> HIDE DEF oldest, e
  <2> QED BY <1>1, <1>2, <1>4, <2>1, <2>2, <2>3, <2>4, <2>5, OrderWhole
<1>7. CASE ~ (e.to = UpperPipe[p] /\ e.msg.type = "STATUS")
  <2>1. Keeps(StatusesTo(p, out["udp"]), StatusesTo(p, out'["udp"]))
    BY <1>2, <1>7, StreamTypes, SentTail
  <2>2. Keeps(Statuses(fifo[UpperPipe[p]]), Statuses(fifo'[UpperPipe[p]]))
    <3>1. CASE e.to = UpperPipe[p]
      BY <1>2, <1>5, <1>7, <3>1, StreamTypes, StreamAppend
    <3>2. CASE e.to # UpperPipe[p]
      BY <1>2, <3>2, StreamTypes, KeepsSame
    <3> QED BY <3>1, <3>2
  <2> HIDE DEF e
  <2> QED BY <1>1, <1>2, <1>4, <2>1, <2>2, KeepsSame, Quiet
<1> QED BY <1>6, <1>7

----------------------------------------------------------------------------
(* The transport modules *)

\* The next request down is the one after those that were answered.
LEMMA RequestIsNext ==
    ASSUME PipesOK, NEW p \in Transport,
           fifo[LowerPipe[p]] # <<>>, Head(fifo[LowerPipe[p]]).type # "STATUS",
           NEW l \in Nat, NEW h \in Nat, InTurn(Requests(fifo[LowerPipe[p]]), l, h)
    PROVE  /\ Head(fifo[LowerPipe[p]]).req = l + 1
           /\ InTurn(Requests(Tail(fifo[LowerPipe[p]])), l + 1, h)
<1> DEFINE q == fifo[LowerPipe[p]]
           t == Tail(q)
           n == Len(q)
<1>1. /\ n \in Nat /\ n > 0 /\ Head(q) = q[1] /\ 1 \in DOMAIN q /\ Shorter(t, q, n)
      /\ Requests(q) \in [1 .. n -> Cells]
  BY StreamTypes, TailIs, StreamCells
<1>2. q[1].type # "STATUS" /\ InTurn(Requests(q), l, h)
  BY <1>1
<1> HIDE DEF q, t, n
<1>3. Requests(q)[1] = {q[1].req}
  BY <1>1, <1>2, NumberAt
<1>4. Shorter(Requests(t), Requests(q), n)
  BY <1>1, NumbersOfTail
<1>5. \/ Requests(q)[1] = {}
      \/ Requests(q)[1] = {l + 1} /\ InTurn(Requests(t), l + 1, h)
  BY <1>1, <1>2, <1>4, TailInTurn
<1>6. q[1].req = l + 1 /\ InTurn(Requests(t), l + 1, h)
  BY <1>3, <1>5
<1> QED BY <1>1, <1>6 DEF q, t

\* A transport module reads the next message of the socket module.
LEMMA DownTaken ==
    ASSUME PipesOK, SockTypeOK, NEW p \in Transport, InOrder(p), fifo[LowerPipe[p]] # <<>>,
           NEW r, r = Head(fifo[LowerPipe[p]]),
           fifo'[LowerPipe[p]] = Tail(fifo[LowerPipe[p]]), out'["sock"] = out["sock"]
    PROVE  /\ r.type = "STATUS" => Down(p)' = Down(p)
           /\ r.type # "STATUS" =>
                /\ Down(p) = Down(p)' \cup {r}
                /\ \A m \in Down(p)' : r.req < m.req
<1> DEFINE q == fifo[LowerPipe[p]]
           t == Tail(q)
           s == SentTo(out["sock"], LowerPipe[p])
<1>1. q \in Seq(SockRequestResponse) /\ q # <<>> /\ r = Head(q)
  BY StreamTypes
<1>2. ToSet(q) = ToSet(t) \cup {r} /\ r \in SockRequestResponse
  BY <1>1, ToSetTail
<1>3. Down(p) = {m \in ToSet(q) \cup s : m.type # "STATUS"}
  BY DEF Down
<1>4. Down(p)' = {m \in ToSet(t) \cup s : m.type # "STATUS"}
  BY DEF Down
<1>5. ASSUME r.type # "STATUS", NEW m \in Down(p)'
      PROVE  r.req < m.req
  <2>1. PICK x, y, z \in 0 .. asked[p] :
                /\ x \in Nat /\ y \in Nat /\ z \in Nat
                /\ InTurn(Requests(q), y, z)
                /\ InTurn(RequestsTo(p, out["sock"]), z, asked[p])
    BY OrderParts
  <2>2. r.req = y + 1 /\ InTurn(Requests(t), y + 1, z)
    BY <1>5, <2>1, RequestIsNext
  <2>3. m.type # "STATUS" /\ m.req \in Nat
    <3>1. m \in Down(p)
      BY <1>2, <1>3, <1>4, <1>5
    <3> QED BY <3>1, DownIs
  <2>4. y + 1 <= z
    BY <2>2 DEF InTurn
  <2>5. CASE m \in ToSet(t)
    <3>1. y + 1 < m.req
      BY <2>2, <2>3, <2>5, InRequests DEF InTurn
    <3> QED BY <2>2, <3>1
  <2>6. CASE m \in s
    <3>1. z < m.req
      BY <2>1, <2>3, <2>6, InRequestsTo DEF InTurn
    <3> QED BY <2>1, <2>2, <2>3, <2>4, <3>1
  <2> QED BY <1>4, <1>5, <2>5, <2>6
<1> HIDE DEF q, t, s
<1> QED BY <1>2, <1>3, <1>4, <1>5

\* The UDP module takes a datagram or a STATUS, and answers nothing.
LEMMA UdpQuiet ==
    ASSUME PipesOK, SockTypeOK, RequestsInOrder, UNCHANGED sockVars, out["udp"] = <<>>,
           NEW f \in {"ipmux2udp", "sock2udp"}, fifo[f] # <<>>,
           f = "sock2udp" => Head(fifo[f]).type = "STATUS",
           NEW sends, Receive("udp", f, sends),
           \A i \in DOMAIN sends : sends[i].to = "udp2ipmux" \/ sends[i].msg.type # "STATUS"
    PROVE  InStep
<1> SUFFICES ASSUME NEW p \in Transport
             PROVE  InOrder(p)' /\ Moves(p)
  BY DEF InStep, RequestsInOrder
<1>1. InOrder(p) /\ reqq' = reqq /\ asked' = asked
  BY DEF RequestsInOrder, sockVars
<1>2. /\ fifo'[LowerPipe[p]] = IF f = LowerPipe[p] THEN Tail(fifo[f])
                                                   ELSE fifo[LowerPipe[p]]
      /\ fifo'[UpperPipe[p]] = fifo[UpperPipe[p]]
      /\ out'["udp"] = sends /\ out'["sock"] = out["sock"]
  BY DEF Receive, PipesOK, Transport, UpperPipe, LowerPipe, Fifo
<1>0. Moves(p)
  <2>1. Down(p)' = Down(p)
    <3>1. CASE f = LowerPipe[p]
      <4>1. f = "sock2udp"
        BY <3>1 DEF Transport, LowerPipe
      <4> QED BY <1>1, <1>2, <3>1, <4>1, DownTaken
    <3> QED BY <1>2, <3>1, DownSame
  <2> QED BY <1>1, <2>1 DEF Moves
<1> SUFFICES InOrder(p)'
  BY <1>0
<1>3. Keeps(Requests(fifo[LowerPipe[p]]), Requests(fifo'[LowerPipe[p]]))
  <2>1. CASE f = LowerPipe[p]
    <3>1. f = "sock2udp"
      BY <2>1 DEF Transport, LowerPipe
    <3> QED BY <1>2, <2>1, <3>1, StreamTypes, StreamTail
  <2> QED BY <1>2, <2>1, KeepsSame
<1>4. Keeps(StatusesTo(p, out["udp"]), StatusesTo(p, out'["udp"]))
  <2>1. /\ \A i \in DOMAIN StatusesTo(p, sends) : StatusesTo(p, sends)[i] = {}
        /\ \A i \in DOMAIN StatusesTo(p, out["udp"]) : StatusesTo(p, out["udp"])[i] = {}
    BY DEF StatusesTo, Transport, UpperPipe
  <2> QED BY <1>2, <2>1, KeepsEmpty
<1> QED BY <1>1, <1>2, <1>3, <1>4, KeepsSame, Quiet

\* The UDP module answers a request: one of its sends is the STATUS.
LEMMA UdpReplies ==
    ASSUME PipesOK, SockTypeOK, RequestsInOrder, UNCHANGED sockVars, out["udp"] = <<>>,
           fifo["sock2udp"] # <<>>, Head(fifo["sock2udp"]).type # "STATUS",
           NEW sends, Receive("udp", "sock2udp", sends), NEW k \in DOMAIN sends,
           sends[k].to = "udp2sock", sends[k].msg.type = "STATUS",
           sends[k].msg.req = Head(fifo["sock2udp"]).req,
           \A i \in DOMAIN sends : i \in Nat /\ (i # k => sends[i].to = "udp2ipmux")
    PROVE  InStep
<1> SUFFICES ASSUME NEW p \in Transport
             PROVE  InOrder(p)' /\ Moves(p)
  BY DEF InStep, RequestsInOrder
<1>1. InOrder(p) /\ reqq' = reqq /\ asked' = asked
  BY DEF RequestsInOrder, sockVars
<1>2. /\ fifo'[LowerPipe[p]] = IF p = "udp" THEN Tail(fifo[LowerPipe[p]])
                                            ELSE fifo[LowerPipe[p]]
      /\ fifo'[UpperPipe[p]] = fifo[UpperPipe[p]]
      /\ out'["udp"] = sends /\ out'["sock"] = out["sock"]
  BY DEF Receive, PipesOK, Transport, UpperPipe, LowerPipe, Fifo
<1>0. Moves(p)
  <2>1. CASE p = "udp"
    <3> DEFINE r == Head(fifo["sock2udp"])
    <3>1. LowerPipe[p] = "sock2udp"
      BY <2>1 DEF LowerPipe
    <3>2. Down(p) = Down(p)' \cup {r} /\ \A m \in Down(p)' : r.req < m.req
      BY <1>1, <1>2, <2>1, <3>1, DownTaken
    <3> QED BY <1>1, <3>2 DEF Moves
  <2>2. CASE p # "udp"
    BY <1>1, <1>2, <2>2, DownSame DEF Moves
  <2> QED BY <2>1, <2>2
<1> SUFFICES InOrder(p)'
  BY <1>0
<1>3. CASE p = "tcp"
  <2>1. /\ \A i \in DOMAIN StatusesTo(p, sends) : StatusesTo(p, sends)[i] = {}
        /\ \A i \in DOMAIN StatusesTo(p, out["udp"]) : StatusesTo(p, out["udp"])[i] = {}
    BY <1>3 DEF StatusesTo, UpperPipe
  <2>2. Keeps(StatusesTo(p, out["udp"]), StatusesTo(p, out'["udp"]))
    BY <1>2, <2>1, KeepsEmpty
  <2> QED BY <1>1, <1>2, <1>3, <2>2, KeepsSame, Quiet
<1>4. CASE p = "udp"
  <2> DEFINE oldest == asked[p] - Len(reqq[p])
  <2>1. /\ asked[p] \in Nat /\ Len(reqq[p]) \in Nat /\ oldest \in Nat
        /\ reqq[p] \in Seq(RequestRecord) /\ oldest + Len(reqq[p]) = asked[p]
        /\ \A i \in DOMAIN reqq[p] : reqq[p][i].req = oldest + i
    BY <1>1, OrderParts
  <2>2. PICK x, y, z \in 0 .. asked[p] :
                /\ x \in Nat /\ y \in Nat /\ z \in Nat
                /\ InTurn(Statuses(fifo[UpperPipe[p]]), oldest, x)
                /\ InTurn(StatusesTo(p, out["udp"]), x, y)
                /\ InTurn(Requests(fifo[LowerPipe[p]]), y, z)
                /\ InTurn(RequestsTo(p, out["sock"]), z, asked[p])
    BY <1>1, OrderParts
  <2>3. LowerPipe[p] = "sock2udp" /\ UpperPipe[p] = "udp2sock"
    BY <1>4 DEF LowerPipe, UpperPipe
  <2>4. /\ Head(fifo["sock2udp"]).req = y + 1
        /\ InTurn(Requests(fifo'[LowerPipe[p]]), y + 1, z)
    BY <1>2, <1>4, <2>2, <2>3, RequestIsNext
  <2>5. x = y
    <3>1. \A i \in DOMAIN out["udp"] : FALSE
      OBVIOUS
    <3> QED BY <2>2, <3>1, NothingSent
  <2>6. InTurn(StatusesTo(p, sends), x, x + 1)
    <3>1. DOMAIN StatusesTo(p, sends) = DOMAIN sends
      BY DEF StatusesTo
    <3>2. StatusesTo(p, sends)[k] = {x + 1}
      BY <2>3, <2>4, <2>5 DEF StatusesTo
    <3>3. \A i \in DOMAIN sends : i # k => StatusesTo(p, sends)[i] = {}
      BY <2>3 DEF StatusesTo
    <3> QED BY <2>2, <3>1, <3>2, <3>3, OneInTurn
  <2>7. x + 1 \in Nat
    BY <2>2
  <2> HIDE DEF oldest
  <2> QED BY <1>1, <1>2, <2>1, <2>2, <2>4, <2>5, <2>6, <2>7, OrderWhole
<1> QED BY <1>3, <1>4 DEF Transport

\* No STATUS of the TCP module waits in a module of ours.
LEMMA TcpAnswersAtOnce ==
    ASSUME PipesOK
    PROVE  \A i \in DOMAIN out["udp"] : out["udp"][i].to # UpperPipe["tcp"]
<1>1. \A e \in Sends("udp") : e.to # UpperPipe["tcp"]
  BY DEF Sends, SendTo, UpperPipe
<1> QED BY <1>1 DEF PipesOK

LEMMA PeerAnswersInOrder ==
    ASSUME PipesOK, SockTypeOK, RequestsInOrder, PeerAnswers, UNCHANGED sockVars
    PROVE  InStep
<1> DEFINE r == PeerRequest
<1> SUFFICES ASSUME NEW p \in Transport
             PROVE  InOrder(p)' /\ Moves(p)
  BY DEF InStep, RequestsInOrder
<1>1. InOrder(p) /\ reqq' = reqq /\ asked' = asked /\ out' = out
  BY DEF RequestsInOrder, sockVars, PeerAnswers
<1>2. fifo["sock2tcp"] # <<>> /\ r.type # "STATUS"
  BY DEF PeerAnswers
<1>3. PICK err \in {"EOK", "ECONN_FAILED"} :
         fifo' = [fifo EXCEPT !["sock2tcp"] = Tail(@),
                    !["tcp2sock"] = Append(@,
                       [type |-> "STATUS", connection |-> r.connection, data |-> 0,
                        bytes |-> r.data, error |-> err, req |-> r.req])]
  BY Zenon DEF PeerAnswers
<1> DEFINE a == [type |-> "STATUS", connection |-> r.connection, data |-> 0,
                 bytes |-> r.data, error |-> err, req |-> r.req]
<1>4. /\ fifo'["sock2tcp"] = Tail(fifo["sock2tcp"])
      /\ fifo'["tcp2sock"] = Append(fifo["tcp2sock"], a)
      /\ fifo'["sock2udp"] = fifo["sock2udp"] /\ fifo'["udp2sock"] = fifo["udp2sock"]
  BY <1>3 DEF PipesOK, Fifo
<1>0. Moves(p)
  <2>1. CASE p = "tcp"
    <3>1. LowerPipe[p] = "sock2tcp"
      BY <2>1 DEF LowerPipe
    <3>2. r = Head(fifo["sock2tcp"])
      BY DEF PeerRequest
    <3> HIDE DEF r, a
    <3>3. Down(p) = Down(p)' \cup {r} /\ \A m \in Down(p)' : r.req < m.req
      BY <1>1, <1>2, <1>4, <3>1, <3>2, DownTaken
    <3> QED BY <1>1, <3>3 DEF Moves
  <2>2. CASE p # "tcp"
    <3>1. LowerPipe[p] = "sock2udp"
      BY <2>2 DEF LowerPipe, Transport
    <3> QED BY <1>1, <1>4, <3>1, DownSame DEF Moves
  <2> QED BY <2>1, <2>2
<1> SUFFICES InOrder(p)'
  BY <1>0
<1>5. CASE p = "udp"
  <2>1. LowerPipe[p] = "sock2udp" /\ UpperPipe[p] = "udp2sock"
    BY <1>5 DEF LowerPipe, UpperPipe
  <2> HIDE DEF a
  <2> QED BY <1>1, <1>4, <2>1, KeepsSame, Quiet
<1>6. CASE p = "tcp"
  <2> DEFINE oldest == asked[p] - Len(reqq[p])
             q == fifo["tcp2sock"]
             n == Len(q)
             t == Append(q, a)
  <2>1. /\ asked[p] \in Nat /\ Len(reqq[p]) \in Nat /\ oldest \in Nat
        /\ reqq[p] \in Seq(RequestRecord) /\ oldest + Len(reqq[p]) = asked[p]
        /\ \A i \in DOMAIN reqq[p] : reqq[p][i].req = oldest + i
    BY <1>1, OrderParts
  <2>2. PICK x, y, z \in 0 .. asked[p] :
                /\ x \in Nat /\ y \in Nat /\ z \in Nat
                /\ InTurn(Statuses(fifo[UpperPipe[p]]), oldest, x)
                /\ InTurn(StatusesTo(p, out["udp"]), x, y)
                /\ InTurn(Requests(fifo[LowerPipe[p]]), y, z)
                /\ InTurn(RequestsTo(p, out["sock"]), z, asked[p])
    BY <1>1, OrderParts
  <2>3. LowerPipe[p] = "sock2tcp" /\ UpperPipe[p] = "tcp2sock"
    BY <1>6 DEF LowerPipe, UpperPipe
  <2>4. r.req = y + 1 /\ InTurn(Requests(fifo'[LowerPipe[p]]), y + 1, z)
    BY <1>2, <1>4, <2>2, <2>3, RequestIsNext DEF PeerRequest
  <2>5. x = y
    BY <1>6, <2>2, TcpAnswersAtOnce, NothingSent
  <2>6. q \in Seq(SockRequestResponse) /\ a \in SockRequestResponse
    <3>1. r \in SockRequestResponse
      BY <1>2, <2>3, StreamTypes, TailIs DEF PeerRequest
    <3> QED BY <2>3, <3>1, StreamTypes DEF SockRequestResponse, srrType, Error
  <2>7. n \in Nat /\ Longer(t, q, n) /\ n + 1 \in DOMAIN t /\ t[n + 1] = a
    BY <2>6, AppendIs
  <2>8. Statuses(q) \in [1 .. n -> Cells]
    BY <2>6, StreamCells
  <2>9. a.type = "STATUS" /\ a.req = x + 1
    BY <2>4, <2>5
  <2>10. fifo'[UpperPipe[p]] = t /\ InTurn(Statuses(q), oldest, x)
    BY <1>4, <2>2, <2>3
  <2> HIDE DEF oldest, q, n, t, a
  <2>11. Statuses(t)[n + 1] = {x + 1}
    BY <2>7, <2>9 DEF Statuses
  <2>12. Longer(Statuses(t), Statuses(q), n)
    BY <2>7, NumbersOfAppend
  <2>13. InTurn(Statuses(t), oldest, x + 1)
    BY <2>1, <2>2, <2>7, <2>8, <2>10, <2>11, <2>12, AppendInTurn
  <2>14. InTurn(StatusesTo(p, out["udp"]), x + 1, x + 1)
    <3>1. \A i \in DOMAIN StatusesTo(p, out["udp"]) : StatusesTo(p, out["udp"])[i] = {}
      BY <1>6, TcpAnswersAtOnce DEF StatusesTo
    <3> QED BY <2>2, <3>1, EmptyInTurn
  <2>15. x + 1 \in Nat
    BY <2>2
  <2> QED BY <1>1, <2>1, <2>2, <2>4, <2>5, <2>10, <2>13, <2>14, <2>15, OrderWhole
<1> QED BY <1>5, <1>6 DEF Transport

LEMMA PeerSendsInOrder ==
    ASSUME PipesOK, SockTypeOK, RequestsInOrder, UNCHANGED sockVars, out' = out,
           NEW w \in SockRequestResponse, w.type # "STATUS",
           fifo' = [fifo EXCEPT !["tcp2sock"] = Append(@, w)]
    PROVE  InStep
<1> SUFFICES ASSUME NEW p \in Transport
             PROVE  InOrder(p)' /\ Moves(p)
  BY DEF InStep, RequestsInOrder
<1>1. InOrder(p) /\ reqq' = reqq /\ asked' = asked
  BY DEF RequestsInOrder, sockVars
<1>2. /\ fifo'[LowerPipe[p]] = fifo[LowerPipe[p]]
      /\ fifo'[UpperPipe[p]] = IF p = "tcp" THEN Append(fifo[UpperPipe[p]], w)
                                            ELSE fifo[UpperPipe[p]]
  BY DEF PipesOK, Transport, UpperPipe, LowerPipe, Fifo
<1>0. Moves(p)
  BY <1>1, <1>2, DownSame DEF Moves
<1> SUFFICES InOrder(p)'
  BY <1>0
<1>3. Keeps(Statuses(fifo[UpperPipe[p]]), Statuses(fifo'[UpperPipe[p]]))
  <2>1. CASE p = "tcp"
    BY <1>2, <2>1, StreamTypes, StreamAppend
  <2> QED BY <1>2, <2>1, KeepsSame
<1> QED BY <1>1, <1>2, <1>3, KeepsSame, Quiet

LEMMA PeerIgnoresInOrder ==
    ASSUME PipesOK, SockTypeOK, RequestsInOrder, PeerIgnoresStatus, UNCHANGED sockVars
    PROVE  InStep
<1> SUFFICES ASSUME NEW p \in Transport
             PROVE  InOrder(p)' /\ Moves(p)
  BY DEF InStep, RequestsInOrder
<1>1. InOrder(p) /\ reqq' = reqq /\ asked' = asked /\ out' = out
  BY DEF RequestsInOrder, sockVars, PeerIgnoresStatus
<1>2. /\ fifo'[UpperPipe[p]] = fifo[UpperPipe[p]]
      /\ fifo'[LowerPipe[p]] = IF p = "tcp" THEN Tail(fifo[LowerPipe[p]])
                                            ELSE fifo[LowerPipe[p]]
  BY DEF PeerIgnoresStatus, PipesOK, Transport, UpperPipe, LowerPipe, Fifo
<1>0. Moves(p)
  <2>1. CASE p = "tcp"
    <3>1. LowerPipe[p] = "sock2tcp"
      BY <2>1 DEF LowerPipe
    <3>2. fifo["sock2tcp"] # <<>> /\ Head(fifo["sock2tcp"]).type = "STATUS"
      BY DEF PeerIgnoresStatus, PeerRequest
    <3>3. Down(p)' = Down(p)
      BY <1>1, <1>2, <2>1, <3>1, <3>2, DownTaken
    <3> QED BY <1>1, <3>3 DEF Moves
  <2>2. CASE p # "tcp"
    BY <1>1, <1>2, <2>2, DownSame DEF Moves
  <2> QED BY <2>1, <2>2
<1> SUFFICES InOrder(p)'
  BY <1>0
<1>3. Keeps(Requests(fifo[LowerPipe[p]]), Requests(fifo'[LowerPipe[p]]))
  <2>1. CASE p = "tcp"
    <3>1. fifo[LowerPipe[p]] # <<>> /\ Head(fifo[LowerPipe[p]]).type = "STATUS"
      BY <2>1 DEF PeerIgnoresStatus, PeerRequest, LowerPipe
    <3> QED BY <1>2, <2>1, <3>1, StreamTypes, StreamTail
  <2> QED BY <1>2, <2>1, KeepsSame
<1> QED BY <1>1, <1>2, <1>3, KeepsSame, Quiet

\* A step of the application or of the network leaves the streams alone.
LEMMA OthersInOrder ==
    ASSUME SockTypeOK, RequestsInOrder, UNCHANGED <<sockVars, out>>,
           \A p \in Transport : /\ fifo'[UpperPipe[p]] = fifo[UpperPipe[p]]
                                /\ fifo'[LowerPipe[p]] = fifo[LowerPipe[p]]
    PROVE  InStep
<1> SUFFICES ASSUME NEW p \in Transport
             PROVE  InOrder(p)' /\ Moves(p)
  BY DEF InStep, RequestsInOrder
<1>1. InOrder(p) /\ reqq' = reqq /\ asked' = asked /\ out' = out
  BY DEF RequestsInOrder, sockVars
<1>0. Moves(p)
  BY <1>1, DownSame DEF Moves
<1> SUFFICES InOrder(p)'
  BY <1>0
<1> QED BY <1>1, KeepsSame, Quiet

----------------------------------------------------------------------------
(* The application's calls *)

\* A call that is answered at once, or not at all.
LEMMA AppTells ==
    ASSUME PipesOK, SockTypeOK, RequestsInOrder, NEW type, AppCalls(type),
           reqq' = reqq, asked' = asked, NEW a, a.to = "sock2app",
           Receive("sock", "app2sock", <<a>>) \/ Receive("sock", "app2sock", <<>>)
    PROVE  InStep
<1>1. fifo["app2sock"] # <<>> /\ out["sock"] = <<>>
  BY DEF AppCalls, GetNextEvent
<1>2. PICK sends \in {<<a>>, <<>>} : Receive("sock", "app2sock", sends)
  OBVIOUS
<1>3. \A i \in DOMAIN sends : sends[i].to = "sock2app"
  OBVIOUS
<1> QED BY <1>1, <1>2, <1>3, SockQuiet

LEMMA RejectTells ==
    ASSUME PipesOK, SockTypeOK, RequestsInOrder, NEW type, AppCalls(type),
           NEW err, Reject(err)
    PROVE  InStep
<1> DEFINE a == Response(AppRequest.sockfd, err)
<1>1. a.to = "sock2app"
  BY DEF Response, ToApp
<1>2. Receive("sock", "app2sock", <<a>>) /\ reqq' = reqq /\ asked' = asked
  BY DEF Reject, sockVars
<1> HIDE DEF a
<1> QED BY <1>1, <1>2, AppTells

\* A call that is handed to a transport module.
LEMMA AppAsks ==
    ASSUME PipesOK, SockTypeOK, RequestsInOrder, NEW type, AppCalls(type),
           NEW u \in Transport, NEW t \in srrType \ {"STATUS"}, NEW s \in Sock,
           Record(u, t, s), NEW c, NEW data, NEW a, a.to = "sock2app",
           \/ Receive("sock", "app2sock", <<Request(u, t, c, data)>>)
           \/ Receive("sock", "app2sock", <<Request(u, t, c, data), a>>)
    PROVE  InStep
<1> DEFINE r == Request(u, t, c, data)
<1>1. fifo["app2sock"] # <<>> /\ out["sock"] = <<>>
  BY DEF AppCalls, GetNextEvent
<1>2. r.to = LowerPipe[u] /\ r.msg.type # "STATUS" /\ r.msg.req = asked[u] + 1
  BY DEF Request, ToLower
<1> HIDE DEF r
<1>3. PICK sends \in {<<r>>, <<r, a>>} : Receive("sock", "app2sock", sends)
  BY DEF r
<1>4. /\ 1 \in DOMAIN sends /\ sends[1] = r
      /\ \A i \in DOMAIN sends : i \in Nat /\ (i # 1 => sends[i].to = "sock2app")
  OBVIOUS
<1> QED BY <1>1, <1>2, <1>3, <1>4, SockAsks

LEMMA SockBindInOrder ==
    ASSUME PipesOK, SockTypeOK, RequestsInOrder, SockBind
    PROVE  InStep
<1> DEFINE s == AppRequest.sockfd
           bound(p) == LocalEnd(socks[s].connection, p)
           a(p) == ToApp([AppRequest EXCEPT !.type = "mSTATUS",
                            !.connection = LocalEnd(AppRequest.connection, p),
                            !.error = "EOK"])
<1>1. AppCalls("mBIND")
  BY Zenon DEF SockBind
<1>2. s \in Sock
  BY <1>1, AppRequestType
<1>3. CASE Reject("EINVALID_OP") \/ Reject("ERESOURCE_UNAVAIL")
  BY <1>1, <1>3, RejectTells
<1>4. ASSUME NEW p \in Port, Record("udp", "FORWARD", s),
             Receive("sock", "app2sock", <<Request("udp", "FORWARD", bound(p), 0)>>)
      PROVE  InStep
  <2>1. ToApp(0).to = "sock2app"
    BY DEF ToApp
  <2>2. "udp" \in Transport /\ "FORWARD" \in srrType \ {"STATUS"}
    BY DEF Transport, srrType
  <2> HIDE DEF bound, s
  <2> QED BY <1>1, <1>2, <1>4, <2>1, <2>2, AppAsks
<1>5. ASSUME NEW p \in Port, Receive("sock", "app2sock", <<a(p)>>), UNCHANGED <<reqq, asked>>
      PROVE  InStep
  <2>1. a(p).to = "sock2app"
    BY DEF ToApp
  <2> HIDE DEF a
  <2> QED BY <1>1, <1>5, <2>1, AppTells
<1> QED BY <1>3, <1>4, <1>5 DEF SockBind

LEMMA SockConnectInOrder ==
    ASSUME PipesOK, SockTypeOK, RequestsInOrder, SockConnect
    PROVE  InStep
<1> DEFINE s == AppRequest.sockfd
           c == AppRequest.connection
           proto == socks[s].connection.protocol
           src == IF socks[s].status = "BOUND" THEN socks[s].connection.src ELSE MyIPAddr
           full(p) == [src |-> src, srcport |-> p, dest |-> c.dest,
                       destport |-> c.destport, protocol |-> proto]
           type == IF proto = "udp" THEN "FORWARD" ELSE "CONNECT"
<1>1. AppCalls("mCONNECT")
  BY Zenon DEF SockConnect
<1>2. s \in Sock /\ socks[s] \in GoodRecord
  BY <1>1, AppRequestType DEF SockTypeOK
<1>3. CASE Reject("EINVALID_OP") \/ Reject("ERESOURCE_UNAVAIL")
  BY <1>1, <1>3, RejectTells
<1>4. ASSUME socks[s].toApp, NEW p \in Port, Record(proto, type, s),
             Receive("sock", "app2sock", <<Request(proto, type, full(p), 0)>>)
      PROVE  InStep
  <2>1. proto \in Transport /\ type \in srrType \ {"STATUS"}
    BY <1>2, <1>4, GoodRecordFields DEF srrType
  <2>2. ToApp(0).to = "sock2app"
    BY DEF ToApp
  <2> HIDE DEF full, proto, type, s
  <2> QED BY <1>1, <1>2, <1>4, <2>1, <2>2, AppAsks
<1> QED BY <1>3, <1>4 DEF SockConnect

LEMMA SockCloseInOrder ==
    ASSUME PipesOK, SockTypeOK, RequestsInOrder, SockClose
    PROVE  InStep
<1> DEFINE s == AppRequest.sockfd
           c == socks[s].connection
           proto == c.protocol
           a == Response(s, "EOK")
<1>1. AppCalls("mCLOSE")
  BY Zenon DEF SockClose
<1>2. s \in Sock /\ socks[s] \in GoodRecord
  BY <1>1, AppRequestType DEF SockTypeOK
<1>3. CASE Reject("EINVALID_OP")
  BY <1>1, <1>3, RejectTells
<1>4. CASE /\ socks[s].toApp /\ Record(proto, "CLOSE", s)
           /\ Receive("sock", "app2sock",
                <<Request(proto, "CLOSE", c, AppRequest.data), a>>)
  <2>1. proto \in Transport /\ "CLOSE" \in srrType \ {"STATUS"}
    BY <1>2, <1>4, GoodRecordFields DEF srrType
  <2>2. a.to = "sock2app"
    BY DEF Response, ToApp
  <2> HIDE DEF proto, c, a, s
  <2> QED BY <1>1, <1>2, <1>4, <2>1, <2>2, AppAsks
<1> QED BY <1>3, <1>4 DEF SockClose

LEMMA SockWriteInOrder ==
    ASSUME PipesOK, SockTypeOK, RequestsInOrder, SockWrite
    PROVE  InStep
<1> DEFINE s == AppRequest.sockfd
           c == socks[s].connection
           proto == c.protocol
<1>1. AppCalls("mWRITE")
  BY Zenon DEF SockWrite
<1>2. s \in Sock /\ socks[s] \in GoodRecord
  BY <1>1, AppRequestType DEF SockTypeOK
<1>3. CASE Reject("EINVALID_OP")
  BY <1>1, <1>3, RejectTells
<1>4. CASE /\ socks[s].toApp /\ Record(proto, "WRITE", s)
           /\ Receive("sock", "app2sock", <<Request(proto, "WRITE", c, AppRequest.data)>>)
  <2>1. proto \in Transport /\ "WRITE" \in srrType \ {"STATUS"}
    BY <1>2, <1>4, GoodRecordFields DEF srrType
  <2>2. ToApp(0).to = "sock2app"
    BY DEF ToApp
  <2> HIDE DEF proto, c, s
  <2> QED BY <1>1, <1>2, <1>4, <2>1, <2>2, AppAsks
<1> QED BY <1>3, <1>4 DEF SockWrite

LEMMA SockAcceptInOrder ==
    ASSUME PipesOK, SockTypeOK, RequestsInOrder, SockAccept
    PROVE  InStep
<1> DEFINE s == AppRequest.sockfd
           c == socks[s].connection
<1>1. AppCalls("mACCEPT")
  BY Zenon DEF SockAccept
<1>2. s \in Sock
  BY <1>1, AppRequestType
<1>3. CASE Reject("EINVALID_OP")
  BY <1>1, <1>3, RejectTells
<1>4. CASE /\ Record("tcp", "ACCEPT", s)
           /\ Receive("sock", "app2sock", <<Request("tcp", "ACCEPT", c, 0)>>)
  <2>1. "tcp" \in Transport /\ "ACCEPT" \in srrType \ {"STATUS"}
    BY DEF Transport, srrType
  <2>2. ToApp(0).to = "sock2app"
    BY DEF ToApp
  <2> HIDE DEF c, s
  <2> QED BY <1>1, <1>2, <1>4, <2>1, <2>2, AppAsks
<1> QED BY <1>3, <1>4 DEF SockAccept

LEMMA ResponseTells ==
    ASSUME PipesOK, SockTypeOK, RequestsInOrder, NEW type, AppCalls(type),
           reqq' = reqq, asked' = asked, NEW fd, NEW err,
           Receive("sock", "app2sock", <<Response(fd, err)>>)
    PROVE  InStep
<1> DEFINE a == Response(fd, err)
<1>1. a.to = "sock2app"
  BY DEF Response, ToApp
<1> HIDE DEF a
<1>2. Receive("sock", "app2sock", <<a>>)
  BY DEF a
<1> QED BY <1>1, <1>2, AppTells

LEMMA SockSocketInOrder ==
    ASSUME PipesOK, SockTypeOK, RequestsInOrder, SockSocket
    PROVE  InStep
<1>1. AppCalls("mSOCKET")
  BY Zenon DEF SockSocket
<1>2. \/ Reject("ERESOURCE_UNAVAIL")
      \/ \E s \in Sock : /\ Receive("sock", "app2sock", <<Response(s, "EOK")>>)
                         /\ reqq' = reqq /\ asked' = asked
  BY DEF SockSocket
<1> QED BY <1>1, <1>2, RejectTells, ResponseTells

LEMMA SockListenInOrder ==
    ASSUME PipesOK, SockTypeOK, RequestsInOrder, SockListen
    PROVE  InStep
<1>1. AppCalls("mLISTEN")
  BY Zenon DEF SockListen
<1>2. \/ Reject("EINVALID_OP")
      \/ \E fd, err : /\ Receive("sock", "app2sock", <<Response(fd, err)>>)
                      /\ reqq' = reqq /\ asked' = asked
  BY DEF SockListen, sockVars
<1> QED BY <1>1, <1>2, RejectTells, ResponseTells

LEMMA SockReadInOrder ==
    ASSUME PipesOK, SockTypeOK, RequestsInOrder, SockRead
    PROVE  InStep
<1>1. AppCalls("mREAD")
  BY Zenon DEF SockRead
<1>2. /\ reqq' = reqq /\ asked' = asked
      /\ \/ \E r : Receive("sock", "app2sock", <<ToApp(r)>>)
         \/ Receive("sock", "app2sock", <<>>)
  BY DEF SockRead, sockVars
<1>3. PICK a : /\ a.to = "sock2app"
               /\ \/ Receive("sock", "app2sock", <<a>>)
                  \/ Receive("sock", "app2sock", <<>>)
  <2>1. \A r : ToApp(r).to = "sock2app"
    BY DEF ToApp
  <2> QED BY <1>2, <2>1
<1> QED BY <1>1, <1>2, <1>3, AppTells

LEMMA SockServesAppInOrder ==
    ASSUME PipesOK, SockTypeOK, RequestsInOrder, SockServesApp
    PROVE  InStep
<1>1. CASE SockOther
  BY <1>1, RejectTells DEF SockOther
<1> QED BY <1>1, SockSocketInOrder, SockBindInOrder, SockListenInOrder, SockAcceptInOrder,
           SockConnectInOrder, SockReadInOrder, SockWriteInOrder, SockCloseInOrder
        DEF SockServesApp

----------------------------------------------------------------------------
(* The messages of the transport modules *)

\* A WRITE is acknowledged, and the application may be told.
LEMMA WriteAcked ==
    ASSUME PipesOK, SockTypeOK, RequestsInOrder, NEW p \in Transport,
           LowerSends(p, "WRITE"), reqq' = reqq, asked' = asked,
           NEW data, NEW bytes, NEW err, NEW fd,
           \/ Receive("sock", UpperPipe[p], <<Ack(p, data, bytes, err)>>)
           \/ Receive("sock", UpperPipe[p], <<AppMessage(p, fd), Ack(p, data, bytes, err)>>)
    PROVE  InStep
<1> DEFINE a == AppMessage(p, fd)
           k == Ack(p, data, bytes, err)
<1>1. /\ fifo[UpperPipe[p]] # <<>> /\ out["sock"] = <<>>
      /\ Head(fifo[UpperPipe[p]]).type = "WRITE"
      /\ UpperPipe[p] \in {"app2sock", "tcp2sock", "udp2sock"}
  BY DEF LowerSends, GetNextEvent, Message, UpperPipe, Transport
<1>2. Message(p) \in SockRequestResponse
  BY MessageType
<1>3. a.to = "sock2app" /\ k.msg.type = "STATUS"
  BY <1>2 DEF AppMessage, ToApp, Ack, ToLower, SockRequestResponse
<1> HIDE DEF a, k
<1>4. PICK sends \in {<<k>>, <<a, k>>} : Receive("sock", UpperPipe[p], sends)
  BY DEF a, k
<1>5. \A i \in DOMAIN sends : sends[i].to = "sock2app" \/ sends[i].msg.type = "STATUS"
  BY <1>3
<1> QED BY <1>1, <1>4, <1>5, SockQuiet

LEMMA WritesInOrder ==
    ASSUME PipesOK, SockTypeOK, RequestsInOrder, NEW p \in Transport,
           WriteNoMatch(p) \/ WriteBuffered(p) \/ WriteRead(p) \/ WriteRefused(p)
    PROVE  InStep
<1>1. /\ LowerSends(p, "WRITE") /\ reqq' = reqq /\ asked' = asked
      /\ \E data, bytes, err, fd :
           \/ Receive("sock", UpperPipe[p], <<Ack(p, data, bytes, err)>>)
           \/ Receive("sock", UpperPipe[p], <<AppMessage(p, fd), Ack(p, data, bytes, err)>>)
  <2>1. CASE WriteNoMatch(p)
    BY <2>1 DEF WriteNoMatch, sockVars
  <2>2. CASE WriteBuffered(p)
    BY <2>2 DEF WriteBuffered, WriteFor
  <2>3. CASE WriteRead(p)
    BY <2>3 DEF WriteRead, WriteFor
  <2>4. CASE WriteRefused(p)
    BY <2>4 DEF WriteRefused, sockVars
  <2> QED BY <2>1, <2>2, <2>3, <2>4
<1> QED BY <1>1, WriteAcked

LEMMA TcpWritesInOrder ==
    ASSUME PipesOK, SockTypeOK, RequestsInOrder,
           WriteAcceptFailed \/ WriteAccepted \/ WriteAcceptNoSock \/ WriteConnected
    PROVE  InStep
<1> DEFINE p == "tcp"
<1>1. /\ LowerSends(p, "WRITE") /\ reqq' = reqq /\ asked' = asked
      /\ \E data, bytes, err, fd :
           \/ Receive("sock", UpperPipe[p], <<Ack(p, data, bytes, err)>>)
           \/ Receive("sock", UpperPipe[p], <<AppMessage(p, fd), Ack(p, data, bytes, err)>>)
  <2>1. CASE WriteAcceptFailed
    BY <2>1 DEF WriteAcceptFailed, WriteFor
  <2>2. CASE WriteAccepted
    BY <2>2 DEF WriteAccepted, WriteFor
  <2>3. CASE WriteAcceptNoSock
    BY <2>3 DEF WriteAcceptNoSock, WriteFor
  <2>4. CASE WriteConnected
    BY <2>4 DEF WriteConnected, WriteFor
  <2> QED BY <2>1, <2>2, <2>3, <2>4
<1>2. p \in Transport
  BY DEF Transport
<1> HIDE DEF p
<1> QED BY <1>1, <1>2, WriteAcked

\* A STATUS is passed on, or ignored.
LEMMA StatusHeard ==
    ASSUME PipesOK, SockTypeOK, RequestsInOrder, NEW p \in Transport, NEW type,
           StatusFor(p, type), NEW fd,
           \/ Receive("sock", UpperPipe[p], <<AppMessage(p, fd)>>)
           \/ Receive("sock", UpperPipe[p], <<>>)
    PROVE  InStep
<1> DEFINE a == AppMessage(p, fd)
<1>1. out["sock"] = <<>>
  BY DEF StatusFor, LowerSends, GetNextEvent
<1>2. a.to = "sock2app"
  BY DEF AppMessage, ToApp
<1> HIDE DEF a
<1>3. PICK sends \in {<<a>>, <<>>} : Receive("sock", UpperPipe[p], sends)
  BY DEF a
<1>4. \A i \in DOMAIN sends : sends[i].to = "sock2app"
  BY <1>2
<1> QED BY <1>1, <1>3, <1>4, SockHears

LEMMA StatusesInOrder ==
    ASSUME PipesOK, SockTypeOK, RequestsInOrder,
           UDPStatusAnswers \/ UDPStatusIgnored \/ TCPStatusAnswers \/ TCPStatusIgnored
    PROVE  InStep
<1>1. \E p \in Transport : \E type, fd :
         /\ StatusFor(p, type)
         /\ \/ Receive("sock", UpperPipe[p], <<AppMessage(p, fd)>>)
            \/ Receive("sock", UpperPipe[p], <<>>)
  <2> "tcp" \in Transport /\ "udp" \in Transport
    BY DEF Transport
  <2>1. CASE UDPStatusAnswers
    BY <2>1 DEF UDPStatusAnswers
  <2>2. CASE UDPStatusIgnored
    BY <2>2 DEF UDPStatusIgnored
  <2>3. CASE TCPStatusAnswers
    BY <2>3 DEF TCPStatusAnswers
  <2>4. CASE TCPStatusIgnored
    BY <2>4 DEF TCPStatusIgnored
  <2> QED BY <2>1, <2>2, <2>3, <2>4
<1> QED BY <1>1, StatusHeard

LEMMA SockNextInOrder ==
    ASSUME PipesOK, SockTypeOK, RequestsInOrder, SockNext
    PROVE  InStep
<1> "tcp" \in Transport /\ "udp" \in Transport
  BY DEF Transport
<1>1. CASE SockServesApp
  BY <1>1, SockServesAppInOrder
<1>2. CASE SockServesUDP
  BY <1>2, WritesInOrder, StatusesInOrder DEF SockServesUDP
<1>3. CASE SockServesTCP
  BY <1>3, WritesInOrder, TcpWritesInOrder, StatusesInOrder DEF SockServesTCP
<1> QED BY <1>1, <1>2, <1>3 DEF SockNext

----------------------------------------------------------------------------
(* The UDP module and the TCP module *)

LEMMA UdpNextInOrder ==
    ASSUME PipesOK, SockTypeOK, RequestsInOrder, UdpNext, UNCHANGED sockVars
    PROVE  InStep
<1> DEFINE pipe == "ipmux2udp"
<1>1. ASSUME NEW type, UdpAsked(type)
      PROVE  /\ fifo["sock2udp"] # <<>> /\ out["udp"] = <<>>
             /\ Head(fifo["sock2udp"]).type = type
  BY <1>1 DEF UdpAsked, GetNextEvent, SockRequest
<1>2. CASE UdpForwards \/ UdpUnreachable
  <2>1. PICK a : /\ a.to = "udp2ipmux" \/ a.msg.type # "STATUS"
                 /\ Receive("udp", pipe, <<a>>)
    <3>1. CASE UdpForwards
      <4>1. PICK r : r.type = "WRITE" /\ Receive("udp", pipe, <<ToSock(r)>>)
        BY <3>1 DEF UdpForwards
      <4>2. ToSock(r).msg.type # "STATUS"
        BY <4>1 DEF ToSock
      <4> QED BY <4>1, <4>2
    <3>2. CASE UdpUnreachable
      <4>1. PICK r : Receive("udp", pipe, <<ToMux(r)>>)
        BY <3>2 DEF UdpUnreachable
      <4>2. ToMux(r).to = "udp2ipmux"
        BY DEF ToMux
      <4> QED BY <4>1, <4>2
    <3> QED BY <1>2, <3>1, <3>2
  <2>2. fifo[pipe] # <<>> /\ out["udp"] = <<>>
    BY <1>2 DEF UdpForwards, UdpUnreachable, GetNextEvent
  <2>3. \A i \in DOMAIN <<a>> : <<a>>[i].to = "udp2ipmux" \/ <<a>>[i].msg.type # "STATUS"
    BY <2>1
  <2> QED BY <2>1, <2>2, <2>3, UdpQuiet
<1>3. CASE UdpIgnoresStatus
  <2>1. UdpAsked("STATUS") /\ Receive("udp", "sock2udp", <<>>)
    BY <1>3 DEF UdpIgnoresStatus
  <2>2. \A i \in DOMAIN <<>> : FALSE
    OBVIOUS
  <2> QED BY <1>1, <2>1, <2>2, UdpQuiet
<1>4. ASSUME NEW bytes, NEW err
      PROVE  /\ UdpStatus(bytes, err).to = "udp2sock"
             /\ UdpStatus(bytes, err).msg.type = "STATUS"
             /\ UdpStatus(bytes, err).msg.req = Head(fifo["sock2udp"]).req
  BY DEF UdpStatus, ToSock, SockRequest
<1>5. CASE UdpWrites
  <2>1. PICK r, bytes : /\ UdpAsked("WRITE")
                        /\ Receive("udp", "sock2udp", <<ToMux(r), UdpStatus(bytes, "EOK")>>)
    BY <1>5 DEF UdpWrites
  <2> DEFINE a == ToMux(r)
             k == UdpStatus(bytes, "EOK")
  <2>2. a.to = "udp2ipmux"
    BY DEF ToMux
  <2>3. /\ k.to = "udp2sock" /\ k.msg.type = "STATUS"
        /\ k.msg.req = Head(fifo["sock2udp"]).req
    BY <1>4
  <2>4. /\ Receive("udp", "sock2udp", <<a, k>>) /\ fifo["sock2udp"] # <<>>
        /\ out["udp"] = <<>> /\ Head(fifo["sock2udp"]).type # "STATUS"
    BY <1>1, <2>1
  <2> HIDE DEF a, k
  <2>5. /\ 2 \in DOMAIN <<a, k>> /\ <<a, k>>[2] = k
        /\ \A i \in DOMAIN <<a, k>> : i \in Nat /\ (i # 2 => <<a, k>>[i].to = "udp2ipmux")
    BY <2>2
  <2> QED BY <2>3, <2>4, <2>5, UdpReplies
<1>6. CASE UdpAddsForward \/ UdpCloses
  <2>1. PICK type, bytes, err :
          /\ UdpAsked(type) /\ type # "STATUS"
          /\ Receive("udp", "sock2udp", <<UdpStatus(bytes, err)>>)
    <3>1. CASE UdpAddsForward
      BY <3>1 DEF UdpAddsForward
    <3>2. CASE UdpCloses
      BY <3>2 DEF UdpCloses
    <3> QED BY <1>6, <3>1, <3>2
  <2> DEFINE k == UdpStatus(bytes, err)
  <2>2. /\ k.to = "udp2sock" /\ k.msg.type = "STATUS"
        /\ k.msg.req = Head(fifo["sock2udp"]).req
    BY <1>4
  <2>3. /\ Receive("udp", "sock2udp", <<k>>) /\ fifo["sock2udp"] # <<>>
        /\ out["udp"] = <<>> /\ Head(fifo["sock2udp"]).type # "STATUS"
    BY <1>1, <2>1
  <2> HIDE DEF k
  <2>4. /\ 1 \in DOMAIN <<k>> /\ <<k>>[1] = k
        /\ \A i \in DOMAIN <<k>> : i \in Nat /\ (i # 1 => <<k>>[i].to = "udp2ipmux")
    OBVIOUS
  <2> QED BY <2>2, <2>3, <2>4, UdpReplies
<1> QED BY <1>2, <1>3, <1>5, <1>6 DEF UdpNext

LEMMA PeerNextInOrder ==
    ASSUME PipesOK, PeerTypeOK, SockTypeOK, RequestsInOrder, PeerNext, UNCHANGED sockVars
    PROVE  InStep
<1>1. ASSUME NEW c \in Connection, NEW data \in Nat, NEW err \in {"EOK", "ECONN_FAILED"},
             PeerSends(c, data, err)
      PROVE  InStep
  <2> DEFINE w == [type |-> "WRITE", connection |-> c, data |-> data,
                   bytes |-> data, error |-> err, req |-> 0]
  <2>1. w \in SockRequestResponse /\ w.type # "STATUS"
    BY DEF SockRequestResponse, srrType, Error
  <2> HIDE DEF w
  <2>2. fifo' = [fifo EXCEPT !["tcp2sock"] = Append(@, w)] /\ out' = out
    BY <1>1 DEF PeerSends, w
  <2> QED BY <2>1, <2>2, PeerSendsInOrder
<1>2. CASE PeerFinishesOpen
  BY <1>1, <1>2 DEF PeerFinishesOpen, PeerTypeOK
<1>3. CASE PeerAccepts
  <2>1. PICK l \in listening, ip \in Remotes, port \in PeerPorts,
             err \in {"EOK", "ECONN_FAILED"} :
          PeerSends([l EXCEPT !.dest = ip, !.destport = port], 0, err)
    BY <1>3 DEF PeerAccepts
  <2> DEFINE c == [l EXCEPT !.dest = ip, !.destport = port]
  <2>2. c \in Connection
    BY PeerAssumption DEF PeerTypeOK, Connection, IPAddress
  <2> HIDE DEF c
  <2>3. PeerSends(c, 0, err)
    BY <2>1 DEF c
  <2> QED BY <1>1, <2>2, <2>3
<1>4. CASE PeerReceives
  BY <1>1, <1>4, PeerAssumption DEF PeerReceives, PeerTypeOK
<1> QED BY <1>2, <1>3, <1>4, PeerAnswersInOrder, PeerIgnoresInOrder DEF PeerNext

----------------------------------------------------------------------------
(* The composition *)

LEMMA InitInOrder == Init => RequestsInOrder
<1> SUFFICES ASSUME Init, NEW p \in Transport
             PROVE  InOrder(p)
  BY DEF RequestsInOrder
<1>1. /\ reqq[p] = <<>> /\ asked[p] = 0
      /\ fifo[UpperPipe[p]] = <<>> /\ fifo[LowerPipe[p]] = <<>>
      /\ out["udp"] = <<>> /\ out["sock"] = <<>>
  BY DEF Init, SockInit, Transport, UpperPipe, LowerPipe, Fifo
<1>2. /\ InTurn(Statuses(<<>>), 0, 0) /\ InTurn(Requests(<<>>), 0, 0)
      /\ InTurn(StatusesTo(p, <<>>), 0, 0) /\ InTurn(RequestsTo(p, <<>>), 0, 0)
  BY EmptyInTurn DEF Statuses, Requests, StatusesTo, RequestsTo
<1>3. 0 \in 0 .. 0 /\ Len(<<>>) = 0 /\ 0 - 0 = 0 /\ 0 <= 0
  OBVIOUS
<1>4. \A i \in DOMAIN reqq[p] : FALSE
  BY <1>1
<1> QED BY <1>1, <1>2, <1>3, <1>4, Zenon DEF InOrder

LEMMA NextInOrder == TypeOK /\ RequestsInOrder /\ [Next]_vars => InStep
<1> SUFFICES ASSUME TypeOK, RequestsInOrder, [Next]_vars
             PROVE  InStep
  OBVIOUS
<1>1. PipesOK /\ SockTypeOK /\ PeerTypeOK
  BY DEF TypeOK
<1>2. CASE App
  <2>1. /\ UNCHANGED <<sockVars, out>>
        /\ \A p \in Transport : /\ fifo'[UpperPipe[p]] = fifo[UpperPipe[p]]
                                /\ fifo'[LowerPipe[p]] = fifo[LowerPipe[p]]
    <3>1. UNCHANGED sockVars
      BY <1>2 DEF App
    <3>2. CASE LibReturn
      BY <1>1, <3>1, <3>2 DEF LibReturn, PipesOK, Fifo, Transport, UpperPipe, LowerPipe
    <3>3. CASE LibCall
      <4>1. ASSUME NEW type, NEW fd, NEW c, NEW data, Call(type, fd, c, data)
            PROVE  out' = out /\ \E r : fifo' = [fifo EXCEPT !["app2sock"] = Append(@, r)]
        BY <4>1 DEF Call
      <4>2. out' = out /\ \E r : fifo' = [fifo EXCEPT !["app2sock"] = Append(@, r)]
        BY <3>3, <4>1
        DEF LibCall, minet_socket, minet_bind, minet_listen, minet_accept, minet_connect,
            minet_read, minet_write, minet_close, minet_other
      <4> QED BY <1>1, <3>1, <4>2 DEF PipesOK, Fifo, Transport, UpperPipe, LowerPipe
    <3> QED BY <1>2, <3>2, <3>3 DEF App
  <2> QED BY <1>1, <2>1, OthersInOrder
<1>3. CASE SockProcess
  BY <1>1, <1>3, SockNextInOrder, SockSends DEF SockProcess
<1>4. CASE UdpProcess
  BY <1>1, <1>4, UdpNextInOrder, UdpSends DEF UdpProcess
<1>5. CASE TcpProcess
  BY <1>1, <1>5, PeerNextInOrder DEF TcpProcess
<1>6. CASE Network
  <2>1. /\ UNCHANGED <<sockVars, out>>
        /\ \A p \in Transport : /\ fifo'[UpperPipe[p]] = fifo[UpperPipe[p]]
                                /\ fifo'[LowerPipe[p]] = fifo[LowerPipe[p]]
    <3>1. UNCHANGED <<sockVars, out>>
      BY <1>6 DEF Network, NetDelivers, NetTakes
    <3>2. CASE NetTakes
      BY <1>1, <3>1, <3>2 DEF NetTakes, PipesOK, Fifo, Transport, UpperPipe, LowerPipe
    <3>3. CASE NetDelivers
      <4>1. PICK r : fifo' = [fifo EXCEPT !["ipmux2udp"] = Append(@, r)]
        BY <3>3 DEF NetDelivers
      <4> QED BY <1>1, <3>1, <4>1 DEF PipesOK, Fifo, Transport, UpperPipe, LowerPipe
    <3> QED BY <1>6, <3>2, <3>3 DEF Network
  <2> QED BY <1>1, <2>1, OthersInOrder
<1>7. CASE UNCHANGED vars
  BY <1>1, <1>7, OthersInOrder DEF vars, sockVars
<1> QED BY <1>2, <1>3, <1>4, <1>5, <1>6, <1>7 DEF Next

\* In every state the queues of the socket module hold its last requests, each of
\* which is in one place on the way to its transport module or back, in order.
THEOREM RequestsCorrect == Spec => []RequestsInOrder
<1>1. Init /\ [][Next]_vars => []TypeOK
  BY TypeCorrect DEF Spec
<1>2. TypeOK /\ RequestsInOrder /\ [Next]_vars => RequestsInOrder'
  BY NextInOrder DEF InStep
<1> QED BY <1>1, <1>2, InitInOrder, PTL DEF Spec

LEMMA InOrderMeansFound == TypeOK /\ RequestsInOrder => StatusFindsRequest
<1> SUFFICES ASSUME TypeOK, RequestsInOrder, NEW p \in Transport,
                    fifo[UpperPipe[p]] # <<>>, Head(fifo[UpperPipe[p]]).type = "STATUS"
             PROVE  reqq[p] # <<>> /\ Head(reqq[p]).req = Head(fifo[UpperPipe[p]]).req
  BY DEF StatusFindsRequest
<1> QED BY StatusIsForOldest DEF TypeOK, RequestsInOrder

\* HandleTCPStatus and HandleUDPStatus always find a request in their queue, and it
\* is the one the STATUS answers (sock_module.cc:200 and 344).
THEOREM StatusCorrect == Spec => []StatusFindsRequest
  BY TypeCorrect, RequestsCorrect, InOrderMeansFound, PTL

----------------------------------------------------------------------------
(* The UDP module keeps the order of requests *)

LEMMA TurnIs ==
    ASSUME NEW n \in Nat, NEW q \in [1 .. n -> Cells], NEW l \in Nat, NEW h \in Nat,
           InTurn(q, l, h)
    PROVE  \A k : k \in l + 1 .. h <=> \E i \in DOMAIN q : k \in q[i]
<1>1. ASSUME NEW i \in DOMAIN q, NEW k \in q[i]
      PROVE  k \in l + 1 .. h
  <2>1. k \in Nat
    BY DEF Cells
  <2>2. l < k /\ k <= h
    BY DEF InTurn
  <2> QED BY <2>1, <2>2
<1> QED BY <1>1 DEF InTurn

\* The numbers of the requests on their way down, and of the answers on their way up.
LEMMA DownNumber ==
    ASSUME NEW p, NEW k
    PROVE  k \in NumbersIn(Down(p)) <=>
             \/ \E i \in DOMAIN Requests(fifo[LowerPipe[p]]) :
                  k \in Requests(fifo[LowerPipe[p]])[i]
             \/ \E i \in DOMAIN RequestsTo(p, out["sock"]) :
                  k \in RequestsTo(p, out["sock"])[i]
<1>1. ASSUME NEW m \in Down(p), m.req = k
      PROVE  \/ \E i \in DOMAIN Requests(fifo[LowerPipe[p]]) :
                  k \in Requests(fifo[LowerPipe[p]])[i]
             \/ \E i \in DOMAIN RequestsTo(p, out["sock"]) :
                  k \in RequestsTo(p, out["sock"])[i]
  BY <1>1, InRequests, InRequestsTo DEF Down
<1>2. ASSUME NEW i \in DOMAIN Requests(fifo[LowerPipe[p]]),
             k \in Requests(fifo[LowerPipe[p]])[i]
      PROVE  \E m \in Down(p) : m.req = k
  <2> DEFINE m == fifo[LowerPipe[p]][i]
  <2>1. i \in DOMAIN fifo[LowerPipe[p]] /\ m.type # "STATUS" /\ m.req = k
    BY <1>2 DEF Requests
  <2>2. m \in ToSet(fifo[LowerPipe[p]])
    BY <2>1, InToSet
  <2> QED BY <2>1, <2>2 DEF Down
<1>3. ASSUME NEW i \in DOMAIN RequestsTo(p, out["sock"]),
             k \in RequestsTo(p, out["sock"])[i]
      PROVE  \E m \in Down(p) : m.req = k
  <2> DEFINE e == out["sock"][i]
  <2>1. /\ i \in DOMAIN out["sock"] /\ e.to = LowerPipe[p]
        /\ e.msg.type # "STATUS" /\ e.msg.req = k
    BY <1>3 DEF RequestsTo
  <2>2. e \in ToSet(out["sock"])
    BY <2>1, InToSet
  <2>3. e.msg \in SentTo(out["sock"], LowerPipe[p])
    BY <2>1, <2>2 DEF SentTo
  <2> QED BY <2>1, <2>3 DEF Down
<1> QED BY <1>1, <1>2, <1>3 DEF NumbersIn

LEMMA ReplyNumber ==
    ASSUME NEW p, NEW k
    PROVE  k \in NumbersIn(Replies(p)) <=>
             \/ \E i \in DOMAIN Statuses(fifo[UpperPipe[p]]) :
                  k \in Statuses(fifo[UpperPipe[p]])[i]
             \/ \E i \in DOMAIN StatusesTo(p, out["udp"]) :
                  k \in StatusesTo(p, out["udp"])[i]
<1>1. ASSUME NEW m \in Replies(p), m.req = k
      PROVE  \/ \E i \in DOMAIN Statuses(fifo[UpperPipe[p]]) :
                  k \in Statuses(fifo[UpperPipe[p]])[i]
             \/ \E i \in DOMAIN StatusesTo(p, out["udp"]) :
                  k \in StatusesTo(p, out["udp"])[i]
  <2>1. CASE m \in ToSet(fifo[UpperPipe[p]])
    BY <1>1, <2>1, InStatuses DEF Replies
  <2>2. CASE m \in SentTo(out["udp"], UpperPipe[p])
    <3>1. PICK e \in ToSet(out["udp"]) : e.to = UpperPipe[p] /\ e.msg = m
      BY <2>2 DEF SentTo
    <3>2. PICK i \in DOMAIN out["udp"] : out["udp"][i] = e
      BY InToSet
    <3>3. m.type = "STATUS"
      BY DEF Replies
    <3> QED BY <1>1, <3>1, <3>2, <3>3 DEF StatusesTo
  <2> QED BY <2>1, <2>2 DEF Replies
<1>2. ASSUME NEW i \in DOMAIN Statuses(fifo[UpperPipe[p]]),
             k \in Statuses(fifo[UpperPipe[p]])[i]
      PROVE  \E m \in Replies(p) : m.req = k
  <2> DEFINE m == fifo[UpperPipe[p]][i]
  <2>1. i \in DOMAIN fifo[UpperPipe[p]] /\ m.type = "STATUS" /\ m.req = k
    BY <1>2 DEF Statuses
  <2>2. m \in ToSet(fifo[UpperPipe[p]])
    BY <2>1, InToSet
  <2> QED BY <2>1, <2>2 DEF Replies
<1>3. ASSUME NEW i \in DOMAIN StatusesTo(p, out["udp"]),
             k \in StatusesTo(p, out["udp"])[i]
      PROVE  \E m \in Replies(p) : m.req = k
  <2> DEFINE e == out["udp"][i]
  <2>1. /\ i \in DOMAIN out["udp"] /\ e.to = UpperPipe[p]
        /\ e.msg.type = "STATUS" /\ e.msg.req = k
    BY <1>3 DEF StatusesTo
  <2>2. e \in ToSet(out["udp"])
    BY <2>1, InToSet
  <2>3. e.msg \in SentTo(out["udp"], UpperPipe[p])
    BY <2>1, <2>2 DEF SentTo
  <2> QED BY <2>1, <2>3 DEF Replies
<1> QED BY <1>1, <1>2, <1>3 DEF NumbersIn

\* The numbers of the requests the socket module waits for are consecutive, and a
\* number y divides those that are answered from those that are not.
OldestOf(p) == asked[p] - Len(reqq[p])

DividedAt(p, y) ==
    /\ asked[p] \in Nat /\ Len(reqq[p]) \in Nat /\ OldestOf(p) \in Nat
    /\ OldestOf(p) <= y /\ y <= asked[p]
    /\ NumbersIn(Waits(p)) = OldestOf(p) + 1 .. asked[p]
    /\ NumbersIn(Down(p)) = y + 1 .. asked[p]
    /\ NumbersIn(Replies(p)) = OldestOf(p) + 1 .. y

Divided(p) == \E y \in Nat : DividedAt(p, y)

LEMMA WaitNumbers ==
    ASSUME NEW p \in Transport, SockTypeOK, InOrder(p)
    PROVE  NumbersIn(Waits(p)) = OldestOf(p) + 1 .. asked[p]
<1> DEFINE q == reqq[p]
           o == OldestOf(p)
<1>1. /\ asked[p] \in Nat /\ Len(q) \in Nat /\ o \in Nat /\ DOMAIN q = 1 .. Len(q)
      /\ o + Len(q) = asked[p] /\ \A i \in DOMAIN q : q[i].req = o + i
  BY OrderParts DEF OldestOf
<1>2. \A x : x \in Waits(p) <=> \E i \in DOMAIN q : q[i] = x
  BY InToSet DEF Waits
<1> HIDE DEF q, o
<1>3. ASSUME NEW r \in Waits(p)
      PROVE  r.req \in o + 1 .. asked[p]
  <2>1. PICK i \in DOMAIN q : q[i] = r
    BY <1>2
  <2> QED BY <1>1, <2>1
<1>4. ASSUME NEW n \in o + 1 .. asked[p]
      PROVE  \E r \in Waits(p) : r.req = n
  <2>1. n - o \in DOMAIN q /\ o + (n - o) = n
    BY <1>1
  <2>2. q[n - o].req = n /\ q[n - o] \in Waits(p)
    BY <1>1, <1>2, <2>1
  <2> QED BY <2>2
<1> QED BY <1>3, <1>4 DEF NumbersIn, o

LEMMA DividedWhenInOrder == TypeOK /\ RequestsInOrder => Divided("udp")
<1> DEFINE p == "udp"
<1> SUFFICES ASSUME TypeOK, RequestsInOrder
             PROVE  Divided(p)
  OBVIOUS
<1>1. p \in Transport /\ InOrder(p) /\ PipesOK /\ SockTypeOK
  BY DEF TypeOK, RequestsInOrder, Transport
<1> HIDE DEF p
<1>2. asked[p] \in Nat /\ Len(reqq[p]) \in Nat /\ OldestOf(p) \in Nat
  BY <1>1, OrderParts DEF OldestOf
<1>3. PICK x, y, z \in 0 .. asked[p] :
                /\ x \in Nat /\ y \in Nat /\ z \in Nat
                /\ InTurn(Statuses(fifo[UpperPipe[p]]), OldestOf(p), x)
                /\ InTurn(StatusesTo(p, out["udp"]), x, y)
                /\ InTurn(Requests(fifo[LowerPipe[p]]), y, z)
                /\ InTurn(RequestsTo(p, out["sock"]), z, asked[p])
  BY <1>1, OrderParts DEF OldestOf
<1>4. /\ fifo[UpperPipe[p]] \in Seq(SockRequestResponse)
      /\ fifo[LowerPipe[p]] \in Seq(SockRequestResponse)
      /\ out["udp"] \in Seq(Sends("udp")) /\ out["sock"] \in Seq(Sends("sock"))
  BY <1>1, StreamTypes
<1>5. OldestOf(p) <= x /\ x <= y /\ y <= z /\ z <= asked[p]
  BY <1>3 DEF InTurn
<1>6. ASSUME NEW k
      PROVE  /\ k \in OldestOf(p) + 1 .. x <=>
                  \E i \in DOMAIN Statuses(fifo[UpperPipe[p]]) :
                     k \in Statuses(fifo[UpperPipe[p]])[i]
             /\ k \in y + 1 .. z <=>
                  \E i \in DOMAIN Requests(fifo[LowerPipe[p]]) :
                     k \in Requests(fifo[LowerPipe[p]])[i]
  <2>1. /\ Len(fifo[UpperPipe[p]]) \in Nat /\ Len(fifo[LowerPipe[p]]) \in Nat
        /\ Statuses(fifo[UpperPipe[p]]) \in [1 .. Len(fifo[UpperPipe[p]]) -> Cells]
        /\ Requests(fifo[LowerPipe[p]]) \in [1 .. Len(fifo[LowerPipe[p]]) -> Cells]
    BY <1>4, StreamCells
  <2> QED BY <1>2, <1>3, <2>1, TurnIs
<1>7. ASSUME NEW k
      PROVE  /\ k \in x + 1 .. y <=>
                  \E i \in DOMAIN StatusesTo(p, out["udp"]) :
                     k \in StatusesTo(p, out["udp"])[i]
             /\ k \in z + 1 .. asked[p] <=>
                  \E i \in DOMAIN RequestsTo(p, out["sock"]) :
                     k \in RequestsTo(p, out["sock"])[i]
  <2>1. /\ Len(out["udp"]) \in Nat /\ Len(out["sock"]) \in Nat
        /\ StatusesTo(p, out["udp"]) \in [1 .. Len(out["udp"]) -> Cells]
        /\ RequestsTo(p, out["sock"]) \in [1 .. Len(out["sock"]) -> Cells]
    BY <1>1, <1>4, SentCells
  <2> QED BY <1>2, <1>3, <2>1, TurnIs
<1>8. ASSUME NEW k
      PROVE  /\ k \in NumbersIn(Replies(p)) <=> k \in OldestOf(p) + 1 .. y
             /\ k \in NumbersIn(Down(p)) <=> k \in y + 1 .. asked[p]
  <2>1. k \in OldestOf(p) + 1 .. y <=> k \in OldestOf(p) + 1 .. x \/ k \in x + 1 .. y
    BY <1>2, <1>3, <1>5
  <2>2. k \in y + 1 .. asked[p] <=> k \in y + 1 .. z \/ k \in z + 1 .. asked[p]
    BY <1>2, <1>3, <1>5
  <2> QED BY <1>6, <1>7, <2>1, <2>2, DownNumber, ReplyNumber
<1>9. /\ NumbersIn(Replies(p)) = OldestOf(p) + 1 .. y
      /\ NumbersIn(Down(p)) = y + 1 .. asked[p]
  BY <1>8
<1>10. OldestOf(p) <= y /\ y <= asked[p]
  BY <1>2, <1>3, <1>5
<1> QED BY <1>1, <1>2, <1>3, <1>9, <1>10, WaitNumbers DEF Divided, DividedAt

\* Every kind of step is a step of the channel.
LEMMA ChannelSteps ==
    ASSUME NEW y \in Nat, DividedAt("udp", y), NEW z \in Nat, DividedAt("udp", z)',
           Moves("udp")
    PROVE  [UdpChannel!Next]_(UdpChannel!chanVars)
<1> DEFINE h == asked["udp"]
           o == OldestOf("udp")
           todo == NumbersIn(Down("udp"))
           done == NumbersIn(Replies("udp"))
           pending == NumbersIn(Waits("udp"))
<1>1. /\ h \in Nat /\ o \in Nat /\ o <= y /\ y <= h
      /\ pending = o + 1 .. h /\ todo = y + 1 .. h /\ done = o + 1 .. y
  BY DEF DividedAt
<1>2. /\ h' \in Nat /\ o' \in Nat /\ o' <= z /\ z <= h'
      /\ pending' = o' + 1 .. h' /\ todo' = z + 1 .. h' /\ done' = o' + 1 .. z
  BY DEF DividedAt
<1>3. /\ Len(reqq["udp"]) \in Nat /\ Len(reqq'["udp"]) \in Nat
      /\ o = h - Len(reqq["udp"]) /\ o' = h' - Len(reqq'["udp"])
  BY DEF DividedAt, OldestOf
<1> SUFFICES \/ h' = h /\ pending' = pending /\ todo' = todo /\ done' = done
             \/ /\ h' = h + 1 /\ pending' = pending \cup {h + 1}
                /\ todo' = todo \cup {h + 1} /\ done' = done
             \/ \E n \in todo : /\ \A m \in todo : n <= m
                                /\ todo' = todo \ {n} /\ done' = done \cup {n}
                                /\ h' = h /\ pending' = pending
             \/ \E n \in done : /\ \A m \in done : n <= m
                                /\ n \in pending /\ \A m \in pending : n <= m
                                /\ done' = done \ {n} /\ pending' = pending \ {n}
                                /\ h' = h /\ todo' = todo
  BY Zenon DEF UdpChannel!Next, UdpChannel!Ask, UdpChannel!Answer, UdpChannel!Apply,
               UdpChannel!Oldest, UdpChannel!chanVars
<1>4. CASE h' = h /\ reqq'["udp"] = reqq["udp"] /\ Down("udp")' = Down("udp")
  <2>1. o' = o /\ todo' = todo
    BY <1>3, <1>4
  <2> HIDE DEF h, o, todo, done, pending
  <2>2. z = y
    <3>1. z < y => y \in todo' /\ y \notin todo
      BY <1>1, <1>2, <1>4
    <3>2. y < z => z \in todo /\ z \notin todo'
      BY <1>1, <1>2, <1>4
    <3> QED BY <2>1, <3>1, <3>2
  <2> QED BY <1>1, <1>2, <1>4, <2>1, <2>2
<1>5. CASE /\ h' = h + 1 /\ Len(reqq'["udp"]) = Len(reqq["udp"]) + 1
           /\ \E m : m.req = h + 1 /\ Down("udp")' = Down("udp") \cup {m}
  <2>1. o' = o
    BY <1>1, <1>3, <1>5
  <2>2. todo' = todo \cup {h + 1}
    BY <1>5 DEF NumbersIn
  <2>3. h' = h + 1
    BY <1>5
  <2> HIDE DEF h, o, todo, done, pending
  <2>4. z = y
    <3>1. z < y => y \in todo' /\ y \notin todo /\ y # h + 1
      BY <1>1, <1>2, <2>3
    <3>2. y < z /\ z <= h => z \in todo /\ z \notin todo'
      BY <1>1, <1>2, <2>3
    <3>3. h + 1 \in todo'
      BY <2>2
    <3>4. z <= h
      BY <1>1, <1>2, <2>3, <3>3
    <3> QED BY <2>2, <3>1, <3>2, <3>4
  <2>5. done' = done
    BY <1>1, <1>2, <2>1, <2>4
  <2>6. pending' = pending \cup {h + 1}
    BY <1>1, <1>2, <2>1, <2>3
  <2> QED BY <2>2, <2>3, <2>5, <2>6
<1>6. CASE /\ h' = h /\ reqq'["udp"] = reqq["udp"]
           /\ \E r : /\ Down("udp") = Down("udp")' \cup {r}
                     /\ \A m \in Down("udp")' : r.req < m.req
  <2>1. PICK r : /\ Down("udp") = Down("udp")' \cup {r}
                 /\ \A m \in Down("udp")' : r.req < m.req
    BY <1>6
  <2> DEFINE n == r.req
  <2>2. todo = todo' \cup {n} /\ \A m \in todo' : n < m
    <3>1. todo' = {m.req : m \in Down("udp")'}
      BY DEF NumbersIn
    <3> QED BY <2>1, <3>1 DEF NumbersIn
  <2>3. h' = h /\ o' = o
    BY <1>3, <1>6
  <2> HIDE DEF h, o, todo, done, pending, n
  <2>4. n \in todo /\ n \in Nat /\ y < n /\ n <= h
    BY <1>1, <2>2
  <2>5. n \notin todo'
    BY <2>2, <2>4
  <2>6. n = y + 1
    <3>1. y + 1 \in todo /\ n \in y + 1 .. h
      BY <1>1, <2>4
    <3>2. y + 1 \in todo' => n < y + 1
      BY <2>2
    <3> QED BY <2>2, <2>4, <3>1, <3>2
  <2>7. z = y + 1
    <3>1. z < y + 1 => n \in todo'
      BY <1>1, <1>2, <2>3, <2>4, <2>6
    <3>2. y + 1 < z => y + 2 \in todo /\ y + 2 \notin todo' /\ y + 2 # n
      BY <1>1, <1>2, <2>3, <2>6
    <3> QED BY <2>2, <2>5, <3>1, <3>2
  <2>8. todo' = todo \ {n} /\ done' = done \cup {n} /\ pending' = pending
    BY <1>1, <1>2, <2>3, <2>6, <2>7
  <2>9. \A m \in todo : n <= m
    BY <1>1, <2>6
  <2> QED BY <2>3, <2>4, <2>8, <2>9
<1>7. CASE /\ h' = h /\ Len(reqq'["udp"]) = Len(reqq["udp"]) - 1
           /\ Down("udp")' = Down("udp")
  <2>1. h' = h /\ o' = o + 1 /\ todo' = todo
    BY <1>1, <1>3, <1>7
  <2> HIDE DEF h, o, todo, done, pending
  <2>2. z = y
    <3>1. z < y => y \in todo' /\ y \notin todo
      BY <1>1, <1>2, <2>1
    <3>2. y < z => z \in todo /\ z \notin todo'
      BY <1>1, <1>2, <2>1
    <3> QED BY <2>1, <3>1, <3>2
  <2>3. o + 1 \in done /\ o + 1 \in pending
    BY <1>1, <1>2, <2>1, <2>2
  <2>4. (\A m \in done : o + 1 <= m) /\ (\A m \in pending : o + 1 <= m)
    BY <1>1
  <2>5. done' = done \ {o + 1} /\ pending' = pending \ {o + 1}
    BY <1>1, <1>2, <2>1, <2>2
  <2> QED BY <2>1, <2>3, <2>4, <2>5
<1> HIDE DEF o, todo, done, pending
<1> QED BY <1>4, <1>5, <1>6, <1>7 DEF Moves

LEMMA InitChannel == Init => UdpChannel!Init
<1> SUFFICES ASSUME Init
             PROVE  UdpChannel!Init
  OBVIOUS
<1>1. /\ reqq["udp"] = <<>> /\ asked["udp"] = 0
      /\ fifo["sock2udp"] = <<>> /\ fifo["udp2sock"] = <<>>
      /\ out["udp"] = <<>> /\ out["sock"] = <<>>
  BY DEF Init, SockInit, Transport, Fifo
<1>2. /\ Waits("udp") = {} /\ Down("udp") = {} /\ Replies("udp") = {}
  BY <1>1, ToSetEmpty, SentToEmpty DEF Waits, Down, Replies, LowerPipe, UpperPipe
<1> QED BY <1>1, <1>2 DEF UdpChannel!Init, NumbersIn

LEMMA NextChannel ==
    TypeOK /\ RequestsInOrder /\ Divided("udp") /\ Divided("udp")' /\ [Next]_vars
      => [UdpChannel!Next]_(UdpChannel!chanVars)
<1> SUFFICES ASSUME TypeOK, RequestsInOrder, Divided("udp"), Divided("udp")', [Next]_vars
             PROVE  [UdpChannel!Next]_(UdpChannel!chanVars)
  OBVIOUS
<1>1. Moves("udp")
  BY NextInOrder DEF InStep, Transport
<1>2. PICK y \in Nat : DividedAt("udp", y)
  BY DEF Divided
<1>3. PICK z \in Nat : DividedAt("udp", z)'
  BY DEF Divided
<1> QED BY <1>1, <1>2, <1>3, ChannelSteps

\* Between the socket module and the UDP module every request is answered once, and
\* the answers come in the order of the requests (docs/sockint.semantics,
\* "Request/Response Ordering"; sock_module.cc:340-380, udp_module.cc:100-190).
THEOREM UdpOrderCorrect == Spec => UdpKeepsOrder
<1>1. Init /\ [][Next]_vars => []TypeOK
  BY TypeCorrect DEF Spec
<1>2. Init /\ [][Next]_vars => []RequestsInOrder
  BY RequestsCorrect DEF Spec
<1> QED BY <1>1, <1>2, DividedWhenInOrder, InitChannel, NextChannel, PTL
        DEF Spec, UdpKeepsOrder, UdpChannel!Spec
=============================================================================
