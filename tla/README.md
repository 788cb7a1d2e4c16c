# Minet in TLA+

Minet is a user-level TCP/IP stack for teaching: a set of processes, one per
protocol, joined by named pipes. This directory holds TLA+ models of its
modules, the TLC configurations that check them on small instances, and proofs
checked by TLAPS. File names below are relative to
`src/minet-netclass-w14-proj2/src/` of the repository; `docs/` is
`src/minet-netclass-w14-proj2/docs/`.

## 1. The system

    application + socket library      libminet/minet_socket.cc
        | app2sock / sock2app         (SockLibRequestResponse)
    sock_module                       core/sock_module.cc, libminet/sock_mod_structs.cc
        | sock2udp, sock2tcp, ...     (SockRequestResponse)
    udp_module, tcp_module, icmp_module, ipother_module
        |                             (Packet)
    ip_mux
        |                             (Packet)
    ip_module <-> arp_module          (ARPRequestResponse)
        |                             (RawEthernetPacket)
    ethernet_mux
        |                             (RawEthernetPacket)
    device_driver                     lowlevel/

Every box is a process with one thread, built around `MinetGetNextEvent`: it
waits in `select` until one of its pipes is readable, and handles one message
of the first readable pipe, in the order in which the pipes were opened.
Messages are written with blocking writes. There is no lock, no persistent state
and no retry; what is hard is the order in which messages cross and the places
where a process blocks. Three places depart from this picture: the IP module
waits for the ARP module inside a handler; the older driver (`device_driver.cc`)
has two children and a signal handler that shares its queues with the main loop;
and every process starts with a series of blocking `open`s that must meet those
of its neighbours.

### Components

| component | state | operations | what makes it correct |
|---|---|---|---|
| socket library | one global handle, `minet_errno` | 14 blocking calls, each one request and one answer | a call returns, with its own answer |
| socket module | `socks` (socket records), `ports` (owner of each port), `tcpq`, `udpq` (requests without an answer) | one handler per library call; WRITE and STATUS of each transport module | answers go to the call and the socket they are for; no call is answered twice or forgotten; ports and connections belong to one socket; data that is acknowledged is kept |
| UDP module | `clist`, the list of forwards | datagram up; WRITE, FORWARD, CLOSE, STATUS | one answer to every request, in order; datagrams go up exactly for the sockets that asked |
| TCP module | `clist`, a connection list with `TCPState` (state, `last_acked`, `last_sent`, `last_recvd`, `N`) | segments; requests | states follow RFC 793's diagram; only segments in the window count; acknowledgments do not pass what was sent |
| IP module | the packet that waits for its address | packet up (checks, ICMP errors), packet down (asks ARP, blocks) | the answer taken is the one asked for; no circular wait |
| ARP module | `cache` | question, request, reply | an answer to each question, from the last binding heard |
| ip_mux, ethernet_mux | none | dispatch by protocol | every packet to one module that can take it, in order |
| ICMP module | none | replies, WRITEs to the socket module | an answer to each echo |
| driver, reader, writer | two rings of packets, one packet on its way to the writer | main loop, signal handler, children | first in, first out; lost only when full; one send at a time |
| driver2 | none | frames in, frames out | only the host's own frames go out |
| event loop | list of handles | next event, send, receive, connect, accept, init, deinit | start-up completes; the stack ends together; priority; blocking |
| monitor | none | accepts, reads reports | its part in start-up and end |

### Interaction

The application has one call outstanding, ever. The socket module answers some
calls at once, answers others when a STATUS arrives for the request it passed
down, and others when a WRITE arrives for the socket. A STATUS carries no
identification: it is matched with the oldest request in `tcpq` or `udpq`. The
two sides of that interface may send requests at the same time: the socket
module asks for CONNECT, ACCEPT, WRITE, FORWARD and CLOSE, and the transport
module sends WRITEs of its own, which the socket module answers with a STATUS.
`docs/sockint.semantics` describes it.

Below, packets are passed up and down without an answer, except that the IP
module asks the ARP module about every packet it sends and waits for the answer
without reading anything else.

### What is hard to test

Messages in flight in both directions while a socket is closed and its number
used again; the order of datagrams and requests at the UDP module, which
depends on the order of two `MinetConnect`/`MinetAccept` calls; wildcards in
the matching of connections; the queue of requests going out of step by one;
a full socket table, input buffer or pipe; the IP module's wait inside a handler
with full pipes around it; a signal at any instruction of the driver; sequence
numbers near their wrap; an order of starts that nobody tried. The full list, each with its line,
is in `PROJECT.json` under `hazards`.

## 2. Modules

| module | models | state |
|---|---|---|
| `SockInt` | `libminet/sockint.h`, `sockint.cc`, the search of `constate.h` | - (connections, matching, message types) |
| `Minet` | event loop and pipes of `libminet/Minet.cc` | `fifo`, `out` |
| `SockStructs` | `libminet/sock_mod_structs.{h,cc}` | `socks`, `ports` |
| `SockModule` | `core/sock_module.cc` | `reqq` (`tcpq`, `udpq`), `asked` |
| `UdpModule` | `core/udp_module.cc` | `clist` |
| `SockLib` | `libminet/minet_socket.cc` with one application | `waiting`, `calls` |
| `TcpPeer` | environment: a TCP module and its peers, as `sock_module.cc` uses it | `opening`, `listening`, `established`, `tcpWrites` |
| `SockStack` | the composition, with the network below UDP as environment | `arrived` |
| `RequestChannel` | abstract: what a transport module promises the socket module | `made`, `pending`, `todo`, `done` |
| `SockStackProps` | the properties | |
| `SockStackProofs` | type correctness, the order of requests and answers, and the refinement of `RequestChannel`, proved | |
| `SockCalls` | the inductive invariant of calls, records and ports, and what TCP knows of a port | |
| `SockCallProofs` | that invariant, answers, ports and acknowledged data, proved | |
| `SockForwards` | the inductive invariant of the UDP module's forwards | |
| `SockForwardProofs` | that invariant, one forward per port and none left over, proved | |
| `MCSockStack` | values for TLC | |
| `Frames` | Ethernet frames, ARP and IP packets as the fields the modules look at | - |
| `ArpModule` | `core/arp_module.cc`, `libminet/arp.cc` | `cache` |
| `IpModule` | `core/ip_module.cc` | `asking` |
| `Muxes` | `core/ethernet_mux.cc`, `ip_mux.cc`, `other_module.cc`, `ipother_module.cc` | - |
| `IcmpModule` | `core/icmp_module.cc`, `respond` of `libminet/icmp.cc`, the ICMP branch of `sock_module.cc` | - |
| `Driver2` | `lowlevel/device_driver2.cc` | `sent` |
| `IpStack` | their composition, with the link below and UDP and TCP above as environment | `heard`, `handed` |
| `LossyFifo` | abstract: a channel that may lose packets and keeps their order | `offered`, `inside`, `left` |
| `IpStackProps`, `MCIpStack` | properties and values | |
| `IpStackInv` | the inductive invariant: where a question or its answer is, and the order of frames and packets | |
| `IpStackProofs` | types, answers and the refinement of `LossyFifo`, proved | |
| `PacketRing` | `libminet/raw_ethernet_packet_buffer.cc` | - (a ring as a value) |
| `DeviceDriver` | `lowlevel/device_driver.cc`, `reader.cc`, `writer.cc`, `libminet/ethernet.cc` | both rings, `pc`, `handling`, `signal`, the socket pairs |
| `DropTailQueue` | abstract: a bounded queue that loses what comes when it is full | `queue`, `offered` |
| `DeviceDriverProps`, `MCDeviceDriver` | properties and values | |
| `RingProofs` | the ring is a queue, proved | |
| `DriverProofs` | the driver's safety and both refinements, proved | |
| `Boot` | `MinetInit`, `MinetConnect`, `MinetAccept`, `minet_deinit` and the start of every `main` | `pos`, `dead`, `deinit` |
| `BootProps`, `MCBoot` | properties and values | |
| `BootProofs` | the stack comes up in every configuration, proved | |
| `TcpState` | `libminet/tcpstate.{h,cc}`, `InSequence` of `tcp_module.cc` | - (records and arithmetic) |
| `TcpModule` | `core/tcp_module.cc` as it stands | `clist`, `lookup`, `tcpUp` |
| `TcpStack` | the TCP module between ip_mux and the socket module | `asked` |
| `TcpDiagram` | abstract: RFC 793's diagram for a list of connections | `conns` |
| `TcpProps`, `MCTcp` | properties and values | |
| `TcpProofs` | types, window, acknowledgments and diagram, proved | |

`SockStack`, `IpStack` and `TcpStack` each have their neighbours as environment, so
that each can be checked with everything its own processes can do. All three
are built on `Minet`; `DeviceDriver` and `Boot` have their own primitives (signals,
`open`).

**One handler, one step.** A handler reads and writes only the memory of its
process, and its writes to pipes go to readers that cannot look back. So a
handler is one action, which leaves its messages in order in `out[m]`; the
module takes its next event when `out[m]` is empty. `Send` moves one message
into its pipe, when the pipe has room. A handler blocked in the middle of its
writes is a state with a non-empty `out[m]` and a full pipe. One detail follows:
the code inserts a request in its queue just after writing it, the model in the
same step; no other process sees the queue.

The exceptions are the handlers that wait in the middle. `IpModule` splits
`SendPacket` in two: `asking` holds the packet from the question to the answer, and
while it does no other event is taken. `TcpModule` splits a socket request in two,
because `tcp_module.cc` receives twice (lines 644 and 654): `lookup` holds the
connection found for the first. `DeviceDriver` goes in the steps of the code: `pc` is
the place of the main loop and `handling` that of the signal handler, which starts
wherever the signal is not blocked and ends a `select` that already waits.

**Start-up.** A pipe in `Boot` is the pair of its writer and its reader. Each `main` is
a script, the sequence of pipes it opens, put together from `Connect`, `Accept` and
`MinetInit` in the order of the source; `pos[m]` counts those done, and an `open`
returns when the other end is at the same pipe or past it. A process may end in
its event loop (`Crashers`); `HearsEnd` is the end of file in `MinetReceive`, which
throws, and `ReportFails` the SIGPIPE of a report to a monitor that is gone. A
signal handler that waits for Enter (`MINET_DISPLAY` of `xterm`) is taken to get it.

**TCP segments.** `tcp_module.cc` looks for the TCP header (line 190) before it has
extracted one, so length, flags and numbers of a segment are whatever memory
holds. `TcpModule` therefore lets a handler meet any segment, by choice of flags,
numbers and verdicts that `InSequence` could give; `TcpDies` is the other outcome of
undefined reads. A new connection's record is not initialised, so `TcpAccept`
chooses its state and its numbers.

**Handle priority.** `GetNextEvent(m, handles, f)` holds when `f` is the first
readable pipe of `m`. The lists are `SockHandles` (tcp, udp, app: the order of
`main`) and `UdpHandles` (ip_mux first).

**Handlers.** `SockModule` has one action per library call (`SockSocket`,
`SockBind`, ... `SockOther` for those that fall into the default case), and one
per branch of `HandleTCPWrite`, `HandleUDPWrite`, `HandleTCPStatus` and
`HandleUDPStatus`. The two WRITE handlers are the same code for the statuses
they share, so `WriteNoMatch(p)`, `WriteBuffered(p)`, `WriteRead(p)` and
`WriteRefused(p)` take the transport as a parameter.

**Data.** A buffer is its size. An address is one of a few constants. `error`
keeps the values the handlers set. `req` numbers the requests: it is in the
messages and the queue for the properties alone, no guard reads it.

**Kept although surprising.** A read leaves the data in the input buffer
(`SockRead`); a refused WRITE is answered with the byte count it came with
(`WriteRefused`); a datagram for a bound socket in a read makes it CONNECTED
(`WriteRead`); ports are never released (`SockClose`); a bind to a specific
address always fails, because the port table has only wildcard rows
(`ResolveSrcPort`); the byte count in the reply to a CLOSE is unset memory, a
choice in `UdpCloses`. Below: a packet without an ARP entry is dropped, and one to
255.255.255.255 goes to the blank address (`IpHearsArp`); an ARP reply for the
host's own address overwrites its entry (`ArpHearsMux`); the ICMP error for a bad
packet is sent even if that packet was an ICMP error (`IpRefuses`); whether a
timestamp or unknown message is answered depends on an unset member
(`RequiresReply`); `Numitems` is one short after a wrap (`PacketRing`); the signal
handler may run before `ethernet_inited` is set and abort the driver
(`HandlerReceives`). In TCP: an ACCEPT is checked against the connection of the
request before it; CONNECT ends the process through `die()`, because it calls
`minet_socket` in a process that never called `minet_init`; any segment with data
enters a loop that never ends (`TcpDataKills`); a segment with SYN and ACK to a
listener is answered twice (`TcpListen`); the answer to a FIN has no flag
(`TcpEstablished`).

## 3. Properties

### Application, socket module and transport (`SockStackProps`)

Safety:

- `TypeOK`: types of all variables and of the messages in each pipe; indices in
  range; no input buffer above `BIN_SIZE`.
- `StatusFindsRequest`: a STATUS finds a request in the queue and is the answer to
  that very one.
- `RequestsInOrder`: the invariant behind it. A transport module's queue holds the last
  requests that were made, and each of them is in exactly one place, in order: the
  STATUSes in the pipe up are for the oldest, then come those the module still has
  to write, then the requests in the pipe down, then those still to be written.
- `NoStrayAnswer`, `NoLostCall`: the number of things that will answer the
  application (its call, an answer, a queued request whose STATUS answers, a
  socket that waits) is at most one, zero if it is not waiting, and not zero if it
  is. `CallLostOnlyWhenFull` is the weaker form that holds for stream sockets.
- `PortsNotShared`: of two sockets with one source port, one is an accepted
  connection (`Accepted`: a remote end, and the port is not its own), and each that
  is not owns the port and listens on it (`Listens`). No bind or connect is given a
  port another socket has, of either transport.
- `NoOrphanForward`, `OneForwardPerPort`: every forward is that of a socket, or will
  be removed by a request on its way; no two forwards have one port.
- `ForwardKept`, `ConnectionsDistinct`, `NoStandoff`: see section 5.

Action property: `AckedDataKept`: when the socket module acknowledges a WRITE with
EOK, the number of bytes it reports is what that step put into a buffer or
handed to the application.

Refinement: `UdpKeepsOrder` says the composition implements `RequestChannel`: its
`pending` are the numbers of the requests in `udpq`, its `todo` those of the requests
between the modules, its `done` those of the answers on the way back. The channel
always takes the oldest, so the sets say as much as sequences would: a request that
is answered twice leaves its number in `done` when the first answer is applied, and
one that is overtaken is not the oldest. Every step of the stack is one step of the
channel or leaves it alone. `UdpAnswersAll` adds the channel's fairness.

Liveness: `CallsReturn` (a call on a datagram socket returns unless it is a read
without data) and `ReadsReturn` (a read returns when a datagram it has a forward
for is in the pipe, whatever else is on its way).

### Below UDP and TCP (`IpStackProps`)

- `IpTypeOK`: every pipe carries what its reader extracts from it, and only the
  host's own ARP and IP frames are on the link.
- `AnswersMatchQuestions`: `SendPacket` takes whatever comes next on the ARP pipe for
  its answer. There is never more than one question or answer under way; it is
  about the destination of the packet that waits, and no older than what the ARP
  module knew when it was asked (the n-th station's address is larger than
  those before, so that "older" can be compared).
- `LeavesInOrder`: from UDP's `MinetSend` to the link the modules implement `LossyFifo`:
  packets may be lost, never reordered or repeated. UDP's packets are numbered; the
  mapping collects the numbers at the eight places between, in three processes and
  their pipes, and those on the link. The oldest number inside is the next to leave,
  and it leaves for good.
- `QuestionAnswered`, `EchoAnswered` (liveness): the IP module's wait ends; an echo
  request from a host that is known is answered on the link. Both up to `Jam`: a set
  of processes each of which is blocked writing to a full pipe, or waiting for an
  answer, of another in the set. With blocking writes in both directions a jam is
  possible, and the run reaches some; the properties say that nothing short of
  one stops an answer.

### Driver (`DeviceDriverProps`)

- `DriverTypeOK`: types; the write to the mux inside the section where the signal is
  blocked never has to wait.
- `OneSendAtATime`: the assertion of `EthernetInitiateSend` does not fail, although
  main loop and handler both start sends.
- `OneLeftBehind`: when the main loop goes back to wait, at most one packet is left in
  the output queue (`Numitems` is one short after a wrap, not more).
- `InputIsQueue`, `OutputIsQueue` (refinement): each ring, used from both sides,
  implements `DropTailQueue`: in order, lost only when full.
- `MuxHeard` (liveness): all that the mux writes is read, unless the driver aborted in
  `EthernetStartup` or driver and writer write to each other with both socket pairs
  full (`Standoff`, which the run reaches).
- `DoneHeard`: see section 5.

### Start and end (`BootProps`)

- `BootTypeOK`: each call names a pair `MinetConnect` or `MinetAccept` knows (others `Die`).
- `NobodyStuck`: while no process has ended, none waits for ever in an `open`: among
  any processes that wait, one waits for a process that is not among them.
- `BootCompletes` (liveness): every process reaches its event loop.
- `StackFalls` (liveness): once the stack is up, the end of one process other than the
  monitor ends all but the application. It is not so while it comes up: who waits in
  `open` for a process that has ended stays.

### TCP (`TcpProps`)

- `TcpTypeOK`: types, with records that start uninitialised.
- `FollowsDiagram` (refinement): the module implements `TcpDiagram`: a connection
  appears in any state, then moves along edges of RFC 793's diagram or by a reset.
- `OutstandingNeverGrows` (action): no step makes more octets count as unacknowledged
  unless something is sent, wherever `last_acked` and `last_sent` lie after a wrap.
- `AcceptedInWindow`: what `InSequence` accepts begins or ends in the window, going
  round, although the code compares plain integers. (The converse does not
  hold: near the wrap it refuses segments that are inside.)

## 4. Passing runs

| run | instance | checks | distinct states |
|---|---|---|---|
| `sock_udp` | datagram sockets, and stream sockets that do not accept, 2 sockets, 2 ports, 4 calls, 2 datagrams, 1 WRITE of TCP | all safety, `AckedDataKept`, `UdpKeepsOrder` | 671,000 |
| `sock_udp_live` | datagram sockets, 2 sockets, 1 port, 5 calls, 1 datagram | liveness, `UdpAnswersAll` | 88,000 |
| `sock_tcp` | stream sockets, 2 sockets, 2 ports, 5 calls, 3 WRITEs | `RequestsInOrder`, answers, ports with accepted connections, `AckedDataKept` | 324,000 |
| `driver` | rings of 3 slots, socket pairs of 1, 3 packets in, 6 out | types, one send, left behind, both queue refinements, `MuxHeard` | 487,000 |
| `ip_stack` | one other host, pipes of 1, 2 frames in, 4 packets in all | types, answers, order, both answers eventually | 277,000 |
| `boot` | 10 processes, all monitored; the application and TCP may end | all of section 3's | 127,000 |
| `tcp` | numbers of 2 bits, one listening port, one peer, 4 requests | types, diagram, acknowledgments, window | 337,000 |

**Bounds of the socket runs.** `MAX_CALLS`, `MAX_DATAGRAMS` and `MAX_TCP_WRITES`
bound the inputs and are the only limits on behaviour. Two sockets and two ports
are the least for which one socket's calls can disturb another, a table can be
full, and a port asked for can be taken. Four calls let a socket be opened,
bound, closed and its number used again, or two be opened and both bound; five
are needed for open, connect, and a write or read with a close behind it on the
other socket. Data of 2 with a buffer of 3 meets the three cases of the input
buffer: fits, fits in part, full. In `sock_udp` four calls open a socket of each
kind and bind both, or close one and use its record for the other kind: the
transports meet in the table of sockets and in the one array of ports. Its
application makes no accept, the one call that can be lost (`accept_full`), so
that `NoLostCall` is checked where it holds. `UDP_MAX_DATA` of 1 makes every
write longer than a datagram. `PIPE_CAP` of 8 exceeds what the bounds can put
into one pipe, so no passing run blocks in a write; `small_pipes` has the other
case. The application may pass any socket number, open or not, to any call.

**Bounds of the others.** In `driver` the rings hold two packets. Three arrivals
wrap the input ring and offer it a packet when it is full, and one can signal while
others wait. Six departures go round the output ring twice and are enough to reach
the standoff. The output ring fills up but is never offered a packet then: its one
writer is the main loop, which leaves at most one packet in a ring of two
(`OneLeftBehind`); `OutputCorrect` has the drop for every size. A call of `PushPacket` or
`PullPacket` is one step: what keeps the handler out of the middle of one in the main
loop is the section with the signal blocked, where all of its calls are, and the model
says so by where the handler may begin. In `ip_stack` pipes hold
one message, so that writes block and jams arise (with a `MAX_TRAFFIC` of 3 there is
none, with 4 there are); the frames are those the modules tell apart: an ARP
request, which fills the cache and is answered, an echo request, an echo reply, a packet with a bad
checksum, one each for TCP and for ipother, one of the host's own that pcap hears, and a
frame of another protocol. In `boot` the UDP, ICMP and ipother modules are left out: their
scripts are TCP's with another name. In `tcp` two bits are the least at which all
orders of two numbers after a wrap differ; `Garbage` holds the two extremes; the
proofs hold for every width.

`CHECK_DEADLOCK FALSE` is in every configuration because the environment makes a
bounded number of calls or packets, and a stack without events, or one that has
ended, stops.

**Fairness.** `FairSpec` gives weak fairness to the next step of each process: the
socket module, the UDP module, their writes, the library's return, the reader
below UDP, and the TCP module's reading of its pipe (it answers each request,
which `sock_module.cc` is written for). Every process is a loop that takes an event whenever one is
there, and `select` and `write` return when they can, so a process that can go
on continuously does: that is all weak fairness says. No fairness is given to the
application's calls, the network's datagrams or the TCP module's own WRITEs. The
first
ready handle always wins in a process, so an endless stream of datagrams could
starve the UDP module's requests; the bound on datagrams stands for the
assumption that it is not endless.

`DeviceDriver`: weak fairness of the main loop, the handler, the writer, the mux's
reads and the reader's `kill` after its write: five processes that run when they
can. Packets need not come. The handler stops the main loop while it runs, and
the main loop is not enabled then, so this is no more than that the handler
ends. `IpStack`: weak fairness of the steps of all processes together, none
of the link or of what UDP and TCP send. Each process is fair by itself; that one of
them goes on while any can is less, and is enough, as the traffic is bounded. `Boot`: weak fairness of one step that opens a pipe or hears the end of
one; every such step is final, so that is the weakest form of it. Crashes and
`minet_deinit` need not happen. `TcpStack` states no fairness: its properties are
safety.

Every property has a mutant in `PROJECT.json`, a plausible bug in one definition
(marked `Fault:` in the modules) under which the property fails in the same run.

## 5. Runs that find a disagreement

- `close_unbound` / `ForwardKept`. `mCLOSE` of a datagram socket that was never
  bound passes its connection, all wildcards, down in a CLOSE. `FindMatching`
  takes wildcards on either side, so the UDP module erases the first forward in
  its list, which belongs to another live socket. That socket is still bound and
  gets nothing any more. `docs/sockint.semantics:69-70`: "Received matching packets
  will be forwarded to the SOCK module as WRITEs".
- `accept_again` / `ConnectionsDistinct`. A connection is accepted; the application
  accepts again on the same listener; data arrives for the first connection. The
  listener has the lower number, waits in accept and matches every connection
  with its local end, so `FindConnection` returns it, and the data is reported as
  a second connection with the same five fields. `docs/sockint.semantics:29-31`:
  "SOCK and lower-level modules identify particular flows of data by using a
  Connection."
- `accept_full` / `NoLostCall`. A connection arrives for an accept and no record is
  free. The listener leaves ACCEPT_PENDING, the TCP module gets
  ERESOURCE_UNAVAIL, the application gets nothing, then or later.
  `libminet/minet_socket.cc:754-756`: "this function will block until one arrives."
- `driver_done` / `DoneHeard`. The writer calls `kill(ETHERNET_SIGNAL,getppid())`
  (`lowlevel/writer.cc:135,141`), the process and the signal swapped; `reader.cc:40`
  has them right. The driver gets no signal, and the report stays unread until
  a packet happens to arrive from the network. `lowlevel/writer.cc:19-20`: "write
  them to the wire and then signal back the parent that the write is done". What
  follows is `Standoff`: unread reports fill the socket pair, and then the writer and
  the driver write to each other.
- `small_pipes` / `NoStandoff`. With pipes that fill up, the socket module blocks
  writing to the UDP module and the UDP module blocks writing to the socket
  module. `docs/sockint.semantics:14-15`: "it is possible for both modules to send
  a request first. This is not a race condition". The pipes of the run hold one
  message; real pipes hold tens of kilobytes, and datagrams are up to 64 KB.

## 6. Proofs

`SockStackProofs` proves `TypeCorrect`: `Spec => []TypeOK`, for any sets of
addresses, any number of sockets, ports, calls and messages, and any capacity of
pipes and buffers. The only assumptions are the named ones on the constants, in
the modules that declare them (the three kinds of addresses are distinct, the
sizes are positive).

`TypeOK` is inductive. That it is took three strengthenings, each of which is a
fact the code relies on: a call that names a socket names one in range
(`MessageOf("app2sock")`), because `SockStatus::Get...` test no index; a record an
application owns has a transport (`GoodRecord`), because `mWRITE`, `mCONNECT` and
`mCLOSE` choose the queue and the pipe by it; and the connections in the TCP
pipes have one, because an accepted socket copies it.

The argument goes by handler. A first group of lemmas says what the parts of a
handler do with types: reading a pipe and queueing messages (`ReceiveType`), a
write (`SendType`), each kind of message put together (`ResponseSends`,
`RequestSends`, `AckSends`, `AppMessageSends`), each update of a record
(`StatusUpdate`, `ConnectionUpdate`, `OwnerUpdate`, `BinUpdate`). Then there is one
lemma per action (`SockBindType`, `WriteAcceptedType`, `UdpClosesType`, ...), one
per module (`SockNextType`, `UdpNextType`, `LibCallType`, `PeerNextType`), and
`InitType` and `NextType`, which the temporal step combines. The bound on the
input buffer is proved in `WriteBufferedType`, from `Taken` being the smaller of
the data and the room.

It also proves `RequestsCorrect`: `Spec => []RequestsInOrder`, and from it
`StatusCorrect`: `Spec => []StatusFindsRequest`, under the same assumptions.
`StatusFindsRequest` is not inductive: that the next STATUS is for the head of the
queue says nothing of the one behind it, nor of the requests whose STATUS does
not exist yet. `RequestsInOrder` accounts for every number from the oldest in the
queue to the last one made, along the four places it can be in, and together with
`TypeOK` it is inductive.

Each place is a sequence of sets, one number or none per message, so that messages
of the other kind count for nothing, and `InTurn(q, l, h)` says that `q` holds the
numbers after `l` up to `h`, in order. Three lemmas carry the argument:
`TailInTurn` (the first number of a sequence that is in turn is `l + 1`),
`AppendInTurn` (`h + 1` may follow) and `OneInTurn`. Each step of the stack is then one
of a few kinds: it leaves the four places as they are (`Quiet`, `SockQuiet`,
`UdpQuiet`), makes a request (`SockAsks`), turns one into its answer (`UdpReplies`,
`PeerAnswersInOrder`), moves one into a pipe (`SockSends`, `UdpSends`) or hears an
answer (`SockHears`); the lemmas of the handlers say which kind each action is.
The lemmas speak of the two directions and not of the transport, so the theorem
holds for the TCP environment too, of which it only uses that requests are
answered one by one.

`TcpProofs` proves all four properties of the `tcp` run for numbers of any width
(`SEQ_MOD` of at least 2), any connections, requests, pipe sizes and any contents of a
new record: `TcpTypeCorrect`, `WindowCorrect`, `AcksCorrect`, and `DiagramCorrect`, that
the TCP module implements `TcpDiagram`. The assumptions are `SeqAssumption`,
`TcpAssumption`, `RequestAssumption` and those of `Minet` and `SockInt`.

There `TcpTypeOK` is inductive, and the other three follow from it with the step.
`MayBecome(s, t)` says what a handler may make of a record (`Stays`, `StateMoves`,
`AckMoves`, `ListenMoves`: the state moves on an edge, by reset or not at all, and
while `last_sent` stays the count of unacknowledged octets does not grow);
`SegmentStep` shows that each of the segment handlers makes one such change to one
record, and `ListStep` that every step of the system does that, appends a record
or leaves the list. The diagram and the acknowledgments are then two readings
of `ListStep`. The arithmetic is in `Acknowledges` (the cases of `SetLastAcked`) and
`WindowLemma` (a plain comparison with a window's ends, neither of which has
wrapped when both hold, is one going round).

`RingProofs` proves that the ring is a queue: with `Contents` read off between the two
indices, `PushPacket` appends (or leaves a full ring alone), `PullPacket` takes the
head, and `Numitems` is right or one too low. Every index is a remainder of a number
less than one round away, so `Remainder` replaces `%` by cases first (`HeldIs`,
`PlaceIs`), and what is left is linear. The lemmas take the size of the ring as a
hypothesis, and `DriverProofs` has them twice, for the two rings.

`DriverProofs` proves the five safety properties of the `driver` run for rings, pipes
and socket pairs of every size (`DriverAssumption`): `OneSendCorrect`,
`DriverTypeCorrect`, `LeftBehindCorrect`, and the refinements `InputCorrect` and
`OutputCorrect`. Four invariants carry them:

- `Sending`: a packet is in `outgoing` exactly while the main loop or the handler
  writes it, and the handler runs only where the signal is not blocked. The main
  loop writes only where it is, so neither can start a send on top of the other's.
- `StillReady`, with the types: what `select` said is still so when the main loop acts
  on it, as only the driver reads `mux2ether` and only it writes `ether2mux`; the write
  therefore finds room. A handler that saw a flag still has it.
- `Left`: one packet at most is in the output ring, and one more only between its
  arrival and the test of `Numitems`, which is then at least 1.
- `Numbered`: what waits in a pipe is what came last, in order, so that the packet
  taken from it is the next one offered to the ring.

Each step is then a `Keep`, `Lose` or `Get` of `DropTailQueue`, or leaves the ring and
the packets offered to it as they are (`InputSources`, `OutputSources`).

`SockStackProofs` further proves `UdpOrderCorrect`, that the stack implements
`RequestChannel`. `Divided` reads the four places as numbers: those after the oldest
up to `asked` are waited for, and one number `y` parts them into answered and not.
Each step is of one kind (`Moves`): the four places' numbers stay, or one more is
asked for, or `y` moves up, or the oldest is applied; that is a stutter, `Ask`, `Answer`
or `Apply` (`ChannelSteps`).

`SockCallProofs` proves `CallsCorrect`: `Spec => []CallInv`. The question it answers is
who owes the application its answer, which is not in one variable: the call may be
in the pipe down, in the hand of the socket module, waiting as a request for its
STATUS, or waiting at a record for a WRITE. `OneCall` says that it is in exactly one of
six places (`Idle`, `Called`, `Answered`, `AtLower`, `AtSocket`, `Lost`). That is inductive
only with what makes handlers move it from one place to the next, and no further:

- `Records`: a record has the port that `ports` says it has; only an accepted connection
  has a port that is not its own; the port of a socket that owns it is nobody else's
  unless it listens.
- `Requested`: the record a request was made for still waits for its STATUS, so that
  the STATUS answers it and not a later use of the same record.
- `TcpInv`: what TCP can report or refuse. A CONNECT or an ACCEPT that can be refused is
  the last request made, its socket still waits, and nothing has been heard of its
  port (`Refusals`); otherwise a refusal would answer a call that a WRITE had already
  answered. TCP knows no free port (`KnownPorts`), and of a listener's port only
  that it is listened to (`Listeners`, `ClosedLast`).

From it: `NoStrayAnswerCorrect`, by counting what will answer in each of the six places;
`CallLostOnlyWhenFullCorrect`, since `Lost` includes a full table; and `NoLostCallCorrect`,
for an application that makes no accept. That hypothesis is needed: `accept_full` shows
a lost call with one. `PortsNotSharedCorrect` follows from `Records`: a
socket that owns its port and does not listen has it alone (`PortAlone`), so of two
that share one each that owns it is a listener; a port has one owner, and a socket that
has a port without owning it is an accepted connection (`RecordOK`). `PortAlone` is
stronger than the property and is what the handlers keep: a port that is given out
was nobody's, and the only socket a handler gives a used port to is the one it accepts
for a listener.
`AckedDataKeptCorrect` goes by the handlers, from types alone.

`SockForwardProofs` proves `ForwardsCorrect`: `Spec => []ForwardInv`, and from it
`OneForwardPerPortCorrect` and `NoOrphanForwardCorrect`. The difficulty is `FindMatching`,
which takes wildcards on either side. `ForwardInv` says whose each forward is (`Held`:
a socket's, or that of a FORWARD that replaces or a CLOSE that removes it), that a
FORWARD on its way is the last request made, so that two of them never cross, and
that the only forward of its port is the one without remote end that it replaces
(`DownOK`), and that a CLOSE is for a port no socket has. The CLOSE of an unbound
socket, all wildcards, removes any forward; that breaks `ForwardKept` (section 5) but
neither of these two. The lemmas go by what a step may do to the records
(`KeptBy`) and which request it may make (`Asks`), so that most handlers are one case.

`BootProofs` proves `BootTypeCorrect` and `NobodyStuckCorrect` for every configuration:
any subset of the modules, monitored in any way. One order of all pipes, `Rank`, is
followed upwards by every script (`Ascends`), and a pipe with two ends that are there
is in both scripts (`BothEnds`). Among processes that wait, the one at the least
pipe waits for a process that has not come to that pipe; were it waiting too, it would
be at a lower one (`WaitsForLower`). So the order of the `MinetConnect` and `MinetAccept`
calls in twelve `main`s, which no file states, is consistent.

`IpStackProofs` proves the three safety properties of the `ip_stack` run for any
addresses, frames of the link, packets of UDP and TCP, and pipe sizes:
`IpTypeCorrect`, `AnswersCorrect`, and `LeavesCorrect`, that the modules between
UDP and the link implement `LossyFifo`. The assumptions are `IpStackAssumption` (the
fields of the frames and packets that may come are of the types the headers have)
and those of `Minet` and `Frames`. `IpTypeOK` is inductive, given what each
module may write to each of its pipes (`Sends`). The other two are not, and rest on
four invariants of `IpStackInv`:

- `FewMessages`: a handler leaves one message to write, except the ARP module's, which
  writes its answer before its request to the link. So a module that has something to write has
  nothing behind it, and "the answer that is still to be written" is one thing.
- `OneQuestion`: the question of a `SendPacket` that waits is in one of four places:
  still to be written (`Unasked`), in its pipe (`Asked`), answered (`Answered`), or its
  answer is in the pipe back (`Arrived`); the other three are empty.
- `HeardInOrder`: the frames between the link and the ARP module, at five places, are
  in the order in which their stations sent, and newer than anything in the cache.
  That the answer is no older than what was known when the packet was taken needs
  it: otherwise a frame that was overtaken could put an old binding back.
- `SentInOrder`: the numbers of UDP's packets at the eight places on the way down rise
  from the link to UDP, between places and within each pipe.

The last two are one argument about numbers at places in a row. A step either passes
the least numbers of one place on to the next (`ShiftOrdered`), drops some
(`LossOrdered`), lets a new largest one in at the far end (`EntryOrdered`), or
leaves all of them alone; for the way down these are `DownShift`, `DownLoses`,
`DownEnters` and `DownQuiet`, with `DownLeaves` for the last place, and each is at once a
step of `LossyFifo` or a stutter (`ChannelStep`). The handlers then only have to be
sorted: the IP module's answer drops a packet or passes it on (`IpHearsArpInOrder`),
the multiplexers pass it on, and all others touch none of the places
(`ElsewhereInOrder`, from the pipes that a module reads and writes, `Ends`).

Only model-checked: `ForwardKept`, `ConnectionsDistinct` and `NoStandoff` do not hold
(section 5); and everything under fairness (`CallsReturn`, `ReadsReturn`,
`UdpAnswersAll`, `QuestionAnswered`, `EchoAnswered`, `MuxHeard`, `BootCompletes`,
`StackFalls`), as liveness is out of the prover's reach.

## 7. Not modelled

- TCP: the bytes of segments and of data, the send and receive buffers (nothing is
  ever put into them) and timers (never set). The socket runs have `TcpPeer` in
  place of `TcpModule`: it answers every request once and in order, with either
  outcome, and sends any WRITE for a connection it has reported or could report.
  The repository's module, which drops every other request, would only stop
  those runs early. `TcpPeer` does not refuse an ACCEPT for an end that already
  listens.
- ipother at the socket module (its handler has the shape of UDP's and
  `ipother_module.cc` sends nothing), and ICMP requests of applications:
  `SendICMPRequest` is never called. ICMP's WRITEs to the socket module are
  modelled; they never find a socket.
- Non-blocking sockets: `blocking` is never cleared, because the calls that would
  clear it fall into the default case. The tests for a handle that is absent: all
  modules of `minet.cfg` run. Messages of a type no module sends.
- `select` and `poll`, which the socket module does not answer usefully, and
  KERNEL_SOCKS, which bypasses the stack.
- More than one application: the socket module accepts one.
- Datagrams to the broadcast address in the socket runs: those there are to this
  host.
- `ip_module_routing.cc`, `ip_module_diffusion.cc` and the routing table, which
  `minet.cfg` does not start; `bridge.cc`; `PacketQueue`, which nobody uses.
- Timeouts of `MinetGetNextEvent` and `FindEarliest`, which nobody uses; external
  connections other than the driver's pcap handle; `poll` in the disabled branches
  of `writer.cc`.
- How many reports the monitor's pipes hold, and what they say. `MCIpStack` sends no
  timestamps, fragments or broadcasts; the definitions cover them.
- Byte layout, checksums and conversions: a checksum is right or wrong.
- Applications and viewers: their calls are those of `SockLib`, in any order.

## 8. Plan

In order of importance:

1. `SockStack` over `IpStack` in place of its network: `LossyFifo` is what the upper
   stack may assume of the lower one on the way down, which `LeavesCorrect` proves.
2. Invariants that the liveness runs rely on and that could be proved by themselves: a
   process that waits without a `Jam` has a neighbour that can move.
3. The TCP module with the duplicate mappings its ACCEPT makes.
4. `FindEarliest` and the routing table, should a module use them.
