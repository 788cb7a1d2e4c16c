---------------------------- MODULE DeviceDriver ----------------------------
(***************************************************************************)
(* The device driver built on signals: src/lowlevel/device_driver.cc with  *)
(* src/libminet/ethernet.cc, and its two children, src/lowlevel/reader.cc  *)
(* and src/lowlevel/writer.cc.                                             *)
(*                                                                         *)
(* The main loop serves ethernet_mux; the handler of ETHERNET_SIGNAL       *)
(* serves the children and shares both packet queues with it.  A packet is *)
(* its number in order of arrival, in each direction.                      *)
(***************************************************************************)
EXTENDS Integers, Sequences

CONSTANTS
    INPUT_QUEUE_SIZE,    \* argv[1]
    OUTPUT_QUEUE_SIZE,   \* argv[2]
    PIPE_CAP,            \* packets a pipe of ethernet_mux holds
    SOCKET_CAP,          \* packets or flags a socket pair of a child holds
    MAX_ARRIVALS,        \* bound: packets from the network
    MAX_DEPARTURES       \* bound: packets from ethernet_mux

ASSUME DriverAssumption ==
    /\ INPUT_QUEUE_SIZE \in Nat /\ INPUT_QUEUE_SIZE > 0
    /\ OUTPUT_QUEUE_SIZE \in Nat /\ OUTPUT_QUEUE_SIZE > 0
    /\ PIPE_CAP \in Nat /\ PIPE_CAP > 0
    /\ SOCKET_CAP \in Nat /\ SOCKET_CAP > 0
    /\ MAX_ARRIVALS \in Nat /\ MAX_DEPARTURES \in Nat

VARIABLES
    arrived,        \* packets the reader has taken from the network
    incoming,       \* reader's socket pair, towards the driver
    owed,           \* the reader has written a packet and not yet called kill
    signal,         \* ETHERNET_SIGNAL is pending in the driver
    input_queue,    \* RawEthernetPacketBuffer: from the network to the mux
    output_queue,   \* RawEthernetPacketBuffer: from the mux to the network
    pc,             \* where the main loop is
    ready,          \* the fd_sets: before select asked for, after it available
    handling,       \* where EthernetInputHandler is, "no" when it is not running
    outgoing,       \* EthernetOutgoingPacket, <<>> when none is available
    towriter,       \* writer's socket pair, towards the writer
    flags,          \* writer's socket pair, towards the driver
    buffer,         \* the writer's deque
    result,         \* the flag the writer has to write
    handed,         \* packets ethernet_mux has written
    muxin, muxout   \* the pipes mux2ether and ether2mux

reader == <<arrived, incoming, owed>>
queues == <<input_queue, output_queue>>
main   == <<pc, ready>>
sender == <<outgoing, towriter>>
writer == <<flags, buffer, result>>
mux    == <<handed, muxin, muxout>>

vars == <<reader, signal, queues, main, handling, sender, writer, mux>>

\* What new[] leaves in the slots.
junk == 0
Input  == INSTANCE PacketRing WITH Packet <- Nat, bufsize <- INPUT_QUEUE_SIZE
Output == INSTANCE PacketRing WITH Packet <- Nat, bufsize <- OUTPUT_QUEUE_SIZE

\* The services the writer reports.
Flag == {"DMA_DONE", "DMA_FAIL"}

\* "start" is EthernetStartup: the signal handler and the reader exist and
\* ethernet_inited is not yet set.  "aborted" and "misfired" are failures of the
\* assertions in EthernetGetNextPacket and EthernetInitiateSend.
Init ==
    /\ arrived = 0 /\ incoming = <<>> /\ owed = FALSE
    /\ signal = FALSE /\ handling = "no"
    /\ input_queue = Input!EmptyRing(junk)
    /\ output_queue = Output!EmptyRing(junk)
    /\ pc = "start" /\ ready = [muxin |-> FALSE, muxout |-> FALSE]
    /\ outgoing = <<>> /\ towriter = <<>>
    /\ flags = <<>> /\ buffer = <<>> /\ result = "none"
    /\ handed = 0 /\ muxin = <<>> /\ muxout = <<>>

Alive == pc \notin {"aborted", "misfired"}

----------------------------------------------------------------------------
(* The main loop: it does not move while the signal handler runs *)

\* The main loop goes from one place to the next.
Main(from, to) ==
    /\ handling = "no"
    /\ pc = from
    /\ pc' = to

\* EthernetStartup has forked both children and sets ethernet_inited.
MainStarts ==
    /\ Main("start", "check")
    /\ UNCHANGED <<reader, signal, queues, ready, handling, sender, writer, mux>>

\* Fault: the mux is listened to only when nothing waits for the writer.
MainChecksDrained ==
    /\ Main("check", "checked")
    /\ ready' = [muxin  |-> Output!IsEmpty(output_queue),
                 muxout |-> Input!Numitems(input_queue) > 0]
    /\ UNCHANGED <<reader, signal, queues, handling, sender, writer, mux>>

\* FD_SET: muxout is asked for only when a packet waits for it.
MainChecks ==
    /\ Main("check", "checked")
    /\ ready' = [muxin |-> TRUE, muxout |-> Input!Numitems(input_queue) > 0]
    /\ UNCHANGED <<reader, signal, queues, handling, sender, writer, mux>>

\* select is called: only from here on does a signal end it with EINTR.
MainWaits ==
    /\ Main("checked", "waiting")
    /\ UNCHANGED <<reader, signal, queues, ready, handling, sender, writer, mux>>

\* Fault: a pipe that is not read counts as one with room.
AlwaysRoom == TRUE

\* muxout is writable.
MuxHasRoom == Len(muxout) < PIPE_CAP

\* select returns what is ready of what was asked for.
MainSelects ==
    /\ Main("waiting", "selected")
    /\ ready' = [muxin  |-> ready.muxin /\ muxin # <<>>,
                 muxout |-> ready.muxout /\ MuxHasRoom]
    /\ ready'.muxin \/ ready'.muxout
    /\ UNCHANGED <<reader, signal, queues, handling, sender, writer, mux>>

\* sigprocmask(SIG_BLOCK): the critical section begins.
MainBlocksSignal ==
    /\ Main("selected", "output")
    /\ UNCHANGED <<reader, signal, queues, ready, handling, sender, writer, mux>>

\* The next input packet goes to the mux, if there is one.
MainOutputs ==
    /\ Main("output", "input")
    /\ IF ready.muxout /\ ~ Input!IsEmpty(input_queue)
       THEN /\ muxout' = Append(muxout, Input!NextPacket(input_queue))
            /\ input_queue' = Input!PullPacket(input_queue)
       ELSE UNCHANGED <<muxout, input_queue>>
    /\ UNCHANGED <<reader, signal, output_queue, ready, handling, sender, writer,
                   handed, muxin>>

\* A packet of the mux is queued, or dropped when the queue is full.
MainInputs ==
    /\ IF ready.muxin
       THEN /\ Main("input", "launch")
            /\ output_queue' = Output!PushPacket(output_queue, Head(muxin))
            /\ muxin' = Tail(muxin)
       ELSE Main("input", "unblock") /\ UNCHANGED <<output_queue, muxin>>
    /\ UNCHANGED <<reader, signal, input_queue, ready, handling, sender, writer,
                   handed, muxout>>

\* EthernetInitiateSend: the assertion, and the packet is copied.
CanInitiateSend == outgoing = <<>>
InitiateSend    ==
    /\ outgoing' = <<Output!NextPacket(output_queue)>>
    /\ output_queue' = Output!PullPacket(output_queue)

\* EthernetWriteNextPacket: the write ends when the writer's socket has room.
WriteNextPacket ==
    /\ Len(towriter) < SOCKET_CAP
    /\ towriter' = Append(towriter, Head(outgoing))
    /\ outgoing' = <<>>

\* SendNextPacket, when Numitems says that something waits.
MainLaunches ==
    /\ IF Output!Numitems(output_queue) > 0 /\ ~ Output!IsEmpty(output_queue)
       THEN IF CanInitiateSend
            THEN Main("launch", "writing") /\ InitiateSend
            ELSE Main("launch", "misfired") /\ UNCHANGED <<outgoing, output_queue>>
       ELSE Main("launch", "unblock") /\ UNCHANGED <<outgoing, output_queue>>
    /\ UNCHANGED <<reader, signal, input_queue, ready, handling, towriter, writer,
                   mux>>

MainWrites ==
    /\ Main("writing", "unblock")
    /\ WriteNextPacket
    /\ UNCHANGED <<reader, signal, queues, ready, handling, writer, mux>>

\* sigprocmask(SIG_UNBLOCK), and around.
MainUnblocksSignal ==
    /\ Main("unblock", "check")
    /\ UNCHANGED <<reader, signal, queues, ready, handling, sender, writer, mux>>

MainNext ==
    \/ MainStarts \/ MainChecks \/ MainWaits \/ MainSelects
    \/ MainBlocksSignal \/ MainOutputs \/ MainInputs \/ MainLaunches
    \/ MainWrites \/ MainUnblocksSignal
----------------------------------------------------------------------------
(* EthernetInputHandler *)

\* Fault: the critical section does not block the signal.
SignalNeverBlocked == FALSE

\* Between the calls of sigprocmask.
SignalBlocked == pc \in {"output", "input", "launch", "writing", "unblock"}

\* A pending signal is delivered.  It ends a select that waits.
HandlerStarts ==
    /\ Alive /\ handling = "no"
    /\ signal /\ ~ SignalBlocked
    /\ signal' = FALSE
    /\ handling' = "loop"
    /\ pc' = IF pc = "waiting" THEN "check" ELSE pc
    /\ UNCHANGED <<reader, queues, ready, sender, writer, mux>>

\* Neither child has anything for the driver.
HandlerReturns ==
    /\ handling = "loop"
    /\ incoming = <<>> /\ flags = <<>>
    /\ handling' = "no"
    /\ UNCHANGED <<reader, signal, queues, main, sender, writer, mux>>

\* The reader has a packet: MyISR, ReceiveNextPacket.  The queue may be full.
\* Before ethernet_inited is set EthernetGetNextPacket fails its assertion, and
\* with the driver its end of the socket pair is gone.
\* The writer's flag is seen by the same select, if there was one.
HandlerReceives ==
    /\ handling = "loop"
    /\ incoming # <<>>
    /\ IF pc = "start"
       THEN /\ pc' = "aborted" /\ handling' = "no"
            /\ UNCHANGED <<incoming, input_queue>>
       ELSE /\ incoming' = Tail(incoming)
            /\ input_queue' = Input!PushPacket(input_queue, Head(incoming))
            /\ handling' = IF flags # <<>> THEN "flag" ELSE "loop"
            /\ UNCHANGED pc
    /\ UNCHANGED <<arrived, owed, signal, output_queue, ready, sender, writer, mux>>

\* The writer has a flag.  Done or failed, MyISR sends the next packet.
HandlerHearsWriter ==
    /\ \/ handling = "flag"
       \/ handling = "loop" /\ incoming = <<>> /\ flags # <<>>
    /\ flags' = Tail(flags)
    /\ IF Output!IsEmpty(output_queue)
       THEN handling' = "loop" /\ UNCHANGED <<outgoing, output_queue, pc>>
       ELSE IF CanInitiateSend
            THEN InitiateSend /\ handling' = "writing" /\ UNCHANGED pc
            ELSE /\ pc' = "misfired" /\ handling' = "no"
                 /\ UNCHANGED <<outgoing, output_queue>>
    /\ UNCHANGED <<reader, signal, input_queue, ready, towriter, buffer, result,
                   mux>>

HandlerWrites ==
    /\ handling = "writing"
    /\ WriteNextPacket
    /\ handling' = "loop"
    /\ UNCHANGED <<reader, signal, queues, main, writer, mux>>

HandlerNext ==
    \/ HandlerStarts \/ HandlerReturns \/ HandlerReceives
    \/ HandlerHearsWriter \/ HandlerWrites

----------------------------------------------------------------------------
(* The reader *)

\* PacketHandler writes a packet ...
ReaderWrites ==
    /\ ~ owed
    /\ arrived < MAX_ARRIVALS
    /\ Len(incoming) < SOCKET_CAP
    /\ arrived' = arrived + 1
    /\ incoming' = Append(incoming, arrived + 1)
    /\ owed' = TRUE
    /\ UNCHANGED <<signal, queues, main, handling, sender, writer, mux>>

\* ... and then sends the signal.
ReaderSignals ==
    /\ owed
    /\ owed' = FALSE
    /\ signal' = TRUE
    /\ UNCHANGED <<arrived, incoming, queues, main, handling, sender, writer, mux>>

----------------------------------------------------------------------------
(* The writer *)

\* It waits for a packet when it has none; CanReadNow says yes at any time.
WriterReads ==
    /\ buffer = <<>> /\ result = "none"
    /\ towriter # <<>>
    /\ buffer' = Append(buffer, Head(towriter))
    /\ towriter' = Tail(towriter)
    /\ UNCHANGED <<reader, signal, queues, main, handling, outgoing, flags, result,
                   mux>>

\* A packet of another source or protocol is discarded: the driver is not told.
WriterDiscards ==
    /\ buffer # <<>> /\ result = "none"
    /\ buffer' = Tail(buffer)
    /\ UNCHANGED <<reader, signal, queues, main, handling, sender, flags, result,
                   mux>>

\* The packet is written to the link, which may fail.
WriterLaunches ==
    /\ buffer # <<>> /\ result = "none"
    /\ buffer' = Tail(buffer)
    /\ result' \in Flag
    /\ UNCHANGED <<reader, signal, queues, main, handling, sender, flags, mux>>

\* The flag goes to the driver.  kill(ETHERNET_SIGNAL, getppid()) has its
\* arguments swapped, so no signal follows.
WriterReports ==
    /\ result # "none"
    /\ Len(flags) < SOCKET_CAP
    /\ flags' = Append(flags, result)
    /\ result' = "none"
    /\ UNCHANGED <<reader, signal, queues, main, handling, sender, buffer, mux>>

WriterNext == WriterReads \/ WriterDiscards \/ WriterLaunches \/ WriterReports

----------------------------------------------------------------------------
(* ethernet_mux, at the other end of the two pipes *)

MuxWrites ==
    /\ handed < MAX_DEPARTURES
    /\ Len(muxin) < PIPE_CAP
    /\ handed' = handed + 1
    /\ muxin' = Append(muxin, handed + 1)
    /\ UNCHANGED <<reader, signal, queues, main, handling, sender, writer, muxout>>

MuxReads ==
    /\ muxout # <<>>
    /\ muxout' = Tail(muxout)
    /\ UNCHANGED <<reader, signal, queues, main, handling, sender, writer, handed,
                   muxin>>

----------------------------------------------------------------------------
Next ==
    \/ MainNext \/ HandlerNext
    \/ ReaderWrites \/ ReaderSignals
    \/ WriterNext
    \/ MuxWrites \/ MuxReads

Spec == Init /\ [][Next]_vars

\* The four processes run when they can; nothing makes packets come.
FairSpec ==
    /\ Spec
    /\ WF_vars(MainNext) /\ WF_vars(HandlerNext)
    /\ WF_vars(ReaderSignals) /\ WF_vars(WriterNext) /\ WF_vars(MuxReads)
=============================================================================
