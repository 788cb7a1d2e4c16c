-------------------------- MODULE DeviceDriverProps --------------------------
(***************************************************************************)
(* What the device driver promises, with its two queues shared by the main *)
(* loop and a signal handler.                                              *)
(***************************************************************************)
EXTENDS DeviceDriver

Places == {"start", "check", "checked", "waiting", "selected", "output", "input",
           "launch", "writing", "unblock", "aborted", "misfired"}

\* Types.  The critical section writes to ether2mux without waiting (select said
\* there is room), so that pipe never holds more than it can.
DriverTypeOK ==
    /\ arrived \in 0 .. MAX_ARRIVALS /\ handed \in 0 .. MAX_DEPARTURES
    /\ incoming \in Seq(Nat) /\ towriter \in Seq(Nat)
    /\ flags \in Seq(Flag) /\ result \in Flag \cup {"none"}
    /\ owed \in BOOLEAN /\ signal \in BOOLEAN
    /\ input_queue \in Input!Ring /\ output_queue \in Output!Ring
    /\ pc \in Places /\ handling \in {"no", "loop", "flag", "writing"}
    /\ ready \in [muxin : BOOLEAN, muxout : BOOLEAN]
    /\ outgoing \in Seq(Nat) /\ Len(outgoing) <= 1
    /\ buffer \in Seq(Nat) /\ Len(buffer) <= 1
    /\ muxin \in Seq(Nat) /\ Len(muxin) <= PIPE_CAP
    /\ muxout \in Seq(Nat) /\ Len(muxout) <= PIPE_CAP

\* The assertion of EthernetInitiateSend never fails: the handler, which sends
\* when the writer reports, does not interrupt a send of the main loop.
OneSendAtATime == pc # "misfired"

\* Numitems can be one too low, so a packet of the mux may be left in the output
\* queue when the main loop goes back to wait, but never more than one.
OneLeftBehind ==
    pc \in {"check", "checked", "waiting"} /\ handling = "no"
        => Output!Held(output_queue) <= 1

\* The two rings behave as queues that lose packets only when they are full,
\* however the handler and the main loop take turns.
InputQueue ==
    INSTANCE DropTailQueue WITH Capacity <- INPUT_QUEUE_SIZE - 1,
        queue <- Input!Contents(input_queue),
        offered <- arrived - Len(incoming)
OutputQueue ==
    INSTANCE DropTailQueue WITH Capacity <- OUTPUT_QUEUE_SIZE - 1,
        queue <- Output!Contents(output_queue),
        offered <- handed - Len(muxin)

\* The input ring, written by the signal handler and emptied by the main loop.
InputIsQueue == InputQueue!Spec

\* The output ring, written by the main loop and emptied by both.
OutputIsQueue == OutputQueue!Spec

\* The driver writes to the writer, or its handler does, and the writer to the
\* driver, and both socket pairs are full: neither reads.
Standoff ==
    /\ "writing" \in {pc, handling} /\ Len(towriter) = SOCKET_CAP
    /\ result # "none" /\ Len(flags) = SOCKET_CAP

\* Again and again nothing the mux wrote is unread, so each of its packets is read,
\* unless the driver dies of a signal in EthernetStartup or it and the writer write
\* to each other for ever: nothing else that the children or the signals do can hold
\* up the main loop.
MuxHeard == []<>(muxin = <<>> \/ ~ Alive \/ Standoff)

\* "signal back the parent that the write is done" (writer.cc:19-20): what the
\* writer reports is heard by the driver.
DoneHeard == flags # <<>> /\ Alive ~> flags = <<>>
=============================================================================
