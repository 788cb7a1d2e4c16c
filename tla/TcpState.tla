------------------------------ MODULE TcpState ------------------------------
(***************************************************************************)
(* The record the TCP module keeps of a connection, TCPState of            *)
(* src/libminet/tcpstate.h and tcpstate.cc, and the test of a segment      *)
(* against the receive window, InSequence of src/core/tcp_module.cc.       *)
(* Sequence numbers are unsigned integers that wrap round; the code's are  *)
(* 32 bits wide.                                                           *)
(*                                                                         *)
(* The default constructor sets no field, so a new record holds whatever   *)
(* its memory held.  Because TCP_BUFFER_SIZE is never set either, the      *)
(* window rwnd that is computed from it may be any number whenever it is   *)
(* read, and it is no field of the model.  Nothing is ever put into        *)
(* SendBuffer and RecvBuffer.                                              *)
(***************************************************************************)
EXTENDS Naturals

CONSTANT SEQ_MOD   \* sequence numbers are 0 .. SEQ_MOD-1 (2^32 in the code)

ASSUME SeqAssumption == SEQ_MOD \in Nat /\ SEQ_MOD > 1

SeqNum == 0 .. SEQ_MOD - 1

\* Fault: the difference is that of signed integers.
MinusSigned(a, b) == a - b

\* Sum and difference of unsigned integers.
Plus(a, b)  == IF a + b < SEQ_MOD THEN a + b ELSE a + b - SEQ_MOD
Minus(a, b) == IF b <= a THEN a - b ELSE a + SEQ_MOD - b

\* SYN_SENT1 and SEND_DATA are named by the code and handled nowhere, like any
\* number that names no state: "unknown" stands for all of these.
eState == {"CLOSED", "LISTEN", "SYN_RCVD", "SYN_SENT", "ESTABLISHED",
           "CLOSE_WAIT", "FIN_WAIT1", "CLOSING", "LAST_ACK", "FIN_WAIT2",
           "TIME_WAIT", "unknown"}

TCPState ==
    [stateOfcnx : eState, last_acked : SeqNum, last_sent : SeqNum,
     last_recvd : SeqNum, N : SeqNum]

SetState(s, new)   == [s EXCEPT !.stateOfcnx = new]
SetLastSent(s, n)  == [s EXCEPT !.last_sent = n]
SetLastRecvd(s, n) == [s EXCEPT !.last_recvd = n]

----------------------------------------------------------------------------
(* Acknowledgments *)

\* What has been sent and not acknowledged, as wSize in tcp_module.cc.
Outstanding(s) == Minus(s.last_sent, s.last_acked)

\* Fault: the number past the last one expected is taken too.
AckFitsTooMuch(s, newack) ==
    IF s.last_acked <= s.last_sent
      THEN newack > s.last_acked /\ newack <= Plus(s.last_sent, 2)
      ELSE \/ newack > s.last_acked /\ newack > s.last_sent
           \/ newack < s.last_acked /\ newack <= Plus(s.last_sent, 2)

\* An acknowledgment is taken if it lies between the last one and the last
\* number sent, in whichever way the two have wrapped round.
AckFits(s, newack) ==
    IF s.last_acked <= s.last_sent
      THEN newack > s.last_acked /\ newack <= Plus(s.last_sent, 1)
      ELSE \/ newack > s.last_acked /\ newack > s.last_sent
           \/ newack < s.last_acked /\ newack <= Plus(s.last_sent, 1)

SetLastAcked(s, newack) ==
    IF AckFits(s, newack) THEN [s EXCEPT !.last_acked = Minus(newack, 1)] ELSE s

----------------------------------------------------------------------------
(* The receive window *)

\* The number of a segment's last octet.
LastOf(seq, len) == Minus(Plus(seq, len), 1)

\* Fault: only the upper end of the window is compared.
InSequenceBelow(s, seq, len, rwnd) ==
    LET next  == Plus(s.last_recvd, len)
        In(n) == n <= Plus(next, s.N)
    IN
    \/ len = 0 /\ ((rwnd = 0 /\ seq = next) \/ In(seq))
    \/ len > 0 /\ s.N > 0 /\ (In(seq) \/ In(LastOf(seq, len)))

\* Is the segment in the window?  len is the length of its header (its data is
\* not counted) and is added to the number received last as well; the ends of
\* the window are compared without regard to their wrapping round.
InSequence(s, seq, len, rwnd) ==
    LET next  == Plus(s.last_recvd, len)
        In(n) == next <= n /\ n <= Plus(next, s.N)
    IN
    \/ len = 0 /\ ((rwnd = 0 /\ seq = next) \/ In(seq))
    \/ len > 0 /\ s.N > 0 /\ (In(seq) \/ In(LastOf(seq, len)))
=============================================================================
