------------------------------ MODULE TcpProps ------------------------------
(***************************************************************************)
(* What the TCP module of the repository does promise.                     *)
(***************************************************************************)
EXTENDS TcpStack

TcpRequest == [type : srrType, connection : Ends]

TcpReply ==
    [type : srrType, connection : Ends \cup {NoConnection}, error : Error]

Sends ==
    [to : {"tcp2sock"}, msg : TcpReply] \cup [to : {"tcp2ipmux"}, msg : SUBSET Flag]

PipesOK ==
    /\ DOMAIN fifo = TcpFifo /\ DOMAIN out = {"tcp"}
    /\ fifo["ipmux2tcp"] \in Seq({"segment"})
    /\ fifo["sock2tcp"] \in Seq(TcpRequest)
    /\ fifo["tcp2sock"] \in Seq(TcpReply)
    /\ fifo["tcp2ipmux"] \in Seq(SUBSET Flag)
    /\ out["tcp"] \in Seq(Sends)

\* Type correctness: every record stays a record of the code's types, and every
\* message is one its reader takes.
TcpTypeOK ==
    /\ clist \in Seq(Mapping)
    /\ lookup \in {<<>>} \cup {<<i>> : i \in 0 .. Len(clist)}
    /\ tcpUp \in BOOLEAN
    /\ asked \in 0 .. MAX_REQUESTS
    /\ PipesOK

\* The handlers refine RFC 793's diagram (tcp_module.cc:261-591): whatever the
\* record of a connection held when it was made, its state then changes along
\* an edge of the diagram or by a reset, also where one handler sets it twice.
Diagram ==
    INSTANCE TcpDiagram WITH
      States <- eState,
      conns  <- [i \in DOMAIN clist |-> clist[i].state.stateOfcnx]

FollowsDiagram == Diagram!Spec

\* An acknowledgment never makes more octets count as unacknowledged than before
\* it, although numbers wrap round and last_acked may be on either side of
\* last_sent (SetLastAcked, tcpstate.cc:45-68).
OutstandingNeverGrows ==
    [][\A i \in DOMAIN clist :
         clist'[i].state.last_sent = clist[i].state.last_sent =>
           Outstanding(clist'[i].state) <= Outstanding(clist[i].state)]_vars

\* Whether n is one of the N + 1 numbers from next on, going round.
InWindow(n, next, N) == Minus(n, next) <= N

\* A segment that InSequence lets in begins or ends in the window of N + 1 numbers
\* after the one received last, also when the window wraps round, where the
\* comparisons of tcp_module.cc:31-58 are those of plain integers.
AcceptedInWindow ==
    \A i \in DOMAIN clist, seq \in SeqNum, len \in HeaderLens, rwnd \in {0, 1} :
      LET s    == clist[i].state
          next == Plus(s.last_recvd, len)
      IN
      InSequence(s, seq, len, rwnd) =>
        InWindow(seq, next, s.N) \/ InWindow(LastOf(seq, len), next, s.N)
=============================================================================
