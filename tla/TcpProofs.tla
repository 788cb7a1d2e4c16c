----------------------------- MODULE TcpProofs -----------------------------
(***************************************************************************)
(* Proofs about the TCP module, for every width of sequence numbers, every *)
(* number of connections and whatever uninitialised memory holds.          *)
(***************************************************************************)
EXTENDS TcpProps, SequenceTheorems, TLAPS

USE SeqAssumption DEF SeqNum

----------------------------------------------------------------------------
(* Arithmetic that wraps round *)

LEMMA Arithmetic ==
    ASSUME NEW a \in SeqNum, NEW b \in SeqNum
    PROVE  Plus(a, b) \in SeqNum /\ Minus(a, b) \in SeqNum
  BY DEF Plus, Minus

LEMMA One == 0 \in SeqNum /\ 1 \in SeqNum
  OBVIOUS

\* Between two numbers in the order of integers means within the distance from
\* the first that was added to get the second.
LEMMA WindowLemma ==
    ASSUME NEW n \in SeqNum, NEW next \in SeqNum, NEW N \in SeqNum,
           next <= n, n <= Plus(next, N)
    PROVE  InWindow(n, next, N)
  BY DEF InWindow, Plus, Minus

LEMMA StateFields ==
    ASSUME NEW s \in TCPState
    PROVE  /\ s.stateOfcnx \in eState
           /\ s.last_acked \in SeqNum /\ s.last_sent \in SeqNum
           /\ s.last_recvd \in SeqNum /\ s.N \in SeqNum
  BY DEF TCPState

LEMMA OutstandingType ==
    ASSUME NEW s \in TCPState
    PROVE  Outstanding(s) \in Nat /\ Outstanding(s) <= Outstanding(s)
<1>1. s.last_sent \in SeqNum /\ s.last_acked \in SeqNum
  BY StateFields
<1>2. Outstanding(s) \in SeqNum
  BY ONLY <1>1, Arithmetic DEF Outstanding
<1> QED BY <1>2

LEMMA SetStateIs ==
    ASSUME NEW s \in TCPState, NEW st \in eState
    PROVE  LET t == SetState(s, st) IN
           /\ t \in TCPState /\ t.stateOfcnx = st
           /\ t.last_sent = s.last_sent /\ t.last_acked = s.last_acked
  BY DEF TCPState, SetState

LEMMA SetLastSentIs ==
    ASSUME NEW s \in TCPState, NEW n \in SeqNum
    PROVE  LET t == SetLastSent(s, n) IN
           /\ t \in TCPState /\ t.stateOfcnx = s.stateOfcnx
           /\ t.last_sent = n /\ t.last_acked = s.last_acked
  BY DEF TCPState, SetLastSent

LEMMA SetLastRecvdIs ==
    ASSUME NEW s \in TCPState, NEW n \in SeqNum
    PROVE  LET t == SetLastRecvd(s, n) IN
           /\ t \in TCPState /\ t.stateOfcnx = s.stateOfcnx
           /\ t.last_sent = s.last_sent /\ t.last_acked = s.last_acked
  BY DEF TCPState, SetLastRecvd

\* An acknowledgment leaves no more outstanding than there was.
LEMMA Acknowledges ==
    ASSUME NEW s \in TCPState, NEW n \in SeqNum
    PROVE  LET t == SetLastAcked(s, n) IN
           /\ t \in TCPState
           /\ t.stateOfcnx = s.stateOfcnx /\ t.last_sent = s.last_sent
           /\ Outstanding(t) <= Outstanding(s)
<1> DEFINE t == SetLastAcked(s, n)
<1>1. CASE AckFits(s, n)
  <2>1. t = [s EXCEPT !.last_acked = Minus(n, 1)]
    BY <1>1 DEF SetLastAcked
  <2>2. Minus(n, 1) \in SeqNum
    BY Arithmetic, One
  <2>3. t \in TCPState /\ t.stateOfcnx = s.stateOfcnx
        /\ t.last_sent = s.last_sent /\ t.last_acked = Minus(n, 1)
    BY <2>1, <2>2 DEF TCPState
  <2>4. Minus(s.last_sent, Minus(n, 1)) <= Minus(s.last_sent, s.last_acked)
    BY <1>1, StateFields DEF AckFits, Plus, Minus
  <2> QED BY <2>3, <2>4 DEF Outstanding
<1>2. CASE ~ AckFits(s, n)
  <2>1. t = s
    BY <1>2 DEF SetLastAcked
  <2> QED BY <2>1, OutstandingType
<1> QED BY <1>1, <1>2

----------------------------------------------------------------------------
(* What a handler may make of a connection's record *)

MayBecome(s, t) ==
    /\ t \in TCPState
    /\ t.last_sent = s.last_sent => Outstanding(t) <= Outstanding(s)
    /\ \/ t.stateOfcnx = s.stateOfcnx
       \/ <<s.stateOfcnx, t.stateOfcnx>> \in Diagram!Edge
       \/ s.stateOfcnx \in Diagram!Resettable /\ t.stateOfcnx = "CLOSED"

LEMMA Stays ==
    ASSUME NEW s \in TCPState
    PROVE  MayBecome(s, s)
  BY OutstandingType DEF MayBecome

LEMMA StateMoves ==
    ASSUME NEW s \in TCPState, NEW n \in SeqNum, NEW st \in eState,
           \/ <<s.stateOfcnx, st>> \in Diagram!Edge
           \/ s.stateOfcnx \in Diagram!Resettable /\ st = "CLOSED"
    PROVE  /\ MayBecome(s, SetState(s, st))
           /\ MayBecome(s, SetState(SetLastRecvd(s, n), st))
           /\ MayBecome(s, SetState(SetLastAcked(s, n), st))
<1>1. MayBecome(s, SetState(s, st))
  <2> DEFINE t == SetState(s, st)
  <2>1. /\ t \in TCPState /\ t.stateOfcnx = st
        /\ t.last_sent = s.last_sent /\ t.last_acked = s.last_acked
    BY SetStateIs
  <2>2. Outstanding(t) = Outstanding(s)
    BY <2>1 DEF Outstanding
  <2> QED BY <2>1, <2>2, OutstandingType DEF MayBecome
<1>2. MayBecome(s, SetState(SetLastRecvd(s, n), st))
  <2> DEFINE r == SetLastRecvd(s, n)
  <2>1. r \in TCPState /\ r.last_sent = s.last_sent /\ r.last_acked = s.last_acked
    BY SetLastRecvdIs
  <2> HIDE DEF r
  <2>2. /\ SetState(r, st) \in TCPState /\ SetState(r, st).stateOfcnx = st
        /\ SetState(r, st).last_sent = s.last_sent
        /\ SetState(r, st).last_acked = s.last_acked
    BY <2>1, SetStateIs
  <2>3. MayBecome(s, SetState(r, st))
    <3>1. Outstanding(SetState(r, st)) = Outstanding(s)
      BY <2>1, <2>2 DEF Outstanding
    <3> QED BY <2>2, <3>1, OutstandingType DEF MayBecome
  <2> QED BY <2>3 DEF r
<1>3. MayBecome(s, SetState(SetLastAcked(s, n), st))
  <2> DEFINE a == SetLastAcked(s, n)
  <2>1. /\ a \in TCPState /\ a.last_sent = s.last_sent
        /\ Outstanding(a) <= Outstanding(s)
    BY Acknowledges
  <2> HIDE DEF a
  <2>2. /\ SetState(a, st) \in TCPState /\ SetState(a, st).stateOfcnx = st
        /\ SetState(a, st).last_sent = a.last_sent
        /\ SetState(a, st).last_acked = a.last_acked
    BY <2>1, SetStateIs
  <2>3. MayBecome(s, SetState(a, st))
    BY <2>1, <2>2 DEF MayBecome, Outstanding
  <2> QED BY <2>3 DEF a
<1> QED BY <1>1, <1>2, <1>3

LEMMA AckMoves ==
    ASSUME NEW s \in TCPState, NEW n \in SeqNum
    PROVE  MayBecome(s, SetLastAcked(s, n))
  BY Acknowledges DEF MayBecome

\* Also where the number sent last is set to what it was.
LEMMA ListenMoves ==
    ASSUME NEW s \in TCPState, s.stateOfcnx = "LISTEN",
           NEW seq \in SeqNum, NEW sent \in SeqNum, NEW ack \in SeqNum
    PROVE  MayBecome(s, SetState(SetLastAcked(
                          SetLastSent(SetLastRecvd(s, seq), sent), ack), "SYN_RCVD"))
<1> DEFINE r == SetLastRecvd(s, seq)
           t == SetLastSent(r, sent)
           a == SetLastAcked(t, ack)
           u == SetState(a, "SYN_RCVD")
<1>1. r \in TCPState /\ r.last_acked = s.last_acked
  BY SetLastRecvdIs
<1> HIDE DEF r
<1>2. t \in TCPState /\ t.last_acked = s.last_acked /\ t.last_sent = sent
  BY <1>1, SetLastSentIs
<1> HIDE DEF t
<1>3. a \in TCPState /\ a.last_sent = sent /\ Outstanding(a) <= Outstanding(t)
  BY <1>2, Acknowledges
<1> HIDE DEF a
<1>4. "SYN_RCVD" \in eState
  BY DEF eState
<1>5. /\ u \in TCPState /\ u.stateOfcnx = "SYN_RCVD"
      /\ u.last_sent = sent /\ u.last_acked = a.last_acked
  BY <1>3, <1>4, SetStateIs
<1> HIDE DEF u
<1>6. u.last_sent = s.last_sent => Outstanding(u) <= Outstanding(s)
  BY <1>2, <1>3, <1>5 DEF Outstanding
<1>7. MayBecome(s, u)
  BY <1>5, <1>6 DEF MayBecome, Diagram!Edge
<1> QED BY <1>7 DEF u, a, t, r

----------------------------------------------------------------------------
(* What the handlers of segments do *)

SegmentEffect ==
    \/ /\ Receive("tcp", "ipmux2tcp", <<>>)
       /\ tcpUp' \in BOOLEAN
       /\ UNCHANGED <<clist, lookup>>
    \/ \E i \in DOMAIN clist : \E s, replies :
         /\ MayBecome(clist[i].state, s)
         /\ replies \in Seq(Sends)
         /\ TcpActs(i, s, replies)

LEMMA RepliesType ==
    ASSUME NEW f \in SUBSET Flag, NEW g \in SUBSET Flag
    PROVE  /\ <<>> \in Seq(Sends) /\ <<ToMux(f)>> \in Seq(Sends)
           /\ Append(<<>>, ToMux(g)) \in Seq(Sends)
           /\ Append(<<ToMux(f)>>, ToMux(g)) \in Seq(Sends)
<1>1. ToMux(f) \in Sends /\ ToMux(g) \in Sends
  BY DEF ToMux, Sends
<1>2. <<>> \in Seq(Sends) /\ <<ToMux(f)>> \in Seq(Sends)
  BY <1>1
<1> QED BY <1>1, <1>2, AppendProperties

LEMMA FlagSets ==
    /\ {} \in SUBSET Flag /\ {"RST"} \in SUBSET Flag /\ {"ACK"} \in SUBSET Flag
    /\ {"ACK", "RST"} \in SUBSET Flag /\ {"SYN", "ACK"} \in SUBSET Flag
    /\ {"ACK", "FIN"} \in SUBSET Flag
    /\ {"RST"} \cup {"SYN", "ACK"} \in SUBSET Flag
    /\ {} \cup {"SYN", "ACK"} \in SUBSET Flag
  BY DEF Flag

LEMMA StatesTyped ==
    ASSUME TcpTypeOK, NEW i \in DOMAIN clist
    PROVE  clist[i] \in Mapping /\ clist[i].state \in TCPState
<1>1. i \in 1 .. Len(clist)
  BY LenProperties DEF TcpTypeOK
<1>2. clist[i] \in Mapping
  BY <1>1, ElementOfSeq DEF TcpTypeOK
<1> QED BY <1>2 DEF Mapping

\* Whatever a handler is handed, what it does to the record it has looked up is
\* something a record may become.
LEMMA SegmentStep ==
    ASSUME TcpTypeOK, TcpSegment
    PROVE  SegmentEffect
<1> USE RepliesType, FlagSets
<1>0. \A i \in DOMAIN clist : clist[i].state \in TCPState
  BY StatesTyped
<1>a. ASSUME NEW i \in DOMAIN clist, NEW s, NEW replies,
             MayBecome(clist[i].state, s), replies \in Seq(Sends), TcpActs(i, s, replies)
      PROVE  SegmentEffect
  BY <1>a DEF SegmentEffect
<1>1. CASE TcpDies \/ TcpHearsStranger
  BY <1>1 DEF TcpDies, TcpHearsStranger, SegmentEffect, TcpTypeOK, tcpVars
<1>2. CASE \E i \in DOMAIN clist : TcpUnknown(i) \/ TcpUnacceptable(i)
  BY <1>2, <1>0, <1>a, Stays DEF TcpUnknown, TcpUnacceptable
<1>3. ASSUME NEW i \in DOMAIN clist, NEW flags \in SUBSET Flag,
             \/ TcpClosed(i, flags) \/ TcpFlagsFail(i, flags)
             \/ TcpSynRcvd(i, flags) \/ TcpDataKills(i, flags)
             \/ TcpLastAck(i, flags) \/ TcpTimeWait(i, flags)
      PROVE  SegmentEffect
  <2> DEFINE s == clist[i].state
  <2>1. s \in TCPState
    BY <1>0
  <2>2. CASE TcpClosed(i, flags) \/ TcpTimeWait(i, flags)
    BY <2>1, <2>2, <1>a, Stays DEF TcpClosed, TcpTimeWait
  <2>3. CASE TcpFlagsFail(i, flags)
    <3>1. s.stateOfcnx \in Diagram!Resettable /\ "CLOSED" \in eState
      BY <2>1, <2>3, StateFields
         DEF TcpFlagsFail, TcpHears, Synchronized, Diagram!Resettable, eState
    <3>2. MayBecome(s, SetState(s, "CLOSED")) /\ MayBecome(s, s)
      BY <2>1, <3>1, One, StateMoves, Stays
    <3> QED BY <2>3, <3>2, <1>a DEF TcpFlagsFail
  <2>4. CASE TcpSynRcvd(i, flags)
    <3>1. <<s.stateOfcnx, "ESTABLISHED">> \in Diagram!Edge /\ "ESTABLISHED" \in eState
      BY <2>4 DEF TcpSynRcvd, TcpChecked, TcpHears, Diagram!Edge, eState
    <3>2. MayBecome(s, SetState(s, "ESTABLISHED"))
      BY <2>1, <3>1, One, StateMoves
    <3> QED BY <2>4, <3>2, <1>a DEF TcpSynRcvd
  <2>5. CASE TcpDataKills(i, flags)
    BY <2>5 DEF TcpDataKills, SegmentEffect
  <2>6. CASE TcpLastAck(i, flags)
    <3>1. <<s.stateOfcnx, "CLOSED">> \in Diagram!Edge /\ "CLOSED" \in eState
      BY <2>6 DEF TcpLastAck, TcpChecked, TcpHears, Diagram!Edge, eState
    <3>2. MayBecome(s, SetState(s, "CLOSED")) /\ MayBecome(s, s)
      BY <2>1, <3>1, One, StateMoves, Stays
    <3> QED BY <2>6, <3>2, <1>a DEF TcpLastAck
  <2> QED BY <1>3, <2>2, <2>3, <2>4, <2>5, <2>6
<1>4. ASSUME NEW i \in DOMAIN clist, NEW flags \in SUBSET Flag, NEW ack \in SeqNum,
             \/ TcpEstablished(i, flags, ack) \/ TcpCloses(i, flags, ack)
             \/ TcpCloseWait(i, flags, ack)
      PROVE  SegmentEffect
  <2> DEFINE s == clist[i].state
             t == SetLastAcked(s, ack)
  <2>1. s \in TCPState /\ MayBecome(s, t)
    BY <1>0, AckMoves
  <2>2. CASE TcpEstablished(i, flags, ack)
    <3>1. <<s.stateOfcnx, "CLOSE_WAIT">> \in Diagram!Edge /\ "CLOSE_WAIT" \in eState
      BY <2>2 DEF TcpEstablished, TcpChecked, TcpHears, Diagram!Edge, eState
    <3>2. MayBecome(s, SetState(t, "CLOSE_WAIT"))
      BY <2>1, <3>1, StateMoves
    <3> QED BY <2>1, <2>2, <3>2, <1>a DEF TcpEstablished
  <2>3. CASE TcpCloses(i, flags, ack)
    <3>1. <<s.stateOfcnx, "TIME_WAIT">> \in Diagram!Edge /\ "TIME_WAIT" \in eState
      BY <2>3 DEF TcpCloses, TcpChecked, TcpHears, Diagram!Edge, eState
    <3>2. MayBecome(s, SetState(t, "TIME_WAIT"))
      BY <2>1, <3>1, StateMoves
    <3> QED BY <2>1, <2>3, <3>2, <1>a DEF TcpCloses
  <2>4. CASE TcpCloseWait(i, flags, ack)
    BY <2>1, <2>4, <1>a DEF TcpCloseWait
  <2> QED BY <1>4, <2>2, <2>3, <2>4
<1>5. ASSUME NEW i \in DOMAIN clist, NEW flags \in SUBSET Flag, NEW ack \in SeqNum,
             NEW seq \in SeqNum, NEW ISS \in SeqNum, TcpSynSent(i, flags, seq, ack, ISS)
      PROVE  SegmentEffect
  <2> DEFINE s == clist[i].state
  <2>1. s \in TCPState /\ s.stateOfcnx = "SYN_SENT"
    BY <1>0, <1>5 DEF TcpSynSent, TcpHears
  <2>2. /\ {"CLOSED", "ESTABLISHED", "SYN_RCVD"} \subseteq eState
        /\ s.stateOfcnx \in Diagram!Resettable
        /\ \A st \in {"ESTABLISHED", "SYN_RCVD"} : <<s.stateOfcnx, st>> \in Diagram!Edge
    BY <2>1 DEF Diagram!Edge, Diagram!Resettable, eState
  <2>3. /\ MayBecome(s, s) /\ MayBecome(s, SetState(s, "CLOSED"))
        /\ MayBecome(s, SetState(SetLastRecvd(s, seq), "ESTABLISHED"))
        /\ MayBecome(s, SetState(SetLastRecvd(s, seq), "SYN_RCVD"))
    BY <2>1, <2>2, StateMoves, Stays
  <2> QED BY <1>5, <2>3, <1>a DEF TcpSynSent
<1>6. ASSUME NEW i \in DOMAIN clist, NEW flags \in SUBSET Flag,
             NEW seq \in SeqNum, NEW ISS \in SeqNum, TcpListen(i, flags, seq, ISS)
      PROVE  SegmentEffect
  <2> DEFINE s == clist[i].state
  <2>1. s \in TCPState /\ s.stateOfcnx = "LISTEN"
    BY <1>0, <1>6 DEF TcpListen, TcpHears
  <2>2. Plus(ISS, 1) \in SeqNum /\ Minus(ISS, 1) \in SeqNum
    BY Arithmetic, One
  <2>3. /\ MayBecome(s, s)
        /\ MayBecome(s, SetState(SetLastAcked(SetLastSent(SetLastRecvd(s, seq),
                                   Plus(ISS, 1)), Minus(ISS, 1)), "SYN_RCVD"))
    BY <2>1, <2>2, ListenMoves, Stays
  <2> QED BY <1>6, <2>3, <1>a DEF TcpListen
<1> QED BY <1>1, <1>2, <1>3, <1>4, <1>5, <1>6 DEF TcpSegment

----------------------------------------------------------------------------
(* Type correctness *)

LEMMA ReceiveType ==
    ASSUME PipesOK, NEW f \in {"ipmux2tcp", "sock2tcp"}, fifo[f] # <<>>,
           NEW replies \in Seq(Sends), Receive("tcp", f, replies)
    PROVE  PipesOK'
<1>1. CASE f = "ipmux2tcp"
  <2>1. Tail(fifo[f]) \in Seq({"segment"})
    BY <1>1, HeadTailProperties DEF PipesOK
  <2> QED BY <1>1, <2>1 DEF PipesOK, Receive, TcpFifo
<1>2. CASE f = "sock2tcp"
  <2>1. Tail(fifo[f]) \in Seq(TcpRequest)
    BY <1>2, HeadTailProperties DEF PipesOK
  <2> QED BY <1>2, <2>1 DEF PipesOK, Receive, TcpFifo
<1> QED BY <1>1, <1>2

LEMMA SendType ==
    ASSUME PipesOK, Send("tcp")
    PROVE  PipesOK'
<1> DEFINE e == Head(out["tcp"])
<1>1. e \in Sends /\ Tail(out["tcp"]) \in Seq(Sends)
  BY HeadTailProperties DEF PipesOK, Send
<1>2. CASE e.to = "tcp2sock"
  <2>1. e.msg \in TcpReply
    BY <1>1, <1>2 DEF Sends
  <2>2. Append(fifo["tcp2sock"], e.msg) \in Seq(TcpReply)
    BY <2>1, AppendProperties DEF PipesOK
  <2> QED BY <1>1, <1>2, <2>2 DEF PipesOK, Send, TcpFifo
<1>3. CASE e.to = "tcp2ipmux"
  <2>1. e.msg \in SUBSET Flag
    BY <1>1, <1>3 DEF Sends
  <2>2. Append(fifo["tcp2ipmux"], e.msg) \in Seq(SUBSET Flag)
    BY <2>1, AppendProperties DEF PipesOK
  <2> QED BY <1>1, <1>3, <2>2 DEF PipesOK, Send, TcpFifo
<1> QED BY <1>1, <1>2, <1>3 DEF Sends

LEMMA NeighboursType ==
    ASSUME TcpTypeOK, MuxWrites \/ SockAsks \/ NeighbourReads
    PROVE  TcpTypeOK'
<1> USE RequestAssumption
<1>1. CASE MuxWrites
  <2>1. Append(fifo["ipmux2tcp"], "segment") \in Seq({"segment"})
    BY AppendProperties DEF TcpTypeOK, PipesOK
  <2>2. PipesOK'
    BY <1>1, <2>1 DEF TcpTypeOK, PipesOK, MuxWrites, Writes, TcpFifo
  <2> QED BY <1>1, <2>2 DEF TcpTypeOK, MuxWrites, tcpVars
<1>2. CASE SockAsks
  <2>1. PICK type \in srrType, c \in Locals :
               Writes("sock2tcp", [type |-> type, connection |-> c])
    BY <1>2 DEF SockAsks
  <2>2. [type |-> type, connection |-> c] \in TcpRequest
    BY <2>1 DEF TcpRequest
  <2>3. Append(fifo["sock2tcp"], [type |-> type, connection |-> c]) \in Seq(TcpRequest)
    BY <2>2, AppendProperties DEF TcpTypeOK, PipesOK
  <2>4. PipesOK'
    BY <1>2, <2>1, <2>3 DEF TcpTypeOK, PipesOK, SockAsks, Writes, TcpFifo
  <2> QED BY <1>2, <2>4 DEF TcpTypeOK, SockAsks, tcpVars
<1>3. CASE NeighbourReads
  <2>1. PICK f \in {"tcp2ipmux", "tcp2sock"} :
               /\ fifo[f] # <<>>
               /\ fifo' = [fifo EXCEPT ![f] = Tail(@)]
               /\ UNCHANGED <<out, tcpVars, asked>>
    BY <1>3 DEF NeighbourReads
  <2>2. CASE f = "tcp2ipmux"
    <3>1. Tail(fifo[f]) \in Seq(SUBSET Flag)
      BY <2>1, <2>2, HeadTailProperties DEF TcpTypeOK, PipesOK
    <3>2. PipesOK'
      BY <2>1, <2>2, <3>1 DEF TcpTypeOK, PipesOK, TcpFifo
    <3> QED BY <2>1, <3>2 DEF TcpTypeOK, tcpVars
  <2>3. CASE f = "tcp2sock"
    <3>1. Tail(fifo[f]) \in Seq(TcpReply)
      BY <2>1, <2>3, HeadTailProperties DEF TcpTypeOK, PipesOK
    <3>2. PipesOK'
      BY <2>1, <2>3, <3>1 DEF TcpTypeOK, PipesOK, TcpFifo
    <3> QED BY <2>1, <3>2 DEF TcpTypeOK, tcpVars
  <2> QED BY <2>1, <2>2, <2>3
<1> QED BY <1>1, <1>2, <1>3

LEMMA SegmentType ==
    ASSUME TcpTypeOK, TcpSegment, UNCHANGED asked
    PROVE  TcpTypeOK'
<1>1. SegmentEffect /\ fifo["ipmux2tcp"] # <<>>
  BY SegmentStep DEF TcpSegment, TcpEvent, GetNextEvent
<1>2. CASE /\ Receive("tcp", "ipmux2tcp", <<>>)
           /\ tcpUp' \in BOOLEAN
           /\ UNCHANGED <<clist, lookup>>
  <2>1. <<>> \in Seq(Sends)
    OBVIOUS
  <2>2. PipesOK'
    BY <1>1, <1>2, <2>1, ReceiveType DEF TcpTypeOK
  <2> QED BY <1>2, <2>2 DEF TcpTypeOK
<1>3. ASSUME NEW i \in DOMAIN clist, NEW s, NEW replies \in Seq(Sends),
             MayBecome(clist[i].state, s), TcpActs(i, s, replies)
      PROVE  TcpTypeOK'
  <2>1. PipesOK'
    BY <1>1, <1>3, ReceiveType DEF TcpTypeOK, TcpActs
  <2>2. [clist[i] EXCEPT !.state = s] \in Mapping
    BY <1>3, StatesTyped DEF Mapping, MayBecome
  <2>3. clist' = [clist EXCEPT ![i] = [clist[i] EXCEPT !.state = s]]
    BY <1>3 DEF TcpActs
  <2>4. clist' \in Seq(Mapping) /\ Len(clist') = Len(clist)
    BY <2>2, <2>3, LenProperties, ExceptSeq DEF TcpTypeOK
  <2> QED BY <1>3, <2>1, <2>4 DEF TcpTypeOK, TcpActs
<1> QED BY <1>1, <1>2, <1>3 DEF SegmentEffect

LEMMA RequestsType ==
    ASSUME TcpTypeOK, UNCHANGED asked,
           TcpLooksUp \/ TcpConnect \/ TcpAccept \/ TcpAcknowledges
    PROVE  TcpTypeOK'
<1> DEFINE r == Head(fifo["sock2tcp"])
<1>1. fifo["sock2tcp"] # <<>>
  BY DEF TcpLooksUp, TcpConnect, TcpAccept, TcpAcknowledges, TcpAsked, GetNextEvent
<1>2. r \in TcpRequest
  BY <1>1, HeadTailProperties DEF TcpTypeOK, PipesOK
<1>3. r.connection \in Ends
  BY <1>2 DEF TcpRequest
<1>4. Len(clist) \in Nat /\ DOMAIN clist = 1 .. Len(clist)
  BY LenProperties DEF TcpTypeOK
<1>5. <<>> \in Seq(Sends)
  OBVIOUS
<1>6. CASE TcpLooksUp
  <2>1. PipesOK'
    BY <1>1, <1>5, <1>6, ReceiveType DEF TcpTypeOK, TcpLooksUp
  <2>2. lookup' \in {<<i>> : i \in 0 .. Len(clist)}
    BY <1>4, <1>6 DEF TcpLooksUp
  <2> QED BY <1>6, <2>1, <2>2 DEF TcpTypeOK, TcpLooksUp
<1>7. CASE TcpConnect
  <2>1. PipesOK'
    BY <1>1, <1>5, <1>7, ReceiveType DEF TcpTypeOK, TcpConnect
  <2> QED BY <1>7, <2>1 DEF TcpTypeOK, TcpConnect
<1>8. ASSUME NEW type \in srrType, NEW c \in Ends \cup {NoConnection},
             NEW err \in Error, TcpReplies(ToSock(type, c, err))
      PROVE  PipesOK' /\ lookup' = <<>> /\ tcpUp' = tcpUp
  <2>1. ToSock(type, c, err) \in Sends
    BY DEF ToSock, Sends, TcpReply
  <2>2. <<ToSock(type, c, err)>> \in Seq(Sends)
    BY <2>1
  <2> QED BY <1>1, <1>8, <2>2, ReceiveType DEF TcpTypeOK, TcpReplies
<1>9. CASE TcpAccept
  <2>1. PipesOK' /\ lookup' = <<>> /\ tcpUp' = tcpUp
    <3>1. CASE TcpReplies(ToSock("STATUS", NoConnection, "ERESOURCE_UNAVAIL"))
      <4>1. "STATUS" \in srrType /\ "ERESOURCE_UNAVAIL" \in Error
        BY DEF srrType, Error
      <4> QED BY <3>1, <4>1, <1>8
    <3>2. CASE TcpReplies(ToSock("ACCEPT", r.connection, "EOK"))
      <4>1. "ACCEPT" \in srrType /\ "EOK" \in Error
        BY DEF srrType, Error
      <4> QED BY <3>2, <4>1, <1>3, <1>8
    <3> QED BY <1>9, <3>1, <3>2 DEF TcpAccept
  <2>2. CASE UNCHANGED clist
    BY <2>1, <2>2 DEF TcpTypeOK
  <2>3. CASE lookup = <<0>>
    <3>1. PICK st \in eState, acked, sent, recvd, window \in Garbage :
            clist' = Append(clist,
              [connection |-> r.connection,
               state |-> [stateOfcnx |-> st, last_acked |-> acked,
                          last_sent |-> sent, last_recvd |-> recvd, N |-> window]])
      BY <1>9, <2>3 DEF TcpAccept
    <3>2. [connection |-> r.connection,
           state |-> [stateOfcnx |-> st, last_acked |-> acked, last_sent |-> sent,
                      last_recvd |-> recvd, N |-> window]] \in Mapping
      BY <1>3, <3>1, TcpAssumption DEF Mapping, TCPState
    <3>3. clist' \in Seq(Mapping)
      BY <3>1, <3>2, AppendProperties DEF TcpTypeOK
    <3> QED BY <2>1, <3>3 DEF TcpTypeOK
  <2> QED BY <1>9, <2>2, <2>3 DEF TcpAccept
<1>10. CASE TcpAcknowledges
  <2>1. "WRITE" \in srrType /\ "CLOSE" \in srrType /\ "EOK" \in Error
    BY DEF srrType, Error
  <2>2. PipesOK' /\ lookup' = <<>> /\ tcpUp' = tcpUp
    BY <1>3, <1>8, <1>10, <2>1 DEF TcpAcknowledges
  <2> QED BY <1>10, <2>2 DEF TcpTypeOK, TcpAcknowledges
<1> QED BY <1>6, <1>7, <1>9, <1>10

LEMMA NextType ==
    ASSUME TcpTypeOK, [Next]_vars
    PROVE  TcpTypeOK'
<1>1. CASE TcpSteps
  <2>1. CASE tcpUp /\ Send("tcp") /\ UNCHANGED tcpVars
    <3>1. PipesOK'
      BY <2>1, SendType DEF TcpTypeOK
    <3> QED BY <1>1, <2>1, <3>1 DEF TcpTypeOK, TcpSteps, tcpVars
  <2> QED BY <1>1, <2>1, SegmentType, RequestsType DEF TcpSteps, TcpNext
<1>2. CASE UNCHANGED vars
  BY <1>2 DEF TcpTypeOK, PipesOK, vars
<1> QED BY <1>1, <1>2, NeighboursType DEF Next

LEMMA InitType == Init => TcpTypeOK
  BY RequestAssumption DEF Init, TcpInit, TcpTypeOK, PipesOK, TcpFifo

\* In every state the module's records and the messages in its pipes hold what
\* their declarations say, although numbers wrap round and a new record is not
\* initialised.
THEOREM TcpTypeCorrect == Spec => []TcpTypeOK
  BY InitType, NextType, PTL DEF Spec

----------------------------------------------------------------------------
(* Segments and acknowledgments *)

LEMMA WindowSound == TcpTypeOK => AcceptedInWindow
<1> SUFFICES ASSUME TcpTypeOK, NEW i \in DOMAIN clist, NEW seq \in SeqNum,
                    NEW len \in HeaderLens, NEW rwnd \in {0, 1},
                    InSequence(clist[i].state, seq, len, rwnd)
             PROVE  LET s    == clist[i].state
                        next == Plus(s.last_recvd, len)
                    IN  \/ InWindow(seq, next, s.N)
                        \/ InWindow(LastOf(seq, len), next, s.N)
  BY DEF AcceptedInWindow
<1> DEFINE s    == clist[i].state
           next == Plus(s.last_recvd, len)
           last == LastOf(seq, len)
<1>1. len \in SeqNum /\ s.N \in SeqNum /\ s.last_recvd \in SeqNum
  BY TcpAssumption, StatesTyped, StateFields
<1>2. next \in SeqNum /\ last \in SeqNum
  BY <1>1, Arithmetic, One DEF LastOf
<1>3. \/ seq = next
      \/ next <= seq /\ seq <= Plus(next, s.N)
      \/ next <= last /\ last <= Plus(next, s.N)
  BY DEF InSequence
<1>4. CASE seq = next
  BY <1>1, <1>2, <1>4 DEF InWindow, Minus
<1>5. ASSUME next <= seq, seq <= Plus(next, s.N)
      PROVE  InWindow(seq, next, s.N)
  <2> HIDE DEF next, last, s
  <2> QED BY <1>1, <1>2, <1>5, WindowLemma
<1>6. ASSUME next <= last, last <= Plus(next, s.N)
      PROVE  InWindow(last, next, s.N)
  <2> HIDE DEF next, last, s
  <2> QED BY <1>1, <1>2, <1>6, WindowLemma
<1> QED BY <1>3, <1>4, <1>5, <1>6

\* Whatever the width of sequence numbers, the window and the numbers received,
\* InSequence lets nothing in that lies outside the window, although it compares
\* numbers as if they did not wrap round.
THEOREM WindowCorrect == Spec => []AcceptedInWindow
  BY TcpTypeCorrect, WindowSound, PTL

\* What any step may do to the list of connections.
LEMMA ListStep ==
    ASSUME TcpTypeOK, [Next]_vars
    PROVE  \/ UNCHANGED clist
           \/ \E i \in DOMAIN clist : \E s :
                /\ MayBecome(clist[i].state, s)
                /\ clist' = [clist EXCEPT ![i].state = s]
           \/ \E m \in Mapping : clist' = Append(clist, m)
<1>1. CASE TcpSegment
  BY <1>1, SegmentStep DEF SegmentEffect, TcpActs
<1>2. CASE TcpAccept
  <2> DEFINE r == Head(fifo["sock2tcp"])
  <2>1. r \in TcpRequest
    BY <1>2, HeadTailProperties DEF TcpTypeOK, PipesOK, TcpAccept, TcpAsked
  <2>2. CASE lookup = <<0>>
    <3>1. PICK st \in eState, acked, sent, recvd, window \in Garbage :
            clist' = Append(clist,
              [connection |-> r.connection,
               state |-> [stateOfcnx |-> st, last_acked |-> acked,
                          last_sent |-> sent, last_recvd |-> recvd, N |-> window]])
      BY <1>2, <2>2 DEF TcpAccept
    <3>2. [connection |-> r.connection,
           state |-> [stateOfcnx |-> st, last_acked |-> acked, last_sent |-> sent,
                      last_recvd |-> recvd, N |-> window]] \in Mapping
      BY <2>1, <3>1, TcpAssumption DEF Mapping, TCPState, TcpRequest
    <3> QED BY <3>1, <3>2
  <2>3. CASE lookup # <<0>>
    BY <1>2, <2>3 DEF TcpAccept
  <2> QED BY <2>2, <2>3
<1>3. CASE TcpLooksUp \/ TcpConnect \/ TcpAcknowledges
  BY <1>3 DEF TcpLooksUp, TcpConnect, TcpAcknowledges
<1>4. CASE MuxWrites \/ SockAsks \/ NeighbourReads \/ UNCHANGED vars
  BY <1>4 DEF MuxWrites, SockAsks, NeighbourReads, vars, tcpVars
<1>5. CASE tcpUp /\ Send("tcp") /\ UNCHANGED tcpVars
  BY <1>5 DEF tcpVars
<1> QED BY <1>1, <1>2, <1>3, <1>4, <1>5 DEF Next, TcpSteps, TcpNext

\* One connection's record is replaced.
LEMMA OneChanges ==
    ASSUME TcpTypeOK, NEW i \in DOMAIN clist, NEW s,
           clist' = [clist EXCEPT ![i].state = s]
    PROVE  /\ DOMAIN clist' = DOMAIN clist
           /\ clist'[i].state = s
           /\ \A j \in DOMAIN clist \ {i} : clist'[j] = clist[j]
<1>1. clist[i] \in Mapping
  BY StatesTyped
<1> QED BY <1>1 DEF Mapping

\* A mapping is added at the end.
LEMMA OneMore ==
    ASSUME TcpTypeOK, NEW m \in Mapping, clist' = Append(clist, m)
    PROVE  /\ Len(clist) \in Nat
           /\ DOMAIN clist = 1 .. Len(clist)
           /\ DOMAIN clist' = 1 .. Len(clist) + 1
           /\ clist'[Len(clist) + 1] = m
           /\ \A j \in DOMAIN clist : clist'[j] = clist[j]
  BY AppendProperties, LenProperties DEF TcpTypeOK

LEMMA AcksStep ==
    ASSUME TcpTypeOK, [Next]_vars, NEW j \in DOMAIN clist,
           clist'[j].state.last_sent = clist[j].state.last_sent
    PROVE  Outstanding(clist'[j].state) <= Outstanding(clist[j].state)
<1>1. Outstanding(clist[j].state) <= Outstanding(clist[j].state)
  BY StatesTyped, OutstandingType
<1>2. CASE UNCHANGED clist
  BY <1>1, <1>2
<1>3. ASSUME NEW i \in DOMAIN clist, NEW s, MayBecome(clist[i].state, s),
             clist' = [clist EXCEPT ![i].state = s]
      PROVE  Outstanding(clist'[j].state) <= Outstanding(clist[j].state)
  <2>1. CASE j = i
    BY <1>3, <2>1, OneChanges DEF MayBecome
  <2>2. CASE j # i
    BY <1>1, <1>3, <2>2, OneChanges
  <2> QED BY <2>1, <2>2
<1>4. ASSUME NEW m \in Mapping, clist' = Append(clist, m)
      PROVE  Outstanding(clist'[j].state) <= Outstanding(clist[j].state)
  BY <1>1, <1>4, OneMore
<1> QED BY <1>2, <1>3, <1>4, ListStep

\* Whatever the width of sequence numbers and the acknowledgments received, what
\* counts as unacknowledged never grows by being acknowledged.
THEOREM AcksCorrect == Spec => OutstandingNeverGrows
<1>1. TcpTypeOK /\ [Next]_vars =>
        [\A i \in DOMAIN clist :
           clist'[i].state.last_sent = clist[i].state.last_sent =>
             Outstanding(clist'[i].state) <= Outstanding(clist[i].state)]_vars
  BY AcksStep
<1> QED BY <1>1, TcpTypeCorrect, PTL DEF Spec, OutstandingNeverGrows

----------------------------------------------------------------------------
(* The diagram of RFC 793 *)

Conns == [i \in DOMAIN clist |-> clist[i].state.stateOfcnx]

LEMMA DiagramInit == Init => Diagram!Init
<1> SUFFICES ASSUME clist = <<>> PROVE Conns = <<>>
  BY DEF Init, TcpInit, Diagram!Init, Conns
<1> QED BY DEF Conns

LEMMA DiagramMove ==
    ASSUME TcpTypeOK, NEW i \in DOMAIN clist, NEW s, MayBecome(clist[i].state, s),
           clist' = [clist EXCEPT ![i].state = s]
    PROVE  Diagram!Next \/ UNCHANGED Conns
<1>1. s \in TCPState /\ clist[i].state \in TCPState
  BY StatesTyped DEF MayBecome
<1>2. s.stateOfcnx \in eState
  BY <1>1, StateFields
<1>3. i \in DOMAIN Conns /\ Conns[i] = clist[i].state.stateOfcnx
  BY DEF Conns
<1>4. Conns' = [Conns EXCEPT ![i] = s.stateOfcnx]
  <2>1. /\ DOMAIN clist' = DOMAIN clist
        /\ clist'[i].state = s
        /\ \A j \in DOMAIN clist : j # i => clist'[j] = clist[j]
    BY OneChanges
  <2>2. Conns' = [j \in DOMAIN clist' |-> clist'[j].state.stateOfcnx]
    BY DEF Conns
  <2>3. \A j \in DOMAIN clist :
          clist'[j].state.stateOfcnx =
            IF j = i THEN s.stateOfcnx ELSE clist[j].state.stateOfcnx
    BY <2>1
  <2>4. Conns' = [j \in DOMAIN clist |->
                   IF j = i THEN s.stateOfcnx ELSE clist[j].state.stateOfcnx]
    BY <2>1, <2>2, <2>3
  <2> QED BY ONLY <2>4 DEF Conns
<1>5. CASE s.stateOfcnx = clist[i].state.stateOfcnx
  BY <1>3, <1>4, <1>5 DEF Conns
<1>6. CASE <<clist[i].state.stateOfcnx, s.stateOfcnx>> \in Diagram!Edge
  <2>1. \E j \in DOMAIN Conns, st \in eState :
          <<Conns[j], st>> \in Diagram!Edge /\ Conns' = [Conns EXCEPT ![j] = st]
    BY <1>2, <1>3, <1>4, <1>6
  <2> QED BY <2>1 DEF Diagram!Next, Diagram!Moves, Conns
<1>7. CASE /\ clist[i].state.stateOfcnx \in Diagram!Resettable
           /\ s.stateOfcnx = "CLOSED"
  <2>1. \E j \in DOMAIN Conns :
          Conns[j] \in Diagram!Resettable /\ Conns' = [Conns EXCEPT ![j] = "CLOSED"]
    BY <1>3, <1>4, <1>7
  <2> QED BY <2>1 DEF Diagram!Next, Diagram!IsReset, Conns
<1> QED BY <1>5, <1>6, <1>7 DEF MayBecome

LEMMA DiagramOpens ==
    ASSUME TcpTypeOK, NEW m \in Mapping, clist' = Append(clist, m)
    PROVE  Diagram!Next
<1>1. m.state.stateOfcnx \in eState
  BY StateFields DEF Mapping
<1>2. Conns \in Seq(eState) /\ Len(Conns) = Len(clist)
  <2>1. \A i \in DOMAIN clist : clist[i].state.stateOfcnx \in eState
    BY StatesTyped, StateFields
  <2>2. DOMAIN clist = 1 .. Len(clist) /\ Len(clist) \in Nat
    BY OneMore
  <2> QED BY <2>1, <2>2 DEF Conns
<1>3. Conns' = Append(Conns, m.state.stateOfcnx)
  <2>1. DOMAIN Conns' = 1 .. Len(Conns) + 1
    BY <1>2, OneMore DEF Conns
  <2>2. \A j \in 1 .. Len(Conns) : Conns'[j] = Conns[j]
    BY <1>2, OneMore DEF Conns
  <2>3. Conns'[Len(Conns) + 1] = m.state.stateOfcnx
    BY <1>2, OneMore DEF Conns
  <2> QED BY <1>1, <1>2, <2>1, <2>2, <2>3, AppendProperties DEF Conns
<1>4. \E st \in eState : Conns' = Append(Conns, st)
  BY <1>1, <1>3
<1> QED BY <1>4 DEF Diagram!Next, Diagram!Opens, Conns

\* Whatever segments arrive and whatever a new record holds, the states of the
\* connections move as the diagram allows: the detailed module implements it.
THEOREM DiagramCorrect == Spec => FollowsDiagram
<1>1. TcpTypeOK /\ [Next]_vars => Diagram!Next \/ UNCHANGED Conns
  <2> SUFFICES ASSUME TcpTypeOK, [Next]_vars PROVE Diagram!Next \/ UNCHANGED Conns
    OBVIOUS
  <2>1. CASE UNCHANGED clist
    BY <2>1 DEF Conns
  <2> QED BY <2>1, ListStep, DiagramMove, DiagramOpens
<1>2. TcpTypeOK /\ [Next]_vars =>
        [Diagram!Next]_([i \in DOMAIN clist |-> clist[i].state.stateOfcnx])
  BY <1>1 DEF Conns
<1> QED BY <1>2, DiagramInit, TcpTypeCorrect, PTL
        DEF Spec, FollowsDiagram, Diagram!Spec
=============================================================================
