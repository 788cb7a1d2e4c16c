----------------------------- MODULE TcpModule -----------------------------
(***************************************************************************)
(* The TCP module, src/core/tcp_module.cc, between ip_mux and the socket   *)
(* module.  It is unfinished, and is modelled as it stands:                *)
(*  - it looks for the TCP header before it has extracted it (line 190),   *)
(*    so what it reads of a segment is whatever the memory behind the      *)
(*    packet's headers holds: the handlers take any segment, and the       *)
(*    module may die of reading it;                                        *)
(*  - it receives twice for a socket request (lines 644 and 654): it looks *)
(*    up the connection of one request and serves the next one;            *)
(*  - the record of a new connection is not initialised.                   *)
(* A segment it sends is modelled by its control flags.                    *)
(***************************************************************************)
EXTENDS Minet, SockInt, TcpState

CONSTANTS
    Ends,         \* the connections that requests and segments name
    HeaderLens,   \* the lengths of a TCP header
    Garbage       \* the numbers an uninitialised field may hold

ASSUME TcpAssumption ==
    /\ Ends \subseteq Connection
    /\ HeaderLens \subseteq SeqNum
    /\ Garbage \subseteq SeqNum

VARIABLES
    clist,    \* the ConnectionList
    lookup,   \* <<i>>: a request has been read and its connection is the i-th of
              \* clist, 0 for end(); <<>>: the module waits for its next event
    tcpUp     \* the process runs

tcpVars == <<clist, lookup, tcpUp>>

\* MinetConnect(MINET_IP_MUX) comes before MinetAccept(MINET_SOCK_MODULE).
TcpHandles == <<"ipmux2tcp", "sock2tcp">>

Mapping == [connection : Ends, state : TCPState]

Flag == {"SYN", "ACK", "FIN", "RST"}

\* The connections FindMatching goes through.
Listed == [i \in DOMAIN clist |-> clist[i].connection]

TcpInit == clist = <<>> /\ lookup = <<>> /\ tcpUp = TRUE

ToSock(type, c, err) ==
    [to |-> "tcp2sock", msg |-> [type |-> type, connection |-> c, error |-> err]]
ToMux(flags) == [to |-> "tcp2ipmux", msg |-> flags]

----------------------------------------------------------------------------
(* Segments *)

\* The next event is a segment.
TcpEvent ==
    /\ tcpUp /\ lookup = <<>>
    /\ GetNextEvent("tcp", TcpHandles, "ipmux2tcp")

\* The segment read is for the i-th connection, which is in one of states.
TcpHears(i, states) ==
    /\ clist[i].state.stateOfcnx \in states
    /\ {c \in Ends : FindMatching(Listed, c, i)} # {}

\* What InSequence may say of a segment whose number is in seqs, according to the
\* length of its header and to rwnd.
Verdict(i, seqs) ==
    {InSequence(clist[i].state, seq, len, rwnd) :
       seq \in seqs, len \in HeaderLens, rwnd \in {0, 1}}

\* The connection's record becomes s and the segments in replies are sent.
TcpActs(i, s, replies) ==
    /\ Receive("tcp", "ipmux2tcp", replies)
    /\ clist' = [clist EXCEPT ![i].state = s]
    /\ UNCHANGED <<lookup, tcpUp>>

\* Reading the header, copying the record behind the end of the list or taking a
\* remainder by 2 << N may each end the process.
TcpDies ==
    /\ Receive("tcp", "ipmux2tcp", <<>>)
    /\ tcpUp' = FALSE
    /\ UNCHANGED <<clist, lookup>>

TcpHearsStranger ==
    /\ {c \in Ends : NoMatching(Listed, c)} # {}
    /\ Receive("tcp", "ipmux2tcp", <<>>)
    /\ UNCHANGED tcpVars

TcpClosed(i, flags) ==
    /\ TcpHears(i, {"CLOSED"})
    /\ TcpActs(i, clist[i].state,
         IF "ACK" \in flags THEN <<ToMux({"RST"})>> ELSE <<ToMux({"ACK", "RST"})>>)

\* A segment with ACK and SYN is answered twice; the second answer keeps the
\* flag of the first.  ISS is rand() modulo 2 << N, with the N of an
\* uninitialised record.
TcpListen(i, flags, seq, ISS) ==
    LET reset == IF "ACK" \in flags THEN {"RST"} ELSE {}
        first == IF "ACK" \in flags THEN <<ToMux({"RST"})>> ELSE <<>>
        s     == SetLastSent(SetLastRecvd(clist[i].state, seq), Plus(ISS, 1))
    IN
    /\ TcpHears(i, {"LISTEN"})
    /\ IF "RST" \in flags THEN TcpActs(i, clist[i].state, <<>>)
       ELSE IF "SYN" \in flags
         THEN TcpActs(i, SetState(SetLastAcked(s, Minus(ISS, 1)), "SYN_RCVD"),
                      Append(first, ToMux(reset \cup {"SYN", "ACK"})))
         ELSE TcpActs(i, clist[i].state, first)

TcpSynSent(i, flags, seq, ack, ISS) ==
    LET s        == clist[i].state
        refused  == /\ "ACK" \in flags /\ "RST" \notin flags
                    /\ ack <= ISS \/ ack > s.last_sent
        acked    == Plus(s.last_acked, 1) < ISS
    IN
    /\ TcpHears(i, {"SYN_SENT"})
    /\ \E inSequence \in Verdict(i, {seq}) :
         IF refused THEN TcpActs(i, s, <<ToMux({"RST"})>>)
         ELSE IF inSequence /\ "RST" \in flags
           THEN TcpActs(i, SetState(s, "CLOSED"), <<>>)
         ELSE IF "SYN" \in flags /\ ("ACK" \in flags => inSequence)
           THEN TcpActs(i, SetState(SetLastRecvd(s, seq),
                                    IF acked THEN "ESTABLISHED" ELSE "SYN_RCVD"),
                        <<ToMux(IF acked THEN {"ACK"} ELSE {"SYN", "ACK"})>>)
         ELSE TcpActs(i, s, <<>>)

\* The states whose handlers begin with checkFlags.
Synchronized ==
    {"SYN_RCVD", "ESTABLISHED", "CLOSE_WAIT", "FIN_WAIT1", "CLOSING", "LAST_ACK",
     "FIN_WAIT2", "TIME_WAIT"}

\* checkFlags returns false: a segment outside the window is answered,
TcpUnacceptable(i) ==
    /\ TcpHears(i, Synchronized)
    /\ FALSE \in Verdict(i, SeqNum)
    /\ TcpActs(i, clist[i].state, <<ToMux({"ACK"})>>)

\* a reset closes the connection, a SYN resets it, and without ACK it is dropped.
TcpFlagsFail(i, flags) ==
    LET s == clist[i].state IN
    /\ TcpHears(i, Synchronized)
    /\ flags \cap {"RST", "SYN", "ACK"} # {"ACK"}
    /\ TRUE \in Verdict(i, SeqNum)
    /\ IF "RST" \in flags THEN TcpActs(i, SetState(s, "CLOSED"), <<>>)
       ELSE IF "SYN" \in flags THEN TcpActs(i, SetState(s, "CLOSED"), <<ToMux({"RST"})>>)
       ELSE TcpActs(i, s, <<>>)

\* checkFlags returns true in one of states.
TcpChecked(i, states, flags) ==
    /\ TcpHears(i, states)
    /\ flags \cap {"RST", "SYN", "ACK"} = {"ACK"}
    /\ TRUE \in Verdict(i, SeqNum)

\* The FIN of the segment is overlooked.
TcpSynRcvd(i, flags) ==
    /\ TcpChecked(i, {"SYN_RCVD"}, flags)
    /\ TcpActs(i, SetState(clist[i].state, "ESTABLISHED"), <<>>)

\* dataLength is positive: the loop that copies the data never ends and writes
\* past the end of its buffers.
TcpDataKills(i, flags) ==
    /\ TcpChecked(i, {"ESTABLISHED"}, flags)
    /\ Receive("tcp", "ipmux2tcp", <<>>)
    /\ tcpUp' = FALSE
    /\ UNCHANGED <<clist, lookup>>

\* dataLength is 0, for a malformed segment only: the IP header's length, counted
\* in words, is subtracted as if it were octets.  The answer to a FIN has no flag.
TcpEstablished(i, flags, ack) ==
    LET s == SetLastAcked(clist[i].state, ack) IN
    /\ TcpChecked(i, {"ESTABLISHED"}, flags)
    /\ IF "FIN" \in flags THEN TcpActs(i, SetState(s, "CLOSE_WAIT"), <<ToMux({})>>)
                          ELSE TcpActs(i, s, <<>>)

\* FIN_WAIT1 goes through FIN_WAIT2 within one step.
TcpCloses(i, flags, ack) ==
    LET s == SetLastAcked(clist[i].state, ack) IN
    /\ TcpChecked(i, {"FIN_WAIT1", "FIN_WAIT2", "CLOSING"}, flags)
    /\ TcpActs(i, IF "FIN" \in flags THEN SetState(s, "TIME_WAIT") ELSE s, <<>>)

TcpCloseWait(i, flags, ack) ==
    /\ TcpChecked(i, {"CLOSE_WAIT"}, flags)
    /\ TcpActs(i, SetLastAcked(clist[i].state, ack), <<>>)

\* Fault: the last FIN is taken for one that starts the wait.
TcpLastAckWaits(i, flags) ==
    LET s == clist[i].state IN
    /\ TcpChecked(i, {"LAST_ACK"}, flags)
    /\ TcpActs(i, IF "FIN" \in flags THEN SetState(s, "TIME_WAIT") ELSE s, <<>>)

TcpLastAck(i, flags) ==
    LET s == clist[i].state IN
    /\ TcpChecked(i, {"LAST_ACK"}, flags)
    /\ TcpActs(i, IF "FIN" \in flags THEN SetState(s, "CLOSED") ELSE s, <<>>)

TcpTimeWait(i, flags) ==
    /\ TcpChecked(i, {"TIME_WAIT"}, flags)
    /\ TcpActs(i, clist[i].state,
         IF "FIN" \in flags THEN <<ToMux({"ACK", "FIN"})>> ELSE <<>>)

\* The default case.
TcpUnknown(i) ==
    /\ TcpHears(i, {"unknown"})
    /\ TcpActs(i, clist[i].state, <<>>)

TcpSegment ==
    /\ TcpEvent
    /\ \/ TcpDies \/ TcpHearsStranger
       \/ \E i \in DOMAIN clist : TcpUnknown(i) \/ TcpUnacceptable(i)
       \/ \E i \in DOMAIN clist, flags \in SUBSET Flag :
            \/ TcpClosed(i, flags) \/ TcpFlagsFail(i, flags)
            \/ TcpSynRcvd(i, flags) \/ TcpDataKills(i, flags)
            \/ TcpLastAck(i, flags) \/ TcpTimeWait(i, flags)
       \/ \E i \in DOMAIN clist, flags \in SUBSET Flag, ack \in SeqNum :
            \/ TcpEstablished(i, flags, ack) \/ TcpCloses(i, flags, ack)
            \/ TcpCloseWait(i, flags, ack)
            \/ \E seq, ISS \in SeqNum : TcpSynSent(i, flags, seq, ack, ISS)
       \/ \E i \in DOMAIN clist, flags \in SUBSET Flag, seq, ISS \in SeqNum :
            TcpListen(i, flags, seq, ISS)

----------------------------------------------------------------------------
(* Requests of the socket module *)

\* The first MinetReceive: only the connection of this request is used.
TcpLooksUp ==
    /\ tcpUp /\ lookup = <<>>
    /\ GetNextEvent("tcp", TcpHandles, "sock2tcp")
    /\ \/ /\ NoMatching(Listed, Head(fifo["sock2tcp"]).connection)
          /\ lookup' = <<0>>
       \/ \E i \in DOMAIN clist :
            /\ FindMatching(Listed, Head(fifo["sock2tcp"]).connection, i)
            /\ lookup' = <<i>>
    /\ Receive("tcp", "sock2tcp", <<>>)
    /\ UNCHANGED <<clist, tcpUp>>

\* The second MinetReceive returns: a request of the given type is served.
TcpAsked(types) ==
    /\ tcpUp /\ lookup # <<>>
    /\ fifo["sock2tcp"] # <<>>
    /\ Head(fifo["sock2tcp"]).type \in types

TcpReplies(reply) ==
    /\ Receive("tcp", "sock2tcp", <<reply>>)
    /\ lookup' = <<>>
    /\ UNCHANGED tcpUp

\* minet_socket() fails in a process that never called minet_init(), and die()
\* ends the process.
TcpConnect ==
    /\ TcpAsked({"CONNECT"})
    /\ Receive("tcp", "sock2tcp", <<>>)
    /\ tcpUp' = FALSE
    /\ UNCHANGED <<clist, lookup>>

\* The new mapping's record is not initialised.
TcpAccept ==
    LET c == Head(fifo["sock2tcp"]).connection IN
    /\ TcpAsked({"ACCEPT"})
    /\ IF lookup # <<0>>
         THEN /\ TcpReplies(ToSock("STATUS", NoConnection, "ERESOURCE_UNAVAIL"))
              /\ UNCHANGED clist
         ELSE /\ TcpReplies(ToSock("ACCEPT", c, "EOK"))
              /\ \E st \in eState, acked, sent, recvd, window \in Garbage :
                   clist' = Append(clist,
                     [connection |-> c,
                      state |-> [stateOfcnx |-> st, last_acked |-> acked,
                                 last_sent |-> sent, last_recvd |-> recvd,
                                 N |-> window]])

\* The rest is acknowledged and not done.
TcpAcknowledges ==
    LET r == Head(fifo["sock2tcp"]) IN
    /\ \/ /\ TcpAsked({"STATUS", "WRITE"})
          /\ TcpReplies(ToSock("WRITE", r.connection, "EOK"))
       \/ /\ TcpAsked({"FORWARD", "CLOSE"})
          /\ TcpReplies(ToSock("CLOSE", r.connection, "EOK"))
    /\ UNCHANGED clist

TcpNext ==
    \/ TcpSegment
    \/ TcpLooksUp \/ TcpConnect \/ TcpAccept \/ TcpAcknowledges
    \/ tcpUp /\ Send("tcp") /\ UNCHANGED tcpVars
=============================================================================
