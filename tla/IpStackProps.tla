---------------------------- MODULE IpStackProps ----------------------------
(***************************************************************************)
(* What the lower half of the stack should do, whatever the order in which *)
(* its processes run and whatever arrives.                                 *)
(***************************************************************************)
EXTENDS IpStack, Functions

----------------------------------------------------------------------------
(* Types *)

\* What each pipe carries: what its reader extracts from it.
Carrying(type)  == {raw \in RawEthernetPacket : raw.protocoltype = type}
PacketsOf(proto) == {p \in Packet : p.proto = proto}

MessageOf(f) ==
    CASE f \in {"pcap", "ether2mux", "mux2ether"} -> RawEthernetPacket
      [] f \in {"mux2arp", "arp2mux"}             -> Carrying("PROTO_ARP")
      [] f \in {"mux2ip", "ip2mux"}               -> Carrying("PROTO_IP")
      [] f = "mux2other"                          -> Carrying("PROTO_OTHER")
      [] f \in {"ip2arp", "arp2ip"}               -> ARPRequestResponse
      [] f = "sock2icmp"                          -> {"STATUS"}
      [] f \in {"ipmux2udp", "udp2ipmux"}         -> PacketsOf("UDP")
      [] f \in {"ipmux2tcp", "tcp2ipmux"}         -> PacketsOf("TCP")
      [] f \in {"ipmux2icmp", "icmp2ipmux", "icmp2sock"} -> PacketsOf("ICMP")
      [] f = "ipmux2other"                        -> PacketsOf("OTHER")
      [] OTHER                                    -> Packet

\* What a module writes, and where.
SendTo(f) == [to : {f}, msg : MessageOf(f)]

Sends(m) ==
    CASE m = "driver"   -> SendTo("ether2mux")
      [] m = "ethermux" -> SendTo("mux2arp") \cup SendTo("mux2ip")
                             \cup SendTo("mux2other") \cup SendTo("mux2ether")
      [] m = "arp"      -> SendTo("arp2ip") \cup SendTo("arp2mux")
      [] m = "ip"       -> SendTo("ip2arp") \cup SendTo("ip2mux")
                             \cup SendTo("ip2ipmux")
      [] m = "ipmux"    -> SendTo("ipmux2udp") \cup SendTo("ipmux2tcp")
                             \cup SendTo("ipmux2icmp") \cup SendTo("ipmux2other")
                             \cup SendTo("ipmux2ip")
      [] m = "icmp"     -> SendTo("icmp2ipmux") \cup SendTo("icmp2sock")
      [] m = "sock"     -> SendTo("sock2icmp")
      [] OTHER          -> {}

PipesOK ==
    /\ DOMAIN fifo = Fifo
    /\ \A f \in Fifo : fifo[f] \in Seq(MessageOf(f))
    /\ DOMAIN out = Process
    /\ \A m \in Process : out[m] \in Seq(Sends(m))

\* Types.  Every module of the stack is sent only what it can take, and the frames
\* on the link carry the host's own address and an ARP or an IP packet.
IpTypeOK ==
    /\ PipesOK
    /\ MyIPAddr \in DOMAIN cache /\ DOMAIN cache \subseteq IPAddress
    /\ cache \in [DOMAIN cache -> EthernetAddr]
    /\ asking \in Seq([packet : Packet, known : EthernetAddr]) /\ Len(asking) <= 1
    /\ \A raw \in sent : raw \in RawEthernetPacket /\ MaySend(raw)
    /\ heard \in Nat /\ handed \in [Upper -> Nat]

----------------------------------------------------------------------------
(* What is on its way *)

\* What module m still has to write to the pipe f, and what f holds besides.
Unsent(m, f)    == {i \in DOMAIN out[m] : out[m][i].to = f}
ToWrite(m, f)   == {out[m][i].msg : i \in Unsent(m, f)}
InTransit(m, f) == Range(fifo[f]) \cup ToWrite(m, f)
HowMany(m, f)   == Len(fifo[f]) + Cardinality(Unsent(m, f))

----------------------------------------------------------------------------
(* Questions and answers *)

\* SendPacket takes whatever comes next on the ARP pipe for its answer
\* (ip_module.cc:40), without looking at the address it is about.  There is never
\* anything else: no answer is left from an earlier question, the one under way is
\* about the packet being sent, and it is no older than what the ARP module knew
\* when it was asked.
AnswersMatchQuestions ==
    LET underway == HowMany("ip", "ip2arp") + HowMany("arp", "arp2ip") IN
    IF asking = <<>> THEN underway = 0
    ELSE /\ underway = 1
         /\ \A q \in InTransit("ip", "ip2arp") : q.ipaddr = asking[1].packet.dest
         /\ \A r \in InTransit("arp", "arp2ip") :
               /\ r.ipaddr = asking[1].packet.dest
               /\ r.ethernetaddr >= asking[1].known

----------------------------------------------------------------------------
(* Packets on their way down *)

\* The numbers of UDP's packets, among packets and among frames.
UdpPackets(packets) == {p.id : p \in {p \in packets : p.proto = "UDP"}}
UdpFrames(frames) ==
    UdpPackets({raw.payload : raw \in {raw \in frames : raw.protocoltype = "PROTO_IP"}})

\* The places they come through, the last one first.
Place(k) ==
    CASE k = 1 -> UdpFrames(Range(fifo["mux2ether"]))
      [] k = 2 -> UdpFrames(ToWrite("ethermux", "mux2ether"))
      [] k = 3 -> UdpFrames(Range(fifo["ip2mux"]))
      [] k = 4 -> UdpFrames(ToWrite("ip", "ip2mux"))
      [] k = 5 -> UdpPackets({asking[i].packet : i \in DOMAIN asking})
      [] k = 6 -> UdpPackets(Range(fifo["ipmux2ip"]))
      [] k = 7 -> UdpPackets(ToWrite("ipmux", "ipmux2ip"))
      [] k = 8 -> UdpPackets(Range(fifo["udp2ipmux"]))

Leaving == UNION {Place(k) : k \in 1 .. 8}

Channel == INSTANCE LossyFifo
             WITH offered <- handed["UDP"], inside <- Leaving, left <- UdpFrames(sent)

\* To UDP the modules below are a channel that may lose a packet (one whose address
\* is not known is dropped, ip_module.cc:75) and never reorders or repeats any.
LeavesInOrder == Channel!Spec

----------------------------------------------------------------------------
(* Progress *)

\* The process that reads the pipe.
Reader(f) ==
    CASE f \in {"mux2ether"}                           -> "driver"
      [] f \in {"ether2mux", "arp2mux", "ip2mux"}      -> "ethermux"
      [] f \in {"mux2arp", "ip2arp"}                   -> "arp"
      [] f \in {"mux2ip", "arp2ip", "ipmux2ip"}        -> "ip"
      [] f \in {"ip2ipmux", "icmp2ipmux"}              -> "ipmux"
      [] f \in {"ipmux2icmp", "sock2icmp"}             -> "icmp"
      [] f = "icmp2sock"                               -> "sock"
      [] OTHER                                         -> "nobody"

\* The process without which m can do nothing: the reader of the full pipe it is
\* writing to, or the ARP module when the IP module waits for its answer.
WaitsFor(m) ==
    IF out[m] # <<>>
    THEN IF BlockedOn(m, Head(out[m]).to) THEN {Reader(Head(out[m]).to)} ELSE {}
    ELSE IF m = "ip" /\ asking # <<>> /\ fifo["arp2ip"] = <<>> THEN {"arp"} ELSE {}

\* Processes wait for one another in a circle: every module writes to its pipes
\* with blocking writes and reads none of them meanwhile.
Jam ==
    LET Stuck == {m \in Process : WaitsFor(m) # {}} IN
        \E S \in SUBSET Stuck \ {{}} : \A m \in S : WaitsFor(m) \subseteq S

\* SendPacket comes back (ip_module.cc:40) unless the processes are jammed: the IP
\* module does not wait for ever.
QuestionAnswered == []<>(asking = <<>> \/ Jam)

\* An echo request for this host has come, from a host whose address is known.
EchoRequested(n) ==
    \E i \in DOMAIN fifo["pcap"] :
        LET raw == fifo["pcap"][i] IN
          /\ raw.protocoltype = "PROTO_IP"
          /\ raw.payload.type = "ECHO_REQUEST" /\ raw.payload.condition = "whole"
          /\ raw.payload.dest = MyIPAddr
          /\ raw.payload.src \in DOMAIN cache \ {MyIPAddr}
          /\ raw.payload.id = n

EchoReplied(n) ==
    \E raw \in sent :
        /\ raw.protocoltype = "PROTO_IP" /\ raw.payload.type = "ECHO_REPLY"
        /\ raw.payload.dest \in Hosts /\ raw.payload.id = n

\* It is answered: the request climbs through six processes and the reply comes
\* down through five, past whatever else is under way, unless they jam.  The first
\* frame is from a host that nothing is known of yet.
EchoAnswered == \A n \in 2 .. MAX_FRAMES : EchoRequested(n) ~> EchoReplied(n) \/ Jam
=============================================================================
