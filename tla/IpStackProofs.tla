--------------------------- MODULE IpStackProofs ---------------------------
(***************************************************************************)
(* Proofs about the lower half of the stack, for every value of the        *)
(* constants: IpTypeOK, AnswersMatchQuestions, and that UDP's packets      *)
(* leave in order.                                                         *)
(***************************************************************************)
EXTENDS IpStackInv, SequenceTheorems, FiniteSetTheorems, TLAPS

----------------------------------------------------------------------------
(* The pipes *)

\* A handler that sends what its module may send keeps the pipes well typed.
LEMMA ReceiveType ==
    ASSUME PipesOK, NEW m \in Process, NEW f \in Fifo, fifo[f] # <<>>,
           NEW sends, sends \in Seq(Sends(m)), Receive(m, f, sends)
    PROVE  PipesOK'
<1>1. Tail(fifo[f]) \in Seq(MessageOf(f))
  BY HeadTailProperties DEF PipesOK
<1> QED BY <1>1 DEF PipesOK, Receive

LEMMA ReadType ==
    ASSUME PipesOK, NEW m \in Process, NEW f \in Fifo, fifo[f] # <<>>, Receive(m, f, <<>>)
    PROVE  PipesOK'
<1>1. <<>> \in Seq(Sends(m))
  OBVIOUS
<1> QED BY <1>1, ReceiveType

LEMMA AppendType ==
    ASSUME PipesOK, NEW f \in Fifo, NEW msg \in MessageOf(f),
           fifo' = [fifo EXCEPT ![f] = Append(@, msg)], out' = out
    PROVE  PipesOK'
<1>1. Append(fifo[f], msg) \in Seq(MessageOf(f))
  BY AppendProperties DEF PipesOK
<1> QED BY <1>1 DEF PipesOK

LEMMA TakeType ==
    ASSUME PipesOK, NEW f \in Fifo, fifo[f] # <<>>,
           fifo' = [fifo EXCEPT ![f] = Tail(@)], out' = out
    PROVE  PipesOK'
<1>1. Tail(fifo[f]) \in Seq(MessageOf(f))
  BY HeadTailProperties DEF PipesOK
<1> QED BY <1>1 DEF PipesOK

\* What a module writes goes to a pipe that carries it.
LEMMA SendsFit ==
    ASSUME NEW m \in Process, NEW e \in Sends(m)
    PROVE  e.to \in Fifo /\ e.msg \in MessageOf(e.to)
<1>1. \A f \in Fifo : e \in SendTo(f) => e.to \in Fifo /\ e.msg \in MessageOf(e.to)
  BY DEF SendTo
<1>2. \E f \in Fifo : e \in SendTo(f)
  BY DEF Sends, Process, Fifo
<1> QED BY <1>1, <1>2

LEMMA SendType ==
    ASSUME PipesOK, NEW m \in Process, Send(m)
    PROVE  PipesOK'
<1> DEFINE e == Head(out[m])
<1>1. e \in Sends(m) /\ Tail(out[m]) \in Seq(Sends(m))
  BY HeadTailProperties DEF PipesOK, Send
<1>2. e.to \in Fifo /\ e.msg \in MessageOf(e.to)
  BY <1>1, SendsFit
<1>3. Append(fifo[e.to], e.msg) \in Seq(MessageOf(e.to))
  BY <1>2, AppendProperties DEF PipesOK
<1> QED BY <1>1, <1>2, <1>3 DEF PipesOK, Send

\* The message a handler finds is of the pipe's type.
LEMMA HeadType ==
    ASSUME PipesOK, NEW f \in Fifo, fifo[f] # <<>>
    PROVE  Head(fifo[f]) \in MessageOf(f)
  BY HeadTailProperties DEF PipesOK

\* One message for a pipe, by itself.
LEMMA OneSend ==
    ASSUME NEW f, NEW msg \in MessageOf(f), NEW m, SendTo(f) \subseteq Sends(m)
    PROVE  <<[to |-> f, msg |-> msg]>> \in Seq(Sends(m))
<1>1. [to |-> f, msg |-> msg] \in Sends(m)
  BY DEF SendTo
<1> QED BY <1>1

LEMMA FrameType ==
    ASSUME NEW src \in EthernetAddr, NEW dest \in EthernetAddr
    PROVE  /\ \A p \in Packet : Frame(src, dest, "PROTO_IP", p) \in Carrying("PROTO_IP")
           /\ \A a \in ARPPacket :
                Frame(src, dest, "PROTO_ARP", a) \in Carrying("PROTO_ARP")
  BY DEF Frame, Carrying, RawEthernetPacket

\* What a frame carries.
LEMMA FrameOf ==
    ASSUME NEW raw \in RawEthernetPacket
    PROVE  /\ raw.srcaddr \in EthernetAddr
           /\ raw.protocoltype \in {"PROTO_ARP", "PROTO_IP", "PROTO_OTHER"}
           /\ raw.protocoltype = "PROTO_ARP" => raw.payload \in ARPPacket
           /\ raw.protocoltype = "PROTO_IP" => raw.payload \in Packet
  BY DEF RawEthernetPacket

----------------------------------------------------------------------------
(* Types, process by process *)

LEMMA DriverType ==
    ASSUME IpTypeOK, Driver
    PROVE  IpTypeOK'
<1>1. PipesOK
  BY DEF IpTypeOK
<1>2. CASE DriverReads
  <2>1. "pcap" \in Fifo /\ "driver" \in Process /\ fifo["pcap"] # <<>>
    BY <1>2 DEF DriverReads, GetNextEvent, Fifo, Process
  <2>2. Head(fifo["pcap"]) \in MessageOf("ether2mux")
    BY <1>1, <2>1, HeadType DEF MessageOf
  <2>3. SendTo("ether2mux") \subseteq Sends("driver")
    BY DEF Sends
  <2>4. PipesOK'
    BY <1>1, <1>2, <2>1, <2>2, <2>3, OneSend, ReceiveType DEF DriverReads
  <2> QED BY <1>2, <2>4 DEF IpTypeOK, Driver, DriverReads, Outside
<1>3. CASE DriverWrites
  <2> DEFINE raw == Head(fifo["mux2ether"])
  <2>1. "mux2ether" \in Fifo /\ "driver" \in Process /\ fifo["mux2ether"] # <<>>
    BY <1>3 DEF DriverWrites, GetNextEvent, Fifo, Process
  <2>2. raw \in RawEthernetPacket
    BY <1>1, <2>1, HeadType DEF MessageOf
  <2>3. PipesOK'
    BY <1>1, <1>3, <2>1, ReadType DEF DriverWrites
  <2> QED BY <1>3, <2>2, <2>3 DEF IpTypeOK, Driver, DriverWrites, Outside
<1>4. CASE Send("driver") /\ UNCHANGED sent
  <2>1. PipesOK'
    BY <1>1, <1>4, SendType DEF Process
  <2> QED BY <1>4, <2>1 DEF IpTypeOK, Driver, Outside
<1> QED BY <1>2, <1>3, <1>4 DEF Driver, DriverNext

LEMMA EtherMuxPipes ==
    ASSUME PipesOK, EtherMuxNext
    PROVE  PipesOK'
<1>1. CASE EtherMuxDispatches
  <2> DEFINE raw == Head(fifo["ether2mux"])
             f == EtherMuxPipe(raw.protocoltype)
  <2>1. "ether2mux" \in Fifo /\ "ethermux" \in Process /\ fifo["ether2mux"] # <<>>
    BY <1>1 DEF EtherMuxDispatches, GetNextEvent, Fifo, Process
  <2>2. raw \in RawEthernetPacket
    BY <2>1, HeadType DEF MessageOf
  <2>3. raw \in Carrying(raw.protocoltype) /\ raw.protocoltype \in {"PROTO_ARP", "PROTO_IP", "PROTO_OTHER"}
    BY <2>2, FrameOf DEF Carrying
  <2> HIDE DEF raw
  <2>4. raw \in MessageOf(f) /\ SendTo(f) \subseteq Sends("ethermux")
    BY <2>3 DEF MessageOf, EtherMuxPipe, Sends
  <2>5. Receive("ethermux", "ether2mux", <<[to |-> f, msg |-> raw]>>)
    BY <1>1 DEF EtherMuxDispatches, raw
  <2> HIDE DEF f
  <2> QED BY <2>1, <2>4, <2>5, OneSend, ReceiveType
<1>2. CASE EtherMuxCollects
  <2>1. PICK f \in {"arp2mux", "ip2mux"} :
               /\ GetNextEvent("ethermux", EtherMuxHandles, f)
               /\ Receive("ethermux", f, <<[to |-> "mux2ether", msg |-> Head(fifo[f])]>>)
    BY <1>2 DEF EtherMuxCollects
  <2>2. f \in Fifo /\ "ethermux" \in Process /\ fifo[f] # <<>>
    BY <2>1 DEF GetNextEvent, Fifo, Process
  <2>3. Head(fifo[f]) \in MessageOf("mux2ether")
    BY <2>2, HeadType DEF MessageOf, Carrying
  <2>4. SendTo("mux2ether") \subseteq Sends("ethermux")
    BY DEF Sends
  <2> QED BY <2>1, <2>2, <2>3, <2>4, OneSend, ReceiveType
<1> QED BY <1>1, <1>2 DEF EtherMuxNext

LEMMA EtherMuxType ==
    ASSUME IpTypeOK, EtherMux
    PROVE  IpTypeOK'
<1>1. PipesOK'
  BY EtherMuxPipes, SendType DEF EtherMux, IpTypeOK, Process
<1> QED BY <1>1 DEF IpTypeOK, EtherMux, Outside

LEMMA ArpType ==
    ASSUME IpTypeOK, Arp
    PROVE  IpTypeOK'
<1>1. PipesOK /\ "arp" \in Process
  BY DEF IpTypeOK, Process
<1>2. SendTo("arp2ip") \subseteq Sends("arp") /\ SendTo("arp2mux") \subseteq Sends("arp")
  BY DEF Sends
<1>3. MyEthernetAddr \in EthernetAddr /\ ETHERNET_BROADCAST_ADDR \in EthernetAddr
      /\ ETHERNET_BLANK_ADDR \in EthernetAddr /\ MyIPAddr \in IPAddress
  BY DEF MyEthernetAddr, EthernetAddr, ETHERNET_BROADCAST_ADDR, ETHERNET_BLANK_ADDR,
         IPAddress
<1>4. CASE ArpHearsIp
  <2> DEFINE q == Head(fifo["ip2arp"])
             r == CacheLookup(q)
  <2>1. "ip2arp" \in Fifo /\ fifo["ip2arp"] # <<>>
    BY <1>4 DEF ArpHearsIp, GetNextEvent, Fifo
  <2>2. q \in ARPRequestResponse
    BY <1>1, <2>1, HeadType DEF MessageOf
  <2>3. r \in ARPRequestResponse
    BY <2>2 DEF CacheLookup, ARPRequestResponse, IpTypeOK
  <2> HIDE DEF r
  <2>4. Solicitation(r.ipaddr) \in Carrying("PROTO_ARP")
    <3>1. r.ipaddr \in IPAddress
      BY <2>3 DEF ARPRequestResponse
    <3>2. NewARPPacket("Request", MyEthernetAddr, MyIPAddr, ETHERNET_BLANK_ADDR, r.ipaddr)
            \in ARPPacket
      BY <1>3, <3>1 DEF NewARPPacket, ARPPacket
    <3> QED BY <1>3, <3>2, FrameType DEF Solicitation
  <2>5. ToIp(r) \in Sends("arp") /\ ArpToMux(Solicitation(r.ipaddr)) \in Sends("arp")
    BY <1>2, <2>3, <2>4 DEF ToIp, ArpToMux, SendTo, MessageOf
  <2>6. /\ <<ToIp(r), ArpToMux(Solicitation(r.ipaddr))>> \in Seq(Sends("arp"))
        /\ <<ToIp(r)>> \in Seq(Sends("arp"))
    BY <2>5
  <2>7. PICK sends \in Seq(Sends("arp")) : Receive("arp", "ip2arp", sends)
    BY <1>4, <2>6 DEF ArpHearsIp, r
  <2>8. PipesOK'
    BY <1>1, <2>1, <2>7, ReceiveType
  <2> QED BY <1>4, <2>8 DEF IpTypeOK, Arp, ArpHearsIp, Outside
<1>5. CASE ArpHearsMux
  <2> DEFINE arp == Head(fifo["mux2arp"]).payload
  <2>1. "mux2arp" \in Fifo /\ fifo["mux2arp"] # <<>>
    BY <1>5 DEF ArpHearsMux, GetNextEvent, Fifo
  <2>2. arp \in ARPPacket
    BY <1>1, <2>1, HeadType, FrameOf DEF MessageOf, Carrying
  <2> HIDE DEF arp
  <2>3. arp.senderhw \in EthernetAddr /\ arp.senderip \in IPAddress
    BY <2>2 DEF ARPPacket
  <2>4. ReplyTo(arp) \in Carrying("PROTO_ARP")
    <3>1. NewARPPacket("Reply", MyEthernetAddr, MyIPAddr, arp.senderhw, arp.senderip)
            \in ARPPacket
      BY <1>3, <2>3 DEF NewARPPacket, ARPPacket
    <3> QED BY <1>3, <2>3, <3>1, FrameType DEF ReplyTo
  <2>5. <<ArpToMux(ReplyTo(arp))>> \in Seq(Sends("arp")) /\ <<>> \in Seq(Sends("arp"))
    BY <1>2, <2>4 DEF ArpToMux, SendTo, MessageOf
  <2>6. PICK sends \in Seq(Sends("arp")) : Receive("arp", "mux2arp", sends)
    BY <1>5, <2>5 DEF ArpHearsMux, arp
  <2>7. PipesOK'
    BY <1>1, <2>1, <2>6, ReceiveType
  <2>8. \/ UNCHANGED cache
        \/ cache' = [i \in DOMAIN cache \cup {arp.senderip} |->
                       IF i = arp.senderip THEN arp.senderhw ELSE cache[i]]
    BY <1>5 DEF ArpHearsMux, CacheUpdate, arp
  <2>9. /\ MyIPAddr \in DOMAIN cache' /\ DOMAIN cache' \subseteq IPAddress
        /\ cache' \in [DOMAIN cache' -> EthernetAddr]
    BY <2>3, <2>8 DEF IpTypeOK
  <2> QED BY <2>7, <2>9 DEF IpTypeOK, Arp, Outside
<1>6. CASE Send("arp") /\ UNCHANGED cache
  <2>1. PipesOK'
    BY <1>1, <1>6, SendType
  <2> QED BY <1>6, <2>1 DEF IpTypeOK, Arp, Outside
<1> QED BY <1>4, <1>5, <1>6 DEF Arp, ArpNext

\* The question, and the packet that waits for its answer.
LEMMA SendPacketType ==
    ASSUME PipesOK, NEW f \in Fifo, fifo[f] # <<>>, NEW p \in Packet,
           NEW known \in EthernetAddr, SendPacket(f, p, known)
    PROVE  /\ PipesOK'
           /\ asking' \in Seq([packet : Packet, known : EthernetAddr]) /\ Len(asking') = 1
<1> DEFINE q == [ipaddr |-> p.dest, ethernetaddr |-> ETHERNET_BLANK_ADDR,
                 flag |-> "REQUEST"]
<1>1. q \in MessageOf("ip2arp") /\ SendTo("ip2arp") \subseteq Sends("ip")
  BY DEF MessageOf, ARPRequestResponse, Packet, ETHERNET_BLANK_ADDR, EthernetAddr, Sends
<1>2. Receive("ip", f, <<[to |-> "ip2arp", msg |-> q]>>)
  BY DEF SendPacket
<1> HIDE DEF q
<1>3. PipesOK'
  BY <1>1, <1>2, OneSend, ReceiveType DEF Process
<1>4. asking' = <<[packet |-> p, known |-> known]>>
  BY DEF SendPacket
<1> QED BY <1>3, <1>4

LEMMA KnownType ==
    ASSUME IpTypeOK
    PROVE  Known \in [IPAddress -> EthernetAddr]
  BY DEF IpTypeOK, Known, ETHERNET_BLANK_ADDR, EthernetAddr

\* The packet at the head of the pipe from the Ethernet mux.
LEMMA IpHearsPacket ==
    ASSUME PipesOK, IpGetNextEvent("mux2ip")
    PROVE  /\ "mux2ip" \in Fifo /\ fifo["mux2ip"] # <<>>
           /\ Head(fifo["mux2ip"]).payload \in Packet
<1>1. "mux2ip" \in Fifo /\ fifo["mux2ip"] # <<>>
  BY DEF IpGetNextEvent, GetNextEvent, Fifo
<1> QED BY <1>1, HeadType, FrameOf DEF MessageOf, Carrying

LEMMA IpType ==
    ASSUME IpTypeOK, Ip
    PROVE  IpTypeOK'
<1>1. PipesOK /\ "ip" \in Process
  BY DEF IpTypeOK, Process
<1> DEFINE AskingOK == asking \in Seq([packet : Packet, known : EthernetAddr])
                         /\ Len(asking) <= 1
<1> SUFFICES PipesOK' /\ AskingOK'
  BY DEF IpTypeOK, Ip, Outside
<1>2. AskingOK /\ <<>> \in Seq(Sends("ip"))
  BY DEF IpTypeOK
<1>3. CASE IpIgnores
  <2>1. PipesOK'
    BY <1>1, <1>3, IpHearsPacket, ReadType DEF IpIgnores
  <2> QED BY <1>2, <1>3, <2>1 DEF IpIgnores
<1>4. CASE IpRefuses(Known)
  <2> DEFINE p == Head(fifo["mux2ip"]).payload
             e == ICMPErrorPacket(p.src, ErrorFor(p.condition), p)
  <2>1. "mux2ip" \in Fifo /\ fifo["mux2ip"] # <<>> /\ p \in Packet
    BY <1>1, <1>4, IpHearsPacket DEF IpRefuses
  <2>2. p.condition # "whole" /\ SendPacket("mux2ip", e, Known[p.src])
    BY <1>4 DEF IpRefuses
  <2> HIDE DEF p
  <2>3. p.src \in IPAddress /\ p.condition \in Condition /\ p.id \in Nat
    BY <2>1 DEF Packet
  <2>4. ErrorFor(p.condition) \in ICMPType
    BY <2>2, <2>3 DEF ErrorFor, Condition, ICMPType, ICMPError
  <2>5. e \in Packet
    BY <2>3, <2>4 DEF ICMPErrorPacket, Packet, IPAddress, IPProtocol, Condition
  <2>6. Known[p.src] \in EthernetAddr
    BY <2>3, KnownType
  <2> HIDE DEF e
  <2>7. /\ PipesOK'
        /\ asking' \in Seq([packet : Packet, known : EthernetAddr]) /\ Len(asking') = 1
    BY <1>1, <2>1, <2>2, <2>5, <2>6, SendPacketType
  <2> QED BY <2>7
<1>5. CASE IpDelivers
  <2> DEFINE p == Head(fifo["mux2ip"]).payload
  <2>1. "mux2ip" \in Fifo /\ fifo["mux2ip"] # <<>> /\ p \in Packet
    BY <1>1, <1>5, IpHearsPacket DEF IpDelivers
  <2>2. Receive("ip", "mux2ip", <<[to |-> "ip2ipmux", msg |-> p]>>)
    BY <1>5 DEF IpDelivers
  <2> HIDE DEF p
  <2>3. p \in MessageOf("ip2ipmux") /\ SendTo("ip2ipmux") \subseteq Sends("ip")
    BY <2>1 DEF MessageOf, Sends
  <2>4. PipesOK'
    BY <1>1, <2>1, <2>2, <2>3, OneSend, ReceiveType
  <2> QED BY <1>2, <1>5, <2>4 DEF IpDelivers
<1>6. CASE IpSends(Known)
  <2> DEFINE p == Head(fifo["ipmux2ip"])
  <2>1. "ipmux2ip" \in Fifo /\ fifo["ipmux2ip"] # <<>>
    BY <1>6 DEF IpSends, IpGetNextEvent, GetNextEvent, Fifo
  <2>2. p \in Packet
    BY <1>1, <2>1, HeadType DEF MessageOf
  <2>3. SendPacket("ipmux2ip", p, Known[p.dest])
    BY <1>6 DEF IpSends
  <2> HIDE DEF p
  <2>4. Known[p.dest] \in EthernetAddr
    BY <2>2, KnownType DEF Packet
  <2>5. /\ PipesOK'
        /\ asking' \in Seq([packet : Packet, known : EthernetAddr]) /\ Len(asking') = 1
    BY <1>1, <2>1, <2>2, <2>3, <2>4, SendPacketType
  <2> QED BY <2>5
<1>7. CASE IpHearsArp
  <2> DEFINE p == asking[1].packet
             r == Head(fifo["arp2ip"])
  <2>1. "arp2ip" \in Fifo /\ fifo["arp2ip"] # <<>> /\ asking # <<>> /\ asking' = <<>>
    BY <1>7 DEF IpHearsArp, Fifo
  <2>2. p \in Packet
    <3>1. Head(asking) \in [packet : Packet, known : EthernetAddr]
      BY <1>2, <2>1, HeadTailProperties
    <3>2. Head(asking) = asking[1]
      OBVIOUS
    <3> QED BY <3>1, <3>2
  <2>3. r.ethernetaddr \in EthernetAddr
    <3>1. r \in ARPRequestResponse
      BY <1>1, <2>1, HeadType DEF MessageOf
    <3> QED BY <3>1 DEF ARPRequestResponse
  <2> DEFINE raw == Frame(MyEthernetAddr, r.ethernetaddr, "PROTO_IP", p)
  <2>4. \/ Receive("ip", "arp2ip", <<[to |-> "ip2mux", msg |-> raw]>>)
        \/ Receive("ip", "arp2ip", <<>>)
    BY <1>7 DEF IpHearsArp
  <2> HIDE DEF p, r
  <2>5. raw \in Carrying("PROTO_IP")
    BY <2>2, <2>3, FrameType DEF MyEthernetAddr, EthernetAddr
  <2> HIDE DEF raw
  <2>6. raw \in MessageOf("ip2mux") /\ SendTo("ip2mux") \subseteq Sends("ip")
    BY <2>5 DEF MessageOf, Sends
  <2>7. PipesOK'
    BY <1>1, <1>2, <2>1, <2>4, <2>6, OneSend, ReceiveType
  <2> QED BY <2>1, <2>7
<1>8. CASE Send("ip") /\ UNCHANGED asking
  BY <1>1, <1>2, <1>8, SendType
<1> QED BY <1>3, <1>4, <1>5, <1>6, <1>7, <1>8 DEF Ip, IpNext

LEMMA IpMuxPipes ==
    ASSUME PipesOK, IpMuxNext
    PROVE  PipesOK'
<1>1. CASE IpMuxDispatches
  <2> DEFINE p == Head(fifo["ip2ipmux"])
             f == IpMuxPipe(p.proto)
  <2>1. "ip2ipmux" \in Fifo /\ "ipmux" \in Process /\ fifo["ip2ipmux"] # <<>>
    BY <1>1 DEF IpMuxDispatches, GetNextEvent, Fifo, Process
  <2>2. p \in Packet
    BY <2>1, HeadType DEF MessageOf
  <2>3. p \in PacketsOf(p.proto) /\ p.proto \in {"UDP", "TCP", "ICMP", "OTHER"}
    BY <2>2 DEF PacketsOf, Packet, IPProtocol
  <2> HIDE DEF p
  <2>4. p \in MessageOf(f) /\ SendTo(f) \subseteq Sends("ipmux")
    BY <2>3 DEF MessageOf, IpMuxPipe, Sends
  <2>5. Receive("ipmux", "ip2ipmux", <<[to |-> f, msg |-> p]>>)
    BY <1>1 DEF IpMuxDispatches, p
  <2> HIDE DEF f
  <2> QED BY <2>1, <2>4, <2>5, OneSend, ReceiveType
<1>2. CASE IpMuxCollects
  <2>1. PICK f \in {"udp2ipmux", "tcp2ipmux", "icmp2ipmux"} :
               /\ GetNextEvent("ipmux", IpMuxHandles, f)
               /\ Receive("ipmux", f, <<[to |-> "ipmux2ip", msg |-> Head(fifo[f])]>>)
    BY <1>2 DEF IpMuxCollects
  <2>2. f \in Fifo /\ "ipmux" \in Process /\ fifo[f] # <<>>
    BY <2>1 DEF GetNextEvent, Fifo, Process
  <2>3. Head(fifo[f]) \in MessageOf("ipmux2ip")
    BY <2>2, HeadType DEF MessageOf, PacketsOf
  <2>4. SendTo("ipmux2ip") \subseteq Sends("ipmux")
    BY DEF Sends
  <2> QED BY <2>1, <2>2, <2>3, <2>4, OneSend, ReceiveType
<1> QED BY <1>1, <1>2 DEF IpMuxNext

LEMMA IpMuxType ==
    ASSUME IpTypeOK, IpMux
    PROVE  IpTypeOK'
<1>1. PipesOK'
  BY IpMuxPipes, SendType DEF IpMux, IpTypeOK, Process
<1> QED BY <1>1 DEF IpTypeOK, IpMux, Outside

LEMMA RespondType ==
    ASSUME NEW p \in PacketsOf("ICMP")
    PROVE  Respond(p) \in PacketsOf("ICMP")
<1>1. p \in Packet /\ p.proto = "ICMP"
  BY DEF PacketsOf
<1>2. p.type \in ICMPRequest => ReplyType(p.type) \in ICMPType
  BY DEF ReplyType, ICMPRequest, ICMPType, ICMPReply
<1> QED BY <1>1, <1>2 DEF Respond, PacketsOf, Packet

LEMMA IcmpPipes ==
    ASSUME PipesOK, IcmpNext
    PROVE  PipesOK'
<1>1. "icmp" \in Process
  BY DEF Process
<1>2. CASE IcmpHearsMux
  <2> DEFINE p == Head(fifo["ipmux2icmp"])
  <2>1. "ipmux2icmp" \in Fifo /\ fifo["ipmux2icmp"] # <<>>
    BY <1>2 DEF IcmpHearsMux, GetNextEvent, Fifo
  <2>2. p \in PacketsOf("ICMP")
    BY <2>1, HeadType DEF MessageOf
  <2>3. PICK reply \in RequiresReply(p) :
               Receive("icmp", "ipmux2icmp",
                       <<[to |-> IF reply THEN "icmp2ipmux" ELSE "icmp2sock",
                          msg |-> Respond(p)]>>)
    BY <1>2 DEF IcmpHearsMux
  <2> HIDE DEF p
  <2>4. PICK f \in {"icmp2ipmux", "icmp2sock"} :
               Receive("icmp", "ipmux2icmp", <<[to |-> f, msg |-> Respond(p)]>>)
    BY <2>3
  <2>5. Respond(p) \in MessageOf(f) /\ SendTo(f) \subseteq Sends("icmp")
    BY <2>2, RespondType DEF MessageOf, Sends
  <2> QED BY <1>1, <2>1, <2>4, <2>5, OneSend, ReceiveType
<1>3. CASE IcmpHearsSock
  <2>1. "sock2icmp" \in Fifo /\ fifo["sock2icmp"] # <<>>
    BY <1>3 DEF IcmpHearsSock, GetNextEvent, Fifo
  <2> QED BY <1>1, <1>3, <2>1, ReadType DEF IcmpHearsSock
<1> QED BY <1>2, <1>3 DEF IcmpNext

LEMMA IcmpProcessType ==
    ASSUME IpTypeOK, Icmp
    PROVE  IpTypeOK'
<1>1. PipesOK'
  BY IcmpPipes, SendType DEF Icmp, IpTypeOK, Process
<1> QED BY <1>1 DEF IpTypeOK, Icmp, Outside

LEMMA SockType ==
    ASSUME IpTypeOK, Sock
    PROVE  IpTypeOK'
<1>1. PipesOK /\ "sock" \in Process
  BY DEF IpTypeOK, Process
<1>2. ASSUME SockHearsIcmp PROVE PipesOK'
  <2>1. "icmp2sock" \in Fifo /\ fifo["icmp2sock"] # <<>>
    BY <1>2 DEF SockHearsIcmp, GetNextEvent, Fifo
  <2>2. "STATUS" \in MessageOf("sock2icmp") /\ SendTo("sock2icmp") \subseteq Sends("sock")
    BY DEF MessageOf, Sends
  <2> QED BY <1>1, <1>2, <2>1, <2>2, OneSend, ReceiveType DEF SockHearsIcmp
<1>3. PipesOK'
  BY <1>1, <1>2, SendType DEF Sock
<1> QED BY <1>3 DEF IpTypeOK, Sock, Outside

LEMMA SinksType ==
    ASSUME IpTypeOK, Sinks
    PROVE  IpTypeOK'
<1>1. PipesOK
  BY DEF IpTypeOK
<1>2. \/ "mux2other" \in Fifo /\ fifo["mux2other"] # <<>>
           /\ Receive("other", "mux2other", <<>>)
      \/ "ipmux2other" \in Fifo /\ fifo["ipmux2other"] # <<>>
           /\ Receive("ipother", "ipmux2other", <<>>)
  BY DEF Sinks, OtherReads, IpOtherReads, GetNextEvent, Fifo
<1>3. PipesOK'
  BY <1>1, <1>2, ReadType DEF Process
<1> QED BY <1>3 DEF IpTypeOK, Sinks, Outside

\* What may arrive is a frame from the next station.
LEMMA ArrivesType ==
    ASSUME IpTypeOK, NEW raw \in RawEthernetPacket, Arrives(raw),
           UNCHANGED <<cache, asking, sent>>
    PROVE  IpTypeOK'
<1>1. PipesOK /\ "pcap" \in Fifo /\ raw \in MessageOf("pcap")
  BY DEF IpTypeOK, Fifo, MessageOf
<1>2. PipesOK'
  BY <1>1, AppendType DEF Arrives
<1> QED BY <1>2 DEF IpTypeOK, Arrives

\* The frame the link brings, and whose it is.
LEMMA LinkBrings ==
    ASSUME IpTypeOK, Link
    PROVE  \E raw \in RawEthernetPacket :
             Arrives(raw) /\ raw.srcaddr = Station /\ OwnSender(raw)
<1>1. /\ Station \in EthernetAddr /\ MyEthernetAddr \in EthernetAddr
      /\ ETHERNET_BROADCAST_ADDR \in EthernetAddr /\ ETHERNET_BLANK_ADDR \in EthernetAddr
      /\ heard + 1 \in Nat
  BY DEF Station, MyEthernetAddr, EthernetAddr, ETHERNET_BROADCAST_ADDR,
         ETHERNET_BLANK_ADDR, IpTypeOK
<1> HIDE DEF Station
<1>2. CASE ArpArrives
  <2>1. PICK a \in ArpHeard :
          Arrives(Frame(Station, ETHERNET_BROADCAST_ADDR, "PROTO_ARP",
                        [opcode |-> a.opcode, senderhw |-> Station,
                         senderip |-> a.senderip, targethw |-> ETHERNET_BLANK_ADDR,
                         targetip |-> a.targetip, ipToEthernet |-> a.ipToEthernet]))
    BY <1>2 DEF ArpArrives
  <2> DEFINE arp == [opcode |-> a.opcode, senderhw |-> Station,
                     senderip |-> a.senderip, targethw |-> ETHERNET_BLANK_ADDR,
                     targetip |-> a.targetip, ipToEthernet |-> a.ipToEthernet]
             raw == Frame(Station, ETHERNET_BROADCAST_ADDR, "PROTO_ARP", arp)
  <2>2. arp \in ARPPacket
    BY <1>1, <2>1, IpStackAssumption DEF ARPPacket
  <2>3. arp.senderhw = Station
    OBVIOUS
  <2> HIDE DEF arp
  <2>4. raw \in RawEthernetPacket /\ raw.srcaddr = Station /\ raw.payload = arp
    BY <1>1, <2>2, FrameType DEF Carrying, Frame
  <2>5. Arrives(raw)
    BY <2>1 DEF arp
  <2> QED BY <2>3, <2>4, <2>5 DEF OwnSender
<1>3. CASE IpArrives
  <2>1. PICK p \in IpHeard :
          Arrives(Frame(Station, MyEthernetAddr, "PROTO_IP",
                        [src |-> p.src, dest |-> p.dest, proto |-> p.proto,
                         type |-> p.type, condition |-> p.condition,
                         id |-> heard + 1]))
    BY <1>3 DEF IpArrives
  <2> DEFINE ip == [src |-> p.src, dest |-> p.dest, proto |-> p.proto,
                    type |-> p.type, condition |-> p.condition, id |-> heard + 1]
             raw == Frame(Station, MyEthernetAddr, "PROTO_IP", ip)
  <2>2. ip \in Packet
    BY <1>1, <2>1, IpStackAssumption DEF Packet
  <2> HIDE DEF ip
  <2>3. raw \in RawEthernetPacket /\ raw.srcaddr = Station /\ raw.protocoltype = "PROTO_IP"
    BY <1>1, <2>2, FrameType DEF Carrying, Frame
  <2>4. Arrives(raw)
    BY <2>1 DEF ip
  <2> QED BY <2>3, <2>4 DEF OwnSender
<1>4. CASE OtherArrives
  <2> DEFINE raw == [srcaddr |-> Station, destaddr |-> ETHERNET_BROADCAST_ADDR,
                     protocoltype |-> "PROTO_OTHER"]
  <2>1. raw \in RawEthernetPacket /\ raw.srcaddr = Station
        /\ raw.protocoltype = "PROTO_OTHER"
    BY <1>1 DEF RawEthernetPacket
  <2>2. Arrives(raw)
    BY <1>4 DEF OtherArrives
  <2> QED BY <2>1, <2>2 DEF OwnSender
<1> QED BY <1>2, <1>3, <1>4 DEF Link

LEMMA LinkType ==
    ASSUME IpTypeOK, Link
    PROVE  IpTypeOK'
  BY LinkBrings, ArrivesType DEF Link

LEMMA UpperType ==
    ASSUME IpTypeOK, NEW m \in Upper,
           \/ UpperModuleReads(m)
           \/ UpperWrites(m) /\ UNCHANGED <<cache, asking, sent>>
    PROVE  IpTypeOK'
<1>1. PipesOK /\ m \in {"UDP", "TCP"}
  BY DEF IpTypeOK, Upper
<1>2. CASE UpperModuleReads(m)
  <2> DEFINE f == IF m = "UDP" THEN "ipmux2udp" ELSE "ipmux2tcp"
  <2>1. f \in Fifo /\ fifo[f] # <<>> /\ fifo' = [fifo EXCEPT ![f] = Tail(@)] /\ out' = out
    BY <1>2 DEF UpperModuleReads, UpperReads, Fifo
  <2> HIDE DEF f
  <2>2. PipesOK'
    BY <1>1, <2>1, TakeType
  <2> QED BY <1>2, <2>2 DEF IpTypeOK, UpperModuleReads, UpperReads
<1>3. CASE UpperWrites(m) /\ UNCHANGED <<cache, asking, sent>>
  <2> DEFINE f == IF m = "UDP" THEN "udp2ipmux" ELSE "tcp2ipmux"
             p(dest) == [src |-> MyIPAddr, dest |-> dest, proto |-> m, type |-> "none",
                         condition |-> "whole", id |-> handed[m] + 1]
  <2>1. PICK dest \in IpSent[m] : fifo' = [fifo EXCEPT ![f] = Append(@, p(dest))]
    BY <1>3 DEF UpperWrites
  <2>2. dest \in IPAddress
    BY <1>1, <2>1, IpStackAssumption
  <2>3. handed[m] \in Nat /\ f \in Fifo /\ handed' = [handed EXCEPT ![m] = @ + 1]
        /\ out' = out /\ heard' = heard
    BY <1>3 DEF UpperWrites, Fifo, IpTypeOK
  <2>4. p(dest) \in PacketsOf(m)
    BY <1>1, <2>2, <2>3 DEF PacketsOf, Packet, IPAddress, IPProtocol, ICMPType, Condition
  <2>5. p(dest) \in MessageOf(f)
    BY <1>1, <2>4 DEF MessageOf
  <2> HIDE DEF f, p
  <2>6. PipesOK'
    BY <1>1, <2>1, <2>3, <2>5, AppendType
  <2>7. handed' \in [Upper -> Nat]
    BY <2>3 DEF IpTypeOK
  <2> QED BY <1>3, <2>3, <2>6, <2>7 DEF IpTypeOK
<1> QED BY <1>2, <1>3

LEMMA InitIpType == Init => IpTypeOK
<1> SUFFICES ASSUME Init
             PROVE  IpTypeOK
  OBVIOUS
<1>1. PipesOK
  BY DEF Init, PipesOK
<1> QED BY <1>1 DEF Init, IpTypeOK, ArpInit, IpInit, DriverInit, IPAddress, MyEthernetAddr,
                    EthernetAddr

LEMMA NextIpType ==
    ASSUME IpTypeOK, [Next]_vars
    PROVE  IpTypeOK'
<1>1. CASE Next
  BY <1>1, DriverType, EtherMuxType, ArpType, IpType, IpMuxType, IcmpProcessType,
     SockType, SinksType, LinkType, UpperType DEF Next, Runs
<1>2. CASE UNCHANGED vars
  BY <1>2 DEF vars, IpTypeOK, PipesOK, Upper
<1> QED BY <1>1, <1>2

\* Whatever arrives, every module is sent only what it can take, and only the host's
\* own ARP and IP frames go out on the link.
THEOREM IpTypeCorrect == Spec => []IpTypeOK
<1>1. Init => IpTypeOK
  BY InitIpType
<1>2. IpTypeOK /\ [Next]_vars => IpTypeOK'
  BY NextIpType
<1> QED BY <1>1, <1>2, PTL DEF Spec

----------------------------------------------------------------------------
(* What a step leaves alone *)

\* Of the pipes only some change, and of what is to be written only m's.
Touches(m, pipes) ==
    /\ \A f \in Fifo \ pipes : fifo'[f] = fifo[f]
    /\ \A n \in Process \ {m} : out'[n] = out[n]

\* A handler reads one message and leaves others to write.
LEMMA Receives ==
    ASSUME PipesOK, NEW m \in Process, NEW f \in Fifo, NEW sends, Receive(m, f, sends)
    PROVE  Touches(m, {f}) /\ fifo'[f] = Tail(fifo[f]) /\ out'[m] = sends
  BY DEF PipesOK, Receive, Touches

\* A write moves one message into its pipe.
LEMMA Writes ==
    ASSUME PipesOK, NEW m \in Process, Send(m)
    PROVE  LET e == Head(out[m]) IN
             /\ out[m] # <<>> /\ e \in Sends(m) /\ e.to \in Fifo
             /\ e.msg \in MessageOf(e.to)
             /\ Touches(m, {e.to})
             /\ fifo'[e.to] = Append(fifo[e.to], e.msg) /\ out'[m] = Tail(out[m])
<1> DEFINE e == Head(out[m])
<1>1. out[m] # <<>> /\ e \in Sends(m)
  BY HeadTailProperties DEF PipesOK, Send
<1>2. e.to \in Fifo /\ e.msg \in MessageOf(e.to)
  BY <1>1, SendsFit
<1> QED BY <1>1, <1>2 DEF PipesOK, Send, Touches

\* The pipes each process reads and writes.
Ends(m) ==
    CASE m = "driver"   -> {"pcap", "mux2ether", "ether2mux"}
      [] m = "ethermux" -> {"ether2mux", "arp2mux", "ip2mux", "mux2arp", "mux2ip",
                            "mux2other", "mux2ether"}
      [] m = "arp"      -> {"mux2arp", "ip2arp", "arp2ip", "arp2mux"}
      [] m = "ip"       -> {"mux2ip", "arp2ip", "ipmux2ip", "ip2arp", "ip2mux",
                            "ip2ipmux"}
      [] m = "ipmux"    -> {"ip2ipmux", "udp2ipmux", "tcp2ipmux", "icmp2ipmux",
                            "ipmux2udp", "ipmux2tcp", "ipmux2icmp", "ipmux2other",
                            "ipmux2ip"}
      [] m = "icmp"     -> {"ipmux2icmp", "sock2icmp", "icmp2ipmux", "icmp2sock"}
      [] m = "sock"     -> {"icmp2sock", "sock2icmp"}
      [] m = "other"    -> {"mux2other"}
      [] m = "ipother"  -> {"ipmux2other"}

LEMMA ReceivesTouch ==
    ASSUME PipesOK, NEW m \in Process, NEW f \in Fifo \cap Ends(m), NEW sends,
           Receive(m, f, sends)
    PROVE  Touches(m, Ends(m))
  BY Receives DEF Touches

LEMMA SendsTouch ==
    ASSUME PipesOK, NEW m \in Process, Send(m)
    PROVE  Touches(m, Ends(m))
<1> DEFINE e == Head(out[m])
<1>1. e \in Sends(m) /\ Touches(m, {e.to})
  BY Writes
<1>2. e.to \in Ends(m)
  BY <1>1 DEF Sends, SendTo, Process, Ends
<1> QED BY <1>1, <1>2 DEF Touches

\* A step is that of one process, or one from outside, and touches only its own pipes.
LEMMA StepTouches ==
    ASSUME IpTypeOK
    PROVE  /\ Driver => Touches("driver", Ends("driver")) /\ UNCHANGED <<cache, asking>>
           /\ EtherMux => Touches("ethermux", Ends("ethermux"))
                            /\ UNCHANGED <<cache, asking, sent>>
           /\ Arp => Touches("arp", Ends("arp")) /\ UNCHANGED <<asking, sent>>
           /\ Ip => Touches("ip", Ends("ip")) /\ UNCHANGED <<cache, sent>>
           /\ IpMux => Touches("ipmux", Ends("ipmux")) /\ UNCHANGED <<cache, asking, sent>>
           /\ Icmp => Touches("icmp", Ends("icmp")) /\ UNCHANGED <<cache, asking, sent>>
           /\ Sock => Touches("sock", Ends("sock")) /\ UNCHANGED <<cache, asking, sent>>
           /\ Driver \/ EtherMux \/ Arp \/ Ip \/ IpMux \/ Icmp \/ Sock
                => UNCHANGED <<heard, handed>>
<1>1. PipesOK
  BY DEF IpTypeOK
<1>2. ASSUME Driver PROVE Touches("driver", Ends("driver"))
  <2>1. ASSUME NEW f \in {"pcap", "mux2ether"}, NEW sends, Receive("driver", f, sends)
        PROVE  Touches("driver", Ends("driver"))
    BY <1>1, <2>1, ReceivesTouch DEF Ends, Fifo, Process
  <2> QED BY <1>1, <1>2, <2>1, SendsTouch
          DEF Driver, DriverNext, DriverReads, DriverWrites, Process
<1>3. ASSUME EtherMux PROVE Touches("ethermux", Ends("ethermux"))
  <2>1. ASSUME NEW f \in {"ether2mux", "arp2mux", "ip2mux"}, NEW sends,
               Receive("ethermux", f, sends)
        PROVE  Touches("ethermux", Ends("ethermux"))
    BY <1>1, <2>1, ReceivesTouch DEF Ends, Fifo, Process
  <2> QED BY <1>1, <1>3, <2>1, SendsTouch
          DEF EtherMux, EtherMuxNext, EtherMuxDispatches, EtherMuxCollects, Process
<1>4. ASSUME Arp PROVE Touches("arp", Ends("arp"))
  <2>1. ASSUME NEW f \in {"mux2arp", "ip2arp"}, NEW sends, Receive("arp", f, sends)
        PROVE  Touches("arp", Ends("arp"))
    BY <1>1, <2>1, ReceivesTouch DEF Ends, Fifo, Process
  <2> QED BY <1>1, <1>4, <2>1, SendsTouch
          DEF Arp, ArpNext, ArpHearsIp, ArpHearsMux, Process
<1>5. ASSUME Ip PROVE Touches("ip", Ends("ip"))
  <2>1. ASSUME NEW f \in {"mux2ip", "arp2ip", "ipmux2ip"}, NEW sends,
               Receive("ip", f, sends)
        PROVE  Touches("ip", Ends("ip"))
    BY <1>1, <2>1, ReceivesTouch DEF Ends, Fifo, Process
  <2> QED BY <1>1, <1>5, <2>1, SendsTouch
          DEF Ip, IpNext, IpIgnores, IpRefuses, IpDelivers, IpSends, IpHearsArp,
              SendPacket, Process
<1>6. ASSUME IpMux PROVE Touches("ipmux", Ends("ipmux"))
  <2>1. ASSUME NEW f \in {"ip2ipmux", "udp2ipmux", "tcp2ipmux", "icmp2ipmux"}, NEW sends,
               Receive("ipmux", f, sends)
        PROVE  Touches("ipmux", Ends("ipmux"))
    BY <1>1, <2>1, ReceivesTouch DEF Ends, Fifo, Process
  <2> QED BY <1>1, <1>6, <2>1, SendsTouch
          DEF IpMux, IpMuxNext, IpMuxDispatches, IpMuxCollects, Process
<1>7. ASSUME Icmp PROVE Touches("icmp", Ends("icmp"))
  <2>1. ASSUME NEW f \in {"ipmux2icmp", "sock2icmp"}, NEW sends, Receive("icmp", f, sends)
        PROVE  Touches("icmp", Ends("icmp"))
    BY <1>1, <2>1, ReceivesTouch DEF Ends, Fifo, Process
  <2> QED BY <1>1, <1>7, <2>1, SendsTouch
          DEF Icmp, IcmpNext, IcmpHearsMux, IcmpHearsSock, Process
<1>8. ASSUME Sock PROVE Touches("sock", Ends("sock"))
  <2>1. ASSUME NEW sends, Receive("sock", "icmp2sock", sends)
        PROVE  Touches("sock", Ends("sock"))
    BY <1>1, <2>1, ReceivesTouch DEF Ends, Fifo, Process
  <2> QED BY <1>1, <1>8, <2>1, SendsTouch DEF Sock, SockHearsIcmp, Process
<1>9. Driver \/ EtherMux \/ Arp \/ Ip \/ IpMux \/ Icmp \/ Sock => UNCHANGED <<heard, handed>>
  BY DEF Driver, EtherMux, Arp, Ip, IpMux, Icmp, Sock, Outside
<1>10. /\ Driver => UNCHANGED <<cache, asking>>
       /\ EtherMux \/ IpMux \/ Icmp \/ Sock => UNCHANGED <<cache, asking, sent>>
       /\ Arp => UNCHANGED <<asking, sent>>
       /\ Ip => UNCHANGED <<cache, sent>>
  BY DEF Driver, EtherMux, Arp, Ip, IpMux, Icmp, Sock
<1> QED BY <1>2, <1>3, <1>4, <1>5, <1>6, <1>7, <1>8, <1>9, <1>10

\* The sinks, the link and the upper modules.
LEMMA OutsideTouches ==
    ASSUME IpTypeOK
    PROVE  /\ Sinks => /\ \A f \in Fifo \ {"mux2other", "ipmux2other"} : fifo'[f] = fifo[f]
                       /\ \A m \in Process \ {"other", "ipother"} : out'[m] = out[m]
                       /\ \A m \in {"other", "ipother"} : out'[m] \in {out[m], <<>>}
                       /\ UNCHANGED <<cache, asking, sent, heard, handed>>
           /\ Link => /\ \A f \in Fifo \ {"pcap"} : fifo'[f] = fifo[f]
                      /\ UNCHANGED <<out, cache, asking, sent, handed>>
           /\ \A m \in Upper :
                /\ UpperModuleReads(m) =>
                     /\ \A f \in Fifo \ {"ipmux2udp", "ipmux2tcp"} : fifo'[f] = fifo[f]
                     /\ UNCHANGED <<out, cache, asking, sent, heard, handed>>
                /\ UpperWrites(m) =>
                     /\ \A f \in Fifo \ {"udp2ipmux", "tcp2ipmux"} : fifo'[f] = fifo[f]
                     /\ UNCHANGED <<out, heard>>
<1>1. PipesOK /\ DOMAIN fifo = Fifo
  BY DEF IpTypeOK, PipesOK
<1>2. ASSUME Sinks
      PROVE  /\ \A f \in Fifo \ {"mux2other", "ipmux2other"} : fifo'[f] = fifo[f]
             /\ \A m \in Process \ {"other", "ipother"} : out'[m] = out[m]
             /\ \A m \in {"other", "ipother"} : out'[m] \in {out[m], <<>>}
             /\ UNCHANGED <<cache, asking, sent, heard, handed>>
  <2>1. \/ Receive("other", "mux2other", <<>>)
        \/ Receive("ipother", "ipmux2other", <<>>)
    BY <1>2 DEF Sinks, OtherReads, IpOtherReads
  <2>2. \/ Touches("other", {"mux2other"}) /\ out'["other"] = <<>>
        \/ Touches("ipother", {"ipmux2other"}) /\ out'["ipother"] = <<>>
    BY <1>1, <2>1, Receives DEF Process, Fifo
  <2> QED BY <1>2, <2>2 DEF Touches, Sinks, Outside, Process
<1>3. ASSUME Link
      PROVE  /\ \A f \in Fifo \ {"pcap"} : fifo'[f] = fifo[f]
             /\ UNCHANGED <<out, cache, asking, sent, handed>>
  <2>1. PICK raw : Arrives(raw)
    BY <1>3 DEF Link, ArpArrives, IpArrives, OtherArrives
  <2> QED BY <1>1, <1>3, <2>1 DEF Arrives, Link
<1>4. ASSUME NEW m \in Upper
      PROVE  /\ UpperModuleReads(m) =>
                  /\ \A f \in Fifo \ {"ipmux2udp", "ipmux2tcp"} : fifo'[f] = fifo[f]
                  /\ UNCHANGED <<out, cache, asking, sent, heard, handed>>
             /\ UpperWrites(m) =>
                  /\ \A f \in Fifo \ {"udp2ipmux", "tcp2ipmux"} : fifo'[f] = fifo[f]
                  /\ UNCHANGED <<out, heard>>
  BY <1>1, <1>4 DEF UpperModuleReads, UpperReads, UpperWrites
<1> QED BY <1>2, <1>3, <1>4

----------------------------------------------------------------------------
(* A handler leaves one message to write *)

LEMMA OneMessageLeft ==
    ASSUME IpTypeOK, FewMessages, NEW m \in Process, m # "arp",
           \/ Send(m)
           \/ \E f, sends : Receive(m, f, sends) /\ (sends = <<>> \/ \E e : sends = <<e>>)
    PROVE  Len(out'[m]) <= 1
<1>1. PipesOK /\ Len(out[m]) <= 1 /\ out[m] \in Seq(Sends(m))
  BY DEF IpTypeOK, FewMessages, PipesOK
<1>2. CASE Send(m)
  <2>1. out[m] # <<>> /\ out'[m] = Tail(out[m])
    BY <1>1, <1>2, Writes
  <2>2. Len(Tail(out[m])) = Len(out[m]) - 1 /\ Len(out[m]) \in Nat
    BY <1>1, <2>1, HeadTailProperties
  <2> QED BY <1>1, <2>1, <2>2
<1>3. ASSUME NEW f, NEW sends, Receive(m, f, sends), sends = <<>> \/ \E e : sends = <<e>>
      PROVE  Len(out'[m]) <= 1
  <2>1. out'[m] = sends
    BY <1>1, <1>3 DEF Receive, PipesOK
  <2>2. CASE sends = <<>>
    BY <2>1, <2>2
  <2>3. CASE \E e : sends = <<e>>
    <3>1. PICK e : sends = <<e>>
      BY <2>3
    <3>2. Len(sends) = 1
      BY <3>1
    <3> QED BY <2>1, <3>2
  <2> QED BY <1>3, <2>2, <2>3
<1> QED BY <1>2, <1>3

\* The ARP module writes an answer before anything else.
LEMMA AnswerFirst ==
    ASSUME IpTypeOK, FewMessages, Arp
    PROVE  \A i \in DOMAIN out'["arp"] : out'["arp"][i].to = "arp2ip" => i = 1
<1>1. PipesOK /\ "arp" \in Process /\ out["arp"] \in Seq(Sends("arp"))
      /\ DOMAIN out = Process
  BY DEF IpTypeOK, Process, PipesOK
<1>2. CASE ArpHearsIp
  <2>1. PICK r, s : \/ out'["arp"] = <<ToIp(r), ArpToMux(s)>>
                    \/ out'["arp"] = <<ToIp(r)>>
    BY <1>1, <1>2 DEF ArpHearsIp, Receive
  <2>2. ArpToMux(s).to # "arp2ip"
    BY DEF ArpToMux
  <2> QED BY <2>1, <2>2
<1>3. CASE ArpHearsMux
  <2>1. PICK s : out'["arp"] = <<ArpToMux(s)>> \/ out'["arp"] = <<>>
    BY <1>1, <1>3 DEF ArpHearsMux, Receive
  <2>2. ArpToMux(s).to # "arp2ip"
    BY DEF ArpToMux
  <2> QED BY <2>1, <2>2
<1>4. CASE Send("arp")
  <2>1. out["arp"] # <<>> /\ out'["arp"] = Tail(out["arp"])
    BY <1>1, <1>4, Writes
  <2>2. /\ Len(out'["arp"]) = Len(out["arp"]) - 1 /\ out'["arp"] \in Seq(Sends("arp"))
        /\ \A i \in 1 .. Len(out'["arp"]) : out'["arp"][i] = out["arp"][i + 1]
    BY <1>1, <2>1, HeadTailProperties
  <2>3. ASSUME NEW i \in DOMAIN out'["arp"]
        PROVE  out'["arp"][i].to # "arp2ip"
    <3>1. i \in 1 .. Len(out'["arp"]) /\ i + 1 \in DOMAIN out["arp"] /\ i + 1 # 1
      BY <1>1, <2>2
    <3> QED BY <2>2, <3>1 DEF FewMessages
  <2> QED BY <2>3
<1> QED BY <1>2, <1>3, <1>4 DEF Arp, ArpNext

LEMMA FewMessagesStep ==
    ASSUME IpTypeOK, FewMessages, Next
    PROVE  FewMessages'
<1> DEFINE Own(m) == /\ \A n \in Process \ {m} : out'[n] = out[n]
                     /\ Len(out'[m]) <= 1
<1>1. ASSUME NEW m \in Process \ {"arp"}, Own(m)
      PROVE  FewMessages'
  <2>1. out'["arp"] = out["arp"]
    BY <1>1 DEF Process
  <2> QED BY <1>1, <2>1 DEF FewMessages
<1>2. CASE Driver
  <2>1. Len(out'["driver"]) <= 1
    BY <1>2, OneMessageLeft DEF Driver, DriverNext, DriverReads, DriverWrites, Process
  <2> QED BY <1>1, <1>2, <2>1, StepTouches DEF Touches, Process
<1>3. CASE EtherMux
  <2>1. Len(out'["ethermux"]) <= 1
    BY <1>3, OneMessageLeft
       DEF EtherMux, EtherMuxNext, EtherMuxDispatches, EtherMuxCollects, Process
  <2> QED BY <1>1, <1>3, <2>1, StepTouches DEF Touches, Process
<1>4. CASE Arp
  <2>1. \A n \in Process \ {"arp"} : out'[n] = out[n]
    BY <1>4, StepTouches DEF Touches
  <2> QED BY <1>4, <2>1, AnswerFirst DEF FewMessages
<1>5. CASE Ip
  <2>1. Len(out'["ip"]) <= 1
    BY <1>5, OneMessageLeft
       DEF Ip, IpNext, IpIgnores, IpRefuses, IpDelivers, IpSends, IpHearsArp, SendPacket,
           Process
  <2> QED BY <1>1, <1>5, <2>1, StepTouches DEF Touches, Process
<1>6. CASE IpMux
  <2>1. Len(out'["ipmux"]) <= 1
    BY <1>6, OneMessageLeft DEF IpMux, IpMuxNext, IpMuxDispatches, IpMuxCollects, Process
  <2> QED BY <1>1, <1>6, <2>1, StepTouches DEF Touches, Process
<1>7. CASE Icmp
  <2>1. Len(out'["icmp"]) <= 1
    BY <1>7, OneMessageLeft DEF Icmp, IcmpNext, IcmpHearsMux, IcmpHearsSock, Process
  <2> QED BY <1>1, <1>7, <2>1, StepTouches DEF Touches, Process
<1>8. CASE Sock
  <2>1. Len(out'["sock"]) <= 1
    BY <1>8, OneMessageLeft DEF Sock, SockHearsIcmp, Process
  <2> QED BY <1>1, <1>8, <2>1, StepTouches DEF Touches, Process
<1>9. CASE Sinks
  <2>1. \A m \in Process \ {"arp"} : out'[m] = out[m] \/ out'[m] = <<>>
    BY <1>9, OutsideTouches DEF Process
  <2>2. out'["arp"] = out["arp"]
    BY <1>9, OutsideTouches DEF Process
  <2> QED BY <2>1, <2>2 DEF FewMessages
<1>10. CASE Link \/ \E m \in Upper : UpperModuleReads(m) \/ UpperWrites(m)
  <2>1. out' = out
    BY <1>10, OutsideTouches
  <2> QED BY <2>1 DEF FewMessages
<1> QED BY <1>2, <1>3, <1>4, <1>5, <1>6, <1>7, <1>8, <1>9, <1>10 DEF Next, Runs

\* What a module with at most one message has to write.
LEMMA SingleWrite ==
    ASSUME IpTypeOK, FewMessages, NEW m \in Process \ {"arp"}, NEW f
    PROVE  /\ out[m] = <<>> => Unsent(m, f) = {} /\ ToWrite(m, f) = {}
           /\ out[m] # <<>> =>
                /\ out[m][1] = Head(out[m]) /\ Tail(out[m]) = <<>>
                /\ Unsent(m, f) = IF Head(out[m]).to = f THEN {1} ELSE {}
                /\ ToWrite(m, f) = IF Head(out[m]).to = f THEN {Head(out[m]).msg} ELSE {}
<1>1. out[m] \in Seq(Sends(m)) /\ Len(out[m]) <= 1 /\ Len(out[m]) \in Nat
  BY DEF IpTypeOK, PipesOK, FewMessages
<1>2. CASE out[m] = <<>>
  BY <1>2 DEF Unsent, ToWrite
<1>3. CASE out[m] # <<>>
  <2>1. Len(out[m]) # 0
    BY <1>1, <1>3, EmptySeq
  <2>2. Len(out[m]) = 1 /\ DOMAIN out[m] = {1}
    <3>1. Len(out[m]) = 1
      <4> DEFINE n == Len(out[m])
      <4>1. n \in Nat /\ n <= 1 /\ n # 0
        BY <1>1, <2>1
      <4> HIDE DEF n
      <4>2. n = 1
        BY <4>1
      <4> QED BY <4>2 DEF n
    <3>2. DOMAIN out[m] = 1 .. Len(out[m])
      BY <1>1
    <3> QED BY <3>1, <3>2
  <2>3. Tail(out[m]) \in Seq(Sends(m)) /\ Len(Tail(out[m])) = 0
    BY <1>1, <1>3, <2>2, HeadTailProperties
  <2>4. Tail(out[m]) = <<>>
    BY <2>3, EmptySeq
  <2>5. Head(out[m]) = out[m][1]
    OBVIOUS
  <2> QED BY <1>3, <2>2, <2>4, <2>5 DEF Unsent, ToWrite
<1> QED BY <1>2, <1>3

----------------------------------------------------------------------------
(* Questions and answers *)

\* What the ARP module knows of an address is only replaced by something newer.
KnownGrows == \A x \in IPAddress : Known[x] <= Known'[x]

LEMMA SameKnown ==
    ASSUME IpTypeOK, UNCHANGED cache
    PROVE  KnownGrows
<1>1. Known' = Known /\ \A x \in IPAddress : Known[x] \in Nat
  BY KnownType DEF Known, EthernetAddr
<1> QED BY <1>1 DEF KnownGrows

LEMMA ArpLearns ==
    ASSUME IpTypeOK, HeardInOrder, Arp
    PROVE  KnownGrows
<1>1. CASE UNCHANGED cache
  BY <1>1, SameKnown
<1>2. CASE ArpHearsMux /\ ~ UNCHANGED cache
  <2> DEFINE raw == Head(fifo["mux2arp"])
             arp == raw.payload
  <2>1. fifo["mux2arp"] # <<>> /\ "mux2arp" \in Fifo /\ PipesOK
    BY <1>2 DEF ArpHearsMux, GetNextEvent, Fifo, IpTypeOK
  <2>2. raw \in Carrying("PROTO_ARP")
    BY <2>1, HeadType DEF MessageOf
  <2>3. raw \in Range(fifo["mux2arp"])
    <3>1. fifo["mux2arp"] \in Seq(MessageOf("mux2arp"))
      BY <2>1 DEF PipesOK
    <3>2. Len(fifo["mux2arp"]) \in Nat \ {0}
      BY <2>1, <3>1, EmptySeq
    <3>3. 1 \in DOMAIN fifo["mux2arp"] /\ raw = fifo["mux2arp"][1]
      BY <3>1, <3>2
    <3> QED BY <3>3 DEF Range
  <2>4. cache' = [i \in DOMAIN cache \cup {arp.senderip} |->
                    IF i = arp.senderip THEN arp.senderhw ELSE cache[i]]
    BY <1>2 DEF ArpHearsMux, CacheUpdate
  <2>5. arp.senderhw = raw.srcaddr /\ raw.srcaddr \in Nat
    BY <2>2, <2>3, FrameOf DEF HeardInOrder, UpMessages, OwnSender, Carrying, EthernetAddr
  <2>6. raw \in UpMessages
    BY <2>3 DEF UpMessages
  <2>7. \A i \in DOMAIN cache : cache[i] < raw.srcaddr /\ cache[i] \in Nat
    BY <2>6 DEF HeardInOrder, Fresh, IpTypeOK, EthernetAddr
  <2> HIDE DEF arp, raw
  <2>8. ASSUME NEW x \in IPAddress
        PROVE  Known[x] <= Known'[x]
    <3>1. CASE x = arp.senderip
      <4>1. Known'[x] = raw.srcaddr
        BY <2>4, <2>5, <3>1 DEF Known
      <4>2. Known[x] <= raw.srcaddr
        BY <2>5, <2>7 DEF Known, ETHERNET_BLANK_ADDR
      <4> QED BY <4>1, <4>2
    <3>2. CASE x # arp.senderip
      <4>1. Known'[x] = Known[x]
        BY <2>4, <3>2 DEF Known
      <4> QED BY <4>1, KnownType DEF EthernetAddr
    <3> QED BY <3>1, <3>2
  <2> QED BY <2>8 DEF KnownGrows
<1> QED BY <1>1, <1>2 DEF Arp, ArpNext, ArpHearsIp

\* A question stays fit while the ARP module learns.
LEMMA StillAsks ==
    ASSUME IpTypeOK, IpTypeOK', KnownGrows, NEW a \in [packet : Packet, known : EthernetAddr],
           NEW q, Asks(a, q)
    PROVE  Asks(a, q)'
<1>1. a.packet.dest \in IPAddress /\ a.known \in Nat
  BY DEF Packet, EthernetAddr
<1>2. Known[a.packet.dest] \in Nat /\ Known'[a.packet.dest] \in Nat
  <2>1. ASSUME IpTypeOK' PROVE Known' \in [IPAddress -> EthernetAddr]
    BY <2>1 DEF IpTypeOK, Known, ETHERNET_BLANK_ADDR, EthernetAddr
  <2> QED BY <1>1, <2>1, KnownType DEF EthernetAddr
<1> QED BY <1>1, <1>2 DEF Asks, KnownGrows

LEMMA AskingType ==
    ASSUME IpTypeOK, asking # <<>>
    PROVE  asking[1] \in [packet : Packet, known : EthernetAddr]
<1>1. Head(asking) \in [packet : Packet, known : EthernetAddr]
  BY HeadTailProperties DEF IpTypeOK
<1>2. Head(asking) = asking[1]
  OBVIOUS
<1> QED BY <1>1, <1>2

\* A pipe with one message is empty when that is read.
LEMMA OneTail ==
    ASSUME NEW S, NEW q \in Seq(S)
    PROVE  /\ Len(q) = 1 => q # <<>> /\ Head(q) = q[1] /\ Tail(q) = <<>>
           /\ q = <<>> => \A x : Append(q, x) = <<x>>
<1>1. ASSUME Len(q) = 1 PROVE q # <<>> /\ Head(q) = q[1] /\ Tail(q) = <<>>
  <2>1. q # <<>>
    BY <1>1
  <2>2. Tail(q) \in Seq(S) /\ Len(Tail(q)) = 0
    BY <1>1, <2>1, HeadTailProperties
  <2>3. Tail(q) = <<>>
    BY <2>2, EmptySeq
  <2>4. Head(q) = q[1]
    OBVIOUS
  <2> QED BY <2>1, <2>3, <2>4
<1>2. ASSUME q = <<>>, NEW x PROVE Append(q, x) = <<x>>
  BY <1>2
<1> QED BY <1>1, <1>2

\* The places a question goes through are those of the IP and the ARP module.
QuestionPlaces == <<fifo["ip2arp"], fifo["arp2ip"], out["ip"], out["arp"], asking>>

LEMMA QuietQuestion ==
    ASSUME IpTypeOK, IpTypeOK', OneQuestion, KnownGrows, UNCHANGED QuestionPlaces
    PROVE  OneQuestion'
<1>1. UNCHANGED <<fifo["ip2arp"], fifo["arp2ip"], out["ip"], out["arp"], asking>>
  BY DEF QuestionPlaces
<1>2. (NoQuestion <=> NoQuestion') /\ (NoAnswer <=> NoAnswer')
      /\ Unsent("arp", "arp2ip")' = Unsent("arp", "arp2ip")
  BY <1>1 DEF NoQuestion, NoAnswer, Unsent
<1>3. CASE asking = <<>>
  BY <1>1, <1>2, <1>3 DEF OneQuestion
<1>4. CASE asking # <<>>
  <2> DEFINE a == asking[1]
  <2>1. a \in [packet : Packet, known : EthernetAddr] /\ a' = a
    BY <1>1, <1>4, AskingType
  <2> SUFFICES ASSUME NEW b, b = a
               PROVE  Unasked(b)' \/ Asked(b)' \/ Answered(b)' \/ Arrived(b)'
    BY <1>1, <1>4, <2>1 DEF OneQuestion
  <2> HIDE DEF a
  <2>2. Unasked(b) \/ Asked(b) \/ Answered(b) \/ Arrived(b)
    BY <1>4 DEF OneQuestion, a
  <2>3. \A q : Asks(b, q) => Asks(b, q)'
    BY <2>1, StillAsks
  <2>4. Unasked(b) => Unasked(b)'
    BY <1>1, <1>2, <2>3 DEF Unasked
  <2>5. Asked(b) => Asked(b)'
    BY <1>1, <1>2, <2>3 DEF Asked
  <2>6. Answered(b) => Answered(b)'
    BY <1>1 DEF Answered, Answers
  <2>7. Arrived(b) => Arrived(b)'
    BY <1>1, <1>2 DEF Arrived, Answers
  <2> QED BY <2>2, <2>4, <2>5, <2>6, <2>7
<1> QED BY <1>3, <1>4

\* The event loop of the IP module: no question is under way.
LEMMA IpFree ==
    ASSUME IpTypeOK, OneQuestion, NEW f, IpGetNextEvent(f)
    PROVE  asking = <<>> /\ out["ip"] = <<>> /\ NoQuestion /\ NoAnswer
  BY DEF IpGetNextEvent, GetNextEvent, OneQuestion

\* SendPacket asks.
LEMMA SendPacketAsks ==
    ASSUME IpTypeOK, IpTypeOK', OneQuestion, NEW f \in {"mux2ip", "ipmux2ip"},
           IpGetNextEvent(f), NEW p \in Packet, SendPacket(f, p, Known[p.dest]),
           UNCHANGED cache
    PROVE  OneQuestion'
<1> DEFINE a == [packet |-> p, known |-> Known[p.dest]]
           q == [ipaddr |-> p.dest, ethernetaddr |-> ETHERNET_BLANK_ADDR,
                 flag |-> "REQUEST"]
<1>1. NoQuestion /\ NoAnswer /\ PipesOK
  BY IpFree DEF IpTypeOK
<1>2. asking' = <<a>> /\ Receive("ip", f, <<[to |-> "ip2arp", msg |-> q]>>)
  BY DEF SendPacket
<1>3. out'["ip"] = <<[to |-> "ip2arp", msg |-> q]>> /\ Touches("ip", {f})
  <2> HIDE DEF q
  <2>1. "ip" \in Process /\ f \in Fifo
    BY DEF Process, Fifo
  <2> QED BY <1>1, <1>2, <2>1, Receives
<1>4. fifo'["ip2arp"] = <<>> /\ fifo'["arp2ip"] = <<>> /\ out'["arp"] = out["arp"]
  BY <1>1, <1>3 DEF Touches, NoQuestion, NoAnswer, Fifo, Process
<1>5. NoAnswer'
  BY <1>1, <1>4 DEF NoAnswer, Unsent
<1>6. Known' = Known /\ Known[p.dest] \in Nat
  BY KnownType DEF Known, Packet, EthernetAddr
<1>7. asking'[1] = a /\ asking' # <<>>
  BY <1>2
<1> SUFFICES ASSUME NEW b, b = a
             PROVE  Unasked(b)'
  BY <1>7 DEF OneQuestion
<1>8. Asks(b, q)'
  BY <1>6 DEF Asks
<1>9. /\ out'["ip"] # <<>> /\ out'["ip"][1] = [to |-> "ip2arp", msg |-> q]
  BY <1>3
<1> HIDE DEF a, q
<1> QED BY <1>4, <1>5, <1>8, <1>9 DEF Unasked

\* SendPacket hears the answer and comes back.
LEMMA SendPacketReturns ==
    ASSUME IpTypeOK, FewMessages, OneQuestion, IpHearsArp
    PROVE  OneQuestion'
<1> DEFINE a == asking[1]
<1>1. asking # <<>> /\ out["ip"] = <<>> /\ fifo["arp2ip"] # <<>> /\ asking' = <<>>
      /\ PipesOK
  BY DEF IpHearsArp, IpTypeOK
<1>2. Arrived(a)
  BY <1>1 DEF OneQuestion, Unasked, Asked, Answered, NoAnswer
<1>3. PICK sends : /\ Receive("ip", "arp2ip", sends)
                   /\ \A i \in DOMAIN sends : sends[i].to # "ip2arp"
  <2>1. PICK raw : \/ Receive("ip", "arp2ip", <<[to |-> "ip2mux", msg |-> raw]>>)
                   \/ Receive("ip", "arp2ip", <<>>)
    BY DEF IpHearsArp
  <2>2. \A i \in DOMAIN <<[to |-> "ip2mux", msg |-> raw]>> :
           <<[to |-> "ip2mux", msg |-> raw]>>[i].to # "ip2arp"
    OBVIOUS
  <2>3. DOMAIN <<>> = {}
    OBVIOUS
  <2> QED BY <2>1, <2>2, <2>3
<1>4. /\ fifo'["arp2ip"] = Tail(fifo["arp2ip"]) /\ out'["ip"] = sends
      /\ Touches("ip", {"arp2ip"})
  BY <1>1, <1>3, Receives DEF Process, Fifo
<1>5. fifo'["ip2arp"] = <<>> /\ out'["arp"] = out["arp"]
  BY <1>2, <1>4 DEF Touches, Arrived, Fifo, Process
<1>6. fifo'["arp2ip"] = <<>>
  <2>1. fifo["arp2ip"] \in Seq(MessageOf("arp2ip"))
    BY <1>1 DEF PipesOK, Fifo
  <2> QED BY <1>2, <1>4, <2>1, OneTail DEF Arrived
<1>7. NoQuestion' /\ NoAnswer'
  BY <1>2, <1>3, <1>4, <1>5, <1>6 DEF NoQuestion, NoAnswer, Unsent, Arrived
<1> QED BY <1>1, <1>7 DEF OneQuestion

\* The other events of the IP module, in which it asks nothing.
LEMMA IpAsksNothing ==
    ASSUME IpTypeOK, OneQuestion, IpGetNextEvent("mux2ip"), UNCHANGED asking,
           NEW sends, Receive("ip", "mux2ip", sends),
           \A i \in DOMAIN sends : sends[i].to # "ip2arp"
    PROVE  OneQuestion'
<1>1. asking = <<>> /\ NoQuestion /\ NoAnswer /\ PipesOK
  BY IpFree DEF IpTypeOK
<1>2. out'["ip"] = sends /\ Touches("ip", {"mux2ip"})
  BY <1>1, Receives DEF Process, Fifo
<1>3. /\ fifo'["ip2arp"] = fifo["ip2arp"] /\ fifo'["arp2ip"] = fifo["arp2ip"]
      /\ out'["arp"] = out["arp"]
  BY <1>2 DEF Touches, Fifo, Process
<1>4. NoQuestion' /\ NoAnswer'
  BY <1>1, <1>2, <1>3 DEF NoQuestion, NoAnswer, Unsent
<1> QED BY <1>1, <1>4 DEF OneQuestion

\* The IP module writes: its question, if it has one.
LEMMA IpWrites ==
    ASSUME IpTypeOK, IpTypeOK', FewMessages, OneQuestion, Send("ip"), UNCHANGED <<asking, cache>>
    PROVE  OneQuestion'
<1> DEFINE e == Head(out["ip"])
<1>1. PipesOK /\ "ip" \in Process \ {"arp"} /\ "ip" \in Process
  BY DEF IpTypeOK, Process
<1>2. /\ out["ip"] # <<>> /\ out["ip"][1] = e /\ out'["ip"] = <<>> /\ e.to \in Fifo
      /\ Unsent("ip", "ip2arp") = IF e.to = "ip2arp" THEN {1} ELSE {}
      /\ Touches("ip", {e.to}) /\ fifo'[e.to] = Append(fifo[e.to], e.msg)
      /\ e \in Sends("ip")
  BY <1>1, Writes, SingleWrite
<1>3. e.to # "arp2ip"
  BY <1>2 DEF Sends, SendTo
<1>4. fifo'["arp2ip"] = fifo["arp2ip"] /\ out'["arp"] = out["arp"]
  BY <1>2, <1>3 DEF Touches, Fifo, Process
<1>5. NoAnswer => NoAnswer'
  BY <1>4 DEF NoAnswer, Unsent
<1> HIDE DEF e
<1>6. CASE asking = <<>>
  <2>1. NoQuestion /\ NoAnswer /\ e.to # "ip2arp"
    BY <1>2, <1>6 DEF OneQuestion, NoQuestion
  <2>2. fifo'["ip2arp"] = <<>>
    BY <1>2, <2>1 DEF Touches, NoQuestion, Fifo
  <2>3. NoQuestion'
    BY <1>2, <2>2 DEF NoQuestion, Unsent
  <2> QED BY <1>5, <1>6, <2>1, <2>3 DEF OneQuestion
<1>7. CASE asking # <<>>
  <2>1. Unasked(asking[1])
    BY <1>2, <1>7 DEF OneQuestion, Asked, Answered, Arrived
  <2>2. e.to = "ip2arp" /\ fifo["ip2arp"] = <<>> /\ NoAnswer
    BY <1>2, <2>1 DEF Unasked
  <2>3. fifo["ip2arp"] \in Seq(MessageOf("ip2arp"))
    BY <1>1 DEF PipesOK, Fifo
  <2>4. fifo'["ip2arp"] = <<e.msg>>
    BY <1>2, <2>2, <2>3, OneTail
  <2>5. Len(fifo'["ip2arp"]) = 1 /\ fifo'["ip2arp"][1] = e.msg
    BY <2>4
  <2> SUFFICES ASSUME NEW b, b = asking[1], NEW q, q = e.msg
               PROVE  Asked(b)'
    BY <1>7 DEF OneQuestion
  <2>6. Asks(b, q)
    BY <1>2, <2>1 DEF Unasked
  <2>7. Asks(b, q)'
    BY <1>7, <2>6, AskingType, StillAsks, SameKnown
  <2> QED BY <1>2, <1>5, <2>2, <2>5, <2>7 DEF Asked
<1> QED BY <1>6, <1>7

LEMMA IpQuestion ==
    ASSUME IpTypeOK, IpTypeOK', FewMessages, OneQuestion, Ip
    PROVE  OneQuestion'
<1>1. UNCHANGED cache /\ PipesOK
  BY DEF Ip, IpTypeOK
<1>2. CASE IpIgnores
  <2>1. \A i \in DOMAIN <<>> : <<>>[i].to # "ip2arp"
    OBVIOUS
  <2> QED BY <1>2, <2>1, IpAsksNothing DEF IpIgnores
<1>3. CASE IpDelivers
  <2> DEFINE sends == <<[to |-> "ip2ipmux", msg |-> Head(fifo["mux2ip"]).payload]>>
  <2>1. \A i \in DOMAIN sends : sends[i].to # "ip2arp"
    OBVIOUS
  <2>2. IpGetNextEvent("mux2ip") /\ UNCHANGED asking /\ Receive("ip", "mux2ip", sends)
    BY <1>3 DEF IpDelivers
  <2> HIDE DEF sends
  <2> QED BY <2>1, <2>2, IpAsksNothing
<1>4. CASE IpRefuses(Known)
  <2> DEFINE p == Head(fifo["mux2ip"]).payload
             e == ICMPErrorPacket(p.src, ErrorFor(p.condition), p)
  <2>1. IpGetNextEvent("mux2ip") /\ p \in Packet
    BY <1>1, <1>4, IpHearsPacket DEF IpRefuses
  <2>2. p.condition # "whole" /\ SendPacket("mux2ip", e, Known[p.src])
    BY <1>4 DEF IpRefuses
  <2> HIDE DEF p
  <2>3. p.src \in IPAddress /\ p.condition \in Condition /\ p.id \in Nat
    BY <2>1 DEF Packet
  <2>4. ErrorFor(p.condition) \in ICMPType
    BY <2>2, <2>3 DEF ErrorFor, Condition, ICMPType, ICMPError
  <2>5. e \in Packet /\ e.dest = p.src
    BY <2>3, <2>4 DEF ICMPErrorPacket, Packet, IPAddress, IPProtocol, Condition
  <2> HIDE DEF e
  <2> QED BY <1>1, <2>1, <2>2, <2>5, SendPacketAsks
<1>5. CASE IpSends(Known)
  <2> DEFINE p == Head(fifo["ipmux2ip"])
  <2>1. "ipmux2ip" \in Fifo /\ fifo["ipmux2ip"] # <<>> /\ IpGetNextEvent("ipmux2ip")
    BY <1>5 DEF IpSends, IpGetNextEvent, GetNextEvent, Fifo
  <2>2. p \in Packet
    BY <1>1, <2>1, HeadType DEF MessageOf
  <2>3. SendPacket("ipmux2ip", p, Known[p.dest])
    BY <1>5 DEF IpSends
  <2> HIDE DEF p
  <2> QED BY <1>1, <2>1, <2>2, <2>3, SendPacketAsks
<1>6. CASE IpHearsArp
  BY <1>6, SendPacketReturns
<1>7. CASE Send("ip") /\ UNCHANGED asking
  BY <1>1, <1>7, IpWrites
<1> QED BY <1>2, <1>3, <1>4, <1>5, <1>6, <1>7 DEF Ip, IpNext

\* The ARP module answers.
LEMMA ArpAnswers ==
    ASSUME IpTypeOK, OneQuestion, ArpHearsIp, UNCHANGED asking
    PROVE  OneQuestion'
<1> DEFINE a == asking[1]
           q == Head(fifo["ip2arp"])
           r == CacheLookup(q)
<1>1. /\ out["arp"] = <<>> /\ fifo["ip2arp"] # <<>> /\ PipesOK /\ "ip2arp" \in Fifo
      /\ "arp" \in Process
  BY DEF ArpHearsIp, GetNextEvent, IpTypeOK, Fifo, Process
<1>2. asking # <<>> /\ Asked(a)
  BY <1>1 DEF OneQuestion, Unasked, Answered, Arrived, NoQuestion
<1>3. fifo["ip2arp"] \in Seq(MessageOf("ip2arp")) /\ q \in ARPRequestResponse
  BY <1>1, HeadType DEF PipesOK, MessageOf
<1>4. q = fifo["ip2arp"][1] /\ Tail(fifo["ip2arp"]) = <<>> /\ Asks(a, q)
  BY <1>2, <1>3, OneTail DEF Asked
<1>5. a \in [packet : Packet, known : EthernetAddr]
  BY <1>2, AskingType
<1>6. PICK sends : /\ Receive("arp", "ip2arp", sends)
                   /\ sends # <<>> /\ sends[1] = ToIp(r)
  <2>1. PICK s : \/ Receive("arp", "ip2arp", <<ToIp(r), ArpToMux(s)>>)
                 \/ Receive("arp", "ip2arp", <<ToIp(r)>>)
    BY DEF ArpHearsIp
  <2> HIDE DEF r
  <2>2. /\ <<ToIp(r), ArpToMux(s)>> # <<>> /\ <<ToIp(r), ArpToMux(s)>>[1] = ToIp(r)
        /\ <<ToIp(r)>> # <<>> /\ <<ToIp(r)>>[1] = ToIp(r)
    OBVIOUS
  <2> QED BY <2>1, <2>2
<1>7. /\ fifo'["ip2arp"] = <<>> /\ out'["arp"] = sends /\ Touches("arp", {"ip2arp"})
  BY <1>1, <1>4, <1>6, Receives
<1>8. fifo'["arp2ip"] = <<>> /\ out'["ip"] = <<>>
  BY <1>2, <1>7 DEF Touches, Asked, NoAnswer, Fifo, Process
<1>9. Answers(a, r)
  <2> HIDE DEF a, q
  <2>1. q.ipaddr \in IPAddress /\ q.ethernetaddr \in Nat /\ a.known \in Nat
    BY <1>3, <1>5 DEF ARPRequestResponse, EthernetAddr
  <2>2. q.ipaddr = a.packet.dest /\ a.known <= Known[q.ipaddr]
    BY <1>4 DEF Asks
  <2>3. CASE q.ipaddr \in DOMAIN cache
    BY <2>1, <2>2, <2>3 DEF CacheLookup, Answers, Known
  <2>4. CASE q.ipaddr \notin DOMAIN cache
    <3>1. Known[q.ipaddr] = 0
      BY <2>1, <2>4 DEF Known, ETHERNET_BLANK_ADDR
    <3>2. r.ipaddr = q.ipaddr /\ r.ethernetaddr = q.ethernetaddr
      BY <1>3, <2>4 DEF CacheLookup, ARPRequestResponse
    <3> QED BY <2>1, <2>2, <3>1, <3>2 DEF Answers
  <2> QED BY <2>3, <2>4
<1>10. ToIp(r).to = "arp2ip" /\ ToIp(r).msg = r
  BY DEF ToIp
<1> SUFFICES ASSUME NEW b, b = a
             PROVE  Answered(b)'
  BY <1>2 DEF OneQuestion
<1> HIDE DEF a, r
<1> QED BY <1>6, <1>7, <1>8, <1>9, <1>10 DEF Answered, Answers

\* The ARP module hears from the link.
LEMMA ArpHears ==
    ASSUME IpTypeOK, IpTypeOK', OneQuestion, KnownGrows, ArpHearsMux, UNCHANGED asking
    PROVE  OneQuestion'
<1>1. PipesOK /\ "mux2arp" \in Fifo /\ "arp" \in Process /\ out["arp"] = <<>>
  BY DEF IpTypeOK, Fifo, Process, ArpHearsMux, GetNextEvent
<1>2. PICK s : \/ Receive("arp", "mux2arp", <<ArpToMux(s)>>)
               \/ Receive("arp", "mux2arp", <<>>)
  BY DEF ArpHearsMux
<1>3. Touches("arp", {"mux2arp"}) /\ out'["arp"] \in {<<ArpToMux(s)>>, <<>>}
  BY <1>1, <1>2, Receives
<1>4. /\ fifo'["ip2arp"] = fifo["ip2arp"] /\ fifo'["arp2ip"] = fifo["arp2ip"]
      /\ out'["ip"] = out["ip"]
  BY <1>3 DEF Touches, Fifo, Process
<1>5. Unsent("arp", "arp2ip") = {} /\ Unsent("arp", "arp2ip")' = {}
  <2>1. ArpToMux(s).to # "arp2ip"
    BY DEF ArpToMux
  <2>2. \A i \in DOMAIN out'["arp"] : out'["arp"][i].to # "arp2ip"
    BY <1>3, <2>1
  <2> QED BY <1>1, <2>2 DEF Unsent
<1>6. (NoQuestion <=> NoQuestion') /\ (NoAnswer <=> NoAnswer')
  BY <1>4, <1>5 DEF NoQuestion, NoAnswer, Unsent
<1>7. CASE asking = <<>>
  BY <1>6, <1>7 DEF OneQuestion
<1>8. CASE asking # <<>>
  <2> SUFFICES ASSUME NEW b, b = asking[1]
               PROVE  Unasked(b)' \/ Asked(b)' \/ Arrived(b)'
    BY <1>8 DEF OneQuestion
  <2>1. \A q : Asks(b, q) => Asks(b, q)'
    BY <1>8, AskingType, StillAsks
  <2>2. Unasked(b) => Unasked(b)'
    BY <1>4, <1>6, <2>1 DEF Unasked
  <2>3. Asked(b) => Asked(b)'
    BY <1>4, <1>6, <2>1 DEF Asked
  <2>4. Arrived(b) => Arrived(b)'
    BY <1>4, <1>5 DEF Arrived, Answers
  <2>5. ~ Answered(b)
    BY <1>1 DEF Answered
  <2> QED BY <1>8, <2>2, <2>3, <2>4, <2>5 DEF OneQuestion
<1> QED BY <1>7, <1>8

\* The ARP module writes: its answer, if it has one.
LEMMA ArpWrites ==
    ASSUME IpTypeOK, IpTypeOK', FewMessages, OneQuestion, Send("arp"), UNCHANGED <<asking, cache>>
    PROVE  OneQuestion'
<1> DEFINE e == Head(out["arp"])
<1>1. PipesOK /\ "arp" \in Process /\ out["arp"] \in Seq(Sends("arp"))
  BY DEF IpTypeOK, Process, PipesOK
<1>2. /\ out["arp"] # <<>> /\ out'["arp"] = Tail(out["arp"]) /\ e.to \in Fifo
      /\ Touches("arp", {e.to}) /\ fifo'[e.to] = Append(fifo[e.to], e.msg)
      /\ e \in Sends("arp")
  BY <1>1, Writes
<1>3. e = out["arp"][1] /\ 1 \in DOMAIN out["arp"]
  <2>1. Len(out["arp"]) \in Nat \ {0}
    BY <1>1, <1>2, EmptySeq
  <2>2. e = out["arp"][1]
    OBVIOUS
  <2> QED BY <1>1, <2>1, <2>2
<1>4. e.to # "ip2arp"
  BY <1>2 DEF Sends, SendTo
<1>5. fifo'["ip2arp"] = fifo["ip2arp"] /\ out'["ip"] = out["ip"]
  BY <1>2, <1>4 DEF Touches, Fifo, Process
<1>6. NoQuestion <=> NoQuestion'
  BY <1>5 DEF NoQuestion, Unsent
<1>7. Unsent("arp", "arp2ip")' = {}
  <2>1. /\ Len(out'["arp"]) = Len(out["arp"]) - 1 /\ out'["arp"] \in Seq(Sends("arp"))
        /\ \A i \in 1 .. Len(out'["arp"]) : out'["arp"][i] = out["arp"][i + 1]
    BY <1>1, <1>2, HeadTailProperties
  <2>2. ASSUME NEW i \in DOMAIN out'["arp"]
        PROVE  out'["arp"][i].to # "arp2ip"
    <3>1. i \in 1 .. Len(out'["arp"]) /\ i + 1 \in DOMAIN out["arp"] /\ i + 1 # 1
      BY <1>1, <2>1
    <3> QED BY <2>1, <3>1 DEF FewMessages
  <2> QED BY <2>2 DEF Unsent
<1>8. Unsent("arp", "arp2ip") = {} => e.to # "arp2ip"
  BY <1>3 DEF Unsent
<1>9. e.to # "arp2ip" => fifo'["arp2ip"] = fifo["arp2ip"]
  BY <1>2 DEF Touches, Fifo
<1>10. NoAnswer => NoAnswer'
  BY <1>7, <1>8, <1>9 DEF NoAnswer
<1> HIDE DEF e
<1>11. CASE asking = <<>>
  BY <1>6, <1>10, <1>11 DEF OneQuestion
<1>12. CASE asking # <<>>
  <2> SUFFICES ASSUME NEW b, b = asking[1]
               PROVE  Unasked(b)' \/ Asked(b)' \/ Arrived(b)'
    BY <1>12 DEF OneQuestion
  <2>1. \A q : Asks(b, q) => Asks(b, q)'
    BY <1>12, AskingType, StillAsks, SameKnown
  <2>2. Unasked(b) => Unasked(b)'
    BY <1>5, <1>10, <2>1 DEF Unasked
  <2>3. Asked(b) => Asked(b)'
    BY <1>5, <1>10, <2>1 DEF Asked
  <2>4. Arrived(b) => Arrived(b)'
    BY <1>5, <1>7, <1>8, <1>9 DEF Arrived, Answers
  <2>5. Answered(b) => Arrived(b)'
    <3> SUFFICES ASSUME Answered(b)
                 PROVE  Arrived(b)'
      OBVIOUS
    <3>1. e.to = "arp2ip" /\ Answers(b, e.msg) /\ fifo["arp2ip"] = <<>>
      BY <1>3 DEF Answered
    <3>2. fifo["arp2ip"] \in Seq(MessageOf("arp2ip"))
      BY <1>1 DEF PipesOK, Fifo
    <3>3. fifo'["arp2ip"] = <<e.msg>>
      BY <1>2, <3>1, <3>2, OneTail
    <3>4. Len(fifo'["arp2ip"]) = 1 /\ fifo'["arp2ip"][1] = e.msg
      BY <3>3
    <3> QED BY <1>5, <1>7, <3>1, <3>4 DEF Arrived, Answered, Answers
  <2> QED BY <1>12, <2>2, <2>3, <2>4, <2>5 DEF OneQuestion
<1> QED BY <1>11, <1>12

LEMMA QuestionStep ==
    ASSUME IpTypeOK, IpTypeOK', FewMessages, OneQuestion, HeardInOrder, Next
    PROVE  OneQuestion'
<1>1. CASE Ip
  BY <1>1, IpQuestion
<1>2. CASE Arp
  <2>1. KnownGrows /\ UNCHANGED asking
    BY <1>2, ArpLearns, StepTouches
  <2>2. CASE ArpHearsIp
    BY <2>1, <2>2, ArpAnswers
  <2>3. CASE ArpHearsMux
    BY <2>1, <2>3, ArpHears
  <2>4. CASE Send("arp") /\ UNCHANGED cache
    BY <2>1, <2>4, ArpWrites
  <2> QED BY <1>2, <2>2, <2>3, <2>4 DEF Arp, ArpNext
<1>3. CASE Driver \/ EtherMux \/ IpMux \/ Icmp \/ Sock
  <2>1. UNCHANGED <<cache, asking>>
    BY <1>3, StepTouches
  <2>2. \E m \in {"driver", "ethermux", "ipmux", "icmp", "sock"} : Touches(m, Ends(m))
    BY <1>3, StepTouches
  <2>3. UNCHANGED QuestionPlaces
    BY <2>1, <2>2 DEF Touches, Ends, Fifo, Process, QuestionPlaces
  <2> QED BY <2>1, <2>3, QuietQuestion, SameKnown
<1>4. CASE Sinks \/ Link \/ \E m \in Upper : UpperModuleReads(m)
  <2>1. UNCHANGED <<cache, QuestionPlaces>>
    BY <1>4, OutsideTouches DEF Fifo, Process, QuestionPlaces
  <2> QED BY <2>1, QuietQuestion, SameKnown
<1>5. CASE \E m \in Upper : UpperWrites(m) /\ UNCHANGED <<cache, asking, sent>>
  <2>1. UNCHANGED <<cache, QuestionPlaces>>
    BY <1>5, OutsideTouches DEF Fifo, Process, QuestionPlaces
  <2> QED BY <2>1, QuietQuestion, SameKnown
<1> QED BY <1>1, <1>2, <1>3, <1>4, <1>5 DEF Next, Runs

\* One question, in one of its places, is what AnswersMatchQuestions asks for.
LEMMA QuestionsMeanAnswers ==
    ASSUME IpTypeOK, FewMessages, OneQuestion
    PROVE  AnswersMatchQuestions
<1>1. /\ "ip" \in Process \ {"arp"} /\ "arp" \in Process
      /\ fifo["ip2arp"] \in Seq(MessageOf("ip2arp"))
      /\ fifo["arp2ip"] \in Seq(MessageOf("arp2ip"))
  BY DEF IpTypeOK, PipesOK, Process, Fifo
<1>2. Cardinality({}) = 0 /\ Cardinality({1}) = 1
  BY FS_EmptySet, FS_Singleton
<1>3. ASSUME NEW m, NEW f, fifo[f] = <<>>, Unsent(m, f) = {}
      PROVE  HowMany(m, f) = 0 /\ InTransit(m, f) = {}
  BY <1>2, <1>3 DEF HowMany, InTransit, ToWrite, Range
<1>4. ASSUME NEW m, NEW f, fifo[f] = <<>>, Unsent(m, f) = {1}
      PROVE  HowMany(m, f) = 1 /\ InTransit(m, f) = {out[m][1].msg}
  BY <1>2, <1>4 DEF HowMany, InTransit, ToWrite, Range
<1>5. ASSUME NEW m, NEW f, NEW S, fifo[f] \in Seq(S), Len(fifo[f]) = 1, Unsent(m, f) = {}
      PROVE  HowMany(m, f) = 1 /\ InTransit(m, f) = {fifo[f][1]}
  <2>1. Range(fifo[f]) = {fifo[f][1]}
    <3>1. DOMAIN fifo[f] = {1}
      BY <1>5
    <3> QED BY <3>1 DEF Range
  <2> QED BY <1>2, <1>5, <2>1 DEF HowMany, InTransit, ToWrite
<1>6. NoQuestion => HowMany("ip", "ip2arp") = 0 /\ InTransit("ip", "ip2arp") = {}
  BY <1>3 DEF NoQuestion
<1>7. NoAnswer => HowMany("arp", "arp2ip") = 0 /\ InTransit("arp", "arp2ip") = {}
  BY <1>3 DEF NoAnswer
<1>8. CASE asking = <<>>
  BY <1>6, <1>7, <1>8 DEF OneQuestion, AnswersMatchQuestions
<1>9. CASE asking # <<>>
  <2> DEFINE a == asking[1]
  <2>1. a.known \in Nat
    BY <1>9, AskingType DEF EthernetAddr
  <2>2. CASE Unasked(a)
    <3>1. Unsent("ip", "ip2arp") = {1}
      BY <1>1, <2>2, SingleWrite DEF Unasked
    <3>2. HowMany("ip", "ip2arp") = 1 /\ InTransit("ip", "ip2arp") = {out["ip"][1].msg}
      BY <1>4, <2>2, <3>1 DEF Unasked
    <3> QED BY <1>7, <1>9, <2>2, <3>2 DEF Unasked, Asks, AnswersMatchQuestions
  <2>3. CASE Asked(a)
    <3>1. Unsent("ip", "ip2arp") = {}
      BY <1>1, <2>3, SingleWrite DEF Asked
    <3>2. HowMany("ip", "ip2arp") = 1 /\ InTransit("ip", "ip2arp") = {fifo["ip2arp"][1]}
      BY <1>1, <1>5, <2>3, <3>1 DEF Asked
    <3> QED BY <1>7, <1>9, <2>3, <3>2 DEF Asked, Asks, AnswersMatchQuestions
  <2>4. ASSUME Answered(a) \/ Arrived(a)
        PROVE  HowMany("ip", "ip2arp") = 0 /\ InTransit("ip", "ip2arp") = {}
    <3>1. Unsent("ip", "ip2arp") = {} /\ fifo["ip2arp"] = <<>>
      BY <1>1, <2>4, SingleWrite DEF Answered, Arrived
    <3> QED BY <1>3, <3>1
  <2>5. ASSUME NEW r, Answers(a, r), HowMany("ip", "ip2arp") = 0,
               InTransit("ip", "ip2arp") = {}, HowMany("arp", "arp2ip") = 1,
               InTransit("arp", "arp2ip") = {r}, r.ethernetaddr \in Nat
        PROVE  AnswersMatchQuestions
    BY <1>9, <2>1, <2>5 DEF Answers, AnswersMatchQuestions
  <2>6. CASE Answered(a)
    <3>1. Unsent("arp", "arp2ip") = {1} /\ 1 \in DOMAIN out["arp"]
      <4>1. out["arp"] \in Seq(Sends("arp"))
        BY <1>1 DEF IpTypeOK, PipesOK
      <4>2. Len(out["arp"]) \in Nat \ {0}
        BY <2>6, <4>1, EmptySeq DEF Answered
      <4>3. 1 \in DOMAIN out["arp"]
        BY <4>1, <4>2
      <4> QED BY <2>6, <4>3 DEF Answered, FewMessages, Unsent
    <3>2. /\ HowMany("arp", "arp2ip") = 1
          /\ InTransit("arp", "arp2ip") = {out["arp"][1].msg}
      BY <1>4, <2>6, <3>1 DEF Answered
    <3>3. out["arp"][1] \in Sends("arp") /\ out["arp"][1].to = "arp2ip"
      BY <1>1, <2>6, <3>1 DEF IpTypeOK, PipesOK, Answered
    <3>4. out["arp"][1].msg.ethernetaddr \in Nat
      BY <1>1, <3>3, SendsFit DEF MessageOf, ARPRequestResponse, EthernetAddr
    <3> QED BY <2>4, <2>5, <2>6, <3>2, <3>4 DEF Answered
  <2>7. CASE Arrived(a)
    <3>1. /\ HowMany("arp", "arp2ip") = 1
          /\ InTransit("arp", "arp2ip") = {fifo["arp2ip"][1]}
      BY <1>1, <1>5, <2>7 DEF Arrived
    <3>2. fifo["arp2ip"][1] \in MessageOf("arp2ip")
      BY <1>1, <2>7 DEF Arrived
    <3>3. fifo["arp2ip"][1].ethernetaddr \in Nat
      BY <3>2 DEF MessageOf, ARPRequestResponse, EthernetAddr
    <3> QED BY <2>4, <2>5, <2>7, <3>1, <3>3 DEF Arrived
  <2> QED BY <1>9, <2>2, <2>3, <2>6, <2>7 DEF OneQuestion
<1> QED BY <1>8, <1>9

----------------------------------------------------------------------------
(* Numbers *)

Kinds == {"address", "frame", "packet"}

\* The messages that the numbers of each kind are of.
Numbered(kind) == IF kind = "packet" THEN Packet ELSE RawEthernetPacket

LEMMA NumberOf ==
    ASSUME NEW m, NEW x
    PROVE  /\ x \in Number("address", m) <=> x = m.srcaddr
           /\ x \in Number("frame", m) <=> /\ m.protocoltype = "PROTO_IP"
                                           /\ m.payload.proto = "UDP"
                                           /\ x = m.payload.id
           /\ x \in Number("packet", m) <=> m.proto = "UDP" /\ x = m.id
  BY DEF Number, UdpFrames, UdpPackets

LEMMA NumbersOf ==
    ASSUME NEW S
    PROVE  Numbers("frame", S) = UdpFrames(S) /\ Numbers("packet", S) = UdpPackets(S)
<1>1. ASSUME NEW x
      PROVE  x \in Numbers("packet", S) <=> x \in UdpPackets(S)
  BY NumberOf DEF Numbers, UdpPackets
<1>2. ASSUME NEW x
      PROVE  x \in Numbers("frame", S) <=> x \in UdpFrames(S)
  BY NumberOf DEF Numbers, UdpFrames, UdpPackets
<1> QED BY <1>1, <1>2

\* A message has one number at most.
LEMMA OneNumber ==
    ASSUME NEW kind \in Kinds, NEW m \in Numbered(kind)
    PROVE  /\ Number(kind, m) \subseteq Nat
           /\ \A a, b \in Number(kind, m) : a = b
<1>1. CASE kind = "address"
  BY <1>1, NumberOf, FrameOf DEF Numbered, EthernetAddr
<1>2. CASE kind = "frame"
  <2>1. m.protocoltype = "PROTO_IP" => m.payload.id \in Nat
    BY <1>2, FrameOf DEF Numbered, Packet
  <2> QED BY <1>2, <2>1, NumberOf
<1>3. CASE kind = "packet"
  <2>1. m.id \in Nat
    BY <1>3 DEF Numbered, Packet
  <2> QED BY <1>3, <2>1, NumberOf
<1> QED BY <1>1, <1>2, <1>3 DEF Kinds

LEMMA NumbersNat ==
    ASSUME NEW kind \in Kinds, NEW S, S \subseteq Numbered(kind)
    PROVE  Numbers(kind, S) \subseteq Nat
  BY OneNumber DEF Numbers

\* A set of one message, or of none.
LEMMA FewNumbers ==
    ASSUME NEW kind
    PROVE  /\ Numbers(kind, {}) = {}
           /\ \A m : Numbers(kind, {m}) = Number(kind, m)
  BY DEF Numbers

LEMMA SomeNumbers ==
    ASSUME NEW kind, NEW S, NEW T
    PROVE  /\ S \subseteq T => Numbers(kind, S) \subseteq Numbers(kind, T)
           /\ Numbers(kind, S \cup T) = Numbers(kind, S) \cup Numbers(kind, T)
  BY DEF Numbers

\* The first message of a pipe whose numbers rise has the least one.
LEMMA TakeNumber ==
    ASSUME NEW kind \in Kinds, NEW q \in Seq(Numbered(kind)), q # <<>>, Rising(kind, q)
    PROVE  /\ Rising(kind, Tail(q))
           /\ Number(kind, Head(q)) \subseteq Numbers(kind, Range(q))
           /\ Numbers(kind, Range(Tail(q)))
                = Numbers(kind, Range(q)) \ Number(kind, Head(q))
           /\ \A a \in Number(kind, Head(q)), b \in Numbers(kind, Range(Tail(q))) : a < b
           /\ Head(q) \in Range(q) /\ Range(Tail(q)) \subseteq Range(q)
<1> DEFINE t == Tail(q)
           h == Head(q)
<1>1. /\ t \in Seq(Numbered(kind)) /\ Len(t) = Len(q) - 1 /\ Len(q) \in Nat \ {0}
      /\ \A i \in 1 .. Len(t) : t[i] = q[i + 1]
  BY HeadTailProperties, EmptySeq
<1>2. DOMAIN q = 1 .. Len(q) /\ DOMAIN t = 1 .. Len(t) /\ Len(t) \in Nat
  BY <1>1
<1>3. h = q[1] /\ h \in Numbered(kind)
  <2>1. h = q[1]
    OBVIOUS
  <2> QED BY <2>1, HeadTailProperties
<1> HIDE DEF t, h
<1>4. \A i \in DOMAIN t : i + 1 \in DOMAIN q /\ t[i] = q[i + 1] /\ i \in Nat /\ 1 < i + 1
  BY <1>1, <1>2
<1>5. 1 \in DOMAIN q /\ \A j \in DOMAIN q : j = 1 \/ (j - 1 \in DOMAIN t /\ t[j - 1] = q[j])
  BY <1>1, <1>2
<1>6. Rising(kind, t)
  <2>1. \A i, j \in DOMAIN t : i < j => i + 1 < j + 1
    BY <1>4
  <2> QED BY <1>4, <2>1 DEF Rising
<1>7. Range(q) = {h} \cup Range(t)
  <2>1. ASSUME NEW x PROVE x \in Range(q) => x \in {h} \cup Range(t)
    BY <1>3, <1>5 DEF Range
  <2>2. ASSUME NEW x PROVE x \in {h} \cup Range(t) => x \in Range(q)
    BY <1>3, <1>4, <1>5 DEF Range
  <2> QED BY <2>1, <2>2
<1>8. Numbers(kind, Range(q)) = Number(kind, h) \cup Numbers(kind, Range(t))
  <2>1. Numbers(kind, {h} \cup Range(t)) = Numbers(kind, {h}) \cup Numbers(kind, Range(t))
    BY SomeNumbers
  <2> QED BY <1>7, <2>1, FewNumbers
<1>9. ASSUME NEW a \in Number(kind, h), NEW b \in Numbers(kind, Range(t))
      PROVE  a < b
  <2>1. PICK i \in DOMAIN t : b \in Number(kind, t[i])
    BY DEF Numbers, Range
  <2>2. i + 1 \in DOMAIN q /\ b \in Number(kind, q[i + 1]) /\ 1 < i + 1
    BY <1>4, <2>1
  <2> QED BY <1>3, <1>5, <2>2 DEF Rising
<1>10. Number(kind, h) \subseteq Nat
  BY <1>3, OneNumber
<1>11. Number(kind, h) \cap Numbers(kind, Range(t)) = {}
  <2>1. \A a \in Nat : ~ (a < a)
    OBVIOUS
  <2> QED BY <1>9, <1>10, <2>1
<1>12. Numbers(kind, Range(t)) = Numbers(kind, Range(q)) \ Number(kind, h)
  BY <1>8, <1>11
<1> QED BY <1>6, <1>7, <1>8, <1>9, <1>12 DEF t, h

\* A message is appended to a pipe.
LEMMA AppendNumber ==
    ASSUME NEW kind, NEW S, NEW q \in Seq(S), NEW m \in S
    PROVE  /\ Range(Append(q, m)) = Range(q) \cup {m}
           /\ Numbers(kind, Range(Append(q, m)))
                = Numbers(kind, Range(q)) \cup Number(kind, m)
           /\ /\ Rising(kind, q)
              /\ \A a \in Numbers(kind, Range(q)), b \in Number(kind, m) : a < b
              => Rising(kind, Append(q, m))
<1> DEFINE r == Append(q, m)
           n == Len(q)
<1>1. /\ n \in Nat /\ DOMAIN q = 1 .. n /\ DOMAIN r = 1 .. (n + 1)
      /\ \A i \in 1 .. n : r[i] = q[i]
      /\ r[n + 1] = m
  BY AppendProperties
<1> HIDE DEF r, n
<1>2. \A i \in DOMAIN r : i \in Nat /\ (i = n + 1 \/ (i \in DOMAIN q /\ r[i] = q[i] /\ i < n + 1))
  BY <1>1
<1>3. \A i \in DOMAIN q : i \in DOMAIN r /\ r[i] = q[i]
  BY <1>1
<1>4. n + 1 \in DOMAIN r
  BY <1>1
<1>5. Range(r) = Range(q) \cup {m}
  <2>1. ASSUME NEW x PROVE x \in Range(r) => x \in Range(q) \cup {m}
    BY <1>1, <1>2 DEF Range
  <2>2. ASSUME NEW x PROVE x \in Range(q) \cup {m} => x \in Range(r)
    BY <1>1, <1>3, <1>4 DEF Range
  <2> QED BY <2>1, <2>2
<1>6. Numbers(kind, Range(r)) = Numbers(kind, Range(q)) \cup Number(kind, m)
  <2>1. Numbers(kind, Range(q) \cup {m}) = Numbers(kind, Range(q)) \cup Numbers(kind, {m})
    BY SomeNumbers
  <2> QED BY <1>5, <2>1, FewNumbers
<1>7. ASSUME Rising(kind, q),
             \A a \in Numbers(kind, Range(q)), b \in Number(kind, m) : a < b
      PROVE  Rising(kind, r)
  <2> SUFFICES ASSUME NEW i \in DOMAIN r, NEW j \in DOMAIN r, i < j,
                      NEW a \in Number(kind, r[i]), NEW b \in Number(kind, r[j])
               PROVE  a < b
    BY DEF Rising
  <2>1. i \in DOMAIN q /\ r[i] = q[i]
    BY <1>1, <1>2
  <2>2. CASE j = n + 1
    <3>1. a \in Numbers(kind, Range(q)) /\ b \in Number(kind, m)
      BY <1>1, <2>1, <2>2 DEF Numbers, Range
    <3> QED BY <1>7, <3>1
  <2>3. CASE j \in DOMAIN q /\ r[j] = q[j]
    BY <1>7, <2>1, <2>3 DEF Rising
  <2> QED BY <1>2, <2>2, <2>3
<1> QED BY <1>5, <1>6, <1>7 DEF r

\* What stays in a pipe of which a message is taken or to which one is written.
LEMMA SameRising ==
    ASSUME NEW kind
    PROVE  Rising(kind, <<>>) /\ Numbers(kind, Range(<<>>)) = {}
<1>1. DOMAIN <<>> = {}
  OBVIOUS
<1>2. Range(<<>>) = {}
  BY <1>1 DEF Range
<1> QED BY <1>1, <1>2, FewNumbers DEF Rising

----------------------------------------------------------------------------
(* Places in order *)

\* The numbers X, the least ones of place k + 1, go on to place k.
Shifts(S, T, k, X) ==
    /\ DOMAIN T = DOMAIN S /\ k \in DOMAIN S /\ k + 1 \in DOMAIN S
    /\ X \subseteq S[k + 1]
    /\ T[k] = S[k] \cup X /\ T[k + 1] = S[k + 1] \ X
    /\ \A j \in DOMAIN S \ {k, k + 1} : T[j] = S[j]
    /\ \A a \in X, b \in T[k + 1] : a < b

LEMMA ShiftOrdered ==
    ASSUME NEW S, NEW T, NEW k, NEW X, DOMAIN S \subseteq Nat, Ordered(S),
           Shifts(S, T, k, X)
    PROVE  Ordered(T)
<1> SUFFICES ASSUME NEW i \in DOMAIN T, NEW j \in DOMAIN T, i < j,
                    NEW a \in T[i], NEW b \in T[j]
             PROVE  a < b
  BY DEF Ordered
<1>1. i \in Nat /\ j \in Nat /\ k \in Nat /\ i \in DOMAIN S /\ j \in DOMAIN S
      /\ k \in DOMAIN S /\ k + 1 \in DOMAIN S
  BY DEF Shifts
<1>2. \A x, y \in DOMAIN S : x < y => \A c \in S[x], d \in S[y] : c < d
  BY DEF Ordered
<1>3. b \in S[j] \/ (j = k /\ b \in S[k + 1])
  BY <1>1 DEF Shifts
<1>4. a \in S[i] \/ (i = k /\ a \in X /\ a \in S[k + 1])
  BY <1>1 DEF Shifts
<1>5. CASE a \in S[i]
  <2>1. CASE b \in S[j]
    BY <1>1, <1>2, <1>5, <2>1
  <2>2. CASE j = k /\ b \in S[k + 1]
    <3>1. i < k + 1
      BY <1>1, <2>2
    <3> QED BY <1>1, <1>2, <1>5, <2>2, <3>1
  <2> QED BY <1>3, <2>1, <2>2
<1>6. CASE i = k /\ a \in X /\ a \in S[k + 1]
  <2>1. CASE j = k + 1
    BY <1>6, <2>1 DEF Shifts
  <2>2. CASE j # k + 1
    <3>1. k + 1 < j /\ j # k
      BY <1>1, <1>6, <2>2
    <3>2. b \in S[j]
      BY <1>3, <3>1
    <3> QED BY <1>1, <1>2, <1>6, <3>1, <3>2
  <2> QED BY <2>1, <2>2
<1> QED BY <1>4, <1>5, <1>6

\* Numbers are lost.
LEMMA LossOrdered ==
    ASSUME NEW S, NEW T, Ordered(S), DOMAIN T = DOMAIN S, \A k \in DOMAIN S : T[k] \subseteq S[k]
    PROVE  Ordered(T)
  BY DEF Ordered

\* A new number enters the last place.
LEMMA EntryOrdered ==
    ASSUME NEW S, NEW T, NEW n \in DOMAIN S, NEW X, DOMAIN S \subseteq Nat, Ordered(S),
           \A k \in DOMAIN S : k <= n,
           \A k \in DOMAIN S : \A a \in S[k], b \in X : a < b,
           DOMAIN T = DOMAIN S, T[n] = S[n] \cup X, \A k \in DOMAIN S \ {n} : T[k] = S[k]
    PROVE  Ordered(T)
<1> SUFFICES ASSUME NEW i \in DOMAIN T, NEW j \in DOMAIN T, i < j,
                    NEW a \in T[i], NEW b \in T[j]
             PROVE  a < b
  BY DEF Ordered
<1>1. i # n /\ i \in DOMAIN S /\ j \in DOMAIN S
  <2>1. i \in Nat /\ j \in Nat /\ n \in Nat /\ j <= n
    OBVIOUS
  <2> QED BY <2>1
<1>2. a \in S[i]
  BY <1>1
<1>3. b \in S[j] \/ b \in X
  BY <1>1
<1> QED BY <1>1, <1>2, <1>3 DEF Ordered

----------------------------------------------------------------------------
(* What is to be written, before and after *)

LEMMA PipeNumbered ==
    ASSUME PipesOK
    PROVE  /\ \A f \in {"pcap", "ether2mux", "mux2ether", "mux2arp", "ip2mux"} :
                 f \in Fifo /\ fifo[f] \in Seq(RawEthernetPacket)
           /\ \A f \in {"ipmux2ip", "udp2ipmux"} :
                 f \in Fifo /\ fifo[f] \in Seq(Packet)
<1>1. ASSUME NEW S, NEW T, S \subseteq T, NEW q \in Seq(S) PROVE q \in Seq(T)
  BY <1>1
<1>2. ASSUME NEW f \in {"pcap", "ether2mux", "mux2ether", "mux2arp", "ip2mux"}
      PROVE  f \in Fifo /\ fifo[f] \in Seq(RawEthernetPacket)
  <2>1. f \in Fifo /\ fifo[f] \in Seq(MessageOf(f))
    BY DEF PipesOK, Fifo
  <2>2. MessageOf(f) \subseteq RawEthernetPacket
    BY DEF MessageOf, Carrying
  <2> QED BY <1>1, <2>1, <2>2
<1>3. ASSUME NEW f \in {"ipmux2ip", "udp2ipmux"}
      PROVE  f \in Fifo /\ fifo[f] \in Seq(Packet)
  <2>1. f \in Fifo /\ fifo[f] \in Seq(MessageOf(f))
    BY DEF PipesOK, Fifo
  <2>2. MessageOf(f) \subseteq Packet
    BY DEF MessageOf, PacketsOf
  <2> QED BY <1>1, <2>1, <2>2
<1> QED BY <1>2, <1>3

\* A handler leaves one message, for g, or none.
LEMMA LeavesOne ==
    ASSUME NEW m, out[m] = <<>>, NEW g, NEW x, NEW h,
           out'[m] = <<[to |-> g, msg |-> x]>>
    PROVE  ToWrite(m, h) = {} /\ ToWrite(m, h)' = IF g = h THEN {x} ELSE {}
<1>1. ToWrite(m, h) = {}
  BY DEF ToWrite, Unsent
<1> DEFINE s == <<[to |-> g, msg |-> x]>>
<1>2. DOMAIN s = {1} /\ s[1].to = g /\ s[1].msg = x
  OBVIOUS
<1> HIDE DEF s
<1>3. ToWrite(m, h)' = {s[i].msg : i \in {i \in DOMAIN s : s[i].to = h}}
  BY DEF ToWrite, Unsent, s
<1> QED BY <1>1, <1>2, <1>3

LEMMA LeavesNone ==
    ASSUME NEW m, out[m] = <<>>, out'[m] = <<>>, NEW h
    PROVE  ToWrite(m, h) = {} /\ ToWrite(m, h)' = {}
  BY DEF ToWrite, Unsent

LEMMA SameToWrite ==
    ASSUME NEW m, out'[m] = out[m], NEW h
    PROVE  ToWrite(m, h)' = ToWrite(m, h)
  BY DEF ToWrite, Unsent

\* A module that writes its only message has none left.
LEMMA WritesOne ==
    ASSUME IpTypeOK, FewMessages, NEW m \in Process \ {"arp"}, Send(m), NEW h \in Fifo
    PROVE  LET e == Head(out[m]) IN
             /\ e \in Sends(m) /\ e.to \in Fifo /\ e.msg \in MessageOf(e.to)
             /\ \A n \in Process \ {m} : out'[n] = out[n]
             /\ ToWrite(m, h) = IF e.to = h THEN {e.msg} ELSE {}
             /\ ToWrite(m, h)' = {}
             /\ fifo'[h] = IF e.to = h THEN Append(fifo[h], e.msg) ELSE fifo[h]
<1> DEFINE e == Head(out[m])
<1>1. PipesOK /\ m \in Process
  BY DEF IpTypeOK
<1>2. /\ out[m] # <<>> /\ e \in Sends(m) /\ e.to \in Fifo /\ e.msg \in MessageOf(e.to)
      /\ Touches(m, {e.to})
      /\ fifo'[e.to] = Append(fifo[e.to], e.msg) /\ out'[m] = Tail(out[m])
  BY <1>1, Writes
<1>3. Tail(out[m]) = <<>> /\ ToWrite(m, h) = IF e.to = h THEN {e.msg} ELSE {}
  BY <1>2, SingleWrite
<1>4. ToWrite(m, h)' = {}
  BY <1>2, <1>3 DEF ToWrite, Unsent
<1> QED BY <1>2, <1>3, <1>4 DEF Touches

----------------------------------------------------------------------------
(* Frames on their way up *)

LEMMA UpPlacesAre ==
    /\ DOMAIN UpPlaces = 1 .. 5
    /\ UpPlaces[1] = Numbers("address", Range(fifo["mux2arp"]))
    /\ UpPlaces[2] = Numbers("address", ToWrite("ethermux", "mux2arp"))
    /\ UpPlaces[3] = Numbers("address", Range(fifo["ether2mux"]))
    /\ UpPlaces[4] = Numbers("address", ToWrite("driver", "ether2mux"))
    /\ UpPlaces[5] = Numbers("address", Range(fifo["pcap"]))
  BY DEF UpPlaces, UpPlace

LEMMA UpPlacesAreNext ==
    /\ DOMAIN UpPlaces' = 1 .. 5
    /\ UpPlaces'[1] = Numbers("address", Range(fifo'["mux2arp"]))
    /\ UpPlaces'[2] = Numbers("address", ToWrite("ethermux", "mux2arp")')
    /\ UpPlaces'[3] = Numbers("address", Range(fifo'["ether2mux"]))
    /\ UpPlaces'[4] = Numbers("address", ToWrite("driver", "ether2mux")')
    /\ UpPlaces'[5] = Numbers("address", Range(fifo'["pcap"]))
  BY DEF UpPlaces, UpPlace, Numbers

UpRises == \A f \in UpPipes : Rising("address", fifo[f])

\* The frames in a pipe, and their numbers.
LEMMA UpPipeIs ==
    ASSUME IpTypeOK, HeardInOrder, NEW f \in UpPipes
    PROVE  /\ f \in Fifo /\ fifo[f] \in Seq(Numbered("address")) /\ Rising("address", fifo[f])
           /\ Range(fifo[f]) \subseteq UpMessages
<1>1. f \in Fifo /\ fifo[f] \in Seq(RawEthernetPacket)
  BY PipeNumbered DEF IpTypeOK, UpPipes
<1>2. Range(fifo[f]) \subseteq UpMessages
  BY DEF UpPipes, UpMessages
<1> QED BY <1>1, <1>2 DEF HeardInOrder, Numbered

\* Frames go on or are lost.
LEMMA UpKept ==
    ASSUME HeardInOrder, UNCHANGED <<cache, heard>>, UpMessages' \subseteq UpMessages,
           Ordered(UpPlaces)', UpRises'
    PROVE  HeardInOrder'
<1>1. Station' = Station
  BY DEF Station
<1>2. \A raw \in UpMessages' : OwnSender(raw)
  BY DEF HeardInOrder
<1>3. Fresh'
  BY <1>1 DEF HeardInOrder, Fresh
<1> QED BY <1>2, <1>3 DEF HeardInOrder, UpRises, OwnSender

\* The places are those of three pipes and two processes.
LEMMA UpQuiet ==
    ASSUME HeardInOrder, UNCHANGED <<cache, heard>>,
           \A f \in UpPipes : fifo'[f] = fifo[f],
           ToWrite("ethermux", "mux2arp")' \subseteq ToWrite("ethermux", "mux2arp"),
           ToWrite("driver", "ether2mux")' \subseteq ToWrite("driver", "ether2mux")
    PROVE  HeardInOrder'
<1>1. UpMessages' \subseteq UpMessages /\ UpRises'
  BY DEF UpMessages, UpPipes, UpRises, HeardInOrder, Rising
<1>2. \A k \in DOMAIN UpPlaces : UpPlaces'[k] \subseteq UpPlaces[k]
  <2>1. /\ UpPlaces'[1] = UpPlaces[1] /\ UpPlaces'[3] = UpPlaces[3]
        /\ UpPlaces'[5] = UpPlaces[5]
    BY UpPlacesAre, UpPlacesAreNext DEF UpPipes
  <2>2. UpPlaces'[2] \subseteq UpPlaces[2] /\ UpPlaces'[4] \subseteq UpPlaces[4]
    BY UpPlacesAre, UpPlacesAreNext, SomeNumbers
  <2>3. \A k \in DOMAIN UpPlaces : k = 1 \/ k = 2 \/ k = 3 \/ k = 4 \/ k = 5
    BY UpPlacesAre
  <2> QED BY <2>1, <2>2, <2>3
<1>3. Ordered(UpPlaces')
  BY <1>2, UpPlacesAre, UpPlacesAreNext, LossOrdered DEF HeardInOrder
<1>4. Ordered(UpPlaces)'
  BY <1>3 DEF Ordered
<1> QED BY <1>1, <1>4, UpKept

\* The pipe f lost its first message, whose number goes on or is lost.
LEMMA UpTake ==
    ASSUME IpTypeOK, HeardInOrder, NEW f \in UpPipes, fifo[f] # <<>>,
           fifo'[f] = Tail(fifo[f]),
           \A g \in UpPipes \ {f} : fifo'[g] = fifo[g]
    PROVE  /\ UpRises'
           /\ Head(fifo[f]) \in UpMessages
           /\ Range(fifo'[f]) \subseteq Range(fifo[f])
           /\ Number("address", Head(fifo[f])) \subseteq Numbers("address", Range(fifo[f]))
           /\ Numbers("address", Range(fifo'[f]))
                = Numbers("address", Range(fifo[f])) \ Number("address", Head(fifo[f]))
           /\ \A a \in Number("address", Head(fifo[f])),
                 b \in Numbers("address", Range(fifo'[f])) : a < b
<1>1. /\ fifo[f] \in Seq(Numbered("address")) /\ Rising("address", fifo[f])
      /\ Range(fifo[f]) \subseteq UpMessages
  BY UpPipeIs
<1>2. "address" \in Kinds
  BY DEF Kinds
<1>3. /\ Rising("address", fifo'[f])
      /\ Number("address", Head(fifo[f])) \subseteq Numbers("address", Range(fifo[f]))
      /\ Numbers("address", Range(fifo'[f]))
           = Numbers("address", Range(fifo[f])) \ Number("address", Head(fifo[f]))
      /\ \A a \in Number("address", Head(fifo[f])),
            b \in Numbers("address", Range(fifo'[f])) : a < b
      /\ Head(fifo[f]) \in Range(fifo[f]) /\ Range(fifo'[f]) \subseteq Range(fifo[f])
  BY <1>1, <1>2, TakeNumber
<1>4. \A g \in UpPipes \ {f} : Rising("address", fifo'[g])
  BY DEF HeardInOrder
<1>5. \A g \in UpPipes : Rising("address", fifo'[g])
  BY <1>3, <1>4
<1>6. UpRises'
  BY <1>5 DEF UpRises, Rising
<1> QED BY <1>1, <1>3, <1>6

\* A message was appended to the pipe f.
LEMMA UpPut ==
    ASSUME IpTypeOK, HeardInOrder, NEW f \in UpPipes, NEW x \in RawEthernetPacket,
           \A a \in Numbers("address", Range(fifo[f])), b \in Number("address", x) : a < b,
           fifo'[f] = Append(fifo[f], x),
           \A g \in UpPipes \ {f} : fifo'[g] = fifo[g]
    PROVE  /\ UpRises'
           /\ Range(fifo'[f]) = Range(fifo[f]) \cup {x}
           /\ Numbers("address", Range(fifo'[f]))
                = Numbers("address", Range(fifo[f])) \cup Number("address", x)
<1>1. /\ fifo[f] \in Seq(Numbered("address")) /\ Rising("address", fifo[f])
      /\ x \in Numbered("address")
  BY UpPipeIs DEF Numbered
<1>2. /\ Rising("address", fifo'[f])
      /\ Range(fifo'[f]) = Range(fifo[f]) \cup {x}
      /\ Numbers("address", Range(fifo'[f]))
           = Numbers("address", Range(fifo[f])) \cup Number("address", x)
  BY <1>1, AppendNumber
<1>3. \A g \in UpPipes \ {f} : Rising("address", fifo'[g])
  BY DEF HeardInOrder
<1>4. \A g \in UpPipes : Rising("address", fifo'[g])
  BY <1>2, <1>3
<1>5. UpRises'
  BY <1>4 DEF UpRises, Rising
<1> QED BY <1>2, <1>5

\* The driver and the Ethernet mux read a frame.
LEMMA DriverReadsInOrder ==
    ASSUME IpTypeOK, HeardInOrder, DriverReads, UNCHANGED <<cache, heard>>
    PROVE  HeardInOrder'
<1> DEFINE h == Head(fifo["pcap"])
           X == Number("address", h)
<1>1. /\ PipesOK /\ "driver" \in Process /\ "pcap" \in Fifo /\ "pcap" \in UpPipes
      /\ out["driver"] = <<>> /\ fifo["pcap"] # <<>>
      /\ Receive("driver", "pcap", <<[to |-> "ether2mux", msg |-> h]>>)
  BY DEF DriverReads, GetNextEvent, IpTypeOK, Process, Fifo, UpPipes
<1> HIDE DEF h
<1>2. /\ Touches("driver", {"pcap"}) /\ fifo'["pcap"] = Tail(fifo["pcap"])
      /\ out'["driver"] = <<[to |-> "ether2mux", msg |-> h]>>
  BY <1>1, Receives
<1>3. /\ \A g \in UpPipes \ {"pcap"} : fifo'[g] = fifo[g]
      /\ out'["ethermux"] = out["ethermux"]
  BY <1>2 DEF Touches, UpPipes, Fifo, Process
<1>4. ToWrite("driver", "ether2mux") = {} /\ ToWrite("driver", "ether2mux")' = {h}
  BY <1>1, <1>2, LeavesOne
<1>5. ToWrite("ethermux", "mux2arp")' = ToWrite("ethermux", "mux2arp")
  BY <1>3, SameToWrite
<1>6. /\ UpRises' /\ h \in UpMessages /\ Range(fifo'["pcap"]) \subseteq Range(fifo["pcap"])
      /\ X \subseteq Numbers("address", Range(fifo["pcap"]))
      /\ Numbers("address", Range(fifo'["pcap"]))
           = Numbers("address", Range(fifo["pcap"])) \ X
      /\ \A a \in X, b \in Numbers("address", Range(fifo'["pcap"])) : a < b
  BY <1>1, <1>2, <1>3, UpTake DEF h
<1>7. UpMessages' \subseteq UpMessages
  BY <1>3, <1>4, <1>5, <1>6 DEF UpMessages, UpPipes
<1>8. /\ UpPlaces'[1] = UpPlaces[1] /\ UpPlaces'[2] = UpPlaces[2]
      /\ UpPlaces'[3] = UpPlaces[3] /\ UpPlaces[4] = {} /\ UpPlaces'[4] = X
      /\ X \subseteq UpPlaces[5] /\ UpPlaces'[5] = UpPlaces[5] \ X
      /\ \A a \in X, b \in UpPlaces'[5] : a < b
  BY <1>3, <1>4, <1>5, <1>6, UpPlacesAre, UpPlacesAreNext, FewNumbers DEF UpPipes
<1> HIDE DEF X
<1>9. Shifts(UpPlaces, UpPlaces', 4, X)
  BY <1>8, UpPlacesAre, UpPlacesAreNext DEF Shifts
<1>10. Ordered(UpPlaces')
  BY <1>9, UpPlacesAre, ShiftOrdered DEF HeardInOrder
<1>11. Ordered(UpPlaces)'
  BY <1>10 DEF Ordered
<1> QED BY <1>6, <1>7, <1>11, UpKept

LEMMA EtherMuxDispatchesInOrder ==
    ASSUME IpTypeOK, HeardInOrder, EtherMuxDispatches, UNCHANGED <<cache, heard>>
    PROVE  HeardInOrder'
<1> DEFINE h == Head(fifo["ether2mux"])
           X == Number("address", h)
           f == EtherMuxPipe(h.protocoltype)
<1>1. /\ PipesOK /\ "ethermux" \in Process /\ "ether2mux" \in Fifo /\ "ether2mux" \in UpPipes
      /\ out["ethermux"] = <<>> /\ fifo["ether2mux"] # <<>>
      /\ Receive("ethermux", "ether2mux", <<[to |-> f, msg |-> h]>>)
  BY DEF EtherMuxDispatches, GetNextEvent, IpTypeOK, Process, Fifo, UpPipes
<1> HIDE DEF h, f
<1>2. /\ Touches("ethermux", {"ether2mux"}) /\ fifo'["ether2mux"] = Tail(fifo["ether2mux"])
      /\ out'["ethermux"] = <<[to |-> f, msg |-> h]>>
  BY <1>1, Receives
<1>3. /\ \A g \in UpPipes \ {"ether2mux"} : fifo'[g] = fifo[g]
      /\ out'["driver"] = out["driver"]
  BY <1>2 DEF Touches, UpPipes, Fifo, Process
<1>4. /\ ToWrite("ethermux", "mux2arp") = {}
      /\ ToWrite("ethermux", "mux2arp")' = IF f = "mux2arp" THEN {h} ELSE {}
  BY <1>1, <1>2, LeavesOne
<1>5. ToWrite("driver", "ether2mux")' = ToWrite("driver", "ether2mux")
  BY <1>3, SameToWrite
<1>6. /\ UpRises' /\ h \in UpMessages
      /\ Range(fifo'["ether2mux"]) \subseteq Range(fifo["ether2mux"])
      /\ X \subseteq Numbers("address", Range(fifo["ether2mux"]))
      /\ Numbers("address", Range(fifo'["ether2mux"]))
           = Numbers("address", Range(fifo["ether2mux"])) \ X
      /\ \A a \in X, b \in Numbers("address", Range(fifo'["ether2mux"])) : a < b
  BY <1>1, <1>2, <1>3, UpTake DEF h
<1>7. UpMessages' \subseteq UpMessages
  BY <1>3, <1>4, <1>5, <1>6 DEF UpMessages, UpPipes
<1>8. /\ UpPlaces'[1] = UpPlaces[1] /\ UpPlaces'[4] = UpPlaces[4]
      /\ UpPlaces'[5] = UpPlaces[5] /\ UpPlaces[2] = {} /\ UpPlaces'[2] \in {X, {}}
      /\ X \subseteq UpPlaces[3] /\ UpPlaces'[3] = UpPlaces[3] \ X
      /\ \A a \in X, b \in UpPlaces'[3] : a < b
  <2>1. /\ Numbers("address", ToWrite("ethermux", "mux2arp")) = {}
        /\ Numbers("address", ToWrite("ethermux", "mux2arp")') \in {X, {}}
    BY <1>4, FewNumbers
  <2>2. UpPlaces[2] = {} /\ UpPlaces'[2] \in {X, {}}
    BY <2>1, UpPlacesAre, UpPlacesAreNext
  <2>3. UpPlaces'[1] = UpPlaces[1] /\ UpPlaces'[4] = UpPlaces[4] /\ UpPlaces'[5] = UpPlaces[5]
    BY <1>3, <1>5, UpPlacesAre, UpPlacesAreNext DEF UpPipes
  <2> QED BY <1>6, <2>2, <2>3, UpPlacesAre, UpPlacesAreNext
<1> HIDE DEF X
<1>9. CASE UpPlaces'[2] = X
  <2>1. Shifts(UpPlaces, UpPlaces', 2, X)
    BY <1>8, <1>9, UpPlacesAre, UpPlacesAreNext DEF Shifts
  <2>2. Ordered(UpPlaces')
    BY <2>1, UpPlacesAre, ShiftOrdered DEF HeardInOrder
  <2>3. Ordered(UpPlaces)'
    BY <2>2 DEF Ordered
  <2> QED BY <1>6, <1>7, <2>3, UpKept
<1>10. CASE UpPlaces'[2] = {}
  <2>1. \A k \in DOMAIN UpPlaces : UpPlaces'[k] \subseteq UpPlaces[k]
    <3>1. \A k \in DOMAIN UpPlaces : k = 1 \/ k = 2 \/ k = 3 \/ k = 4 \/ k = 5
      BY UpPlacesAre
    <3> QED BY <1>8, <1>10, <3>1
  <2>2. Ordered(UpPlaces')
    BY <2>1, UpPlacesAre, UpPlacesAreNext, LossOrdered DEF HeardInOrder
  <2>3. Ordered(UpPlaces)'
    BY <2>2 DEF Ordered
  <2> QED BY <1>6, <1>7, <2>3, UpKept
<1> QED BY <1>8, <1>9, <1>10

\* They write it.
LEMMA WriteInOrder ==
    ASSUME IpTypeOK, FewMessages, HeardInOrder, UNCHANGED <<cache, heard>>,
           NEW m \in {"driver", "ethermux"}, Send(m)
    PROVE  HeardInOrder'
<1> DEFINE e == Head(out[m])
           g == IF m = "driver" THEN "ether2mux" ELSE "mux2arp"
           n == IF m = "driver" THEN "ethermux" ELSE "driver"
           o == IF m = "driver" THEN "mux2arp" ELSE "ether2mux"
           k == IF m = "driver" THEN 3 ELSE 1
           x == e.msg
           X == Number("address", x)
<1>1. m \in Process \ {"arp"} /\ g \in Fifo /\ UpPipes \subseteq Fifo /\ g \in UpPipes
      /\ n \in Process \ {m}
  BY DEF Process, Fifo, UpPipes
<1>2. /\ e \in Sends(m) /\ x \in MessageOf(e.to)
      /\ \A p \in Process \ {m} : out'[p] = out[p]
      /\ \A h \in Fifo : /\ ToWrite(m, h) = IF e.to = h THEN {x} ELSE {}
                         /\ ToWrite(m, h)' = {}
                         /\ fifo'[h] = IF e.to = h THEN Append(fifo[h], x) ELSE fifo[h]
  BY <1>1, WritesOne
<1>3. ToWrite(n, o)' = ToWrite(n, o)
  BY <1>1, <1>2, SameToWrite
<1> HIDE DEF e, x
<1>4. e.to \in UpPipes => e.to = g
  BY <1>2 DEF UpPipes, Sends, SendTo
<1>5. e.to = g => x \in RawEthernetPacket
  BY <1>2 DEF MessageOf, Carrying
<1>6. /\ UpPlaces[k] = Numbers("address", Range(fifo[g]))
      /\ UpPlaces[k + 1] = Numbers("address", ToWrite(m, g))
      /\ UpPlaces'[k] = Numbers("address", Range(fifo'[g]))
      /\ UpPlaces'[k + 1] = Numbers("address", ToWrite(m, g)')
      /\ k \in 1 .. 5 /\ k + 1 \in 1 .. 5 /\ k \in Nat
  BY UpPlacesAre, UpPlacesAreNext
<1>7. ASSUME \A f \in UpPipes \ {g} : fifo'[f] = fifo[f]
      PROVE  \A j \in (1 .. 5) \ {k, k + 1} : UpPlaces'[j] = UpPlaces[j]
  <2>1. \A j \in 1 .. 5 : j = 1 \/ j = 2 \/ j = 3 \/ j = 4 \/ j = 5
    OBVIOUS
  <2>2. CASE m = "driver"
    BY <1>3, <1>7, <2>1, <2>2, UpPlacesAre, UpPlacesAreNext DEF UpPipes
  <2>3. CASE m = "ethermux"
    BY <1>3, <1>7, <2>1, <2>3, UpPlacesAre, UpPlacesAreNext DEF UpPipes
  <2> QED BY <2>2, <2>3
<1>8. ASSUME NEW y
      PROVE  /\ y \in UpMessages <=> \/ \E f \in UpPipes : y \in Range(fifo[f])
                                    \/ y \in ToWrite(m, g) \cup ToWrite(n, o)
             /\ y \in UpMessages' <=> \/ \E f \in UpPipes : y \in Range(fifo'[f])
                                     \/ y \in ToWrite(m, g)' \cup ToWrite(n, o)'
  <2>1. /\ y \in UpMessages <=> \/ \E f \in UpPipes : y \in Range(fifo[f])
                               \/ y \in ToWrite("ethermux", "mux2arp")
                               \/ y \in ToWrite("driver", "ether2mux")
        /\ y \in UpMessages' <=> \/ \E f \in UpPipes : y \in Range(fifo'[f])
                                \/ y \in ToWrite("ethermux", "mux2arp")'
                                \/ y \in ToWrite("driver", "ether2mux")'
    BY DEF UpMessages, UpPipes
  <2>2. CASE m = "driver"
    BY <2>1, <2>2
  <2>3. CASE m = "ethermux"
    BY <2>1, <2>3
  <2> QED BY <2>2, <2>3
<1>9. CASE e.to # g
  <2>1. \A f \in UpPipes : fifo'[f] = fifo[f]
    BY <1>1, <1>2, <1>4, <1>9
  <2>2. ToWrite(m, g)' \subseteq ToWrite(m, g)
    BY <1>1, <1>2
  <2> QED BY <1>3, <2>1, <2>2, UpQuiet
<1> HIDE DEF g, n, o, k
<1>10. CASE e.to = g
  <2>1. /\ fifo'[g] = Append(fifo[g], x) /\ \A f \in UpPipes \ {g} : fifo'[f] = fifo[f]
        /\ ToWrite(m, g) = {x} /\ ToWrite(m, g)' = {}
    BY <1>1, <1>2, <1>10
  <2>2. UpPlaces[k + 1] = X /\ UpPlaces'[k + 1] = {}
    BY <1>6, <2>1, FewNumbers
  <2>3. \A a \in UpPlaces[k], b \in X : a < b
    BY <1>6, <2>2, UpPlacesAre DEF HeardInOrder, Ordered
  <2>4. \A a \in Numbers("address", Range(fifo[g])), b \in Number("address", x) : a < b
    BY <1>6, <2>3
  <2>5. /\ UpRises' /\ Range(fifo'[g]) = Range(fifo[g]) \cup {x}
        /\ Numbers("address", Range(fifo'[g])) = Numbers("address", Range(fifo[g])) \cup X
    BY <1>1, <1>5, <1>10, <2>1, <2>4, UpPut
  <2>6. UpMessages' \subseteq UpMessages
    <3>1. ASSUME NEW y \in UpMessages' PROVE y \in UpMessages
      <4>1. \/ \E f \in UpPipes : y \in Range(fifo[f])
            \/ y = x \/ y \in ToWrite(n, o)
        BY <1>1, <1>3, <1>8, <2>1, <2>5, <3>1
      <4> QED BY <1>8, <2>1, <4>1
    <3> QED BY <3>1
  <2>7. UpPlaces'[k] = UpPlaces[k] \cup X
    BY <1>6, <2>5
  <2>8. \A j \in (1 .. 5) \ {k, k + 1} : UpPlaces'[j] = UpPlaces[j]
    BY <1>7, <2>1
  <2> HIDE DEF X
  <2>9. Shifts(UpPlaces, UpPlaces', k, X)
    BY <1>6, <2>2, <2>7, <2>8, UpPlacesAre, UpPlacesAreNext DEF Shifts
  <2>10. Ordered(UpPlaces')
    BY <2>9, UpPlacesAre, ShiftOrdered DEF HeardInOrder
  <2>11. Ordered(UpPlaces)'
    BY <2>10 DEF Ordered
  <2> QED BY <2>5, <2>6, <2>11, UpKept
<1> QED BY <1>9, <1>10

\* What is in a place is the number of a frame on its way.
LEMMA UpPlaceOf ==
    ASSUME NEW k \in 1 .. 5, NEW a \in UpPlaces[k]
    PROVE  \E raw \in UpMessages : a = raw.srcaddr
<1>1. k = 1 \/ k = 2 \/ k = 3 \/ k = 4 \/ k = 5
  OBVIOUS
<1>2. \A S : a \in Numbers("address", S) <=> \E raw \in S : a = raw.srcaddr
  BY NumberOf DEF Numbers
<1>3. \E S : a \in Numbers("address", S) /\ S \subseteq UpMessages
  BY <1>1, UpPlacesAre DEF UpMessages
<1> QED BY <1>2, <1>3

\* The ARP module hears of a station.
LEMMA ArpHearsInOrder ==
    ASSUME IpTypeOK, HeardInOrder, ArpHearsMux, UNCHANGED heard
    PROVE  HeardInOrder'
<1> DEFINE h == Head(fifo["mux2arp"])
           arp == h.payload
           X == Number("address", h)
<1>1. /\ PipesOK /\ "arp" \in Process /\ "mux2arp" \in Fifo /\ "mux2arp" \in UpPipes
      /\ fifo["mux2arp"] # <<>>
  BY DEF ArpHearsMux, GetNextEvent, IpTypeOK, Process, Fifo, UpPipes
<1>2. PICK sends : Receive("arp", "mux2arp", sends)
  BY DEF ArpHearsMux
<1>3. Touches("arp", {"mux2arp"}) /\ fifo'["mux2arp"] = Tail(fifo["mux2arp"])
  BY <1>1, <1>2, Receives
<1>4. /\ \A g \in UpPipes \ {"mux2arp"} : fifo'[g] = fifo[g]
      /\ out'["driver"] = out["driver"] /\ out'["ethermux"] = out["ethermux"]
  BY <1>3 DEF Touches, UpPipes, Fifo, Process
<1>5. /\ ToWrite("driver", "ether2mux")' = ToWrite("driver", "ether2mux")
      /\ ToWrite("ethermux", "mux2arp")' = ToWrite("ethermux", "mux2arp")
  BY <1>4, SameToWrite
<1>6. /\ UpRises' /\ h \in UpMessages
      /\ Range(fifo'["mux2arp"]) \subseteq Range(fifo["mux2arp"])
      /\ X \subseteq Numbers("address", Range(fifo["mux2arp"]))
      /\ Numbers("address", Range(fifo'["mux2arp"]))
           = Numbers("address", Range(fifo["mux2arp"])) \ X
      /\ \A a \in X, b \in Numbers("address", Range(fifo'["mux2arp"])) : a < b
  BY <1>1, <1>3, <1>4, UpTake
<1>7. UpMessages' \subseteq UpMessages
  BY <1>4, <1>5, <1>6 DEF UpMessages, UpPipes
<1>8. h \in Carrying("PROTO_ARP")
  BY <1>1, HeadType DEF MessageOf
<1>9. /\ UNCHANGED cache \/ cache' = [i \in DOMAIN cache \cup {arp.senderip} |->
                                        IF i = arp.senderip THEN arp.senderhw ELSE cache[i]]
  BY DEF ArpHearsMux, CacheUpdate
<1> HIDE DEF h
<1>10. arp.senderhw = h.srcaddr
  BY <1>6, <1>8 DEF HeardInOrder, OwnSender, Carrying
<1>11. X = {h.srcaddr}
  BY NumberOf
<1>12. h.srcaddr < Station
  BY <1>6 DEF HeardInOrder, Fresh
<1>13. /\ UpPlaces'[2] = UpPlaces[2] /\ UpPlaces'[3] = UpPlaces[3]
       /\ UpPlaces'[4] = UpPlaces[4] /\ UpPlaces'[5] = UpPlaces[5]
       /\ h.srcaddr \in UpPlaces[1] /\ UpPlaces'[1] \subseteq UpPlaces[1]
       /\ \A b \in UpPlaces'[1] : h.srcaddr < b
  BY <1>4, <1>5, <1>6, <1>11, UpPlacesAre, UpPlacesAreNext DEF UpPipes
<1>14. \A k \in 1 .. 5 : k = 1 \/ k = 2 \/ k = 3 \/ k = 4 \/ k = 5
  OBVIOUS
<1>15. Ordered(UpPlaces')
  <2>1. \A k \in DOMAIN UpPlaces : UpPlaces'[k] \subseteq UpPlaces[k]
    BY <1>13, <1>14, UpPlacesAre
  <2> QED BY <2>1, UpPlacesAre, UpPlacesAreNext, LossOrdered DEF HeardInOrder
<1>16. ASSUME NEW raw \in UpMessages'
       PROVE  h.srcaddr < raw.srcaddr
  <2>1. \A S : raw \in S => raw.srcaddr \in Numbers("address", S)
    BY NumberOf DEF Numbers
  <2>2. \E k \in 1 .. 5 : raw.srcaddr \in UpPlaces'[k]
    BY <2>1, UpPlacesAreNext DEF UpMessages
  <2>3. \A k \in {2, 3, 4, 5} : \A b \in UpPlaces'[k] : h.srcaddr < b
    BY <1>13, UpPlacesAre DEF HeardInOrder, Ordered
  <2> QED BY <1>13, <1>14, <2>2, <2>3
<1>17. Fresh'
  <2>1. Station' = Station
    BY DEF Station
  <2>2. \A raw \in UpMessages' : raw.srcaddr < Station
    BY <1>7 DEF HeardInOrder, Fresh
  <2> HIDE DEF arp
  <2>3. ASSUME NEW i \in DOMAIN cache'
        PROVE  cache'[i] < Station /\ \A raw \in UpMessages' : cache'[i] < raw.srcaddr
    <3>1. CASE i \in DOMAIN cache /\ cache'[i] = cache[i]
      BY <1>7, <3>1 DEF HeardInOrder, Fresh
    <3>2. CASE cache'[i] = h.srcaddr
      BY <1>12, <1>16, <3>2
    <3>3. (i \in DOMAIN cache /\ cache'[i] = cache[i]) \/ cache'[i] = h.srcaddr
      BY <1>9, <1>10
    <3> QED BY <3>1, <3>2, <3>3
  <2> QED BY <2>1, <2>2, <2>3 DEF Fresh
<1>18. \A raw \in UpMessages' : OwnSender(raw)
  BY <1>7 DEF HeardInOrder
<1>19. Ordered(UpPlaces)'
  BY <1>15 DEF Ordered
<1> QED BY <1>6, <1>17, <1>18, <1>19 DEF HeardInOrder, UpRises, OwnSender

\* The link brings a frame from the next station.
LEMMA LinkInOrder ==
    ASSUME IpTypeOK, HeardInOrder, Link
    PROVE  HeardInOrder'
<1>1. PICK raw \in RawEthernetPacket :
             Arrives(raw) /\ raw.srcaddr = Station /\ OwnSender(raw)
  BY LinkBrings
<1>2. /\ "pcap" \in UpPipes /\ "pcap" \in Fifo /\ DOMAIN fifo = Fifo
      /\ UpPipes \subseteq Fifo
  BY DEF UpPipes, Fifo, IpTypeOK, PipesOK
<1>3. /\ fifo'["pcap"] = Append(fifo["pcap"], raw)
      /\ \A g \in UpPipes \ {"pcap"} : fifo'[g] = fifo[g]
      /\ out' = out /\ cache' = cache /\ heard' = heard + 1
  BY <1>1, <1>2 DEF Arrives, Link
<1>4. Station \in Nat /\ Station' = Station + 1 /\ Station < Station'
  BY <1>3 DEF Station, MyEthernetAddr, IpTypeOK
<1>5. Number("address", raw) = {Station}
  BY <1>1, NumberOf
<1>6. \A k \in 1 .. 5 : \A a \in UpPlaces[k], b \in {Station} : a < b
  BY UpPlaceOf DEF HeardInOrder, Fresh
<1>7. \A a \in Numbers("address", Range(fifo["pcap"])), b \in Number("address", raw) : a < b
  BY <1>5, <1>6, UpPlacesAre
<1>8. /\ UpRises' /\ Range(fifo'["pcap"]) = Range(fifo["pcap"]) \cup {raw}
      /\ Numbers("address", Range(fifo'["pcap"]))
           = Numbers("address", Range(fifo["pcap"])) \cup {Station}
  BY <1>2, <1>3, <1>5, <1>7, UpPut
<1>9. /\ ToWrite("driver", "ether2mux")' = ToWrite("driver", "ether2mux")
      /\ ToWrite("ethermux", "mux2arp")' = ToWrite("ethermux", "mux2arp")
  BY <1>3, SameToWrite
<1>10. UpMessages' \subseteq UpMessages \cup {raw}
  BY <1>3, <1>8, <1>9 DEF UpMessages, UpPipes
<1>11. Ordered(UpPlaces')
  <2>1. UpPlaces'[5] = UpPlaces[5] \cup {Station}
    BY <1>8, UpPlacesAre, UpPlacesAreNext
  <2>2. \A k \in (1 .. 5) \ {5} : UpPlaces'[k] = UpPlaces[k]
    <3>1. \A k \in (1 .. 5) \ {5} : k = 1 \/ k = 2 \/ k = 3 \/ k = 4
      OBVIOUS
    <3> QED BY <1>3, <1>9, <3>1, UpPlacesAre, UpPlacesAreNext DEF UpPipes
  <2>3. DOMAIN UpPlaces \subseteq Nat /\ 5 \in DOMAIN UpPlaces
        /\ \A k \in DOMAIN UpPlaces : k <= 5
    BY UpPlacesAre
  <2>4. \A k \in DOMAIN UpPlaces : \A a \in UpPlaces[k], b \in {Station} : a < b
    BY <1>6, UpPlacesAre
  <2>5. /\ Ordered(UpPlaces) /\ DOMAIN UpPlaces' = DOMAIN UpPlaces
        /\ \A k \in DOMAIN UpPlaces \ {5} : UpPlaces'[k] = UpPlaces[k]
    BY <2>2, UpPlacesAre, UpPlacesAreNext DEF HeardInOrder
  <2>6. PICK S, T, X : S = UpPlaces /\ T = UpPlaces' /\ X = {Station}
    OBVIOUS
  <2>7. /\ Ordered(S) /\ DOMAIN S \subseteq Nat /\ 5 \in DOMAIN S
        /\ \A k \in DOMAIN S : k <= 5 /\ \A a \in S[k], b \in X : a < b
        /\ DOMAIN T = DOMAIN S /\ T[5] = S[5] \cup X
        /\ \A k \in DOMAIN S \ {5} : T[k] = S[k]
    BY <2>1, <2>3, <2>4, <2>5, <2>6
  <2>8. Ordered(T)
    BY <2>7, EntryOrdered
  <2> QED BY <2>6, <2>8
<1>12. \A raw2 \in UpMessages' : OwnSender(raw2)
  BY <1>1, <1>10 DEF HeardInOrder
<1>13. Fresh'
  <2> DEFINE S == Station
             T == Station'
  <2>1. S \in Nat /\ T = S + 1
    BY <1>4
  <2>2. \A r \in UpMessages' : (r.srcaddr < S /\ r.srcaddr \in Nat) \/ r.srcaddr = S
    <3>1. \A r \in UpMessages : r.srcaddr < S
      BY DEF HeardInOrder, Fresh
    <3>2. \A r \in UpMessages : r.srcaddr \in Nat
      <4>1. \A f \in UpPipes : \A r \in Range(fifo[f]) : r \in RawEthernetPacket
        BY UpPipeIs DEF Numbered, Range
      <4>2. ASSUME NEW m \in Process, NEW f \in {"mux2arp", "ether2mux"},
                   NEW r \in ToWrite(m, f)
            PROVE  r \in RawEthernetPacket
        <5>1. PICK i \in DOMAIN out[m] : out[m][i].to = f /\ r = out[m][i].msg
          BY <4>2 DEF ToWrite, Unsent
        <5>2. out[m][i] \in Sends(m)
          BY <5>1 DEF IpTypeOK, PipesOK
        <5>3. r \in MessageOf(f)
          BY <5>1, <5>2, SendsFit
        <5> QED BY <5>3 DEF MessageOf, Carrying
      <4>3. "driver" \in Process /\ "ethermux" \in Process
        BY DEF Process
      <4>4. \A r \in UpMessages : r \in RawEthernetPacket
        BY <4>1, <4>2, <4>3 DEF UpMessages, UpPipes
      <4> QED BY <4>4, FrameOf DEF EthernetAddr
    <3> QED BY <1>1, <1>10, <3>1, <3>2
  <2>3. \A i \in DOMAIN cache : cache[i] < S /\ cache[i] \in Nat
                                 /\ \A r \in UpMessages' : cache[i] < r.srcaddr
    BY <1>1, <1>10 DEF HeardInOrder, Fresh, IpTypeOK, EthernetAddr
  <2> HIDE DEF S
  <2>4. \A r \in UpMessages' : r.srcaddr < T
    BY <2>1, <2>2
  <2>5. \A i \in DOMAIN cache : cache[i] < T
    BY <2>1, <2>3
  <2> QED BY <1>3, <2>3, <2>4, <2>5 DEF Fresh
<1>14. Ordered(UpPlaces)'
  BY <1>11 DEF Ordered
<1> QED BY <1>8, <1>12, <1>13, <1>14 DEF HeardInOrder, UpRises, OwnSender

LEMMA HeardInOrderStep ==
    ASSUME IpTypeOK, FewMessages, HeardInOrder, Next
    PROVE  HeardInOrder'
<1>1. CASE Driver
  <2>1. UNCHANGED <<cache, heard>>
    BY <1>1, StepTouches
  <2>2. CASE DriverReads
    BY <2>1, <2>2, DriverReadsInOrder
  <2>3. CASE DriverWrites
    <3>1. Receive("driver", "mux2ether", <<>>) /\ out["driver"] = <<>>
      BY <2>3 DEF DriverWrites, GetNextEvent
    <3>2. Touches("driver", {"mux2ether"}) /\ out'["driver"] = <<>>
      BY <3>1, Receives DEF IpTypeOK, Process, Fifo
    <3>3. /\ \A f \in UpPipes : fifo'[f] = fifo[f]
          /\ out'["ethermux"] = out["ethermux"]
      BY <3>2 DEF Touches, UpPipes, Fifo, Process
    <3>4. /\ ToWrite("driver", "ether2mux")' = {}
          /\ ToWrite("ethermux", "mux2arp")' = ToWrite("ethermux", "mux2arp")
      BY <3>1, <3>2, <3>3, LeavesNone, SameToWrite
    <3> QED BY <2>1, <3>3, <3>4, UpQuiet
  <2>4. CASE Send("driver")
    BY <2>1, <2>4, WriteInOrder
  <2> QED BY <1>1, <2>2, <2>3, <2>4 DEF Driver, DriverNext
<1>2. CASE EtherMux
  <2>1. UNCHANGED <<cache, heard>>
    BY <1>2, StepTouches
  <2>2. CASE EtherMuxDispatches
    BY <2>1, <2>2, EtherMuxDispatchesInOrder
  <2>3. CASE EtherMuxCollects
    <3>1. PICK f \in {"arp2mux", "ip2mux"} :
                 /\ out["ethermux"] = <<>>
                 /\ Receive("ethermux", f, <<[to |-> "mux2ether", msg |-> Head(fifo[f])]>>)
      BY <2>3 DEF EtherMuxCollects, GetNextEvent
    <3>2. PICK x : x = Head(fifo[f])
      OBVIOUS
    <3>3. /\ Touches("ethermux", {f})
          /\ out'["ethermux"] = <<[to |-> "mux2ether", msg |-> x]>>
      <4>1. PipesOK /\ "ethermux" \in Process /\ f \in Fifo
        BY DEF IpTypeOK, Process, Fifo
      <4>2. Receive("ethermux", f, <<[to |-> "mux2ether", msg |-> x]>>)
        BY <3>1, <3>2
      <4> QED BY <4>1, <4>2, Receives
    <3>4. /\ \A g \in UpPipes : fifo'[g] = fifo[g]
          /\ out'["driver"] = out["driver"]
      BY <3>3 DEF Touches, UpPipes, Fifo, Process
    <3>5. /\ ToWrite("ethermux", "mux2arp")' = {}
          /\ ToWrite("driver", "ether2mux")' = ToWrite("driver", "ether2mux")
      BY <3>1, <3>3, <3>4, LeavesOne, SameToWrite
    <3> QED BY <2>1, <3>4, <3>5, UpQuiet
  <2>4. CASE Send("ethermux")
    BY <2>1, <2>4, WriteInOrder
  <2> QED BY <1>2, <2>2, <2>3, <2>4 DEF EtherMux, EtherMuxNext
<1>3. ASSUME NEW m \in {"arp", "ip", "ipmux", "icmp", "sock"}, NEW pipes,
             Touches(m, pipes), pipes \cap UpPipes = {}, UNCHANGED <<cache, heard>>
      PROVE  HeardInOrder'
  <2>1. /\ \A f \in UpPipes : fifo'[f] = fifo[f]
        /\ out'["driver"] = out["driver"] /\ out'["ethermux"] = out["ethermux"]
    BY <1>3 DEF Touches, UpPipes, Fifo, Process
  <2>2. /\ ToWrite("driver", "ether2mux")' = ToWrite("driver", "ether2mux")
        /\ ToWrite("ethermux", "mux2arp")' = ToWrite("ethermux", "mux2arp")
    BY <2>1, SameToWrite
  <2> QED BY <1>3, <2>1, <2>2, UpQuiet
<1>4. CASE Arp
  <2>1. UNCHANGED heard
    BY <1>4, StepTouches
  <2>2. CASE ArpHearsMux
    BY <2>1, <2>2, ArpHearsInOrder
  <2>3. CASE ArpHearsIp
    <3>1. PICK sends : Receive("arp", "ip2arp", sends)
      BY <2>3 DEF ArpHearsIp
    <3>2. Touches("arp", {"ip2arp"})
      BY <3>1, Receives DEF IpTypeOK, Process, Fifo
    <3> QED BY <1>3, <2>1, <2>3, <3>2 DEF UpPipes, ArpHearsIp
  <2>4. CASE Send("arp") /\ UNCHANGED cache
    <3> DEFINE e == Head(out["arp"])
    <3>1. Touches("arp", {e.to}) /\ e \in Sends("arp")
      BY <2>4, Writes DEF IpTypeOK, Process
    <3>2. e.to \notin UpPipes
      BY <3>1 DEF Sends, SendTo, UpPipes
    <3> QED BY <1>3, <2>1, <2>4, <3>1, <3>2
  <2> QED BY <1>4, <2>2, <2>3, <2>4 DEF Arp, ArpNext
<1>5. CASE Ip \/ IpMux \/ Icmp \/ Sock
  <2>1. /\ UNCHANGED <<cache, heard>>
        /\ \E m \in {"ip", "ipmux", "icmp", "sock"} : Touches(m, Ends(m))
    BY <1>5, StepTouches
  <2>2. \A m \in {"ip", "ipmux", "icmp", "sock"} : Ends(m) \cap UpPipes = {}
    BY DEF Ends, UpPipes
  <2> QED BY <1>3, <2>1, <2>2
<1>6. CASE Link
  BY <1>6, LinkInOrder
<1>7. ASSUME UNCHANGED <<cache, heard>>, \A f \in UpPipes : fifo'[f] = fifo[f],
             out'["driver"] = out["driver"], out'["ethermux"] = out["ethermux"]
      PROVE  HeardInOrder'
  <2>1. /\ ToWrite("driver", "ether2mux")' = ToWrite("driver", "ether2mux")
        /\ ToWrite("ethermux", "mux2arp")' = ToWrite("ethermux", "mux2arp")
    BY <1>7, SameToWrite
  <2> QED BY <1>7, <2>1, UpQuiet
<1>8. CASE Sinks \/ \E m \in Upper : UpperModuleReads(m)
  BY <1>7, <1>8, OutsideTouches DEF UpPipes, Fifo, Process
<1>9. CASE \E m \in Upper : UpperWrites(m) /\ UNCHANGED <<cache, asking, sent>>
  BY <1>7, <1>9, OutsideTouches DEF UpPipes, Fifo
<1> QED BY <1>1, <1>2, <1>4, <1>5, <1>6, <1>8, <1>9 DEF Next, Runs

AnswersInv == IpTypeOK /\ FewMessages /\ OneQuestion /\ HeardInOrder

LEMMA InitAnswers == Init => AnswersInv
<1> SUFFICES ASSUME Init
             PROVE  FewMessages /\ OneQuestion /\ HeardInOrder
  BY InitIpType DEF AnswersInv
<1>1. /\ \A f \in Fifo : fifo[f] = <<>>
      /\ \A m \in Process : out[m] = <<>>
      /\ asking = <<>> /\ cache = [i \in {MyIPAddr} |-> MyEthernetAddr] /\ heard = 0
  BY DEF Init, ArpInit, IpInit
<1>2. DOMAIN <<>> = {} /\ Len(<<>>) = 0
  OBVIOUS
<1>3. \A m \in Process : \A f : Unsent(m, f) = {} /\ ToWrite(m, f) = {}
  BY <1>1, <1>2 DEF Unsent, ToWrite
<1>4. FewMessages
  BY <1>1, <1>2 DEF FewMessages, Process
<1>5. OneQuestion
  BY <1>1, <1>3 DEF OneQuestion, NoQuestion, NoAnswer, Fifo, Process
<1>6. UpMessages = {} /\ \A f \in UpPipes : Rising("address", fifo[f])
  BY <1>1, <1>2, <1>3, SameRising DEF UpMessages, UpPipes, Range, Fifo, Process
<1>7. Ordered(UpPlaces)
  BY <1>6, UpPlaceOf, UpPlacesAre DEF Ordered
<1>8. Fresh
  BY <1>1, <1>6 DEF Fresh, Station, MyEthernetAddr
<1> QED BY <1>4, <1>5, <1>6, <1>7, <1>8 DEF HeardInOrder

LEMMA NextAnswers ==
    ASSUME AnswersInv, [Next]_vars
    PROVE  AnswersInv'
<1>1. IpTypeOK'
  BY NextIpType DEF AnswersInv
<1>2. CASE Next
  BY <1>1, <1>2, FewMessagesStep, QuestionStep, HeardInOrderStep DEF AnswersInv
<1>3. CASE UNCHANGED vars
  <2>1. UNCHANGED <<fifo, out, cache, asking, heard>>
    BY <1>3 DEF vars
  <2>2. FewMessages'
    BY <2>1 DEF AnswersInv, FewMessages
  <2>3. OneQuestion'
    BY <1>1, <2>1, SameKnown, QuietQuestion DEF AnswersInv, QuestionPlaces
  <2>4. HeardInOrder'
    BY <2>1, UpQuiet, SameToWrite DEF AnswersInv
  <2> QED BY <1>1, <2>2, <2>3, <2>4 DEF AnswersInv
<1> QED BY <1>2, <1>3

\* SendPacket takes whatever comes on the ARP pipe for its answer, and is right to:
\* the only message there is ever about the packet being sent, and what it says is
\* not older than what the ARP module knew when it was asked.
THEOREM AnswersCorrect == Spec => []AnswersMatchQuestions
<1>1. Init => AnswersInv
  BY InitAnswers
<1>2. AnswersInv /\ [Next]_vars => AnswersInv'
  BY NextAnswers
<1>3. AnswersInv => AnswersMatchQuestions
  BY QuestionsMeanAnswers DEF AnswersInv
<1> QED BY <1>1, <1>2, <1>3, PTL DEF Spec

----------------------------------------------------------------------------
(* Packets on their way down *)

LEMMA PlacesAre ==
    /\ DOMAIN Places = 1 .. 8
    /\ Places[1] = Numbers("frame", Range(fifo["mux2ether"]))
    /\ Places[2] = Numbers("frame", ToWrite("ethermux", "mux2ether"))
    /\ Places[3] = Numbers("frame", Range(fifo["ip2mux"]))
    /\ Places[4] = Numbers("frame", ToWrite("ip", "ip2mux"))
    /\ Places[5] = Numbers("packet", {asking[i].packet : i \in DOMAIN asking})
    /\ Places[6] = Numbers("packet", Range(fifo["ipmux2ip"]))
    /\ Places[7] = Numbers("packet", ToWrite("ipmux", "ipmux2ip"))
    /\ Places[8] = Numbers("packet", Range(fifo["udp2ipmux"]))
  BY NumbersOf DEF Places, Place

LEMMA PlacesAreNext ==
    /\ DOMAIN Places' = 1 .. 8
    /\ Places'[1] = Numbers("frame", Range(fifo'["mux2ether"]))
    /\ Places'[2] = Numbers("frame", ToWrite("ethermux", "mux2ether")')
    /\ Places'[3] = Numbers("frame", Range(fifo'["ip2mux"]))
    /\ Places'[4] = Numbers("frame", ToWrite("ip", "ip2mux")')
    /\ Places'[5] = Numbers("packet", {asking'[i].packet : i \in DOMAIN asking'})
    /\ Places'[6] = Numbers("packet", Range(fifo'["ipmux2ip"]))
    /\ Places'[7] = Numbers("packet", ToWrite("ipmux", "ipmux2ip")')
    /\ Places'[8] = Numbers("packet", Range(fifo'["udp2ipmux"]))
<1>1. \A S : UdpFrames(S) = Numbers("frame", S) /\ UdpPackets(S) = Numbers("packet", S)
  BY NumbersOf
<1>2. /\ DOMAIN Places' = 1 .. 8
      /\ Places'[1] = UdpFrames(Range(fifo'["mux2ether"]))
      /\ Places'[2] = UdpFrames(ToWrite("ethermux", "mux2ether")')
      /\ Places'[3] = UdpFrames(Range(fifo'["ip2mux"]))
      /\ Places'[4] = UdpFrames(ToWrite("ip", "ip2mux")')
      /\ Places'[5] = UdpPackets({asking'[i].packet : i \in DOMAIN asking'})
      /\ Places'[6] = UdpPackets(Range(fifo'["ipmux2ip"]))
      /\ Places'[7] = UdpPackets(ToWrite("ipmux", "ipmux2ip")')
      /\ Places'[8] = UdpPackets(Range(fifo'["udp2ipmux"]))
  BY DEF Places, Place, UdpFrames, UdpPackets
<1> QED BY <1>1, <1>2

DownRises == \A f \in DownPipes : Rising(DownKind(f), fifo[f])

\* Of the channel's three variables, what the places say.
LEMMA LeavingIs ==
    ASSUME NEW a
    PROVE  /\ a \in Leaving <=> \E k \in 1 .. 8 : a \in Places[k]
           /\ a \in Leaving' <=> \E k \in 1 .. 8 : a \in Places'[k]
  BY DEF Leaving, Places

LEMMA SentBounds ==
    ASSUME IpTypeOK, SentInOrder
    PROVE  /\ handed["UDP"] \in Nat
           /\ \A k \in 1 .. 8 : \A a \in Places[k] : a \in Nat /\ 1 <= a /\ a <= handed["UDP"]
  BY DEF IpTypeOK, SentInOrder, Upper, Places

\* What the channel does when the modules take a step.
ChannelStep ==
    Channel!Next \/ UNCHANGED <<handed["UDP"], Leaving, UdpFrames(sent)>>

\* The bounds hold while the numbers stay.
LEMMA SentKept ==
    ASSUME SentInOrder, UNCHANGED handed["UDP"], Leaving' \subseteq Leaving,
           Ordered(Places'), DownRises'
    PROVE  SentInOrder'
<1>1. \A k \in 1 .. 8 : Places'[k] \subseteq 1 .. handed["UDP"]
  <2>1. ASSUME NEW k \in 1 .. 8, NEW a \in Places'[k]
        PROVE  a \in 1 .. handed["UDP"]
    <3>1. a \in Leaving
      BY <2>1, LeavingIs
    <3>2. PICK j \in 1 .. 8 : a \in Places[j]
      BY <3>1, LeavingIs
    <3> QED BY <3>2 DEF SentInOrder, Places
  <2> QED BY <2>1
<1>2. \A k \in 1 .. 8 : Place(k)' \subseteq 1 .. handed["UDP"]
  BY <1>1 DEF Places
<1>3. Ordered(Places)'
  BY DEF Ordered
<1> QED BY <1>2, <1>3 DEF SentInOrder, DownRises

LEMMA DownQuiet ==
    ASSUME SentInOrder, UNCHANGED <<handed["UDP"], UdpFrames(sent)>>, DownRises',
           \A k \in 1 .. 8 : Places'[k] = Places[k]
    PROVE  SentInOrder' /\ ChannelStep
<1>1. Leaving' = Leaving
  BY LeavingIs
<1>2. Ordered(Places')
  BY PlacesAre, PlacesAreNext, LossOrdered DEF SentInOrder
<1>3. SentInOrder'
  BY <1>1, <1>2, SentKept
<1> QED BY <1>1, <1>3 DEF ChannelStep

\* Numbers go on to the next place.
LEMMA DownShift ==
    ASSUME SentInOrder, UNCHANGED <<handed["UDP"], UdpFrames(sent)>>, DownRises',
           NEW k, NEW X, Shifts(Places, Places', k, X)
    PROVE  SentInOrder' /\ ChannelStep
<1>1. Ordered(Places')
  BY PlacesAre, ShiftOrdered DEF SentInOrder
<1>2. Leaving' = Leaving
  <2>1. ASSUME NEW a, NEW j \in 1 .. 8, a \in Places[j]
        PROVE  \E i \in 1 .. 8 : a \in Places'[i]
    BY <2>1, PlacesAre DEF Shifts
  <2>2. ASSUME NEW a, NEW j \in 1 .. 8, a \in Places'[j]
        PROVE  \E i \in 1 .. 8 : a \in Places[i]
    BY <2>2, PlacesAre DEF Shifts
  <2> QED BY <2>1, <2>2, LeavingIs
<1>3. SentInOrder'
  BY <1>1, <1>2, SentKept
<1> QED BY <1>2, <1>3 DEF ChannelStep

\* A number, if there is one, is no longer in the place k.
Drops(S, T, k, X) ==
    /\ k \in DOMAIN S /\ DOMAIN T = DOMAIN S
    /\ X \subseteq S[k] /\ \A a, b \in X : a = b
    /\ T[k] = S[k] \ X /\ \A j \in DOMAIN S \ {k} : T[j] = S[j]

LEMMA DropLeaving ==
    ASSUME IpTypeOK, SentInOrder, NEW k, NEW X, Drops(Places, Places', k, X)
    PROVE  /\ Ordered(Places')
           /\ X \subseteq Leaving /\ Leaving' = Leaving \ X
           /\ X = {} \/ \E n : X = {n}
<1>1. Ordered(Places')
  <2>1. \A j \in DOMAIN Places : Places'[j] \subseteq Places[j]
    BY DEF Drops
  <2> QED BY <2>1, LossOrdered DEF Drops, SentInOrder
<1>2. k \in 1 .. 8
  BY PlacesAre DEF Drops
<1>3. X \subseteq Leaving
  BY <1>2, LeavingIs DEF Drops
<1>4. ASSUME NEW j \in (1 .. 8) \ {k}, NEW a \in X PROVE a \notin Places[j]
  <2>1. a \in Places[k] /\ a \in Nat
    BY <1>2, SentBounds DEF Drops
  <2>2. j < k \/ k < j
    BY <1>2
  <2>3. a \in Places[j] => a < a
    BY <1>2, <2>1, <2>2, PlacesAre DEF SentInOrder, Ordered
  <2> QED BY <2>1, <2>3
<1>5. Leaving' = Leaving \ X
  <2>1. ASSUME NEW a \in Leaving' PROVE a \in Leaving \ X
    <3>1. PICK j \in 1 .. 8 : a \in Places'[j]
      BY <2>1, LeavingIs
    <3>2. a \in Places[j] /\ a \notin X
      BY <1>4, <3>1, PlacesAre DEF Drops
    <3> QED BY <3>2, LeavingIs
  <2>2. ASSUME NEW a \in Leaving \ X PROVE a \in Leaving'
    <3>1. PICK j \in 1 .. 8 : a \in Places[j]
      BY <2>2, LeavingIs
    <3>2. a \in Places'[j]
      BY <2>2, <3>1, PlacesAre DEF Drops
    <3> QED BY <3>2, LeavingIs
  <2> QED BY <2>1, <2>2
<1>6. X = {} \/ \E n : X = {n}
  BY DEF Drops
<1> QED BY <1>1, <1>3, <1>5, <1>6

\* A packet is lost.
LEMMA DownLoses ==
    ASSUME IpTypeOK, SentInOrder, UNCHANGED <<handed["UDP"], UdpFrames(sent)>>, DownRises',
           NEW k, NEW X, Drops(Places, Places', k, X)
    PROVE  SentInOrder' /\ ChannelStep
<1>1. /\ Ordered(Places') /\ X \subseteq Leaving /\ Leaving' = Leaving \ X
      /\ X = {} \/ \E n : X = {n}
  BY DropLeaving
<1>2. SentInOrder'
  BY <1>1, SentKept
<1>3. CASE X = {}
  <2>1. Leaving' = Leaving
    BY <1>1, <1>3
  <2> QED BY <1>2, <2>1 DEF ChannelStep
<1>4. CASE \E n : X = {n}
  <2>1. PICK n : X = {n}
    BY <1>4
  <2>2. n \in Leaving /\ Leaving' = Leaving \ {n}
    BY <1>1, <2>1
  <2>3. Channel!Lose
    BY <2>2 DEF Channel!Lose
  <2> QED BY <1>2, <2>3 DEF ChannelStep, Channel!Next
<1> QED BY <1>1, <1>3, <1>4

\* The first packet of the last pipe leaves.
LEMMA DownLeaves ==
    ASSUME IpTypeOK, SentInOrder, UNCHANGED handed["UDP"], DownRises',
           NEW X, Drops(Places, Places', 1, X),
           \A a \in X, b \in Places'[1] : a < b,
           UdpFrames(sent)' = UdpFrames(sent) \cup X
    PROVE  SentInOrder' /\ ChannelStep
<1>1. /\ Ordered(Places') /\ X \subseteq Leaving /\ Leaving' = Leaving \ X
      /\ X = {} \/ \E n : X = {n}
  BY DropLeaving
<1>2. SentInOrder'
  BY <1>1, SentKept
<1>3. CASE X = {}
  <2>1. Leaving' = Leaving /\ UdpFrames(sent)' = UdpFrames(sent)
    BY <1>1, <1>3
  <2> QED BY <1>2, <2>1 DEF ChannelStep
<1>4. CASE \E n : X = {n}
  <2>1. PICK n : X = {n}
    BY <1>4
  <2>2. n \in Leaving /\ Leaving' = Leaving \ {n} /\ n \in Places[1]
        /\ UdpFrames(sent)' = UdpFrames(sent) \cup {n}
    BY <1>1, <2>1 DEF Drops
  <2>3. n \in Nat
    BY <2>2, SentBounds
  <2>4. ASSUME NEW m \in Leaving PROVE n <= m
    <3>1. PICK j \in 1 .. 8 : m \in Places[j] /\ m \in Nat
      BY LeavingIs, SentBounds
    <3>2. CASE j = 1
      <4>1. m = n \/ m \in Places'[1]
        BY <2>1, <3>1, <3>2 DEF Drops
      <4> QED BY <2>1, <2>3, <3>1, <4>1
    <3>3. CASE 1 < j
      <4>1. n < m
        BY <2>2, <3>1, <3>3, PlacesAre DEF SentInOrder, Ordered
      <4> QED BY <2>3, <3>1, <4>1
    <3> QED BY <3>2, <3>3
  <2>5. Channel!Leave
    BY <2>2, <2>4 DEF Channel!Leave
  <2> QED BY <1>2, <2>5 DEF ChannelStep, Channel!Next
<1> QED BY <1>1, <1>3, <1>4

\* UDP sends a packet.
LEMMA DownEnters ==
    ASSUME IpTypeOK, SentInOrder, DownRises', UNCHANGED UdpFrames(sent),
           handed'["UDP"] = handed["UDP"] + 1,
           Places'[8] = Places[8] \cup {handed["UDP"] + 1},
           \A k \in 1 .. 7 : Places'[k] = Places[k]
    PROVE  SentInOrder' /\ ChannelStep
<1> DEFINE n == handed["UDP"] + 1
<1>1. n \in Nat /\ handed["UDP"] \in Nat
  BY SentBounds
<1>2. \A k \in 1 .. 8 : \A a \in Places[k] : a \in Nat /\ 1 <= a /\ a < n /\ a <= n
  BY <1>1, SentBounds
<1>3. Leaving' = Leaving \cup {n}
  <2>1. \A k \in 1 .. 8 : k = 8 \/ k \in 1 .. 7
    OBVIOUS
  <2>2. \A k \in 1 .. 8 : Places[k] \subseteq Places'[k]
    BY <2>1
  <2>3. \A k \in 1 .. 8 : Places'[k] \subseteq Places[k] \cup {n}
    BY <2>1
  <2>4. n \in Places'[8] /\ 8 \in 1 .. 8
    OBVIOUS
  <2> HIDE DEF n
  <2> QED BY <2>2, <2>3, <2>4, LeavingIs
<1>4. Channel!Offer
  BY <1>3 DEF Channel!Offer
<1>5. Ordered(Places')
  <2>1. PICK S, T, X : S = Places /\ T = Places' /\ X = {n}
    OBVIOUS
  <2>2. /\ Ordered(S) /\ DOMAIN S \subseteq Nat /\ 8 \in DOMAIN S
        /\ \A k \in DOMAIN S : k <= 8 /\ \A a \in S[k], b \in X : a < b
        /\ DOMAIN T = DOMAIN S /\ T[8] = S[8] \cup X
        /\ \A k \in DOMAIN S \ {8} : T[k] = S[k]
    BY <1>2, <2>1, PlacesAre, PlacesAreNext DEF SentInOrder
  <2>3. Ordered(T)
    BY <2>2, EntryOrdered
  <2> QED BY <2>1, <2>3
<1>6. \A k \in 1 .. 8 : Place(k)' \subseteq 1 .. handed'["UDP"]
  <2>1. \A k \in 1 .. 8 : Places'[k] \subseteq 1 .. n
    BY <1>1, <1>2
  <2> QED BY <2>1 DEF Places
<1>7. Ordered(Places)'
  BY <1>5 DEF Ordered
<1> QED BY <1>4, <1>6, <1>7 DEF SentInOrder, DownRises, ChannelStep, Channel!Next

\* The pipes a packet comes down through.
LEMMA DownPipeIs ==
    ASSUME IpTypeOK, SentInOrder, NEW f \in DownPipes
    PROVE  /\ f \in Fifo /\ DownKind(f) \in Kinds
           /\ fifo[f] \in Seq(Numbered(DownKind(f)))
           /\ Rising(DownKind(f), fifo[f])
<1>1. PipesOK
  BY DEF IpTypeOK
<1>2. CASE f \in {"mux2ether", "ip2mux"}
  <2>1. DownKind(f) = "frame"
    BY <1>2 DEF DownKind
  <2> QED BY <1>1, <1>2, <2>1, PipeNumbered DEF SentInOrder, Kinds, Numbered
<1>3. CASE f \in {"ipmux2ip", "udp2ipmux"}
  <2>1. DownKind(f) = "packet"
    BY <1>3 DEF DownKind
  <2> QED BY <1>1, <1>3, <2>1, PipeNumbered DEF SentInOrder, Kinds, Numbered
<1> QED BY <1>2, <1>3 DEF DownPipes

LEMMA SameRises ==
    ASSUME SentInOrder, \A f \in DownPipes : fifo'[f] = fifo[f]
    PROVE  DownRises'
<1>1. \A f \in DownPipes : Rising(DownKind(f), fifo'[f])
  BY DEF SentInOrder
<1> QED BY <1>1 DEF DownRises, Rising, Number

\* The pipe f lost its first message.
LEMMA DownTake ==
    ASSUME IpTypeOK, SentInOrder, NEW f \in DownPipes, fifo[f] # <<>>,
           fifo'[f] = Tail(fifo[f]),
           \A g \in DownPipes \ {f} : fifo'[g] = fifo[g]
    PROVE  LET kind == DownKind(f)
               X == Number(kind, Head(fifo[f])) IN
             /\ DownRises'
             /\ X \subseteq Numbers(kind, Range(fifo[f]))
             /\ Numbers(kind, Range(fifo'[f])) = Numbers(kind, Range(fifo[f])) \ X
             /\ \A a \in X, b \in Numbers(kind, Range(fifo'[f])) : a < b
             /\ \A a, b \in X : a = b
<1> DEFINE kind == DownKind(f)
           h == Head(fifo[f])
<1>1. kind \in Kinds /\ fifo[f] \in Seq(Numbered(kind)) /\ Rising(kind, fifo[f])
  BY DownPipeIs
<1>2. h \in Numbered(kind)
  BY <1>1, HeadTailProperties
<1> HIDE DEF kind
<1>3. /\ Rising(kind, fifo'[f])
      /\ Number(kind, h) \subseteq Numbers(kind, Range(fifo[f]))
      /\ Numbers(kind, Range(fifo'[f])) = Numbers(kind, Range(fifo[f])) \ Number(kind, h)
      /\ \A a \in Number(kind, h), b \in Numbers(kind, Range(fifo'[f])) : a < b
  BY <1>1, TakeNumber
<1>4. \A g \in DownPipes : Rising(DownKind(g), fifo'[g])
  BY <1>3 DEF SentInOrder, kind
<1>5. DownRises'
  BY <1>4 DEF DownRises, Rising, Number
<1>6. \A a, b \in Number(kind, h) : a = b
  BY <1>1, <1>2, OneNumber
<1> QED BY <1>3, <1>5, <1>6 DEF kind

\* A message was appended to the pipe f.
LEMMA DownPut ==
    ASSUME IpTypeOK, SentInOrder, NEW f \in DownPipes, NEW x \in Numbered(DownKind(f)),
           \A a \in Numbers(DownKind(f), Range(fifo[f])), b \in Number(DownKind(f), x) : a < b,
           fifo'[f] = Append(fifo[f], x),
           \A g \in DownPipes \ {f} : fifo'[g] = fifo[g]
    PROVE  /\ DownRises'
           /\ Numbers(DownKind(f), Range(fifo'[f]))
                = Numbers(DownKind(f), Range(fifo[f])) \cup Number(DownKind(f), x)
<1> DEFINE kind == DownKind(f)
<1>1. fifo[f] \in Seq(Numbered(kind)) /\ Rising(kind, fifo[f])
  BY DownPipeIs
<1>2. /\ Rising(kind, fifo'[f])
      /\ Numbers(kind, Range(fifo'[f])) = Numbers(kind, Range(fifo[f])) \cup Number(kind, x)
  <2> HIDE DEF kind
  <2>1. \A a \in Numbers(kind, Range(fifo[f])), b \in Number(kind, x) : a < b
    BY DEF kind
  <2>2. x \in Numbered(kind)
    BY DEF kind
  <2> QED BY <1>1, <2>1, <2>2, AppendNumber
<1>3. \A g \in DownPipes : Rising(DownKind(g), fifo'[g])
  BY <1>2 DEF SentInOrder
<1>4. DownRises'
  BY <1>3 DEF DownRises, Rising, Number
<1> QED BY <1>2, <1>4

\* A mux reads the pipe f, of place k + 1, and has the message to write, in place k.
LEMMA CollectsInOrder ==
    ASSUME IpTypeOK, SentInOrder, UNCHANGED <<handed["UDP"], UdpFrames(sent)>>,
           NEW f \in DownPipes, fifo[f] # <<>>, fifo'[f] = Tail(fifo[f]),
           \A g \in DownPipes \ {f} : fifo'[g] = fifo[g],
           NEW k \in 1 .. 7, NEW n, n = k + 1,
           Places[n] = Numbers(DownKind(f), Range(fifo[f])),
           Places'[n] = Numbers(DownKind(f), Range(fifo'[f])),
           Places[k] = {}, Places'[k] = Number(DownKind(f), Head(fifo[f])),
           \A j \in (1 .. 8) \ {k, n} : Places'[j] = Places[j]
    PROVE  SentInOrder' /\ ChannelStep
<1>1. PICK X : X = Number(DownKind(f), Head(fifo[f]))
  OBVIOUS
<1>2. /\ DownRises' /\ X \subseteq Places[k + 1] /\ Places'[k + 1] = Places[k + 1] \ X
      /\ \A a \in X, b \in Places'[k + 1] : a < b
  <2>1. /\ DownRises' /\ X \subseteq Numbers(DownKind(f), Range(fifo[f]))
        /\ Numbers(DownKind(f), Range(fifo'[f])) = Numbers(DownKind(f), Range(fifo[f])) \ X
        /\ \A a \in X, b \in Numbers(DownKind(f), Range(fifo'[f])) : a < b
    BY <1>1, DownTake
  <2> QED BY <2>1
<1>3. k \in 1 .. 8 /\ k + 1 \in 1 .. 8
  OBVIOUS
<1>4. Shifts(Places, Places', k, X)
  BY <1>1, <1>2, <1>3, PlacesAre, PlacesAreNext DEF Shifts
<1> QED BY <1>2, <1>4, DownShift

\* The message x, in place k + 1, is written to the pipe f of place k.
LEMMA SendsInOrder ==
    ASSUME IpTypeOK, SentInOrder, UNCHANGED <<handed["UDP"], UdpFrames(sent)>>,
           NEW f \in DownPipes, NEW x \in Numbered(DownKind(f)),
           fifo'[f] = Append(fifo[f], x),
           \A g \in DownPipes \ {f} : fifo'[g] = fifo[g],
           NEW k \in 1 .. 7, NEW n, n = k + 1,
           Places[k] = Numbers(DownKind(f), Range(fifo[f])),
           Places'[k] = Numbers(DownKind(f), Range(fifo'[f])),
           Places[n] = Number(DownKind(f), x), Places'[n] = {},
           \A j \in (1 .. 8) \ {k, n} : Places'[j] = Places[j]
    PROVE  SentInOrder' /\ ChannelStep
<1>1. PICK X : X = Number(DownKind(f), x)
  OBVIOUS
<1>2. k \in 1 .. 8 /\ k + 1 \in 1 .. 8 /\ k < k + 1
  OBVIOUS
<1>3. \A a \in Places[k], b \in X : a < b
  BY <1>1, <1>2, PlacesAre DEF SentInOrder, Ordered
<1>4. \A a \in Numbers(DownKind(f), Range(fifo[f])), b \in Number(DownKind(f), x) : a < b
  BY <1>1, <1>3
<1>5. DownRises' /\ Places'[k] = Places[k] \cup X
  BY <1>1, <1>4, DownPut
<1>6. X \subseteq Places[k + 1] /\ Places'[k + 1] = Places[k + 1] \ X
      /\ \A a \in X, b \in Places'[k + 1] : a < b
  BY <1>1
<1>7. Shifts(Places, Places', k, X)
  BY <1>2, <1>5, <1>6, PlacesAre, PlacesAreNext DEF Shifts
<1> QED BY <1>5, <1>7, DownShift

\* Process m writes the message of place n to the pipe f of place k.
LEMMA WritesInOrder ==
    ASSUME IpTypeOK, FewMessages, SentInOrder,
           UNCHANGED <<handed["UDP"], UdpFrames(sent)>>,
           NEW m \in Process \ {"arp"}, Send(m), NEW f \in DownPipes,
           \A e \in Sends(m) : e.to \in DownPipes => e.to = f,
           MessageOf(f) \subseteq Numbered(DownKind(f)),
           NEW k \in 1 .. 7, NEW n, n = k + 1,
           Places[k] = Numbers(DownKind(f), Range(fifo[f])),
           Places'[k] = Numbers(DownKind(f), Range(fifo'[f])),
           Places[n] = Numbers(DownKind(f), ToWrite(m, f)),
           Places'[n] = Numbers(DownKind(f), ToWrite(m, f)'),
           (\A g \in DownPipes \ {f} : fifo'[g] = fifo[g])
             => \A j \in (1 .. 8) \ {k, n} : Places'[j] = Places[j]
    PROVE  SentInOrder' /\ ChannelStep
<1> DEFINE e == Head(out[m])
           x == e.msg
<1>1. ASSUME NEW h \in Fifo
      PROVE  /\ e \in Sends(m) /\ x \in MessageOf(e.to)
             /\ ToWrite(m, h) = IF e.to = h THEN {x} ELSE {}
             /\ ToWrite(m, h)' = {}
             /\ fifo'[h] = IF e.to = h THEN Append(fifo[h], x) ELSE fifo[h]
  BY WritesOne
<1>2. f \in Fifo /\ DownPipes \subseteq Fifo
  BY DEF Fifo, DownPipes
<1>3. e \in Sends(m) /\ x \in MessageOf(e.to)
  BY <1>1, <1>2
<1>4. e.to \in DownPipes => e.to = f
  BY <1>3
<1> HIDE DEF e, x
<1>5. \A g \in DownPipes \ {f} : fifo'[g] = fifo[g]
  BY <1>1, <1>2, <1>4
<1>6. CASE e.to = f
  <2>1. /\ fifo'[f] = Append(fifo[f], x) /\ ToWrite(m, f) = {x} /\ ToWrite(m, f)' = {}
        /\ x \in Numbered(DownKind(f))
    BY <1>1, <1>2, <1>3, <1>6
  <2>2. Places[n] = Number(DownKind(f), x) /\ Places'[n] = {}
    BY <2>1, FewNumbers
  <2> QED BY <1>5, <2>1, <2>2, SendsInOrder
<1>7. CASE e.to # f
  <2>1. /\ fifo'[f] = fifo[f] /\ ToWrite(m, f) = {} /\ ToWrite(m, f)' = {}
    BY <1>1, <1>2, <1>7
  <2>2. \A g \in DownPipes : fifo'[g] = fifo[g]
    BY <1>5, <2>1
  <2>3. \A j \in 1 .. 8 : Places'[j] = Places[j]
    BY <1>5, <2>1
  <2> QED BY <2>2, <2>3, SameRises, DownQuiet
<1> QED BY <1>6, <1>7

\* What is not changed: pipes, what three processes have to write, the packet asked for.
LEMMA SamePlaces ==
    /\ fifo'["mux2ether"] = fifo["mux2ether"] => Places'[1] = Places[1]
    /\ ToWrite("ethermux", "mux2ether")' = ToWrite("ethermux", "mux2ether")
         => Places'[2] = Places[2]
    /\ fifo'["ip2mux"] = fifo["ip2mux"] => Places'[3] = Places[3]
    /\ ToWrite("ip", "ip2mux")' = ToWrite("ip", "ip2mux") => Places'[4] = Places[4]
    /\ asking' = asking => Places'[5] = Places[5]
    /\ fifo'["ipmux2ip"] = fifo["ipmux2ip"] => Places'[6] = Places[6]
    /\ ToWrite("ipmux", "ipmux2ip")' = ToWrite("ipmux", "ipmux2ip") => Places'[7] = Places[7]
    /\ fifo'["udp2ipmux"] = fifo["udp2ipmux"] => Places'[8] = Places[8]
  BY PlacesAre, PlacesAreNext

LEMMA EightPlaces == \A k \in 1 .. 8 : k \in {1, 2, 3, 4, 5, 6, 7, 8}
  OBVIOUS

\* A step that touches no pipe on the way down and none of the three processes.
LEMMA ElsewhereInOrder ==
    ASSUME IpTypeOK, SentInOrder, UNCHANGED <<asking, handed["UDP"], UdpFrames(sent)>>,
           \A f \in DownPipes : fifo'[f] = fifo[f],
           ToWrite("ethermux", "mux2ether")' = ToWrite("ethermux", "mux2ether"),
           ToWrite("ip", "ip2mux")' = ToWrite("ip", "ip2mux"),
           ToWrite("ipmux", "ipmux2ip")' = ToWrite("ipmux", "ipmux2ip")
    PROVE  SentInOrder' /\ ChannelStep
<1>1. \A k \in 1 .. 8 : Places'[k] = Places[k]
  BY SamePlaces, EightPlaces DEF DownPipes
<1> QED BY <1>1, SameRises, DownQuiet

----------------------------------------------------------------------------
(* Process by process *)

LEMMA DriverInOrder ==
    ASSUME IpTypeOK, SentInOrder, Driver
    PROVE  SentInOrder' /\ ChannelStep
<1>1. PipesOK /\ "driver" \in Process
  BY DEF IpTypeOK, Process
<1>2. /\ out'["ethermux"] = out["ethermux"] /\ out'["ip"] = out["ip"]
      /\ out'["ipmux"] = out["ipmux"] /\ UNCHANGED <<asking, handed>>
  BY StepTouches DEF Touches, Process
<1>3. /\ ToWrite("ethermux", "mux2ether")' = ToWrite("ethermux", "mux2ether")
      /\ ToWrite("ip", "ip2mux")' = ToWrite("ip", "ip2mux")
      /\ ToWrite("ipmux", "ipmux2ip")' = ToWrite("ipmux", "ipmux2ip")
  BY <1>2, SameToWrite
<1>4. CASE DriverReads
  <2>1. PICK sends : Receive("driver", "pcap", sends) /\ UNCHANGED sent
    BY <1>4 DEF DriverReads
  <2>2. Touches("driver", {"pcap"})
    BY <1>1, <2>1, Receives DEF Fifo
  <2>3. \A f \in DownPipes : fifo'[f] = fifo[f]
    BY <2>2 DEF Touches, DownPipes, Fifo
  <2>4. UdpFrames(sent)' = UdpFrames(sent)
    BY <2>1 DEF UdpFrames, UdpPackets
  <2> QED BY <1>2, <1>3, <2>3, <2>4, ElsewhereInOrder
<1>5. CASE DriverWrites
  <2> DEFINE raw == Head(fifo["mux2ether"])
             X == Number("frame", raw)
  <2>1. /\ fifo["mux2ether"] # <<>> /\ Receive("driver", "mux2ether", <<>>)
        /\ "mux2ether" \in DownPipes /\ DownKind("mux2ether") = "frame"
        /\ sent' = IF MaySend(raw) THEN sent \cup {raw} ELSE sent
    BY <1>5 DEF DriverWrites, GetNextEvent, DownPipes, DownKind
  <2>2. /\ Touches("driver", {"mux2ether"})
        /\ fifo'["mux2ether"] = Tail(fifo["mux2ether"])
    BY <1>1, <2>1, Receives DEF Fifo
  <2>3. \A g \in DownPipes \ {"mux2ether"} : fifo'[g] = fifo[g]
    BY <2>2 DEF Touches, DownPipes, Fifo
  <2>4. /\ DownRises' /\ X \subseteq Numbers("frame", Range(fifo["mux2ether"]))
        /\ Numbers("frame", Range(fifo'["mux2ether"]))
             = Numbers("frame", Range(fifo["mux2ether"])) \ X
        /\ \A a \in X, b \in Numbers("frame", Range(fifo'["mux2ether"])) : a < b
        /\ \A a, b \in X : a = b
    BY <2>1, <2>2, <2>3, DownTake
  <2> HIDE DEF raw
  <2>5. \A j \in (1 .. 8) \ {1} : Places'[j] = Places[j]
    BY <1>2, <1>3, <2>3, SamePlaces, EightPlaces DEF DownPipes
  <2>6. /\ X \subseteq Places[1] /\ Places'[1] = Places[1] \ X
        /\ \A a \in X, b \in Places'[1] : a < b
    BY <2>4, PlacesAre, PlacesAreNext
  <2>7. CASE MaySend(raw)
    <3>1. UdpFrames(sent)' = UdpFrames(sent) \cup X
      <4>1. sent' = sent \cup {raw}
        BY <2>1, <2>7
      <4>2. Numbers("frame", sent \cup {raw}) = Numbers("frame", sent) \cup Numbers("frame", {raw})
        BY SomeNumbers
      <4>3. UdpFrames(sent') = UdpFrames(sent) \cup X
        BY <4>1, <4>2, NumbersOf, FewNumbers
      <4> QED BY <4>3 DEF UdpFrames, UdpPackets
    <3> HIDE DEF X
    <3>2. Drops(Places, Places', 1, X)
      BY <2>4, <2>5, <2>6, PlacesAre, PlacesAreNext DEF Drops
    <3> QED BY <1>2, <2>4, <2>6, <3>1, <3>2, DownLeaves
  <2>8. CASE ~ MaySend(raw)
    <3>1. UdpFrames(sent)' = UdpFrames(sent)
      BY <2>1, <2>8 DEF UdpFrames, UdpPackets
    <3> HIDE DEF X
    <3>2. Drops(Places, Places', 1, X)
      BY <2>4, <2>5, <2>6, PlacesAre, PlacesAreNext DEF Drops
    <3> QED BY <1>2, <2>4, <3>1, <3>2, DownLoses
  <2> QED BY <2>7, <2>8
<1>6. CASE Send("driver") /\ UNCHANGED sent
  <2>1. Head(out["driver"]).to = "ether2mux"
    BY <1>1, <1>6, Writes DEF Sends, SendTo
  <2>2. Touches("driver", {"ether2mux"})
    BY <1>1, <1>6, <2>1, Writes
  <2>3. \A f \in DownPipes : fifo'[f] = fifo[f]
    BY <2>2 DEF Touches, DownPipes, Fifo
  <2>4. UdpFrames(sent)' = UdpFrames(sent)
    BY <1>6 DEF UdpFrames, UdpPackets
  <2> QED BY <1>2, <1>3, <2>3, <2>4, ElsewhereInOrder
<1> QED BY <1>4, <1>5, <1>6 DEF Driver, DriverNext

LEMMA EtherMuxInOrder ==
    ASSUME IpTypeOK, FewMessages, SentInOrder, EtherMux
    PROVE  SentInOrder' /\ ChannelStep
<1>1. PipesOK /\ "ethermux" \in Process /\ "ethermux" \in Process \ {"arp"}
  BY DEF IpTypeOK, Process
<1>2. /\ out'["ip"] = out["ip"] /\ out'["ipmux"] = out["ipmux"]
      /\ UNCHANGED <<asking, handed, sent>>
  BY StepTouches DEF Touches, Process
<1>3. /\ ToWrite("ip", "ip2mux")' = ToWrite("ip", "ip2mux")
      /\ ToWrite("ipmux", "ipmux2ip")' = ToWrite("ipmux", "ipmux2ip")
      /\ UdpFrames(sent)' = UdpFrames(sent)
  BY <1>2, SameToWrite DEF UdpFrames, UdpPackets
<1>4. CASE EtherMuxDispatches
  <2> DEFINE raw == Head(fifo["ether2mux"])
             g == EtherMuxPipe(raw.protocoltype)
  <2>1. /\ out["ethermux"] = <<>>
        /\ Receive("ethermux", "ether2mux", <<[to |-> g, msg |-> raw]>>)
    BY <1>4 DEF EtherMuxDispatches, GetNextEvent
  <2>2. g # "mux2ether"
    BY DEF EtherMuxPipe
  <2> HIDE DEF raw, g
  <2>3. /\ Touches("ethermux", {"ether2mux"})
        /\ out'["ethermux"] = <<[to |-> g, msg |-> raw]>>
    BY <1>1, <2>1, Receives DEF Fifo
  <2>4. \A f \in DownPipes : fifo'[f] = fifo[f]
    BY <2>3 DEF Touches, DownPipes, Fifo
  <2>5. ToWrite("ethermux", "mux2ether")' = ToWrite("ethermux", "mux2ether")
    BY <2>1, <2>2, <2>3, LeavesOne
  <2> QED BY <1>2, <1>3, <2>4, <2>5, ElsewhereInOrder
<1>5. CASE EtherMuxCollects
  <2>1. PICK f \in {"arp2mux", "ip2mux"} : \E raw :
               /\ out["ethermux"] = <<>> /\ fifo[f] # <<>> /\ raw = Head(fifo[f])
               /\ Receive("ethermux", f, <<[to |-> "mux2ether", msg |-> raw]>>)
    BY <1>5 DEF EtherMuxCollects, GetNextEvent
  <2> PICK raw :
               /\ out["ethermux"] = <<>> /\ fifo[f] # <<>> /\ raw = Head(fifo[f])
               /\ Receive("ethermux", f, <<[to |-> "mux2ether", msg |-> raw]>>)
    BY <2>1
  <2>2. f \in Fifo
    BY DEF Fifo
  <2>3. /\ Touches("ethermux", {f}) /\ fifo'[f] = Tail(fifo[f])
        /\ out'["ethermux"] = <<[to |-> "mux2ether", msg |-> raw]>>
    BY <1>1, <2>1, <2>2, Receives
  <2>4. /\ ToWrite("ethermux", "mux2ether") = {}
        /\ ToWrite("ethermux", "mux2ether")' = {raw}
    BY <2>1, <2>3, LeavesOne
  <2>5. Places[2] = {} /\ Places'[2] = Number("frame", raw)
    <3>1. /\ Numbers("frame", ToWrite("ethermux", "mux2ether")) = {}
          /\ Numbers("frame", ToWrite("ethermux", "mux2ether")') = Number("frame", raw)
      BY <2>4, FewNumbers
    <3> QED BY <3>1, PlacesAre, PlacesAreNext
  <2>6. \A g \in DownPipes \ {f} : fifo'[g] = fifo[g]
    BY <2>3 DEF Touches, DownPipes, Fifo
  <2>7. CASE f = "ip2mux"
    <3>1. f \in DownPipes /\ DownKind(f) = "frame"
      BY <2>7 DEF DownPipes, DownKind
    <3>2. \A j \in (1 .. 8) \ {2, 3} : Places'[j] = Places[j]
      BY <1>2, <1>3, <2>6, <2>7, SamePlaces, EightPlaces DEF DownPipes
    <3>3. /\ Places[3] = Numbers("frame", Range(fifo[f]))
          /\ Places'[3] = Numbers("frame", Range(fifo'[f]))
      BY <2>7, PlacesAre, PlacesAreNext
    <3>4. 2 \in 1 .. 7 /\ 3 = 2 + 1
      OBVIOUS
    <3>5. Places'[2] = Number(DownKind(f), Head(fifo[f]))
      BY <2>1, <2>5, <3>1
    <3> QED BY <1>2, <1>3, <2>1, <2>3, <2>5, <2>6, <3>1, <3>2, <3>3, <3>4, <3>5,
               CollectsInOrder
  <2>8. CASE f = "arp2mux"
    <3>1. raw.protocoltype = "PROTO_ARP"
      BY <1>1, <2>1, <2>2, <2>8, HeadType DEF MessageOf, Carrying
    <3>2. Number("frame", raw) = {}
      BY <3>1, NumberOf
    <3>3. \A g \in DownPipes : fifo'[g] = fifo[g]
      BY <2>6, <2>8 DEF DownPipes
    <3>4. \A j \in 1 .. 8 : Places'[j] = Places[j]
      BY <1>2, <1>3, <2>5, <3>2, <3>3, SamePlaces, EightPlaces DEF DownPipes
    <3> QED BY <1>2, <1>3, <3>3, <3>4, SameRises, DownQuiet
  <2> QED BY <2>7, <2>8
<1>6. CASE Send("ethermux")
  <2>1. /\ "mux2ether" \in DownPipes /\ DownKind("mux2ether") = "frame"
        /\ \A e \in Sends("ethermux") : e.to \in DownPipes => e.to = "mux2ether"
    BY DEF DownPipes, DownKind, Sends, SendTo
  <2>2. MessageOf("mux2ether") \subseteq Numbered(DownKind("mux2ether"))
    BY <2>1 DEF MessageOf, Numbered
  <2>3. /\ Places[1] = Numbers(DownKind("mux2ether"), Range(fifo["mux2ether"]))
        /\ Places'[1] = Numbers(DownKind("mux2ether"), Range(fifo'["mux2ether"]))
        /\ Places[2] = Numbers(DownKind("mux2ether"), ToWrite("ethermux", "mux2ether"))
        /\ Places'[2] = Numbers(DownKind("mux2ether"), ToWrite("ethermux", "mux2ether")')
    BY <2>1, PlacesAre, PlacesAreNext
  <2>4. (\A g \in DownPipes \ {"mux2ether"} : fifo'[g] = fifo[g])
          => \A j \in (1 .. 8) \ {1, 2} : Places'[j] = Places[j]
    BY <1>2, <1>3, SamePlaces, EightPlaces DEF DownPipes
  <2>5. 1 \in 1 .. 7 /\ 2 = 1 + 1 /\ UNCHANGED <<handed["UDP"], UdpFrames(sent)>>
    BY <1>2, <1>3
  <2> QED BY <1>1, <1>6, <2>1, <2>2, <2>3, <2>4, <2>5, WritesInOrder
<1> QED BY <1>4, <1>5, <1>6 DEF EtherMux, EtherMuxNext

\* The packet that is asked for.
LEMMA AskedPacket ==
    /\ asking = <<>> => Places[5] = {}
    /\ asking' = <<>> => Places'[5] = {}
    /\ \A a : asking' = <<a>> => Places'[5] = Number("packet", a.packet)
    /\ IpTypeOK /\ asking # <<>> => Places[5] = Number("packet", asking[1].packet)
<1>1. DOMAIN <<>> = {}
  OBVIOUS
<1>2. asking = <<>> => Places[5] = {}
  BY <1>1, PlacesAre, FewNumbers
<1>3. asking' = <<>> => Places'[5] = {}
  BY <1>1, PlacesAreNext, FewNumbers
<1>4. ASSUME NEW a, asking' = <<a>>
      PROVE  Places'[5] = Number("packet", a.packet)
  <2>1. DOMAIN asking' = {1} /\ asking'[1] = a
    BY <1>4
  <2>2. {asking'[i].packet : i \in DOMAIN asking'} = {a.packet}
    BY <2>1
  <2> QED BY <2>2, PlacesAreNext, FewNumbers
<1>5. ASSUME IpTypeOK, asking # <<>>
      PROVE  Places[5] = Number("packet", asking[1].packet)
  <2>1. DOMAIN asking = {1}
    <3> DEFINE n == Len(asking)
    <3>1. /\ asking \in Seq([packet : Packet, known : EthernetAddr]) /\ n <= 1
          /\ n \in Nat \ {0}
      BY <1>5, EmptySeq DEF IpTypeOK
    <3>2. DOMAIN asking = 1 .. n
      BY <3>1
    <3> HIDE DEF n
    <3>3. n = 1
      BY <3>1
    <3> QED BY <3>2, <3>3
  <2>2. {asking[i].packet : i \in DOMAIN asking} = {asking[1].packet}
    BY <2>1
  <2> QED BY <2>2, PlacesAre, FewNumbers
<1> QED BY <1>2, <1>3, <1>4, <1>5

\* The IP module asks for a packet that came from the IP mux.
LEMMA IpSendsInOrder ==
    ASSUME IpTypeOK, SentInOrder, UNCHANGED <<handed["UDP"], UdpFrames(sent)>>,
           IpSends(Known), out'["ethermux"] = out["ethermux"],
           out'["ipmux"] = out["ipmux"]
    PROVE  SentInOrder' /\ ChannelStep
<1> DEFINE p == Head(fifo["ipmux2ip"])
<1>1. /\ PipesOK /\ "ip" \in Process /\ "ipmux2ip" \in Fifo /\ "ipmux2ip" \in DownPipes
      /\ DownKind("ipmux2ip") = "packet"
  BY DEF IpTypeOK, Process, Fifo, DownPipes, DownKind
<1>2. /\ asking = <<>> /\ out["ip"] = <<>> /\ fifo["ipmux2ip"] # <<>>
      /\ SendPacket("ipmux2ip", p, Known[p.dest])
  BY DEF IpSends, IpGetNextEvent, GetNextEvent
<1>3. PICK a, q : /\ asking' = <<a>> /\ a.packet = p
                  /\ Receive("ip", "ipmux2ip", <<[to |-> "ip2arp", msg |-> q]>>)
  BY <1>2 DEF SendPacket
<1> HIDE DEF p
<1>4. /\ Touches("ip", {"ipmux2ip"}) /\ fifo'["ipmux2ip"] = Tail(fifo["ipmux2ip"])
      /\ out'["ip"] = <<[to |-> "ip2arp", msg |-> q]>>
  BY <1>1, <1>3, Receives
<1>5. \A g \in DownPipes \ {"ipmux2ip"} : fifo'[g] = fifo[g]
  BY <1>4 DEF Touches, DownPipes, Fifo
<1>6. ToWrite("ip", "ip2mux")' = ToWrite("ip", "ip2mux")
  <2>1. /\ ToWrite("ip", "ip2mux") = {}
        /\ ToWrite("ip", "ip2mux")' = IF "ip2arp" = "ip2mux" THEN {q} ELSE {}
    BY <1>2, <1>4, LeavesOne
  <2> QED BY <2>1
<1>7. /\ ToWrite("ethermux", "mux2ether")' = ToWrite("ethermux", "mux2ether")
      /\ ToWrite("ipmux", "ipmux2ip")' = ToWrite("ipmux", "ipmux2ip")
  BY SameToWrite
<1>8. \A j \in (1 .. 8) \ {5, 6} : Places'[j] = Places[j]
  BY <1>5, <1>6, <1>7, SamePlaces, EightPlaces DEF DownPipes
<1>9. Places[5] = {} /\ Places'[5] = Number(DownKind("ipmux2ip"), Head(fifo["ipmux2ip"]))
  BY <1>1, <1>2, <1>3, AskedPacket DEF p
<1>10. /\ Places[6] = Numbers(DownKind("ipmux2ip"), Range(fifo["ipmux2ip"]))
       /\ Places'[6] = Numbers(DownKind("ipmux2ip"), Range(fifo'["ipmux2ip"]))
  BY <1>1, PlacesAre, PlacesAreNext
<1>11. 5 \in 1 .. 7 /\ 6 = 5 + 1
  OBVIOUS
<1> QED BY <1>1, <1>2, <1>4, <1>5, <1>8, <1>9, <1>10, <1>11, CollectsInOrder

\* The answer comes: the packet becomes a frame, or is lost.
LEMMA IpHearsArpInOrder ==
    ASSUME IpTypeOK, SentInOrder, UNCHANGED <<handed["UDP"], UdpFrames(sent)>>,
           IpHearsArp, out'["ethermux"] = out["ethermux"],
           out'["ipmux"] = out["ipmux"]
    PROVE  SentInOrder' /\ ChannelStep
<1> DEFINE p == asking[1].packet
           r == Head(fifo["arp2ip"])
           raw == Frame(MyEthernetAddr, r.ethernetaddr, "PROTO_IP", p)
           X == Number("packet", p)
<1>1. /\ asking # <<>> /\ asking' = <<>> /\ out["ip"] = <<>>
      /\ \/ Receive("ip", "arp2ip", <<[to |-> "ip2mux", msg |-> raw]>>)
         \/ Receive("ip", "arp2ip", <<>>)
  BY DEF IpHearsArp
<1>2. PipesOK /\ "ip" \in Process /\ "arp2ip" \in Fifo /\ p \in Packet
  BY <1>1, AskingType DEF IpTypeOK, Process, Fifo
<1>3. Number("frame", raw) = X
  <2>1. raw.protocoltype = "PROTO_IP" /\ raw.payload = p
    BY DEF Frame
  <2> HIDE DEF raw
  <2>2. ASSUME NEW n PROVE n \in Number("frame", raw) <=> n \in X
    BY <2>1, NumberOf
  <2> QED BY <2>2
<1>4. Places[5] = X /\ Places'[5] = {}
  BY <1>1, AskedPacket
<1> HIDE DEF p, r, raw
<1>5. /\ Touches("ip", {"arp2ip"})
      /\ out'["ip"] \in {<<[to |-> "ip2mux", msg |-> raw]>>, <<>>}
  BY <1>1, <1>2, Receives
<1>6. \A g \in DownPipes : fifo'[g] = fifo[g]
  BY <1>5 DEF Touches, DownPipes, Fifo
<1>7. /\ ToWrite("ethermux", "mux2ether")' = ToWrite("ethermux", "mux2ether")
      /\ ToWrite("ipmux", "ipmux2ip")' = ToWrite("ipmux", "ipmux2ip")
  BY SameToWrite
<1>8. \A j \in (1 .. 8) \ {4, 5} : Places'[j] = Places[j]
  BY <1>6, <1>7, SamePlaces, EightPlaces DEF DownPipes
<1>9. DownRises'
  BY <1>6, SameRises
<1>10. CASE out'["ip"] = <<[to |-> "ip2mux", msg |-> raw]>>
  <2>1. ToWrite("ip", "ip2mux") = {} /\ ToWrite("ip", "ip2mux")' = {raw}
    BY <1>1, <1>10, LeavesOne
  <2>2. /\ Numbers("frame", ToWrite("ip", "ip2mux")) = {}
        /\ Numbers("frame", ToWrite("ip", "ip2mux")') = X
    BY <1>3, <2>1, FewNumbers
  <2>3. Places[4] = {} /\ Places'[4] = X
    BY <2>2, PlacesAre, PlacesAreNext
  <2> HIDE DEF X
  <2>4. PICK k : k = 4
    OBVIOUS
  <2>5. /\ k \in 1 .. 8 /\ k + 1 \in 1 .. 8 /\ Places[k] = {} /\ Places'[k] = X
        /\ Places[k + 1] = X /\ Places'[k + 1] = {}
        /\ \A j \in (1 .. 8) \ {k, k + 1} : Places'[j] = Places[j]
    BY <1>4, <1>8, <2>3, <2>4
  <2>6. Shifts(Places, Places', k, X)
    BY <2>5, PlacesAre, PlacesAreNext DEF Shifts
  <2> QED BY <1>9, <2>6, DownShift
<1>11. CASE out'["ip"] = <<>>
  <2>1. ToWrite("ip", "ip2mux") = {} /\ ToWrite("ip", "ip2mux")' = {}
    BY <1>1, <1>11, LeavesNone
  <2>2. Places'[4] = Places[4]
    BY <2>1, SamePlaces
  <2>3. \A a, b \in X : a = b
    BY <1>2, OneNumber DEF Kinds, Numbered
  <2> HIDE DEF X
  <2>4. \A j \in (1 .. 8) \ {5} : Places'[j] = Places[j]
    BY <1>8, <2>2
  <2>5. Drops(Places, Places', 5, X)
    BY <1>4, <2>3, <2>4, PlacesAre, PlacesAreNext DEF Drops
  <2> QED BY <1>9, <2>5, DownLoses
<1> QED BY <1>5, <1>10, <1>11

LEMMA IpInOrder ==
    ASSUME IpTypeOK, FewMessages, SentInOrder, Ip
    PROVE  SentInOrder' /\ ChannelStep
<1>1. PipesOK /\ "ip" \in Process /\ "ip" \in Process \ {"arp"} /\ "mux2ip" \in Fifo
  BY DEF IpTypeOK, Process, Fifo
<1>2. /\ out'["ethermux"] = out["ethermux"] /\ out'["ipmux"] = out["ipmux"]
      /\ UNCHANGED <<handed, sent>>
  BY StepTouches DEF Touches, Process
<1>3. /\ ToWrite("ethermux", "mux2ether")' = ToWrite("ethermux", "mux2ether")
      /\ ToWrite("ipmux", "ipmux2ip")' = ToWrite("ipmux", "ipmux2ip")
      /\ UdpFrames(sent)' = UdpFrames(sent)
  BY <1>2, SameToWrite DEF UdpFrames, UdpPackets
\* A packet that came up is ignored, delivered or refused.
<1>4. ASSUME NEW sends, Receive("ip", "mux2ip", sends), out["ip"] = <<>>,
             sends = <<>> \/ \E f, q : f # "ip2mux" /\ sends = <<[to |-> f, msg |-> q]>>,
             Places'[5] = Places[5]
      PROVE  SentInOrder' /\ ChannelStep
  <2>1. Touches("ip", {"mux2ip"}) /\ out'["ip"] = sends
    BY <1>1, <1>4, Receives
  <2>2. \A g \in DownPipes : fifo'[g] = fifo[g]
    BY <2>1 DEF Touches, DownPipes, Fifo
  <2>3. ToWrite("ip", "ip2mux")' = ToWrite("ip", "ip2mux")
    <3>1. CASE sends = <<>>
      <4>1. out["ip"] = <<>> /\ out'["ip"] = <<>>
        BY <1>4, <2>1, <3>1
      <4> QED BY <4>1, LeavesNone
    <3>2. CASE \E f, q : f # "ip2mux" /\ sends = <<[to |-> f, msg |-> q]>>
      <4>1. PICK f, q : f # "ip2mux" /\ sends = <<[to |-> f, msg |-> q]>>
        BY <3>2
      <4>2. out'["ip"] = <<[to |-> f, msg |-> q]>>
        BY <2>1, <4>1
      <4>3. /\ ToWrite("ip", "ip2mux") = {}
            /\ ToWrite("ip", "ip2mux")' = IF f = "ip2mux" THEN {q} ELSE {}
        BY <1>4, <4>2, LeavesOne
      <4> QED BY <4>1, <4>3
    <3> QED BY <1>4, <3>1, <3>2
  <2>4. \A k \in 1 .. 8 : Places'[k] = Places[k]
    BY <1>3, <1>4, <2>2, <2>3, SamePlaces, EightPlaces DEF DownPipes
  <2> QED BY <1>2, <1>3, <2>2, <2>4, SameRises, DownQuiet
<1>5. CASE IpIgnores
  <2>1. Receive("ip", "mux2ip", <<>>) /\ out["ip"] = <<>> /\ asking' = asking
    BY <1>5 DEF IpIgnores, IpGetNextEvent, GetNextEvent
  <2> QED BY <1>4, <2>1, SamePlaces
<1>6. CASE IpDelivers
  <2>1. PICK q : /\ Receive("ip", "mux2ip", <<[to |-> "ip2ipmux", msg |-> q]>>)
                 /\ out["ip"] = <<>> /\ asking' = asking
    BY <1>6 DEF IpDelivers, IpGetNextEvent, GetNextEvent
  <2> QED BY <1>4, <2>1, SamePlaces
<1>7. CASE IpRefuses(Known)
  <2>1. PICK p, a, q :
               /\ Receive("ip", "mux2ip", <<[to |-> "ip2arp", msg |-> q]>>)
               /\ out["ip"] = <<>> /\ asking = <<>> /\ asking' = <<a>>
               /\ a.packet = p /\ p.proto = "ICMP"
    <3> DEFINE pp == Head(fifo["mux2ip"]).payload
               e == ICMPErrorPacket(pp.src, ErrorFor(pp.condition), pp)
    <3>1. /\ SendPacket("mux2ip", e, Known[pp.src]) /\ out["ip"] = <<>> /\ asking = <<>>
      BY <1>7 DEF IpRefuses, IpGetNextEvent, GetNextEvent
    <3>2. e.proto = "ICMP"
      BY DEF ICMPErrorPacket
    <3> HIDE DEF e
    <3> QED BY <3>1, <3>2 DEF SendPacket
  <2>2. Number("packet", p) = {}
    BY <2>1, NumberOf
  <2>3. Places'[5] = Places[5]
    BY <2>1, <2>2, AskedPacket
  <2> QED BY <1>4, <2>1, <2>3
<1>8. CASE IpSends(Known)
  BY <1>2, <1>3, <1>8, IpSendsInOrder
<1>9. CASE IpHearsArp
  BY <1>2, <1>3, <1>9, IpHearsArpInOrder
<1>10. CASE Send("ip") /\ UNCHANGED asking
  <2>1. /\ "ip2mux" \in DownPipes /\ DownKind("ip2mux") = "frame"
        /\ \A e \in Sends("ip") : e.to \in DownPipes => e.to = "ip2mux"
    BY DEF DownPipes, DownKind, Sends, SendTo
  <2>2. MessageOf("ip2mux") \subseteq Numbered(DownKind("ip2mux"))
    BY <2>1 DEF MessageOf, Carrying, Numbered
  <2>3. /\ Places[3] = Numbers(DownKind("ip2mux"), Range(fifo["ip2mux"]))
        /\ Places'[3] = Numbers(DownKind("ip2mux"), Range(fifo'["ip2mux"]))
        /\ Places[4] = Numbers(DownKind("ip2mux"), ToWrite("ip", "ip2mux"))
        /\ Places'[4] = Numbers(DownKind("ip2mux"), ToWrite("ip", "ip2mux")')
    BY <2>1, PlacesAre, PlacesAreNext
  <2>4. (\A g \in DownPipes \ {"ip2mux"} : fifo'[g] = fifo[g])
          => \A j \in (1 .. 8) \ {3, 4} : Places'[j] = Places[j]
    BY <1>3, <1>10, SamePlaces, EightPlaces DEF DownPipes
  <2>5. 3 \in 1 .. 7 /\ 4 = 3 + 1 /\ UNCHANGED <<handed["UDP"], UdpFrames(sent)>>
    BY <1>2, <1>3
  <2> QED BY <1>1, <1>10, <2>1, <2>2, <2>3, <2>4, <2>5, WritesInOrder
<1> QED BY <1>5, <1>6, <1>7, <1>8, <1>9, <1>10 DEF Ip, IpNext

LEMMA IpMuxInOrder ==
    ASSUME IpTypeOK, FewMessages, SentInOrder, IpMux
    PROVE  SentInOrder' /\ ChannelStep
<1>1. PipesOK /\ "ipmux" \in Process /\ "ipmux" \in Process \ {"arp"}
  BY DEF IpTypeOK, Process
<1>2. /\ out'["ethermux"] = out["ethermux"] /\ out'["ip"] = out["ip"]
      /\ UNCHANGED <<asking, handed, sent>>
  BY StepTouches DEF Touches, Process
<1>3. /\ ToWrite("ethermux", "mux2ether")' = ToWrite("ethermux", "mux2ether")
      /\ ToWrite("ip", "ip2mux")' = ToWrite("ip", "ip2mux")
      /\ UdpFrames(sent)' = UdpFrames(sent)
  BY <1>2, SameToWrite DEF UdpFrames, UdpPackets
<1>4. UNCHANGED <<handed["UDP"], UdpFrames(sent)>>
  BY <1>2, <1>3
<1>5. CASE IpMuxDispatches
  <2> DEFINE p == Head(fifo["ip2ipmux"])
             g == IpMuxPipe(p.proto)
  <2>1. /\ out["ipmux"] = <<>>
        /\ Receive("ipmux", "ip2ipmux", <<[to |-> g, msg |-> p]>>)
    BY <1>5 DEF IpMuxDispatches, GetNextEvent
  <2>2. g # "ipmux2ip"
    BY DEF IpMuxPipe
  <2> HIDE DEF p, g
  <2>3. /\ Touches("ipmux", {"ip2ipmux"})
        /\ out'["ipmux"] = <<[to |-> g, msg |-> p]>>
    BY <1>1, <2>1, Receives DEF Fifo
  <2>4. \A f \in DownPipes : fifo'[f] = fifo[f]
    BY <2>3 DEF Touches, DownPipes, Fifo
  <2>5. ToWrite("ipmux", "ipmux2ip")' = ToWrite("ipmux", "ipmux2ip")
    BY <2>1, <2>2, <2>3, LeavesOne
  <2> QED BY <1>2, <1>3, <2>4, <2>5, ElsewhereInOrder
<1>6. CASE IpMuxCollects
  <2>1. PICK f \in {"udp2ipmux", "tcp2ipmux", "icmp2ipmux"} : \E p :
               /\ out["ipmux"] = <<>> /\ fifo[f] # <<>> /\ p = Head(fifo[f])
               /\ Receive("ipmux", f, <<[to |-> "ipmux2ip", msg |-> p]>>)
    BY <1>6 DEF IpMuxCollects, GetNextEvent
  <2> PICK p : /\ out["ipmux"] = <<>> /\ fifo[f] # <<>> /\ p = Head(fifo[f])
               /\ Receive("ipmux", f, <<[to |-> "ipmux2ip", msg |-> p]>>)
    BY <2>1
  <2>2. f \in Fifo
    BY DEF Fifo
  <2>3. /\ Touches("ipmux", {f}) /\ fifo'[f] = Tail(fifo[f])
        /\ out'["ipmux"] = <<[to |-> "ipmux2ip", msg |-> p]>>
    BY <1>1, <2>1, <2>2, Receives
  <2>4. /\ ToWrite("ipmux", "ipmux2ip") = {}
        /\ ToWrite("ipmux", "ipmux2ip")' = {p}
    BY <2>1, <2>3, LeavesOne
  <2>5. Places[7] = {} /\ Places'[7] = Number("packet", p)
    <3>1. /\ Numbers("packet", ToWrite("ipmux", "ipmux2ip")) = {}
          /\ Numbers("packet", ToWrite("ipmux", "ipmux2ip")') = Number("packet", p)
      BY <2>4, FewNumbers
    <3> QED BY <3>1, PlacesAre, PlacesAreNext
  <2>6. \A g \in DownPipes \ {f} : fifo'[g] = fifo[g]
    BY <2>3 DEF Touches, DownPipes, Fifo
  <2>7. CASE f = "udp2ipmux"
    <3>1. f \in DownPipes /\ DownKind(f) = "packet"
      BY <2>7 DEF DownPipes, DownKind
    <3>2. \A j \in (1 .. 8) \ {7, 8} : Places'[j] = Places[j]
      BY <1>2, <1>3, <2>6, <2>7, SamePlaces, EightPlaces DEF DownPipes
    <3>3. /\ Places[8] = Numbers(DownKind(f), Range(fifo[f]))
          /\ Places'[8] = Numbers(DownKind(f), Range(fifo'[f]))
      BY <2>7, <3>1, PlacesAre, PlacesAreNext
    <3>4. 7 \in 1 .. 7 /\ 8 = 7 + 1
      OBVIOUS
    <3>5. Places'[7] = Number(DownKind(f), Head(fifo[f]))
      BY <2>1, <2>5, <3>1
    <3> QED BY <1>4, <2>1, <2>3, <2>5, <2>6, <3>1, <3>2, <3>3, <3>4, <3>5, CollectsInOrder
  <2>8. CASE f # "udp2ipmux"
    <3>1. p.proto # "UDP"
      <4>1. p \in MessageOf(f)
        BY <1>1, <2>1, <2>2, HeadType
      <4> QED BY <2>8, <4>1 DEF MessageOf, PacketsOf
    <3>2. Number("packet", p) = {}
      BY <3>1, NumberOf
    <3>3. \A g \in DownPipes : fifo'[g] = fifo[g]
      BY <2>6, <2>8 DEF DownPipes
    <3>4. \A j \in 1 .. 8 : Places'[j] = Places[j]
      BY <1>2, <1>3, <2>5, <3>2, <3>3, SamePlaces, EightPlaces DEF DownPipes
    <3> QED BY <1>4, <3>3, <3>4, SameRises, DownQuiet
  <2> QED BY <2>7, <2>8
<1>7. CASE Send("ipmux")
  <2>1. /\ "ipmux2ip" \in DownPipes /\ DownKind("ipmux2ip") = "packet"
        /\ \A e \in Sends("ipmux") : e.to \in DownPipes => e.to = "ipmux2ip"
    BY DEF DownPipes, DownKind, Sends, SendTo
  <2>2. MessageOf("ipmux2ip") \subseteq Numbered(DownKind("ipmux2ip"))
    BY <2>1 DEF MessageOf, Numbered
  <2>3. /\ Places[6] = Numbers(DownKind("ipmux2ip"), Range(fifo["ipmux2ip"]))
        /\ Places'[6] = Numbers(DownKind("ipmux2ip"), Range(fifo'["ipmux2ip"]))
        /\ Places[7] = Numbers(DownKind("ipmux2ip"), ToWrite("ipmux", "ipmux2ip"))
        /\ Places'[7] = Numbers(DownKind("ipmux2ip"), ToWrite("ipmux", "ipmux2ip")')
    BY <2>1, PlacesAre, PlacesAreNext
  <2>4. (\A g \in DownPipes \ {"ipmux2ip"} : fifo'[g] = fifo[g])
          => \A j \in (1 .. 8) \ {6, 7} : Places'[j] = Places[j]
    BY <1>2, <1>3, SamePlaces, EightPlaces DEF DownPipes
  <2>5. 6 \in 1 .. 7 /\ 7 = 6 + 1
    OBVIOUS
  <2> QED BY <1>1, <1>4, <1>7, <2>1, <2>2, <2>3, <2>4, <2>5, WritesInOrder
<1> QED BY <1>5, <1>6, <1>7 DEF IpMux, IpMuxNext

\* UDP or TCP sends a packet.
LEMMA UpperInOrder ==
    ASSUME IpTypeOK, SentInOrder, NEW m \in Upper, UpperWrites(m),
           UNCHANGED <<cache, asking, sent>>
    PROVE  SentInOrder' /\ ChannelStep
<1>1. /\ "udp2ipmux" \in DownPipes /\ DownKind("udp2ipmux") = "packet"
      /\ DOMAIN fifo = Fifo /\ DownPipes \subseteq Fifo /\ handed \in [Upper -> Nat]
      /\ out' = out
  BY DEF DownPipes, DownKind, Fifo, IpTypeOK, PipesOK, UpperWrites
<1>2. /\ ToWrite("ethermux", "mux2ether")' = ToWrite("ethermux", "mux2ether")
      /\ ToWrite("ip", "ip2mux")' = ToWrite("ip", "ip2mux")
      /\ ToWrite("ipmux", "ipmux2ip")' = ToWrite("ipmux", "ipmux2ip")
      /\ UdpFrames(sent)' = UdpFrames(sent)
  BY <1>1, SameToWrite DEF UdpFrames, UdpPackets
<1>3. CASE m = "TCP"
  <2>1. \A f \in DownPipes : fifo'[f] = fifo[f]
    BY <1>1, <1>3 DEF UpperWrites, DownPipes
  <2>2. handed'["UDP"] = handed["UDP"]
    BY <1>1, <1>3 DEF UpperWrites, Upper
  <2> QED BY <1>2, <2>1, <2>2, ElsewhereInOrder
<1>4. CASE m = "UDP"
  <2> DEFINE n == handed["UDP"] + 1
  <2>1. PICK dest \in IpSent["UDP"] :
               fifo' = [fifo EXCEPT !["udp2ipmux"] =
                          Append(@, [src |-> MyIPAddr, dest |-> dest, proto |-> "UDP",
                                     type |-> "none", condition |-> "whole", id |-> n])]
    BY <1>4 DEF UpperWrites
  <2>2. handed'["UDP"] = n /\ n \in Nat
    BY <1>1, <1>4 DEF UpperWrites, Upper
  <2>3. dest \in IPAddress
    BY <2>1, IpStackAssumption
  <2>4. PICK p : p = [src |-> MyIPAddr, dest |-> dest, proto |-> "UDP", type |-> "none",
                      condition |-> "whole", id |-> n]
    OBVIOUS
  <2>5. p \in Packet /\ p.proto = "UDP" /\ p.id = n
    BY <2>2, <2>3, <2>4 DEF Packet, IPAddress, IPProtocol, ICMPType, Condition
  <2>6. /\ fifo'["udp2ipmux"] = Append(fifo["udp2ipmux"], p)
        /\ \A g \in DownPipes \ {"udp2ipmux"} : fifo'[g] = fifo[g]
    BY <1>1, <2>1, <2>4
  <2> HIDE DEF n
  <2>7. Number("packet", p) = {n}
    BY <2>5, NumberOf
  <2>8. \A a \in Places[8] : a < n
    BY SentBounds DEF n
  <2>9. /\ \A a \in Numbers(DownKind("udp2ipmux"), Range(fifo["udp2ipmux"])),
              b \in Number(DownKind("udp2ipmux"), p) : a < b
        /\ p \in Numbered(DownKind("udp2ipmux"))
    BY <1>1, <2>5, <2>7, <2>8, PlacesAre DEF Numbered
  <2>10. /\ DownRises'
         /\ Numbers(DownKind("udp2ipmux"), Range(fifo'["udp2ipmux"]))
              = Numbers(DownKind("udp2ipmux"), Range(fifo["udp2ipmux"]))
                  \cup Number(DownKind("udp2ipmux"), p)
    BY <1>1, <2>6, <2>9, DownPut
  <2>11. Places'[8] = Places[8] \cup {n}
    BY <1>1, <2>7, <2>10, PlacesAre, PlacesAreNext
  <2>12. \A k \in 1 .. 7 : Places'[k] = Places[k]
    <3>1. \A k \in 1 .. 7 : k \in {1, 2, 3, 4, 5, 6, 7}
      OBVIOUS
    <3> QED BY <1>2, <2>6, <3>1, SamePlaces DEF DownPipes
  <2> QED BY <1>2, <2>2, <2>10, <2>11, <2>12, DownEnters DEF n
<1> QED BY <1>3, <1>4 DEF Upper

LEMMA SentInOrderStep ==
    ASSUME IpTypeOK, FewMessages, SentInOrder, Next
    PROVE  SentInOrder' /\ ChannelStep
<1>1. ASSUME UNCHANGED <<asking, handed, sent>>, \A f \in DownPipes : fifo'[f] = fifo[f],
             \A m \in {"ethermux", "ip", "ipmux"} : out'[m] = out[m]
      PROVE  SentInOrder' /\ ChannelStep
  <2>1. /\ ToWrite("ethermux", "mux2ether")' = ToWrite("ethermux", "mux2ether")
        /\ ToWrite("ip", "ip2mux")' = ToWrite("ip", "ip2mux")
        /\ ToWrite("ipmux", "ipmux2ip")' = ToWrite("ipmux", "ipmux2ip")
        /\ UdpFrames(sent)' = UdpFrames(sent)
    BY <1>1, SameToWrite DEF UdpFrames, UdpPackets
  <2> QED BY <1>1, <2>1, ElsewhereInOrder
<1>2. CASE Arp \/ Icmp \/ Sock
  <2>1. /\ UNCHANGED <<asking, handed, sent>>
        /\ \E m \in {"arp", "icmp", "sock"} : Touches(m, Ends(m))
    BY <1>2, StepTouches
  <2>2. /\ \A f \in DownPipes : fifo'[f] = fifo[f]
        /\ \A m \in {"ethermux", "ip", "ipmux"} : out'[m] = out[m]
    BY <2>1 DEF Touches, Ends, DownPipes, Fifo, Process
  <2> QED BY <1>1, <2>1, <2>2
<1>3. CASE Sinks \/ Link \/ \E m \in Upper : UpperModuleReads(m)
  <2>1. UNCHANGED <<asking, handed, sent>>
    BY <1>3, OutsideTouches
  <2>2. \A f \in DownPipes : fifo'[f] = fifo[f]
    BY <1>3, OutsideTouches DEF DownPipes, Fifo
  <2>3. \A m \in {"ethermux", "ip", "ipmux"} : out'[m] = out[m]
    BY <1>3, OutsideTouches DEF Process
  <2> QED BY <1>1, <2>1, <2>2, <2>3
<1> QED BY <1>2, <1>3, DriverInOrder, EtherMuxInOrder, IpInOrder, IpMuxInOrder,
           UpperInOrder DEF Next, Runs

LEMMA InitSent == Init => SentInOrder /\ Channel!Init
<1> SUFFICES ASSUME Init
             PROVE  SentInOrder /\ Channel!Init
  OBVIOUS
<1>1. /\ \A f \in Fifo : fifo[f] = <<>>
      /\ \A m \in Process : out[m] = <<>>
      /\ asking = <<>> /\ sent = {} /\ handed["UDP"] = 0
  BY DEF Init, ArpInit, IpInit, DriverInit, Upper
<1>2. DOMAIN <<>> = {}
  OBVIOUS
<1>3. \A m \in Process : \A f : ToWrite(m, f) = {}
  BY <1>1, <1>2 DEF Unsent, ToWrite
<1>4. \A k \in 1 .. 8 : Places[k] = {}
  <2>1. \A f \in DownPipes : Range(fifo[f]) = {}
    BY <1>1, <1>2 DEF Range, DownPipes, Fifo
  <2>2. {asking[i].packet : i \in DOMAIN asking} = {}
    BY <1>1, <1>2
  <2>3. /\ ToWrite("ethermux", "mux2ether") = {} /\ ToWrite("ip", "ip2mux") = {}
        /\ ToWrite("ipmux", "ipmux2ip") = {}
    BY <1>3 DEF Process
  <2> QED BY <2>1, <2>2, <2>3, PlacesAre, FewNumbers, EightPlaces DEF DownPipes
<1>5. Leaving = {}
  BY <1>4, LeavingIs
<1>6. UdpFrames(sent) = {}
  BY <1>1 DEF UdpFrames, UdpPackets
<1>7. Ordered(Places) /\ \A k \in 1 .. 8 : Place(k) \subseteq 1 .. handed["UDP"]
  <2>1. \A k \in 1 .. 8 : Place(k) = {}
    BY <1>4 DEF Places
  <2> QED BY <1>4, <2>1, PlacesAre DEF Ordered
<1>8. \A f \in DownPipes : Rising(DownKind(f), fifo[f])
  BY <1>1, SameRising DEF DownPipes, Fifo
<1> QED BY <1>1, <1>5, <1>6, <1>7, <1>8 DEF SentInOrder, Channel!Init

LEMMA NextSent ==
    ASSUME IpTypeOK, FewMessages, SentInOrder, [Next]_vars
    PROVE  SentInOrder' /\ ChannelStep
<1>1. CASE Next
  BY <1>1, SentInOrderStep
<1>2. CASE UNCHANGED vars
  <2>1. UNCHANGED <<fifo, out, asking, handed, sent>>
    BY <1>2 DEF vars
  <2>2. /\ ToWrite("ethermux", "mux2ether")' = ToWrite("ethermux", "mux2ether")
        /\ ToWrite("ip", "ip2mux")' = ToWrite("ip", "ip2mux")
        /\ ToWrite("ipmux", "ipmux2ip")' = ToWrite("ipmux", "ipmux2ip")
        /\ UdpFrames(sent)' = UdpFrames(sent)
    BY <2>1, SameToWrite DEF UdpFrames, UdpPackets
  <2> QED BY <2>1, <2>2, ElsewhereInOrder
<1> QED BY <1>1, <1>2

\* To UDP the modules below it are a channel that may lose a packet and never
\* reorders or repeats any.
THEOREM LeavesCorrect == Spec => LeavesInOrder
<1>1. Init => AnswersInv /\ SentInOrder /\ Channel!Init
  BY InitAnswers, InitSent
<1>2. AnswersInv /\ SentInOrder /\ [Next]_vars => AnswersInv' /\ SentInOrder' /\ ChannelStep
  BY NextAnswers, NextSent DEF AnswersInv
<1>3. ChannelStep => [Channel!Next]_<<handed["UDP"], Leaving, UdpFrames(sent)>>
  BY DEF ChannelStep
<1> QED BY <1>1, <1>2, <1>3, PTL DEF Spec, LeavesInOrder, Channel!Spec
=============================================================================
