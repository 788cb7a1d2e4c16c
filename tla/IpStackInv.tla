----------------------------- MODULE IpStackInv -----------------------------
(***************************************************************************)
(* The inductive invariant of the lower half of the stack: where a         *)
(* question or its answer is, and in which order frames come up and        *)
(* packets go down.                                                        *)
(***************************************************************************)
EXTENDS IpStackProps

\* A handler leaves one message to write, the ARP module's an answer before anything
\* else.
FewMessages ==
    /\ \A m \in Process \ {"arp"} : Len(out[m]) <= 1
    /\ \A i \in DOMAIN out["arp"] : out["arp"][i].to = "arp2ip" => i = 1

----------------------------------------------------------------------------
(* Questions and answers *)

NoQuestion == fifo["ip2arp"] = <<>> /\ Unsent("ip", "ip2arp") = {}
NoAnswer   == fifo["arp2ip"] = <<>> /\ Unsent("arp", "arp2ip") = {}

\* What has been heard of an address since the question a is no older.
Asks(a, q)    == q.ipaddr = a.packet.dest /\ a.known <= Known[a.packet.dest]
Answers(a, r) == r.ipaddr = a.packet.dest /\ a.known <= r.ethernetaddr

\* The question is still to be written, in its pipe, answered, or the answer is in
\* its pipe.
Unasked(a) ==
    /\ out["ip"] # <<>> /\ out["ip"][1].to = "ip2arp" /\ Asks(a, out["ip"][1].msg)
    /\ fifo["ip2arp"] = <<>> /\ NoAnswer

Asked(a) ==
    /\ out["ip"] = <<>>
    /\ Len(fifo["ip2arp"]) = 1 /\ Asks(a, fifo["ip2arp"][1])
    /\ NoAnswer

Answered(a) ==
    /\ out["ip"] = <<>> /\ fifo["ip2arp"] = <<>> /\ fifo["arp2ip"] = <<>>
    /\ out["arp"] # <<>> /\ out["arp"][1].to = "arp2ip"
    /\ Answers(a, out["arp"][1].msg)

Arrived(a) ==
    /\ out["ip"] = <<>> /\ fifo["ip2arp"] = <<>>
    /\ Len(fifo["arp2ip"]) = 1 /\ Answers(a, fifo["arp2ip"][1])
    /\ Unsent("arp", "arp2ip") = {}

OneQuestion ==
    /\ asking = <<>> => NoQuestion /\ NoAnswer
    /\ asking # <<>> =>
         \/ Unasked(asking[1]) \/ Asked(asking[1])
         \/ Answered(asking[1]) \/ Arrived(asking[1])

----------------------------------------------------------------------------
(* Numbers in order *)

\* A message's number, if it has one: of a frame its station's address, or the number
\* of UDP's packet in it; of a packet its number.
Number(kind, m) ==
    IF kind = "address" THEN {m.srcaddr}
    ELSE IF kind = "frame" THEN UdpFrames({m}) ELSE UdpPackets({m})

Numbers(kind, messages) == UNION {Number(kind, m) : m \in messages}

\* Later messages of the pipe have larger numbers.
Rising(kind, q) ==
    \A i, j \in DOMAIN q :
      i < j => \A a \in Number(kind, q[i]), b \in Number(kind, q[j]) : a < b

\* So have places that are further from the end.
Ordered(S) ==
    \A j, k \in DOMAIN S : j < k => \A a \in S[j], b \in S[k] : a < b

----------------------------------------------------------------------------
(* Frames on their way up to the ARP module *)

UpPlace(k) ==
    CASE k = 1 -> Numbers("address", Range(fifo["mux2arp"]))
      [] k = 2 -> Numbers("address", ToWrite("ethermux", "mux2arp"))
      [] k = 3 -> Numbers("address", Range(fifo["ether2mux"]))
      [] k = 4 -> Numbers("address", ToWrite("driver", "ether2mux"))
      [] k = 5 -> Numbers("address", Range(fifo["pcap"]))

UpPlaces == [k \in 1 .. 5 |-> UpPlace(k)]

UpPipes == {"mux2arp", "ether2mux", "pcap"}

UpMessages ==
    Range(fifo["mux2arp"]) \cup ToWrite("ethermux", "mux2arp")
        \cup Range(fifo["ether2mux"]) \cup ToWrite("driver", "ether2mux")
        \cup Range(fifo["pcap"])

\* An ARP packet names the station that sent it.
OwnSender(raw) == raw.protocoltype = "PROTO_ARP" => raw.payload.senderhw = raw.srcaddr

\* Stations are numbered as they send: those still to be heard of are newer than
\* any in the ARP module's cache.
Fresh ==
    /\ \A raw \in UpMessages : raw.srcaddr < Station
    /\ \A i \in DOMAIN cache :
          cache[i] < Station /\ \A raw \in UpMessages : cache[i] < raw.srcaddr

\* The ARP module hears stations in the order in which they sent, so a binding is
\* never replaced by an older one.
HeardInOrder ==
    /\ Ordered(UpPlaces)
    /\ \A f \in UpPipes : Rising("address", fifo[f])
    /\ \A raw \in UpMessages : OwnSender(raw)
    /\ Fresh

----------------------------------------------------------------------------
(* Packets on their way down *)

Places == [k \in 1 .. 8 |-> Place(k)]

DownPipes   == {"mux2ether", "ip2mux", "ipmux2ip", "udp2ipmux"}
DownKind(f) == IF f \in {"mux2ether", "ip2mux"} THEN "frame" ELSE "packet"

SentInOrder ==
    /\ Ordered(Places)
    /\ \A f \in DownPipes : Rising(DownKind(f), fifo[f])
    /\ \A k \in 1 .. 8 : Place(k) \subseteq 1 .. handed["UDP"]

IpInv == FewMessages /\ OneQuestion /\ HeardInOrder /\ SentInOrder
=============================================================================
