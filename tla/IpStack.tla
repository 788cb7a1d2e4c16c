------------------------------ MODULE IpStack ------------------------------
(***************************************************************************)
(* The lower half of the stack: driver, Ethernet mux, ARP, IP, IP mux and  *)
(* ICMP modules, each a process, joined by pipes, between the link and the *)
(* UDP, TCP and socket modules.                                            *)
(***************************************************************************)
EXTENDS ArpModule, IpModule, Muxes, IcmpModule, Driver2, FiniteSets

CONSTANTS
    ArpHeard,     \* ARP packets that may arrive, without the sender's address
    IpHeard,      \* IP packets that may arrive, without a number
    OtherHeard,   \* whether frames of another protocol may arrive
    IpSent,       \* IpSent[m]: where m, UDP or TCP, may send packets
    MAX_FRAMES,   \* bound: frames that arrive
    MAX_TRAFFIC   \* bound: frames that arrive and packets that UDP and TCP send

ASSUME IpStackAssumption ==
    /\ ArpHeard \subseteq [opcode : {"Request", "Reply"}, senderip : IPAddress,
                           targetip : IPAddress, ipToEthernet : BOOLEAN]
    /\ IpHeard \subseteq [src : IPAddress, dest : IPAddress, proto : IPProtocol,
                          type : ICMPType, condition : Condition]
    /\ IpSent \in [{"UDP", "TCP"} -> SUBSET IPAddress]
    /\ OtherHeard \in BOOLEAN
    /\ MAX_FRAMES \in Nat /\ MAX_TRAFFIC \in Nat

VARIABLES
    heard,   \* how many frames have arrived
    handed   \* handed[m]: how many packets m has sent, m UDP or TCP

vars == <<fifo, out, cache, asking, sent, heard, handed>>

Process == {"driver", "ethermux", "arp", "ip", "ipmux", "icmp", "sock", "other",
            "ipother"}
Upper == {"UDP", "TCP"}
Traffic == heard + handed["UDP"] + handed["TCP"]

Fifo == {"pcap", "ether2mux", "mux2ether", "mux2arp", "arp2mux", "mux2ip", "ip2mux",
         "mux2other", "ip2arp", "arp2ip", "ip2ipmux", "ipmux2ip", "ipmux2udp",
         "udp2ipmux", "ipmux2tcp", "tcp2ipmux", "ipmux2icmp", "icmp2ipmux",
         "ipmux2other", "icmp2sock", "sock2icmp"}

Init ==
    /\ fifo = [f \in Fifo |-> <<>>]
    /\ out  = [m \in Process |-> <<>>]
    /\ ArpInit /\ IpInit /\ DriverInit
    /\ heard = 0
    /\ handed = [m \in Upper |-> 0]

----------------------------------------------------------------------------
(* The link.  The n-th frame comes from the Ethernet address n above the host's; *)
(* pcap also hears what the host itself sent.                                    *)

Arrives(raw) ==
    /\ heard < MAX_FRAMES /\ Traffic < MAX_TRAFFIC
    /\ Len(fifo["pcap"]) < PIPE_CAP
    /\ fifo' = [fifo EXCEPT !["pcap"] = Append(@, raw)]
    /\ heard' = heard + 1
    /\ UNCHANGED <<out, handed>>

Station == MyEthernetAddr + heard + 1

ArpArrives ==
    \E a \in ArpHeard :
        Arrives(Frame(Station, ETHERNET_BROADCAST_ADDR, "PROTO_ARP",
                      [opcode |-> a.opcode, senderhw |-> Station,
                       senderip |-> a.senderip, targethw |-> ETHERNET_BLANK_ADDR,
                       targetip |-> a.targetip, ipToEthernet |-> a.ipToEthernet]))

IpArrives ==
    \E p \in IpHeard :
        Arrives(Frame(Station, MyEthernetAddr, "PROTO_IP",
                      [src |-> p.src, dest |-> p.dest, proto |-> p.proto,
                       type |-> p.type, condition |-> p.condition,
                       id |-> heard + 1]))

OtherArrives ==
    /\ OtherHeard
    /\ Arrives([srcaddr |-> Station, destaddr |-> ETHERNET_BROADCAST_ADDR,
                protocoltype |-> "PROTO_OTHER"])

----------------------------------------------------------------------------
(* UDP and TCP, as the IP mux sees them *)

UpperWrites(m) ==
    LET f == IF m = "UDP" THEN "udp2ipmux" ELSE "tcp2ipmux" IN
        /\ Traffic < MAX_TRAFFIC
        /\ Len(fifo[f]) < PIPE_CAP
        /\ handed' = [handed EXCEPT ![m] = @ + 1]
        /\ \E dest \in IpSent[m] :
              fifo' = [fifo EXCEPT ![f] =
                         Append(@, [src |-> MyIPAddr, dest |-> dest, proto |-> m,
                                    type |-> "none", condition |-> "whole",
                                    id |-> handed[m] + 1])]
        /\ UNCHANGED <<out, heard>>

UpperReads(m) ==
    LET f == IF m = "UDP" THEN "ipmux2udp" ELSE "ipmux2tcp" IN
        /\ fifo[f] # <<>>
        /\ fifo' = [fifo EXCEPT ![f] = Tail(@)]
        /\ UNCHANGED <<out, heard, handed>>

----------------------------------------------------------------------------
(* Processes *)

\* The bindings the ARP module has.
Known ==
    [ipaddr \in IPAddress |->
        IF ipaddr \in DOMAIN cache THEN cache[ipaddr] ELSE ETHERNET_BLANK_ADDR]

Outside == <<heard, handed>>

Driver ==
    /\ UNCHANGED <<cache, asking, Outside>>
    /\ DriverNext \/ (Send("driver") /\ UNCHANGED sent)

EtherMux == UNCHANGED <<cache, asking, sent, Outside>> /\ (EtherMuxNext \/ Send("ethermux"))

Arp ==
    /\ UNCHANGED <<asking, sent, Outside>>
    /\ ArpNext \/ (Send("arp") /\ UNCHANGED cache)

Ip ==
    /\ UNCHANGED <<cache, sent, Outside>>
    /\ IpNext(Known) \/ (Send("ip") /\ UNCHANGED asking)

IpMux == UNCHANGED <<cache, asking, sent, Outside>> /\ (IpMuxNext \/ Send("ipmux"))

Icmp == UNCHANGED <<cache, asking, sent, Outside>> /\ (IcmpNext \/ Send("icmp"))

Sock == UNCHANGED <<cache, asking, sent, Outside>> /\ (SockHearsIcmp \/ Send("sock"))

Sinks == UNCHANGED <<cache, asking, sent, Outside>> /\ (OtherReads \/ IpOtherReads)

UpperModuleReads(m) == UpperReads(m) /\ UNCHANGED <<cache, asking, sent>>

Link == UNCHANGED <<cache, asking, sent>> /\ (ArpArrives \/ IpArrives \/ OtherArrives)

\* A process takes a step of its own accord.
Runs ==
    \/ Driver \/ EtherMux \/ Arp \/ Ip \/ IpMux \/ Icmp \/ Sock \/ Sinks
    \/ \E m \in Upper : UpperModuleReads(m)

Next ==
    \/ Runs \/ Link
    \/ \E m \in Upper : UpperWrites(m) /\ UNCHANGED <<cache, asking, sent>>

Spec == Init /\ [][Next]_vars

\* While some process can go on, one does; nothing makes a frame arrive or a module
\* send.  Every process runs for ever, and so each of them goes on, but less is enough.
Fairness == WF_vars(Runs)

FairSpec == Spec /\ Fairness
=============================================================================
