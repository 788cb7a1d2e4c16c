------------------------------- MODULE Muxes -------------------------------
(***************************************************************************)
(* src/core/ethernet_mux.cc, src/core/ip_mux.cc and the modules behind     *)
(* their default cases, src/core/other_module.cc and ipother_module.cc,    *)
(* with every module of minet.cfg present.  None of them has a state.      *)
(***************************************************************************)
EXTENDS Frames, Minet

\* Handles in the order of MinetConnect and MinetAccept.
EtherMuxHandles == <<"ether2mux", "arp2mux", "ip2mux">>
IpMuxHandles    == <<"ip2ipmux", "udp2ipmux", "tcp2ipmux", "icmp2ipmux">>

\* Fault: frames of other protocols are taken for IP.
EtherMuxPipeNoOther(type) == IF type = "PROTO_ARP" THEN "mux2arp" ELSE "mux2ip"

\* The module for a frame.
EtherMuxPipe(type) ==
    CASE type = "PROTO_ARP" -> "mux2arp"
      [] type = "PROTO_IP"  -> "mux2ip"
      [] OTHER              -> "mux2other"

\* A frame comes up.
EtherMuxDispatches ==
    /\ GetNextEvent("ethermux", EtherMuxHandles, "ether2mux")
    /\ LET raw == Head(fifo["ether2mux"]) IN
         Receive("ethermux", "ether2mux",
                 <<[to |-> EtherMuxPipe(raw.protocoltype), msg |-> raw]>>)

\* A frame of the ARP module or of the IP module goes down.
EtherMuxCollects ==
    \E f \in {"arp2mux", "ip2mux"} :
        /\ GetNextEvent("ethermux", EtherMuxHandles, f)
        /\ Receive("ethermux", f, <<[to |-> "mux2ether", msg |-> Head(fifo[f])]>>)

\* The module for a packet.
IpMuxPipe(proto) ==
    CASE proto = "UDP"  -> "ipmux2udp"
      [] proto = "TCP"  -> "ipmux2tcp"
      [] proto = "ICMP" -> "ipmux2icmp"
      [] OTHER          -> "ipmux2other"

IpMuxDispatches ==
    /\ GetNextEvent("ipmux", IpMuxHandles, "ip2ipmux")
    /\ LET p == Head(fifo["ip2ipmux"]) IN
         Receive("ipmux", "ip2ipmux", <<[to |-> IpMuxPipe(p.proto), msg |-> p]>>)

IpMuxCollects ==
    \E f \in {"udp2ipmux", "tcp2ipmux", "icmp2ipmux"} :
        /\ GetNextEvent("ipmux", IpMuxHandles, f)
        /\ Receive("ipmux", f, <<[to |-> "ipmux2ip", msg |-> Head(fifo[f])]>>)

EtherMuxNext == EtherMuxDispatches \/ EtherMuxCollects
IpMuxNext    == IpMuxDispatches \/ IpMuxCollects

\* The two modules of the default cases read and drop.
OtherReads   == GetNextEvent("other", <<"mux2other">>, "mux2other")
                    /\ Receive("other", "mux2other", <<>>)
IpOtherReads == GetNextEvent("ipother", <<"ipmux2other">>, "ipmux2other")
                    /\ Receive("ipother", "ipmux2other", <<>>)
=============================================================================
