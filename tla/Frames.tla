------------------------------- MODULE Frames -------------------------------
(***************************************************************************)
(* What the modules below UDP and TCP exchange: Ethernet frames, ARP and   *)
(* IP packets, of src/libminet/ethernet.h, raw_ethernet_packet.h, arp.h,   *)
(* ip.h, icmp.h and packet.h.  A header is the fields the modules look at. *)
(* A checksum is right or wrong; payload bytes are left out.               *)
(***************************************************************************)
EXTENDS Naturals

CONSTANTS
    MyIPAddr,              \* MINET_IPADDR
    IP_ADDRESS_BROADCAST,  \* 255.255.255.255
    Hosts                  \* the other hosts of the link

ASSUME HostAssumption ==
    /\ MyIPAddr # IP_ADDRESS_BROADCAST
    /\ {MyIPAddr, IP_ADDRESS_BROADCAST} \cap Hosts = {}

IPAddress == {MyIPAddr, IP_ADDRESS_BROADCAST} \cup Hosts

\* Ethernet addresses.  Those of other stations are the larger numbers.
EthernetAddr            == Nat
ETHERNET_BLANK_ADDR     == 0
ETHERNET_BROADCAST_ADDR == 1
MyEthernetAddr          == 2

----------------------------------------------------------------------------
(* IP and ICMP *)

IPProtocol == {"UDP", "TCP", "ICMP", "OTHER"}

ICMPRequest == {"ECHO_REQUEST", "TIMESTAMP_REQUEST", "ADDRESSMASK_REQUEST"}
ICMPError   == {"DESTINATION_UNREACHABLE", "SOURCE_QUENCH", "REDIRECT",
                "TIME_EXCEEDED", "PARAMETER_PROBLEM"}
ICMPReply   == {"ECHO_REPLY", "TIMESTAMP_REPLY", "ADDRESSMASK_REPLY"}
ICMPType    == ICMPRequest \cup ICMPError \cup ICMPReply \cup {"none", "unknown"}

\* What IPHeader says of a packet, in the order in which it is looked at: its
\* checksum is wrong, its TTL is zero, it is a fragment, or it is whole.
Condition == {"checksum", "ttl", "fragment", "whole"}

\* A packet with an IP header, and an ICMP header when proto is ICMP.  id tells
\* packets apart: the number of the arrival or of the upper module's packet.
Packet ==
    [src : IPAddress, dest : IPAddress, proto : IPProtocol, type : ICMPType,
     condition : Condition, id : Nat]

\* The error constructor of ICMPPacket: from this host, about packet p.
ICMPErrorPacket(dest, type, p) ==
    [src |-> MyIPAddr, dest |-> dest, proto |-> "ICMP", type |-> type,
     condition |-> "whole", id |-> p.id]

----------------------------------------------------------------------------
(* ARP *)

\* ARPPacket.  ipToEthernet: both address spaces are the ones Minet knows.
ARPPacket ==
    [opcode : {"Request", "Reply"}, senderhw : EthernetAddr, senderip : IPAddress,
     targethw : EthernetAddr, targetip : IPAddress, ipToEthernet : BOOLEAN]

\* The constructor that fills in every field.
NewARPPacket(opcode, senderhw, senderip, targethw, targetip) ==
    [opcode |-> opcode, senderhw |-> senderhw, senderip |-> senderip,
     targethw |-> targethw, targetip |-> targetip, ipToEthernet |-> TRUE]

IsIPToEthernetRequest(arp) == arp.ipToEthernet /\ arp.opcode = "Request"

\* What the IP module and the ARP module say to each other.
ARPRequestResponse ==
    [ipaddr : IPAddress, ethernetaddr : EthernetAddr,
     flag : {"REQUEST", "RESPONSE_OK", "RESPONSE_UNKNOWN"}]

----------------------------------------------------------------------------
(* Ethernet *)

\* RawEthernetPacket: an Ethernet header and what it carries.  The payload of a
\* frame of another protocol is nothing.
RawEthernetPacket ==
    [srcaddr : EthernetAddr, destaddr : EthernetAddr,
     protocoltype : {"PROTO_ARP"}, payload : ARPPacket]
    \cup
    [srcaddr : EthernetAddr, destaddr : EthernetAddr,
     protocoltype : {"PROTO_IP"}, payload : Packet]
    \cup
    [srcaddr : EthernetAddr, destaddr : EthernetAddr,
     protocoltype : {"PROTO_OTHER"}]

\* PushHeader of an EthernetHeader, and RawEthernetPacket(Packet).
Frame(srcaddr, destaddr, protocoltype, payload) ==
    [srcaddr |-> srcaddr, destaddr |-> destaddr, protocoltype |-> protocoltype,
     payload |-> payload]
=============================================================================
