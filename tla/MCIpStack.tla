----------------------------- MODULE MCIpStack -----------------------------
(***************************************************************************)
(* The lower half of the stack for TLC: one other host, a and the kinds of *)
(* packet that the modules tell apart.                                     *)
(***************************************************************************)
EXTENDS IpStackProps

MCHosts == {"host"}

Arp1(opcode, targetip, known) ==
    [opcode |-> opcode, senderip |-> "host", targetip |-> targetip,
     ipToEthernet |-> known]

MCArpHeard == {Arp1("Request", "me", TRUE)}

Ip1(src, dest, proto, type, condition) ==
    [src |-> src, dest |-> dest, proto |-> proto, type |-> type,
     condition |-> condition]

MCIpHeard ==
    {Ip1("host", "me", "ICMP", "ECHO_REQUEST", "whole"),
     Ip1("host", "me", "ICMP", "ECHO_REPLY", "whole"),
     Ip1("host", "me", "UDP", "none", "checksum"),
     Ip1("host", "me", "TCP", "none", "whole"),
     Ip1("host", "me", "OTHER", "none", "whole"),
     Ip1("me", "host", "UDP", "none", "whole")}

MCIpSent == [UDP |-> {"host"}, TCP |-> {}]
=============================================================================
