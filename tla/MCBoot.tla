------------------------------- MODULE MCBoot -------------------------------
(***************************************************************************)
(* The stack of minet.cfg for TLC, without the UDP, ICMP and ipother       *)
(* modules, which take the same place as the TCP module.                   *)
(***************************************************************************)
EXTENDS BootProps

MCModules ==
    {"monitor", "driver", "ethermux", "arp", "ip", "other", "ipmux", "tcp", "sock",
     "socklib"}

MCMonitored == MCModules \ {"monitor"}

\* The application ends, and the TCP module is the one its authors debug.
MCCrashers  == {"socklib", "tcp"}
=============================================================================
