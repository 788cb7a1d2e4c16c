-------------------------------- MODULE Boot --------------------------------
(***************************************************************************)
(* How the processes of the stack come up and go down: MinetInit,          *)
(* MinetConnect, MinetAccept and MinetDeinit of src/libminet/Minet.cc, and *)
(* the start of every main.                                                *)
(*                                                                         *)
(* A named pipe is the pair of its writer and its reader.  open() blocks   *)
(* until the other end is opened too, so a process is at the next open of  *)
(* its script.  Once it has done them all it is in its event loop, where   *)
(* the end of file of a pipe it reads, or a report to a monitor that is    *)
(* gone, ends it: Unserialize throws, and SIGPIPE runs death().            *)
(***************************************************************************)
EXTENDS Naturals, Sequences

CONSTANTS
    Modules,    \* MINET_MODULES
    Monitored,  \* MINET_MONITOR
    Crashers    \* fault model: the modules that may crash in their event loop

\* The names MinetIsModuleInConfig knows, those of the modules that minet.cfg starts.
Known ==
    {"monitor", "driver", "ethermux", "arp", "ip", "other", "ipmux", "icmp", "udp",
     "tcp", "ipother", "sock", "socklib"}

ASSUME BootAssumption ==
    /\ Modules \subseteq Known
    /\ Monitored \subseteq Modules \ {"monitor"}
    /\ Monitored # {} => "monitor" \in Modules    \* start_minet.sh always starts it
    /\ Crashers \subseteq Modules

VARIABLES
    pos,     \* pos[m]: how many pipes m has opened
    dead,    \* the processes that have ended
    deinit   \* the application has called minet_deinit

vars == <<pos, dead, deinit>>

----------------------------------------------------------------------------
(* The calls: which pipes they open and in which order *)

\* MinetConnect knows these pairs; any other Dies.
ConnectPairs ==
    {<<"ethermux", "driver">>, <<"ip", "ethermux">>, <<"ip", "arp">>,
     <<"arp", "ethermux">>, <<"other", "ethermux">>, <<"ipmux", "ip">>,
     <<"icmp", "ipmux">>, <<"udp", "ipmux">>, <<"tcp", "ipmux">>,
     <<"ipother", "ipmux">>, <<"sock", "ipother">>, <<"sock", "icmp">>,
     <<"sock", "udp">>, <<"sock", "tcp">>, <<"socklib", "sock">>}

\* MinetAccept: those of the monitor apart, the same pairs from the other side.
AcceptPairs ==
    {<<"driver", "ethermux">>, <<"ethermux", "ip">>, <<"ethermux", "arp">>,
     <<"ethermux", "other">>, <<"ip", "ipmux">>, <<"arp", "ip">>,
     <<"ipmux", "icmp">>, <<"ipmux", "udp">>, <<"ipmux", "tcp">>,
     <<"ipmux", "ipother">>, <<"icmp", "sock">>, <<"udp", "sock">>,
     <<"tcp", "sock">>, <<"ipother", "sock">>, <<"sock", "socklib">>}

Pipe(from, to) == <<from, to>>

\* Fault: the writing end first, as in MinetAccept.
ConnectWriting(m, mod) ==
    IF mod \in Modules THEN <<Pipe(m, mod), Pipe(mod, m)>> ELSE <<>>

\* MinetConnect of m opens the pipe it reads, then the one it writes.  Every main
\* makes the call only for a module of the configuration.
Connect(m, mod) ==
    IF mod \in Modules THEN <<Pipe(mod, m), Pipe(m, mod)>> ELSE <<>>

\* MinetAccept opens the pipe it writes, then the one it reads.
Accept(m, mod) ==
    IF mod \in Modules THEN <<Pipe(m, mod), Pipe(mod, m)>> ELSE <<>>

\* MinetInit opens the pipe to the monitor.
MinetInit(m) == IF m \in Monitored THEN <<Pipe(m, "monitor")>> ELSE <<>>

----------------------------------------------------------------------------
(* The start of every main *)

DriverMain == MinetInit("driver") \o Accept("driver", "ethermux")

EtherMuxMain ==
    MinetInit("ethermux") \o Connect("ethermux", "driver") \o
    Accept("ethermux", "arp") \o Accept("ethermux", "ip") \o
    Accept("ethermux", "other")

\* Fault: the IP module is accepted before the mux is connected.
ArpMainAcceptsFirst == MinetInit("arp") \o Accept("arp", "ip") \o Connect("arp", "ethermux")

ArpMain == MinetInit("arp") \o Connect("arp", "ethermux") \o Accept("arp", "ip")

IpMain ==
    MinetInit("ip") \o Connect("ip", "ethermux") \o Connect("ip", "arp") \o
    Accept("ip", "ipmux")

\* Fault: the wrong module.
OtherMainToIp == MinetInit("other") \o Connect("other", "ip")

OtherMain == MinetInit("other") \o Connect("other", "ethermux")

IpMuxMain ==
    MinetInit("ipmux") \o Connect("ipmux", "ip") \o Accept("ipmux", "udp") \o
    Accept("ipmux", "tcp") \o Accept("ipmux", "icmp") \o Accept("ipmux", "ipother")

IcmpMain    == MinetInit("icmp") \o Connect("icmp", "ipmux") \o Accept("icmp", "sock")
UdpMain     == MinetInit("udp") \o Connect("udp", "ipmux") \o Accept("udp", "sock")
TcpMain     == MinetInit("tcp") \o Connect("tcp", "ipmux") \o Accept("tcp", "sock")
IpOtherMain ==
    MinetInit("ipother") \o Connect("ipother", "ipmux") \o Accept("ipother", "sock")

SockMain ==
    MinetInit("sock") \o Connect("sock", "tcp") \o Connect("sock", "udp") \o
    Connect("sock", "icmp") \o Connect("sock", "ipother") \o Accept("sock", "socklib")

\* The application: minet_init(MINET_USER).
SocklibMain == MinetInit("socklib") \o Connect("socklib", "sock")

\* The monitor accepts the monitored modules one after the other: the pipe of each
\* module's MinetInit, from the reading end.
MonitorMain ==
    MinetInit("driver") \o MinetInit("ethermux") \o MinetInit("ip") \o
    MinetInit("arp") \o MinetInit("other") \o MinetInit("ipmux") \o
    MinetInit("ipother") \o MinetInit("icmp") \o MinetInit("udp") \o
    MinetInit("tcp") \o MinetInit("sock") \o MinetInit("socklib")

Script(m) ==
    CASE m = "monitor" -> MonitorMain   [] m = "driver"   -> DriverMain
      [] m = "ethermux" -> EtherMuxMain [] m = "arp"      -> ArpMain
      [] m = "ip" -> IpMain             [] m = "other"    -> OtherMain
      [] m = "ipmux" -> IpMuxMain       [] m = "icmp"     -> IcmpMain
      [] m = "udp" -> UdpMain           [] m = "tcp"      -> TcpMain
      [] m = "ipother" -> IpOtherMain   [] m = "sock"     -> SockMain
      [] m = "socklib" -> SocklibMain

----------------------------------------------------------------------------
(* Coming up *)

InLoop(m)   == pos[m] = Len(Script(m))
NextPipe(m) == Script(m)[pos[m] + 1]
OtherEnd(m, p) == IF p[1] = m THEN p[2] ELSE p[1]

HasOpened(m, p) == \E i \in 1 .. pos[m] : Script(m)[i] = p

\* Process q has opened its end of p, or is waiting in the open.
IsAt(q, p) == HasOpened(q, p) \/ (q \notin dead /\ ~ InLoop(q) /\ NextPipe(q) = p)

\* MinetInit opens one pipe, the other calls two, and each ends with a report.
ReportDue(m) == m \in Monitored /\ pos'[m] % 2 = 1

Opens(m) ==
    /\ m \notin dead /\ ~ InLoop(m)
    /\ IsAt(OtherEnd(m, NextPipe(m)), NextPipe(m))
    /\ pos' = [pos EXCEPT ![m] = @ + 1]
    /\ dead' = IF ReportDue(m) /\ "monitor" \in dead THEN dead \cup {m} ELSE dead
    /\ UNCHANGED deinit

----------------------------------------------------------------------------
(* Going down *)

\* A pipe that m reads has no writer any more: a process has ended, or it is the
\* application's pipe to the monitor and minet_deinit has closed it.
EndOfFile(m) ==
    \E i \in DOMAIN Script(m) :
        LET p == Script(m)[i] IN
          /\ p[2] = m
          /\ p[1] \in dead \/ (p = Pipe("socklib", "monitor") /\ deinit)

\* Fault: the monitor takes the end of a pipe for an empty message.
HearsEndButMonitor(m) ==
    /\ m \notin dead /\ InLoop(m) /\ m \notin {"socklib", "monitor"}
    /\ EndOfFile(m)
    /\ dead' = dead \cup {m}
    /\ UNCHANGED <<pos, deinit>>

\* MinetGetNextEvent says that the pipe is readable, and MinetReceive throws.
\* The application reads only within a call.
HearsEnd(m) ==
    /\ m \notin dead /\ InLoop(m) /\ m # "socklib"
    /\ EndOfFile(m)
    /\ dead' = dead \cup {m}
    /\ UNCHANGED <<pos, deinit>>

\* Any other event of m is reported to a monitor that is not there: SIGPIPE.
ReportFails(m) ==
    /\ m \in Monitored \ dead /\ InLoop(m)
    /\ "monitor" \in dead /\ ~ (m = "socklib" /\ deinit)
    /\ dead' = dead \cup {m}
    /\ UNCHANGED <<pos, deinit>>

\* minet_deinit forgets the pipes without closing them, reports, and closes the
\* monitor's.
AppDeinit ==
    /\ "socklib" \in Modules \ dead /\ InLoop("socklib") /\ ~ deinit
    /\ IF "socklib" \in Monitored /\ "monitor" \in dead
       THEN dead' = dead \cup {"socklib"} /\ UNCHANGED deinit
       ELSE deinit' = TRUE /\ UNCHANGED dead
    /\ UNCHANGED pos

\* A process ends by itself: the application when it is done, others by a crash.
Crashes(m) ==
    /\ m \in Crashers \ dead /\ InLoop(m)
    /\ dead' = dead \cup {m}
    /\ UNCHANGED <<pos, deinit>>

----------------------------------------------------------------------------
Init ==
    /\ pos = [m \in Modules |-> 0]
    /\ dead = {}
    /\ deinit = FALSE

Next ==
    \/ \E m \in Modules : Opens(m) \/ HearsEnd(m) \/ ReportFails(m) \/ Crashes(m)
    \/ AppDeinit

Spec == Init /\ [][Next]_vars

\* start_minet.sh starts every module, and what can open a pipe or hear its end
\* does.  Every such step is final, so it is enough that one of them is taken.
FairSpec == Spec /\ WF_vars(\E m \in Modules : Opens(m) \/ HearsEnd(m))
=============================================================================
