------------------------------ MODULE IpModule ------------------------------
(***************************************************************************)
(* src/core/ip_module.cc.  SendPacket asks the ARP module and blocks in    *)
(* MinetReceive for the answer, whatever the other pipes hold.             *)
(***************************************************************************)
EXTENDS Frames, Minet

\* asking is <<>> in the event loop, and inside SendPacket the one packet that
\* waits for its answer.  known is auxiliary: the binding the ARP module had when
\* the question was put, ETHERNET_BLANK_ADDR if none.
VARIABLE asking

IpHandles == <<"mux2ip", "arp2ip", "ipmux2ip">>

IpInit == asking = <<>>

IpGetNextEvent(f) == asking = <<>> /\ GetNextEvent("ip", IpHandles, f)

\* The first half of SendPacket: the event on pipe f is read and the ARP module
\* is asked for the destination of p.
SendPacket(f, p, known) ==
    /\ asking' = <<[packet |-> p, known |-> known]>>
    /\ Receive("ip", f,
               <<[to |-> "ip2arp",
                  msg |-> [ipaddr |-> p.dest, ethernetaddr |-> ETHERNET_BLANK_ADDR,
                           flag |-> "REQUEST"]]>>)

\* A packet for another host.
ForThisHost(p) == p.dest \in {MyIPAddr, IP_ADDRESS_BROADCAST}

IpIgnores ==
    /\ IpGetNextEvent("mux2ip")
    /\ ~ ForThisHost(Head(fifo["mux2ip"]).payload)
    /\ Receive("ip", "mux2ip", <<>>)
    /\ UNCHANGED asking

\* The ICMP error for a packet that is not whole.
ErrorFor(condition) ==
    CASE condition = "checksum" -> "PARAMETER_PROBLEM"
      [] condition = "ttl"      -> "TIME_EXCEEDED"
      [] condition = "fragment" -> "DESTINATION_UNREACHABLE"

\* A packet that cannot be taken: its source is told, ICMP errors included.  The
\* function known gives the bindings the ARP module has.
IpRefuses(known) ==
    /\ IpGetNextEvent("mux2ip")
    /\ LET p == Head(fifo["mux2ip"]).payload IN
         /\ ForThisHost(p)
         /\ p.condition # "whole"
         /\ SendPacket("mux2ip", ICMPErrorPacket(p.src, ErrorFor(p.condition), p),
                       known[p.src])

\* A whole packet for this host goes up.
IpDelivers ==
    /\ IpGetNextEvent("mux2ip")
    /\ LET p == Head(fifo["mux2ip"]).payload IN
         /\ ForThisHost(p)
         /\ p.condition = "whole"
         /\ Receive("ip", "mux2ip", <<[to |-> "ip2ipmux", msg |-> p]>>)
    /\ UNCHANGED asking

\* A packet comes down.
IpSends(known) ==
    /\ IpGetNextEvent("ipmux2ip")
    /\ LET p == Head(fifo["ipmux2ip"]) IN SendPacket("ipmux2ip", p, known[p.dest])

\* The second half of SendPacket: the answer is read from the ARP pipe.  Any
\* address that is not blank counts, whatever the flag.  A broadcast packet goes
\* out to the address in the answer, which is blank when there is no entry.
Resolved(r) == r.ethernetaddr # ETHERNET_BLANK_ADDR \/ r.flag = "RESPONSE_OK"

\* Fault: a packet without an address goes back to wait behind the others.
IpHearsArpRequeues ==
    /\ asking # <<>> /\ out["ip"] = <<>> /\ fifo["arp2ip"] # <<>>
    /\ LET p == asking[1].packet
           r == Head(fifo["arp2ip"]) IN
         Receive("ip", "arp2ip",
                 IF Resolved(r) \/ p.dest = IP_ADDRESS_BROADCAST
                 THEN <<[to |-> "ip2mux",
                         msg |-> Frame(MyEthernetAddr, r.ethernetaddr, "PROTO_IP",
                                       p)]>>
                 ELSE <<[to |-> "ipmux2ip", msg |-> p]>>)
    /\ asking' = <<>>

IpHearsArp ==
    /\ asking # <<>> /\ out["ip"] = <<>> /\ fifo["arp2ip"] # <<>>
    /\ LET p == asking[1].packet
           r == Head(fifo["arp2ip"]) IN
         Receive("ip", "arp2ip",
                 IF Resolved(r) \/ p.dest = IP_ADDRESS_BROADCAST
                 THEN <<[to |-> "ip2mux",
                         msg |-> Frame(MyEthernetAddr, r.ethernetaddr, "PROTO_IP",
                                       p)]>>
                 ELSE <<>>)
    /\ asking' = <<>>

IpNext(known) ==
    \/ IpIgnores \/ IpRefuses(known) \/ IpDelivers \/ IpSends(known) \/ IpHearsArp
=============================================================================
