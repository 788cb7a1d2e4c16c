----------------------------- MODULE ArpModule -----------------------------
(***************************************************************************)
(* src/core/arp_module.cc and the ARPCache of src/libminet/arp.cc.         *)
(***************************************************************************)
EXTENDS Frames, Minet

VARIABLE cache   \* ARPCache: the Ethernet address last heard for an IP address

\* The order of MinetConnect and MinetAccept in main.
ArpHandles == <<"mux2arp", "ip2arp">>

\* ARPCache::Update.
CacheUpdate(ipaddr, ethernetaddr) ==
    cache' = [i \in DOMAIN cache \cup {ipaddr} |->
                 IF i = ipaddr THEN ethernetaddr ELSE cache[i]]

\* ARPCache::Lookup turns a question into its answer.
CacheLookup(r) ==
    IF r.ipaddr \in DOMAIN cache
    THEN [ipaddr |-> r.ipaddr, ethernetaddr |-> cache[r.ipaddr],
          flag |-> "RESPONSE_OK"]
    ELSE [r EXCEPT !.flag = "RESPONSE_UNKNOWN"]

\* main answers for this host from the start.
ArpInit == cache = [i \in {MyIPAddr} |-> MyEthernetAddr]

ToIp(r)     == [to |-> "arp2ip", msg |-> r]
ArpToMux(f) == [to |-> "arp2mux", msg |-> f]

\* The request that main broadcasts for a question it cannot answer.
Solicitation(ipaddr) ==
    Frame(MyEthernetAddr, ETHERNET_BROADCAST_ADDR, "PROTO_ARP",
          NewARPPacket("Request", MyEthernetAddr, MyIPAddr, ETHERNET_BLANK_ADDR,
                       ipaddr))

\* Fault: a question that has no answer yet gets none.
ArpHearsIpSilent ==
    /\ GetNextEvent("arp", ArpHandles, "ip2arp")
    /\ LET r == CacheLookup(Head(fifo["ip2arp"])) IN
         Receive("arp", "ip2arp",
                 IF r.flag = "RESPONSE_UNKNOWN"
                 THEN <<ArpToMux(Solicitation(r.ipaddr))>> ELSE <<ToIp(r)>>)
    /\ UNCHANGED cache

\* The IP module asks.  The answer goes first; it may be that there is none yet.
ArpHearsIp ==
    /\ GetNextEvent("arp", ArpHandles, "ip2arp")
    /\ LET r == CacheLookup(Head(fifo["ip2arp"])) IN
         Receive("arp", "ip2arp",
                 IF r.flag = "RESPONSE_UNKNOWN"
                 THEN <<ToIp(r), ArpToMux(Solicitation(r.ipaddr))>>
                 ELSE <<ToIp(r)>>)
    /\ UNCHANGED cache

\* The reply to a request for this host.
ReplyTo(arp) ==
    Frame(MyEthernetAddr, arp.senderhw, "PROTO_ARP",
          NewARPPacket("Reply", MyEthernetAddr, MyIPAddr, arp.senderhw,
                       arp.senderip))

\* Fault: the IP module is told of every reply, asked or not.
ArpHearsMuxTells ==
    /\ GetNextEvent("arp", ArpHandles, "mux2arp")
    /\ LET arp == Head(fifo["mux2arp"]).payload IN
         /\ CacheUpdate(arp.senderip, arp.senderhw)
         /\ Receive("arp", "mux2arp",
                    <<ToIp([ipaddr |-> arp.senderip, ethernetaddr |-> arp.senderhw,
                            flag |-> "RESPONSE_OK"])>>)

\* An ARP packet comes from the link.  Every IP to Ethernet packet updates the
\* cache, that of this host's own address too.
ArpHearsMux ==
    /\ GetNextEvent("arp", ArpHandles, "mux2arp")
    /\ LET arp == Head(fifo["mux2arp"]).payload IN
         /\ IF arp.ipToEthernet THEN CacheUpdate(arp.senderip, arp.senderhw)
                                ELSE UNCHANGED cache
         /\ Receive("arp", "mux2arp",
                    IF IsIPToEthernetRequest(arp) /\ arp.targetip = MyIPAddr
                    THEN <<ArpToMux(ReplyTo(arp))>> ELSE <<>>)

ArpNext == ArpHearsIp \/ ArpHearsMux
=============================================================================
