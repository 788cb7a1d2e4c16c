------------------------------ MODULE Driver2 ------------------------------
(***************************************************************************)
(* src/lowlevel/device_driver2.cc: the driver that reads frames with pcap  *)
(* and writes them with libnet, in the one event loop of its process.      *)
(***************************************************************************)
EXTENDS Frames, Minet

VARIABLE sent   \* the frames that went out on the link

\* Init accepts ethernet_mux and adds pcap as an external connection.
DriverHandles == <<"mux2ether", "pcap">>

DriverInit == sent = {}

\* ProcessIncoming.
DriverReads ==
    /\ GetNextEvent("driver", DriverHandles, "pcap")
    /\ Receive("driver", "pcap", <<[to |-> "ether2mux", msg |-> Head(fifo["pcap"])]>>)
    /\ UNCHANGED sent

\* ProcessOutgoing lets out the host's own ARP and IP frames and discards others.
MaySend(raw) ==
    /\ raw.srcaddr = MyEthernetAddr
    /\ raw.protocoltype \in {"PROTO_ARP", "PROTO_IP"}

DriverWrites ==
    /\ GetNextEvent("driver", DriverHandles, "mux2ether")
    /\ LET raw == Head(fifo["mux2ether"]) IN
         sent' = IF MaySend(raw) THEN sent \cup {raw} ELSE sent
    /\ Receive("driver", "mux2ether", <<>>)

DriverNext == DriverReads \/ DriverWrites
=============================================================================
