----------------------------- MODULE IcmpModule -----------------------------
(***************************************************************************)
(* src/core/icmp_module.cc, with ICMPPacket::respond of                    *)
(* src/libminet/icmp.cc, and the branch of src/core/sock_module.cc that    *)
(* hears it.  Neither keeps a state about ICMP: no socket has a connection *)
(* with protocol ICMP.                                                     *)
(***************************************************************************)
EXTENDS Frames, Minet

IcmpHandles == <<"ipmux2icmp", "sock2icmp">>

\* The reply type handle_response writes over a request's.
ReplyType(type) ==
    CASE type = "ECHO_REQUEST"        -> "ECHO_REPLY"
      [] type = "TIMESTAMP_REQUEST"   -> "TIMESTAMP_REPLY"
      [] type = "ADDRESSMASK_REQUEST" -> "ADDRESSMASK_REPLY"

\* Fault: the addresses of the reply are not swapped.
RespondUnswapped(p) ==
    IF p.type \in ICMPRequest THEN [p EXCEPT !.type = ReplyType(p.type)] ELSE p

\* respond: a request becomes a reply with the addresses swapped; the swapped
\* header is not written back to any other packet.
Respond(p) ==
    IF p.type \in ICMPRequest
    THEN [p EXCEPT !.src = p.dest, !.dest = p.src, !.type = ReplyType(p.type)]
    ELSE p

\* requires_reply after respond.  No constructor sets requires_response, and
\* neither does handle_response for a timestamp, nor respond for an unknown type.
RequiresReply(p) ==
    CASE p.type \in {"ECHO_REQUEST", "ADDRESSMASK_REQUEST"} -> {TRUE}
      [] p.type \in ICMPError \cup ICMPReply                -> {FALSE}
      [] OTHER                                              -> BOOLEAN

\* The ICMP message goes back down, or as a WRITE to the socket module.
IcmpHearsMux ==
    /\ GetNextEvent("icmp", IcmpHandles, "ipmux2icmp")
    /\ LET p == Head(fifo["ipmux2icmp"]) IN
         \E reply \in RequiresReply(p) :
            Receive("icmp", "ipmux2icmp",
                    <<[to  |-> IF reply THEN "icmp2ipmux" ELSE "icmp2sock",
                       msg |-> Respond(p)]>>)

\* STATUS is all that the socket module sends.
IcmpHearsSock ==
    /\ GetNextEvent("icmp", IcmpHandles, "sock2icmp")
    /\ Receive("icmp", "sock2icmp", <<>>)

IcmpNext == IcmpHearsMux \/ IcmpHearsSock

----------------------------------------------------------------------------
\* The socket module, as ICMP sees it: ProcessICMPMessage finds no socket for the
\* connection and answers each WRITE with STATUS and ENOMATCH.
SockHearsIcmp ==
    /\ GetNextEvent("sock", <<"icmp2sock">>, "icmp2sock")
    /\ Receive("sock", "icmp2sock", <<[to |-> "sock2icmp", msg |-> "STATUS"]>>)
=============================================================================
