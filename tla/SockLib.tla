------------------------------ MODULE SockLib ------------------------------
(***************************************************************************)
(* One application on the socket library, src/libminet/minet_socket.cc.    *)
(* Every library call sends one SockLibRequestResponse and blocks in       *)
(* MinetReceive for the answer, so there is never more than one call.  The *)
(* application may pass any socket number, open or not.                    *)
(***************************************************************************)
EXTENDS Minet, SockInt

CONSTANTS
    AppTransports,   \* the transports the application opens sockets for
    AppCallTypes,    \* the calls it makes
    RemotePorts,     \* the ports it connects to
    DataSizes,       \* the sizes of the buffers it writes
    MAX_CALLS        \* bound: how many calls it makes

ASSUME LibAssumption ==
    /\ AppTransports \subseteq Transport
    /\ AppCallTypes \subseteq slrrType \ {"mSTATUS"}
    /\ RemotePorts \subseteq Port \ {PORT_ANY}
    /\ DataSizes \subseteq Nat
    /\ MAX_CALLS \in Nat

VARIABLES
    waiting,   \* the application is inside a library call
    calls      \* how many calls it has made

libVars == <<waiting, calls>>

LibInit == waiting = FALSE /\ calls = 0

\* MinetSend(sock, slrr), for a call of this type on fd.
Call(type, fd, c, data) ==
    /\ ~ waiting
    /\ calls < MAX_CALLS
    /\ type \in AppCallTypes
    /\ fifo' = [fifo EXCEPT !["app2sock"] =
                  Append(@, [type |-> type, connection |-> c, sockfd |-> fd,
                             data |-> data, bytes |-> 0, error |-> "EOK"])]
    /\ waiting' = TRUE
    /\ calls' = calls + 1
    /\ UNCHANGED out

\* MinetReceive(sock, slrr): the call returns.
LibReturn ==
    /\ waiting
    /\ fifo["sock2app"] # <<>>
    /\ fifo' = [fifo EXCEPT !["sock2app"] = Tail(@)]
    /\ waiting' = FALSE
    /\ UNCHANGED <<calls, out>>

minet_socket ==
    \E p \in AppTransports :
      Call("mSOCKET", 0, [NoConnection EXCEPT !.protocol = p], 0)

minet_bind ==
    \E fd \in Sock, ip \in {IP_ADDRESS_ANY, MyIPAddr}, port \in Port :
      Call("mBIND", fd, [NoConnection EXCEPT !.src = ip, !.srcport = port], 0)

minet_connect ==
    \E fd \in Sock, ip \in Remotes, port \in RemotePorts :
      Call("mCONNECT", fd, [NoConnection EXCEPT !.dest = ip, !.destport = port], 0)

minet_write ==
    \E fd \in Sock, len \in DataSizes : Call("mWRITE", fd, NoConnection, len)

\* The buffer a read sends along is never looked at.
minet_read   == \E fd \in Sock : Call("mREAD", fd, NoConnection, 0)
minet_listen == \E fd \in Sock : Call("mLISTEN", fd, NoConnection, 0)
minet_accept == \E fd \in Sock : Call("mACCEPT", fd, NoConnection, 0)
minet_close  == \E fd \in Sock : Call("mCLOSE", fd, NoConnection, 0)

\* minet_recvfrom, minet_sendto, minet_set_blocking, minet_set_nonblocking,
\* minet_can_read_now and minet_can_write_now.
minet_other  == \E fd \in Sock : Call("mOTHER", fd, NoConnection, 0)

LibCall ==
    \/ minet_socket \/ minet_bind \/ minet_listen \/ minet_accept \/ minet_connect
    \/ minet_read \/ minet_write \/ minet_close \/ minet_other
=============================================================================
