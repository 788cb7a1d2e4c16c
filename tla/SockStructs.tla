---------------------------- MODULE SockStructs ----------------------------
(***************************************************************************)
(* The tables of the socket module: src/libminet/sock_mod_structs.cc and   *)
(* .h.  socks is SockStatus::sockArray and ports is PortStatus::portArray. *)
(* Of the NUM_IP_INTERFACES rows of portArray only the first is ever       *)
(* reached: every entry of portArrayIndex is IP_ADDRESS_ANY and nothing    *)
(* changes it, so a look-up for any other address fails.                   *)
(***************************************************************************)
EXTENDS SockInt

VARIABLES
    socks,   \* socks[s]: the record of socket s
    ports    \* ports[p]: the socket that owns port p, 0 when it is free

Status == {"FREE", "UNBOUND", "BOUND", "LISTENING", "ACCEPT_PENDING",
           "CONNECT_PENDING", "CONNECTED", "READ_PENDING", "WRITE_PENDING"}

\* toApp holds the application's handle or 0; there is one application, so it is
\* a flag here.  bin is the size of the input buffer.  fromApp and the three
\* forward_*_notification flags are never read; blocking is always 1.
SockRecord ==
    [status : Status, connection : Connection, bin : Nat, toApp : BOOLEAN]

\* The default constructor, which CloseSocket assigns.
FreeRecord ==
    [status |-> "FREE", connection |-> NoConnection, bin |-> 0, toApp |-> FALSE]

SockStatusInit == socks = [s \in Sock |-> FreeRecord]
PortStatusInit == ports = [p \in Port |-> 0]

----------------------------------------------------------------------------
(* SockStatus *)

\* FindFreeSock returns s.
FindFreeSock(s) ==
    /\ socks[s].status = "FREE"
    /\ \A t \in 1 .. s - 1 : socks[t].status # "FREE"

\* FindFreeSock returns -1.
NoFreeSock == \A s \in Sock : socks[s].status # "FREE"

\* c with its remote end open.
RemoteOpen(c) == [c EXCEPT !.dest = IP_ADDRESS_ANY, !.destport = PORT_ANY]

\* The test FindConnection applies to record s: the five fields are equal, or s
\* waits in accept and only its remote end is open.
HasConnection(s, c) ==
    LET mine == socks[s].connection IN
      \/ mine = c
      \/ /\ mine = RemoteOpen(c)
         /\ socks[s].status = "ACCEPT_PENDING"

\* FindConnection(c) returns s.
FindConnection(s, c) ==
    /\ HasConnection(s, c)
    /\ \A t \in 1 .. s - 1 : ~ HasConnection(t, c)

\* FindConnection(c) returns -1.
NoSuchConnection(c) == \A s \in Sock : ~ HasConnection(s, c)

CloseSocket(s) == [socks EXCEPT ![s] = FreeRecord]
SetStatus(s, stat) == [socks EXCEPT ![s] = [@ EXCEPT !.status = stat]]

----------------------------------------------------------------------------
(* PortStatus *)

\* FindFreePort(IP_ADDRESS_ANY, _) finds p; port 0 is never handed out.
FindFreePort(p) ==
    /\ p \in Port \ {PORT_ANY}
    /\ ports[p] = 0
    /\ \A q \in 1 .. p - 1 : ports[q] # 0

\* AssignPort(IP_ADDRESS_ANY, p, s).
AssignPort(p, s) == [ports EXCEPT ![p] = s]
=============================================================================
