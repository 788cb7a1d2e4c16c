---------------------------- MODULE MCSockStack ----------------------------
(***************************************************************************)
(* Instances of the socket stack for TLC.                                  *)
(***************************************************************************)
EXTENDS SockStackProps

\* The calls an application makes on datagram sockets, which stream sockets that do
\* not accept share, and on stream sockets.
DatagramCalls == {"mSOCKET", "mBIND", "mLISTEN", "mCONNECT", "mREAD", "mWRITE", "mCLOSE"}
StreamCalls   == DatagramCalls \cup {"mACCEPT", "mOTHER"}
=============================================================================
