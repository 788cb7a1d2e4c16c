------------------------------- MODULE Minet -------------------------------
(***************************************************************************)
(* The event loop and the pipes that join the modules of the stack:        *)
(* MinetGetNextEvent, MinetReceive and MinetSend of src/libminet/Minet.cc. *)
(*                                                                         *)
(* Every module is a process.  It takes one event at a time from its first *)
(* ready handle, and writes its messages to named pipes with blocking      *)
(* writes.  A handler reads and writes only the memory of its own process  *)
(* between its sends, so one handler is one step that leaves its messages, *)
(* in order, in out[m]; the module takes its next event when the pipes     *)
(* have accepted them all.                                                 *)
(***************************************************************************)
EXTENDS Naturals, Sequences

CONSTANT PIPE_CAP   \* messages a pipe holds before a write to it blocks

ASSUME PipeAssumption == PIPE_CAP \in Nat /\ PIPE_CAP > 0

VARIABLES
    fifo,   \* fifo[f]: the messages in the pipe f
    out     \* out[m]: the messages module m still has to write, each [to, msg]

\* MinetGetNextEvent of module m returns the handle that reads pipe f: the first
\* one of m's list, in the order of its MinetConnect and MinetAccept calls,
\* whose pipe select() found readable.
GetNextEvent(m, handles, f) ==
    /\ out[m] = <<>>
    /\ fifo[f] # <<>>
    /\ \A i, j \in DOMAIN handles :
          (handles[i] = f /\ j < i) => fifo[handles[j]] = <<>>

\* The handler's effect on the pipes: its event is read and its sends are queued.
Receive(m, f, sends) ==
    /\ fifo' = [fifo EXCEPT ![f] = Tail(@)]
    /\ out'  = [out EXCEPT ![m] = sends]

\* MinetSend: the write completes when the pipe has room.
Send(m) ==
    /\ out[m] # <<>>
    /\ LET f == Head(out[m]).to IN
         /\ Len(fifo[f]) < PIPE_CAP
         /\ fifo' = [fifo EXCEPT ![f] = Append(@, Head(out[m]).msg)]
    /\ out' = [out EXCEPT ![m] = Tail(@)]

\* Module m is inside a write to pipe f, which is full.
BlockedOn(m, f) ==
    /\ out[m] # <<>>
    /\ Head(out[m]).to = f
    /\ Len(fifo[f]) >= PIPE_CAP
=============================================================================
