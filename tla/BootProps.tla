----------------------------- MODULE BootProps -----------------------------
(***************************************************************************)
(* What holds of every order in which the processes of the stack start,    *)
(* run and end.                                                            *)
(***************************************************************************)
EXTENDS Boot

\* Types.  No main asks MinetConnect or MinetAccept for a pair it does not know (it
\* would Die), and both ends of a pipe are opened by the two processes it joins.
BootTypeOK ==
    /\ \A m \in Modules :
          /\ pos[m] \in 0 .. Len(Script(m))
          /\ \A i \in DOMAIN Script(m) :
                LET p == Script(m)[i] IN
                  /\ m \in {p[1], p[2]}
                  /\ p[2] # "monitor" =>
                        <<m, OtherEnd(m, p)>> \in ConnectPairs \cup AcceptPairs
    /\ dead \subseteq Modules
    /\ deinit \in BOOLEAN

\* The processes that wait in open() for one that is not there yet.
Waiting ==
    {m \in Modules \ dead :
        ~ InLoop(m) /\ ~ IsAt(OtherEnd(m, NextPipe(m)), NextPipe(m))}

\* MinetConnect and MinetAccept open the two pipes of a pair in opposite orders, the
\* monitor accepts the modules in an order of its own, and every main makes its
\* calls in the order its author chose.  While nobody ends, no process waits for
\* ever: among any processes that wait, one waits for a process that is not among
\* them.
NobodyStuck ==
    dead = {} =>
        \A S \in SUBSET Waiting :
            S # {} => \E m \in S : OtherEnd(m, NextPipe(m)) \notin S

\* Every process then reaches its event loop, in whatever order they start.
BootCompletes == <>(dead # {} \/ \A m \in Modules : InLoop(m))

\* No part of a stack that is up outlives another: when a process other than the
\* monitor ends, all of them end, the application apart, which reads only in a
\* call.  (While the stack comes up it is not so: a process that waits in open()
\* for one that has ended waits for ever, and its neighbours hear no end of file.)
StackFalls ==
    (\A m \in Modules : InLoop(m)) /\ dead \ {"monitor"} # {}
        ~> Modules \ {"socklib"} \subseteq dead
=============================================================================
