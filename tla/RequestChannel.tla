--------------------------- MODULE RequestChannel ---------------------------
(***************************************************************************)
(* What the socket module and a transport module promise each other        *)
(* (docs/sockint.semantics, "Request/Response Ordering"): every request is *)
(* answered exactly once, and the answers are applied in the order in      *)
(* which the requests were made, although they do not say which request    *)
(* they answer.  Requests are numbered 1, 2, ... as they are made.         *)
(***************************************************************************)
EXTENDS Naturals

VARIABLES
    made,      \* how many requests were made
    pending,   \* the requests the client still waits for
    todo,      \* those the server has not handled
    done       \* those it has answered and the client has not heard of

chanVars == <<made, pending, todo, done>>

\* n is the oldest of the requests S.
Oldest(n, S) == n \in S /\ \A m \in S : n <= m

Init == made = 0 /\ pending = {} /\ todo = {} /\ done = {}

\* The client makes a request.
Ask ==
    /\ made' = made + 1
    /\ pending' = pending \cup {made + 1}
    /\ todo' = todo \cup {made + 1}
    /\ UNCHANGED done

\* The server handles the oldest one.
Answer ==
    \E n \in todo :
      /\ Oldest(n, todo)
      /\ todo' = todo \ {n}
      /\ done' = done \cup {n}
      /\ UNCHANGED <<made, pending>>

\* The client matches the oldest answer to its oldest request.
Apply ==
    \E n \in done :
      /\ Oldest(n, done) /\ Oldest(n, pending)
      /\ done' = done \ {n}
      /\ pending' = pending \ {n}
      /\ UNCHANGED <<made, todo>>

Next == Ask \/ Answer \/ Apply

Spec == Init /\ [][Next]_chanVars

FairSpec == Spec /\ WF_chanVars(Answer) /\ WF_chanVars(Apply)
=============================================================================
