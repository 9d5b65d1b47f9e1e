-------------------------------- MODULE Feed --------------------------------
(***************************************************************************)
(* What the event stream promises: a log that only grows at its end, and   *)
(* clients to which the entries of their team are delivered one by one, in *)
(* order, none twice and none left out.                                    *)
(***************************************************************************)
EXTENDS Naturals, Sequences

CONSTANTS Entries,  \* what may be logged: records with the fields seq and team
          Clients,
          Scope,    \* the team a client follows, or All
          All

VARIABLES log,      \* the entries published
          seen      \* the sequence numbers delivered to a client

vars == <<log, seen>>

Follows(c, e) == Scope[c] \in {All, e.team}

Delivered(c) == {seen[c][i] : i \in 1..Len(seen[c])}

Init == log = {} /\ seen = [c \in Clients |-> <<>>]

\* A transaction appends its entries behind everything already published.
Publish ==
    /\ \E new \in SUBSET Entries :
         /\ \A e \in new, f \in log : f.seq < e.seq
         /\ log' = log \cup new
    /\ UNCHANGED seen

\* The earliest entry the client has not seen is the next one delivered.
Deliver(c) ==
    /\ \E e \in log :
         /\ Follows(c, e)
         /\ \A s \in Delivered(c) : s < e.seq
         /\ \A f \in log : Follows(c, f) /\ f.seq < e.seq => f.seq \in Delivered(c)
         /\ seen' = [seen EXCEPT ![c] = Append(@, e.seq)]
    /\ UNCHANGED log

Next == Publish \/ \E c \in Clients : Deliver(c)

Spec == Init /\ [][Next]_vars /\ \A c \in Clients : WF_vars(Deliver(c))
=============================================================================
