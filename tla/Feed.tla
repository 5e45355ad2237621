-------------------------------- MODULE Feed --------------------------------
(***************************************************************************)
(* What the hub promises a dashboard: from the moment it has joined, it is *)
(* given the broadcasts one after the other, none skipped, none twice and  *)
(* none out of order, until its connection ends.                           *)
(***************************************************************************)
EXTENDS Integers

CONSTANT Clients  \* WebSocket connections

VARIABLES
    emitted,  \* how many messages were emitted; they are numbered from 1
    joined,   \* the connections that joined
    read      \* the last message each of them was given

vars == <<emitted, joined, read>>

Init ==
    /\ emitted = 0
    /\ joined = {}
    /\ read = [c \in Clients |-> 0]

Emit ==
    /\ emitted' = emitted + 1
    /\ UNCHANGED <<joined, read>>

\* Messages that wait to be broadcast are still to come for one that joins.
Join(c) ==
    /\ c \notin joined
    /\ joined' = joined \cup {c}
    /\ \E n \in 0..emitted : read' = [read EXCEPT ![c] = n]
    /\ UNCHANGED emitted

Deliver(c) ==
    /\ c \in joined
    /\ read[c] < emitted
    /\ read' = [read EXCEPT ![c] = @ + 1]
    /\ UNCHANGED <<emitted, joined>>

Next == Emit \/ \E c \in Clients : Join(c) \/ Deliver(c)

Spec == Init /\ [][Next]_vars

=============================================================================
