----------------------------- MODULE Conversion -----------------------------
(***************************************************************************)
(* What converting a selection promises, without windows, properties and   *)
(* events: the requestor receives the units that the owner offered, each   *)
(* once and in order, and it considers the conversion ended only when the  *)
(* owner will offer no more and nothing is missing.                        *)
(***************************************************************************)
EXTENDS Naturals, Sequences

CONSTANTS Requests   \* the conversions

VARIABLES
    offered,   \* the number of units that the owner has offered so far
    closed,    \* the conversions for which the owner will offer no more
    received,  \* the units that the requestor received
    status     \* whether it still waits ("open"), has "ended" or is "gone"

vars == <<offered, closed, received, status>>

Units(n) == [i \in 1..n |-> i]

Init ==
    /\ offered = [r \in Requests |-> 0]
    /\ closed = {}
    /\ received = [r \in Requests |-> <<>>]
    /\ status = [r \in Requests |-> "open"]

\* the owner offers more units, or says that these are all, or refuses
Offer(r) ==
    /\ r \notin closed
    /\ offered' = [offered EXCEPT ![r] = offered'[r]]
    /\ offered'[r] \in Nat /\ offered'[r] >= offered[r]
    /\ closed' \in {closed, closed \cup {r}}
    /\ UNCHANGED <<received, status>>

\* the requestor receives units it has not received yet, and may see the end
Receive(r) ==
    /\ status[r] = "open"
    /\ \E n \in Len(received[r])..offered[r], s \in {"open", "ended"} :
        /\ received' = [received EXCEPT ![r] = Units(n)]
        /\ status' = [status EXCEPT ![r] = s]
        /\ s = "ended" => r \in closed /\ n = offered[r]
    /\ UNCHANGED <<offered, closed>>

\* requestors may go away; the owner may then never learn of it
Leave(S) ==
    /\ status' = [r \in Requests |-> IF r \in S THEN "gone" ELSE status[r]]
    /\ UNCHANGED <<offered, closed, received>>

Next == (\E r \in Requests : Offer(r) \/ Receive(r)) \/ \E S \in SUBSET Requests : Leave(S)

Spec == Init /\ [][Next]_vars
=============================================================================
