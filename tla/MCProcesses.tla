----------------------------- MODULE MCProcesses -----------------------------
(* The programs that the manager starts: children and their exit callbacks,   *)
(* startup sequences and their timeouts. The two share no state, so a         *)
(* behaviour is one of one of them ("part") while the other rests in its      *)
(* initial state.                                                             *)
EXTENDS ChildProcesses, StartupNotification

CONSTANTS p1, p2, c1, c2, c3, s1, s2

TwoPids        == {p1, p2}
ThreeCallbacks == {c1, c2, c3}
TwoIds         == {s1, s2}

VARIABLE part

MCInit == part \in {"children", "startup"} /\ Init /\ StartupInit

MCNext ==
    /\ part' = part
    /\ \/ part = "children" /\ Next /\ UNCHANGED startupVars
       \/ part = "startup" /\ StartupNext /\ UNCHANGED vars

MCSpec ==
    /\ MCInit /\ [][MCNext]_<<part, vars, startupVars>>
    /\ part = "children" => Fairness
    /\ part = "startup" => StartupFairness
=============================================================================
