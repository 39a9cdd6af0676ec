----------------------------- MODULE MCTakeOver -----------------------------
(* The clients of one manager, and the windows that one manager after the     *)
(* other gets, for TLC. The two share no state in the model, so a behaviour   *)
(* is one of one of them ("part") while the other rests.                      *)
EXTENDS MCClientFocus, TakeOver

VARIABLE part

MCInit == Init /\ TakeOverInit /\ (part = "takeover" \/ (part = "clients" /\ raises))

MCNext ==
    /\ part' = part
    /\ \/ part = "clients" /\ Next /\ UNCHANGED takeVars
       \/ part = "takeover" /\ TakeOverNext /\ UNCHANGED vars

MCSpec == MCInit /\ [][MCNext]_<<part, vars, takeVars>>
=============================================================================
