------------------------------- MODULE MCInput -------------------------------
(* What reaches the manager through its own objects, for TLC: the pointer and *)
(* its grabs, the keyboard, the icons of the system tray, and the signals of  *)
(* objects. They share no state, so each behaviour is one of one component    *)
(* ("part"), and the others rest in one of their initial states.              *)
EXTENDS Pointer, Keyboard, Tray, ObjectSignals

\* two keymaps of two keys: what was on one key is on the other, or in another column
MCKeymap == << <<<<"a", "b">>, <<"c">>>>, <<<<"c", "a">>, <<"a">>>> >>

MCTold == [s \in {"s"} |-> "s::connected"]

VARIABLE part

KeyboardRests == haveXkb = TRUE /\ KeyboardInit
Undocked      == [parent |-> "root", info |-> "none", shown |-> "no", size |-> "own", watched |-> FALSE]
TrayRests     == xicon = [w \in Icon |-> Undocked] /\ TrayInit

\* Bounds the tray: the last act is that an icon goes elsewhere which did all the
\* others, as in a second docking that an older move overtakes.
Untouched(w) ==
    /\ xicon[w].parent = "root" /\ ~xicon[w].watched /\ w \notin Docked
    /\ docking # <<>> => docking.win # w
    /\ \A i \in DOMAIN arrived : arrived[i].win # w
LastIsMove == asked # asked' /\ asked' = MaxActs => \E w \in Icon : Leave(w) /\ \A v \in Icon \ {w} : Untouched(v)

MCInit ==
    /\ PointerInit /\ ObjectInit
    /\ \/ part \in {"pointer", "objects"} /\ KeyboardRests /\ TrayRests
       \/ part = "keyboard" /\ KeyboardInit /\ TrayRests
       \/ part = "tray" /\ TrayInit /\ KeyboardRests

MCNext ==
    /\ part' = part
    /\ \/ part = "pointer" /\ PointerNext /\ UNCHANGED <<keyboardVars, trayVars, objectVars>>
       \/ part = "keyboard" /\ KeyboardNext /\ UNCHANGED <<pointerVars, trayVars, objectVars>>
       \/ part = "tray" /\ TrayNext /\ LastIsMove /\ UNCHANGED <<pointerVars, keyboardVars, objectVars>>
       \/ part = "objects" /\ ObjectNext /\ UNCHANGED <<pointerVars, keyboardVars, trayVars>>

MCSpec == MCInit /\ [][MCNext]_<<part, pointerVars, keyboardVars, trayVars, objectVars>>
=============================================================================
