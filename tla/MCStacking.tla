----------------------------- MODULE MCStacking -----------------------------
(* Two small instances of Stacking for TLC, side by side: in "order" the      *)
(* relation is what the clients first said and the focus stays, and a drawin  *)
(* and a special layer are there; in "loops" clients change their minds and   *)
(* the focus moves.                                                           *)
EXTENDS Stacking

CONSTANTS w1, w2, w3, d1

ThreeWindows == {w1, w2, w3}
OneDrawin    == {d1}

Symmetric == Permutations(Windows)

VARIABLE part

L == INSTANCE Stacking WITH Drawins <- {}, Layers <- {"fullscreen"}, Env <- {"retarget", "focus"}

MCInit == (part = "order" /\ Init) \/ (part = "loops" /\ L!Init)
MCNext ==
    /\ part' = part
    /\ (part = "order" /\ Next) \/ (part = "loops" /\ L!Next)
MCSpec == MCInit /\ [][MCNext]_<<part, vars>>
=============================================================================
