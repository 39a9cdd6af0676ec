---------------------------- MODULE MCSelections ----------------------------
(* Small instances of Selections for TLC. *)
EXTENDS Selections, TLC

CONSTANTS w1, w2, g1, c1, v1, v2

OneGetter == g1 :> v1
OneAndOne == g1 :> v1 @@ c1 :> v2
=============================================================================
