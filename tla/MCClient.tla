------------------------------- MODULE MCClient -------------------------------
(* What the manager keeps of a client and tells others of it, for TLC: the    *)
(* special layers, the geometry, the states, the properties and the desktops. *)
(* Each behaviour is one of one component ("part"), the others rest in one of *)
(* their initial states.                                                      *)
EXTENDS SpecialLayers, ClientGeometry, WmState, Properties, Desktops

A(x, y, w, h) == [x |-> x, y |-> y, width |-> w, height |-> h]
MCAreas == {A(0, 0, 1, 2), A(1, 0, 5, 3)}

NoHints == [gravity |-> "none", minW |-> 0, minH |-> 0, maxW |-> 0, maxH |-> 0, baseW |-> 0, baseH |-> 0,
            incW |-> 0, incH |-> 0, minAspect |-> <<>>, maxAspect |-> <<>>]
Bounded == [NoHints EXCEPT !.gravity = "center", !.minW = 2, !.incW = 2, !.incH = 1, !.maxW = 4]
Ratio   == [NoHints EXCEPT !.gravity = "static", !.minAspect = <<1, 2>>, !.maxAspect = <<1, 1>>,
                           !.baseW = 1, !.incW = 2, !.incH = 1]
MCHints     == {Bounded, Ratio}
MCFirstArea == A(0, 0, 4, 4)
MCRequests  == {[width |-> 3], [border |-> 1, x |-> 1]}

VARIABLE part

GeometryRests == hints = Bounded /\ GeometryInit
StateRests    == looping = TRUE /\ shown = {} /\ StateInit
PropRests     == type = "none" /\ PropertiesInit

MCInit ==
    /\ Init /\ DesktopInit
    /\ \/ part \in {"layers", "desktops"} /\ GeometryRests /\ StateRests /\ PropRests
       \/ part = "geometry" /\ GeometryInit /\ StateRests /\ PropRests
       \/ part = "states" /\ StateInit /\ GeometryRests /\ PropRests
       \/ part = "properties" /\ PropertiesInit /\ GeometryRests /\ StateRests

MCNext ==
    /\ part' = part
    /\ \/ part = "layers" /\ Next /\ UNCHANGED <<geometryVars, stateVars, propVars, desktopVars>>
       \/ part = "geometry" /\ GeometryNext /\ UNCHANGED <<vars, stateVars, propVars, desktopVars>>
       \/ part = "states" /\ StateNext /\ UNCHANGED <<vars, geometryVars, propVars, desktopVars>>
       \/ part = "properties" /\ PropertiesNext /\ UNCHANGED <<vars, geometryVars, stateVars, desktopVars>>
       \/ part = "desktops" /\ DesktopNext /\ UNCHANGED <<vars, geometryVars, stateVars, propVars>>

MCSpec == MCInit /\ [][MCNext]_<<part, vars, geometryVars, stateVars, propVars, desktopVars>>
=============================================================================
