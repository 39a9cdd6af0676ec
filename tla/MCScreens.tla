------------------------------ MODULE MCScreens ------------------------------
(* What the manager shows, for TLC: screens on two monitors that are          *)
(* exchanged, mirrored, unplugged or shown by an old driver; the window of a  *)
(* drawin; the wallpaper; and the configuration that asks for screens. Each   *)
(* behaviour is one of one component ("part"), the others rest.               *)
EXTENDS Screens, Drawins, Wallpaper, Configuration

Left  == [x |-> 0, y |-> 0, w |-> 2, h |-> 2]
Right == [x |-> 2, y |-> 0, w |-> 2, h |-> 2]
Wide  == [x |-> 0, y |-> 0, w |-> 4, h |-> 1]

Mon(n, a) == [xid |-> n, area |-> a, outs |-> <<n>>]

MCLayouts == {
    <<Mon("A", Left), Mon("B", Right)>>,
    <<Mon("A", Wide), Mon("B", Left)>>,
    <<[Mon("A", Left) EXCEPT !.outs = <<>>], Mon("B", Right)>>,
    <<>>,
    <<[Mon("A", Left) EXCEPT !.outs = <<"default">>]>>}
MCRoot == [x |-> 0, y |-> 0, w |-> 4, h |-> 2]
MCPlaces == {Left, [x |-> 3, y |-> 0, w |-> 2, h |-> 1]}

\* lines before and after the modeline, as sequences of what the reader tells apart
LongComment == <<"-", "-", "blank", "k", "v", "v", "v", "v", "v", "v", "v", "v", "-", "-", "k", "=", "v", "\n">>
MCBefore == {<<>>, <<LongComment, <<"-", "-", "blank", "k", "\n">>, <<"k", "=", "v", "\n">>, <<"\n">>, <<"#", "!", "\n">>>>}
MCAfter  == {<<>>, <<<<"-", "-", "blank", "k", "\n">>, <<"k", "=", "v">>>>}

MCValues == {<<"v">>, <<"n", "n">>}

VARIABLE part

ScreensRest == layout = <<>> /\ ignore = FALSE /\ at = [c \in Client |-> Left] /\ main = "A" /\ Init
DrawinRests == geom = [pos |-> "s1", size |-> 1] /\ DrawinInit
PaperRests  == xroot = NoPixmap /\ WallpaperInit
ConfigRests ==
    /\ cmd = [config |-> FALSE, screen |-> "unset", force |-> FALSE, check |-> FALSE]
    /\ file = [arg |-> "missing", user |-> "missing", default |-> "works"]
    /\ keys = <<>> /\ lines = CHOOSE t \in Texts(<<>>) : TRUE
    /\ ConfigInit

MCInit ==
    \/ part = "screens" /\ Init /\ DrawinRests /\ PaperRests /\ ConfigRests
    \/ part = "drawin" /\ DrawinInit /\ ScreensRest /\ PaperRests /\ ConfigRests
    \/ part = "wallpaper" /\ WallpaperInit /\ ScreensRest /\ DrawinRests /\ ConfigRests
    \/ part = "config" /\ ConfigInit /\ ScreensRest /\ DrawinRests /\ PaperRests

MCNext ==
    /\ part' = part
    /\ \/ part = "screens" /\ Next /\ UNCHANGED <<drawinVars, paperVars, configVars>>
       \/ part = "drawin" /\ DrawinNext /\ UNCHANGED <<vars, paperVars, configVars>>
       \/ part = "wallpaper" /\ WallpaperNext /\ UNCHANGED <<vars, drawinVars, configVars>>
       \/ part = "config" /\ ConfigNext /\ UNCHANGED <<vars, drawinVars, paperVars>>

MCSpec == MCInit /\ [][MCNext]_<<part, vars, drawinVars, paperVars, configVars>>
=============================================================================
