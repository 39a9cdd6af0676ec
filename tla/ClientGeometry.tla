----------------------------- MODULE ClientGeometry -----------------------------
(***************************************************************************)
(* The geometry of a client: titlebars, size hints, gravity, fullscreen.   *)
(* A change takes effect in the record of the client at once, its signals  *)
(* run Lua that may change the geometry again, and X and the client learn  *)
(* of it when the main loop refreshes.                                     *)
(*                                                                         *)
(* Source: objects/client.c (client_resize, client_resize_do,              *)
(* client_apply_size_hints, client_geometry_refresh, titlebars),           *)
(* event_handle_configurerequest, xwindow_translate_for_gravity.           *)
(***************************************************************************)
EXTENDS Integers, Sequences, SequencesExt, Functions

CONSTANTS
    Areas,       \* geometries Lua asks for
    BarSizes,    \* sizes a titlebar may get
    Bars,        \* the titlebars in use
    Borders,     \* border widths
    Requests,    \* ConfigureRequests: functions from the fields that are set
    Hints,       \* WM_NORMAL_HINTS the client may have
    FirstArea,   \* the geometry it is managed with
    MaxFrames,   \* bound: calls whose handlers have not returned; a request takes two
    MaxChanges   \* bound: changes in all

AllBars == {"top", "right", "bottom", "left"}

\* area_t, and the areas that a window of X can have
Area == [x : Int, y : Int, width : Int, height : Int]
Card16 == 0..65535
Window == [x : Int, y : Int, width : Card16 \ {0}, height : Card16 \ {0}]

\* xcb_size_hints_t; zero stands for a field that is not set, <<>> for an aspect
\* that client_apply_size_hints passes over
Aspects == {<<>>} \cup ((Nat \ {0}) \X (Nat \ {0}))
SizeHints == [gravity : STRING, minW : Nat, minH : Nat, maxW : Nat, maxH : Nat, baseW : Nat, baseH : Nat,
              incW : Nat, incH : Nat, minAspect : Aspects, maxAspect : Aspects]

ASSUME ClientGeometryAssumption ==
    /\ Bars \subseteq AllBars /\ BarSizes \subseteq Card16 /\ Borders \subseteq Card16
    /\ Areas \cup {FirstArea} \subseteq Window
    /\ Hints \subseteq SizeHints /\ \A h \in Hints : h.minAspect = <<>> <=> h.maxAspect = <<>>
    /\ \A r \in Requests : \A f \in DOMAIN r : r[f] \in (IF f \in {"x", "y"} THEN Int ELSE Card16)
    /\ MaxFrames \in Nat \ {0, 1} /\ MaxChanges \in Nat

VARIABLES
    geo,          \* c->geometry
    bars,         \* c->titlebar[].size
    drawn,        \* the geometry of the drawable of each titlebar; <<>> without one
    border,       \* c->border_width
    fullscreen, honor, hints,
    gotRequest,   \* c->got_configure_request
    frames,       \* calls whose handlers are running, the innermost one last
    xframe, xclient,   \* c->x11_frame_geometry and c->x11_client_geometry
    xwindow,      \* X: the geometry of the window in its frame
    told,         \* the last synthetic ConfigureNotify: area and border
    overtaken,    \* a handler changed the geometry before the titlebars were placed
    honoured,     \* the geometry went through the hints it has now
    changes       \* counts to MaxChanges

geometryVars == <<geo, bars, drawn, border, fullscreen, honor, hints, gotRequest, frames,
                  xframe, xclient, xwindow, told, overtaken, honoured, changes>>
xVars == <<xframe, xclient, xwindow, told>>

NoArea == <<>>

\* a call whose handlers run
Frame == [kind : {"resize"}, to : Area] \cup [kind : {"fullscreen"}] \cup [kind : {"configure"}, asked : Requests]

GeometryTypeOK ==
    /\ geo \in Area /\ xframe \in Area /\ xclient \in Area /\ xwindow \in Area
    /\ bars \in [AllBars -> Nat] /\ DOMAIN drawn = AllBars
    /\ border \in Nat /\ fullscreen \in BOOLEAN /\ honor \in BOOLEAN /\ hints \in Hints
    /\ gotRequest \in BOOLEAN /\ overtaken \in BOOLEAN /\ honoured \in BOOLEAN
    /\ frames \in Seq(Frame) /\ Len(frames) <= MaxFrames /\ changes \in 0..MaxChanges

----------------------------------------------------------------------------
(* Areas. *)

SumWidth == bars["left"] + bars["right"]
SumHeight == bars["top"] + bars["bottom"]

\* client_remove_titlebar_geometry and client_add_titlebar_geometry
Inner(a) == [x |-> a.x + bars["left"], y |-> a.y + bars["top"],
             width |-> a.width - SumWidth, height |-> a.height - SumHeight]
Outer(a) == [x |-> a.x - bars["left"], y |-> a.y - bars["top"],
             width |-> a.width + SumWidth, height |-> a.height + SumHeight]

\* titlebar_get_area
BarArea(bar, a) ==
    CASE bar = "top" -> [x |-> 0, y |-> 0, width |-> a.width, height |-> bars[bar]]
      [] bar = "bottom" -> [x |-> 0, y |-> a.height - bars[bar], width |-> a.width, height |-> bars[bar]]
      [] OTHER -> [x |-> IF bar = "right" THEN a.width - bars[bar] ELSE 0, y |-> bars["top"],
                   width |-> bars[bar], height |-> a.height - SumHeight]

\* division of C
Half(n) == IF n >= 0 THEN n \div 2 ELSE -((-n) \div 2)

East == {"north_east", "east", "south_east"}
South == {"south_west", "south", "south_east"}

\* xwindow_translate_for_gravity: how far one axis moves when `before` and
\* `after` are added on its sides; far: the sides that stay
MovedBy(before, after, far, middle) ==
    IF hints.gravity \in far THEN -(before + after)
    ELSE IF hints.gravity \in middle THEN Half(-(before + after))
    ELSE IF hints.gravity = "static" THEN -before ELSE 0
MovedX(before, after) == MovedBy(before, after, East, {"north", "center", "south"})
MovedY(before, after) == MovedBy(before, after, South, {"west", "center", "east"})

Translate(a, left, top, right, bottom) ==
    [a EXCEPT !.x = @ + MovedX(left, right), !.y = @ + MovedY(top, bottom)]

----------------------------------------------------------------------------
(* Size hints. *)

\* a pair of hints is given, or the other pair stands in for it
BaseSize == IF <<hints.baseW, hints.baseH>> = <<0, 0>> THEN <<hints.minW, hints.minH>> ELSE <<hints.baseW, hints.baseH>>
MinSize  == IF <<hints.minW, hints.minH>> = <<0, 0>> THEN <<hints.baseW, hints.baseH>> ELSE <<hints.minW, hints.minH>>

\* increments count if there are two
Increments == IF hints.incW = 0 \/ hints.incH = 0 THEN <<0, 0>> ELSE <<hints.incW, hints.incH>>

AtLeast(a, b) == IF a >= b THEN a ELSE b
AtMost(a, b) == IF b = 0 \/ a <= b THEN a ELSE b
Beyond(a, b) == IF b > a THEN 0 ELSE a - b

\* the aspect ratio, as fractions: num / den is the smallest or largest ratio
Aspect(a) ==
    LET dx == a.width - hints.baseW
        dy == a.height - hints.baseH
        mn == hints.minAspect
        mx == hints.maxAspect IN
    IF mn = <<>> \/ dx <= 0 \/ dy <= 0 THEN a
    ELSE IF dx * mn[2] < mn[1] * dy
         THEN [a EXCEPT !.height = ((2 * dx * mn[2] + mn[1]) \div (2 * mn[1])) + hints.baseH]
    ELSE IF dx * mx[2] > mx[1] * dy
         THEN [a EXCEPT !.width = ((2 * dy * mx[1] + mx[2]) \div (2 * mx[2])) + hints.baseW]
    ELSE a

\* mutant: the increment counts from zero
StepFromZero(a) ==
    IF hints.incW = 0 \/ hints.incH = 0 THEN a
    ELSE [a EXCEPT !.width = @ - (@ % hints.incW), !.height = @ - (@ % hints.incH)]

\* a whole number of increments above the base size
StepDown(n, base, inc) == IF inc = 0 THEN n ELSE n - (Beyond(n, base) % inc)
Stepped(a) == [a EXCEPT !.width = StepDown(@, BaseSize[1], Increments[1]),
                        !.height = StepDown(@, BaseSize[2], Increments[2])]

\* client_apply_size_hints
ApplySizeHints(a) ==
    IF fullscreen THEN a
    ELSE LET ratio == Aspect(Inner(a))
             big == [ratio EXCEPT !.width = AtLeast(@, MinSize[1]), !.height = AtLeast(@, MinSize[2])]
             small == [big EXCEPT !.width = AtMost(@, hints.maxW), !.height = AtMost(@, hints.maxH)]
         IN Outer(Stepped(small))

\* client_isfixed
IsFixed == /\ honor /\ hints.maxW # 0 /\ hints.maxH # 0
           /\ hints.maxW = hints.minW /\ hints.maxH = hints.minH

----------------------------------------------------------------------------
(* Resizing. *)

\* client_resize_do, up to the handlers of its signals
ResizeDo(a, below) ==
    /\ geo' = a
    /\ frames' = Append(below, [kind |-> "resize", to |-> a])

TooSmall(a) == a.width < SumWidth \/ a.height < SumHeight \/ a.width = 0 \/ a.height = 0

\* mutant: only an empty size is refused
RefusesEmpty(a) == a.width = 0 \/ a.height = 0

\* client_resize: the geometry is refused
Refused(a) == TooSmall(a)

\* client_resize; the check comes before the hints and after them
Resize(a, below) ==
    LET b == IF honor /\ ~Refused(a) THEN ApplySizeHints(a) ELSE a IN
    IF Refused(a) \/ Refused(b) \/ b = geo
    THEN UNCHANGED <<geo, honoured>> /\ frames' = below
    ELSE ResizeDo(b, below) /\ honoured' = (honor /\ ~fullscreen)

InHandler == frames # <<>>
Top == Last(frames)
Change == /\ changes < MaxChanges /\ changes' = changes + 1
          /\ Len(frames) < MaxFrames

\* luaA_client_geometry, in a handler or outside
Geometry(a) ==
    /\ Change
    /\ Resize(IF IsFixed THEN [a EXCEPT !.width = geo.width, !.height = geo.height] ELSE a, frames)
    /\ UNCHANGED <<bars, drawn, border, fullscreen, honor, hints, gotRequest, xVars, overtaken>>

\* titlebar_resize: what is in the titlebars is added around the client
WithBar(bar, size) ==
    LET d == size - bars[bar]
        grown == IF bar \in {"top", "bottom"} THEN [geo EXCEPT !.height = (@ + d) % 65536]
                 ELSE [geo EXCEPT !.width = (@ + d) % 65536]
        By(b) == IF b = bar THEN d ELSE 0
    IN IF hints.gravity = "none" THEN grown
       ELSE Translate(grown, By("left"), By("top"), By("right"), By("bottom"))

\* luaA_client_titlebar_top and its likes
Titlebar(bar, size) ==
    /\ Change
    /\ drawn' = [drawn EXCEPT ![bar] = IF @ = NoArea THEN [x |-> 0, y |-> 0, width |-> 0, height |-> 0] ELSE @]
    /\ IF size = bars[bar] THEN UNCHANGED <<geo, bars, frames, honoured>>
       ELSE /\ bars' = [bars EXCEPT ![bar] = size]
            /\ ResizeDo(WithBar(bar, size), frames)
            /\ honoured' = FALSE
    /\ UNCHANGED <<border, fullscreen, honor, hints, gotRequest, xVars, overtaken>>

\* window_set_border_width and border_width_callback
Bordered(w, below) ==
    /\ border' = w
    /\ IF w # border /\ hints.gravity # "none"
       THEN LET d == w - border IN ResizeDo(Translate(geo, d, d, d, d), below)
       ELSE UNCHANGED geo /\ frames' = below

SetBorder(w) ==
    /\ Change /\ Bordered(w, frames)
    /\ UNCHANGED <<bars, drawn, fullscreen, honor, hints, gotRequest, xVars, overtaken, honoured>>

\* client_set_fullscreen: Lua is asked to place the client, and then it is
\* resized in any case; the layers are in SpecialLayers
SetFullscreen(b) ==
    /\ Change /\ fullscreen # b /\ fullscreen' = b
    /\ frames' = Append(frames, [kind |-> "fullscreen"])
    /\ honoured' = FALSE
    /\ UNCHANGED <<geo, bars, drawn, border, honor, hints, gotRequest, xVars, overtaken>>

SetHonor(b) ==
    /\ Change /\ honor # b /\ honor' = b /\ honoured' = FALSE
    /\ UNCHANGED <<geo, bars, drawn, border, fullscreen, hints, gotRequest, frames, xVars, overtaken>>

\* WM_NORMAL_HINTS changes: property_update_wm_normal_hints
NewHints(h) ==
    /\ ~InHandler /\ Change /\ h # hints /\ hints' = h /\ honoured' = FALSE
    /\ UNCHANGED <<geo, bars, drawn, border, fullscreen, honor, gotRequest, frames, xVars, overtaken>>

----------------------------------------------------------------------------
(* The end of a call: its handlers have returned. *)

\* mutant: the titlebars take no part in it
BarsUnmoved(bar, to) == drawn[bar]

\* the geometry of the drawable of a titlebar; the position is the one
\* of the call, the size the one the client has now
BarPlaced(bar, to) ==
    IF drawn[bar] = NoArea /\ bars[bar] = 0 THEN NoArea
    ELSE LET a == BarArea(bar, geo) IN
         [x |-> a.x + to.x, y |-> a.y + to.y,
          width |-> IF fullscreen THEN 0 ELSE a.width, height |-> IF fullscreen THEN 0 ELSE a.height]

\* the rest of client_resize_do
FinishResize ==
    /\ InHandler /\ Top.kind = "resize"
    /\ drawn' = [b \in AllBars |-> BarPlaced(b, Top.to)]
    /\ overtaken' = (Top.to.x # geo.x \/ Top.to.y # geo.y)
    /\ frames' = Front(frames)
    /\ UNCHANGED <<changes, geo, bars, border, fullscreen, honor, hints, gotRequest, xVars, honoured>>

\* the rest of client_set_fullscreen
FinishFullscreen ==
    /\ InHandler /\ Top.kind = "fullscreen"
    /\ ResizeDo(geo, Front(frames))
    /\ UNCHANGED <<changes, bars, drawn, border, fullscreen, honor, hints, gotRequest, xVars, overtaken, honoured>>

----------------------------------------------------------------------------
(* ConfigureRequest. *)

\* the size the client asks for, with its titlebars
AskedSize(r) ==
    [geo EXCEPT !.width = IF "width" \in DOMAIN r THEN r.width + SumWidth ELSE @,
                !.height = IF "height" \in DOMAIN r THEN r.height + SumHeight ELSE @]

\* the size changes on the sides the gravity leaves free
Anchored(a) == IF hints.gravity = "none" THEN a
           ELSE Translate(a, 0, 0, a.width - geo.width, a.height - geo.height)

\* one coordinate or both
PutAt(a, r, x, y) == [a EXCEPT !.x = IF "x" \in DOMAIN r THEN x ELSE @, !.y = IF "y" \in DOMAIN r THEN y ELSE @]

\* what the client asks for, as a geometry of its frame: its place is that of
\* the window, from which the gravity takes the titlebars and the border
Asked(r) ==
    LET moved == PutAt(Anchored(AskedSize(r)), r, r.x, r.y)
        outer == Translate(moved, border + bars["left"], border + bars["top"],
                           border + bars["right"], border + bars["bottom"])
    IN IF hints.gravity = "none" THEN moved ELSE PutAt(moved, r, outer.x, outer.y)

\* event_handle_configurerequest: the border comes first, and its handlers
ConfigureRequest(r) ==
    /\ ~InHandler /\ Change
    /\ Bordered(IF "border" \in DOMAIN r THEN r.border ELSE border, <<[kind |-> "configure", asked |-> r]>>)
    /\ UNCHANGED <<bars, drawn, fullscreen, honor, hints, gotRequest, xVars, overtaken, honoured>>

\* the request is passed to Lua, which resizes the client or does not
PassRequest(grant) ==
    /\ InHandler /\ Top.kind = "configure"
    /\ gotRequest' = TRUE
    /\ IF grant THEN Resize(Asked(Top.asked), Front(frames))
       ELSE UNCHANGED <<geo, honoured>> /\ frames' = Front(frames)
    /\ UNCHANGED <<changes, bars, drawn, border, fullscreen, honor, hints, xVars, overtaken>>

----------------------------------------------------------------------------
(* The main loop refreshes. *)

\* where the window is in its frame
Real == IF fullscreen THEN [x |-> 0, y |-> 0, width |-> geo.width, height |-> geo.height]
        ELSE [Inner(geo) EXCEPT !.x = bars["left"], !.y = bars["top"]]

\* client_send_configure
Telling == [area |-> IF fullscreen THEN geo ELSE Inner(geo), border |-> border]

\* mutant: the window in the frame is not looked at
SameFrame == geo = xframe

\* "Is there anything to do?"
Settled == geo = xframe /\ Real = xclient

\* X refuses an empty window
XTakes(a) == a.width > 0 /\ a.height > 0

\* client_geometry_refresh
Refresh ==
    /\ ~InHandler /\ (~Settled \/ gotRequest)
    /\ IF Settled THEN UNCHANGED <<xframe, xclient, xwindow>>
       ELSE xframe' = geo /\ xclient' = Real /\ xwindow' = IF XTakes(Real) THEN Real ELSE xwindow
    /\ told' = Telling /\ gotRequest' = FALSE
    /\ UNCHANGED <<changes, geo, bars, drawn, border, fullscreen, honor, hints, frames, overtaken, honoured>>

GeometryInit ==
    /\ geo = FirstArea /\ bars = [b \in AllBars |-> 0] /\ drawn = [b \in AllBars |-> NoArea]
    /\ border = 0 /\ fullscreen = FALSE /\ honor = TRUE /\ hints \in Hints
    /\ gotRequest = FALSE /\ frames = <<>> /\ overtaken = FALSE /\ honoured = FALSE /\ changes = 0
    /\ xframe = FirstArea /\ xclient = Real /\ xwindow = Real /\ told = Telling

GeometryNext ==
    \/ \E a \in Areas : Geometry(a)
    \/ \E b \in Bars, n \in BarSizes : Titlebar(b, n)
    \/ \E w \in Borders : SetBorder(w)
    \/ \E b \in BOOLEAN : SetFullscreen(b) \/ SetHonor(b) \/ PassRequest(b)
    \/ \E h \in Hints : NewHints(h)
    \/ \E r \in Requests : ConfigureRequest(r)
    \/ FinishResize \/ FinishFullscreen \/ Refresh

GeometrySpec == GeometryInit /\ [][GeometryNext]_geometryVars

----------------------------------------------------------------------------
(* Properties. *)

\* The titlebars always fit into the client: no order of resizing, titlebars,
\* borders, hints and fullscreen makes its inner size negative (the warning
\* of client_geometry_refresh, "Resizing a window to a negative size!?"). It
\* may become empty: client_resize accepts a client that is all titlebars.
NeverNegative == geo.width >= SumWidth /\ geo.height >= SumHeight

\* When no handler runs, the drawable of a titlebar that is shown has the size
\* of the titlebar, or none in fullscreen, and it is where the titlebar is
\* unless a handler moved the client during the call that placed it.
TitlebarsInPlace ==
    ~InHandler => \A b \in AllBars : bars[b] # 0 =>
        LET a == BarArea(b, geo) IN
        /\ drawn[b].width = IF fullscreen THEN 0 ELSE a.width
        /\ drawn[b].height = IF fullscreen THEN 0 ELSE a.height
        /\ ~overtaken => drawn[b].x = geo.x + a.x /\ drawn[b].y = geo.y + a.y

\* When client_geometry_refresh has nothing to do, X has the window where the
\* record says, if it has a size at all, and the last ConfigureNotify told
\* the client so (ICCCM 4.1.5 and 4.2.3 in client_geometry_refresh).
ClientKnowsWhere ==
    Settled => /\ XTakes(Real) => xwindow = Real
               /\ told.area = Telling.area

\* a size is within the largest, in steps, and not much below the smallest
SizeOk(n, base, mn, mx, inc) ==
    /\ mx # 0 => n <= mx
    /\ inc # 0 /\ n >= base => (n - base) % inc = 0
    /\ n > AtMost(mn, mx) - (IF inc = 0 THEN 1 ELSE inc)

\* A client whose geometry went through its size hints is not larger than they
\* allow, a whole number of increments above its base, and not below the
\* smallest size by an increment (client_apply_size_hints).
HintsRespected ==
    honoured => /\ SizeOk(Inner(geo).width, BaseSize[1], MinSize[1], hints.maxW, Increments[1])
                /\ SizeOk(Inner(geo).height, BaseSize[2], MinSize[2], hints.maxH, Increments[2])

\* client_resize_do, luaA_client_titlebar_*, client_apply_size_hints: no size
\* gets negative, the titlebars are where the geometry and their sizes put them,
\* and what a client asked of its size holds.
GeometryKept == GeometryTypeOK /\ NeverNegative /\ TitlebarsInPlace /\ HintsRespected
=============================================================================
