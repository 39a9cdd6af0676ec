------------------------------- MODULE Pointer -------------------------------
(***************************************************************************)
(* Clicks, the windows that the pointer enters and leaves, and the mouse   *)
(* grabber. A button that Lua bound on a window is grabbed so that a press *)
(* freezes the pointer until the manager allows events again; a replayed   *)
(* press may come back through the frame. The record of the drawable under *)
(* the mouse follows the crossing events that are not ignored.             *)
(*                                                                         *)
(* Sources: event.c, mousegrabber.c, objects/client.c, objects/drawin.c.   *)
(* The X server is external.                                               *)
(***************************************************************************)
EXTENDS Naturals, Sequences, FiniteSets

CONSTANTS
    MaxClicks,    \* bound: presses of a button in the run
    MaxMoves,     \* bound: movements of the pointer
    MaxLua        \* bound: things that Lua does

ASSUME PointerAssumption == MaxClicks \in Nat /\ MaxMoves \in Nat /\ MaxLua \in Nat

VARIABLES
    place,      \* where the pointer is
    managed,    \* the client is managed
    shown,      \* the drawin is visible
    bound,      \* the windows on which a button is bound, and grabbed in X
    xqueue,     \* events that X has sent
    frozen,     \* where the press happened that froze the pointer, "no" for none
    grab,       \* who holds the pointer actively
    mousegrabber,  \* globalconf.mousegrabber is set
    allow,      \* the handler of a press will still call xcb_allow_events
    under,      \* globalconf.drawable_under_mouse
    over,       \* Lua was told last that the pointer entered the client
    told,       \* how often Lua was told of each press on the client
    clicks, moves, acts,
    sure        \* history: which records no ignored crossing has invalidated

xdata       == <<place, frozen, grab, clicks, moves>>
luadata     == <<managed, shown, bound, mousegrabber, under, over, told>>
pointerVars == <<xdata, luadata, xqueue, allow, acts, sure>>

\* the client's own window and its titlebar; the drawin and the tray in it
Frame  == {"inside", "bar"}
Panel  == {"panel", "icon"}
Places == {"root"} \cup Frame \cup Panel

XEvent == [kind : {"press", "enter", "leave", "motion"}, window : {"root", "client", "frame", "panel"},
          child : BOOLEAN, at : Places, click : 0..MaxClicks]

PointerTypeOK ==
    /\ place \in Places
    /\ managed \in BOOLEAN /\ shown \in BOOLEAN /\ mousegrabber \in BOOLEAN
    /\ bound \subseteq {"client", "panel"}
    /\ xqueue \in Seq(XEvent)
    /\ frozen \in {"no", "inside", "panel", "icon"}
    /\ grab \in {"none", "passive", "ours", "foreign"}
    /\ allow \in [mode : {"none", "replay", "async"}, click : 0..MaxClicks]
    /\ under \in {"none", "bar", "panel"} /\ over \in BOOLEAN
    /\ told \in [1..MaxClicks -> Nat]
    /\ clicks \in 0..MaxClicks /\ moves \in 0..MaxMoves /\ acts \in 0..MaxLua
    /\ sure \subseteq {"drawable", "client"}

Nothing == [mode |-> "none", click |-> 0]

Present(p) == (p \in Frame => managed) /\ (p \in Panel => shown)
Top(p) == IF p \in Frame THEN "frame" ELSE IF p \in Panel THEN "panel" ELSE "root"

\* client_get_drawable, and the drawable of a drawin
DrawableAt(p) == CASE p = "bar" -> "bar" [] p \in Panel -> "panel" [] OTHER -> "none"

-----------------------------------------------------------------------------
(* The X server *)

Ev(kind, window, child, at) == [kind |-> kind, window |-> window, child |-> child, at |-> at, click |-> 0]
PressEv(window, child, at, n) == [Ev("press", window, child, at) EXCEPT !.click = n]

\* what is delivered when no passive grab takes the press; an application may
\* take it itself, a window with the mask ButtonPress gets it otherwise
Delivered(p, n) ==
    LET own == PressEv(Top(p), p \in {"inside", "icon"}, p, n)
    IN  IF p \in {"inside", "icon"} THEN {<<>>, <<own>>} ELSE {<<own>>}

GrabbedBy(p) == IF p = "inside" THEN "client" ELSE IF p \in Panel THEN "panel" ELSE "nobody"

Click ==
    /\ clicks < MaxClicks /\ frozen = "no" /\ grab # "foreign"
    /\ clicks' = clicks + 1
    /\ CASE grab = "ours" ->
              xqueue' = Append(xqueue, PressEv("root", place # "root", place, clicks')) /\ UNCHANGED <<frozen, grab>>
         [] grab = "none" /\ GrabbedBy(place) \in bound ->
              /\ xqueue' = Append(xqueue, PressEv(GrabbedBy(place), place = "icon", place, clicks'))
              /\ frozen' = place /\ grab' = "passive"
         [] OTHER ->
              /\ \E es \in Delivered(place, clicks') : xqueue' = xqueue \o es
              /\ UNCHANGED <<frozen, grab>>
    /\ UNCHANGED <<place, moves, luadata, allow, acts, sure>>

\* the events of one movement: leaving, entering, with a child of the same
\* window (detail Inferior) or moving inside the window
Crossings(p, q) ==
    CASE p = q /\ p \in {"bar", "panel"} -> <<Ev("motion", Top(p), FALSE, q)>>
      [] p # q /\ Top(p) = Top(q) ->
            IF p \in {"bar", "panel"} THEN <<Ev("leave", Top(p), TRUE, q)>> ELSE <<Ev("enter", Top(q), TRUE, q)>>
      [] Top(p) # Top(q) ->
            (IF p = "root" THEN <<>> ELSE <<Ev("leave", Top(p), FALSE, q)>>)
            \o (IF q = "root" THEN <<>> ELSE <<Ev("enter", Top(q), FALSE, q)>>)
      [] OTHER -> <<>>

\* what such events tell for certain
Settles(p, q) ==
    (IF p # q /\ {p, q} # {"panel", "icon"} THEN {"drawable"} ELSE {})
    \cup (IF (p \in Frame) # (q \in Frame) THEN {"client"} ELSE {})

\* while a grab holds the pointer nobody is told of crossings; those that the
\* end of the grab causes have the mode Ungrab, and are ignored
Move(q) ==
    /\ moves < MaxMoves /\ frozen = "no" /\ Present(q)
    /\ moves' = moves + 1 /\ place' = q
    /\ IF grab = "none"
       THEN xqueue' = xqueue \o Crossings(place, q) /\ sure' = sure \cup Settles(place, q)
       ELSE /\ xqueue' = IF grab = "ours" THEN Append(xqueue, Ev("motion", "root", FALSE, q)) ELSE xqueue
            /\ sure' = IF q = place THEN sure ELSE {}
    /\ UNCHANGED <<frozen, grab, clicks, luadata, allow, acts>>

\* another client grabs the pointer, or ends its grab
ForeignGrab ==
    /\ grab \in {"none", "foreign"} /\ acts < MaxLua
    /\ acts' = acts + 1
    /\ grab' = IF grab = "none" THEN "foreign" ELSE "none"
    /\ UNCHANGED <<place, frozen, clicks, moves, luadata, xqueue, allow, sure>>

\* AllowEvents works on the grab of this press only; a replayed press goes to
\* the application or to the frame
AllowEvents ==
    /\ allow # Nothing
    /\ allow' = Nothing
    /\ IF frozen = "no" \/ allow.click < clicks
       THEN UNCHANGED <<frozen, grab, xqueue>>
       ELSE /\ frozen' = "no" /\ grab' = "none"
            /\ IF allow.mode = "replay"
               THEN \E es \in Delivered(place, allow.click) : xqueue' = xqueue \o es
               ELSE UNCHANGED xqueue
    /\ UNCHANGED <<place, clicks, moves, luadata, acts, sure>>

\* a window that is unmapped loses its grab
Thawed(places) ==
    IF frozen \in places THEN frozen' = "no" /\ grab' = "none" ELSE UNCHANGED <<frozen, grab>>

-----------------------------------------------------------------------------
(* Lua, between events and in the handlers of a press *)

Acts == acts < MaxLua /\ acts' = acts + 1

\* luaA_button_array_set replaces the whole list
Rebound(window) == (bound \ {window}) \cup ({window} \ bound)

Bind(window) ==
    /\ Acts
    /\ bound' = Rebound(window)
    /\ UNCHANGED <<xdata, managed, shown, mousegrabber, under, over, told, xqueue, allow, sure>>

\* mutant: the titlebar's drawable is forgotten with its client, but stays recorded
StaysUnder == under

LeftTitlebar == IF under = "bar" THEN "none" ELSE under

\* client_unmanage
Unmanage ==
    /\ Acts /\ managed
    /\ managed' = FALSE /\ over' = FALSE /\ bound' = bound \ {"client"}
    /\ under' = LeftTitlebar
    /\ Thawed({"inside"})
    /\ place' = IF place \in Frame THEN "root" ELSE place
    /\ sure' = {"client"} \cup (IF place \in Frame THEN sure \ {"drawable"} ELSE sure)
    /\ UNCHANGED <<clicks, moves, shown, mousegrabber, told, xqueue, allow>>

\* drawin_set_visible; the crossings that this causes are ignored
Hide ==
    /\ Acts /\ shown
    /\ shown' = FALSE
    /\ Thawed({"panel", "icon"})
    /\ place' = IF place \in Panel THEN "root" ELSE place
    /\ sure' = sure \ {"drawable"}
    /\ UNCHANGED <<clicks, moves, managed, bound, mousegrabber, under, over, told, xqueue, allow>>

Show ==
    /\ Acts /\ ~shown
    /\ shown' = TRUE
    /\ \/ UNCHANGED <<place, sure>>
       \/ place' = "panel" /\ sure' = sure \ {"drawable", "client"}
    /\ UNCHANGED <<frozen, grab, clicks, moves, managed, bound, mousegrabber, under, over, told, xqueue, allow>>

\* luaA_mousegrabber_run: any reply counts, also that another client has the grab
StartGrabber ==
    /\ Acts /\ ~mousegrabber
    /\ mousegrabber' = TRUE
    /\ IF grab = "foreign" THEN UNCHANGED <<frozen, grab>> ELSE frozen' = "no" /\ grab' = "ours"
    /\ UNCHANGED <<place, clicks, moves, managed, shown, bound, under, over, told, xqueue, allow, sure>>

\* mutant: the pointer stays grabbed
OnlyForgets == mousegrabber' = FALSE /\ UNCHANGED <<frozen, grab>>

Ungrabbed ==
    /\ mousegrabber' = FALSE
    /\ IF grab = "foreign" THEN UNCHANGED <<frozen, grab>> ELSE frozen' = "no" /\ grab' = "none"

StopGrabber ==
    /\ Acts
    /\ Ungrabbed
    /\ UNCHANGED <<place, clicks, moves, managed, shown, bound, under, over, told, xqueue, allow, sure>>

-----------------------------------------------------------------------------
(* event.c *)

Handled == xqueue # <<>> /\ allow = Nothing /\ xqueue' = Tail(xqueue)

\* event_handle_mousegrabber: the callback returns true, or false, or fails
HandleGrabbed ==
    /\ Handled /\ mousegrabber /\ Head(xqueue).kind \in {"press", "motion"}
    /\ \/ UNCHANGED <<mousegrabber, frozen, grab>>
       \/ Ungrabbed
    /\ UNCHANGED <<place, clicks, moves, managed, shown, bound, under, over, told, allow, acts, sure>>

\* mutant: a press that was replayed is told again
EveryPress(e) == TRUE

\* a press on the client's window comes a second time through the frame
FirstPress(e) == ~(e.window = "frame" /\ e.child)

\* mutant: only a matching window thaws the pointer
AllowsIfBound(e) == IF bound # {} THEN "replay" ELSE "none"

\* a drawin eats the press, unless it happened in a window inside the drawin
AllowMode(e) ==
    IF e.window = "panel" \/ e.window = "root" THEN (IF e.child THEN "none" ELSE "async") ELSE "replay"

HandlePress ==
    LET e == Head(xqueue)
        panel == shown /\ (e.window = "panel" \/ (e.at \in Panel /\ e.window = "root"))
        client == managed /\ e.window \in {"client", "frame"}
    IN  /\ Handled /\ ~mousegrabber /\ e.kind = "press"
        /\ told' = IF client /\ FirstPress(e) THEN [told EXCEPT ![e.click] = @ + 1] ELSE told
        /\ allow' = IF (panel \/ client) /\ AllowMode(e) # "none"
                    THEN [mode |-> AllowMode(e), click |-> e.click] ELSE Nothing
        /\ UNCHANGED <<xdata, managed, shown, bound, mousegrabber, under, over, acts, sure>>

\* event_handle_motionnotify
HandleMotion ==
    LET e == Head(xqueue)
    IN  /\ Handled /\ ~mousegrabber /\ e.kind = "motion"
        /\ under' = IF e.window = "root" \/ ~Present(e.at) THEN under ELSE DrawableAt(e.at)
        /\ UNCHANGED <<xdata, managed, shown, bound, mousegrabber, over, told, allow, acts, sure>>

\* the client's own window lies inside the frame: the titlebar was left
Left(e) == IF (e.window = "frame" /\ managed) \/ ~e.child THEN "none" ELSE under

HandleLeave ==
    LET e == Head(xqueue)
    IN  /\ Handled /\ e.kind = "leave"
        /\ under' = Left(e)
        /\ over' = IF e.window = "frame" /\ managed /\ ~e.child THEN FALSE ELSE over
        /\ UNCHANGED <<xdata, managed, shown, bound, mousegrabber, told, allow, acts, sure>>

HandleEnter ==
    LET e == Head(xqueue)
    IN  /\ Handled /\ e.kind = "enter"
        /\ under' = CASE e.window = "panel" /\ shown /\ ~e.child -> "panel"
                      [] e.window = "frame" /\ managed -> DrawableAt(e.at)
                      [] OTHER -> under
        /\ over' = IF e.window = "frame" /\ managed /\ ~e.child THEN TRUE ELSE over
        /\ UNCHANGED <<xdata, managed, shown, bound, mousegrabber, told, allow, acts, sure>>

-----------------------------------------------------------------------------
PointerInit ==
    /\ place = "root" /\ managed = TRUE /\ shown = TRUE /\ bound = {"client", "panel"}
    /\ xqueue = <<>> /\ frozen = "no" /\ grab = "none" /\ mousegrabber = FALSE /\ allow = Nothing
    /\ under = "none" /\ over = FALSE /\ told = [n \in 1..MaxClicks |-> 0]
    /\ clicks = 0 /\ moves = 0 /\ acts = 0 /\ sure = {"drawable", "client"}

PointerNext ==
    \/ Click \/ ForeignGrab \/ AllowEvents
    \/ \E q \in Places : Move(q)
    \/ \E w \in {"client", "panel"} : Bind(w)
    \/ Unmanage \/ Hide \/ Show \/ StartGrabber \/ StopGrabber
    \/ HandleGrabbed \/ HandlePress \/ HandleMotion \/ HandleLeave \/ HandleEnter

PointerSpec == PointerInit /\ [][PointerNext]_pointerVars

-----------------------------------------------------------------------------
(* Properties *)

\* A press that freezes the pointer is always followed by the request that
\* thaws it, whatever Lua does to windows, bindings and grabs meanwhile. The
\* exceptions are a mouse grabber that runs, which thaws it when it stops, and
\* a press on the tray inside of a drawin with a button bound.
PointerThaws ==
    frozen \in {"no", "icon"} \/ mousegrabber \/ allow # Nothing
    \/ \E i \in 1..Len(xqueue) : xqueue[i].kind = "press" /\ xqueue[i].click = clicks

\* Nobody holds the pointer once the mouse grabber has stopped.
GrabberReleases == grab = "ours" => mousegrabber

\* A press inside the client reaches the manager through the grab and again
\* through the frame: Lua is told of it once.
ToldOnce == \A n \in 1..MaxClicks : told[n] <= 1

\* The drawable under the mouse never is a titlebar of a client that is gone,
\* and when all events are handled it is the one that the pointer is in and
\* Lua's last mouse::enter or mouse::leave of the client was the right one,
\* unless a grab or a window that was shown or hidden hid a crossing.
UnderMouseRight ==
    /\ under = "bar" => managed
    /\ xqueue = <<>> =>
          /\ "drawable" \in sure => under = DrawableAt(place)
          /\ "client" \in sure /\ managed => over = (place \in Frame)

\* event.c, mousegrabber.c: a press that freezes the pointer is followed by the
\* request that thaws it, and a mouse grabber that stopped has let the pointer go.
PointerFree == PointerTypeOK /\ PointerThaws /\ GrabberReleases

\* event.c: Lua hears of a press once, and knows what the pointer is over.
MouseRight == ToldOnce /\ UnderMouseRight
=============================================================================
