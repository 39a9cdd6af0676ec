------------------------------- MODULE Drawins -------------------------------
(***************************************************************************)
(* A drawin: a window of the manager's own with a pixmap to draw on. A     *)
(* change of geometry is on record at once and replaces the surface, waits *)
(* for the refresh, a copy or the map to reach the window, and is told in  *)
(* a row of signals whose handlers may move, show, hide and draw again; at *)
(* the end the work areas follow. What Lua has drawn is copied when it     *)
(* says so and when X asks for it.                                         *)
(*                                                                         *)
(* Source: objects/drawin.c, objects/drawable.c, Expose in event.c.        *)
(***************************************************************************)
EXTENDS Naturals, Sequences

CONSTANTS
    Screen,    \* screens, which are also the positions
    Size,      \* sizes that Lua asks for; 0 keeps the one there is
    Strut,     \* the drawin has a strut
    MaxCalls   \* bound: calls of Lua, nested ones too

ASSUME DrawinAssumption == Size \subseteq Nat /\ Strut \in BOOLEAN

VARIABLES
    geom,       \* w->geometry: position and size
    dirty,      \* w->geometry_dirty
    visible,    \* w->visible
    listed,     \* the drawin is in globalconf.drawins
    refs,       \* references that are held for the drawin
    drawable,   \* the drawable: its size, whether it has a surface, is refreshed
    window,     \* X: position, size, mapped
    content,    \* X: what the window shows: "none", "old" or "current"
    expose,     \* X: an Expose event is on its way
    area,       \* the screens whose work area leaves room for the drawin
    frames,     \* calls that run, innermost last
    phase,      \* "loop" or "poll"
    calls       \* calls so far

drawinVars == <<geom, dirty, visible, listed, refs, drawable, window, content, expose, area, frames, phase, calls>>

Doing == {"drawable", "drawin", "areas", "mapping", "shown"}

DrawinTypeOK ==
    /\ geom.pos \in Screen /\ geom.size \in Nat \ {0} /\ dirty \in BOOLEAN /\ visible \in BOOLEAN
    /\ listed \in BOOLEAN /\ refs \in Nat /\ area \subseteq Screen
    /\ drawable.size \in Nat /\ drawable.surface \in BOOLEAN /\ drawable.refreshed \in BOOLEAN
    /\ content \in {"none", "old", "current"} /\ expose \in BOOLEAN /\ phase \in {"loop", "poll"}
    /\ \A i \in DOMAIN frames : frames[i].at \in Doing

----------------------------------------------------------------------------
(* Helpers. *)

\* a Lua function runs by itself or in a handler of a signal; a handler of the
\* surface that drawin_map makes neither shows nor hides the drawin
HandlersRun == phase = "loop" /\ calls < MaxCalls /\ calls' = calls + 1
Mapping == \E i \in DOMAIN frames : frames[i].at = "mapping"

Top == frames[Len(frames)]
TopAt(at) == frames # <<>> /\ Top.at = at
Moved(frame) == [frames EXCEPT ![Len(frames)] = frame]
Pop == SubSeq(frames, 1, Len(frames) - 1)

\* mutant: a new surface counts as drawn
StaysRefreshed(d, size) == [d EXCEPT !.size = size, !.surface = @ \/ d.size # size]

\* drawable_set_geometry
SetGeometry(d, size) ==
    IF d.size = size THEN d ELSE [size |-> size, surface |-> TRUE, refreshed |-> FALSE]

\* the old picture stays in the window until the new one is copied
Surface(d) ==
    /\ drawable' = d
    /\ content' = IF d.size # drawable.size /\ content = "current" THEN "old" ELSE content

\* drawin_apply_moveresize: the window as it will be
Applied(w) == IF dirty THEN [w EXCEPT !.pos = geom.pos, !.size = geom.size] ELSE w

\* X tells of what appears when a mapped window grows
Exposed(w) == w.mapped /\ w.size > window.size

\* screen_update_workarea
AreaOf(a, s) == IF Strut /\ visible /\ listed /\ geom.pos = s THEN a \cup {s} ELSE a \ {s}

----------------------------------------------------------------------------
(* drawin_moveresize *)

MoveResize(pos, size) ==
    /\ HandlersRun
    /\ geom' = [pos |-> pos, size |-> IF size = 0 THEN geom.size ELSE size]
    /\ dirty' = TRUE
    /\ Surface(SetGeometry(drawable, geom'.size))
    /\ frames' = Append(frames, [at |-> "drawable", old |-> geom.pos])
    /\ UNCHANGED <<visible, listed, refs, window, expose, area, phase>>

\* drawin.geometry(), and the setters of x, y, width and height, which keep the
\* rest; a size of 0 is one that is refused
LuaGeometry == \E pos \in Screen, size \in Size : MoveResize(pos, size)

\* the signals of the drawable are emitted, then those of the drawin
Signal ==
    /\ TopAt("drawable") /\ frames' = Moved([Top EXCEPT !.at = "drawin"])
    /\ UNCHANGED <<geom, dirty, visible, listed, refs, drawable, window, content, expose, area, phase, calls>>

\* mutant: the new screen only
NewArea(s, a) == AreaOf(a, geom.pos)

\* the work area that the drawin leaves
OldArea(s, a) == AreaOf(a, s)

\* the screens are compared after the handlers ran
UpdateOld ==
    /\ TopAt("drawin")
    /\ IF Strut /\ Top.old # geom.pos
         THEN area' = OldArea(Top.old, area) /\ frames' = Moved([at |-> "areas", old |-> geom.pos])
         ELSE area' = area /\ frames' = Pop
    /\ UNCHANGED <<geom, dirty, visible, listed, refs, drawable, window, content, expose, phase, calls>>

\* the end of drawin_moveresize, and of drawin_set_visible
UpdateNew ==
    /\ frames # <<>> /\ Top.at \in {"areas", "shown"} /\ frames' = Pop
    /\ area' = AreaOf(area, IF Top.at = "areas" THEN Top.old ELSE geom.pos)
    /\ UNCHANGED <<geom, dirty, visible, listed, refs, drawable, window, content, expose, phase, calls>>

----------------------------------------------------------------------------
(* drawin_set_visible *)

\* drawin_map: a drawable that never had a geometry gets its surface here
Show ==
    /\ HandlersRun /\ ~Mapping /\ ~visible /\ visible' = TRUE
    /\ window' = [Applied(window) EXCEPT !.mapped = TRUE] /\ dirty' = FALSE
    /\ expose' = TRUE /\ listed' = TRUE
    /\ Surface(IF drawable.surface THEN drawable ELSE SetGeometry(drawable, geom.size))
    /\ frames' = Append(frames, [at |-> "mapping", old |-> geom.pos])
    /\ UNCHANGED <<geom, refs, area, phase>>

Ref ==
    /\ TopAt("mapping") /\ frames' = Moved([Top EXCEPT !.at = "shown"]) /\ refs' = refs + 1
    /\ UNCHANGED <<geom, dirty, visible, listed, drawable, window, content, expose, area, phase, calls>>

\* mutant: an invisible drawin stays in the list
StaysListed == listed

\* drawin_unmap
Unlisted == FALSE

Hide ==
    /\ HandlersRun /\ ~Mapping /\ visible /\ visible' = FALSE
    /\ window' = [window EXCEPT !.mapped = FALSE] /\ content' = "none" /\ expose' = FALSE
    /\ listed' = Unlisted /\ refs' = refs - 1
    /\ frames' = Append(frames, [at |-> "shown", old |-> geom.pos])
    /\ UNCHANGED <<geom, dirty, drawable, area, phase>>

----------------------------------------------------------------------------
(* Drawing: drawin_refresh_pixmap_partial. *)

\* mutant: the copy does not look at the geometry that waits
NotApplied(w) == w

Sized(w) == Applied(w)

Copy(d) ==
    IF d.surface /\ d.refreshed
    THEN /\ window' = Sized(window) /\ dirty' = FALSE
         /\ content' = IF window.mapped /\ Sized(window).size >= d.size THEN "current" ELSE content
    ELSE UNCHANGED <<window, dirty, content>>

\* luaA_drawable_refresh, when Lua has drawn on the surface
Drawn ==
    /\ HandlersRun /\ drawable' = [drawable EXCEPT !.refreshed = TRUE]
    /\ Copy(drawable') /\ expose' = (expose \/ Exposed(window'))
    /\ UNCHANGED <<geom, visible, listed, refs, area, frames, phase>>

HandleExpose ==
    /\ phase = "loop" /\ frames = <<>> /\ expose
    /\ Copy(drawable) /\ expose' = Exposed(window')
    /\ UNCHANGED <<geom, visible, listed, refs, drawable, area, frames, phase, calls>>

----------------------------------------------------------------------------
(* The main loop. *)

\* drawin_refresh
Refresh ==
    /\ phase = "loop" /\ frames = <<>> /\ phase' = "poll"
    /\ window' = IF listed THEN Applied(window) ELSE window
    /\ dirty' = (dirty /\ ~listed) /\ expose' = (expose \/ Exposed(window'))
    /\ UNCHANGED <<geom, visible, listed, refs, drawable, content, area, frames, calls>>

Wake ==
    /\ phase = "poll" /\ phase' = "loop"
    /\ UNCHANGED <<geom, dirty, visible, listed, refs, drawable, window, content, expose, area, frames, calls>>

\* drawin_allocator: the drawable has no geometry yet, the drawin has
DrawinInit ==
    /\ \E s \in Screen : geom = [pos |-> s, size |-> 1] /\ window = [pos |-> s, size |-> 1, mapped |-> FALSE]
    /\ dirty = FALSE /\ visible = FALSE /\ listed = FALSE /\ refs = 0
    /\ drawable = [size |-> 0, surface |-> FALSE, refreshed |-> FALSE]
    /\ content = "none" /\ expose = FALSE /\ area = {} /\ frames = <<>> /\ phase = "loop" /\ calls = 0

DrawinNext ==
    \/ LuaGeometry \/ Signal \/ UpdateOld \/ UpdateNew \/ Show \/ Ref \/ Hide \/ Drawn \/ HandleExpose \/ Refresh \/ Wake

DrawinSpec == DrawinInit /\ [][DrawinNext]_drawinVars

----------------------------------------------------------------------------
(* Properties. *)

\* Whatever nests in the signals: a visible drawin has a surface of the size on
\* record, and the window has the geometry on record unless that is dirty, which
\* no visible drawin is when the manager sleeps; what Lua has drawn since the
\* surface was made is in the window when no Expose event is left; when no call
\* runs, the drawin is referenced and listed exactly while it is visible, and
\* the work areas leave room for it on the screen where it is and on no other
\* (drawin_moveresize, drawin_set_visible, drawin_refresh, drawable_set_geometry).
DrawinShown ==
    /\ DrawinTypeOK
    /\ drawable.surface => drawable.size = geom.size
    /\ visible => drawable.surface
    /\ ~dirty => window.pos = geom.pos /\ window.size = geom.size
    /\ phase = "poll" /\ visible => ~dirty
    /\ phase = "poll" /\ visible /\ drawable.refreshed /\ ~expose => content = "current"
    /\ frames = <<>> =>
         /\ listed = visible /\ window.mapped = visible /\ refs = IF visible THEN 1 ELSE 0
         /\ area = IF Strut /\ visible THEN {geom.pos} ELSE {}

=============================================================================
