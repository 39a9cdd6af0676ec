------------------------------ MODULE Wallpaper ------------------------------
(***************************************************************************)
(* The wallpaper is a pixmap that outlives the connection that made it.    *)
(* root.wallpaper() opens a second connection for one pixmap, publishes    *)
(* the pixmap in two properties of the root window while the server is     *)
(* grabbed, kills the owner of the one that was there, and leaves its own  *)
(* pixmap behind. Handlers of wallpaper_changed run before the second      *)
(* connection ends and may set the wallpaper again. Other programs set the *)
(* wallpaper too, and kill what they find.                                 *)
(*                                                                         *)
(* Source: root.c, property_handle_xrootpmap_id in property.c.             *)
(***************************************************************************)
EXTENDS Naturals, Sequences, FiniteSets

CONSTANTS
    Own,       \* pixmaps of this program
    Foreign,   \* pixmaps of other programs
    NoPixmap,
    MaxEvents  \* bound: PropertyNotify events that wait

ASSUME WallpaperAssumption ==
    /\ Own \cap Foreign = {}
    /\ NoPixmap \notin Own \cup Foreign
    /\ "no" \notin Own \cup Foreign \cup {NoPixmap}
    /\ MaxEvents \in Nat

VARIABLES
    xroot,      \* X: _XROOTPMAP_ID
    esetroot,   \* X: ESETROOT_PMAP_ID
    alive,      \* X: pixmaps that exist
    conn,       \* the connection of each own pixmap: "none", "open", "retain",
                \* "closed", or "kept": killed when it was open, and to be retained
    settings,     \* calls of root_set_wallpaper, innermost last
    events,     \* PropertyNotify events on their way
    reading,    \* what root_update_wallpaper read, or "no"
    wallpaper   \* globalconf.wallpaper

paperVars == <<xroot, esetroot, alive, conn, settings, events, reading, wallpaper>>

At == {"painted", "published", "told", "retained"}

WallpaperTypeOK ==
    /\ {xroot, esetroot, wallpaper} \subseteq Own \cup Foreign \cup {NoPixmap}
    /\ alive \subseteq Own \cup Foreign
    /\ conn \in [Own -> {"none", "open", "retain", "closed", "kept"}]
    /\ \A i \in DOMAIN settings : settings[i].pixmap \in Own /\ settings[i].at \in At
    /\ events \in Nat /\ reading \in Own \cup Foreign \cup {NoPixmap, "no"}

----------------------------------------------------------------------------
(* X: KillClient closes the connection that made a pixmap. A pixmap that   *)
(* was left behind goes, one that is to be left behind is left behind.     *)

Killed(p) == IF p \in Own /\ conn[p] = "retain" THEN {} ELSE {p}
ConnKilled(p) == IF p \notin Own THEN conn
                 ELSE [conn EXCEPT ![p] = IF @ = "retain" THEN "kept" ELSE "closed"]

----------------------------------------------------------------------------
(* root_set_wallpaper *)

\* Lua runs when nothing else does, or in a handler of wallpaper_changed
LuaRuns == reading = "no" /\ \A i \in DOMAIN settings : i = Len(settings) => settings[i].at = "told"

Step(from, to) ==
    /\ settings # <<>> /\ settings[Len(settings)].at = from
    /\ settings' = [settings EXCEPT ![Len(settings)].at = to]
Pixmap == settings[Len(settings)].pixmap

SetWallpaper(p) ==
    /\ LuaRuns /\ conn[p] = "none"
    /\ conn' = [conn EXCEPT ![p] = "open"] /\ alive' = alive \cup {p}
    /\ settings' = Append(settings, [pixmap |-> p, at |-> "painted"])
    /\ UNCHANGED <<xroot, esetroot, events, reading, wallpaper>>

\* root.wallpaper(pattern)
LuaWallpaper == \E p \in Own : SetWallpaper(p)

\* mutant: ESETROOT_PMAP_ID is read when it has been changed already
ReadLate(p) == p

\* the pixmap to kill is asked for before the property changes
Old(p) == esetroot

\* root_set_wallpaper_pixmap. The server is grabbed and the root window's events
\* are not selected: nobody comes between and no event tells of it.
Publish ==
    /\ Step("painted", "published")
    /\ xroot' = Pixmap /\ esetroot' = Pixmap
    /\ alive' = alive \ Killed(Old(Pixmap))
    /\ conn' = ConnKilled(Old(Pixmap))
    /\ UNCHANGED <<events, reading, wallpaper>>

\* the request to keep the pixmap waits in the buffer of the second connection
Tell ==
    /\ Step("published", "told")
    /\ wallpaper' = Pixmap
    /\ UNCHANGED <<xroot, esetroot, alive, conn, events, reading>>

\* mutant: the pixmap is not kept
NotKept == conn

Retained == [conn EXCEPT ![Pixmap] = IF @ = "open" THEN "retain" ELSE @]

Retain ==
    /\ reading = "no" /\ Step("told", "retained")
    /\ conn' = Retained
    /\ UNCHANGED <<xroot, esetroot, alive, events, reading, wallpaper>>

Disconnect ==
    /\ settings # <<>> /\ settings[Len(settings)].at = "retained"
    /\ settings' = SubSeq(settings, 1, Len(settings) - 1)
    /\ conn' = [conn EXCEPT ![Pixmap] = IF @ \in {"open", "retain"} THEN "closed" ELSE @]
    /\ alive' = IF conn[Pixmap] = "open" THEN alive \ {Pixmap} ELSE alive
    /\ UNCHANGED <<xroot, esetroot, events, reading, wallpaper>>

----------------------------------------------------------------------------
(* root_update_wallpaper: two round trips. *)

ReadProperty ==
    /\ reading' = xroot /\ wallpaper' = NoPixmap
    /\ UNCHANGED <<xroot, esetroot, alive, conn, settings>>

\* the main loop handles events when no Lua function runs
HandleNotify == settings = <<>> /\ reading = "no" /\ events > 0 /\ events' = events - 1 /\ ReadProperty

ReadGeometry ==
    /\ reading # "no" /\ reading' = "no"
    /\ wallpaper' = IF reading \in alive THEN reading ELSE NoPixmap
    /\ UNCHANGED <<xroot, esetroot, alive, conn, settings, events>>

----------------------------------------------------------------------------
(* Other programs. *)

\* one that grabs the server and kills what it finds, like Esetroot
ForeignSet(f) ==
    /\ events < MaxEvents /\ f \notin {xroot, esetroot} /\ f \in alive
    /\ xroot' = f /\ esetroot' = f /\ events' = events + 1
    /\ alive' = alive \ Killed(esetroot) /\ conn' = ConnKilled(esetroot)
    /\ UNCHANGED <<settings, reading, wallpaper>>

\* one that sets _XROOTPMAP_ID only
ForeignShows(f) ==
    /\ events < MaxEvents /\ f \notin {xroot, esetroot} /\ f \in alive
    /\ xroot' = f /\ events' = events + 1
    /\ UNCHANGED <<esetroot, alive, conn, settings, reading, wallpaper>>

ForeignEnds(f) ==
    /\ f \in alive /\ alive' = alive \ {f}
    /\ UNCHANGED <<xroot, esetroot, conn, settings, events, reading, wallpaper>>

\* main() reads the property when events of the root window are selected
WallpaperInit ==
    /\ xroot \in Foreign \cup {NoPixmap} /\ esetroot \in {xroot, NoPixmap}
    /\ alive = Foreign /\ conn = [p \in Own |-> "none"] /\ settings = <<>> /\ events = 0
    /\ reading = xroot /\ wallpaper = NoPixmap

WallpaperNext ==
    \/ LuaWallpaper \/ Publish \/ Tell \/ Retain \/ Disconnect \/ HandleNotify \/ ReadGeometry
    \/ \E f \in Foreign : ForeignSet(f) \/ ForeignShows(f) \/ ForeignEnds(f)

WallpaperSpec == WallpaperInit /\ [][WallpaperNext]_paperVars

----------------------------------------------------------------------------
(* Properties. *)

\* The manager's surface is the wallpaper that is published, once the events are
\* handled and whoever set it; a pixmap that this program published is there for
\* as long as it is published; and of its pixmaps none is left behind but that
\* one, unless another program killed its connection in the moment between
\* asking for the pixmap to be kept and ending (root_set_wallpaper,
\* root_set_wallpaper_pixmap, root_update_wallpaper).
WallpaperKept ==
    /\ WallpaperTypeOK
    /\ reading = "no" /\ events = 0 /\ xroot \in alive
         /\ (\A i \in DOMAIN settings : settings[i].at \in {"told", "retained"}) => wallpaper = xroot
    /\ xroot \in Own => xroot \in alive
    /\ \A p \in Own \cap alive : conn[p] = "closed" => p = esetroot

=============================================================================
