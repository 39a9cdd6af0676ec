-------------------------------- MODULE Screens --------------------------------
(***************************************************************************)
(* The screens of the manager and the monitors of the X server: the scan   *)
(* at the start, screen_refresh when RandR tells of a change, the screens  *)
(* that Lua adds and removes, the viewports, the primary screen and the    *)
(* screen each client is on. screen_refresh emits signals between its      *)
(* loops; the actions of Lua run there.                                    *)
(*                                                                         *)
(* Source: objects/screen.c; event.c for the RandR events.                 *)
(***************************************************************************)
EXTENDS Integers, Sequences, SequencesExt, FiniteSets, FiniteSetsExt

CONSTANTS
    Client,
    Layouts,      \* what the X server may show: sequences of [xid, area, outs]
    Root,         \* the area of the root window
    Places,       \* areas clients and fake screens may get
    NoXid,        \* XCB_NONE
    FakeXid,      \* FAKE_SCREEN_XID
    DefaultOutput,\* the output name of the compatibility layer of old drivers
    MaxScreens,   \* bound: screen objects alive
    MaxFakes,     \* bound: screens that Lua made
    MaxChanges,   \* bound: changes of the monitors
    MaxLua        \* bound: actions of Lua from the start of one refresh to the next

NoScreen == 0
Object == 1..MaxScreens

Xid == {NoXid, FakeXid} \cup UNION {{l[i].xid : i \in DOMAIN l} : l \in Layouts}
OutputName == UNION {UNION {ToSet(l[i].outs) : i \in DOMAIN l} : l \in Layouts}
Output == OutputName \ {DefaultOutput}
Area == [x : Int, y : Int, w : Nat \ {0}, h : Nat \ {0}]
Monitor == [xid : Xid \ {NoXid, FakeXid}, area : Area, outs : Seq(OutputName)]

ASSUME ScreensAssumption ==
    /\ MaxScreens \in Nat /\ MaxFakes \in Nat /\ MaxChanges \in Nat /\ MaxLua \in Nat
    /\ Root \in Area /\ Places \subseteq Area /\ NoXid # FakeXid
    /\ \A l \in Layouts : /\ l \in Seq(Monitor)
                          /\ \A i, j \in DOMAIN l : l[i].xid = l[j].xid => i = j
                          /\ 2 * Len(l) + MaxFakes < MaxScreens
    /\ 2 + MaxFakes < MaxScreens

VARIABLES
    screens,   \* globalconf.screens: objects in their order
    info,      \* screen_t of every object
    views,     \* the list of viewports
    nextView,  \* screen_area_gid
    at, on,    \* geometry and screen of each client
    strut,     \* what each client reserves at the top of its screen
    primary,   \* globalconf.primary_screen
    ignore,    \* globalconf.ignore_screens
    randr,     \* have_randr_13
    pending,   \* screen_refresh_pending
    run,       \* how far screen_refresh is, and its arrays
    lua,       \* actions that Lua may still take before the next refresh
    layout,    \* the monitors of the X server
    main,      \* the primary output of the X server
    told,      \* a RandR event about the monitors is on its way
    changes    \* changes of the monitors so far

vars == <<screens, info, views, nextView, at, on, strut, primary, ignore, randr, pending, run, lua, layout, main, told, changes>>
xserver == <<layout, main, told, changes>>

Dead == [valid |-> FALSE, c |-> FALSE, xid |-> NoXid, geo |-> Root, work |-> Root, view |-> 0, refs |-> 0]
Idle == [pc |-> "idle", found |-> <<>>, new |-> <<>>, left |-> <<>>, gone |-> <<>>]

----------------------------------------------------------------------------
(* Areas. *)

CoordInScreen(a, x, y) == x >= a.x /\ x < a.x + a.w /\ y >= a.y /\ y < a.y + a.h

AreaInScreen(a, g) ==
    g.x < a.x + a.w /\ g.x + g.w > a.x /\ g.y < a.y + a.h /\ g.y + g.h > a.y

Gap(p, low, size) == IF p < low THEN low - p ELSE IF p < low + size THEN 0 ELSE p - low - size

Distance(a, x, y) == Gap(x, a.x, a.w) * Gap(x, a.x, a.w) + Gap(y, a.y, a.h) * Gap(y, a.y, a.h)

\* the first screen that holds the point, else the first of the nearest ones
ByCoord(l, f, g) ==
    LET holds == {i \in DOMAIN l : CoordInScreen(f[l[i]].geo, g.x, g.y)}
        near  == {i \in DOMAIN l : \A j \in DOMAIN l :
                     Distance(f[l[i]].geo, g.x, g.y) <= Distance(f[l[j]].geo, g.x, g.y)}
    IN  IF l = <<>> THEN NoScreen ELSE l[Min(IF holds # {} THEN holds ELSE near)]

\* struts of the clients of a screen; the other sides work like the top
Workarea(o, f, where, asked) ==
    LET top == Max({0} \cup {asked[c] : c \in {d \in Client : where[d] = o}})
        g == f[o].geo
        cut == IF top < g.h THEN top ELSE g.h
    IN  [g EXCEPT !.y = @ + top, !.h = @ - cut]

----------------------------------------------------------------------------
(* Viewports and scanning. *)

Unmarked(vs) == [i \in DOMAIN vs |-> [vs[i] EXCEPT !.marked = FALSE]]

\* viewport_add: an existing viewport of the same area is used again
ViewAdd(acc, area, outs) ==
    LET same == {i \in DOMAIN acc.views : acc.views[i].area = area}
        k == IF same = {} THEN Len(acc.views) + 1 ELSE Min(same)
        grown == IF same # {} THEN acc.views
                 ELSE Append(acc.views, [id |-> acc.next, area |-> area, outs |-> <<>>, marked |-> FALSE])
        used == [grown[k] EXCEPT !.marked = TRUE, !.outs = @ \o outs]
    IN  [acc EXCEPT !.views = [i \in DOMAIN grown |-> IF i = k THEN used ELSE grown[i]],
                    !.next = IF same = {} THEN @ + 1 ELSE @,
                    !.last = grown[k].id]

\* screen_add and the assignments after it
Found(acc, xid, area) ==
    IF ignore THEN acc
    ELSE [acc EXCEPT !.found = Append(@, [xid |-> xid, geo |-> area, view |-> acc.last])]

\* a monitor or CRTC; one without outputs is skipped, and one whose viewport has
\* the output of an old driver ends the scan
RandrMonitor(acc, m) ==
    IF acc.stop \/ m.outs = <<>> THEN acc
    ELSE LET added == ViewAdd(acc, m.area, m.outs)
             compat == \E v \in ToSet(added.views) : v.id = added.last /\ DefaultOutput \in ToSet(v.outs)
         IN  IF ~ignore /\ compat THEN [added EXCEPT !.found = <<>>, !.stop = TRUE]
             ELSE Found(added, m.xid, m.area)

XineramaMonitor(acc, m) == Found(ViewAdd(acc, m.area, <<>>), NoXid, m.area)

ScanMonitors(acc, withRandr) ==
    LET seen[i \in 0..Len(layout)] ==
            IF i = 0 THEN acc
            ELSE IF withRandr THEN RandrMonitor(seen[i - 1], layout[i]) ELSE XineramaMonitor(seen[i - 1], layout[i])
    IN  seen[Len(layout)]

ScanRandr(acc) == ScanMonitors(acc, TRUE)
ScanXinerama(acc) == ScanMonitors(acc, FALSE)
ScanX11(acc) == Found(ViewAdd(acc, Root, <<>>), NoXid, Root)

StartScan(vs) == [views |-> Unmarked(vs), next |-> nextView, found |-> <<>>, last |-> 0, stop |-> FALSE]

\* screens at one place are merged into one of them that is not smaller
Duplicate(l, i, j) ==
    /\ i # j
    /\ ~(l[i].geo.w < l[j].geo.w /\ l[i].geo.h < l[j].geo.h)
    /\ l[i].geo.x = l[j].geo.x /\ l[i].geo.y = l[j].geo.y

\* mutant: the screen that stays does not grow
MergeKeepsSize(l, i, j) == RemoveAt(l, j)

Merge(l, i, j) ==
    RemoveAt([l EXCEPT ![i].geo.w = Max({@, l[j].geo.w}), ![i].geo.h = Max({@, l[j].geo.h})], j)

MergeFirst(l) ==
    LET first == {i \in DOMAIN l : \E j \in DOMAIN l : Duplicate(l, i, j)}
        i == Min(first)
    IN  IF first = {} THEN l ELSE Merge(l, i, Min({j \in DOMAIN l : Duplicate(l, i, j)}))

\* the search starts again after each merge: a list allows at most its length of them
Deduplicate(l) ==
    LET merged[n \in 0..Len(l)] == IF n = 0 THEN l ELSE MergeFirst(merged[n - 1])
    IN  merged[Len(l)]

\* the elements of a list at some of its places, in their order
Chosen(l, places) ==
    LET kept[i \in 0..Len(l)] ==
            IF i = 0 THEN <<>> ELSE IF i \in places THEN Append(kept[i - 1], l[i]) ELSE kept[i - 1]
    IN  kept[Len(l)]

Purged(vs) == Chosen(vs, {i \in DOMAIN vs : vs[i].marked})
Ids(vs) == {vs[i].id : i \in DOMAIN vs}
Outputs(vs, id) == UNION {ToSet(v.outs) : v \in {w \in ToSet(vs) : w.id = id}}

\* viewport_purge forgets the viewport of a screen that is in globalconf.screens
Forget(f, l, vs) ==
    [o \in Object |-> IF o \in ToSet(l) /\ f[o].view \notin Ids(vs) THEN [f[o] EXCEPT !.view = 0] ELSE f[o]]

\* n objects for new screens; Room: the bound on objects allows that many
Fresh(n) == {new \in [1..n -> {o \in Object : info[o].refs = 0}] : IsInjective(new)}
Room(n) == Fresh(n) # {}
Allocated(n) == CHOOSE new \in Fresh(n) : TRUE

\* the last screen that shows the primary output, if there is one
UpdatePrimary(l, f, vs, before) ==
    LET shows == {i \in DOMAIN l : main \in Outputs(vs, f[l[i]].view)}
    IN  IF randr' /\ shows # {} THEN l[Max(shows)] ELSE before

TypeOK ==
    /\ screens \in Seq(Object) /\ primary \in Object \cup {NoScreen}
    /\ on \in [Client -> Object \cup {NoScreen}] /\ at \in [Client -> [x : Int, y : Int, w : Nat, h : Nat]]
    /\ \A o \in Object : info[o].refs \in 0..2 /\ info[o].valid \in BOOLEAN /\ info[o].view < nextView
    /\ ignore \in BOOLEAN /\ randr \in BOOLEAN /\ pending \in BOOLEAN /\ told \in BOOLEAN
    /\ run.pc \in {"boot", "idle", "notify", "add", "remove", "modify"} /\ lua \in 0..MaxLua

----------------------------------------------------------------------------
(* The X server. *)

\* monitors are plugged in, moved, or another output becomes the primary one
Plug(l, m) ==
    /\ changes < MaxChanges /\ run.pc # "boot"
    /\ (l = layout) # (m = main)
    /\ layout' = l /\ main' = m
    /\ told' = TRUE /\ changes' = changes + 1
    /\ UNCHANGED <<screens, info, views, nextView, at, on, strut, primary, ignore, randr, pending, run, lua>>

\* RRScreenChangeNotify, or ConfigureNotify of the root window: a refresh is
\* scheduled. RRNotify asks for the primary output again.
RandrEvent ==
    /\ told /\ run.pc = "idle"
    /\ told' = FALSE
    /\ randr' = randr
    /\ pending' = (pending \/ randr)
    /\ primary' = UpdatePrimary(screens, info, views, primary)
    /\ UNCHANGED <<screens, info, views, nextView, at, on, strut, ignore, run, lua, layout, main, changes>>

----------------------------------------------------------------------------
(* The scan at the start. *)

Object2(s, refs) ==
    [valid |-> TRUE, c |-> TRUE, xid |-> s.xid, geo |-> s.geo, work |-> s.geo, view |-> s.view, refs |-> refs]

\* screen_scan: RandR, else Xinerama, else the root window
Boot(hasRandr, hasXinerama) ==
    /\ run.pc = "boot"
    /\ LET none == StartScan(views)
           r == IF hasRandr THEN ScanRandr(none) ELSE none
           x == IF r.found = <<>> /\ hasXinerama THEN ScanXinerama(r) ELSE r
           a == IF x.found = <<>> THEN ScanX11(x) ELSE x
           l == Deduplicate(a.found)
           new == Allocated(Len(l))
           f == [o \in Object |-> IF o \in ToSet(new) THEN Object2(l[CHOOSE i \in DOMAIN l : new[i] = o], 1) ELSE Dead]
       IN  /\ Room(Len(l))
           /\ randr' = (hasRandr /\ (r.found # <<>> \/ ignore))
           /\ screens' = new
           /\ info' = f
           /\ views' = Purged(a.views) /\ nextView' = a.next
           /\ primary' = UpdatePrimary(new, f, views', NoScreen)
           /\ on' = [c \in Client |-> ByCoord(new, f, at[c])]
    /\ run' = Idle /\ lua' = MaxLua
    /\ UNCHANGED <<at, strut, ignore, pending, xserver>>

----------------------------------------------------------------------------
(* screen_refresh, which runs when the main loop is idle. *)

RefreshScan ==
    /\ run.pc = "idle" /\ pending
    /\ pending' = FALSE
    /\ LET a == ScanRandr(StartScan(views)) IN
       /\ views' = Purged(a.views) /\ nextView' = a.next
       /\ info' = Forget(info, screens, views')
       /\ run' = [Idle EXCEPT !.pc = "notify", !.found = a.found]
    /\ lua' = MaxLua
    /\ UNCHANGED <<screens, at, on, strut, primary, ignore, randr, xserver>>

\* after property::_viewports: duplicates go, and without any screen the
\* whole root window becomes one
RefreshPrepare ==
    /\ run.pc = "notify"
    /\ LET l == Deduplicate(run.found)
           start == [views |-> views, next |-> nextView, found |-> <<>>, last |-> 0, stop |-> FALSE]
           a == IF l = <<>> THEN ScanX11(start) ELSE [start EXCEPT !.found = l]
           new == Allocated(Len(a.found))
       IN  /\ Room(Len(a.found))
           /\ views' = a.views /\ nextView' = a.next
           /\ info' = [o \in Object |->
                         IF o \in ToSet(new)
                         THEN [Object2(a.found[CHOOSE i \in DOMAIN new : new[i] = o], 1) EXCEPT !.valid = FALSE]
                         ELSE info[o]]
           /\ run' = [run EXCEPT !.pc = "add", !.found = <<>>, !.new = new, !.left = new]
    /\ UNCHANGED <<screens, at, on, strut, primary, ignore, randr, pending, lua, xserver>>

Known(l, o) == \E i \in DOMAIN l : info[l[i]].xid = info[o].xid

\* the next scanned screen: added unless its xid is known; then "_added"
RefreshAdd ==
    /\ run.pc = "add" /\ run.left # <<>>
    /\ LET o == Head(run.left) IN
       IF Known(screens, o) THEN UNCHANGED <<screens, info>>
       ELSE /\ screens' = Append(screens, o)
            /\ info' = [info EXCEPT ![o].valid = TRUE, ![o].work = info[o].geo, ![o].refs = @ + 1]
    /\ run' = [run EXCEPT !.left = Tail(@)]
    /\ UNCHANGED <<views, nextView, at, on, strut, primary, ignore, randr, pending, lua, xserver>>

Gone(o) == info[o].c /\ info[o].xid # FakeXid /\ ~Known(run.new, o)

\* the screens that are gone leave the list
RefreshCollect ==
    /\ run.pc = "add" /\ run.left = <<>>
    /\ run' = [run EXCEPT !.pc = "remove", !.gone = Chosen(screens, {i \in DOMAIN screens : Gone(screens[i])})]
    /\ screens' = Chosen(screens, {i \in DOMAIN screens : ~Gone(screens[i])})
    /\ UNCHANGED <<info, views, nextView, at, on, strut, primary, ignore, randr, pending, lua, xserver>>

\* mutant: the clients stay where they were
NobodyMoves(o, l) == on

\* screen_removed moves the clients of the screen by their coordinates
Evacuated(o, l) == [c \in Client |-> IF on[c] = o THEN ByCoord(l, info, at[c]) ELSE on[c]]

\* mutant: globalconf.primary_screen is not cleared
PrimaryStays(o) == primary

WithoutPrimary(o) == IF primary = o THEN NoScreen ELSE primary

\* after "removed" of the next screen that is gone
RefreshRemove ==
    /\ run.pc = "remove" /\ run.gone # <<>>
    /\ LET o == Head(run.gone) IN
       /\ primary' = WithoutPrimary(o)
       /\ on' = Evacuated(o, screens)
       /\ info' = [info EXCEPT ![o].valid = FALSE, ![o].refs = @ - 1]
    /\ run' = [run EXCEPT !.gone = Tail(@)]
    /\ UNCHANGED <<screens, views, nextView, at, strut, ignore, randr, pending, lua, xserver>>

RefreshRemoved ==
    /\ run.pc = "remove" /\ run.gone = <<>>
    /\ run' = [run EXCEPT !.pc = "modify", !.left = screens]
    /\ UNCHANGED <<screens, info, views, nextView, at, on, strut, primary, ignore, randr, pending, lua, xserver>>

\* mutant: the work area is not computed again
ModifiedGeoOnly(o, n) == [info EXCEPT ![o].geo = info[n].geo, ![o].view = info[n].view, ![n].view = info[o].view]

\* screen_modified: the geometry and the work area, then the viewports are swapped
Modified(o, n) ==
    LET moved == [info EXCEPT ![o].geo = info[n].geo]
    IN  [moved EXCEPT ![o].work = IF info[o].geo # info[n].geo THEN Workarea(o, moved, on, strut) ELSE @,
                      ![o].view = info[n].view, ![n].view = info[o].view]

RefreshModify ==
    /\ run.pc = "modify" /\ run.left # <<>>
    /\ LET o == Head(run.left)
           same == {n \in ToSet(run.new) : info[n].xid = info[o].xid}
       IN  info' = IF same = {} THEN info ELSE Modified(o, CHOOSE n \in same : TRUE)
    /\ run' = [run EXCEPT !.left = Tail(@)]
    /\ UNCHANGED <<screens, views, nextView, at, on, strut, primary, ignore, randr, pending, lua, xserver>>

\* mutant: the references of the scan are kept
KeepReferences(f) == f

Unref(f) == [o \in Object |-> IF o \in ToSet(run.new) THEN [f[o] EXCEPT !.refs = @ - 1] ELSE f[o]]

\* objects without references are collected
Collected(f) == [o \in Object |-> IF f[o].refs = 0 THEN Dead ELSE f[o]]

RefreshEnd ==
    /\ run.pc = "modify" /\ run.left = <<>>
    /\ info' = Collected(Unref(info))
    /\ randr' = randr
    /\ primary' = UpdatePrimary(screens, info, views, primary)
    /\ run' = Idle
    /\ UNCHANGED <<screens, views, nextView, at, on, strut, ignore, pending, lua, xserver>>

----------------------------------------------------------------------------
(* Lua, between the turns and in the handlers of a refresh. Handlers of the *)
(* signals of a changed screen leave the list of screens alone: screen_refresh *)
(* walks over the array itself there. *)

MayAct == run.pc # "boot" /\ lua > 0 /\ lua' = lua - 1
MayList == MayAct /\ run.pc # "modify"

\* luaA_screen_fake_add
FakeAdd(area) ==
    /\ MayList /\ Cardinality({o \in Object : info[o].xid = FakeXid}) < MaxFakes
    /\ Room(1)
    /\ LET o == Allocated(1)[1]
           f == [info EXCEPT ![o] = [Object2([xid |-> FakeXid, geo |-> area, view |-> 0], 1) EXCEPT !.c = FALSE]]
       IN  /\ screens' = Append(screens, o)
           /\ info' = f
           /\ on' = [c \in Client |-> ByCoord(screens', f, at[c])]
    /\ UNCHANGED <<views, nextView, at, strut, primary, ignore, randr, pending, run, xserver>>

\* luaA_screen_fake_remove, of a screen that Lua made
FakeRemove(o) ==
    /\ MayList /\ o \in ToSet(screens) /\ info[o].xid = FakeXid
    /\ screens' = Chosen(screens, {i \in DOMAIN screens : screens[i] # o})
    /\ primary' = WithoutPrimary(o)
    /\ on' = Evacuated(o, screens')
    /\ info' = [info EXCEPT ![o] = Dead]
    /\ UNCHANGED <<views, nextView, at, strut, ignore, randr, pending, run, xserver>>

\* luaA_screen_fake_resize: the clients stay on the screen they were on
FakeResize(o, area) ==
    /\ MayAct /\ o \in ToSet(screens) /\ info[o].xid = FakeXid /\ info[o].geo # area
    /\ LET f == [info EXCEPT ![o].geo = area]
       IN  info' = [f EXCEPT ![o].work = Workarea(o, f, on, strut)]
    /\ UNCHANGED <<screens, views, nextView, at, on, strut, primary, ignore, randr, pending, run, xserver>>

\* screen_get_primary, when Lua reads screen.primary
ReadPrimary ==
    /\ MayAct /\ primary = NoScreen /\ screens # <<>>
    /\ primary' = screens[1]
    /\ UNCHANGED <<screens, info, views, nextView, at, on, strut, ignore, randr, pending, run, xserver>>

\* luaA_screen_swap
SwapScreens(i, j) ==
    /\ MayList /\ i \in DOMAIN screens /\ j \in DOMAIN screens /\ i < j
    /\ screens' = [screens EXCEPT ![i] = screens[j], ![j] = screens[i]]
    /\ UNCHANGED <<info, views, nextView, at, on, strut, primary, ignore, randr, pending, run, xserver>>

\* client_resize_do: the screen changes when the client left it
MoveClient(c, g) ==
    /\ MayAct /\ on[c] # NoScreen /\ at[c] # g
    /\ at' = [at EXCEPT ![c] = g]
    /\ on' = [on EXCEPT ![c] = IF AreaInScreen(info[@].geo, g) THEN @ ELSE ByCoord(screens, info, g)]
    /\ UNCHANGED <<screens, info, views, nextView, strut, primary, ignore, randr, pending, run, xserver>>

\* if all else fails the client goes to the corner of its screen
Forced(to, g) == IF AreaInScreen(to, g) THEN g ELSE [g EXCEPT !.x = to.x, !.y = to.y]

\* screen_client_moveto with doresize: the same place on the new screen, fitted in
Fitted(g, from, to) ==
    LET w == Min({g.w, to.w})
        h == Min({g.h, to.h})
        x == to.x + g.x - from.x
        y == to.y + g.y - from.y
    IN  Forced(to, [x |-> Min({x, to.x + to.w - w}), y |-> Min({y, to.y + to.h - h}), w |-> w, h |-> h])

\* c.screen = s
SetScreen(c, o) ==
    /\ MayAct /\ o \in ToSet(screens) /\ on[c] \notin {NoScreen, o}
    /\ at' = [at EXCEPT ![c] = Fitted(@, info[on[c]].geo, info[o].geo)]
    /\ on' = [on EXCEPT ![c] = o]
    /\ UNCHANGED <<screens, info, views, nextView, strut, primary, ignore, randr, pending, run, xserver>>

\* window:struts(): the work area of every screen is computed again
SetStrut(c, n) ==
    /\ MayAct /\ strut[c] # n
    /\ strut' = [strut EXCEPT ![c] = n]
    /\ info' = [o \in Object |-> IF o \in ToSet(screens) THEN [info[o] EXCEPT !.work = Workarea(o, info, on, strut')] ELSE info[o]]
    /\ UNCHANGED <<screens, views, nextView, at, on, primary, ignore, randr, pending, run, xserver>>

Init ==
    /\ screens = <<>> /\ info = [o \in Object |-> Dead]
    /\ views = <<>> /\ nextView = 1
    /\ at \in [Client -> Places] /\ on = [c \in Client |-> NoScreen] /\ strut = [c \in Client |-> 0]
    /\ primary = NoScreen /\ ignore \in BOOLEAN /\ randr = FALSE
    /\ pending = FALSE /\ run = [Idle EXCEPT !.pc = "boot"] /\ lua = 0
    /\ layout \in Layouts /\ main \in Output /\ told = FALSE /\ changes = 0

Next ==
    \/ \E l \in Layouts, m \in Output : Plug(l, m)
    \/ \E r \in BOOLEAN, x \in BOOLEAN : Boot(r, x)
    \/ RandrEvent \/ RefreshScan \/ RefreshPrepare \/ RefreshAdd \/ RefreshCollect
    \/ RefreshRemove \/ RefreshRemoved \/ RefreshModify \/ RefreshEnd
    \/ \E a \in Places : FakeAdd(a)
    \/ \E o \in Object : FakeRemove(o) \/ \E a \in Places : FakeResize(o, a)
    \/ ReadPrimary
    \/ \E i, j \in Object : SwapScreens(i, j)
    \/ \E c \in Client : \/ \E a \in Places : MoveClient(c, a)
                         \/ \E o \in Object : SetScreen(c, o)
                         \/ \E n \in 0..1 : SetStrut(c, n)

Spec == Init /\ [][Next]_vars

----------------------------------------------------------------------------
(* Properties. *)

Within(a, g) == a.x >= g.x /\ a.y >= g.y /\ a.x + a.w <= g.x + g.w /\ a.y + a.h <= g.y + g.h

\* When no refresh is due, every monitor with an output lies in a screen of
\* its own place, no screen of the scan is left of a monitor that went away,
\* and without any monitor the root window is a screen: whatever the handlers
\* did during the refreshes, and however the changes of the monitors fell
\* between them (screen_refresh, screen_deduplicate).
ScreensFollowMonitors ==
    run.pc = "idle" /\ ~pending /\ ~told /\ randr /\ ~ignore =>
        LET compat == \E v \in ToSet(views) : DefaultOutput \in ToSet(v.outs)
            shown == {m \in ToSet(layout) : m.outs # <<>> /\ ~compat}
            real == {o \in ToSet(screens) : info[o].c}
        IN  /\ \A m \in shown : \E o \in real : Within(m.area, info[o].geo)
            /\ real # {}
            /\ {info[o].xid : o \in real} \subseteq (IF shown = {} THEN {NoXid} ELSE {m.xid : m \in shown})
            /\ \A o, p \in real : o # p => <<info[o].geo.x, info[o].geo.y>> # <<info[p].geo.x, info[p].geo.y>>

\* No pointer outlives what it points to: the primary screen is a listed one
\* or one that is about to be removed, listed screens are valid and their
\* viewports exist, and an object has one reference for each array it is in
\* (globalconf.primary_screen, viewport_purge, screen_refresh).
NothingDangles ==
    /\ primary \in ToSet(screens) \cup ToSet(run.gone) \cup {NoScreen}
    /\ \A o \in ToSet(screens) : info[o].valid /\ info[o].view \in Ids(views) \cup {0}
    /\ \A o \in Object : info[o].refs = Cardinality({l \in {1, 2, 3} :
           o \in ToSet(CASE l = 1 -> screens [] l = 2 -> run.new [] l = 3 -> run.gone)})

\* A client is on a listed screen, or on one whose clients are about to be
\* moved; it is on no screen only while there is none (screen_removed,
\* luaA_screen_fake_add, screen_client_moveto).
ClientsOnScreens ==
    \A c \in Client : IF on[c] = NoScreen THEN screens = <<>>
                      ELSE on[c] \in ToSet(screens) \cup ToSet(run.gone)

\* The work area of a screen lies in the screen: nothing changes the geometry
\* and leaves the work area behind (screen_modified, luaA_screen_fake_resize,
\* screen_update_workarea).
WorkareaInside == \A o \in ToSet(screens) : Within(info[o].work, info[o].geo)

\* screen_refresh with Lua in the middle: nothing refers to a screen that is
\* gone, every client is on a screen there is, and work areas are inside theirs.
ScreensConsistent == TypeOK /\ NothingDangles /\ ClientsOnScreens /\ WorkareaInside
=============================================================================
