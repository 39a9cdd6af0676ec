---------------------------------- MODULE Tray ----------------------------------
(***************************************************************************)
(* The system tray. Applications ask to have an icon docked; the icon      *)
(* becomes a child of the tray window, which Lua puts into a drawin. What  *)
(* an icon does afterwards (its _XEMBED_INFO, leaving, dying, mapping) is  *)
(* an event that is handled later.                                         *)
(*                                                                         *)
(* Source: systray.c, common/xembed.c and xembed.h, the handlers of        *)
(* event.c and property.c for embedded windows, drawin_systray_kickout.    *)
(***************************************************************************)
EXTENDS Naturals, Sequences, SequencesExt, FiniteSets

CONSTANTS
    Icon, Kde,   \* windows that may be docked; those with KDE's property
    Drawin,      \* drawins that may show the tray
    MaxActs      \* bound: what applications do with their icons

ASSUME TrayAssumption ==
    /\ Kde \subseteq Icon /\ MaxActs \in Nat
    /\ Drawin \cap {"root", "gone", "none"} = {}

VARIABLES
    xicon,      \* X, per icon: parent, _XEMBED_INFO, mapped, size, selected events
    xtray,      \* X: the parent of the tray window and whether it is mapped
    arrived,    \* events the manager has not handled
    asked,       \* what applications did so far
    embedded,   \* globalconf.embedded
    docking,    \* <<>>, or the icon being docked and what its _XEMBED_INFO said
    placed,     \* globalconf.systray.parent
    registered, \* globalconf.systray.registered
    dirty,      \* Lua heard "systray::update" and will draw the tray
    drawins,    \* the drawins that live
    unheard,    \* icons whose _XEMBED_INFO changed between the reading and the selection
    early       \* icons that were docked while an older move of theirs was not handled

trayVars == <<xicon, xtray, arrived, asked, embedded, docking, placed, registered, dirty, drawins, unheard, early>>
appVars == <<xtray, embedded, docking, placed, registered, dirty, drawins, early>>

Entry == [win : Icon, mapped : BOOLEAN]
TrayEventKind == {"dock", "docked", "property", "map", "size", "reparent", "destroy"}
TrayEvent == [kind : TrayEventKind, win : Icon]
IconState == [parent : {"root", "tray", "gone"}, info : {"none", "hide", "show"},
              shown : {"yes", "no", "byself"}, size : {"tray", "own"}, watched : BOOLEAN]

TrayTypeOK ==
    /\ xicon \in [Icon -> IconState]
    /\ xtray \in [parent : Drawin \cup {"root", "gone"}, mapped : BOOLEAN]
    /\ arrived \in Seq(TrayEvent)
    /\ asked \in 0..MaxActs
    /\ embedded \in Seq(Entry)
    /\ docking \in {<<>>} \cup [win : Icon, info : {"none", "hide", "show"}]
    /\ placed \in Drawin \cup {"none"}
    /\ registered \in BOOLEAN /\ dirty \in BOOLEAN
    /\ drawins \subseteq Drawin /\ unheard \subseteq Icon /\ early \subseteq Icon

----------------------------------------------------------------------------
(* Applications. *)

Alive(w) == xicon[w].parent # "gone"
Acted == asked < MaxActs /\ asked' = asked + 1
Queued(k, w) == arrived' = Append(arrived, [kind |-> k, win |-> w])
Notified(k, w) == IF xicon[w].watched THEN Queued(k, w) ELSE UNCHANGED arrived

AskDock(w) == Acted /\ Alive(w) /\ Queued("dock", w) /\ UNCHANGED <<xicon, unheard, appVars>>

SetInfo(w, v) ==
    /\ Acted /\ Alive(w) /\ v # xicon[w].info
    /\ xicon' = [xicon EXCEPT ![w].info = v]
    /\ Notified("property", w)
    /\ unheard' = IF xicon[w].watched THEN unheard \ {w}
                  ELSE IF docking # <<>> /\ docking.win = w THEN unheard \cup {w} ELSE unheard
    /\ UNCHANGED appVars

\* an icon goes elsewhere ("root" is any parent but the tray), or dies
Leave(w) ==
    /\ Acted /\ Alive(w)
    /\ xicon' = [xicon EXCEPT ![w].parent = "root", ![w].shown = "no"]
    /\ Notified("reparent", w)
    /\ UNCHANGED <<unheard, appVars>>
Die(w) ==
    /\ Acted /\ Alive(w)
    /\ xicon' = [xicon EXCEPT ![w].parent = "gone", ![w].shown = "no"]
    /\ Notified("destroy", w)
    /\ UNCHANGED <<unheard, appVars>>

\* the manager redirects the mapping and configuring of children of the tray
\* window and of the root window
AskMap(w) ==
    /\ Acted /\ Alive(w) /\ xicon[w].shown # "yes" /\ (xicon[w].parent = "tray" \/ w \in Kde)
    /\ Queued("map", w) /\ UNCHANGED <<xicon, unheard, appVars>>
AskSize(w) == Acted /\ Alive(w) /\ Queued("size", w) /\ UNCHANGED <<xicon, unheard, appVars>>
HideSelf(w) ==
    /\ Acted /\ xicon[w].shown = "yes"
    /\ xicon' = [xicon EXCEPT ![w].shown = "byself"]
    /\ UNCHANGED <<arrived, unheard, appVars>>

----------------------------------------------------------------------------
(* The list of embedded windows. *)

\* xembed_getbywin
GetByWin(w) == {i \in DOMAIN embedded : embedded[i].win = w}

\* systray_num_visible_entries, which is only compared with zero
AnyVisible(list) == \E i \in DOMAIN list : list[i].mapped

\* luaA_systray_invalidate
InvalidateTray(list) ==
    /\ dirty' = TRUE
    /\ xtray' = IF AnyVisible(list) THEN xtray ELSE [xtray EXCEPT !.mapped = FALSE]

Embed(list) == embedded' = list /\ InvalidateTray(list)
Flagged(w, b) == [i \in DOMAIN embedded |-> IF embedded[i].win = w THEN [embedded[i] EXCEPT !.mapped = b] ELSE embedded[i]]
Without(w) == RemoveAt(embedded, CHOOSE i \in GetByWin(w) : TRUE)

Idle == docking = <<>>
Handling(k, w) == Idle /\ arrived # <<>> /\ Head(arrived) = [kind |-> k, win |-> w]
Dequeued == arrived' = Tail(arrived)

\* X maps and unmaps windows that are there
XMap(w, s) == IF Alive(w) THEN [xicon EXCEPT ![w].shown = s] ELSE xicon

\* an event about a window that is no entry, and a second request for one that is
Ignore(w) == UNCHANGED <<xicon, xtray, embedded, dirty>>

----------------------------------------------------------------------------
(* Docking. The event names the window to dock, and nobody asks whether it *)
(* is still there. _XEMBED_INFO is read before its changes are selected.   *)

\* systray_process_client_message, client_manage of a window of KDE
MayDock(w) == /\ GetByWin(w) = {}
              /\ Handling("dock", w) \/ (Handling("map", w) /\ Alive(w) /\ w \in Kde)

DockRead(w) ==
    /\ MayDock(w)
    /\ docking' = [win |-> w, info |-> IF Alive(w) THEN xicon[w].info ELSE "none"]
    /\ Dequeued
    /\ UNCHANGED <<xicon, xtray, asked, embedded, placed, registered, dirty, drawins, unheard, early>>

\* moves of an icon that the manager has not heard of
Leaving(w) == {i \in DOMAIN arrived : arrived[i] = [kind |-> "reparent", win |-> w]}

\* systray_request_handle: what it does to the window, and its entry; an icon
\* without _XEMBED_INFO is taken as mapped
DockFinish ==
    /\ docking # <<>>
    /\ LET w == docking.win IN
       /\ xicon' = IF Alive(w) THEN [xicon EXCEPT ![w].parent = "tray", ![w].watched = TRUE] ELSE xicon
       /\ arrived' = IF Alive(w) THEN Append(arrived, [kind |-> "docked", win |-> w]) ELSE arrived
       /\ Embed(Append(embedded, [win |-> w, mapped |-> docking.info # "hide"]))
       /\ early' = IF Leaving(w) # {} THEN early \cup {w} ELSE early \ {w}
    /\ docking' = <<>>
    /\ UNCHANGED <<asked, placed, registered, drawins, unheard>>

----------------------------------------------------------------------------
(* Handlers. *)

handlerVars == <<asked, docking, placed, registered, drawins, unheard, early>>

DockAgain(w) == Handling("dock", w) /\ ~MayDock(w) /\ Dequeued /\ Ignore(w) /\ UNCHANGED handlerVars

\* xembed_property_update: the flag of the property as it is now
FlagNow(w) == Alive(w) /\ xicon[w].info = "show"

HandleProperty(w) ==
    /\ Handling("property", w) /\ Dequeued
    /\ IF \E i \in GetByWin(w) : embedded[i].mapped # FlagNow(w)
       THEN xicon' = XMap(w, IF FlagNow(w) THEN "yes" ELSE "no") /\ Embed(Flagged(w, FlagNow(w)))
       ELSE Ignore(w)
    /\ UNCHANGED handlerVars

\* event_handle_maprequest: for icons that know nothing of _XEMBED_INFO
HandleMapIcon(w) ==
    /\ Handling("map", w) /\ ~MayDock(w) /\ Dequeued
    /\ IF Alive(w) /\ GetByWin(w) # {}
       THEN xicon' = XMap(w, "yes") /\ Embed(Flagged(w, TRUE))
       ELSE Ignore(w)
    /\ UNCHANGED handlerVars

\* event_handle_configurerequest: an icon does not choose its size
HandleSize(w) ==
    /\ Handling("size", w) /\ Dequeued
    /\ xicon' = IF GetByWin(w) = {} /\ Alive(w) THEN [xicon EXCEPT ![w].size = "own"] ELSE xicon
    /\ UNCHANGED <<xtray, embedded, dirty, handlerVars>>

\* mutant: an icon that moved elsewhere keeps its entry
OnlyDestroyed(w) == IF Handling("destroy", w) THEN Without(w) ELSE embedded

\* xembed_window_array_take
Taken(w) == Without(w)

\* event_handle_destroynotify, event_handle_reparentnotify
HandleGone(w) ==
    /\ Handling("destroy", w) \/ Handling("reparent", w)
    /\ Dequeued
    /\ IF GetByWin(w) # {} THEN Embed(Taken(w)) /\ UNCHANGED xicon ELSE Ignore(w)
    /\ UNCHANGED handlerVars

\* the ReparentNotify of the docking itself
HandleDocked(w) == Handling("docked", w) /\ Dequeued /\ Ignore(w) /\ UNCHANGED handlerVars

----------------------------------------------------------------------------
(* Lua. *)

\* mutant: only windows that are to be seen are looked at
MapsOnly(w) == IF \E i \in GetByWin(w) : embedded[i].mapped THEN [xicon[w] EXCEPT !.shown = "yes"] ELSE xicon[w]

\* systray_update: sizes, maps and unmaps the icons
Updated(w) ==
    IF GetByWin(w) = {} \/ ~Alive(w) THEN xicon[w]
    ELSE IF \E i \in GetByWin(w) : embedded[i].mapped THEN [xicon[w] EXCEPT !.shown = "yes", !.size = "tray"]
    ELSE [xicon[w] EXCEPT !.shown = "no"]

\* luaA_systray with all its arguments
Draw(d) ==
    /\ Idle /\ d \in drawins
    /\ registered' = TRUE /\ placed' = d /\ dirty' = FALSE
    /\ xtray' = [parent |-> IF placed = d THEN xtray.parent ELSE d,
                 mapped |-> xtray.mapped \/ AnyVisible(embedded)]
    /\ xicon' = IF AnyVisible(embedded) THEN [w \in Icon |-> Updated(w)] ELSE xicon
    /\ UNCHANGED <<arrived, asked, embedded, docking, drawins, unheard, early>>

\* mutant: the tray window stays where it is
ForgetsOnly(d) == xtray

\* drawin_systray_kickout: the tray window leaves a drawin
KickedOut(d) == IF placed = d THEN [xtray EXCEPT !.parent = "root"] ELSE xtray

\* luaA_systray with one argument
Kickout(d) ==
    /\ Idle /\ d \in drawins /\ registered' = TRUE
    /\ xtray' = KickedOut(d)
    /\ placed' = IF placed = d THEN "none" ELSE placed
    /\ UNCHANGED <<xicon, arrived, asked, embedded, docking, dirty, drawins, unheard, early>>

\* drawin_wipe: X destroys the window and what is in it
Wipe(d) ==
    /\ Idle /\ d \in drawins /\ drawins' = drawins \ {d}
    /\ placed' = IF placed = d THEN "none" ELSE placed
    /\ xtray' = IF KickedOut(d).parent = d THEN [parent |-> "gone", mapped |-> FALSE] ELSE KickedOut(d)
    /\ UNCHANGED <<xicon, arrived, asked, embedded, docking, registered, dirty, unheard, early>>

\* systray_cleanup, when the manager ends
Cleanup ==
    /\ Idle /\ registered
    /\ registered' = FALSE /\ xtray' = [xtray EXCEPT !.mapped = FALSE]
    /\ UNCHANGED <<xicon, arrived, asked, embedded, docking, placed, dirty, drawins, unheard, early>>

TrayInit ==
    /\ xicon \in [Icon -> {[parent |-> "root", info |-> i, shown |-> "no", size |-> "own", watched |-> FALSE] :
                           i \in {"none", "hide", "show"}}]
    /\ xtray = [parent |-> "root", mapped |-> FALSE]
    /\ arrived = <<>> /\ asked = 0 /\ embedded = <<>> /\ docking = <<>>
    /\ placed = "none" /\ registered = FALSE /\ dirty = FALSE /\ drawins = Drawin /\ unheard = {} /\ early = {}

TrayNext ==
    \/ \E w \in Icon : AskDock(w) \/ Leave(w) \/ Die(w) \/ AskMap(w) \/ AskSize(w) \/ HideSelf(w)
    \/ \E w \in Icon, v \in {"none", "hide", "show"} : SetInfo(w, v)
    \/ \E w \in Icon : DockRead(w) \/ DockAgain(w) \/ HandleProperty(w) \/ HandleMapIcon(w)
                       \/ HandleSize(w) \/ HandleGone(w) \/ HandleDocked(w)
    \/ DockFinish \/ Cleanup
    \/ \E d \in Drawin : Draw(d) \/ Kickout(d) \/ Wipe(d)

TraySpec == TrayInit /\ [][TrayNext]_trayVars

----------------------------------------------------------------------------
(* Properties. *)

Docked == {em.win : em \in ToSet(embedded)}

\* No application did something that is not handled, and the tray is drawn.
TrayQuiet == arrived = <<>> /\ Idle /\ ~dirty

\* The list of embedded windows has each window once and every icon that sits in
\* the tray, whatever is still to be handled; except for one that was docked while
\* an older move of it was on its way, whose ReparentNotify ends the new entry.
\* When all is handled, an entry that does not sit in the tray is of a window that
\* died before its request was handled (systray_request_handle,
\* event_handle_destroynotify, event_handle_reparentnotify).
EntriesInTray ==
    /\ IsInjective([i \in DOMAIN embedded |-> embedded[i].win])
    /\ \A w \in Icon : xicon[w].parent = "tray" /\ w \notin early => w \in Docked
    /\ TrayQuiet => \A w \in Docked : xicon[w].watched => xicon[w].parent = "tray"

\* When all is handled and drawn, an icon that sits in the tray is shown in
\* the size of the tray if its _XEMBED_INFO asks for it, and hidden if it asks
\* for that and did not ask to be mapped; except for what the icon did to its
\* own window, and a change between the reading and the selection.
ShownAsAsked ==
    TrayQuiet /\ placed # "none" => \A em \in ToSet(embedded) :
        LET w == em.win IN
        xicon[w].parent = "tray" =>
            /\ w \notin unheard /\ xicon[w].info = "show" => em.mapped
            /\ em.mapped => xicon[w].shown \in {"yes", "byself"} /\ xicon[w].size = "tray"
            /\ ~em.mapped /\ xtray.mapped => xicon[w].shown # "yes"

\* The tray window does not die with the drawin that shows it, it is where
\* globalconf.systray.parent says, and it is not mapped without anything to
\* show (drawin_systray_kickout, luaA_systray, luaA_systray_invalidate).
TrayWindowKept ==
    /\ xtray.parent = IF placed = "none" THEN "root" ELSE placed
    /\ xtray.mapped => AnyVisible(embedded)

\* systray.c, xembed.c: the icons in the tray have an entry each, an entry is of an
\* icon in the tray or of a window that died too soon, an icon is shown as it
\* asks, and the tray outlives the drawin that shows it.
TrayTrue == TrayTypeOK /\ EntriesInTray /\ ShownAsAsked /\ TrayWindowKept
=============================================================================
