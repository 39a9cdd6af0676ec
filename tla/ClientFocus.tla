---------------------------- MODULE ClientFocus ----------------------------
(***************************************************************************)
(* The client life cycle of the window manager: which windows are managed, *)
(* which of them are visible under the tags, when their frames are banned  *)
(* (unmapped) and unbanned, and who holds the input focus, on the manager's*)
(* side (globalconf.focus) and on the X server's side.                     *)
(*                                                                         *)
(* Sources: objects/client.c, banning.c, objects/tag.c, event.c,           *)
(* property.c and the order of one main-loop turn in event.h and awesome.c.*)
(*                                                                         *)
(* The manager is single threaded: a C function is one step. Lua code runs *)
(* from events, timers and the "refresh" signal; it may call the exported  *)
(* functions in any order, so each of them is an action. The X server and  *)
(* its other clients run concurrently, and tell the manager what they did  *)
(* through a queue of events that it handles later.                        *)
(***************************************************************************)
EXTENDS Naturals, Sequences, FiniteSets

CONSTANTS
    Windows,     \* the top-level windows that may become clients
    Tags,        \* the tag objects Lua may create
    NoClient,    \* NULL, and the X server's "no client window has the focus"
    Env,         \* which optional behaviours of the environment are present
    MaxEvents    \* bound: undelivered X events

\* "hidden"       Lua uses client.hidden
\* "nofocus"      some clients set the WM_HINTS input hint to False
\* "current_time" clients set the focus with a time stamp later than the
\*                last one the manager has seen
Behaviours == {"hidden", "nofocus", "current_time"}

\* the last conjunct: the window in the frame of a client that takes the focus
\* for a client without input (NoFocusWindow) is no client's window
ASSUME FocusAssumption ==
    /\ NoClient \notin Windows
    /\ Env \subseteq Behaviours
    /\ MaxEvents \in Nat \ {0}
    /\ \A c \in Windows : <<c, "nofocus">> \notin Windows \cup {NoClient}

VARIABLES
    managed,      \* globalconf.clients
    hidden, minimized, sticky, isbanned, nofocus,  \* fields of client_t
    tags,         \* globalconf.tags: the activated tags
    retired,      \* tags that have been deactivated
    selected,     \* tag_t.selected
    tagged,       \* tag_t.clients
    focus,        \* globalconf.focus.client
    needUpdate,   \* globalconf.focus.need_update
    needBan,      \* globalconf.need_lazy_banning
    phase,        \* where the main loop is in a_glib_poll
    woken,        \* something was dispatched since the loop last polled
    winMapped,    \* X: client windows that are mapped in their frame
    frameMapped,  \* X: clients whose frame window is mapped
    xfocus,       \* X: the focused window
    late,         \* X: the last focus change is later than globalconf.timestamp
    xevents       \* X: events sent to the manager and not handled yet

clientVars == <<hidden, minimized, sticky, isbanned, nofocus>>
tagVars    == <<tags, retired, selected, tagged>>
focusVars  == <<focus, needUpdate>>
loopVars   == <<phase, woken>>
mapVars    == <<winMapped, frameMapped>>
xVars      == <<xfocus, late, xevents>>
vars == <<managed, clientVars, tagVars, focusVars, needBan, loopVars, mapVars, xVars>>

NoFocusWindow(c) == <<c, "nofocus">>
FocusTargets == Windows \cup {NoClient} \cup {NoFocusWindow(c) : c \in Windows}
Event == [type : {"FocusIn", "Unmap", "MapRequest"}, win : Windows]
Pending == {xevents[i] : i \in DOMAIN xevents}

TypeOK ==
    /\ managed \subseteq Windows
    /\ hidden \subseteq managed
    /\ minimized \subseteq managed
    /\ sticky \subseteq managed
    /\ isbanned \subseteq managed
    /\ nofocus \subseteq managed
    /\ tags \subseteq Tags
    /\ retired \subseteq Tags
    /\ selected \subseteq Tags
    /\ tagged \in [Tags -> SUBSET Windows]
    /\ focus \in Windows \cup {NoClient}
    /\ needUpdate \in BOOLEAN
    /\ needBan \in BOOLEAN
    /\ phase \in {"dispatch", "lua", "banning"}
    /\ woken \in BOOLEAN
    /\ winMapped \subseteq managed
    /\ frameMapped \subseteq managed
    /\ xfocus \in FocusTargets
    /\ late \in BOOLEAN
    /\ xevents \in Seq(Event)

-----------------------------------------------------------------------------
(* Visibility *)

\* client_on_selected_tags, under the tagging tg
OnSelectedTags(c, tg) ==
    \/ c \in sticky
    \/ \E t \in tags \cap selected : c \in tg[t]

\* the clients for which client_isvisible holds, under the tagging tg
VisibleUnder(tg) ==
    {c \in managed : c \notin hidden /\ c \notin minimized /\ OnSelectedTags(c, tg)}

Visible == VisibleUnder(tagged)

-----------------------------------------------------------------------------
(* The focus record and the X server's focus *)

\* client_unfocus: forget the focused client and ask for SetInputFocus
Unfocus == focus' = NoClient /\ needUpdate' = TRUE

\* mutant: only the focus is looked at, need_lazy_banning stays as it is
BanningForgotten ==
    /\ needBan' = needBan
    /\ IF focus \in managed' /\ focus \notin Visible' THEN Unfocus ELSE UNCHANGED focusVars

\* banning_need_update: the banning itself waits for the refresh, but a
\* client that it will ban loses the focus now
BanningNeedUpdate ==
    /\ needBan' = TRUE
    /\ IF focus \in managed' /\ focus \notin Visible'
       THEN Unfocus
       ELSE UNCHANGED focusVars

\* the windows the X server accepts as focus
Viewable ==
    {NoClient} \cup (winMapped \cap frameMapped) \cup {NoFocusWindow(c) : c \in frameMapped}

\* a focused window that stops being viewable gives the focus to its parent
RevertFocus == xfocus' = IF xfocus \in Viewable' THEN xfocus ELSE NoClient

\* xcb_set_input_focus: refused when the window is not viewable (BadMatch) or
\* when the time stamp is older than the last focus change. The window that
\* gets the focus is told; queue is what is undelivered before that.
SetInputFocus(w, queue) ==
    IF w \in Viewable' /\ ~late
    THEN /\ xfocus' = w
         /\ xevents' = IF w \in Windows /\ w # xfocus
                       THEN Append(queue, [type |-> "FocusIn", win |-> w])
                       ELSE queue
    ELSE xfocus' = xfocus /\ xevents' = queue

-----------------------------------------------------------------------------
(* client_unban and client_focus_refresh *)

\* mutant: every banned client of the selected tags
ResurrectAll == IF needUpdate THEN {c \in isbanned : OnSelectedTags(c, tagged)} ELSE {}

\* the client that client_focus_refresh unbans, if any
Resurrected ==
    IF needUpdate /\ focus \in isbanned /\ OnSelectedTags(focus, tagged)
    THEN {focus} ELSE {}

\* mutant: client_unban maps the frame only
FrameOnly == winMapped

\* the client windows that client_unban leaves mapped
UnbannedWindows == winMapped \cup (Resurrected \cap minimized)

\* the window client_focus_refresh sends the focus to
FocusWindow ==
    IF ~OnSelectedTags(focus, tagged) \/ focus = NoClient THEN NoClient
    ELSE IF focus \in nofocus THEN NoFocusWindow(focus) ELSE focus

\* client_focus_refresh, up to the focus record. client_unban maps the frame
\* and calls client_set_minimized(FALSE) and client_set_hidden(FALSE), which
\* ask for banning when they change something.
FocusRefresh(queue) ==
    /\ isbanned' = isbanned \ Resurrected
    /\ minimized' = minimized \ Resurrected
    /\ hidden' = hidden \ Resurrected
    /\ frameMapped' = frameMapped \cup Resurrected
    /\ winMapped' = UnbannedWindows
    /\ needBan' = (needBan \/ Resurrected \cap (minimized \cup hidden) # {})
    /\ IF needUpdate THEN SetInputFocus(FocusWindow, queue)
                     ELSE xfocus' = xfocus /\ xevents' = queue
    /\ UNCHANGED late

\* while client_unban has cleared minimized and not yet hidden, the client
\* is invisible and banning_need_update takes the focus from it
LostWhileUnbanning == Resurrected \cap minimized \cap hidden # {}

-----------------------------------------------------------------------------
(* Events handled by the manager *)

Running == phase \in {"dispatch", "lua"}
Wake    == woken' = (woken \/ phase = "dispatch") /\ UNCHANGED phase

HeadIs(type) == phase = "dispatch" /\ xevents # <<>> /\ Head(xevents).type = type
Deliver == xevents' = Tail(xevents)

\* mutant: the object is not pushed into globalconf.clients
NotPushed(c, stk, icon, nf) ==
    /\ managed' = managed
    /\ isbanned' = isbanned \cup {c}
    /\ sticky' = IF stk THEN sticky \cup {c} ELSE sticky
    /\ minimized' = IF icon THEN minimized \cup {c} ELSE minimized
    /\ nofocus' = IF nf THEN nofocus \cup {c} ELSE nofocus

\* the new client, banned at first; its hints may make it sticky, iconic
\* (ewmh_client_check_hints) or without input (property_update_wm_hints)
ManagedObject(c, stk, icon, nf) ==
    /\ managed' = managed \cup {c}
    /\ isbanned' = isbanned \cup {c}
    /\ sticky' = IF stk THEN sticky \cup {c} ELSE sticky
    /\ minimized' = IF icon THEN minimized \cup {c} ELSE minimized
    /\ nofocus' = IF nf THEN nofocus \cup {c} ELSE nofocus

\* client_manage, called for a MapRequest of an unknown window
Manage(c) ==
    /\ c \notin managed
    /\ \E stk, icon, nf \in BOOLEAN :
        /\ nf => "nofocus" \in Env
        /\ ManagedObject(c, stk, icon, nf)
        /\ winMapped' = IF icon THEN winMapped ELSE winMapped \cup {c}
        /\ UNCHANGED <<hidden, frameMapped, tagVars>>
        /\ IF stk \/ icon THEN BanningNeedUpdate
           ELSE UNCHANGED <<focusVars, needBan>>
    /\ UNCHANGED <<xfocus, late>>

\* mutant: the loop over the tags is missing
UntagNowhere(c) == UNCHANGED tagged

\* the untag_client loop of client_unmanage: globalconf.tags only
UntagEverywhere(c) ==
    tagged' = [t \in Tags |-> IF t \in tags THEN tagged[t] \ {c} ELSE tagged[t]]

\* client_unmanage: out of every list, the window back to the root. The
\* other clients' focus is looked at only when c was on an activated tag.
Unmanage(c) ==
    /\ c \in managed
    /\ managed' = managed \ {c}
    /\ UNCHANGED <<tags, retired, selected, late>>
    /\ UntagEverywhere(c)
    /\ hidden' = hidden \ {c}
    /\ minimized' = minimized \ {c}
    /\ sticky' = sticky \ {c}
    /\ isbanned' = isbanned \ {c}
    /\ nofocus' = nofocus \ {c}
    /\ winMapped' = winMapped \ {c}
    /\ frameMapped' = frameMapped \ {c}
    /\ LET untagged == \E t \in tags : c \in tagged[t]
       IN  /\ needBan' = (needBan \/ untagged)
           /\ IF \/ focus = c
                 \/ untagged /\ focus \in managed' /\ focus \notin Visible'
              THEN Unfocus
              ELSE UNCHANGED focusVars
    /\ RevertFocus

\* event_handle_maprequest
HandleMapRequest ==
    /\ HeadIs("MapRequest")
    /\ LET c == Head(xevents).win IN
        \/ c \notin managed /\ Manage(c)
        \/ \* the window is gone by the time it is reparented: client_manage
           \* ends with client_unmanage(c, CLIENT_UNMANAGE_FAILED)
           /\ c \notin managed
           /\ UNCHANGED <<managed, clientVars, tagVars, focusVars, needBan,
                          mapVars, xfocus, late>>
        \/ /\ c \in managed
           /\ IF OnSelectedTags(c, tagged) /\ c \in minimized \ hidden
              THEN /\ minimized' = minimized \ {c}
                   /\ winMapped' = winMapped \cup {c}
                   /\ UNCHANGED <<managed, hidden, sticky, isbanned, nofocus, tagVars, frameMapped>>
                   /\ BanningNeedUpdate
              ELSE UNCHANGED <<managed, clientVars, tagVars, focusVars, needBan, mapVars>>
           /\ UNCHANGED <<xfocus, late>>
    /\ Deliver
    /\ Wake

\* event_handle_unmapnotify, _destroynotify and _reparentnotify
HandleUnmapNotify ==
    /\ HeadIs("Unmap")
    /\ LET c == Head(xevents).win IN
        \/ Unmanage(c)
        \/ /\ c \notin managed
           /\ UNCHANGED <<managed, clientVars, tagVars, focusVars, needBan, mapVars, xfocus, late>>
    /\ Deliver
    /\ Wake

\* mutant: the FocusIn event is ignored
FocusIgnored(c) == focus' = focus

\* client_focus_update: record the focus, without asking for SetInputFocus
FocusUpdate(c) == focus' = c

\* event_handle_focusin: a pending focus change is sent first; then the
\* record follows the event, whatever client_focus_refresh made of it
HandleFocusIn ==
    /\ HeadIs("FocusIn")
    /\ LET c == Head(xevents).win IN
        IF c \in managed
        THEN /\ FocusRefresh(Tail(xevents))
             /\ FocusUpdate(c)
             /\ needUpdate' = FALSE
             /\ UNCHANGED <<managed, sticky, nofocus, tagVars>>
        ELSE /\ Deliver
             /\ UNCHANGED <<managed, clientVars, tagVars, focusVars, needBan, mapVars, xfocus, late>>
    /\ Wake

\* event_handle_enternotify on the root window
EnterRoot ==
    /\ phase = "dispatch"
    /\ needUpdate' = TRUE
    /\ Wake
    /\ late' = FALSE
    /\ UNCHANGED <<managed, clientVars, tagVars, focus, needBan, mapVars, xfocus, xevents>>

-----------------------------------------------------------------------------
(* The functions Lua calls, from events, timers and the "refresh" signal *)

LuaFrame == Running /\ Wake /\ UNCHANGED <<isbanned, nofocus, frameMapped, late, xevents>>

\* mutant: the window of an iconic client stays mapped
NeverUnmap(c, s) == winMapped' = winMapped \cup {c}

\* the mapping of the window in its frame that goes with WM_STATE
MapForState(c, s) == winMapped' = IF s THEN winMapped \ {c} ELSE winMapped \cup {c}

\* client_set_minimized: an iconic client is unmapped in its frame
SetMinimized(c, s) ==
    /\ c \in managed
    /\ s # (c \in minimized)
    /\ minimized' = IF s THEN minimized \cup {c} ELSE minimized \ {c}
    /\ MapForState(c, s)
    /\ LuaFrame
    /\ UNCHANGED <<managed, hidden, sticky, tagVars>>
    /\ BanningNeedUpdate
    /\ RevertFocus

\* client_set_hidden
SetHidden(c, s) ==
    /\ "hidden" \in Env
    /\ c \in managed
    /\ s # (c \in hidden)
    /\ hidden' = IF s THEN hidden \cup {c} ELSE hidden \ {c}
    /\ LuaFrame
    /\ UNCHANGED <<managed, minimized, sticky, tagVars, winMapped, xfocus>>
    /\ BanningNeedUpdate

\* client_set_sticky
SetSticky(c, s) ==
    /\ c \in managed
    /\ s # (c \in sticky)
    /\ sticky' = IF s THEN sticky \cup {c} ELSE sticky \ {c}
    /\ LuaFrame
    /\ UNCHANGED <<managed, hidden, minimized, tagVars, winMapped, xfocus>>
    /\ BanningNeedUpdate

\* tags live as awful.tag.add and :delete make them: Lua only touches activated
\* ones, and a tag that was deactivated is not activated again
Usable(t) == t \in tags

TagFrame == LuaFrame /\ UNCHANGED <<managed, hidden, minimized, sticky, winMapped, xfocus>>

\* tag_view
TagView(t, view) ==
    /\ Usable(t)
    /\ view # (t \in selected)
    /\ selected' = IF view THEN selected \cup {t} ELSE selected \ {t}
    /\ UNCHANGED <<tags, retired, tagged>>
    /\ TagFrame
    /\ BanningNeedUpdate

\* luaA_tag_set_activated(TRUE)
Activate(t) ==
    /\ t \notin tags
    /\ t \notin retired
    /\ tags' = tags \cup {t}
    /\ UNCHANGED <<retired, selected, tagged>>
    /\ TagFrame
    /\ UNCHANGED <<focusVars, needBan>>

\* mutant: the flag survives the deactivation
KeepSelected(t) == selected' = selected

\* the selection of a tag that leaves globalconf.tags
Deselect(t) == selected' = selected \ {t}

\* mutant: no banning for the clients that the tag showed
NoBanning(t) == UNCHANGED <<focusVars, needBan>>

\* deactivating a selected tag hides its clients
DeselectBanning(t) ==
    IF t \in selected THEN BanningNeedUpdate ELSE UNCHANGED <<focusVars, needBan>>

\* luaA_tag_set_activated(FALSE): the clients stay in tag_t.clients
Deactivate(t) ==
    /\ t \in tags
    /\ tags' = tags \ {t}
    /\ retired' = retired \cup {t}
    /\ Deselect(t)
    /\ UNCHANGED tagged
    /\ TagFrame
    /\ DeselectBanning(t)

\* luaA_client_tags: first every activated tag outside T loses c, then the
\* tags of T get it. banning_need_update runs in between.
ClientTags(c, T) ==
    LET untagged == [t \in Tags |-> IF t \in tags \ T THEN tagged[t] \ {c} ELSE tagged[t]]
        dropped  == focus \in managed /\ untagged # tagged /\ focus \notin VisibleUnder(untagged)
    IN  /\ c \in managed
        /\ \A t \in T : Usable(t)
        /\ tagged' = [t \in Tags |-> IF t \in T THEN untagged[t] \cup {c} ELSE untagged[t]]
        /\ tagged' # tagged
        /\ UNCHANGED <<tags, retired, selected>>
        /\ TagFrame
        /\ IF dropped THEN Unfocus /\ needBan' = TRUE ELSE BanningNeedUpdate

\* luaA_tag_clients
TagClients(t, C) ==
    /\ Usable(t)
    /\ C \subseteq managed
    /\ tagged[t] # C
    /\ tagged' = [tagged EXCEPT ![t] = C]
    /\ UNCHANGED <<tags, retired, selected>>
    /\ TagFrame
    /\ BanningNeedUpdate

\* client.focus = c: client_focus
Focus(c) ==
    /\ c \in managed
    /\ FocusUpdate(c)
    /\ needUpdate' = (needUpdate \/ focus # c)
    /\ TagFrame
    /\ UNCHANGED <<tagVars, needBan>>

\* client.focus = nil
FocusNil ==
    /\ focus # NoClient
    /\ Unfocus
    /\ TagFrame
    /\ UNCHANGED <<tagVars, needBan>>

\* luaA_client_unmanage
LuaUnmanage(c) == Running /\ Wake /\ Unmanage(c) /\ UNCHANGED xevents

LuaCall ==
    \/ \E c \in Windows : Focus(c) \/ LuaUnmanage(c)
    \/ FocusNil
    \/ \E c \in Windows, s \in BOOLEAN : SetMinimized(c, s) \/ SetHidden(c, s) \/ SetSticky(c, s)
    \/ \E c \in Windows, T \in SUBSET Tags : ClientTags(c, T)
    \/ \E t \in Tags : Activate(t) \/ Deactivate(t)
    \/ \E t \in Tags, view \in BOOLEAN : TagView(t, view)
    \/ \E t \in Tags, C \in SUBSET Windows : TagClients(t, C)

-----------------------------------------------------------------------------
(* The main loop: a_glib_poll calls awesome_refresh before it polls again *)

LoopFrame == UNCHANGED <<managed, sticky, nofocus, tagVars>>

\* g_poll returned and everything ready was dispatched: luaA_emit_refresh
StartRefresh ==
    /\ phase = "dispatch"
    /\ woken
    /\ Len(xevents) <= MaxEvents
    /\ phase' = "lua"
    /\ woken' = FALSE
    /\ LoopFrame
    /\ UNCHANGED <<hidden, minimized, isbanned, focusVars, needBan, mapVars, xVars>>

\* The manager hears of what its own requests did: the frames report mapping,
\* root and client windows report focus changes (FRAME_SELECT_INPUT_EVENT_MASK,
\* ROOT_WINDOW_EVENT_MASK), and a refused request comes back as an error. Such
\* an event has no handler, but the loop does not sleep before reading it.
EchoWakes(refused) ==
    woken' = (woken \/ frameMapped' # frameMapped \/ xfocus' # xfocus \/ refused)

\* client_refresh
ClientRefresh ==
    /\ phase = "lua"
    /\ phase' = "banning"
    /\ FocusRefresh(xevents)
    /\ focus' = IF LostWhileUnbanning THEN NoClient ELSE focus
    /\ needUpdate' = FALSE
    /\ EchoWakes(needUpdate /\ FocusWindow \notin Viewable')
    /\ LoopFrame

\* banning_refresh: first every visible client is unbanned, then every other
\* one is banned; a client that is banned while it has the focus loses it
BanningRefresh ==
    /\ phase = "banning"
    /\ phase' = "dispatch"
    /\ LoopFrame
    /\ UNCHANGED <<hidden, minimized, winMapped, late, xevents>>
    /\ IF needBan
       THEN LET unban == Visible \cap isbanned
                ban   == (managed \ Visible) \ isbanned
            IN  /\ isbanned' = managed \ Visible
                /\ frameMapped' = (frameMapped \cup unban) \ ban
                /\ focus' = IF focus \in ban THEN NoClient ELSE focus
                /\ needUpdate' = (needUpdate \/ focus \in unban \cup ban)
                /\ RevertFocus
       ELSE UNCHANGED <<isbanned, frameMapped, focusVars, xfocus>>
    /\ needBan' = FALSE
    /\ EchoWakes(FALSE)

-----------------------------------------------------------------------------
(* The X server's other clients *)

XFrame == UNCHANGED <<managed, clientVars, tagVars, focusVars, needBan, loopVars, frameMapped>>
Emit(type, c) ==
    /\ Len(xevents) < MaxEvents
    /\ xevents' = Append(xevents, [type |-> type, win |-> c])

\* XMapWindow is redirected to the manager
XMapRequest(c) ==
    /\ c \notin winMapped
    /\ [type |-> "MapRequest", win |-> c] \notin Pending
    /\ Emit("MapRequest", c)
    /\ XFrame
    /\ UNCHANGED <<winMapped, xfocus, late>>

\* XUnmapWindow or XDestroyWindow; for an iconic window, the synthetic
\* UnmapNotify of ICCCM
XWithdraw(c) ==
    /\ c \in winMapped \cup minimized
    /\ winMapped' = winMapped \ {c}
    /\ Emit("Unmap", c)
    /\ XFrame
    /\ RevertFocus
    /\ UNCHANGED late

\* a client sets the focus to itself: an answer to WM_TAKE_FOCUS, or the
\* globally active input model
XTakeFocus(c) ==
    /\ c \in winMapped \cap frameMapped
    /\ xfocus # c
    /\ xfocus' = c
    /\ Emit("FocusIn", c)
    /\ \/ UNCHANGED late
       \/ "current_time" \in Env /\ late' = TRUE
    /\ XFrame
    /\ UNCHANGED winMapped

XClient == \E c \in Windows : XMapRequest(c) \/ XWithdraw(c) \/ XTakeFocus(c)

-----------------------------------------------------------------------------
Init ==
    /\ managed = {} /\ hidden = {} /\ minimized = {} /\ sticky = {} /\ isbanned = {}
    /\ nofocus = {} /\ tags = {} /\ retired = {} /\ selected = {}
    /\ tagged = [t \in Tags |-> {}]
    /\ focus = NoClient /\ needUpdate = FALSE /\ needBan = FALSE
    /\ phase = "dispatch" /\ woken = TRUE
    /\ winMapped = {} /\ frameMapped = {}
    /\ xfocus = NoClient /\ late = FALSE /\ xevents = <<>>

HandleEvent == HandleMapRequest \/ HandleUnmapNotify \/ HandleFocusIn
MainLoop == StartRefresh \/ ClientRefresh \/ BanningRefresh

Next == HandleEvent \/ EnterRoot \/ LuaCall \/ MainLoop \/ XClient

\* GLib dispatches a ready source and polls again; Lua and the X clients
\* are under no obligation to do anything
Fairness == WF_vars(MainLoop) /\ WF_vars(HandleEvent)

Spec == Init /\ [][Next]_vars
FairSpec == Spec /\ Fairness

-----------------------------------------------------------------------------
(* Properties *)

\* Whatever the order of closing, tagging and focusing, the focus record and
\* the activated tags never name a client that is no longer managed: the C
\* objects behind those pointers may be freed (client_unmanage unrefs them).
NoStaleReferences ==
    /\ focus \in managed \cup {NoClient}
    /\ \A t \in tags : tagged[t] \subseteq managed

\* awful's discipline of tags, which the exactness of the banning rests on: a
\* tag is selected only while it is activated, and has no client before it was.
TagDiscipline ==
    /\ selected \subseteq tags
    /\ \A t \in Tags \ (tags \cup retired) : tagged[t] = {}

\* Banning is lazy, so every change that makes a client visible or invisible
\* must leave need_lazy_banning set: whenever it is clear, the banned clients
\* are exactly the invisible ones.
BannedIffInvisible == ~needBan => isbanned = managed \ Visible

\* The frame of a client is mapped exactly while it is not banned, and its
\* window is mapped exactly while it is not iconic, unless the client
\* withdrew it and the manager has yet to hear of that (ICCCM 4.1.4: a mapped
\* iconic window could not ask to be mapped again).
MappedAsRecorded ==
    /\ frameMapped = managed \ isbanned
    /\ winMapped \cap minimized = {}
    /\ \A c \in managed \ (winMapped \cup minimized) :
         [type |-> "Unmap", win |-> c] \in Pending

\* client.c, tag.c: the frame and the window are mapped as the record says, and
\* only tags that were activated are selected or have clients.
MappedAndTagged == TypeOK /\ MappedAsRecorded /\ TagDiscipline

\* the manager sleeps in g_poll: nothing to refresh and nothing to handle
AtRest == phase = "dispatch" /\ ~woken /\ xevents = <<>>

\* Two writers race for the focus, Lua through a delayed SetInputFocus and the
\* clients through FocusIn events that arrive late. Once the manager rests, the
\* client that X gives the keys to is the one recorded as focused.
FocusRecordFollowsX ==
    AtRest => \A c \in managed : xfocus \in {c, NoFocusWindow(c)} => focus = c

\* A refresh never maps the window of a client back, against a request to
\* minimize or hide it, unless that client has the focus.
RefreshKeepsIconic ==
    [][MainLoop => (minimized \cup hidden) \ (minimized' \cup hidden') \subseteq {focus}]_vars

\* A client that is to be seen is eventually seen, unless it stops being
\* visible first: no path sets the visibility without waking the main loop.
VisibleIsUnbanned ==
    \A c \in Windows : (c \in Visible) ~> (c \notin Visible \/ c \notin isbanned)

\* client.c:2868, client_unmanage: "remove client from global list and
\* everywhere else": no tag object lists a client that is gone.
RemovedEverywhere == \A t \in Tags : tagged[t] \subseteq managed
=============================================================================
