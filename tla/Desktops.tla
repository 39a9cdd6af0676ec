-------------------------------- MODULE Desktops --------------------------------
(***************************************************************************)
(* Tags as the desktops of EWMH. Pagers read the number, the names and the *)
(* current index of desktops from the root window and _NET_WM_DESKTOP from *)
(* a client, and send messages that hold an index. The index of a tag is   *)
(* its place in globalconf.tags, which changes when a tag in front of it is*)
(* deactivated, and each property is written at its own occasions.         *)
(*                                                                         *)
(* Source: ewmh.c, objects/tag.c, the focus and the life of clients in     *)
(* objects/client.c, permissions.tag and view_only of the Lua library.     *)
(***************************************************************************)
EXTENDS Naturals, Sequences, SequencesExt, FiniteSets

CONSTANTS
    Tag, Client,
    MaxMessages   \* bound: messages of a pager

ASSUME DesktopsAssumption ==
    /\ MaxMessages \in Nat
    /\ Tag \cap {"all", "unset"} = {} /\ Client \cap {"none", "current"} = {}

VARIABLES
    tags,       \* globalconf.tags
    selected,   \* the tags whose flag is set
    tagged,     \* tag->clients, per client
    sticky,     \* the clients that are on all tags
    clients,    \* globalconf.clients
    focus,      \* globalconf.focus.client
    names,      \* the tags whose names _NET_DESKTOP_NAMES and _NET_NUMBER_OF_DESKTOPS tell
    current,    \* _NET_CURRENT_DESKTOP
    active,     \* _NET_ACTIVE_WINDOW
    listed,     \* _NET_CLIENT_LIST
    desktop,    \* _NET_WM_DESKTOP per client: an index, "all" or "unset"
    shifted,    \* "current", and the clients, whose index has changed since it was written
    pager       \* messages that wait, and how many were sent

desktopVars == <<tags, selected, tagged, sticky, clients, focus, names, current, active, listed, desktop, shifted, pager>>

DesktopTypeOK ==
    /\ tags \in Seq(Tag) /\ selected \subseteq Tag
    /\ tagged \in [Client -> SUBSET Tag] /\ sticky \subseteq Client
    /\ clients \in Seq(Client) /\ focus \in Client \cup {"none"}
    /\ names \in Seq(Tag) /\ current \in Nat /\ active \in Client \cup {"none"}
    /\ listed \in Seq(Client)
    /\ DOMAIN desktop = Client /\ shifted \subseteq Client \cup {"current"}
    /\ pager \in [sent : 0..MaxMessages, queue : Seq([what : {"current"} \cup Client, index : Nat])]

Managed == ToSet(clients)

\* tag_array_take and client_array_remove: the element at the place where x is
Taken(l, x) == RemoveAt(l, CHOOSE i \in DOMAIN l : l[i] = x)

\* the first tag of a list that is in a set, and its index; 0 when there is none
FirstIn(l, s) == CHOOSE i \in DOMAIN l : l[i] \in s /\ \A j \in 1..(i - 1) : l[j] \notin s
FirstIndex(l, s) == IF ToSet(l) \cap s = {} THEN 0 ELSE FirstIn(l, s) - 1

\* tags_get_current_or_first_selected_index
CurrentIndex(l, sel, f, on) ==
    IF f # "none" /\ ToSet(l) \cap sel \cap on[f] # {} THEN FirstIndex(l, sel \cap on[f])
    ELSE FirstIndex(l, sel)

\* ewmh_client_update_desktop
DesktopOf(l, on, st, c) ==
    IF c \in st THEN "all" ELSE IF ToSet(l) \cap on[c] = {} THEN "unset" ELSE ToString(FirstIndex(l, on[c]))

\* ewmh_update_net_current_desktop
WriteCurrent == current' = CurrentIndex(tags', selected', focus', tagged')
WriteDesktop(c) == desktop' = [desktop EXCEPT ![c] = DesktopOf(tags', tagged', sticky', c)]

----------------------------------------------------------------------------
(* Tagging. *)

rootVars == <<tags, names, clients, active, listed>>

\* tag_client and untag_client, and the handlers of "tagged" and "untagged"
Tagged(c, on) ==
    /\ tagged' = [tagged EXCEPT ![c] = on]
    /\ WriteDesktop(c) /\ WriteCurrent
    /\ shifted' = shifted \ {"current", c}

TagClient(c, t) ==
    /\ c \in Managed /\ t \notin tagged[c]
    /\ UNCHANGED <<selected, sticky, focus, rootVars, pager>>
    /\ Tagged(c, tagged[c] \cup {t})

UntagClient(c, t) ==
    /\ c \in Managed /\ t \in tagged[c]
    /\ UNCHANGED <<selected, sticky, focus, rootVars, pager>>
    /\ Tagged(c, tagged[c] \ {t})

\* client_set_sticky
SetSticky(c, s) ==
    /\ c \in Managed /\ s # (c \in sticky)
    /\ UNCHANGED <<selected, tagged, focus, rootVars, current, pager>>
    /\ sticky' = IF s THEN sticky \cup {c} ELSE sticky \ {c}
    /\ WriteDesktop(c) /\ shifted' = shifted \ {c}

\* tag_view
TagView(t, s) ==
    /\ s # (t \in selected)
    /\ UNCHANGED <<tagged, sticky, focus, rootVars, desktop, pager>>
    /\ selected' = IF s THEN selected \cup {t} ELSE selected \ {t}
    /\ WriteCurrent /\ shifted' = shifted \ {"current"}

----------------------------------------------------------------------------
(* The list of tags. *)

Moved == {c \in Managed \ sticky : DesktopOf(tags', tagged', sticky', c) # desktop[c]}

\* luaA_tag_set_activated: a new tag is the last one
Activate(t) ==
    /\ t \notin ToSet(tags) /\ tags' = Append(tags, t) /\ names' = tags'
    /\ UNCHANGED <<selected, tagged, sticky, clients, focus, current, active, listed, desktop, pager>>
    /\ shifted' = shifted \cup Moved
                  \cup (IF CurrentIndex(tags', selected, focus, tagged) = current THEN {} ELSE {"current"})

\* mutant: the signal comes while the tag is in the list
WhileListed(t) == CurrentIndex(tags, selected \ {t}, focus, tagged)

\* property::selected is emitted when the tag is out of the list
AfterRemoval(t) == CurrentIndex(Taken(tags, t), selected \ {t}, focus, tagged)

\* luaA_tag_set_activated: only a tag that is selected causes a signal that
\* writes the current desktop; no client is told of its new index
Deactivate(t) ==
    /\ t \in ToSet(tags) /\ tags' = Taken(tags, t) /\ names' = tags'
    /\ selected' = selected \ {t}
    /\ current' = IF t \in selected THEN AfterRemoval(t) ELSE current
    /\ UNCHANGED <<tagged, sticky, clients, focus, active, listed, desktop, pager>>
    /\ shifted' = Moved \cup
          (IF t \in selected THEN shifted \ {"current"}
           ELSE IF CurrentIndex(tags', selected, focus, tagged) = current THEN shifted ELSE shifted \cup {"current"})

\* luaA_tag_set_name
SetName(t) == names' = tags /\ UNCHANGED <<tags, selected, tagged, sticky, clients, focus, current, active, listed, desktop, shifted, pager>>

----------------------------------------------------------------------------
(* Clients. *)

\* client_manage; _NET_WM_DESKTOP may be left from an earlier manager, and asks
\* for a tag by the index it had then (ewmh_client_check_hints)
Manage(c) ==
    /\ c \notin Managed /\ clients' = <<c>> \o clients /\ listed' = clients'
    /\ UNCHANGED <<tags, selected, focus, names, active, pager>>
    /\ \E old \in {"unset", "all"} \cup {ToString(i) : i \in 0..Len(tags)} :
          LET on == IF \E i \in DOMAIN tags : old = ToString(i - 1)
                    THEN {tags[CHOOSE i \in DOMAIN tags : old = ToString(i - 1)]} ELSE {} IN
          /\ tagged' = [tagged EXCEPT ![c] = on]
          /\ sticky' = IF old = "all" THEN sticky \cup {c} ELSE sticky
          /\ IF on = {} /\ old # "all"
             THEN desktop' = [desktop EXCEPT ![c] = old] /\ UNCHANGED current /\ shifted' = shifted \cup {c}
             ELSE WriteDesktop(c) /\ shifted' = (shifted \ {c}) \ (IF on = {} THEN {} ELSE {"current"})
                  /\ IF on = {} THEN UNCHANGED current ELSE WriteCurrent

\* client_unmanage: unfocus, the list, untagging from the tags that are
\* activated, and request::unmanage
Unmanage(c) ==
    /\ c \in Managed
    /\ UNCHANGED <<tags, selected, names, pager>>
    /\ focus' = IF focus = c THEN "none" ELSE focus
    /\ active' = IF focus = c THEN "none" ELSE active
    /\ clients' = Taken(clients, c) /\ listed' = clients'
    /\ tagged' = [tagged EXCEPT ![c] = @ \ ToSet(tags)]
    /\ sticky' = sticky \ {c} /\ desktop' = [desktop EXCEPT ![c] = "unset"]
    /\ IF focus = c \/ tagged' # tagged
       THEN WriteCurrent /\ shifted' = shifted \ {c, "current"}
       ELSE UNCHANGED current /\ shifted' = shifted \ {c}

\* client_focus_update: "unfocus" of one client and "focus" of the other
Focus(c) ==
    /\ c \in Managed /\ focus # c
    /\ focus' = c /\ active' = c
    /\ UNCHANGED <<tags, selected, tagged, sticky, clients, names, listed, desktop, pager>>
    /\ WriteCurrent /\ shifted' = shifted \ {"current"}

Unfocus ==
    /\ focus # "none" /\ focus' = "none" /\ active' = "none"
    /\ UNCHANGED <<tags, selected, tagged, sticky, clients, names, listed, desktop, pager>>
    /\ WriteCurrent /\ shifted' = shifted \ {"current"}

----------------------------------------------------------------------------
(* A pager: it sends an index it read; the manager handles it later. *)

Send(what, i) ==
    /\ pager.sent < MaxMessages
    /\ pager' = [sent |-> pager.sent + 1, queue |-> Append(pager.queue, [what |-> what, index |-> i])]
    /\ UNCHANGED <<selected, tagged, sticky, focus, rootVars, current, desktop, shifted>>

Handled == pager' = [pager EXCEPT !.queue = Tail(@)]
Named == Head(pager.queue).index + 1

\* ewmh_process_client_message, _NET_CURRENT_DESKTOP: request::select, which
\* leaves that tag alone selected; an index there is no tag for is ignored
HandleCurrent ==
    /\ pager.queue # <<>> /\ Head(pager.queue).what = "current" /\ Handled
    /\ IF Named \in DOMAIN tags
       THEN /\ selected' = {tags[Named]}
            /\ UNCHANGED <<tagged, focus, rootVars>>
            /\ IF selected' = selected THEN UNCHANGED <<current, shifted>>
               ELSE WriteCurrent /\ shifted' = shifted \ {"current"}
       ELSE UNCHANGED <<selected, tagged, focus, rootVars, current, shifted>>
    /\ UNCHANGED <<sticky, desktop>>

\* ewmh_process_desktop: request::tag, which leaves the client on that tag only
HandleDesktop ==
    /\ pager.queue # <<>> /\ Head(pager.queue).what \in Client /\ Handled
    /\ UNCHANGED <<selected, sticky, focus, rootVars>>
    /\ LET c == Head(pager.queue).what IN
       IF c \in Managed /\ Named \in DOMAIN tags /\ tagged[c] # {tags[Named]}
       THEN Tagged(c, {tags[Named]}) ELSE UNCHANGED <<tagged, desktop, current, shifted>>

DesktopInit ==
    /\ tags = <<>> /\ selected = {} /\ tagged = [c \in Client |-> {}] /\ sticky = {}
    /\ clients = <<>> /\ focus = "none" /\ names = <<>> /\ current = 0 /\ active = "none" /\ listed = <<>>
    /\ desktop = [c \in Client |-> "unset"] /\ shifted = {} /\ pager = [sent |-> 0, queue |-> <<>>]

DesktopNext ==
    \/ \E c \in Client : Manage(c) \/ Unmanage(c) \/ Focus(c) \/ \E s \in BOOLEAN : SetSticky(c, s)
    \/ \E c \in Client, t \in Tag : TagClient(c, t) \/ UntagClient(c, t)
    \/ \E t \in Tag : Activate(t) \/ Deactivate(t) \/ SetName(t) \/ \E s \in BOOLEAN : TagView(t, s)
    \/ Unfocus \/ HandleCurrent \/ HandleDesktop
    \/ \E w \in {"current"} \cup Client, i \in 0..(Len(tags) - 1) : Send(w, i)

DesktopSpec == DesktopInit /\ [][DesktopNext]_desktopVars

----------------------------------------------------------------------------
(* Properties. *)

\* the tags that the current desktop may be: those of the focused client first
Candidates ==
    LET shownTags == selected \cap ToSet(tags) IN
    IF focus # "none" /\ shownTags \cap tagged[focus] # {} THEN shownTags \cap tagged[focus] ELSE shownTags

\* What pagers read is what the manager has, except for an index that the
\* activation or deactivation of some tag changed after it was written: the
\* number and names of desktops, the current one (that of the focused client
\* if one of its tags is selected), the active window, the clients, and the
\* desktop of each client (the ewmh_update functions and their callers).
PagersInformed ==
    /\ DesktopTypeOK
    /\ names = tags /\ listed = clients /\ active = focus
    /\ "current" \notin shifted =>
           IF Candidates = {} THEN current = 0
           ELSE /\ current < Len(tags) /\ tags[current + 1] \in Candidates
                /\ \A i \in 1..current : tags[i] \notin Candidates
    /\ \A c \in Managed \ shifted : desktop[c] = DesktopOf(tags, tagged, sticky, c)

=============================================================================
