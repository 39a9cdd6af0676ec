------------------------------- MODULE Properties -------------------------------
(***************************************************************************)
(* What a client's window says of itself, and what the manager has on      *)
(* record. When a window is managed, all properties are asked for at once  *)
(* and the replies are processed one by one, while the application goes    *)
(* on changing them; after that every change is an event, and the handler  *)
(* reads what the property is by then. Lua changes some records too: the   *)
(* struts write the property back, the opacity goes to the frame.          *)
(*                                                                         *)
(* Source: property.c, client_update_properties and the setters of         *)
(* client.c, window.c, the opacity in xwindow.c, struts and icons in       *)
(* ewmh.c.                                                                 *)
(***************************************************************************)
EXTENDS Naturals, Sequences

CONSTANTS
    MaxWrites,   \* bound: changes that the application makes
    MaxLua       \* bound: records that Lua changes

VARIABLES
    prop,      \* X: the properties of the window; "none" is absent
    type,      \* X: _NET_WM_WINDOW_TYPE, which is read once
    record,    \* the manager's copy of each
    nofocus,   \* c->nofocus
    icons,     \* where c->icons came from: "none", "hints", "icon", "lua"
    ewmhIcon,  \* c->have_ewmh_icon
    kind,      \* c->type
    hasType,   \* c->has_NET_WM_WINDOW_TYPE
    frame,     \* X: the opacity of the frame
    replies,   \* answers that wait; the requests are sent in the order of AskedInOrder
    phase,     \* "new", "asking", "reading", "managed"
    events,    \* PropertyNotify events on their way
    lua,       \* records that Lua set since they were read
    count      \* changes so far

propVars == <<prop, type, record, nofocus, icons, ewmhIcon, kind, hasType, frame, replies, phase, events, lua, count>>

\* the order of client_update_properties; the strut is read before the replies
AskedInOrder == <<"hints", "transient", "leader", "pid", "icon", "alt", "name", "class", "protocols", "motif", "opacity">>
Kind == {AskedInOrder[i] : i \in DOMAIN AskedInOrder} \cup {"strut"}

\* the hints may have an input flag and may have a pixmap
Values(k) == IF k = "hints" THEN {"noinput", "input", "pixmap"}
             ELSE IF k = "strut" THEN {"a", "b", "lua"}
             ELSE IF k = "opacity" THEN {"a", "zero", "lua"}
             ELSE IF k \in {"leader", "pid", "class", "protocols", "motif"} THEN {"a"} ELSE {"a", "b"}

PropertiesTypeOK ==
    /\ DOMAIN prop = Kind /\ DOMAIN record = Kind /\ \A k \in Kind : prop[k] \in Values(k) \cup {"none"}
    /\ nofocus \in BOOLEAN /\ ewmhIcon \in BOOLEAN /\ hasType \in BOOLEAN /\ icons \in {"none", "hints", "icon", "lua"}
    /\ kind \in {"normal", "dialog", "dock"} /\ type \in {"none", "dialog", "dock"}
    /\ phase \in {"new", "asking", "reading", "managed"} /\ lua \subseteq Kind

----------------------------------------------------------------------------
(* property_update: what is on record after a reply. *)

\* a property that is deleted leaves its record alone
Old(k, v) == IF v = "none" THEN record[k] ELSE v

Leader(v) == Old("leader", v)
Pid(v) == Old("pid", v)
Class(v) == Old("class", v)
Protocols(v) == Old("protocols", v)
Strut(v) == Old("strut", v)
ReadHints(v) == Old("hints", v)

\* mutant: a text that is deleted stays on record
KeepsText(v) == Old("name", v)

\* no hints are recorded as hints that say nothing
Motif(v) == v
Text(v) == v
TransientFor(v) == v
Opacity(v) == v

Recorded(k, v) ==
    CASE k = "leader" -> Leader(v) [] k = "pid" -> Pid(v) [] k = "class" -> Class(v)
      [] k = "protocols" -> Protocols(v) [] k = "strut" -> Strut(v) [] k = "hints" -> ReadHints(v)
      [] k = "icon" -> Old("icon", v) [] k = "motif" -> Motif(v) [] k \in {"name", "alt"} -> Text(v)
      [] k = "transient" -> TransientFor(v) [] k = "opacity" -> Opacity(v)

\* mutant: a pixmap of WM_HINTS always counts
LastIcon(k, v) == IF k = "icon" /\ v # "none" THEN "icon" ELSE IF k = "hints" /\ v = "pixmap" THEN "hints" ELSE icons

\* a pixmap of WM_HINTS is not taken once there was a _NET_WM_ICON
IconFrom(k, v) ==
    IF k = "icon" /\ v # "none" THEN "icon"
    ELSE IF k = "hints" /\ v = "pixmap" /\ ~ewmhIcon THEN "hints" ELSE icons

\* c->nofocus follows the input flag, when there is one
NoFocus(v) == IF v \in {"input", "noinput"} THEN v = "noinput" ELSE nofocus

Update(k, v) ==
    /\ record' = [record EXCEPT ![k] = Recorded(k, v)]
    /\ icons' = IconFrom(k, v)
    /\ ewmhIcon' = (ewmhIcon \/ (k = "icon" /\ v # "none"))
    /\ nofocus' = IF k = "hints" THEN NoFocus(v) ELSE nofocus
    /\ kind' = IF k = "transient" /\ v # "none" /\ ~hasType THEN "dialog" ELSE kind
    /\ frame' = IF k = "opacity" /\ v # record[k] THEN v ELSE frame
    /\ lua' = IF k # "icon" \/ v # "none" THEN lua \ {k} ELSE lua

----------------------------------------------------------------------------
(* client_manage: client_update_properties, ewmh_client_check_hints. *)

ManageWindow ==
    /\ phase = "new" /\ phase' = "asking"
    /\ UNCHANGED <<prop, type, record, nofocus, icons, ewmhIcon, kind, hasType, frame, replies, events, lua, count>>

\* the server answers the next request
Ask ==
    /\ phase = "asking" /\ Len(replies) < Len(AskedInOrder)
    /\ replies' = Append(replies, prop[AskedInOrder[Len(replies) + 1]])
    /\ UNCHANGED <<prop, type, record, nofocus, icons, ewmhIcon, kind, hasType, frame, phase, events, lua, count>>

\* ewmh_process_client_strut
AskStrut ==
    /\ phase = "asking" /\ Len(replies) = Len(AskedInOrder) /\ phase' = "reading"
    /\ record' = [record EXCEPT !.strut = Recorded("strut", prop.strut)]
    /\ UNCHANGED <<prop, type, nofocus, icons, ewmhIcon, kind, hasType, frame, replies, events, lua, count>>

Reply ==
    /\ phase = "reading" /\ replies # <<>> /\ replies' = Tail(replies)
    /\ UNCHANGED <<prop, type, hasType, phase, events, count>>
    /\ Update(AskedInOrder[Len(AskedInOrder) - Len(replies) + 1], Head(replies))

\* The type is read when WM_TRANSIENT_FOR has made the client a dialog already,
\* and a dialog is more than a dock. The reply to the request is never empty
\* handed, even without the property, so from here on WM_TRANSIENT_FOR does not
\* change the type.
ReadType ==
    /\ phase = "reading" /\ replies = <<>> /\ phase' = "managed"
    /\ hasType' = TRUE
    /\ kind' = IF "dialog" \in {type, kind} THEN "dialog" ELSE IF type = "dock" THEN "dock" ELSE kind
    /\ UNCHANGED <<prop, type, record, nofocus, icons, ewmhIcon, frame, replies, events, lua, count>>

\* property_handle_propertynotify reads the property again
HandleNotify ==
    /\ phase = "managed" /\ events # <<>> /\ events' = Tail(events)
    /\ UNCHANGED <<prop, type, hasType, replies, phase, count>>
    /\ Update(Head(events), prop[Head(events)])

----------------------------------------------------------------------------
(* The application and Lua. *)

\* events are selected before the properties are asked for
Write(k, v) ==
    /\ count.app < MaxWrites /\ count' = [count EXCEPT !.app = @ + 1]
    /\ v # prop[k] /\ prop' = [prop EXCEPT ![k] = v]
    /\ events' = IF phase = "new" THEN events ELSE Append(events, k)
    /\ UNCHANGED <<type, record, nofocus, icons, ewmhIcon, kind, hasType, frame, replies, phase, lua>>

LuaSets(k) ==
    /\ phase = "managed" /\ count.lua < MaxLua /\ count' = [count EXCEPT !.lua = @ + 1]
    /\ lua' = lua \cup {k}
    /\ UNCHANGED <<type, nofocus, ewmhIcon, kind, hasType, replies, phase>>

\* luaA_client_set_name, luaA_client_set_icon
LuaName ==
    /\ LuaSets("name") /\ record' = [record EXCEPT !.name = "lua"]
    /\ UNCHANGED <<prop, icons, frame, events>>
LuaIcon == LuaSets("icon") /\ icons' = "lua" /\ UNCHANGED <<prop, record, frame, events>>

\* luaA_window_set_opacity
LuaOpacity ==
    /\ LuaSets("opacity") /\ record' = [record EXCEPT !.opacity = "lua"] /\ frame' = "lua"
    /\ UNCHANGED <<prop, icons, events>>

\* luaA_window_struts
LuaStruts ==
    /\ LuaSets("strut") /\ record' = [record EXCEPT !.strut = "lua"] /\ prop' = [prop EXCEPT !.strut = "lua"]
    /\ events' = Append(events, "strut")
    /\ UNCHANGED <<icons, frame>>

PropertiesInit ==
    /\ prop \in [Kind -> {"none"}] /\ type \in {"none", "dialog", "dock"}
    /\ record = [k \in Kind |-> IF k = "opacity" THEN "zero" ELSE "none"] \* a client is made of zeros
    /\ nofocus = FALSE /\ icons = "none" /\ ewmhIcon = FALSE /\ kind = "normal" /\ hasType = FALSE
    /\ frame = "none" /\ replies = <<>> /\ phase = "new" /\ events = <<>> /\ lua = {}
    /\ count = [app |-> 0, lua |-> 0]

PropertiesNext ==
    \/ ManageWindow \/ Ask \/ AskStrut \/ Reply \/ ReadType \/ HandleNotify
    \/ LuaName \/ LuaIcon \/ LuaOpacity \/ LuaStruts
    \/ \E k \in Kind : \E v \in (Values(k) \ {"lua"}) \cup {"none"} : Write(k, v)

PropertiesSpec == PropertiesInit /\ [][PropertiesNext]_propVars

----------------------------------------------------------------------------
(* Properties. *)

\* Once the events are handled, the record of a client is what its window says,
\* whatever the application changed while the replies were on their way and
\* whatever Lua did in between: a deleted text is gone, the input hint counts,
\* the icon is that of _NET_WM_ICON when there is one. The frame has the opacity
\* on record unless that is zero: a client is made with zero on record, and the
\* same value again changes nothing (client_update_properties,
\* property_handle_propertynotify, window_set_opacity).
RecordsRead ==
    /\ PropertiesTypeOK
    /\ record.opacity \in {frame, "zero"}
    /\ phase = "managed" /\ events = <<>> =>
        /\ \A k \in {"transient", "alt", "name", "motif", "opacity"} \ lua : prop[k] = "none" => record[k] = "none"
        /\ \A k \in Kind \ lua : prop[k] # "none" => record[k] = prop[k]
        /\ prop.hints \in {"input", "noinput"} => nofocus = (prop.hints = "noinput")
        /\ "icon" \notin lua =>
              /\ prop.icon # "none" => icons = "icon"
              /\ prop.hints = "pixmap" => icons # "none"
        /\ type = "dialog" => kind = "dialog"

=============================================================================
