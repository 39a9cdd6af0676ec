------------------------------ MODULE Keyboard -------------------------------
(***************************************************************************)
(* Key bindings, the grabs that X holds for them, and the key grabber. Lua *)
(* sets the list of keys of the root window or of a client; every key is   *)
(* grabbed under the keycodes that carry it in the keymap that was loaded  *)
(* last. When the keymap changes the server sends events, and a callback   *)
(* that runs when the loop is idle loads the new one and grabs again.      *)
(*                                                                         *)
(* Sources: xkb.c, xwindow.c, root.c, keygrabber.c, event.c,               *)
(* objects/key.c, objects/client.c. The X server is external.              *)
(***************************************************************************)
EXTENDS Naturals, Sequences, FiniteSets

CONSTANTS
    Key,          \* key objects
    Keymap,       \* the keymaps: Keymap[m][code] is the sequence of its symbols
    NoSymbol,
    MaxChanges,   \* bound: changes of the keyboard
    MaxPresses,   \* bound: presses of keys
    MaxSettings   \* bound: things that Lua does

Code   == DOMAIN Keymap[1]
Symbol == UNION {{Keymap[m][c][i] : i \in 1..Len(Keymap[m][c])} : m \in DOMAIN Keymap, c \in Code}

ASSUME KeyboardAssumption ==
    /\ \A m \in DOMAIN Keymap : DOMAIN Keymap[m] = Code /\ \A c \in Code : Keymap[m][c] # <<>>
    /\ 1 \in DOMAIN Keymap /\ 0 \notin Code /\ NoSymbol \notin Symbol
    /\ MaxChanges \in Nat /\ MaxPresses \in Nat /\ MaxSettings \in Nat

VARIABLES
    haveXkb,      \* globalconf.have_xkb
    keymap,       \* the keymap of the server, and its group
    group,
    loaded,       \* the keymap in globalconf.keysyms and globalconf.xkb_state
    state,        \* the group in globalconf.xkb_state
    flags,        \* xkb_update_pending, xkb_reload_keymap, xkb_map_changed, xkb_group_changed
    events,       \* events that the server has sent
    object,       \* the keycode and keysym of each key object
    keys,         \* globalconf.keys and the client's keys
    grabs,        \* the keycodes that X has grabbed on each window for us
    nofocus,      \* the client has its window for the focus it does not take
    clientThere,
    keygrabber,   \* globalconf.keygrabber is set
    holder,       \* who has grabbed the keyboard actively
    lost,         \* history: presses of bound keys that nobody was told of
    touched,      \* history: whose keys have changed after they were grabbed
    changes, presses, settings

xkbvars      == <<haveXkb, keymap, group, loaded, state, flags>>
bindvars     == <<object, keys, grabs, nofocus, clientThere, touched>>
bounds       == <<changes, presses, settings>>
keyboardVars == <<xkbvars, bindvars, bounds, events, keygrabber, holder, lost>>

Owner  == {"root", "client"}
Window == {"root", "client", "nofocus"}
OwnerOf(w) == IF w = "root" THEN "root" ELSE "client"

KeyEvent ==
    [type : {"keyboard", "map", "state"}, detail : BOOLEAN, group : {0, 1}]
    \cup [type : {"press"}, window : Window, code : Code, due : BOOLEAN]

KeyboardTypeOK ==
    /\ haveXkb \in BOOLEAN
    /\ keymap \in DOMAIN Keymap /\ loaded \in DOMAIN Keymap
    /\ group \in {0, 1} /\ state \in {0, 1}
    /\ flags \subseteq {"pending", "reload", "map", "group"}
    /\ events \in Seq(KeyEvent)
    /\ object \in [Key -> [code : Code \cup {0}, sym : Symbol \cup {NoSymbol}]]
    /\ keys \in [Owner -> SUBSET Key] /\ grabs \in [Window -> SUBSET Code]
    /\ nofocus \in BOOLEAN /\ clientThere \in BOOLEAN
    /\ keygrabber \in BOOLEAN /\ holder \in {"nobody", "ours", "foreign"}
    /\ lost \subseteq Code /\ touched \subseteq Owner
    /\ changes \in 0..MaxChanges /\ presses \in 0..MaxPresses /\ settings \in 0..MaxSettings

-----------------------------------------------------------------------------
(* Grabs *)

\* xwindow_grabkey: the keycode, or all that carry the symbol in any column
Codes(k, m) ==
    IF object[k].code # 0 THEN {object[k].code}
    ELSE {c \in Code : \E i \in 1..Len(Keymap[m][c]) : Keymap[m][c][i] = object[k].sym}

GrabKeys(ks, m) == UNION {Codes(k, m) : k \in ks}

\* event_key_match: the symbol of the first column
Matches(k, c) == object[k].code = c \/ (object[k].code = 0 /\ object[k].sym = Keymap[loaded][c][1])

HasWindow(w) == (w # "root" => clientThere) /\ (w = "nofocus" => nofocus)

-----------------------------------------------------------------------------
(* The X server *)

Changes == changes < MaxChanges /\ changes' = changes + 1

Sent(e) == events' = IF haveXkb THEN Append(events, e) ELSE events

\* a keyboard is plugged in, or the map changes, which may be told twice
ChangeMap(m, type, detail) ==
    /\ Changes
    /\ m # keymap /\ keymap' = m
    /\ Sent([type |-> type, detail |-> detail, group |-> group])
    /\ UNCHANGED <<haveXkb, group, loaded, state, flags, bindvars, presses, settings, keygrabber, holder, lost>>

ChangeGroup ==
    /\ Changes
    /\ group' = 1 - group
    /\ Sent([type |-> "state", detail |-> TRUE, group |-> group'])
    /\ UNCHANGED <<haveXkb, keymap, loaded, state, flags, bindvars, presses, settings, keygrabber, holder, lost>>

\* X looks for a passive grab from the root window down to the focus
PressedAt(w, c) ==
    IF holder = "ours" \/ c \in grabs["root"] THEN {"root"}
    ELSE {v \in {w} : v # "root" /\ HasWindow(v) /\ c \in grabs[v]}

Press(c, focus) ==
    /\ presses < MaxPresses /\ holder # "foreign" /\ HasWindow(focus)
    /\ presses' = presses + 1
    /\ \E w \in PressedAt(focus, c) :
         events' = Append(events, [type |-> "press", window |-> w, code |-> c,
                                   due |-> \E k \in keys[OwnerOf(w)] : Matches(k, c)])
    /\ UNCHANGED <<xkbvars, bindvars, changes, settings, keygrabber, holder, lost>>

ForeignKeyGrab ==
    /\ Changes
    /\ holder \in {"nobody", "foreign"}
    /\ holder' = IF holder = "nobody" THEN "foreign" ELSE "nobody"
    /\ UNCHANGED <<xkbvars, bindvars, presses, settings, events, keygrabber, lost>>

-----------------------------------------------------------------------------
(* xkb.c *)

Arrives(type) == events # <<>> /\ Head(events).type = type /\ events' = Tail(events)
XkbFrame == UNCHANGED <<haveXkb, keymap, group, loaded, bindvars, bounds, keygrabber, holder, lost>>

\* mutant: a keyboard with the same keycodes needs no new keymap
OnlyOtherCodes(e) == IF e.detail THEN {"reload", "map"} ELSE {}

NewKeyboard(e) == {"reload"} \cup (IF e.detail THEN {"map"} ELSE {})

\* event_handle_xkb_notify
HandleKeyboard ==
    /\ Arrives("keyboard")
    /\ flags' = flags \cup {"pending"} \cup NewKeyboard(Head(events))
    /\ UNCHANGED state /\ XkbFrame

HandleMap ==
    /\ Arrives("map")
    /\ flags' = flags \cup {"pending", "reload", "map"}
    /\ UNCHANGED state /\ XkbFrame

HandleState ==
    /\ Arrives("state")
    /\ state' = Head(events).group
    /\ flags' = IF Head(events).detail THEN flags \cup {"pending", "group"} ELSE flags
    /\ XkbFrame

\* xkb_reload_keymap: the new map and state, and all grabs again
ReloadKeymap ==
    /\ loaded' = keymap /\ state' = group
    /\ grabs' = [w \in Window |-> IF HasWindow(w) THEN GrabKeys(keys[OwnerOf(w)], keymap) ELSE {}]
    /\ touched' = {}

\* xkb_refresh, when the loop is idle
XkbRefresh ==
    /\ "pending" \in flags
    /\ flags' = {}
    /\ IF "reload" \in flags THEN ReloadKeymap ELSE UNCHANGED <<loaded, state, grabs, touched>>
    /\ UNCHANGED <<haveXkb, keymap, group, object, keys, nofocus, clientThere, bounds, events, keygrabber, holder, lost>>

-----------------------------------------------------------------------------
(* Lua *)

Sets == settings < MaxSettings /\ settings' = settings + 1
SetsFrame == UNCHANGED <<xkbvars, changes, presses, events, keygrabber, holder, lost>>

\* luaA_keystore: a symbol, a keycode written #n, or a name that means nothing,
\* which clears the key and emits no signal
KeyStore(k, value) ==
    /\ Sets
    /\ object' = [object EXCEPT ![k] = value]
    /\ touched' = touched \cup {o \in Owner : k \in keys[o]}
    /\ UNCHANGED <<keys, grabs, nofocus, clientThere>> /\ SetsFrame

\* luaA_root_keys
RootKeys(ks) ==
    /\ Sets
    /\ keys' = [keys EXCEPT !["root"] = ks]
    /\ grabs' = [grabs EXCEPT !["root"] = GrabKeys(ks, loaded)]
    /\ touched' = touched \ {"root"}
    /\ UNCHANGED <<object, nofocus, clientThere>> /\ SetsFrame

GrabbedWindows == IF nofocus THEN {"client", "nofocus"} ELSE {"client"}

\* luaA_client_keys
ClientKeys(ks) ==
    /\ Sets /\ clientThere
    /\ keys' = [keys EXCEPT !["client"] = ks]
    /\ grabs' = [w \in Window |-> IF w \in GrabbedWindows THEN GrabKeys(ks, loaded) ELSE grabs[w]]
    /\ touched' = touched \ {"client"}
    /\ UNCHANGED <<object, nofocus, clientThere>> /\ SetsFrame

\* client_get_nofocus_window
FocusNoFocus ==
    /\ Sets /\ clientThere /\ ~nofocus
    /\ nofocus' = TRUE
    /\ grabs' = [grabs EXCEPT !["nofocus"] = GrabKeys(keys["client"], loaded)]
    /\ UNCHANGED <<object, keys, clientThere, touched>> /\ SetsFrame

\* client_unmanage
ClientGoes ==
    /\ Sets /\ clientThere
    /\ clientThere' = FALSE /\ nofocus' = FALSE
    /\ keys' = [keys EXCEPT !["client"] = {}]
    /\ grabs' = [grabs EXCEPT !["client"] = {}, !["nofocus"] = {}]
    /\ UNCHANGED <<object, touched>> /\ SetsFrame

\* luaA_keygrabber_run and _stop
StartKeygrabber ==
    /\ Sets /\ ~keygrabber
    /\ keygrabber' = TRUE
    /\ holder' = IF holder = "foreign" THEN holder ELSE "ours"
    /\ UNCHANGED <<xkbvars, bindvars, changes, presses, events, lost>>

KeyboardUngrabbed ==
    /\ keygrabber' = FALSE
    /\ holder' = IF holder = "ours" THEN "nobody" ELSE holder

StopKeygrabber ==
    /\ Sets /\ keygrabber
    /\ KeyboardUngrabbed
    /\ UNCHANGED <<xkbvars, bindvars, changes, presses, events, lost>>

-----------------------------------------------------------------------------
(* event_handle_key *)

\* mutant: the window that takes the focus for the client is not known
OwnWindow(e) == IF clientThere /\ e.window = "client" THEN "client" ELSE "root"

\* the client whose window or focus window it is, or else the root's keys
KeyOwner(e) == IF clientThere /\ e.window # "root" THEN "client" ELSE "root"

HandleKey ==
    LET e == Head(events)
    IN  /\ Arrives("press") /\ ~keygrabber
        /\ lost' = IF e.due /\ OwnerOf(e.window) = "client" /\ ~clientThere THEN lost
                   ELSE IF e.due /\ (\E k \in keys[OwnerOf(e.window)] : Matches(k, e.code))
                              /\ ~\E k \in keys[KeyOwner(e)] : Matches(k, e.code)
                   THEN lost \cup {e.code} ELSE lost
        /\ UNCHANGED <<xkbvars, bindvars, bounds, keygrabber, holder>>

\* the key grabber's callback, which fails or not
HandleGrabbedKey ==
    /\ Arrives("press") /\ keygrabber
    /\ UNCHANGED <<keygrabber, holder>> \/ KeyboardUngrabbed
    /\ UNCHANGED <<xkbvars, bindvars, bounds, lost>>

-----------------------------------------------------------------------------
KeyboardInit ==
    /\ haveXkb \in BOOLEAN
    /\ keymap = 1 /\ loaded = 1 /\ group = 0 /\ state = 0 /\ flags = {} /\ events = <<>>
    /\ object = [k \in Key |-> [code |-> 0, sym |-> NoSymbol]]
    /\ keys = [o \in Owner |-> {}] /\ grabs = [w \in Window |-> {}]
    /\ nofocus = FALSE /\ clientThere = TRUE
    /\ keygrabber = FALSE /\ holder = "nobody" /\ lost = {} /\ touched = {}
    /\ changes = 0 /\ presses = 0 /\ settings = 0

KeyValue == [code : {0}, sym : Symbol \cup {NoSymbol}] \cup [code : Code, sym : {NoSymbol}]

KeyboardNext ==
    \/ \E m \in DOMAIN Keymap, type \in {"keyboard", "map"}, detail \in BOOLEAN : ChangeMap(m, type, detail)
    \/ ChangeGroup \/ ForeignKeyGrab
    \/ \E c \in Code, w \in Window : Press(c, w)
    \/ HandleKeyboard \/ HandleMap \/ HandleState \/ XkbRefresh
    \/ \E k \in Key, value \in KeyValue : KeyStore(k, value)
    \/ \E ks \in SUBSET Key : RootKeys(ks) \/ ClientKeys(ks)
    \/ FocusNoFocus \/ ClientGoes \/ StartKeygrabber \/ StopKeygrabber
    \/ HandleKey \/ HandleGrabbedKey

KeyboardSpec == KeyboardInit /\ [][KeyboardNext]_keyboardVars

-----------------------------------------------------------------------------
(* Properties *)

\* When no event and no refresh is outstanding, the manager has the keymap and
\* the group of the server, and X holds for every window, also the one that
\* takes the focus for a client, exactly the grabs of its keys in that keymap;
\* a key object that changes by itself is not grabbed again.
GrabsCurrent ==
    haveXkb /\ flags = {} /\ (\A i \in 1..Len(events) : events[i].type = "press") =>
        /\ loaded = keymap /\ state = group
        /\ \A w \in Window :
             HasWindow(w) /\ OwnerOf(w) \notin touched =>
                 grabs[w] = GrabKeys(keys[OwnerOf(w)], keymap)

\* A press that X reports because of a grab reaches a key that is bound on that
\* window, also through the window that takes the focus for a client, if one
\* matched when the key was pressed and one still does.
NoKeyLost == lost = {}

\* xkb.c, keygrabber.c, key.c, event_handle_key: X has the grabs of the keys
\* that are bound in the keymap of the server, and no press of one is lost.
KeysGrabbed == KeyboardTypeOK /\ GrabsCurrent /\ NoKeyLost
=============================================================================
