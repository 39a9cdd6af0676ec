------------------------------ MODULE Stacking ------------------------------
(***************************************************************************)
(* The stacking of the clients and drawins: globalconf.stack, which raise  *)
(* and lower reorder, the transient_for relation, the special layers, and  *)
(* stack_refresh, which once per main-loop turn sends the order to the X   *)
(* server, and only when somebody called stack_windows.                    *)
(*                                                                         *)
(* Sources: stack.c, objects/client.c, objects/client.h, property.c,       *)
(* ewmh.c, objects/drawin.c.                                               *)
(***************************************************************************)
EXTENDS Naturals, Sequences, SequencesExt, FiniteSets

CONSTANTS
    Windows,    \* the windows that may become clients
    Drawins,    \* the drawin windows of Lua
    NoWindow,   \* NULL and XCB_NONE
    Layers,     \* the special layers in use, a subset of SpecialLayers
    Env         \* which optional behaviours are present

SpecialLayers == {"below", "above", "fullscreen", "ontop"}

\* "desktop"   some clients have the window type DESKTOP
\* "focus"     the focus changes
\* "retarget"  clients change WM_TRANSIENT_FOR while they are managed
Behaviours == {"desktop", "focus", "retarget"}

ASSUME StackingAssumption ==
    /\ NoWindow \notin Windows \cup Drawins
    /\ Windows \cap Drawins = {}
    /\ Layers \subseteq SpecialLayers
    /\ Env \subseteq Behaviours
    /\ IsFiniteSet(Drawins)

VARIABLES
    managed,        \* globalconf.clients
    stack,          \* globalconf.stack, bottom to top
    transientFor,   \* client_t.transient_for
    hint,           \* client_t.transient_for_window
    layer,          \* the special layers whose flag is set
    desktop,        \* the clients of type WINDOW_TYPE_DESKTOP
    focus,          \* globalconf.focus.client
    dying,          \* the client whose unmanage signals are being handled
    drawins,        \* globalconf.drawins: the visible drawins
    drawinOntop,    \* drawin_t.ontop
    needRestack,    \* need_stack_refresh
    xorder,         \* X: the frames and the drawins, bottom to top
    unasked         \* history: what decides the order changed since the last restack
                    \* and nobody asked for one

vars == <<managed, stack, transientFor, hint, layer, desktop, focus, dying,
          drawins, drawinOntop, needRestack, xorder, unasked>>

Opt == Windows \cup {NoWindow}

TypeOK ==
    /\ managed \subseteq Windows
    /\ transientFor \in [Windows -> Opt]
    /\ hint \in [Windows -> Opt]
    /\ layer \in [Windows -> SUBSET SpecialLayers]
    /\ desktop \subseteq Windows
    /\ focus \in Opt
    /\ dying \in Opt
    /\ drawinOntop \subseteq Drawins
    /\ needRestack \in BOOLEAN /\ unasked \in BOOLEAN
    /\ \A w \in Windows \ managed : w # dying => transientFor[w] = NoWindow
    /\ \A w \in managed : transientFor[w] \in managed \cup {NoWindow}

-----------------------------------------------------------------------------
(* The stack list *)

\* mutant: the client is not taken out before it is put back
AppendOnly(s, c) == Append(s, c)

\* stack_client_remove: c leaves its place, the first it is found at; a drawin
\* leaves globalconf.drawins, and a window the order of X, in the same way
Place(s, c)       == CHOOSE i \in DOMAIN s : s[i] = c /\ \A j \in 1..(i - 1) : s[j] # c
StackRemove(s, c) == IF c \in ToSet(s) THEN RemoveAt(s, Place(s, c)) ELSE s

\* stack_client_append and stack_client_push remove the client first
StackAppend(s, c) == Append(StackRemove(s, c), c)
StackPush(s, c)   == <<c>> \o StackRemove(s, c)

\* client_raise: the clients c is transient for are raised first, the outermost
\* first of all
Raised(c) ==
    LET raised[w \in Windows] ==
            StackAppend(IF transientFor[w] = NoWindow THEN stack ELSE raised[transientFor[w]], w)
    IN  raised[c]

\* luaA_client_lower: c goes to the bottom, then the client it is transient for
\* below it, and so on
Lowered(c) ==
    LET lowered[w \in Windows] ==
            [s \in Seq(Windows) |->
                IF transientFor[w] = NoWindow THEN StackPush(s, w)
                ELSE lowered[transientFor[w]][StackPush(s, w)]]
    IN  lowered[c][stack]

-----------------------------------------------------------------------------
(* client_find_transient_for *)

\* the loop over transient_for from tc ends within len steps, and not at c
NoLoop(tf, c, tc, len) ==
    \E k \in 0..len : \E p \in [0..k -> Opt] :
        /\ p[0] = tc
        /\ \A i \in 0..(k - 1) : p[i] \notin {c, NoWindow} /\ p[i + 1] = tf[p[i]]
        /\ p[k] = NoWindow

\* mutant: only the direct reference to itself is noticed
NotItself(tf, c, C, w, len) == IF w \in C /\ w # c THEN w ELSE NoWindow

\* what client_find_transient_for makes of the hint w of client c, with the
\* clients C and the relation tf: a loop unsets transient_for
FoundTransient(tf, c, C, w, len) ==
    IF w \in C /\ NoLoop(tf, c, w, len) THEN w ELSE NoWindow

-----------------------------------------------------------------------------
(* stack_refresh *)

\* client_layer_translator
LayerOf(c) ==
    IF "ontop" \in layer[c] THEN "ontop"
    ELSE IF "fullscreen" \in layer[c] /\ focus = c THEN "fullscreen"
    ELSE IF "above" \in layer[c] THEN "above"
    ELSE IF "below" \in layer[c] THEN "below"
    ELSE IF transientFor[c] # NoWindow THEN "ignore"
    ELSE IF c \in desktop THEN "desktop" ELSE "normal"

\* mutant: the transient clients are not put above their parents
NoFamily(c) == <<c>>

\* what the members of s that are in S bring, one after the other
Gather(s, S, brought) ==
    LET from[i \in 0..Len(s)] ==
            IF i = 0 THEN <<>>
            ELSE IF s[i] \in S THEN from[i - 1] \o brought[s[i]] ELSE from[i - 1]
    IN  from[Len(s)]

\* stack_client_above: c, and above it the clients transient for it
Family(c) ==
    LET family[w \in Windows] == <<w>> \o Gather(stack, {t \in Windows : transientFor[t] = w}, family)
    IN  family[c]

\* one layer of clients, bottom to top
InLayer(l) == Gather(stack, {c \in Windows : LayerOf(c) = l}, [c \in Windows |-> Family(c)])

DrawinsOntop(b) == Gather(drawins, {d \in Drawins : (d \in drawinOntop) = b}, [d \in Drawins |-> <<d>>])

\* the windows in the order in which stack_refresh visits them; a transient
\* client with a special layer is visited more than once
Visited ==
    InLayer("desktop") \o DrawinsOntop(FALSE)
    \o InLayer("below") \o InLayer("normal") \o InLayer("above")
    \o InLayer("fullscreen") \o InLayer("ontop") \o DrawinsOntop(TRUE)

\* stack_window_above; X refuses a window that is to be above itself
PutAbove(order, w, previous) ==
    IF w = previous THEN order
    ELSE LET rest == StackRemove(order, w)
         IN  InsertAt(rest, Place(rest, previous) + 1, w)

\* the X server's order when each of the windows was put above the one before
\* it; the first one stays where it is
Restacked(order, visited) ==
    LET after[i \in 0..Len(visited)] ==
            IF i <= 1 THEN order ELSE PutAbove(after[i - 1], visited[i], visited[i - 1])
    IN  after[Len(visited)]

StackRefresh ==
    /\ needRestack
    /\ dying = NoWindow
    /\ xorder' = Restacked(xorder, Visited)
    /\ needRestack' = FALSE /\ unasked' = FALSE
    /\ UNCHANGED <<managed, stack, transientFor, hint, layer, desktop, focus, dying,
                   drawins, drawinOntop>>

-----------------------------------------------------------------------------
(* The special layers *)

\* client_set_above, _below, _ontop, _fullscreen: setting one clears the others
SwitchLayer(old, l, on) == IF on THEN {l} ELSE old \ {l}

\* a call of one of the four setters, by Lua or for _NET_WM_STATE
SetLayer(c, l, on) ==
    /\ c \in managed
    /\ on # (l \in layer[c])
    /\ layer' = [layer EXCEPT ![c] = SwitchLayer(@, l, on)]
    /\ needRestack' = TRUE
    /\ UNCHANGED <<managed, stack, transientFor, hint, desktop, focus, dying, drawins,
                   drawinOntop, xorder, unasked>>

-----------------------------------------------------------------------------
(* Clients come and go *)

\* client_manage: first the client's own WM_TRANSIENT_FOR, while it is not yet
\* in the stack, then the clients that waited for it, then its EWMH hints.
\* A client with a WM_TRANSIENT_FOR hint has the type DIALOG, which a DESKTOP
\* in _NET_WM_WINDOW_TYPE does not lower.
Manage(c, w, l, desk) ==
    /\ c \notin managed
    /\ dying = NoWindow
    /\ desk => "desktop" \in Env
    /\ managed' = managed \cup {c}
    /\ hint' = [hint EXCEPT ![c] = w]
    /\ LET len == Len(stack)
           own == [transientFor EXCEPT ![c] = FoundTransient(transientFor, c, managed', w, len)]
       IN  transientFor' =
               [o \in Windows |->
                   IF o \in managed' /\ hint'[o] = c
                   THEN FoundTransient(own, o, managed', c, len) ELSE own[o]]
    /\ layer' = [layer EXCEPT ![c] = l]
    /\ desktop' = IF desk /\ w = NoWindow THEN desktop \cup {c} ELSE desktop
    /\ stack' = StackPush(stack, c)
    /\ needRestack' = TRUE
    /\ xorder' = <<c>> \o xorder
    /\ UNCHANGED <<focus, dying, drawins, drawinOntop, unasked>>

\* mutant: the clients transient for c keep pointing to it
OrphansForgotten(c) == transientFor

\* client_unmanage resets transient_for of the clients that refer to c
Orphaned(c) ==
    [o \in Windows |-> IF o \in managed /\ transientFor[o] = c THEN NoWindow ELSE transientFor[o]]

\* client_unmanage, up to the unmanage signals. What is left of c is kept
\* until their handlers have run.
Unmanage(c) ==
    /\ c \in managed
    /\ dying = NoWindow
    /\ managed' = managed \ {c}
    /\ stack' = StackRemove(stack, c)
    /\ focus' = IF focus = c THEN NoWindow ELSE focus
    /\ transientFor' = Orphaned(c)
    /\ dying' = c
    /\ needRestack' = TRUE
    /\ UNCHANGED <<hint, layer, desktop, drawins, drawinOntop, xorder, unasked>>

\* the end of client_unmanage: the object is freed and its frame destroyed
Unmanaged(c) ==
    /\ dying = c
    /\ c # NoWindow
    /\ dying' = NoWindow
    /\ transientFor' = [transientFor EXCEPT ![c] = NoWindow]
    /\ hint' = [hint EXCEPT ![c] = NoWindow]
    /\ layer' = [layer EXCEPT ![c] = {}]
    /\ desktop' = desktop \ {c}
    /\ xorder' = StackRemove(xorder, c)
    /\ UNCHANGED <<managed, stack, focus, drawins, drawinOntop, needRestack, unasked>>

\* property_update_wm_transient_for, when the property was set: the client
\* leaves the layer "above". When it was deleted, only the relation changes.
UpdateTransientFor(c, w) ==
    /\ "retarget" \in Env
    /\ c \in managed
    /\ dying = NoWindow
    /\ w # hint[c]
    /\ hint' = [hint EXCEPT ![c] = w]
    /\ transientFor' = [transientFor EXCEPT ![c] =
                            FoundTransient(transientFor, c, managed, w, Len(stack))]
    /\ layer' = IF w = NoWindow THEN layer ELSE [layer EXCEPT ![c] = @ \ {"above"}]
    /\ needRestack' = (needRestack \/ layer' # layer)
    /\ unasked' = (unasked \/ transientFor' # transientFor)
    /\ UNCHANGED <<managed, stack, desktop, focus, dying, drawins, drawinOntop, xorder>>

-----------------------------------------------------------------------------
(* Lua: raise, lower, focus and drawins *)

\* luaA_client_raise: nothing happens to a client that is on top already
Raise(c) ==
    /\ c \in managed
    /\ ~(transientFor[c] = NoWindow /\ stack # <<>> /\ Last(stack) = c)
    /\ stack' = Raised(c)
    /\ needRestack' = TRUE
    /\ UNCHANGED <<managed, transientFor, hint, layer, desktop, focus, dying, drawins,
                   drawinOntop, xorder, unasked>>

\* luaA_client_lower: nothing happens to a client that is at the bottom already
Lower(c) ==
    /\ c \in managed
    /\ ~(stack # <<>> /\ Head(stack) = c)
    /\ stack' = Lowered(c)
    /\ needRestack' = TRUE
    /\ UNCHANGED <<managed, transientFor, hint, layer, desktop, focus, dying, drawins,
                   drawinOntop, xorder, unasked>>

\* client_focus_update and client_unfocus: nobody calls stack_windows
Focus(c) ==
    /\ "focus" \in Env
    /\ c \in managed \cup {NoWindow}
    /\ focus # c
    /\ focus' = c
    /\ unasked' = (unasked \/ \E w \in {focus, c} \ {NoWindow} : "fullscreen" \in layer[w])
    /\ UNCHANGED <<managed, stack, transientFor, hint, layer, desktop, dying, drawins,
                   drawinOntop, needRestack, xorder>>

\* drawin_map and drawin_unmap
ShowDrawin(d) ==
    /\ d \notin ToSet(drawins)
    /\ drawins' = Append(drawins, d)
    /\ needRestack' = TRUE
    /\ UNCHANGED <<managed, stack, transientFor, hint, layer, desktop, focus, dying,
                   drawinOntop, xorder, unasked>>

HideDrawin(d) ==
    /\ d \in ToSet(drawins)
    /\ drawins' = StackRemove(drawins, d)
    /\ UNCHANGED <<managed, stack, transientFor, hint, layer, desktop, focus, dying,
                   drawinOntop, needRestack, xorder, unasked>>

\* luaA_drawin_set_ontop
SetDrawinOntop(d) ==
    /\ drawinOntop' = IF d \in drawinOntop THEN drawinOntop \ {d} ELSE drawinOntop \cup {d}
    /\ needRestack' = TRUE
    /\ UNCHANGED <<managed, stack, transientFor, hint, layer, desktop, focus, dying,
                   drawins, xorder, unasked>>

-----------------------------------------------------------------------------
Init ==
    /\ managed = {} /\ stack = <<>> /\ desktop = {} /\ focus = NoWindow /\ dying = NoWindow
    /\ transientFor = [w \in Windows |-> NoWindow]
    /\ hint = [w \in Windows |-> NoWindow]
    /\ layer = [w \in Windows |-> {}]
    /\ drawins = <<>> /\ drawinOntop = {}
    /\ needRestack = FALSE /\ unasked = FALSE
    /\ xorder \in SetToSeqs(Drawins)

\* the special layers a new client may ask for in _NET_WM_STATE; "ontop" has
\* no EWMH state
NewLayer == {{}} \cup {{l} : l \in Layers \ {"ontop"}}

Next ==
    \/ \E c \in Windows, w \in Opt, l \in NewLayer, desk \in BOOLEAN : Manage(c, w, l, desk)
    \/ \E c \in Windows : Unmanage(c) \/ Unmanaged(c) \/ Raise(c) \/ Lower(c)
    \/ \E c \in Windows, w \in Opt : UpdateTransientFor(c, w)
    \/ \E c \in Windows, l \in Layers, on \in BOOLEAN : SetLayer(c, l, on)
    \/ \E c \in Opt : Focus(c)
    \/ \E d \in Drawins : ShowDrawin(d) \/ HideDrawin(d) \/ SetDrawinOntop(d)
    \/ StackRefresh

Spec == Init /\ [][Next]_vars

-----------------------------------------------------------------------------
(* Properties *)

\* transient_for never has a loop, whatever hints the clients give, in whatever
\* order they come, go and change their minds: stack_client_above, client_raise
\* and luaA_client_lower would not terminate. Stated without paths: every set
\* of clients has a member that is not transient for another member.
Acyclic ==
    \A S \in SUBSET Windows :
        S # {} => \E c \in S : transientFor[c] \notin S

\* client.c:2868, client_unmanage: "remove client from global list and
\* everywhere else": every managed client is in globalconf.stack, once, and
\* nothing else is, for the refresh follows these pointers.
StackHoldsManaged ==
    dying = NoWindow => ToSet(stack) = managed /\ IsInjective(stack)

\* a client, and those it is transient for, directly or not
Chain(c) ==
    {w \in Windows : \A S \in SUBSET Windows :
        c \in S /\ (\A v \in S : transientFor[v] \in S \cup {NoWindow}) => w \in S}

\* the layer that decides where a client is drawn: its own, or that of a
\* client it is transient for when that one is higher
Height == [ignore |-> 0, desktop |-> 1, below |-> 3, normal |-> 4, above |-> 5, fullscreen |-> 6, ontop |-> 7]
Rank(c) == Max({Height[LayerOf(w)] : w \in Chain(c)})

DrawinRank(d) == IF d \in drawinOntop THEN 8 ELSE 2

Under(w, v) == Place(xorder, w) < Place(xorder, v)

\* The X server shows what the flags, the relation and the list say, and not
\* what they said some restack ago: whenever no restack is pending, the layers
\* are in order, a transient client is above its parent, and unrelated clients
\* of one layer are in the order of the list - unless the focus or a hint
\* changed the layer or the parent of a client, which nobody tells
\* stack_windows (stack_refresh, stack_client_above, stack_window_above).
XFollowsStack ==
    ~needRestack /\ ~unasked /\ dying = NoWindow =>
        /\ \A c \in managed, v \in managed : Rank(c) < Rank(v) => Under(c, v)
        /\ \A c \in managed : transientFor[c] # NoWindow => Under(transientFor[c], c)
        /\ \A c \in managed, v \in managed :
             /\ transientFor[c] = NoWindow /\ transientFor[v] = NoWindow
             /\ LayerOf(c) = LayerOf(v) /\ Place(stack, c) < Place(stack, v)
             => Under(c, v)
        /\ \A d \in ToSet(drawins), c \in managed :
             IF DrawinRank(d) < Rank(c) THEN Under(d, c) ELSE Under(c, d)
=============================================================================
