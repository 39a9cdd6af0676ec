---------------------------- MODULE SpecialLayers ----------------------------
(***************************************************************************)
(* The four setters of a client's special layers. Each of them clears the  *)
(* other three by calling their setters, sets its own flag and emits its   *)
(* signals; a handler of a signal is Lua code, which runs in the middle of *)
(* the setter and may call a setter of the same client again. The pending  *)
(* work of the nested C calls is a list of operations.                     *)
(*                                                                         *)
(* Source: objects/client.c; ewmh.c for the calls.                         *)
(***************************************************************************)
EXTENDS Naturals, Sequences, SequencesExt, FiniteSets

CONSTANTS
    MaxNested,   \* bound: setters called by handlers during one setter
    NoLayer      \* no setter was called yet

Layer == {"below", "above", "ontop", "fullscreen"}

ASSUME LayersAssumption == MaxNested \in Nat /\ NoLayer \notin Layer

VARIABLES
    flags,       \* the layers whose flag is set in client_t
    published,   \* the layers in the window's _NET_WM_STATE
    todo,        \* what the C calls in progress still have to do
    nested,      \* how many setters handlers called since the outermost one began
    called,      \* and which: their layers and values
    request,     \* the outermost call: its layer and value, and the flags before it
    needRestack  \* need_stack_refresh

vars == <<flags, published, todo, nested, called, request, needRestack>>

Call(l, on)   == [op |-> "call", layer |-> l, on |-> on]
Assign(l, on) == [op |-> "assign", layer |-> l, on |-> on]
Emit(l)       == [op |-> "emit", layer |-> l, on |-> TRUE]
Op == [op : {"call", "assign", "emit"}, layer : Layer, on : BOOLEAN]

TypeOK ==
    /\ flags \subseteq Layer
    /\ published \subseteq Layer \ {"ontop"}
    /\ todo \in Seq(Op)
    /\ nested \in 0..MaxNested /\ called \subseteq Layer \X BOOLEAN
    /\ request \in [layer : Layer \cup {NoLayer}, on : BOOLEAN, before : SUBSET Layer]
    /\ needRestack \in BOOLEAN

\* mutant: client_set_ontop does not clear "fullscreen"
ForgetsFullscreen(l) ==
    CASE l = "fullscreen" -> <<"below", "above", "ontop">>
      [] l = "above"      -> <<"below", "ontop", "fullscreen">>
      [] l = "below"      -> <<"above", "ontop", "fullscreen">>
      [] l = "ontop"      -> <<"above", "below">>

\* the setters a setter calls before it sets its own flag, in their order
OtherLayers(l) ==
    CASE l = "fullscreen" -> <<"below", "above", "ontop">>
      [] l = "above"      -> <<"below", "ontop", "fullscreen">>
      [] l = "below"      -> <<"above", "ontop", "fullscreen">>
      [] l = "ontop"      -> <<"above", "below", "fullscreen">>

\* mutant: the signals come before the assignment
EmitFirst(l, on) == <<Emit(l), Assign(l, on)>>

\* the signals of a setter come after the assignment; client_set_fullscreen
\* emits request::geometry and then property::fullscreen
SetAndEmit(l, on) ==
    <<Assign(l, on)>> \o IF l = "fullscreen" THEN <<Emit(l), Emit(l)>> ELSE <<Emit(l)>>

\* what a setter does when the flag does not have the wanted value yet
Body(l, on) ==
    (IF on THEN [i \in DOMAIN OtherLayers(l) |-> Call(OtherLayers(l)[i], FALSE)] ELSE <<>>)
    \o SetAndEmit(l, on)

\* Lua, or an EWMH request of the window, calls a setter
Request(l, on) ==
    /\ todo = <<>>
    /\ todo' = <<Call(l, on)>>
    /\ nested' = 0 /\ called' = {}
    /\ request' = [layer |-> l, on |-> on, before |-> flags]
    /\ UNCHANGED <<flags, published, needRestack>>

\* a setter is entered
Enter ==
    /\ todo # <<>> /\ Head(todo).op = "call"
    /\ LET l == Head(todo).layer
           on == Head(todo).on
       IN  todo' = IF on = (l \in flags) THEN Tail(todo) ELSE Body(l, on) \o Tail(todo)
    /\ UNCHANGED <<flags, published, nested, called, request, needRestack>>

\* the flag itself, and stack_windows
SetFlag ==
    /\ todo # <<>> /\ Head(todo).op = "assign"
    /\ LET l == Head(todo).layer
       IN  flags' = IF Head(todo).on THEN flags \cup {l} ELSE flags \ {l}
    /\ needRestack' = TRUE
    /\ todo' = Tail(todo)
    /\ UNCHANGED <<published, nested, called, request>>

\* mutant: ontop, which has no EWMH state, is published as well
AllFlags == flags

\* ewmh_client_update_hints: the flags that have an EWMH state
PublishedLayers == flags \ {"ontop"}

\* a signal is emitted: the handler of ewmh_init_lua publishes the flags (there
\* is none for property::ontop), then a handler of Lua may call a setter
Handle ==
    /\ todo # <<>> /\ Head(todo).op = "emit"
    /\ published' = IF Head(todo).layer = "ontop" THEN published ELSE PublishedLayers
    /\ \/ todo' = Tail(todo) /\ UNCHANGED <<nested, called>>
       \/ /\ nested < MaxNested
          /\ nested' = nested + 1
          /\ \E l \in Layer, on \in BOOLEAN :
                todo' = <<Call(l, on)>> \o Tail(todo) /\ called' = called \cup {<<l, on>>}
    /\ UNCHANGED <<flags, request, needRestack>>

\* stack_refresh, between two calls
RestackNow ==
    /\ todo = <<>>
    /\ needRestack
    /\ needRestack' = FALSE
    /\ UNCHANGED <<flags, published, todo, nested, called, request>>

Init ==
    /\ flags = {} /\ published = {} /\ todo = <<>> /\ nested = 0 /\ called = {}
    /\ request = [layer |-> NoLayer, on |-> FALSE, before |-> {}]
    /\ needRestack = FALSE

Next == (\E l \in Layer, on \in BOOLEAN : Request(l, on)) \/ Enter \/ SetFlag \/ Handle \/ RestackNow

Spec == Init /\ [][Next]_vars

-----------------------------------------------------------------------------
(* Properties *)

Idle == todo = <<>>

\* what a setter that no handler interferes with leaves
Granted(r) ==
    IF ~r.on THEN r.before \ {r.layer}
    ELSE IF r.layer \in r.before THEN r.before
    ELSE {r.layer}

\* the layers that handlers set meanwhile
SetByHandlers == {c[1] : c \in {d \in called : d[2]}}

\* a handler cleared the layer, or set another one
UndoneByHandler(l) == \E c \in called : IF c[2] THEN c[1] # l ELSE c[1] = l

\* Whatever handlers call in the middle, at the end of a request no layer is set
\* but those it leaves and those that a handler has set meanwhile - the layers from
\* before are gone - and a layer that it should leave is missing only if a handler
\* cleared it or set another one. Without such handlers the request is granted to
\* the letter. It is not said that one layer is left: when a handler sets a second
\* one before the outer setter sets its own, both stay set, and the comment "You can
\* only be part of one of the special layers" (client.c:2639) does not hold.
RequestGranted ==
    Idle /\ request.layer # NoLayer =>
        /\ flags \subseteq Granted(request) \cup SetByHandlers
        /\ \A l \in Granted(request) \ flags : UndoneByHandler(l)

\* The _NET_WM_STATE that clients and panels read agrees with the flags at the
\* end of every call, though each nested setter publishes while the others are
\* not finished.
PublishedAgrees == Idle => published = flags \ {"ontop"}

\* client_set_fullscreen and its like, ewmh_client_update_hints: the layers at the
\* end of a request are those that it and the handlers that it ran into asked for,
\* and applications see the layers that are set.
LayersHold == TypeOK /\ RequestGranted /\ PublishedAgrees
=============================================================================
