-------------------------------- MODULE WmState --------------------------------
(***************************************************************************)
(* The states of a client that applications ask for by _NET_WM_STATE:      *)
(* flags with plain setters, urgency, which Lua may refuse, and maximizing,*)
(* which Lua merges: X has two atoms for it and the manager three flags,   *)
(* and a timer waits for the second atom. Setters emit signals, and their  *)
(* handlers may call setters again, so C calls in progress are a list.     *)
(*                                                                         *)
(* Source: ewmh.c, client_set_maximized_common and client_set_urgent of    *)
(* objects/client.c, merge_maximization and urgent of                      *)
(* lib/awful/permissions/init.lua. The special layers are in SpecialLayers.*)
(***************************************************************************)
EXTENDS Naturals, Sequences, SequencesExt, FiniteSets

CONSTANTS
    Plain,       \* states with a plain setter: "modal", "sticky", "skip_taskbar", "minimized"
    MaxAtoms,    \* bound: messages of the application
    MaxHandlers  \* bound: setters called by handlers while C calls are in progress

ASSUME StateAssumption ==
    /\ IsFiniteSet(Plain) /\ Plain \cap {"H", "V", "urgent"} = {}
    /\ MaxAtoms \in Nat /\ MaxHandlers \in Nat

Maximized == {"H", "V", "both"}   \* maximized_horizontal, maximized_vertical, maximized

VARIABLES
    max,       \* the flags of Maximized that are set
    states,    \* the other states that are set; "urgent" is one of them
    shown,     \* the window's _NET_WM_STATE
    calls,     \* what the C calls in progress still have to do
    handled,   \* setters that handlers called since the list was empty
    looping,   \* globalconf.loop is set
    focused,   \* the client is client.focus
    delayed,   \* c._delayed_max_h and c._delayed_max_v: "nil", "on" or "off"
    timer,     \* "idle", "armed", or "gone" with the client
    asked,     \* what the messages since the timer was armed amount to
    sent       \* messages so far

stateVars == <<max, states, shown, calls, handled, looping, focused, delayed, timer, asked, sent>>

Others == Plain \cup {"urgent"}
Set(w, on)         == [op |-> "set", what |-> w, on |-> on]
Tell(w, was)       == [op |-> "tell", what |-> w, on |-> was]
AskFor(w, how)   == [op |-> "ask", what |-> w, how |-> how]
ChangeOf(w, how)   == [op |-> "change", what |-> w, how |-> how]
GeometryOf         == [op |-> "geometry"]

\* what applications see of the three flags
Seen(m) == {w \in {"H", "V"} : w \in m \/ "both" \in m}

\* ewmh_client_update_hints
PublishedStates == Seen(max) \cup states

StateTypeOK ==
    /\ max \subseteq Maximized /\ states \subseteq Others /\ shown \subseteq {"H", "V"} \cup Others
    /\ \A i \in DOMAIN calls : calls[i].op \in {"set", "tell", "ask", "change", "geometry"}
    /\ handled \in 0..MaxHandlers /\ looping \in BOOLEAN /\ focused \in BOOLEAN
    /\ delayed \in [{"H", "V"} -> {"nil", "on", "off"}]
    /\ timer \in {"idle", "armed", "gone"}
    /\ asked \in [when : {"never", "waiting", "merged"}, want : SUBSET {"H", "V"}, clean : BOOLEAN]
    /\ sent \in 0..MaxAtoms

Now(op) == calls # <<>> /\ Head(calls).op = op
Rest == Tail(calls)

----------------------------------------------------------------------------
(* client_set_maximized_common and the handlers of its signals. *)

\* when both are set during startup, "maximized" is meant
Assumed(m) == IF m = {"H", "V"} /\ ~looping THEN {"both"} ELSE m

Next3(w, on) == Assumed(IF on THEN max \cup {w} ELSE max \ {w})

\* mutant: the third signal is forgotten
TellTwo(before) == <<Tell("H", "H" \in before), Tell("V", "V" \in before)>>

\* the signals, each if its flag is not what it was
Notify(before) == <<Tell("H", "H" \in before), Tell("V", "V" \in before), Tell("both", "both" \in before)>>

SetMax ==
    /\ Now("set")
    /\ LET new == Next3(Head(calls).what, Head(calls).on) IN
       /\ max' = new
       /\ calls' = IF new = max THEN Rest ELSE <<GeometryOf>> \o Notify(max) \o Rest
    /\ UNCHANGED <<states, shown, handled, looping, focused, delayed, timer, asked, sent>>

\* a signal is emitted: the handler of ewmh_init_lua (there is none for
\* request::geometry), and then one of Lua, which may call a setter
Emitted ==
    \/ calls' = Rest /\ UNCHANGED <<handled, asked>>
    \/ /\ handled < MaxHandlers /\ handled' = handled + 1
       /\ \E w \in Maximized, on \in BOOLEAN : calls' = <<Set(w, on)>> \o Rest
       /\ asked' = [asked EXCEPT !.clean = FALSE]

EmitGeometry ==
    /\ Now("geometry") /\ Emitted
    /\ UNCHANGED <<max, states, shown, looping, focused, delayed, timer, sent>>

EmitProperty ==
    /\ Now("tell")
    /\ IF (Head(calls).what \in max) = Head(calls).on
       THEN calls' = Rest /\ UNCHANGED <<shown, handled, asked>>
       ELSE shown' = PublishedStates /\ Emitted
    /\ UNCHANGED <<max, states, looping, focused, delayed, timer, sent>>

----------------------------------------------------------------------------
(* ewmh_process_client_message. *)

How == {"remove", "add", "toggle"}
Wanted(how, is) == how = "add" \/ (how = "toggle" /\ ~is)

\* ewmh_process_state_atom: maximizing is only asked for
Process(w, how) == IF w \in {"H", "V"} THEN AskFor(w, how) ELSE ChangeOf(w, how)

\* one message with an atom, or with two
Message(how, atoms) ==
    /\ calls = <<>> /\ timer # "gone" /\ sent < MaxAtoms /\ sent' = sent + 1
    /\ calls' = [i \in DOMAIN atoms |-> Process(atoms[i], how)]
    /\ handled' = 0
    /\ UNCHANGED <<max, states, shown, looping, focused, delayed, timer, asked>>

\* a plain setter and its signal; request::urgent is refused to the client that
\* has the focus
ChangeState ==
    /\ Now("change")
    /\ LET w == Head(calls).what
           on == Wanted(Head(calls).how, w \in states) IN
       /\ states' = IF w = "urgent" /\ focused THEN states ELSE IF on THEN states \cup {w} ELSE states \ {w}
       /\ shown' = IF states' = states THEN shown ELSE Seen(max) \cup states'
    /\ calls' = Rest
    /\ UNCHANGED <<max, handled, looping, focused, delayed, timer, asked, sent>>

\* mutant: a second toggle forgets the first
DelayedNow(w, how) == IF Wanted(how, w \in Seen(max)) THEN "on" ELSE "off"

\* get_value: a toggle turns what the last message asked for
DelayedValue(w, how) ==
    IF how = "toggle" /\ delayed[w] # "nil" THEN (IF delayed[w] = "on" THEN "off" ELSE "on")
    ELSE IF Wanted(how, w \in Seen(max)) THEN "on" ELSE "off"

\* ewmh_update_maximize and merge_maximization
AskMax ==
    /\ Now("ask")
    /\ LET w == Head(calls).what
           how == Head(calls).how
           base == IF timer = "armed" THEN asked ELSE
                   [when |-> "waiting", want |-> Seen(max), clean |-> Cardinality(max) < 2] IN
       /\ delayed' = [delayed EXCEPT ![w] = DelayedValue(w, how)]
       /\ asked' = [base EXCEPT !.want = IF Wanted(how, w \in @) THEN @ \cup {w} ELSE @ \ {w}]
    /\ timer' = "armed" /\ calls' = Rest
    /\ UNCHANGED <<max, states, shown, handled, looping, focused, sent>>

\* c._delay_maximization
Merge(before, after) ==
    LET partial == <<Set("H", "H" \in after), Set("V", "V" \in after)>> IN
    IF after = {"H", "V"} THEN <<Set("both", TRUE)>>
    ELSE IF before = {"H", "V"}
         THEN <<Set("both", FALSE)>> \o (IF after # {} THEN partial ELSE <<>>)
    ELSE partial

Fire ==
    /\ timer = "armed" /\ looping /\ calls = <<>>
    /\ LET before == Seen(max) IN
       calls' = Merge(before, {w \in {"H", "V"} : delayed[w] = "on" \/ (delayed[w] = "nil" /\ w \in before)})
    /\ delayed' = [w \in {"H", "V"} |-> "nil"] /\ timer' = "idle" /\ handled' = 0
    /\ asked' = [asked EXCEPT !.when = "merged"]
    /\ UNCHANGED <<max, states, shown, looping, focused, sent>>

----------------------------------------------------------------------------
(* Lua, and the life of the client. *)

LuaMax(w, on) ==
    /\ calls = <<>> /\ timer # "gone" /\ on # (w \in max)
    /\ calls' = <<Set(w, on)>> /\ handled' = 0
    /\ asked' = [asked EXCEPT !.clean = FALSE]
    /\ UNCHANGED <<max, states, shown, looping, focused, delayed, timer, sent>>

\* c.urgent = true, and the focus moves: awful clears the urgency of the client
LuaUrgent ==
    /\ calls = <<>> /\ "urgent" \notin states
    /\ states' = states \cup {"urgent"} /\ shown' = Seen(max) \cup states'
    /\ UNCHANGED <<max, calls, handled, looping, focused, delayed, timer, asked, sent>>
FocusClears ==
    /\ calls = <<>> /\ focused' = ~focused
    /\ states' = IF focused THEN states ELSE states \ {"urgent"}
    /\ shown' = IF states' = states THEN shown ELSE Seen(max) \cup states'
    /\ UNCHANGED <<max, calls, handled, looping, delayed, timer, asked, sent>>

StartLoop == ~looping /\ looping' = TRUE /\ UNCHANGED <<max, states, shown, calls, handled, focused, delayed, timer, asked, sent>>

\* the timer asks whether the client is valid
Leave ==
    /\ calls = <<>> /\ timer # "gone" /\ timer' = "gone"
    /\ UNCHANGED <<max, states, shown, calls, handled, looping, focused, delayed, asked, sent>>

\* ewmh_client_check_hints: the _NET_WM_STATE that the window brings along
CheckHints(prop) ==
    LET plain == SetToSeq(prop \ {"H", "V"}) IN
    [i \in DOMAIN plain |-> ChangeOf(plain[i], "add")]
    \o (IF {"H", "V"} \subseteq prop THEN <<Set("both", TRUE)>>
        ELSE IF "H" \in prop THEN <<Set("H", TRUE)>>
        ELSE IF "V" \in prop THEN <<Set("V", TRUE)>> ELSE <<>>)

StateInit ==
    /\ max = {} /\ states = {} /\ handled = 0 /\ looping \in BOOLEAN /\ focused = FALSE
    /\ shown \in SUBSET ({"H", "V"} \cup Others) /\ calls = CheckHints(shown)
    /\ delayed = [w \in {"H", "V"} |-> "nil"] /\ timer = "idle" /\ sent = 0
    /\ asked = [when |-> "never", want |-> {}, clean |-> FALSE]

Atoms == {<<a>> : a \in {"H", "V"} \cup Others} \cup {<<"H", "V">>, <<"V", "H">>, <<"H", "urgent">>}

StateNext ==
    \/ SetMax \/ EmitGeometry \/ EmitProperty \/ ChangeState \/ AskMax \/ Fire
    \/ \E how \in How, a \in Atoms : Message(how, a)
    \/ \E w \in Maximized, on \in BOOLEAN : LuaMax(w, on)
    \/ LuaUrgent \/ FocusClears \/ StartLoop \/ Leave

StateSpec == StateInit /\ [][StateNext]_stateVars

----------------------------------------------------------------------------
(* Properties. *)

\* When no call is in progress, _NET_WM_STATE is what the flags say, whatever
\* handlers of the signals set in between and in whatever order the nested
\* setters told of it; and what the window brought along was taken over
\* (client_set_maximized_common, ewmh_client_update_hints,
\* ewmh_client_check_hints).
StatesPublished == calls = <<>> => shown = PublishedStates

\* An application that sends any messages about the two atoms within the time
\* of the timer gets what they amount to: adding both maximizes, removing one
\* of a maximized client leaves the other, toggling twice changes nothing. This
\* is while Lua does not set the flags itself, and from a client with one of
\* the three flags at most: of two flags, merge_maximization clears only
\* "maximized" (permissions.merge_maximization, ewmh_update_maximize).
MergedAsAsked ==
    asked.when = "merged" /\ asked.clean /\ calls = <<>> => Seen(max) = asked.want

\* ewmh_client_update_hints, merge_maximization: applications see the flags that
\* are set, and what their messages asked for is what happens.
StatesAgree == StateTypeOK /\ StatesPublished /\ MergedAsAsked
=============================================================================
