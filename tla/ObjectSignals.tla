----------------------------- MODULE ObjectSignals -----------------------------
(***************************************************************************)
(* An object that C shares with Lua: its handlers and those of its class,  *)
(* the references that keep handlers and the object alive, emission over a *)
(* snapshot of the handlers, and access to its properties until and after  *)
(* it is collected. A handler is Lua code: while it runs it may connect,   *)
(* disconnect and emit, so emissions nest.                                 *)
(*                                                                         *)
(* Source: common/luaobject.c, luaobject.h, luaclass.c, signal.h, lualib.h *)
(***************************************************************************)
EXTENDS Naturals, Sequences, SequencesExt, FiniteSets

CONSTANTS
    Handler,       \* Lua functions
    Signal,        \* names of signals; Told[s] is the name "s::connected"
    Told,
    MaxNesting,    \* bound: emissions that are in progress
    MaxConnected   \* bound: connections there may be

ASSUME ObjectSignalsAssumption ==
    /\ MaxNesting \in Nat /\ MaxConnected \in Nat
    /\ IsFiniteSet(Signal) /\ Told \in [Signal -> STRING] /\ \A s \in Signal : Told[s] \notin Signal

VARIABLES
    handlers,   \* handlers["object"][s], handlers["class"][s]: sigfuncs in their order
    counts,     \* how often a function is referenced: by the object's environment
                \* table ("object") and by the registry of all objects ("class")
    missing,       \* "BUG: Reference not found" was printed
    frames,     \* the emissions in progress, the innermost one last
    life,       \* the object: valid, invalid (its checker says so) or collected
    held,       \* references of C (registry) and of Lua to the object
    seen        \* how the last access to a property ended

objectVars == <<handlers, counts, missing, frames, life, held, seen>>

Where == {"object", "class"}
Name == Signal \cup {Told[s] : s \in Signal}
Call == [where : Where, sig : Name, snap : Seq(Handler), done : Seq(Handler), then : Seq(Handler)]

ObjectTypeOK ==
    /\ handlers \in [Where -> [Name -> Seq(Handler)]]
    /\ counts \in [Where -> [Handler -> Nat]]
    /\ missing \in BOOLEAN
    /\ frames \in Seq(Call)
    /\ life \in {"valid", "invalid", "collected"}
    /\ held \subseteq {"C", "Lua"}
    /\ seen \in {"nothing", "method", "true", "false", "callback", "miss", "error"}

----------------------------------------------------------------------------
(* References. *)

\* the answer of an access to a property is gone with the next step
Answered == seen' = "nothing"

\* luaA_object_incref
Incref(c, w, h) == [c EXCEPT ![w][h] = @ + 1]

\* mutant: the reference goes whether or not the handler was connected
ForgetAlways(w, s, h) == counts[w][h] > 0

\* signal_disconnect tells whether it found the handler
WasConnected(w, s, h) == h \in ToSet(handlers[w][s])

\* mutant: every connection of the handler is removed
DropAll(l, h) == SelectSeq(l, LAMBDA g : g # h)

\* the first connection of the handler is removed
DropFirst(l, h) == RemoveAt(l, CHOOSE i \in DOMAIN l : l[i] = h /\ \A j \in 1..(i - 1) : l[j] # h)

Connections == {p \in Where \X Name \X (1..MaxConnected) : p[3] \in DOMAIN handlers[p[1]][p[2]]}

Connected(w, s, h) ==
    /\ Cardinality(Connections) < MaxConnected
    /\ handlers' = [handlers EXCEPT ![w][s] = Append(@, h)]
    /\ counts' = Incref(counts, w, h)

\* class.connect_signal("s::connected"): nobody is told of that
Listen(s, h) ==
    /\ Connected("class", Told[s], h)
    /\ UNCHANGED <<missing, frames, life, held>> /\ Answered

\* Lua can reach the object: it holds it, or runs inside a handler of it
Reachable == life # "collected" /\ ("Lua" \in held \/ frames # <<>>)

\* object:connect_signal
Connect(s, h) ==
    /\ Reachable
    /\ Connected("object", s, h)
    /\ UNCHANGED <<missing, frames, life, held>> /\ Answered

\* object:disconnect_signal and class.disconnect_signal; luaA_object_decref
\* prints a warning when there is no reference
Disconnect(w, s, h) ==
    /\ w = "object" => Reachable
    /\ WasConnected(w, s, h)
    /\ handlers' = [handlers EXCEPT ![w][s] = IF h \in ToSet(@) THEN DropFirst(@, h) ELSE @]
    /\ IF counts[w][h] = 0 THEN missing' = TRUE /\ UNCHANGED counts
       ELSE counts' = [counts EXCEPT ![w][h] = @ - 1] /\ UNCHANGED missing
    /\ UNCHANGED <<frames, life, held>> /\ Answered

----------------------------------------------------------------------------
(* Emission. *)

\* mutant: the list is read while the handlers run
RemainingLive(f) == SubSeq(handlers[f.where][f.sig], Len(f.done) + 1, Len(handlers[f.where][f.sig]))

\* all functions were pushed before the first one ran
Remaining(f) == SubSeq(f.snap, Len(f.done) + 1, Len(f.snap))

Begin(w, s, then) == [where |-> w, sig |-> s, snap |-> handlers[w][s], done |-> <<>>, then |-> then]

\* luaA_object_emit_signal; an invalid object emits nothing
Emit(s) ==
    /\ Reachable /\ life = "valid" /\ Len(frames) < MaxNesting
    /\ frames' = Append(frames, Begin("object", s, <<>>))
    /\ UNCHANGED <<handlers, counts, missing, life, held>> /\ Answered

\* class.connect_signal: "s::connected" is emitted before the handler is connected
ClassConnect(s, h) ==
    /\ Len(frames) < MaxNesting
    /\ frames' = Append(frames, Begin("class", Told[s], <<h>>))
    /\ UNCHANGED <<handlers, counts, missing, life, held>> /\ Answered

\* luaA_dofunction: the next handler runs, and the rest does whether or not it fails
CallNext ==
    /\ frames # <<>> /\ Remaining(Last(frames)) # <<>>
    /\ frames' = [frames EXCEPT ![Len(frames)].done = Append(@, Head(Remaining(Last(frames))))]
    /\ UNCHANGED <<handlers, counts, missing, life, held>> /\ Answered

\* the handlers of the object have run: the class emits the signal, for
\* objects that became invalid in the meantime as well
EmitOnClass ==
    /\ frames # <<>> /\ Last(frames).where = "object" /\ Remaining(Last(frames)) = <<>>
    /\ frames' = [frames EXCEPT ![Len(frames)] = Begin("class", @.sig, <<>>)]
    /\ UNCHANGED <<handlers, counts, missing, life, held>> /\ Answered

SignalOf(told) == CHOOSE s \in Signal : Told[s] = told

\* the handlers of the class have run; a new handler is connected now
Finish ==
    /\ frames # <<>> /\ Last(frames).where = "class" /\ Remaining(Last(frames)) = <<>>
    /\ LET f == Last(frames) IN
       IF f.then = <<>> THEN UNCHANGED <<handlers, counts>>
       ELSE Connected("class", SignalOf(f.sig), f.then[1])
    /\ frames' = Front(frames)
    /\ UNCHANGED <<missing, life, held>> /\ Answered

----------------------------------------------------------------------------
(* The life of the object. *)

\* the program is done with it: its checker fails from now on
Invalidate ==
    /\ life = "valid" /\ "C" \in held
    /\ life' = "invalid" /\ held' = held \ {"C"}
    /\ UNCHANGED <<handlers, counts, missing, frames>> /\ Answered

\* Lua drops its last reference, or gets one as the argument of a handler
LuaDrops == "Lua" \in held /\ held' = held \ {"Lua"} /\ UNCHANGED <<handlers, counts, missing, frames, life>> /\ Answered
LuaKeeps == Reachable /\ held' = held \cup {"Lua"} /\ UNCHANGED <<handlers, counts, missing, frames, life>> /\ Answered

\* luaA_class_gc. An object that is the argument of a running handler is on
\* the stack. The environment table goes with the object.
Collect ==
    /\ life # "collected" /\ held = {} /\ frames = <<>>
    /\ life' = "collected"
    /\ handlers' = [handlers EXCEPT !["object"] = [s \in Name |-> <<>>]]
    /\ counts' = [counts EXCEPT !["object"] = [h \in Handler |-> 0]]
    /\ UNCHANGED <<missing, frames, held>> /\ Answered

\* luaA_checkudata
Checked == IF life = "valid" THEN "callback" ELSE "error"

\* luaA_usemetatable: a method, or "valid", which alone a collected object
\* answers with the metatable that it got
Answer(kind) ==
    CASE kind = "valid"                          -> IF life = "valid" THEN "true" ELSE "false"
      [] kind # "valid" /\ life = "collected"    -> "error"
      [] kind = "method" /\ life # "collected"   -> "method"
      [] OTHER                                   -> "nothing"

\* luaA_class_index, luaA_class_newindex: then a property, with or without a
\* callback, or an unknown name, with or without a handler for those
Access(kind, handled) ==
    /\ seen = "nothing" /\ frames = <<>>
    /\ seen' = CASE Answer(kind) # "nothing"                          -> Answer(kind)
                 [] Answer(kind) = "nothing" /\ kind = "property"      -> IF handled THEN Checked ELSE "nothing"
                 [] Answer(kind) = "nothing" /\ kind = "unknown"       -> IF handled THEN "miss" ELSE Checked
    /\ UNCHANGED <<handlers, counts, missing, frames, life, held>>

ObjectInit ==
    /\ handlers = [w \in Where |-> [s \in Name |-> <<>>]]
    /\ counts = [w \in Where |-> [h \in Handler |-> 0]]
    /\ missing = FALSE /\ frames = <<>> /\ life = "valid" /\ held = {"C", "Lua"} /\ seen = "nothing"

ObjectNext ==
    \/ \E s \in Signal, h \in Handler : Connect(s, h) \/ ClassConnect(s, h) \/ Listen(s, h)
    \/ \E w \in Where, s \in Name, h \in Handler : Disconnect(w, s, h)
    \/ \E s \in Signal : Emit(s)
    \/ CallNext \/ EmitOnClass \/ Finish
    \/ Invalidate \/ LuaDrops \/ LuaKeeps \/ Collect
    \/ \E k \in {"method", "valid", "property", "unknown"}, b \in BOOLEAN : Access(k, b)

ObjectSpec == ObjectInit /\ [][ObjectNext]_objectVars

----------------------------------------------------------------------------
(* Properties. *)

\* where a function is among the handlers
Spots(lists, h) ==
    {p \in Name \X (1..MaxConnected) : p[2] \in DOMAIN lists[p[1]] /\ lists[p[1]][p[2]] = h}
Times(w, h) == Cardinality(Spots(handlers[w], h))

\* A handler is referenced once for every connection of it, neither a
\* reference too few, which lets Lua collect a function that C will call, nor
\* one too many; in the middle of emissions too (signal_connect,
\* signal_disconnect, luaA_object_incref and decref).
ReferencedWhileConnected ==
    /\ \A w \in Where, h \in Handler : counts[w][h] = Times(w, h)
    /\ ~missing

\* An emission calls the handlers that were connected when it began, each
\* once and in their order, whatever the handlers before connect, disconnect
\* and emit; the object is not collected while its handlers run
\* (luaA_object_emit_signal, signal_object_emit).
SnapshotCalled ==
    \A i \in DOMAIN frames :
        /\ IsPrefix(frames[i].done, frames[i].snap)
        /\ Remaining(frames[i]) = <<>> => frames[i].done = frames[i].snap

\* signal.h, luaobject.c: a function is referenced once for each connection, and
\* an emission calls the handlers it began with.
SignalsKept == ObjectTypeOK /\ ReferencedWhileConnected /\ SnapshotCalled
=============================================================================
