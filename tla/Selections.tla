----------------------------- MODULE Selections -----------------------------
(***************************************************************************)
(* X selections (the clipboard): Lua owns one with a selection_acquire     *)
(* object and answers each request with a selection_transfer object; it    *)
(* asks for one with a selection_getter object. Data too long for one      *)
(* property, or not known in full, goes in pieces (INCR): the owner writes *)
(* a piece when the requestor has deleted the one before.                  *)
(*                                                                         *)
(* Sources: objects/selection_acquire.c, objects/selection_transfer.c,     *)
(* objects/selection_getter.c, property.c. One selection is modelled: the  *)
(* objects of different selections share nothing. The X server and its     *)
(* other clients follow the ICCCM. A handler is one step: the manager has  *)
(* one thread, and Lua answers the "request" and "continue" signals inside *)
(* of the handlers that emit them.                                         *)
(***************************************************************************)
EXTENDS Naturals, Sequences, FiniteSets

CONSTANTS
    Offers,     \* the windows of the selection_acquire objects Lua may make
    Own,        \* the conversions Lua asks for, by a selection_getter each
    Outside,    \* the conversions other clients ask for
    WindowOf,   \* the window of each requestor
    Nobody,     \* XCB_NONE
    Other,      \* some window of another client
    MaxUnits,   \* bound: the units of data in a conversion
    Env         \* which optional behaviours are present

Requests == Own \cup Outside

\* "abandon"          other clients' windows go away in the middle
\* "own_incremental"  Lua sends data in pieces to its own getters
Behaviours == {"abandon", "own_incremental"}

ASSUME SelectionAssumption ==
    /\ Nobody \notin Offers
    /\ Other \notin Offers \cup {Nobody}
    /\ Own \cap Outside = {}
    /\ DOMAIN WindowOf = Requests
    /\ \A r \in Own, o \in Requests : r # o => WindowOf[r] # WindowOf[o]
    /\ MaxUnits \in Nat
    /\ Env \subseteq Behaviours

VARIABLES
    xowner,     \* X: the window that owns the selection
    acquired,   \* the registered selection_acquire object, by its window
    made,       \* the selection_acquire objects made so far
    server,     \* who was asked for the conversion
    transfer,   \* the state of the transfer, ours or the other client's
    supplied,   \* the units given to the transfer so far
    written,    \* the units the transfer has written
    more,       \* selection_transfer_t.more_data
    prop,       \* X: the property of the conversion
    watched,    \* X: windows whose property changes we are told of
    told,       \* X: the SelectionNotify on its way to another client
    asker,      \* the state of the requestor: registered getter or client
    got,        \* the units the requestor received; 0 stands for a stray one
    events      \* X: events sent to the manager and not handled yet

ownerVars    == <<xowner, acquired, made>>
transferVars == <<server, transfer, supplied, written, more>>
askerVars    == <<told, asker, got>>
vars == <<ownerVars, transferVars, prop, watched, askerVars, events>>

States == {"none", "asked", "sending", "done"}
NoProp == [kind |-> "none", unit |-> 0]
Incr   == [kind |-> "INCR", unit |-> 0]
Data(u) == [kind |-> "data", unit |-> u]    \* Data(0) has length zero

Event ==
    [type : {"Clear"}, win : Offers]
    \cup [type : {"Request"}, req : Requests, win : Offers]
    \cup [type : {"Notify"}, req : Own, ok : BOOLEAN]
    \cup [type : {"NewValue"}, req : Own]
    \cup [type : {"Deleted"}, req : Requests]

TypeOK ==
    /\ xowner \in Offers \cup {Nobody, Other}
    /\ acquired \in made \cup {Nobody}
    /\ made \subseteq Offers
    /\ server \in [Requests -> {"none", "ours", "other"}]
    /\ transfer \in [Requests -> States]
    /\ supplied \in [Requests -> 0..MaxUnits]
    /\ written \in [Requests -> Nat]
    /\ \A r \in Requests : written[r] <= supplied[r]
    /\ more \subseteq Requests
    /\ prop \in [Requests -> [kind : {"none", "INCR", "data"}, unit : 0..MaxUnits]]
    /\ watched \subseteq {WindowOf[r] : r \in Requests}
    /\ told \in [Outside -> {"none", "granted", "refused"}]
    /\ asker \in [Requests -> {"idle", "asked", "reading", "ended", "gone"}]
    /\ got \in [Requests -> Seq(0..MaxUnits)]
    /\ events \in Seq(Event)

-----------------------------------------------------------------------------
(* The X server *)

\* a property gets a value, unless its window is destroyed
Write(r, p) == prop' = IF asker[r] = "gone" THEN prop ELSE [prop EXCEPT ![r] = p]

\* the queue after r's property gets a value, when the windows W are watched.
\* Only the atom that the getters use has a handler for new values.
AfterWrite(queue, r, W) ==
    IF r \in Own /\ WindowOf[r] \in W
    THEN Append(queue, [type |-> "NewValue", req |-> r]) ELSE queue

\* the queue after r's property is deleted; nothing happens if there is none
AfterDelete(queue, r, W) ==
    IF prop[r] # NoProp /\ WindowOf[r] \in W
    THEN Append(queue, [type |-> "Deleted", req |-> r]) ELSE queue

\* the SelectionNotify that ends or begins the conversion r
Answer(queue, r, ok) ==
    IF r \in Own
    THEN told' = told /\ events' = Append(queue, [type |-> "Notify", req |-> r, ok |-> ok])
    ELSE /\ told' = IF asker[r] = "gone" THEN told
                    ELSE [told EXCEPT ![r] = IF ok THEN "granted" ELSE "refused"]
         /\ events' = queue

\* xcb_convert_selection by whoever wants r
Ask(r) ==
    /\ asker[r] = "idle"
    /\ asker' = [asker EXCEPT ![r] = "asked"]
    /\ \/ /\ xowner \in Offers
          /\ server' = [server EXCEPT ![r] = "ours"]
          /\ events' = Append(events, [type |-> "Request", req |-> r, win |-> xowner])
          /\ UNCHANGED <<told, transfer>>
       \/ /\ xowner = Other /\ r \in Own
          /\ server' = [server EXCEPT ![r] = "other"]
          /\ transfer' = [transfer EXCEPT ![r] = "asked"]
          /\ UNCHANGED <<told, events>>
       \/ /\ xowner = Nobody
          /\ transfer' = [transfer EXCEPT ![r] = "done"]
          /\ Answer(events, r, FALSE)
          /\ UNCHANGED server
    /\ UNCHANGED <<ownerVars, supplied, written, more, prop, watched, got>>

-----------------------------------------------------------------------------
(* Owning the selection: selection_acquire.c *)

\* luaA_selection_acquire_new. The server ignores the request when another
\* client has become the owner after globalconf.timestamp; then the window is
\* destroyed again. Otherwise the object that was registered is released: X11
\* does not tell us of our own changes to the selection.
Acquire(w) ==
    /\ w \notin made
    /\ made' = made \cup {w}
    /\ \/ /\ acquired' = w
          /\ xowner' = w
       \/ /\ xowner \in {Other, Nobody}
          /\ UNCHANGED <<xowner, acquired>>
    /\ UNCHANGED <<transferVars, prop, watched, askerVars, events>>

\* mutant: the window of the released object stays
KeepWindow(w) == xowner

\* the window is destroyed, which also releases the selection in X11
DestroyWindow(w) == IF xowner = w THEN Nobody ELSE xowner

\* selection_release
Release(w) == acquired' = Nobody /\ xowner' = DestroyWindow(w) /\ UNCHANGED made

\* luaA_selection_acquire_release
LuaRelease ==
    /\ acquired # Nobody
    /\ Release(acquired)
    /\ UNCHANGED <<transferVars, prop, watched, askerVars, events>>

HeadIs(type) == events # <<>> /\ Head(events).type = type
Rest == Tail(events)

\* mutant: any SelectionClear releases what is registered
ReleaseAny(w) == IF acquired # Nobody THEN Release(acquired) ELSE UNCHANGED ownerVars

\* the object of the window that lost the selection, if it is still registered
ReleaseOwner(w) == IF acquired = w THEN Release(w) ELSE UNCHANGED ownerVars

\* selection_handle_selectionclear
HandleClear ==
    /\ HeadIs("Clear")
    /\ ReleaseOwner(Head(events).win)
    /\ events' = Rest
    /\ UNCHANGED <<transferVars, prop, watched, askerVars>>

-----------------------------------------------------------------------------
(* Answering requests: selection_transfer.c *)

\* selection_transfer_reject
Reject(r) ==
    /\ transfer' = [transfer EXCEPT ![r] = "done"]
    /\ Answer(Rest, r, FALSE)
    /\ UNCHANGED <<supplied, written, more, prop, watched>>

\* luaA_selection_transfer_send with n < 2 units, all in one property
SendWhole(r, n) ==
    /\ transfer' = [transfer EXCEPT ![r] = "done"]
    /\ supplied' = [supplied EXCEPT ![r] = n]
    /\ written' = [written EXCEPT ![r] = n]
    /\ Write(r, Data(n))
    /\ Answer(AfterWrite(Rest, r, watched), r, TRUE)
    /\ UNCHANGED <<more, watched>>

\* mutant: nobody asks to be told of the deletions
NotWatching(r) == watched

\* xcb_change_window_attributes, unless the window is destroyed
Watch(r) == IF asker[r] = "gone" THEN watched ELSE watched \cup {WindowOf[r]}

\* luaA_selection_transfer_send: the data is too long, or Lua has more of it
SendIncremental(r, n, cont) ==
    /\ r \in Own => "own_incremental" \in Env
    /\ transfer' = [transfer EXCEPT ![r] = "sending"]
    /\ supplied' = [supplied EXCEPT ![r] = n]
    /\ more' = IF cont THEN more \cup {r} ELSE more
    /\ Write(r, Incr)
    /\ watched' = Watch(r)
    /\ written' = [written EXCEPT ![r] = 0]
    /\ Answer(AfterWrite(Rest, r, watched'), r, TRUE)

\* selection_handle_selectionrequest, selection_transfer_begin and what Lua
\* does in the "request" signal; a transfer that Lua did nothing with is rejected
HandleRequest ==
    /\ HeadIs("Request")
    /\ LET r == Head(events).req IN
        \/ Reject(r)
        \/ /\ acquired = Head(events).win
           /\ \/ \E n \in 0..1 : n <= MaxUnits /\ SendWhole(r, n)
              \/ \E n \in 0..MaxUnits, cont \in BOOLEAN : SendIncremental(r, n, cont)
    /\ UNCHANGED <<ownerVars, server, asker, got>>

\* write the next of s units
WriteNext(r, s) ==
    /\ supplied' = [supplied EXCEPT ![r] = s]
    /\ written' = [written EXCEPT ![r] = @ + 1]
    /\ Write(r, Data(written[r] + 1))
    /\ events' = AfterWrite(Rest, r, watched)
    /\ UNCHANGED <<transfer, watched>>

\* mutant: the requestor is watched for ever
KeepWatching(r) == watched

\* xcb_change_window_attributes with no event at all
Unwatch(r) == watched \ {WindowOf[r]}

\* the zero-length property that ends a transfer in pieces
EndTransfer(r) ==
    /\ transfer' = [transfer EXCEPT ![r] = "done"]
    /\ Write(r, Data(0))
    /\ watched' = Unwatch(r)
    /\ events' = AfterWrite(Rest, r, watched)
    /\ more' = more \ {r}
    /\ UNCHANGED <<supplied, written>>

\* mutant: one piece too many
Overrun(r) == written[r] <= supplied[r]

\* the data given is not used up
Unwritten(r) == written[r] < supplied[r]

\* transfer_continue_incremental, with the "continue" signal: Lua gives at
\* least one unit and says whether more will follow, or there is no more
HandleDeleted ==
    /\ HeadIs("Deleted")
    /\ LET r == Head(events).req IN
        \/ /\ server[r] = "ours" /\ transfer[r] = "sending"
           /\ \/ Unwritten(r) /\ WriteNext(r, supplied[r]) /\ UNCHANGED more
              \/ /\ ~Unwritten(r)
                 /\ r \in more
                 /\ \E s \in (supplied[r] + 1)..MaxUnits, cont \in BOOLEAN :
                        /\ WriteNext(r, s)
                        /\ more' = IF cont THEN more ELSE more \ {r}
              \/ ~Unwritten(r) /\ EndTransfer(r)
        \/ /\ ~(server[r] = "ours" /\ transfer[r] = "sending")
           /\ events' = Rest
           /\ UNCHANGED <<transfer, supplied, written, more, prop, watched>>
    /\ UNCHANGED <<ownerVars, server, askerVars>>

-----------------------------------------------------------------------------
(* Asking for the selection: selection_getter.c *)

\* what a requestor takes from a value it reads: an INCR property has a value,
\* the estimated size, that is no unit of the data
Taken(r, p) == IF p.kind = "data" /\ p.unit = 0 THEN got[r] ELSE Append(got[r], p.unit)

\* property_handle_awesome_selection_atom: read and delete; an empty value,
\* or none at all, is the end
HandleNewValue ==
    /\ HeadIs("NewValue")
    /\ LET r == Head(events).req
           p == prop[r]
       IN  IF asker[r] = "asked"
           THEN /\ prop' = [prop EXCEPT ![r] = NoProp]
                /\ events' = AfterDelete(Rest, r, watched)
                /\ IF p \in {NoProp, Data(0)}
                   THEN asker' = [asker EXCEPT ![r] = "ended"] /\ UNCHANGED got
                   ELSE got' = [got EXCEPT ![r] = Taken(r, p)] /\ UNCHANGED asker
           ELSE events' = Rest /\ UNCHANGED <<prop, asker, got>>
    /\ UNCHANGED <<ownerVars, transferVars, watched, told>>

\* mutant: the INCR property ends the transfer like any other value
EndsAtOnce(p) == TRUE

\* the value the SelectionNotify announced is the whole selection
Whole(p) == p.kind # "INCR"

\* event_handle_selectionnotify
HandleNotify ==
    /\ HeadIs("Notify")
    /\ LET r == Head(events).req
           p == prop[r]
       IN  IF asker[r] # "asked"
           THEN events' = Rest /\ UNCHANGED <<prop, asker, got, watched>>
           ELSE IF ~Head(events).ok
           THEN /\ asker' = [asker EXCEPT ![r] = "ended"]
                /\ events' = Rest
                /\ UNCHANGED <<prop, got, watched>>
           ELSE /\ watched' = watched \cup {WindowOf[r]}
                /\ prop' = [prop EXCEPT ![r] = NoProp]
                /\ events' = AfterDelete(Rest, r, watched')
                /\ IF Whole(p)
                   THEN /\ asker' = [asker EXCEPT ![r] = "ended"]
                        /\ got' = IF p.kind = "data" THEN [got EXCEPT ![r] = Taken(r, p)] ELSE got
                   ELSE UNCHANGED <<asker, got>>
    /\ UNCHANGED <<ownerVars, transferVars, told>>

-----------------------------------------------------------------------------
(* The other clients of the X server *)

\* another client becomes the owner; we are told when it takes it from us
OtherTakes ==
    /\ xowner # Other
    /\ xowner' = Other
    /\ events' = IF xowner \in Offers
                 THEN Append(events, [type |-> "Clear", win |-> xowner]) ELSE events
    /\ UNCHANGED <<acquired, made, transferVars, prop, watched, askerVars>>

\* the answer of the other owner to a getter
OtherAnswers(r) ==
    /\ server[r] = "other" /\ transfer[r] = "asked"
    /\ \/ /\ transfer' = [transfer EXCEPT ![r] = "done"]
          /\ Answer(events, r, FALSE)
          /\ UNCHANGED <<supplied, written, prop>>
       \/ \E n \in 0..1 :
            /\ n <= MaxUnits
            /\ transfer' = [transfer EXCEPT ![r] = "done"]
            /\ supplied' = [supplied EXCEPT ![r] = n]
            /\ written' = [written EXCEPT ![r] = n]
            /\ prop' = [prop EXCEPT ![r] = Data(n)]
            /\ Answer(AfterWrite(events, r, watched), r, TRUE)
       \/ \E n \in 0..MaxUnits :
            /\ transfer' = [transfer EXCEPT ![r] = "sending"]
            /\ supplied' = [supplied EXCEPT ![r] = n]
            /\ written' = [written EXCEPT ![r] = 0]
            /\ prop' = [prop EXCEPT ![r] = Incr]
            /\ Answer(AfterWrite(events, r, watched), r, TRUE)
    /\ UNCHANGED <<ownerVars, server, more, watched, asker, got>>

\* its next piece, once the getter has deleted the one before
OtherContinues(r) ==
    /\ server[r] = "other" /\ transfer[r] = "sending"
    /\ prop[r] = NoProp
    /\ IF written[r] < supplied[r]
       THEN /\ written' = [written EXCEPT ![r] = @ + 1]
            /\ prop' = [prop EXCEPT ![r] = Data(written[r] + 1)]
            /\ UNCHANGED transfer
       ELSE /\ transfer' = [transfer EXCEPT ![r] = "done"]
            /\ prop' = [prop EXCEPT ![r] = Data(0)]
            /\ UNCHANGED written
    /\ events' = AfterWrite(events, r, watched)
    /\ UNCHANGED <<ownerVars, server, supplied, more, watched, askerVars>>

\* another client reads what it is told of, and deletes it
ClientReads(r) ==
    LET p == prop[r] IN
    /\ \/ /\ asker[r] = "asked" /\ told[r] = "refused"
          /\ asker' = [asker EXCEPT ![r] = "ended"]
          /\ UNCHANGED <<prop, got, events>>
       \/ /\ \/ asker[r] = "asked" /\ told[r] = "granted"
             \/ asker[r] = "reading" /\ p # NoProp
          /\ prop' = [prop EXCEPT ![r] = NoProp]
          /\ events' = AfterDelete(events, r, watched)
          /\ asker' = [asker EXCEPT ![r] =
                IF p = Incr \/ (asker[r] = "reading" /\ p # Data(0)) THEN "reading" ELSE "ended"]
          /\ got' = IF p.kind = "data" THEN [got EXCEPT ![r] = Taken(r, p)] ELSE got
    /\ told' = [told EXCEPT ![r] = "none"]
    /\ UNCHANGED <<ownerVars, transferVars, watched>>

\* the window of another client is destroyed, with its properties
Abandon(w) ==
    LET gone == {r \in Outside : WindowOf[r] = w} IN
    /\ "abandon" \in Env
    /\ \E r \in gone : asker[r] \in {"asked", "reading"}
    /\ asker' = [r \in Requests |-> IF r \in gone THEN "gone" ELSE asker[r]]
    /\ prop' = [r \in Requests |-> IF r \in gone THEN NoProp ELSE prop[r]]
    /\ told' = [r \in Outside |-> IF r \in gone THEN "none" ELSE told[r]]
    /\ watched' = watched \ {w}
    /\ UNCHANGED <<ownerVars, transferVars, got, events>>

-----------------------------------------------------------------------------
Init ==
    /\ xowner = Nobody /\ acquired = Nobody /\ made = {}
    /\ server = [r \in Requests |-> "none"]
    /\ transfer = [r \in Requests |-> "none"]
    /\ supplied = [r \in Requests |-> 0]
    /\ written = [r \in Requests |-> 0]
    /\ more = {}
    /\ prop = [r \in Requests |-> NoProp]
    /\ watched = {}
    /\ told = [r \in Outside |-> "none"]
    /\ asker = [r \in Requests |-> "idle"]
    /\ got = [r \in Requests |-> <<>>]
    /\ events = <<>>

HandleEvent ==
    HandleClear \/ HandleRequest \/ HandleDeleted \/ HandleNewValue \/ HandleNotify

Others(r) ==
    \/ r \in Own /\ (OtherAnswers(r) \/ OtherContinues(r))
    \/ r \in Outside /\ ClientReads(r)

Next ==
    \/ \E w \in Offers : Acquire(w)
    \/ LuaRelease
    \/ HandleEvent
    \/ OtherTakes
    \/ \E r \in Requests : Ask(r) \/ Others(r)
    \/ \E r \in Outside : Abandon(WindowOf[r])

\* the main loop handles every event; a client goes on with the conversions it
\* takes part in
Fairness == WF_vars(HandleEvent) /\ \A r \in Requests : WF_vars(Others(r))

Spec == Init /\ [][Next]_vars
FairSpec == Spec /\ Fairness

-----------------------------------------------------------------------------
(* Properties *)

Pending == {events[i] : i \in DOMAIN events}

\* Lua believes it owns the selection exactly while it does: the X server sends
\* the requests to the registered object, or its SelectionClear is on its way;
\* no window of a released object keeps the selection.
OwnerRegistered ==
    /\ xowner \in Offers => acquired = xowner
    /\ acquired # Nobody /\ xowner # acquired => [type |-> "Clear", win |-> acquired] \in Pending

\* A SelectionClear may come late: it never takes the selection from an object
\* that got it in the meantime.
LateClearHarmless == [][HandleClear /\ acquired = xowner => UNCHANGED acquired]_vars

\* The manager watches another client's window exactly while it sends pieces to
\* it. (Client windows that ask, and windows that ask twice, are left out: what
\* selection_transfer does to their event mask is in the README.)
WatchedWhileSending ==
    \A r \in Outside :
        WindowOf[r] \in watched <=>
            server[r] = "ours" /\ transfer[r] = "sending" /\ asker[r] # "gone"

\* Pieces and notifications travel by different ways and through Lua: still
\* each requestor gets what the owner offered, in order, nothing twice, nothing
\* missing and no size estimate in between, before it sees the end.
Abstract == INSTANCE Conversion WITH
    offered  <- supplied,
    closed   <- {r \in Requests : \/ transfer[r] = "done"
                                  \/ transfer[r] = "sending" /\ r \notin more},
    received <- got,
    status   <- [r \in Requests |-> IF asker[r] \in {"ended", "gone"} THEN asker[r] ELSE "open"]

Converts == Abstract!Spec

\* Every conversion ends: nobody waits for an answer, a piece or a deletion that
\* does not come, and the transfer leaves the registry that keeps it alive.
ConversionEnds ==
    \A r \in Requests :
        asker[r] = "asked" ~> asker[r] = "gone" \/ (asker[r] = "ended" /\ transfer[r] = "done")

\* selection_getter.c:164, selection_handle_selectionnotify: "Right now we only
\* get an estimate of the size of the data to be transferred, which we ignore."
EstimateIgnored == \A r \in Own : \A i \in DOMAIN got[r] : got[r][i] # 0
=============================================================================
