------------------------- MODULE StartupNotification -------------------------
(***************************************************************************)
(* Startup notification: programs announce that they start ("new"), change *)
(* and have started ("remove") with messages that every X client sees, the *)
(* manager's own ones included; it keeps the announced sequences in        *)
(* sn_waits until they end or 20 seconds have passed, and tells Lua.       *)
(*                                                                         *)
(* Sources: spawn.c, lib/awful/startup_notification.lua, lib/awful/        *)
(* spawn.lua and the check of the Lua stack in awesome.c. The library      *)
(* libstartup-notification is external: it drops messages about sequences  *)
(* it does not know, and frees one when nobody holds a reference.          *)
(***************************************************************************)
EXTENDS Naturals, Sequences, SequencesExt, FiniteSets

CONSTANTS
    Ids,         \* the startup ids; each is announced at most once
    NoId,        \* a client without _NET_STARTUP_ID
    Connected,   \* the spawn signals that Lua is connected to
    MaxQueue     \* bound: undelivered messages

Signals == {"initiated", "change", "completed", "timeout"}

ASSUME StartupAssumption ==
    /\ NoId \notin Ids
    /\ Connected \subseteq Signals
    /\ MaxQueue \in Nat \ {0}

VARIABLES
    queue,      \* the messages that the manager has not read yet
    announced,  \* the ids whose "new" was sent
    ended,      \* the ids whose "remove" was sent
    known,      \* the library's sequences
    refs,       \* the references to each sequence
    waits,      \* sn_waits
    timers,     \* the sequences with a pending spawn_monitor_timeout
    launching,  \* the contexts with a pending spawn_launchee_timeout
    starting,   \* Lua: app_starting, the programs the busy cursor stands for
    buffer,     \* Lua: the keys of spawn.snid_buffer
    leftover    \* values left on the Lua stack since it was checked

startupVars == <<queue, announced, ended, known, refs, waits, timers, launching, starting, buffer, leftover>>

Message == [type : {"new", "change", "remove"}, id : Ids]
Waiting == ToSet(waits)

StartupTypeOK ==
    /\ queue \in Seq(Message)
    /\ announced \subseteq Ids
    /\ ended \subseteq announced
    /\ known \subseteq announced
    /\ refs \in [Ids -> 0..3]
    /\ waits \in Seq(Ids)
    /\ timers \subseteq announced
    /\ launching \subseteq announced
    /\ starting \subseteq announced
    /\ buffer \subseteq announced
    /\ leftover \in Nat

-----------------------------------------------------------------------------
(* Other programs, and the manager as a launcher *)

Send(msgs) == Len(queue) + Len(msgs) <= MaxQueue /\ queue' = queue \o msgs
New(s)    == [type |-> "new", id |-> s]
Change(s) == [type |-> "change", id |-> s]
End(s) == [type |-> "remove", id |-> s]

ManagerFrame == UNCHANGED <<known, refs, waits, timers, starting, leftover>>

\* awful.spawn keeps the rules for the startup id that luaA_spawn returned
KeepRules(s, fails) == buffer' = IF fails THEN buffer ELSE buffer \cup {s}

\* luaA_spawn with startup notification, called by awful.spawn with rules. A
\* program that cannot be run ends its sequence at once; the timer of the
\* context stays.
Launch(s, fails) ==
    /\ s \notin announced
    /\ Send(IF fails THEN <<New(s), End(s)>> ELSE <<New(s)>>)
    /\ announced' = announced \cup {s}
    /\ ended' = IF fails THEN ended \cup {s} ELSE ended
    /\ launching' = launching \cup {s}
    /\ KeepRules(s, fails)
    /\ ManagerFrame

\* spawn_launchee_timeout; a context that was completed sends nothing more
LaunchTimeout(s) ==
    /\ s \in launching
    /\ launching' = launching \ {s}
    /\ IF s \in ended THEN UNCHANGED <<queue, ended>>
       ELSE Send(<<End(s)>>) /\ ended' = ended \cup {s}
    /\ UNCHANGED <<announced, buffer>>
    /\ ManagerFrame

\* another launcher announces a program
Announce(s) ==
    /\ s \notin announced
    /\ Send(<<New(s)>>)
    /\ announced' = announced \cup {s}
    /\ UNCHANGED <<ended, launching, buffer>>
    /\ ManagerFrame

\* a program changes or ends its sequence
Progress(s) ==
    /\ s \in announced \ ended
    /\ \/ Send(<<Change(s)>>) /\ UNCHANGED ended
       \/ Send(<<End(s)>>) /\ ended' = ended \cup {s}
    /\ UNCHANGED <<announced, launching, buffer>>
    /\ ManagerFrame

-----------------------------------------------------------------------------
(* spawn_monitor_event *)

HeadIs(type) == queue # <<>> /\ Head(queue).type = type

\* mutant: the reference of the timeout is missing
OneReference(s) == refs' = [refs EXCEPT ![s] = 2]

\* the library's reference, one for sn_waits and one for the timeout
TakeReferences(s) == refs' = [refs EXCEPT ![s] = 3]

\* mutant: the sequence is not taken out of sn_waits
ForgetNothing(s, held) == UNCHANGED waits /\ refs' = [refs EXCEPT ![s] = @ - held]

\* spawn_sequence_remove, when held other references go away as well
SequenceRemove(s, held) ==
    /\ waits' = IF s \in Waiting THEN RemoveAt(waits, CHOOSE i \in DOMAIN waits : waits[i] = s) ELSE waits
    /\ refs' = [refs EXCEPT ![s] = @ - held - (IF s \in Waiting THEN 1 ELSE 0)]

\* the table of the signal is popped only when somebody is connected
EmitAndPop(signal) == leftover' = IF signal \in Connected THEN leftover ELSE leftover + 1

\* awful.startup_notification: register_hook and unregister_hook
RegisterHook(s) == starting' = IF "initiated" \in Connected THEN starting \cup {s} ELSE starting
UnregisterHook(signal, s) == starting' = IF signal \in Connected THEN starting \ {s} ELSE starting

\* SN_MONITOR_EVENT_INITIATED
HandleNew ==
    /\ HeadIs("new")
    /\ LET s == Head(queue).id
       IN  /\ known' = known \cup {s}
           /\ TakeReferences(s)
           /\ waits' = Append(waits, s)
           /\ timers' = timers \cup {s}
           /\ RegisterHook(s)
    /\ EmitAndPop("initiated")
    /\ queue' = Tail(queue)
    /\ UNCHANGED <<announced, ended, launching, buffer>>

\* SN_MONITOR_EVENT_CHANGED
HandleChange ==
    /\ HeadIs("change")
    /\ queue' = Tail(queue)
    /\ IF Head(queue).id \in known THEN EmitAndPop("change") ELSE UNCHANGED leftover
    /\ UNCHANGED <<announced, ended, known, refs, waits, timers, launching, starting, buffer>>

\* SN_MONITOR_EVENT_COMPLETED; the library then lets go of the sequence
HandleRemove ==
    /\ HeadIs("remove")
    /\ queue' = Tail(queue)
    /\ LET s == Head(queue).id
       IN  IF s \in known
           THEN /\ SequenceRemove(s, 1)
                /\ known' = known \ {s}
                /\ UnregisterHook("completed", s)
                /\ EmitAndPop("completed")
           ELSE UNCHANGED <<known, refs, waits, starting, leftover>>
    /\ UNCHANGED <<announced, ended, timers, launching, buffer>>

\* spawn.on_snid_cancel gets the table and looks the table itself up
SnidCancel(s) == buffer' = buffer

\* spawn_monitor_timeout, 20 seconds after "new"
WaitTimeout(s) ==
    /\ s \in timers
    /\ timers' = timers \ {s}
    /\ SequenceRemove(s, 1)
    /\ IF s \in Waiting
       THEN /\ UnregisterHook("timeout", s)
            /\ SnidCancel(s)
       ELSE UNCHANGED <<starting, buffer>>
    /\ UNCHANGED <<queue, announced, ended, known, launching, leftover>>

-----------------------------------------------------------------------------
(* A client is managed *)

\* spawn_start_notify: the first sequence whose id differs from the client's,
\* or whose class or binary is the client's (C)
Found(s, id, C) == s # id \/ s \in C
Notified(i, id, C) == Found(waits[i], id, C) /\ \A j \in 1..(i - 1) : ~Found(waits[j], id, C)

\* client_manage of a client with the startup id id: the sequence that was
\* found is completed, and awful applies the rules kept for id
Manage(id, C) ==
    /\ id \in announced \cup {NoId}
    /\ IF \A i \in DOMAIN waits : Notified(i, id, C) => waits[i] \in ended
       THEN UNCHANGED <<queue, ended>>
       ELSE \E i \in DOMAIN waits :
                /\ Notified(i, id, C)
                /\ Send(<<End(waits[i])>>)
                /\ ended' = ended \cup {waits[i]}
    /\ buffer' = buffer \ {id}
    /\ UNCHANGED <<announced, launching>>
    /\ ManagerFrame

\* a_glib_poll: "Something was left on the Lua stack, this is a bug!"
Poll ==
    /\ leftover > 0
    /\ leftover' = 0
    /\ UNCHANGED <<queue, announced, ended, known, refs, waits, timers, launching, starting, buffer>>

-----------------------------------------------------------------------------
StartupInit ==
    /\ queue = <<>> /\ announced = {} /\ ended = {} /\ known = {}
    /\ refs = [s \in Ids |-> 0]
    /\ waits = <<>> /\ timers = {} /\ launching = {} /\ starting = {} /\ buffer = {}
    /\ leftover = 0

HandleEvent == leftover = 0 /\ (HandleNew \/ HandleChange \/ HandleRemove)
Timeout == \E s \in Ids : WaitTimeout(s)

StartupNext ==
    \/ \E s \in Ids, fails \in BOOLEAN : Launch(s, fails)
    \/ \E s \in Ids : LaunchTimeout(s) \/ Announce(s) \/ Progress(s)
    \/ HandleEvent
    \/ Timeout
    \/ \E id \in Ids \cup {NoId}, C \in SUBSET Ids : Manage(id, C)
    \/ Poll

\* timers expire and the loop turns; the programs promise nothing
StartupFairness == WF_startupVars(HandleEvent) /\ WF_startupVars(Poll) /\ \A s \in Ids : WF_startupVars(WaitTimeout(s))

StartupSpec == StartupInit /\ [][StartupNext]_startupVars
StartupFairSpec == StartupSpec /\ StartupFairness

-----------------------------------------------------------------------------
(* Properties *)

Held(b) == IF b THEN 1 ELSE 0

\* Whatever comes first, the end of a sequence or its timeout, nobody holds a
\* sequence that was freed, and none is kept for ever: the references are the
\* library's, that of sn_waits and that of the timeout.
ReferencesExact ==
    /\ StartupTypeOK
    /\ \A s \in Ids : refs[s] = Held(s \in known) + Held(s \in Waiting) + Held(s \in timers)

\* The programs for which Lua shows the busy cursor are the ones in sn_waits,
\* when awful.startup_notification is connected to the signals it needs.
CursorAgrees == starting = Waiting

\* spawn.c:157, spawn_monitor_event: "Add a timeout function so we do not wait
\* for this event to complete for ever": no program, however it behaves, stays
\* in sn_waits.
NoEndlessWait == \A s \in Ids : (s \in Waiting) ~> (s \notin Waiting)

\* spawn.c:236, spawn_start_notify: "Tell the spawn module that an app has been
\* started": the sequence that is completed for a client with a startup id is
\* the one with that id.
OwnSequenceCompleted ==
    [][\A s \in Waiting \ ended : Manage(s, {}) => s \in ended']_startupVars
=============================================================================
