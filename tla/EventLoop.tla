------------------------------ MODULE EventLoop ------------------------------
(***************************************************************************)
(* The main loop and the events of the pointer. The X server executes the  *)
(* manager's requests later and in order, and every event carries the      *)
(* number of the last request that was executed before it. The loop does   *)
(* the deferred work, sleeps until there is something to do, handles the   *)
(* events - only the last one of several motions - and runs callbacks.     *)
(* Moving windows makes the server report that the pointer entered or left *)
(* them; those events are told from the user's by their numbers.           *)
(*                                                                         *)
(* Sources: awesome.c, event.c, objects/client.c. libxcb is external.      *)
(***************************************************************************)
EXTENDS Naturals, Integers, Sequences, SequencesExt, FiniteSets, FiniteSetsExt

CONSTANTS
    Modulus,      \* 2^32 in the program: request numbers wrap around
    First,        \* the number of the last request before the run
    MaxRequests,  \* bound: requests in the run
    MaxUser,      \* bound: events that the user causes
    NoEvent       \* NULL

ASSUME LoopAssumption ==
    /\ Modulus \in Nat \ {0} /\ First \in Nat
    /\ MaxRequests \in Nat /\ 2 * MaxRequests < Modulus - 2
    /\ MaxUser \in Nat

VARIABLES
    phase,     \* what the loop does next: refresh, poll, sleep, check, dispatch
    toMove,     \* a refresh has windows to move
    sent,      \* the number of the last request
    wire,      \* requests that the server has not executed yet
    done,      \* the number of the last one it has executed
    socket,    \* events that the server sent and xcb has not read yet
    xcbq,      \* events that xcb has read, as it does when it waits for a reply
    pending,   \* pending_event
    mouse,     \* the motion that a_xcb_check holds back
    ranges,    \* ignore_enter_leave_events
    allRanges,     \* every range there ever was
    user,      \* how many events the user has caused
    motions,   \* which of them are motions
    position,  \* the motion that was handled last
    handled,   \* the other events that were handled
    ignored    \* the ones that should_ignore dropped

xvars    == <<wire, done, socket, user, motions>>
loopvars == <<phase, toMove, sent, xcbq, pending, mouse, ranges, allRanges>>
seenvars == <<position, handled, ignored>>
vars     == <<xvars, loopvars, seenvars>>

\* stamp: the how-manieth event of the user it is, 0 when moving windows caused it
Event == [kind : {"motion", "crossing", "button", "other"}, n : Nat, stamp : Nat]
Request == [n : Nat, moves : BOOLEAN]

ASSUME NoEventAssumption == NoEvent \notin Event

TypeOK ==
    /\ phase \in {"refresh", "poll", "sleep", "check", "dispatch"}
    /\ toMove \in BOOLEAN
    /\ sent \in Nat /\ done \in First..sent
    /\ wire \in Seq(Request)
    /\ socket \in Seq(Event) /\ xcbq \in Seq(Event)
    /\ pending \in Event \cup {NoEvent} /\ mouse \in Event \cup {NoEvent}
    /\ ranges \in Seq(Nat \X Nat)
    /\ allRanges \subseteq Nat \X Nat
    /\ user \in 0..MaxUser /\ motions \subseteq 1..user /\ position \in motions \cup {0}
    /\ handled \subseteq Event /\ ignored \subseteq Event

-----------------------------------------------------------------------------
(* The user and the X server *)

\* the user moves the pointer, also into another window, or presses a button;
\* "other" are events that have nothing to do with the pointer
UserEvent(kind) ==
    /\ user < MaxUser
    /\ user' = user + 1
    /\ motions' = IF kind = "motion" THEN motions \cup {user + 1} ELSE motions
    /\ socket' = Append(socket, [kind |-> kind, n |-> done, stamp |-> user + 1])
    /\ UNCHANGED <<wire, done, loopvars, seenvars>>

\* windows that move may come to lie under the pointer
Serve ==
    /\ wire # <<>>
    /\ wire' = Tail(wire)
    /\ done' = Head(wire).n
    /\ \/ UNCHANGED socket
       \/ /\ Head(wire).moves
          /\ socket' = Append(socket, [kind |-> "crossing", n |-> Head(wire).n, stamp |-> 0])
    /\ UNCHANGED <<user, motions, loopvars, seenvars>>

-----------------------------------------------------------------------------
(* Requests and their numbers *)

\* xcb gives no request the number 0, which means an error
Successor(n) == IF (n + 1) % Modulus = 0 THEN n + 2 ELSE n + 1

\* mutant: the range ends where it begins
EmptyRange(begin) == <<begin, begin>>

\* client_ignore_enterleave_events, one request that moves windows, and
\* client_restore_enterleave_events: from GrabServer to NoOperation
RangeFrom(begin) == <<begin, Successor(Successor(begin))>>

\* the move as four requests: GrabServer, the move, NoOperation, UngrabServer
MoveWindows ==
    LET begin == Successor(sent)
        end   == RangeFrom(begin)[2]
        plain(n) == [n |-> n, moves |-> FALSE]
    IN  /\ ranges' = Append(ranges, RangeFrom(begin))
        /\ allRanges' = allRanges \cup {RangeFrom(begin)}
        /\ sent' = Successor(Successor(Successor(begin)))
        /\ wire' = wire \o <<plain(begin), [n |-> Successor(begin), moves |-> TRUE],
                                    plain(Successor(Successor(begin))), plain(sent')>>

CanSend(k) == sent + k <= First + MaxRequests

\* Lua, in a handler or a callback, may change windows; the work is deferred
LuaWork == toMove' \in {toMove, TRUE}

-----------------------------------------------------------------------------
(* a_glib_poll *)

\* whoever waits for a reply reads the events that came before it
ReadEvents ==
    \/ xcbq' = xcbq \o socket /\ socket' = <<>>
    \/ UNCHANGED <<xcbq, socket>>

\* awesome_refresh
Refresh ==
    /\ phase = "refresh"
    /\ phase' = "poll"
    /\ toMove' = FALSE
    /\ IF toMove /\ CanSend(5) THEN MoveWindows
       ELSE UNCHANGED <<wire, sent, ranges, allRanges>>
    /\ ReadEvents
    /\ UNCHANGED <<done, user, motions, pending, mouse, seenvars>>

\* mutant: the loop relies on the file descriptor alone
NoPoll == UNCHANGED <<pending, xcbq, socket>>

\* xcb_poll_for_event, before the loop sleeps
PollForEvent ==
    IF xcbq \o socket = <<>> THEN UNCHANGED <<pending, xcbq, socket>>
    ELSE /\ pending' = Head(xcbq \o socket)
         /\ IF xcbq # <<>> THEN xcbq' = Tail(xcbq) /\ UNCHANGED socket
            ELSE xcbq' = Tail(socket) /\ socket' = <<>>

Poll ==
    /\ phase = "poll"
    /\ phase' = "sleep"
    /\ PollForEvent
    /\ UNCHANGED <<wire, done, user, motions, toMove, sent, mouse, ranges, allRanges, seenvars>>

\* g_poll returns when the socket is readable or, with an event in hand, at once
Wake ==
    /\ phase = "sleep"
    /\ pending # NoEvent \/ socket # <<>>
    /\ phase' = "check"
    /\ UNCHANGED <<xvars, toMove, sent, xcbq, pending, mouse, ranges, allRanges, seenvars>>

\* or when a timer expires or another descriptor is ready, if ever
WakeOther ==
    /\ phase = "sleep"
    /\ phase' = "check"
    /\ UNCHANGED <<xvars, toMove, sent, xcbq, pending, mouse, ranges, allRanges, seenvars>>

-----------------------------------------------------------------------------
(* should_ignore and event_handle *)

\* end - sequence < UINT32_MAX / 2, in 32 bits without a sign
NotOver(range, n) == (range[2] - n) % Modulus < (Modulus - 1) \div 2

RangesAt(n) ==
    LET k == SelectInSeq(ranges, LAMBDA r : NotOver(r, n))
    IN  IF k = 0 THEN <<>> ELSE SubSeq(ranges, k, Len(ranges))

\* mutant: the beginning of the range is not looked at
BeforeEnd(range, n) == n % Modulus <= range[2] % Modulus

Inside(range, n) ==
    /\ n % Modulus >= range[1] % Modulus
    /\ n % Modulus <= range[2] % Modulus

ShouldIgnore(e) ==
    /\ e.kind = "crossing"
    /\ RangesAt(e.n) # <<>>
    /\ Inside(RangesAt(e.n)[1], e.n)

\* mutant: an enter or leave counts as a motion, it has coordinates too
HasPosition(e) == e.kind \in {"motion", "crossing"}

\* Lua is told the position of the pointer
TellsPosition(e) == e.kind = "motion"

HandleEvent(e) ==
    /\ ranges' = RangesAt(e.n)
    /\ IF ShouldIgnore(e)
       THEN ignored' = ignored \cup {e} /\ UNCHANGED <<position, handled, toMove>>
       ELSE /\ IF TellsPosition(e) THEN position' = e.stamp /\ UNCHANGED handled
               ELSE handled' = handled \cup {e} /\ UNCHANGED position
            /\ UNCHANGED ignored
            /\ LuaWork

-----------------------------------------------------------------------------
(* a_xcb_check *)

\* poll_for_event: the pending event, or else xcb's next one
Incoming == (IF pending = NoEvent THEN <<>> ELSE <<pending>>) \o xcbq \o socket

TakeIncoming ==
    /\ pending' = NoEvent
    /\ IF pending # NoEvent THEN UNCHANGED <<xcbq, socket>>
       ELSE IF xcbq # <<>> THEN xcbq' = Tail(xcbq) /\ UNCHANGED socket
       ELSE xcbq' = Tail(socket) /\ socket' = <<>>

CheckFrame == UNCHANGED <<wire, done, user, motions, sent, allRanges>>

\* mutant: a button does not wait for the motion before it
OnlyCrossings == {"crossing"}

\* the events that must not overtake a motion
InOrder == {"crossing", "button"}

\* a motion takes the place of the one that was held back
HoldMotion ==
    /\ phase = "check" /\ Incoming # <<>>
    /\ Head(Incoming).kind = "motion"
    /\ mouse' = Head(Incoming)
    /\ TakeIncoming
    /\ CheckFrame
    /\ UNCHANGED <<phase, toMove, ranges, seenvars>>

\* mutant: only the motion is handled, and the event that has just been polled is lost
LosesNext ==
    /\ phase = "check" /\ Incoming # <<>>
    /\ mouse # NoEvent /\ Head(Incoming).kind \in InOrder
    /\ HandleEvent(mouse)
    /\ mouse' = NoEvent
    /\ TakeIncoming
    /\ CheckFrame
    /\ UNCHANGED phase

\* the motion is handled before the event that has just been polled
HandleHeldMotion ==
    /\ phase = "check" /\ Incoming # <<>>
    /\ mouse # NoEvent /\ Head(Incoming).kind \in InOrder
    /\ HandleEvent(mouse)
    /\ mouse' = NoEvent
    /\ CheckFrame
    /\ UNCHANGED <<phase, pending, xcbq, socket>>

HandleNext ==
    /\ phase = "check" /\ Incoming # <<>>
    /\ Head(Incoming).kind # "motion"
    /\ mouse = NoEvent \/ Head(Incoming).kind \notin InOrder
    /\ HandleEvent(Head(Incoming))
    /\ TakeIncoming
    /\ CheckFrame
    /\ UNCHANGED <<phase, mouse>>

\* no event is left: the motion, whose handler may wait for a reply
FinishCheck ==
    /\ phase = "check" /\ Incoming = <<>>
    /\ phase' = "dispatch"
    /\ IF mouse = NoEvent THEN UNCHANGED <<ranges, seenvars, toMove>> ELSE HandleEvent(mouse)
    /\ mouse' = NoEvent
    /\ CheckFrame
    /\ UNCHANGED <<pending, xcbq, socket>>

\* GLib runs the callbacks that are due, which may wait for replies
Dispatch ==
    /\ phase = "dispatch"
    /\ phase' = "refresh"
    /\ LuaWork
    /\ ReadEvents
    /\ UNCHANGED <<wire, done, user, motions, sent, pending, mouse, ranges, allRanges, seenvars>>

-----------------------------------------------------------------------------
Init ==
    /\ phase = "refresh" /\ toMove = FALSE
    /\ sent = First /\ done = First /\ wire = <<>>
    /\ socket = <<>> /\ xcbq = <<>> /\ pending = NoEvent /\ mouse = NoEvent
    /\ ranges = <<>> /\ allRanges = {}
    /\ user = 0 /\ motions = {} /\ position = 0 /\ handled = {} /\ ignored = {}

MainLoop ==
    Refresh \/ Poll \/ Wake \/ HoldMotion \/ HandleHeldMotion \/ HandleNext \/ FinishCheck \/ Dispatch

Next ==
    \/ \E kind \in {"motion", "crossing", "button", "other"} : UserEvent(kind)
    \/ Serve
    \/ WakeOther
    \/ MainLoop

\* the manager's thread runs when it can
Spec     == Init /\ [][Next]_vars
Fairness == WF_vars(MainLoop)
FairSpec == Spec /\ Fairness

-----------------------------------------------------------------------------
(* Properties *)

\* xcb reads events behind the loop's back whenever somebody waits for a reply,
\* and then the descriptor is not readable: the loop sleeps only when no event
\* is left in xcb's queue and no motion is held back.
NothingSleptOn ==
    phase = "sleep" /\ pending = NoEvent => xcbq = <<>> /\ mouse = NoEvent

\* Motions are merged and held back, but when a press or an enter or leave is
\* handled, or dropped, the last motion that Lua has seen is the last one
\* that the user made before it.
PositionCurrent ==
    [][\A e \in (handled' \cup ignored') \ (handled \cup ignored) :
         e.kind \in {"crossing", "button"} /\ e.stamp > 0 =>
            position' = Max({0} \cup {s \in motions : s < e.stamp})]_vars

\* An enter or leave that is caused by windows that moved never reaches Lua,
\* unless the numbers of the requests wrapped around in the middle of the move.
SpuriousIgnored ==
    \A e \in handled :
        e.kind = "crossing" /\ e.stamp = 0 =>
            \E g \in allRanges : g[1] < e.n /\ e.n < g[2] /\ g[2] % Modulus < g[1] % Modulus

\* No other event is dropped: an enter or leave of the user reaches Lua unless
\* it happened while the server was grabbed for a move, however many moves are
\* on their way and wherever the numbers wrap around.
OnlyGrabsIgnored == \A e \in ignored : \E g \in allRanges : g[1] <= e.n /\ e.n <= g[2]

\* Every event of the user is handled in the end, or, an enter or leave during a
\* move, ignored; only of a motion it is enough that a later motion is handled.
EventsHandled ==
    \A s \in 1..MaxUser :
        (s <= user) ~> IF s \in motions THEN position >= s
                       ELSE \E e \in handled \cup ignored : e.stamp = s

\* should_ignore: of the crossings exactly those are ignored that a move of a
\* window by the manager caused, or that came while it grabbed the server for one.
CrossingsRight == TypeOK /\ SpuriousIgnored /\ OnlyGrabsIgnored

\* a_xcb_check: every event is handled, and when it is, the position that Lua
\* was told is not one from before it.
HandledInOrder == EventsHandled /\ PositionCurrent
=============================================================================
