---------------------------- MODULE Input_proofs ----------------------------
(* What reaches Lua from the input: proofs about the pointer, the keyboard, the tray, the signals of objects and the main loop. *)
EXTENDS Pointer, Keyboard, Tray, ObjectSignals, EventLoop, EventQueues, FiniteSetTheorems, FunctionTheorems, WellFoundedInduction

-----------------------------------------------------------------------------
(* The pointer and its grabs: their invariant. *)
\* presses of the past, and a place that there is
KnownPresses ==
    /\ \A i \in DOMAIN xqueue : xqueue[i].kind = "press" => xqueue[i].click \in 1..clicks
    /\ allow # Nothing => allow.click \in 1..clicks
    /\ Present(place)

\* who holds the pointer, and what holds a frozen one
Holders ==
    /\ frozen # "no" => grab = "passive" /\ place # "bar"
    /\ frozen = "inside" => managed
    /\ frozen = "panel" => shown
    /\ grab = "ours" => mousegrabber

\* the press that froze the pointer is still to be handled, or its handler has
\* not yet called xcb_allow_events
Freezing(e) == e.kind = "press" /\ e.click = clicks /\ ~e.child /\ e.window = GrabbedBy(frozen)
ThawIsDue ==
    frozen \in {"inside", "panel"} /\ ~mousegrabber =>
        \/ allow.mode # "none" /\ allow.click = clicks
        \/ \E i \in DOMAIN xqueue : Freezing(xqueue[i])

\* a press of the client that Lua will be told of is the only one, and was not told
Tells(e) == e.kind = "press" /\ e.window \in {"client", "frame"} /\ FirstPress(e)
ToldAtMostOnce ==
    /\ \A i, j \in DOMAIN xqueue :
         Tells(xqueue[i]) /\ Tells(xqueue[j]) /\ xqueue[i].click = xqueue[j].click => i = j
    /\ \A i \in DOMAIN xqueue : Tells(xqueue[i]) => told[xqueue[i].click] = 0
    /\ \A n \in 1..MaxClicks : told[n] <= 1 /\ (n > clicks => told[n] = 0)

\* the last crossing or movement in the queue leaves the drawable of the place
DrawableEnds ==
    {e \in XEvent : \/ e.kind = "leave" /\ DrawableAt(place) = "none" /\ (~e.child \/ (e.window = "frame" /\ place \in Frame))
                    \/ e.kind = "enter" /\ e.window = "panel" /\ ~e.child /\ place \in Panel
                    \/ e.kind = "enter" /\ e.window = "frame" /\ place \in Frame /\ DrawableAt(e.at) = DrawableAt(place)}
DrawableRest ==
    {e \in XEvent : \/ e.kind = "press"
                    \/ e.kind = "motion" /\ (e.window = "root" \/ DrawableAt(e.at) = DrawableAt(place))
                    \/ e.kind \in {"enter", "leave"} /\ e.window = "panel" /\ e.child}
DrawableRight == under = DrawableAt(place)
DrawableFollows ==
    "drawable" \in sure => Ended(xqueue, DrawableEnds, DrawableRest, DrawableRight)

\* the last crossing of the frame in the queue is the one to the place
FrameCrossing == {e \in XEvent : e.kind \in {"enter", "leave"} /\ e.window = "frame" /\ ~e.child}
FrameEnds == {e \in FrameCrossing : e.kind = IF place \in Frame THEN "enter" ELSE "leave"}
FrameRight == over = (place \in Frame)
ClientFollows ==
    "client" \in sure /\ managed => Ended(xqueue, FrameEnds, XEvent \ FrameCrossing, FrameRight)

PointerInv == /\ PointerTypeOK /\ KnownPresses /\ Holders /\ ThawIsDue /\ ToldAtMostOnce
              /\ DrawableFollows /\ ClientFollows /\ (under = "bar" => managed)
-----------------------------------------------------------------------------
(* Events *)

LEMMA EventTypes ==
    ASSUME NEW w \in {"root", "client", "frame", "panel"}, NEW c \in BOOLEAN, NEW p \in Places
    PROVE  /\ \A k \in {"enter", "leave", "motion"} :
                LET e == Ev(k, w, c, p) IN
                e \in XEvent /\ e.kind = k /\ e.window = w /\ e.child = c /\ e.at = p
           /\ \A n \in 0..MaxClicks :
                LET e == PressEv(w, c, p, n) IN
                e \in XEvent /\ e.kind = "press" /\ e.window = w /\ e.child = c /\ e.at = p /\ e.click = n
<1>1. 0 \in 0..MaxClicks
  BY PointerAssumption
<1>2. ASSUME NEW k \in {"enter", "leave", "motion", "press"}
      PROVE  LET e == Ev(k, w, c, p) IN
             e \in XEvent /\ e.kind = k /\ e.window = w /\ e.child = c /\ e.at = p
  BY <1>1 DEF Ev, XEvent
<1>3. ASSUME NEW n \in 0..MaxClicks
      PROVE  LET e == PressEv(w, c, p, n) IN
             e \in XEvent /\ e.kind = "press" /\ e.window = w /\ e.child = c /\ e.at = p /\ e.click = n
  <2> DEFINE d == Ev("press", w, c, p)
  <2>1. d \in XEvent /\ d.kind = "press" /\ d.window = w /\ d.child = c /\ d.at = p
    BY <1>2
  <2>2. PressEv(w, c, p, n) = [d EXCEPT !.click = n]
    BY DEF PressEv
  <2> HIDE DEF d
  <2> QED BY <2>1, <2>2 DEF XEvent
<1> QED BY <1>2, <1>3

\* the presses of two queues are the same, at the same places
SamePresses(q, r) ==
    /\ \A i \in DOMAIN q : i \in DOMAIN r /\ r[i] = q[i]
    /\ \A i \in DOMAIN r : r[i].kind = "press" => i \in DOMAIN q

LEMMA SamePressesAppend ==
    ASSUME NEW q \in Seq(XEvent), NEW e \in XEvent, e.kind # "press"
    PROVE  SamePresses(q, Append(q, e))
<1> DEFINE a == Append(q, e)
<1>1. /\ DOMAIN a = 1..(Len(q) + 1) /\ DOMAIN q = 1..Len(q)
      /\ Len(q) \in Nat /\ a[Len(q) + 1] = e /\ \A i \in 1..Len(q) : a[i] = q[i]
  OBVIOUS
<1> HIDE DEF a
<1>2. \A i \in DOMAIN a : a[i].kind = "press" => i \in DOMAIN q
  BY <1>1
<1> QED BY <1>1, <1>2 DEF SamePresses, a

\* an event that is no press changes nothing about presses
LEMMA PressesKept ==
    ASSUME PointerInv, SamePresses(xqueue, xqueue'), UNCHANGED <<told, clicks>>
    PROVE  /\ \A i \in DOMAIN xqueue' : xqueue'[i].kind = "press" => xqueue'[i].click \in 1..clicks
           /\ ToldAtMostOnce'
           /\ frozen' = frozen => \A i \in DOMAIN xqueue : Freezing(xqueue[i]) => i \in DOMAIN xqueue' /\ Freezing(xqueue[i])'
<1>1. \A i \in DOMAIN xqueue' : xqueue'[i].kind = "press" => i \in DOMAIN xqueue /\ xqueue'[i] = xqueue[i]
  BY DEF SamePresses
<1>2. \A i \in DOMAIN xqueue' : xqueue'[i].kind = "press" => xqueue'[i].click \in 1..clicks
  BY <1>1 DEF PointerInv, KnownPresses
<1>3. ToldAtMostOnce'
  BY <1>1 DEF PointerInv, ToldAtMostOnce, Tells, FirstPress
<1>4. frozen' = frozen => \A i \in DOMAIN xqueue : Freezing(xqueue[i]) => i \in DOMAIN xqueue' /\ Freezing(xqueue[i])'
  BY DEF SamePresses, Freezing
<1> QED BY <1>2, <1>3, <1>4

\* a press behind the queue
LEMMA PressAppended ==
    ASSUME PointerInv, NEW e \in XEvent, e.kind = "press", xqueue' = Append(xqueue, e),
           clicks' \in Nat, clicks <= clicks', e.click \in 1..clicks', UNCHANGED <<luadata, place, sure>>,
           allow' \in {allow, Nothing},
           Tells(e) => e.click > clicks
    PROVE  /\ xqueue' \in Seq(XEvent)
           /\ KnownPresses' /\ ToldAtMostOnce' /\ DrawableFollows' /\ ClientFollows'
           /\ \A i \in DOMAIN xqueue : i \in DOMAIN xqueue' /\ xqueue'[i] = xqueue[i]
           /\ \E i \in DOMAIN xqueue' : xqueue'[i] = e
<1>0. xqueue \in Seq(XEvent) /\ clicks \in Nat /\ MaxClicks \in Nat
  BY PointerAssumption DEF PointerInv, PointerTypeOK
<1>1. /\ xqueue' \in Seq(XEvent)
      /\ DOMAIN xqueue' = 1..(Len(xqueue) + 1) /\ DOMAIN xqueue = 1..Len(xqueue)
      /\ Len(xqueue) \in Nat /\ xqueue'[Len(xqueue) + 1] = e /\ \A i \in 1..Len(xqueue) : xqueue'[i] = xqueue[i]
  BY <1>0
<1>2. \A i \in DOMAIN xqueue' : (xqueue'[i] = e /\ i = Len(xqueue) + 1) \/ (i \in DOMAIN xqueue /\ xqueue'[i] = xqueue[i])
  BY <1>1
<1>3. KnownPresses'
  <2>1. Present(place)'
    BY DEF PointerInv, KnownPresses, Present, luadata
  <2>2. ASSUME NEW i \in DOMAIN xqueue', xqueue'[i].kind = "press" PROVE xqueue'[i].click \in 1..clicks'
    BY <1>0, <1>2, <2>2 DEF PointerInv, KnownPresses
  <2>3. allow' # Nothing => allow'.click \in 1..clicks'
    BY <1>0 DEF PointerInv, KnownPresses
  <2> QED BY <2>1, <2>2, <2>3 DEF KnownPresses, Nothing
<1>4. ToldAtMostOnce'
  <2>1. \A i \in DOMAIN xqueue : Tells(xqueue[i]) => xqueue[i].click \in 1..clicks
    BY DEF PointerInv, KnownPresses, Tells
  <2>2. Tells(e) => \A i \in DOMAIN xqueue : Tells(xqueue[i]) => xqueue[i].click # e.click
    BY <1>0, <2>1
  <2>3. \A d : Tells(d)' <=> Tells(d)
    BY DEF Tells, FirstPress
  <2>4. ASSUME NEW i \in DOMAIN xqueue', NEW j \in DOMAIN xqueue',
               Tells(xqueue'[i]), Tells(xqueue'[j]), xqueue'[i].click = xqueue'[j].click
        PROVE  i = j
    BY <1>2, <2>2, <2>4 DEF PointerInv, ToldAtMostOnce
  <2>5. told' = told /\ e.click \in 0..MaxClicks
    BY DEF luadata, XEvent
  <2>6. Tells(e) => told[e.click] = 0
    BY <1>0, <2>5 DEF PointerInv, ToldAtMostOnce
  <2>7. \A i \in DOMAIN xqueue' : Tells(xqueue'[i]) => told'[xqueue'[i].click] = 0
    BY <1>2, <2>5, <2>6 DEF PointerInv, ToldAtMostOnce
  <2>8. \A n \in 1..MaxClicks : told'[n] <= 1 /\ (n > clicks' => told'[n] = 0)
    BY <1>0, <2>5 DEF PointerInv, ToldAtMostOnce
  <2> QED BY <2>3, <2>4, <2>7, <2>8 DEF ToldAtMostOnce
<1>5. DrawableFollows'
  <2>1. /\ DrawableEnds' = DrawableEnds /\ DrawableRest' = DrawableRest
        /\ DrawableRight' = DrawableRight
    BY DEF DrawableEnds, DrawableRest, DrawableRight, DrawableAt, luadata
  <2>2. e \in DrawableRest
    BY DEF DrawableRest
  <2> QED BY <1>0, <2>1, <2>2, EndedAppend DEF DrawableFollows, PointerInv
<1>6. ClientFollows'
  <2>1. /\ FrameEnds' = FrameEnds /\ managed' = managed
        /\ FrameRight' = FrameRight
    BY DEF FrameEnds, FrameRight, luadata
  <2>2. e \in XEvent \ FrameCrossing
    BY DEF FrameCrossing
  <2> QED BY <1>0, <2>1, <2>2, EndedAppend DEF ClientFollows, PointerInv
<1> QED BY <1>1, <1>3, <1>4, <1>5, <1>6
-----------------------------------------------------------------------------
(* The X server *)

\* what a press sends that no grab takes is told of only where there is a titlebar
LEMMA DeliveredEvents ==
    ASSUME NEW p \in Places, NEW n \in 0..MaxClicks, NEW es \in Delivered(p, n)
    PROVE  \/ es = <<>>
           \/ \E e \in XEvent : /\ es = <<e>> /\ e.kind = "press" /\ e.click = n
                                /\ Tells(e) => p = "bar"
<1> DEFINE own == PressEv(Top(p), p \in {"inside", "icon"}, p, n)
<1>1. Top(p) \in {"root", "client", "frame", "panel"} /\ (p \in {"inside", "icon"}) \in BOOLEAN
  BY DEF Top
<1>2. own \in XEvent /\ own.kind = "press" /\ own.window = Top(p) /\ own.child = (p \in {"inside", "icon"}) /\ own.click = n
  <2>1. PICK c \in BOOLEAN : c = (p \in {"inside", "icon"})
    BY <1>1
  <2>2. own = PressEv(Top(p), c, p, n)
    BY <2>1
  <2> HIDE DEF own
  <2>3. PICK w \in {"root", "client", "frame", "panel"} : w = Top(p)
    BY <1>1
  <2>4. own \in XEvent /\ own.kind = "press" /\ own.window = w /\ own.child = c /\ own.click = n
    BY <2>2, <2>3, EventTypes
  <2> QED BY <2>1, <2>3, <2>4
<1>3. es \in {<<>>, <<own>>}
  BY DEF Delivered
<1> HIDE DEF own
<1>4. Tells(own) => p = "bar"
  BY <1>2 DEF Tells, FirstPress, Top, Places, Frame, Panel
<1> QED BY <1>2, <1>3, <1>4

LEMMA ClickKept ==
    ASSUME PointerInv, Click
    PROVE  PointerInv'
<1>0. /\ xqueue \in Seq(XEvent) /\ place \in Places /\ clicks \in Nat /\ MaxClicks \in Nat
      /\ frozen = "no" /\ grab # "foreign" /\ clicks' = clicks + 1 /\ clicks' \in 0..MaxClicks /\ clicks' \in Nat
      /\ clicks <= clicks' /\ UNCHANGED <<place, moves, luadata, allow, acts, sure>>
  BY PointerAssumption DEF PointerInv, PointerTypeOK, Click
<1>1. ASSUME NEW e \in XEvent, e.kind = "press", e.click = clicks', xqueue' = Append(xqueue, e),
             \/ UNCHANGED <<frozen, grab>>
             \/ /\ frozen' = place /\ grab' = "passive" /\ place \in {"inside", "panel", "icon"}
                /\ e.window = GrabbedBy(place) /\ (place # "icon" => ~e.child)
      PROVE  PointerInv'
  <2>1. /\ xqueue' \in Seq(XEvent)
        /\ KnownPresses' /\ ToldAtMostOnce' /\ DrawableFollows' /\ ClientFollows'
        /\ \E i \in DOMAIN xqueue' : xqueue'[i] = e
    BY <1>0, <1>1, PressAppended
  <2>2. PointerTypeOK'
    BY <1>0, <1>1, <2>1 DEF PointerInv, PointerTypeOK, luadata
  <2>3. Holders'
    BY <1>0, <1>1 DEF PointerInv, Holders, KnownPresses, Present, Frame, Panel, luadata
  <2>4. ThawIsDue'
    BY <1>0, <1>1, <2>1 DEF ThawIsDue, Freezing
  <2>5. (under = "bar" => managed)'
    BY <1>0 DEF PointerInv, luadata
  <2> QED BY <2>1, <2>2, <2>3, <2>4, <2>5 DEF PointerInv
<1>2. CASE grab = "ours"
  <2>1. PICK c \in BOOLEAN : c = (place # "root")
    OBVIOUS
  <2>2. xqueue' = Append(xqueue, PressEv("root", c, place, clicks')) /\ UNCHANGED <<frozen, grab>>
    BY <1>2, <2>1 DEF Click
  <2>3. /\ PressEv("root", c, place, clicks') \in XEvent
        /\ PressEv("root", c, place, clicks').kind = "press"
        /\ PressEv("root", c, place, clicks').click = clicks'
    BY <1>0, EventTypes
  <2> QED BY <1>1, <2>2, <2>3
<1>3. CASE grab = "none" /\ GrabbedBy(place) \in bound
  <2>1. PICK c \in BOOLEAN : c = (place = "icon")
    OBVIOUS
  <2>2. /\ xqueue' = Append(xqueue, PressEv(GrabbedBy(place), c, place, clicks'))
        /\ frozen' = place /\ grab' = "passive"
    BY <1>3, <2>1 DEF Click
  <2>3. GrabbedBy(place) \in {"client", "panel"} /\ place \in {"inside", "panel", "icon"}
    BY <1>3 DEF PointerInv, PointerTypeOK, GrabbedBy, Panel
  <2>4. PICK w \in {"client", "panel"}, n \in 0..MaxClicks : w = GrabbedBy(place) /\ n = clicks'
    BY <1>0, <2>3
  <2>5. PICK e \in XEvent : /\ e = PressEv(w, c, place, n) /\ e.kind = "press" /\ e.click = n
                           /\ e.window = w /\ e.child = c
    BY <1>0, EventTypes
  <2> QED BY <1>1, <2>1, <2>2, <2>3, <2>4, <2>5
<1>4. CASE ~(grab = "ours") /\ ~(grab = "none" /\ GrabbedBy(place) \in bound)
  <2>1. PICK es \in Delivered(place, clicks') : xqueue' = xqueue \o es
    BY <1>4 DEF Click
  <2>2. UNCHANGED <<frozen, grab>>
    BY <1>4 DEF Click
  <2>3. CASE es = <<>>
    <3>1. xqueue' = xqueue
      BY <1>0, <2>1, <2>3
    <3>2. PointerTypeOK'
      BY <1>0, <2>2, <3>1 DEF PointerInv, PointerTypeOK, luadata
    <3>3. KnownPresses' /\ Holders' /\ ThawIsDue'
      BY <1>0, <2>2, <3>1 DEF PointerInv, KnownPresses, Holders, ThawIsDue, Present, luadata
    <3>4. ToldAtMostOnce'
      BY <1>0, <3>1 DEF PointerInv, ToldAtMostOnce, Tells, FirstPress, luadata
    <3>5. DrawableFollows' /\ ClientFollows' /\ (under = "bar" => managed)'
      BY <1>0, <3>1 DEF PointerInv, DrawableFollows, ClientFollows, DrawableEnds, DrawableRest, DrawableRight, FrameEnds, FrameRight, luadata
    <3> QED BY <3>2, <3>3, <3>4, <3>5 DEF PointerInv
  <2>4. CASE es # <<>>
    <3>1. PICK e \in XEvent : es = <<e>> /\ e.kind = "press" /\ e.click = clicks'
      BY <1>0, <2>1, <2>4, DeliveredEvents
    <3>2. xqueue' = Append(xqueue, e)
      BY <1>0, <2>1, <3>1, AppendSome
    <3> QED BY <1>1, <2>2, <3>1, <3>2
  <2> QED BY <2>3, <2>4
<1> QED BY <1>2, <1>3, <1>4

LEMMA AllowEventsKept ==
    ASSUME PointerInv, AllowEvents
    PROVE  PointerInv'
<1>0. /\ xqueue \in Seq(XEvent) /\ place \in Places /\ clicks \in Nat /\ clicks \in 0..MaxClicks
      /\ allow # Nothing /\ allow' = Nothing /\ allow.click \in 0..MaxClicks
      /\ Nothing.mode = "none" /\ Nothing \in [mode : {"none", "replay", "async"}, click : 0..MaxClicks]
      /\ allow.click \in 1..clicks
      /\ UNCHANGED <<place, clicks, moves, luadata, acts, sure>>
  BY PointerAssumption DEF PointerInv, PointerTypeOK, KnownPresses, AllowEvents, Nothing
<1>1. CASE xqueue' = xqueue
  <2>1. \/ UNCHANGED <<frozen, grab>> /\ (frozen = "no" \/ allow.click < clicks)
        \/ frozen' = "no" /\ grab' = "none"
    BY DEF AllowEvents
  <2>2. PointerTypeOK'
    BY <1>0, <1>1, <2>1 DEF PointerInv, PointerTypeOK, luadata
  <2>3. KnownPresses' /\ Holders'
    BY <1>0, <1>1, <2>1 DEF PointerInv, KnownPresses, Holders, Present, luadata
  <2>4. ThawIsDue'
    BY <1>0, <1>1, <2>1 DEF PointerInv, ThawIsDue, Freezing, luadata
  <2>5. ToldAtMostOnce'
    BY <1>0, <1>1 DEF PointerInv, ToldAtMostOnce, Tells, FirstPress, luadata
  <2>6. DrawableFollows' /\ ClientFollows' /\ (under = "bar" => managed)'
    BY <1>0, <1>1 DEF PointerInv, DrawableFollows, ClientFollows, DrawableEnds, DrawableRest, DrawableRight, FrameEnds, FrameRight, luadata
  <2> QED BY <2>2, <2>3, <2>4, <2>5, <2>6 DEF PointerInv
<1>2. CASE xqueue' # xqueue
  <2>1. PICK es \in Delivered(place, allow.click) :
          xqueue' = xqueue \o es /\ frozen # "no" /\ ~(allow.click < clicks) /\ frozen' = "no" /\ grab' = "none"
    BY <1>2 DEF AllowEvents
  <2>2. PICK e \in XEvent : es = <<e>> /\ e.kind = "press" /\ e.click = allow.click /\ (Tells(e) => place = "bar")
    BY <1>0, <1>2, <2>1, DeliveredEvents, AppendSome
  <2>3. xqueue' = Append(xqueue, e)
    BY <1>0, <2>1, <2>2, AppendSome
  <2>4. e.click \in 1..clicks /\ ~Tells(e)
    BY <1>0, <2>1, <2>2 DEF PointerInv, Holders, PointerTypeOK
  <2>5. /\ xqueue' \in Seq(XEvent)
        /\ KnownPresses' /\ ToldAtMostOnce' /\ DrawableFollows' /\ ClientFollows'
    BY <1>0, <2>2, <2>3, <2>4, PressAppended
  <2>6. PointerTypeOK' /\ Holders' /\ ThawIsDue' /\ (under = "bar" => managed)'
    BY <1>0, <2>1, <2>5 DEF PointerInv, PointerTypeOK, Holders, ThawIsDue, luadata
  <2> QED BY <2>5, <2>6 DEF PointerInv
<1> QED BY <1>1, <1>2
\* the events of a movement: at most two, none of them a press, and the last of
\* those that matter is about the place that the pointer came to
OneCrossing(p, q, e) ==
    \/ p = q /\ e.kind = "motion" /\ e.at = q
    \/ /\ p # q /\ p \in Frame /\ q \in Frame /\ e.window = "frame" /\ e.child
       /\ (e.kind = "enter" /\ e.at = q) \/ (e.kind = "leave" /\ q = "inside")
    \/ /\ p # q /\ p \in Panel /\ q \in Panel /\ e.window = "panel" /\ e.child /\ e.kind \in {"enter", "leave"}
    \/ /\ p \in Frame \cup Panel /\ q = "root" /\ e.kind = "leave" /\ e.window = Top(p) /\ ~e.child
    \/ /\ p = "root" /\ q \in Frame \cup Panel
       /\ e.kind = "enter" /\ e.window = Top(q) /\ ~e.child /\ e.at = q
TwoCrossings(p, q, d, e) ==
    /\ p \in Frame \cup Panel /\ q \in Frame \cup Panel /\ Top(p) # Top(q)
    /\ d.kind = "leave" /\ d.window = Top(p) /\ ~d.child
    /\ e.kind = "enter" /\ e.window = Top(q) /\ ~e.child /\ e.at = q

LEMMA CrossingEvents ==
    ASSUME NEW p \in Places, NEW q \in Places
    PROVE  \/ Crossings(p, q) = <<>> /\ p = q
           \/ \E e \in XEvent : Crossings(p, q) = <<e>> /\ OneCrossing(p, q, e)
           \/ \E d, e \in XEvent : Crossings(p, q) = <<d>> \o <<e>> /\ TwoCrossings(p, q, d, e)
<1> USE DEF OneCrossing, TwoCrossings
<1>0. /\ \A x \in Places : Top(x) \in {"root", "client", "frame", "panel"}
      /\ \A x \in Places : /\ Top(x) = "root" <=> x = "root"
                           /\ Top(x) = "frame" <=> x \in Frame
                           /\ Top(x) = "panel" <=> x \in Panel
  BY DEF Top, Places, Frame, Panel
<1>z. 0 \in 0..MaxClicks
  BY PointerAssumption
<1>1. CASE p = q
  <2>1. CASE p \in {"bar", "panel"}
    <3>1. Crossings(p, q) = <<Ev("motion", Top(p), FALSE, q)>>
      BY <1>1, <2>1 DEF Crossings
    <3>2. PICK e : e = Ev("motion", Top(p), FALSE, q)
      OBVIOUS
    <3>3. e \in XEvent /\ e.kind = "motion" /\ e.at = q
      BY <1>0, <1>z, <3>2 DEF Ev, XEvent
    <3> QED BY <1>1, <3>1, <3>2, <3>3
  <2>2. CASE p \notin {"bar", "panel"}
    BY <1>1, <2>2 DEF Crossings
  <2> QED BY <2>1, <2>2
<1>2. CASE p # q /\ Top(p) = Top(q)
  <2>1. (p \in Frame /\ q \in Frame) \/ (p \in Panel /\ q \in Panel)
    BY <1>0, <1>2 DEF Places, Frame, Panel
  <2>2. CASE p \in {"bar", "panel"}
    <3> DEFINE e == Ev("leave", Top(p), TRUE, q)
    <3>1. Crossings(p, q) = <<e>>
      BY <1>2, <2>2 DEF Crossings
    <3>2. e \in XEvent /\ e.kind = "leave" /\ e.window = Top(p) /\ e.child /\ e.at = q
      BY <1>0, <1>z DEF Ev, XEvent
    <3> HIDE DEF e
    <3>3. p \in Frame => q = "inside"
      BY <1>2, <2>1, <2>2 DEF Frame, Panel
    <3> QED BY <1>0, <1>2, <2>1, <3>1, <3>2, <3>3
  <2>3. CASE p \notin {"bar", "panel"}
    <3> DEFINE e == Ev("enter", Top(q), TRUE, q)
    <3>1. Crossings(p, q) = <<e>>
      BY <1>2, <2>3 DEF Crossings
    <3>2. e \in XEvent /\ e.kind = "enter" /\ e.window = Top(q) /\ e.child /\ e.at = q
      BY <1>0, <1>z DEF Ev, XEvent
    <3> HIDE DEF e
    <3> QED BY <1>0, <1>2, <2>1, <3>1, <3>2
  <2> QED BY <2>2, <2>3
<1>3. CASE Top(p) # Top(q)
  <2> DEFINE d == Ev("leave", Top(p), FALSE, q)
             e == Ev("enter", Top(q), FALSE, q)
             a == IF p = "root" THEN <<>> ELSE <<d>>
             b == IF q = "root" THEN <<>> ELSE <<e>>
  <2>1. Crossings(p, q) = a \o b
    BY <1>3 DEF Crossings
  <2>2. /\ d \in XEvent /\ d.kind = "leave" /\ d.window = Top(p) /\ ~d.child
        /\ e \in XEvent /\ e.kind = "enter" /\ e.window = Top(q) /\ ~e.child /\ e.at = q
    BY <1>0, <1>z DEF Ev, XEvent
  <2> HIDE DEF d, e
  <2>3. p # "root" \/ q # "root"
    BY <1>3
  <2>4. \A x \in Places : x # "root" <=> x \in Frame \cup Panel
    BY DEF Places, Frame, Panel
  <2>5. CASE p = "root"
    <3>1. a \o b = <<e>>
      BY <2>3, <2>5
    <3> QED BY <2>1, <2>2, <2>3, <2>4, <2>5, <3>1
  <2>6. CASE q = "root"
    <3>1. a \o b = <<d>>
      BY <2>3, <2>6
    <3> QED BY <2>1, <2>2, <2>3, <2>4, <2>6, <3>1
  <2>7. CASE p # "root" /\ q # "root"
    <3>1. a \o b = <<d>> \o <<e>>
      BY <2>7
    <3> QED BY <1>3, <2>1, <2>2, <2>4, <2>7, <3>1
  <2> QED BY <2>5, <2>6, <2>7
<1> QED BY <1>1, <1>2, <1>3
LEMMA SamePressesTwice ==
    ASSUME NEW q \in Seq(XEvent), NEW d \in XEvent, NEW e \in XEvent, d.kind # "press", e.kind # "press"
    PROVE  SamePresses(q, Append(Append(q, d), e))
<1> DEFINE a == Append(q, d)
           b == Append(a, e)
<1>1. a \in Seq(XEvent) /\ SamePresses(q, a)
  BY SamePressesAppend
<1> HIDE DEF a
<1>2. SamePresses(a, b)
  BY <1>1, SamePressesAppend
<1> HIDE DEF b
<1>3. SamePresses(q, b)
  BY <1>1, <1>2 DEF SamePresses
<1> QED BY <1>3 DEF a, b

\* A movement that nobody holds back: what it sends.
LEMMA CrossingFollows ==
    ASSUME PointerInv, NEW q \in Places, Move(q), grab = "none"
    PROVE  /\ xqueue' \in Seq(XEvent) /\ SamePresses(xqueue, xqueue')
           /\ DrawableFollows' /\ ClientFollows'
<1> DEFINE drawn == DrawableRight'
           entered == FrameRight'
           Goal == /\ xqueue' \in Seq(XEvent) /\ SamePresses(xqueue, xqueue')
                   /\ "drawable" \in sure' => Ended(xqueue', DrawableEnds', DrawableRest', drawn)
                   /\ "client" \in sure' /\ managed => Ended(xqueue', FrameEnds', XEvent \ FrameCrossing, entered)
<1>0. /\ xqueue \in Seq(XEvent) /\ place \in Places /\ q = place'
      /\ UNCHANGED <<under, over, managed>>
      /\ xqueue' = xqueue \o Crossings(place, q) /\ sure' = sure \cup Settles(place, q)
      /\ drawn \in BOOLEAN /\ entered \in BOOLEAN
      /\ SamePresses(xqueue, xqueue)
  BY DEF PointerInv, PointerTypeOK, Move, luadata, SamePresses, DrawableRight, FrameRight
<1>1. SUFFICES Goal
  BY <1>0 DEF DrawableFollows, ClientFollows, FrameCrossing
<1>2. /\ "drawable" \in sure => Ended(xqueue, DrawableEnds, DrawableRest, DrawableRight)
      /\ "client" \in sure /\ managed => Ended(xqueue, FrameEnds, XEvent \ FrameCrossing, FrameRight)
  BY DEF PointerInv, DrawableFollows, ClientFollows
\* what stays as it is
<1>3. DrawableAt(q) = DrawableAt(place) /\ (place \in Frame <=> q \in Frame) /\ (place \in Panel <=> q \in Panel)
      => /\ DrawableEnds' = DrawableEnds /\ DrawableRest' = DrawableRest
         /\ drawn = DrawableRight
  BY <1>0 DEF DrawableEnds, DrawableRest, DrawableRight
<1>4. (place \in Frame <=> q \in Frame) => FrameEnds' = FrameEnds /\ entered = FrameRight
                                           /\ ("client" \in sure' => "client" \in sure)
  BY <1>0 DEF FrameEnds, FrameRight, Settles
<1>5. /\ DrawableAt("root") = "none" /\ DrawableAt("inside") = "none"
      /\ DrawableAt("panel") = "panel" /\ DrawableAt("icon") = "panel"
      /\ \A x \in Places : x \notin Frame \/ x \notin Panel
      /\ "root" \notin Frame /\ "root" \notin Panel
      /\ \A x \in Places : (Top(x) = "frame" <=> x \in Frame) /\ (Top(x) = "panel" <=> x \in Panel)
  BY DEF DrawableAt, Places, Frame, Panel, Top
<1> HIDE DEF drawn, entered
<1>6. CASE Crossings(place, q) = <<>> /\ place = q
  <2>1. xqueue' = xqueue /\ ("drawable" \in sure' => "drawable" \in sure)
    BY <1>0, <1>6, AppendSome DEF Settles
  <2> QED BY <1>0, <1>2, <1>3, <1>4, <1>6, <2>1
<1>7. ASSUME NEW e \in XEvent, Crossings(place, q) = <<e>>, OneCrossing(place, q, e)
      PROVE  Goal
  <2>0. e.kind # "press"
    BY <1>7 DEF OneCrossing
  <2>1. xqueue' = Append(xqueue, e) /\ xqueue' \in Seq(XEvent) /\ SamePresses(xqueue, xqueue')
    <3>1. xqueue' = Append(xqueue, e) /\ xqueue' \in Seq(XEvent)
      BY <1>0, <1>7, AppendSome
    <3>2. SamePresses(xqueue, Append(xqueue, e))
      BY <1>0, <2>0, SamePressesAppend
    <3> QED BY <3>1, <3>2
  <2>2. CASE (place = q /\ e.kind = "motion" /\ e.at = q)
             \/ (place # q /\ place \in Panel /\ q \in Panel /\ e.window = "panel" /\ e.child /\ e.kind \in {"enter", "leave"})
    <3>1. /\ DrawableAt(q) = DrawableAt(place) /\ (place \in Frame <=> q \in Frame) /\ (place \in Panel <=> q \in Panel)
          /\ "drawable" \in sure' => "drawable" \in sure
      BY <1>0, <1>5, <2>2 DEF Settles, Panel
    <3>2. e \in DrawableRest /\ e \in XEvent \ FrameCrossing
      BY <2>2, <3>1 DEF DrawableRest, FrameCrossing
    <3> QED BY <1>0, <1>2, <1>3, <1>4, <2>1, <3>1, <3>2, EndedAppend
  <2>3. CASE /\ place # q /\ place \in Frame /\ q \in Frame /\ e.window = "frame" /\ e.child
             /\ (e.kind = "enter" /\ e.at = q) \/ (e.kind = "leave" /\ q = "inside")
    <3>1. e \in DrawableEnds'
      BY <1>0, <1>5, <2>3 DEF DrawableEnds
    <3>2. e \in XEvent \ FrameCrossing
      BY <2>3 DEF FrameCrossing
    <3> QED BY <1>0, <1>2, <1>4, <2>1, <2>3, <3>1, <3>2, EndedAppend
  <2>4. CASE \/ /\ place \in Frame \cup Panel /\ q = "root" /\ e.kind = "leave" /\ e.window = Top(place) /\ ~e.child
             \/ /\ place = "root" /\ q \in Frame \cup Panel
                /\ e.kind = "enter" /\ e.window = Top(q) /\ ~e.child /\ e.at = q
    <3>1. e \in DrawableEnds'
      BY <1>0, <1>5, <2>4 DEF DrawableEnds
    <3>2. CASE place \in Frame \/ q \in Frame
      <4>1. e \in FrameEnds'
        BY <1>0, <1>5, <2>4, <3>2 DEF FrameEnds, FrameRight, FrameCrossing
      <4> QED BY <1>0, <2>1, <3>1, <4>1, EndedAppend
    <3>3. CASE place \notin Frame /\ q \notin Frame
      <4>1. e \in XEvent \ FrameCrossing
        BY <1>0, <1>5, <2>4, <3>3 DEF FrameCrossing
      <4> QED BY <1>0, <1>2, <1>4, <2>1, <3>1, <3>3, <4>1, EndedAppend
    <3> QED BY <3>2, <3>3
  <2> QED BY <1>7, <2>2, <2>3, <2>4 DEF OneCrossing
<1>8. ASSUME NEW d \in XEvent, NEW e \in XEvent, Crossings(place, q) = <<d>> \o <<e>>, TwoCrossings(place, q, d, e)
      PROVE  Goal
  <2> USE <1>8 DEF TwoCrossings
  <2> DEFINE a == Append(xqueue, d)
  <2>1. a \in Seq(XEvent) /\ xqueue' = Append(a, e) /\ xqueue' \in Seq(XEvent) /\ SamePresses(xqueue, xqueue')
    <3>1. <<d>> \in Seq(XEvent) /\ <<e>> \in Seq(XEvent)
      OBVIOUS
    <3>2. xqueue' = (xqueue \o <<d>>) \o <<e>>
      BY <1>0, <1>8, <3>1, ConcatAssociative
    <3>3. xqueue \o <<d>> = a /\ a \in Seq(XEvent)
      BY <1>0, AppendSome
    <3>4. xqueue' = Append(a, e)
      <4> HIDE DEF a
      <4> QED BY <3>2, <3>3, AppendSome
    <3>5. SamePresses(xqueue, Append(a, e))
      BY <1>0, <1>8, SamePressesTwice
    <3>6. Append(a, e) \in Seq(XEvent)
      <4> HIDE DEF a
      <4> QED BY <3>3
    <3> HIDE DEF a
    <3> QED BY <3>3, <3>4, <3>5, <3>6
  <2>2. e \in DrawableEnds'
    BY <1>0, <1>5, <1>8 DEF DrawableEnds
  <2>3. (place \in Frame /\ q \in Panel) \/ (place \in Panel /\ q \in Frame)
    BY <1>0, <1>5, <1>8
  <2>4. CASE place \in Frame /\ q \in Panel
    <3>1. d \in FrameEnds' /\ e \in XEvent \ FrameCrossing
      BY <1>0, <1>5, <1>8, <2>4 DEF FrameEnds, FrameRight, FrameCrossing
    <3>2. Ended(a, FrameEnds', XEvent \ FrameCrossing, entered)
      BY <1>0, <3>1, EndedAppend
    <3> HIDE DEF a
    <3> QED BY <1>0, <2>1, <2>2, <3>1, <3>2, EndedAppend
  <2>5. CASE place \in Panel /\ q \in Frame
    <3>1. e \in FrameEnds'
      BY <1>0, <1>5, <1>8, <2>5 DEF FrameEnds, FrameRight, FrameCrossing
    <3> HIDE DEF a
    <3> QED BY <1>0, <2>1, <2>2, <3>1, EndedAppend
  <2> QED BY <2>3, <2>4, <2>5
<1> QED BY <1>0, <1>6, <1>7, <1>8, CrossingEvents
LEMMA MoveKept ==
    ASSUME PointerInv, NEW q \in Places, Move(q)
    PROVE  PointerInv'
<1>0. /\ xqueue \in Seq(XEvent) /\ place \in Places /\ place' = q /\ Present(q) /\ frozen = "no"
      /\ moves' \in 0..MaxMoves /\ SamePresses(xqueue, xqueue)
      /\ UNCHANGED <<frozen, grab, clicks, luadata, allow, acts>>
  BY PointerAssumption DEF PointerInv, PointerTypeOK, Move, SamePresses
<1>1. /\ xqueue' \in Seq(XEvent) /\ SamePresses(xqueue, xqueue')
      /\ DrawableFollows' /\ ClientFollows'
  <2>1. CASE grab = "none"
    BY <2>1, CrossingFollows
  <2>2. CASE grab # "none"
    <3> DEFINE e == Ev("motion", "root", FALSE, q)
    <3>1. e \in XEvent /\ e.kind = "motion" /\ e.window = "root"
      BY PointerAssumption DEF Ev, XEvent
    <3>2. xqueue' \in {xqueue, Append(xqueue, e)} /\ sure' = IF q = place THEN sure ELSE {}
      BY <2>2 DEF Move
    <3> HIDE DEF e
    <3>3. xqueue' \in Seq(XEvent) /\ SamePresses(xqueue, xqueue')
      <4>1. SamePresses(xqueue, Append(xqueue, e)) /\ Append(xqueue, e) \in Seq(XEvent)
        <5>1. e.kind # "press"
          BY <3>1
        <5> QED BY <1>0, <3>1, <5>1, SamePressesAppend
      <4> QED BY <1>0, <3>2, <4>1
    <3>4. CASE q # place
      BY <3>2, <3>3, <3>4 DEF DrawableFollows, ClientFollows
    <3>5. CASE q = place
      <4>1. /\ DrawableEnds' = DrawableEnds /\ DrawableRest' = DrawableRest /\ FrameEnds' = FrameEnds
            /\ DrawableRight' = DrawableRight
            /\ FrameRight' = FrameRight
            /\ sure' = sure /\ managed' = managed
        BY <1>0, <3>2, <3>5 DEF DrawableEnds, DrawableRest, DrawableRight, FrameEnds, FrameRight, luadata
      <4>2. e \in DrawableRest /\ e \in XEvent \ FrameCrossing
        BY <3>1 DEF DrawableRest, FrameCrossing
      <4>3. /\ "drawable" \in sure => Ended(xqueue, DrawableEnds, DrawableRest, DrawableRight)
            /\ "client" \in sure /\ managed => Ended(xqueue, FrameEnds, XEvent \ FrameCrossing, FrameRight)
        BY DEF PointerInv, DrawableFollows, ClientFollows
      <4>4. DrawableRight \in BOOLEAN /\ FrameRight \in BOOLEAN
        BY DEF DrawableRight, FrameRight
      <4>5. /\ "drawable" \in sure => Ended(xqueue', DrawableEnds, DrawableRest, DrawableRight)
            /\ "client" \in sure /\ managed => Ended(xqueue', FrameEnds, XEvent \ FrameCrossing, FrameRight)
        BY <1>0, <3>1, <3>2, <4>2, <4>3, <4>4, EndedAppend
      <4>6. DrawableFollows'
        BY <4>1, <4>5 DEF DrawableFollows
      <4>7. ClientFollows'
        BY <4>1, <4>5 DEF ClientFollows
      <4> QED BY <3>3, <4>6, <4>7
    <3> QED BY <3>4, <3>5
  <2> QED BY <2>1, <2>2
<1>2. PointerTypeOK'
  <2>1. sure' \subseteq {"drawable", "client"}
    BY DEF Move, Settles, PointerInv, PointerTypeOK
  <2> QED BY <1>0, <1>1, <2>1 DEF PointerInv, PointerTypeOK, luadata
<1>3. KnownPresses' /\ ToldAtMostOnce'
  BY <1>0, <1>1, PressesKept DEF PointerInv, KnownPresses, Present, luadata
<1>4. Holders' /\ ThawIsDue' /\ (under = "bar" => managed)'
  BY <1>0 DEF PointerInv, Holders, ThawIsDue, luadata
<1> QED BY <1>1, <1>2, <1>3, <1>4 DEF PointerInv

\* another client grabs the pointer, and what Lua does, send no event
LEMMA NothingSent ==
    ASSUME PointerInv, UNCHANGED <<xqueue, clicks, told, allow>>, Present(place)',
           frozen' = frozen \/ frozen' = "no"
    PROVE  /\ KnownPresses' /\ ToldAtMostOnce'
           /\ mousegrabber' = mousegrabber \/ frozen' = "no" => ThawIsDue'
<1>1. KnownPresses'
  BY DEF PointerInv, KnownPresses, Nothing
<1>2. ToldAtMostOnce'
  BY DEF PointerInv, ToldAtMostOnce, Tells, FirstPress
<1>3. mousegrabber' = mousegrabber \/ frozen' = "no" => ThawIsDue'
  BY DEF PointerInv, ThawIsDue, Freezing
<1> QED BY <1>1, <1>2, <1>3

LEMMA GrabsKept ==
    ASSUME PointerInv,
           ForeignGrab \/ StartGrabber \/ StopGrabber \/ \E w \in {"client", "panel"} : Bind(w)
    PROVE  PointerInv'
<1>1. /\ UNCHANGED <<place, clicks, moves, managed, shown, under, over, told, xqueue, allow, sure>>
      /\ acts' \in 0..MaxLua
  BY PointerAssumption DEF ForeignGrab, StartGrabber, StopGrabber, Bind, Acts, xdata, luadata, PointerInv, PointerTypeOK
<1>2. /\ bound' \subseteq {"client", "panel"} /\ mousegrabber' \in BOOLEAN
      /\ frozen' \in {frozen, "no"} /\ grab' \in {"none", "passive", "ours", "foreign"}
      /\ grab' = "ours" => mousegrabber'
      /\ frozen' # "no" => grab' = "passive" /\ mousegrabber' = mousegrabber
  <2>1. CASE ForeignGrab
    BY <2>1 DEF ForeignGrab, luadata, PointerInv, PointerTypeOK, Holders
  <2>2. CASE StartGrabber
    BY <2>2 DEF StartGrabber, PointerInv, PointerTypeOK, Holders
  <2>3. CASE StopGrabber
    BY <2>3 DEF StopGrabber, Ungrabbed, PointerInv, PointerTypeOK, Holders
  <2>4. ASSUME NEW w \in {"client", "panel"}, Bind(w) PROVE <1>2!:
    BY <2>4 DEF Bind, Rebound, xdata, PointerInv, PointerTypeOK, Holders
  <2> QED BY <2>1, <2>2, <2>3, <2>4
<1>3. PointerTypeOK' /\ Holders'
  BY <1>1, <1>2 DEF PointerInv, PointerTypeOK, Holders
<1>4. KnownPresses' /\ ToldAtMostOnce' /\ ThawIsDue'
  <2>1. Present(place)'
    BY <1>1 DEF PointerInv, KnownPresses, Present
  <2> QED BY <1>1, <1>2, <2>1, NothingSent
<1>5. DrawableFollows' /\ ClientFollows' /\ (under = "bar" => managed)'
  BY <1>1 DEF PointerInv, DrawableFollows, ClientFollows, DrawableEnds, DrawableRest, DrawableRight, FrameEnds, FrameRight
<1> QED BY <1>3, <1>4, <1>5 DEF PointerInv

\* the client goes
LEMMA UnmanageKept ==
    ASSUME PointerInv, Unmanage
    PROVE  PointerInv'
<1>1. /\ managed' = FALSE /\ over' = FALSE /\ bound' = bound \ {"client"} /\ under' = LeftTitlebar
      /\ place' = (IF place \in Frame THEN "root" ELSE place)
      /\ sure' = {"client"} \cup (IF place \in Frame THEN sure \ {"drawable"} ELSE sure)
      /\ UNCHANGED <<clicks, moves, shown, mousegrabber, told, xqueue, allow>>
      /\ acts' \in 0..MaxLua
      /\ frozen' \in {frozen, "no"} /\ frozen' # "inside"
      /\ (frozen' = frozen /\ grab' = grab) \/ (frozen' = "no" /\ grab' = "none")
  BY PointerAssumption DEF Unmanage, Thawed, Acts, PointerInv, PointerTypeOK
<1>2. PointerTypeOK'
  BY <1>1 DEF PointerInv, PointerTypeOK, LeftTitlebar, Places
<1>3. Holders' /\ (under = "bar" => managed)'
  BY <1>1 DEF PointerInv, Holders, LeftTitlebar
<1>4. KnownPresses' /\ ToldAtMostOnce' /\ ThawIsDue'
  <2>1. Present(place)'
    BY <1>1 DEF PointerInv, KnownPresses, Present, Frame, Panel
  <2> QED BY <1>1, <2>1, NothingSent
<1>5. ClientFollows'
  BY <1>1 DEF ClientFollows
<1>6. DrawableFollows'
  <2> SUFFICES ASSUME "drawable" \in sure' PROVE Ended(xqueue', DrawableEnds', DrawableRest', DrawableRight')
    BY DEF DrawableFollows
  <2>1. place \notin Frame /\ place' = place /\ "drawable" \in sure
    BY <1>1
  <2>2. DrawableEnds' = DrawableEnds /\ DrawableRest' = DrawableRest
    BY <2>1 DEF DrawableEnds, DrawableRest, DrawableRight
  <2>3. DrawableRight => DrawableRight'
    BY <1>1, <2>1 DEF DrawableRight, LeftTitlebar, DrawableAt, Frame, PointerInv, PointerTypeOK, Places, Panel
  <2>4. Ended(xqueue, DrawableEnds, DrawableRest, DrawableRight)
    BY <2>1 DEF PointerInv, DrawableFollows
  <2> QED BY <1>1, <2>2, <2>3, <2>4 DEF Ended
<1> QED BY <1>2, <1>3, <1>4, <1>5, <1>6 DEF PointerInv

\* the drawin is hidden or shown
LEMMA VisibleKept ==
    ASSUME PointerInv, Hide \/ Show
    PROVE  PointerInv'
<1>1. /\ UNCHANGED <<clicks, moves, managed, bound, mousegrabber, under, over, told, xqueue, allow>>
      /\ shown' \in BOOLEAN /\ acts' \in 0..MaxLua
      /\ place' \in Places /\ (place' # place => place' \in {"root", "panel"})
      /\ "client" \in sure' => (place' \in Frame <=> place \in Frame)
      /\ sure' \subseteq sure /\ ("drawable" \in sure' => place' = place)
      /\ frozen' \in {frozen, "no"} /\ (frozen' = "panel" => shown')
      /\ (frozen' = frozen /\ grab' = grab) \/ (frozen' = "no" /\ grab' = "none")
      /\ Present(place)'
  <2>1. CASE Hide
    <3>1. /\ place' = (IF place \in Panel THEN "root" ELSE place) /\ place \in Places
          /\ sure' = sure \ {"drawable"} /\ shown' = FALSE /\ acts' \in 0..MaxLua
      BY <2>1, PointerAssumption DEF Hide, Acts, PointerInv, PointerTypeOK
    <3>2. /\ frozen' \in {frozen, "no"} /\ frozen' # "panel"
          /\ (frozen' = frozen /\ grab' = grab) \/ (frozen' = "no" /\ grab' = "none")
      BY <2>1 DEF Hide, Thawed
    <3>3. place' \in Places /\ (place' \in Frame <=> place \in Frame) /\ (place' # place => place' = "root")
      BY <3>1 DEF Places, Frame, Panel
    <3>4. UNCHANGED <<clicks, moves, managed, bound, mousegrabber, under, over, told, xqueue, allow>>
      BY <2>1 DEF Hide
    <3>5. Present(place)'
      BY <3>1, <3>4 DEF PointerInv, KnownPresses, Present, Frame, Panel
    <3> QED BY <3>1, <3>2, <3>3, <3>4, <3>5
  <2>2. CASE Show
    <3>1. /\ UNCHANGED <<frozen, grab, clicks, moves, managed, bound, mousegrabber, under, over, told, xqueue, allow>>
          /\ shown' = TRUE /\ acts' \in 0..MaxLua /\ place \in Places
      BY <2>2, PointerAssumption DEF Show, Acts, PointerInv, PointerTypeOK
    <3>2. (place' = place /\ sure' = sure) \/ (place' = "panel" /\ sure' = sure \ {"drawable", "client"})
      BY <2>2 DEF Show
    <3>3. place' \in Places /\ "panel" \notin Frame
      BY <3>1, <3>2 DEF Places, Frame, Panel
    <3>4. Present(place)'
      BY <3>1, <3>2, <3>3 DEF PointerInv, KnownPresses, Present
    <3> QED BY <3>1, <3>2, <3>3, <3>4
  <2> QED BY <2>1, <2>2
<1>2. PointerTypeOK'
  BY <1>1 DEF PointerInv, PointerTypeOK
<1>3. Holders' /\ (under = "bar" => managed)'
  BY <1>1 DEF PointerInv, Holders
<1>4. KnownPresses' /\ ToldAtMostOnce' /\ ThawIsDue'
  BY <1>1, NothingSent
<1>5. ClientFollows'
  <2> SUFFICES ASSUME "client" \in sure' PROVE ClientFollows'
    BY DEF ClientFollows
  <2>1. (place' \in Frame <=> place \in Frame) /\ "client" \in sure
    BY <1>1
  <2>2. FrameEnds' = FrameEnds /\ FrameRight' = FrameRight
    BY <1>1, <2>1 DEF FrameEnds, FrameRight
  <2> QED BY <1>1, <2>1, <2>2 DEF PointerInv, ClientFollows
<1>6. DrawableFollows'
  BY <1>1 DEF PointerInv, DrawableFollows, DrawableEnds, DrawableRest, DrawableRight
<1> QED BY <1>2, <1>3, <1>4, <1>5, <1>6 DEF PointerInv
-----------------------------------------------------------------------------
(* The handlers of event.c *)

LEMMA TakenEvent ==
    ASSUME PointerInv, Handled
    PROVE  /\ xqueue \in Seq(XEvent) /\ xqueue # <<>> /\ Head(xqueue) \in XEvent /\ 1 \in DOMAIN xqueue
           /\ Head(xqueue) = xqueue[1] /\ xqueue' = Tail(xqueue) /\ xqueue' \in Seq(XEvent)
           /\ \A i \in DOMAIN xqueue' : i + 1 \in DOMAIN xqueue /\ xqueue'[i] = xqueue[i + 1] /\ i # 0 /\ i \in Nat
           /\ \A i \in DOMAIN xqueue : i # 1 => i - 1 \in DOMAIN xqueue' /\ xqueue'[i - 1] = xqueue[i]
<1>1. xqueue \in Seq(XEvent) /\ xqueue # <<>> /\ xqueue' = Tail(xqueue)
  BY DEF PointerInv, PointerTypeOK, Handled
<1>2. /\ DOMAIN xqueue' = 1..(Len(xqueue) - 1) /\ DOMAIN xqueue = 1..Len(xqueue) /\ Len(xqueue) \in Nat /\ Len(xqueue) > 0
      /\ Head(xqueue) = xqueue[1] /\ \A i \in 1..(Len(xqueue) - 1) : xqueue'[i] = xqueue[i + 1]
      /\ xqueue' \in Seq(XEvent) /\ Head(xqueue) \in XEvent
  BY <1>1
<1> QED BY <1>1, <1>2

LEMMA PressesLeft ==
    ASSUME PointerInv, Handled, UNCHANGED <<place, managed, shown, clicks>>, allow' # Nothing => allow'.click \in 1..clicks
    PROVE  /\ KnownPresses'
           /\ told' = told => ToldAtMostOnce'
           /\ frozen' = frozen /\ Head(xqueue).kind # "press" /\ mousegrabber' = mousegrabber => ThawIsDue'
<1>1. KnownPresses'
  <2>1. Present(place)'
    BY DEF PointerInv, KnownPresses, Present
  <2>2. ASSUME NEW i \in DOMAIN xqueue', xqueue'[i].kind = "press" PROVE xqueue'[i].click \in 1..clicks
    BY <2>2, TakenEvent DEF PointerInv, KnownPresses
  <2> QED BY <2>1, <2>2 DEF KnownPresses, Nothing
<1>2. ASSUME told' = told PROVE ToldAtMostOnce'
  <2>1. ASSUME NEW i \in DOMAIN xqueue', NEW j \in DOMAIN xqueue',
               Tells(xqueue'[i]), Tells(xqueue'[j]), xqueue'[i].click = xqueue'[j].click
        PROVE  i = j
    <3>1. /\ i + 1 \in DOMAIN xqueue /\ j + 1 \in DOMAIN xqueue /\ i \in Nat /\ j \in Nat
          /\ xqueue'[i] = xqueue[i + 1] /\ xqueue'[j] = xqueue[j + 1]
      BY TakenEvent
    <3>2. i + 1 = j + 1
      BY <2>1, <3>1 DEF PointerInv, ToldAtMostOnce
    <3> QED BY <3>1, <3>2
  <2>2. \A i \in DOMAIN xqueue' : Tells(xqueue'[i]) => told'[xqueue'[i].click] = 0
    BY <1>2, TakenEvent DEF PointerInv, ToldAtMostOnce
  <2>3. \A n \in 1..MaxClicks : told'[n] <= 1 /\ (n > clicks' => told'[n] = 0)
    BY <1>2 DEF PointerInv, ToldAtMostOnce
  <2> QED BY <2>1, <2>2, <2>3 DEF ToldAtMostOnce, Tells, FirstPress
<1>3. ASSUME frozen' = frozen, Head(xqueue).kind # "press", mousegrabber' = mousegrabber PROVE ThawIsDue'
  <2> SUFFICES ASSUME frozen \in {"inside", "panel"}, ~mousegrabber
               PROVE  \E i \in DOMAIN xqueue' : Freezing(xqueue[i])'
    BY <1>3 DEF ThawIsDue
  <2>1. allow = Nothing /\ Nothing.mode = "none"
    BY DEF Handled, Nothing
  <2>2. PICK i \in DOMAIN xqueue : Freezing(xqueue[i])
    BY <2>1 DEF PointerInv, ThawIsDue
  <2>3. i # 1
    BY <1>3, <2>2, TakenEvent DEF Freezing
  <2>4. i - 1 \in DOMAIN xqueue' /\ xqueue'[i - 1] = xqueue[i]
    BY <2>3, TakenEvent
  <2> QED BY <1>3, <2>2, <2>4 DEF Freezing
<1> QED BY <1>1, <1>2, <1>3

LEMMA FollowsLeft ==
    ASSUME PointerInv, Handled, UNCHANGED <<place, sure, managed>>,
           "drawable" \in sure /\ (Head(xqueue) \in DrawableEnds \/ (DrawableRight /\ Head(xqueue) \in DrawableRest))
             => DrawableRight',
           "client" \in sure /\ managed /\ (Head(xqueue) \in FrameEnds \/ (FrameRight /\ Head(xqueue) \in XEvent \ FrameCrossing))
             => FrameRight'
    PROVE  DrawableFollows' /\ ClientFollows'
<1>1. xqueue \in Seq(XEvent) /\ xqueue # <<>> /\ xqueue' = Tail(xqueue)
  BY TakenEvent
<1>2. DrawableEnds' = DrawableEnds /\ DrawableRest' = DrawableRest /\ FrameEnds' = FrameEnds
  BY DEF DrawableEnds, DrawableRest, FrameEnds
<1>3. ASSUME "drawable" \in sure PROVE Ended(xqueue', DrawableEnds, DrawableRest, DrawableRight')
  <2>1. Ended(xqueue, DrawableEnds, DrawableRest, DrawableRight)
    BY <1>3 DEF PointerInv, DrawableFollows
  <2> QED BY <1>1, <1>3, <2>1, EndedTail
<1>4. ASSUME "client" \in sure, managed PROVE Ended(xqueue', FrameEnds, XEvent \ FrameCrossing, FrameRight')
  <2>1. Ended(xqueue, FrameEnds, XEvent \ FrameCrossing, FrameRight)
    BY <1>4 DEF PointerInv, ClientFollows
  <2> QED BY <1>1, <1>4, <2>1, EndedTail
<1>5. DrawableFollows'
  BY <1>2, <1>3 DEF DrawableFollows
<1>6. ClientFollows'
  BY <1>2, <1>4 DEF ClientFollows
<1> QED BY <1>5, <1>6

LEMMA HandleGrabbedKept ==
    ASSUME PointerInv, HandleGrabbed
    PROVE  PointerInv'
<1>0. /\ Handled /\ mousegrabber /\ Head(xqueue).kind \in {"press", "motion"}
      /\ UNCHANGED <<place, clicks, moves, managed, shown, bound, under, over, told, allow, acts, sure>>
  BY DEF HandleGrabbed
<1>1. /\ mousegrabber' \in BOOLEAN /\ frozen' \in {frozen, "no"} /\ grab' \in {grab, "none"}
      /\ frozen' # "no" => frozen' = frozen /\ grab' = grab /\ mousegrabber'
      /\ grab' = "ours" => mousegrabber'
  BY <1>0 DEF HandleGrabbed, Ungrabbed, PointerInv, PointerTypeOK, Holders
<1>2. xqueue' \in Seq(XEvent)
  BY <1>0, TakenEvent
<1>3. PointerTypeOK'
  BY <1>0, <1>1, <1>2 DEF PointerInv, PointerTypeOK
<1>4. Holders' /\ ThawIsDue' /\ (under = "bar" => managed)'
  BY <1>0, <1>1 DEF PointerInv, Holders, ThawIsDue
<1>5. KnownPresses' /\ ToldAtMostOnce'
  <2>1. allow' # Nothing => allow'.click \in 1..clicks
    BY <1>0 DEF Handled
  <2> QED BY <1>0, <2>1, PressesLeft
<1>6. DrawableFollows' /\ ClientFollows'
  <2>1. Head(xqueue) \notin DrawableEnds /\ Head(xqueue) \notin FrameEnds
    BY <1>0 DEF DrawableEnds, FrameEnds, FrameCrossing
  <2>2. DrawableRight' = DrawableRight /\ FrameRight' = FrameRight
    BY <1>0 DEF DrawableRight, FrameRight
  <2> QED BY <1>0, <2>1, <2>2, FollowsLeft
<1> QED BY <1>3, <1>4, <1>5, <1>6 DEF PointerInv

LEMMA HandlePressKept ==
    ASSUME PointerInv, HandlePress
    PROVE  PointerInv'
<1> DEFINE client(e) == managed /\ e.window \in {"client", "frame"}
           panel(e) == shown /\ (e.window = "panel" \/ (e.at \in Panel /\ e.window = "root"))
<1>e. PICK e \in XEvent : e = Head(xqueue)
  BY TakenEvent DEF HandlePress
<1>0. /\ Handled /\ ~mousegrabber /\ e.kind = "press" /\ e = xqueue[1] /\ 1 \in DOMAIN xqueue
      /\ told' = IF client(e) /\ FirstPress(e) THEN [told EXCEPT ![e.click] = @ + 1] ELSE told
      /\ allow' = IF (panel(e) \/ client(e)) /\ AllowMode(e) # "none"
                  THEN [mode |-> AllowMode(e), click |-> e.click] ELSE Nothing
      /\ UNCHANGED <<xdata, managed, shown, bound, mousegrabber, under, over, acts, sure>>
  BY <1>e, TakenEvent DEF HandlePress
<1>1. e.click \in 1..clicks /\ e.click \in 1..MaxClicks /\ clicks \in Nat /\ clicks <= MaxClicks
  BY <1>0, PointerAssumption DEF PointerInv, KnownPresses, PointerTypeOK
<1>2. AllowMode(e) \in {"none", "replay", "async"}
  BY DEF AllowMode
<1>3. allow' # Nothing => allow'.click \in 1..clicks
  BY <1>0, <1>1
<1>4. allow' \in [mode : {"none", "replay", "async"}, click : 0..MaxClicks] /\ told' \in [1..MaxClicks -> Nat]
  <2>1. Nothing \in [mode : {"none", "replay", "async"}, click : 0..MaxClicks]
    BY PointerAssumption DEF Nothing
  <2>2. [mode |-> AllowMode(e), click |-> e.click] \in [mode : {"none", "replay", "async"}, click : 0..MaxClicks]
    BY <1>1, <1>2
  <2>3. told' \in [1..MaxClicks -> Nat]
    BY <1>0, <1>1 DEF PointerInv, PointerTypeOK
  <2> QED BY <1>0, <2>1, <2>2, <2>3
<1>5. PointerTypeOK' /\ Holders' /\ (under = "bar" => managed)'
  <2>1. xqueue' \in Seq(XEvent)
    BY <1>0, TakenEvent
  <2>2. PointerTypeOK'
    BY <1>0, <1>4, <2>1 DEF PointerInv, PointerTypeOK, xdata
  <2> QED BY <1>0, <2>2 DEF PointerInv, Holders, xdata
<1>6. KnownPresses'
  BY <1>0, <1>3, PressesLeft DEF xdata
<1>7. ToldAtMostOnce'
  <2>1. CASE ~(client(e) /\ FirstPress(e))
    BY <1>0, <1>3, <2>1, PressesLeft DEF xdata
  <2>2. CASE client(e) /\ FirstPress(e)
    <3>1. Tells(e) /\ told[e.click] = 0
      BY <1>0, <2>2 DEF PointerInv, ToldAtMostOnce, Tells
    <3>2. told'[e.click] = 1 /\ \A n \in 1..MaxClicks : n # e.click => told'[n] = told[n]
      BY <1>0, <1>1, <2>2, <3>1 DEF PointerInv, PointerTypeOK
    <3>3. \A i \in DOMAIN xqueue' : Tells(xqueue'[i]) => xqueue'[i].click # e.click /\ told[xqueue'[i].click] = 0
      <4>1. ASSUME NEW i \in DOMAIN xqueue', Tells(xqueue'[i])
            PROVE  xqueue'[i].click # e.click /\ told[xqueue'[i].click] = 0
        <5>1. i + 1 \in DOMAIN xqueue /\ xqueue'[i] = xqueue[i + 1] /\ i + 1 # 1
          BY <1>0, TakenEvent
        <5> QED BY <1>0, <3>1, <4>1, <5>1 DEF PointerInv, ToldAtMostOnce
      <4> QED BY <4>1
    <3>4. \A i \in DOMAIN xqueue' : Tells(xqueue'[i]) => told'[xqueue'[i].click] = 0
      <4>1. ASSUME NEW i \in DOMAIN xqueue', Tells(xqueue'[i]) PROVE told'[xqueue'[i].click] = 0
        <5>1. xqueue'[i].click \in 1..clicks'
          BY <1>6, <4>1 DEF KnownPresses, Tells
        <5>2. clicks' = clicks /\ clicks \in 0..MaxClicks /\ MaxClicks \in Nat
          BY <1>0, PointerAssumption DEF xdata, PointerInv, PointerTypeOK
        <5>3. xqueue'[i].click \in 1..MaxClicks
          BY <5>1, <5>2
        <5> QED BY <3>2, <3>3, <4>1, <5>3
      <4> QED BY <4>1
    <3>5. ASSUME NEW i \in DOMAIN xqueue', NEW j \in DOMAIN xqueue',
                 Tells(xqueue'[i]), Tells(xqueue'[j]), xqueue'[i].click = xqueue'[j].click
          PROVE  i = j
      <4>1. /\ i + 1 \in DOMAIN xqueue /\ j + 1 \in DOMAIN xqueue /\ i \in Nat /\ j \in Nat
            /\ xqueue'[i] = xqueue[i + 1] /\ xqueue'[j] = xqueue[j + 1]
        BY <1>0, TakenEvent
      <4>2. i + 1 = j + 1
        BY <3>5, <4>1 DEF PointerInv, ToldAtMostOnce
      <4> QED BY <4>1, <4>2
    <3>6. \A n \in 1..MaxClicks : told'[n] <= 1 /\ (n > clicks' => told'[n] = 0)
      BY <1>0, <1>1, <3>2 DEF PointerInv, ToldAtMostOnce, xdata
    <3> QED BY <3>4, <3>5, <3>6 DEF ToldAtMostOnce, Tells, FirstPress
  <2> QED BY <2>1, <2>2
<1>8. ThawIsDue'
  <2> SUFFICES ASSUME frozen \in {"inside", "panel"}
               PROVE  \/ allow'.mode # "none" /\ allow'.click = clicks
                      \/ \E i \in DOMAIN xqueue' : Freezing(xqueue[i])'
    BY <1>0 DEF ThawIsDue, xdata
  <2>1. PICK i \in DOMAIN xqueue : Freezing(xqueue[i])
    BY <1>0 DEF PointerInv, ThawIsDue, Handled, Nothing
  <2>2. CASE i = 1
    <3>1. e.click = clicks /\ ~e.child /\ e.window = GrabbedBy(frozen)
      BY <1>0, <2>1, <2>2 DEF Freezing
    <3>2. (panel(e) \/ client(e)) /\ AllowMode(e) # "none"
      BY <3>1 DEF PointerInv, Holders, AllowMode, GrabbedBy, Panel
    <3>3. allow' = [mode |-> AllowMode(e), click |-> e.click]
      BY <1>0, <3>2
    <3> QED BY <3>1, <3>2, <3>3
  <2>3. CASE i # 1
    <3>1. i - 1 \in DOMAIN xqueue' /\ xqueue'[i - 1] = xqueue[i]
      BY <1>0, <2>3, TakenEvent
    <3> QED BY <1>0, <2>1, <3>1 DEF Freezing, xdata
  <2> QED BY <2>2, <2>3
<1>9. DrawableFollows' /\ ClientFollows'
  <2>1. Head(xqueue) \notin DrawableEnds /\ Head(xqueue) \notin FrameEnds
    BY <1>e, <1>0 DEF DrawableEnds, FrameEnds, FrameCrossing
  <2>2. DrawableRight' = DrawableRight /\ FrameRight' = FrameRight
    BY <1>0 DEF DrawableRight, FrameRight, xdata
  <2> QED BY <1>0, <2>1, <2>2, FollowsLeft DEF xdata
<1> QED BY <1>5, <1>6, <1>7, <1>8, <1>9 DEF PointerInv

\* crossings and movements: the ones that matter set the record right
LEMMA CrossingKept ==
    ASSUME PointerInv, HandleMotion \/ HandleLeave \/ HandleEnter
    PROVE  PointerInv'
<1>e. PICK e \in XEvent : e = Head(xqueue)
  BY TakenEvent DEF HandleMotion, HandleLeave, HandleEnter
<1>0. /\ Handled /\ e.kind \in {"motion", "leave", "enter"} /\ place \in Places /\ e.at \in Places
      /\ UNCHANGED <<xdata, managed, shown, bound, mousegrabber, told, allow, acts, sure>>
  BY <1>e DEF HandleMotion, HandleLeave, HandleEnter, PointerInv, PointerTypeOK, XEvent
<1>1. \A p \in Places : DrawableAt(p) \in {"none", "bar", "panel"} /\ (DrawableAt(p) = "bar" => p \in Frame)
  BY DEF DrawableAt, Places, Frame, Panel
<1>2. /\ under' \in {"none", "bar", "panel"} /\ over' \in BOOLEAN
      /\ under' = "bar" => managed
  <2>1. under \in {"none", "bar", "panel"} /\ over \in BOOLEAN /\ (under = "bar" => managed)
    BY DEF PointerInv, PointerTypeOK
  <2>2. CASE HandleMotion
    BY <1>e, <1>0, <1>1, <2>1, <2>2 DEF HandleMotion, Present
  <2>3. CASE HandleLeave
    BY <1>e, <1>0, <1>1, <2>1, <2>3 DEF HandleLeave, Left
  <2>4. CASE HandleEnter
    BY <1>e, <1>0, <1>1, <2>1, <2>4 DEF HandleEnter
  <2> QED BY <2>2, <2>3, <2>4
<1>3. PointerTypeOK' /\ Holders' /\ (under = "bar" => managed)'
  <2>1. xqueue' \in Seq(XEvent)
    BY <1>0, TakenEvent
  <2>2. PointerTypeOK'
    BY <1>0, <1>2, <2>1 DEF PointerInv, PointerTypeOK, xdata
  <2> QED BY <1>0, <1>2, <2>2 DEF PointerInv, Holders, xdata
<1>4. KnownPresses' /\ ToldAtMostOnce' /\ ThawIsDue'
  <2>1. allow' # Nothing => allow'.click \in 1..clicks
    BY <1>0 DEF Handled
  <2> QED BY <1>e, <1>0, <2>1, PressesLeft DEF xdata
<1>5. DrawableFollows' /\ ClientFollows'
  <2>0. UNCHANGED <<place, sure, managed>> /\ Present(place) /\ DrawableRight' = (under' = DrawableAt(place))
        /\ FrameRight' = (over' = (place \in Frame))
    BY <1>0 DEF xdata, PointerInv, KnownPresses, DrawableRight, FrameRight
  <2>1. e \in DrawableEnds \/ (DrawableRight /\ e \in DrawableRest) => DrawableRight'
    <3>1. CASE HandleMotion
      BY <1>e, <1>0, <2>0, <3>1 DEF HandleMotion, DrawableEnds, DrawableRest, DrawableRight
    <3>2. CASE HandleLeave
      BY <1>e, <1>0, <2>0, <3>2 DEF HandleLeave, Left, DrawableEnds, DrawableRest, DrawableRight, Present
    <3>3. CASE HandleEnter
      BY <1>e, <1>0, <2>0, <3>3 DEF HandleEnter, DrawableEnds, DrawableRest, DrawableRight, Present, DrawableAt, Frame, Panel
    <3> QED BY <3>1, <3>2, <3>3
  <2>2. managed /\ (e \in FrameEnds \/ (FrameRight /\ e \in XEvent \ FrameCrossing)) => FrameRight'
    <3>1. CASE HandleMotion
      BY <1>e, <1>0, <2>0, <3>1 DEF HandleMotion, FrameEnds, FrameCrossing, FrameRight
    <3>2. CASE HandleLeave
      <4>1. e.kind = "leave" /\ e.kind # "enter"
            /\ over' = (IF e.window = "frame" /\ managed /\ ~e.child THEN FALSE ELSE over)
        BY <1>e, <3>2 DEF HandleLeave
      <4>2. ASSUME managed, e \in FrameEnds PROVE FrameRight'
        <5>1. e.window = "frame" /\ ~e.child /\ place \notin Frame
          BY <4>1, <4>2 DEF FrameEnds, FrameCrossing
        <5>2. over' = FALSE
          BY <4>1, <4>2, <5>1
        <5>3. (place \in Frame) = FALSE
          BY <5>1
        <5> QED BY <2>0, <5>2, <5>3
      <4>3. ASSUME FrameRight, e \in XEvent \ FrameCrossing PROVE FrameRight'
        <5>1. ~(e.window = "frame" /\ managed /\ ~e.child)
          BY <4>1, <4>3 DEF FrameCrossing
        <5>2. over' = over
          BY <4>1, <5>1
        <5> QED BY <2>0, <4>3, <5>2 DEF FrameRight
      <4> QED BY <4>2, <4>3
    <3>3. CASE HandleEnter
      BY <1>e, <1>0, <2>0, <3>3 DEF HandleEnter, FrameEnds, FrameCrossing, FrameRight
    <3> QED BY <1>0, <3>1, <3>2, <3>3
  <2> QED BY <1>e, <1>0, <2>0, <2>1, <2>2, FollowsLeft
<1> QED BY <1>3, <1>4, <1>5 DEF PointerInv

-----------------------------------------------------------------------------

LEMMA PointerStart == PointerInit => PointerInv
<1> SUFFICES ASSUME PointerInit PROVE PointerInv
  OBVIOUS
<1>1. DOMAIN xqueue = {} /\ xqueue = <<>> /\ <<>> \in Seq(XEvent) /\ 0 \in 0..MaxClicks /\ 0 \in 0..MaxMoves /\ 0 \in 0..MaxLua
  BY PointerAssumption DEF PointerInit
<1>2. PointerTypeOK
  <2>1. Nothing \in [mode : {"none", "replay", "async"}, click : 0..MaxClicks]
    BY <1>1 DEF Nothing
  <2> QED BY <1>1, <2>1 DEF PointerInit, PointerTypeOK, Places
<1>3. KnownPresses /\ Holders /\ ThawIsDue
  BY <1>1 DEF PointerInit, KnownPresses, Holders, ThawIsDue, Present, Frame, Panel
<1>4. ToldAtMostOnce
  BY <1>1 DEF PointerInit, ToldAtMostOnce
<1>5. DrawableRight /\ FrameRight
  <2>1. place = "root" /\ under = "none" /\ over = FALSE
    BY DEF PointerInit
  <2>2. DrawableAt("root") = "none" /\ "root" \notin Frame
    BY DEF DrawableAt, Frame, Panel
  <2>3. DrawableRight
    BY <2>1, <2>2 DEF DrawableRight
  <2>4. (place \in Frame) = FALSE
    BY <2>1, <2>2
  <2>5. FrameRight
    BY <2>1, <2>4 DEF FrameRight
  <2> QED BY <2>3, <2>5
<1>6. DrawableFollows /\ ClientFollows
  BY <1>1, <1>5 DEF DrawableFollows, ClientFollows, Ended
<1> QED BY <1>2, <1>3, <1>4, <1>6 DEF PointerInv, PointerInit

LEMMA PointerStep == PointerInv /\ [PointerNext]_pointerVars => PointerInv'
<1> SUFFICES ASSUME PointerInv, [PointerNext]_pointerVars PROVE PointerInv'
  OBVIOUS
<1>1. CASE UNCHANGED pointerVars
  <2>1. UNCHANGED <<place, managed, shown, bound, xqueue, frozen, grab, mousegrabber, allow, under, over, told,
                    clicks, moves, acts, sure>>
    BY <1>1 DEF pointerVars, xdata, luadata
  <2>2. PointerTypeOK' /\ Holders' /\ (under = "bar" => managed)'
    BY <2>1 DEF PointerInv, PointerTypeOK, Holders
  <2>3. KnownPresses' /\ ToldAtMostOnce' /\ ThawIsDue'
    <3>1. Present(place)'
      BY <2>1 DEF PointerInv, KnownPresses, Present
    <3> QED BY <2>1, <3>1, NothingSent
  <2>4. DrawableFollows' /\ ClientFollows'
    BY <2>1 DEF PointerInv, DrawableFollows, ClientFollows, DrawableEnds, DrawableRest, FrameEnds, DrawableRight, FrameRight
  <2> QED BY <2>2, <2>3, <2>4 DEF PointerInv
<1>2. CASE PointerNext
  BY <1>2, ClickKept, AllowEventsKept, MoveKept, GrabsKept, UnmanageKept, VisibleKept,
     HandleGrabbedKept, HandlePressKept, CrossingKept DEF PointerNext
<1> QED BY <1>1, <1>2

LEMMA PointerInvShows == PointerInv => PointerFree /\ MouseRight
<1> SUFFICES ASSUME PointerInv PROVE PointerFree /\ MouseRight
  OBVIOUS
<1>1. PointerThaws
  <2>1. DOMAIN xqueue = 1..Len(xqueue)
    BY DEF PointerInv, PointerTypeOK
  <2>2. frozen \in {"no", "inside", "panel", "icon"} /\ Nothing.mode = "none"
    BY DEF PointerInv, PointerTypeOK, Nothing
  <2> QED BY <2>1, <2>2 DEF PointerInv, ThawIsDue, Freezing, PointerThaws
<1>2. GrabberReleases /\ ToldOnce
  BY DEF PointerInv, Holders, GrabberReleases, ToldAtMostOnce, ToldOnce
<1>3. UnderMouseRight
  <2>1. xqueue = <<>> /\ "drawable" \in sure => DrawableRight
    BY EndedEmpty DEF PointerInv, DrawableFollows
  <2>2. xqueue = <<>> /\ "client" \in sure /\ managed => FrameRight
    BY EndedEmpty DEF PointerInv, ClientFollows
  <2> QED BY <2>1, <2>2 DEF UnderMouseRight, DrawableRight, FrameRight, PointerInv
<1> QED BY <1>1, <1>2, <1>3 DEF PointerFree, MouseRight, PointerInv

\* The press that froze the pointer is always followed by the request that thaws
\* it, and a mouse grabber that stopped has let the pointer go (event.c, mousegrabber.c).
THEOREM PointerSafe == PointerSpec => []PointerFree
<1>1. PointerInit => PointerInv
  BY PointerStart
<1>2. PointerInv /\ [PointerNext]_pointerVars => PointerInv'
  BY PointerStep
<1>3. PointerInv => PointerFree
  BY PointerInvShows
<1> QED BY <1>1, <1>2, <1>3, PTL DEF PointerSpec

\* Lua hears of a press once, and when all is handled the records of what the
\* pointer is over are right, however far the events lag behind (event.c).
THEOREM MouseSafe == PointerSpec => []MouseRight
<1>1. PointerInit => PointerInv
  BY PointerStart
<1>2. PointerInv /\ [PointerNext]_pointerVars => PointerInv'
  BY PointerStep
<1>3. PointerInv => MouseRight
  BY PointerInvShows
<1> QED BY <1>1, <1>2, <1>3, PTL DEF PointerSpec

-----------------------------------------------------------------------------
\* the keymap that is not loaded yet will be: a refresh is due, or an event that makes it due
MapEvents == {e \in KeyEvent : e.type \in {"keyboard", "map"}}
MapIsLoaded == loaded = keymap \/ "reload" \in flags
MapFollows == haveXkb => Ended(events, MapEvents, KeyEvent, MapIsLoaded)

\* the last event about the group has the group of the server
GroupEvents == {e \in KeyEvent : e.type = "state" /\ e.group = group}
GroupRest == {e \in KeyEvent : e.type # "state"}
GroupKnown == state = group
GroupFollows == haveXkb => Ended(events, GroupEvents, GroupRest, GroupKnown)

\* what X has grabbed for keys that did not change since
GrabsLoaded ==
    \A w \in Window :
        HasWindow(w) /\ OwnerOf(w) \notin touched => grabs[w] = GrabKeys(keys[OwnerOf(w)], loaded)

KeyboardInv ==
    /\ KeyboardTypeOK /\ MapFollows /\ GroupFollows /\ GrabsLoaded /\ NoKeyLost
    /\ flags # {} => "pending" \in flags
-----------------------------------------------------------------------------
(* The operators of the model *)

\* only keycodes of the keyboard are grabbed
LEMMA GrabsAreCodes ==
    ASSUME KeyboardTypeOK, NEW ks \in SUBSET Key, NEW m \in DOMAIN Keymap
    PROVE  GrabKeys(ks, m) \in SUBSET Code
<1>1. ASSUME NEW k \in ks PROVE Codes(k, m) \subseteq Code
  <2>1. object[k].code \in Code \cup {0}
    BY DEF KeyboardTypeOK
  <2> QED BY <2>1 DEF Codes
<1> QED BY <1>1 DEF GrabKeys

LEMMA Owners == \A w \in Window : OwnerOf(w) \in Owner
BY DEF Window, Owner, OwnerOf

\* what the server sends is an event, if it is told that there is xkb
LEMMA SentKeyEvent ==
    ASSUME KeyboardInv, NEW e \in KeyEvent, Sent(e)
    PROVE  /\ events' \in Seq(KeyEvent)
           /\ haveXkb => events' = Append(events, e)
<1>1. events \in Seq(KeyEvent)
  BY DEF KeyboardInv, KeyboardTypeOK
<1> QED BY <1>1, AppendElements DEF Sent

\* an event that is none of its kind leaves what follows as it was
LEMMA AppendKeyEvent ==
    ASSUME KeyboardInv, NEW e \in KeyEvent, events' = Append(events, e), UNCHANGED <<haveXkb, loaded, flags, state>>,
           (keymap' = keymap \/ e \in MapEvents),
           (group' = group /\ e \in GroupRest) \/ e \in GroupEvents'
    PROVE  MapFollows' /\ GroupFollows'
<1>1. events \in Seq(KeyEvent) /\ (haveXkb => Ended(events, MapEvents, KeyEvent, MapIsLoaded))
      /\ (haveXkb => Ended(events, GroupEvents, GroupRest, GroupKnown))
  BY DEF KeyboardInv, KeyboardTypeOK, MapFollows, GroupFollows
<1>2. MapFollows'
  <2> SUFFICES ASSUME haveXkb PROVE Ended(events', MapEvents, KeyEvent, MapIsLoaded')
    BY DEF MapFollows, MapEvents
  <2>1. CASE e \in MapEvents
    BY <1>1, <2>1, EndedAppend
  <2>2. CASE keymap' = keymap
    <3>1. MapIsLoaded' = MapIsLoaded
      BY <2>2 DEF MapIsLoaded
    <3> QED BY <1>1, <3>1, EndedAppend
  <2> QED BY <2>1, <2>2
<1>3. GroupFollows'
  <2> SUFFICES ASSUME haveXkb PROVE Ended(events', GroupEvents', GroupRest, GroupKnown')
    BY DEF GroupFollows, GroupRest
  <2>1. CASE e \in GroupEvents'
    BY <1>1, <2>1, EndedAppend
  <2>2. CASE group' = group /\ e \in GroupRest
    <3>1. GroupKnown' = GroupKnown /\ GroupEvents' = GroupEvents
      BY <2>2 DEF GroupKnown, GroupEvents
    <3> QED BY <1>1, <2>2, <3>1, EndedAppend
  <2> QED BY <2>1, <2>2
<1> QED BY <1>2, <1>3

\* the first event is one of them, and goes
LEMMA ArrivedKeyEvent ==
    ASSUME KeyboardInv, NEW type, Arrives(type)
    PROVE  /\ Head(events) \in KeyEvent /\ Head(events).type = type
           /\ events # <<>> /\ events' = Tail(events) /\ events \in Seq(KeyEvent) /\ events' \in Seq(KeyEvent)
<1>1. events \in Seq(KeyEvent) /\ events # <<>>
  BY DEF KeyboardInv, KeyboardTypeOK, Arrives
<1> QED BY <1>1, TailElements DEF Arrives

\* it is handled
LEMMA TailKeyEvent ==
    ASSUME KeyboardInv, NEW type, Arrives(type), UNCHANGED <<haveXkb, keymap, group>>,
           Head(events) \in MapEvents => MapIsLoaded',
           MapIsLoaded => MapIsLoaded',
           Head(events) \in GroupEvents => GroupKnown',
           GroupKnown /\ Head(events) \in GroupRest => GroupKnown'
    PROVE  MapFollows' /\ GroupFollows'
<1>1. events # <<>> /\ events' = Tail(events) /\ events \in Seq(KeyEvent)
  BY ArrivedKeyEvent
<1>2. (haveXkb => Ended(events, MapEvents, KeyEvent, MapIsLoaded))
      /\ (haveXkb => Ended(events, GroupEvents, GroupRest, GroupKnown))
  BY DEF KeyboardInv, MapFollows, GroupFollows
<1>3. MapFollows'
  <2> SUFFICES ASSUME haveXkb PROVE Ended(events', MapEvents, KeyEvent, MapIsLoaded')
    BY DEF MapFollows, MapEvents
  <2> QED BY <1>1, <1>2, EndedTail
<1>4. GroupFollows'
  <2> SUFFICES ASSUME haveXkb PROVE Ended(events', GroupEvents, GroupRest, GroupKnown')
    BY DEF GroupFollows, GroupRest, GroupEvents
  <2> QED BY <1>1, <1>2, EndedTail
<1> QED BY <1>3, <1>4

\* nothing of that changes
LEMMA FollowLeft ==
    ASSUME KeyboardInv, UNCHANGED <<haveXkb, keymap, group, loaded, state, flags, events>>
    PROVE  MapFollows' /\ GroupFollows'
<1>1. MapIsLoaded' = MapIsLoaded /\ GroupKnown' = GroupKnown /\ GroupEvents' = GroupEvents
  BY DEF MapIsLoaded, GroupKnown, GroupEvents
<1> QED BY <1>1 DEF KeyboardInv, MapFollows, GroupFollows, MapEvents, GroupRest

\* the grabs of windows whose keys stay
LEMMA GrabsLeft ==
    ASSUME KeyboardInv, UNCHANGED <<bindvars, loaded>>
    PROVE  GrabsLoaded'
BY DEF KeyboardInv, GrabsLoaded, bindvars, HasWindow, GrabKeys, Codes
-----------------------------------------------------------------------------
(* Each step *)

LEMMA KeyboardStart == KeyboardInit => KeyboardInv
<1> SUFFICES ASSUME KeyboardInit PROVE KeyboardInv
  OBVIOUS
<1>1. events = <<>> /\ <<>> \in Seq(KeyEvent) /\ 0 \in 0..MaxChanges /\ 0 \in 0..MaxPresses /\ 0 \in 0..MaxSettings
      /\ 1 \in DOMAIN Keymap
  BY KeyboardAssumption DEF KeyboardInit
<1>2. KeyboardTypeOK
  BY <1>1 DEF KeyboardInit, KeyboardTypeOK
<1>3. MapFollows /\ GroupFollows
  BY <1>1, EndedEmpty DEF KeyboardInit, MapFollows, GroupFollows, MapIsLoaded, GroupKnown
<1>4. GrabsLoaded
  BY Owners DEF KeyboardInit, GrabsLoaded, GrabKeys
<1> QED BY <1>2, <1>3, <1>4 DEF KeyboardInit, KeyboardInv, NoKeyLost

\* the keyboard of the server changes
LEMMA ChangeKept ==
    ASSUME KeyboardInv, (\E m \in DOMAIN Keymap, type \in {"keyboard", "map"}, detail \in BOOLEAN : ChangeMap(m, type, detail))
                        \/ ChangeGroup \/ ForeignKeyGrab
    PROVE  KeyboardInv'
<1>t. KeyboardTypeOK /\ group \in {0, 1} /\ 1 - group \in {0, 1} /\ changes \in 0..MaxChanges /\ MaxChanges \in Nat
  BY KeyboardAssumption DEF KeyboardInv, KeyboardTypeOK
<1>0. Changes => changes' \in 0..MaxChanges
  BY <1>t DEF Changes
<1>1. ASSUME NEW m \in DOMAIN Keymap, NEW type \in {"keyboard", "map"}, NEW detail \in BOOLEAN, ChangeMap(m, type, detail)
      PROVE  KeyboardInv'
  <2> DEFINE e == [type |-> type, detail |-> detail, group |-> group]
  <2>1. e \in KeyEvent /\ e.type = type
    BY <1>t DEF KeyEvent
  <2>2. /\ Changes /\ Sent(e) /\ keymap' = m
        /\ UNCHANGED <<haveXkb, group, loaded, state, flags, bindvars, presses, settings, keygrabber, holder, lost>>
    BY <1>1 DEF ChangeMap
  <2>3. e \in MapEvents /\ e \in GroupRest
    BY <2>1 DEF MapEvents, GroupRest
  <2> HIDE DEF e
  <2>4. events' \in Seq(KeyEvent) /\ (haveXkb => events' = Append(events, e))
    BY <2>1, <2>2, SentKeyEvent
  <2>5. KeyboardTypeOK'
    BY <1>0, <1>t, <2>2, <2>4 DEF KeyboardTypeOK, bindvars
  <2>6. MapFollows' /\ GroupFollows'
    <3>1. CASE haveXkb
      BY <2>1, <2>2, <2>3, <2>4, <3>1, AppendKeyEvent
    <3>2. CASE ~haveXkb
      BY <2>2, <3>2 DEF MapFollows, GroupFollows
    <3> QED BY <3>1, <3>2
  <2> QED BY <2>2, <2>5, <2>6, GrabsLeft DEF KeyboardInv, NoKeyLost
<1>2. CASE ChangeGroup
  <2> DEFINE e == [type |-> "state", detail |-> TRUE, group |-> group']
  <2>0. group' = 1 - group
    BY <1>2 DEF ChangeGroup
  <2>1. e \in KeyEvent /\ e.type = "state" /\ e.group = group'
    BY <1>t, <2>0 DEF KeyEvent
  <2>2. /\ Changes /\ Sent(e)
        /\ UNCHANGED <<haveXkb, keymap, loaded, state, flags, bindvars, presses, settings, keygrabber, holder, lost>>
    BY <1>2 DEF ChangeGroup
  <2>3. e \in GroupEvents'
    BY <2>1 DEF GroupEvents
  <2> HIDE DEF e
  <2>4. events' \in Seq(KeyEvent) /\ (haveXkb => events' = Append(events, e))
    BY <2>1, <2>2, SentKeyEvent
  <2>5. KeyboardTypeOK'
    BY <1>0, <1>t, <2>0, <2>2, <2>4 DEF KeyboardTypeOK, bindvars
  <2>6. MapFollows' /\ GroupFollows'
    <3>1. CASE haveXkb
      BY <2>1, <2>2, <2>3, <2>4, <3>1, AppendKeyEvent
    <3>2. CASE ~haveXkb
      BY <2>2, <3>2 DEF MapFollows, GroupFollows
    <3> QED BY <3>1, <3>2
  <2> QED BY <2>2, <2>5, <2>6, GrabsLeft DEF KeyboardInv, NoKeyLost
<1>3. CASE ForeignKeyGrab
  <2>1. /\ Changes /\ holder' \in {"nobody", "ours", "foreign"}
        /\ UNCHANGED <<xkbvars, bindvars, presses, settings, events, keygrabber, lost>>
    BY <1>3 DEF ForeignKeyGrab
  <2>2. KeyboardTypeOK'
    BY <1>0, <1>t, <2>1 DEF KeyboardTypeOK, bindvars, xkbvars
  <2> QED BY <2>1, <2>2, FollowLeft, GrabsLeft DEF KeyboardInv, NoKeyLost, xkbvars
<1> QED BY <1>1, <1>2, <1>3

\* a press is an event that changes nothing yet
LEMMA PressKept ==
    ASSUME KeyboardInv, NEW c \in Code, NEW focus \in Window, Press(c, focus)
    PROVE  KeyboardInv'
<1>1. /\ presses < MaxPresses /\ presses' = presses + 1
      /\ UNCHANGED <<xkbvars, bindvars, changes, settings, keygrabber, holder, lost>>
  BY DEF Press
<1>2. PICK w \in PressedAt(focus, c) :
         events' = Append(events, [type |-> "press", window |-> w, code |-> c,
                                   due |-> \E k \in keys[OwnerOf(w)] : Matches(k, c)])
  BY DEF Press
<1>3. PICK due \in BOOLEAN : due = (\E k \in keys[OwnerOf(w)] : Matches(k, c))
  OBVIOUS
<1> DEFINE e == [type |-> "press", window |-> w, code |-> c, due |-> due]
<1>4. w \in Window
  BY <1>2 DEF PressedAt, Window
<1>5. e \in KeyEvent /\ e.type = "press"
  BY <1>4 DEF KeyEvent
<1>6. events' = Append(events, e)
  BY <1>2, <1>3
<1> HIDE DEF e
<1>7. events' \in Seq(KeyEvent)
  BY <1>5, <1>6, AppendElements DEF KeyboardInv, KeyboardTypeOK
<1>8. KeyboardTypeOK'
  <2>1. presses' \in 0..MaxPresses
    BY <1>1, KeyboardAssumption DEF KeyboardInv, KeyboardTypeOK
  <2> QED BY <1>1, <1>7, <2>1 DEF KeyboardInv, KeyboardTypeOK, xkbvars, bindvars
<1>9. MapFollows' /\ GroupFollows'
  BY <1>1, <1>5, <1>6, AppendKeyEvent DEF xkbvars, GroupRest
<1> QED BY <1>1, <1>8, <1>9, GrabsLeft DEF KeyboardInv, NoKeyLost, xkbvars

\* event_handle_xkb_notify
LEMMA HandleXkbKept ==
    ASSUME KeyboardInv, HandleKeyboard \/ HandleMap \/ HandleState
    PROVE  KeyboardInv'
<1>1. XkbFrame /\ UNCHANGED <<haveXkb, keymap, group, loaded, lost>> /\ UNCHANGED bindvars
  BY DEF HandleKeyboard, HandleMap, HandleState, XkbFrame
<1>2. ASSUME events' \in Seq(KeyEvent), state' \in {0, 1}, flags' \in SUBSET {"pending", "reload", "map", "group"},
             flags' # {} => "pending" \in flags', MapFollows', GroupFollows'
      PROVE  KeyboardInv'
  <2>1. KeyboardTypeOK'
    BY <1>1, <1>2 DEF KeyboardInv, KeyboardTypeOK, XkbFrame, bindvars, bounds
  <2> QED BY <1>1, <1>2, <2>1, GrabsLeft DEF KeyboardInv, NoKeyLost
<1>3. CASE HandleKeyboard \/ HandleMap
  <2>1. PICK type \in {"keyboard", "map"} : Arrives(type)
    BY <1>3 DEF HandleKeyboard, HandleMap
  <2>2. /\ {"pending", "reload"} \subseteq flags' /\ flags' \in SUBSET {"pending", "reload", "map", "group"}
        /\ state' = state /\ state \in {0, 1}
    BY <1>3 DEF HandleKeyboard, HandleMap, NewKeyboard, KeyboardInv, KeyboardTypeOK
  <2>3. Head(events) \in KeyEvent /\ Head(events).type = type /\ events' \in Seq(KeyEvent)
    BY <2>1, ArrivedKeyEvent
  <2>4. MapIsLoaded' /\ GroupKnown' = GroupKnown /\ Head(events) \notin GroupEvents
    BY <1>1, <2>2, <2>3 DEF MapIsLoaded, GroupKnown, GroupEvents
  <2>5. MapFollows' /\ GroupFollows'
    BY <1>1, <2>1, <2>4, TailKeyEvent
  <2> QED BY <1>2, <2>2, <2>3, <2>5
<1>4. CASE HandleState
  <2>1. Arrives("state") /\ state' = Head(events).group
        /\ flags' = IF Head(events).detail THEN flags \cup {"pending", "group"} ELSE flags
    BY <1>4 DEF HandleState
  <2>2. Head(events) \in KeyEvent /\ Head(events).type = "state" /\ events' \in Seq(KeyEvent)
    BY <2>1, ArrivedKeyEvent
  <2>3. Head(events).group \in {0, 1}
    BY <2>2 DEF KeyEvent
  <2>4. MapIsLoaded => MapIsLoaded'
    BY <1>1, <2>1 DEF MapIsLoaded
  <2>5. /\ Head(events) \notin MapEvents /\ Head(events) \notin GroupRest
        /\ Head(events) \in GroupEvents => GroupKnown'
    BY <1>1, <2>1, <2>2 DEF GroupKnown, GroupEvents, GroupRest, MapEvents
  <2>6. MapFollows' /\ GroupFollows'
    BY <1>1, <2>1, <2>4, <2>5, TailKeyEvent
  <2>7. /\ flags' \in SUBSET {"pending", "reload", "map", "group"}
        /\ flags' # {} => "pending" \in flags'
    BY <2>1 DEF KeyboardInv, KeyboardTypeOK
  <2> QED BY <1>2, <2>1, <2>2, <2>3, <2>6, <2>7
<1> QED BY <1>3, <1>4

\* xkb_refresh: a new keymap comes with its grabs
LEMMA XkbRefreshKept == ASSUME KeyboardInv, XkbRefresh PROVE KeyboardInv'
<1>1. /\ flags' = {} /\ events \in Seq(KeyEvent)
      /\ UNCHANGED <<haveXkb, keymap, group, object, keys, nofocus, clientThere, bounds, events, keygrabber, holder, lost>>
  BY DEF XkbRefresh, KeyboardInv, KeyboardTypeOK
<1>2. CASE "reload" \in flags
  <2>1. /\ loaded' = keymap /\ state' = group /\ touched' = {}
        /\ grabs' = [w \in Window |-> IF HasWindow(w) THEN GrabKeys(keys[OwnerOf(w)], keymap) ELSE {}]
    BY <1>2 DEF XkbRefresh, ReloadKeymap
  <2>2. \A w \in Window : GrabKeys(keys[OwnerOf(w)], keymap) \in SUBSET Code
    BY Owners, GrabsAreCodes DEF KeyboardInv, KeyboardTypeOK
  <2>3. grabs' \in [Window -> SUBSET Code]
    BY <2>1, <2>2
  <2>4. KeyboardTypeOK'
    BY <1>1, <2>1, <2>3 DEF KeyboardInv, KeyboardTypeOK, bounds
  <2>5. GrabsLoaded'
    BY <1>1, <2>1 DEF GrabsLoaded, HasWindow, GrabKeys, Codes
  <2>6. MapFollows'
    <3> SUFFICES ASSUME haveXkb PROVE Ended(events, MapEvents, KeyEvent, MapIsLoaded')
      BY <1>1 DEF MapFollows, MapEvents
    <3>1. MapIsLoaded'
      BY <1>1, <2>1 DEF MapIsLoaded
    <3> QED BY <1>1, <3>1 DEF Ended
  <2>7. GroupFollows'
    <3> SUFFICES ASSUME haveXkb PROVE Ended(events, GroupEvents, GroupRest, GroupKnown')
      BY <1>1 DEF GroupFollows, GroupRest, GroupEvents
    <3>1. GroupKnown' /\ Ended(events, GroupEvents, GroupRest, GroupKnown)
      BY <1>1, <2>1 DEF GroupKnown, KeyboardInv, GroupFollows
    <3> QED BY <3>1 DEF Ended
  <2> QED BY <1>1, <2>4, <2>5, <2>6, <2>7 DEF KeyboardInv, NoKeyLost
<1>3. CASE "reload" \notin flags
  <2>1. UNCHANGED <<loaded, state, grabs, touched>>
    BY <1>3 DEF XkbRefresh
  <2>2. KeyboardTypeOK'
    BY <1>1, <2>1 DEF KeyboardInv, KeyboardTypeOK, bounds
  <2>3. MapIsLoaded' = MapIsLoaded /\ GroupKnown' = GroupKnown /\ GroupEvents' = GroupEvents
    BY <1>1, <1>3, <2>1 DEF MapIsLoaded, GroupKnown, GroupEvents
  <2>4. MapFollows' /\ GroupFollows'
    BY <1>1, <2>3 DEF KeyboardInv, MapFollows, GroupFollows, MapEvents, GroupRest
  <2> QED BY <1>1, <2>1, <2>2, <2>4, GrabsLeft DEF KeyboardInv, NoKeyLost, bindvars
<1> QED BY <1>2, <1>3

\* what Lua does to keys and windows
LEMMA LuaKept ==
    ASSUME KeyboardInv,
           \/ \E k \in Key, value \in KeyValue : KeyStore(k, value)
           \/ \E ks \in SUBSET Key : RootKeys(ks) \/ ClientKeys(ks)
           \/ FocusNoFocus \/ ClientGoes
    PROVE  KeyboardInv'
<1>1. Sets /\ SetsFrame /\ UNCHANGED <<haveXkb, keymap, group, loaded, state, flags, events, lost>>
      /\ UNCHANGED <<changes, presses, keygrabber, holder>>
  BY DEF KeyStore, RootKeys, ClientKeys, FocusNoFocus, ClientGoes, SetsFrame, xkbvars
<1>2. settings' \in 0..MaxSettings
  BY <1>1, KeyboardAssumption DEF Sets, KeyboardInv, KeyboardTypeOK
<1>3. MapFollows' /\ GroupFollows'
  BY <1>1, FollowLeft
<1>4. ASSUME object' \in [Key -> [code : Code \cup {0}, sym : Symbol \cup {NoSymbol}]],
             keys' \in [Owner -> SUBSET Key], grabs' \in [Window -> SUBSET Code],
             nofocus' \in BOOLEAN, clientThere' \in BOOLEAN, touched' \subseteq Owner, GrabsLoaded'
      PROVE  KeyboardInv'
  <2>1. KeyboardTypeOK'
    BY <1>1, <1>2, <1>4 DEF KeyboardInv, KeyboardTypeOK
  <2> QED BY <1>1, <1>3, <1>4, <2>1 DEF KeyboardInv, NoKeyLost
<1>t. /\ KeyboardTypeOK /\ GrabsLoaded
      /\ object \in [Key -> [code : Code \cup {0}, sym : Symbol \cup {NoSymbol}]]
      /\ keys \in [Owner -> SUBSET Key] /\ grabs \in [Window -> SUBSET Code] /\ loaded \in DOMAIN Keymap
      /\ nofocus \in BOOLEAN /\ clientThere \in BOOLEAN /\ touched \subseteq Owner
  BY DEF KeyboardInv, KeyboardTypeOK
<1>5. ASSUME NEW k \in Key, NEW value \in KeyValue, KeyStore(k, value) PROVE KeyboardInv'
  <2>1. /\ object' = [object EXCEPT ![k] = value]
        /\ touched' = touched \cup {o \in Owner : k \in keys[o]}
        /\ UNCHANGED <<keys, grabs, nofocus, clientThere>>
    BY <1>5 DEF KeyStore
  <2>2. value \in [code : Code \cup {0}, sym : Symbol \cup {NoSymbol}]
    BY DEF KeyValue
  <2>3. GrabsLoaded'
    <3>1. ASSUME NEW w \in Window, HasWindow(w), OwnerOf(w) \notin touched'
          PROVE  grabs[w] = GrabKeys(keys[OwnerOf(w)], loaded)'
      <4>1. OwnerOf(w) \in Owner /\ OwnerOf(w) \notin touched /\ k \notin keys[OwnerOf(w)]
        BY <2>1, <3>1, Owners
      <4>2. \A x \in keys[OwnerOf(w)] : object'[x] = object[x]
        BY <1>t, <2>1, <4>1
      <4>3. \A x \in keys[OwnerOf(w)] : Codes(x, loaded)' = Codes(x, loaded)
        BY <1>1, <4>2 DEF Codes
      <4>4. GrabKeys(keys[OwnerOf(w)], loaded)' = GrabKeys(keys[OwnerOf(w)], loaded)
        BY <1>1, <2>1, <4>3 DEF GrabKeys
      <4> QED BY <1>t, <3>1, <4>1, <4>4 DEF GrabsLoaded
    <3> QED BY <2>1, <3>1 DEF GrabsLoaded, HasWindow
  <2> QED BY <1>4, <1>t, <2>1, <2>2, <2>3
<1>6. ASSUME NEW ks \in SUBSET Key, RootKeys(ks) PROVE KeyboardInv'
  <2>1. /\ keys' = [keys EXCEPT !["root"] = ks]
        /\ grabs' = [grabs EXCEPT !["root"] = GrabKeys(ks, loaded)]
        /\ touched' = touched \ {"root"}
        /\ UNCHANGED <<object, nofocus, clientThere>>
    BY <1>6 DEF RootKeys
  <2>2. GrabKeys(ks, loaded) \in SUBSET Code
    BY <1>t, GrabsAreCodes
  <2>3. \A x, m : GrabKeys(x, m)' = GrabKeys(x, m)
    BY <2>1 DEF GrabKeys, Codes
  <2>4. GrabsLoaded'
    BY <1>1, <1>t, <2>1, <2>2 DEF GrabsLoaded, HasWindow, GrabKeys, Codes, OwnerOf, Owner, Window
  <2> QED BY <1>4, <1>t, <2>1, <2>2, <2>4 DEF Owner, Window
<1>7. ASSUME NEW ks \in SUBSET Key, ClientKeys(ks) PROVE KeyboardInv'
  <2>1. /\ keys' = [keys EXCEPT !["client"] = ks]
        /\ grabs' = [w \in Window |-> IF w \in GrabbedWindows THEN GrabKeys(ks, loaded) ELSE grabs[w]]
        /\ touched' = touched \ {"client"}
        /\ UNCHANGED <<object, nofocus, clientThere>>
    BY <1>7 DEF ClientKeys
  <2>2. GrabKeys(ks, loaded) \in SUBSET Code
    BY <1>t, GrabsAreCodes
  <2>4. GrabsLoaded'
    BY <1>1, <1>t, <2>1, <2>2 DEF GrabsLoaded, HasWindow, GrabKeys, Codes, OwnerOf, Owner, Window, GrabbedWindows
  <2> QED BY <1>4, <1>t, <2>1, <2>2, <2>4 DEF Owner, Window
<1>8. CASE FocusNoFocus
  <2>1. /\ nofocus' = TRUE
        /\ grabs' = [grabs EXCEPT !["nofocus"] = GrabKeys(keys["client"], loaded)]
        /\ UNCHANGED <<object, keys, clientThere, touched>>
    BY <1>8 DEF FocusNoFocus
  <2>2. GrabKeys(keys["client"], loaded) \in SUBSET Code
    BY <1>t, GrabsAreCodes DEF Owner
  <2>4. GrabsLoaded'
    BY <1>1, <1>t, <2>1, <2>2 DEF GrabsLoaded, HasWindow, GrabKeys, Codes, OwnerOf, Owner, Window
  <2> QED BY <1>4, <1>t, <2>1, <2>2, <2>4
<1>9. CASE ClientGoes
  <2>1. /\ clientThere' = FALSE /\ nofocus' = FALSE
        /\ keys' = [keys EXCEPT !["client"] = {}]
        /\ grabs' = [grabs EXCEPT !["client"] = {}, !["nofocus"] = {}]
        /\ UNCHANGED <<object, touched>>
    BY <1>9 DEF ClientGoes
  <2>2. grabs' \in [Window -> SUBSET Code] /\ keys' \in [Owner -> SUBSET Key]
        /\ grabs'["root"] = grabs["root"] /\ keys'["root"] = keys["root"]
    BY <1>t, <2>1 DEF Window, Owner
  <2>4. GrabsLoaded'
    BY <1>1, <1>t, <2>1, <2>2 DEF GrabsLoaded, HasWindow, GrabKeys, Codes, OwnerOf, Owner, Window
  <2> QED BY <1>4, <1>t, <2>1, <2>2, <2>4
<1> QED BY <1>5, <1>6, <1>7, <1>8, <1>9

\* the key grabber, and presses that are handled
LEMMA HandleKeyKept ==
    ASSUME KeyboardInv, StartKeygrabber \/ StopKeygrabber \/ HandleKey \/ HandleGrabbedKey
    PROVE  KeyboardInv'
<1>t. KeyboardTypeOK
  BY DEF KeyboardInv
<1>1. CASE StartKeygrabber \/ StopKeygrabber
  <2>1. UNCHANGED <<xkbvars, bindvars, changes, presses, events, lost>> /\ Sets
        /\ keygrabber' \in BOOLEAN /\ holder' \in {"nobody", "ours", "foreign"}
    BY <1>1, <1>t DEF StartKeygrabber, StopKeygrabber, KeyboardUngrabbed, KeyboardTypeOK
  <2>2. settings' \in 0..MaxSettings
    BY <2>1, <1>t, KeyboardAssumption DEF Sets, KeyboardTypeOK
  <2>3. KeyboardTypeOK'
    BY <1>t, <2>1, <2>2 DEF KeyboardTypeOK, xkbvars, bindvars
  <2> QED BY <2>1, <2>3, FollowLeft, GrabsLeft DEF KeyboardInv, NoKeyLost, xkbvars
<1>2. CASE HandleKey \/ HandleGrabbedKey
  <2>1. Arrives("press") /\ UNCHANGED <<xkbvars, bindvars, bounds>>
        /\ keygrabber' \in BOOLEAN /\ holder' \in {"nobody", "ours", "foreign"}
    BY <1>2, <1>t DEF HandleKey, HandleGrabbedKey, KeyboardUngrabbed, KeyboardTypeOK
  <2>2. Head(events) \in KeyEvent /\ Head(events).type = "press" /\ events' \in Seq(KeyEvent)
    BY <2>1, ArrivedKeyEvent
  <2>3. Head(events).window \in Window
    BY <2>2 DEF KeyEvent
  <2>4. lost' = lost
    <3>1. CASE HandleGrabbedKey
      BY <3>1 DEF HandleGrabbedKey
    <3>2. CASE HandleKey
      <4>1. OwnerOf(Head(events).window) = "client" /\ clientThere => KeyOwner(Head(events)) = "client"
        BY <2>3 DEF OwnerOf, KeyOwner
      <4>2. OwnerOf(Head(events).window) # "client" => KeyOwner(Head(events)) = OwnerOf(Head(events).window)
        BY <2>3 DEF OwnerOf, KeyOwner
      <4> QED BY <3>2, <4>1, <4>2 DEF HandleKey
    <3> QED BY <1>2, <3>1, <3>2
  <2>5. KeyboardTypeOK'
    BY <1>t, <2>1, <2>2, <2>4 DEF KeyboardTypeOK, xkbvars, bindvars, bounds
  <2>6. /\ Head(events) \notin MapEvents /\ Head(events) \notin GroupEvents
        /\ MapIsLoaded' = MapIsLoaded /\ GroupKnown' = GroupKnown
    BY <2>1, <2>2 DEF MapIsLoaded, GroupKnown, MapEvents, GroupEvents, xkbvars
  <2>7. MapFollows' /\ GroupFollows'
    BY <2>1, <2>6, TailKeyEvent DEF xkbvars
  <2> QED BY <2>1, <2>4, <2>5, <2>7, GrabsLeft DEF KeyboardInv, NoKeyLost, xkbvars
<1> QED BY <1>1, <1>2

LEMMA KeyboardStep == KeyboardInv /\ [KeyboardNext]_keyboardVars => KeyboardInv'
<1> SUFFICES ASSUME KeyboardInv, [KeyboardNext]_keyboardVars PROVE KeyboardInv'
  OBVIOUS
<1>1. CASE UNCHANGED keyboardVars
  <2>1. UNCHANGED <<xkbvars, bindvars, bounds, events, keygrabber, holder, lost>>
    BY <1>1 DEF keyboardVars
  <2>2. KeyboardTypeOK'
    BY <2>1 DEF KeyboardInv, KeyboardTypeOK, xkbvars, bindvars, bounds
  <2> QED BY <2>1, <2>2, FollowLeft, GrabsLeft DEF KeyboardInv, NoKeyLost, xkbvars
<1>2. CASE KeyboardNext
  BY <1>2, ChangeKept, PressKept, HandleXkbKept, XkbRefreshKept, LuaKept, HandleKeyKept DEF KeyboardNext
<1> QED BY <1>1, <1>2

LEMMA KeyboardInvShows == KeyboardInv => KeysGrabbed
<1> SUFFICES ASSUME KeyboardInv PROVE KeysGrabbed
  OBVIOUS
<1>1. ASSUME haveXkb, flags = {}, \A i \in 1..Len(events) : events[i].type = "press"
      PROVE  loaded = keymap /\ state = group
  <2>1. \A i \in DOMAIN events : events[i].type = "press"
    BY <1>1 DEF KeyboardInv, KeyboardTypeOK
  <2>2. \A i \in DOMAIN events : events[i] \notin MapEvents /\ events[i] \notin GroupEvents
    BY <2>1 DEF MapEvents, GroupEvents
  <2>3. MapIsLoaded /\ GroupKnown
    BY <1>1, <2>2 DEF KeyboardInv, MapFollows, GroupFollows, Ended
  <2> QED BY <1>1, <2>3 DEF MapIsLoaded, GroupKnown
<1>2. GrabsCurrent
  BY <1>1 DEF GrabsCurrent, KeyboardInv, GrabsLoaded
<1> QED BY <1>2 DEF KeysGrabbed, KeyboardInv

\* X holds the grabs of the keys that are bound, in the keymap of the server,
\* once what it sent is handled, and no press of a bound key is lost (xkb.c,
\* xwindow_grabkeys, event_handle_key).
THEOREM KeyboardSafe == KeyboardSpec => []KeysGrabbed
<1>1. KeyboardSpec => []KeyboardInv
  BY KeyboardStart, KeyboardStep, PTL DEF KeyboardSpec
<1> QED BY <1>1, KeyboardInvShows, PTL

-----------------------------------------------------------------------------
(* The system tray: its invariant. *)
Pending(k, w) == [kind |-> k, win |-> w] \in Elements(arrived)

\* a window has one entry, and none while it is being docked
EachOnce ==
    /\ \A i, j \in DOMAIN embedded : embedded[i].win = embedded[j].win => i = j
    /\ docking # <<>> => GetByWin(docking.win) = {}

\* an icon that left the tray or died has sent the event that ends its entry
GoneIsTold ==
    \A em \in Elements(embedded) : LET w == em.win IN
        /\ Alive(w) => xicon[w].watched
        /\ xicon[w].watched /\ xicon[w].parent = "root" => Pending("reparent", w)
        /\ xicon[w].watched /\ ~Alive(w) => Pending("destroy", w)

\* also one that died after it asked to be docked again: its end is behind the request
EndFollows(w, q) ==
    \A i \in DOMAIN q : q[i] = [kind |-> "dock", win |-> w] =>
        \E j \in DOMAIN q : i < j /\ q[j] = [kind |-> "destroy", win |-> w]

DyingIsTold ==
    \A w \in Icon : xicon[w].watched /\ ~Alive(w) =>
        /\ EndFollows(w, arrived)
        /\ docking # <<>> /\ docking.win = w => Pending("destroy", w)

\* a change of _XEMBED_INFO that the entry does not show is still to be handled
InfoIsTold ==
    /\ \A em \in Elements(embedded) : LET w == em.win IN
         Alive(w) /\ w \notin unheard /\ xicon[w].info = "show" /\ ~em.mapped => Pending("property", w)
    /\ docking # <<>> => LET w == docking.win IN
         Alive(w) /\ w \notin unheard /\ xicon[w].info = "show" /\ docking.info = "hide" => Pending("property", w)

\* what is drawn stays until something makes the tray dirty
DrawnAsFlagged ==
    ~dirty /\ placed # "none" => \A em \in Elements(embedded) : LET w == em.win IN
        xicon[w].parent = "tray" =>
            /\ em.mapped => xicon[w].shown \in {"yes", "byself"} /\ xicon[w].size = "tray"
            /\ ~em.mapped /\ xtray.mapped => xicon[w].shown # "yes"

TrayInv == /\ TrayTypeOK /\ EachOnce /\ GoneIsTold /\ DyingIsTold
           /\ InfoIsTold /\ DrawnAsFlagged /\ TrayWindowKept

\* the windows that the parts of the invariant are about
LEMMA EntryWindows ==
    ASSUME TrayInv
    PROVE  /\ \A em \in Elements(embedded) : em \in Entry /\ em.win \in Icon
           /\ docking # <<>> => docking.win \in Icon /\ docking.info \in {"none", "hide", "show"}
<1>1. embedded \in Seq(Entry) /\ docking \in {<<>>} \cup [win : Icon, info : {"none", "hide", "show"}]
  BY DEF TrayInv, TrayTypeOK
<1>2. \A i \in DOMAIN embedded : embedded[i] \in Entry
  BY <1>1
<1>3. \A em \in Entry : em.win \in Icon
  BY DEF Entry
<1>4. \A em \in Elements(embedded) : em \in Entry /\ em.win \in Icon
  BY <1>2, <1>3 DEF Elements
<1>5. docking # <<>> => docking \in [win : Icon, info : {"none", "hide", "show"}]
  BY <1>1
<1> QED BY <1>4, <1>5

LEMMA IconRecords ==
    ASSUME TrayInv
    PROVE  \A x \in Icon : xicon[x] \in IconState
BY DEF TrayInv, TrayTypeOK

LEMMA IconChanged ==
    ASSUME TrayInv, NEW w \in Icon, NEW r \in IconState, xicon' = [xicon EXCEPT ![w] = r]
    PROVE  /\ xicon' \in [Icon -> IconState]
           /\ xicon'[w] = r
           /\ \A x \in Icon : x # w => xicon'[x] = xicon[x]
BY DEF TrayInv, TrayTypeOK

-----------------------------------------------------------------------------
(* The list of embedded windows *)

LEMMA DockedList ==
    ASSUME TrayInv, NEW em \in Entry, GetByWin(em.win) = {}
    PROVE  LET r == Append(embedded, em) IN
           /\ r \in Seq(Entry) /\ Elements(r) = Elements(embedded) \cup {em}
           /\ \A i, j \in DOMAIN r : r[i].win = r[j].win => i = j
<1>1. embedded \in Seq(Entry)
  BY DEF TrayInv, TrayTypeOK
<1> DEFINE r == Append(embedded, em)
<1>2. r \in Seq(Entry) /\ Elements(r) = Elements(embedded) \cup {em}
  BY <1>1, AppendElements
<1>3. \A i \in DOMAIN r : (i \in DOMAIN embedded /\ r[i] = embedded[i]) \/ (i = Len(embedded) + 1 /\ r[i] = em)
  BY <1>1
<1>4. \A i \in DOMAIN embedded : embedded[i].win # em.win
  BY DEF GetByWin
<1> HIDE DEF r
<1>5. \A i, j \in DOMAIN r : r[i].win = r[j].win => i = j
  BY <1>3, <1>4 DEF TrayInv, EachOnce
<1> QED BY <1>2, <1>5 DEF r

LEMMA FlaggedList ==
    ASSUME TrayInv, NEW w \in Icon, NEW b \in BOOLEAN
    PROVE  LET r == Flagged(w, b) IN
           /\ r \in Seq(Entry) /\ DOMAIN r = DOMAIN embedded
           /\ \A i \in DOMAIN r : r[i].win = embedded[i].win
           /\ \A em \in Elements(r) : IF em.win = w THEN em.mapped = b ELSE em \in Elements(embedded)
           /\ \A em \in Elements(r) : \E old \in Elements(embedded) : old.win = em.win
           /\ \A i, j \in DOMAIN r : r[i].win = r[j].win => i = j
<1>1. embedded \in Seq(Entry) /\ \A i \in DOMAIN embedded : embedded[i] \in Entry
  BY DEF TrayInv, TrayTypeOK
<1> DEFINE r == Flagged(w, b)
<1>2. DOMAIN r = DOMAIN embedded
  BY DEF Flagged
<1>3. \A i \in DOMAIN embedded : /\ r[i] \in Entry /\ r[i].win = embedded[i].win
                                 /\ IF embedded[i].win = w THEN r[i].mapped = b ELSE r[i] = embedded[i]
  BY <1>1 DEF Flagged, Entry
<1>4. Len(embedded) \in Nat /\ DOMAIN embedded = 1..Len(embedded)
  BY <1>1
<1>5. r = [i \in 1..Len(embedded) |-> r[i]]
  BY <1>4 DEF Flagged
<1> HIDE DEF r
<1>6. r \in Seq(Entry)
  <2>1. \A i \in 1..Len(embedded) : r[i] \in Entry
    BY <1>3, <1>4
  <2> QED BY <1>4, <1>5, <2>1, IsASeq
<1>7. \A em \in Elements(r) : /\ IF em.win = w THEN em.mapped = b ELSE em \in Elements(embedded)
                              /\ \E old \in Elements(embedded) : old.win = em.win
  BY <1>2, <1>3 DEF Elements
<1>8. \A i, j \in DOMAIN r : r[i].win = r[j].win => i = j
  BY <1>2, <1>3 DEF TrayInv, EachOnce
<1> QED BY <1>2, <1>3, <1>6, <1>7, <1>8 DEF r

LEMMA TakenList ==
    ASSUME TrayInv, NEW w \in Icon, GetByWin(w) # {}
    PROVE  LET r == Taken(w) IN
           /\ r \in Seq(Entry)
           /\ \A em \in Elements(r) : em \in Elements(embedded) /\ em.win # w
           /\ \A i, j \in DOMAIN r : r[i].win = r[j].win => i = j
<1> DEFINE k == CHOOSE i \in GetByWin(w) : TRUE
           r == SubSeq(embedded, 1, k - 1) \o SubSeq(embedded, k + 1, Len(embedded))
<1>1. embedded \in Seq(Entry)
  BY DEF TrayInv, TrayTypeOK
<1>2. k \in DOMAIN embedded /\ embedded[k].win = w
  BY DEF GetByWin
<1>3. Taken(w) = r
  BY DEF Taken, Without, RemoveAt
<1> HIDE DEF k
<1>4. /\ r \in Seq(Entry) /\ Len(r) = Len(embedded) - 1
      /\ \A j \in DOMAIN r : r[j] = IF j < k THEN embedded[j] ELSE embedded[j + 1]
  BY <1>1, <1>2, RemoveElement
<1> HIDE DEF r
<1> DEFINE up(j) == IF j < k THEN j ELSE j + 1
<1>5. \A j \in DOMAIN r : up(j) \in DOMAIN embedded /\ up(j) # k /\ r[j] = embedded[up(j)]
  <2>1. DOMAIN r = 1..Len(r) /\ DOMAIN embedded = 1..Len(embedded) /\ Len(embedded) \in Nat
    BY <1>1, <1>4
  <2> QED BY <1>2, <1>4, <2>1
<1>6. \A i, j \in DOMAIN r : up(i) = up(j) => i = j
  <2>1. DOMAIN r \subseteq Nat /\ k \in Nat
    BY <1>1, <1>2, <1>4
  <2> QED BY <2>1
<1>7. \A em \in Elements(r) : em \in Elements(embedded) /\ em.win # w
  BY <1>2, <1>5 DEF Elements, TrayInv, EachOnce
<1>8. \A i, j \in DOMAIN r : r[i].win = r[j].win => i = j
  BY <1>5, <1>6 DEF TrayInv, EachOnce
<1> QED BY <1>3, <1>4, <1>7, <1>8
-----------------------------------------------------------------------------
(* The events that are not handled *)

LEMMA SentEvent ==
    ASSUME TrayInv, NEW k \in TrayEventKind, NEW w \in Icon, Queued(k, w)
    PROVE  /\ arrived' \in Seq(TrayEvent)
           /\ Pending(k, w)'
           /\ \A l, x : Pending(l, x) => Pending(l, x)'
           /\ \A x : EndFollows(x, arrived) /\ (k # "dock" \/ x # w) => EndFollows(x, arrived)'
           /\ k = "destroy" => EndFollows(w, arrived)'
<1> DEFINE e == [kind |-> k, win |-> w]
<1>1. arrived \in Seq(TrayEvent) /\ e \in TrayEvent /\ arrived' = Append(arrived, e)
  BY DEF TrayInv, TrayTypeOK, TrayEvent, Queued
<1>2. arrived' \in Seq(TrayEvent) /\ Elements(arrived') = Elements(arrived) \cup {e}
  BY <1>1, AppendElements
<1>3. /\ Len(arrived) \in Nat /\ DOMAIN arrived = 1..Len(arrived) /\ DOMAIN arrived' = 1..(Len(arrived) + 1)
      /\ arrived'[Len(arrived) + 1] = e /\ \A i \in 1..Len(arrived) : arrived'[i] = arrived[i]
  BY <1>1
<1>4. ASSUME NEW x, EndFollows(x, arrived), k # "dock" \/ x # w PROVE EndFollows(x, arrived)'
  BY <1>3, <1>4 DEF EndFollows
<1>5. ASSUME k = "destroy" PROVE EndFollows(w, arrived)'
  BY <1>3, <1>5 DEF EndFollows
<1> QED BY <1>2, <1>4, <1>5 DEF Pending

LEMMA HandledEvent ==
    ASSUME TrayInv, NEW k \in TrayEventKind, NEW w \in Icon, Handling(k, w), Dequeued
    PROVE  /\ arrived' \in Seq(TrayEvent)
           /\ \A l, x : Pending(l, x) /\ (l # k \/ x # w) => Pending(l, x)'
           /\ \A x : EndFollows(x, arrived) => EndFollows(x, arrived)'
           /\ k = "dock" /\ EndFollows(w, arrived) => Pending("destroy", w)'
<1> DEFINE e == [kind |-> k, win |-> w]
<1>1. /\ arrived \in Seq(TrayEvent) /\ arrived # <<>> /\ Head(arrived) = e
      /\ arrived' = Tail(arrived)
  BY DEF TrayInv, TrayTypeOK, TrayEvent, Handling, Dequeued
<1>2. arrived' \in Seq(TrayEvent) /\ Elements(arrived) = Elements(arrived') \cup {e}
  BY <1>1, TailElements
<1>3. /\ Len(arrived) \in Nat /\ Len(arrived) > 0 /\ DOMAIN arrived = 1..Len(arrived) /\ DOMAIN arrived' = 1..(Len(arrived) - 1)
      /\ arrived[1] = e /\ \A i \in 1..(Len(arrived) - 1) : arrived'[i] = arrived[i + 1]
  BY <1>1
<1>4. ASSUME NEW x, EndFollows(x, arrived) PROVE EndFollows(x, arrived)'
  <2> SUFFICES ASSUME NEW i \in DOMAIN arrived', arrived'[i] = [kind |-> "dock", win |-> x]
               PROVE  \E j \in DOMAIN arrived' : i < j /\ arrived'[j] = [kind |-> "destroy", win |-> x]
    BY DEF EndFollows
  <2>1. i + 1 \in DOMAIN arrived /\ arrived[i + 1] = [kind |-> "dock", win |-> x]
    BY <1>3
  <2>2. PICK j \in DOMAIN arrived : i + 1 < j /\ arrived[j] = [kind |-> "destroy", win |-> x]
    BY <1>4, <2>1 DEF EndFollows
  <2>3. j - 1 \in DOMAIN arrived' /\ i < j - 1 /\ arrived'[j - 1] = arrived[j]
    BY <1>3, <2>2
  <2> QED BY <2>2, <2>3
<1>5. ASSUME k = "dock", EndFollows(w, arrived) PROVE Pending("destroy", w)'
  <2>1. 1 \in DOMAIN arrived /\ arrived[1] = [kind |-> "dock", win |-> w]
    BY <1>3, <1>5
  <2>2. PICK j \in DOMAIN arrived : 1 < j /\ arrived[j] = [kind |-> "destroy", win |-> w]
    BY <1>5, <2>1 DEF EndFollows
  <2>3. j - 1 \in DOMAIN arrived' /\ arrived'[j - 1] = arrived[j]
    BY <1>3, <2>2
  <2> QED BY <2>2, <2>3 DEF Pending, Elements
<1> QED BY <1>2, <1>4, <1>5 DEF Pending

-----------------------------------------------------------------------------
(* Applications *)

\* an event that an application sends and that nothing else is about
LEMMA AskKept ==
    ASSUME TrayInv, NEW w \in Icon, AskDock(w) \/ AskMap(w) \/ AskSize(w)
    PROVE  TrayInv'
<1>1. asked' \in 0..MaxActs /\ Alive(w) /\ UNCHANGED <<xicon, unheard, appVars>>
  BY TrayAssumption DEF AskDock, AskMap, AskSize, Acted, TrayInv, TrayTypeOK
<1>2. PICK k \in {"dock", "map", "size"} : Queued(k, w)
  BY DEF AskDock, AskMap, AskSize
<1>3. /\ arrived' \in Seq(TrayEvent)
      /\ \A l, x : Pending(l, x) => Pending(l, x)'
      /\ \A x : EndFollows(x, arrived) /\ x # w => EndFollows(x, arrived)'
  <2>1. k \in TrayEventKind
    BY DEF TrayEventKind
  <2> QED BY <1>2, <2>1, SentEvent
<1>4. TrayTypeOK' /\ EachOnce' /\ TrayWindowKept'
  BY <1>1, <1>3 DEF TrayInv, TrayTypeOK, TrayEvent, EachOnce, TrayWindowKept, appVars, GetByWin, AnyVisible
<1>5. GoneIsTold' /\ InfoIsTold' /\ DrawnAsFlagged'
  BY <1>1, <1>3 DEF TrayInv, GoneIsTold, InfoIsTold, DrawnAsFlagged, appVars, Alive
<1>6. DyingIsTold'
  BY <1>1, <1>3 DEF TrayInv, DyingIsTold, appVars, Alive
<1> QED BY <1>4, <1>5, <1>6 DEF TrayInv

LEMMA HideSelfKept ==
    ASSUME TrayInv, NEW w \in Icon, HideSelf(w)
    PROVE  TrayInv'
<1>1. /\ asked' \in 0..MaxActs /\ UNCHANGED <<arrived, unheard, appVars>>
      /\ xicon[w].shown = "yes"
      /\ xicon' = [xicon EXCEPT ![w].shown = "byself"]
  BY TrayAssumption DEF HideSelf, Acted, TrayInv, TrayTypeOK
<1> DEFINE r == [xicon[w] EXCEPT !.shown = "byself"]
<1>2. r \in IconState /\ xicon' = [xicon EXCEPT ![w] = r]
  BY ZenonT(30), <1>1 DEF TrayInv, TrayTypeOK, IconState
<1>3. /\ xicon' \in [Icon -> IconState]
      /\ \A x \in Icon : /\ xicon'[x].parent = xicon[x].parent /\ xicon'[x].watched = xicon[x].watched
                         /\ xicon'[x].info = xicon[x].info /\ xicon'[x].size = xicon[x].size
                         /\ xicon'[x].shown = xicon[x].shown \/ (xicon[x].shown = "yes" /\ xicon'[x].shown = "byself")
  BY <1>1, <1>2, IconChanged DEF TrayInv, TrayTypeOK, IconState
<1>4. TrayTypeOK' /\ EachOnce' /\ TrayWindowKept'
  BY <1>1, <1>3 DEF TrayInv, TrayTypeOK, EachOnce, TrayWindowKept, appVars, GetByWin, AnyVisible
<1>0. /\ \A em \in Elements(embedded) : em.win \in Icon
      /\ docking # <<>> => docking.win \in Icon
  BY EntryWindows
<1>9. \A k, x : Pending(k, x)' <=> Pending(k, x)
  BY <1>1 DEF Pending
<1>5. GoneIsTold'
  BY <1>0, <1>1, <1>3, <1>9 DEF TrayInv, GoneIsTold, appVars, Alive
<1>6. DyingIsTold'
  BY <1>0, <1>1, <1>3, <1>9 DEF TrayInv, DyingIsTold, appVars, Alive
<1>7. InfoIsTold'
  BY <1>0, <1>1, <1>3, <1>9 DEF TrayInv, InfoIsTold, appVars, Alive
<1>8. DrawnAsFlagged'
  BY <1>0, <1>1, <1>3 DEF TrayInv, DrawnAsFlagged, appVars
<1> QED BY <1>4, <1>5, <1>6, <1>7, <1>8 DEF TrayInv
\* what an icon with selected events does is told
LEMMA NotifiedEvent ==
    ASSUME TrayInv, NEW k \in {"property", "reparent", "destroy"}, NEW w \in Icon, Notified(k, w)
    PROVE  /\ arrived' \in Seq(TrayEvent)
           /\ \A l, x : Pending(l, x) => Pending(l, x)'
           /\ \A x : EndFollows(x, arrived) => EndFollows(x, arrived)'
           /\ xicon[w].watched => Pending(k, w)' /\ (k = "destroy" => EndFollows(w, arrived)')
<1>1. CASE xicon[w].watched
  <2>1. Queued(k, w) /\ k \in TrayEventKind /\ k # "dock"
    BY <1>1 DEF Notified, TrayEventKind
  <2> QED BY <2>1, SentEvent
<1>2. CASE ~xicon[w].watched
  <2>1. arrived' = arrived
    BY <1>2 DEF Notified
  <2> QED BY <1>2, <2>1 DEF TrayInv, TrayTypeOK, Pending
<1> QED BY <1>1, <1>2

LEMMA SetInfoKept ==
    ASSUME TrayInv, NEW w \in Icon, NEW v \in {"none", "hide", "show"}, SetInfo(w, v)
    PROVE  TrayInv'
<1> DEFINE r == [xicon[w] EXCEPT !.info = v]
<1>0. /\ \A em \in Elements(embedded) : em.win \in Icon
      /\ docking # <<>> => docking.win \in Icon
  BY EntryWindows
<1>1. /\ asked' \in 0..MaxActs /\ Alive(w) /\ UNCHANGED appVars /\ Notified("property", w)
      /\ unheard' \subseteq Icon
      /\ \A x \in Icon : /\ x # w => (x \in unheard' <=> x \in unheard)
                         /\ ~xicon[w].watched /\ x = w /\ docking # <<>> /\ docking.win = w => x \in unheard'
  BY TrayAssumption DEF SetInfo, Acted, TrayInv, TrayTypeOK
<1>2. r \in IconState /\ xicon' = [xicon EXCEPT ![w] = r]
  <2>1. r \in IconState
    BY IconRecords DEF IconState
  <2>2. xicon' = [xicon EXCEPT ![w].info = v]
    BY DEF SetInfo
  <2> QED BY <2>1, <2>2
<1>3. /\ xicon' \in [Icon -> IconState]
      /\ \A x \in Icon : /\ xicon'[x].parent = xicon[x].parent /\ xicon'[x].watched = xicon[x].watched
                         /\ xicon'[x].shown = xicon[x].shown /\ xicon'[x].size = xicon[x].size
                         /\ x # w => xicon'[x].info = xicon[x].info
  BY <1>2, IconChanged DEF TrayInv, TrayTypeOK, IconState
<1>4. /\ arrived' \in Seq(TrayEvent)
      /\ \A l, x : Pending(l, x) => Pending(l, x)'
      /\ \A x : EndFollows(x, arrived) => EndFollows(x, arrived)'
      /\ xicon[w].watched => Pending("property", w)'
  BY <1>1, NotifiedEvent
<1>5. TrayTypeOK' /\ EachOnce' /\ TrayWindowKept'
  BY <1>1, <1>3, <1>4 DEF TrayInv, TrayTypeOK, EachOnce, TrayWindowKept, appVars, GetByWin, AnyVisible
<1>6. GoneIsTold'
  BY <1>0, <1>1, <1>3, <1>4 DEF TrayInv, GoneIsTold, appVars, Alive
<1>7. DyingIsTold'
  BY <1>0, <1>1, <1>3, <1>4 DEF TrayInv, DyingIsTold, appVars, Alive
<1>8. InfoIsTold'
  <2>1. ASSUME NEW em \in Elements(embedded), em.win = w PROVE Pending("property", w)'
    BY <1>1, <1>4, <2>1 DEF TrayInv, GoneIsTold
  <2>2. docking # <<>> /\ docking.win = w => Pending("property", w)' \/ w \in unheard'
    BY <1>1, <1>4
  <2> QED
    BY <1>0, <1>1, <1>3, <1>4, <2>1, <2>2 DEF TrayInv, InfoIsTold, appVars, Alive
<1>9. DrawnAsFlagged'
  BY <1>0, <1>1, <1>3 DEF TrayInv, DrawnAsFlagged, appVars
<1> QED BY <1>5, <1>6, <1>7, <1>8, <1>9 DEF TrayInv

\* an icon that leaves the tray or dies
LEMMA EndKept ==
    ASSUME TrayInv, NEW w \in Icon, Leave(w) \/ Die(w)
    PROVE  TrayInv'
<1>1. PICK k \in {"reparent", "destroy"}, p \in {"root", "gone"} :
        /\ k = "destroy" <=> p = "gone"
        /\ Acted /\ Alive(w) /\ Notified(k, w) /\ UNCHANGED <<unheard, appVars>>
        /\ xicon' = [xicon EXCEPT ![w].parent = p, ![w].shown = "no"]
  BY DEF Leave, Die, Alive
<1> DEFINE r == [[xicon[w] EXCEPT !.parent = p] EXCEPT !.shown = "no"]
<1>0. /\ \A em \in Elements(embedded) : em.win \in Icon
      /\ docking # <<>> => docking.win \in Icon
      /\ asked' \in 0..MaxActs
  BY <1>1, EntryWindows, TrayAssumption DEF Acted, TrayInv, TrayTypeOK
<1>2. r \in IconState /\ xicon' = [xicon EXCEPT ![w] = r]
  <2>1. r \in IconState
    <3> DEFINE r1 == [xicon[w] EXCEPT !.parent = p]
    <3>1. r1 \in IconState
      BY IconRecords DEF IconState
    <3> HIDE DEF r1
    <3>2. [r1 EXCEPT !.shown = "no"] \in IconState
      BY <3>1 DEF IconState
    <3> QED BY <3>2 DEF r1
  <2>2. xicon \in [Icon -> IconState] /\ xicon[w] \in IconState
    BY DEF TrayInv, TrayTypeOK
  <2>3. xicon' = [[xicon EXCEPT ![w] = [xicon[w] EXCEPT !.parent = p]] EXCEPT ![w].shown = "no"]
    BY <1>1
  <2> QED BY <2>1, <2>2, <2>3
<1>3. /\ xicon' \in [Icon -> IconState]
      /\ xicon'[w].parent = p /\ xicon'[w].watched = xicon[w].watched
      /\ \A x \in Icon : x # w => xicon'[x] = xicon[x]
  BY <1>2, IconChanged DEF TrayInv, TrayTypeOK, IconState
<1>4. /\ arrived' \in Seq(TrayEvent)
      /\ \A l, x : Pending(l, x) => Pending(l, x)'
      /\ \A x : EndFollows(x, arrived) => EndFollows(x, arrived)'
      /\ xicon[w].watched => Pending(k, w)' /\ (k = "destroy" => EndFollows(w, arrived)')
  BY <1>1, NotifiedEvent
<1>5. TrayTypeOK' /\ EachOnce' /\ TrayWindowKept'
  BY <1>0, <1>1, <1>3, <1>4 DEF TrayInv, TrayTypeOK, EachOnce, TrayWindowKept, appVars, GetByWin, AnyVisible
<1>6. GoneIsTold'
  <2>1. ASSUME NEW em \in Elements(embedded), em.win = w
        PROVE  /\ xicon[w].watched
               /\ p = "root" => Pending("reparent", w)'
               /\ p = "gone" => Pending("destroy", w)'
    BY <1>1, <1>4, <2>1 DEF TrayInv, GoneIsTold
  <2> QED
    BY <1>0, <1>1, <1>3, <1>4, <2>1 DEF TrayInv, GoneIsTold, appVars, Alive
<1>7. DyingIsTold'
  BY <1>0, <1>1, <1>3, <1>4 DEF TrayInv, DyingIsTold, appVars, Alive
<1>8. InfoIsTold'
  <2>1. xicon'[w].info = xicon[w].info /\ Alive(w)
    BY <1>1, <1>2, <1>3, IconChanged DEF TrayInv, TrayTypeOK, IconState
  <2> QED
    BY <1>0, <1>1, <1>3, <1>4, <2>1 DEF TrayInv, InfoIsTold, appVars, Alive
<1>9. DrawnAsFlagged'
  BY <1>0, <1>1, <1>3 DEF TrayInv, DrawnAsFlagged, appVars
<1> QED BY <1>5, <1>6, <1>7, <1>8, <1>9 DEF TrayInv
-----------------------------------------------------------------------------
(* Docking *)

LEMMA DockReadKept ==
    ASSUME TrayInv, NEW w \in Icon, DockRead(w)
    PROVE  TrayInv'
<1>0. /\ \A em \in Elements(embedded) : em.win \in Icon
      /\ docking = <<>> /\ GetByWin(w) = {}
  BY EntryWindows DEF DockRead, MayDock, Handling, Idle
<1>1. /\ docking' = [win |-> w, info |-> IF Alive(w) THEN xicon[w].info ELSE "none"]
      /\ UNCHANGED <<xicon, xtray, asked, embedded, placed, registered, dirty, drawins, unheard, early>>
  BY DEF DockRead
<1>2. PICK k \in {"dock", "map"} : Handling(k, w) /\ Dequeued /\ (k = "map" => Alive(w))
  BY DEF DockRead, MayDock
<1>3. /\ arrived' \in Seq(TrayEvent)
      /\ \A l, x : Pending(l, x) /\ (l # k \/ x # w) => Pending(l, x)'
      /\ \A x : EndFollows(x, arrived) => EndFollows(x, arrived)'
      /\ k = "dock" /\ EndFollows(w, arrived) => Pending("destroy", w)'
  <2>1. k \in TrayEventKind
    BY DEF TrayEventKind
  <2> QED BY <1>2, <2>1, HandledEvent
<1>4. TrayTypeOK' /\ TrayWindowKept'
  <2>1. docking' \in [win : Icon, info : {"none", "hide", "show"}]
    BY <1>1 DEF TrayInv, TrayTypeOK, IconState
  <2> QED
    BY <1>1, <1>3, <2>1 DEF TrayInv, TrayTypeOK, TrayWindowKept, AnyVisible
<1>5. EachOnce'
  BY <1>0, <1>1 DEF TrayInv, EachOnce, GetByWin
<1>6. GoneIsTold'
  BY <1>0, <1>1, <1>3 DEF TrayInv, GoneIsTold, Alive
<1>7. DyingIsTold'
  BY <1>1, <1>2, <1>3 DEF TrayInv, DyingIsTold, Alive
<1>8. InfoIsTold'
  BY <1>0, <1>1, <1>3 DEF TrayInv, InfoIsTold, Alive
<1>9. DrawnAsFlagged'
  BY <1>0, <1>1 DEF TrayInv, DrawnAsFlagged
<1> QED BY <1>4, <1>5, <1>6, <1>7, <1>8, <1>9 DEF TrayInv

\* the tray window follows a change of the list
LEMMA EmbedKeeps ==
    ASSUME TrayInv, NEW list \in Seq(Entry), Embed(list), placed' = placed
    PROVE  /\ embedded' \in Seq(Entry) /\ dirty' = TRUE
           /\ xtray' \in [parent : Drawin \cup {"root", "gone"}, mapped : BOOLEAN]
           /\ TrayWindowKept'
<1>1. embedded' = list /\ dirty' = TRUE /\ xtray \in [parent : Drawin \cup {"root", "gone"}, mapped : BOOLEAN]
  BY DEF Embed, InvalidateTray, TrayInv, TrayTypeOK
<1>2. CASE AnyVisible(list)
  <2>1. xtray' = xtray
    BY <1>2 DEF Embed, InvalidateTray
  <2> QED BY <1>1, <1>2, <2>1 DEF TrayInv, TrayWindowKept
<1>3. CASE ~AnyVisible(list)
  <2>1. xtray' = [xtray EXCEPT !.mapped = FALSE]
    BY <1>3 DEF Embed, InvalidateTray
  <2>2. xtray'.parent = xtray.parent /\ xtray'.mapped = FALSE
    BY <1>1, <2>1
  <2> QED BY <1>1, <2>1, <2>2 DEF TrayInv, TrayWindowKept
<1> QED BY <1>2, <1>3

LEMMA DockFinishKept ==
    ASSUME TrayInv, DockFinish
    PROVE  TrayInv'
<1>w. PICK w \in Icon, info \in {"none", "hide", "show"} : docking # <<>> /\ docking.win = w /\ docking.info = info
  BY EntryWindows DEF DockFinish
<1> DEFINE new == [win |-> w, mapped |-> info # "hide"]
<1>0. /\ \A em \in Elements(embedded) : em.win \in Icon
      /\ new \in Entry /\ GetByWin(w) = {}
  BY <1>w, EntryWindows DEF TrayInv, EachOnce, Entry
<1>1. /\ xicon' = IF Alive(w) THEN [xicon EXCEPT ![w].parent = "tray", ![w].watched = TRUE] ELSE xicon
      /\ arrived' = IF Alive(w) THEN Append(arrived, [kind |-> "docked", win |-> w]) ELSE arrived
      /\ Embed(Append(embedded, new))
      /\ docking' = <<>>
      /\ UNCHANGED <<asked, placed, registered, drawins, unheard>>
  BY <1>w DEF DockFinish
<1>e. early' \subseteq Icon
  BY <1>w DEF DockFinish, TrayInv, TrayTypeOK
<1>2. /\ embedded' = Append(embedded, new) /\ embedded' \in Seq(Entry)
      /\ Elements(embedded') = Elements(embedded) \cup {new}
      /\ \A i, j \in DOMAIN embedded' : embedded'[i].win = embedded'[j].win => i = j
      /\ Append(embedded, new) \in Seq(Entry)
  <2>1. embedded' = Append(embedded, new) /\ new.win = w
    BY <1>1 DEF Embed
  <2> HIDE DEF new
  <2>2. LET r == Append(embedded, new) IN
        /\ r \in Seq(Entry) /\ Elements(r) = Elements(embedded) \cup {new}
        /\ \A i, j \in DOMAIN r : r[i].win = r[j].win => i = j
    BY <1>0, <2>1, DockedList
  <2> QED BY <2>1, <2>2
<1> HIDE DEF new
<1>3. /\ xtray' \in [parent : Drawin \cup {"root", "gone"}, mapped : BOOLEAN]
      /\ dirty' = TRUE /\ TrayWindowKept'
  BY <1>1, <1>2, EmbedKeeps
<1>4. /\ arrived' \in Seq(TrayEvent)
      /\ \A l, x : Pending(l, x) => Pending(l, x)'
      /\ \A x : EndFollows(x, arrived) => EndFollows(x, arrived)'
  <2>1. CASE Alive(w)
    <3>1. Queued("docked", w) /\ "docked" \in TrayEventKind
      BY <1>1, <2>1 DEF Queued, TrayEventKind
    <3> QED BY <1>0, <3>1, SentEvent
  <2>2. CASE ~Alive(w)
    BY <1>1, <2>2 DEF TrayInv, TrayTypeOK, Pending
  <2> QED BY <2>1, <2>2
<1>5. /\ xicon' \in [Icon -> IconState]
      /\ \A x \in Icon : xicon'[x].info = xicon[x].info
      /\ \A x \in Icon : x # w => xicon'[x] = xicon[x]
      /\ Alive(w) => xicon'[w].parent = "tray" /\ xicon'[w].watched
      /\ ~Alive(w) => xicon'[w] = xicon[w]
  <2>1. CASE Alive(w)
    <3> DEFINE r1 == [xicon[w] EXCEPT !.parent = "tray"]
               r  == [r1 EXCEPT !.watched = TRUE]
    <3>1. xicon \in [Icon -> IconState] /\ xicon[w] \in IconState
      BY <1>0 DEF TrayInv, TrayTypeOK
    <3>2. r1 \in IconState /\ r1.info = xicon[w].info /\ r1.parent = "tray"
      BY <3>1 DEF IconState
    <3>3. r \in IconState /\ r.info = xicon[w].info /\ r.parent = "tray" /\ r.watched
      <4> HIDE DEF r1
      <4> QED BY <3>2 DEF IconState
    <3>4. xicon' = [xicon EXCEPT ![w] = r]
      <4>1. xicon' = [[xicon EXCEPT ![w] = r1] EXCEPT ![w].watched = TRUE]
        BY <1>1, <2>1
      <4> QED BY <1>0, <3>1, <3>2, <3>3, <4>1
    <3> HIDE DEF r
    <3> QED BY ZenonT(30), <1>0, <2>1, <3>3, <3>4, IconChanged
  <2>2. CASE ~Alive(w)
    BY <1>1, <2>2 DEF TrayInv, TrayTypeOK
  <2> QED BY <2>1, <2>2
<1>6. TrayTypeOK'
  BY <1>e, <1>1, <1>2, <1>3, <1>4, <1>5 DEF TrayInv, TrayTypeOK
<1>7. EachOnce'
  BY <1>1, <1>2 DEF EachOnce
<1>8. GoneIsTold' /\ InfoIsTold'
  <2>1. ASSUME NEW em \in Elements(embedded)
        PROVE  em.win \in Icon /\ em.win # w /\ xicon'[em.win] = xicon[em.win]
    BY <1>0, <1>5 DEF Elements, GetByWin
  <2>2. new.win = w /\ (~new.mapped => info = "hide")
    BY DEF new
  <2>3. GoneIsTold'
    BY <1>w, <1>0, <1>2, <1>4, <1>5, <2>1, <2>2 DEF TrayInv, GoneIsTold, DyingIsTold, Alive
  <2>4. InfoIsTold'
    <3>1. Alive(w)' => Alive(w)
      BY <1>5 DEF Alive
    <3> QED
      BY <1>w, <1>0, <1>1, <1>2, <1>4, <1>5, <2>1, <2>2, <3>1 DEF TrayInv, InfoIsTold, Alive
  <2> QED BY <2>3, <2>4
<1>9. DyingIsTold' /\ DrawnAsFlagged'
  BY <1>0, <1>1, <1>3, <1>4, <1>5 DEF TrayInv, DyingIsTold, DrawnAsFlagged, Alive
<1> QED BY <1>3, <1>6, <1>7, <1>8, <1>9 DEF TrayInv
-----------------------------------------------------------------------------
(* Handlers *)

\* An event that changes nothing: its icon has no entry, or an entry that is right.
LEMMA IgnoreKept ==
    ASSUME TrayInv, NEW k \in TrayEventKind, NEW w \in Icon,
           Handling(k, w), Dequeued, Ignore(w), UNCHANGED handlerVars,
           k \in {"reparent", "destroy"} => GetByWin(w) = {},
           k = "property" => \A i \in GetByWin(w) : embedded[i].mapped = FlagNow(w)
    PROVE  TrayInv'
<1>0. /\ \A em \in Elements(embedded) : em.win \in Icon
      /\ docking = <<>>
      /\ UNCHANGED <<xicon, xtray, embedded, dirty, handlerVars>>
  BY EntryWindows DEF Handling, Idle, Ignore
<1>1. /\ arrived' \in Seq(TrayEvent)
      /\ \A l, x : Pending(l, x) /\ (l # k \/ x # w) => Pending(l, x)'
      /\ \A x : EndFollows(x, arrived) => EndFollows(x, arrived)'
  BY HandledEvent
<1>2. TrayTypeOK' /\ EachOnce' /\ TrayWindowKept' /\ DrawnAsFlagged'
  BY <1>0, <1>1 DEF TrayInv, TrayTypeOK, EachOnce, TrayWindowKept, DrawnAsFlagged, handlerVars, GetByWin, AnyVisible
<1>3. \A em \in Elements(embedded) :
        /\ k \in {"reparent", "destroy"} => em.win # w
        /\ k = "property" /\ em.win = w => em.mapped = FlagNow(w)
  BY DEF Elements, GetByWin
<1>4. GoneIsTold'
  BY <1>0, <1>1, <1>3 DEF TrayInv, GoneIsTold, Alive
<1>5. DyingIsTold'
  BY <1>0, <1>1 DEF TrayInv, DyingIsTold, Alive, handlerVars
<1>6. InfoIsTold'
  BY <1>0, <1>1, <1>3 DEF TrayInv, InfoIsTold, Alive, handlerVars, FlagNow
<1> QED BY <1>2, <1>4, <1>5, <1>6 DEF TrayInv

LEMMA IconMapped ==
    ASSUME TrayInv, NEW w \in Icon, NEW s \in {"yes", "no"}, xicon' = XMap(w, s)
    PROVE  /\ xicon' \in [Icon -> IconState]
           /\ \A x \in Icon : /\ xicon'[x].parent = xicon[x].parent /\ xicon'[x].watched = xicon[x].watched
                              /\ xicon'[x].info = xicon[x].info
<1>1. CASE Alive(w)
  <2> DEFINE r == [xicon[w] EXCEPT !.shown = s]
  <2>1. r \in IconState
    BY IconRecords DEF IconState
  <2>2. xicon' = [xicon EXCEPT ![w] = r]
    BY <1>1 DEF XMap
  <2> QED BY <2>1, <2>2, IconChanged DEF TrayInv, TrayTypeOK, IconState
<1>2. CASE ~Alive(w)
  BY <1>2 DEF XMap, TrayInv, TrayTypeOK
<1> QED BY <1>1, <1>2

\* An entry gets the flag of _XEMBED_INFO, or the one of a request to map.
LEMMA FlagKept ==
    ASSUME TrayInv, NEW k \in {"property", "map"}, NEW w \in Icon, NEW b \in BOOLEAN, NEW s \in {"yes", "no"},
           Handling(k, w), Dequeued, xicon' = XMap(w, s), Embed(Flagged(w, b)), UNCHANGED handlerVars,
           ~b => ~FlagNow(w)
    PROVE  TrayInv'
<1>0. /\ \A em \in Elements(embedded) : em.win \in Icon
      /\ docking = <<>> /\ k \in TrayEventKind
  BY EntryWindows DEF Handling, Idle, TrayEventKind
<1>1. /\ arrived' \in Seq(TrayEvent)
      /\ \A l, x : Pending(l, x) /\ (l # k \/ x # w) => Pending(l, x)'
      /\ \A x : EndFollows(x, arrived) => EndFollows(x, arrived)'
  BY <1>0, HandledEvent
<1>2. /\ xicon' \in [Icon -> IconState]
      /\ \A x \in Icon : /\ xicon'[x].parent = xicon[x].parent /\ xicon'[x].watched = xicon[x].watched
                         /\ xicon'[x].info = xicon[x].info
  BY IconMapped
<1>3. /\ Flagged(w, b) \in Seq(Entry)
      /\ embedded' = Flagged(w, b)
      /\ \A em \in Elements(embedded') : IF em.win = w THEN em.mapped = b ELSE em \in Elements(embedded)
      /\ \A em \in Elements(embedded') : \E old \in Elements(embedded) : old.win = em.win
      /\ \A i, j \in DOMAIN embedded' : embedded'[i].win = embedded'[j].win => i = j
  BY FlaggedList DEF Embed
<1>4. /\ embedded' \in Seq(Entry) /\ dirty' = TRUE
      /\ xtray' \in [parent : Drawin \cup {"root", "gone"}, mapped : BOOLEAN]
      /\ TrayWindowKept'
  BY <1>3, EmbedKeeps DEF handlerVars
<1>5. TrayTypeOK'
  BY <1>1, <1>2, <1>4 DEF TrayInv, TrayTypeOK, handlerVars
<1>6. EachOnce' /\ DrawnAsFlagged'
  BY <1>0, <1>3, <1>4 DEF EachOnce, DrawnAsFlagged, handlerVars
<1>7. GoneIsTold'
  <2> SUFFICES ASSUME NEW em \in Elements(embedded')
               PROVE  LET x == em.win IN
                      /\ Alive(x)' => xicon'[x].watched
                      /\ xicon'[x].watched /\ xicon'[x].parent = "root" => Pending("reparent", x)'
                      /\ xicon'[x].watched /\ ~Alive(x)' => Pending("destroy", x)'
    BY DEF GoneIsTold, Alive
  <2>1. PICK old \in Elements(embedded) : old.win = em.win
    BY <1>3
  <2> QED BY <1>0, <1>1, <1>2, <2>1 DEF TrayInv, GoneIsTold, Alive
<1>8. DyingIsTold'
  BY <1>0, <1>1, <1>2 DEF TrayInv, DyingIsTold, Alive, handlerVars
<1>9. InfoIsTold'
  <2> SUFFICES ASSUME NEW em \in Elements(embedded'),
                      Alive(em.win)', em.win \notin unheard', xicon'[em.win].info = "show", ~em.mapped
               PROVE  Pending("property", em.win)'
    BY <1>0 DEF InfoIsTold, Alive, handlerVars
  <2>1. em.win \in Icon
    BY <1>0, <1>3
  <2>2. Alive(em.win) /\ xicon[em.win].info = "show"
    BY <1>2, <2>1 DEF Alive
  <2>3. em.win # w
    BY <1>3, <2>2 DEF FlagNow
  <2> QED BY <1>1, <1>3, <2>2, <2>3 DEF TrayInv, InfoIsTold, handlerVars
<1> QED BY <1>4, <1>5, <1>6, <1>7, <1>8, <1>9 DEF TrayInv

LEMMA SizeKept ==
    ASSUME TrayInv, NEW w \in Icon, HandleSize(w)
    PROVE  TrayInv'
<1>0. /\ \A em \in Elements(embedded) : em.win \in Icon
      /\ Handling("size", w) /\ Dequeued /\ docking = <<>> /\ "size" \in TrayEventKind
      /\ UNCHANGED <<xtray, embedded, dirty, handlerVars>>
  BY EntryWindows DEF HandleSize, Handling, Idle, TrayEventKind
<1>1. CASE GetByWin(w) = {} /\ Alive(w)
  <2> DEFINE r == [xicon[w] EXCEPT !.size = "own"]
  <2>1. r \in IconState
    BY IconRecords DEF IconState
  <2>2. xicon' = [xicon EXCEPT ![w] = r]
    BY <1>1 DEF HandleSize
  <2>3. /\ xicon' \in [Icon -> IconState]
        /\ \A x \in Icon : x # w => xicon'[x] = xicon[x]
        /\ xicon'[w].parent = xicon[w].parent /\ xicon'[w].watched = xicon[w].watched
    BY <2>1, <2>2, IconChanged DEF TrayInv, TrayTypeOK, IconState
  <2>4. \A em \in Elements(embedded) : em.win # w
    BY <1>1 DEF Elements, GetByWin
  <2>5. /\ arrived' \in Seq(TrayEvent)
        /\ \A l, x : Pending(l, x) /\ (l # "size" \/ x # w) => Pending(l, x)'
        /\ \A x : EndFollows(x, arrived) => EndFollows(x, arrived)'
    BY <1>0, HandledEvent
  <2>6. TrayTypeOK' /\ EachOnce' /\ TrayWindowKept'
    BY <1>0, <2>3, <2>5 DEF TrayInv, TrayTypeOK, EachOnce, TrayWindowKept, handlerVars, GetByWin, AnyVisible
  <2>7. GoneIsTold' /\ DrawnAsFlagged'
    BY <1>0, <2>3, <2>4, <2>5 DEF TrayInv, GoneIsTold, DrawnAsFlagged, Alive, handlerVars
  <2>8. DyingIsTold' /\ InfoIsTold'
    BY <1>0, <2>3, <2>4, <2>5 DEF TrayInv, DyingIsTold, InfoIsTold, Alive, handlerVars
  <2> QED BY <2>6, <2>7, <2>8 DEF TrayInv
<1>2. CASE ~(GetByWin(w) = {} /\ Alive(w))
  <2>1. Ignore(w)
    BY <1>0, <1>2 DEF HandleSize, Ignore
  <2> QED BY <1>0, <2>1, IgnoreKept
<1> QED BY <1>1, <1>2

LEMMA GoneKept ==
    ASSUME TrayInv, NEW w \in Icon, HandleGone(w)
    PROVE  TrayInv'
<1>1. PICK k \in {"reparent", "destroy"} : Handling(k, w)
  BY DEF HandleGone
<1>0. /\ \A em \in Elements(embedded) : em.win \in Icon
      /\ Dequeued /\ docking = <<>> /\ UNCHANGED handlerVars /\ k \in TrayEventKind
  BY <1>1, EntryWindows DEF HandleGone, Handling, Idle, TrayEventKind
<1>2. CASE GetByWin(w) = {}
  <2>1. Ignore(w)
    BY <1>2 DEF HandleGone
  <2> QED BY <1>0, <1>1, <1>2, <2>1, IgnoreKept
<1>3. CASE GetByWin(w) # {}
  <2>1. Embed(Taken(w)) /\ UNCHANGED xicon
    BY <1>3 DEF HandleGone
  <2>2. /\ Taken(w) \in Seq(Entry) /\ embedded' = Taken(w)
        /\ \A em \in Elements(embedded') : em \in Elements(embedded) /\ em.win # w
        /\ \A i, j \in DOMAIN embedded' : embedded'[i].win = embedded'[j].win => i = j
    BY <1>3, <2>1, TakenList DEF Embed
  <2>3. /\ embedded' \in Seq(Entry) /\ dirty' = TRUE
        /\ xtray' \in [parent : Drawin \cup {"root", "gone"}, mapped : BOOLEAN]
        /\ TrayWindowKept'
    BY <1>0, <2>1, <2>2, EmbedKeeps DEF handlerVars
  <2>4. /\ arrived' \in Seq(TrayEvent)
        /\ \A l, x : Pending(l, x) /\ (l # k \/ x # w) => Pending(l, x)'
        /\ \A x : EndFollows(x, arrived) => EndFollows(x, arrived)'
    BY <1>0, <1>1, HandledEvent
  <2>5. TrayTypeOK'
    BY <1>0, <2>1, <2>3, <2>4 DEF TrayInv, TrayTypeOK, handlerVars
  <2>6. EachOnce' /\ DrawnAsFlagged'
    BY <1>0, <2>2, <2>3 DEF EachOnce, DrawnAsFlagged, handlerVars
  <2>7. GoneIsTold' /\ InfoIsTold'
    BY <1>0, <2>1, <2>2, <2>4 DEF TrayInv, GoneIsTold, InfoIsTold, Alive, handlerVars
  <2>8. DyingIsTold'
    BY <1>0, <2>1, <2>4 DEF TrayInv, DyingIsTold, Alive, handlerVars
  <2> QED BY <2>3, <2>5, <2>6, <2>7, <2>8 DEF TrayInv
<1> QED BY <1>2, <1>3

LEMMA HandlersKept ==
    ASSUME TrayInv, NEW w \in Icon,
           \/ DockRead(w) \/ DockAgain(w) \/ HandleProperty(w) \/ HandleMapIcon(w)
           \/ HandleSize(w) \/ HandleGone(w) \/ HandleDocked(w)
    PROVE  TrayInv'
<1>0. {"dock", "docked", "property", "map"} \subseteq TrayEventKind
  BY DEF TrayEventKind
<1>1. CASE DockAgain(w)
  BY <1>0, <1>1, IgnoreKept DEF DockAgain
<1>2. CASE HandleDocked(w)
  BY <1>0, <1>2, IgnoreKept DEF HandleDocked
<1>3. CASE HandleProperty(w)
  <2>1. Handling("property", w) /\ Dequeued /\ UNCHANGED handlerVars /\ FlagNow(w) \in BOOLEAN
    BY <1>3 DEF HandleProperty, FlagNow
  <2>2. CASE \E i \in GetByWin(w) : embedded[i].mapped # FlagNow(w)
    <3>1. PICK s \in {"yes", "no"} : xicon' = XMap(w, s) /\ Embed(Flagged(w, FlagNow(w)))
      BY <1>3, <2>2 DEF HandleProperty
    <3>2. PICK b \in BOOLEAN : b = FlagNow(w)
      BY <2>1
    <3> QED BY <2>1, <3>1, <3>2, FlagKept
  <2>3. CASE ~ \E i \in GetByWin(w) : embedded[i].mapped # FlagNow(w)
    <3>1. Ignore(w)
      BY <1>3, <2>3 DEF HandleProperty
    <3> QED BY <1>0, <2>1, <2>3, <3>1, IgnoreKept
  <2> QED BY <2>2, <2>3
<1>4. CASE HandleMapIcon(w)
  <2>1. Handling("map", w) /\ Dequeued /\ UNCHANGED handlerVars
    BY <1>4 DEF HandleMapIcon
  <2>2. CASE Alive(w) /\ GetByWin(w) # {}
    BY <1>4, <2>1, <2>2, FlagKept DEF HandleMapIcon
  <2>3. CASE ~(Alive(w) /\ GetByWin(w) # {})
    <3>1. Ignore(w)
      BY <1>4, <2>3 DEF HandleMapIcon
    <3> QED BY <1>0, <2>1, <3>1, IgnoreKept
  <2> QED BY <2>2, <2>3
<1> QED BY <1>1, <1>2, <1>3, <1>4, DockReadKept, SizeKept, GoneKept
-----------------------------------------------------------------------------
(* Lua *)

LEMMA DrawKept ==
    ASSUME TrayInv, NEW d \in Drawin, Draw(d)
    PROVE  TrayInv'
<1>0. /\ \A em \in Elements(embedded) : em.win \in Icon
      /\ docking = <<>>
      /\ registered' = TRUE /\ placed' = d /\ dirty' = FALSE
      /\ UNCHANGED <<arrived, asked, embedded, docking, drawins, unheard, early>>
  BY EntryWindows DEF Draw, Idle
<1>1. /\ xtray'.parent = d
      /\ xtray'.mapped <=> AnyVisible(embedded)
      /\ xtray' \in [parent : Drawin \cup {"root", "gone"}, mapped : BOOLEAN]
  <2>1. xtray \in [parent : Drawin \cup {"root", "gone"}, mapped : BOOLEAN] /\ AnyVisible(embedded) \in BOOLEAN
    BY DEF TrayInv, TrayTypeOK, AnyVisible
  <2>2. xtray' = [parent |-> IF placed = d THEN xtray.parent ELSE d,
                  mapped |-> xtray.mapped \/ AnyVisible(embedded)]
    BY DEF Draw
  <2>3. xtray.mapped => AnyVisible(embedded)
    BY DEF TrayInv, TrayWindowKept
  <2>4. placed = d => xtray.parent = d
    BY TrayAssumption DEF TrayInv, TrayWindowKept
  <2> QED BY <2>1, <2>2, <2>3, <2>4
<1>2. TrayWindowKept'
  <2>1. d # "none"
    BY TrayAssumption
  <2> QED BY <1>0, <1>1, <2>1 DEF TrayWindowKept
<1>3. \A x \in Icon : /\ Updated(x) \in IconState
                      /\ Updated(x).parent = xicon[x].parent /\ Updated(x).watched = xicon[x].watched
                      /\ Updated(x).info = xicon[x].info
  <2> TAKE x \in Icon
  <2>1. xicon[x] \in IconState
    BY DEF TrayInv, TrayTypeOK
  <2> DEFINE y == [xicon[x] EXCEPT !.shown = "yes"]
             yy == [y EXCEPT !.size = "tray"]
             n == [xicon[x] EXCEPT !.shown = "no"]
  <2>2. /\ y \in IconState /\ n \in IconState
        /\ y.parent = xicon[x].parent /\ y.watched = xicon[x].watched /\ y.info = xicon[x].info
        /\ n.parent = xicon[x].parent /\ n.watched = xicon[x].watched /\ n.info = xicon[x].info
    BY <2>1 DEF IconState
  <2>3. yy \in IconState /\ yy.parent = xicon[x].parent /\ yy.watched = xicon[x].watched /\ yy.info = xicon[x].info
    <3> HIDE DEF y
    <3> QED BY <2>2 DEF IconState
  <2>4. Updated(x) \in {xicon[x], yy, n}
    BY DEF Updated
  <2> HIDE DEF y, yy, n
  <2> QED BY <2>1, <2>2, <2>3, <2>4
<1>4. /\ xicon' \in [Icon -> IconState]
      /\ \A x \in Icon : /\ xicon'[x].parent = xicon[x].parent /\ xicon'[x].watched = xicon[x].watched
                         /\ xicon'[x].info = xicon[x].info
  <2>1. CASE AnyVisible(embedded)
    <3>1. xicon' = [w \in Icon |-> Updated(w)]
      BY <2>1 DEF Draw
    <3> QED BY <1>3, <3>1
  <2>2. CASE ~AnyVisible(embedded)
    BY <2>2 DEF Draw, TrayInv, TrayTypeOK
  <2> QED BY <2>1, <2>2
<1>5. TrayTypeOK' /\ EachOnce'
  BY <1>0, <1>1, <1>4 DEF TrayInv, TrayTypeOK, EachOnce, GetByWin
<1>6. GoneIsTold' /\ DyingIsTold' /\ InfoIsTold'
  <2>1. \A k, x : Pending(k, x)' <=> Pending(k, x)
    BY <1>0 DEF Pending
  <2>2. GoneIsTold' /\ DyingIsTold'
    BY <1>0, <1>4, <2>1 DEF TrayInv, GoneIsTold, DyingIsTold, Alive
  <2>3. InfoIsTold'
    BY <1>0, <1>4, <2>1 DEF TrayInv, InfoIsTold, Alive
  <2> QED BY <2>2, <2>3
<1>7. DrawnAsFlagged'
  <2> SUFFICES ASSUME NEW em \in Elements(embedded), xicon'[em.win].parent = "tray"
               PROVE  /\ em.mapped => xicon'[em.win].shown \in {"yes", "byself"} /\ xicon'[em.win].size = "tray"
                      /\ ~em.mapped /\ xtray'.mapped => xicon'[em.win].shown # "yes"
    BY <1>0 DEF DrawnAsFlagged
  <2>1. PICK i \in DOMAIN embedded : embedded[i] = em
    BY DEF Elements
  <2>2. CASE AnyVisible(embedded)
    <3>1. xicon'[em.win] = Updated(em.win) /\ xicon[em.win] \in IconState
      BY <1>0, <2>2 DEF Draw, TrayInv, TrayTypeOK
    <3>2. Alive(em.win) /\ i \in GetByWin(em.win)
      BY <1>0, <1>4, <2>1 DEF Alive, GetByWin
    <3>3. \A j \in GetByWin(em.win) : j = i
      BY <2>1, <3>2 DEF TrayInv, EachOnce, GetByWin
    <3>4. CASE em.mapped
      <4>1. Updated(em.win) = [xicon[em.win] EXCEPT !.shown = "yes", !.size = "tray"]
        BY <2>1, <3>2, <3>4 DEF Updated
      <4> DEFINE y == [xicon[em.win] EXCEPT !.shown = "yes"]
      <4>2. y \in IconState /\ y.shown = "yes"
        BY <3>1 DEF IconState
      <4>3. Updated(em.win) = [y EXCEPT !.size = "tray"]
        BY <4>1
      <4> HIDE DEF y
      <4>4. Updated(em.win).shown = "yes" /\ Updated(em.win).size = "tray"
        BY <4>2, <4>3 DEF IconState
      <4> QED BY <3>1, <3>4, <4>4
    <3>5. CASE ~em.mapped
      <4>1. Updated(em.win) = [xicon[em.win] EXCEPT !.shown = "no"]
        BY <2>1, <3>2, <3>3, <3>5 DEF Updated
      <4>2. Updated(em.win).shown = "no"
        BY <3>1, <4>1 DEF IconState
      <4> QED BY <3>1, <3>5, <4>2
    <3> QED BY <3>4, <3>5
  <2>3. CASE ~AnyVisible(embedded)
    BY <1>1, <2>1, <2>3 DEF AnyVisible
  <2> QED BY <2>2, <2>3
<1> QED BY <1>2, <1>5, <1>6, <1>7 DEF TrayInv

\* The drawin lets go of the tray window, dies, or the manager ends.
LEMMA ReleaseKept ==
    ASSUME TrayInv, (\E d \in Drawin : Kickout(d) \/ Wipe(d)) \/ Cleanup
    PROVE  TrayInv'
<1>0. /\ \A em \in Elements(embedded) : em.win \in Icon
      /\ UNCHANGED <<xicon, arrived, asked, embedded, docking, dirty, unheard, early>>
      /\ registered' \in BOOLEAN /\ drawins' \subseteq Drawin
  BY EntryWindows DEF Kickout, Wipe, Cleanup, TrayInv, TrayTypeOK
<1>1. /\ xtray \in [parent : Drawin \cup {"root", "gone"}, mapped : BOOLEAN]
      /\ placed \in Drawin \cup {"none"} /\ "root" \notin Drawin /\ "none" \notin Drawin
      /\ xtray.parent = IF placed = "none" THEN "root" ELSE placed
      /\ xtray.mapped => AnyVisible(embedded)
  BY TrayAssumption DEF TrayInv, TrayTypeOK, TrayWindowKept
<1>2. /\ xtray' \in [parent : Drawin \cup {"root", "gone"}, mapped : BOOLEAN]
      /\ placed' \in Drawin \cup {"none"}
      /\ xtray'.parent = IF placed' = "none" THEN "root" ELSE placed'
      /\ xtray'.mapped => xtray.mapped
      /\ placed' # "none" => placed' = placed
  <2>1. CASE Cleanup
    BY <1>1, <2>1 DEF Cleanup
  <2>2. ASSUME NEW d \in Drawin, Kickout(d) PROVE <1>2!:
    BY <1>1, <2>2 DEF Kickout, KickedOut
  <2>3. ASSUME NEW d \in Drawin, Wipe(d) PROVE <1>2!:
    <3>1. KickedOut(d).parent # d /\ KickedOut(d) \in [parent : Drawin \cup {"root", "gone"}, mapped : BOOLEAN]
      BY <1>1 DEF KickedOut
    <3>2. xtray' = KickedOut(d) /\ placed' = IF placed = d THEN "none" ELSE placed
      BY <2>3, <3>1 DEF Wipe
    <3> QED BY <1>1, <3>2 DEF KickedOut
  <2> QED BY <2>1, <2>2, <2>3
<1>3. TrayTypeOK' /\ EachOnce' /\ TrayWindowKept'
  BY <1>0, <1>1, <1>2 DEF TrayInv, TrayTypeOK, EachOnce, GetByWin, TrayWindowKept, AnyVisible
<1>4. GoneIsTold' /\ DyingIsTold' /\ InfoIsTold'
  BY <1>0 DEF TrayInv, GoneIsTold, DyingIsTold, InfoIsTold, Alive, Pending
<1>5. DrawnAsFlagged'
  BY <1>0, <1>2 DEF TrayInv, DrawnAsFlagged
<1> QED BY <1>3, <1>4, <1>5 DEF TrayInv

-----------------------------------------------------------------------------

LEMMA TrayStart == TrayInit => TrayInv
<1> SUFFICES ASSUME TrayInit PROVE TrayInv
  OBVIOUS
<1>1. TrayTypeOK
  <2>1. xicon \in [Icon -> IconState]
    <3> DEFINE U == {[parent |-> "root", info |-> i, shown |-> "no", size |-> "own", watched |-> FALSE] :
                     i \in {"none", "hide", "show"}}
    <3>1. ASSUME NEW i \in {"none", "hide", "show"}
          PROVE  [parent |-> "root", info |-> i, shown |-> "no", size |-> "own", watched |-> FALSE] \in IconState
      BY DEF IconState
    <3>2. xicon \in [Icon -> U]
      BY DEF TrayInit
    <3>3. U \subseteq IconState
      BY <3>1
    <3> HIDE DEF U
    <3> QED BY <3>2, <3>3
  <2>2. <<>> \in Seq(Entry) /\ <<>> \in Seq(TrayEvent)
    OBVIOUS
  <2>3. xtray \in [parent : Drawin \cup {"root", "gone"}, mapped : BOOLEAN] /\ asked \in 0..MaxActs
    BY TrayAssumption DEF TrayInit
  <2> QED BY <2>1, <2>2, <2>3 DEF TrayInit, TrayTypeOK
<1>2. Elements(embedded) = {} /\ DOMAIN embedded = {} /\ DOMAIN arrived = {}
  BY DEF TrayInit, Elements
<1>3. EachOnce /\ GoneIsTold /\ InfoIsTold /\ DrawnAsFlagged
  BY <1>2 DEF TrayInit, EachOnce, GoneIsTold, InfoIsTold, DrawnAsFlagged
<1>4. DyingIsTold /\ TrayWindowKept
  BY <1>2 DEF TrayInit, DyingIsTold, EndFollows, TrayWindowKept
<1> QED BY <1>1, <1>3, <1>4 DEF TrayInv

LEMMA TrayStep == TrayInv /\ [TrayNext]_trayVars => TrayInv'
<1> SUFFICES ASSUME TrayInv, [TrayNext]_trayVars PROVE TrayInv'
  OBVIOUS
<1>1. CASE UNCHANGED trayVars
  BY ZenonT(30), <1>1 DEF trayVars, TrayInv, TrayTypeOK, EachOnce, GetByWin, GoneIsTold, DyingIsTold, InfoIsTold,
              DrawnAsFlagged, TrayWindowKept, AnyVisible, Alive, Pending
<1>2. CASE TrayNext
  <2>1. ASSUME NEW w \in Icon, AskDock(w) \/ Leave(w) \/ Die(w) \/ AskMap(w) \/ AskSize(w) \/ HideSelf(w)
        PROVE  TrayInv'
    BY <2>1, AskKept, EndKept, HideSelfKept
  <2>2. ASSUME NEW w \in Icon, NEW v \in {"none", "hide", "show"}, SetInfo(w, v) PROVE TrayInv'
    BY <2>2, SetInfoKept
  <2>3. ASSUME NEW w \in Icon,
               DockRead(w) \/ DockAgain(w) \/ HandleProperty(w) \/ HandleMapIcon(w)
                 \/ HandleSize(w) \/ HandleGone(w) \/ HandleDocked(w)
        PROVE  TrayInv'
    BY <2>3, HandlersKept
  <2>4. CASE DockFinish
    BY <2>4, DockFinishKept
  <2>5. ASSUME NEW d \in Drawin, Draw(d) PROVE TrayInv'
    BY <2>5, DrawKept
  <2>6. CASE (\E d \in Drawin : Kickout(d) \/ Wipe(d)) \/ Cleanup
    BY <2>6, ReleaseKept
  <2> QED BY <1>2, <2>1, <2>2, <2>3, <2>4, <2>5, <2>6 DEF TrayNext
<1> QED BY <1>1, <1>2

-----------------------------------------------------------------------------
(* An icon in the tray has an entry. That it keeps it is a matter of what  *)
(* is on its way: no event that ends an entry is about an icon that was    *)
(* docked when all its older moves were handled.                           *)

Ending(w) == {i \in DOMAIN arrived : arrived[i] = [kind |-> "destroy", win |-> w]}

SafeInTray(w) ==
    /\ Ending(w) = {}
    /\ xicon[w].parent = "tray" /\ w \notin early => GetByWin(w) # {} /\ Leaving(w) = {}

HasEntry == \A w \in Icon : Alive(w) => SafeInTray(w)

\* an event that is sent or handled
LEMMA QueueGrows ==
    ASSUME TrayInv, NEW k \in TrayEventKind, NEW w \in Icon, Queued(k, w)
    PROVE  /\ \A x : (k # "destroy" \/ x # w) => Ending(x)' = Ending(x)
           /\ \A x : (k # "reparent" \/ x # w) => Leaving(x)' = Leaving(x)
<1> DEFINE e == [kind |-> k, win |-> w]
<1>1. arrived \in Seq(TrayEvent) /\ arrived' = Append(arrived, e)
  BY DEF TrayInv, TrayTypeOK, Queued
<1>2. /\ Len(arrived) \in Nat /\ DOMAIN arrived = 1..Len(arrived) /\ DOMAIN arrived' = 1..(Len(arrived) + 1)
      /\ arrived'[Len(arrived) + 1] = e /\ \A i \in 1..Len(arrived) : arrived'[i] = arrived[i]
  BY <1>1
<1>3. ASSUME NEW x, NEW l, <<l, x>> # <<k, w>>
      PROVE  \A i \in DOMAIN arrived' : arrived'[i] = [kind |-> l, win |-> x]
                                          <=> i \in DOMAIN arrived /\ arrived[i] = [kind |-> l, win |-> x]
  <2>1. e # [kind |-> l, win |-> x]
    BY <1>3
  <2> QED BY <1>2, <2>1
<1>4. DOMAIN arrived \subseteq DOMAIN arrived'
  BY <1>2
<1>5. ASSUME NEW x, k # "destroy" \/ x # w PROVE Ending(x)' = Ending(x)
  <2>1. <<"destroy", x>> # <<k, w>>
    BY <1>5
  <2>2. \A i \in DOMAIN arrived' : arrived'[i] = [kind |-> "destroy", win |-> x]
                                    <=> i \in DOMAIN arrived /\ arrived[i] = [kind |-> "destroy", win |-> x]
    BY <1>3, <2>1
  <2> QED BY <1>4, <2>2 DEF Ending
<1>6. ASSUME NEW x, k # "reparent" \/ x # w PROVE Leaving(x)' = Leaving(x)
  <2>1. <<"reparent", x>> # <<k, w>>
    BY <1>6
  <2>2. \A i \in DOMAIN arrived' : arrived'[i] = [kind |-> "reparent", win |-> x]
                                    <=> i \in DOMAIN arrived /\ arrived[i] = [kind |-> "reparent", win |-> x]
    BY <1>3, <2>1
  <2> QED BY <1>4, <2>2 DEF Leaving
<1> QED BY <1>5, <1>6

LEMMA QueueShrinks ==
    ASSUME TrayInv, NEW k \in TrayEventKind, NEW w \in Icon, Handling(k, w), Dequeued
    PROVE  /\ \A x : Ending(x) = {} => Ending(x)' = {}
           /\ \A x : Leaving(x) = {} => Leaving(x)' = {}
           /\ k = "reparent" => Leaving(w) # {}
           /\ k = "destroy" => Ending(w) # {}
<1>1. /\ arrived \in Seq(TrayEvent) /\ arrived # <<>> /\ Head(arrived) = [kind |-> k, win |-> w]
      /\ arrived' = Tail(arrived)
  BY DEF TrayInv, TrayTypeOK, Handling, Dequeued
<1>2. /\ Len(arrived) \in Nat /\ Len(arrived) > 0 /\ DOMAIN arrived = 1..Len(arrived) /\ DOMAIN arrived' = 1..(Len(arrived) - 1)
      /\ arrived[1] = [kind |-> k, win |-> w] /\ \A i \in 1..(Len(arrived) - 1) : arrived'[i] = arrived[i + 1]
  BY <1>1
<1>3. \A x : \A i \in Ending(x)' : i + 1 \in Ending(x)
  BY <1>2 DEF Ending
<1>4. \A x : \A i \in Leaving(x)' : i + 1 \in Leaving(x)
  BY <1>2 DEF Leaving
<1>5. k = "reparent" => 1 \in Leaving(w)
  BY <1>2 DEF Leaving
<1>6. k = "destroy" => 1 \in Ending(w)
  BY <1>2 DEF Ending
<1> QED BY <1>3, <1>4, <1>5, <1>6

\* a step that moves no icon and takes no entry away
LEMMA EntryStays ==
    ASSUME TrayInv, HasEntry, early' = early,
           \A x \in Icon : xicon'[x].parent = xicon[x].parent,
           \A x \in Icon : GetByWin(x) # {} => GetByWin(x)' # {},
           \/ arrived' = arrived
           \/ \E k \in TrayEventKind \ {"reparent", "destroy"}, w \in Icon : Queued(k, w)
           \/ \E k \in TrayEventKind, w \in Icon : Handling(k, w) /\ Dequeued
    PROVE  HasEntry'
<1>1. /\ \A x : Ending(x) = {} => Ending(x)' = {}
      /\ \A x : Leaving(x) = {} => Leaving(x)' = {}
  <2>1. CASE arrived' = arrived
    BY <2>1 DEF Ending, Leaving
  <2>2. ASSUME NEW k \in TrayEventKind \ {"reparent", "destroy"}, NEW w \in Icon, Queued(k, w) PROVE <1>1!:
    BY <2>2, QueueGrows
  <2>3. ASSUME NEW k \in TrayEventKind, NEW w \in Icon, Handling(k, w), Dequeued PROVE <1>1!:
    BY <2>3, QueueShrinks
  <2> QED BY <2>1, <2>2, <2>3
<1>2. ASSUME NEW w \in Icon, Alive(w)' PROVE SafeInTray(w)'
  <2>1. Alive(w) /\ SafeInTray(w) /\ xicon'[w].parent = xicon[w].parent
    BY <1>2 DEF HasEntry, Alive
  <2> QED BY <1>1, <2>1 DEF SafeInTray
<1> QED BY <1>2 DEF HasEntry

\* an icon that goes elsewhere or dies
LEMMA EntryOfLeaver ==
    ASSUME TrayInv, HasEntry, NEW w \in Icon, Leave(w) \/ Die(w)
    PROVE  HasEntry'
<1>1. PICK k \in {"reparent", "destroy"}, p \in {"root", "gone"} :
        /\ k = "destroy" <=> p = "gone"
        /\ Alive(w) /\ Notified(k, w) /\ UNCHANGED <<embedded, early>>
        /\ xicon' = [xicon EXCEPT ![w].parent = p, ![w].shown = "no"]
  BY DEF Leave, Die, Alive, appVars
<1>2. xicon'[w].parent = p /\ \A x \in Icon : x # w => xicon'[x] = xicon[x]
  <2>1. xicon \in [Icon -> IconState] /\ xicon[w] \in IconState
    BY DEF TrayInv, TrayTypeOK
  <2> DEFINE r1 == [xicon[w] EXCEPT !.parent = p]
             r == [r1 EXCEPT !.shown = "no"]
  <2>2. r1.parent = p /\ r1 \in IconState
    BY <2>1 DEF IconState
  <2>3. r.parent = p
    <3> HIDE DEF r1
    <3> QED BY <2>2 DEF IconState
  <2>4. xicon' = [[xicon EXCEPT ![w] = r1] EXCEPT ![w].shown = "no"]
    BY <1>1
  <2>5. xicon' = [xicon EXCEPT ![w] = r]
    BY <2>1, <2>4
  <2> HIDE DEF r
  <2> QED BY <2>1, <2>3, <2>5
<1>3. /\ \A x : x # w => Ending(x)' = Ending(x) /\ Leaving(x)' = Leaving(x)
      /\ k = "reparent" => Ending(w)' = Ending(w)
  <2>1. CASE Queued(k, w)
    <3>1. k \in TrayEventKind
      BY DEF TrayEventKind
    <3> QED BY <2>1, <3>1, QueueGrows
  <2>2. CASE arrived' = arrived
    BY <2>2 DEF Ending, Leaving
  <2> QED BY <1>1, <2>1, <2>2 DEF Notified
<1>4. \A x : GetByWin(x)' = GetByWin(x)
  BY <1>1 DEF GetByWin
<1>5. ASSUME NEW x \in Icon, x # w, Alive(x)' PROVE SafeInTray(x)'
  <2>1. Alive(x) /\ SafeInTray(x) /\ xicon'[x] = xicon[x]
    BY <1>2, <1>5 DEF HasEntry, Alive
  <2> QED BY <1>1, <1>3, <1>4, <1>5, <2>1 DEF SafeInTray
<1>6. ASSUME Alive(w)' PROVE SafeInTray(w)'
  <2>1. p = "root" /\ k = "reparent"
    BY <1>1, <1>2, <1>6 DEF Alive
  <2>2. Ending(w) = {}
    BY <1>1 DEF HasEntry, SafeInTray
  <2> QED BY <1>2, <1>3, <2>1, <2>2 DEF SafeInTray
<1> QED BY <1>5, <1>6 DEF HasEntry

LEMMA EntryOfDocked ==
    ASSUME TrayInv, HasEntry, DockFinish
    PROVE  HasEntry'
<1>1. PICK w \in Icon : docking # <<>> /\ docking.win = w
  BY EntryWindows DEF DockFinish
<1> DEFINE new == [win |-> w, mapped |-> docking.info # "hide"]
<1>2. /\ xicon' = IF Alive(w) THEN [xicon EXCEPT ![w].parent = "tray", ![w].watched = TRUE] ELSE xicon
      /\ IF Alive(w) THEN Queued("docked", w) ELSE arrived' = arrived
      /\ embedded' = Append(embedded, new)
      /\ early' = IF Leaving(w) # {} THEN early \cup {w} ELSE early \ {w}
  BY <1>1 DEF DockFinish, Embed, Queued
<1>3. \A x \in Icon : x # w => xicon'[x] = xicon[x]
  BY <1>2 DEF TrayInv, TrayTypeOK
<1>4. \A x : Ending(x)' = Ending(x) /\ Leaving(x)' = Leaving(x)
  <2>1. CASE Alive(w)
    <3>1. "docked" \in TrayEventKind
      BY DEF TrayEventKind
    <3> QED BY <1>2, <2>1, <3>1, QueueGrows
  <2>2. CASE ~Alive(w)
    BY <1>2, <2>2 DEF Ending, Leaving
  <2> QED BY <2>1, <2>2
<1>5. GetByWin(w)' # {} /\ \A x : GetByWin(x) # {} => GetByWin(x)' # {}
  <2>1. /\ Len(embedded) \in Nat /\ DOMAIN embedded = 1..Len(embedded) /\ DOMAIN embedded' = 1..(Len(embedded) + 1)
        /\ embedded'[Len(embedded) + 1] = new /\ \A i \in 1..Len(embedded) : embedded'[i] = embedded[i]
    <3>1. embedded \in Seq(Entry)
      BY DEF TrayInv, TrayTypeOK
    <3> HIDE DEF new
    <3> QED BY <1>2, <3>1
  <2>2. Len(embedded) + 1 \in GetByWin(w)'
    BY <2>1 DEF GetByWin
  <2>3. \A x : GetByWin(x) \subseteq GetByWin(x)'
    BY <2>1 DEF GetByWin
  <2> QED BY <2>2, <2>3
<1>6. ASSUME NEW x \in Icon, x # w, Alive(x)' PROVE SafeInTray(x)'
  <2>1. Alive(x) /\ SafeInTray(x) /\ xicon'[x] = xicon[x] /\ (x \in early' <=> x \in early)
    BY <1>2, <1>3, <1>6 DEF HasEntry, Alive
  <2> QED BY <1>4, <1>5, <2>1 DEF SafeInTray
<1>7. ASSUME Alive(w)' PROVE SafeInTray(w)'
  <2>1. Ending(w) = {}
    BY <1>2, <1>7 DEF HasEntry, SafeInTray, Alive
  <2>2. w \notin early' => Leaving(w) = {}
    BY <1>2
  <2> QED BY <1>4, <1>5, <2>1, <2>2 DEF SafeInTray
<1> QED BY <1>6, <1>7 DEF HasEntry

\* the other entries are where they were, or one place nearer
LEMMA TakenRest ==
    ASSUME TrayInv, NEW w \in Icon, GetByWin(w) # {}, embedded' = Taken(w)
    PROVE  \A x : x # w /\ GetByWin(x) # {} => GetByWin(x)' # {}
<1> DEFINE k == CHOOSE i \in GetByWin(w) : TRUE
           r == SubSeq(embedded, 1, k - 1) \o SubSeq(embedded, k + 1, Len(embedded))
<1>1. embedded \in Seq(Entry)
  BY DEF TrayInv, TrayTypeOK
<1>2. k \in DOMAIN embedded /\ embedded[k].win = w
  BY DEF GetByWin
<1>3. embedded' = r
  BY DEF Taken, Without, RemoveAt
<1> HIDE DEF k
<1>4. /\ r \in Seq(Entry) /\ Len(r) = Len(embedded) - 1
      /\ \A j \in DOMAIN r : r[j] = IF j < k THEN embedded[j] ELSE embedded[j + 1]
  BY <1>1, <1>2, RemoveElement
<1> HIDE DEF r
<1>5. /\ Len(embedded) \in Nat /\ DOMAIN embedded = 1..Len(embedded) /\ DOMAIN r = 1..(Len(embedded) - 1)
  BY <1>1, <1>4
<1>6. SUFFICES ASSUME NEW x, x # w, NEW i \in DOMAIN embedded, embedded[i].win = x
               PROVE  \E j \in DOMAIN r : r[j].win = x
  BY <1>3 DEF GetByWin
<1>7. i # k
  BY <1>2, <1>6
<1>8. CASE i < k
  BY <1>2, <1>4, <1>5, <1>6, <1>8
<1>9. CASE i > k
  <2>1. i - 1 \in DOMAIN r /\ r[i - 1] = embedded[i]
    BY <1>2, <1>4, <1>5, <1>9
  <2> QED BY <1>6, <2>1
<1> QED BY <1>2, <1>5, <1>7, <1>8, <1>9

LEMMA EntryOfGone ==
    ASSUME TrayInv, HasEntry, NEW w \in Icon, HandleGone(w)
    PROVE  HasEntry'
<1>1. PICK k \in {"reparent", "destroy"} : Handling(k, w) /\ Dequeued
  BY DEF HandleGone
<1>2. k \in TrayEventKind /\ xicon' = xicon /\ early' = early
  BY DEF TrayEventKind, HandleGone, Ignore, handlerVars
<1>3. /\ \A x : Ending(x) = {} => Ending(x)' = {}
      /\ \A x : Leaving(x) = {} => Leaving(x)' = {}
      /\ k = "reparent" => Leaving(w) # {}
      /\ k = "destroy" => Ending(w) # {}
  BY <1>1, <1>2, QueueShrinks
<1>4. \A x : x # w /\ GetByWin(x) # {} => GetByWin(x)' # {}
  <2>1. CASE GetByWin(w) = {}
    <3>1. embedded' = embedded
      BY <2>1 DEF HandleGone, Ignore
    <3> QED BY <3>1 DEF GetByWin
  <2>2. CASE GetByWin(w) # {}
    <3>1. embedded' = Taken(w)
      BY <2>2 DEF HandleGone, Embed
    <3> QED BY <2>2, <3>1, TakenRest
  <2> QED BY <2>1, <2>2
<1>5. ASSUME NEW x \in Icon, x # w, Alive(x)' PROVE SafeInTray(x)'
  <2>1. Alive(x) /\ SafeInTray(x)
    BY <1>2, <1>5 DEF HasEntry, Alive
  <2> QED BY <1>2, <1>3, <1>4, <1>5, <2>1 DEF SafeInTray
<1>6. ASSUME Alive(w)' PROVE SafeInTray(w)'
  <2>1. SafeInTray(w)
    BY <1>2, <1>6 DEF HasEntry, Alive
  <2>2. xicon[w].parent # "tray" \/ w \in early
    BY <1>3, <2>1 DEF SafeInTray
  <2> QED BY <1>2, <1>3, <2>1, <2>2 DEF SafeInTray
<1> QED BY <1>5, <1>6 DEF HasEntry

\* what applications do and is not about the tray
LEMMA EntryWhileAsked ==
    ASSUME TrayInv, HasEntry, NEW w \in Icon,
           \/ AskDock(w) \/ AskMap(w) \/ AskSize(w) \/ HideSelf(w)
           \/ \E v \in {"none", "hide", "show"} : SetInfo(w, v)
    PROVE  HasEntry'
<1>1. xicon \in [Icon -> IconState] /\ \A x \in Icon : xicon[x] \in IconState
  BY DEF TrayInv, TrayTypeOK
<1>2. \A x \in Icon : xicon'[x].parent = xicon[x].parent
  <2>1. CASE AskDock(w) \/ AskMap(w) \/ AskSize(w)
    BY <2>1 DEF AskDock, AskMap, AskSize
  <2>2. CASE HideSelf(w)
    <3>1. xicon' = [xicon EXCEPT ![w] = [xicon[w] EXCEPT !.shown = "byself"]]
      BY <2>2 DEF HideSelf
    <3>2. [xicon[w] EXCEPT !.shown = "byself"].parent = xicon[w].parent
      BY <1>1 DEF IconState
    <3> QED BY <1>1, <3>1, <3>2
  <2>3. ASSUME NEW v \in {"none", "hide", "show"}, SetInfo(w, v) PROVE <1>2!:
    <3>1. xicon' = [xicon EXCEPT ![w] = [xicon[w] EXCEPT !.info = v]]
      BY <2>3 DEF SetInfo
    <3>2. [xicon[w] EXCEPT !.info = v].parent = xicon[w].parent
      BY <1>1 DEF IconState
    <3> QED BY <1>1, <3>1, <3>2
  <2> QED BY <2>1, <2>2, <2>3
<1>3. \A x : GetByWin(x)' = GetByWin(x)
  BY DEF GetByWin, AskDock, AskMap, AskSize, HideSelf, SetInfo, appVars
<1>4. \/ arrived' = arrived
      \/ \E k \in TrayEventKind \ {"reparent", "destroy"} : Queued(k, w)
  <2>1. {"dock", "map", "size", "property"} \subseteq TrayEventKind \ {"reparent", "destroy"}
    BY DEF TrayEventKind
  <2> QED BY <2>1 DEF AskDock, AskMap, AskSize, HideSelf, SetInfo, Notified
<1>5. early' = early
  BY DEF AskDock, AskMap, AskSize, HideSelf, SetInfo, appVars
<1> QED BY <1>2, <1>3, <1>4, <1>5, EntryStays

\* the events that do not end an entry, the drawins and Lua
LEMMA EntryWhileHandled ==
    ASSUME TrayInv, HasEntry, NEW w \in Icon,
           \/ DockRead(w) \/ DockAgain(w) \/ HandleProperty(w) \/ HandleMapIcon(w)
           \/ HandleSize(w) \/ HandleDocked(w)
    PROVE  HasEntry'
<1>1. \E k \in TrayEventKind : Handling(k, w) /\ Dequeued
  <2>1. {"dock", "docked", "property", "map", "size"} \subseteq TrayEventKind
    BY DEF TrayEventKind
  <2> QED BY <2>1 DEF DockRead, MayDock, DockAgain, HandleProperty, HandleMapIcon, HandleSize, HandleDocked
<1>2. \A x \in Icon : xicon'[x].parent = xicon[x].parent
  <2>1. CASE xicon' = xicon
    BY <2>1
  <2>2. ASSUME NEW s \in {"yes", "no"}, xicon' = XMap(w, s) PROVE <1>2!:
    BY <2>2, IconMapped
  <2>3. CASE xicon' = [xicon EXCEPT ![w].size = "own"]
    <3>1. xicon \in [Icon -> IconState] /\ xicon[w] \in IconState
      BY DEF TrayInv, TrayTypeOK
    <3>2. [xicon[w] EXCEPT !.size = "own"].parent = xicon[w].parent
      BY <3>1 DEF IconState
    <3>3. xicon' = [xicon EXCEPT ![w] = [xicon[w] EXCEPT !.size = "own"]]
      BY <2>3
    <3> QED BY <3>1, <3>2, <3>3
  <2> QED BY <2>1, <2>2, <2>3 DEF DockRead, DockAgain, HandleProperty, HandleMapIcon, HandleSize, HandleDocked, Ignore
<1>3. PICK b \in BOOLEAN : b = FlagNow(w)
  BY DEF FlagNow
<1>4. embedded' \in {embedded, Flagged(w, b), Flagged(w, TRUE)}
  BY <1>3 DEF DockRead, DockAgain, HandleProperty, HandleMapIcon, HandleSize, HandleDocked, Ignore, Embed
<1>5. \A x \in Icon : GetByWin(x) # {} => GetByWin(x)' # {}
  <2>1. CASE embedded' = embedded
    BY <2>1 DEF GetByWin
  <2>2. ASSUME NEW c \in BOOLEAN, embedded' = Flagged(w, c) PROVE <1>5!:
    <3>1. DOMAIN embedded' = DOMAIN embedded /\ \A i \in DOMAIN embedded : embedded'[i].win = embedded[i].win
      BY <2>2, FlaggedList
    <3>2. \A x : GetByWin(x)' = GetByWin(x)
      BY <3>1 DEF GetByWin
    <3> QED BY <3>2
  <2> QED BY <1>4, <2>1, <2>2
<1>6. early' = early
  BY DEF DockRead, DockAgain, HandleProperty, HandleMapIcon, HandleSize, HandleDocked, handlerVars
<1> QED BY <1>1, <1>2, <1>5, <1>6, EntryStays

LEMMA EntryWhileDrawn ==
    ASSUME TrayInv, HasEntry, (\E d \in Drawin : Draw(d) \/ Kickout(d) \/ Wipe(d)) \/ Cleanup
    PROVE  HasEntry'
<1>1. UNCHANGED <<arrived, embedded, early>>
  BY DEF Draw, Kickout, Wipe, Cleanup
<1>2. \A x \in Icon : xicon'[x].parent = xicon[x].parent
  <2>1. \A x \in Icon : Updated(x).parent = xicon[x].parent
    <3> TAKE x \in Icon
    <3>1. xicon[x] \in IconState
      BY DEF TrayInv, TrayTypeOK
    <3> DEFINE y == [xicon[x] EXCEPT !.shown = "yes"]
               yy == [y EXCEPT !.size = "tray"]
               n == [xicon[x] EXCEPT !.shown = "no"]
    <3>2. y \in IconState /\ y.parent = xicon[x].parent /\ n.parent = xicon[x].parent
      BY <3>1 DEF IconState
    <3>3. yy.parent = xicon[x].parent
      <4> HIDE DEF y
      <4> QED BY <3>2 DEF IconState
    <3>4. Updated(x) \in {xicon[x], yy, n}
      BY DEF Updated
    <3> HIDE DEF y, yy, n
    <3> QED BY <3>2, <3>3, <3>4
  <2>2. xicon' = xicon \/ xicon' = [w \in Icon |-> Updated(w)]
    BY DEF Draw, Kickout, Wipe, Cleanup
  <2> QED BY <2>1, <2>2
<1>3. \A x : GetByWin(x)' = GetByWin(x)
  BY <1>1 DEF GetByWin
<1> QED BY <1>1, <1>2, <1>3, EntryStays

LEMMA EntryStep == TrayInv /\ HasEntry /\ [TrayNext]_trayVars => HasEntry'
<1> SUFFICES ASSUME TrayInv, HasEntry, [TrayNext]_trayVars PROVE HasEntry'
  OBVIOUS
<1>1. CASE UNCHANGED trayVars
  <2>1. UNCHANGED <<xicon, arrived, embedded, early>>
    BY <1>1 DEF trayVars
  <2>2. \A x : GetByWin(x)' = GetByWin(x)
    BY <2>1 DEF GetByWin
  <2> QED BY <2>1, <2>2, EntryStays
<1>2. CASE TrayNext
  <2>1. ASSUME NEW w \in Icon, Leave(w) \/ Die(w) PROVE HasEntry'
    BY <2>1, EntryOfLeaver
  <2>2. ASSUME NEW w \in Icon,
               \/ AskDock(w) \/ AskMap(w) \/ AskSize(w) \/ HideSelf(w)
               \/ \E v \in {"none", "hide", "show"} : SetInfo(w, v)
        PROVE  HasEntry'
    BY <2>2, EntryWhileAsked
  <2>3. ASSUME NEW w \in Icon,
               \/ DockRead(w) \/ DockAgain(w) \/ HandleProperty(w) \/ HandleMapIcon(w)
               \/ HandleSize(w) \/ HandleDocked(w)
        PROVE  HasEntry'
    BY <2>3, EntryWhileHandled
  <2>4. ASSUME NEW w \in Icon, HandleGone(w) PROVE HasEntry'
    BY <2>4, EntryOfGone
  <2>5. CASE DockFinish
    BY <2>5, EntryOfDocked
  <2>6. CASE (\E d \in Drawin : Draw(d) \/ Kickout(d) \/ Wipe(d)) \/ Cleanup
    BY <2>6, EntryWhileDrawn
  <2> QED BY <1>2, <2>1, <2>2, <2>3, <2>4, <2>5, <2>6 DEF TrayNext
<1> QED BY <1>1, <1>2

LEMMA TrayInvShows == TrayInv /\ HasEntry => TrayTrue
<1> SUFFICES ASSUME TrayInv, HasEntry PROVE TrayTrue
  OBVIOUS
<1>1. Docked = {em.win : em \in Elements(embedded)} /\ ToSet(embedded) = Elements(embedded)
  BY DEF Docked, ToSet, Elements
<1>2. arrived = <<>> => \A k, w : ~Pending(k, w)
  BY DEF Pending, Elements
<1>3. EntriesInTray
  <2>1. IsInjective([i \in DOMAIN embedded |-> embedded[i].win])
    <3> DEFINE f == [i \in DOMAIN embedded |-> embedded[i].win]
    <3>1. DOMAIN f = DOMAIN embedded /\ \A i \in DOMAIN embedded : f[i] = embedded[i].win
      OBVIOUS
    <3> HIDE DEF f
    <3>2. \A i, j \in DOMAIN f : f[i] = f[j] => i = j
      BY <3>1 DEF TrayInv, EachOnce
    <3>3. IsInjective(f)
      BY <3>2 DEF IsInjective
    <3> QED BY <3>3 DEF f
  <2>2. ASSUME TrayQuiet, NEW em \in Elements(embedded), xicon[em.win].watched
        PROVE  xicon[em.win].parent = "tray"
    <3>1. xicon[em.win].parent \in {"root", "tray", "gone"}
      <4>1. em.win \in Icon
        BY EntryWindows
      <4> QED BY <4>1 DEF TrayInv, TrayTypeOK, IconState
    <3> QED BY <1>2, <2>2, <3>1 DEF TrayInv, GoneIsTold, TrayQuiet, Alive
  <2>3. ASSUME NEW w \in Icon, xicon[w].parent = "tray", w \notin early PROVE w \in Docked
    <3>1. PICK i \in DOMAIN embedded : embedded[i].win = w
      BY <2>3 DEF HasEntry, SafeInTray, Alive, GetByWin
    <3> QED BY <1>1, <3>1 DEF Elements
  <2> QED BY <1>1, <2>1, <2>2, <2>3 DEF EntriesInTray
<1>4. ShownAsAsked
  <2> SUFFICES ASSUME TrayQuiet, placed # "none", NEW em \in Elements(embedded), xicon[em.win].parent = "tray"
               PROVE  /\ em.win \notin unheard /\ xicon[em.win].info = "show" => em.mapped
                      /\ em.mapped => xicon[em.win].shown \in {"yes", "byself"} /\ xicon[em.win].size = "tray"
                      /\ ~em.mapped /\ xtray.mapped => xicon[em.win].shown # "yes"
    BY <1>1 DEF ShownAsAsked
  <2> QED BY <1>2 DEF TrayInv, InfoIsTold, DrawnAsFlagged, TrayQuiet, Alive
<1> QED BY <1>3, <1>4 DEF TrayTrue, TrayInv

\* Every icon in the tray has its entry, unless it was docked before an older move
\* of it was handled; an entry that is elsewhere once all is handled is of a
\* window that died too soon, an icon is shown as it asks, and
\* the tray window outlives the drawins, however many icons and drawins there are
\* and whatever is still on its way (systray.c, xembed.c).
THEOREM TraySafe == TraySpec => []TrayTrue
<1>1. TrayInit => TrayInv /\ HasEntry
  <2>1. TrayInit => HasEntry
    BY DEF TrayInit, HasEntry, SafeInTray, Ending, Leaving
  <2> QED BY <2>1, TrayStart
<1>2. TrayInv /\ HasEntry /\ [TrayNext]_trayVars => (TrayInv /\ HasEntry)'
  BY TrayStep, EntryStep
<1>3. TrayInv /\ HasEntry => TrayTrue
  BY TrayInvShows
<1> QED BY <1>1, <1>2, <1>3, PTL DEF TraySpec

-----------------------------------------------------------------------------
\* no list of handlers is longer than the number of connections
ListsBounded == \A w \in Where, s \in Name : Len(handlers[w][s]) <= MaxConnected

\* a call has run the first handlers of its snapshot; a call with a handler to
\* connect tells "s::connected"
CallRight(f) ==
    /\ Len(f.done) <= Len(f.snap) /\ \A i \in 1..Len(f.done) : f.done[i] = f.snap[i]
    /\ f.then # <<>> => \E s \in Signal : f.sig = Told[s]
CallsRight == \A i \in DOMAIN frames : CallRight(frames[i])

ObjectInv == ObjectTypeOK /\ ListsBounded /\ ReferencedWhileConnected /\ CallsRight
-----------------------------------------------------------------------------
(* Counting connections *)

LEMMA NamesFinite == IsFiniteSet(Name)
<1> DEFINE T == {Told[s] : s \in Signal}
<1>1. Told \in [Signal -> T]
  BY ObjectSignalsAssumption
<1>2. \A t \in T : \E s \in Signal : Told[s] = t
  OBVIOUS
<1> HIDE DEF T
<1>3. Told \in Surjection(Signal, T)
  BY <1>1, <1>2, Fun_IsSurj
<1>4. IsFiniteSet(T)
  BY <1>3, FS_Surjection, ObjectSignalsAssumption
<1>5. IsFiniteSet(Signal \cup T)
  BY <1>4, FS_Union, ObjectSignalsAssumption
<1> QED BY <1>5 DEF Name, T

LEMMA SpotsFinite ==
    ASSUME NEW lists, NEW h
    PROVE  IsFiniteSet(Spots(lists, h)) /\ Cardinality(Spots(lists, h)) \in Nat
<1>1. IsFiniteSet(1..MaxConnected)
  BY FS_Interval, ObjectSignalsAssumption
<1>2. IsFiniteSet(Name \X (1..MaxConnected))
  BY <1>1, NamesFinite, FS_Product
<1>3. Spots(lists, h) \in SUBSET (Name \X (1..MaxConnected))
  BY DEF Spots
<1>4. IsFiniteSet(Spots(lists, h))
  BY <1>2, <1>3, FS_Subset
<1> QED BY <1>4, FS_CardinalityType

\* a connection that is added to a list
LEMMA SpotAdded ==
    ASSUME NEW lists \in [Name -> Seq(Handler)], NEW s \in Name, NEW h \in Handler, Len(lists[s]) < MaxConnected, NEW k \in Handler
    PROVE  LET more == [lists EXCEPT ![s] = Append(lists[s], h)]
           IN  Cardinality(Spots(more, k)) = Cardinality(Spots(lists, k)) + (IF k = h THEN 1 ELSE 0)
<1> DEFINE more == [lists EXCEPT ![s] = Append(lists[s], h)]
           spot == <<s, Len(lists[s]) + 1>>
<1>1. /\ lists[s] \in Seq(Handler) /\ Len(lists[s]) \in Nat /\ DOMAIN lists[s] = 1..Len(lists[s])
      /\ more[s] = Append(lists[s], h) /\ DOMAIN more[s] = 1..(Len(lists[s]) + 1)
      /\ more[s][Len(lists[s]) + 1] = h /\ \A i \in 1..Len(lists[s]) : more[s][i] = lists[s][i]
      /\ \A r \in Name : r # s => more[r] = lists[r]
  OBVIOUS
<1>2. MaxConnected \in Nat /\ spot \in Name \X (1..MaxConnected) /\ spot[1] = s /\ spot[2] = Len(lists[s]) + 1
  BY <1>1, ObjectSignalsAssumption
<1> HIDE DEF more, spot
<1>3. spot \notin Spots(lists, k)
  BY <1>1, <1>2 DEF Spots
<1>4. ASSUME NEW p \in Name \X (1..MaxConnected), p # spot
      PROVE  p \in Spots(more, k) <=> p \in Spots(lists, k)
  <2>1. CASE p[1] # s
    BY <1>1, <2>1 DEF Spots
  <2>2. CASE p[1] = s
    <3>1. p[2] # Len(lists[s]) + 1 /\ p[2] \in Nat
      BY <1>2, <1>4, <2>2 DEF spot
    <3>2. p[2] \in DOMAIN more[s] <=> p[2] \in DOMAIN lists[s]
      BY <1>1, <3>1
    <3>3. p[2] \in DOMAIN lists[s] => more[s][p[2]] = lists[s][p[2]]
      BY <1>1
    <3> QED BY <2>2, <3>2, <3>3 DEF Spots
  <2> QED BY <2>1, <2>2
<1>5. spot \in Spots(more, k) <=> k = h
  BY <1>1, <1>2 DEF Spots
<1>6. Spots(more, k) = IF k = h THEN Spots(lists, k) \cup {spot} ELSE Spots(lists, k)
  BY <1>2, <1>3, <1>4, <1>5 DEF Spots
<1>7. Cardinality(Spots(more, k)) = Cardinality(Spots(lists, k)) + (IF k = h THEN 1 ELSE 0)
  <2>1. IsFiniteSet(Spots(lists, k)) /\ Cardinality(Spots(lists, k)) \in Nat
    BY SpotsFinite
  <2>2. Cardinality(Spots(lists, k) \cup {spot}) = Cardinality(Spots(lists, k)) + 1
    BY <1>3, <2>1, FS_AddElement
  <2> QED BY <1>6, <2>1, <2>2
<1> QED BY <1>7 DEF more

Fewer(lists, s, i) == [lists EXCEPT ![s] = RemoveAt(lists[s], i)]

\* a connection that is taken out of a list: the ones behind it move up
LEMMA SpotRemoved ==
    ASSUME NEW lists \in [Name -> Seq(Handler)], \A r \in Name : Len(lists[r]) <= MaxConnected,
           NEW s \in Name, NEW i \in DOMAIN lists[s], NEW k \in Handler
    PROVE  /\ Fewer(lists, s, i) \in [Name -> Seq(Handler)] /\ \A r \in Name : Len(Fewer(lists, s, i)[r]) <= MaxConnected
           /\ Cardinality(Spots(Fewer(lists, s, i), k)) = Cardinality(Spots(lists, k)) - (IF k = lists[s][i] THEN 1 ELSE 0)
<1> DEFINE fewer == [lists EXCEPT ![s] = RemoveAt(lists[s], i)]
           spot == <<s, i>>
           l == lists[s]
           f == fewer[s]
           n == Len(lists[s])
<1>1. l \in Seq(Handler) /\ n \in Nat /\ DOMAIN l = 1..n /\ i \in 1..n /\ n <= MaxConnected /\ MaxConnected \in Nat
  BY ObjectSignalsAssumption
<1>2. f \in Seq(Handler) /\ Len(f) = n - 1 /\ \A j \in DOMAIN f : f[j] = IF j < i THEN l[j] ELSE l[j + 1]
  <2> DEFINE r == SubSeq(lists[s], 1, i - 1) \o SubSeq(lists[s], i + 1, Len(lists[s]))
  <2>1. f = r
    BY DEF RemoveAt
  <2>2. r \in Seq(Handler) /\ Len(r) = Len(lists[s]) - 1
        /\ \A j \in DOMAIN r : r[j] = IF j < i THEN lists[s][j] ELSE lists[s][j + 1]
    <3>1. lists[s] \in Seq(Handler)
      OBVIOUS
    <3> QED BY <3>1, RemoveElement
  <2> HIDE DEF f, r
  <2> QED BY <2>1, <2>2
<1>3. DOMAIN f = 1..(n - 1)
  BY <1>1, <1>2
<1>4. fewer \in [Name -> Seq(Handler)] /\ \A r \in Name : r # s => fewer[r] = lists[r]
  BY <1>2
<1>5. \A r \in Name : Len(fewer[r]) <= MaxConnected
  BY <1>1, <1>2, <1>4
<1>6. spot \in Name \X (1..MaxConnected) /\ spot[1] = s /\ spot[2] = i /\ lists[s] = l /\ fewer[s] = f
  BY <1>1
<1>0. \A p \in Name \X (1..MaxConnected) : p = spot <=> p[1] = s /\ p[2] = i
  OBVIOUS
<1> HIDE DEF fewer, spot, l, f, n
<1> DEFINE B == Spots(fewer, k)
           A == Spots(lists, k) \ {spot}
           back(p) == IF p[1] = s /\ p[2] >= i THEN <<s, p[2] + 1>> ELSE p
           b == [p \in B |-> back(p)]
<1>7. ASSUME NEW p \in B PROVE back(p) \in A
  <2>1. p \in Name \X (1..MaxConnected) /\ p[2] \in DOMAIN fewer[p[1]] /\ fewer[p[1]][p[2]] = k
    BY <1>7 DEF Spots
  <2>2. CASE p[1] = s /\ p[2] >= i
    <3>1. /\ p[2] + 1 \in 1..n /\ p[2] + 1 \in 1..MaxConnected /\ p[2] + 1 # i /\ l[p[2] + 1] = k
          /\ back(p) = <<s, p[2] + 1>>
      <4> HIDE DEF back
      <4>1. p[2] \in 1..(n - 1) /\ f[p[2]] = k
        BY <1>3, <1>6, <2>1, <2>2
      <4>2. f[p[2]] = l[p[2] + 1]
        BY <1>2, <1>3, <2>2, <4>1
      <4>3. p[2] + 1 \in 1..n /\ p[2] + 1 \in 1..MaxConnected /\ p[2] + 1 # i
        BY <1>1, <2>2, <4>1
      <4>4. back(p) = <<s, p[2] + 1>>
        BY <2>2 DEF back
      <4> QED BY <4>1, <4>2, <4>3, <4>4
    <3>2. back(p) \in Name \X (1..MaxConnected) /\ back(p)[1] = s /\ back(p)[2] = p[2] + 1
      BY <3>1
    <3> HIDE DEF back
    <3> QED BY <1>0, <1>1, <1>6, <3>1, <3>2 DEF Spots
  <2>3. CASE ~(p[1] = s /\ p[2] >= i)
    <3>1. back(p) = p /\ p # spot
      BY <1>0, <1>1, <2>1, <2>3
    <3>2. p[2] \in DOMAIN lists[p[1]] /\ lists[p[1]][p[2]] = k
      <4>1. CASE p[1] = s
        BY <1>1, <1>2, <1>3, <1>6, <2>1, <2>3, <4>1
      <4>2. CASE p[1] # s
        BY <1>4, <2>1, <4>2
      <4> QED BY <4>1, <4>2
    <3> QED BY <2>1, <3>1, <3>2 DEF Spots
  <2> QED BY <2>2, <2>3
<1>8. \A p, q \in B : back(p) = back(q) => p = q
  <2>1. \A p \in B : p \in Name \X (1..MaxConnected)
    BY DEF Spots
  <2>2. ASSUME NEW p \in Name \X (1..MaxConnected), NEW q \in Name \X (1..MaxConnected), back(p) = back(q)
        PROVE  p = q
    <3>1. back(p)[1] = p[1] /\ back(q)[1] = q[1]
      OBVIOUS
    <3>2. back(p)[2] = (IF p[1] = s /\ p[2] >= i THEN p[2] + 1 ELSE p[2])
          /\ back(q)[2] = (IF q[1] = s /\ q[2] >= i THEN q[2] + 1 ELSE q[2])
      OBVIOUS
    <3>3. p[1] = q[1] /\ p[2] \in Nat /\ q[2] \in Nat /\ i \in Nat
      BY <1>1, <2>2, <3>1
    <3>4. p[2] = q[2]
      BY <2>2, <3>2, <3>3
    <3> QED BY <3>3, <3>4
  <2> QED BY <2>1, <2>2
<1>9. ASSUME NEW t \in A PROVE \E p \in B : back(p) = t
  <2>1. t \in Name \X (1..MaxConnected) /\ t[2] \in DOMAIN lists[t[1]] /\ lists[t[1]][t[2]] = k /\ t # spot
    BY <1>9 DEF Spots
  <2>2. CASE t[1] = s /\ t[2] > i
    <3>1. /\ t[2] - 1 \in 1..(n - 1) /\ t[2] - 1 \in 1..MaxConnected /\ t[2] - 1 >= i
          /\ f[t[2] - 1] = k /\ (t[2] - 1) + 1 = t[2]
      BY <1>1, <1>2, <1>3, <1>6, <2>1, <2>2
    <3> DEFINE p == <<s, t[2] - 1>>
    <3>2. p \in Name \X (1..MaxConnected) /\ p[1] = s /\ p[2] = t[2] - 1
      BY <3>1
    <3>3. t = <<s, t[2]>>
      BY <2>1, <2>2
    <3> HIDE DEF p
    <3>4. p \in B
      BY <1>3, <1>6, <3>1, <3>2 DEF Spots
    <3>5. back(p) = <<s, p[2] + 1>>
      BY <3>1, <3>2
    <3> QED BY <3>1, <3>2, <3>3, <3>4, <3>5
  <2>3. CASE ~(t[1] = s /\ t[2] > i)
    <3>1. ~(t[1] = s /\ t[2] >= i) /\ back(t) = t
      BY <1>0, <1>1, <2>1, <2>3
    <3>2. t[2] \in DOMAIN fewer[t[1]] /\ fewer[t[1]][t[2]] = k
      <4>1. CASE t[1] = s
        BY <1>1, <1>2, <1>3, <1>6, <2>1, <3>1, <4>1
      <4>2. CASE t[1] # s
        BY <1>4, <2>1, <4>2
      <4> QED BY <4>1, <4>2
    <3>3. t \in B
      BY <2>1, <3>2 DEF Spots
    <3> QED BY <3>1, <3>3
  <2> QED BY <2>2, <2>3
<1>10. b \in [B -> A]
  BY <1>7
<1>11. \A p, q \in B : b[p] = b[q] => p = q
  BY <1>8
<1>12. \A t \in A : \E p \in B : b[p] = t
  BY <1>9
<1> HIDE DEF A, B, b
<1>13. b \in Bijection(B, A)
  BY <1>10, <1>11, <1>12, Fun_IsBij
<1>14. Cardinality(A) = Cardinality(B)
  BY <1>13, SpotsFinite, FS_Bijection DEF ExistsBijection, B
<1>15. Cardinality(A) = IF spot \in Spots(lists, k) THEN Cardinality(Spots(lists, k)) - 1 ELSE Cardinality(Spots(lists, k))
  BY SpotsFinite, FS_RemoveElement DEF A
<1>16. spot \in Spots(lists, k) <=> k = lists[s][i]
  BY <1>1, <1>6 DEF Spots
<1>17. Cardinality(Spots(fewer, k)) = Cardinality(Spots(lists, k)) - (IF k = lists[s][i] THEN 1 ELSE 0)
  BY <1>14, <1>15, <1>16, SpotsFinite DEF B
<1> QED BY <1>4, <1>5, <1>17 DEF fewer, Fewer

\* there is room in a list for a connection when there is one at all
LEMMA RoomForOne ==
    ASSUME ObjectInv, Cardinality(Connections) < MaxConnected, NEW w \in Where, NEW s \in Name
    PROVE  Len(handlers[w][s]) < MaxConnected
<1>1. /\ handlers[w][s] \in Seq(Handler) /\ Len(handlers[w][s]) \in Nat /\ Len(handlers[w][s]) <= MaxConnected
      /\ MaxConnected \in Nat /\ DOMAIN handlers[w][s] = 1..Len(handlers[w][s])
  BY ObjectSignalsAssumption DEF ObjectInv, ObjectTypeOK, ListsBounded
<1> DEFINE n == Len(handlers[w][s])
           spot == [i \in 1..n |-> <<w, s, i>>]
<1>2. IsFiniteSet(1..n) /\ Cardinality(1..n) = n /\ IsFiniteSet(1..MaxConnected)
  <2>1. n \in Nat /\ MaxConnected \in Nat
    BY <1>1
  <2> HIDE DEF n
  <2>2. IsFiniteSet(1..n) /\ Cardinality(1..n) = IF 1 > n THEN 0 ELSE n - 1 + 1
    BY <2>1, FS_Interval
  <2>3. IsFiniteSet(1..MaxConnected)
    BY <2>1, FS_Interval
  <2> QED
    BY <2>1, <2>2, <2>3
<1>3. IsFiniteSet(Connections) /\ Cardinality(Connections) \in Nat
  <2>1. IsFiniteSet(Where)
    <3>1. Where = {"object"} \cup {"class"}
      BY DEF Where
    <3> QED BY <3>1, FS_Singleton, FS_Union
  <2> DEFINE F == [p \in (Where \X Name) \X (1..MaxConnected) |-> <<p[1][1], p[1][2], p[2]>>]
             D == (Where \X Name) \X (1..MaxConnected)
             R == Where \X Name \X (1..MaxConnected)
  <2>2. IsFiniteSet(D)
    BY <1>2, <2>1, NamesFinite, FS_Product
  <2>3. F \in [D -> R]
    OBVIOUS
  <2>4. \A t \in R : \E p \in D : F[p] = t
    <3>1. ASSUME NEW t \in R PROVE <<<<t[1], t[2]>>, t[3]>> \in D /\ F[<<<<t[1], t[2]>>, t[3]>>] = t
      OBVIOUS
    <3> QED BY <3>1
  <2> HIDE DEF F, D
  <2>5. F \in Surjection(D, R)
    BY <2>3, <2>4, Fun_IsSurj
  <2>6. IsFiniteSet(R)
    BY <2>2, <2>5, FS_Surjection
  <2>7. Connections \in SUBSET R
    BY DEF Connections
  <2> QED BY <2>6, <2>7, FS_Subset, FS_CardinalityType
<1>4. spot \in [1..n -> Connections]
  <2>1. ASSUME NEW i \in 1..n PROVE <<w, s, i>> \in Connections
    BY <1>1 DEF Connections
  <2> QED BY <2>1
<1>5. \A i, j \in 1..n : spot[i] = spot[j] => i = j
  OBVIOUS
<1> HIDE DEF spot, n
<1>6. spot \in Injection(1..n, Connections)
  BY <1>4, <1>5, Fun_IsInj
<1>7. n <= Cardinality(Connections)
  BY <1>2, <1>3, <1>6, FS_Injection
<1> QED BY <1>1, <1>3, <1>7 DEF n

-----------------------------------------------------------------------------
(* Emissions in progress *)

\* one begins
LEMMA CallBegun ==
    ASSUME ObjectInv, NEW w \in Where, NEW s \in Name, NEW then \in Seq(Handler),
           then # <<>> => \E t \in Signal : s = Told[t]
    PROVE  Begin(w, s, then) \in Call /\ CallRight(Begin(w, s, then))
<1>1. handlers[w][s] \in Seq(Handler) /\ <<>> \in Seq(Handler) /\ Len(<<>>) = 0 /\ Len(handlers[w][s]) \in Nat
  BY DEF ObjectInv, ObjectTypeOK
<1> QED BY <1>1 DEF Begin, Call, CallRight

LEMMA CallsAppend ==
    ASSUME ObjectInv, NEW f \in Call, CallRight(f), frames' = Append(frames, f)
    PROVE  frames' \in Seq(Call) /\ CallsRight'
<1>1. /\ frames' \in Seq(Call) /\ DOMAIN frames' = 1..(Len(frames) + 1) /\ DOMAIN frames = 1..Len(frames)
      /\ Len(frames) \in Nat /\ frames'[Len(frames) + 1] = f /\ \A i \in 1..Len(frames) : frames'[i] = frames[i]
  BY DEF ObjectInv, ObjectTypeOK
<1>2. \A i \in DOMAIN frames' : frames'[i] = f \/ (i \in DOMAIN frames /\ frames'[i] = frames[i])
  BY <1>1
<1>3. ASSUME NEW i \in DOMAIN frames' PROVE CallRight(frames[i])'
  <2>1. PICK g : g = frames'[i]
    OBVIOUS
  <2>2. CallRight(g)
    BY <1>2, <2>1 DEF ObjectInv, CallsRight
  <2> QED BY <2>1, <2>2 DEF CallRight
<1> QED BY <1>1, <1>3 DEF CallsRight

\* the innermost one goes on, or is over
LEMMA LastCall ==
    ASSUME ObjectInv, frames # <<>>
    PROVE  /\ frames \in Seq(Call) /\ Len(frames) \in DOMAIN frames /\ Last(frames) = frames[Len(frames)]
           /\ Last(frames) \in Call /\ CallRight(Last(frames))
<1>1. frames \in Seq(Call) /\ DOMAIN frames = 1..Len(frames) /\ Len(frames) \in Nat /\ Len(frames) > 0
  BY DEF ObjectInv, ObjectTypeOK
<1> QED BY <1>1 DEF Last, ObjectInv, CallsRight

LEMMA CallsReplace ==
    ASSUME ObjectInv, frames # <<>>, NEW f \in Call, CallRight(f), frames' = [frames EXCEPT ![Len(frames)] = f]
    PROVE  frames' \in Seq(Call) /\ CallsRight'
<1>1. frames \in Seq(Call) /\ DOMAIN frames = 1..Len(frames) /\ Len(frames) \in Nat /\ Len(frames) \in DOMAIN frames
  BY LastCall
<1>2. frames' \in Seq(Call) /\ DOMAIN frames' = DOMAIN frames
      /\ \A i \in DOMAIN frames : frames'[i] = IF i = Len(frames) THEN f ELSE frames[i]
  BY <1>1
<1>3. ASSUME NEW i \in DOMAIN frames' PROVE CallRight(frames[i])'
  <2>1. PICK g : g = frames'[i]
    OBVIOUS
  <2>2. CallRight(g)
    BY <1>2, <2>1 DEF ObjectInv, CallsRight
  <2> QED BY <2>1, <2>2 DEF CallRight
<1> QED BY <1>2, <1>3 DEF CallsRight

LEMMA CallsFront ==
    ASSUME ObjectInv, frames # <<>>, frames' = Front(frames)
    PROVE  frames' \in Seq(Call) /\ CallsRight'
<1>1. frames \in Seq(Call) /\ DOMAIN frames = 1..Len(frames) /\ Len(frames) \in Nat /\ Len(frames) > 0
  BY LastCall
<1> DEFINE m == Len(frames) - 1
<1>2. m \in Nat /\ \A i \in 1..m : frames[i] \in Call
  BY <1>1
<1> HIDE DEF m
<1>3. /\ SubSeq(frames, 1, m) \in Seq(Call) /\ Len(SubSeq(frames, 1, m)) = (IF 1 <= m THEN m - 1 + 1 ELSE 0)
      /\ \A i \in 1..m - 1 + 1 : SubSeq(frames, 1, m)[i] = frames[1 + i - 1]
  BY <1>2, SubSeqProperties
<1>4. frames' = SubSeq(frames, 1, m)
  BY DEF Front, m
<1>5. frames' \in Seq(Call) /\ DOMAIN frames' = 1..m /\ \A i \in 1..m : frames'[i] = frames[i]
  BY <1>2, <1>3, <1>4
<1>6. ASSUME NEW i \in DOMAIN frames' PROVE CallRight(frames[i])'
  <2>1. i \in DOMAIN frames
    BY <1>1, <1>5 DEF m
  <2>2. PICK g : g = frames'[i]
    OBVIOUS
  <2>3. CallRight(g)
    BY <1>5, <2>1, <2>2 DEF ObjectInv, CallsRight
  <2> QED BY <2>2, <2>3 DEF CallRight
<1> QED BY <1>5, <1>6 DEF CallsRight

\* the next handler is the next one of the snapshot
LEMMA CallGoesOn ==
    ASSUME NEW f \in Call, CallRight(f), Remaining(f) # <<>>
    PROVE  LET g == [f EXCEPT !.done = Append(@, Head(Remaining(f)))]
           IN  g \in Call /\ CallRight(g)
<1> DEFINE n == Len(f.done)
           m == Len(f.snap)
           h == Head(Remaining(f))
           g == [f EXCEPT !.done = Append(@, Head(Remaining(f)))]
<1>1. f.done \in Seq(Handler) /\ f.snap \in Seq(Handler) /\ n \in Nat /\ m \in Nat /\ n <= m
      /\ \A i \in 1..m : f.snap[i] \in Handler
  BY DEF Call, CallRight
<1>2. n + 1 \in Int /\ \A i \in (n + 1)..m : f.snap[i] \in Handler
  BY <1>1
<1> HIDE DEF n, m
<1>3. /\ SubSeq(f.snap, n + 1, m) \in Seq(Handler)
      /\ Len(SubSeq(f.snap, n + 1, m)) = (IF n + 1 <= m THEN m - (n + 1) + 1 ELSE 0)
      /\ \A i \in 1..m - (n + 1) + 1 : SubSeq(f.snap, n + 1, m)[i] = f.snap[n + 1 + i - 1]
  BY <1>1, <1>2, SubSeqProperties
<1>4. Remaining(f) = SubSeq(f.snap, n + 1, m)
  BY DEF Remaining, n, m
<1>5. n < m /\ h = f.snap[n + 1] /\ h \in Handler
  <2>1. Len(Remaining(f)) # 0
    BY <1>3, <1>4
  <2>2. n < m
    BY <1>1, <1>3, <1>4, <2>1
  <2>3. Remaining(f)[1] = f.snap[n + 1]
    BY <1>1, <1>3, <1>4, <2>2
  <2>4. h = Remaining(f)[1]
    BY <1>3, <1>4, <2>1
  <2> QED BY <1>1, <2>2, <2>3, <2>4
<1> HIDE DEF h
<1>6. g = [f EXCEPT !.done = Append(f.done, h)]
  BY DEF h
<1>7. /\ g.done = Append(f.done, h) /\ g.snap = f.snap /\ g.then = f.then /\ g.sig = f.sig
      /\ g \in Call
  <2>1. Append(f.done, h) \in Seq(Handler)
    BY <1>1, <1>5
  <2>2. \A d \in Seq(Handler) : /\ [f EXCEPT !.done = d] \in Call
                               /\ [f EXCEPT !.done = d].done = d /\ [f EXCEPT !.done = d].snap = f.snap
                               /\ [f EXCEPT !.done = d].then = f.then /\ [f EXCEPT !.done = d].sig = f.sig
    BY DEF Call
  <2> HIDE DEF g
  <2> QED BY <1>6, <2>1, <2>2
<1>8. Len(g.done) = n + 1 /\ \A i \in 1..(n + 1) : g.done[i] = f.snap[i]
  BY <1>1, <1>5, <1>7 DEF CallRight, n
<1> HIDE DEF g
<1>9. CallRight(g)
  BY <1>1, <1>5, <1>7, <1>8 DEF CallRight, m
<1> QED BY <1>7, <1>9 DEF g

-----------------------------------------------------------------------------
(* Each step *)

LEMMA ObjectStart == ObjectInit => ObjectInv
<1> SUFFICES ASSUME ObjectInit PROVE ObjectInv
  OBVIOUS
<1>1. frames = <<>> /\ DOMAIN frames = {} /\ \A w \in Where, s \in Name : handlers[w][s] = <<>>
  BY DEF ObjectInit
<1>2. ObjectTypeOK
  <2>1. [s \in Name |-> <<>>] \in [Name -> Seq(Handler)] /\ [h \in Handler |-> 0] \in [Handler -> Nat]
        /\ <<>> \in Seq(Call)
    OBVIOUS
  <2>2. handlers \in [Where -> [Name -> Seq(Handler)]] /\ counts \in [Where -> [Handler -> Nat]] /\ frames \in Seq(Call)
    BY <2>1 DEF ObjectInit
  <2> QED BY <2>2 DEF ObjectInit, ObjectTypeOK
<1>3. ListsBounded
  BY <1>1, ObjectSignalsAssumption DEF ListsBounded
<1>4. ReferencedWhileConnected
  <2>1. ASSUME NEW w \in Where, NEW h \in Handler PROVE counts[w][h] = Times(w, h)
    <3>1. Spots(handlers[w], h) = {}
      BY <1>1 DEF Spots
    <3> QED BY <3>1, FS_EmptySet DEF Times, ObjectInit
  <2> QED BY <2>1 DEF ReferencedWhileConnected, ObjectInit
<1> QED BY <1>1, <1>2, <1>3, <1>4 DEF ObjectInv, CallsRight

\* handlers and references as they were
LEMMA HandlersLeft ==
    ASSUME ObjectInv, UNCHANGED <<handlers, counts, missing>>, frames' \in Seq(Call), CallsRight',
           life' \in {"valid", "invalid", "collected"}, held' \subseteq {"C", "Lua"},
           seen' \in {"nothing", "method", "true", "false", "callback", "miss", "error"}
    PROVE  ObjectInv'
<1>1. ObjectTypeOK'
  BY DEF ObjectInv, ObjectTypeOK
<1>2. ListsBounded' /\ ReferencedWhileConnected'
  BY DEF ObjectInv, ListsBounded, ReferencedWhileConnected, Times, Spots
<1> QED BY <1>1, <1>2 DEF ObjectInv

\* signal_connect and luaA_object_incref
LEMMA ConnectedKept ==
    ASSUME ObjectInv, NEW w \in Where, NEW s \in Name, NEW h \in Handler, Connected(w, s, h)
    PROVE  /\ handlers' \in [Where -> [Name -> Seq(Handler)]] /\ counts' \in [Where -> [Handler -> Nat]]
           /\ ListsBounded' /\ \A v \in Where, k \in Handler : counts'[v][k] = Times(v, k)'
<1>0. /\ handlers \in [Where -> [Name -> Seq(Handler)]] /\ counts \in [Where -> [Handler -> Nat]]
      /\ Len(handlers[w][s]) < MaxConnected /\ MaxConnected \in Nat
      /\ \A v \in Where, k \in Handler : counts[v][k] = Times(v, k)
  BY RoomForOne, ObjectSignalsAssumption DEF ObjectInv, ObjectTypeOK, ReferencedWhileConnected, Connected
<1>1. PICK lists \in [Name -> Seq(Handler)] : lists = handlers[w]
  BY <1>0
<1>2. PICK more \in [Name -> Seq(Handler)] : more = [lists EXCEPT ![s] = Append(lists[s], h)]
  <2>1. Append(lists[s], h) \in Seq(Handler)
    OBVIOUS
  <2>2. [lists EXCEPT ![s] = Append(lists[s], h)] \in [Name -> Seq(Handler)]
    BY <2>1
  <2> QED BY <2>2
<1>3. handlers' = [handlers EXCEPT ![w] = more]
  BY <1>0, <1>1, <1>2 DEF Connected
<1>4. PICK c \in [Handler -> Nat] : c = [counts[w] EXCEPT ![h] = counts[w][h] + 1]
  <2>1. counts[w] \in [Handler -> Nat] /\ counts[w][h] + 1 \in Nat
    BY <1>0
  <2>2. [counts[w] EXCEPT ![h] = counts[w][h] + 1] \in [Handler -> Nat]
    BY <2>1
  <2> QED BY <2>2
<1>5. counts' = [counts EXCEPT ![w] = c]
  BY <1>0, <1>4 DEF Connected, Incref
<1>6. handlers' \in [Where -> [Name -> Seq(Handler)]] /\ counts' \in [Where -> [Handler -> Nat]]
  BY <1>0, <1>3, <1>5
<1>7. ListsBounded'
  <2>1. ASSUME NEW v \in Where, NEW r \in Name PROVE Len(handlers'[v][r]) <= MaxConnected
    <3>1. CASE v = w /\ r = s
      <4>1. handlers'[v][r] = Append(lists[s], h)
        BY <1>0, <1>2, <1>3, <3>1
      <4>2. Len(handlers'[v][r]) = Len(lists[s]) + 1 /\ Len(lists[s]) \in Nat
        BY <4>1
      <4> QED BY <1>0, <1>1, <4>2
    <3>2. CASE ~(v = w /\ r = s)
      <4>1. handlers'[v][r] = handlers[v][r]
        BY <1>0, <1>1, <1>2, <1>3, <3>2
      <4> QED BY <4>1 DEF ObjectInv, ListsBounded
    <3> QED BY <3>1, <3>2
  <2> QED BY <2>1 DEF ListsBounded
<1>8. ASSUME NEW v \in Where, NEW k \in Handler PROVE counts'[v][k] = Times(v, k)'
  <2>1. Times(v, k)' = Cardinality(Spots(handlers'[v], k)) /\ Times(v, k) = Cardinality(Spots(handlers[v], k))
    BY DEF Times, Spots
  <2>2. CASE v = w
    <3>1. handlers'[v] = more /\ counts'[v][k] = IF k = h THEN counts[w][k] + 1 ELSE counts[w][k]
      BY <1>0, <1>3, <1>4, <1>5, <2>2
    <3>2. Cardinality(Spots(more, k)) = Cardinality(Spots(lists, k)) + (IF k = h THEN 1 ELSE 0)
      <4>1. Len(lists[s]) < MaxConnected
        BY <1>0, <1>1
      <4>2. Cardinality(Spots([lists EXCEPT ![s] = Append(lists[s], h)], k))
              = Cardinality(Spots(lists, k)) + (IF k = h THEN 1 ELSE 0)
        BY ZenonT(30), <4>1, SpotAdded
      <4> QED BY <1>2, <4>2
    <3> QED BY <1>0, <1>1, <2>1, <2>2, <3>1, <3>2
  <2>3. CASE v # w
    BY <1>0, <1>3, <1>5, <2>1, <2>3
  <2> QED BY <2>2, <2>3
<1> QED BY <1>6, <1>7, <1>8

\* object:connect_signal, class.connect_signal
LEMMA ConnectKept ==
    ASSUME ObjectInv, NEW s \in Signal, NEW h \in Handler, Connect(s, h) \/ Listen(s, h)
    PROVE  ObjectInv'
<1>1. /\ \E w \in Where, r \in Name : Connected(w, r, h)
      /\ UNCHANGED <<missing, frames, life, held>> /\ seen' = "nothing"
  BY DEF Connect, Listen, Where, Name, Answered
<1>2. /\ handlers' \in [Where -> [Name -> Seq(Handler)]] /\ counts' \in [Where -> [Handler -> Nat]]
      /\ ListsBounded' /\ \A v \in Where, k \in Handler : counts'[v][k] = Times(v, k)'
  BY <1>1, ConnectedKept
<1>3. ObjectTypeOK'
  BY <1>1, <1>2 DEF ObjectInv, ObjectTypeOK
<1> QED BY <1>1, <1>2, <1>3 DEF ObjectInv, ReferencedWhileConnected, CallsRight, CallRight

\* disconnect_signal finds a connection, and therefore a reference
LEMMA DisconnectKept ==
    ASSUME ObjectInv, NEW w \in Where, NEW s \in Name, NEW h \in Handler, Disconnect(w, s, h)
    PROVE  ObjectInv'
<1>0. /\ handlers \in [Where -> [Name -> Seq(Handler)]] /\ counts \in [Where -> [Handler -> Nat]]
      /\ \A v \in Where, k \in Handler : counts[v][k] = Times(v, k)
      /\ UNCHANGED <<frames, life, held>> /\ seen' = "nothing" /\ ~missing
  BY DEF ObjectInv, ObjectTypeOK, ReferencedWhileConnected, Disconnect, Answered
<1>1. PICK lists \in [Name -> Seq(Handler)] : lists = handlers[w]
  BY <1>0
<1>2. \A r \in Name : Len(lists[r]) <= MaxConnected
  BY <1>1 DEF ObjectInv, ListsBounded
<1>3. h \in ToSet(lists[s])
  BY <1>1 DEF Disconnect, WasConnected
<1>4. \E i \in DOMAIN lists[s] : lists[s][i] = h /\ \A j \in 1..(i - 1) : lists[s][j] # h
  <2>1. lists[s] \in Seq(Handler) /\ DOMAIN lists[s] = 1..Len(lists[s]) /\ Len(lists[s]) \in Nat
    OBVIOUS
  <2> DEFINE P == {i \in DOMAIN lists[s] : lists[s][i] = h}
  <2>2. P \in SUBSET Nat /\ P # {}
    BY <1>3, <2>1 DEF ToSet
  <2>3. \E i \in P : \A j \in P : i <= j
    <3> HIDE DEF P
    <3> QED BY <2>2, LeastNumber
  <2> QED BY <2>1, <2>3
<1>5. PICK i \in DOMAIN lists[s] :
         i = CHOOSE n \in DOMAIN lists[s] : lists[s][n] = h /\ \A j \in 1..(n - 1) : lists[s][j] # h
  BY <1>4
<1>6. lists[s][i] = h
  BY <1>4, <1>5
<1>7. PICK fewer : fewer = Fewer(lists, s, i)
  OBVIOUS
<1>8. fewer \in [Name -> Seq(Handler)] /\ \A r \in Name : Len(fewer[r]) <= MaxConnected
  BY <1>2, <1>7, SpotRemoved
<1>9. \A k \in Handler : Cardinality(Spots(fewer, k)) = Cardinality(Spots(lists, k)) - (IF k = h THEN 1 ELSE 0)
  <2>1. ASSUME NEW k \in Handler
        PROVE  Cardinality(Spots(fewer, k)) = Cardinality(Spots(lists, k)) - (IF k = lists[s][i] THEN 1 ELSE 0)
    <3>1. Cardinality(Spots(Fewer(lists, s, i), k)) = Cardinality(Spots(lists, k)) - (IF k = lists[s][i] THEN 1 ELSE 0)
      BY <1>2, SpotRemoved
    <3> QED BY <1>7, <3>1
  <2> QED BY <1>6, <2>1
<1>10. handlers' = [handlers EXCEPT ![w] = fewer]
  <2>1. handlers' = [handlers EXCEPT ![w][s] = DropFirst(lists[s], h)]
    BY <1>0, <1>1, <1>3 DEF Disconnect
  <2>2. DropFirst(lists[s], h) = RemoveAt(lists[s], i)
    BY <1>5 DEF DropFirst
  <2> QED BY <1>0, <1>1, <1>7, <2>1, <2>2 DEF Fewer
<1>11. counts[w][h] > 0
  <2>1. Cardinality(Spots(fewer, h)) \in Nat /\ Cardinality(Spots(lists, h)) \in Nat
    BY SpotsFinite
  <2> QED BY <1>0, <1>1, <1>9, <2>1 DEF Times
<1>12. PICK c \in [Handler -> Nat] : c = [counts[w] EXCEPT ![h] = counts[w][h] - 1]
  <2>1. counts[w] \in [Handler -> Nat] /\ counts[w][h] - 1 \in Nat
    BY <1>0, <1>11
  <2>2. [counts[w] EXCEPT ![h] = counts[w][h] - 1] \in [Handler -> Nat]
    BY <2>1
  <2> QED BY <2>2
<1>13. counts' = [counts EXCEPT ![w] = c] /\ UNCHANGED missing
  BY <1>0, <1>11, <1>12 DEF Disconnect
<1>14. ObjectTypeOK'
  BY <1>0, <1>8, <1>10, <1>12, <1>13 DEF ObjectInv, ObjectTypeOK
<1>15. ListsBounded'
  BY <1>0, <1>8, <1>10 DEF ListsBounded, ObjectInv
<1>16. ASSUME NEW v \in Where, NEW k \in Handler PROVE counts'[v][k] = Times(v, k)'
  <2>1. Times(v, k)' = Cardinality(Spots(handlers'[v], k)) /\ Times(v, k) = Cardinality(Spots(handlers[v], k))
    BY DEF Times, Spots
  <2>2. CASE v = w
    <3>1. handlers'[v] = fewer /\ counts'[v][k] = IF k = h THEN counts[w][k] - 1 ELSE counts[w][k]
      BY <1>0, <1>10, <1>12, <1>13, <2>2
    <3> QED BY <1>0, <1>1, <1>9, <2>1, <2>2, <3>1, SpotsFinite
  <2>3. CASE v # w
    BY <1>0, <1>10, <1>13, <2>1, <2>3
  <2> QED BY <2>2, <2>3
<1> QED BY <1>0, <1>13, <1>14, <1>15, <1>16 DEF ObjectInv, ReferencedWhileConnected, CallsRight, CallRight

\* signals are emitted: calls begin, go on and end
LEMMA EmitKept ==
    ASSUME ObjectInv,
           \/ \E s \in Signal : Emit(s)
           \/ \E s \in Signal, h \in Handler : ClassConnect(s, h)
           \/ CallNext \/ EmitOnClass \/ Finish
    PROVE  ObjectInv'
<1>t. /\ frames \in Seq(Call) /\ life \in {"valid", "invalid", "collected"} /\ held \subseteq {"C", "Lua"} /\ seen' = "nothing"
      /\ UNCHANGED <<life, held, missing>>
  BY DEF ObjectInv, ObjectTypeOK, Answered, Emit, ClassConnect, CallNext, EmitOnClass, Finish
<1>1. ASSUME NEW s \in Signal, Emit(s) PROVE ObjectInv'
  <2>1. "object" \in Where /\ s \in Name /\ <<>> \in Seq(Handler)
    BY DEF Where, Name
  <2>2. Begin("object", s, <<>>) \in Call /\ CallRight(Begin("object", s, <<>>))
    BY <2>1, CallBegun
  <2>3. frames' = Append(frames, Begin("object", s, <<>>)) /\ UNCHANGED <<handlers, counts>>
    BY <1>1 DEF Emit
  <2> QED BY <1>t, <2>2, <2>3, CallsAppend, HandlersLeft
<1>2. ASSUME NEW s \in Signal, NEW h \in Handler, ClassConnect(s, h) PROVE ObjectInv'
  <2>1. "class" \in Where /\ Told[s] \in Name /\ <<h>> \in Seq(Handler)
    BY DEF Where, Name
  <2>2. Begin("class", Told[s], <<h>>) \in Call /\ CallRight(Begin("class", Told[s], <<h>>))
    BY <2>1, CallBegun
  <2>3. frames' = Append(frames, Begin("class", Told[s], <<h>>)) /\ UNCHANGED <<handlers, counts>>
    BY <1>2 DEF ClassConnect
  <2> QED BY <1>t, <2>2, <2>3, CallsAppend, HandlersLeft
<1>3. CASE CallNext
  <2>1. /\ frames # <<>> /\ Remaining(Last(frames)) # <<>> /\ UNCHANGED <<handlers, counts>>
        /\ frames' = [frames EXCEPT ![Len(frames)].done = Append(@, Head(Remaining(Last(frames))))]
    BY <1>3 DEF CallNext
  <2>2. Len(frames) \in DOMAIN frames /\ Last(frames) = frames[Len(frames)] /\ Last(frames) \in Call /\ CallRight(Last(frames))
    BY <2>1, LastCall
  <2>3. PICK g : g = [Last(frames) EXCEPT !.done = Append(@, Head(Remaining(Last(frames))))]
    OBVIOUS
  <2>4. g \in Call /\ CallRight(g)
    BY <2>1, <2>2, <2>3, CallGoesOn
  <2>5. frames' = [frames EXCEPT ![Len(frames)] = g]
    BY <1>t, <2>1, <2>2, <2>3
  <2> QED BY <1>t, <2>1, <2>4, <2>5, CallsReplace, HandlersLeft
<1>4. CASE EmitOnClass
  <2>1. /\ frames # <<>> /\ UNCHANGED <<handlers, counts>>
        /\ frames' = [frames EXCEPT ![Len(frames)] = Begin("class", @.sig, <<>>)]
    BY <1>4 DEF EmitOnClass
  <2>2. Len(frames) \in DOMAIN frames /\ Last(frames) = frames[Len(frames)] /\ Last(frames) \in Call
    BY <2>1, LastCall
  <2>3. Last(frames).sig \in Name /\ "class" \in Where /\ <<>> \in Seq(Handler)
    BY <2>2 DEF Call, Where
  <2>4. PICK g : g = Begin("class", Last(frames).sig, <<>>)
    OBVIOUS
  <2>5. g \in Call /\ CallRight(g)
    BY <2>3, <2>4, CallBegun
  <2>6. frames' = [frames EXCEPT ![Len(frames)] = g]
    BY <1>t, <2>1, <2>2, <2>4
  <2> QED BY <1>t, <2>1, <2>5, <2>6, CallsReplace, HandlersLeft
<1>5. CASE Finish
  <2>1. frames # <<>> /\ frames' = Front(frames)
    BY <1>5 DEF Finish
  <2>2. Last(frames) \in Call /\ CallRight(Last(frames))
    BY <2>1, LastCall
  <2>3. frames' \in Seq(Call) /\ CallsRight'
    BY <2>1, CallsFront
  <2>4. CASE Last(frames).then = <<>>
    <3>1. UNCHANGED <<handlers, counts>>
      BY <1>5, <2>4 DEF Finish
    <3> QED BY <1>t, <2>3, <3>1, HandlersLeft
  <2>5. CASE Last(frames).then # <<>>
    <3>1. Connected("class", SignalOf(Last(frames).sig), Last(frames).then[1])
      BY <1>5, <2>5 DEF Finish
    <3>2. SignalOf(Last(frames).sig) \in Signal
      BY <2>2, <2>5 DEF CallRight, SignalOf
    <3>3. Last(frames).then[1] \in Handler
      <4>1. Last(frames).then \in Seq(Handler)
        BY <2>2 DEF Call
      <4> QED BY <2>5, <4>1
    <3>4. "class" \in Where /\ SignalOf(Last(frames).sig) \in Name
      BY <3>2 DEF Where, Name
    <3>5. /\ handlers' \in [Where -> [Name -> Seq(Handler)]] /\ counts' \in [Where -> [Handler -> Nat]]
          /\ ListsBounded' /\ \A v \in Where, k \in Handler : counts'[v][k] = Times(v, k)'
      BY <3>1, <3>3, <3>4, ConnectedKept
    <3>6. ObjectTypeOK'
      BY <1>t, <2>3, <3>5 DEF ObjectInv, ObjectTypeOK
    <3> QED BY <1>t, <2>3, <3>5, <3>6 DEF ObjectInv, ReferencedWhileConnected
  <2> QED BY <2>4, <2>5
<1> QED BY <1>1, <1>2, <1>3, <1>4, <1>5

\* the object lives, is collected, and is asked
LEMMA LifeKept ==
    ASSUME ObjectInv,
           \/ Invalidate \/ LuaDrops \/ LuaKeeps
           \/ \E k \in {"method", "valid", "property", "unknown"}, b \in BOOLEAN : Access(k, b)
    PROVE  ObjectInv'
<1>1. /\ UNCHANGED <<handlers, counts, missing, frames>> /\ life' \in {"valid", "invalid", "collected"}
      /\ held' \subseteq {"C", "Lua"} /\ seen' \in {"nothing", "method", "true", "false", "callback", "miss", "error"}
  <2>1. life \in {"valid", "invalid", "collected"} /\ held \subseteq {"C", "Lua"}
    BY DEF ObjectInv, ObjectTypeOK
  <2>2. CASE Invalidate \/ LuaDrops \/ LuaKeeps
    BY <2>1, <2>2 DEF Invalidate, LuaDrops, LuaKeeps, Answered
  <2>3. ASSUME NEW k \in {"method", "valid", "property", "unknown"}, NEW b \in BOOLEAN, Access(k, b)
        PROVE  UNCHANGED <<handlers, counts, missing, frames, life, held>>
               /\ seen' \in {"nothing", "method", "true", "false", "callback", "miss", "error"}
    <3>1. Answer(k) \in {"nothing", "method", "true", "false", "error"} /\ Checked \in {"callback", "error"}
      BY <2>1 DEF Answer, Checked
    <3>2. k = "property" \/ k = "unknown" \/ Answer(k) # "nothing"
      BY <2>1 DEF Answer
    <3> QED BY <2>3, <3>1, <3>2 DEF Access
  <2> QED BY <2>1, <2>2, <2>3
<1>2. frames' \in Seq(Call) /\ CallsRight'
  BY <1>1 DEF ObjectInv, ObjectTypeOK, CallsRight, CallRight
<1> QED BY <1>1, <1>2, HandlersLeft

LEMMA CollectKept == ASSUME ObjectInv, Collect PROVE ObjectInv'
<1>0. /\ handlers \in [Where -> [Name -> Seq(Handler)]] /\ counts \in [Where -> [Handler -> Nat]] /\ held = {}
      /\ handlers' = [handlers EXCEPT !["object"] = [s \in Name |-> <<>>]]
      /\ counts' = [counts EXCEPT !["object"] = [h \in Handler |-> 0]]
      /\ UNCHANGED <<missing, frames, held>> /\ seen' = "nothing" /\ life' = "collected"
  BY DEF ObjectInv, ObjectTypeOK, Collect, Answered
<1>1. ObjectTypeOK'
  <2>1. [s \in Name |-> <<>>] \in [Name -> Seq(Handler)] /\ [h \in Handler |-> 0] \in [Handler -> Nat]
    OBVIOUS
  <2>2. handlers' \in [Where -> [Name -> Seq(Handler)]] /\ counts' \in [Where -> [Handler -> Nat]]
    BY <1>0, <2>1
  <2> QED BY <1>0, <2>2 DEF ObjectInv, ObjectTypeOK
<1>2. ListsBounded'
  BY <1>0, ObjectSignalsAssumption DEF ObjectInv, ListsBounded
<1>3. ASSUME NEW v \in Where, NEW k \in Handler PROVE counts'[v][k] = Times(v, k)'
  <2>1. Times(v, k)' = Cardinality(Spots(handlers'[v], k)) /\ Times(v, k) = Cardinality(Spots(handlers[v], k))
    BY DEF Times, Spots
  <2>2. CASE v = "object"
    <3>1. Spots(handlers'[v], k) = {} /\ counts'[v][k] = 0
      BY <1>0, <2>2 DEF Spots
    <3> QED BY <2>1, <3>1, FS_EmptySet
  <2>3. CASE v # "object"
    BY <1>0, <2>1, <2>3 DEF ObjectInv, ReferencedWhileConnected
  <2> QED BY <2>2, <2>3
<1> QED BY <1>0, <1>1, <1>2, <1>3 DEF ObjectInv, ReferencedWhileConnected, CallsRight, CallRight

LEMMA ObjectStep == ObjectInv /\ [ObjectNext]_objectVars => ObjectInv'
<1> SUFFICES ASSUME ObjectInv, [ObjectNext]_objectVars PROVE ObjectInv'
  OBVIOUS
<1>1. CASE UNCHANGED objectVars
  <2>1. UNCHANGED <<handlers, counts, missing, frames, life, held, seen>>
    BY <1>1 DEF objectVars
  <2>2. frames' \in Seq(Call) /\ CallsRight'
    BY <2>1 DEF ObjectInv, ObjectTypeOK, CallsRight, CallRight
  <2> QED BY <2>1, <2>2, HandlersLeft DEF ObjectInv, ObjectTypeOK
<1>2. CASE ObjectNext
  BY <1>2, ConnectKept, DisconnectKept, EmitKept, LifeKept, CollectKept DEF ObjectNext
<1> QED BY <1>1, <1>2

LEMMA ObjectInvShows == ObjectInv => SignalsKept
<1> SUFFICES ASSUME ObjectInv PROVE SignalsKept
  OBVIOUS
<1>1. ASSUME NEW i \in DOMAIN frames
      PROVE  IsPrefix(frames[i].done, frames[i].snap) /\ (Remaining(frames[i]) = <<>> => frames[i].done = frames[i].snap)
  <2>1. PICK f \in Call : f = frames[i]
    BY DEF ObjectInv, ObjectTypeOK
  <2>2. CallRight(f)
    BY <2>1 DEF ObjectInv, CallsRight
  <2> DEFINE d == f.done
             t == f.snap
             n == Len(f.done)
             m == Len(f.snap)
  <2>3. d \in Seq(Handler) /\ t \in Seq(Handler) /\ n \in Nat /\ m \in Nat /\ n <= m
        /\ \A j \in 1..n : d[j] = t[j] /\ d[j] \in Handler /\ t[j] \in Handler
    BY <2>2 DEF Call, CallRight
  <2>4. Len(d) = n /\ Len(t) = m
    OBVIOUS
  <2> HIDE DEF d, t, n, m
  <2>5. /\ SubSeq(d, 1, n) \in Seq(Handler) /\ Len(SubSeq(d, 1, n)) = (IF 1 <= n THEN n - 1 + 1 ELSE 0)
        /\ \A j \in 1..n - 1 + 1 : SubSeq(d, 1, n)[j] = d[1 + j - 1]
    BY <2>3, SubSeqProperties
  <2>6. /\ SubSeq(t, 1, n) \in Seq(Handler) /\ Len(SubSeq(t, 1, n)) = (IF 1 <= n THEN n - 1 + 1 ELSE 0)
        /\ \A j \in 1..n - 1 + 1 : SubSeq(t, 1, n)[j] = t[1 + j - 1]
    BY <2>3, SubSeqProperties
  <2>7. SubSeq(d, 1, n) = SubSeq(t, 1, n)
    <3>1. Len(SubSeq(d, 1, n)) = n /\ Len(SubSeq(t, 1, n)) = n
          /\ \A j \in 1..n : SubSeq(d, 1, n)[j] = SubSeq(t, 1, n)[j]
      BY <2>3, <2>5, <2>6
    <3> QED BY <2>5, <2>6, <3>1, SeqEqual
  <2>8. IsPrefix(d, t)
    BY <2>3, <2>4, <2>7 DEF IsPrefix
  <2>9. Remaining(f) = <<>> => d = t
    <3>1. SUFFICES ASSUME Remaining(f) = <<>> PROVE d = t
      OBVIOUS
    <3>2. \A j \in (n + 1)..m : t[j] \in Handler
      BY <2>3, <2>4
    <3>3. Len(SubSeq(t, n + 1, m)) = (IF n + 1 <= m THEN m - (n + 1) + 1 ELSE 0)
      BY <2>3, <3>2, SubSeqProperties
    <3>4. SubSeq(t, n + 1, m) = <<>>
      BY <3>1 DEF Remaining, t, n, m
    <3>5. n = m
      <4>0. Len(<<>>) = 0
        OBVIOUS
      <4>1. Len(SubSeq(t, n + 1, m)) = 0
        BY <3>4, <4>0, Zenon
      <4>2. ~(n + 1 <= m)
        BY <2>3, <3>3, <4>1
      <4> QED BY <2>3, <4>2
    <3> QED BY <2>3, <2>4, <3>5, SeqEqual
  <2> QED BY <2>1, <2>8, <2>9 DEF d, t
<1>2. SnapshotCalled
  BY <1>1 DEF SnapshotCalled
<1> QED BY <1>2 DEF SignalsKept, ObjectInv

\* A handler is referenced once for every connection of it, and an emission calls
\* the handlers that were connected when it began (luaobject.c, signal.h).
THEOREM SignalsSafe == ObjectSpec => []SignalsKept
<1>1. ObjectSpec => []ObjectInv
  BY ObjectStart, ObjectStep, PTL DEF ObjectSpec
<1> QED BY <1>1, ObjectInvShows, PTL

-----------------------------------------------------------------------------
(* The main loop never sleeps on an event that xcb has read, whatever the     *)
(* numbers of requests and events are.                                        *)
\* The part of the types that the argument needs: what is in a queue is an
\* event, so that a polled one is not mistaken for none.
QueueTypes ==
    /\ sent \in Nat /\ done \in Nat /\ user \in Nat
    /\ wire \in Seq(Request)
    /\ socket \in Seq(Event) /\ xcbq \in Seq(Event)

\* a motion is held back only within a_xcb_check
HeldInCheck == phase # "check" => mouse = NoEvent

IInv == QueueTypes /\ HeldInCheck /\ NothingSleptOn

-----------------------------------------------------------------------------
(* Requests and queues *)

LEMMA SuccessorType == \A n \in Nat : Successor(n) \in Nat
BY LoopAssumption DEF Successor

LEMMA MoveTypes ==
    ASSUME QueueTypes, MoveWindows
    PROVE  sent' \in Nat /\ wire' \in Seq(Request)
<1> DEFINE a == Successor(sent)
           b == Successor(a)
           c == Successor(b)
           d == Successor(c)
           requests == <<[n |-> a, moves |-> FALSE], [n |-> b, moves |-> TRUE],
                         [n |-> c, moves |-> FALSE], [n |-> d, moves |-> FALSE]>>
<1>1. a \in Nat /\ b \in Nat /\ c \in Nat /\ d \in Nat
  BY SuccessorType DEF QueueTypes
<1>2. sent' = d /\ wire' = wire \o requests
  BY DEF MoveWindows
<1> HIDE DEF a, b, c, d
<1>3. requests \in Seq(Request)
  <2>1. /\ [n |-> a, moves |-> FALSE] \in Request /\ [n |-> b, moves |-> TRUE] \in Request
        /\ [n |-> c, moves |-> FALSE] \in Request /\ [n |-> d, moves |-> FALSE] \in Request
    BY <1>1 DEF Request
  <2> QED BY <2>1
<1> HIDE DEF requests
<1> QED BY <1>1, <1>2, <1>3 DEF QueueTypes

\* Reading what the server sent keeps the order of the queue.
LEMMA ReadTypes ==
    ASSUME QueueTypes, ReadEvents
    PROVE  xcbq' \in Seq(Event) /\ socket' \in Seq(Event)
<1>1. xcbq \o socket \in Seq(Event) /\ <<>> \in Seq(Event)
  BY DEF QueueTypes
<1>2. CASE xcbq' = xcbq \o socket /\ socket' = <<>>
  BY <1>1, <1>2
<1>3. CASE UNCHANGED <<xcbq, socket>>
  BY <1>3 DEF QueueTypes
<1> QED BY <1>2, <1>3 DEF ReadEvents

\* xcb_poll_for_event leaves an event in hand, or none anywhere.
LEMMA PollTakes ==
    ASSUME QueueTypes, PollForEvent
    PROVE  /\ xcbq' \in Seq(Event) /\ socket' \in Seq(Event)
           /\ pending' = NoEvent => xcbq' = <<>>
<1> DEFINE q == xcbq \o socket
<1>1. q \in Seq(Event)
  BY DEF QueueTypes
<1>2. CASE q = <<>>
  <2>1. xcbq = <<>>
    BY <1>2 DEF QueueTypes
  <2> QED BY <1>2, <2>1 DEF PollForEvent, QueueTypes
<1>3. CASE q # <<>>
  <2>1. Head(q) \in Event /\ pending' = Head(q)
    BY <1>1, <1>3 DEF PollForEvent
  <2>2. pending' # NoEvent
    BY <2>1, NoEventAssumption
  <2>3. CASE xcbq # <<>>
    BY <1>3, <2>2, <2>3 DEF PollForEvent, QueueTypes
  <2>4. CASE xcbq = <<>>
    <3>1. socket # <<>>
      BY <1>3, <2>4
    <3> QED BY <1>3, <2>2, <2>4, <3>1 DEF PollForEvent, QueueTypes
  <2> QED BY <2>3, <2>4
<1> QED BY <1>2, <1>3

LEMMA TakeTypes ==
    ASSUME QueueTypes, Incoming # <<>>, TakeIncoming
    PROVE  xcbq' \in Seq(Event) /\ socket' \in Seq(Event)
<1>1. pending # NoEvent \/ xcbq # <<>> \/ socket # <<>>
  BY DEF Incoming
<1>2. CASE pending # NoEvent
  BY <1>2 DEF TakeIncoming, QueueTypes
<1>3. CASE pending = NoEvent /\ xcbq # <<>>
  BY SMTT(30), <1>3 DEF TakeIncoming, QueueTypes
<1>4. CASE pending = NoEvent /\ xcbq = <<>>
  <2>1. xcbq' = Tail(socket) /\ socket' = <<>> /\ socket # <<>>
    BY <1>1, <1>4 DEF TakeIncoming
  <2>2. Tail(socket) \in Seq(Event) /\ <<>> \in Seq(Event)
    BY <2>1 DEF QueueTypes
  <2> QED BY <2>1, <2>2
<1> QED BY <1>2, <1>3, <1>4

-----------------------------------------------------------------------------
(* The steps *)

LEMMA OutsideStep ==
    ASSUME IInv, Serve \/ \E kind \in {"motion", "crossing", "button", "other"} : UserEvent(kind)
    PROVE  IInv'
<1>1. CASE Serve
  <2> DEFINE r == Head(wire)
             e == [kind |-> "crossing", n |-> r.n, stamp |-> 0]
  <2>1. r \in Request /\ wire' \in Seq(Request) /\ done' = r.n
    BY <1>1 DEF Serve, IInv, QueueTypes
  <2>2. r.n \in Nat
    BY <2>1 DEF Request
  <2>3. e \in Event
    BY <2>2 DEF Event
  <2>4. socket' = socket \/ socket' = Append(socket, e)
    BY <1>1 DEF Serve
  <2>5. socket' \in Seq(Event)
    <3> HIDE DEF e
    <3> QED BY <2>3, <2>4 DEF IInv, QueueTypes
  <2>6. UNCHANGED <<user, phase, sent, xcbq, pending, mouse>>
    BY <1>1 DEF Serve, loopvars
  <2> QED BY <2>1, <2>2, <2>5, <2>6 DEF IInv, QueueTypes, HeldInCheck, NothingSleptOn
<1>2. ASSUME NEW kind \in {"motion", "crossing", "button", "other"}, UserEvent(kind) PROVE IInv'
  <2> DEFINE e == [kind |-> kind, n |-> done, stamp |-> user + 1]
  <2>1. e \in Event
    BY DEF Event, IInv, QueueTypes
  <2>2. socket' = Append(socket, e) /\ user' = user + 1
        /\ UNCHANGED <<wire, done, phase, sent, xcbq, pending, mouse>>
    BY <1>2 DEF UserEvent, loopvars
  <2>3. socket' \in Seq(Event)
    <3> HIDE DEF e
    <3> QED BY <2>1, <2>2 DEF IInv, QueueTypes
  <2> QED BY <2>2, <2>3 DEF IInv, QueueTypes, HeldInCheck, NothingSleptOn
<1> QED BY <1>1, <1>2

LEMMA LoopStep ==
    ASSUME IInv, MainLoop \/ WakeOther
    PROVE  IInv'
<1> USE DEF IInv, HeldInCheck, NothingSleptOn
<1>1. CASE Refresh
  <2>1. sent' \in Nat /\ wire' \in Seq(Request)
    BY <1>1, MoveTypes DEF Refresh, QueueTypes
  <2>2. xcbq' \in Seq(Event) /\ socket' \in Seq(Event)
    BY <1>1, ReadTypes DEF Refresh
  <2> QED BY <1>1, <2>1, <2>2 DEF Refresh, QueueTypes
<1>2. CASE Poll
  <2>1. PollForEvent /\ phase = "poll" /\ UNCHANGED <<wire, done, user, sent, mouse>>
    BY <1>2 DEF Poll
  <2> QED BY <2>1, PollTakes DEF QueueTypes
<1>3. CASE Wake \/ WakeOther
  BY <1>3 DEF Wake, WakeOther, xvars, QueueTypes
<1>4. CASE HoldMotion
  BY <1>4, TakeTypes DEF HoldMotion, CheckFrame, QueueTypes
<1>5. CASE HandleHeldMotion
  BY <1>5 DEF HandleHeldMotion, CheckFrame, QueueTypes
<1>6. CASE HandleNext
  BY <1>6, TakeTypes DEF HandleNext, CheckFrame, QueueTypes
<1>7. CASE FinishCheck
  BY <1>7 DEF FinishCheck, CheckFrame, QueueTypes
<1>8. CASE Dispatch
  <2>1. xcbq' \in Seq(Event) /\ socket' \in Seq(Event)
    BY <1>8, ReadTypes DEF Dispatch
  <2> QED BY <1>8, <2>1 DEF Dispatch, QueueTypes
<1> QED BY <1>1, <1>2, <1>3, <1>4, <1>5, <1>6, <1>7, <1>8 DEF MainLoop

\* The loop sleeps only when xcb has no event left that it read while somebody
\* waited for a reply, and no motion is held back.
THEOREM SleepsOnNothing ==
    Spec => []NothingSleptOn
<1>1. Init => IInv
  BY LoopAssumption DEF Init, IInv, QueueTypes, HeldInCheck, NothingSleptOn
<1>2. IInv /\ [Next]_vars => IInv'
  <2> SUFFICES ASSUME IInv, [Next]_vars PROVE IInv'
    OBVIOUS
  <2>1. CASE UNCHANGED vars
    BY <2>1 DEF vars, xvars, loopvars, IInv, QueueTypes, HeldInCheck, NothingSleptOn
  <2> QED BY <2>1, OutsideStep, LoopStep DEF Next
<1>3. IInv => NothingSleptOn
  BY DEF IInv
<1> QED BY <1>1, <1>2, <1>3, PTL DEF Spec

-----------------------------------------------------------------------------
(* Requests and events: their numbers, which wrap around *)

\* Numbers less than a modulus apart: the remainder grows with them, or wraps once.
LEMMA ModSpan ==
    ASSUME NEW M \in Nat \ {0}, NEW a \in Int, NEW b \in Int, a <= b, b - a < M
    PROVE  /\ a % M \in 0..(M - 1) /\ b % M \in 0..(M - 1)
           /\ (b % M) = (a % M) + (b - a) \/ (b % M) = (a % M) + (b - a) - M
<1> DEFINE p == a \div M
           q == b \div M
           r == a % M
           s == b % M
           k == q - p
<1>1. a = M * p + r /\ r \in 0..(M - 1) /\ p \in Int
  OBVIOUS
<1>2. b = M * q + s /\ s \in 0..(M - 1) /\ q \in Int
  OBVIOUS
<1> HIDE DEF p, q, r, s
<1>3. k \in Int /\ b - a = M * k + (s - r)
  <2>1. M * q - M * p = M * (q - p)
    BY <1>1, <1>2
  <2> QED BY <1>1, <1>2, <2>1
<1> HIDE DEF k
<1>4. /\ k >= 2 => M * k >= 2 * M
      /\ k <= -1 => M * k <= -M
      /\ k = 1 => M * k = M
      /\ k = 0 => M * k = 0
  BY <1>3
<1>5. k \in {0, 1}
  <2>1. ~(k >= 2)
    BY <1>1, <1>2, <1>3, <1>4
  <2>2. ~(k <= -1)
    BY <1>1, <1>2, <1>3, <1>4
  <2> QED BY <1>3, <2>1, <2>2
<1>6. s = r + (b - a) \/ s = r + (b - a) - M
  BY <1>1, <1>2, <1>3, <1>4, <1>5
<1> QED BY <1>1, <1>2, <1>6 DEF r, s

\* the number that an event has in its 32 bits, or the distance of two numbers
Rem(n) == n % Modulus

LEMMA RemSpan ==
    ASSUME NEW a \in Int, NEW b \in Int, a <= b, b - a < Modulus
    PROVE  /\ Rem(a) \in 0..(Modulus - 1) /\ Rem(b) \in 0..(Modulus - 1)
           /\ Rem(b) = Rem(a) + (b - a) \/ Rem(b) = Rem(a) + (b - a) - Modulus
BY ModSpan, LoopAssumption DEF Rem

LEMMA RemZero == Rem(0) = 0
<1> DEFINE M == Modulus
           q == 0 \div M
           r == 0 % M
<1>1. M \in Nat \ {0}
  BY LoopAssumption
<1> HIDE DEF M
<1>2. 0 = M * q + r /\ q \in Int /\ r \in 0..(M - 1)
  BY <1>1
<1> HIDE DEF q, r
<1>3. (q >= 1 => M * q >= M) /\ (q <= -1 => M * q <= -M) /\ (q = 0 => M * q = 0)
  BY <1>1, <1>2
<1>4. r = 0
  BY <1>1, <1>2, <1>3
<1> QED BY <1>4 DEF r, Rem, M

\* the numbers of the run
Number == First..(First + MaxRequests)

LEMMA NumberFacts ==
    /\ Modulus \in Nat \ {0} /\ MaxRequests \in Nat /\ MaxRequests < Modulus
    /\ Number \subseteq Nat
    /\ \A a, b \in Number : b - a \in Int /\ b - a <= MaxRequests /\ -MaxRequests <= b - a
BY LoopAssumption DEF Number

\* A range is over for the events after its end and for no other.
LEMMA OverRight ==
    ASSUME NEW r \in Nat \X Nat, r[2] \in Number, NEW n \in Number
    PROVE  NotOver(r, n) <=> n <= r[2]
<1> DEFINE d == r[2] - n
           h == (Modulus - 1) \div 2
<1>1. d \in Int /\ d <= MaxRequests /\ -MaxRequests <= d
  BY NumberFacts
<1>2. h \in Nat /\ MaxRequests < h /\ h <= Modulus - 1 - MaxRequests
  BY LoopAssumption
<1>3. NotOver(r, n) <=> Rem(d) < h
  BY DEF NotOver, Rem
<1>4. n <= r[2] <=> d >= 0
  BY NumberFacts
<1> HIDE DEF d, h
<1>5. CASE d >= 0
  <2>1. Rem(d) \in 0..(Modulus - 1) /\ (Rem(d) = Rem(0) + (d - 0) \/ Rem(d) = Rem(0) + (d - 0) - Modulus)
    BY <1>1, <1>5, NumberFacts, RemSpan
  <2>2. Rem(d) = d
    BY <1>1, <1>5, <2>1, NumberFacts, RemZero
  <2>3. MaxRequests \in Nat
    BY NumberFacts
  <2>4. Rem(d) < h
    BY <1>1, <1>2, <2>2, <2>3
  <2>5. n <= r[2]
    BY <1>4, <1>5
  <2> QED BY <1>3, <2>4, <2>5
<1>6. CASE d < 0
  <2>1. Rem(d) \in 0..(Modulus - 1) /\ (Rem(0) = Rem(d) + (0 - d) \/ Rem(0) = Rem(d) + (0 - d) - Modulus)
    BY <1>1, <1>6, NumberFacts, RemSpan
  <2>2. Rem(d) = d + Modulus
    BY <1>1, <1>6, <2>1, NumberFacts, RemZero
  <2>3. MaxRequests \in Nat /\ Modulus \in Nat
    BY NumberFacts
  <2>4. ~(Rem(d) < h)
    BY <1>1, <1>2, <2>2, <2>3
  <2>5. ~(n <= r[2])
    BY <1>1, <1>4, <1>6
  <2> QED BY <1>3, <2>4, <2>5
<1> QED BY <1>1, <1>5, <1>6

\* An event that is in a range by its remainder is in it by its number.
LEMMA InsideMeans ==
    ASSUME NEW r \in Nat \X Nat, NEW n \in Number, r[1] \in Number, r[2] \in Number,
           r[1] <= r[2], n <= r[2], Inside(r, n)
    PROVE  r[1] <= n
<1> DEFINE a == r[1]
           b == r[2]
<1>1. a \in Int /\ b \in Int /\ n \in Int /\ b - n < Modulus /\ b - a < Modulus
      /\ a <= b /\ n <= b /\ a - n < Modulus
  BY NumberFacts
<1>2. Rem(n) >= Rem(a) /\ Rem(n) <= Rem(b)
  BY DEF Inside, Rem
<1> HIDE DEF a, b
<1>3. SUFFICES ASSUME n < a PROVE FALSE
  BY <1>1 DEF a
<1>4. /\ Rem(n) \in 0..(Modulus - 1) /\ Rem(a) \in 0..(Modulus - 1)
      /\ Rem(a) = Rem(n) + (a - n) \/ Rem(a) = Rem(n) + (a - n) - Modulus
  BY <1>1, <1>3, RemSpan
<1>5. Rem(b) \in 0..(Modulus - 1) /\ (Rem(b) = Rem(n) + (b - n) \/ Rem(b) = Rem(n) + (b - n) - Modulus)
  BY <1>1, RemSpan
<1>6. Rem(b) = Rem(a) + (b - a) \/ Rem(b) = Rem(a) + (b - a) - Modulus
  BY <1>1, RemSpan
<1> QED BY <1>1, <1>2, <1>3, <1>4, <1>5, <1>6, NumberFacts

\* An event in a range is inside by its remainder, unless the numbers wrap there.
LEMMA InsideUnlessWrapped ==
    ASSUME NEW r \in Nat \X Nat, NEW n \in Number, r[1] \in Number, r[2] \in Number,
           r[1] <= n, n <= r[2], ~Inside(r, n)
    PROVE  r[2] % Modulus < r[1] % Modulus
<1> DEFINE a == r[1]
           b == r[2]
<1>1. a \in Int /\ b \in Int /\ n \in Int /\ a <= n /\ n <= b /\ a <= b
      /\ b - a < Modulus /\ n - a < Modulus /\ b - n < Modulus
  BY NumberFacts
<1>2. ~(Rem(n) >= Rem(a) /\ Rem(n) <= Rem(b))
  BY DEF Inside, Rem
<1> HIDE DEF a, b
<1>4. /\ Rem(n) \in 0..(Modulus - 1) /\ Rem(a) \in 0..(Modulus - 1)
      /\ Rem(n) = Rem(a) + (n - a) \/ Rem(n) = Rem(a) + (n - a) - Modulus
  BY <1>1, RemSpan
<1>5. Rem(b) \in 0..(Modulus - 1) /\ (Rem(b) = Rem(n) + (b - n) \/ Rem(b) = Rem(n) + (b - n) - Modulus)
  BY <1>1, RemSpan
<1>6. Rem(b) = Rem(a) + (b - a) \/ Rem(b) = Rem(a) + (b - a) - Modulus
  BY <1>1, RemSpan
<1>7. Rem(b) < Rem(a)
  BY <1>1, <1>2, <1>4, <1>5, <1>6, NumberFacts
<1> QED BY <1>7 DEF a, b, Rem

\* Two numbers less than a modulus apart do not have the same remainder.
LEMMA RemDiffers ==
    ASSUME NEW a \in Nat, NEW b \in Nat, a < b, b - a < Modulus
    PROVE  Rem(a) # Rem(b)
<1>1. a \in Int /\ b \in Int /\ a <= b
  OBVIOUS
<1>2. /\ Rem(a) \in 0..(Modulus - 1)
      /\ Rem(b) = Rem(a) + (b - a) \/ Rem(b) = Rem(a) + (b - a) - Modulus
  BY <1>1, RemSpan
<1>3. Modulus \in Nat
  BY NumberFacts
<1>4. /\ Rem(a) + (b - a) # Rem(a)
      /\ Rem(a) + (b - a) - Modulus # Rem(a)
  BY <1>2, <1>3
<1> QED BY <1>2, <1>4

\* One request after the other, and at most one number is left out of four.
LEMMA FourRequests ==
    ASSUME NEW n \in Nat, n + 5 <= First + MaxRequests, First <= n
    PROVE  LET a == Successor(n)
               b == Successor(a)
               c == Successor(b)
               d == Successor(c)
           IN  /\ a \in Nat /\ b \in Nat /\ c \in Nat /\ d \in Nat
               /\ n < a /\ a < b /\ b < c /\ c < d /\ d <= n + 5
<1> DEFINE a == Successor(n)
           b == Successor(a)
           c == Successor(b)
           d == Successor(c)
<1>1. \A m \in Nat : \/ Rem(m + 1) = 0 /\ Successor(m) = m + 2
                     \/ Rem(m + 1) # 0 /\ Successor(m) = m + 1
  BY DEF Successor, Rem
<1>2. Modulus > 12 /\ Modulus \in Nat
  BY LoopAssumption
<1>3. a \in Nat /\ \/ Rem(n + 1) = 0 /\ a = n + 2
                   \/ a = n + 1
  BY <1>1
<1> HIDE DEF a
<1>4. b \in Nat /\ \/ Rem(a + 1) = 0 /\ b = a + 2
                   \/ b = a + 1
  BY <1>1, <1>3
<1> HIDE DEF b
<1>5. c \in Nat /\ \/ Rem(b + 1) = 0 /\ c = b + 2
                   \/ c = b + 1
  BY <1>1, <1>4
<1> HIDE DEF c
<1>6. d \in Nat /\ \/ Rem(c + 1) = 0 /\ d = c + 2
                   \/ d = c + 1
  BY <1>1, <1>5
<1> HIDE DEF d
<1>7. \A p, q \in Nat : p < q /\ q < p + 8 => ~(Rem(p) = 0 /\ Rem(q) = 0)
  BY <1>2, RemDiffers
<1>8. /\ ~(Rem(n + 1) = 0 /\ Rem(a + 1) = 0) /\ ~(Rem(n + 1) = 0 /\ Rem(b + 1) = 0)
      /\ ~(Rem(n + 1) = 0 /\ Rem(c + 1) = 0) /\ ~(Rem(a + 1) = 0 /\ Rem(b + 1) = 0)
      /\ ~(Rem(a + 1) = 0 /\ Rem(c + 1) = 0) /\ ~(Rem(b + 1) = 0 /\ Rem(c + 1) = 0)
  <2>1. n + 1 \in Nat /\ a + 1 \in Nat /\ b + 1 \in Nat /\ c + 1 \in Nat
    BY <1>3, <1>4, <1>5
  <2>2. n + 1 < a + 1 /\ a + 1 < b + 1 /\ b + 1 < c + 1 /\ c + 1 < n + 1 + 8
        /\ a + 1 < n + 1 + 8 /\ b + 1 < n + 1 + 8
    BY <1>3, <1>4, <1>5
  <2> QED BY <1>3, <1>4, <1>5, <1>7, <2>1, <2>2
<1>9. n < a /\ a < b /\ b < c /\ c < d /\ d <= n + 5
  BY <1>3, <1>4, <1>5, <1>6, <1>8
<1> QED BY <1>3, <1>4, <1>5, <1>6, <1>9 DEF a, b, c, d

-----------------------------------------------------------------------------
(* The events on their way, in their order *)

\* older events before younger ones
Ordered(q) == \A i, j \in DOMAIN q : i <= j => q[i].n <= q[j].n

LEMMA OrderedTail ==
    ASSUME NEW q \in Seq(Event), q # <<>>, Ordered(q)
    PROVE  /\ Ordered(Tail(q)) /\ Head(q) \in Event /\ Tail(q) \in Seq(Event)
           /\ Head(q) \in Elements(q) /\ Elements(Tail(q)) \subseteq Elements(q)
           /\ \A e \in Elements(q) : Head(q).n <= e.n
<1> DEFINE t == Tail(q)
<1>1. /\ Len(q) \in Nat /\ DOMAIN q = 1..Len(q) /\ DOMAIN t = 1..(Len(q) - 1)
      /\ 1 \in DOMAIN q /\ q[1] = Head(q) /\ \A i \in DOMAIN t : t[i] = q[i + 1]
  OBVIOUS
<1>2. Head(q) \in Event /\ t \in Seq(Event) /\ Elements(q) = Elements(t) \cup {Head(q)}
  BY TailElements
<1> HIDE DEF t
<1>3. ASSUME NEW i \in DOMAIN t, NEW j \in DOMAIN t, i <= j PROVE t[i].n <= t[j].n
  <2>1. i + 1 \in DOMAIN q /\ j + 1 \in DOMAIN q /\ i + 1 <= j + 1 /\ t[i] = q[i + 1] /\ t[j] = q[j + 1]
    BY <1>1, <1>3
  <2> QED BY <2>1 DEF Ordered
<1>4. ASSUME NEW i \in DOMAIN q PROVE Head(q).n <= q[i].n
  <2>1. 1 <= i
    BY <1>1
  <2> QED BY <1>1, <2>1 DEF Ordered
<1>5. \A e \in Elements(q) : Head(q).n <= e.n
  BY <1>4 DEF Elements
<1> QED BY <1>2, <1>3, <1>5 DEF Ordered, t

LEMMA OrderedAppend ==
    ASSUME NEW q \in Seq(Event), Ordered(q), NEW e \in Event, \A d \in Elements(q) : d.n <= e.n
    PROVE  /\ Ordered(Append(q, e)) /\ Append(q, e) \in Seq(Event)
           /\ Elements(Append(q, e)) = Elements(q) \cup {e}
<1> DEFINE a == Append(q, e)
           n == Len(q) + 1
<1>1. /\ n \in Nat \ {0} /\ DOMAIN q = 1..(n - 1) /\ DOMAIN a = 1..n
      /\ a[n] = e /\ \A i \in DOMAIN q : a[i] = q[i]
  OBVIOUS
<1>2. a \in Seq(Event) /\ Elements(a) = Elements(q) \cup {e}
  BY AppendElements
<1> HIDE DEF a, n
<1>3. \A i \in DOMAIN a : i \in Nat /\ (i = n \/ (i \in DOMAIN q /\ i < n))
  BY <1>1
<1>4. ASSUME NEW i \in DOMAIN a, NEW j \in DOMAIN a, i <= j PROVE a[i].n <= a[j].n
  <2>1. CASE j \in DOMAIN q
    <3>1. i \in DOMAIN q
      BY <1>1, <1>3, <1>4, <2>1
    <3> QED BY <1>1, <1>4, <2>1, <3>1 DEF Ordered
  <2>2. CASE j = n /\ i \in DOMAIN q
    BY <1>1, <2>2 DEF Elements
  <2>3. CASE j = n /\ i = n
    BY <1>1, <2>3 DEF Event
  <2> QED BY <1>3, <2>1, <2>2, <2>3
<1> QED BY <1>2, <1>4 DEF Ordered, a

\* Taking the next event, reading events and polling for one leave the others in
\* their order.
LEMMA IncomingSteps ==
    ASSUME QueueTypes, pending \in Event \cup {NoEvent}
    PROVE  /\ Incoming \in Seq(Event)
           /\ Incoming # <<>> /\ TakeIncoming => Incoming' = Tail(Incoming) /\ pending' = NoEvent
           /\ ReadEvents /\ pending' = pending => Incoming' = Incoming
           /\ PollForEvent /\ pending = NoEvent =>
                 Incoming' = Incoming /\ pending' \in Event \cup {NoEvent}
           /\ \A e \in Event :
                 socket' = Append(socket, e) /\ UNCHANGED <<pending, xcbq>> =>
                    Incoming' = Append(Incoming, e)
<1> DEFINE hand == IF pending = NoEvent THEN <<>> ELSE <<pending>>
<1>0. hand \in Seq(Event) /\ xcbq \in Seq(Event) /\ socket \in Seq(Event)
  BY DEF QueueTypes
<1>1. Incoming = hand \o xcbq \o socket
  BY DEF Incoming
<1>2. Incoming \in Seq(Event)
  BY <1>0, <1>1
<1>3. ASSUME Incoming # <<>>, TakeIncoming PROVE Incoming' = Tail(Incoming) /\ pending' = NoEvent
  <2>1. pending' = NoEvent
    BY <1>3 DEF TakeIncoming
  <2>2. Incoming' = xcbq' \o socket'
    <3>1. xcbq' \in Seq(Event) /\ socket' \in Seq(Event)
      BY <1>3, TakeTypes
    <3> QED BY <2>1, <3>1 DEF Incoming
  <2>3. CASE pending # NoEvent
    <3>1. Incoming' = xcbq \o socket
      BY <1>3, <2>2, <2>3 DEF TakeIncoming
    <3>2. Incoming = <<pending>> \o (xcbq \o socket)
      BY <1>0, <2>3 DEF Incoming
    <3> QED BY <1>0, <2>1, <2>3, <3>1, <3>2
  <2>4. CASE pending = NoEvent /\ xcbq # <<>>
    <3>1. Incoming' = Tail(xcbq) \o socket
      BY <1>3, <2>2, <2>4 DEF TakeIncoming
    <3>2. Incoming = xcbq \o socket
      BY <1>0, <2>4 DEF Incoming
    <3> QED BY <1>0, <2>1, <2>4, <3>1, <3>2
  <2>5. CASE pending = NoEvent /\ xcbq = <<>>
    <3>1. Incoming = socket
      BY <1>0, <2>5 DEF Incoming
    <3>2. xcbq' = Tail(socket) /\ socket' = <<>> /\ Tail(socket) \in Seq(Event)
      BY <1>0, <1>3, <2>5, <3>1 DEF TakeIncoming
    <3> QED BY <2>1, <2>2, <3>1, <3>2
  <2> QED BY <2>3, <2>4, <2>5
<1>4. ASSUME ReadEvents, pending' = pending PROVE Incoming' = Incoming
  <2>1. CASE xcbq' = xcbq \o socket /\ socket' = <<>>
    <3>1. Incoming' = hand \o (xcbq \o socket) \o <<>>
      BY <1>4, <2>1 DEF Incoming
    <3>2. hand \o (xcbq \o socket) \o <<>> = hand \o (xcbq \o socket)
      BY <1>0
    <3>3. hand \o (xcbq \o socket) = hand \o xcbq \o socket
      BY <1>0
    <3> QED BY <1>1, <3>1, <3>2, <3>3
  <2>2. CASE UNCHANGED <<xcbq, socket>>
    BY <1>4, <2>2 DEF Incoming
  <2> QED BY <1>4, <2>1, <2>2 DEF ReadEvents
<1>5. ASSUME PollForEvent, pending = NoEvent PROVE Incoming' = Incoming /\ pending' \in Event \cup {NoEvent}
  <2> DEFINE q == xcbq \o socket
  <2>1. q \in Seq(Event) /\ Incoming = q
    BY <1>0, <1>5 DEF Incoming
  <2>2. CASE q = <<>>
    BY <1>5, <2>2 DEF PollForEvent, Incoming
  <2>3. CASE q # <<>>
    <3>1. pending' = Head(q) /\ Head(q) \in Event /\ pending' # NoEvent
      BY <1>5, <2>1, <2>3, NoEventAssumption DEF PollForEvent
    <3>2. Incoming' = <<Head(q)>> \o xcbq' \o socket'
      BY <3>1 DEF Incoming
    <3>3. CASE xcbq # <<>>
      <4>1. xcbq' = Tail(xcbq) /\ socket' = socket /\ Head(q) = Head(xcbq)
        BY <1>0, <1>5, <2>3, <3>3 DEF PollForEvent
      <4>2. <<Head(xcbq)>> \o Tail(xcbq) = xcbq
        BY <1>0, <3>3
      <4> QED BY <2>1, <3>1, <3>2, <4>1, <4>2
    <3>4. CASE xcbq = <<>>
      <4>1. q = socket
        BY <1>0, <3>4
      <4>2. xcbq' = Tail(socket) /\ socket' = <<>>
        BY <1>5, <2>3, <3>4 DEF PollForEvent
      <4>3. <<Head(socket)>> \o Tail(socket) \o <<>> = socket
        BY <1>0, <2>3, <4>1
      <4> QED BY <2>1, <3>1, <3>2, <4>1, <4>2, <4>3
    <3> QED BY <3>3, <3>4
  <2> QED BY <2>2, <2>3, <1>5
<1>6. ASSUME NEW e \in Event, socket' = Append(socket, e), UNCHANGED <<pending, xcbq>>
      PROVE  Incoming' = Append(Incoming, e)
  <2>1. Incoming' = (hand \o xcbq) \o Append(socket, e)
    BY <1>6 DEF Incoming
  <2> DEFINE h == hand \o xcbq
  <2>2. h \in Seq(Event)
    BY <1>0
  <2> HIDE DEF h
  <2>3. h \o Append(socket, e) = Append(h \o socket, e)
    BY <1>0, <2>2
  <2> QED BY <1>1, <2>1, <2>3 DEF h
<1> QED BY <1>2, <1>3, <1>4, <1>5, <1>6

(* The ranges of requests *)

\* one after the other
Apart(q) == \A i, j \in DOMAIN q : i < j => q[i][2] < q[j][1]

\* an event of the request number n was caused by a move of a range in q
Covers(q, n) == \E k \in DOMAIN q : q[k][1] < n /\ n < q[k][2]

\* the numbers of a range
RealRanges == {g \in Nat \X Nat : g[1] \in Number /\ g[2] \in Number /\ g[1] < g[2]}

\* should_ignore drops the ranges that ended before the event; what is left covers
\* the event and all later ones as before, and its first one is the event's.
LEMMA RangesRight ==
    ASSUME ranges \in Seq(RealRanges), Apart(ranges), NEW n \in Number
    PROVE  /\ RangesAt(n) \in Seq(RealRanges) /\ Apart(RangesAt(n))
           /\ Elements(RangesAt(n)) \subseteq Elements(ranges)
           /\ \A m \in Number : n <= m /\ Covers(ranges, m) => Covers(RangesAt(n), m)
           /\ RangesAt(n) # <<>> => n <= RangesAt(n)[1][2]
           /\ Covers(ranges, n) =>
                RangesAt(n) # <<>> /\ RangesAt(n)[1][1] < n /\ n < RangesAt(n)[1][2]
<1> DEFINE len == Len(ranges)
           live == {i \in 1..len : NotOver(ranges[i], n)}
           k == SelectInSeq(ranges, LAMBDA r : NotOver(r, n))
           rest == RangesAt(n)
<1>1. /\ len \in Nat /\ DOMAIN ranges = 1..len
      /\ \A i \in 1..len : ranges[i] \in RealRanges
  OBVIOUS
<1>2. \A i \in 1..len : /\ ranges[i] \in Nat \X Nat /\ ranges[i][1] \in Number
                        /\ ranges[i][2] \in Number /\ ranges[i][1] < ranges[i][2]
  BY <1>1 DEF RealRanges
<1>3. \A i \in 1..len : i \in live <=> n <= ranges[i][2]
  BY <1>2, OverRight
<1>4. k = IF live # {} THEN Min(live) ELSE 0
  BY DEF SelectInSeq
<1>5. rest = IF k = 0 THEN <<>> ELSE SubSeq(ranges, k, len)
  BY DEF RangesAt
<1> HIDE DEF len, live, k, rest
<1>6. n \in Nat /\ Number \subseteq Nat
  BY NumberFacts
<1>7. CASE live = {}
  <2>1. rest = <<>>
    BY <1>4, <1>5, <1>7
  <2>2. ASSUME NEW m \in Number, n <= m PROVE ~Covers(ranges, m)
    <3>1. \A i \in 1..len : ~(n <= ranges[i][2])
      BY <1>3, <1>7
    <3> QED BY <1>1, <1>2, <1>6, <2>2, <3>1 DEF Covers
  <2> QED BY <1>6, <2>1, <2>2 DEF rest, Apart, Elements
<1>8. CASE live # {}
  <2>1. k \in live /\ \A i \in live : k <= i
    <3>1. live \in SUBSET Nat
      BY <1>1 DEF live
    <3>2. \E i \in live : \A j \in live : i <= j
      BY <1>8, <3>1, LeastNumber
    <3> QED BY <1>4, <1>8, <3>2 DEF Min
  <2>2. k \in 1..len
    BY <2>1 DEF live
  <2>3. /\ rest \in Seq(RealRanges) /\ Len(rest) = len - k + 1 /\ DOMAIN rest = 1..(len - k + 1)
        /\ \A i \in 1..(len - k + 1) : rest[i] = ranges[k + i - 1]
    <3>1. rest = SubSeq(ranges, k, len)
      BY <1>1, <1>5, <2>2
    <3>2. \A i \in k..len : ranges[i] \in RealRanges
      BY <1>1, <2>2
    <3>3. k \in Int /\ len \in Int /\ k <= len
      BY <1>1, <2>2
    <3>4. /\ SubSeq(ranges, k, len) \in Seq(RealRanges)
          /\ Len(SubSeq(ranges, k, len)) = IF k <= len THEN len - k + 1 ELSE 0
          /\ \A i \in 1..len - k + 1 : SubSeq(ranges, k, len)[i] = ranges[k + i - 1]
      BY <3>2, <3>3, SubSeqProperties
    <3> HIDE DEF len
    <3> QED BY <3>1, <3>3, <3>4
  <2>4. \A j \in 1..len : n <= ranges[j][2] =>
           j - k + 1 \in DOMAIN rest /\ rest[j - k + 1] = ranges[j]
    <3>1. ASSUME NEW j \in 1..len, n <= ranges[j][2] PROVE k <= j
      BY <1>3, <2>1, <3>1
    <3> QED BY <1>1, <2>2, <2>3, <3>1
  <2>5. \A i \in DOMAIN rest : k + i - 1 \in 1..len /\ i \in Nat /\ rest[i] = ranges[k + i - 1]
    BY <1>1, <2>2, <2>3
  <2>6. Apart(rest)
    <3>1. ASSUME NEW i \in DOMAIN rest, NEW j \in DOMAIN rest, i < j PROVE rest[i][2] < rest[j][1]
      <4>1. k + i - 1 < k + j - 1
        BY <1>1, <2>2, <2>5, <3>1
      <4> QED BY <1>1, <2>5, <4>1 DEF Apart
    <3> QED BY <3>1 DEF Apart
  <2>7. Elements(rest) \subseteq Elements(ranges)
    BY <1>1, <2>5 DEF Elements
  <2>8. ASSUME NEW m \in Number, n <= m, Covers(ranges, m) PROVE Covers(rest, m)
    <3>1. PICK j \in DOMAIN ranges : ranges[j][1] < m /\ m < ranges[j][2]
      BY <2>8 DEF Covers
    <3>2. n <= ranges[j][2]
      BY <1>1, <1>2, <1>6, <2>8, <3>1
    <3> QED BY <1>1, <2>4, <3>1, <3>2 DEF Covers
  <2>9. 1 \in DOMAIN rest /\ rest[1] = ranges[k] /\ rest # <<>>
    BY <1>1, <2>2, <2>3
  <2>10. n <= rest[1][2]
    BY <1>3, <2>1, <2>2, <2>9
  <2>11. ASSUME Covers(ranges, n) PROVE rest[1][1] < n /\ n < rest[1][2]
    <3>1. PICK j \in DOMAIN rest : rest[j][1] < n /\ n < rest[j][2]
      BY <1>6, <2>8, <2>11 DEF Covers
    <3>2. j = 1
      <4>1. SUFFICES ASSUME 1 < j PROVE FALSE
        BY <2>5
      <4>2. rest[1][2] < rest[j][1]
        BY <2>6, <2>9, <4>1 DEF Apart
      <4>3. rest[1][2] \in Nat /\ rest[j][1] \in Nat
        BY <1>2, <1>6, <2>5, <2>9
      <4> QED BY <1>6, <2>10, <3>1, <4>2, <4>3
    <3> QED BY <3>1, <3>2
  <2> QED BY <2>3, <2>6, <2>7, <2>8, <2>9, <2>10, <2>11 DEF rest
<1> QED BY <1>7, <1>8

\* A new range comes after all others.
LEMMA NewRange ==
    ASSUME NEW q \in Seq(RealRanges), Apart(q), NEW g \in RealRanges,
           \A i \in DOMAIN q : q[i][2] < g[1]
    PROVE  /\ Append(q, g) \in Seq(RealRanges) /\ Apart(Append(q, g))
           /\ Elements(Append(q, g)) = Elements(q) \cup {g}
           /\ \A m : Covers(q, m) => Covers(Append(q, g), m)
           /\ \A m : g[1] < m /\ m < g[2] => Covers(Append(q, g), m)
<1> DEFINE a == Append(q, g)
           n == Len(q) + 1
<1>1. /\ n \in Nat \ {0} /\ DOMAIN q = 1..(n - 1) /\ DOMAIN a = 1..n
      /\ a[n] = g /\ \A i \in DOMAIN q : a[i] = q[i]
  OBVIOUS
<1>2. a \in Seq(RealRanges) /\ Elements(a) = Elements(q) \cup {g}
  BY AppendElements
<1> HIDE DEF a, n
<1>3. n \in DOMAIN a /\ \A i \in DOMAIN a : i \in Nat /\ (i = n \/ (i \in DOMAIN q /\ i < n))
  BY <1>1
<1>4. ASSUME NEW i \in DOMAIN a, NEW j \in DOMAIN a, i < j PROVE a[i][2] < a[j][1]
  <2>1. i \in DOMAIN q
    BY <1>1, <1>3, <1>4
  <2>2. CASE j = n
    BY <1>1, <2>1, <2>2
  <2>3. CASE j \in DOMAIN q
    BY <1>1, <1>4, <2>1, <2>3 DEF Apart
  <2> QED BY <1>3, <2>2, <2>3
<1>5. \A m : Covers(q, m) => Covers(a, m)
  <2>1. \A i \in DOMAIN q : i \in DOMAIN a /\ a[i] = q[i]
    BY <1>1
  <2> QED BY <2>1 DEF Covers
<1>6. \A m : g[1] < m /\ m < g[2] => Covers(a, m)
  BY <1>1, <1>3 DEF Covers
<1> QED BY <1>2, <1>4, <1>5, <1>6 DEF Apart, a

(* The crossings: the invariant *)

SentInv == First <= done /\ done <= sent /\ sent <= First + MaxRequests

RangesInv ==
    /\ ranges \in Seq(RealRanges) /\ Apart(ranges)
    /\ Elements(ranges) \subseteq allRanges
    /\ \A g \in allRanges : g \in RealRanges /\ g[2] <= sent

\* requests that are on their way, those of a move between the ends of its range
WireInv ==
    /\ \A i \in DOMAIN wire : /\ done < wire[i].n /\ wire[i].n <= sent
                              /\ wire[i].moves => Covers(ranges, wire[i].n)
    /\ \A i, j \in DOMAIN wire : i < j => wire[i].n < wire[j].n

\* an event whose range, if a move caused it, is still known
Handleable(e) ==
    /\ First <= e.n /\ e.n <= done
    /\ e.kind = "crossing" /\ e.stamp = 0 => Covers(ranges, e.n)
    /\ e.kind = "motion" => e.stamp \in motions

QueueInv ==
    /\ Ordered(Incoming)
    /\ \A e \in Elements(Incoming) : Handleable(e)
    /\ mouse # NoEvent =>
         /\ mouse \in Event /\ mouse.kind = "motion" /\ Handleable(mouse)
         /\ \A e \in Elements(Incoming) : mouse.n <= e.n

\* xcb_poll_for_event finds no event in hand
HandInv ==
    /\ phase \in {"refresh", "poll", "sleep", "check", "dispatch"} /\ toMove \in BOOLEAN
    /\ pending \in Event \cup {NoEvent}
    /\ phase \in {"dispatch", "refresh", "poll"} => pending = NoEvent

SeenInv ==
    /\ user <= MaxUser /\ motions \subseteq 1..user /\ position \in motions \cup {0}
    /\ handled \subseteq Event /\ ignored \subseteq Event
    /\ SpuriousIgnored /\ OnlyGrabsIgnored

CInv == IInv /\ SentInv /\ RangesInv /\ WireInv /\ QueueInv /\ HandInv /\ SeenInv

LEMMA CTypes ==
    ASSUME CInv
    PROVE  /\ done \in Number /\ sent \in Number /\ First \in Nat
           /\ Incoming \in Seq(Event) /\ Elements(Incoming) \subseteq Event
           /\ \A e \in Event : Handleable(e) => e.n \in Number
           /\ \A i \in DOMAIN wire : wire[i].n \in Number /\ wire[i] \in Request
<1>1. done \in Nat /\ sent \in Nat /\ First \in Nat /\ MaxRequests \in Nat
  BY LoopAssumption DEF CInv, IInv, QueueTypes
<1>2. Incoming \in Seq(Event)
  BY IncomingSteps DEF CInv, IInv, HandInv
<1>3. Elements(Incoming) \subseteq Event
  BY <1>2 DEF Elements
<1>4. \A e \in Event : e.n \in Nat
  BY DEF Event
<1>5. \A i \in DOMAIN wire : wire[i] \in Request /\ wire[i].n \in Nat
  <2>1. wire \in Seq(Request)
    BY DEF CInv, IInv, QueueTypes
  <2>2. \A i \in DOMAIN wire : wire[i] \in Request
    BY <2>1
  <2> QED BY <2>2 DEF Request
<1> QED BY <1>1, <1>2, <1>3, <1>4, <1>5 DEF Number, Handleable, CInv, SentInv, WireInv

\* Handling an event: what it is taken for is right, and the ranges of the events
\* that are not older are kept.
LEMMA HandleStep ==
    ASSUME CInv, NEW e \in Event, Handleable(e), HandleEvent(e),
           UNCHANGED <<wire, done, user, motions, sent, allRanges>>
    PROVE  /\ RangesInv' /\ WireInv' /\ SeenInv' /\ SentInv' /\ toMove' \in BOOLEAN
           /\ \A d \in Event : Handleable(d) /\ e.n <= d.n => Handleable(d)'
<1> DEFINE n == e.n
<1>1. n \in Number
  BY CTypes
<1>2. /\ ranges' = RangesAt(n)
      /\ ranges' \in Seq(RealRanges) /\ Apart(ranges')
      /\ Elements(ranges') \subseteq Elements(ranges)
      /\ \A m \in Number : n <= m /\ Covers(ranges, m) => Covers(ranges', m)
      /\ ranges' # <<>> => n <= ranges'[1][2]
      /\ Covers(ranges, n) => ranges' # <<>> /\ ranges'[1][1] < n /\ n < ranges'[1][2]
  <2>1. ranges' = RangesAt(n)
    BY DEF HandleEvent
  <2> QED BY <1>1, <2>1, RangesRight DEF CInv, RangesInv
<1>3. RangesInv'
  BY <1>2 DEF CInv, RangesInv
<1>4. SentInv'
  BY DEF CInv, SentInv
<1>5. ASSUME NEW m \in Number, n <= m, Covers(ranges, m) PROVE Covers(ranges', m)
  BY <1>2, <1>5
<1>6. WireInv'
  <2>1. ASSUME NEW i \in DOMAIN wire, wire[i].moves PROVE Covers(ranges', wire[i].n)
    <3>1. n <= wire[i].n
      <4>1. n <= done /\ done < wire[i].n /\ n \in Nat /\ done \in Nat /\ wire[i].n \in Nat
        BY <1>1, CTypes, NumberFacts DEF CInv, WireInv, Handleable
      <4> QED BY <4>1
    <3> QED BY <1>5, <2>1, <3>1, CTypes DEF CInv, WireInv
  <2> QED BY <2>1 DEF CInv, WireInv, Covers
<1>7. ASSUME NEW d \in Event, Handleable(d), n <= d.n PROVE Handleable(d)'
  <2>1. d.n \in Number
    BY <1>7, CTypes
  <2> QED BY <1>5, <1>7, <2>1 DEF Handleable, Covers
<1>8. ASSUME ranges' # <<>>
      PROVE  /\ ranges'[1] \in Nat \X Nat /\ ranges'[1] \in allRanges
             /\ ranges'[1][1] \in Number /\ ranges'[1][2] \in Number
             /\ ranges'[1][1] <= ranges'[1][2]
  <2>1. 1 \in DOMAIN ranges'
    BY <1>2, <1>8
  <2>2. ranges'[1] \in RealRanges /\ ranges'[1] \in Elements(ranges')
    BY <1>2, <2>1 DEF Elements
  <2>3. ranges'[1] \in allRanges
    BY <1>2, <2>2 DEF CInv, RangesInv
  <2> QED BY <2>2, <2>3, NumberFacts DEF RealRanges
<1>9. CASE ShouldIgnore(e)
  <2>1. ignored' = ignored \cup {e} /\ UNCHANGED <<position, handled, toMove>>
    BY <1>9 DEF HandleEvent
  <2>2. ranges' # <<>> /\ Inside(ranges'[1], n)
    BY <1>2, <1>9 DEF ShouldIgnore
  <2>3. ranges'[1][1] <= n /\ n <= ranges'[1][2] /\ ranges'[1] \in allRanges
    BY <1>1, <1>2, <1>8, <2>2, InsideMeans
  <2>4. OnlyGrabsIgnored'
    BY <2>1, <2>3 DEF CInv, SeenInv, OnlyGrabsIgnored
  <2>5. SpuriousIgnored'
    BY <2>1 DEF CInv, SeenInv, SpuriousIgnored
  <2>6. SeenInv' /\ toMove' \in BOOLEAN
    BY <2>1, <2>4, <2>5 DEF CInv, SeenInv, HandInv
  <2> QED BY <1>3, <1>4, <1>6, <1>7, <2>6
<1>10. CASE ~ShouldIgnore(e)
  <2>1. /\ IF TellsPosition(e) THEN position' = e.stamp /\ UNCHANGED handled
           ELSE handled' = handled \cup {e} /\ UNCHANGED position
        /\ UNCHANGED ignored
        /\ toMove' \in {toMove, TRUE}
    BY <1>10 DEF HandleEvent, LuaWork
  <2>2. position' \in motions' \cup {0}
    BY <2>1 DEF CInv, SeenInv, Handleable, TellsPosition
  <2>3. ASSUME e.kind = "crossing", e.stamp = 0
        PROVE  \E g \in allRanges : g[1] < n /\ n < g[2] /\ g[2] % Modulus < g[1] % Modulus
    <3>1. ranges' # <<>> /\ ranges'[1][1] < n /\ n < ranges'[1][2]
      BY <1>2, <2>3 DEF Handleable
    <3>2. ~Inside(ranges'[1], n)
      BY <1>2, <1>10, <2>3, <3>1 DEF ShouldIgnore
    <3>3. ranges'[1][1] <= n /\ n <= ranges'[1][2]
      <4>1. n \in Nat /\ ranges'[1][1] \in Nat /\ ranges'[1][2] \in Nat
        BY <1>1, <1>8, <3>1, NumberFacts
      <4> QED BY <3>1, <4>1
    <3>4. ranges'[1][2] % Modulus < ranges'[1][1] % Modulus
      BY <1>1, <1>8, <3>1, <3>2, <3>3, InsideUnlessWrapped
    <3> QED BY <1>8, <3>1, <3>4
  <2>4. SpuriousIgnored'
    BY <2>1, <2>3 DEF CInv, SeenInv, SpuriousIgnored
  <2>5. OnlyGrabsIgnored'
    BY <2>1 DEF CInv, SeenInv, OnlyGrabsIgnored
  <2>6. SeenInv' /\ toMove' \in BOOLEAN
    BY <2>1, <2>2, <2>4, <2>5 DEF CInv, SeenInv, HandInv
  <2> QED BY <1>3, <1>4, <1>6, <1>7, <2>6
<1> QED BY <1>9, <1>10

\* Steps that leave the ranges and what was sent alone.
LEMMA QuietQueues ==
    ASSUME CInv, IInv', UNCHANGED <<wire, done, user, motions, sent, ranges, allRanges, seenvars, mouse>>,
           Incoming' = Incoming, HandInv'
    PROVE  CInv'
<1>1. SentInv' /\ RangesInv' /\ WireInv' /\ SeenInv'
  BY DEF CInv, SentInv, RangesInv, WireInv, SeenInv, SpuriousIgnored, OnlyGrabsIgnored, seenvars, Covers
<1>2. QueueInv'
  BY DEF CInv, QueueInv, Handleable, Covers, Ordered, Elements
<1> QED BY <1>1, <1>2 DEF CInv

LEMMA UserStep ==
    ASSUME CInv, IInv', NEW kind \in {"motion", "crossing", "button", "other"}, UserEvent(kind)
    PROVE  CInv'
<1>0. PICK e : e = [kind |-> kind, n |-> done, stamp |-> user + 1]
  OBVIOUS
<1>1. /\ user' = user + 1 /\ socket' = Append(socket, e)
      /\ motions' = (IF kind = "motion" THEN motions \cup {user + 1} ELSE motions)
      /\ user < MaxUser
      /\ UNCHANGED <<wire, done, phase, toMove, sent, xcbq, pending, mouse, ranges, allRanges,
                     position, handled, ignored>>
  BY <1>0 DEF UserEvent, loopvars, seenvars
<1>2. e \in Event /\ user \in Nat /\ MaxUser \in Nat /\ done \in Nat
  BY <1>0, LoopAssumption DEF Event, CInv, IInv, QueueTypes
<1>3. Incoming' = Append(Incoming, e)
  BY <1>1, <1>2, IncomingSteps DEF CInv, IInv, HandInv
<1>4. \A d \in Elements(Incoming) : d.n <= e.n
  BY <1>0 DEF CInv, QueueInv, Handleable
<1>5. Ordered(Incoming') /\ Elements(Incoming') = Elements(Incoming) \cup {e}
  BY <1>2, <1>3, <1>4, CTypes, OrderedAppend DEF CInv, QueueInv
<1>6. SentInv' /\ RangesInv' /\ WireInv' /\ HandInv'
  BY <1>1 DEF CInv, SentInv, RangesInv, WireInv, HandInv, Covers
<1>7. SeenInv'
  <2>1. user' <= MaxUser /\ motions' \subseteq 1..user' /\ position' \in motions' \cup {0}
    BY <1>1, <1>2 DEF CInv, SeenInv
  <2> QED BY <1>1, <2>1 DEF CInv, SeenInv, SpuriousIgnored, OnlyGrabsIgnored
<1>8. \A d : Handleable(d) => Handleable(d)'
  BY <1>1 DEF Handleable, Covers
<1>9. Handleable(e)'
  <2>1. e.n = done /\ e.stamp = user + 1 /\ e.kind = kind /\ e.stamp # 0
    BY <1>0, <1>2
  <2>2. First <= done /\ done <= done
    BY <1>2 DEF CInv, SentInv
  <2> QED BY <1>1, <2>1, <2>2 DEF Handleable
<1>10. QueueInv'
  <2>1. \A d \in Elements(Incoming') : Handleable(d)'
    BY <1>5, <1>8, <1>9 DEF CInv, QueueInv
  <2>2. mouse' # NoEvent => /\ mouse' \in Event /\ mouse'.kind = "motion" /\ Handleable(mouse)'
                            /\ \A d \in Elements(Incoming') : mouse'.n <= d.n
    <3>1. mouse # NoEvent => mouse.n <= e.n
      BY <1>0 DEF CInv, QueueInv, Handleable
    <3> QED BY <1>1, <1>5, <1>8, <3>1 DEF CInv, QueueInv
  <2> QED BY <1>5, <2>1, <2>2 DEF QueueInv, Ordered, Elements
<1> QED BY <1>6, <1>7, <1>10 DEF CInv

LEMMA ServeStep ==
    ASSUME CInv, IInv', Serve
    PROVE  CInv'
<1> DEFINE t == Tail(wire)
<1>0. PICK r, e : r = Head(wire) /\ e = [kind |-> "crossing", n |-> r.n, stamp |-> 0]
  OBVIOUS
<1>1. /\ wire # <<>> /\ wire' = t /\ done' = r.n
      /\ \/ socket' = socket
         \/ r.moves /\ socket' = Append(socket, e)
      /\ UNCHANGED <<user, motions, phase, toMove, sent, xcbq, pending, mouse, ranges, allRanges,
                     position, handled, ignored>>
  BY <1>0 DEF Serve, loopvars, seenvars
<1>2. /\ wire \in Seq(Request) /\ 1 \in DOMAIN wire /\ wire[1] = r /\ r \in Request
      /\ DOMAIN t = 1..(Len(wire) - 1) /\ Len(wire) \in Nat /\ DOMAIN wire = 1..Len(wire)
      /\ \A i \in DOMAIN t : t[i] = wire[i + 1]
  <2>1. wire \in Seq(Request)
    BY DEF CInv, IInv, QueueTypes
  <2> QED BY <1>0, <1>1, <2>1
<1> HIDE DEF t
<1>3. /\ r.n \in Nat /\ done \in Nat /\ sent \in Nat /\ done < r.n /\ r.n <= sent
      /\ r.moves => Covers(ranges, r.n)
  BY <1>2, CTypes, NumberFacts DEF Request, CInv, WireInv
<1>4. e \in Event
  BY <1>0, <1>3 DEF Event
<1>5. SentInv'
  <2>1. First <= r.n
    BY <1>3, LoopAssumption DEF CInv, SentInv
  <2> QED BY <1>1, <1>3, <2>1 DEF CInv, SentInv
<1>6. RangesInv' /\ SeenInv' /\ HandInv'
  BY <1>1 DEF CInv, RangesInv, SeenInv, HandInv, SpuriousIgnored, OnlyGrabsIgnored
<1>7. WireInv'
  <2>1. ASSUME NEW i \in DOMAIN t
        PROVE  r.n < t[i].n /\ t[i].n <= sent /\ (t[i].moves => Covers(ranges, t[i].n))
    <3>1. i + 1 \in DOMAIN wire /\ 1 < i + 1 /\ t[i] = wire[i + 1]
      BY <1>2
    <3> QED BY <1>2, <3>1 DEF CInv, WireInv
  <2>2. ASSUME NEW i \in DOMAIN t, NEW j \in DOMAIN t, i < j PROVE t[i].n < t[j].n
    <3>1. i + 1 \in DOMAIN wire /\ j + 1 \in DOMAIN wire /\ i + 1 < j + 1
          /\ t[i] = wire[i + 1] /\ t[j] = wire[j + 1]
      BY <1>2, <2>2
    <3> QED BY <3>1 DEF CInv, WireInv
  <2> QED BY <1>1, <2>1, <2>2 DEF WireInv, Covers
<1>8. \A d \in Event : Handleable(d) => Handleable(d)' /\ d.n <= r.n
  <2>1. ASSUME NEW d \in Event, Handleable(d) PROVE d.n <= r.n
    <3>1. d.n \in Nat /\ d.n <= done
      BY <2>1 DEF Event, Handleable
    <3> QED BY <1>3, <3>1
  <2> QED BY <1>1, <2>1 DEF Handleable, Covers
<1>9. \A d \in Elements(Incoming) : d \in Event /\ Handleable(d) /\ d.n <= r.n
  BY <1>8, CTypes DEF CInv, QueueInv
<1>10. QueueInv'
  <2>1. CASE socket' = socket
    <3>1. Incoming' = Incoming
      BY <1>1, <2>1 DEF Incoming
    <3> QED BY <1>1, <1>8, <1>9, <3>1 DEF CInv, QueueInv, Ordered, Elements
  <2>2. CASE r.moves /\ socket' = Append(socket, e)
    <3>1. Incoming' = Append(Incoming, e)
      BY <1>1, <1>4, <2>2, IncomingSteps DEF CInv, IInv, HandInv
    <3>2. e.n = r.n /\ e.kind = "crossing"
      BY <1>0
    <3>3. Ordered(Incoming') /\ Elements(Incoming') = Elements(Incoming) \cup {e}
      BY <1>4, <1>9, <3>1, <3>2, CTypes, OrderedAppend DEF CInv, QueueInv
    <3>4. Handleable(e)'
      <4>1. First <= r.n /\ r.n <= r.n
        BY <1>1, <1>3, <1>5 DEF SentInv
      <4> QED BY <1>1, <1>3, <2>2, <3>2, <4>1 DEF Handleable, Covers
    <3>5. \A d \in Elements(Incoming') : Handleable(d)'
      BY <1>8, <1>9, <3>3, <3>4
    <3>6. mouse' # NoEvent => /\ mouse' \in Event /\ mouse'.kind = "motion" /\ Handleable(mouse)'
                              /\ \A d \in Elements(Incoming') : mouse'.n <= d.n
      BY <1>1, <1>8, <3>2, <3>3 DEF CInv, QueueInv
    <3> QED BY <3>3, <3>5, <3>6 DEF QueueInv, Ordered, Elements
  <2> QED BY <1>1, <2>1, <2>2
<1> QED BY <1>5, <1>6, <1>7, <1>10 DEF CInv

\* A move: its range is a new one, and only its second request moves windows.
LEMMA MoveStep ==
    ASSUME CInv, MoveWindows, CanSend(5), UNCHANGED done
    PROVE  /\ SentInv' /\ RangesInv' /\ WireInv'
           /\ \A m : Covers(ranges, m) => Covers(ranges', m)
           /\ allRanges \subseteq allRanges'
<1>0. PICK a, b, c, d, g :
         /\ a = Successor(sent) /\ b = Successor(a) /\ c = Successor(b) /\ d = Successor(c)
         /\ g = <<a, c>>
  OBVIOUS
<1>1. sent \in Nat /\ done \in Nat /\ First \in Nat /\ First <= sent /\ sent + 5 <= First + MaxRequests
  BY LoopAssumption DEF CInv, IInv, QueueTypes, SentInv, CanSend
<1>2. /\ a \in Nat /\ b \in Nat /\ c \in Nat /\ d \in Nat
      /\ sent < a /\ a < b /\ b < c /\ c < d /\ d <= sent + 5
  BY <1>0, <1>1, FourRequests
<1>3. PICK requests : requests = <<[n |-> a, moves |-> FALSE], [n |-> b, moves |-> TRUE],
                                   [n |-> c, moves |-> FALSE], [n |-> d, moves |-> FALSE]>>
  OBVIOUS
<1>4. /\ ranges' = Append(ranges, g) /\ allRanges' = allRanges \cup {g}
      /\ sent' = d /\ wire' = wire \o requests
  <2>1. RangeFrom(a) = g
    BY <1>0 DEF RangeFrom
  <2>2. sent' = d
    BY <1>0 DEF MoveWindows
  <2>3. ranges' = Append(ranges, g) /\ allRanges' = allRanges \cup {g}
    BY <1>0, <2>1 DEF MoveWindows
  <2>4. wire' = wire \o <<[n |-> a, moves |-> FALSE], [n |-> b, moves |-> TRUE],
                          [n |-> c, moves |-> FALSE], [n |-> sent', moves |-> FALSE]>>
    BY <1>0 DEF MoveWindows
  <2> QED BY <1>3, <2>2, <2>3, <2>4
<1>5. SentInv'
  BY <1>1, <1>2, <1>4, LoopAssumption DEF CInv, SentInv
<1>6. g \in RealRanges /\ g[1] = a /\ g[2] = c /\ g[2] <= sent'
  <2>1. a \in Number /\ c \in Number
    BY <1>1, <1>2, LoopAssumption DEF Number
  <2> QED BY <1>0, <1>2, <1>4, <2>1 DEF RealRanges
<1>7. \A i \in DOMAIN ranges : ranges[i][2] < g[1]
  <2>1. ASSUME NEW i \in DOMAIN ranges PROVE ranges[i][2] < a
    <3>1. ranges[i] \in RealRanges /\ ranges[i] \in allRanges
      BY DEF CInv, RangesInv, Elements
    <3>2. ranges[i][2] <= sent /\ ranges[i][2] \in Nat
      BY <3>1 DEF CInv, RangesInv, RealRanges
    <3> QED BY <1>1, <1>2, <3>2
  <2> QED BY <1>6, <2>1
<1>8. /\ ranges' \in Seq(RealRanges) /\ Apart(ranges')
      /\ Elements(ranges') = Elements(ranges) \cup {g}
      /\ \A m : Covers(ranges, m) => Covers(ranges', m)
      /\ \A m : a < m /\ m < c => Covers(ranges', m)
  BY <1>4, <1>6, <1>7, NewRange DEF CInv, RangesInv
<1>9. RangesInv'
  <2>1. \A r \in allRanges : r \in RealRanges /\ r[2] <= sent'
    <3>1. ASSUME NEW r \in allRanges PROVE r \in RealRanges /\ r[2] <= sent'
      <4>1. r \in RealRanges /\ r[2] <= sent /\ r[2] \in Nat
        BY DEF CInv, RangesInv, RealRanges
      <4> QED BY <1>1, <1>2, <1>4, <4>1
    <3> QED BY <3>1
  <2> QED BY <1>4, <1>6, <1>8, <2>1 DEF CInv, RangesInv
<1>10. /\ wire \in Seq(Request) /\ Len(wire) \in Nat /\ DOMAIN wire = 1..Len(wire)
       /\ Len(requests) = 4 /\ requests \in Seq(Request)
       /\ requests[1].n = a /\ requests[2].n = b /\ requests[3].n = c /\ requests[4].n = d
       /\ ~requests[1].moves /\ ~requests[3].moves /\ ~requests[4].moves
  <2>1. /\ [n |-> a, moves |-> FALSE] \in Request /\ [n |-> b, moves |-> TRUE] \in Request
        /\ [n |-> c, moves |-> FALSE] \in Request /\ [n |-> d, moves |-> FALSE] \in Request
    BY <1>2 DEF Request
  <2>2. requests \in Seq(Request)
    BY <1>3, <2>1
  <2>3. wire \in Seq(Request)
    BY DEF CInv, IInv, QueueTypes
  <2> QED BY <1>3, <2>2, <2>3
<1> DEFINE w == wire \o requests
           len == Len(wire)
<1>11. /\ DOMAIN w = 1..(len + 4)
       /\ \A i \in 1..(len + 4) : w[i] = IF i <= len THEN wire[i] ELSE requests[i - len]
  <2>1. wire \in Seq(Request) /\ requests \in Seq(Request) /\ Len(requests) = 4
    BY <1>10
  <2>2. /\ w \in Seq(Request) /\ Len(w) = len + Len(requests)
        /\ \A i \in 1..(len + Len(requests)) :
              w[i] = IF i <= len THEN wire[i] ELSE requests[i - len]
    BY <2>1, ConcatProperties
  <2>3. DOMAIN w = 1..Len(w)
    BY <2>2
  <2> QED BY <2>1, <2>2, <2>3
<1> HIDE DEF w
<1>12. \A i \in DOMAIN w : i \in Nat /\ (i \in DOMAIN wire \/ i \in {len + 1, len + 2, len + 3, len + 4})
  BY <1>10, <1>11
<1>13. /\ \A i \in DOMAIN wire : w[i] = wire[i]
       /\ w[len + 1] = requests[1] /\ w[len + 2] = requests[2]
       /\ w[len + 3] = requests[3] /\ w[len + 4] = requests[4]
  <2>1. len \in Nat /\ DOMAIN wire = 1..len
    BY <1>10
  <2> HIDE DEF len
  <2>2. \A i \in 1..len : w[i] = wire[i]
    BY <1>11, <2>1
  <2>3. \A i \in 1..4 : w[len + i] = requests[i]
    <3>1. ASSUME NEW i \in 1..4 PROVE w[len + i] = requests[i]
      <4>1. PICK j : j = len + i
        OBVIOUS
      <4>2. j \in 1..(len + 4) /\ ~(j <= len) /\ j - len = i
        BY <2>1, <4>1
      <4>3. w[j] = requests[j - len]
        BY <1>11, <4>2
      <4> QED BY <4>1, <4>2, <4>3
    <3> QED BY <3>1
  <2> QED BY <2>1, <2>2, <2>3
<1>14. \A i \in DOMAIN wire : wire[i].n \in Nat /\ done < wire[i].n /\ wire[i].n <= sent
  BY CTypes, NumberFacts DEF CInv, WireInv
<1>15. ASSUME NEW i \in DOMAIN w
       PROVE  done < w[i].n /\ w[i].n <= d /\ (w[i].moves => Covers(ranges', w[i].n))
  <2>1. CASE i \in DOMAIN wire
    <3>1. w[i] = wire[i] /\ wire[i].n <= d
      BY <1>1, <1>2, <1>13, <1>14, <2>1
    <3> QED BY <1>8, <1>14, <2>1, <3>1 DEF CInv, WireInv
  <2>2. CASE i \in {len + 1, len + 2, len + 3, len + 4}
    <3>1. done < a
      BY <1>1, <1>2 DEF CInv, SentInv
    <3>2. /\ w[i].n \in {a, b, c, d}
          /\ w[i].moves => w[i].n = b
      BY <1>10, <1>13, <2>2
    <3>3. done < w[i].n /\ w[i].n <= d
      BY <1>1, <1>2, <3>1, <3>2
    <3>4. Covers(ranges', b)
      BY <1>2, <1>8
    <3> QED BY <3>2, <3>3, <3>4
  <2> QED BY <1>12, <2>1, <2>2
<1>16. ASSUME NEW i \in DOMAIN w, NEW j \in DOMAIN w, i < j PROVE w[i].n < w[j].n
  <2>1. CASE i \in DOMAIN wire /\ j \in DOMAIN wire
    BY <1>13, <1>16, <2>1 DEF CInv, WireInv
  <2>2. CASE i \in DOMAIN wire /\ j \in {len + 1, len + 2, len + 3, len + 4}
    <3>1. w[i].n <= sent /\ w[i].n \in Nat
      BY <1>13, <1>14, <2>2
    <3>2. w[j].n \in {a, b, c, d}
      BY <1>10, <1>13, <2>2
    <3> QED BY <1>1, <1>2, <3>1, <3>2
  <2>3. CASE i \in {len + 1, len + 2, len + 3, len + 4} /\ j \in DOMAIN wire
    BY <1>10, <1>12, <1>16, <2>3
  <2>4. CASE i \in {len + 1, len + 2, len + 3, len + 4} /\ j \in {len + 1, len + 2, len + 3, len + 4}
    <3>1. /\ w[len + 1].n = a /\ w[len + 2].n = b /\ w[len + 3].n = c /\ w[len + 4].n = d
      BY <1>10, <1>13
    <3>2. len \in Nat
      BY <1>10
    <3> HIDE DEF len
    <3> QED BY <1>2, <1>16, <2>4, <3>1, <3>2
  <2> QED BY <1>12, <2>1, <2>2, <2>3, <2>4
<1>17. WireInv'
  BY <1>4, <1>15, <1>16 DEF WireInv, w, Covers
<1> QED BY <1>4, <1>5, <1>8, <1>9, <1>17

\* Where an event was taken from the queue, and the others are kept.
LEMMA TakeStep ==
    ASSUME CInv, Incoming # <<>>, TakeIncoming
    PROVE  /\ Incoming' = Tail(Incoming) /\ pending' = NoEvent
           /\ Ordered(Incoming') /\ Elements(Incoming') \subseteq Elements(Incoming)
           /\ Head(Incoming) \in Event /\ Handleable(Head(Incoming))
           /\ \A e \in Elements(Incoming) : Head(Incoming).n <= e.n
<1>1. Incoming' = Tail(Incoming) /\ pending' = NoEvent
  BY IncomingSteps DEF CInv, IInv, HandInv
<1> QED BY <1>1, CTypes, OrderedTail DEF CInv, QueueInv

LEMMA CheckStep ==
    ASSUME CInv, IInv', HoldMotion \/ HandleHeldMotion \/ HandleNext \/ FinishCheck
    PROVE  CInv'
<1>1. UNCHANGED <<wire, done, user, motions, sent, allRanges>> /\ phase = "check"
  BY DEF HoldMotion, HandleHeldMotion, HandleNext, FinishCheck, CheckFrame
<1>2. CASE HoldMotion
  <2>1. /\ TakeIncoming /\ Incoming # <<>> /\ mouse' = Head(Incoming)
        /\ Head(Incoming).kind = "motion"
        /\ UNCHANGED <<phase, toMove, ranges, position, handled, ignored>>
    BY <1>2 DEF HoldMotion, seenvars
  <2>2. SentInv' /\ RangesInv' /\ WireInv' /\ SeenInv'
    BY <1>1, <2>1 DEF CInv, SentInv, RangesInv, WireInv, SeenInv, SpuriousIgnored, OnlyGrabsIgnored, Covers
  <2>3. HandInv'
    BY <1>1, <2>1, TakeStep DEF CInv, HandInv
  <2>4. \A e : Handleable(e) => Handleable(e)'
    BY <1>1, <2>1 DEF Handleable, Covers
  <2>5. QueueInv'
    <3>1. /\ Ordered(Incoming') /\ Elements(Incoming') \subseteq Elements(Incoming)
          /\ mouse' \in Event /\ Handleable(mouse') /\ mouse'.kind = "motion"
          /\ \A e \in Elements(Incoming) : mouse'.n <= e.n
      BY <2>1, TakeStep
    <3>2. \A e \in Elements(Incoming') : Handleable(e)'
      BY <2>4, <3>1 DEF CInv, QueueInv
    <3>3. Handleable(mouse)'
      BY <1>1, <2>1, <3>1 DEF Handleable, Covers
    <3> QED BY <3>1, <3>2, <3>3 DEF QueueInv, Ordered, Elements
  <2> QED BY <2>2, <2>3, <2>5 DEF CInv
<1>3. CASE HandleHeldMotion
  <2>1. /\ HandleEvent(mouse) /\ mouse # NoEvent /\ mouse' = NoEvent
        /\ UNCHANGED <<phase, pending, xcbq, socket>>
    BY <1>3 DEF HandleHeldMotion
  <2>2. mouse \in Event /\ Handleable(mouse) /\ Incoming' = Incoming
    BY <2>1 DEF CInv, QueueInv, Incoming
  <2>3. /\ RangesInv' /\ WireInv' /\ SeenInv' /\ SentInv' /\ toMove' \in BOOLEAN
        /\ \A d \in Event : Handleable(d) /\ mouse.n <= d.n => Handleable(d)'
    BY <1>1, <2>1, <2>2, HandleStep
  <2>4. QueueInv'
    <3>1. \A d \in Elements(Incoming') : Handleable(d)'
      BY <2>1, <2>2, <2>3, CTypes DEF CInv, QueueInv
    <3> QED BY <2>1, <2>2, <3>1 DEF CInv, QueueInv, Ordered, Elements
  <2>5. HandInv'
    BY <1>1, <2>1, <2>3 DEF CInv, HandInv
  <2> QED BY <2>3, <2>4, <2>5 DEF CInv
<1>4. CASE HandleNext
  <2>1. PICK h : h = Head(Incoming)
    OBVIOUS
  <2>2. /\ HandleEvent(h) /\ Incoming # <<>> /\ TakeIncoming
        /\ UNCHANGED <<phase, mouse>>
        /\ mouse = NoEvent \/ h.kind \notin InOrder
    BY <1>4, <2>1 DEF HandleNext
  <2>3. /\ Ordered(Incoming') /\ Elements(Incoming') \subseteq Elements(Incoming)
        /\ h \in Event /\ Handleable(h) /\ pending' = NoEvent
        /\ \A e \in Elements(Incoming) : h.n <= e.n
    BY <2>1, <2>2, TakeStep
  <2>4. /\ RangesInv' /\ WireInv' /\ SeenInv' /\ SentInv' /\ toMove' \in BOOLEAN
        /\ \A d \in Event : Handleable(d) /\ h.n <= d.n => Handleable(d)'
    BY <1>1, <2>2, <2>3, HandleStep
  <2>5. QueueInv'
    <3>1. \A d \in Elements(Incoming') : Handleable(d)'
      BY <2>3, <2>4, CTypes DEF CInv, QueueInv
    <3>2. mouse # NoEvent => Handleable(mouse)'
      BY <1>1, <2>2 DEF CInv, QueueInv, Handleable
    <3> QED BY <2>2, <2>3, <3>1, <3>2 DEF CInv, QueueInv, Ordered, Elements
  <2>6. HandInv'
    BY <1>1, <2>2, <2>3, <2>4 DEF CInv, HandInv
  <2> QED BY <2>4, <2>5, <2>6 DEF CInv
<1>5. CASE FinishCheck
  <2>1. /\ phase' = "dispatch" /\ Incoming = <<>> /\ mouse' = NoEvent
        /\ UNCHANGED <<pending, xcbq, socket>>
        /\ IF mouse = NoEvent THEN UNCHANGED <<ranges, seenvars, toMove>> ELSE HandleEvent(mouse)
    BY <1>5 DEF FinishCheck
  <2>2. pending = NoEvent /\ Incoming' = <<>> /\ Elements(<<>>) = {}
    <3>1. pending # NoEvent => Incoming # <<>>
      BY DEF Incoming, CInv, IInv, QueueTypes
    <3> QED BY <2>1, <3>1 DEF Incoming, Elements
  <2>3. RangesInv' /\ WireInv' /\ SeenInv' /\ SentInv' /\ toMove' \in BOOLEAN
    <3>1. CASE mouse = NoEvent
      BY <1>1, <2>1, <3>1 DEF CInv, SentInv, RangesInv, WireInv, SeenInv, HandInv, SpuriousIgnored,
                              OnlyGrabsIgnored, Covers, seenvars
    <3>2. CASE mouse # NoEvent
      <4>1. mouse \in Event /\ Handleable(mouse)
        BY <3>2 DEF CInv, QueueInv
      <4> QED BY <1>1, <2>1, <3>2, <4>1, HandleStep
    <3> QED BY <3>1, <3>2
  <2>4. QueueInv'
    BY <2>1, <2>2 DEF QueueInv, Ordered, Elements
  <2>5. HandInv'
    BY <2>1, <2>2, <2>3 DEF HandInv
  <2> QED BY <2>3, <2>4, <2>5 DEF CInv
<1> QED BY <1>2, <1>3, <1>4, <1>5

LEMMA RefreshStep ==
    ASSUME CInv, IInv', Refresh
    PROVE  CInv'
<1>1. /\ phase' = "poll" /\ toMove' = FALSE /\ pending = NoEvent /\ ReadEvents
      /\ UNCHANGED <<done, user, motions, pending, mouse, position, handled, ignored>>
      /\ \/ MoveWindows /\ CanSend(5)
         \/ UNCHANGED <<wire, sent, ranges, allRanges>>
  BY DEF Refresh, seenvars, CInv, HandInv
<1>2. Incoming' = Incoming
  BY <1>1, IncomingSteps DEF CInv, IInv
<1>3. HandInv'
  BY <1>1 DEF HandInv
<1>4. CASE MoveWindows /\ CanSend(5)
  <2>1. /\ SentInv' /\ RangesInv' /\ WireInv'
        /\ \A m : Covers(ranges, m) => Covers(ranges', m)
        /\ allRanges \subseteq allRanges'
    BY <1>1, <1>4, MoveStep
  <2>2. \A e : Handleable(e) => Handleable(e)'
    BY <1>1, <2>1 DEF Handleable, Covers
  <2>3. QueueInv'
    BY <1>1, <1>2, <2>2 DEF CInv, QueueInv, Ordered, Elements
  <2>4. SeenInv'
    <3>1. SpuriousIgnored' /\ OnlyGrabsIgnored'
      BY <1>1, <2>1 DEF CInv, SeenInv, SpuriousIgnored, OnlyGrabsIgnored
    <3> QED BY <1>1, <3>1 DEF CInv, SeenInv
  <2> QED BY <1>3, <2>1, <2>3, <2>4 DEF CInv
<1>5. CASE UNCHANGED <<wire, sent, ranges, allRanges>>
  <2>1. UNCHANGED <<wire, done, user, motions, sent, ranges, allRanges, seenvars, mouse>>
    BY <1>1, <1>5 DEF seenvars
  <2> QED BY <1>2, <1>3, <2>1, QuietQueues
<1> QED BY <1>1, <1>4, <1>5

\* Polling, sleeping and running callbacks.
LEMMA WaitStep ==
    ASSUME CInv, IInv', Poll \/ Wake \/ WakeOther \/ Dispatch
    PROVE  CInv'
<1>1. UNCHANGED <<wire, done, user, motions, sent, ranges, allRanges, seenvars, mouse>>
  BY DEF Poll, Wake, WakeOther, Dispatch, xvars
<1>2. Incoming' = Incoming /\ HandInv'
  <2>1. CASE Poll
    <3>1. PollForEvent /\ pending = NoEvent /\ phase' = "sleep" /\ toMove' = toMove
      BY <2>1 DEF Poll, CInv, HandInv
    <3>2. Incoming' = Incoming /\ pending' \in Event \cup {NoEvent}
      BY <3>1, IncomingSteps DEF CInv, IInv
    <3> QED BY <3>1, <3>2 DEF CInv, HandInv
  <2>2. CASE Wake \/ WakeOther
    <3>1. phase' = "check" /\ UNCHANGED <<toMove, pending, xcbq, socket>>
      BY <2>2 DEF Wake, WakeOther, xvars
    <3> QED BY <3>1 DEF CInv, HandInv, Incoming
  <2>3. CASE Dispatch
    <3>1. ReadEvents /\ pending = NoEvent /\ pending' = pending /\ phase' = "refresh"
          /\ toMove' \in {toMove, TRUE}
      BY <2>3 DEF Dispatch, LuaWork, CInv, HandInv
    <3>2. Incoming' = Incoming
      BY <3>1, IncomingSteps DEF CInv, IInv
    <3> QED BY <3>1, <3>2 DEF CInv, HandInv
  <2> QED BY <2>1, <2>2, <2>3
<1> QED BY <1>1, <1>2, QuietQueues

\* Of the crossings exactly those are ignored that a move of a window by the
\* manager caused, or that came while it grabbed the server for one, however
\* many moves and events are on their way and wherever the numbers wrap around.
THEOREM CrossingsSafe ==
    Spec => []CrossingsRight
<1>1. Init => CInv
  <2> SUFFICES ASSUME Init PROVE CInv
    OBVIOUS
  <2>1. Incoming = <<>> /\ DOMAIN <<>> = {}
    BY DEF Init, Incoming
  <2>2. IInv
    BY LoopAssumption DEF Init, IInv, QueueTypes, HeldInCheck, NothingSleptOn
  <2>3. SentInv /\ RangesInv /\ WireInv
    BY <2>1, LoopAssumption DEF Init, SentInv, RangesInv, WireInv, Apart, Elements
  <2>4. QueueInv /\ HandInv
    BY <2>1 DEF Init, QueueInv, HandInv, Ordered, Elements
  <2>5. SeenInv
    BY LoopAssumption DEF Init, SeenInv, SpuriousIgnored, OnlyGrabsIgnored
  <2> QED BY <2>2, <2>3, <2>4, <2>5 DEF CInv
<1>2. CInv /\ [Next]_vars => CInv'
  <2> SUFFICES ASSUME CInv, [Next]_vars PROVE CInv'
    OBVIOUS
  <2>1. CASE UNCHANGED vars
    <3>1. /\ UNCHANGED <<wire, done, user, motions, sent, ranges, allRanges, seenvars, mouse>>
          /\ UNCHANGED <<phase, toMove, pending, xcbq, socket>>
      BY <2>1 DEF vars, xvars, loopvars
    <3>2. IInv'
      BY <3>1 DEF CInv, IInv, QueueTypes, HeldInCheck, NothingSleptOn
    <3>3. Incoming' = Incoming /\ HandInv'
      BY <3>1 DEF CInv, HandInv, Incoming
    <3> QED BY <3>1, <3>2, <3>3, QuietQueues
  <2>2. CASE Next
    <3>1. IInv'
      BY <2>2, OutsideStep, LoopStep DEF Next, CInv
    <3> QED BY <2>2, <3>1, UserStep, ServeStep, RefreshStep, WaitStep, CheckStep DEF Next, MainLoop
  <2> QED BY <2>1, <2>2
<1>3. CInv => CrossingsRight
  <2> SUFFICES ASSUME CInv PROVE CrossingsRight
    OBVIOUS
  <2>1. sent \in Nat /\ done \in First..sent
    BY LoopAssumption DEF CInv, IInv, QueueTypes, SentInv
  <2>2. mouse \in Event \cup {NoEvent}
    BY DEF CInv, QueueInv
  <2>3. ranges \in Seq(Nat \X Nat) /\ allRanges \subseteq Nat \X Nat
    <3>1. RealRanges \subseteq Nat \X Nat
      BY DEF RealRanges
    <3>2. ranges \in Seq(RealRanges) /\ allRanges \subseteq RealRanges
      BY DEF CInv, RangesInv
    <3> QED BY <3>1, <3>2
  <2>4. user \in 0..MaxUser
    BY LoopAssumption DEF CInv, IInv, QueueTypes, SeenInv
  <2>5. TypeOK
    BY <2>1, <2>2, <2>3, <2>4 DEF TypeOK, CInv, IInv, QueueTypes, HandInv, SeenInv
  <2> QED BY <2>5 DEF CrossingsRight, CInv, SeenInv
<1> QED BY <1>1, <1>2, <1>3, PTL DEF Spec
=============================================================================
