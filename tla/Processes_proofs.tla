-------------------------- MODULE Processes_proofs --------------------------
(* The processes: the managers that follow each other on a display and what *)
(* becomes of the windows, the children that a manager spawns and their      *)
(* callbacks, the startup sequences that it watches, and the configuration   *)
(* that it starts with.                                                      *)
EXTENDS ChildProcesses, StartupNotification, TakeOver, Configuration, EventQueues, Functions

-----------------------------------------------------------------------------
(***************************************************************************)
(* Proofs about ChildProcesses: the record of the running children is      *)
(* exact, callbacks are called once, and no end of a child is missed, for  *)
(* any number of processes and callbacks.                                  *)
(***************************************************************************)
\* While a callback runs, reap_children is collecting; while luaA_spawn is
\* between fork and record, its process is alive or has ended, and Lua runs.
Nesting ==
    /\ calling # NoCallback => pc = "reaping"
    /\ spawning # NoPid =>
         /\ proc[spawning] # "none" /\ running[spawning] = NoCallback
         /\ pc = "idle" \/ calling # NoCallback

\* every owner's callback was given away, and to one process only
OwnersDistinct ==
    /\ \A p \in Pids : owner[p] # NoCallback => owner[p] \in used
    /\ \A p, q \in Pids : owner[p] = owner[q] /\ owner[p] # NoCallback => p = q

IInv == TypeOK /\ Nesting /\ OwnersDistinct /\ RunningExact /\ CalledOnce

LEMMA InitInv == Init => IInv
<1> SUFFICES ASSUME Init PROVE IInv
  OBVIOUS
<1> USE ChildAssumption DEF Init
<1>1. TypeOK
  BY DEF TypeOK, OptCallback
<1>2. Nesting /\ OwnersDistinct
  BY DEF Nesting, OwnersDistinct
<1>3. RunningExact
  BY DEF RunningExact
<1>4. CalledOnce
  BY DEF CalledOnce
<1> QED
  BY <1>1, <1>2, <1>3, <1>4 DEF IInv

LEMMA NextInv == IInv /\ [Next]_vars => IInv'
<1> SUFFICES ASSUME IInv, [Next]_vars PROVE IInv'
  OBVIOUS
<1> USE ChildAssumption DEF IInv, TypeOK, OptCallback, Nesting, OwnersDistinct, RunningExact, CalledOnce
<1>1. ASSUME NEW p \in Pids, Exit(p) PROVE IInv'
  BY <1>1 DEF Exit
<1>2. CASE SignalChild
  <2>1. TypeOK'
    <3>1. pipe' \in Nat
      BY <1>2 DEF SignalChild
    <3>2. pending' \in BOOLEAN
      BY <1>2 DEF SignalChild
    <3> QED
      BY <1>2, <3>1, <3>2, Zenon DEF SignalChild
  <2>2. Nesting' /\ OwnersDistinct' /\ RunningExact'
    BY <1>2 DEF SignalChild
  <2>3. CalledOnce'
    BY <1>2 DEF SignalChild
  <2> QED
    BY <2>1, <2>2, <2>3
<1>3. ASSUME NEW p \in Pids, NEW cb \in Callbacks, Spawn(p, cb) PROVE IInv'
  <2>1. TypeOK'
    BY <1>3 DEF Spawn, InLua
  <2>2. Nesting' /\ OwnersDistinct' /\ RunningExact'
    BY <1>3 DEF Spawn, InLua
  <2>3. CalledOnce'
    BY <1>3 DEF Spawn, InLua
  <2> QED
    BY <2>1, <2>2, <2>3
<1>4. CASE Register
  BY <1>4 DEF Register
<1>5. CASE ReadPipe
  BY <1>5 DEF ReadPipe, TakeBytes
<1>6. ASSUME NEW p \in Pids, Collect(p) PROVE IInv'
  <2>0. /\ spawning = NoPid \/ spawning # p
        /\ running[p] \in OptCallback
    BY <1>6 DEF Collect
  <2>1. TypeOK'
    BY <1>6 DEF Collect, Forget
  <2>2. Nesting' /\ OwnersDistinct' /\ RunningExact'
    BY <1>6 DEF Collect, Forget
  <2>3. CalledOnce'
    BY <1>6 DEF Collect, Forget
  <2> QED
    BY <2>1, <2>2, <2>3
<1>7. CASE Return
  BY <1>7 DEF Return
<1>8. CASE NoMore
  BY <1>8 DEF NoMore
<1>9. CASE Leave
  BY <1>9 DEF Leave, LeaveBytes
<1>10. CASE UNCHANGED vars
  BY <1>10 DEF vars
<1> QED
  BY <1>1, <1>2, <1>3, <1>4, <1>5, <1>6, <1>7, <1>8, <1>9, <1>10 DEF Next, Reap

\* Every variable keeps its type; in particular the pipe is never read below
\* empty.
THEOREM ChildTypes == Spec => []TypeOK
  BY InitInv, NextInv, PTL DEF Spec, IInv

\* running_children holds exactly the processes that were spawned with a
\* callback and are not collected yet, whatever ids the kernel reuses.
THEOREM ChildrenRecorded == Spec => []RunningExact
  BY InitInv, NextInv, PTL DEF Spec, IInv

\* Every exit callback is called exactly once, after its own process ended.
THEOREM CallbacksOnce == Spec => []CalledOnce
  BY InitInv, NextInv, PTL DEF Spec, IInv

\* The self-pipe loses no SIGCHLD: reap_children empties it before it collects.
THEOREM SignalsNotLost == Spec => []NoLostSignal
<1>1. Init => NoLostSignal
  BY DEF Init, NoLostSignal
<1>2. IInv /\ NoLostSignal /\ [Next]_vars => NoLostSignal'
  BY DEF IInv, TypeOK, NoLostSignal, Next, Exit, SignalChild, Spawn, Register, Reap, ReadPipe,
         TakeBytes, Collect, Return, NoMore, Leave, LeaveBytes, vars
<1> QED
  BY <1>1, <1>2, InitInv, NextInv, PTL DEF Spec

-----------------------------------------------------------------------------
\* nothing is known of a sequence whose "new" was not read
Unread == announced \ (known \cup Waiting \cup timers \cup starting)

\* a sequence is announced once, before it is known
QueueRight(q, all, unread) ==
    /\ \A i \in DOMAIN q : q[i].id \in all /\ (q[i].type = "new" => q[i].id \in unread)
    /\ \A i, j \in DOMAIN q : q[i].type = "new" /\ q[j].type = "new" /\ q[i].id = q[j].id => i = j

WaitsOnce == \A i, j \in DOMAIN waits : waits[i] = waits[j] => i = j
WaitsKnown == Waiting \subseteq announced

StartupInv == /\ ReferencesExact /\ QueueRight(queue, announced, Unread) /\ WaitsOnce /\ WaitsKnown
              /\ {"initiated", "completed", "timeout"} \subseteq Connected => CursorAgrees
-----------------------------------------------------------------------------
(* The queue of messages *)

LEMMA MessageTypes ==
    ASSUME NEW s \in Ids
    PROVE  /\ New(s) \in Message /\ New(s).type = "new" /\ New(s).id = s
           /\ Change(s) \in Message /\ Change(s).type # "new" /\ Change(s).id = s
           /\ End(s) \in Message /\ End(s).type # "new" /\ End(s).id = s
BY DEF New, Change, End, Message

\* a message that is not the first, or the first about its sequence
LEMMA QueueAppend ==
    ASSUME NEW q \in Seq(Message), NEW m \in Message, NEW all, NEW allNow, NEW unread, NEW unreadNow,
           QueueRight(q, all, unread), all \subseteq allNow, unread \subseteq unreadNow, m.id \in allNow,
           m.type = "new" => m.id \in unreadNow /\ m.id \notin all
    PROVE  Append(q, m) \in Seq(Message) /\ QueueRight(Append(q, m), allNow, unreadNow)
<1> DEFINE a == Append(q, m)
<1>1. /\ a \in Seq(Message) /\ DOMAIN a = 1..(Len(q) + 1) /\ DOMAIN q = 1..Len(q)
      /\ Len(q) \in Nat /\ a[Len(q) + 1] = m /\ \A i \in 1..Len(q) : a[i] = q[i]
  OBVIOUS
<1> HIDE DEF a
<1>2. \A i \in DOMAIN a : (a[i] = m /\ i = Len(q) + 1) \/ (i \in DOMAIN q /\ a[i] = q[i])
  BY <1>1
<1>3. QueueRight(a, allNow, unreadNow)
  <2>1. ASSUME NEW i \in DOMAIN a PROVE a[i].id \in allNow /\ (a[i].type = "new" => a[i].id \in unreadNow)
    BY <1>2 DEF QueueRight
  <2>2. ASSUME NEW i \in DOMAIN a, NEW j \in DOMAIN a, a[i].type = "new", a[j].type = "new", a[i].id = a[j].id
        PROVE  i = j
    BY <1>2, <2>2 DEF QueueRight
  <2> QED BY <2>1, <2>2 DEF QueueRight
<1> QED BY <1>1, <1>3 DEF a

\* the first message is read
LEMMA QueueTail ==
    ASSUME NEW q \in Seq(Message), q # <<>>, NEW all, NEW unread, NEW unreadNow, QueueRight(q, all, unread),
           \A s \in unread : s \in unreadNow \/ (Head(q).type = "new" /\ s = Head(q).id)
    PROVE  /\ Head(q) \in Message /\ Head(q).id \in all /\ (Head(q).type = "new" => Head(q).id \in unread)
           /\ Tail(q) \in Seq(Message) /\ QueueRight(Tail(q), all, unreadNow)
<1> DEFINE t == Tail(q)
<1>1. /\ t \in Seq(Message) /\ DOMAIN t = 1..(Len(q) - 1) /\ DOMAIN q = 1..Len(q) /\ Len(q) \in Nat /\ Len(q) > 0
      /\ Head(q) = q[1] /\ Head(q) \in Message /\ \A i \in 1..(Len(q) - 1) : t[i] = q[i + 1]
  OBVIOUS
<1> HIDE DEF t
<1>2. \A i \in DOMAIN t : i \in Int /\ i + 1 \in DOMAIN q /\ i + 1 # 1 /\ t[i] = q[i + 1]
  BY <1>1
<1>0. 1 \in DOMAIN q
  BY <1>1
<1>3. ASSUME NEW i \in DOMAIN t PROVE t[i].id \in all /\ (t[i].type = "new" => t[i].id \in unreadNow)
  <2>1. t[i].type = "new" => t[i].id \in unread
    BY <1>2 DEF QueueRight
  <2>2. t[i].type = "new" /\ Head(q).type = "new" => t[i].id # Head(q).id
    BY <1>0, <1>1, <1>2 DEF QueueRight
  <2> QED BY <1>2, <2>1, <2>2 DEF QueueRight
<1>4. ASSUME NEW i \in DOMAIN t, NEW j \in DOMAIN t, t[i].type = "new", t[j].type = "new", t[i].id = t[j].id
      PROVE  i = j
  <2>1. i + 1 = j + 1
    BY <1>2, <1>4 DEF QueueRight
  <2> QED BY <1>2, <2>1
<1>5. QueueRight(t, all, unreadNow)
  BY <1>3, <1>4 DEF QueueRight
<1>6. Head(q).id \in all /\ (Head(q).type = "new" => Head(q).id \in unread)
  BY <1>0, <1>1 DEF QueueRight
<1> QED BY <1>1, <1>5, <1>6 DEF t

\* more is unread than before
LEMMA QueueMore ==
    ASSUME NEW q, NEW all, NEW unread, NEW unreadNow, QueueRight(q, all, unread), unread \subseteq unreadNow
    PROVE  QueueRight(q, all, unreadNow)
BY DEF QueueRight

\* one message is sent, or two
LEMMA SentOne ==
    ASSUME StartupInv, NEW m \in Message, Send(<<m>>)
    PROVE  queue' = Append(queue, m)
BY AppendSome DEF Send, StartupInv, ReferencesExact, StartupTypeOK

LEMMA SentTwo ==
    ASSUME StartupInv, NEW m \in Message, NEW n \in Message, Send(<<m, n>>)
    PROVE  queue' = Append(Append(queue, m), n)
BY AppendSome DEF Send, StartupInv, ReferencesExact, StartupTypeOK

\* what the manager keeps stays as it was while the queue and the others go on
LEMMA OthersKeep ==
    ASSUME StartupInv, ManagerFrame, queue' \in Seq(Message),
           announced \subseteq announced', ended' \subseteq announced', launching' \subseteq announced', buffer' \subseteq announced',
           announced' \subseteq Ids, QueueRight(queue', announced', Unread')
    PROVE  StartupInv'
<1>1. UNCHANGED <<known, refs, waits, timers, starting, leftover>> /\ Waiting' = Waiting
  BY DEF ManagerFrame, Waiting
<1>2. StartupTypeOK'
  BY <1>1 DEF StartupInv, ReferencesExact, StartupTypeOK
<1>3. ReferencesExact'
  BY <1>1, <1>2 DEF StartupInv, ReferencesExact
<1>4. WaitsOnce' /\ WaitsKnown' /\ CursorAgrees' = CursorAgrees
  BY <1>1 DEF StartupInv, WaitsOnce, WaitsKnown, CursorAgrees
<1> QED BY <1>3, <1>4 DEF StartupInv

\* a program that was announced tells more
LEMMA ToldMore ==
    ASSUME StartupInv, NEW s \in announced, NEW m \in {Change(s), End(s)}, Send(<<m>>), ManagerFrame, UNCHANGED announced,
           ended' \in {ended, ended \cup {s}}, launching' \subseteq launching, buffer' \subseteq buffer
    PROVE  StartupInv'
<1>1. s \in Ids /\ queue \in Seq(Message) /\ ended \subseteq announced /\ launching \subseteq announced
      /\ buffer \subseteq announced /\ announced \subseteq Ids /\ QueueRight(queue, announced, Unread)
  BY DEF StartupInv, ReferencesExact, StartupTypeOK
<1>2. m \in Message /\ m.type # "new" /\ m.id = s
  BY <1>1, MessageTypes
<1>3. queue' = Append(queue, m) /\ Unread' = Unread
  BY <1>2, SentOne DEF Unread, ManagerFrame, Waiting
<1>4. queue' \in Seq(Message) /\ QueueRight(queue', announced', Unread')
  BY <1>1, <1>2, <1>3, QueueAppend
<1> QED BY <1>1, <1>4, OthersKeep

-----------------------------------------------------------------------------
(* Each step *)

LEMMA StartupStart == StartupInit => StartupInv
<1> SUFFICES ASSUME StartupInit PROVE StartupInv
  OBVIOUS
<1>1. queue = <<>> /\ waits = <<>> /\ Waiting = {} /\ DOMAIN queue = {} /\ DOMAIN waits = {}
  BY DEF StartupInit, Waiting, ToSet
<1>2. StartupTypeOK
  BY <1>1 DEF StartupInit, StartupTypeOK
<1>3. ReferencesExact
  BY <1>1, <1>2 DEF StartupInit, ReferencesExact, Held
<1> QED BY <1>1, <1>3 DEF StartupInit, StartupInv, QueueRight, WaitsOnce, WaitsKnown, CursorAgrees

\* a launcher announces a program, which may end at once
LEMMA LaunchKept ==
    ASSUME StartupInv, NEW s \in Ids, NEW fails \in BOOLEAN, Launch(s, fails) \/ Announce(s)
    PROVE  StartupInv'
<1>1. /\ s \notin announced /\ announced' = announced \cup {s} /\ ManagerFrame
      /\ ended' \in {ended, ended \cup {s}} /\ launching' \in {launching, launching \cup {s}}
      /\ buffer' \in {buffer, buffer \cup {s}}
      /\ Send(<<New(s), End(s)>>) \/ Send(<<New(s)>>)
  BY DEF Launch, Announce, KeepRules
<1>2. /\ queue \in Seq(Message) /\ ended \subseteq announced /\ launching \subseteq announced
      /\ buffer \subseteq announced /\ announced \subseteq Ids /\ QueueRight(queue, announced, Unread)
      /\ known \cup Waiting \cup timers \cup starting \subseteq announced
  BY DEF StartupInv, ReferencesExact, StartupTypeOK, WaitsKnown
<1>3. Unread \subseteq Unread' /\ s \in Unread'
  BY <1>1, <1>2 DEF Unread, ManagerFrame, Waiting
<1>4. Append(queue, New(s)) \in Seq(Message) /\ QueueRight(Append(queue, New(s)), announced', Unread')
  BY <1>1, <1>2, <1>3, MessageTypes, QueueAppend
<1>5. queue' \in Seq(Message) /\ QueueRight(queue', announced', Unread')
  <2>1. CASE Send(<<New(s)>>)
    BY <1>4, <2>1, SentOne, MessageTypes
  <2>2. CASE Send(<<New(s), End(s)>>)
    <3>1. queue' = Append(Append(queue, New(s)), End(s))
      BY <2>2, SentTwo, MessageTypes
    <3> DEFINE q == Append(queue, New(s))
    <3>2. q \in Seq(Message) /\ QueueRight(q, announced', Unread') /\ queue' = Append(q, End(s))
          /\ s \in announced'
      BY <1>1, <1>4, <3>1
    <3> HIDE DEF q
    <3> QED BY <3>2, MessageTypes, QueueAppend
  <2> QED BY <1>1, <2>1, <2>2
<1> QED BY <1>1, <1>2, <1>5, OthersKeep

LEMMA ProgressKept ==
    ASSUME StartupInv, NEW s \in Ids, LaunchTimeout(s) \/ Progress(s)
    PROVE  StartupInv'
<1>1. CASE LaunchTimeout(s)
  <2>1. s \in announced /\ launching' \subseteq launching /\ UNCHANGED <<announced, buffer>> /\ ManagerFrame
    BY <1>1 DEF LaunchTimeout, StartupInv, ReferencesExact, StartupTypeOK
  <2>2. CASE s \in ended
    <3>1. UNCHANGED <<queue, ended>> /\ Unread' = Unread
      BY <1>1, <2>1, <2>2 DEF LaunchTimeout, Unread, ManagerFrame, Waiting
    <3> QED BY <2>1, <3>1, OthersKeep DEF StartupInv, ReferencesExact, StartupTypeOK
  <2>3. CASE s \notin ended
    <3>1. Send(<<End(s)>>) /\ ended' = ended \cup {s}
      BY <1>1, <2>3 DEF LaunchTimeout
    <3> QED BY <2>1, <3>1, ToldMore
  <2> QED BY <2>2, <2>3
<1>2. CASE Progress(s)
  <2>1. s \in announced /\ UNCHANGED <<announced, launching, buffer>> /\ ManagerFrame
        /\ \/ Send(<<Change(s)>>) /\ ended' = ended
           \/ Send(<<End(s)>>) /\ ended' = ended \cup {s}
    BY <1>2 DEF Progress
  <2> QED BY <2>1, ToldMore
<1> QED BY <1>1, <1>2

LEMMA ManageKept ==
    ASSUME StartupInv, NEW id, NEW C, Manage(id, C)
    PROVE  StartupInv'
<1>1. buffer' \subseteq buffer /\ UNCHANGED <<announced, launching>> /\ ManagerFrame
  BY DEF Manage
<1>2. CASE UNCHANGED <<queue, ended>>
  <2>1. Unread' = Unread
    BY <1>1 DEF Unread, ManagerFrame, Waiting
  <2> QED BY <1>1, <1>2, <2>1, OthersKeep DEF StartupInv, ReferencesExact, StartupTypeOK
<1>3. ASSUME NEW i \in DOMAIN waits, Send(<<End(waits[i])>>), ended' = ended \cup {waits[i]}
      PROVE  StartupInv'
  <2>1. waits[i] \in announced
    BY DEF StartupInv, WaitsKnown, Waiting, ToSet
  <2> QED BY <1>1, <1>3, <2>1, ToldMore
<1> QED BY <1>2, <1>3 DEF Manage

\* spawn_monitor_event: a sequence begins
LEMMA HandleNewKept == ASSUME StartupInv, HandleNew PROVE StartupInv'
<1>1. PICK s : s = Head(queue).id
  OBVIOUS
<1>0. /\ queue # <<>> /\ Head(queue).type = "new" /\ queue' = Tail(queue)
      /\ known' = known \cup {s} /\ refs' = [refs EXCEPT ![s] = 3] /\ waits' = Append(waits, s)
      /\ timers' = timers \cup {s}
      /\ starting' = IF "initiated" \in Connected THEN starting \cup {s} ELSE starting
      /\ leftover' \in {leftover, leftover + 1}
      /\ UNCHANGED <<announced, ended, launching, buffer>>
  BY <1>1 DEF HandleNew, HeadIs, TakeReferences, RegisterHook, EmitAndPop
<1>2. StartupTypeOK /\ QueueRight(queue, announced, Unread) /\ queue \in Seq(Message) /\ waits \in Seq(Ids)
      /\ announced \subseteq Ids
  BY DEF StartupInv, ReferencesExact, StartupTypeOK
<1>3. s \in announced /\ s \in Unread /\ queue' \in Seq(Message)
  BY <1>0, <1>1, <1>2, QueueTail
<1>w. /\ waits' \in Seq(Ids) /\ Waiting' = Waiting \cup {s}
      /\ DOMAIN waits' = 1..(Len(waits) + 1) /\ DOMAIN waits = 1..Len(waits) /\ Len(waits) \in Nat
      /\ waits'[Len(waits) + 1] = s /\ \A i \in 1..Len(waits) : waits'[i] = waits[i]
  <2>1. waits' \in Seq(Ids) /\ Elements(waits') = Elements(waits) \cup {s}
    BY <1>0, <1>2, <1>3, AppendElements
  <2>2. Waiting' = Waiting \cup {s}
    BY <2>1 DEF Waiting, ToSet, Elements
  <2> QED BY <1>0, <1>2, <1>3, <2>1, <2>2
<1>4. QueueRight(queue', announced', Unread')
  <2>1. \A x \in Unread : x \in Unread' \/ x = s
    BY <1>0, <1>w DEF Unread
  <2> QED BY <1>0, <1>1, <1>2, <2>1, QueueTail
<1>5. StartupTypeOK'
  BY <1>0, <1>2, <1>3, <1>w DEF StartupTypeOK
<1>6. ReferencesExact'
  <2>1. ASSUME NEW x \in Ids
        PROVE refs'[x] = Held(x \in known') + Held(x \in Waiting') + Held(x \in timers')
    <3>1. CASE x = s
      BY <1>0, <1>2, <1>3, <1>w, <3>1 DEF Held, StartupTypeOK
    <3>2. CASE x # s
      <4>1. refs'[x] = refs[x]
        BY <1>0, <1>2, <3>2 DEF StartupTypeOK
      <4> QED BY <1>0, <1>w, <3>2, <4>1 DEF Held, StartupInv, ReferencesExact
    <3> QED BY <3>1, <3>2
  <2> QED BY <1>5, <2>1 DEF ReferencesExact
<1>7. WaitsOnce'
  <2>1. \A i \in DOMAIN waits : waits[i] # s
    BY <1>3 DEF Unread, Waiting, ToSet
  <2> QED BY <1>w, <2>1 DEF WaitsOnce, StartupInv
<1>8. WaitsKnown'
  BY <1>0, <1>3, <1>w DEF WaitsKnown, StartupInv
<1>9. {"initiated", "completed", "timeout"} \subseteq Connected => CursorAgrees'
  BY <1>0, <1>w DEF CursorAgrees, StartupInv
<1> QED BY <1>4, <1>6, <1>7, <1>8, <1>9 DEF StartupInv

\* spawn_sequence_remove takes the one entry of the sequence out
LEMMA SequenceRemoved ==
    ASSUME StartupInv, NEW s \in Ids, SequenceRemove(s, 1)
    PROVE  /\ waits' \in Seq(Ids) /\ Waiting' = Waiting \ {s} /\ WaitsOnce'
           /\ refs' = [refs EXCEPT ![s] = refs[s] - 1 - Held(s \in Waiting)]
<1>1. refs' = [refs EXCEPT ![s] = refs[s] - 1 - Held(s \in Waiting)]
  BY DEF SequenceRemove, Held, StartupInv, ReferencesExact, StartupTypeOK
<1>2. waits \in Seq(Ids) /\ WaitsOnce /\ DOMAIN waits = 1..Len(waits) /\ Len(waits) \in Nat
  BY DEF StartupInv, ReferencesExact, StartupTypeOK
<1>3. CASE s \notin Waiting
  BY <1>1, <1>2, <1>3 DEF SequenceRemove, Waiting, WaitsOnce
<1>4. CASE s \in Waiting
  <2>1. PICK i \in DOMAIN waits : i = CHOOSE j \in DOMAIN waits : waits[j] = s
    BY <1>4 DEF Waiting, ToSet
  <2>2. waits[i] = s
    BY <1>4, <2>1 DEF Waiting, ToSet
  <2>3. waits' = SubSeq(waits, 1, i - 1) \o SubSeq(waits, i + 1, Len(waits))
    BY <1>4, <2>1 DEF SequenceRemove, RemoveAt
  <2>4. /\ waits' \in Seq(Ids) /\ Len(waits') = Len(waits) - 1
        /\ \A j \in DOMAIN waits' : waits'[j] = IF j < i THEN waits[j] ELSE waits[j + 1]
    BY <1>2, <2>3, RemoveElement
  <2>5. DOMAIN waits' = 1..(Len(waits) - 1) /\ i \in 1..Len(waits)
    BY <1>2, <2>4
  <2>6. WaitsOnce'
    BY SMTT(30), <1>2, <2>4, <2>5 DEF WaitsOnce
  <2>7. ASSUME NEW x \in Waiting', x \notin Waiting \ {s} PROVE FALSE
    <3>1. PICK j \in DOMAIN waits' : x = waits'[j]
      BY DEF Waiting, ToSet
    <3>2. \E k \in DOMAIN waits : k # i /\ x = waits[k]
      BY <1>2, <2>4, <2>5, <3>1
    <3> QED BY <1>2, <2>2, <2>7, <3>2 DEF WaitsOnce, Waiting, ToSet
  <2>8. ASSUME NEW x \in Waiting \ {s} PROVE x \in Waiting'
    <3>1. PICK k \in DOMAIN waits : x = waits[k]
      BY <2>8 DEF Waiting, ToSet
    <3>2. k # i
      BY <2>2, <2>8, <3>1
    <3>3. CASE k < i
      BY <1>2, <2>4, <2>5, <3>1, <3>3 DEF Waiting, ToSet
    <3>4. CASE k > i
      <4>1. k - 1 \in DOMAIN waits' /\ waits'[k - 1] = waits[k]
        BY <1>2, <2>4, <2>5, <3>4
      <4> QED BY <3>1, <4>1 DEF Waiting, ToSet
    <3> QED BY <1>2, <2>5, <3>2, <3>3, <3>4
  <2>9. Waiting' = Waiting \ {s}
    BY <2>7, <2>8
  <2> QED BY <1>1, <2>4, <2>6, <2>9
<1> QED BY <1>3, <1>4

\* spawn_monitor_event: it changes or ends
LEMMA HandleEndKept == ASSUME StartupInv, HandleChange \/ HandleRemove PROVE StartupInv'
<1>1. PICK s : s = Head(queue).id
  OBVIOUS
<1>0. /\ queue # <<>> /\ Head(queue).type # "new" /\ queue' = Tail(queue) /\ UNCHANGED <<announced, ended, timers, launching, buffer>>
  BY DEF HandleChange, HandleRemove, HeadIs
<1>2. StartupTypeOK /\ QueueRight(queue, announced, Unread) /\ queue \in Seq(Message) /\ leftover \in Nat
      /\ announced \subseteq Ids
  BY DEF StartupInv, ReferencesExact, StartupTypeOK
<1>3. queue' \in Seq(Message) /\ s \in Ids
  BY <1>0, <1>1, <1>2, QueueTail
<1>4. CASE UNCHANGED <<known, refs, waits, starting>> /\ leftover' \in Nat
  <2>1. Waiting' = Waiting /\ Unread' = Unread
    BY <1>0, <1>4 DEF Unread, Waiting
  <2>2. StartupTypeOK'
    BY <1>0, <1>2, <1>3, <1>4 DEF StartupTypeOK
  <2>3. ReferencesExact' /\ WaitsOnce' /\ WaitsKnown' /\ CursorAgrees' = CursorAgrees
    BY <1>0, <1>4, <2>1, <2>2 DEF StartupInv, ReferencesExact, WaitsOnce, WaitsKnown, CursorAgrees
  <2>4. QueueRight(queue', announced', Unread')
    BY <1>0, <1>2, <2>1, QueueTail
  <2> QED BY <2>3, <2>4 DEF StartupInv
<1>5. CASE HandleRemove /\ s \in known
  <2>0. /\ SequenceRemove(s, 1) /\ known' = known \ {s} /\ leftover' \in {leftover, leftover + 1}
        /\ starting' = IF "completed" \in Connected THEN starting \ {s} ELSE starting
    BY <1>1, <1>5 DEF HandleRemove, UnregisterHook, EmitAndPop
  <2>1. /\ waits' \in Seq(Ids) /\ Waiting' = Waiting \ {s} /\ WaitsOnce'
        /\ refs' = [refs EXCEPT ![s] = refs[s] - 1 - Held(s \in Waiting)]
    BY <1>3, <2>0, SequenceRemoved
  <2>2. \A x \in Ids : refs'[x] = Held(x \in known') + Held(x \in Waiting') + Held(x \in timers')
    <3>1. ASSUME NEW x \in Ids PROVE refs'[x] = Held(x \in known') + Held(x \in Waiting') + Held(x \in timers')
      <4>1. refs[x] = Held(x \in known) + Held(x \in Waiting) + Held(x \in timers)
        BY DEF StartupInv, ReferencesExact
      <4>2. refs'[x] = IF x = s THEN refs[x] - 1 - Held(x \in Waiting) ELSE refs[x]
        BY <1>2, <2>1 DEF StartupTypeOK
      <4> QED BY <1>0, <1>5, <2>0, <2>1, <4>1, <4>2 DEF Held
    <3> QED BY <3>1
  <2>3. refs' \in [Ids -> 0..3]
    <3>1. \A x \in Ids : refs'[x] \in 0..3
      BY <2>2 DEF Held
    <3> QED BY <1>2, <2>1, <3>1 DEF StartupTypeOK
  <2>4. StartupTypeOK'
    BY <1>0, <1>2, <1>3, <2>0, <2>1, <2>3 DEF StartupTypeOK
  <2>5. ReferencesExact' /\ WaitsKnown'
    BY <1>0, <2>1, <2>2, <2>4 DEF ReferencesExact, WaitsKnown, StartupInv
  <2>6. Unread \subseteq Unread'
    BY <1>0, <2>0, <2>1 DEF Unread
  <2>7. QueueRight(queue', announced', Unread')
    BY <1>0, <1>2, <2>6, QueueTail
  <2>8. {"initiated", "completed", "timeout"} \subseteq Connected => CursorAgrees'
    BY <2>0, <2>1 DEF CursorAgrees, StartupInv
  <2> QED BY <2>1, <2>5, <2>7, <2>8 DEF StartupInv
<1> QED BY <1>1, <1>2, <1>4, <1>5 DEF HandleChange, HandleRemove, EmitAndPop

\* spawn_monitor_timeout
LEMMA WaitTimeoutKept == ASSUME StartupInv, NEW s \in Ids, WaitTimeout(s) PROVE StartupInv'
<1>0. /\ s \in timers /\ timers' = timers \ {s} /\ SequenceRemove(s, 1)
      /\ starting' = IF s \in Waiting /\ "timeout" \in Connected THEN starting \ {s} ELSE starting
      /\ UNCHANGED <<queue, announced, ended, known, launching, leftover, buffer>>
  BY DEF WaitTimeout, UnregisterHook, SnidCancel
<1>2. StartupTypeOK /\ QueueRight(queue, announced, Unread)
  BY DEF StartupInv, ReferencesExact
<1>3. /\ waits' \in Seq(Ids) /\ Waiting' = Waiting \ {s} /\ WaitsOnce'
      /\ refs' = [refs EXCEPT ![s] = refs[s] - 1 - Held(s \in Waiting)]
  BY <1>0, SequenceRemoved
<1>4. \A x \in Ids : refs'[x] = Held(x \in known') + Held(x \in Waiting') + Held(x \in timers')
  <2>1. ASSUME NEW x \in Ids PROVE refs'[x] = Held(x \in known') + Held(x \in Waiting') + Held(x \in timers')
    <3>1. refs[x] = Held(x \in known) + Held(x \in Waiting) + Held(x \in timers)
      BY DEF StartupInv, ReferencesExact
    <3>2. refs'[x] = IF x = s THEN refs[x] - 1 - Held(x \in Waiting) ELSE refs[x]
      BY <1>2, <1>3 DEF StartupTypeOK
    <3> QED BY <1>0, <1>3, <3>1, <3>2 DEF Held
  <2> QED BY <2>1
<1>5. refs' \in [Ids -> 0..3]
  <2>1. \A x \in Ids : refs'[x] \in 0..3
    BY <1>4 DEF Held
  <2> QED BY <1>2, <1>3, <2>1 DEF StartupTypeOK
<1>6. StartupTypeOK'
  BY <1>0, <1>2, <1>3, <1>5 DEF StartupTypeOK
<1>7. ReferencesExact' /\ WaitsKnown'
  BY <1>0, <1>3, <1>4, <1>6 DEF ReferencesExact, WaitsKnown, StartupInv
<1>8. QueueRight(queue', announced', Unread')
  <2>1. Unread \subseteq Unread'
    BY <1>0, <1>3 DEF Unread
  <2> QED BY <1>0, <1>2, <2>1, QueueMore
<1>9. {"initiated", "completed", "timeout"} \subseteq Connected => CursorAgrees'
  BY <1>0, <1>3 DEF CursorAgrees, StartupInv
<1> QED BY <1>3, <1>7, <1>8, <1>9 DEF StartupInv

LEMMA StartupStep == StartupInv /\ [StartupNext]_startupVars => StartupInv'
<1> SUFFICES ASSUME StartupInv, [StartupNext]_startupVars PROVE StartupInv'
  OBVIOUS
<1>1. CASE UNCHANGED startupVars \/ Poll
  <2>1. /\ UNCHANGED <<queue, announced, ended, known, refs, waits, timers, launching, starting, buffer>>
        /\ leftover' \in Nat
    BY <1>1 DEF startupVars, Poll, StartupInv, ReferencesExact, StartupTypeOK
  <2>2. Waiting' = Waiting /\ Unread' = Unread
    BY <2>1 DEF Unread, Waiting
  <2>3. StartupTypeOK'
    BY <2>1 DEF StartupInv, ReferencesExact, StartupTypeOK
  <2> QED BY <2>1, <2>2, <2>3 DEF StartupInv, ReferencesExact, WaitsOnce, WaitsKnown, CursorAgrees
<1>2. CASE StartupNext
  BY <1>1, <1>2, LaunchKept, ProgressKept, ManageKept, HandleNewKept, HandleEndKept, WaitTimeoutKept
  DEF StartupNext, HandleEvent, Timeout
<1> QED BY <1>1, <1>2

\* The references to a sequence are the library's, that of sn_waits and that of
\* the timeout, in whatever order it ends and times out (spawn_monitor_event,
\* spawn_monitor_timeout).
THEOREM ReferencesSafe == StartupSpec => []ReferencesExact
<1>1. StartupSpec => []StartupInv
  BY StartupStart, StartupStep, PTL DEF StartupSpec
<1>2. StartupInv => ReferencesExact
  BY DEF StartupInv
<1> QED BY <1>1, <1>2, PTL

\* The busy cursor stands for the programs in sn_waits when Lua is connected to
\* the signals for it (awful.startup_notification).
THEOREM CursorSafe ==
    ASSUME {"initiated", "completed", "timeout"} \subseteq Connected
    PROVE  StartupSpec => []CursorAgrees
<1>1. StartupSpec => []StartupInv
  BY StartupStart, StartupStep, PTL DEF StartupSpec
<1>2. StartupInv => CursorAgrees
  BY DEF StartupInv
<1> QED BY <1>1, <1>2, PTL

-----------------------------------------------------------------------------
(* At most one process manages windows, however many start, replace each      *)
(* other, restart and crash.                                                  *)
USE DEF windowVars

Managing == {"starting", "scanning", "running"}

\* the part of the types that the argument needs
ProcessTypes == stage \in [Manager -> Phase] /\ redirect \in Manager \cup {"none"}

TakeInv == ProcessTypes /\ OneManager

\* A process that ends or starts anew gives the redirection back.
LEMMA ClosedStep ==
    ASSUME TakeInv, NEW p \in Manager, NEW next \in {"off", "new"}, Closed(p, next)
    PROVE  TakeInv'
<1>1. stage' = [stage EXCEPT ![p] = next] /\ redirect' = IF redirect = p THEN "none" ELSE redirect
  BY DEF Closed
<1>2. ProcessTypes'
  BY <1>1 DEF TakeInv, ProcessTypes, Phase
<1>3. ASSUME NEW q \in Manager
      PROVE  redirect' = q <=> stage'[q] \in Managing
  <2>1. CASE q = p
    BY <1>1, <2>1, TakeOverAssumption DEF TakeInv, ProcessTypes, Managing
  <2>2. CASE q # p
    BY <1>1, <2>2, TakeOverAssumption DEF TakeInv, ProcessTypes, OneManager, Managing
  <2> QED BY <2>1, <2>2
<1> QED BY <1>2, <1>3 DEF TakeInv, OneManager, Managing

\* A process goes on without touching the redirection: it managed windows
\* before the step exactly if it does after it.
LEMMA PhaseStep ==
    ASSUME TakeInv, NEW p \in Manager, NEW next \in Phase,
           stage' = [stage EXCEPT ![p] = next], redirect' = redirect,
           stage[p] \in Managing <=> next \in Managing
    PROVE  TakeInv'
<1>1. ProcessTypes'
  BY DEF TakeInv, ProcessTypes
<1>2. ASSUME NEW q \in Manager
      PROVE  redirect' = q <=> stage'[q] \in Managing
  BY DEF TakeInv, ProcessTypes, OneManager, Managing
<1> QED BY <1>1, <1>2 DEF TakeInv, OneManager, Managing

LEMMA RedirectStep ==
    ASSUME TakeInv, NEW p \in Manager, Redirect(p)
    PROVE  TakeInv'
<1>1. CASE redirect # "none"
  BY <1>1, ClosedStep DEF Redirect
<1>2. CASE redirect = "none"
  <2>1. redirect' = p /\ stage' = [stage EXCEPT ![p] = "starting"]
    BY <1>2 DEF Redirect
  <2>2. \A q \in Manager : stage[q] \notin Managing
    BY <1>2, TakeOverAssumption DEF TakeInv, OneManager, Managing
  <2>3. ProcessTypes'
    BY <2>1 DEF TakeInv, ProcessTypes, Phase
  <2>4. \A q \in Manager : redirect' = q <=> stage'[q] \in Managing
    BY <2>1, <2>2 DEF TakeInv, ProcessTypes, Managing
  <2> QED BY <2>3, <2>4 DEF TakeInv, OneManager, Managing
<1> QED BY <1>1, <1>2

LEMMA StartStep ==
    ASSUME TakeInv, NEW p \in Manager,
           \/ \E b \in BOOLEAN : Start(p, b) \/ ParseRc(p, b)
           \/ FindOwner(p) \/ Claim(p) \/ Scanned(p)
    PROVE  TakeInv'
<1> USE DEF Phase, Managing
<1>1. CASE \E b \in BOOLEAN : Start(p, b)
  BY <1>1, PhaseStep DEF Start
<1>2. ASSUME NEW b \in BOOLEAN, ParseRc(p, b) PROVE TakeInv'
  BY <1>2, PhaseStep, ClosedStep DEF ParseRc
<1>3. CASE FindOwner(p)
  BY <1>3, PhaseStep, ClosedStep DEF FindOwner
<1>4. CASE Claim(p)
  BY <1>4, PhaseStep DEF Claim
<1>5. CASE Scanned(p)
  BY <1>5, PhaseStep DEF Scanned
<1> QED BY <1>1, <1>2, <1>3, <1>4, <1>5

LEMMA QuietStep ==
    ASSUME TakeInv, UNCHANGED <<stage, redirect>>
    PROVE  TakeInv'
BY DEF TakeInv, ProcessTypes, OneManager

LEMMA TakeStep ==
    ASSUME TakeInv, [TakeOverNext]_takeVars
    PROVE  TakeInv'
<1>1. ASSUME NEW p \in Manager, ScanOne(p) \/ Swap(p) PROVE TakeInv'
  BY <1>1, QuietStep DEF ScanOne, Swap
<1>2. ASSUME NEW p \in Manager, NEW w \in Window,
             TakeMapRequest(p, w) \/ HandleDestroy(p, w) \/ Raise(p, w)
      PROVE  TakeInv'
  BY <1>2, QuietStep DEF TakeMapRequest, HandleDestroy, Raise
<1>3. ASSUME NEW w \in Window, Create(w) \/ Map(w) \/ Destroy(w) PROVE TakeInv'
  BY <1>3, QuietStep DEF Create, Map, Destroy
<1>4. ASSUME NEW p \in Manager, NEW b \in BOOLEAN, Quit(p, b) PROVE TakeInv'
  BY <1>4, ClosedStep DEF Quit
<1>5. ASSUME NEW p \in Manager, Crash(p) PROVE TakeInv'
  BY <1>5, ClosedStep DEF Crash
<1>6. CASE UNCHANGED takeVars
  BY <1>6, QuietStep DEF takeVars
<1> QED BY <1>1, <1>2, <1>3, <1>4, <1>5, <1>6, StartStep, RedirectStep DEF TakeOverNext

LEMMA TakeStart == TakeOverInit => TakeInv
BY TakeOverAssumption DEF TakeOverInit, TakeInv, ProcessTypes, OneManager, Phase

\* No window is managed by two processes: at most one of them is past the
\* redirection, and X redirects to that one.
THEOREM OneManagerAtATime == TakeOverSpec => []OneManager
<1>1. TakeInv /\ [TakeOverNext]_takeVars => TakeInv'
  BY TakeStep
<1>2. TakeInv => OneManager
  BY DEF TakeInv
<1> QED BY TakeStart, <1>1, <1>2, PTL DEF TakeOverSpec

-----------------------------------------------------------------------------
(* Lists: their order, and what the manager does with the lists of windows.   *)

\* v comes before w in the list q
Precedes(q, v, w) == \E i, j \in DOMAIN q : i < j /\ q[i] = v /\ q[j] = w

\* lists without repetition that have the same elements in the same order are equal
LEMMA SameList ==
    ASSUME NEW S, NEW q \in Seq(S), NEW r \in Seq(S), IsInjective(q), IsInjective(r), ToSet(q) = ToSet(r),
           \A v, w \in ToSet(q) : Precedes(q, v, w) => Precedes(r, v, w)
    PROVE  q = r
<1> DEFINE m == Len(q)
           n == Len(r)
           P == {i \in 0..m : i <= n /\ \A j \in 1..i : q[j] = r[j]}
<1>1. m \in Nat /\ n \in Nat /\ DOMAIN q = 1..m /\ DOMAIN r = 1..n
  OBVIOUS
<1>2. /\ \A i \in 1..m : \E k \in 1..n : r[k] = q[i]
      /\ \A k \in 1..n : \E i \in 1..m : q[i] = r[k]
  BY <1>1 DEF ToSet
<1>3. /\ \A i, j \in 1..m : q[i] = q[j] => i = j
      /\ \A i, j \in 1..n : r[i] = r[j] => i = j
  BY <1>1 DEF IsInjective
<1>4. \A i, j \in 1..m : i < j => \E a, b \in 1..n : a < b /\ r[a] = q[i] /\ r[b] = q[j]
  <2>1. ASSUME NEW i \in 1..m, NEW j \in 1..m, i < j PROVE \E a, b \in 1..n : a < b /\ r[a] = q[i] /\ r[b] = q[j]
    <3>1. q[i] \in ToSet(q) /\ q[j] \in ToSet(q) /\ Precedes(q, q[i], q[j])
      BY <1>1, <2>1 DEF ToSet, Precedes
    <3>2. Precedes(r, q[i], q[j])
      BY <3>1
    <3> QED BY <1>1, <3>2 DEF Precedes
  <2> QED BY <2>1
<1> HIDE DEF m, n
<1>5. 0 \in P
  BY <1>1
<1>6. ASSUME NEW i \in 1..m, i - 1 \in P PROVE i \in P
  <2>1. i - 1 <= n /\ \A j \in 1..(i - 1) : q[j] = r[j]
    BY <1>6
  <2>2. PICK k \in 1..n : r[k] = q[i]
    BY <1>2
  <2>3. i <= k
    <3>1. SUFFICES ASSUME k < i PROVE FALSE
      BY <1>1
    <3>2. k \in 1..(i - 1) /\ k \in 1..m
      BY <1>1, <3>1
    <3>3. q[k] = q[i]
      BY <2>1, <2>2, <3>2
    <3> QED BY <1>3, <3>1, <3>2, <3>3
  <2>4. i <= n /\ i \in 1..n
    BY <1>1, <2>3
  <2>5. PICK l \in 1..m : q[l] = r[i]
    BY <1>2, <2>4
  <2>6. i <= l
    <3>1. SUFFICES ASSUME l < i PROVE FALSE
      BY <1>1
    <3>2. l \in 1..(i - 1) /\ l \in 1..n
      BY <1>1, <2>4, <3>1
    <3>3. r[l] = r[i]
      BY <2>1, <2>5, <3>2
    <3> QED BY <1>3, <2>4, <3>1, <3>2, <3>3
  <2>7. q[i] = r[i]
    <3>1. SUFFICES ASSUME q[i] # r[i] PROVE FALSE
      OBVIOUS
    <3>2. i < l /\ i < k
      BY <1>1, <2>2, <2>3, <2>5, <2>6, <3>1
    <3>3. PICK a \in 1..n, b \in 1..n : a < b /\ r[a] = q[i] /\ r[b] = q[l]
      BY <1>4, <3>2
    <3>4. a = k /\ b = i
      BY <1>3, <2>2, <2>4, <2>5, <3>3
    <3> QED BY <1>1, <3>2, <3>3, <3>4
  <2>8. \A j \in 1..i : j = i \/ j \in 1..(i - 1)
    BY <1>1
  <2> QED BY <1>1, <2>1, <2>4, <2>7, <2>8
<1>7. m <= n /\ \A j \in 1..m : q[j] = r[j]
  <2>1. P \in SUBSET (0..m)
    OBVIOUS
  <2> HIDE DEF P
  <2>2. \A i \in 1..m : i - 1 \in P => i \in P
    BY <1>6
  <2>3. \A i \in 0..m : i \in P
    BY <1>1, <1>5, <2>1, <2>2, NumberInduction
  <2>4. m \in P
    BY <1>1, <2>3
  <2> QED BY <2>4 DEF P
<1>8. n <= m
  <2>1. SUFFICES ASSUME m < n PROVE FALSE
    BY <1>1
  <2>2. PICK i \in 1..m : q[i] = r[n]
    BY <1>1, <1>2, <2>1
  <2>3. i \in 1..n /\ n \in 1..n /\ i # n /\ r[i] = r[n]
    BY <1>1, <1>7, <2>1, <2>2
  <2> QED BY <1>3, <2>3
<1>9. m = n
  BY <1>1, <1>7, <1>8
<1> QED BY <1>7, <1>9, SeqEqual DEF m, n

\* two lists, one behind the other
LEMMA ConcatList ==
    ASSUME NEW S, NEW q \in Seq(S), NEW r \in Seq(S)
    PROVE  /\ q \o r \in Seq(S)
           /\ ToSet(q \o r) = ToSet(q) \cup ToSet(r)
           /\ IsInjective(q) /\ IsInjective(r) /\ ToSet(q) \cap ToSet(r) = {} => IsInjective(q \o r)
           /\ IsInjective(q \o r) => IsInjective(q) /\ IsInjective(r) /\ ToSet(q) \cap ToSet(r) = {}
           /\ \A v, w : Precedes(q \o r, v, w) <=>
                 Precedes(q, v, w) \/ Precedes(r, v, w) \/ (v \in ToSet(q) /\ w \in ToSet(r))
<1> DEFINE m == Len(q)
           n == Len(r)
           c == q \o r
<1>1. /\ m \in Nat /\ n \in Nat /\ DOMAIN q = 1..m /\ DOMAIN r = 1..n /\ DOMAIN c = 1..(m + n)
      /\ c \in Seq(S)
  OBVIOUS
<1>2. \A i \in 1..(m + n) : c[i] = IF i <= m THEN q[i] ELSE r[i - m]
  OBVIOUS
<1> HIDE DEF m, n, c
<1>3. /\ \A i \in 1..m : i \in 1..(m + n) /\ c[i] = q[i]
      /\ \A i \in 1..n : m + i \in 1..(m + n) /\ c[m + i] = r[i]
  <2>1. ASSUME NEW i \in 1..m PROVE i \in 1..(m + n) /\ i <= m
    BY <1>1
  <2>2. ASSUME NEW i \in 1..n PROVE m + i \in 1..(m + n) /\ c[m + i] = r[i]
    <3>1. PICK j : j = m + i
      OBVIOUS
    <3>2. j \in 1..(m + n) /\ ~(j <= m) /\ j - m = i
      BY <1>1, <3>1
    <3>3. c[j] = r[j - m]
      BY <1>2, <3>2
    <3> QED BY <3>1, <3>2, <3>3
  <2> QED BY <1>2, <2>1, <2>2
<1>4. \A i \in 1..(m + n) : i \in 1..m \/ \E k \in 1..n : i = m + k
  <2>1. ASSUME NEW i \in 1..(m + n), i \notin 1..m PROVE i - m \in 1..n /\ i = m + (i - m)
    BY <1>1, <2>1
  <2> QED BY <2>1
<1>5. ToSet(c) = ToSet(q) \cup ToSet(r)
  <2>1. ASSUME NEW i \in 1..(m + n) PROVE c[i] \in ToSet(q) \cup ToSet(r)
    <3>1. CASE i \in 1..m
      BY <1>1, <1>3, <3>1 DEF ToSet
    <3>2. ASSUME NEW k \in 1..n, i = m + k PROVE c[i] \in ToSet(r)
      BY <1>1, <1>3, <3>2 DEF ToSet
    <3> QED BY <1>4, <3>1, <3>2
  <2>2. ToSet(q) \cup ToSet(r) \subseteq ToSet(c)
    BY <1>1, <1>3 DEF ToSet
  <2> QED BY <1>1, <2>1, <2>2 DEF ToSet
<1>6. ASSUME IsInjective(q), IsInjective(r), ToSet(q) \cap ToSet(r) = {} PROVE IsInjective(c)
  <2>1. \A i \in 1..m, k \in 1..n : q[i] # r[k]
    BY <1>1, <1>6 DEF ToSet
  <2>2. ASSUME NEW i \in 1..(m + n), NEW j \in 1..(m + n), c[i] = c[j] PROVE i = j
    <3>1. CASE i \in 1..m /\ j \in 1..m
      BY <1>1, <1>3, <1>6, <2>2, <3>1 DEF IsInjective
    <3>2. ASSUME i \in 1..m, NEW k \in 1..n, j = m + k PROVE FALSE
      BY <1>3, <2>1, <2>2, <3>2
    <3>3. ASSUME j \in 1..m, NEW k \in 1..n, i = m + k PROVE FALSE
      BY <1>3, <2>1, <2>2, <3>3
    <3>4. ASSUME NEW k \in 1..n, NEW l \in 1..n, i = m + k, j = m + l PROVE i = j
      BY <1>1, <1>3, <1>6, <2>2, <3>4 DEF IsInjective
    <3> QED BY <1>4, <3>1, <3>2, <3>3, <3>4
  <2> QED BY <1>1, <2>2 DEF IsInjective
<1>7. ASSUME IsInjective(c) PROVE IsInjective(q) /\ IsInjective(r) /\ ToSet(q) \cap ToSet(r) = {}
  <2>1. \A i, j \in 1..(m + n) : c[i] = c[j] => i = j
    BY <1>1, <1>7 DEF IsInjective
  <2>2. \A i \in 1..m, j \in 1..m : q[i] = q[j] => i = j
    BY <1>3, <2>1
  <2>3. ASSUME NEW i \in 1..n, NEW j \in 1..n, r[i] = r[j] PROVE i = j
    <3>1. m + i = m + j
      BY <1>3, <2>1, <2>3
    <3> QED BY <1>1, <3>1
  <2>4. ASSUME NEW i \in 1..m, NEW j \in 1..n, q[i] = r[j] PROVE FALSE
    <3>1. i = m + j
      BY <1>3, <2>1, <2>4
    <3> QED BY <1>1, <3>1
  <2> QED BY <1>1, <2>2, <2>3, <2>4 DEF IsInjective, ToSet
<1>8. ASSUME NEW v, NEW w
      PROVE  Precedes(c, v, w) <=> Precedes(q, v, w) \/ Precedes(r, v, w) \/ (v \in ToSet(q) /\ w \in ToSet(r))
  <2>1. ASSUME Precedes(q, v, w) PROVE Precedes(c, v, w)
    BY <1>1, <1>3, <2>1 DEF Precedes
  <2>2. ASSUME Precedes(r, v, w) PROVE Precedes(c, v, w)
    <3>1. PICK i \in 1..n, j \in 1..n : i < j /\ r[i] = v /\ r[j] = w
      BY <1>1, <2>2 DEF Precedes
    <3>2. m + i < m + j
      BY <1>1, <3>1
    <3> QED BY <1>1, <1>3, <3>1, <3>2 DEF Precedes
  <2>3. ASSUME v \in ToSet(q), w \in ToSet(r) PROVE Precedes(c, v, w)
    <3>1. PICK i \in 1..m, j \in 1..n : q[i] = v /\ r[j] = w
      BY <1>1, <2>3 DEF ToSet
    <3>2. i < m + j
      BY <1>1
    <3> QED BY <1>1, <1>3, <3>1, <3>2 DEF Precedes
  <2>4. ASSUME Precedes(c, v, w)
        PROVE  Precedes(q, v, w) \/ Precedes(r, v, w) \/ (v \in ToSet(q) /\ w \in ToSet(r))
    <3>1. PICK i \in 1..(m + n), j \in 1..(m + n) : i < j /\ c[i] = v /\ c[j] = w
      BY <1>1, <2>4 DEF Precedes
    <3>2. CASE i \in 1..m /\ j \in 1..m
      BY <1>1, <1>3, <3>1, <3>2 DEF Precedes
    <3>3. ASSUME i \in 1..m, NEW k \in 1..n, j = m + k PROVE v \in ToSet(q) /\ w \in ToSet(r)
      BY <1>1, <1>3, <3>1, <3>3 DEF ToSet
    <3>4. ASSUME j \in 1..m, NEW k \in 1..n, i = m + k PROVE FALSE
      BY <1>1, <3>1, <3>4
    <3>5. ASSUME NEW k \in 1..n, NEW l \in 1..n, i = m + k, j = m + l PROVE Precedes(r, v, w)
      <4>1. k < l
        BY <1>1, <3>1, <3>5
      <4> QED BY <1>1, <1>3, <3>1, <3>5, <4>1 DEF Precedes
    <3> QED BY <1>4, <3>2, <3>3, <3>4, <3>5
  <2> QED BY <2>1, <2>2, <2>3, <2>4
<1> QED BY <1>1, <1>5, <1>6, <1>7, <1>8 DEF c

LEMMA OneList ==
    ASSUME NEW S, NEW e \in S
    PROVE  /\ <<e>> \in Seq(S) /\ ToSet(<<e>>) = {e} /\ IsInjective(<<e>>)
           /\ \A v, w : ~Precedes(<<e>>, v, w)
           /\ <<>> \in Seq(S) /\ ToSet(<<>>) = {} /\ IsInjective(<<>>)
           /\ \A v, w : ~Precedes(<<>>, v, w)
           /\ \A q \in Seq(S) : Append(q, e) = q \o <<e>> /\ q \o <<>> = q /\ <<>> \o q = q
           /\ \A q \in Seq(S) : q # <<>> =>
                 Head(q) \in S /\ Tail(q) \in Seq(S) /\ q = <<Head(q)>> \o Tail(q)
<1>1. DOMAIN <<e>> = {1} /\ <<e>>[1] = e /\ DOMAIN <<>> = {}
  OBVIOUS
<1>2. /\ ToSet(<<e>>) = {e} /\ IsInjective(<<e>>) /\ \A v, w : ~Precedes(<<e>>, v, w)
      /\ ToSet(<<>>) = {} /\ IsInjective(<<>>) /\ \A v, w : ~Precedes(<<>>, v, w)
  BY <1>1 DEF ToSet, IsInjective, Precedes
<1>3. \A q \in Seq(S) : Append(q, e) = q \o <<e>> /\ q \o <<>> = q /\ <<>> \o q = q
  OBVIOUS
<1>4. ASSUME NEW q \in Seq(S), q # <<>> PROVE Head(q) \in S /\ Tail(q) \in Seq(S) /\ q = <<Head(q)>> \o Tail(q)
  BY <1>4
<1> QED BY <1>2, <1>3, <1>4

\* the elements that are in a set, in their order
LEMMA AmongRight ==
    ASSUME NEW S, NEW l \in Seq(S), NEW s
    PROVE  /\ Among(l, s) \in Seq(S)
           /\ ToSet(Among(l, s)) = ToSet(l) \cap s
           /\ IsInjective(l) => IsInjective(Among(l, s))
           /\ IsInjective(l) => \A v, w : Precedes(Among(l, s), v, w) <=> Precedes(l, v, w) /\ v \in s /\ w \in s
<1> DEFINE n == Len(l)
           take == [x \in (1..n) \X Seq(S) |-> IF l[x[1]] \in s THEN Append(x[2], l[x[1]]) ELSE x[2]]
           Computes(f) == f = [i \in 0..n |-> IF i = 0 THEN <<>>
                                              ELSE IF l[i] \in s THEN Append(f[i - 1], l[i]) ELSE f[i - 1]]
           kept == CHOOSE f : Computes(f)
<1>1. n \in Nat /\ DOMAIN l = 1..n /\ <<>> \in Seq(S) /\ \A i \in 1..n : l[i] \in S
  OBVIOUS
<1>2. take \in [(1..n) \X Seq(S) -> Seq(S)]
  BY <1>1
<1> HIDE DEF n
<1>3. \E f : Computes(f)
  <2>1. PICK f \in [0..n -> Seq(S)] : f[0] = <<>> /\ \A i \in 1..n : f[i] = take[<<i, f[i - 1]>>]
    <3>1. PICK X, g, start : X = Seq(S) /\ g = take /\ start = <<>>
      OBVIOUS
    <3> HIDE DEF take
    <3>2. g \in [(1..n) \X X -> X] /\ start \in X
      BY <1>1, <1>2, <3>1
    <3>3. \E f \in [0..n -> X] : Steps(n, start, g, f)
      BY <1>1, <3>2, NumberRecursion
    <3> QED BY <3>1, <3>3 DEF Steps
  <2>2. \A i \in 1..n : i - 1 \in 0..n /\ i \in 0..n /\ i # 0
    BY <1>1
  <2>3. \A i \in 1..n : f[i] = IF l[i] \in s THEN Append(f[i - 1], l[i]) ELSE f[i - 1]
    <3>1. ASSUME NEW i \in 1..n PROVE f[i] = IF l[i] \in s THEN Append(f[i - 1], l[i]) ELSE f[i - 1]
      <4>1. <<i, f[i - 1]>> \in (1..n) \X Seq(S)
        BY <2>1, <2>2
      <4> QED BY <2>1, <4>1
    <3> QED BY <3>1
  <2>4. \A i \in 0..n : i = 0 \/ i \in 1..n
    BY <1>1
  <2>5. Computes(f)
    BY <2>1, <2>3, <2>4
  <2> QED BY <2>5
<1>4. Computes(kept)
  BY <1>3
<1> HIDE DEF kept, take
<1>5. Among(l, s) = kept[n]
  BY DEF Among, kept, n
<1>6. /\ kept[0] = <<>>
      /\ \A i \in 1..n : i \in Nat /\ i - 1 \in 0..n /\ i \in 0..n /\ i # 0
      /\ \A i \in 1..n : kept[i] = IF l[i] \in s THEN Append(kept[i - 1], l[i]) ELSE kept[i - 1]
  <2>1. 0 \in 0..n /\ \A i \in 1..n : i \in Nat /\ i - 1 \in 0..n /\ i \in 0..n /\ i # 0
    BY <1>1
  <2> QED BY <1>4, <2>1
<1> HIDE DEF Computes
<1> DEFINE Upto(i) == {l[j] : j \in 1..i}
           Pre(i, v, w) == \E a, b \in 1..i : a < b /\ l[a] = v /\ l[b] = w
           Kept(i, q) == /\ q \in Seq(S) /\ ToSet(q) = Upto(i) \cap s
                         /\ IsInjective(l) =>
                               /\ IsInjective(q)
                               /\ \A v, w : Precedes(q, v, w) <=> Pre(i, v, w) /\ v \in s /\ w \in s
           P == {i \in 0..n : Kept(i, kept[i])}
<1>7. 0 \in P
  <2>1. Upto(0) = {} /\ \A v, w : ~Pre(0, v, w)
    OBVIOUS
  <2>2. ToSet(<<>>) = {} /\ IsInjective(<<>>) /\ \A v, w : ~Precedes(<<>>, v, w)
    BY DEF ToSet, IsInjective, Precedes
  <2>3. 0 \in 0..n
    BY <1>1
  <2> HIDE DEF Upto, Pre
  <2> QED BY <1>1, <1>6, <2>1, <2>2, <2>3
<1>8. ASSUME NEW i \in 1..n, i - 1 \in P PROVE i \in P
  <2>1. PICK e, q, r : e = l[i] /\ q = kept[i - 1] /\ r = kept[i]
    OBVIOUS
  <2>2. e \in S /\ Kept(i - 1, q) /\ r = (IF e \in s THEN Append(q, e) ELSE q)
    BY <1>1, <1>6, <1>8, <2>1
  <2>3. \A j : j \in 1..i <=> j \in 1..(i - 1) \/ j = i
    BY <1>6
  <2>4. Upto(i) = Upto(i - 1) \cup {e}
    BY <2>1, <2>3
  <2>5. \A v, w : Pre(i, v, w) <=> Pre(i - 1, v, w) \/ (v \in Upto(i - 1) /\ w = e)
    <3>1. ASSUME NEW v, NEW w, Pre(i, v, w) PROVE Pre(i - 1, v, w) \/ (v \in Upto(i - 1) /\ w = e)
      <4>1. PICK a \in 1..i, b \in 1..i : a < b /\ l[a] = v /\ l[b] = w
        BY <3>1
      <4>2. a \in 1..(i - 1)
        BY <1>6, <4>1
      <4> QED BY <2>1, <2>3, <4>1, <4>2
    <3>2. ASSUME NEW v, NEW w, Pre(i - 1, v, w) PROVE Pre(i, v, w)
      BY <2>3, <3>2
    <3>3. ASSUME NEW v, v \in Upto(i - 1) PROVE Pre(i, v, e)
      <4>1. PICK a \in 1..(i - 1) : l[a] = v
        BY <3>3
      <4>2. a \in 1..i /\ i \in 1..i /\ a < i
        BY <1>6
      <4> QED BY <2>1, <4>1, <4>2
    <3> HIDE DEF Upto, Pre
    <3> QED BY <3>1, <3>2, <3>3
  <2>6. IsInjective(l) => e \notin Upto(i - 1)
    <3>1. \A j \in 1..(i - 1) : j \in 1..n /\ j # i
      BY <1>1
    <3> QED BY <1>1, <2>1, <3>1 DEF IsInjective
  <2> HIDE DEF Upto, Pre
  <2>7. CASE e \notin s
    <3>1. r = q
      BY <2>2, <2>7
    <3>2. \A v, w : w \in s => w # e
      BY <2>7
    <3>3. ToSet(r) = Upto(i) \cap s /\ r \in Seq(S)
      BY <2>2, <2>4, <2>7, <3>1
    <3>4. IsInjective(l) => /\ IsInjective(r)
                            /\ \A v, w : Precedes(r, v, w) <=> Pre(i, v, w) /\ v \in s /\ w \in s
      BY <2>2, <2>5, <2>7, <3>1
    <3> QED BY <1>6, <2>1, <3>3, <3>4
  <2>8. CASE e \in s
    <3>1. r = q \o <<e>> /\ q \in Seq(S) /\ <<e>> \in Seq(S)
      BY <2>2, <2>8
    <3>2. /\ r \in Seq(S) /\ ToSet(r) = ToSet(q) \cup {e}
          /\ IsInjective(q) /\ e \notin ToSet(q) => IsInjective(r)
          /\ \A v, w : Precedes(r, v, w) <=> Precedes(q, v, w) \/ (v \in ToSet(q) /\ w = e)
      <4>1. ToSet(<<e>>) = {e} /\ IsInjective(<<e>>) /\ \A v, w : ~Precedes(<<e>>, v, w)
        BY <2>2, OneList
      <4>2. /\ q \o <<e>> \in Seq(S) /\ ToSet(q \o <<e>>) = ToSet(q) \cup ToSet(<<e>>)
            /\ IsInjective(q) /\ IsInjective(<<e>>) /\ ToSet(q) \cap ToSet(<<e>>) = {} => IsInjective(q \o <<e>>)
            /\ \A v, w : Precedes(q \o <<e>>, v, w) <=>
                  Precedes(q, v, w) \/ Precedes(<<e>>, v, w) \/ (v \in ToSet(q) /\ w \in ToSet(<<e>>))
        BY <3>1, ConcatList
      <4> QED BY <3>1, <4>1, <4>2
    <3>3. ToSet(r) = Upto(i) \cap s
      BY <2>2, <2>4, <2>8, <3>2
    <3>4. ASSUME IsInjective(l)
          PROVE  /\ IsInjective(r)
                 /\ \A v, w : Precedes(r, v, w) <=> Pre(i, v, w) /\ v \in s /\ w \in s
      <4>1. IsInjective(r)
        BY <2>2, <2>6, <3>2, <3>4
      <4>2. ASSUME NEW v, NEW w PROVE Precedes(r, v, w) <=> Pre(i, v, w) /\ v \in s /\ w \in s
        <5>1. Precedes(q, v, w) <=> Pre(i - 1, v, w) /\ v \in s /\ w \in s
          BY <2>2, <3>4
        <5>2. v \in ToSet(q) <=> v \in Upto(i - 1) /\ v \in s
          BY <2>2
        <5> QED BY <2>5, <2>8, <3>2, <5>1, <5>2
      <4> QED BY <4>1, <4>2
    <3> QED BY <1>6, <2>1, <3>2, <3>3, <3>4
  <2> QED BY <2>7, <2>8
<1>9. n \in P
  <2>1. P \in SUBSET (0..n)
    OBVIOUS
  <2>2. n \in 0..n
    BY <1>1
  <2> HIDE DEF P
  <2>3. \A i \in 1..n : i - 1 \in P => i \in P
    BY <1>8
  <2>4. \A i \in 0..n : i \in P
    BY <1>1, <1>7, <2>1, <2>3, NumberInduction
  <2> QED BY <2>2, <2>4
<1>10. Kept(n, Among(l, s))
  BY <1>5, <1>9
<1>11. Upto(n) = ToSet(l) /\ \A v, w : Pre(n, v, w) <=> Precedes(l, v, w)
  BY <1>1 DEF ToSet, Precedes
<1> HIDE DEF Upto, Pre
<1> QED BY <1>10, <1>11

\* the windows that were saved change places, one after the other, with the
\* first ones
LEMMA RestoreRight ==
    ASSUME NEW S, NEW l \in Seq(S), NEW order \in Seq(S), IsInjective(l), IsInjective(order)
    PROVE  /\ RestoreOrder(l, order) \in Seq(S)
           /\ ToSet(RestoreOrder(l, order)) = ToSet(l)
           /\ IsInjective(RestoreOrder(l, order))
           /\ ToSet(l) \subseteq ToSet(order) =>
                 \A v, w : Precedes(RestoreOrder(l, order), v, w) => Precedes(order, v, w)
<1> DEFINE n == Len(order)
           m == Len(l)
           Acc == [list : Seq(S), next : Nat]
           place(acc, w) ==
                IF w \notin ToSet(acc.list) THEN acc
                ELSE [list |-> [acc.list EXCEPT ![acc.next] = w,
                                                ![CHOOSE i \in DOMAIN acc.list : acc.list[i] = w] = acc.list[acc.next]],
                      next |-> acc.next + 1]
           Computes(f) == f = [k \in 0..n |-> IF k = 0 THEN [list |-> l, next |-> 1]
                                              ELSE place(f[k - 1], order[k])]
           placed == CHOOSE f : Computes(f)
           Lists == {q \in Seq(S) : Len(q) = m /\ ToSet(q) = ToSet(l) /\ IsInjective(q)}
           \* after k windows
           First(k, acc) ==
                /\ acc.list \in Lists /\ acc.next \in 1..(m + 1)
                /\ \A i \in 1..m : i < acc.next <=> \E j \in 1..k : order[j] = acc.list[i]
                /\ \A i, j \in 1..m : i < j /\ j < acc.next => Precedes(order, acc.list[i], acc.list[j])
<1>1. /\ n \in Nat /\ m \in Nat /\ DOMAIN order = 1..n /\ DOMAIN l = 1..m
      /\ \A j \in 1..n : order[j] \in S
      /\ \A i, j \in 1..n : order[i] = order[j] => i = j
  BY DEF IsInjective
<1> HIDE DEF n, m
<1>2. \A q \in Lists : DOMAIN q = 1..m /\ (\A i \in 1..m : q[i] \in S) /\ \A i, j \in 1..m : q[i] = q[j] => i = j
  BY DEF IsInjective
<1>3. ASSUME NEW k \in 1..n, NEW acc \in Acc, First(k - 1, acc)
      PROVE  place(acc, order[k]) \in Acc /\ First(k, place(acc, order[k]))
  <2>1. PICK w, list, nx : w = order[k] /\ list = acc.list /\ nx = acc.next
    OBVIOUS
  <2>2. /\ list \in Lists /\ list \in Seq(S) /\ nx \in 1..(m + 1) /\ w \in S
        /\ DOMAIN list = 1..m /\ (\A i \in 1..m : list[i] \in S)
        /\ \A i, j \in 1..m : list[i] = list[j] => i = j
    BY <1>1, <1>2, <1>3, <2>1
  <2>3. /\ \A i \in 1..m : i < nx <=> \E j \in 1..(k - 1) : order[j] = list[i]
        /\ \A i, j \in 1..m : i < j /\ j < nx => Precedes(order, list[i], list[j])
    BY <1>3, <2>1
  <2>4. /\ \A j : j \in 1..k <=> j \in 1..(k - 1) \/ j = k
        /\ \A j \in 1..(k - 1) : j \in 1..n /\ j # k /\ j < k
    BY <1>1
  <2> HIDE DEF Lists
  <2>5. CASE w \notin ToSet(list)
    <3>1. place(acc, w) = acc
      BY <2>1, <2>5
    <3>2. \A i \in 1..m : list[i] # w
      BY <2>2, <2>5 DEF ToSet
    <3>3. \A i \in 1..m : i < nx <=> \E j \in 1..k : order[j] = list[i]
      BY <2>1, <2>3, <2>4, <3>2
    <3> QED BY <2>1, <2>2, <2>3, <3>1, <3>3
  <2>6. CASE w \in ToSet(list)
    <3>1. PICK c : c = CHOOSE i \in DOMAIN list : list[i] = w
      OBVIOUS
    <3>2. c \in 1..m /\ list[c] = w
      BY <2>2, <2>6, <3>1 DEF ToSet
    <3>3. nx <= c /\ nx \in 1..m
      <4>1. ~(c < nx)
        <5>1. SUFFICES ASSUME c < nx PROVE FALSE
          OBVIOUS
        <5>2. PICK j \in 1..(k - 1) : order[j] = w
          BY <2>3, <3>2, <5>1
        <5> QED BY <1>1, <2>1, <2>4, <5>2
      <4> QED BY <1>1, <2>2, <3>2, <4>1
    <3>4. PICK q : q = [list EXCEPT ![nx] = w, ![c] = list[nx]]
      OBVIOUS
    <3>5. place(acc, w) = [list |-> q, next |-> nx + 1]
      BY <2>1, <2>6, <3>1, <3>4
    <3>6. /\ DOMAIN q = 1..m
          /\ \A i \in 1..m : q[i] = IF i = c THEN list[nx] ELSE IF i = nx THEN w ELSE list[i]
          /\ q \in [1..m -> S]
      <4>1. DOMAIN q = 1..m /\ \A i \in 1..m : q[i] = IF i = c THEN list[nx] ELSE IF i = nx THEN w ELSE list[i]
        BY <2>2, <3>2, <3>3, <3>4
      <4>2. \A i \in 1..m : q[i] \in S
        BY <2>2, <3>2, <3>3, <4>1
      <4>3. q = [i \in 1..m |-> q[i]]
        BY <3>4, <4>1, ZenonT(30)
      <4> QED BY <4>1, <4>2, <4>3
    <3>7. q \in Seq(S) /\ Len(q) = m
      BY <1>1, <3>6
    <3> DEFINE other(i) == IF i = c THEN nx ELSE IF i = nx THEN c ELSE i
    <3>8. \A i \in 1..m : other(i) \in 1..m /\ other(other(i)) = i /\ q[i] = list[other(i)]
      BY <3>2, <3>3, <3>6
    <3>9. q \in Lists
      <4> HIDE DEF other
      <4>1. \A i, j \in 1..m : q[i] = q[j] => i = j
        <5>1. ASSUME NEW i \in 1..m, NEW j \in 1..m, q[i] = q[j] PROVE i = j
          <6>1. other(i) = other(j)
            BY <2>2, <3>8, <5>1
          <6> QED BY <3>8, <6>1
        <5> QED BY <5>1
      <4>2. ToSet(q) = ToSet(list)
        BY <2>2, <3>6, <3>8 DEF ToSet
      <4>3. ToSet(list) = ToSet(l)
        BY <2>2 DEF Lists
      <4> QED BY <3>6, <3>7, <4>1, <4>2, <4>3 DEF Lists, IsInjective
    <3>10. ASSUME NEW i \in 1..m PROVE i < nx + 1 <=> \E j \in 1..k : order[j] = q[i]
      <4>1. CASE i < nx
        <5>1. q[i] = list[i]
          BY <1>1, <3>2, <3>3, <3>6, <4>1
        <5>2. i < nx + 1
          BY <1>1, <2>2, <4>1
        <5>3. PICK j \in 1..(k - 1) : order[j] = list[i]
          BY <2>3, <4>1
        <5>4. j \in 1..k
          BY <2>4
        <5> QED BY <5>1, <5>2, <5>3, <5>4
      <4>2. CASE i = nx
        <5>1. q[i] = order[k]
          BY <2>1, <3>2, <3>3, <3>6, <4>2
        <5>2. i < nx + 1 /\ k \in 1..k
          BY <1>1, <2>2, <4>2
        <5> QED BY <5>1, <5>2
      <4>3. CASE nx < i
        <5>1. PICK a \in 1..m : q[i] = list[a] /\ a # c /\ ~(a < nx)
          <6>1. CASE i = c
            <7>1. nx \in 1..m /\ q[i] = list[nx] /\ nx # c /\ ~(nx < nx)
              BY <1>1, <3>2, <3>3, <3>6, <4>3, <6>1
            <7> QED BY <7>1
          <6>2. CASE i # c
            <7>1. q[i] = list[i] /\ ~(i < nx)
              BY <1>1, <3>2, <3>3, <3>6, <4>3, <6>2
            <7> QED BY <6>2, <7>1
          <6> QED BY <6>1, <6>2
        <5>2. q[i] # w
          BY <2>2, <3>2, <5>1
        <5>3. ~(\E j \in 1..k : order[j] = q[i])
          BY <2>1, <2>3, <2>4, <5>1, <5>2
        <5>4. ~(i < nx + 1)
          BY <1>1, <2>2, <4>3
        <5> QED BY <5>3, <5>4
      <4>4. i \in Nat /\ nx \in Nat
        BY <1>1, <2>2
      <4> QED BY <4>1, <4>2, <4>3, <4>4
    <3>11. ASSUME NEW i \in 1..m, NEW j \in 1..m, i < j, j < nx + 1 PROVE Precedes(order, q[i], q[j])
      <4>1. i < nx /\ q[i] = list[i]
        BY <1>1, <2>2, <3>2, <3>3, <3>6, <3>11
      <4>2. CASE j < nx
        <5>1. q[j] = list[j]
          BY <1>1, <3>2, <3>3, <3>6, <4>2
        <5> QED BY <2>3, <3>11, <4>1, <4>2, <5>1
      <4>3. CASE j = nx
        <5>1. q[j] = order[k]
          BY <2>1, <3>2, <3>3, <3>6, <4>3
        <5>2. PICK a \in 1..(k - 1) : order[a] = q[i]
          BY <2>3, <4>1
        <5> QED BY <1>1, <2>4, <5>1, <5>2 DEF Precedes
      <4> QED BY <1>1, <2>2, <3>11, <4>2, <4>3
    <3>12. nx + 1 \in 1..(m + 1) /\ nx + 1 \in Nat
      BY <1>1, <3>3
    <3> HIDE DEF place
    <3>13. PICK new : new = place(acc, w)
      OBVIOUS
    <3>14. new.list = q /\ new.next = nx + 1 /\ new \in Acc
      BY <3>5, <3>7, <3>12, <3>13
    <3>15. First(k, new)
      BY <3>9, <3>10, <3>11, <3>12, <3>14
    <3> QED BY <2>1, <3>13, <3>14, <3>15
  <2> QED BY <2>5, <2>6
<1>4. [list |-> l, next |-> 1] \in Acc /\ First(0, [list |-> l, next |-> 1])
  <2>1. PICK acc : acc = [list |-> l, next |-> 1]
    OBVIOUS
  <2>2. acc.list = l /\ acc.next = 1 /\ acc \in Acc
    BY <2>1
  <2>3. l \in Lists
    BY DEF m
  <2>4. First(0, acc)
    BY <1>1, <2>2, <2>3
  <2> QED BY <2>1, <2>2, <2>4
<1> HIDE DEF First, place, Acc
<1>5. \E f : Computes(f) /\ \A k \in 0..n : First(k, f[k])
  <2>1. PICK X, start, take : /\ X = Acc /\ start = [list |-> l, next |-> 1]
                              /\ take = [x \in (1..n) \X Acc |->
                                           IF First(x[1] - 1, x[2]) THEN place(x[2], order[x[1]]) ELSE x[2]]
    OBVIOUS
  <2>2. take \in [(1..n) \X X -> X] /\ start \in X
    BY <1>3, <1>4, <2>1
  <2>3. PICK f \in [0..n -> X] : Steps(n, start, take, f)
    BY <1>1, <2>2, NumberRecursion
  <2>4. /\ f[0] = start /\ \A k \in 1..n : f[k] = take[<<k, f[k - 1]>>]
        /\ \A k \in 0..n : f[k] \in Acc
    BY <2>1, <2>3 DEF Steps
  <2>5. /\ 0 \in 0..n
        /\ \A k \in 1..n : k - 1 \in 0..n /\ k \in 0..n /\ k # 0
        /\ \A k \in 0..n : k = 0 \/ k \in 1..n
    BY <1>1
  <2>6. \A k \in 1..n : f[k] = IF First(k - 1, f[k - 1]) THEN place(f[k - 1], order[k]) ELSE f[k - 1]
    <3>1. ASSUME NEW k \in 1..n
          PROVE  f[k] = IF First(k - 1, f[k - 1]) THEN place(f[k - 1], order[k]) ELSE f[k - 1]
      <4>1. PICK x : x = <<k, f[k - 1]>>
        OBVIOUS
      <4>2. x \in (1..n) \X Acc /\ x[1] = k /\ x[2] = f[k - 1]
        BY <2>4, <2>5, <4>1
      <4>3. f[k] = take[x]
        BY <2>4, <4>1
      <4> QED BY <2>1, <4>2, <4>3
    <3> QED BY <3>1
  <2> DEFINE P == {k \in 0..n : First(k, f[k])}
  <2>7. 0 \in P
    BY <1>4, <2>1, <2>4, <2>5
  <2>8. ASSUME NEW k \in 1..n, k - 1 \in P PROVE k \in P
    <3>1. f[k] = place(f[k - 1], order[k]) /\ First(k - 1, f[k - 1]) /\ f[k - 1] \in Acc
      BY <2>4, <2>5, <2>6, <2>8
    <3> QED BY <1>3, <2>5, <3>1
  <2>9. \A k \in 0..n : First(k, f[k])
    <3>1. P \in SUBSET (0..n)
      OBVIOUS
    <3> HIDE DEF P
    <3>2. \A k \in 0..n : k \in P
      BY <1>1, <2>7, <2>8, <3>1, NumberInduction
    <3> QED BY <3>2 DEF P
  <2>10. Computes(f)
    <3>1. \A k \in 1..n : f[k] = place(f[k - 1], order[k])
      BY <2>5, <2>6, <2>9
    <3> QED BY <2>1, <2>3, <2>4, <2>5, <3>1
  <2> QED BY <2>9, <2>10
<1>6. Computes(placed)
  BY <1>5
<1> HIDE DEF placed
<1>7. /\ placed[0] = [list |-> l, next |-> 1]
      /\ \A k \in 1..n : placed[k] = place(placed[k - 1], order[k]) /\ k - 1 \in 0..n /\ k \in 0..n
  <2>1. 0 \in 0..n /\ \A k \in 1..n : k - 1 \in 0..n /\ k \in 0..n /\ k # 0
    BY <1>1
  <2> QED BY <1>6, <2>1
<1>8. First(n, placed[n])
  <2> DEFINE P == {k \in 0..n : placed[k] \in Acc /\ First(k, placed[k])}
  <2>1. 0 \in P
    BY <1>1, <1>4, <1>7
  <2>2. \A k \in 1..n : k - 1 \in P => k \in P
    BY <1>3, <1>7
  <2>3. P \in SUBSET (0..n) /\ n \in 0..n
    BY <1>1
  <2> HIDE DEF P
  <2>4. \A k \in 0..n : k \in P
    BY <1>1, <2>1, <2>2, <2>3, NumberInduction
  <2> QED BY <2>3, <2>4 DEF P
<1>9. RestoreOrder(l, order) = placed[n].list
  BY DEF RestoreOrder, placed, Computes, place, n
<1>10. PICK acc : acc = placed[n]
  OBVIOUS
<1>11. acc.list \in Lists /\ First(n, acc) /\ DOMAIN acc.list = 1..m
  BY <1>2, <1>8, <1>10 DEF First
<1>12. ASSUME ToSet(l) \subseteq ToSet(order), NEW v, NEW w, Precedes(acc.list, v, w) PROVE Precedes(order, v, w)
  <2>1. PICK i \in 1..m, j \in 1..m : i < j /\ acc.list[i] = v /\ acc.list[j] = w
    BY <1>11, <1>12 DEF Precedes
  <2>2. w \in ToSet(order)
    BY <1>11, <1>12, <2>1 DEF ToSet
  <2>3. \E k \in 1..n : order[k] = acc.list[j]
    BY <1>1, <2>1, <2>2 DEF ToSet
  <2>4. j < acc.next
    BY <1>11, <2>3 DEF First
  <2> QED BY <1>11, <2>1, <2>4 DEF First
<1> QED BY <1>9, <1>10, <1>11, <1>12

-----------------------------------------------------------------------------
(* The windows when managers change: none is forgotten, and their order stays. *)

\* where the process is that X redirects to
Current == IF redirect \in Manager THEN stage[redirect] ELSE "off"

SameOrder(q, r, s) == \A v, w \in s : Precedes(q, v, w) <=> Precedes(r, v, w)

OtherTypes ==
    /\ replaces \in [Manager -> BOOLEAN] /\ old \in [Manager -> Manager \cup {"none"}]
    /\ holder \in Manager \cup {"none"} /\ clear \subseteq Manager
    /\ raises \in BOOLEAN /\ ends \in 0..MaxEnds
    /\ before \in [clients : Seq(Window), stack : Seq(Window), clean : BOOLEAN]

Lists == {q \in Seq(Window) : IsInjective(q)}

ListsInv ==
    /\ tree \in Lists /\ saved \in Lists /\ clients \in Lists /\ stack \in Lists /\ toScan \in Lists
    /\ before.clients \in Lists /\ before.stack \in Lists

\* what is on its way, and what was scanned already
SetsInv ==
    /\ mapped \subseteq ToSet(tree) /\ requests \subseteq ToSet(tree) \ mapped
    /\ gone \subseteq ToSet(clients) /\ gone \cap ToSet(tree) = {}
    /\ ToSet(clients) \ gone \subseteq mapped
    /\ ToSet(stack) = ToSet(clients)
    /\ ToSet(toScan) \cap ToSet(clients) = {}

ScanInv ==
    /\ Current \in {"off", "starting"} => clients = <<>>
    /\ Current \in {"off", "running"} => toScan = <<>>
    /\ Current # "off" => mapped \subseteq ToSet(toScan) \cup ToSet(clients)

\* where the order and the stacking of the last manager are kept
OrderInv ==
    before.clean =>
      /\ ToSet(before.clients) = mapped /\ ToSet(before.stack) = mapped
      /\ Current # "running" => /\ mapped \cup ToSet(clients) \subseteq ToSet(saved)
                                /\ SameOrder(before.clients, saved, mapped)
      /\ Current = "running" => SameOrder(before.clients, clients, mapped)
      /\ Current \in {"off", "starting"} => SameOrder(before.stack, tree, mapped)
      /\ Current # "off" /\ raises => SameOrder(before.stack, stack \o toScan, mapped)

WindowInv == ListsInv /\ SetsInv /\ ScanInv /\ OrderInv

TakeOverInv == TakeInv /\ OtherTypes /\ WindowInv

LEMMA ListFacts ==
    /\ \A q \in Lists : q \in Seq(Window) /\ IsInjective(q) /\ ToSet(q) \subseteq Window
    /\ <<>> \in Lists /\ ToSet(<<>>) = {}
    /\ \A q \in Lists : ToSet(q) = {} => q = <<>>
    /\ \A q, v, w : Precedes(q, v, w) => v \in ToSet(q) /\ w \in ToSet(q)
    /\ \A v, w : ~Precedes(<<>>, v, w)
<1>1. \A q \in Lists : q \in Seq(Window) /\ IsInjective(q) /\ ToSet(q) \subseteq Window
  BY DEF Lists, ToSet
<1>2. <<>> \in Lists /\ ToSet(<<>>) = {}
  BY DEF Lists, ToSet, IsInjective
<1>3. ASSUME NEW q \in Lists, ToSet(q) = {} PROVE q = <<>>
  <2>1. q \in Seq(Window) /\ ~ \E i \in DOMAIN q : TRUE
    BY <1>3 DEF Lists, ToSet
  <2> QED BY <2>1
<1>4. \A q, v, w : Precedes(q, v, w) => v \in ToSet(q) /\ w \in ToSet(q)
  BY DEF Precedes, ToSet
<1>5. \A v, w : ~Precedes(<<>>, v, w)
  BY DEF Precedes
<1> QED BY <1>1, <1>2, <1>3, <1>4, <1>5

LEMMA AmongLists ==
    ASSUME NEW q \in Lists, NEW s
    PROVE  /\ Among(q, s) \in Lists /\ ToSet(Among(q, s)) = ToSet(q) \cap s
           /\ \A v, w : Precedes(Among(q, s), v, w) <=> Precedes(q, v, w) /\ v \in s /\ w \in s
BY AmongRight DEF Lists

LEMMA WithoutLists ==
    ASSUME NEW q \in Lists, NEW x
    PROVE  /\ Without(q, x) \in Lists /\ ToSet(Without(q, x)) = ToSet(q) \ {x}
           /\ \A v, w : v # x /\ w # x => (Precedes(Without(q, x), v, w) <=> Precedes(q, v, w))
<1>1. Without(q, x) = Among(q, ToSet(q) \ {x})
  BY DEF Without
<1>2. \A v, w : Precedes(q, v, w) => v \in ToSet(q) /\ w \in ToSet(q)
  BY ListFacts
<1> QED BY <1>1, <1>2, AmongLists

LEMMA JoinLists ==
    ASSUME NEW q \in Lists, NEW r \in Lists, ToSet(q) \cap ToSet(r) = {}
    PROVE  /\ q \o r \in Lists /\ ToSet(q \o r) = ToSet(q) \cup ToSet(r)
           /\ \A v, w : Precedes(q \o r, v, w) <=>
                 Precedes(q, v, w) \/ Precedes(r, v, w) \/ (v \in ToSet(q) /\ w \in ToSet(r))
BY ConcatList DEF Lists

LEMMA SingleList ==
    ASSUME NEW e \in Window
    PROVE  /\ <<e>> \in Lists /\ ToSet(<<e>>) = {e} /\ \A v, w : ~Precedes(<<e>>, v, w)
           /\ \A q \in Lists : Append(q, e) = q \o <<e>>
BY ZenonT(30), OneList DEF Lists

LEMMA HeadList ==
    ASSUME NEW q \in Lists, q # <<>>
    PROVE  /\ Head(q) \in Window /\ Tail(q) \in Lists /\ q = <<Head(q)>> \o Tail(q)
           /\ ToSet(q) = {Head(q)} \cup ToSet(Tail(q)) /\ Head(q) \notin ToSet(Tail(q))
<1>1. /\ q \in Seq(Window) /\ IsInjective(q) /\ Head(q) \in Window /\ Tail(q) \in Seq(Window)
  BY DEF Lists
<1>2. q = <<Head(q)>> \o Tail(q)
  BY <1>1, OneList
<1>3. PICK h, t : h = Head(q) /\ t = Tail(q)
  OBVIOUS
<1>4. /\ <<h>> \in Seq(Window) /\ ToSet(<<h>>) = {h}
  BY <1>1, <1>3, OneList
<1>5. /\ ToSet(<<h>> \o t) = ToSet(<<h>>) \cup ToSet(t)
      /\ IsInjective(<<h>> \o t) => IsInjective(t) /\ ToSet(<<h>>) \cap ToSet(t) = {}
  BY <1>1, <1>3, <1>4, ConcatList
<1> QED BY <1>1, <1>2, <1>3, <1>4, <1>5 DEF Lists

\* of two elements of a list exactly one precedes the other
LEMMA OneWay ==
    ASSUME NEW q \in Lists, NEW v, NEW w, Precedes(q, v, w)
    PROVE  v # w /\ ~Precedes(q, w, v)
<1>1. q \in Seq(Window) /\ \A i, j \in DOMAIN q : q[i] = q[j] => i = j
  BY DEF Lists, IsInjective
<1>2. DOMAIN q \subseteq Nat
  BY <1>1
<1>3. PICK i \in DOMAIN q, j \in DOMAIN q : i < j /\ q[i] = v /\ q[j] = w
  BY DEF Precedes
<1>4. v # w
  BY <1>1, <1>2, <1>3
<1>5. ASSUME Precedes(q, w, v) PROVE FALSE
  <2>1. PICK k \in DOMAIN q, l \in DOMAIN q : k < l /\ q[k] = w /\ q[l] = v
    BY <1>5 DEF Precedes
  <2>2. k = j /\ l = i
    BY <1>1, <1>3, <2>1
  <2> QED BY <1>2, <1>3, <2>1, <2>2
<1> QED BY <1>4, <1>5

LEMMA EitherWay ==
    ASSUME NEW q \in Lists, NEW v \in ToSet(q), NEW w \in ToSet(q), v # w
    PROVE  Precedes(q, v, w) \/ Precedes(q, w, v)
<1>1. q \in Seq(Window)
  BY DEF Lists
<1>2. PICK i \in DOMAIN q, j \in DOMAIN q : q[i] = v /\ q[j] = w
  BY DEF ToSet
<1>3. i < j \/ j < i
  BY <1>1, <1>2
<1> QED BY <1>2, <1>3 DEF Precedes

LEMMA CurrentFacts ==
    ASSUME TakeInv
    PROVE  /\ Current \in {"off", "starting", "scanning", "running"}
           /\ \A p \in Manager : stage[p] \in {"starting", "scanning", "running"} => redirect = p /\ Current = stage[p]
           /\ \A p \in Manager : stage[p] \notin {"starting", "scanning", "running"} => redirect # p
           /\ redirect = "none" => Current = "off"
BY TakeOverAssumption DEF Current, TakeInv, ProcessTypes, OneManager, Phase

\* A process that ends takes what X was about to tell it with it.
LEMMA ClosedWindows ==
    ASSUME TakeInv, OtherTypes, NEW p \in Manager, NEW next \in {"off", "new"}, Closed(p, next)
    PROVE  /\ redirect = p => Current' = "off" /\ requests' = {} /\ gone' = {}
           /\ redirect # p => Current' = Current /\ UNCHANGED <<requests, gone>>
           /\ old' \in [Manager -> Manager \cup {"none"}] /\ holder' \in Manager \cup {"none"}
           /\ clear' \subseteq Manager
<1>1. ASSUME redirect = p PROVE Current' = "off" /\ requests' = {} /\ gone' = {}
  <2>1. redirect' = "none" /\ requests' = {} /\ gone' = {}
    BY <1>1 DEF Closed
  <2>2. "none" \notin Manager
    BY TakeOverAssumption
  <2> QED BY <1>1, <2>1, <2>2 DEF Current
<1>2. ASSUME redirect # p PROVE Current' = Current /\ UNCHANGED <<requests, gone>>
  <2>1. redirect' = redirect /\ UNCHANGED <<requests, gone>>
    BY <1>2 DEF Closed
  <2>2. \A q \in Manager : q # p => stage'[q] = stage[q]
    BY DEF Closed, TakeInv, ProcessTypes
  <2> QED BY <1>2, <2>1, <2>2 DEF Current
<1>3. /\ old' \in [Manager -> Manager \cup {"none"}] /\ holder' \in Manager \cup {"none"}
      /\ clear' \subseteq Manager
  <2>1. old' \in [Manager -> Manager \cup {"none"}]
    <3>1. old' = [q \in Manager |-> IF q = p \/ old[q] = p THEN "none" ELSE old[q]]
      BY DEF Closed
    <3>2. \A q \in Manager : old[q] \in Manager \cup {"none"}
      BY DEF OtherTypes
    <3> QED BY <3>1, <3>2
  <2>2. holder' \in Manager \cup {"none"} /\ clear' \subseteq Manager
    BY DEF Closed, OtherTypes
  <2> QED BY <2>1, <2>2
<1> QED BY <1>1, <1>2, <1>3

LEMMA QuietWindows ==
    ASSUME WindowInv, UNCHANGED <<windowVars, toScan, requests, gone>>, Current' = Current
    PROVE  WindowInv'
BY DEF WindowInv, ListsInv, SetsInv, ScanInv, OrderInv, SameOrder, Lists

\* Steps before the redirection change nothing of the windows.
LEMMA EarlyWindows ==
    ASSUME TakeOverInv, NEW p \in Manager,
           FindOwner(p) \/ Claim(p) \/ (\E b \in BOOLEAN : Start(p, b)) \/ (Redirect(p) /\ redirect # "none")
    PROVE  WindowInv'
<1>1. redirect # p
  BY CurrentFacts DEF TakeOverInv, FindOwner, Claim, Start, Redirect
<1>2. ASSUME NEW next, stage' = [stage EXCEPT ![p] = next], redirect' = redirect PROVE Current' = Current
  <2>1. \A q \in Manager : q # p => stage'[q] = stage[q]
    BY <1>2 DEF TakeOverInv, TakeInv, ProcessTypes
  <2> QED BY <1>1, <1>2, <2>1 DEF Current
<1>3. ASSUME NEW next \in {"off", "new"}, Closed(p, next) PROVE Current' = Current /\ UNCHANGED <<requests, gone>>
  BY <1>1, <1>3, ClosedWindows DEF TakeOverInv
<1>4. Current' = Current /\ UNCHANGED <<requests, gone, toScan, windowVars>>
  <2>1. CASE FindOwner(p)
    BY <1>2, <1>3, <2>1 DEF FindOwner
  <2>2. CASE Claim(p)
    BY <1>2, <2>2 DEF Claim
  <2>3. CASE \E b \in BOOLEAN : Start(p, b)
    BY <1>2, <2>3 DEF Start
  <2>4. CASE Redirect(p) /\ redirect # "none"
    BY <1>3, <2>4 DEF Redirect
  <2> QED BY <2>1, <2>2, <2>3, <2>4
<1> QED BY <1>4, QuietWindows DEF TakeOverInv

\* The manager gets the redirection, and the windows that are there.
LEMMA RedirectWindows ==
    ASSUME TakeOverInv, NEW p \in Manager, Redirect(p), redirect = "none"
    PROVE  WindowInv'
<1>1. Current = "off" /\ clients = <<>> /\ stack = <<>>
  BY CurrentFacts, ListFacts DEF TakeOverInv, WindowInv, ScanInv, SetsInv, ListsInv
<1>2. Current' = "starting" /\ toScan' = tree /\ UNCHANGED <<requests, gone, windowVars>>
  BY DEF Redirect, Current, TakeOverInv, TakeInv, ProcessTypes
<1>3. ListsInv' /\ SetsInv' /\ ScanInv'
  BY <1>1, <1>2, ListFacts DEF TakeOverInv, WindowInv, ListsInv, SetsInv, ScanInv, Lists
<1>4. OrderInv'
  <2>1. stack' \o toScan' = tree
    BY <1>1, <1>2 DEF TakeOverInv, WindowInv, ListsInv, Lists
  <2> QED BY <1>1, <1>2, <2>1 DEF TakeOverInv, WindowInv, OrderInv, SameOrder
<1> QED BY <1>3, <1>4 DEF WindowInv

LEMMA ParseWindows ==
    ASSUME TakeOverInv, NEW p \in Manager, NEW b \in BOOLEAN, ParseRc(p, b)
    PROVE  WindowInv'
<1>1. /\ Current = "starting" /\ redirect = p /\ clients = <<>> /\ stack = <<>> /\ gone = {}
      /\ UNCHANGED windowVars
  BY CurrentFacts, ListFacts DEF TakeOverInv, WindowInv, ScanInv, SetsInv, ListsInv, ParseRc
<1>2. CASE b
  <2>1. Current' = "scanning" /\ UNCHANGED <<requests, gone, toScan>>
    BY <1>1, <1>2 DEF ParseRc, Current, TakeOverInv, TakeInv, ProcessTypes
  <2> QED BY <1>1, <2>1 DEF TakeOverInv, WindowInv, ListsInv, SetsInv, ScanInv, OrderInv, SameOrder, Lists
<1>3. CASE ~b
  <2>1. Current' = "off" /\ requests' = {} /\ gone' = {} /\ toScan' = <<>>
    BY <1>1, <1>3, ClosedWindows DEF ParseRc, TakeOverInv
  <2> QED BY <1>1, <2>1, ListFacts
        DEF TakeOverInv, WindowInv, ListsInv, SetsInv, ScanInv, OrderInv, SameOrder, Lists
<1> QED BY <1>2, <1>3

\* A new client is the first of them, the lowest or the highest.
LEMMA ManagedLists ==
    ASSUME WindowInv, NEW w \in Window \ ToSet(clients), Managed(w)
    PROVE  /\ clients' \in Lists /\ ToSet(clients') = ToSet(clients) \cup {w}
           /\ stack' \in Lists /\ ToSet(stack') = ToSet(stack) \cup {w}
           /\ raises => stack' = stack \o <<w>>
<1>1. <<w>> \in Lists /\ ToSet(<<w>>) = {w} /\ Append(stack, w) = stack \o <<w>>
  BY SingleList DEF WindowInv, ListsInv
<1>2. clients \in Lists /\ stack \in Lists /\ w \notin ToSet(clients) /\ w \notin ToSet(stack)
  BY DEF WindowInv, ListsInv, SetsInv
<1>3. clients' = <<w>> \o clients /\ stack' = IF raises THEN stack \o <<w>> ELSE <<w>> \o stack
  BY <1>1 DEF Managed
<1>4. <<w>> \o clients \in Lists /\ ToSet(<<w>> \o clients) = {w} \cup ToSet(clients)
  BY <1>1, <1>2, JoinLists
<1>5. <<w>> \o stack \in Lists /\ ToSet(<<w>> \o stack) = {w} \cup ToSet(stack)
  BY <1>1, <1>2, JoinLists
<1>6. stack \o <<w>> \in Lists /\ ToSet(stack \o <<w>>) = ToSet(stack) \cup {w}
  BY <1>1, <1>2, JoinLists
<1> QED BY <1>3, <1>4, <1>5, <1>6

LEMMA ScanOneWindows ==
    ASSUME TakeOverInv, NEW p \in Manager, ScanOne(p)
    PROVE  WindowInv'
<1>1. PICK h, t : h = Head(toScan) /\ t = Tail(toScan)
  OBVIOUS
<1>2. /\ Current = "scanning" /\ Current' = Current /\ toScan' = t
      /\ UNCHANGED <<requests, gone, tree, mapped, saved, raises, before>>
      /\ IF Manageable(h) THEN Managed(h) ELSE UNCHANGED <<clients, stack>>
  BY <1>1, CurrentFacts DEF ScanOne, TakeOverInv, Current
<1>3. /\ h \in Window /\ t \in Lists /\ toScan = <<h>> \o t
      /\ ToSet(toScan) = {h} \cup ToSet(t) /\ h \notin ToSet(t)
  BY <1>1, HeadList DEF ScanOne, TakeOverInv, WindowInv, ListsInv
<1>4. Manageable(h) <=> h \in mapped
  BY DEF Manageable, TakeOverInv, WindowInv, SetsInv
<1>5. /\ ToSet(toScan) \cap ToSet(clients) = {} /\ ToSet(stack) = ToSet(clients)
      /\ clients \in Lists /\ stack \in Lists /\ toScan \in Lists
  BY DEF TakeOverInv, WindowInv, SetsInv, ListsInv
<1>6. CASE h \in mapped
  <2>1. /\ clients' \in Lists /\ ToSet(clients') = ToSet(clients) \cup {h}
        /\ stack' \in Lists /\ ToSet(stack') = ToSet(stack) \cup {h}
        /\ raises => stack' = stack \o <<h>>
    <3>1. h \in Window \ ToSet(clients) /\ Managed(h)
      BY <1>2, <1>3, <1>4, <1>5, <1>6
    <3> QED BY <3>1, ManagedLists DEF TakeOverInv
  <2>2. ListsInv' /\ SetsInv' /\ ScanInv'
    BY <1>2, <1>3, <1>5, <1>6, <2>1 DEF TakeOverInv, WindowInv, ListsInv, SetsInv, ScanInv
  <2>3. raises => stack' \o t = stack \o toScan
    <3>1. stack \in Seq(Window) /\ t \in Seq(Window) /\ <<h>> \in Seq(Window)
      BY <1>3, <1>5 DEF Lists
    <3>2. stack \o <<h>> \o t = stack \o (<<h>> \o t)
      BY <3>1
    <3> QED BY <1>3, <2>1, <3>2
  <2>4. OrderInv'
    BY <1>2, <1>6, <2>1, <2>3 DEF TakeOverInv, WindowInv, OrderInv, SameOrder
  <2> QED BY <2>2, <2>4 DEF WindowInv
<1>7. CASE h \notin mapped
  <2>1. UNCHANGED <<clients, stack>>
    BY <1>2, <1>4, <1>7
  <2>2. ListsInv' /\ SetsInv' /\ ScanInv'
    BY <1>2, <1>3, <1>5, <1>7, <2>1 DEF TakeOverInv, WindowInv, ListsInv, SetsInv, ScanInv
  <2>3. \A v, w : v # h /\ w # h => (Precedes(stack \o toScan, v, w) <=> Precedes(stack \o t, v, w))
    <3>1. <<h>> \in Lists /\ ToSet(<<h>>) = {h} /\ \A v, w : ~Precedes(<<h>>, v, w)
      BY <1>3, SingleList
    <3>2. \A v, w : Precedes(stack \o toScan, v, w) <=>
             Precedes(stack, v, w) \/ Precedes(toScan, v, w) \/ (v \in ToSet(stack) /\ w \in ToSet(toScan))
      BY <1>5, JoinLists
    <3>3. \A v, w : Precedes(toScan, v, w) <=> Precedes(t, v, w) \/ (v = h /\ w \in ToSet(t))
      <4>1. \A v, w : Precedes(<<h>> \o t, v, w) <=>
               Precedes(<<h>>, v, w) \/ Precedes(t, v, w) \/ (v \in ToSet(<<h>>) /\ w \in ToSet(t))
        BY <1>3, <3>1, JoinLists
      <4> QED BY <1>3, <3>1, <4>1
    <3>4. \A v, w : Precedes(stack \o t, v, w) <=>
             Precedes(stack, v, w) \/ Precedes(t, v, w) \/ (v \in ToSet(stack) /\ w \in ToSet(t))
      <4>1. ToSet(stack) \cap ToSet(t) = {}
        BY <1>3, <1>5
      <4> QED BY <1>3, <1>5, <4>1, JoinLists
    <3> QED BY <1>3, <3>2, <3>3, <3>4
  <2>4. OrderInv'
    BY <1>2, <1>7, <2>1, <2>3 DEF TakeOverInv, WindowInv, OrderInv, SameOrder
  <2> QED BY <2>2, <2>4 DEF WindowInv
<1> QED BY <1>6, <1>7

LEMMA ScannedWindows ==
    ASSUME TakeOverInv, NEW p \in Manager, Scanned(p)
    PROVE  WindowInv'
<1>1. /\ Current = "scanning" /\ redirect = p /\ toScan = <<>> /\ clients' = RestoreOrder(clients, saved)
      /\ saved' = <<>> /\ UNCHANGED <<toScan, requests, gone, tree, mapped, stack, raises, before>>
  BY CurrentFacts DEF Scanned, TakeOverInv
<1>2. Current' = "running"
  BY <1>1 DEF Scanned, Current, TakeOverInv, TakeInv, ProcessTypes
<1>3. /\ clients' \in Lists /\ ToSet(clients') = ToSet(clients)
      /\ ToSet(clients) \subseteq ToSet(saved) =>
            \A v, w : Precedes(clients', v, w) => Precedes(saved, v, w)
  BY <1>1, RestoreRight DEF TakeOverInv, WindowInv, ListsInv, Lists
<1>4. ListsInv' /\ SetsInv' /\ ScanInv'
  BY <1>1, <1>2, <1>3, ListFacts DEF TakeOverInv, WindowInv, ListsInv, SetsInv, ScanInv
<1>5. ASSUME before.clean PROVE SameOrder(before.clients, clients', mapped)
  <2>1. /\ ToSet(clients) \subseteq ToSet(saved) /\ SameOrder(before.clients, saved, mapped)
        /\ mapped \subseteq ToSet(clients') /\ saved \in Lists
    BY <1>1, <1>3, <1>5, ListFacts DEF TakeOverInv, WindowInv, OrderInv, ScanInv, ListsInv
  <2>2. \A v, w : Precedes(clients', v, w) => Precedes(saved, v, w)
    BY <1>3, <2>1
  <2>3. ASSUME NEW v \in mapped, NEW w \in mapped, Precedes(saved, v, w) PROVE Precedes(clients', v, w)
    <3>1. v \in ToSet(clients') /\ w \in ToSet(clients')
      BY <2>1
    <3>2. v # w /\ ~Precedes(saved, w, v)
      BY <2>1, <2>3, OneWay
    <3> QED BY <1>3, <2>2, <3>1, <3>2, EitherWay
  <2> QED BY <2>1, <2>2, <2>3 DEF SameOrder
<1>6. OrderInv'
  BY <1>1, <1>2, <1>5 DEF TakeOverInv, WindowInv, OrderInv, SameOrder
<1> QED BY <1>4, <1>6 DEF WindowInv

\* a manager that runs has nothing left to scan
LEMMA RunsNow ==
    ASSUME TakeOverInv, NEW p \in Manager, stage[p] = "running"
    PROVE  redirect = p /\ Current = "running" /\ toScan = <<>> /\ ToSet(toScan) = {}
BY CurrentFacts, ListFacts DEF TakeOverInv, WindowInv, ScanInv

\* when the last manager did not end well, or its order was changed since
LEMMA NotClean == ASSUME before'.clean = FALSE PROVE OrderInv'
BY DEF OrderInv

LEMMA RequestWindows ==
    ASSUME TakeOverInv, NEW p \in Manager, NEW w \in Window, TakeMapRequest(p, w)
    PROVE  WindowInv'
<1>1. /\ Current = "running" /\ toScan = <<>> /\ ToSet(toScan) = {} /\ w \in requests /\ Managed(w)
      /\ requests' = requests \ {w} /\ mapped' = mapped \cup {w}
      /\ UNCHANGED <<stage, redirect, tree, gone, saved, toScan>>
      /\ before' = [before EXCEPT !.clean = FALSE]
  BY RunsNow DEF TakeMapRequest
<1>2. Current' = Current
  BY <1>1 DEF Current
<1>3. w \in Window \ ToSet(clients)
  BY <1>1 DEF TakeOverInv, WindowInv, SetsInv
<1>4. /\ clients' \in Lists /\ ToSet(clients') = ToSet(clients) \cup {w}
      /\ stack' \in Lists /\ ToSet(stack') = ToSet(stack) \cup {w}
  BY <1>1, <1>3, ManagedLists DEF TakeOverInv
<1>5. before'.clean = FALSE /\ before'.clients = before.clients /\ before'.stack = before.stack
  BY <1>1 DEF TakeOverInv, OtherTypes
<1>6. ListsInv' /\ SetsInv' /\ ScanInv'
  BY <1>1, <1>2, <1>4, <1>5 DEF TakeOverInv, WindowInv, ListsInv, SetsInv, ScanInv
<1> QED BY <1>5, <1>6, NotClean DEF WindowInv

\* Lua changes the order of the clients or raises one: the same windows in another order.
LEMMA ReverseLists ==
    ASSUME NEW q \in Lists
    PROVE  Reverse(q) \in Lists /\ ToSet(Reverse(q)) = ToSet(q)
<1> DEFINE n == Len(q)
           r == Reverse(q)
           back(i) == n - i + 1
<1>1. n \in Nat /\ DOMAIN q = 1..n /\ q \in Seq(Window) /\ \A i \in 1..n : q[i] \in Window
  BY DEF Lists
<1>2. \A i, j \in 1..n : q[i] = q[j] => i = j
  BY <1>1 DEF Lists, IsInjective
<1>3. r = [i \in 1..n |-> q[back(i)]]
  BY DEF Reverse
<1> HIDE DEF n, r
<1>4. /\ \A i \in 1..n : back(i) \in 1..n /\ back(back(i)) = i
      /\ \A i, j \in 1..n : back(i) = back(j) => i = j
  BY <1>1
<1> HIDE DEF back
<1>5. r \in [1..n -> Window] /\ DOMAIN r = 1..n /\ \A i \in 1..n : r[i] = q[back(i)]
  BY <1>1, <1>3, <1>4
<1>6. r \in Seq(Window)
  BY <1>1, <1>5
<1>7. IsInjective(r)
  BY <1>2, <1>4, <1>5 DEF IsInjective
<1>8. ToSet(r) = ToSet(q)
  <2>1. \A i \in 1..n : r[i] \in ToSet(q)
    BY <1>1, <1>4, <1>5 DEF ToSet
  <2>2. \A i \in 1..n : q[i] = r[back(i)]
    BY <1>4, <1>5
  <2>3. \A i \in 1..n : q[i] \in ToSet(r)
    BY <1>4, <1>5, <2>2 DEF ToSet
  <2> QED BY <1>1, <1>5, <2>1, <2>3 DEF ToSet
<1> QED BY <1>6, <1>7, <1>8 DEF Lists, r

LEMMA LuaWindows ==
    ASSUME TakeOverInv, NEW p \in Manager, Swap(p) \/ \E w \in Window : Raise(p, w)
    PROVE  WindowInv'
<1>1. /\ Current = "running" /\ toScan = <<>>
      /\ UNCHANGED <<stage, redirect, tree, mapped, requests, gone, saved, toScan>>
      /\ before' = [before EXCEPT !.clean = FALSE]
  BY RunsNow DEF Swap, Raise
<1>2. Current' = Current
  BY <1>1 DEF Current
<1>3. before'.clean = FALSE /\ before'.clients = before.clients /\ before'.stack = before.stack
  BY <1>1 DEF TakeOverInv, OtherTypes
<1>4. clients \in Lists /\ stack \in Lists
  BY DEF TakeOverInv, WindowInv, ListsInv
<1>5. /\ clients' \in Lists /\ ToSet(clients') = ToSet(clients)
      /\ stack' \in Lists /\ ToSet(stack') = ToSet(stack)
  <2>1. CASE Swap(p)
    BY <1>4, <2>1, ReverseLists DEF Swap
  <2>2. ASSUME NEW w \in Window, Raise(p, w)
        PROVE  clients' = clients /\ stack' \in Lists /\ ToSet(stack') = ToSet(stack)
    <3>1. PICK q : q = Without(stack, w)
      OBVIOUS
    <3>2. q \in Lists /\ ToSet(q) = ToSet(stack) \ {w}
      BY <1>4, <3>1, WithoutLists
    <3>3. stack' = q \o <<w>> /\ clients' = clients /\ w \in ToSet(stack)
      BY <2>2, <3>1, <3>2, SingleList DEF Raise
    <3>4. <<w>> \in Lists /\ ToSet(<<w>>) = {w}
      BY SingleList
    <3>5. q \o <<w>> \in Lists /\ ToSet(q \o <<w>>) = ToSet(q) \cup {w}
      BY <3>2, <3>4, JoinLists
    <3> QED BY <3>2, <3>3, <3>5
  <2> QED BY <1>4, <2>1, <2>2
<1>6. ListsInv' /\ SetsInv' /\ ScanInv'
  BY <1>1, <1>2, <1>3, <1>5, ListFacts DEF TakeOverInv, WindowInv, ListsInv, SetsInv, ScanInv
<1> QED BY <1>3, <1>6, NotClean DEF WindowInv

\* The windows of the clients go back into the root window, the others stay.
LEMMA BackFacts ==
    ASSUME WindowInv
    PROVE  /\ InFrames \in Lists /\ ToSet(InFrames) = ToSet(tree) \ ToSet(stack)
           /\ BackByStack \in Lists /\ ToSet(BackByStack) = ToSet(stack) \cap ToSet(tree)
           /\ \A v, w : Precedes(BackByStack, v, w) <=>
                 Precedes(stack, v, w) /\ v \in ToSet(tree) /\ w \in ToSet(tree)
BY AmongLists DEF InFrames, BackByStack, WindowInv, ListsInv

\* of a manager that has scanned, the clients that are still there are the mapped windows
LEMMA AllManaged ==
    ASSUME WindowInv, Current = "running"
    PROVE  ToSet(clients) \ gone = mapped /\ ToSet(clients) \cap ToSet(tree) = mapped
<1>1. toScan = <<>> /\ ToSet(toScan) = {}
  BY ListFacts DEF WindowInv, ScanInv
<1> QED BY <1>1 DEF WindowInv, ScanInv, SetsInv

LEMMA EndWindows ==
    ASSUME TakeOverInv, NEW p \in Manager, NEW again \in BOOLEAN, Quit(p, again)
    PROVE  WindowInv'
<1>1. /\ Current = "running" /\ redirect = p /\ toScan = <<>>
      /\ tree' = InFrames \o BackByStack /\ saved' = clients
      /\ before' = [clients |-> Among(clients, ToSet(tree)), stack |-> BackByStack, clean |-> TRUE]
      /\ clients' = <<>> /\ stack' = <<>> /\ UNCHANGED <<mapped, toScan, raises>>
  BY RunsNow DEF Quit
<1>2. Current' = "off" /\ requests' = {} /\ gone' = {}
  BY <1>1, ClosedWindows DEF Quit, TakeOverInv
<1>3. /\ InFrames \in Lists /\ ToSet(InFrames) = ToSet(tree) \ ToSet(stack)
      /\ BackByStack \in Lists /\ ToSet(BackByStack) = ToSet(stack) \cap ToSet(tree)
  BY BackFacts DEF TakeOverInv
<1>4. /\ tree' \in Lists /\ ToSet(tree') = ToSet(tree)
      /\ \A v, w : Precedes(tree', v, w) <=> Precedes(InFrames, v, w) \/ Precedes(BackByStack, v, w)
                                             \/ (v \in ToSet(InFrames) /\ w \in ToSet(BackByStack))
  <2>1. PICK q, r : q = InFrames /\ r = BackByStack
    OBVIOUS
  <2>2. q \in Lists /\ r \in Lists /\ ToSet(q) \cap ToSet(r) = {} /\ ToSet(q) \cup ToSet(r) = ToSet(tree)
    BY <1>3, <2>1
  <2>3. /\ q \o r \in Lists /\ ToSet(q \o r) = ToSet(q) \cup ToSet(r)
        /\ \A v, w : Precedes(q \o r, v, w) <=>
              Precedes(q, v, w) \/ Precedes(r, v, w) \/ (v \in ToSet(q) /\ w \in ToSet(r))
    BY <2>2, JoinLists
  <2> QED BY <1>1, <2>1, <2>2, <2>3
<1>5. ToSet(clients) \cap ToSet(tree) = mapped /\ ToSet(stack) = ToSet(clients) /\ clients \in Lists
      /\ mapped \subseteq ToSet(tree)
  BY <1>1, AllManaged DEF TakeOverInv, WindowInv, SetsInv, ListsInv
<1>6. /\ before'.clients \in Lists /\ ToSet(before'.clients) = mapped
      /\ \A v, w : Precedes(before'.clients, v, w) <=>
            Precedes(clients, v, w) /\ v \in ToSet(tree) /\ w \in ToSet(tree)
      /\ before'.stack = BackByStack /\ ToSet(BackByStack) = mapped
  <2>1. before'.clients = Among(clients, ToSet(tree)) /\ before'.stack = BackByStack
    BY <1>1
  <2>2. PICK s : s = ToSet(tree)
    OBVIOUS
  <2>3. /\ Among(clients, s) \in Lists /\ ToSet(Among(clients, s)) = ToSet(clients) \cap s
        /\ \A v, w : Precedes(Among(clients, s), v, w) <=> Precedes(clients, v, w) /\ v \in s /\ w \in s
    BY <1>5, AmongLists
  <2>4. ToSet(BackByStack) = mapped
    BY <1>3, <1>5
  <2> QED BY <2>1, <2>2, <2>3, <2>4, <1>5
<1>7. ListsInv'
  BY <1>1, <1>3, <1>4, <1>5, <1>6, ListFacts DEF TakeOverInv, WindowInv, ListsInv
<1>8. SetsInv' /\ ScanInv'
  BY <1>1, <1>2, <1>4, <1>5, ListFacts DEF TakeOverInv, WindowInv, SetsInv, ScanInv
<1>9. OrderInv'
  <2>1. \A v, w \in mapped : /\ v \in ToSet(tree) /\ w \in ToSet(tree)
                             /\ v \notin ToSet(InFrames) /\ w \notin ToSet(InFrames)
    BY <1>3, <1>5
  <2>2. SameOrder(before'.clients, saved', mapped)
    BY <1>1, <1>6, <2>1 DEF SameOrder
  <2>3. SameOrder(before'.stack, tree', mapped)
    <3>1. \A v, w : Precedes(InFrames, v, w) => v \in ToSet(InFrames)
      BY <1>3, ListFacts
    <3> QED BY <1>4, <1>6, <2>1, <3>1 DEF SameOrder
  <2>4. mapped \cup ToSet(clients') \subseteq ToSet(saved')
    BY <1>1, <1>5, ListFacts
  <2> QED BY <1>1, <1>2, <1>6, <2>2, <2>3, <2>4 DEF OrderInv
<1> QED BY <1>7, <1>8, <1>9 DEF WindowInv

\* a list of some elements of a list that is as long as it has them all
LEMMA AnyOrder ==
    ASSUME NEW q \in Lists, NEW l \in SetToAllKPermutations(ToSet(q)), Len(l) = Len(q)
    PROVE  l \in Lists /\ ToSet(l) = ToSet(q)
<1> DEFINE n == Len(q)
<1>1. n \in Nat /\ DOMAIN q = 1..n /\ ToSet(q) \subseteq Window /\ q \in Seq(Window)
  BY DEF Lists, ToSet
<1>2. IsFiniteSet(1..n) /\ Cardinality(1..n) = n
  <2>1. \A k \in Nat : IsFiniteSet(1..k) /\ Cardinality(1..k) = k
    <3>1. ASSUME NEW k \in Nat PROVE IsFiniteSet(1..k) /\ Cardinality(1..k) = k
      <4>1. /\ IsFiniteSet(1..k)
            /\ Cardinality(1..k) = IF 1 > k THEN 0 ELSE k - 1 + 1
        BY FS_Interval
      <4> QED BY <4>1
    <3> QED BY <3>1
  <2> QED BY <1>1, <2>1
<1>3. PICK s \in SUBSET ToSet(q) : l \in SetToSeqs(s)
  BY DEF SetToAllKPermutations
<1>4. IsFiniteSet(ToSet(q)) /\ Cardinality(ToSet(q)) = n
  <2>1. q \in Bijection(1..n, ToSet(q))
    BY <1>1 DEF Lists, Bijection, Injection, Surjection, ToSet
  <2> QED BY <1>2, <2>1, FS_Bijection DEF ExistsBijection
<1>5. IsFiniteSet(s) /\ Cardinality(s) \in Nat
  BY <1>4, FS_Subset, FS_CardinalityType
<1>6. l \in [1..Cardinality(s) -> s] /\ \A i, j \in 1..Cardinality(s) : i # j => l[i] # l[j]
  BY <1>3 DEF SetToSeqs
<1>7. Cardinality(s) = n
  <2>1. Len(l) = Cardinality(s)
    BY <1>5, <1>6
  <2> QED BY <2>1
<1> HIDE DEF n
<1>8. l \in [1..n -> s] /\ \A i, j \in 1..n : i # j => l[i] # l[j]
  BY <1>6, <1>7
<1>9. s = ToSet(q)
  BY <1>4, <1>7, FS_Subset
<1>10. l \in Injection(1..n, s)
  BY <1>8 DEF Injection, IsInjective
<1>11. l \in Surjection(1..n, s)
  BY <1>2, <1>5, <1>7, <1>10, FS_Injection
<1>12. ToSet(l) = s
  BY <1>8, <1>11 DEF Surjection, ToSet
<1>13. l \in Seq(Window)
  <2>1. l \in [1..n -> Window]
    BY <1>1, <1>8, <1>9
  <2> QED BY <1>1, <2>1
<1> QED BY <1>9, <1>10, <1>12, <1>13 DEF Lists, Injection

LEMMA CrashWindows ==
    ASSUME TakeOverInv, NEW p \in Manager, Crash(p)
    PROVE  WindowInv'
<1>1. /\ redirect = p /\ before' = [before EXCEPT !.clean = FALSE]
      /\ clients' = <<>> /\ stack' = <<>> /\ toScan' = <<>> /\ UNCHANGED <<mapped, saved, raises>>
  BY CurrentFacts DEF Crash, TakeOverInv
<1>2. Current' = "off" /\ requests' = {} /\ gone' = {}
  BY <1>1, ClosedWindows DEF Crash, TakeOverInv
<1>3. /\ InFrames \in Lists /\ ToSet(InFrames) = ToSet(tree) \ ToSet(stack)
      /\ BackByStack \in Lists /\ ToSet(BackByStack) = ToSet(stack) \cap ToSet(tree)
  BY BackFacts DEF TakeOverInv
<1>4. tree' \in Lists /\ ToSet(tree') = ToSet(tree)
  <2>1. PICK q : q = BackByStack
    OBVIOUS
  <2>2. PICK l \in SetToAllKPermutations(ToSet(q)) : Len(l) = Len(q) /\ tree' = InFrames \o l
    BY <2>1 DEF Crash
  <2>3. l \in Lists /\ ToSet(l) = ToSet(q)
    BY <1>3, <2>1, <2>2, AnyOrder
  <2>4. PICK r : r = InFrames
    OBVIOUS
  <2>5. r \o l \in Lists /\ ToSet(r \o l) = ToSet(r) \cup ToSet(l)
    BY <1>3, <2>1, <2>3, <2>4, JoinLists
  <2> QED BY <1>3, <2>1, <2>2, <2>3, <2>4, <2>5
<1>5. before'.clean = FALSE /\ before'.clients = before.clients /\ before'.stack = before.stack
  BY <1>1 DEF TakeOverInv, OtherTypes
<1>6. ListsInv' /\ SetsInv' /\ ScanInv'
  BY <1>1, <1>2, <1>4, <1>5, ListFacts DEF TakeOverInv, WindowInv, ListsInv, SetsInv, ScanInv
<1> QED BY <1>5, <1>6, NotClean DEF WindowInv

LEMMA CreateWindows ==
    ASSUME TakeOverInv, NEW w \in Window, Create(w)
    PROVE  WindowInv'
<1>1. /\ w \notin ToSet(tree) \cup gone
      /\ UNCHANGED <<stage, redirect, mapped, requests, gone, saved, clients, stack, toScan, raises, before>>
  BY DEF Create
<1>2. Current' = Current
  BY <1>1 DEF Current
<1>3. tree \in Lists /\ tree' = tree \o <<w>> /\ <<w>> \in Lists /\ ToSet(<<w>>) = {w}
      /\ \A u, v : ~Precedes(<<w>>, u, v)
  BY SingleList DEF Create, TakeOverInv, WindowInv, ListsInv
<1>4. /\ tree' \in Lists /\ ToSet(tree') = ToSet(tree) \cup {w}
      /\ \A u, v : Precedes(tree', u, v) <=> Precedes(tree, u, v) \/ (u \in ToSet(tree) /\ v = w)
  <2>1. PICK r : r = <<w>>
    OBVIOUS
  <2>2. /\ tree \o r \in Lists /\ ToSet(tree \o r) = ToSet(tree) \cup ToSet(r)
        /\ \A u, v : Precedes(tree \o r, u, v) <=>
              Precedes(tree, u, v) \/ Precedes(r, u, v) \/ (u \in ToSet(tree) /\ v \in ToSet(r))
    BY <1>1, <1>3, <2>1, JoinLists
  <2> QED BY <1>3, <2>1, <2>2
<1>5. ListsInv' /\ SetsInv' /\ ScanInv'
  BY <1>1, <1>2, <1>4 DEF TakeOverInv, WindowInv, ListsInv, SetsInv, ScanInv
<1>6. OrderInv'
  <2>1. w \notin mapped
    BY <1>1 DEF TakeOverInv, WindowInv, SetsInv
  <2>2. \A u, v \in mapped : Precedes(tree', u, v) <=> Precedes(tree, u, v)
    BY <1>4, <2>1
  <2> QED BY <1>1, <1>2, <2>2 DEF TakeOverInv, WindowInv, OrderInv, SameOrder
<1> QED BY <1>5, <1>6 DEF WindowInv

LEMMA MapWindows ==
    ASSUME TakeOverInv, NEW w \in Window, Map(w)
    PROVE  WindowInv'
<1>1. /\ w \in ToSet(tree) \ (mapped \cup requests) /\ before' = [before EXCEPT !.clean = FALSE]
      /\ UNCHANGED <<stage, redirect, tree, gone, saved, clients, stack, toScan, raises>>
  BY DEF Map
<1>2. Current' = Current
  BY <1>1 DEF Current
<1>3. before'.clean = FALSE /\ before'.clients = before.clients /\ before'.stack = before.stack
  BY <1>1 DEF TakeOverInv, OtherTypes
<1>4. \/ Current = "off" /\ mapped' = mapped \cup {w} /\ requests' = requests
      \/ requests' = requests \cup {w} /\ mapped' = mapped
  BY CurrentFacts DEF Map, TakeOverInv
<1>5. ListsInv'
  BY <1>1, <1>3 DEF TakeOverInv, WindowInv, ListsInv
<1>6. SetsInv' /\ ScanInv'
  BY <1>1, <1>2, <1>4 DEF TakeOverInv, WindowInv, SetsInv, ScanInv
<1> QED BY <1>3, <1>5, <1>6, NotClean DEF WindowInv

LEMMA DestroyWindows ==
    ASSUME TakeOverInv, NEW w \in Window, Destroy(w)
    PROVE  WindowInv'
<1>1. /\ mapped' = mapped \ {w} /\ requests' = requests \ {w}
      /\ gone' = (IF w \in ToSet(clients) THEN gone \cup {w} ELSE gone)
      /\ UNCHANGED <<stage, redirect, saved, clients, stack, toScan, raises>>
  BY DEF Destroy
<1>2. Current' = Current
  BY <1>1 DEF Current
<1>3. PICK q, r, t : q = before.clients /\ r = before.stack /\ t = tree
  OBVIOUS
<1>4. q \in Lists /\ r \in Lists /\ t \in Lists
  BY <1>3 DEF TakeOverInv, WindowInv, ListsInv
<1>5. /\ tree' = Without(t, w) /\ before'.clients = Without(q, w) /\ before'.stack = Without(r, w)
      /\ before'.clean = before.clean
  BY <1>3 DEF Destroy, TakeOverInv, OtherTypes
<1>6. /\ tree' \in Lists /\ ToSet(tree') = ToSet(t) \ {w}
      /\ before'.clients \in Lists /\ ToSet(before'.clients) = ToSet(q) \ {w}
      /\ before'.stack \in Lists /\ ToSet(before'.stack) = ToSet(r) \ {w}
  BY <1>4, <1>5, WithoutLists
<1>7. \A u, v : u # w /\ v # w =>
          /\ Precedes(tree', u, v) <=> Precedes(t, u, v)
          /\ Precedes(before'.clients, u, v) <=> Precedes(q, u, v)
          /\ Precedes(before'.stack, u, v) <=> Precedes(r, u, v)
  BY <1>4, <1>5, WithoutLists
<1>8. ListsInv'
  BY <1>1, <1>6 DEF TakeOverInv, WindowInv, ListsInv
<1>9. SetsInv' /\ ScanInv'
  BY <1>1, <1>2, <1>3, <1>6 DEF TakeOverInv, WindowInv, SetsInv, ScanInv
<1>10. OrderInv'
  <2>1. w \notin mapped'
    BY <1>1
  <2>2. \A u, v \in mapped' :
          /\ u \in mapped /\ v \in mapped
          /\ Precedes(tree', u, v) <=> Precedes(t, u, v)
          /\ Precedes(before'.clients, u, v) <=> Precedes(q, u, v)
          /\ Precedes(before'.stack, u, v) <=> Precedes(r, u, v)
    BY <1>1, <1>7, <2>1
  <2>3. SUFFICES ASSUME before.clean PROVE OrderInv'
    BY <1>5 DEF OrderInv
  <2>4. /\ ToSet(q) = mapped /\ ToSet(r) = mapped
        /\ Current # "running" => mapped \cup ToSet(clients) \subseteq ToSet(saved) /\ SameOrder(q, saved, mapped)
        /\ Current = "running" => SameOrder(q, clients, mapped)
        /\ Current \in {"off", "starting"} => SameOrder(r, t, mapped)
        /\ Current # "off" /\ raises => SameOrder(r, stack \o toScan, mapped)
    BY <1>3, <2>3 DEF TakeOverInv, WindowInv, OrderInv
  <2>5. ToSet(before'.clients) = mapped' /\ ToSet(before'.stack) = mapped'
    BY <1>1, <1>6, <2>4
  <2>6. Current # "running" => mapped' \cup ToSet(clients) \subseteq ToSet(saved)
                               /\ SameOrder(before'.clients, saved, mapped')
    BY <1>1, <2>2, <2>4 DEF SameOrder
  <2>7. Current = "running" => SameOrder(before'.clients, clients, mapped')
    BY <2>2, <2>4 DEF SameOrder
  <2>8. Current \in {"off", "starting"} => SameOrder(before'.stack, tree', mapped')
    BY <2>2, <2>4 DEF SameOrder
  <2>9. Current # "off" /\ raises => SameOrder(before'.stack, stack \o toScan, mapped')
    BY <2>2, <2>4 DEF SameOrder
  <2> QED BY <1>1, <1>2, <2>5, <2>6, <2>7, <2>8, <2>9 DEF OrderInv
<1> QED BY <1>8, <1>9, <1>10 DEF WindowInv

LEMMA HandleWindows ==
    ASSUME TakeOverInv, NEW p \in Manager, NEW w \in Window, HandleDestroy(p, w)
    PROVE  WindowInv'
<1>1. /\ Current = "running" /\ toScan = <<>> /\ w \in gone /\ gone' = gone \ {w}
      /\ clients' = Without(clients, w) /\ stack' = Without(stack, w)
      /\ UNCHANGED <<stage, redirect, tree, mapped, requests, saved, toScan, raises, before>>
  BY RunsNow DEF HandleDestroy
<1>2. Current' = Current
  BY <1>1 DEF Current
<1>3. clients \in Lists /\ stack \in Lists /\ w \notin mapped
  BY <1>1 DEF TakeOverInv, WindowInv, ListsInv, SetsInv
<1>4. /\ clients' \in Lists /\ ToSet(clients') = ToSet(clients) \ {w}
      /\ stack' \in Lists /\ ToSet(stack') = ToSet(stack) \ {w}
      /\ \A u, v : u # w /\ v # w => (Precedes(clients', u, v) <=> Precedes(clients, u, v))
      /\ \A u, v : u # w /\ v # w => (Precedes(stack', u, v) <=> Precedes(stack, u, v))
  BY <1>1, <1>3, WithoutLists
<1>5. ListsInv'
  BY <1>1, <1>4 DEF TakeOverInv, WindowInv, ListsInv
<1>6. SetsInv' /\ ScanInv'
  BY <1>1, <1>2, <1>3, <1>4, ListFacts DEF TakeOverInv, WindowInv, SetsInv, ScanInv
<1>7. OrderInv'
  <2>1. stack \o toScan = stack /\ stack' \o toScan = stack'
    <3>1. stack \in Seq(Window) /\ stack' \in Seq(Window)
      BY <1>3, <1>4 DEF Lists
    <3> QED BY <1>1, <3>1
  <2>2. \A u, v \in mapped : /\ Precedes(clients', u, v) <=> Precedes(clients, u, v)
                             /\ Precedes(stack', u, v) <=> Precedes(stack, u, v)
    BY <1>3, <1>4
  <2> QED BY <1>1, <1>2, <2>1, <2>2 DEF TakeOverInv, WindowInv, OrderInv, SameOrder
<1> QED BY <1>5, <1>6, <1>7 DEF WindowInv

LEMMA TypesStep ==
    ASSUME TakeOverInv, [TakeOverNext]_takeVars
    PROVE  OtherTypes'
<1>1. ASSUME NEW p \in Manager, NEW next \in {"off", "new"}, Closed(p, next)
      PROVE  old' \in [Manager -> Manager \cup {"none"}] /\ holder' \in Manager \cup {"none"} /\ clear' \subseteq Manager
  BY <1>1, ClosedWindows DEF TakeOverInv
<1>2. ASSUME NEW p \in Manager, FindOwner(p) PROVE OtherTypes'
  <2>1. UNCHANGED <<replaces, raises, ends, before>>
    BY <1>2 DEF FindOwner
  <2>2. CASE holder # "none" /\ ~replaces[p]
    BY <1>1, <1>2, <2>1, <2>2 DEF FindOwner, TakeOverInv, OtherTypes
  <2>3. CASE ~(holder # "none" /\ ~replaces[p])
    BY <1>2, <2>1, <2>3 DEF FindOwner, TakeOverInv, OtherTypes
  <2> QED BY <2>2, <2>3
<1>3. ASSUME NEW p \in Manager, Claim(p) PROVE OtherTypes'
  BY <1>3 DEF Claim, TakeOverInv, OtherTypes
<1>4. ASSUME NEW p \in Manager, Redirect(p) PROVE OtherTypes'
  <2>1. UNCHANGED <<replaces, raises, ends, before>>
    BY <1>4 DEF Redirect
  <2>2. CASE redirect # "none"
    BY <1>1, <1>4, <2>1, <2>2 DEF Redirect, TakeOverInv, OtherTypes
  <2>3. CASE redirect = "none"
    BY <1>4, <2>1, <2>3 DEF Redirect, TakeOverInv, OtherTypes
  <2> QED BY <2>2, <2>3
<1>5. ASSUME NEW p \in Manager, NEW b \in BOOLEAN, Start(p, b) PROVE OtherTypes'
  BY <1>5 DEF Start, TakeOverInv, OtherTypes
<1>6. ASSUME NEW p \in Manager, NEW b \in BOOLEAN, ParseRc(p, b) PROVE OtherTypes'
  <2>1. UNCHANGED <<replaces, raises, ends, before>>
    BY <1>6 DEF ParseRc
  <2>2. CASE b
    BY <1>6, <2>1, <2>2 DEF ParseRc, TakeOverInv, OtherTypes
  <2>3. CASE ~b
    BY <1>1, <1>6, <2>1, <2>3 DEF ParseRc, TakeOverInv, OtherTypes
  <2> QED BY <2>2, <2>3
<1>7. ASSUME NEW p \in Manager, NEW b \in BOOLEAN, Quit(p, b) PROVE OtherTypes'
  <2>1. old' \in [Manager -> Manager \cup {"none"}] /\ holder' \in Manager \cup {"none"} /\ clear' \subseteq Manager
    BY <1>1, <1>7 DEF Quit
  <2>2. /\ UNCHANGED <<replaces, raises>>
        /\ before' = [clients |-> Among(clients, ToSet(tree)), stack |-> BackByStack, clean |-> TRUE]
    BY <1>7 DEF Quit
  <2>3. ends' \in 0..MaxEnds
    BY <1>7, TakeOverAssumption DEF Quit, TakeOverInv, OtherTypes
  <2>4. \A q \in Lists : \A s : Among(q, s) \in Seq(Window)
    BY AmongLists, ListFacts
  <2>5. before' \in [clients : Seq(Window), stack : Seq(Window), clean : BOOLEAN]
    BY <2>2, <2>4 DEF BackByStack, TakeOverInv, WindowInv, ListsInv
  <2> QED BY <2>1, <2>2, <2>3, <2>5 DEF TakeOverInv, OtherTypes
<1>8. ASSUME NEW p \in Manager, Crash(p) PROVE OtherTypes'
  <2>1. old' \in [Manager -> Manager \cup {"none"}] /\ holder' \in Manager \cup {"none"} /\ clear' \subseteq Manager
    BY <1>1, <1>8 DEF Crash
  <2>2. UNCHANGED <<replaces, raises>> /\ before' = [before EXCEPT !.clean = FALSE]
    BY <1>8 DEF Crash
  <2>3. ends' \in 0..MaxEnds
    BY <1>8, TakeOverAssumption DEF Crash, TakeOverInv, OtherTypes
  <2> QED BY <2>1, <2>2, <2>3 DEF TakeOverInv, OtherTypes
<1>9. ASSUME NEW p \in Manager, ScanOne(p) \/ Scanned(p) \/ Swap(p) PROVE OtherTypes'
  BY <1>9 DEF ScanOne, Scanned, Swap, TakeOverInv, OtherTypes
<1>10. ASSUME NEW p \in Manager, NEW w \in Window, TakeMapRequest(p, w) \/ HandleDestroy(p, w) \/ Raise(p, w)
       PROVE  OtherTypes'
  BY <1>10 DEF TakeMapRequest, HandleDestroy, Raise, TakeOverInv, OtherTypes
<1>11. ASSUME NEW w \in Window, Create(w) \/ Map(w) PROVE OtherTypes'
  <2>1. UNCHANGED <<replaces, old, holder, clear, raises, ends>>
    BY <1>11 DEF Create, Map
  <2>2. before' = before \/ before' = [before EXCEPT !.clean = FALSE]
    BY <1>11 DEF Create, Map
  <2> QED BY <2>1, <2>2 DEF TakeOverInv, OtherTypes
<1>12. ASSUME NEW w \in Window, Destroy(w) PROVE OtherTypes'
  <2>1. \A q \in Lists : Without(q, w) \in Seq(Window)
    BY WithoutLists, ListFacts
  <2>2. before' \in [clients : Seq(Window), stack : Seq(Window), clean : BOOLEAN]
    BY <1>12, <2>1 DEF Destroy, TakeOverInv, OtherTypes, WindowInv, ListsInv
  <2> QED BY <1>12, <2>2 DEF Destroy, TakeOverInv, OtherTypes
<1>13. CASE UNCHANGED takeVars
  BY <1>13 DEF takeVars, TakeOverInv, OtherTypes
<1> QED BY <1>2, <1>3, <1>4, <1>5, <1>6, <1>7, <1>8, <1>9, <1>10, <1>11, <1>12, <1>13 DEF TakeOverNext

LEMMA WindowsStep ==
    ASSUME TakeOverInv, [TakeOverNext]_takeVars
    PROVE  WindowInv'
<1>1. ASSUME NEW p \in Manager, Redirect(p) PROVE WindowInv'
  BY <1>1, EarlyWindows, RedirectWindows
<1>2. CASE UNCHANGED takeVars
  BY <1>2, QuietWindows DEF takeVars, Current, TakeOverInv
<1> QED
  BY <1>1, <1>2, EarlyWindows, ParseWindows, ScanOneWindows, ScannedWindows, RequestWindows, LuaWindows, EndWindows,
     CrashWindows, CreateWindows, MapWindows, DestroyWindows, HandleWindows DEF TakeOverNext

LEMMA WindowsStart == TakeOverInit => TakeOverInv
<1> SUFFICES ASSUME TakeOverInit PROVE TakeOverInv
  OBVIOUS
<1>1. TakeInv
  BY TakeOverAssumption DEF TakeOverInit, TakeInv, ProcessTypes, OneManager, Phase
<1>2. Current = "off"
  BY TakeOverAssumption DEF TakeOverInit, Current
<1>3. before.clients = <<>> /\ before.stack = <<>> /\ before.clean = FALSE
  BY DEF TakeOverInit
<1>4. OtherTypes
  BY TakeOverAssumption DEF TakeOverInit, OtherTypes
<1>5. WindowInv
  BY <1>2, <1>3, ListFacts DEF TakeOverInit, WindowInv, ListsInv, SetsInv, ScanInv, OrderInv
<1> QED BY <1>1, <1>4, <1>5 DEF TakeOverInv

LEMMA ManagedAll == TakeOverInv => EveryWindowManaged
<1> SUFFICES ASSUME TakeOverInv PROVE EveryWindowManaged
  OBVIOUS
<1>1. {saved, clients, stack, toScan, before.clients, before.stack} \subseteq Seq(Window) /\ tree \in Seq(Window)
  BY DEF TakeOverInv, WindowInv, ListsInv, Lists
<1>2. mapped \subseteq Window /\ requests \subseteq Window /\ gone \subseteq Window
  <2>1. ToSet(tree) \subseteq Window /\ ToSet(clients) \subseteq Window
    BY ListFacts DEF TakeOverInv, WindowInv, ListsInv
  <2> QED BY <2>1 DEF TakeOverInv, WindowInv, SetsInv
<1>3. TakeOverTypeOK /\ OneManager
  BY <1>1, <1>2 DEF TakeOverTypeOK, TakeOverInv, TakeInv, ProcessTypes, OtherTypes
<1>4. ASSUME NEW p \in Manager, Runs(p) PROVE ToSet(clients) \ gone = mapped /\ ToSet(stack) = ToSet(clients)
  BY <1>4, RunsNow, AllManaged DEF Runs, TakeOverInv, WindowInv, SetsInv
<1>5. IsInjective(clients) /\ IsInjective(stack)
  BY DEF TakeOverInv, WindowInv, ListsInv, Lists
<1>6. ASSUME clients # <<>> PROVE redirect # "none" /\ stage[redirect] \in {"scanning", "running"}
  <2>1. Current \in {"scanning", "running"}
    BY <1>6, CurrentFacts DEF TakeOverInv, WindowInv, ScanInv
  <2> QED BY <2>1, TakeOverAssumption DEF Current
<1> QED BY <1>3, <1>4, <1>5, <1>6 DEF EveryWindowManaged

LEMMA OrderKept == TakeOverInv => OrderSurvives
<1> SUFFICES ASSUME TakeOverInv, NEW p \in Manager, Runs(p), before.clean
             PROVE  Among(clients, ToSet(tree)) = before.clients /\ (raises => BackByStack = before.stack)
  BY DEF OrderSurvives
<1>1. Current = "running" /\ toScan = <<>> /\ ToSet(clients) \cap ToSet(tree) = mapped
  BY RunsNow, AllManaged DEF Runs, TakeOverInv
<1>2. PICK s : s = ToSet(tree)
  OBVIOUS
<1>3. /\ clients \in Lists /\ stack \in Lists /\ before.clients \in Lists /\ before.stack \in Lists
      /\ ToSet(stack) = ToSet(clients) /\ mapped \subseteq s
      /\ ToSet(before.clients) = mapped /\ ToSet(before.stack) = mapped
      /\ SameOrder(before.clients, clients, mapped)
  BY <1>1, <1>2 DEF TakeOverInv, WindowInv, ListsInv, SetsInv, OrderInv
<1>4. ASSUME NEW q \in Lists, NEW r \in Lists, ToSet(q) \cap s = mapped, ToSet(r) = mapped, SameOrder(r, q, mapped)
      PROVE  Among(q, s) = r
  <2>1. PICK a : a = Among(q, s)
    OBVIOUS
  <2>2. a \in Lists /\ ToSet(a) = mapped /\ \A v, w : Precedes(a, v, w) <=> Precedes(q, v, w) /\ v \in s /\ w \in s
    BY <1>4, <2>1, AmongLists
  <2>3. \A v, w \in ToSet(r) : Precedes(r, v, w) => Precedes(a, v, w)
    BY <1>3, <1>4, <2>2 DEF SameOrder
  <2>4. r \in Seq(Window) /\ a \in Seq(Window) /\ IsInjective(r) /\ IsInjective(a) /\ ToSet(r) = ToSet(a)
    BY <1>4, <2>2 DEF Lists
  <2>5. r = a
    BY <2>3, <2>4, SameList
  <2> QED BY <2>1, <2>5
<1>5. Among(clients, s) = before.clients
  BY <1>1, <1>2, <1>3, <1>4
<1>6. ASSUME raises PROVE Among(stack, s) = before.stack
  <2>1. stack \o toScan = stack
    BY <1>1, <1>3 DEF Lists
  <2>2. SameOrder(before.stack, stack, mapped)
    BY <1>1, <1>6, <2>1 DEF TakeOverInv, WindowInv, OrderInv
  <2> QED BY <1>1, <1>2, <1>3, <1>4, <2>2
<1> QED BY <1>2, <1>5, <1>6 DEF BackByStack

\* Every mapped window is a client of the manager that runs, and of it once:
\* the windows that were there when it started, those that asked to be mapped
\* while it scanned and those of later, whatever managers ended or crashed before.
THEOREM WindowsSafe == TakeOverSpec => []EveryWindowManaged
<1>1. TakeOverInv /\ [TakeOverNext]_takeVars => TakeOverInv'
  BY TakeStep, TypesStep, WindowsStep DEF TakeOverInv
<1> QED BY WindowsStart, ManagedAll, <1>1, PTL DEF TakeOverSpec

\* The order of the clients and their stacking come through a restart: the
\* next manager has them as the last one left them.
THEOREM OrderSafe == TakeOverSpec => []OrderSurvives
<1>1. TakeOverInv /\ [TakeOverNext]_takeVars => TakeOverInv'
  BY TakeStep, TypesStep, WindowsStep DEF TakeOverInv
<1> QED BY WindowsStart, OrderKept, <1>1, PTL DEF TakeOverSpec
-----------------------------------------------------------------------------
(* The configuration: the modeline is read as it is written, as far as the    *)
(* buffer goes and whatever stands before and after it, and the main loop has *)
(* the first file that works.                                                 *)
USE DEF configVars

ReaderStates == {"init", "newline", "comment", "modeline", "shebang", "delim", "key", "valuedelim", "value",
                 "invalid", "complete", "error"}
Reader == [state : ReaderStates, mode : {"none", "line", "shebang"}, pos : 0..2, buf : Seq(Letter),
           argv : Seq(Seq(Letter))]

LEMMA ToRight ==
    ASSUME NEW s \in Reader, NEW q \in ReaderStates
    PROVE  /\ To(s, q) \in Reader /\ To(s, q).state = q
           /\ To(s, q).mode = s.mode /\ To(s, q).pos = s.pos /\ To(s, q).buf = s.buf /\ To(s, q).argv = s.argv
BY DEF To, Reader

LEMMA ReaderParts ==
    ASSUME NEW s \in Reader
    PROVE  /\ s.state \in ReaderStates /\ s.mode \in {"none", "line", "shebang"} /\ s.pos \in 0..2
           /\ s.buf \in Seq(Letter) /\ s.argv \in Seq(Seq(Letter))
BY DEF Reader

\* a part of the state that is given another value
LEMMA ReaderWith ==
    ASSUME NEW s \in Reader, NEW q \in ReaderStates
    PROVE  /\ \A b \in Seq(Letter) : [s EXCEPT !.state = q, !.buf = b] \in Reader
           /\ \A b \in Seq(Letter), a \in Seq(Seq(Letter)) : [s EXCEPT !.state = q, !.argv = a, !.buf = b] \in Reader
           /\ \A p \in 0..2, m \in {"none", "line", "shebang"} : [s EXCEPT !.pos = p, !.state = q, !.mode = m] \in Reader
           /\ \A m \in {"none", "line", "shebang"} : [s EXCEPT !.state = q, !.mode = m] \in Reader
           /\ \A p \in 0..2 : [s EXCEPT !.state = q, !.pos = p] \in Reader /\ [s EXCEPT !.pos = p] \in Reader
BY DEF Reader

LEMMA KeepRight ==
    ASSUME NEW s \in Reader, NEW q \in ReaderStates, NEW c \in Letter
    PROVE  /\ Keep(s, q, c) \in Reader /\ Keep(s, q, c).state = q /\ Keep(s, q, c).buf = Append(s.buf, c)
           /\ Keep(s, q, c).mode = s.mode /\ Keep(s, q, c).pos = s.pos /\ Keep(s, q, c).argv = s.argv
<1>1. PICK b \in Seq(Letter) : b = Append(s.buf, c)
  <2>1. s.buf \in Seq(Letter)
    BY ReaderParts
  <2>2. Append(s.buf, c) \in Seq(Letter)
    BY <2>1
  <2> QED BY <2>2
<1>2. Keep(s, q, c) = [s EXCEPT !.state = q, !.buf = b]
  BY <1>1 DEF Keep
<1>3. s.argv \in Seq(Seq(Letter))
  BY ReaderParts
<1>4. [s EXCEPT !.state = q, !.buf = b] \in Reader
  BY <1>1, <1>3, ReaderWith
<1> QED BY <1>1, <1>2, <1>4 DEF Reader

LEMMA PushRight ==
    ASSUME NEW s \in Reader, NEW q \in ReaderStates
    PROVE  /\ Push(s, q) \in Reader /\ Push(s, q).state = q /\ Push(s, q).buf = <<>>
           /\ Push(s, q).argv = Append(s.argv, s.buf) /\ Push(s, q).mode = s.mode /\ Push(s, q).pos = s.pos
<1>1. PICK a \in Seq(Seq(Letter)) : a = Append(s.argv, s.buf)
  <2>1. s.buf \in Seq(Letter) /\ s.argv \in Seq(Seq(Letter))
    BY ReaderParts
  <2>2. Append(s.argv, s.buf) \in Seq(Seq(Letter))
    BY <2>1
  <2> QED BY <2>2
<1>2. <<>> \in Seq(Letter)
  OBVIOUS
<1>3. Push(s, q) = [s EXCEPT !.state = q, !.argv = a, !.buf = <<>>]
  BY <1>1 DEF Push
<1>4. [s EXCEPT !.state = q, !.argv = a, !.buf = <<>>] \in Reader
  BY <1>1, <1>2, ReaderParts, ReaderWith
<1> QED BY <1>1, <1>3, <1>4 DEF Reader

LEMMA FirstOfKeyRight ==
    ASSUME NEW s \in Reader, NEW c \in Letter
    PROVE  /\ FirstOfKey(s, c) \in Reader
           /\ s.mode = "line" =>
                /\ FirstOfKey(s, c).state = "key" /\ FirstOfKey(s, c).buf = <<"-", "-", c>>
                /\ FirstOfKey(s, c).mode = "line" /\ FirstOfKey(s, c).pos = s.pos /\ FirstOfKey(s, c).argv = s.argv
<1>1. CASE s.mode = "line"
  <2>1. PICK b \in Seq(Letter) : b = <<"-", "-", c>>
    <3>1. {"-", c} \subseteq Letter
      BY DEF Letter
    <3>2. <<"-", "-", c>> \in Seq(Letter)
      BY <3>1
    <3> QED BY <3>2
  <2>2. FirstOfKey(s, c) = [s EXCEPT !.state = "key", !.buf = b]
    BY <1>1, <2>1 DEF FirstOfKey
  <2>3. [s EXCEPT !.state = "key", !.buf = b] \in Reader
    BY <2>1, ReaderParts, ReaderWith DEF ReaderStates
  <2> QED BY <1>1, <2>1, <2>2, <2>3 DEF Reader
<1>2. CASE s.mode # "line"
  BY <1>2, KeepRight DEF FirstOfKey, ReaderStates
<1> QED BY <1>1, <1>2

LEMMA StepIn ==
    ASSUME NEW s \in Reader, NEW c \in Letter
    PROVE  ReadStep(s, c) \in Reader
<1>1. \A q \in ReaderStates : To(s, q) \in Reader /\ Keep(s, q, c) \in Reader /\ Push(s, q) \in Reader
  BY ToRight, KeepRight, PushRight
<1>2. FirstOfKey(s, c) \in Reader
  BY FirstOfKeyRight
<1>3. [s EXCEPT !.pos = 0, !.state = "delim", !.mode = "line"] \in Reader
      /\ [s EXCEPT !.state = "delim", !.mode = "shebang"] \in Reader
      /\ [s EXCEPT !.state = "invalid", !.pos = 0] \in Reader
  <2>1. "delim" \in ReaderStates /\ "invalid" \in ReaderStates /\ 0 \in 0..2
    BY DEF ReaderStates
  <2>2. [s EXCEPT !.pos = 0, !.state = "delim", !.mode = "line"] \in Reader
    BY <2>1, ReaderWith
  <2>3. [s EXCEPT !.state = "delim", !.mode = "shebang"] \in Reader
    BY <2>1, ReaderWith
  <2>4. [s EXCEPT !.state = "invalid", !.pos = 0] \in Reader
    BY <2>1, ReaderWith
  <2> QED BY <2>2, <2>3, <2>4
<1>4. Len(Name) = 3
  BY DEF Name
<1>5. s.pos + 1 # Len(Name) => [s EXCEPT !.pos = @ + 1] \in Reader
  <2> SUFFICES ASSUME s.pos + 1 # 3 PROVE [s EXCEPT !.pos = @ + 1] \in Reader
    BY <1>4
  <2>1. s.pos + 1 \in 0..2
    BY ReaderParts
  <2> QED BY <2>1, ReaderParts, ReaderWith
<1> QED BY <1>1, <1>2, <1>3, <1>5 DEF ReadStep, ReaderStates

LEMMA CharIn ==
    ASSUME NEW s \in Reader, NEW c \in Letter
    PROVE  Char(s, c) \in Reader
BY StepIn, ToRight DEF Char, ReaderStates

-----------------------------------------------------------------------------
\* Chars is what its recursion says
CharSteps(s, l, from) ==
    /\ from \in [0..Len(l) -> Reader] /\ from[0] = s
    /\ \A i \in 1..Len(l) : from[i] = Char(from[i - 1], l[i])

LEMMA CharsFrom ==
    ASSUME NEW s \in Reader, NEW l \in Seq(Letter)
    PROVE  \E from : CharSteps(s, l, from) /\ Chars(s, l) = from[Len(l)]
<1> DEFINE n == Len(l)
           body(f) == [i \in 0..n |-> IF i = 0 THEN s ELSE Char(f[i - 1], l[i])]
           from == CHOOSE f : f = body(f)
<1>1. n \in Nat /\ DOMAIN l = 1..n /\ \A i \in 1..n : l[i] \in Letter
  OBVIOUS
<1>2. Chars(s, l) = from[n]
  BY DEF Chars
<1> HIDE DEF n
<1>4. \E f : f = body(f) /\ f \in [0..n -> Reader]
  <2> DEFINE goes == [a \in (1..n) \X Reader |-> Char(a[2], l[a[1]])]
  <2>1. goes \in [(1..n) \X Reader -> Reader]
    <3> SUFFICES ASSUME NEW a \in (1..n) \X Reader PROVE Char(a[2], l[a[1]]) \in Reader
      OBVIOUS
    <3>1. a[2] \in Reader /\ l[a[1]] \in Letter
      BY <1>1
    <3> QED BY <3>1, CharIn
  <2>2. \A i \in 1..n, x \in Reader : goes[<<i, x>>] = Char(x, l[i])
    OBVIOUS
  <2> HIDE DEF goes
  <2>3. PICK f \in [0..n -> Reader] : Steps(n, s, goes, f)
    BY <1>1, <2>1, NumberRecursion
  <2>4. ASSUME NEW i \in 0..n
        PROVE  f[i] = IF i = 0 THEN s ELSE Char(f[i - 1], l[i])
    <3>1. CASE i = 0
      BY <2>3, <3>1 DEF Steps
    <3>2. CASE i # 0
      <4>1. i \in 1..n /\ i - 1 \in 0..n
        BY <1>1, <3>2
      <4>2. PICK x \in Reader : x = f[i - 1]
        BY <4>1
      <4>3. f[i] = goes[<<i, x>>]
        BY <2>3, <4>1, <4>2 DEF Steps
      <4> QED BY <2>2, <3>2, <4>1, <4>2, <4>3
    <3> QED BY <3>1, <3>2
  <2>5. f = body(f)
    BY <2>4
  <2> QED BY <2>5
<1>5. from = body(from)
  BY <1>4
<1>6. from[0] = s /\ \A i \in 1..n : from[i] = Char(from[i - 1], l[i])
  <2> HIDE DEF from
  <2>1. \A i \in 1..n : i \in 0..n /\ i # 0
    OBVIOUS
  <2> QED BY <1>1, <1>5, <2>1
<1>7. from \in [0..n -> Reader]
  <2>0. DOMAIN from = 0..n /\ from = [i \in 0..n |-> from[i]]
    <3> HIDE DEF from
    <3> QED BY <1>5
  <2> HIDE DEF from
  <2> DEFINE P == {i \in 0..n : from[i] \in Reader}
  <2>1. 0 \in P
    BY <1>1, <1>6
  <2>2. ASSUME NEW i \in 1..n, i - 1 \in P PROVE i \in P
    <3>1. i \in 0..n /\ from[i - 1] \in Reader /\ l[i] \in Letter
      BY <1>1, <2>2
    <3> QED BY <1>6, <3>1, CharIn
  <2>3. \A i \in 0..n : i \in P
    <3>1. P \in SUBSET (0..n)
      OBVIOUS
    <3> HIDE DEF P
    <3> QED BY <1>1, <2>1, <2>2, <3>1, NumberInduction
  <2> QED BY <2>0, <2>3
<1> HIDE DEF from
<1> QED BY <1>2, <1>6, <1>7 DEF CharSteps, n

LEMMA CharsIn ==
    ASSUME NEW s \in Reader, NEW l \in Seq(Letter)
    PROVE  Chars(s, l) \in Reader
<1>1. PICK from : CharSteps(s, l, from) /\ Chars(s, l) = from[Len(l)]
  BY CharsFrom
<1>2. Len(l) \in 0..Len(l)
  OBVIOUS
<1> QED BY <1>1, <1>2 DEF CharSteps

LEMMA CharsEmpty ==
    ASSUME NEW s \in Reader
    PROVE  Chars(s, <<>>) = s
<1>1. PICK l \in Seq(Letter) : l = <<>> /\ Len(l) = 0
  <2>1. <<>> \in Seq(Letter) /\ Len(<<>>) = 0
    OBVIOUS
  <2> QED BY <2>1
<1>2. PICK from : CharSteps(s, l, from) /\ Chars(s, l) = from[Len(l)]
  BY CharsFrom
<1> QED BY <1>1, <1>2 DEF CharSteps

LEMMA CharsAppend ==
    ASSUME NEW s \in Reader, NEW l \in Seq(Letter), NEW c \in Letter
    PROVE  Chars(s, Append(l, c)) = Char(Chars(s, l), c)
<1> DEFINE m == Append(l, c)
           n == Len(l)
<1>1. m \in Seq(Letter) /\ n \in Nat /\ Len(m) = n + 1 /\ m[n + 1] = c /\ \A i \in 1..n : m[i] = l[i]
  OBVIOUS
<1>2. PICK f : CharSteps(s, l, f) /\ Chars(s, l) = f[n]
  BY CharsFrom
<1>3. PICK g : CharSteps(s, m, g) /\ Chars(s, m) = g[n + 1]
  BY <1>1, CharsFrom
<1> HIDE DEF m, n
<1> DEFINE P == {i \in 0..n : g[i] = f[i]}
<1>4. 0 \in P
  BY <1>1, <1>2, <1>3 DEF CharSteps
<1>5. ASSUME NEW i \in 1..n, i - 1 \in P PROVE i \in P
  <2>1. i \in 1..(n + 1) /\ i \in 0..n /\ g[i - 1] = f[i - 1]
    BY <1>1, <1>5
  <2> QED BY <1>1, <1>2, <1>3, <2>1 DEF CharSteps, n
<1>6. n \in P
  <2>1. P \in SUBSET (0..n)
    OBVIOUS
  <2> HIDE DEF P
  <2>2. \A i \in 0..n : i \in P
    BY <1>1, <1>4, <1>5, <2>1, NumberInduction
  <2> QED BY <1>1, <2>2
<1>7. g[n + 1] = Char(g[n], m[n + 1])
  <2>1. n + 1 \in 1..(n + 1) /\ n + 1 - 1 = n
    BY <1>1
  <2> QED BY <1>1, <1>3, <2>1 DEF CharSteps
<1> QED BY <1>1, <1>2, <1>3, <1>6, <1>7 DEF m

-----------------------------------------------------------------------------
\* reading one text after the other
LEMMA CharsConcat ==
    ASSUME NEW s \in Reader, NEW a \in Seq(Letter), NEW b \in Seq(Letter)
    PROVE  Chars(s, a \o b) = Chars(Chars(s, a), b)
<1> DEFINE n == Len(b)
           Begun(i) == [j \in 1..i |-> b[j]]
           P == {i \in 0..n : Chars(s, a \o Begun(i)) = Chars(Chars(s, a), Begun(i))}
<1>1. n \in Nat /\ \A i \in 1..n : b[i] \in Letter
  OBVIOUS
<1>2. Chars(s, a) \in Reader
  BY CharsIn
<1>3. 0 \in P
  <2>1. Begun(0) = <<>>
    OBVIOUS
  <2>2. a \o <<>> = a
    OBVIOUS
  <2> QED BY <1>1, <1>2, <2>1, <2>2, CharsEmpty
<1>4. ASSUME NEW i \in 1..n, i - 1 \in P PROVE i \in P
  <2>1. i - 1 \in Nat /\ i \in 0..n /\ i - 1 \in 0..n
    BY <1>1
  <2>2. Begun(i - 1) \in Seq(Letter)
    BY <1>1, <2>1
  <2>3. PICK p \in Seq(Letter) : p = Begun(i - 1)
    BY <2>2
  <2>4. Begun(i) = Append(p, b[i])
    BY <1>1, <2>1, <2>3
  <2>5. Chars(s, a \o p) = Chars(Chars(s, a), p)
    BY <1>4, <2>3
  <2> HIDE DEF Begun
  <2>6. a \o Append(p, b[i]) = Append(a \o p, b[i]) /\ a \o p \in Seq(Letter)
    BY <1>1
  <2>7. Chars(s, a \o Begun(i)) = Char(Chars(s, a \o p), b[i])
    <3>1. PICK u \in Seq(Letter) : u = a \o p
      BY <2>6
    <3>2. b[i] \in Letter
      BY <1>1
    <3>3. Chars(s, Append(u, b[i])) = Char(Chars(s, u), b[i])
      BY <3>2, CharsAppend
    <3> QED BY <2>4, <2>6, <3>1, <3>3
  <2>8. Chars(Chars(s, a), Begun(i)) = Char(Chars(Chars(s, a), p), b[i])
    BY <1>1, <1>2, <2>4, CharsAppend
  <2> QED BY <2>1, <2>5, <2>7, <2>8
<1>5. n \in P
  <2>1. P \in SUBSET (0..n)
    OBVIOUS
  <2> HIDE DEF P, n
  <2>2. \A i \in 0..n : i \in P
    BY <1>1, <1>3, <1>4, <2>1, NumberInduction
  <2> QED BY <1>1, <2>2
<1>6. Begun(n) = b
  OBVIOUS
<1> QED BY <1>5, <1>6

\* what the reader does with a character in each of its states
LEMMA Transitions ==
    ASSUME NEW s \in Reader, NEW c \in Letter
    PROVE  /\ s.state \in {"init", "newline"} =>
                /\ c \in {"blank", "-"} => ReadStep(s, c) = To(s, "comment")
                /\ c \notin {"blank", "-"} /\ ~(s.state = "init" /\ c = "#") => ReadStep(s, c) = To(s, "invalid")
           /\ s.state = "comment" => ReadStep(s, c) = To(s, IF c = "-" THEN "modeline" ELSE "invalid")
           /\ s.state = "modeline" =>
                /\ c = "blank" => ReadStep(s, c) = s
                /\ c = Name[s.pos + 1] /\ s.pos # 2 => ReadStep(s, c) = [s EXCEPT !.pos = @ + 1]
                /\ c = Name[s.pos + 1] /\ s.pos = 2 => ReadStep(s, c) = [s EXCEPT !.pos = 0, !.state = "delim", !.mode = "line"]
                /\ c \notin {"blank", Name[s.pos + 1]} => ReadStep(s, c) = [s EXCEPT !.state = "invalid", !.pos = 0]
           /\ s.state = "delim" /\ c \notin {"blank", ":", "=", "\n"} => ReadStep(s, c) = FirstOfKey(s, c)
           /\ s.state = "key" => /\ c = "=" => ReadStep(s, c) = Push(s, "valuedelim")
                                 /\ c = ":" => ReadStep(s, c) = Push(s, "delim")
           /\ s.state = "valuedelim" /\ c \notin {"blank", ":", "\n"} => ReadStep(s, c) = Keep(s, "value", c)
           /\ s.state = "value" => /\ c = ":" => ReadStep(s, c) = Push(s, "delim")
                                   /\ c \notin {"comma", "blank", ":", "\n"} => ReadStep(s, c) = Keep(s, "value", c)
<1>1. Len(Name) = 3 /\ Name[1] = "n" /\ Name[2] = "n" /\ Name[3] = ":"
  BY DEF Name
<1>2. s.pos \in 0..2 /\ s.pos + 1 \in 1..3
  BY ReaderParts
<1>3. Name[s.pos + 1] # "blank"
  <2>1. s.pos + 1 = 1 \/ s.pos + 1 = 2 \/ s.pos + 1 = 3
    BY <1>2
  <2>2. \A i : i = 1 \/ i = 2 \/ i = 3 => Name[i] # "blank"
    BY <1>1
  <2> QED BY <2>1, <2>2
<1>4. (s.pos + 1 = Len(Name)) <=> (s.pos = 2)
  BY <1>1, <1>2
<1>5. CASE s.state \in {"init", "newline"}
  BY <1>5 DEF ReadStep
<1>6. CASE s.state \in {"comment"}
  BY <1>6 DEF ReadStep
<1>7. CASE s.state \in {"modeline"}
  BY <1>3, <1>4, <1>7 DEF ReadStep
<1>8. CASE s.state \in {"delim"}
  BY <1>8 DEF ReadStep
<1>9. CASE s.state \in {"key"}
  BY <1>9 DEF ReadStep
<1>10. CASE s.state \in {"valuedelim"}
  BY <1>10 DEF ReadStep
<1>11. CASE s.state \in {"value"}
  BY <1>11 DEF ReadStep
<1> QED BY <1>5, <1>6, <1>7, <1>8, <1>9, <1>10, <1>11

LEMMA CharFits ==
    ASSUME NEW s \in Reader, NEW c \in Letter, ~Stopped(s), Len(ReadStep(s, c).buf) < KeyBuf
    PROVE  Char(s, c) = ReadStep(s, c)
<1>1. Len(ReadStep(s, c).buf) \in Nat
  BY StepIn, ReaderParts
<1> QED BY <1>1, KeyBufAssumption DEF Char

LEMMA CharIs ==
    ASSUME NEW s \in Reader, NEW c \in Letter, ~Stopped(s), Len(ReadStep(s, c).buf) <= 3
    PROVE  Char(s, c) = ReadStep(s, c)
<1>1. Len(ReadStep(s, c).buf) \in Nat
  BY StepIn, ReaderParts
<1> QED BY <1>1, KeyBufAssumption, CharFits

\* a line that is no modeline is not read to its end, and leaves no words
Ready(s) == s.state \in {"init", "newline"} /\ s.pos = 0 /\ s.buf = <<>>

LEMMA PlainChar ==
    ASSUME NEW t \in Reader, NEW c \in Letter, t.buf = <<>>
    PROVE  LET r == Char(t, c) IN
           /\ t.state \in {"init", "newline"} /\ ~(t.state = "init" /\ c = "#") =>
                /\ r.state = (IF c \in {"blank", "-"} THEN "comment" ELSE "invalid")
                /\ r.pos = t.pos /\ r.buf = <<>> /\ r.argv = t.argv
           /\ t.state = "comment" =>
                /\ r.state = (IF c = "-" THEN "modeline" ELSE "invalid")
                /\ r.pos = t.pos /\ r.buf = <<>> /\ r.argv = t.argv
           /\ t.state = "modeline" /\ c # ":" =>
                /\ \/ r.state = "modeline" /\ c \in {"blank", "n"}
                   \/ r.state = "invalid" /\ r.pos = 0
                /\ r.buf = <<>> /\ r.argv = t.argv
           /\ t.state = "invalid" => r = t
<1>1. \A q \in ReaderStates : To(t, q).state = q /\ To(t, q).pos = t.pos /\ To(t, q).buf = <<>> /\ To(t, q).argv = t.argv
  BY ToRight
<1>2. {"comment", "modeline", "invalid"} \subseteq ReaderStates
  BY DEF ReaderStates
<1>3. Len(<<>>) = 0
  OBVIOUS
<1>4. ReadStep(t, c).buf = <<>> /\ ~Stopped(t) => Char(t, c) = ReadStep(t, c)
  BY <1>3, CharIs
<1>5. CASE t.state \in {"init", "newline"}
  <2> SUFFICES ASSUME ~(t.state = "init" /\ c = "#")
               PROVE  /\ Char(t, c).state = (IF c \in {"blank", "-"} THEN "comment" ELSE "invalid")
                      /\ Char(t, c).pos = t.pos /\ Char(t, c).buf = <<>> /\ Char(t, c).argv = t.argv
    BY <1>5
  <2>1. PICK q \in ReaderStates : q = IF c \in {"blank", "-"} THEN "comment" ELSE "invalid"
    BY <1>2
  <2>2. ReadStep(t, c) = To(t, q)
    BY <1>5, <2>1, Transitions
  <2> QED BY <1>1, <1>4, <1>5, <2>1, <2>2 DEF Stopped
<1>6. CASE t.state = "comment"
  <2>1. PICK q \in ReaderStates : q = IF c = "-" THEN "modeline" ELSE "invalid"
    BY <1>2
  <2>2. ReadStep(t, c) = To(t, q)
    BY <1>6, <2>1, Transitions
  <2> QED BY <1>1, <1>4, <1>6, <2>1, <2>2 DEF Stopped
<1>7. CASE t.state = "modeline"
  <2> SUFFICES ASSUME c # ":"
               PROVE  /\ \/ Char(t, c).state = "modeline" /\ c \in {"blank", "n"}
                         \/ Char(t, c).state = "invalid" /\ Char(t, c).pos = 0
                      /\ Char(t, c).buf = <<>> /\ Char(t, c).argv = t.argv
    BY <1>7
  <2>1. t.pos = 0 \/ t.pos = 1 \/ t.pos = 2
    BY ReaderParts
  <2>2. Name[1] = "n" /\ Name[2] = "n" /\ Name[3] = ":"
    BY DEF Name
  <2>3. \/ c = "blank" /\ ReadStep(t, c) = t
        \/ c = "n" /\ ReadStep(t, c) = [t EXCEPT !.pos = @ + 1]
        \/ ReadStep(t, c) = [t EXCEPT !.state = "invalid", !.pos = 0]
    <3>1. t.pos = 2 => c # Name[t.pos + 1]
      BY <2>2
    <3>2. t.pos # 2 => Name[t.pos + 1] = "n"
      BY <2>1, <2>2
    <3> QED BY <1>7, <2>1, <3>1, <3>2, Transitions
  <2>4. /\ \/ ReadStep(t, c).state = "modeline" /\ c \in {"blank", "n"}
           \/ ReadStep(t, c).state = "invalid" /\ ReadStep(t, c).pos = 0
        /\ ReadStep(t, c).buf = <<>> /\ ReadStep(t, c).argv = t.argv
    <3>1. [t EXCEPT !.pos = @ + 1].state = "modeline" /\ [t EXCEPT !.pos = @ + 1].buf = <<>>
          /\ [t EXCEPT !.pos = @ + 1].argv = t.argv
      BY <1>7 DEF Reader
    <3>2. LET u == [t EXCEPT !.state = "invalid", !.pos = 0]
          IN  u.state = "invalid" /\ u.pos = 0 /\ u.buf = <<>> /\ u.argv = t.argv
      BY DEF Reader
    <3> QED BY <1>7, <2>3, <3>1, <3>2
  <2> QED BY <1>4, <1>7, <2>4 DEF Stopped
<1>8. CASE t.state = "invalid"
  BY <1>8 DEF Char, Stopped
<1>9. CASE t.state \notin {"init", "newline", "comment", "modeline", "invalid"}
  BY <1>9
<1> QED BY <1>5, <1>6, <1>7, <1>8, <1>9

LEMMA NoModelineRead ==
    ASSUME NEW s \in Reader, Ready(s), NEW l \in Seq(Letter), NoModeline(l), s.state = "init" => l[1] # "#"
    PROVE  /\ Chars(s, l).state = "invalid" /\ Chars(s, l).pos = 0 /\ Chars(s, l).buf = <<>>
           /\ Chars(s, l).argv = s.argv
<1>1. PICK from : CharSteps(s, l, from) /\ Chars(s, l) = from[Len(l)]
  BY CharsFrom
<1> DEFINE n == Len(l)
<1>2. n \in Nat /\ 1 \in 1..n /\ \A i \in 1..n : l[i] \in Letter
  <2>1. l # <<>>
    BY DEF NoModeline
  <2>2. Len(l) \in Nat /\ Len(l) # 0
    BY <2>1
  <2> QED BY <2>2
<1> HIDE DEF n
<1>3. PICK e \in 1..n : /\ l[1] \in {"blank", "-"} => e # 1 /\ l[e] \notin {"blank", "-", "n", ":"}
                        /\ l[1] \in {"blank", "-"} => \A j \in 2..(e - 1) : l[j] \in {"blank", "-", "n"}
                        /\ l[1] \notin {"blank", "-"} => e = 1
  <2>1. CASE l[1] \in {"blank", "-"}
    <3>1. PICK e \in 2..n : l[e] \notin {"blank", "-", "n", ":", "\n"} /\ \A j \in 2..(e - 1) : l[j] \in {"blank", "-", "n"}
      BY <2>1 DEF NoModeline, n
    <3>2. e \in 1..n /\ e # 1
      BY <1>2
    <3> QED BY <2>1, <3>1, <3>2
  <2>2. CASE l[1] \notin {"blank", "-"}
    BY <1>2, <2>2
  <2> QED BY <2>1, <2>2
<1>4. from \in [0..n -> Reader] /\ from[0] = s /\ \A i \in 1..n : from[i] = Char(from[i - 1], l[i])
  BY <1>1 DEF CharSteps, n
<1> DEFINE Q(t, i) == /\ t.buf = <<>> /\ t.argv = s.argv
                      /\ t.state \in {"comment", "modeline", "invalid"}
                      /\ t.state # "modeline" => t.pos = 0
                      /\ t.state = "comment" => i = 1
                      /\ i >= e => t.state = "invalid"
           P == {i \in 0..n : i # 0 => Q(from[i], i)}
<1>5. 0 \in P
  BY <1>2
<1>7. ASSUME NEW i \in 1..n, i - 1 \in P PROVE i \in P
  <2>1. PICK t \in Reader : t = from[i - 1]
    BY <1>2, <1>4
  <2>2. PICK c \in Letter : c = l[i]
    BY <1>2
  <2>3. from[i] = Char(t, c) /\ i \in 0..n /\ i - 1 \in 0..n
    BY <1>2, <1>4, <2>1, <2>2
  <2>4. PICK r : r = Char(t, c)
    OBVIOUS
  <2> SUFFICES Q(r, i)
    BY <2>3, <2>4
  <2>5. CASE i = 1
    <3>1. t = s
      BY <1>4, <2>1, <2>5
    <3>2. /\ r.state = (IF c \in {"blank", "-"} THEN "comment" ELSE "invalid")
          /\ r.pos = t.pos /\ r.buf = <<>> /\ r.argv = t.argv
      BY <2>2, <2>4, <2>5, <3>1, PlainChar DEF Ready
    <3>3. i >= e => c \notin {"blank", "-"}
      BY <1>2, <1>3, <2>2, <2>5
    <3> QED BY <2>5, <3>1, <3>2, <3>3 DEF Ready
  <2>6. CASE i # 1
    <3>1. Q(t, i - 1) /\ i \in 2..n /\ i - 1 \in Nat
      BY <1>2, <1>7, <2>1, <2>6
    <3>2. CASE t.state = "invalid"
      <4>1. r = t
        BY <2>4, <3>1, <3>2, PlainChar
      <4> QED BY <3>1, <3>2, <4>1
    <3>3. CASE t.state # "invalid"
      <4>1. i <= e /\ e # 1
        BY <1>2, <1>3, <3>1, <3>3
      <4>2. (i = e => c \notin {"blank", "-", "n", ":"}) /\ (i # e => c \in {"blank", "-", "n"})
        BY <1>2, <1>3, <2>2, <3>1, <4>1
      <4>3. (r.state = "modeline" /\ c \in {"blank", "n", "-"}) \/ (r.state = "invalid" /\ r.pos = 0)
        BY <2>4, <3>1, <3>3, <4>2, PlainChar
      <4>4. r.buf = <<>> /\ r.argv = t.argv
        BY <2>4, <3>1, <3>3, <4>2, PlainChar
      <4> QED BY <1>2, <3>1, <4>1, <4>2, <4>3, <4>4
    <3> QED BY <3>2, <3>3
  <2> QED BY <2>5, <2>6
<1>8. n \in P
  <2>1. P \in SUBSET (0..n)
    OBVIOUS
  <2> HIDE DEF P, n
  <2>2. \A i \in 0..n : i \in P
    BY <1>2, <1>5, <1>7, <2>1, NumberInduction
  <2> QED BY <1>2, <2>2
<1>9. Q(from[n], n)
  BY <1>2, <1>8
<1>10. n >= e
  BY <1>2, <1>3
<1> QED BY <1>1, <1>2, <1>9, <1>10 DEF n

-----------------------------------------------------------------------------
\* joining sequences
LEMMA FlattenFrom ==
    ASSUME NEW T, NEW ss \in Seq(Seq(T)), ss # <<>>
    PROVE  \E f \in [1..Len(ss) -> Seq(T)] :
             /\ f[1] = ss[1] /\ \A i \in 2..Len(ss) : f[i] = f[i - 1] \o ss[i]
             /\ FlattenSeq(ss) = f[Len(ss)]
<1> DEFINE n == Len(ss)
           X == Seq(T)
           body(f) == [i \in 1..n |-> IF i = 1 THEN ss[i] ELSE f[i - 1] \o ss[i]]
           flatten == CHOOSE f : f = body(f)
<1>1. n \in Nat /\ n # 0 /\ 1 \in 1..n /\ n \in 1..n /\ \A i \in 1..n : ss[i] \in X
  <2>1. Len(ss) \in Nat /\ Len(ss) # 0
    OBVIOUS
  <2> QED BY <2>1
<1>2. FlattenSeq(ss) = flatten[n]
  BY <1>1 DEF FlattenSeq
<1>3. <<>> \in X /\ \A a, b \in X : a \o b \in X
  OBVIOUS
<1>4. \A a \in X : <<>> \o a = a
  OBVIOUS
<1> HIDE DEF n, X
<1>5. PICK f \in [1..n -> X] : f = body(f)
  <2> DEFINE goes == [a \in (1..n) \X X |-> a[2] \o ss[a[1]]]
  <2>1. goes \in [(1..n) \X X -> X]
    <3> SUFFICES ASSUME NEW a \in (1..n) \X X PROVE a[2] \o ss[a[1]] \in X
      OBVIOUS
    <3>1. a[2] \in X /\ ss[a[1]] \in X
      BY <1>1
    <3> QED BY <1>3, <3>1
  <2>2. \A i \in 1..n, x \in X : goes[<<i, x>>] = x \o ss[i]
    OBVIOUS
  <2> HIDE DEF goes
  <2>3. PICK g \in [0..n -> X] : Steps(n, <<>>, goes, g)
    BY <1>1, <1>3, <2>1, NumberRecursion
  <2> DEFINE f == [i \in 1..n |-> g[i]]
  <2>4. f \in [1..n -> X] /\ \A i \in 1..n : i \in 0..n
    BY <1>1
  <2>5. ASSUME NEW i \in 1..n PROVE f[i] = IF i = 1 THEN ss[i] ELSE f[i - 1] \o ss[i]
    <3>1. i - 1 \in 0..n /\ (i # 1 => i - 1 \in 1..n)
      BY <1>1
    <3>2. PICK x \in X : x = g[i - 1]
      BY <3>1
    <3>3. g[i] = x \o ss[i]
      BY <2>2, <2>3, <3>2 DEF Steps
    <3>4. CASE i = 1
      <4>1. x = <<>>
        BY <2>3, <3>2, <3>4 DEF Steps
      <4> QED BY <1>1, <1>4, <3>3, <3>4, <4>1
    <3>5. CASE i # 1
      BY <3>1, <3>2, <3>3, <3>5
    <3> QED BY <3>4, <3>5
  <2>6. f = body(f)
    BY <2>5
  <2> HIDE DEF f
  <2> QED BY <2>4, <2>6
<1>6. flatten = body(flatten)
  BY <1>5
<1>7. \A i \in 1..n : i # 1 => i - 1 \in 1..n
  BY <1>1
<1>8. \A i \in 1..n : /\ flatten[i] = IF i = 1 THEN ss[i] ELSE flatten[i - 1] \o ss[i]
                     /\ f[i] = IF i = 1 THEN ss[i] ELSE f[i - 1] \o ss[i]
  <2> HIDE DEF flatten
  <2> QED BY <1>5, <1>6
<1> HIDE DEF flatten
<1> DEFINE P == {i \in 0..n : i # 0 => flatten[i] = f[i]}
<1>9. 0 \in P
  BY <1>1
<1>10. ASSUME NEW i \in 1..n, i - 1 \in P PROVE i \in P
  <2>1. i \in 0..n /\ (i # 1 => i - 1 # 0)
    BY <1>1
  <2> QED BY <1>8, <1>10, <2>1
<1>11. flatten[n] = f[n]
  <2>1. P \in SUBSET (0..n)
    OBVIOUS
  <2>2. n \in 0..n
    BY <1>1
  <2>3. n \in P => flatten[n] = f[n]
    BY <1>1
  <2> HIDE DEF P
  <2> QED BY <1>1, <1>9, <1>10, <2>1, <2>2, <2>3, NumberInduction
<1>12. f[1] = ss[1] /\ \A i \in 2..n : f[i] = f[i - 1] \o ss[i]
  <2>1. \A i \in 2..n : i \in 1..n /\ i # 1
    BY <1>1
  <2> QED BY <1>1, <1>8, <2>1
<1> QED BY <1>2, <1>5, <1>11, <1>12 DEF n, X

LEMMA FlattenAppend ==
    ASSUME NEW T, NEW ss \in Seq(Seq(T)), NEW x \in Seq(T)
    PROVE  /\ FlattenSeq(ss) \in Seq(T)
           /\ FlattenSeq(Append(ss, x)) = FlattenSeq(ss) \o x
<1> DEFINE n == Len(ss)
           m == Append(ss, x)
<1>1. n \in Nat /\ m \in Seq(Seq(T)) /\ Len(m) = n + 1 /\ m # <<>> /\ m[n + 1] = x /\ \A i \in 1..n : m[i] = ss[i]
  <2>1. PICK X : X = Seq(T)
    OBVIOUS
  <2>2. ss \in Seq(X) /\ x \in X
    BY <2>1
  <2>3. m \in Seq(X) /\ Len(m) = n + 1 /\ m[n + 1] = x /\ n \in Nat /\ \A i \in 1..n : m[i] = ss[i]
    BY <2>2
  <2>4. m # <<>>
    BY <2>3
  <2> QED BY <2>1, <2>3, <2>4
<1>2. PICK g \in [1..(n + 1) -> Seq(T)] :
        /\ g[1] = m[1] /\ \A i \in 2..(n + 1) : g[i] = g[i - 1] \o m[i]
        /\ FlattenSeq(m) = g[n + 1]
  <2>1. m \in Seq(Seq(T)) /\ m # <<>>
    BY <1>1
  <2> HIDE DEF m, n
  <2>2. PICK g \in [1..Len(m) -> Seq(T)] :
          /\ g[1] = m[1] /\ \A i \in 2..Len(m) : g[i] = g[i - 1] \o m[i]
          /\ FlattenSeq(m) = g[Len(m)]
    BY <2>1, FlattenFrom
  <2> QED BY <1>1, <2>2
<1>3. CASE ss = <<>>
  <2>1. n = 0 /\ FlattenSeq(ss) = <<>>
    BY <1>3 DEF FlattenSeq
  <2>2. FlattenSeq(m) = x
    <3>1. n + 1 = 1 /\ m[1] = x
      BY <1>1, <2>1
    <3> QED BY <1>2, <3>1
  <2>3. <<>> \o x = x /\ <<>> \in Seq(T)
    OBVIOUS
  <2> QED BY <1>3, <2>1, <2>2, <2>3
<1>4. CASE ss # <<>>
  <2>1. PICK f \in [1..n -> Seq(T)] :
          /\ f[1] = ss[1] /\ \A i \in 2..n : f[i] = f[i - 1] \o ss[i]
          /\ FlattenSeq(ss) = f[n]
    BY <1>4, FlattenFrom
  <2>2. n # 0
    BY <1>4
  <2> HIDE DEF n, m
  <2> DEFINE P == {i \in 0..n : i # 0 => g[i] = f[i]}
  <2>3. 0 \in P
    BY <1>1
  <2>4. ASSUME NEW i \in 1..n, i - 1 \in P PROVE i \in P
    <3>1. i \in 0..n /\ (i # 1 => i - 1 # 0 /\ i \in 2..n /\ i \in 2..(n + 1))
      BY <1>1
    <3>2. CASE i = 1
      BY <1>1, <1>2, <2>1, <2>2, <3>1, <3>2
    <3>3. CASE i # 1
      BY <1>1, <1>2, <2>1, <2>4, <3>1, <3>3
    <3> QED BY <3>2, <3>3
  <2>5. g[n] = f[n]
    <3>1. P \in SUBSET (0..n)
      OBVIOUS
    <3>2. n \in 0..n
      BY <1>1
    <3>3. n \in P => g[n] = f[n]
      BY <2>2
    <3> HIDE DEF P
    <3> QED BY <1>1, <2>3, <2>4, <3>1, <3>2, <3>3, NumberInduction
  <2>6. n + 1 \in 2..(n + 1) /\ n + 1 - 1 = n /\ n \in 1..n
    BY <1>1, <2>2
  <2>7. g[n + 1] = g[n] \o m[n + 1]
    <3>1. PICK k : k = n + 1 /\ k \in 2..(n + 1) /\ k - 1 = n
      BY <2>6
    <3>2. g[k] = g[k - 1] \o m[k]
      BY <1>2, <3>1
    <3> QED BY <3>1, <3>2
  <2>8. f[n] \in Seq(T)
    BY <2>1, <2>6
  <2> QED BY <1>1, <1>2, <2>1, <2>5, <2>7, <2>8 DEF m
<1> QED BY <1>3, <1>4

-----------------------------------------------------------------------------
\* the modeline
LEMMA OneChar ==
    ASSUME NEW s \in Reader, NEW c \in Letter
    PROVE  <<c>> \in Seq(Letter) /\ Chars(s, <<c>>) = Char(s, c)
<1>1. PICK w \in Seq(Letter) : w = <<>>
  <2>1. <<>> \in Seq(Letter)
    OBVIOUS
  <2> QED BY <2>1
<1>2. <<c>> \in Seq(Letter) /\ <<c>> = Append(w, c)
  BY <1>1
<1>3. Chars(s, Append(w, c)) = Char(Chars(s, w), c)
  BY CharsAppend
<1> QED BY <1>1, <1>2, <1>3, CharsEmpty

LEMMA TwoChars ==
    ASSUME NEW s \in Reader, NEW c \in Letter, NEW d \in Letter
    PROVE  <<c, d>> \in Seq(Letter) /\ Chars(s, <<c, d>>) = Char(Char(s, c), d)
<1>1. PICK w \in Seq(Letter) : w = <<c>> /\ Chars(s, w) = Char(s, c)
  BY OneChar
<1>2. <<c, d>> \in Seq(Letter) /\ <<c, d>> = Append(w, d)
  BY <1>1
<1>3. Chars(s, Append(w, d)) = Char(Chars(s, w), d)
  BY CharsAppend
<1> QED BY <1>1, <1>2, <1>3

LEMMA ThreeChars ==
    ASSUME NEW s \in Reader, NEW c \in Letter, NEW d \in Letter, NEW e \in Letter
    PROVE  <<c, d, e>> \in Seq(Letter) /\ Chars(s, <<c, d, e>>) = Char(Char(Char(s, c), d), e)
<1>1. PICK w \in Seq(Letter) : w = <<c, d>> /\ Chars(s, w) = Char(Char(s, c), d)
  BY TwoChars
<1>2. <<c, d, e>> \in Seq(Letter) /\ <<c, d, e>> = Append(w, e)
  BY <1>1
<1>3. Chars(s, Append(w, e)) = Char(Chars(s, w), e)
  BY CharsAppend
<1> QED BY <1>1, <1>2, <1>3

LEMMA NameRead ==
    ASSUME NEW s \in Reader, Ready(s)
    PROVE  LET t == Chars(s, Mark) IN
           /\ Mark \in Seq(Letter) /\ Len(Mark) = 6
           /\ t \in Reader /\ t.state = "delim" /\ t.mode = "line" /\ t.pos = 0 /\ t.buf = <<>> /\ t.argv = s.argv
<1> DEFINE Like(t, q, p) == t \in Reader /\ t.state = q /\ t.pos = p /\ t.buf = <<>> /\ t.argv = s.argv
<1>1. {"-", "blank", "n", ":"} \subseteq Letter /\ {"comment", "modeline", "delim"} \subseteq ReaderStates
  BY DEF Letter, ReaderStates
<1>2. Len(<<>>) = 0 /\ Name[1] = "n" /\ Name[2] = "n" /\ Name[3] = ":"
  BY DEF Name
<1>3. \A t \in Reader, c \in Letter : ReadStep(t, c).buf = <<>> /\ ~Stopped(t) => Char(t, c) = ReadStep(t, c)
  BY <1>2, CharIs
<1>4. PICK a : a = Char(s, "-")
  OBVIOUS
<1>5. Like(a, "comment", 0)
  <2>1. ReadStep(s, "-") = To(s, "comment")
    BY <1>1, Transitions DEF Ready
  <2>2. Like(To(s, "comment"), "comment", 0)
    BY <1>1, ToRight DEF Ready
  <2> QED BY <1>1, <1>3, <1>4, <2>1, <2>2 DEF Ready, Stopped
<1>6. PICK b : b = Char(a, "-")
  OBVIOUS
<1>7. Like(b, "modeline", 0)
  <2>1. ReadStep(a, "-") = To(a, "modeline")
    BY <1>1, <1>5, Transitions
  <2>2. Like(To(a, "modeline"), "modeline", 0)
    BY <1>1, <1>5, ToRight
  <2> QED BY <1>1, <1>3, <1>5, <1>6, <2>1, <2>2 DEF Stopped
<1>8. PICK c : c = Char(b, "blank")
  OBVIOUS
<1>9. c = b
  <2>1. ReadStep(b, "blank") = b
    BY <1>1, <1>7, Transitions
  <2> QED BY <1>1, <1>3, <1>7, <1>8, <2>1 DEF Stopped
<1>10. ASSUME NEW t, NEW p \in {0, 1}, Like(t, "modeline", p)
       PROVE  Like(Char(t, "n"), "modeline", p + 1)
  <2>1. ReadStep(t, "n") = [t EXCEPT !.pos = @ + 1]
    <3>1. Name[t.pos + 1] = "n" /\ t.pos # 2 /\ t \in Reader /\ "n" \in Letter
      BY <1>1, <1>2, <1>10
    <3> QED BY <1>10, <3>1, Transitions
  <2>2. [t EXCEPT !.pos = @ + 1] \in Reader
    BY <1>1, <1>10, <2>1, StepIn
  <2>3. Like([t EXCEPT !.pos = @ + 1], "modeline", p + 1)
    BY <1>10, <2>2 DEF Reader
  <2> QED BY <1>1, <1>3, <1>10, <2>1, <2>3 DEF Stopped
<1>11. PICK d : d = Char(c, "n")
  OBVIOUS
<1>12. PICK e : e = Char(d, "n")
  OBVIOUS
<1>13. Like(d, "modeline", 1) /\ Like(e, "modeline", 2)
  <2>1. Like(d, "modeline", 0 + 1)
    BY <1>7, <1>9, <1>10, <1>11
  <2>2. Like(e, "modeline", 1 + 1)
    BY <1>10, <1>12, <2>1
  <2> QED BY <2>1, <2>2
<1>14. PICK f : f = Char(e, ":")
  OBVIOUS
<1>15. Like(f, "delim", 0) /\ f.mode = "line"
  <2>1. ReadStep(e, ":") = [e EXCEPT !.pos = 0, !.state = "delim", !.mode = "line"]
    <3>1. Name[e.pos + 1] = ":" /\ e.pos = 2 /\ e \in Reader /\ ":" \in Letter
      BY <1>1, <1>2, <1>13
    <3> QED BY <1>13, <3>1, Transitions
  <2>2. [e EXCEPT !.pos = 0, !.state = "delim", !.mode = "line"] \in Reader
    BY <1>1, <1>13, <2>1, StepIn
  <2>3. Like([e EXCEPT !.pos = 0, !.state = "delim", !.mode = "line"], "delim", 0)
        /\ [e EXCEPT !.pos = 0, !.state = "delim", !.mode = "line"].mode = "line"
    BY <1>13, <2>2 DEF Reader
  <2>4. e \in Reader /\ ":" \in Letter /\ ReadStep(e, ":").buf = <<>> /\ ~Stopped(e)
    BY <1>1, <1>13, <2>1, <2>3 DEF Stopped
  <2>5. f = ReadStep(e, ":")
    BY <1>3, <1>14, <2>4
  <2> QED BY <2>1, <2>3, <2>5
<1>16. PICK u \in Seq(Letter) : u = <<"-", "-", "blank">> /\ Chars(s, u) = c /\ Len(u) = 3
  <2>1. PICK x \in Letter, y \in Letter : x = "-" /\ y = "blank"
    BY <1>1
  <2>2. <<x, x, y>> \in Seq(Letter) /\ Chars(s, <<x, x, y>>) = Char(Char(Char(s, x), x), y)
    BY ThreeChars
  <2>3. Char(Char(Char(s, x), x), y) = c /\ Len(<<x, x, y>>) = 3
    BY <1>4, <1>6, <1>8, <2>1
  <2> QED BY <2>1, <2>2, <2>3
<1>17. PICK v \in Seq(Letter) : v = Name /\ Chars(c, v) = f /\ Len(v) = 3
  <2>1. PICK x \in Letter, y \in Letter : x = "n" /\ y = ":"
    BY <1>1
  <2>2. c \in Reader
    BY <1>7, <1>9
  <2>3. <<x, x, y>> \in Seq(Letter) /\ Chars(c, <<x, x, y>>) = Char(Char(Char(c, x), x), y)
    BY <2>2, ThreeChars
  <2>4. Char(Char(Char(c, x), x), y) = f
    BY <1>11, <1>12, <1>14, <2>1
  <2>5. Name = <<x, x, y>> /\ Len(<<x, x, y>>) = 3
    BY <2>1 DEF Name
  <2> QED BY <2>3, <2>4, <2>5
<1>18. Chars(s, u \o v) = f /\ u \o v \in Seq(Letter) /\ Len(u \o v) = 6
  <2>1. u \o v \in Seq(Letter) /\ Len(u \o v) = Len(u) + Len(v)
    OBVIOUS
  <2>2. Chars(s, u \o v) = Chars(Chars(s, u), v)
    BY CharsConcat
  <2> QED BY <1>16, <1>17, <2>1, <2>2
<1> QED BY <1>15, <1>16, <1>17, <1>18 DEF Mark

LEMMA ReaderStarts == ReaderStart \in Reader /\ Ready(ReaderStart) /\ ReaderStart.argv = <<>> /\ ReaderStart.state = "init"
<1>1. PICK b : b = <<>> /\ b \in Seq(Letter) /\ b \in Seq(Seq(Letter))
  <2>1. <<>> \in Seq(Letter) /\ <<>> \in Seq(Seq(Letter))
    OBVIOUS
  <2> QED BY <2>1
<1>2. [state |-> "init", mode |-> "none", pos |-> 0, buf |-> b, argv |-> b] \in Reader
  BY <1>1 DEF Reader, ReaderStates
<1> QED BY <1>1, <1>2 DEF ReaderStart, Ready

\* what a cut leaves of one text, and of two
LEMMA CutRight ==
    ASSUME NEW T, NEW a \in Seq(T), NEW n \in Int
    PROVE  /\ Cut(a, n) \in Seq(T)
           /\ n >= Len(a) => Cut(a, n) = a
           /\ n <= 0 => Cut(a, n) = <<>>
           /\ n \in 0..Len(a) => Len(Cut(a, n)) = n /\ \A i \in 1..n : Cut(a, n)[i] = a[i]
<1>1. PICK k \in Nat : k = Len(a) /\ DOMAIN a = 1..k /\ (k = 0 => a = <<>>) /\ SubSeq(a, 1, k) = a
  <2>1. Len(a) \in Nat /\ DOMAIN a = 1..Len(a) /\ (Len(a) = 0 => a = <<>>) /\ SubSeq(a, 1, Len(a)) = a
    OBVIOUS
  <2> QED BY <2>1
<1>2. Cut(a, n) = SubSeq(a, 1, IF n < k THEN n ELSE k)
  BY <1>1 DEF Cut
<1>3. CASE n >= k
  <2>1. (IF n < k THEN n ELSE k) = k /\ (n <= 0 => k = 0) /\ (n \in 0..k => n = k)
    BY <1>3
  <2>2. Cut(a, n) = a
    BY <1>1, <1>2, <2>1
  <2> QED BY <1>1, <2>1, <2>2
<1>4. CASE n < k /\ n > 0
  <2>1. (IF n < k THEN n ELSE k) = n /\ n \in 1..k /\ n \in Nat /\ ~(n >= k) /\ ~(n <= 0)
    BY <1>4
  <2>2. SubSeq(a, 1, n) \in Seq(T) /\ Len(SubSeq(a, 1, n)) = n /\ \A i \in 1..n : SubSeq(a, 1, n)[i] = a[i]
    BY <1>1, <2>1
  <2> QED BY <1>1, <1>2, <2>1, <2>2
<1>5. CASE n < k /\ n <= 0
  <2>1. (IF n < k THEN n ELSE k) = n /\ ~(n >= k) /\ (n \in 0..k => n = 0)
    BY <1>5
  <2>2. SubSeq(a, 1, n) = <<>> /\ <<>> \in Seq(T) /\ Len(<<>>) = 0
    BY <1>5
  <2>3. Cut(a, n) = <<>>
    BY <1>2, <2>1, <2>2
  <2> QED BY <1>1, <2>1, <2>2, <2>3
<1> QED BY <1>3, <1>4, <1>5

LEMMA CutJoined ==
    ASSUME NEW T, NEW a \in Seq(T), NEW b \in Seq(T), NEW n \in Nat
    PROVE  /\ n <= Len(a) => Cut(a \o b, n) = Cut(a, n)
           /\ n >= Len(a) => Cut(a \o b, n) = a \o Cut(b, n - Len(a))
<1>1. PICK c \in Seq(T) : c = a \o b /\ Len(c) = Len(a) + Len(b) /\ Len(a) \in Nat /\ Len(b) \in Nat
                          /\ (\A i \in 1..Len(a) : c[i] = a[i]) /\ \A i \in 1..Len(b) : c[Len(a) + i] = b[i]
  <2>1. a \o b \in Seq(T) /\ Len(a \o b) = Len(a) + Len(b) /\ Len(a) \in Nat /\ Len(b) \in Nat
    OBVIOUS
  <2>2. (\A i \in 1..Len(a) : (a \o b)[i] = a[i]) /\ \A i \in 1..Len(b) : (a \o b)[Len(a) + i] = b[i]
    OBVIOUS
  <2> QED BY <2>1, <2>2
<1>2. PICK x \in Seq(T) : x = Cut(c, n)
  BY CutRight
<1>3. CASE n >= Len(c)
  <2>1. x = c
    BY <1>2, <1>3, CutRight
  <2>2. n >= Len(a) /\ n - Len(a) \in Int /\ n - Len(a) >= Len(b)
    BY <1>1, <1>3
  <2>3. Cut(b, n - Len(a)) = b
    BY <2>2, CutRight
  <2>4. n <= Len(a) => Len(b) = 0 /\ n = Len(a)
    BY <1>1, <1>3
  <2>5. n <= Len(a) => Cut(a, n) = a /\ a \o b = a
    <3>1. Cut(a, Len(a)) = a
      BY <1>1, CutRight
    <3>2. Len(b) = 0 => a \o b = a
      OBVIOUS
    <3> QED BY <2>4, <3>1, <3>2
  <2> QED BY <1>1, <1>2, <2>1, <2>3, <2>5
<1>4. CASE n < Len(c)
  <2>1. n \in 0..Len(c) /\ n \in Int
    BY <1>1, <1>4
  <2>2. Len(x) = n /\ \A i \in 1..n : x[i] = c[i]
    BY <1>2, <2>1, CutRight
  <2>3. CASE n <= Len(a)
    <3>1. PICK y \in Seq(T) : y = Cut(a, n) /\ Len(y) = n /\ \A i \in 1..n : y[i] = a[i]
      <4>1. n \in 0..Len(a)
        BY <1>1, <2>3
      <4> QED BY <2>1, <4>1, CutRight
    <3>2. \A i \in 1..n : i \in 1..Len(a)
      BY <1>1, <2>3
    <3>3. \A i \in 1..n : x[i] = y[i]
      BY <1>1, <2>2, <3>1, <3>2
    <3>4. x = y
      BY <2>2, <3>1, <3>3, SeqEqual
    <3>5. n >= Len(a) => Cut(b, n - Len(a)) = <<>> /\ y = a
      <4>1. n >= Len(a) => n = Len(a) /\ n - Len(a) = 0 /\ 0 \in Int
        BY <1>1, <2>3
      <4>2. Cut(b, 0) = <<>> /\ Cut(a, Len(a)) = a
        BY <1>1, CutRight
      <4> QED BY <3>1, <4>1, <4>2
    <3>6. a \o <<>> = a
      OBVIOUS
    <3> QED BY <1>1, <1>2, <3>1, <3>4, <3>5, <3>6
  <2>4. CASE n > Len(a)
    <3>1. PICK m \in Nat : m = n - Len(a) /\ m <= Len(b) /\ n = Len(a) + m
      <4>1. \A x1, x2, x3 \in Nat : x3 > x1 /\ x3 < x1 + x2 => x3 - x1 \in Nat /\ x3 - x1 <= x2 /\ x3 = x1 + (x3 - x1)
        OBVIOUS
      <4>2. n - Len(a) \in Nat /\ n - Len(a) <= Len(b) /\ n = Len(a) + (n - Len(a))
        BY <1>1, <1>4, <2>4, <4>1
      <4> QED BY <4>2
    <3>2. PICK y \in Seq(T) : y = Cut(b, m) /\ Len(y) = m /\ \A i \in 1..m : y[i] = b[i]
      <4>1. m \in 0..Len(b) /\ m \in Int
        BY <1>1, <3>1
      <4> QED BY <4>1, CutRight
    <3>3. PICK z \in Seq(T) : z = a \o y /\ Len(z) = n /\ (\A i \in 1..Len(a) : z[i] = a[i]) /\ \A i \in 1..m : z[Len(a) + i] = y[i]
      <4>1. a \o y \in Seq(T) /\ Len(a \o y) = Len(a) + Len(y)
        OBVIOUS
      <4>2. (\A i \in 1..Len(a) : (a \o y)[i] = a[i]) /\ \A i \in 1..Len(y) : (a \o y)[Len(a) + i] = y[i]
        OBVIOUS
      <4>3. PICK z \in Seq(T) : z = a \o y
        BY <4>1
      <4>4. Len(z) = n
        BY <3>1, <3>2, <4>1, <4>3
      <4> QED BY <3>2, <4>2, <4>3, <4>4
    <3>4. ASSUME NEW i \in 1..n PROVE x[i] = z[i]
      <4>1. CASE i <= Len(a)
        <5>1. i \in 1..Len(a)
          BY <1>1, <4>1
        <5> QED BY <1>1, <2>2, <3>3, <5>1
      <4>2. CASE i > Len(a)
        <5>1. PICK k \in 1..m : i = Len(a) + k
          <6>1. i - Len(a) \in 1..m /\ i = Len(a) + (i - Len(a))
            BY <1>1, <3>1, <4>2
          <6> QED BY <6>1
        <5>2. k \in 1..Len(b)
          BY <1>1, <3>1
        <5>3. x[i] = c[i] /\ c[i] = b[k]
          BY <1>1, <2>2, <5>1, <5>2
        <5>4. z[i] = y[k] /\ y[k] = b[k]
          BY <3>2, <3>3, <5>1
        <5> QED BY <5>3, <5>4
      <4> QED BY <1>1, <4>1, <4>2
    <3>5. x = z
      BY <2>2, <3>3, <3>4, SeqEqual
    <3> QED BY <1>1, <1>2, <2>4, <3>1, <3>2, <3>3, <3>5
  <2> QED BY <1>1, <2>3, <2>4
<1> QED BY <1>1, <1>3, <1>4

\* a key with its value, as far as it is read
Key == [key : {"k"}, value : Values \cup {<<>>}]
KeyWord == <<"-", "-", "k">>

\* t is what the reader makes of s: in a state, with a buffer and more words
Read(s, t, state, buf, words) ==
    t \in Reader /\ t.state = state /\ t.mode = "line" /\ t.pos = s.pos /\ t.buf = buf /\ t.argv = s.argv \o words

LEMMA WordJoined ==
    ASSUME NEW A \in Seq(Seq(Letter)), NEW B \in Seq(Seq(Letter)), NEW w \in Seq(Letter)
    PROVE  /\ A \o <<>> = A /\ <<w>> \in Seq(Seq(Letter)) /\ B \o <<w>> \in Seq(Seq(Letter))
           /\ Append(A \o B, w) = A \o (B \o <<w>>) /\ Append(A, w) = A \o <<w>>
<1>1. PICK T : T = Seq(Letter)
  OBVIOUS
<1>2. w \in T /\ A \in Seq(T) /\ B \in Seq(T)
  BY <1>1
<1>3. A \o <<>> = A /\ <<w>> \in Seq(T)
  BY <1>2
<1>4. B \o <<w>> \in Seq(T) /\ A \o B \in Seq(T)
  BY <1>2
<1>5. \A C \in Seq(T) : Append(C, w) = C \o <<w>>
  BY <1>2
<1>6. (A \o B) \o <<w>> = A \o (B \o <<w>>)
  BY <1>2, <1>3
<1> QED BY <1>1, <1>2, <1>3, <1>4, <1>5, <1>6

LEMMA ValueRead ==
    ASSUME NEW s \in Reader, s.state = "valuedelim", s.mode = "line", s.buf = <<>>,
           NEW v \in Seq({"v", "n"}), v # <<>>, Len(v) < KeyBuf
    PROVE  v \in Seq(Letter) /\ Read(s, Chars(s, v), "value", v, <<>>)
<1>1. {"v", "n"} \subseteq Letter /\ "value" \in ReaderStates
  BY DEF Letter, ReaderStates
<1>2. v \in Seq(Letter)
  BY <1>1
<1>3. PICK f : CharSteps(s, v, f) /\ Chars(s, v) = f[Len(v)]
  BY <1>2, CharsFrom
<1>4. PICK n \in Nat : n = Len(v) /\ n # 0 /\ n < KeyBuf /\ (\A i \in 1..n : v[i] \in {"v", "n"}) /\ v = [j \in 1..n |-> v[j]]
  <2>1. Len(v) \in Nat /\ Len(v) # 0 /\ (\A i \in 1..Len(v) : v[i] \in {"v", "n"}) /\ v = [j \in 1..Len(v) |-> v[j]]
    OBVIOUS
  <2> QED BY <2>1
<1>5. f \in [0..n -> Reader] /\ f[0] = s /\ \A i \in 1..n : f[i] = Char(f[i - 1], v[i])
  BY <1>3, <1>4 DEF CharSteps
<1> DEFINE B(i) == [j \in 1..i |-> v[j]]
           Q(t, i) == /\ t \in Reader /\ t.state = (IF i = 0 THEN "valuedelim" ELSE "value") /\ t.mode = "line"
                      /\ t.pos = s.pos /\ t.buf = B(i) /\ t.argv = s.argv
           P == {i \in 0..n : Q(f[i], i)}
<1>6. 0 \in P
  <2>1. B(0) = <<>>
    OBVIOUS
  <2> QED BY <1>4, <1>5, <2>1
<1>7. ASSUME NEW i \in 1..n, i - 1 \in P PROVE i \in P
  <2>1. i \in 0..n /\ i - 1 \in 0..n /\ i # 0 /\ i \in Nat /\ i - 1 \in Nat /\ i < KeyBuf
    BY <1>4, KeyBufAssumption
  <2>2. PICK t \in Reader : t = f[i - 1] /\ Q(t, i - 1)
    BY <1>7
  <2>3. PICK c \in Letter : c = v[i] /\ c \in {"v", "n"}
    BY <1>1, <1>4
  <2>4. PICK b \in Seq(Letter) : b = B(i - 1)
    <3>1. \A j \in 1..(i - 1) : v[j] \in Letter
      <4>1. \A j \in 1..(i - 1) : j \in 1..n
        BY <1>4, <2>1
      <4> QED BY <1>1, <1>4, <4>1
    <3>2. B(i - 1) \in Seq(Letter)
      BY <2>1, <3>1
    <3> QED BY <3>2
  <2>5. Append(b, c) = B(i) /\ Len(Append(b, c)) = i
    BY <2>1, <2>3, <2>4
  <2> HIDE DEF B
  <2>6. ReadStep(t, c) = Keep(t, "value", c)
    BY <2>2, <2>3, Transitions
  <2>7. PICK r : r = Keep(t, "value", c)
    OBVIOUS
  <2>8. Q(r, i)
    <3>1. r \in Reader /\ r.state = "value" /\ r.buf = Append(t.buf, c) /\ r.mode = t.mode /\ r.pos = t.pos /\ r.argv = t.argv
      BY <1>1, <2>7, KeepRight
    <3> QED BY <2>1, <2>2, <2>4, <2>5, <3>1
  <2>9. Char(t, c) = r
    <3>1. Len(r.buf) < KeyBuf
      BY <2>1, <2>5, <2>8
    <3>2. ~Stopped(t)
      BY <2>2 DEF Stopped
    <3> QED BY <2>6, <2>7, <3>1, <3>2, CharFits
  <2>10. f[i] = r
    BY <1>5, <2>2, <2>3, <2>9
  <2> QED BY <2>1, <2>8, <2>10
<1>8. Q(f[n], n)
  <2>1. P \in SUBSET (0..n) /\ n \in 0..n
    BY <1>4
  <2>2. n \in P => Q(f[n], n)
    OBVIOUS
  <2> HIDE DEF P, Q
  <2> QED BY <1>4, <1>6, <1>7, <2>1, <2>2, NumberInduction
<1>9. s.argv \o <<>> = s.argv
  <2>1. s.argv \in Seq(Seq(Letter))
    BY ReaderParts
  <2> QED BY <2>1, <1>2, WordJoined
<1> QED BY <1>2, <1>3, <1>4, <1>8, <1>9 DEF Read

\* what is pushed, at a colon or at the end of the line
LEMMA Pushed ==
    ASSUME NEW s \in Reader, NEW t, NEW q \in {"key", "value"}, NEW b \in Seq(Letter), NEW W \in Seq(Seq(Letter)),
           Read(s, t, q, b, W)
    PROVE  /\ Read(s, Char(t, ":"), "delim", <<>>, W \o <<b>>)
           /\ Read(s, EndOfLine(t), "newline", <<>>, W \o <<b>>)
           /\ q = "key" => Read(s, Char(t, "="), "valuedelim", <<>>, W \o <<b>>)
<1>1. ":" \in Letter /\ "=" \in Letter /\ {"delim", "newline", "valuedelim"} \subseteq ReaderStates /\ Len(<<>>) = 0
  BY DEF Letter, ReaderStates
<1>2. t \in Reader /\ t.state = q /\ t.mode = "line" /\ t.pos = s.pos /\ t.buf = b /\ t.argv = s.argv \o W
  BY DEF Read
<1>3. Append(s.argv \o W, b) = s.argv \o (W \o <<b>>)
  <2>1. s.argv \in Seq(Seq(Letter))
    BY ReaderParts
  <2> QED BY <2>1, WordJoined
<1>4. \A state \in {"delim", "newline", "valuedelim"} : Read(s, Push(t, state), state, <<>>, W \o <<b>>)
  <2> SUFFICES ASSUME NEW state \in {"delim", "newline", "valuedelim"} PROVE Read(s, Push(t, state), state, <<>>, W \o <<b>>)
    OBVIOUS
  <2>1. PICK r : r = Push(t, state)
    OBVIOUS
  <2>2. r \in Reader /\ r.state = state /\ r.buf = <<>> /\ r.argv = Append(t.argv, t.buf) /\ r.mode = t.mode /\ r.pos = t.pos
    BY <1>1, <1>2, <2>1, PushRight
  <2> QED BY <1>2, <1>3, <2>1, <2>2 DEF Read
<1>5. ~Stopped(t)
  BY <1>2 DEF Stopped
<1>6. ASSUME NEW c \in Letter, NEW state \in {"delim", "valuedelim"}, ReadStep(t, c) = Push(t, state)
      PROVE  Char(t, c) = Push(t, state)
  <2>1. PICK r : r = Push(t, state)
    OBVIOUS
  <2>2. r.buf = <<>>
    BY <1>4, <2>1 DEF Read
  <2>3. Len(r.buf) < KeyBuf
    BY <1>1, <2>2, KeyBufAssumption
  <2> QED BY <1>2, <1>5, <1>6, <2>1, <2>3, CharFits
<1>7. ReadStep(t, ":") = Push(t, "delim") /\ (q = "key" => ReadStep(t, "=") = Push(t, "valuedelim"))
  BY <1>1, <1>2, Transitions
<1>8. EndOfLine(t) = Push(t, "newline")
  BY <1>2 DEF EndOfLine
<1> QED BY <1>1, <1>4, <1>6, <1>7, <1>8

\* a key that has been begun
LEMMA KeyBegun ==
    ASSUME NEW s \in Reader, s.state = "delim", s.mode = "line", s.buf = <<>>
    PROVE  /\ KeyWord \in Seq(Letter) /\ <<"k">> \in Seq(Letter) /\ <<"k", "=">> \in Seq(Letter)
           /\ Read(s, Chars(s, <<"k">>), "key", KeyWord, <<>>)
           /\ Read(s, Chars(s, <<"k", "=">>), "valuedelim", <<>>, <<KeyWord>>)
           /\ \A u \in Seq({"v", "n"}) : u # <<>> /\ Len(u) < KeyBuf =>
                u \in Seq(Letter) /\ Read(s, Chars(s, <<"k", "=">> \o u), "value", u, <<KeyWord>>)
<1>1. PICK k \in Letter, e \in Letter : k = "k" /\ e = "="
  BY DEF Letter
<1>2. PICK key \in Seq(Letter) : key = KeyWord /\ Len(key) = 3
  <2>1. {"-", "k"} \subseteq Letter
    BY DEF Letter
  <2>2. <<"-", "-", "k">> \in Seq(Letter) /\ Len(<<"-", "-", "k">>) = 3
    BY <2>1
  <2> QED BY <2>2 DEF KeyWord
<1>3. PICK A \in Seq(Seq(Letter)) : A = s.argv /\ A \o <<>> = A /\ <<key>> \in Seq(Seq(Letter)) /\ <<>> \o <<key>> = <<key>>
  <2>1. s.argv \in Seq(Seq(Letter))
    BY ReaderParts
  <2>2. <<>> \in Seq(Seq(Letter)) /\ <<>> \o <<key>> = <<key>>
    OBVIOUS
  <2> QED BY <2>1, <2>2, WordJoined
<1>4. PICK a : a = Char(s, k)
  OBVIOUS
<1>5. Read(s, a, "key", key, <<>>)
  <2>1. ReadStep(s, k) = FirstOfKey(s, k)
    BY <1>1, Transitions
  <2>2. PICK r : r = FirstOfKey(s, k)
    OBVIOUS
  <2>3. r \in Reader /\ r.state = "key" /\ r.mode = "line" /\ r.pos = s.pos /\ r.buf = key /\ r.argv = s.argv
    BY <1>1, <1>2, <2>2, FirstOfKeyRight DEF KeyWord
  <2>4. a = r
    <3>1. Len(r.buf) <= 3
      <4>1. Len(r.buf) = 3
        BY <1>2, <2>3
      <4> QED BY <4>1
    <3>2. ~Stopped(s)
      BY DEF Stopped
    <3> QED BY <1>4, <2>1, <2>2, <3>1, <3>2, CharIs
  <2> QED BY <1>3, <2>3, <2>4 DEF Read
<1>6. PICK b : b = Char(a, e)
  OBVIOUS
<1>7. Read(s, b, "valuedelim", <<>>, <<key>>)
  <2>1. PICK W \in Seq(Seq(Letter)) : W = <<>>
    <3>1. <<>> \in Seq(Seq(Letter))
      OBVIOUS
    <3> QED BY <3>1
  <2>2. Read(s, a, "key", key, W)
    BY <1>5, <2>1
  <2>3. Read(s, Char(a, "="), "valuedelim", <<>>, W \o <<key>>)
    BY <2>2, Pushed
  <2> QED BY <1>1, <1>3, <1>6, <2>1, <2>3
<1>8. PICK w1 \in Seq(Letter) : w1 = <<"k">> /\ Chars(s, w1) = a
  BY <1>1, <1>4, OneChar
<1>9. PICK w2 \in Seq(Letter) : w2 = <<"k", "=">> /\ Chars(s, w2) = b
  BY <1>1, <1>4, <1>6, TwoChars
<1>10. ASSUME NEW u \in Seq({"v", "n"}), u # <<>>, Len(u) < KeyBuf
       PROVE  u \in Seq(Letter) /\ Read(s, Chars(s, w2 \o u), "value", u, <<key>>)
  <2>1. b \in Reader /\ b.state = "valuedelim" /\ b.mode = "line" /\ b.buf = <<>> /\ b.pos = s.pos /\ b.argv = A \o <<key>>
    BY <1>3, <1>7 DEF Read
  <2>2. u \in Seq(Letter) /\ Read(b, Chars(b, u), "value", u, <<>>)
    BY <1>10, <2>1, ValueRead
  <2>3. Chars(s, w2 \o u) = Chars(b, u)
    BY <1>9, <2>2, CharsConcat
  <2>4. b.argv \o <<>> = b.argv
    BY <2>1, ReaderParts, <1>2, WordJoined
  <2> QED BY <1>3, <2>1, <2>2, <2>3, <2>4 DEF Read
<1> QED BY <1>2, <1>5, <1>7, <1>8, <1>9, <1>10

\* a key that is cut after e characters
CutKey(k, e) == [k EXCEPT !.value = Cut(@, e - 2)]

\* what a modeline has after its mark
KeyLetter == {"k", "=", "v", "n", ":"}

LEMMA KeyRight ==
    ASSUME NEW k \in Key
    PROVE  /\ k.value \in Seq({"v", "n"}) /\ k.value \in Seq(Letter) /\ (k.value # <<>> => Len(k.value) < KeyBuf)
           /\ Word(k) \in Seq(KeyLetter) /\ Word(k) \o <<":">> \in Seq(KeyLetter)
           /\ Word(k) \in Seq(Letter) /\ Word(k) \o <<":">> \in Seq(Letter)
           /\ Len(Word(k)) \in Nat /\ Len(Word(k) \o <<":">>) = Len(Word(k)) + 1
           /\ Len(Word(k)) = (IF k.value = <<>> THEN 1 ELSE Len(k.value) + 2)
           /\ WordsOf(k) = <<KeyWord>> \o (IF k.value = <<>> THEN <<>> ELSE <<k.value>>)
           /\ \A e \in Int : WordsOf(CutKey(k, e)) = <<KeyWord>> \o (IF Cut(k.value, e - 2) = <<>> THEN <<>> ELSE <<Cut(k.value, e - 2)>>)
<1>1. PICK v \in Seq({"v", "n"}) : v = k.value /\ (v # <<>> => Len(v) < KeyBuf)
  <2>1. <<>> \in Seq({"v", "n"})
    OBVIOUS
  <2>2. k.value \in Values \cup {<<>>}
    BY DEF Key
  <2> QED BY <2>1, <2>2, ValuesAssumption
<1>2. {"v", "n"} \subseteq KeyLetter /\ KeyLetter \subseteq Letter
  BY DEF KeyLetter, Letter
<1>3. PICK w \in Seq(KeyLetter) : w = Word(k) /\ Len(w) = (IF v = <<>> THEN 1 ELSE Len(v) + 2)
  <2>1. CASE v = <<>>
    <3>1. <<"k">> \in Seq(KeyLetter) /\ Len(<<"k">>) = 1
      BY DEF KeyLetter
    <3> QED BY <1>1, <2>1, <3>1 DEF Word
  <2>2. CASE v # <<>>
    <3>1. PICK h \in Seq(KeyLetter) : h = <<"k", "=">> /\ Len(h) = 2
      <4>1. <<"k", "=">> \in Seq(KeyLetter) /\ Len(<<"k", "=">>) = 2
        BY DEF KeyLetter
      <4> QED BY <4>1
    <3>2. v \in Seq(KeyLetter)
      BY <1>2
    <3>3. h \o v \in Seq(KeyLetter) /\ Len(h \o v) = Len(h) + Len(v)
      BY <3>2
    <3>4. Len(h \o v) = Len(v) + 2
      <4>1. Len(v) \in Nat
        OBVIOUS
      <4> QED BY <3>1, <3>3, <4>1
    <3>5. Word(k) = h \o v
      BY <1>1, <2>2, <3>1 DEF Word
    <3> QED BY <2>2, <3>3, <3>4, <3>5
  <2> QED BY <2>1, <2>2
<1>4. w \o <<":">> \in Seq(KeyLetter) /\ Len(w \o <<":">>) = Len(w) + 1
  <2>1. ":" \in KeyLetter
    BY DEF KeyLetter
  <2> QED BY <2>1
<1>5. \A x \in Seq(KeyLetter) : x \in Seq(Letter) /\ Len(x) \in Nat
  BY <1>2
<1>6. v \in Seq(Letter)
  BY <1>2
<1>7. \A e \in Int : CutKey(k, e).value = Cut(v, e - 2)
  BY <1>1 DEF CutKey, Key
<1>8. \A r : WordsOf(r) = <<KeyWord>> \o (IF r.value = <<>> THEN <<>> ELSE <<r.value>>)
  BY DEF WordsOf, KeyWord
<1> QED BY <1>1, <1>3, <1>4, <1>5, <1>6, <1>7, <1>8

LEMMA KeyWords ==
    ASSUME NEW k \in Key
    PROVE  WordsOf(k) \in Seq(Seq(Letter)) /\ \A e \in Int : WordsOf(CutKey(k, e)) \in Seq(Seq(Letter))
<1>1. KeyWord \in Seq(Letter)
  <2>1. {"-", "k"} \subseteq Letter
    BY DEF Letter
  <2> QED BY <2>1 DEF KeyWord
<1>2. \A v \in Seq(Letter) : <<KeyWord>> \o (IF v = <<>> THEN <<>> ELSE <<v>>) \in Seq(Seq(Letter))
  <2> SUFFICES ASSUME NEW v \in Seq(Letter) PROVE <<KeyWord>> \o (IF v = <<>> THEN <<>> ELSE <<v>>) \in Seq(Seq(Letter))
    OBVIOUS
  <2>1. PICK T : T = Seq(Letter)
    OBVIOUS
  <2>2. PICK key \in T : key = KeyWord
    BY <1>1, <2>1
  <2>3. <<key>> \in Seq(T) /\ <<key>> \o <<>> = <<key>>
    OBVIOUS
  <2>4. v \in T
    BY <2>1
  <2>5. <<key>> \o <<v>> \in Seq(T)
    BY <2>4
  <2> QED BY <2>1, <2>2, <2>3, <2>5
<1>3. \A e \in Int : Cut(k.value, e - 2) \in Seq(Letter)
  <2> SUFFICES ASSUME NEW e \in Int PROVE Cut(k.value, e - 2) \in Seq(Letter)
    OBVIOUS
  <2>1. PICK v \in Seq(Letter) : v = k.value
    BY KeyRight
  <2>2. PICK i \in Int : i = e - 2
    OBVIOUS
  <2> QED BY <2>1, <2>2, CutRight
<1> QED BY <1>2, <1>3, KeyRight

\* a whole key, with the colon after it
LEMMA KeyRead ==
    ASSUME NEW s \in Reader, s.state = "delim", s.mode = "line", s.buf = <<>>, NEW k \in Key
    PROVE  Read(s, Chars(s, Word(k) \o <<":">>), "delim", <<>>, WordsOf(k))
<1>1. PICK key \in Seq(Letter) : key = KeyWord
  BY KeyBegun
<1>2. PICK v \in Seq({"v", "n"}) : v = k.value /\ v \in Seq(Letter) /\ (v # <<>> => Len(v) < KeyBuf)
  BY KeyRight
<1>3. PICK W \in Seq(Seq(Letter)), one \in Seq(Seq(Letter)) : W = <<>> /\ one = <<key>> /\ W \o <<key>> = one
  <2>1. PICK T : T = Seq(Letter)
    OBVIOUS
  <2>2. key \in T
    BY <2>1
  <2>3. <<>> \in Seq(T) /\ <<key>> \in Seq(T) /\ <<>> \o <<key>> = <<key>>
    BY <2>2
  <2> QED BY <2>1, <2>3
<1>4. ":" \in Letter
  BY DEF Letter
<1>5. ASSUME NEW w \in Seq(Letter)
      PROVE  Chars(s, w \o <<":">>) = Char(Chars(s, w), ":")
  <2>1. w \o <<":">> = Append(w, ":")
    OBVIOUS
  <2> QED BY <1>4, <2>1, CharsAppend
<1>6. CASE v = <<>>
  <2>1. PICK w \in Seq(Letter) : w = <<"k">> /\ Read(s, Chars(s, w), "key", key, W)
    BY <1>1, <1>3, KeyBegun
  <2>2. Word(k) = w
    BY <1>2, <1>6, <2>1 DEF Word
  <2>3. Read(s, Char(Chars(s, w), ":"), "delim", <<>>, W \o <<key>>)
    BY <2>1, Pushed
  <2>4. WordsOf(k) = W \o <<key>>
    <3>1. one \o <<>> = one
      OBVIOUS
    <3> QED BY <1>1, <1>2, <1>3, <1>6, <3>1, KeyRight
  <2> QED BY <1>5, <2>2, <2>3, <2>4
<1>7. CASE v # <<>>
  <2>1. Read(s, Chars(s, <<"k", "=">> \o v), "value", v, one)
    BY <1>1, <1>2, <1>3, <1>7, KeyBegun
  <2>2. PICK w \in Seq(Letter) : w = Word(k) /\ w = <<"k", "=">> \o v
    BY <1>2, <1>7, KeyRight DEF Word
  <2>3. Read(s, Char(Chars(s, w), ":"), "delim", <<>>, one \o <<v>>)
    BY <1>2, <2>1, <2>2, Pushed
  <2>4. WordsOf(k) = one \o <<v>>
    BY <1>1, <1>2, <1>3, <1>7, KeyRight
  <2> QED BY <1>5, <2>2, <2>3, <2>4
<1> QED BY <1>6, <1>7

LEMMA ThreeJoined ==
    ASSUME NEW T, NEW a \in Seq(T), NEW b \in Seq(T), NEW c \in Seq(T)
    PROVE  a \o (b \o c) = (a \o b) \o c
OBVIOUS

LEMMA TextsJoined ==
    ASSUME NEW a \in Seq(Letter), NEW b \in Seq(Letter), NEW c \in Seq(Letter)
    PROVE  (a \o b) \o c = a \o (b \o c) /\ a \o b \in Seq(Letter) /\ b \o c \in Seq(Letter)
<1>1. a \o b \in Seq(Letter) /\ b \o c \in Seq(Letter)
  OBVIOUS
<1>2. (a \o b) \o c = a \o (b \o c)
  OBVIOUS
<1> QED BY <1>1, <1>2

LEMMA WordParts ==
    ASSUME NEW k \in Key, k.value # <<>>
    PROVE  k.value \o <<":">> \in Seq(Letter) /\ Word(k) \o <<":">> = <<"k", "=">> \o (k.value \o <<":">>)
<1>6. <<"k", "=">> \in Seq(Letter) /\ <<":">> \in Seq(Letter)
  <2>1. {"k", "=", ":"} \subseteq Letter
    BY DEF Letter
  <2> QED BY <2>1
<1>1. PICK a \in Seq(Letter) : a = <<"k", "=">>
  BY <1>6
<1>2. PICK b \in Seq(Letter) : b = k.value
  BY KeyRight
<1>3. PICK c \in Seq(Letter) : c = <<":">>
  BY <1>6
<1>4. Word(k) = a \o b
  BY <1>1, <1>2 DEF Word
<1>5. (a \o b) \o c = a \o (b \o c) /\ b \o c \in Seq(Letter)
  BY TextsJoined
<1> QED BY <1>1, <1>2, <1>3, <1>4, <1>5

\* a key that is cut off
LEMMA KeyCut ==
    ASSUME NEW s \in Reader, s.state = "delim", s.mode = "line", s.buf = <<>>, NEW k \in Key,
           NEW e \in 1..(Len(Word(k)) + 1)
    PROVE  \E q \in {"newline", "delim", "valuedelim"} :
             Read(s, EndOfLine(Chars(s, Cut(Word(k) \o <<":">>, e))), q, <<>>, WordsOf(CutKey(k, e)))
<1>1. PICK key \in Seq(Letter) : key = KeyWord
  BY KeyBegun
<1>2. PICK v \in Seq({"v", "n"}) : v = k.value /\ v \in Seq(Letter) /\ (v # <<>> => Len(v) < KeyBuf)
  BY KeyRight
<1>3. PICK W \in Seq(Seq(Letter)), one \in Seq(Seq(Letter)) : W = <<>> /\ one = <<key>> /\ W \o <<key>> = one /\ one \o <<>> = one
  <2>1. PICK T : T = Seq(Letter)
    OBVIOUS
  <2>2. key \in T
    BY <2>1
  <2>3. <<>> \in Seq(T) /\ <<key>> \in Seq(T) /\ <<>> \o <<key>> = <<key>> /\ <<key>> \o <<>> = <<key>>
    BY <2>2
  <2> QED BY <2>1, <2>3
<1>4. PICK w1 \in Seq(Letter), w2 \in Seq(Letter), c \in Seq(Letter) :
        w1 = <<"k">> /\ w2 = <<"k", "=">> /\ c = <<":">> /\ Len(w1) = 1 /\ Len(w2) = 2 /\ Len(c) = 1
  <2>1. {"k", "=", ":"} \subseteq Letter
    BY DEF Letter
  <2>2. <<"k">> \in Seq(Letter) /\ <<"k", "=">> \in Seq(Letter) /\ <<":">> \in Seq(Letter)
        /\ Len(<<"k">>) = 1 /\ Len(<<"k", "=">>) = 2 /\ Len(<<":">>) = 1
    BY <2>1
  <2> QED BY <2>2
<1>13. PICK i \in Int : i = e - 2
  OBVIOUS
<1>5. PICK u \in Seq({"v", "n"}) : u = Cut(v, i) /\ WordsOf(CutKey(k, e)) = one \o (IF u = <<>> THEN <<>> ELSE <<u>>)
  <2>1. e \in Int
    OBVIOUS
  <2>2. WordsOf(CutKey(k, e)) = <<KeyWord>> \o (IF Cut(v, i) = <<>> THEN <<>> ELSE <<Cut(v, i)>>)
    BY <1>2, <1>13, <2>1, KeyRight
  <2>3. PICK u \in Seq({"v", "n"}) : u = Cut(v, i)
    BY CutRight
  <2> QED BY <1>1, <1>3, <2>2, <2>3
<1>6. PICK x \in Seq(Letter) : x = Cut(Word(k) \o c, e)
  <2>1. e \in Int
    OBVIOUS
  <2>2. Word(k) \o c \in Seq(Letter)
    BY <1>4, KeyRight
  <2> QED BY <2>1, <2>2, CutRight
\* what has been read of the key
<1>7. ASSUME x = w1, u = <<>>
      PROVE  Read(s, EndOfLine(Chars(s, x)), "newline", <<>>, WordsOf(CutKey(k, e)))
  <2>1. Read(s, Chars(s, w1), "key", key, W)
    BY <1>1, <1>3, <1>4, KeyBegun
  <2>2. Read(s, EndOfLine(Chars(s, w1)), "newline", <<>>, W \o <<key>>)
    BY <2>1, Pushed
  <2> QED BY <1>3, <1>5, <1>7, <2>2
<1>8. ASSUME x = w2, u = <<>>
      PROVE  Read(s, EndOfLine(Chars(s, x)), "valuedelim", <<>>, WordsOf(CutKey(k, e)))
  <2>1. Read(s, Chars(s, w2), "valuedelim", <<>>, one)
    BY <1>1, <1>3, <1>4, KeyBegun
  <2>2. EndOfLine(Chars(s, w2)) = Chars(s, w2)
    BY <2>1 DEF Read, EndOfLine
  <2> QED BY <1>3, <1>5, <1>8, <2>1, <2>2
<1>9. ASSUME x = w2 \o u, u # <<>>, Len(u) < KeyBuf
      PROVE  Read(s, EndOfLine(Chars(s, x)), "newline", <<>>, WordsOf(CutKey(k, e)))
  <2>1. u \in Seq(Letter) /\ Read(s, Chars(s, w2 \o u), "value", u, one)
    BY <1>1, <1>3, <1>4, <1>9, KeyBegun
  <2>2. Read(s, EndOfLine(Chars(s, w2 \o u)), "newline", <<>>, one \o <<u>>)
    BY <2>1, Pushed
  <2> QED BY <1>5, <1>9, <2>2
<1>10. ASSUME x = Word(k) \o c, u = v
       PROVE  Read(s, EndOfLine(Chars(s, x)), "delim", <<>>, WordsOf(CutKey(k, e)))
  <2>1. Read(s, Chars(s, x), "delim", <<>>, WordsOf(k))
    BY <1>4, <1>10, KeyRead
  <2>2. EndOfLine(Chars(s, x)) = Chars(s, x)
    BY <2>1 DEF Read, EndOfLine
  <2>3. WordsOf(CutKey(k, e)) = WordsOf(k)
    BY <1>1, <1>2, <1>3, <1>5, <1>10, KeyRight
  <2> QED BY <2>1, <2>2, <2>3
\* how far that is
<1>11. CASE v = <<>>
  <2>1. Word(k) = w1
    BY <1>2, <1>4, <1>11 DEF Word
  <2>2. u = <<>>
    <3>1. Len(v) = 0
      BY <1>11
    <3>2. i >= 0 \/ i <= 0
      OBVIOUS
    <3>3. i >= 0 => Cut(v, i) = v
      BY <3>1, CutRight
    <3>4. i <= 0 => Cut(v, i) = <<>>
      BY CutRight
    <3> QED BY <1>5, <1>11, <3>2, <3>3, <3>4
  <2>3. e = 1 \/ e = 2
    BY <1>4, <2>1
  <2>4. e = 1 => x = w1
    <3>1. 1 \in Nat /\ 1 <= Len(w1) /\ 1 \in Int /\ 1 >= Len(w1)
      BY <1>4
    <3>2. Cut(w1 \o c, 1) = Cut(w1, 1) /\ Cut(w1, 1) = w1
      BY <3>1, CutJoined, CutRight
    <3> QED BY <1>6, <2>1, <3>2
  <2>5. e = 2 => x = Word(k) \o c
    <3>1. w1 \o c \in Seq(Letter) /\ Len(w1 \o c) = Len(w1) + Len(c)
      OBVIOUS
    <3>5. Len(w1) + Len(c) = 2
      BY <1>4
    <3>3. PICK y \in Seq(Letter) : y = w1 \o c /\ Len(y) = 2
      BY <3>1, <3>5
    <3>4. 2 >= Len(y) /\ 2 \in Int
      BY <3>3
    <3>2. Cut(w1 \o c, 2) = w1 \o c
      BY <3>3, <3>4, CutRight
    <3> QED BY <1>6, <2>1, <3>2
  <2> QED BY <1>7, <1>10, <1>4, <1>6, <1>11, <2>2, <2>3, <2>4, <2>5
<1>12. CASE v # <<>>
  <2>1. PICK n \in Nat : n = Len(v) /\ Len(Word(k)) = n + 2 /\ n < KeyBuf /\ n # 0
    <3>1. Len(v) \in Nat /\ (Len(v) = 0 => v = <<>>)
      OBVIOUS
    <3> QED BY <1>2, <1>12, <3>1, KeyRight
  <2>2. PICK d \in Seq(Letter) : d = v \o c /\ Word(k) \o c = w2 \o d
    <3>1. v \o c \in Seq(Letter) /\ Word(k) \o c = w2 \o (v \o c)
      BY <1>2, <1>4, <1>12, WordParts
    <3> QED BY <3>1
  <2>9. \A m \in Nat : /\ m <= 2 => Cut(w2 \o d, m) = Cut(w2, m)
                       /\ m >= 2 => Cut(w2 \o d, m) = w2 \o Cut(d, m - 2)
    <3> SUFFICES ASSUME NEW m \in Nat
                 PROVE  /\ m <= 2 => Cut(w2 \o d, m) = Cut(w2, m)
                        /\ m >= 2 => Cut(w2 \o d, m) = w2 \o Cut(d, m - 2)
      OBVIOUS
    <3>1. /\ m <= Len(w2) => Cut(w2 \o d, m) = Cut(w2, m)
          /\ m >= Len(w2) => Cut(w2 \o d, m) = w2 \o Cut(d, m - Len(w2))
      BY CutJoined
    <3>2. Len(w2) = 2
      BY <1>4
    <3> QED BY <3>1, <3>2
  <2>10. x = Cut(w2 \o d, e)
    BY <1>6, <2>2
  <2>3. e \in 1..(n + 3) /\ e \in Nat /\ e - 2 \in Int
    BY <2>1
  <2>4. CASE e = 1
    <3>1. x = Cut(w2, 1)
      <4>1. 1 \in Nat /\ 1 <= 2
        OBVIOUS
      <4> QED BY <2>4, <2>9, <2>10, <4>1
    <3>2. Cut(w2, 1) = w1
      <4>1. PICK y \in Seq(Letter) : y = Cut(w2, 1) /\ Len(y) = 1 /\ y[1] = w2[1]
        <5>1. 1 \in Int /\ 1 \in 0..2 /\ 1 \in 1..1
          OBVIOUS
        <5>2. Cut(w2, 1) \in Seq(Letter) /\ Len(Cut(w2, 1)) = 1 /\ \A j \in 1..1 : Cut(w2, 1)[j] = w2[j]
          BY <1>4, <5>1, CutRight
        <5> QED BY <5>1, <5>2
      <4>2. y[1] = "k"
        BY <1>4, <4>1
      <4> QED BY <1>4, <4>1, <4>2
    <3>3. u = <<>>
      <4>1. i <= 0
        BY <1>13, <2>4
      <4> QED BY <1>5, <4>1, CutRight
    <3> QED BY <1>4, <1>6, <1>7, <3>1, <3>2, <3>3
  <2>5. CASE e = 2
    <3>1. x = Cut(w2, 2)
      <4>1. 2 \in Nat /\ 2 <= 2
        OBVIOUS
      <4> QED BY <2>5, <2>9, <2>10, <4>1
    <3>2. Cut(w2, 2) = w2
      <4>1. 2 \in Int /\ 2 >= Len(w2)
        BY <1>4
      <4> QED BY <4>1, CutRight
    <3>3. u = <<>>
      <4>1. i <= 0
        BY <1>13, <2>5
      <4> QED BY <1>5, <4>1, CutRight
    <3> QED BY <1>4, <1>6, <1>8, <3>1, <3>2, <3>3
  <2>6. CASE e \in 3..(n + 2)
    <3>1. PICK m \in 1..n : m = i /\ m = e - 2
      <4>1. e - 2 \in 1..n
        BY <2>6
      <4> QED BY <1>13, <4>1
    <3>2. m \in Nat /\ m \in Int /\ m \in 0..n /\ m # 0 /\ m <= n
      BY <2>1
    <3>3. x = w2 \o Cut(d, m)
      <4>1. e >= 2 /\ e \in Nat
        BY <2>3, <2>6
      <4> QED BY <2>9, <2>10, <3>1, <4>1
    <3>4. Cut(d, m) = Cut(v, m)
      <4>1. PICK y \in Seq(Letter) : y = v /\ Len(y) = n
        BY <1>2, <2>1
      <4>2. Cut(y \o c, m) = Cut(y, m)
        BY <3>2, <4>1, CutJoined
      <4> QED BY <2>2, <4>1, <4>2
    <3>5. Len(u) = m
      <4>1. m \in Int /\ m \in 0..Len(v)
        BY <2>1, <3>2
      <4> QED BY <1>5, <3>1, <4>1, CutRight
    <3>6. u # <<>> /\ Len(u) < KeyBuf
      <4>1. Len(<<>>) = 0
        OBVIOUS
      <4> QED BY <2>1, <3>2, <3>5, <4>1, KeyBufAssumption
    <3> QED BY <1>4, <1>5, <1>6, <1>9, <3>1, <3>3, <3>4, <3>6
  <2>7. CASE e = n + 3
    <3>1. x = Word(k) \o c
      <4>1. Word(k) \o c \in Seq(Letter) /\ Len(Word(k) \o c) = Len(Word(k)) + 1
        BY <1>4, KeyRight
      <4>2. PICK y \in Seq(Letter) : y = Word(k) \o c /\ Len(y) = (n + 2) + 1
        BY <2>1, <4>1
      <4>3. e \in Int /\ e >= Len(y)
        BY <2>1, <2>7, <4>2
      <4> QED BY <1>6, <4>2, <4>3, CutRight
    <3>2. u = v
      <4>1. i >= Len(v)
        BY <1>13, <2>1, <2>7
      <4> QED BY <1>5, <4>1, CutRight
    <3> QED BY <1>4, <1>6, <1>10, <3>1, <3>2
  <2>8. e = 1 \/ e = 2 \/ e \in 3..(n + 2) \/ e = n + 3
    BY <2>1, <2>3
  <2> QED BY <2>4, <2>5, <2>6, <2>7, <2>8
<1> QED BY <1>11, <1>12

-----------------------------------------------------------------------------
\* a line in pieces
LEMMA PieceLenRight == PieceLen \in Nat /\ PieceLen > 7
BY ReadBufAssumption DEF PieceLen

\* pieces begin that far apart
LEMMA Times ==
    ASSUME NEW r \in Nat, NEW a \in Nat, NEW b \in Nat
    PROVE  (b <= a => r * b <= r * a) /\ (a < b => r * a + r <= r * b)
OBVIOUS

LEMMA PiecesApart ==
    ASSUME NEW r \in Nat, r > 1, NEW p \in Nat, NEW q \in Nat, p % r = 1, q % r = 1, p < q
    PROVE  p + r <= q
<1>1. \A n \in Nat : n \div r \in Nat /\ n = r * (n \div r) + (n % r)
  OBVIOUS
<1>2. PICK a \in Nat : p = r * a + 1
  BY <1>1
<1>3. PICK b \in Nat : q = r * b + 1
  BY <1>1
<1>4. a < b
  BY <1>2, <1>3, Times
<1>5. r * a + r <= r * b
  BY <1>4, Times
<1> QED BY <1>2, <1>3, <1>5

LEMMA PieceRight ==
    ASSUME NEW l \in Seq(Letter), NEW p \in 1..Len(l)
    PROVE  LET q == PieceAt(l, p) IN
           /\ q \in Seq(Letter) /\ q # <<>> /\ q[1] = l[p]
           /\ Looked(q) \in Seq(Letter) /\ Looked(q) # <<>> /\ Looked(q)[1] = l[p]
           /\ AtEnd(q) => Len(l) < p + PieceLen /\ Last(l) # "\n"
<1>1. PICK R \in Nat : R = PieceLen /\ R > 7
  BY PieceLenRight
<1>2. PICK n \in Nat : n = Len(l) /\ p \in 1..n /\ p \in Nat
  OBVIOUS
<1>3. PICK z \in p..n : z = IF n < p + R THEN n ELSE p + R - 1
  <2>1. (IF n < p + R THEN n ELSE p + R - 1) \in p..n
    BY <1>1, <1>2
  <2> QED BY <2>1
<1>4. PICK q : q = PieceAt(l, p)
  OBVIOUS
<1>5. q = SubSeq(l, p, z)
  BY <1>1, <1>2, <1>3, <1>4 DEF PieceAt
<1>6. PICK m \in Nat : m = z - p + 1 /\ m > 0
  <2>1. z - p + 1 \in Nat /\ z - p + 1 > 0
    BY <1>2, <1>3
  <2> QED BY <2>1
<1>7. q \in Seq(Letter) /\ Len(q) = m /\ \A i \in 1..m : q[i] = l[p + i - 1]
  <2>1. SubSeq(l, p, z) \in Seq(Letter) /\ Len(SubSeq(l, p, z)) = z - p + 1
        /\ \A i \in 1..(z - p + 1) : SubSeq(l, p, z)[i] = l[p + i - 1]
    BY <1>2, <1>3
  <2> QED BY <1>5, <1>6, <2>1
<1>8. q[1] = l[p] /\ q # <<>>
  <2>1. 1 \in 1..m /\ p + 1 - 1 = p
    BY <1>2, <1>6
  <2>2. Len(<<>>) = 0
    OBVIOUS
  <2> QED BY <1>6, <1>7, <2>1, <2>2
<1>9. Looked(q) \in Seq(Letter) /\ Looked(q) # <<>> /\ Looked(q)[1] = l[p]
  <2>1. CASE Len(q) = 1 \/ AtEnd(q)
    BY <1>7, <1>8, <2>1 DEF Looked
  <2>2. CASE ~(Len(q) = 1 \/ AtEnd(q))
    <3>1. PICK f : f = SubSeq(q, 1, m - 1)
      OBVIOUS
    <3>2. m - 1 \in 1..m /\ 1 \in 1..(m - 1)
      BY <1>6, <1>7, <2>2
    <3>3. f \in Seq(Letter) /\ Len(f) = m - 1 /\ \A i \in 1..(m - 1) : f[i] = q[i]
      BY <1>7, <3>1, <3>2
    <3>4. f # <<>> /\ f[1] = q[1]
      <4>1. Len(<<>>) = 0
        OBVIOUS
      <4> QED BY <3>2, <3>3, <4>1
    <3>5. Looked(q) = f
      BY <1>7, <2>2, <3>1 DEF Looked, Front
    <3> QED BY <1>8, <3>3, <3>4, <3>5
  <2> QED BY <2>1, <2>2
<1>10. AtEnd(q) => Len(l) < p + PieceLen /\ Last(l) # "\n"
  <2> SUFFICES ASSUME AtEnd(q) PROVE Len(l) < p + PieceLen /\ Last(l) # "\n"
    OBVIOUS
  <2>1. m < R /\ q[m] # "\n"
    BY <1>1, <1>7 DEF AtEnd, Last
  <2>2. n < p + R /\ z = n
    BY <1>2, <1>3, <1>6, <2>1
  <2>3. q[m] = l[n]
    <3>1. m \in 1..m /\ p + m - 1 = n
      BY <1>2, <1>6, <2>2
    <3> QED BY <1>7, <3>1
  <2> QED BY <1>1, <1>2, <2>1, <2>2, <2>3 DEF Last
<1> QED BY <1>4, <1>7, <1>8, <1>9, <1>10

\* a piece without a modeline
LEMMA CodePiece ==
    ASSUME NEW s \in Reader, Ready(s), NEW q \in Seq(Letter), Looked(q) \in Seq(Letter), NoModeline(Looked(q)),
           s.state = "init" => Looked(q)[1] # "#"
    PROVE  /\ Piece(s, q) \in Reader /\ Piece(s, q).argv = s.argv
           /\ ~AtEnd(q) => Ready(Piece(s, q)) /\ Piece(s, q).state = "newline"
<1>1. s.state \notin {"complete", "error"}
  BY DEF Ready
<1>2. CASE q = <<"\n">> /\ s.state = "newline"
  <2>1. Piece(s, q) = s
    BY <1>2 DEF Piece
  <2> QED BY <1>2, <2>1
<1>3. PICK c : c = Chars(s, Looked(q))
  OBVIOUS
<1>4. c \in Reader /\ c.state = "invalid" /\ c.pos = 0 /\ c.buf = <<>> /\ c.argv = s.argv
  BY <1>3, CharsIn, NoModelineRead
<1>5. CASE ~(q = <<"\n">> /\ s.state = "newline") /\ AtEnd(q)
  <2>1. Piece(s, q) = Chars(s, q) /\ Looked(q) = q
    BY <1>1, <1>5 DEF Piece, Looked
  <2> QED BY <1>3, <1>4, <1>5, <2>1
<1>6. CASE ~(q = <<"\n">> /\ s.state = "newline") /\ ~AtEnd(q)
  <2>1. EndOfLine(c) = c
    BY <1>4 DEF EndOfLine
  <2>2. Piece(s, q) = To(c, "newline")
    BY <1>1, <1>3, <1>4, <1>6, <2>1 DEF Piece
  <2>3. PICK r : r = To(c, "newline")
    OBVIOUS
  <2>4. r \in Reader /\ r.state = "newline" /\ r.pos = 0 /\ r.buf = <<>> /\ r.argv = s.argv
    <3>1. "newline" \in ReaderStates
      BY DEF ReaderStates
    <3> QED BY <1>4, <2>3, <3>1, ToRight
  <2> QED BY <2>2, <2>3, <2>4 DEF Ready
<1> QED BY <1>2, <1>5, <1>6

LEMMA PieceIn ==
    ASSUME NEW s \in Reader, NEW l \in Seq(Letter), NEW p \in 1..Len(l)
    PROVE  Piece(s, PieceAt(l, p)) \in Reader
<1>1. "newline" \in ReaderStates
  BY DEF ReaderStates
<1>2. \A t \in Reader : EndOfLine(t) \in Reader /\ To(t, "newline") \in Reader
  BY <1>1, PushRight, ToRight DEF EndOfLine
<1>3. PICK q \in Seq(Letter) : q = PieceAt(l, p) /\ Looked(q) \in Seq(Letter)
  BY PieceRight
<1>4. Chars(s, q) \in Reader /\ Chars(s, Looked(q)) \in Reader
  BY <1>3, CharsIn
<1> QED BY <1>2, <1>3, <1>4 DEF Piece

\* Line is what its recursion says
PieceSteps(s, l, f) ==
    /\ f \in [0..Len(l) -> Reader] /\ f[0] = s
    /\ \A p \in 1..Len(l) : f[p] = IF p % PieceLen = 1 THEN Piece(f[p - 1], PieceAt(l, p)) ELSE f[p - 1]

LEMMA PiecesFrom ==
    ASSUME NEW s \in Reader, NEW l \in Seq(Letter)
    PROVE  \E f : PieceSteps(s, l, f) /\ Line(s, l) = f[Len(l)]
<1> DEFINE n == Len(l)
           Goes(x, p) == IF p % PieceLen = 1 THEN Piece(x, PieceAt(l, p)) ELSE x
           body(f) == [p \in 0..n |-> IF p = 0 THEN s
                                      ELSE IF p % PieceLen = 1 THEN Piece(f[p - 1], PieceAt(l, p)) ELSE f[p - 1]]
           from == CHOOSE f : f = body(f)
<1>1. n \in Nat
  OBVIOUS
<1>2. Line(s, l) = from[n]
  BY DEF Line
<1>3. \A p \in 1..n, x \in Reader : Goes(x, p) \in Reader
  BY PieceIn
<1> HIDE DEF n
<1>4. PICK f \in [0..n -> Reader] : f = body(f)
  <2> DEFINE goes == [a \in (1..n) \X Reader |-> Goes(a[2], a[1])]
  <2>1. goes \in [(1..n) \X Reader -> Reader]
    <3> SUFFICES ASSUME NEW a \in (1..n) \X Reader PROVE Goes(a[2], a[1]) \in Reader
      OBVIOUS
    <3>1. a[2] \in Reader /\ a[1] \in 1..n
      OBVIOUS
    <3> HIDE DEF Goes
    <3> QED BY <1>3, <3>1
  <2>2. \A p \in 1..n, x \in Reader : goes[<<p, x>>] = Goes(x, p)
    <3> HIDE DEF Goes
    <3> QED OBVIOUS
  <2> HIDE DEF goes
  <2>3. PICK f \in [0..n -> Reader] : Steps(n, s, goes, f)
    BY <1>1, <2>1, NumberRecursion
  <2>4. ASSUME NEW p \in 0..n
        PROVE  f[p] = IF p = 0 THEN s ELSE Goes(f[p - 1], p)
    <3> HIDE DEF Goes
    <3>1. CASE p = 0
      BY <2>3, <3>1 DEF Steps
    <3>2. CASE p # 0
      <4>1. p \in 1..n /\ p - 1 \in 0..n
        BY <1>1, <3>2
      <4>2. PICK x \in Reader : x = f[p - 1]
        BY <4>1
      <4>3. f[p] = goes[<<p, x>>]
        BY <2>3, <4>1, <4>2 DEF Steps
      <4> QED BY <2>2, <3>2, <4>1, <4>2, <4>3
    <3> QED BY <3>1, <3>2
  <2>5. f = body(f)
    BY <2>4
  <2> QED BY <2>5
<1>5. from = body(from)
  BY <1>4
<1>6. /\ from[0] = s /\ f[0] = s
      /\ \A p \in 1..n : from[p] = Goes(from[p - 1], p) /\ f[p] = Goes(f[p - 1], p)
  <2> HIDE DEF from
  <2>1. \A p \in 1..n : p \in 0..n /\ p # 0
    OBVIOUS
  <2> QED BY <1>1, <1>4, <1>5, <2>1
<1>7. from[n] = f[n]
  <2> HIDE DEF from, Goes
  <2> DEFINE P == {p \in 0..n : from[p] = f[p]}
  <2>1. 0 \in P
    BY <1>1, <1>6
  <2>2. ASSUME NEW p \in 1..n, p - 1 \in P PROVE p \in P
    <3>1. p \in 0..n /\ from[p - 1] = f[p - 1]
      BY <1>1, <2>2
    <3> QED BY <1>6, <3>1
  <2>3. P \in SUBSET (0..n)
    OBVIOUS
  <2>4. n \in 0..n
    BY <1>1
  <2>5. n \in P => from[n] = f[n]
    OBVIOUS
  <2> HIDE DEF P
  <2> QED BY <1>1, <2>1, <2>2, <2>3, <2>4, <2>5, NumberInduction
<1> HIDE DEF from
<1>8. PieceSteps(s, l, f)
  BY <1>6 DEF PieceSteps, n
<1> QED BY <1>2, <1>7, <1>8 DEF n

\* from one of its places on, a line has no modeline
LEMMA RestOfLine ==
    ASSUME NEW s \in Reader, NEW l \in Seq(Letter), NEW f, PieceSteps(s, l, f), NEW a \in {0, 1}, a <= Len(l),
           Ready(f[a]), a # 0 => f[a].state = "newline", a = 0 /\ f[a].state = "init" => l[1] # "#",
           \A p \in (a + 1)..Len(l) : p % PieceLen = 1 => NoModeline(Looked(PieceAt(l, p)))
    PROVE  /\ f[Len(l)] \in Reader /\ f[Len(l)].argv = f[a].argv
           /\ l # <<>> /\ Last(l) = "\n" => Ready(f[Len(l)]) /\ f[Len(l)].state = "newline"
<1>1. PICK R \in Nat : R = PieceLen /\ R > 7
  BY PieceLenRight
<1>2. PICK n \in Nat : n = Len(l) /\ a \in 0..n
  <2>1. Len(l) \in Nat /\ a \in 0..Len(l)
    OBVIOUS
  <2> QED BY <2>1
<1>3. f \in [0..n -> Reader] /\ \A p \in 1..n : f[p] = IF p % R = 1 THEN Piece(f[p - 1], PieceAt(l, p)) ELSE f[p - 1]
  BY <1>1, <1>2 DEF PieceSteps
<1> DEFINE Over(i) == \E p \in 1..i : p \in 1..n /\ p % R = 1 /\ AtEnd(PieceAt(l, p))
           Q(i) == /\ f[i].argv = f[a].argv
                   /\ Over(i) \/ (Ready(f[i]) /\ (i # 0 => f[i].state = "newline") /\ (i = 0 => f[i] = f[a]))
           P == {i \in 0..n : i >= a => Q(i)}
<1>4. 0 \in P
  BY <1>2
<1>5. ASSUME NEW i \in 1..n, i - 1 \in P PROVE i \in P
  <2> SUFFICES ASSUME i >= a PROVE Q(i)
    BY <1>2
  <2>1. i \in Nat /\ i - 1 \in 0..n
    BY <1>2
  <2>2. CASE i = a
    <3>1. Ready(f[i]) /\ f[i].state = "newline"
      BY <1>2, <2>1, <2>2
    <3> QED BY <2>1, <2>2, <3>1
  <2>3. CASE i # a
    <3>1. Q(i - 1) /\ i \in (a + 1)..n
      BY <1>2, <1>5, <2>1, <2>3
    <3>2. Over(i - 1) => Over(i)
      BY <2>1
    <3>3. PICK t \in Reader : t = f[i - 1] /\ t.argv = f[a].argv
      BY <1>3, <2>1, <3>1
    <3>4. CASE i % R # 1
      <4>1. i # 1
        BY <1>1, <3>4
      <4>2. f[i] = t /\ i - 1 # 0
        BY <1>3, <2>1, <3>3, <3>4, <4>1
      <4> HIDE DEF Over
      <4> QED BY <2>1, <3>1, <3>2, <3>3, <4>2
    <3>5. CASE i % R = 1
      <4>1. ~Over(i - 1)
        <5> SUFFICES ASSUME NEW p \in 1..(i - 1), p \in 1..n, p % R = 1, AtEnd(PieceAt(l, p)) PROVE FALSE
          OBVIOUS
        <5>1. n < p + R
          BY <1>1, <1>2, PieceRight
        <5>2. p \in Nat /\ p < i /\ i <= n
          BY <2>1
        <5>3. p + R <= i
          <6>1. R > 1 /\ i % R = 1 /\ p % R = 1
            BY <1>1, <3>5
          <6> QED BY <2>1, <5>2, <6>1, PiecesApart
        <5> QED BY <1>1, <1>2, <2>1, <5>1, <5>2, <5>3
      <4>2. Ready(t) /\ (i # 1 => t.state = "newline") /\ (i = 1 => t = f[a] /\ a = 0)
        <5>1. i = 1 => a = 0
          BY <2>1, <2>3
        <5> HIDE DEF Over
        <5> QED BY <2>1, <3>1, <3>3, <4>1, <5>1
      <4>3. PICK q \in Seq(Letter) : q = PieceAt(l, i) /\ Looked(q) \in Seq(Letter) /\ Looked(q)[1] = l[i] /\ NoModeline(Looked(q))
        BY <1>1, <1>2, <3>1, <3>5, PieceRight
      <4>4. t.state = "init" => Looked(q)[1] # "#"
        BY <4>2, <4>3
      <4>5. f[i] = Piece(t, q)
        BY <1>3, <3>3, <3>5, <4>3
      <4>6. Piece(t, q).argv = t.argv /\ (~AtEnd(q) => Ready(Piece(t, q)) /\ Piece(t, q).state = "newline")
        BY <4>2, <4>3, <4>4, CodePiece
      <4>7. AtEnd(q) => Over(i)
        <5>1. i \in 1..i
          BY <2>1
        <5> QED BY <3>5, <4>3, <5>1
      <4> HIDE DEF Over
      <4> QED BY <2>1, <3>3, <4>5, <4>6, <4>7
    <3> QED BY <3>4, <3>5
  <2> QED BY <2>2, <2>3
<1>6. Q(n)
  <2>1. P \in SUBSET (0..n)
    OBVIOUS
  <2>2. n \in 0..n /\ n >= a
    BY <1>2
  <2>3. n \in P => Q(n)
    BY <2>2
  <2> HIDE DEF P, Q
  <2> QED BY <1>2, <1>4, <1>5, <2>1, <2>2, <2>3, NumberInduction
<1>7. f[n] \in Reader
  BY <1>2, <1>3
<1>8. l # <<>> /\ Last(l) = "\n" => ~Over(n) /\ n # 0
  <2>1. \A p \in 1..n : AtEnd(PieceAt(l, p)) => Last(l) # "\n"
    BY <1>2, PieceRight
  <2>2. l # <<>> => Len(l) # 0
    OBVIOUS
  <2> QED BY <1>2, <2>1, <2>2
<1> HIDE DEF Over
<1> QED BY <1>2, <1>6, <1>7, <1>8

-----------------------------------------------------------------------------
\* all keys of a modeline, and the first j of them
Texted(ks, j) == [i \in 1..j |-> Word(ks[i]) \o <<":">>]
Worded(ks, j) == [i \in 1..j |-> WordsOf(ks[i])]
Text(ks, j) == FlattenSeq(Texted(ks, j))

\* the words of those of the first j that begin in the first e characters
CutWords(ks, j, e) == [i \in {i \in 1..j : Offset(ks, i) < e} |-> WordsOf(CutKey(ks[i], e - Offset(ks, i)))]

LEMMA KeysRight ==
    ASSUME NEW ks \in Keys
    PROVE  \E n \in Nat : ks \in [1..n -> Key] /\ Len(ks) = n /\ DOMAIN ks = 1..n
<1>1. PICK n \in Nat : ks \in [1..n -> Key]
  BY DEF Keys, Key
<1>2. ks \in Seq(Key) /\ DOMAIN ks = 1..n
  BY <1>1
<1>3. Len(ks) = n
  BY <1>1, <1>2
<1> QED BY <1>1, <1>2, <1>3

LEMMA Extended ==
    ASSUME NEW T, NEW n \in Nat, NEW x, \A i \in 1..n : x[i] \in T, NEW j \in 1..n
    PROVE  /\ [i \in 1..j |-> x[i]] = Append([i \in 1..(j - 1) |-> x[i]], x[j])
           /\ [i \in 1..j |-> x[i]] \in Seq(T) /\ [i \in 1..(j - 1) |-> x[i]] \in Seq(T)
<1>1. j - 1 \in Nat /\ j \in Nat /\ \A i \in 1..j : i \in 1..n
  OBVIOUS
<1>2. \A i \in 1..(j - 1) : i \in 1..j
  BY <1>1
<1>3. [i \in 1..j |-> x[i]] \in Seq(T)
  BY <1>1
<1>4. [i \in 1..(j - 1) |-> x[i]] \in Seq(T)
  BY <1>1, <1>2
<1>5. [i \in 1..j |-> x[i]] = Append([i \in 1..(j - 1) |-> x[i]], x[j])
  BY <1>1
<1> QED BY <1>3, <1>4, <1>5

LEMMA KeysText ==
    ASSUME NEW n \in Nat, NEW ks \in [1..n -> Key]
    PROVE  /\ Text(ks, 0) = <<>>
           /\ \A j \in 0..n : Text(ks, j) \in Seq(KeyLetter) /\ Text(ks, j) \in Seq(Letter)
           /\ \A j \in 1..n : Text(ks, j) = Text(ks, j - 1) \o (Word(ks[j]) \o <<":">>)
<1> DEFINE SK == Seq(KeyLetter)
           x == [i \in 1..n |-> Word(ks[i]) \o <<":">>]
<1>1. \A i \in 1..n : x[i] \in SK
  BY KeyRight
<1>2. PICK e \in SK : e = <<>>
  <2>1. <<>> \in SK
    OBVIOUS
  <2> QED BY <2>1
<1>3. Texted(ks, 0) = <<>> /\ <<>> \in Seq(SK) /\ FlattenSeq(<<>>) = <<>>
  <2>1. Texted(ks, 0) = <<>>
    BY DEF Texted
  <2>2. Len(<<>>) = 0
    OBVIOUS
  <2> QED BY <2>1, <2>2 DEF FlattenSeq
<1>4. ASSUME NEW j \in 1..n
      PROVE  /\ Texted(ks, j) \in Seq(SK) /\ Texted(ks, j - 1) \in Seq(SK)
             /\ Texted(ks, j) = Append(Texted(ks, j - 1), Word(ks[j]) \o <<":">>)
  <2>0. PICK w \in SK : w = Word(ks[j]) \o <<":">>
    BY KeyRight
  <2>1. /\ Texted(ks, j) = [i \in 1..j |-> x[i]] /\ Texted(ks, j - 1) = [i \in 1..(j - 1) |-> x[i]]
        /\ x[j] = w
    <3>1. \A i \in 1..j : i \in 1..n
      OBVIOUS
    <3>2. \A i \in 1..(j - 1) : i \in 1..n
      OBVIOUS
    <3> QED BY <2>0, <3>1, <3>2 DEF Texted
  <2> HIDE DEF x, SK
  <2>2. /\ Texted(ks, j) \in Seq(SK) /\ Texted(ks, j - 1) \in Seq(SK)
        /\ Texted(ks, j) = Append(Texted(ks, j - 1), w)
    BY <1>1, <2>1, Extended, SMTT(40)
  <2> QED BY <2>0, <2>2
<1>5. \A j \in 0..n : Texted(ks, j) \in Seq(SK)
  <2>1. \A j \in 0..n : j = 0 \/ j \in 1..n
    OBVIOUS
  <2> QED BY <1>3, <1>4, <2>1
<1>6. \A j \in 0..n : Text(ks, j) \in SK
  BY <1>2, <1>5, FlattenAppend DEF Text
<1>7. SK \subseteq Seq(Letter)
  <2>1. KeyLetter \subseteq Letter
    BY DEF KeyLetter, Letter
  <2> QED BY <2>1
<1>8. ASSUME NEW j \in 1..n PROVE Text(ks, j) = Text(ks, j - 1) \o (Word(ks[j]) \o <<":">>)
  <2>1. PICK w \in SK : w = Word(ks[j]) \o <<":">>
    BY KeyRight
  <2>2. Texted(ks, j - 1) \in Seq(SK)
    BY <1>4
  <2>3. FlattenSeq(Append(Texted(ks, j - 1), w)) = FlattenSeq(Texted(ks, j - 1)) \o w
    BY <2>2, FlattenAppend
  <2> QED BY <1>4, <2>1, <2>3 DEF Text
<1> QED BY <1>3, <1>6, <1>7, <1>8 DEF Text

LEMMA KeysWords ==
    ASSUME NEW n \in Nat, NEW ks \in [1..n -> Key]
    PROVE  /\ Worded(ks, 0) = <<>> /\ FlattenSeq(<<>>) = <<>>
           /\ \A j \in 0..n : Worded(ks, j) \in Seq(Seq(Seq(Letter))) /\ FlattenSeq(Worded(ks, j)) \in Seq(Seq(Letter))
           /\ \A j \in 1..n : Worded(ks, j) = Append(Worded(ks, j - 1), WordsOf(ks[j]))
<1> DEFINE L == Seq(Letter)
           SL == Seq(L)
           x == [i \in 1..n |-> WordsOf(ks[i])]
<1>1. \A i \in 1..n : x[i] \in SL
  BY KeyWords
<1>2. PICK e \in SL : e = <<>>
  <2>1. <<>> \in SL
    OBVIOUS
  <2> QED BY <2>1
<1>3. Worded(ks, 0) = <<>> /\ <<>> \in Seq(SL) /\ FlattenSeq(<<>>) = <<>>
  <2>1. Worded(ks, 0) = <<>>
    BY DEF Worded
  <2>2. Len(<<>>) = 0
    OBVIOUS
  <2> QED BY <2>1, <2>2 DEF FlattenSeq
<1>4. ASSUME NEW j \in 1..n
      PROVE  /\ Worded(ks, j) \in Seq(SL)
             /\ Worded(ks, j) = Append(Worded(ks, j - 1), WordsOf(ks[j]))
  <2>1. /\ Worded(ks, j) = [i \in 1..j |-> x[i]] /\ Worded(ks, j - 1) = [i \in 1..(j - 1) |-> x[i]]
        /\ x[j] = WordsOf(ks[j])
    <3>1. \A i \in 1..j : i \in 1..n
      OBVIOUS
    <3>2. \A i \in 1..(j - 1) : i \in 1..n
      OBVIOUS
    <3> QED BY <3>1, <3>2 DEF Worded
  <2> HIDE DEF x, SL, L
  <2> QED BY <1>1, <2>1, Extended
<1>5. \A j \in 0..n : Worded(ks, j) \in Seq(SL)
  <2>1. \A j \in 0..n : j = 0 \/ j \in 1..n
    OBVIOUS
  <2> QED BY <1>3, <1>4, <2>1
<1>6. \A j \in 0..n : FlattenSeq(Worded(ks, j)) \in SL
  <2> HIDE DEF L
  <2> QED BY <1>2, <1>5, FlattenAppend
<1> QED BY <1>3, <1>4, <1>5, <1>6

\* where the keys begin
LEMMA Offsets ==
    ASSUME NEW n \in Nat, NEW ks \in [1..n -> Key]
    PROVE  /\ \A i \in 1..(n + 1) : Offset(ks, i) \in Nat /\ Offset(ks, i) = Len(Mark \o Text(ks, i - 1)) /\ Offset(ks, i) >= 6
           /\ Offset(ks, 1) = 6
           /\ \A i \in 1..n : Len(Word(ks[i])) \in Nat /\ Len(Word(ks[i])) > 0 /\ Offset(ks, i + 1) = Offset(ks, i) + Len(Word(ks[i])) + 1
           /\ \A i \in 1..n, j \in 1..(n + 1) : i < j => Offset(ks, i) + Len(Word(ks[i])) + 1 <= Offset(ks, j)
<1> DEFINE off(i) == Offset(ks, i)
           len(i) == Len(Word(ks[i]))
<1>1. Mark \in Seq(Letter) /\ Len(Mark) = 6
  BY ReaderStarts, NameRead
<1>2. ASSUME NEW i \in 1..(n + 1)
      PROVE  off(i) \in Nat /\ off(i) = Len(Mark \o Text(ks, i - 1)) /\ off(i) = 6 + Len(Text(ks, i - 1)) /\ off(i) >= 6
  <2>1. i - 1 \in 0..n
    OBVIOUS
  <2>2. PICK t \in Seq(Letter) : t = Text(ks, i - 1)
    BY <2>1, KeysText
  <2>3. Len(Mark \o t) = Len(Mark) + Len(t) /\ Len(t) \in Nat
    <3>1. PICK m \in Seq(Letter) : m = Mark
      BY <1>1
    <3>2. Len(m \o t) = Len(m) + Len(t) /\ Len(t) \in Nat
      OBVIOUS
    <3> QED BY <3>1, <3>2
  <2>4. off(i) = Len(Mark \o t)
    BY <2>2 DEF Offset, Text, Texted
  <2> QED BY <1>1, <2>2, <2>3, <2>4
<1>3. off(1) = 6
  <2>1. 1 \in 1..(n + 1) /\ 1 - 1 = 0 /\ Len(<<>>) = 0
    OBVIOUS
  <2> QED BY <1>2, <2>1, KeysText, SMTT(40)
<1>4. ASSUME NEW i \in 1..n
      PROVE  len(i) \in Nat /\ len(i) > 0 /\ off(i + 1) = off(i) + len(i) + 1
  <2>1. PICK w \in Seq(Letter) : w = Word(ks[i]) \o <<":">> /\ Len(w) = len(i) + 1 /\ len(i) \in Nat
    BY KeyRight
  <2>2. len(i) > 0
    <3>1. PICK v \in Seq(Letter) : v = ks[i].value /\ len(i) = (IF v = <<>> THEN 1 ELSE Len(v) + 2)
      BY KeyRight
    <3>2. Len(v) \in Nat
      OBVIOUS
    <3> QED BY <3>1, <3>2
  <2>3. i \in 1..(n + 1) /\ i + 1 \in 1..(n + 1) /\ i - 1 \in 0..n /\ i + 1 - 1 = i
    OBVIOUS
  <2>4. PICK t \in Seq(Letter) : t = Text(ks, i - 1)
    BY <2>3, KeysText
  <2>5. Text(ks, i) = t \o w
    BY <2>1, <2>4, KeysText
  <2>6. Len(t \o w) = Len(t) + Len(w) /\ Len(t) \in Nat
    OBVIOUS
  <2> HIDE DEF off, len
  <2>11. PICK y : y = Text(ks, i)
    OBVIOUS
  <2>7. off(i) = 6 + Len(t) /\ off(i + 1) = 6 + Len(y)
    <3>1. \A k \in 1..(n + 1) : off(k) = 6 + Len(Text(ks, k - 1))
      BY <1>2
    <3>2. off(i) = 6 + Len(Text(ks, i - 1))
      BY <2>3, <3>1, Zenon
    <3>3. off(i + 1) = 6 + Len(Text(ks, i + 1 - 1))
      BY <2>3, <3>1, SMTT(40)
    <3>4. off(i) = 6 + Len(t)
      BY <2>4, <3>2, Zenon
    <3>5. off(i + 1) = 6 + Len(y)
      BY <2>3, <2>11, <3>3, Zenon
    <3> QED BY <3>4, <3>5
  <2>9. PICK a \in Nat, b \in Nat : a = Len(t) /\ b = len(i) /\ b > 0
    BY <2>1, <2>2, <2>6
  <2>10. off(i) = 6 + a /\ off(i + 1) = 6 + (a + (b + 1))
    <3>1. Len(t \o w) = a + (b + 1)
      BY <2>1, <2>6, <2>9
    <3>2. Len(y) = a + (b + 1)
      BY <2>5, <2>11, <3>1
    <3> QED BY <2>7, <2>9, <3>2
  <2>12. 6 + (a + (b + 1)) = (6 + a) + b + 1
    OBVIOUS
  <2>13. off(i + 1) = off(i) + b + 1
    BY <2>10, <2>12
  <2> QED BY <2>9, <2>13
<1>5. ASSUME NEW i \in 1..n, NEW j \in 1..(n + 1), i < j
      PROVE  off(i) + len(i) + 1 <= off(j)
  <2> DEFINE P == {m \in 0..n : i <= m => off(i) + len(i) + 1 <= off(m + 1)}
  <2> HIDE DEF off, len
  <2>1. 0 \in P
    OBVIOUS
  <2>2. ASSUME NEW m \in 1..n, m - 1 \in P PROVE m \in P
    <3>1. CASE i = m
      BY <1>2, <1>4, <3>1
    <3>2. CASE i < m
      <4>1. i <= m - 1 /\ (m - 1) + 1 = m /\ i \in Nat /\ m \in 1..(n + 1) /\ i \in 1..(n + 1) /\ m + 1 \in 1..(n + 1)
        BY <3>2
      <4>2. off(i) + len(i) + 1 <= off(m)
        BY <2>2, <4>1
      <4>3. off(m + 1) = off(m) + len(m) + 1 /\ len(m) \in Nat /\ off(m) \in Nat /\ off(i) \in Nat /\ len(i) \in Nat
        BY <1>2, <1>4, <4>1
      <4> QED BY <4>2, <4>3, SMTT(40)
    <3>3. CASE i > m
      BY <3>3
    <3> QED BY <3>1, <3>2, <3>3
  <2>3. P \in SUBSET (0..n)
    OBVIOUS
  <2>4. j - 1 \in P => off(i) + len(i) + 1 <= off(j)
    <3>1. i <= j - 1 /\ (j - 1) + 1 = j
      BY <1>5
    <3> QED BY <3>1
  <2> HIDE DEF P
  <2>5. \A m \in 0..n : m \in P
    BY <2>1, <2>2, <2>3, NumberInduction
  <2> QED BY <2>4, <2>5
<1> QED BY <1>2, <1>3, <1>4, <1>5

\* the first j keys, each with the colon after it
LEMMA KeysRead ==
    ASSUME NEW s \in Reader, Ready(s), NEW n \in Nat, NEW ks \in [1..n -> Key], NEW j \in 0..n
    PROVE  LET t == Chars(s, Mark \o Text(ks, j)) IN
           /\ t \in Reader /\ t.state = "delim" /\ t.mode = "line" /\ t.pos = 0 /\ t.buf = <<>>
           /\ t.argv = s.argv \o FlattenSeq(Worded(ks, j))
<1>1. PICK h \in Reader : h = Chars(s, Mark) /\ h.state = "delim" /\ h.mode = "line" /\ h.pos = 0 /\ h.buf = <<>> /\ h.argv = s.argv
  BY NameRead
<1>2. Mark \in Seq(Letter)
  BY NameRead
<1>3. PICK A \in Seq(Seq(Letter)) : A = s.argv
  BY ReaderParts
<1> DEFINE W(i) == FlattenSeq(Worded(ks, i))
           P == {i \in 0..n : Read(h, Chars(h, Text(ks, i)), "delim", <<>>, W(i))}
<1>4. 0 \in P
  <2>1. Chars(h, <<>>) = h /\ A \o <<>> = A
    BY CharsEmpty
  <2>2. Text(ks, 0) = <<>> /\ W(0) = <<>>
    BY KeysText, KeysWords
  <2> QED BY <1>1, <1>3, <2>1, <2>2, SMTT(40) DEF Read
<1>5. ASSUME NEW i \in 1..n, i - 1 \in P PROVE i \in P
  <2>1. i - 1 \in 0..n /\ i \in 0..n /\ ks[i] \in Key
    OBVIOUS
  <2>2. PICK u \in Reader : u = Chars(h, Text(ks, i - 1)) /\ Read(h, u, "delim", <<>>, W(i - 1))
    BY <1>5 DEF Read
  <2>3. PICK w \in Seq(Letter) : w = Word(ks[i]) \o <<":">>
    BY <2>1, KeyRight
  <2>4. PICK a \in Seq(Letter) : a = Text(ks, i - 1)
    BY <2>1, KeysText
  <2>5. Text(ks, i) = a \o w
    BY <2>3, <2>4, KeysText
  <2>6. Chars(h, a \o w) = Chars(u, w)
    BY <2>2, <2>4, CharsConcat
  <2>7. Read(u, Chars(u, w), "delim", <<>>, WordsOf(ks[i]))
    BY <2>1, <2>2, <2>3, KeyRead DEF Read
  <2>8. W(i) = W(i - 1) \o WordsOf(ks[i]) /\ A \o (W(i - 1) \o WordsOf(ks[i])) = (A \o W(i - 1)) \o WordsOf(ks[i])
    <3>1. PICK L : L = Seq(Letter)
      OBVIOUS
    <3>2. PICK B \in Seq(L), C \in Seq(L) : B = W(i - 1) /\ C = WordsOf(ks[i])
      BY <2>1, <3>1, KeysWords, KeyWords
    <3>3. A \in Seq(L)
      BY <3>1
    <3>4. A \o (B \o C) = (A \o B) \o C
      BY <3>3, ThreeJoined, SMTT(40)
    <3>5. Worded(ks, i) = Append(Worded(ks, i - 1), C) /\ Worded(ks, i - 1) \in Seq(Seq(L))
      BY <2>1, <3>1, <3>2, KeysWords
    <3>6. FlattenSeq(Append(Worded(ks, i - 1), C)) = FlattenSeq(Worded(ks, i - 1)) \o C
      BY <3>5, FlattenAppend
    <3> QED BY <3>2, <3>4, <3>5, <3>6
  <2> HIDE DEF W
  <2>9. PICK t : t = Chars(u, w)
    OBVIOUS
  <2>10. u.argv = A \o W(i - 1) /\ u.pos = h.pos
    BY <1>1, <1>3, <2>2 DEF Read
  <2>11. t \in Reader /\ t.state = "delim" /\ t.mode = "line" /\ t.pos = u.pos /\ t.buf = <<>> /\ t.argv = u.argv \o WordsOf(ks[i])
    BY <2>7, <2>9 DEF Read
  <2>12. t.argv = h.argv \o W(i)
    BY <1>1, <1>3, <2>8, <2>10, <2>11
  <2>13. Read(h, t, "delim", <<>>, W(i))
    BY <2>10, <2>11, <2>12 DEF Read
  <2> QED BY <2>1, <2>5, <2>6, <2>9, <2>13
<1>6. j \in P
  <2>1. P \in SUBSET (0..n)
    OBVIOUS
  <2> HIDE DEF P
  <2> QED BY <1>4, <1>5, <2>1, NumberInduction
<1>7. Chars(s, Mark \o Text(ks, j)) = Chars(h, Text(ks, j))
  <2>1. Text(ks, j) \in Seq(Letter)
    BY KeysText
  <2> QED BY <1>1, <1>2, <2>1, CharsConcat
<1> QED BY <1>1, <1>6, <1>7 DEF Read


LEMMA CutKeyWhole ==
    ASSUME NEW k \in Key, NEW e \in Int, e >= Len(Word(k))
    PROVE  WordsOf(CutKey(k, e)) = WordsOf(k)
<1>1. PICK v \in Seq(Letter) : v = k.value /\ Len(Word(k)) = (IF v = <<>> THEN 1 ELSE Len(v) + 2)
  BY KeyRight
<1>2. Cut(v, e - 2) = v
  <2>1. PICK n \in Nat : n = Len(v) /\ (v = <<>> => n = 0)
    <3>1. Len(v) \in Nat /\ (v = <<>> => Len(v) = 0)
      OBVIOUS
    <3> QED BY <3>1
  <2>2. CASE v # <<>>
    <3>1. e - 2 \in Int /\ e - 2 >= n
      BY <1>1, <2>1, <2>2
    <3> QED BY <2>1, <3>1, CutRight
  <2>3. CASE v = <<>>
    <3>1. e - 2 \in Int /\ (e - 2 >= 0 \/ e - 2 <= 0)
      OBVIOUS
    <3>2. (e - 2 >= n => Cut(v, e - 2) = v) /\ (e - 2 <= 0 => Cut(v, e - 2) = <<>>)
      BY <2>1, <3>1, CutRight
    <3> QED BY <2>1, <2>3, <3>1, <3>2
  <2> QED BY <2>2, <2>3
<1> QED BY <1>1, <1>2, KeyRight

\* what the words become when one more key has begun, and when it has not
LEMMA CutWordsNext ==
    ASSUME NEW n \in Nat, NEW ks \in [1..n -> Key], NEW j \in 1..n, NEW e \in Nat
    PROVE  /\ e <= Offset(ks, j) => CutWords(ks, j, e) = CutWords(ks, j - 1, e)
           /\ e > Offset(ks, j) => CutWords(ks, j, e) = Append(Worded(ks, j - 1), WordsOf(CutKey(ks[j], e - Offset(ks, j))))
<1> DEFINE off(i) == Offset(ks, i)
           x(i) == WordsOf(CutKey(ks[i], e - off(i)))
<1>1. j \in Nat /\ j \in 1..(n + 1) /\ \A i \in 1..j : i \in 1..n /\ i \in 1..(n + 1)
  OBVIOUS
<1>2. \A i \in 1..j : off(i) \in Nat
  BY <1>1, Offsets
<1> HIDE DEF off
<1>3. CASE e <= off(j)
  <2>1. {i \in 1..j : off(i) < e} = {i \in 1..(j - 1) : off(i) < e}
    BY <1>1, <1>2, <1>3
  <2>2. ~(e > off(j))
    BY <1>1, <1>2, <1>3
  <2> QED BY <1>3, <2>1, <2>2 DEF CutWords, off
<1>4. CASE e > off(j)
  <2>1. ASSUME NEW i \in 1..(j - 1)
        PROVE  i \in 1..j /\ off(i) < e /\ x(i) = WordsOf(ks[i])
    <3>1. i \in 1..n /\ i \in 1..j /\ i < j
      BY <1>1
    <3>2. PICK m \in Nat : m = Len(Word(ks[i])) /\ off(i) + m + 1 <= off(j)
      BY <1>1, <3>1, Offsets DEF off
    <3>3. off(i) \in Nat /\ off(j) \in Nat /\ e \in Nat
      BY <1>1, <1>2, <3>1
    <3>4. off(i) < e /\ e - off(i) \in Int /\ e - off(i) >= m
      BY <1>4, <3>2, <3>3
    <3>5. ks[i] \in Key
      BY <3>1
    <3> QED BY <3>1, <3>2, <3>4, <3>5, CutKeyWhole
  <2>2. {i \in 1..j : off(i) < e} = 1..j
    <3>1. \A i \in 1..j : i = j \/ i \in 1..(j - 1)
      BY <1>1
    <3> QED BY <1>4, <2>1, <3>1
  <2>3. CutWords(ks, j, e) = [i \in 1..j |-> x(i)]
    BY <2>2 DEF CutWords, off
  <2>4. ~(e <= off(j))
    BY <1>1, <1>2, <1>4
  <2>5. CutWords(ks, j, e) = Append(Worded(ks, j - 1), x(j))
    <3>1. PICK y : y = [i \in 1..j |-> x(i)]
      OBVIOUS
    <3>2. PICK S : S = {x(i) : i \in 1..j}
      OBVIOUS
    <3>3. \A i \in 1..j : y[i] = x(i) /\ y[i] \in S
      BY <3>1, <3>2
    <3>4. y = [i \in 1..j |-> y[i]]
      BY <3>1
    <3>5. [i \in 1..(j - 1) |-> y[i]] = Worded(ks, j - 1)
      BY <2>1, <3>3 DEF Worded
    <3>6. j \in 1..j
      BY <1>1
    <3> HIDE DEF x
    <3>7. [i \in 1..j |-> y[i]] = Append([i \in 1..(j - 1) |-> y[i]], y[j])
      BY <1>1, <3>3, <3>6, Extended
    <3> QED BY <2>3, <3>1, <3>3, <3>4, <3>5, <3>6, <3>7
  <2> QED BY <2>4, <2>5 DEF off
<1> QED BY <1>1, <1>2, <1>3, <1>4 DEF off

\* what has been read of the keys when the piece ends after e characters
Ends(s, ks, j, e) ==
    LET t == EndOfLine(Chars(s, Cut(Mark \o Text(ks, j), e))) IN
    /\ t \in Reader /\ t.state \in {"newline", "delim", "valuedelim"} /\ t.pos = 0 /\ t.buf = <<>>
    /\ t.argv = s.argv \o FlattenSeq(CutWords(ks, j, e))

LEMMA ModelineCut ==
    ASSUME NEW s \in Reader, Ready(s), NEW n \in Nat, NEW ks \in [1..n -> Key]
    PROVE  \A e \in 6..Offset(ks, n + 1) : Ends(s, ks, n, e)
<1> DEFINE P == {j \in 0..n : \A e \in 6..Offset(ks, j + 1) : Ends(s, ks, j, e)}
<1>1. 0 \in P
  <2> SUFFICES ASSUME NEW e \in 6..Offset(ks, 0 + 1) PROVE Ends(s, ks, 0, e)
    OBVIOUS
  <2>1. e = 6
    <3>1. Offset(ks, 0 + 1) = 6
      <4>1. 0 + 1 = 1
        OBVIOUS
      <4> QED BY <4>1, Offsets
    <3> QED BY <3>1
  <2>2. PICK m \in Seq(Letter) : m = Mark /\ Len(m) = 6
    BY NameRead
  <2>3. Mark \o Text(ks, 0) = m
    <3>1. m \o <<>> = m
      OBVIOUS
    <3> QED BY <2>2, <3>1, KeysText
  <2>4. Cut(m, 6) = m
    <3>1. 6 \in Int /\ 6 >= Len(m)
      BY <2>2
    <3> QED BY <3>1, CutRight
  <2>5. PICK h \in Reader : h = Chars(s, m) /\ h.state = "delim" /\ h.pos = 0 /\ h.buf = <<>> /\ h.argv = s.argv
    BY <2>2, NameRead
  <2>6. EndOfLine(h) = h
    BY <2>5 DEF EndOfLine
  <2>7. FlattenSeq(CutWords(ks, 0, e)) = <<>>
    <3>1. CutWords(ks, 0, e) = <<>>
      BY DEF CutWords
    <3> QED BY <3>1, KeysWords
  <2>8. s.argv \o <<>> = s.argv
    BY ReaderParts
  <2>9. EndOfLine(Chars(s, Cut(Mark \o Text(ks, 0), e))) = h
    BY <2>1, <2>3, <2>4, <2>5, <2>6
  <2> QED BY <2>5, <2>7, <2>8, <2>9 DEF Ends
<1>2. ASSUME NEW j \in 1..n, j - 1 \in P PROVE j \in P
  <2> SUFFICES ASSUME NEW e \in 6..Offset(ks, j + 1) PROVE Ends(s, ks, j, e)
    OBVIOUS
  <2>1. j - 1 \in 0..n /\ j \in 0..n /\ ks[j] \in Key /\ j \in 1..(n + 1) /\ j + 1 \in 1..(n + 1) /\ (j - 1) + 1 = j
    OBVIOUS
  <2>2. PICK o \in Nat, m \in Nat : o = Offset(ks, j) /\ o >= 6 /\ m = Len(Word(ks[j])) /\ Offset(ks, j + 1) = o + m + 1
    BY <2>1, Offsets
  <2>3. e \in Nat /\ e \in 6..(o + m + 1)
    BY <2>2
  <2>4. PICK a \in Seq(Letter) : a = Mark \o Text(ks, j - 1) /\ Len(a) = o
    <3>1. PICK x \in Seq(Letter), y \in Seq(Letter) : x = Mark /\ y = Text(ks, j - 1)
      BY <2>1, NameRead, KeysText
    <3>2. x \o y \in Seq(Letter)
      OBVIOUS
    <3>3. Len(Mark \o Text(ks, j - 1)) = o
      BY <2>1, <2>2, Offsets
    <3> QED BY <3>1, <3>2, <3>3
  <2>5. PICK w \in Seq(Letter) : w = Word(ks[j]) \o <<":">> /\ Len(w) = m + 1
    BY <2>1, <2>2, KeyRight
  <2>6. Mark \o Text(ks, j) = a \o w
    <3>1. PICK x \in Seq(Letter), y \in Seq(Letter) : x = Mark /\ y = Text(ks, j - 1)
      BY <2>1, NameRead, KeysText
    <3>2. x \o (y \o w) = (x \o y) \o w
      BY TextsJoined, ZenonT(40)
    <3>3. Text(ks, j) = y \o w
      BY <2>5, <3>1, KeysText
    <3> QED BY <2>4, <3>1, <3>2, <3>3
  <2>7. CASE e <= o
    <3>1. Cut(a \o w, e) = Cut(a, e)
      <4>1. e \in Nat /\ e <= Len(a)
        BY <2>3, <2>4, <2>7
      <4> QED BY <4>1, CutJoined
    <3>2. CutWords(ks, j, e) = CutWords(ks, j - 1, e)
      BY <2>2, <2>3, <2>7, CutWordsNext, Zenon
    <3>3. e \in 6..Offset(ks, (j - 1) + 1)
      BY <2>1, <2>2, <2>3, <2>7
    <3>4. Ends(s, ks, j - 1, e)
      BY <1>2, <3>3
    <3> QED BY <2>4, <2>6, <3>1, <3>2, <3>4 DEF Ends
  <2>8. CASE e > o
    <3>1. PICK d \in 1..(m + 1) : d = e - o
      <4>1. e - o \in 1..(m + 1)
        BY <2>3, <2>8
      <4> QED BY <4>1
    <3>2. PICK y \in Seq(Letter) : y = Cut(w, d)
      <4>1. d \in Int
        OBVIOUS
      <4> QED BY <4>1, CutRight
    <3>3. Cut(a \o w, e) = a \o y
      <4>1. e >= Len(a)
        BY <2>3, <2>4, <2>8
      <4>2. e \in Nat
        BY <2>3
      <4>3. Cut(a \o w, e) = a \o Cut(w, e - Len(a))
        BY <4>1, <4>2, CutJoined
      <4>4. e - Len(a) = d
        BY <2>4, <3>1
      <4> QED BY <3>2, <4>3, <4>4
    <3>4. PICK u \in Reader : /\ u = Chars(s, a) /\ u.state = "delim" /\ u.mode = "line" /\ u.pos = 0 /\ u.buf = <<>>
                              /\ u.argv = s.argv \o FlattenSeq(Worded(ks, j - 1))
      <4>1. PICK t : t = Chars(s, Mark \o Text(ks, j - 1))
        OBVIOUS
      <4>2. t \in Reader /\ t.state = "delim" /\ t.mode = "line" /\ t.pos = 0 /\ t.buf = <<>> /\ t.argv = s.argv \o FlattenSeq(Worded(ks, j - 1))
        BY <2>1, <4>1, KeysRead, ZenonT(40)
      <4> QED BY <2>4, <4>1, <4>2
    <3>5. Chars(s, a \o y) = Chars(u, y)
      BY <3>4, CharsConcat
    <3>6. PICK q \in {"newline", "delim", "valuedelim"} : Read(u, EndOfLine(Chars(u, y)), q, <<>>, WordsOf(CutKey(ks[j], d)))
      BY <2>1, <2>2, <2>5, <3>1, <3>2, <3>4, KeyCut, ZenonT(40)
    <3>7. PICK t : t = EndOfLine(Chars(u, y))
      OBVIOUS
    <3>8. t \in Reader /\ t.state = q /\ t.pos = 0 /\ t.buf = <<>> /\ t.argv = u.argv \o WordsOf(CutKey(ks[j], d))
      BY <3>4, <3>6, <3>7 DEF Read
    <3>9. u.argv \o WordsOf(CutKey(ks[j], d)) = s.argv \o FlattenSeq(CutWords(ks, j, e))
      <4>1. PICK L : L = Seq(Letter)
        OBVIOUS
      <4>2. PICK A \in Seq(L), B \in Seq(L), C \in Seq(L) : A = s.argv /\ B = FlattenSeq(Worded(ks, j - 1)) /\ C = WordsOf(CutKey(ks[j], d))
        <5>1. d \in Int
          OBVIOUS
        <5> QED BY <2>1, <4>1, <5>1, ReaderParts, KeysWords, KeyWords
      <4>3. A \o (B \o C) = (A \o B) \o C
        BY ThreeJoined, SMTT(40)
      <4>4. CutWords(ks, j, e) = Append(Worded(ks, j - 1), C)
        BY <2>2, <2>3, <2>8, <3>1, <4>2, CutWordsNext, Zenon
      <4>5. Worded(ks, j - 1) \in Seq(Seq(L))
        BY <2>1, <4>1, KeysWords
      <4>6. FlattenSeq(Append(Worded(ks, j - 1), C)) = B \o C
        BY <4>2, <4>5, FlattenAppend
      <4> QED BY <3>4, <4>2, <4>3, <4>4, <4>6
    <3>10. EndOfLine(Chars(s, Cut(Mark \o Text(ks, j), e))) = t
      BY <2>6, <3>3, <3>5, <3>7
    <3> QED BY <3>8, <3>9, <3>10 DEF Ends
  <2> QED BY <2>2, <2>3, <2>7, <2>8
<1>3. n \in P
  <2>1. P \in SUBSET (0..n) /\ n \in 0..n
    OBVIOUS
  <2> HIDE DEF P
  <2> QED BY <1>1, <1>2, <2>1, NumberInduction
<1> QED BY <1>3

\* the line without its newline: the keys, without the last colon
LEMMA Written ==
    ASSUME NEW n \in Nat, NEW ks \in [1..n -> Key], Len(ks) = n
    PROVE  \E c \in Seq(Letter), m \in Nat :
             /\ WellFormed(ks) = c \o <<"\n">> /\ Len(c) = m /\ m >= 6 /\ m <= Offset(ks, n + 1)
             /\ \A i \in 7..m : c[i] \in KeyLetter
             /\ \A i \in 1..n : Offset(ks, i) + Len(Word(ks[i])) <= m
             /\ \A e \in 6..m : Cut(c, e) = Cut(Mark \o Text(ks, n), e)
<1> DEFINE x == [i \in DOMAIN ks |-> Word(ks[i]) \o (IF i = Len(ks) THEN <<>> ELSE <<":">>)]
<1>1. DOMAIN ks = 1..n
  OBVIOUS
<1>2. WellFormed(ks) = (Mark \o FlattenSeq(x)) \o <<"\n">>
  BY DEF WellFormed
<1>3. PICK a \in Seq(Letter) : a = Mark /\ Len(a) = 6
  BY NameRead, ReaderStarts
<1>4. /\ \A i \in 1..(n + 1) : Offset(ks, i) \in Nat
      /\ \A i \in 1..n : Len(Word(ks[i])) \in Nat /\ Offset(ks, i) + Len(Word(ks[i])) + 1 <= Offset(ks, n + 1)
  <2>1. \A i \in 1..n : i < n + 1 /\ n + 1 \in 1..(n + 1)
    OBVIOUS
  <2> QED BY <2>1, Offsets
<1>5. n + 1 \in 1..(n + 1) /\ (n + 1) - 1 = n /\ n \in 0..n
  OBVIOUS
<1>6. PICK o \in Nat : o = Offset(ks, n + 1) /\ o = Len(Mark \o Text(ks, n)) /\ o >= 6
  <2>1. Offset(ks, n + 1) \in Nat /\ Offset(ks, n + 1) = Len(Mark \o Text(ks, (n + 1) - 1)) /\ Offset(ks, n + 1) >= 6
    BY <1>5, Offsets
  <2> QED BY <1>5, <2>1
<1>7. CASE n = 0
  <2>1. x = <<>>
    BY <1>1, <1>7
  <2>2. FlattenSeq(x) = <<>> /\ Text(ks, n) = <<>>
    BY <1>7, <2>1, KeysText, KeysWords
  <2>3. a \o <<>> = a
    OBVIOUS
  <2>4. WellFormed(ks) = a \o <<"\n">> /\ Mark \o Text(ks, n) = a
    BY <1>2, <1>3, <2>2, <2>3
  <2>5. /\ 6 \in Nat /\ 6 >= 6 /\ \A i \in 7..6 : a[i] \in KeyLetter
        /\ \A i \in 1..n : Offset(ks, i) + Len(Word(ks[i])) <= 6
    BY <1>7
  <2> QED BY <1>3, <1>6, <2>4, <2>5
<1>8. CASE n # 0
  <2>1. n \in 1..n /\ n - 1 \in 0..n /\ ks[n] \in Key
    BY <1>8
  <2>2. PICK w \in Seq(KeyLetter) : w = Word(ks[n]) /\ w \in Seq(Letter)
    BY <2>1, KeyRight
  <2>3. PICK y \in Seq(KeyLetter) : y = Text(ks, n - 1) /\ y \in Seq(Letter)
    BY <2>1, KeysText
  <2>4. FlattenSeq(x) = y \o w
    <3>1. x = [i \in 1..n |-> IF i = n THEN Word(ks[i]) ELSE Word(ks[i]) \o <<":">>]
      <4>1. ASSUME NEW i \in 1..n PROVE Word(ks[i]) \o <<>> = Word(ks[i])
        <5>1. PICK u \in Seq(Letter) : u = Word(ks[i])
          BY KeyRight
        <5>2. u \o <<>> = u
          OBVIOUS
        <5> QED BY <5>1, <5>2
      <4> QED BY <1>1, <4>1
    <3>2. PICK SK : SK = Seq(KeyLetter)
      OBVIOUS
    <3>3. Texted(ks, n - 1) \in Seq(SK)
      <4>1. \A i \in 1..(n - 1) : Texted(ks, n - 1)[i] \in SK
        <5>1. \A i \in 1..(n - 1) : i \in 1..n
          OBVIOUS
        <5> QED BY <3>2, <5>1, KeyRight DEF Texted
      <4>2. Texted(ks, n - 1) = [i \in 1..(n - 1) |-> Texted(ks, n - 1)[i]]
        BY DEF Texted
      <4>3. PICK z : z = Texted(ks, n - 1)
        OBVIOUS
      <4>4. n - 1 \in Nat
        BY <2>1
      <4>5. z \in [1..(n - 1) -> SK]
        BY <4>1, <4>2, <4>3
      <4>6. z \in Seq(SK)
        BY <4>4, <4>5
      <4> QED BY <4>3, <4>6
    <3>4. x = Append(Texted(ks, n - 1), w)
      <4>1. \A i \in 1..n : x[i] \in SK
        <5>1. \A i \in 1..n : Word(ks[i]) \in SK /\ Word(ks[i]) \o <<":">> \in SK
          BY <3>2, KeyRight
        <5> QED BY <3>1, <5>1
      <4>2. PICK z : z = x
        OBVIOUS
      <4>3. z = [i \in 1..n |-> z[i]]
        BY <3>1, <4>2
      <4>4. [i \in 1..(n - 1) |-> z[i]] = Texted(ks, n - 1)
        <5>1. \A i \in 1..(n - 1) : i \in 1..n /\ i # n
          BY <2>1
        <5> QED BY <3>1, <4>2, <5>1 DEF Texted
      <4>5. z[n] = w
        BY <2>1, <2>2, <3>1, <4>2
      <4> HIDE DEF x
      <4>6. [i \in 1..n |-> z[i]] = Append([i \in 1..(n - 1) |-> z[i]], z[n])
        BY <2>1, <4>1, <4>2, Extended
      <4> QED BY <4>2, <4>3, <4>4, <4>5, <4>6
    <3> HIDE DEF x
    <3>5. FlattenSeq(Append(Texted(ks, n - 1), w)) = FlattenSeq(Texted(ks, n - 1)) \o w
      BY <2>2, <3>2, <3>3, FlattenAppend
    <3> QED BY <2>3, <3>4, <3>5 DEF Text
  <2>5. PICK r \in Seq(KeyLetter) : r = y \o w /\ r \in Seq(Letter)
    <3>1. y \o w \in Seq(KeyLetter)
      OBVIOUS
    <3>2. y \o w \in Seq(Letter)
      BY <2>2, <2>3
    <3> QED BY <3>1, <3>2
  <2>6. PICK d \in Seq(Letter) : d = <<":">> /\ Len(d) = 1
    <3>1. ":" \in Letter
      BY DEF Letter
    <3>2. <<":">> \in Seq(Letter) /\ Len(<<":">>) = 1
      BY <3>1
    <3> QED BY <3>2
  <2>7. Text(ks, n) = r \o d
    <3>1. Text(ks, n) = y \o (w \o d)
      BY <2>1, <2>2, <2>3, <2>6, KeysText
    <3>2. PICK v \in Seq(Letter), z \in Seq(Letter) : v = w /\ z = y
      BY <2>2, <2>3
    <3>3. (z \o v) \o d = z \o (v \o d)
      BY TextsJoined, ZenonT(40)
    <3> QED BY <2>5, <3>1, <3>2, <3>3
  <2>8. PICK c \in Seq(Letter) : c = a \o r
    <3>1. a \o r \in Seq(Letter)
      BY <2>5
    <3> QED BY <3>1
  <2>9. PICK m \in Nat, k \in Nat : m = Len(c) /\ k = Len(r) /\ m = 6 + k /\ \A i \in 7..m : c[i] = r[i - 6] /\ i - 6 \in 1..k
    <3>1. PICK k \in Nat : k = Len(r)
      OBVIOUS
    <3>2. Len(a \o r) = Len(a) + Len(r) /\ \A i \in 1..Len(r) : (a \o r)[Len(a) + i] = r[i]
      BY <2>5
    <3>3. Len(c) = 6 + k /\ \A i \in 1..k : c[6 + i] = r[i]
      BY <1>3, <2>8, <3>1, <3>2
    <3>4. \A i \in 7..(6 + k) : i - 6 \in 1..k /\ 6 + (i - 6) = i
      OBVIOUS
    <3>5. \A i \in 7..(6 + k) : c[i] = r[i - 6]
      <4> TAKE i \in 7..(6 + k)
      <4>1. PICK j \in 1..k : j = i - 6 /\ 6 + j = i
        BY <3>4
      <4> QED BY <3>3, <4>1
    <3>6. 6 + k \in Nat
      OBVIOUS
    <3> QED BY <3>1, <3>3, <3>4, <3>5, <3>6
  <2>10. \A i \in 7..m : c[i] \in KeyLetter
    <3>1. \A i \in 1..k : r[i] \in KeyLetter
      BY <2>9
    <3> QED BY <2>9, <3>1
  <2>11. Mark \o Text(ks, n) = c \o d
    <3>1. PICK z \in Seq(Letter) : z = r
      BY <2>5
    <3>2. (a \o z) \o d = a \o (z \o d)
      BY TextsJoined, SMTT(40)
    <3> QED BY <1>3, <2>7, <2>8, <3>1, <3>2
  <2>12. o = m + 1
    <3>1. Len(c \o d) = Len(c) + Len(d)
      OBVIOUS
    <3> QED BY <1>6, <2>6, <2>9, <2>11, <3>1
  <2>13. \A i \in 1..n : Offset(ks, i) + Len(Word(ks[i])) <= m
    <3> TAKE i \in 1..n
    <3>1. PICK p \in Nat, q \in Nat : p = Offset(ks, i) /\ q = Len(Word(ks[i])) /\ p + q + 1 <= m + 1
      <4>1. i \in 1..(n + 1)
        OBVIOUS
      <4> QED BY <1>4, <1>6, <2>12, <4>1
    <3>2. p + q <= m
      BY <3>1, SMTT(40)
    <3> QED BY <3>1, <3>2
  <2>14. \A e \in 6..m : Cut(c, e) = Cut(Mark \o Text(ks, n), e)
    <3> TAKE e \in 6..m
    <3>1. e \in Nat /\ e <= Len(c)
      BY <2>9
    <3>2. Cut(c \o d, e) = Cut(c, e)
      BY <3>1, CutJoined
    <3> QED BY <2>11, <3>2
  <2>15. WellFormed(ks) = c \o <<"\n">>
    BY <1>2, <1>3, <2>4, <2>5, <2>8
  <2>16. m >= 6 /\ m <= Offset(ks, n + 1)
    BY <1>6, <2>9, <2>12, SMTT(40)
  <2> QED BY <2>9, <2>10, <2>13, <2>14, <2>15, <2>16
<1> QED BY <1>7, <1>8

LEMMA ShownWords ==
    ASSUME NEW n \in Nat, NEW ks \in [1..n -> Key], NEW e \in Nat
    PROVE  Words(Shown(ks, e)) = FlattenSeq(CutWords(ks, n, e)) /\ FlattenSeq(CutWords(ks, n, e)) \in Seq(Seq(Letter))
<1>1. DOMAIN ks = 1..n
  OBVIOUS
<1>2. [i \in DOMAIN Shown(ks, e) |-> WordsOf(Shown(ks, e)[i])] = CutWords(ks, n, e)
  BY <1>1 DEF Shown, CutWords, CutKey
<1>3. PICK L : L = Seq(Letter)
  OBVIOUS
<1> DEFINE P == {j \in 0..n : FlattenSeq(CutWords(ks, j, e)) \in Seq(L)}
<1>4. 0 \in P
  <2>1. CutWords(ks, 0, e) = <<>>
    BY DEF CutWords
  <2>2. <<>> \in Seq(L)
    OBVIOUS
  <2> QED BY <2>1, <2>2, KeysWords
<1>5. ASSUME NEW j \in 1..n, j - 1 \in P PROVE j \in P
  <2>1. j - 1 \in 0..n /\ j \in 0..n /\ j \in 1..(n + 1)
    OBVIOUS
  <2>2. PICK o \in Nat : o = Offset(ks, j)
    BY <2>1, Offsets
  <2>3. CASE e <= o
    BY <1>5, <2>1, <2>2, <2>3, CutWordsNext
  <2>4. CASE e > o
    <3>1. PICK C \in Seq(L) : C = WordsOf(CutKey(ks[j], e - o))
      <4>1. e - o \in Int /\ ks[j] \in Key
        OBVIOUS
      <4> QED BY <1>3, <4>1, KeyWords
    <3>2. CutWords(ks, j, e) = Append(Worded(ks, j - 1), C)
      BY <2>2, <2>4, <3>1, CutWordsNext
    <3>3. Worded(ks, j - 1) \in Seq(Seq(L))
      BY <1>3, <2>1, KeysWords
    <3>4. FlattenSeq(Worded(ks, j - 1)) \in Seq(L) /\ FlattenSeq(Append(Worded(ks, j - 1), C)) = FlattenSeq(Worded(ks, j - 1)) \o C
      BY <3>3, FlattenAppend
    <3>5. PICK A \in Seq(L) : A = FlattenSeq(Worded(ks, j - 1))
      BY <3>4
    <3>6. A \o C \in Seq(L)
      OBVIOUS
    <3> QED BY <2>1, <3>2, <3>4, <3>5, <3>6
  <2> QED BY <2>2, <2>3, <2>4
<1>6. n \in P
  <2>1. P \in SUBSET (0..n) /\ n \in 0..n
    OBVIOUS
  <2> HIDE DEF P
  <2> QED BY <1>4, <1>5, <2>1, NumberInduction
<1> QED BY <1>2, <1>3, <1>6 DEF Words

\* a piece that is long enough shows all of them
KeysWithin(ks, n, m) == \A i \in 1..n : Offset(ks, i) + Len(Word(ks[i])) <= m

LEMMA AllShown ==
    ASSUME NEW n \in Nat, NEW ks \in [1..n -> Key], NEW m \in Nat, NEW e \in Nat, m <= e,
           KeysWithin(ks, n, m)
    PROVE  CutWords(ks, n, m) = CutWords(ks, n, e)
<1>1. ASSUME NEW i \in 1..n, NEW z \in {m, e}
      PROVE  Offset(ks, i) < z /\ WordsOf(CutKey(ks[i], z - Offset(ks, i))) = WordsOf(ks[i])
  <2>1. PICK o \in Nat, k \in Nat : o = Offset(ks, i) /\ k = Len(Word(ks[i])) /\ k > 0 /\ o + k <= m
    <3>1. i \in 1..(n + 1)
      OBVIOUS
    <3> QED BY <3>1, Offsets DEF KeysWithin
  <2>2. o < z /\ z - o \in Int /\ z - o >= k
    BY <2>1
  <2> QED BY <2>1, <2>2, CutKeyWhole
<1>2. {i \in 1..n : Offset(ks, i) < m} = 1..n /\ {i \in 1..n : Offset(ks, i) < e} = 1..n
  BY <1>1
<1> QED BY <1>1, <1>2 DEF CutWords

LEMMA SameText ==
    ASSUME NEW a \in Seq(Letter), NEW b \in Seq(Letter), NEW n \in Nat, Len(a) = n, Len(b) = n, \A i \in 1..n : a[i] = b[i]
    PROVE  a = b
OBVIOUS

\* the first piece of a modeline
LEMMA FirstPiece ==
    ASSUME NEW s \in Reader, Ready(s), NEW n \in Nat, NEW ks \in [1..n -> Key], Len(ks) = n
    PROVE  LET t == Piece(s, PieceAt(WellFormed(ks), 1)) IN
           /\ t \in Reader /\ t.state = "newline" /\ t.pos = 0 /\ t.buf = <<>>
           /\ t.argv = s.argv \o FlattenSeq(CutWords(ks, n, PieceLen - 1))
<1>1. PICK c \in Seq(Letter), m \in Nat :
             /\ WellFormed(ks) = c \o <<"\n">> /\ Len(c) = m /\ m >= 6 /\ m <= Offset(ks, n + 1)
             /\ \A i \in 7..m : c[i] \in KeyLetter
             /\ \A i \in 1..n : Offset(ks, i) + Len(Word(ks[i])) <= m
             /\ \A e \in 6..m : Cut(c, e) = Cut(Mark \o Text(ks, n), e)
  BY Written
<1>2. PICK R \in Nat : R = PieceLen /\ R > 7 /\ R - 1 \in Nat
  <2>1. PieceLen \in Nat /\ PieceLen > 7 /\ PieceLen - 1 \in Nat
    BY PieceLenRight
  <2> QED BY <2>1
<1>3. PICK d \in Letter : d = "\n"
  BY DEF Letter
<1>4. PICK l \in Seq(Letter) : l = c \o <<d>> /\ Len(l) = m + 1 /\ l[m + 1] = d /\ \A i \in 1..m : l[i] = c[i]
  <2>1. c \o <<d>> \in Seq(Letter) /\ Len(c \o <<d>>) = Len(c) + 1 /\ (c \o <<d>>)[Len(c) + 1] = d
        /\ \A i \in 1..Len(c) : (c \o <<d>>)[i] = c[i]
    OBVIOUS
  <2> QED BY <1>1, <2>1
<1>5. PICK z \in 7..(m + 1) : z = IF m + 1 < 1 + R THEN m + 1 ELSE R
  <2>1. (IF m + 1 < 1 + R THEN m + 1 ELSE R) \in 7..(m + 1)
    BY <1>1, <1>2
  <2> QED BY <2>1
<1>6. PICK e \in 6..m : e = z - 1 /\ e \in Nat /\ e <= R - 1 /\ (e = R - 1 \/ e = m)
  <2>1. z - 1 \in 6..m /\ z - 1 \in Nat /\ z - 1 <= R - 1 /\ (z - 1 = R - 1 \/ z - 1 = m)
    BY <1>1, <1>2, <1>5
  <2> QED BY <2>1
<1>7. PICK q \in Seq(Letter) : q = PieceAt(l, 1) /\ Len(q) = z /\ \A i \in 1..z : q[i] = l[i]
  <2>1. PieceAt(l, 1) = SubSeq(l, 1, z)
    <3>1. 1 + R - 1 = R
      BY <1>2
    <3> QED BY <1>2, <1>4, <1>5, <3>1 DEF PieceAt
  <2>2. SubSeq(l, 1, z) \in Seq(Letter) /\ Len(SubSeq(l, 1, z)) = z /\ \A i \in 1..z : SubSeq(l, 1, z)[i] = l[i]
    BY <1>4, <1>5
  <2> QED BY <2>1, <2>2
<1>8. ~AtEnd(q) /\ Len(q) # 1 /\ q # <<"\n">>
  <2>1. z \in 1..z /\ z # 1
    BY <1>5
  <2>2. Last(q) = l[z]
    BY <1>7, <2>1 DEF Last
  <2>3. z = m + 1 => Last(q) = "\n"
    BY <1>3, <1>4, <2>2
  <2>4. z = m + 1 \/ z = R
    BY <1>5
  <2>5. ~(z < R) \/ z # R
    BY <1>2
  <2>6. Len(<<"\n">>) = 1
    OBVIOUS
  <2>7. ~AtEnd(q)
    <3>1. CASE z = m + 1
      BY <2>3, <3>1 DEF AtEnd
    <3>2. CASE z = R
      <4>1. ~(Len(q) < PieceLen)
        BY <1>2, <1>7, <3>2
      <4> QED BY <4>1 DEF AtEnd
    <3> QED BY <2>4, <3>1, <3>2
  <2> QED BY <1>7, <2>1, <2>6, <2>7
<1>9. Looked(q) = Cut(c, e)
  <2>1. PICK f : f = SubSeq(q, 1, e)
    OBVIOUS
  <2>2. f \in Seq(Letter) /\ Len(f) = e /\ \A i \in 1..e : f[i] = q[i]
    <3>1. e \in 1..Len(q) /\ 1 \in 1..Len(q)
      BY <1>5, <1>6, <1>7
    <3> QED BY <1>6, <1>7, <2>1, <3>1
  <2>3. Looked(q) = f
    BY <1>6, <1>7, <1>8, <2>1 DEF Looked, Front
  <2>4. PICK g \in Seq(Letter) : g = Cut(c, e) /\ Len(g) = e /\ \A i \in 1..e : g[i] = c[i]
    <3>1. e \in Int /\ e \in 0..Len(c)
      BY <1>1, <1>6
    <3>2. Cut(c, e) \in Seq(Letter) /\ Len(Cut(c, e)) = e /\ \A i \in 1..e : Cut(c, e)[i] = c[i]
      BY <3>1, CutRight
    <3> QED BY <3>2
  <2>5. \A i \in 1..e : i \in 1..z /\ i \in 1..m
    BY <1>5, <1>6
  <2>6. \A i \in 1..e : f[i] = g[i]
    <3> TAKE i \in 1..e
    <3>1. f[i] = q[i] /\ g[i] = c[i] /\ i \in 1..z /\ i \in 1..m
      BY <2>2, <2>4, <2>5
    <3>2. q[i] = l[i] /\ l[i] = c[i]
      BY <1>4, <1>7, <3>1
    <3> QED BY <3>1, <3>2
  <2>7. f = g
    <3> QED BY <1>6, <2>2, <2>4, <2>6, SameText, SMTT(40)
  <2> QED BY <2>3, <2>4, <2>7
<1>10. PICK t : t = EndOfLine(Chars(s, Looked(q)))
  OBVIOUS
<1>11. /\ t \in Reader /\ t.state \in {"newline", "delim", "valuedelim"} /\ t.pos = 0 /\ t.buf = <<>>
       /\ t.argv = s.argv \o FlattenSeq(CutWords(ks, n, R - 1))
  <2>1. PICK o \in Nat : o = Offset(ks, n + 1)
    <3>1. n + 1 \in 1..(n + 1)
      OBVIOUS
    <3> QED BY <3>1, Offsets
  <2>2. e \in 6..Offset(ks, n + 1)
    BY <1>1, <1>6, <2>1
  <2>3. Ends(s, ks, n, e)
    BY <2>2, ModelineCut
  <2>4. CutWords(ks, n, e) = CutWords(ks, n, R - 1)
    <3>1. CASE e = R - 1
      BY <3>1
    <3>2. CASE e = m
      <4>1. m <= R - 1
        BY <1>6, <3>2
      <4>2. CutWords(ks, n, m) = CutWords(ks, n, R - 1)
        <5>1. PICK k \in Nat : k = R - 1 /\ m <= k
          BY <1>2, <4>1
        <5>2. m \in Nat /\ KeysWithin(ks, n, m)
          BY <1>1 DEF KeysWithin
        <5>3. CutWords(ks, n, m) = CutWords(ks, n, k)
          BY <5>1, <5>2, AllShown
        <5> QED BY <5>1, <5>3
      <4> QED BY <3>2, <4>2
    <3> QED BY <1>6, <3>1, <3>2
  <2>5. Cut(Mark \o Text(ks, n), e) = Looked(q)
    BY <1>1, <1>9
  <2> QED BY <1>10, <2>3, <2>4, <2>5 DEF Ends
<1>12. Piece(s, q) = To(t, "newline")
  <2>1. s.state \notin {"complete", "error"} /\ t.state \notin {"error", "complete"}
    BY <1>11 DEF Ready
  <2> QED BY <1>8, <1>10, <2>1 DEF Piece
<1>13. PICK r : r = To(t, "newline")
  OBVIOUS
<1>14. "newline" \in ReaderStates
  BY DEF ReaderStates
<1>15. r \in Reader /\ r.state = "newline" /\ r.pos = 0 /\ r.buf = <<>> /\ r.argv = s.argv \o FlattenSeq(CutWords(ks, n, R - 1))
  BY <1>11, <1>13, <1>14, ToRight
<1>16. Piece(s, PieceAt(WellFormed(ks), 1)) = r
  BY <1>1, <1>3, <1>4, <1>7, <1>12, <1>13
<1> QED BY <1>2, <1>15, <1>16

\* the whole modeline: what does not fit has no words
LEMMA ModelineLine ==
    ASSUME NEW s \in Reader, Ready(s), NEW ks \in Keys
    PROVE  LET t == Line(s, WellFormed(ks)) IN
           /\ WellFormed(ks) \in Seq(Letter) /\ Words(Shown(ks, PieceLen - 1)) \in Seq(Seq(Letter))
           /\ t \in Reader /\ t.state = "newline" /\ t.pos = 0 /\ t.buf = <<>>
           /\ t.argv = s.argv \o Words(Shown(ks, PieceLen - 1))
<1>1. PICK n \in Nat : ks \in [1..n -> Key] /\ Len(ks) = n
  BY KeysRight
<1>2. PICK R \in Nat : R = PieceLen /\ R > 7 /\ R - 1 \in Nat
  <2>1. PieceLen \in Nat /\ PieceLen > 7 /\ PieceLen - 1 \in Nat
    BY PieceLenRight
  <2> QED BY <2>1
<1>3. Words(Shown(ks, R - 1)) = FlattenSeq(CutWords(ks, n, R - 1)) /\ FlattenSeq(CutWords(ks, n, R - 1)) \in Seq(Seq(Letter))
  BY <1>1, <1>2, ShownWords
<1>4. PICK c \in Seq(Letter), m \in Nat :
             WellFormed(ks) = c \o <<"\n">> /\ Len(c) = m /\ m >= 6 /\ \A i \in 7..m : c[i] \in KeyLetter
  BY <1>1, Written
<1>5. PICK d \in Letter : d = "\n"
  BY DEF Letter
<1>6. PICK l \in Seq(Letter) : l = c \o <<d>> /\ Len(l) = m + 1 /\ l[m + 1] = d /\ \A i \in 1..m : l[i] = c[i]
  <2>1. c \o <<d>> \in Seq(Letter) /\ Len(c \o <<d>>) = Len(c) + 1 /\ (c \o <<d>>)[Len(c) + 1] = d
        /\ \A i \in 1..Len(c) : (c \o <<d>>)[i] = c[i]
    OBVIOUS
  <2> QED BY <1>4, <2>1
<1>7. l = WellFormed(ks) /\ Last(l) = "\n" /\ l # <<>>
  <2>1. Len(<<>>) = 0
    OBVIOUS
  <2> QED BY <1>4, <1>5, <1>6, <2>1 DEF Last
<1>8. PICK f : PieceSteps(s, l, f) /\ Line(s, l) = f[Len(l)]
  BY PiecesFrom
<1>9. /\ f[1] \in Reader /\ f[1].state = "newline" /\ f[1].pos = 0 /\ f[1].buf = <<>>
      /\ f[1].argv = s.argv \o FlattenSeq(CutWords(ks, n, R - 1))
  <2>1. 1 \in 1..Len(l) /\ 1 - 1 = 0 /\ 1 % R = 1
    <3>1. 1 % R = 1
      BY <1>2
    <3>2. 1 \in 1..Len(l) /\ 1 - 1 = 0
      BY <1>6
    <3> QED BY <3>1, <3>2
  <2>2. f[0] = s /\ f[1] = Piece(f[0], PieceAt(l, 1))
    BY <1>2, <1>8, <2>1 DEF PieceSteps
  <2>3. PICK t : t = Piece(s, PieceAt(WellFormed(ks), 1))
    OBVIOUS
  <2>4. t \in Reader /\ t.state = "newline" /\ t.pos = 0 /\ t.buf = <<>> /\ t.argv = s.argv \o FlattenSeq(CutWords(ks, n, PieceLen - 1))
    BY <1>1, <2>3, FirstPiece
  <2>5. f[1] = t
    BY <1>7, <2>2, <2>3
  <2> QED BY <1>2, <2>4, <2>5
<1>10. ASSUME NEW p \in (1 + 1)..Len(l), p % PieceLen = 1
       PROVE  NoModeline(Looked(PieceAt(l, p)))
  <2>1. p \in 2..(m + 1) /\ p \in 1..Len(l)
    BY <1>6
  <2>2. 1 + R <= p
    <3>1. 1 % R = 1 /\ p % R = 1 /\ R > 1 /\ 1 < p /\ p \in Nat /\ 1 \in Nat
      BY <1>2, <1>10, <2>1
    <3> QED BY <3>1, PiecesApart
  <2>3. p = m + 1 \/ p \in 7..m
    BY <1>2, <2>1, <2>2
  <2>4. l[p] \notin {"blank", "-"}
    <3>1. CASE p = m + 1
      BY <1>5, <1>6, <3>1
    <3>2. CASE p \in 7..m
      <4>1. l[p] = c[p] /\ c[p] \in KeyLetter
        <5>1. p \in 1..m
          BY <3>2
        <5> QED BY <1>4, <1>6, <3>2, <5>1
      <4> QED BY <4>1 DEF KeyLetter
    <3> QED BY <2>3, <3>1, <3>2
  <2>5. Looked(PieceAt(l, p)) # <<>> /\ Looked(PieceAt(l, p))[1] = l[p]
    BY <2>1, PieceRight
  <2> QED BY <2>4, <2>5 DEF NoModeline
<1>11. PICK z : z = f[Len(l)]
  OBVIOUS
<1>12. z \in Reader /\ z.argv = f[1].argv /\ Ready(z) /\ z.state = "newline"
  <2>1. 1 \in {0, 1} /\ 1 <= Len(l) /\ 1 # 0
    BY <1>6
  <2>2. Ready(f[1])
    BY <1>9 DEF Ready
  <2> QED BY <1>7, <1>8, <1>9, <1>10, <1>11, <2>1, <2>2, RestOfLine, ZenonT(40)
<1>13. Line(s, WellFormed(ks)) = z
  BY <1>7, <1>8, <1>11
<1> QED BY <1>2, <1>3, <1>7, <1>9, <1>12, <1>13 DEF Ready

-----------------------------------------------------------------------------
\* a line without a modeline, whether it ends with a newline or not
LEMMA CodeLine ==
    ASSUME NEW s \in Reader, Ready(s), NEW l \in Seq(Letter), l # <<>>,
           \A p \in DOMAIN l : p % PieceLen = 1 => NoModeline(Looked(PieceAt(l, p))),
           s.state = "init" => l[1] # "#"
    PROVE  /\ Line(s, l) \in Reader /\ Line(s, l).argv = s.argv
           /\ Last(l) = "\n" => Ready(Line(s, l)) /\ Line(s, l).state = "newline"
<1>1. PICK f : PieceSteps(s, l, f) /\ Line(s, l) = f[Len(l)]
  BY PiecesFrom
<1>2. f[0] = s
  BY <1>1 DEF PieceSteps
<1>3. DOMAIN l = (0 + 1)..Len(l) /\ 0 \in {0, 1} /\ 0 <= Len(l)
  OBVIOUS
<1>4. \A p \in (0 + 1)..Len(l) : p % PieceLen = 1 => NoModeline(Looked(PieceAt(l, p)))
  BY <1>3
<1>5. PICK z : z = f[Len(l)]
  OBVIOUS
<1>6. z \in Reader /\ z.argv = f[0].argv /\ (Last(l) = "\n" => Ready(z) /\ z.state = "newline")
  BY <1>1, <1>2, <1>3, <1>4, <1>5, RestOfLine
<1> QED BY <1>1, <1>2, <1>5, <1>6

LEMMA LineIn ==
    ASSUME NEW s \in Reader, NEW l \in Seq(Letter)
    PROVE  Line(s, l) \in Reader
<1>1. PICK f : PieceSteps(s, l, f) /\ Line(s, l) = f[Len(l)]
  BY PiecesFrom
<1>2. Len(l) \in 0..Len(l)
  OBVIOUS
<1> QED BY <1>1, <1>2 DEF PieceSteps
LineSteps(text, from) ==
    /\ from \in [0..Len(text) -> Reader] /\ from[0] = ReaderStart
    /\ \A i \in 1..Len(text) : from[i] = Line(from[i - 1], text[i])

LEMMA LinesFrom ==
    ASSUME NEW text \in Seq(Seq(Letter))
    PROVE  \E from : LineSteps(text, from) /\ Lines(text) = from[Len(text)]
<1> DEFINE n == Len(text)
           body(f) == [i \in 0..n |-> IF i = 0 THEN ReaderStart ELSE Line(f[i - 1], text[i])]
           from == CHOOSE f : f = body(f)
<1>1. n \in Nat /\ DOMAIN text = 1..n /\ \A i \in 1..n : text[i] \in Seq(Letter)
  OBVIOUS
<1>2. Lines(text) = from[n]
  BY DEF Lines
<1>3. ReaderStart \in Reader
  BY ReaderStarts
<1> HIDE DEF n
<1>4. PICK f \in [0..n -> Reader] : f = body(f)
  <2> DEFINE goes == [a \in (1..n) \X Reader |-> Line(a[2], text[a[1]])]
  <2>1. goes \in [(1..n) \X Reader -> Reader]
    <3> SUFFICES ASSUME NEW a \in (1..n) \X Reader PROVE Line(a[2], text[a[1]]) \in Reader
      OBVIOUS
    <3>1. a[2] \in Reader /\ text[a[1]] \in Seq(Letter)
      BY <1>1
    <3> QED BY <3>1, LineIn
  <2>2. \A i \in 1..n, x \in Reader : goes[<<i, x>>] = Line(x, text[i])
    OBVIOUS
  <2> HIDE DEF goes
  <2>3. PICK f \in [0..n -> Reader] : Steps(n, ReaderStart, goes, f)
    BY <1>1, <1>3, <2>1, NumberRecursion
  <2>4. ASSUME NEW i \in 0..n
        PROVE  f[i] = IF i = 0 THEN ReaderStart ELSE Line(f[i - 1], text[i])
    <3>1. CASE i = 0
      BY <2>3, <3>1 DEF Steps
    <3>2. CASE i # 0
      <4>1. i \in 1..n /\ i - 1 \in 0..n
        BY <1>1, <3>2
      <4>2. PICK x \in Reader : x = f[i - 1]
        BY <4>1
      <4>3. f[i] = goes[<<i, x>>]
        BY <2>3, <4>1, <4>2 DEF Steps
      <4> QED BY <2>2, <3>2, <4>1, <4>2, <4>3
    <3> QED BY <3>1, <3>2
  <2>5. f = body(f)
    BY <2>4
  <2> QED BY <2>5
<1>5. from = body(from)
  BY <1>4
<1>6. /\ from[0] = ReaderStart /\ f[0] = ReaderStart
      /\ \A i \in 1..n : from[i] = Line(from[i - 1], text[i]) /\ f[i] = Line(f[i - 1], text[i])
  <2> HIDE DEF from
  <2>1. \A i \in 1..n : i \in 0..n /\ i # 0
    OBVIOUS
  <2> QED BY <1>1, <1>4, <1>5, <2>1
<1>7. from[n] = f[n]
  <2> HIDE DEF from
  <2> DEFINE P == {i \in 0..n : from[i] = f[i]}
  <2>1. 0 \in P
    BY <1>1, <1>6
  <2>2. ASSUME NEW i \in 1..n, i - 1 \in P PROVE i \in P
    <3>1. i \in 0..n /\ from[i - 1] = f[i - 1]
      BY <1>1, <2>2
    <3> QED BY <1>6, <3>1
  <2>3. P \in SUBSET (0..n)
    OBVIOUS
  <2>4. n \in 0..n
    BY <1>1
  <2>5. n \in P => from[n] = f[n]
    OBVIOUS
  <2> HIDE DEF P
  <2> QED BY <1>1, <2>1, <2>2, <2>3, <2>4, <2>5, NumberInduction
<1> HIDE DEF from
<1>8. LineSteps(text, f)
  BY <1>6 DEF LineSteps, n
<1> QED BY <1>2, <1>7, <1>8 DEF n

\* A modeline gives exactly the words that the buffer shows, and lines without
\* one none.
LEMMA ModelineOfText ==
    ASSUME NEW ks \in Keys, NEW b \in Before, NEW a \in After
    PROVE  Modeline(b \o <<WellFormed(ks)>> \o a) = Words(Shown(ks, PieceLen - 1))
<1> DEFINE L == Seq(Letter)
<1>0. PICK given : given = Words(Shown(ks, PieceLen - 1))
  OBVIOUS
<1>1. b \in Seq(L) /\ a \in Seq(L)
  BY LinesAssumption
<1>2. PICK w : w = WellFormed(ks)
  OBVIOUS
<1>3. w \in L
  BY <1>2, ReaderStarts, ModelineLine
<1> DEFINE text == b \o <<w>> \o a
           n == Len(text)
           m == Len(b) + 1
<1>4. /\ text \in Seq(L) /\ n \in Nat /\ m \in 1..n /\ n = m + Len(a) /\ Len(b) \in Nat /\ Len(a) \in Nat
      /\ \A i \in 1..n : \/ i < m /\ i \in DOMAIN b /\ text[i] = b[i]
                         \/ i = m /\ text[i] = w
                         \/ i > m /\ i - m \in DOMAIN a /\ text[i] = a[i - m]
  <2> HIDE DEF L
  <2>1. PICK t \in Seq(L) : t = b \o <<w>> /\ Len(t) = m /\ Len(b) \in Nat /\ \A i \in 1..m : t[i] = IF i < m THEN b[i] ELSE w
    <3>1. b \o <<w>> \in Seq(L) /\ Len(b \o <<w>>) = m /\ Len(b) \in Nat
      BY <1>1, <1>3
    <3>2. \A i \in 1..m : (b \o <<w>>)[i] = IF i < m THEN b[i] ELSE w
      BY <1>1, <1>3
    <3> QED BY <3>1, <3>2
  <2>2. PICK u \in Seq(L) : u = t \o a /\ Len(u) = m + Len(a) /\ Len(a) \in Nat
                          /\ \A i \in 1..(m + Len(a)) : u[i] = IF i <= m THEN t[i] ELSE a[i - m]
    <3>1. t \o a \in Seq(L) /\ Len(t \o a) = m + Len(a) /\ Len(a) \in Nat
      BY <1>1, <2>1
    <3>2. \A i \in 1..(m + Len(a)) : (t \o a)[i] = IF i <= m THEN t[i] ELSE a[i - m]
      BY <1>1, <2>1
    <3> QED BY <3>1, <3>2
  <2>3. text = u /\ n = m + Len(a)
    BY <2>1, <2>2
  <2> HIDE DEF text, n
  <2>4. \A i \in 1..n : (i < m => i \in 1..Len(b)) /\ (i > m => i - m \in 1..Len(a)) /\ (i <= m => i \in 1..m)
    BY <2>1, <2>2, <2>3
  <2>5. DOMAIN b = 1..Len(b) /\ DOMAIN a = 1..Len(a)
    BY <1>1
  <2> QED BY <2>1, <2>2, <2>3, <2>4, <2>5
<1> HIDE DEF text, n, m, L
<1>5. PICK from : LineSteps(text, from) /\ Lines(text) = from[n]
  BY <1>4, LinesFrom DEF n, L
<1> DEFINE argv(i) == IF i < m THEN <<>> ELSE given
           P == {i \in 0..n : /\ from[i] \in Reader /\ from[i].argv = argv(i)
                              /\ i < n => Ready(from[i]) /\ (i # 0 => from[i].state = "newline")}
<1>6. 0 \in P
  BY <1>4, <1>5, ReaderStarts DEF LineSteps
<1>7. ASSUME NEW i \in 1..n, i - 1 \in P PROVE i \in P
  <2>1. PICK s \in Reader : s = from[i - 1]
    BY <1>7
  <2>2. i \in 0..n /\ Ready(s) /\ s.argv = argv(i - 1) /\ (i # 1 => s.state = "newline")
    BY <1>4, <1>7, <2>1
  <2>3. PICK r : r = Line(s, text[i])
    OBVIOUS
  <2>4. from[i] = r
    BY <1>5, <2>1, <2>3 DEF LineSteps, n
  <2> SUFFICES r \in Reader /\ r.argv = argv(i) /\ (i < n => Ready(r) /\ r.state = "newline")
    BY <2>2, <2>4
  <2>5. CASE i < m
    <3>1. i \in DOMAIN b /\ text[i] = b[i]
      BY <1>4, <2>5
    <3>2. /\ b[i] # <<>> /\ \A p \in DOMAIN b[i] : p % PieceLen = 1 => NoModeline(Looked(PieceAt(b[i], p)))
          /\ Last(b[i]) = "\n" /\ (i = 1 => b[i][1] # "#")
      BY <3>1, LinesAssumption
    <3>3. b[i] \in Seq(Letter)
      BY <1>1, <3>1 DEF L
    <3>4. s.state = "init" => i = 1
      BY <2>2
    <3>5. r \in Reader /\ r.argv = s.argv /\ Ready(r) /\ r.state = "newline"
      BY <2>2, <2>3, <3>1, <3>2, <3>3, <3>4, CodeLine
    <3>6. argv(i - 1) = argv(i)
      BY <1>4, <2>5
    <3> QED BY <2>2, <3>5, <3>6
  <2>6. CASE i = m
    <3>1. text[i] = w
      BY <1>4, <2>6
    <3>2. r \in Reader /\ r.state = "newline" /\ r.pos = 0 /\ r.buf = <<>> /\ r.argv = s.argv \o given
      <4>1. PICK t : t = Line(s, WellFormed(ks))
        OBVIOUS
      <4>2. t \in Reader /\ t.state = "newline" /\ t.pos = 0 /\ t.buf = <<>> /\ t.argv = s.argv \o given
        BY <1>0, <2>2, <4>1, ModelineLine
      <4> QED BY <1>2, <2>3, <3>1, <4>1, <4>2
    <3>3. s.argv = <<>>
      BY <1>4, <2>2, <2>6
    <3>4. <<>> \o given = given
      <4>1. given \in Seq(L)
        BY <1>0, ReaderStarts, ModelineLine DEF L
      <4> QED BY <4>1
    <3>5. argv(i) = given
      BY <1>4, <2>6
    <3> QED BY <3>2, <3>3, <3>4, <3>5 DEF Ready
  <2>7. CASE i > m
    <3>1. i - m \in DOMAIN a /\ text[i] = a[i - m] /\ i # 1
      BY <1>4, <2>7
    <3>2. /\ a[i - m] # <<>> /\ \A p \in DOMAIN a[i - m] : p % PieceLen = 1 => NoModeline(Looked(PieceAt(a[i - m], p)))
          /\ i - m < Len(a) => Last(a[i - m]) = "\n"
      BY <3>1, LinesAssumption
    <3>3. a[i - m] \in Seq(Letter)
      BY <1>1, <3>1 DEF L
    <3>4. s.state # "init"
      BY <2>2, <3>1
    <3>5. r \in Reader /\ r.argv = s.argv /\ (i - m < Len(a) => Ready(r) /\ r.state = "newline")
      BY <2>2, <2>3, <3>1, <3>2, <3>3, <3>4, CodeLine
    <3>6. argv(i - 1) = argv(i) /\ (i < n => i - m < Len(a))
      BY <1>4, <2>7
    <3> QED BY <2>2, <3>5, <3>6
  <2> QED BY <1>4, <2>5, <2>6, <2>7
<1>8. from[n].argv = given
  <2>1. P \in SUBSET (0..n)
    OBVIOUS
  <2>2. n \in 0..n
    BY <1>4
  <2>3. n \in P => from[n].argv = given
    BY <1>4
  <2> HIDE DEF P
  <2> QED BY <1>4, <1>6, <1>7, <2>1, <2>2, <2>3, NumberInduction
<1> QED BY <1>0, <1>2, <1>5, <1>8 DEF Modeline, text

-----------------------------------------------------------------------------
\* The search has tried the files before the one it uses, in their order, and
\* only those it tried have run.
Tried ==
    /\ errors \o (IF chosen = "none" THEN <<>> ELSE <<chosen>>) \o left = Candidates
    /\ chosen # "none" => file[chosen] = "works"
    /\ ran \subseteq ToSet(errors) \cup {chosen}

Untried == chosen = "none" /\ errors = <<>> /\ ran = {}

\* the words that the buffer shows of the modeline
Wanted == Words(Shown(keys, PieceLen - 1))

ScreensAsked == noAuto = ((IF cmd.force \/ Given(Wanted) = "unset" THEN cmd.screen ELSE Given(Wanted)) = "off")

LinesRight ==
    /\ keys \in Keys
    /\ (keys = <<>> /\ lines = <<>>) \/ (lines \in Texts(keys))

ConfigInv ==
    /\ ConfigTypeOK
    /\ file \in [arg : {"missing", "fails", "works"}, user : {"missing", "syntax", "fails", "works"},
                 default : {"syntax", "fails", "works"}]
    /\ LinesRight
    /\ step \in {"options", "modeline", "lua"} => Untried
    /\ step = "modeline" => ~cmd.force
    /\ step = "lua" /\ ~cmd.force => args = Wanted
    /\ step \in {"lua", "early", "screens", "late", "scanned", "loop"} => ScreensAsked
    /\ step = "early" => noAuto
    /\ step = "late" => ~noAuto /\ haveScreen
    /\ step \in {"early", "late", "scanned", "loop"} => Tried
    /\ step = "screens" => IF noAuto THEN Tried /\ chosen # "none" ELSE Untried /\ left = Candidates
    /\ step = "scanned" => chosen # "none" /\ (noAuto \/ haveScreen)
    /\ step = "loop" => chosen # "none" /\ haveScreen

LEMMA CandidatesRight ==
    ASSUME ConfigTypeOK
    PROVE  Candidates \in Seq(File)
BY SMTT(40) DEF Candidates, File

LEMMA ConfigInitRight == ConfigInit => ConfigInv
<1> SUFFICES ASSUME ConfigInit PROVE ConfigInv
  OBVIOUS
<1>1. ConfigTypeOK
  <2>1. <<>> \in Seq(File)
    OBVIOUS
  <2> QED BY <2>1 DEF ConfigInit, ConfigTypeOK, File
<1>2. LinesRight
  <2>1. CASE file[FirstFile] = "missing"
    <3>1. keys = <<>> /\ lines = <<>>
      BY <2>1 DEF ConfigInit
    <3>2. <<>> \in [1..0 -> [key : {"k"}, value : Values \cup {<<>>}]]
      OBVIOUS
    <3> QED BY <3>1, <3>2, MaxKeysAssumption DEF LinesRight, Keys
  <2>2. CASE file[FirstFile] # "missing"
    BY <2>2 DEF ConfigInit, LinesRight
  <2> QED BY <2>1, <2>2
<1> QED BY <1>1, <1>2 DEF ConfigInit, ConfigInv, Untried

LEMMA WordsRead ==
    ASSUME LinesRight
    PROVE  Modeline(lines) = Wanted
<1>1. CASE lines \in Texts(keys)
  <2>1. PICK p \in Before \X After : lines = p[1] \o <<WellFormed(keys)>> \o p[2]
    BY <1>1 DEF Texts
  <2> QED BY <2>1, ModelineOfText DEF LinesRight, Wanted
<1>2. CASE keys = <<>> /\ lines = <<>>
  <2>1. PICK t \in Seq(Seq(Letter)) : t = <<>> /\ Len(t) = 0
    <3>1. <<>> \in Seq(Seq(Letter)) /\ Len(<<>>) = 0
      OBVIOUS
    <3> QED BY <3>1
  <2>2. PICK from : LineSteps(t, from) /\ Lines(t) = from[Len(t)]
    BY LinesFrom
  <2>3. Modeline(lines) = <<>>
    BY <1>2, <2>1, <2>2, ReaderStarts DEF LineSteps, Modeline
  <2>4. Shown(keys, PieceLen - 1) = <<>>
    BY <1>2 DEF Shown
  <2>5. PICK sh : sh = Shown(keys, PieceLen - 1)
    OBVIOUS
  <2>6. [i \in DOMAIN sh |-> WordsOf(sh[i])] = <<>>
    BY <2>4, <2>5
  <2>7. Words(sh) = <<>>
    BY <2>1, <2>6 DEF Words, FlattenSeq
  <2>8. Wanted = <<>>
    BY <2>5, <2>7 DEF Wanted
  <2> QED BY <2>3, <2>8
<1> QED BY <1>1, <1>2 DEF LinesRight

LEMMA ConfigStep == ConfigInv /\ [ConfigNext]_configVars => ConfigInv'
<1> SUFFICES ASSUME ConfigInv, [ConfigNext]_configVars PROVE ConfigInv'
  OBVIOUS
<1>1. ConfigTypeOK /\ Candidates \in Seq(File)
  BY CandidatesRight DEF ConfigInv
\* what no step changes
<1>2. cmd' = cmd /\ file' = file /\ lines' = lines /\ keys' = keys
  BY DEF ConfigNext, Options, ReadModeline, StartSearch, ScanScreens, Loaded, NoFile, Fatal, RunLoop, QuitLoop, Load, ScreenFound
<1>3. LinesRight' /\ Candidates' = Candidates /\ Wanted' = Wanted /\ Given(Wanted)' = Given(Wanted)
  BY <1>2 DEF ConfigInv, LinesRight, Candidates, Wanted
<1>4. ASSUME UNCHANGED <<left, chosen, ran, errors>>
      PROVE  (Tried' <=> Tried) /\ (Untried' <=> Untried)
  BY <1>2, <1>3, <1>4 DEF Tried, Untried
<1>5. ASSUME UNCHANGED noAuto PROVE ScreensAsked' <=> ScreensAsked
  BY <1>2, <1>3, <1>5 DEF ScreensAsked
<1>6. CASE Options
  <2>1. noAuto' = (cmd.screen = "off")
    BY <1>6 DEF Options
  <2>2. cmd.force => ScreensAsked'
    BY <1>2, <2>1 DEF ScreensAsked
  <2>3. Untried'
    BY <1>4, <1>6 DEF Options, ConfigInv
  <2>4. ConfigTypeOK'
    BY <1>1, <1>2, <1>6, <2>1 DEF Options, ConfigTypeOK
  <2> QED BY <1>2, <1>3, <1>6, <2>2, <2>3, <2>4 DEF Options, ConfigInv
<1>7. CASE ReadModeline
  <2>1. args' = Wanted
    BY <1>7, WordsRead DEF ReadModeline, ConfigInv
  <2>2. ~cmd.force
    BY <1>7 DEF ReadModeline, ConfigInv
  <2>3. ScreensAsked'
    BY <1>2, <1>3, <1>7, <2>1, <2>2 DEF ReadModeline, LaterWins, ScreensAsked
  <2>4. Untried'
    BY <1>4, <1>7 DEF ReadModeline, ConfigInv
  <2>5. ConfigTypeOK'
    BY <1>1, <1>2, <1>7 DEF ReadModeline, ConfigTypeOK
  <2> QED BY <1>2, <1>3, <1>7, <2>1, <2>3, <2>4, <2>5 DEF ReadModeline, ConfigInv
<1>8. CASE StartSearch
  <2>1. Untried /\ chosen' = chosen /\ errors' = errors /\ ran' = ran /\ left' = Candidates
    BY <1>8 DEF StartSearch, ConfigInv
  <2>2. Untried'
    BY <2>1 DEF Untried
  <2>3. Tried'
    <3>1. <<>> \o <<>> \o Candidates = Candidates
      BY <1>1
    <3> QED BY <1>3, <2>1, <2>2, <3>1 DEF Untried, Tried
  <2>4. ScreensAsked'
    BY <1>5, <1>8 DEF StartSearch, ConfigInv
  <2>5. ConfigTypeOK'
    BY <1>1, <1>2, <1>8 DEF StartSearch, ConfigTypeOK
  <2> QED BY <1>2, <1>3, <1>8, <2>1, <2>2, <2>3, <2>4, <2>5 DEF StartSearch, ConfigInv
<1>9. CASE ScanScreens
  <2>1. (Tried' <=> Tried) /\ (Untried' <=> Untried) /\ (ScreensAsked' <=> ScreensAsked)
    BY <1>4, <1>5, <1>9 DEF ScanScreens
  <2>2. Untried /\ left = Candidates => Tried
    <3>1. <<>> \o <<>> \o Candidates = Candidates
      BY <1>1
    <3> QED BY <3>1 DEF Untried, Tried
  <2>3. ConfigTypeOK'
    BY <1>1, <1>2, <1>9 DEF ScanScreens, ConfigTypeOK
  <2> QED BY <1>2, <1>3, <1>9, <2>1, <2>2, <2>3 DEF ScanScreens, ConfigInv, ConfigTypeOK
<1>10. ASSUME NEW makes \in BOOLEAN, NEW quits \in BOOLEAN, Load(makes, quits) PROVE ConfigInv'
  <2>1. PICK f \in File : f = Head(left) /\ left = <<f>> \o Tail(left) /\ Tail(left) \in Seq(File)
    <3>1. left \in Seq(File) /\ left # <<>>
      BY <1>1, <1>10 DEF Load, ConfigTypeOK
    <3>2. Head(left) \in File /\ left = <<Head(left)>> \o Tail(left) /\ Tail(left) \in Seq(File)
      BY <3>1
    <3> QED BY <3>2
  <2>2. PICK E \in Seq(File) : E = errors /\ Append(E, f) \in Seq(File) /\ ToSet(Append(E, f)) = ToSet(E) \cup {f}
                               /\ Append(E, f) \o Tail(left) = E \o (<<f>> \o Tail(left))
                               /\ E \o <<f>> \o Tail(left) = E \o (<<f>> \o Tail(left))
    <3>1. errors \in Seq(File)
      BY <1>1 DEF ConfigTypeOK
    <3>2. Append(errors, f) \in Seq(File) /\ ToSet(Append(errors, f)) = ToSet(errors) \cup {f}
      BY <3>1, AppendElements, SMTT(40) DEF Elements, ToSet
    <3>3. PICK r \in Seq(File) : r = Tail(left)
      BY <2>1
    <3>4. Append(errors, f) \o r = errors \o (<<f>> \o r) /\ errors \o <<f>> \o r = errors \o (<<f>> \o r)
      BY <3>1, SMTT(40)
    <3> QED BY <3>1, <3>2, <3>3, <3>4
  <2>3. chosen = "none" /\ Tried /\ E \o left = Candidates /\ ran \subseteq ToSet(E) \cup {"none"}
    <3>1. chosen = "none" /\ Tried
      BY <1>10 DEF Load, ConfigInv
    <3>2. E \o <<>> = E
      OBVIOUS
    <3> QED BY <2>2, <3>1, <3>2 DEF Tried
  <2>4. f # "none"
    BY DEF File
  <2>5. left' = Tail(left) /\ ran' \subseteq ran \cup {f}
        /\ IF file[f] = "works" THEN chosen' = f /\ errors' = errors ELSE errors' = Append(E, f) /\ chosen' = chosen
    BY <1>10, <2>1, <2>2, Zenon DEF Load, WithError
  <2>6. Tried'
    <3>1. CASE file[f] = "works"
      <4>1. chosen' = f /\ errors' = errors /\ left' = Tail(left) /\ file' = file
        BY <1>2, <2>5, <3>1
      <4>2. errors' \o <<chosen'>> \o left' = Candidates'
        BY <1>3, <2>1, <2>2, <2>3, <4>1, Zenon
      <4>4. "none" \notin ran
        BY <1>1 DEF ConfigTypeOK, File
      <4>3. ran' \subseteq ToSet(errors') \cup {chosen'}
        BY <1>10, <2>2, <2>3, <2>5, <4>1, <4>4, SMTT(40) DEF Load
      <4> QED BY <2>4, <3>1, <4>1, <4>2, <4>3 DEF Tried
    <3>2. CASE file[f] # "works"
      <4>1. Append(E, f) \o <<>> = Append(E, f)
        BY <2>2
      <4> QED BY <1>2, <1>3, <2>1, <2>2, <2>3, <2>4, <2>5, <3>2, <4>1, Zenon DEF Tried
    <3> QED BY <3>1, <3>2
  <2>7. ScreensAsked' <=> ScreensAsked
    BY <1>5, <1>10 DEF Load
  <2>8. ConfigTypeOK'
    <3>1. chosen' \in File \cup {"none"} /\ errors' \in Seq(File) /\ left' \in Seq(File) /\ ran' \subseteq File
      BY <1>1, <2>1, <2>2, <2>5, Zenon DEF ConfigTypeOK
    <3>2. haveScreen' \in BOOLEAN /\ loop' \in {"nil", "new", "quit"} /\ UNCHANGED <<step, noAuto, cmd>>
      BY <1>1, <1>10 DEF Load, ConfigTypeOK
    <3> QED BY <1>1, <3>1, <3>2, SMTT(40) DEF ConfigTypeOK
  <2>9. step' = step /\ step \in {"early", "late"} /\ noAuto' = noAuto /\ (haveScreen => haveScreen')
    BY <1>10 DEF Load
  <2> QED BY <1>2, <1>3, <2>6, <2>7, <2>8, <2>9 DEF ConfigInv
<1>11. CASE Loaded
  <2>1. (Tried' <=> Tried) /\ (Untried' <=> Untried) /\ (ScreensAsked' <=> ScreensAsked)
    BY <1>4, <1>5, <1>11 DEF Loaded
  <2>2. ConfigTypeOK'
    BY <1>1, <1>2, <1>11 DEF Loaded, ConfigTypeOK
  <2> QED BY <1>2, <1>3, <1>11, <2>1, <2>2 DEF Loaded, ConfigInv
<1>12. CASE NoFile
  <2>1. ConfigTypeOK'
    BY <1>1, <1>2, <1>12 DEF NoFile, Fatal, ConfigTypeOK
  <2> QED BY <1>2, <1>3, <1>12, <2>1 DEF NoFile, Fatal, ConfigInv
<1>13. ASSUME NEW makes \in BOOLEAN, ScreenFound(makes) PROVE ConfigInv'
  <2>1. (Tried' <=> Tried) /\ (Untried' <=> Untried) /\ (ScreensAsked' <=> ScreensAsked)
    BY <1>4, <1>5, <1>13 DEF ScreenFound
  <2>2. ConfigTypeOK'
    BY <1>1, <1>2, <1>13 DEF ScreenFound, ConfigTypeOK
  <2> QED BY <1>1, <1>2, <1>3, <1>13, <2>1, <2>2 DEF ScreenFound, ConfigInv, ConfigTypeOK
<1>14. CASE RunLoop \/ QuitLoop \/ UNCHANGED configVars
  <2>1. (Tried' <=> Tried) /\ (Untried' <=> Untried) /\ (ScreensAsked' <=> ScreensAsked)
    BY <1>4, <1>5, <1>14 DEF RunLoop, QuitLoop
  <2>2. ConfigTypeOK'
    BY <1>1, <1>2, <1>14 DEF RunLoop, QuitLoop, ConfigTypeOK
  <2> QED BY <1>2, <1>3, <1>14, <2>1, <2>2 DEF RunLoop, QuitLoop, ConfigInv
<1> QED BY <1>6, <1>7, <1>8, <1>9, <1>10, <1>11, <1>12, <1>13, <1>14 DEF ConfigNext

LEMMA ConfigInvEnough == ConfigInv => Configured
<1> SUFFICES ASSUME ConfigInv PROVE Configured
  OBVIOUS
<1>1. LoopHasConfig
  <2> SUFFICES ASSUME step = "loop"
               PROVE  /\ chosen # "none" /\ file[chosen] = "works" /\ haveScreen
                      /\ \E i \in DOMAIN Candidates : Candidates[i] = chosen /\ errors = SubSeq(Candidates, 1, i - 1)
                      /\ \A f \in ToSet(Candidates) \ (ToSet(errors) \cup {chosen}) : f \notin ran
    BY DEF LoopHasConfig
  <2>1. Tried /\ chosen # "none" /\ haveScreen
    BY DEF ConfigInv
  <2>2. errors \in Seq(File) /\ left \in Seq(File) /\ chosen \in File /\ errors \o <<chosen>> \o left = Candidates
    BY <2>1 DEF ConfigInv, ConfigTypeOK, Tried
  <2>3. \E i \in DOMAIN Candidates : Candidates[i] = chosen /\ errors = SubSeq(Candidates, 1, i - 1)
    <3> DEFINE c == errors \o <<chosen>> \o left
               i == Len(errors) + 1
    <3>1. i \in DOMAIN c /\ c[i] = chosen /\ errors = SubSeq(c, 1, i - 1)
      BY <2>2
    <3> QED BY <2>2, <3>1
  <2> QED BY <2>1, <2>3 DEF Tried
<1>2. ModelineRead /\ ScreenOption
  BY DEF ConfigInv, ModelineRead, ScreenOption, ScreensAsked, Wanted
<1> QED BY <1>1, <1>2 DEF Configured, ConfigInv

\* Configured, for any lines before and after a modeline of any number of keys
\* and for a buffer of any size: a modeline gives the words of its first
\* READ_BUF_MAX - 2 characters, all its words when it fits, and no other line
\* gives any; the loop starts with the first file that works and a screen, and
\* the --screen that the buffer shows of the modeline counts.
THEOREM ConfigurationSafe == ConfigSpec => []Configured
<1>1. ConfigSpec => []ConfigInv
  BY ConfigInitRight, ConfigStep, PTL DEF ConfigSpec
<1> QED BY <1>1, ConfigInvEnough, PTL
=============================================================================
