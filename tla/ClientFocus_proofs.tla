------------------------ MODULE ClientFocus_proofs ------------------------
(* Theorems about ClientFocus, for any windows, tags and bounds. *)
EXTENDS ClientFocus, EventQueues, TLAPS

USE DEF clientVars, tagVars, focusVars, loopVars, mapVars, xVars

-----------------------------------------------------------------------------
(* Lemmas about the event queue *)

\* Handling the first event, and appending a new one, leave a queue of events.
LEMMA QueueType ==
    ASSUME xevents \in Seq(Event)
    PROVE  /\ xevents # <<>> => Tail(xevents) \in Seq(Event)
           /\ xevents # <<>> => Head(xevents) \in Event
           /\ \A c \in Windows : \A ty \in {"FocusIn", "Unmap", "MapRequest"} :
                 Append(xevents, [type |-> ty, win |-> c]) \in Seq(Event)
<1>1. xevents # <<>> => Tail(xevents) \in Seq(Event) /\ Head(xevents) \in Event
  OBVIOUS
<1>2. \A c \in Windows : \A ty \in {"FocusIn", "Unmap", "MapRequest"} :
         [type |-> ty, win |-> c] \in Event
  BY DEF Event
<1> QED BY <1>1, <1>2

LEMMA SetInputFocusType ==
    ASSUME NEW w \in FocusTargets, NEW q \in Seq(Event), TypeOK,
           SetInputFocus(w, q)
    PROVE  xfocus' \in FocusTargets /\ xevents' \in Seq(Event)
<1>1. xfocus' \in FocusTargets
  BY DEF SetInputFocus, TypeOK
<1>2. ASSUME w \in Windows PROVE Append(q, [type |-> "FocusIn", win |-> w]) \in Seq(Event)
  <2>1. [type |-> "FocusIn", win |-> w] \in Event
    BY <1>2 DEF Event
  <2> QED BY <2>1
<1> QED BY <1>1, <1>2 DEF SetInputFocus

-----------------------------------------------------------------------------
(* Type correctness *)

THEOREM InitTypeOK == Init => TypeOK
<1> SUFFICES ASSUME Init PROVE TypeOK
  OBVIOUS
<1>1. xevents \in Seq(Event)
  BY DEF Init
<1>2. xfocus \in FocusTargets
  BY DEF Init, FocusTargets
<1>3. tagged \in [Tags -> SUBSET Windows]
  BY DEF Init
<1> QED BY <1>1, <1>2, <1>3 DEF Init, TypeOK

LEMMA FocusRefreshType ==
    ASSUME TypeOK, NEW q \in Seq(Event), FocusRefresh(q), managed' = managed
    PROVE  /\ isbanned' \subseteq managed' /\ minimized' \subseteq managed'
           /\ hidden' \subseteq managed' /\ frameMapped' \subseteq managed'
           /\ winMapped' \subseteq managed' /\ needBan' \in BOOLEAN
           /\ xfocus' \in FocusTargets /\ xevents' \in Seq(Event) /\ late' \in BOOLEAN
<1>1. Resurrected \subseteq managed
  BY DEF Resurrected, TypeOK
<1>2. FocusWindow \in FocusTargets
  BY DEF FocusWindow, FocusTargets, TypeOK
<1>3. xfocus' \in FocusTargets /\ xevents' \in Seq(Event)
  BY <1>2, SetInputFocusType DEF FocusRefresh, TypeOK
<1> QED BY <1>1, <1>3 DEF FocusRefresh, UnbannedWindows, TypeOK

LEMMA BanningType ==
    ASSUME TypeOK, BanningNeedUpdate
    PROVE  focus' \in Windows \cup {NoClient} /\ needUpdate' \in BOOLEAN /\ needBan' \in BOOLEAN
BY DEF TypeOK, BanningNeedUpdate, Unfocus

LEMMA RevertType ==
    ASSUME TypeOK, RevertFocus PROVE xfocus' \in FocusTargets
BY DEF TypeOK, RevertFocus, FocusTargets

LEMMA UnmanageType ==
    ASSUME TypeOK, NEW c \in Windows, Unmanage(c), xevents' \in Seq(Event),
           phase' \in {"dispatch", "lua", "banning"}, woken' \in BOOLEAN
    PROVE  TypeOK'
<1>1. tagged' \in [Tags -> SUBSET Windows]
  BY DEF Unmanage, UntagEverywhere, TypeOK
<1>2. focus' \in Windows \cup {NoClient} /\ needUpdate' \in BOOLEAN /\ needBan' \in BOOLEAN
  BY DEF Unmanage, Unfocus, TypeOK
<1>3. xfocus' \in FocusTargets
  BY RevertType DEF Unmanage
<1> QED BY <1>1, <1>2, <1>3 DEF Unmanage, TypeOK

LEMMA EventType ==
    ASSUME TypeOK, HandleEvent
    PROVE  TypeOK'
<1>1. CASE HandleMapRequest
  <2> DEFINE c == Head(xevents).win
  <2>1. xevents # <<>> /\ c \in Windows /\ xevents' \in Seq(Event)
    BY <1>1, QueueType DEF HandleMapRequest, HeadIs, Deliver, TypeOK, Event
  <2>2. phase' \in {"dispatch", "lua", "banning"} /\ woken' \in BOOLEAN
    BY <1>1 DEF HandleMapRequest, Wake, TypeOK
  <2>3. CASE Manage(c)
    BY <2>1, <2>2, <2>3, BanningType DEF Manage, ManagedObject, TypeOK
  <2>4. CASE UNCHANGED <<managed, clientVars, tagVars, focusVars, needBan, mapVars, xfocus, late>>
    BY <2>1, <2>2, <2>4 DEF TypeOK
  <2>5. CASE /\ c \in managed
             /\ minimized' = minimized \ {c}
             /\ winMapped' = winMapped \cup {c}
             /\ UNCHANGED <<managed, hidden, sticky, isbanned, nofocus, tagVars, frameMapped>>
             /\ BanningNeedUpdate
             /\ UNCHANGED <<xfocus, late>>
    BY <2>1, <2>2, <2>5, BanningType DEF TypeOK
  <2> QED BY <1>1, <2>3, <2>4, <2>5 DEF HandleMapRequest
<1>2. CASE HandleUnmapNotify
  <2> DEFINE c == Head(xevents).win
  <2>1. xevents # <<>> /\ c \in Windows /\ xevents' \in Seq(Event)
    BY <1>2, QueueType DEF HandleUnmapNotify, HeadIs, Deliver, TypeOK, Event
  <2>2. phase' \in {"dispatch", "lua", "banning"} /\ woken' \in BOOLEAN
    BY <1>2 DEF HandleUnmapNotify, Wake, TypeOK
  <2>3. CASE Unmanage(c)
    BY <2>1, <2>2, <2>3, UnmanageType
  <2>4. CASE UNCHANGED <<managed, clientVars, tagVars, focusVars, needBan, mapVars, xfocus, late>>
    BY <2>1, <2>2, <2>4 DEF TypeOK
  <2> QED BY <1>2, <2>3, <2>4 DEF HandleUnmapNotify
<1>3. CASE HandleFocusIn
  <2> DEFINE c == Head(xevents).win
  <2>1. xevents # <<>> /\ c \in Windows /\ Tail(xevents) \in Seq(Event)
    BY <1>3, QueueType DEF HandleFocusIn, HeadIs, TypeOK, Event
  <2>2. phase' \in {"dispatch", "lua", "banning"} /\ woken' \in BOOLEAN
    BY <1>3 DEF HandleFocusIn, Wake, TypeOK
  <2>3. CASE c \in managed
    <3>1. FocusRefresh(Tail(xevents)) /\ focus' = c /\ needUpdate' = FALSE
          /\ UNCHANGED <<managed, sticky, nofocus, tagVars>>
      BY <1>3, <2>3 DEF HandleFocusIn, FocusUpdate
    <3> QED BY <2>1, <2>2, <3>1, FocusRefreshType DEF TypeOK
  <2>4. CASE c \notin managed
    BY <1>3, <2>1, <2>2, <2>4 DEF HandleFocusIn, Deliver, TypeOK
  <2> QED BY <2>3, <2>4
<1> QED BY <1>1, <1>2, <1>3 DEF HandleEvent

LEMMA LuaType ==
    ASSUME TypeOK, LuaCall
    PROVE  TypeOK'
<1>1. ASSUME NEW c \in Windows, Focus(c) PROVE TypeOK'
  BY <1>1 DEF Focus, FocusUpdate, TagFrame, LuaFrame, Wake, TypeOK
<1>2. ASSUME NEW c \in Windows, LuaUnmanage(c) PROVE TypeOK'
  BY <1>2, UnmanageType DEF LuaUnmanage, Wake, TypeOK
<1>3. CASE FocusNil
  BY <1>3 DEF FocusNil, Unfocus, TagFrame, LuaFrame, Wake, TypeOK
<1>4. ASSUME NEW c \in Windows, NEW s \in BOOLEAN, SetMinimized(c, s) PROVE TypeOK'
  <2>1. xfocus' \in FocusTargets
    BY <1>4, RevertType DEF SetMinimized
  <2> QED BY <1>4, <2>1, BanningType DEF SetMinimized, MapForState, LuaFrame, Wake, TypeOK
<1>5. ASSUME NEW c \in Windows, NEW s \in BOOLEAN, SetHidden(c, s) PROVE TypeOK'
  BY <1>5, BanningType DEF SetHidden, LuaFrame, Wake, TypeOK
<1>6. ASSUME NEW c \in Windows, NEW s \in BOOLEAN, SetSticky(c, s) PROVE TypeOK'
  BY <1>6, BanningType DEF SetSticky, LuaFrame, Wake, TypeOK
<1>7. ASSUME NEW c \in Windows, NEW T \in SUBSET Tags, ClientTags(c, T) PROVE TypeOK'
  <2>1. tagged' \in [Tags -> SUBSET Windows]
    BY <1>7 DEF ClientTags, TypeOK
  <2>2. focus' \in Windows \cup {NoClient} /\ needUpdate' \in BOOLEAN /\ needBan' \in BOOLEAN
    BY <1>7, BanningType DEF ClientTags, Unfocus
  <2> QED BY <1>7, <2>1, <2>2 DEF ClientTags, TagFrame, LuaFrame, Wake, TypeOK
<1>8. ASSUME NEW t \in Tags, Activate(t) PROVE TypeOK'
  BY <1>8 DEF Activate, TagFrame, LuaFrame, Wake, TypeOK
<1>9. ASSUME NEW t \in Tags, Deactivate(t) PROVE TypeOK'
  BY <1>9, BanningType DEF Deactivate, Deselect, DeselectBanning, TagFrame, LuaFrame, Wake, TypeOK
<1>10. ASSUME NEW t \in Tags, NEW view \in BOOLEAN, TagView(t, view) PROVE TypeOK'
  BY <1>10, BanningType DEF TagView, TagFrame, LuaFrame, Wake, TypeOK
<1>11. ASSUME NEW t \in Tags, NEW C \in SUBSET Windows, TagClients(t, C) PROVE TypeOK'
  <2>1. tagged' \in [Tags -> SUBSET Windows]
    BY <1>11 DEF TagClients, TypeOK
  <2> QED BY <1>11, <2>1, BanningType DEF TagClients, TagFrame, LuaFrame, Wake, TypeOK
<1> QED
  BY <1>1, <1>2, <1>3, <1>4, <1>5, <1>6, <1>7, <1>8, <1>9, <1>10, <1>11 DEF LuaCall

LEMMA LoopType ==
    ASSUME TypeOK, MainLoop
    PROVE  TypeOK'
<1>1. CASE StartRefresh
  BY <1>1 DEF StartRefresh, LoopFrame, TypeOK
<1>2. CASE ClientRefresh
  BY <1>2, FocusRefreshType DEF ClientRefresh, EchoWakes, LoopFrame, TypeOK
<1>3. CASE BanningRefresh
  <2>1. xfocus' \in FocusTargets
    BY <1>3, RevertType DEF BanningRefresh, TypeOK
  <2>2. isbanned' \subseteq managed /\ frameMapped' \subseteq managed
    BY <1>3 DEF BanningRefresh, Visible, VisibleUnder, TypeOK
  <2>3. focus' \in Windows \cup {NoClient} /\ needUpdate' \in BOOLEAN
    BY <1>3 DEF BanningRefresh, TypeOK
  <2> QED BY <1>3, <2>1, <2>2, <2>3 DEF BanningRefresh, EchoWakes, LoopFrame, TypeOK
<1> QED BY <1>1, <1>2, <1>3 DEF MainLoop

LEMMA XClientType ==
    ASSUME TypeOK, XClient
    PROVE  TypeOK'
<1>1. ASSUME NEW c \in Windows, NEW ty \in {"FocusIn", "Unmap", "MapRequest"}, Emit(ty, c)
      PROVE  xevents' \in Seq(Event)
  BY <1>1, QueueType DEF Emit, TypeOK
<1>2. ASSUME NEW c \in Windows, XMapRequest(c) PROVE TypeOK'
  BY <1>1, <1>2 DEF XMapRequest, XFrame, TypeOK
<1>3. ASSUME NEW c \in Windows, XWithdraw(c) PROVE TypeOK'
  BY <1>1, <1>3, RevertType DEF XWithdraw, XFrame, TypeOK
<1>4. ASSUME NEW c \in Windows, XTakeFocus(c) PROVE TypeOK'
  <2>1. c \in FocusTargets
    BY DEF FocusTargets
  <2> QED BY <1>1, <1>4, <2>1 DEF XTakeFocus, XFrame, TypeOK
<1> QED BY <1>2, <1>3, <1>4 DEF XClient

LEMMA NextType ==
    ASSUME TypeOK, [Next]_vars PROVE TypeOK'
<1>1. CASE EnterRoot
  BY <1>1 DEF EnterRoot, Wake, TypeOK
<1>2. CASE UNCHANGED vars
  BY <1>2 DEF vars, TypeOK
<1> QED BY <1>1, <1>2, EventType, LuaType, LoopType, XClientType DEF Next

\* In every reachable state each variable has its type; in particular the
\* fields recorded for a client are those of a managed one.
THEOREM TypeCorrect == Spec => []TypeOK
<1>1. TypeOK /\ [Next]_vars => TypeOK'
  BY NextType
<1> QED BY InitTypeOK, <1>1, PTL DEF Spec

-----------------------------------------------------------------------------
(* Stale references and the banning of clients *)

\* The inductive invariant: the properties, and the discipline of the tags.
IInv == TypeOK /\ NoStaleReferences /\ TagDiscipline /\ BannedIffInvisible

LEMMA InitIInv == Init => IInv
BY InitTypeOK DEF Init, IInv, NoStaleReferences, TagDiscipline, BannedIffInvisible,
                  Visible, VisibleUnder

\* Every visibility change goes through banning_need_update, after which the
\* focus record is a managed client or none.
LEMMA BanningStep ==
    ASSUME IInv, BanningNeedUpdate, focus \in managed' \cup {NoClient}
    PROVE  focus' \in managed' \cup {NoClient} /\ BannedIffInvisible'
BY DEF BanningNeedUpdate, Unfocus, BannedIffInvisible

\* A step that asks for no banning must leave the visible and banned clients.
LEMMA QuietStep ==
    ASSUME IInv,
           UNCHANGED <<managed, hidden, minimized, sticky, isbanned, needBan>>,
           UNCHANGED <<tags, selected, tagged>>
    PROVE  BannedIffInvisible'
BY DEF IInv, BannedIffInvisible, Visible, VisibleUnder, OnSelectedTags

LEMMA UnmanageIInv ==
    ASSUME IInv, NEW c \in Windows, Unmanage(c), TypeOK'
    PROVE  IInv'
<1>1. \A t \in tags' : tagged'[t] \subseteq managed'
  BY DEF Unmanage, UntagEverywhere, IInv, NoStaleReferences, TypeOK
<1>2. focus' \in managed' \cup {NoClient}
  BY DEF Unmanage, Unfocus, IInv, NoStaleReferences
<1>3. TagDiscipline'
  BY DEF Unmanage, UntagEverywhere, IInv, TagDiscipline, TypeOK
<1>4. BannedIffInvisible'
  <2>1. SUFFICES ASSUME ~needBan' PROVE isbanned' = managed' \ Visible'
    BY DEF BannedIffInvisible
  <2>2. ~needBan /\ \A t \in tags : c \notin tagged[t]
    BY <2>1 DEF Unmanage
  <2>3. Visible' = Visible \ {c}
    BY <2>2 DEF Unmanage, UntagEverywhere, Visible, VisibleUnder, OnSelectedTags, IInv, TypeOK
  <2>4. isbanned = managed \ Visible
    BY <2>2 DEF IInv, BannedIffInvisible
  <2> QED BY <2>3, <2>4 DEF Unmanage
<1> QED BY <1>1, <1>2, <1>3, <1>4 DEF IInv, NoStaleReferences

\* client_focus_refresh unbans at most the focused client, and leaves
\* need_lazy_banning set if that changed whether it is visible.
LEMMA FocusRefreshIInv ==
    ASSUME IInv, NEW q, FocusRefresh(q), UNCHANGED <<managed, sticky, tagVars>>
    PROVE  BannedIffInvisible'
<1>1. SUFFICES ASSUME ~needBan' PROVE isbanned' = managed' \ Visible'
  BY DEF BannedIffInvisible
<1>2. ~needBan /\ Resurrected \cap (minimized \cup hidden) = {}
  BY <1>1 DEF FocusRefresh
<1>3. isbanned = managed \ Visible
  BY <1>2 DEF IInv, BannedIffInvisible
<1>4. Resurrected = {}
  <2>1. SUFFICES ASSUME Resurrected # {} PROVE FALSE
    OBVIOUS
  <2>2. focus \in isbanned /\ OnSelectedTags(focus, tagged) /\ Resurrected = {focus}
    BY <2>1 DEF Resurrected
  <2>3. focus \in managed /\ focus \notin minimized /\ focus \notin hidden
    BY <1>2, <2>2 DEF IInv, TypeOK
  <2>4. focus \in Visible
    BY <2>2, <2>3 DEF Visible, VisibleUnder
  <2> QED BY <1>3, <2>2, <2>4
<1>5. Visible' = Visible /\ isbanned' = isbanned
  BY <1>4 DEF FocusRefresh, Visible, VisibleUnder, OnSelectedTags
<1> QED BY <1>3, <1>5

LEMMA ManageIInv ==
    ASSUME IInv, NEW c \in Windows, Manage(c), TypeOK'
    PROVE  IInv'
<1>1. focus \in managed' \cup {NoClient} /\ \A t \in tags : tagged[t] \subseteq managed'
  BY DEF Manage, ManagedObject, IInv, NoStaleReferences
<1>2. PICK stk \in BOOLEAN, icon \in BOOLEAN, nf \in BOOLEAN :
         /\ ManagedObject(c, stk, icon, nf)
         /\ UNCHANGED <<hidden, frameMapped, tagVars>>
         /\ IF stk \/ icon THEN BanningNeedUpdate ELSE UNCHANGED <<focusVars, needBan>>
  BY DEF Manage
<1>3. TagDiscipline'
  BY <1>2 DEF IInv, TagDiscipline
<1>4. CASE stk \/ icon
  BY <1>1, <1>2, <1>3, <1>4, BanningStep DEF IInv, NoStaleReferences
<1>5. CASE ~(stk \/ icon)
  <2>1. /\ managed' = managed \cup {c}
        /\ isbanned' = isbanned \cup {c} /\ sticky' = sticky /\ minimized' = minimized
        /\ hidden' = hidden /\ needBan' = needBan /\ focus' = focus
        /\ tags' = tags /\ selected' = selected /\ tagged' = tagged
    BY <1>2, <1>5 DEF ManagedObject
  <2>2. c \notin managed /\ c \notin sticky /\ \A t \in tags : c \notin tagged[t]
    BY DEF Manage, IInv, TypeOK, NoStaleReferences
  <2>3. Visible' = Visible
    BY <1>2, <2>1, <2>2 DEF Visible, VisibleUnder, OnSelectedTags
  <2>4. BannedIffInvisible'
    BY <1>2, <2>1, <2>2, <2>3 DEF IInv, BannedIffInvisible, Visible, VisibleUnder
  <2> QED BY <1>1, <1>3, <2>1, <2>4 DEF IInv, NoStaleReferences
<1> QED BY <1>4, <1>5

LEMMA EventIInv ==
    ASSUME IInv, HandleEvent
    PROVE  IInv'
<1> TypeOK'
  BY EventType DEF IInv
<1>1. CASE HandleMapRequest
  <2> DEFINE c == Head(xevents).win
  <2>1. c \in Windows
    BY <1>1, QueueType DEF HandleMapRequest, HeadIs, IInv, TypeOK, Event
  <2>2. CASE Manage(c)
    BY <2>1, <2>2, ManageIInv
  <2>3. CASE UNCHANGED <<managed, clientVars, tagVars, focusVars, needBan, mapVars, xfocus, late>>
    BY <2>3, QuietStep DEF IInv, NoStaleReferences, TagDiscipline
  <2>4. CASE /\ c \in managed
             /\ UNCHANGED <<managed, hidden, sticky, isbanned, nofocus, tagVars, frameMapped>>
             /\ BanningNeedUpdate
    BY <2>4, BanningStep DEF IInv, NoStaleReferences, TagDiscipline
  <2> QED BY <1>1, <2>2, <2>3, <2>4 DEF HandleMapRequest
<1>2. CASE HandleUnmapNotify
  <2> DEFINE c == Head(xevents).win
  <2>1. c \in Windows
    BY <1>2, QueueType DEF HandleUnmapNotify, HeadIs, IInv, TypeOK, Event
  <2>2. CASE Unmanage(c)
    BY <2>1, <2>2, UnmanageIInv
  <2>3. CASE UNCHANGED <<managed, clientVars, tagVars, focusVars, needBan, mapVars, xfocus, late>>
    BY <2>3, QuietStep DEF IInv, NoStaleReferences, TagDiscipline
  <2> QED BY <1>2, <2>2, <2>3 DEF HandleUnmapNotify
<1>3. CASE HandleFocusIn
  <2> DEFINE c == Head(xevents).win
  <2>1. CASE c \in managed
    <3>1. FocusRefresh(Tail(xevents)) /\ focus' = c
          /\ UNCHANGED <<managed, sticky, nofocus, tagVars>>
      BY <1>3, <2>1 DEF HandleFocusIn, FocusUpdate
    <3>2. BannedIffInvisible'
      BY <3>1, FocusRefreshIInv
    <3> QED BY <2>1, <3>1, <3>2 DEF IInv, NoStaleReferences, TagDiscipline
  <2>2. CASE c \notin managed
    <3>1. UNCHANGED <<managed, clientVars, tagVars, focusVars, needBan>>
      BY <1>3, <2>2 DEF HandleFocusIn
    <3> QED BY <3>1, QuietStep DEF IInv, NoStaleReferences, TagDiscipline
  <2> QED BY <2>1, <2>2
<1> QED BY <1>1, <1>2, <1>3 DEF HandleEvent

LEMMA LuaIInv ==
    ASSUME IInv, LuaCall
    PROVE  IInv'
<1> TypeOK'
  BY LuaType DEF IInv
<1>1. ASSUME NEW c \in Windows, Focus(c) PROVE IInv'
  <2>1. focus' \in managed' /\ UNCHANGED <<managed, clientVars, tagVars, needBan>>
    BY <1>1 DEF Focus, FocusUpdate, TagFrame, LuaFrame
  <2> QED BY <2>1, QuietStep DEF IInv, NoStaleReferences, TagDiscipline
<1>2. ASSUME NEW c \in Windows, LuaUnmanage(c) PROVE IInv'
  BY <1>2, UnmanageIInv DEF LuaUnmanage
<1>3. CASE FocusNil
  <2>1. focus' = NoClient /\ UNCHANGED <<managed, clientVars, tagVars, needBan>>
    BY <1>3 DEF FocusNil, Unfocus, TagFrame, LuaFrame
  <2> QED BY <2>1, QuietStep DEF IInv, NoStaleReferences, TagDiscipline
<1>4. ASSUME BanningNeedUpdate, UNCHANGED <<managed, tagVars>> PROVE IInv'
  BY <1>4, BanningStep DEF IInv, NoStaleReferences, TagDiscipline
<1>5. ASSUME NEW c \in Windows, NEW s \in BOOLEAN,
             SetMinimized(c, s) \/ SetHidden(c, s) \/ SetSticky(c, s)
      PROVE  IInv'
  BY <1>4, <1>5 DEF SetMinimized, SetHidden, SetSticky
<1>6. ASSUME NEW c \in Windows, NEW T \in SUBSET Tags, ClientTags(c, T) PROVE IInv'
  <2>1. UNCHANGED <<managed, tags, retired, selected>> /\ c \in managed /\ T \subseteq tags
    BY <1>6 DEF ClientTags, TagFrame, Usable
  <2>2. tagged' = [t \in Tags |-> IF t \in T THEN tagged[t] \cup {c}
                                  ELSE IF t \in tags THEN tagged[t] \ {c} ELSE tagged[t]]
    BY <1>6 DEF ClientTags, TypeOK, IInv
  <2>3. \A t \in tags' : tagged'[t] \subseteq managed'
    BY <2>1, <2>2 DEF IInv, NoStaleReferences, TypeOK
  <2>4. TagDiscipline'
    BY <2>1, <2>2 DEF IInv, TagDiscipline, TypeOK
  <2>5. CASE BanningNeedUpdate
    BY <2>1, <2>3, <2>4, <2>5, BanningStep DEF IInv, NoStaleReferences
  <2>6. CASE Unfocus /\ needBan' = TRUE
    BY <2>1, <2>3, <2>4, <2>6 DEF IInv, NoStaleReferences, Unfocus, BannedIffInvisible
  <2> QED BY <1>6, <2>5, <2>6 DEF ClientTags
<1>7. ASSUME NEW t \in Tags, Activate(t) PROVE IInv'
  <2>1. /\ UNCHANGED <<managed, clientVars, focusVars, needBan, retired, selected, tagged>>
        /\ t \notin tags /\ t \notin retired /\ tags' = tags \cup {t}
    BY <1>7 DEF Activate, TagFrame, LuaFrame
  <2>2. tagged[t] = {} /\ t \notin selected
    BY <2>1 DEF IInv, TagDiscipline
  <2>3. Visible' = Visible
    BY <2>1, <2>2 DEF Visible, VisibleUnder, OnSelectedTags
  <2> QED BY <2>1, <2>2, <2>3 DEF IInv, NoStaleReferences, TagDiscipline, BannedIffInvisible
<1>8. ASSUME NEW t \in Tags, Deactivate(t) PROVE IInv'
  <2>1. /\ UNCHANGED <<managed, clientVars, tagged>>
        /\ tags' = tags \ {t} /\ retired' = retired \cup {t} /\ selected' = selected \ {t}
    BY <1>8 DEF Deactivate, Deselect, DeselectBanning, TagFrame, LuaFrame
  <2>2. TagDiscipline' /\ (\A u \in tags' : tagged'[u] \subseteq managed')
    BY <2>1 DEF IInv, TagDiscipline, NoStaleReferences
  <2>3. CASE t \in selected
    BY <1>8, <2>1, <2>2, <2>3, BanningStep DEF Deactivate, DeselectBanning, IInv, NoStaleReferences
  <2>4. CASE t \notin selected
    <3>1. UNCHANGED <<focusVars, needBan>>
      BY <1>8, <2>4 DEF Deactivate, DeselectBanning
    <3>2. Visible' = Visible
      BY <2>1, <2>4 DEF Visible, VisibleUnder, OnSelectedTags
    <3> QED BY <2>1, <2>2, <3>1, <3>2 DEF IInv, NoStaleReferences, BannedIffInvisible
  <2> QED BY <2>3, <2>4
<1>9. ASSUME NEW t \in Tags, NEW view \in BOOLEAN, TagView(t, view) PROVE IInv'
  <2>1. /\ UNCHANGED <<managed, tags, retired, tagged>> /\ BanningNeedUpdate
        /\ t \in tags /\ selected' \subseteq selected \cup {t}
    BY <1>9 DEF TagView, TagFrame, Usable
  <2> QED BY <2>1, BanningStep DEF IInv, NoStaleReferences, TagDiscipline
<1>10. ASSUME NEW t \in Tags, NEW C \in SUBSET Windows, TagClients(t, C) PROVE IInv'
  <2>1. /\ UNCHANGED <<managed, tags, retired, selected>> /\ BanningNeedUpdate
        /\ t \in tags /\ C \subseteq managed /\ tagged' = [tagged EXCEPT ![t] = C]
    BY <1>10 DEF TagClients, TagFrame, Usable
  <2>2. (\A u \in tags' : tagged'[u] \subseteq managed') /\ TagDiscipline'
    BY <2>1 DEF IInv, NoStaleReferences, TagDiscipline, TypeOK
  <2> QED BY <2>1, <2>2, BanningStep DEF IInv, NoStaleReferences
<1> QED BY <1>1, <1>2, <1>3, <1>5, <1>6, <1>7, <1>8, <1>9, <1>10 DEF LuaCall

LEMMA LoopIInv ==
    ASSUME IInv, MainLoop
    PROVE  IInv'
<1> TypeOK'
  BY LoopType DEF IInv
<1>1. UNCHANGED <<managed, sticky, nofocus, tagVars>>
  BY DEF MainLoop, StartRefresh, ClientRefresh, BanningRefresh, LoopFrame
<1>2. TagDiscipline' /\ (\A t \in tags' : tagged'[t] \subseteq managed')
  BY <1>1 DEF IInv, TagDiscipline, NoStaleReferences
<1>3. CASE StartRefresh
  BY <1>1, <1>2, <1>3, QuietStep DEF StartRefresh, IInv, NoStaleReferences
<1>4. CASE ClientRefresh
  <2>1. FocusRefresh(xevents) /\ focus' \in {focus, NoClient}
    BY <1>4 DEF ClientRefresh
  <2> QED BY <1>1, <1>2, <2>1, FocusRefreshIInv DEF IInv, NoStaleReferences
<1>5. CASE BanningRefresh
  <2>1. focus' \in {focus, NoClient} /\ UNCHANGED <<hidden, minimized>>
    BY <1>5 DEF BanningRefresh
  <2>2. Visible' = Visible
    BY <1>1, <2>1 DEF Visible, VisibleUnder, OnSelectedTags
  <2>3. isbanned' = managed \ Visible
    BY <1>5 DEF BanningRefresh, IInv, BannedIffInvisible
  <2> QED BY <1>1, <1>2, <2>1, <2>2, <2>3 DEF IInv, NoStaleReferences, BannedIffInvisible
<1> QED BY <1>3, <1>4, <1>5 DEF MainLoop

LEMMA NextIInv ==
    ASSUME IInv, [Next]_vars
    PROVE  IInv'
<1> TypeOK'
  BY NextType DEF IInv
<1>1. CASE EnterRoot
  BY <1>1, QuietStep DEF EnterRoot, IInv, NoStaleReferences, TagDiscipline
<1>2. CASE XClient
  BY <1>2, QuietStep DEF XClient, XMapRequest, XWithdraw, XTakeFocus, XFrame,
                          IInv, NoStaleReferences, TagDiscipline
<1>3. CASE UNCHANGED vars
  BY <1>3, QuietStep DEF vars, IInv, NoStaleReferences, TagDiscipline
<1> QED BY <1>1, <1>2, <1>3, EventIInv, LuaIInv, LoopIInv DEF Next

THEOREM Invariance ==
    Spec => []IInv
<1>1. IInv /\ [Next]_vars => IInv'
  BY NextIInv
<1> QED BY InitIInv, <1>1, PTL DEF Spec

\* No order of closing, tagging and focusing leaves the focus record or an
\* activated tag with a client that is no longer managed.
THEOREM StaleReferencesNever ==
    Spec => []NoStaleReferences
<1>1. IInv => NoStaleReferences
  BY DEF IInv
<1> QED BY Invariance, <1>1, PTL

\* Whenever no banning is pending, exactly the invisible clients are banned.
THEOREM BanningExact ==
    Spec => []BannedIffInvisible
<1>1. IInv => BannedIffInvisible
  BY DEF IInv
<1> QED BY Invariance, <1>1, PTL

-----------------------------------------------------------------------------
(* What is mapped *)

\* the clients whose withdrawal is reported in the queue q
Withdrawn(q) == {c \in Windows : [type |-> "Unmap", win |-> c] \in Elements(q)}

\* MappedAsRecorded, with the queue as a set
Mapped(q) ==
    /\ frameMapped = managed \ isbanned
    /\ winMapped \cap minimized = {}
    /\ managed \ (winMapped \cup minimized) \subseteq Withdrawn(q)

MInv == TypeOK /\ Mapped(xevents)

\* Only handling the withdrawal of a client takes it from the queue.
LEMMA WithdrawnTail ==
    ASSUME NEW q \in Seq(Event), q # <<>>
    PROVE  /\ Withdrawn(q) \subseteq Withdrawn(Tail(q)) \cup {Head(q).win}
           /\ Head(q).type # "Unmap" => Withdrawn(q) \subseteq Withdrawn(Tail(q))
<1>1. Head(q) \in Event /\ Elements(q) = Elements(Tail(q)) \cup {Head(q)}
  BY TailElements
<1> QED BY <1>1 DEF Withdrawn, Event

LEMMA WithdrawnAppend ==
    ASSUME NEW q \in Seq(Event), NEW ty \in {"FocusIn", "Unmap", "MapRequest"}, NEW c \in Windows
    PROVE  /\ Withdrawn(q) \subseteq Withdrawn(Append(q, [type |-> ty, win |-> c]))
           /\ ty = "Unmap" => c \in Withdrawn(Append(q, [type |-> ty, win |-> c]))
<1> DEFINE e == [type |-> ty, win |-> c]
<1>1. e \in Event
  BY DEF Event
<1>2. Elements(Append(q, e)) = Elements(q) \cup {e}
  BY <1>1, AppendElements
<1> QED BY <1>2 DEF Withdrawn

\* client_focus_refresh maps the frame and the window of the client that it
\* unbans, and tells nobody that a window was withdrawn.
LEMMA FocusRefreshMapped ==
    ASSUME TypeOK, NEW q \in Seq(Event), Mapped(q), FocusRefresh(q), managed' = managed
    PROVE  Mapped(xevents)'
<1>1. Withdrawn(q) \subseteq Withdrawn(xevents')
  <2>1. CASE xevents' = q
    BY <2>1
  <2>2. CASE \E c \in Windows : xevents' = Append(q, [type |-> "FocusIn", win |-> c])
    BY <2>2, WithdrawnAppend
  <2> QED BY <2>1, <2>2 DEF FocusRefresh, SetInputFocus
<1>2. Resurrected \subseteq managed
  BY DEF Resurrected, TypeOK
<1>3. frameMapped' = managed' \ isbanned'
  BY <1>2 DEF FocusRefresh, Mapped
<1>4. winMapped' \cap minimized' = {}
  BY DEF FocusRefresh, UnbannedWindows, Mapped
<1>5. managed' \ (winMapped' \cup minimized') \subseteq managed \ (winMapped \cup minimized)
  BY DEF FocusRefresh, UnbannedWindows
<1> QED BY <1>1, <1>3, <1>4, <1>5 DEF Mapped, Withdrawn

LEMMA UnmanageMapped ==
    ASSUME NEW c \in Windows, Unmanage(c), NEW q, Mapped(q),
           Withdrawn(q) \subseteq Withdrawn(xevents') \cup {c}
    PROVE  Mapped(xevents)'
<1>1. frameMapped' = managed' \ isbanned' /\ winMapped' \cap minimized' = {}
  BY DEF Unmanage, Mapped
<1>2. managed' \ (winMapped' \cup minimized') \subseteq (managed \ (winMapped \cup minimized)) \ {c}
  BY DEF Unmanage
<1> QED BY <1>1, <1>2 DEF Mapped, Withdrawn

LEMMA EventMapped ==
    ASSUME MInv, HandleEvent
    PROVE  Mapped(xevents)'
<1> DEFINE c == Head(xevents).win
<1>1. xevents # <<>> /\ xevents \in Seq(Event)
  BY DEF HandleEvent, HandleMapRequest, HandleUnmapNotify, HandleFocusIn, HeadIs, MInv, TypeOK
<1>2. c \in Windows /\ Tail(xevents) \in Seq(Event)
  BY <1>1, QueueType DEF Event
<1>3. /\ Withdrawn(xevents) \subseteq Withdrawn(Tail(xevents)) \cup {c}
      /\ Head(xevents).type # "Unmap" => Withdrawn(xevents) \subseteq Withdrawn(Tail(xevents))
  BY <1>1, WithdrawnTail
<1> HIDE DEF c
<1>4. CASE HandleMapRequest
  <2>1. xevents' = Tail(xevents) /\ Withdrawn(xevents) \subseteq Withdrawn(xevents')
    BY <1>3, <1>4 DEF HandleMapRequest, HeadIs, Deliver
  <2>2. CASE Manage(c)
    <3>1. PICK stk \in BOOLEAN, icon \in BOOLEAN, nf \in BOOLEAN :
             /\ ManagedObject(c, stk, icon, nf)
             /\ winMapped' = IF icon THEN winMapped ELSE winMapped \cup {c}
             /\ frameMapped' = frameMapped
      BY <2>2 DEF Manage
    <3>2. c \notin managed /\ managed' = managed \cup {c} /\ isbanned' = isbanned \cup {c}
          /\ minimized' = IF icon THEN minimized \cup {c} ELSE minimized
      BY <2>2, <3>1 DEF Manage, ManagedObject
    <3>3. frameMapped' = managed' \ isbanned' /\ winMapped' \cap minimized' = {}
      BY <3>1, <3>2 DEF MInv, Mapped, TypeOK
    <3>4. managed' \ (winMapped' \cup minimized') \subseteq managed \ (winMapped \cup minimized)
      BY <3>1, <3>2
    <3> QED BY <2>1, <3>3, <3>4 DEF MInv, Mapped, Withdrawn
  <2>3. CASE UNCHANGED <<managed, clientVars, mapVars>>
    BY <2>1, <2>3 DEF MInv, Mapped, Withdrawn
  <2>4. CASE /\ minimized' = minimized \ {c}
             /\ winMapped' = winMapped \cup {c}
             /\ UNCHANGED <<managed, isbanned, frameMapped>>
    <3>1. managed' \ (winMapped' \cup minimized') \subseteq managed \ (winMapped \cup minimized)
      BY <2>4
    <3>2. frameMapped' = managed' \ isbanned' /\ winMapped' \cap minimized' = {}
      BY <2>4 DEF MInv, Mapped
    <3> QED BY <2>1, <3>1, <3>2 DEF MInv, Mapped, Withdrawn
  <2> QED BY <1>4, <2>2, <2>3, <2>4 DEF HandleMapRequest, c
<1>5. CASE HandleUnmapNotify
  <2>1. xevents' = Tail(xevents)
    BY <1>5 DEF HandleUnmapNotify, Deliver
  <2>2. CASE Unmanage(c)
    BY <1>2, <1>3, <2>1, <2>2, UnmanageMapped DEF MInv
  <2>3. CASE c \notin managed /\ UNCHANGED <<managed, clientVars, mapVars>>
    BY <1>3, <2>1, <2>3 DEF MInv, Mapped, Withdrawn
  <2> QED BY <1>5, <2>2, <2>3 DEF HandleUnmapNotify, c
<1>6. CASE HandleFocusIn
  <2>1. Withdrawn(xevents) \subseteq Withdrawn(Tail(xevents))
    BY <1>3, <1>6 DEF HandleFocusIn, HeadIs
  <2>2. Mapped(Tail(xevents))
    BY <2>1 DEF MInv, Mapped
  <2>3. CASE c \in managed
    <3>1. FocusRefresh(Tail(xevents)) /\ managed' = managed
      BY <1>6, <2>3 DEF HandleFocusIn, c
    <3> QED BY <1>2, <2>2, <3>1, FocusRefreshMapped DEF MInv
  <2>4. CASE c \notin managed
    <3>1. xevents' = Tail(xevents) /\ UNCHANGED <<managed, clientVars, mapVars>>
      BY <1>6, <2>4 DEF HandleFocusIn, Deliver, c
    <3> QED BY <2>2, <3>1 DEF Mapped, Withdrawn
  <2> QED BY <2>3, <2>4
<1> QED BY <1>4, <1>5, <1>6 DEF HandleEvent

\* Steps that leave alone what is mapped, minimized and banned.
LEMMA UnmappedStep ==
    ASSUME MInv, UNCHANGED <<managed, minimized, isbanned, mapVars, xevents>>
    PROVE  Mapped(xevents)'
BY DEF MInv, Mapped, Withdrawn

LEMMA LuaMapped ==
    ASSUME MInv, LuaCall
    PROVE  Mapped(xevents)'
<1>1. ASSUME NEW c \in Windows, LuaUnmanage(c) PROVE Mapped(xevents)'
  <2>1. xevents' = xevents /\ Unmanage(c)
    BY <1>1 DEF LuaUnmanage
  <2> QED BY <2>1, UnmanageMapped DEF MInv
<1>2. ASSUME NEW c \in Windows, NEW s \in BOOLEAN, SetMinimized(c, s) PROVE Mapped(xevents)'
  <2>1. /\ minimized' = IF s THEN minimized \cup {c} ELSE minimized \ {c}
        /\ winMapped' = IF s THEN winMapped \ {c} ELSE winMapped \cup {c}
        /\ UNCHANGED <<managed, isbanned, frameMapped, xevents>>
    BY <1>2 DEF SetMinimized, MapForState, LuaFrame
  <2>2. winMapped' \cap minimized' = {}
    BY <2>1 DEF MInv, Mapped
  <2>3. managed' \ (winMapped' \cup minimized') \subseteq managed \ (winMapped \cup minimized)
    BY <2>1
  <2> QED BY <2>1, <2>2, <2>3 DEF MInv, Mapped, Withdrawn
<1>3. ASSUME TagFrame PROVE Mapped(xevents)'
  BY <1>3, UnmappedStep DEF TagFrame, LuaFrame
<1>4. ASSUME NEW c \in Windows, NEW s \in BOOLEAN, SetHidden(c, s) \/ SetSticky(c, s)
      PROVE  Mapped(xevents)'
  BY <1>4, UnmappedStep DEF SetHidden, SetSticky, LuaFrame
<1>5. ASSUME NEW c \in Windows, Focus(c) PROVE Mapped(xevents)'
  BY <1>3, <1>5 DEF Focus
<1>6. CASE FocusNil
  BY <1>3, <1>6 DEF FocusNil
<1>7. ASSUME NEW c \in Windows, NEW T \in SUBSET Tags, ClientTags(c, T) PROVE Mapped(xevents)'
  BY <1>3, <1>7 DEF ClientTags
<1>8. ASSUME NEW t \in Tags, Activate(t) \/ Deactivate(t) PROVE Mapped(xevents)'
  BY <1>3, <1>8 DEF Activate, Deactivate
<1>9. ASSUME NEW t \in Tags, NEW view \in BOOLEAN, TagView(t, view) PROVE Mapped(xevents)'
  BY <1>3, <1>9 DEF TagView
<1>10. ASSUME NEW t \in Tags, NEW C \in SUBSET Windows, TagClients(t, C) PROVE Mapped(xevents)'
  BY <1>3, <1>10 DEF TagClients
<1> QED BY <1>1, <1>2, <1>4, <1>5, <1>6, <1>7, <1>8, <1>9, <1>10 DEF LuaCall

LEMMA LoopMapped ==
    ASSUME MInv, MainLoop
    PROVE  Mapped(xevents)'
<1>1. CASE StartRefresh
  BY <1>1, UnmappedStep DEF StartRefresh, LoopFrame
<1>2. CASE ClientRefresh
  <2>1. FocusRefresh(xevents) /\ managed' = managed /\ xevents \in Seq(Event)
    BY <1>2 DEF ClientRefresh, LoopFrame, MInv, TypeOK
  <2> QED BY <2>1, FocusRefreshMapped DEF MInv
<1>3. CASE BanningRefresh /\ ~needBan
  BY <1>3, UnmappedStep DEF BanningRefresh, LoopFrame
<1>4. CASE BanningRefresh /\ needBan
  <2>1. /\ isbanned' = managed \ Visible
        /\ frameMapped' = (frameMapped \cup (Visible \cap isbanned))
                             \ ((managed \ Visible) \ isbanned)
        /\ UNCHANGED <<managed, minimized, winMapped, xevents>>
    BY <1>4 DEF BanningRefresh, LoopFrame
  <2>2. Visible \subseteq managed
    BY DEF Visible, VisibleUnder
  <2>3. frameMapped' = managed' \ isbanned'
    BY <2>1, <2>2 DEF MInv, Mapped
  <2> QED BY <2>1, <2>3 DEF MInv, Mapped, Withdrawn
<1> QED BY <1>1, <1>2, <1>3, <1>4 DEF MainLoop

LEMMA XClientMapped ==
    ASSUME MInv, XClient
    PROVE  Mapped(xevents)'
<1>1. xevents \in Seq(Event)
  BY DEF MInv, TypeOK
<1>2. ASSUME NEW c \in Windows, XMapRequest(c) \/ XTakeFocus(c) PROVE Mapped(xevents)'
  <2>1. PICK ty \in {"FocusIn", "MapRequest"} : xevents' = Append(xevents, [type |-> ty, win |-> c])
    BY <1>2 DEF XMapRequest, XTakeFocus, Emit
  <2>2. Withdrawn(xevents) \subseteq Withdrawn(xevents')
    BY <1>1, <2>1, WithdrawnAppend
  <2>3. UNCHANGED <<managed, minimized, isbanned, mapVars>>
    BY <1>2 DEF XMapRequest, XTakeFocus, XFrame
  <2> QED BY <2>2, <2>3 DEF MInv, Mapped, Withdrawn
<1>3. ASSUME NEW c \in Windows, XWithdraw(c) PROVE Mapped(xevents)'
  <2>1. xevents' = Append(xevents, [type |-> "Unmap", win |-> c])
    BY <1>3 DEF XWithdraw, Emit
  <2>2. Withdrawn(xevents) \cup {c} \subseteq Withdrawn(xevents')
    BY <1>1, <2>1, WithdrawnAppend
  <2>3. winMapped' = winMapped \ {c} /\ UNCHANGED <<managed, minimized, isbanned, frameMapped>>
    BY <1>3 DEF XWithdraw, XFrame
  <2> QED BY <2>2, <2>3 DEF MInv, Mapped, Withdrawn
<1> QED BY <1>2, <1>3 DEF XClient

LEMMA NextMInv ==
    ASSUME MInv, [Next]_vars
    PROVE  MInv'
<1>1. TypeOK'
  BY NextType DEF MInv
<1>2. CASE EnterRoot
  BY <1>1, <1>2, UnmappedStep DEF EnterRoot, MInv
<1>3. CASE UNCHANGED vars
  BY <1>1, <1>3, UnmappedStep DEF vars, MInv
<1>4. CASE HandleEvent \/ LuaCall \/ MainLoop \/ XClient
  BY <1>1, <1>4, EventMapped, LuaMapped, LoopMapped, XClientMapped DEF MInv
<1> QED BY <1>2, <1>3, <1>4 DEF Next

\* Frames and windows are mapped exactly as the clients' records say, except for
\* windows whose withdrawal is on its way; only activated tags are selected.
THEOREM MappingExact ==
    Spec => []MappedAndTagged
<1>1. Init => MInv
  BY InitTypeOK DEF Init, MInv, Mapped, Withdrawn
<1>2. MInv /\ [Next]_vars => MInv'
  BY NextMInv
<1>3. MInv /\ IInv => MappedAndTagged
  BY DEF MInv, IInv, Mapped, Withdrawn, Elements, Pending, MappedAsRecorded, MappedAndTagged
<1> QED BY <1>1, <1>2, <1>3, Invariance, PTL DEF Spec

-----------------------------------------------------------------------------
(* The focus record and the X server's focus *)

\* no change of the focus is reported in the queue q
Silent(q) == \A i \in DOMAIN q : q[i].type # "FocusIn"

\* the last change of the focus that is reported in q
Last(q, i) == q[i].type = "FocusIn" /\ \A j \in DOMAIN q : j > i => q[j].type # "FocusIn"

\* that one, if there is any, is to the window x
Names(q, x) == \A i \in DOMAIN q : Last(q, i) => q[i].win = x

\* Without client.hidden, clients that take no input, and time stamps of the
\* future, the focus is on a client window or on none.
Plain == hidden = {} /\ nofocus = {} /\ late = FALSE /\ xfocus \in Windows \cup {NoClient}

\* The X server refused the focus to the recorded client: it was withdrawn, or
\* it is iconic and about to be banned, which will take the focus from it.
Refused ==
    \/ focus \in managed \cap Withdrawn(xevents)
    \/ phase = "banning" /\ needBan /\ focus \in (managed \ Visible) \ isbanned

\* The inductive invariant: when nothing is pending and X has told of all changes
\* of the focus, the record is right or is about to be changed.
Told == xfocus \in Windows /\ ~needUpdate /\ Silent(xevents) => focus = xfocus \/ Refused
FInv ==
    /\ Plain
    /\ xfocus \in Viewable
    /\ needUpdate => woken \/ phase = "lua"
    /\ xfocus \in Windows => Names(xevents, xfocus)
    /\ Told

LEMMA NotFocusTail ==
    ASSUME NEW q \in Seq(Event), q # <<>>, Head(q).type # "FocusIn", NEW x
    PROVE  (Silent(Tail(q)) => Silent(q)) /\ (Names(q, x) => Names(Tail(q), x))
<1> DEFINE t == Tail(q)
<1>1. /\ Len(q) \in Nat /\ DOMAIN q = 1..Len(q) /\ DOMAIN t = 1..(Len(q) - 1)
      /\ q[1] = Head(q) /\ \A i \in DOMAIN t : t[i] = q[i + 1]
  OBVIOUS
<1> HIDE DEF t
<1>2. \A i \in DOMAIN q : i = 1 \/ (i - 1 \in DOMAIN t /\ t[i - 1] = q[i])
  BY <1>1
<1>3. Silent(t) => Silent(q)
  BY <1>1, <1>2 DEF Silent
<1>4. ASSUME Names(q, x), NEW i \in DOMAIN t, Last(t, i) PROVE t[i].win = x
  <2>1. i + 1 \in DOMAIN q /\ q[i + 1] = t[i] /\ i \in Nat
    BY <1>1
  <2>2. ASSUME NEW j \in DOMAIN q, j > i + 1 PROVE q[j].type # "FocusIn"
    <3>1. j - 1 \in DOMAIN t /\ t[j - 1] = q[j] /\ j - 1 > i
      BY <1>1, <1>2, <2>1, <2>2
    <3> QED BY <1>4, <3>1 DEF Last
  <2>3. Last(q, i + 1)
    BY <1>4, <2>1, <2>2 DEF Last
  <2> QED BY <1>4, <2>1, <2>3 DEF Names
<1> QED BY <1>3, <1>4 DEF Names, t

LEMMA FocusTail ==
    ASSUME NEW q \in Seq(Event), q # <<>>, Head(q).type = "FocusIn", NEW x, Names(q, x)
    PROVE  Names(Tail(q), x) /\ (Silent(Tail(q)) => Head(q).win = x)
<1> DEFINE t == Tail(q)
<1>1. /\ Len(q) \in Nat /\ DOMAIN q = 1..Len(q) /\ DOMAIN t = 1..(Len(q) - 1)
      /\ 1 \in DOMAIN q /\ q[1] = Head(q) /\ \A i \in DOMAIN t : t[i] = q[i + 1]
  OBVIOUS
<1> HIDE DEF t
<1>2. \A i \in DOMAIN q : i = 1 \/ (i - 1 \in DOMAIN t /\ t[i - 1] = q[i])
  BY <1>1
<1>3. ASSUME Silent(t) PROVE Head(q).win = x
  <2>1. Last(q, 1)
    BY <1>1, <1>2, <1>3 DEF Silent, Last
  <2> QED BY <1>1, <2>1 DEF Names
<1>4. ASSUME NEW i \in DOMAIN t, Last(t, i) PROVE t[i].win = x
  <2>1. i + 1 \in DOMAIN q /\ q[i + 1] = t[i] /\ i \in Nat
    BY <1>1
  <2>2. ASSUME NEW j \in DOMAIN q, j > i + 1 PROVE q[j].type # "FocusIn"
    <3>1. j - 1 \in DOMAIN t /\ t[j - 1] = q[j] /\ j - 1 > i
      BY <1>1, <1>2, <2>1, <2>2
    <3> QED BY <1>4, <3>1 DEF Last
  <2>3. Last(q, i + 1)
    BY <1>4, <2>1, <2>2 DEF Last
  <2> QED BY <2>1, <2>3 DEF Names
<1> QED BY <1>3, <1>4 DEF Names, t

LEMMA FocusAppend ==
    ASSUME NEW q \in Seq(Event), NEW ty \in {"FocusIn", "Unmap", "MapRequest"},
           NEW c \in Windows, NEW x
    PROVE  LET a == Append(q, [type |-> ty, win |-> c])
           IN  /\ Silent(a) => ty # "FocusIn" /\ Silent(q)
               /\ ty # "FocusIn" /\ Names(q, x) => Names(a, x)
               /\ ty = "FocusIn" => Names(a, c)
<1> DEFINE a == Append(q, [type |-> ty, win |-> c])
           n == Len(q) + 1
<1>1. /\ n \in Nat \ {0} /\ DOMAIN q = 1..(n - 1) /\ DOMAIN a = 1..n
      /\ a[n] = [type |-> ty, win |-> c] /\ \A i \in DOMAIN q : a[i] = q[i]
  OBVIOUS
<1> HIDE DEF a, n
<1>2. n \in DOMAIN a /\ \A i \in DOMAIN a : i = n \/ (i \in DOMAIN q /\ i < n)
  BY <1>1
<1>3. a[n].type = ty /\ a[n].win = c
  BY <1>1
<1>4. ASSUME Silent(a) PROVE ty # "FocusIn" /\ Silent(q)
  <2>1. \A i \in DOMAIN q : i \in DOMAIN a
    BY <1>1
  <2> QED BY <1>1, <1>2, <1>3, <1>4, <2>1 DEF Silent
<1>5. ASSUME ty # "FocusIn", Names(q, x), NEW i \in DOMAIN a, Last(a, i) PROVE a[i].win = x
  <2>1. i # n
    BY <1>3, <1>5 DEF Last
  <2>2. i \in DOMAIN q /\ a[i] = q[i] /\ \A j \in DOMAIN q : j \in DOMAIN a /\ a[j] = q[j]
    BY <1>1, <1>2, <2>1
  <2>3. Last(q, i)
    BY <1>5, <2>2 DEF Last
  <2> QED BY <1>5, <2>2, <2>3 DEF Names
<1>6. ASSUME ty = "FocusIn", NEW i \in DOMAIN a, Last(a, i) PROVE a[i].win = c
  <2>1. i = n \/ n > i
    BY <1>1, <1>2
  <2> QED BY <1>2, <1>3, <1>6, <2>1 DEF Last
<1>7. /\ Silent(a) => ty # "FocusIn" /\ Silent(q)
      /\ ty # "FocusIn" /\ Names(q, x) => Names(a, x)
      /\ ty = "FocusIn" => Names(a, c)
  BY <1>4, <1>5, <1>6 DEF Names
<1> QED BY <1>7 DEF a

\* Windows and frames that the X server accepts as the focus.
LEMMA ViewableFocus ==
    ASSUME TypeOK, xfocus \in Windows, xfocus \in Viewable
    PROVE  xfocus \in winMapped \cap frameMapped
BY FocusAssumption DEF Viewable, NoFocusWindow, TypeOK

LEMMA ViewableGrows ==
    ASSUME xfocus \in Viewable, winMapped \subseteq winMapped', frameMapped \subseteq frameMapped'
    PROVE  xfocus \in Viewable'
BY DEF Viewable, NoFocusWindow

\* Steps that change the record only by asking for SetInputFocus, and the focus
\* only by taking it away.
LEMMA KeptStep ==
    ASSUME FInv, Plain', xfocus' \in Viewable', xfocus' \in {xfocus, NoClient},
           needUpdate' => woken' \/ phase' = "lua",
           Silent(xevents') => Silent(xevents),
           xfocus' \in Windows /\ Names(xevents, xfocus) => Names(xevents', xfocus'),
           xfocus' \in Windows /\ ~needUpdate' => ~needUpdate /\ focus' = focus /\ (Refused => Refused')
    PROVE  FInv'
<1>1. xfocus' \in Windows => xfocus' = xfocus
  BY FocusAssumption
<1>2. ASSUME xfocus' \in Windows, ~needUpdate', Silent(xevents)' PROVE focus' = xfocus' \/ Refused'
  BY <1>1, <1>2 DEF FInv, Told, Silent
<1>3. xfocus' \in Windows => Names(xevents', xfocus')
  BY <1>1 DEF FInv
<1> QED BY <1>2, <1>3 DEF FInv, Told, Names, Last

\* Before the loop reaches banning_refresh, only a withdrawal counts.
LEMMA RefusedStep ==
    ASSUME Refused, phase # "banning",
           focus' = focus, focus \in managed',
           focus \in Withdrawn(xevents) => focus \in Withdrawn(xevents')
    PROVE  Refused'
BY DEF Refused, Withdrawn

\* When the X server does not accept the focused client it is withdrawn, or it is
\* iconic and not banned yet.
LEMMA RefusedFocus ==
    ASSUME IInv, MInv, hidden = {}, NEW q, Mapped(q), FocusRefresh(q), needUpdate,
           UNCHANGED <<managed, sticky, tagVars>>,
           FocusWindow = focus, focus # NoClient, focus \notin Viewable'
    PROVE  \/ focus \in managed \cap Withdrawn(q)
           \/ needBan' /\ focus \in (managed' \ Visible') \ isbanned'
<1>1. focus \in managed /\ OnSelectedTags(focus, tagged)
  BY DEF IInv, NoStaleReferences, FocusWindow
<1>2. focus \in frameMapped'
  BY <1>1 DEF FocusRefresh, Resurrected, Mapped
<1>3. focus \notin winMapped'
  BY <1>2 DEF Viewable
<1>4. focus \notin winMapped /\ (focus \in minimized => focus \notin isbanned)
  BY <1>1, <1>3 DEF FocusRefresh, UnbannedWindows, Resurrected
<1>5. CASE focus \notin minimized
  BY <1>1, <1>4, <1>5 DEF Mapped
<1>6. CASE focus \in minimized
  <2>1. Resurrected = {} /\ focus \notin isbanned
    BY <1>4, <1>6 DEF Resurrected
  <2>2. UNCHANGED <<managed, minimized, isbanned, needBan>>
    BY <2>1 DEF FocusRefresh, IInv, TypeOK
  <2>3. focus \notin Visible /\ focus \notin Visible'
    BY <1>6, <2>2 DEF Visible, VisibleUnder
  <2>4. needBan
    BY <1>1, <2>1, <2>3 DEF IInv, BannedIffInvisible
  <2> QED BY <1>1, <2>1, <2>2, <2>3, <2>4
<1> QED BY <1>5, <1>6

\* What client_focus_refresh does to the focus and the events, when it has to
\* do anything.
LEMMA FocusRefreshX ==
    ASSUME TypeOK, Plain, xfocus \in Viewable, NEW q \in Seq(Event),
           xfocus \in Windows => Names(q, xfocus),
           FocusRefresh(q), UNCHANGED <<managed, sticky, nofocus, tagVars>>
    PROVE  /\ Plain' /\ xfocus' \in Viewable'
           /\ xfocus' \in Windows => Names(xevents', xfocus')
           /\ Silent(xevents') => Silent(q)
           /\ \/ xevents' = q /\ xfocus' \in {xfocus, NoClient}
              \/ needUpdate /\ ~Silent(xevents') /\ xfocus' # xfocus
           /\ xevents' = q /\ needUpdate /\ xfocus' \in Windows =>
                 \/ xfocus' = focus
                 \/ FocusWindow = focus /\ focus # NoClient /\ focus \notin Viewable'
<1>1. FocusWindow \in {focus, NoClient} /\ FocusWindow \in Windows \cup {NoClient}
  BY DEF FocusWindow, Plain, TypeOK
<1>2. winMapped \subseteq winMapped' /\ frameMapped \subseteq frameMapped'
  BY DEF FocusRefresh, UnbannedWindows
<1>3. xfocus \in Viewable' /\ NoClient \in Viewable'
  BY <1>2, ViewableGrows DEF Viewable
<1>4. hidden' = {} /\ nofocus' = {} /\ late' = FALSE
  BY DEF FocusRefresh, Plain
<1>5. CASE ~needUpdate
  <2>1. xfocus' = xfocus /\ xevents' = q
    BY <1>5 DEF FocusRefresh
  <2> QED BY <1>3, <1>4, <1>5, <2>1 DEF Plain
<1>6. CASE needUpdate
  <2>1. SetInputFocus(FocusWindow, q)
    BY <1>6 DEF FocusRefresh
  <2>2. CASE xevents' = q /\ xfocus' = xfocus /\ FocusWindow \notin Viewable'
    BY <1>1, <1>3, <1>4, <2>2 DEF Plain
  <2>3. CASE xevents' = q /\ xfocus' = FocusWindow /\ FocusWindow \in Viewable'
             /\ (FocusWindow \in Windows => FocusWindow = xfocus)
    BY <1>1, <1>4, <2>3, FocusAssumption DEF Plain
  <2>4. CASE /\ xevents' = Append(q, [type |-> "FocusIn", win |-> FocusWindow])
             /\ xfocus' = FocusWindow /\ FocusWindow \in Viewable'
             /\ FocusWindow \in Windows /\ FocusWindow # xfocus
    <3>1. Names(xevents', xfocus') /\ ~Silent(xevents')
      BY <2>4, FocusAppend
    <3>2. xevents' # q
      BY <2>4
    <3> QED BY <1>1, <1>4, <1>6, <2>4, <3>1, <3>2 DEF Plain
  <2> QED BY <2>1, <2>2, <2>3, <2>4 DEF SetInputFocus, Plain
<1> QED BY <1>5, <1>6

\* All that the proof of a step needs of the state before it.
XInv == IInv /\ MInv /\ FInv

LEMMA BanningKeeps ==
    ASSUME TypeOK, BanningNeedUpdate, ~needUpdate'
    PROVE  ~needUpdate /\ focus' = focus
BY DEF BanningNeedUpdate, Unfocus, TypeOK

LEMMA RevertViewable ==
    ASSUME RevertFocus
    PROVE  xfocus' \in Viewable' /\ xfocus' \in {xfocus, NoClient}
BY DEF RevertFocus, Viewable

\* client_unmanage: the window that had the focus loses it, and the record with it.
LEMMA UnmanageFocus ==
    ASSUME XInv, NEW c \in Windows, Unmanage(c), phase # "banning",
           needUpdate' => woken' \/ phase' = "lua",
           Silent(xevents') => Silent(xevents),
           xfocus \in Windows /\ Names(xevents, xfocus) => Names(xevents', xfocus),
           Withdrawn(xevents) \subseteq Withdrawn(xevents') \cup {c}
    PROVE  FInv'
<1>1. Plain' /\ xfocus' \in Viewable' /\ xfocus' \in {xfocus, NoClient}
  BY RevertViewable DEF Unmanage, XInv, FInv, Plain
<1>2. ASSUME xfocus' \in Windows, ~needUpdate'
      PROVE  ~needUpdate /\ focus' = focus /\ (Refused => Refused')
  <2>1. ~needUpdate /\ focus' = focus /\ focus # c
    BY <1>2 DEF Unmanage, Unfocus, XInv, MInv, TypeOK
  <2>2. ASSUME Refused PROVE Refused'
    BY <2>1, <2>2 DEF Refused, Unmanage
  <2> QED BY <2>1, <2>2
<1>3. xfocus' \in Windows /\ Names(xevents, xfocus) => Names(xevents', xfocus')
  BY <1>1, FocusAssumption
<1> QED BY <1>1, <1>2, <1>3, KeptStep DEF XInv

LEMMA EventFocus ==
    ASSUME XInv, Env = {}, HandleEvent
    PROVE  FInv'
<1> DEFINE c == Head(xevents).win
<1>1. /\ xevents # <<>> /\ xevents \in Seq(Event) /\ phase = "dispatch"
      /\ phase' = "dispatch" /\ woken' = TRUE
  BY DEF HandleEvent, HandleMapRequest, HandleUnmapNotify, HandleFocusIn, HeadIs, Wake,
         XInv, MInv, TypeOK
<1>2. c \in Windows /\ Tail(xevents) \in Seq(Event)
  BY <1>1, QueueType DEF Event
<1>3. /\ Withdrawn(xevents) \subseteq Withdrawn(Tail(xevents)) \cup {c}
      /\ Head(xevents).type # "Unmap" => Withdrawn(xevents) \subseteq Withdrawn(Tail(xevents))
  BY <1>1, WithdrawnTail
<1>4. ASSUME Head(xevents).type # "FocusIn"
      PROVE  /\ Silent(Tail(xevents)) => Silent(xevents)
             /\ \A x : Names(xevents, x) => Names(Tail(xevents), x)
  BY <1>1, <1>4, NotFocusTail
<1> HIDE DEF c
<1>5. CASE HandleMapRequest
  <2>1. /\ xevents' = Tail(xevents) /\ Withdrawn(xevents) \subseteq Withdrawn(xevents')
        /\ Silent(xevents') => Silent(xevents)
        /\ \A x : Names(xevents, x) => Names(xevents', x)
    BY <1>3, <1>4, <1>5 DEF HandleMapRequest, HeadIs, Deliver
  <2>2. xfocus' = xfocus /\ UNCHANGED late
    BY <1>5 DEF HandleMapRequest, Manage
  <2>3. ASSUME hidden' = {}, nofocus' = {}, winMapped \subseteq winMapped', frameMapped' = frameMapped,
               managed \subseteq managed', ~needUpdate' => ~needUpdate /\ focus' = focus
        PROVE  FInv'
    <3>1. Plain' /\ xfocus' \in Viewable'
      BY <2>2, <2>3, ViewableGrows DEF XInv, FInv, Plain
    <3>2. ~needUpdate' => ~needUpdate /\ focus' = focus /\ (Refused => Refused')
      BY <1>1, <2>1, <2>3 DEF Refused
    <3> QED BY <1>1, <2>1, <2>2, <3>1, <3>2, KeptStep DEF XInv
  <2>4. CASE Manage(c)
    <3>1. PICK stk \in BOOLEAN, icon \in BOOLEAN, nf \in BOOLEAN :
             /\ nf => "nofocus" \in Env
             /\ ManagedObject(c, stk, icon, nf)
             /\ winMapped' = IF icon THEN winMapped ELSE winMapped \cup {c}
             /\ UNCHANGED <<hidden, frameMapped, tagVars>>
             /\ IF stk \/ icon THEN BanningNeedUpdate ELSE UNCHANGED <<focusVars, needBan>>
      BY <2>4 DEF Manage
    <3>2. ~nf
      BY <3>1
    <3>3. nofocus' = {} /\ hidden' = {}
      BY <3>1, <3>2 DEF ManagedObject, XInv, FInv, Plain
    <3>4. ~needUpdate' => ~needUpdate /\ focus' = focus
      BY <3>1, BanningKeeps DEF XInv, MInv, TypeOK
    <3> QED BY <2>3, <3>1, <3>3, <3>4 DEF ManagedObject
  <2>5. CASE UNCHANGED <<managed, clientVars, tagVars, focusVars, needBan, mapVars, xfocus, late>>
    BY <2>3, <2>5 DEF XInv, FInv, Plain
  <2>6. CASE /\ winMapped' = winMapped \cup {c}
             /\ UNCHANGED <<managed, hidden, sticky, isbanned, nofocus, tagVars, frameMapped>>
             /\ BanningNeedUpdate
    BY <2>3, <2>6, BanningKeeps DEF XInv, FInv, MInv, Plain
  <2> QED BY <1>5, <2>4, <2>5, <2>6 DEF HandleMapRequest, c
<1>6. CASE HandleUnmapNotify
  <2>1. /\ xevents' = Tail(xevents)
        /\ Silent(xevents') => Silent(xevents)
        /\ \A x : Names(xevents, x) => Names(xevents', x)
    BY <1>4, <1>6 DEF HandleUnmapNotify, HeadIs, Deliver
  <2>2. CASE Unmanage(c)
    BY <1>1, <1>2, <1>3, <2>1, <2>2, UnmanageFocus
  <2>3. CASE /\ c \notin managed
             /\ UNCHANGED <<managed, clientVars, tagVars, focusVars, needBan, mapVars, xfocus, late>>
    <3>1. Plain' /\ xfocus' \in Viewable'
      BY <2>3, ViewableGrows DEF XInv, FInv, Plain
    <3>2. Refused => Refused'
      BY <1>1, <1>3, <2>1, <2>3 DEF Refused
    <3> QED BY <1>1, <2>1, <2>3, <3>1, <3>2, KeptStep DEF XInv
  <2> QED BY <1>6, <2>2, <2>3 DEF HandleUnmapNotify, c
<1>7. CASE HandleFocusIn
  <2>1. xfocus \in Windows => Names(Tail(xevents), xfocus) /\ (Silent(Tail(xevents)) => c = xfocus)
    BY <1>1, <1>7, FocusTail DEF HandleFocusIn, HeadIs, XInv, FInv, c
  <2>2. CASE c \in managed
    <3>1. /\ FocusRefresh(Tail(xevents)) /\ focus' = c /\ needUpdate' = FALSE
          /\ UNCHANGED <<managed, sticky, nofocus, tagVars>>
      BY <1>7, <2>2 DEF HandleFocusIn, FocusUpdate, c
    <3>2. /\ Plain' /\ xfocus' \in Viewable'
          /\ xfocus' \in Windows => Names(xevents', xfocus')
          /\ Silent(xevents') => Silent(Tail(xevents))
          /\ (xevents' = Tail(xevents) /\ xfocus' \in {xfocus, NoClient}) \/ ~Silent(xevents')
      BY <1>2, <2>1, <3>1, FocusRefreshX DEF XInv, MInv, FInv
    <3>3. xfocus' \in Windows /\ Silent(xevents') => xfocus' = c
      BY <2>1, <3>2, FocusAssumption
    <3> QED BY <3>1, <3>2, <3>3 DEF FInv, Told, Names, Last, Silent
  <2>3. CASE c \notin managed
    <3>1. xevents' = Tail(xevents)
          /\ UNCHANGED <<managed, clientVars, tagVars, focusVars, needBan, mapVars, xfocus, late>>
      BY <1>7, <2>3 DEF HandleFocusIn, Deliver, c
    <3>2. Plain' /\ xfocus' \in Viewable'
      BY <3>1, ViewableGrows DEF XInv, FInv, Plain
    <3>3. xfocus \in Windows => xfocus # c
      BY <2>3, ViewableFocus DEF XInv, FInv, MInv, TypeOK
    <3> QED BY <1>1, <2>1, <3>1, <3>2, <3>3 DEF FInv, Told, Names, Last, Silent
  <2> QED BY <2>2, <2>3
<1> QED BY <1>5, <1>6, <1>7 DEF HandleEvent

\* A Lua function that leaves the windows alone, and the record unless it asks
\* for SetInputFocus.
LEMMA CallFocus ==
    ASSUME XInv, Running, Wake,
           UNCHANGED <<managed, hidden, nofocus, frameMapped, late, xevents>>,
           xfocus' \in Viewable', xfocus' \in {xfocus, NoClient},
           ~needUpdate' => ~needUpdate /\ focus' = focus
    PROVE  FInv'
<1>1. Plain' /\ (needUpdate' => woken' \/ phase' = "lua")
  BY DEF XInv, FInv, Plain, Running, Wake
<1>2. ~needUpdate' => ~needUpdate /\ focus' = focus /\ (Refused => Refused')
  BY DEF Refused, Running, Withdrawn
<1>3. xfocus' \in Windows => xfocus' = xfocus
  BY FocusAssumption
<1> QED BY <1>1, <1>2, <1>3, KeptStep DEF XInv

LEMMA LuaFocus ==
    ASSUME XInv, Env = {}, LuaCall
    PROVE  FInv'
<1>1. needUpdate \in BOOLEAN /\ xfocus \in Viewable
  BY DEF XInv, MInv, TypeOK, FInv
<1>2. ASSUME BanningNeedUpdate, ~needUpdate' PROVE ~needUpdate /\ focus' = focus
  BY <1>2, BanningKeeps DEF XInv, MInv
<1>3. ASSUME TagFrame, ~needUpdate' => ~needUpdate /\ focus' = focus PROVE FInv'
  <2>1. xfocus' \in Viewable'
    BY <1>1, <1>3, ViewableGrows DEF TagFrame, LuaFrame
  <2> QED BY <1>3, <2>1, CallFocus DEF TagFrame, LuaFrame
<1>4. ASSUME NEW c \in Windows, LuaUnmanage(c) PROVE FInv'
  <2>1. Unmanage(c) /\ xevents' = xevents /\ phase' = phase /\ phase \in {"dispatch", "lua"}
        /\ (woken' \/ phase' = "lua")
    BY <1>4 DEF LuaUnmanage, Running, Wake
  <2> QED BY <2>1, UnmanageFocus
<1>5. ASSUME NEW c \in Windows, Focus(c) PROVE FInv'
  <2>1. ~needUpdate' => ~needUpdate /\ focus' = focus
    BY <1>1, <1>5 DEF Focus, FocusUpdate
  <2> QED BY <1>3, <1>5, <2>1 DEF Focus
<1>6. CASE FocusNil
  BY <1>3, <1>6 DEF FocusNil, Unfocus
<1>7. ASSUME NEW c \in Windows, NEW s \in BOOLEAN, SetMinimized(c, s) PROVE FInv'
  <2>1. xfocus' \in Viewable' /\ xfocus' \in {xfocus, NoClient}
    BY <1>7, RevertViewable DEF SetMinimized
  <2> QED BY <1>2, <1>7, <2>1, CallFocus DEF SetMinimized, LuaFrame
<1>8. ASSUME NEW c \in Windows, NEW s \in BOOLEAN, SetHidden(c, s) PROVE FInv'
  BY <1>8 DEF SetHidden
<1>9. ASSUME NEW c \in Windows, NEW s \in BOOLEAN, SetSticky(c, s) PROVE FInv'
  <2>1. xfocus' \in Viewable'
    BY <1>1, <1>9, ViewableGrows DEF SetSticky, LuaFrame
  <2> QED BY <1>2, <1>9, <2>1, CallFocus DEF SetSticky, LuaFrame
<1>10. ASSUME NEW c \in Windows, NEW T \in SUBSET Tags, ClientTags(c, T) PROVE FInv'
  <2>1. ~needUpdate' => ~needUpdate /\ focus' = focus
    BY <1>2, <1>10 DEF ClientTags, Unfocus
  <2> QED BY <1>3, <1>10, <2>1 DEF ClientTags
<1>11. ASSUME NEW t \in Tags, Activate(t) PROVE FInv'
  BY <1>1, <1>3, <1>11 DEF Activate
<1>12. ASSUME NEW t \in Tags, Deactivate(t) PROVE FInv'
  <2>1. ~needUpdate' => ~needUpdate /\ focus' = focus
    BY <1>1, <1>2, <1>12 DEF Deactivate, DeselectBanning
  <2> QED BY <1>3, <1>12, <2>1 DEF Deactivate
<1>13. ASSUME NEW t \in Tags, NEW view \in BOOLEAN, TagView(t, view) PROVE FInv'
  BY <1>2, <1>3, <1>13 DEF TagView
<1>14. ASSUME NEW t \in Tags, NEW C \in SUBSET Windows, TagClients(t, C) PROVE FInv'
  BY <1>2, <1>3, <1>14 DEF TagClients
<1> QED
  BY <1>4, <1>5, <1>6, <1>7, <1>8, <1>9, <1>10, <1>11, <1>12, <1>13, <1>14 DEF LuaCall

LEMMA LoopFocus ==
    ASSUME XInv, MainLoop
    PROVE  FInv'
<1>0. needUpdate \in BOOLEAN /\ needBan \in BOOLEAN /\ xevents \in Seq(Event)
  BY DEF XInv, MInv, TypeOK
<1>1. CASE StartRefresh
  <2>1. /\ UNCHANGED <<managed, clientVars, tagVars, focusVars, needBan, mapVars, xVars>>
        /\ phase' = "lua" /\ phase = "dispatch"
    BY <1>1 DEF StartRefresh, LoopFrame
  <2>2. Plain' /\ xfocus' \in Viewable'
    BY <2>1, ViewableGrows DEF XInv, FInv, Plain
  <2>3. Refused => Refused'
    BY <2>1 DEF Refused, Withdrawn
  <2> QED BY <1>0, <2>1, <2>2, <2>3, KeptStep DEF XInv
<1>2. CASE ClientRefresh
  <2>1. /\ FocusRefresh(xevents) /\ UNCHANGED <<managed, sticky, nofocus, tagVars>>
        /\ phase' = "banning" /\ needUpdate' = FALSE
    BY <1>2 DEF ClientRefresh, LoopFrame
  <2>2. focus' = focus
    BY <1>2 DEF ClientRefresh, LostWhileUnbanning, XInv, FInv, Plain
  <2>3. /\ Plain' /\ xfocus' \in Viewable'
        /\ xfocus' \in Windows => Names(xevents', xfocus')
        /\ Silent(xevents') => Silent(xevents)
        /\ \/ xevents' = xevents /\ xfocus' \in {xfocus, NoClient}
           \/ needUpdate /\ ~Silent(xevents') /\ xfocus' # xfocus
        /\ xevents' = xevents /\ needUpdate /\ xfocus' \in Windows =>
              \/ xfocus' = focus
              \/ FocusWindow = focus /\ focus # NoClient /\ focus \notin Viewable'
    BY <1>0, <2>1, FocusRefreshX DEF XInv, MInv, FInv
  <2>4. ASSUME xfocus' \in Windows, Silent(xevents') PROVE focus' = xfocus' \/ Refused'
    <3>1. xevents' = xevents /\ xfocus' = xfocus
      BY <2>3, <2>4, FocusAssumption
    <3>2. CASE needUpdate
      <4>1. CASE xfocus' = focus
        BY <2>2, <4>1
      <4>2. CASE FocusWindow = focus /\ focus # NoClient /\ focus \notin Viewable'
        <5>1. \/ focus \in managed \cap Withdrawn(xevents)
              \/ needBan' /\ focus \in (managed' \ Visible') \ isbanned'
          BY <2>1, <3>2, <4>2, RefusedFocus DEF XInv, MInv, FInv, Plain
        <5> QED BY <2>1, <2>2, <3>1, <5>1 DEF Refused
      <4> QED BY <2>3, <2>4, <3>1, <3>2, <4>1, <4>2
    <3>3. CASE ~needUpdate
      <4>1. focus = xfocus \/ Refused
        BY <2>4, <3>1, <3>3 DEF XInv, FInv, Told
      <4>2. phase = "lua"
        BY <1>2 DEF ClientRefresh
      <4> QED BY <2>1, <2>2, <3>1, <4>1, <4>2 DEF Refused
    <3> QED BY <1>0, <3>2, <3>3
  <2> QED BY <2>1, <2>3, <2>4 DEF FInv, Told, Names, Last, Silent
<1>3. CASE BanningRefresh /\ ~needBan
  <2>1. /\ UNCHANGED <<managed, clientVars, tagVars, focusVars, mapVars, xVars>>
        /\ phase = "banning" /\ phase' = "dispatch" /\ (woken => woken')
    BY <1>3 DEF BanningRefresh, LoopFrame, EchoWakes
  <2>2. Plain' /\ xfocus' \in Viewable'
    BY <2>1, ViewableGrows DEF XInv, FInv, Plain
  <2>3. Refused => Refused'
    BY <1>3, <2>1 DEF Refused, Withdrawn
  <2>4. needUpdate' => woken'
    BY <2>1 DEF XInv, FInv
  <2> QED BY <1>0, <2>1, <2>2, <2>3, <2>4, KeptStep DEF XInv
<1>4. CASE BanningRefresh /\ needBan
  <2> DEFINE unban == Visible \cap isbanned
             ban   == (managed \ Visible) \ isbanned
  <2>1. /\ UNCHANGED <<managed, sticky, nofocus, tagVars, hidden, minimized, winMapped, late, xevents>>
        /\ frameMapped' = (frameMapped \cup unban) \ ban
        /\ focus' = IF focus \in ban THEN NoClient ELSE focus
        /\ needUpdate' = (needUpdate \/ focus \in unban \cup ban)
        /\ RevertFocus /\ phase = "banning" /\ phase' = "dispatch"
        /\ woken' = (woken \/ frameMapped' # frameMapped \/ xfocus' # xfocus \/ FALSE)
    BY <1>4 DEF BanningRefresh, LoopFrame, EchoWakes
  <2>2. Plain' /\ xfocus' \in Viewable' /\ xfocus' \in {xfocus, NoClient}
    BY <2>1, RevertViewable DEF XInv, FInv, Plain
  <2>3. focus \in unban \cup ban => frameMapped' # frameMapped
    <3>1. frameMapped = managed \ isbanned
      BY DEF XInv, MInv, Mapped
    <3>2. unban \subseteq managed
      BY DEF Visible, VisibleUnder
    <3> QED BY <2>1, <3>1, <3>2
  <2>4. needUpdate' => woken'
    BY <1>0, <2>1, <2>3 DEF XInv, FInv
  <2>5. ~needUpdate' => ~needUpdate /\ focus' = focus /\ (Refused => Refused')
    <3>1. ASSUME ~needUpdate' PROVE ~needUpdate /\ focus \notin ban
      BY <1>0, <2>1, <3>1
    <3>2. ASSUME ~needUpdate', Refused PROVE Refused'
      BY <2>1, <3>1, <3>2 DEF Refused, Withdrawn
    <3> QED BY <2>1, <3>1, <3>2
  <2>6. xfocus' \in Windows => xfocus' = xfocus
    BY <2>2, FocusAssumption
  <2> HIDE DEF unban, ban
  <2> QED BY <2>1, <2>2, <2>4, <2>5, <2>6, KeptStep DEF XInv
<1> QED BY <1>0, <1>1, <1>2, <1>3, <1>4 DEF MainLoop

LEMMA XClientFocus ==
    ASSUME XInv, Env = {}, XClient
    PROVE  FInv'
<1>0. needUpdate \in BOOLEAN /\ xevents \in Seq(Event)
  BY DEF XInv, MInv, TypeOK
<1>1. /\ UNCHANGED <<managed, clientVars, tagVars, focusVars, needBan, loopVars, frameMapped>>
      /\ needUpdate' => woken' \/ phase' = "lua"
  BY DEF XClient, XMapRequest, XWithdraw, XTakeFocus, XFrame, XInv, FInv
<1>2. ASSUME NEW c \in Windows, NEW ty \in {"Unmap", "MapRequest"},
             xevents' = Append(xevents, [type |-> ty, win |-> c]),
             late' = late, xfocus' \in Viewable', xfocus' \in {xfocus, NoClient}
      PROVE  FInv'
  <2>1. Plain'
    BY <1>1, <1>2 DEF XInv, FInv, Plain
  <2>2. Silent(xevents') => Silent(xevents)
    BY <1>0, <1>2, FocusAppend
  <2>3. xfocus' \in Windows => xfocus' = xfocus
    BY <1>2, FocusAssumption
  <2>4. xfocus' \in Windows /\ Names(xevents, xfocus) => Names(xevents', xfocus')
    BY <1>0, <1>2, <2>3, FocusAppend
  <2>5. Withdrawn(xevents) \subseteq Withdrawn(xevents')
    BY <1>0, <1>2, WithdrawnAppend
  <2>6. Refused => Refused'
    <3>1. Visible' = Visible
      BY <1>1 DEF Visible, VisibleUnder, OnSelectedTags
    <3> QED BY <1>1, <2>5, <3>1 DEF Refused
  <2> QED BY <1>1, <1>2, <2>1, <2>2, <2>4, <2>6, KeptStep DEF XInv
<1>3. ASSUME NEW c \in Windows, XMapRequest(c) PROVE FInv'
  <2>1. xfocus' \in Viewable'
    BY <1>1, <1>3, ViewableGrows DEF XMapRequest, XInv, FInv
  <2> QED BY <1>2, <1>3, <2>1 DEF XMapRequest, Emit
<1>4. ASSUME NEW c \in Windows, XWithdraw(c) PROVE FInv'
  BY <1>2, <1>4, RevertViewable DEF XWithdraw, Emit
<1>5. ASSUME NEW c \in Windows, XTakeFocus(c) PROVE FInv'
  <2>1. /\ c \in winMapped \cap frameMapped /\ winMapped' = winMapped
        /\ xfocus' = c /\ late' = late
        /\ xevents' = Append(xevents, [type |-> "FocusIn", win |-> c])
    BY <1>5 DEF XTakeFocus, Emit
  <2>2. Plain' /\ xfocus' \in Viewable'
    BY <1>1, <2>1 DEF XInv, FInv, Plain, Viewable
  <2>3. Names(xevents', xfocus') /\ ~Silent(xevents')
    BY <1>0, <2>1, FocusAppend
  <2> QED BY <1>1, <2>2, <2>3 DEF FInv, Told, Names, Last, Silent
<1> QED BY <1>3, <1>4, <1>5 DEF XClient

LEMMA NextXInv ==
    ASSUME XInv, Env = {}, [Next]_vars
    PROVE  XInv'
<1>1. IInv' /\ MInv'
  BY NextIInv, NextMInv DEF XInv
<1>2. CASE EnterRoot
  <2>1. /\ UNCHANGED <<managed, clientVars, tagVars, focus, needBan, mapVars, xfocus, xevents>>
        /\ late' = FALSE /\ needUpdate' = TRUE /\ woken' = TRUE
    BY <1>2 DEF EnterRoot, Wake
  <2>2. Plain' /\ xfocus' \in Viewable'
    BY <2>1, ViewableGrows DEF XInv, FInv, Plain
  <2>3. FInv'
    BY <2>1, <2>2, KeptStep DEF XInv
  <2> QED BY <1>1, <2>3 DEF XInv
<1>3. CASE UNCHANGED vars
  <2>1. Plain' /\ xfocus' \in Viewable'
    BY <1>3, ViewableGrows DEF vars, XInv, FInv, Plain
  <2>2. Refused => Refused'
    <3>1. Visible' = Visible
      BY <1>3 DEF vars, Visible, VisibleUnder, OnSelectedTags
    <3> QED BY <1>3, <3>1 DEF vars, Refused, Withdrawn
  <2>3. needUpdate' => woken' \/ phase' = "lua"
    BY <1>3 DEF vars, XInv, FInv
  <2>4. FInv'
    BY <1>3, <2>1, <2>2, <2>3, KeptStep DEF vars, XInv
  <2> QED BY <1>1, <2>4 DEF XInv
<1>4. CASE HandleEvent \/ LuaCall \/ MainLoop \/ XClient
  BY <1>1, <1>4, EventFocus, LuaFocus, LoopFocus, XClientFocus DEF XInv
<1> QED BY <1>2, <1>3, <1>4 DEF Next

\* Whatever races between Lua's delayed SetInputFocus and the FocusIn events of the
\* clients, once the manager rests the client that has the X focus is the one that
\* it recorded. (Not so with client.hidden, clients that take no input, or time
\* stamps of the future: those are the hypothesis.)
THEOREM FocusRight ==
    ASSUME Env = {}
    PROVE  Spec => []FocusRecordFollowsX
<1>1. Init => XInv
  <2>1. Init => IInv
    BY InitIInv
  <2>2. Init => MInv
    BY InitTypeOK DEF Init, MInv, Mapped, Withdrawn
  <2>3. Init => FInv
    BY FocusAssumption DEF Init, FInv, Plain, Told, Viewable
  <2> QED BY <2>1, <2>2, <2>3 DEF XInv
<1>2. XInv /\ [Next]_vars => XInv'
  BY NextXInv
<1>3. XInv => FocusRecordFollowsX
  <2>1. SUFFICES ASSUME XInv, AtRest, NEW c \in managed, xfocus \in {c, NoFocusWindow(c)}
                 PROVE  focus = c
    BY DEF FocusRecordFollowsX
  <2>2. c \in Windows /\ xevents = <<>> /\ ~woken /\ phase = "dispatch"
    BY <2>1 DEF XInv, MInv, TypeOK, AtRest
  <2>3. xfocus = c
    BY <2>1, <2>2, FocusAssumption DEF XInv, FInv, Plain, NoFocusWindow
  <2>4. Silent(xevents) /\ ~needUpdate
    BY <2>1, <2>2 DEF Silent, XInv, FInv
  <2>5. ~Refused
    BY <2>2 DEF Refused, Withdrawn, Elements
  <2> QED BY <2>1, <2>2, <2>3, <2>4, <2>5 DEF XInv, FInv, Told
<1> QED BY <1>1, <1>2, <1>3, PTL DEF Spec
=============================================================================
