-------------------------- MODULE Stacking_proofs --------------------------
(***************************************************************************)
(* Proofs about Stacking: the types; that client_find_transient_for keeps  *)
(* the transient_for relation free of loops, for every number of clients   *)
(* and every order of hints; that the list holds the managed clients, each *)
(* once, whatever is raised and lowered; and that X shows the order which  *)
(* the layers, the relation and the list ask for.                          *)
(***************************************************************************)
EXTENDS Stacking, EventQueues, TLAPS

-----------------------------------------------------------------------------
(* Types *)

\* The result of client_find_transient_for is NULL or one of the clients given.
LEMMA FoundType ==
    ASSUME NEW tf, NEW c, NEW C, NEW w, NEW len
    PROVE  FoundTransient(tf, c, C, w, len) \in C \cup {NoWindow}
  BY DEF FoundTransient

\* The layers of a client stay special layers.
LEMMA SwitchType ==
    ASSUME NEW old \in SUBSET SpecialLayers, NEW l \in SpecialLayers, NEW on
    PROVE  SwitchLayer(old, l, on) \in SUBSET SpecialLayers
  BY DEF SwitchLayer

\* Every variable but the two lists keeps its type, and transient_for always
\* names a managed client: client_unmanage leaves no pointer to a freed one.
THEOREM StackingTypes == Spec => []TypeOK
<1> USE StackingAssumption DEF Opt
<1>1. Init => TypeOK
  BY DEF Init, TypeOK
<1>2. TypeOK /\ [Next]_vars => TypeOK'
  <2> SUFFICES ASSUME TypeOK, [Next]_vars PROVE TypeOK'
    OBVIOUS
  <2> USE DEF TypeOK
  <2>1. ASSUME NEW c \in Windows, NEW w \in Opt, NEW l \in NewLayer, NEW desk \in BOOLEAN,
               Manage(c, w, l, desk)
        PROVE  TypeOK'
    <3>1. l \in SUBSET SpecialLayers
      BY DEF NewLayer
    <3> DEFINE own == [transientFor EXCEPT ![c] =
                          FoundTransient(transientFor, c, managed', w, Len(stack))]
    <3>2. /\ own \in [Windows -> Opt]
          /\ \A o \in managed' : own[o] \in managed' \cup {NoWindow}
          /\ \A o \in Windows \ managed' : own[o] = NoWindow
      BY <2>1, FoundType DEF Manage
    <3>3. transientFor' = [o \in Windows |->
                             IF o \in managed' /\ hint'[o] = c
                             THEN FoundTransient(own, o, managed', c, Len(stack)) ELSE own[o]]
      BY <2>1 DEF Manage
    <3>4. \A o \in Windows : FoundTransient(own, o, managed', c, Len(stack)) \in managed' \cup {NoWindow}
      BY FoundType
    <3>5. managed' \subseteq Windows
      BY <2>1 DEF Manage
    <3> HIDE DEF own
    <3>6. /\ transientFor' \in [Windows -> Opt]
          /\ \A o \in managed' : transientFor'[o] \in managed' \cup {NoWindow}
          /\ \A o \in Windows \ managed' : transientFor'[o] = NoWindow
      BY <3>2, <3>3, <3>4, <3>5
    <3> QED
      BY <2>1, <3>1, <3>5, <3>6 DEF Manage
  <2>2. ASSUME NEW c \in Windows, Unmanage(c) PROVE TypeOK'
    BY <2>2 DEF Unmanage, Orphaned
  <2>3. ASSUME NEW c \in Windows, Unmanaged(c) PROVE TypeOK'
    BY <2>3 DEF Unmanaged
  <2>4. ASSUME NEW c \in Windows, Raise(c) PROVE TypeOK'
    BY <2>4 DEF Raise
  <2>5. ASSUME NEW c \in Windows, Lower(c) PROVE TypeOK'
    BY <2>5 DEF Lower
  <2>6. ASSUME NEW c \in Windows, NEW w \in Opt, UpdateTransientFor(c, w) PROVE TypeOK'
    <3>1. FoundTransient(transientFor, c, managed, w, Len(stack)) \in managed \cup {NoWindow}
      BY FoundType
    <3>2. layer' \in [Windows -> SUBSET SpecialLayers]
      BY <2>6 DEF UpdateTransientFor
    <3>3. needRestack' \in BOOLEAN
      BY <2>6 DEF UpdateTransientFor
    <3> QED
      BY <2>6, <3>1, <3>2, <3>3 DEF UpdateTransientFor
  <2>7. ASSUME NEW c \in Windows, NEW l \in Layers, NEW on \in BOOLEAN, SetLayer(c, l, on)
        PROVE  TypeOK'
    BY <2>7, SwitchType DEF SetLayer
  <2>8. ASSUME NEW c \in Opt, Focus(c) PROVE TypeOK'
    BY <2>8 DEF Focus
  <2>9. ASSUME NEW d \in Drawins, ShowDrawin(d) \/ HideDrawin(d) PROVE TypeOK'
    BY <2>9 DEF ShowDrawin, HideDrawin
  <2>10. ASSUME NEW d \in Drawins, SetDrawinOntop(d) PROVE TypeOK'
    BY <2>10 DEF SetDrawinOntop
  <2>11. CASE StackRefresh
    BY <2>11 DEF StackRefresh
  <2>12. CASE UNCHANGED vars
    BY <2>12 DEF vars
  <2> QED
    BY <2>1, <2>2, <2>3, <2>4, <2>5, <2>6, <2>7, <2>8, <2>9, <2>10, <2>11, <2>12 DEF Next
<1> QED
  BY <1>1, <1>2, PTL DEF Spec

-----------------------------------------------------------------------------
(* Loops *)

\* Acyclic, for a relation that is not yet the value of transientFor.
LoopFree(tf) == \A S \in SUBSET Windows : S # {} => \E c \in S : tf[c] \notin S

\* a set of windows that no step of the relation leaves
ClosedUnder(tf, Q) == \A q \in Q : tf[q] \in Q \cup {NoWindow}

\* When the loop of client_find_transient_for ends at NULL, the windows it saw
\* are closed under the relation, and c is not one of them.
LEMMA WalkAvoids ==
    ASSUME NEW tf \in [Windows -> Opt], NEW c \in Windows, NEW t \in Windows, NEW len,
           NoLoop(tf, c, t, len)
    PROVE  \E Q \in SUBSET Windows : t \in Q /\ c \notin Q /\ ClosedUnder(tf, Q)
<1>1. PICK k \in 0..len : \E p \in [0..k -> Opt] :
        /\ p[0] = t
        /\ \A i \in 0..(k - 1) : p[i] \notin {c, NoWindow} /\ p[i + 1] = tf[p[i]]
        /\ p[k] = NoWindow
  BY DEF NoLoop
<1>2. PICK p \in [0..k -> Opt] :
        /\ p[0] = t
        /\ \A i \in 0..(k - 1) : p[i] \notin {c, NoWindow} /\ p[i + 1] = tf[p[i]]
        /\ p[k] = NoWindow
  BY <1>1
<1>3. k \in Nat /\ k # 0
  BY <1>2, StackingAssumption
<1> DEFINE Q == {p[i] : i \in 0..(k - 1)}
<1>4. Q \in SUBSET Windows
  BY <1>2, <1>3 DEF Opt
<1>5. t \in Q
  BY <1>2, <1>3
<1>6. c \notin Q
  BY <1>2
<1>7. ASSUME NEW q \in Q PROVE tf[q] \in Q \cup {NoWindow}
  <2>1. PICK i \in 0..(k - 1) : q = p[i]
    OBVIOUS
  <2>2. tf[q] = p[i + 1]
    BY <1>2, <2>1
  <2>3. CASE i + 1 = k
    BY <1>2, <2>2, <2>3
  <2>4. CASE i + 1 # k
    <3>1. i + 1 \in 0..(k - 1)
      BY <1>3, <2>4
    <3> QED
      BY <2>2, <3>1
  <2> QED
    BY <2>3, <2>4
<1> QED
  BY <1>4, <1>5, <1>6, <1>7 DEF ClosedUnder

\* The step of client_find_transient_for, for a set O of clients that get the
\* same parent t or none: if the loop of the code found no way from t back to
\* those that get it, the new relation has no loop. A set S that the new
\* relation does not leave would contain t, and then all that is reachable from
\* t, where nothing has changed.
LEMMA RelinkLoopFree ==
    ASSUME NEW tf \in [Windows -> Opt], NEW tf2 \in [Windows -> Opt],
           NEW O \in SUBSET Windows, NEW t \in Windows, NEW len,
           LoopFree(tf),
           \A o \in Windows \ O : tf2[o] = tf[o],
           \A o \in O : tf2[o] = NoWindow \/ (tf2[o] = t /\ NoLoop(tf, o, t, len))
    PROVE  LoopFree(tf2)
<1> SUFFICES ASSUME NEW S \in SUBSET Windows, S # {}, \A c \in S : tf2[c] \in S
             PROVE  FALSE
  BY DEF LoopFree
<1>1. \A c \in S : tf2[c] # NoWindow
  BY StackingAssumption
<1> DEFINE Closed == {Q \in SUBSET Windows : t \in Q /\ ClosedUnder(tf, Q)}
           Reach  == {q \in Windows : \A Q \in Closed : q \in Q}
<1>2. t \in Reach
  OBVIOUS
<1>3. ASSUME NEW q \in Reach, tf[q] # NoWindow PROVE tf[q] \in Reach
  BY <1>3 DEF ClosedUnder, Opt
<1>4. ASSUME NEW o \in O, o \in S PROVE tf2[o] = t /\ o \notin Reach
  <2>1. tf2[o] = t /\ NoLoop(tf, o, t, len)
    BY <1>1, <1>4
  <2>2. PICK Q \in SUBSET Windows : t \in Q /\ o \notin Q /\ ClosedUnder(tf, Q)
    BY <2>1, WalkAvoids
  <2>3. Q \in Closed
    BY <2>2
  <2> QED
    BY <2>1, <2>2, <2>3
<1> HIDE DEF Reach
<1>5. CASE S \cap O = {}
  <2>1. \A c \in S : tf[c] \in S
    BY <1>5
  <2> QED
    BY <2>1 DEF LoopFree
<1>6. CASE S \cap O # {}
  <2>1. t \in S \cap Reach
    BY <1>2, <1>4, <1>6
  <2>2. ASSUME NEW c \in S \cap Reach PROVE tf[c] \in S \cap Reach
    BY <1>1, <1>3, <1>4
  <2> QED
    BY <2>1, <2>2 DEF LoopFree
<1> QED
  BY <1>5, <1>6

\* The same for one client, whose new parent may also be none.
LEMMA RelinkOne ==
    ASSUME NEW tf \in [Windows -> Opt], NEW tf2 \in [Windows -> Opt],
           NEW c \in Windows, NEW w \in Opt, NEW len,
           LoopFree(tf),
           \A o \in Windows \ {c} : tf2[o] = tf[o],
           tf2[c] = NoWindow \/ (tf2[c] = w /\ NoLoop(tf, c, w, len))
    PROVE  LoopFree(tf2)
<1>1. CASE tf2[c] = NoWindow
  <2>1. \A o \in Windows : tf2[o] \in {tf[o], NoWindow}
    BY <1>1
  <2> QED
    BY <2>1, StackingAssumption DEF LoopFree
<1>2. CASE tf2[c] # NoWindow
  <2>1. w \in Windows /\ tf2[c] = w /\ NoLoop(tf, c, w, len)
    BY <1>2 DEF Opt
  <2> DEFINE O == {c}
  <2>2. O \in SUBSET Windows /\ \A o \in O : tf2[o] = w /\ NoLoop(tf, o, w, len)
    BY <2>1
  <2>3. \A o \in Windows \ O : tf2[o] = tf[o]
    OBVIOUS
  <2> HIDE DEF O
  <2> QED
    BY <2>1, <2>2, <2>3, RelinkLoopFree
<1> QED
  BY <1>1, <1>2

\* transient_for never has a loop, for any number of clients, whatever their
\* hints and the order of their coming and going: the recursion of
\* stack_client_above and the loops of raise and lower terminate.
THEOREM TransientsAcyclic == Spec => []Acyclic
<1>1. Init => Acyclic
  BY StackingAssumption DEF Init, Acyclic
<1>2. TypeOK /\ Acyclic /\ [Next]_vars => Acyclic'
  <2> SUFFICES ASSUME TypeOK, Acyclic, [Next]_vars PROVE LoopFree(transientFor')
    BY DEF Acyclic, LoopFree
  <2>0. LoopFree(transientFor) /\ transientFor \in [Windows -> Opt]
    BY DEF Acyclic, LoopFree, TypeOK
  <2>1. ASSUME NEW c \in Windows, NEW w \in Opt, NEW l, NEW desk, Manage(c, w, l, desk)
        PROVE  LoopFree(transientFor')
    <3> DEFINE own == [transientFor EXCEPT ![c] =
                          FoundTransient(transientFor, c, managed', w, Len(stack))]
    <3>1. managed' \subseteq Windows /\ c \in managed'
      BY <2>1 DEF Manage, TypeOK
    <3>2. own \in [Windows -> Opt]
      BY <2>0, <3>1, FoundType DEF Opt
    <3>3. LoopFree(own)
      <4>1. own[c] = NoWindow \/ (own[c] = w /\ NoLoop(transientFor, c, w, Len(stack)))
        BY <2>0 DEF FoundTransient
      <4>2. \A o \in Windows \ {c} : own[o] = transientFor[o]
        BY <2>0
      <4> HIDE DEF own
      <4> QED
        BY <2>0, <3>2, <4>1, <4>2, RelinkOne
    <3>4. transientFor' = [o \in Windows |->
                             IF o \in managed' /\ hint'[o] = c
                             THEN FoundTransient(own, o, managed', c, Len(stack)) ELSE own[o]]
      BY <2>1 DEF Manage
    <3> HIDE DEF own
    <3> DEFINE O == {o \in Windows : o \in managed' /\ hint'[o] = c}
    <3>5. \A o \in Windows : FoundTransient(own, o, managed', c, Len(stack)) \in Opt
      BY <3>1, FoundType DEF Opt
    <3>6. transientFor' \in [Windows -> Opt]
      BY <3>2, <3>4, <3>5
    <3>7. \A o \in Windows \ O : transientFor'[o] = own[o]
      BY <3>4
    <3>8. \A o \in O : \/ transientFor'[o] = NoWindow
                       \/ transientFor'[o] = c /\ NoLoop(own, o, c, Len(stack))
      BY <3>4 DEF FoundTransient
    <3> QED
      BY <3>2, <3>3, <3>6, <3>7, <3>8, RelinkLoopFree
  <2>2. ASSUME NEW c \in Windows, Unmanage(c) \/ Unmanaged(c) PROVE LoopFree(transientFor')
    <3>1. \A o \in Windows : transientFor'[o] \in {transientFor[o], NoWindow}
      BY <2>0, <2>2 DEF Unmanage, Orphaned, Unmanaged
    <3> QED
      BY <2>0, <3>1, StackingAssumption DEF LoopFree
  <2>3. ASSUME NEW c \in Windows, NEW w \in Opt, UpdateTransientFor(c, w)
        PROVE  LoopFree(transientFor')
    <3>1. transientFor' = [transientFor EXCEPT ![c] =
                             FoundTransient(transientFor, c, managed, w, Len(stack))]
      BY <2>3 DEF UpdateTransientFor
    <3>2. managed \subseteq Windows
      BY DEF TypeOK
    <3>3. FoundTransient(transientFor, c, managed, w, Len(stack)) \in Opt
      BY <3>2, FoundType DEF Opt
    <3>4. \/ transientFor'[c] = NoWindow
          \/ transientFor'[c] = w /\ NoLoop(transientFor, c, w, Len(stack))
      BY <2>0, <3>1 DEF FoundTransient
    <3>5. /\ transientFor' \in [Windows -> Opt]
          /\ \A o \in Windows \ {c} : transientFor'[o] = transientFor[o]
      BY <2>0, <3>1, <3>3
    <3> QED
      BY <2>0, <3>4, <3>5, RelinkOne
  <2>4. CASE UNCHANGED transientFor
    BY <2>0, <2>4
  <2> QED
    BY <2>1, <2>2, <2>3, <2>4
       DEF Next, vars, Raise, Lower, SetLayer, Focus, ShowDrawin, HideDrawin, SetDrawinOntop,
           StackRefresh
<1> QED
  BY <1>1, <1>2, StackingTypes, PTL DEF Spec

-----------------------------------------------------------------------------
(* The list *)

\* lists of clients in which none occurs twice, with the clients C
ListsOf(T, C) == {s \in Seq(T) : ToSet(s) = C /\ IsInjective(s)}
Lists(C) == ListsOf(Windows, C)

\* u is somewhere before v
Precedes(s, u, v) == \E i, j \in DOMAIN s : i < j /\ s[i] = u /\ s[j] = v

\* What a function that follows transient_for computes exists: the least
\* relation that holds what it says of each window has one value for each.
Walk(tf, X, start, step) ==
    \E f \in [Windows -> X] : \A w \in Windows :
        f[w] = step[<<w, IF tf[w] = NoWindow THEN start ELSE f[tf[w]]>>]

LEMMA Walks ==
    ASSUME NEW tf \in [Windows -> Opt], LoopFree(tf),
           NEW X, NEW start \in X, NEW step \in [Windows \X X -> X]
    PROVE  Walk(tf, X, start, step)
<1> DEFINE Closed(R) ==
             \A w \in Windows :
               /\ tf[w] = NoWindow => <<w, step[<<w, start>>]>> \in R
               /\ tf[w] # NoWindow => \A x \in X : <<tf[w], x>> \in R => <<w, step[<<w, x>>]>> \in R
           M == {p \in Windows \X X : \A R \in SUBSET (Windows \X X) : Closed(R) => p \in R}
           Bad == {w \in Windows : ~ \E x \in X : \A y \in X : <<w, y>> \in M <=> y = x}
<1>1. \A w \in Windows, x \in X : step[<<w, x>>] \in X
  OBVIOUS
<1>2. \A w \in Windows : tf[w] # NoWindow => tf[w] \in Windows
  BY DEF Opt
<1>3. Closed(M)
  BY <1>1, <1>2
<1>4. \A R \in SUBSET (Windows \X X) : Closed(R) => M \subseteq R
  OBVIOUS
<1>5. M \subseteq Windows \X X
  OBVIOUS
<1> HIDE DEF M
<1>6. ASSUME NEW c \in Windows, NEW y \in X, <<c, y>> \in M,
             tf[c] = NoWindow => y = step[<<c, start>>],
             tf[c] # NoWindow => tf[c] # c /\ \A x \in X : <<tf[c], x>> \in M => y = step[<<c, x>>]
      PROVE  \A x \in X : <<c, x>> \in M <=> x = y
  <2> DEFINE R == {p \in M : p[1] = c => p[2] = y}
  <2>1. R \in SUBSET (Windows \X X)
    BY <1>5
  <2>2. Closed(R)
    <3> SUFFICES ASSUME NEW w \in Windows
                 PROVE  /\ tf[w] = NoWindow => <<w, step[<<w, start>>]>> \in R
                        /\ tf[w] # NoWindow => \A x \in X : <<tf[w], x>> \in R => <<w, step[<<w, x>>]>> \in R
      OBVIOUS
    <3>1. tf[w] = NoWindow => <<w, step[<<w, start>>]>> \in R
      BY <1>3, <1>6
    <3>2. ASSUME tf[w] # NoWindow, NEW x \in X, <<tf[w], x>> \in R PROVE <<w, step[<<w, x>>]>> \in R
      <4>1. <<w, step[<<w, x>>]>> \in M
        BY <1>3, <3>2
      <4> QED BY <1>6, <3>2, <4>1
    <3> QED BY <3>1, <3>2
  <2>3. M \subseteq R
    BY <1>4, <2>1, <2>2
  <2> QED BY <1>6, <2>3
<1> HIDE DEF Closed
<1>7. Bad = {}
  <2> SUFFICES ASSUME Bad # {} PROVE FALSE
    OBVIOUS
  <2>1. PICK c \in Bad : tf[c] \notin Bad
    <3>1. Bad \in SUBSET Windows
      OBVIOUS
    <3> QED BY <3>1 DEF LoopFree
  <2>2. CASE tf[c] = NoWindow
    <3>1. <<c, step[<<c, start>>]>> \in M /\ step[<<c, start>>] \in X
      BY <1>1, <1>3, <2>2 DEF Closed
    <3> QED BY <1>6, <2>1, <2>2, <3>1
  <2>3. CASE tf[c] # NoWindow
    <3>1. PICK z \in X : \A y \in X : <<tf[c], y>> \in M <=> y = z
      BY <1>2, <2>1, <2>3
    <3>2. <<c, step[<<c, z>>]>> \in M /\ step[<<c, z>>] \in X
      BY <1>1, <1>3, <2>3, <3>1 DEF Closed
    <3>3. tf[c] # c
      BY <2>1
    <3>4. PICK y \in X : y = step[<<c, z>>]
      BY <3>2
    <3>5. <<c, y>> \in M /\ c \in Windows /\ \A x \in X : <<tf[c], x>> \in M => y = step[<<c, x>>]
      BY <3>1, <3>2, <3>4
    <3>6. \A x \in X : <<c, x>> \in M <=> x = y
      BY <1>6, <2>3, <3>3, <3>5
    <3> QED BY <3>6
  <2> QED BY <2>2, <2>3
<1> DEFINE f == [w \in Windows |-> CHOOSE x \in X : <<w, x>> \in M]
<1>8. \A w \in Windows : f[w] \in X /\ \A y \in X : <<w, y>> \in M <=> y = f[w]
  <2> TAKE w \in Windows
  <2>1. PICK x \in X : \A y \in X : <<w, y>> \in M <=> y = x
    BY <1>7
  <2> QED BY <2>1
<1> HIDE DEF f
<1>9. ASSUME NEW w \in Windows
      PROVE  f[w] = step[<<w, IF tf[w] = NoWindow THEN start ELSE f[tf[w]]>>]
  <2>1. CASE tf[w] = NoWindow
    BY <1>1, <1>3, <1>8, <2>1 DEF Closed
  <2>2. CASE tf[w] # NoWindow
    <3>1. f[tf[w]] \in X /\ <<tf[w], f[tf[w]]>> \in M
      BY <1>2, <1>8, <2>2
    <3>2. <<w, step[<<w, f[tf[w]]>>]>> \in M
      BY <1>3, <2>2, <3>1 DEF Closed
    <3> QED BY <1>1, <1>8, <2>2, <3>1, <3>2
  <2> QED BY <2>1, <2>2
<1>10. f \in [Windows -> X]
  BY <1>8 DEF f
<1> QED BY <1>9, <1>10 DEF Walk

\* stack_client_remove takes out the client, and nothing else
LEMMA RemoveList ==
    ASSUME NEW T, NEW C, NEW s \in ListsOf(T, C), NEW c
    PROVE  StackRemove(s, c) \in ListsOf(T, C \ {c})
<1>1. CASE c \notin ToSet(s)
  BY <1>1 DEF StackRemove, ListsOf
<1>2. CASE c \in ToSet(s)
  <2>1. s \in Seq(T) /\ ToSet(s) = C /\ \A i, j \in DOMAIN s : s[i] = s[j] => i = j
    BY DEF ListsOf, IsInjective
  <2>2. PICK i \in DOMAIN s : s[i] = c
    BY <1>2 DEF ToSet
  <2>3. Place(s, c) = i
    <3>1. \A j \in 1..(i - 1) : s[j] # c
      BY <2>1, <2>2
    <3> QED BY <2>1, <2>2, <3>1 DEF Place
  <2>4. PICK r : r = SubSeq(s, 1, i - 1) \o SubSeq(s, i + 1, Len(s))
    OBVIOUS
  <2>5. StackRemove(s, c) = r
    BY <1>2, <2>3, <2>4 DEF StackRemove, RemoveAt
  <2>6. /\ r \in Seq(T) /\ Len(r) = Len(s) - 1
        /\ \A j \in DOMAIN r : r[j] = IF j < i THEN s[j] ELSE s[j + 1]
    BY <2>1, <2>4, RemoveElement
  <2>7. DOMAIN r = 1..(Len(s) - 1) /\ DOMAIN s = 1..Len(s) /\ Len(s) \in Nat /\ i \in 1..Len(s)
    BY <2>1, <2>6
  <2>8. ASSUME NEW j \in DOMAIN r PROVE r[j] \in C \ {c}
    <3>1. j \in DOMAIN s /\ j + 1 \in DOMAIN s /\ (j < i => j # i) /\ (~(j < i) => j + 1 # i)
      BY <2>7
    <3> QED BY <2>1, <2>2, <2>6, <3>1 DEF ToSet
  <2>9. ASSUME NEW j \in DOMAIN s, s[j] # c PROVE s[j] \in ToSet(r)
    <3>1. CASE j < i
      <4>1. j \in DOMAIN r /\ r[j] = s[j]
        BY <2>6, <2>7, <3>1
      <4> QED BY <4>1 DEF ToSet
    <3>2. CASE j > i
      <4>1. j - 1 \in DOMAIN r /\ ~(j - 1 < i) /\ (j - 1) + 1 = j
        BY <2>7, <3>2
      <4>2. r[j - 1] = s[j]
        BY <2>6, <4>1
      <4> QED BY <4>1, <4>2 DEF ToSet
    <3> QED BY <2>2, <2>7, <2>9, <3>1, <3>2
  <2>10. ToSet(r) = C \ {c}
    <3>1. ToSet(r) \subseteq C \ {c}
      BY <2>8 DEF ToSet
    <3>2. C \ {c} \subseteq ToSet(r)
      <4> SUFFICES ASSUME NEW x \in C, x # c PROVE x \in ToSet(r)
        OBVIOUS
      <4>1. PICK j \in DOMAIN s : s[j] = x
        BY <2>1 DEF ToSet
      <4> QED BY <2>9, <4>1
    <3> QED BY <3>1, <3>2
  <2>11. ASSUME NEW j \in DOMAIN r, NEW k \in DOMAIN r, r[j] = r[k] PROVE j = k
    <3>1. /\ j \in DOMAIN s /\ j + 1 \in DOMAIN s /\ k \in DOMAIN s /\ k + 1 \in DOMAIN s
          /\ j \in Int /\ k \in Int /\ i \in Int
      BY <2>7
    <3>2. r[j] = (IF j < i THEN s[j] ELSE s[j + 1]) /\ r[k] = IF k < i THEN s[k] ELSE s[k + 1]
      BY <2>6
    <3>3. CASE j < i /\ k < i
      BY <2>1, <2>11, <3>1, <3>2, <3>3
    <3>4. CASE j < i /\ ~(k < i)
      <4>1. j = k + 1
        BY <2>1, <2>11, <3>1, <3>2, <3>4
      <4> QED BY <3>1, <3>4, <4>1
    <3>5. CASE ~(j < i) /\ k < i
      <4>1. j + 1 = k
        BY <2>1, <2>11, <3>1, <3>2, <3>5
      <4> QED BY <3>1, <3>5, <4>1
    <3>6. CASE ~(j < i) /\ ~(k < i)
      <4>1. j + 1 = k + 1
        BY <2>1, <2>11, <3>1, <3>2, <3>6
      <4> QED BY <3>1, <4>1
    <3> QED BY <3>3, <3>4, <3>5, <3>6
  <2>12. IsInjective(r)
    BY <2>11 DEF IsInjective
  <2> QED BY <2>5, <2>6, <2>10, <2>12 DEF ListsOf
<1> QED BY <1>1, <1>2

\* putting a client back at either end, or a new one there
LEMMA AppendList ==
    ASSUME NEW T, NEW C, NEW s \in ListsOf(T, C), NEW c \in T
    PROVE  StackAppend(s, c) \in ListsOf(T, C \cup {c})
<1>1. PICK r : r = StackRemove(s, c)
  OBVIOUS
<1>2. r \in Seq(T) /\ ToSet(r) = C \ {c} /\ \A i, j \in DOMAIN r : r[i] = r[j] => i = j
  BY <1>1, RemoveList DEF ListsOf, IsInjective
<1>3. PICK a : a = Append(r, c)
  OBVIOUS
<1>4. /\ a \in Seq(T) /\ DOMAIN a = 1..(Len(r) + 1) /\ DOMAIN r = 1..Len(r) /\ Len(r) \in Nat
      /\ a[Len(r) + 1] = c /\ \A i \in DOMAIN r : i \in DOMAIN a /\ i # Len(r) + 1 /\ a[i] = r[i]
      /\ \A i \in DOMAIN a : i = Len(r) + 1 \/ i \in DOMAIN r
  BY <1>2, <1>3, PushCall
<1>5. ToSet(a) = C \cup {c}
  <2>1. \A i \in DOMAIN a : a[i] = c \/ a[i] \in ToSet(r)
    BY <1>4 DEF ToSet
  <2>2. c \in ToSet(a) /\ ToSet(r) \subseteq ToSet(a)
    <3>1. Len(r) + 1 \in DOMAIN a
      BY <1>4
    <3> QED BY <1>4, <3>1 DEF ToSet
  <2>3. ToSet(a) \subseteq ToSet(r) \cup {c}
    BY <2>1 DEF ToSet
  <2> QED BY <1>2, <2>2, <2>3
<1>6. ASSUME NEW i \in DOMAIN a, NEW j \in DOMAIN a, a[i] = a[j] PROVE i = j
  <2>1. \A k \in DOMAIN r : r[k] # c
    BY <1>2 DEF ToSet
  <2> QED BY <1>2, <1>4, <1>6, <2>1
<1> QED BY <1>1, <1>3, <1>4, <1>5, <1>6 DEF ListsOf, IsInjective, StackAppend

LEMMA PushList ==
    ASSUME NEW T, NEW C, NEW s \in ListsOf(T, C), NEW c \in T
    PROVE  StackPush(s, c) \in ListsOf(T, C \cup {c})
<1>1. PICK r : r = StackRemove(s, c)
  OBVIOUS
<1>2. r \in Seq(T) /\ ToSet(r) = C \ {c} /\ \A i, j \in DOMAIN r : r[i] = r[j] => i = j
  BY <1>1, RemoveList DEF ListsOf, IsInjective
<1>3. PICK o : o = <<c>>
  OBVIOUS
<1>4. o \in Seq(T) /\ Len(o) = 1 /\ o[1] = c
  BY <1>3
<1>5. PICK a : a = o \o r
  OBVIOUS
<1>6. /\ a \in Seq(T) /\ Len(a) = 1 + Len(r) /\ Len(r) \in Nat /\ DOMAIN r = 1..Len(r)
      /\ \A i \in 1..(1 + Len(r)) : a[i] = IF i <= 1 THEN o[i] ELSE r[i - 1]
  <2>1. /\ a \in Seq(T) /\ Len(a) = Len(o) + Len(r)
        /\ \A i \in 1..Len(o) + Len(r) : a[i] = IF i <= Len(o) THEN o[i] ELSE r[i - Len(o)]
    <3>1. /\ o \o r \in Seq(T) /\ Len(o \o r) = Len(o) + Len(r)
          /\ \A i \in 1..(Len(o) + Len(r)) : (o \o r)[i] = IF i <= Len(o) THEN o[i] ELSE r[i - Len(o)]
      <4>1. PICK p \in Seq(T), q \in Seq(T) : p = o /\ q = r
        BY <1>2, <1>4
      <4>2. /\ p \o q \in Seq(T) /\ Len(p \o q) = Len(p) + Len(q)
            /\ \A i \in 1..(Len(p) + Len(q)) : (p \o q)[i] = IF i <= Len(p) THEN p[i] ELSE q[i - Len(p)]
        BY ConcatProperties
      <4> QED BY <4>1, <4>2
    <3> QED BY <1>5, <3>1
  <2>2. Len(r) \in Nat /\ DOMAIN r = 1..Len(r)
    BY <1>2
  <2> QED BY <1>4, <2>1, <2>2
<1>7. DOMAIN a = 1..(1 + Len(r)) /\ a[1] = c /\ 1 \in DOMAIN a
  BY <1>4, <1>6
<1>8. \A i \in DOMAIN a : i = 1 \/ (i - 1 \in DOMAIN r /\ a[i] = r[i - 1])
  BY <1>6, <1>7
<1>9. \A i \in DOMAIN r : i + 1 \in DOMAIN a /\ a[i + 1] = r[i]
  BY <1>6, <1>7
<1>10. ToSet(a) = C \cup {c}
  <2>1. \A i \in DOMAIN a : a[i] \in ToSet(r) \cup {c}
    BY <1>7, <1>8 DEF ToSet
  <2>2. \A i \in DOMAIN r : r[i] \in ToSet(a)
    BY <1>9 DEF ToSet
  <2>3. c \in ToSet(a)
    BY <1>7 DEF ToSet
  <2> QED BY <1>2, <2>1, <2>2, <2>3 DEF ToSet
<1>11. ASSUME NEW i \in DOMAIN a, NEW j \in DOMAIN a, a[i] = a[j] PROVE i = j
  <2>1. \A k \in DOMAIN r : r[k] # c
    BY <1>2 DEF ToSet
  <2>2. i \in Int /\ j \in Int
    BY <1>6, <1>7
  <2>3. CASE i = 1
    BY <1>7, <1>8, <1>11, <2>1, <2>3
  <2>4. CASE j = 1
    BY <1>7, <1>8, <1>11, <2>1, <2>4
  <2>5. CASE i # 1 /\ j # 1
    <3>1. i - 1 = j - 1
      BY <1>2, <1>8, <1>11, <2>5
    <3> QED BY <2>2, <3>1
  <2> QED BY <2>3, <2>4, <2>5
<1> QED BY <1>1, <1>3, <1>5, <1>6, <1>10, <1>11 DEF ListsOf, IsInjective, StackPush

\* taking out what is in a list, whether it is there once or not
LEMMA RemoveType ==
    ASSUME NEW s \in Seq(Windows), NEW c \in Windows
    PROVE  /\ StackRemove(s, c) \in Seq(Windows)
           /\ StackAppend(s, c) \in Seq(Windows)
           /\ StackPush(s, c) \in Seq(Windows)
<1>1. StackRemove(s, c) \in Seq(Windows)
  <2>1. CASE c \in ToSet(s)
    <3> DEFINE P == {i \in DOMAIN s : s[i] = c}
    <3>1. DOMAIN s = 1..Len(s) /\ Len(s) \in Nat
      OBVIOUS
    <3>2. P \in SUBSET Nat /\ P # {}
      BY <2>1, <3>1 DEF ToSet
    <3>3. PICK i \in P : \A j \in P : i <= j
      BY <3>2, LeastNumber
    <3>4. s[i] = c /\ \A j \in 1..(i - 1) : s[j] # c
      <4> SUFFICES ASSUME NEW j \in 1..(i - 1), s[j] = c PROVE FALSE
        OBVIOUS
      <4>1. j \in P /\ ~(i <= j)
        BY <3>1
      <4> QED BY <3>3, <4>1
    <3>5. Place(s, c) \in DOMAIN s
      BY <3>4 DEF Place
    <3>6. PICK k \in DOMAIN s : k = Place(s, c)
      BY <3>5
    <3>7. SubSeq(s, 1, k - 1) \o SubSeq(s, k + 1, Len(s)) \in Seq(Windows)
      BY RemoveElement
    <3> QED BY <2>1, <3>6, <3>7 DEF StackRemove, RemoveAt
  <2> QED BY <2>1 DEF StackRemove
<1>2. PICK r \in Seq(Windows) : r = StackRemove(s, c)
  BY <1>1
<1>3. Append(r, c) \in Seq(Windows) /\ <<c>> \o r \in Seq(Windows)
  OBVIOUS
<1> QED BY <1>1, <1>2, <1>3 DEF StackAppend, StackPush

\* client_raise: the recursion ends, and the list keeps its clients
LEMMA RaisedList ==
    ASSUME TypeOK, Acyclic, stack \in Lists(managed), NEW c \in managed
    PROVE  Raised(c) \in Lists(managed)
<1> DEFINE X == Seq(Windows)
           body(f) == [w \in Windows |->
                         StackAppend(IF transientFor[w] = NoWindow THEN stack ELSE f[transientFor[w]], w)]
           raised == CHOOSE f : f = body(f)
<1>1. Raised(c) = raised[c]
  BY DEF Raised
<1>2. \E f : f = body(f)
  <2> DEFINE step == [p \in Windows \X X |-> StackAppend(p[2], p[1])]
  <2>1. step \in [Windows \X X -> X]
    BY RemoveType
  <2>2. stack \in X /\ transientFor \in [Windows -> Opt] /\ LoopFree(transientFor)
    BY DEF Lists, ListsOf, TypeOK, Acyclic, LoopFree
  <2>a. PICK tf \in [Windows -> Opt], st \in X, fn \in [Windows \X X -> X] :
            tf = transientFor /\ st = stack /\ fn = step
    BY <2>1, <2>2
  <2> HIDE DEF step
  <2>b. PICK f \in [Windows -> X] : \A w \in Windows :
            f[w] = fn[<<w, IF tf[w] = NoWindow THEN st ELSE f[tf[w]]>>]
    <3>1. LoopFree(tf)
      BY <2>2, <2>a
    <3> HIDE DEF X
    <3>2. Walk(tf, X, st, fn)
      BY <3>1, Walks
    <3> QED BY <3>2 DEF Walk
  <2>3. \A w \in Windows :
            f[w] = step[<<w, IF transientFor[w] = NoWindow THEN stack ELSE f[transientFor[w]]>>]
    BY <2>a, <2>b
  <2>4. ASSUME NEW w \in Windows
        PROVE  f[w] = StackAppend(IF transientFor[w] = NoWindow THEN stack ELSE f[transientFor[w]], w)
    <3> DEFINE v == IF transientFor[w] = NoWindow THEN stack ELSE f[transientFor[w]]
    <3>1. v \in X
      BY <2>2 DEF Opt
    <3>2. f[w] = step[<<w, v>>]
      BY <2>3
    <3> HIDE DEF v
    <3>3. step[<<w, v>>] = StackAppend(v, w)
      BY <3>1 DEF step
    <3> QED BY <3>2, <3>3 DEF v
  <2>5. f = body(f)
    BY <2>4
  <2> QED BY <2>5
<1>3. raised = body(raised)
  BY <1>2
<1> HIDE DEF raised
<1>4. \A w \in Windows :
        raised[w] = StackAppend(IF transientFor[w] = NoWindow THEN stack ELSE raised[transientFor[w]], w)
  BY <1>3
<1> DEFINE Bad == {w \in managed : raised[w] \notin Lists(managed)}
<1>5. Bad = {}
  <2> SUFFICES ASSUME Bad # {} PROVE FALSE
    OBVIOUS
  <2>1. Bad \in SUBSET Windows
    BY DEF TypeOK
  <2>2. PICK w \in Bad : transientFor[w] \notin Bad
    BY <2>1 DEF Acyclic
  <2>3. w \in managed /\ w \in Windows /\ transientFor[w] \in managed \cup {NoWindow}
    BY DEF TypeOK
  <2> DEFINE v == IF transientFor[w] = NoWindow THEN stack ELSE raised[transientFor[w]]
  <2>4. v \in Lists(managed)
    BY <2>2, <2>3
  <2>5. raised[w] = StackAppend(v, w)
    BY <1>4, <2>3
  <2> HIDE DEF v
  <2>6. StackAppend(v, w) \in Lists(managed \cup {w}) /\ managed \cup {w} = managed
    BY <2>3, <2>4, AppendList DEF Lists
  <2> QED BY <2>5, <2>6
<1> QED BY <1>1, <1>5

\* luaA_client_lower: likewise, from the client outwards
LEMMA LoweredList ==
    ASSUME TypeOK, Acyclic, stack \in Lists(managed), NEW c \in managed
    PROVE  Lowered(c) \in Lists(managed)
<1> DEFINE L == Seq(Windows)
           X == [L -> L]
           body(f) == [w \in Windows |-> [s \in Seq(Windows) |->
                         IF transientFor[w] = NoWindow THEN StackPush(s, w)
                         ELSE f[transientFor[w]][StackPush(s, w)]]]
           lowered == CHOOSE f : f = body(f)
<1>1. Lowered(c) = lowered[c][stack]
  BY DEF Lowered
<1>0. \A w \in Windows, s \in L : StackPush(s, w) \in L
  BY RemoveType
<1>2. \E f : f = body(f)
  <2> DEFINE start == [s \in L |-> s]
             after(w, g) == [s \in L |-> g[StackPush(s, w)]]
             step == [p \in Windows \X X |-> after(p[1], p[2])]
  <2>1. \A w \in Windows, g \in X : after(w, g) \in X
    BY <1>0
  <2>2. start \in X /\ transientFor \in [Windows -> Opt] /\ LoopFree(transientFor)
    BY DEF TypeOK, Acyclic, LoopFree
  <2>3. PICK Y : Y = X
    OBVIOUS
  <2>4. step \in [Windows \X Y -> Y] /\ start \in Y
    BY <2>1, <2>2, <2>3
  <2>a. PICK tf \in [Windows -> Opt], st \in Y, fn \in [Windows \X Y -> Y] :
            tf = transientFor /\ st = start /\ fn = step
    BY <2>2, <2>4
  <2> HIDE DEF step, start
  <2>b. PICK f \in [Windows -> Y] : \A w \in Windows :
            f[w] = fn[<<w, IF tf[w] = NoWindow THEN st ELSE f[tf[w]]>>]
    <3>1. LoopFree(tf)
      BY <2>2, <2>a
    <3>2. Walk(tf, Y, st, fn)
      BY <3>1, Walks
    <3> QED BY <3>2 DEF Walk
  <2>5. \A w \in Windows :
            f[w] = step[<<w, IF transientFor[w] = NoWindow THEN start ELSE f[transientFor[w]]>>]
    BY <2>a, <2>b
  <2>6. ASSUME NEW w \in Windows
        PROVE  f[w] = [s \in Seq(Windows) |->
                         IF transientFor[w] = NoWindow THEN StackPush(s, w)
                         ELSE f[transientFor[w]][StackPush(s, w)]]
    <3> DEFINE v == IF transientFor[w] = NoWindow THEN start ELSE f[transientFor[w]]
    <3>1. v \in X
      BY <2>2, <2>3 DEF Opt
    <3>2. f[w] = step[<<w, v>>]
      BY <2>5
    <3> HIDE DEF v
    <3>3. step[<<w, v>>] = [s \in L |-> v[StackPush(s, w)]]
      BY <3>1 DEF step
    <3>4. ASSUME NEW s \in L PROVE v[StackPush(s, w)] =
                         IF transientFor[w] = NoWindow THEN StackPush(s, w)
                         ELSE f[transientFor[w]][StackPush(s, w)]
      BY <1>0 DEF v, start
    <3> QED BY <3>2, <3>3, <3>4
  <2>7. f = body(f)
    BY <2>3, <2>6
  <2> QED BY <2>7
<1>3. lowered = body(lowered)
  BY <1>2
<1> HIDE DEF lowered
<1>4. \A w \in Windows, s \in Seq(Windows) :
        lowered[w][s] = IF transientFor[w] = NoWindow THEN StackPush(s, w)
                        ELSE lowered[transientFor[w]][StackPush(s, w)]
  BY <1>3
<1> DEFINE Bad == {w \in managed : \E s \in Lists(managed) : lowered[w][s] \notin Lists(managed)}
<1>5. Bad = {}
  <2> SUFFICES ASSUME Bad # {} PROVE FALSE
    OBVIOUS
  <2>1. Bad \in SUBSET Windows
    BY DEF TypeOK
  <2>2. PICK w \in Bad : transientFor[w] \notin Bad
    BY <2>1 DEF Acyclic
  <2>3. w \in managed /\ w \in Windows /\ transientFor[w] \in managed \cup {NoWindow}
    BY DEF TypeOK
  <2>4. PICK s \in Lists(managed) : lowered[w][s] \notin Lists(managed)
    OBVIOUS
  <2>5. StackPush(s, w) \in Lists(managed \cup {w}) /\ managed \cup {w} = managed
    BY <2>3, PushList DEF Lists
  <2>6. s \in Seq(Windows)
    BY DEF Lists, ListsOf
  <2>7. lowered[w][s] = IF transientFor[w] = NoWindow THEN StackPush(s, w)
                        ELSE lowered[transientFor[w]][StackPush(s, w)]
    BY <1>4, <2>3, <2>6
  <2>8. PICK p \in Lists(managed) : p = StackPush(s, w)
    BY <2>5
  <2>9. transientFor[w] # NoWindow => lowered[transientFor[w]][p] \in Lists(managed)
    BY <2>2, <2>3
  <2> QED BY <2>4, <2>7, <2>8, <2>9
<1> QED BY <1>1, <1>5

\* The list holds the managed clients, each once.
LEMMA StackKept == Spec => [](stack \in Lists(managed))
<1> DEFINE Kept == stack \in Lists(managed)
<1>1. Init => Kept
  BY DEF Init, Lists, ListsOf, ToSet, IsInjective
<1>2. TypeOK /\ Acyclic /\ Kept /\ [Next]_vars => Kept'
  <2> SUFFICES ASSUME TypeOK, Acyclic, Kept, [Next]_vars PROVE Kept'
    OBVIOUS
  <2>0. managed \subseteq Windows
    BY DEF TypeOK
  <2>1. ASSUME NEW c \in Windows, NEW w, NEW l, NEW desk, Manage(c, w, l, desk) PROVE Kept'
    BY <2>1, PushList DEF Manage, Lists
  <2>2. ASSUME NEW c \in Windows, Unmanage(c) PROVE Kept'
    BY <2>2, RemoveList DEF Unmanage, Lists
  <2>3. ASSUME NEW c \in Windows, Raise(c) PROVE Kept'
    BY <2>3, RaisedList DEF Raise
  <2>4. ASSUME NEW c \in Windows, Lower(c) PROVE Kept'
    BY <2>4, LoweredList DEF Lower
  <2>5. CASE UNCHANGED <<managed, stack>>
    BY <2>5
  <2>6. ASSUME NEW c \in Windows, Unmanaged(c) PROVE UNCHANGED <<managed, stack>>
    BY <2>6 DEF Unmanaged
  <2>7. ASSUME NEW c \in Windows, NEW w \in Opt, UpdateTransientFor(c, w) PROVE UNCHANGED <<managed, stack>>
    BY <2>7 DEF UpdateTransientFor
  <2>8. ASSUME NEW c \in Opt, Focus(c) PROVE UNCHANGED <<managed, stack>>
    BY <2>8 DEF Focus
  <2>9. ASSUME NEW d \in Drawins, ShowDrawin(d) \/ HideDrawin(d) \/ SetDrawinOntop(d)
        PROVE  UNCHANGED <<managed, stack>>
    BY <2>9 DEF ShowDrawin, HideDrawin, SetDrawinOntop
  <2>10. ASSUME NEW c \in Windows, NEW l \in Layers, NEW on \in BOOLEAN, SetLayer(c, l, on)
         PROVE  UNCHANGED <<managed, stack>>
    BY <2>10 DEF SetLayer
  <2>11. StackRefresh \/ UNCHANGED vars => UNCHANGED <<managed, stack>>
    BY DEF StackRefresh, vars
  <2> QED
    BY <2>1, <2>2, <2>3, <2>4, <2>5, <2>6, <2>7, <2>8, <2>9, <2>10, <2>11 DEF Next
<1> QED
  BY <1>1, <1>2, StackingTypes, TransientsAcyclic, PTL DEF Spec

\* Every managed client is in the list, once, and nothing else is.
THEOREM StackHolds == Spec => []StackHoldsManaged
<1>1. stack \in Lists(managed) => StackHoldsManaged
  BY DEF Lists, ListsOf, StackHoldsManaged
<1> QED
  BY <1>1, StackKept, PTL

-----------------------------------------------------------------------------
(* The order of X: where a window is in a list, and before which others. *)

\* an element in front of the place k
LEMMA InsertElement ==
    ASSUME NEW T, NEW q \in Seq(T), NEW k \in 1..(Len(q) + 1), NEW e \in T
    PROVE  LET r == InsertAt(q, k, e)
           IN  /\ r \in Seq(T) /\ Len(r) = Len(q) + 1
               /\ \A j \in DOMAIN r : r[j] = IF j < k THEN q[j] ELSE IF j = k THEN e ELSE q[j - 1]
<1> DEFINE n == Len(q)
<1>1. n \in Nat /\ DOMAIN q = 1..n /\ k \in 1..(n + 1) /\ \A j \in 1..n : q[j] \in T
  OBVIOUS
<1>2. PICK a : a = SubSeq(q, 1, k - 1)
  OBVIOUS
<1>3. PICK b : b = SubSeq(q, k, n)
  OBVIOUS
<1> HIDE DEF n
<1>4. a \in Seq(T) /\ Len(a) = k - 1 /\ \A j \in 1..(k - 1) : a[j] = q[j]
  <2>1. PICK m \in Int : m = k - 1
    BY <1>1
  <2>2. \A j \in 1..m : q[j] \in T
    BY <1>1, <2>1
  <2>3. /\ SubSeq(q, 1, m) \in Seq(T) /\ Len(SubSeq(q, 1, m)) = (IF 1 <= m THEN m - 1 + 1 ELSE 0)
        /\ \A j \in 1..m - 1 + 1 : SubSeq(q, 1, m)[j] = q[1 + j - 1]
    BY <2>2, SubSeqProperties
  <2>4. m - 1 + 1 = m /\ m >= 0 /\ \A j \in 1..m : 1 + j - 1 = j
    BY <1>1, <2>1
  <2>5. a \in Seq(T) /\ Len(a) = m /\ \A j \in 1..m : a[j] = q[j]
    BY <1>2, <2>1, <2>3, <2>4
  <2> QED BY <2>1, <2>5
<1>5. b \in Seq(T) /\ Len(b) = n - k + 1 /\ \A j \in 1..(n - k + 1) : b[j] = q[k + j - 1]
  <2>1. PICK m \in Int, z \in Int : m = k /\ z = n
    BY <1>1
  <2>2. \A j \in m..z : q[j] \in T
    BY <1>1, <2>1
  <2>3. /\ SubSeq(q, m, z) \in Seq(T) /\ Len(SubSeq(q, m, z)) = (IF m <= z THEN z - m + 1 ELSE 0)
        /\ \A j \in 1..z - m + 1 : SubSeq(q, m, z)[j] = q[m + j - 1]
    BY <2>2, SubSeqProperties
  <2>4. (IF m <= z THEN z - m + 1 ELSE 0) = n - k + 1
    BY <1>1, <2>1
  <2> QED BY <1>3, <2>1, <2>3, <2>4
<1>6. PICK o : o = <<e>>
  OBVIOUS
<1>7. o \in Seq(T) /\ Len(o) = 1 /\ o[1] = e
  BY <1>6
<1>8. PICK c : c = a \o o
  OBVIOUS
<1>9. c \in Seq(T) /\ Len(c) = k /\ \A j \in 1..k : c[j] = IF j < k THEN q[j] ELSE e
  <2>1. /\ c \in Seq(T) /\ Len(c) = Len(a) + Len(o)
        /\ \A j \in 1..Len(a) + Len(o) : c[j] = IF j <= Len(a) THEN a[j] ELSE o[j - Len(a)]
    BY <1>4, <1>7, <1>8, ConcatProperties
  <2>2. Len(a) + Len(o) = k
    BY <1>1, <1>4, <1>7
  <2>3. ASSUME NEW j \in 1..k PROVE c[j] = IF j < k THEN q[j] ELSE e
    <3>1. CASE j < k
      <4>1. j <= Len(a) /\ j \in 1..(k - 1)
        BY <1>1, <1>4, <3>1
      <4> QED BY <1>4, <2>1, <2>2, <3>1, <4>1
    <3>2. CASE ~(j < k)
      <4>1. j = k /\ ~(j <= Len(a)) /\ j - Len(a) = 1
        BY <1>1, <1>4, <3>2
      <4> QED BY <1>7, <2>1, <2>2, <3>2, <4>1
    <3> QED BY <3>1, <3>2
  <2> QED BY <2>1, <2>2, <2>3
<1>10. PICK r : r = c \o b
  OBVIOUS
<1>11. r \in Seq(T) /\ Len(r) = n + 1 /\ \A j \in 1..(n + 1) : r[j] = IF j < k THEN q[j] ELSE IF j = k THEN e ELSE q[j - 1]
  <2>1. /\ r \in Seq(T) /\ Len(r) = Len(c) + Len(b)
        /\ \A j \in 1..Len(c) + Len(b) : r[j] = IF j <= Len(c) THEN c[j] ELSE b[j - Len(c)]
    BY <1>5, <1>9, <1>10, ConcatProperties
  <2>2. Len(c) + Len(b) = n + 1
    BY <1>1, <1>5, <1>9
  <2>3. ASSUME NEW j \in 1..(n + 1) PROVE r[j] = IF j < k THEN q[j] ELSE IF j = k THEN e ELSE q[j - 1]
    <3>1. CASE j <= k
      <4>1. j \in 1..k /\ j <= Len(c) /\ (~(j < k) => j = k)
        BY <1>1, <1>9, <3>1
      <4> QED BY <1>9, <2>1, <2>2, <4>1
    <3>2. CASE ~(j <= k)
      <4>1. j - k \in 1..(n - k + 1) /\ ~(j <= Len(c)) /\ k + (j - k) - 1 = j - 1 /\ ~(j < k) /\ j # k
        BY <1>1, <1>9, <3>2
      <4> QED BY <1>5, <1>9, <2>1, <2>2, <4>1
    <3> QED BY <3>1, <3>2
  <2> QED BY <2>1, <2>2, <2>3
<1>12. InsertAt(q, k, e) = r
  BY <1>2, <1>3, <1>6, <1>8, <1>10 DEF InsertAt, n
<1>13. DOMAIN r = 1..(n + 1)
  BY <1>1, <1>11
<1> QED BY <1>11, <1>12, <1>13 DEF n

\* where a window is
LEMMA PlaceRight ==
    ASSUME NEW T, NEW C, NEW s \in ListsOf(T, C), NEW c \in C
    PROVE  Place(s, c) \in DOMAIN s /\ s[Place(s, c)] = c
<1>1. PICK i \in DOMAIN s : s[i] = c
  BY DEF ListsOf, ToSet
<1>2. \A j \in 1..(i - 1) : s[j] # c
  <2>1. \A j \in 1..(i - 1) : j \in DOMAIN s /\ j # i
    BY DEF ListsOf
  <2> QED BY <1>1, <2>1 DEF ListsOf, IsInjective
<1> QED BY <1>1, <1>2 DEF Place

LEMMA PlacesPrecede ==
    ASSUME NEW T, NEW C, NEW s \in ListsOf(T, C), NEW u \in C, NEW v \in C
    PROVE  Precedes(s, u, v) <=> Place(s, u) < Place(s, v)
<1>1. PICK i, j : i = Place(s, u) /\ j = Place(s, v)
  OBVIOUS
<1>2. i \in DOMAIN s /\ j \in DOMAIN s /\ s[i] = u /\ s[j] = v
  BY <1>1, PlaceRight
<1>3. \A k \in DOMAIN s : (s[k] = u => k = i) /\ (s[k] = v => k = j)
  BY <1>2 DEF ListsOf, IsInjective
<1> QED BY <1>1, <1>2, <1>3 DEF Precedes

\* the others keep their order
LEMMA RemoveOrder ==
    ASSUME NEW T, NEW C, NEW s \in ListsOf(T, C), NEW c \in C, NEW u, NEW v, u # c, v # c, Precedes(s, u, v)
    PROVE  Precedes(StackRemove(s, c), u, v)
<1>1. PICK i : i = Place(s, c)
  OBVIOUS
<1>2. i \in DOMAIN s /\ s[i] = c
  BY <1>1, PlaceRight
<1>3. PICK r : r = SubSeq(s, 1, i - 1) \o SubSeq(s, i + 1, Len(s))
  OBVIOUS
<1>4. StackRemove(s, c) = r
  BY <1>1, <1>3 DEF StackRemove, RemoveAt, ListsOf
<1>5. /\ s \in Seq(T) /\ r \in Seq(T) /\ Len(r) = Len(s) - 1
      /\ \A j \in DOMAIN r : r[j] = IF j < i THEN s[j] ELSE s[j + 1]
  <2>1. s \in Seq(T)
    BY DEF ListsOf
  <2> QED BY <1>2, <1>3, <2>1, RemoveElement
<1>6. DOMAIN s = 1..Len(s) /\ Len(s) \in Nat /\ DOMAIN r = 1..(Len(s) - 1)
  BY <1>5
<1>7. PICK x \in DOMAIN s, y \in DOMAIN s : x < y /\ s[x] = u /\ s[y] = v
  BY DEF Precedes
<1> DEFINE to(k) == IF k < i THEN k ELSE k - 1
<1>8. ASSUME NEW k \in DOMAIN s, k # i PROVE to(k) \in DOMAIN r /\ r[to(k)] = s[k]
  <2>1. to(k) \in DOMAIN r
    BY <1>2, <1>6, <1>8
  <2>2. CASE k < i
    BY <1>5, <2>1, <2>2
  <2>3. CASE ~(k < i)
    <3>1. ~(k - 1 < i) /\ (k - 1) + 1 = k /\ to(k) = k - 1
      BY <1>2, <1>6, <1>8, <2>3
    <3> QED BY <1>5, <2>1, <3>1
  <2> QED BY <2>2, <2>3
<1>9. x # i /\ y # i
  BY <1>2, <1>7
<1>10. to(x) < to(y)
  BY <1>2, <1>6, <1>7, <1>9
<1> HIDE DEF to
<1> QED BY <1>4, <1>7, <1>8, <1>9, <1>10 DEF Precedes

\* stack_window_above: the window comes right after the one below it
LEMMA PutAboveRight ==
    ASSUME NEW T, NEW C, NEW s \in ListsOf(T, C), NEW w \in C, NEW p \in C, w # p
    PROVE  LET r == PutAbove(s, w, p)
           IN  /\ r \in ListsOf(T, C) /\ Precedes(r, p, w)
               /\ \A u, v \in C \ {w} : Precedes(s, u, v) => Precedes(r, u, v)
               /\ \A u \in C \ {w} : Precedes(s, u, p) => Precedes(r, u, w)
<1>1. PICK q : q = StackRemove(s, w)
  OBVIOUS
<1>2. q \in ListsOf(T, C \ {w}) /\ \A u, v \in C \ {w} : Precedes(s, u, v) => Precedes(q, u, v)
  BY <1>1, RemoveList, RemoveOrder
<1>3. q \in Seq(T) /\ ToSet(q) = C \ {w} /\ (\A i, j \in DOMAIN q : q[i] = q[j] => i = j) /\ w \in T
  BY <1>2 DEF ListsOf, ToSet, IsInjective
<1>4. PICK k : k = Place(q, p) + 1
  OBVIOUS
<1>5. k - 1 \in DOMAIN q /\ q[k - 1] = p /\ k \in 1..(Len(q) + 1)
  <2>1. PICK i : i = Place(q, p)
    OBVIOUS
  <2>2. i \in DOMAIN q /\ q[i] = p
    <3>1. p \in C \ {w}
      OBVIOUS
    <3> QED BY <1>2, <2>1, <3>1, PlaceRight
  <2>3. k = i + 1 /\ DOMAIN q = 1..Len(q) /\ Len(q) \in Nat
    BY <1>3, <1>4, <2>1
  <2>4. k - 1 = i /\ k \in 1..(Len(q) + 1)
    BY <2>2, <2>3
  <2> QED BY <2>2, <2>4
<1>6. PICK r : r = InsertAt(q, k, w)
  OBVIOUS
<1>7. /\ r \in Seq(T) /\ Len(r) = Len(q) + 1
      /\ \A j \in DOMAIN r : r[j] = IF j < k THEN q[j] ELSE IF j = k THEN w ELSE q[j - 1]
  BY <1>3, <1>5, <1>6, InsertElement
<1>8. PutAbove(s, w, p) = r
  BY <1>1, <1>4, <1>6 DEF PutAbove
<1>9. DOMAIN r = 1..(Len(q) + 1) /\ DOMAIN q = 1..Len(q) /\ Len(q) \in Nat
  BY <1>3, <1>7
<1> DEFINE to(j) == IF j < k THEN j ELSE j + 1
           from(j) == IF j < k THEN j ELSE j - 1
<1>10. ASSUME NEW j \in DOMAIN q PROVE to(j) \in DOMAIN r /\ to(j) # k /\ r[to(j)] = q[j]
  <2>1. to(j) \in DOMAIN r /\ to(j) # k
    BY <1>5, <1>9
  <2>2. CASE j < k
    BY <1>7, <2>1, <2>2
  <2>3. CASE ~(j < k)
    <3>1. ~(j + 1 < k) /\ (j + 1) - 1 = j /\ to(j) = j + 1 /\ j + 1 # k
      BY <1>5, <1>9, <2>3
    <3> QED BY <1>7, <2>1, <3>1
  <2> QED BY <2>2, <2>3
<1>11. ASSUME NEW j \in DOMAIN r, j # k PROVE from(j) \in DOMAIN q /\ r[j] = q[from(j)] /\ j = to(from(j))
  <2>1. from(j) \in DOMAIN q /\ j = to(from(j))
    BY <1>5, <1>9, <1>11
  <2> QED BY <1>7, <1>11, <2>1
<1>12. k \in DOMAIN r /\ r[k] = w
  <2>1. k \in DOMAIN r /\ ~(k < k)
    BY <1>5, <1>9
  <2> QED BY <1>7, <2>1
<1>13. \A i, j \in DOMAIN q : i < j => to(i) < to(j)
  BY <1>5, <1>9
<1>14. k - 1 < k /\ \A i \in DOMAIN q : i <= k - 1 => to(i) < k
  BY <1>5, <1>9
<1> HIDE DEF to, from
<1>15. r \in ListsOf(T, C)
  <2>1. ToSet(r) = C
    <3>1. ToSet(r) \subseteq C
      <4>1. ASSUME NEW j \in DOMAIN r PROVE r[j] \in C
        <5>1. CASE j = k
          BY <1>12, <5>1
        <5>2. CASE j # k
          BY <1>3, <1>11, <5>2 DEF ToSet
        <5> QED BY <5>1, <5>2
      <4> QED BY <4>1 DEF ToSet
    <3>2. ASSUME NEW x \in C PROVE x \in ToSet(r)
      <4>1. CASE x = w
        BY <1>12, <4>1 DEF ToSet
      <4>2. CASE x # w
        <5>1. PICK j \in DOMAIN q : q[j] = x
          BY <1>3, <4>2 DEF ToSet
        <5> QED BY <1>10, <5>1 DEF ToSet
      <4> QED BY <4>1, <4>2
    <3> QED BY <3>1, <3>2
  <2>2. ASSUME NEW i \in DOMAIN r, NEW j \in DOMAIN r, r[i] = r[j] PROVE i = j
    <3>1. \A x \in DOMAIN q : q[x] # w
      BY <1>3 DEF ToSet
    <3>2. CASE i = k \/ j = k
      BY <1>11, <1>12, <2>2, <3>1, <3>2
    <3>3. CASE i # k /\ j # k
      <4>1. from(i) = from(j)
        BY <1>3, <1>11, <2>2, <3>3
      <4> QED BY <1>11, <3>3, <4>1
    <3> QED BY <3>2, <3>3
  <2> QED BY <1>7, <2>1, <2>2 DEF ListsOf, IsInjective
<1>16. ASSUME NEW u, NEW v, Precedes(q, u, v) PROVE Precedes(r, u, v)
  <2>1. PICK i \in DOMAIN q, j \in DOMAIN q : i < j /\ q[i] = u /\ q[j] = v
    BY <1>16 DEF Precedes
  <2> QED BY <1>10, <1>13, <2>1 DEF Precedes
<1>17. Precedes(r, p, w)
  BY <1>5, <1>9, <1>10, <1>12, <1>14 DEF Precedes
<1>18. ASSUME NEW u \in C \ {w}, Precedes(s, u, p) PROVE Precedes(r, u, w)
  <2>1. PICK i \in DOMAIN q, j \in DOMAIN q : i < j /\ q[i] = u /\ q[j] = p
    BY <1>2, <1>18 DEF Precedes
  <2>2. j = k - 1
    BY <1>3, <1>5, <2>1
  <2>3. i <= k - 1
    BY <1>9, <2>1, <2>2
  <2> QED BY <1>10, <1>12, <1>14, <2>1, <2>3 DEF Precedes
<1> QED BY <1>2, <1>8, <1>15, <1>16, <1>17, <1>18

\* Every time u occurs in V, v occurs later on.
Ends(V, u, v) == \E j \in DOMAIN V : V[j] = v /\ \A i \in DOMAIN V : i >= j => V[i] # u

\* stack_refresh, a window after another: X ends up with the windows it visits
\* in the order of their last visits, and with all the windows it had
LEMMA RestackedRight ==
    ASSUME NEW T, NEW C, NEW order \in ListsOf(T, C), NEW V \in Seq(C)
    PROVE  /\ Restacked(order, V) \in ListsOf(T, C)
           /\ \A u, v : u # v /\ u \in ToSet(V) /\ Ends(V, u, v) => Precedes(Restacked(order, V), u, v)
<1> DEFINE n == Len(V)
           X == ListsOf(T, C)
           body(f) == [i \in 0..n |-> IF i <= 1 THEN order ELSE PutAbove(f[i - 1], V[i], V[i - 1])]
           after == CHOOSE f : f = body(f)
<1>1. n \in Nat /\ DOMAIN V = 1..n /\ \A i \in 1..n : V[i] \in C
  OBVIOUS
<1>2. Restacked(order, V) = after[n]
  BY DEF Restacked
<1>3. ASSUME NEW x \in X, NEW w \in C, NEW p \in C PROVE PutAbove(x, w, p) \in X
  <2>1. CASE w = p
    BY <2>1 DEF PutAbove
  <2>2. CASE w # p
    BY <2>2, PutAboveRight
  <2> QED BY <2>1, <2>2
<1> HIDE DEF n
<1>4. \E f : f = body(f)
  <2> DEFINE step == [a \in (1..n) \X X |->
                         IF a[1] <= 1 THEN a[2] ELSE PutAbove(a[2], V[a[1]], V[a[1] - 1])]
  <2>1. ASSUME NEW i \in 1..n, NEW x \in X
        PROVE  (IF i <= 1 THEN x ELSE PutAbove(x, V[i], V[i - 1])) \in X
    <3>1. ~(i <= 1) => V[i] \in C /\ V[i - 1] \in C
      <4>1. ~(i <= 1) => i - 1 \in 1..n
        BY <1>1
      <4> QED BY <1>1, <4>1
    <3> QED BY <1>3, <3>1
  <2> HIDE DEF X
  <2>2. step \in [(1..n) \X X -> X] /\ order \in X
    BY <2>1 DEF X
  <2>3. \A i \in 1..n, x \in X : step[<<i, x>>] = IF i <= 1 THEN x ELSE PutAbove(x, V[i], V[i - 1])
    OBVIOUS
  <2> HIDE DEF step
  <2>4. PICK f \in [0..n -> X] : Steps(n, order, step, f)
    BY <1>1, <2>2, NumberRecursion
  <2>5. f[0] = order /\ \A i \in 1..n : f[i] = IF i <= 1 THEN f[i - 1] ELSE PutAbove(f[i - 1], V[i], V[i - 1])
    <3>1. \A i \in 1..n : f[i] = step[<<i, f[i - 1]>>] /\ f[i - 1] \in X
      <4>1. \A i \in 1..n : i - 1 \in 0..n
        BY <1>1
      <4> QED BY <2>4, <4>1 DEF Steps
    <3>2. ASSUME NEW i \in 1..n
          PROVE  f[i] = IF i <= 1 THEN f[i - 1] ELSE PutAbove(f[i - 1], V[i], V[i - 1])
      <4>1. PICK x \in X : x = f[i - 1]
        BY <3>1
      <4>2. f[i] = step[<<i, x>>]
        BY <3>1, <4>1
      <4> QED BY <2>3, <4>1, <4>2
    <3>3. f[0] = order
      BY <2>4 DEF Steps
    <3> QED BY <3>2, <3>3
  <2>6. ASSUME NEW i \in 0..n PROVE f[i] = IF i <= 1 THEN order ELSE PutAbove(f[i - 1], V[i], V[i - 1])
    <3>1. CASE i = 0
      BY <2>5, <3>1
    <3>2. CASE i = 1
      <4>1. 1 \in 1..n /\ 1 <= 1 /\ 1 - 1 = 0
        BY <1>1, <3>2
      <4> QED BY <2>5, <3>2, <4>1
    <3>3. CASE i # 0 /\ i # 1
      <4>1. i \in 1..n /\ ~(i <= 1)
        BY <1>1, <3>3
      <4> QED BY <2>5, <4>1
    <3> QED BY <3>1, <3>2, <3>3
  <2>7. f = body(f)
    BY <2>6
  <2> QED BY <2>7
<1>5. after = body(after)
  BY <1>4
<1> HIDE DEF after
<1>6. \A i \in 0..n : after[i] = IF i <= 1 THEN order ELSE PutAbove(after[i - 1], V[i], V[i - 1])
  BY <1>5
<1> DEFINE Earlier(k, u, v) == /\ u # v
                               /\ \E i \in 1..k : V[i] = u
                               /\ \E j \in 1..k : V[j] = v /\ \A i \in 1..k : i >= j => V[i] # u
           P == {k \in 0..n : after[k] \in X /\ \A u, v \in C : Earlier(k, u, v) => Precedes(after[k], u, v)}
<1>7. 0 \in P
  BY <1>1, <1>6
<1>8. ASSUME NEW k \in 1..n, k - 1 \in P PROVE k \in P
  <2>1. k \in Nat /\ k \in 0..n /\ after[k - 1] \in X
        /\ \A u, v \in C : Earlier(k - 1, u, v) => Precedes(after[k - 1], u, v)
    BY <1>1, <1>8
  <2>2. CASE k = 1
    <3>1. after[k] = order
      BY <1>6, <2>1, <2>2
    <3>2. \A u, v : ~Earlier(k, u, v)
      BY <2>2
    <3> QED BY <2>1, <3>1, <3>2
  <2>3. CASE k # 1
    <3>1. PICK w, p, s : w = V[k] /\ p = V[k - 1] /\ s = after[k - 1]
      OBVIOUS
    <3>2. k - 1 \in 1..n /\ ~(k <= 1) /\ \A i \in 1..k : i \in 1..(k - 1) \/ i = k
      BY <1>1, <2>1, <2>3
    <3>3. w \in C /\ p \in C /\ s \in ListsOf(T, C) /\ after[k] = PutAbove(s, w, p)
      BY <1>1, <1>6, <2>1, <3>1, <3>2
    <3>4. CASE w = p
      <4>1. after[k] = s
        BY <3>3, <3>4 DEF PutAbove
      <4>2. ASSUME NEW u \in C, NEW v \in C, Earlier(k, u, v) PROVE Earlier(k - 1, u, v)
        <5>1. \E i \in 1..(k - 1) : V[i] = u
          BY <3>1, <3>2, <3>4, <4>2
        <5>2. PICK j \in 1..k : V[j] = v /\ \A i \in 1..k : i >= j => V[i] # u
          BY <4>2
        <5>3. \A i \in 1..(k - 1) : i \in 1..k /\ (i >= k - 1 => i = k - 1)
          BY <2>1
        <5>4. CASE j = k
          <6>1. V[k - 1] = v /\ k - 1 \in 1..(k - 1) /\ u # v
            <7>1. V[k] = v /\ V[k] = V[k - 1]
              BY <3>1, <3>4, <5>2, <5>4
            <7>2. k - 1 \in 1..(k - 1)
              BY <1>1, <2>1, <3>2
            <7> QED BY <4>2, <7>1, <7>2
          <6>2. \A i \in 1..(k - 1) : i >= k - 1 => V[i] # u
            BY <5>3, <6>1
          <6>3. PICK m \in 1..(k - 1) : m = k - 1
            BY <6>1
          <6>4. V[m] = v /\ \A i \in 1..(k - 1) : i >= m => V[i] # u
            BY <6>1, <6>2, <6>3
          <6> QED BY <5>1, <6>1, <6>4
        <5>5. CASE j # k
          <6>1. j \in 1..(k - 1)
            BY <3>2, <5>5
          <6>2. \A i \in 1..(k - 1) : i >= j => V[i] # u
            BY <5>2, <5>3
          <6> QED BY <4>2, <5>1, <5>2, <6>1, <6>2
        <5> QED BY <5>4, <5>5
      <4> QED BY <2>1, <3>1, <4>1, <4>2
    <3>5. CASE w # p
      <4>1. PICK r : r = PutAbove(s, w, p)
        OBVIOUS
      <4>2. /\ r \in ListsOf(T, C) /\ Precedes(r, p, w)
            /\ \A u, v \in C \ {w} : Precedes(s, u, v) => Precedes(r, u, v)
            /\ \A u \in C \ {w} : Precedes(s, u, p) => Precedes(r, u, w)
        BY <3>3, <3>5, <4>1, PutAboveRight
      <4>3. ASSUME NEW u \in C, NEW v \in C, Earlier(k, u, v) PROVE Precedes(r, u, v)
        <5>1. PICK i \in 1..k : V[i] = u
          BY <4>3
        <5>2. PICK j \in 1..k : V[j] = v /\ \A m \in 1..k : m >= j => V[m] # u
          BY <4>3
        <5>3. u # w
          <6>1. k \in 1..k /\ k >= j
            BY <2>1, <3>2
          <6> QED BY <3>1, <5>2, <6>1
        <5>4. i \in 1..(k - 1)
          BY <3>1, <3>2, <5>1, <5>3
        <5>5. \A m \in 1..(k - 1) : m \in 1..k
          BY <2>1
        <5>6. CASE v # w
          <6>1. j \in 1..(k - 1)
            BY <3>1, <3>2, <5>2, <5>6
          <6>2. Earlier(k - 1, u, v)
            BY <4>3, <5>1, <5>2, <5>4, <5>5, <6>1
          <6> QED BY <2>1, <3>1, <4>2, <5>3, <5>6, <6>2
        <5>7. CASE v = w /\ u = p
          BY <4>2, <5>7
        <5>8. CASE v = w /\ u # p
          <6>1. k - 1 \in 1..(k - 1) /\ \A m \in 1..(k - 1) : m >= k - 1 => m = k - 1
            BY <2>1, <3>2
          <6>2. Earlier(k - 1, u, p)
            BY <3>1, <5>1, <5>4, <5>8, <6>1
          <6>3. Precedes(s, u, p)
            BY <2>1, <3>1, <3>3, <6>2
          <6> QED BY <4>2, <5>3, <5>8, <6>3
        <5> QED BY <5>6, <5>7, <5>8
      <4> QED BY <2>1, <3>3, <4>1, <4>2, <4>3
    <3> QED BY <3>4, <3>5
  <2> QED BY <2>2, <2>3
<1> HIDE DEF P
<1>9. n \in P
  <2>1. P \in SUBSET (0..n) /\ n \in 0..n
    BY <1>1 DEF P
  <2> QED BY <1>1, <1>7, <1>8, <2>1, NumberInduction
<1>10. ASSUME NEW u, NEW v, u # v, u \in ToSet(V), Ends(V, u, v) PROVE u \in C /\ v \in C /\ Earlier(n, u, v)
  BY <1>1, <1>10 DEF Ends, ToSet
<1> QED BY <1>2, <1>9, <1>10 DEF P

-----------------------------------------------------------------------------
(* Lists put together: what is in them, and in which order it is visited. *)

\* Each time u occurs in V, v occurs later.
Followed(V, u, v) == \A i \in DOMAIN V : V[i] = u => \E j \in DOMAIN V : i < j /\ V[j] = v

LEMMA ConcatRight ==
    ASSUME NEW C, NEW A \in Seq(C), NEW B \in Seq(C)
    PROVE  /\ A \o B \in Seq(C) /\ ToSet(A \o B) = ToSet(A) \cup ToSet(B)
           /\ \A u, v : Ends(B, u, v) \/ (u \notin ToSet(B) /\ Ends(A, u, v)) => Ends(A \o B, u, v)
           /\ \A u, v : Followed(B, u, v) /\ (v \in ToSet(B) \/ Followed(A, u, v)) => Followed(A \o B, u, v)
<1> DEFINE r == A \o B
<1>1. /\ r \in Seq(C) /\ Len(A) \in Nat /\ Len(B) \in Nat /\ DOMAIN A = 1..Len(A) /\ DOMAIN B = 1..Len(B)
      /\ DOMAIN r = 1..(Len(A) + Len(B))
      /\ \A i \in 1..(Len(A) + Len(B)) : r[i] = IF i <= Len(A) THEN A[i] ELSE B[i - Len(A)]
  BY ConcatProperties
<1> HIDE DEF r
<1>2. ToSet(r) = ToSet(A) \cup ToSet(B)
  <2>1. Elements(r) = Elements(A) \cup Elements(B)
    BY ConcatElements DEF r
  <2> QED BY <2>1 DEF ToSet, Elements
<1> DEFINE m == Len(A)
           n == Len(B)
<1>3. /\ m \in Nat /\ n \in Nat /\ DOMAIN A = 1..m /\ DOMAIN B = 1..n /\ DOMAIN r = 1..(m + n)
      /\ \A i \in 1..(m + n) : r[i] = IF i <= m THEN A[i] ELSE B[i - m]
  BY <1>1
<1> HIDE DEF m, n
<1>4. \A i \in DOMAIN A : i \in DOMAIN r /\ i \in Int /\ i <= m /\ r[i] = A[i]
  BY <1>3
<1>5. ASSUME NEW i \in DOMAIN B PROVE i + m \in DOMAIN r /\ i + m \in Int /\ i + m > m /\ r[i + m] = B[i]
  <2>1. i + m \in 1..(m + n) /\ ~(i + m <= m) /\ (i + m) - m = i
    BY <1>3
  <2> QED BY <1>3, <2>1
<1>6. ASSUME NEW i \in DOMAIN r, i > m
      PROVE  i \in Int /\ i - m \in DOMAIN B /\ r[i] = B[i - m] /\ (i - m) + m = i
  <2>1. i \in 1..(m + n) /\ ~(i <= m) /\ i - m \in 1..n
    BY <1>3, <1>6
  <2> QED BY <1>3, <2>1
<1>7. \A i \in DOMAIN r : i \in Int /\ (i > m \/ (i \in DOMAIN A /\ r[i] = A[i]))
  BY <1>3
<1>8. ASSUME NEW u, NEW v, Ends(B, u, v) PROVE Ends(r, u, v)
  <2>1. PICK j \in DOMAIN B : B[j] = v /\ \A i \in DOMAIN B : i >= j => B[i] # u
    BY <1>8 DEF Ends
  <2>2. ASSUME NEW i \in DOMAIN r, i >= j + m PROVE r[i] # u
    <3>1. i > m /\ j \in Int /\ m \in Int /\ i \in Int
      BY <1>3, <1>5, <1>7, <2>2
    <3>2. i - m \in DOMAIN B /\ r[i] = B[i - m]
      BY <1>6, <3>1
    <3>3. i - m >= j
      BY <2>2, <3>1
    <3> QED BY <2>1, <3>2, <3>3
  <2>3. j + m \in DOMAIN r /\ r[j + m] = v
    BY <1>5, <2>1
  <2> QED BY <2>2, <2>3 DEF Ends
<1>9. ASSUME NEW u, NEW v, u \notin ToSet(B), Ends(A, u, v) PROVE Ends(r, u, v)
  <2>1. PICK j \in DOMAIN A : A[j] = v /\ \A i \in DOMAIN A : i >= j => A[i] # u
    BY <1>9 DEF Ends
  <2>2. ASSUME NEW i \in DOMAIN r, i >= j PROVE r[i] # u
    <3>1. CASE i > m
      <4>1. i - m \in DOMAIN B /\ r[i] = B[i - m]
        BY <1>6, <3>1
      <4> QED BY <1>9, <4>1 DEF ToSet
    <3>2. CASE ~(i > m)
      BY <1>7, <2>1, <2>2, <3>2
    <3> QED BY <3>1, <3>2
  <2>3. j \in DOMAIN r /\ r[j] = v
    BY <1>4, <2>1
  <2> QED BY <2>2, <2>3 DEF Ends
<1>10. ASSUME NEW u, NEW v, Followed(B, u, v), v \in ToSet(B) \/ Followed(A, u, v) PROVE Followed(r, u, v)
  <2> SUFFICES ASSUME NEW i \in DOMAIN r, r[i] = u PROVE \E j \in DOMAIN r : i < j /\ r[j] = v
    BY DEF Followed
  <2>1. CASE i > m
    <3>1. i - m \in DOMAIN B /\ B[i - m] = u /\ (i - m) + m = i /\ i \in Int
      BY <1>6, <2>1
    <3>2. PICK k \in DOMAIN B : i - m < k /\ B[k] = v
      BY <1>10, <3>1 DEF Followed
    <3>3. k + m \in DOMAIN r /\ r[k + m] = v /\ k + m \in Int
      BY <1>5, <3>2
    <3>4. i < k + m
      BY <1>3, <3>1, <3>2
    <3> QED BY <3>3, <3>4
  <2>2. CASE ~(i > m) /\ v \in ToSet(B)
    <3>1. PICK k \in DOMAIN B : B[k] = v
      BY <2>2 DEF ToSet
    <3>2. k + m \in DOMAIN r /\ r[k + m] = v /\ i < k + m
      <4>1. k + m \in DOMAIN r /\ r[k + m] = v /\ k + m > m /\ k + m \in Int /\ i \in Int /\ m \in Int
        BY <1>3, <1>5, <1>7, <3>1
      <4> QED BY <2>2, <4>1
    <3> QED BY <3>2
  <2>3. CASE ~(i > m) /\ Followed(A, u, v)
    <3>1. i \in DOMAIN A /\ A[i] = u
      BY <1>7, <2>3
    <3>2. PICK k \in DOMAIN A : i < k /\ A[k] = v
      BY <2>3, <3>1 DEF Followed
    <3> QED BY <1>4, <3>2
  <2> QED BY <1>10, <2>1, <2>2, <2>3
<1> QED BY <1>1, <1>2, <1>8, <1>9, <1>10 DEF r

\* What is put together, one list after the other.
GatherSteps(s, S, b, from) ==
    /\ from[0] = <<>>
    /\ \A i \in 1..Len(s) : from[i] = IF s[i] \in S THEN from[i - 1] \o b[s[i]] ELSE from[i - 1]

LEMMA GatherFrom ==
    ASSUME NEW T, NEW s \in Seq(T), NEW S, NEW C, NEW b, \A t \in ToSet(s) : t \in S => b[t] \in Seq(C)
    PROVE  \E from \in [0..Len(s) -> Seq(C)] : GatherSteps(s, S, b, from) /\ Gather(s, S, b) = from[Len(s)]
<1> DEFINE n == Len(s)
           X == Seq(C)
           body(f) == [i \in 0..n |->
                         IF i = 0 THEN <<>> ELSE IF s[i] \in S THEN f[i - 1] \o b[s[i]] ELSE f[i - 1]]
           from == CHOOSE f : f = body(f)
<1>1. n \in Nat /\ DOMAIN s = 1..n /\ <<>> \in X
  OBVIOUS
<1>2. Gather(s, S, b) = from[n]
  BY DEF Gather
<1>3. ASSUME NEW i \in 1..n, NEW x \in X PROVE (IF s[i] \in S THEN x \o b[s[i]] ELSE x) \in X
  <2>1. s[i] \in S => b[s[i]] \in X
    BY <1>1 DEF ToSet
  <2> QED BY <2>1
<1> HIDE DEF n, X
<1>4. \E f : f = body(f)
  <2> DEFINE step == [a \in (1..n) \X X |-> IF s[a[1]] \in S THEN a[2] \o b[s[a[1]]] ELSE a[2]]
  <2>1. step \in [(1..n) \X X -> X]
    BY <1>3
  <2>2. \A i \in 1..n, x \in X : step[<<i, x>>] = IF s[i] \in S THEN x \o b[s[i]] ELSE x
    OBVIOUS
  <2> HIDE DEF step
  <2>3. PICK f \in [0..n -> X] : Steps(n, <<>>, step, f)
    BY <1>1, <2>1, NumberRecursion
  <2>4. ASSUME NEW i \in 0..n
        PROVE  f[i] = IF i = 0 THEN <<>> ELSE IF s[i] \in S THEN f[i - 1] \o b[s[i]] ELSE f[i - 1]
    <3>1. CASE i = 0
      BY <2>3, <3>1 DEF Steps
    <3>2. CASE i # 0
      <4>1. i \in 1..n /\ i - 1 \in 0..n
        BY <1>1, <3>2
      <4>2. PICK x \in X : x = f[i - 1]
        BY <4>1
      <4>3. f[i] = step[<<i, x>>]
        BY <2>3, <4>1, <4>2 DEF Steps
      <4> QED BY <2>2, <3>2, <4>1, <4>2, <4>3
    <3> QED BY <3>1, <3>2
  <2>5. f = body(f)
    BY <2>4
  <2> QED BY <2>5
<1>5. from = body(from)
  BY <1>4
<1> HIDE DEF from
<1>6. \A i \in 0..n : from[i] = IF i = 0 THEN <<>> ELSE IF s[i] \in S THEN from[i - 1] \o b[s[i]] ELSE from[i - 1]
  BY <1>5
<1>7. from[0] = <<>>
  BY <1>1, <1>6
<1>8. ASSUME NEW i \in 1..n PROVE from[i] = IF s[i] \in S THEN from[i - 1] \o b[s[i]] ELSE from[i - 1]
  <2>1. i \in 0..n /\ i # 0
    BY <1>1
  <2> QED BY <1>6, <2>1
<1> DEFINE P == {i \in 0..n : from[i] \in X}
<1>9. 0 \in P
  BY <1>1, <1>7
<1>10. ASSUME NEW i \in 1..n, i - 1 \in P PROVE i \in P
  <2>1. PICK x \in X : x = from[i - 1]
    BY <1>10
  <2>2. from[i] \in X
    BY <1>3, <1>8, <2>1
  <2> QED BY <1>1, <2>2
<1> HIDE DEF P
<1>11. \A i \in 0..n : i \in P
  <2>1. P \in SUBSET (0..n)
    BY DEF P
  <2> QED BY <1>1, <1>9, <1>10, <2>1, NumberInduction
<1>12. \A i \in 0..n : from[i] \in X
  BY <1>11 DEF P
<1>13. from \in [0..n -> X]
  <2>1. from = [i \in 0..n |-> from[i]]
    BY <1>5
  <2> QED BY <1>12, <2>1
<1> QED BY <1>2, <1>7, <1>8, <1>13 DEF GatherSteps, n, X

\* what it holds, and what it does not put in front of another
LEMMA GatherRight ==
    ASSUME NEW T, NEW s \in Seq(T), NEW S, NEW C, NEW b, \A t \in ToSet(s) : t \in S => b[t] \in Seq(C)
    PROVE  /\ Gather(s, S, b) \in Seq(C)
           /\ \A x : x \in ToSet(Gather(s, S, b)) <=> \E t \in ToSet(s) : t \in S /\ x \in ToSet(b[t])
           /\ \A u, v : (\A t \in ToSet(s) : t \in S => Followed(b[t], u, v)) => Followed(Gather(s, S, b), u, v)
<1> DEFINE n == Len(s)
           X == Seq(C)
<1>1. n \in Nat /\ DOMAIN s = 1..n /\ <<>> \in X
  OBVIOUS
<1>2. PICK from \in [0..n -> X] : GatherSteps(s, S, b, from) /\ Gather(s, S, b) = from[n]
  BY GatherFrom
<1> HIDE DEF n, X
<1>3. from[0] = <<>> /\ \A i \in 1..n : from[i] = IF s[i] \in S THEN from[i - 1] \o b[s[i]] ELSE from[i - 1]
  BY <1>2 DEF GatherSteps, n
<1> DEFINE Holds(i) == \A x : x \in ToSet(from[i]) <=> \E j \in 1..i : s[j] \in S /\ x \in ToSet(b[s[j]])
           Keeps(i) == \A u, v : (\A t \in ToSet(s) : t \in S => Followed(b[t], u, v)) => Followed(from[i], u, v)
           P == {i \in 0..n : Holds(i) /\ Keeps(i)}
<1>4. 0 \in P
  <2>1. ToSet(from[0]) = {} /\ DOMAIN from[0] = {}
    BY <1>3 DEF ToSet
  <2>2. Holds(0)
    BY <2>1
  <2>3. Keeps(0)
    BY <2>1 DEF Followed
  <2> QED BY <1>1, <2>2, <2>3
<1>5. ASSUME NEW i \in 1..n, i - 1 \in P PROVE i \in P
  <2>1. i - 1 \in 0..n /\ Holds(i - 1) /\ Keeps(i - 1) /\ i \in 0..n /\ i \in 1..i
        /\ \A j \in 1..i : j = i \/ j \in 1..(i - 1)
    BY <1>1, <1>5
  <2>2. \A j \in 1..(i - 1) : j \in 1..i
    BY <1>1
  <2>3. PICK A \in X : A = from[i - 1]
    BY <2>1
  <2>4. s[i] \in ToSet(s)
    BY <1>1 DEF ToSet
  <2>5. CASE s[i] \in S
    <3>1. PICK B \in Seq(C) : B = b[s[i]]
      BY <2>4, <2>5
    <3>2. from[i] = A \o B
      BY <1>3, <2>3, <2>5, <3>1
    <3>3. /\ ToSet(A \o B) = ToSet(A) \cup ToSet(B)
          /\ \A u, v : Followed(B, u, v) /\ (v \in ToSet(B) \/ Followed(A, u, v)) => Followed(A \o B, u, v)
      BY ConcatRight DEF X
    <3>4. Holds(i)
      <4> SUFFICES ASSUME NEW x
                   PROVE  x \in ToSet(from[i]) <=> \E j \in 1..i : s[j] \in S /\ x \in ToSet(b[s[j]])
        OBVIOUS
      <4>1. x \in ToSet(from[i]) <=> x \in ToSet(A) \/ x \in ToSet(B)
        BY <3>2, <3>3
      <4>2. x \in ToSet(A) <=> \E j \in 1..(i - 1) : s[j] \in S /\ x \in ToSet(b[s[j]])
        BY <2>1, <2>3
      <4> QED BY <2>1, <2>2, <2>5, <3>1, <4>1, <4>2
    <3>5. Keeps(i)
      <4> SUFFICES ASSUME NEW u, NEW v, \A t \in ToSet(s) : t \in S => Followed(b[t], u, v)
                   PROVE  Followed(from[i], u, v)
        OBVIOUS
      <4>1. Followed(A, u, v)
        BY <2>1, <2>3
      <4>2. Followed(B, u, v)
        BY <2>4, <2>5, <3>1
      <4> QED BY <3>2, <3>3, <4>1, <4>2
    <3> QED BY <2>1, <3>4, <3>5
  <2>6. CASE s[i] \notin S
    <3>1. from[i] = A
      BY <1>3, <2>3, <2>6
    <3>2. Holds(i)
      <4> SUFFICES ASSUME NEW x
                   PROVE  x \in ToSet(A) <=> \E j \in 1..i : s[j] \in S /\ x \in ToSet(b[s[j]])
        BY <3>1
      <4>1. x \in ToSet(A) <=> \E j \in 1..(i - 1) : s[j] \in S /\ x \in ToSet(b[s[j]])
        BY <2>1, <2>3
      <4> QED BY <2>1, <2>2, <2>6, <4>1
    <3>3. Keeps(i)
      BY <2>1, <2>3, <3>1
    <3> QED BY <2>1, <3>2, <3>3
  <2> QED BY <2>5, <2>6
<1> HIDE DEF P
<1>6. n \in P
  <2>1. P \in SUBSET (0..n) /\ n \in 0..n
    BY <1>1 DEF P
  <2> QED BY <1>1, <1>4, <1>5, <2>1, NumberInduction
<1>7. Holds(n) /\ Keeps(n)
  BY <1>6 DEF P
<1>8. from[n] \in Seq(C)
  <2>1. n \in 0..n
    BY <1>1
  <2> QED BY <1>2, <2>1 DEF X
<1>9. ASSUME NEW x
      PROVE  x \in ToSet(from[n]) <=> \E t \in ToSet(s) : t \in S /\ x \in ToSet(b[t])
  BY <1>1, <1>7 DEF ToSet
<1> QED BY <1>2, <1>7, <1>8, <1>9

\* What one member brings alone comes before what a later member brings.
LEMMA GatherOrder ==
    ASSUME NEW T, NEW s \in Seq(T), NEW S, NEW C, NEW b, \A t \in ToSet(s) : t \in S => b[t] \in Seq(C),
           NEW t1 \in S, NEW t2 \in S, Precedes(s, t1, t2), IsInjective(s),
           NEW u, \A t \in ToSet(s) : t \in S /\ u \in ToSet(b[t]) => t = t1,
           NEW v \in ToSet(b[t2])
    PROVE  Ends(Gather(s, S, b), u, v)
<1> DEFINE n == Len(s)
           X == Seq(C)
<1>1. n \in Nat /\ DOMAIN s = 1..n
  OBVIOUS
<1>2. PICK from \in [0..n -> X] : GatherSteps(s, S, b, from) /\ Gather(s, S, b) = from[n]
  BY GatherFrom
<1> HIDE DEF n, X
<1>3. \A i \in 1..n : from[i] = IF s[i] \in S THEN from[i - 1] \o b[s[i]] ELSE from[i - 1]
  BY <1>2 DEF GatherSteps, n
<1>4. PICK i1 \in 1..n, i2 \in 1..n : i1 < i2 /\ s[i1] = t1 /\ s[i2] = t2
  BY <1>1 DEF Precedes
<1> DEFINE P == {i \in 0..n : i >= i2 => Ends(from[i], u, v)}
<1>5. 0 \in P
  BY <1>1
<1>6. ASSUME NEW i \in 1..n, i - 1 \in P PROVE i \in P
  <2> SUFFICES ASSUME i >= i2 PROVE Ends(from[i], u, v)
    BY <1>1
  <2>1. i - 1 \in 0..n /\ (i # i2 => i - 1 >= i2)
    BY <1>1
  <2>2. PICK A \in X : A = from[i - 1] /\ (i # i2 => Ends(A, u, v))
    BY <1>6, <2>1
  <2>3. s[i] \in ToSet(s)
    BY <1>1 DEF ToSet
  <2>4. CASE s[i] \in S
    <3>1. PICK B \in Seq(C) : B = b[s[i]]
      BY <2>3, <2>4
    <3>2. from[i] = A \o B
      BY <1>3, <2>2, <2>4, <3>1
    <3>3. u \notin ToSet(B)
      <4>1. i # i1
        BY <1>1, <1>4
      <4>2. s[i] # t1
        BY <1>1, <1>4, <4>1 DEF IsInjective
      <4> QED BY <2>3, <2>4, <3>1, <4>2
    <3>4. Ends(B, u, v) \/ Ends(A, u, v)
      <4>1. v \in ToSet(B) => Ends(B, u, v)
        BY <3>3 DEF Ends, ToSet
      <4> QED BY <1>4, <2>2, <3>1, <4>1
    <3> QED BY <3>2, <3>3, <3>4, ConcatRight DEF X
  <2>5. CASE s[i] \notin S
    BY <1>3, <1>4, <2>2, <2>5
  <2> QED BY <2>4, <2>5
<1> HIDE DEF P
<1>7. n \in P
  <2>1. P \in SUBSET (0..n) /\ n \in 0..n
    BY <1>1 DEF P
  <2> QED BY <1>1, <1>5, <1>6, <2>1, NumberInduction
<1> QED BY <1>1, <1>2, <1>4, <1>7 DEF P

\* Only what the members bring matters.
LEMMA GatherSame ==
    ASSUME NEW T, NEW s \in Seq(T), NEW S, NEW C, NEW b, NEW d,
           \A t \in ToSet(s) : t \in S => b[t] \in Seq(C) /\ d[t] = b[t]
    PROVE  Gather(s, S, d) = Gather(s, S, b)
<1> DEFINE n == Len(s)
<1>1. n \in Nat /\ DOMAIN s = 1..n
  OBVIOUS
<1>2. PICK from \in [0..n -> Seq(C)] : GatherSteps(s, S, b, from) /\ Gather(s, S, b) = from[n]
  BY GatherFrom
<1>3. PICK to \in [0..n -> Seq(C)] : GatherSteps(s, S, d, to) /\ Gather(s, S, d) = to[n]
  <2>1. \A t \in ToSet(s) : t \in S => d[t] \in Seq(C)
    OBVIOUS
  <2> QED BY <2>1, GatherFrom
<1> HIDE DEF n
<1> DEFINE P == {i \in 0..n : to[i] = from[i]}
<1>4. 0 \in P
  BY <1>1, <1>2, <1>3 DEF GatherSteps
<1>5. ASSUME NEW i \in 1..n, i - 1 \in P PROVE i \in P
  <2>1. s[i] \in ToSet(s)
    BY <1>1 DEF ToSet
  <2>2. from[i] = IF s[i] \in S THEN from[i - 1] \o b[s[i]] ELSE from[i - 1]
    BY <1>2 DEF GatherSteps, n
  <2>3. to[i] = IF s[i] \in S THEN to[i - 1] \o d[s[i]] ELSE to[i - 1]
    BY <1>3 DEF GatherSteps, n
  <2>4. to[i - 1] = from[i - 1] /\ i \in 0..n
    BY <1>1, <1>5
  <2>5. s[i] \in S => d[s[i]] = b[s[i]]
    BY <2>1
  <2>6. to[i] = from[i]
    BY <2>2, <2>3, <2>4, <2>5
  <2> QED BY <2>4, <2>6
<1> HIDE DEF P
<1>6. n \in P
  <2>1. P \in SUBSET (0..n) /\ n \in 0..n
    BY <1>1 DEF P
  <2> QED BY <1>1, <1>4, <1>5, <2>1, NumberInduction
<1> QED BY <1>2, <1>3, <1>6 DEF P

-----------------------------------------------------------------------------
(* Families: a recursion from the clients to those that are transient for them. *)

\* every set has a member without a child in it
Founded(W, K) == \A S \in SUBSET W : S # {} => \E c \in S : K[c] \cap S = {}

\* what F makes of w depends on its children alone
Local(W, X, K, F) ==
    \A w \in W : \A g, h \in [W -> X] : (\A t \in K[w] : g[t] = h[t]) => F[<<w, g>>] = F[<<w, h>>]

Tree(W, X, F) == \E f \in [W -> X] : \A w \in W : f[w] = F[<<w, f>>]

\* What is defined from what is already defined for the children exists, when
\* every set has a member without a child in it: the least relation that holds
\* what the definition says has one value for each.
LEMMA Trees ==
    ASSUME NEW W, NEW X, NEW some \in X, NEW K \in [W -> SUBSET W],
           NEW F \in [W \X [W -> X] -> X], Founded(W, K), Local(W, X, K, F)
    PROVE  Tree(W, X, F)
<1> DEFINE Closed(R) == \A w \in W : \A g \in [W -> X] :
                            (\A t \in K[w] : <<t, g[t]>> \in R) => <<w, F[<<w, g>>]>> \in R
           M == {p \in W \X X : \A R \in SUBSET (W \X X) : Closed(R) => p \in R}
           Bad == {w \in W : ~ \E x \in X : \A y \in X : <<w, y>> \in M <=> y = x}
<1>1. \A w \in W : \A g \in [W -> X] : F[<<w, g>>] \in X
  OBVIOUS
<1>2. Closed(M)
  <2> SUFFICES ASSUME NEW w \in W, NEW g \in [W -> X], \A t \in K[w] : <<t, g[t]>> \in M
               PROVE  <<w, F[<<w, g>>]>> \in M
    OBVIOUS
  <2>1. <<w, F[<<w, g>>]>> \in W \X X
    BY <1>1
  <2>2. ASSUME NEW R \in SUBSET (W \X X), Closed(R) PROVE <<w, F[<<w, g>>]>> \in R
    <3>1. \A t \in K[w] : <<t, g[t]>> \in R
      BY <2>2
    <3> QED BY <2>2, <3>1
  <2> QED BY <2>1, <2>2
<1>3. \A R \in SUBSET (W \X X) : Closed(R) => M \subseteq R
  OBVIOUS
<1>4. M \subseteq W \X X
  OBVIOUS
<1> HIDE DEF M
<1>5. Bad = {}
  <2> SUFFICES ASSUME Bad # {} PROVE FALSE
    OBVIOUS
  <2>1. PICK c \in Bad : K[c] \cap Bad = {}
    BY DEF Founded
  <2>2. c \in W /\ K[c] \subseteq W
    OBVIOUS
  <2>3. \A t \in K[c] : \E x \in X : \A y \in X : <<t, y>> \in M <=> y = x
    BY <2>1, <2>2
  <2> DEFINE g == [t \in W |-> IF t \in K[c] THEN CHOOSE x \in X : <<t, x>> \in M ELSE some]
  <2>4. ASSUME NEW t \in K[c] PROVE g[t] \in X /\ \A y \in X : <<t, y>> \in M <=> y = g[t]
    <3>1. PICK x \in X : \A y \in X : <<t, y>> \in M <=> y = x
      BY <2>3
    <3>2. (CHOOSE y \in X : <<t, y>> \in M) = x
      BY <3>1
    <3>3. g[t] = x
      BY <2>2, <3>2
    <3> QED BY <3>1, <3>3
  <2>5. g \in [W -> X]
    BY <2>4
  <2> HIDE DEF g
  <2>6. PICK y \in X : y = F[<<c, g>>]
    BY <1>1, <2>2, <2>5
  <2>7. <<c, y>> \in M
    <3>1. \A t \in K[c] : <<t, g[t]>> \in M
      BY <2>4
    <3>2. <<c, F[<<c, g>>]>> \in M
      BY <1>2, <2>2, <2>5, <3>1
    <3> QED BY <2>6, <3>2
  <2> DEFINE R == {p \in M : p[1] = c => p[2] = y}
  <2>8. R \in SUBSET (W \X X)
    BY <1>4
  <2>9. Closed(R)
    <3> SUFFICES ASSUME NEW w \in W, NEW h \in [W -> X], \A t \in K[w] : <<t, h[t]>> \in R
                 PROVE  <<w, F[<<w, h>>]>> \in R
      OBVIOUS
    <3>1. \A t \in K[w] : <<t, h[t]>> \in M
      OBVIOUS
    <3>2. <<w, F[<<w, h>>]>> \in M
      BY <1>2, <3>1
    <3>3. w = c => F[<<w, h>>] = y
      <4> SUFFICES ASSUME w = c PROVE F[<<c, h>>] = y
        OBVIOUS
      <4>1. \A t \in K[c] : h[t] \in X /\ h[t] = g[t]
        BY <2>2, <2>4, <3>1
      <4>2. \A t \in K[c] : g[t] = h[t]
        BY <4>1
      <4>3. \A v \in W : \A k, l \in [W -> X] : (\A t \in K[v] : k[t] = l[t]) => F[<<v, k>>] = F[<<v, l>>]
        BY DEF Local
      <4>4. F[<<c, g>>] = F[<<c, h>>]
        BY ONLY <2>2, <2>5, <4>2, <4>3, h \in [W -> X], Zenon
      <4> QED BY <2>6, <4>4
    <3> QED BY <3>2, <3>3
  <2>10. M \subseteq R
    BY <1>3, <2>8, <2>9
  <2>11. \A z \in X : <<c, z>> \in M <=> z = y
    BY <2>7, <2>10
  <2> QED BY <2>1, <2>2, <2>11
<1> DEFINE f == [w \in W |-> CHOOSE x \in X : <<w, x>> \in M]
<1>6. \A w \in W : f[w] \in X /\ \A y \in X : <<w, y>> \in M <=> y = f[w]
  <2> TAKE w \in W
  <2>1. PICK x \in X : \A y \in X : <<w, y>> \in M <=> y = x
    BY <1>5
  <2>2. (CHOOSE y \in X : <<w, y>> \in M) = x
    BY <2>1
  <2> QED BY <2>1, <2>2
<1>7. f \in [W -> X]
  BY <1>6
<1> HIDE DEF f
<1>8. ASSUME NEW w \in W PROVE f[w] = F[<<w, f>>]
  <2>1. \A t \in K[w] : <<t, f[t]>> \in M
    <3>1. K[w] \subseteq W
      OBVIOUS
    <3> QED BY <1>6, <3>1
  <2>2. <<w, F[<<w, f>>]>> \in M
    BY <1>2, <1>7, <2>1
  <2> QED BY <1>1, <1>6, <1>7, <2>2
<1> QED BY <1>7, <1>8 DEF Tree

\* Among finitely many clients one has no client transient for it: where each
\* has one, the outermost can be left out, again and again.
LEMMA Childless ==
    ASSUME NEW tf \in [Windows -> Opt], LoopFree(tf), NEW C \in SUBSET Windows, IsFiniteSet(C),
           NEW S \in SUBSET C, S # {}
    PROVE  \E c \in S : \A t \in S : tf[t] # c
<1> DEFINE Full(Z) == Z # {} /\ \A c \in Z : \E t \in Z : tf[t] = c
           T == {Z \in SUBSET C : Full(Z)}
<1>1. SUFFICES ASSUME Full(S) PROVE FALSE
  OBVIOUS
<1>2. T \subseteq FiniteSubsetsOf(C) /\ T # {}
  <2>1. \A Z \in SUBSET C : IsFiniteSet(Z)
    BY FS_Subset
  <2> QED BY <1>1, <2>1 DEF FiniteSubsetsOf
<1>3. PICK Z \in T : \A Y \in T : ~(<<Y, Z>> \in StrictSubsetOrdering(C))
  <2> HIDE DEF T
  <2> QED BY <1>2, FS_StrictSubsetOrderingWellFounded, WFMin
<1>4. Z \in SUBSET C /\ Z \in SUBSET Windows /\ Full(Z)
  OBVIOUS
<1>5. PICK r \in Z : tf[r] \notin Z
  BY <1>4 DEF LoopFree
<1> DEFINE Y == Z \ {r}
<1>6. Y # {}
  BY <1>4, <1>5
<1>7. ASSUME NEW c \in Y PROVE \E t \in Y : tf[t] = c
  BY <1>4, <1>5, <1>7
<1>8. Y \in T /\ Y \in SUBSET C
  BY <1>4, <1>6, <1>7
<1>9. <<Y, Z>> \in StrictSubsetOrdering(C)
  BY <1>4, <1>5, <1>8 DEF StrictSubsetOrdering
<1> QED BY <1>3, <1>8, <1>9

\* the clients transient for w
Kids(w) == {t \in Windows : transientFor[t] = w}

\* What holds for a client when it holds for those transient for it.
LEMMA FromTheKids ==
    ASSUME TypeOK, Acyclic, stack \in Lists(managed), dying = NoWindow,
           NEW S \in SUBSET Windows, S # {}
    PROVE  \E c \in S : Kids(c) \cap S = {}
<1>1. transientFor \in [Windows -> Opt] /\ LoopFree(transientFor) /\ managed \subseteq Windows
  BY DEF TypeOK, Acyclic, LoopFree
<1>2. \A c \in Windows : Kids(c) \subseteq managed
  BY StackingAssumption DEF TypeOK, Kids
<1>3. CASE S \cap managed = {}
  BY <1>2, <1>3
<1>4. CASE S \cap managed # {}
  <2>1. IsFiniteSet(managed)
    <3>1. stack \in Seq(Windows) /\ managed = {stack[i] : i \in 1..Len(stack)} /\ Len(stack) \in Nat
      BY DEF Lists, ListsOf, ToSet
    <3>2. IsFiniteSet(1..Len(stack))
      BY <3>1, FS_Interval
    <3>3. stack \in Surjection(1..Len(stack), managed)
      BY <3>1 DEF Surjection
    <3> QED BY <3>2, <3>3, FS_Surjection
  <2>2. PICK Z \in SUBSET managed : Z = S \cap managed
    OBVIOUS
  <2>3. PICK c \in Z : \A t \in Z : transientFor[t] # c
    BY <1>1, <1>4, <2>1, <2>2, Childless
  <2>4. c \in S /\ c \in Windows
    BY <2>2, <2>3
  <2> QED BY <1>2, <2>2, <2>3, <2>4 DEF Kids
<1> QED BY <1>3, <1>4

\* stack_client_above terminates, with the client and, above it, the families
\* of those transient for it.
LEMMA Families ==
    ASSUME TypeOK, Acyclic, stack \in Lists(managed), dying = NoWindow
    PROVE  \A w \in Windows :
             /\ Family(w) \in Seq(Windows)
             /\ Family(w) = <<w>> \o Gather(stack, Kids(w), [c \in Windows |-> Family(c)])
<1> DEFINE X == Seq(Windows)
           body(f) == [w \in Windows |->
                         <<w>> \o Gather(stack, {t \in Windows : transientFor[t] = w}, f)]
           family == CHOOSE f : f = body(f)
<1>1. \A c : Family(c) = family[c]
  BY DEF Family
<1>2. stack \in X
  BY DEF Lists, ListsOf
<1>3. ASSUME NEW w \in Windows, NEW f, \A t \in Kids(w) : f[t] \in X
      PROVE  <<w>> \o Gather(stack, Kids(w), f) \in X
  <2>1. Gather(stack, Kids(w), f) \in X
    BY <1>2, <1>3, GatherRight
  <2> QED BY <2>1
<1>4. \E f : f = body(f)
  <2> DEFINE K == [w \in Windows |-> Kids(w)]
             F == [p \in Windows \X [Windows -> X] |-> <<p[1]>> \o Gather(stack, Kids(p[1]), p[2])]
  <2>1. K \in [Windows -> SUBSET Windows] /\ \A w \in Windows : K[w] = Kids(w)
    BY DEF Kids
  <2>2. \A S \in SUBSET Windows : S # {} => \E c \in S : K[c] \cap S = {}
    BY <2>1, FromTheKids
  <2>3. \A w \in Windows : \A g \in [Windows -> X] : <<w>> \o Gather(stack, Kids(w), g) \in X
    <3> TAKE w \in Windows
    <3> TAKE g \in [Windows -> X]
    <3>1. \A t \in Kids(w) : g[t] \in X
      BY DEF Kids
    <3> HIDE DEF X
    <3> QED BY <1>3, <3>1
  <2>4. ASSUME NEW w \in Windows, NEW g \in [Windows -> X], NEW h \in [Windows -> X],
               \A t \in K[w] : g[t] = h[t]
        PROVE  Gather(stack, Kids(w), g) = Gather(stack, Kids(w), h)
    <3>1. \A t \in ToSet(stack) : t \in Kids(w) => h[t] \in Seq(Windows) /\ g[t] = h[t]
      BY <2>1, <2>4 DEF Kids
    <3>2. PICK s, S, b, d : s = stack /\ S = Kids(w) /\ b = h /\ d = g
      OBVIOUS
    <3>3. s \in Seq(Windows)
      BY <1>2, <3>2
    <3>4. \A t \in ToSet(s) : t \in S => b[t] \in Seq(Windows) /\ d[t] = b[t]
      BY <3>1, <3>2
    <3>5. Gather(s, S, d) = Gather(s, S, b)
      BY <3>3, <3>4, GatherSame
    <3> QED BY <3>2, <3>5
  <2>5. <<>> \in X
    OBVIOUS
  <2> HIDE DEF X, K
  <2>6. F \in [Windows \X [Windows -> X] -> X]
    BY <2>3
  <2>7. \A w \in Windows : \A g \in [Windows -> X] : F[<<w, g>>] = <<w>> \o Gather(stack, Kids(w), g)
    OBVIOUS
  <2> HIDE DEF F
  <2>8. ASSUME NEW w \in Windows, NEW g \in [Windows -> X], NEW h \in [Windows -> X],
               \A t \in K[w] : g[t] = h[t]
        PROVE  F[<<w, g>>] = F[<<w, h>>]
    <3>1. Gather(stack, Kids(w), g) = Gather(stack, Kids(w), h)
      BY <2>4, <2>8
    <3>2. F[<<w, g>>] = <<w>> \o Gather(stack, Kids(w), g)
      BY <2>7
    <3>3. F[<<w, h>>] = <<w>> \o Gather(stack, Kids(w), h)
      BY <2>7
    <3> QED BY <3>1, <3>2, <3>3
  <2>9. PICK f \in [Windows -> X] : \A w \in Windows : f[w] = F[<<w, f>>]
    <3>1. PICK W, Y, k, G : W = Windows /\ Y = X /\ k = K /\ G = F
      OBVIOUS
    <3>2. k \in [W -> SUBSET W] /\ <<>> \in Y /\ G \in [W \X [W -> Y] -> Y]
      BY <2>1, <2>5, <2>6, <3>1
    <3>3. Founded(W, k)
      BY <2>2, <3>1 DEF Founded
    <3>4. Local(W, Y, k, G)
      BY <2>8, <3>1 DEF Local
    <3>5. Tree(W, Y, G)
      BY <3>2, <3>3, <3>4, Trees
    <3> QED BY <3>1, <3>5 DEF Tree
  <2>10. \A w \in Windows : f[w] = <<w>> \o Gather(stack, {t \in Windows : transientFor[t] = w}, f)
    BY <2>7, <2>9 DEF Kids
  <2>11. f = body(f)
    BY <2>10
  <2> QED BY <2>11
<1>5. family = body(family)
  BY <1>4
<1> HIDE DEF family
<1>6. \A w \in Windows : family[w] = <<w>> \o Gather(stack, Kids(w), family)
  BY <1>5 DEF Kids
<1>7. family = [c \in Windows |-> Family(c)]
  BY <1>1, <1>5
<1> DEFINE Bad == {w \in Windows : family[w] \notin X}
<1>8. Bad = {}
  <2> SUFFICES ASSUME Bad # {} PROVE FALSE
    OBVIOUS
  <2>1. Bad \in SUBSET Windows
    OBVIOUS
  <2>2. PICK c \in Bad : Kids(c) \cap Bad = {}
    <3> HIDE DEF Bad
    <3> QED BY <2>1, FromTheKids
  <2>3. \A t \in Kids(c) : family[t] \in X
    BY <2>2 DEF Kids
  <2>4. c \in Windows /\ family[c] \in X
    BY <1>3, <1>6, <2>2, <2>3
  <2> QED BY <2>2, <2>4
<1>9. ASSUME NEW w \in Windows
      PROVE  /\ Family(w) \in Seq(Windows)
             /\ Family(w) = <<w>> \o Gather(stack, Kids(w), [c \in Windows |-> Family(c)])
  <2>1. family[w] \in X
    BY <1>8
  <2> QED BY <1>1, <1>6, <1>7, <2>1
<1> QED BY <1>9

\* The clients a client is transient for, directly or not.
LEMMA ChainRight ==
    ASSUME TypeOK, NEW c \in Windows
    PROVE  /\ c \in Chain(c) /\ Chain(c) \subseteq Windows
           /\ \A v \in Chain(c) : transientFor[v] \in Chain(c) \cup {NoWindow}
           /\ \A S \in SUBSET Windows :
                c \in S /\ (\A v \in S : transientFor[v] \in S \cup {NoWindow}) => Chain(c) \subseteq S
           /\ c \in managed => Chain(c) \subseteq managed
           /\ transientFor[c] = NoWindow => Chain(c) = {c}
<1>1. c \in Chain(c) /\ Chain(c) \subseteq Windows
  BY DEF Chain
<1>2. \A v \in Windows : transientFor[v] \in Opt
  BY DEF TypeOK
<1>3. ASSUME NEW v \in Chain(c), transientFor[v] # NoWindow PROVE transientFor[v] \in Chain(c)
  <2>1. transientFor[v] \in Windows
    BY <1>1, <1>2, <1>3 DEF Opt
  <2>2. ASSUME NEW S \in SUBSET Windows, c \in S, \A x \in S : transientFor[x] \in S \cup {NoWindow}
        PROVE  transientFor[v] \in S
    <3>1. v \in S
      BY <2>2 DEF Chain
    <3> QED BY <1>3, <2>2, <3>1
  <2> QED BY <2>1, <2>2 DEF Chain
<1>4. ASSUME NEW S \in SUBSET Windows, c \in S, \A v \in S : transientFor[v] \in S \cup {NoWindow}
      PROVE  Chain(c) \subseteq S
  BY <1>4 DEF Chain
<1>5. c \in managed => Chain(c) \subseteq managed
  <2>1. managed \in SUBSET Windows /\ \A v \in managed : transientFor[v] \in managed \cup {NoWindow}
    BY DEF TypeOK
  <2> QED BY <1>4, <2>1
<1>6. transientFor[c] = NoWindow => Chain(c) = {c}
  <2>1. {c} \in SUBSET Windows
    OBVIOUS
  <2>2. transientFor[c] = NoWindow => \A v \in {c} : transientFor[v] \in {c} \cup {NoWindow}
    OBVIOUS
  <2>3. transientFor[c] = NoWindow => Chain(c) \subseteq {c}
    BY <1>4, <2>1, <2>2
  <2> QED BY <1>1, <2>3
<1> QED BY <1>1, <1>3, <1>4, <1>5, <1>6

\* The family of a client is the clients that are transient for it, directly
\* or not, and each of them comes after its parent.
LEMMA FamilyRight ==
    ASSUME TypeOK, Acyclic, stack \in Lists(managed), dying = NoWindow, NEW a \in Windows, NEW w \in managed
    PROVE  /\ w \in ToSet(Family(a)) <=> a \in Chain(w)
           /\ transientFor[w] # NoWindow => Followed(Family(a), transientFor[w], w)
           /\ Family(w) \in Seq(managed)
<1>1. PICK fam \in [Windows -> Seq(Windows)] : fam = [c \in Windows |-> Family(c)]
  BY Families
<1>2. \A c \in Windows : Family(c) = fam[c] /\ fam[c] = <<c>> \o Gather(stack, Kids(c), fam)
  BY <1>1, Families
<1>3. stack \in Seq(Windows) /\ ToSet(stack) = managed
  BY DEF Lists, ListsOf
<1>4. \A c \in Windows : Kids(c) \subseteq managed
  BY StackingAssumption DEF TypeOK, Kids
<1>5. w \in Windows /\ managed \subseteq Windows
  BY DEF TypeOK
<1>6. ASSUME NEW c \in Windows
      PROVE  /\ \A x : x \in ToSet(fam[c]) <=> x = c \/ \E t \in Kids(c) : x \in ToSet(fam[t])
             /\ \A u, v : (\A t \in Kids(c) : Followed(fam[t], u, v))
                          => /\ u # c => Followed(fam[c], u, v)
                             /\ (\E t \in Kids(c) : v \in ToSet(fam[t])) => Followed(fam[c], u, v)
  <2>1. PICK K : K = Kids(c)
    OBVIOUS
  <2>2. PICK G : G = Gather(stack, K, fam)
    OBVIOUS
  <2>3. /\ G \in Seq(Windows)
        /\ \A x : x \in ToSet(G) <=> \E t \in ToSet(stack) : t \in K /\ x \in ToSet(fam[t])
        /\ \A u, v : (\A t \in ToSet(stack) : t \in K => Followed(fam[t], u, v)) => Followed(G, u, v)
    <3>1. \A t \in ToSet(stack) : t \in K => fam[t] \in Seq(Windows)
      BY <1>3, <1>5
    <3> QED BY <1>3, <2>2, <3>1, GatherRight
  <2>4. PICK o : o = <<c>>
    OBVIOUS
  <2>5. o \in Seq(Windows) /\ DOMAIN o = {1} /\ o[1] = c /\ ToSet(o) = {c}
    BY <2>4 DEF ToSet
  <2>6. fam[c] = o \o G
    BY <1>2, <2>1, <2>2, <2>4
  <2>7. /\ ToSet(o \o G) = {c} \cup ToSet(G)
        /\ \A u, v : Followed(G, u, v) /\ (v \in ToSet(G) \/ Followed(o, u, v)) => Followed(o \o G, u, v)
    BY <2>3, <2>5, ConcatRight
  <2>8. \A u, v : u # c => Followed(o, u, v)
    BY <2>5 DEF Followed
  <2>9. \A x : x \in ToSet(G) <=> \E t \in Kids(c) : x \in ToSet(fam[t])
    BY <1>3, <1>4, <2>1, <2>3
  <2>10. \A x : x \in ToSet(fam[c]) <=> x = c \/ \E t \in Kids(c) : x \in ToSet(fam[t])
    BY <2>6, <2>7, <2>9
  <2>11. ASSUME NEW u, NEW v, \A t \in Kids(c) : Followed(fam[t], u, v)
         PROVE  /\ u # c => Followed(fam[c], u, v)
                /\ (\E t \in Kids(c) : v \in ToSet(fam[t])) => Followed(fam[c], u, v)
    <3>1. Followed(G, u, v)
      BY <2>1, <2>3, <2>11
    <3> QED BY <2>6, <2>7, <2>8, <2>9, <3>1
  <2> QED BY <2>10, <2>11
<1>7. a \in Chain(w) => w \in ToSet(fam[a])
  <2> DEFINE A == {c \in Windows : w \in ToSet(fam[c])}
  <2>1. w \in A
    BY <1>5, <1>6
  <2>2. ASSUME NEW v \in A, transientFor[v] # NoWindow PROVE transientFor[v] \in A
    <3>1. transientFor[v] \in Windows /\ v \in Kids(transientFor[v])
      BY <2>2 DEF TypeOK, Opt, Kids
    <3> QED BY <1>6, <3>1
  <2>3. Chain(w) \subseteq A
    <3>1. A \in SUBSET Windows
      OBVIOUS
    <3> HIDE DEF A
    <3> QED BY <1>5, <2>1, <2>2, <3>1, ChainRight
  <2> QED BY <2>3
<1>8. w \in ToSet(fam[a]) => a \in Chain(w)
  <2> DEFINE Bad == {c \in Windows : w \in ToSet(fam[c]) /\ c \notin Chain(w)}
  <2>1. Bad = {}
    <3> SUFFICES ASSUME Bad # {} PROVE FALSE
      OBVIOUS
    <3>1. Bad \in SUBSET Windows
      OBVIOUS
    <3>2. PICK c \in Bad : Kids(c) \cap Bad = {}
      <4> HIDE DEF Bad
      <4> QED BY <3>1, FromTheKids
    <3>3. c \in Windows /\ w \in ToSet(fam[c]) /\ c \notin Chain(w)
      OBVIOUS
    <3>4. c # w
      BY <1>5, <3>3, ChainRight
    <3>5. PICK t \in Kids(c) : w \in ToSet(fam[t])
      BY <1>6, <3>3, <3>4
    <3>6. t \in Windows /\ transientFor[t] = c
      BY <3>5 DEF Kids
    <3>7. t \in Chain(w)
      BY <3>2, <3>5, <3>6
    <3>8. c # NoWindow
      BY <3>3, StackingAssumption
    <3> QED BY <1>5, <3>3, <3>6, <3>7, <3>8, ChainRight
  <2> QED BY <2>1
<1>9. ASSUME transientFor[w] # NoWindow PROVE Followed(fam[a], transientFor[w], w)
  <2> DEFINE Bad == {c \in Windows : ~Followed(fam[c], transientFor[w], w)}
  <2>1. Bad = {}
    <3> SUFFICES ASSUME Bad # {} PROVE FALSE
      OBVIOUS
    <3>1. Bad \in SUBSET Windows
      OBVIOUS
    <3>2. PICK c \in Bad : Kids(c) \cap Bad = {}
      <4> HIDE DEF Bad
      <4> QED BY <3>1, FromTheKids
    <3>3. c \in Windows /\ ~Followed(fam[c], transientFor[w], w)
      OBVIOUS
    <3>4. \A t \in Kids(c) : Followed(fam[t], transientFor[w], w)
      BY <3>2 DEF Kids
    <3>5. c = transientFor[w]
      BY <1>6, <3>3, <3>4
    <3>6. w \in Kids(c) /\ w \in ToSet(fam[w])
      BY <1>5, <1>6, <3>5 DEF Kids
    <3> QED BY <1>6, <3>3, <3>4, <3>6
  <2> QED BY <2>1
<1>10. ToSet(fam[w]) \subseteq managed
  <2> DEFINE Bad == {c \in managed : ~(ToSet(fam[c]) \subseteq managed)}
  <2>1. Bad = {}
    <3> SUFFICES ASSUME Bad # {} PROVE FALSE
      OBVIOUS
    <3>1. Bad \in SUBSET Windows
      BY <1>5
    <3>2. PICK c \in Bad : Kids(c) \cap Bad = {}
      <4> HIDE DEF Bad
      <4> QED BY <3>1, FromTheKids
    <3>3. c \in managed /\ c \in Windows
      BY <1>5
    <3>4. \A t \in Kids(c) : ToSet(fam[t]) \subseteq managed
      BY <1>4, <3>2, <3>3
    <3>5. ToSet(fam[c]) \subseteq managed
      BY <1>6, <3>3, <3>4
    <3> QED BY <3>2, <3>5
  <2> QED BY <2>1
<1>11. fam[w] \in Seq(managed)
  <2>1. PICK q \in Seq(Windows) : q = fam[w]
    BY <1>5
  <2>2. \A i \in 1..Len(q) : q[i] \in managed
    BY <1>10, <2>1 DEF ToSet
  <2>3. q \in Seq(managed)
    BY <2>2
  <2> QED BY <2>1, <2>3
<1> QED BY <1>2, <1>5, <1>7, <1>8, <1>9, <1>11

-----------------------------------------------------------------------------
(* What stack_refresh visits. *)

\* one layer of clients
LEMMA LayerRight ==
    ASSUME TypeOK, Acyclic, stack \in Lists(managed), dying = NoWindow, NEW l
    PROVE  /\ InLayer(l) \in Seq(managed)
           /\ \A w \in managed : w \in ToSet(InLayer(l)) <=> \E v \in Chain(w) : LayerOf(v) = l
           /\ \A w \in managed : transientFor[w] # NoWindow => Followed(InLayer(l), transientFor[w], w)
           /\ \A c, v \in managed : /\ transientFor[c] = NoWindow /\ LayerOf(c) = l /\ LayerOf(v) = l
                                    /\ Precedes(stack, c, v)
                                    => Ends(InLayer(l), c, v)
<1>1. PICK b : b = [c \in Windows |-> Family(c)]
  OBVIOUS
<1>2. PICK S : S = {c \in Windows : LayerOf(c) = l}
  OBVIOUS
<1>3. InLayer(l) = Gather(stack, S, b)
  BY <1>1, <1>2 DEF InLayer
<1>4. stack \in Seq(Windows) /\ ToSet(stack) = managed /\ IsInjective(stack) /\ managed \subseteq Windows
  BY DEF Lists, ListsOf, TypeOK
<1>5. /\ \A t \in managed : b[t] \in Seq(managed)
      /\ \A t \in managed : \A w \in managed : w \in ToSet(b[t]) <=> t \in Chain(w)
      /\ \A t \in managed : \A w \in managed :
           transientFor[w] # NoWindow => Followed(b[t], transientFor[w], w)
  BY <1>1, <1>4, FamilyRight
<1>6. \A t \in ToSet(stack) : t \in S => b[t] \in Seq(managed)
  BY <1>4, <1>5
<1>7. /\ Gather(stack, S, b) \in Seq(managed)
      /\ \A x : x \in ToSet(Gather(stack, S, b)) <=> \E t \in ToSet(stack) : t \in S /\ x \in ToSet(b[t])
      /\ \A u, v : (\A t \in ToSet(stack) : t \in S => Followed(b[t], u, v))
                   => Followed(Gather(stack, S, b), u, v)
  BY <1>4, <1>6, GatherRight
<1>8. \A w \in managed : w \in Windows /\ Chain(w) \subseteq managed /\ w \in Chain(w)
                         /\ (transientFor[w] = NoWindow => Chain(w) = {w})
  BY <1>4, ChainRight
<1>9. ASSUME NEW w \in managed PROVE w \in ToSet(InLayer(l)) <=> \E v \in Chain(w) : LayerOf(v) = l
  <2>1. w \in ToSet(InLayer(l)) <=> \E t \in managed : t \in S /\ t \in Chain(w)
    BY <1>3, <1>4, <1>5, <1>7
  <2>2. \A t \in managed : t \in S <=> LayerOf(t) = l
    BY <1>2, <1>4
  <2> QED BY <1>8, <2>1, <2>2
<1>10. ASSUME NEW w \in managed, transientFor[w] # NoWindow
       PROVE  Followed(InLayer(l), transientFor[w], w)
  <2>1. \A t \in ToSet(stack) : t \in S => Followed(b[t], transientFor[w], w)
    BY <1>4, <1>5, <1>10
  <2> QED BY <1>3, <1>7, <2>1
<1>11. ASSUME NEW c \in managed, NEW v \in managed, transientFor[c] = NoWindow, LayerOf(c) = l, LayerOf(v) = l,
              Precedes(stack, c, v)
       PROVE  Ends(InLayer(l), c, v)
  <2>1. c \in S /\ v \in S
    BY <1>2, <1>4, <1>11
  <2>2. \A t \in ToSet(stack) : t \in S /\ c \in ToSet(b[t]) => t = c
    BY <1>4, <1>5, <1>8, <1>11
  <2>3. v \in ToSet(b[v])
    BY <1>5, <1>8
  <2> QED BY <1>3, <1>4, <1>6, <1>11, <2>1, <2>2, <2>3, GatherOrder
<1> QED BY <1>3, <1>7, <1>9, <1>10, <1>11

\* the visible drawins that are ontop, or are not
LEMMA DrawinsRight ==
    ASSUME NEW D \in SUBSET Drawins, drawins \in ListsOf(Drawins, D), NEW b \in BOOLEAN
    PROVE  /\ DrawinsOntop(b) \in Seq(Drawins)
           /\ \A x : x \in ToSet(DrawinsOntop(b)) <=> x \in D /\ (b <=> x \in drawinOntop)
<1>1. PICK f : f = [d \in Drawins |-> <<d>>]
  OBVIOUS
<1>2. PICK S : S = {d \in Drawins : (d \in drawinOntop) = b}
  OBVIOUS
<1>3. DrawinsOntop(b) = Gather(drawins, S, f)
  BY <1>1, <1>2 DEF DrawinsOntop
<1>4. drawins \in Seq(Drawins) /\ ToSet(drawins) = D
  BY DEF ListsOf
<1>5. \A t \in Drawins : f[t] \in Seq(Drawins) /\ ToSet(f[t]) = {t}
  BY <1>1 DEF ToSet
<1>6. \A t \in ToSet(drawins) : t \in S => f[t] \in Seq(Drawins)
  BY <1>4, <1>5
<1>7. /\ Gather(drawins, S, f) \in Seq(Drawins)
      /\ \A x : x \in ToSet(Gather(drawins, S, f)) <=> \E t \in ToSet(drawins) : t \in S /\ x \in ToSet(f[t])
  BY <1>4, <1>6, GatherRight
<1>8. ASSUME NEW x PROVE x \in ToSet(Gather(drawins, S, f)) <=> x \in D /\ x \in S
  <2>1. x \in ToSet(Gather(drawins, S, f)) <=> \E t \in D : t \in S /\ x \in ToSet(f[t])
    BY <1>4, <1>7
  <2>2. \A t \in D : x \in ToSet(f[t]) <=> x = t
    BY <1>5
  <2> QED BY <2>1, <2>2
<1>9. \A x \in D : x \in S <=> (b <=> x \in drawinOntop)
  BY <1>2
<1> QED BY <1>3, <1>7, <1>8, <1>9

\* eight lists, one after the other
Joined(C, A, V, k) ==
    /\ V \in Seq(C)
    /\ \A x : x \in ToSet(V) <=> \E m \in 1..k : x \in ToSet(A[m])
    /\ \A u, v : \A m \in 1..k :
         Ends(A[m], u, v) /\ (\A j \in 1..k : j > m => u \notin ToSet(A[j])) => Ends(V, u, v)
    /\ \A u, v : (\A m \in 1..k : Followed(A[m], u, v)) => Followed(V, u, v)

LEMMA JoinOne ==
    ASSUME NEW C, NEW A, NEW V, NEW k \in 1..7, Joined(C, A, V, k), A[k + 1] \in Seq(C)
    PROVE  Joined(C, A, V \o A[k + 1], k + 1)
<1>1. PICK B \in Seq(C) : B = A[k + 1]
  OBVIOUS
<1>2. PICK r : r = V \o B
  OBVIOUS
<1>3. /\ r \in Seq(C) /\ ToSet(r) = ToSet(V) \cup ToSet(B)
      /\ \A u, v : Ends(B, u, v) \/ (u \notin ToSet(B) /\ Ends(V, u, v)) => Ends(r, u, v)
      /\ \A u, v : Followed(B, u, v) /\ (v \in ToSet(B) \/ Followed(V, u, v)) => Followed(r, u, v)
  <2>1. V \in Seq(C)
    BY DEF Joined
  <2> QED BY <1>2, <2>1, ConcatRight
<1>4. k + 1 \in 1..(k + 1) /\ \A m \in 1..(k + 1) : m = k + 1 \/ (m \in 1..k /\ k + 1 > m)
  OBVIOUS
<1>5. \A m \in 1..k : m \in 1..(k + 1)
  OBVIOUS
<1>6. ASSUME NEW x PROVE x \in ToSet(r) <=> \E m \in 1..(k + 1) : x \in ToSet(A[m])
  <2>1. x \in ToSet(V) <=> \E m \in 1..k : x \in ToSet(A[m])
    BY DEF Joined
  <2> QED BY <1>1, <1>3, <1>4, <1>5, <2>1
<1>7. ASSUME NEW u, NEW v, NEW m \in 1..(k + 1), Ends(A[m], u, v),
             \A j \in 1..(k + 1) : j > m => u \notin ToSet(A[j])
      PROVE  Ends(r, u, v)
  <2>1. CASE m = k + 1
    BY <1>1, <1>3, <1>7, <2>1
  <2>2. CASE m # k + 1
    <3>1. m \in 1..k /\ k + 1 > m
      BY <1>4, <2>2
    <3>2. u \notin ToSet(B)
      BY <1>1, <1>4, <1>7, <3>1
    <3>3. \A j \in 1..k : j > m => u \notin ToSet(A[j])
      BY <1>5, <1>7
    <3>4. Ends(V, u, v)
      BY <1>7, <3>1, <3>3 DEF Joined
    <3> QED BY <1>3, <3>2, <3>4
  <2> QED BY <2>1, <2>2
<1>8. ASSUME NEW u, NEW v, \A m \in 1..(k + 1) : Followed(A[m], u, v) PROVE Followed(r, u, v)
  <2>1. Followed(V, u, v)
    BY <1>5, <1>8 DEF Joined
  <2> QED BY <1>1, <1>3, <1>4, <1>8, <2>1
<1> QED BY <1>1, <1>2, <1>3, <1>6, <1>7, <1>8 DEF Joined

LEMMA EightJoined ==
    ASSUME NEW C, NEW A, \A m \in 1..8 : A[m] \in Seq(C)
    PROVE  Joined(C, A, A[1] \o A[2] \o A[3] \o A[4] \o A[5] \o A[6] \o A[7] \o A[8], 8)
<1>1. Joined(C, A, A[1], 1)
  <2>1. \A m : m \in 1..1 <=> m = 1
    OBVIOUS
  <2>2. A[1] \in Seq(C)
    OBVIOUS
  <2> QED BY <2>1, <2>2 DEF Joined
<1>2. /\ A[2] \in Seq(C) /\ A[3] \in Seq(C) /\ A[4] \in Seq(C) /\ A[5] \in Seq(C) /\ A[6] \in Seq(C)
      /\ A[7] \in Seq(C) /\ A[8] \in Seq(C)
  OBVIOUS
<1>3. ASSUME NEW V, NEW k \in 1..7, NEW n, n = k + 1, Joined(C, A, V, k) PROVE Joined(C, A, V \o A[n], n)
  <2>1. A[k + 1] \in Seq(C)
    OBVIOUS
  <2> QED BY <1>3, <2>1, JoinOne
<1>4. PICK V2 : V2 = A[1] \o A[2]
  OBVIOUS
<1>5. Joined(C, A, V2, 2)
  BY <1>1, <1>3, <1>4
<1>6. PICK V3 : V3 = V2 \o A[3]
  OBVIOUS
<1>7. Joined(C, A, V3, 3)
  BY <1>3, <1>5, <1>6
<1>8. PICK V4 : V4 = V3 \o A[4]
  OBVIOUS
<1>9. Joined(C, A, V4, 4)
  BY <1>3, <1>7, <1>8
<1>10. PICK V5 : V5 = V4 \o A[5]
  OBVIOUS
<1>11. Joined(C, A, V5, 5)
  BY <1>3, <1>9, <1>10
<1>12. PICK V6 : V6 = V5 \o A[6]
  OBVIOUS
<1>13. Joined(C, A, V6, 6)
  BY <1>3, <1>11, <1>12
<1>14. PICK V7 : V7 = V6 \o A[7]
  OBVIOUS
<1>15. Joined(C, A, V7, 7)
  BY <1>3, <1>13, <1>14
<1>16. Joined(C, A, V7 \o A[8], 8)
  BY <1>3, <1>15
<1> QED BY <1>4, <1>6, <1>8, <1>10, <1>12, <1>14, <1>16

\* the eight parts of what is visited
Part == <<InLayer("desktop"), DrawinsOntop(FALSE), InLayer("below"), InLayer("normal"), InLayer("above"),
          InLayer("fullscreen"), InLayer("ontop"), DrawinsOntop(TRUE)>>

\* how high a client or drawin is in the order of the layers
Shown(D, x, k) ==
    \/ x \in managed /\ \E v \in Chain(x) : Height[LayerOf(v)] = k
    \/ x \in D /\ DrawinRank(x) = k

LEMMA PartsRight ==
    ASSUME TypeOK, Acyclic, stack \in Lists(managed), dying = NoWindow,
           NEW D \in SUBSET Drawins, drawins \in ListsOf(Drawins, D)
    PROVE  /\ Joined(managed \cup Drawins, Part, Visited, 8)
           /\ \A x \in managed \cup D : \A k \in 1..8 : x \in ToSet(Part[k]) <=> Shown(D, x, k)
<1> DEFINE C == managed \cup Drawins
<1>1. \A l : InLayer(l) \in Seq(managed)
             /\ \A w \in managed : w \in ToSet(InLayer(l)) <=> \E v \in Chain(w) : LayerOf(v) = l
  BY LayerRight
<1>2. \A b \in BOOLEAN : DrawinsOntop(b) \in Seq(Drawins)
                         /\ \A x : x \in ToSet(DrawinsOntop(b)) <=> x \in D /\ (b <=> x \in drawinOntop)
  BY DrawinsRight
<1>3. /\ Part[1] = InLayer("desktop") /\ Part[2] = DrawinsOntop(FALSE) /\ Part[3] = InLayer("below")
      /\ Part[4] = InLayer("normal") /\ Part[5] = InLayer("above") /\ Part[6] = InLayer("fullscreen")
      /\ Part[7] = InLayer("ontop") /\ Part[8] = DrawinsOntop(TRUE)
  BY DEF Part
<1>4. managed \cap Drawins = {}
  BY StackingAssumption DEF TypeOK
<1>5. \A k \in 1..8 : k \in {1, 3, 4, 5, 6, 7} \/ k \in {2, 8}
  OBVIOUS
<1>6. \A l : InLayer(l) \in Seq(C)
  <2> TAKE l
  <2>1. PICK q \in Seq(managed) : q = InLayer(l)
    BY <1>1
  <2>2. q \in Seq(C)
    OBVIOUS
  <2> QED BY <2>1, <2>2
<1>7. \A b \in BOOLEAN : DrawinsOntop(b) \in Seq(C)
  <2> TAKE b \in BOOLEAN
  <2>1. PICK q \in Seq(Drawins) : q = DrawinsOntop(b)
    BY <1>2
  <2>2. q \in Seq(C)
    OBVIOUS
  <2> QED BY <2>1, <2>2
<1>8. Joined(C, Part, Visited, 8)
  <2>1. \A m \in 1..8 : Part[m] \in Seq(C)
    <3>1. /\ Part[1] \in Seq(C) /\ Part[2] \in Seq(C) /\ Part[3] \in Seq(C) /\ Part[4] \in Seq(C)
          /\ Part[5] \in Seq(C) /\ Part[6] \in Seq(C) /\ Part[7] \in Seq(C) /\ Part[8] \in Seq(C)
      BY <1>3, <1>6, <1>7
    <3>2. \A m \in 1..8 : m \in {1, 2, 3, 4, 5, 6, 7, 8}
      OBVIOUS
    <3> QED BY <3>1, <3>2
  <2>2. Joined(C, Part, Part[1] \o Part[2] \o Part[3] \o Part[4] \o Part[5] \o Part[6] \o Part[7] \o Part[8], 8)
    BY <2>1, EightJoined
  <2>3. Visited = Part[1] \o Part[2] \o Part[3] \o Part[4] \o Part[5] \o Part[6] \o Part[7] \o Part[8]
    BY <1>3, Zenon DEF Visited
  <2> QED BY <2>2, <2>3
<1>9. \A v : /\ LayerOf(v) = "desktop" <=> Height[LayerOf(v)] = 1
             /\ LayerOf(v) = "below" <=> Height[LayerOf(v)] = 3
             /\ LayerOf(v) = "normal" <=> Height[LayerOf(v)] = 4
             /\ LayerOf(v) = "above" <=> Height[LayerOf(v)] = 5
             /\ LayerOf(v) = "fullscreen" <=> Height[LayerOf(v)] = 6
             /\ LayerOf(v) = "ontop" <=> Height[LayerOf(v)] = 7
             /\ Height[LayerOf(v)] # 2 /\ Height[LayerOf(v)] # 8
  BY DEF LayerOf, Height
<1>10. ASSUME NEW x \in managed, NEW k \in 1..8 PROVE x \in ToSet(Part[k]) <=> Shown(D, x, k)
  <2>1. x \notin D
    BY <1>4
  <2>2. CASE k \in {2, 8}
    <3>1. x \notin ToSet(Part[k])
      BY <1>2, <1>3, <2>1, <2>2
    <3> QED BY <1>9, <2>1, <2>2, <3>1 DEF Shown
  <2>3. CASE k \in {1, 3, 4, 5, 6, 7}
    <3>1. CASE k = 1
      BY <1>1, <1>3, <1>9, <2>1, <3>1 DEF Shown
    <3>2. CASE k = 3
      BY <1>1, <1>3, <1>9, <2>1, <3>2 DEF Shown
    <3>3. CASE k = 4
      BY <1>1, <1>3, <1>9, <2>1, <3>3 DEF Shown
    <3>4. CASE k = 5
      BY <1>1, <1>3, <1>9, <2>1, <3>4 DEF Shown
    <3>5. CASE k = 6
      BY <1>1, <1>3, <1>9, <2>1, <3>5 DEF Shown
    <3>6. CASE k = 7
      BY <1>1, <1>3, <1>9, <2>1, <3>6 DEF Shown
    <3> QED BY <2>3, <3>1, <3>2, <3>3, <3>4, <3>5, <3>6
  <2> QED BY <1>5, <2>2, <2>3
<1>11. ASSUME NEW x \in D, NEW k \in 1..8 PROVE x \in ToSet(Part[k]) <=> Shown(D, x, k)
  <2>1. x \notin managed
    BY <1>4
  <2>2. CASE k \in {1, 3, 4, 5, 6, 7}
    <3>1. \A l : x \notin ToSet(InLayer(l))
      <4> TAKE l
      <4>1. PICK q \in Seq(managed) : q = InLayer(l)
        BY <1>1
      <4>2. \A i \in DOMAIN q : q[i] \in managed
        OBVIOUS
      <4> QED BY <2>1, <4>1, <4>2 DEF ToSet
    <3>2. x \notin ToSet(Part[k])
      BY <1>3, <2>2, <3>1
    <3>3. DrawinRank(x) # k
      BY <2>2 DEF DrawinRank
    <3> QED BY <2>1, <3>2, <3>3 DEF Shown
  <2>3. CASE k = 2
    BY <1>2, <1>3, <2>1, <2>3 DEF Shown, DrawinRank
  <2>4. CASE k = 8
    BY <1>2, <1>3, <2>1, <2>4 DEF Shown, DrawinRank
  <2> QED BY <1>5, <2>2, <2>3, <2>4
<1> QED BY <1>8, <1>10, <1>11

\* the layer in which a client ends up: the highest of its chain
LEMMA RankRight ==
    ASSUME TypeOK, Acyclic, NEW c \in managed
    PROVE  /\ Rank(c) \in 1..7 /\ Rank(c) # 2
           /\ \E v \in Chain(c) : Height[LayerOf(v)] = Rank(c)
           /\ \A v \in Chain(c) : Height[LayerOf(v)] \in 0..7 /\ Height[LayerOf(v)] <= Rank(c)
<1> DEFINE H == {Height[LayerOf(w)] : w \in Chain(c)}
           L == {7 - h : h \in H}
<1>1. c \in Windows /\ c \in Chain(c) /\ Chain(c) \subseteq Windows
      /\ \A v \in Chain(c) : transientFor[v] \in Chain(c) \cup {NoWindow}
  <2>1. c \in Windows
    BY DEF TypeOK
  <2> QED BY <2>1, ChainRight
<1>2. \A v : Height[LayerOf(v)] \in {0, 1, 3, 4, 5, 6, 7}
  BY DEF Height, LayerOf
<1>3. H \subseteq 0..7 /\ 2 \notin H /\ H # {}
  <2>1. \A h \in H : h \in 0..7 /\ h # 2
    BY <1>2
  <2>2. Height[LayerOf(c)] \in H
    BY <1>1
  <2> QED BY <2>1, <2>2
<1>4. PICK r \in Chain(c) : transientFor[r] = NoWindow
  BY <1>1 DEF Acyclic
<1>5. Height[LayerOf(r)] >= 1 /\ Height[LayerOf(r)] \in H
  BY <1>4 DEF Height, LayerOf
<1>6. PICK m \in H : \A h \in H : m >= h
  <2> HIDE DEF H
  <2>1. L \in SUBSET Nat /\ L # {}
    <3>1. \A h \in H : 7 - h \in Nat
      BY <1>3
    <3> QED BY <1>3, <3>1
  <2>2. PICK i \in L : \A j \in L : i <= j
    <3> HIDE DEF L
    <3> QED BY <2>1, LeastNumber
  <2>3. PICK m \in H : i = 7 - m
    BY <2>2
  <2>4. \A h \in H : 7 - m <= 7 - h
    BY <2>2, <2>3
  <2> QED BY <1>3, <2>4
<1>7. Rank(c) \in H /\ \A h \in H : Rank(c) >= h
  BY <1>6 DEF Rank, Max
<1>8. PICK k : k = Rank(c)
  OBVIOUS
<1>9. k \in 1..7 /\ k # 2
  <2>1. k \in 0..7 /\ k # 2 /\ \A h \in H : h \in 0..7 /\ k >= h
    BY <1>3, <1>7, <1>8
  <2> QED BY <1>5, <2>1
<1> QED BY <1>2, <1>7, <1>8, <1>9

\* Where each time u is visited v is visited later, there is a last time.
LEMMA FollowedEnds ==
    ASSUME NEW C, NEW V \in Seq(C), NEW u \in ToSet(V), NEW v, Followed(V, u, v)
    PROVE  Ends(V, u, v)
<1> DEFINE n == Len(V)
           L == {n - i : i \in {k \in DOMAIN V : V[k] = u}}
<1>1. n \in Nat /\ DOMAIN V = 1..n
  OBVIOUS
<1> HIDE DEF n
<1>2. L \in SUBSET Nat /\ L # {}
  <2>1. \A i \in DOMAIN V : n - i \in Nat
    BY <1>1
  <2> QED BY <2>1 DEF ToSet
<1>3. PICK l \in L : \A m \in L : l <= m
  <2> HIDE DEF L
  <2> QED BY <1>2, LeastNumber
<1>4. PICK i \in DOMAIN V : V[i] = u /\ l = n - i
  OBVIOUS
<1>5. \A k \in DOMAIN V : V[k] = u => n - i <= n - k
  BY <1>3, <1>4
<1>6. PICK j \in DOMAIN V : i < j /\ V[j] = v
  BY <1>4 DEF Followed
<1>7. \A k \in DOMAIN V : k >= j => V[k] # u
  BY <1>1, <1>5, <1>6
<1> QED BY <1>6, <1>7 DEF Ends

\* What XFollowsStack says of an order of the windows.
Shows(x) ==
    /\ \A c \in managed, v \in managed : Rank(c) < Rank(v) => Place(x, c) < Place(x, v)
    /\ \A c \in managed : transientFor[c] # NoWindow => Place(x, transientFor[c]) < Place(x, c)
    /\ \A c \in managed, v \in managed :
         /\ transientFor[c] = NoWindow /\ transientFor[v] = NoWindow
         /\ LayerOf(c) = LayerOf(v) /\ Place(stack, c) < Place(stack, v)
         => Place(x, c) < Place(x, v)
    /\ \A d \in ToSet(drawins), c \in managed :
         IF DrawinRank(d) < Rank(c) THEN Place(x, d) < Place(x, c) ELSE Place(x, c) < Place(x, d)

\* stack_refresh puts the windows in that order, whatever order they were in.
LEMMA RefreshShows ==
    ASSUME TypeOK, Acyclic, stack \in Lists(managed), dying = NoWindow,
           drawins \in ListsOf(Drawins, ToSet(drawins)),
           xorder \in ListsOf(Windows \cup Drawins, managed \cup Drawins)
    PROVE  /\ Restacked(xorder, Visited) \in ListsOf(Windows \cup Drawins, managed \cup Drawins)
           /\ Shows(Restacked(xorder, Visited))
<1> DEFINE C == managed \cup Drawins
<1>1. PICK D : D = ToSet(drawins)
  OBVIOUS
<1>2. D \in SUBSET Drawins /\ drawins \in ListsOf(Drawins, D)
  BY <1>1 DEF ListsOf, ToSet
<1>3. PICK V : V = Visited
  OBVIOUS
<1>4. PICK x : x = Restacked(xorder, V)
  OBVIOUS
<1>5. /\ Joined(C, Part, V, 8)
      /\ \A w \in managed \cup D : \A k \in 1..8 : w \in ToSet(Part[k]) <=> Shown(D, w, k)
  BY <1>2, <1>3, PartsRight
<1>6. /\ V \in Seq(C)
      /\ \A w : w \in ToSet(V) <=> \E m \in 1..8 : w \in ToSet(Part[m])
      /\ \A u, v : \A m \in 1..8 :
           Ends(Part[m], u, v) /\ (\A j \in 1..8 : j > m => u \notin ToSet(Part[j])) => Ends(V, u, v)
      /\ \A u, v : (\A m \in 1..8 : Followed(Part[m], u, v)) => Followed(V, u, v)
  BY <1>5 DEF Joined
<1>7. /\ x \in ListsOf(Windows \cup Drawins, C)
      /\ \A u, v : u # v /\ u \in ToSet(V) /\ Ends(V, u, v) => Precedes(x, u, v)
  BY <1>4, <1>6, RestackedRight
<1>8. ASSUME NEW u \in C, NEW v \in C, u # v, u \in ToSet(V), Ends(V, u, v) PROVE Place(x, u) < Place(x, v)
  BY <1>7, <1>8, PlacesPrecede
<1>9. managed \subseteq Windows /\ managed \cap Drawins = {}
  BY StackingAssumption DEF TypeOK
<1>10. ASSUME NEW c \in managed
       PROVE  /\ Rank(c) \in 1..7 /\ Rank(c) # 2 /\ c \in ToSet(Part[Rank(c)]) /\ c \in ToSet(V)
              /\ \A j \in 1..8 : j > Rank(c) => c \notin ToSet(Part[j])
              /\ c \notin ToSet(Part[2]) /\ c \notin ToSet(Part[8])
  <2>1. PICK k : k = Rank(c)
    OBVIOUS
  <2>2. /\ k \in 1..7 /\ k # 2 /\ \E v \in Chain(c) : Height[LayerOf(v)] = k
        /\ \A v \in Chain(c) : Height[LayerOf(v)] \in 0..7 /\ Height[LayerOf(v)] <= k
    BY <2>1, RankRight
  <2>3. k \in 1..8 /\ 2 \in 1..8 /\ 8 \in 1..8
    BY <2>2
  <2>4. \A j \in 1..8 : c \in ToSet(Part[j]) <=> \E v \in Chain(c) : Height[LayerOf(v)] = j
    BY <1>2, <1>5, <1>9 DEF Shown
  <2>5. \A v : Height[LayerOf(v)] # 2 /\ Height[LayerOf(v)] # 8
    BY DEF Height, LayerOf
  <2>6. \A j \in 1..8 : j > k => c \notin ToSet(Part[j])
    BY <2>2, <2>4
  <2>7. c \in ToSet(Part[k]) /\ c \notin ToSet(Part[2]) /\ c \notin ToSet(Part[8])
    BY <2>2, <2>3, <2>4, <2>5
  <2> QED BY <1>6, <2>1, <2>2, <2>3, <2>6, <2>7
<1>11. ASSUME NEW d \in D
       PROVE  /\ DrawinRank(d) \in {2, 8} /\ d \in ToSet(Part[DrawinRank(d)]) /\ d \in ToSet(V)
              /\ \A j \in 1..8 : j > DrawinRank(d) => d \notin ToSet(Part[j])
  <2>1. PICK k : k = DrawinRank(d)
    OBVIOUS
  <2>2. k \in {2, 8} /\ k \in 1..8
    BY <2>1 DEF DrawinRank
  <2>3. \A j \in 1..8 : d \in ToSet(Part[j]) <=> j = k
    BY <1>2, <1>5, <1>9, <2>1 DEF Shown
  <2>4. \A j \in 1..8 : j > k => d \notin ToSet(Part[j])
    BY <2>2, <2>3
  <2> QED BY <1>6, <2>1, <2>2, <2>3, <2>4
<1>12. ASSUME NEW u \in C, NEW v \in C, NEW k \in 1..8, NEW m \in 1..8, k < m, u \in ToSet(V),
              \A j \in 1..8 : j > k => u \notin ToSet(Part[j]), v \in ToSet(Part[m])
       PROVE  Place(x, u) < Place(x, v)
  <2>1. u \notin ToSet(Part[m])
    BY <1>12
  <2>2. Ends(Part[m], u, v)
    BY <1>12, <2>1 DEF Ends, ToSet
  <2>3. \A j \in 1..8 : j > m => u \notin ToSet(Part[j])
    BY <1>12
  <2>4. Ends(V, u, v)
    BY <1>6, <2>2, <2>3
  <2> QED BY <1>8, <1>12, <2>1, <2>4
<1>13. ASSUME NEW c \in managed, NEW v \in managed, Rank(c) < Rank(v) PROVE Place(x, c) < Place(x, v)
  <2>1. PICK k, m : k = Rank(c) /\ m = Rank(v)
    OBVIOUS
  <2>2. k \in 1..8 /\ m \in 1..8 /\ k < m
    BY <1>10, <1>13, <2>1
  <2>3. c \in ToSet(V) /\ (\A j \in 1..8 : j > k => c \notin ToSet(Part[j])) /\ v \in ToSet(Part[m])
    BY <1>10, <2>1
  <2> QED BY <1>12, <2>2, <2>3
<1>14. ASSUME NEW c \in managed, transientFor[c] # NoWindow PROVE Place(x, transientFor[c]) < Place(x, c)
  <2>1. PICK p : p = transientFor[c]
    OBVIOUS
  <2>2. p \in managed
    BY <1>14, <2>1 DEF TypeOK
  <2>3. p # c
    <3>1. {c} \in SUBSET Windows /\ {c} # {}
      BY <1>9
    <3>2. transientFor[c] \notin {c}
      BY <3>1 DEF Acyclic
    <3> QED BY <2>1, <3>2
  <2>4. \A l : Followed(InLayer(l), p, c)
    BY <1>14, <2>1, LayerRight
  <2>5. Followed(Part[2], p, c) /\ Followed(Part[8], p, c)
    BY <1>10, <2>2 DEF Followed, ToSet
  <2>6. \A m \in 1..8 : Followed(Part[m], p, c)
    <3>1. /\ Part[1] = InLayer("desktop") /\ Part[3] = InLayer("below")
          /\ Part[4] = InLayer("normal") /\ Part[5] = InLayer("above") /\ Part[6] = InLayer("fullscreen")
          /\ Part[7] = InLayer("ontop")
      BY DEF Part
    <3>2. /\ Followed(Part[1], p, c) /\ Followed(Part[3], p, c) /\ Followed(Part[4], p, c)
          /\ Followed(Part[5], p, c) /\ Followed(Part[6], p, c) /\ Followed(Part[7], p, c)
      BY <2>4, <3>1
    <3>3. \A m \in 1..8 : m \in {1, 2, 3, 4, 5, 6, 7, 8}
      OBVIOUS
    <3> QED BY <2>5, <3>2, <3>3
  <2>7. Ends(V, p, c)
    <3>1. p \in ToSet(V) /\ Followed(V, p, c)
      BY <1>6, <1>10, <2>2, <2>6
    <3> QED BY <1>6, <3>1, FollowedEnds
  <2> QED BY <1>8, <1>10, <2>1, <2>2, <2>3, <2>7
<1>15. ASSUME NEW c \in managed, NEW v \in managed, transientFor[c] = NoWindow, transientFor[v] = NoWindow,
              LayerOf(c) = LayerOf(v), Place(stack, c) < Place(stack, v)
       PROVE  Place(x, c) < Place(x, v)
  <2>1. stack \in ListsOf(Windows, managed)
    BY DEF Lists
  <2>2. Precedes(stack, c, v)
    BY <1>15, <2>1, PlacesPrecede
  <2>3. PICK l : l = LayerOf(c)
    OBVIOUS
  <2>4. Ends(InLayer(l), c, v)
    BY <1>15, <2>2, <2>3, LayerRight
  <2>5. PICK k : k = Height[l]
    OBVIOUS
  <2>6. k \in 1..8 /\ Part[k] = InLayer(l)
    <3>1. /\ Part[1] = InLayer("desktop") /\ Part[3] = InLayer("below")
          /\ Part[4] = InLayer("normal") /\ Part[5] = InLayer("above") /\ Part[6] = InLayer("fullscreen")
          /\ Part[7] = InLayer("ontop")
      BY DEF Part
    <3>2. l \in {"desktop", "below", "normal", "above", "fullscreen", "ontop"}
      BY <1>15, <2>3 DEF LayerOf
    <3> QED BY <2>5, <3>1, <3>2 DEF Height
  <2>7. Chain(c) = {c}
    BY <1>9, <1>15, ChainRight
  <2>8. \A j \in 1..8 : j > k => c \notin ToSet(Part[j])
    <3>1. \A j \in 1..8 : c \in ToSet(Part[j]) => Height[LayerOf(c)] = j
      BY <1>2, <1>5, <1>9, <2>7 DEF Shown
    <3>2. \A j \in 1..8 : c \in ToSet(Part[j]) => k = j
      BY <2>3, <2>5, <3>1
    <3> QED BY <2>6, <3>2
  <2>9. Ends(V, c, v)
    BY <1>6, <2>4, <2>6, <2>8
  <2>10. c # v
    <3>1. Place(stack, c) \in DOMAIN stack /\ DOMAIN stack \subseteq Nat
      <4>1. stack \in Seq(Windows)
        BY <2>1 DEF ListsOf
      <4> QED BY <2>1, <4>1, PlaceRight
    <3> QED BY <1>15, <3>1
  <2> QED BY <1>8, <1>10, <2>9, <2>10
<1>16. ASSUME NEW d \in D, NEW c \in managed
       PROVE  IF DrawinRank(d) < Rank(c) THEN Place(x, d) < Place(x, c) ELSE Place(x, c) < Place(x, d)
  <2>1. PICK k, m : k = DrawinRank(d) /\ m = Rank(c)
    OBVIOUS
  <2>2. d \in C /\ c \in C
    BY <1>2
  <2>3. k \in 1..8 /\ m \in 1..8 /\ k # m /\ (~(k < m) => m < k)
    <3>1. k \in {2, 8} /\ m \in 1..7 /\ m # 2
      BY <1>10, <1>11, <2>1
    <3> QED BY <3>1
  <2>4. /\ d \in ToSet(V) /\ (\A j \in 1..8 : j > k => d \notin ToSet(Part[j])) /\ d \in ToSet(Part[k])
        /\ c \in ToSet(V) /\ (\A j \in 1..8 : j > m => c \notin ToSet(Part[j])) /\ c \in ToSet(Part[m])
    BY <1>10, <1>11, <2>1
  <2>5. CASE k < m
    BY <1>12, <2>1, <2>2, <2>3, <2>4, <2>5
  <2>6. CASE ~(k < m)
    BY <1>12, <2>1, <2>2, <2>3, <2>4, <2>6
  <2> QED BY <2>5, <2>6
<1>17. Shows(x)
  BY <1>1, <1>13, <1>14, <1>15, <1>16 DEF Shows
<1> QED BY <1>3, <1>4, <1>7, <1>17

-----------------------------------------------------------------------------
(* The order X shows. *)

\* X has the windows of the managed clients, of the client that is going away
\* and of the drawins, each once; a client that goes away leaves a restack to
\* be done; and globalconf.drawins holds no drawin twice.
XHolds ==
    /\ xorder \in ListsOf(Windows \cup Drawins, managed \cup Drawins \cup ({dying} \ {NoWindow}))
    /\ dying \notin managed
    /\ dying # NoWindow => needRestack
    /\ drawins \in ListsOf(Drawins, ToSet(drawins))

LEMMA XHoldsInit == Init => XHolds
<1> SUFFICES ASSUME Init PROVE XHolds
  OBVIOUS
<1>1. managed = {} /\ dying = NoWindow /\ drawins = <<>> /\ xorder \in SetToSeqs(Drawins)
  BY DEF Init
<1>2. drawins \in ListsOf(Drawins, ToSet(drawins))
  BY <1>1 DEF ListsOf, IsInjective
<1> DEFINE n == Cardinality(Drawins)
<1>3. n \in Nat /\ IsFiniteSet(Drawins)
  BY FS_CardinalityType, StackingAssumption
<1>4. xorder \in [1..n -> Drawins] /\ \A i, j \in 1..n : i # j => xorder[i] # xorder[j]
  BY <1>1 DEF SetToSeqs
<1> HIDE DEF n
<1>5. {xorder[i] : i \in 1..n} = Drawins
  <2>1. xorder \in Injection(1..n, Drawins)
    BY <1>4 DEF Injection, IsInjective
  <2>2. Cardinality(1..n) = n
    <3>1. Cardinality(1..n) = IF 1 > n THEN 0 ELSE n - 1 + 1
      BY <1>3, FS_Interval
    <3> QED BY <1>3, <3>1
  <2>3. xorder \in Surjection(1..n, Drawins)
    BY <1>3, <2>1, <2>2, FS_Injection DEF n
  <2> QED BY <1>4, <2>3 DEF Surjection
<1>6. xorder \in Seq(Windows \cup Drawins) /\ DOMAIN xorder = 1..n
  <2>1. xorder \in [1..n -> Windows \cup Drawins]
    BY <1>4
  <2> QED BY <1>3, <2>1
<1>7. xorder \in ListsOf(Windows \cup Drawins, Drawins)
  BY <1>4, <1>5, <1>6 DEF ListsOf, ToSet, IsInjective
<1> QED BY <1>1, <1>2, <1>7 DEF XHolds

LEMMA XHoldsNext ==
    ASSUME TypeOK, Acyclic, stack \in Lists(managed), XHolds, [Next]_vars
    PROVE  XHolds'
<1> DEFINE T == Windows \cup Drawins
           C == managed \cup Drawins \cup ({dying} \ {NoWindow})
<1>0. /\ managed \subseteq Windows /\ Windows \cap Drawins = {} /\ NoWindow \notin T
      /\ xorder \in ListsOf(T, C) /\ dying \notin managed /\ (dying # NoWindow => needRestack)
      /\ drawins \in ListsOf(Drawins, ToSet(drawins))
  BY StackingAssumption DEF TypeOK, XHolds
<1>1. ASSUME NEW c \in Windows, NEW w, NEW l, NEW desk, Manage(c, w, l, desk) PROVE XHolds'
  <2>1. /\ c \notin managed /\ dying = NoWindow /\ managed' = managed \cup {c} /\ xorder' = <<c>> \o xorder
        /\ dying' = dying /\ drawins' = drawins
    BY <1>1 DEF Manage
  <2>2. c \notin ToSet(xorder)
    BY <1>0, <2>1 DEF ListsOf
  <2>3. xorder' = StackPush(xorder, c)
    BY <2>1, <2>2 DEF StackPush, StackRemove
  <2>4. xorder' \in ListsOf(T, C \cup {c})
    <3>1. c \in T
      OBVIOUS
    <3> QED BY <1>0, <2>3, <3>1, PushList
  <2>5. C \cup {c} = managed' \cup Drawins \cup ({dying'} \ {NoWindow})
    BY <2>1
  <2>6. dying' \notin managed'
    BY <1>0, <2>1
  <2> QED BY <1>0, <2>1, <2>4, <2>5, <2>6 DEF XHolds
<1>2. ASSUME NEW c \in Windows, Unmanage(c) PROVE XHolds'
  <2>1. /\ c \in managed /\ dying = NoWindow /\ managed' = managed \ {c} /\ xorder' = xorder
        /\ dying' = c /\ drawins' = drawins /\ needRestack'
    BY <1>2 DEF Unmanage
  <2>2. C = managed' \cup Drawins \cup ({dying'} \ {NoWindow})
    BY <1>0, <2>1
  <2> QED BY <1>0, <2>1, <2>2 DEF XHolds
<1>3. ASSUME NEW c \in Windows, Unmanaged(c) PROVE XHolds'
  <2>1. /\ dying = c /\ c # NoWindow /\ dying' = NoWindow /\ xorder' = StackRemove(xorder, c)
        /\ managed' = managed /\ drawins' = drawins
    BY <1>3 DEF Unmanaged
  <2>2. xorder' \in ListsOf(T, C \ {c})
    BY <1>0, <2>1, RemoveList
  <2>3. C \ {c} = managed' \cup Drawins \cup ({dying'} \ {NoWindow})
    BY <1>0, <2>1
  <2>4. dying' \notin managed'
    BY <1>0, <2>1
  <2> QED BY <1>0, <2>1, <2>2, <2>3, <2>4 DEF XHolds
<1>4. ASSUME NEW d \in Drawins, ShowDrawin(d) PROVE XHolds'
  <2>1. d \notin ToSet(drawins) /\ drawins' = Append(drawins, d) /\ UNCHANGED <<managed, dying, xorder>> /\ needRestack'
    BY <1>4 DEF ShowDrawin
  <2>2. drawins' = StackAppend(drawins, d)
    BY <2>1 DEF StackAppend, StackRemove
  <2>3. drawins' \in ListsOf(Drawins, ToSet(drawins) \cup {d})
    BY <1>0, <2>2, AppendList
  <2>4. drawins' \in ListsOf(Drawins, ToSet(drawins'))
    BY <2>3 DEF ListsOf
  <2> QED BY <1>0, <2>1, <2>4 DEF XHolds
<1>5. ASSUME NEW d \in Drawins, HideDrawin(d) PROVE XHolds'
  <2>1. drawins' = StackRemove(drawins, d) /\ UNCHANGED <<managed, dying, xorder, needRestack>>
    BY <1>5 DEF HideDrawin
  <2>2. drawins' \in ListsOf(Drawins, ToSet(drawins) \ {d})
    BY <1>0, <2>1, RemoveList
  <2>3. drawins' \in ListsOf(Drawins, ToSet(drawins'))
    BY <2>2 DEF ListsOf
  <2> QED BY <1>0, <2>1, <2>3 DEF XHolds
<1>6. CASE StackRefresh
  <2>1. /\ dying = NoWindow /\ xorder' = Restacked(xorder, Visited)
        /\ UNCHANGED <<managed, dying, drawins>>
    BY <1>6 DEF StackRefresh
  <2>2. xorder \in ListsOf(Windows \cup Drawins, managed \cup Drawins)
    <3>1. C = managed \cup Drawins
      BY <2>1
    <3> QED BY <1>0, <3>1
  <2>3. xorder' \in ListsOf(Windows \cup Drawins, managed \cup Drawins)
    BY <1>0, <2>1, <2>2, RefreshShows
  <2>4. managed \cup Drawins = managed' \cup Drawins \cup ({dying'} \ {NoWindow})
    BY <2>1
  <2> QED BY <1>0, <2>1, <2>3, <2>4 DEF XHolds
<1>7. ASSUME UNCHANGED <<managed, dying, drawins, xorder>>, needRestack => needRestack' PROVE XHolds'
  BY <1>7 DEF XHolds
<1>8. ASSUME NEW c \in Windows, Raise(c) \/ Lower(c) PROVE XHolds'
  BY <1>7, <1>8 DEF Raise, Lower
<1>9. ASSUME NEW c \in Windows, NEW w \in Opt, UpdateTransientFor(c, w) PROVE XHolds'
  <2>1. UNCHANGED <<managed, dying, drawins, xorder>> /\ (needRestack => needRestack')
    BY <1>9 DEF UpdateTransientFor
  <2> QED BY <1>7, <2>1
<1>10. ASSUME NEW c \in Windows, NEW l \in Layers, NEW on \in BOOLEAN, SetLayer(c, l, on) PROVE XHolds'
  <2>1. UNCHANGED <<managed, dying, drawins, xorder>> /\ needRestack'
    BY <1>10 DEF SetLayer
  <2> QED BY <1>7, <2>1
<1>11. ASSUME NEW c \in Opt, Focus(c) PROVE XHolds'
  <2>1. UNCHANGED <<managed, dying, drawins, xorder>> /\ needRestack' = needRestack
    BY <1>11 DEF Focus
  <2> QED BY <1>7, <2>1
<1>12. ASSUME NEW d \in Drawins, SetDrawinOntop(d) PROVE XHolds'
  <2>1. UNCHANGED <<managed, dying, drawins, xorder>> /\ needRestack'
    BY <1>12 DEF SetDrawinOntop
  <2> QED BY <1>7, <2>1
<1>13. CASE UNCHANGED vars
  BY <1>7, <1>13 DEF vars
<1> QED
  BY <1>1, <1>2, <1>3, <1>4, <1>5, <1>6, <1>8, <1>9, <1>10, <1>11, <1>12, <1>13 DEF Next

\* What decides the order is the same, and the drawins are not more: the
\* order y of the windows, once right, still is.
LEMMA ShowsKept ==
    ASSUME NEW y, Shows(y), xorder' = y, UNCHANGED <<managed, stack, transientFor, drawinOntop>>,
           managed \subseteq Windows, \A w \in Windows : LayerOf(w)' = LayerOf(w),
           ToSet(drawins') \subseteq ToSet(drawins)
    PROVE  Shows(xorder)'
<1>1. \A c \in Windows : Chain(c)' = Chain(c) /\ Chain(c) \subseteq Windows
  BY DEF Chain
<1>2. ASSUME NEW c \in Windows PROVE Rank(c)' = Rank(c)
  <2>1. {Height[LayerOf(w)'] : w \in Chain(c)'} = {Height[LayerOf(w)] : w \in Chain(c)}
    BY <1>1
  <2> QED BY <2>1 DEF Rank
<1>3. \A d : DrawinRank(d)' = DrawinRank(d)
  BY DEF DrawinRank
<1>4. /\ managed' = managed /\ transientFor' = transientFor /\ stack' = stack
      /\ \A c \in managed : Rank(c)' = Rank(c) /\ LayerOf(c)' = LayerOf(c)
  BY <1>2
<1>5. /\ \A c \in managed', v \in managed' : Rank(c)' < Rank(v)' => Place(y, c) < Place(y, v)
      /\ \A c \in managed' : transientFor'[c] # NoWindow => Place(y, transientFor'[c]) < Place(y, c)
  BY <1>4 DEF Shows
<1>6. \A c \in managed', v \in managed' :
         /\ transientFor'[c] = NoWindow /\ transientFor'[v] = NoWindow
         /\ LayerOf(c)' = LayerOf(v)' /\ Place(stack', c) < Place(stack', v)
         => Place(y, c) < Place(y, v)
  BY <1>4 DEF Shows
<1>7. \A d \in ToSet(drawins'), c \in managed' :
         IF DrawinRank(d)' < Rank(c)' THEN Place(y, d) < Place(y, c) ELSE Place(y, c) < Place(y, d)
  BY <1>3, <1>4 DEF Shows
<1>8. \A c : Place(xorder, c)' = Place(y, c) /\ Place(stack, c)' = Place(stack', c)
  BY DEF Place
<1>9. ToSet(drawins)' = ToSet(drawins')
  BY DEF ToSet
<1> QED BY <1>5, <1>6, <1>7, <1>8, <1>9 DEF Shows

\* While no restack is pending and nothing changed unasked, X shows the order
\* that the layers, the relation and the list ask for.
LEMMA FollowsNext ==
    ASSUME TypeOK, Acyclic, stack \in Lists(managed), XHolds, XFollowsStack, [Next]_vars
    PROVE  XFollowsStack'
<1>0. managed \subseteq Windows
  BY DEF TypeOK
<1>1. XFollowsStack <=> (~needRestack /\ ~unasked /\ dying = NoWindow => Shows(xorder))
  BY DEF XFollowsStack, Shows, Under
<1>2. SUFFICES ASSUME ~needRestack', ~unasked', dying' = NoWindow PROVE Shows(xorder)'
  BY DEF XFollowsStack, Shows, Under
<1>3. CASE StackRefresh
  <2>1. /\ dying = NoWindow /\ xorder' = Restacked(xorder, Visited)
        /\ UNCHANGED <<managed, stack, transientFor, layer, desktop, focus, drawins, drawinOntop>>
    BY <1>3 DEF StackRefresh
  <2>2. xorder \in ListsOf(Windows \cup Drawins, managed \cup Drawins) /\ drawins \in ListsOf(Drawins, ToSet(drawins))
    <3>1. managed \cup Drawins \cup ({dying} \ {NoWindow}) = managed \cup Drawins
      BY <2>1
    <3> QED BY <3>1 DEF XHolds
  <2>3. PICK y : y = Restacked(xorder, Visited)
    OBVIOUS
  <2>4. Shows(y)
    BY <2>1, <2>2, <2>3, RefreshShows
  <2>5. \A w \in Windows : LayerOf(w)' = LayerOf(w)
    BY <2>1 DEF LayerOf
  <2> QED BY <1>0, <2>1, <2>3, <2>4, <2>5, ShowsKept
<1>4. ASSUME UNCHANGED <<managed, stack, transientFor, drawinOntop, xorder, dying>>,
             \A w \in Windows : LayerOf(w)' = LayerOf(w), ToSet(drawins') \subseteq ToSet(drawins),
             ~needRestack, ~unasked
      PROVE  Shows(xorder)'
  <2>1. PICK y : y = xorder
    OBVIOUS
  <2>2. Shows(y)
    BY <1>1, <1>2, <1>4, <2>1
  <2>3. xorder' = y
    BY <1>4, <2>1
  <2> QED BY <1>0, <1>4, <2>2, <2>3, ShowsKept
<1>5. ASSUME NEW c \in Windows, NEW w \in Opt, UpdateTransientFor(c, w) PROVE Shows(xorder)'
  <2>1. /\ UNCHANGED <<managed, stack, desktop, focus, dying, drawins, drawinOntop, xorder>>
        /\ layer' = layer /\ transientFor' = transientFor /\ ~needRestack /\ ~unasked
    <3>1. needRestack' = (needRestack \/ layer' # layer) /\ unasked' = (unasked \/ transientFor' # transientFor)
      BY <1>5 DEF UpdateTransientFor
    <3>2. UNCHANGED <<managed, stack, desktop, focus, dying, drawins, drawinOntop, xorder>>
      BY <1>5 DEF UpdateTransientFor
    <3> QED BY <1>2, <3>1, <3>2
  <2>2. \A v \in Windows : LayerOf(v)' = LayerOf(v)
    BY <2>1 DEF LayerOf
  <2> QED BY <1>4, <2>1, <2>2
<1>6. ASSUME NEW c \in Opt, Focus(c) PROVE Shows(xorder)'
  <2>1. /\ focus' = c
        /\ UNCHANGED <<managed, stack, transientFor, layer, desktop, dying, drawins, drawinOntop, needRestack, xorder>>
    BY <1>6 DEF Focus
  <2>2. ~unasked /\ \A w \in {focus, c} \ {NoWindow} : "fullscreen" \notin layer[w]
    <3>1. unasked' = (unasked \/ \E w \in {focus, c} \ {NoWindow} : "fullscreen" \in layer[w])
      BY <1>6 DEF Focus
    <3> QED BY <1>2, <3>1
  <2>3. ASSUME NEW w \in Windows PROVE LayerOf(w)' = LayerOf(w)
    <3>1. "fullscreen" \in layer[w] => focus # w /\ focus' # w
      BY <2>1, <2>2, StackingAssumption
    <3> QED BY <2>1, <3>1 DEF LayerOf
  <2> QED BY <1>2, <1>4, <2>1, <2>2, <2>3
<1>7. ASSUME NEW d \in Drawins, HideDrawin(d) PROVE Shows(xorder)'
  <2>1. /\ drawins' = StackRemove(drawins, d)
        /\ UNCHANGED <<managed, stack, transientFor, layer, desktop, focus, dying, drawinOntop, needRestack,
                       xorder, unasked>>
    BY <1>7 DEF HideDrawin
  <2>2. ToSet(drawins') \subseteq ToSet(drawins)
    <3>1. drawins' \in ListsOf(Drawins, ToSet(drawins) \ {d})
      BY <2>1, RemoveList DEF XHolds
    <3> QED BY <3>1 DEF ListsOf
  <2>3. \A w \in Windows : LayerOf(w)' = LayerOf(w)
    BY <2>1 DEF LayerOf
  <2> QED BY <1>2, <1>4, <2>1, <2>2, <2>3
<1>8. CASE UNCHANGED vars
  <2>1. UNCHANGED <<managed, stack, transientFor, layer, desktop, focus, dying, drawins, drawinOntop, needRestack,
                    xorder, unasked>>
    BY <1>8 DEF vars
  <2>2. \A w \in Windows : LayerOf(w)' = LayerOf(w)
    BY <2>1 DEF LayerOf
  <2> QED BY <1>2, <1>4, <2>1, <2>2
<1>9. ASSUME NEW c \in Windows, Unmanage(c) \/ Raise(c) \/ Lower(c) PROVE FALSE
  BY <1>2, <1>9 DEF Unmanage, Raise, Lower
<1>10. ASSUME NEW c \in Windows, NEW w \in Opt, NEW l \in NewLayer, NEW desk \in BOOLEAN, Manage(c, w, l, desk) PROVE FALSE
  BY <1>2, <1>10 DEF Manage
<1>11. ASSUME NEW c \in Windows, NEW l \in Layers, NEW on \in BOOLEAN, SetLayer(c, l, on) PROVE FALSE
  BY <1>2, <1>11 DEF SetLayer
<1>12. ASSUME NEW d \in Drawins, ShowDrawin(d) \/ SetDrawinOntop(d) PROVE FALSE
  BY <1>2, <1>12 DEF ShowDrawin, SetDrawinOntop
<1>13. ASSUME NEW c \in Windows, Unmanaged(c) PROVE FALSE
  <2>1. dying # NoWindow /\ needRestack' = needRestack
    BY <1>13 DEF Unmanaged
  <2> QED BY <1>2, <2>1 DEF XHolds
<1> QED
  BY <1>3, <1>5, <1>6, <1>7, <1>8, <1>9, <1>10, <1>11, <1>12, <1>13 DEF Next

\* The X server shows the order that the flags, the relation and the list ask
\* for, for every number of clients and drawins and whatever is raised, lowered
\* and re-parented, whenever no restack is pending and nothing that decides the
\* order changed without one being asked for.
THEOREM OrderKept == Spec => []XFollowsStack
<1> DEFINE Kept == stack \in Lists(managed)
<1>1. Init => Kept /\ XHolds /\ XFollowsStack
  <2> SUFFICES ASSUME Init PROVE Kept /\ XHolds /\ XFollowsStack
    OBVIOUS
  <2>1. Kept
    BY DEF Init, Lists, ListsOf, ToSet, IsInjective
  <2>2. managed = {} /\ ToSet(drawins) = {}
    BY DEF Init, ToSet
  <2>3. XFollowsStack
    BY <2>2 DEF XFollowsStack
  <2> QED BY <2>1, <2>3, XHoldsInit
<1>2. TypeOK /\ Acyclic /\ Kept /\ XHolds /\ XFollowsStack /\ [Next]_vars => XHolds' /\ XFollowsStack'
  BY XHoldsNext, FollowsNext
<1> QED
  BY <1>1, <1>2, StackKept, StackingTypes, TransientsAcyclic, PTL DEF Spec
=============================================================================
