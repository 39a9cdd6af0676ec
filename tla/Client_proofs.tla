--------------------------- MODULE Client_proofs ---------------------------
(* What the manager keeps of a client and tells others of it: proofs about layers, states, properties, desktops and geometry. *)
EXTENDS SpecialLayers, WmState, Properties, Desktops, ClientGeometry, EventQueues, FiniteSetTheorems

-----------------------------------------------------------------------------
\* an operation that publishes the layers
Publishes(x) == x.op = "emit" /\ x.layer # "ontop"
Settles(x) == x.op \in {"call", "assign"}

\* the flags are published, or will be; a flag that is about to change will be
WillPublish ==
    /\ \A i \in DOMAIN todo : todo[i].op = "assign" /\ todo[i].layer # "ontop"
                             => \E j \in DOMAIN todo : i < j /\ Publishes(todo[j])
    /\ published = PublishedLayers \/ \E j \in DOMAIN todo : Publishes(todo[j])

\* the request is about to begin, or: a layer that should not be set will be
\* cleared, a layer that should be is set, will be, or was undone by a handler, and
\* no operation sets or clears another layer than it may
WillGrant ==
    \/ todo = <<Call(request.layer, request.on)>> /\ flags = request.before
    \/ /\ \A l \in flags : l \in Granted(request) \/ l \in SetByHandlers
                            \/ \E o \in Elements(todo) : Settles(o) /\ ~o.on /\ o.layer = l
       /\ \A l \in Granted(request) : l \in flags \/ UndoneByHandler(l)
                            \/ \E o \in Elements(todo) : Settles(o) /\ o.on /\ o.layer = l
       /\ \A o \in Elements(todo) : Settles(o) /\ o.on
             => o.layer \in SetByHandlers \/ (o.op = "assign" /\ request.on /\ o.layer = request.layer)
       /\ \A o \in Elements(todo) : Settles(o) /\ ~o.on /\ o.layer \in Granted(request) => UndoneByHandler(o.layer)

LayersInv == TypeOK /\ WillPublish /\ (request.layer # NoLayer => WillGrant)

-----------------------------------------------------------------------------
(* What a setter does *)

LEMMA OpTypes ==
    ASSUME NEW l \in Layer, NEW on \in BOOLEAN
    PROVE  /\ Call(l, on) \in Op /\ Call(l, on).op = "call" /\ Call(l, on).layer = l /\ Call(l, on).on = on
           /\ Assign(l, on) \in Op /\ Assign(l, on).op = "assign" /\ Assign(l, on).layer = l /\ Assign(l, on).on = on
           /\ Emit(l) \in Op /\ Emit(l).op = "emit" /\ Emit(l).layer = l
BY DEF Call, Assign, Emit, Op

LEMMA OthersAre ==
    ASSUME NEW l \in Layer
    PROVE  /\ OtherLayers(l) \in Seq(Layer) /\ DOMAIN OtherLayers(l) = 1..3
           /\ \A i \in 1..3 : OtherLayers(l)[i] \in Layer \ {l}
           /\ \A m \in Layer \ {l} : \E i \in 1..3 : OtherLayers(l)[i] = m
<1>1. PICK a \in Layer, b \in Layer, c \in Layer : OtherLayers(l) = <<a, b, c>> /\ Layer = {l, a, b, c} /\ l \notin {a, b, c}
  BY DEF OtherLayers, Layer
<1>2. /\ OtherLayers(l) \in Seq(Layer) /\ DOMAIN OtherLayers(l) = 1..3
      /\ OtherLayers(l)[1] = a /\ OtherLayers(l)[2] = b /\ OtherLayers(l)[3] = c
  BY <1>1, ShortSequences
<1>3. \A i \in 1..3 : OtherLayers(l)[i] \in Layer \ {l}
  <2>1. \A i \in 1..3 : i = 1 \/ i = 2 \/ i = 3
    OBVIOUS
  <2> QED BY <1>1, <1>2, <2>1
<1>4. \A m \in Layer \ {l} : \E i \in 1..3 : OtherLayers(l)[i] = m
  <2>1. 1 \in 1..3 /\ 2 \in 1..3 /\ 3 \in 1..3
    OBVIOUS
  <2> QED BY <1>1, <1>2, <2>1
<1> QED BY <1>2, <1>3, <1>4

\* the other layers are cleared first, then comes the flag, then the signals
LEMMA BodyShape ==
    ASSUME NEW l \in Layer, NEW on \in BOOLEAN
    PROVE  /\ Body(l, on) \in Seq(Op)
           /\ \E k \in DOMAIN Body(l, on) :
                 /\ Body(l, on)[k] = Assign(l, on) /\ k + 1 \in DOMAIN Body(l, on)
                 /\ \A j \in DOMAIN Body(l, on) : k < j => Body(l, on)[j] = Emit(l)
                 /\ \A j \in DOMAIN Body(l, on) :
                       j < k => \E m \in Layer \ {l} : Body(l, on)[j] = Call(m, FALSE)
                 /\ on => \A m \in Layer \ {l} : \E j \in DOMAIN Body(l, on) : j < k /\ Body(l, on)[j] = Call(m, FALSE)
                 /\ ~on => k = 1
<1> DEFINE o == OtherLayers(l)
           c == [i \in DOMAIN o |-> Call(o[i], FALSE)]
           p == IF on THEN c ELSE <<>>
           n == Len(p)
           s == SetAndEmit(l, on)
           b == Body(l, on)
<1>1. DOMAIN o = 1..3 /\ (\A i \in 1..3 : o[i] \in Layer \ {l}) /\ \A m \in Layer \ {l} : \E i \in 1..3 : o[i] = m
  BY OthersAre
<1> HIDE DEF o
<1>2. p \in Seq(Op) /\ n \in Nat /\ (on => n = 3) /\ (~on => n = 0)
      /\ \A i \in 1..n : on /\ p[i] = Call(o[i], FALSE)
  <2>1. CASE on
    <3>1. \A i \in 1..3 : Call(o[i], FALSE) \in Op
      BY <1>1, OpTypes
    <3>2. c \in Seq(Op) /\ Len(c) = 3 /\ \A i \in 1..3 : c[i] = Call(o[i], FALSE)
      <4>1. c = [i \in 1..3 |-> Call(o[i], FALSE)]
        BY <1>1
      <4> HIDE DEF c
      <4>2. 3 \in Nat /\ c \in [1..3 -> Op] /\ \A i \in 1..3 : c[i] = Call(o[i], FALSE)
        BY <3>1, <4>1
      <4> QED BY <4>2, FunctionSequence
    <3>3. p = c
      BY <2>1
    <3>4. p \in Seq(Op) /\ n = 3 /\ \A i \in 1..3 : p[i] = Call(o[i], FALSE)
      <4> HIDE DEF c, p
      <4> QED BY <3>2, <3>3
    <3> HIDE DEF n, c, p
    <3> QED BY <2>1, <3>4
  <2>2. CASE ~on
    <3>1. p = <<>>
      BY <2>2
    <3> HIDE DEF p
    <3> QED BY <2>2, <3>1
  <2> QED BY <2>1, <2>2
<1>3. s \in Seq(Op) /\ Len(s) \in {2, 3} /\ s[1] = Assign(l, on) /\ \A i \in 2..Len(s) : s[i] = Emit(l)
  <2> DEFINE a == Assign(l, on)
             e == Emit(l)
  <2>1. a \in Op /\ e \in Op
    BY OpTypes
  <2>2. s = <<a>> \o IF l = "fullscreen" THEN <<e, e>> ELSE <<e>>
    BY DEF SetAndEmit
  <2> HIDE DEF a, e, s
  <2>3. CASE l = "fullscreen"
    <3>1. s = <<a>> \o <<e, e>>
      BY <2>2, <2>3
    <3>2. s \in Seq(Op) /\ Len(s) = 3 /\ s[1] = a /\ s[2] = e /\ s[3] = e
      BY <2>1, <3>1
    <3>3. \A i \in 2..3 : i = 2 \/ i = 3
      OBVIOUS
    <3> QED BY <3>2, <3>3 DEF a, e
  <2>4. CASE l # "fullscreen"
    <3>1. s = <<a>> \o <<e>>
      BY <2>2, <2>4
    <3>2. s \in Seq(Op) /\ Len(s) = 2 /\ s[1] = a /\ s[2] = e
      BY <2>1, <3>1
    <3>3. \A i \in 2..2 : i = 2
      OBVIOUS
    <3> QED BY <3>2, <3>3 DEF a, e
  <2> QED BY <2>3, <2>4
<1>4. b = p \o s
  BY DEF Body, o
<1> HIDE DEF p, s, b
<1>5. /\ b \in Seq(Op) /\ Len(b) = n + Len(s) /\ DOMAIN b = 1..(n + Len(s)) /\ Len(s) \in Nat
      /\ \A i \in 1..(n + Len(s)) : b[i] = IF i <= n THEN p[i] ELSE s[i - n]
  BY <1>2, <1>3, <1>4, ConcatProperties
<1> HIDE DEF n
<1> DEFINE k == n + 1
<1>6. k \in DOMAIN b /\ k + 1 \in DOMAIN b /\ b[k] = Assign(l, on) /\ (~on => k = 1)
  <2>1. k \in 1..(n + Len(s)) /\ ~(k <= n) /\ k - n = 1 /\ k + 1 \in 1..(n + Len(s))
    <3>1. n \in Nat /\ (Len(s) = 2 \/ Len(s) = 3)
      BY <1>2, <1>3
    <3> QED BY <3>1
  <2> QED BY <1>2, <1>3, <1>5, <2>1
<1>7. ASSUME NEW j \in DOMAIN b, k < j PROVE b[j] = Emit(l)
  <2>1. j - n \in 2..Len(s) /\ ~(j <= n) /\ j \in 1..(n + Len(s))
    BY <1>2, <1>3, <1>5, <1>7
  <2> QED BY <1>3, <1>5, <2>1
<1>8. ASSUME NEW j \in DOMAIN b, j < k PROVE \E m \in Layer \ {l} : b[j] = Call(m, FALSE)
  <2>1. j \in 1..n /\ j <= n /\ j \in 1..(n + Len(s))
    BY <1>2, <1>3, <1>5, <1>8
  <2>2. b[j] = Call(o[j], FALSE) /\ on
    BY <1>2, <1>5, <2>1
  <2>3. j \in 1..3
    BY <1>2, <2>1, <2>2
  <2> QED BY <1>1, <2>2, <2>3
<1>9. ASSUME on, NEW m \in Layer \ {l}
      PROVE  \E j \in DOMAIN b : j < k /\ b[j] = Call(m, FALSE)
  <2>1. PICK i \in 1..3 : o[i] = m
    BY <1>1
  <2>2. n = 3 /\ i \in 1..n /\ i <= n /\ i < k /\ i \in 1..(n + Len(s))
    BY <1>2, <1>3, <1>5, <1>9
  <2>3. b[i] = Call(m, FALSE)
    BY <1>2, <1>5, <2>1, <2>2
  <2> QED BY <1>5, <2>2, <2>3
<1> QED BY <1>5, <1>6, <1>7, <1>8, <1>9 DEF b

-----------------------------------------------------------------------------
(* The operation that is done is the first one *)

LEMMA HeadOp ==
    ASSUME TypeOK, todo # <<>>
    PROVE  /\ todo \in Seq(Op) /\ Head(todo) \in Op /\ Head(todo) = todo[1] /\ 1 \in DOMAIN todo
           /\ Head(todo).layer \in Layer /\ Head(todo).on \in BOOLEAN /\ Head(todo).op \in {"call", "assign", "emit"}
<1>1. todo \in Seq(Op)
  BY DEF TypeOK
<1>2. Head(todo) \in Op /\ Head(todo) = todo[1] /\ 1 \in DOMAIN todo
  BY <1>1
<1> QED BY <1>1, <1>2 DEF Op

LEMMA TodoMore ==
    ASSUME TypeOK, todo # <<>>, NEW p \in Seq(Op), todo' = p \o Tail(todo)
    PROVE  /\ Len(p) \in Nat /\ DOMAIN p = 1..Len(p) /\ DOMAIN todo = 1..Len(todo) /\ Head(todo) = todo[1]
           /\ 1 \in DOMAIN todo /\ todo' \in Seq(Op) /\ DOMAIN todo' \subseteq Nat /\ DOMAIN todo \subseteq Nat \ {0}
           /\ \A i \in DOMAIN p : i \in DOMAIN todo' /\ todo'[i] = p[i]
           /\ \A i \in DOMAIN todo' : i \in DOMAIN p \/ (i - Len(p) + 1 \in DOMAIN todo /\ i > Len(p) /\ todo'[i] = todo[i - Len(p) + 1])
           /\ \A i \in DOMAIN todo : i > 1 => i - 1 + Len(p) \in DOMAIN todo' /\ todo'[i - 1 + Len(p)] = todo[i]
<1>1. todo \in Seq(Op)
  BY DEF TypeOK
<1> DEFINE r == todo'
<1>2. r = p \o Tail(todo)
  OBVIOUS
<1> HIDE DEF r
<1>3. /\ r \in Seq(Op) /\ Len(p) \in Nat /\ DOMAIN p = 1..Len(p) /\ DOMAIN todo = 1..Len(todo) /\ Head(todo) = todo[1]
      /\ 1 \in DOMAIN todo
      /\ \A i \in DOMAIN p : i \in DOMAIN r /\ r[i] = p[i]
      /\ \A i \in DOMAIN r : i \in DOMAIN p \/ (i - Len(p) + 1 \in DOMAIN todo /\ i > Len(p) /\ r[i] = todo[i - Len(p) + 1])
      /\ \A i \in DOMAIN todo : i > 1 => i - 1 + Len(p) \in DOMAIN r /\ r[i - 1 + Len(p)] = todo[i]
  BY SMTT(30), <1>1, <1>2, ReplaceHead
<1>4. DOMAIN r \subseteq Nat /\ DOMAIN todo \subseteq Nat \ {0}
  BY <1>1, <1>3
<1> QED BY <1>3, <1>4 DEF r

LEMMA TodoLess ==
    ASSUME TypeOK, todo # <<>>, todo' = Tail(todo)
    PROVE  /\ DOMAIN todo = 1..Len(todo) /\ Head(todo) = todo[1] /\ 1 \in DOMAIN todo
           /\ todo' \in Seq(Op) /\ DOMAIN todo' \subseteq Nat /\ DOMAIN todo \subseteq Nat \ {0}
           /\ \A i \in DOMAIN todo' : i + 1 \in DOMAIN todo /\ i + 1 > 1 /\ todo'[i] = todo[i + 1]
           /\ \A i \in DOMAIN todo : i > 1 => i - 1 \in DOMAIN todo' /\ todo'[i - 1] = todo[i]
<1>1. todo \in Seq(Op)
  BY DEF TypeOK
<1> DEFINE r == todo'
<1>2. r = Tail(todo)
  OBVIOUS
<1> HIDE DEF r
<1>3. /\ r \in Seq(Op) /\ DOMAIN todo = 1..Len(todo) /\ Head(todo) = todo[1] /\ 1 \in DOMAIN todo
      /\ \A i \in DOMAIN r : i + 1 \in DOMAIN todo /\ i + 1 > 1 /\ r[i] = todo[i + 1]
      /\ \A i \in DOMAIN todo : i > 1 => i - 1 \in DOMAIN r /\ r[i - 1] = todo[i]
  BY <1>1, <1>2, DropHead
<1>4. DOMAIN r \subseteq Nat /\ DOMAIN todo \subseteq Nat \ {0}
  BY <1>1, <1>3
<1> QED BY <1>3, <1>4 DEF r

\* the layers that are published, when operations take the place of the first one
LEMMA PublishMore ==
    ASSUME TypeOK, WillPublish, todo # <<>>, NEW p \in Seq(Op), todo' = p \o Tail(todo),
           UNCHANGED flags, published' = PublishedLayers \/ (published' = published /\ ~Publishes(Head(todo))),
           \A i \in DOMAIN p : p[i].op = "assign" /\ p[i].layer # "ontop"
                             => \E j \in DOMAIN p : i < j /\ Publishes(p[j])
    PROVE  WillPublish'
<1> DEFINE n == Len(p)
<1>1. /\ n \in Nat /\ DOMAIN p = 1..n /\ DOMAIN todo = 1..Len(todo) /\ Head(todo) = todo[1]
      /\ \A i \in DOMAIN p : i \in DOMAIN todo' /\ todo'[i] = p[i]
      /\ \A i \in DOMAIN todo' : i \in DOMAIN p \/ (i - n + 1 \in DOMAIN todo /\ i > n /\ todo'[i] = todo[i - n + 1])
      /\ \A i \in DOMAIN todo : i > 1 => i - 1 + n \in DOMAIN todo' /\ todo'[i - 1 + n] = todo[i]
  BY TodoMore
<1> HIDE DEF n
<1>2. ASSUME NEW i \in DOMAIN todo', todo'[i].op = "assign", todo'[i].layer # "ontop"
      PROVE  \E j \in DOMAIN todo' : i < j /\ Publishes(todo'[j])
  <2>1. CASE i \in DOMAIN p
    BY <1>1, <1>2, <2>1
  <2>2. CASE i - n + 1 \in DOMAIN todo /\ i > n /\ todo'[i] = todo[i - n + 1]
    <3>1. PICK j \in DOMAIN todo : i - n + 1 < j /\ Publishes(todo[j])
      BY <1>2, <2>2 DEF WillPublish
    <3>2. i \in Int
      BY TodoMore
    <3>3. j > 1 /\ i < j - 1 + n
      BY <1>1, <2>2, <3>1, <3>2
    <3> QED BY <1>1, <3>1, <3>3
  <2> QED BY <1>1, <2>1, <2>2
<1>3. published' = PublishedLayers' \/ \E j \in DOMAIN todo' : Publishes(todo'[j])
  <2>1. CASE published' = PublishedLayers
    BY <2>1 DEF PublishedLayers
  <2>2. ASSUME published' = published, ~Publishes(Head(todo)), NEW j \in DOMAIN todo, Publishes(todo[j])
        PROVE  \E k \in DOMAIN todo' : Publishes(todo'[k])
    <3>1. j > 1
      BY <1>1, <2>2
    <3> QED BY <1>1, <2>2, <3>1
  <2> QED BY <2>1, <2>2 DEF WillPublish
<1> QED BY <1>2, <1>3 DEF WillPublish

\* or when the first one is done
LEMMA PublishLess ==
    ASSUME TypeOK, WillPublish, todo # <<>>, todo' = Tail(todo),
           \/ published' = PublishedLayers'
           \/ PublishedLayers' = PublishedLayers /\ published' = published /\ ~Publishes(Head(todo))
           \/ Head(todo).op = "assign" /\ Head(todo).layer # "ontop"
    PROVE  WillPublish'
<1>1. /\ DOMAIN todo = 1..Len(todo) /\ Head(todo) = todo[1] /\ 1 \in DOMAIN todo
      /\ \A i \in DOMAIN todo' : i + 1 \in DOMAIN todo /\ i + 1 > 1 /\ todo'[i] = todo[i + 1]
      /\ \A i \in DOMAIN todo : i > 1 => i - 1 \in DOMAIN todo' /\ todo'[i - 1] = todo[i]
  BY TodoLess
<1>2. ASSUME NEW i \in DOMAIN todo', todo'[i].op = "assign", todo'[i].layer # "ontop"
      PROVE  \E j \in DOMAIN todo' : i < j /\ Publishes(todo'[j])
  <2>1. PICK j \in DOMAIN todo : i + 1 < j /\ Publishes(todo[j])
    BY <1>1, <1>2 DEF WillPublish
  <2>2. j > 1 /\ i < j - 1
    <3>1. i \in Int
      BY TodoLess
    <3> QED BY <1>1, <2>1, <3>1
  <2> QED BY <1>1, <2>1, <2>2
<1>3. published' = PublishedLayers' \/ \E j \in DOMAIN todo' : Publishes(todo'[j])
  <2>1. ASSUME NEW j \in DOMAIN todo, j > 1, Publishes(todo[j])
        PROVE  \E k \in DOMAIN todo' : Publishes(todo'[k])
    BY <1>1, <2>1
  <2>2. CASE PublishedLayers' = PublishedLayers /\ published' = published /\ ~Publishes(Head(todo))
    <3>1. ASSUME NEW j \in DOMAIN todo, Publishes(todo[j]) PROVE j > 1
      BY <1>1, <2>2, <3>1
    <3> QED BY <2>1, <2>2, <3>1 DEF WillPublish
  <2>3. CASE Head(todo).op = "assign" /\ Head(todo).layer # "ontop"
    <3>1. PICK j \in DOMAIN todo : 1 < j /\ Publishes(todo[j])
      BY <1>1, <2>3 DEF WillPublish
    <3>2. j > 1
      BY <1>1, <3>1
    <3> QED BY <2>1, <3>1, <3>2
  <2> QED BY <2>2, <2>3
<1> QED BY <1>2, <1>3 DEF WillPublish

\* the same of the operations as a set
LEMMA BodyElements ==
    ASSUME NEW l \in Layer, NEW on \in BOOLEAN
    PROVE  /\ Body(l, on) \in Seq(Op) /\ Assign(l, on) \in Elements(Body(l, on))
           /\ \A o \in Elements(Body(l, on)) :
                 o = Assign(l, on) \/ o = Emit(l) \/ (on /\ \E m \in Layer \ {l} : o = Call(m, FALSE))
           /\ on => \A m \in Layer \ {l} : Call(m, FALSE) \in Elements(Body(l, on))
<1> DEFINE p == Body(l, on)
<1>1. PICK k \in DOMAIN p :
         /\ p[k] = Assign(l, on) /\ k + 1 \in DOMAIN p
         /\ \A j \in DOMAIN p : k < j => p[j] = Emit(l)
         /\ \A j \in DOMAIN p : j < k => \E m \in Layer \ {l} : p[j] = Call(m, FALSE)
         /\ on => \A m \in Layer \ {l} : \E j \in DOMAIN p : j < k /\ p[j] = Call(m, FALSE)
         /\ ~on => k = 1
  BY BodyShape
<1>2. p \in Seq(Op)
  BY BodyShape
<1> HIDE DEF p
<1>3. \A j \in DOMAIN p : j \in Nat \ {0} /\ (j < k \/ j = k \/ k < j)
  BY <1>2
<1>4. ASSUME NEW j \in DOMAIN p
      PROVE  p[j] = Assign(l, on) \/ p[j] = Emit(l) \/ (on /\ \E m \in Layer \ {l} : p[j] = Call(m, FALSE))
  <2>1. j < k => on
    BY <1>1, <1>3
  <2> QED BY <1>1, <1>3, <2>1
<1>5. Assign(l, on) \in Elements(p) /\ (on => \A m \in Layer \ {l} : Call(m, FALSE) \in Elements(p))
  BY <1>1 DEF Elements
<1>6. \A o \in Elements(p) : o = Assign(l, on) \/ o = Emit(l) \/ (on /\ \E m \in Layer \ {l} : o = Call(m, FALSE))
  BY <1>4 DEF Elements
<1> QED BY <1>2, <1>5, <1>6 DEF p

-----------------------------------------------------------------------------
(* The steps *)

LEMMA RequestStep ==
    ASSUME LayersInv, NEW l \in Layer, NEW on \in BOOLEAN, Request(l, on)
    PROVE  LayersInv'
<1> USE DEF LayersInv
<1> DEFINE c == Call(l, on)
<1>1. c \in Op /\ c.op = "call"
  BY OpTypes
<1>2. /\ todo = <<>> /\ todo' = <<c>> /\ nested' = 0 /\ called' = {} /\ request' = [layer |-> l, on |-> on, before |-> flags]
      /\ UNCHANGED <<flags, published, needRestack>>
  BY DEF Request
<1>3. todo' = <<Call(request'.layer, request'.on)>> /\ flags' = request'.before
  BY <1>2
<1> HIDE DEF c
<1>4. todo' \in Seq(Op) /\ DOMAIN todo' = 1..1 /\ todo'[1] = c
  BY <1>1, <1>2, ShortSequences
<1>5. TypeOK'
  <2>1. request' \in [layer : Layer \cup {NoLayer}, on : BOOLEAN, before : SUBSET Layer]
    BY <1>2 DEF TypeOK
  <2>2. nested' \in 0..MaxNested
    BY <1>2, LayersAssumption
  <2> QED BY <1>2, <1>4, <2>1, <2>2 DEF TypeOK
<1>6. WillPublish'
  <2>1. DOMAIN todo = {}
    BY <1>2
  <2>2. published = PublishedLayers
    BY <2>1 DEF WillPublish
  <2> QED BY <1>1, <1>2, <1>4, <2>2 DEF WillPublish, PublishedLayers
<1>7. WillGrant'
  BY <1>3 DEF WillGrant
<1> QED BY <1>5, <1>6, <1>7

\* a setter that finds its flag as it should be
LEMMA GrantKept ==
    ASSUME LayersInv, request.layer # NoLayer, Enter, Head(todo).on = (Head(todo).layer \in flags)
    PROVE  WillGrant'
<1> DEFINE l == Head(todo).layer
           on == Head(todo).on
<1>1. /\ todo # <<>> /\ Head(todo).op = "call" /\ UNCHANGED <<flags, called, request>> /\ todo' = Tail(todo)
      /\ l \in Layer /\ on \in BOOLEAN /\ WillGrant
  BY HeadOp DEF Enter, LayersInv
<1>2. Elements(todo) = Elements(todo') \cup {Head(todo)}
  BY <1>1, TailElements DEF LayersInv, TypeOK
<1>3. /\ Granted(request') = Granted(request) /\ SetByHandlers' = SetByHandlers
      /\ \A m : UndoneByHandler(m)' <=> UndoneByHandler(m)
  BY <1>1 DEF SetByHandlers, UndoneByHandler
<1>4. CASE todo = <<Call(request.layer, request.on)>> /\ flags = request.before
  <2>1. l = request.layer /\ on = request.on /\ todo' = <<>>
    BY <1>1, <1>4 DEF Call
  <2>2. Elements(todo') = {}
    BY <2>1 DEF Elements
  <2>3. request.before \ {l} = IF l \in request.before THEN request.before \ {l} ELSE request.before
    OBVIOUS
  <2>4. Granted(request) = flags
    BY <1>4, <2>1, <2>3 DEF Granted
  <2> QED BY <1>1, <1>3, <2>2, <2>4 DEF WillGrant
<1>5. CASE ~(todo = <<Call(request.layer, request.on)>> /\ flags = request.before)
  <2>1. ASSUME NEW m \in flags, m \notin Granted(request), m \notin SetByHandlers
        PROVE  \E o \in Elements(todo') : Settles(o) /\ ~o.on /\ o.layer = m
    BY <1>1, <1>2, <1>5, <2>1 DEF WillGrant
  <2>2. ASSUME NEW m \in Granted(request), m \notin flags, ~UndoneByHandler(m)
        PROVE  \E o \in Elements(todo') : Settles(o) /\ o.on /\ o.layer = m
    BY <1>1, <1>2, <1>5, <2>2 DEF WillGrant
  <2>3. \A o \in Elements(todo') : Settles(o) /\ o.on
             => o.layer \in SetByHandlers \/ (o.op = "assign" /\ request.on /\ o.layer = request.layer)
    BY <1>1, <1>2, <1>5 DEF WillGrant
  <2>4. \A o \in Elements(todo') : Settles(o) /\ ~o.on /\ o.layer \in Granted(request) => UndoneByHandler(o.layer)
    BY <1>1, <1>2, <1>5 DEF WillGrant
  <2> QED BY <1>1, <1>3, <2>1, <2>2, <2>3, <2>4 DEF WillGrant
<1> QED BY <1>4, <1>5

\* and one that has work to do
LEMMA GrantBegun ==
    ASSUME LayersInv, request.layer # NoLayer, Enter, Head(todo).on # (Head(todo).layer \in flags)
    PROVE  WillGrant'
<1> DEFINE l == Head(todo).layer
           on == Head(todo).on
           p == Body(l, on)
<1>1. /\ todo # <<>> /\ Head(todo).op = "call" /\ UNCHANGED <<flags, called, request>> /\ todo' = p \o Tail(todo)
      /\ l \in Layer /\ on \in BOOLEAN /\ WillGrant /\ flags \subseteq Layer
  BY HeadOp DEF Enter, LayersInv, TypeOK
<1>2. /\ p \in Seq(Op) /\ Assign(l, on) \in Elements(p)
      /\ \A o \in Elements(p) : o = Assign(l, on) \/ o = Emit(l) \/ (on /\ \E m \in Layer \ {l} : o = Call(m, FALSE))
      /\ on => \A m \in Layer \ {l} : Call(m, FALSE) \in Elements(p)
  BY <1>1, BodyElements
<1> HIDE DEF p
<1>3. /\ Elements(todo) = Elements(Tail(todo)) \cup {Head(todo)} /\ Tail(todo) \in Seq(Op)
      /\ Elements(todo') = Elements(p) \cup Elements(Tail(todo))
  <2>1. todo \in Seq(Op)
    BY DEF LayersInv, TypeOK
  <2>2. Elements(todo) = Elements(Tail(todo)) \cup {Head(todo)} /\ Tail(todo) \in Seq(Op)
    BY <1>1, <2>1, TailElements
  <2> QED BY <1>1, <1>2, <2>2, ConcatElements
<1>4. /\ Granted(request') = Granted(request) /\ SetByHandlers' = SetByHandlers
      /\ \A m : UndoneByHandler(m)' <=> UndoneByHandler(m)
  BY <1>1 DEF SetByHandlers, UndoneByHandler
<1>5. /\ Assign(l, on).op = "assign" /\ Assign(l, on).layer = l /\ Assign(l, on).on = on /\ Settles(Assign(l, on))
      /\ ~Settles(Emit(l))
      /\ \A m \in Layer : Settles(Call(m, FALSE)) /\ ~Call(m, FALSE).on /\ Call(m, FALSE).layer = m
  BY <1>1 DEF Assign, Emit, Call, Settles
<1>6. CASE todo = <<Call(request.layer, request.on)>> /\ flags = request.before
  <2>1. l = request.layer /\ on = request.on /\ Tail(todo) = <<>>
    BY <1>1, <1>6 DEF Call
  <2>2. Elements(todo') = Elements(p)
    <3>1. Elements(Tail(todo)) = {}
      BY <2>1 DEF Elements
    <3> QED BY <1>3, <3>1
  <2>3. CASE on
    <3>1. Granted(request) = {l} /\ l \notin flags
      BY <1>1, <1>6, <2>1, <2>3 DEF Granted
    <3>2. \A m \in flags : m \in Layer \ {l}
      BY <1>1, <3>1
    <3>3. \A m \in flags : \E o \in Elements(todo') : Settles(o) /\ ~o.on /\ o.layer = m
      BY <1>2, <1>5, <2>2, <2>3, <3>2
    <3>4. \E o \in Elements(todo') : Settles(o) /\ o.on /\ o.layer = l
      BY <1>2, <1>5, <2>2, <2>3
    <3>5. ASSUME NEW o \in Elements(todo'), Settles(o)
          PROVE  o.on => o.op = "assign" /\ request.on /\ o.layer = request.layer
      BY <1>2, <1>5, <2>1, <2>2, <2>3, <3>5
    <3>6. ASSUME NEW o \in Elements(todo'), Settles(o), ~o.on PROVE o.layer \notin Granted(request)
      <4>1. o # Assign(l, on) /\ o # Emit(l)
        BY <1>5, <2>3, <3>6
      <4>2. PICK m \in Layer \ {l} : o = Call(m, FALSE)
        BY <1>2, <2>2, <4>1
      <4> QED BY <1>5, <3>1, <4>2
    <3> QED BY <1>1, <1>4, <3>1, <3>3, <3>4, <3>5, <3>6 DEF WillGrant
  <2>4. CASE ~on
    <3>1. Granted(request) = flags \ {l} /\ l \in flags
      BY <1>1, <1>6, <2>1, <2>4 DEF Granted
    <3>2. \E o \in Elements(todo') : Settles(o) /\ ~o.on /\ o.layer = l
      BY <1>2, <1>5, <2>2, <2>4
    <3>3. ASSUME NEW o \in Elements(todo'), Settles(o) PROVE ~o.on /\ o.layer \notin Granted(request)
      BY <1>2, <1>5, <2>2, <2>4, <3>1, <3>3
    <3>4. \A m \in flags : m \in Granted(request) \/ m = l
      BY <3>1
    <3> QED BY <1>1, <1>4, <3>1, <3>2, <3>3, <3>4 DEF WillGrant
  <2> QED BY <2>3, <2>4
<1>7. CASE ~(todo = <<Call(request.layer, request.on)>> /\ flags = request.before)
  <2>1. /\ \A m \in flags : m \in Granted(request) \/ m \in SetByHandlers
                            \/ \E o \in Elements(todo) : Settles(o) /\ ~o.on /\ o.layer = m
        /\ \A m \in Granted(request) : m \in flags \/ UndoneByHandler(m)
                            \/ \E o \in Elements(todo) : Settles(o) /\ o.on /\ o.layer = m
        /\ \A o \in Elements(todo) : Settles(o) /\ o.on
             => o.layer \in SetByHandlers \/ (o.op = "assign" /\ request.on /\ o.layer = request.layer)
        /\ \A o \in Elements(todo) : Settles(o) /\ ~o.on /\ o.layer \in Granted(request) => UndoneByHandler(o.layer)
    BY <1>1, <1>7 DEF WillGrant
  <2>2. Head(todo) \in Elements(todo) /\ Settles(Head(todo)) /\ Head(todo).op # "assign"
    BY <1>1, <1>3 DEF Settles
  <2>3. on => l \in SetByHandlers
    BY <2>1, <2>2
  <2>4. ASSUME on, NEW m \in Layer \ {l} PROVE UndoneByHandler(m)
    BY <2>3, <2>4 DEF SetByHandlers, UndoneByHandler
  <2>5. ASSUME NEW m \in flags, m \notin Granted(request), m \notin SetByHandlers
        PROVE  \E o \in Elements(todo') : Settles(o) /\ ~o.on /\ o.layer = m
    <3>1. PICK o \in Elements(todo) : Settles(o) /\ ~o.on /\ o.layer = m
      BY <2>1, <2>5
    <3> QED BY <1>2, <1>3, <1>5, <3>1
  <2>6. ASSUME NEW m \in Granted(request), m \notin flags, ~UndoneByHandler(m)
        PROVE  \E o \in Elements(todo') : Settles(o) /\ o.on /\ o.layer = m
    <3>1. PICK o \in Elements(todo) : Settles(o) /\ o.on /\ o.layer = m
      BY <2>1, <2>6
    <3> QED BY <1>2, <1>3, <1>5, <3>1
  <2>7. ASSUME NEW o \in Elements(todo'), Settles(o), o.on
        PROVE  o.layer \in SetByHandlers \/ (o.op = "assign" /\ request.on /\ o.layer = request.layer)
    <3>1. CASE o \in Elements(p)
      BY <1>2, <1>5, <2>3, <2>7, <3>1
    <3>2. CASE o \in Elements(Tail(todo))
      BY <1>3, <2>1, <2>7, <3>2
    <3> QED BY <1>3, <2>7, <3>1, <3>2
  <2>8. ASSUME NEW o \in Elements(todo'), Settles(o), ~o.on, o.layer \in Granted(request)
        PROVE  UndoneByHandler(o.layer)
    <3>1. CASE o = Assign(l, on)
      BY <1>5, <2>1, <2>2, <2>8, <3>1
    <3>2. CASE on /\ \E m \in Layer \ {l} : o = Call(m, FALSE)
      BY <1>5, <2>4, <3>2
    <3>3. CASE o \in Elements(Tail(todo))
      BY <1>3, <2>1, <2>8, <3>3
    <3> QED BY <1>2, <1>3, <1>5, <2>8, <3>1, <3>2, <3>3
  <2> QED BY <1>1, <1>4, <2>5, <2>6, <2>7, <2>8 DEF WillGrant
<1> QED BY <1>6, <1>7

LEMMA EnterStep ==
    ASSUME LayersInv, Enter
    PROVE  LayersInv'
<1> USE DEF LayersInv
<1> DEFINE l == Head(todo).layer
           on == Head(todo).on
           p == Body(l, on)
<1>1. /\ todo # <<>> /\ Head(todo).op = "call" /\ UNCHANGED <<flags, published, nested, called, request, needRestack>>
      /\ todo' = IF on = (l \in flags) THEN Tail(todo) ELSE p \o Tail(todo)
  BY DEF Enter
<1>2. /\ todo \in Seq(Op) /\ Head(todo) = todo[1] /\ 1 \in DOMAIN todo /\ l \in Layer /\ on \in BOOLEAN
      /\ ~Publishes(Head(todo))
  BY <1>1, HeadOp DEF Publishes
<1>3. p \in Seq(Op)
  BY <1>2, BodyShape
<1>4. PICK k \in DOMAIN p :
         /\ p[k] = Assign(l, on) /\ k + 1 \in DOMAIN p
         /\ \A j \in DOMAIN p : k < j => p[j] = Emit(l)
         /\ \A j \in DOMAIN p : j < k => \E m \in Layer \ {l} : p[j] = Call(m, FALSE)
         /\ on => \A m \in Layer \ {l} : \E j \in DOMAIN p : j < k /\ p[j] = Call(m, FALSE)
         /\ ~on => k = 1
  BY <1>2, BodyShape
<1>5. k \in Nat /\ DOMAIN p \subseteq Nat \ {0} /\ \A j \in DOMAIN p : j < k \/ j = k \/ k < j
  BY <1>3
<1> HIDE DEF p
<1>6. UNCHANGED <<flags, published>>
  BY <1>1
<1>7. request'.layer # NoLayer => WillGrant'
  BY <1>1, <1>2, GrantKept, GrantBegun
<1>8. CASE todo' = Tail(todo) /\ on = (l \in flags)
  <2>1. WillPublish'
    BY <1>1, <1>2, <1>8, PublishLess DEF PublishedLayers
  <2>2. todo' \in Seq(Op)
    BY <1>1, <1>8, TodoLess
  <2>3. TypeOK'
    BY <1>1, <2>2 DEF TypeOK
  <2> QED BY <1>7, <2>1, <2>3
<1>9. CASE todo' = p \o Tail(todo) /\ on # (l \in flags)
  <2>1. WillPublish'
    <3>1. ASSUME NEW i \in DOMAIN p, p[i].op = "assign", p[i].layer # "ontop"
          PROVE  \E j \in DOMAIN p : i < j /\ Publishes(p[j])
      <4>1. i = k
        BY <1>4, <1>5, <3>1, OpTypes DEF Call, Emit
      <4>2. p[k + 1] = Emit(l) /\ k < k + 1 /\ l # "ontop"
        BY <1>4, <1>5, <3>1, <4>1 DEF Assign
      <4>3. Publishes(p[k + 1])
        BY <4>2 DEF Publishes, Emit
      <4> QED BY <1>4, <4>1, <4>2, <4>3
    <3> QED BY <1>1, <1>2, <1>3, <1>6, <1>9, <3>1, PublishMore
  <2>2. todo' \in Seq(Op)
    BY <1>1, <1>3, <1>9, TodoMore
  <2>3. TypeOK'
    BY <1>1, <2>2 DEF TypeOK
  <2> QED BY <1>7, <2>1, <2>3
<1> QED BY <1>1, <1>2, <1>8, <1>9

\* the flag itself
LEMMA GrantSet ==
    ASSUME LayersInv, request.layer # NoLayer, SetFlag
    PROVE  WillGrant'
<1> DEFINE l == Head(todo).layer
           on == Head(todo).on
<1>1. /\ todo # <<>> /\ Head(todo).op = "assign" /\ UNCHANGED <<called, request>> /\ todo' = Tail(todo)
      /\ flags' = (IF on THEN flags \cup {l} ELSE flags \ {l})
      /\ l \in Layer /\ on \in BOOLEAN /\ WillGrant
  BY HeadOp DEF SetFlag, LayersInv
<1>2. Elements(todo) = Elements(todo') \cup {Head(todo)} /\ Settles(Head(todo))
  BY <1>1, TailElements DEF LayersInv, TypeOK, Settles
<1>3. /\ Granted(request') = Granted(request) /\ SetByHandlers' = SetByHandlers
      /\ \A m : UndoneByHandler(m)' <=> UndoneByHandler(m)
  BY <1>1 DEF SetByHandlers, UndoneByHandler
<1>4. todo # <<Call(request.layer, request.on)>>
  BY <1>1 DEF Call
<1>5. /\ \A m \in flags : m \in Granted(request) \/ m \in SetByHandlers
                            \/ \E o \in Elements(todo) : Settles(o) /\ ~o.on /\ o.layer = m
      /\ \A m \in Granted(request) : m \in flags \/ UndoneByHandler(m)
                            \/ \E o \in Elements(todo) : Settles(o) /\ o.on /\ o.layer = m
      /\ \A o \in Elements(todo) : Settles(o) /\ o.on
             => o.layer \in SetByHandlers \/ (o.op = "assign" /\ request.on /\ o.layer = request.layer)
      /\ \A o \in Elements(todo) : Settles(o) /\ ~o.on /\ o.layer \in Granted(request) => UndoneByHandler(o.layer)
  BY <1>1, <1>4 DEF WillGrant
<1>6. ASSUME NEW m \in flags', m \notin Granted(request), m \notin SetByHandlers
      PROVE  \E o \in Elements(todo') : Settles(o) /\ ~o.on /\ o.layer = m
  <2>1. ASSUME m = l, on PROVE FALSE
    <3>1. request.on /\ l = request.layer
      BY <1>2, <1>5, <1>6, <2>1
    <3> QED BY <1>6, <2>1, <3>1 DEF Granted
  <2>2. m \in flags /\ ~(~on /\ m = l)
    BY <1>1, <1>6, <2>1
  <2> QED BY <1>2, <1>5, <1>6, <2>2
<1>7. ASSUME NEW m \in Granted(request), m \notin flags', ~UndoneByHandler(m)
      PROVE  \E o \in Elements(todo') : Settles(o) /\ o.on /\ o.layer = m
  <2>1. ~(~on /\ m = l)
    BY <1>2, <1>5, <1>7
  <2>2. m \notin flags /\ ~(on /\ m = l)
    BY <1>1, <1>7, <2>1
  <2> QED BY <1>2, <1>5, <1>7, <2>2
<1> QED BY <1>1, <1>2, <1>3, <1>5, <1>6, <1>7 DEF WillGrant

LEMMA SetFlagStep ==
    ASSUME LayersInv, SetFlag
    PROVE  LayersInv'
<1> USE DEF LayersInv
<1> DEFINE l == Head(todo).layer
           on == Head(todo).on
<1>1. /\ todo # <<>> /\ Head(todo).op = "assign" /\ UNCHANGED <<published, nested, called, request>>
      /\ todo' = Tail(todo) /\ flags' = (IF on THEN flags \cup {l} ELSE flags \ {l}) /\ needRestack' = TRUE
  BY DEF SetFlag
<1>2. l \in Layer /\ ~Publishes(Head(todo))
  BY <1>1, HeadOp DEF Publishes
<1>3. todo' \in Seq(Op)
  BY <1>1, TodoLess
<1>4. TypeOK'
  <2>1. flags' \subseteq Layer
    BY <1>1, <1>2 DEF TypeOK
  <2> QED BY <1>1, <1>3, <2>1 DEF TypeOK
<1>5. WillPublish'
  <2>1. CASE l = "ontop"
    <3>1. PublishedLayers' = PublishedLayers
      BY <1>1, <2>1 DEF PublishedLayers
    <3> QED BY <1>1, <1>2, <3>1, PublishLess
  <2>2. CASE l # "ontop"
    BY <1>1, <2>2, PublishLess
  <2> QED BY <2>1, <2>2
<1>6. request'.layer # NoLayer => WillGrant'
  BY <1>1, GrantSet
<1> QED BY <1>4, <1>5, <1>6

\* a signal, when its handler calls a setter or none
LEMMA GrantHandled ==
    ASSUME LayersInv, request.layer # NoLayer, Handle
    PROVE  WillGrant'
<1>1. /\ todo # <<>> /\ Head(todo).op = "emit" /\ UNCHANGED <<flags, request>> /\ WillGrant
      /\ called \subseteq Layer \X BOOLEAN /\ todo \in Seq(Op)
  BY DEF Handle, LayersInv, TypeOK
<1>2. /\ Elements(todo) = Elements(Tail(todo)) \cup {Head(todo)} /\ Tail(todo) \in Seq(Op)
      /\ ~Settles(Head(todo)) /\ todo # <<Call(request.layer, request.on)>>
  BY <1>1, TailElements DEF Settles, Call
<1>3. Granted(request') = Granted(request)
  BY <1>1
<1>4. /\ \A m \in flags : m \in Granted(request) \/ m \in SetByHandlers
                            \/ \E o \in Elements(Tail(todo)) : Settles(o) /\ ~o.on /\ o.layer = m
      /\ \A m \in Granted(request) : m \in flags \/ UndoneByHandler(m)
                            \/ \E o \in Elements(Tail(todo)) : Settles(o) /\ o.on /\ o.layer = m
      /\ \A o \in Elements(Tail(todo)) : Settles(o) /\ o.on
             => o.layer \in SetByHandlers \/ (o.op = "assign" /\ request.on /\ o.layer = request.layer)
      /\ \A o \in Elements(Tail(todo)) : Settles(o) /\ ~o.on /\ o.layer \in Granted(request) => UndoneByHandler(o.layer)
  BY <1>1, <1>2 DEF WillGrant
<1>5. CASE todo' = Tail(todo) /\ called' = called
  <2>1. SetByHandlers' = SetByHandlers /\ \A m : UndoneByHandler(m)' <=> UndoneByHandler(m)
    BY <1>5 DEF SetByHandlers, UndoneByHandler
  <2> QED BY <1>1, <1>3, <1>4, <1>5, <2>1 DEF WillGrant
<1>6. ASSUME NEW l \in Layer, NEW on \in BOOLEAN, todo' = <<Call(l, on)>> \o Tail(todo), called' = called \cup {<<l, on>>}
      PROVE  WillGrant'
  <2> DEFINE c == Call(l, on)
  <2>1. c \in Op /\ c.op = "call" /\ c.layer = l /\ c.on = on
    BY OpTypes
  <2>2. todo' = <<c>> \o Tail(todo)
    BY <1>6
  <2> HIDE DEF c
  <2>3. Elements(todo') = {c} \cup Elements(Tail(todo))
    <3> DEFINE p == <<c>>
    <3>1. p \in Seq(Op) /\ Elements(p) = {c} /\ todo' = p \o Tail(todo)
      BY <2>1, <2>2, ShortElements
    <3> HIDE DEF p
    <3> DEFINE q == Tail(todo)
    <3>2. q \in Seq(Op)
      BY <1>2
    <3> HIDE DEF q
    <3>3. Elements(p \o q) = Elements(p) \cup Elements(q)
      BY <3>1, <3>2, ConcatElements
    <3> QED BY <3>1, <3>3 DEF q
  <2>4. SetByHandlers \subseteq SetByHandlers' /\ (on => l \in SetByHandlers')
    <3>1. <<l, on>> \in called' /\ called \subseteq called'
      BY <1>6
    <3> QED BY <3>1 DEF SetByHandlers
  <2>5. (\A m : UndoneByHandler(m) => UndoneByHandler(m)') /\ (~on => UndoneByHandler(l)')
    <3>1. <<l, on>> \in called' /\ called \subseteq called'
      BY <1>6
    <3> QED BY <3>1 DEF UndoneByHandler
  <2>6. ASSUME NEW m \in flags', m \notin Granted(request'), m \notin SetByHandlers'
        PROVE  \E o \in Elements(todo') : Settles(o) /\ ~o.on /\ o.layer = m
    BY <1>1, <1>3, <1>4, <2>3, <2>4, <2>6
  <2>7. ASSUME NEW m \in Granted(request'), m \notin flags', ~UndoneByHandler(m)'
        PROVE  \E o \in Elements(todo') : Settles(o) /\ o.on /\ o.layer = m
    BY <1>1, <1>3, <1>4, <2>3, <2>5, <2>7
  <2>8. ASSUME NEW o \in Elements(todo'), Settles(o), o.on
        PROVE  o.layer \in SetByHandlers' \/ (o.op = "assign" /\ request'.on /\ o.layer = request'.layer)
    BY <1>1, <1>4, <2>1, <2>3, <2>4, <2>8
  <2>9. ASSUME NEW o \in Elements(todo'), Settles(o), ~o.on, o.layer \in Granted(request')
        PROVE  UndoneByHandler(o.layer)'
    BY <1>3, <1>4, <2>1, <2>3, <2>5, <2>9
  <2> QED BY <2>6, <2>7, <2>8, <2>9 DEF WillGrant
<1> QED BY <1>5, <1>6 DEF Handle

LEMMA HandleStep ==
    ASSUME LayersInv, Handle
    PROVE  LayersInv'
<1> USE DEF LayersInv
<1>1. /\ todo # <<>> /\ Head(todo).op = "emit" /\ UNCHANGED <<flags, request, needRestack>>
      /\ published' = IF Head(todo).layer = "ontop" THEN published ELSE PublishedLayers
  BY DEF Handle
<1>2. Publishes(Head(todo)) <=> Head(todo).layer # "ontop"
  BY <1>1 DEF Publishes
<1>3. published' = PublishedLayers \/ (published' = published /\ ~Publishes(Head(todo)))
  BY <1>1, <1>2
<1>4. PublishedLayers' = PublishedLayers /\ published' \subseteq Layer \ {"ontop"}
  BY <1>1 DEF PublishedLayers, TypeOK
<1>5. request'.layer # NoLayer => WillGrant'
  BY <1>1, GrantHandled
<1>6. CASE todo' = Tail(todo) /\ UNCHANGED <<nested, called>>
  <2>1. todo' \in Seq(Op)
    BY <1>1, <1>6, TodoLess
  <2>2. TypeOK'
    BY <1>1, <1>4, <1>6, <2>1 DEF TypeOK
  <2>3. WillPublish'
    BY <1>1, <1>3, <1>4, <1>6, PublishLess
  <2> QED BY <1>5, <2>2, <2>3
<1>7. ASSUME NEW l \in Layer, NEW on \in BOOLEAN, todo' = <<Call(l, on)>> \o Tail(todo), called' = called \cup {<<l, on>>},
             nested < MaxNested, nested' = nested + 1
      PROVE  LayersInv'
  <2> DEFINE c == Call(l, on)
             p == <<c>>
  <2>1. c \in Op /\ c.op = "call"
    BY OpTypes
  <2>2. todo' = p \o Tail(todo)
    BY <1>7
  <2> HIDE DEF c
  <2>3. p \in Seq(Op) /\ DOMAIN p = 1..1 /\ p[1] = c
    BY <2>1, ShortSequences
  <2> HIDE DEF p
  <2>4. todo' \in Seq(Op)
    BY <1>1, <2>2, <2>3, TodoMore
  <2>5. nested' \in 0..MaxNested
    BY <1>7, LayersAssumption DEF TypeOK
  <2>6. called' \subseteq Layer \X BOOLEAN
    BY <1>7 DEF TypeOK
  <2>7. TypeOK'
    BY <1>1, <1>4, <2>4, <2>5, <2>6 DEF TypeOK
  <2>8. \A i \in DOMAIN p : p[i].op # "assign"
    BY <2>1, <2>3
  <2>9. WillPublish'
    BY <1>1, <1>3, <2>2, <2>3, <2>8, PublishMore
  <2> QED BY <1>5, <2>7, <2>9
<1> QED BY <1>6, <1>7 DEF Handle

-----------------------------------------------------------------------------
LEMMA LayersStart == Init => LayersInv
<1> SUFFICES ASSUME Init PROVE LayersInv
  OBVIOUS
<1>1. todo \in Seq(Op) /\ DOMAIN todo = {}
  BY DEF Init
<1>2. nested \in 0..MaxNested /\ request \in [layer : Layer \cup {NoLayer}, on : BOOLEAN, before : SUBSET Layer]
  BY LayersAssumption DEF Init
<1>3. TypeOK
  BY <1>1, <1>2 DEF Init, TypeOK
<1>4. WillPublish
  BY <1>1 DEF Init, WillPublish, PublishedLayers
<1>5. request.layer = NoLayer
  BY DEF Init
<1> QED BY <1>3, <1>4, <1>5 DEF LayersInv

LEMMA LayersStep == LayersInv /\ [Next]_vars => LayersInv'
<1> SUFFICES ASSUME LayersInv, [Next]_vars PROVE LayersInv'
  OBVIOUS
<1>1. CASE \E l \in Layer, on \in BOOLEAN : Request(l, on)
  BY <1>1, RequestStep
<1>2. CASE Enter
  BY <1>2, EnterStep
<1>3. CASE SetFlag
  BY <1>3, SetFlagStep
<1>4. CASE Handle
  BY <1>4, HandleStep
<1>5. CASE RestackNow \/ UNCHANGED vars
  <2>1. UNCHANGED <<flags, published, todo, nested, called, request>> /\ needRestack' \in BOOLEAN
    BY <1>5 DEF RestackNow, vars, LayersInv, TypeOK
  <2>2. TypeOK' /\ WillPublish'
    BY <2>1 DEF LayersInv, TypeOK, WillPublish, PublishedLayers
  <2>3. WillGrant => WillGrant'
    <3>1. todo' = todo /\ flags' = flags /\ request' = request /\ Granted(request') = Granted(request)
      BY <2>1
    <3>2. SetByHandlers' = SetByHandlers /\ \A m : UndoneByHandler(m)' <=> UndoneByHandler(m)
      BY <2>1 DEF SetByHandlers, UndoneByHandler
    <3> QED BY <3>1, <3>2 DEF WillGrant
  <2> QED BY <2>1, <2>2, <2>3 DEF LayersInv
<1> QED BY <1>1, <1>2, <1>3, <1>4, <1>5 DEF Next

\* Whatever the handlers of the signals call in the middle of a setter, however
\* often: the layers that applications see are the ones that are set when it has
\* ended; these are the layer that was asked for and layers that the handlers set;
\* and a layer that the request should leave is missing only if a handler cleared it
\* or set another one (client_set_fullscreen and its like, ewmh_client_update_hints).
THEOREM LayersSafe == Spec => []LayersHold
<1>1. LayersInv => LayersHold
  <2> SUFFICES ASSUME LayersInv PROVE LayersHold
    OBVIOUS
  <2>1. ASSUME Idle PROVE published = flags \ {"ontop"}
    <3>1. DOMAIN todo = {}
      BY <2>1 DEF Idle
    <3> QED BY <3>1 DEF LayersInv, WillPublish, PublishedLayers
  <2>2. ASSUME Idle, request.layer # NoLayer
        PROVE  /\ flags \subseteq Granted(request) \cup SetByHandlers
               /\ \A l \in Granted(request) \ flags : UndoneByHandler(l)
    <3>1. Elements(todo) = {} /\ todo # <<Call(request.layer, request.on)>>
      BY <2>2 DEF Idle, Elements
    <3> QED BY <2>2, <3>1 DEF LayersInv, WillGrant
  <2> QED BY <2>1, <2>2 DEF LayersInv, LayersHold, PublishedAgrees, RequestGranted
<1> QED BY <1>1, LayersStart, LayersStep, PTL DEF Spec

-----------------------------------------------------------------------------
CallOp == [op : {"set", "tell"}, what : Maximized, on : BOOLEAN] \cup [op : {"ask"}, what : {"H", "V"}, how : How]
          \cup [op : {"change"}, what : Others, how : How] \cup [op : {"geometry"}]

\* what the C calls in progress still have to do
Pending == Elements(calls)

StateTypes ==
    /\ max \subseteq Maximized /\ states \subseteq Others /\ shown \subseteq {"H", "V"} \cup Others
    /\ calls \in Seq(CallOp)
    /\ handled \in 0..MaxHandlers /\ looping \in BOOLEAN /\ focused \in BOOLEAN
    /\ delayed \in [{"H", "V"} -> {"nil", "on", "off"}]
    /\ timer \in {"idle", "armed", "gone"}
    /\ asked \in [when : {"never", "waiting", "merged"}, want : SUBSET {"H", "V"}, clean : BOOLEAN]
    /\ sent \in 0..MaxAtoms

\* applications see the flags as they were in "old", and signals that tell of the
\* flags which changed since are still to come
Told(old) ==
    /\ shown = Seen(old) \cup states
    /\ \A w \in Maximized : (w \in max) # (w \in old) => Tell(w, w \in old) \in Pending

\* what the window brought along is about to be taken over
Fresh ==
    /\ max = {} /\ states = {} /\ ~focused /\ calls # <<>>
    /\ \/ Head(calls).op = "change" /\ Head(calls).how = "add"
       \/ \E w \in Maximized : Head(calls) = Set(w, TRUE) /\ shown = Seen({w})

ShownOwed == Fresh \/ \E old \in SUBSET Maximized : Told(old)

\* messages ask for nothing but by the timer, which knows what they amount to
Asking ==
    /\ \A x, y \in Pending : x.op = "ask" => y.op \in {"ask", "change"}
    /\ timer = "idle" => \A w \in {"H", "V"} : delayed[w] = "nil"
    /\ timer = "gone" => calls = <<>>
    /\ timer = "armed" => asked.when = "waiting"
    /\ timer = "armed" /\ asked.clean =>
         /\ \A x \in Pending : x.op \in {"ask", "change"}
         /\ \A v, w \in max : v = w
         /\ \A w \in {"H", "V"} : w \in asked.want <=> delayed[w] = "on" \/ (delayed[w] = "nil" /\ w \in Seen(max))

\* the setters that are still to be called lead to the flags "goal"
Merging(goal) ==
    /\ Seen(goal) = asked.want
    /\ \A x \in Pending : x.op = "set" => looping /\ x.on = (x.what \in goal)
    /\ \A w \in Maximized : (w \in max) # (w \in goal) => Set(w, w \in goal) \in Pending

MergeOwed == asked.when = "merged" /\ asked.clean => \E goal \in SUBSET Maximized : Merging(goal)

StateInv == StateTypes /\ ShownOwed /\ Asking /\ MergeOwed

-----------------------------------------------------------------------------
(* Flags and what applications see of them *)

LEMMA SeenTypes ==
    ASSUME NEW m
    PROVE  /\ Seen(m) \subseteq {"H", "V"} /\ ("H" \in Seen(m) <=> "H" \in m \/ "both" \in m)
           /\ ("V" \in Seen(m) <=> "V" \in m \/ "both" \in m)
BY DEF Seen

LEMMA OpKinds ==
    ASSUME NEW w \in Maximized, NEW on \in BOOLEAN
    PROVE  /\ Set(w, on) \in CallOp /\ Set(w, on).op = "set" /\ Set(w, on).what = w /\ Set(w, on).on = on
           /\ Tell(w, on) \in CallOp /\ Tell(w, on).op = "tell" /\ Tell(w, on).what = w /\ Tell(w, on).on = on
           /\ GeometryOf \in CallOp /\ GeometryOf.op = "geometry"
BY DEF Set, Tell, GeometryOf, CallOp

\* the first of the pending operations, and the others
LEMMA FirstPending ==
    ASSUME StateTypes, calls # <<>>
    PROVE  /\ Head(calls) \in CallOp /\ Rest \in Seq(CallOp) /\ Pending = Elements(Rest) \cup {Head(calls)}
           /\ Head(calls).op \in {"set", "tell"} => Head(calls).what \in Maximized /\ Head(calls).on \in BOOLEAN
           /\ Head(calls).op = "ask" => Head(calls).what \in {"H", "V"} /\ Head(calls).how \in How
           /\ Head(calls).op = "change" => Head(calls).what \in Others /\ Head(calls).how \in How
<1>1. calls \in Seq(CallOp)
  BY DEF StateTypes
<1>2. Head(calls) \in CallOp /\ Rest \in Seq(CallOp) /\ Pending = Elements(Rest) \cup {Head(calls)}
  BY <1>1, TailElements DEF Rest, Pending
<1> QED BY <1>2 DEF CallOp

LEMMA NothingPending ==
    ASSUME calls = <<>>
    PROVE  Pending = {}
BY DEF Pending, Elements

LEMMA FreshHead ==
    ASSUME Fresh
    PROVE  \/ Head(calls).op = "change" /\ Head(calls).how = "add"
           \/ Head(calls).op = "set" /\ Head(calls).on = TRUE /\ shown = Seen({Head(calls).what})
<1>1. CASE Head(calls).op = "change" /\ Head(calls).how = "add"
  BY <1>1
<1>2. ASSUME NEW w \in Maximized, Head(calls) = Set(w, TRUE), shown = Seen({w})
      PROVE  Head(calls).op = "set" /\ Head(calls).on = TRUE /\ shown = Seen({Head(calls).what})
  BY <1>2 DEF Set
<1> QED BY <1>1, <1>2 DEF Fresh

\* nothing to tell of: applications see the flags as they are
LEMMA QuietTold ==
    ASSUME StateTypes, ShownOwed, calls = <<>>
    PROVE  shown = Seen(max) \cup states
<1>1. PICK old \in SUBSET Maximized : Told(old)
  BY DEF ShownOwed, Fresh
<1>2. \A w \in Maximized : w \in max <=> w \in old
  BY <1>1, NothingPending DEF Told
<1>3. max = old
  BY <1>2 DEF StateTypes
<1> QED BY <1>1, <1>3 DEF Told

LEMMA ShownNow ==
    ASSUME max' \subseteq Maximized, shown' = Seen(max') \cup states'
    PROVE  ShownOwed'
<1>1. Told(max)'
  BY DEF Told
<1> QED BY <1>1 DEF ShownOwed

\* the signals that are to come are still to come
LEMMA ToldStill ==
    ASSUME NEW old \in SUBSET Maximized, Told(old), shown' = shown, states' = states, max' = max,
           \A w \in Maximized : (w \in max) # (w \in old) => (Tell(w, w \in old) \in Pending => Tell(w, w \in old) \in Pending')
    PROVE  ShownOwed'
<1>1. Told(old)'
  BY DEF Told
<1> QED BY <1>1 DEF ShownOwed

\* an operation that tells nobody and sets nothing is done
LEMMA PopStep ==
    ASSUME StateInv, calls # <<>>, calls' = Rest, UNCHANGED <<max, looping, focused>>,
           Head(calls).op # "set",
           \/ shown' = Seen(max') \cup states'
           \/ shown' = shown /\ states' = states /\ Head(calls).op # "tell" /\ ~Fresh
           \/ shown' = shown /\ states' = states /\ Head(calls).op = "tell" /\ (Head(calls).what \in max) = Head(calls).on
    PROVE  /\ calls' \in Seq(CallOp) /\ Pending' \subseteq Pending /\ ShownOwed'
           /\ asked' = asked => MergeOwed'
<1> USE DEF StateInv
<1>1. /\ Head(calls) \in CallOp /\ Rest \in Seq(CallOp) /\ Pending = Elements(Rest) \cup {Head(calls)}
  BY FirstPending
<1>2. Pending' = Elements(Rest)
  BY DEF Pending
<1>3. ShownOwed'
  <2>1. CASE shown' = Seen(max') \cup states'
    BY <2>1, ShownNow DEF StateTypes
  <2>2. ASSUME shown' = shown, states' = states, ~Fresh,
               \/ Head(calls).op # "tell"
               \/ Head(calls).op = "tell" /\ (Head(calls).what \in max) = Head(calls).on
        PROVE  ShownOwed'
    <3>1. PICK old \in SUBSET Maximized : Told(old)
      BY <2>2 DEF ShownOwed
    <3>2. \A w \in Maximized : (w \in max) # (w \in old) => Head(calls) # Tell(w, w \in old)
      BY <2>2 DEF Tell
    <3> QED BY <1>1, <1>2, <2>2, <3>1, <3>2, ToldStill
  <2>3. Head(calls).op = "tell" => ~Fresh
    BY FreshHead
  <2> QED BY <2>1, <2>2, <2>3
<1>4. ASSUME asked' = asked PROVE MergeOwed'
  <2> SUFFICES ASSUME asked'.when = "merged", asked'.clean PROVE \E goal \in SUBSET Maximized : Merging(goal)'
    BY DEF MergeOwed
  <2>1. PICK goal \in SUBSET Maximized : Merging(goal)
    BY <1>4 DEF MergeOwed
  <2>2. \A w \in Maximized : Head(calls) # Set(w, w \in goal)
    BY DEF Set
  <2>3. Merging(goal)'
    BY <1>1, <1>2, <1>4, <2>1, <2>2 DEF Merging
  <2> QED BY <2>3
<1> QED BY <1>1, <1>2, <1>3, <1>4

-----------------------------------------------------------------------------
(* The setter of the three flags *)

LEMMA SetMaxStep ==
    ASSUME StateInv, SetMax
    PROVE  StateInv'
<1> USE DEF StateInv
<1> DEFINE w == Head(calls).what
           on == Head(calls).on
           new == Next3(w, on)
           set == IF on THEN max \cup {w} ELSE max \ {w}
           p == <<GeometryOf>> \o Notify(max)
           b(v) == v \in max
<1>1. /\ calls # <<>> /\ Head(calls).op = "set" /\ max' = new
      /\ calls' = IF new = max THEN Rest ELSE p \o Rest
      /\ UNCHANGED <<states, shown, handled, looping, focused, delayed, timer, asked, sent>>
  BY DEF SetMax, Now
<1>2. /\ w \in Maximized /\ on \in BOOLEAN /\ Rest \in Seq(CallOp) /\ Pending = Elements(Rest) \cup {Head(calls)}
      /\ Head(calls) \in Pending
  BY <1>1, FirstPending
<1>3. new = Assumed(set) /\ new \subseteq Maximized /\ (looping => new = set)
  BY <1>2 DEF Next3, Assumed, Maximized, StateTypes
<1> HIDE DEF new, set
<1>4. /\ p \in Seq(CallOp)
      /\ Elements(p) = {GeometryOf, Tell("H", "H" \in max), Tell("V", "V" \in max), Tell("both", "both" \in max)}
  <2>1. /\ Tell("H", "H" \in max) \in CallOp /\ Tell("V", "V" \in max) \in CallOp /\ Tell("both", "both" \in max) \in CallOp
        /\ GeometryOf \in CallOp
    BY DEF Tell, GeometryOf, CallOp, Maximized
  <2>2. Notify(max) = <<Tell("H", "H" \in max), Tell("V", "V" \in max), Tell("both", "both" \in max)>>
    BY DEF Notify
  <2>3. /\ Notify(max) \in Seq(CallOp)
        /\ Elements(Notify(max)) = {Tell("H", "H" \in max), Tell("V", "V" \in max), Tell("both", "both" \in max)}
    <3>1. PICK h \in CallOp, u \in CallOp, a \in CallOp :
             h = Tell("H", "H" \in max) /\ u = Tell("V", "V" \in max) /\ a = Tell("both", "both" \in max)
      BY <2>1
    <3>2. Notify(max) = <<h, u, a>>
      BY <2>2, <3>1
    <3>3. Notify(max) \in Seq(CallOp) /\ Elements(Notify(max)) = {h, u, a}
      BY <3>2, ThreeElements
    <3> QED BY <3>1, <3>2, <3>3
  <2>4. <<GeometryOf>> \in Seq(CallOp) /\ Elements(<<GeometryOf>>) = {GeometryOf}
    BY <2>1, ShortElements
  <2>5. PICK g \in Seq(CallOp), n \in Seq(CallOp) : g = <<GeometryOf>> /\ n = Notify(max)
    BY <2>3, <2>4
  <2>6. g \o n \in Seq(CallOp) /\ Elements(g \o n) = Elements(g) \cup Elements(n)
    BY ConcatElements
  <2>7. p = g \o n
    BY <2>5
  <2> HIDE DEF p
  <2> QED BY <2>3, <2>4, <2>5, <2>6, <2>7
<1> HIDE DEF p
<1>5. \A x \in Elements(p) : x.op \in {"geometry", "tell"}
  BY <1>4 DEF GeometryOf, Tell
<1>6. /\ calls' \in Seq(CallOp) /\ Elements(Rest) \subseteq Pending'
      /\ \A x \in Pending' : x \in Elements(Rest) \/ (new # max /\ x \in Elements(p))
      /\ new # max => Elements(p) \subseteq Pending'
  <2>1. CASE new = max
    BY <1>1, <1>2, <2>1 DEF Pending
  <2>2. CASE new # max
    BY <1>1, <1>2, <1>4, <2>2, ConcatElements DEF Pending
  <2> QED BY <2>1, <2>2
<1>7. StateTypes'
  BY <1>1, <1>3, <1>6 DEF StateTypes
<1>8. ShownOwed'
  <2>1. CASE Fresh
    <3>1. shown = Seen({w}) /\ on = TRUE /\ max = {} /\ states = {}
      BY <1>1, <2>1, FreshHead DEF Fresh
    <3>2. new = {w}
      <4>1. set = {w}
        BY <3>1 DEF set
      <4> QED BY <1>3, <4>1 DEF Assumed
    <3> QED BY <1>1, <1>3, <3>1, <3>2, ShownNow
  <2>2. ASSUME NEW old \in SUBSET Maximized, Told(old) PROVE ShownOwed'
    <3>1. ASSUME NEW v \in Maximized, (v \in max') # (v \in old) PROVE Tell(v, v \in old) \in Pending'
      <4>1. CASE (v \in max) # (v \in old)
        <5>1. Tell(v, v \in old) \in Pending
          BY <2>2, <4>1 DEF Told
        <5>2. Tell(v, v \in old).op = "tell"
          BY DEF Tell
        <5>3. Tell(v, v \in old) # Head(calls)
          BY <1>1, <5>2
        <5> QED BY <1>2, <1>6, <5>1, <5>3
      <4>2. CASE (v \in max) = (v \in old)
        <5>1. new # max
          BY <1>1, <3>1, <4>2
        <5>2. Tell(v, v \in max) \in Elements(p)
          BY <1>4 DEF Maximized
        <5> QED BY <1>6, <4>2, <5>1, <5>2
      <4> QED BY <4>1, <4>2
    <3>2. Told(old)'
      BY <1>1, <2>2, <3>1 DEF Told
    <3> QED BY <3>2 DEF ShownOwed
  <2> QED BY <2>1, <2>2 DEF ShownOwed
<1>9. Asking'
  <2>1. \A x \in Pending : x.op # "ask"
    BY <1>1, <1>2 DEF Asking
  <2>2. \A x \in Pending' : x.op # "ask"
    BY <1>2, <1>5, <1>6, <2>1
  <2>3. ~(timer = "armed" /\ asked.clean) /\ timer # "gone"
    BY <1>1, <1>2 DEF Asking
  <2> QED BY <1>1, <2>2, <2>3 DEF Asking
<1>10. MergeOwed'
  <2> SUFFICES ASSUME asked'.when = "merged", asked'.clean PROVE \E goal \in SUBSET Maximized : Merging(goal)'
    BY DEF MergeOwed
  <2>1. PICK goal \in SUBSET Maximized : Merging(goal)
    BY <1>1 DEF MergeOwed
  <2>2. looping /\ on = (w \in goal)
    BY <1>1, <1>2, <2>1 DEF Merging
  <2>3. new = set
    BY <1>3, <2>2
  <2>4. ASSUME NEW v \in Maximized, (v \in max') # (v \in goal) PROVE Set(v, v \in goal) \in Pending'
    <3>1. v # w
      <4>1. w \in set <=> on
        BY <1>2 DEF set
      <4>2. w \in max' <=> w \in goal
        BY <1>1, <2>2, <2>3, <4>1
      <4> QED BY <2>4, <4>2
    <3>2. (v \in max) # (v \in goal)
      BY <1>1, <2>3, <2>4, <3>1 DEF set
    <3>3. Set(v, v \in goal) \in Pending /\ Set(v, v \in goal) # Head(calls)
      BY <2>1, <3>1, <3>2 DEF Merging, Set
    <3> QED BY <1>2, <1>6, <3>3
  <2>5. \A x \in Pending' : x.op = "set" => looping' /\ x.on = (x.what \in goal)
    BY <1>1, <1>2, <1>5, <1>6, <2>1 DEF Merging
  <2>6. Merging(goal)'
    BY <1>1, <2>1, <2>4, <2>5 DEF Merging
  <2> QED BY <2>6
<1> QED BY <1>7, <1>8, <1>9, <1>10

-----------------------------------------------------------------------------
(* The signals, and the messages of an application *)

LEMMA EmitStep ==
    ASSUME StateInv, EmitGeometry \/ EmitProperty
    PROVE  StateInv'
<1> USE DEF StateInv
<1>1. /\ calls # <<>> /\ Head(calls).op \in {"geometry", "tell"}
      /\ UNCHANGED <<max, states, looping, focused, delayed, timer, sent>>
      /\ shown' = shown \/ shown' = PublishedStates
  BY DEF EmitGeometry, EmitProperty, Now
<1>2. /\ Head(calls) \in Pending /\ Rest \in Seq(CallOp) /\ Pending = Elements(Rest) \cup {Head(calls)}
  BY <1>1, FirstPending
<1>3. shown' \subseteq {"H", "V"} \cup Others
  BY <1>1, SeenTypes DEF PublishedStates, StateTypes
<1>4. /\ \A x \in Pending : x.op # "ask"
      /\ ~(timer = "armed" /\ asked.clean) /\ timer # "gone"
  BY <1>1, <1>2 DEF Asking
<1>5. ~Fresh
  BY <1>1, FreshHead
<1>6. \/ shown' = Seen(max') \cup states'
      \/ shown' = shown /\ states' = states /\ Head(calls).op # "tell" /\ ~Fresh
      \/ /\ shown' = shown /\ states' = states /\ Head(calls).op = "tell"
         /\ (Head(calls).what \in max) = Head(calls).on /\ calls' = Rest /\ handled' = handled /\ asked' = asked
  BY <1>1, <1>5 DEF EmitGeometry, EmitProperty, Now, PublishedStates
<1>7. \/ calls' = Rest /\ handled' = handled /\ asked' = asked
      \/ /\ handled < MaxHandlers /\ handled' = handled + 1 /\ asked' = [asked EXCEPT !.clean = FALSE]
         /\ \E w \in Maximized, on \in BOOLEAN : calls' = <<Set(w, on)>> \o Rest
         /\ (shown' = Seen(max') \cup states' \/ (shown' = shown /\ Head(calls).op = "geometry"))
  BY <1>1 DEF EmitGeometry, EmitProperty, Emitted, Now, PublishedStates
<1>8. CASE calls' = Rest /\ handled' = handled /\ asked' = asked
  <2>1. calls' \in Seq(CallOp) /\ Pending' \subseteq Pending /\ ShownOwed' /\ MergeOwed'
    BY <1>1, <1>6, <1>8, PopStep
  <2>2. StateTypes'
    BY <1>1, <1>3, <1>8, <2>1 DEF StateTypes
  <2>3. Asking'
    BY <1>1, <1>4, <1>8, <2>1 DEF Asking
  <2> QED BY <2>1, <2>2, <2>3
<1>9. ASSUME handled < MaxHandlers, handled' = handled + 1, asked' = [asked EXCEPT !.clean = FALSE],
             NEW w \in Maximized, NEW on \in BOOLEAN, calls' = <<Set(w, on)>> \o Rest,
             shown' = Seen(max') \cup states' \/ (shown' = shown /\ Head(calls).op = "geometry")
      PROVE  StateInv'
  <2>1. PICK s \in CallOp : s = Set(w, on) /\ s.op = "set"
    BY OpKinds
  <2>2. <<s>> \in Seq(CallOp) /\ Elements(<<s>>) = {s}
    BY ShortElements
  <2>3. calls' \in Seq(CallOp) /\ Pending' = Elements(Rest) \cup {s}
    <3>1. PICK g \in Seq(CallOp), n \in Seq(CallOp) : g = <<s>> /\ n = Rest
      BY <1>2, <2>2
    <3>2. g \o n \in Seq(CallOp) /\ Elements(g \o n) = Elements(g) \cup Elements(n)
      BY ConcatElements
    <3>3. calls' = g \o n
      BY <1>9, <2>1, <3>1
    <3> QED BY <2>2, <3>1, <3>2, <3>3 DEF Pending
  <2>4. handled' \in 0..MaxHandlers
    BY <1>9, StateAssumption DEF StateTypes
  <2>5. /\ asked' \in [when : {"never", "waiting", "merged"}, want : SUBSET {"H", "V"}, clean : BOOLEAN]
        /\ ~asked'.clean /\ asked'.when = asked.when
    BY <1>9 DEF StateTypes
  <2>6. StateTypes'
    BY <1>1, <1>3, <2>3, <2>4, <2>5 DEF StateTypes
  <2>7. ShownOwed'
    <3>1. CASE shown' = Seen(max') \cup states'
      BY <2>6, <3>1, ShownNow DEF StateTypes
    <3>2. CASE shown' = shown /\ Head(calls).op = "geometry"
      <4>1. PICK old \in SUBSET Maximized : Told(old)
        BY <1>5 DEF ShownOwed
      <4>2. \A v \in Maximized : Tell(v, v \in old) # Head(calls)
        BY <3>2 DEF Tell
      <4> QED BY <1>1, <1>2, <2>3, <3>2, <4>1, <4>2, ToldStill
    <3> QED BY <1>9, <3>1, <3>2
  <2>8. Asking'
    BY <1>1, <1>2, <1>4, <2>1, <2>3, <2>5 DEF Asking
  <2>9. MergeOwed'
    BY <2>5 DEF MergeOwed
  <2> QED BY <2>6, <2>7, <2>8, <2>9
<1> QED BY <1>7, <1>8, <1>9

\* a plain state
LEMMA ChangeStep ==
    ASSUME StateInv, ChangeState
    PROVE  StateInv'
<1> USE DEF StateInv
<1> DEFINE w == Head(calls).what
           how == Head(calls).how
           on == Wanted(how, w \in states)
<1>1. /\ calls # <<>> /\ Head(calls).op = "change" /\ calls' = Rest
      /\ UNCHANGED <<max, handled, looping, focused, delayed, timer, asked, sent>>
      /\ states' = IF w = "urgent" /\ focused THEN states ELSE IF on THEN states \cup {w} ELSE states \ {w}
      /\ shown' = IF states' = states THEN shown ELSE Seen(max) \cup states'
  BY DEF ChangeState, Now
<1>2. w \in Others /\ how \in How /\ Head(calls) \in Pending
  BY <1>1, FirstPending
<1>3. states' \subseteq Others /\ shown' \subseteq {"H", "V"} \cup Others
  BY <1>1, <1>2, SeenTypes DEF StateTypes
<1>4. Fresh => states' # states
  <2> SUFFICES ASSUME Fresh PROVE states' # states
    OBVIOUS
  <2>1. how = "add" /\ states = {} /\ ~focused
    BY <1>1, FreshHead DEF Fresh
  <2>2. on = TRUE
    BY <2>1 DEF Wanted
  <2> QED BY <1>1, <2>1, <2>2
<1>5. calls' \in Seq(CallOp) /\ Pending' \subseteq Pending /\ ShownOwed' /\ MergeOwed'
  <2>1. shown' = Seen(max') \cup states' \/ (shown' = shown /\ states' = states /\ ~Fresh)
    BY <1>1, <1>4
  <2> QED BY <1>1, <2>1, PopStep
<1>6. StateTypes'
  BY <1>1, <1>3, <1>5 DEF StateTypes
<1>7. Asking'
  BY <1>1, <1>2, <1>5 DEF Asking
<1> QED BY <1>5, <1>6, <1>7

\* maximizing is asked for, and the timer waits
LEMMA AskStep ==
    ASSUME StateInv, AskMax
    PROVE  StateInv'
<1> USE DEF StateInv
<1> DEFINE w == Head(calls).what
           how == Head(calls).how
           base == IF timer = "armed" THEN asked ELSE [when |-> "waiting", want |-> Seen(max), clean |-> Cardinality(max) < 2]
<1>1. /\ calls # <<>> /\ Head(calls).op = "ask" /\ calls' = Rest /\ timer' = "armed"
      /\ UNCHANGED <<max, states, shown, handled, looping, focused, sent>>
      /\ delayed' = [delayed EXCEPT ![w] = DelayedValue(w, how)]
      /\ asked' = [base EXCEPT !.want = IF Wanted(how, w \in @) THEN @ \cup {w} ELSE @ \ {w}]
  BY DEF AskMax, Now
<1>2. w \in {"H", "V"} /\ how \in How /\ Head(calls) \in Pending
  BY <1>1, FirstPending
<1>3. timer # "gone" /\ \A x \in Pending : x.op \in {"ask", "change"}
  BY <1>1, <1>2 DEF Asking
<1>4. /\ base \in [when : {"never", "waiting", "merged"}, want : SUBSET {"H", "V"}, clean : BOOLEAN]
      /\ base.when = "waiting"
  <2>1. (Cardinality(max) < 2) \in BOOLEAN
    OBVIOUS
  <2> QED BY <1>3, <2>1, SeenTypes DEF Asking, StateTypes
<1>5. ASSUME base.clean
      PROVE  /\ \A v \in {"H", "V"} : v \in base.want <=> delayed[v] = "on" \/ (delayed[v] = "nil" /\ v \in Seen(max))
             /\ \A u, v \in max : u = v
  <2>1. CASE timer = "armed"
    BY <1>5, <2>1 DEF Asking
  <2>2. CASE timer # "armed"
    <3>1. timer = "idle" /\ base.want = Seen(max) /\ Cardinality(max) < 2
      BY <1>3, <1>5, <2>2 DEF StateTypes
    <3>2. ASSUME NEW u \in max, NEW v \in max, u # v PROVE FALSE
      <4>1. IsFiniteSet(max)
        <5>1. IsFiniteSet(Maximized)
          <6>1. IsFiniteSet({"H"})
            BY FS_Singleton
          <6>2. IsFiniteSet({"H"} \cup {"V"})
            BY <6>1, FS_AddElement
          <6>3. IsFiniteSet(({"H"} \cup {"V"}) \cup {"both"})
            BY <6>2, FS_AddElement
          <6>4. ({"H"} \cup {"V"}) \cup {"both"} = Maximized
            BY DEF Maximized
          <6> QED BY <6>3, <6>4
        <5> QED BY <5>1, FS_Subset DEF StateTypes
      <4>2. Cardinality({u, v}) = 2 /\ {u, v} \subseteq max
        <5>1. Cardinality({u}) = 1 /\ IsFiniteSet({u})
          BY FS_Singleton
        <5>2. Cardinality({u} \cup {v}) = Cardinality({u}) + 1
          BY <3>2, <5>1, FS_AddElement
        <5>3. {u} \cup {v} = {u, v}
          OBVIOUS
        <5> QED BY <3>2, <5>1, <5>2, <5>3
      <4>3. Cardinality({u, v}) <= Cardinality(max) /\ Cardinality(max) \in Nat
        BY <4>1, <4>2, FS_Subset, FS_CardinalityType
      <4> QED BY <3>1, <4>2, <4>3
    <3> QED BY <3>1, <3>2 DEF Asking
  <2> QED BY <2>1, <2>2
<1> HIDE DEF base
<1>6. delayed' \in [{"H", "V"} -> {"nil", "on", "off"}] /\ delayed'[w] = DelayedValue(w, how)
      /\ \A v \in {"H", "V"} : v # w => delayed'[v] = delayed[v]
  BY <1>1, <1>2 DEF DelayedValue, StateTypes
<1>7. /\ asked' \in [when : {"never", "waiting", "merged"}, want : SUBSET {"H", "V"}, clean : BOOLEAN]
      /\ asked'.when = "waiting" /\ asked'.clean = base.clean
      /\ asked'.want = IF Wanted(how, w \in base.want) THEN base.want \cup {w} ELSE base.want \ {w}
  BY <1>1, <1>2, <1>4
<1>8. calls' \in Seq(CallOp) /\ Pending' \subseteq Pending /\ ShownOwed'
  <2>1. ~Fresh
    BY <1>1, FreshHead
  <2> QED BY <1>1, <2>1, PopStep
<1>9. StateTypes'
  BY <1>1, <1>6, <1>7, <1>8 DEF StateTypes
<1>10. ASSUME asked'.clean, NEW v \in {"H", "V"}
       PROVE  v \in asked'.want <=> delayed'[v] = "on" \/ (delayed'[v] = "nil" /\ v \in Seen(max'))
  <2>1. v \in base.want <=> delayed[v] = "on" \/ (delayed[v] = "nil" /\ v \in Seen(max))
    BY <1>5, <1>7, <1>10
  <2>2. CASE v # w
    BY <1>1, <1>6, <1>7, <2>1, <2>2
  <2>3. CASE v = w
    <3>1. v \in asked'.want <=> Wanted(how, v \in base.want)
      BY <1>7, <2>3
    <3>2. delayed[v] \in {"nil", "on", "off"}
      BY DEF StateTypes
    <3>3. CASE how = "toggle" /\ delayed[v] # "nil"
      <4>1. v \in base.want <=> delayed[v] = "on"
        BY <2>1, <3>3
      <4>2. Wanted(how, v \in base.want) <=> ~(v \in base.want)
        BY <3>3 DEF Wanted
      <4>3. delayed'[v] = IF delayed[v] = "on" THEN "off" ELSE "on"
        BY <1>6, <2>3, <3>3 DEF DelayedValue
      <4> QED BY <3>1, <3>2, <3>3, <4>1, <4>2, <4>3
    <3>4. CASE ~(how = "toggle" /\ delayed[v] # "nil")
      <4>1. delayed'[v] = IF Wanted(how, v \in Seen(max)) THEN "on" ELSE "off"
        BY <1>6, <2>3, <3>4 DEF DelayedValue
      <4>2. CASE how = "toggle"
        <5>1. v \in base.want <=> v \in Seen(max)
          BY <2>1, <3>4, <4>2
        <5>2. Wanted(how, v \in Seen(max)) <=> Wanted(how, v \in base.want)
          BY <5>1 DEF Wanted
        <5> QED BY <3>1, <4>1, <5>2
      <4>3. CASE how # "toggle"
        <5>1. Wanted(how, v \in Seen(max)) <=> Wanted(how, v \in base.want)
          BY <4>3 DEF Wanted
        <5> QED BY <3>1, <4>1, <5>1
      <4> QED BY <4>2, <4>3
    <3> QED BY <3>3, <3>4
  <2> QED BY <2>2, <2>3
<1>11. Asking'
  BY <1>1, <1>3, <1>5, <1>7, <1>8, <1>10 DEF Asking
<1>12. MergeOwed'
  BY <1>7 DEF MergeOwed
<1> QED BY <1>8, <1>9, <1>11, <1>12

\* a message
LEMMA MessageCalls ==
    ASSUME NEW how \in How, NEW atoms \in Atoms, calls' = [i \in DOMAIN atoms |-> Process(atoms[i], how)]
    PROVE  calls' \in Seq(CallOp) /\ \A x \in Pending' : x.op \in {"ask", "change"}
<1> DEFINE A == {"H", "V"} \cup Others
           Ops == [op : {"ask"}, what : {"H", "V"}, how : How] \cup [op : {"change"}, what : Others, how : How]
<1>1. atoms \in Seq(A)
  <2>1. "H" \in A /\ "V" \in A /\ "urgent" \in A
    BY DEF Others
  <2> HIDE DEF A
  <2>2. CASE \E a \in A : atoms = <<a>>
    BY <2>2, ShortSequences
  <2>3. CASE \E a \in A, b \in A : atoms = <<a, b>>
    BY <2>3, ShortSequences
  <2>4. (\E a \in A : atoms = <<a>>) \/ \E a \in A, b \in A : atoms = <<a, b>>
    BY <2>1 DEF Atoms, A
  <2> QED BY <2>2, <2>3, <2>4
<1>2. ASSUME NEW a \in A PROVE Process(a, how) \in Ops
  BY DEF Process, AskFor, ChangeOf
<1> HIDE DEF A, Ops
<1> DEFINE f == [i \in DOMAIN atoms |-> Process(atoms[i], how)]
<1>3. f \in Seq(Ops) /\ Elements(f) \subseteq Ops
  <2>1. DOMAIN f = DOMAIN atoms /\ f = [i \in DOMAIN f |-> f[i]] /\ \A i \in DOMAIN atoms : f[i] = Process(atoms[i], how)
    OBVIOUS
  <2> HIDE DEF f
  <2>2. \A i \in DOMAIN atoms : atoms[i] \in A
    BY <1>1
  <2>3. \A i \in DOMAIN atoms : f[i] \in Ops
    BY <1>2, <2>1, <2>2
  <2> QED BY <1>1, <2>1, <2>3, MapElements
<1>4. calls' = f
  OBVIOUS
<1> HIDE DEF f
<1>5. f \in Seq(CallOp)
  <2>1. Ops \subseteq CallOp
    BY DEF Ops, CallOp
  <2>2. Len(f) \in Nat /\ DOMAIN f = 1..Len(f) /\ f = [i \in DOMAIN f |-> f[i]] /\ \A i \in DOMAIN f : f[i] \in Ops
    BY <1>3
  <2>3. f \in [1..Len(f) -> CallOp]
    BY <2>1, <2>2
  <2> QED BY <2>2, <2>3, FunctionSequence
<1>6. \A x \in Ops : x.op \in {"ask", "change"}
  BY DEF Ops
<1> QED BY <1>3, <1>4, <1>5, <1>6 DEF Pending

LEMMA MessageStep ==
    ASSUME StateInv, NEW how \in How, NEW atoms \in Atoms, Message(how, atoms)
    PROVE  StateInv'
<1> USE DEF StateInv
<1>1. /\ calls = <<>> /\ timer # "gone" /\ sent < MaxAtoms /\ sent' = sent + 1 /\ handled' = 0
      /\ UNCHANGED <<max, states, shown, looping, focused, delayed, timer, asked>>
  BY DEF Message
<1>2. calls' \in Seq(CallOp) /\ \A x \in Pending' : x.op \in {"ask", "change"}
  BY MessageCalls DEF Message
<1>3. sent' \in 0..MaxAtoms /\ handled' \in 0..MaxHandlers
  BY <1>1, StateAssumption DEF StateTypes
<1>4. StateTypes'
  BY <1>1, <1>2, <1>3 DEF StateTypes
<1>5. ShownOwed'
  <2>1. shown' = Seen(max') \cup states'
    BY <1>1, QuietTold
  <2> QED BY <1>4, <2>1, ShownNow DEF StateTypes
<1>6. Asking'
  BY <1>1, <1>2 DEF Asking
<1>7. MergeOwed'
  <2> SUFFICES ASSUME asked'.when = "merged", asked'.clean PROVE \E goal \in SUBSET Maximized : Merging(goal)'
    BY DEF MergeOwed
  <2>1. PICK goal \in SUBSET Maximized : Merging(goal)
    BY <1>1 DEF MergeOwed
  <2>2. Pending = {}
    BY <1>1, NothingPending
  <2>3. \A w \in Maximized : ~((w \in max) # (w \in goal))
    BY <2>1, <2>2 DEF Merging
  <2>4. Merging(goal)'
    BY <1>1, <1>2, <2>1, <2>3 DEF Merging
  <2> QED BY <2>4
<1> QED BY <1>4, <1>5, <1>6, <1>7

\* the setters that the timer calls
LEMMA MergeCalls ==
    ASSUME NEW before \in SUBSET {"H", "V"}, NEW after \in SUBSET {"H", "V"}
    PROVE  /\ Merge(before, after) \in Seq(CallOp)
           /\ after = {"H", "V"} => Elements(Merge(before, after)) = {Set("both", TRUE)}
           /\ after # {"H", "V"} /\ before = {"H", "V"} /\ after = {} => Elements(Merge(before, after)) = {Set("both", FALSE)}
           /\ after # {"H", "V"} /\ before = {"H", "V"} /\ after # {} =>
                Elements(Merge(before, after)) = {Set("both", FALSE), Set("H", "H" \in after), Set("V", "V" \in after)}
           /\ after # {"H", "V"} /\ before # {"H", "V"} =>
                Elements(Merge(before, after)) = {Set("H", "H" \in after), Set("V", "V" \in after)}
<1>1. PICK t \in CallOp, f \in CallOp, h \in CallOp, u \in CallOp :
         /\ t = Set("both", TRUE) /\ f = Set("both", FALSE)
         /\ h = Set("H", "H" \in after) /\ u = Set("V", "V" \in after)
  <2>1. Set("both", TRUE) \in CallOp /\ Set("both", FALSE) \in CallOp
    BY OpKinds DEF Maximized
  <2>2. Set("H", "H" \in after) \in CallOp /\ Set("V", "V" \in after) \in CallOp
    BY DEF Set, CallOp, Maximized
  <2> QED BY <2>1, <2>2
<1>2. /\ <<t>> \in Seq(CallOp) /\ Elements(<<t>>) = {t} /\ <<f>> \in Seq(CallOp) /\ Elements(<<f>>) = {f}
      /\ <<h, u>> \in Seq(CallOp) /\ Elements(<<h, u>>) = {h, u} /\ <<>> \in Seq(CallOp) /\ Elements(<<>>) = {}
  BY ShortElements
<1>3. /\ <<f>> \o <<>> \in Seq(CallOp) /\ Elements(<<f>> \o <<>>) = {f}
      /\ <<f>> \o <<h, u>> \in Seq(CallOp) /\ Elements(<<f>> \o <<h, u>>) = {f, h, u}
  <2>1. PICK g \in Seq(CallOp), e \in Seq(CallOp), n \in Seq(CallOp) : g = <<f>> /\ e = <<>> /\ n = <<h, u>>
    BY <1>2
  <2>2. g \o e \in Seq(CallOp) /\ Elements(g \o e) = Elements(g) \cup Elements(e)
    BY ConcatElements
  <2>3. g \o n \in Seq(CallOp) /\ Elements(g \o n) = Elements(g) \cup Elements(n)
    BY ConcatElements
  <2>4. Elements(g) = {f} /\ Elements(e) = {} /\ Elements(n) = {h, u}
    BY <1>2, <2>1
  <2>5. Elements(g \o e) = {f} /\ Elements(g \o n) = {f, h, u}
    BY <2>2, <2>3, <2>4
  <2> QED BY <2>1, <2>2, <2>3, <2>5
<1>4. Merge(before, after) = IF after = {"H", "V"} THEN <<t>>
                             ELSE IF before = {"H", "V"} THEN <<f>> \o (IF after # {} THEN <<h, u>> ELSE <<>>)
                             ELSE <<h, u>>
  BY <1>1 DEF Merge
<1> QED BY <1>1, <1>2, <1>3, <1>4

\* the timer
LEMMA FireStep ==
    ASSUME StateInv, Fire
    PROVE  StateInv'
<1> USE DEF StateInv
<1> DEFINE before == Seen(max)
           after == {w \in {"H", "V"} : delayed[w] = "on" \/ (delayed[w] = "nil" /\ w \in before)}
<1>1. /\ timer = "armed" /\ looping /\ calls = <<>> /\ calls' = Merge(before, after)
      /\ delayed' = [w \in {"H", "V"} |-> "nil"] /\ timer' = "idle" /\ handled' = 0
      /\ asked' = [asked EXCEPT !.when = "merged"]
      /\ UNCHANGED <<max, states, shown, looping, focused, sent>>
  BY DEF Fire
<1>2. before \in SUBSET {"H", "V"} /\ after \in SUBSET {"H", "V"}
  BY SeenTypes
<1>3. asked.clean => after = asked.want
  BY <1>1 DEF Asking, StateTypes
<1>4. ("H" \in before <=> "H" \in max \/ "both" \in max) /\ ("V" \in before <=> "V" \in max \/ "both" \in max)
  BY SeenTypes
<1> HIDE DEF before, after
<1> DEFINE both == {"H", "V"}
           set(w) == Set(w, w \in after)
<1>5. /\ calls' \in Seq(CallOp)
      /\ after = both => Pending' = {Set("both", TRUE)}
      /\ after # both /\ before = both /\ after = {} => Pending' = {Set("both", FALSE)}
      /\ after # both /\ before = both /\ after # {} => Pending' = {Set("both", FALSE), set("H"), set("V")}
      /\ after # both /\ before # both => Pending' = {set("H"), set("V")}
  BY <1>1, <1>2, MergeCalls DEF Pending
<1>6. \A x \in Pending' : x.op = "set"
  BY <1>5 DEF Set
<1>7. StateTypes'
  <2>1. handled' \in 0..MaxHandlers
    BY <1>1, StateAssumption
  <2>2. asked' \in [when : {"never", "waiting", "merged"}, want : SUBSET {"H", "V"}, clean : BOOLEAN]
    BY <1>1 DEF StateTypes
  <2>3. delayed' \in [{"H", "V"} -> {"nil", "on", "off"}] /\ timer' \in {"idle", "armed", "gone"}
    BY <1>1
  <2> QED BY <1>1, <1>5, <2>1, <2>2, <2>3 DEF StateTypes
<1>8. ShownOwed'
  <2>1. shown' = Seen(max') \cup states'
    BY <1>1, QuietTold
  <2> QED BY <1>7, <2>1, ShownNow DEF StateTypes
<1>9. Asking'
  BY <1>1, <1>6 DEF Asking
<1>10. MergeOwed'
  <2> SUFFICES ASSUME asked'.when = "merged", asked'.clean PROVE \E goal \in SUBSET Maximized : Merging(goal)'
    BY DEF MergeOwed
  <2>1. asked.clean /\ asked'.want = after /\ \A v, w \in max : v = w
    BY <1>1, <1>3 DEF Asking, StateTypes
  <2>2. max \subseteq Maximized /\ "both" \notin {"H", "V"} /\ looping'
    BY <1>1 DEF StateTypes
  <2>3. CASE after = both
    <3>0. PICK goal \in SUBSET Maximized : goal = max \cup {"both"}
      BY <2>2 DEF Maximized
    <3>1. Seen(goal) = after
      BY <2>3, <3>0 DEF Seen
    <3>2. \A w \in Maximized : (w \in max') # (w \in goal) => w = "both"
      BY <1>1, <3>0
    <3>3. "both" \in goal
      BY <3>0
    <3>4. \A w \in Maximized : (w \in max') # (w \in goal) => Set(w, w \in goal) \in Pending'
      <4>1. ("both" \in goal) = TRUE
        BY <3>3
      <4> QED BY <1>5, <2>3, <3>2, <4>1
    <3>5. \A x \in Pending' : x.what = "both" /\ x.on = TRUE
      BY <1>5, <2>3 DEF Set
    <3>6. \A x \in Pending' : x.op = "set" => looping' /\ x.on = (x.what \in goal)
      <4>1. ("both" \in goal) = TRUE
        BY <3>3
      <4> QED BY <2>2, <3>5, <4>1
    <3>7. Merging(goal)'
      <4>1. Seen(goal) = asked'.want
        BY <2>1, <3>1
      <4> QED BY <3>4, <3>6, <4>1 DEF Merging
    <3> QED BY <3>7
  <2>4. CASE after # both
    <3>1. after \in SUBSET Maximized /\ Seen(after) = after /\ "both" \notin after
      BY <1>2, <2>2 DEF Maximized, Seen
    <3>2. ("both" \in after) = FALSE
      BY <3>1
    <3>3. before = both => max = {"both"}
      <4>1. before = both => "both" \in max
        BY <1>4, <2>1
      <4> QED BY <2>1, <4>1
    <3>4. before # both => "both" \notin max
      BY <1>2, <1>4
    <3>5. \A x \in Pending' : x.what \in Maximized /\ x.on = (x.what \in after)
      <4>1. \A x \in Pending' : x \in {Set("both", FALSE), set("H"), set("V")}
        BY <1>5, <2>4
      <4>2. Set("both", FALSE).what = "both" /\ Set("both", FALSE).on = FALSE
        BY DEF Set
      <4>3. set("H").what = "H" /\ set("H").on = ("H" \in after) /\ set("V").what = "V" /\ set("V").on = ("V" \in after)
        BY DEF Set
      <4> HIDE DEF set
      <4> QED BY <3>2, <4>1, <4>2, <4>3 DEF Maximized
    <3>6. ASSUME NEW w \in Maximized, (w \in max') # (w \in after) PROVE Set(w, w \in after) \in Pending'
      <4>1. CASE w = "both"
        <5>1. before = both
          BY <1>1, <3>1, <3>4, <3>6, <4>1
        <5>2. Set(w, w \in after) = Set("both", FALSE)
          BY <3>2, <4>1
        <5> QED BY <1>5, <2>4, <5>1, <5>2
      <4>2. CASE w # "both"
        <5>1. w \in {"H", "V"}
          BY <4>2 DEF Maximized
        <5>2. before = both /\ after = {} => FALSE
          BY <1>1, <3>3, <3>6, <4>2
        <5>3. set("H") \in Pending' /\ set("V") \in Pending'
          BY <1>5, <2>4, <5>2
        <5> QED BY <5>1, <5>3
      <4> QED BY <4>1, <4>2
    <3>7. PICK goal \in SUBSET Maximized : goal = after
      BY <3>1
    <3>8. Merging(goal)'
      <4>1. Seen(goal) = asked'.want
        BY <2>1, <3>1, <3>7
      <4>2. \A x \in Pending' : x.op = "set" => looping' /\ x.on = (x.what \in goal)
        BY <2>2, <3>5, <3>7
      <4>3. \A w \in Maximized : (w \in max') # (w \in goal) => Set(w, w \in goal) \in Pending'
        BY <3>6, <3>7
      <4> QED BY <4>1, <4>2, <4>3 DEF Merging
    <3> QED BY <3>8
  <2> QED BY <2>3, <2>4
<1> QED BY <1>7, <1>8, <1>9, <1>10

-----------------------------------------------------------------------------
(* Lua, and the life of the client *)

\* nothing is in progress: applications see the flags, and what they asked for
LEMMA QuietNow ==
    ASSUME StateInv, calls = <<>>, StateTypes', shown' = Seen(max') \cup states', max' = max, asked' = asked,
           \A x \in Pending' : x.op # "set"
    PROVE  ShownOwed' /\ MergeOwed'
<1> USE DEF StateInv
<1>1. ShownOwed'
  BY ShownNow DEF StateTypes
<1>2. MergeOwed'
  <2> SUFFICES ASSUME asked'.when = "merged", asked'.clean PROVE \E goal \in SUBSET Maximized : Merging(goal)'
    BY DEF MergeOwed
  <2>1. PICK goal \in SUBSET Maximized : Merging(goal)
    BY DEF MergeOwed
  <2>2. Pending = {}
    BY NothingPending
  <2>3. \A w \in Maximized : ~((w \in max) # (w \in goal))
    BY <2>1, <2>2 DEF Merging
  <2>4. Merging(goal)'
    BY <2>1, <2>3 DEF Merging
  <2> QED BY <2>4
<1> QED BY <1>1, <1>2

LEMMA LuaMaxStep ==
    ASSUME StateInv, NEW w \in Maximized, NEW on \in BOOLEAN, LuaMax(w, on)
    PROVE  StateInv'
<1> USE DEF StateInv
<1>1. /\ calls = <<>> /\ timer # "gone" /\ calls' = <<Set(w, on)>> /\ handled' = 0
      /\ asked' = [asked EXCEPT !.clean = FALSE]
      /\ UNCHANGED <<max, states, shown, looping, focused, delayed, timer, sent>>
  BY DEF LuaMax
<1>2. PICK s \in CallOp : s = Set(w, on) /\ s.op = "set"
  BY OpKinds
<1>3. calls' \in Seq(CallOp) /\ Pending' = {s}
  <2>1. <<s>> \in Seq(CallOp) /\ Elements(<<s>>) = {s}
    BY ShortElements
  <2> QED BY <1>1, <1>2, <2>1 DEF Pending
<1>4. /\ asked' \in [when : {"never", "waiting", "merged"}, want : SUBSET {"H", "V"}, clean : BOOLEAN]
      /\ ~asked'.clean /\ asked'.when = asked.when
  BY <1>1 DEF StateTypes
<1>5. StateTypes'
  <2>1. handled' \in 0..MaxHandlers
    BY <1>1, StateAssumption
  <2> QED BY <1>1, <1>3, <1>4, <2>1 DEF StateTypes
<1>6. ShownOwed'
  <2>1. shown' = Seen(max') \cup states'
    BY <1>1, QuietTold
  <2> QED BY <1>5, <2>1, ShownNow DEF StateTypes
<1>7. Asking'
  BY <1>1, <1>2, <1>3, <1>4 DEF Asking
<1>8. MergeOwed'
  BY <1>4 DEF MergeOwed
<1> QED BY <1>5, <1>6, <1>7, <1>8

\* urgency, the start of the loop, and the end of the client
LEMMA OtherSteps ==
    ASSUME StateInv, LuaUrgent \/ FocusClears \/ Leave
    PROVE  StateInv'
<1> USE DEF StateInv
<1>1. /\ calls = <<>> /\ UNCHANGED <<max, calls, handled, looping, delayed, asked, sent>>
      /\ states' \subseteq Others /\ focused' \in BOOLEAN
      /\ shown' = Seen(max) \cup states' \/ (shown' = shown /\ states' = states)
      /\ timer' = timer \/ (timer' = "gone" /\ UNCHANGED <<states, shown, focused>>)
  BY DEF LuaUrgent, FocusClears, Leave, StateTypes, Others
<1>2. shown = Seen(max) \cup states
  BY <1>1, QuietTold
<1>3. shown' = Seen(max') \cup states'
  BY <1>1, <1>2
<1>4. Pending = {} /\ Pending' = {}
  BY <1>1, NothingPending DEF Pending
<1>5. StateTypes'
  BY <1>1, <1>3, SeenTypes DEF StateTypes
<1>6. ShownOwed' /\ MergeOwed'
  BY <1>1, <1>3, <1>4, <1>5, QuietNow
<1>7. Asking'
  BY <1>1, <1>4 DEF Asking, StateTypes
<1> QED BY <1>5, <1>6, <1>7

LEMMA StartLoopStep ==
    ASSUME StateInv, StartLoop
    PROVE  StateInv'
<1> USE DEF StateInv
<1>1. looping' = TRUE /\ UNCHANGED <<max, states, shown, calls, handled, focused, delayed, timer, asked, sent>>
  BY DEF StartLoop
<1>2. StateTypes'
  BY <1>1 DEF StateTypes
<1>3. Pending' = Pending
  BY <1>1 DEF Pending
<1>4. ShownOwed'
  <2>1. Fresh => Fresh'
    BY <1>1 DEF Fresh
  <2>2. ASSUME NEW old \in SUBSET Maximized, Told(old) PROVE Told(old)'
    BY <1>1, <1>3, <2>2 DEF Told
  <2> QED BY <2>1, <2>2 DEF ShownOwed
<1>5. Asking'
  BY <1>1, <1>3 DEF Asking
<1>6. MergeOwed'
  <2>1. ASSUME NEW goal \in SUBSET Maximized, Merging(goal) PROVE Merging(goal)'
    BY <1>1, <1>3, <2>1 DEF Merging
  <2> QED BY <1>1, <2>1 DEF MergeOwed
<1> QED BY <1>2, <1>4, <1>5, <1>6

-----------------------------------------------------------------------------
(* The window as it comes *)

\* the states that the window brings along, in some order
LEMMA PlainStates ==
    ASSUME NEW P \in SUBSET Others, NEW q, q = SetToSeq(P)
    PROVE  q \in Seq(P) /\ (q = <<>> <=> P = {})
<1>1. IsFiniteSet(P)
  <2>1. IsFiniteSet(Others)
    BY StateAssumption, FS_AddElement DEF Others
  <2> QED BY <2>1, FS_Subset
<1>2. PICK n \in Nat : n = Cardinality(P)
  BY <1>1, FS_CardinalityType
<1>3. PICK g \in Bijection(1..n, P) : TRUE
  BY <1>1, <1>2, FS_CardinalityType DEF ExistsBijection
<1>4. g \in [1..n -> P] /\ IsInjective(g)
  BY <1>3 DEF Bijection, Injection
<1>5. q \in [1..n -> P]
  <2>1. q = CHOOSE f \in [1..n -> P] : IsInjective(f)
    BY <1>2 DEF SetToSeq
  <2>2. \E f \in [1..n -> P] : IsInjective(f)
    BY <1>4
  <2> HIDE DEF IsInjective
  <2> QED BY <2>1, <2>2
<1>6. q \in Seq(P) /\ Len(q) = n /\ DOMAIN q = 1..n
  BY <1>5, FunctionSequence
<1>7. P = {} <=> n = 0
  BY <1>1, <1>2, FS_EmptySet
<1>8. q = <<>> <=> n = 0
  BY <1>6
<1> QED BY <1>6, <1>7, <1>8

LEMMA HintCalls ==
    ASSUME NEW hinted \in SUBSET ({"H", "V"} \cup Others), NEW r, r = CheckHints(hinted)
    PROVE  /\ r \in Seq(CallOp) /\ \A x \in Elements(r) : x.op \in {"change", "set"}
           /\ \/ r = <<>> /\ hinted = {}
              \/ r # <<>> /\ Head(r).op = "change" /\ Head(r).how = "add"
              \/ r # <<>> /\ \E w \in Maximized : Head(r) = Set(w, TRUE) /\ hinted = Seen({w})
<1> DEFINE P == hinted \ {"H", "V"}
           Mine == [op : {"change"}, what : Others, how : How] \cup [op : {"set"}, what : Maximized, on : BOOLEAN]
<1>1. PICK plain : plain = SetToSeq(P)
  OBVIOUS
<1>2. P \in SUBSET Others /\ plain \in Seq(P) /\ (plain = <<>> <=> P = {})
  <2>1. P \in SUBSET Others
    OBVIOUS
  <2> HIDE DEF P
  <2>2. PICK s \in SUBSET Others : s = P
    BY <2>1
  <2>3. plain = SetToSeq(s)
    BY <1>1, <2>2
  <2>4. plain \in Seq(s) /\ (plain = <<>> <=> s = {})
    BY <2>3, PlainStates
  <2> QED BY <2>2, <2>4
<1>3. PICK f : f = [i \in DOMAIN plain |-> ChangeOf(plain[i], "add")]
  OBVIOUS
<1>4. /\ DOMAIN f = DOMAIN plain /\ f = [i \in DOMAIN f |-> f[i]]
      /\ \A i \in DOMAIN plain : f[i] = ChangeOf(plain[i], "add")
  BY <1>3
<1>5. \A w \in Maximized : Set(w, TRUE) \in Mine
  BY DEF Set
<1>6. f \in Seq(Mine) /\ Len(f) = Len(plain)
  <2>1. ASSUME NEW i \in DOMAIN plain PROVE f[i] \in Mine
    <3>1. plain[i] \in P
      BY <1>2, <2>1
    <3>2. plain[i] \in Others
      BY <1>2, <3>1
    <3> QED BY <1>4, <3>2 DEF ChangeOf, How
  <2> HIDE DEF Mine
  <2> QED BY <1>2, <1>4, <2>1, MapElements
<1>7. Mine \subseteq CallOp /\ \A x \in Mine : x.op \in {"change", "set"}
  BY DEF CallOp
<1> HIDE DEF Mine, P
<1>8. PICK m \in Seq(Mine) :
         /\ m = IF {"H", "V"} \subseteq hinted THEN <<Set("both", TRUE)>>
                ELSE IF "H" \in hinted THEN <<Set("H", TRUE)>>
                ELSE IF "V" \in hinted THEN <<Set("V", TRUE)>> ELSE <<>>
  <2>1. PICK t \in Mine, h \in Mine, v \in Mine : t = Set("both", TRUE) /\ h = Set("H", TRUE) /\ v = Set("V", TRUE)
    BY <1>5 DEF Maximized
  <2>2. <<t>> \in Seq(Mine) /\ <<h>> \in Seq(Mine) /\ <<v>> \in Seq(Mine) /\ <<>> \in Seq(Mine)
    OBVIOUS
  <2> QED BY <2>1, <2>2
<1>9. r = f \o m
  BY <1>1, <1>3, <1>8 DEF CheckHints, P
<1>10. r \in Seq(Mine) /\ Elements(r) \subseteq Mine
  <2>1. r \in Seq(Mine)
    <3>1. m \in Seq(Mine) /\ f \in Seq(Mine)
      BY <1>6, <1>8
    <3>2. f \o m \in Seq(Mine)
      BY <3>1, ConcatElements
    <3> QED BY <1>9, <3>2
  <2> QED BY <2>1 DEF Elements
<1>11. r \in Seq(CallOp) /\ \A x \in Elements(r) : x.op \in {"change", "set"}
  <2>1. r \in [1..Len(r) -> CallOp] /\ Len(r) \in Nat
    BY <1>7, <1>10
  <2>2. r \in Seq(CallOp)
    BY <2>1, FunctionSequence
  <2> QED BY <1>7, <1>10, <2>2
<1>12. CASE P # {}
  <2>1. Len(f) \in Nat \ {0} /\ f # <<>> /\ 1 \in DOMAIN plain
    BY <1>2, <1>6, <1>12
  <2>2. r # <<>> /\ Head(r) = f[1]
    BY <1>6, <1>8, <1>9, <2>1
  <2>3. Head(r).op = "change" /\ Head(r).how = "add"
    BY <1>4, <2>1, <2>2 DEF ChangeOf
  <2> QED BY <1>11, <2>2, <2>3
<1>13. CASE P = {}
  <2>1. f = <<>>
    <3>1. Len(f) = 0
      BY <1>2, <1>6, <1>13
    <3> QED BY <1>6, <3>1
  <2>2. r = m
    BY <1>8, <1>9, <2>1
  <2>3. hinted \subseteq {"H", "V"}
    BY <1>13 DEF P
  <2>4. CASE {"H", "V"} \subseteq hinted
    <3>1. r = <<Set("both", TRUE)>>
      BY <1>8, <2>2, <2>4
    <3>2. r # <<>> /\ Head(r) = Set("both", TRUE)
      BY <3>1
    <3>3. hinted = Seen({"both"})
      BY <2>3, <2>4 DEF Seen
    <3>4. "both" \in Maximized
      BY DEF Maximized
    <3> QED BY <1>11, <3>2, <3>3, <3>4
  <2>5. CASE "H" \in hinted /\ "V" \notin hinted
    <3>1. r = <<Set("H", TRUE)>>
      BY <1>8, <2>2, <2>5
    <3>2. r # <<>> /\ Head(r) = Set("H", TRUE)
      BY <3>1
    <3>3. hinted = Seen({"H"})
      BY <2>3, <2>5 DEF Seen
    <3>4. "H" \in Maximized
      BY DEF Maximized
    <3> QED BY <1>11, <3>2, <3>3, <3>4
  <2>6. CASE "H" \notin hinted /\ "V" \in hinted
    <3>1. r = <<Set("V", TRUE)>>
      BY <1>8, <2>2, <2>6
    <3>2. r # <<>> /\ Head(r) = Set("V", TRUE)
      BY <3>1
    <3>3. hinted = Seen({"V"})
      BY <2>3, <2>6 DEF Seen
    <3>4. "V" \in Maximized
      BY DEF Maximized
    <3> QED BY <1>11, <3>2, <3>3, <3>4
  <2>7. CASE "H" \notin hinted /\ "V" \notin hinted
    BY <1>8, <1>11, <2>2, <2>3, <2>7
  <2> QED BY <2>4, <2>5, <2>6, <2>7
<1> QED BY <1>12, <1>13

LEMMA StateInitInv == StateInit => StateInv
<1> SUFFICES ASSUME StateInit PROVE StateInv
  OBVIOUS
<1>1. /\ max = {} /\ states = {} /\ handled = 0 /\ looping \in BOOLEAN /\ focused = FALSE
      /\ shown \in SUBSET ({"H", "V"} \cup Others) /\ calls = CheckHints(shown)
      /\ delayed = [w \in {"H", "V"} |-> "nil"] /\ timer = "idle" /\ sent = 0
      /\ asked = [when |-> "never", want |-> {}, clean |-> FALSE]
  BY DEF StateInit
<1>2. calls \in Seq(CallOp) /\ \A x \in Pending : x.op \in {"change", "set"}
  BY <1>1, HintCalls DEF Pending
<1>3. \/ calls = <<>> /\ shown = {}
      \/ calls # <<>> /\ Head(calls).op = "change" /\ Head(calls).how = "add"
      \/ calls # <<>> /\ \E w \in Maximized : Head(calls) = Set(w, TRUE) /\ shown = Seen({w})
  BY <1>1, HintCalls
<1>4. StateTypes
  <2>1. 0 \in 0..MaxHandlers /\ 0 \in 0..MaxAtoms
    BY StateAssumption
  <2>2. asked \in [when : {"never", "waiting", "merged"}, want : SUBSET {"H", "V"}, clean : BOOLEAN]
    BY <1>1
  <2>3. delayed \in [{"H", "V"} -> {"nil", "on", "off"}]
    BY <1>1
  <2> QED BY <1>1, <1>2, <2>1, <2>2, <2>3 DEF StateTypes
<1>5. ShownOwed
  <2>1. CASE calls = <<>> /\ shown = {}
    <3>1. Told({})
      BY <1>1, <2>1 DEF Told, Seen
    <3> QED BY <3>1 DEF ShownOwed
  <2>2. CASE ~(calls = <<>> /\ shown = {})
    BY <1>1, <1>3, <2>2 DEF ShownOwed, Fresh
  <2> QED BY <2>1, <2>2
<1>6. Asking
  BY <1>1, <1>2 DEF Asking
<1>7. MergeOwed
  BY <1>1 DEF MergeOwed
<1> QED BY <1>4, <1>5, <1>6, <1>7 DEF StateInv

LEMMA StateNextInv == StateInv /\ [StateNext]_stateVars => StateInv'
<1> SUFFICES ASSUME StateInv, [StateNext]_stateVars PROVE StateInv'
  OBVIOUS
<1>1. CASE UNCHANGED stateVars
  <2>1. UNCHANGED <<max, states, shown, calls, handled, looping, focused, delayed, timer, asked, sent>>
    BY <1>1 DEF stateVars
  <2>2. StateTypes' /\ Pending' = Pending
    BY <2>1 DEF StateInv, StateTypes, Pending
  <2>3. ShownOwed'
    <3>1. Fresh => Fresh'
      BY <2>1 DEF Fresh
    <3>2. ASSUME NEW old \in SUBSET Maximized, Told(old) PROVE Told(old)'
      BY <2>1, <2>2, <3>2 DEF Told
    <3> QED BY <3>1, <3>2 DEF StateInv, ShownOwed
  <2>4. Asking'
    BY <2>1, <2>2 DEF StateInv, Asking
  <2>5. MergeOwed'
    <3>1. ASSUME NEW goal \in SUBSET Maximized, Merging(goal) PROVE Merging(goal)'
      BY <2>1, <2>2, <3>1 DEF Merging
    <3> QED BY <2>1, <3>1 DEF StateInv, MergeOwed
  <2> QED BY <2>2, <2>3, <2>4, <2>5 DEF StateInv
<1>2. CASE StateNext
  <2>1. CASE SetMax
    BY <2>1, SetMaxStep
  <2>2. CASE EmitGeometry \/ EmitProperty
    BY <2>2, EmitStep
  <2>3. CASE ChangeState
    BY <2>3, ChangeStep
  <2>4. CASE AskMax
    BY <2>4, AskStep
  <2>5. CASE Fire
    BY <2>5, FireStep
  <2>6. CASE \E how \in How, a \in Atoms : Message(how, a)
    BY <2>6, MessageStep
  <2>7. CASE \E w \in Maximized, on \in BOOLEAN : LuaMax(w, on)
    BY <2>7, LuaMaxStep
  <2>8. CASE LuaUrgent \/ FocusClears \/ Leave
    BY <2>8, OtherSteps
  <2>9. CASE StartLoop
    BY <2>9, StartLoopStep
  <2> QED BY <1>2, <2>1, <2>2, <2>3, <2>4, <2>5, <2>6, <2>7, <2>8, <2>9 DEF StateNext
<1> QED BY <1>1, <1>2

\* ewmh_client_update_hints, client_set_maximized_common, merge_maximization:
\* whatever handlers set while C calls are in progress, applications see the
\* states that are set when the calls have returned, and what their messages
\* asked for is what the timer does.
THEOREM StatesSafe == StateSpec => []StatesAgree
<1>1. StateInv => StatesAgree
  <2> SUFFICES ASSUME StateInv PROVE StatesAgree
    OBVIOUS
  <2>1. StateTypeOK
    <3>1. \A i \in DOMAIN calls : calls[i] \in CallOp
      BY DEF StateInv, StateTypes
    <3>2. \A i \in DOMAIN calls : calls[i].op \in {"set", "tell", "ask", "change", "geometry"}
      BY <3>1 DEF CallOp
    <3> QED BY <3>2 DEF StateInv, StateTypes, StateTypeOK
  <2>2. StatesPublished
    BY QuietTold DEF StateInv, StatesPublished, PublishedStates
  <2>3. MergedAsAsked
    <3> SUFFICES ASSUME asked.when = "merged", asked.clean, calls = <<>> PROVE Seen(max) = asked.want
      BY DEF MergedAsAsked
    <3>1. PICK goal \in SUBSET Maximized : Merging(goal)
      BY DEF StateInv, MergeOwed
    <3>2. \A w \in Maximized : w \in max <=> w \in goal
      BY <3>1, NothingPending DEF Merging
    <3>3. max = goal
      BY <3>2 DEF StateInv, StateTypes
    <3> QED BY <3>1, <3>3 DEF Merging
  <2> QED BY <2>1, <2>2, <2>3 DEF StatesAgree
<1> QED BY <1>1, StateInitInv, StateNextInv, PTL DEF StateSpec

-----------------------------------------------------------------------------
Value == {"none", "a", "b", "lua", "zero", "noinput", "input", "pixmap"}

\* the records of which a deleted property leaves nothing
Cleared == {"transient", "alt", "name", "motif", "opacity"}

\* the record is what the window says, unless Lua set it
Synced(k) ==
    k \notin lua => (prop[k] = "none" /\ k \in Cleared => record[k] = "none") /\ (prop[k] # "none" => record[k] = prop[k])

\* ... or an event that tells of the property is on its way
Informed(k) == Synced(k) \/ k \in Elements(events)

RecordTypes ==
    /\ prop \in [Kind -> Value] /\ record \in [Kind -> Value]
    /\ \A k \in Kind : prop[k] \in Values(k) \cup {"none"}
    /\ nofocus \in BOOLEAN /\ ewmhIcon \in BOOLEAN /\ hasType \in BOOLEAN /\ icons \in {"none", "hints", "icon", "lua"}
    /\ kind \in {"normal", "dialog", "dock"} /\ type \in {"none", "dialog", "dock"}
    /\ phase \in {"new", "asking", "reading", "managed"} /\ lua \subseteq {"name", "icon", "opacity", "strut"}
    /\ replies \in Seq(Value) /\ events \in Seq(Kind)

\* what is derived from the records
Derived ==
    /\ record["opacity"] \in {frame, "zero"}
    /\ record["hints"] \in {"input", "noinput"} => nofocus = (record["hints"] = "noinput")
    /\ record["hints"] = "pixmap" => icons # "none"
    /\ (record["icon"] # "none") = ewmhIcon
    /\ ewmhIcon => icons # "none"
    /\ ewmhIcon /\ "icon" \notin lua => icons = "icon"

\* an answer that waits is what the window says
Answered(i, k) == replies[i] = prop[k] \/ k \in Elements(events)

\* the first r answers have been read
Read(r) ==
    /\ Len(replies) = 11 - r
    /\ \A i \in 1..11 : (i <= r => Informed(AskedInOrder[i])) /\ (i > r => Answered(i - r, AskedInOrder[i]))

\* how far the answers have been read
Progress ==
    /\ phase = "new" => replies = <<>> /\ events = <<>>
    /\ phase = "asking" => Len(replies) <= 11 /\ \A i \in DOMAIN replies : Answered(i, AskedInOrder[i])
    /\ phase = "reading" => Informed("strut") /\ \E r \in 0..11 : Read(r)
    /\ phase = "managed" => /\ hasType /\ \A k \in Kind : Informed(k)
                            /\ type = "dialog" => kind = "dialog"

RecordInv == RecordTypes /\ Derived /\ Progress

-----------------------------------------------------------------------------
(* The properties and their order *)

LEMMA Order ==
    /\ Len(AskedInOrder) = 11 /\ DOMAIN AskedInOrder = 1..11
    /\ \A i \in 1..11 : AskedInOrder[i] \in Kind /\ AskedInOrder[i] # "strut"
    /\ \A k \in Kind : k = "strut" \/ \E i \in 1..11 : AskedInOrder[i] = k
    /\ \A i, j \in 1..11 : AskedInOrder[i] = AskedInOrder[j] => i = j
<1>1. Len(AskedInOrder) = 11 /\ DOMAIN AskedInOrder = 1..11
  BY DEF AskedInOrder
<1>2. /\ AskedInOrder[1] = "hints" /\ AskedInOrder[2] = "transient" /\ AskedInOrder[3] = "leader"
      /\ AskedInOrder[4] = "pid" /\ AskedInOrder[5] = "icon" /\ AskedInOrder[6] = "alt" /\ AskedInOrder[7] = "name"
      /\ AskedInOrder[8] = "class" /\ AskedInOrder[9] = "protocols" /\ AskedInOrder[10] = "motif"
      /\ AskedInOrder[11] = "opacity"
  BY DEF AskedInOrder
<1>3. \A i \in 1..11 : i \in {1, 2, 3, 4, 5, 6, 7, 8, 9, 10, 11}
  OBVIOUS
<1>4. \A i \in 1..11 : AskedInOrder[i] \in Kind /\ AskedInOrder[i] # "strut"
  BY <1>1, <1>2, <1>3 DEF Kind
<1>5. \A k \in Kind : k = "strut" \/ \E i \in 1..11 : AskedInOrder[i] = k
  BY <1>1 DEF Kind
<1>6. \A i, j \in 1..11 : AskedInOrder[i] = AskedInOrder[j] => i = j
  BY <1>2, <1>3
<1> QED BY <1>1, <1>4, <1>5, <1>6

LEMMA Kinds ==
    /\ {"hints", "transient", "leader", "pid", "icon", "alt", "name", "class", "protocols", "motif", "opacity", "strut"} = Kind
<1>1. /\ AskedInOrder[1] = "hints" /\ AskedInOrder[2] = "transient" /\ AskedInOrder[3] = "leader"
      /\ AskedInOrder[4] = "pid" /\ AskedInOrder[5] = "icon" /\ AskedInOrder[6] = "alt" /\ AskedInOrder[7] = "name"
      /\ AskedInOrder[8] = "class" /\ AskedInOrder[9] = "protocols" /\ AskedInOrder[10] = "motif"
      /\ AskedInOrder[11] = "opacity"
  BY DEF AskedInOrder
<1>2. DOMAIN AskedInOrder = {1, 2, 3, 4, 5, 6, 7, 8, 9, 10, 11}
  <2>1. DOMAIN AskedInOrder = 1..11
    BY Order
  <2> QED BY <2>1
<1>3. Kind = {AskedInOrder[i] : i \in {1, 2, 3, 4, 5, 6, 7, 8, 9, 10, 11}} \cup {"strut"}
  BY <1>2 DEF Kind
<1> HIDE DEF AskedInOrder
<1> QED BY <1>1, <1>3

LEMMA ValueTypes ==
    ASSUME NEW k \in Kind, NEW v \in Values(k) \cup {"none"}
    PROVE  v \in Value
BY DEF Values, Value

\* property_update, for whatever property
LEMMA RecordedValue ==
    ASSUME NEW k \in Kind, NEW v
    PROVE  Recorded(k, v) = IF v # "none" \/ k \in Cleared THEN v ELSE record[k]
<1>1. k \in {"hints", "transient", "leader", "pid", "icon", "alt", "name", "class", "protocols", "motif", "opacity", "strut"}
  BY Kinds
<1> USE DEF Recorded, Cleared, Old
<1>2. CASE k \in {"leader", "pid", "class"}
  BY <1>2 DEF Leader, Pid, Class
<1>3. CASE k \in {"protocols", "strut", "hints", "icon"}
  BY <1>3 DEF Protocols, Strut, ReadHints
<1>4. CASE k \in {"motif", "name", "alt", "transient", "opacity"}
  BY <1>4 DEF Motif, Text, TransientFor, Opacity
<1> QED BY <1>1, <1>2, <1>3, <1>4

-----------------------------------------------------------------------------
LEMMA UpdateStep ==
    ASSUME RecordTypes, Derived, NEW k \in Kind, NEW v \in Value, Update(k, v), prop' = prop
    PROVE  /\ record' \in [Kind -> Value] /\ nofocus' \in BOOLEAN /\ ewmhIcon' \in BOOLEAN
           /\ icons' \in {"none", "hints", "icon", "lua"} /\ kind' \in {"normal", "dialog", "dock"}
           /\ lua' \subseteq {"name", "icon", "opacity", "strut"}
           /\ Derived'
           /\ kind' = kind \/ (kind' = "dialog" /\ ~hasType)
           /\ v = prop[k] => Synced(k)'
           /\ \A j \in Kind : j # k /\ Synced(j) => Synced(j)'
<1> DEFINE new == IF v # "none" \/ k \in Cleared THEN v ELSE record[k]
<1>1. /\ record' = [record EXCEPT ![k] = new]
      /\ icons' = IconFrom(k, v)
      /\ ewmhIcon' = (ewmhIcon \/ (k = "icon" /\ v # "none"))
      /\ nofocus' = IF k = "hints" THEN NoFocus(v) ELSE nofocus
      /\ kind' = IF k = "transient" /\ v # "none" /\ ~hasType THEN "dialog" ELSE kind
      /\ frame' = IF k = "opacity" /\ v # record[k] THEN v ELSE frame
      /\ lua' = IF k # "icon" \/ v # "none" THEN lua \ {k} ELSE lua
  <2>1. Recorded(k, v) = new
    BY RecordedValue
  <2> QED BY <2>1 DEF Update
<1>2. new \in Value
  BY DEF RecordTypes
<1>3. record' \in [Kind -> Value] /\ record'[k] = new /\ \A j \in Kind : j # k => record'[j] = record[j]
  BY <1>1, <1>2 DEF RecordTypes
<1>4. /\ nofocus' \in BOOLEAN /\ ewmhIcon' \in BOOLEAN
      /\ icons' \in {"none", "hints", "icon", "lua"} /\ kind' \in {"normal", "dialog", "dock"}
      /\ lua' \subseteq {"name", "icon", "opacity", "strut"}
  BY <1>1 DEF RecordTypes, NoFocus, IconFrom
<1>5. \A j \in Kind : j # k /\ Synced(j) => Synced(j)'
  BY <1>1, <1>3 DEF Synced
<1>6. v = prop[k] => Synced(k)'
  BY <1>3 DEF Synced
<1>7. Derived'
  <2>0. "opacity" \in Kind /\ "hints" \in Kind /\ "icon" \in Kind
    BY Kinds
  <2>1. record'["opacity"] \in {frame', "zero"}
    <3>1. CASE k = "opacity"
      BY <1>1, <1>3, <3>1 DEF Derived, Cleared
    <3>2. CASE k # "opacity"
      BY <1>1, <1>3, <2>0, <3>2 DEF Derived
    <3> QED BY <3>1, <3>2
  <2>2. record'["hints"] \in {"input", "noinput"} => nofocus' = (record'["hints"] = "noinput")
    <3>1. CASE k = "hints" /\ v # "none"
      BY <1>1, <1>3, <3>1 DEF NoFocus
    <3>2. CASE k = "hints" /\ v = "none"
      BY <1>1, <1>3, <3>2 DEF NoFocus, Derived, Cleared
    <3>3. CASE k # "hints"
      BY <1>1, <1>3, <2>0, <3>3 DEF Derived
    <3> QED BY <3>1, <3>2, <3>3
  <2>3. (record'["icon"] # "none") = ewmhIcon'
    <3>1. CASE k = "icon"
      BY <1>1, <1>3, <3>1 DEF Derived, Cleared
    <3>2. CASE k # "icon"
      BY <1>1, <1>3, <2>0, <3>2 DEF Derived
    <3> QED BY <3>1, <3>2
  <2>4. (ewmhIcon' => icons' # "none") /\ (ewmhIcon' /\ "icon" \notin lua' => icons' = "icon")
    BY <1>1 DEF Derived, IconFrom
  <2>5. record'["hints"] = "pixmap" => icons' # "none"
    <3>1. CASE k = "hints" /\ v # "none"
      BY <1>1, <1>3, <3>1 DEF Derived, IconFrom
    <3>2. CASE k = "hints" /\ v = "none"
      BY <1>1, <1>3, <3>2 DEF Derived, IconFrom, Cleared
    <3>3. CASE k # "hints"
      BY <1>1, <1>3, <2>0, <3>3 DEF Derived, IconFrom
    <3> QED BY <3>1, <3>2, <3>3
  <2> QED BY <2>1, <2>2, <2>3, <2>4, <2>5 DEF Derived
<1>8. kind' = kind \/ (kind' = "dialog" /\ ~hasType)
  BY <1>1
<1> QED BY <1>3, <1>4, <1>5, <1>6, <1>7, <1>8

-----------------------------------------------------------------------------
(* The steps *)

\* the records stay as they are, and so does what is derived from them
LEMMA SameRecords ==
    ASSUME Derived, UNCHANGED <<record, nofocus, icons, ewmhIcon, frame, lua>>
    PROVE  Derived'
BY DEF Derived

\* everybody is informed of what everybody was informed of
LEMMA StillInformed ==
    ASSUME NEW k, Informed(k), Synced(k) => Synced(k)', Elements(events) \subseteq Elements(events')
    PROVE  Informed(k)'
BY DEF Informed

LEMMA ManageStep ==
    ASSUME RecordInv, ManageWindow \/ Ask \/ AskStrut
    PROVE  RecordInv'
<1> USE DEF RecordInv
<1>1. CASE ManageWindow
  <2>1. /\ phase = "new" /\ phase' = "asking"
        /\ UNCHANGED <<prop, type, record, nofocus, icons, ewmhIcon, kind, hasType, frame, replies, events, lua, count>>
    BY <1>1 DEF ManageWindow
  <2>2. RecordTypes' /\ Derived'
    BY <2>1, SameRecords DEF RecordTypes
  <2>3. replies' = <<>> /\ Len(replies') = 0 /\ DOMAIN replies' = {}
    BY <2>1 DEF Progress
  <2>4. Progress'
    BY <2>1, <2>3 DEF Progress
  <2> QED BY <2>2, <2>4
<1>2. CASE Ask
  <2> DEFINE n == Len(replies)
             k == AskedInOrder[n + 1]
  <2>1. /\ phase = "asking" /\ n < Len(AskedInOrder) /\ replies' = Append(replies, prop[k])
        /\ UNCHANGED <<prop, type, record, nofocus, icons, ewmhIcon, kind, hasType, frame, phase, events, lua, count>>
    BY <1>2 DEF Ask
  <2>2. n \in Nat /\ n + 1 \in 1..11 /\ k \in Kind /\ prop[k] \in Value
    <3>1. n \in Nat /\ n + 1 \in 1..11
      BY <2>1, Order DEF RecordTypes
    <3> HIDE DEF n
    <3> QED BY <3>1, Order DEF RecordTypes
  <2>3. /\ replies' \in Seq(Value) /\ DOMAIN replies' = 1..(n + 1) /\ Len(replies') = n + 1 /\ replies'[n + 1] = prop[k]
        /\ \A i \in DOMAIN replies' : i = n + 1 \/ (i \in DOMAIN replies /\ replies'[i] = replies[i])
    BY <2>1, <2>2 DEF RecordTypes
  <2>4. RecordTypes' /\ Derived'
    BY <2>1, <2>3, SameRecords DEF RecordTypes
  <2>5. ASSUME NEW i \in DOMAIN replies' PROVE Answered(i, AskedInOrder[i])'
    <3>1. CASE i = n + 1
      BY <2>1, <2>3, <3>1 DEF Answered
    <3>2. CASE i # n + 1
      <4>1. i \in DOMAIN replies /\ replies'[i] = replies[i] /\ Answered(i, AskedInOrder[i])
        BY <2>1, <2>3, <3>2 DEF Progress
      <4> QED BY <2>1, <4>1 DEF Answered
    <3> QED BY <3>1, <3>2
  <2>6. Progress'
    BY <2>1, <2>2, <2>3, <2>5 DEF Progress
  <2> QED BY <2>4, <2>6
<1>3. CASE AskStrut
  <2>0. "strut" \in Kind /\ "opacity" \in Kind /\ "hints" \in Kind /\ "icon" \in Kind
    BY Kinds
  <2>1. /\ phase = "asking" /\ Len(replies) = 11 /\ phase' = "reading"
        /\ record' = [record EXCEPT !["strut"] = IF prop["strut"] # "none" THEN prop["strut"] ELSE record["strut"]]
        /\ UNCHANGED <<prop, type, nofocus, icons, ewmhIcon, kind, hasType, frame, replies, events, lua, count>>
    BY <1>3, <2>0, Order, RecordedValue DEF AskStrut, Cleared
  <2>2. /\ record' \in [Kind -> Value] /\ \A k \in Kind : k # "strut" => record'[k] = record[k]
        /\ record'["strut"] = IF prop["strut"] # "none" THEN prop["strut"] ELSE record["strut"]
    BY <2>0, <2>1 DEF RecordTypes
  <2>3. RecordTypes'
    BY <2>1, <2>2 DEF RecordTypes
  <2>4. Derived'
    BY <2>0, <2>1, <2>2 DEF Derived
  <2>5. Informed("strut")'
    BY <2>1, <2>2 DEF Informed, Synced, Cleared
  <2>6. ASSUME NEW i \in 1..11 PROVE Answered(i, AskedInOrder[i])'
    <3>1. i \in DOMAIN replies
      BY <2>1 DEF RecordTypes
    <3>2. Answered(i, AskedInOrder[i])
      BY <2>1, <3>1 DEF Progress
    <3> QED BY <2>1, <3>2 DEF Answered
  <2>7. Progress'
    <3>1. Len(replies') = 11 /\ \A i \in 1..11 : ~(i <= 0) /\ i - 0 = i
      BY <2>1
    <3>2. Read(0)'
      BY <2>6, <3>1 DEF Read
    <3>3. \E r \in 0..11 : Read(r)'
      BY <3>2
    <3> QED BY <2>1, <2>5, <3>3 DEF Progress
  <2> QED BY <2>3, <2>4, <2>7
<1> QED BY <1>1, <1>2, <1>3

\* an answer is read
LEMMA ReplyStep ==
    ASSUME RecordInv, Reply
    PROVE  RecordInv'
<1> USE DEF RecordInv
<1>1. /\ phase = "reading" /\ replies # <<>> /\ replies' = Tail(replies) /\ replies \in Seq(Value)
      /\ UNCHANGED <<prop, type, hasType, phase, events, count>>
      /\ Update(AskedInOrder[11 - Len(replies) + 1], Head(replies))
  BY Order DEF Reply, RecordTypes
<1>2. PICK r0 \in 0..11 : Read(r0)
  BY <1>1 DEF Progress
<1>3. /\ DOMAIN replies = 1..Len(replies) /\ Len(replies) \in Nat \ {0} /\ Head(replies) = replies[1] /\ replies[1] \in Value
      /\ replies' \in Seq(Value) /\ Len(replies') = Len(replies) - 1
      /\ \A i \in 1..(Len(replies) - 1) : replies'[i] = replies[i + 1]
  <2>1. PICK q \in Seq(Value) : q = replies
    BY <1>1
  <2>2. /\ DOMAIN q = 1..Len(q) /\ Len(q) \in Nat \ {0} /\ Head(q) = q[1] /\ q[1] \in Value
        /\ Tail(q) \in Seq(Value) /\ Len(Tail(q)) = Len(q) - 1
        /\ \A i \in 1..(Len(q) - 1) : Tail(q)[i] = q[i + 1]
    BY <1>1, <2>1
  <2> QED BY <1>1, <2>1, <2>2
<1>4. PICK r \in 1..11 : r = r0 + 1
  BY <1>2, <1>3 DEF Read
<1>5. /\ Len(replies) = 12 - r /\ 11 - Len(replies) + 1 = r /\ Len(replies') = 11 - r
      /\ \A i \in 1..11 : (i < r => Informed(AskedInOrder[i])) /\ (i >= r => Answered(i - r + 1, AskedInOrder[i]))
  <2>1. \A i \in 1..11 : (i < r => i <= r0) /\ (i >= r => i > r0 /\ i - r0 = i - r + 1)
    BY <1>4
  <2>2. Len(replies) = 11 - r0 /\ Len(replies) = 12 - r /\ 11 - Len(replies) + 1 = r /\ Len(replies') = 11 - r
    BY <1>2, <1>3, <1>4 DEF Read
  <2>3. ASSUME NEW i \in 1..11
        PROVE  (i < r => Informed(AskedInOrder[i])) /\ (i >= r => Answered(i - r + 1, AskedInOrder[i]))
    <3>1. (i <= r0 => Informed(AskedInOrder[i])) /\ (i > r0 => Answered(i - r0, AskedInOrder[i]))
      BY <1>2 DEF Read
    <3>2. i >= r => Answered(i - r0, AskedInOrder[i]) /\ i - r0 = i - r + 1
      BY <2>1, <3>1
    <3> QED BY <2>1, <3>1, <3>2
  <2> QED BY <2>2, <2>3
<1>6. PICK k \in Kind : k = AskedInOrder[r]
  BY <1>5, Order
<1>7. PICK v \in Value : v = Head(replies)
  BY <1>3
<1>8. Update(k, v)
  BY <1>1, <1>5, <1>6, <1>7
<1>9. /\ record' \in [Kind -> Value] /\ nofocus' \in BOOLEAN /\ ewmhIcon' \in BOOLEAN
      /\ icons' \in {"none", "hints", "icon", "lua"} /\ kind' \in {"normal", "dialog", "dock"}
      /\ lua' \subseteq {"name", "icon", "opacity", "strut"}
      /\ Derived'
  BY <1>1, <1>8, UpdateStep
<1>10. /\ v = prop[k] => Synced(k)'
       /\ \A j \in Kind : j # k /\ Synced(j) => Synced(j)'
  BY <1>1, <1>8, UpdateStep
<1>11. RecordTypes'
  BY <1>1, <1>3, <1>9 DEF RecordTypes
<1>12. Informed(k)'
  <2>1. Answered(1, k)
    <3>1. r >= r /\ r - r + 1 = 1
      OBVIOUS
    <3> QED BY <1>5, <1>6, <3>1
  <2> QED BY <1>1, <1>3, <1>7, <1>10, <2>1 DEF Answered, Informed
<1>13. ASSUME NEW i \in 1..11, i <= r PROVE Informed(AskedInOrder[i])'
  <2>1. CASE i < r
    <3>1. Informed(AskedInOrder[i]) /\ AskedInOrder[i] \in Kind /\ AskedInOrder[i] # k
      <4>1. i # r
        BY <2>1
      <4>2. AskedInOrder[i] # AskedInOrder[r] /\ AskedInOrder[i] \in Kind
        BY <4>1, Order
      <4> QED BY <1>5, <1>6, <2>1, <4>2
    <3> QED BY <1>1, <1>10, <3>1 DEF Informed
  <2>2. CASE i = r
    BY <1>6, <1>12, <2>2
  <2> QED BY <1>13, <2>1, <2>2
<1>14. ASSUME NEW i \in 1..11, i > r PROVE Answered(i - r, AskedInOrder[i])'
  <2>1. i >= r /\ i - r \in 1..(Len(replies) - 1)
    BY <1>5, <1>14
  <2>2. Answered(i - r + 1, AskedInOrder[i])
    BY <1>5, <2>1
  <2>3. replies'[i - r] = replies[i - r + 1]
    BY <1>3, <2>1
  <2> QED BY <1>1, <2>2, <2>3 DEF Answered
<1>15. Informed("strut")'
  <2>1. Informed("strut") /\ "strut" \in Kind /\ k # "strut"
    BY <1>1, <1>6, Order, Kinds DEF Progress
  <2> QED BY <1>1, <1>10, <2>1 DEF Informed
<1>16. Read(r)'
  BY <1>5, <1>13, <1>14 DEF Read
<1>17. Progress'
  BY <1>1, <1>15, <1>16 DEF Progress
<1> QED BY <1>9, <1>11, <1>17

LEMMA ReadTypeStep ==
    ASSUME RecordInv, ReadType
    PROVE  RecordInv'
<1> USE DEF RecordInv
<1>1. /\ phase = "reading" /\ replies = <<>> /\ phase' = "managed" /\ hasType' = TRUE
      /\ kind' = IF "dialog" \in {type, kind} THEN "dialog" ELSE IF type = "dock" THEN "dock" ELSE kind
      /\ UNCHANGED <<prop, type, record, nofocus, icons, ewmhIcon, frame, replies, events, lua, count>>
  BY DEF ReadType
<1>2. RecordTypes' /\ Derived'
  BY <1>1, SameRecords DEF RecordTypes
<1>3. ASSUME NEW k \in Kind PROVE Informed(k)'
  <2>1. Informed(k)
    <3>1. CASE k = "strut"
      BY <1>1, <3>1 DEF Progress
    <3>2. CASE k # "strut"
      <4>1. PICK i \in 1..11 : AskedInOrder[i] = k
        BY <3>2, Order
      <4>2. PICK r \in 0..11 : Read(r)
        BY <1>1 DEF Progress
      <4>3. i <= r
        BY <1>1, <4>2 DEF Read
      <4> QED BY <4>1, <4>2, <4>3 DEF Read
    <3> QED BY <3>1, <3>2
  <2> QED BY <1>1, <2>1 DEF Informed, Synced
<1>4. Progress'
  BY <1>1, <1>3 DEF Progress
<1> QED BY <1>2, <1>4

\* an event is handled
LEMMA NotifyStep ==
    ASSUME RecordInv, HandleNotify
    PROVE  RecordInv'
<1> USE DEF RecordInv
<1>1. /\ phase = "managed" /\ events # <<>> /\ events' = Tail(events)
      /\ UNCHANGED <<prop, type, hasType, replies, phase, count>>
      /\ Update(Head(events), prop[Head(events)])
  BY DEF HandleNotify
<1>2. Head(events) \in Kind /\ events' \in Seq(Kind) /\ Elements(events) = Elements(events') \cup {Head(events)}
  BY <1>1, TailElements DEF RecordTypes
<1>3. PICK k \in Kind, v \in Value : k = Head(events) /\ v = prop[k]
  BY <1>2 DEF RecordTypes
<1>4. Update(k, v)
  BY <1>1, <1>3
<1>5. /\ record' \in [Kind -> Value] /\ nofocus' \in BOOLEAN /\ ewmhIcon' \in BOOLEAN
      /\ icons' \in {"none", "hints", "icon", "lua"} /\ kind' \in {"normal", "dialog", "dock"}
      /\ lua' \subseteq {"name", "icon", "opacity", "strut"}
      /\ Derived' /\ (kind' = kind \/ (kind' = "dialog" /\ ~hasType))
  BY <1>1, <1>4, UpdateStep
<1>6. Synced(k)' /\ \A j \in Kind : j # k /\ Synced(j) => Synced(j)'
  BY <1>1, <1>3, <1>4, UpdateStep
<1>7. RecordTypes'
  BY <1>1, <1>2, <1>5 DEF RecordTypes
<1>8. ASSUME NEW j \in Kind PROVE Informed(j)'
  <2>1. Informed(j)
    BY <1>1 DEF Progress
  <2> QED BY <1>2, <1>3, <1>6, <2>1 DEF Informed
<1>9. Progress'
  BY <1>1, <1>5, <1>8 DEF Progress
<1> QED BY <1>5, <1>7, <1>9

\* Lua changes a record
LEMMA LuaStep ==
    ASSUME RecordInv, LuaName \/ LuaIcon \/ LuaOpacity \/ LuaStruts
    PROVE  RecordInv'
<1> USE DEF RecordInv
<1>0. /\ "strut" \in Kind /\ "opacity" \in Kind /\ "hints" \in Kind /\ "icon" \in Kind /\ "name" \in Kind
      /\ "lua" \in Value /\ "lua" \in Values("strut")
  BY Kinds DEF Value, Values
<1>1. PICK k \in {"name", "icon", "opacity", "strut"} :
         /\ phase = "managed" /\ lua' = lua \cup {k}
         /\ UNCHANGED <<type, nofocus, ewmhIcon, kind, hasType, replies, phase>>
         /\ k = "icon" => icons' = "lua" /\ record' = record
         /\ k # "icon" => icons' = icons /\ record' = [record EXCEPT ![k] = "lua"]
         /\ k = "opacity" => frame' = "lua"
         /\ k # "opacity" => frame' = frame
         /\ k = "strut" => prop' = [prop EXCEPT !["strut"] = "lua"] /\ events' = Append(events, "strut")
         /\ k # "strut" => prop' = prop /\ events' = events
  <2>1. CASE LuaName
    BY <2>1 DEF LuaName, LuaSets
  <2>2. CASE LuaIcon
    BY <2>2 DEF LuaIcon, LuaSets
  <2>3. CASE LuaOpacity
    BY <2>3 DEF LuaOpacity, LuaSets
  <2>4. CASE LuaStruts
    BY <2>4 DEF LuaStruts, LuaSets
  <2> QED BY <2>1, <2>2, <2>3, <2>4
<1>2. /\ k \in Kind /\ record' \in [Kind -> Value] /\ \A j \in Kind : j # k => record'[j] = record[j] /\ prop'[j] = prop[j]
      /\ k # "icon" => record'[k] = "lua"
      /\ k = "icon" => record'[k] = record[k]
  BY <1>0, <1>1 DEF RecordTypes
<1>3. events' \in Seq(Kind) /\ Elements(events) \subseteq Elements(events')
  <2>1. CASE k = "strut"
    <3>1. events \in Seq(Kind) /\ "strut" \in Kind /\ events' = Append(events, "strut")
      BY <1>0, <1>1, <2>1 DEF RecordTypes
    <3>2. PICK q \in Seq(Kind), e \in Kind : q = events /\ e = "strut"
      BY <3>1
    <3>3. Append(q, e) \in Seq(Kind) /\ Elements(Append(q, e)) = Elements(q) \cup {e}
      BY AppendElements
    <3> QED BY <3>1, <3>2, <3>3
  <2>2. CASE k # "strut"
    BY <1>1, <2>2 DEF RecordTypes
  <2> QED BY <2>1, <2>2
<1>4. prop' \in [Kind -> Value] /\ \A j \in Kind : prop'[j] \in Values(j) \cup {"none"}
  <2>1. CASE k = "strut"
    BY <1>0, <1>1, <2>1 DEF RecordTypes
  <2>2. CASE k # "strut"
    BY <1>1, <2>2 DEF RecordTypes
  <2> QED BY <2>1, <2>2
<1>5. RecordTypes'
  BY <1>1, <1>2, <1>3, <1>4 DEF RecordTypes
<1>6. Derived'
  <2>1. k = "icon" => record' = record /\ "icon" \in lua' /\ icons' = "lua"
    BY <1>1
  <2>2. k # "icon" => icons' = icons /\ record'["icon"] = record["icon"] /\ ("icon" \in lua' <=> "icon" \in lua)
    BY <1>0, <1>1, <1>2
  <2>3. record'["hints"] = record["hints"] /\ nofocus' = nofocus /\ ewmhIcon' = ewmhIcon
    BY <1>0, <1>1, <1>2
  <2>4. record'["opacity"] \in {frame', "zero"}
    BY <1>0, <1>1, <1>2 DEF Derived
  <2> QED BY <2>1, <2>2, <2>3, <2>4 DEF Derived
<1>7. ASSUME NEW j \in Kind PROVE Informed(j)'
  <2>1. Informed(j)
    BY <1>1 DEF Progress
  <2>2. Synced(j) => Synced(j)'
    BY <1>1, <1>2 DEF Synced
  <2> QED BY <1>3, <2>1, <2>2 DEF Informed
<1>8. Progress'
  BY <1>1, <1>7 DEF Progress
<1> QED BY <1>5, <1>6, <1>8

\* the application changes a property
LEMMA WriteStep ==
    ASSUME RecordInv, NEW k \in Kind, NEW v \in (Values(k) \ {"lua"}) \cup {"none"}, Write(k, v)
    PROVE  RecordInv'
<1> USE DEF RecordInv
<1>1. /\ prop' = [prop EXCEPT ![k] = v] /\ events' = IF phase = "new" THEN events ELSE Append(events, k)
      /\ UNCHANGED <<type, record, nofocus, icons, ewmhIcon, kind, hasType, frame, replies, phase, lua>>
  BY DEF Write
<1>2. v \in Value
  BY ValueTypes
<1>3. /\ prop' \in [Kind -> Value] /\ prop'[k] = v /\ \A j \in Kind : j # k => prop'[j] = prop[j]
      /\ \A j \in Kind : prop'[j] \in Values(j) \cup {"none"}
  BY <1>1, <1>2 DEF RecordTypes
<1>4. events' \in Seq(Kind) /\ (phase # "new" => Elements(events') = Elements(events) \cup {k})
  BY <1>1, AppendElements DEF RecordTypes
<1>5. RecordTypes' /\ Derived'
  BY <1>1, <1>3, <1>4, SameRecords DEF RecordTypes
<1>6. CASE phase = "new"
  <2>1. Progress'
    BY <1>1, <1>6 DEF Progress
  <2> QED BY <1>5, <2>1
<1>7. CASE phase # "new"
  <2>1. ASSUME NEW j \in Kind, Informed(j) PROVE Informed(j)'
    <3>1. CASE j = k
      BY <1>4, <1>7, <3>1 DEF Informed
    <3>2. CASE j # k
      BY <1>1, <1>3, <1>4, <1>7, <2>1, <3>2 DEF Informed, Synced
    <3> QED BY <3>1, <3>2
  <2>2. ASSUME NEW i, NEW j \in Kind, Answered(i, j) PROVE Answered(i, j)'
    <3>1. CASE j = k
      BY <1>4, <1>7, <3>1 DEF Answered
    <3>2. CASE j # k
      BY <1>1, <1>3, <1>4, <1>7, <2>2, <3>2 DEF Answered
    <3> QED BY <3>1, <3>2
  <2>3. CASE phase = "asking"
    <3>1. \A i \in DOMAIN replies : i \in 1..11 /\ AskedInOrder[i] \in Kind
      <4>1. DOMAIN replies = 1..Len(replies) /\ Len(replies) \in Nat /\ Len(replies) <= 11
        BY <2>3 DEF RecordTypes, Progress
      <4>2. \A i \in DOMAIN replies : i \in 1..11
        BY <4>1
      <4> QED BY <4>2, Order
    <3>2. \A i \in DOMAIN replies : Answered(i, AskedInOrder[i])'
      BY <2>2, <2>3, <3>1 DEF Progress
    <3> QED BY <1>1, <1>5, <2>3, <3>2 DEF Progress
  <2>4. CASE phase = "reading"
    <3>1. Informed("strut")' /\ \A i \in 1..11 : AskedInOrder[i] \in Kind
      BY <2>1, <2>4, Kinds, Order DEF Progress
    <3>2. PICK r \in 0..11 : Read(r)
      BY <2>4 DEF Progress
    <3>3. ASSUME NEW i \in 1..11
          PROVE  (i <= r => Informed(AskedInOrder[i])') /\ (i > r => Answered(i - r, AskedInOrder[i])')
      BY <2>1, <2>2, <3>1, <3>2 DEF Read
    <3>4. Read(r)'
      BY <1>1, <3>2, <3>3 DEF Read
    <3> QED BY <1>1, <1>5, <2>4, <3>1, <3>4 DEF Progress
  <2>5. CASE phase = "managed"
    <3>1. \A j \in Kind : Informed(j)'
      BY <2>1, <2>5 DEF Progress
    <3> QED BY <1>1, <1>5, <2>5, <3>1 DEF Progress
  <2> QED BY <1>7, <2>3, <2>4, <2>5 DEF RecordTypes
<1> QED BY <1>5, <1>6, <1>7

LEMMA RecordInitInv == PropertiesInit => RecordInv
<1> SUFFICES ASSUME PropertiesInit PROVE RecordInv
  OBVIOUS
<1>1. /\ prop \in [Kind -> {"none"}] /\ type \in {"none", "dialog", "dock"}
      /\ record = [k \in Kind |-> IF k = "opacity" THEN "zero" ELSE "none"]
      /\ nofocus = FALSE /\ icons = "none" /\ ewmhIcon = FALSE /\ kind = "normal" /\ hasType = FALSE
      /\ frame = "none" /\ replies = <<>> /\ phase = "new" /\ events = <<>> /\ lua = {}
  BY DEF PropertiesInit
<1>2. prop \in [Kind -> Value] /\ record \in [Kind -> Value] /\ \A k \in Kind : prop[k] = "none"
  BY <1>1 DEF Value
<1>3. record["opacity"] = "zero" /\ record["hints"] = "none" /\ record["icon"] = "none"
  BY <1>1, Kinds
<1>4. RecordTypes
  <2>1. <<>> \in Seq(Value) /\ <<>> \in Seq(Kind)
    OBVIOUS
  <2>2. replies \in Seq(Value) /\ events \in Seq(Kind)
    BY <1>1, <2>1
  <2>3. \A k \in Kind : prop[k] \in Values(k) \cup {"none"}
    BY <1>2
  <2>4. lua \subseteq {"name", "icon", "opacity", "strut"} /\ phase \in {"new", "asking", "reading", "managed"}
    BY <1>1
  <2>5. nofocus \in BOOLEAN /\ ewmhIcon \in BOOLEAN /\ hasType \in BOOLEAN
    BY <1>1
  <2>6. /\ icons \in {"none", "hints", "icon", "lua"}
        /\ kind \in {"normal", "dialog", "dock"} /\ type \in {"none", "dialog", "dock"}
    BY <1>1
  <2> QED BY <1>2, <2>2, <2>3, <2>4, <2>5, <2>6 DEF RecordTypes
<1>5. Derived
  BY <1>1, <1>3 DEF Derived
<1>6. Progress
  BY <1>1 DEF Progress
<1> QED BY <1>4, <1>5, <1>6 DEF RecordInv

LEMMA RecordNextInv == RecordInv /\ [PropertiesNext]_propVars => RecordInv'
<1> SUFFICES ASSUME RecordInv, [PropertiesNext]_propVars PROVE RecordInv'
  OBVIOUS
<1>1. CASE UNCHANGED propVars
  <2>1. UNCHANGED <<prop, type, record, nofocus, icons, ewmhIcon, kind, hasType, frame, replies, phase, events, lua>>
    BY <1>1 DEF propVars
  <2>2. (\A k \in Kind : Informed(k)' <=> Informed(k)) /\ \A i, k : Answered(i, k)' <=> Answered(i, k)
    BY <2>1 DEF Informed, Synced, Answered
  <2>3. \A i \in 1..11 : AskedInOrder[i] \in Kind
    BY Order
  <2>4. Informed("strut")' <=> Informed("strut")
    BY <2>1 DEF Informed, Synced
  <2>5. RecordTypes' /\ Derived'
    BY <2>1, SameRecords DEF RecordInv, RecordTypes
  <2>6. Progress'
    <3>1. ASSUME NEW r \in 0..11, Read(r) PROVE Read(r)'
      BY <2>1, <2>2, <2>3, <3>1 DEF Read
    <3> QED BY <2>1, <2>2, <2>3, <2>4, <3>1 DEF RecordInv, Progress
  <2> QED BY <2>5, <2>6 DEF RecordInv
<1>2. CASE PropertiesNext
  BY <1>2, ManageStep, ReplyStep, ReadTypeStep, NotifyStep, LuaStep, WriteStep DEF PropertiesNext
<1> QED BY <1>1, <1>2

\* client_update_properties, property_handle_propertynotify: once the events are
\* handled, what is on record is what the window says, whenever the application
\* changed it.
THEOREM RecordsSafe == PropertiesSpec => []RecordsRead
<1>1. RecordInv => RecordsRead
  <2> SUFFICES ASSUME RecordInv PROVE RecordsRead
    OBVIOUS
  <2>0. "opacity" \in Kind /\ "hints" \in Kind /\ "icon" \in Kind
    BY Kinds
  <2>1. PropertiesTypeOK
    <3>1. {"name", "icon", "opacity", "strut"} \subseteq Kind
      BY Kinds
    <3>2. lua \subseteq Kind
      BY <3>1 DEF RecordInv, RecordTypes
    <3> QED BY <3>2 DEF RecordInv, RecordTypes, PropertiesTypeOK
  <2>2. record.opacity \in {frame, "zero"}
    BY DEF RecordInv, Derived
  <2>3. ASSUME phase = "managed", events = <<>>
        PROVE  /\ \A k \in {"transient", "alt", "name", "motif", "opacity"} \ lua : prop[k] = "none" => record[k] = "none"
               /\ \A k \in Kind \ lua : prop[k] # "none" => record[k] = prop[k]
               /\ prop.hints \in {"input", "noinput"} => nofocus = (prop.hints = "noinput")
               /\ "icon" \notin lua =>
                     /\ prop.icon # "none" => icons = "icon"
                     /\ prop.hints = "pixmap" => icons # "none"
               /\ type = "dialog" => kind = "dialog"
    <3>1. \A k \in Kind : Synced(k)
      <4>1. Elements(events) = {}
        BY <2>3 DEF Elements
      <4> QED BY <2>3, <4>1 DEF RecordInv, Progress, Informed
    <3>2. {"transient", "alt", "name", "motif", "opacity"} \subseteq Kind /\ Cleared = {"transient", "alt", "name", "motif", "opacity"}
      BY Kinds DEF Cleared
    <3>3. \A k \in Kind \ lua : prop[k] # "none" => record[k] = prop[k]
      BY <3>1 DEF Synced
    <3>4. \A k \in {"transient", "alt", "name", "motif", "opacity"} \ lua : prop[k] = "none" => record[k] = "none"
      BY <3>1, <3>2 DEF Synced
    <3>5. "hints" \notin lua
      BY DEF RecordInv, RecordTypes
    <3>6. prop["hints"] # "none" => record["hints"] = prop["hints"]
      BY <2>0, <3>3, <3>5
    <3>7. "icon" \notin lua /\ prop["icon"] # "none" => record["icon"] # "none"
      BY <2>0, <3>3
    <3> QED BY <2>3, <3>3, <3>4, <3>6, <3>7 DEF RecordInv, Derived, Progress
  <2> QED BY <2>1, <2>2, <2>3 DEF RecordsRead
<1> QED BY <1>1, RecordInitInv, RecordNextInv, PTL DEF PropertiesSpec

-----------------------------------------------------------------------------
(* Pagers are informed. *)
\* what is known when the index of the current desktop is right
CurrentTold  == "current" \notin shifted => current = CurrentIndex(tags, selected, focus, tagged)
DesktopsTold == \A c \in Managed \ shifted : desktop[c] = DesktopOf(tags, tagged, sticky, c)

DeskInv ==
    /\ DesktopTypeOK
    /\ focus \in Managed \cup {"none"}
    /\ names = tags /\ listed = clients /\ active = focus
    /\ CurrentTold
    /\ DesktopsTold

\* the first index of a list that is in a set is the smallest one
LEMMA FirstIndexRight ==
    ASSUME NEW S, NEW l \in Seq(S), NEW s
    PROVE  /\ FirstIndex(l, s) \in Nat
           /\ ToSet(l) \cap s = {} => FirstIndex(l, s) = 0
           /\ ToSet(l) \cap s # {} => /\ FirstIndex(l, s) < Len(l)
                                      /\ l[FirstIndex(l, s) + 1] \in s
                                      /\ \A j \in 1..FirstIndex(l, s) : l[j] \notin s
<1>1. CASE ToSet(l) \cap s = {}
  BY <1>1 DEF FirstIndex
<1>2. CASE ToSet(l) \cap s # {}
  <2> DEFINE P == {i \in DOMAIN l : l[i] \in s}
  <2>1. P \in SUBSET Nat /\ P # {} /\ DOMAIN l = 1..Len(l) /\ Len(l) \in Nat
    <3>1. DOMAIN l = 1..Len(l) /\ Len(l) \in Nat
      OBVIOUS
    <3>2. PICK i \in DOMAIN l : l[i] \in s
      BY <1>2 DEF ToSet
    <3> QED
      BY <3>1, <3>2
  <2>2. PICK i \in P : \A j \in P : i <= j
    <3> HIDE DEF P
    <3> QED
      BY <2>1, LeastNumber
  <2>3. i \in DOMAIN l /\ l[i] \in s /\ \A j \in 1..(i - 1) : l[j] \notin s
    BY <2>1, <2>2
  <2> DEFINE f == FirstIn(l, s)
  <2>4. f \in DOMAIN l /\ l[f] \in s /\ \A j \in 1..(f - 1) : l[j] \notin s
    BY <2>3 DEF FirstIn
  <2>5. FirstIndex(l, s) = f - 1
    BY <1>2 DEF FirstIndex
  <2> HIDE DEF f, P
  <2> QED
    BY <1>2, <2>1, <2>4, <2>5
<1> QED
  BY <1>1, <1>2

LEMMA CurrentIsNat ==
    ASSUME NEW S, NEW l \in Seq(S), NEW sel, NEW f, NEW on
    PROVE  CurrentIndex(l, sel, f, on) \in Nat
BY FirstIndexRight DEF CurrentIndex

\* the current desktop and that of a client depend on the tags of one client
LEMMA SameCurrent ==
    ASSUME NEW l, NEW sel, NEW f, NEW on, NEW now, f # "none" => on[f] = now[f]
    PROVE  CurrentIndex(l, sel, f, on) = CurrentIndex(l, sel, f, now)
BY DEF CurrentIndex

LEMMA SameDesktop ==
    ASSUME NEW l, NEW on, NEW now, NEW st, NEW after, NEW c, on[c] = now[c], c \in st <=> c \in after
    PROVE  DesktopOf(l, on, st, c) = DesktopOf(l, now, after, c)
BY DEF DesktopOf

\* taking one element leaves the others
LEMMA TakenList ==
    ASSUME NEW S, NEW l \in Seq(S), NEW x \in ToSet(l)
    PROVE  /\ Taken(l, x) \in Seq(S)
           /\ ToSet(Taken(l, x)) \subseteq ToSet(l)
           /\ ToSet(l) \ {x} \subseteq ToSet(Taken(l, x))
<1> DEFINE k == CHOOSE i \in DOMAIN l : l[i] = x
<1>1. k \in DOMAIN l /\ l[k] = x
  BY DEF ToSet
<1>2. PICK i \in DOMAIN l : i = k
  BY <1>1
<1>3. PICK r : r = SubSeq(l, 1, i - 1) \o SubSeq(l, i + 1, Len(l))
  OBVIOUS
<1>4. r = Taken(l, x)
  BY <1>2, <1>3 DEF Taken, RemoveAt
<1>5. l[i] = x
  BY <1>1, <1>2
<1> HIDE DEF k
<1>6. r \in Seq(S) /\ Len(r) = Len(l) - 1 /\ \A j \in DOMAIN r : r[j] = IF j < i THEN l[j] ELSE l[j + 1]
  BY <1>3, RemoveElement
<1>7. DOMAIN r = 1..(Len(l) - 1) /\ DOMAIN l = 1..Len(l) /\ Len(l) \in Nat /\ i \in 1..Len(l)
  BY <1>6
<1>8. ASSUME NEW j \in DOMAIN r PROVE r[j] \in ToSet(l)
  <2>1. j \in DOMAIN l /\ j + 1 \in DOMAIN l
    BY <1>7
  <2> QED
    BY <1>6, <2>1 DEF ToSet
<1>9. ASSUME NEW j \in DOMAIN l, l[j] # x PROVE l[j] \in ToSet(r)
  <2>1. CASE j < i
    <3>1. j \in DOMAIN r /\ r[j] = l[j]
      BY <1>6, <1>7, <2>1
    <3> QED
      BY <3>1 DEF ToSet
  <2>2. CASE j > i
    <3>1. j - 1 \in DOMAIN r /\ ~(j - 1 < i) /\ (j - 1) + 1 = j
      BY <1>7, <2>2
    <3>2. r[j - 1] = l[j]
      BY <1>6, <3>1
    <3> QED
      BY <3>1, <3>2 DEF ToSet
  <2> QED
    BY <1>5, <1>7, <1>9, <2>1, <2>2
<1> QED
  BY <1>4, <1>6, <1>8, <1>9 DEF ToSet

-----------------------------------------------------------------------------

\* a step that changes the tags, the stickiness or the desktop of one client
\* and writes what it changes
LEMMA OneClientStep ==
    ASSUME DeskInv, UNCHANGED <<rootVars, selected, focus>>, NEW c \in Client,
           DesktopTypeOK',
           \A d \in Client \ {c} : tagged'[d] = tagged[d] /\ (d \in sticky' <=> d \in sticky) /\ desktop'[d] = desktop[d],
           desktop'[c] = DesktopOf(tags', tagged', sticky', c),
           \/ current' = CurrentIndex(tags', selected', focus', tagged') /\ shifted' = shifted \ {"current", c}
           \/ UNCHANGED <<tagged, current>> /\ shifted' = shifted \ {c}
    PROVE  DeskInv'
<1>1. tags' = tags /\ names' = names /\ clients' = clients /\ active' = active /\ listed' = listed
      /\ selected' = selected /\ focus' = focus
  BY DEF rootVars
<1>2. "current" # c
  BY DesktopsAssumption
<1>3. CurrentTold'
  <2>1. CASE current' = CurrentIndex(tags', selected', focus', tagged')
    BY <2>1 DEF CurrentTold
  <2>2. CASE UNCHANGED <<tagged, current>> /\ shifted' = shifted \ {c}
    <3>1. tagged' = tagged /\ current' = current
      BY <2>2
    <3>2. "current" \in shifted' <=> "current" \in shifted
      BY <1>2, <2>2
    <3> QED
      BY <1>1, <3>1, <3>2 DEF DeskInv, CurrentTold
  <2> QED
    BY <2>1, <2>2
<1>4. DesktopsTold'
  <2> SUFFICES ASSUME NEW d \in Managed', d \notin shifted'
               PROVE  desktop'[d] = DesktopOf(tags', tagged', sticky', d)
    BY DEF DesktopsTold
  <2>1. CASE d = c
    BY <2>1
  <2>2. CASE d # c
    <3>1. d \in Client
      BY DEF DesktopTypeOK, Managed, ToSet
    <3>2. d # "current"
      BY <3>1, DesktopsAssumption
    <3>3. d \in Managed \ shifted
      BY <1>1, <2>2, <3>2 DEF Managed
    <3>4. desktop[d] = DesktopOf(tags, tagged, sticky, d)
      BY <3>3 DEF DeskInv, DesktopsTold
    <3>5. DesktopOf(tags, tagged, sticky, d) = DesktopOf(tags, tagged', sticky', d)
      BY <2>2, <3>1, SameDesktop
    <3> QED
      BY <1>1, <2>2, <3>1, <3>4, <3>5
  <2> QED
    BY <2>1, <2>2
<1> QED
  BY <1>1, <1>3, <1>4 DEF DeskInv, Managed

\* a step that changes what the current desktop depends on, and writes it
LEMMA CurrentStep ==
    ASSUME DeskInv, UNCHANGED <<tags, names, clients, listed, tagged, sticky, desktop>>,
           DesktopTypeOK', active' = focus', focus' \in Managed \cup {"none"},
           \/ WriteCurrent /\ shifted' = shifted \ {"current"}
           \/ UNCHANGED <<selected, focus, current, shifted>>
    PROVE  DeskInv'
<1>1. tags' = tags /\ names' = names /\ clients' = clients /\ listed' = listed /\ tagged' = tagged
      /\ sticky' = sticky /\ desktop' = desktop
  OBVIOUS
<1>2. CurrentTold'
  BY <1>1 DEF DeskInv, CurrentTold, WriteCurrent
<1>3. DesktopsTold'
  <2> SUFFICES ASSUME NEW d \in Managed', d \notin shifted'
               PROVE  desktop'[d] = DesktopOf(tags', tagged', sticky', d)
    BY DEF DesktopsTold
  <2>1. d \in Client
    BY DEF DesktopTypeOK, Managed, ToSet
  <2>2. d # "current"
    BY <2>1, DesktopsAssumption
  <2>3. d \in Managed \ shifted
    BY <1>1, <2>2 DEF Managed
  <2> QED
    BY <1>1, <2>3 DEF DeskInv, DesktopsTold
<1> QED
  BY <1>1, <1>2, <1>3 DEF DeskInv, Managed

\* a change of the list of tags: what is not told afterwards is marked
LEMMA TagsStep ==
    ASSUME DeskInv, DesktopTypeOK', names' = tags', UNCHANGED <<tagged, sticky, clients, focus, active, listed, desktop>>,
           (shifted \ {"current"}) \cup Moved \subseteq shifted',
           "current" \notin shifted' => current' = CurrentIndex(tags', selected', focus', tagged')
    PROVE  DeskInv'
<1>1. clients' = clients /\ listed' = listed /\ tagged' = tagged /\ focus' = focus /\ active' = active
      /\ sticky' = sticky /\ desktop' = desktop
  OBVIOUS
<1>2. CurrentTold'
  BY DEF CurrentTold
<1>3. DesktopsTold'
  <2> SUFFICES ASSUME NEW d \in Managed', d \notin shifted'
               PROVE  desktop'[d] = DesktopOf(tags', tagged', sticky', d)
    BY DEF DesktopsTold
  <2>1. d \in Client
    BY DEF DesktopTypeOK, Managed, ToSet
  <2>2. d # "current"
    BY <2>1, DesktopsAssumption
  <2>3. d \in Managed \ shifted /\ d \notin Moved
    BY <1>1, <2>2 DEF Managed
  <2>4. CASE d \in sticky
    <3>1. desktop[d] = DesktopOf(tags, tagged, sticky, d)
      BY <2>3 DEF DeskInv, DesktopsTold
    <3> QED
      BY <1>1, <2>4, <3>1 DEF DesktopOf
  <2>5. CASE d \notin sticky
    <3>1. DesktopOf(tags', tagged', sticky', d) = desktop[d]
      BY <2>3, <2>5 DEF Moved
    <3> QED
      BY <1>1, <3>1
  <2> QED
    BY <2>4, <2>5
<1> QED
  BY <1>1, <1>2, <1>3 DEF DeskInv, Managed

-----------------------------------------------------------------------------

PagerMessage == [what : {"current"} \cup Client, index : Nat]

LEMMA TaggedStep ==
    ASSUME DeskInv, NEW c \in Client, NEW on \in SUBSET Tag, Tagged(c, on),
           UNCHANGED <<rootVars, selected, sticky, focus>>,
           pager' \in [sent : 0..MaxMessages, queue : Seq(PagerMessage)]
    PROVE  DeskInv'
<1>1. /\ tags' = tags /\ names' = names /\ clients' = clients /\ active' = active /\ listed' = listed
      /\ selected' = selected /\ sticky' = sticky /\ focus' = focus
  BY DEF rootVars
<1>2. /\ tagged \in [Client -> SUBSET Tag] /\ DOMAIN desktop = Client
      /\ tagged' = [tagged EXCEPT ![c] = on] /\ WriteDesktop(c) /\ WriteCurrent
      /\ shifted' = shifted \ {"current", c}
  BY DEF DeskInv, DesktopTypeOK, Tagged
<1>3. desktop' = [desktop EXCEPT ![c] = DesktopOf(tags', tagged', sticky', c)]
  BY <1>2 DEF WriteDesktop
<1>4. current' = CurrentIndex(tags', selected', focus', tagged')
  BY <1>2 DEF WriteCurrent
<1>5. current' \in Nat
  BY <1>1, <1>4, CurrentIsNat DEF DeskInv, DesktopTypeOK
<1>6. DesktopTypeOK'
  <2>1. tagged' \in [Client -> SUBSET Tag] /\ DOMAIN desktop' = Client
    BY <1>2, <1>3
  <2> QED
    BY <1>1, <1>2, <1>5, <2>1 DEF DeskInv, DesktopTypeOK, PagerMessage
<1>7. \A d \in Client \ {c} : tagged'[d] = tagged[d] /\ desktop'[d] = desktop[d]
  BY <1>2, <1>3
<1>8. desktop'[c] = DesktopOf(tags', tagged', sticky', c)
  BY <1>2, <1>3
<1> QED
  BY <1>1, <1>2, <1>4, <1>6, <1>7, <1>8, OneClientStep

LEMMA TagClientStep ==
    ASSUME DeskInv, NEW c \in Client, NEW t \in Tag, TagClient(c, t) \/ UntagClient(c, t) PROVE DeskInv'
<1>1. pager' = pager /\ pager \in [sent : 0..MaxMessages, queue : Seq(PagerMessage)]
      /\ UNCHANGED <<rootVars, selected, sticky, focus>>
  BY DEF TagClient, UntagClient, DeskInv, DesktopTypeOK, PagerMessage
<1>2. tagged[c] \cup {t} \in SUBSET Tag /\ tagged[c] \ {t} \in SUBSET Tag
  BY DEF DeskInv, DesktopTypeOK
<1>3. Tagged(c, tagged[c] \cup {t}) \/ Tagged(c, tagged[c] \ {t})
  BY DEF TagClient, UntagClient
<1> QED
  BY <1>1, <1>2, <1>3, TaggedStep

LEMMA StickyStep ==
    ASSUME DeskInv, NEW c \in Client, NEW s \in BOOLEAN, SetSticky(c, s) PROVE DeskInv'
<1>1. /\ tags' = tags /\ names' = names /\ clients' = clients /\ active' = active /\ listed' = listed
      /\ selected' = selected /\ tagged' = tagged /\ focus' = focus /\ current' = current /\ pager' = pager
      /\ shifted' = shifted \ {c} /\ WriteDesktop(c) /\ UNCHANGED <<rootVars, selected, focus>>
  BY DEF SetSticky, rootVars
<1>2. sticky' = (IF s THEN sticky \cup {c} ELSE sticky \ {c})
  BY DEF SetSticky
<1>3. desktop' = [desktop EXCEPT ![c] = DesktopOf(tags', tagged', sticky', c)] /\ DOMAIN desktop = Client
  BY <1>1 DEF WriteDesktop, DeskInv, DesktopTypeOK
<1>4. DesktopTypeOK'
  BY <1>1, <1>2, <1>3 DEF DeskInv, DesktopTypeOK
<1>5. \A d \in Client \ {c} : tagged'[d] = tagged[d] /\ (d \in sticky' <=> d \in sticky) /\ desktop'[d] = desktop[d]
  BY <1>1, <1>2, <1>3
<1>6. desktop'[c] = DesktopOf(tags', tagged', sticky', c)
  BY <1>3
<1> QED
  BY <1>1, <1>4, <1>5, <1>6, OneClientStep

LEMMA ViewStep ==
    ASSUME DeskInv, NEW t \in Tag, NEW s \in BOOLEAN, TagView(t, s) PROVE DeskInv'
<1>1. /\ tags' = tags /\ names' = names /\ clients' = clients /\ active' = active /\ listed' = listed
      /\ sticky' = sticky /\ tagged' = tagged /\ focus' = focus /\ desktop' = desktop /\ pager' = pager
      /\ shifted' = shifted \ {"current"} /\ WriteCurrent
      /\ selected' = (IF s THEN selected \cup {t} ELSE selected \ {t})
  BY DEF TagView, rootVars
<1>2. current' \in Nat
  BY <1>1, CurrentIsNat DEF WriteCurrent, DeskInv, DesktopTypeOK
<1>3. DesktopTypeOK'
  BY <1>1, <1>2 DEF DeskInv, DesktopTypeOK
<1>4. focus' \in Managed \cup {"none"} /\ active' = focus'
  BY <1>1 DEF DeskInv
<1> QED
  BY <1>1, <1>3, <1>4, CurrentStep

LEMMA FocusStep ==
    ASSUME DeskInv, (\E c \in Client : Focus(c)) \/ Unfocus PROVE DeskInv'
<1>1. /\ tags' = tags /\ names' = names /\ clients' = clients /\ listed' = listed /\ selected' = selected
      /\ sticky' = sticky /\ tagged' = tagged /\ desktop' = desktop /\ pager' = pager
      /\ shifted' = shifted \ {"current"} /\ WriteCurrent /\ active' = focus' /\ focus' \in Managed \cup {"none"}
  BY DEF Focus, Unfocus
<1>2. current' \in Nat
  BY <1>1, CurrentIsNat DEF WriteCurrent, DeskInv, DesktopTypeOK
<1>3. Managed \subseteq Client
  BY DEF DeskInv, DesktopTypeOK, Managed, ToSet
<1>4. DesktopTypeOK'
  BY <1>1, <1>2, <1>3 DEF DeskInv, DesktopTypeOK
<1> QED
  BY <1>1, <1>4, CurrentStep

LEMMA ActivateStep ==
    ASSUME DeskInv, NEW t \in Tag, Activate(t) PROVE DeskInv'
<1>1. /\ selected' = selected /\ tagged' = tagged /\ sticky' = sticky /\ clients' = clients /\ focus' = focus
      /\ current' = current /\ active' = active /\ listed' = listed /\ desktop' = desktop /\ pager' = pager
      /\ names' = tags' /\ tags' = Append(tags, t)
  BY DEF Activate
<1>2. tags' \in Seq(Tag)
  BY <1>1 DEF DeskInv, DesktopTypeOK
<1>3. /\ shifted \cup Moved \subseteq shifted' /\ shifted' \subseteq shifted \cup Moved \cup {"current"}
      /\ "current" \notin shifted' => CurrentIndex(tags', selected, focus, tagged) = current
  <2>1. CASE CurrentIndex(tags', selected, focus, tagged) = current
    BY <2>1 DEF Activate
  <2>2. CASE CurrentIndex(tags', selected, focus, tagged) # current
    BY <2>2 DEF Activate
  <2> QED
    BY <2>1, <2>2
<1>4. Moved \subseteq Client
  BY DEF Moved, DeskInv, DesktopTypeOK, Managed, ToSet
<1>5. DesktopTypeOK'
  BY <1>1, <1>2, <1>3, <1>4 DEF DeskInv, DesktopTypeOK
<1>6. "current" \notin shifted' => current' = CurrentIndex(tags', selected', focus', tagged')
  BY <1>1, <1>3
<1>7. (shifted \ {"current"}) \cup Moved \subseteq shifted'
  BY <1>3
<1> QED
  BY <1>1, <1>5, <1>6, <1>7, TagsStep

LEMMA DeactivateStep ==
    ASSUME DeskInv, NEW t \in Tag, Deactivate(t) PROVE DeskInv'
<1>1. /\ tagged' = tagged /\ sticky' = sticky /\ clients' = clients /\ focus' = focus
      /\ active' = active /\ listed' = listed /\ desktop' = desktop /\ pager' = pager
      /\ names' = tags' /\ tags' = Taken(tags, t) /\ t \in ToSet(tags) /\ selected' = selected \ {t}
  BY DEF Deactivate
<1>2. tags' \in Seq(Tag)
  BY <1>1, TakenList DEF DeskInv, DesktopTypeOK
<1>3. Moved \subseteq Client
  BY DEF Moved, DeskInv, DesktopTypeOK, Managed, ToSet
<1>4. CASE t \in selected
  <2>1. current' = CurrentIndex(tags', selected', focus', tagged') /\ shifted' = Moved \cup (shifted \ {"current"})
    BY <1>1, <1>4 DEF Deactivate, AfterRemoval
  <2>2. current' \in Nat
    BY <1>2, <2>1, CurrentIsNat
  <2>3. DesktopTypeOK'
    BY <1>1, <1>2, <1>3, <2>1, <2>2 DEF DeskInv, DesktopTypeOK
  <2> QED
    BY <1>1, <2>1, <2>3, TagsStep
<1>5. CASE t \notin selected
  <2>1. current' = current /\ selected' = selected
    BY <1>1, <1>5 DEF Deactivate
  <2>2. /\ shifted \cup Moved \subseteq shifted' /\ shifted' \subseteq shifted \cup Moved \cup {"current"}
        /\ "current" \notin shifted' => CurrentIndex(tags', selected, focus, tagged) = current
    <3>1. CASE CurrentIndex(tags', selected, focus, tagged) = current
      BY <1>5, <3>1 DEF Deactivate
    <3>2. CASE CurrentIndex(tags', selected, focus, tagged) # current
      BY <1>5, <3>2 DEF Deactivate
    <3> QED
      BY <3>1, <3>2
  <2>3. DesktopTypeOK'
    BY <1>1, <1>2, <1>3, <2>1, <2>2 DEF DeskInv, DesktopTypeOK
  <2>4. "current" \notin shifted' => current' = CurrentIndex(tags', selected', focus', tagged')
    BY <1>1, <2>1, <2>2
  <2>5. (shifted \ {"current"}) \cup Moved \subseteq shifted'
    BY <2>2
  <2> QED
    BY <1>1, <2>3, <2>4, <2>5, TagsStep
<1> QED
  BY <1>4, <1>5

\* a client that is managed gets the tag its old index names, if there is one
LEMMA DeskManageStep ==
    ASSUME DeskInv, NEW c \in Client, Manage(c) PROVE DeskInv'
<1> DEFINE olds == {"unset", "all"} \cup {ToString(i) : i \in 0..Len(tags)}
<1>1. /\ tags' = tags /\ selected' = selected /\ focus' = focus /\ names' = names /\ active' = active /\ pager' = pager
      /\ c \notin Managed /\ clients' = <<c>> \o clients /\ listed' = clients'
  BY DEF Manage
<1>2. clients' \in Seq(Client) /\ Managed' = Managed \cup {c}
  <2>1. clients \in Seq(Client)
    BY DEF DeskInv, DesktopTypeOK
  <2>2. PICK g \in Seq(Client) : g = <<c>> /\ Elements(g) = {c}
    BY ShortElements
  <2>3. PICK n \in Seq(Client) : n = clients
    BY <2>1
  <2>4. g \o n \in Seq(Client) /\ Elements(g \o n) = Elements(g) \cup Elements(n)
    BY ConcatElements
  <2>5. clients' = g \o n
    BY <1>1, <2>2, <2>3
  <2>6. Managed' = Elements(g \o n) /\ Managed = Elements(n)
    BY <2>3, <2>5 DEF Managed, ToSet, Elements
  <2> QED
    BY <2>2, <2>4, <2>5, <2>6
<1>3. PICK old \in olds, on \in SUBSET Tag :
          /\ tagged' = [tagged EXCEPT ![c] = on]
          /\ sticky' = IF old = "all" THEN sticky \cup {c} ELSE sticky
          /\ IF on = {} /\ old # "all"
             THEN desktop' = [desktop EXCEPT ![c] = old] /\ UNCHANGED current /\ shifted' = shifted \cup {c}
             ELSE WriteDesktop(c) /\ shifted' = (shifted \ {c}) \ (IF on = {} THEN {} ELSE {"current"})
                  /\ IF on = {} THEN UNCHANGED current ELSE WriteCurrent
  <2> DEFINE of(o) == IF \E i \in DOMAIN tags : o = ToString(i - 1)
                      THEN {tags[CHOOSE i \in DOMAIN tags : o = ToString(i - 1)]} ELSE {}
  <2>1. \A o \in olds : of(o) \in SUBSET Tag
    BY DEF DeskInv, DesktopTypeOK
  <2>2. \E o \in olds :
          /\ tagged' = [tagged EXCEPT ![c] = of(o)]
          /\ sticky' = IF o = "all" THEN sticky \cup {c} ELSE sticky
          /\ IF of(o) = {} /\ o # "all"
             THEN desktop' = [desktop EXCEPT ![c] = o] /\ UNCHANGED current /\ shifted' = shifted \cup {c}
             ELSE WriteDesktop(c) /\ shifted' = (shifted \ {c}) \ (IF of(o) = {} THEN {} ELSE {"current"})
                  /\ IF of(o) = {} THEN UNCHANGED current ELSE WriteCurrent
    BY DEF Manage
  <2> HIDE DEF of, olds
  <2> QED
    BY <2>1, <2>2
<1>4. /\ DOMAIN desktop = Client /\ tagged \in [Client -> SUBSET Tag] /\ sticky \subseteq Client /\ shifted \subseteq Client \cup {"current"}
      /\ tags \in Seq(Tag) /\ current \in Nat
  BY DEF DeskInv, DesktopTypeOK
<1> HIDE DEF olds
<1>5. /\ tagged' \in [Client -> SUBSET Tag] /\ sticky' \subseteq Client /\ sticky \subseteq sticky' /\ sticky' \subseteq sticky \cup {c}
      /\ \A d \in Client \ {c} : tagged'[d] = tagged[d]
  BY <1>3, <1>4
<1>6. CurrentIndex(tags', selected', focus', tagged') = CurrentIndex(tags, selected, focus, tagged)
  <2>1. focus # "none" => tagged[focus] = tagged'[focus]
    BY <1>1, <1>5 DEF DeskInv, DesktopTypeOK
  <2> QED
    BY <1>1, <2>1, SameCurrent
<1>7. c # "current"
  BY DesktopsAssumption
<1>8. /\ DOMAIN desktop' = Client /\ \A d \in Client \ {c} : desktop'[d] = desktop[d]
      /\ current' \in Nat /\ shifted' \subseteq Client \cup {"current"} /\ shifted \subseteq shifted' \cup {c, "current"}
      /\ "current" \notin shifted' => current' = CurrentIndex(tags', selected', focus', tagged')
      /\ c \notin shifted' => desktop'[c] = DesktopOf(tags', tagged', sticky', c)
  <2>1. CASE on = {} /\ old # "all"
    <3>1. desktop' = [desktop EXCEPT ![c] = old] /\ current' = current /\ shifted' = shifted \cup {c}
      BY <1>3, <2>1
    <3>2. DOMAIN desktop' = Client /\ \A d \in Client \ {c} : desktop'[d] = desktop[d]
      BY <1>4, <3>1
    <3>3. "current" \notin shifted' => current' = CurrentIndex(tags', selected', focus', tagged')
      BY <1>6, <3>1 DEF DeskInv, CurrentTold
    <3> QED
      BY <1>4, <3>1, <3>2, <3>3
  <2>2. CASE ~(on = {} /\ old # "all")
    <3>1. WriteDesktop(c) /\ shifted' = (shifted \ {c}) \ (IF on = {} THEN {} ELSE {"current"})
          /\ IF on = {} THEN UNCHANGED current ELSE WriteCurrent
      BY <1>3, <2>2
    <3>2. desktop' = [desktop EXCEPT ![c] = DesktopOf(tags', tagged', sticky', c)]
      BY <3>1 DEF WriteDesktop
    <3>3. DOMAIN desktop' = Client /\ (\A d \in Client \ {c} : desktop'[d] = desktop[d])
          /\ desktop'[c] = DesktopOf(tags', tagged', sticky', c)
      BY <1>4, <3>2
    <3>4. CASE on = {}
      <4>1. current' = current /\ shifted' = shifted \ {c}
        BY <3>1, <3>4
      <4>2. "current" \notin shifted' => current' = CurrentIndex(tags', selected', focus', tagged')
        BY <1>6, <1>7, <4>1 DEF DeskInv, CurrentTold
      <4> QED
        BY <1>4, <3>3, <4>1, <4>2
    <3>5. CASE on # {}
      <4>1. current' = CurrentIndex(tags', selected', focus', tagged') /\ shifted' = (shifted \ {c}) \ {"current"}
        BY <3>1, <3>5 DEF WriteCurrent
      <4>2. current' \in Nat
        BY <1>1, <1>4, <4>1, CurrentIsNat
      <4> QED
        BY <1>4, <3>3, <4>1, <4>2
    <3> QED
      BY <3>4, <3>5
  <2> QED
    BY <2>1, <2>2
<1>9. DesktopTypeOK'
  BY <1>1, <1>2, <1>5, <1>8 DEF DeskInv, DesktopTypeOK
<1>10. DesktopsTold'
  <2> SUFFICES ASSUME NEW d \in Managed', d \notin shifted'
               PROVE  desktop'[d] = DesktopOf(tags', tagged', sticky', d)
    BY DEF DesktopsTold
  <2>1. CASE d = c
    BY <1>8, <2>1
  <2>2. CASE d # c
    <3>0. Managed \subseteq Client
      BY DEF DeskInv, DesktopTypeOK, Managed, ToSet
    <3>1. d \in Managed /\ d \in Client
      BY <1>2, <2>2, <3>0
    <3>2. d # "current"
      BY <3>1, DesktopsAssumption
    <3>3. d \in Managed \ shifted
      BY <1>8, <2>2, <3>1, <3>2
    <3>4. desktop[d] = DesktopOf(tags, tagged, sticky, d)
      BY <3>3 DEF DeskInv, DesktopsTold
    <3>5. tagged[d] = tagged'[d] /\ (d \in sticky <=> d \in sticky')
      BY <1>5, <2>2, <3>1
    <3>6. DesktopOf(tags, tagged, sticky, d) = DesktopOf(tags, tagged', sticky', d)
      BY <3>5, SameDesktop
    <3> QED
      BY <1>1, <1>8, <2>2, <3>1, <3>4, <3>6
  <2> QED
    BY <2>1, <2>2
<1> QED
  BY <1>1, <1>2, <1>8, <1>9, <1>10 DEF DeskInv, CurrentTold

\* a client that is unmanaged has no activated tag left
LEMMA UnmanageStep ==
    ASSUME DeskInv, NEW c \in Client, Unmanage(c) PROVE DeskInv'
<1>1. /\ tags' = tags /\ selected' = selected /\ names' = names /\ pager' = pager /\ c \in Managed
      /\ focus' = (IF focus = c THEN "none" ELSE focus) /\ active' = (IF focus = c THEN "none" ELSE active)
      /\ clients' = Taken(clients, c) /\ listed' = clients'
      /\ tagged' = [tagged EXCEPT ![c] = @ \ ToSet(tags)]
      /\ sticky' = sticky \ {c} /\ desktop' = [desktop EXCEPT ![c] = "unset"]
  BY DEF Unmanage
<1>2. /\ DOMAIN desktop = Client /\ tagged \in [Client -> SUBSET Tag] /\ sticky \subseteq Client /\ shifted \subseteq Client \cup {"current"}
      /\ tags \in Seq(Tag) /\ current \in Nat /\ clients \in Seq(Client) /\ "none" \notin Client
  BY DesktopsAssumption DEF DeskInv, DesktopTypeOK
<1>3. clients' \in Seq(Client) /\ Managed' \subseteq Managed /\ Managed \ {c} \subseteq Managed'
  BY <1>1, <1>2, TakenList DEF Managed
<1>4. /\ tagged' \in [Client -> SUBSET Tag] /\ DOMAIN desktop' = Client /\ tagged'[c] = tagged[c] \ ToSet(tags)
      /\ desktop'[c] = "unset"
      /\ \A d \in Client \ {c} : tagged'[d] = tagged[d] /\ desktop'[d] = desktop[d]
  BY <1>1, <1>2
<1>5. /\ current' \in Nat /\ shifted' \subseteq shifted /\ shifted \subseteq shifted' \cup {c, "current"}
      /\ "current" \notin shifted' => current' = CurrentIndex(tags', selected', focus', tagged')
  <2>1. CASE focus = c \/ tagged' # tagged
    <3>1. current' = CurrentIndex(tags', selected', focus', tagged') /\ shifted' = shifted \ {c, "current"}
      BY <2>1 DEF Unmanage, WriteCurrent
    <3>2. current' \in Nat
      BY <1>1, <1>2, <3>1, CurrentIsNat
    <3> QED
      BY <3>1, <3>2
  <2>2. CASE ~(focus = c \/ tagged' # tagged)
    <3>1. current' = current /\ shifted' = shifted \ {c} /\ tagged' = tagged /\ focus' = focus
      BY <1>1, <2>2 DEF Unmanage
    <3>2. c # "current"
      BY DesktopsAssumption
    <3> QED
      BY <1>1, <1>2, <3>1, <3>2 DEF DeskInv, CurrentTold
  <2> QED
    BY <2>1, <2>2
<1>6. focus' \in Managed' \cup {"none"} /\ active' = focus'
  BY <1>1, <1>3 DEF DeskInv
<1>7. DesktopTypeOK'
  <2>1. focus' \in Client \cup {"none"} /\ active' \in Client \cup {"none"}
    BY <1>1 DEF DeskInv, DesktopTypeOK
  <2> QED
    BY <1>1, <1>2, <1>3, <1>4, <1>5, <2>1 DEF DeskInv, DesktopTypeOK
<1>8. DesktopsTold'
  <2> SUFFICES ASSUME NEW d \in Managed', d \notin shifted'
               PROVE  desktop'[d] = DesktopOf(tags', tagged', sticky', d)
    BY DEF DesktopsTold
  <2>1. CASE d = c
    <3>1. c \notin sticky' /\ ToSet(tags') \cap tagged'[c] = {}
      BY <1>1, <1>4
    <3> QED
      BY <1>4, <2>1, <3>1 DEF DesktopOf
  <2>2. CASE d # c
    <3>0. Managed \subseteq Client
      BY DEF DeskInv, DesktopTypeOK, Managed, ToSet
    <3>1. d \in Managed /\ d \in Client
      BY <1>3, <3>0
    <3>2. d # "current"
      BY <3>1, DesktopsAssumption
    <3>3. d \in Managed \ shifted
      BY <1>5, <2>2, <3>1, <3>2
    <3>4. desktop[d] = DesktopOf(tags, tagged, sticky, d)
      BY <3>3 DEF DeskInv, DesktopsTold
    <3>5. tagged[d] = tagged'[d] /\ (d \in sticky <=> d \in sticky')
      BY <1>1, <1>4, <2>2, <3>1
    <3>6. DesktopOf(tags, tagged, sticky, d) = DesktopOf(tags, tagged', sticky', d)
      BY <3>5, SameDesktop
    <3> QED
      BY <1>1, <1>4, <2>2, <3>1, <3>4, <3>6
  <2> QED
    BY <2>1, <2>2
<1> QED
  BY <1>1, <1>5, <1>6, <1>7, <1>8 DEF DeskInv, CurrentTold

\* the first message of a pager
LEMMA HandledMessage ==
    ASSUME DeskInv, pager.queue # <<>>, Handled
    PROVE  /\ Head(pager.queue) \in PagerMessage
           /\ pager' \in [sent : 0..MaxMessages, queue : Seq(PagerMessage)]
<1>1. pager \in [sent : 0..MaxMessages, queue : Seq(PagerMessage)]
  BY DEF DeskInv, DesktopTypeOK, PagerMessage
<1>2. PICK q \in Seq(PagerMessage) : q = pager.queue
  BY <1>1
<1>3. Head(q) \in PagerMessage /\ Tail(q) \in Seq(PagerMessage)
  BY <1>2
<1>4. pager' = [pager EXCEPT !.queue = Tail(q)]
  BY <1>2 DEF Handled
<1> QED
  BY <1>1, <1>2, <1>3, <1>4

LEMMA HandleCurrentStep ==
    ASSUME DeskInv, HandleCurrent PROVE DeskInv'
<1>1. pager' \in [sent : 0..MaxMessages, queue : Seq(PagerMessage)]
  BY HandledMessage DEF HandleCurrent
<1>2. /\ tags' = tags /\ names' = names /\ clients' = clients /\ active' = active /\ listed' = listed
      /\ sticky' = sticky /\ tagged' = tagged /\ focus' = focus /\ desktop' = desktop
      /\ selected' \subseteq Tag
      /\ \/ UNCHANGED <<selected, current, shifted>>
         \/ WriteCurrent /\ shifted' = shifted \ {"current"}
  <2>1. selected' = selected \/ (\E i \in DOMAIN tags : selected' = {tags[i]})
    BY DEF HandleCurrent
  <2>2. selected' \subseteq Tag
    BY <2>1 DEF DeskInv, DesktopTypeOK
  <2>3. CASE Named \in DOMAIN tags
    BY <2>2, <2>3 DEF HandleCurrent, rootVars
  <2>4. CASE Named \notin DOMAIN tags
    BY <2>2, <2>4 DEF HandleCurrent, rootVars
  <2> QED
    BY <2>3, <2>4
<1>3. current' \in Nat /\ shifted' \subseteq Client \cup {"current"}
  <2>1. CASE UNCHANGED <<selected, current, shifted>>
    BY <2>1 DEF DeskInv, DesktopTypeOK
  <2>2. CASE WriteCurrent /\ shifted' = shifted \ {"current"}
    BY <1>2, <2>2, CurrentIsNat DEF DeskInv, DesktopTypeOK, WriteCurrent
  <2> QED
    BY <1>2, <2>1, <2>2
<1>4. DesktopTypeOK'
  BY <1>1, <1>2, <1>3 DEF DeskInv, DesktopTypeOK, PagerMessage
<1>5. focus' \in Managed \cup {"none"} /\ active' = focus'
  BY <1>2 DEF DeskInv
<1> QED
  BY <1>2, <1>4, <1>5, CurrentStep

LEMMA HandleDesktopStep ==
    ASSUME DeskInv, HandleDesktop PROVE DeskInv'
<1>1. pager' \in [sent : 0..MaxMessages, queue : Seq(PagerMessage)]
  BY HandledMessage DEF HandleDesktop
<1>2. UNCHANGED <<rootVars, selected, sticky, focus>>
  BY DEF HandleDesktop
<1>3. CASE \E c \in Client, i \in DOMAIN tags : Tagged(c, {tags[i]})
  <2>1. PICK c \in Client, i \in DOMAIN tags : Tagged(c, {tags[i]})
    BY <1>3
  <2>2. {tags[i]} \in SUBSET Tag
    BY DEF DeskInv, DesktopTypeOK
  <2> QED
    BY <1>1, <1>2, <2>1, <2>2, TaggedStep
<1>4. CASE UNCHANGED <<tagged, desktop, current, shifted>>
  <2>1. /\ tags' = tags /\ names' = names /\ clients' = clients /\ active' = active /\ listed' = listed
        /\ selected' = selected /\ sticky' = sticky /\ focus' = focus
    BY <1>2 DEF rootVars
  <2>2. DesktopTypeOK'
    BY <1>1, <1>4, <2>1 DEF DeskInv, DesktopTypeOK, PagerMessage
  <2> QED
    BY <1>4, <2>1, <2>2 DEF DeskInv, CurrentTold, DesktopsTold, Managed
<1> QED
  BY <1>3, <1>4 DEF HandleDesktop

LEMMA QuietStep ==
    ASSUME DeskInv, UNCHANGED <<tags, selected, tagged, sticky, clients, focus, current, active, listed, desktop, shifted>>,
           names' = tags', pager' \in [sent : 0..MaxMessages, queue : Seq(PagerMessage)]
    PROVE  DeskInv'
<1>1. DesktopTypeOK'
  BY DEF DeskInv, DesktopTypeOK, PagerMessage
<1> QED
  BY <1>1 DEF DeskInv, CurrentTold, DesktopsTold, Managed

LEMMA SendStep ==
    ASSUME DeskInv, NEW w \in {"current"} \cup Client, NEW i \in 0..(Len(tags) - 1), Send(w, i) PROVE DeskInv'
<1>1. pager \in [sent : 0..MaxMessages, queue : Seq(PagerMessage)] /\ Len(tags) \in Nat /\ MaxMessages \in Nat
  BY DesktopsAssumption DEF DeskInv, DesktopTypeOK, PagerMessage
<1>2. PICK m \in PagerMessage : m = [what |-> w, index |-> i]
  <2>1. i \in Nat
    BY <1>1
  <2> QED
    BY <2>1 DEF PagerMessage
<1>3. PICK q \in Seq(PagerMessage) : q = pager.queue
  BY <1>1
<1>4. Append(q, m) \in Seq(PagerMessage)
  OBVIOUS
<1>5. pager' = [sent |-> pager.sent + 1, queue |-> Append(q, m)] /\ pager.sent < MaxMessages
  BY <1>2, <1>3 DEF Send
<1>6. pager' \in [sent : 0..MaxMessages, queue : Seq(PagerMessage)]
  BY <1>1, <1>4, <1>5
<1>7. UNCHANGED <<tags, selected, tagged, sticky, clients, focus, current, active, listed, desktop, shifted>> /\ names' = tags'
  BY DEF Send, rootVars, DeskInv
<1> QED
  BY <1>6, <1>7, QuietStep

-----------------------------------------------------------------------------

LEMMA DeskInit == ASSUME DesktopInit PROVE DeskInv
<1>1. <<>> \in Seq(Tag) /\ <<>> \in Seq(Client) /\ <<>> \in Seq(PagerMessage) /\ DOMAIN <<>> = {} /\ 0 \in 0..MaxMessages
  BY DesktopsAssumption
<1>2. DesktopTypeOK
  BY <1>1 DEF DesktopInit, DesktopTypeOK, PagerMessage
<1>3. CurrentIndex(tags, selected, focus, tagged) = 0
  BY DEF DesktopInit, CurrentIndex, FirstIndex
<1>4. Managed = {}
  BY <1>1 DEF DesktopInit, Managed, ToSet
<1> QED
  BY <1>2, <1>3, <1>4 DEF DesktopInit, DeskInv, CurrentTold, DesktopsTold

LEMMA DeskNext == ASSUME DeskInv, [DesktopNext]_desktopVars PROVE DeskInv'
<1>1. pager \in [sent : 0..MaxMessages, queue : Seq(PagerMessage)]
  BY DEF DeskInv, DesktopTypeOK, PagerMessage
<1>2. CASE DesktopNext
  <2>1. ASSUME NEW c \in Client, Manage(c) \/ Unmanage(c) \/ Focus(c) \/ \E s \in BOOLEAN : SetSticky(c, s) PROVE DeskInv'
    BY <2>1, DeskManageStep, UnmanageStep, FocusStep, StickyStep
  <2>2. ASSUME NEW c \in Client, NEW t \in Tag, TagClient(c, t) \/ UntagClient(c, t) PROVE DeskInv'
    BY <2>2, TagClientStep
  <2>3. ASSUME NEW t \in Tag, SetName(t) PROVE DeskInv'
    BY <1>1, <2>3, QuietStep DEF SetName
  <2>4. ASSUME NEW t \in Tag, Activate(t) \/ Deactivate(t) \/ \E s \in BOOLEAN : TagView(t, s) PROVE DeskInv'
    BY <2>4, ActivateStep, DeactivateStep, ViewStep
  <2>5. CASE Unfocus \/ HandleCurrent \/ HandleDesktop
    BY <2>5, FocusStep, HandleCurrentStep, HandleDesktopStep
  <2>6. ASSUME NEW w \in {"current"} \cup Client, NEW i \in 0..(Len(tags) - 1), Send(w, i) PROVE DeskInv'
    BY <2>6, SendStep
  <2> QED
    BY <1>2, <2>1, <2>2, <2>3, <2>4, <2>5, <2>6 DEF DesktopNext
<1>3. CASE UNCHANGED desktopVars
  <2>1. UNCHANGED <<tags, selected, tagged, sticky, clients, focus, current, active, listed, desktop, shifted>>
        /\ names' = tags' /\ pager' = pager
    BY <1>3 DEF desktopVars, DeskInv
  <2> QED
    BY <1>1, <2>1, QuietStep
<1> QED
  BY <1>2, <1>3

\* the index that is written is that of the first tag that may be current
LEMMA DeskInformed == ASSUME DeskInv PROVE PagersInformed
<1>1. tags \in Seq(Tag)
  BY DEF DeskInv, DesktopTypeOK
<1>2. PICK s : s = (IF focus # "none" /\ ToSet(tags) \cap selected \cap tagged[focus] # {}
                    THEN selected \cap tagged[focus] ELSE selected)
  OBVIOUS
<1>3. Candidates = s \cap ToSet(tags) /\ CurrentIndex(tags, selected, focus, tagged) = FirstIndex(tags, s)
  <2>1. CASE focus # "none" /\ ToSet(tags) \cap selected \cap tagged[focus] # {}
    BY <1>2, <2>1 DEF Candidates, CurrentIndex
  <2>2. CASE ~(focus # "none" /\ ToSet(tags) \cap selected \cap tagged[focus] # {})
    BY <1>2, <2>2 DEF Candidates, CurrentIndex
  <2> QED
    BY <2>1, <2>2
<1>4. ASSUME "current" \notin shifted
      PROVE  IF Candidates = {} THEN current = 0
             ELSE /\ current < Len(tags) /\ tags[current + 1] \in Candidates
                  /\ \A i \in 1..current : tags[i] \notin Candidates
  <2>1. current = FirstIndex(tags, s) /\ current \in Nat
    BY <1>3, <1>4 DEF DeskInv, CurrentTold, DesktopTypeOK
  <2>2. CASE ToSet(tags) \cap s = {}
    BY <1>1, <1>3, <2>1, <2>2, FirstIndexRight
  <2>3. CASE ToSet(tags) \cap s # {}
    <3>1. current < Len(tags) /\ tags[current + 1] \in s /\ \A i \in 1..current : tags[i] \notin s
      BY <1>1, <2>1, <2>3, FirstIndexRight
    <3>2. tags[current + 1] \in ToSet(tags)
      BY <1>1, <2>1, <3>1 DEF ToSet
    <3> QED
      BY <1>3, <2>3, <3>1, <3>2
  <2> QED
    BY <2>2, <2>3
<1> QED
  BY <1>4 DEF DeskInv, PagersInformed, DesktopsTold

\* What pagers read of desktops, clients and the active window is what the
\* manager has, but for an index that the activation or deactivation of a tag
\* changed after it was written.
THEOREM DesktopsSafe == DesktopSpec => []PagersInformed
<1>1. DesktopInit => DeskInv
  BY DeskInit
<1>2. DeskInv /\ [DesktopNext]_desktopVars => DeskInv'
  BY DeskNext
<1>3. DeskInv => PagersInformed
  BY DeskInformed
<1> QED
  BY <1>1, <1>2, <1>3, PTL DEF DesktopSpec

-----------------------------------------------------------------------------
(* The geometry of a client. *)
\* where the client was told it is: where X has it if X could do as asked
Knows ==
    /\ XTakes(xclient) => xwindow = xclient
    /\ told.area = [x |-> xframe.x + xclient.x, y |-> xframe.y + xclient.y,
                    width |-> xclient.width, height |-> xclient.height]

\* a call will place the titlebars before it returns
Placing == \E i \in DOMAIN frames : frames[i].kind \in {"resize", "fullscreen"}

Placed ==
    \A b \in AllBars : bars[b] # 0 =>
        LET a == BarArea(b, geo) IN
        /\ drawn[b].width = IF fullscreen THEN 0 ELSE a.width
        /\ drawn[b].height = IF fullscreen THEN 0 ELSE a.height
        /\ ~overtaken => drawn[b].x = geo.x + a.x /\ drawn[b].y = geo.y + a.y

\* a titlebar that has a size has a drawable
Drawables == \A b \in AllBars : drawn[b] \in Area \/ (drawn[b] = NoArea /\ bars[b] = 0)

GeoInv == GeometryTypeOK /\ Knows /\ (Placing \/ Placed) /\ Drawables
-----------------------------------------------------------------------------
(* Areas stay areas. *)

BarsOK == bars \in [AllBars -> Nat]

LEMMA ConstantsOK ==
    /\ Areas \subseteq Area /\ FirstArea \in Area /\ Bars \subseteq AllBars
    /\ BarSizes \subseteq Nat /\ Borders \subseteq Nat /\ MaxFrames \in Nat \ {0, 1} /\ MaxChanges \in Nat
<1>1. Card16 \subseteq Nat /\ Card16 \subseteq Int
  BY DEF Card16
<1>2. Window \subseteq Area
  BY <1>1 DEF Window, Area
<1> QED
  BY <1>1, <1>2, ClientGeometryAssumption

\* a change of the size or of the place
Sized(a, w, h) == [a EXCEPT !.width = w, !.height = h]
At(a, x, y)    == [a EXCEPT !.x = x, !.y = y]

LEMMA SizedArea ==
    ASSUME NEW a \in Area, NEW w \in Int, NEW h \in Int, NEW r, r = Sized(a, w, h)
    PROVE  r \in Area /\ r.width = w /\ r.height = h /\ r.x = a.x /\ r.y = a.y
<1>1. PICK b : b = [a EXCEPT !.width = w]
  OBVIOUS
<1>2. b \in Area /\ b.width = w /\ b.height = a.height /\ b.x = a.x /\ b.y = a.y
  BY <1>1 DEF Area
<1>3. r = [b EXCEPT !.height = h]
  BY <1>1 DEF Sized
<1> QED
  BY <1>2, <1>3 DEF Area

LEMMA MovedArea ==
    ASSUME NEW a \in Area, NEW x \in Int, NEW y \in Int, NEW r, r = At(a, x, y)
    PROVE  r \in Area /\ r.x = x /\ r.y = y /\ r.width = a.width /\ r.height = a.height
<1>1. PICK b : b = [a EXCEPT !.x = x]
  OBVIOUS
<1>2. b \in Area /\ b.x = x /\ b.y = a.y /\ b.width = a.width /\ b.height = a.height
  BY <1>1 DEF Area
<1>3. r = [b EXCEPT !.y = y]
  BY <1>1 DEF At
<1> QED
  BY <1>2, <1>3 DEF Area

LEMMA SumsNat == ASSUME BarsOK PROVE SumWidth \in Nat /\ SumHeight \in Nat /\ \A b \in AllBars : bars[b] \in Nat
<1>1. bars["left"] \in Nat /\ bars["right"] \in Nat /\ bars["top"] \in Nat /\ bars["bottom"] \in Nat
  BY DEF BarsOK, AllBars
<1> QED
  BY <1>1 DEF SumWidth, SumHeight, BarsOK

LEMMA InnerArea ==
    ASSUME BarsOK, NEW a \in Area
    PROVE  /\ Inner(a) \in Area /\ Outer(a) \in Area
           /\ Inner(a).width = a.width - SumWidth /\ Inner(a).height = a.height - SumHeight
           /\ Inner(a).x = a.x + bars["left"] /\ Inner(a).y = a.y + bars["top"]
           /\ Outer(a).width = a.width + SumWidth /\ Outer(a).height = a.height + SumHeight
<1>1. bars["left"] \in Nat /\ bars["top"] \in Nat /\ SumWidth \in Nat /\ SumHeight \in Nat
  BY SumsNat DEF AllBars
<1>2. a.x \in Int /\ a.y \in Int /\ a.width \in Int /\ a.height \in Int
  BY DEF Area
<1> QED
  BY <1>1, <1>2 DEF Inner, Outer, Area

LEMMA MovedInt ==
    ASSUME NEW before \in Int, NEW after \in Int, NEW far, NEW middle
    PROVE  MovedBy(before, after, far, middle) \in Int
<1>1. \A n \in Int : n \div 2 \in Int
  OBVIOUS
<1>2. Half(-(before + after)) \in Int
  BY <1>1 DEF Half
<1> QED
  BY <1>2 DEF MovedBy

LEMMA TranslateArea ==
    ASSUME NEW a \in Area, NEW l \in Int, NEW t \in Int, NEW r \in Int, NEW b \in Int
    PROVE  /\ Translate(a, l, t, r, b) \in Area
           /\ Translate(a, l, t, r, b).width = a.width /\ Translate(a, l, t, r, b).height = a.height
<1>1. PICK dx \in Int : dx = MovedX(l, r)
  BY MovedInt DEF MovedX
<1>2. PICK dy \in Int : dy = MovedY(t, b)
  BY MovedInt DEF MovedY
<1>3. Translate(a, l, t, r, b) = [a EXCEPT !.x = a.x + dx, !.y = a.y + dy]
  BY <1>1, <1>2 DEF Translate
<1>4. PICK nx \in Int, ny \in Int : nx = a.x + dx /\ ny = a.y + dy
  BY DEF Area
<1>5. PICK m : m = Translate(a, l, t, r, b)
  OBVIOUS
<1>6. m = At(a, nx, ny)
  BY <1>3, <1>4, <1>5 DEF At
<1> QED
  BY <1>5, <1>6, MovedArea

\* a rounded quotient that is smaller than k is at most k
LEMMA RoundedDown ==
    ASSUME NEW n \in Nat, NEW k \in Nat, NEW p \in Nat \ {0}, NEW q \in Nat \ {0}, n * p < q * k
    PROVE  (2 * n * p + q) \div (2 * q) \in 0..k
<1>1. PICK a \in Nat : a = n * p
  OBVIOUS
<1>2. PICK c \in Nat : c = 2 * a + q
  OBVIOUS
<1>3. PICK e \in Nat \ {0} : e = 2 * q
  OBVIOUS
<1>4. c = 2 * n * p + q
  BY <1>1, <1>2
<1>5. c < e * (k + 1)
  <2>1. e * (k + 1) = 2 * (q * k) + 2 * q
    BY <1>3
  <2>2. q * k \in Nat /\ a < q * k
    BY <1>1
  <2> QED
    BY <1>2, <2>1, <2>2
<1>6. PICK x \in Nat, y \in Nat : x = c \div e /\ c = e * x + y
  <2>1. c \div e \in Nat /\ c % e \in Nat /\ c = e * (c \div e) + (c % e)
    BY <1>2, <1>3
  <2> QED
    BY <2>1
<1>7. e * x < e * (k + 1)
  BY <1>2, <1>5, <1>6
<1>8. x < k + 1
  BY <1>7
<1> QED
  BY <1>3, <1>4, <1>6, <1>8

\* what the aspect ratio makes of a size is not larger
LEMMA AspectArea ==
    ASSUME hints \in SizeHints, hints.minAspect = <<>> <=> hints.maxAspect = <<>>, NEW a \in Area
    PROVE  Aspect(a) \in Area /\ Aspect(a).width <= a.width /\ Aspect(a).height <= a.height
<1>1. hints.baseW \in Nat /\ hints.baseH \in Nat /\ hints.minAspect \in Aspects /\ hints.maxAspect \in Aspects
  BY DEF SizeHints
<1>2. PICK w \in Nat, h \in Nat : w = hints.baseW /\ h = hints.baseH
  BY <1>1
<1>3. PICK mn \in Aspects, mx \in Aspects : mn = hints.minAspect /\ mx = hints.maxAspect
  BY <1>1
<1>4. a.width \in Int /\ a.height \in Int
  BY DEF Area
<1>5. CASE Aspect(a) = a
  BY <1>4, <1>5
<1>6. CASE Aspect(a) # a
  <2>1. PICK dx \in Int, dy \in Int : dx = a.width - w /\ dy = a.height - h
    BY <1>4
  <2>2. mn # <<>> /\ dx \in Nat /\ dy \in Nat
    <3>1. mn # <<>> /\ ~(dx <= 0) /\ ~(dy <= 0)
      BY <1>2, <1>3, <1>6, <2>1 DEF Aspect
    <3> QED
      BY <2>1, <3>1
  <2>3. PICK mn1 \in Nat \ {0}, mn2 \in Nat \ {0}, mx1 \in Nat \ {0}, mx2 \in Nat \ {0} :
            mn[1] = mn1 /\ mn[2] = mn2 /\ mx[1] = mx1 /\ mx[2] = mx2
    <3>1. mn \in (Nat \ {0}) \X (Nat \ {0}) /\ mx \in (Nat \ {0}) \X (Nat \ {0})
      BY <1>3, <2>2 DEF Aspects
    <3> QED
      BY <3>1
  <2>4. PICK k \in Int, l \in Int : k = (2 * dx * mn2 + mn1) \div (2 * mn1) /\ l = (2 * dy * mx1 + mx2) \div (2 * mx2)
    <3>1. \A n \in Int : \A e \in Nat \ {0} : n \div e \in Int
      OBVIOUS
    <3>2. 2 * dx * mn2 + mn1 \in Int /\ 2 * dy * mx1 + mx2 \in Int /\ 2 * mn1 \in Nat \ {0} /\ 2 * mx2 \in Nat \ {0}
      OBVIOUS
    <3> QED
      BY <3>1, <3>2
  <2>5. PICK nh \in Int, nw \in Int : nh = k + h /\ nw = l + w
    OBVIOUS
  <2>6. \/ Aspect(a) = [a EXCEPT !.height = nh] /\ dx * mn2 < mn1 * dy
        \/ Aspect(a) = [a EXCEPT !.width = nw] /\ dx * mx2 > mx1 * dy
    BY <1>2, <1>3, <1>6, <2>1, <2>3, <2>4, <2>5 DEF Aspect
  <2>7. /\ dx * mn2 < mn1 * dy => nh <= a.height
        /\ dx * mx2 > mx1 * dy => nw <= a.width
    <3>1. ASSUME dx * mn2 < mn1 * dy PROVE k \in 0..dy
      BY <2>2, <2>4, <3>1, RoundedDown
    <3>2. ASSUME dx * mx2 > mx1 * dy PROVE l \in 0..dx
      <4>1. dy * mx1 < mx2 * dx
        BY <3>2
      <4> QED
        BY <2>2, <2>4, <4>1, RoundedDown
    <3>3. (k \in 0..dy => nh <= a.height) /\ (l \in 0..dx => nw <= a.width)
      BY <1>4, <2>1, <2>2, <2>5
    <3> QED
      BY <3>1, <3>2, <3>3
  <2>8. CASE Aspect(a) = [a EXCEPT !.height = nh] /\ nh <= a.height
    <3>1. PICK r : r = [a EXCEPT !.height = nh]
      OBVIOUS
    <3>2. r \in Area /\ r.height = nh /\ r.width = a.width
      BY <3>1 DEF Area
    <3> QED
      BY <1>4, <2>8, <3>1, <3>2
  <2>9. CASE Aspect(a) = [a EXCEPT !.width = nw] /\ nw <= a.width
    <3>1. PICK r : r = [a EXCEPT !.width = nw]
      OBVIOUS
    <3>2. r \in Area /\ r.width = nw /\ r.height = a.height
      BY <3>1 DEF Area
    <3> QED
      BY <1>4, <2>9, <3>1, <3>2
  <2> QED
    BY <2>6, <2>7, <2>8, <2>9
<1> QED
  BY <1>5, <1>6

\* the hints that are used are hints that are given
LEMMA HintPairs ==
    ASSUME hints \in SizeHints
    PROVE  /\ BaseSize \in Nat \X Nat /\ MinSize \in Nat \X Nat /\ Increments \in Nat \X Nat
           /\ hints.maxW \in Nat /\ hints.maxH \in Nat
           /\ \A m \in Nat : hints.minW <= m /\ hints.minH <= m /\ hints.baseW <= m /\ hints.baseH <= m
                             => MinSize[1] <= m /\ MinSize[2] <= m
<1>1. /\ hints.minW \in Nat /\ hints.minH \in Nat /\ hints.baseW \in Nat /\ hints.baseH \in Nat
      /\ hints.incW \in Nat /\ hints.incH \in Nat /\ hints.maxW \in Nat /\ hints.maxH \in Nat
  BY DEF SizeHints
<1> QED
  BY <1>1 DEF BaseSize, MinSize, Increments

\* a size that went through the hints of one axis
LEMMA StepDownRight ==
    ASSUME NEW r \in Int, NEW base \in Nat, NEW mn \in Nat, NEW mx \in Nat, NEW inc \in Nat,
           NEW s, s = AtMost(AtLeast(r, mn), mx)
    PROVE  /\ s \in Nat /\ s <= AtLeast(r, mn)
           /\ StepDown(s, base, inc) \in 0..s /\ SizeOk(StepDown(s, base, inc), base, mn, mx, inc)
<1>1. PICK big \in Nat : big = AtLeast(r, mn) /\ big >= mn
  BY DEF AtLeast
<1>2. PICK low \in Nat : low = AtMost(mn, mx)
  BY DEF AtMost
<1>3. s \in Nat /\ s <= big /\ low <= s /\ (mx # 0 => s <= mx)
  BY <1>1, <1>2 DEF AtMost
<1>4. CASE inc = 0
  BY <1>1, <1>2, <1>3, <1>4 DEF StepDown, SizeOk
<1>5. CASE inc # 0
  <2>1. PICK above \in Nat : above = Beyond(s, base) /\ above <= s /\ (base <= s => above = s - base) /\ (base > s => above = 0)
    BY <1>3 DEF Beyond
  <2>2. PICK k \in Nat : k = above % inc /\ k < inc /\ k <= above
    <3>1. above % inc \in Nat /\ above % inc < inc /\ above % inc <= above
      BY <1>5
    <3> QED
      BY <3>1
  <2>3. PICK n \in 0..s : n = s - k
    BY <1>3, <2>1, <2>2
  <2>4. StepDown(s, base, inc) = n
    BY <1>5, <2>1, <2>2, <2>3 DEF StepDown
  <2>5. mx # 0 => n <= mx
    BY <1>3, <2>3
  <2>6. n > low - inc
    BY <1>3, <2>2, <2>3
  <2>7. ASSUME n >= base PROVE (n - base) % inc = 0
    <3>1. base <= s
      BY <1>3, <2>3, <2>7
    <3>2. n - base = above - (above % inc)
      BY <1>3, <2>1, <2>2, <2>3, <3>1
    <3>3. (above - (above % inc)) % inc = 0
      BY <1>5
    <3> QED
      BY <3>2, <3>3
  <2> QED
    BY <1>1, <1>2, <1>3, <1>5, <2>3, <2>4, <2>5, <2>6, <2>7 DEF SizeOk
<1> QED
  BY <1>4, <1>5

SizesOk(w, h) == /\ SizeOk(w, BaseSize[1], MinSize[1], hints.maxW, Increments[1])
                 /\ SizeOk(h, BaseSize[2], MinSize[2], hints.maxH, Increments[2])

\* a geometry that went through the hints
LEMMA HintedSizes ==
    ASSUME BarsOK, hints \in SizeHints, hints.minAspect = <<>> <=> hints.maxAspect = <<>>, NEW a \in Area, ~fullscreen,
           NEW c, c = ApplySizeHints(a)
    PROVE  /\ c \in Area /\ SizesOk(c.width - SumWidth, c.height - SumHeight)
           /\ \A m \in Nat : /\ a.width - SumWidth <= m /\ a.height - SumHeight <= m
                             /\ MinSize[1] <= m /\ MinSize[2] <= m
                             => c.width - SumWidth <= m /\ c.height - SumHeight <= m
<1>1. PICK inner \in Area : inner = Inner(a) /\ inner.width = a.width - SumWidth /\ inner.height = a.height - SumHeight
  BY InnerArea
<1>2. PICK ratio \in Area : ratio = Aspect(inner) /\ ratio.width <= inner.width /\ ratio.height <= inner.height
  BY AspectArea
<1>3. PICK w \in Nat, h \in Nat, bw \in Nat, bh \in Nat, iw \in Nat, ih \in Nat, mw \in Nat, mh \in Nat :
          /\ w = MinSize[1] /\ h = MinSize[2] /\ bw = BaseSize[1] /\ bh = BaseSize[2]
          /\ iw = Increments[1] /\ ih = Increments[2] /\ mw = hints.maxW /\ mh = hints.maxH
  BY HintPairs
<1>4. ratio.width \in Int /\ ratio.height \in Int /\ inner.width \in Int /\ inner.height \in Int
  BY DEF Area
<1>5. PICK n \in Nat, o \in Nat : n = AtLeast(ratio.width, w) /\ o = AtLeast(ratio.height, h)
  BY <1>4 DEF AtLeast
<1>6. PICK big \in Area : big = [ratio EXCEPT !.width = AtLeast(@, w), !.height = AtLeast(@, h)]
                          /\ big.width = n /\ big.height = o
  <2>1. PICK s : s = Sized(ratio, n, o)
    OBVIOUS
  <2>2. s \in Area /\ s.width = n /\ s.height = o
    BY <2>1, SizedArea
  <2> QED
    BY <1>5, <2>1, <2>2 DEF Sized
<1>7. PICK p \in Nat, q \in Nat : p = AtMost(n, mw) /\ q = AtMost(o, mh) /\ p <= n /\ q <= o
  BY DEF AtMost
<1>8. PICK small \in Area : small = [big EXCEPT !.width = AtMost(@, mw), !.height = AtMost(@, mh)]
                            /\ small.width = p /\ small.height = q
  <2>1. PICK s : s = Sized(big, p, q)
    OBVIOUS
  <2>2. s \in Area /\ s.width = p /\ s.height = q
    BY <2>1, SizedArea
  <2> QED
    BY <1>6, <1>7, <2>1, <2>2 DEF Sized
<1>9. PICK u \in Nat, v \in Nat : /\ u = StepDown(p, bw, iw) /\ v = StepDown(q, bh, ih) /\ u <= p /\ v <= q
                                  /\ SizeOk(u, bw, w, mw, iw) /\ SizeOk(v, bh, h, mh, ih)
  <2>1. PICK x \in Int, y \in Int : p = AtMost(AtLeast(x, w), mw) /\ q = AtMost(AtLeast(y, h), mh)
    BY <1>4, <1>5, <1>7
  <2>2. StepDown(p, bw, iw) \in 0..p /\ SizeOk(StepDown(p, bw, iw), bw, w, mw, iw)
    BY <2>1, StepDownRight
  <2>3. StepDown(q, bh, ih) \in 0..q /\ SizeOk(StepDown(q, bh, ih), bh, h, mh, ih)
    BY <2>1, StepDownRight
  <2> QED
    BY <2>2, <2>3
<1>10. PICK stepped \in Area : stepped = Stepped(small) /\ stepped.width = u /\ stepped.height = v
  <2>1. PICK s : s = Sized(small, u, v)
    OBVIOUS
  <2>2. s \in Area /\ s.width = u /\ s.height = v
    BY <2>1, SizedArea
  <2>3. Stepped(small) = s
    BY <1>3, <1>8, <1>9, <2>1 DEF Stepped, Sized
  <2> QED
    BY <2>2, <2>3
<1>11. c = Outer(stepped)
  BY <1>1, <1>2, <1>3, <1>6, <1>8, <1>10 DEF ApplySizeHints
<1>12. c \in Area /\ c.width = u + SumWidth /\ c.height = v + SumHeight /\ SumWidth \in Nat /\ SumHeight \in Nat
  BY <1>10, <1>11, InnerArea, SumsNat
<1>13. c.width - SumWidth = u /\ c.height - SumHeight = v
  BY <1>12
<1>14. SizesOk(u, v)
  BY <1>3, <1>9 DEF SizesOk
<1>15. ASSUME NEW m \in Nat, inner.width <= m, inner.height <= m, w <= m, h <= m PROVE u <= m /\ v <= m
  <2>1. n <= m /\ o <= m
    BY <1>2, <1>4, <1>5, <1>15 DEF AtLeast
  <2> QED
    BY <1>7, <1>9, <2>1
<1> QED
  BY <1>1, <1>3, <1>12, <1>13, <1>14, <1>15

LEMMA HintedArea ==
    ASSUME BarsOK, hints \in SizeHints, hints.minAspect = <<>> <=> hints.maxAspect = <<>>, NEW a \in Area
    PROVE  ApplySizeHints(a) \in Area
<1>1. CASE fullscreen
  BY <1>1 DEF ApplySizeHints
<1>2. CASE ~fullscreen
  BY <1>2, HintedSizes
<1> QED
  BY <1>1, <1>2

Geo == geo \in Area /\ BarsOK /\ border \in Nat /\ hints \in SizeHints
       /\ (hints.minAspect = <<>> <=> hints.maxAspect = <<>>)

LEMMA TypesGeo == ASSUME GeometryTypeOK PROVE Geo
<1>1. hints \in Hints /\ geo \in Area /\ bars \in [AllBars -> Nat] /\ border \in Nat
  BY DEF GeometryTypeOK
<1>2. hints \in SizeHints /\ (hints.minAspect = <<>> <=> hints.maxAspect = <<>>)
  <2>1. Hints \subseteq SizeHints
    BY ClientGeometryAssumption
  <2>2. \A h \in Hints : h.minAspect = <<>> <=> h.maxAspect = <<>>
    BY ClientGeometryAssumption
  <2> QED
    BY <1>1, <2>1, <2>2
<1> QED
  BY <1>1, <1>2 DEF Geo, BarsOK

LEMMA PutArea ==
    ASSUME NEW a \in Area, NEW r, NEW x, NEW y, "x" \in DOMAIN r => x \in Int, "y" \in DOMAIN r => y \in Int
    PROVE  PutAt(a, r, x, y) \in Area /\ PutAt(a, r, x, y).width = a.width /\ PutAt(a, r, x, y).height = a.height
<1>1. PICK ax \in Int, ay \in Int : /\ ax = (IF "x" \in DOMAIN r THEN x ELSE a.x)
                                    /\ ay = (IF "y" \in DOMAIN r THEN y ELSE a.y)
  <2>1. a.x \in Int /\ a.y \in Int
    BY DEF Area
  <2>2. (IF "x" \in DOMAIN r THEN x ELSE a.x) \in Int /\ (IF "y" \in DOMAIN r THEN y ELSE a.y) \in Int
    BY <2>1
  <2> QED
    BY <2>2
<1>2. PutAt(a, r, x, y) = At(a, ax, ay)
  BY <1>1 DEF PutAt, At
<1> QED
  BY <1>2, MovedArea

LEMMA AskedArea ==
    ASSUME Geo, NEW r \in Requests
    PROVE  /\ Asked(r) \in Area
           /\ Asked(r).width = (IF "width" \in DOMAIN r THEN r.width + SumWidth ELSE geo.width)
           /\ Asked(r).height = (IF "height" \in DOMAIN r THEN r.height + SumHeight ELSE geo.height)
<1>1. /\ "x" \in DOMAIN r => r.x \in Int
      /\ "y" \in DOMAIN r => r.y \in Int
      /\ "width" \in DOMAIN r => r.width \in Nat
      /\ "height" \in DOMAIN r => r.height \in Nat
  <2>1. \A f \in DOMAIN r : r[f] \in (IF f \in {"x", "y"} THEN Int ELSE Card16)
    BY ClientGeometryAssumption
  <2>2. Card16 \subseteq Nat
    BY DEF Card16
  <2> QED
    BY <2>1, <2>2
<1>2. geo \in Area /\ BarsOK /\ SumWidth \in Nat /\ SumHeight \in Nat
  BY SumsNat DEF Geo
<1>3. PICK l \in Nat, t \in Nat, e \in Nat, b \in Nat :
          l = border + bars["left"] /\ t = border + bars["top"] /\ e = border + bars["right"] /\ b = border + bars["bottom"]
  <2>1. bars["left"] \in Nat /\ bars["top"] \in Nat /\ bars["right"] \in Nat /\ bars["bottom"] \in Nat /\ border \in Nat
    BY SumsNat DEF AllBars, Geo
  <2> QED
    BY SMTT(30), <2>1
<1>4. PICK w \in Int, h \in Int :
          /\ w = (IF "width" \in DOMAIN r THEN r.width + SumWidth ELSE geo.width)
          /\ h = (IF "height" \in DOMAIN r THEN r.height + SumHeight ELSE geo.height)
  <2>1. geo.width \in Int /\ geo.height \in Int
    BY <1>2 DEF Area
  <2>2. /\ (IF "width" \in DOMAIN r THEN r.width + SumWidth ELSE geo.width) \in Int
        /\ (IF "height" \in DOMAIN r THEN r.height + SumHeight ELSE geo.height) \in Int
    BY <1>1, <1>2, <2>1
  <2> QED
    BY <2>2
<1>5. PICK sized \in Area : sized = AskedSize(r) /\ sized.width = w /\ sized.height = h
  <2>1. AskedSize(r) = Sized(geo, w, h)
    BY <1>4 DEF AskedSize, Sized
  <2> QED
    BY <1>2, <2>1, SizedArea
<1>6. PICK held \in Area : held = Anchored(sized) /\ held.width = w /\ held.height = h
  <2>1. PICK dw \in Int, dh \in Int : dw = sized.width - geo.width /\ dh = sized.height - geo.height
    BY <1>2 DEF Area
  <2>2. PICK moved \in Area : moved = Translate(sized, 0, 0, dw, dh) /\ moved.width = w /\ moved.height = h
    BY <1>5, TranslateArea
  <2> QED
    BY <1>5, <2>1, <2>2 DEF Anchored
<1>7. PICK moved \in Area : moved = PutAt(held, r, r.x, r.y) /\ moved.width = w /\ moved.height = h
  BY <1>1, <1>6, PutArea
<1>8. PICK outer \in Area : outer = Translate(moved, l, t, e, b)
  BY TranslateArea
<1>9. PICK put \in Area : put = PutAt(moved, r, outer.x, outer.y) /\ put.width = w /\ put.height = h
  <2>1. outer.x \in Int /\ outer.y \in Int
    BY DEF Area
  <2> QED
    BY <1>7, <2>1, PutArea
<1>10. Asked(r) = moved \/ Asked(r) = put
  BY <1>3, <1>5, <1>6, <1>7, <1>8, <1>9 DEF Asked
<1> QED
  BY <1>4, <1>7, <1>9, <1>10

LEMMA WithBarArea ==
    ASSUME Geo, NEW bar \in AllBars, NEW size \in Nat
    PROVE  /\ WithBar(bar, size) \in Area
           /\ WithBar(bar, size).width = IF bar \in {"top", "bottom"} THEN geo.width ELSE (geo.width + (size - bars[bar])) % 65536
           /\ WithBar(bar, size).height = IF bar \in {"top", "bottom"} THEN (geo.height + (size - bars[bar])) % 65536 ELSE geo.height
<1>1. geo \in Area /\ bars[bar] \in Nat
  BY SumsNat DEF Geo
<1>2. PICK d \in Int : d = size - bars[bar]
  BY <1>1
<1>3. PICK w \in Int, h \in Int : w = (geo.width + d) % 65536 /\ h = (geo.height + d) % 65536
  <2>1. PICK m \in Int, n \in Int : m = geo.width + d /\ n = geo.height + d
    BY <1>1 DEF Area
  <2>2. m % 65536 \in Int /\ n % 65536 \in Int
    OBVIOUS
  <2> QED
    BY <2>1, <2>2
<1>4. PICK nw \in Int, nh \in Int : /\ nw = (IF bar \in {"top", "bottom"} THEN geo.width ELSE w)
                                    /\ nh = (IF bar \in {"top", "bottom"} THEN h ELSE geo.height)
  BY <1>1 DEF Area
<1>5. PICK grown \in Area : /\ grown = (IF bar \in {"top", "bottom"} THEN [geo EXCEPT !.height = h] ELSE [geo EXCEPT !.width = w])
                            /\ grown.width = nw /\ grown.height = nh
  <2>1. PICK tall : tall = [geo EXCEPT !.height = h]
    OBVIOUS
  <2>2. PICK wide : wide = [geo EXCEPT !.width = w]
    OBVIOUS
  <2>3. tall \in Area /\ tall.height = h /\ tall.width = geo.width /\ wide \in Area /\ wide.width = w /\ wide.height = geo.height
    BY <1>1, <2>1, <2>2 DEF Area
  <2> QED
    BY <1>4, <2>1, <2>2, <2>3
<1>6. PICK l \in Int, t \in Int, e \in Int, b \in Int :
          /\ l = (IF "left" = bar THEN d ELSE 0) /\ t = (IF "top" = bar THEN d ELSE 0)
          /\ e = (IF "right" = bar THEN d ELSE 0) /\ b = (IF "bottom" = bar THEN d ELSE 0)
  OBVIOUS
<1>7. PICK moved \in Area : moved = Translate(grown, l, t, e, b) /\ moved.width = nw /\ moved.height = nh
  <2>1. PICK x : x = Translate(grown, l, t, e, b)
    OBVIOUS
  <2>2. x \in Area /\ x.width = grown.width /\ x.height = grown.height
    BY <2>1, TranslateArea
  <2> QED
    BY <1>5, <2>1, <2>2
<1>8. WithBar(bar, size) = grown \/ WithBar(bar, size) = moved
  BY <1>2, <1>3, <1>5, <1>6, <1>7 DEF WithBar
<1>9. WithBar(bar, size) \in Area /\ WithBar(bar, size).width = nw /\ WithBar(bar, size).height = nh
  BY <1>5, <1>7, <1>8
<1> QED
  BY <1>2, <1>3, <1>4, <1>9

-----------------------------------------------------------------------------
(* Calls. *)

Pushed(below) == /\ frames' \in Seq(Frame) /\ Len(frames') = Len(below) + 1 /\ Placing'

LEMMA ResizeDoStep ==
    ASSUME NEW a \in Area, NEW below \in Seq(Frame), ResizeDo(a, below)
    PROVE  geo' = a /\ Pushed(below)
<1>1. PICK f \in Frame : f = [kind |-> "resize", to |-> a]
  BY DEF Frame
<1>2. PICK n : n = frames'
  OBVIOUS
<1>3. n = Append(below, f) /\ geo' = a
  BY <1>1, <1>2 DEF ResizeDo
<1>4. n \in Seq(Frame) /\ Len(n) = Len(below) + 1 /\ Len(n) \in DOMAIN n /\ n[Len(n)] = f
  BY <1>3
<1>5. Placing'
  BY <1>1, <1>2, <1>4 DEF Placing
<1> QED
  BY <1>2, <1>3, <1>4, <1>5 DEF Pushed

LEMMA ResizeStep ==
    ASSUME Geo, NEW a \in Area, NEW below \in Seq(Frame), Resize(a, below), honor \in BOOLEAN, fullscreen \in BOOLEAN,
           honoured \in BOOLEAN
    PROVE  /\ geo' \in Area /\ honoured' \in BOOLEAN
           /\ (geo' = geo /\ frames' = below) \/ Pushed(below)
<1>1. PICK b \in Area : b = (IF honor /\ ~Refused(a) THEN ApplySizeHints(a) ELSE a)
  BY HintedArea DEF Geo
<1>2. CASE Refused(a) \/ Refused(b) \/ b = geo
  BY <1>1, <1>2 DEF Resize, Geo
<1>3. CASE ~(Refused(a) \/ Refused(b) \/ b = geo)
  <2>1. ResizeDo(b, below) /\ honoured' = (honor /\ ~fullscreen)
    BY <1>1, <1>3 DEF Resize
  <2> QED
    BY <2>1, ResizeDoStep
<1> QED
  BY <1>2, <1>3

\* the call that ends is the last one
LEMMA TopFrame ==
    ASSUME frames \in Seq(Frame), InHandler
    PROVE  /\ Top \in Frame /\ Front(frames) \in Seq(Frame) /\ Len(frames) \in Nat /\ Len(Front(frames)) = Len(frames) - 1
           /\ Placing => Top.kind # "configure" \/ \E i \in DOMAIN Front(frames) : Front(frames)[i].kind \in {"resize", "fullscreen"}
<1>0. PICK q \in Seq(Frame) : q = frames /\ q # <<>>
  BY DEF InHandler
<1>1. PICK r : r = SubSeq(q, 1, Len(q) - 1)
  OBVIOUS
<1>2. r \in Seq(Frame) /\ DOMAIN r = 1..(Len(q) - 1) /\ Len(r) = Len(q) - 1
      /\ Len(q) \in DOMAIN q /\ q[Len(q)] \in Frame
      /\ (\A i \in DOMAIN r : i \in DOMAIN q /\ i # Len(q) /\ r[i] = q[i])
      /\ (\A i \in DOMAIN q : i = Len(q) \/ i \in DOMAIN r)
  <2>1. PICK F : F = Frame
    OBVIOUS
  <2>2. q \in Seq(F) /\ q # <<>>
    BY <1>0, <2>1
  <2>3. r \in Seq(F) /\ DOMAIN r = 1..(Len(q) - 1) /\ Len(r) = Len(q) - 1
    <3>1. r \in Seq(F) /\ DOMAIN r = 1..(Len(q) - 1)
      BY <1>1, <2>2, PopCall
    <3>2. PICK n \in Nat : n = Len(q) - 1 /\ DOMAIN r = 1..n
      BY <2>2, <3>1
    <3>3. Len(r) \in Nat /\ 1..Len(r) = 1..n
      BY <3>1, <3>2
    <3>4. Len(r) = n
      BY <3>3
    <3> QED
      BY <3>1, <3>2, <3>4
  <2>4. Len(q) \in DOMAIN q /\ q[Len(q)] \in F
    BY <2>2
  <2>5. \A i \in DOMAIN r : i \in DOMAIN q /\ i # Len(q) /\ r[i] = q[i]
    BY <1>1, <2>2, PopCall
  <2>6. \A i \in DOMAIN q : i = Len(q) \/ i \in DOMAIN r
    BY <1>1, <2>2, PopCall
  <2> QED
    BY <2>1, <2>3, <2>4, <2>5, <2>6
<1>3. Front(frames) = r /\ Top = q[Len(q)] /\ Len(q) \in Nat
  BY <1>0, <1>1 DEF Front, Top, Last
<1> QED
  BY <1>0, <1>2, <1>3 DEF Placing

\* every titlebar keeps its drawable or gets one
LEMMA NoAreaIsNone == NoArea \notin Area
<1>1. DOMAIN NoArea = {}
  BY DEF NoArea
<1>2. \A a \in Area : DOMAIN a = {"x", "y", "width", "height"}
  BY DEF Area
<1> QED
  BY <1>1, <1>2

\* a step that X does not see: a call will place the titlebars, or they are
\* where they were
LEMMA RecordStep ==
    ASSUME GeoInv, GeometryTypeOK', UNCHANGED xVars, Drawables',
           Placing' \/ (UNCHANGED <<geo, bars, fullscreen, overtaken>> /\ (Placing => Placing')
                        /\ \A b \in AllBars : bars[b] # 0 => drawn'[b] = drawn[b])
    PROVE  GeoInv'
<1>1. Knows'
  BY DEF GeoInv, Knows, xVars, XTakes
<1>2. Placing' \/ Placed'
  <2>1. CASE Placing'
    BY <2>1
  <2>2. CASE ~Placing'
    <3>1. geo' = geo /\ bars' = bars /\ fullscreen' = fullscreen /\ overtaken' = overtaken /\ Placed
          /\ \A b \in AllBars : bars[b] # 0 => drawn'[b] = drawn[b]
      BY <2>2 DEF GeoInv
    <3>2. \A b \in AllBars : BarArea(b, geo)' = BarArea(b, geo)
      BY <3>1 DEF BarArea, SumHeight
    <3> QED
      BY <3>1, <3>2 DEF Placed
  <2> QED
    BY <2>1, <2>2
<1> QED
  BY <1>1, <1>2 DEF GeoInv

LEMMA SameDrawables == ASSUME GeoInv, UNCHANGED <<drawn, bars>> PROVE Drawables'
BY DEF GeoInv, Drawables

\* what a call that starts is allowed
LEMMA ChangeRoom ==
    ASSUME GeoInv, Change
    PROVE  changes' \in 0..MaxChanges /\ Len(frames) \in Nat /\ Len(frames) + 1 <= MaxFrames /\ MaxFrames \in Nat /\ MaxFrames >= 2
<1>1. changes \in 0..MaxChanges /\ changes < MaxChanges /\ changes' = changes + 1 /\ Len(frames) < MaxFrames
      /\ frames \in Seq(Frame)
  BY DEF GeoInv, GeometryTypeOK, Change
<1>2. MaxFrames \in Nat \ {0, 1} /\ MaxChanges \in Nat
  BY ClientGeometryAssumption
<1>3. Len(frames) \in Nat
  BY <1>1
<1> QED
  BY <1>1, <1>2, <1>3

LEMMA GeometryStep ==
    ASSUME GeoInv, NEW a \in Areas, Geometry(a) PROVE GeoInv'
<1>1. /\ Change /\ bars' = bars /\ drawn' = drawn /\ border' = border /\ fullscreen' = fullscreen /\ honor' = honor
      /\ hints' = hints /\ gotRequest' = gotRequest /\ overtaken' = overtaken /\ UNCHANGED xVars
  BY DEF Geometry
<1>2. Geo /\ frames \in Seq(Frame) /\ honor \in BOOLEAN /\ fullscreen \in BOOLEAN /\ honoured \in BOOLEAN
  BY TypesGeo DEF GeoInv, GeometryTypeOK
<1>3. PICK b \in Area : Resize(b, frames)
  <2>1. a \in Area /\ geo \in Area
    BY <1>2, ConstantsOK DEF Geo
  <2>2. PICK w \in Int, h \in Int : w = geo.width /\ h = geo.height
    BY <2>1 DEF Area
  <2>3. Sized(a, w, h) \in Area
    BY <2>1, SizedArea
  <2>4. Resize(a, frames) \/ Resize(Sized(a, w, h), frames)
    BY <2>2 DEF Geometry, Sized
  <2> QED
    BY <2>1, <2>3, <2>4
<1>4. /\ geo' \in Area /\ honoured' \in BOOLEAN
      /\ (geo' = geo /\ frames' = frames) \/ Pushed(frames)
  BY <1>2, <1>3, ResizeStep
<1>5. frames' \in Seq(Frame) /\ Len(frames') <= MaxFrames /\ changes' \in 0..MaxChanges
  BY <1>1, <1>2, <1>4, ChangeRoom DEF Pushed
<1>6. GeometryTypeOK'
  BY <1>1, <1>4, <1>5 DEF GeoInv, GeometryTypeOK, xVars
<1>7. Placing' \/ (geo' = geo /\ (Placing => Placing'))
  BY <1>4 DEF Pushed, Placing
<1> QED
  BY <1>1, <1>6, <1>7, RecordStep, SameDrawables

LEMMA TitlebarStep ==
    ASSUME GeoInv, NEW bar \in Bars, NEW size \in BarSizes, Titlebar(bar, size) PROVE GeoInv'
<1> DEFINE none == [x |-> 0, y |-> 0, width |-> 0, height |-> 0]
<1>1. /\ Change /\ border' = border /\ fullscreen' = fullscreen /\ honor' = honor
      /\ hints' = hints /\ gotRequest' = gotRequest /\ overtaken' = overtaken /\ UNCHANGED xVars
      /\ drawn' = [drawn EXCEPT ![bar] = IF @ = NoArea THEN none ELSE @]
  BY DEF Titlebar
<1>2. Geo /\ frames \in Seq(Frame) /\ honoured \in BOOLEAN /\ DOMAIN drawn = AllBars /\ Drawables /\ bars \in [AllBars -> Nat]
  BY TypesGeo DEF GeoInv, GeometryTypeOK
<1>3. bar \in AllBars /\ size \in Nat /\ none \in Area
  <2>1. none \in Area
    BY DEF Area
  <2> QED
    BY <2>1, ConstantsOK
<1> HIDE DEF none
<1>4. /\ DOMAIN drawn' = AllBars /\ \A b \in AllBars \ {bar} : drawn'[b] = drawn[b]
      /\ drawn'[bar] = IF drawn[bar] = NoArea THEN none ELSE drawn[bar]
  BY <1>1, <1>2, <1>3
<1>5. drawn'[bar] \in Area
  BY <1>2, <1>3, <1>4 DEF Drawables
<1>6. CASE size = bars[bar]
  <2>1. geo' = geo /\ bars' = bars /\ frames' = frames /\ honoured' = honoured
    BY <1>6 DEF Titlebar
  <2>2. changes' \in 0..MaxChanges
    BY <1>1, ChangeRoom
  <2>3. GeometryTypeOK'
    BY <1>1, <1>4, <2>1, <2>2 DEF GeoInv, GeometryTypeOK, xVars
  <2>4. Drawables'
    BY <1>2, <1>4, <1>5, <2>1 DEF Drawables
  <2>5. \A b \in AllBars : bars[b] # 0 => drawn'[b] = drawn[b]
    BY <1>2, <1>4, NoAreaIsNone DEF Drawables
  <2>6. Placing => Placing'
    BY <2>1 DEF Placing
  <2> QED
    BY <1>1, <2>1, <2>3, <2>4, <2>5, <2>6, RecordStep
<1>7. CASE size # bars[bar]
  <2>1. bars' = [bars EXCEPT ![bar] = size] /\ ResizeDo(WithBar(bar, size), frames) /\ honoured' = FALSE
    BY <1>7 DEF Titlebar
  <2>2. geo' \in Area /\ Pushed(frames)
    BY <1>2, <1>3, <2>1, WithBarArea, ResizeDoStep
  <2>3. frames' \in Seq(Frame) /\ Len(frames') <= MaxFrames /\ changes' \in 0..MaxChanges
    BY <1>1, <1>2, <2>2, ChangeRoom DEF Pushed
  <2>4. bars' \in [AllBars -> Nat] /\ \A b \in AllBars \ {bar} : bars'[b] = bars[b]
    BY <1>2, <1>3, <2>1
  <2>5. GeometryTypeOK'
    BY <1>1, <1>4, <2>1, <2>2, <2>3, <2>4 DEF GeoInv, GeometryTypeOK, xVars
  <2>6. Drawables'
    BY <1>2, <1>4, <1>5, <2>4 DEF Drawables
  <2> QED
    BY <1>1, <2>2, <2>5, <2>6, RecordStep DEF Pushed
<1> QED
  BY <1>6, <1>7

\* window_set_border_width inside a call
LEMMA BorderStep ==
    ASSUME Geo, NEW w \in Nat, NEW below \in Seq(Frame), Bordered(w, below)
    PROVE  border' = w /\ ((geo' = geo /\ frames' = below) \/ (geo' \in Area /\ Pushed(below)))
<1>1. PICK d \in Int : d = w - border
  BY DEF Geo
<1>2. Translate(geo, d, d, d, d) \in Area
  BY TranslateArea DEF Geo
<1>3. (geo' = geo /\ frames' = below) \/ ResizeDo(Translate(geo, d, d, d, d), below)
  BY <1>1 DEF Bordered
<1> QED
  BY <1>2, <1>3, ResizeDoStep DEF Bordered

LEMMA SetBorderStep ==
    ASSUME GeoInv, NEW w \in Borders, SetBorder(w) PROVE GeoInv'
<1>1. /\ Change /\ bars' = bars /\ drawn' = drawn /\ fullscreen' = fullscreen /\ honor' = honor /\ honoured' = honoured
      /\ hints' = hints /\ gotRequest' = gotRequest /\ overtaken' = overtaken /\ UNCHANGED xVars
      /\ Bordered(w, frames)
  BY DEF SetBorder
<1>2. Geo /\ frames \in Seq(Frame) /\ w \in Nat
  BY TypesGeo, ConstantsOK DEF GeoInv, GeometryTypeOK
<1>3. border' = w /\ ((geo' = geo /\ frames' = frames) \/ (geo' \in Area /\ Pushed(frames)))
  BY <1>1, <1>2, BorderStep
<1>4. frames' \in Seq(Frame) /\ Len(frames') <= MaxFrames /\ changes' \in 0..MaxChanges
  BY <1>1, <1>2, <1>3, ChangeRoom DEF Pushed
<1>5. GeometryTypeOK'
  BY <1>1, <1>2, <1>3, <1>4 DEF GeoInv, GeometryTypeOK, xVars
<1>6. Placing' \/ (geo' = geo /\ (Placing => Placing'))
  BY <1>3 DEF Pushed, Placing
<1> QED
  BY <1>1, <1>5, <1>6, RecordStep, SameDrawables

LEMMA ConfigureStep ==
    ASSUME GeoInv, NEW r \in Requests, ConfigureRequest(r) PROVE GeoInv'
<1>1. /\ Change /\ bars' = bars /\ drawn' = drawn /\ fullscreen' = fullscreen /\ honor' = honor /\ honoured' = honoured
      /\ hints' = hints /\ gotRequest' = gotRequest /\ overtaken' = overtaken /\ UNCHANGED xVars /\ ~InHandler
  BY DEF ConfigureRequest
<1>2. Geo /\ frames = <<>> /\ MaxFrames \in Nat /\ MaxFrames >= 2
  BY <1>1, TypesGeo, ChangeRoom DEF GeoInv, InHandler
<1>3. PICK w \in Nat : w = (IF "border" \in DOMAIN r THEN r.border ELSE border)
  <2>1. "border" \in DOMAIN r => r.border \in Card16
    BY ClientGeometryAssumption
  <2>2. Card16 \subseteq Nat
    BY DEF Card16
  <2> QED
    BY <1>2, <2>1, <2>2 DEF Geo
<1>4. PICK f \in Frame : f = [kind |-> "configure", asked |-> r]
  <2>1. [kind |-> "configure", asked |-> r] \in [kind : {"configure"}, asked : Requests]
    OBVIOUS
  <2> QED
    BY <2>1 DEF Frame
<1>5. PICK g \in Seq(Frame) : g = <<f>> /\ Len(g) = 1
  <2>1. PICK F : F = Frame
    OBVIOUS
  <2>2. f \in F
    BY <2>1
  <2>3. <<f>> \in Seq(F) /\ Len(<<f>>) = 1
    BY <2>2
  <2> QED
    BY <2>1, <2>3
<1>6. Bordered(w, g)
  BY <1>3, <1>4, <1>5 DEF ConfigureRequest
<1>7. border' = w /\ ((geo' = geo /\ frames' = g) \/ (geo' \in Area /\ Pushed(g)))
  BY <1>2, <1>6, BorderStep
<1>8. frames' \in Seq(Frame) /\ Len(frames') <= MaxFrames /\ changes' \in 0..MaxChanges
  <2>1. changes' \in 0..MaxChanges
    BY <1>1, ChangeRoom
  <2>2. CASE frames' = g
    <3>1. frames' \in Seq(Frame) /\ Len(frames') = 1
      BY <1>5, <2>2
    <3> QED
      BY <1>2, <2>1, <3>1
  <2>3. CASE Pushed(g)
    <3>1. frames' \in Seq(Frame) /\ Len(frames') = 2
      BY <1>5, <2>3 DEF Pushed
    <3> QED
      BY <1>2, <2>1, <3>1
  <2> QED
    BY <1>7, <2>2, <2>3
<1>9. GeometryTypeOK'
  BY <1>1, <1>7, <1>8 DEF GeoInv, GeometryTypeOK, xVars
<1>10. ~Placing
  BY <1>1 DEF InHandler, Placing
<1>11. Placing' \/ (geo' = geo /\ (Placing => Placing'))
  BY <1>7, <1>10 DEF Pushed
<1> QED
  BY <1>1, <1>9, <1>11, RecordStep, SameDrawables

LEMMA PassStep ==
    ASSUME GeoInv, NEW grant \in BOOLEAN, PassRequest(grant) PROVE GeoInv'
<1>1. /\ bars' = bars /\ drawn' = drawn /\ border' = border /\ fullscreen' = fullscreen /\ honor' = honor
      /\ hints' = hints /\ gotRequest' = TRUE /\ overtaken' = overtaken /\ UNCHANGED xVars /\ changes' = changes
      /\ InHandler /\ Top.kind = "configure"
  BY DEF PassRequest
<1>2. Geo /\ frames \in Seq(Frame) /\ honor \in BOOLEAN /\ fullscreen \in BOOLEAN /\ honoured \in BOOLEAN /\ Len(frames) <= MaxFrames
      /\ MaxFrames \in Nat
  BY TypesGeo, ClientGeometryAssumption DEF GeoInv, GeometryTypeOK
<1>3. PICK q \in Seq(Frame) : q = Front(frames) /\ Len(q) = Len(frames) - 1 /\ Len(frames) \in Nat
  BY <1>1, <1>2, TopFrame
<1>4. Placing => \E i \in DOMAIN q : q[i].kind \in {"resize", "fullscreen"}
  BY <1>1, <1>2, <1>3, TopFrame
<1>5. Top.asked \in Requests
  <2>1. Top \in Frame
    BY <1>1, <1>2, TopFrame
  <2> QED
    BY <1>1, <2>1 DEF Frame
<1>6. /\ geo' \in Area /\ honoured' \in BOOLEAN
      /\ (geo' = geo /\ frames' = q) \/ Pushed(q)
  <2>1. CASE grant
    <3>1. PICK a \in Area : a = Asked(Top.asked)
      BY <1>2, <1>5, AskedArea
    <3>2. Resize(a, q)
      BY <1>3, <2>1, <3>1 DEF PassRequest
    <3> QED
      BY <1>2, <3>2, ResizeStep
  <2>2. CASE ~grant
    BY <1>2, <1>3, <2>2 DEF PassRequest, Geo
  <2> QED
    BY <2>1, <2>2
<1>7. frames' \in Seq(Frame) /\ Len(frames') <= MaxFrames
  BY <1>2, <1>3, <1>6 DEF Pushed
<1>8. GeometryTypeOK'
  BY <1>1, <1>6, <1>7 DEF GeoInv, GeometryTypeOK, xVars
<1>9. Placing' \/ (geo' = geo /\ (Placing => Placing'))
  BY <1>4, <1>6 DEF Pushed, Placing
<1> QED
  BY <1>1, <1>8, <1>9, RecordStep, SameDrawables

LEMMA FullscreenStep ==
    ASSUME GeoInv, NEW b \in BOOLEAN, SetFullscreen(b) PROVE GeoInv'
<1>1. /\ Change /\ geo' = geo /\ bars' = bars /\ drawn' = drawn /\ border' = border /\ honor' = honor
      /\ hints' = hints /\ gotRequest' = gotRequest /\ overtaken' = overtaken /\ UNCHANGED xVars
      /\ fullscreen' = b /\ honoured' = FALSE
  BY DEF SetFullscreen
<1>2. PICK f \in Frame : f = [kind |-> "fullscreen"]
  <2>1. [kind |-> "fullscreen"] \in [kind : {"fullscreen"}]
    OBVIOUS
  <2> QED
    BY <2>1 DEF Frame
<1>0. PICK F : F = Frame
  OBVIOUS
<1>3. PICK q \in Seq(F) : q = frames
  BY <1>0 DEF GeoInv, GeometryTypeOK
<1>4. PICK n : n = frames'
  OBVIOUS
<1>5. n = Append(q, f) /\ f \in F
  BY <1>0, <1>2, <1>3, <1>4 DEF SetFullscreen
<1>6. n \in Seq(F) /\ Len(n) = Len(q) + 1 /\ Len(n) \in DOMAIN n /\ n[Len(n)] = f
  BY <1>5
<1>7. frames' \in Seq(Frame) /\ Len(frames') <= MaxFrames /\ changes' \in 0..MaxChanges
  BY <1>0, <1>1, <1>3, <1>4, <1>6, ChangeRoom
<1>8. Placing'
  BY <1>2, <1>4, <1>6 DEF Placing
<1>9. GeometryTypeOK'
  BY <1>1, <1>7 DEF GeoInv, GeometryTypeOK, xVars
<1> QED
  BY <1>1, <1>8, <1>9, RecordStep, SameDrawables

LEMMA SettingStep ==
    ASSUME GeoInv, (\E b \in BOOLEAN : SetHonor(b)) \/ (\E h \in Hints : NewHints(h)) PROVE GeoInv'
<1>1. /\ Change /\ geo' = geo /\ bars' = bars /\ drawn' = drawn /\ border' = border /\ fullscreen' = fullscreen
      /\ frames' = frames /\ gotRequest' = gotRequest /\ overtaken' = overtaken /\ UNCHANGED xVars
      /\ honor' \in BOOLEAN /\ hints' \in Hints /\ honoured' = FALSE
  BY DEF SetHonor, NewHints, GeoInv, GeometryTypeOK
<1>2. changes' \in 0..MaxChanges
  BY <1>1, ChangeRoom
<1>3. GeometryTypeOK'
  BY <1>1, <1>2 DEF GeoInv, GeometryTypeOK, xVars
<1>4. Placing => Placing'
  BY <1>1 DEF Placing
<1> QED
  BY <1>1, <1>3, <1>4, RecordStep, SameDrawables

\* the areas of the titlebars
LEMMA BarAreas ==
    ASSUME Geo, NEW b \in AllBars
    PROVE  BarArea(b, geo) \in Area
<1>1. /\ geo \in Area /\ bars["left"] \in Nat /\ bars["top"] \in Nat /\ bars["right"] \in Nat /\ bars["bottom"] \in Nat
      /\ SumHeight \in Nat
  BY SumsNat DEF Geo, AllBars
<1>2. geo.x \in Int /\ geo.y \in Int /\ geo.width \in Int /\ geo.height \in Int
  BY <1>1 DEF Area
<1>3. CASE b = "top"
  BY <1>1, <1>2, <1>3 DEF BarArea, Area
<1>4. CASE b = "bottom"
  BY <1>1, <1>2, <1>4 DEF BarArea, Area
<1>5. CASE b = "left"
  BY <1>1, <1>2, <1>5 DEF BarArea, Area
<1>6. CASE b = "right"
  BY <1>1, <1>2, <1>6 DEF BarArea, Area
<1> QED
  BY <1>3, <1>4, <1>5, <1>6 DEF AllBars

\* a call that ends places the titlebars for the geometry the client has now
LEMMA FinishResizeStep ==
    ASSUME GeoInv, FinishResize PROVE GeoInv'
<1>1. /\ geo' = geo /\ bars' = bars /\ border' = border /\ fullscreen' = fullscreen /\ honor' = honor
      /\ hints' = hints /\ gotRequest' = gotRequest /\ UNCHANGED xVars /\ changes' = changes /\ honoured' = honoured
      /\ InHandler /\ Top.kind = "resize" /\ frames' = Front(frames)
      /\ drawn' = [b \in AllBars |-> BarPlaced(b, Top.to)] /\ overtaken' = (Top.to.x # geo.x \/ Top.to.y # geo.y)
  BY DEF FinishResize
<1>2. Geo /\ frames \in Seq(Frame) /\ fullscreen \in BOOLEAN /\ Len(frames) <= MaxFrames /\ MaxFrames \in Nat
  BY TypesGeo, ConstantsOK DEF GeoInv, GeometryTypeOK
<1>3. frames' \in Seq(Frame) /\ Len(frames') = Len(frames) - 1 /\ Len(frames) \in Nat /\ Top \in Frame
  BY <1>1, <1>2, TopFrame
<1>4. PICK to \in Area : to = Top.to
  BY <1>1, <1>3 DEF Frame
<1>5. ASSUME NEW b \in AllBars, ~(drawn[b] = NoArea /\ bars[b] = 0)
      PROVE  /\ drawn'[b] \in Area
             /\ drawn'[b].width = IF fullscreen THEN 0 ELSE BarArea(b, geo).width
             /\ drawn'[b].height = IF fullscreen THEN 0 ELSE BarArea(b, geo).height
             /\ drawn'[b].x = BarArea(b, geo).x + to.x /\ drawn'[b].y = BarArea(b, geo).y + to.y
  <2>1. PICK a \in Area : a = BarArea(b, geo)
    BY <1>2, BarAreas
  <2>2. drawn'[b] = [x |-> a.x + to.x, y |-> a.y + to.y,
                     width |-> IF fullscreen THEN 0 ELSE a.width, height |-> IF fullscreen THEN 0 ELSE a.height]
    BY <1>1, <1>4, <1>5, <2>1 DEF BarPlaced
  <2> QED
    BY <2>1, <2>2 DEF Area
<1>6. \A b \in AllBars : drawn[b] = NoArea /\ bars[b] = 0 => drawn'[b] = NoArea
  BY <1>1 DEF BarPlaced
<1>7. Drawables'
  BY <1>1, <1>5, <1>6 DEF Drawables
<1>8. Placed'
  <2> SUFFICES ASSUME NEW b \in AllBars, bars'[b] # 0
               PROVE  /\ drawn'[b].width = IF fullscreen' THEN 0 ELSE BarArea(b, geo)'.width
                      /\ drawn'[b].height = IF fullscreen' THEN 0 ELSE BarArea(b, geo)'.height
                      /\ ~overtaken' => drawn'[b].x = geo'.x + BarArea(b, geo)'.x /\ drawn'[b].y = geo'.y + BarArea(b, geo)'.y
    BY DEF Placed
  <2>1. BarArea(b, geo)' = BarArea(b, geo)
    BY <1>1 DEF BarArea, SumHeight
  <2>2. PICK a \in Area : a = BarArea(b, geo)
    BY <1>2, BarAreas
  <2>3. /\ drawn'[b].width = IF fullscreen THEN 0 ELSE a.width
        /\ drawn'[b].height = IF fullscreen THEN 0 ELSE a.height
        /\ drawn'[b].x = a.x + to.x /\ drawn'[b].y = a.y + to.y
    BY <1>1, <1>5, <2>2
  <2>4. ~overtaken' => to.x = geo.x /\ to.y = geo.y
    BY <1>1, <1>4
  <2>5. a.x \in Int /\ a.y \in Int /\ to.x \in Int /\ to.y \in Int
    BY DEF Area
  <2> QED
    BY <1>1, <2>1, <2>2, <2>3, <2>4, <2>5
<1>9. GeometryTypeOK'
  <2>1. overtaken' \in BOOLEAN /\ DOMAIN drawn' = AllBars
    BY <1>1
  <2>2. Len(frames') <= MaxFrames
    BY <1>2, <1>3
  <2> QED
    BY <1>1, <1>3, <2>1, <2>2 DEF GeoInv, GeometryTypeOK, xVars
<1>10. Knows'
  BY <1>1 DEF GeoInv, Knows, xVars, XTakes
<1> QED
  BY <1>7, <1>8, <1>9, <1>10 DEF GeoInv

LEMMA FinishFullscreenStep ==
    ASSUME GeoInv, FinishFullscreen PROVE GeoInv'
<1>1. /\ bars' = bars /\ drawn' = drawn /\ border' = border /\ fullscreen' = fullscreen /\ honor' = honor
      /\ hints' = hints /\ gotRequest' = gotRequest /\ UNCHANGED xVars /\ changes' = changes /\ honoured' = honoured
      /\ overtaken' = overtaken /\ InHandler /\ ResizeDo(geo, Front(frames))
  BY DEF FinishFullscreen
<1>2. Geo /\ frames \in Seq(Frame) /\ Len(frames) <= MaxFrames /\ MaxFrames \in Nat
  BY TypesGeo, ConstantsOK DEF GeoInv, GeometryTypeOK
<1>3. PICK q \in Seq(Frame) : q = Front(frames) /\ Len(q) = Len(frames) - 1 /\ Len(frames) \in Nat
  BY <1>1, <1>2, TopFrame
<1>4. geo' = geo /\ Pushed(q)
  BY <1>1, <1>2, <1>3, ResizeDoStep DEF Geo
<1>5. frames' \in Seq(Frame) /\ Len(frames') <= MaxFrames
  BY <1>2, <1>3, <1>4 DEF Pushed
<1>6. GeometryTypeOK'
  BY <1>1, <1>4, <1>5 DEF GeoInv, GeometryTypeOK, xVars
<1> QED
  BY <1>1, <1>4, <1>6, RecordStep, SameDrawables DEF Pushed

\* what X and the client are told is one geometry
LEMMA RealArea ==
    ASSUME Geo
    PROVE  /\ Real \in Area
           /\ Telling.area = [x |-> geo.x + Real.x, y |-> geo.y + Real.y, width |-> Real.width, height |-> Real.height]
<1>1. /\ geo \in Area /\ bars["left"] \in Nat /\ bars["top"] \in Nat /\ SumWidth \in Nat /\ SumHeight \in Nat
  BY SumsNat DEF Geo, AllBars
<1>2. geo.x \in Int /\ geo.y \in Int /\ geo.width \in Int /\ geo.height \in Int
      /\ geo = [x |-> geo.x, y |-> geo.y, width |-> geo.width, height |-> geo.height]
  BY <1>1 DEF Area
<1>3. CASE fullscreen
  <2>1. Real = [x |-> 0, y |-> 0, width |-> geo.width, height |-> geo.height] /\ Telling.area = geo
    BY <1>3 DEF Real, Telling
  <2> QED
    BY <1>2, <2>1 DEF Area
<1>4. CASE ~fullscreen
  <2>1. PICK i \in Area : i = Inner(geo)
    BY <1>1, InnerArea DEF Geo
  <2>2. i = [x |-> geo.x + bars["left"], y |-> geo.y + bars["top"],
             width |-> geo.width - SumWidth, height |-> geo.height - SumHeight]
    BY <2>1 DEF Inner
  <2>3. PICK l \in Int, t \in Int : l = bars["left"] /\ t = bars["top"]
    BY <1>1
  <2>4. PICK r \in Area : r = At(i, l, t) /\ r.x = l /\ r.y = t /\ r.width = i.width /\ r.height = i.height
    BY MovedArea
  <2>5. Real = r
    BY <1>4, <2>1, <2>3, <2>4 DEF Real, At
  <2>6. Telling.area = i
    BY <1>4, <2>1 DEF Telling
  <2> QED
    BY <2>2, <2>3, <2>4, <2>5, <2>6
<1> QED
  BY <1>3, <1>4

LEMMA RefreshStep ==
    ASSUME GeoInv, Refresh PROVE GeoInv'
<1>1. /\ geo' = geo /\ bars' = bars /\ drawn' = drawn /\ border' = border /\ fullscreen' = fullscreen /\ honor' = honor
      /\ hints' = hints /\ gotRequest' = FALSE /\ changes' = changes /\ honoured' = honoured
      /\ overtaken' = overtaken /\ frames' = frames /\ told' = Telling
  BY DEF Refresh
<1>2. Geo
  BY TypesGeo DEF GeoInv
<1>3. PICK real \in Area : real = Real
  BY <1>2, RealArea
<1>4. xframe' = geo /\ xclient' = real /\ xwindow' \in Area /\ (XTakes(real) => xwindow' = real)
  <2>1. CASE Settled
    BY <1>3, <2>1 DEF Refresh, Settled, GeoInv, GeometryTypeOK, Knows
  <2>2. CASE ~Settled
    BY <1>3, <2>2 DEF Refresh, GeoInv, GeometryTypeOK
  <2> QED
    BY <2>1, <2>2
<1>5. Knows'
  <2>1. told'.area = [x |-> geo.x + real.x, y |-> geo.y + real.y, width |-> real.width, height |-> real.height]
    BY <1>1, <1>2, <1>3, RealArea
  <2> QED
    BY <1>4, <2>1 DEF Knows, XTakes
<1>6. GeometryTypeOK'
  BY <1>1, <1>2, <1>4 DEF GeoInv, GeometryTypeOK, Geo
<1>7. Drawables'
  BY <1>1, SameDrawables
<1>8. Placing' \/ Placed'
  <2>1. \A b \in AllBars : BarArea(b, geo)' = BarArea(b, geo)
    BY <1>1 DEF BarArea, SumHeight
  <2> QED
    BY <1>1, <2>1 DEF GeoInv, Placing, Placed
<1> QED
  BY <1>5, <1>6, <1>7, <1>8 DEF GeoInv

-----------------------------------------------------------------------------

LEMMA GeoInit == ASSUME GeometryInit PROVE GeoInv
<1>1. /\ geo = FirstArea /\ bars = [b \in AllBars |-> 0] /\ drawn = [b \in AllBars |-> NoArea]
      /\ border = 0 /\ fullscreen = FALSE /\ honor = TRUE /\ hints \in Hints
      /\ gotRequest = FALSE /\ frames = <<>> /\ overtaken = FALSE /\ honoured = FALSE /\ changes = 0
      /\ xframe = FirstArea /\ xclient = Real /\ xwindow = Real /\ told = Telling
  BY DEF GeometryInit
<1>2. <<>> \in Seq(Frame) /\ Len(<<>>) = 0 /\ 0 <= MaxFrames /\ 0 \in 0..MaxChanges /\ FirstArea \in Area
  BY ConstantsOK
<1>3. bars \in [AllBars -> Nat] /\ DOMAIN drawn = AllBars
  BY <1>1
<1>4. hints \in SizeHints /\ (hints.minAspect = <<>> <=> hints.maxAspect = <<>>)
  <2>1. Hints \subseteq SizeHints
    BY ClientGeometryAssumption
  <2>2. \A h \in Hints : h.minAspect = <<>> <=> h.maxAspect = <<>>
    BY ClientGeometryAssumption
  <2> QED
    BY <1>1, <2>1, <2>2
<1>5. Geo
  BY <1>1, <1>2, <1>3, <1>4 DEF Geo, BarsOK
<1>6. PICK real \in Area : real = Real /\ Telling.area = [x |-> geo.x + real.x, y |-> geo.y + real.y, width |-> real.width, height |-> real.height]
  BY <1>5, RealArea
<1>7. GeometryTypeOK
  BY <1>1, <1>2, <1>3, <1>6 DEF GeometryTypeOK
<1>8. Knows
  BY <1>1, <1>6 DEF Knows
<1>9. Placed /\ Drawables
  BY <1>1 DEF Placed, Drawables
<1> QED
  BY <1>7, <1>8, <1>9 DEF GeoInv

LEMMA GeoNext == ASSUME GeoInv, [GeometryNext]_geometryVars PROVE GeoInv'
<1>1. CASE GeometryNext
  <2>1. ASSUME NEW a \in Areas, Geometry(a) PROVE GeoInv'
    BY <2>1, GeometryStep
  <2>2. ASSUME NEW b \in Bars, NEW n \in BarSizes, Titlebar(b, n) PROVE GeoInv'
    BY <2>2, TitlebarStep
  <2>3. ASSUME NEW w \in Borders, SetBorder(w) PROVE GeoInv'
    BY <2>3, SetBorderStep
  <2>4. ASSUME NEW b \in BOOLEAN, SetFullscreen(b) \/ SetHonor(b) \/ PassRequest(b) PROVE GeoInv'
    BY <2>4, FullscreenStep, SettingStep, PassStep
  <2>5. ASSUME NEW h \in Hints, NewHints(h) PROVE GeoInv'
    BY <2>5, SettingStep
  <2>6. ASSUME NEW r \in Requests, ConfigureRequest(r) PROVE GeoInv'
    BY <2>6, ConfigureStep
  <2>7. CASE FinishResize \/ FinishFullscreen \/ Refresh
    BY <2>7, FinishResizeStep, FinishFullscreenStep, RefreshStep
  <2> QED
    BY <1>1, <2>1, <2>2, <2>3, <2>4, <2>5, <2>6, <2>7 DEF GeometryNext
<1>2. CASE UNCHANGED geometryVars
  <2>1. /\ geo' = geo /\ bars' = bars /\ drawn' = drawn /\ border' = border /\ fullscreen' = fullscreen /\ honor' = honor
        /\ hints' = hints /\ gotRequest' = gotRequest /\ changes' = changes /\ honoured' = honoured
        /\ overtaken' = overtaken /\ frames' = frames /\ UNCHANGED xVars
    BY <1>2 DEF geometryVars, xVars
  <2>2. GeometryTypeOK'
    BY <2>1 DEF GeoInv, GeometryTypeOK, xVars
  <2>3. Placing => Placing'
    BY <2>1 DEF Placing
  <2> QED
    BY <2>1, <2>2, <2>3, RecordStep, SameDrawables
<1> QED
  BY <1>1, <1>2

LEMMA GeoKnown == ASSUME GeoInv PROVE ClientKnowsWhere /\ TitlebarsInPlace
<1>1. Geo /\ Knows
  BY TypesGeo DEF GeoInv
<1>2. ClientKnowsWhere
  <2> SUFFICES ASSUME Settled PROVE (XTakes(Real) => xwindow = Real) /\ told.area = Telling.area
    BY DEF ClientKnowsWhere
  <2>1. geo = xframe /\ Real = xclient
    BY DEF Settled
  <2> QED
    BY <1>1, <2>1, RealArea DEF Knows
<1>3. ASSUME ~InHandler PROVE Placed
  BY <1>3 DEF GeoInv, Placing, InHandler
<1>4. TitlebarsInPlace
  BY <1>3 DEF TitlebarsInPlace, Placed
<1> QED
  BY <1>2, <1>4

\* When there is nothing to refresh, X has the window where the record says and
\* the last ConfigureNotify told the client so.
THEOREM GeometryKnown == GeometrySpec => []ClientKnowsWhere
<1>1. GeometryInit => GeoInv
  BY GeoInit
<1>2. GeoInv /\ [GeometryNext]_geometryVars => GeoInv'
  BY GeoNext
<1>3. GeoInv => ClientKnowsWhere
  BY GeoKnown
<1> QED
  BY <1>1, <1>2, <1>3, PTL DEF GeometrySpec

\* When no handler runs, every titlebar has the size it should have, and its
\* place unless a handler moved the client meanwhile.
THEOREM TitlebarsPlaced == GeometrySpec => []TitlebarsInPlace
<1>1. GeometryInit => GeoInv
  BY GeoInit
<1>2. GeoInv /\ [GeometryNext]_geometryVars => GeoInv'
  BY GeoNext
<1>3. GeoInv => TitlebarsInPlace
  BY GeoKnown
<1> QED
  BY <1>1, <1>2, <1>3, PTL DEF GeometrySpec

-----------------------------------------------------------------------------
(* Sizes: nothing gets negative, and the hints hold. *)

\* what Lua and the clients ask for is at most m, a titlebar at most t, and a
\* client of that size with two titlebars on an axis fits into 16 bits
Room(m, t) ==
    /\ m + 2 * t <= 65535
    /\ \A n \in BarSizes : n <= t
    /\ \A a \in Areas \cup {FirstArea} : a.width <= m /\ a.height <= m
    /\ \A q \in Requests : ("width" \in DOMAIN q => q.width <= m) /\ ("height" \in DOMAIN q => q.height <= m)
    /\ \A h \in Hints : h.minW <= m /\ h.minH <= m /\ h.baseW <= m /\ h.baseH <= m

SizesFit == \E m, t \in Nat : Room(m, t)

Inside(m) == /\ geo.width - SumWidth \in 0..m /\ geo.height - SumHeight \in 0..m
Fit(m, t) == Inside(m) /\ \A b \in AllBars : bars[b] <= t

SizeInv(m, t) == GeoInv /\ Fit(m, t) /\ HintsRespected

LEMMA HintsOnSizes ==
    ASSUME Geo
    PROVE  HintsRespected <=> (honoured => SizesOk(geo.width - SumWidth, geo.height - SumHeight))
BY InnerArea DEF Geo, HintsRespected, SizesOk

\* the sizes and the hints stay: so does what holds of them
LEMMA SizesStay ==
    ASSUME NEW m, NEW t, SizeInv(m, t), GeoInv', geo'.width = geo.width, geo'.height = geo.height, bars' = bars,
           honoured' => honoured, hints' = hints \/ ~honoured'
    PROVE  SizeInv(m, t)'
<1>1. SumWidth' = SumWidth /\ SumHeight' = SumHeight
  BY DEF SumWidth, SumHeight
<1>2. Fit(m, t)'
  <2>1. Inside(m)'
    BY <1>1 DEF SizeInv, Fit, Inside
  <2>2. \A b \in AllBars : bars'[b] <= t
    BY DEF SizeInv, Fit
  <2> QED
    BY <2>1, <2>2 DEF Fit
<1>3. Geo /\ Geo'
  <2>1. GeometryTypeOK /\ GeometryTypeOK'
    BY DEF SizeInv, GeoInv
  <2>2. GeometryTypeOK => Geo
    BY TypesGeo
  <2> QED
    BY <2>1, <2>2, TypesGeo, PTL
<1>4. HintsRespected'
  <2>1. CASE ~honoured'
    BY <2>1 DEF HintsRespected
  <2>2. CASE honoured'
    <3>1. SizesOk(geo.width - SumWidth, geo.height - SumHeight)
      BY <1>3, <2>2, HintsOnSizes DEF SizeInv
    <3>2. BaseSize' = BaseSize /\ MinSize' = MinSize /\ Increments' = Increments /\ hints' = hints
      BY <2>2 DEF BaseSize, MinSize, Increments
    <3>3. SizesOk(geo.width - SumWidth, geo.height - SumHeight)'
      BY <1>1, <3>1, <3>2 DEF SizesOk
    <3>4. HintsRespected' <=> (honoured' => SizesOk(geo.width - SumWidth, geo.height - SumHeight)')
      BY <1>3, HintsOnSizes, PTL
    <3> QED
      BY <3>3, <3>4
  <2> QED
    BY <2>1, <2>2
<1> QED
  BY <1>2, <1>4 DEF SizeInv

\* client_resize
LEMMA ResizeSizes ==
    ASSUME NEW m \in Nat, NEW t \in Nat, Room(m, t), SizeInv(m, t), GeoInv', NEW a \in Area, NEW below, Resize(a, below),
           bars' = bars, hints' = hints, a.width - SumWidth <= m, a.height - SumHeight <= m
    PROVE  SizeInv(m, t)'
<1>1. Geo /\ hints \in Hints /\ honor \in BOOLEAN /\ fullscreen \in BOOLEAN
  BY TypesGeo DEF SizeInv, GeoInv, GeometryTypeOK
<1>2. geo \in Area /\ BarsOK /\ SumWidth \in Nat /\ SumHeight \in Nat
  BY <1>1, SumsNat DEF Geo
<1>3. PICK b \in Area : b = (IF honor /\ ~Refused(a) THEN ApplySizeHints(a) ELSE a)
  BY <1>1, HintedArea DEF Geo
<1>4. CASE Refused(a) \/ Refused(b) \/ b = geo
  <2>1. geo' = geo /\ honoured' = honoured
    BY <1>3, <1>4 DEF Resize
  <2> QED
    BY <2>1, SizesStay
<1>5. CASE ~(Refused(a) \/ Refused(b) \/ b = geo)
  <2>1. geo' = b /\ honoured' = (honor /\ ~fullscreen) /\ b.width >= SumWidth /\ b.height >= SumHeight
    <3>1. ResizeDo(b, below) /\ honoured' = (honor /\ ~fullscreen)
      BY <1>3, <1>5 DEF Resize
    <3>2. ~(b.width < SumWidth) /\ ~(b.height < SumHeight) /\ b.width \in Int /\ b.height \in Int
      BY <1>5 DEF Refused, TooSmall, Area
    <3> QED
      BY <1>2, <3>1, <3>2 DEF ResizeDo
  <2>2. MinSize[1] <= m /\ MinSize[2] <= m
    BY <1>1, HintPairs DEF Geo, Room
  <2>3. /\ honoured' => SizesOk(b.width - SumWidth, b.height - SumHeight)
        /\ b.width - SumWidth <= m /\ b.height - SumHeight <= m
    <3>1. CASE honor /\ ~fullscreen
      <4>1. b = ApplySizeHints(a)
        BY <1>3, <1>5, <3>1
      <4>2. SizesOk(b.width - SumWidth, b.height - SumHeight)
        BY <1>1, <3>1, <4>1, HintedSizes DEF Geo
      <4>3. \A n \in Nat : /\ a.width - SumWidth <= n /\ a.height - SumHeight <= n
                           /\ MinSize[1] <= n /\ MinSize[2] <= n
                           => b.width - SumWidth <= n /\ b.height - SumHeight <= n
        BY <1>1, <3>1, <4>1, HintedSizes DEF Geo
      <4> QED
        BY <2>2, <4>2, <4>3
    <3>2. CASE ~(honor /\ ~fullscreen)
      <4>1. b = a
        BY <1>3, <3>2 DEF ApplySizeHints
      <4> QED
        BY <2>1, <3>2, <4>1
    <3> QED
      BY <3>1, <3>2
  <2>4. SumWidth' = SumWidth /\ SumHeight' = SumHeight /\ BaseSize' = BaseSize /\ MinSize' = MinSize
        /\ Increments' = Increments
    BY DEF SumWidth, SumHeight, BaseSize, MinSize, Increments
  <2>5. Inside(m)'
    <3>1. PICK x \in Int, y \in Int : x = b.width - SumWidth /\ y = b.height - SumHeight
      BY <1>2 DEF Area
    <3>2. x >= 0 /\ y >= 0
      <4>1. b.width \in Int /\ b.height \in Int
        BY DEF Area
      <4> QED
        BY <1>2, <2>1, <3>1, <4>1
    <3>3. x \in 0..m /\ y \in 0..m
      BY <2>3, <3>1, <3>2
    <3> QED
      BY <2>1, <2>4, <3>1, <3>3 DEF Inside
  <2>6. Fit(m, t)'
    BY <2>5 DEF SizeInv, Fit
  <2>7. HintsRespected'
    <3>1. GeometryTypeOK' /\ (GeometryTypeOK => Geo)
      BY TypesGeo DEF GeoInv
    <3>2. HintsRespected' <=> (honoured' => SizesOk(geo.width - SumWidth, geo.height - SumHeight)')
      BY <3>1, TypesGeo, HintsOnSizes, PTL
    <3>3. SizesOk(geo.width - SumWidth, geo.height - SumHeight)' <=> SizesOk(b.width - SumWidth, b.height - SumHeight)
      BY <2>1, <2>4 DEF SizesOk
    <3> QED
      BY <2>3, <3>2, <3>3
  <2> QED
    BY <2>6, <2>7 DEF SizeInv
<1> QED
  BY <1>4, <1>5

\* a titlebar is added around the client, whose own size stays
LEMMA TitlebarSizes ==
    ASSUME NEW m \in Nat, NEW t \in Nat, Room(m, t), SizeInv(m, t), GeoInv', NEW bar \in Bars, NEW size \in BarSizes,
           Titlebar(bar, size)
    PROVE  SizeInv(m, t)'
<1>1. Geo /\ geo \in Area /\ BarsOK /\ SumWidth \in Nat /\ SumHeight \in Nat /\ bar \in AllBars /\ size \in 0..t
  <2>1. Geo
    BY TypesGeo DEF SizeInv, GeoInv
  <2>2. bar \in AllBars /\ size \in Nat /\ size <= t
    BY ConstantsOK DEF Room
  <2> QED
    BY <2>1, <2>2, SumsNat DEF Geo
<1>2. CASE size = bars[bar]
  <2>1. geo' = geo /\ bars' = bars /\ honoured' = honoured /\ hints' = hints
    BY <1>2 DEF Titlebar
  <2> QED
    BY <2>1, SizesStay
<1>3. CASE size # bars[bar]
  <2>1. bars' = [bars EXCEPT ![bar] = size] /\ geo' = WithBar(bar, size) /\ ~honoured'
    BY <1>3 DEF Titlebar, ResizeDo
  <2>2. PICK l \in 0..t, r \in 0..t, u \in 0..t, d \in 0..t :
            l = bars["left"] /\ r = bars["right"] /\ u = bars["top"] /\ d = bars["bottom"]
    BY <1>1, SumsNat DEF AllBars, SizeInv, Fit
  <2>3. PICK w \in 0..m, h \in 0..m : w = geo.width - (l + r) /\ h = geo.height - (u + d)
    BY <2>2 DEF SizeInv, Fit, Inside, SumWidth, SumHeight
  <2>4. geo.width \in Int /\ geo.height \in Int /\ geo.width = w + l + r /\ geo.height = h + u + d
    BY <1>1, <2>3 DEF Area
  <2>5. m + 2 * t <= 65535
    BY DEF Room
  <2>6. \A b \in AllBars : bars'[b] = IF b = bar THEN size ELSE bars[b]
    BY <1>1, <2>1 DEF BarsOK
  <2>7. geo'.width - SumWidth' = w /\ geo'.height - SumHeight' = h
    <3>1. SumWidth' = bars'["left"] + bars'["right"] /\ SumHeight' = bars'["top"] + bars'["bottom"]
      BY DEF SumWidth, SumHeight
    <3>2. CASE bar = "left"
      <4>1. geo'.width = (geo.width + (size - l)) % 65536 /\ geo'.height = geo.height
        BY <1>1, <2>1, <2>2, <3>2, WithBarArea
      <4>2. geo'.width = w + size + r
        BY <1>1, <2>4, <2>5, <4>1
      <4>3. SumWidth' = size + r /\ SumHeight' = u + d
        BY <2>2, <2>6, <3>1, <3>2 DEF AllBars
      <4> QED
        BY <1>1, <2>4, <4>1, <4>2, <4>3
    <3>3. CASE bar = "right"
      <4>1. geo'.width = (geo.width + (size - r)) % 65536 /\ geo'.height = geo.height
        BY <1>1, <2>1, <2>2, <3>3, WithBarArea
      <4>2. geo'.width = w + l + size
        BY <1>1, <2>4, <2>5, <4>1
      <4>3. SumWidth' = l + size /\ SumHeight' = u + d
        BY <2>2, <2>6, <3>1, <3>3 DEF AllBars
      <4> QED
        BY <1>1, <2>4, <4>1, <4>2, <4>3
    <3>4. CASE bar = "top"
      <4>1. geo'.height = (geo.height + (size - u)) % 65536 /\ geo'.width = geo.width
        BY <1>1, <2>1, <2>2, <3>4, WithBarArea
      <4>2. geo'.height = h + size + d
        BY <1>1, <2>4, <2>5, <4>1
      <4>3. SumWidth' = l + r /\ SumHeight' = size + d
        BY <2>2, <2>6, <3>1, <3>4 DEF AllBars
      <4> QED
        BY <1>1, <2>4, <4>1, <4>2, <4>3
    <3>5. CASE bar = "bottom"
      <4>1. geo'.height = (geo.height + (size - d)) % 65536 /\ geo'.width = geo.width
        BY <1>1, <2>1, <2>2, <3>5, WithBarArea
      <4>2. geo'.height = h + u + size
        BY <1>1, <2>4, <2>5, <4>1
      <4>3. SumWidth' = l + r /\ SumHeight' = u + size
        BY <2>2, <2>6, <3>1, <3>5 DEF AllBars
      <4> QED
        BY <1>1, <2>4, <4>1, <4>2, <4>3
    <3> QED
      BY <1>1, <3>2, <3>3, <3>4, <3>5 DEF AllBars
  <2>8. Inside(m)'
    BY <2>7 DEF Inside
  <2>9. \A b \in AllBars : bars'[b] <= t
    BY <1>1, <2>6 DEF SizeInv, Fit
  <2>10. HintsRespected'
    BY <2>1 DEF HintsRespected
  <2> QED
    BY <2>8, <2>9, <2>10 DEF SizeInv, Fit
<1> QED
  BY <1>2, <1>3

\* the border moves the client and keeps its size
LEMMA BorderedSizes ==
    ASSUME Geo, NEW w \in Int, NEW below, Bordered(w, below)
    PROVE  geo'.width = geo.width /\ geo'.height = geo.height
<1>1. PICK d \in Int : d = w - border
  BY DEF Geo
<1>2. PICK moved : moved = Translate(geo, d, d, d, d)
  OBVIOUS
<1>3. moved.width = geo.width /\ moved.height = geo.height
  BY <1>2, TranslateArea DEF Geo
<1>4. geo' = geo \/ geo' = moved
  BY <1>1, <1>2 DEF Bordered, ResizeDo
<1> QED
  BY <1>3, <1>4

LEMMA SizesInit ==
    ASSUME NEW m \in Nat, NEW t \in Nat, Room(m, t), GeometryInit
    PROVE  SizeInv(m, t)
<1>1. GeoInv
  BY GeoInit
<1>2. geo = FirstArea /\ bars = [b \in AllBars |-> 0] /\ ~honoured
  BY DEF GeometryInit
<1>3. \A b \in AllBars : bars[b] = 0
  BY <1>2
<1>4. SumWidth = 0 /\ SumHeight = 0
  BY <1>3 DEF SumWidth, SumHeight, AllBars
<1>5. FirstArea.width \in 0..m /\ FirstArea.height \in 0..m
  <2>1. FirstArea \in Window
    BY ClientGeometryAssumption
  <2>2. FirstArea.width \in Nat /\ FirstArea.height \in Nat
    <3>1. FirstArea.width \in Card16 /\ FirstArea.height \in Card16
      BY <2>1 DEF Window
    <3>2. Card16 \subseteq Nat
      BY DEF Card16
    <3> QED
      BY <3>1, <3>2
  <2>3. FirstArea.width <= m /\ FirstArea.height <= m
    BY DEF Room
  <2> QED
    BY <2>2, <2>3
<1> QED
  BY <1>1, <1>2, <1>3, <1>4, <1>5 DEF SizeInv, Fit, Inside, HintsRespected

LEMMA SizesNext ==
    ASSUME NEW m \in Nat, NEW t \in Nat, Room(m, t), SizeInv(m, t), [GeometryNext]_geometryVars
    PROVE  SizeInv(m, t)'
<1>1. GeoInv /\ GeoInv' /\ Geo /\ geo \in Area /\ SumWidth \in Nat /\ SumHeight \in Nat
  <2>1. GeoInv /\ Geo
    BY TypesGeo DEF SizeInv, GeoInv
  <2> QED
    BY <2>1, GeoNext, SumsNat DEF Geo
<1>2. geo.width \in Int /\ geo.height \in Int /\ geo.width - SumWidth <= m /\ geo.height - SumHeight <= m
  BY <1>1 DEF Area, SizeInv, Fit, Inside
<1>3. ASSUME NEW a \in Areas, Geometry(a) PROVE SizeInv(m, t)'
  <2>1. bars' = bars /\ hints' = hints
    BY <1>3 DEF Geometry
  <2>2. a \in Area /\ a.width <= m /\ a.height <= m
    BY ConstantsOK DEF Room
  <2>3. a.width - SumWidth <= m /\ a.height - SumHeight <= m
    BY <1>1, <2>2 DEF Area
  <2>4. PICK s : s = Sized(a, geo.width, geo.height)
    OBVIOUS
  <2>5. s \in Area /\ s.width = geo.width /\ s.height = geo.height
    BY <1>2, <2>2, <2>4, SizedArea
  <2>6. Resize(a, frames) \/ Resize(s, frames)
    BY <1>3, <2>4 DEF Geometry, Sized
  <2> QED
    BY <1>1, <1>2, <2>1, <2>2, <2>3, <2>5, <2>6, ResizeSizes
<1>4. ASSUME NEW b \in Bars, NEW n \in BarSizes, Titlebar(b, n) PROVE SizeInv(m, t)'
  BY <1>1, <1>4, TitlebarSizes
<1>5. ASSUME NEW w \in Int, NEW below, Bordered(w, below), bars' = bars, hints' = hints, honoured' = honoured
      PROVE  SizeInv(m, t)'
  BY <1>1, <1>5, BorderedSizes, SizesStay
<1>6. ASSUME NEW w \in Borders, SetBorder(w) PROVE SizeInv(m, t)'
  BY <1>5, <1>6, ConstantsOK DEF SetBorder
<1>7. ASSUME NEW r \in Requests, ConfigureRequest(r) PROVE SizeInv(m, t)'
  <2>1. PICK w \in Int : w = (IF "border" \in DOMAIN r THEN r.border ELSE border)
    <3>1. "border" \in DOMAIN r => r.border \in Card16
      BY ClientGeometryAssumption
    <3>2. Card16 \subseteq Int /\ border \in Int
      BY <1>1 DEF Card16, Geo
    <3> QED
      BY <3>1, <3>2
  <2> QED
    BY <1>5, <1>7, <2>1 DEF ConfigureRequest
<1>8. ASSUME NEW grant \in BOOLEAN, PassRequest(grant) PROVE SizeInv(m, t)'
  <2>1. bars' = bars /\ hints' = hints /\ InHandler /\ Top.kind = "configure" /\ frames \in Seq(Frame)
    BY <1>1, <1>8 DEF PassRequest, GeoInv, GeometryTypeOK
  <2>2. PICK r \in Requests : r = Top.asked
    <3>1. Top \in Frame
      BY <2>1, TopFrame
    <3> QED
      BY <2>1, <3>1 DEF Frame
  <2>3. CASE grant
    <3>1. PICK a \in Area : /\ a = Asked(r)
                            /\ a.width = (IF "width" \in DOMAIN r THEN r.width + SumWidth ELSE geo.width)
                            /\ a.height = (IF "height" \in DOMAIN r THEN r.height + SumHeight ELSE geo.height)
      BY <1>1, AskedArea
    <3>2. /\ "width" \in DOMAIN r => r.width \in 0..m
          /\ "height" \in DOMAIN r => r.height \in 0..m
      <4>1. \A f \in DOMAIN r : r[f] \in (IF f \in {"x", "y"} THEN Int ELSE Card16)
        BY ClientGeometryAssumption
      <4>2. Card16 \subseteq Nat
        BY DEF Card16
      <4>3. ("width" \in DOMAIN r => r.width <= m) /\ ("height" \in DOMAIN r => r.height <= m)
        BY DEF Room
      <4>4. ("width" \in DOMAIN r => r.width \in Nat) /\ ("height" \in DOMAIN r => r.height \in Nat)
        BY <4>1, <4>2
      <4> QED
        BY <4>3, <4>4
    <3>3. a.width - SumWidth <= m /\ a.height - SumHeight <= m
      BY <1>1, <1>2, <3>1, <3>2
    <3>4. Resize(a, Front(frames))
      BY <1>8, <2>2, <2>3, <3>1 DEF PassRequest
    <3> QED
      BY <1>1, <2>1, <3>3, <3>4, ResizeSizes
  <2>4. CASE ~grant
    <3>1. geo' = geo /\ honoured' = honoured
      BY <1>8, <2>4 DEF PassRequest
    <3> QED
      BY <1>1, <2>1, <3>1, SizesStay
  <2> QED
    BY <2>3, <2>4
<1>9. ASSUME geo' = geo, bars' = bars, (hints' = hints /\ honoured' = honoured) \/ ~honoured' PROVE SizeInv(m, t)'
  BY <1>1, <1>9, SizesStay
<1>10. ASSUME NEW b \in BOOLEAN, SetFullscreen(b) \/ SetHonor(b) PROVE SizeInv(m, t)'
  BY <1>9, <1>10 DEF SetFullscreen, SetHonor
<1>11. ASSUME NEW h \in Hints, NewHints(h) PROVE SizeInv(m, t)'
  BY <1>9, <1>11 DEF NewHints
<1>12. CASE FinishResize \/ FinishFullscreen \/ Refresh \/ UNCHANGED geometryVars
  BY <1>9, <1>12 DEF FinishResize, FinishFullscreen, ResizeDo, Refresh, geometryVars
<1> QED
  BY <1>3, <1>4, <1>6, <1>7, <1>8, <1>10, <1>11, <1>12 DEF GeometryNext

\* Whatever Lua, the clients and nested handlers do, a client is not smaller than
\* its titlebars, they are where they belong, and a size that went through the
\* hints keeps them, provided that the sizes asked for fit into 16 bits together.
THEOREM GeometrySafe == SizesFit => (GeometrySpec => []GeometryKept)
<1> SUFFICES ASSUME NEW m \in Nat, NEW t \in Nat, Room(m, t) PROVE GeometrySpec => []GeometryKept
  BY DEF SizesFit
<1>1. GeometryInit => SizeInv(m, t)
  BY SizesInit
<1>2. SizeInv(m, t) /\ [GeometryNext]_geometryVars => SizeInv(m, t)'
  BY SizesNext
<1>3. SizeInv(m, t) => GeometryKept
  <2> SUFFICES ASSUME SizeInv(m, t) PROVE GeometryKept
    OBVIOUS
  <2>1. GeometryTypeOK /\ TitlebarsInPlace /\ HintsRespected
    BY GeoKnown DEF SizeInv, GeoInv
  <2>2. geo \in Area /\ SumWidth \in Nat /\ SumHeight \in Nat
    BY <2>1, TypesGeo, SumsNat DEF Geo
  <2>3. NeverNegative
    BY <2>2 DEF SizeInv, Fit, Inside, NeverNegative, Area
  <2> QED
    BY <2>1, <2>3 DEF GeometryKept
<1> QED
  BY <1>1, <1>2, <1>3, PTL DEF GeometrySpec
=============================================================================
