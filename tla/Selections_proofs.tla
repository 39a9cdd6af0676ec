------------------------- MODULE Selections_proofs -------------------------
(***************************************************************************)
(* Proofs about Selections: the types, that Lua believes it owns the       *)
(* selection exactly while it does, that a window is watched exactly while *)
(* pieces are sent to it, and that each conversion gives the requestor     *)
(* what the owner offered (the promise of module Conversion); for any      *)
(* number of objects, requests and units, whatever events are on their way *)
(* and whoever goes away.                                                  *)
(***************************************************************************)
EXTENDS Selections, EventQueues, TLAPS

Clear(w)    == [type |-> "Clear", win |-> w]

\* the windows whose loss of the selection is reported in the queue q
Clears(q) == {w \in Offers : Clear(w) \in Elements(q)}

\* a window that has lost the selection never gets it again
ClearsStale == \A w \in Clears(events) : w \in made /\ w # xowner

IInv == TypeOK /\ OwnerRegistered /\ ClearsStale

-----------------------------------------------------------------------------
(* The queue *)

\* what the X server appends for properties is of the right type, and is no
\* SelectionClear
LEMMA PropertyEvents ==
    ASSUME NEW q \in Seq(Event), NEW r \in Requests, NEW W
    PROVE  /\ AfterWrite(q, r, W) \in Seq(Event) /\ Clears(AfterWrite(q, r, W)) = Clears(q)
           /\ AfterDelete(q, r, W) \in Seq(Event) /\ Clears(AfterDelete(q, r, W)) = Clears(q)
<1>1. AfterWrite(q, r, W) \in Seq(Event) /\ Clears(AfterWrite(q, r, W)) = Clears(q)
  <2>1. CASE r \in Own /\ WindowOf[r] \in W
    <3> DEFINE e == [type |-> "NewValue", req |-> r]
    <3>1. e \in Event /\ \A w \in Offers : e # Clear(w)
      BY <2>1 DEF Event, Clear
    <3> QED
      BY <2>1, <3>1, AppendElements DEF AfterWrite, Clears
  <2> QED
    BY <2>1 DEF AfterWrite
<1>2. AfterDelete(q, r, W) \in Seq(Event) /\ Clears(AfterDelete(q, r, W)) = Clears(q)
  <2>1. CASE prop[r] # NoProp /\ WindowOf[r] \in W
    <3> DEFINE e == [type |-> "Deleted", req |-> r]
    <3>1. e \in Event /\ \A w \in Offers : e # Clear(w)
      BY DEF Event, Clear
    <3> QED
      BY <2>1, <3>1, AppendElements DEF AfterDelete, Clears
  <2> QED
    BY <2>1 DEF AfterDelete
<1> QED
  BY <1>1, <1>2

LEMMA AnswerEvents ==
    ASSUME TypeOK, NEW q \in Seq(Event), NEW r \in Requests, NEW ok \in BOOLEAN, Answer(q, r, ok)
    PROVE  /\ events' \in Seq(Event) /\ Clears(events') = Clears(q)
           /\ told' \in [Outside -> {"none", "granted", "refused"}]
<1>1. CASE r \in Own
  <2> DEFINE e == [type |-> "Notify", req |-> r, ok |-> ok]
  <2>1. e \in Event /\ \A w \in Offers : e # Clear(w)
    BY <1>1 DEF Event, Clear
  <2>2. events' = Append(q, e) /\ told' = told
    BY <1>1 DEF Answer
  <2>3. events' \in Seq(Event) /\ Elements(events') = Elements(q) \cup {e}
    BY <2>1, <2>2, AppendElements
  <2>4. Clears(events') = Clears(q)
    BY <2>1, <2>3 DEF Clears
  <2> QED
    BY <2>2, <2>3, <2>4 DEF TypeOK
<1>2. CASE r \notin Own
  <2>1. r \in Outside
    BY <1>2 DEF Requests
  <2> QED
    BY <1>2, <2>1 DEF Answer, TypeOK
<1> QED
  BY <1>1, <1>2

\* the head of the queue is of a type, and the rest reports the same losses
LEMMA RestEvents ==
    ASSUME TypeOK, NEW t, HeadIs(t)
    PROVE  /\ Rest \in Seq(Event)
           /\ Head(events) \in Event
           /\ t # "Clear" => Clears(Rest) = Clears(events)
           /\ t = "Clear" => /\ Head(events).win \in Offers
                             /\ Head(events) = Clear(Head(events).win)
                             /\ Clears(events) = Clears(Rest) \cup {Head(events).win}
           /\ t \in {"Request", "Deleted"} => Head(events).req \in Requests
           /\ t \in {"NewValue", "Notify"} => Head(events).req \in Own
<1>1. events \in Seq(Event) /\ events # <<>> /\ Head(events).type = t
  BY DEF TypeOK, HeadIs
<1>2. /\ Head(events) \in Event /\ Rest \in Seq(Event)
      /\ Elements(events) = Elements(Rest) \cup {Head(events)}
  BY <1>1, TailElements DEF Rest
<1>3. ASSUME t # "Clear" PROVE \A w \in Offers : Head(events) # Clear(w)
  BY <1>1, <1>3 DEF Clear
<1>4. ASSUME t = "Clear" PROVE Head(events).win \in Offers /\ Head(events) = Clear(Head(events).win)
  BY <1>1, <1>2, <1>4 DEF Event, Clear
<1>5. t # "Clear" => Clears(Rest) = Clears(events)
  BY <1>2, <1>3 DEF Clears
<1>6. ASSUME t = "Clear" PROVE Clears(events) = Clears(Rest) \cup {Head(events).win}
  <2>1. \A w \in Offers : Clear(w) = Head(events) <=> w = Head(events).win
    BY <1>4, <1>6 DEF Clear
  <2> QED
    BY <1>2, <1>4, <1>6, <2>1 DEF Clears
<1>7. /\ t \in {"Request", "Deleted"} => Head(events).req \in Requests
      /\ t \in {"NewValue", "Notify"} => Head(events).req \in Own
  BY <1>1, <1>2 DEF Event
<1> QED
  BY <1>2, <1>4, <1>5, <1>6, <1>7

-----------------------------------------------------------------------------
(* The conversions keep the types, and leave the ownership alone *)

Values == [kind : {"none", "INCR", "data"}, unit : 0..MaxUnits]

LEMMA ValueTypes ==
    /\ MaxUnits \in Nat /\ NoProp \in Values /\ Incr \in Values
    /\ \A n \in 0..MaxUnits : Data(n) \in Values
BY SelectionAssumption DEF Values, NoProp, Incr, Data

\* what a conversion changes is of the right type, and no loss is reported
ConversionTypes ==
    /\ transfer' \in [Requests -> States]
    /\ supplied' \in [Requests -> 0..MaxUnits]
    /\ written' \in [Requests -> Nat]
    /\ \A r \in Requests : written'[r] <= supplied'[r]
    /\ more' \subseteq Requests
    /\ prop' \in [Requests -> Values]
    /\ watched' \subseteq {WindowOf[r] : r \in Requests}
    /\ told' \in [Outside -> {"none", "granted", "refused"}]
    /\ asker' \in [Requests -> {"idle", "asked", "reading", "ended", "gone"}]
    /\ got' \in [Requests -> Seq(0..MaxUnits)]
    /\ events' \in Seq(Event)
    /\ Clears(events') = Clears(events)

LEMMA AskTypes ==
    ASSUME TypeOK, NEW r \in Requests, Ask(r)
    PROVE  ConversionTypes /\ server' \in [Requests -> {"none", "ours", "other"}]
<1>1. CASE xowner \in Offers /\ events' = Append(events, [type |-> "Request", req |-> r, win |-> xowner])
           /\ UNCHANGED <<told, transfer>>
  <2> DEFINE e == [type |-> "Request", req |-> r, win |-> xowner]
  <2>1. e \in Event /\ \A w \in Offers : e # Clear(w)
    BY <1>1 DEF Event, Clear
  <2>2. events' \in Seq(Event) /\ Elements(events') = Elements(events) \cup {e}
    BY <1>1, <2>1, AppendElements DEF TypeOK
  <2>3. Clears(events') = Clears(events)
    BY <2>1, <2>2 DEF Clears
  <2> QED
    BY <1>1, <2>2, <2>3 DEF Ask, ConversionTypes, TypeOK, Values
<1>2. CASE UNCHANGED <<told, events>>
  BY <1>2 DEF Ask, ConversionTypes, TypeOK, Values, States
<1>3. CASE Answer(events, r, FALSE) /\ transfer' = [transfer EXCEPT ![r] = "done"]
           /\ UNCHANGED server
  <2>1. /\ events' \in Seq(Event) /\ Clears(events') = Clears(events)
        /\ told' \in [Outside -> {"none", "granted", "refused"}]
    BY <1>3, AnswerEvents DEF TypeOK
  <2> QED
    BY <1>3, <2>1 DEF Ask, ConversionTypes, TypeOK, Values, States
<1> QED
  BY <1>1, <1>2, <1>3 DEF Ask

LEMMA WriteTypes ==
    ASSUME TypeOK, NEW r, NEW p \in Values, Write(r, p)
    PROVE  prop' \in [Requests -> Values]
BY DEF Write, TypeOK, Values

LEMMA RequestTypes ==
    ASSUME TypeOK, HandleRequest
    PROVE  ConversionTypes
<1> DEFINE r == Head(events).req
<1>1. /\ r \in Requests /\ Rest \in Seq(Event) /\ Clears(Rest) = Clears(events)
      /\ UNCHANGED <<ownerVars, server, asker, got>>
  BY RestEvents DEF HandleRequest
<1> HIDE DEF r
<1>2. ASSUME NEW q \in Seq(Event), Clears(q) = Clears(events), NEW ok \in BOOLEAN, Answer(q, r, ok)
      PROVE  /\ events' \in Seq(Event) /\ Clears(events') = Clears(events)
             /\ told' \in [Outside -> {"none", "granted", "refused"}]
  BY <1>1, <1>2, AnswerEvents
<1>3. CASE Reject(r)
  BY <1>1, <1>2, <1>3 DEF Reject, ConversionTypes, TypeOK, Values, States
<1>4. ASSUME NEW n \in 0..1, n <= MaxUnits, SendWhole(r, n) PROVE ConversionTypes
  <2>1. n \in 0..MaxUnits /\ n \in Nat
    BY <1>4, ValueTypes
  <2>2. prop' \in [Requests -> Values]
    BY <1>4, <2>1, ValueTypes, WriteTypes DEF SendWhole
  <2>3. /\ AfterWrite(Rest, r, watched) \in Seq(Event)
        /\ Clears(AfterWrite(Rest, r, watched)) = Clears(events)
    BY <1>1, PropertyEvents
  <2>4. /\ events' \in Seq(Event) /\ Clears(events') = Clears(events)
        /\ told' \in [Outside -> {"none", "granted", "refused"}]
    BY <1>2, <1>4, <2>3 DEF SendWhole
  <2>5. /\ supplied' \in [Requests -> 0..MaxUnits] /\ written' \in [Requests -> Nat]
        /\ \A o \in Requests : written'[o] <= supplied'[o]
    BY <1>1, <1>4, <2>1 DEF SendWhole, TypeOK
  <2> QED
    BY <1>1, <1>4, <2>2, <2>4, <2>5 DEF SendWhole, ConversionTypes, TypeOK, States
<1>5. ASSUME NEW n \in 0..MaxUnits, NEW cont \in BOOLEAN, SendIncremental(r, n, cont)
      PROVE  ConversionTypes
  <2>1. prop' \in [Requests -> Values]
    BY <1>5, ValueTypes, WriteTypes DEF SendIncremental
  <2>2. /\ AfterWrite(Rest, r, watched') \in Seq(Event)
        /\ Clears(AfterWrite(Rest, r, watched')) = Clears(events)
    BY <1>1, PropertyEvents
  <2>3. watched' \subseteq {WindowOf[o] : o \in Requests}
    BY <1>1, <1>5 DEF SendIncremental, Watch, TypeOK
  <2>4. /\ events' \in Seq(Event) /\ Clears(events') = Clears(events)
        /\ told' \in [Outside -> {"none", "granted", "refused"}]
    BY <1>2, <1>5, <2>2 DEF SendIncremental
  <2>5. /\ supplied' \in [Requests -> 0..MaxUnits] /\ written' \in [Requests -> Nat]
        /\ \A o \in Requests : written'[o] <= supplied'[o]
    BY <1>1, <1>5, ValueTypes DEF SendIncremental, TypeOK
  <2> QED
    BY <1>1, <1>5, <2>1, <2>3, <2>4, <2>5 DEF SendIncremental, ConversionTypes, TypeOK, States
<1> QED
  BY <1>3, <1>4, <1>5 DEF HandleRequest, r

LEMMA WriteNextTypes ==
    ASSUME TypeOK, NEW r \in Requests, NEW s \in 0..MaxUnits, supplied[r] <= s, written[r] < s,
           Rest \in Seq(Event), WriteNext(r, s)
    PROVE  /\ supplied' \in [Requests -> 0..MaxUnits] /\ written' \in [Requests -> Nat]
           /\ \A o \in Requests : written'[o] <= supplied'[o]
           /\ prop' \in [Requests -> Values]
           /\ events' \in Seq(Event) /\ Clears(events') = Clears(Rest)
           /\ UNCHANGED <<transfer, watched>>
<1>1. written[r] + 1 \in 0..MaxUnits /\ written[r] + 1 <= s
  BY ValueTypes DEF TypeOK
<1>2. prop' \in [Requests -> Values]
  BY <1>1, ValueTypes, WriteTypes DEF WriteNext
<1>3. events' \in Seq(Event) /\ Clears(events') = Clears(Rest)
  BY PropertyEvents DEF WriteNext
<1>4. /\ supplied' \in [Requests -> 0..MaxUnits] /\ written' \in [Requests -> Nat]
      /\ \A o \in Requests : written'[o] <= supplied'[o]
  BY <1>1, ValueTypes DEF WriteNext, TypeOK
<1> QED
  BY <1>2, <1>3, <1>4 DEF WriteNext

LEMMA DeletedTypes ==
    ASSUME TypeOK, HandleDeleted
    PROVE  ConversionTypes
<1> DEFINE r == Head(events).req
<1>1. /\ r \in Requests /\ Rest \in Seq(Event) /\ Clears(Rest) = Clears(events)
      /\ UNCHANGED <<ownerVars, server, askerVars>>
  BY RestEvents DEF HandleDeleted
<1> HIDE DEF r
<1>2. CASE Unwritten(r) /\ WriteNext(r, supplied[r]) /\ UNCHANGED more
  <2>1. supplied[r] \in 0..MaxUnits /\ supplied[r] <= supplied[r] /\ written[r] < supplied[r]
    BY <1>1, <1>2 DEF Unwritten, TypeOK
  <2> QED
    BY <1>1, <1>2, <2>1, WriteNextTypes DEF ConversionTypes, TypeOK, askerVars
<1>3. ASSUME ~Unwritten(r), NEW s \in (supplied[r] + 1)..MaxUnits, WriteNext(r, s),
             more' \in {more, more \ {r}}
      PROVE  ConversionTypes
  <2>1. s \in 0..MaxUnits /\ supplied[r] <= s /\ written[r] < s
    BY <1>1, <1>3, ValueTypes DEF Unwritten, TypeOK
  <2> QED
    BY <1>1, <1>3, <2>1, WriteNextTypes DEF ConversionTypes, TypeOK, askerVars
<1>4. CASE EndTransfer(r)
  <2>1. prop' \in [Requests -> Values]
    BY <1>4, ValueTypes, WriteTypes DEF EndTransfer
  <2>2. events' \in Seq(Event) /\ Clears(events') = Clears(events)
    BY <1>1, <1>4, PropertyEvents DEF EndTransfer
  <2> QED
    BY <1>1, <1>4, <2>1, <2>2 DEF EndTransfer, Unwatch, ConversionTypes, TypeOK, States, askerVars
<1>5. CASE events' = Rest /\ UNCHANGED <<transfer, supplied, written, more, prop, watched>>
  BY <1>1, <1>5 DEF ConversionTypes, TypeOK, Values, askerVars
<1> QED
  BY <1>2, <1>3, <1>4, <1>5 DEF HandleDeleted, r

LEMMA TakenTypes ==
    ASSUME TypeOK, NEW r \in Requests, NEW p \in Values
    PROVE  Taken(r, p) \in Seq(0..MaxUnits)
<1> DEFINE D == 0..MaxUnits
<1>1. got[r] \in Seq(D) /\ p.unit \in D
  BY DEF TypeOK, Values
<1> HIDE DEF D
<1>2. Append(got[r], p.unit) \in Seq(D)
  BY <1>1
<1> QED
  BY <1>1, <1>2 DEF Taken, D

LEMMA NewValueTypes ==
    ASSUME TypeOK, HandleNewValue
    PROVE  ConversionTypes
<1> DEFINE r == Head(events).req
<1>1. /\ r \in Requests /\ Rest \in Seq(Event) /\ Clears(Rest) = Clears(events)
      /\ UNCHANGED <<transferVars, watched, told>>
  BY RestEvents DEF HandleNewValue, Requests
<1> HIDE DEF r
<1>2. prop[r] \in Values /\ Taken(r, prop[r]) \in Seq(0..MaxUnits)
  BY <1>1, TakenTypes DEF TypeOK, Values
<1>3. AfterDelete(Rest, r, watched) \in Seq(Event) /\ Clears(AfterDelete(Rest, r, watched)) = Clears(events)
  BY <1>1, PropertyEvents
<1>4. CASE /\ prop' = [prop EXCEPT ![r] = NoProp] /\ events' = AfterDelete(Rest, r, watched)
           /\ asker' = [asker EXCEPT ![r] = "ended"] /\ UNCHANGED got
  BY <1>1, <1>3, <1>4, ValueTypes DEF ConversionTypes, TypeOK, Values, transferVars
<1>5. CASE /\ prop' = [prop EXCEPT ![r] = NoProp] /\ events' = AfterDelete(Rest, r, watched)
           /\ got' = [got EXCEPT ![r] = Taken(r, prop[r])] /\ UNCHANGED asker
  BY <1>1, <1>2, <1>3, <1>5, ValueTypes DEF ConversionTypes, TypeOK, Values, transferVars
<1>6. CASE events' = Rest /\ UNCHANGED <<prop, asker, got>>
  BY <1>1, <1>6 DEF ConversionTypes, TypeOK, Values, transferVars
<1> QED
  BY <1>4, <1>5, <1>6 DEF HandleNewValue, r

LEMMA NotifyTypes ==
    ASSUME TypeOK, HandleNotify
    PROVE  ConversionTypes
<1> DEFINE r == Head(events).req
<1>1. /\ r \in Requests /\ Rest \in Seq(Event) /\ Clears(Rest) = Clears(events)
      /\ UNCHANGED <<transferVars, told>>
  BY RestEvents DEF HandleNotify, Requests
<1> HIDE DEF r
<1>2. prop[r] \in Values /\ Taken(r, prop[r]) \in Seq(0..MaxUnits)
  BY <1>1, TakenTypes DEF TypeOK, Values
<1>3. AfterDelete(Rest, r, watched') \in Seq(Event) /\ Clears(AfterDelete(Rest, r, watched')) = Clears(events)
  BY <1>1, PropertyEvents
<1>4. CASE /\ watched' = watched \cup {WindowOf[r]} /\ prop' = [prop EXCEPT ![r] = NoProp]
           /\ events' = AfterDelete(Rest, r, watched')
           /\ asker' = asker \/ asker' = [asker EXCEPT ![r] = "ended"]
           /\ got' = got \/ got' = [got EXCEPT ![r] = Taken(r, prop[r])]
  <2>1. /\ watched' \subseteq {WindowOf[o] : o \in Requests} /\ prop' \in [Requests -> Values]
        /\ asker' \in [Requests -> {"idle", "asked", "reading", "ended", "gone"}]
    <3>1. watched' \subseteq {WindowOf[o] : o \in Requests}
      BY <1>1, <1>4 DEF TypeOK
    <3>2. prop' \in [Requests -> Values]
      BY <1>1, <1>4, ValueTypes DEF TypeOK, Values
    <3>3. asker' \in [Requests -> {"idle", "asked", "reading", "ended", "gone"}]
      BY <1>1, <1>4 DEF TypeOK
    <3> QED
      BY <3>1, <3>2, <3>3
  <2>2. got' \in [Requests -> Seq(0..MaxUnits)]
    <3> DEFINE S == Seq(0..MaxUnits)
    <3>1. got \in [Requests -> S] /\ Taken(r, prop[r]) \in S
      BY <1>2 DEF TypeOK
    <3> HIDE DEF S
    <3>2. got' \in [Requests -> S]
      BY <1>1, <1>4, <3>1
    <3> QED
      BY <3>2 DEF S
  <2>3. events' \in Seq(Event) /\ Clears(events') = Clears(events)
    BY <1>3, <1>4
  <2>4. UNCHANGED <<transfer, supplied, written, more, told>>
    BY <1>1 DEF transferVars
  <2> QED
    BY <2>1, <2>2, <2>3, <2>4 DEF ConversionTypes, TypeOK
<1>5. CASE events' = Rest /\ asker' \in {asker, [asker EXCEPT ![r] = "ended"]} /\ UNCHANGED <<prop, got, watched>>
  BY <1>1, <1>5 DEF ConversionTypes, TypeOK, Values, transferVars
<1> QED
  BY <1>4, <1>5 DEF HandleNotify, r

LEMMA OthersTypes ==
    ASSUME TypeOK, NEW r \in Requests, Others(r)
    PROVE  ConversionTypes
<1>1. ASSUME r \in Own, OtherAnswers(r) PROVE ConversionTypes
  <2>1. ASSUME NEW q \in Seq(Event), Clears(q) = Clears(events), NEW ok \in BOOLEAN, Answer(q, r, ok)
        PROVE  /\ events' \in Seq(Event) /\ Clears(events') = Clears(events)
               /\ told' \in [Outside -> {"none", "granted", "refused"}]
    BY <2>1, AnswerEvents
  <2>2. UNCHANGED <<ownerVars, server, more, watched, asker, got>>
    BY <1>1 DEF OtherAnswers
  <2>3. CASE /\ transfer' = [transfer EXCEPT ![r] = "done"] /\ Answer(events, r, FALSE)
             /\ UNCHANGED <<supplied, written, prop>>
    <3>1. /\ events' \in Seq(Event) /\ Clears(events') = Clears(events)
          /\ told' \in [Outside -> {"none", "granted", "refused"}]
      BY <2>1, <2>3 DEF TypeOK
    <3> QED
      BY <2>2, <2>3, <3>1 DEF ConversionTypes, TypeOK, Values, States
  <2>4. ASSUME NEW n \in 0..MaxUnits, NEW u \in 0..n, NEW p \in Values, NEW t \in {"done", "sending"},
               transfer' = [transfer EXCEPT ![r] = t], supplied' = [supplied EXCEPT ![r] = n],
               written' = [written EXCEPT ![r] = u], prop' = [prop EXCEPT ![r] = p],
               Answer(AfterWrite(events, r, watched), r, TRUE)
        PROVE  ConversionTypes
    <3>1. /\ AfterWrite(events, r, watched) \in Seq(Event)
          /\ Clears(AfterWrite(events, r, watched)) = Clears(events)
      BY PropertyEvents DEF TypeOK
    <3>2. /\ events' \in Seq(Event) /\ Clears(events') = Clears(events)
          /\ told' \in [Outside -> {"none", "granted", "refused"}]
      BY <2>1, <2>4, <3>1
    <3>3. /\ supplied' \in [Requests -> 0..MaxUnits] /\ written' \in [Requests -> Nat]
          /\ \A o \in Requests : written'[o] <= supplied'[o]
      BY <2>4, ValueTypes DEF TypeOK
    <3>4. transfer' \in [Requests -> States] /\ prop' \in [Requests -> Values]
      BY <2>4 DEF TypeOK, States, Values
    <3> QED
      BY <2>2, <3>2, <3>3, <3>4 DEF ConversionTypes, TypeOK
  <2>5. ASSUME NEW n \in 0..1, n <= MaxUnits PROVE n \in 0..MaxUnits /\ n \in 0..n
    BY <2>5, ValueTypes
  <2>6. ASSUME NEW n \in 0..MaxUnits PROVE 0 \in 0..n
    BY <2>6, ValueTypes
  <2> QED
    BY <1>1, <2>3, <2>4, <2>5, <2>6, ValueTypes DEF OtherAnswers
<1>2. ASSUME r \in Own, OtherContinues(r) PROVE ConversionTypes
  <2>1. events' \in Seq(Event) /\ Clears(events') = Clears(events)
    BY <1>2, PropertyEvents DEF OtherContinues, TypeOK
  <2>2. CASE written[r] < supplied[r]
    <3>1. written[r] + 1 \in 0..MaxUnits /\ written[r] + 1 <= supplied[r]
      BY <2>2, ValueTypes DEF TypeOK
    <3>2. /\ supplied' = supplied /\ written' \in [Requests -> Nat]
          /\ \A o \in Requests : written'[o] <= supplied[o]
      <4>1. supplied' = supplied /\ written' = [written EXCEPT ![r] = @ + 1]
        BY <1>2, <2>2 DEF OtherContinues
      <4>2. written[r] \in Nat /\ written[r] + 1 \in Nat
        BY DEF TypeOK
      <4> QED
        BY <3>1, <4>1, <4>2 DEF TypeOK
    <3>3. prop' \in [Requests -> Values]
      BY <1>2, <2>2, <3>1, ValueTypes DEF OtherContinues, TypeOK, Values
    <3>4. UNCHANGED <<transfer, more, watched, told, asker, got>>
      BY <1>2, <2>2 DEF OtherContinues, askerVars
    <3> QED
      BY <2>1, <3>2, <3>3, <3>4 DEF ConversionTypes, TypeOK
  <2>3. CASE ~(written[r] < supplied[r])
    <3>1. /\ UNCHANGED <<supplied, written, more, watched, told, asker, got>>
          /\ transfer' = [transfer EXCEPT ![r] = "done"] /\ prop' = [prop EXCEPT ![r] = Data(0)]
      BY <1>2, <2>3 DEF OtherContinues, askerVars
    <3>2. Data(0) \in Values
      BY ValueTypes
    <3>3. transfer' \in [Requests -> States] /\ prop' \in [Requests -> Values]
      BY <3>1, <3>2 DEF TypeOK, States, Values
    <3> QED
      BY <2>1, <3>1, <3>3 DEF ConversionTypes, TypeOK
  <2> QED
    BY <2>2, <2>3
<1>3. ASSUME r \in Outside, ClientReads(r) PROVE ConversionTypes
  <2>1. prop[r] \in Values /\ Taken(r, prop[r]) \in Seq(0..MaxUnits)
    BY TakenTypes DEF TypeOK, Values
  <2>2. /\ AfterDelete(events, r, watched) \in Seq(Event)
        /\ Clears(AfterDelete(events, r, watched)) = Clears(events)
    BY PropertyEvents DEF TypeOK
  <2>3. told' \in [Outside -> {"none", "granted", "refused"}]
        /\ UNCHANGED <<transferVars, watched>>
    BY <1>3 DEF ClientReads, TypeOK
  <2>4. CASE asker' = [asker EXCEPT ![r] = "ended"] /\ UNCHANGED <<prop, got, events>>
    BY <2>3, <2>4 DEF ConversionTypes, TypeOK, Values, transferVars
  <2>5. CASE /\ prop' = [prop EXCEPT ![r] = NoProp] /\ events' = AfterDelete(events, r, watched)
             /\ \E st \in {"reading", "ended"} : asker' = [asker EXCEPT ![r] = st]
             /\ got' = got \/ got' = [got EXCEPT ![r] = Taken(r, prop[r])]
    <3>1. got' \in [Requests -> Seq(0..MaxUnits)]
      <4> DEFINE S == Seq(0..MaxUnits)
      <4>1. got \in [Requests -> S] /\ Taken(r, prop[r]) \in S
        BY <2>1 DEF TypeOK
      <4> HIDE DEF S
      <4>2. got' \in [Requests -> S]
        BY <2>5, <4>1
      <4> QED
        BY <4>2 DEF S
    <3>2. asker' \in [Requests -> {"idle", "asked", "reading", "ended", "gone"}]
      BY <2>5 DEF TypeOK
    <3>3. prop' \in [Requests -> Values]
      BY <2>5, ValueTypes DEF TypeOK, Values
    <3>4. events' \in Seq(Event) /\ Clears(events') = Clears(events)
      BY <2>2, <2>5
    <3> QED
      BY <2>3, <3>1, <3>2, <3>3, <3>4 DEF ConversionTypes, TypeOK, transferVars
  <2> QED
    BY <1>3, <2>4, <2>5 DEF ClientReads
<1> QED
  BY <1>1, <1>2, <1>3 DEF Others

LEMMA AbandonTypes ==
    ASSUME TypeOK, NEW w, Abandon(w)
    PROVE  ConversionTypes
<1>1. told' \in [Outside -> {"none", "granted", "refused"}]
  BY DEF Abandon, TypeOK
<1>2. asker' \in [Requests -> {"idle", "asked", "reading", "ended", "gone"}]
  BY DEF Abandon, TypeOK
<1>3. prop' \in [Requests -> Values]
  BY ValueTypes DEF Abandon, TypeOK, Values
<1> QED
  BY <1>1, <1>2, <1>3 DEF Abandon, TypeOK, ConversionTypes, transferVars

-----------------------------------------------------------------------------
(* Who owns the selection *)

\* the owner, the object Lua believes to own it, and the losses C on their way
Ownership(C) ==
    /\ xowner \in Offers \cup {Nobody, Other}
    /\ acquired \in made \cup {Nobody}
    /\ made \subseteq Offers
    /\ xowner \in Offers => acquired = xowner
    /\ acquired # Nobody /\ xowner # acquired => acquired \in C
    /\ \A w \in C : w \in made /\ w # xowner

LEMMA InvariantIsOwnership ==
    TypeOK => (OwnerRegistered /\ ClearsStale <=> Ownership(Clears(events)))
<1> SUFFICES ASSUME TypeOK PROVE OwnerRegistered /\ ClearsStale <=> Ownership(Clears(events))
  OBVIOUS
<1>1. Pending = Elements(events)
  BY DEF Pending, Elements
<1>2. acquired # Nobody => (acquired \in Clears(events) <=> Clear(acquired) \in Elements(events))
  BY DEF Clears, TypeOK
<1> QED
  BY <1>1, <1>2 DEF Ownership, OwnerRegistered, ClearsStale, TypeOK, Clear

\* a step that leaves the owner alone and reports no loss keeps the invariant
LEMMA ConversionKeeps ==
    ASSUME IInv, ConversionTypes, UNCHANGED ownerVars, server' \in [Requests -> {"none", "ours", "other"}]
    PROVE  IInv'
<1>1. TypeOK'
  BY DEF IInv, ConversionTypes, TypeOK, ownerVars, Values
<1>2. Ownership(Clears(events))
  BY InvariantIsOwnership DEF IInv
<1>3. Ownership(Clears(events))'
  BY <1>2 DEF Ownership, ownerVars, ConversionTypes
<1>4. (TypeOK => (OwnerRegistered /\ ClearsStale <=> Ownership(Clears(events))))'
  BY InvariantIsOwnership, PTL
<1> QED
  BY <1>1, <1>3, <1>4 DEF IInv

\* a step that leaves the conversions alone keeps the invariant if it keeps the
\* ownership
LEMMA OwnerKeeps ==
    ASSUME IInv, UNCHANGED <<transferVars, prop, watched, askerVars>>,
           events' \in Seq(Event), Ownership(Clears(events))'
    PROVE  IInv'
<1>1. TypeOK'
  BY DEF IInv, TypeOK, transferVars, askerVars, Ownership
<1>2. (TypeOK => (OwnerRegistered /\ ClearsStale <=> Ownership(Clears(events))))'
  BY InvariantIsOwnership, PTL
<1> QED
  BY <1>1, <1>2 DEF IInv

LEMMA InitIInv == Init => IInv
<1> SUFFICES ASSUME Init PROVE IInv
  OBVIOUS
<1>1. TypeOK
  BY SelectionAssumption DEF Init, TypeOK, States, NoProp
<1>2. Clears(events) = {}
  BY DEF Init, Clears, Elements
<1> QED
  BY <1>1, <1>2, SelectionAssumption DEF Init, IInv, OwnerRegistered, ClearsStale

LEMMA NextIInv == IInv /\ [Next]_vars => IInv'
<1> SUFFICES ASSUME IInv, [Next]_vars PROVE IInv'
  OBVIOUS
<1>1. TypeOK /\ events \in Seq(Event) /\ Ownership(Clears(events))
  BY InvariantIsOwnership DEF IInv, TypeOK
<1>2. Nobody \notin Offers /\ Other \notin Offers /\ Other # Nobody
  BY SelectionAssumption
<1>3. ASSUME NEW w \in Offers, Acquire(w) PROVE IInv'
  <2>1. /\ events' = events /\ made' = made \cup {w} /\ w \notin made
        /\ UNCHANGED <<transferVars, prop, watched, askerVars>>
    BY <1>3 DEF Acquire
  <2>2. Ownership(Clears(events))'
    BY <1>1, <1>2, <1>3, <2>1 DEF Acquire, Ownership
  <2> QED
    BY <1>1, <2>1, <2>2, OwnerKeeps
<1>4. CASE LuaRelease
  <2>1. Ownership(Clears(events))'
    BY <1>1, <1>2, <1>4 DEF LuaRelease, Release, DestroyWindow, Ownership
  <2> QED
    BY <1>1, <1>4, <2>1, OwnerKeeps DEF LuaRelease
<1>5. CASE HandleClear
  <2> DEFINE w == Head(events).win
  <2>1. w \in Offers /\ Rest \in Seq(Event) /\ Clears(events) = Clears(Rest) \cup {w}
    BY <1>1, <1>5, RestEvents DEF HandleClear
  <2>2. ReleaseOwner(w) /\ events' = Rest
    BY <1>5 DEF HandleClear
  <2> HIDE DEF w
  <2>3. Ownership(Clears(events))'
    BY <1>1, <1>2, <2>1, <2>2 DEF ReleaseOwner, Release, DestroyWindow, Ownership, ownerVars
  <2> QED
    BY <1>5, <2>1, <2>2, <2>3, OwnerKeeps DEF HandleClear
<1>6. CASE OtherTakes
  <2>1. CASE xowner \in Offers
    <3>1. Clear(xowner) \in Event /\ events' = Append(events, Clear(xowner))
      BY <1>6, <2>1 DEF OtherTakes, Event, Clear
    <3>2. events' \in Seq(Event) /\ Elements(events') = Elements(events) \cup {Clear(xowner)}
      BY <1>1, <3>1, AppendElements
    <3>3. Clears(events') = Clears(events) \cup {xowner}
      <4>1. \A w \in Offers : Clear(w) = Clear(xowner) <=> w = xowner
        BY DEF Clear
      <4> QED
        BY <2>1, <3>2, <4>1 DEF Clears
    <3>4. Ownership(Clears(events))'
      BY <1>1, <1>2, <1>6, <2>1, <3>3 DEF OtherTakes, Ownership
    <3> QED
      BY <1>6, <3>2, <3>4, OwnerKeeps DEF OtherTakes
  <2>2. CASE xowner \notin Offers
    <3>1. Ownership(Clears(events))'
      BY <1>1, <1>2, <1>6, <2>2 DEF OtherTakes, Ownership
    <3> QED
      BY <1>1, <1>6, <2>2, <3>1, OwnerKeeps DEF OtherTakes
  <2> QED
    BY <2>1, <2>2
<1>7. CASE HandleRequest
  BY <1>1, <1>7, RequestTypes, ConversionKeeps DEF HandleRequest, TypeOK
<1>8. CASE HandleDeleted
  BY <1>1, <1>8, DeletedTypes, ConversionKeeps DEF HandleDeleted, TypeOK
<1>9. CASE HandleNewValue
  BY <1>1, <1>9, NewValueTypes, ConversionKeeps DEF HandleNewValue, TypeOK, transferVars
<1>10. CASE HandleNotify
  BY <1>1, <1>10, NotifyTypes, ConversionKeeps DEF HandleNotify, TypeOK, transferVars
<1>11. ASSUME NEW r \in Requests, Ask(r) PROVE IInv'
  BY <1>1, <1>11, AskTypes, ConversionKeeps DEF Ask
<1>12. ASSUME NEW r \in Requests, Others(r) PROVE IInv'
  <2>1. UNCHANGED <<ownerVars, server>>
    BY <1>12 DEF Others, OtherAnswers, OtherContinues, ClientReads, transferVars
  <2> QED
    BY <1>1, <1>12, <2>1, OthersTypes, ConversionKeeps DEF TypeOK
<1>13. ASSUME NEW r \in Outside, Abandon(WindowOf[r]) PROVE IInv'
  BY <1>1, <1>13, AbandonTypes, ConversionKeeps DEF Abandon, TypeOK, transferVars
<1>14. CASE UNCHANGED vars
  <2>1. UNCHANGED <<ownerVars, transferVars, prop, watched, askerVars, events>>
    BY <1>14 DEF vars
  <2>2. Ownership(Clears(events))'
    BY <1>1, <2>1 DEF Ownership, ownerVars
  <2> QED
    BY <1>1, <2>1, <2>2, OwnerKeeps
<1> QED
  BY <1>3, <1>4, <1>5, <1>6, <1>7, <1>8, <1>9, <1>10, <1>11, <1>12, <1>13, <1>14
  DEF Next, HandleEvent

THEOREM Invariance == Spec => []IInv
<1> QED
  BY InitIInv, NextIInv, PTL DEF Spec

-----------------------------------------------------------------------------
\* Every variable keeps its type; no transfer writes more than it was given.
THEOREM SelectionTypes == Spec => []TypeOK
<1>1. IInv => TypeOK
  BY DEF IInv
<1> QED
  BY <1>1, Invariance, PTL

\* However objects come and go, other clients take the selection and the server
\* ignores requests, Lua believes it owns the selection exactly while it does.
THEOREM OwnershipKnown == Spec => []OwnerRegistered
<1>1. IInv => OwnerRegistered
  BY DEF IInv
<1> QED
  BY <1>1, Invariance, PTL

\* A SelectionClear for a window that was replaced releases nothing: the losses
\* on their way are those of windows that do not own the selection.
THEOREM LateClear == Spec => LateClearHarmless
<1>1. IInv /\ [Next]_vars => [HandleClear /\ acquired = xowner => UNCHANGED acquired]_vars
  <2> SUFFICES ASSUME IInv, HandleClear, acquired = xowner PROVE UNCHANGED acquired
    OBVIOUS
  <2>1. Head(events).win \in Clears(events)
    BY RestEvents DEF IInv, HandleClear
  <2>2. acquired # Head(events).win
    BY <2>1 DEF IInv, ClearsStale
  <2> QED
    BY <2>2 DEF HandleClear, ReleaseOwner, ownerVars
<1> QED
  BY <1>1, Invariance, PTL DEF Spec, LateClearHarmless

-----------------------------------------------------------------------------
(* The stages of a conversion. At most one event about a conversion is on   *)
(* its way at any time, and that event, the property and the units that the *)
(* requestor has tell how far the conversion is.                            *)

Request(r, w) == [type |-> "Request", req |-> r, win |-> w]
Notify(r, ok) == [type |-> "Notify", req |-> r, ok |-> ok]
NewValue(r)   == [type |-> "NewValue", req |-> r]
Deleted(r)    == [type |-> "Deleted", req |-> r]

\* the event e decides how the conversion r goes on; the deletion of a property
\* of the manager's own windows does not
About(e, r) == e.type # "Clear" /\ e.req = r /\ (r \in Own => e.type # "Deleted")

\* the events about r in the queue q are those in E, each there once
Box(q, r, E) ==
    /\ {e \in Elements(q) : About(e, r)} = E
    /\ \A i, j \in DOMAIN q : About(q[i], r) /\ About(q[j], r) => i = j

Units(n) == [i \in 1..n |-> i]
Watched(r) == WindowOf[r] \in watched
Quiet(r) == Box(events, r, {})

\* what the stages of a conversion have in common: nothing is transferred yet,
\* there is one value with all the data, or the size estimate; the requestor
\* has deleted the last piece, has not read it yet, or the end is to be read
Fresh(r) ==
    /\ supplied[r] = 0 /\ written[r] = 0 /\ got[r] = <<>>
    /\ prop[r] = NoProp /\ r \notin more /\ ~Watched(r)
WholeValue(r) ==
    transfer[r] = "done" /\ supplied[r] <= 1 /\ prop[r] = Data(supplied[r]) /\ got[r] = <<>>
Announced(r) == transfer[r] = "sending" /\ written[r] = 0 /\ prop[r] = Incr /\ got[r] = <<>>
Between(r) == transfer[r] = "sending" /\ prop[r] = NoProp /\ got[r] = Units(written[r])
Piece(r) ==
    /\ transfer[r] = "sending" /\ written[r] >= 1
    /\ prop[r] = Data(written[r]) /\ got[r] = Units(written[r] - 1)
Last(r) ==
    /\ transfer[r] = "done" /\ written[r] = supplied[r]
    /\ prop[r] = Data(0) /\ got[r] = Units(supplied[r])

Idle(r) ==
    asker[r] = "idle" /\ server[r] = "none" /\ transfer[r] = "none" /\ Fresh(r) /\ Quiet(r)
AskedUs(r) ==
    /\ server[r] = "ours" /\ transfer[r] = "none" /\ Fresh(r)
    /\ \E w \in Offers : Box(events, r, {Request(r, w)})

\* where the conversion of a getter is
OwnStage(r) ==
    /\ r \notin more
    /\ \/ Idle(r)
       \/ asker[r] = "asked" /\ AskedUs(r)
       \/ asker[r] = "asked" /\ server[r] = "other" /\ transfer[r] = "asked" /\ Fresh(r) /\ Quiet(r)
       \/ asker[r] = "asked" /\ transfer[r] = "done" /\ Fresh(r) /\ Box(events, r, {Notify(r, FALSE)})
       \/ /\ asker[r] = "asked" /\ ~Watched(r) /\ Box(events, r, {Notify(r, TRUE)})
          /\ WholeValue(r) \/ (server[r] = "other" /\ Announced(r))
       \/ /\ asker[r] = "asked" /\ Watched(r) /\ server[r] = "other"
          /\ \/ Between(r) /\ Quiet(r)
             \/ (Piece(r) \/ Last(r)) /\ Box(events, r, {NewValue(r)})
       \/ asker[r] = "ended" /\ transfer[r] = "done" /\ Quiet(r)

\* where the conversion of another client is
OutsideStage(r) ==
    /\ r \in more => transfer[r] = "sending"
    /\ \/ told[r] = "none" /\ Idle(r)
       \/ told[r] = "none" /\ asker[r] \in {"asked", "gone"} /\ AskedUs(r)
       \/ told[r] = "refused" /\ asker[r] = "asked" /\ transfer[r] = "done" /\ Fresh(r) /\ Quiet(r)
       \/ /\ told[r] = "granted" /\ asker[r] = "asked" /\ Quiet(r)
          /\ \/ WholeValue(r) /\ ~Watched(r)
             \/ Announced(r) /\ Watched(r) /\ server[r] = "ours"
       \/ /\ told[r] = "none" /\ asker[r] = "reading" /\ server[r] = "ours"
          /\ \/ Watched(r) /\ Between(r) /\ Box(events, r, {Deleted(r)})
             \/ Watched(r) /\ Piece(r) /\ Quiet(r)
             \/ ~Watched(r) /\ Last(r) /\ Quiet(r)
       \/ told[r] = "none" /\ asker[r] = "ended" /\ transfer[r] = "done" /\ ~Watched(r) /\ Quiet(r)
       \/ /\ told[r] = "none" /\ asker[r] = "gone" /\ prop[r] = NoProp /\ ~Watched(r)
          /\ transfer[r] = "done" \/ (transfer[r] = "sending" /\ server[r] = "ours")
          /\ Quiet(r) \/ Box(events, r, {Deleted(r)})

-----------------------------------------------------------------------------
(* The events about a conversion *)

LEMMA BoxOther ==
    ASSUME NEW q \in Seq(Event), NEW e \in Event, NEW r, ~About(e, r), NEW E, Box(q, r, E)
    PROVE  Box(Append(q, e), r, E)
<1>1. /\ Append(q, e) \in Seq(Event) /\ DOMAIN Append(q, e) = 1..(Len(q) + 1) /\ DOMAIN q = 1..Len(q)
      /\ Len(q) \in Nat /\ Append(q, e)[Len(q) + 1] = e /\ \A i \in 1..Len(q) : Append(q, e)[i] = q[i]
  OBVIOUS
<1>2. PICK a : a = Append(q, e)
  OBVIOUS
<1>3. \A i \in DOMAIN a : About(a[i], r) => i \in DOMAIN q /\ a[i] = q[i]
  BY <1>1, <1>2
<1>4. Elements(a) = Elements(q) \cup {e}
  BY <1>2, AppendElements
<1> QED BY <1>2, <1>3, <1>4 DEF Box

LEMMA BoxAdd ==
    ASSUME NEW q \in Seq(Event), NEW e \in Event, NEW r, About(e, r), Box(q, r, {})
    PROVE  Box(Append(q, e), r, {e})
<1>1. /\ Append(q, e) \in Seq(Event) /\ DOMAIN Append(q, e) = 1..(Len(q) + 1) /\ DOMAIN q = 1..Len(q)
      /\ Len(q) \in Nat /\ Append(q, e)[Len(q) + 1] = e /\ \A i \in 1..Len(q) : Append(q, e)[i] = q[i]
  OBVIOUS
<1>2. PICK a : a = Append(q, e)
  OBVIOUS
<1>3. \A i \in DOMAIN q : ~About(q[i], r)
  BY DEF Box, Elements
<1>4. \A i \in DOMAIN a : About(a[i], r) => i = Len(q) + 1
  BY <1>1, <1>2, <1>3
<1>5. Elements(a) = Elements(q) \cup {e}
  BY <1>2, AppendElements
<1> QED BY <1>2, <1>4, <1>5 DEF Box

LEMMA BoxRest ==
    ASSUME NEW q \in Seq(Event), q # <<>>, NEW r, NEW E, Box(q, r, E)
    PROVE  /\ ~About(Head(q), r) => Box(Tail(q), r, E)
           /\ About(Head(q), r) => E = {Head(q)} /\ Box(Tail(q), r, {})
<1>1. PICK t : t = Tail(q)
  OBVIOUS
<1>2. PICK h : h = Head(q)
  OBVIOUS
<1>3. /\ h = q[1] /\ 1 \in DOMAIN q /\ DOMAIN q \subseteq Nat
      /\ \A i \in DOMAIN t : i + 1 \in DOMAIN q /\ t[i] = q[i + 1] /\ i \in Nat /\ i # 0
  BY <1>1, <1>2
<1>4. Elements(q) = Elements(t) \cup {h}
  BY <1>1, <1>2, TailElements
<1>5. ASSUME NEW i \in DOMAIN t, NEW j \in DOMAIN t, About(t[i], r), About(t[j], r) PROVE i = j
  <2>1. i + 1 = j + 1
    BY <1>3, <1>5 DEF Box
  <2> QED BY <1>3, <2>1
<1>6. CASE About(h, r)
  <2>1. \A i \in DOMAIN t : ~About(t[i], r)
    <3> SUFFICES ASSUME NEW i \in DOMAIN t, About(t[i], r) PROVE FALSE
      OBVIOUS
    <3>1. i + 1 = 1
      BY <1>3, <1>6 DEF Box
    <3> QED BY <1>3, <3>1
  <2>2. {e \in Elements(t) : About(e, r)} = {}
    BY <2>1 DEF Elements
  <2>3. E = {h}
    BY <1>4, <1>6, <2>2 DEF Box
  <2> QED BY <1>1, <1>2, <1>6, <2>1, <2>2, <2>3 DEF Box
<1>7. CASE ~About(h, r)
  <2>1. {e \in Elements(t) : About(e, r)} = E
    BY <1>4, <1>7 DEF Box
  <2> QED BY <1>1, <1>2, <1>5, <1>7, <2>1 DEF Box
<1> QED BY <1>6, <1>7

\* what the X server puts into the queue for r says nothing of other conversions
LEMMA EventsOfOthers ==
    ASSUME NEW q \in Seq(Event), NEW r \in Requests, NEW o, o # r, NEW W, NEW E, Box(q, o, E)
    PROVE  /\ Box(AfterWrite(q, r, W), o, E)
           /\ Box(AfterDelete(q, r, W), o, E)
           /\ \A ok \in BOOLEAN : Answer(q, r, ok) => Box(events', o, E)
           /\ \A w \in Offers : Box(Append(q, Request(r, w)), o, E)
<1>1. /\ r \in Own => NewValue(r) \in Event
      /\ Deleted(r) \in Event /\ \A w \in Offers : Request(r, w) \in Event
      /\ r \in Own => \A ok \in BOOLEAN : Notify(r, ok) \in Event
  BY DEF Event, NewValue, Deleted, Request, Notify
<1>2. /\ ~About(NewValue(r), o) /\ ~About(Deleted(r), o)
      /\ \A w \in Offers : ~About(Request(r, w), o)
      /\ \A ok \in BOOLEAN : ~About(Notify(r, ok), o)
  BY DEF About, NewValue, Deleted, Request, Notify
<1>3. Box(AfterWrite(q, r, W), o, E)
  BY <1>1, <1>2, BoxOther DEF AfterWrite, NewValue
<1>4. Box(AfterDelete(q, r, W), o, E)
  BY <1>1, <1>2, BoxOther DEF AfterDelete, Deleted
<1>5. ASSUME NEW ok \in BOOLEAN, Answer(q, r, ok) PROVE Box(events', o, E)
  BY <1>1, <1>2, <1>5, BoxOther DEF Answer, Notify
<1>6. ASSUME NEW w \in Offers PROVE Box(Append(q, Request(r, w)), o, E)
  BY <1>1, <1>2, <1>6, BoxOther
<1> QED BY <1>3, <1>4, <1>5, <1>6

\* and what it says of r
LEMMA EventsOf ==
    ASSUME NEW q \in Seq(Event), NEW r \in Requests, NEW W, Box(q, r, {})
    PROVE  /\ r \in Own /\ WindowOf[r] \in W => Box(AfterWrite(q, r, W), r, {NewValue(r)})
           /\ r \in Outside \/ WindowOf[r] \notin W => AfterWrite(q, r, W) = q
           /\ r \in Outside /\ prop[r] # NoProp /\ WindowOf[r] \in W =>
                  Box(AfterDelete(q, r, W), r, {Deleted(r)})
           /\ prop[r] = NoProp \/ WindowOf[r] \notin W => AfterDelete(q, r, W) = q
           /\ r \in Own => Box(AfterDelete(q, r, W), r, {})
           /\ r \in Own => \A ok \in BOOLEAN : Answer(q, r, ok) => Box(events', r, {Notify(r, ok)})
           /\ \A w \in Offers : Box(Append(q, Request(r, w)), r, {Request(r, w)})
<1>0. r \in Outside => r \notin Own
  BY SelectionAssumption
<1>1. /\ r \in Own => NewValue(r) \in Event
      /\ Deleted(r) \in Event /\ \A w \in Offers : Request(r, w) \in Event
      /\ r \in Own => \A ok \in BOOLEAN : Notify(r, ok) \in Event
  BY DEF Event, NewValue, Deleted, Request, Notify
<1>2. /\ About(NewValue(r), r) /\ (About(Deleted(r), r) <=> r \notin Own)
      /\ \A w \in Offers : About(Request(r, w), r)
      /\ \A ok \in BOOLEAN : About(Notify(r, ok), r)
  BY DEF About, NewValue, Deleted, Request, Notify
<1>3. r \in Own /\ WindowOf[r] \in W => Box(AfterWrite(q, r, W), r, {NewValue(r)})
  BY <1>1, <1>2, BoxAdd DEF AfterWrite, NewValue
<1>4. r \in Outside \/ WindowOf[r] \notin W => AfterWrite(q, r, W) = q
  BY <1>0 DEF AfterWrite
<1>5. r \in Outside /\ prop[r] # NoProp /\ WindowOf[r] \in W => Box(AfterDelete(q, r, W), r, {Deleted(r)})
  BY <1>0, <1>1, <1>2, BoxAdd DEF AfterDelete, Deleted
<1>6. prop[r] = NoProp \/ WindowOf[r] \notin W => AfterDelete(q, r, W) = q
  BY DEF AfterDelete
<1>7. r \in Own => Box(AfterDelete(q, r, W), r, {})
  BY <1>1, <1>2, BoxOther DEF AfterDelete, Deleted
<1>8. ASSUME r \in Own, NEW ok \in BOOLEAN, Answer(q, r, ok) PROVE Box(events', r, {Notify(r, ok)})
  BY <1>1, <1>2, <1>8, BoxAdd DEF Answer, Notify
<1>9. \A w \in Offers : Box(Append(q, Request(r, w)), r, {Request(r, w)})
  BY <1>1, <1>2, BoxAdd
<1> QED BY <1>3, <1>4, <1>5, <1>6, <1>7, <1>8, <1>9

-----------------------------------------------------------------------------
(* What a step does to a conversion *)

\* nothing of the conversion o changes
Untouched(o) ==
    /\ server'[o] = server[o] /\ transfer'[o] = transfer[o]
    /\ supplied'[o] = supplied[o] /\ written'[o] = written[o]
    /\ prop'[o] = prop[o] /\ asker'[o] = asker[o] /\ got'[o] = got[o]
    /\ o \in more' <=> o \in more
    /\ WindowOf[o] \in watched' <=> WindowOf[o] \in watched
    /\ o \in Outside => told'[o] = told[o]
    /\ \A E : Box(events, o, E) => Box(events', o, E)

LEMMA UntouchedStage ==
    ASSUME NEW o, Untouched(o)
    PROVE  /\ o \in Own /\ OwnStage(o) => OwnStage(o)'
           /\ o \in Outside /\ OutsideStage(o) => OutsideStage(o)'
<1>1. /\ Idle(o) => Idle(o)'
      /\ AskedUs(o) => AskedUs(o)'
  BY DEF Untouched, Idle, AskedUs, Fresh, Quiet, Watched
<1>2. /\ Fresh(o) => Fresh(o)'
      /\ WholeValue(o) => WholeValue(o)'
      /\ Announced(o) => Announced(o)'
      /\ Between(o) => Between(o)'
      /\ Piece(o) => Piece(o)'
      /\ Last(o) => Last(o)'
      /\ Watched(o)' <=> Watched(o)
      /\ Quiet(o) => Quiet(o)'
  BY DEF Untouched, Quiet, Fresh, Watched, WholeValue, Announced, Between, Piece, Last
<1>3. o \in Own /\ OwnStage(o) => OwnStage(o)'
  BY <1>1, <1>2 DEF OwnStage, Untouched
<1>4. o \in Outside /\ OutsideStage(o) => OutsideStage(o)'
  BY <1>1, <1>2 DEF OutsideStage, Untouched
<1> QED BY <1>3, <1>4

\* no more units will be offered for r, and what the requestor sees
Closed(r) == transfer[r] = "done" \/ (transfer[r] = "sending" /\ r \notin more)
Open(r) == asker[r] \notin {"ended", "gone"}
Status(r) == IF asker[r] \in {"ended", "gone"} THEN asker[r] ELSE "open"

\* the step is one of the promise, for r
Stays(r) ==
    /\ supplied'[r] = supplied[r] /\ got'[r] = got[r]
    /\ Closed(r)' <=> Closed(r)
    /\ Status(r)' = Status(r)
Offers1(r) ==
    /\ ~Closed(r) /\ supplied'[r] \in Nat /\ supplied'[r] >= supplied[r]
    /\ got'[r] = got[r] /\ Status(r)' = Status(r)
Receives(r) ==
    /\ supplied'[r] = supplied[r] /\ (Closed(r)' <=> Closed(r))
    /\ asker[r] \notin {"ended", "gone"} /\ asker'[r] # "gone"
    /\ \E n \in Len(got[r])..supplied[r] :
          /\ got'[r] = Units(n)
          /\ asker'[r] = "ended" => Closed(r) /\ n = supplied[r]
Move(r) == Stays(r) \/ Offers1(r) \/ Receives(r)

LEMMA UnitsLength ==
    ASSUME NEW n \in Nat
    PROVE  /\ Units(n) \in Seq(Nat) /\ Len(Units(n)) = n /\ Units(0) = <<>>
           /\ Append(Units(n), n + 1) = Units(n + 1)
<1>1. /\ Units(n) \in Seq(Nat) /\ Len(Units(n)) = n
      /\ Units(n + 1) \in Seq(Nat) /\ Len(Units(n + 1)) = n + 1
  BY DEF Units
<1>2. Units(0) = <<>>
  BY DEF Units
<1>3. \A i \in 1..(n + 1) : Append(Units(n), n + 1)[i] = Units(n + 1)[i]
  BY <1>1 DEF Units
<1>4. Append(Units(n), n + 1) \in Seq(Nat) /\ Len(Append(Units(n), n + 1)) = n + 1
  BY <1>1
<1> QED BY <1>1, <1>2, <1>3, <1>4

LEMMA OneUnit == Units(0) = <<>> /\ Append(<<>>, 1) = Units(1)
<1>1. Units(0) = <<>>
  BY DEF Units
<1>2. Units(1) = [i \in {1} |-> i]
  BY DEF Units
<1>3. Append(<<>>, 1) = <<1>>
  OBVIOUS
<1>4. <<1>> = [i \in {1} |-> i]
  OBVIOUS
<1> QED BY <1>1, <1>2, <1>3, <1>4

\* a step of the conversion r: it keeps the stage of r, and other conversions
\* from other windows are not touched
Step(r) ==
    /\ \A o \in Requests : o # r /\ WindowOf[o] # WindowOf[r] => Untouched(o)
    /\ r \in Own /\ OwnStage(r) => OwnStage(r)' /\ Move(r)
    /\ r \in Outside /\ OutsideStage(r) => OutsideStage(r)' /\ Move(r)

\* the same, but pieces are sent to other clients only
StepOfOwner(r) ==
    /\ \A o \in Requests : o # r /\ WindowOf[o] # WindowOf[r] => Untouched(o)
    /\ r \in Own /\ OwnStage(r) /\ "own_incremental" \notin Env => OwnStage(r)' /\ Move(r)
    /\ r \in Outside /\ OutsideStage(r) => OutsideStage(r)' /\ Move(r)

LEMMA AskStep ==
    ASSUME TypeOK, NEW r \in Requests, Ask(r)
    PROVE  Step(r)
<1>0. events \in Seq(Event) /\ asker[r] = "idle" /\ asker'[r] = "asked"
      /\ UNCHANGED <<ownerVars, supplied, written, more, prop, watched, got>>
  BY DEF TypeOK, Ask
<1>1. ASSUME NEW o \in Requests, o # r PROVE Untouched(o)
  <2>1. \A E : Box(events, o, E) => Box(events', o, E)
    BY <1>0, <1>1, EventsOfOthers DEF Ask, Request
  <2>2. server'[o] = server[o] /\ transfer'[o] = transfer[o] /\ (o \in Outside => told'[o] = told[o])
    BY <1>1 DEF Ask, Answer, TypeOK
  <2>3. asker'[o] = asker[o]
    BY <1>1 DEF Ask, TypeOK
  <2> QED BY <1>0, <2>1, <2>2, <2>3 DEF Untouched
<1>2. ASSUME Idle(r), r \in Outside => told[r] = "none"
      PROVE  /\ r \in Own => OwnStage(r)'
             /\ r \in Outside => OutsideStage(r)'
             /\ Move(r)
  <2>1. /\ Box(events, r, {}) /\ transfer[r] = "none" /\ Fresh(r) /\ Fresh(r)' /\ Closed(r) = FALSE
        /\ server[r] = "none"
    BY <1>0, <1>2 DEF Idle, Quiet, Fresh, Watched, Closed
  <2>2. CASE xowner \in Offers /\ server' = [server EXCEPT ![r] = "ours"]
             /\ events' = Append(events, Request(r, xowner)) /\ UNCHANGED <<told, transfer>>
    <3>1. Box(events', r, {Request(r, xowner)})
      BY <1>0, <2>1, <2>2, EventsOf
    <3>2. AskedUs(r)'
      BY <1>0, <2>1, <2>2, <3>1 DEF AskedUs, TypeOK
    <3>3. Move(r)
      BY <1>0, <2>1, <2>2 DEF Move, Stays, Closed, Status
    <3> QED BY <1>0, <1>2, <2>1, <2>2, <3>2, <3>3 DEF OwnStage, OutsideStage, Fresh
  <2>3. CASE r \in Own /\ server' = [server EXCEPT ![r] = "other"]
             /\ transfer' = [transfer EXCEPT ![r] = "asked"] /\ UNCHANGED <<told, events>>
    <3>1. transfer'[r] = "asked" /\ server'[r] = "other"
      BY <2>3 DEF TypeOK
    <3>2. Move(r)
      BY <1>0, <2>1, <2>3, <3>1 DEF Move, Stays, Closed, Status
    <3>3. Quiet(r)'
      BY <2>1, <2>3 DEF Quiet
    <3> QED BY <1>0, <2>1, <2>3, <3>1, <3>2, <3>3, SelectionAssumption DEF OwnStage, Fresh
  <2>4. CASE transfer' = [transfer EXCEPT ![r] = "done"] /\ Answer(events, r, FALSE) /\ UNCHANGED server
    <3>1. transfer'[r] = "done"
      BY <2>4 DEF TypeOK
    <3>2. Move(r)
      BY <1>0, <2>1, <2>4, <3>1 DEF Move, Offers1, Status, TypeOK
    <3>3. r \in Own => Box(events', r, {Notify(r, FALSE)})
      BY <1>0, <2>1, <2>4, EventsOf
    <3>4. r \in Outside => told'[r] = "refused" /\ Quiet(r)'
      BY <1>0, <2>1, <2>4, SelectionAssumption DEF Answer, TypeOK, Quiet
    <3> QED BY <1>0, <2>1, <3>1, <3>2, <3>3, <3>4 DEF OwnStage, OutsideStage, Fresh
  <2> QED BY <2>2, <2>3, <2>4 DEF Ask, Request
<1>3. r \in Own /\ OwnStage(r) => Idle(r) /\ r \notin Outside
  BY <1>0, SelectionAssumption DEF OwnStage
<1>4. r \in Outside /\ OutsideStage(r) => Idle(r) /\ told[r] = "none"
  BY <1>0 DEF OutsideStage
<1> QED BY <1>1, <1>2, <1>3, <1>4 DEF Step

LEMMA OtherAnswersStep ==
    ASSUME TypeOK, NEW r \in Own, OtherAnswers(r)
    PROVE  Step(r)
<1>0. /\ events \in Seq(Event) /\ r \in Requests /\ r \notin Outside
      /\ server[r] = "other" /\ transfer[r] = "asked"
      /\ UNCHANGED <<ownerVars, server, more, watched, asker, got>>
  BY SelectionAssumption DEF TypeOK, OtherAnswers, Requests
<1>1. ASSUME NEW o \in Requests, o # r PROVE Untouched(o)
  <2>1. \A E : Box(events, o, E) => Box(AfterWrite(events, r, watched), o, E)
    BY <1>0, <1>1, EventsOfOthers
  <2>2. AfterWrite(events, r, watched) \in Seq(Event)
    BY <1>0, PropertyEvents
  <2>3. \A E : Box(events, o, E) => Box(events', o, E)
    BY <1>0, <1>1, <2>1, <2>2, EventsOfOthers DEF OtherAnswers
  <2>4. told' = told
    BY DEF OtherAnswers, Answer
  <2>5. /\ transfer'[o] = transfer[o] /\ supplied'[o] = supplied[o] /\ written'[o] = written[o]
        /\ prop'[o] = prop[o]
    BY <1>1 DEF OtherAnswers, TypeOK
  <2> QED BY <1>0, <2>3, <2>4, <2>5 DEF Untouched
<1>2. ASSUME OwnStage(r) PROVE OwnStage(r)' /\ Move(r)
  <2>1. asker[r] = "asked" /\ Fresh(r) /\ Box(events, r, {}) /\ r \notin more /\ ~Closed(r)
    BY <1>0, <1>2 DEF OwnStage, Idle, AskedUs, WholeValue, Announced, Between, Piece, Last, Quiet, Closed
  <2>2. /\ AfterWrite(events, r, watched) = events
        /\ \A ok \in BOOLEAN : Answer(events, r, ok) => Box(events', r, {Notify(r, ok)})
    BY <1>0, <2>1, EventsOf DEF Fresh, Watched
  <2>3. /\ asker'[r] = "asked" /\ got'[r] = <<>> /\ Status(r)' = Status(r) /\ r \notin more' /\ ~Watched(r)'
        /\ server'[r] = "other" /\ got' = got
    BY <1>0, <2>1 DEF Fresh, Watched, Status
  <2>4. CASE /\ transfer' = [transfer EXCEPT ![r] = "done"] /\ Answer(events, r, FALSE)
             /\ UNCHANGED <<supplied, written, prop>>
    <3>1. transfer'[r] = "done" /\ Fresh(r)'
      BY <1>0, <2>1, <2>4 DEF TypeOK, Fresh, Watched
    <3>2. Move(r)
      BY <1>0, <2>1, <2>3, <2>4 DEF Move, Offers1, TypeOK
    <3> QED BY <2>2, <2>3, <2>4, <3>1, <3>2 DEF OwnStage
  <2>5. ASSUME NEW n \in 0..1, n <= MaxUnits, transfer' = [transfer EXCEPT ![r] = "done"],
               supplied' = [supplied EXCEPT ![r] = n], prop' = [prop EXCEPT ![r] = Data(n)],
               Answer(events, r, TRUE)
        PROVE  OwnStage(r)' /\ Move(r)
    <3>1. transfer'[r] = "done" /\ supplied'[r] = n /\ prop'[r] = Data(n)
      BY <1>0, <2>5 DEF TypeOK
    <3>2. WholeValue(r)'
      BY <2>3, <3>1 DEF WholeValue
    <3>3. Move(r)
      BY <2>1, <2>3, <3>1 DEF Move, Offers1, Fresh
    <3> QED BY <2>2, <2>3, <2>5, <3>2, <3>3 DEF OwnStage
  <2>6. ASSUME NEW n \in 0..MaxUnits, transfer' = [transfer EXCEPT ![r] = "sending"],
               supplied' = [supplied EXCEPT ![r] = n], written' = [written EXCEPT ![r] = 0],
               prop' = [prop EXCEPT ![r] = Incr], Answer(events, r, TRUE)
        PROVE  OwnStage(r)' /\ Move(r)
    <3>1. transfer'[r] = "sending" /\ supplied'[r] = n /\ prop'[r] = Incr /\ written'[r] = 0
      BY <1>0, <2>6 DEF TypeOK
    <3>2. Announced(r)'
      BY <2>3, <3>1 DEF Announced
    <3>3. Move(r)
      BY <2>1, <2>3, <3>1, ValueTypes DEF Move, Offers1, Fresh
    <3> QED BY <2>2, <2>3, <2>6, <3>2, <3>3 DEF OwnStage
  <2> QED BY <2>2, <2>4, <2>5, <2>6 DEF OtherAnswers
<1> QED BY <1>0, <1>1, <1>2 DEF Step

LEMMA OtherContinuesStep ==
    ASSUME TypeOK, NEW r \in Own, OtherContinues(r)
    PROVE  Step(r)
<1>0. /\ events \in Seq(Event) /\ r \in Requests /\ r \notin Outside
      /\ server[r] = "other" /\ transfer[r] = "sending" /\ prop[r] = NoProp
      /\ events' = AfterWrite(events, r, watched)
      /\ UNCHANGED <<server, supplied, more, watched, told, asker, got>>
  BY SelectionAssumption DEF TypeOK, OtherContinues, Requests, askerVars
<1>1. ASSUME NEW o \in Requests, o # r PROVE Untouched(o)
  <2>1. \A E : Box(events, o, E) => Box(events', o, E)
    BY <1>0, <1>1, EventsOfOthers
  <2>2. transfer'[o] = transfer[o] /\ written'[o] = written[o] /\ prop'[o] = prop[o]
    BY <1>1 DEF OtherContinues, TypeOK
  <2> QED BY <1>0, <2>1, <2>2 DEF Untouched
<1>2. ASSUME OwnStage(r) PROVE OwnStage(r)' /\ Move(r)
  <2>1. /\ asker[r] = "asked" /\ Between(r) /\ Box(events, r, {}) /\ r \notin more /\ Watched(r) /\ Closed(r)
    BY <1>0, <1>2
    DEF OwnStage, Idle, AskedUs, WholeValue, Announced, Between, Piece, Last, Quiet, Closed, NoProp, Incr, Data
  <2>2. Box(events', r, {NewValue(r)})
    BY <1>0, <2>1, EventsOf DEF Watched
  <2>3. written[r] \in Nat /\ supplied[r] \in Nat /\ written[r] <= supplied[r]
    BY <1>0 DEF TypeOK
  <2>4. CASE written[r] < supplied[r]
    <3>1. written'[r] = written[r] + 1 /\ prop'[r] = Data(written[r] + 1) /\ transfer' = transfer
      BY <1>0, <2>4 DEF OtherContinues, TypeOK
    <3>2. Piece(r)'
      BY <1>0, <2>1, <2>3, <3>1 DEF Piece, Between
    <3>3. Move(r)
      BY <1>0, <2>1, <3>1 DEF Move, Stays, Closed, Status
    <3> QED BY <1>0, <2>1, <2>2, <3>2, <3>3 DEF OwnStage, Watched
  <2>5. CASE ~(written[r] < supplied[r])
    <3>1. written' = written /\ prop'[r] = Data(0) /\ transfer'[r] = "done" /\ written[r] = supplied[r]
      BY <1>0, <2>3, <2>5 DEF OtherContinues, TypeOK
    <3>2. Last(r)'
      BY <1>0, <2>1, <2>3, <3>1 DEF Last, Between
    <3>3. Move(r)
      BY <1>0, <2>1, <3>1 DEF Move, Stays, Closed, Status
    <3> QED BY <1>0, <2>1, <2>2, <3>2, <3>3 DEF OwnStage, Watched
  <2> QED BY <2>4, <2>5
<1> QED BY <1>0, <1>1, <1>2 DEF Step

\* the event at the head of the queue is about one conversion
LEMMA HeadOf ==
    ASSUME TypeOK, NEW t, HeadIs(t), t # "Clear", NEW r \in Requests, Head(events).req = r,
           r \in Own => t # "Deleted"
    PROVE  /\ Rest \in Seq(Event)
           /\ \A E : Box(events, r, E) => E = {Head(events)} /\ Box(Rest, r, {})
           /\ \A o, E : o # r /\ Box(events, o, E) => Box(Rest, o, E)
           /\ ~Quiet(r)
<1>1. events \in Seq(Event) /\ events # <<>> /\ Head(events).type = t
  BY DEF TypeOK, HeadIs
<1>2. Rest = Tail(events) /\ Rest \in Seq(Event)
  BY <1>1 DEF Rest
<1>3. About(Head(events), r) /\ \A o : o # r => ~About(Head(events), o)
  BY <1>1 DEF About
<1>4. \A E : Box(events, r, E) => E = {Head(events)} /\ Box(Rest, r, {})
  BY <1>1, <1>2, <1>3, BoxRest
<1>5. \A o, E : o # r /\ Box(events, o, E) => Box(Rest, o, E)
  BY <1>1, <1>2, <1>3, BoxRest
<1>6. ~Quiet(r)
  <2>1. {Head(events)} # {}
    OBVIOUS
  <2> QED BY <1>4, <2>1 DEF Quiet
<1> QED BY <1>2, <1>4, <1>5, <1>6

\* answering a request
LEMMA RequestStep ==
    ASSUME TypeOK, HandleRequest
    PROVE  \E r \in Requests : StepOfOwner(r)
<1>1. PICK r : r = Head(events).req
  OBVIOUS
<1>2. /\ r \in Requests /\ Rest \in Seq(Event) /\ Head(events).type = "Request"
      /\ HeadIs("Request")
      /\ UNCHANGED <<ownerVars, server, asker, got>>
  BY <1>1, RestEvents DEF HandleRequest, HeadIs
<1>3. /\ \A E : Box(events, r, E) => E = {Head(events)} /\ Box(Rest, r, {})
      /\ \A o, E : o # r /\ Box(events, o, E) => Box(Rest, o, E)
      /\ ~Quiet(r)
  BY <1>1, <1>2, HeadOf
<1>a. r \in Own => r \notin Outside
  BY SelectionAssumption
<1>4. \/ Reject(r)
      \/ \E n \in 0..1 : n <= MaxUnits /\ SendWhole(r, n)
      \/ \E n \in 0..MaxUnits, cont \in BOOLEAN : SendIncremental(r, n, cont)
  BY <1>1 DEF HandleRequest
<1>5. ASSUME NEW o \in Requests, o # r, WindowOf[o] # WindowOf[r] PROVE Untouched(o)
  <2>1. ASSUME NEW W PROVE AfterWrite(Rest, r, W) \in Seq(Event)
                           /\ \A E : Box(events, o, E) => Box(AfterWrite(Rest, r, W), o, E)
    BY <1>2, <1>3, <1>5, PropertyEvents, EventsOfOthers
  <2>2. ASSUME NEW q \in Seq(Event), \A E : Box(events, o, E) => Box(q, o, E), NEW ok \in BOOLEAN, Answer(q, r, ok)
        PROVE  (\A E : Box(events, o, E) => Box(events', o, E)) /\ (o \in Outside => told'[o] = told[o])
    <3>1. o \in Outside => told'[o] = told[o]
      BY <1>5, <2>2 DEF Answer, TypeOK
    <3> QED BY <1>2, <1>5, <2>2, <3>1, EventsOfOthers
  <2>3. CASE Reject(r)
    BY <1>2, <1>3, <1>5, <2>2, <2>3 DEF Untouched, Reject, TypeOK
  <2>4. ASSUME NEW n, SendWhole(r, n) PROVE Untouched(o)
    <3>1. (\A E : Box(events, o, E) => Box(events', o, E)) /\ (o \in Outside => told'[o] = told[o])
      BY <2>1, <2>2, <2>4 DEF SendWhole
    <3> QED BY <1>2, <1>5, <2>4, <3>1 DEF Untouched, SendWhole, Write, TypeOK
  <2>5. ASSUME NEW n, NEW cont \in BOOLEAN, SendIncremental(r, n, cont) PROVE Untouched(o)
    <3>1. (\A E : Box(events, o, E) => Box(events', o, E)) /\ (o \in Outside => told'[o] = told[o])
      BY <2>1, <2>2, <2>5 DEF SendIncremental
    <3>2. /\ o \in more' <=> o \in more
          /\ WindowOf[o] \in watched' <=> WindowOf[o] \in watched
      BY <1>5, <2>5 DEF SendIncremental, Watch
    <3> QED BY <1>2, <1>5, <2>5, <3>1, <3>2 DEF Untouched, SendIncremental, Write, TypeOK
  <2> QED BY <1>4, <2>3, <2>4, <2>5
<1>6. ASSUME \/ r \in Own /\ OwnStage(r) /\ "own_incremental" \notin Env
             \/ r \in Outside /\ OutsideStage(r)
      PROVE  /\ r \in Own => OwnStage(r)' /\ Move(r)
             /\ r \in Outside => OutsideStage(r)' /\ Move(r)
  <2>1. /\ AskedUs(r) /\ Box(Rest, r, {})
        /\ r \in Own => asker[r] = "asked"
        /\ r \in Outside => asker[r] \in {"asked", "gone"} /\ told[r] = "none"
    <3>1. \A ok \in BOOLEAN : Head(events) # Notify(r, ok)
      BY <1>2 DEF Notify
    <3>2. Head(events) # NewValue(r) /\ Head(events) # Deleted(r)
      BY <1>2 DEF NewValue, Deleted
    <3>3. /\ ~Box(events, r, {Notify(r, TRUE)}) /\ ~Box(events, r, {Notify(r, FALSE)})
          /\ ~Box(events, r, {NewValue(r)}) /\ ~Box(events, r, {Deleted(r)})
      <4>1. \A x : {x} = {Head(events)} => x = Head(events)
        OBVIOUS
      <4> QED BY <1>3, <3>1, <3>2, <4>1
    <3>4. ~Idle(r)
      BY <1>3 DEF Idle
    <3>5. r \in Own => AskedUs(r) /\ asker[r] = "asked"
      BY <1>3, <1>6, <1>a, <3>3, <3>4 DEF OwnStage
    <3>6. r \in Outside => AskedUs(r) /\ asker[r] \in {"asked", "gone"} /\ told[r] = "none"
      BY <1>3, <1>6, <1>a, <3>3, <3>4 DEF OutsideStage
    <3> QED BY <1>2, <1>3, <1>6, <3>5, <3>6 DEF AskedUs
  <2>2. /\ server[r] = "ours" /\ transfer[r] = "none" /\ supplied[r] = 0 /\ written[r] = 0 /\ got[r] = <<>>
        /\ prop[r] = NoProp /\ r \notin more /\ WindowOf[r] \notin watched /\ ~Closed(r)
    BY <2>1 DEF AskedUs, Fresh, Watched, Closed
  <2>3. AfterWrite(Rest, r, watched) = Rest
    BY <1>2, <2>1, <2>2, EventsOf
  <2>4. ASSUME NEW ok \in BOOLEAN, Answer(Rest, r, ok)
        PROVE  /\ r \in Own => Box(events', r, {Notify(r, ok)})
               /\ r \in Outside =>
                     /\ Quiet(r)'
                     /\ asker[r] = "gone" => told'[r] = "none"
                     /\ asker[r] = "asked" => told'[r] = IF ok THEN "granted" ELSE "refused"
    <3>1. r \in Own => Box(events', r, {Notify(r, ok)})
      BY <1>2, <2>1, <2>4, EventsOf
    <3>2. ASSUME r \in Outside
          PROVE  /\ Quiet(r)'
                 /\ asker[r] = "gone" => told'[r] = "none"
                 /\ asker[r] = "asked" => told'[r] = IF ok THEN "granted" ELSE "refused"
      <4>1. /\ events' = Rest
            /\ told' = IF asker[r] = "gone" THEN told
                       ELSE [told EXCEPT ![r] = IF ok THEN "granted" ELSE "refused"]
        BY <1>a, <2>4, <3>2 DEF Answer
      <4>2. Quiet(r)'
        BY <2>1, <4>1 DEF Quiet
      <4>3. told[r] = "none" /\ told \in [Outside -> {"none", "granted", "refused"}]
        BY <2>1, <3>2 DEF TypeOK
      <4> QED BY <3>2, <4>1, <4>2, <4>3
    <3> QED BY <3>1, <3>2
  <2>5. asker'[r] = asker[r] /\ got'[r] = <<>> /\ Status(r)' = Status(r) /\ server'[r] = "ours" /\ got' = got
    BY <1>2, <2>2 DEF Status
  <2>6. CASE Reject(r)
    <3>1. transfer'[r] = "done" /\ Fresh(r)'
      BY <1>2, <2>2, <2>6 DEF TypeOK, Fresh, Watched, Reject
    <3>2. Move(r)
      BY <1>2, <2>2, <2>5, <2>6 DEF Move, Offers1, TypeOK, Reject
    <3>3. /\ r \in Own => Box(events', r, {Notify(r, FALSE)})
          /\ r \in Outside => /\ Quiet(r)'
                              /\ asker[r] = "gone" => told'[r] = "none"
                              /\ asker[r] = "asked" => told'[r] = "refused"
      BY <2>4, <2>6 DEF Reject
    <3> QED BY <2>1, <2>5, <3>1, <3>2, <3>3 DEF OwnStage, OutsideStage, Fresh
  <2>7. ASSUME NEW n \in 0..1, n <= MaxUnits, SendWhole(r, n)
        PROVE  /\ r \in Own => OwnStage(r)' /\ Move(r)
               /\ r \in Outside => OutsideStage(r)' /\ Move(r)
    <3>1. /\ transfer'[r] = "done" /\ supplied'[r] = n /\ more' = more /\ watched' = watched
          /\ asker[r] # "gone" => prop'[r] = Data(n)
          /\ asker[r] = "gone" => prop'[r] = NoProp
      BY <1>2, <2>2, <2>7 DEF TypeOK, SendWhole, Write
    <3>2. asker[r] # "gone" => WholeValue(r)'
      BY <2>5, <3>1 DEF WholeValue
    <3>3. Move(r)
      BY <2>2, <2>5, <3>1 DEF Move, Offers1
    <3>4. /\ r \in Own => Box(events', r, {Notify(r, TRUE)})
          /\ r \in Outside => /\ Quiet(r)'
                              /\ asker[r] = "gone" => told'[r] = "none"
                              /\ asker[r] = "asked" => told'[r] = "granted"
      BY <2>3, <2>4, <2>7 DEF SendWhole
    <3>5. r \notin more' /\ ~Watched(r)'
      BY <2>2, <3>1 DEF Watched
    <3> QED BY <2>1, <2>5, <3>1, <3>2, <3>3, <3>4, <3>5 DEF OwnStage, OutsideStage
  <2>8. ASSUME NEW n \in 0..MaxUnits, NEW cont \in BOOLEAN, SendIncremental(r, n, cont)
        PROVE  /\ r \in Own => OwnStage(r)' /\ Move(r)
               /\ r \in Outside => OutsideStage(r)' /\ Move(r)
    <3>1. r \notin Own /\ r \in Outside
      BY <1>2, <1>6, <1>a, <2>8 DEF SendIncremental, Requests
    <3>2. /\ transfer'[r] = "sending" /\ supplied'[r] = n /\ written'[r] = 0
          /\ asker[r] # "gone" => prop'[r] = Incr /\ WindowOf[r] \in watched'
          /\ asker[r] = "gone" => prop'[r] = NoProp /\ WindowOf[r] \notin watched'
      BY <1>2, <2>2, <2>8 DEF TypeOK, SendIncremental, Write, Watch
    <3>3. asker[r] # "gone" => Announced(r)'
      BY <2>5, <3>2 DEF Announced
    <3>4. Move(r)
      BY <2>2, <2>5, <3>2, ValueTypes DEF Move, Offers1
    <3>5. AfterWrite(Rest, r, watched') = Rest
      BY <1>2, <2>1, <3>1, EventsOf
    <3>6. /\ Quiet(r)'
          /\ asker[r] = "gone" => told'[r] = "none"
          /\ asker[r] = "asked" => told'[r] = "granted"
      BY <2>4, <2>8, <3>1, <3>5 DEF SendIncremental
    <3> QED BY <2>1, <2>5, <3>1, <3>2, <3>3, <3>4, <3>6 DEF OutsideStage, Watched
  <2> QED BY <1>4, <2>6, <2>7, <2>8
<1>7. ASSUME r \in Own, OwnStage(r), "own_incremental" \notin Env PROVE OwnStage(r)' /\ Move(r)
  BY <1>6, <1>7
<1>8. ASSUME r \in Outside, OutsideStage(r) PROVE OutsideStage(r)' /\ Move(r)
  BY <1>6, <1>8
<1>9. \A o \in Requests : o # r /\ WindowOf[o] # WindowOf[r] => Untouched(o)
  BY <1>5
<1>10. StepOfOwner(r)
  BY <1>7, <1>8, <1>9 DEF StepOfOwner
<1> QED BY <1>2, <1>10

\* the requestor has deleted the property
LEMMA DeletedStep ==
    ASSUME TypeOK, HandleDeleted
    PROVE  \E r \in Requests : Step(r)
<1>1. PICK r : r = Head(events).req
  OBVIOUS
<1>2. /\ r \in Requests /\ Rest \in Seq(Event) /\ Head(events).type = "Deleted"
      /\ HeadIs("Deleted") /\ events \in Seq(Event) /\ events # <<>>
      /\ UNCHANGED <<server, told, asker, got>>
  BY <1>1, RestEvents DEF HandleDeleted, HeadIs, askerVars, TypeOK
<1>3. \/ /\ server[r] = "ours" /\ transfer[r] = "sending"
         /\ \/ Unwritten(r) /\ WriteNext(r, supplied[r]) /\ UNCHANGED more
            \/ /\ ~Unwritten(r) /\ r \in more
               /\ \E s \in (supplied[r] + 1)..MaxUnits, cont \in BOOLEAN :
                     WriteNext(r, s) /\ more' = IF cont THEN more ELSE more \ {r}
            \/ ~Unwritten(r) /\ EndTransfer(r)
      \/ /\ ~(server[r] = "ours" /\ transfer[r] = "sending")
         /\ events' = Rest
         /\ UNCHANGED <<transfer, supplied, written, more, prop, watched>>
  BY <1>1 DEF HandleDeleted
<1>4. ASSUME NEW o, o # r \/ o \in Own, NEW E, Box(events, o, E) PROVE Box(Rest, o, E)
  <2>1. ~About(Head(events), o)
    BY <1>1, <1>2, <1>4 DEF About
  <2> QED BY <1>2, <1>4, <2>1, BoxRest DEF Rest
<1>5. ASSUME NEW o \in Requests, o # r, WindowOf[o] # WindowOf[r] PROVE Untouched(o)
  <2>1. \A E : Box(events, o, E) => Box(Rest, o, E)
    BY <1>4, <1>5
  <2>2. \A E : Box(events, o, E) => Box(AfterWrite(Rest, r, watched), o, E)
    BY <1>2, <1>5, <2>1, EventsOfOthers
  <2>3. ASSUME NEW s, WriteNext(r, s), more' \in {more, more \ {r}} PROVE Untouched(o)
    BY <1>2, <1>5, <2>2, <2>3 DEF WriteNext, Write, Untouched, TypeOK
  <2>4. CASE EndTransfer(r)
    BY <1>2, <1>5, <2>2, <2>4 DEF EndTransfer, Unwatch, Write, Untouched, TypeOK
  <2>5. CASE events' = Rest /\ UNCHANGED <<transfer, supplied, written, more, prop, watched>>
    BY <1>2, <2>1, <2>5 DEF Untouched
  <2> QED BY <1>3, <2>3, <2>4, <2>5
<1>6. ASSUME r \in Own, OwnStage(r) PROVE OwnStage(r)' /\ Move(r)
  <2>1. ~(server[r] = "ours" /\ transfer[r] = "sending")
    BY <1>6 DEF OwnStage, Idle, AskedUs, WholeValue, Announced, Between, Piece, Last
  <2>2. Untouched(r)
    BY <1>2, <1>3, <1>4, <1>6, <2>1 DEF Untouched
  <2>3. Move(r)
    BY <2>2 DEF Move, Stays, Closed, Status, Untouched
  <2> QED BY <1>6, <2>2, <2>3, UntouchedStage
<1>7. ASSUME r \in Outside, OutsideStage(r) PROVE OutsideStage(r)' /\ Move(r)
  <2>0. r \notin Own
    BY <1>7, SelectionAssumption
  <2>1. /\ \A E : Box(events, r, E) => E = {Head(events)} /\ Box(Rest, r, {})
        /\ ~Quiet(r)
    BY <1>1, <1>2, <2>0, HeadOf
  <2>2. \A w \in Offers : ~Box(events, r, {Request(r, w)})
    <3>1. \A w \in Offers : {Request(r, w)} # {Head(events)}
      BY <1>2 DEF Request
    <3> QED BY <2>1, <3>1
  <2>3. /\ told[r] = "none" /\ Box(events, r, {Deleted(r)}) /\ (r \in more => transfer[r] = "sending")
        /\ \/ asker[r] = "reading" /\ server[r] = "ours" /\ Watched(r) /\ Between(r)
           \/ /\ asker[r] = "gone" /\ prop[r] = NoProp /\ ~Watched(r)
              /\ transfer[r] = "done" \/ (transfer[r] = "sending" /\ server[r] = "ours")
    BY <1>7, <2>1, <2>2 DEF OutsideStage, Idle, AskedUs
  <2>4. Box(Rest, r, {}) /\ AfterWrite(Rest, r, watched) = Rest
    BY <1>2, <1>7, <2>1, <2>3, EventsOf
  <2>5. written[r] \in Nat /\ supplied[r] \in Nat /\ written[r] <= supplied[r] /\ Status(r)' = Status(r)
    BY <1>2 DEF TypeOK, Status
  <2>6. ASSUME NEW s \in Nat, WriteNext(r, s), more' \in {more, more \ {r}}, transfer[r] = "sending"
        PROVE  OutsideStage(r)'
    <3>1. /\ written'[r] = written[r] + 1 /\ transfer' = transfer /\ watched' = watched
          /\ asker[r] = "gone" => prop' = prop
          /\ asker[r] # "gone" => prop'[r] = Data(written[r] + 1)
          /\ events' = Rest
      BY <1>2, <2>4, <2>6 DEF WriteNext, Write, TypeOK
    <3>2. Quiet(r)' /\ (Watched(r)' <=> Watched(r)) /\ (r \in more' => transfer'[r] = "sending")
      BY <2>4, <2>6, <3>1 DEF Quiet, Watched
    <3>3. CASE asker[r] = "gone"
      <4>1. /\ asker'[r] = "gone" /\ told'[r] = "none" /\ prop'[r] = NoProp /\ ~Watched(r)'
            /\ transfer'[r] = "sending" /\ server'[r] = "ours"
        BY <1>2, <2>3, <2>6, <3>1, <3>2, <3>3
      <4> QED BY <3>2, <4>1 DEF OutsideStage
    <3>4. CASE asker[r] = "reading"
      <4>1. /\ asker'[r] = "reading" /\ told'[r] = "none" /\ server'[r] = "ours" /\ Watched(r)'
        BY <1>2, <2>3, <3>2, <3>4
      <4>2. Piece(r)'
        <5>1. Between(r)
          BY <2>3, <3>4
        <5>2. written[r] + 1 >= 1 /\ (written[r] + 1) - 1 = written[r]
          BY <2>5
        <5> QED BY <1>2, <2>6, <3>1, <3>4, <5>1, <5>2 DEF Piece, Between
      <4> QED BY <3>2, <4>1, <4>2 DEF OutsideStage
    <3> QED BY <2>3, <3>3, <3>4
  <2>7. CASE transfer[r] = "sending" /\ WriteNext(r, supplied[r]) /\ UNCHANGED more
    <3>1. Move(r)
      BY <1>2, <2>5, <2>7 DEF Move, Stays, Closed, WriteNext, TypeOK
    <3> QED BY <2>5, <2>6, <2>7, <3>1
  <2>8. ASSUME transfer[r] = "sending", r \in more, NEW s \in (supplied[r] + 1)..MaxUnits, WriteNext(r, s),
               more' \in {more, more \ {r}}
        PROVE  OutsideStage(r)' /\ Move(r)
    <3>1. s \in Nat /\ s >= supplied[r]
      BY <2>5, ValueTypes
    <3>2. supplied'[r] = s /\ ~Closed(r)
      BY <1>2, <2>8 DEF WriteNext, TypeOK, Closed
    <3>3. Move(r)
      BY <1>2, <2>5, <3>1, <3>2 DEF Move, Offers1
    <3> QED BY <2>6, <2>8, <3>1, <3>3
  <2>9. CASE transfer[r] = "sending" /\ ~Unwritten(r) /\ EndTransfer(r)
    <3>1. /\ written' = written /\ supplied' = supplied /\ transfer'[r] = "done"
          /\ asker[r] = "gone" => prop' = prop
          /\ asker[r] # "gone" => prop'[r] = Data(0)
          /\ events' = Rest /\ ~Watched(r)' /\ r \notin more' /\ Quiet(r)'
      BY <1>2, <2>4, <2>9 DEF EndTransfer, Unwatch, Watched, Write, TypeOK, Quiet
    <3>2. written[r] = supplied[r]
      BY <2>5, <2>9 DEF Unwritten
    <3>3. Move(r)
      <4>1. CASE r \in more
        BY <1>2, <2>5, <2>9, <3>1, <4>1 DEF Move, Offers1, Closed
      <4>2. CASE r \notin more
        BY <1>2, <2>5, <2>9, <3>1, <4>2 DEF Move, Stays, Closed
      <4> QED BY <4>1, <4>2
    <3>4. CASE asker[r] = "gone"
      <4>1. /\ asker'[r] = "gone" /\ told'[r] = "none" /\ prop'[r] = NoProp
        BY <1>2, <2>3, <3>1, <3>4
      <4> QED BY <3>1, <3>3, <4>1 DEF OutsideStage
    <3>5. CASE asker[r] = "reading"
      <4>1. asker'[r] = "reading" /\ told'[r] = "none" /\ server'[r] = "ours"
        BY <1>2, <2>3, <3>5
      <4>2. Last(r)'
        BY <1>2, <2>3, <3>1, <3>2, <3>5 DEF Last, Between
      <4> QED BY <3>1, <3>3, <4>1, <4>2 DEF OutsideStage
    <3> QED BY <2>3, <3>4, <3>5
  <2>10. CASE ~(server[r] = "ours" /\ transfer[r] = "sending") /\ events' = Rest
              /\ UNCHANGED <<transfer, supplied, written, more, prop, watched>>
    <3>1. asker[r] = "gone" /\ prop[r] = NoProp /\ ~Watched(r) /\ transfer[r] = "done"
      BY <2>3, <2>10 DEF Between
    <3>2. Quiet(r)' /\ ~Watched(r)'
      BY <2>4, <2>10, <3>1 DEF Quiet, Watched
    <3>3. Move(r)
      BY <1>2, <2>5, <2>10 DEF Move, Stays, Closed
    <3> QED BY <1>2, <2>3, <2>10, <3>1, <3>2, <3>3 DEF OutsideStage
  <2> QED BY <1>3, <2>7, <2>8, <2>9, <2>10
<1>8. Step(r)
  BY <1>5, <1>6, <1>7 DEF Step
<1> QED BY <1>2, <1>8

\* a getter reads a piece
LEMMA NewValueStep ==
    ASSUME TypeOK, HandleNewValue
    PROVE  \E r \in Requests : Step(r)
<1>1. PICK r : r = Head(events).req
  OBVIOUS
<1>2. /\ r \in Own /\ r \in Requests /\ r \notin Outside
      /\ Rest \in Seq(Event) /\ Head(events).type = "NewValue" /\ HeadIs("NewValue")
      /\ UNCHANGED <<server, transfer, supplied, written, more, watched, told>>
  BY <1>1, RestEvents, SelectionAssumption DEF HandleNewValue, HeadIs, transferVars, Requests
<1>3. /\ \A E : Box(events, r, E) => E = {Head(events)} /\ Box(Rest, r, {})
      /\ \A o, E : o # r /\ Box(events, o, E) => Box(Rest, o, E)
      /\ ~Quiet(r)
  BY <1>1, <1>2, HeadOf
<1>4. IF asker[r] = "asked"
      THEN /\ prop' = [prop EXCEPT ![r] = NoProp]
           /\ events' = AfterDelete(Rest, r, watched)
           /\ IF prop[r] \in {NoProp, Data(0)}
              THEN asker' = [asker EXCEPT ![r] = "ended"] /\ UNCHANGED got
              ELSE got' = [got EXCEPT ![r] = Taken(r, prop[r])] /\ UNCHANGED asker
      ELSE events' = Rest /\ UNCHANGED <<prop, asker, got>>
  BY <1>1 DEF HandleNewValue
<1>5. ASSUME NEW o \in Requests, o # r PROVE Untouched(o)
  <2>1. \A E : Box(events, o, E) => Box(events', o, E)
    BY <1>2, <1>3, <1>4, <1>5, EventsOfOthers
  <2>2. prop'[o] = prop[o] /\ asker'[o] = asker[o] /\ got'[o] = got[o]
    BY <1>4, <1>5 DEF TypeOK
  <2> QED BY <1>2, <2>1, <2>2 DEF Untouched
<1>6. ASSUME OwnStage(r) PROVE OwnStage(r)' /\ Move(r)
  <2>1. /\ \A ok \in BOOLEAN : ~Box(events, r, {Notify(r, ok)})
        /\ \A w \in Offers : ~Box(events, r, {Request(r, w)})
    <3>1. /\ \A ok \in BOOLEAN : {Notify(r, ok)} # {Head(events)}
          /\ \A w \in Offers : {Request(r, w)} # {Head(events)}
      BY <1>2 DEF Notify, Request
    <3> QED BY <1>3, <3>1
  <2>2. /\ asker[r] = "asked" /\ Watched(r) /\ server[r] = "other" /\ r \notin more
        /\ Piece(r) \/ Last(r)
        /\ Box(Rest, r, {})
    BY <1>3, <1>6, <2>1 DEF OwnStage, Idle, AskedUs
  <2>3. Quiet(r)' /\ prop'[r] = NoProp
    <3>1. events' = AfterDelete(Rest, r, watched) /\ prop'[r] = NoProp
      BY <1>2, <1>4, <2>2 DEF TypeOK
    <3>2. Box(AfterDelete(Rest, r, watched), r, {})
      BY <1>2, <2>2, EventsOf
    <3> QED BY <3>1, <3>2 DEF Quiet
  <2>4. /\ written[r] \in Nat /\ supplied[r] \in Nat /\ written[r] <= supplied[r]
        /\ Closed(r)' <=> Closed(r)
    BY <1>2 DEF TypeOK, Closed
  <2>5. CASE Piece(r)
    <3>1. prop[r].kind = "data" /\ prop[r].unit = written[r] /\ prop[r] \notin {NoProp, Data(0)}
      BY <2>4, <2>5 DEF Piece, Data, NoProp
    <3>2. got'[r] = Append(Units(written[r] - 1), written[r]) /\ asker' = asker
      BY <1>2, <1>4, <2>2, <2>4, <2>5, <3>1 DEF Taken, Piece, TypeOK
    <3>3. got'[r] = Units(written[r]) /\ Len(got[r]) = written[r] - 1
      <4>1. written[r] - 1 \in Nat /\ (written[r] - 1) + 1 = written[r]
        BY <2>4, <2>5 DEF Piece
      <4> QED BY <2>5, <3>2, <4>1, UnitsLength DEF Piece
    <3>4. Between(r)'
      BY <1>2, <2>3, <2>5, <3>3 DEF Between, Piece
    <3>5. Move(r)
      <4>1. written[r] \in Len(got[r])..supplied[r]
        BY <2>4, <3>3
      <4> QED BY <1>2, <2>2, <2>4, <3>2, <3>3, <4>1 DEF Move, Receives
    <3> QED BY <1>2, <2>2, <2>3, <3>2, <3>4, <3>5 DEF OwnStage, Watched
  <2>6. CASE Last(r)
    <3>1. asker'[r] = "ended" /\ got' = got
      BY <1>2, <1>4, <2>2, <2>6 DEF Last, TypeOK
    <3>2. Move(r)
      <4>1. supplied[r] \in Len(got[r])..supplied[r] /\ got'[r] = Units(supplied[r])
        BY <2>4, <2>6, <3>1, UnitsLength DEF Last
      <4> QED BY <1>2, <2>2, <2>4, <2>6, <3>1, <4>1 DEF Move, Receives, Closed, Last
    <3> QED BY <1>2, <2>2, <2>3, <2>6, <3>1, <3>2 DEF OwnStage, Last
  <2> QED BY <2>2, <2>5, <2>6
<1>7. Step(r)
  BY <1>2, <1>5, <1>6 DEF Step
<1> QED BY <1>2, <1>7

\* a getter is told of the answer
LEMMA NotifyStep ==
    ASSUME TypeOK, HandleNotify
    PROVE  \E r \in Requests : Step(r)
<1>1. PICK r : r = Head(events).req
  OBVIOUS
<1>2. /\ r \in Own /\ r \in Requests /\ r \notin Outside
      /\ Rest \in Seq(Event) /\ Head(events).type = "Notify" /\ HeadIs("Notify")
      /\ UNCHANGED <<server, transfer, supplied, written, more, told>>
  BY <1>1, RestEvents, SelectionAssumption DEF HandleNotify, HeadIs, transferVars, Requests
<1>3. /\ \A E : Box(events, r, E) => E = {Head(events)} /\ Box(Rest, r, {})
      /\ \A o, E : o # r /\ Box(events, o, E) => Box(Rest, o, E)
      /\ ~Quiet(r)
  BY <1>1, <1>2, HeadOf
<1>4. IF asker[r] # "asked"
      THEN events' = Rest /\ UNCHANGED <<prop, asker, got, watched>>
      ELSE IF ~Head(events).ok
      THEN /\ asker' = [asker EXCEPT ![r] = "ended"]
           /\ events' = Rest
           /\ UNCHANGED <<prop, got, watched>>
      ELSE /\ watched' = watched \cup {WindowOf[r]}
           /\ prop' = [prop EXCEPT ![r] = NoProp]
           /\ events' = AfterDelete(Rest, r, watched')
           /\ IF Whole(prop[r])
              THEN /\ asker' = [asker EXCEPT ![r] = "ended"]
                   /\ got' = IF prop[r].kind = "data" THEN [got EXCEPT ![r] = Taken(r, prop[r])] ELSE got
              ELSE UNCHANGED <<asker, got>>
  BY <1>1 DEF HandleNotify
<1>5. ASSUME NEW o \in Requests, o # r, WindowOf[o] # WindowOf[r] PROVE Untouched(o)
  <2>1. \A W, E : Box(events, o, E) => Box(AfterDelete(Rest, r, W), o, E)
    BY <1>2, <1>3, <1>5, EventsOfOthers
  <2>2. \A E : Box(events, o, E) => Box(events', o, E)
    BY <1>3, <1>4, <1>5, <2>1
  <2>3. prop'[o] = prop[o] /\ asker'[o] = asker[o] /\ got'[o] = got[o]
    BY <1>4, <1>5 DEF TypeOK
  <2>4. WindowOf[o] \in watched' <=> WindowOf[o] \in watched
    BY <1>4, <1>5
  <2> QED BY <1>2, <2>2, <2>3, <2>4 DEF Untouched
<1>6. ASSUME OwnStage(r) PROVE OwnStage(r)' /\ Move(r)
  <2>1. /\ ~Box(events, r, {NewValue(r)})
        /\ \A w \in Offers : ~Box(events, r, {Request(r, w)})
        /\ \A ok \in BOOLEAN : Box(events, r, {Notify(r, ok)}) => Head(events).ok = ok
    <3>1. /\ {NewValue(r)} # {Head(events)}
          /\ \A w \in Offers : {Request(r, w)} # {Head(events)}
      BY <1>2 DEF NewValue, Request
    <3>2. \A ok \in BOOLEAN : {Notify(r, ok)} = {Head(events)} => Head(events).ok = ok
      <4>1. \A ok \in BOOLEAN : Notify(r, ok).ok = ok
        BY DEF Notify
      <4>2. \A x, y : {x} = {y} => x = y
        OBVIOUS
      <4> QED BY <4>1, <4>2
    <3> QED BY <1>3, <3>1, <3>2
  <2>2. /\ asker[r] = "asked" /\ r \notin more /\ Box(Rest, r, {})
        /\ \/ transfer[r] = "done" /\ Fresh(r) /\ Head(events).ok = FALSE
           \/ /\ Head(events).ok = TRUE
              /\ WholeValue(r) \/ (server[r] = "other" /\ Announced(r))
    BY <1>3, <1>6, <2>1 DEF OwnStage, Idle, AskedUs
  <2>3. /\ written[r] \in Nat /\ supplied[r] \in Nat /\ written[r] <= supplied[r]
        /\ Closed(r)' <=> Closed(r)
    BY <1>2 DEF TypeOK, Closed
  <2>4. CASE transfer[r] = "done" /\ Fresh(r) /\ Head(events).ok = FALSE
    <3>1. asker'[r] = "ended" /\ got' = got /\ events' = Rest
      BY <1>2, <1>4, <2>2, <2>4 DEF TypeOK
    <3>2. Move(r)
      <4>1. supplied[r] \in Len(got[r])..supplied[r] /\ got'[r] = Units(supplied[r])
        BY <2>3, <2>4, <3>1, UnitsLength DEF Fresh
      <4> QED BY <1>2, <2>2, <2>3, <2>4, <3>1, <4>1 DEF Move, Receives, Closed
    <3> QED BY <1>2, <2>2, <2>4, <3>1, <3>2 DEF OwnStage, Quiet
  <2>5. CASE Head(events).ok = TRUE
    <3>1. /\ WindowOf[r] \in watched' /\ prop'[r] = NoProp /\ events' = AfterDelete(Rest, r, watched')
          /\ IF Whole(prop[r])
             THEN /\ asker' = [asker EXCEPT ![r] = "ended"]
                  /\ got' = IF prop[r].kind = "data" THEN [got EXCEPT ![r] = Taken(r, prop[r])] ELSE got
             ELSE UNCHANGED <<asker, got>>
      BY <1>2, <1>4, <2>2, <2>5 DEF TypeOK
    <3>2. Quiet(r)'
      BY <1>2, <2>2, <3>1, EventsOf DEF Quiet
    <3>3. CASE WholeValue(r)
      <4>1. Whole(prop[r]) /\ prop[r].kind = "data" /\ prop[r].unit = supplied[r]
        BY <3>3 DEF WholeValue, Whole, Data
      <4>2. asker'[r] = "ended" /\ got'[r] = IF supplied[r] = 0 THEN <<>> ELSE Append(<<>>, supplied[r])
        BY <1>2, <2>3, <3>1, <3>3, <4>1 DEF TypeOK, Taken, WholeValue
      <4>3. supplied[r] = 0 \/ supplied[r] = 1
        BY <2>3, <3>3 DEF WholeValue
      <4>4. got'[r] = Units(supplied[r]) /\ Len(got[r]) = 0
        <5>1. Units(0) = <<>> /\ Append(<<>>, 1) = Units(1)
          BY OneUnit
        <5> QED BY <3>3, <4>2, <4>3, <5>1 DEF WholeValue
      <4>5. Move(r)
        <5>1. supplied[r] \in Len(got[r])..supplied[r]
          BY <2>3, <4>4
        <5> QED BY <1>2, <2>2, <2>3, <3>3, <4>2, <4>4, <5>1 DEF Move, Receives, Closed, WholeValue
      <4> QED BY <1>2, <2>2, <3>2, <3>3, <4>2, <4>5 DEF OwnStage, WholeValue
    <3>4. CASE server[r] = "other" /\ Announced(r)
      <4>1. asker' = asker /\ got' = got
        BY <3>1, <3>4 DEF Announced, Whole, Incr
      <4>2. Between(r)'
        BY <1>2, <3>1, <3>4, <4>1, UnitsLength DEF Announced, Between
      <4>3. Move(r)
        BY <1>2, <2>3, <4>1 DEF Move, Stays, Status
      <4> QED BY <1>2, <2>2, <3>1, <3>2, <3>4, <4>1, <4>2, <4>3 DEF OwnStage, Watched
    <3> QED BY <2>2, <2>5, <3>3, <3>4 DEF Fresh
  <2> QED BY <2>2, <2>4, <2>5
<1>7. Step(r)
  BY <1>2, <1>5, <1>6 DEF Step
<1> QED BY <1>2, <1>7

\* another client reads a value or learns of the refusal
LEMMA ClientStep ==
    ASSUME TypeOK, NEW r \in Outside, ClientReads(r)
    PROVE  Step(r)
<1>2. /\ r \notin Own /\ r \in Requests /\ events \in Seq(Event)
      /\ told' = [told EXCEPT ![r] = "none"]
      /\ UNCHANGED <<server, transfer, supplied, written, more, watched>>
  BY SelectionAssumption DEF ClientReads, transferVars, Requests, TypeOK
<1>3. \/ /\ asker[r] = "asked" /\ told[r] = "refused"
         /\ asker' = [asker EXCEPT ![r] = "ended"] /\ UNCHANGED <<prop, got, events>>
      \/ /\ (asker[r] = "asked" /\ told[r] = "granted") \/ (asker[r] = "reading" /\ prop[r] # NoProp)
         /\ prop' = [prop EXCEPT ![r] = NoProp]
         /\ events' = AfterDelete(events, r, watched)
         /\ asker' = [asker EXCEPT ![r] =
                IF prop[r] = Incr \/ (asker[r] = "reading" /\ prop[r] # Data(0)) THEN "reading" ELSE "ended"]
         /\ got' = IF prop[r].kind = "data" THEN [got EXCEPT ![r] = Taken(r, prop[r])] ELSE got
  BY DEF ClientReads
<1>5. ASSUME NEW o \in Requests, o # r PROVE Untouched(o)
  <2>1. \A E : Box(events, o, E) => Box(events', o, E)
    BY <1>2, <1>3, <1>5, EventsOfOthers
  <2>2. /\ prop'[o] = prop[o] /\ asker'[o] = asker[o] /\ got'[o] = got[o]
        /\ o \in Outside => told'[o] = told[o]
    BY <1>2, <1>3, <1>5 DEF TypeOK
  <2> QED BY <1>2, <2>1, <2>2 DEF Untouched
<1>6. ASSUME OutsideStage(r) PROVE OutsideStage(r)' /\ Move(r)
  <2>1. /\ written[r] \in Nat /\ supplied[r] \in Nat /\ written[r] <= supplied[r]
        /\ Closed(r)' <=> Closed(r)
        /\ told'[r] = "none" /\ (r \in more => transfer[r] = "sending")
    BY <1>2, <1>6 DEF TypeOK, Closed, OutsideStage
  <2>2. CASE asker[r] = "asked" /\ told[r] = "refused"
    <3>1. transfer[r] = "done" /\ Fresh(r) /\ Quiet(r)
      BY <1>6, <2>2 DEF OutsideStage
    <3>2. asker'[r] = "ended" /\ got' = got /\ events' = events
      BY <1>2, <1>3, <2>2 DEF TypeOK
    <3>3. Move(r)
      <4>1. supplied[r] \in Len(got[r])..supplied[r] /\ got'[r] = Units(supplied[r])
        BY <2>1, <3>1, <3>2, UnitsLength DEF Fresh
      <4> QED BY <1>2, <2>1, <2>2, <3>1, <3>2, <4>1 DEF Move, Receives, Closed
    <3> QED BY <1>2, <2>1, <3>1, <3>2, <3>3 DEF OutsideStage, Quiet, Fresh, Watched
  <2>3. CASE (asker[r] = "asked" /\ told[r] = "granted") \/ (asker[r] = "reading" /\ prop[r] # NoProp)
    <3>1. /\ prop'[r] = NoProp /\ events' = AfterDelete(events, r, watched)
          /\ asker'[r] = IF prop[r] = Incr \/ (asker[r] = "reading" /\ prop[r] # Data(0))
                         THEN "reading" ELSE "ended"
          /\ got' = IF prop[r].kind = "data" THEN [got EXCEPT ![r] = Taken(r, prop[r])] ELSE got
      BY <1>2, <1>3, <2>3 DEF TypeOK
    <3>2. /\ Box(events, r, {})
          /\ \/ asker[r] = "asked" /\ WholeValue(r) /\ ~Watched(r)
             \/ asker[r] = "asked" /\ Announced(r) /\ Watched(r) /\ server[r] = "ours"
             \/ asker[r] = "reading" /\ Piece(r) /\ Watched(r) /\ server[r] = "ours"
             \/ asker[r] = "reading" /\ Last(r) /\ ~Watched(r)
      BY <1>6, <2>3 DEF OutsideStage, Between, Idle, AskedUs, Quiet
    <3>3. /\ ~Watched(r) => Quiet(r)' /\ ~Watched(r)'
          /\ Watched(r) /\ prop[r] # NoProp => Box(events', r, {Deleted(r)}) /\ Watched(r)'
      BY <1>2, <3>1, <3>2, EventsOf DEF Watched, Quiet
    <3>4. CASE asker[r] = "asked" /\ WholeValue(r) /\ ~Watched(r)
      <4>1. /\ prop[r].kind = "data" /\ prop[r].unit = supplied[r] /\ prop[r] # Incr
        BY <3>4 DEF WholeValue, Data, Incr
      <4>2. asker'[r] = "ended" /\ got'[r] = IF supplied[r] = 0 THEN <<>> ELSE Append(<<>>, supplied[r])
        BY <1>2, <2>1, <3>1, <3>4, <4>1 DEF TypeOK, Taken, WholeValue
      <4>3. supplied[r] = 0 \/ supplied[r] = 1
        BY <2>1, <3>4 DEF WholeValue
      <4>4. got'[r] = Units(supplied[r]) /\ Len(got[r]) = 0
        BY <3>4, <4>2, <4>3, OneUnit DEF WholeValue
      <4>5. Move(r)
        <5>1. supplied[r] \in Len(got[r])..supplied[r]
          BY <2>1, <4>4
        <5> QED BY <1>2, <2>1, <3>4, <4>2, <4>4, <5>1 DEF Move, Receives, Closed, WholeValue
      <4> QED BY <1>2, <2>1, <3>3, <3>4, <4>2, <4>5 DEF OutsideStage, WholeValue
    <3>5. CASE asker[r] = "asked" /\ Announced(r) /\ Watched(r) /\ server[r] = "ours"
      <4>1. prop[r] # NoProp /\ asker'[r] = "reading" /\ got' = got
        BY <3>1, <3>5 DEF Announced, Incr, NoProp
      <4>2. Between(r)'
        BY <1>2, <3>1, <3>5, <4>1, OneUnit DEF Announced, Between
      <4>3. Move(r)
        BY <1>2, <2>1, <3>5, <4>1 DEF Move, Stays, Status
      <4> QED BY <1>2, <2>1, <3>3, <3>5, <4>1, <4>2, <4>3 DEF OutsideStage
    <3>6. CASE asker[r] = "reading" /\ Piece(r) /\ Watched(r) /\ server[r] = "ours"
      <4>1. prop[r].kind = "data" /\ prop[r].unit = written[r] /\ prop[r] \notin {NoProp, Data(0)}
        BY <2>1, <3>6 DEF Piece, Data, NoProp
      <4>2. got'[r] = Append(Units(written[r] - 1), written[r]) /\ asker'[r] = "reading"
        BY <1>2, <2>1, <3>1, <3>6, <4>1 DEF Taken, Piece, TypeOK
      <4>3. got'[r] = Units(written[r]) /\ Len(got[r]) = written[r] - 1
        <5>1. written[r] - 1 \in Nat /\ (written[r] - 1) + 1 = written[r]
          BY <2>1, <3>6 DEF Piece
        <5> QED BY <3>6, <4>2, <5>1, UnitsLength DEF Piece
      <4>4. Between(r)'
        BY <1>2, <3>1, <3>6, <4>3 DEF Between, Piece
      <4>5. Move(r)
        <5>1. written[r] \in Len(got[r])..supplied[r]
          BY <2>1, <4>3
        <5> QED BY <1>2, <2>1, <3>6, <4>2, <4>3, <5>1 DEF Move, Receives
      <4> QED BY <1>2, <2>1, <3>3, <3>6, <4>1, <4>2, <4>4, <4>5 DEF OutsideStage
    <3>7. CASE asker[r] = "reading" /\ Last(r) /\ ~Watched(r)
      <4>1. prop[r] = Data(0) /\ prop[r].kind = "data" /\ prop[r].unit = 0 /\ prop[r] # Incr
        BY <3>7 DEF Last, Data, Incr
      <4>2. asker'[r] = "ended" /\ got'[r] = got[r]
        BY <1>2, <3>1, <3>7, <4>1 DEF Taken, TypeOK
      <4>3. Move(r)
        <5>1. supplied[r] \in Len(got[r])..supplied[r] /\ got'[r] = Units(supplied[r])
          BY <2>1, <3>7, <4>2, UnitsLength DEF Last
        <5> QED BY <1>2, <2>1, <3>7, <4>2, <5>1 DEF Move, Receives, Closed, Last
      <4> QED BY <1>2, <2>1, <3>3, <3>7, <4>2, <4>3 DEF OutsideStage, Last
    <3> QED BY <3>2, <3>4, <3>5, <3>6, <3>7
  <2> QED BY <1>3, <2>2, <2>3
<1>7. Step(r)
  BY <1>2, <1>5, <1>6 DEF Step
<1> QED BY <1>7

\* every requestor has a window of its own: requestors that share one are told
\* of, and watched for, each other's properties
OneWindowEach == \A r, o \in Outside : r # o => WindowOf[r] # WindowOf[o]

LEMMA WindowsApart ==
    ASSUME OneWindowEach, NEW r \in Requests, NEW o \in Requests, o # r
    PROVE  WindowOf[o] # WindowOf[r]
BY SelectionAssumption DEF OneWindowEach, Requests

\* the requestor goes away
LEMMA AbandonStep ==
    ASSUME TypeOK, OneWindowEach, NEW r \in Outside, Abandon(WindowOf[r])
    PROVE  /\ \A o \in Requests : o # r => Untouched(o)
           /\ OutsideStage(r) => OutsideStage(r)'
           /\ UNCHANGED <<supplied, transfer, more, got>>
           /\ asker' = [asker EXCEPT ![r] = "gone"]
<1>1. {o \in Outside : WindowOf[o] = WindowOf[r]} = {r} /\ r \in Requests
  BY DEF OneWindowEach, Requests
<1>2. /\ asker[r] \in {"asked", "reading"}
      /\ asker' = [o \in Requests |-> IF o \in {r} THEN "gone" ELSE asker[o]]
      /\ prop' = [o \in Requests |-> IF o \in {r} THEN NoProp ELSE prop[o]]
      /\ told' = [o \in Outside |-> IF o \in {r} THEN "none" ELSE told[o]]
      /\ watched' = watched \ {WindowOf[r]}
      /\ UNCHANGED <<server, transfer, supplied, written, more, got, events>>
  BY <1>1 DEF Abandon, transferVars
<1>3. ASSUME NEW o \in Requests, o # r PROVE Untouched(o)
  <2>1. WindowOf[o] # WindowOf[r]
    BY <1>1, <1>3, WindowsApart
  <2> QED BY <1>2, <1>3, <2>1 DEF Untouched
<1>4. asker' = [asker EXCEPT ![r] = "gone"]
  BY <1>1, <1>2 DEF TypeOK
<1>5. ASSUME OutsideStage(r) PROVE OutsideStage(r)'
  <2>1. asker'[r] = "gone" /\ prop'[r] = NoProp /\ told'[r] = "none" /\ ~Watched(r)'
    BY <1>1, <1>2 DEF Watched
  <2>2. CASE AskedUs(r)
    <3>1. AskedUs(r)'
      BY <1>2, <2>1, <2>2 DEF AskedUs, Fresh
    <3> QED BY <1>2, <1>5, <2>1, <2>2, <3>1 DEF OutsideStage
  <2>3. CASE ~AskedUs(r)
    <3>1. /\ r \in more => transfer[r] = "sending"
          /\ transfer[r] = "done" \/ (transfer[r] = "sending" /\ server[r] = "ours")
          /\ Quiet(r) \/ Box(events, r, {Deleted(r)})
      BY <1>2, <1>5, <2>3 DEF OutsideStage, Idle, WholeValue, Announced, Between, Piece, Last
    <3>2. Quiet(r)' \/ Box(events, r, {Deleted(r)})'
      BY <1>2, <3>1 DEF Quiet
    <3> QED BY <1>2, <2>1, <3>1, <3>2 DEF OutsideStage
  <2> QED BY <2>2, <2>3
<1> QED BY <1>2, <1>3, <1>4, <1>5

-----------------------------------------------------------------------------
(* The invariant of the conversions, and the promise *)

\* steps about the ownership of the selection leave every conversion alone
LEMMA OwnerStep ==
    ASSUME TypeOK,
           \/ \E w \in Offers : Acquire(w)
           \/ LuaRelease
           \/ HandleClear
           \/ OtherTakes
           \/ UNCHANGED vars,
           NEW r \in Requests
    PROVE  Untouched(r)
<1>1. UNCHANGED <<transferVars, prop, watched, askerVars>>
  BY DEF Acquire, LuaRelease, HandleClear, OtherTakes, vars
<1>2. \A E : Box(events, r, E) => Box(events', r, E)
  <2>0. events \in Seq(Event)
    BY DEF TypeOK
  <2>1. CASE HandleClear
    <3>1. events # <<>> /\ ~About(Head(events), r) /\ events' = Tail(events)
      BY <2>1 DEF HandleClear, HeadIs, Rest, About
    <3> QED BY <2>0, <3>1, BoxRest
  <2>2. CASE OtherTakes /\ xowner \in Offers
    <3>1. Clear(xowner) \in Event /\ ~About(Clear(xowner), r) /\ events' = Append(events, Clear(xowner))
      BY <2>2 DEF OtherTakes, Event, About, Clear
    <3> QED BY <2>0, <3>1, BoxOther
  <2>3. CASE UNCHANGED events
    BY <2>3
  <2> QED BY <2>1, <2>2, <2>3 DEF Acquire, LuaRelease, OtherTakes, vars
<1> QED BY <1>1, <1>2 DEF Untouched, transferVars, askerVars

LEMMA StepsOf ==
    ASSUME TypeOK, [Next]_vars
    PROVE  \/ \E r \in Requests : StepOfOwner(r)
           \/ \E r \in Outside : Abandon(WindowOf[r])
           \/ \A r \in Requests : Untouched(r)
<1>1. \A r \in Requests : Step(r) => StepOfOwner(r)
  BY DEF Step, StepOfOwner
<1>2. CASE (\E w \in Offers : Acquire(w)) \/ LuaRelease \/ HandleClear \/ OtherTakes \/ UNCHANGED vars
  BY <1>2, OwnerStep
<1>3. CASE HandleRequest
  BY <1>3, RequestStep
<1>4. CASE HandleDeleted
  BY <1>1, <1>4, DeletedStep
<1>5. CASE HandleNewValue
  BY <1>1, <1>5, NewValueStep
<1>6. CASE HandleNotify
  BY <1>1, <1>6, NotifyStep
<1>7. ASSUME NEW r \in Requests, Ask(r) \/ Others(r) PROVE \E o \in Requests : StepOfOwner(o)
  BY <1>1, <1>7, AskStep, OtherAnswersStep, OtherContinuesStep, ClientStep DEF Others
<1> QED BY <1>2, <1>3, <1>4, <1>5, <1>6, <1>7 DEF Next, HandleEvent

OutsideStages == \A r \in Outside : OutsideStage(r)
OwnStages     == \A r \in Own : OwnStage(r)

LEMMA InitStages == Init => OutsideStages /\ OwnStages
<1> SUFFICES ASSUME Init PROVE OutsideStages /\ OwnStages
  OBVIOUS
<1>1. ASSUME NEW r \in Requests PROVE Idle(r) /\ r \notin more
  <2>1. Quiet(r)
    BY DEF Init, Quiet, Box, Elements
  <2> QED BY <2>1 DEF Init, Idle, Fresh, Watched
<1>2. OutsideStages
  BY <1>1 DEF Init, OutsideStages, OutsideStage, Requests
<1>3. OwnStages
  BY <1>1 DEF OwnStages, OwnStage, Requests
<1> QED BY <1>2, <1>3

LEMMA NextOutside ==
    ASSUME OneWindowEach
    PROVE  TypeOK /\ OutsideStages /\ [Next]_vars => OutsideStages'
<1> SUFFICES ASSUME TypeOK, OutsideStages, [Next]_vars, NEW o \in Outside PROVE OutsideStage(o)'
  BY DEF OutsideStages
<1>1. o \in Requests /\ OutsideStage(o) /\ (Untouched(o) => OutsideStage(o)')
  BY UntouchedStage DEF OutsideStages, Requests
<1>2. ASSUME NEW r \in Requests, StepOfOwner(r) PROVE OutsideStage(o)'
  <2>1. o # r => Untouched(o)
    BY <1>1, <1>2, WindowsApart DEF StepOfOwner
  <2> QED BY <1>1, <1>2, <2>1 DEF StepOfOwner
<1>3. ASSUME NEW r \in Outside, Abandon(WindowOf[r]) PROVE OutsideStage(o)'
  BY <1>1, <1>3, AbandonStep
<1> QED BY <1>1, <1>2, <1>3, StepsOf

LEMMA NextOwn ==
    ASSUME OneWindowEach, "own_incremental" \notin Env
    PROVE  TypeOK /\ OwnStages /\ [Next]_vars => OwnStages'
<1> SUFFICES ASSUME TypeOK, OwnStages, [Next]_vars, NEW o \in Own PROVE OwnStage(o)'
  BY DEF OwnStages
<1>1. o \in Requests /\ OwnStage(o) /\ (Untouched(o) => OwnStage(o)') /\ o \notin Outside
  BY UntouchedStage, SelectionAssumption DEF OwnStages, Requests
<1>2. ASSUME NEW r \in Requests, StepOfOwner(r) PROVE OwnStage(o)'
  <2>1. o # r => Untouched(o)
    BY <1>1, <1>2, WindowsApart DEF StepOfOwner
  <2> QED BY <1>1, <1>2, <2>1 DEF StepOfOwner
<1>3. ASSUME NEW r \in Outside, Abandon(WindowOf[r]) PROVE OwnStage(o)'
  BY <1>1, <1>3, AbandonStep
<1> QED BY <1>1, <1>2, <1>3, StepsOf

\* For any number of requestors, units and pieces, and whoever goes away when:
\* a window is watched exactly while pieces are sent to it.
THEOREM WatchesEnd ==
    ASSUME OneWindowEach
    PROVE  Spec => []WatchedWhileSending
<1>1. OutsideStages => WatchedWhileSending
  <2> SUFFICES ASSUME OutsideStages, NEW r \in Outside
               PROVE  Watched(r) <=>
                         server[r] = "ours" /\ transfer[r] = "sending" /\ asker[r] # "gone"
    BY DEF WatchedWhileSending, Watched
  <2>1. OutsideStage(r)
    BY DEF OutsideStages
  <2> QED
    BY <2>1 DEF OutsideStage, Idle, AskedUs, Fresh, WholeValue, Announced, Between, Piece, Last
<1> QED BY <1>1, InitStages, NextOutside, SelectionTypes, PTL DEF Spec

\* A step of a conversion is a step of the promise.
LEMMA MoveIsPromised ==
    ASSUME TypeOK, TypeOK', NEW r \in Requests, Move(r), \A o \in Requests : o # r => Untouched(o)
    PROVE  [Abstract!Next]_(Abstract!vars)
<1> DEFINE closed == {o \in Requests : \/ transfer[o] = "done"
                                       \/ transfer[o] = "sending" /\ o \notin more}
           status == [o \in Requests |-> IF asker[o] \in {"ended", "gone"} THEN asker[o] ELSE "open"]
<1>1. \A o \in Requests : o # r => /\ supplied'[o] = supplied[o] /\ got'[o] = got[o]
                                   /\ Closed(o)' <=> Closed(o)
                                   /\ Status(o)' = Status(o)
  BY DEF Untouched, Closed, Status
<1>2. /\ closed = {o \in Requests : Closed(o)} /\ closed' = {o \in Requests : Closed(o)'}
      /\ status = [o \in Requests |-> Status(o)] /\ status' = [o \in Requests |-> Status(o)']
  BY DEF Closed, Status
<1>3. /\ supplied \in [Requests -> 0..MaxUnits] /\ supplied' \in [Requests -> 0..MaxUnits]
      /\ got \in [Requests -> Seq(0..MaxUnits)] /\ got' \in [Requests -> Seq(0..MaxUnits)]
  BY DEF TypeOK
<1>4. CASE Stays(r)
  <2>1. supplied' = supplied /\ got' = got
    <3>1. \A o \in Requests : supplied'[o] = supplied[o] /\ got'[o] = got[o]
      BY <1>1, <1>4 DEF Stays
    <3>2. supplied' = [o \in Requests |-> supplied'[o]] /\ supplied = [o \in Requests |-> supplied[o]]
      BY <1>3
    <3>3. got' = [o \in Requests |-> got'[o]] /\ got = [o \in Requests |-> got[o]]
      BY <1>3
    <3> QED BY <3>1, <3>2, <3>3
  <2>2. closed' = closed /\ status' = status
    BY <1>1, <1>2, <1>4 DEF Stays
  <2> QED BY <2>1, <2>2 DEF Abstract!vars
<1>5. CASE Offers1(r)
  <2>1. got' = got
    <3>1. \A o \in Requests : got'[o] = got[o]
      BY <1>1, <1>5 DEF Offers1
    <3>2. got' = [o \in Requests |-> got'[o]] /\ got = [o \in Requests |-> got[o]]
      BY <1>3
    <3> QED BY <3>1, <3>2
  <2>2. status' = status
    BY <1>1, <1>2, <1>5 DEF Offers1
  <2>3. supplied' = [supplied EXCEPT ![r] = supplied'[r]]
    BY <1>1, <1>3
  <2>4. r \notin closed /\ closed' \in {closed, closed \cup {r}}
    BY <1>1, <1>2, <1>5 DEF Offers1
  <2>5. supplied'[r] \in Nat /\ supplied'[r] >= supplied[r]
    BY <1>5 DEF Offers1
  <2>6. Abstract!Offer(r)
    BY <2>1, <2>2, <2>3, <2>4, <2>5 DEF Abstract!Offer
  <2> QED BY <2>6 DEF Abstract!Next
<1>6. CASE Receives(r)
  <2>1. supplied' = supplied
    <3>1. \A o \in Requests : supplied'[o] = supplied[o]
      BY <1>1, <1>6 DEF Receives
    <3>2. supplied' = [o \in Requests |-> supplied'[o]] /\ supplied = [o \in Requests |-> supplied[o]]
      BY <1>3
    <3> QED BY <3>1, <3>2
  <2>2. closed' = closed
    BY <1>1, <1>2, <1>6 DEF Receives
  <2>3. PICK n \in Len(got[r])..supplied[r] :
           /\ got'[r] = Units(n)
           /\ asker'[r] = "ended" => Closed(r) /\ n = supplied[r]
    BY <1>6 DEF Receives
  <2>4. PICK s \in {"open", "ended"} : s = Status(r)'
    BY <1>6 DEF Receives, Status
  <2>5. status[r] = "open" /\ status' = [status EXCEPT ![r] = s]
    BY <1>1, <1>2, <1>6, <2>4 DEF Receives, Status
  <2>6. s = "ended" => r \in closed /\ n = supplied[r]
    BY <1>2, <2>3, <2>4 DEF Status
  <2>7. got' = [got EXCEPT ![r] = Abstract!Units(n)]
    <3>1. got'[r] = Abstract!Units(n)
      BY <2>3 DEF Units, Abstract!Units
    <3> HIDE DEF Units
    <3>2. got' = [o \in Requests |-> got'[o]]
      BY <1>3
    <3>3. [got EXCEPT ![r] = Abstract!Units(n)] =
             [o \in Requests |-> IF o = r THEN Abstract!Units(n) ELSE got[o]]
      BY <1>3
    <3> QED BY <1>1, <3>1, <3>2, <3>3
  <2>8. Abstract!Receive(r)
    BY <2>1, <2>2, <2>3, <2>4, <2>5, <2>6, <2>7 DEF Abstract!Receive
  <2> QED BY <2>8 DEF Abstract!Next
<1> QED BY <1>4, <1>5, <1>6 DEF Move

\* For any number of conversions, units and pieces, and whatever the order in
\* which notifications, new values and deletions are handled: each requestor
\* gets what was offered, once and in order, before it sees the end.
THEOREM ConversionRefines ==
    ASSUME OneWindowEach, "own_incremental" \notin Env
    PROVE  Spec => Converts
<1>1. Init => Abstract!Init
  <2> SUFFICES ASSUME Init PROVE Abstract!Init
    OBVIOUS
  <2>1. {r \in Requests : transfer[r] = "done" \/ (transfer[r] = "sending" /\ r \notin more)} = {}
    BY DEF Init
  <2>2. [r \in Requests |-> IF asker[r] \in {"ended", "gone"} THEN asker[r] ELSE "open"]
            = [r \in Requests |-> "open"]
    BY DEF Init
  <2> QED BY <2>1, <2>2 DEF Init, Abstract!Init
<1>2. TypeOK /\ TypeOK' /\ OutsideStages /\ OwnStages /\ [Next]_vars => [Abstract!Next]_(Abstract!vars)
  <2> SUFFICES ASSUME TypeOK, TypeOK', OutsideStages, OwnStages, [Next]_vars
               PROVE  [Abstract!Next]_(Abstract!vars)
    OBVIOUS
  <2>1. ASSUME NEW r \in Requests, StepOfOwner(r) PROVE [Abstract!Next]_(Abstract!vars)
    <3>1. \A o \in Requests : o # r => Untouched(o)
      BY <2>1, WindowsApart DEF StepOfOwner
    <3>2. Move(r)
      BY <2>1 DEF StepOfOwner, OutsideStages, OwnStages, Requests
    <3> QED BY <2>1, <3>1, <3>2, MoveIsPromised
  <2>2. ASSUME \A r \in Requests : Untouched(r) PROVE [Abstract!Next]_(Abstract!vars)
    <3>1. CASE Requests = {}
      BY <3>1 DEF TypeOK, Abstract!vars
    <3>2. ASSUME NEW r \in Requests PROVE [Abstract!Next]_(Abstract!vars)
      <4>1. Move(r)
        BY <2>2 DEF Untouched, Move, Stays, Closed, Status
      <4> QED BY <2>2, <4>1, MoveIsPromised
    <3> QED BY <3>1, <3>2
  <2>3. ASSUME NEW r \in Outside, Abandon(WindowOf[r]) PROVE [Abstract!Next]_(Abstract!vars)
    <3>1. UNCHANGED <<supplied, transfer, more, got>> /\ asker' = [asker EXCEPT ![r] = "gone"]
      BY <2>3, AbandonStep
    <3> DEFINE status == [o \in Requests |-> IF asker[o] \in {"ended", "gone"} THEN asker[o] ELSE "open"]
    <3>2. status' = [o \in Requests |-> IF o \in {r} THEN "gone" ELSE status[o]]
      BY <3>1 DEF TypeOK
    <3>3. {r} \in SUBSET Requests
      BY DEF Requests
    <3>4. Abstract!Leave({r})
      BY <3>1, <3>2 DEF Abstract!Leave
    <3> QED BY <3>3, <3>4 DEF Abstract!Next
  <2> QED BY <2>1, <2>2, <2>3, StepsOf
<1> QED
  BY <1>1, <1>2, InitStages, NextOutside, NextOwn, SelectionTypes, PTL DEF Spec, Converts, Abstract!Spec
=============================================================================
