---------------------------- MODULE EventQueues ----------------------------
(* What is in a queue of events or in a list, whatever its elements are. *)
EXTENDS Sequences, SequenceTheorems, FiniteSetTheorems, WellFoundedInduction, Integers, TLAPS

Elements(q) == {q[i] : i \in DOMAIN q}

\* appending adds one element
LEMMA AppendElements ==
    ASSUME NEW S, NEW q \in Seq(S), NEW e \in S
    PROVE  /\ Append(q, e) \in Seq(S)
           /\ Elements(Append(q, e)) = Elements(q) \cup {e}
<1> DEFINE a == Append(q, e)
<1>1. /\ a \in Seq(S) /\ DOMAIN a = 1..(Len(q) + 1) /\ DOMAIN q = 1..Len(q)
      /\ Len(q) \in Nat /\ a[Len(q) + 1] = e /\ \A i \in 1..Len(q) : a[i] = q[i]
  OBVIOUS
<1>2. ASSUME NEW i \in DOMAIN a PROVE a[i] \in Elements(q) \cup {e}
  <2>1. i \in DOMAIN q \/ i = Len(q) + 1
    BY <1>1
  <2> QED
    BY <1>1, <2>1 DEF Elements
<1>3. ASSUME NEW i \in DOMAIN q PROVE q[i] \in Elements(a)
  <2>1. i \in DOMAIN a /\ a[i] = q[i]
    BY <1>1
  <2> HIDE DEF a
  <2> QED
    BY <2>1 DEF Elements
<1>4. e \in Elements(a)
  <2>1. Len(q) + 1 \in DOMAIN a /\ a[Len(q) + 1] = e
    BY <1>1
  <2> HIDE DEF a
  <2> QED
    BY <2>1 DEF Elements
<1>5. Elements(a) = Elements(q) \cup {e}
  <2> HIDE DEF a
  <2> QED
    BY <1>2, <1>3, <1>4 DEF Elements
<1> QED
  BY <1>1, <1>5

\* the first element and the rest are the whole queue
LEMMA TailElements ==
    ASSUME NEW S, NEW q \in Seq(S), q # <<>>
    PROVE  /\ Head(q) \in S
           /\ Tail(q) \in Seq(S)
           /\ Elements(q) = Elements(Tail(q)) \cup {Head(q)}
<1>1. Head(q) \in S /\ Tail(q) \in Seq(S)
  OBVIOUS
<1>2. ASSUME NEW i \in DOMAIN q PROVE q[i] \in Elements(Tail(q)) \cup {Head(q)}
  <2>1. CASE i = 1
    BY <2>1
  <2>2. CASE i # 1
    <3>1. i - 1 \in DOMAIN Tail(q) /\ Tail(q)[i - 1] = q[i]
      BY <2>2
    <3> QED
      BY <3>1 DEF Elements
  <2> QED
    BY <2>1, <2>2
<1>3. ASSUME NEW i \in DOMAIN Tail(q) PROVE Tail(q)[i] \in Elements(q)
  <2>1. i + 1 \in DOMAIN q /\ Tail(q)[i] = q[i + 1]
    OBVIOUS
  <2> QED
    BY <2>1 DEF Elements
<1>4. Head(q) \in Elements(q)
  BY DEF Elements
<1> QED
  BY <1>1, <1>2, <1>3, <1>4 DEF Elements

\* the elements behind one that is removed move up
LEMMA RemoveElement ==
    ASSUME NEW S, NEW q \in Seq(S), NEW i \in DOMAIN q
    PROVE  LET r == SubSeq(q, 1, i - 1) \o SubSeq(q, i + 1, Len(q))
           IN  /\ r \in Seq(S) /\ Len(r) = Len(q) - 1
               /\ \A j \in DOMAIN r : r[j] = IF j < i THEN q[j] ELSE q[j + 1]
<1> DEFINE a == SubSeq(q, 1, i - 1)
           b == SubSeq(q, i + 1, Len(q))
           n == Len(q)
<1>1. Len(q) \in Nat /\ i \in 1..Len(q) /\ \A j \in 1..Len(q) : q[j] \in S
  OBVIOUS
<1> HIDE DEF n
<1>0. n = Len(q)
  BY DEF n
<1>2. a \in Seq(S) /\ Len(a) = i - 1 /\ \A j \in 1..(i - 1) : a[j] = q[j]
  <2>1. \A j \in 1..(i - 1) : q[j] \in S
    BY <1>1
  <2> DEFINE m == i - 1
  <2>2. m \in Int
    BY <1>1
  <2> HIDE DEF m
  <2>3. /\ SubSeq(q, 1, m) \in Seq(S) /\ Len(SubSeq(q, 1, m)) = (IF 1 <= m THEN m - 1 + 1 ELSE 0)
        /\ \A j \in 1..m - 1 + 1 : SubSeq(q, 1, m)[j] = q[1 + j - 1]
    BY <2>1, <2>2, SubSeqProperties DEF m
  <2>4. /\ SubSeq(q, 1, m) \in Seq(S) /\ Len(SubSeq(q, 1, m)) = m
        /\ \A j \in 1..m : SubSeq(q, 1, m)[j] = q[j]
    BY <2>2, <2>3, <1>1 DEF m
  <2> QED BY <2>4 DEF m
<1>3. b \in Seq(S) /\ Len(b) = n - i /\ \A j \in 1..(n - i) : b[j] = q[i + j]
  <2>1. \A j \in (i + 1)..n : q[j] \in S
    BY <1>1, <1>0
  <2> DEFINE k == i + 1
  <2>2. k \in Int /\ n \in Int
    BY <1>1, <1>0
  <2> HIDE DEF k
  <2>3. /\ SubSeq(q, k, n) \in Seq(S) /\ Len(SubSeq(q, k, n)) = (IF k <= n THEN n - k + 1 ELSE 0)
        /\ \A j \in 1..n - k + 1 : SubSeq(q, k, n)[j] = q[k + j - 1]
    BY <2>1, <2>2, SubSeqProperties DEF k
  <2>4. /\ SubSeq(q, k, n) \in Seq(S) /\ Len(SubSeq(q, k, n)) = n - i
        /\ \A j \in 1..(n - i) : SubSeq(q, k, n)[j] = q[i + j]
    BY <2>2, <2>3, <1>1, <1>0 DEF k
  <2> QED BY <2>4, <1>0 DEF k
<1> HIDE DEF a, b
<1>4. /\ a \o b \in Seq(S) /\ Len(a \o b) = Len(a) + Len(b)
      /\ \A j \in 1..Len(a) + Len(b) : (a \o b)[j] = IF j <= Len(a) THEN a[j] ELSE b[j - Len(a)]
  BY <1>2, <1>3, ConcatProperties
<1> DEFINE r == a \o b
<1>5. r \in Seq(S) /\ Len(r) = n - 1
  BY <1>0, <1>1, <1>2, <1>3, <1>4
<1>6. ASSUME NEW j \in DOMAIN r PROVE r[j] = IF j < i THEN q[j] ELSE q[j + 1]
  <2> HIDE DEF r
  <2>1. j \in 1..(n - 1) /\ n \in Nat
    <3>1. DOMAIN r = 1..Len(r)
      BY <1>5 DEF r
    <3> QED BY <1>1, <1>0, <1>5, <3>1
  <2>2. r[j] = IF j <= i - 1 THEN a[j] ELSE b[j - (i - 1)]
    <3>1. j \in 1..Len(a) + Len(b)
      BY <1>1, <1>0, <1>2, <1>3, <2>1
    <3> QED BY <1>2, <1>4, <3>1 DEF r
  <2>3. CASE j < i
    BY <1>0, <1>1, <1>2, <2>1, <2>2, <2>3
  <2>4. CASE ~(j < i)
    <3>1. j - (i - 1) \in 1..(n - i) /\ i + (j - (i - 1)) = j + 1 /\ ~(j <= i - 1)
      BY <1>0, <1>1, <2>1, <2>4
    <3> QED BY <1>3, <2>2, <2>4, <3>1, <1>0
  <2> QED BY <2>3, <2>4
<1> QED BY <1>0, <1>5, <1>6 DEF a, b, r

\* some events behind a queue are appended one after the other
LEMMA AppendSome ==
    ASSUME NEW S, NEW q \in Seq(S), NEW d \in S, NEW e \in S
    PROVE  /\ q \o <<>> = q
           /\ q \o <<d>> = Append(q, d)
           /\ q \o <<d, e>> = Append(Append(q, d), e)
<1>1. q \o <<>> = q
  OBVIOUS
<1>2. q \o <<d>> = Append(q, d)
  OBVIOUS
<1>3. q \o <<d, e>> = Append(Append(q, d), e)
  OBVIOUS
<1> QED BY <1>1, <1>2, <1>3

-----------------------------------------------------------------------------
(* What the last event that matters leaves behind: it is one of "ends", none  *)
(* behind it matters ("rest"); or none matters, and things are as they should *)
(* be already ("now").                                                        *)

Ended(q, ends, rest, now) ==
    \/ \E i \in DOMAIN q : q[i] \in ends /\ \A j \in DOMAIN q : i < j => q[j] \in rest
    \/ now /\ \A j \in DOMAIN q : q[j] \in rest

LEMMA EndedEmpty ==
    ASSUME NEW ends, NEW rest, NEW now
    PROVE  Ended(<<>>, ends, rest, now) <=> now
BY DEF Ended

LEMMA EndedAppend ==
    ASSUME NEW S, NEW q \in Seq(S), NEW e \in S, NEW ends, NEW rest, NEW now,
           e \in ends \/ (e \in rest /\ Ended(q, ends, rest, now))
    PROVE  Ended(Append(q, e), ends, rest, now)
<1> DEFINE a == Append(q, e)
<1>1. /\ DOMAIN a = 1..(Len(q) + 1) /\ DOMAIN q = 1..Len(q)
      /\ Len(q) \in Nat /\ a[Len(q) + 1] = e /\ \A i \in 1..Len(q) : a[i] = q[i]
  OBVIOUS
<1> HIDE DEF a
<1>2. CASE e \in ends
  <2>1. Len(q) + 1 \in DOMAIN a /\ \A j \in DOMAIN a : ~(Len(q) + 1 < j)
    BY <1>1
  <2> QED BY <1>1, <1>2, <2>1 DEF Ended, a
<1>3. CASE e \in rest /\ Ended(q, ends, rest, now)
  <2>1. ASSUME NEW i \in DOMAIN q, q[i] \in ends, \A j \in DOMAIN q : i < j => q[j] \in rest
        PROVE  i \in DOMAIN a /\ a[i] \in ends /\ \A j \in DOMAIN a : i < j => a[j] \in rest
    <3>1. i \in DOMAIN a /\ a[i] \in ends
      BY <1>1, <2>1
    <3>2. ASSUME NEW j \in DOMAIN a, i < j PROVE a[j] \in rest
      BY <1>1, <1>3, <2>1, <3>2
    <3> QED BY <3>1, <3>2
  <2>2. (\A j \in DOMAIN q : q[j] \in rest) => \A j \in DOMAIN a : a[j] \in rest
    BY <1>1, <1>3
  <2>3. Ended(a, ends, rest, now)
    BY <1>3, <2>1, <2>2 DEF Ended
  <2> QED BY <2>3 DEF a
<1> QED BY <1>2, <1>3

LEMMA EndedTail ==
    ASSUME NEW S, NEW q \in Seq(S), q # <<>>, NEW ends, NEW rest, NEW now, NEW next,
           Ended(q, ends, rest, now),
           Head(q) \in ends \/ (now /\ Head(q) \in rest) => next
    PROVE  Ended(Tail(q), ends, rest, next)
<1> DEFINE t == Tail(q)
<1>1. /\ DOMAIN t = 1..(Len(q) - 1) /\ DOMAIN q = 1..Len(q) /\ Len(q) \in Nat /\ Len(q) > 0
      /\ Head(q) = q[1] /\ \A i \in 1..(Len(q) - 1) : t[i] = q[i + 1]
  OBVIOUS
<1> HIDE DEF t
<1>2. ASSUME NEW i \in DOMAIN q, q[i] \in ends, \A j \in DOMAIN q : i < j => q[j] \in rest
      PROVE  Ended(t, ends, rest, next)
  <2>1. CASE i = 1
    <3>1. \A j \in DOMAIN t : t[j] \in rest
      BY <1>1, <1>2, <2>1
    <3> QED BY <1>1, <1>2, <2>1, <3>1 DEF Ended
  <2>2. CASE i # 1
    <3>1. i - 1 \in DOMAIN t /\ t[i - 1] \in ends
      BY <1>1, <1>2, <2>2
    <3>2. ASSUME NEW j \in DOMAIN t, i - 1 < j PROVE t[j] \in rest
      <4>1. j + 1 \in DOMAIN q /\ i < j + 1 /\ t[j] = q[j + 1]
        BY <1>1, <3>2
      <4> QED BY <1>2, <4>1
    <3> QED BY <3>1, <3>2 DEF Ended
  <2> QED BY <2>1, <2>2
<1>3. ASSUME now, \A j \in DOMAIN q : q[j] \in rest
      PROVE  Ended(t, ends, rest, next)
  <2>1. (\A j \in DOMAIN t : t[j] \in rest) /\ Head(q) \in rest
    BY <1>1, <1>3
  <2> QED BY <1>3, <2>1 DEF Ended
<1> QED BY <1>2, <1>3 DEF Ended, t
-----------------------------------------------------------------------------
(* A stack of calls: a call begins, goes on and returns. *)

LEMMA PushCall ==
    ASSUME NEW S, NEW q \in Seq(S), NEW e \in S, NEW r, r = Append(q, e)
    PROVE  /\ r \in Seq(S) /\ r # <<>> /\ DOMAIN r = 1..(Len(q) + 1) /\ DOMAIN q = 1..Len(q)
           /\ Len(q) \in Nat /\ Len(r) = Len(q) + 1 /\ r[Len(q) + 1] = e
           /\ \A i \in DOMAIN q : i \in DOMAIN r /\ i # Len(q) + 1 /\ r[i] = q[i]
           /\ \A i \in DOMAIN r : i = Len(q) + 1 \/ i \in DOMAIN q
OBVIOUS

LEMMA TopCall ==
    ASSUME NEW S, NEW q \in Seq(S), NEW e \in S, q # <<>>, NEW r, r = [q EXCEPT ![Len(q)] = e]
    PROVE  /\ r \in Seq(S) /\ r # <<>> /\ DOMAIN r = DOMAIN q /\ Len(r) = Len(q) /\ Len(q) \in DOMAIN q
           /\ r[Len(q)] = e /\ q[Len(q)] \in S
           /\ \A i \in DOMAIN q : i # Len(q) => r[i] = q[i]
<1>1. Len(q) \in Nat \ {0} /\ DOMAIN q = 1..Len(q) /\ Len(q) \in 1..Len(q) /\ q[Len(q)] \in S
  OBVIOUS
<1>2. r \in Seq(S) /\ Len(r) = Len(q) /\ \A i \in 1..Len(q) : r[i] = IF i = Len(q) THEN e ELSE q[i]
  BY <1>1, ExceptSeq
<1>3. DOMAIN r = 1..Len(q)
  BY <1>2
<1> QED BY <1>1, <1>2, <1>3

LEMMA PopCall ==
    ASSUME NEW S, NEW q \in Seq(S), q # <<>>, NEW r, r = SubSeq(q, 1, Len(q) - 1)
    PROVE  /\ r \in Seq(S) /\ DOMAIN r = 1..(Len(q) - 1) /\ Len(r) = Len(q) - 1
           /\ Len(q) \in DOMAIN q /\ q[Len(q)] \in S
           /\ \A i \in DOMAIN r : i \in DOMAIN q /\ i # Len(q) /\ r[i] = q[i]
           /\ \A i \in DOMAIN q : i = Len(q) \/ i \in DOMAIN r
<1> DEFINE n == Len(q)
           m == n - 1
<1>1. n \in Nat \ {0} /\ DOMAIN q = 1..n /\ n \in 1..n /\ q[n] \in S /\ m \in Nat /\ m = n - 1
      /\ \A i \in 1..m : q[i] \in S /\ i \in 1..n /\ i # n
  OBVIOUS
<1>2. m \in Nat /\ \A i \in 1..m : q[i] \in S
  BY <1>1
<1>3. r = SubSeq(q, 1, m)
  OBVIOUS
<1> HIDE DEF m
<1>4. /\ SubSeq(q, 1, m) \in Seq(S)
      /\ Len(SubSeq(q, 1, m)) = IF 1 <= m THEN m - 1 + 1 ELSE 0
      /\ \A i \in 1..m - 1 + 1 : SubSeq(q, 1, m)[i] = q[1 + i - 1]
  BY <1>2, SubSeqProperties
<1>5. Len(SubSeq(q, 1, m)) = m /\ \A i \in 1..m : SubSeq(q, 1, m)[i] = q[i]
  BY <1>2, <1>4
<1>6. r \in Seq(S) /\ Len(r) = m /\ DOMAIN r = 1..m /\ \A i \in 1..m : r[i] = q[i]
  BY <1>3, <1>4, <1>5
<1>7. \A i \in 1..n : i = n \/ i \in 1..m
  BY DEF m
<1> QED BY <1>1, <1>6, <1>7 DEF m
\* some elements take the place of the first one
LEMMA ReplaceHead ==
    ASSUME NEW S, NEW q \in Seq(S), q # <<>>, NEW p \in Seq(S), NEW r, r = p \o Tail(q)
    PROVE  /\ r \in Seq(S) /\ Len(p) \in Nat /\ DOMAIN p = 1..Len(p) /\ DOMAIN q = 1..Len(q) /\ Len(q) \in Nat \ {0}
           /\ Head(q) = q[1] /\ 1 \in DOMAIN q /\ q[1] \in S
           /\ DOMAIN r = 1..(Len(p) + Len(q) - 1) /\ Len(r) = Len(p) + Len(q) - 1
           /\ \A i \in DOMAIN p : i \in DOMAIN r /\ r[i] = p[i]
           /\ \A i \in DOMAIN r : i \in DOMAIN p \/ (i - Len(p) + 1 \in DOMAIN q /\ i > Len(p) /\ r[i] = q[i - Len(p) + 1])
           /\ \A i \in DOMAIN q : i > 1 => i - 1 + Len(p) \in DOMAIN r /\ r[i - 1 + Len(p)] = q[i]
<1> DEFINE t == Tail(q)
<1>1. /\ t \in Seq(S) /\ Len(t) = Len(q) - 1 /\ Len(q) \in Nat \ {0} /\ DOMAIN q = 1..Len(q) /\ Head(q) = q[1]
      /\ q[1] \in S /\ \A i \in 1..(Len(q) - 1) : t[i] = q[i + 1]
  OBVIOUS
<1>2. r = p \o t
  OBVIOUS
<1> HIDE DEF t
<1>3. /\ r \in Seq(S) /\ Len(r) = Len(p) + Len(t) /\ Len(p) \in Nat /\ DOMAIN p = 1..Len(p)
      /\ \A i \in 1..Len(p) + Len(t) : r[i] = IF i <= Len(p) THEN p[i] ELSE t[i - Len(p)]
  BY <1>1, <1>2, ConcatProperties
<1>4. DOMAIN r = 1..(Len(p) + Len(q) - 1) /\ Len(r) = Len(p) + Len(q) - 1
  BY <1>1, <1>3
<1>5. \A i \in DOMAIN p : i \in DOMAIN r /\ r[i] = p[i]
  BY <1>1, <1>3, <1>4
<1>6. ASSUME NEW i \in DOMAIN r, i \notin DOMAIN p
      PROVE  i - Len(p) + 1 \in DOMAIN q /\ i > Len(p) /\ r[i] = q[i - Len(p) + 1]
  <2>1. i \in Nat /\ i > Len(p) /\ i - Len(p) \in 1..(Len(q) - 1)
    BY <1>1, <1>3, <1>4, <1>6
  <2>2. r[i] = t[i - Len(p)]
    BY <1>1, <1>3, <1>4, <2>1
  <2> QED BY <1>1, <1>3, <2>1, <2>2
<1>7. ASSUME NEW i \in DOMAIN q, i > 1
      PROVE  i - 1 + Len(p) \in DOMAIN r /\ r[i - 1 + Len(p)] = q[i]
  <2> DEFINE k == i - 1 + Len(p)
  <2>1. k \in 1..(Len(p) + Len(q) - 1) /\ ~(k <= Len(p)) /\ k - Len(p) = i - 1 /\ i - 1 \in 1..(Len(q) - 1) /\ i - 1 + 1 = i
    BY <1>1, <1>3, <1>7
  <2> HIDE DEF k
  <2>2. r[k] = t[k - Len(p)]
    BY <1>1, <1>3, <2>1
  <2>3. t[i - 1] = q[i]
    BY <1>1, <2>1
  <2> QED BY <1>4, <2>1, <2>2, <2>3 DEF k
<1> QED BY <1>1, <1>3, <1>4, <1>5, <1>6, <1>7

\* the first element goes
LEMMA DropHead ==
    ASSUME NEW S, NEW q \in Seq(S), q # <<>>, NEW r, r = Tail(q)
    PROVE  /\ r \in Seq(S) /\ DOMAIN q = 1..Len(q) /\ Len(q) \in Nat \ {0}
           /\ Head(q) = q[1] /\ 1 \in DOMAIN q /\ q[1] \in S
           /\ DOMAIN r = 1..(Len(q) - 1)
           /\ \A i \in DOMAIN r : i + 1 \in DOMAIN q /\ i + 1 > 1 /\ r[i] = q[i + 1]
           /\ \A i \in DOMAIN q : i > 1 => i - 1 \in DOMAIN r /\ r[i - 1] = q[i]
<1>1. /\ r \in Seq(S) /\ Len(r) = Len(q) - 1 /\ Len(q) \in Nat \ {0} /\ DOMAIN q = 1..Len(q) /\ Head(q) = q[1]
      /\ q[1] \in S /\ \A i \in 1..(Len(q) - 1) : r[i] = q[i + 1]
  OBVIOUS
<1>2. DOMAIN r = 1..(Len(q) - 1)
  BY <1>1
<1>3. \A i \in DOMAIN q : i > 1 => i - 1 \in DOMAIN r /\ r[i - 1] = q[i]
  BY <1>1, <1>2
<1>4. \A i \in DOMAIN r : i + 1 \in DOMAIN q /\ i + 1 > 1 /\ r[i] = q[i + 1]
  BY <1>1, <1>2
<1> QED BY <1>1, <1>2, <1>3, <1>4
\* short sequences
LEMMA ShortSequences ==
    ASSUME NEW S, NEW a \in S, NEW b \in S, NEW c \in S
    PROVE  /\ <<a>> \in Seq(S) /\ DOMAIN <<a>> = 1..1 /\ Len(<<a>>) = 1 /\ <<a>>[1] = a
           /\ <<a, b>> \in Seq(S) /\ DOMAIN <<a, b>> = 1..2 /\ Len(<<a, b>>) = 2 /\ <<a, b>>[1] = a /\ <<a, b>>[2] = b
           /\ <<a, b, c>> \in Seq(S) /\ DOMAIN <<a, b, c>> = 1..3 /\ Len(<<a, b, c>>) = 3
           /\ <<a, b, c>>[1] = a /\ <<a, b, c>>[2] = b /\ <<a, b, c>>[3] = c
OBVIOUS

LEMMA FunctionSequence ==
    ASSUME NEW S, NEW n \in Nat, NEW f \in [1..n -> S]
    PROVE  f \in Seq(S) /\ Len(f) = n /\ DOMAIN f = 1..n
<1>1. f \in Seq(S)
  BY SeqDef
<1>2. DOMAIN f = 1..n
  OBVIOUS
<1>3. Len(f) \in Nat /\ DOMAIN f = 1..Len(f)
  BY <1>1, LenProperties
<1>4. Len(f) = n
  <2> DEFINE k == Len(f)
  <2>1. k \in Nat /\ 1..k = 1..n
    BY <1>2, <1>3
  <2> HIDE DEF k
  <2>2. ~(k < n)
    <3>1. k < n => n \in 1..n /\ n \notin 1..k
      BY <2>1
    <3> QED BY <2>1, <3>1
  <2>3. ~(n < k)
    <3>1. n < k => k \in 1..k /\ k \notin 1..n
      BY <2>1
    <3> QED BY <2>1, <3>1
  <2> QED BY <2>1, <2>2, <2>3 DEF k
<1> QED BY <1>1, <1>2, <1>4
LEMMA ConcatElements ==
    ASSUME NEW S, NEW p \in Seq(S), NEW q \in Seq(S)
    PROVE  p \o q \in Seq(S) /\ Elements(p \o q) = Elements(p) \cup Elements(q)
<1> DEFINE r == p \o q
<1>1. /\ r \in Seq(S) /\ Len(p) \in Nat /\ Len(q) \in Nat /\ DOMAIN p = 1..Len(p) /\ DOMAIN q = 1..Len(q)
      /\ DOMAIN r = 1..(Len(p) + Len(q))
      /\ \A i \in 1..(Len(p) + Len(q)) : r[i] = IF i <= Len(p) THEN p[i] ELSE q[i - Len(p)]
  BY ConcatProperties
<1> HIDE DEF r
<1>2. ASSUME NEW i \in DOMAIN r PROVE r[i] \in Elements(p) \cup Elements(q)
  <2>1. CASE i <= Len(p)
    BY <1>1, <1>2, <2>1 DEF Elements
  <2>2. CASE ~(i <= Len(p))
    <3>1. i - Len(p) \in DOMAIN q /\ r[i] = q[i - Len(p)]
      BY <1>1, <1>2, <2>2
    <3> QED BY <3>1 DEF Elements
  <2> QED BY <2>1, <2>2
<1>3. ASSUME NEW i \in DOMAIN p PROVE p[i] \in Elements(r)
  <2>1. i \in DOMAIN r /\ r[i] = p[i]
    BY <1>1, <1>3
  <2> QED BY <2>1 DEF Elements
<1>4. ASSUME NEW i \in DOMAIN q PROVE q[i] \in Elements(r)
  <2>1. i + Len(p) \in DOMAIN r /\ ~(i + Len(p) <= Len(p)) /\ (i + Len(p)) - Len(p) = i
    BY <1>1, <1>4
  <2>2. r[i + Len(p)] = q[i]
    BY <1>1, <2>1
  <2> QED BY <2>1, <2>2 DEF Elements
<1>5. Elements(r) = Elements(p) \cup Elements(q)
  BY <1>2, <1>3, <1>4 DEF Elements
<1> QED BY <1>1, <1>5 DEF r

LEMMA ShortElements ==
    ASSUME NEW S, NEW a \in S, NEW b \in S, NEW c \in S
    PROVE  /\ <<>> \in Seq(S) /\ Elements(<<>>) = {}
           /\ <<a>> \in Seq(S) /\ Elements(<<a>>) = {a}
           /\ <<a, b>> \in Seq(S) /\ Elements(<<a, b>>) = {a, b}
           /\ <<a, b, c>> \in Seq(S) /\ Elements(<<a, b, c>>) = {a, b, c}
<1>1. <<>> \in Seq(S) /\ DOMAIN <<>> = {}
  OBVIOUS
<1>2. 1..1 = {1} /\ 1..2 = {1, 2} /\ 1..3 = {1, 2, 3}
  OBVIOUS
<1> QED BY <1>1, <1>2, ShortSequences DEF Elements

\* a sequence that is made of another one, element by element
LEMMA MapElements ==
    ASSUME NEW S, NEW T, NEW q \in Seq(S), NEW f, DOMAIN f = DOMAIN q, f = [i \in DOMAIN f |-> f[i]],
           \A i \in DOMAIN q : f[i] \in T
    PROVE  f \in Seq(T) /\ Len(f) = Len(q) /\ Elements(f) \subseteq T
<1>1. Len(q) \in Nat /\ f \in [1..Len(q) -> T]
  <2>1. Len(q) \in Nat /\ DOMAIN q = 1..Len(q)
    OBVIOUS
  <2> QED BY <2>1
<1>2. f \in Seq(T) /\ Len(f) = Len(q)
  BY <1>1, FunctionSequence
<1> QED BY <1>2 DEF Elements
LEMMA ThreeElements ==
    ASSUME NEW S, NEW a \in S, NEW b \in S, NEW c \in S, NEW r, r = <<a, b, c>>
    PROVE  r \in Seq(S) /\ Elements(r) = {a, b, c}
<1>1. r \in Seq(S) /\ DOMAIN r = 1..3 /\ r[1] = a /\ r[2] = b /\ r[3] = c
  OBVIOUS
<1>2. 1..3 = {1, 2, 3}
  OBVIOUS
<1>3. ASSUME NEW x PROVE x \in Elements(r) <=> x \in {a, b, c}
  <2> HIDE DEF Elements
  <2>1. x \in Elements(r) <=> \E i \in {1, 2, 3} : r[i] = x
    BY <1>1, <1>2 DEF Elements
  <2> QED BY <1>1, <2>1
<1> QED BY <1>1, <1>3

\* a set of numbers has a least one
LEMMA LeastNumber ==
    ASSUME NEW P \in SUBSET Nat, P # {}
    PROVE  \E i \in P : \A j \in P : i <= j
<1> DEFINE T == {1..i : i \in P}
<1>1. T \subseteq FiniteSubsetsOf(Nat) /\ T # {}
  <2>1. \A i \in P : IsFiniteSet(1..i) /\ 1..i \in SUBSET Nat
    BY FS_Interval
  <2> QED BY <2>1 DEF FiniteSubsetsOf
<1> HIDE DEF T
<1>2. PICK x \in T : \A y \in T : ~(<<y, x>> \in StrictSubsetOrdering(Nat))
  BY <1>1, FS_StrictSubsetOrderingWellFounded, WFMin
<1>3. PICK i \in P : x = 1..i
  BY DEF T
<1>4. ASSUME NEW j \in P PROVE i <= j
  <2>1. SUFFICES ASSUME j < i PROVE FALSE
    OBVIOUS
  <2>2. 1..j \in T /\ 1..j \in SUBSET Nat /\ 1..i \in SUBSET Nat
    BY DEF T
  <2>3. 1..j \subseteq 1..i /\ i \in 1..i /\ i \notin 1..j
    BY <2>1
  <2>4. <<1..j, 1..i>> \in StrictSubsetOrdering(Nat)
    BY <2>2, <2>3 DEF StrictSubsetOrdering
  <2> QED BY <1>2, <1>3, <2>2, <2>4
<1> QED BY <1>4

(* Recursion over numbers *)

\* a set of numbers that holds each one after the one before
LEMMA NumberInduction ==
    ASSUME NEW n \in Nat, NEW P \in SUBSET (0..n), 0 \in P, \A i \in 1..n : i - 1 \in P => i \in P
    PROVE  \A i \in 0..n : i \in P
<1> DEFINE Bad == (0..n) \ P
<1>1. SUFFICES ASSUME Bad # {} PROVE FALSE
  OBVIOUS
<1>2. Bad \in SUBSET Nat
  OBVIOUS
<1>3. PICK i \in Bad : \A j \in Bad : i <= j
  BY <1>1, <1>2, LeastNumber
<1>4. i \in 0..n /\ i \notin P /\ i # 0
  OBVIOUS
<1>5. i \in 1..n /\ i - 1 \in 0..n /\ ~(i <= i - 1)
  BY <1>4
<1>6. i - 1 \in P
  BY <1>3, <1>5
<1> QED BY <1>4, <1>5, <1>6

\* what a function that goes through a list computes
Steps(n, start, step, f) == f[0] = start /\ \A i \in 1..n : f[i] = step[<<i, f[i - 1]>>]

\* It exists.
LEMMA NumberRecursion ==
    ASSUME NEW n \in Nat, NEW X, NEW start \in X, NEW step \in [(1..n) \X X -> X]
    PROVE  \E f \in [0..n -> X] : Steps(n, start, step, f)
<1> DEFINE Goes(m, f) == f[0] = start /\ \A i \in 1..m : f[i] = step[<<i, f[i - 1]>>]
           P == {m \in 0..n : \E f \in [0..m -> X] : Goes(m, f)}
<1>1. 0 \in P
  <2>1. PICK f : f = [i \in 0..0 |-> start]
    OBVIOUS
  <2>2. f \in [0..0 -> X] /\ Goes(0, f)
    BY <2>1
  <2>3. 0 \in 0..n
    OBVIOUS
  <2> QED BY <2>2, <2>3
<1>2. ASSUME NEW m \in 1..n, m - 1 \in P PROVE m \in P
  <2>1. PICK f \in [0..(m - 1) -> X] : Goes(m - 1, f)
    BY <1>2
  <2> DEFINE g == [i \in 0..m |-> IF i = m THEN step[<<m, f[m - 1]>>] ELSE f[i]]
  <2>2. m \in Nat /\ m # 0 /\ m - 1 \in 0..(m - 1) /\ 0 \in 0..m /\ m \in 0..m
        /\ (\A i \in 0..m : i # m => i \in 0..(m - 1))
        /\ \A i \in 1..m : i - 1 \in 0..m /\ i - 1 # m /\ (i # m => i \in 1..(m - 1))
    OBVIOUS
  <2>3. g \in [0..m -> X]
    <3>1. step[<<m, f[m - 1]>>] \in X
      BY <2>1, <2>2
    <3>2. \A i \in 0..m : i # m => f[i] \in X
      BY <2>1, <2>2
    <3> QED BY <3>1, <3>2
  <2>4. Goes(m, g)
    <3>1. g[0] = start
      BY <2>1, <2>2
    <3>2. ASSUME NEW i \in 1..m PROVE g[i] = step[<<i, g[i - 1]>>]
      <4>1. i - 1 \in 0..m /\ g[i - 1] = f[i - 1] /\ i \in 0..m
        BY <2>2
      <4>2. CASE i = m
        BY <2>2, <4>1, <4>2
      <4>3. CASE i # m
        BY <2>1, <2>2, <4>1, <4>3
      <4> QED BY <4>2, <4>3
    <3> QED BY <3>1, <3>2
  <2> HIDE DEF g, Goes
  <2> QED BY <2>3, <2>4
<1> HIDE DEF Goes
<1>3. P \in SUBSET (0..n)
  OBVIOUS
<1> HIDE DEF P
<1>4. n \in P
  BY <1>1, <1>2, <1>3, NumberInduction
<1> QED BY <1>4 DEF P, Goes, Steps
=============================================================================
