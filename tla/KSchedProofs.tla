---------------------------- MODULE KSchedProofs ----------------------------
(***************************************************************************)
(* What the operators of KSched preserve, for any set of threads and any   *)
(* number of priorities: each maps a scheduler state to a scheduler state, *)
(* and none but Suspend suspends a thread.                                 *)
(***************************************************************************)
EXTENDS KSched, TLAPS, WellFoundedInduction, SequenceTheorems, FiniteSetTheorems

-----------------------------------------------------------------------------
(* Least elements and lists                                                *)

\* A set of natural numbers that is not empty has a least element (the bit
\* search for the highest ready priority finds one): of the intervals 0 .. x
\* with x in the set, one includes no smaller one.
LEMMA LeastNat ==
  ASSUME NEW S \in SUBSET Nat, S # {}
  PROVE  \E x \in S : \A y \in S : x <= y
<1> DEFINE Below(x) == 0 .. x
           R == StrictSubsetOrdering(Nat)
           T == {Below(x) : x \in S}
<1>1. IsWellFoundedOn(R, FiniteSubsetsOf(Nat))
  BY FS_StrictSubsetOrderingWellFounded
<1>2. T \subseteq FiniteSubsetsOf(Nat)
  <2>1. \A x \in S : IsFiniteSet(Below(x))
    BY FS_Interval
  <2>2. \A x \in S : Below(x) \in SUBSET Nat
    OBVIOUS
  <2>3. \A x \in S : Below(x) \in FiniteSubsetsOf(Nat)
    BY <2>1, <2>2, Zenon DEF FiniteSubsetsOf
  <2>4. QED BY <2>3
<1>3. T # {}
  OBVIOUS
<1> HIDE DEF R, T
<1>4. PICK I \in T : \A J \in T : <<J, I>> \notin R
  BY <1>1, <1>2, <1>3, WFMin, Zenon
<1> USE DEF R, T
<1>5. PICK x \in S : I = Below(x)
  BY <1>4
<1>6. ASSUME NEW y \in S, y < x
      PROVE  FALSE
  <2>1. Below(y) \subseteq Below(x) /\ Below(y) # Below(x)
    BY <1>6
  <2>2. <<Below(y), Below(x)>> \in StrictSubsetOrdering(Nat)
    BY <2>1 DEF StrictSubsetOrdering
  <2>3. QED BY <2>2, <1>4, <1>5
<1>7. QED BY <1>6

\* Induction, for a set of numbers: the loops over lists are proved with it.
LEMMA NatInduct ==
  ASSUME NEW T, 0 \in T, \A n \in Nat : n \in T => n + 1 \in T
  PROVE  \A n \in Nat : n \in T
<1> DEFINE Rest == {n \in Nat : n \notin T}
<1>1. SUFFICES ASSUME Rest # {} PROVE FALSE
  OBVIOUS
<1>2. PICK n \in Rest : \A m \in Rest : n <= m
  <2>1. Rest \in SUBSET Nat
    OBVIOUS
  <2>2. QED BY <1>1, <2>1, LeastNat
<1>3. n \in Nat /\ n \notin T /\ n # 0
  OBVIOUS
<1>4. n - 1 \in Nat /\ n - 1 \notin Rest
  BY <1>2, <1>3
<1>5. QED BY <1>3, <1>4

\* Min, of a set of natural numbers, is its least element.
LEMMA MinNat ==
  ASSUME NEW S \in SUBSET Nat, S # {}
  PROVE  /\ Min(S) \in S
         /\ \A y \in S : Min(S) <= y
BY LeastNat, Zenon DEF Min

\* The elements of a list, by position.
LEMMA InToSet ==
  ASSUME NEW S, NEW q \in Seq(S), NEW x
  PROVE  /\ Len(q) \in Nat
         /\ x \in ToSet(q) <=> \E k \in 1 .. Len(q) : q[k] = x
         /\ \A k \in 1 .. Len(q) : q[k] \in S
BY LenProperties, ElementOfSeq DEF ToSet

\* A list on which nothing stands twice, by position.
LEMMA InjectiveSeq ==
  ASSUME NEW S, NEW q \in Seq(S)
  PROVE  IsInjective(q) <=> \A j, k \in 1 .. Len(q) : q[j] = q[k] => j = k
BY LenProperties DEF IsInjective

\* Taking the element at i out of a list moves those behind it up by one.
LEMMA RemoveAtPos ==
  ASSUME NEW S, NEW q \in Seq(S), NEW i \in 1 .. Len(q)
  PROVE  /\ RemoveAt(q, i) \in Seq(S) /\ Len(RemoveAt(q, i)) = Len(q) - 1
         /\ \A k \in 1 .. Len(q) - 1 :
              RemoveAt(q, i)[k] = IF k < i THEN q[k] ELSE q[k + 1]
<1> DEFINE a == SubSeq(q, 1, i - 1)
           b == SubSeq(q, i + 1, Len(q))
<1>1. /\ a \in Seq(S) /\ Len(a) = i - 1
      /\ \A k \in 1 .. i - 1 : a[k] = q[k]
  BY SubSeqProperties, LenProperties
<1>2. /\ b \in Seq(S) /\ Len(b) = Len(q) - i
      /\ \A k \in 1 .. Len(q) - i : b[k] = q[k + i]
  BY SubSeqProperties, LenProperties
<1> HIDE DEF a, b
<1> DEFINE c == a \o b
<1>3. /\ c \in Seq(S) /\ Len(c) = Len(q) - 1
      /\ \A k \in 1 .. Len(q) - 1 : c[k] = IF k < i THEN q[k] ELSE q[k + 1]
  <2>1. /\ c \in Seq(S) /\ Len(c) = Len(a) + Len(b)
        /\ \A k \in 1 .. Len(a) + Len(b) :
             c[k] = IF k <= Len(a) THEN a[k] ELSE b[k - Len(a)]
    BY <1>1, <1>2, ConcatProperties, Zenon
  <2>2. Len(q) \in Nat
    BY LenProperties
  <2>3. QED BY <2>1, <2>2, <1>1, <1>2
<1>4. RemoveAt(q, i) = c
  BY DEF RemoveAt, a, b
<1>5. QED BY <1>3, <1>4

\* Taking the element at i out of a list leaves a list, every other element
\* stays in it, and nothing new comes in.
LEMMA RemoveAtSeq ==
  ASSUME NEW S, NEW q \in Seq(S), NEW i \in 1 .. Len(q)
  PROVE  /\ RemoveAt(q, i) \in Seq(S)
         /\ \A x \in ToSet(q) : x # q[i] => x \in ToSet(RemoveAt(q, i))
         /\ ToSet(RemoveAt(q, i)) \subseteq ToSet(q)
         /\ IsInjective(q) => /\ IsInjective(RemoveAt(q, i))
                              /\ q[i] \notin ToSet(RemoveAt(q, i))
<1> DEFINE c == RemoveAt(q, i)
<1>3. /\ c \in Seq(S) /\ Len(c) = Len(q) - 1
      /\ \A k \in 1 .. Len(q) - 1 : c[k] = IF k < i THEN q[k] ELSE q[k + 1]
  BY RemoveAtPos
<1> HIDE DEF c
<1>5. ASSUME NEW x \in ToSet(q), x # q[i]
      PROVE  x \in ToSet(c)
  <2>1. PICK k \in 1 .. Len(q) : q[k] = x
    BY InToSet
  <2>2. Len(q) \in Nat /\ k # i
    BY <2>1, <1>5, InToSet
  <2>3. PICK j \in 1 .. Len(q) - 1 : j = IF k < i THEN k ELSE k - 1
    BY <2>2
  <2>4. c[j] = x
    BY <2>1, <2>2, <2>3, <1>3
  <2>5. j \in 1 .. Len(c)
    BY <2>2, <2>3, <1>3
  <2>6. QED BY <2>4, <2>5, <1>3, InToSet, Zenon
<1>6. Len(q) \in Nat
  BY InToSet
<1>7. ASSUME NEW x \in ToSet(c)
      PROVE  x \in ToSet(q)
  <2>1. PICK k \in 1 .. Len(c) : c[k] = x
    BY <1>3, InToSet
  <2>2. PICK j \in 1 .. Len(q) : j = IF k < i THEN k ELSE k + 1
    BY <1>3, <1>6
  <2>3. q[j] = x
    BY <2>1, <2>2, <1>3, <1>6
  <2>4. QED BY <2>3, InToSet
<1>8. ASSUME IsInjective(q)
      PROVE  IsInjective(c) /\ q[i] \notin ToSet(c)
  <2>1. \A j, k \in 1 .. Len(q) : q[j] = q[k] => j = k
    BY <1>8, InjectiveSeq
  <2>2. \A j, k \in 1 .. Len(c) : c[j] = c[k] => j = k
    BY <2>1, <1>3, <1>6
  <2>3. IsInjective(c)
    BY <2>2, <1>3, InjectiveSeq
  <2>4. \A k \in 1 .. Len(c) : c[k] # q[i]
    BY <2>1, <1>3, <1>6
  <2>5. q[i] \notin ToSet(c)
    BY <2>4, <1>3, InToSet
  <2>6. QED BY <2>3, <2>5
<1>9. QED BY <1>3, <1>5, <1>7, <1>8 DEF c

\* rt_list_remove: the list stays a list and loses nothing but the thread, and
\* that thread altogether if it stood there once.
LEMMA UnlinkSeq ==
  ASSUME NEW S, NEW q \in Seq(S), NEW t
  PROVE  /\ Unlink(q, t) \in Seq(S)
         /\ \A x \in ToSet(q) : x # t => x \in ToSet(Unlink(q, t))
         /\ t \notin ToSet(q) => Unlink(q, t) = q
         /\ IsInjective(q) => /\ IsInjective(Unlink(q, t))
                              /\ ToSet(Unlink(q, t)) = ToSet(q) \ {t}
<1>1. CASE \E i \in 1 .. Len(q) : q[i] = t
  <2> DEFINE I == {i \in 1 .. Len(q) : q[i] = t}
  <2>1. I \in SUBSET Nat /\ I # {}
    BY <1>1
  <2>2. Min(I) \in I
    BY <2>1, MinNat
  <2>3. Unlink(q, t) = RemoveAt(q, Min(I))
    BY <1>1, <2>1 DEF Unlink, RemoveFirst, SelectInSeq
  <2>4. q[Min(I)] = t /\ Min(I) \in 1 .. Len(q)
    BY <2>2
  <2>5. t \in ToSet(q)
    BY <2>4, InToSet
  <2> HIDE DEF I
  <2>6. QED BY <2>3, <2>4, <2>5, RemoveAtSeq
<1>2. CASE ~ \E i \in 1 .. Len(q) : q[i] = t
  <2>1. Unlink(q, t) = q
    BY <1>2 DEF Unlink, RemoveFirst
  <2>2. t \notin ToSet(q)
    BY <1>2, InToSet
  <2>3. QED BY <2>1, <2>2
<1>3. QED BY <1>1, <1>2

\* Inserting an element before position i moves those from there on back by one.
LEMMA InsertAtPos ==
  ASSUME NEW S, NEW q \in Seq(S), NEW e \in S, NEW i \in 1 .. Len(q) + 1
  PROVE  /\ InsertAt(q, i, e) \in Seq(S) /\ Len(InsertAt(q, i, e)) = Len(q) + 1
         /\ \A k \in 1 .. Len(q) + 1 : InsertAt(q, i, e)[k] =
              IF k < i THEN q[k] ELSE IF k = i THEN e ELSE q[k - 1]
<1> DEFINE a == SubSeq(q, 1, i - 1)
           b == SubSeq(q, i, Len(q))
<1>1. Len(q) \in Nat /\ \A k \in 1 .. Len(q) : q[k] \in S
  BY InToSet
<1>2. /\ a \in Seq(S) /\ Len(a) = i - 1
      /\ \A k \in 1 .. i - 1 : a[k] = q[k]
  BY <1>1, SubSeqProperties
<1>3. /\ b \in Seq(S) /\ Len(b) = Len(q) - i + 1
      /\ \A k \in 1 .. Len(q) - i + 1 : b[k] = q[k + i - 1]
  BY <1>1, SubSeqProperties
<1> DEFINE one == <<e>>
<1>4. one \in Seq(S) /\ Len(one) = 1 /\ one[1] = e
  OBVIOUS
<1> HIDE DEF a, b, one
<1> DEFINE c == a \o one
           d == c \o b
<1>5. /\ c \in Seq(S) /\ Len(c) = i
      /\ \A k \in 1 .. i : c[k] = IF k < i THEN q[k] ELSE e
  <2>1. /\ c \in Seq(S) /\ Len(c) = Len(a) + Len(one)
        /\ \A k \in 1 .. Len(a) + Len(one) :
             c[k] = IF k <= Len(a) THEN a[k] ELSE one[k - Len(a)]
    BY <1>2, <1>4, ConcatProperties, Zenon
  <2>2. Len(c) = i
    BY <2>1, <1>1, <1>2, <1>4
  <2>3. ASSUME NEW k \in 1 .. i
        PROVE  c[k] = IF k < i THEN q[k] ELSE e
    <3>1. c[k] = IF k <= i - 1 THEN a[k] ELSE one[k - (i - 1)]
      BY <2>1, <2>2, <1>2
    <3>2. CASE k < i
      BY <3>1, <3>2, <1>2
    <3>3. CASE k = i
      <4>1. k - (i - 1) = 1 /\ ~(k <= i - 1)
        BY <3>3
      <4>2. QED BY <3>1, <3>3, <4>1, <1>4
    <3>4. k < i \/ k = i
      BY <1>1
    <3>5. QED BY <3>2, <3>3, <3>4
  <2>4. QED BY <2>1, <2>2, <2>3
<1> HIDE DEF c
<1>6. /\ d \in Seq(S) /\ Len(d) = Len(q) + 1
      /\ \A k \in 1 .. Len(q) + 1 :
           d[k] = IF k < i THEN q[k] ELSE IF k = i THEN e ELSE q[k - 1]
  <2>1. /\ d \in Seq(S) /\ Len(d) = Len(c) + Len(b)
        /\ \A k \in 1 .. Len(c) + Len(b) :
             d[k] = IF k <= Len(c) THEN c[k] ELSE b[k - Len(c)]
    BY <1>3, <1>5, ConcatProperties, Zenon
  <2>2. QED BY <2>1, <1>1, <1>3, <1>5
<1>7. InsertAt(q, i, e) = d
  BY DEF InsertAt, a, b, c, d, one
<1>8. QED BY <1>6, <1>7

\* Inserting an element before position i of a list adds it and nothing else.
LEMMA InsertAtSeq ==
  ASSUME NEW S, NEW q \in Seq(S), NEW e \in S, NEW i \in 1 .. Len(q) + 1
  PROVE  /\ InsertAt(q, i, e) \in Seq(S)
         /\ ToSet(InsertAt(q, i, e)) = ToSet(q) \cup {e}
         /\ IsInjective(q) /\ e \notin ToSet(q) => IsInjective(InsertAt(q, i, e))
<1> DEFINE d == InsertAt(q, i, e)
<1>1. Len(q) \in Nat /\ \A k \in 1 .. Len(q) : q[k] \in S
  BY InToSet
<1>6. /\ d \in Seq(S) /\ Len(d) = Len(q) + 1
      /\ \A k \in 1 .. Len(q) + 1 :
           d[k] = IF k < i THEN q[k] ELSE IF k = i THEN e ELSE q[k - 1]
  BY InsertAtPos
<1> HIDE DEF d
<1>8. ASSUME NEW x \in ToSet(q) \cup {e}
      PROVE  x \in ToSet(d)
  <2>1. PICK j \in 1 .. Len(d) : d[j] = x
    <3>1. CASE x = e
      BY <3>1, <1>1, <1>6
    <3>2. CASE x \in ToSet(q)
      <4>1. PICK k \in 1 .. Len(q) : q[k] = x
        BY <3>2, InToSet
      <4>2. CASE k < i
        BY <4>1, <4>2, <1>1, <1>6
      <4>3. CASE k >= i
        <5>1. k + 1 \in 1 .. Len(d) /\ d[k + 1] = x
          BY <4>1, <4>3, <1>1, <1>6
        <5>2. QED BY <5>1
      <4>4. QED BY <4>1, <4>2, <4>3, <1>1
    <3>3. QED BY <3>1, <3>2
  <2>2. QED BY <2>1, <1>6, InToSet, Zenon
<1>9. ASSUME NEW x \in ToSet(d)
      PROVE  x \in ToSet(q) \cup {e}
  <2>1. PICK k \in 1 .. Len(d) : d[k] = x
    BY <1>6, InToSet
  <2>2. CASE k = i
    BY <2>1, <2>2, <1>1, <1>6
  <2>3. CASE k # i
    <3>1. PICK j \in 1 .. Len(q) : j = IF k < i THEN k ELSE k - 1
      BY <2>3, <1>1, <1>6
    <3>2. q[j] = x
      BY <2>1, <2>3, <3>1, <1>1, <1>6
    <3>3. QED BY <3>2, InToSet
  <2>4. QED BY <2>2, <2>3
<1>10. ASSUME IsInjective(q), e \notin ToSet(q)
       PROVE  IsInjective(d)
  <2>1. \A j, k \in 1 .. Len(q) : q[j] = q[k] => j = k
    BY <1>10, InjectiveSeq
  <2>2. \A j \in 1 .. Len(q) : q[j] # e
    BY <1>10, InToSet
  <2>3. ASSUME NEW j \in 1 .. Len(d), NEW k \in 1 .. Len(d), d[j] = d[k]
        PROVE  j = k
    <3>1. CASE j = i \/ k = i
      <4>1. \A l \in 1 .. Len(d) : l # i => d[l] # e
        BY <2>2, <1>1, <1>6
      <4>2. d[i] = e
        BY <1>1, <1>6
      <4>3. QED BY <2>3, <3>1, <4>1, <4>2
    <3>2. CASE j # i /\ k # i
      <4>1. PICK l \in 1 .. Len(q) : l = IF j < i THEN j ELSE j - 1
        BY <3>2, <1>1, <1>6
      <4>2. PICK m \in 1 .. Len(q) : m = IF k < i THEN k ELSE k - 1
        BY <3>2, <1>1, <1>6
      <4>3. d[j] = q[l] /\ d[k] = q[m]
        BY <3>2, <4>1, <4>2, <1>1, <1>6
      <4>4. l = m
        BY <2>1, <2>3, <4>3
      <4>5. QED BY <3>2, <4>1, <4>2, <4>4, <1>1, <1>6
    <3>3. QED BY <3>1, <3>2
  <2>4. QED BY <2>3, <1>6, InjectiveSeq
<1>11. QED BY <1>6, <1>8, <1>9, <1>10 DEF d

\* rt_susp_list_enqueue, RT_IPC_FLAG_PRIO: the list keeps all it had and gains
\* the thread.
LEMMA EnqueuePrioSeq ==
  ASSUME NEW S, NEW q \in Seq(S), NEW t \in S, NEW prio
  PROVE  /\ EnqueuePrio(q, t, prio) \in Seq(S)
         /\ ToSet(EnqueuePrio(q, t, prio)) = ToSet(q) \cup {t}
         /\ IsInjective(q) /\ t \notin ToSet(q) => IsInjective(EnqueuePrio(q, t, prio))
<1> DEFINE after == {i \in 1 .. Len(q) : prio[t] < prio[q[i]]}
           at == IF after = {} THEN Len(q) + 1 ELSE Min(after)
<1>1. Len(q) \in Nat
  BY InToSet
<1>2. at \in 1 .. Len(q) + 1
  <2>1. CASE after = {}
    BY <1>1, <2>1
  <2>2. CASE after # {}
    <3>1. after \in SUBSET Nat
      OBVIOUS
    <3> HIDE DEF after
    <3>2. Min(after) \in after
      BY <2>2, <3>1, MinNat
    <3>3. Min(after) \in 1 .. Len(q)
      BY <3>2 DEF after
    <3>4. QED BY <1>1, <2>2, <3>3
  <2>3. QED BY <2>1, <2>2
<1>3. EnqueuePrio(q, t, prio) = InsertAt(q, at, t)
  BY DEF EnqueuePrio
<1> HIDE DEF at
<1>4. QED BY <1>2, <1>3, InsertAtSeq

\* rt_list_insert_before the head of the list: the element goes to the tail.
LEMMA AppendSeq ==
  ASSUME NEW S, NEW q \in Seq(S), NEW e \in S
  PROVE  /\ Append(q, e) \in Seq(S)
         /\ ToSet(Append(q, e)) = ToSet(q) \cup {e}
         /\ IsInjective(q) /\ e \notin ToSet(q) => IsInjective(Append(q, e))
<1> DEFINE d == Append(q, e)
<1>1. Len(q) \in Nat
  BY InToSet
<1>2. /\ d \in Seq(S) /\ Len(d) = Len(q) + 1
      /\ \A k \in 1 .. Len(q) : d[k] = q[k]
      /\ d[Len(q) + 1] = e
  BY AppendProperties
<1> HIDE DEF d
<1>3. ASSUME NEW x
      PROVE  x \in ToSet(d) <=> x \in ToSet(q) \cup {e}
  <2>1. x \in ToSet(d) <=> \E k \in 1 .. Len(d) : d[k] = x
    BY <1>2, InToSet
  <2>2. x \in ToSet(q) <=> \E k \in 1 .. Len(q) : q[k] = x
    BY InToSet
  <2>3. ASSUME NEW k \in 1 .. Len(d), d[k] = x
        PROVE  x \in ToSet(q) \cup {e}
    <3>1. CASE k = Len(q) + 1
      BY <2>3, <3>1, <1>2
    <3>2. CASE k \in 1 .. Len(q)
      BY <2>2, <2>3, <3>2, <1>2
    <3>3. QED BY <3>1, <3>2, <1>1, <1>2
  <2>4. ASSUME x \in ToSet(q) \cup {e}
        PROVE  \E k \in 1 .. Len(d) : d[k] = x
    <3>1. CASE x = e
      BY <3>1, <1>1, <1>2
    <3>2. CASE x \in ToSet(q)
      BY <2>2, <3>2, <1>1, <1>2
    <3>3. QED BY <2>4, <3>1, <3>2
  <2>5. QED BY <2>1, <2>3, <2>4
<1>4. ASSUME IsInjective(q), e \notin ToSet(q)
      PROVE  IsInjective(d)
  <2>1. \A j, k \in 1 .. Len(q) : q[j] = q[k] => j = k
    BY <1>4, InjectiveSeq
  <2>2. \A j \in 1 .. Len(q) : q[j] # e
    BY <1>4, InToSet
  <2>3. ASSUME NEW j \in 1 .. Len(d), NEW k \in 1 .. Len(d), d[j] = d[k]
        PROVE  j = k
    <3>1. CASE j = Len(q) + 1 \/ k = Len(q) + 1
      BY <2>2, <2>3, <3>1, <1>1, <1>2
    <3>2. CASE j \in 1 .. Len(q) /\ k \in 1 .. Len(q)
      BY <2>1, <2>3, <3>2, <1>2
    <3>3. QED BY <3>1, <3>2, <1>1, <1>2
  <2>4. QED BY <2>3, <1>2, InjectiveSeq
<1>5. QED BY <1>2, <1>3, <1>4 DEF d

\* rt_list_insert_after the head of the list: the element goes to the front.
LEMMA ConsSeq ==
  ASSUME NEW S, NEW q \in Seq(S), NEW e \in S
  PROVE  /\ <<e>> \o q \in Seq(S)
         /\ ToSet(<<e>> \o q) = ToSet(q) \cup {e}
         /\ IsInjective(q) /\ e \notin ToSet(q) => IsInjective(<<e>> \o q)
<1> DEFINE d == <<e>> \o q
<1>1. Len(q) \in Nat
  BY InToSet
<1>2. /\ d \in Seq(S) /\ Len(d) = Len(q) + 1
      /\ d[1] = e
      /\ \A k \in 2 .. Len(q) + 1 : d[k] = q[k - 1]
  <2>1. <<e>> \in Seq(S) /\ Len(<<e>>) = 1 /\ <<e>>[1] = e
    OBVIOUS
  <2>2. /\ d \in Seq(S) /\ Len(d) = Len(<<e>>) + Len(q)
        /\ \A k \in 1 .. Len(<<e>>) + Len(q) :
             d[k] = IF k <= Len(<<e>>) THEN <<e>>[k] ELSE q[k - Len(<<e>>)]
    BY <2>1, ConcatProperties, Zenon
  <2>3. QED BY <2>1, <2>2, <1>1
<1> HIDE DEF d
<1>3. ASSUME NEW x
      PROVE  x \in ToSet(d) <=> x \in ToSet(q) \cup {e}
  <2>1. x \in ToSet(d) <=> \E k \in 1 .. Len(d) : d[k] = x
    BY <1>2, InToSet
  <2>2. x \in ToSet(q) <=> \E k \in 1 .. Len(q) : q[k] = x
    BY InToSet
  <2>3. ASSUME NEW k \in 1 .. Len(d), d[k] = x
        PROVE  x \in ToSet(q) \cup {e}
    <3>1. CASE k = 1
      BY <2>3, <3>1, <1>2
    <3>2. CASE k # 1
      <4>1. k - 1 \in 1 .. Len(q) /\ q[k - 1] = x
        BY <2>3, <3>2, <1>1, <1>2
      <4>2. QED BY <4>1, <2>2
    <3>3. QED BY <3>1, <3>2
  <2>4. ASSUME x \in ToSet(q) \cup {e}
        PROVE  \E k \in 1 .. Len(d) : d[k] = x
    <3>1. CASE x = e
      BY <3>1, <1>1, <1>2
    <3>2. CASE x \in ToSet(q)
      <4>1. PICK k \in 1 .. Len(q) : q[k] = x
        BY <2>2, <3>2
      <4>2. k + 1 \in 1 .. Len(d) /\ d[k + 1] = x
        BY <4>1, <1>1, <1>2
      <4>3. QED BY <4>2
    <3>3. QED BY <2>4, <3>1, <3>2
  <2>5. QED BY <2>1, <2>3, <2>4
<1>4. ASSUME IsInjective(q), e \notin ToSet(q)
      PROVE  IsInjective(d)
  <2>1. \A j, k \in 1 .. Len(q) : q[j] = q[k] => j = k
    BY <1>4, InjectiveSeq
  <2>2. \A j \in 1 .. Len(q) : q[j] # e
    BY <1>4, InToSet
  <2>3. ASSUME NEW j \in 1 .. Len(d), NEW k \in 1 .. Len(d), d[j] = d[k]
        PROVE  j = k
    <3>1. CASE j = 1 \/ k = 1
      BY <2>2, <2>3, <3>1, <1>1, <1>2
    <3>2. CASE j # 1 /\ k # 1
      <4>1. /\ j - 1 \in 1 .. Len(q) /\ k - 1 \in 1 .. Len(q)
            /\ q[j - 1] = q[k - 1]
        BY <2>3, <3>2, <1>1, <1>2
      <4>2. j - 1 = k - 1
        BY <2>1, <4>1
      <4>3. QED BY <4>2, <1>1, <1>2
    <3>3. QED BY <3>1, <3>2
  <2>4. QED BY <2>3, <1>2, InjectiveSeq
<1>5. QED BY <1>2, <1>3, <1>4 DEF d

\* The loop that takes threads off a list ends with what it has kept.
LEMMA WithoutDef ==
  ASSUME NEW S, NEW q \in Seq(S), NEW T
  PROVE  \E f : /\ f = [n \in 0 .. Len(q) |->
                         IF n = 0 THEN <<>>
                         ELSE IF q[n] \in T THEN f[n - 1] ELSE Append(f[n - 1], q[n])]
               /\ Without(q, T) = f[Len(q)]
<1> DEFINE Eq(f, n) ==
             f = [k \in 0 .. n |->
                    IF k = 0 THEN <<>>
                    ELSE IF q[k] \in T THEN f[k - 1] ELSE Append(f[k - 1], q[k])]
           Found == {n \in Nat : \E f : Eq(f, n)}
<1>1. Len(q) \in Nat
  BY InToSet
<1>2. 0 \in Found
  <2>1. Eq([k \in 0 .. 0 |-> <<>>], 0)
    OBVIOUS
  <2>2. QED BY <2>1
<1>3. ASSUME NEW n \in Nat, n \in Found
      PROVE  n + 1 \in Found
  <2>1. PICK f : Eq(f, n)
    BY <1>3
  <2> DEFINE new == IF q[n + 1] \in T THEN f[n] ELSE Append(f[n], q[n + 1])
             g == [k \in 0 .. n + 1 |-> IF k = n + 1 THEN new ELSE f[k]]
  <2>2. \A k \in 0 .. n : f[k] =
          IF k = 0 THEN <<>>
          ELSE IF q[k] \in T THEN f[k - 1] ELSE Append(f[k - 1], q[k])
    BY <2>1
  <2>3. ASSUME NEW k \in 0 .. n + 1
        PROVE  g[k] = IF k = 0 THEN <<>>
                      ELSE IF q[k] \in T THEN g[k - 1] ELSE Append(g[k - 1], q[k])
    <3>1. CASE k = n + 1
      BY <3>1
    <3>2. CASE k \in 0 .. n
      BY <2>2, <3>2
    <3>3. QED BY <3>1, <3>2
  <2>4. g = [k \in 0 .. n + 1 |-> g[k]]
    OBVIOUS
  <2> HIDE DEF g
  <2>5. Eq(g, n + 1)
    BY <2>3, <2>4
  <2> HIDE DEF Eq
  <2>6. \E h : Eq(h, n + 1)
    BY <2>5
  <2>7. QED BY <2>6
<1>4. \A n \in Nat : n \in Found
  <2> HIDE DEF Found
  <2>1. QED BY <1>2, <1>3, NatInduct
<1>5. \E f : Eq(f, Len(q))
  BY <1>1, <1>4
<1>6. Without(q, T) = (CHOOSE f : Eq(f, Len(q)))[Len(q)]
  BY DEF Without
<1>7. Eq((CHOOSE f : Eq(f, Len(q))), Len(q))
  BY <1>5, Zenon
<1>8. QED BY <1>6, <1>7

\* Only the empty list has no elements.
LEMMA EmptyToSet ==
  ASSUME NEW S, NEW q \in Seq(S)
  PROVE  ToSet(q) = {} <=> q = <<>>
<1>1. CASE q = <<>>
  BY <1>1 DEF ToSet
<1>2. CASE q # <<>>
  <2>1. Len(q) \in Nat /\ Len(q) # 0
    BY <1>2, EmptySeq
  <2>2. q[1] \in ToSet(q)
    BY <2>1, InToSet
  <2>3. QED BY <1>2, <2>2
<1>3. QED BY <1>1, <1>2

\* Threads that are taken off a list are off it, and nothing else changes.
LEMMA WithoutSeq ==
  ASSUME NEW S, NEW q \in Seq(S), NEW T
  PROVE  /\ Without(q, T) \in Seq(S)
         /\ ToSet(Without(q, T)) = ToSet(q) \ T
         /\ IsInjective(q) => IsInjective(Without(q, T))
<1>1. Len(q) \in Nat /\ \A k \in 1 .. Len(q) : q[k] \in S
  BY InToSet
<1>2. PICK f : /\ f = [n \in 0 .. Len(q) |->
                       IF n = 0 THEN <<>>
                       ELSE IF q[n] \in T THEN f[n - 1] ELSE Append(f[n - 1], q[n])]
               /\ Without(q, T) = f[Len(q)]
  BY WithoutDef
<1>3. f[0] = <<>>
  BY <1>1, <1>2
<1>4. ASSUME NEW n \in Nat, n + 1 <= Len(q)
      PROVE  f[n + 1] = IF q[n + 1] \in T THEN f[n] ELSE Append(f[n], q[n + 1])
  <2>1. n + 1 \in 0 .. Len(q) /\ n + 1 # 0 /\ (n + 1) - 1 = n
    BY <1>1, <1>4
  <2>2. QED BY <1>2, <2>1
<1> DEFINE Kept(n) ==
             /\ f[n] \in Seq(S)
             /\ \A x : x \in ToSet(f[n]) <=> /\ \E k \in 1 .. n : q[k] = x
                                          /\ x \notin T
             /\ IsInjective(q) => IsInjective(f[n])
           Good == {n \in Nat : n <= Len(q) => Kept(n)}
<1>5. 0 \in Good
  <2>1. <<>> \in Seq(S)
    OBVIOUS
  <2>2. ToSet(<<>>) = {}
    BY <2>1, EmptyToSet
  <2>3. IsInjective(<<>>)
    BY DEF IsInjective
  <2>4. \A x : ~ \E k \in 1 .. 0 : q[k] = x
    OBVIOUS
  <2>5. Kept(0)
    BY <1>3, <2>1, <2>2, <2>3, <2>4, Zenon
  <2>6. QED BY <2>5
<1>6. ASSUME NEW n \in Nat, n \in Good
      PROVE  n + 1 \in Good
  <2>1. SUFFICES ASSUME n + 1 <= Len(q) PROVE Kept(n + 1)
    OBVIOUS
  <2>2. Kept(n)
    BY <1>1, <1>6, <2>1
  <2>3. n + 1 \in 1 .. Len(q) /\ q[n + 1] \in S
    BY <1>1, <2>1
  <2>4. \A x : (\E k \in 1 .. n + 1 : q[k] = x) <=> (\E k \in 1 .. n : q[k] = x) \/ x = q[n + 1]
    OBVIOUS
  <2>5. CASE q[n + 1] \in T
    <3>1. f[n + 1] = f[n]
      BY <1>4, <2>1, <2>5
    <3>2. QED BY <2>2, <2>4, <2>5, <3>1, Zenon
  <2>6. CASE q[n + 1] \notin T
    <3>1. f[n + 1] = Append(f[n], q[n + 1])
      BY <1>4, <2>1, <2>6
    <3>2. /\ Append(f[n], q[n + 1]) \in Seq(S)
          /\ ToSet(Append(f[n], q[n + 1])) = ToSet(f[n]) \cup {q[n + 1]}
          /\ IsInjective(f[n]) /\ q[n + 1] \notin ToSet(f[n])
               => IsInjective(Append(f[n], q[n + 1]))
      BY <2>2, <2>3, AppendSeq
    <3>3. ASSUME NEW x
          PROVE  x \in ToSet(f[n + 1]) <=> /\ \E k \in 1 .. n + 1 : q[k] = x
                                          /\ x \notin T
      BY <2>2, <2>4, <2>6, <3>1, <3>2, Zenon
    <3>4. ASSUME IsInjective(q)
          PROVE  q[n + 1] \notin ToSet(f[n])
      <4>1. \A k \in 1 .. n : q[k] # q[n + 1]
        BY <2>3, <3>4, <1>1, InjectiveSeq
      <4>2. QED BY <4>1, <2>2, Zenon
    <3>5. QED BY <2>2, <3>1, <3>2, <3>3, <3>4, Zenon
  <2>7. QED BY <2>5, <2>6
<1>7. \A n \in Nat : n \in Good
  <2> HIDE DEF Good
  <2>1. QED BY <1>5, <1>6, NatInduct
<1>8. Kept(Len(q))
  BY <1>1, <1>7
<1>9. \A x : x \in ToSet(q) <=> \E k \in 1 .. Len(q) : q[k] = x
  BY InToSet
<1>10. QED BY <1>2, <1>8, <1>9

-----------------------------------------------------------------------------
(* The operators on scheduler states                                       *)

\* The threads that are suspended in s2 were so in s1.
SuspendsNone(s1, s2) ==
  \A x \in Thread : s2.stat[x] = "suspend" => s1.stat[x] = "suspend"

\* rt_sched_remove_thread changes one queue and nothing else.
LEMMA RemoveReadyState ==
  ASSUME NEW s \in SchedState, NEW t \in Thread
  PROVE  \E q \in [Prio -> Seq(Thread)] : RemoveReady(s, t) = [s EXCEPT !.ready = q]
<1> DEFINE old == s.ready[s.prio[t]]
           new == Unlink(old, t)
           q == [s.ready EXCEPT ![s.prio[t]] = new]
<1>1. s.prio[t] \in Prio /\ old \in Seq(Thread)
  BY DEF SchedState
<1>2. new \in Seq(Thread)
  BY <1>1, UnlinkSeq
<1>3. RemoveReady(s, t) = [s EXCEPT !.ready[s.prio[t]] = new]
  BY DEF RemoveReady
<1> HIDE DEF new
<1>4. q \in [Prio -> Seq(Thread)]
  BY <1>1, <1>2 DEF SchedState
<1>5. RemoveReady(s, t) = [s EXCEPT !.ready = q]
  BY <1>3 DEF SchedState
<1>6. QED BY <1>4, <1>5

\* rt_sched_insert_thread makes the thread ready or running and changes no
\* other thread.
LEMMA InsertState ==
  ASSUME NEW s \in SchedState, NEW t \in Thread
  PROVE  /\ Insert(s, t) \in SchedState
         /\ Insert(s, t).cur = s.cur
         /\ Insert(s, t).prio = s.prio
         /\ Insert(s, t).stat[t] \in {"ready", "running"}
         /\ \A x \in Thread \ {t} : Insert(s, t).stat[x] = s.stat[x]
<1>1. CASE t = s.cur
  <2>1. Insert(s, t) = [s EXCEPT !.stat[t] = "running"]
    BY <1>1 DEF Insert
  <2>2. [s EXCEPT !.stat[t] = "running"] \in SchedState
    BY DEF SchedState, Stat
  <2>3. QED BY <2>1, <2>2 DEF SchedState
<1>2. CASE t # s.cur
  <2> DEFINE old == s.ready[s.prio[t]]
             new == IF s.yield[t] THEN Append(old, t) ELSE <<t>> \o old
  <2>1. s.prio[t] \in Prio /\ old \in Seq(Thread)
    BY DEF SchedState
  <2>2. new \in Seq(Thread)
    BY <2>1
  <2>3. Insert(s, t) = [s EXCEPT !.stat[t] = "ready", !.ready[s.prio[t]] = new]
    BY <1>2 DEF Insert
  <2> HIDE DEF new
  <2>4. [s EXCEPT !.stat[t] = "ready", !.ready[s.prio[t]] = new] \in SchedState
    BY <2>1, <2>2 DEF SchedState, Stat
  <2>5. QED BY <2>3, <2>4 DEF SchedState
<1>3. QED BY <1>1, <1>2

\* rt_sched_thread_change_priority suspends and wakes nobody.
LEMMA ChangePrioState ==
  ASSUME NEW s \in SchedState, NEW t \in Thread, NEW p \in Prio
  PROVE  /\ ChangePrio(s, t, p) \in SchedState
         /\ ChangePrio(s, t, p).cur = s.cur
         /\ \A x \in Thread :
              ChangePrio(s, t, p).stat[x] = "suspend" <=> s.stat[x] = "suspend"
<1>1. CASE s.stat[t] = "ready"
  <2> DEFINE r == [RemoveReady(s, t) EXCEPT !.prio[t] = p, !.yield[t] = FALSE]
  <2>1. PICK q \in [Prio -> Seq(Thread)] : RemoveReady(s, t) = [s EXCEPT !.ready = q]
    BY RemoveReadyState
  <2>2. r \in SchedState
    BY <2>1 DEF SchedState
  <2>3. r.cur = s.cur /\ r.stat = s.stat
    BY <2>1 DEF SchedState
  <2>4. ChangePrio(s, t, p) = Insert(r, t)
    BY <1>1 DEF ChangePrio
  <2> HIDE DEF r
  <2>5. /\ Insert(r, t) \in SchedState
        /\ Insert(r, t).cur = r.cur
        /\ Insert(r, t).stat[t] \in {"ready", "running"}
        /\ \A x \in Thread \ {t} : Insert(r, t).stat[x] = r.stat[x]
    BY <2>2, InsertState
  <2>6. QED BY <1>1, <2>3, <2>4, <2>5
<1>2. CASE s.stat[t] # "ready"
  <2>1. ChangePrio(s, t, p) = [s EXCEPT !.prio[t] = p]
    BY <1>2 DEF ChangePrio
  <2>2. [s EXCEPT !.prio[t] = p] \in SchedState
    BY DEF SchedState
  <2>3. QED BY <2>1, <2>2 DEF SchedState
<1>3. QED BY <1>1, <1>2

\* rt_thread_suspend_to_list suspends that thread and no other.
LEMMA SuspendState ==
  ASSUME NEW s \in SchedState, NEW t \in Thread
  PROVE  /\ Suspend(s, t) \in SchedState
         /\ Suspend(s, t).cur = s.cur
         /\ Suspend(s, t).prio = s.prio
         /\ Suspend(s, t).stat = [s.stat EXCEPT ![t] = "suspend"]
<1>1. PICK q \in [Prio -> Seq(Thread)] : RemoveReady(s, t) = [s EXCEPT !.ready = q]
  BY RemoveReadyState
<1>2. Suspend(s, t) = [[s EXCEPT !.ready = q] EXCEPT !.stat[t] = "suspend"]
  BY <1>1 DEF Suspend
<1>3. [[s EXCEPT !.ready = q] EXCEPT !.stat[t] = "suspend"] \in SchedState
  BY DEF SchedState, Stat
<1>4. QED BY <1>2, <1>3 DEF SchedState

\* rt_thread_close closes that thread and no other.
LEMMA CloseState ==
  ASSUME NEW s \in SchedState, NEW t \in Thread
  PROVE  /\ Close(s, t) \in SchedState
         /\ Close(s, t).cur = s.cur
         /\ Close(s, t).prio = s.prio
         /\ Close(s, t).stat = [s.stat EXCEPT ![t] = "close"]
<1>1. PICK q \in [Prio -> Seq(Thread)] : RemoveReady(s, t) = [s EXCEPT !.ready = q]
  BY RemoveReadyState
<1>2. Close(s, t) =
        [[s EXCEPT !.ready = q] EXCEPT !.stat[t] = "close", !.yield[t] = FALSE]
  BY <1>1 DEF Close
<1>3. [[s EXCEPT !.ready = q] EXCEPT !.stat[t] = "close", !.yield[t] = FALSE]
        \in SchedState
  BY DEF SchedState, Stat
<1>4. QED BY <1>2, <1>3 DEF SchedState

\* The context switch goes to a thread and suspends none.
LEMMA SwitchToState ==
  ASSUME NEW s \in SchedState, NEW to \in Thread
  PROVE  SwitchTo(s, to) \in SchedState /\ SuspendsNone(s, SwitchTo(s, to))
<1> DEFINE from == s.cur
           s1 == [s EXCEPT !.cur = to]
           s2 == IF s.stat[from] = "running" THEN Insert(s1, from) ELSE s1
           s3 == [s2 EXCEPT !.yield[from] = FALSE]
           s4 == [RemoveReady(s3, to) EXCEPT !.stat[to] = "running"]
<1>1. s1 \in SchedState /\ s1.stat = s.stat /\ from \in Thread
  BY DEF SchedState
<1>2. SwitchTo(s, to) = s4
  BY DEF SwitchTo
<1> HIDE DEF s1, from
<1>3. s2 \in SchedState /\ \A x \in Thread : s2.stat[x] = "suspend" => s.stat[x] = "suspend"
  <2>1. CASE s.stat[from] = "running"
    <3>1. /\ Insert(s1, from) \in SchedState
          /\ Insert(s1, from).stat[from] \in {"ready", "running"}
          /\ \A x \in Thread \ {from} : Insert(s1, from).stat[x] = s1.stat[x]
      BY <1>1, InsertState
    <3>2. QED BY <1>1, <2>1, <3>1
  <2>2. CASE s.stat[from] # "running"
    BY <1>1, <2>2
  <2>3. QED BY <2>1, <2>2
<1> HIDE DEF s2
<1>4. s3 \in SchedState
  BY <1>1, <1>3 DEF SchedState
<1>5. s3.stat = s2.stat
  BY <1>3 DEF SchedState
<1> HIDE DEF s3
<1>6. PICK q \in [Prio -> Seq(Thread)] : RemoveReady(s3, to) = [s3 EXCEPT !.ready = q]
  BY <1>4, RemoveReadyState
<1>7. s4 = [[s3 EXCEPT !.ready = q] EXCEPT !.stat[to] = "running"]
  BY <1>6
<1> HIDE DEF s4
<1>8. s4 \in SchedState
  BY <1>4, <1>7 DEF SchedState, Stat
<1>9. \A x \in Thread : s4.stat[x] = "suspend" => s3.stat[x] = "suspend"
  BY <1>4, <1>7 DEF SchedState
<1>10. QED BY <1>2, <1>3, <1>5, <1>8, <1>9 DEF SuspendsNone

\* rt_schedule
LEMMA ScheduleState ==
  ASSUME NEW s \in SchedState
  PROVE  Schedule(s) \in SchedState /\ SuspendsNone(s, Schedule(s))
<1> DEFINE p == HighestPrio(s)
<1>1. CASE ReadyPrio(s) = {} \/ Keeps(s, p)
  BY <1>1 DEF Schedule, SuspendsNone
<1>2. CASE ReadyPrio(s) # {} /\ ~Keeps(s, p)
  <2>1. ReadyPrio(s) \in SUBSET Nat
    BY ThreadAssumption DEF ReadyPrio, Prio
  <2>2. p \in ReadyPrio(s)
    BY <1>2, <2>1, MinNat DEF HighestPrio
  <2>3. s.ready[p] \in Seq(Thread) /\ s.ready[p] # <<>>
    BY <2>2 DEF ReadyPrio, SchedState
  <2>4. Head(s.ready[p]) \in Thread
    BY <2>3, HeadTailProperties
  <2>5. Schedule(s) = SwitchTo(s, Head(s.ready[p]))
    BY <1>2 DEF Schedule
  <2>6. QED BY <2>4, <2>5, SwitchToState
<1>3. QED BY <1>1, <1>2

\* rt_schedule under the scheduler lock does not take the CPU away.
LEMMA ScheduleLockedState ==
  ASSUME NEW s \in SchedState
  PROVE  /\ ScheduleLocked(s) \in SchedState
         /\ ScheduleLocked(s).cur = s.cur
         /\ ScheduleLocked(s).stat = s.stat
BY DEF ScheduleLocked, SchedState

\* rt_exit_critical
LEMMA ExitCriticalState ==
  ASSUME NEW s \in SchedState
  PROVE  ExitCritical(s) \in SchedState /\ SuspendsNone(s, ExitCritical(s))
<1> DEFINE r == [s EXCEPT !.pend = FALSE]
<1>1. r \in SchedState /\ r.stat = s.stat
  BY DEF SchedState
<1> HIDE DEF r
<1>2. Schedule(r) \in SchedState /\ SuspendsNone(r, Schedule(r))
  BY <1>1, ScheduleState
<1>3. ExitCritical(s) = IF s.pend THEN Schedule(r) ELSE s
  BY DEF ExitCritical, r
<1>4. QED BY <1>1, <1>2, <1>3 DEF SuspendsNone

-----------------------------------------------------------------------------
(* The ready queues                                                        *)

\* rt_sched_insert_thread puts a thread that is not ready on one queue, once;
\* it is the current thread that it leaves off the queues.
LEMMA InsertQueues ==
  ASSUME NEW s \in SchedState, QueuesAgree(s),
         NEW t \in Thread, s.stat[t] # "ready"
  PROVE  /\ QueuesAgree(Insert(s, t))
         /\ Insert(s, t).stat =
              [s.stat EXCEPT ![t] = IF t = s.cur THEN "running" ELSE "ready"]
         /\ Insert(s, t).pend = s.pend
<1>1. CASE t = s.cur
  <2>1. Insert(s, t) = [s EXCEPT !.stat[t] = "running"]
    BY <1>1 DEF Insert
  <2> DEFINE r == [s EXCEPT !.stat[t] = "running"]
  <2>2. /\ r.ready = s.ready /\ r.prio = s.prio /\ r.pend = s.pend
        /\ r.stat = [s.stat EXCEPT ![t] = "running"]
    BY DEF SchedState
  <2> HIDE DEF r
  <2>3. \A x \in Thread : r.stat[x] = "ready" <=> s.stat[x] = "ready"
    BY <2>2 DEF SchedState
  <2>4. QueuesAgree(r)
    BY <2>2, <2>3 DEF QueuesAgree
  <2>5. QED BY <1>1, <2>1, <2>2, <2>4 DEF r
<1>2. CASE t # s.cur
  <2> DEFINE old == s.ready[s.prio[t]]
             new == IF s.yield[t] THEN Append(old, t) ELSE <<t>> \o old
             r == [s EXCEPT !.stat[t] = "ready", !.ready[s.prio[t]] = new]
  <2>1. s.prio[t] \in Prio /\ old \in Seq(Thread)
    BY DEF SchedState
  <2>2. IsInjective(old) /\ t \notin ToSet(old)
    BY <2>1 DEF QueuesAgree
  <2>3. IsInjective(new) /\ ToSet(new) = ToSet(old) \cup {t}
    BY <2>1, <2>2, AppendSeq, ConsSeq
  <2>4. Insert(s, t) = r
    BY <1>2 DEF Insert
  <2> HIDE DEF new
  <2>5. /\ r.ready = [s.ready EXCEPT ![s.prio[t]] = new]
        /\ r.prio = s.prio /\ r.pend = s.pend
        /\ r.stat = [s.stat EXCEPT ![t] = "ready"]
    BY DEF SchedState
  <2> HIDE DEF r
  <2>6. ASSUME NEW p \in Prio
        PROVE  /\ IsInjective(r.ready[p])
               /\ \A x \in Thread :
                    x \in ToSet(r.ready[p]) <=> r.stat[x] = "ready" /\ r.prio[x] = p
    <3>1. CASE p = s.prio[t]
      <4>1. r.ready[p] = new
        BY <2>1, <2>5, <3>1 DEF SchedState
      <4>2. QED BY <2>2, <2>3, <2>5, <3>1, <4>1 DEF QueuesAgree, SchedState
    <3>2. CASE p # s.prio[t]
      <4>1. r.ready[p] = s.ready[p]
        BY <2>5, <3>2 DEF SchedState
      <4>2. QED BY <2>5, <3>2, <4>1 DEF QueuesAgree, SchedState
    <3>3. QED BY <3>1, <3>2
  <2>7. QueuesAgree(r)
    BY <2>6 DEF QueuesAgree
  <2>8. QED BY <1>2, <2>4, <2>5, <2>7
<1>3. QED BY <1>1, <1>2

\* rt_sched_remove_thread takes the thread off the ready queues altogether, and
\* it takes no other thread off; if the thread was not ready, nothing changes.
LEMMA RemoveReadyQueues ==
  ASSUME NEW s \in SchedState, QueuesAgree(s), NEW t \in Thread
  PROVE  \E q \in [Prio -> Seq(Thread)] :
           /\ RemoveReady(s, t) = [s EXCEPT !.ready = q]
           /\ \A p \in Prio :
                /\ IsInjective(q[p])
                /\ \A x \in Thread : x \in ToSet(q[p]) <=>
                     s.stat[x] = "ready" /\ s.prio[x] = p /\ x # t
<1> DEFINE old == s.ready[s.prio[t]]
           new == Unlink(old, t)
           q == [s.ready EXCEPT ![s.prio[t]] = new]
<1>1. s.prio[t] \in Prio /\ old \in Seq(Thread)
  BY DEF SchedState
<1>2. IsInjective(old)
  BY <1>1 DEF QueuesAgree
<1>3. /\ new \in Seq(Thread) /\ IsInjective(new)
      /\ ToSet(new) = ToSet(old) \ {t}
  BY <1>1, <1>2, UnlinkSeq
<1>4. RemoveReady(s, t) = [s EXCEPT !.ready[s.prio[t]] = new]
  BY DEF RemoveReady
<1> HIDE DEF new
<1>5. q \in [Prio -> Seq(Thread)]
  BY <1>1, <1>3 DEF SchedState
<1>6. RemoveReady(s, t) = [s EXCEPT !.ready = q]
  BY <1>4 DEF SchedState
<1>7. ASSUME NEW p \in Prio
      PROVE  /\ IsInjective(q[p])
             /\ \A x \in Thread : x \in ToSet(q[p]) <=>
                  s.stat[x] = "ready" /\ s.prio[x] = p /\ x # t
  <2>1. CASE p = s.prio[t]
    <3>1. q[p] = new
      BY <1>1, <2>1 DEF SchedState
    <3>2. QED BY <1>3, <2>1, <3>1 DEF QueuesAgree
  <2>2. CASE p # s.prio[t]
    <3>1. q[p] = s.ready[p]
      BY <2>2 DEF SchedState
    <3>2. QED BY <2>2, <3>1 DEF QueuesAgree
  <2>3. QED BY <2>1, <2>2
<1>8. QED BY <1>5, <1>6, <1>7

\* rt_thread_suspend_to_list and rt_thread_close leave the other threads where
\* they are.
LEMMA SuspendQueues ==
  ASSUME NEW s \in SchedState, QueuesAgree(s), NEW t \in Thread
  PROVE  /\ QueuesAgree(Suspend(s, t))
         /\ QueuesAgree(Close(s, t))
<1>1. PICK q \in [Prio -> Seq(Thread)] :
        /\ RemoveReady(s, t) = [s EXCEPT !.ready = q]
        /\ \A p \in Prio :
             /\ IsInjective(q[p])
             /\ \A x \in Thread : x \in ToSet(q[p]) <=>
                  s.stat[x] = "ready" /\ s.prio[x] = p /\ x # t
  BY RemoveReadyQueues
<1> DEFINE r == [[s EXCEPT !.ready = q] EXCEPT !.stat[t] = "suspend"]
           c == [[s EXCEPT !.ready = q] EXCEPT !.stat[t] = "close", !.yield[t] = FALSE]
<1>2. Suspend(s, t) = r /\ Close(s, t) = c
  BY <1>1 DEF Suspend, Close
<1>3. /\ r.ready = q /\ r.prio = s.prio
      /\ r.stat = [s.stat EXCEPT ![t] = "suspend"]
      /\ c.ready = q /\ c.prio = s.prio
      /\ c.stat = [s.stat EXCEPT ![t] = "close"]
  BY DEF SchedState
<1> HIDE DEF r, c
<1>4. \A x \in Thread :
        /\ r.stat[x] = "ready" <=> s.stat[x] = "ready" /\ x # t
        /\ c.stat[x] = "ready" <=> s.stat[x] = "ready" /\ x # t
  BY <1>3 DEF SchedState
<1>5. QED BY <1>1, <1>2, <1>3, <1>4 DEF QueuesAgree

\* rt_sched_thread_change_priority takes a ready thread to the queue of its new
\* priority.
LEMMA ChangePrioQueues ==
  ASSUME NEW s \in SchedState, QueuesAgree(s), NEW t \in Thread, NEW p \in Prio,
         t = s.cur => s.stat[t] # "ready"
  PROVE  /\ QueuesAgree(ChangePrio(s, t, p))
         /\ ChangePrio(s, t, p).stat = s.stat
         /\ ChangePrio(s, t, p).prio = [s.prio EXCEPT ![t] = p]
<1>1. CASE s.stat[t] = "ready"
  <2>1. PICK q \in [Prio -> Seq(Thread)] :
          /\ RemoveReady(s, t) = [s EXCEPT !.ready = q]
          /\ \A k \in Prio :
               /\ IsInjective(q[k])
               /\ \A x \in Thread : x \in ToSet(q[k]) <=>
                    s.stat[x] = "ready" /\ s.prio[x] = k /\ x # t
    BY RemoveReadyQueues
  <2> DEFINE r == [[s EXCEPT !.ready = q] EXCEPT !.prio[t] = p, !.yield[t] = FALSE]
             new == IF r.yield[t] THEN Append(r.ready[p], t) ELSE <<t>> \o r.ready[p]
             e == [r EXCEPT !.stat[t] = "ready", !.ready[p] = new]
  <2>2. /\ r.cur = s.cur /\ r.ready = q /\ r.stat = s.stat
        /\ r.prio = [s.prio EXCEPT ![t] = p]
        /\ r \in SchedState
    BY DEF SchedState
  <2>3. ChangePrio(s, t, p) = Insert(r, t)
    BY <1>1, <2>1 DEF ChangePrio
  <2> HIDE DEF r
  <2>4. r.prio[t] = p
    BY <2>2 DEF SchedState
  <2>5. Insert(r, t) = e
    BY <1>1, <2>2, <2>4 DEF Insert
  <2>6. r.ready[p] \in Seq(Thread) /\ IsInjective(r.ready[p]) /\ t \notin ToSet(r.ready[p])
    BY <2>1, <2>2 DEF SchedState
  <2>7. IsInjective(new) /\ ToSet(new) = ToSet(r.ready[p]) \cup {t}
    BY <2>6, AppendSeq, ConsSeq
  <2> HIDE DEF new
  <2>8. /\ e.ready = [r.ready EXCEPT ![p] = new]
        /\ e.prio = r.prio
        /\ e.stat = [s.stat EXCEPT ![t] = "ready"]
    BY <2>2 DEF SchedState
  <2> HIDE DEF e
  <2>9. e.stat = s.stat
    BY <1>1, <2>8 DEF SchedState
  <2>10. ASSUME NEW k \in Prio
         PROVE  /\ IsInjective(e.ready[k])
                /\ \A x \in Thread :
                     x \in ToSet(e.ready[k]) <=> e.stat[x] = "ready" /\ e.prio[x] = k
    <3>1. CASE k = p
      <4>1. e.ready[k] = new
        BY <2>2, <2>8, <3>1 DEF SchedState
      <4>2. QED BY <1>1, <2>1, <2>2, <2>7, <2>8, <2>9, <3>1, <4>1 DEF SchedState
    <3>2. CASE k # p
      <4>1. e.ready[k] = q[k]
        BY <2>2, <2>8, <3>2 DEF SchedState
      <4>2. QED BY <2>1, <2>2, <2>8, <2>9, <3>2, <4>1 DEF SchedState
    <3>3. QED BY <3>1, <3>2
  <2>11. QED BY <2>2, <2>3, <2>5, <2>8, <2>9, <2>10 DEF QueuesAgree
<1>2. CASE s.stat[t] # "ready"
  <2> DEFINE r == [s EXCEPT !.prio[t] = p]
  <2>1. ChangePrio(s, t, p) = r
    BY <1>2 DEF ChangePrio
  <2>2. r.ready = s.ready /\ r.stat = s.stat /\ r.prio = [s.prio EXCEPT ![t] = p]
    BY DEF SchedState
  <2> HIDE DEF r
  <2>3. \A x \in Thread, k \in Prio :
          s.stat[x] = "ready" => (r.prio[x] = k <=> s.prio[x] = k)
    BY <1>2, <2>2 DEF SchedState
  <2>4. QED BY <2>1, <2>2, <2>3 DEF QueuesAgree
<1>3. QED BY <1>1, <1>2

\* The context switch to a ready thread: that thread and the outgoing one, if
\* it can still run, change places, and nothing else happens to any thread.
LEMMA SwitchToQueues ==
  ASSUME NEW s \in SchedState, SchedInv(s), NEW to \in Thread, s.stat[to] = "ready"
  PROVE  /\ SchedInv(SwitchTo(s, to))
         /\ SwitchTo(s, to).cur = to
         /\ SwitchTo(s, to).prio = s.prio
         /\ SwitchTo(s, to).pend = s.pend
         /\ \A x \in Thread : SwitchTo(s, to).stat[x] =
              IF x = to THEN "running"
              ELSE IF x = s.cur /\ s.stat[x] = "running" THEN "ready" ELSE s.stat[x]
<1> DEFINE from == s.cur
           s1 == [s EXCEPT !.cur = to]
           s2 == IF s.stat[from] = "running" THEN Insert(s1, from) ELSE s1
           s3 == [s2 EXCEPT !.yield[from] = FALSE]
           s4 == [RemoveReady(s3, to) EXCEPT !.stat[to] = "running"]
<1>0. SwitchTo(s, to) = s4
  BY DEF SwitchTo
<1>1. /\ s1 \in SchedState /\ s1.stat = s.stat /\ s1.prio = s.prio /\ s1.ready = s.ready
      /\ s1.cur = to /\ s1.pend = s.pend
      /\ from \in Thread /\ from # to
  BY DEF SchedState, SchedInv, OneRunning
<1>2. QueuesAgree(s1)
  BY <1>1 DEF SchedInv, QueuesAgree
<1> HIDE DEF s1, from
<1>3. /\ s2 \in SchedState /\ QueuesAgree(s2)
      /\ s2.cur = to /\ s2.prio = s.prio /\ s2.pend = s.pend
      /\ s2.stat = [s.stat EXCEPT ![from] = IF @ = "running" THEN "ready" ELSE @]
  <2>1. CASE s.stat[from] = "running"
    <3>1. s2 = Insert(s1, from)
      BY <2>1
    <3>2. /\ Insert(s1, from) \in SchedState
          /\ Insert(s1, from).cur = to
          /\ Insert(s1, from).prio = s.prio
      BY <1>1, InsertState
    <3>3. /\ QueuesAgree(Insert(s1, from))
          /\ Insert(s1, from).stat = [s.stat EXCEPT ![from] = "ready"]
          /\ Insert(s1, from).pend = s.pend
      BY <1>1, <1>2, <2>1, InsertQueues
    <3>4. QED BY <2>1, <3>1, <3>2, <3>3
  <2>2. CASE s.stat[from] # "running"
    <3>1. s2 = s1
      BY <2>2
    <3>2. s.stat = [s.stat EXCEPT ![from] = IF @ = "running" THEN "ready" ELSE @]
      BY <2>2 DEF SchedState
    <3>3. QED BY <1>1, <1>2, <3>1, <3>2
  <2>3. QED BY <2>1, <2>2
<1> HIDE DEF s2
<1>4. /\ s3 \in SchedState /\ s3.stat = s2.stat /\ s3.prio = s2.prio
      /\ s3.ready = s2.ready /\ s3.cur = to /\ s3.pend = s2.pend
  BY <1>1, <1>3 DEF SchedState
<1> HIDE DEF s3
<1>5. QueuesAgree(s3)
  BY <1>3, <1>4 DEF QueuesAgree
<1>6. PICK q \in [Prio -> Seq(Thread)] :
        /\ RemoveReady(s3, to) = [s3 EXCEPT !.ready = q]
        /\ \A p \in Prio :
             /\ IsInjective(q[p])
             /\ \A x \in Thread : x \in ToSet(q[p]) <=>
                  s3.stat[x] = "ready" /\ s3.prio[x] = p /\ x # to
  BY <1>4, <1>5, RemoveReadyQueues
<1>7. s4 = [[s3 EXCEPT !.ready = q] EXCEPT !.stat[to] = "running"]
  BY <1>6
<1> HIDE DEF s4
<1>8. /\ s4.ready = q /\ s4.prio = s.prio /\ s4.cur = to /\ s4.pend = s.pend
      /\ s4.stat = [s3.stat EXCEPT ![to] = "running"]
  BY <1>3, <1>4, <1>7 DEF SchedState
<1>9. \A x \in Thread : s4.stat[x] =
        IF x = to THEN "running"
        ELSE IF x = from /\ s.stat[x] = "running" THEN "ready" ELSE s.stat[x]
  BY <1>1, <1>3, <1>4, <1>8 DEF SchedState
<1>10. QueuesAgree(s4)
  <2>1. \A x \in Thread : s4.stat[x] = "ready" <=> s3.stat[x] = "ready" /\ x # to
    BY <1>4, <1>8 DEF SchedState
  <2>2. s3.prio = s4.prio
    BY <1>3, <1>4, <1>8
  <2>3. QED BY <1>6, <1>8, <2>1, <2>2 DEF QueuesAgree
<1>11. OneRunning(s4)
  <2>1. \A x \in Thread : s.stat[x] = "running" => x = from
    BY DEF SchedInv, OneRunning, from
  <2>2. \A x \in Thread : s4.stat[x] = "running" => x = to
    BY <1>9, <2>1
  <2>3. QED BY <1>8, <1>9, <2>2 DEF OneRunning
<1>12. QED BY <1>0, <1>8, <1>9, <1>10, <1>11 DEF SchedInv, from

\* The same threads are suspended, and the same are closed.
SameSleepers(s1, s2) ==
  \A x \in Thread : /\ s2.stat[x] = "suspend" <=> s1.stat[x] = "suspend"
                    /\ s2.stat[x] = "close" <=> s1.stat[x] = "close"

\* No ready thread has a higher priority than the running one.
CpuWithHighest(s) ==
  \A t \in Thread : s.stat[t] = "ready" => s.prio[s.cur] <= s.prio[t]

\* The highest ready priority is found, and its queue begins with a ready
\* thread.
LEMMA HighestQueue ==
  ASSUME NEW s \in SchedState, QueuesAgree(s), ReadyPrio(s) # {}
  PROVE  LET p == HighestPrio(s)
             to == Head(s.ready[p])
         IN  /\ p \in Prio
             /\ to \in Thread
             /\ s.stat[to] = "ready"
             /\ s.prio[to] = p
             /\ \A t \in Thread : s.stat[t] = "ready" => p <= s.prio[t]
<1> DEFINE p == HighestPrio(s)
           to == Head(s.ready[p])
<1>1. ReadyPrio(s) \in SUBSET Nat
  BY ThreadAssumption DEF ReadyPrio, Prio
<1>2. p \in ReadyPrio(s) /\ \A k \in ReadyPrio(s) : p <= k
  BY <1>1, MinNat DEF HighestPrio
<1> HIDE DEF p
<1>3. p \in Prio /\ s.ready[p] \in Seq(Thread) /\ s.ready[p] # <<>>
  BY <1>2 DEF ReadyPrio, SchedState
<1>4. to \in Thread /\ to = s.ready[p][1] /\ Len(s.ready[p]) \in Nat \ {0}
  BY <1>3, HeadTailProperties, EmptySeq
<1>5. to \in ToSet(s.ready[p])
  BY <1>3, <1>4, InToSet
<1>6. s.stat[to] = "ready" /\ s.prio[to] = p
  BY <1>3, <1>4, <1>5 DEF QueuesAgree
<1>7. ASSUME NEW t \in Thread, s.stat[t] = "ready"
      PROVE  p <= s.prio[t]
  <2>1. s.prio[t] \in Prio /\ s.ready[s.prio[t]] \in Seq(Thread)
    BY DEF SchedState
  <2>2. t \in ToSet(s.ready[s.prio[t]])
    BY <1>7, <2>1 DEF QueuesAgree
  <2>3. s.ready[s.prio[t]] # <<>>
    BY <2>1, <2>2, EmptyToSet
  <2>4. s.prio[t] \in ReadyPrio(s)
    BY <2>1, <2>3 DEF ReadyPrio
  <2>5. QED BY <1>2, <2>4
<1>8. QED BY <1>3, <1>4, <1>6, <1>7 DEF p

\* rt_schedule suspends nobody and wakes nobody, and afterwards a thread of the
\* highest priority has the CPU, if any thread can have it.
LEMMA ScheduleQueues ==
  ASSUME NEW s \in SchedState, SchedInv(s)
  PROVE  /\ Schedule(s) \in SchedState
         /\ SchedInv(Schedule(s))
         /\ SameSleepers(s, Schedule(s))
         /\ CpuWithHighest(Schedule(s))
         /\ Schedule(s).prio = s.prio
         /\ Schedule(s).pend = s.pend
         /\ Schedule(s).cur # s.cur => Schedule(s).stat[Schedule(s).cur] = "running"
<1> DEFINE p == HighestPrio(s)
           to == Head(s.ready[p])
<1>0. Schedule(s) \in SchedState
  BY ScheduleState
<1>1. CASE ReadyPrio(s) = {}
  <2>1. Schedule(s) = s
    BY <1>1 DEF Schedule
  <2>2. ASSUME NEW t \in Thread, s.stat[t] = "ready"
        PROVE  FALSE
    <3>1. s.prio[t] \in Prio /\ s.ready[s.prio[t]] \in Seq(Thread)
      BY DEF SchedState
    <3>2. t \in ToSet(s.ready[s.prio[t]])
      BY <2>2, <3>1 DEF SchedInv, QueuesAgree
    <3>3. s.ready[s.prio[t]] # <<>>
      BY <3>1, <3>2, EmptyToSet
    <3>4. QED BY <1>1, <3>1, <3>3 DEF ReadyPrio
  <2>3. QED BY <2>1, <2>2 DEF SameSleepers, CpuWithHighest
<1>2. CASE ReadyPrio(s) # {} /\ Keeps(s, p)
  <2>1. Schedule(s) = s
    BY <1>2 DEF Schedule
  <2>2. /\ p \in Prio
        /\ \A t \in Thread : s.stat[t] = "ready" => p <= s.prio[t]
    BY <1>2, HighestQueue DEF SchedInv
  <2> HIDE DEF p
  <2>3. s.prio[s.cur] <= p /\ s.prio[s.cur] \in Nat
    BY <1>2, <2>2, ThreadAssumption DEF Keeps, SchedState, Prio
  <2>4. \A t \in Thread : s.prio[t] \in Nat
    BY ThreadAssumption DEF SchedState, Prio
  <2>5. p \in Nat
    BY <2>2, ThreadAssumption DEF Prio
  <2>6. CpuWithHighest(s)
    BY <2>2, <2>3, <2>4, <2>5 DEF CpuWithHighest
  <2>7. QED BY <2>1, <2>6 DEF SameSleepers
<1>3. CASE ReadyPrio(s) # {} /\ ~Keeps(s, p)
  <2>1. /\ p \in Prio /\ to \in Thread
        /\ s.stat[to] = "ready" /\ s.prio[to] = p
        /\ \A t \in Thread : s.stat[t] = "ready" => p <= s.prio[t]
    BY <1>3, HighestQueue DEF SchedInv
  <2>2. Schedule(s) = SwitchTo(s, to)
    BY <1>3 DEF Schedule
  <2>3. ~ Keeps(s, p)
    BY <1>3
  <2> HIDE DEF to, p
  <2> DEFINE r == SwitchTo(s, to)
  <2>4. /\ SchedInv(r) /\ r.cur = to /\ r.prio = s.prio /\ r.pend = s.pend
        /\ \A x \in Thread : r.stat[x] =
             IF x = to THEN "running"
             ELSE IF x = s.cur /\ s.stat[x] = "running" THEN "ready" ELSE s.stat[x]
    BY <2>1, SwitchToQueues
  <2> HIDE DEF r
  <2>5. SameSleepers(s, r)
    BY <2>1, <2>4 DEF SameSleepers
  <2>6. s.cur \in Thread /\ p \in Nat /\ \A t \in Thread : s.prio[t] \in Nat
    BY <2>1, ThreadAssumption DEF SchedState, Prio
  <2>7. s.stat[s.cur] = "running" => p <= s.prio[s.cur]
    BY <2>3, <2>6 DEF Keeps
  <2>8. ASSUME NEW t \in Thread, r.stat[t] = "ready"
        PROVE  p <= s.prio[t]
    BY <2>1, <2>4, <2>7, <2>8
  <2>9. CpuWithHighest(r)
    BY <2>1, <2>4, <2>8 DEF CpuWithHighest
  <2>10. QED BY <1>0, <2>1, <2>2, <2>4, <2>5, <2>9 DEF r
<1>4. QED BY <1>0, <1>1, <1>2, <1>3

\* The same of rt_exit_critical, with or without a switch to catch up on.
LEMMA ExitCriticalQueues ==
  ASSUME NEW s \in SchedState, SchedInv(s)
  PROVE  /\ ExitCritical(s) \in SchedState
         /\ SchedInv(ExitCritical(s))
         /\ SameSleepers(s, ExitCritical(s))
         /\ ExitCritical(s).prio = s.prio
         /\ ExitCritical(s).cur # s.cur
              => ExitCritical(s).stat[ExitCritical(s).cur] = "running"
<1> DEFINE r == [s EXCEPT !.pend = FALSE]
<1>1. /\ r \in SchedState /\ SchedInv(r)
      /\ r.stat = s.stat /\ r.cur = s.cur /\ r.prio = s.prio
  BY DEF SchedState, SchedInv, QueuesAgree, OneRunning
<1>2. ExitCritical(s) = IF s.pend THEN Schedule(r) ELSE s
  BY DEF ExitCritical
<1> HIDE DEF r
<1>3. /\ Schedule(r) \in SchedState /\ SchedInv(Schedule(r))
      /\ SameSleepers(r, Schedule(r)) /\ Schedule(r).prio = r.prio
      /\ Schedule(r).cur # r.cur => Schedule(r).stat[Schedule(r).cur] = "running"
  BY <1>1, ScheduleQueues
<1>4. QED BY <1>1, <1>2, <1>3 DEF SameSleepers

\* A switch that is only remembered changes nothing else.
LEMMA ScheduleLockedQueues ==
  ASSUME NEW s \in SchedState, SchedInv(s)
  PROVE  /\ ScheduleLocked(s) \in SchedState
         /\ SchedInv(ScheduleLocked(s))
         /\ ScheduleLocked(s).stat = s.stat
         /\ ScheduleLocked(s).prio = s.prio
         /\ ScheduleLocked(s).cur = s.cur
BY DEF ScheduleLocked, SchedState, SchedInv, QueuesAgree, OneRunning

\* The states at boot and after the end of a time slice.
LEMMA StartQueues ==
  /\ AllAsleep \in SchedState
  /\ SchedInv(AllAsleep)
<1>1. AllAsleep \in SchedState
  BY ThreadAssumption DEF AllAsleep, SchedState, Stat
<1>2. ToSet(<<>>) = {} /\ IsInjective(<<>>)
  BY DEF ToSet, IsInjective
<1>3. QED BY <1>1, <1>2, ThreadAssumption
          DEF AllAsleep, SchedInv, QueuesAgree, OneRunning

\* Marking a thread as having yielded (rt_thread_yield) moves nobody: the
\* queues stay consistent and the current thread keeps the CPU.
LEMMA YieldQueues ==
  ASSUME NEW s \in SchedState, SchedInv(s), NEW t \in Thread
  PROVE  LET r == [s EXCEPT !.yield[t] = TRUE]
         IN  /\ r \in SchedState /\ SchedInv(r)
             /\ r.stat = s.stat /\ r.cur = s.cur /\ r.prio = s.prio
BY DEF SchedState, SchedInv, QueuesAgree, OneRunning

\* Making a thread ready that was not: everything stays consistent, and the
\* current thread still has the CPU.
LEMMA InsertInv ==
  ASSUME NEW s \in SchedState, SchedInv(s), NEW t \in Thread, s.stat[t] # "ready"
  PROVE  /\ Insert(s, t) \in SchedState
         /\ SchedInv(Insert(s, t))
         /\ Insert(s, t).cur = s.cur
         /\ Insert(s, t).prio = s.prio
         /\ Insert(s, t).stat =
              [s.stat EXCEPT ![t] = IF t = s.cur THEN "running" ELSE "ready"]
<1>1. /\ Insert(s, t) \in SchedState
      /\ Insert(s, t).cur = s.cur
      /\ Insert(s, t).prio = s.prio
  BY InsertState
<1>2. /\ QueuesAgree(Insert(s, t))
      /\ Insert(s, t).stat =
           [s.stat EXCEPT ![t] = IF t = s.cur THEN "running" ELSE "ready"]
  BY InsertQueues DEF SchedInv
<1>3. OneRunning(Insert(s, t))
  BY <1>1, <1>2 DEF SchedInv, OneRunning, SchedState
<1>4. QED BY <1>1, <1>2, <1>3 DEF SchedInv

\* The loop of rt_susp_list_resume_all, turn by turn.
LEMMA InsertAllDef ==
  ASSUME NEW s \in SchedState, NEW ts \in Seq(Thread)
  PROVE  \E f : /\ f = [n \in 0 .. Len(ts) |->
                         IF n = 0 THEN s ELSE Insert(f[n - 1], ts[n])]
               /\ InsertAll(s, ts) = f[Len(ts)]
<1> DEFINE Eq(f, n) ==
             f = [k \in 0 .. n |-> IF k = 0 THEN s ELSE Insert(f[k - 1], ts[k])]
           Found == {n \in Nat : \E f : Eq(f, n)}
<1>1. Len(ts) \in Nat
  BY InToSet
<1>2. 0 \in Found
  <2>1. Eq([k \in 0 .. 0 |-> s], 0)
    OBVIOUS
  <2>2. QED BY <2>1
<1>3. ASSUME NEW n \in Nat, n \in Found
      PROVE  n + 1 \in Found
  <2>1. PICK f : Eq(f, n)
    BY <1>3
  <2> DEFINE g == [k \in 0 .. n + 1 |->
                     IF k = n + 1 THEN Insert(f[n], ts[n + 1]) ELSE f[k]]
  <2>2. \A k \in 0 .. n : f[k] = IF k = 0 THEN s ELSE Insert(f[k - 1], ts[k])
    BY <2>1
  <2>3. ASSUME NEW k \in 0 .. n + 1
        PROVE  g[k] = IF k = 0 THEN s ELSE Insert(g[k - 1], ts[k])
    <3>1. CASE k = n + 1
      BY <3>1
    <3>2. CASE k \in 0 .. n
      BY <2>2, <3>2
    <3>3. QED BY <3>1, <3>2
  <2>4. g = [k \in 0 .. n + 1 |-> g[k]]
    OBVIOUS
  <2> HIDE DEF g
  <2>5. Eq(g, n + 1)
    BY <2>3, <2>4
  <2> HIDE DEF Eq
  <2>6. \E h : Eq(h, n + 1)
    BY <2>5
  <2>7. QED BY <2>6
<1>4. \A n \in Nat : n \in Found
  <2> HIDE DEF Found
  <2>1. QED BY <1>2, <1>3, NatInduct
<1>5. \E f : Eq(f, Len(ts))
  BY <1>1, <1>4
<1>6. InsertAll(s, ts) = (CHOOSE f : Eq(f, Len(ts)))[Len(ts)]
  BY DEF InsertAll
<1>7. Eq((CHOOSE f : Eq(f, Len(ts))), Len(ts))
  BY <1>5, Zenon
<1>8. QED BY <1>6, <1>7

\* rt_susp_list_resume_all makes the suspended threads of the list ready, all
\* of them and no others.
LEMMA InsertAllInv ==
  ASSUME NEW s \in SchedState, SchedInv(s),
         NEW ts \in Seq(Thread), IsInjective(ts),
         \A t \in ToSet(ts) : s.stat[t] = "suspend"
  PROVE  /\ InsertAll(s, ts) \in SchedState
         /\ SchedInv(InsertAll(s, ts))
         /\ InsertAll(s, ts).cur = s.cur
         /\ InsertAll(s, ts).prio = s.prio
         /\ \A t \in ToSet(ts) : InsertAll(s, ts).stat[t] \in {"ready", "running"}
         /\ \A t \in Thread \ ToSet(ts) : InsertAll(s, ts).stat[t] = s.stat[t]
<1>1. /\ Len(ts) \in Nat
      /\ \A k \in 1 .. Len(ts) : ts[k] \in Thread /\ ts[k] \in ToSet(ts)
      /\ \A t \in ToSet(ts) : \E k \in 1 .. Len(ts) : ts[k] = t
      /\ \A j, k \in 1 .. Len(ts) : ts[j] = ts[k] => j = k
  BY InToSet, InjectiveSeq
<1>2. PICK f : /\ f = [n \in 0 .. Len(ts) |->
                        IF n = 0 THEN s ELSE Insert(f[n - 1], ts[n])]
               /\ InsertAll(s, ts) = f[Len(ts)]
  BY InsertAllDef
<1>3. f[0] = s
  BY <1>1, <1>2
<1>4. ASSUME NEW n \in Nat, n + 1 <= Len(ts)
      PROVE  f[n + 1] = Insert(f[n], ts[n + 1])
  <2>1. n + 1 \in 0 .. Len(ts) /\ n + 1 # 0 /\ (n + 1) - 1 = n
    BY <1>1, <1>4
  <2>2. QED BY <1>2, <2>1
<1> DEFINE Done(n, t) == \E k \in 1 .. n : ts[k] = t
           Fine(r, n) ==
             /\ r \in SchedState /\ SchedInv(r)
             /\ r.cur = s.cur /\ r.prio = s.prio
             /\ \A t \in Thread : IF Done(n, t) THEN r.stat[t] \in {"ready", "running"}
                                               ELSE r.stat[t] = s.stat[t]
           Good == {n \in Nat : n <= Len(ts) => Fine(f[n], n)}
<1>5. 0 \in Good
  <2>1. \A t : ~ Done(0, t)
    OBVIOUS
  <2>2. Fine(s, 0)
    BY <2>1, Zenon
  <2>3. QED BY <1>3, <2>2
<1>6. ASSUME NEW n \in Nat, n \in Good
      PROVE  n + 1 \in Good
  <2>1. SUFFICES ASSUME n + 1 <= Len(ts) PROVE Fine(f[n + 1], n + 1)
    OBVIOUS
  <2>2. Fine(f[n], n)
    BY <1>1, <1>6, <2>1
  <2> DEFINE x == ts[n + 1]
             r == f[n]
  <2>3. x \in Thread /\ s.stat[x] = "suspend"
    BY <1>1, <2>1
  <2>4. ~ Done(n, x)
    BY <1>1, <2>1
  <2>5. \A t : Done(n + 1, t) <=> Done(n, t) \/ t = x
    OBVIOUS
  <2>6. f[n + 1] = Insert(r, x)
    BY <1>4, <2>1
  <2> HIDE DEF x, r, Done
  <2>7. r \in SchedState /\ SchedInv(r) /\ r.stat[x] = "suspend"
    BY <2>2, <2>3, <2>4 DEF r
  <2>8. /\ Insert(r, x) \in SchedState
        /\ SchedInv(Insert(r, x))
        /\ Insert(r, x).cur = r.cur
        /\ Insert(r, x).prio = r.prio
        /\ Insert(r, x).stat =
             [r.stat EXCEPT ![x] = IF x = r.cur THEN "running" ELSE "ready"]
    BY <2>3, <2>7, InsertInv
  <2>9. \A t \in Thread : Insert(r, x).stat[t] =
          IF t = x THEN IF x = r.cur THEN "running" ELSE "ready" ELSE r.stat[t]
    BY <2>7, <2>8 DEF SchedState
  <2>10. \A t \in Thread :
           IF Done(n + 1, t) THEN Insert(r, x).stat[t] \in {"ready", "running"}
                             ELSE Insert(r, x).stat[t] = s.stat[t]
    BY <2>2, <2>5, <2>9 DEF r
  <2>11. QED BY <2>2, <2>6, <2>8, <2>10 DEF r
<1>7. \A n \in Nat : n \in Good
  <2> HIDE DEF Good
  <2>1. QED BY <1>5, <1>6, NatInduct
<1>8. Fine(f[Len(ts)], Len(ts))
  BY <1>1, <1>7
<1>9. QED BY <1>1, <1>2, <1>8
=============================================================================
