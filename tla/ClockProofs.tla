---------------------------- MODULE ClockProofs ----------------------------
(***************************************************************************)
(* Proofs about the work queue and the kernel timers, which both keep      *)
(* lists in the order in which what they hold comes due: with any number   *)
(* of items, clients, calls and timers, any delays and timeouts, and any   *)
(* width of the tick counter.                                              *)
(*                                                                         *)
(* A due time wraps with the tick counter.  Instead of it, what is due has *)
(* an age, which does not wrap; the lists are in the order of ages         *)
(* (InOrder), and all comparisons of the code are comparisons of ages      *)
(* (DueIs, BeforeIs, BehindIs).                                            *)
(*                                                                         *)
(* The work queue, first the clients: one of rt_workqueue_cancel_work_sync *)
(* that found its item executing waits for the end of that execution.  The *)
(* reason is that queue->sem never keeps a unit beyond the end of          *)
(* _workqueue_work_completion (NoUnitLeft of WorkQueue).  Then the lists,  *)
(* the sleep of the thread of the queue and the promise of WorkBag:        *)
(* ListsOK is kept by every operation, and LeftOf says what each of them   *)
(* does to what WorkBag sees.                                              *)
(*                                                                         *)
(* The timers: TimersOK says that the ticks that are really left are what  *)
(* the code computes, and SoftAwake that the thread "timer" does not sleep *)
(* over a timer that is due; together they are inductive (TimerIInv).      *)
(*                                                                         *)
(* KSchedProofs is extended for its lemmas about lists only.               *)
(***************************************************************************)
EXTENDS WorkQueue, Timer, KSchedProofs

-----------------------------------------------------------------------------
(* The tick counter.  Within the window that ClockAssumption and           *)
(* Comparable leave, what is due at d stands at Age(d, t) when the clock   *)
(* reads t: 0 when it is as late as it may be, MaxLate when its time has   *)
(* come.                                                                   *)

TickCount == TickMax + 1

\* Due at d, seen at t
Age(d, t) == Minus(d + MaxLate, t)

Ages == {a \in Nat : a < MaxLate + Half /\ a <= TickCount - Half}

\* The ticks that it still has to wait
Remaining(d, t) == IF Age(d, t) <= MaxLate THEN 0 ELSE Age(d, t) - MaxLate

\* A number that is off by at most one turn of the counter
Turned(a) == IF a < 0 THEN a + TickCount
             ELSE IF a < TickCount THEN a ELSE a - TickCount

\* What is known of the constants, in the form the arithmetic needs.
LEMMA TickFacts ==
  /\ TickCount \in Nat /\ Half \in Nat
  /\ 2 * Half + 1 <= TickCount /\ TickCount <= 2 * Half + 2
  /\ MaxLate \in Nat /\ 1 <= MaxLate /\ MaxLate < Half
  /\ \A t : t \in Ticks <=> t \in Nat /\ t < TickCount
  /\ 0 \in Ticks
BY ClockAssumption DEF TickCount, Half, Ticks

\* What is known of a time that a program may ask for.
LEMMA ComparableIs ==
  ASSUME NEW times, Comparable(times), NEW n \in times
  PROVE  n \in Nat /\ n < Half /\ n + MaxLate <= TickCount - Half
<1>1. n \in 0 .. Half - 1
  BY DEF Comparable
<1>2. n + MaxLate <= TickMax + 1 - Half
  BY DEF Comparable
<1>3. QED BY <1>1, <1>2, TickFacts, ClockAssumption DEF TickCount

\* Subtraction of unsigned ticks wraps at most once.
LEMMA ModTurn ==
  ASSUME NEW a \in Int, -TickCount <= a, a < 2 * TickCount
  PROVE  a % TickCount = Turned(a)
<1> DEFINE k == a \div TickCount
           m == a % TickCount
<1>1. TickCount \in Nat /\ TickCount > 0
  BY TickFacts
<1>2. k \in Int /\ m \in 0 .. TickCount - 1 /\ a = TickCount * k + m
  BY <1>1
<1> HIDE DEF k, m
<1>3. k = -1 \/ k = 0 \/ k = 1
  BY <1>1, <1>2
<1>4. m = Turned(a)
  BY <1>1, <1>2, <1>3 DEF Turned
<1>5. QED BY <1>4 DEF m

\* The 32-bit subtraction of two ticks, as an integer brought back by at most
\* one turn of the counter.
LEMMA MinusIs ==
  ASSUME NEW a \in Int, NEW b \in Int, -TickCount <= a - b, a - b < 2 * TickCount
  PROVE  Minus(a, b) = Turned(a - b)
<1>1. (a - b) % TickCount = Turned(a - b)
  BY ModTurn
<1>2. QED BY <1>1 DEF Minus, TickCount

\* The age, without the remainder.
LEMMA AgeIs ==
  ASSUME NEW d \in Ticks, NEW t \in Ticks
  PROVE  Age(d, t) = Turned(d + MaxLate - t) /\ Age(d, t) \in 0 .. TickCount - 1
<1>1. PICK a \in Int : a = d + MaxLate
  BY TickFacts
<1>2. t \in Int /\ -TickCount <= a - t /\ a - t < 2 * TickCount
  BY <1>1, TickFacts
<1>3. Minus(a, t) = Turned(a - t)
  BY <1>2, MinusIs
<1>4. Turned(a - t) \in 0 .. TickCount - 1
  BY <1>1, <1>2, TickFacts DEF Turned
<1>5. d \in Int /\ t \in Int /\ MaxLate \in Int
  BY TickFacts
<1>6. QED BY <1>1, <1>3, <1>4, <1>5 DEF Age

\* IsDue, TicksLeft and Late of WorkQueue, and Expired of Timer, by age.
LEMMA DueIs ==
  ASSUME NEW d \in Ticks, NEW t \in Ticks, Age(d, t) \in Ages
  PROVE  /\ Minus(t, d) < Half <=> Age(d, t) <= MaxLate
         /\ Age(d, t) <= MaxLate => Minus(t, d) = MaxLate - Age(d, t)
         /\ Age(d, t) > MaxLate => Minus(d, t) = Age(d, t) - MaxLate
<1>1. Age(d, t) = Turned(d + MaxLate - t)
  BY AgeIs
<1>2. /\ -TickCount <= t - d /\ t - d < 2 * TickCount
      /\ -TickCount <= d - t /\ d - t < 2 * TickCount /\ d \in Int /\ t \in Int
  BY TickFacts
<1>3. Minus(t, d) = Turned(t - d) /\ Minus(d, t) = Turned(d - t)
  BY <1>2, MinusIs
<1> DEFINE A == Age(d, t)
<1>4. A \in Nat /\ A < MaxLate + Half /\ A <= TickCount - Half /\ A = Turned(d + MaxLate - t)
  BY <1>1 DEF Ages
<1> HIDE DEF A
<1>5. /\ Turned(t - d) < Half <=> A <= MaxLate
      /\ A <= MaxLate => Turned(t - d) = MaxLate - A
      /\ A > MaxLate => Turned(d - t) = A - MaxLate
  BY <1>4, TickFacts DEF Turned
<1>6. QED BY <1>3, <1>5 DEF A

\* The place of an item in the delayed list is decided by age, ...
LEMMA BeforeIs ==
  ASSUME NEW d \in Ticks, NEW e \in Ticks, NEW t \in Ticks,
         Age(d, t) \in Ages, Age(e, t) \in Ages, Age(e, t) > MaxLate
  PROVE  Minus(d, e) < Half <=> Age(d, t) >= Age(e, t)
<1>1. Age(d, t) = Turned(d + MaxLate - t) /\ Age(e, t) = Turned(e + MaxLate - t)
  BY AgeIs
<1>2. -TickCount <= d - e /\ d - e < 2 * TickCount /\ d \in Int /\ e \in Int
  BY TickFacts
<1>3. Minus(d, e) = Turned(d - e)
  BY <1>2, MinusIs
<1> DEFINE A == Age(d, t)
           B == Age(e, t)
<1>4. /\ A \in Nat /\ A < MaxLate + Half /\ A <= TickCount - Half
      /\ B \in Nat /\ B < MaxLate + Half /\ B <= TickCount - Half /\ B > MaxLate
      /\ A = Turned(d + MaxLate - t) /\ B = Turned(e + MaxLate - t)
  BY <1>1 DEF Ages
<1> HIDE DEF A, B
<1>5. Turned(d - e) < Half <=> A >= B
  BY <1>4, TickFacts DEF Turned
<1>6. QED BY <1>3, <1>5 DEF A, B

\* ... and that of a timer, which may be due when it is started, too.
LEMMA BehindIs ==
  ASSUME NEW d \in Ticks, NEW e \in Ticks, NEW t \in Ticks,
         Age(d, t) \in Ages, Age(e, t) \in Ages, Age(e, t) >= MaxLate
  PROVE  Minus(d, e) \in 1 .. Half - 1 <=> Age(d, t) > Age(e, t)
<1>1. Age(d, t) = Turned(d + MaxLate - t) /\ Age(e, t) = Turned(e + MaxLate - t)
  BY AgeIs
<1>2. -TickCount <= d - e /\ d - e < 2 * TickCount /\ d \in Int /\ e \in Int
  BY TickFacts
<1>3. Minus(d, e) = Turned(d - e)
  BY <1>2, MinusIs
<1> DEFINE A == Age(d, t)
           B == Age(e, t)
<1>4. /\ A \in Nat /\ A < MaxLate + Half /\ A <= TickCount - Half
      /\ B \in Nat /\ B < MaxLate + Half /\ B <= TickCount - Half /\ B >= MaxLate
      /\ A = Turned(d + MaxLate - t) /\ B = Turned(e + MaxLate - t)
  BY <1>1 DEF Ages
<1> HIDE DEF A, B
<1>5. Turned(d - e) \in 1 .. Half - 1 <=> A > B
  BY <1>4, TickFacts DEF Turned
<1>6. QED BY <1>3, <1>5 DEF A, B

\* What is to come n ticks from now.
LEMMA SubmitAge ==
  ASSUME NEW t \in Ticks, NEW times, Comparable(times), NEW n \in times,
         NEW d, d = (t + n) % TickCount
  PROVE  /\ d \in Ticks /\ Age(d, t) = n + MaxLate /\ Age(d, t) \in Ages
         /\ Remaining(d, t) = n
<1>0. n \in Nat /\ n < Half /\ n + MaxLate <= TickCount - Half
  BY ComparableIs
<1>1. t + n \in Int /\ -TickCount <= t + n /\ t + n < 2 * TickCount
  BY <1>0, TickFacts
<1>2. d = Turned(t + n)
  BY <1>1, ModTurn
<1>3. d \in Ticks
  BY <1>0, <1>2, TickFacts DEF Turned
<1>4. Age(d, t) = Turned(d + MaxLate - t)
  BY <1>3, AgeIs
<1>5. Age(d, t) = n + MaxLate
  <2>1. /\ t \in Nat /\ t < TickCount /\ n \in Nat /\ n < Half
        /\ MaxLate \in Nat /\ n + MaxLate <= TickCount - Half
        /\ TickCount \in Nat /\ Half \in Nat /\ Half > 0
    BY <1>0, TickFacts
  <2>2. CASE t + n < TickCount
    BY <1>2, <1>4, <2>1, <2>2 DEF Turned
  <2>3. CASE t + n >= TickCount
    BY <1>2, <1>4, <2>1, <2>3 DEF Turned
  <2>4. QED BY <2>1, <2>2, <2>3
<1>6. QED BY <1>0, <1>3, <1>5, TickFacts DEF Ages, Remaining

\* What is not as late as it may be grows older by one with the clock.
LEMMA TickAge ==
  ASSUME NEW d \in Ticks, NEW t \in Ticks, Age(d, t) \in Ages, Age(d, t) > 0,
         NEW u, u = (t + 1) % TickCount
  PROVE  u \in Ticks /\ Age(d, u) = Age(d, t) - 1 /\ Age(d, u) \in Ages
<1>1. t + 1 \in Int /\ -TickCount <= t + 1 /\ t + 1 < 2 * TickCount
  BY TickFacts
<1>2. u = Turned(t + 1)
  BY <1>1, ModTurn
<1>3. u \in Ticks
  BY <1>2, TickFacts DEF Turned
<1>4. Age(d, t) = Turned(d + MaxLate - t) /\ Age(d, u) = Turned(d + MaxLate - u)
  BY <1>3, AgeIs
<1>5. Age(d, u) = Age(d, t) - 1
  BY <1>2, <1>3, <1>4, TickFacts DEF Turned
<1>6. QED BY <1>3, <1>5, TickFacts DEF Ages

-----------------------------------------------------------------------------
(* Lists in the order in which what they hold comes due                    *)

\* The elements of q, with the times du at which they are due, are in the order
\* of these times when the clock reads t.
InOrder(q, du, t) ==
  \A i, j \in 1 .. Len(q) : i < j => Age(du[q[i]], t) <= Age(du[q[j]], t)

\* rt_list_remove takes the element off and leaves the others as they stood.
LEMMA RemovedSeq ==
  ASSUME NEW S, NEW q \in Seq(S), IsInjective(q), NEW w
  PROVE  LET r == RemoveFirst(q, w)
         IN  /\ r \in Seq(S) /\ IsInjective(r) /\ ToSet(r) = ToSet(q) \ {w}
             /\ \A i, j \in 1 .. Len(r) :
                  i < j => \E a, b \in 1 .. Len(q) :
                             a < b /\ q[a] = r[i] /\ q[b] = r[j]
<1> DEFINE r == RemoveFirst(q, w)
<1>1. r \in Seq(S) /\ IsInjective(r) /\ ToSet(r) = ToSet(q) \ {w}
  BY UnlinkSeq DEF Unlink
<1>2. Len(q) \in Nat
  BY InToSet
<1>3. CASE \E i \in 1 .. Len(q) : q[i] = w
  <2> DEFINE I == {i \in 1 .. Len(q) : q[i] = w}
             n == Min(I)
  <2>1. I \in SUBSET Nat /\ I # {}
    BY <1>3
  <2>2. n \in I
    BY <2>1, MinNat
  <2>3. r = RemoveAt(q, n)
    BY <1>3, <2>1 DEF RemoveFirst, SelectInSeq
  <2>4. n \in 1 .. Len(q)
    BY <2>2
  <2> HIDE DEF n, I, r
  <2>5. /\ Len(r) = Len(q) - 1
        /\ \A k \in 1 .. Len(q) - 1 : r[k] = IF k < n THEN q[k] ELSE q[k + 1]
    BY <2>3, <2>4, RemoveAtPos
  <2>6. ASSUME NEW i \in 1 .. Len(r), NEW j \in 1 .. Len(r), i < j
        PROVE  \E a, b \in 1 .. Len(q) : a < b /\ q[a] = r[i] /\ q[b] = r[j]
    <3>1. PICK a \in 1 .. Len(q) : a = IF i < n THEN i ELSE i + 1
      BY <1>2, <2>4, <2>5
    <3>2. PICK b \in 1 .. Len(q) : b = IF j < n THEN j ELSE j + 1
      BY <1>2, <2>4, <2>5
    <3>3. a < b /\ q[a] = r[i] /\ q[b] = r[j]
      BY <1>2, <2>4, <2>5, <2>6, <3>1, <3>2
    <3>4. QED BY <3>3
  <2>7. QED BY <1>1, <2>6 DEF r
<1>4. CASE ~ \E i \in 1 .. Len(q) : q[i] = w
  <2>1. r = q
    BY <1>4 DEF RemoveFirst
  <2>2. QED BY <1>1, <2>1
<1>5. QED BY <1>3, <1>4

\* An element that leaves the list does not disturb its order, whatever
\* its own time becomes.
LEMMA RemovedOrder ==
  ASSUME NEW S, NEW q \in Seq(S), IsInjective(q), NEW w, NEW t, NEW v,
         NEW du \in [S -> Ticks], InOrder(q, du, t)
  PROVE  InOrder(RemoveFirst(q, w), [du EXCEPT ![w] = v], t)
<1> DEFINE r == RemoveFirst(q, w)
           d2 == [du EXCEPT ![w] = v]
<1>1. /\ r \in Seq(S) /\ ToSet(r) = ToSet(q) \ {w}
      /\ \A i, j \in 1 .. Len(r) :
           i < j => \E a, b \in 1 .. Len(q) : a < b /\ q[a] = r[i] /\ q[b] = r[j]
  BY RemovedSeq
<1> HIDE DEF r
<1>2. \A k \in 1 .. Len(r) : r[k] \in S /\ r[k] # w
  BY <1>1, InToSet
<1>3. \A k \in 1 .. Len(r) : d2[r[k]] = du[r[k]]
  BY <1>2
<1> HIDE DEF d2
<1>4. ASSUME NEW i \in 1 .. Len(r), NEW j \in 1 .. Len(r), i < j
      PROVE  Age(d2[r[i]], t) <= Age(d2[r[j]], t)
  <2>1. PICK a \in 1 .. Len(q), b \in 1 .. Len(q) : a < b /\ q[a] = r[i] /\ q[b] = r[j]
    BY <1>1, <1>4
  <2>2. Age(du[q[a]], t) <= Age(du[q[b]], t)
    BY <2>1 DEF InOrder
  <2>3. QED BY <1>3, <2>1, <2>2
<1>5. QED BY <1>4 DEF InOrder, r, d2

\* An element that goes behind what comes due earlier and ahead of what comes
\* due later keeps the order.
LEMMA InsertedOrder ==
  ASSUME NEW S, NEW q \in Seq(S), IsInjective(q), NEW w \in S, w \notin ToSet(q),
         NEW du \in [S -> Ticks], NEW t,
         \A u \in ToSet(q) : Age(du[u], t) \in Ages, InOrder(q, du, t),
         NEW d, Age(d, t) \in Ages, NEW at \in 1 .. Len(q) + 1,
         \A k \in 1 .. Len(q) : k < at => Age(du[q[k]], t) <= Age(d, t),
         at <= Len(q) => Age(d, t) <= Age(du[q[at]], t)
  PROVE  LET r == InsertAt(q, at, w)
         IN  /\ r \in Seq(S) /\ IsInjective(r) /\ ToSet(r) = ToSet(q) \cup {w}
             /\ InOrder(r, [du EXCEPT ![w] = d], t)
<1> DEFINE r == InsertAt(q, at, w)
           d2 == [du EXCEPT ![w] = d]
<1>1. Len(q) \in Nat /\ \A k \in 1 .. Len(q) : q[k] \in S
  BY InToSet
<1>2. \A k \in 1 .. Len(q) : q[k] \in ToSet(q)
  BY InToSet
<1>3. \A k \in 1 .. Len(q) : Age(du[q[k]], t) \in Ages
  BY <1>2
<1>7. /\ r \in Seq(S) /\ ToSet(r) = ToSet(q) \cup {w} /\ IsInjective(r)
  BY InsertAtSeq
<1>8. /\ Len(r) = Len(q) + 1
      /\ \A k \in 1 .. Len(q) + 1 :
           r[k] = IF k < at THEN q[k] ELSE IF k = at THEN w ELSE q[k - 1]
  BY InsertAtPos
<1> HIDE DEF r
<1>9. d2[w] = d /\ \A k \in 1 .. Len(q) : d2[q[k]] = du[q[k]]
  BY <1>1, <1>2
<1> HIDE DEF d2
<1> DEFINE a == Age(d, t)
           age(k) == Age(du[q[k]], t)
<1>10. /\ a \in Nat
       /\ \A k \in 1 .. Len(q) : age(k) \in Nat
       /\ \A k \in 1 .. Len(q) : k < at => age(k) <= a
       /\ at <= Len(q) => a <= age(at)
       /\ \A j, k \in 1 .. Len(q) : j < k => age(j) <= age(k)
  <2>1. a \in Nat /\ \A k \in 1 .. Len(q) : age(k) \in Nat
    BY <1>3 DEF Ages
  <2>2. \A j, k \in 1 .. Len(q) : j < k => age(j) <= age(k)
    BY DEF InOrder
  <2>3. QED BY <2>1, <2>2
<1>11. \A k \in 1 .. Len(r) :
         /\ k < at => k \in 1 .. Len(q) /\ Age(d2[r[k]], t) = age(k)
         /\ k = at => Age(d2[r[k]], t) = a
         /\ k > at => k - 1 \in 1 .. Len(q) /\ Age(d2[r[k]], t) = age(k - 1)
  BY <1>1, <1>8, <1>9
<1> HIDE DEF a, age
<1>12. ASSUME NEW j \in 1 .. Len(r), NEW k \in 1 .. Len(r), j < k
       PROVE  Age(d2[r[j]], t) <= Age(d2[r[k]], t)
  <2>1. CASE k < at
    BY <1>1, <1>8, <1>10, <1>11, <1>12, <2>1
  <2>2. CASE k = at
    BY <1>1, <1>8, <1>10, <1>11, <1>12, <2>2
  <2>3. CASE k > at /\ j < at
    <3>1. k - 1 \in 1 .. Len(q) /\ j \in 1 .. Len(q)
      BY <1>11, <2>3
    <3>2. age(j) <= age(k - 1)
      <4>1. j <= k - 1
        BY <1>12
      <4>2. CASE j < k - 1
        BY <1>10, <3>1, <4>2
      <4>3. CASE j = k - 1
        BY <1>10, <3>1, <4>3
      <4>4. QED BY <3>1, <4>1, <4>2, <4>3
    <3>3. QED BY <1>11, <2>3, <3>2
  <2>4. CASE j = at
    <3>1. k - 1 \in 1 .. Len(q) /\ at <= k - 1
      BY <1>11, <1>12, <2>4
    <3>2. at \in 1 .. Len(q)
      BY <1>1, <3>1
    <3>3. age(at) <= age(k - 1)
      <4>1. CASE at < k - 1
        BY <1>10, <3>1, <3>2, <4>1
      <4>2. CASE at = k - 1
        BY <1>10, <3>1, <4>2
      <4>3. QED BY <3>1, <3>2, <4>1, <4>2
    <3>4. a <= age(at) /\ a \in Nat /\ age(at) \in Nat /\ age(k - 1) \in Nat
      BY <1>1, <1>10, <3>1, <3>2
    <3>5. a <= age(k - 1)
      BY <3>3, <3>4
    <3>6. QED BY <1>11, <1>12, <2>4, <3>5
  <2>5. CASE j > at
    <3>1. j - 1 \in 1 .. Len(q) /\ k - 1 \in 1 .. Len(q) /\ j - 1 < k - 1 /\ k > at
      BY <1>11, <1>12, <2>5
    <3>2. age(j - 1) <= age(k - 1)
      BY <1>10, <3>1
    <3>3. QED BY <1>11, <2>5, <3>1, <3>2
  <2>6. QED BY <1>1, <2>1, <2>2, <2>3, <2>4, <2>5
<1>13. InOrder(r, d2, t)
  BY <1>12 DEF InOrder
<1>14. QED BY <1>7, <1>13 DEF r, d2

\* The first of a list, and the others.
LEMMA HeadTailSeq ==
  ASSUME NEW S, NEW q \in Seq(S), IsInjective(q), q # <<>>
  PROVE  /\ Head(q) \in S /\ Tail(q) \in Seq(S) /\ IsInjective(Tail(q))
         /\ Head(q) \in ToSet(q) /\ ToSet(Tail(q)) = ToSet(q) \ {Head(q)}
         /\ Head(q) = q[1]
<1> DEFINE r == Tail(q)
<1>1. Len(q) \in Nat /\ Len(q) # 0 /\ \A k \in 1 .. Len(q) : q[k] \in S
  BY InToSet, EmptySeq
<1>2. /\ Head(q) = q[1]
      /\ r \in Seq(S) /\ Len(r) = Len(q) - 1
      /\ \A k \in 1 .. Len(q) - 1 : r[k] = q[k + 1]
  BY <1>1, HeadTailProperties
<1> HIDE DEF r
<1>3. \A j, k \in 1 .. Len(q) : q[j] = q[k] => j = k
  BY InjectiveSeq
<1>4. IsInjective(r)
  <2>1. ASSUME NEW j \in 1 .. Len(r), NEW k \in 1 .. Len(r), r[j] = r[k]
        PROVE  j = k
    <3>1. j + 1 \in 1 .. Len(q) /\ k + 1 \in 1 .. Len(q) /\ q[j + 1] = q[k + 1]
      BY <1>1, <1>2, <2>1
    <3>2. j + 1 = k + 1
      BY <1>3, <3>1
    <3>3. QED BY <3>2
  <2>2. QED BY <1>2, <2>1, InjectiveSeq
<1>5. ASSUME NEW x
      PROVE  x \in ToSet(r) <=> x \in ToSet(q) /\ x # q[1]
  <2>1. ASSUME NEW k \in 1 .. Len(r), r[k] = x
        PROVE  x \in ToSet(q) /\ x # q[1]
    <3>1. k + 1 \in 1 .. Len(q) /\ q[k + 1] = x /\ 1 \in 1 .. Len(q) /\ k + 1 # 1
      BY <1>1, <1>2, <2>1
    <3>2. x # q[1]
      BY <1>3, <3>1
    <3>3. QED BY <3>1, <3>2, InToSet
  <2>2. ASSUME NEW k \in 1 .. Len(q), q[k] = x, x # q[1]
        PROVE  \E j \in 1 .. Len(r) : r[j] = x
    <3>1. k # 1
      BY <2>2
    <3>2. k - 1 \in 1 .. Len(r) /\ r[k - 1] = x
      BY <1>1, <1>2, <2>2, <3>1
    <3>3. QED BY <3>2
  <2>3. QED BY <1>2, <2>1, <2>2, InToSet
<1>6. q[1] \in ToSet(q) /\ q[1] \in S
  BY <1>1, InToSet
<1>7. ToSet(r) = ToSet(q) \ {q[1]}
  BY <1>5
<1>8. QED BY <1>2, <1>4, <1>6, <1>7 DEF r

-----------------------------------------------------------------------------
(* The work queue: its clients                                             *)

\* What the argument needs to know of the variables.
SyncType ==
  /\ value \in {0, 1}
  /\ saw \subseteq Clients
  /\ current \in Works => wpc = "run"
  /\ cpc \in [Clients -> {"idle", "take", "blocked", "cancel", "work",
                          "workFirst", "delayed", "delayedFirst", "delete",
                          "detach"}]

SyncIInv == SyncType /\ NoUnitLeft /\ SyncWaitsOut

\* At start nobody waits for an execution and queue->sem has no unit.
LEMMA InitSync == Init => SyncIInv
BY WorkQueueAssumption DEF Init, SyncIInv, SyncType, NoUnitLeft, SyncWaitsOut

-----------------------------------------------------------------------------
(* Steps that leave the clients and the semaphore alone                    *)

\* rt_completion_done neither starts nor stops an execution.
LEMMA CompletionDoneStep ==
  ASSUME SyncIInv, CompletionDone,
         UNCHANGED <<current, semVars, clientVars>>
  PROVE  SyncIInv'
BY DEF SyncIInv, SyncType, NoUnitLeft, SyncWaitsOut, CompletionDone, semVars,
       clientVars

\* Requests for work, and cancellations that wait for nothing.
LEMMA RequestStep ==
  ASSUME SyncIInv, NEW w \in Works,
         \/ DoWork(w) \/ UrgentWork(w) \/ CancelWork(w)
         \/ \E n \in Delays : SubmitDelayed(w, n)
  PROVE  SyncIInv'
<1>1. CASE DoWork(w)
  BY <1>1, CompletionDoneStep DEF DoWork, execVars
<1>2. CASE UrgentWork(w)
  BY <1>2, CompletionDoneStep DEF UrgentWork, execVars
<1>3. CASE \E n \in Delays : SubmitDelayed(w, n)
  BY <1>3, CompletionDoneStep DEF SubmitDelayed, execVars
<1>4. CASE CancelWork(w)
  BY <1>4 DEF CancelWork, SyncIInv, SyncType, NoUnitLeft, SyncWaitsOut, semVars,
              clientVars, execVars, workerVars
<1>5. QED BY <1>1, <1>2, <1>3, <1>4

\* The clock; the timer of the thread of the queue wakes it from its sleep only.
LEMMA TickStep ==
  ASSUME SyncIInv, Tick
  PROVE  SyncIInv'
BY DEF Tick, SyncIInv, SyncType, NoUnitLeft, SyncWaitsOut, semVars,
       execVars, clientVars

-----------------------------------------------------------------------------
(* The thread of the queue                                                 *)

\* An execution starts when no client waits for one, and when it ends the
\* clients that found it are free to be released.
LEMMA WorkerLoopStep ==
  ASSUME SyncIInv, Look \/ Wait \/ Woken \/ RunEnd
  PROVE  SyncIInv'
<1>1. CASE Look
  BY <1>1 DEF Look, SyncIInv, SyncType, NoUnitLeft, SyncWaitsOut, semVars,
       execVars, clientVars
<1>2. CASE Wait
  BY <1>2 DEF Wait, SyncIInv, SyncType, NoUnitLeft, SyncWaitsOut, semVars,
       execVars, clientVars
<1>3. CASE Woken
  BY <1>3 DEF Woken, SyncIInv, SyncType, NoUnitLeft, SyncWaitsOut, semVars,
       execVars, clientVars
<1>4. CASE RunEnd
  BY <1>4, WorkQueueAssumption
     DEF RunEnd, SyncIInv, SyncType, NoUnitLeft, SyncWaitsOut, semVars
<1>5. QED BY <1>1, <1>2, <1>3, <1>4

\* _workqueue_work_completion leaves its loop with the unit it took back.
LEMMA AckStep ==
  ASSUME SyncIInv, AckTake \/ AckRelease
  PROVE  SyncIInv'
<1>1. CASE AckTake
  BY <1>1 DEF AckTake, SyncIInv, SyncType, NoUnitLeft, SyncWaitsOut, execVars,
              clientVars
<1>2. CASE AckRelease
  BY <1>2 DEF AckRelease, Return, SyncIInv, SyncType, NoUnitLeft, SyncWaitsOut,
              execVars
<1>3. QED BY <1>1, <1>2

-----------------------------------------------------------------------------
(* The clients                                                             *)

\* A client that finds its item executing finds no unit.
LEMMA SyncStep ==
  ASSUME SyncIInv, NEW c \in Clients,
         (\E w \in Works : SyncLook(c, w)) \/ SyncTake(c) \/ SyncCancel(c)
  PROVE  SyncIInv'
<1>1. ASSUME NEW w \in Works, SyncLook(c, w) PROVE SyncIInv'
  BY <1>1, WorkQueueAssumption
     DEF SyncLook, SyncIInv, SyncType, NoUnitLeft, SyncWaitsOut, semVars,
              execVars, workerVars
<1>2. CASE SyncTake(c)
  <2>1. value \in {0, 1} /\ (value > 0 => saw = {})
    BY DEF SyncIInv, SyncType, NoUnitLeft
  <2>2. \/ value > 0 /\ value' = 0 /\ cpc' = [cpc EXCEPT ![c] = "idle"]
        \/ value' = value /\ cpc' = [cpc EXCEPT ![c] = "blocked"]
    BY <1>2, <2>1 DEF SyncTake, Return
  <2>3. UNCHANGED <<wpc, current, saw>>
    BY <1>2 DEF SyncTake, execVars, workerVars
  <2>4. SyncType'
    BY <2>1, <2>2, <2>3 DEF SyncIInv, SyncType
  <2>5. NoUnitLeft'
    BY <2>1, <2>2, <2>3 DEF SyncIInv, SyncType, NoUnitLeft
  <2>6. SyncWaitsOut'
    BY <2>1, <2>2, <2>3 DEF SyncIInv, SyncType, SyncWaitsOut
  <2>7. QED BY <2>4, <2>5, <2>6 DEF SyncIInv
<1>3. CASE SyncCancel(c)
  BY <1>3 DEF SyncCancel, Return, SyncIInv, SyncType, NoUnitLeft, SyncWaitsOut,
              semVars, execVars, workerVars
<1>4. QED BY <1>1, <1>2, <1>3

\* rt_workqueue_cancel_all_work, and rt_workqueue_destroy, which deletes the
\* thread before it wakes the clients.
LEMMA CancelAllStep ==
  ASSUME SyncIInv, NEW c \in Clients,
         \/ \E destroy \in BOOLEAN : CancelAll(c, destroy)
         \/ CancelAllTest(c) \/ CancelAllFirst(c)
         \/ CancelAllRemove(c) \/ CancelAllHead(c)
         \/ DeleteThread(c) \/ DetachSem(c)
  PROVE  SyncIInv'
<1>1. ASSUME NEW destroy \in BOOLEAN, CancelAll(c, destroy) PROVE SyncIInv'
  BY <1>1 DEF CancelAll, SyncIInv, SyncType, NoUnitLeft, SyncWaitsOut, semVars,
              execVars, workerVars
<1>2. CASE CancelAllTest(c) \/ CancelAllFirst(c)
  <2>1. \E l \in {"work", "workFirst", "delayed", "delayedFirst", "delete", "idle"} :
          cpc' = [cpc EXCEPT ![c] = l]
    BY <1>2 DEF CancelAllTest, CancelAllFirst
  <2>2. cpc[c] \notin {"take", "blocked"}
    BY <1>2 DEF CancelAllTest, CancelAllFirst
  <2>3. UNCHANGED <<wpc, current, value, saw>>
    BY <1>2 DEF CancelAllTest, CancelAllFirst, semVars, execVars, workerVars
  <2>4. SyncType'
    BY <2>1, <2>2, <2>3 DEF SyncIInv, SyncType
  <2>5. NoUnitLeft'
    BY <2>1, <2>2, <2>3 DEF SyncIInv, SyncType, NoUnitLeft
  <2>6. SyncWaitsOut'
    BY <2>1, <2>2, <2>3 DEF SyncIInv, SyncType, SyncWaitsOut
  <2>7. QED BY <2>4, <2>5, <2>6 DEF SyncIInv
<1>3. CASE CancelAllRemove(c) \/ CancelAllHead(c)
  BY <1>3, WorkQueueAssumption
     DEF CancelAllRemove, CancelAllHead, SyncIInv, SyncType, NoUnitLeft,
              SyncWaitsOut, semVars, execVars, workerVars
<1>4. CASE DeleteThread(c)
  BY <1>4, WorkQueueAssumption
     DEF DeleteThread, SyncIInv, SyncType, NoUnitLeft, SyncWaitsOut, semVars
<1>5. CASE DetachSem(c)
  BY <1>5 DEF DetachSem, SyncIInv, SyncType, NoUnitLeft, SyncWaitsOut, execVars,
              workerVars
<1>6. QED BY <1>1, <1>2, <1>3, <1>4, <1>5

-----------------------------------------------------------------------------

\* Every step keeps the semaphore and its waiters in agreement with the
\* execution that is under way.
LEMMA NextSync == SyncIInv /\ [Next]_vars => SyncIInv'
<1> SUFFICES ASSUME SyncIInv, [Next]_vars PROVE SyncIInv'
  OBVIOUS
<1>1. CASE UNCHANGED vars
  BY <1>1 DEF vars, SyncIInv, SyncType, NoUnitLeft, SyncWaitsOut, semVars,
              execVars, workerVars, clientVars
<1>2. CASE Worker
  BY <1>2, WorkerLoopStep, AckStep DEF Worker
<1>3. CASE Request
  BY <1>3, RequestStep, SyncStep, CancelAllStep DEF Request
<1>4. ASSUME NEW c \in Clients, ClientStep(c) PROVE SyncIInv'
  BY <1>4, SyncStep, CancelAllStep DEF ClientStep
<1>5. QED BY <1>1, <1>2, <1>3, <1>4, TickStep DEF Next

\* rt_workqueue_cancel_work_sync returns no earlier than the execution it found
\* ends, for any number of work items, clients, calls and any tick counter.
THEOREM SyncNotEarly == Spec => []SyncWaitsOut
<1>1. SyncIInv => SyncWaitsOut
  BY DEF SyncIInv
<1>2. QED BY <1>1, InitSync, NextSync, PTL DEF Spec

\* Outside of _workqueue_work_completion queue->sem is empty, unless the thread
\* of the queue was deleted in the middle of it.
THEOREM SemaphoreEmpty == Spec => []NoUnitLeft
<1>1. SyncIInv => NoUnitLeft
  BY DEF SyncIInv
<1>2. QED BY <1>1, InitSync, NextSync, PTL DEF Spec
-----------------------------------------------------------------------------
(* The lists of the work queue                                             *)

\* rt_list_remove, for the lists of the work queue.
LEMMA UnlinkedSeq ==
  ASSUME NEW q \in Seq(Works), IsInjective(q), NEW w
  PROVE  LET r == Unlinked(q, w)
         IN  /\ r \in Seq(Works) /\ IsInjective(r) /\ ToSet(r) = ToSet(q) \ {w}
             /\ \A i, j \in 1 .. Len(r) :
                  i < j => \E a, b \in 1 .. Len(q) :
                             a < b /\ q[a] = r[i] /\ q[b] = r[j]
BY RemovedSeq DEF Unlinked

\* An item that leaves the delayed list does not disturb its order.
LEMMA UnlinkedOrder ==
  ASSUME NEW q \in Seq(Works), IsInjective(q), NEW w, NEW t, NEW v,
         NEW du \in [Works -> Ticks], InOrder(q, du, t)
  PROVE  InOrder(Unlinked(q, w), [du EXCEPT ![w] = v], t)
BY RemovedOrder DEF Unlinked

\* _workqueue_submit_work puts the item where its time belongs.
LEMMA InsertedSeq ==
  ASSUME NEW q \in Seq(Works), IsInjective(q), NEW w \in Works, w \notin ToSet(q),
         due \in [Works -> Ticks], tick \in Ticks,
         \A u \in ToSet(q) : Age(due[u], tick) \in Ages, InOrder(q, due, tick),
         NEW d \in Ticks, Age(d, tick) \in Ages, Age(d, tick) > MaxLate
  PROVE  LET r == InsertedByDue(q, w, d)
         IN  /\ r \in Seq(Works) /\ IsInjective(r) /\ ToSet(r) = ToSet(q) \cup {w}
             /\ InOrder(r, [due EXCEPT ![w] = d], tick)
<1> DEFINE after == {i \in DOMAIN q : Minus(due[q[i]], d) < Half}
           at == IF after = {} THEN Len(q) + 1 ELSE Min(after)
<1>1. Len(q) \in Nat /\ DOMAIN q = 1 .. Len(q) /\ \A k \in 1 .. Len(q) : q[k] \in Works
  BY InToSet, LenProperties
<1>2. \A k \in 1 .. Len(q) : q[k] \in ToSet(q)
  BY InToSet
<1>3. \A k \in 1 .. Len(q) : due[q[k]] \in Ticks /\ Age(due[q[k]], tick) \in Ages
  BY <1>1, <1>2
<1>4. \A k \in 1 .. Len(q) : k \in after <=> Age(due[q[k]], tick) >= Age(d, tick)
  <2>1. ASSUME NEW k \in 1 .. Len(q)
        PROVE  Minus(due[q[k]], d) < Half <=> Age(due[q[k]], tick) >= Age(d, tick)
    <3>1. PICK e \in Ticks : e = due[q[k]]
      BY <1>3
    <3>2. Age(e, tick) \in Ages
      BY <1>3, <3>1
    <3>3. Minus(e, d) < Half <=> Age(e, tick) >= Age(d, tick)
      BY <3>2, BeforeIs
    <3>4. QED BY <3>1, <3>3
  <2>2. QED BY <1>1, <2>1
<1>5. after \in SUBSET Nat /\ after \subseteq 1 .. Len(q)
  BY <1>1
<1>6. /\ at \in 1 .. Len(q) + 1
      /\ \A k \in 1 .. Len(q) : k < at => k \notin after
      /\ at <= Len(q) => at \in after
  <2>1. CASE after = {}
    BY <2>1, <1>1
  <2>2. CASE after # {}
    <3>1. Min(after) \in after /\ \A k \in after : Min(after) <= k
      BY <1>5, <2>2, MinNat
    <3>2. at = Min(after)
      BY <2>2
    <3> HIDE DEF at, after
    <3>3. at \in after /\ at \in 1 .. Len(q) /\ \A k \in after : at <= k
      BY <1>5, <3>1, <3>2
    <3>4. \A k \in 1 .. Len(q) : k < at => k \notin after
      BY <3>3
    <3>5. QED BY <1>1, <3>3, <3>4
  <2>3. QED BY <2>1, <2>2
<1> HIDE DEF after, at
<1>7. \A k \in 1 .. Len(q) : Age(due[q[k]], tick) \in Nat /\ Age(d, tick) \in Nat
  BY <1>3 DEF Ages
<1>8. \A k \in 1 .. Len(q) : k < at => Age(due[q[k]], tick) <= Age(d, tick)
  <2>1. ASSUME NEW k \in 1 .. Len(q), k < at
        PROVE  Age(due[q[k]], tick) <= Age(d, tick)
    <3>1. ~ (Age(due[q[k]], tick) >= Age(d, tick))
      BY <1>4, <1>6, <2>1
    <3>2. QED BY <1>7, <3>1
  <2>2. QED BY <2>1
<1>9. at <= Len(q) => Age(d, tick) <= Age(due[q[at]], tick)
  <2>1. ASSUME at <= Len(q) PROVE Age(d, tick) <= Age(due[q[at]], tick)
    <3>1. at \in 1 .. Len(q) /\ at \in after
      BY <1>1, <1>6, <2>1
    <3>2. Age(due[q[at]], tick) >= Age(d, tick)
      BY <1>4, <3>1
    <3>3. QED BY <1>7, <3>1, <3>2
  <2>2. QED BY <2>1
<1>10. LET r == InsertAt(q, at, w)
       IN  /\ r \in Seq(Works) /\ IsInjective(r) /\ ToSet(r) = ToSet(q) \cup {w}
           /\ InOrder(r, [due EXCEPT ![w] = d], tick)
  BY <1>6, <1>8, <1>9, InsertedOrder
<1>11. InsertedByDue(q, w, d) = InsertAt(q, at, w)
  BY DEF InsertedByDue, at, after
<1>12. QED BY <1>10, <1>11


\* The items at the head of the delayed list whose time has come are all there
\* are: the others come later.
LEMMA DueCountIs ==
  ASSUME delayed \in Seq(Works), due \in [Works -> Ticks], tick \in Ticks,
         \A u \in ToSet(delayed) : Age(due[u], tick) \in Ages,
         InOrder(delayed, due, tick)
  PROVE  /\ DueCount \in 0 .. Len(delayed)
         /\ \A k \in 1 .. Len(delayed) :
              k <= DueCount <=> Age(due[delayed[k]], tick) <= MaxLate
<1> DEFINE rest == {i \in DOMAIN delayed : ~IsDue(delayed[i])}
           n == IF rest = {} THEN Len(delayed) ELSE Min(rest) - 1
           age(k) == Age(due[delayed[k]], tick)
<1>1. /\ Len(delayed) \in Nat /\ DOMAIN delayed = 1 .. Len(delayed)
      /\ \A k \in 1 .. Len(delayed) : delayed[k] \in Works /\ delayed[k] \in ToSet(delayed)
  BY InToSet, LenProperties
<1>2. \A k \in 1 .. Len(delayed) :
        due[delayed[k]] \in Ticks /\ age(k) \in Ages /\ age(k) \in Nat
  BY <1>1 DEF Ages
<1>3. \A k \in 1 .. Len(delayed) : k \in rest <=> ~ (age(k) <= MaxLate)
  <2>1. ASSUME NEW k \in 1 .. Len(delayed)
        PROVE  IsDue(delayed[k]) <=> age(k) <= MaxLate
    <3>1. PICK e \in Ticks : e = due[delayed[k]]
      BY <1>2
    <3>2. Age(e, tick) \in Ages
      BY <1>2, <3>1
    <3>3. Minus(tick, e) < Half <=> Age(e, tick) <= MaxLate
      BY <3>2, DueIs
    <3>4. QED BY <3>1, <3>3 DEF IsDue
  <2>2. QED BY <1>1, <2>1
<1>4. \A j, k \in 1 .. Len(delayed) : j < k => age(j) <= age(k)
  BY DEF InOrder
<1>5. rest \subseteq 1 .. Len(delayed) /\ rest \in SUBSET Nat
  BY <1>1
<1>6. DueCount = n
  BY DEF DueCount
<1> HIDE DEF age, rest
<1>7. CASE rest = {}
  <2>1. n = Len(delayed)
    BY <1>7
  <2>2. QED BY <1>1, <1>3, <1>6, <1>7, <2>1 DEF age
<1>8. CASE rest # {}
  <2>1. Min(rest) \in rest /\ \A k \in rest : Min(rest) <= k
    BY <1>5, <1>8, MinNat
  <2>2. PICK m \in 1 .. Len(delayed) : m = Min(rest)
    BY <1>5, <2>1
  <2>3. n = m - 1 /\ m \in rest /\ \A k \in rest : m <= k
    BY <1>8, <2>1, <2>2
  <2>4. MaxLate \in Nat
    BY TickFacts
  <2>5. ASSUME NEW k \in 1 .. Len(delayed)
        PROVE  k <= n <=> age(k) <= MaxLate
    <3>1. CASE k < m
      <4>1. k \notin rest /\ k <= n
        BY <2>3, <3>1
      <4>2. QED BY <1>3, <4>1
    <3>2. CASE k >= m
      <4>1. ~ (k <= n) /\ ~ (age(m) <= MaxLate)
        BY <1>3, <2>3, <3>2
      <4>2. age(m) <= age(k) /\ age(m) \in Nat /\ age(k) \in Nat
        <5>1. CASE m = k
          BY <1>2, <5>1 DEF age
        <5>2. CASE m # k
          BY <1>2, <1>4, <3>2, <5>2
        <5>3. QED BY <5>1, <5>2
      <4>3. QED BY <2>4, <4>1, <4>2
    <3>3. QED BY <3>1, <3>2
  <2>6. n \in 0 .. Len(delayed)
    BY <1>1, <2>3
  <2>7. QED BY <1>6, <2>5, <2>6 DEF age
<1>9. QED BY <1>7, <1>8

\* A list cut in two.
LEMMA SplitSeq ==
  ASSUME NEW q \in Seq(Works), IsInjective(q), NEW n \in 0 .. Len(q)
  PROVE  LET a == SubSeq(q, 1, n)
             b == SubSeq(q, n + 1, Len(q))
         IN  /\ a \in Seq(Works) /\ IsInjective(a) /\ Len(a) = n
             /\ \A k \in 1 .. n : a[k] = q[k]
             /\ b \in Seq(Works) /\ IsInjective(b) /\ Len(b) = Len(q) - n
             /\ \A k \in 1 .. Len(q) - n : b[k] = q[n + k]
             /\ ToSet(a) \cap ToSet(b) = {}
             /\ ToSet(a) \cup ToSet(b) = ToSet(q)
<1> DEFINE a == SubSeq(q, 1, n)
           b == SubSeq(q, n + 1, Len(q))
<1>1. Len(q) \in Nat /\ \A k \in 1 .. Len(q) : q[k] \in Works
  BY InToSet
<1>2. a \in Seq(Works) /\ Len(a) = n /\ \A k \in 1 .. n : a[k] = q[k]
  BY <1>1, SubSeqProperties
<1>3. /\ b \in Seq(Works) /\ Len(b) = Len(q) - n
      /\ \A k \in 1 .. Len(q) - n : b[k] = q[n + k]
  BY <1>1, SubSeqProperties
<1> HIDE DEF a, b
<1>4. \A j, k \in 1 .. Len(q) : q[j] = q[k] => j = k
  BY InjectiveSeq
<1>5. IsInjective(a)
  <2>1. \A j, k \in 1 .. Len(a) : a[j] = a[k] => j = k
    BY <1>1, <1>2, <1>4
  <2>2. QED BY <1>2, <2>1, InjectiveSeq
<1>6. IsInjective(b)
  <2>1. ASSUME NEW j \in 1 .. Len(b), NEW k \in 1 .. Len(b), b[j] = b[k]
        PROVE  j = k
    <3>1. n + j \in 1 .. Len(q) /\ n + k \in 1 .. Len(q) /\ q[n + j] = q[n + k]
      BY <1>1, <1>3, <2>1
    <3>2. n + j = n + k
      BY <1>4, <3>1
    <3>3. QED BY <1>1, <3>2
  <2>2. QED BY <1>3, <2>1, InjectiveSeq
<1>7. ASSUME NEW x
      PROVE  /\ x \in ToSet(a) <=> \E k \in 1 .. Len(q) : k <= n /\ q[k] = x
             /\ x \in ToSet(b) <=> \E k \in 1 .. Len(q) : k > n /\ q[k] = x
  <2>1. x \in ToSet(a) <=> \E k \in 1 .. n : q[k] = x
    BY <1>2, InToSet
  <2>2. x \in ToSet(b) <=> \E k \in 1 .. Len(q) - n : q[n + k] = x
    <3>1. x \in ToSet(b) <=> \E k \in 1 .. Len(b) : b[k] = x
      BY <1>3, InToSet
    <3>2. QED BY <1>3, <3>1
  <2>3. ASSUME NEW k \in 1 .. Len(q), k > n, q[k] = x
        PROVE  \E j \in 1 .. Len(q) - n : q[n + j] = x
    <3>1. k - n \in 1 .. Len(q) - n /\ n + (k - n) = k
      BY <1>1, <2>3
    <3>2. QED BY <2>3, <3>1
  <2>4. ASSUME NEW j \in 1 .. Len(q) - n, q[n + j] = x
        PROVE  \E k \in 1 .. Len(q) : k > n /\ q[k] = x
    <3>1. n + j \in 1 .. Len(q) /\ n + j > n
      BY <1>1
    <3>2. QED BY <2>4, <3>1
  <2>5. QED BY <1>1, <2>1, <2>2, <2>3, <2>4
<1>8. ToSet(a) \cap ToSet(b) = {}
  <2>1. ASSUME NEW x, x \in ToSet(a), x \in ToSet(b) PROVE FALSE
    BY <1>1, <1>4, <1>7, <2>1
  <2>2. QED BY <2>1
<1>9. ToSet(a) \cup ToSet(b) = ToSet(q)
  <2>1. ASSUME NEW x PROVE x \in ToSet(a) \cup ToSet(b) <=> x \in ToSet(q)
    BY <1>1, <1>7, InToSet
  <2>2. QED BY <2>1
<1>10. QED BY <1>2, <1>3, <1>5, <1>6, <1>8, <1>9 DEF a, b

\* Two lists one after the other, with nothing on both.
LEMMA ConcatSeq ==
  ASSUME NEW p \in Seq(Works), NEW q \in Seq(Works), IsInjective(p), IsInjective(q),
         ToSet(p) \cap ToSet(q) = {}
  PROVE  /\ p \o q \in Seq(Works) /\ IsInjective(p \o q)
         /\ ToSet(p \o q) = ToSet(p) \cup ToSet(q)
<1> DEFINE c == p \o q
<1>1. Len(p) \in Nat /\ Len(q) \in Nat
  BY InToSet
<1>2. /\ c \in Seq(Works) /\ Len(c) = Len(p) + Len(q)
      /\ \A k \in 1 .. Len(p) + Len(q) :
           c[k] = IF k <= Len(p) THEN p[k] ELSE q[k - Len(p)]
  BY ConcatProperties, Zenon
<1> HIDE DEF c
<1>3. /\ \A k \in 1 .. Len(p) : p[k] \in ToSet(p)
      /\ \A k \in 1 .. Len(q) : q[k] \in ToSet(q)
  BY InToSet
<1>4. \A k \in 1 .. Len(c) :
        \/ k \in 1 .. Len(p) /\ c[k] = p[k]
        \/ k - Len(p) \in 1 .. Len(q) /\ c[k] = q[k - Len(p)] /\ k > Len(p)
  BY <1>1, <1>2
<1>5. IsInjective(c)
  <2>1. /\ \A j, k \in 1 .. Len(p) : p[j] = p[k] => j = k
        /\ \A j, k \in 1 .. Len(q) : q[j] = q[k] => j = k
    BY InjectiveSeq
  <2>2. ASSUME NEW j \in 1 .. Len(c), NEW k \in 1 .. Len(c), c[j] = c[k]
        PROVE  j = k
    <3>1. CASE j \in 1 .. Len(p) /\ c[j] = p[j] /\ k \in 1 .. Len(p) /\ c[k] = p[k]
      BY <2>1, <2>2, <3>1
    <3>2. CASE /\ j - Len(p) \in 1 .. Len(q) /\ c[j] = q[j - Len(p)]
               /\ k - Len(p) \in 1 .. Len(q) /\ c[k] = q[k - Len(p)]
      <4>1. j - Len(p) = k - Len(p)
        BY <2>1, <2>2, <3>2
      <4>2. QED BY <1>1, <4>1
    <3>3. ~ (c[j] \in ToSet(p) /\ c[k] \in ToSet(q))
      BY <2>2
    <3>4. ~ (c[j] \in ToSet(q) /\ c[k] \in ToSet(p))
      BY <2>2
    <3>5. QED BY <1>3, <1>4, <3>1, <3>2, <3>3, <3>4
  <2>3. QED BY <1>2, <2>2, InjectiveSeq
<1>6. ToSet(c) = ToSet(p) \cup ToSet(q)
  <2>1. ASSUME NEW x \in ToSet(c) PROVE x \in ToSet(p) \cup ToSet(q)
    <3>1. PICK k \in 1 .. Len(c) : c[k] = x
      BY <1>2, InToSet
    <3>2. QED BY <1>3, <1>4, <3>1
  <2>2. ASSUME NEW x \in ToSet(p) PROVE x \in ToSet(c)
    <3>1. PICK k \in 1 .. Len(p) : p[k] = x
      BY InToSet
    <3>2. k \in 1 .. Len(c) /\ c[k] = x
      BY <1>1, <1>2, <3>1
    <3>3. QED BY <1>2, <3>2, InToSet
  <2>3. ASSUME NEW x \in ToSet(q) PROVE x \in ToSet(c)
    <3>1. PICK k \in 1 .. Len(q) : q[k] = x
      BY InToSet
    <3>2. PICK j \in 1 .. Len(c) : j = k + Len(p)
      BY <1>1, <1>2
    <3>3. c[j] = q[j - Len(p)] /\ j - Len(p) = k
      BY <1>1, <1>2, <3>2
    <3>4. QED BY <1>2, <3>1, <3>3, InToSet
  <2>4. QED BY <2>1, <2>2, <2>3
<1>7. QED BY <1>2, <1>5, <1>6 DEF c


-----------------------------------------------------------------------------
(* The lists, their times and the clock, as values: what always holds of   *)
(* them, what they mean, and what each operation makes of both.            *)

\* wl and dl are the work list and the delayed list, du the times, t the clock.
ListsOK(wl, dl, du, t) ==
  /\ wl \in Seq(Works) /\ IsInjective(wl)
  /\ dl \in Seq(Works) /\ IsInjective(dl)
  /\ ToSet(wl) \cap ToSet(dl) = {}
  /\ du \in [Works -> Ticks]
  /\ \A w \in Works \ ToSet(dl) : du[w] = 0
  /\ t \in Ticks
  /\ \A w \in ToSet(dl) : Age(du[w], t) \in Ages
  /\ InOrder(dl, du, t)

\* The ticks until each item may start
LeftOf(wl, dl, du, t) ==
  [w \in Works |-> IF w \in ToSet(wl) THEN 0
                   ELSE IF w \in ToSet(dl) THEN Remaining(du[w], t) ELSE -1]

QueueOK == ListsOK(workList, delayed, due, tick)
Lefts == LeftOf(workList, delayed, due, tick)

\* f, but n at w
Updated(f, w, n) == [f EXCEPT ![w] = n]

\* An item that is taken off is on no list and asked for no more; the others
\* are where they were.
LEMMA TakenOff ==
  ASSUME NEW wl, NEW dl, NEW du, NEW t, ListsOK(wl, dl, du, t), NEW w
  PROVE  LET wl2 == Unlinked(wl, w)
             dl2 == Unlinked(dl, w)
             du2 == [du EXCEPT ![w] = 0]
         IN  /\ ListsOK(wl2, dl2, du2, t)
             /\ ToSet(wl2) = ToSet(wl) \ {w} /\ ToSet(dl2) = ToSet(dl) \ {w}
             /\ LeftOf(wl2, dl2, du2, t) = Updated(LeftOf(wl, dl, du, t), w, -1)
<1> DEFINE wl2 == Unlinked(wl, w)
           dl2 == Unlinked(dl, w)
           du2 == [du EXCEPT ![w] = 0]
<1>1. /\ wl \in Seq(Works) /\ IsInjective(wl) /\ dl \in Seq(Works) /\ IsInjective(dl)
      /\ ToSet(wl) \cap ToSet(dl) = {} /\ du \in [Works -> Ticks] /\ t \in Ticks
      /\ \A u \in Works \ ToSet(dl) : du[u] = 0
      /\ \A u \in ToSet(dl) : Age(du[u], t) \in Ages
      /\ InOrder(dl, du, t)
  BY DEF ListsOK
<1>2. wl2 \in Seq(Works) /\ IsInjective(wl2) /\ ToSet(wl2) = ToSet(wl) \ {w}
  BY <1>1, UnlinkedSeq
<1>3. dl2 \in Seq(Works) /\ IsInjective(dl2) /\ ToSet(dl2) = ToSet(dl) \ {w}
  BY <1>1, UnlinkedSeq
<1>4. InOrder(dl2, du2, t)
  BY <1>1, UnlinkedOrder
<1>5. /\ \A x \in ToSet(dl) : x \in Works
      /\ 0 \in Ticks
  <2>1. \A x \in ToSet(dl) : x \in Works
    BY <1>1, InToSet
  <2>2. QED BY <2>1, TickFacts
<1> HIDE DEF wl2, dl2
<1>6. /\ du2 \in [Works -> Ticks]
      /\ \A u \in Works : u # w => du2[u] = du[u]
      /\ w \in Works => du2[w] = 0
  BY <1>1, <1>5
<1> HIDE DEF du2
<1>7. ListsOK(wl2, dl2, du2, t)
  <2>1. \A u \in Works \ ToSet(dl2) : du2[u] = 0
    BY <1>1, <1>3, <1>6
  <2>2. \A u \in ToSet(dl2) : Age(du2[u], t) \in Ages
    BY <1>1, <1>3, <1>5, <1>6
  <2>3. ToSet(wl2) \cap ToSet(dl2) = {}
    BY <1>1, <1>2, <1>3
  <2>4. QED BY <1>1, <1>2, <1>3, <1>4, <1>6, <2>1, <2>2, <2>3 DEF ListsOK
<1>8. LeftOf(wl2, dl2, du2, t) = Updated(LeftOf(wl, dl, du, t), w, -1)
  BY <1>2, <1>3, <1>6 DEF LeftOf, Updated
<1>9. QED BY <1>2, <1>3, <1>7, <1>8 DEF wl2, dl2, du2

\* An item that is on no list goes to one end of the work list: it is asked
\* for at once.
LEMMA PutToWork ==
  ASSUME NEW wl, NEW dl, NEW du, NEW t, ListsOK(wl, dl, du, t),
         NEW w \in Works, w \notin ToSet(wl), w \notin ToSet(dl),
         NEW wl2, wl2 = Append(wl, w) \/ wl2 = <<w>> \o wl
  PROVE  /\ ListsOK(wl2, dl, du, t)
         /\ LeftOf(wl2, dl, du, t) = Updated(LeftOf(wl, dl, du, t), w, 0)
<1>1. wl \in Seq(Works) /\ IsInjective(wl) /\ ToSet(wl) \cap ToSet(dl) = {}
  BY DEF ListsOK
<1>2. wl2 \in Seq(Works) /\ IsInjective(wl2) /\ ToSet(wl2) = ToSet(wl) \cup {w}
  <2>1. CASE wl2 = Append(wl, w)
    BY <1>1, <2>1, AppendSeq
  <2>2. CASE wl2 = <<w>> \o wl
    BY <1>1, <2>2, ConsSeq
  <2>3. QED BY <2>1, <2>2
<1>3. ToSet(wl2) \cap ToSet(dl) = {}
  BY <1>1, <1>2
<1>4. QED BY <1>2, <1>3 DEF ListsOK, LeftOf, Updated

\* An item that is on no list goes to the delayed list, due n ticks from now.
LEMMA PutOff ==
  ASSUME NEW wl, NEW dl, NEW du, NEW w \in Works,
         due \in [Works -> Ticks], du = Updated(due, w, 0),
         ListsOK(wl, dl, du, tick), w \notin ToSet(wl), w \notin ToSet(dl),
         NEW n \in Delays, NEW d, d = (tick + n) % TickCount
  PROVE  LET dl2 == InsertedByDue(dl, w, d)
             du2 == Updated(due, w, d)
         IN  /\ ListsOK(wl, dl2, du2, tick)
             /\ LeftOf(wl, dl2, du2, tick)
                  = Updated(LeftOf(wl, dl, du, tick), w, n)
<1> DEFINE dl2 == InsertedByDue(dl, w, d)
           du2 == Updated(due, w, d)
<1>1. /\ wl \in Seq(Works) /\ IsInjective(wl) /\ dl \in Seq(Works) /\ IsInjective(dl)
      /\ ToSet(wl) \cap ToSet(dl) = {} /\ tick \in Ticks
      /\ \A u \in Works \ ToSet(dl) : du[u] = 0
      /\ \A u \in ToSet(dl) : Age(du[u], tick) \in Ages
      /\ InOrder(dl, du, tick)
  BY DEF ListsOK
<1>2. \A x \in ToSet(dl) : x \in Works
  BY <1>1, InToSet
<1>3. \A u \in Works : u # w => du[u] = due[u]
  BY DEF Updated
<1>4. \A u \in ToSet(dl) : du[u] = due[u]
  BY <1>2, <1>3
<1>5. \A u \in ToSet(dl) : Age(due[u], tick) \in Ages
  BY <1>1, <1>4
<1>6. InOrder(dl, due, tick)
  <2>1. \A k \in 1 .. Len(dl) : dl[k] \in ToSet(dl)
    BY <1>1, InToSet
  <2>2. QED BY <1>1, <1>4, <2>1 DEF InOrder
<1>7. /\ d \in Ticks /\ Age(d, tick) = n + MaxLate /\ Age(d, tick) \in Ages
      /\ Remaining(d, tick) = n
  BY <1>1, SubmitAge, WorkQueueAssumption
<1>8. Age(d, tick) > MaxLate
  <2>1. n \in Nat /\ n > 0
    BY ComparableIs, WorkQueueAssumption
  <2>2. QED BY <1>7, <2>1, TickFacts
<1>9. /\ dl2 \in Seq(Works) /\ IsInjective(dl2) /\ ToSet(dl2) = ToSet(dl) \cup {w}
      /\ InOrder(dl2, du2, tick)
  BY <1>1, <1>7, <1>8, <1>5, <1>6, InsertedSeq DEF Updated
<1> HIDE DEF dl2
<1>10. /\ du2 \in [Works -> Ticks] /\ du2[w] = d
      /\ \A u \in Works : u # w => du2[u] = du[u]
  BY <1>7, <1>3 DEF Updated
<1> HIDE DEF du2
<1>11. ListsOK(wl, dl2, du2, tick)
  <2>1. \A u \in Works \ ToSet(dl2) : du2[u] = 0
    BY <1>1, <1>9, <1>10
  <2>2. \A u \in ToSet(dl2) : Age(du2[u], tick) \in Ages
    BY <1>1, <1>7, <1>9, <1>10, <1>2
  <2>3. ToSet(wl) \cap ToSet(dl2) = {}
    BY <1>1, <1>9
  <2>4. QED BY <1>1, <1>9, <1>10, <2>1, <2>2, <2>3 DEF ListsOK
<1>12. LeftOf(wl, dl2, du2, tick) = Updated(LeftOf(wl, dl, du, tick), w, n)
  <2>1. ASSUME NEW u \in Works
        PROVE  LeftOf(wl, dl2, du2, tick)[u]
                 = Updated(LeftOf(wl, dl, du, tick), w, n)[u]
    <3>1. CASE u = w
      BY <1>7, <1>9, <1>10, <3>1 DEF LeftOf, Updated
    <3>2. CASE u # w
      BY <1>9, <1>10, <3>2 DEF LeftOf, Updated
    <3>3. QED BY <3>1, <3>2
  <2>2. QED BY <2>1 DEF LeftOf, Updated
<1>13. QED BY <1>11, <1>12 DEF dl2, du2

\* The clock ticks while no item is as late as it may be.
LEMMA ClockStep ==
  ASSUME NEW wl, NEW dl, NEW du, NEW t, ListsOK(wl, dl, du, t),
         \A w \in ToSet(dl) : Age(du[w], t) > 0,
         NEW u, u = (t + 1) % TickCount
  PROVE  /\ ListsOK(wl, dl, du, u)
         /\ \A w \in ToSet(dl) :
              /\ Remaining(du[w], t) \in Nat
              /\ Remaining(du[w], u) = IF Remaining(du[w], t) = 0 THEN 0
                                       ELSE Remaining(du[w], t) - 1
<1>1. /\ dl \in Seq(Works) /\ du \in [Works -> Ticks] /\ t \in Ticks
      /\ \A w \in ToSet(dl) : Age(du[w], t) \in Ages
      /\ \A i, j \in 1 .. Len(dl) : i < j => Age(du[dl[i]], t) <= Age(du[dl[j]], t)
  BY DEF ListsOK, InOrder
<1>2. \A w \in ToSet(dl) : w \in Works
  BY <1>1, InToSet
<1>3. u \in Ticks
  <2>1. t + 1 \in Int /\ TickCount \in Nat /\ TickCount > 0
    BY <1>1, TickFacts
  <2>2. u \in 0 .. TickCount - 1
    BY <2>1
  <2>3. QED BY <2>1, <2>2, TickFacts
<1>4. ASSUME NEW w \in ToSet(dl)
      PROVE  /\ Age(du[w], u) = Age(du[w], t) - 1 /\ Age(du[w], u) \in Ages
             /\ Age(du[w], t) \in Nat
  <2>1. PICK d \in Ticks : d = du[w]
    BY <1>1, <1>2
  <2>2. Age(d, t) \in Ages /\ Age(d, t) > 0
    BY <1>1, <2>1
  <2>3. Age(d, u) = Age(d, t) - 1 /\ Age(d, u) \in Ages
    BY <1>1, <2>2, TickAge
  <2>4. QED BY <2>1, <2>2, <2>3 DEF Ages
<1>5. InOrder(dl, du, u)
  <2>1. \A k \in 1 .. Len(dl) : dl[k] \in ToSet(dl)
    BY <1>1, InToSet
  <2>2. QED BY <1>1, <1>4, <2>1 DEF InOrder
<1>6. \A w \in ToSet(dl) :
        /\ Remaining(du[w], t) \in Nat
        /\ Remaining(du[w], u) = IF Remaining(du[w], t) = 0 THEN 0
                                 ELSE Remaining(du[w], t) - 1
  BY <1>4, TickFacts DEF Remaining
<1>7. QED BY <1>3, <1>4, <1>5, <1>6 DEF ListsOK

\* What the thread of the queue finds when it looks: the work list with the
\* items whose time has come, the other delayed items, and their times.
WorkThen == workList \o SubSeq(delayed, 1, DueCount)
RestThen == SubSeq(delayed, DueCount + 1, Len(delayed))
DueThen == [w \in Works |-> IF w \in ToSet(RestThen) THEN due[w] ELSE 0]

\* The items whose time has come join the work list, and nothing else about
\* them changes.
LEMMA DueItemsMove ==
  ASSUME QueueOK
  PROVE  /\ ListsOK(WorkThen, RestThen, DueThen, tick)
         /\ LeftOf(WorkThen, RestThen, DueThen, tick) = Lefts
         /\ WorkThen = <<>> => workList = <<>>
         /\ \A w \in ToSet(RestThen) : Age(due[w], tick) > MaxLate /\ DueThen[w] = due[w]
<1> SUFFICES
      ASSUME NEW n, n = DueCount,
             NEW work, work = workList \o SubSeq(delayed, 1, n),
             NEW rest, rest = SubSeq(delayed, n + 1, Len(delayed)),
             NEW du2, du2 = [w \in Works |-> IF w \in ToSet(rest) THEN due[w] ELSE 0]
      PROVE  /\ ListsOK(work, rest, du2, tick)
             /\ LeftOf(work, rest, du2, tick) = LeftOf(workList, delayed, due, tick)
             /\ work = <<>> => workList = <<>>
             /\ \A w \in ToSet(rest) : Age(due[w], tick) > MaxLate /\ du2[w] = due[w]
  BY DEF WorkThen, RestThen, DueThen, Lefts
<1>1. /\ workList \in Seq(Works) /\ IsInjective(workList)
      /\ delayed \in Seq(Works) /\ IsInjective(delayed)
      /\ ToSet(workList) \cap ToSet(delayed) = {}
      /\ due \in [Works -> Ticks] /\ tick \in Ticks
      /\ \A u \in Works \ ToSet(delayed) : due[u] = 0
      /\ \A u \in ToSet(delayed) : Age(due[u], tick) \in Ages
      /\ InOrder(delayed, due, tick)
  BY DEF QueueOK, ListsOK
<1>2. /\ n \in 0 .. Len(delayed)
      /\ \A k \in 1 .. Len(delayed) : k <= n <=> Age(due[delayed[k]], tick) <= MaxLate
  BY <1>1, DueCountIs
<1>3. PICK a : a = SubSeq(delayed, 1, n)
  OBVIOUS
<1>4. /\ a \in Seq(Works) /\ IsInjective(a) /\ Len(a) = n
      /\ \A k \in 1 .. n : a[k] = delayed[k]
      /\ rest \in Seq(Works) /\ IsInjective(rest) /\ Len(rest) = Len(delayed) - n
      /\ \A k \in 1 .. Len(delayed) - n : rest[k] = delayed[n + k]
      /\ ToSet(a) \cap ToSet(rest) = {}
      /\ ToSet(a) \cup ToSet(rest) = ToSet(delayed)
  BY <1>1, <1>2, <1>3, SplitSeq
<1>5. work = workList \o a
  BY <1>3
<1>6. Len(delayed) \in Nat /\ n \in Nat /\ n <= Len(delayed)
  BY <1>1, <1>2, InToSet
<1>7. /\ work \in Seq(Works) /\ IsInjective(work)
      /\ ToSet(work) = ToSet(workList) \cup ToSet(a)
  <2>1. ToSet(workList) \cap ToSet(a) = {}
    BY <1>1, <1>4
  <2>2. workList \in Seq(Works) /\ IsInjective(workList) /\ a \in Seq(Works) /\ IsInjective(a)
    BY <1>1, <1>4
  <2>3. /\ workList \o a \in Seq(Works) /\ IsInjective(workList \o a)
        /\ ToSet(workList \o a) = ToSet(workList) \cup ToSet(a)
    BY ONLY <2>1, <2>2, ConcatSeq
  <2>4. QED BY <1>5, <2>3
<1>8. ASSUME NEW w \in ToSet(a) PROVE Age(due[w], tick) <= MaxLate
  <2>1. PICK k \in 1 .. Len(a) : a[k] = w
    BY <1>4, InToSet
  <2>2. k \in 1 .. Len(delayed) /\ k <= n /\ delayed[k] = w
    BY <1>4, <1>6, <2>1
  <2>3. QED BY <1>2, <2>2
<1>9. rest \in Seq(Works)
  BY <1>4
<1>10. ASSUME NEW w \in ToSet(rest)
       PROVE  Age(due[w], tick) > MaxLate /\ du2[w] = due[w] /\ w \in Works
  <2>1. PICK k \in 1 .. Len(rest) : rest[k] = w
    BY ONLY <1>9, <1>10, InToSet
  <2>2. n + k \in 1 .. Len(delayed) /\ ~ (n + k <= n) /\ delayed[n + k] = w
    BY <1>4, <1>6, <2>1
  <2>3. ~ (Age(due[w], tick) <= MaxLate)
    BY <1>2, <2>2
  <2>4. w \in ToSet(delayed) /\ w \in Works
    BY <1>1, <1>4, <2>2, InToSet
  <2>5. Age(due[w], tick) \in Nat /\ MaxLate \in Nat
    BY <1>1, <2>4, TickFacts DEF Ages
  <2>6. QED BY <2>3, <2>4, <2>5
<1>11. du2 \in [Works -> Ticks] /\ \A u \in Works \ ToSet(rest) : du2[u] = 0
  <2>1. 0 \in Ticks
    BY TickFacts
  <2>2. QED BY <1>1, <2>1
<1>12. InOrder(rest, du2, tick)
  <2>1. ASSUME NEW i, NEW j, i \in 1 .. Len(rest), j \in 1 .. Len(rest), i < j
        PROVE  Age(du2[rest[i]], tick) <= Age(du2[rest[j]], tick)
    <3>1. /\ n + i \in 1 .. Len(delayed) /\ n + j \in 1 .. Len(delayed) /\ n + i < n + j
          /\ rest[i] = delayed[n + i] /\ rest[j] = delayed[n + j]
      BY <1>4, <1>6, <2>1
    <3>2. Age(due[delayed[n + i]], tick) <= Age(due[delayed[n + j]], tick)
      BY <1>1, <3>1 DEF InOrder
    <3>3. rest[i] \in ToSet(rest) /\ rest[j] \in ToSet(rest)
      BY ONLY <1>9, <2>1, InToSet
    <3>4. QED BY <1>10, <3>1, <3>2, <3>3
  <2>2. QED BY <2>1 DEF InOrder
<1>13. ListsOK(work, rest, du2, tick)
  <2>1. ToSet(work) \cap ToSet(rest) = {}
    BY <1>1, <1>4, <1>7
  <2>2. \A u \in ToSet(rest) : Age(du2[u], tick) \in Ages
    BY <1>1, <1>4, <1>10
  <2>3. QED BY <1>1, <1>4, <1>7, <1>11, <1>12, <2>1, <2>2 DEF ListsOK
<1>14. LeftOf(work, rest, du2, tick) = LeftOf(workList, delayed, due, tick)
  <2>1. \A u \in ToSet(a) : Remaining(due[u], tick) = 0
    BY <1>8 DEF Remaining
  <2>2. ASSUME NEW u \in Works
        PROVE  LeftOf(work, rest, du2, tick)[u] = LeftOf(workList, delayed, due, tick)[u]
    <3>1. CASE u \in ToSet(rest)
      BY <1>1, <1>4, <1>7, <1>10, <3>1 DEF LeftOf
    <3>2. CASE u \in ToSet(a)
      BY <1>1, <1>4, <1>7, <2>1, <3>2 DEF LeftOf
    <3>3. CASE u \notin ToSet(rest) /\ u \notin ToSet(a)
      BY <1>4, <1>7, <3>3 DEF LeftOf
    <3>4. QED BY <3>1, <3>2, <3>3
  <2>3. QED BY <2>2 DEF LeftOf
<1>15. work = <<>> => workList = <<>>
  BY <1>1, <1>7, EmptyToSet
<1>16. QED BY <1>10, <1>13, <1>14, <1>15

\* The first item of the work list starts.
LEMMA FirstStarts ==
  ASSUME NEW wl, NEW dl, NEW du, NEW t, ListsOK(wl, dl, du, t), wl # <<>>
  PROVE  /\ Head(wl) \in Works
         /\ ListsOK(Tail(wl), dl, du, t)
         /\ LeftOf(wl, dl, du, t)[Head(wl)] = 0
         /\ LeftOf(Tail(wl), dl, du, t) = Updated(LeftOf(wl, dl, du, t), Head(wl), -1)
<1>1. wl \in Seq(Works) /\ IsInjective(wl) /\ ToSet(wl) \cap ToSet(dl) = {}
  BY DEF ListsOK
<1>2. PICK h, r : h = Head(wl) /\ r = Tail(wl)
  OBVIOUS
<1>3. /\ h \in Works /\ r \in Seq(Works) /\ IsInjective(r)
      /\ h \in ToSet(wl) /\ ToSet(r) = ToSet(wl) \ {h}
  BY <1>1, <1>2, HeadTailSeq
<1>4. ToSet(r) \cap ToSet(dl) = {} /\ h \notin ToSet(dl)
  BY <1>1, <1>3
<1>5. ListsOK(r, dl, du, t)
  BY <1>3, <1>4 DEF ListsOK
<1>6. LeftOf(wl, dl, du, t)[h] = 0
  BY <1>3 DEF LeftOf
<1>7. LeftOf(r, dl, du, t) = Updated(LeftOf(wl, dl, du, t), h, -1)
  BY <1>3, <1>4 DEF LeftOf, Updated
<1>8. QED BY <1>2, <1>3, <1>5, <1>6, <1>7

\* The thread of the queue may sleep n ticks, having lost m, over these lists.
MaySleep(wl, dl, du, t, n, m) ==
  wl = <<>> /\ \A w \in ToSet(dl) : n # Forever /\ n <= Remaining(du[w], t) + m

\* The first of the delayed items is the first to be due: the delay computed
\* from it is not too long for any other.
LEMMA DelayOfFirst ==
  ASSUME NEW dl, NEW du, NEW t, ListsOK(<<>>, dl, du, t), dl # <<>>,
         \A w \in ToSet(dl) : Age(du[w], t) > MaxLate,
         NEW m \in Nat
  PROVE  /\ Minus(du[Head(dl)], t) \in Ticks
         /\ MaySleep(<<>>, dl, du, t, Minus(du[Head(dl)], t), m)
<1>1. /\ dl \in Seq(Works) /\ IsInjective(dl) /\ du \in [Works -> Ticks] /\ t \in Ticks
      /\ \A w \in ToSet(dl) : Age(du[w], t) \in Ages
      /\ \A i, j \in 1 .. Len(dl) : i < j => Age(du[dl[i]], t) <= Age(du[dl[j]], t)
  BY DEF ListsOK, InOrder
<1>2. Head(dl) \in Works /\ Head(dl) \in ToSet(dl) /\ Head(dl) = dl[1]
  BY <1>1, HeadTailSeq
<1>3. Len(dl) \in Nat /\ Len(dl) # 0
  BY <1>1, InToSet, EmptySeq
<1>4. PICK d \in Ticks : d = du[Head(dl)]
  BY <1>1, <1>2
<1>5. Age(d, t) \in Ages /\ Age(d, t) > MaxLate
  BY <1>1, <1>2, <1>4
<1>6. Minus(d, t) = Age(d, t) - MaxLate
  BY <1>1, <1>5, DueIs
<1>7. Age(d, t) \in Nat /\ Age(d, t) < TickCount /\ MaxLate \in Nat
  BY <1>5, TickFacts DEF Ages
<1>8. Minus(d, t) \in Ticks /\ Minus(d, t) # Forever
  BY <1>5, <1>6, <1>7, TickFacts DEF Forever
<1>9. ASSUME NEW w \in ToSet(dl)
      PROVE  Minus(d, t) <= Remaining(du[w], t) + m
  <2>1. PICK k \in 1 .. Len(dl) : dl[k] = w
    BY <1>1, InToSet
  <2>2. Age(d, t) <= Age(du[w], t)
    <3>1. CASE k = 1
      BY <1>2, <1>4, <1>7, <2>1, <3>1
    <3>2. CASE k # 1
      <4>1. 1 \in 1 .. Len(dl) /\ 1 < k
        BY <1>3, <3>2
      <4>2. QED BY <1>1, <1>2, <1>4, <2>1, <4>1
    <3>3. QED BY <3>1, <3>2
  <2>3. Age(du[w], t) \in Nat /\ Age(du[w], t) > MaxLate
    BY <1>1 DEF Ages
  <2>4. Remaining(du[w], t) = Age(du[w], t) - MaxLate
    BY <1>7, <2>3 DEF Remaining
  <2>5. QED BY <1>6, <1>7, <2>2, <2>3, <2>4
<1>10. QED BY <1>4, <1>8, <1>9 DEF MaySleep

-----------------------------------------------------------------------------
(* The invariant behind WorkQueueInv and the refinement                    *)

\* The thread of the queue sleeps, or is about to, only over lists that let it.
SleepOK ==
  /\ wpc = "asleep" => comp = "waiting"
  /\ wpc = "asleep" \/ (wpc = "wait" /\ comp # "completed")
       => MaySleep(workList, delayed, due, tick, delay, lag)

WorkerType ==
  /\ current \in Works \cup {NoWork, Stray} /\ running \in Works \cup {NoWork}
  /\ (current # NoWork) = (wpc = "run") /\ (running # NoWork) = (wpc = "run")
  /\ comp \in {"none", "waiting", "completed"}
  /\ wpc \in {"top", "wait", "asleep", "woken", "run", "try", "release", "gone"}
  /\ delay \in {Forever} \cup Ticks /\ lag \in 0 .. MaxLate
  /\ carg \in [Clients -> Works \cup {NoWork, Stray}]
  /\ calls \in 0 .. MaxCalls
  /\ life \in {"open", "closing", "closed"}

WaitersOK ==
  /\ waiters \in Seq(Clients)
  /\ IsInjective(waiters)
  /\ ToSet(waiters) = {c \in Clients : cpc[c] = "blocked"}

IInv == SyncIInv /\ QueueOK /\ SleepOK /\ WorkerType /\ WaitersOK

\* What TicksLeft and IsDue say of a delayed item.
LEMMA TicksLeftIs ==
  ASSUME QueueOK, NEW w \in ToSet(delayed)
  PROVE  /\ TicksLeft(w) = Remaining(due[w], tick)
         /\ Remaining(due[w], tick) \in Nat
         /\ Late(w) < MaxLate => Age(due[w], tick) > 0
<1>1. delayed \in Seq(Works) /\ due \in [Works -> Ticks] /\ tick \in Ticks
      /\ Age(due[w], tick) \in Ages
  BY DEF QueueOK, ListsOK
<1>2. w \in Works
  BY <1>1, InToSet
<1>3. PICK d \in Ticks : d = due[w]
  BY <1>1, <1>2
<1>4. Age(d, tick) \in Ages /\ Age(d, tick) \in Nat /\ MaxLate \in Nat /\ 1 <= MaxLate
  BY <1>1, <1>3, TickFacts DEF Ages
<1>5. /\ Minus(tick, d) < Half <=> Age(d, tick) <= MaxLate
      /\ Age(d, tick) <= MaxLate => Minus(tick, d) = MaxLate - Age(d, tick)
      /\ Age(d, tick) > MaxLate => Minus(d, tick) = Age(d, tick) - MaxLate
  BY <1>1, <1>4, DueIs
<1>6. IsDue(w) <=> Age(d, tick) <= MaxLate
  BY <1>3, <1>5 DEF IsDue
<1>7. TicksLeft(w) = Remaining(d, tick) /\ Remaining(d, tick) \in Nat
  BY <1>3, <1>4, <1>5, <1>6 DEF TicksLeft, Remaining
<1>8. Late(w) < MaxLate => Age(d, tick) > 0
  BY <1>3, <1>4, <1>5, <1>6 DEF Late
<1>9. QED BY <1>3, <1>7, <1>8

\* The abstract view of the lists
LEMMA LeftIs == QueueOK => Left = Lefts
BY TicksLeftIs DEF Left, Lefts, LeftOf

\* The inductive invariant gives the one that the run checks: no item on two
\* lists, the delayed list in order, no wakeup lost.
LEMMA IInvGivesInv == IInv => WorkQueueInv
<1> SUFFICES ASSUME IInv PROVE WorkQueueInv
  OBVIOUS
<1>1. /\ workList \in Seq(Works) /\ IsInjective(workList)
      /\ delayed \in Seq(Works) /\ IsInjective(delayed)
      /\ ToSet(workList) \cap ToSet(delayed) = {}
      /\ due \in [Works -> Ticks] /\ tick \in Ticks
      /\ \A u \in Works \ ToSet(delayed) : due[u] = 0
  BY DEF IInv, QueueOK, ListsOK
<1>2. IsInjective(workList \o delayed)
  BY <1>1, ConcatSeq
<1>3. TypeOK
  BY <1>1, <1>2 DEF TypeOK, IInv, WorkerType, WaitersOK, SyncIInv, SyncType
<1>4. SleepsNoLonger
  <2>1. ASSUME wpc = "asleep"
        PROVE  /\ comp = "waiting" /\ workList = <<>>
               /\ \A w \in ToSet(delayed) :
                    delay # Forever /\ delay <= Remaining(due[w], tick) + lag
    BY <2>1 DEF IInv, SleepOK, MaySleep
  <2>2. \A w \in ToSet(delayed) : TicksLeft(w) = Remaining(due[w], tick)
    BY TicksLeftIs DEF IInv
  <2>3. QED BY <2>1, <2>2 DEF SleepsNoLonger
<1>5. QED BY <1>3, <1>4 DEF WorkQueueInv, IInv, SyncIInv

\* rt_workqueue_create starts with empty lists, no execution and a thread that
\* has not looked yet.
LEMMA InitIInv == Init => IInv
<1> SUFFICES ASSUME Init PROVE IInv
  OBVIOUS
<1>1. SyncIInv
  BY InitSync
<1>2. /\ <<>> \in Seq(Works) /\ <<>> \in Seq(Clients) /\ Len(<<>>) = 0
      /\ IsInjective(<<>>) /\ ToSet(<<>>) = {}
  <2>1. <<>> \in Seq(Works) /\ <<>> \in Seq(Clients) /\ Len(<<>>) = 0
    OBVIOUS
  <2>2. ToSet(<<>>) = {}
    BY <2>1, EmptyToSet
  <2>3. IsInjective(<<>>)
    BY DEF IsInjective
  <2>4. QED BY <2>1, <2>2, <2>3
<1>3. QueueOK
  <2>1. InOrder(<<>>, due, tick)
    BY <1>2 DEF InOrder
  <2>2. 0 \in Ticks
    BY TickFacts
  <2>3. QED BY <1>2, <2>1, <2>2 DEF Init, QueueOK, ListsOK
<1>4. SleepOK
  BY DEF Init, SleepOK
<1>5. WorkerType
  <2>1. 0 \in Ticks /\ 0 \in 0 .. MaxLate /\ 0 \in 0 .. MaxCalls
    BY TickFacts, WorkQueueAssumption
  <2>2. QED BY <2>1 DEF Init, WorkerType
<1>6. WaitersOK
  BY <1>2 DEF Init, WaitersOK
<1>7. QED BY <1>1, <1>3, <1>4, <1>5, <1>6 DEF IInv

-----------------------------------------------------------------------------
(* Requests                                                                *)

\* An item that is taken off never shortens a sleep that is allowed.
LEMMA TakenOffSleep ==
  ASSUME QueueOK, NEW w, NEW n, NEW m,
         MaySleep(workList, delayed, due, tick, n, m)
  PROVE  MaySleep(Unlinked(workList, w), Unlinked(delayed, w),
                  [due EXCEPT ![w] = 0], tick, n, m)
<1>1. /\ workList \in Seq(Works) /\ IsInjective(workList)
      /\ delayed \in Seq(Works) /\ IsInjective(delayed) /\ due \in [Works -> Ticks]
  BY DEF QueueOK, ListsOK
<1>2. /\ Unlinked(workList, w) \in Seq(Works)
      /\ ToSet(Unlinked(workList, w)) = ToSet(workList) \ {w}
  BY <1>1, UnlinkedSeq
<1>3. ToSet(Unlinked(delayed, w)) = ToSet(delayed) \ {w}
  BY <1>1, UnlinkedSeq
<1>4. workList = <<>>
  BY DEF MaySleep
<1>5. ToSet(workList) = {}
  BY <1>1, <1>4, EmptyToSet
<1>6. Unlinked(workList, w) = <<>>
  BY <1>2, <1>5, EmptyToSet
<1>7. \A u \in ToSet(delayed) : u \in Works
  BY <1>1, InToSet
<1>8. \A u \in ToSet(delayed) \ {w} : [due EXCEPT ![w] = 0][u] = due[u]
  BY <1>1, <1>7
<1>9. QED BY <1>3, <1>6, <1>8 DEF MaySleep

\* A call that takes an item off the lists and does nothing else to them
LEMMA TakeOffStep ==
  ASSUME QueueOK, SleepOK, NEW w, TakeOff(w),
         UNCHANGED <<comp, workerVars, tick>>
  PROVE  QueueOK' /\ SleepOK' /\ Lefts' = Updated(Lefts, w, -1)
<1>1. /\ QueueOK'
      /\ Lefts' = Updated(Lefts, w, -1)
  <2>1. /\ ListsOK(Unlinked(workList, w), Unlinked(delayed, w), [due EXCEPT ![w] = 0],
                   tick)
        /\ LeftOf(Unlinked(workList, w), Unlinked(delayed, w), [due EXCEPT ![w] = 0],
                  tick) = Updated(LeftOf(workList, delayed, due, tick), w, -1)
    BY TakenOff DEF QueueOK
  <2>2. QED BY <2>1 DEF QueueOK, Lefts, TakeOff
<1>2. SleepOK'
  BY TakenOffSleep DEF SleepOK, TakeOff, workerVars
<1>3. QED BY <1>1, <1>2

\* f, but -1 on ws
Dropped(f, ws) == [w \in DOMAIN f |-> IF w \in ws THEN -1 ELSE f[w]]

\* _workqueue_cancel_work of the head of a list: whatever was put on it is
\* dropped, and the other list is as it was.
LEMMA HeadStep ==
  ASSUME QueueOK, SleepOK, NEW c \in Clients, CancelAllHead(c)
  PROVE  /\ QueueOK' /\ SleepOK'
         /\ \E ws \in SUBSET Works : Lefts' = Dropped(Lefts, ws)
<1>1. UNCHANGED <<comp, wpc, delay, lag, tick>>
  BY DEF CancelAllHead, workerVars
<1>2. /\ workList \in Seq(Works) /\ delayed \in Seq(Works)
      /\ due \in [Works -> Ticks] /\ tick \in Ticks
      /\ ToSet(workList) \cap ToSet(delayed) = {}
  BY DEF QueueOK, ListsOK
<1>3. /\ <<>> \in Seq(Works) /\ Len(<<>>) = 0
      /\ IsInjective(<<>>) /\ ToSet(<<>>) = {}
  <2>1. <<>> \in Seq(Works) /\ Len(<<>>) = 0
    OBVIOUS
  <2>2. ToSet(<<>>) = {}
    BY <2>1, EmptyToSet
  <2>3. IsInjective(<<>>)
    BY DEF IsInjective
  <2>4. QED BY <2>1, <2>2, <2>3
<1>4. ToSet(workList) \subseteq Works /\ ToSet(delayed) \subseteq Works
  BY <1>2, InToSet
<1>5. CASE cpc[c] = "work"
  <2>1. workList' = <<>> /\ delayed' = delayed /\ due' = due
    BY <1>5 DEF CancelAllHead
  <2>2. QueueOK'
    BY <1>1, <1>2, <1>3, <2>1 DEF QueueOK, ListsOK
  <2>3. SleepOK'
    BY <1>1, <2>1 DEF SleepOK, MaySleep
  <2>4. Lefts' = Dropped(Lefts, ToSet(workList))
    BY <1>1, <1>2, <1>3, <2>1 DEF Lefts, LeftOf, Dropped
  <2>5. QED BY <1>4, <2>2, <2>3, <2>4
<1>6. CASE cpc[c] # "work"
  <2>1. workList' = workList /\ delayed' = <<>> /\ due' = [w \in Works |-> 0]
    BY <1>6 DEF CancelAllHead
  <2>2. 0 \in Ticks /\ InOrder(<<>>, due', tick)
    BY <1>3, TickFacts DEF InOrder
  <2>3. QueueOK'
    BY <1>1, <1>3, <2>1, <2>2 DEF QueueOK, ListsOK
  <2>4. SleepOK'
    BY <1>1, <1>3, <2>1 DEF SleepOK, MaySleep
  <2>5. Lefts' = Dropped(Lefts, ToSet(delayed))
    BY <1>1, <1>2, <1>3, <2>1 DEF Lefts, LeftOf, Dropped
  <2>6. QED BY <1>4, <2>3, <2>4, <2>5
<1>7. QED BY <1>5, <1>6

\* rt_completion_done leaves the thread of the queue neither asleep nor on the
\* way to it.
LEMMA DoneWakes ==
  ASSUME SleepOK, CompletionDone
  PROVE  SleepOK'
BY DEF SleepOK, CompletionDone

\* rt_workqueue_dowork and rt_workqueue_urgent_work
LEMMA WorkNowStep ==
  ASSUME QueueOK, SleepOK, NEW w \in Works, DoWork(w) \/ UrgentWork(w)
  PROVE  QueueOK' /\ SleepOK' /\ Lefts' = Updated(Lefts, w, 0)
<1> DEFINE wl == Unlinked(workList, w)
           dl == Unlinked(delayed, w)
           du == [due EXCEPT ![w] = 0]
<1>1. /\ workList' = Append(wl, w) \/ workList' = <<w>> \o wl
      /\ delayed' = dl /\ due' = du /\ tick' = tick /\ CompletionDone
  BY DEF DoWork, UrgentWork
<1>2. /\ ListsOK(wl, dl, du, tick)
      /\ ToSet(wl) = ToSet(workList) \ {w} /\ ToSet(dl) = ToSet(delayed) \ {w}
      /\ LeftOf(wl, dl, du, tick) = Updated(Lefts, w, -1)
  BY TakenOff DEF QueueOK, Lefts
<1>3. w \notin ToSet(wl) /\ w \notin ToSet(dl)
  BY <1>2
<1> HIDE DEF wl, dl, du
<1>4. /\ ListsOK(workList', dl, du, tick)
      /\ LeftOf(workList', dl, du, tick) = Updated(LeftOf(wl, dl, du, tick), w, 0)
  <2>1. PICK wl2 : wl2 = workList'
    OBVIOUS
  <2>2. wl2 = Append(wl, w) \/ wl2 = <<w>> \o wl
    BY <1>1, <2>1
  <2>3. /\ ListsOK(wl2, dl, du, tick)
        /\ LeftOf(wl2, dl, du, tick) = Updated(LeftOf(wl, dl, du, tick), w, 0)
    BY ONLY <1>2, <1>3, <2>2, w \in Works, PutToWork
  <2>4. QED BY <2>1, <2>3
<1>5. QueueOK'
  BY <1>1, <1>4 DEF QueueOK
<1>6. Updated(Updated(Lefts, w, -1), w, 0) = Updated(Lefts, w, 0)
  BY DEF Lefts, LeftOf, Updated
<1>7. Lefts' = Updated(Lefts, w, 0)
  BY <1>1, <1>2, <1>4, <1>6 DEF Lefts
<1>8. QED BY <1>1, <1>5, <1>7, DoneWakes

\* rt_workqueue_submit_work with a delay
LEMMA WorkLaterStep ==
  ASSUME QueueOK, SleepOK, NEW w \in Works, NEW n \in Delays, SubmitDelayed(w, n)
  PROVE  QueueOK' /\ SleepOK' /\ Lefts' = Updated(Lefts, w, n)
<1> DEFINE wl == Unlinked(workList, w)
           dl == Unlinked(delayed, w)
           du == [due EXCEPT ![w] = 0]
           d == (tick + n) % TickCount
           dl2 == InsertedByDue(dl, w, d)
           du2 == [due EXCEPT ![w] = d]
<1>1. /\ workList' = wl /\ delayed' = dl2 /\ due' = du2 /\ tick' = tick
      /\ CompletionDone
  BY DEF SubmitDelayed, TickCount
<1>2. /\ ListsOK(wl, dl, du, tick)
      /\ ToSet(wl) = ToSet(workList) \ {w} /\ ToSet(dl) = ToSet(delayed) \ {w}
      /\ LeftOf(wl, dl, du, tick) = Updated(Lefts, w, -1)
  BY TakenOff DEF QueueOK, Lefts
<1>3. w \notin ToSet(wl) /\ w \notin ToSet(dl) /\ due \in [Works -> Ticks]
  BY <1>2 DEF QueueOK, ListsOK
<1> HIDE DEF wl, dl, d
<1>4. /\ ListsOK(wl, dl2, du2, tick)
      /\ LeftOf(wl, dl2, du2, tick) = Updated(LeftOf(wl, dl, du, tick), w, n)
  <2>1. PICK e, f, wl3, dl3 : e = d /\ f = du /\ wl3 = wl /\ dl3 = dl
    OBVIOUS
  <2>2. f = Updated(due, w, 0) /\ e = (tick + n) % TickCount
    BY <2>1 DEF d, du, Updated
  <2>3. ListsOK(wl3, dl3, f, tick) /\ w \notin ToSet(wl3) /\ w \notin ToSet(dl3)
    BY <1>2, <1>3, <2>1
  <2> HIDE DEF du, dl2, du2
  <2>4. /\ ListsOK(wl3, InsertedByDue(dl3, w, e), Updated(due, w, e), tick)
        /\ LeftOf(wl3, InsertedByDue(dl3, w, e), Updated(due, w, e), tick)
             = Updated(LeftOf(wl3, dl3, f, tick), w, n)
    BY <1>3, <2>2, <2>3, PutOff
  <2>5. QED BY <2>1, <2>4 DEF dl2, du2, Updated
<1> HIDE DEF du, dl2, du2
<1>5. QueueOK'
  BY <1>1, <1>4 DEF QueueOK
<1>6. Updated(Updated(Lefts, w, -1), w, n) = Updated(Lefts, w, n)
  BY DEF Lefts, LeftOf, Updated
<1>7. Lefts' = Updated(Lefts, w, n)
  BY <1>1, <1>2, <1>4, <1>6 DEF Lefts
<1>8. QED BY <1>1, <1>5, <1>7, DoneWakes

-----------------------------------------------------------------------------
(* The steps that leave the lists alone, the thread of the queue and the   *)
(* clock                                                                   *)

\* The lists, their times and the clock stay, and the thread of the queue
\* neither goes to sleep nor is about to unless it was.
LEMMA IdleListsStep ==
  ASSUME QueueOK, SleepOK, UNCHANGED <<lists, tick>>,
         \/ UNCHANGED <<comp, workerVars>>
         \/ wpc' \notin {"wait", "asleep"}
  PROVE  QueueOK' /\ SleepOK' /\ Lefts' = Lefts
<1>1. UNCHANGED <<workList, delayed, due, tick>>
  BY DEF lists
<1>2. QueueOK' /\ Lefts' = Lefts
  BY <1>1 DEF QueueOK, Lefts
<1>3. SleepOK'
  BY <1>1 DEF SleepOK, workerVars
<1>4. QED BY <1>2, <1>3

\* rt_completion_wait goes to sleep only if nothing was signalled since the
\* thread looked at the lists.
LEMMA WaitStep ==
  ASSUME QueueOK, SleepOK, Wait
  PROVE  QueueOK' /\ SleepOK' /\ Lefts' = Lefts
<1>1. UNCHANGED <<workList, delayed, due, tick>>
  BY DEF Wait, lists
<1>2. QueueOK' /\ Lefts' = Lefts
  BY <1>1 DEF QueueOK, Lefts
<1>3. SleepOK'
  BY <1>1 DEF SleepOK, Wait
<1>4. QED BY <1>2, <1>3

\* _workqueue_thread_entry: the first item whose time has come starts, or the
\* thread is going to wait until the first of the others is due.
LEMMA LookStep ==
  ASSUME QueueOK, lag \in 0 .. MaxLate, delay \in {Forever} \cup Ticks, Look
  PROVE  /\ QueueOK' /\ SleepOK' /\ delay' \in {Forever} \cup Ticks
         /\ \/ /\ UNCHANGED <<current, running>>
               /\ wpc' = "wait" /\ Lefts' = Lefts
            \/ /\ running' \in Works /\ current' = running'
               /\ wpc' = "run" /\ Lefts[running'] = 0
               /\ Lefts' = Updated(Lefts, running', -1)
<1> DEFINE work == WorkThen
           rest == RestThen
           du2 == DueThen
<1>1. /\ delayed' = rest /\ due' = du2 /\ tick' = tick /\ lag' = lag
      /\ IF work = <<>>
           THEN /\ wpc' = "wait"
                /\ delay' = IF rest = <<>> THEN Forever
                                           ELSE Minus(due[Head(rest)], tick)
                /\ workList' = workList
                /\ current' = current /\ running' = running
           ELSE /\ wpc' = "run"
                /\ workList' = Tail(work)
                /\ current' = Head(work) /\ running' = Head(work)
                /\ delay' = delay
  BY DEF Look, execVars, WorkThen, RestThen, DueThen
<1>2. /\ ListsOK(work, rest, du2, tick)
      /\ LeftOf(work, rest, du2, tick) = Lefts
      /\ work = <<>> => workList = <<>>
      /\ \A w \in ToSet(rest) : Age(due[w], tick) > MaxLate /\ du2[w] = due[w]
  BY DueItemsMove
<1> HIDE DEF work, rest, du2
<1>3. CASE work = <<>>
  <2>1. workList' = work
    BY <1>1, <1>2, <1>3
  <2>2. QueueOK' /\ Lefts' = Lefts
    BY <1>1, <1>2, <2>1 DEF QueueOK, Lefts
  <2>3. rest \in Seq(Works) /\ IsInjective(rest)
    BY <1>2 DEF ListsOK
  <2>4. /\ delay' \in {Forever} \cup Ticks
        /\ MaySleep(<<>>, rest, du2, tick, delay', lag)
    <3>1. CASE rest = <<>>
      <4>1. ToSet(rest) = {}
        BY <2>3, <3>1, EmptyToSet
      <4>2. QED BY <1>1, <1>3, <3>1, <4>1 DEF MaySleep
    <3>2. CASE rest # <<>>
      <4>1. Head(rest) \in ToSet(rest)
        BY <2>3, <3>2, HeadTailSeq
      <4>2. delay' = Minus(du2[Head(rest)], tick)
        BY <1>1, <1>2, <1>3, <3>2, <4>1
      <4>3. \A w \in ToSet(rest) : Age(du2[w], tick) > MaxLate
        BY <1>2
      <4>4. ListsOK(<<>>, rest, du2, tick) /\ lag \in Nat
        BY <1>2, <1>3, TickFacts
      <4>5. /\ Minus(du2[Head(rest)], tick) \in Ticks
            /\ MaySleep(<<>>, rest, du2, tick, Minus(du2[Head(rest)], tick), lag)
        BY <3>2, <4>3, <4>4, DelayOfFirst
      <4>6. QED BY <4>2, <4>5
    <3>3. QED BY <3>1, <3>2
  <2>5. SleepOK'
    BY <1>1, <1>3, <2>1, <2>4 DEF SleepOK
  <2>6. QED BY <1>1, <1>3, <2>2, <2>4, <2>5
<1>4. CASE work # <<>>
  <2>1. PICK h, r : h = Head(work) /\ r = Tail(work)
    OBVIOUS
  <2>2. /\ h \in Works /\ ListsOK(r, rest, du2, tick)
        /\ LeftOf(work, rest, du2, tick)[h] = 0
        /\ LeftOf(r, rest, du2, tick) = Updated(LeftOf(work, rest, du2, tick), h, -1)
    BY ONLY <1>2, <1>4, <2>1, FirstStarts
  <2>3. /\ workList' = r /\ current' = h /\ running' = h
        /\ wpc' = "run" /\ delay' = delay
    BY <1>1, <1>4, <2>1
  <2>4. QueueOK' /\ Lefts[h] = 0 /\ Lefts' = Updated(Lefts, h, -1)
    BY <1>1, <1>2, <2>2, <2>3 DEF QueueOK, Lefts
  <2>5. SleepOK'
    BY <2>3 DEF SleepOK
  <2>6. QED BY <2>2, <2>3, <2>4, <2>5
<1>5. QED BY <1>3, <1>4

\* The tick interrupt: what the thread of the queue may sleep and what the
\* items have left shrink together.
LEMMA ClockTick ==
  ASSUME QueueOK, SleepOK, WorkerType, Tick
  PROVE  /\ QueueOK' /\ SleepOK' /\ WorkerType'
         /\ Lefts' = [w \in Works |-> IF Lefts[w] \in Nat \ {0} THEN Lefts[w] - 1
                                                               ELSE Lefts[w]]
<1>1. /\ UNCHANGED <<workList, delayed, due, comp, current, running>>
      /\ UNCHANGED <<carg, calls, life>>
      /\ tick' = (tick + 1) % TickCount
      /\ \A w \in ToSet(delayed) : Late(w) < MaxLate
  BY DEF Tick, lists, execVars, clientVars, TickCount
<1>2. \A w \in ToSet(delayed) : Age(due[w], tick) > 0
  BY <1>1, TicksLeftIs
<1>3. /\ ListsOK(workList, delayed, due, tick')
      /\ \A w \in ToSet(delayed) :
           /\ Remaining(due[w], tick) \in Nat
           /\ Remaining(due[w], tick') = IF Remaining(due[w], tick) = 0 THEN 0
                                         ELSE Remaining(due[w], tick) - 1
  <2>1. PICK u : u = tick'
    OBVIOUS
  <2>2. u = (tick + 1) % TickCount /\ ListsOK(workList, delayed, due, tick)
    BY <1>1, <2>1 DEF QueueOK
  <2>3. /\ ListsOK(workList, delayed, due, u)
        /\ \A w \in ToSet(delayed) :
             /\ Remaining(due[w], tick) \in Nat
             /\ Remaining(due[w], u) = IF Remaining(due[w], tick) = 0 THEN 0
                                       ELSE Remaining(due[w], tick) - 1
    BY ONLY <1>2, <2>2, ClockStep
  <2>4. QED BY <2>1, <2>3
<1>4. QueueOK'
  BY <1>1, <1>3 DEF QueueOK
<1>5. Lefts' = [w \in Works |-> IF Lefts[w] \in Nat \ {0} THEN Lefts[w] - 1
                                                         ELSE Lefts[w]]
  <2>1. Lefts' = [w \in Works |-> IF w \in ToSet(workList) THEN 0
                                 ELSE IF w \in ToSet(delayed)
                                      THEN Remaining(due[w], tick') ELSE -1]
    BY <1>1 DEF Lefts, LeftOf
  <2>2. \A w \in Works : Lefts[w] = IF w \in ToSet(workList) THEN 0
                                   ELSE IF w \in ToSet(delayed)
                                        THEN Remaining(due[w], tick) ELSE -1
    BY DEF Lefts, LeftOf
  <2>3. ASSUME NEW w \in Works
        PROVE  (IF w \in ToSet(workList) THEN 0
                ELSE IF w \in ToSet(delayed) THEN Remaining(due[w], tick') ELSE -1)
                 = IF Lefts[w] \in Nat \ {0} THEN Lefts[w] - 1 ELSE Lefts[w]
    <3>1. CASE w \in ToSet(workList)
      BY <2>2, <3>1
    <3>2. CASE w \notin ToSet(workList) /\ w \in ToSet(delayed)
      BY <1>3, <2>2, <3>2
    <3>3. CASE w \notin ToSet(workList) /\ w \notin ToSet(delayed)
      BY <2>2, <3>3
    <3>4. QED BY <3>1, <3>2, <3>3
  <2>4. QED BY <2>1, <2>3
<1>6. WorkerType'
  <2>1. /\ lag \in 0 .. MaxLate /\ MaxLate \in Nat
        /\ lag' = IF wpc = "wait" THEN lag + 1 ELSE lag
        /\ wpc = "wait" => lag < MaxLate
    BY TickFacts DEF Tick, WorkerType
  <2>2. lag' \in 0 .. MaxLate
    BY <2>1
  <2>3. /\ delay \in {Forever} \cup Ticks
        /\ \/ delay' = delay /\ wpc' = wpc
           \/ /\ wpc = "asleep" /\ delay > 0 /\ delay' = delay - 1
              /\ wpc' \in {"asleep", "woken"}
    BY DEF Tick, WorkerType
  <2>4. delay' \in {Forever} \cup Ticks
    BY <2>3, TickFacts DEF Forever
  <2>5. QED BY <1>1, <2>2, <2>3, <2>4 DEF WorkerType
<1>7. SleepOK'
  <2>1. ASSUME wpc' = "asleep" \/ (wpc' = "wait" /\ comp' # "completed")
        PROVE  MaySleep(workList', delayed', due', tick', delay', lag')
    <3>1. wpc' = wpc /\ MaySleep(workList, delayed, due, tick, delay, lag)
      BY <1>1, <2>1 DEF Tick, SleepOK
    <3>2. delay \in {Forever} \cup Ticks /\ lag \in 0 .. MaxLate /\ MaxLate \in Nat
      BY TickFacts DEF WorkerType
    <3>3. CASE wpc = "asleep"
      <4>1. lag' = lag /\ delay' = IF delay > 0 THEN delay - 1 ELSE delay
        BY <3>3 DEF Tick
      <4>2. ASSUME NEW w \in ToSet(delayed)
            PROVE  delay' # Forever /\ delay' <= Remaining(due[w], tick') + lag'
        <5>1. delay # Forever /\ delay <= Remaining(due[w], tick) + lag
          BY <3>1 DEF MaySleep
        <5>2. delay \in Nat
          BY <3>2, <5>1, TickFacts
        <5>3. QED BY <1>3, <3>2, <4>1, <5>1, <5>2 DEF Forever
      <4>3. QED BY <1>1, <3>1, <4>2 DEF MaySleep
    <3>4. CASE wpc = "wait"
      <4>1. lag' = lag + 1 /\ delay' = delay
        BY <3>4 DEF Tick
      <4>2. ASSUME NEW w \in ToSet(delayed)
            PROVE  delay' # Forever /\ delay' <= Remaining(due[w], tick') + lag'
        <5>1. delay # Forever /\ delay <= Remaining(due[w], tick) + lag
          BY <3>1 DEF MaySleep
        <5>2. delay \in Nat
          BY <3>2, <5>1, TickFacts
        <5>3. QED BY <1>3, <3>2, <4>1, <5>1, <5>2
      <4>3. QED BY <1>1, <3>1, <4>2 DEF MaySleep
    <3>5. QED BY <2>1, <3>1, <3>3, <3>4
  <2>2. wpc' = "asleep" => wpc = "asleep" /\ comp' = comp
    BY <1>1 DEF Tick
  <2>3. QED BY <2>1, <2>2 DEF SleepOK
<1>8. QED BY <1>4, <1>5, <1>6, <1>7

-----------------------------------------------------------------------------
(* Every step                                                              *)

\* Requests for work and cancellations, by what they make of the lists.
LEMMA RequestLists ==
  ASSUME QueueOK, SleepOK, NEW w \in Works,
         \/ DoWork(w) \/ UrgentWork(w) \/ CancelWork(w)
         \/ \E n \in Delays : SubmitDelayed(w, n)
  PROVE  /\ QueueOK' /\ SleepOK' /\ running' = running
         /\ \E n \in Delays \cup {0, -1} : Lefts' = Updated(Lefts, w, n)
<1>1. CASE DoWork(w) \/ UrgentWork(w)
  <2>1. QueueOK' /\ SleepOK' /\ Lefts' = Updated(Lefts, w, 0)
    BY <1>1, WorkNowStep
  <2>2. running' = running
    BY <1>1 DEF DoWork, UrgentWork, execVars
  <2>3. QED BY <2>1, <2>2
<1>2. CASE CancelWork(w)
  <2>1. TakeOff(w) /\ UNCHANGED <<comp, workerVars, tick>> /\ running' = running
    BY <1>2 DEF CancelWork, execVars
  <2>2. QueueOK' /\ SleepOK' /\ Lefts' = Updated(Lefts, w, -1)
    BY <2>1, TakeOffStep
  <2>3. QED BY <2>1, <2>2
<1>3. ASSUME NEW n \in Delays, SubmitDelayed(w, n)
      PROVE  QueueOK' /\ SleepOK' /\ running' = running /\ Lefts' = Updated(Lefts, w, n)
  <2>1. QueueOK' /\ SleepOK' /\ Lefts' = Updated(Lefts, w, n)
    BY <1>3, WorkLaterStep
  <2>2. running' = running
    BY <1>3 DEF SubmitDelayed, execVars
  <2>3. QED BY <2>1, <2>2
<1>4. QED BY <1>1, <1>2, <1>3

\* The steps of the clients, likewise.
LEMMA ClientLists ==
  ASSUME QueueOK, SleepOK, NEW c \in Clients,
         \/ \E w \in Works : SyncLook(c, w)
         \/ \E destroy \in BOOLEAN : CancelAll(c, destroy)
         \/ ClientStep(c)
  PROVE  /\ QueueOK' /\ SleepOK'
         /\ \/ running' = running /\ Lefts' = Lefts
            \/ /\ SyncCancel(c) \/ CancelAllRemove(c)
               /\ running' = running /\ Lefts' = Updated(Lefts, carg[c], -1)
            \/ /\ CancelAllHead(c)
               /\ running' = running
               /\ \E ws \in SUBSET Works : Lefts' = Dropped(Lefts, ws)
            \/ DeleteThread(c) /\ running' = NoWork /\ Lefts' = Lefts
<1>1. CASE SyncCancel(c) \/ CancelAllRemove(c)
  <2>1. TakeOff(carg[c]) /\ UNCHANGED <<comp, workerVars, tick>> /\ running' = running
    BY <1>1 DEF SyncCancel, CancelAllRemove, execVars
  <2>2. QueueOK' /\ SleepOK' /\ Lefts' = Updated(Lefts, carg[c], -1)
    BY <2>1, TakeOffStep
  <2>3. QED BY <1>1, <2>1, <2>2
<1>2. CASE \/ \E w \in Works : SyncLook(c, w)
           \/ \E destroy \in BOOLEAN : CancelAll(c, destroy)
           \/ SyncTake(c) \/ CancelAllTest(c) \/ CancelAllFirst(c) \/ DetachSem(c)
  <2>1. UNCHANGED <<lists, tick, comp, workerVars, running>>
    BY <1>2
      DEF SyncLook, CancelAll, SyncTake, CancelAllTest, CancelAllFirst, DetachSem,
          execVars
  <2>2. QED BY <2>1, IdleListsStep
<1>3. CASE DeleteThread(c)
  <2>1. UNCHANGED <<lists, tick>> /\ wpc' = "gone" /\ running' = NoWork
    BY <1>3 DEF DeleteThread
  <2>2. QED BY <1>3, <2>1, IdleListsStep
<1>4. CASE CancelAllHead(c)
  <2>1. running' = running
    BY <1>4 DEF CancelAllHead
  <2>2. QED BY <1>4, <2>1, HeadStep
<1>5. QED BY <1>1, <1>2, <1>3, <1>4 DEF ClientStep

\* The steps of the thread of the queue, likewise: it starts an item only when
\* nothing is left of its delay, and when no other is being executed.
LEMMA WorkerLists ==
  ASSUME QueueOK, SleepOK, WorkerType, Worker
  PROVE  /\ QueueOK' /\ SleepOK'
         /\ \/ running' = running /\ Lefts' = Lefts
            \/ /\ running = NoWork /\ running' \in Works /\ Lefts[running'] = 0
               /\ Lefts' = Updated(Lefts, running', -1)
            \/ running # NoWork /\ running' = NoWork /\ Lefts' = Lefts
<1>1. CASE Look
  <2>1. running = NoWork
    BY <1>1 DEF Look, WorkerType
  <2>2. lag \in 0 .. MaxLate /\ delay \in {Forever} \cup Ticks
    BY DEF WorkerType
  <2>3. QED BY <1>1, <2>1, <2>2, LookStep
<1>2. CASE Wait
  <2>1. running' = running
    BY <1>2 DEF Wait, execVars
  <2>2. QED BY <1>2, <2>1, WaitStep
<1>3. CASE Woken \/ AckTake \/ AckRelease
  <2>1. UNCHANGED <<lists, tick, running>> /\ wpc' \in {"top", "release", "try"}
    BY <1>3 DEF Woken, AckTake, AckRelease, execVars
  <2>2. QED BY <2>1, IdleListsStep
<1>4. CASE RunEnd
  <2>1. UNCHANGED <<lists, tick>> /\ wpc' = "try" /\ running' = NoWork /\ running # NoWork
    BY <1>4 DEF RunEnd, WorkerType
  <2>2. QED BY <2>1, IdleListsStep
<1>5. QED BY <1>1, <1>2, <1>3, <1>4 DEF Worker

\* rt_completion_done in a request
LEMMA DoneType ==
  ASSUME WorkerType, CompletionDone, Call,
         UNCHANGED <<execVars, delay, lag, carg, life>>
  PROVE  WorkerType'
<1>1. calls' \in 0 .. MaxCalls
  BY WorkQueueAssumption DEF WorkerType, Call
<1>2. comp' = "completed" /\ wpc' \in {wpc, "woken"} /\ (wpc' # wpc => wpc = "asleep")
  BY DEF CompletionDone
<1>3. QED BY <1>1, <1>2 DEF WorkerType, execVars

\* Submissions and cancellations keep the registers of the queue's thread and
\* of the callers within their types.
LEMMA RequestType ==
  ASSUME WorkerType, Request
  PROVE  WorkerType'
<1>1. calls < MaxCalls => calls + 1 \in 0 .. MaxCalls
  BY WorkQueueAssumption DEF WorkerType
<1>2. ASSUME NEW w \in Works, DoWork(w) \/ UrgentWork(w) PROVE WorkerType'
  BY <1>2, DoneType DEF DoWork, UrgentWork, clientVars
<1>3. ASSUME NEW w \in Works, NEW n \in Delays, SubmitDelayed(w, n) PROVE WorkerType'
  BY <1>3, DoneType DEF SubmitDelayed, clientVars
<1>4. ASSUME NEW w \in Works, CancelWork(w) PROVE WorkerType'
  BY <1>1, <1>4
    DEF CancelWork, Call, WorkerType, execVars, workerVars, clientVars
<1>5. ASSUME NEW w \in Works, NEW c \in Clients, SyncLook(c, w) PROVE WorkerType'
  BY <1>1, <1>5 DEF SyncLook, Call, WorkerType, execVars, workerVars
<1>6. ASSUME NEW c \in Clients, NEW destroy \in BOOLEAN, CancelAll(c, destroy)
      PROVE  WorkerType'
  BY <1>1, <1>6 DEF CancelAll, Call, WorkerType, execVars, workerVars
<1>7. QED BY <1>2, <1>3, <1>4, <1>5, <1>6 DEF Request

\* The loop of _workqueue_thread_entry keeps its registers within their types:
\* the delay it computes is a tick count or for ever.
LEMMA WorkerStepType ==
  ASSUME WorkerType, QueueOK, Worker
  PROVE  WorkerType'
<1>1. 0 \in Ticks /\ 0 \in 0 .. MaxLate
  BY TickFacts
<1>2. CASE Look
  <2>1. lag \in 0 .. MaxLate /\ delay \in {Forever} \cup Ticks
    BY DEF WorkerType
  <2>2. /\ delay' \in {Forever} \cup Ticks
        /\ \/ UNCHANGED <<current, running>> /\ wpc' = "wait"
           \/ running' \in Works /\ current' = running' /\ wpc' = "run"
    BY <1>2, <2>1, LookStep
  <2>3. current = NoWork /\ running = NoWork
    BY <1>2 DEF Look, WorkerType
  <2>4. UNCHANGED <<comp, lag, carg, calls, life>>
    BY <1>2 DEF Look, clientVars
  <2>5. QED BY <2>2, <2>3, <2>4, WorkQueueAssumption DEF WorkerType
<1>3. CASE Wait
  BY <1>1, <1>3 DEF Wait, WorkerType, execVars, clientVars
<1>4. CASE Woken
  BY <1>1, <1>4 DEF Woken, WorkerType, execVars, clientVars
<1>5. CASE RunEnd
  BY <1>5 DEF RunEnd, WorkerType
<1>6. CASE AckTake
  BY <1>6 DEF AckTake, WorkerType, execVars, clientVars
<1>7. CASE AckRelease
  BY <1>7, WorkQueueAssumption DEF AckRelease, Return, WorkerType, execVars
<1>8. QED BY <1>2, <1>3, <1>4, <1>5, <1>6, <1>7 DEF Worker

\* The waiting, cancelling and destroying callers keep the registers within
\* their types.
LEMMA ClientStepType ==
  ASSUME WorkerType, NEW c \in Clients, ClientStep(c), QueueOK
  PROVE  WorkerType'
<1>1. 0 \in Ticks /\ 0 \in 0 .. MaxLate
  BY TickFacts
<1>2. CASE SyncTake(c)
  BY <1>2 DEF SyncTake, Return, WorkerType, execVars, workerVars
<1>3. CASE SyncCancel(c)
  BY <1>3 DEF SyncCancel, Return, WorkerType, execVars, workerVars
<1>4. CASE CancelAllTest(c) \/ CancelAllFirst(c)
  <2>1. workList \in Seq(Works) /\ delayed \in Seq(Works)
    BY DEF QueueOK, ListsOK
  <2>2. /\ workList # <<>> => Head(workList) \in Works
        /\ delayed # <<>> => Head(delayed) \in Works
    BY <2>1
  <2>3. carg' = carg \/ \E w \in Works \cup {Stray} : carg' = [carg EXCEPT ![c] = w]
    BY <1>4, <2>2 DEF CancelAllTest, CancelAllFirst
  <2>4. carg' \in [Clients -> Works \cup {NoWork, Stray}]
    BY <2>3 DEF WorkerType
  <2>5. UNCHANGED <<current, running, comp, wpc, delay, lag, calls, life>>
    BY <1>4 DEF CancelAllTest, CancelAllFirst, execVars, workerVars
  <2>6. QED BY <2>4, <2>5 DEF WorkerType
<1>5. CASE CancelAllRemove(c)
  BY <1>5 DEF CancelAllRemove, WorkerType, execVars, workerVars
<1>6. CASE DeleteThread(c)
  BY <1>1, <1>6 DEF DeleteThread, WorkerType
<1>7. CASE DetachSem(c)
  BY <1>7 DEF DetachSem, WorkerType, execVars, workerVars
<1>8. CASE CancelAllHead(c)
  <2>1. current' = current \/ (current \in Works /\ current' = LowCleared[current])
    BY <1>8 DEF CancelAllHead
  <2>2. /\ current' \in Works \cup {NoWork, Stray}
        /\ (current' # NoWork) = (current # NoWork)
    BY <2>1, WorkQueueAssumption DEF WorkerType
  <2>3. carg' = [carg EXCEPT ![c] = NoWork]
    BY <1>8 DEF CancelAllHead
  <2>4. UNCHANGED <<running, comp, wpc, delay, lag, calls, life>>
    BY <1>8 DEF CancelAllHead, workerVars
  <2>5. QED BY <2>2, <2>3, <2>4 DEF WorkerType
<1>9. QED BY <1>2, <1>3, <1>4, <1>5, <1>6, <1>7, <1>8 DEF ClientStep

\* The clients suspended on queue->sem are those in rt_sem_take.
LEMMA WaitersStep ==
  ASSUME SyncType, WaitersOK, [Next]_vars
  PROVE  WaitersOK'
<1> DEFINE Blocked == {c \in Clients : cpc[c] = "blocked"}
<1>1. cpc \in [Clients -> {"idle", "take", "blocked", "cancel", "work", "workFirst",
                           "delayed", "delayedFirst", "delete", "detach"}]
  BY DEF SyncType
<1>2. waiters \in Seq(Clients) /\ IsInjective(waiters) /\ ToSet(waiters) = Blocked
  BY DEF WaitersOK
<1>3. CASE waiters' = waiters /\ \E c \in Clients, l \in {"idle", "take", "cancel",
                       "work", "workFirst", "delayed", "delayedFirst", "delete",
                       "detach"} :
                cpc[c] # "blocked" /\ cpc' = [cpc EXCEPT ![c] = l]
  <2>1. Blocked' = Blocked
    BY <1>1, <1>3
  <2>2. QED BY <1>2, <1>3, <2>1 DEF WaitersOK
<1>4. CASE waiters' = waiters /\ cpc' = cpc
  BY <1>2, <1>4 DEF WaitersOK
<1>5. ASSUME NEW c \in Clients, SyncTake(c) PROVE WaitersOK'
  <2>1. CASE value > 0
    BY <1>3, <1>5, <2>1 DEF SyncTake, Return
  <2>2. CASE ~ (value > 0)
    <3>1. waiters' = Append(waiters, c) /\ cpc' = [cpc EXCEPT ![c] = "blocked"]
      BY <1>5, <2>2 DEF SyncTake
    <3>2. c \notin ToSet(waiters)
      BY <1>2, <1>5 DEF SyncTake
    <3>3. /\ Append(waiters, c) \in Seq(Clients) /\ IsInjective(Append(waiters, c))
          /\ ToSet(Append(waiters, c)) = ToSet(waiters) \cup {c}
      BY <1>2, <3>2, AppendSeq
    <3>4. Blocked' = Blocked \cup {c}
      BY <1>1, <3>1
    <3>5. QED BY <1>2, <3>1, <3>3, <3>4 DEF WaitersOK
  <2>3. QED BY <2>1, <2>2
<1>6. ASSUME AckRelease PROVE WaitersOK'
  <2>1. CASE waiters = <<>>
    BY <1>4, <1>6, <2>1 DEF AckRelease
  <2>2. CASE waiters # <<>>
    <3>1. PICK h : h = Head(waiters)
      OBVIOUS
    <3>2. waiters' = Tail(waiters) /\ cpc' = [cpc EXCEPT ![h] = "idle"]
      BY <1>6, <2>2, <3>1 DEF AckRelease, Return
    <3>3. /\ h \in Clients /\ Tail(waiters) \in Seq(Clients)
          /\ IsInjective(Tail(waiters)) /\ ToSet(Tail(waiters)) = ToSet(waiters) \ {h}
      BY <1>2, <2>2, <3>1, HeadTailSeq
    <3>4. Blocked' = Blocked \ {h}
      BY <1>1, <3>2
    <3>5. QED BY <1>2, <3>2, <3>3, <3>4 DEF WaitersOK
  <2>3. QED BY <2>1, <2>2
<1>7. ASSUME NEW c \in Clients, DetachSem(c) PROVE WaitersOK'
  <2>1. waiters' = <<>> /\ \A b \in Clients : cpc'[b] # "blocked"
    BY <1>1, <1>7 DEF DetachSem
  <2>2. Blocked' = {}
    BY <2>1
  <2>3. <<>> \in Seq(Clients)
    OBVIOUS
  <2>4. ToSet(<<>>) = {}
    BY <2>3, EmptyToSet
  <2>5. IsInjective(<<>>)
    BY DEF IsInjective
  <2>6. QED BY <2>1, <2>2, <2>3, <2>4, <2>5 DEF WaitersOK
<1>8. CASE Worker /\ ~AckRelease
  BY <1>4, <1>8 DEF Worker, Look, Wait, Woken, RunEnd, AckTake, semVars, clientVars
<1>9. CASE Tick \/ UNCHANGED vars
  BY <1>4, <1>9 DEF Tick, vars, semVars, clientVars
<1>10. CASE Request
  <2>1. ASSUME NEW w \in Works,
               \/ DoWork(w) \/ UrgentWork(w) \/ CancelWork(w)
               \/ \E n \in Delays : SubmitDelayed(w, n)
        PROVE  WaitersOK'
    BY <1>4, <2>1 DEF DoWork, UrgentWork, CancelWork, SubmitDelayed, semVars, clientVars
  <2>2. ASSUME NEW w \in Works, NEW c \in Clients, SyncLook(c, w) PROVE WaitersOK'
    BY <1>3, <2>2 DEF SyncLook, semVars
  <2>3. ASSUME NEW c \in Clients, NEW destroy \in BOOLEAN, CancelAll(c, destroy)
        PROVE  WaitersOK'
    BY <1>3, <2>3 DEF CancelAll, semVars
  <2>4. QED BY <1>10, <2>1, <2>2, <2>3 DEF Request
<1>11. ASSUME NEW c \in Clients,
              \/ SyncCancel(c) \/ CancelAllRemove(c) \/ CancelAllHead(c)
              \/ DeleteThread(c)
       PROVE  WaitersOK'
  BY <1>3, <1>4, <1>11
    DEF SyncCancel, CancelAllRemove, CancelAllHead, DeleteThread, Return, semVars
<1>12. ASSUME NEW c \in Clients, CancelAllTest(c) \/ CancelAllFirst(c)
       PROVE  WaitersOK'
  <2>1. cpc[c] # "blocked" /\ waiters' = waiters
    BY <1>12 DEF CancelAllTest, CancelAllFirst, semVars
  <2>2. \E l \in {"idle", "work", "workFirst", "delayed", "delayedFirst", "delete"} :
          cpc' = [cpc EXCEPT ![c] = l]
    BY <1>12 DEF CancelAllTest, CancelAllFirst
  <2>3. QED BY <1>3, <2>1, <2>2
<1>13. QED BY <1>5, <1>6, <1>7, <1>8, <1>9, <1>10, <1>11, <1>12 DEF Next, ClientStep

\* Every step keeps the whole invariant of the work queue, lists, due times,
\* sleep and waiters.
LEMMA NextIInv == IInv /\ [Next]_vars => IInv'
<1> SUFFICES ASSUME IInv, [Next]_vars PROVE IInv'
  OBVIOUS
<1>1. SyncIInv /\ SyncType /\ QueueOK /\ SleepOK /\ WorkerType /\ WaitersOK
  BY DEF IInv, SyncIInv
<1>2. SyncIInv' /\ WaitersOK'
  BY <1>1, NextSync, WaitersStep
<1>3. CASE UNCHANGED vars
  <2>1. UNCHANGED <<lists, tick, comp, workerVars>>
    BY <1>3 DEF vars
  <2>2. QueueOK' /\ SleepOK'
    BY <1>1, <2>1, IdleListsStep
  <2>3. WorkerType'
    BY <1>1, <1>3 DEF WorkerType, vars, execVars, workerVars, clientVars
  <2>4. QED BY <1>2, <2>2, <2>3 DEF IInv
<1>4. CASE Worker
  BY <1>1, <1>2, <1>4, WorkerLists, WorkerStepType DEF IInv
<1>5. CASE Tick
  BY <1>1, <1>2, <1>5, ClockTick DEF IInv
<1>6. CASE Request
  <2>1. QueueOK' /\ SleepOK'
    BY <1>1, <1>6, RequestLists, ClientLists DEF Request
  <2>2. WorkerType'
    BY <1>1, <1>6, RequestType
  <2>3. QED BY <1>2, <2>1, <2>2 DEF IInv
<1>7. ASSUME NEW c \in Clients, ClientStep(c) PROVE IInv'
  BY <1>1, <1>2, <1>7, ClientLists, ClientStepType DEF IInv
<1>8. QED BY <1>3, <1>4, <1>5, <1>6, <1>7 DEF Next

\* The lists of a work queue, the sleep of its thread and its semaphore are
\* always in order: an item is on one list once, the delayed items are in the
\* order of their times across the wrap of the tick counter, and the thread
\* never sleeps over work, nor past the time of an item, also when
\* rt_workqueue_cancel_all_work takes the head of a list for an item and writes
\* to the queue (workqueue.c).
THEOREM WorkQueueState == Spec => []WorkQueueInv
<1>1. QED BY InitIInv, NextIInv, IInvGivesInv, PTL DEF Spec

-----------------------------------------------------------------------------
(* What a work queue promises                                              *)

\* Before any work is submitted nothing is asked for and nothing runs.
LEMMA InitBag == Init => Bag!Init
<1> SUFFICES ASSUME Init PROVE Bag!Init
  OBVIOUS
<1>1. workList = <<>> /\ delayed = <<>> /\ running = NoWork /\ calls = 0
  BY DEF Init
<1>2. <<>> \in Seq(Works)
  OBVIOUS
<1>3. ToSet(<<>>) = {}
  BY <1>2, EmptyToSet
<1>4. Left = [w \in Works |-> -1]
  BY <1>1, <1>3 DEF Left
<1>5. Asked = {}
  BY DEF Init, Asked, SchedulerFree, InCancelAll
<1>6. QED BY <1>1, <1>4, <1>5 DEF Bag!Init, Bag!NotAsked

\* Which items the calls under way have still to cancel, before and after a
\* step.
LEMMA AskedIs ==
  /\ \A w : w \in Asked <=> \/ \E d \in Clients : cpc[d] = "cancel" /\ carg[d] = w
                            \/ w \in Works /\ \E d \in Clients : InCancelAll(d)
  /\ \A w : w \in Asked' <=> \/ \E d \in Clients : cpc'[d] = "cancel" /\ carg'[d] = w
                             \/ w \in Works /\ \E d \in Clients : InCancelAll(d)'
BY DEF Asked, SchedulerFree

\* The thread of the queue and the clock ask for no cancellation; it is none of
\* the cancelling clients that the end of an execution releases.
LEMMA AskedByWorker ==
  ASSUME SyncType, WorkerType, WaitersOK, Worker \/ Tick
  PROVE  Asked' = Asked
<1>1. cpc \in [Clients -> {"idle", "take", "blocked", "cancel", "work", "workFirst",
                           "delayed", "delayedFirst", "delete", "detach"}]
      /\ carg \in [Clients -> Works \cup {NoWork, Stray}]
  BY DEF SyncType, WorkerType
<1>2. CASE UNCHANGED <<cpc, carg>>
  BY <1>2 DEF Asked, SchedulerFree, InCancelAll
<1>3. CASE AckRelease /\ waiters # <<>>
  <2>1. PICK h : h = Head(waiters)
    OBVIOUS
  <2>2. h \in Clients /\ h \in ToSet(waiters)
    BY <1>3, <2>1, HeadTailSeq DEF WaitersOK
  <2>3. cpc[h] = "blocked"
    BY <2>2 DEF WaitersOK
  <2>4. cpc' = [cpc EXCEPT ![h] = "idle"] /\ carg' = [carg EXCEPT ![h] = NoWork]
    BY <1>3, <2>1 DEF AckRelease, Return
  <2>5. \A d \in Clients : InCancelAll(d)' <=> InCancelAll(d)
    BY <1>1, <2>3, <2>4 DEF InCancelAll
  <2>6. \A d \in Clients : cpc'[d] = "cancel" <=> cpc[d] = "cancel"
    BY <1>1, <2>3, <2>4
  <2>7. \A d \in Clients : cpc[d] = "cancel" => carg'[d] = carg[d]
    BY <1>1, <2>3, <2>4
  <2>8. QED BY <2>5, <2>6, <2>7, AskedIs
<1>4. QED
  BY <1>2, <1>3
    DEF Worker, Look, Wait, Woken, RunEnd, AckTake, AckRelease, Tick, clientVars

\* The calls of clients that cancel: they ask at their beginning, and only
\* then.
LEMMA AskedByClient ==
  ASSUME SyncType, WorkerType, NEW c \in Clients
  PROVE  /\ \A w \in Works :
              SyncLook(c, w) => \E ws \in SUBSET Works : Asked' = Asked \cup ws
         /\ \A destroy \in BOOLEAN :
              CancelAll(c, destroy) => \E ws \in SUBSET Works : Asked' = Asked \cup ws
         /\ ClientStep(c) => Asked' \subseteq Asked /\ calls' = calls
         /\ DeleteThread(c) => Asked' = Asked
<1>1. cpc \in [Clients -> {"idle", "take", "blocked", "cancel", "work", "workFirst",
                           "delayed", "delayedFirst", "delete", "detach"}]
      /\ carg \in [Clients -> Works \cup {NoWork, Stray}]
  BY DEF SyncType, WorkerType
<1>2. ASSUME NEW w \in Works, SyncLook(c, w)
      PROVE  \E ws \in SUBSET Works : Asked' = Asked \cup ws
  <2>1. /\ cpc[c] = "idle" /\ carg' = [carg EXCEPT ![c] = w]
        /\ cpc' = [cpc EXCEPT ![c] = cpc'[c]] /\ cpc'[c] \in {"take", "cancel"}
    BY <1>1, <1>2 DEF SyncLook
  <2>2. \A d \in Clients : InCancelAll(d)' <=> InCancelAll(d)
    BY <1>1, <2>1 DEF InCancelAll
  <2>3. \A d \in Clients \ {c} : cpc'[d] = cpc[d] /\ carg'[d] = carg[d]
    BY <1>1, <2>1
  <2>4. carg'[c] = w
    BY <1>1, <2>1
  <2>5. CASE cpc'[c] = "cancel"
    <3>1. Asked' = Asked \cup {w}
      BY <2>1, <2>2, <2>3, <2>4, <2>5, AskedIs
    <3>2. QED BY <3>1
  <2>6. CASE cpc'[c] = "take"
    <3>1. Asked' = Asked \cup {}
      BY <2>1, <2>2, <2>3, <2>6, AskedIs
    <3>2. QED BY <3>1
  <2>7. QED BY <2>1, <2>5, <2>6
<1>3. ASSUME NEW destroy \in BOOLEAN, CancelAll(c, destroy)
      PROVE  \E ws \in SUBSET Works : Asked' = Asked \cup ws
  <2>1. cpc[c] = "idle" /\ carg' = carg /\ cpc' = [cpc EXCEPT ![c] = "work"]
    BY <1>3 DEF CancelAll
  <2>2. InCancelAll(c)'
    BY <1>1, <2>1 DEF InCancelAll
  <2>3. \A d \in Clients : cpc'[d] = "cancel" <=> cpc[d] = "cancel"
    BY <1>1, <2>1
  <2>4. Asked' = Asked \cup Works
    BY <2>1, <2>2, <2>3, AskedIs DEF InCancelAll
  <2>5. QED BY <2>4
<1>4. ASSUME ClientStep(c) PROVE Asked' \subseteq Asked /\ calls' = calls
  <2>1. calls' = calls
    BY <1>4
      DEF ClientStep, SyncTake, SyncCancel, CancelAllTest, CancelAllFirst,
          CancelAllRemove, CancelAllHead, DeleteThread, DetachSem
  <2>2. ASSUME NEW d \in Clients, cpc'[d] = "cancel"
        PROVE  cpc[d] = "cancel" /\ carg'[d] = carg[d]
    BY <1>1, <1>4, <2>2
      DEF ClientStep, SyncTake, SyncCancel, CancelAllTest, CancelAllFirst,
          CancelAllRemove, CancelAllHead, DeleteThread, DetachSem, Return
  <2>3. ASSUME NEW d \in Clients, InCancelAll(d)'
        PROVE  InCancelAll(d)
    BY <1>1, <1>4, <2>3
      DEF ClientStep, SyncTake, SyncCancel, CancelAllTest, CancelAllFirst,
          CancelAllRemove, CancelAllHead, DeleteThread, DetachSem, Return,
          InCancelAll
  <2>4. QED BY <2>1, <2>2, <2>3, AskedIs
<1>5. ASSUME DeleteThread(c) PROVE Asked' = Asked
  <2>1. \A d \in Clients : /\ cpc'[d] = "cancel" <=> cpc[d] = "cancel"
                           /\ carg'[d] = carg[d]
                           /\ InCancelAll(d)' <=> InCancelAll(d)
    BY <1>1, <1>5 DEF DeleteThread, InCancelAll
  <2>2. QED BY <2>1, AskedIs
<1>6. QED BY <1>2, <1>3, <1>4, <1>5

\* Every step of the work queue is one that WorkBag allows, or changes nothing
\* that WorkBag sees.
LEMMA NextBag ==
  IInv /\ Left = Lefts /\ (Left = Lefts)' /\ [Next]_vars => [Bag!Next]_(Bag!vars)
<1> SUFFICES ASSUME IInv, Left = Lefts, (Left = Lefts)', [Next]_vars
             PROVE  \/ Bag!Next
                    \/ UNCHANGED <<Left, running, Asked, calls>>
  BY DEF Bag!vars
<1>1. QueueOK /\ SleepOK /\ WorkerType /\ WaitersOK /\ SyncType
  BY DEF IInv, SyncIInv
<1>2. Left = Lefts /\ Left' = Lefts'
  OBVIOUS
<1>3. \A w : Bag!Without({w}) = Updated(Lefts, w, -1)
  BY <1>2 DEF Bag!Without, Bag!NotAsked, Updated, Lefts, LeftOf
<1>4. \A ws : Bag!Without(ws) = Dropped(Lefts, ws)
  BY <1>2 DEF Bag!Without, Bag!NotAsked, Dropped, Lefts, LeftOf
<1>5. Bag!Without({}) = Lefts
  BY <1>2 DEF Bag!Without, Lefts, LeftOf
<1>6. CASE UNCHANGED vars
  <2>1. Lefts' = Lefts /\ running' = running /\ calls' = calls
    BY <1>6 DEF vars, lists, execVars, Lefts
  <2>2. Asked' = Asked
    BY <1>6 DEF vars, clientVars, Asked, SchedulerFree, InCancelAll
  <2>3. QED BY <1>2, <2>1, <2>2
<1>7. CASE Worker
  <2>1. Asked' = Asked
    BY <1>1, <1>7, AskedByWorker
  <2>2. calls' = calls
    BY <1>7 DEF Worker, Look, Wait, Woken, RunEnd, AckTake, AckRelease
  <2>3. CASE running' = running /\ Lefts' = Lefts
    BY <1>2, <2>1, <2>2, <2>3
  <2>4. CASE /\ running = NoWork /\ running' \in Works /\ Lefts[running'] = 0
             /\ Lefts' = Updated(Lefts, running', -1)
    <3>1. PICK w \in Works : w = running'
      BY <2>4
    <3>2. Bag!Start(w)
      BY <1>2, <1>3, <2>1, <2>2, <2>4, <3>1 DEF Bag!Start
    <3>3. QED BY <3>2 DEF Bag!Next
  <2>5. CASE running # NoWork /\ running' = NoWork /\ Lefts' = Lefts
    BY <1>2, <2>1, <2>2, <2>5 DEF Bag!Next, Bag!End
  <2>6. QED BY <1>1, <1>7, <2>3, <2>4, <2>5, WorkerLists
<1>8. CASE Tick
  <2>1. Lefts' = [w \in Works |-> IF Lefts[w] \in Nat \ {0} THEN Lefts[w] - 1
                                                           ELSE Lefts[w]]
    BY <1>1, <1>8, ClockTick
  <2>2. running' = running /\ calls' = calls
    BY <1>8 DEF Tick, execVars
  <2>3. Asked' = Asked
    BY <1>1, <1>8, AskedByWorker
  <2>4. Bag!Tick
    BY <1>2, <2>1, <2>2, <2>3 DEF Bag!Tick
  <2>5. QED BY <2>4 DEF Bag!Next
<1>9. ASSUME NEW w \in Works,
             \/ DoWork(w) \/ UrgentWork(w) \/ CancelWork(w)
             \/ \E n \in Delays : SubmitDelayed(w, n)
      PROVE  Bag!Next
  <2>1. running' = running
    BY <1>1, <1>9, RequestLists
  <2>2. PICK n \in Delays \cup {0, -1} : Lefts' = Updated(Lefts, w, n)
    BY <1>1, <1>9, RequestLists
  <2>3. calls' = calls + 1 /\ UNCHANGED <<cpc, carg>>
    BY <1>9 DEF DoWork, UrgentWork, CancelWork, SubmitDelayed, Call, clientVars
  <2>4. Asked' = Asked
    BY <2>3 DEF Asked, SchedulerFree, InCancelAll
  <2>5. CASE n \in Delays \cup {0}
    <3>1. Bag!Ask(w, n)
      BY <1>2, <2>1, <2>2, <2>3, <2>4 DEF Bag!Ask, Updated
    <3>2. QED BY <2>5, <3>1 DEF Bag!Next
  <2>6. CASE n = -1
    <3>1. Bag!Cancel(w)
      BY <1>2, <1>3, <2>1, <2>2, <2>3, <2>4, <2>6 DEF Bag!Cancel
    <3>2. QED BY <3>1 DEF Bag!Next
  <2>7. QED BY <2>5, <2>6
<1>10. ASSUME NEW c \in Clients,
              \/ \E w \in Works : SyncLook(c, w)
              \/ \E destroy \in BOOLEAN : CancelAll(c, destroy)
       PROVE  Bag!Next
  <2>1. calls' = calls + 1
    BY <1>10 DEF SyncLook, CancelAll, Call
  <2>2. PICK ws \in SUBSET Works : Asked' = Asked \cup ws
    BY <1>1, <1>10, AskedByClient
  <2>3. Lefts' = Lefts /\ running' = running
    BY <1>10 DEF SyncLook, CancelAll, lists, execVars, Lefts
  <2>4. Bag!AskCancel(ws)
    BY <1>2, <2>1, <2>2, <2>3 DEF Bag!AskCancel
  <2>5. QED BY <2>4 DEF Bag!Next
<1>11. ASSUME NEW c \in Clients, ClientStep(c)
       PROVE  Bag!Next \/ UNCHANGED <<Left, running, Asked, calls>>
  <2>1. /\ Asked' \subseteq Asked /\ calls' = calls
        /\ DeleteThread(c) => Asked' = Asked
    BY <1>1, <1>11, AskedByClient
  <2>2. ASSUME NEW ws \in SUBSET Works, ws \subseteq Asked, running' = running,
               Lefts' = Bag!Without(ws)
        PROVE  Bag!Next
    <3>1. Bag!Withdraw(ws)
      BY <1>2, <2>1, <2>2 DEF Bag!Withdraw
    <3>2. QED BY <3>1 DEF Bag!Next
  <2>3. CASE running' = running /\ Lefts' = Lefts
    <3>1. {} \in SUBSET Works /\ {} \subseteq Asked
      OBVIOUS
    <3>2. QED BY <1>5, <2>2, <2>3, <3>1
  <2>4. CASE /\ SyncCancel(c) \/ CancelAllRemove(c)
             /\ running' = running /\ Lefts' = Updated(Lefts, carg[c], -1)
    <3>1. CASE carg[c] \in Works
      <4>1. carg[c] \in Asked
        BY <2>4, <3>1, AskedIs DEF SyncCancel, CancelAllRemove, InCancelAll
      <4>2. QED BY <1>3, <2>2, <2>4, <3>1, <4>1
    <3>2. CASE carg[c] \notin Works
      <4>1. Updated(Lefts, carg[c], -1) = Lefts
        BY <3>2 DEF Updated, Lefts, LeftOf
      <4>2. QED BY <2>3, <2>4, <4>1
    <3>3. QED BY <3>1, <3>2
  <2>5. CASE /\ CancelAllHead(c)
             /\ running' = running
             /\ \E ws \in SUBSET Works : Lefts' = Dropped(Lefts, ws)
    <3>1. PICK ws \in SUBSET Works : Lefts' = Dropped(Lefts, ws)
      BY <2>5
    <3>2. ws \subseteq Asked
      BY <2>5, AskedIs DEF CancelAllHead, InCancelAll
    <3>3. QED BY <1>4, <2>2, <2>5, <3>1, <3>2
  <2>6. CASE DeleteThread(c) /\ running' = NoWork /\ Lefts' = Lefts
    <3>1. CASE running = NoWork
      BY <2>3, <2>6, <3>1
    <3>2. CASE running # NoWork
      BY <1>2, <2>1, <2>6, <3>2 DEF Bag!Next, Bag!End
    <3>3. QED BY <3>1, <3>2
  <2>7. QED BY <1>1, <1>11, <2>3, <2>4, <2>5, <2>6, ClientLists
<1>12. QED BY <1>6, <1>7, <1>8, <1>9, <1>10, <1>11 DEF Next, Request

\* A work item starts once its delay is over and not before, one at a time and
\* once for each time it was asked for, unless a call cancels it, however the
\* tick counter wraps and whoever submits, cancels or destroys meanwhile
\* (workqueue.c).
THEOREM WorkQueueImplementsBag == Spec => ImplementsBag
<1>1. IInv => Left = Lefts
  BY LeftIs DEF IInv
<1>2. QED BY <1>1, InitBag, InitIInv, NextIInv, NextBag, PTL
          DEF Spec, ImplementsBag, Bag!Spec

-----------------------------------------------------------------------------
(* The timers: what always holds of them                                   *)

\* q is the list of the timers of kind k when the clock reads now: each timer
\* once, in the order of the timeouts to, and lf says how many ticks are left.
TimerListOK(k, q, to, lf, now) ==
  /\ q \in Seq(Timers) /\ IsInjective(q)
  /\ \A t \in ToSet(q) :
       /\ KindOf(t) = k
       /\ Age(to[t], now) \in Ages /\ lf[t] = Age(to[t], now) - MaxLate
  /\ InOrder(q, to, now)

\* The values of the variables, and the two lists.
TimersOK ==
  /\ tick \in Ticks /\ timeout \in [Timers -> Ticks]
  /\ left \in [Timers -> -MaxLate .. Half - 1]
  /\ list \in [Kind -> Seq(Timers)]
  /\ \A k \in Kind : TimerListOK(k, list[k], timeout, left, tick)

\* What does not concern the order of the lists.
TimerFlags ==
  /\ init \in [Timers -> Times] /\ \A t \in Timers : init[t] \in TimesOf(t)
  /\ activated \subseteq live /\ periodic \subseteq Timers /\ live \subseteq Timers
  /\ called \in [Kind -> Timers \cup {NoTimer}] /\ onList \in [Kind -> BOOLEAN]
  /\ inIsr \in BOOLEAN /\ tpc \in {"check", "take", "wait"} /\ sem \in {0, 1}
  /\ \A k \in Kind :
       /\ ToSet(list[k]) \subseteq activated
       /\ called[k] # NoTimer => KindOf(called[k]) = k
       /\ onList[k] => called[k] \in live \ ToSet(list[k])

\* No hard timer is ever late, and between two interrupts none is due; but one
\* that was started with the timeout 0 waits for the next interrupt.
HardOnTime ==
  \A t \in ToSet(list["hard"]) :
    /\ left[t] >= 0 \/ (left[t] = -1 /\ init[t] = 0)
    /\ left[t] <= 0 => inIsr \/ (left[t] = 0 /\ init[t] = 0)

\* The thread is at its loop while a soft timer is due, or will be again.
SoftAwake ==
  \A t \in ToSet(list["soft"]) : left[t] <= 0 => tpc = "check" \/ sem = 1

TimerIInv == TimersOK /\ TimerFlags /\ HardOnTime /\ SoftAwake

\* A timer is on a list exactly if it is on that of its kind.
LEMMA ListedIs ==
  ASSUME TimersOK, NEW t \in Timers
  PROVE  /\ KindOf(t) \in Kind
         /\ Listed(t) <=> t \in ToSet(list[KindOf(t)])
         /\ \A k \in Kind : t \in ToSet(list[k]) => k = KindOf(t)
<1>1. KindOf(t) \in Kind
  BY DEF KindOf, Kind
<1>2. \A k \in Kind : list[k] \in Seq(Timers) /\ \A u \in ToSet(list[k]) : KindOf(u) = k
  BY DEF TimersOK, TimerListOK
<1> DEFINE q == list[KindOf(t)]
<1>3. q \in Seq(Timers)
  BY <1>1, <1>2
<1> HIDE DEF q
<1>4. (\E i \in DOMAIN q : q[i] = t) <=> t \in ToSet(q)
  BY <1>3, InToSet, LenProperties
<1>5. QED BY <1>1, <1>2, <1>4 DEF Listed, q

\* The first timer of a list has the least ticks left, and the code knows
\* whether it is due.
LEMMA HeadIsFirst ==
  ASSUME NEW k, NEW q, NEW to \in [Timers -> Ticks], NEW lf, NEW now \in Ticks,
         TimerListOK(k, q, to, lf, now), q # <<>>
  PROVE  /\ Head(q) \in Timers /\ Head(q) \in ToSet(q)
         /\ \A t \in ToSet(q) : lf[Head(q)] \in Int /\ lf[t] \in Int /\ lf[Head(q)] <= lf[t]
         /\ Minus(now, to[Head(q)]) < Half <=> lf[Head(q)] <= 0
         /\ lf[Head(q)] = 0 => to[Head(q)] = now
<1>1. /\ q \in Seq(Timers) /\ IsInjective(q) /\ InOrder(q, to, now)
      /\ \A t \in ToSet(q) :
           Age(to[t], now) \in Ages /\ lf[t] = Age(to[t], now) - MaxLate
  BY DEF TimerListOK
<1> DEFINE h == Head(q)
<1>2. h \in Timers /\ h \in ToSet(q) /\ h = q[1]
  BY <1>1, HeadTailSeq
<1> HIDE DEF h
<1>3. PICK d \in Ticks : d = to[h]
  BY <1>2
<1>4. Age(d, now) \in Ages /\ lf[h] = Age(d, now) - MaxLate
  BY <1>1, <1>2, <1>3
<1>5. Age(d, now) \in Nat /\ MaxLate \in Nat
  BY <1>4, TickFacts DEF Ages
<1>6. Minus(now, to[h]) < Half <=> lf[h] <= 0
  <2>1. Minus(now, d) < Half <=> Age(d, now) <= MaxLate
    BY <1>4, DueIs
  <2>2. QED BY <1>3, <1>4, <1>5, <2>1
<1>7. lf[h] = 0 => d = now
  <2>1. Age(d, now) = Turned(d + MaxLate - now)
    BY AgeIs
  <2>2. QED BY <1>4, <1>5, <2>1, TickFacts DEF Turned
<1>8. ASSUME NEW t \in ToSet(q) PROVE lf[h] \in Int /\ lf[t] \in Int /\ lf[h] <= lf[t]
  <2>1. PICK i \in 1 .. Len(q) : q[i] = t
    BY <1>1, InToSet
  <2>2. Len(q) \in Nat /\ 1 \in 1 .. Len(q)
    BY <1>1, <2>1, InToSet
  <2>3. Age(to[t], now) \in Nat
    BY <1>1 DEF Ages
  <2>4. Age(d, now) <= Age(to[t], now)
    <3>1. CASE i = 1
      BY <1>2, <1>3, <1>5, <2>1, <3>1
    <3>2. CASE i # 1
      <4>1. 1 < i
        BY <2>1, <2>2, <3>2
      <4>2. Age(to[q[1]], now) <= Age(to[q[i]], now)
        BY <1>1, <2>1, <2>2, <4>1 DEF InOrder
      <4>3. QED BY <1>2, <1>3, <2>1, <4>2
    <3>3. QED BY <3>1, <3>2
  <2>5. lf[t] = Age(to[t], now) - MaxLate
    BY <1>1
  <2>6. QED BY <1>4, <1>5, <2>3, <2>4, <2>5
<1>9. QED BY <1>2, <1>3, <1>6, <1>7, <1>8 DEF h

\* _timer_remove takes one timer off its list.
LEMMA TimerListRemoved ==
  ASSUME NEW k, NEW q, NEW to, NEW lf, NEW now, TimerListOK(k, q, to, lf, now),
         NEW t, NEW to2, NEW lf2,
         \A u \in Timers : u # t => to2[u] = to[u] /\ lf2[u] = lf[u]
  PROVE  /\ TimerListOK(k, RemoveFirst(q, t), to2, lf2, now)
         /\ ToSet(RemoveFirst(q, t)) = ToSet(q) \ {t}
<1> DEFINE r == RemoveFirst(q, t)
<1>1. /\ q \in Seq(Timers) /\ IsInjective(q)
      /\ \A u \in ToSet(q) :
           KindOf(u) = k /\ Age(to[u], now) \in Ages /\ lf[u] = Age(to[u], now) - MaxLate
      /\ \A i, j \in 1 .. Len(q) : i < j => Age(to[q[i]], now) <= Age(to[q[j]], now)
  BY DEF TimerListOK, InOrder
<1>2. /\ r \in Seq(Timers) /\ IsInjective(r) /\ ToSet(r) = ToSet(q) \ {t}
      /\ \A i, j \in 1 .. Len(r) :
           i < j => \E a, b \in 1 .. Len(q) : a < b /\ q[a] = r[i] /\ q[b] = r[j]
  BY <1>1, RemovedSeq
<1> HIDE DEF r
<1>3. \A u \in ToSet(r) : u \in Timers /\ u # t /\ u \in ToSet(q)
  BY <1>1, <1>2, InToSet
<1>4. \A i \in 1 .. Len(r) : r[i] \in ToSet(r)
  BY <1>2, InToSet
<1>5. ASSUME NEW i \in 1 .. Len(r), NEW j \in 1 .. Len(r), i < j
      PROVE  Age(to2[r[i]], now) <= Age(to2[r[j]], now)
  <2>1. PICK a \in 1 .. Len(q), b \in 1 .. Len(q) : a < b /\ q[a] = r[i] /\ q[b] = r[j]
    BY <1>2, <1>5
  <2>2. Age(to[r[i]], now) <= Age(to[r[j]], now)
    BY <1>1, <2>1
  <2>3. to2[r[i]] = to[r[i]] /\ to2[r[j]] = to[r[j]]
    BY <1>3, <1>4
  <2>4. QED BY <2>2, <2>3
<1>6. \A u \in ToSet(r) :
        KindOf(u) = k /\ Age(to2[u], now) \in Ages /\ lf2[u] = Age(to2[u], now) - MaxLate
  BY <1>1, <1>3
<1>7. TimerListOK(k, r, to2, lf2, now)
  BY <1>2, <1>5, <1>6 DEF TimerListOK, InOrder
<1>8. QED BY <1>2, <1>7 DEF r

\* What happens to a timer of another list does not matter to a list.
LEMMA TimerListOther ==
  ASSUME NEW k, NEW q, NEW to, NEW lf, NEW now, TimerListOK(k, q, to, lf, now),
         NEW to2, NEW lf2, \A u \in ToSet(q) : to2[u] = to[u] /\ lf2[u] = lf[u]
  PROVE  TimerListOK(k, q, to2, lf2, now)
<1>1. q \in Seq(Timers)
  BY DEF TimerListOK
<1>2. \A i \in 1 .. Len(q) : q[i] \in ToSet(q)
  BY <1>1, InToSet
<1>3. QED BY <1>2 DEF TimerListOK, InOrder

\* _timer_start puts a timer where its timeout belongs.
LEMMA TimerListInserted ==
  ASSUME NEW k, NEW q, TimerListOK(k, q, timeout, left, tick),
         timeout \in [Timers -> Ticks], tick \in Ticks,
         NEW t \in Timers, t \notin ToSet(q), KindOf(t) = k,
         NEW d \in Ticks, Age(d, tick) \in Ages, Age(d, tick) >= MaxLate,
         NEW to2, NEW lf2, to2[t] = d, lf2[t] = Age(d, tick) - MaxLate,
         \A u \in Timers : u # t => to2[u] = timeout[u] /\ lf2[u] = left[u]
  PROVE  /\ TimerListOK(k, Inserted(q, t, d), to2, lf2, tick)
         /\ ToSet(Inserted(q, t, d)) = ToSet(q) \cup {t}
<1> DEFINE later == {i \in DOMAIN q : Behind(q[i], d)}
           at == IF later = {} THEN Len(q) + 1 ELSE Min(later)
<1>1. /\ q \in Seq(Timers) /\ IsInjective(q) /\ InOrder(q, timeout, tick)
      /\ \A u \in ToSet(q) : KindOf(u) = k /\ Age(timeout[u], tick) \in Ages
                             /\ left[u] = Age(timeout[u], tick) - MaxLate
  BY DEF TimerListOK
<1>2. Len(q) \in Nat /\ DOMAIN q = 1 .. Len(q) /\ \A i \in 1 .. Len(q) : q[i] \in Timers /\ q[i] \in ToSet(q)
  BY <1>1, InToSet, LenProperties
<1>3. Age(d, tick) >= MaxLate /\ Age(d, tick) \in Nat
  BY TickFacts DEF Ages
<1>4. ASSUME NEW i \in 1 .. Len(q)
      PROVE  /\ i \in later <=> Age(timeout[q[i]], tick) > Age(d, tick)
             /\ Age(timeout[q[i]], tick) \in Nat
  <2>1. PICK e \in Ticks : e = timeout[q[i]]
    BY <1>2
  <2>2. Age(e, tick) \in Ages
    BY <1>1, <1>2, <2>1
  <2>3. Minus(e, d) \in 1 .. Half - 1 <=> Age(e, tick) > Age(d, tick)
    BY <1>3, <2>2, BehindIs
  <2>4. QED BY <1>2, <2>1, <2>2, <2>3 DEF Behind, Ages
<1>5. later \in SUBSET Nat /\ later \subseteq 1 .. Len(q)
  BY <1>2
<1>6. /\ at \in 1 .. Len(q) + 1
      /\ \A i \in 1 .. Len(q) : i < at => i \notin later
      /\ at <= Len(q) => at \in later
  <2>1. CASE later = {}
    BY <2>1, <1>2
  <2>2. CASE later # {}
    <3>1. Min(later) \in later /\ \A i \in later : Min(later) <= i
      BY <1>5, <2>2, MinNat
    <3>2. at = Min(later)
      BY <2>2
    <3> HIDE DEF at, later
    <3>3. at \in later /\ at \in 1 .. Len(q) /\ \A i \in later : at <= i
      BY <1>5, <3>1, <3>2
    <3>4. \A i \in 1 .. Len(q) : i < at => i \notin later
      BY <3>3
    <3>5. QED BY <1>2, <3>3, <3>4
  <2>3. QED BY <2>1, <2>2
<1>7. Inserted(q, t, d) = InsertAt(q, at, t)
  BY DEF Inserted
<1> HIDE DEF later, at
<1>8. \A i \in 1 .. Len(q) : i < at => Age(timeout[q[i]], tick) <= Age(d, tick)
  BY <1>3, <1>4, <1>6
<1>9. at <= Len(q) => Age(d, tick) <= Age(timeout[q[at]], tick)
  <2>1. at <= Len(q) => at \in 1 .. Len(q)
    BY <1>2, <1>6
  <2>2. QED BY <1>3, <1>4, <1>6, <2>1
<1>10. \A u \in ToSet(q) : Age(timeout[u], tick) \in Ages
  BY <1>1
<1> DEFINE r == InsertAt(q, at, t)
           to3 == [timeout EXCEPT ![t] = d]
<1>11. /\ r \in Seq(Timers) /\ IsInjective(r) /\ ToSet(r) = ToSet(q) \cup {t}
       /\ InOrder(r, to3, tick)
  <2>1. /\ q \in Seq(Timers) /\ IsInjective(q) /\ InOrder(q, timeout, tick)
        /\ timeout \in [Timers -> Ticks] /\ t \in Timers /\ t \notin ToSet(q)
        /\ Age(d, tick) \in Ages /\ at \in 1 .. Len(q) + 1
    BY <1>1, <1>6
  <2>2. QED BY ONLY <2>1, <1>8, <1>9, <1>10, InsertedOrder
<1>12. \A u \in Timers : to3[u] = to2[u]
  OBVIOUS
<1> HIDE DEF r, to3
<1>13. \A i \in 1 .. Len(r) : r[i] \in Timers
  BY <1>11, InToSet
<1>14. InOrder(r, to2, tick)
  BY <1>11, <1>12, <1>13 DEF InOrder
<1>15. ASSUME NEW u \in ToSet(r)
       PROVE  KindOf(u) = k /\ Age(to2[u], tick) \in Ages /\ lf2[u] = Age(to2[u], tick) - MaxLate
  <2>1. CASE u = t
    BY <2>1, TickFacts
  <2>2. CASE u # t
    <3>1. u \in ToSet(q) /\ u \in Timers
      BY <1>1, <1>11, <2>2, InToSet
    <3>2. QED BY <1>1, <2>2, <3>1
  <2>3. QED BY <2>1, <2>2
<1>16. TimerListOK(k, r, to2, lf2, tick)
  BY <1>11, <1>14, <1>15 DEF TimerListOK
<1>17. QED BY <1>7, <1>11, <1>16 DEF r

\* The clock ticks while no timer is as late as it may be.
LEMMA TimerListTicks ==
  ASSUME NEW k, NEW q, NEW to \in [Timers -> Ticks], NEW lf, NEW now \in Ticks,
         TimerListOK(k, q, to, lf, now),
         \A t \in ToSet(q) : lf[t] > -MaxLate,
         NEW lf2, \A t \in ToSet(q) : lf2[t] = lf[t] - 1,
         NEW u, u = (now + 1) % TickCount
  PROVE  TimerListOK(k, q, to, lf2, u)
<1>1. /\ q \in Seq(Timers) /\ IsInjective(q) /\ InOrder(q, to, now)
      /\ \A t \in ToSet(q) : KindOf(t) = k /\ Age(to[t], now) \in Ages
                             /\ lf[t] = Age(to[t], now) - MaxLate
  BY DEF TimerListOK
<1>2. \A t \in ToSet(q) : t \in Timers
  BY <1>1, InToSet
<1>3. ASSUME NEW t \in ToSet(q)
      PROVE  /\ Age(to[t], u) = Age(to[t], now) - 1 /\ Age(to[t], u) \in Ages
             /\ Age(to[t], now) \in Nat
             /\ lf2[t] = Age(to[t], u) - MaxLate
  <2>1. PICK d \in Ticks : d = to[t]
    BY <1>2
  <2>2. Age(d, now) \in Ages /\ Age(d, now) \in Nat /\ MaxLate \in Nat
    BY <1>1, <2>1, TickFacts DEF Ages
  <2>3. lf[t] = Age(d, now) - MaxLate /\ lf[t] > -MaxLate /\ lf2[t] = lf[t] - 1
    BY <1>1, <2>1
  <2>4. Age(d, now) > 0
    BY <2>2, <2>3
  <2>5. Age(d, u) = Age(d, now) - 1 /\ Age(d, u) \in Ages
    BY <2>2, <2>4, TickAge
  <2>6. QED BY <2>1, <2>2, <2>3, <2>5
<1>4. \A i \in 1 .. Len(q) : q[i] \in ToSet(q)
  BY <1>1, InToSet
<1>5. InOrder(q, to, u)
  <2>1. ASSUME NEW i \in 1 .. Len(q), NEW j \in 1 .. Len(q), i < j
        PROVE  Age(to[q[i]], u) <= Age(to[q[j]], u)
    <3>1. Age(to[q[i]], now) <= Age(to[q[j]], now)
      BY <1>1, <2>1 DEF InOrder
    <3>2. QED BY <1>3, <1>4, <3>1
  <2>2. QED BY <2>1 DEF InOrder
<1>6. QED BY <1>1, <1>3, <1>5 DEF TimerListOK

-----------------------------------------------------------------------------
(* The timers: what each operation does to the lists                       *)

\* A number in place of another, in the two functions of the timers.
LEMMA LeftTypes ==
  /\ 0 \in Ticks /\ 0 \in -MaxLate .. Half - 1
  /\ \A n \in Times : n \in Nat /\ n \in -MaxLate .. Half - 1
<1>1. ASSUME NEW n \in Times PROVE n \in Nat /\ n \in -MaxLate .. Half - 1
  <2>1. n \in Nat /\ n < Half
    BY ComparableIs, TimerAssumption
  <2>2. QED BY <2>1, TickFacts
<1>2. QED BY <1>1, TickFacts

\* _timer_remove as the program calls it: the timer is on no list any more and
\* the others are where they were.
LEMMA StopLists ==
  ASSUME TimersOK, NEW t \in Timers, StopTimer(t), UNCHANGED tick
  PROVE  /\ TimersOK'
         /\ \A k \in Kind : ToSet(list[k])' = ToSet(list[k]) \ {t}
         /\ \A u \in Timers : u # t => left'[u] = left[u]
<1>1. /\ list \in [Kind -> Seq(Timers)] /\ timeout \in [Timers -> Ticks]
      /\ left \in [Timers -> -MaxLate .. Half - 1]
      /\ \A k \in Kind : TimerListOK(k, list[k], timeout, left, tick)
  BY DEF TimersOK
<1>2. /\ list' = [list EXCEPT ![KindOf(t)] = RemoveFirst(@, t)]
      /\ timeout' = [timeout EXCEPT ![t] = 0] /\ left' = [left EXCEPT ![t] = 0]
  BY DEF StopTimer, Removed
<1>3. \A u \in Timers : u # t => timeout'[u] = timeout[u] /\ left'[u] = left[u]
  BY <1>1, <1>2
<1>4. timeout' \in [Timers -> Ticks] /\ left' \in [Timers -> -MaxLate .. Half - 1]
  BY <1>1, <1>2, LeftTypes
<1>5. DOMAIN list' = Kind
  BY <1>1, <1>2
<1>6. ASSUME NEW k \in Kind
      PROVE  /\ TimerListOK(k, list'[k], timeout', left', tick)
             /\ ToSet(list'[k]) = ToSet(list[k]) \ {t}
  <2>1. TimerListOK(k, list[k], timeout, left, tick)
    BY <1>1
  <2>2. CASE k = KindOf(t)
    <3>1. list'[k] = RemoveFirst(list[k], t)
      BY <1>1, <1>2, <2>2
    <3>2. QED BY <1>3, <2>1, <3>1, TimerListRemoved
  <2>3. CASE k # KindOf(t)
    <3>1. list'[k] = list[k]
      BY <1>1, <1>2, <2>3
    <3>2. t \notin ToSet(list[k])
      BY <2>3, ListedIs
    <3>3. \A u \in ToSet(list[k]) : u \in Timers /\ u # t
      BY <1>1, <3>2, InToSet
    <3>4. \A u \in ToSet(list[k]) : timeout'[u] = timeout[u] /\ left'[u] = left[u]
      BY <1>3, <3>3
    <3>5. TimerListOK(k, list[k], timeout', left', tick)
      BY <2>1, <3>4, TimerListOther
    <3>6. QED BY <3>1, <3>2, <3>5
  <2>4. QED BY <2>2, <2>3
<1>7. \A k \in Kind : list'[k] \in Seq(Timers)
  BY <1>6 DEF TimerListOK
<1>8. list' \in [Kind -> Seq(Timers)]
  <2>1. list' = [k \in Kind |-> list'[k]]
    BY <1>1, <1>2
  <2>2. QED BY <1>7, <2>1
<1>9. tick' = tick /\ tick \in Ticks
  BY DEF TimersOK
<1>10. TimersOK'
  BY <1>4, <1>6, <1>8, <1>9 DEF TimersOK
<1>11. QED BY <1>3, <1>6, <1>10

\* _timer_start: the timer is on the list of its kind, with all of its time to
\* go.
LEMMA StartLists ==
  ASSUME TimersOK, NEW t \in Timers, StartTimer(t), UNCHANGED tick,
         init[t] \in Times
  PROVE  /\ TimersOK'
         /\ \A k \in Kind : ToSet(list[k])' =
              IF k = KindOf(t) THEN ToSet(list[k]) \cup {t} ELSE ToSet(list[k])
         /\ \A u \in Timers : u # t => left'[u] = left[u]
         /\ left'[t] = init[t]
<1>1. /\ list \in [Kind -> Seq(Timers)] /\ timeout \in [Timers -> Ticks]
      /\ left \in [Timers -> -MaxLate .. Half - 1] /\ tick \in Ticks
      /\ \A k \in Kind : TimerListOK(k, list[k], timeout, left, tick)
  BY DEF TimersOK
<1> DEFINE n == init[t]
           d == (tick + n) % TickCount
           K == KindOf(t)
           r == RemoveFirst(list[K], t)
<1>2. K \in Kind /\ \A k \in Kind : t \in ToSet(list[k]) => k = K
  BY ListedIs
<1>3. n \in Nat /\ n \in -MaxLate .. Half - 1
  BY LeftTypes
<1>4. d \in Ticks /\ Age(d, tick) = n + MaxLate /\ Age(d, tick) \in Ages
  BY <1>1, SubmitAge, TimerAssumption
<1>5. d = StartAt(t)
  BY DEF StartAt, TickCount
<1>6. Removed(t)[K] = r
  BY <1>1, <1>2 DEF Removed
<1>7. /\ list' = [list EXCEPT ![K] = Inserted(r, t, d)]
      /\ timeout' = [timeout EXCEPT ![t] = d] /\ left' = [left EXCEPT ![t] = n]
  BY <1>5, <1>6 DEF StartTimer
<1> HIDE DEF n, d, K, r
<1>8. /\ timeout' \in [Timers -> Ticks] /\ left' \in [Timers -> -MaxLate .. Half - 1]
      /\ timeout'[t] = d /\ left'[t] = n
      /\ \A u \in Timers : u # t => timeout'[u] = timeout[u] /\ left'[u] = left[u]
  BY <1>1, <1>3, <1>4, <1>7
<1>9. TimerListOK(K, r, timeout, left, tick) /\ ToSet(r) = ToSet(list[K]) \ {t}
  <2>1. TimerListOK(K, list[K], timeout, left, tick)
    BY <1>1, <1>2
  <2>2. QED BY <2>1, TimerListRemoved DEF r
<1>10. /\ TimerListOK(K, Inserted(r, t, d), timeout', left', tick)
       /\ ToSet(Inserted(r, t, d)) = ToSet(r) \cup {t}
  <2>1. KindOf(t) = K /\ t \notin ToSet(r)
    BY <1>9 DEF K
  <2>2. Age(d, tick) >= MaxLate /\ left'[t] = Age(d, tick) - MaxLate
    BY <1>3, <1>4, <1>8, TickFacts
  <2>3. /\ timeout \in [Timers -> Ticks] /\ tick \in Ticks /\ d \in Ticks
        /\ Age(d, tick) \in Ages /\ timeout'[t] = d
        /\ \A u \in Timers : u # t => timeout'[u] = timeout[u] /\ left'[u] = left[u]
        /\ TimerListOK(K, r, timeout, left, tick)
    BY <1>1, <1>4, <1>8, <1>9
  <2>4. QED BY <2>1, <2>2, <2>3, TimerListInserted
<1>11. ASSUME NEW k \in Kind
       PROVE  /\ TimerListOK(k, list'[k], timeout', left', tick)
              /\ ToSet(list'[k]) = IF k = K THEN ToSet(list[k]) \cup {t} ELSE ToSet(list[k])
  <2>1. CASE k = K
    <3>1. list'[k] = Inserted(r, t, d)
      BY <1>1, <1>7, <2>1
    <3>2. QED BY <1>9, <1>10, <2>1, <3>1
  <2>2. CASE k # K
    <3>1. list'[k] = list[k] /\ t \notin ToSet(list[k])
      BY <1>1, <1>2, <1>7, <2>2
    <3>2. \A u \in ToSet(list[k]) : u \in Timers /\ u # t
      BY <1>1, <3>1, InToSet
    <3>3. \A u \in ToSet(list[k]) : timeout'[u] = timeout[u] /\ left'[u] = left[u]
      BY <1>8, <3>2
    <3>4. TimerListOK(k, list[k], timeout', left', tick)
      BY <1>1, <3>3, TimerListOther
    <3>5. QED BY <2>2, <3>1, <3>4
  <2>3. QED BY <2>1, <2>2
<1>12. list' \in [Kind -> Seq(Timers)]
  <2>1. list' = [k \in Kind |-> list'[k]]
    BY <1>1, <1>7
  <2>2. \A k \in Kind : list'[k] \in Seq(Timers)
    BY <1>11 DEF TimerListOK
  <2>3. QED BY <2>1, <2>2
<1>13. TimersOK'
  BY <1>1, <1>8, <1>11, <1>12 DEF TimersOK
<1>14. QED BY <1>8, <1>11, <1>13 DEF K, n

\* _timer_check takes the first timer of a list, which is due, and calls it.
LEMMA ExpireLists ==
  ASSUME TimersOK, NEW k \in Kind, Expire(k)
  PROVE  LET t == Head(list[k])
         IN  /\ TimersOK'
             /\ t \in Timers /\ t \in ToSet(list[k]) /\ KindOf(t) = k
             /\ left[t] <= 0
             /\ \A m \in Kind : ToSet(list[m])' = ToSet(list[m]) \ {t}
             /\ \A u \in Timers : u # t => left'[u] = left[u]
<1> DEFINE t == Head(list[k])
<1>1. /\ list \in [Kind -> Seq(Timers)] /\ timeout \in [Timers -> Ticks]
      /\ left \in [Timers -> -MaxLate .. Half - 1] /\ tick \in Ticks
      /\ \A m \in Kind : TimerListOK(m, list[m], timeout, left, tick)
  BY DEF TimersOK
<1>2. /\ list[k] # <<>> /\ Expired(t)
      /\ list' = [list EXCEPT ![k] = Tail(@)]
      /\ timeout' = [timeout EXCEPT ![t] = 0] /\ left' = [left EXCEPT ![t] = 0]
      /\ UNCHANGED tick
  BY DEF Expire, HeadExpired
<1>3. t \in Timers /\ t \in ToSet(list[k]) /\ left[t] <= 0
  BY <1>1, <1>2, HeadIsFirst DEF Expired
<1>4. KindOf(t) = k /\ \A m \in Kind : t \in ToSet(list[m]) => m = k
  BY <1>3, ListedIs
<1> HIDE DEF t
<1>5. /\ timeout' \in [Timers -> Ticks] /\ left' \in [Timers -> -MaxLate .. Half - 1]
      /\ \A u \in Timers : u # t => timeout'[u] = timeout[u] /\ left'[u] = left[u]
  BY <1>1, <1>2, LeftTypes
<1>6. TimerListOK(k, Tail(list[k]), timeout', left', tick) /\ ToSet(Tail(list[k])) = ToSet(list[k]) \ {t}
  <2> DEFINE q == list[k]
             r == Tail(q)
  <2>1. /\ q \in Seq(Timers) /\ IsInjective(q) /\ InOrder(q, timeout, tick) /\ q # <<>>
        /\ \A u \in ToSet(q) : KindOf(u) = k /\ Age(timeout[u], tick) \in Ages
                               /\ left[u] = Age(timeout[u], tick) - MaxLate
    BY <1>1, <1>2 DEF TimerListOK
  <2>2. r \in Seq(Timers) /\ IsInjective(r) /\ ToSet(r) = ToSet(q) \ {t}
    BY <2>1, HeadTailSeq DEF t
  <2>3. /\ Len(r) = Len(q) - 1 /\ Len(q) \in Nat
        /\ \A i \in 1 .. Len(q) - 1 : r[i] = q[i + 1]
    BY <2>1, HeadTailProperties, LenProperties
  <2> HIDE DEF q, r
  <2>4. \A u \in ToSet(r) : u \in Timers /\ u # t /\ u \in ToSet(q)
    BY <2>2, InToSet
  <2>5. \A i \in 1 .. Len(r) : r[i] \in ToSet(r)
    BY <2>2, InToSet
  <2>6. ASSUME NEW i \in 1 .. Len(r), NEW j \in 1 .. Len(r), i < j
        PROVE  Age(timeout'[r[i]], tick) <= Age(timeout'[r[j]], tick)
    <3>1. i + 1 \in 1 .. Len(q) /\ j + 1 \in 1 .. Len(q) /\ i + 1 < j + 1
      BY <2>3, <2>6
    <3>2. Age(timeout[q[i + 1]], tick) <= Age(timeout[q[j + 1]], tick)
      BY <2>1, <3>1 DEF InOrder
    <3>3. r[i] = q[i + 1] /\ r[j] = q[j + 1]
      BY <2>3
    <3>4. timeout'[r[i]] = timeout[r[i]] /\ timeout'[r[j]] = timeout[r[j]]
      BY <1>5, <2>4, <2>5
    <3>5. QED BY <3>2, <3>3, <3>4
  <2>7. \A u \in ToSet(r) : KindOf(u) = k /\ Age(timeout'[u], tick) \in Ages
                            /\ left'[u] = Age(timeout'[u], tick) - MaxLate
    BY <1>5, <2>1, <2>4
  <2>8. TimerListOK(k, r, timeout', left', tick)
    BY <2>2, <2>6, <2>7 DEF TimerListOK, InOrder
  <2>9. QED BY <2>2, <2>8 DEF q, r
<1>7. ASSUME NEW m \in Kind
      PROVE  /\ TimerListOK(m, list'[m], timeout', left', tick)
             /\ ToSet(list'[m]) = ToSet(list[m]) \ {t}
  <2>1. CASE m = k
    <3>1. list'[m] = Tail(list[k])
      BY <1>1, <1>2, <2>1
    <3>2. QED BY <1>6, <2>1, <3>1
  <2>2. CASE m # k
    <3>1. list'[m] = list[m] /\ t \notin ToSet(list[m])
      BY <1>1, <1>2, <1>4, <2>2
    <3>2. \A u \in ToSet(list[m]) : u \in Timers /\ u # t
      BY <1>1, <3>1, InToSet
    <3>3. \A u \in ToSet(list[m]) : timeout'[u] = timeout[u] /\ left'[u] = left[u]
      BY <1>5, <3>2
    <3>4. TimerListOK(m, list[m], timeout', left', tick)
      BY <1>1, <3>3, TimerListOther
    <3>5. QED BY <3>1, <3>4
  <2>3. QED BY <2>1, <2>2
<1>8. list' \in [Kind -> Seq(Timers)]
  <2>1. list' = [m \in Kind |-> list'[m]]
    BY <1>1, <1>2
  <2>2. \A m \in Kind : list'[m] \in Seq(Timers)
    BY <1>7 DEF TimerListOK
  <2>3. QED BY <2>1, <2>2
<1>9. TimersOK'
  BY <1>1, <1>2, <1>5, <1>7, <1>8 DEF TimersOK
<1>10. QED BY <1>3, <1>4, <1>5, <1>7, <1>9 DEF t

-----------------------------------------------------------------------------
(* The timers: the invariant                                               *)

\* At the start no timer runs.
LEMMA InitTimers == TimerInit => TimerIInv
<1> SUFFICES ASSUME TimerInit PROVE TimerIInv
  OBVIOUS
<1>1. SomeTime \in Times /\ \A t \in Timers : SomeTime \in TimesOf(t)
  BY TimerAssumption DEF SomeTime, TimesOf
<1>2. \A k \in Kind : list[k] = <<>>
  BY DEF TimerInit
<1>3. <<>> \in Seq(Timers) /\ ToSet(<<>>) = {} /\ IsInjective(<<>>)
  <2>1. <<>> \in Seq(Timers)
    OBVIOUS
  <2>2. ToSet(<<>>) = {}
    BY <2>1, EmptyToSet
  <2>3. IsInjective(<<>>)
    BY DEF IsInjective
  <2>4. QED BY <2>1, <2>2, <2>3
<1>4. InOrder(<<>>, timeout, tick)
  BY DEF InOrder
<1>5. \A k \in Kind : TimerListOK(k, list[k], timeout, left, tick)
  BY <1>2, <1>3, <1>4 DEF TimerListOK
<1>6. TimersOK
  <2>1. list \in [Kind -> Seq(Timers)]
    BY <1>3 DEF TimerInit
  <2>2. tick \in Ticks /\ timeout \in [Timers -> Ticks] /\ left \in [Timers -> -MaxLate .. Half - 1]
    BY LeftTypes DEF TimerInit
  <2>3. QED BY <1>5, <2>1, <2>2 DEF TimersOK
<1>7. TimerFlags
  BY <1>1, <1>2, <1>3 DEF TimerInit, TimerFlags
<1>8. HardOnTime /\ SoftAwake
  BY <1>2, <1>3 DEF HardOnTime, SoftAwake, Kind
<1>9. QED BY <1>6, <1>7, <1>8 DEF TimerIInv

\* An operation that leaves the interrupt and the thread where they are, and
\* puts no timer on a list that is due, but for a hard one with the timeout 0,
\* makes no timer late.
LEMMA NothingDue ==
  ASSUME HardOnTime, SoftAwake, UNCHANGED threadVars,
         \A k \in Kind : \A u \in ToSet(list[k])' :
           \/ u \in ToSet(list[k]) /\ left'[u] = left[u] /\ init'[u] = init[u]
           \/ left'[u] > 0
           \/ k = "hard" /\ left'[u] = 0 /\ init'[u] = 0,
         left' \in [Timers -> -MaxLate .. Half - 1],
         list' \in [Kind -> Seq(Timers)]
  PROVE  HardOnTime' /\ SoftAwake'
<1>1. "hard" \in Kind /\ "soft" \in Kind
  BY DEF Kind
<1>2. \A k \in Kind : \A u \in ToSet(list'[k]) : left'[u] \in Int
  <2>1. \A k \in Kind : \A u \in ToSet(list'[k]) : u \in Timers
    BY InToSet
  <2>2. QED BY <2>1, TickFacts
<1>3. HardOnTime'
  <2>1. ASSUME NEW u \in ToSet(list'["hard"])
        PROVE  /\ left'[u] >= 0 \/ (left'[u] = -1 /\ init'[u] = 0)
               /\ left'[u] <= 0 => inIsr' \/ (left'[u] = 0 /\ init'[u] = 0)
    <3>1. CASE left'[u] > 0
      BY <1>1, <1>2, <3>1
    <3>2. CASE u \in ToSet(list["hard"]) /\ left'[u] = left[u] /\ init'[u] = init[u]
      BY <3>2 DEF HardOnTime, threadVars
    <3>3. CASE left'[u] = 0 /\ init'[u] = 0
      BY <3>3
    <3>4. QED BY <1>1, <3>1, <3>2, <3>3
  <2>2. QED BY <2>1 DEF HardOnTime
<1>4. SoftAwake'
  BY <1>1, <1>2 DEF SoftAwake, threadVars
<1>5. QED BY <1>3, <1>4

\* The same for an operation that takes a timer off.
LEMMA TakenOffInTime ==
  ASSUME TimerIInv, TimersOK', UNCHANGED threadVars, NEW t,
         \A k \in Kind : ToSet(list[k])' = ToSet(list[k]) \ {t},
         \A u \in Timers : u # t => left'[u] = left[u] /\ init'[u] = init[u]
  PROVE  HardOnTime' /\ SoftAwake'
<1>1. list \in [Kind -> Seq(Timers)]
  BY DEF TimerIInv, TimersOK
<1>2. \A k \in Kind : \A u \in ToSet(list'[k]) :
        u \in ToSet(list[k]) /\ left'[u] = left[u] /\ init'[u] = init[u]
  <2>1. \A k \in Kind : \A u \in ToSet(list[k]) : u \in Timers
    BY <1>1, InToSet
  <2>2. QED BY <2>1
<1>3. left' \in [Timers -> -MaxLate .. Half - 1] /\ list' \in [Kind -> Seq(Timers)]
  BY DEF TimersOK
<1>4. QED BY <1>2, <1>3, NothingDue DEF TimerIInv

\* The same for an operation that starts one.
LEMMA StartedInTime ==
  ASSUME TimerIInv, TimersOK', UNCHANGED threadVars, NEW t \in Timers,
         \A k \in Kind : ToSet(list[k])' =
           IF k = KindOf(t) THEN ToSet(list[k]) \cup {t} ELSE ToSet(list[k]),
         \A u \in Timers : u # t => left'[u] = left[u],
         left'[t] = init[t], UNCHANGED init
  PROVE  HardOnTime' /\ SoftAwake'
<1>1. list \in [Kind -> Seq(Timers)] /\ init[t] \in TimesOf(t)
  BY DEF TimerIInv, TimersOK, TimerFlags
<1>2. \A k \in Kind : \A u \in ToSet(list'[k]) :
        \/ u \in ToSet(list[k]) /\ left'[u] = left[u] /\ init'[u] = init[u]
        \/ left'[u] > 0
        \/ k = "hard" /\ left'[u] = 0 /\ init'[u] = 0
  <2>1. \A k \in Kind : \A u \in ToSet(list[k]) : u \in Timers
    BY <1>1, InToSet
  <2>2. \A k \in Kind : \A u \in ToSet(list[k]) : u # t => left'[u] = left[u] /\ init'[u] = init[u]
    BY <2>1
  <2>3. left'[t] > 0 \/ (KindOf(t) = "hard" /\ left'[t] = 0 /\ init'[t] = 0)
    <3>1. init[t] \in Nat /\ (t \in SoftTimers => init[t] # 0)
      BY <1>1, LeftTypes DEF TimesOf
    <3>2. QED BY <3>1 DEF KindOf
  <2>4. ASSUME NEW k \in Kind, NEW u \in ToSet(list'[k])
        PROVE  (u = t /\ k = KindOf(t)) \/ (u \in ToSet(list[k]) /\ u # t)
    <3>1. CASE u # t
      BY <2>4, <3>1
    <3>2. CASE u = t
      <4>1. k = KindOf(t)
        BY <2>4, <3>2, ListedIs DEF TimerIInv
      <4>2. QED BY <3>2, <4>1
    <3>3. QED BY <3>1, <3>2
  <2>5. QED BY <2>2, <2>3, <2>4
<1>3. left' \in [Timers -> -MaxLate .. Half - 1] /\ list' \in [Kind -> Seq(Timers)]
  BY DEF TimersOK
<1>4. QED BY <1>2, <1>3, NothingDue DEF TimerIInv

\* rt_timer_stop, rt_timer_control and rt_timer_detach
LEMMA StopStep ==
  ASSUME TimerIInv, NEW t \in Timers,
         Stop(t) \/ Detach(t) \/ (t \in activated /\ \E n \in TimesOf(t) : SetTime(t, n))
  PROVE  TimerIInv'
<1>1. /\ StopTimer(t) /\ UNCHANGED <<tick, called, threadVars>>
      /\ activated' = activated \ {t} /\ onList' = LeavesTemporary(t)
  BY DEF Stop, Detach, SetTime, StopTimer
<1>2. /\ live' = live \/ live' = live \ {t}
      /\ periodic' = periodic \/ periodic' = periodic \ {t}
      /\ init' \in [Timers -> Times] /\ \A u \in Timers : init'[u] \in TimesOf(u)
      /\ \A u \in Timers : u # t => init'[u] = init[u]
  <2>1. SomeTime \in Times /\ SomeTime \in TimesOf(t)
    BY TimerAssumption DEF SomeTime, TimesOf
  <2>2. init \in [Timers -> Times] /\ \A u \in Timers : init[u] \in TimesOf(u)
    BY DEF TimerIInv, TimerFlags
  <2>3. TimesOf(t) \subseteq Times
    BY DEF TimesOf
  <2>4. init' = init \/ \E n \in TimesOf(t) : init' = [init EXCEPT ![t] = n]
    BY <2>1 DEF Stop, Detach, SetTime
  <2>5. QED BY <2>2, <2>3, <2>4 DEF Stop, Detach, SetTime
<1>3. /\ TimersOK' /\ \A k \in Kind : ToSet(list[k])' = ToSet(list[k]) \ {t}
      /\ \A u \in Timers : u # t => left'[u] = left[u]
  BY <1>1, StopLists DEF TimerIInv
<1>4. HardOnTime' /\ SoftAwake'
  BY <1>1, <1>2, <1>3, TakenOffInTime
<1>5. TimerFlags'
  <2>1. TimerFlags
    BY DEF TimerIInv
  <2>2. /\ onList' \in [Kind -> BOOLEAN]
        /\ \A k \in Kind : onList'[k] <=> onList[k] /\ called[k] # t
    BY <1>1, <2>1 DEF LeavesTemporary, TimerFlags
  <2>3. \A k \in Kind : ToSet(list'[k]) = ToSet(list[k]) \ {t}
    BY <1>3
  <2>4. activated' \subseteq live' /\ periodic' \subseteq Timers /\ live' \subseteq Timers
    BY <1>1, <1>2, <2>1 DEF TimerFlags
  <2>5. \A k \in Kind : /\ ToSet(list'[k]) \subseteq activated'
                        /\ called'[k] # NoTimer => KindOf(called'[k]) = k
                        /\ onList'[k] => called'[k] \in live' \ ToSet(list'[k])
    BY <1>1, <1>2, <2>1, <2>2, <2>3 DEF TimerFlags
  <2>6. QED BY <1>1, <1>2, <2>1, <2>2, <2>4, <2>5 DEF TimerFlags, threadVars
<1>6. QED BY <1>3, <1>4, <1>5 DEF TimerIInv

\* rt_timer_start
LEMMA StartStep ==
  ASSUME TimerIInv, NEW t \in Timers, Start(t)
  PROVE  TimerIInv'
<1>1. /\ StartTimer(t) /\ UNCHANGED <<tick, init, periodic, live, called, threadVars>>
      /\ t \in live /\ activated' = activated \cup {t} /\ onList' = LeavesTemporary(t)
  BY DEF Start, StartTimer
<1>2. TimerFlags
  BY DEF TimerIInv
<1>3. /\ TimersOK'
      /\ \A k \in Kind : ToSet(list[k])' =
           IF k = KindOf(t) THEN ToSet(list[k]) \cup {t} ELSE ToSet(list[k])
      /\ \A u \in Timers : u # t => left'[u] = left[u]
      /\ left'[t] = init[t]
  BY <1>1, <1>2, StartLists DEF TimerIInv, TimerFlags
<1>4. HardOnTime' /\ SoftAwake'
  BY <1>1, <1>3, StartedInTime
<1>5. TimerFlags'
  <2>1. /\ onList' \in [Kind -> BOOLEAN]
        /\ \A k \in Kind : onList'[k] <=> onList[k] /\ called[k] # t
    BY <1>1, <1>2 DEF LeavesTemporary, TimerFlags
  <2>2. \A k \in Kind : \A u \in ToSet(list'[k]) : u \in ToSet(list[k]) \/ u = t
    BY <1>3
  <2>3. \A k \in Kind : /\ ToSet(list'[k]) \subseteq activated'
                        /\ called'[k] # NoTimer => KindOf(called'[k]) = k
                        /\ onList'[k] => called'[k] \in live' \ ToSet(list'[k])
    BY <1>1, <1>2, <2>1, <2>2 DEF TimerFlags
  <2>4. QED BY <1>1, <1>2, <2>1, <2>3 DEF TimerFlags, threadVars
<1>6. QED BY <1>3, <1>4, <1>5 DEF TimerIInv

\* What the calls do that leave the lists alone.
LEMMA SettingStep ==
  ASSUME TimerIInv, NEW t \in Timers,
         \/ \E n \in TimesOf(t), p \in BOOLEAN : Create(t, n, p)
         \/ \E p \in BOOLEAN : SetMode(t, p)
         \/ t \notin activated /\ \E n \in TimesOf(t) : SetTime(t, n)
  PROVE  TimerIInv'
<1>1. UNCHANGED <<tick, list, timeout, left, activated, checkVars, threadVars>>
  BY DEF Create, SetMode, SetTime, checkVars, threadVars
<1>2. /\ live' = live \/ live' = live \cup {t}
      /\ periodic' \subseteq periodic \cup {t}
      /\ init' \in [Timers -> Times] /\ \A u \in Timers : init'[u] \in TimesOf(u)
      /\ \A u \in Timers : u # t => init'[u] = init[u]
  <2>1. init \in [Timers -> Times] /\ \A u \in Timers : init[u] \in TimesOf(u)
    BY DEF TimerIInv, TimerFlags
  <2>2. TimesOf(t) \subseteq Times
    BY DEF TimesOf
  <2>3. init' = init \/ \E n \in TimesOf(t) : init' = [init EXCEPT ![t] = n]
    BY DEF Create, SetMode, SetTime
  <2>4. QED BY <2>1, <2>2, <2>3 DEF Create, SetMode, SetTime, TimerIInv, TimerFlags
<1>3. TimersOK' /\ SoftAwake'
  BY <1>1 DEF TimerIInv, TimersOK, SoftAwake, threadVars
<1>4. HardOnTime'
  <2>1. t \notin activated \/ UNCHANGED init
    BY DEF Create, SetMode, SetTime, TimerIInv, TimerFlags
  <2>2. ToSet(list["hard"]) \subseteq activated /\ "hard" \in Kind /\ list \in [Kind -> Seq(Timers)]
    BY DEF TimerIInv, TimerFlags, TimersOK, Kind
  <2>3. \A u \in ToSet(list["hard"]) : u \in Timers
    BY <2>2, InToSet
  <2>4. \A u \in ToSet(list["hard"]) : init'[u] = init[u]
    BY <1>2, <2>1, <2>2, <2>3
  <2>5. QED BY <1>1, <2>4 DEF TimerIInv, HardOnTime, threadVars
<1>5. TimerFlags'
  BY <1>1, <1>2 DEF TimerIInv, TimerFlags, threadVars, checkVars
<1>6. QED BY <1>3, <1>4, <1>5 DEF TimerIInv

\* A timer is called.
LEMMA ExpireStep ==
  ASSUME TimerIInv, NEW k \in Kind, Expire(k)
  PROVE  TimerIInv'
<1> DEFINE t == Head(list[k])
<1>1. TimersOK /\ TimerFlags
  BY DEF TimerIInv
<1>2. /\ TimersOK' /\ t \in Timers /\ t \in ToSet(list[k]) /\ KindOf(t) = k
      /\ \A m \in Kind : ToSet(list[m])' = ToSet(list[m]) \ {t}
      /\ \A u \in Timers : u # t => left'[u] = left[u]
  BY <1>1, ExpireLists
<1>3. /\ called' = [called EXCEPT ![k] = t] /\ onList' = [onList EXCEPT ![k] = TRUE]
      /\ activated' = activated \/ (activated' = activated \ {t})
      /\ UNCHANGED <<init, periodic, live, threadVars>>
  BY DEF Expire
<1> HIDE DEF t
<1>4. HardOnTime' /\ SoftAwake'
  BY <1>2, <1>3, TakenOffInTime
<1>5. TimerFlags'
  <2>1. t \in activated /\ t \in live
    BY <1>1, <1>2 DEF TimerFlags
  <2>2. \A m \in Kind : ToSet(list'[m]) = ToSet(list[m]) \ {t}
    BY <1>2
  <2>3. /\ called' \in [Kind -> Timers \cup {NoTimer}] /\ onList' \in [Kind -> BOOLEAN]
        /\ called'[k] = t /\ \A m \in Kind : m # k => called'[m] = called[m] /\ onList'[m] = onList[m]
    BY <1>1, <1>2, <1>3 DEF TimerFlags
  <2>4. \A m \in Kind : /\ ToSet(list'[m]) \subseteq activated'
                        /\ called'[m] # NoTimer => KindOf(called'[m]) = m
                        /\ onList'[m] => called'[m] \in live' \ ToSet(list'[m])
    <3>1. ASSUME NEW m \in Kind PROVE ToSet(list'[m]) \subseteq activated'
      BY <1>1, <1>3, <2>2 DEF TimerFlags
    <3>2. ASSUME NEW m \in Kind, m = k
          PROVE  /\ called'[m] # NoTimer => KindOf(called'[m]) = m
                 /\ onList'[m] => called'[m] \in live' \ ToSet(list'[m])
      BY <1>2, <1>3, <2>1, <2>2, <2>3, <3>2
    <3>3. ASSUME NEW m \in Kind, m # k
          PROVE  /\ called'[m] # NoTimer => KindOf(called'[m]) = m
                 /\ onList'[m] => called'[m] \in live' \ ToSet(list'[m])
      BY <1>1, <1>3, <2>2, <2>3, <3>3 DEF TimerFlags
    <3>4. QED BY <3>1, <3>2, <3>3
  <2>5. activated' \subseteq live'
    BY <1>1, <1>3 DEF TimerFlags
  <2>6. QED BY <1>1, <1>3, <2>3, <2>4, <2>5 DEF TimerFlags, threadVars
<1>6. QED BY <1>2, <1>4, <1>5 DEF TimerIInv

\* A callback returns.  A periodic timer that is still on the temporary list is
\* started again; it is on no other.
LEMMA ReturnStep ==
  ASSUME TimerIInv, NEW k \in Kind, CallbackReturns(k)
  PROVE  TimerIInv'
<1> DEFINE t == called[k]
<1>1. TimersOK /\ TimerFlags
  BY DEF TimerIInv
<1>2. /\ called[k] # NoTimer
      /\ called' = [called EXCEPT ![k] = NoTimer] /\ onList' = [onList EXCEPT ![k] = FALSE]
      /\ UNCHANGED <<tick, init, periodic, live, threadVars>>
  BY DEF CallbackReturns, InCallback
<1>3. t \in Timers /\ KindOf(t) = k
  BY <1>1, <1>2 DEF TimerFlags
<1>4. /\ called' \in [Kind -> Timers \cup {NoTimer}] /\ onList' \in [Kind -> BOOLEAN]
      /\ called'[k] = NoTimer /\ ~ onList'[k]
      /\ \A m \in Kind : m # k => called'[m] = called[m] /\ onList'[m] = onList[m]
  BY <1>1, <1>2 DEF TimerFlags
<1>5. CASE onList[k] /\ t \in periodic \cap activated
  <2>1. StartTimer(t) /\ activated' = activated \cup {t} /\ t \in live
    BY <1>1, <1>5 DEF CallbackReturns, StartTimer, TimerFlags
  <2>2. /\ TimersOK'
        /\ \A m \in Kind : ToSet(list[m])' =
             IF m = KindOf(t) THEN ToSet(list[m]) \cup {t} ELSE ToSet(list[m])
        /\ \A u \in Timers : u # t => left'[u] = left[u]
        /\ left'[t] = init[t]
    BY <1>1, <1>2, <1>3, <2>1, StartLists DEF TimerFlags
  <2> HIDE DEF t
  <2>3. HardOnTime' /\ SoftAwake'
    BY <1>2, <1>3, <2>2, StartedInTime
  <2>4. \A m \in Kind : /\ ToSet(list'[m]) \subseteq activated'
                        /\ called'[m] # NoTimer => KindOf(called'[m]) = m
                        /\ onList'[m] => called'[m] \in live' \ ToSet(list'[m])
    <3>1. \A m \in Kind : ToSet(list'[m]) = IF m = k THEN ToSet(list[m]) \cup {t} ELSE ToSet(list[m])
      BY <1>3, <2>2
    <3>2. QED BY <1>1, <1>2, <1>4, <2>1, <3>1 DEF TimerFlags
  <2>5. TimerFlags'
    BY <1>1, <1>2, <1>4, <2>1, <2>4 DEF TimerFlags, threadVars
  <2>6. QED BY <2>2, <2>3, <2>5 DEF TimerIInv
<1>6. CASE ~ (onList[k] /\ t \in periodic \cap activated)
  <2>1. UNCHANGED <<list, timeout, activated, left>>
    BY <1>6 DEF CallbackReturns
  <2> HIDE DEF t
  <2>2. TimersOK' /\ HardOnTime' /\ SoftAwake'
    BY <1>2, <2>1 DEF TimerIInv, TimersOK, HardOnTime, SoftAwake, threadVars
  <2>3. TimerFlags'
    BY <1>1, <1>2, <1>4, <2>1 DEF TimerFlags, threadVars
  <2>4. QED BY <2>2, <2>3 DEF TimerIInv
<1>7. QED BY <1>5, <1>6

\* A timer that is not due at the head of its list means that none is.
LEMMA NoneDue ==
  ASSUME TimersOK, NEW k \in Kind, ~HeadExpired(k), NEW t \in ToSet(list[k])
  PROVE  left[t] > 0
<1>1. /\ list[k] \in Seq(Timers) /\ timeout \in [Timers -> Ticks] /\ tick \in Ticks
      /\ TimerListOK(k, list[k], timeout, left, tick)
  BY DEF TimersOK
<1>2. list[k] # <<>>
  BY <1>1, EmptyToSet
<1>3. /\ left[Head(list[k])] \in Int /\ left[t] \in Int /\ left[Head(list[k])] <= left[t]
      /\ ~ (left[Head(list[k])] <= 0)
  BY <1>1, <1>2, HeadIsFirst DEF HeadExpired, Expired
<1>4. QED BY <1>3

\* The ticks left of a timer in a list are a number.
LEMMA LeftInt ==
  ASSUME TimersOK, NEW k \in Kind, NEW t \in ToSet(list[k])
  PROVE  t \in Timers /\ left[t] \in Int
<1>1. list[k] \in Seq(Timers) /\ left \in [Timers -> -MaxLate .. Half - 1]
  BY DEF TimersOK
<1>2. t \in Timers
  BY <1>1, InToSet
<1>3. QED BY <1>1, <1>2, TickFacts

\* The interrupt returns, or the thread goes on from its loop to its semaphore
\* and from there to sleep or to its loop.
LEMMA LoopStep ==
  ASSUME TimerIInv, TickReturn \/ CheckEnds \/ TakeSem
  PROVE  TimerIInv'
<1>1. TimersOK /\ TimerFlags /\ HardOnTime /\ SoftAwake /\ "hard" \in Kind /\ "soft" \in Kind
  BY DEF TimerIInv, Kind
<1>2. UNCHANGED <<tick, list, timeout, init, activated, periodic, live, called, onList, left>>
  BY DEF TickReturn, CheckEnds, TakeSem, flags, checkVars
<1>3. TimersOK'
  BY <1>1, <1>2 DEF TimersOK
<1>4. inIsr' \in BOOLEAN /\ tpc' \in {"check", "take", "wait"} /\ sem' \in {0, 1}
  BY <1>1 DEF TickReturn, CheckEnds, TakeSem, TimerFlags
<1>5. TimerFlags'
  BY <1>1, <1>2, <1>4 DEF TimerFlags
<1>6. HardOnTime'
  <2>1. CASE TickReturn
    <3>1. \A t \in ToSet(list["hard"]) : left[t] > 0
      BY <1>1, <2>1, NoneDue DEF TickReturn
    <3>2. \A t \in ToSet(list["hard"]) : left[t] \in Int
      BY <1>1, LeftInt
    <3>3. QED BY <1>2, <3>1, <3>2 DEF HardOnTime
  <2>2. CASE CheckEnds \/ TakeSem
    BY <1>1, <1>2, <2>2 DEF HardOnTime, CheckEnds, TakeSem
  <2>3. QED BY <2>1, <2>2
<1>7. SoftAwake'
  <2>1. CASE TickReturn
    BY <1>1, <1>2, <2>1 DEF SoftAwake, TickReturn
  <2>2. CASE CheckEnds
    <3>1. \A t \in ToSet(list["soft"]) : left[t] > 0
      BY <1>1, <2>2, NoneDue DEF CheckEnds
    <3>2. \A t \in ToSet(list["soft"]) : left[t] \in Int
      BY <1>1, LeftInt
    <3>3. QED BY <1>2, <3>1, <3>2 DEF SoftAwake
  <2>3. CASE TakeSem
    BY <1>1, <1>2, <2>3 DEF SoftAwake, TakeSem
  <2>4. QED BY <2>1, <2>2, <2>3
<1>8. QED BY <1>3, <1>5, <1>6, <1>7 DEF TimerIInv

\* The tick interrupt.  The first soft timer that comes due has the number of
\* this tick for its timeout, and a thread that looks at it or will look.
LEMMA InterruptStep ==
  ASSUME TimerIInv, TickInterrupt
  PROVE  TimerIInv'
<1>1. TimersOK /\ TimerFlags /\ HardOnTime /\ SoftAwake /\ "hard" \in Kind /\ "soft" \in Kind
  BY DEF TimerIInv, Kind
<1>2. /\ ~ inIsr /\ inIsr'
      /\ tick' = (tick + 1) % TickCount
      /\ left' = [t \in Timers |-> IF Listed(t) THEN left[t] - 1 ELSE left[t]]
      /\ UNCHANGED <<list, timeout, init, activated, periodic, live, called, onList>>
  BY DEF TickInterrupt, TickCount, flags, checkVars
<1>3. /\ list \in [Kind -> Seq(Timers)] /\ timeout \in [Timers -> Ticks]
      /\ left \in [Timers -> -MaxLate .. Half - 1] /\ tick \in Ticks
      /\ \A k \in Kind : TimerListOK(k, list[k], timeout, left, tick)
  BY <1>1 DEF TimersOK
<1>4. \A k \in Kind : \A t \in ToSet(list[k]) :
        /\ t \in Timers /\ KindOf(t) = k /\ Listed(t)
        /\ left'[t] = left[t] - 1 /\ left[t] \in Int
  <2>1. \A k \in Kind : \A t \in ToSet(list[k]) : t \in Timers
    BY <1>3, InToSet
  <2>2. \A k \in Kind : \A t \in ToSet(list[k]) : KindOf(t) = k /\ Listed(t)
    BY <1>1, <2>1, ListedIs
  <2>3. \A t \in Timers : left[t] \in Int
    BY <1>3, TickFacts
  <2>4. QED BY <1>2, <2>1, <2>2, <2>3
<1>5. \A t \in ToSet(list["hard"]) : left[t] > 0 \/ (left[t] = 0 /\ init[t] = 0)
  <2>1. \A t \in ToSet(list["hard"]) : left[t] \in Int
    BY <1>1, <1>4
  <2>2. QED BY <1>1, <1>2, <2>1 DEF HardOnTime
<1>6. \A k \in Kind : \A t \in ToSet(list[k]) : left[t] > -MaxLate
  <2>1. \A t \in ToSet(list["soft"]) : left[t] > -MaxLate
    <3>1. \A t \in Timers : KindOf(t) = "soft" => t \in SoftTimers
      BY DEF KindOf
    <3>2. \A t \in SoftTimers : Listed(t) => left[t] > -MaxLate
      BY DEF TickInterrupt
    <3>3. QED BY <1>1, <1>4, <3>1, <3>2
  <2>2. \A t \in ToSet(list["hard"]) : left[t] > -MaxLate
    BY <1>1, <1>4, <1>5, TickFacts
  <2>3. QED BY <2>1, <2>2 DEF Kind
<1>7. \A k \in Kind : TimerListOK(k, list[k], timeout, left', tick')
  <2>1. ASSUME NEW k \in Kind PROVE TimerListOK(k, list[k], timeout, left', tick')
    <3>1. \A t \in ToSet(list[k]) : left[t] > -MaxLate /\ left'[t] = left[t] - 1
      BY <1>4, <1>6
    <3>2. QED BY <1>2, <1>3, <3>1, TimerListTicks
  <2>2. QED BY <2>1
<1>8. tick' \in Ticks
  BY <1>2, <1>3, TickFacts
<1>9. left' \in [Timers -> -MaxLate .. Half - 1]
  <2>1. ASSUME NEW t \in Timers PROVE left'[t] \in -MaxLate .. Half - 1
    <3>1. CASE Listed(t)
      <4>1. left[t] > -MaxLate /\ left'[t] = left[t] - 1
        BY <1>1, <1>4, <1>6, <3>1, ListedIs
      <4>2. left[t] \in -MaxLate .. Half - 1
        BY <1>3
      <4>3. QED BY <4>1, <4>2, TickFacts
    <3>2. CASE ~Listed(t)
      BY <1>2, <1>3, <3>2
    <3>3. QED BY <3>1, <3>2
  <2>2. QED BY <1>2, <2>1
<1>10. TimersOK'
  BY <1>2, <1>3, <1>7, <1>8, <1>9 DEF TimersOK
<1>11. HardOnTime'
  <2>1. \A t \in ToSet(list'["hard"]) :
          left'[t] >= 0 \/ (left'[t] = -1 /\ init'[t] = 0)
    BY <1>1, <1>2, <1>4, <1>5
  <2>2. QED BY <1>2, <2>1 DEF HardOnTime
<1> DEFINE q == list["soft"]
           wakes == q # <<>> /\ timeout[Head(q)] <= tick'
<1>12. /\ wakes => tpc' = "check" \/ sem' = 1
       /\ tpc = "check" \/ sem = 1 => tpc' = "check" \/ sem' = 1
       /\ tpc' \in {tpc, "check"} /\ sem' \in {sem, 1}
  BY DEF TickInterrupt, WakeThread
<1>13. SoftAwake'
  <2>1. SUFFICES ASSUME NEW t \in ToSet(q), left'[t] <= 0
                 PROVE  tpc' = "check" \/ sem' = 1
    BY <1>2 DEF SoftAwake
  <2> DEFINE h == Head(q)
  <2>2. q \in Seq(Timers) /\ q # <<>>
    BY <1>1, <1>3, EmptyToSet
  <2>3. /\ h \in ToSet(q) /\ left'[h] \in Int /\ left'[t] \in Int /\ left'[h] <= left'[t]
        /\ left'[h] = 0 => timeout[h] = tick'
    <3>1. \A k \in Kind : k = "soft" => TimerListOK(k, q, timeout, left', tick')
      BY <1>7
    <3>2. TimerListOK("soft", q, timeout', left', tick')
      BY <1>1, <1>2, <3>1
    <3>3. timeout' \in [Timers -> Ticks]
      BY <1>2, <1>3
    <3> HIDE DEF q
    <3>4. /\ Head(q) \in ToSet(q)
          /\ \A u \in ToSet(q) : left'[Head(q)] \in Int /\ left'[u] \in Int
                                 /\ left'[Head(q)] <= left'[u]
          /\ left'[Head(q)] = 0 => timeout'[Head(q)] = tick'
      <4>1. PICK to : to = timeout'
        OBVIOUS
      <4>2. PICK lf : lf = left'
        OBVIOUS
      <4>3. PICK now : now = tick'
        OBVIOUS
      <4>4. TimerListOK("soft", q, to, lf, now) /\ to \in [Timers -> Ticks] /\ now \in Ticks
        BY <1>8, <3>2, <3>3, <4>1, <4>2, <4>3
      <4>5. /\ Head(q) \in ToSet(q)
            /\ \A u \in ToSet(q) : lf[Head(q)] \in Int /\ lf[u] \in Int
                                   /\ lf[Head(q)] <= lf[u]
            /\ lf[Head(q)] = 0 => to[Head(q)] = now
        BY ONLY <2>2, <4>4, HeadIsFirst
      <4>6. QED BY <4>1, <4>2, <4>3, <4>5
    <3>5. timeout' = timeout
      BY <1>2
    <3>6. QED BY <2>1, <3>4, <3>5
  <2> HIDE DEF h, q
  <2>4. CASE left'[h] = 0
    <3>1. timeout[h] <= tick'
      BY <1>8, <2>3, <2>4, TickFacts
    <3>2. QED BY <1>12, <2>2, <3>1 DEF h
  <2>5. CASE left'[h] # 0
    <3>1. left[h] <= 0
      BY <1>1, <1>4, <2>1, <2>3, <2>5 DEF q
    <3>2. tpc = "check" \/ sem = 1
      BY <1>1, <2>3, <3>1 DEF SoftAwake, q
    <3>3. QED BY <1>12, <3>2
  <2>6. QED BY <2>4, <2>5
<1>14. TimerFlags'
  BY <1>1, <1>2, <1>12 DEF TimerFlags
<1>15. QED BY <1>10, <1>11, <1>13, <1>14 DEF TimerIInv

\* Every step keeps the invariant of the timers.
LEMMA NextTimers == TimerIInv /\ [TimerNext]_timerVars => TimerIInv'
<1> SUFFICES ASSUME TimerIInv, [TimerNext]_timerVars PROVE TimerIInv'
  OBVIOUS
<1>1. CASE TickInterrupt
  BY <1>1, InterruptStep
<1>2. CASE TickReturn \/ CheckEnds \/ TakeSem
  BY <1>2, LoopStep
<1>3. ASSUME NEW k \in Kind, Expire(k) \/ CallbackReturns(k) PROVE TimerIInv'
  BY <1>3, ExpireStep, ReturnStep
<1>4. ASSUME NEW t \in Timers, Start(t) PROVE TimerIInv'
  BY <1>4, StartStep
<1>5. ASSUME NEW t \in Timers, Stop(t) \/ Detach(t) PROVE TimerIInv'
  BY <1>5, StopStep
<1>6. ASSUME NEW t \in Timers, NEW n \in TimesOf(t), SetTime(t, n) PROVE TimerIInv'
  <2>1. CASE t \in activated
    BY <1>6, <2>1, StopStep
  <2>2. CASE t \notin activated
    BY <1>6, <2>2, SettingStep
  <2>3. QED BY <2>1, <2>2
<1>7. ASSUME NEW t \in Timers, NEW n \in TimesOf(t), NEW p \in BOOLEAN, Create(t, n, p)
      PROVE  TimerIInv'
  BY <1>7, SettingStep
<1>8. ASSUME NEW t \in Timers, NEW p \in BOOLEAN, SetMode(t, p) PROVE TimerIInv'
  BY <1>8, SettingStep
<1>9. CASE UNCHANGED timerVars
  BY <1>9 DEF timerVars, flags, checkVars, threadVars, TimerIInv, TimersOK, TimerFlags,
              HardOnTime, SoftAwake
<1>10. QED BY <1>1, <1>2, <1>3, <1>4, <1>5, <1>6, <1>7, <1>8, <1>9 DEF TimerNext

\* The invariant says what TimerInv says.
LEMMA TimersGiveInv == TimerIInv => TimerInv
<1> SUFFICES ASSUME TimerIInv PROVE TimerInv
  OBVIOUS
<1>1. TimersOK /\ TimerFlags /\ HardOnTime /\ SoftAwake
  BY DEF TimerIInv
<1>2. ASSUME NEW k \in Kind
      PROVE  \A i \in DOMAIN list[k] :
               /\ KindOf(list[k][i]) = k /\ list[k][i] \in activated
               /\ \A j \in DOMAIN list[k] : list[k][i] = list[k][j] => i = j
  <2> DEFINE q == list[k]
  <2>1. /\ q \in Seq(Timers) /\ IsInjective(q) /\ ToSet(q) \subseteq activated
        /\ \A t \in ToSet(q) : KindOf(t) = k
    BY <1>1 DEF TimersOK, TimerListOK, TimerFlags
  <2> HIDE DEF q
  <2>2. DOMAIN q = 1 .. Len(q) /\ \A i \in 1 .. Len(q) : q[i] \in ToSet(q)
    BY <2>1, InToSet, LenProperties
  <2>3. \A i, j \in 1 .. Len(q) : q[i] = q[j] => i = j
    BY <2>1, InjectiveSeq
  <2>4. \A i \in DOMAIN q : /\ KindOf(q[i]) = k /\ q[i] \in activated
                            /\ \A j \in DOMAIN q : q[i] = q[j] => i = j
    BY <2>1, <2>2, <2>3
  <2>5. QED BY <2>4 DEF q
<1>3. ASSUME NEW k \in Kind, onList[k] PROVE called[k] \in live /\ ~Listed(called[k])
  <2>1. called[k] \in live /\ called[k] \notin ToSet(list[k]) /\ called[k] \in Timers
    BY <1>1, <1>3 DEF TimerFlags
  <2>2. KindOf(called[k]) = k
    BY <1>1, <2>1, TimerAssumption DEF TimerFlags
  <2>3. QED BY <1>1, <2>1, <2>2, ListedIs
<1>4. TimerTypeOK
  BY <1>1, <1>2, <1>3 DEF TimerTypeOK, TimersOK, TimerFlags
<1>5. DueIsServed
  <2>1. SUFFICES ASSUME NEW t \in Timers, Listed(t), left[t] <= 0
                 PROVE  IF t \in SoftTimers THEN tpc # "wait" \/ sem = 1
                        ELSE inIsr \/ (left[t] = 0 /\ init[t] = 0)
    BY DEF DueIsServed
  <2>2. t \in ToSet(list[KindOf(t)]) /\ left[t] \in Int
    BY <1>1, <2>1, ListedIs, TickFacts DEF TimersOK
  <2>3. CASE t \in SoftTimers
    BY <1>1, <2>1, <2>2, <2>3 DEF SoftAwake, KindOf
  <2>4. CASE t \notin SoftTimers
    BY <1>1, <2>1, <2>2, <2>4 DEF HardOnTime, KindOf
  <2>5. QED BY <2>3, <2>4
<1>6. QED BY <1>4, <1>5 DEF TimerInv

\* The lists of timers hold live, active timers, each once and in its list, and
\* no timer that is due is left behind: the interrupt calls every hard timer
\* before it returns, one that was started with the timeout 0 after it in its
\* next run, and the thread "timer" does not sleep over a soft one, which waits
\* for a tick at least (rt_timer_check, _timer_check), however the counter wraps.
THEOREM TimersServed == TimerSpec => []TimerInv
BY InitTimers, NextTimers, TimersGiveInv, PTL DEF TimerSpec

\* A timer is called when its time has come and not before, and a hard timer in
\* that very tick, or with the timeout 0 in the next.
LEMMA CalledOnTime ==
  ASSUME TimerIInv, [TimerNext]_timerVars, NEW t \in Timers, NEW k \in Kind,
         called'[k] = t, called[k] # t
  PROVE  left[t] <= 0 /\ (k = "hard" => left[t] = 0 \/ (left[t] = -1 /\ init[t] = 0))
<1>1. TimersOK /\ TimerFlags /\ HardOnTime /\ t # NoTimer
  BY TimerAssumption DEF TimerIInv
<1>2. called \in [Kind -> Timers \cup {NoTimer}]
  BY <1>1 DEF TimerFlags
<1>3. PICK m \in Kind : Expire(m) \/ CallbackReturns(m)
  BY DEF TimerNext, TickInterrupt, TickReturn, CheckEnds, TakeSem, Start, Stop, Detach,
         SetTime, Create, SetMode, timerVars, checkVars
<1>4. ~ CallbackReturns(m)
  BY <1>1, <1>2 DEF CallbackReturns
<1>5. m = k /\ t = Head(list[k]) /\ Expire(k)
  BY <1>2, <1>3, <1>4 DEF Expire
<1>6. left[t] <= 0 /\ t \in ToSet(list[k])
  BY <1>1, <1>5, ExpireLists
<1>7. left[t] \in Int
  BY <1>1, TickFacts DEF TimersOK
<1>8. QED BY <1>1, <1>6, <1>7 DEF HardOnTime

\* "Timer callbacks are invoked at the expected tick count" (timer_tc.c): a hard
\* timer in the very tick, or in the next if a thread gave it the timeout 0.
THEOREM TimersOnTime == TimerSpec => OnTime
<1>1. TimerIInv /\ [TimerNext]_timerVars =>
        [\A t \in Timers, k \in Kind :
           called'[k] = t /\ called[k] # t =>
             /\ left[t] <= 0
             /\ k = "hard" => left[t] = 0 \/ (left[t] = -1 /\ init[t] = 0)]_timerVars
  BY CalledOnTime
<1>2. QED BY <1>1, InitTimers, NextTimers, PTL DEF TimerSpec, OnTime

\* Nothing but its call or a call of the program takes a timer off its list.
LEMMA LeavesOnlyCalled ==
  ASSUME TimerIInv, [TimerNext]_timerVars, NEW t \in Timers, Listed(t), ~Listed(t)'
  PROVE  \/ called'[KindOf(t)] = t /\ called[KindOf(t)] # t
         \/ t \notin activated'
<1>1. TimersOK /\ TimerFlags /\ TimersOK' /\ KindOf(t) \in Kind
  BY NextTimers, ListedIs DEF TimerIInv
<1>2. t \in ToSet(list[KindOf(t)]) /\ ~ (t \in ToSet(list[KindOf(t)]))'
  <2> DEFINE q == list'[KindOf(t)]
  <2>1. q \in Seq(Timers)
    BY <1>1 DEF TimersOK
  <2>2. ~ \E i \in DOMAIN q : q[i] = t
    BY DEF Listed, KindOf
  <2> HIDE DEF q
  <2>3. t \notin ToSet(q)
    BY <2>1, <2>2, InToSet, LenProperties
  <2>4. QED BY <1>1, <2>3, ListedIs DEF q, KindOf
<1>3. list' # list
  BY <1>2 DEF KindOf
<1>4. CASE \E k \in Kind : Expire(k)
  <2>1. PICK k \in Kind : Expire(k)
    BY <1>4
  <2>2. /\ \A m \in Kind : ToSet(list[m])' = ToSet(list[m]) \ {Head(list[k])}
        /\ KindOf(Head(list[k])) = k
    BY <1>1, <2>1, ExpireLists
  <2>3. t = Head(list[k]) /\ KindOf(t) = k
    BY <1>1, <1>2, <2>2 DEF KindOf
  <2>4. called'[k] = t /\ called[k] = NoTimer
    BY <1>1, <2>1, <2>3 DEF Expire, InLoop, TimerFlags
  <2>5. QED BY <2>3, <2>4, TimerAssumption
<1>5. CASE \E u \in Timers : StopTimer(u)
  <2>1. PICK u \in Timers : StopTimer(u)
    BY <1>5
  <2>2. list' = [list EXCEPT ![KindOf(u)] = RemoveFirst(@, u)] /\ activated' = activated \ {u}
    BY <2>1 DEF StopTimer, Removed
  <2>3. u = t
    <3>1. list[KindOf(t)] \in Seq(Timers) /\ IsInjective(list[KindOf(t)])
      BY <1>1 DEF TimersOK, TimerListOK
    <3>2. list'[KindOf(t)] = list[KindOf(t)] \/ list'[KindOf(t)] = RemoveFirst(list[KindOf(t)], u)
      BY <1>1, <2>2 DEF TimersOK
    <3>3. ToSet(RemoveFirst(list[KindOf(t)], u)) = ToSet(list[KindOf(t)]) \ {u}
      BY <3>1, RemovedSeq
    <3>4. t \notin ToSet(list'[KindOf(t)])
      BY <1>2 DEF KindOf
    <3>5. QED BY <1>2, <3>2, <3>3, <3>4
  <2>4. QED BY <2>2, <2>3
<1>6. CASE \E u \in Timers : StartTimer(u) /\ UNCHANGED tick /\ init[u] \in Times
  <2>1. PICK u \in Timers : StartTimer(u) /\ UNCHANGED tick /\ init[u] \in Times
    BY <1>6
  <2>2. \A k \in Kind : ToSet(list[k]) \subseteq ToSet(list'[k])
    BY <1>1, <2>1, StartLists
  <2>3. t \notin ToSet(list'[KindOf(t)])
    BY <1>2 DEF KindOf
  <2>4. QED BY <1>1, <1>2, <2>2, <2>3
<1>7. init \in [Timers -> Times]
  BY <1>1 DEF TimerFlags
<1>8. \/ \E k \in Kind : Expire(k) \/ CallbackReturns(k)
      \/ \E u \in Timers : Start(u) \/ Stop(u) \/ Detach(u) \/ \E n \in TimesOf(u) : SetTime(u, n)
  BY <1>3 DEF TimerNext, TickInterrupt, TickReturn, CheckEnds, TakeSem, Create, SetMode, timerVars
<1>9. ASSUME NEW u \in Timers, Start(u) PROVE StartTimer(u) /\ UNCHANGED tick /\ init[u] \in Times
  BY <1>7, <1>9 DEF Start
<1>10. ASSUME NEW u \in Timers, Stop(u) \/ Detach(u) \/ \E n \in TimesOf(u) : SetTime(u, n)
       PROVE  StopTimer(u)
  BY <1>3, <1>10 DEF Stop, Detach, SetTime
<1>11. ASSUME NEW k \in Kind, CallbackReturns(k)
       PROVE  \E u \in Timers : StartTimer(u) /\ UNCHANGED tick /\ init[u] \in Times
  <2>1. onList[k] /\ StartTimer(called[k]) /\ UNCHANGED tick
    BY <1>3, <1>11 DEF CallbackReturns
  <2>2. called[k] \in Timers
    BY <1>1, <2>1 DEF TimerFlags
  <2>3. QED BY <1>7, <2>1, <2>2
<1>12. QED BY <1>4, <1>5, <1>6, <1>8, <1>9, <1>10, <1>11

\* A timer that was started again in its callback stays on its list: what
\* _timer_check does after the callback does not take it off.
THEOREM TimersNeverLost == TimerSpec => NeverLost
<1>1. TimerIInv /\ [TimerNext]_timerVars =>
        [\A t \in Timers :
           Listed(t) /\ ~Listed(t)' =>
             \/ called'[KindOf(t)] = t /\ called[KindOf(t)] # t
             \/ t \notin activated']_timerVars
  BY LeavesOnlyCalled
<1>2. QED BY <1>1, InitTimers, NextTimers, PTL DEF TimerSpec, NeverLost
=============================================================================
