-------------------------- MODULE MessageQueueProofs --------------------------
(***************************************************************************)
(* Proofs about the message queue, for any finite number of threads and    *)
(* any number of blocks: no block is lost or in two places, no lost        *)
(* wake-up, and that it implements a bounded queue.                        *)
(*                                                                         *)
(* The free list and the queue are what the links lead through.  The       *)
(* invariant names them: there are sequences fq and hq of blocks, and a    *)
(* set W of blocks that threads copy to or from, that share nothing and    *)
(* leave nothing out (ListsAre).  One lemma for each change of the lists   *)
(* says which sequences it makes of fq and hq (PopLists ... RequeueLists), *)
(* three say what that makes of the messages in the queue (WordsLast,      *)
(* WordsFirst, WordsTail), and the waits are those of any object with two  *)
(* wait lists (KWaitProofs).                                               *)
(***************************************************************************)
EXTENDS MessageQueue, KWaitProofs, SequenceTheorems, FiniteSetTheorems
-----------------------------------------------------------------------------
(* Linked lists                                                            *)

\* The i-th of a list of blocks, and Null before its first and behind its last
Nth(q, i) == IF i \in 1 .. Len(q) THEN q[i] ELSE Null

\* q is what the links f lead through from b on.
IsList(f, b, q) ==
  /\ q \in Seq(Blocks)
  /\ IsInjective(q)
  /\ b = Nth(q, 1)
  /\ \A i \in 1 .. Len(q) : f[q[i]] = Nth(q, i + 1)

Links == [Blocks -> Blocks \cup {Null}]

\* Walk and Chain for any links
WalkOf(f, b) ==
  LET at[i \in 1 .. MaxMsgs + 1] ==
        IF i = 1 THEN b ELSE IF at[i - 1] = Null THEN Null ELSE f[at[i - 1]]
  IN  at

ChainOf(f, b) ==
  LET w == WalkOf(f, b)
  IN  [i \in 1 .. Cardinality({j \in 1 .. MaxMsgs + 1 : w[j] # Null}) |-> w[i]]

\* Chain reads the links that the state holds.
LEMMA ChainIsChainOf == \A b : Chain(b) = ChainOf(next, b)
BY DEF Chain, ChainOf, Walk, WalkOf

\* There is a block, and RT_NULL is none.
LEMMA Blocks0 == MaxMsgs \in Nat \ {0} /\ Null \notin Blocks
<1>1. IsFiniteSet(Blocks) /\ Blocks # {} /\ Null \notin Blocks
  BY MessageQueueAssumption
<1>2. Cardinality(Blocks) \in Nat /\ Cardinality(Blocks) # 0
  BY <1>1, FS_CardinalityType, FS_EmptySet
<1>3. QED BY <1>1, <1>2 DEF MaxMsgs

\* Blocks that stand on a list once are not more than there are.
LEMMA ListLength ==
  ASSUME NEW q \in Seq(Blocks), IsInjective(q)
  PROVE  Len(q) \in 0 .. MaxMsgs
<1>1. Len(q) \in Nat /\ q \in [1 .. Len(q) -> Blocks]
  BY LenProperties
<1>2. q \in Injection(1 .. Len(q), Blocks)
  BY <1>1 DEF Injection
<1>3. Cardinality(1 .. Len(q)) <= Cardinality(Blocks)
  BY <1>2, MessageQueueAssumption, FS_Injection
<1>4. Cardinality(1 .. Len(q)) = Len(q)
  BY <1>1, FS_Interval
<1>5. QED BY <1>1, <1>3, <1>4, Blocks0 DEF MaxMsgs

\* The walk along a list goes through its blocks and then stays at Null.
LEMMA WalkIs ==
  ASSUME NEW f, NEW b, NEW q, IsList(f, b, q)
  PROVE  WalkOf(f, b) = [i \in 1 .. MaxMsgs + 1 |-> Nth(q, i)]
<1> DEFINE N == MaxMsgs + 1
           g == [i \in 1 .. N |-> Nth(q, i)]
           F(h) == [i \in 1 .. N |-> IF i = 1 THEN b
                                     ELSE IF h[i - 1] = Null THEN Null ELSE f[h[i - 1]]]
           w == WalkOf(f, b)
<1>1. N \in Nat /\ 1 \in 1 .. N /\ Null \notin Blocks
  BY Blocks0
<1>2. Len(q) \in Nat /\ \A i \in 1 .. Len(q) : q[i] \in Blocks
  BY InToSet DEF IsList
<1>3. b = Nth(q, 1) /\ \A i \in 1 .. Len(q) : f[q[i]] = Nth(q, i + 1)
  BY DEF IsList
<1>4. \A i \in 1 .. N : g[i] = Nth(q, i)
  OBVIOUS
<1> HIDE DEF N
<1>5. ASSUME NEW i \in 1 .. N, i # 1
      PROVE  Nth(q, i) = IF g[i - 1] = Null THEN Null ELSE f[g[i - 1]]
  <2>1. i - 1 \in 1 .. N /\ i - 1 \in Nat /\ (i - 1) + 1 = i
    BY <1>1, <1>5
  <2>2. g[i - 1] = Nth(q, i - 1)
    BY <1>4, <2>1
  <2>3. CASE i - 1 \in 1 .. Len(q)
    <3>1. g[i - 1] = q[i - 1] /\ g[i - 1] \in Blocks
      BY <1>2, <2>2, <2>3 DEF Nth
    <3>2. f[q[i - 1]] = Nth(q, i)
      BY <1>3, <2>1, <2>3
    <3>3. QED BY <1>1, <3>1, <3>2
  <2>4. CASE i - 1 \notin 1 .. Len(q)
    <3>1. g[i - 1] = Null
      BY <2>2, <2>4 DEF Nth
    <3>2. i \notin 1 .. Len(q)
      BY <1>1, <1>2, <1>5, <2>1, <2>4
    <3>3. QED BY <3>1, <3>2 DEF Nth
  <2>5. QED BY <2>3, <2>4
<1>6. g = F(g)
  <2>1. ASSUME NEW i \in 1 .. N
        PROVE  Nth(q, i) = IF i = 1 THEN b
                           ELSE IF g[i - 1] = Null THEN Null ELSE f[g[i - 1]]
    BY <1>3, <1>5
  <2> HIDE DEF g
  <2>2. F(g) = [i \in 1 .. N |-> Nth(q, i)]
    BY <2>1
  <2>3. QED BY <2>2 DEF g
<1>7. w = CHOOSE h : h = F(h)
  BY DEF WalkOf, N
<1> HIDE DEF g, w
<1>8. w = F(w)
  <2> HIDE DEF F
  <2>1. QED BY <1>6, <1>7
<1>9. \A i \in 1 .. N : w[i] = IF i = 1 THEN b
                               ELSE IF w[i - 1] = Null THEN Null ELSE f[w[i - 1]]
  BY <1>8
<1>10. \A i \in 1 .. N : w[i] = g[i]
  <2> DEFINE T == {k \in Nat : k + 1 \in 1 .. N => w[k + 1] = g[k + 1]}
  <2>1. 0 \in T
    <3>1. w[1] = b /\ g[1] = b
      BY <1>1, <1>3, <1>4, <1>9
    <3>2. QED BY <3>1
  <2>2. ASSUME NEW k \in Nat, k \in T
        PROVE  k + 1 \in T
    <3>1. SUFFICES ASSUME (k + 1) + 1 \in 1 .. N
                   PROVE  w[(k + 1) + 1] = g[(k + 1) + 1]
      OBVIOUS
    <3>2. PICK i \in 1 .. N : i = (k + 1) + 1
      BY <3>1
    <3>3. i # 1 /\ i - 1 = k + 1 /\ k + 1 \in 1 .. N
      BY <1>1, <3>2
    <3>4. w[i - 1] = g[i - 1]
      BY <2>2, <3>3
    <3>5. w[i] = IF w[i - 1] = Null THEN Null ELSE f[w[i - 1]]
      BY <1>9, <3>3
    <3>6. g[i] = IF g[i - 1] = Null THEN Null ELSE f[g[i - 1]]
      BY <1>4, <1>5, <3>3
    <3>7. QED BY <3>2, <3>4, <3>5, <3>6
  <2> HIDE DEF T
  <2>3. \A k \in Nat : k \in T
    BY <2>1, <2>2, NatInduct
  <2>4. ASSUME NEW i \in 1 .. N
        PROVE  w[i] = g[i]
    <3>1. i - 1 \in Nat /\ (i - 1) + 1 = i
      BY <1>1
    <3>2. i - 1 \in T
      BY <2>3, <3>1
    <3>3. QED BY <3>1, <3>2 DEF T
  <2>5. QED BY <2>4
<1>11. w = [i \in 1 .. N |-> w[i]]
  BY <1>8
<1>12. w = g
  BY <1>10, <1>11 DEF g
<1>13. QED BY <1>12 DEF g, w, N

\* So the chain from b on is the list.
LEMMA ChainIs ==
  ASSUME NEW f, NEW b, NEW q, IsList(f, b, q)
  PROVE  ChainOf(f, b) = q
<1> DEFINE N == MaxMsgs + 1
           w == WalkOf(f, b)
           S == {j \in 1 .. N : w[j] # Null}
<1>1. N \in Nat /\ MaxMsgs \in Nat /\ Null \notin Blocks /\ N = MaxMsgs + 1
  BY Blocks0
<1>2. q \in Seq(Blocks) /\ Len(q) \in 0 .. MaxMsgs /\ \A i \in 1 .. Len(q) : q[i] \in Blocks
  BY ListLength, InToSet DEF IsList
<1>3. \A i \in 1 .. N : w[i] = Nth(q, i)
  <2>1. w = [i \in 1 .. N |-> Nth(q, i)]
    BY WalkIs
  <2> HIDE DEF w
  <2>2. QED BY <2>1
<1> HIDE DEF N, w
<1>4. \A j : j \in S <=> j \in 1 .. Len(q)
  <2>1. ASSUME NEW j \in 1 .. N
        PROVE  w[j] # Null <=> j \in 1 .. Len(q)
    BY <1>1, <1>2, <1>3 DEF Nth
  <2>2. \A j \in 1 .. Len(q) : j \in 1 .. N
    BY <1>1, <1>2
  <2>3. QED BY <2>1, <2>2
<1>5. S = 1 .. Len(q)
  BY <1>4
<1>6. ChainOf(f, b) = [i \in 1 .. Cardinality(S) |-> w[i]]
  BY DEF ChainOf, w, N
<1> HIDE DEF S
<1>7. Cardinality(S) = Len(q)
  <2>1. Len(q) \in Nat
    BY <1>1, <1>2
  <2>2. Cardinality(1 .. Len(q)) = Len(q)
    <3>1. \A n \in Nat : Cardinality(1 .. n) = n
      <4>1. ASSUME NEW n \in Nat
            PROVE  Cardinality(1 .. n) = n
        <5>1. Cardinality(1 .. n) = IF 1 > n THEN 0 ELSE n - 1 + 1
          BY ONLY FS_Interval
        <5>2. QED BY ONLY <5>1
      <4>2. QED BY <4>1
    <3>2. QED BY ONLY <2>1, <3>1
  <2>3. QED BY <1>5, <2>2
<1>8. \A i \in 1 .. Len(q) : w[i] = q[i]
  BY <1>1, <1>2, <1>3 DEF Nth
<1>9. ChainOf(f, b) = [i \in 1 .. Len(q) |-> q[i]]
  BY <1>6, <1>7, <1>8
<1>10. q = [i \in 1 .. Len(q) |-> q[i]]
  BY <1>2, LenProperties
<1>11. QED BY <1>9, <1>10

\* What a list is, position by position
LEMMA ListFacts ==
  ASSUME NEW f, NEW b, NEW q, IsList(f, b, q)
  PROVE  /\ Len(q) \in Nat
         /\ \A i \in 1 .. Len(q) : q[i] \in Blocks /\ q[i] \in ToSet(q) /\ q[i] # Null
         /\ \A x : x \in ToSet(q) <=> \E i \in 1 .. Len(q) : q[i] = x
         /\ \A i, j \in 1 .. Len(q) : q[i] = q[j] => i = j
         /\ b = Null <=> q = <<>>
         /\ q # <<>> => b = q[1] /\ b \in ToSet(q) /\ 1 \in 1 .. Len(q)
<1>1. q \in Seq(Blocks) /\ IsInjective(q) /\ b = Nth(q, 1)
  BY DEF IsList
<1>2. Len(q) \in Nat /\ \A i \in 1 .. Len(q) : q[i] \in Blocks
  BY <1>1, InToSet
<1>3. \A x : x \in ToSet(q) <=> \E i \in 1 .. Len(q) : q[i] = x
  BY <1>1, InToSet
<1>4. \A i, j \in 1 .. Len(q) : q[i] = q[j] => i = j
  BY <1>1, InjectiveSeq
<1>5. q # <<>> => 1 \in 1 .. Len(q)
  BY <1>1, <1>2, EmptySeq
<1>6. q = <<>> => Len(q) = 0
  BY EmptySeq
<1>7. b = Null <=> q = <<>>
  BY <1>1, <1>2, <1>5, <1>6, Blocks0 DEF Nth
<1>8. q # <<>> => b = q[1] /\ b \in ToSet(q)
  BY <1>1, <1>3, <1>5 DEF Nth
<1>9. QED BY <1>2, <1>3, <1>4, <1>5, <1>7, <1>8, Blocks0

\* Links that agree on the blocks of a list make the same list.
LEMMA SameList ==
  ASSUME NEW f, NEW b, NEW q, IsList(f, b, q), NEW f2, \A x \in ToSet(q) : f2[x] = f[x]
  PROVE  IsList(f2, b, q)
<1>1. \A i \in 1 .. Len(q) : f2[q[i]] = f[q[i]]
  BY ListFacts
<1>2. QED BY <1>1 DEF IsList

\* The list without its first block
LEMMA ListWithoutFirst ==
  ASSUME NEW f, NEW b, NEW q, IsList(f, b, q), b # Null
  PROVE  /\ q # <<>> /\ b \in ToSet(q) /\ b \in Blocks /\ Head(q) = b
         /\ IsList(f, f[b], Tail(q))
         /\ ToSet(Tail(q)) = ToSet(q) \ {b}
         /\ Len(Tail(q)) = Len(q) - 1
<1>1. /\ q \in Seq(Blocks) /\ q # <<>>
      /\ \A i \in 1 .. Len(q) : f[q[i]] = Nth(q, i + 1)
  BY ListFacts DEF IsList
<1>2. /\ Len(q) \in Nat /\ 1 \in 1 .. Len(q) /\ b = q[1] /\ b \in ToSet(q) /\ b \in Blocks
      /\ \A x : x \in ToSet(q) <=> \E i \in 1 .. Len(q) : q[i] = x
      /\ \A i, j \in 1 .. Len(q) : q[i] = q[j] => i = j
  BY <1>1, ListFacts
<1>3. Head(q) = b
  BY <1>1, <1>2
<1> DEFINE r == Tail(q)
<1>4. /\ r \in Seq(Blocks) /\ Len(r) = Len(q) - 1
      /\ \A i \in 1 .. Len(r) : r[i] = q[i + 1]
  BY <1>1, HeadTailProperties
<1> HIDE DEF r
<1>5. Len(r) \in Nat /\ \A i \in 1 .. Len(r) : i + 1 \in 1 .. Len(q) /\ i + 1 # 1
  BY <1>2, <1>4
<1>6. \A i \in Nat \ {0} : Nth(r, i) = Nth(q, i + 1)
  BY <1>2, <1>4, <1>5 DEF Nth
<1>7. f[b] = Nth(r, 1)
  <2>1. PICK i \in 1 .. Len(q) : i = 1
    BY <1>2
  <2>2. f[q[i]] = Nth(q, i + 1) /\ i \in Nat \ {0}
    BY <1>1, <2>1
  <2>3. Nth(r, i) = Nth(q, i + 1)
    BY <1>6, <2>2
  <2>4. QED BY <1>2, <2>1, <2>2, <2>3
<1>8. ASSUME NEW i \in 1 .. Len(r)
      PROVE  f[r[i]] = Nth(r, i + 1)
  <2>1. f[q[i + 1]] = Nth(q, (i + 1) + 1) /\ i + 1 \in Nat \ {0}
    BY <1>1, <1>5
  <2>2. QED BY <1>4, <1>6, <2>1
<1>9. IsInjective(r)
  <2>1. \A i, j \in 1 .. Len(r) : r[i] = r[j] => i = j
    BY <1>2, <1>4, <1>5
  <2>2. QED BY <1>4, <2>1, InjectiveSeq
<1>10. ASSUME NEW x
       PROVE  x \in ToSet(r) <=> x \in ToSet(q) /\ x # b
  <2>1. x \in ToSet(r) <=> \E i \in 1 .. Len(r) : r[i] = x
    BY <1>4, InToSet
  <2>2. x \in ToSet(r) => x \in ToSet(q) /\ x # b
    BY <1>2, <1>4, <1>5, <2>1
  <2>3. ASSUME x \in ToSet(q), x # b
        PROVE  x \in ToSet(r)
    <3>1. PICK k \in 1 .. Len(q) : q[k] = x
      BY <1>2, <2>3
    <3>2. k # 1
      BY <1>2, <2>3, <3>1
    <3>3. k - 1 \in 1 .. Len(r) /\ (k - 1) + 1 = k
      BY <1>2, <1>4, <3>2
    <3>4. r[k - 1] = x
      BY <1>4, <3>1, <3>3
    <3>5. QED BY <2>1, <3>3, <3>4
  <2>4. QED BY <2>2, <2>3
<1>11. ToSet(r) = ToSet(q) \ {b}
  BY <1>10
<1>12. QED BY <1>1, <1>2, <1>3, <1>4, <1>7, <1>8, <1>9, <1>11 DEF IsList, r

\* The list with a block before its first
LEMMA ListWithFirst ==
  ASSUME NEW f, NEW b, NEW q, IsList(f, b, q), NEW c \in Blocks \ ToSet(q),
         NEW f2, f2[c] = b, \A x \in ToSet(q) : f2[x] = f[x]
  PROVE  /\ IsList(f2, c, <<c>> \o q)
         /\ ToSet(<<c>> \o q) = ToSet(q) \cup {c}
         /\ Len(<<c>> \o q) = Len(q) + 1
<1>1. /\ q \in Seq(Blocks) /\ b = Nth(q, 1) /\ Len(q) \in Nat
      /\ \A i \in 1 .. Len(q) : f2[q[i]] = Nth(q, i + 1)
  BY SameList, ListFacts DEF IsList
<1> DEFINE r == <<c>> \o q
<1>2. /\ r \in Seq(Blocks) /\ ToSet(r) = ToSet(q) \cup {c} /\ IsInjective(r)
  BY <1>1, ConsSeq DEF IsList
<1>3. /\ Len(r) = Len(q) + 1 /\ r[1] = c
      /\ \A i \in 1 .. Len(q) : r[i + 1] = q[i]
  <2>1. <<c>> \in Seq(Blocks) /\ Len(<<c>>) = 1 /\ <<c>>[1] = c
    OBVIOUS
  <2>2. QED BY <1>1, <2>1, ConcatProperties
<1> HIDE DEF r
<1>4. \A i \in Nat \ {0} : Nth(r, i + 1) = Nth(q, i)
  BY <1>1, <1>3 DEF Nth
<1>5. c = Nth(r, 1)
  BY <1>1, <1>3 DEF Nth
<1>6. ASSUME NEW i \in 1 .. Len(r)
      PROVE  f2[r[i]] = Nth(r, i + 1)
  <2>1. CASE i = 1
    BY <1>1, <1>3, <1>4, <2>1
  <2>2. CASE i # 1
    <3>1. PICK k \in 1 .. Len(q) : i = k + 1
      BY <1>1, <1>3, <2>2
    <3>2. k + 1 \in Nat \ {0}
      BY <1>1
    <3>3. f2[q[k]] = Nth(r, (k + 1) + 1)
      BY <1>1, <1>4, <3>2
    <3>4. QED BY <1>3, <3>1, <3>3
  <2>3. QED BY <2>1, <2>2
<1>7. QED BY <1>2, <1>3, <1>5, <1>6 DEF IsList, r

\* The list with a block behind its last
LEMMA ListWithLast ==
  ASSUME NEW f, NEW b, NEW q, IsList(f, b, q), NEW c \in Blocks \ ToSet(q),
         NEW f2, f2[c] = Null,
         \A i \in 1 .. Len(q) : f2[q[i]] = IF i = Len(q) THEN c ELSE f[q[i]]
  PROVE  /\ IsList(f2, IF b = Null THEN c ELSE b, Append(q, c))
         /\ ToSet(Append(q, c)) = ToSet(q) \cup {c}
         /\ Len(Append(q, c)) = Len(q) + 1
         /\ Nth(Append(q, c), Len(q) + 1) = c
<1>1. /\ q \in Seq(Blocks) /\ b = Nth(q, 1) /\ Len(q) \in Nat
      /\ \A i \in 1 .. Len(q) : f[q[i]] = Nth(q, i + 1)
      /\ b = Null <=> q = <<>>
      /\ q # <<>> => b = q[1] /\ 1 \in 1 .. Len(q)
  BY ListFacts DEF IsList
<1> DEFINE r == Append(q, c)
<1>2. /\ r \in Seq(Blocks) /\ ToSet(r) = ToSet(q) \cup {c} /\ IsInjective(r)
  BY <1>1, AppendSeq DEF IsList
<1>3. /\ Len(r) = Len(q) + 1 /\ r[Len(q) + 1] = c
      /\ \A i \in 1 .. Len(q) : r[i] = q[i]
  BY <1>1, AppendProperties
<1> HIDE DEF r
<1>4. Nth(r, Len(q) + 1) = c
  BY <1>1, <1>3 DEF Nth
<1>5. (IF b = Null THEN c ELSE b) = Nth(r, 1)
  <2>1. CASE q = <<>>
    <3>1. Len(q) + 1 = 1
      BY <2>1, EmptySeq
    <3>2. QED BY <1>1, <1>4, <2>1, <3>1
  <2>2. CASE q # <<>>
    <3>1. 1 \in 1 .. Len(r)
      BY <1>1, <1>3
    <3>2. QED BY <1>1, <1>3, <2>2, <3>1 DEF Nth
  <2>3. QED BY <2>1, <2>2
<1>6. ASSUME NEW i \in 1 .. Len(r)
      PROVE  f2[r[i]] = Nth(r, i + 1)
  <2>1. CASE i = Len(q) + 1
    <3>1. Nth(r, i + 1) = Null
      BY <1>1, <1>3, <2>1 DEF Nth
    <3>2. QED BY <1>3, <2>1, <3>1
  <2>2. CASE i = Len(q)
    <3>1. i \in 1 .. Len(q)
      BY <1>1, <1>6, <2>2
    <3>2. QED BY <1>3, <1>4, <2>2, <3>1
  <2>3. CASE i # Len(q) /\ i # Len(q) + 1
    <3>1. i \in 1 .. Len(q) /\ i + 1 \in 1 .. Len(q)
      BY <1>1, <1>3, <2>3
    <3>2. i + 1 \in 1 .. Len(r)
      BY <1>1, <1>3, <3>1
    <3>3. Nth(r, i + 1) = q[i + 1] /\ Nth(q, i + 1) = q[i + 1]
      BY <1>3, <3>1, <3>2 DEF Nth
    <3>4. QED BY <1>1, <1>3, <2>3, <3>1, <3>3
  <2>4. QED BY <2>1, <2>2, <2>3
<1>7. QED BY <1>2, <1>3, <1>4, <1>5, <1>6 DEF IsList, r

-----------------------------------------------------------------------------
(* The two lists and the blocks that threads copy to or from               *)

\* With links f, the free list from fr on is fq and the queue from hd to tl is
\* hq, of e blocks; each block is on one of them or in the set W, in one place.
ListsAre(f, fr, hd, tl, e, W, fq, hq) ==
  /\ f \in Links
  /\ IsList(f, fr, fq)
  /\ IsList(f, hd, hq)
  /\ tl = Nth(hq, Len(hq))
  /\ e = Len(hq)
  /\ W \subseteq Blocks
  /\ ToSet(fq) \cap ToSet(hq) = {}
  /\ ToSet(fq) \cap W = {} /\ ToSet(hq) \cap W = {}
  /\ ToSet(fq) \cup ToSet(hq) \cup W = Blocks

\* W are the blocks that threads own, each one owner's.
Owners(own, W) ==
  /\ own \in [Thread -> Blocks \cup {Null}]
  /\ W = {own[t] : t \in {u \in Thread : own[u] # Null}}
  /\ \A t, u \in Thread : own[t] = own[u] /\ own[t] # Null => t = u

\* The list of no blocks
LEMMA NoBlocks ==
  ASSUME NEW f
  PROVE  /\ IsList(f, Null, <<>>) /\ Nth(<<>>, Len(<<>>)) = Null /\ Len(<<>>) = 0
         /\ ToSet(<<>>) = {}
<1>1. <<>> \in Seq(Blocks) /\ Len(<<>>) = 0
  BY EmptySeq
<1>2. ToSet(<<>>) = {}
  BY <1>1, EmptyToSet
<1>3. IsInjective(<<>>)
  BY DEF IsInjective
<1>4. QED BY <1>1, <1>2, <1>3 DEF IsList, Nth

\* What the lists say of their ends and lengths
LEMMA Lengths ==
  ASSUME NEW f, NEW fr, NEW hd, NEW tl, NEW e, NEW W, NEW fq, NEW hq,
         ListsAre(f, fr, hd, tl, e, W, fq, hq)
  PROVE  /\ fq = ChainOf(f, fr) /\ hq = ChainOf(f, hd)
         /\ fq \in Seq(Blocks) /\ hq \in Seq(Blocks)
         /\ Len(fq) \in 0 .. MaxMsgs /\ Len(hq) \in 0 .. MaxMsgs
         /\ e = Len(hq)
         /\ fr = Null <=> Len(fq) = 0
         /\ hd = Null <=> e = 0
         /\ tl = IF hq = <<>> THEN Null ELSE Last(hq)
         /\ fr \in Blocks \cup {Null} /\ hd \in Blocks \cup {Null} /\ tl \in Blocks \cup {Null}
<1>1. IsList(f, fr, fq) /\ IsList(f, hd, hq) /\ tl = Nth(hq, Len(hq)) /\ e = Len(hq)
  BY DEF ListsAre
<1>2. /\ fq \in Seq(Blocks) /\ IsInjective(fq)
      /\ hq \in Seq(Blocks) /\ IsInjective(hq)
  BY <1>1 DEF IsList
<1>3. fq = ChainOf(f, fr) /\ hq = ChainOf(f, hd)
  BY <1>1, ChainIs
<1>4. Len(fq) \in 0 .. MaxMsgs /\ Len(hq) \in 0 .. MaxMsgs
  BY <1>2, ListLength
<1>5. \A q \in Seq(Blocks) : q = <<>> <=> Len(q) = 0
  BY EmptySeq
<1>6. (fr = Null <=> Len(fq) = 0) /\ (hd = Null <=> e = 0)
  BY <1>1, <1>2, <1>5, ListFacts
<1>7. \A q \in Seq(Blocks) : \A i \in 1 .. Len(q) : q[i] \in Blocks
  BY ElementOfSeq
<1>8. fr \in Blocks \cup {Null} /\ hd \in Blocks \cup {Null} /\ tl \in Blocks \cup {Null}
  BY <1>1, <1>2, <1>7 DEF IsList, Nth
<1>9. tl = IF hq = <<>> THEN Null ELSE Last(hq)
  <2>1. CASE hq = <<>>
    BY <1>1, <1>5, <2>1 DEF Nth
  <2>2. CASE hq # <<>>
    <3>1. Len(hq) \in 1 .. Len(hq)
      BY <1>2, <1>4, <1>5, <2>2, Blocks0
    <3>2. QED BY <1>1, <2>2, <3>1 DEF Nth, Last
  <2>3. QED BY <2>1, <2>2
<1>10. QED BY <1>1, <1>2, <1>3, <1>4, <1>6, <1>8, <1>9

\* A thread comes to own a block ...
LEMMA Own ==
  ASSUME NEW own, NEW W, Owners(own, W), NEW t \in Thread, own[t] = Null,
         NEW c \in Blocks \ W, NEW own2, own2 = [own EXCEPT ![t] = c]
  PROVE  Owners(own2, W \cup {c})
<1>1. own2 \in [Thread -> Blocks \cup {Null}]
      /\ own2[t] = c /\ \A u \in Thread \ {t} : own2[u] = own[u]
  BY DEF Owners
<1>2. \A u \in Thread : own[u] # Null => own[u] \in W
  BY DEF Owners
<1>3. W \cup {c} = {own2[u] : u \in {v \in Thread : own2[v] # Null}}
  <2>1. ASSUME NEW x \in W \cup {c}
        PROVE  \E u \in Thread : own2[u] # Null /\ x = own2[u]
    BY <1>1, Blocks0 DEF Owners
  <2>2. ASSUME NEW u \in Thread, own2[u] # Null
        PROVE  own2[u] \in W \cup {c}
    BY <1>1, <1>2, <2>2
  <2>3. QED BY <2>1, <2>2
<1>4. ASSUME NEW u \in Thread, NEW v \in Thread, own2[u] = own2[v], own2[u] # Null
      PROVE  u = v
  BY <1>1, <1>2, <1>4 DEF Owners
<1>5. QED BY <1>1, <1>3, <1>4 DEF Owners

\* ... and gives it up.
LEMMA Disown ==
  ASSUME NEW own, NEW W, Owners(own, W), NEW t \in Thread, own[t] # Null,
         NEW own2, own2 = [own EXCEPT ![t] = Null]
  PROVE  own[t] \in W /\ own[t] \in Blocks /\ Owners(own2, W \ {own[t]})
<1>1. own2 \in [Thread -> Blocks \cup {Null}]
      /\ own2[t] = Null /\ \A u \in Thread \ {t} : own2[u] = own[u]
  BY DEF Owners
<1>2. own[t] \in W /\ own[t] \in Blocks
  BY DEF Owners
<1>3. W \ {own[t]} = {own2[u] : u \in {v \in Thread : own2[v] # Null}}
  <2>1. ASSUME NEW x \in W \ {own[t]}
        PROVE  \E u \in Thread : own2[u] # Null /\ x = own2[u]
    BY <1>1 DEF Owners
  <2>2. ASSUME NEW u \in Thread, own2[u] # Null
        PROVE  own2[u] \in W \ {own[t]}
    BY <1>1, <2>2 DEF Owners
  <2>3. QED BY <2>1, <2>2
<1>4. ASSUME NEW u \in Thread, NEW v \in Thread, own2[u] = own2[v], own2[u] # Null
      PROVE  u = v
  BY <1>1, <1>4 DEF Owners
<1>5. QED BY <1>1, <1>2, <1>3, <1>4 DEF Owners

\* A block is taken off the free list.
LEMMA PopLists ==
  ASSUME NEW f, NEW fr, NEW hd, NEW tl, NEW e, NEW W, NEW fq, NEW hq,
         ListsAre(f, fr, hd, tl, e, W, fq, hq), fr # Null
  PROVE  /\ fr \in Blocks \ W
         /\ Len(Tail(fq)) = Len(fq) - 1
         /\ ListsAre(f, f[fr], hd, tl, e, W \cup {fr}, Tail(fq), hq)
<1>1. IsList(f, fr, fq)
  BY DEF ListsAre
<1>2. /\ fr \in ToSet(fq) /\ fr \in Blocks
      /\ IsList(f, f[fr], Tail(fq))
      /\ ToSet(Tail(fq)) = ToSet(fq) \ {fr}
      /\ Len(Tail(fq)) = Len(fq) - 1
  BY <1>1, ListWithoutFirst
<1>3. QED BY <1>2 DEF ListsAre

\* A block is put back on it.
LEMMA PushLists ==
  ASSUME NEW f, NEW fr, NEW hd, NEW tl, NEW e, NEW W, NEW fq, NEW hq,
         ListsAre(f, fr, hd, tl, e, W, fq, hq), NEW c \in W,
         NEW f2, f2 = [f EXCEPT ![c] = fr]
  PROVE  /\ Len(<<c>> \o fq) = Len(fq) + 1
         /\ ListsAre(f2, c, hd, tl, e, W \ {c}, <<c>> \o fq, hq)
<1>1. /\ IsList(f, fr, fq) /\ IsList(f, hd, hq) /\ f \in Links
      /\ c \in Blocks \ ToSet(fq) /\ c \notin ToSet(hq)
  BY DEF ListsAre
<1>2. f2 \in Links /\ f2[c] = fr /\ \A x \in Blocks \ {c} : f2[x] = f[x]
  BY <1>1, Lengths DEF Links
<1>3. \A x \in ToSet(fq) \cup ToSet(hq) : f2[x] = f[x]
  BY <1>1, <1>2 DEF ListsAre
<1>4. IsList(f2, hd, hq)
  BY <1>1, <1>3, SameList
<1>5. /\ IsList(f2, c, <<c>> \o fq)
      /\ ToSet(<<c>> \o fq) = ToSet(fq) \cup {c}
      /\ Len(<<c>> \o fq) = Len(fq) + 1
  <2>1. \A x \in ToSet(fq) : f2[x] = f[x]
    BY <1>3
  <2>2. f2[c] = fr
    BY <1>2
  <2>3. QED BY ONLY <1>1, <2>1, <2>2, ListWithFirst
<1>6. QED BY <1>2, <1>4, <1>5 DEF ListsAre

\* A block becomes the last of the queue ...
LEMMA LastLists ==
  ASSUME NEW f, NEW fr, NEW hd, NEW tl, NEW e, NEW W, NEW fq, NEW hq,
         ListsAre(f, fr, hd, tl, e, W, fq, hq), NEW c \in W,
         NEW f2, f2 = IF tl = Null THEN [f EXCEPT ![c] = Null]
                                   ELSE [f EXCEPT ![c] = Null, ![tl] = c]
  PROVE  ListsAre(f2, fr, IF hd = Null THEN c ELSE hd, c, e + 1, W \ {c}, fq, Append(hq, c))
<1>1. /\ IsList(f, fr, fq) /\ IsList(f, hd, hq) /\ f \in Links
      /\ c \in Blocks \ ToSet(hq) /\ c \notin ToSet(fq) /\ e = Len(hq)
      /\ tl = Nth(hq, Len(hq))
  BY DEF ListsAre
<1>2. /\ Len(hq) \in Nat
      /\ \A i \in 1 .. Len(hq) : hq[i] \in Blocks /\ hq[i] \in ToSet(hq) /\ hq[i] # Null
      /\ \A i, j \in 1 .. Len(hq) : hq[i] = hq[j] => i = j
  BY <1>1, ListFacts
<1>3. tl # Null => tl \in Blocks /\ tl # c /\ tl \in ToSet(hq)
  BY <1>1, <1>2 DEF Nth
<1>4. /\ f2 \in Links /\ f2[c] = Null
      /\ tl # Null => f2[tl] = c
      /\ \A x \in Blocks \ {c, tl} : f2[x] = f[x]
  BY <1>1, <1>3 DEF Links
<1>5. ASSUME NEW i \in 1 .. Len(hq)
      PROVE  f2[hq[i]] = IF i = Len(hq) THEN c ELSE f[hq[i]]
  <2>1. Len(hq) \in 1 .. Len(hq) /\ tl = hq[Len(hq)] /\ tl # Null
    BY <1>1, <1>2 DEF Nth
  <2>2. QED BY <1>1, <1>2, <1>4, <2>1
<1>6. /\ IsList(f2, IF hd = Null THEN c ELSE hd, Append(hq, c))
      /\ ToSet(Append(hq, c)) = ToSet(hq) \cup {c}
      /\ Len(Append(hq, c)) = Len(hq) + 1
      /\ Nth(Append(hq, c), Len(hq) + 1) = c
  <2>1. \A i \in 1 .. Len(hq) : f2[hq[i]] = IF i = Len(hq) THEN c ELSE f[hq[i]]
    BY <1>5
  <2>2. f2[c] = Null
    BY <1>4
  <2>3. QED BY ONLY <1>1, <2>1, <2>2, ListWithLast
<1>7. \A x \in ToSet(fq) : f2[x] = f[x]
  <2>1. \A x \in ToSet(fq) : x \in Blocks /\ x \notin ToSet(hq) /\ x # c /\ x # Null
    BY <1>1, Blocks0 DEF ListsAre
  <2>2. \A x \in ToSet(fq) : x # tl
    BY <1>3, <2>1
  <2>3. QED BY <1>4, <2>1, <2>2
<1>8. IsList(f2, fr, fq)
  BY <1>1, <1>7, SameList
<1>9. QED BY <1>1, <1>4, <1>6, <1>8 DEF ListsAre

\* ... or the first.
LEMMA FirstLists ==
  ASSUME NEW f, NEW fr, NEW hd, NEW tl, NEW e, NEW W, NEW fq, NEW hq,
         ListsAre(f, fr, hd, tl, e, W, fq, hq), NEW c \in W,
         NEW f2, f2 = [f EXCEPT ![c] = hd]
  PROVE  ListsAre(f2, fr, c, IF tl = Null THEN c ELSE tl, e + 1, W \ {c}, fq, <<c>> \o hq)
<1>1. /\ IsList(f, fr, fq) /\ IsList(f, hd, hq) /\ f \in Links
      /\ c \in Blocks \ ToSet(hq) /\ c \notin ToSet(fq)
      /\ e = Len(hq) /\ tl = Nth(hq, Len(hq)) /\ hq \in Seq(Blocks)
  BY DEF ListsAre, IsList
<1>2. f2 \in Links /\ f2[c] = hd /\ \A x \in Blocks \ {c} : f2[x] = f[x]
  BY <1>1, Lengths DEF Links
<1>3. \A x \in ToSet(fq) \cup ToSet(hq) : f2[x] = f[x]
  BY <1>1, <1>2 DEF ListsAre
<1>4. IsList(f2, fr, fq)
  BY <1>1, <1>3, SameList
<1>5. /\ IsList(f2, c, <<c>> \o hq)
      /\ ToSet(<<c>> \o hq) = ToSet(hq) \cup {c}
      /\ Len(<<c>> \o hq) = Len(hq) + 1
  <2>1. \A x \in ToSet(hq) : f2[x] = f[x]
    BY <1>3
  <2>2. f2[c] = hd
    BY <1>2
  <2>3. QED BY ONLY <1>1, <2>1, <2>2, ListWithFirst
<1>6. (IF tl = Null THEN c ELSE tl) = Nth(<<c>> \o hq, Len(hq) + 1)
  <2>1. Len(hq) \in Nat /\ \A i \in 1 .. Len(hq) : hq[i] # Null
    BY <1>1, ListFacts
  <2>2. <<c>> \in Seq(Blocks) /\ Len(<<c>>) = 1 /\ <<c>>[1] = c
    BY <1>1
  <2>3. (<<c>> \o hq)[1] = c /\ \A i \in 1 .. Len(hq) : (<<c>> \o hq)[i + 1] = hq[i]
    BY <1>1, <2>1, <2>2, ConcatProperties
  <2> DEFINE r == <<c>> \o hq
  <2> HIDE DEF r
  <2>4. Nth(r, Len(hq) + 1) = r[Len(hq) + 1]
    BY <1>5, <2>1 DEF Nth, r
  <2>5. CASE Len(hq) = 0
    BY <1>1, <2>3, <2>4, <2>5 DEF Nth, r
  <2>6. CASE Len(hq) # 0
    <3>1. Len(hq) \in 1 .. Len(hq)
      BY <2>1, <2>6
    <3>2. QED BY <1>1, <2>1, <2>3, <2>4, <3>1 DEF Nth, r
  <2>7. QED BY <2>5, <2>6 DEF r
<1>7. QED BY <1>1, <1>2, <1>4, <1>5, <1>6 DEF ListsAre

\* The first block of the queue ...
LEMMA FirstBlock ==
  ASSUME NEW f, NEW fr, NEW hd, NEW tl, NEW e, NEW W, NEW fq, NEW hq,
         ListsAre(f, fr, hd, tl, e, W, fq, hq), e > 0
  PROVE  /\ hd \in Blocks \ W /\ hq # <<>> /\ Head(hq) = hd
         /\ hd \in ToSet(hq)
         /\ IsList(f, f[hd], Tail(hq))
         /\ ToSet(Tail(hq)) = ToSet(hq) \ {hd}
         /\ Len(Tail(hq)) = Len(hq) - 1
<1>1. /\ IsList(f, hd, hq) /\ hd # Null
  BY Lengths, ListFacts DEF ListsAre
<1>2. /\ hq # <<>> /\ hd \in ToSet(hq) /\ hd \in Blocks /\ Head(hq) = hd
      /\ IsList(f, f[hd], Tail(hq))
      /\ ToSet(Tail(hq)) = ToSet(hq) \ {hd}
      /\ Len(Tail(hq)) = Len(hq) - 1
  BY <1>1, ListWithoutFirst
<1>3. QED BY <1>1, <1>2 DEF ListsAre

\* ... leaves it.
LEMMA UnlinkLists ==
  ASSUME NEW f, NEW fr, NEW hd, NEW tl, NEW e, NEW W, NEW fq, NEW hq,
         ListsAre(f, fr, hd, tl, e, W, fq, hq), e > 0
  PROVE  ListsAre(f, fr, f[hd], IF tl = hd THEN Null ELSE tl, e - 1, W \cup {hd},
                  fq, Tail(hq))
<1>1. /\ IsList(f, fr, fq) /\ IsList(f, hd, hq) /\ hd # Null
      /\ e = Len(hq) /\ tl = Nth(hq, Len(hq)) /\ Len(hq) \in Nat
  BY Lengths, ListFacts DEF ListsAre
<1>2. /\ hq # <<>> /\ hd \in ToSet(hq) /\ hd \in Blocks /\ Head(hq) = hd
      /\ IsList(f, f[hd], Tail(hq))
      /\ ToSet(Tail(hq)) = ToSet(hq) \ {hd}
      /\ Len(Tail(hq)) = Len(hq) - 1
  BY ONLY ListsAre(f, fr, hd, tl, e, W, fq, hq), e > 0, FirstBlock
<1>3. (IF tl = hd THEN Null ELSE tl) = Nth(Tail(hq), Len(hq) - 1)
  <2>1. /\ hq \in Seq(Blocks) /\ hd = hq[1] /\ 1 \in 1 .. Len(hq)
        /\ \A i, j \in 1 .. Len(hq) : hq[i] = hq[j] => i = j
    <3>1. hq \in Seq(Blocks)
      BY <1>1 DEF IsList
    <3>2. QED BY ONLY <1>1, <1>2, <3>1, ListFacts
  <2>2. \A i \in 1 .. Len(Tail(hq)) : Tail(hq)[i] = hq[i + 1]
    BY <1>2, <2>1, HeadTailProperties
  <2>3. tl = hq[Len(hq)] /\ Len(hq) \in 1 .. Len(hq)
    BY <1>1, <2>1 DEF Nth
  <2>4. tl = hd <=> Len(hq) = 1
    BY <2>1, <2>3
  <2>5. CASE Len(hq) = 1
    BY <1>2, <2>4, <2>5 DEF Nth
  <2>6. CASE Len(hq) # 1
    <3>1. Len(hq) - 1 \in 1 .. Len(Tail(hq)) /\ (Len(hq) - 1) + 1 = Len(hq)
      BY <1>1, <1>2, <2>3, <2>6
    <3>2. Tail(hq)[Len(hq) - 1] = tl
      BY <2>2, <2>3, <3>1
    <3>3. QED BY <2>4, <2>6, <3>1, <3>2 DEF Nth
  <2>7. QED BY <2>5, <2>6
<1>4. QED BY <1>1, <1>2, <1>3 DEF ListsAre

\* The links after the blocks of hq, the first of which is hd, went one by one
\* to the front of the list that starts at fr
Requeued(f, fr, hd, hq) ==
  [b \in Blocks |->
     IF b \notin ToSet(hq) THEN f[b]
     ELSE IF b = hd THEN fr
     ELSE hq[(CHOOSE i \in 1 .. Len(hq) : hq[i] = b) - 1]]

\* RT_IPC_CMD_RESET puts the blocks of the queue on the free list one by one.
LEMMA RequeueLists ==
  ASSUME NEW f, NEW fr, NEW hd, NEW tl, NEW e, NEW W, NEW fq, NEW hq,
         ListsAre(f, fr, hd, tl, e, W, fq, hq),
         NEW f2, f2 = Requeued(f, fr, hd, hq)
  PROVE  /\ \E r : ListsAre(f2, IF hq = <<>> THEN fr ELSE Last(hq), Null, Null, 0, W, r, <<>>)
         /\ (IF tl \in ToSet(hq) THEN Null ELSE tl) = Null
<1> DEFINE n == Len(hq)
           k == Len(fq)
           rev == [i \in 1 .. n |-> hq[n + 1 - i]]
           r == rev \o fq
           fr2 == IF hq = <<>> THEN fr ELSE Last(hq)
           pos(b) == CHOOSE i \in 1 .. Len(hq) : hq[i] = b
<1>place. f2 = [b \in Blocks |-> IF b \notin ToSet(hq) THEN f[b]
                                ELSE IF b = hd THEN fr ELSE hq[pos(b) - 1]]
  BY DEF Requeued
<1> HIDE DEF pos
<1>1. /\ IsList(f, fr, fq) /\ IsList(f, hd, hq) /\ f \in Links
      /\ fq \in Seq(Blocks) /\ hq \in Seq(Blocks) /\ IsInjective(fq)
      /\ n \in Nat /\ k \in Nat
      /\ tl = Nth(hq, Len(hq))
      /\ ToSet(fq) \cap ToSet(hq) = {}
  BY Lengths DEF ListsAre, IsList
<1>2. /\ \A i \in 1 .. n : hq[i] \in Blocks /\ hq[i] \in ToSet(hq)
      /\ \A x : x \in ToSet(hq) <=> \E i \in 1 .. n : hq[i] = x
      /\ \A i, j \in 1 .. n : hq[i] = hq[j] => i = j
      /\ hq # <<>> => hd = hq[1] /\ 1 \in 1 .. n
  BY ONLY <1>1, ListFacts
<1>3. /\ \A i \in 1 .. k : fq[i] \in Blocks /\ fq[i] \in ToSet(fq)
      /\ \A i \in 1 .. k : f[fq[i]] = Nth(fq, i + 1)
      /\ fr = Nth(fq, 1)
  BY <1>1, ListFacts DEF IsList
<1>4. hq = <<>> <=> n = 0
  BY <1>1, EmptySeq
<1> HIDE DEF n
<1>5. \A i \in 1 .. n : n + 1 - i \in 1 .. n /\ n + 1 - (n + 1 - i) = i
  BY <1>1
<1>6. /\ rev \in Seq(Blocks) /\ Len(rev) = n
      /\ \A i \in 1 .. n : rev[i] = hq[n + 1 - i]
  BY <1>1, <1>2, <1>5
<1> HIDE DEF rev
<1>7. IsInjective(rev)
  <2>1. ASSUME NEW i \in 1 .. n, NEW j \in 1 .. n, rev[i] = rev[j]
        PROVE  i = j
    <3>1. PICK a \in 1 .. n, b \in 1 .. n : a = n + 1 - i /\ b = n + 1 - j
      BY <1>5
    <3>2. hq[a] = hq[b]
      BY <1>6, <2>1, <3>1
    <3>3. a = b
      BY <1>2, <3>2
    <3>4. QED BY <1>1, <3>1, <3>3
  <2>2. QED BY <1>6, <2>1, InjectiveSeq
<1>8. ToSet(rev) = ToSet(hq)
  <2>1. ASSUME NEW x
        PROVE  x \in ToSet(rev) <=> x \in ToSet(hq)
    <3>1. x \in ToSet(rev) <=> \E i \in 1 .. n : rev[i] = x
      BY <1>6, InToSet
    <3>2. ASSUME x \in ToSet(rev)
          PROVE  x \in ToSet(hq)
      <4>1. PICK i \in 1 .. n : rev[i] = x
        BY <3>1, <3>2
      <4>2. x = hq[n + 1 - i] /\ n + 1 - i \in 1 .. n
        BY <1>5, <1>6, <4>1
      <4>3. QED BY <1>2, <4>2
    <3>3. ASSUME x \in ToSet(hq)
          PROVE  x \in ToSet(rev)
      <4>1. PICK i \in 1 .. n : hq[i] = x
        BY <1>2, <3>3
      <4>2. rev[n + 1 - i] = x /\ n + 1 - i \in 1 .. n
        BY <1>5, <1>6, <4>1
      <4>3. QED BY <3>1, <4>2
    <3>4. QED BY <3>2, <3>3
  <2>2. QED BY <2>1
<1>9. r \in Seq(Blocks) /\ ToSet(r) = ToSet(hq) \cup ToSet(fq) /\ IsInjective(r)
  <2>1. ToSet(rev) \cap ToSet(fq) = {}
    BY <1>1, <1>8
  <2>2. r \in Seq(Blocks) /\ ToSet(r) = ToSet(rev) \cup ToSet(fq) /\ IsInjective(r)
    BY <1>1, <1>6, <1>7, <2>1, ConcatSeq
  <2>3. QED BY <1>8, <2>2
<1>10. /\ Len(r) = n + k
       /\ \A i \in 1 .. n + k : r[i] = IF i <= n THEN rev[i] ELSE fq[i - n]
  BY <1>1, <1>6, ConcatProperties
<1> HIDE DEF r, k
<1>11. \A i \in 1 .. n : i \in 1 .. n + k /\ r[i] = hq[n + 1 - i]
  BY <1>1, <1>6, <1>10
<1>12. \A i \in Nat \ {0} : Nth(r, n + i) = Nth(fq, i)
  <2>1. ASSUME NEW i \in Nat \ {0}
        PROVE  Nth(r, n + i) = Nth(fq, i)
    <3>1. (n + i \in 1 .. n + k <=> i \in 1 .. k) /\ ~(n + i <= n) /\ (n + i) - n = i
      BY <1>1
    <3>2. i \in 1 .. k => r[n + i] = fq[i]
      BY <1>10, <3>1
    <3>3. QED BY <1>10, <3>1, <3>2 DEF Nth, k
  <2>2. QED BY <2>1
<1>13. f2 \in [Blocks -> Blocks \cup {Null}]
  <2>1. ASSUME NEW b \in ToSet(hq), b # hd
        PROVE  hq[pos(b) - 1] \in Blocks
    <3>1. PICK i \in 1 .. n : hq[i] = b
      BY <1>2, <2>1
    <3>2. pos(b) = i
      BY <1>2, <3>1 DEF n, pos
    <3>3. hq # <<>>
      BY <1>1, <1>4, <3>1
    <3>4. i # 1
      BY <1>2, <2>1, <3>1, <3>3
    <3>5. i - 1 \in 1 .. n
      BY <1>1, <3>4
    <3>6. QED BY <1>2, <3>2, <3>5
  <2>2. fr \in Blocks \cup {Null}
    BY <1>3 DEF Nth, k
  <2>3. \A b \in Blocks : f[b] \in Blocks \cup {Null}
    BY <1>1 DEF Links
  <2>4. QED BY <1>place, <2>1, <2>2, <2>3
<1>14. fr2 = Nth(r, 1)
  <2>1. CASE n = 0
    <3>1. Nth(r, n + 1) = Nth(fq, 1)
      BY <1>12
    <3>2. n + 1 = 1
      BY <2>1
    <3>3. QED BY <1>3, <1>4, <2>1, <3>1, <3>2
  <2>2. CASE n # 0
    <3>1. 1 \in 1 .. n /\ n + 1 - 1 = n
      BY <1>1, <2>2
    <3>2. r[1] = hq[n] /\ 1 \in 1 .. n + k
      BY <1>11, <3>1
    <3>3. QED BY <1>4, <1>10, <2>2, <3>2 DEF Nth, Last, n
  <2>3. QED BY <2>1, <2>2
<1>15. ASSUME NEW i \in 1 .. Len(r)
       PROVE  f2[r[i]] = Nth(r, i + 1)
  <2>1. CASE i <= n
    <3>1. i \in 1 .. n /\ n + 1 - i \in 1 .. n /\ hq # <<>>
      BY <1>1, <1>4, <1>5, <1>10, <2>1
    <3>2. PICK j \in 1 .. n : j = n + 1 - i
      BY <3>1
    <3>3. r[i] = hq[j] /\ hq[j] \in Blocks /\ hq[j] \in ToSet(hq)
      BY <1>2, <1>11, <3>1, <3>2
    <3>4. (CHOOSE l \in 1 .. Len(hq) : hq[l] = hq[j]) = j
      BY <1>2 DEF n
    <3>5. f2[hq[j]] = IF hq[j] = hd THEN fr ELSE hq[j - 1]
      <4>1. PICK b \in Blocks : b = hq[j]
        BY <3>3
      <4>2. f2[b] = IF b = hd THEN fr ELSE hq[pos(b) - 1]
        BY <1>place, <3>3, <4>1
      <4>3. pos(b) = j
        BY <3>4, <4>1 DEF pos
      <4>4. QED BY <4>1, <4>2, <4>3
    <3>6. hq[j] = hd <=> j = 1
      BY <1>2, <3>1
    <3>7. CASE j = 1
      <4>1. i = n
        BY <1>1, <3>2, <3>7
      <4>2. Nth(r, n + 1) = Nth(fq, 1)
        BY <1>12
      <4>3. QED BY <1>3, <3>3, <3>5, <3>6, <3>7, <4>1, <4>2
    <3>8. CASE j # 1
      <4>1. i + 1 \in 1 .. n /\ n + 1 - (i + 1) = j - 1
        BY <1>1, <3>1, <3>2, <3>8
      <4>2. r[i + 1] = hq[j - 1] /\ i + 1 \in 1 .. n + k
        BY <1>11, <4>1
      <4>3. QED BY <1>10, <3>3, <3>5, <3>6, <3>8, <4>2 DEF Nth
    <3>9. QED BY <3>7, <3>8
  <2>2. CASE ~(i <= n)
    <3>1. PICK j \in 1 .. k : i = n + j
      <4>1. i - n \in 1 .. k /\ i = n + (i - n)
        BY <1>1, <1>10, <2>2
      <4>2. QED BY <4>1
    <3>2. r[i] = fq[j]
      <4>1. (n + j) - n = j
        BY <1>1
      <4>2. QED BY <1>10, <2>2, <3>1, <4>1
    <3>3. fq[j] \in Blocks /\ fq[j] \notin ToSet(hq)
      BY <1>1, <1>3, <3>1
    <3>4. f2[fq[j]] = Nth(fq, j + 1)
      BY <1>place, <1>3, <3>3
    <3>5. j + 1 \in Nat \ {0} /\ n + (j + 1) = i + 1
      BY <1>1, <3>1
    <3>6. Nth(r, i + 1) = Nth(fq, j + 1)
      BY <1>12, <3>5
    <3>7. QED BY <3>2, <3>4, <3>6
  <2>3. QED BY <2>1, <2>2
<1>16. IsList(f2, fr2, r)
  BY <1>9, <1>14, <1>15 DEF IsList
<1>17. /\ IsList(f2, Null, <<>>) /\ Nth(<<>>, Len(<<>>)) = Null /\ Len(<<>>) = 0
       /\ ToSet(<<>>) = {}
  BY NoBlocks
<1> HIDE DEF fr2
<1>18. ListsAre(f2, fr2, Null, Null, 0, W, r, <<>>)
  BY <1>9, <1>13, <1>16, <1>17 DEF ListsAre, Links
<1>19. (IF tl \in ToSet(hq) THEN Null ELSE tl) = Null
  BY <1>1, <1>2 DEF Nth, n
<1>20. QED BY <1>18, <1>19 DEF fr2

\* The free list that rt_mq_init builds
LEMMA InitLists ==
  ASSUME NEW q \in SetToSeqs(Blocks),
         NEW f, f = [b \in Blocks |->
                       IF b = Last(q) THEN Null
                       ELSE q[1 + CHOOSE i \in 1 .. Len(q) : q[i] = b]]
  PROVE  ListsAre(f, q[1], Null, Null, 0, {}, q, <<>>)
<1> DEFINE n == Len(q)
<1>1. IsFiniteSet(Blocks) /\ MaxMsgs \in Nat \ {0}
  BY MessageQueueAssumption, Blocks0
<1>2. q \in [1 .. MaxMsgs -> Blocks] /\ IsInjective(q)
  BY DEF SetToSeqs, IsInjective, MaxMsgs
<1>3. q \in Seq(Blocks) /\ n = MaxMsgs
  BY <1>1, <1>2
<1>4. ToSet(q) = Blocks
  <2>1. ToSet(q) \subseteq Blocks
    BY <1>3, InToSet
  <2>2. Cardinality(ToSet(q)) = MaxMsgs
    <3>1. q \in Bijection(1 .. MaxMsgs, ToSet(q))
      BY <1>2 DEF Bijection, Injection, Surjection, IsInjective, ToSet
    <3>2. Cardinality(1 .. MaxMsgs) = MaxMsgs /\ IsFiniteSet(1 .. MaxMsgs)
      BY <1>1, FS_Interval
    <3>3. Cardinality(ToSet(q)) = Cardinality(1 .. MaxMsgs)
      BY <3>1, <3>2, FS_Bijection DEF ExistsBijection
    <3>4. QED BY <3>2, <3>3
  <2>3. QED BY <1>1, <2>1, <2>2, FS_Subset DEF MaxMsgs
<1> HIDE DEF n
<1>5. /\ \A i \in 1 .. n : q[i] \in Blocks
      /\ \A i, j \in 1 .. n : q[i] = q[j] => i = j
      /\ \A b \in Blocks : \E i \in 1 .. n : q[i] = b
      /\ n \in Nat \ {0} /\ 1 \in 1 .. n /\ n \in 1 .. n
  <2>1. n \in Nat \ {0} /\ 1 \in 1 .. n /\ n \in 1 .. n
    BY <1>1, <1>3
  <2>2. \A i \in 1 .. n : q[i] \in Blocks
    BY ONLY <1>2, <1>3
  <2>3. \A i, j \in 1 .. n : q[i] = q[j] => i = j
    BY <1>2, <1>3, InjectiveSeq DEF n
  <2>4. \A b \in Blocks : \E i \in 1 .. n : q[i] = b
    BY <1>3, <1>4, InToSet DEF n
  <2>5. QED BY <2>1, <2>2, <2>3, <2>4
<1>6. ASSUME NEW i \in 1 .. n
      PROVE  /\ f[q[i]] = Nth(q, i + 1)
             /\ f[q[i]] \in Blocks \cup {Null}
  <2>1. (CHOOSE j \in 1 .. Len(q) : q[j] = q[i]) = i
    BY <1>5 DEF n
  <2>2. f[q[i]] = IF q[i] = q[n] THEN Null ELSE q[1 + i]
    BY <1>5, <2>1 DEF Last, n
  <2>3. q[i] = q[n] <=> i = n
    BY <1>5
  <2>4. CASE i = n
    <3>1. n + 1 \notin 1 .. n
      BY <1>5
    <3>2. QED BY <2>2, <2>3, <2>4, <3>1 DEF Nth, n
  <2>5. CASE i # n
    <3>1. i + 1 \in 1 .. n /\ i + 1 = 1 + i
      BY <1>5, <2>5
    <3>2. QED BY <1>5, <2>2, <2>3, <2>5, <3>1 DEF Nth, n
  <2>6. QED BY <2>4, <2>5
<1>7. f \in Links
  <2>1. \A b \in Blocks : f[b] \in Blocks \cup {Null}
    BY <1>5, <1>6
  <2>2. QED BY <2>1 DEF Links
<1>8. IsList(f, q[1], q)
  BY <1>2, <1>3, <1>5, <1>6 DEF IsList, Nth, n
<1>9. /\ IsList(f, Null, <<>>) /\ Nth(<<>>, Len(<<>>)) = Null /\ Len(<<>>) = 0
      /\ ToSet(<<>>) = {}
  BY NoBlocks
<1>10. QED BY <1>4, <1>7, <1>8, <1>9 DEF ListsAre

\* There is an order of the blocks.
LEMMA SomeOrder == SetToSeqs(Blocks) # {}
<1>1. IsFiniteSet(Blocks)
  BY MessageQueueAssumption
<1>2. ExistsBijection(1 .. Cardinality(Blocks), Blocks)
  BY <1>1, FS_CardinalityType
<1>3. PICK q : q \in Bijection(1 .. Cardinality(Blocks), Blocks)
  BY <1>2 DEF ExistsBijection
<1>4. q \in [1 .. Cardinality(Blocks) -> Blocks] /\ IsInjective(q)
  BY <1>3 DEF Bijection, Injection, IsInjective
<1>5. \A i, j \in 1 .. Cardinality(Blocks) : i # j => q[i] # q[j]
  BY <1>4 DEF IsInjective
<1>6. q \in SetToSeqs(Blocks)
  BY <1>4, <1>5 DEF SetToSeqs
<1>7. QED BY <1>6

-----------------------------------------------------------------------------
(* The inductive invariant                                                 *)

Places == {"run", "copy", "copyFront", "copyOut",
           "sendSwitch", "sendWait", "recvSwitch", "recvWait"}

\* What there is for receivers and for senders
Left == [q \in Queue |-> IF q = "recv" THEN entry ELSE Len(Chain(free))]

WaitsOK == WaitsFor(Places, Left)

Lists(W, fq, hq) == ListsAre(next, free, head, tail, entry, W, fq, hq)

BlocksOK == \E W, fq, hq : Lists(W, fq, hq) /\ Owners(mine, W)

\* A thread owns a block exactly while it copies.
CopiersOwn ==
  \A t \in Thread : mine[t] # Null <=> pc[t] \in {"copy", "copyFront", "copyOut"}

\* A thread that sends knows what.
SendersHaveMessages ==
  \A t \in Thread : pc[t] \in {"copy", "copyFront"} \cup In("send") => value[t] \in Msg

FieldsOK ==
  /\ data \in [Blocks -> Msg \cup {NoMsg}]
  /\ live \in BOOLEAN
  /\ value \in [Thread -> Msg \cup {NoMsg}]
  /\ timed \in [Thread -> BOOLEAN]
  /\ got \in [Thread -> Msg \cup {NoMsg}]
  /\ ret \in [Thread -> {-1, 0, 1}]

ThreadsOK == CopiersOwn /\ SendersHaveMessages /\ FieldsOK

IInv ==
  /\ WaitsOK
  /\ BlocksOK
  /\ ThreadsOK

\* A step of the message queue is one of the bounded queue or changes nothing
\* of it.
AbstractStep == [Box!ChanNext]_(Box!chanVars)

\* The messages on a list
WordsOf(d, q) == [i \in 1 .. Len(q) |-> d[q[i]]]

\* The chains and the words, by the lists
LEMMA StateLists ==
  ASSUME NEW W, NEW fq, NEW hq, Lists(W, fq, hq)
  PROVE  /\ Chain(free) = fq /\ Chain(head) = hq
         /\ Words = WordsOf(data, hq)
         /\ Len(fq) \in 0 .. MaxMsgs /\ entry = Len(hq) /\ entry \in 0 .. MaxMsgs
         /\ free = Null <=> Len(fq) = 0
         /\ fq \in Seq(Blocks) /\ hq \in Seq(Blocks)
<1>1. /\ fq = ChainOf(next, free) /\ hq = ChainOf(next, head)
      /\ fq \in Seq(Blocks) /\ hq \in Seq(Blocks)
      /\ Len(fq) \in 0 .. MaxMsgs /\ Len(hq) \in 0 .. MaxMsgs
      /\ entry = Len(hq)
      /\ free = Null <=> Len(fq) = 0
  BY Lengths DEF Lists
<1>2. Chain(free) = fq /\ Chain(head) = hq
  BY <1>1, ChainIsChainOf
<1>3. Words = WordsOf(data, hq)
  BY <1>2 DEF Words, WordsOf
<1>4. QED BY <1>1, <1>2, <1>3

\* The same after a step
LEMMA StateListsAfter ==
  ASSUME NEW W, NEW fq, NEW hq,
         ListsAre(next', free', head', tail', entry', W, fq, hq)
  PROVE  /\ Chain(free)' = fq /\ Chain(head)' = hq
         /\ Words' = WordsOf(data', hq)
         /\ Len(fq) \in Nat /\ entry' = Len(hq) /\ entry' \in Nat
<1>1. /\ fq = ChainOf(next', free') /\ hq = ChainOf(next', head')
      /\ Len(fq) \in 0 .. MaxMsgs /\ Len(hq) \in 0 .. MaxMsgs
      /\ entry' = Len(hq)
  BY Lengths
<1>2. Chain(free)' = ChainOf(next', free') /\ Chain(head)' = ChainOf(next', head')
  BY DEF Chain, ChainOf, Walk, WalkOf
<1>3. Words' = WordsOf(data', hq)
  BY <1>1, <1>2 DEF Words, WordsOf
<1>4. QED BY <1>1, <1>2, <1>3, Blocks0

\* Before a step: the lists, the owned blocks and the numbers of what there is
LEMMA Before ==
  ASSUME IInv
  PROVE  \E W, fq, hq, n :
           /\ Lists(W, fq, hq) /\ Owners(mine, W)
           /\ n \in [Queue -> Nat] /\ n = Left /\ WaitsFor(Places, n)
           /\ n["recv"] = entry /\ n["send"] = Len(fq)
<1>1. PICK W, fq, hq : Lists(W, fq, hq) /\ Owners(mine, W)
  BY DEF IInv, BlocksOK
<1>2. /\ Chain(free) = fq /\ Len(fq) \in Nat /\ entry \in Nat
  BY <1>1, StateLists, Blocks0
<1>3. Left \in [Queue -> Nat] /\ Left["recv"] = entry /\ Left["send"] = Len(fq)
  BY <1>2, MessageQueueAssumption DEF Left
<1>4. WaitsFor(Places, Left)
  BY DEF IInv, WaitsOK
<1>5. QED BY <1>1, <1>3, <1>4

\* After a step: what it has to show for the lists and the waits
LEMMA After ==
  ASSUME NEW W, NEW fq, NEW hq,
         ListsAre(next', free', head', tail', entry', W, fq, hq), Owners(mine', W)
  PROVE  /\ BlocksOK'
         /\ \E m \in [Queue -> Nat] : /\ m["recv"] = Len(hq) /\ m["send"] = Len(fq)
                                      /\ WaitsFor(Places, m)' => WaitsOK'
<1>1. /\ Chain(free)' = fq
      /\ Len(fq) \in Nat /\ entry' = Len(hq) /\ Len(hq) \in Nat
  BY StateListsAfter
<1>2. BlocksOK'
  BY DEF BlocksOK, Lists
<1>3. PICK m : m = [q \in Queue |-> IF q = "recv" THEN Len(hq) ELSE Len(fq)]
  OBVIOUS
<1>4. m \in [Queue -> Nat] /\ m["recv"] = Len(hq) /\ m["send"] = Len(fq)
  BY <1>1, <1>3, MessageQueueAssumption
<1>5. Left' = m
  BY <1>1, <1>3 DEF Left
<1>6. WaitsFor(Places, m)' => WaitsOK'
  BY <1>5 DEF WaitsOK, WaitsFor
<1>7. QED BY <1>2, <1>4, <1>6

\* A step that leaves the lists and their blocks alone
LEMMA SameLists ==
  ASSUME IInv, UNCHANGED <<lists, mine>>,
         NEW n, n = Left, WaitsFor(Places, n)'
  PROVE  WaitsOK' /\ BlocksOK' /\ Words' = Words
<1>1. UNCHANGED <<next, data, head, tail, free, entry, mine>>
  BY DEF lists
<1>2. BlocksOK'
  BY <1>1 DEF IInv, BlocksOK, Lists
<1>3. Chain(free)' = Chain(free) /\ Chain(head)' = Chain(head)
  BY <1>1 DEF Chain, Walk
<1>4. Words' = Words
  BY <1>1, <1>3 DEF Words
<1>5. Left' = Left
  BY <1>1, <1>3 DEF Left
<1>6. WaitsOK'
  BY <1>5 DEF WaitsOK, WaitsFor
<1>7. QED BY <1>2, <1>4, <1>6

\* The names that the lemmas about waits use
LEMMA Parts ==
  /\ TwoLists(Places)
  /\ Queue = {"recv", "send"} /\ "recv" \in Queue /\ "send" \in Queue
  /\ Coming("recvSwitch", "recvWait") = Bound("recv")
  /\ Coming("sendSwitch", "sendWait") = Bound("send")
  /\ In("recv") = {"recvSwitch", "recvWait"} /\ In("send") = {"sendSwitch", "sendWait"}
BY MessageQueueAssumption DEF TwoLists, Places, Coming, Bound, In

\* The invariant says what the properties say.
LEMMA InvFromIInv ==
  ASSUME IInv
  PROVE  QueueInv /\ NoMessageForgotten /\ NoRoomForgotten
<1>1. PICK W, fq, hq, n :
           /\ Lists(W, fq, hq) /\ Owners(mine, W)
           /\ n \in [Queue -> Nat] /\ n = Left /\ WaitsFor(Places, n)
           /\ n["recv"] = entry /\ n["send"] = Len(fq)
  BY Before
<1>2. /\ Chain(free) = fq /\ Chain(head) = hq
      /\ entry = Len(hq) /\ entry \in 0 .. MaxMsgs
      /\ fq \in Seq(Blocks) /\ hq \in Seq(Blocks)
  BY <1>1, StateLists
<1>3. /\ next \in Links
      /\ free \in Blocks \cup {Null} /\ head \in Blocks \cup {Null} /\ tail \in Blocks \cup {Null}
      /\ tail = IF hq = <<>> THEN Null ELSE Last(hq)
  <2>1. ListsAre(next, free, head, tail, entry, W, fq, hq)
    BY <1>1 DEF Lists
  <2>2. next \in Links
    BY <2>1 DEF ListsAre
  <2>3. QED BY ONLY <2>1, <2>2, Lengths
<1>4. TypeOK
  BY <1>1, <1>2, <1>3
     DEF IInv, WaitsOK, WaitsFor, WaitTypeOK, Places, Owners, ThreadsOK, FieldsOK, Links, TypeOK
<1>5. BlocksAccounted
  <2>1. /\ IsInjective(fq) /\ IsInjective(hq)
        /\ ToSet(fq) \cap ToSet(hq) = {}
        /\ ToSet(fq) \cap W = {} /\ ToSet(hq) \cap W = {}
        /\ ToSet(fq) \cup ToSet(hq) \cup W = Blocks
    BY <1>1 DEF Lists, ListsAre, IsList
  <2>2. ToSet(fq \o hq) = ToSet(fq) \cup ToSet(hq) /\ IsInjective(fq \o hq)
    BY <1>2, <2>1, ConcatSeq
  <2>3. /\ {mine[t] : t \in InUse} = W
        /\ \A t, u \in InUse : t # u => mine[t] # mine[u]
    BY <1>1 DEF Owners, InUse
  <2>4. QED BY <1>2, <2>1, <2>2, <2>3 DEF BlocksAccounted
<1>6. TailIsLast
  BY <1>2, <1>3 DEF TailIsLast
<1>7. NoMessageForgotten /\ NoRoomForgotten
  BY <1>1, <1>2, Parts DEF WaitsFor, NoMessageForgotten, NoRoomForgotten
<1>8. QED BY <1>4, <1>5, <1>6, <1>7 DEF QueueInv

\* Sequence r is q with c behind it, or before it; memory d2 is d with v in c.
\* (The lemmas below name these, so that the provers need not look inside.)
Follows(q, c, r) == r = Append(q, c)
Leads(q, c, r) == r = <<c>> \o q
Written(d, c, v, d2) == d2 = [d EXCEPT ![c] = v]

\* The words when a block comes behind the last, comes before the first or
\* leaves from the front
LEMMA WordsLast ==
  ASSUME NEW q \in Seq(Blocks), NEW c \in Blocks \ ToSet(q), NEW v \in Msg,
         NEW d \in [Blocks -> Msg \cup {NoMsg}], NEW d2, Written(d, c, v, d2),
         NEW r, Follows(q, c, r)
  PROVE  /\ Follows(WordsOf(d, q), v, WordsOf(d2, r))
         /\ Len(WordsOf(d, q)) = Len(q)
<1> DEFINE M == Msg \cup {NoMsg}
           w == WordsOf(d, q)
           w2 == WordsOf(d2, r)
<1>1. Len(q) \in Nat /\ \A i \in 1 .. Len(q) : q[i] \in Blocks /\ q[i] # c
  BY InToSet
<1>2. /\ r \in Seq(Blocks) /\ Len(r) = Len(q) + 1 /\ r[Len(q) + 1] = c
      /\ \A i \in 1 .. Len(q) : r[i] = q[i]
  BY AppendProperties DEF Follows
<1>3. d2 \in [Blocks -> M] /\ d2[c] = v /\ \A b \in Blocks \ {c} : d2[b] = d[b]
  BY DEF Written
<1>4. w \in Seq(M) /\ Len(w) = Len(q) /\ \A i \in 1 .. Len(q) : w[i] = d[q[i]]
  BY <1>1 DEF WordsOf
<1>5. ASSUME NEW i \in 1 .. Len(r)
      PROVE  /\ r[i] \in Blocks
             /\ d2[r[i]] = IF i = Len(q) + 1 THEN v ELSE d[q[i]]
  <2>1. CASE i = Len(q) + 1
    BY <1>2, <1>3, <2>1
  <2>2. CASE i # Len(q) + 1
    <3>1. i \in 1 .. Len(q)
      BY <1>1, <1>2, <2>2
    <3>2. QED BY <1>1, <1>2, <1>3, <2>2, <3>1
  <2>3. QED BY <2>1, <2>2
<1>6. w2 \in Seq(M) /\ Len(w2) = Len(q) + 1 /\ \A i \in 1 .. Len(r) : w2[i] = d2[r[i]]
  BY <1>1, <1>2, <1>3, <1>5 DEF WordsOf
<1> HIDE DEF w, w2, M
<1>7. v \in M
  BY DEF M
<1>8. /\ Append(w, v) \in Seq(M) /\ Len(Append(w, v)) = Len(q) + 1
      /\ Append(w, v)[Len(q) + 1] = v
      /\ \A i \in 1 .. Len(q) : Append(w, v)[i] = w[i]
  BY <1>4, <1>7, AppendProperties
<1>9. ASSUME NEW i \in 1 .. Len(q) + 1
      PROVE  w2[i] = Append(w, v)[i]
  <2>1. CASE i = Len(q) + 1
    BY <1>2, <1>5, <1>6, <1>8, <2>1
  <2>2. CASE i # Len(q) + 1
    <3>1. i \in 1 .. Len(q)
      BY <1>1, <2>2
    <3>2. QED BY <1>2, <1>4, <1>5, <1>6, <1>8, <2>2, <3>1
  <2>3. QED BY <2>1, <2>2
<1>10. w2 = Append(w, v)
  BY <1>6, <1>8, <1>9, SeqEqual
<1>11. QED BY <1>4, <1>10 DEF w, w2, Follows

\* A block before the first
LEMMA WordsFirst ==
  ASSUME NEW q \in Seq(Blocks), NEW c \in Blocks \ ToSet(q), NEW v \in Msg,
         NEW d \in [Blocks -> Msg \cup {NoMsg}], NEW d2, Written(d, c, v, d2),
         NEW r, Leads(q, c, r)
  PROVE  /\ Leads(WordsOf(d, q), v, WordsOf(d2, r))
         /\ Len(WordsOf(d, q)) = Len(q)
<1> DEFINE M == Msg \cup {NoMsg}
           w == WordsOf(d, q)
           w2 == WordsOf(d2, r)
<1>1. Len(q) \in Nat /\ \A i \in 1 .. Len(q) : q[i] \in Blocks /\ q[i] # c
  BY InToSet
<1>2. /\ r \in Seq(Blocks) /\ Len(r) = Len(q) + 1 /\ r[1] = c
      /\ \A i \in 1 .. Len(q) : r[i + 1] = q[i]
  <2>1. <<c>> \in Seq(Blocks) /\ Len(<<c>>) = 1 /\ <<c>>[1] = c
    OBVIOUS
  <2>2. QED BY <1>1, <2>1, ConcatProperties DEF Leads
<1>3. d2 \in [Blocks -> M] /\ d2[c] = v /\ \A b \in Blocks \ {c} : d2[b] = d[b]
  BY DEF Written
<1>4. w \in Seq(M) /\ Len(w) = Len(q) /\ \A i \in 1 .. Len(q) : w[i] = d[q[i]]
  BY <1>1 DEF WordsOf
<1>5. \A i \in 1 .. Len(r) : r[i] \in Blocks
  BY <1>2, ElementOfSeq
<1>6. w2 \in Seq(M) /\ Len(w2) = Len(q) + 1 /\ \A i \in 1 .. Len(r) : w2[i] = d2[r[i]]
  BY <1>1, <1>2, <1>3, <1>5 DEF WordsOf
<1> HIDE DEF w, w2, M
<1>7. v \in M
  BY DEF M
<1> DEFINE s == <<v>> \o w
<1>8. /\ s \in Seq(M) /\ Len(s) = Len(q) + 1 /\ s[1] = v
      /\ \A i \in 1 .. Len(q) : s[i + 1] = w[i]
  <2>1. <<v>> \in Seq(M) /\ Len(<<v>>) = 1 /\ <<v>>[1] = v
    BY <1>7
  <2>2. QED BY <1>1, <1>4, <2>1, ConcatProperties
<1> HIDE DEF s
<1>9. ASSUME NEW i \in 1 .. Len(q) + 1
      PROVE  w2[i] = s[i]
  <2>1. CASE i = 1
    <3>1. w2[i] = d2[c]
      BY <1>2, <1>6, <2>1
    <3>2. QED BY <1>3, <1>8, <2>1, <3>1
  <2>2. CASE i # 1
    <3>1. PICK k \in 1 .. Len(q) : i = k + 1
      BY <1>1, <2>2
    <3>2. w2[i] = d2[q[k]] /\ d2[q[k]] = d[q[k]]
      BY <1>1, <1>2, <1>3, <1>6, <3>1
    <3>3. s[i] = d[q[k]]
      BY <1>4, <1>8, <3>1
    <3>4. QED BY <3>2, <3>3
  <2>3. QED BY <2>1, <2>2
<1>10. w2 = s
  BY <1>6, <1>8, <1>9, SeqEqual
<1>11. QED BY <1>4, <1>10 DEF w, w2, s, Leads

\* The first block gone
LEMMA WordsTail ==
  ASSUME NEW q \in Seq(Blocks), q # <<>>, NEW d \in [Blocks -> Msg \cup {NoMsg}]
  PROVE  /\ WordsOf(d, q) # <<>>
         /\ Head(WordsOf(d, q)) = d[Head(q)]
         /\ WordsOf(d, Tail(q)) = Tail(WordsOf(d, q))
<1> DEFINE M == Msg \cup {NoMsg}
           w == WordsOf(d, q)
           r == Tail(q)
           w2 == WordsOf(d, r)
<1>1. /\ Len(q) \in Nat \ {0} /\ \A i \in 1 .. Len(q) : q[i] \in Blocks
  BY EmptySeq, ElementOfSeq
<1>2. Head(q) = q[1] /\ 1 \in 1 .. Len(q)
  BY <1>1
<1>3. r \in Seq(Blocks) /\ Len(r) = Len(q) - 1 /\ \A i \in 1 .. Len(r) : r[i] = q[i + 1]
  BY HeadTailProperties
<1> HIDE DEF r
<1>4. w \in Seq(M) /\ Len(w) = Len(q) /\ \A i \in 1 .. Len(q) : w[i] = d[q[i]]
  BY <1>1 DEF WordsOf
<1>5. \A i \in 1 .. Len(r) : r[i] \in Blocks
  BY <1>3, ElementOfSeq
<1>6. w2 \in Seq(M) /\ Len(w2) = Len(q) - 1 /\ \A i \in 1 .. Len(r) : w2[i] = d[r[i]]
  BY <1>1, <1>3, <1>5 DEF WordsOf
<1> HIDE DEF w, w2, M
<1>7. w # <<>>
  BY <1>1, <1>4, EmptySeq
<1>8. /\ Tail(w) \in Seq(M) /\ Len(Tail(w)) = Len(q) - 1
      /\ \A i \in 1 .. Len(Tail(w)) : Tail(w)[i] = w[i + 1]
  BY <1>4, <1>7, HeadTailProperties
<1>9. Head(w) = d[Head(q)]
  BY <1>2, <1>4, <1>7
<1>10. ASSUME NEW i \in 1 .. Len(q) - 1
       PROVE  w2[i] = Tail(w)[i]
  <2>1. i + 1 \in 1 .. Len(q) /\ i \in 1 .. Len(r)
    BY <1>1, <1>3
  <2>2. w2[i] = d[q[i + 1]]
    BY ONLY <1>3, <1>6, <2>1
  <2>3. Tail(w)[i] = d[q[i + 1]]
    BY <1>4, <1>8, <2>1
  <2>4. QED BY <2>2, <2>3
<1>11. w2 = Tail(w)
  BY <1>6, <1>8, <1>10, SeqEqual
<1>12. QED BY <1>7, <1>9, <1>11 DEF w, w2, r

-----------------------------------------------------------------------------
(* The actions                                                             *)

\* A sender takes a block, with the message to copy into it.
LEMMA SendBegins ==
  ASSUME IInv, NEW t \in Thread, NEW v, NEW l \in {"copy", "copyFront"},
         (v \in Msg /\ SendNow(t, v, l)) \/ SendGoesOn(t)
  PROVE  IInv' /\ AbstractStep
<1>1. /\ At(t, "run") \/ At(t, "sendWait")
      /\ free # Null /\ free' = next[free]
      /\ mine' = [mine EXCEPT ![t] = free]
      /\ UNCHANGED <<sched, waitq, timer, ttmr, err, next, data, head, tail, entry, live, got, ret>>
  BY DEF SendNow, SendGoesOn, Pop
<1>2. PICK k \in {"copy", "copyFront"} : pc' = [pc EXCEPT ![t] = k]
  BY DEF SendNow, SendGoesOn
<1>3. PICK W, fq, hq, n :
           /\ Lists(W, fq, hq) /\ Owners(mine, W)
           /\ n \in [Queue -> Nat] /\ n = Left /\ WaitsFor(Places, n)
           /\ n["recv"] = entry /\ n["send"] = Len(fq)
  BY Before
<1>4. /\ pc \in [Thread -> Places] /\ CopiersOwn /\ SendersHaveMessages /\ FieldsOK
  BY DEF IInv, WaitsOK, WaitsFor, WaitTypeOK, ThreadsOK
<1>5. pc[t] \in {"run", "sendWait"} /\ At(t, pc[t]) /\ mine[t] = Null
  BY <1>1, <1>4 DEF At, CopiersOwn
<1>6. PICK V, gq : V = W \cup {free} /\ gq = Tail(fq)
  OBVIOUS
<1>7. free \in Blocks \ W /\ Len(gq) = Len(fq) - 1
  <2>1. free \in Blocks \ W
    BY <1>1, <1>3, PopLists DEF Lists
  <2>2. fq \in Seq(Blocks) /\ fq # <<>>
    BY <1>1, <1>3, StateLists, EmptySeq
  <2>3. Len(Tail(fq)) = Len(fq) - 1
    BY <2>2, HeadTailProperties
  <2>4. QED BY <1>6, <2>1, <2>3
<1>8. ListsAre(next', free', head', tail', entry', V, gq, hq)
  BY <1>1, <1>3, <1>6, PopLists DEF Lists
<1>9. Owners(mine', V)
  BY <1>1, <1>3, <1>5, <1>6, <1>7, Own
<1>10. /\ BlocksOK'
       /\ \E m \in [Queue -> Nat] : /\ m["recv"] = Len(hq) /\ m["send"] = Len(gq)
                                    /\ WaitsFor(Places, m)' => WaitsOK'
  BY ONLY <1>8, <1>9, After
<1>11. WaitsOK'
  <2> PICK m \in [Queue -> Nat] : /\ m["recv"] = Len(hq) /\ m["send"] = Len(gq)
                                  /\ WaitsFor(Places, m)' => WaitsOK'
    BY <1>10
  <2>1. entry = Len(hq) /\ Len(fq) \in Nat
    BY <1>3, StateLists, Blocks0
  <2>2. \A p \in Queue : /\ m[p] <= n[p]
                         /\ t \in Bound(p) => m[p] = 0 \/ m[p] < n[p]
    <3>1. m["recv"] <= n["recv"] /\ m["send"] < n["send"] /\ m["send"] <= n["send"]
      BY <1>3, <1>7, <2>1, Parts
    <3>2. t \notin Bound("recv")
      BY <1>5, Parts DEF Bound
    <3>3. QED BY <3>1, <3>2, Parts
  <2>3. k \in Places /\ \A p \in Queue : k \notin In(p)
    BY <1>2, Parts DEF Places
  <2>4. WaitsFor(Places, m)'
    BY <1>1, <1>2, <1>3, <1>5, <2>2, <2>3, Parts, MoveSide
  <2>5. QED BY <2>4
<1>12. CopiersOwn'
  <2>1. mine'[t] = free /\ free # Null /\ pc'[t] = k
    BY <1>1, <1>2, <1>3, <1>4 DEF Owners
  <2>2. \A u \in Thread \ {t} : mine'[u] = mine[u] /\ pc'[u] = pc[u]
    BY <1>1, <1>2, <1>3, <1>4 DEF Owners
  <2>3. QED BY <1>4, <2>1, <2>2 DEF CopiersOwn
<1>13. /\ value' \in [Thread -> Msg \cup {NoMsg}]
       /\ value'[t] \in Msg
       /\ \A u \in Thread \ {t} : value'[u] = value[u]
       /\ timed' \in [Thread -> BOOLEAN]
  <2>1. CASE v \in Msg /\ SendNow(t, v, l)
    BY <1>4, <2>1 DEF SendNow, FieldsOK
  <2>2. CASE SendGoesOn(t)
    BY <1>4, <2>2, Parts DEF SendGoesOn, FieldsOK, SendersHaveMessages, At
  <2>3. QED BY <2>1, <2>2
<1>14. SendersHaveMessages'
  BY <1>2, <1>4, <1>13 DEF SendersHaveMessages
<1>15. FieldsOK'
  BY <1>1, <1>4, <1>13 DEF FieldsOK
<1>16. UNCHANGED Box!chanVars
  <2>1. Words' = WordsOf(data', hq)
    BY <1>8, StateListsAfter
  <2>2. Words = WordsOf(data, hq)
    BY <1>3, StateLists
  <2>3. QED BY <1>1, <2>1, <2>2 DEF Box!chanVars
<1>17. QED BY <1>10, <1>11, <1>12, <1>14, <1>15, <1>16 DEF IInv, ThreadsOK, AbstractStep

\* A block with a message becomes part of the queue: the step of the lists, for
\* the two ends and for a block that was taken off the free list just now
LEMMA LinkedLists ==
  ASSUME NEW W, NEW fr, NEW fq, NEW hq, NEW v \in Msg,
         ListsAre(next, fr, head, tail, entry, W, fq, hq), FieldsOK,
         NEW c \in W, LinkLast(c, v) \/ LinkFirst(c, v)
  PROVE  /\ \E V, gq : /\ V = W \ {c}
                       /\ ListsAre(next', fr, head', tail', entry', V, fq, gq)
                       /\ Len(gq) = Len(hq) + 1
                       /\ \/ Follows(WordsOf(data, hq), v, WordsOf(data', gq))
                          \/ Leads(WordsOf(data, hq), v, WordsOf(data', gq))
         /\ Len(WordsOf(data, hq)) = Len(hq) /\ Len(hq) + 1 \in 0 .. MaxMsgs
         /\ data' \in [Blocks -> Msg \cup {NoMsg}]
<1>1. /\ data \in [Blocks -> Msg \cup {NoMsg}]
      /\ c \in Blocks \ ToSet(hq) /\ hq \in Seq(Blocks) /\ entry = Len(hq) /\ Len(hq) \in Nat
  BY Lengths, Blocks0 DEF ListsAre, FieldsOK, IsList
<1>2. data' = [data EXCEPT ![c] = v] /\ entry' = entry + 1
  BY DEF LinkLast, LinkFirst
<1>written. Written(data, c, v, data')
  BY <1>2 DEF Written
<1>3. data' \in [Blocks -> Msg \cup {NoMsg}]
  BY <1>1, <1>2
<1>4. PICK V : V = W \ {c}
  OBVIOUS
<1>5. \E gq : /\ ListsAre(next', fr, head', tail', entry', V, fq, gq)
              /\ Len(gq) = Len(hq) + 1
              /\ \/ Follows(WordsOf(data, hq), v, WordsOf(data', gq))
                 \/ Leads(WordsOf(data, hq), v, WordsOf(data', gq))
  <2>1. CASE LinkLast(c, v)
    <3>1. /\ next' = IF tail = Null THEN [next EXCEPT ![c] = Null]
                                    ELSE [next EXCEPT ![c] = Null, ![tail] = c]
          /\ head' = (IF head = Null THEN c ELSE head) /\ tail' = c
      BY <2>1 DEF LinkLast
    <3>2. PICK gq : gq = Append(hq, c)
      OBVIOUS
    <3>follows. Follows(hq, c, gq)
      BY <3>2 DEF Follows
    <3>3. ListsAre(next', fr, head', tail', entry', V, fq, gq)
      <4>1. ListsAre(next', fr, IF head = Null THEN c ELSE head, c, entry + 1,
                     W \ {c}, fq, Append(hq, c))
        BY <3>1, LastLists
      <4>2. QED BY <1>2, <1>4, <3>1, <3>2, <4>1
    <3>4. Len(gq) = Len(hq) + 1
      BY <1>1, <3>2, AppendProperties
    <3>5. Follows(WordsOf(data, hq), v, WordsOf(data', gq))
      BY <1>1, <1>written, <3>follows, WordsLast
    <3>6. QED BY <3>3, <3>4, <3>5
  <2>2. CASE LinkFirst(c, v)
    <3>1. /\ next' = [next EXCEPT ![c] = head]
          /\ head' = c /\ tail' = IF tail = Null THEN c ELSE tail
      BY <2>2 DEF LinkFirst
    <3>2. PICK gq : gq = <<c>> \o hq
      OBVIOUS
    <3>leads. Leads(hq, c, gq)
      BY <3>2 DEF Leads
    <3>3. ListsAre(next', fr, head', tail', entry', V, fq, gq)
      BY <1>2, <1>4, <3>1, <3>2, FirstLists
    <3>4. Len(gq) = Len(hq) + 1
      <4>1. <<c>> \in Seq(Blocks) /\ Len(<<c>>) = 1
        BY <1>1
      <4>2. QED BY <1>1, <3>2, <4>1, ConcatProperties
    <3>5. Leads(WordsOf(data, hq), v, WordsOf(data', gq))
      BY <1>1, <1>written, <3>leads, WordsFirst
    <3>6. QED BY <3>3, <3>4, <3>5
  <2>3. QED BY <2>1, <2>2
<1>6. Len(hq) + 1 \in 0 .. MaxMsgs
  <2>1. PICK gq : /\ ListsAre(next', fr, head', tail', entry', V, fq, gq)
                  /\ Len(gq) = Len(hq) + 1
    BY <1>5
  <2>2. Len(gq) \in 0 .. MaxMsgs
    BY <2>1, Lengths
  <2>3. QED BY <2>1, <2>2
<1>7. Len(WordsOf(data, hq)) = Len(hq)
  <2>1. PICK r : Follows(hq, c, r)
    BY DEF Follows
  <2>2. QED BY <1>1, <1>written, <2>1, WordsLast
<1>8. QED BY <1>3, <1>4, <1>5, <1>6, <1>7

\* The message enters the queue: by a sender that has copied it, or by an
\* interrupt, which takes the block in the same step.
LEMMA SendLinks ==
  ASSUME IInv, NEW t \in Thread, NEW v, SendLink(t) \/ (v \in Msg /\ SendIsr(v))
  PROVE  IInv' /\ AbstractStep
<1>1. PICK W, fq, hq, n :
           /\ Lists(W, fq, hq) /\ Owners(mine, W)
           /\ n \in [Queue -> Nat] /\ n = Left /\ WaitsFor(Places, n)
           /\ n["recv"] = entry /\ n["send"] = Len(fq)
  BY Before
<1>2. /\ pc \in [Thread -> Places] /\ CopiersOwn /\ SendersHaveMessages /\ FieldsOK
  BY DEF IInv, WaitsOK, WaitsFor, WaitTypeOK, ThreadsOK
<1>3. entry = Len(hq) /\ Len(hq) \in Nat /\ Len(fq) \in Nat
  BY <1>1, StateLists, Blocks0
<1>4. WakeOne("recv", "ok") /\ UNCHANGED <<live, timed, got, ret>>
  BY DEF SendLink, SendIsr, LinkLast, LinkFirst
\* What each of the two shows, and what follows
<1> DEFINE Enters(w) ==
      \E V, eq, gq :
        /\ ListsAre(next', free', head', tail', entry', V, eq, gq) /\ Owners(mine', V)
        /\ Len(gq) = Len(hq) + 1 /\ Len(eq) <= Len(fq) /\ Len(eq) \in Nat
        /\ \/ Follows(WordsOf(data, hq), w, WordsOf(data', gq))
           \/ Leads(WordsOf(data, hq), w, WordsOf(data', gq))
<1>5. ASSUME NEW w \in Msg, Enters(w), Len(WordsOf(data, hq)) < MaxMsgs,
             \/ pc' = pc
             \/ \E u \in Thread : /\ sched.stat[u] = "running"
                                  /\ pc[u] \in {"copy", "copyFront"}
                                  /\ pc' = [pc EXCEPT ![u] = "run"]
      PROVE  WaitsOK' /\ BlocksOK' /\ AbstractStep
  <2>1. PICK V, eq, gq :
        /\ ListsAre(next', free', head', tail', entry', V, eq, gq) /\ Owners(mine', V)
        /\ Len(gq) = Len(hq) + 1 /\ Len(eq) <= Len(fq) /\ Len(eq) \in Nat
        /\ \/ Follows(WordsOf(data, hq), w, WordsOf(data', gq))
           \/ Leads(WordsOf(data, hq), w, WordsOf(data', gq))
    BY <1>5
  <2>2. BlocksOK'
    BY <2>1, After
  <2>3. PICK m \in [Queue -> Nat] : /\ m["recv"] = Len(gq) /\ m["send"] = Len(eq)
                                    /\ WaitsFor(Places, m)' => WaitsOK'
    BY <2>1, After
  <2>4. WaitsFor(Places, m)'
    <3>1. m["recv"] <= n["recv"] + 1 /\ m["send"] <= n["send"]
      BY <1>1, <1>3, <2>1, <2>3
    <3>2. \/ pc' = pc
          \/ \E u \in Thread : /\ sched.stat[u] = "running" /\ pc[u] # "run"
                               /\ pc[u] \notin In("recv")
                               /\ pc[u] \in In("send") => m["send"] < n["send"]
                               /\ pc' = [pc EXCEPT ![u] = "run"]
      BY <1>5, Parts
    <3>3. "recv" \in Queue /\ "send" \in Queue /\ "send" # "recv" /\ TwoLists(Places)
      BY Parts
    <3>4. m \in [Queue -> Nat] /\ n \in [Queue -> Nat] /\ WaitsFor(Places, n)
      BY <1>1
    <3>5. m["send"] <= n["send"] /\ m["recv"] <= n["recv"] + 1 /\ WakeOne("recv", "ok")
      BY <1>4, <3>1
    <3>6. QED BY ONLY <3>2, <3>3, <3>4, <3>5, WakeSide
  <2>5. Words' = WordsOf(data', gq)
    BY <2>1, StateListsAfter
  <2>6. Words = WordsOf(data, hq)
    BY <1>1, StateLists
  <2>7. Box!Put(w) \/ Box!PutFirst(w)
    BY <1>4, <1>5, <2>1, <2>5, <2>6 DEF Box!Put, Box!PutFirst, Follows, Leads
  <2>8. AbstractStep
    BY <2>7 DEF AbstractStep, Box!ChanNext
  <2>9. QED BY <2>2, <2>3, <2>4, <2>8
<1> HIDE DEF Enters
<1>6. CASE SendLink(t)
  <2>1. PICK c, w : c = mine[t] /\ w = value[t]
    OBVIOUS
  <2>2. /\ At(t, "copy") \/ At(t, "copyFront")
        /\ LinkLast(c, w) \/ LinkFirst(c, w)
        /\ mine' = [mine EXCEPT ![t] = Null]
        /\ value' = [value EXCEPT ![t] = NoMsg]
        /\ pc' = [pc EXCEPT ![t] = "run"]
        /\ free' = free
    BY <1>6, <2>1 DEF SendLink
  <2>3. /\ sched.stat[t] = "running" /\ pc[t] \in {"copy", "copyFront"}
        /\ mine[t] # Null /\ w \in Msg
    BY <1>2, <2>1, <2>2 DEF At, CopiersOwn, SendersHaveMessages
  <2>4. c \in W /\ Owners(mine', W \ {c})
    BY <1>1, <2>1, <2>2, <2>3, Disown
  <2>5. ListsAre(next, free, head, tail, entry, W, fq, hq)
    BY <1>1 DEF Lists
  <2>6. /\ \E V, gq : /\ V = W \ {c}
                      /\ ListsAre(next', free, head', tail', entry', V, fq, gq)
                      /\ Len(gq) = Len(hq) + 1
                      /\ \/ Follows(WordsOf(data, hq), w, WordsOf(data', gq))
                         \/ Leads(WordsOf(data, hq), w, WordsOf(data', gq))
        /\ Len(WordsOf(data, hq)) = Len(hq) /\ Len(hq) + 1 \in 0 .. MaxMsgs
        /\ data' \in [Blocks -> Msg \cup {NoMsg}]
    BY ONLY <1>2, <2>2, <2>3, <2>4, <2>5, LinkedLists
  <2>7. Enters(w)
    BY <1>3, <2>2, <2>4, <2>6 DEF Enters
  <2>8. Len(WordsOf(data, hq)) < MaxMsgs
    BY <1>3, <2>6, Blocks0
  <2>9. WaitsOK' /\ BlocksOK' /\ AbstractStep
    BY <1>5, <2>2, <2>3, <2>7, <2>8
  <2>10. /\ mine' \in [Thread -> Blocks \cup {Null}] /\ mine'[t] = Null /\ pc'[t] = "run"
         /\ \A u \in Thread \ {t} : /\ mine'[u] = mine[u] /\ pc'[u] = pc[u]
                                    /\ value'[u] = value[u]
         /\ value' \in [Thread -> Msg \cup {NoMsg}]
    BY <1>1, <1>2, <2>2 DEF Owners, FieldsOK
  <2>11. CopiersOwn'
    BY <1>2, <2>10 DEF CopiersOwn
  <2>12. SendersHaveMessages'
    BY <1>2, <2>10, Parts DEF SendersHaveMessages
  <2>13. FieldsOK'
    BY <1>2, <1>4, <2>6, <2>10 DEF FieldsOK
  <2>14. QED BY <2>9, <2>11, <2>12, <2>13 DEF IInv, ThreadsOK
<1>7. CASE v \in Msg /\ SendIsr(v)
  <2>1. PICK c : c = free
    OBVIOUS
  <2>2. /\ c # Null /\ free' = next[c] /\ LinkLast(c, v)
        /\ UNCHANGED <<pc, mine, value>>
    BY <1>7, <2>1 DEF SendIsr, Pop
  <2>3. ListsAre(next, c, head, tail, entry, W, fq, hq)
    BY <1>1, <2>1 DEF Lists
  <2>4. PICK V, eq : V = W \cup {c} /\ eq = Tail(fq)
    OBVIOUS
  <2>5. c \in Blocks \ W
    BY <2>2, <2>3, PopLists
  <2>6. ListsAre(next, next[c], head, tail, entry, V, eq, hq)
    BY <2>2, <2>3, <2>4, PopLists
  <2>7. Len(eq) <= Len(fq) /\ Len(eq) \in Nat
    <3>1. fq \in Seq(Blocks) /\ fq # <<>>
      BY <1>1, <2>1, <2>2, StateLists, EmptySeq
    <3>2. Len(eq) = Len(fq) - 1 /\ Len(eq) \in 0 .. MaxMsgs
      BY <2>4, <2>6, <3>1, Lengths, HeadTailProperties
    <3>3. QED BY <1>3, <3>2, Blocks0
  <2>8. c \in V /\ V \ {c} = W
    BY <2>4, <2>5
  <2>9. PICK fr : fr = next[c]
    OBVIOUS
  <2>10. ListsAre(next, fr, head, tail, entry, V, eq, hq)
    BY <2>6, <2>9
  <2>11. /\ \E U, gq : /\ U = V \ {c}
                       /\ ListsAre(next', fr, head', tail', entry', U, eq, gq)
                       /\ Len(gq) = Len(hq) + 1
                       /\ \/ Follows(WordsOf(data, hq), v, WordsOf(data', gq))
                          \/ Leads(WordsOf(data, hq), v, WordsOf(data', gq))
         /\ Len(WordsOf(data, hq)) = Len(hq) /\ Len(hq) + 1 \in 0 .. MaxMsgs
         /\ data' \in [Blocks -> Msg \cup {NoMsg}]
    BY ONLY <1>2, <1>7, <2>2, <2>8, <2>10, LinkedLists
  <2>12. Owners(mine', W)
    BY <1>1, <2>2
  <2>13. Enters(v)
    BY <2>2, <2>7, <2>8, <2>9, <2>11, <2>12 DEF Enters
  <2>14. Len(WordsOf(data, hq)) < MaxMsgs
    BY <1>3, <2>11, Blocks0
  <2>15. WaitsOK' /\ BlocksOK' /\ AbstractStep
    BY <1>5, <1>7, <2>2, <2>13, <2>14
  <2>16. CopiersOwn' /\ SendersHaveMessages' /\ FieldsOK'
    BY <1>2, <1>4, <2>2, <2>11 DEF CopiersOwn, SendersHaveMessages, FieldsOK
  <2>17. QED BY <2>15, <2>16 DEF IInv, ThreadsOK
<1>8. QED BY <1>6, <1>7

\* What a step that takes the first block, c, off the queue gives the fields and
\* the lists
FirstGone(W, hq, c, hd, tl, e, V, gq) ==
  /\ c = head
  /\ hd = next[c]
  /\ tl = IF tail = c THEN Null ELSE tail
  /\ e = entry - 1
  /\ V = W \cup {c}
  /\ gq = Tail(hq)

\* These are lists again.
LEMMA FirstLeaves ==
  ASSUME NEW W, NEW fq, NEW hq, Lists(W, fq, hq), entry > 0,
         NEW c, NEW hd, NEW tl, NEW e, NEW V, NEW gq,
         FirstGone(W, hq, c, hd, tl, e, V, gq)
  PROVE  /\ c \in Blocks \ W /\ hq # <<>> /\ Head(hq) = c
         /\ ListsAre(next, free, hd, tl, e, V, fq, gq)
<1>gone. /\ c = head /\ hd = next[c] /\ tl = IF tail = c THEN Null ELSE tail
  BY DEF FirstGone
<1>counts. e = entry - 1 /\ V = W \cup {c} /\ gq = Tail(hq)
  BY DEF FirstGone
<1>1. ListsAre(next, free, head, tail, entry, W, fq, hq)
  BY DEF Lists
<1>2. PICK e1 : e1 = entry
  OBVIOUS
<1>3. ListsAre(next, free, c, tail, e1, W, fq, hq) /\ e1 > 0
  BY <1>1, <1>2, <1>gone
<1>4. c \in Blocks \ W /\ hq # <<>> /\ Head(hq) = c
  BY ONLY <1>3, FirstBlock
<1>7. ListsAre(next, free, next[c], IF tail = c THEN Null ELSE tail, e1 - 1,
               W \cup {c}, fq, Tail(hq))
  BY ONLY <1>3, UnlinkLists
<1>8. ListsAre(next, free, hd, tl, e, V, fq, gq)
  BY <1>2, <1>7, <1>gone, <1>counts
<1>9. QED BY <1>4, <1>8

\* A receiver takes the first block of the queue, to copy from.
LEMMA RecvBegins ==
  ASSUME IInv, NEW t \in Thread, RecvNow(t) \/ RecvGoesOn(t)
  PROVE  IInv' /\ AbstractStep
<1>1. /\ At(t, "run") \/ At(t, "recvWait")
      /\ entry > 0 /\ UnlinkFirst(t)
      /\ got' = [got EXCEPT ![t] = data[head]]
      /\ pc' = [pc EXCEPT ![t] = "copyOut"]
      /\ UNCHANGED <<sched, waitq, timer, ttmr, err, live, value>>
  BY DEF RecvNow, RecvGoesOn
<1>2. /\ mine' = [mine EXCEPT ![t] = head]
      /\ head' = next[head]
      /\ tail' = IF tail = head THEN Null ELSE tail
      /\ entry' = entry - 1
      /\ UNCHANGED <<next, data, free>>
  BY <1>1 DEF UnlinkFirst
<1>3. PICK W, fq, hq, n :
           /\ Lists(W, fq, hq) /\ Owners(mine, W)
           /\ n \in [Queue -> Nat] /\ n = Left /\ WaitsFor(Places, n)
           /\ n["recv"] = entry /\ n["send"] = Len(fq)
  BY Before
<1>4. /\ pc \in [Thread -> Places] /\ CopiersOwn /\ SendersHaveMessages /\ FieldsOK
  BY DEF IInv, WaitsOK, WaitsFor, WaitTypeOK, ThreadsOK
<1>5. pc[t] \in {"run", "recvWait"} /\ At(t, pc[t]) /\ mine[t] = Null
  BY <1>1, <1>4 DEF At, CopiersOwn
<1>6. PICK V, gq : V = W \cup {head} /\ gq = Tail(hq)
  OBVIOUS
<1>7. PICK c, hd, tl, e : /\ c = head /\ hd = next[c]
                          /\ tl = (IF tail = c THEN Null ELSE tail) /\ e = entry - 1
  OBVIOUS
<1>first. /\ head \in Blocks \ W /\ hq # <<>> /\ Head(hq) = head
          /\ ListsAre(next, free, hd, tl, e, V, fq, gq)
  <2>1. Lists(W, fq, hq) /\ entry > 0 /\ FirstGone(W, hq, c, hd, tl, e, V, gq)
    BY <1>1, <1>3, <1>6, <1>7 DEF FirstGone
  <2>2. /\ c \in Blocks \ W /\ hq # <<>> /\ Head(hq) = c
        /\ ListsAre(next, free, hd, tl, e, V, fq, gq)
    BY <2>1, FirstLeaves
  <2>3. QED BY <1>7, <2>2
<1>8. ListsAre(next', free', head', tail', entry', V, fq, gq)
  <2>1. next' = next /\ free' = free /\ head' = hd /\ tail' = tl /\ entry' = e
    BY <1>2, <1>7
  <2>2. QED BY <1>first, <2>1
<1>9. Owners(mine', V)
  BY <1>2, <1>3, <1>5, <1>6, <1>first, Own
<1>10. /\ BlocksOK'
       /\ \E m \in [Queue -> Nat] : /\ m["recv"] = Len(gq) /\ m["send"] = Len(fq)
                                    /\ WaitsFor(Places, m)' => WaitsOK'
  BY ONLY <1>8, <1>9, After
<1>11. WaitsOK'
  <2> PICK m \in [Queue -> Nat] : /\ m["recv"] = Len(gq) /\ m["send"] = Len(fq)
                                  /\ WaitsFor(Places, m)' => WaitsOK'
    BY <1>10
  <2>1. entry = Len(hq) /\ Len(hq) \in Nat /\ Len(gq) = entry'
    BY <1>3, <1>8, StateLists, StateListsAfter, Blocks0
  <2>2. \A p \in Queue : /\ m[p] <= n[p]
                         /\ t \in Bound(p) => m[p] = 0 \/ m[p] < n[p]
    <3>1. m["recv"] <= n["recv"] /\ m["recv"] < n["recv"] /\ m["send"] <= n["send"]
      BY <1>2, <1>3, <2>1, Parts
    <3>2. t \notin Bound("send")
      BY <1>5, Parts DEF Bound
    <3>3. QED BY <3>1, <3>2, Parts
  <2>3. "copyOut" \in Places /\ \A p \in Queue : "copyOut" \notin In(p)
    BY Parts DEF Places
  <2>4. WaitsFor(Places, m)'
    BY <1>1, <1>3, <1>5, <2>2, <2>3, Parts, MoveSide
  <2>5. QED BY <2>4
<1>12. CopiersOwn'
  <2>1. mine'[t] = head /\ head # Null /\ pc'[t] = "copyOut"
    BY <1>1, <1>2, <1>3, <1>4, <1>first, Blocks0 DEF Owners
  <2>2. \A u \in Thread \ {t} : mine'[u] = mine[u] /\ pc'[u] = pc[u]
    BY <1>1, <1>2, <1>3, <1>4 DEF Owners
  <2>3. QED BY <1>4, <2>1, <2>2 DEF CopiersOwn
<1>13. SendersHaveMessages'
  BY <1>1, <1>4, Parts DEF SendersHaveMessages
<1>14. FieldsOK'
  <2>1. data[head] \in Msg \cup {NoMsg}
    BY <1>4, <1>first DEF FieldsOK
  <2>2. timed' \in [Thread -> BOOLEAN] /\ ret' \in [Thread -> {-1, 0, 1}]
    BY <1>4 DEF RecvNow, RecvGoesOn, FieldsOK
  <2>3. QED BY <1>1, <1>2, <1>4, <2>1, <2>2 DEF FieldsOK
<1>15. Box!Take(t)
  <2>1. Words' = WordsOf(data, gq) /\ Words = WordsOf(data, hq)
    BY <1>2, <1>3, <1>8, StateLists, StateListsAfter
  <2>2. hq \in Seq(Blocks)
    BY <1>3, StateLists
  <2>3. /\ WordsOf(data, hq) # <<>> /\ Head(WordsOf(data, hq)) = data[Head(hq)]
        /\ WordsOf(data, gq) = Tail(WordsOf(data, hq))
    BY <1>4, <1>6, <1>first, <2>2, WordsTail DEF FieldsOK
  <2>4. QED BY <1>1, <1>first, <2>1, <2>3 DEF Box!Take
<1>16. QED BY <1>10, <1>11, <1>12, <1>13, <1>14, <1>15 DEF IInv, ThreadsOK, AbstractStep, Box!ChanNext

\* A block comes free: when a receiver has copied its message, or in an
\* interrupt, which takes it out of the queue in the same step.
LEMMA RecvFrees ==
  ASSUME IInv, NEW t \in Thread, RecvReturn(t) \/ RecvIsr
  PROVE  IInv' /\ AbstractStep
<1>1. PICK W, fq, hq, n :
           /\ Lists(W, fq, hq) /\ Owners(mine, W)
           /\ n \in [Queue -> Nat] /\ n = Left /\ WaitsFor(Places, n)
           /\ n["recv"] = entry /\ n["send"] = Len(fq)
  BY Before
<1>2. /\ pc \in [Thread -> Places] /\ CopiersOwn /\ SendersHaveMessages /\ FieldsOK
  BY DEF IInv, WaitsOK, WaitsFor, WaitTypeOK, ThreadsOK
<1>3. entry = Len(hq) /\ Len(hq) \in Nat /\ Len(fq) \in Nat
  BY <1>1, StateLists, Blocks0
<1>4. WakeOne("send", "ok") /\ UNCHANGED <<data, live, value, timed, got>>
  BY DEF RecvReturn, RecvIsr, GiveBack
<1> DEFINE Freed(gq) ==
      \E V, eq :
        /\ ListsAre(next', free', head', tail', entry', V, eq, gq) /\ Owners(mine', V)
        /\ Len(eq) = Len(fq) + 1
<1>5. ASSUME NEW gq, Freed(gq), Len(gq) <= Len(hq),
             \/ pc' = pc
             \/ \E u \in Thread : /\ sched.stat[u] = "running"
                                  /\ pc[u] = "copyOut"
                                  /\ pc' = [pc EXCEPT ![u] = "run"]
      PROVE  WaitsOK' /\ BlocksOK' /\ Words' = WordsOf(data, gq)
  <2>1. PICK V, eq :
        /\ ListsAre(next', free', head', tail', entry', V, eq, gq) /\ Owners(mine', V)
        /\ Len(eq) = Len(fq) + 1
    BY <1>5
  <2>2. BlocksOK'
    BY <2>1, After
  <2>3. PICK m \in [Queue -> Nat] : /\ m["recv"] = Len(gq) /\ m["send"] = Len(eq)
                                    /\ WaitsFor(Places, m)' => WaitsOK'
    BY <2>1, After
  <2>4. WaitsFor(Places, m)'
    <3>1. m["send"] <= n["send"] + 1 /\ m["recv"] <= n["recv"] /\ WakeOne("send", "ok")
      BY <1>1, <1>3, <1>4, <1>5, <2>1, <2>3
    <3>2. \/ pc' = pc
          \/ \E u \in Thread : /\ sched.stat[u] = "running" /\ pc[u] # "run"
                               /\ pc[u] \notin In("send")
                               /\ pc[u] \in In("recv") => m["recv"] < n["recv"]
                               /\ pc' = [pc EXCEPT ![u] = "run"]
      BY <1>5, Parts
    <3>3. "recv" \in Queue /\ "send" \in Queue /\ "send" # "recv" /\ TwoLists(Places)
      BY Parts
    <3>4. m \in [Queue -> Nat] /\ n \in [Queue -> Nat] /\ WaitsFor(Places, n)
      BY <1>1
    <3>5. QED BY ONLY <3>1, <3>2, <3>3, <3>4, WakeSide
  <2>5. Words' = WordsOf(data, gq)
    BY <1>4, <2>1, StateListsAfter
  <2>6. QED BY <2>2, <2>3, <2>4, <2>5
<1> HIDE DEF Freed
<1>6. Words = WordsOf(data, hq) /\ hq \in Seq(Blocks) /\ data \in [Blocks -> Msg \cup {NoMsg}]
  BY <1>1, <1>2, StateLists DEF FieldsOK
<1>7. ret' \in [Thread -> {-1, 0, 1}]
  BY <1>2 DEF RecvReturn, RecvIsr, FieldsOK
<1>8. FieldsOK'
  BY <1>2, <1>4, <1>7 DEF FieldsOK
<1>9. CASE RecvReturn(t)
  <2>1. PICK c : c = mine[t]
    OBVIOUS
  <2>2. /\ At(t, "copyOut") /\ free' = c /\ next' = [next EXCEPT ![c] = free]
        /\ mine' = [mine EXCEPT ![t] = Null] /\ pc' = [pc EXCEPT ![t] = "run"]
        /\ UNCHANGED <<head, tail, entry>>
    BY <1>9, <2>1 DEF RecvReturn, GiveBack, Push
  <2>3. /\ sched.stat[t] = "running" /\ pc[t] = "copyOut" /\ mine[t] # Null
    BY <1>2, <2>2 DEF At, CopiersOwn
  <2>4. c \in W /\ Owners(mine', W \ {c})
    BY <1>1, <2>1, <2>2, <2>3, Disown
  <2>5. ListsAre(next, free, head, tail, entry, W, fq, hq)
    BY <1>1 DEF Lists
  <2>6. PICK V, eq : V = W \ {c} /\ eq = <<c>> \o fq
    OBVIOUS
  <2>7. ListsAre(next', free', head', tail', entry', V, eq, hq)
    BY <2>2, <2>4, <2>5, <2>6, PushLists
  <2>8. Len(eq) = Len(fq) + 1
    <3>1. W \subseteq Blocks
      BY <2>5 DEF ListsAre
    <3>2. fq \in Seq(Blocks)
      BY ONLY <2>5, Lengths
    <3>3. <<c>> \in Seq(Blocks) /\ Len(<<c>>) = 1
      BY <2>4, <3>1
    <3>4. QED BY <1>3, <2>6, <3>2, <3>3, ConcatProperties
  <2>9. Freed(hq)
    BY <2>4, <2>6, <2>7, <2>8 DEF Freed
  <2>10. WaitsOK' /\ BlocksOK' /\ Words' = WordsOf(data, hq)
    <3>1. Len(hq) <= Len(hq)
      BY <1>3
    <3>2. QED BY <1>5, <2>2, <2>3, <2>9, <3>1
  <2>11. /\ mine' \in [Thread -> Blocks \cup {Null}] /\ mine'[t] = Null /\ pc'[t] = "run"
         /\ \A u \in Thread \ {t} : mine'[u] = mine[u] /\ pc'[u] = pc[u]
    BY <1>1, <1>2, <2>2 DEF Owners
  <2>12. CopiersOwn'
    BY <1>2, <2>11 DEF CopiersOwn
  <2>13. SendersHaveMessages'
    BY <1>2, <1>4, <2>11, Parts DEF SendersHaveMessages
  <2>14. UNCHANGED Box!chanVars
    BY <1>4, <1>6, <2>10 DEF Box!chanVars
  <2>15. QED BY <1>8, <2>10, <2>12, <2>13, <2>14 DEF IInv, ThreadsOK, AbstractStep
<1>10. CASE RecvIsr
  <2>1. PICK c : c = head
    OBVIOUS
  <2>2. /\ entry > 0 /\ head' = next[c]
        /\ tail' = IF tail = c THEN Null ELSE tail
        /\ entry' = entry - 1
        /\ free' = c /\ next' = [next EXCEPT ![c] = free]
        /\ UNCHANGED <<pc, mine>>
    BY <1>10, <2>1 DEF RecvIsr, GiveBack, Push
  <2>3. ListsAre(next, free, c, tail, entry, W, fq, hq)
    BY <1>1, <2>1 DEF Lists
  <2>4. PICK V, gq, hd, tl, e : /\ V = W \cup {c} /\ gq = Tail(hq) /\ hd = next[c]
                                /\ tl = IF tail = c THEN Null ELSE tail
                                /\ e = entry - 1
    OBVIOUS
  <2>first. Lists(W, fq, hq) /\ entry > 0 /\ FirstGone(W, hq, c, hd, tl, e, V, gq)
    BY <1>1, <2>1, <2>2, <2>4 DEF FirstGone
  <2>5. c \in Blocks \ W /\ hq # <<>>
    BY <2>first, FirstLeaves
  <2>6. ListsAre(next, free, hd, tl, e, V, fq, gq)
    BY <2>first, FirstLeaves
  <2>7. c \in V /\ V \ {c} = W
    BY <2>4, <2>5
  <2>8. PICK eq : eq = <<c>> \o fq
    OBVIOUS
  <2>9. ListsAre(next', c, hd, tl, e, W, eq, gq)
    <3>1. ListsAre(next', c, hd, tl, e, V \ {c}, <<c>> \o fq, gq)
      BY <2>2, <2>6, <2>7, PushLists
    <3>2. QED BY <2>7, <2>8, <3>1
  <2>10. ListsAre(next', free', head', tail', entry', W, eq, gq)
    BY <2>2, <2>4, <2>9
  <2>11. Len(eq) = Len(fq) + 1 /\ Len(gq) <= Len(hq)
    <3>1. fq \in Seq(Blocks) /\ <<c>> \in Seq(Blocks) /\ Len(<<c>>) = 1
      BY <2>3, <2>5, Lengths
    <3>2. Len(gq) = Len(hq) - 1
      BY <1>6, <2>4, <2>5, HeadTailProperties
    <3>3. QED BY <1>3, <2>8, <3>1, <3>2, ConcatProperties
  <2>12. Freed(gq)
    BY <1>1, <2>2, <2>10, <2>11 DEF Freed
  <2>13. WaitsOK' /\ BlocksOK' /\ Words' = WordsOf(data, gq)
    BY <1>5, <2>2, <2>11, <2>12
  <2>14. Box!TakeAway
    <3>1. WordsOf(data, hq) # <<>> /\ WordsOf(data, gq) = Tail(WordsOf(data, hq))
      BY <1>6, <2>4, <2>5, WordsTail
    <3>2. QED BY <1>4, <1>6, <2>13, <3>1 DEF Box!TakeAway
  <2>15. CopiersOwn' /\ SendersHaveMessages'
    BY <1>2, <1>4, <2>2 DEF CopiersOwn, SendersHaveMessages
  <2>16. QED BY <1>8, <2>13, <2>14, <2>15 DEF IInv, ThreadsOK, AbstractStep, Box!ChanNext
<1>11. QED BY <1>9, <1>10

\* Waiting, for the first time or again
LEMMA WaitStep ==
  ASSUME IInv, NEW t \in Thread, NEW v,
         (v \in Msg /\ SendWait(t, v)) \/ SendAgain(t) \/ RecvWait(t) \/ RecvAgain(t)
  PROVE  IInv' /\ AbstractStep
<1>1. /\ CopiersOwn /\ SendersHaveMessages /\ FieldsOK /\ pc \in [Thread -> Places]
  BY DEF IInv, ThreadsOK, WaitsOK, WaitsFor, WaitTypeOK
<1>2. PICK W, fq, hq, n :
           /\ Lists(W, fq, hq) /\ Owners(mine, W)
           /\ n \in [Queue -> Nat] /\ n = Left /\ WaitsFor(Places, n)
           /\ n["recv"] = entry /\ n["send"] = Len(fq)
  BY Before
<1>4. UNCHANGED <<lists, mine>> /\ UNCHANGED <<data, live, mine>>
  BY DEF SendWait, SendAgain, RecvWait, RecvAgain, mqVars, lists
<1>5. ret' \in [Thread -> {-1, 0, 1}]
  BY <1>1 DEF SendWait, SendAgain, RecvWait, RecvAgain, mqVars, FieldsOK
<1>6. CASE (v \in Msg /\ SendWait(t, v)) \/ SendAgain(t)
  <2>1. PICK b \in BOOLEAN :
          /\ Block(t, "send", b, "sendSwitch")
          /\ timed' = [timed EXCEPT ![t] = b] \/ timed' = timed
    BY <1>1, <1>6 DEF SendWait, SendAgain, Timeouts, mqVars, FieldsOK
  <2>2. /\ At(t, "run") \/ At(t, "sendWait")
        /\ free = Null /\ got' = got
    BY <1>6 DEF SendWait, SendAgain, mqVars
  <2>3. At(t, pc[t]) /\ (pc[t] = "run" \/ pc[t] \in In("send"))
    BY <2>2, Parts DEF At
  <2>4. WaitsOK' /\ BlocksOK' /\ Words' = Words
    <3>1. n["send"] = 0
      BY <1>2, <2>2, StateLists
    <3>2. /\ "sendSwitch" \in In("send") /\ "sendSwitch" \in Places
      BY Parts DEF Places
    <3>3. WaitsFor(Places, n)'
      BY <1>2, <2>1, <2>3, <3>1, <3>2, Parts, BlockSide
    <3>4. QED BY <1>2, <1>4, <3>3, SameLists
  <2>5. /\ value' \in [Thread -> Msg \cup {NoMsg}]
        /\ \A x \in Thread \ {t} : value'[x] = value[x]
        /\ value'[t] \in Msg
    <3>1. CASE v \in Msg /\ SendWait(t, v)
      BY <1>1, <3>1 DEF SendWait, FieldsOK
    <3>2. CASE SendAgain(t)
      BY <1>1, <3>2, Parts DEF SendAgain, FieldsOK, SendersHaveMessages, At, mqVars
    <3>3. QED BY <1>6, <3>1, <3>2
  <2>6. pc' = [pc EXCEPT ![t] = "sendSwitch"] /\ pc[t] \in {"run", "sendWait"}
    BY <2>1, <2>2 DEF Block, At
  <2>7. SendersHaveMessages' /\ CopiersOwn'
    BY <1>1, <1>4, <2>5, <2>6 DEF SendersHaveMessages, CopiersOwn
  <2>8. FieldsOK'
    BY <1>1, <1>4, <1>5, <2>1, <2>2, <2>5 DEF FieldsOK
  <2>9. UNCHANGED Box!chanVars
    BY <2>2, <2>4 DEF Box!chanVars
  <2>10. QED BY <2>4, <2>7, <2>8, <2>9 DEF IInv, ThreadsOK, AbstractStep
<1>7. CASE RecvWait(t) \/ RecvAgain(t)
  <2>1. PICK b \in BOOLEAN :
          /\ Block(t, "recv", b, "recvSwitch")
          /\ timed' = [timed EXCEPT ![t] = b] \/ timed' = timed
    BY <1>1, <1>7 DEF RecvWait, RecvAgain, Timeouts, mqVars, FieldsOK
  <2>2. /\ At(t, "run") \/ At(t, "recvWait")
        /\ entry = 0 /\ value' = value
        /\ got' = [got EXCEPT ![t] = NoMsg] \/ got' = got
    BY <1>7 DEF RecvWait, RecvAgain, mqVars
  <2>3. At(t, pc[t]) /\ (pc[t] = "run" \/ pc[t] \in In("recv"))
    BY <2>2, Parts DEF At
  <2>4. WaitsOK' /\ BlocksOK' /\ Words' = Words
    <3>1. n["recv"] = 0
      BY <1>2, <2>2
    <3>2. /\ "recvSwitch" \in In("recv") /\ "recvSwitch" \in Places
      BY Parts DEF Places
    <3>3. WaitsFor(Places, n)'
      BY <1>2, <2>1, <2>3, <3>1, <3>2, Parts, BlockSide
    <3>4. QED BY <1>2, <1>4, <3>3, SameLists
  <2>5. pc' = [pc EXCEPT ![t] = "recvSwitch"] /\ pc[t] \in {"run", "recvWait"}
    BY <2>1, <2>2 DEF Block, At
  <2>6. SendersHaveMessages' /\ CopiersOwn'
    BY <1>1, <1>4, <2>2, <2>5, Parts DEF SendersHaveMessages, CopiersOwn
  <2>7. FieldsOK'
    BY <1>1, <1>4, <1>5, <2>1, <2>2 DEF FieldsOK
  <2>8. CASE got' = got
    <3>1. UNCHANGED Box!chanVars
      BY <2>4, <2>8 DEF Box!chanVars
    <3>2. QED BY <2>4, <2>6, <2>7, <3>1 DEF IInv, ThreadsOK, AbstractStep
  <2>9. CASE got' = [got EXCEPT ![t] = NoMsg]
    <3>1. Box!Forget(t)
      BY <2>4, <2>9 DEF Box!Forget
    <3>2. QED BY <2>4, <2>6, <2>7, <3>1 DEF IInv, ThreadsOK, AbstractStep, Box!ChanNext
  <2>10. QED BY <2>2, <2>8, <2>9
<1>8. QED BY <1>6, <1>7

\* A call that ends without a message sent or received
LEMMA LeaveStep ==
  ASSUME IInv, NEW t \in Thread,
         SendFails(t) \/ SendTooLate(t) \/ RecvFails(t) \/ RecvTooLate(t)
  PROVE  IInv' /\ AbstractStep
<1>1. /\ CopiersOwn /\ SendersHaveMessages /\ FieldsOK
      /\ pc \in [Thread -> Places] /\ err \in [Thread -> Err]
  BY DEF IInv, ThreadsOK, WaitsOK, WaitsFor, WaitTypeOK
<1>2. PICK W, fq, hq, n :
           /\ Lists(W, fq, hq) /\ Owners(mine, W)
           /\ n \in [Queue -> Nat] /\ n = Left /\ WaitsFor(Places, n)
           /\ n["recv"] = entry /\ n["send"] = Len(fq)
  BY Before
<1>3. /\ UNCHANGED <<sched, waitq, timer, ttmr>> /\ UNCHANGED <<lists, mine>>
      /\ UNCHANGED <<data, live, mine, got>> /\ Return(t)
      /\ timed' = [timed EXCEPT ![t] = FALSE]
  BY DEF SendFails, SendTooLate, RecvFails, RecvTooLate, lists
<1>4. pc' = [pc EXCEPT ![t] = "run"] /\ err' = [err EXCEPT ![t] = "ok"]
  BY <1>3 DEF Return
<1>5. PICK q \in Queue : /\ At(t, pc[t]) /\ pc[t] \in In(q) /\ pc[t] \in {"sendWait", "recvWait"}
                         /\ err[t] # "ok" \/ n[q] = 0
  <2>1. CASE SendFails(t) \/ SendTooLate(t)
    <3>1. err[t] # "ok" \/ free = Null
      BY <2>1 DEF SendFails, SendTooLate
    <3>2. err[t] # "ok" \/ n["send"] = 0
      BY <1>2, <3>1, StateLists
    <3>3. pc[t] = "sendWait" /\ At(t, pc[t])
      BY <2>1 DEF SendFails, SendTooLate, At
    <3>4. QED BY <3>2, <3>3, Parts
  <2>2. CASE RecvFails(t) \/ RecvTooLate(t)
    <3>1. err[t] # "ok" \/ n["recv"] = 0
      BY <1>2, <2>2 DEF RecvFails, RecvTooLate
    <3>2. pc[t] = "recvWait" /\ At(t, pc[t])
      BY <2>2 DEF RecvFails, RecvTooLate, At
    <3>3. QED BY <3>1, <3>2, Parts
  <2>3. QED BY <2>1, <2>2
<1>6. WaitsOK' /\ BlocksOK' /\ Words' = Words
  <2>1. "run" \in Places /\ \A p \in Queue : "run" \notin In(p)
    BY Parts DEF Places
  <2>2. \A p \in Queue : /\ n[p] <= n[p]
                         /\ t \in Bound(p) => n[p] = 0 \/ n[p] < n[p]
    <3>1. ASSUME NEW p \in Queue, t \in Bound(p)
          PROVE  p = q /\ err[t] = "ok"
      <4>1. pc[t] \in In(p) /\ pc[t] \in In(q) /\ err[t] = "ok"
        BY <1>5, <3>1 DEF Bound
      <4>2. p # q => In(p) \cap In(q) = {}
        BY Parts DEF In
      <4>3. QED BY <4>1, <4>2
    <3>2. QED BY <1>2, <1>5, <3>1
  <2>3. /\ TwoLists(Places) /\ n \in [Queue -> Nat] /\ WaitsFor(Places, n)
        /\ At(t, pc[t]) /\ UNCHANGED <<sched, waitq, timer, ttmr>>
    BY <1>2, <1>3, <1>5, Parts
  <2>4. WaitsFor(Places, n)'
    BY ONLY t \in Thread, <1>4, <2>1, <2>2, <2>3, MoveSide
  <2>5. QED BY <1>2, <1>3, <2>4, SameLists
<1>7. FieldsOK'
  <2>1. value' \in [Thread -> Msg \cup {NoMsg}] /\ ret' \in [Thread -> {-1, 0, 1}]
    BY <1>1 DEF SendFails, SendTooLate, RecvFails, RecvTooLate, FieldsOK
  <2>2. QED BY <1>1, <1>3, <2>1 DEF FieldsOK
<1>8. SendersHaveMessages'
  <2>1. \A x \in Thread \ {t} : value'[x] = value[x]
    BY <1>1 DEF SendFails, SendTooLate, RecvFails, RecvTooLate, FieldsOK
  <2>2. QED BY <1>1, <1>4, <2>1, Parts DEF SendersHaveMessages
<1>9. CopiersOwn'
  BY <1>1, <1>3, <1>4, <1>5 DEF CopiersOwn
<1>10. UNCHANGED Box!chanVars
  BY <1>3, <1>6 DEF Box!chanVars
<1>11. QED BY <1>6, <1>7, <1>8, <1>9, <1>10 DEF IInv, ThreadsOK, AbstractStep

\* rt_schedule in a call that waits
LEMMA SwitchStep ==
  ASSUME IInv, NEW t \in Thread, SendSwitch(t) \/ RecvSwitch(t)
  PROVE  IInv' /\ AbstractStep
<1>1. UNCHANGED <<lists, mine>> /\ UNCHANGED <<data, live, mine, value, timed, got, ret>>
  BY DEF SendSwitch, RecvSwitch, mqVars, lists
<1>2. PICK W, fq, hq, n :
           /\ Lists(W, fq, hq) /\ Owners(mine, W)
           /\ n \in [Queue -> Nat] /\ n = Left /\ WaitsFor(Places, n)
           /\ n["recv"] = entry /\ n["send"] = Len(fq)
  BY Before
<1>3. PICK q \in Queue : \E a, b \in In(q) : Switch(t, a, b)
  <2>1. CASE SendSwitch(t)
    BY <2>1, Parts DEF SendSwitch
  <2>2. CASE RecvSwitch(t)
    BY <2>2, Parts DEF RecvSwitch
  <2>3. QED BY <2>1, <2>2
<1>4. /\ WaitsFor(Places, n)'
      /\ \A x \in Thread : \/ pc'[x] = pc[x]
                           \/ pc[x] \in In(q) /\ pc'[x] \in In(q)
  <2>1. PICK a \in In(q), b \in In(q) : Switch(t, a, b)
    BY <1>3
  <2>2. QED BY <1>2, <2>1, Parts, SwitchSide
<1>5. WaitsOK' /\ BlocksOK' /\ Words' = Words
  BY <1>1, <1>2, <1>4, SameLists
<1>6. FieldsOK'
  BY <1>1 DEF IInv, ThreadsOK, FieldsOK
<1>7. CopiersOwn' /\ SendersHaveMessages'
  BY <1>1, <1>4, Parts DEF IInv, ThreadsOK, CopiersOwn, SendersHaveMessages
<1>8. UNCHANGED Box!chanVars
  BY <1>1, <1>5 DEF Box!chanVars
<1>9. QED BY <1>5, <1>6, <1>7, <1>8 DEF IInv, ThreadsOK, AbstractStep

\* RT_IPC_CMD_RESET frees the blocks of the queue, rt_mq_detach leaves them;
\* both wake the waiters of both lists.
LEMMA EndStep ==
  ASSUME IInv, Reset \/ Detach
  PROVE  IInv' /\ AbstractStep
<1>1. /\ Ready(Everyone, "error") /\ UNCHANGED pc
      /\ sched' = Readied(Everyone) \/ sched' = Schedule(Readied(Everyone))
      /\ UNCHANGED <<data, mine, value, timed, got, ret>> /\ live' \in BOOLEAN
  BY DEF Reset, Detach, WakeAs, IInv, ThreadsOK, FieldsOK, lists
<1>2. ThreadsOK'
  BY <1>1 DEF IInv, ThreadsOK, FieldsOK, CopiersOwn, SendersHaveMessages
<1>3. PICK W, fq, hq, n :
           /\ Lists(W, fq, hq) /\ Owners(mine, W)
           /\ n \in [Queue -> Nat] /\ n = Left /\ WaitsFor(Places, n)
           /\ n["recv"] = entry /\ n["send"] = Len(fq)
  BY Before
<1>4. ASSUME NEW m
      PROVE  WaitsFor(Places, m)'
  <2>1. TwoLists(Places) /\ Everyone = AllOf("recv") \o AllOf("send")
    BY Parts DEF Everyone
  <2>2. PICK ts : ts = Everyone
    OBVIOUS
  <2>3. /\ ts = AllOf("recv") \o AllOf("send") /\ Ready(ts, "error")
        /\ sched' = Readied(ts) \/ sched' = Schedule(Readied(ts))
    BY <1>1, <2>1, <2>2
  <2>4. n \in [Queue -> Nat] /\ WaitsFor(Places, n) /\ TwoLists(Places)
    BY <1>3, <2>1
  <2>5. UNCHANGED pc
    BY <1>1
  <2>6. QED BY ONLY <2>3, <2>4, <2>5, EndSide
<1>5. CASE Reset
  <2>1. ListsAre(next, free, head, tail, entry, W, fq, hq) /\ Chain(head) = hq
    BY <1>3, StateLists DEF Lists
  <2>2. /\ next' = [b \in Blocks |->
                      IF b \notin ToSet(hq) THEN next[b]
                      ELSE IF b = head THEN free
                      ELSE hq[(CHOOSE i \in 1 .. Len(hq) : hq[i] = b) - 1]]
        /\ free' = IF hq = <<>> THEN free ELSE Last(hq)
        /\ head' = Null /\ entry' = 0
        /\ tail' = IF tail \in ToSet(hq) THEN Null ELSE tail
    BY <1>5, <2>1 DEF Reset, Requeue
  <2>3. PICK nx : nx = next'
    OBVIOUS
  <2>after. nx = Requeued(next, free, head, hq)
    BY <2>2, <2>3 DEF Requeued
  <2>ends. /\ \E r : ListsAre(nx, IF hq = <<>> THEN free ELSE Last(hq), Null, Null, 0, W, r, <<>>)
        /\ (IF tail \in ToSet(hq) THEN Null ELSE tail) = Null
    BY ONLY <2>1, <2>after, RequeueLists
  <2>4. PICK r : ListsAre(next', free', head', tail', entry', W, r, <<>>)
    BY <2>2, <2>3, <2>ends
  <2>5. Owners(mine', W)
    BY <1>1, <1>3
  <2>6. BlocksOK' /\ \E m \in [Queue -> Nat] : WaitsFor(Places, m)' => WaitsOK'
    BY <2>4, <2>5, After
  <2>7. WaitsOK'
    BY <1>4, <2>6
  <2>8. Words' = <<>>
    <3>1. Words' = WordsOf(data', <<>>)
      BY <2>4, StateListsAfter
    <3>2. WordsOf(data', <<>>) \in Seq({}) /\ Len(WordsOf(data', <<>>)) = 0
      BY DEF WordsOf
    <3>3. QED BY <3>1, <3>2, EmptySeq
  <2>9. Box!Clear
    BY <1>1, <2>8 DEF Box!Clear
  <2>10. QED BY <1>2, <2>6, <2>7, <2>9 DEF IInv, AbstractStep, Box!ChanNext
<1>6. CASE Detach
  <2>1. UNCHANGED <<lists, mine>>
    BY <1>6 DEF Detach
  <2>2. WaitsOK' /\ BlocksOK' /\ Words' = Words
    BY <1>3, <1>4, <2>1, SameLists
  <2>3. UNCHANGED Box!chanVars
    BY <1>1, <2>2 DEF Box!chanVars
  <2>4. QED BY <1>2, <2>2, <2>3 DEF IInv, AbstractStep
<1>7. QED BY <1>5, <1>6

\* What leaves the queue alone
LEMMA ElsewhereStep ==
  ASSUME IInv, Elsewhere, UNCHANGED mqVars
  PROVE  IInv' /\ AbstractStep
<1>1. UNCHANGED <<lists, mine>> /\ UNCHANGED <<data, live, mine, value, timed, got, ret>>
  BY DEF mqVars, lists
<1>2. PICK W, fq, hq, n :
           /\ Lists(W, fq, hq) /\ Owners(mine, W)
           /\ n \in [Queue -> Nat] /\ n = Left /\ WaitsFor(Places, n)
           /\ n["recv"] = entry /\ n["send"] = Len(fq)
  BY Before
<1>3. WaitsFor(Places, n)' /\ UNCHANGED pc
  BY <1>2, Parts, ElsewhereSide
<1>4. WaitsOK' /\ BlocksOK' /\ Words' = Words
  BY <1>1, <1>2, <1>3, SameLists
<1>5. ThreadsOK'
  BY <1>1, <1>3 DEF IInv, ThreadsOK, FieldsOK, CopiersOwn, SendersHaveMessages
<1>6. UNCHANGED Box!chanVars
  BY <1>1, <1>4 DEF Box!chanVars
<1>7. QED BY <1>4, <1>5, <1>6 DEF IInv, AbstractStep

-----------------------------------------------------------------------------
(* The theorems                                                            *)

\* At the start every block is free and nobody waits.
LEMMA InitHolds ==
  ASSUME Init
  PROVE  IInv /\ Box!ChanInit
<1>1. WaitInit /\ TwoLists(Places)
  BY Parts DEF Init
<1>2. PICK q : /\ q = (CHOOSE s \in SetToSeqs(Blocks) : TRUE)
               /\ q \in SetToSeqs(Blocks)
  BY SomeOrder
<1>3. /\ free = q[1]
      /\ next = [b \in Blocks |->
           IF b = Last(q) THEN Null ELSE q[1 + CHOOSE i \in 1 .. Len(q) : q[i] = b]]
      /\ head = Null /\ tail = Null /\ entry = 0
  BY <1>2 DEF Init
<1>4. ListsAre(next, free, head, tail, entry, {}, q, <<>>)
  BY <1>2, <1>3, InitLists
<1>5. Owners(mine, {})
  BY DEF Init, Owners
<1>6. BlocksOK
  BY <1>4, <1>5 DEF BlocksOK, Lists
<1>7. WaitsOK
  BY <1>1, InitSide DEF WaitsOK
<1>8. ThreadsOK
  BY Parts DEF Init, WaitInit, ThreadsOK, FieldsOK, CopiersOwn, SendersHaveMessages
<1>9. Words = <<>>
  <2>1. Words = WordsOf(data, <<>>)
    BY <1>4, StateLists DEF Lists
  <2>2. WordsOf(data, <<>>) \in Seq({}) /\ Len(WordsOf(data, <<>>)) = 0
    BY DEF WordsOf
  <2>3. QED BY <2>1, <2>2, EmptySeq
<1>10. Box!ChanInit
  BY <1>9 DEF Init, Box!ChanInit
<1>11. QED BY <1>6, <1>7, <1>8, <1>10 DEF IInv

\* Every step keeps the invariant and is a step of the bounded queue.
LEMMA NextHolds ==
  ASSUME IInv, [Next]_vars
  PROVE  IInv' /\ AbstractStep
<1>1. CASE \E t \in Thread, v \in Msg, l \in {"copy", "copyFront"} : SendNow(t, v, l)
  BY <1>1, SendBegins
<1>2. CASE \E t \in Thread : SendGoesOn(t)
  BY <1>2, SendBegins
<1>3. CASE \E t \in Thread, v \in Msg : SendWait(t, v)
  BY <1>3, WaitStep
<1>4. CASE \E t \in Thread : SendAgain(t) \/ RecvWait(t) \/ RecvAgain(t)
  BY <1>4, WaitStep
<1>5. CASE \E t \in Thread : RecvNow(t) \/ RecvGoesOn(t)
  BY <1>5, RecvBegins
<1>6. CASE \E t \in Thread : SendFails(t) \/ SendTooLate(t) \/ RecvFails(t) \/ RecvTooLate(t)
  BY <1>6, LeaveStep
<1>7. CASE \E t \in Thread : SendSwitch(t) \/ RecvSwitch(t)
  BY <1>7, SwitchStep
<1>8. CASE \E t \in Thread : SendLink(t)
  BY <1>8, SendLinks
<1>9. CASE \E v \in Msg : SendIsr(v)
  BY <1>9, ThreadAssumption, SendLinks
<1>10. CASE \E t \in Thread : RecvReturn(t)
  BY <1>10, RecvFrees
<1>11. CASE RecvIsr
  BY <1>11, ThreadAssumption, RecvFrees
<1>12. CASE Reset \/ Detach
  BY <1>12, EndStep
<1>13. CASE Elsewhere /\ UNCHANGED mqVars
  BY <1>13, ElsewhereStep
<1>14. CASE UNCHANGED vars
  <2>1. /\ UNCHANGED <<sched, waitq, err, timer, ttmr, pc>>
        /\ UNCHANGED <<lists, mine>>
        /\ UNCHANGED <<data, live, mine, value, timed, got, ret>>
    BY <1>14 DEF vars, waitVars, mqVars, lists
  <2>2. PICK n : n = Left
    OBVIOUS
  <2>3. WaitsFor(Places, n)
    BY <2>2 DEF IInv, WaitsOK
  <2>4. WaitsFor(Places, n)'
    <3>1. WaitTypeOK(Places)' /\ WaitInv'
      BY <2>1, <2>3 DEF WaitsFor, WaitTypeOK, WaitInv, ListsAgree, TimersAgree
    <3>2. ListsFit'
      BY <2>1, <2>3 DEF WaitsFor, ListsFit
    <3>3. \A q \in Queue : Bound(q)' = Bound(q)
      BY <2>1 DEF Bound
    <3>4. QED BY <2>1, <2>3, <3>1, <3>2, <3>3 DEF WaitsFor
  <2>5. WaitsOK' /\ BlocksOK' /\ Words' = Words
    BY <2>1, <2>2, <2>4, SameLists
  <2>6. ThreadsOK'
    BY <2>1 DEF IInv, ThreadsOK, FieldsOK, CopiersOwn, SendersHaveMessages
  <2>7. UNCHANGED Box!chanVars
    BY <2>1, <2>5 DEF Box!chanVars
  <2>8. QED BY <2>5, <2>6, <2>7 DEF IInv, AbstractStep
<1>15. QED
  BY <1>1, <1>2, <1>3, <1>4, <1>5, <1>6, <1>7, <1>8, <1>9, <1>10, <1>11, <1>12, <1>13, <1>14
     DEF Next, Continue

\* The blocks of the pool after any mix of sends, urgent sends, receives and
\* resets, each of which lets go of the interrupt lock half way: every block is
\* in one place, and entry and msg_queue_tail say what msg_queue_head leads to.
THEOREM MessageQueueState == Spec => []QueueInv
<1>1. Init => IInv
  BY InitHolds
<1>2. IInv /\ [Next]_vars => IInv'
  BY NextHolds
<1>3. IInv => QueueInv
  BY InvFromIInv
<1>4. QED BY <1>1, <1>2, <1>3, PTL DEF Spec

\* No lost wake-up of rt_mq_recv: a message that nobody is on his way to take
\* is waited for by nobody, although a send wakes its receiver only when the
\* message is linked, and a woken receiver may find another one was faster.
THEOREM NoLostMessage == Spec => []NoMessageForgotten
<1>1. Init => IInv
  BY InitHolds
<1>2. IInv /\ [Next]_vars => IInv'
  BY NextHolds
<1>3. IInv => NoMessageForgotten
  BY InvFromIInv
<1>4. QED BY <1>1, <1>2, <1>3, PTL DEF Spec

\* The same of rt_mq_send_wait and the free blocks.
THEOREM NoLostFreeBlock == Spec => []NoRoomForgotten
<1>1. Init => IInv
  BY InitHolds
<1>2. IInv /\ [Next]_vars => IInv'
  BY NextHolds
<1>3. IInv => NoRoomForgotten
  BY InvFromIInv
<1>4. QED BY <1>1, <1>2, <1>3, PTL DEF Spec

\* The message queue implements a bounded queue: no message is lost, delivered
\* twice or overtaken by a later one that was not urgent; a send takes effect
\* when it links its block and a receive when it unlinks it.
THEOREM MessageQueueImplementsChannel == Spec => ImplementsChannel
<1>1. Init => IInv /\ Box!ChanInit
  BY InitHolds
<1>2. IInv /\ [Next]_vars => IInv' /\ [Box!ChanNext]_(Box!chanVars)
  BY NextHolds DEF AbstractStep
<1>3. QED BY <1>1, <1>2, PTL DEF Spec, ImplementsChannel, Box!ChanSpec
=============================================================================
