--------------------------- MODULE MailboxProofs ---------------------------
(***************************************************************************)
(* The mailbox, for any number of threads and words: the ring and its      *)
(* offsets, no lost wake-up although a woken thread is given nothing, and  *)
(* that it implements a bounded queue.                                     *)
(***************************************************************************)
EXTENDS Mailbox, KWaitProofs, SequenceTheorems, FiniteSetTheorems

-----------------------------------------------------------------------------
(* The ring                                                                *)

Index == 0 .. Size - 1

\* The words in a ring r with e entries, the first at o, and what is right of
\* such a ring whose next free place is i
WordsOf(r, e, o) == [k \in 1 .. e |-> r[(o + k - 1) % Size]]

RingIs(r, e, i, o) ==
  /\ r \in [Index -> Msg \cup {NoMsg}]
  /\ e \in 0 .. Size
  /\ i \in Index
  /\ o \in Index
  /\ (o + e) % Size = i

RingOK == RingIs(pool, entry, inOff, outOff)

\* Where the offset d after outOff lies: it wraps at most once.
LEMMA ModSize ==
  ASSUME NEW a \in 0 .. 2 * Size - 1
  PROVE  a % Size = IF a < Size THEN a ELSE a - Size
<1> DEFINE k == a \div Size
           m == a % Size
<1>1. Size \in Nat /\ Size > 0 /\ a \in Nat /\ a < 2 * Size
  BY MailboxAssumption
<1>2. k \in Int /\ m \in 0 .. Size - 1 /\ a = Size * k + m
  BY <1>1
<1> HIDE DEF k, m
<1>3. k = 0 \/ k = 1
  BY <1>1, <1>2
<1>4. m = IF a < Size THEN a ELSE a - Size
  BY <1>1, <1>2, <1>3
<1>5. QED BY <1>4 DEF m

\* The place of the k-th word, counted from o
Place(o, k) == IF o + k - 1 < Size THEN o + k - 1 ELSE o + k - 1 - Size

\* The entries of the ring, from the first to leave on
LEMMA WordsAre ==
  ASSUME NEW r, NEW e, NEW i, NEW o, RingIs(r, e, i, o)
  PROVE  /\ WordsOf(r, e, o) \in Seq(Msg \cup {NoMsg}) /\ Len(WordsOf(r, e, o)) = e
         /\ \A k \in 1 .. e : /\ Place(o, k) \in Index
                              /\ WordsOf(r, e, o)[k] = r[Place(o, k)]
         /\ i = Place(o, e + 1)
<1>1. Size \in Nat \ {0} /\ e \in 0 .. Size /\ o \in 0 .. Size - 1
  BY MailboxAssumption DEF RingIs, Index
<1>2. ASSUME NEW k \in 1 .. e + 1
      PROVE  (o + k - 1) % Size = Place(o, k)
  <2>1. PICK a \in 0 .. 2 * Size - 1 : a = o + k - 1
    BY <1>1
  <2>2. a % Size = IF a < Size THEN a ELSE a - Size
    BY ModSize
  <2>3. (o + k - 1) % Size = a % Size
    BY <2>1
  <2>4. Place(o, k) = IF a < Size THEN a ELSE a - Size
    BY <1>1, <2>1 DEF Place
  <2>5. QED BY <2>2, <2>3, <2>4
<1>3. \A k \in 1 .. e : Place(o, k) \in Index
  BY <1>1 DEF Place, Index
<1>4. \A k \in 1 .. e : r[(o + k - 1) % Size] = r[Place(o, k)]
  BY <1>1, <1>2
<1>5. WordsOf(r, e, o) = [k \in 1 .. e |-> r[Place(o, k)]]
  BY <1>4 DEF WordsOf
<1>6. \A k \in 1 .. e : r[Place(o, k)] \in Msg \cup {NoMsg}
  BY <1>3 DEF RingIs
<1>7. WordsOf(r, e, o) \in Seq(Msg \cup {NoMsg}) /\ Len(WordsOf(r, e, o)) = e
  BY <1>1, <1>5, <1>6
<1>8. i = Place(o, e + 1)
  <2>1. e + 1 \in 1 .. e + 1 /\ o + (e + 1) - 1 = o + e
    BY <1>1
  <2>2. (o + e) % Size = Place(o, e + 1)
    BY <1>2, <2>1
  <2>3. QED BY <2>2 DEF RingIs
<1>9. QED BY <1>3, <1>5, <1>7, <1>8

\* The other way round: places and offsets that agree make a ring.
LEMMA RingByPlace ==
  ASSUME NEW r \in [Index -> Msg \cup {NoMsg}], NEW e \in 0 .. Size,
         NEW i \in Index, NEW o \in Index, i = Place(o, e + 1)
  PROVE  RingIs(r, e, i, o)
<1>1. Size \in Nat \ {0} /\ o \in 0 .. Size - 1
  BY MailboxAssumption DEF Index
<1>2. PICK a \in 0 .. 2 * Size - 1 : a = o + e
  BY <1>1
<1>3. a % Size = IF a < Size THEN a ELSE a - Size
  BY ModSize
<1>4. Place(o, e + 1) = IF a < Size THEN a ELSE a - Size
  BY <1>1, <1>2 DEF Place
<1>5. (o + e) % Size = i
  BY <1>2, <1>3, <1>4
<1>6. QED BY <1>5 DEF RingIs

\* A word that is put goes to the end of the queue and overwrites none of it.
LEMMA PutRing ==
  ASSUME NEW r, NEW e, NEW i, NEW o, RingIs(r, e, i, o), e < Size, NEW v \in Msg,
         NEW r2 \in [Index -> Msg \cup {NoMsg}], r2[i] = v,
         \A j \in Index \ {i} : r2[j] = r[j]
  PROVE  /\ RingIs(r2, e + 1, Wrap(i + 1), o)
         /\ Len(WordsOf(r, e, o)) = e
         /\ WordsOf(r2, e + 1, o) = Append(WordsOf(r, e, o), v)
<1> DEFINE ws == WordsOf(r, e, o)
           w2 == WordsOf(r2, e + 1, o)
<1>1. /\ Size \in Nat \ {0} /\ e \in 0 .. Size - 1
      /\ o \in 0 .. Size - 1 /\ i \in 0 .. Size - 1 /\ i \in Index /\ o \in Index
  BY MailboxAssumption DEF RingIs, Index
<1>2. /\ ws \in Seq(Msg \cup {NoMsg}) /\ Len(ws) = e
      /\ \A k \in 1 .. e : Place(o, k) \in Index /\ ws[k] = r[Place(o, k)]
      /\ i = Place(o, e + 1)
  BY WordsAre
<1>3. /\ r2 \in [Index -> Msg \cup {NoMsg}] /\ r2[i] = v
      /\ \A j \in Index : j # i => r2[j] = r[j]
  OBVIOUS
<1>4. Wrap(i + 1) \in Index /\ Wrap(i + 1) = Place(o, e + 2) /\ e + 1 \in 0 .. Size
  BY <1>1, <1>2 DEF Wrap, Place, Index
<1> HIDE DEF ws
<1>5. Place(o, e + 2) = Place(o, (e + 1) + 1)
  BY <1>1
<1>6. RingIs(r2, e + 1, Wrap(i + 1), o)
  BY <1>1, <1>3, <1>4, <1>5, RingByPlace
<1>7. /\ w2 \in Seq(Msg \cup {NoMsg}) /\ Len(w2) = e + 1
      /\ \A k \in 1 .. e + 1 : w2[k] = r2[Place(o, k)]
  BY ONLY <1>6, WordsAre
<1> HIDE DEF w2
<1>8. /\ Append(ws, v) \in Seq(Msg \cup {NoMsg}) /\ Len(Append(ws, v)) = e + 1
      /\ \A k \in 1 .. e : Append(ws, v)[k] = ws[k]
      /\ Append(ws, v)[e + 1] = v
  BY <1>1, <1>2
<1>9. ASSUME NEW k \in 1 .. e + 1
      PROVE  w2[k] = Append(ws, v)[k]
  <2>1. CASE k = e + 1
    BY <1>2, <1>3, <1>7, <1>8, <2>1
  <2>2. CASE k # e + 1
    <3>1. k \in 1 .. e
      BY <1>1, <2>2
    <3>2. Place(o, k) # i
      BY <1>1, <1>2, <3>1 DEF Place
    <3>3. QED BY <1>2, <1>3, <1>7, <1>8, <3>1, <3>2
  <2>3. QED BY <2>1, <2>2
<1>10. w2 = Append(ws, v)
  BY <1>7, <1>8, <1>9, SeqEqual
<1>11. QED BY <1>2, <1>6, <1>10 DEF w2, ws

\* An urgent word goes to the front, into the place before the first one.
LEMMA PutFrontRing ==
  ASSUME NEW r, NEW e, NEW i, NEW o, RingIs(r, e, i, o), e < Size, NEW v \in Msg,
         NEW o2, o2 = IF o > 0 THEN o - 1 ELSE Size - 1,
         NEW r2 \in [Index -> Msg \cup {NoMsg}], r2[o2] = v,
         \A j \in Index \ {o2} : r2[j] = r[j]
  PROVE  /\ RingIs(r2, e + 1, i, o2)
         /\ Len(WordsOf(r, e, o)) = e
         /\ WordsOf(r2, e + 1, o2) = <<v>> \o WordsOf(r, e, o)
<1> DEFINE ws == WordsOf(r, e, o)
           w2 == WordsOf(r2, e + 1, o2)
<1>1. /\ Size \in Nat \ {0} /\ e \in 0 .. Size - 1
      /\ o \in 0 .. Size - 1 /\ i \in Index /\ o \in Index
  BY MailboxAssumption DEF RingIs, Index
<1>2. /\ ws \in Seq(Msg \cup {NoMsg}) /\ Len(ws) = e
      /\ \A k \in 1 .. e : Place(o, k) \in Index /\ ws[k] = r[Place(o, k)]
      /\ i = Place(o, e + 1)
  BY WordsAre
<1>3. /\ o2 \in Index /\ Place(o2, 1) = o2
      /\ \A k \in 1 .. e + 1 : Place(o2, k + 1) = Place(o, k)
  BY <1>1 DEF Place, Index
<1>4. /\ r2 \in [Index -> Msg \cup {NoMsg}] /\ r2[o2] = v
      /\ \A j \in Index : j # o2 => r2[j] = r[j]
  OBVIOUS
<1> HIDE DEF ws
<1>5. i = Place(o2, (e + 1) + 1) /\ e + 1 \in 0 .. Size
  BY <1>1, <1>2, <1>3
<1>6. RingIs(r2, e + 1, i, o2)
  BY <1>1, <1>3, <1>4, <1>5, RingByPlace
<1>7. /\ w2 \in Seq(Msg \cup {NoMsg}) /\ Len(w2) = e + 1
      /\ \A k \in 1 .. e + 1 : w2[k] = r2[Place(o2, k)]
  BY ONLY <1>6, WordsAre
<1> HIDE DEF w2
<1>8. /\ <<v>> \o ws \in Seq(Msg \cup {NoMsg}) /\ Len(<<v>> \o ws) = e + 1
      /\ (<<v>> \o ws)[1] = v
      /\ \A k \in 1 .. e : (<<v>> \o ws)[k + 1] = ws[k]
  <2>1. <<v>> \in Seq(Msg \cup {NoMsg}) /\ Len(<<v>>) = 1 /\ <<v>>[1] = v
    OBVIOUS
  <2>2. QED BY <1>1, <1>2, <2>1, ConcatProperties
<1>9. ASSUME NEW k \in 1 .. e + 1
      PROVE  w2[k] = (<<v>> \o ws)[k]
  <2>1. CASE k = 1
    BY <1>1, <1>3, <1>4, <1>7, <1>8, <2>1
  <2>2. CASE k # 1
    <3>1. PICK j \in 1 .. e : k = j + 1
      BY <1>1, <2>2
    <3>2. Place(o2, k) = Place(o, j) /\ Place(o, j) \in Index
      BY <1>1, <1>2, <1>3, <3>1
    <3>3. Place(o, j) # o2
      BY <1>1, <3>1 DEF Place
    <3>4. QED BY <1>2, <1>4, <1>7, <1>8, <3>1, <3>2, <3>3
  <2>3. QED BY <2>1, <2>2
<1>10. w2 = <<v>> \o ws
  BY <1>7, <1>8, <1>9, SeqEqual
<1>11. QED BY <1>2, <1>6, <1>10 DEF w2, ws

\* The word at the first place is the first of the queue, and dropping it
\* leaves the rest.
LEMMA DropRing ==
  ASSUME NEW r, NEW e, NEW i, NEW o, RingIs(r, e, i, o), e > 0
  PROVE  /\ RingIs(r, e - 1, i, Wrap(o + 1))
         /\ WordsOf(r, e, o) # <<>>
         /\ Head(WordsOf(r, e, o)) = r[o]
         /\ WordsOf(r, e - 1, Wrap(o + 1)) = Tail(WordsOf(r, e, o))
<1> DEFINE o2 == Wrap(o + 1)
           ws == WordsOf(r, e, o)
           w2 == WordsOf(r, e - 1, o2)
<1>1. /\ Size \in Nat \ {0} /\ e \in 1 .. Size /\ e - 1 \in 0 .. Size
      /\ o \in 0 .. Size - 1 /\ i \in Index /\ o \in Index
      /\ r \in [Index -> Msg \cup {NoMsg}]
  BY MailboxAssumption DEF RingIs, Index
<1>2. /\ ws \in Seq(Msg \cup {NoMsg}) /\ Len(ws) = e
      /\ \A k \in 1 .. e : Place(o, k) \in Index /\ ws[k] = r[Place(o, k)]
      /\ i = Place(o, e + 1)
  BY WordsAre
<1>3. /\ o2 \in Index /\ Place(o, 1) = o
      /\ \A k \in 1 .. e : Place(o2, k) = Place(o, k + 1)
  BY <1>1 DEF Place, Index, Wrap
<1> HIDE DEF o2, ws
<1>4. i = Place(o2, (e - 1) + 1)
  BY <1>1, <1>2, <1>3
<1>5. RingIs(r, e - 1, i, o2)
  BY <1>1, <1>3, <1>4, RingByPlace
<1>6. /\ w2 \in Seq(Msg \cup {NoMsg}) /\ Len(w2) = e - 1
      /\ \A k \in 1 .. e - 1 : w2[k] = r[Place(o2, k)]
  BY <1>5, WordsAre
<1> HIDE DEF w2
<1>7. /\ ws # <<>> /\ Head(ws) = ws[1]
      /\ Tail(ws) \in Seq(Msg \cup {NoMsg}) /\ Len(Tail(ws)) = e - 1
      /\ \A k \in 1 .. e - 1 : Tail(ws)[k] = ws[k + 1]
  BY <1>1, <1>2, HeadTailProperties
<1>8. \A k \in 1 .. e - 1 : w2[k] = Tail(ws)[k]
  BY <1>1, <1>2, <1>3, <1>6, <1>7
<1>9. w2 = Tail(ws)
  BY <1>6, <1>7, <1>8, SeqEqual
<1>10. Head(ws) = r[o]
  BY <1>1, <1>2, <1>3, <1>7
<1>11. QED BY <1>5, <1>7, <1>9, <1>10 DEF w2, ws, o2

-----------------------------------------------------------------------------
(* The waits: what the receivers wait for are the words, what the senders   *)
(* wait for are the free places.                                            *)

Places == {"run", "sendSwitch", "sendWait", "recvSwitch", "recvWait"}

Left == [q \in Queue |-> IF q = "recv" THEN entry ELSE Size - entry]

\* The part of the inductive invariant that is about the waits
WaitsOK == WaitsFor(Places, Left) /\ entry \in 0 .. Size

\* The numbers before and after a step, for the lemmas about the waits
LEMMA Numbers ==
  ASSUME WaitsOK
  PROVE  /\ TwoLists(Places)
         /\ \E n \in [Queue -> Nat] : n = Left /\ WaitsFor(Places, n)
         /\ Left["recv"] = entry /\ Left["send"] = Size - entry
         /\ "recv" \in Queue /\ "send" \in Queue
<1>1. Queue = {"recv", "send"} /\ TwoLists(Places)
  BY MailboxAssumption DEF TwoLists, Places
<1>2. Left \in [Queue -> Nat]
  BY MailboxAssumption DEF WaitsOK, Left
<1>3. Left["recv"] = entry /\ Left["send"] = Size - entry
  BY <1>1 DEF Left
<1>4. QED BY <1>1, <1>2, <1>3 DEF WaitsOK

\* What a step has to show for the waits
LEMMA NumbersAfter ==
  ASSUME entry' \in 0 .. Size
  PROVE  \E m \in [Queue -> Nat] : /\ m["recv"] = entry' /\ m["send"] = Size - entry'
                                   /\ WaitsFor(Places, m)' => WaitsOK'
<1>0. PICK e \in 0 .. Size : e = entry'
  OBVIOUS
<1>1. Queue = {"recv", "send"}
  BY MailboxAssumption
<1>2. PICK m : m = [q \in Queue |-> IF q = "recv" THEN e ELSE Size - e]
  OBVIOUS
<1>3. m \in [Queue -> Nat] /\ m["recv"] = entry' /\ m["send"] = Size - entry'
  <2>1. e \in Nat /\ Size - e \in Nat
    BY MailboxAssumption
  <2>2. m["recv"] = e /\ m["send"] = Size - e
    BY <1>1, <1>2
  <2>3. m \in [Queue -> Nat]
    BY <1>2, <2>1
  <2>4. QED BY <1>0, <2>2, <2>3
<1>4. WaitsFor(Places, m)' => WaitsOK'
  BY <1>0, <1>2 DEF WaitsOK, WaitsFor, Left
<1>5. QED BY <1>3, <1>4

\* The same for a step that leaves the number of words alone
LEMMA NumbersStay ==
  ASSUME WaitsOK, entry' = entry,
         NEW n \in [Queue -> Nat], n = Left, WaitsFor(Places, n)'
  PROVE  WaitsOK'
<1>1. entry' \in 0 .. Size
  BY DEF WaitsOK
<1>2. Left' = Left
  BY DEF Left
<1>3. QED BY <1>1, <1>2 DEF WaitsOK, WaitsFor

\* A word is put, or taken, and the first who waits for that is woken.
LEMMA WakeStep ==
  ASSUME WaitsOK, NEW q \in Queue, NEW o \in Queue, o # q,
         entry' = IF q = "recv" THEN entry + 1 ELSE entry - 1, entry' \in 0 .. Size,
         WakeOne(q, "ok"),
         \/ pc' = pc
         \/ \E t \in Bound(o) : /\ sched.stat[t] = "running"
                                /\ pc' = [pc EXCEPT ![t] = "run"]
  PROVE  WaitsOK'
<1>1. PICK n \in [Queue -> Nat] : n = Left /\ WaitsFor(Places, n)
  BY Numbers
<1>2. PICK m \in [Queue -> Nat] : /\ m["recv"] = entry' /\ m["send"] = Size - entry'
                                  /\ WaitsFor(Places, m)' => WaitsOK'
  BY NumbersAfter
<1>3. TwoLists(Places) /\ n["recv"] = entry /\ n["send"] = Size - entry
  BY <1>1, Numbers
<1>4. /\ m[q] <= n[q] + 1 /\ m[o] <= n[o] /\ m[o] < n[o]
      /\ In(o) \cap In(q) = {} /\ "run" \notin In(o)
  BY <1>2, <1>3, MailboxAssumption DEF WaitsOK, In
<1>5. \/ pc' = pc
      \/ \E t \in Thread : /\ sched.stat[t] = "running" /\ pc[t] # "run"
                           /\ pc[t] \notin In(q)
                           /\ pc[t] \in In(o) => m[o] < n[o]
                           /\ pc' = [pc EXCEPT ![t] = "run"]
  BY <1>4 DEF Bound
<1>6. WaitsFor(Places, m)'
  BY <1>1, <1>3, <1>4, <1>5, WakeSide
<1>7. QED BY <1>2, <1>6

-----------------------------------------------------------------------------
(* The actions                                                             *)

MbTypeOK ==
  /\ live \in BOOLEAN
  /\ value \in [Thread -> Msg \cup {NoMsg}]
  /\ timed \in [Thread -> BOOLEAN]
  /\ got \in [Thread -> Msg \cup {NoMsg}]

SendersHaveWords == \A t \in Thread : pc[t] \in In("send") => value[t] \in Msg

\* The inductive invariant
IInv ==
  /\ WaitsOK
  /\ RingOK
  /\ MbTypeOK
  /\ SendersHaveWords

\* A step of the mailbox is one of the queue or changes nothing of it.
AbstractStep == [Box!ChanNext]_(Box!chanVars)

\* The parts of the state as the lemmas above name them
LEMMA Parts ==
  /\ Words = WordsOf(pool, entry, outOff)
  /\ Coming("recvSwitch", "recvWait") = Bound("recv")
  /\ Coming("sendSwitch", "sendWait") = Bound("send")
  /\ "recv" \in Queue /\ "send" \in Queue /\ Queue = {"recv", "send"}
BY MailboxAssumption DEF Words, WordsOf, Coming, Bound, In

\* What the words in the ring are, beside being of the pool's type: nothing was
\* read of a place that no send has filled.
WordsSent == Words \in Seq(Msg)

\* The wait lists, from what is known of every list of an IPC object
LEMMA ListsAreWaiters ==
  ASSUME IInv
  PROVE  WaitersListed
<1> DEFINE S(q) == {t \in Thread : sched.stat[t] = "suspend" /\ pc[t] \in In(q)}
<1>1. PICK n \in [Queue -> Nat] : n = Left /\ WaitsFor(Places, n)
  BY Numbers DEF IInv
<1>2. TwoLists(Places)
  BY Numbers DEF IInv
<1>3. ASSUME NEW q \in Queue
      PROVE  ToSet(waitq[q]) = S(q)
  <2>1. \A t \in ToSet(waitq[q]) : t \in S(q)
    BY <1>1, <1>2, Sides
  <2>2. ASSUME NEW t \in S(q)
        PROVE  t \in ToSet(waitq[q])
    <3>1. pc[t] \in In(q) /\ pc[t] # "run"
      BY DEF In
    <3>2. PICK p \in Queue : t \in ToSet(waitq[p])
      BY <1>1, <3>1 DEF WaitsFor, WaitInv, ListsAgree
    <3>3. pc[t] \in In(p)
      BY <1>1, <3>2 DEF WaitsFor, ListsFit
    <3>4. p # q => In(p) \cap In(q) = {}
      BY Parts DEF In
    <3>5. QED BY <3>1, <3>2, <3>3, <3>4
  <2> HIDE DEF S
  <2>3. QED BY <2>1, <2>2
<1>4. S("recv") = Suspended("recvSwitch", "recvWait") /\ S("send") = Suspended("sendSwitch", "sendWait")
  BY DEF In, Suspended
<1>5. \A q \in Queue : IsInjective(waitq[q])
  BY <1>1 DEF WaitsFor, WaitInv, ListsAgree
<1> HIDE DEF S
<1>6. QED BY <1>3, <1>4, <1>5, Parts DEF WaitersListed

\* A queue of words that were sent stays one.
LEMMA SentWords ==
  ASSUME WordsSent, AbstractStep
  PROVE  WordsSent'
<1>1. CASE \E v \in Msg : Box!Put(v) \/ Box!PutFirst(v)
  <2>1. PICK v \in Msg : Words' = Append(Words, v) \/ Words' = <<v>> \o Words
    BY <1>1 DEF Box!Put, Box!PutFirst
  <2>2. Append(Words, v) \in Seq(Msg) /\ <<v>> \o Words \in Seq(Msg)
    BY DEF WordsSent
  <2>3. QED BY <2>1, <2>2 DEF WordsSent
<1>2. CASE (\E t \in Thread : Box!Take(t)) \/ Box!TakeAway
  <2>1. Words # <<>> /\ Words' = Tail(Words)
    BY <1>2 DEF Box!Take, Box!TakeAway
  <2>2. QED BY <2>1 DEF WordsSent
<1>3. CASE Box!Clear
  BY <1>3 DEF Box!Clear, WordsSent
<1>4. CASE (\E t \in Thread : Box!Forget(t)) \/ UNCHANGED Box!chanVars
  BY <1>4 DEF Box!Forget, Box!chanVars, WordsSent
<1>5. QED BY <1>1, <1>2, <1>3, <1>4 DEF AbstractStep, Box!ChanNext

\* The invariant says what the properties say.
LEMMA InvFromIInv ==
  ASSUME IInv
  PROVE  /\ WordsSent => MailboxInv
         /\ NoWordForgotten /\ NoRoomForgotten
<1>1. TypeOK
  BY DEF IInv, WaitsOK, WaitsFor, WaitTypeOK, Places, RingOK, RingIs, Index, MbTypeOK, TypeOK
<1>2. OffsetsAgree
  BY DEF IInv, RingOK, RingIs, OffsetsAgree
<1>3. NoWordForgotten
  BY Parts, Numbers DEF IInv, WaitsOK, WaitsFor, NoWordForgotten
<1>4. NoRoomForgotten
  BY Parts, Numbers DEF IInv, WaitsOK, WaitsFor, NoRoomForgotten
<1>5. ASSUME WordsSent
      PROVE  PlacesFilled
  <2>1. Len(Words) = entry
    BY Parts, WordsAre DEF IInv, RingOK
  <2>2. QED BY <1>5, <2>1 DEF WordsSent, PlacesFilled
<1>6. TimersAgree
  BY DEF IInv, WaitsOK, WaitsFor, WaitInv
<1>7. QED BY <1>1, <1>2, <1>3, <1>4, <1>5, <1>6, ListsAreWaiters DEF MailboxInv

\* A word is put into the ring: by a thread that just called, by one that has
\* waited, or by an interrupt.
LEMMA PutSide ==
  ASSUME IInv, NEW v \in Msg, entry < Size, PutWord(v) \/ PutFront(v),
         \/ pc' = pc
         \/ \E t \in Bound("send") : /\ sched.stat[t] = "running"
                                     /\ pc' = [pc EXCEPT ![t] = "run"]
  PROVE  /\ WaitsOK' /\ RingOK'
         /\ Len(Words) < Size
         /\ Words' = Append(Words, v) \/ Words' = <<v>> \o Words
<1>1. /\ "recv" \in Queue /\ "send" \in Queue
      /\ entry' \in 0 .. Size /\ entry' = entry + 1
      /\ WakeOne("recv", "ok")
  <2>1. entry \in 0 .. Size /\ Size \in Nat \ {0}
    BY MailboxAssumption DEF IInv, WaitsOK
  <2>2. entry' = entry + 1 /\ WakeOne("recv", "ok")
    BY DEF PutWord, PutFront
  <2>3. QED BY <2>1, <2>2, MailboxAssumption
<1>2. WaitsOK'
  BY <1>1, WakeStep DEF IInv
<1>3. RingIs(pool, entry, inOff, outOff)
  BY DEF IInv, RingOK
<1>4. Words = WordsOf(pool, entry, outOff) /\ Words' = WordsOf(pool', entry', outOff')
  BY DEF Words, WordsOf
<1>5. CASE PutWord(v)
  <2>1. /\ pool' = [pool EXCEPT ![inOff] = v] /\ inOff' = Wrap(inOff + 1)
        /\ outOff' = outOff
    BY <1>5 DEF PutWord
  <2>2. /\ pool' \in [Index -> Msg \cup {NoMsg}] /\ pool'[inOff] = v
        /\ \A j \in Index \ {inOff} : pool'[j] = pool[j]
    BY <1>3, <2>1 DEF RingIs
  <2>3. /\ RingIs(pool', entry + 1, Wrap(inOff + 1), outOff)
        /\ Len(WordsOf(pool, entry, outOff)) = entry
        /\ WordsOf(pool', entry + 1, outOff) = Append(WordsOf(pool, entry, outOff), v)
    BY <1>3, <2>2, PutRing
  <2>4. QED BY <1>1, <1>2, <1>4, <2>1, <2>3 DEF RingOK
<1>6. CASE PutFront(v)
  <2>1. /\ outOff' = IF outOff > 0 THEN outOff - 1 ELSE Size - 1
        /\ pool' = [pool EXCEPT ![outOff'] = v] /\ inOff' = inOff
    BY <1>6 DEF PutFront
  <2>2. PICK o2 : o2 = outOff'
    OBVIOUS
  <2>3. /\ pool' \in [Index -> Msg \cup {NoMsg}] /\ pool'[o2] = v
        /\ \A j \in Index \ {o2} : pool'[j] = pool[j]
    BY <1>3, <2>1, <2>2, MailboxAssumption DEF RingIs, Index
  <2>4. o2 = IF outOff > 0 THEN outOff - 1 ELSE Size - 1
    BY <2>1, <2>2
  <2>5. /\ RingIs(pool', entry + 1, inOff, o2)
        /\ Len(WordsOf(pool, entry, outOff)) = entry
        /\ WordsOf(pool', entry + 1, o2) = <<v>> \o WordsOf(pool, entry, outOff)
    BY <1>3, <2>3, <2>4, PutFrontRing
  <2>6. QED BY <1>1, <1>2, <1>4, <2>1, <2>2, <2>5 DEF RingOK
<1>7. QED BY <1>5, <1>6

\* The first word is taken out of the ring.
LEMMA DropSide ==
  ASSUME IInv, entry > 0, DropWord,
         \/ pc' = pc
         \/ \E t \in Bound("recv") : /\ sched.stat[t] = "running"
                                     /\ pc' = [pc EXCEPT ![t] = "run"]
  PROVE  /\ WaitsOK' /\ RingOK'
         /\ Words # <<>> /\ Head(Words) = pool[outOff] /\ Words' = Tail(Words)
         /\ pool[outOff] \in Msg \cup {NoMsg}
<1>1. /\ "recv" \in Queue /\ "send" \in Queue
      /\ entry' \in 0 .. Size /\ entry' = entry - 1
      /\ WakeOne("send", "ok")
  <2>1. entry \in 0 .. Size /\ Size \in Nat \ {0}
    BY MailboxAssumption DEF IInv, WaitsOK
  <2>2. entry' = entry - 1 /\ WakeOne("send", "ok")
    BY DEF DropWord
  <2>3. QED BY <2>1, <2>2, MailboxAssumption
<1>2. WaitsOK'
  BY <1>1, WakeStep DEF IInv
<1>3. RingIs(pool, entry, inOff, outOff)
  BY DEF IInv, RingOK
<1>4. Words = WordsOf(pool, entry, outOff) /\ Words' = WordsOf(pool', entry', outOff')
  BY DEF Words, WordsOf
<1>5. outOff' = Wrap(outOff + 1) /\ pool' = pool /\ inOff' = inOff
  BY DEF DropWord
<1>6. /\ RingIs(pool, entry - 1, inOff, Wrap(outOff + 1))
      /\ WordsOf(pool, entry, outOff) # <<>>
      /\ Head(WordsOf(pool, entry, outOff)) = pool[outOff]
      /\ WordsOf(pool, entry - 1, Wrap(outOff + 1)) = Tail(WordsOf(pool, entry, outOff))
  BY <1>3, DropRing
<1>7. pool[outOff] \in Msg \cup {NoMsg}
  BY <1>3 DEF RingIs
<1>8. QED BY <1>1, <1>2, <1>4, <1>5, <1>6, <1>7 DEF RingOK

\* A thread that was woken with RT_EOK and runs is one of those under way.
LEMMA RunningIsBound ==
  ASSUME NEW t \in Thread, NEW q \in Queue, NEW l \in In(q), At(t, l), err[t] = "ok"
  PROVE  t \in Bound(q) /\ sched.stat[t] = "running"
BY DEF At, cur, Bound

\* Putting a word
LEMMA SendStep ==
  ASSUME IInv, NEW t \in Thread, NEW v,
         (v \in Msg /\ (SendNow(t, v) \/ SendIsr(v) \/ Urgent(t, v))) \/ SendGoesOn(t)
  PROVE  IInv' /\ AbstractStep
<1>1. entry \in 0 .. Size /\ MbTypeOK /\ SendersHaveWords /\ pc \in [Thread -> Places]
  BY DEF IInv, WaitsOK, WaitsFor, WaitTypeOK
<1>2. ASSUME NEW w \in Msg, WaitsOK', RingOK', Len(Words) < Size, UNCHANGED got,
             Words' = Append(Words, w) \/ Words' = <<w>> \o Words
      PROVE  AbstractStep
  <2>1. Box!Put(w) \/ Box!PutFirst(w)
    BY <1>2 DEF Box!Put, Box!PutFirst
  <2>2. QED BY <2>1 DEF AbstractStep, Box!ChanNext
<1>3. CASE v \in Msg /\ (SendNow(t, v) \/ SendIsr(v) \/ Urgent(t, v))
  <2>1. /\ PutWord(v) \/ PutFront(v)
        /\ entry < Size /\ pc' = pc
        /\ UNCHANGED <<live, value, timed, got>>
    BY <1>1, <1>3, MailboxAssumption DEF SendNow, SendIsr, Urgent
  <2>2. /\ WaitsOK' /\ RingOK' /\ Len(Words) < Size
        /\ Words' = Append(Words, v) \/ Words' = <<v>> \o Words
    BY <1>3, <2>1, PutSide
  <2>3. MbTypeOK' /\ SendersHaveWords'
    BY <1>1, <2>1 DEF MbTypeOK, SendersHaveWords
  <2>4. QED BY <1>2, <1>3, <2>1, <2>2, <2>3 DEF IInv
<1>4. CASE SendGoesOn(t)
  <2>1. /\ At(t, "sendWait") /\ err[t] = "ok" /\ entry < Size
        /\ PutWord(value[t]) /\ Done(t) /\ UNCHANGED <<live, got>>
    BY <1>4 DEF SendGoesOn
  <2>2. "sendWait" \in In("send") /\ "send" \in Queue /\ "run" \notin In("send")
    BY MailboxAssumption DEF In
  <2>3. value[t] \in Msg /\ t \in Bound("send") /\ sched.stat[t] = "running"
    BY <1>1, <2>1, <2>2, RunningIsBound DEF At, SendersHaveWords
  <2>4. pc' = [pc EXCEPT ![t] = "run"]
    BY <2>1 DEF Done
  <2>5. /\ WaitsOK' /\ RingOK' /\ Len(Words) < Size
        /\ Words' = Append(Words, value[t]) \/ Words' = <<value[t]>> \o Words
    BY <2>1, <2>3, <2>4, PutSide
  <2>6. MbTypeOK'
    BY <1>1, <2>1 DEF MbTypeOK, Done
  <2>7. SendersHaveWords'
    BY <1>1, <2>1, <2>2, <2>4 DEF MbTypeOK, SendersHaveWords, Done
  <2>8. QED BY <1>2, <2>1, <2>3, <2>5, <2>6, <2>7 DEF IInv
<1>5. QED BY <1>3, <1>4

\* Taking a word
LEMMA RecvStep ==
  ASSUME IInv, NEW t \in Thread, RecvNow(t) \/ RecvIsr \/ RecvGoesOn(t)
  PROVE  IInv' /\ AbstractStep
<1>1. MbTypeOK /\ SendersHaveWords /\ pc \in [Thread -> Places]
  BY DEF IInv, WaitsOK, WaitsFor, WaitTypeOK
<1>2. "recv" \in Queue /\ "recvWait" \in In("recv") /\ "run" \notin In("send")
  BY MailboxAssumption DEF In
<1>3. /\ DropWord /\ entry > 0 /\ UNCHANGED live
      /\ \/ pc' = pc
         \/ \E x \in Bound("recv") : /\ sched.stat[x] = "running"
                                     /\ pc' = [pc EXCEPT ![x] = "run"]
  <2>1. CASE RecvNow(t) \/ RecvIsr
    BY <2>1 DEF RecvNow, RecvIsr, TakeWord
  <2>2. CASE RecvGoesOn(t)
    <3>1. t \in Bound("recv") /\ sched.stat[t] = "running"
      BY <1>2, <2>2, RunningIsBound DEF RecvGoesOn
    <3>2. QED BY <2>2, <3>1 DEF RecvGoesOn, TakeWord, Done
  <2>3. QED BY <2>1, <2>2
<1>4. /\ WaitsOK' /\ RingOK'
      /\ Words # <<>> /\ Head(Words) = pool[outOff] /\ Words' = Tail(Words)
      /\ pool[outOff] \in Msg \cup {NoMsg}
  BY <1>3, DropSide
<1>5. MbTypeOK' /\ SendersHaveWords'
  <2>1. CASE RecvNow(t) \/ RecvIsr
    BY <1>1, <1>4, <2>1 DEF RecvNow, RecvIsr, TakeWord, MbTypeOK, SendersHaveWords
  <2>2. CASE RecvGoesOn(t)
    <3>1. MbTypeOK'
      BY <1>1, <1>4, <2>2 DEF RecvGoesOn, TakeWord, Done, MbTypeOK
    <3>2. SendersHaveWords'
      BY <1>1, <1>2, <2>2 DEF RecvGoesOn, Done, MbTypeOK, SendersHaveWords
    <3>3. QED BY <3>1, <3>2
  <2>3. QED BY <2>1, <2>2
<1>6. CASE RecvNow(t) \/ RecvGoesOn(t)
  <2>1. got' = [got EXCEPT ![t] = Head(Words)]
    BY <1>4, <1>6 DEF RecvNow, RecvGoesOn, TakeWord
  <2>2. Box!Take(t)
    BY <1>4, <2>1 DEF Box!Take
  <2>3. QED BY <1>4, <1>5, <2>2 DEF IInv, AbstractStep, Box!ChanNext
<1>7. CASE RecvIsr
  <2>1. Box!TakeAway
    BY <1>4, <1>7 DEF Box!TakeAway, RecvIsr
  <2>2. QED BY <1>4, <1>5, <2>1 DEF IInv, AbstractStep, Box!ChanNext
<1>8. QED BY <1>6, <1>7

\* The ring and its words, when a step leaves the ring alone
LEMMA SameRing ==
  ASSUME IInv, UNCHANGED ring
  PROVE  RingOK' /\ Words' = Words /\ entry' = entry
BY DEF ring, IInv, RingOK, RingIs, Words, Index

\* Waiting, for the first time or again
LEMMA WaitStep ==
  ASSUME IInv, NEW t \in Thread, NEW v,
         (v \in Msg /\ SendWait(t, v)) \/ SendAgain(t) \/ RecvWait(t) \/ RecvAgain(t)
  PROVE  IInv' /\ AbstractStep
<1>1. /\ MbTypeOK /\ SendersHaveWords /\ pc \in [Thread -> Places]
      /\ entry \in 0 .. Size /\ Size \in Nat \ {0}
  BY MailboxAssumption DEF IInv, WaitsOK, WaitsFor, WaitTypeOK
<1>2. /\ "recv" \in Queue /\ "send" \in Queue
      /\ "sendSwitch" \in In("send") /\ "sendWait" \in In("send")
      /\ "recvSwitch" \in In("recv") /\ "recvWait" \in In("recv")
      /\ "recvSwitch" \notin In("send")
  BY MailboxAssumption DEF In
<1>3. UNCHANGED ring /\ live' = live
  BY DEF SendWait, SendAgain, RecvWait, RecvAgain, mbVars, ring
<1>4. RingOK' /\ Words' = Words /\ entry' = entry
  BY <1>3, SameRing
<1>5. CASE (v \in Msg /\ SendWait(t, v)) \/ SendAgain(t)
  <2>1. PICK b \in BOOLEAN :
          /\ Block(t, "send", b, "sendSwitch")
          /\ timed' = [timed EXCEPT ![t] = b] \/ timed' = timed
    BY <1>1, <1>5 DEF SendWait, SendAgain, Timeouts, mbVars, MbTypeOK
  <2>2. /\ At(t, "run") \/ At(t, "sendWait")
        /\ entry = Size /\ got' = got
    BY <1>5 DEF SendWait, SendAgain, mbVars
  <2>3. At(t, pc[t]) /\ (pc[t] = "run" \/ pc[t] \in In("send"))
    BY <1>1, <1>2, <2>2 DEF At
  <2>4. WaitsOK'
    <3>1. PICK n \in [Queue -> Nat] : n = Left /\ WaitsFor(Places, n)
      BY Numbers DEF IInv
    <3>2. n["send"] = 0
      BY <1>1, <2>2, <3>1, Numbers DEF IInv
    <3>3. TwoLists(Places)
      BY Numbers DEF IInv
    <3>4. WaitsFor(Places, n)'
      BY <1>2, <2>1, <2>3, <3>1, <3>2, <3>3, BlockSide
    <3>5. QED BY <1>4, <3>1, <3>4, NumbersStay DEF IInv
  <2>5. /\ value' \in [Thread -> Msg \cup {NoMsg}]
        /\ \A x \in Thread \ {t} : value'[x] = value[x]
        /\ value'[t] \in Msg
    <3>1. CASE v \in Msg /\ SendWait(t, v)
      BY <1>1, <3>1 DEF SendWait, MbTypeOK
    <3>2. CASE SendAgain(t)
      BY <1>1, <1>2, <3>2 DEF SendAgain, MbTypeOK, SendersHaveWords, At, mbVars
    <3>3. QED BY <1>5, <3>1, <3>2
  <2>6. SendersHaveWords'
    BY <1>1, <2>1, <2>5 DEF SendersHaveWords, Block
  <2>7. MbTypeOK'
    BY <1>1, <1>3, <2>1, <2>2, <2>5 DEF MbTypeOK
  <2>8. UNCHANGED Box!chanVars
    BY <1>4, <2>2 DEF Box!chanVars
  <2>9. QED BY <1>4, <2>4, <2>6, <2>7, <2>8 DEF IInv, AbstractStep
<1>6. CASE RecvWait(t) \/ RecvAgain(t)
  <2>1. PICK b \in BOOLEAN :
          /\ Block(t, "recv", b, "recvSwitch")
          /\ timed' = [timed EXCEPT ![t] = b] \/ timed' = timed
    BY <1>1, <1>6 DEF RecvWait, RecvAgain, Timeouts, mbVars, MbTypeOK
  <2>2. /\ At(t, "run") \/ At(t, "recvWait")
        /\ entry = 0 /\ value' = value
        /\ got' = [got EXCEPT ![t] = NoMsg] \/ got' = got
    BY <1>6 DEF RecvWait, RecvAgain, mbVars
  <2>3. At(t, pc[t]) /\ (pc[t] = "run" \/ pc[t] \in In("recv"))
    BY <1>2, <2>2 DEF At
  <2>4. WaitsOK'
    <3>1. PICK n \in [Queue -> Nat] : n = Left /\ WaitsFor(Places, n)
      BY Numbers DEF IInv
    <3>2. n["recv"] = 0
      BY <2>2, <3>1, Numbers DEF IInv
    <3>3. TwoLists(Places)
      BY Numbers DEF IInv
    <3>4. WaitsFor(Places, n)'
      BY <1>2, <2>1, <2>3, <3>1, <3>2, <3>3, BlockSide
    <3>5. QED BY <1>4, <3>1, <3>4, NumbersStay DEF IInv
  <2>5. SendersHaveWords'
    BY <1>1, <1>2, <2>1, <2>2 DEF SendersHaveWords, Block
  <2>6. MbTypeOK'
    BY <1>1, <1>3, <2>1, <2>2 DEF MbTypeOK
  <2>7. CASE got' = got
    <3>1. UNCHANGED Box!chanVars
      BY <1>4, <2>7 DEF Box!chanVars
    <3>2. QED BY <1>4, <2>4, <2>5, <2>6, <3>1 DEF IInv, AbstractStep
  <2>8. CASE got' = [got EXCEPT ![t] = NoMsg]
    <3>1. Box!Forget(t)
      BY <1>4, <2>8 DEF Box!Forget
    <3>2. QED BY <1>4, <2>4, <2>5, <2>6, <3>1 DEF IInv, AbstractStep, Box!ChanNext
  <2>9. QED BY <2>2, <2>7, <2>8
<1>7. QED BY <1>5, <1>6

\* A call that ends without a word sent or received
LEMMA LeaveStep ==
  ASSUME IInv, NEW t \in Thread,
         SendFails(t) \/ SendTooLate(t) \/ RecvFails(t) \/ RecvTooLate(t)
  PROVE  IInv' /\ AbstractStep
<1>1. /\ MbTypeOK /\ SendersHaveWords
      /\ pc \in [Thread -> Places] /\ err \in [Thread -> Err]
  BY DEF IInv, WaitsOK, WaitsFor, WaitTypeOK
<1>2. /\ UNCHANGED <<sched, waitq, timer, ttmr>> /\ UNCHANGED ring
      /\ live' = live /\ got' = got /\ Done(t)
  BY DEF SendFails, SendTooLate, RecvFails, RecvTooLate, ring
<1>3. RingOK' /\ Words' = Words /\ entry' = entry
  BY <1>2, SameRing
<1>4. pc' = [pc EXCEPT ![t] = "run"] /\ err' = [err EXCEPT ![t] = "ok"]
  <2>1. CASE SendFails(t) \/ RecvFails(t)
    BY <2>1 DEF SendFails, RecvFails, Done
  <2>2. CASE SendTooLate(t) \/ RecvTooLate(t)
    <3>1. err[t] = "ok" /\ err' = err /\ pc' = [pc EXCEPT ![t] = "run"]
      BY <2>2 DEF SendTooLate, RecvTooLate, Done
    <3>2. QED BY <1>1, <3>1
  <2>3. QED BY <2>1, <2>2
<1>5. PICK q \in Queue : /\ At(t, pc[t]) /\ pc[t] \in In(q)
                         /\ err[t] # "ok" \/ (IF q = "recv" THEN entry ELSE Size - entry) = 0
  <2>1. CASE SendFails(t) \/ SendTooLate(t)
    BY <2>1, Parts, MailboxAssumption DEF SendFails, SendTooLate, At, In
  <2>2. CASE RecvFails(t) \/ RecvTooLate(t)
    BY <2>2, Parts DEF RecvFails, RecvTooLate, At, In
  <2>3. QED BY <2>1, <2>2
<1>6. WaitsOK'
  <2>1. PICK n \in [Queue -> Nat] : n = Left /\ WaitsFor(Places, n)
    BY Numbers DEF IInv
  <2>2. TwoLists(Places) /\ "run" \in Places /\ \A p \in Queue : "run" \notin In(p)
    BY Numbers DEF IInv, Places, In
  <2>3. \A p \in Queue : /\ n[p] <= n[p]
                         /\ t \in Bound(p) => n[p] = 0 \/ n[p] < n[p]
    <3>1. ASSUME NEW p \in Queue, t \in Bound(p)
          PROVE  p = q /\ err[t] = "ok"
      <4>1. pc[t] \in In(p) /\ pc[t] \in In(q) /\ err[t] = "ok"
        BY <1>5, <3>1 DEF Bound
      <4>2. p # q => In(p) \cap In(q) = {}
        BY MailboxAssumption DEF In
      <4>3. QED BY <4>1, <4>2
    <3>2. n[q] = IF q = "recv" THEN entry ELSE Size - entry
      BY <2>1, Parts, Numbers DEF IInv
    <3>3. QED BY <1>5, <3>1, <3>2
  <2>4. WaitsFor(Places, n)'
    BY <1>2, <1>4, <1>5, <2>1, <2>2, <2>3, MoveSide
  <2>5. QED BY <1>3, <2>1, <2>4, NumbersStay DEF IInv
<1>7. MbTypeOK'
  BY <1>1, <1>2 DEF MbTypeOK, Done
<1>8. SendersHaveWords'
  BY <1>1, <1>2, <1>4 DEF SendersHaveWords, Done, In, MbTypeOK
<1>9. UNCHANGED Box!chanVars
  BY <1>2, <1>3 DEF Box!chanVars
<1>10. QED BY <1>3, <1>6, <1>7, <1>8, <1>9 DEF IInv, AbstractStep

\* rt_schedule in a call that waits
LEMMA SwitchStep ==
  ASSUME IInv, NEW t \in Thread, SendSwitch(t) \/ RecvSwitch(t)
  PROVE  IInv' /\ AbstractStep
<1>1. UNCHANGED ring /\ UNCHANGED <<live, value, timed, got>>
  BY DEF SendSwitch, RecvSwitch, mbVars
<1>2. RingOK' /\ Words' = Words /\ entry' = entry
  BY <1>1, SameRing
<1>3. PICK q \in Queue : \E a, b \in In(q) : Switch(t, a, b)
  <2>1. CASE SendSwitch(t)
    BY <2>1, Parts DEF SendSwitch, In
  <2>2. CASE RecvSwitch(t)
    BY <2>2, Parts DEF RecvSwitch, In
  <2>3. QED BY <2>1, <2>2
<1>4. WaitsOK' /\ \A x \in Thread : \A p \in Queue : pc'[x] \in In(p) <=> pc[x] \in In(p)
  <2>1. PICK n \in [Queue -> Nat] : n = Left /\ WaitsFor(Places, n)
    BY Numbers DEF IInv
  <2>2. TwoLists(Places)
    BY Numbers DEF IInv
  <2>3. PICK a \in In(q), b \in In(q) : Switch(t, a, b)
    BY <1>3
  <2>4. /\ WaitsFor(Places, n)'
        /\ \A x \in Thread : \/ pc'[x] = pc[x]
                             \/ pc[x] \in In(q) /\ pc'[x] \in In(q)
    BY <2>1, <2>2, <2>3, SwitchSide
  <2>5. \A p \in Queue : p # q => In(p) \cap In(q) = {}
    BY Parts DEF In
  <2>6. WaitsOK'
    BY <1>2, <2>1, <2>4, NumbersStay DEF IInv
  <2>7. QED BY <2>4, <2>5, <2>6
<1>5. MbTypeOK' /\ SendersHaveWords'
  BY <1>1, <1>4, Parts DEF IInv, MbTypeOK, SendersHaveWords
<1>6. UNCHANGED Box!chanVars
  BY <1>1, <1>2 DEF Box!chanVars
<1>7. QED BY <1>2, <1>4, <1>5, <1>6 DEF IInv, AbstractStep

\* Both wake the waiters of both lists.
LEMMA EndWaits ==
  ASSUME WaitsOK, entry' \in 0 .. Size, Ready(Everyone, "error"), UNCHANGED pc,
         sched' = Readied(Everyone) \/ sched' = Schedule(Readied(Everyone))
  PROVE  WaitsOK'
<1>1. PICK n \in [Queue -> Nat] : WaitsFor(Places, n)
  BY Numbers
<1>2. PICK m \in [Queue -> Nat] : WaitsFor(Places, m)' => WaitsOK'
  BY NumbersAfter
<1>3. TwoLists(Places) /\ Everyone = AllOf("recv") \o AllOf("send")
  BY Numbers DEF Everyone
<1>4. PICK ts : ts = Everyone
  OBVIOUS
<1>5. /\ ts = AllOf("recv") \o AllOf("send") /\ Ready(ts, "error")
      /\ sched' = Readied(ts) \/ sched' = Schedule(Readied(ts))
  BY <1>3, <1>4
<1>6. WaitsFor(Places, m)'
  BY ONLY <1>1, <1>3, <1>5, pc' = pc, EndSide
<1>7. QED BY <1>2, <1>6

\* RT_IPC_CMD_RESET empties the mailbox, rt_mb_detach leaves the words.
LEMMA EndStep ==
  ASSUME IInv, Reset \/ Detach
  PROVE  IInv' /\ AbstractStep
<1>1. /\ Ready(Everyone, "error") /\ UNCHANGED pc
      /\ sched' = Readied(Everyone) \/ sched' = Schedule(Readied(Everyone))
      /\ UNCHANGED <<value, timed, got>> /\ live' \in BOOLEAN
  BY DEF Reset, Detach, WakeAs, IInv, MbTypeOK
<1>2. MbTypeOK' /\ SendersHaveWords'
  BY <1>1 DEF IInv, MbTypeOK, SendersHaveWords
<1>3. CASE Reset
  <2>1. /\ Size \in Nat \ {0} /\ pool' = pool
        /\ entry' = 0 /\ inOff' = 0 /\ outOff' = 0
    BY <1>3, MailboxAssumption DEF Reset
  <2>2. WaitsOK'
    BY <1>1, <2>1, EndWaits DEF IInv
  <2>3. RingIs(pool', 0, 0, 0)
    <3>1. 0 \in Index /\ 0 \in 0 .. Size /\ 0 = Place(0, 0 + 1)
      BY <2>1 DEF Index, Place
    <3>2. pool' \in [Index -> Msg \cup {NoMsg}]
      BY <2>1 DEF IInv, RingOK, RingIs
    <3>3. QED BY <3>1, <3>2, RingByPlace
  <2>4. RingOK'
    BY <2>1, <2>3 DEF RingOK
  <2>5. Words' = <<>>
    <3>1. Words' = WordsOf(pool', 0, 0)
      BY <2>1 DEF Words, WordsOf
    <3>2. Words' \in Seq(Msg \cup {NoMsg}) /\ Len(Words') = 0
      BY <2>3, <3>1, WordsAre
    <3>3. QED BY <3>2
  <2>6. Box!Clear
    BY <1>1, <2>5 DEF Box!Clear
  <2>7. QED BY <1>2, <2>2, <2>4, <2>6 DEF IInv, AbstractStep, Box!ChanNext
<1>4. CASE Detach
  <2>1. UNCHANGED ring
    BY <1>4 DEF Detach
  <2>2. RingOK' /\ Words' = Words /\ entry' = entry
    BY <2>1, SameRing
  <2>3. WaitsOK'
    BY <1>1, <2>2, EndWaits DEF IInv, WaitsOK
  <2>4. UNCHANGED Box!chanVars
    BY <1>1, <2>2 DEF Box!chanVars
  <2>5. QED BY <1>2, <2>2, <2>3, <2>4 DEF IInv, AbstractStep
<1>5. QED BY <1>3, <1>4

\* What leaves the mailbox alone
LEMMA ElsewhereStep ==
  ASSUME IInv, Elsewhere, UNCHANGED mbVars
  PROVE  IInv' /\ AbstractStep
<1>1. UNCHANGED ring /\ UNCHANGED <<live, value, timed, got>>
  BY DEF mbVars
<1>2. RingOK' /\ Words' = Words /\ entry' = entry
  BY <1>1, SameRing
<1>3. WaitsOK' /\ UNCHANGED pc
  <2>1. PICK n \in [Queue -> Nat] : n = Left /\ WaitsFor(Places, n)
    BY Numbers DEF IInv
  <2>2. TwoLists(Places)
    BY Numbers DEF IInv
  <2>3. WaitsFor(Places, n)' /\ UNCHANGED pc
    BY <2>1, <2>2, ElsewhereSide
  <2>4. QED BY <1>2, <2>1, <2>3, NumbersStay DEF IInv
<1>4. MbTypeOK' /\ SendersHaveWords'
  BY <1>1, <1>3 DEF IInv, MbTypeOK, SendersHaveWords
<1>5. UNCHANGED Box!chanVars
  BY <1>1, <1>2 DEF Box!chanVars
<1>6. QED BY <1>2, <1>3, <1>4, <1>5 DEF IInv, AbstractStep

-----------------------------------------------------------------------------
(* The theorems                                                            *)

\* At the start the mailbox is empty and nobody waits.
LEMMA InitHolds ==
  ASSUME Init
  PROVE  IInv /\ Box!ChanInit
<1>1. WaitInit /\ TwoLists(Places)
  BY MailboxAssumption DEF Init, TwoLists, Places
<1>2. Size \in Nat \ {0} /\ entry = 0 /\ inOff = 0 /\ outOff = 0
  BY MailboxAssumption DEF Init
<1>3. WaitsOK
  BY <1>1, <1>2, InitSide DEF WaitsOK
<1>4. RingIs(pool, 0, 0, 0)
  <2>1. 0 \in Index /\ 0 \in 0 .. Size /\ 0 = Place(0, 0 + 1)
    BY <1>2 DEF Index, Place
  <2>2. pool \in [Index -> Msg \cup {NoMsg}]
    BY DEF Init, Index
  <2>3. QED BY <2>1, <2>2, RingByPlace
<1>5. RingOK
  BY <1>2, <1>4 DEF RingOK
<1>6. MbTypeOK /\ SendersHaveWords
  BY DEF Init, WaitInit, MbTypeOK, SendersHaveWords, In
<1>7. Words = <<>>
  <2>1. Words = WordsOf(pool, 0, 0)
    BY <1>2 DEF Words, WordsOf
  <2>2. Words \in Seq(Msg \cup {NoMsg}) /\ Len(Words) = 0
    BY <1>4, <2>1, WordsAre
  <2>3. QED BY <2>2
<1>8. Box!ChanInit
  BY <1>7 DEF Init, Box!ChanInit
<1>9. QED BY <1>3, <1>5, <1>6, <1>8 DEF IInv

\* Every step keeps the invariant and is a step of the queue.
LEMMA NextHolds ==
  ASSUME IInv, [Next]_vars
  PROVE  IInv' /\ AbstractStep
<1>1. CASE \E t \in Thread, v \in Msg : SendNow(t, v) \/ Urgent(t, v)
  BY <1>1, SendStep
<1>2. CASE \E t \in Thread, v \in Msg : SendWait(t, v)
  BY <1>2, WaitStep
<1>3. CASE \E t \in Thread : RecvNow(t)
  BY <1>3, RecvStep
<1>4. CASE \E t \in Thread : RecvWait(t) \/ SendAgain(t) \/ RecvAgain(t)
  BY <1>4, WaitStep
<1>5. CASE \E t \in Thread : SendGoesOn(t)
  BY <1>5, SendStep
<1>6. CASE \E t \in Thread : RecvGoesOn(t)
  BY <1>6, RecvStep
<1>7. CASE \E t \in Thread : SendFails(t) \/ SendTooLate(t) \/ RecvFails(t) \/ RecvTooLate(t)
  BY <1>7, LeaveStep
<1>8. CASE \E t \in Thread : SendSwitch(t) \/ RecvSwitch(t)
  BY <1>8, SwitchStep
<1>9. CASE \E v \in Msg : SendIsr(v)
  BY <1>9, ThreadAssumption, SendStep
<1>10. CASE RecvIsr
  BY <1>10, ThreadAssumption, RecvStep
<1>11. CASE Reset \/ Detach
  BY <1>11, EndStep
<1>12. CASE Elsewhere /\ UNCHANGED mbVars
  BY <1>12, ElsewhereStep
<1>13. CASE UNCHANGED vars
  <2>1. /\ UNCHANGED <<sched, waitq, err, timer, ttmr, pc>>
        /\ UNCHANGED ring /\ UNCHANGED <<live, value, timed, got>>
    BY <1>13 DEF vars, waitVars, mbVars
  <2>2. RingOK' /\ Words' = Words /\ entry' = entry
    BY <2>1, SameRing
  <2>3. WaitsOK'
    BY <2>1, <2>2 DEF IInv, WaitsOK, WaitsFor, WaitTypeOK, WaitInv, ListsAgree, TimersAgree,
                      WaitsFor, ListsFit, Left, Bound
  <2>4. MbTypeOK' /\ SendersHaveWords'
    BY <2>1 DEF IInv, MbTypeOK, SendersHaveWords
  <2>5. UNCHANGED Box!chanVars
    BY <2>1, <2>2 DEF Box!chanVars
  <2>6. QED BY <2>2, <2>3, <2>4, <2>5 DEF IInv, AbstractStep
<1>14. QED
  BY <1>1, <1>2, <1>3, <1>4, <1>5, <1>6, <1>7, <1>8, <1>9, <1>10, <1>11, <1>12, <1>13
     DEF Next, Continue

\* The mailbox after any mix of sends, urgent sends, receives, resets, timeouts
\* and resumes: the offsets of struct rt_mailbox agree with its entry count,
\* every place between them holds a word that was sent, and the two lists hold
\* exactly the threads suspended in a receive and in a send, each once, with a
\* timeout pending where the kernel takes one to be.
THEOREM MailboxState == Spec => []MailboxInv
<1>1. Init => IInv /\ WordsSent
  BY InitHolds DEF Box!ChanInit, WordsSent
<1>2. IInv /\ WordsSent /\ [Next]_vars => IInv' /\ WordsSent'
  BY NextHolds, SentWords
<1>3. IInv /\ WordsSent => MailboxInv
  BY InvFromIInv
<1>4. QED BY <1>1, <1>2, <1>3, PTL DEF Spec

\* No lost wake-up of rt_mb_recv, although a woken receiver has to look again
\* and another one may have been there first: a word that nobody is on his way
\* to take is waited for by nobody.
THEOREM NoLostWord == Spec => []NoWordForgotten
<1>1. Init => IInv
  BY InitHolds
<1>2. IInv /\ [Next]_vars => IInv'
  BY NextHolds
<1>3. IInv => NoWordForgotten
  BY InvFromIInv
<1>4. QED BY <1>1, <1>2, <1>3, PTL DEF Spec

\* The same of rt_mb_send_wait and the room in the pool.
THEOREM NoLostRoom == Spec => []NoRoomForgotten
<1>1. Init => IInv
  BY InitHolds
<1>2. IInv /\ [Next]_vars => IInv'
  BY NextHolds
<1>3. IInv => NoRoomForgotten
  BY InvFromIInv
<1>4. QED BY <1>1, <1>2, <1>3, PTL DEF Spec

\* The mailbox implements a bounded queue: no word is lost, delivered twice or
\* overtaken by a later one that was not urgent.
THEOREM MailboxImplementsChannel == Spec => ImplementsChannel
<1>1. Init => IInv /\ Box!ChanInit
  BY InitHolds
<1>2. IInv /\ [Next]_vars => IInv' /\ [Box!ChanNext]_(Box!chanVars)
  BY NextHolds DEF AbstractStep
<1>3. QED BY <1>1, <1>2, PTL DEF Spec, ImplementsChannel, Box!ChanSpec
=============================================================================
